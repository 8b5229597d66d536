---------------------------- MODULE MCRunDelivery -----------------------------
(* RunDelivery on small instances.                                         *)
EXTENDS RunDelivery, TLC

CONSTANTS p1, p2, q1

WorkerSymmetry == Permutations(Workers)
=============================================================================
