-------------------------- MODULE LineageFenceProofs --------------------------
(***************************************************************************)
(* Proofs about LineageFence: type correctness, that the wake fence keeps  *)
(* a stopped thread stopped, that an ended execution's report reaches no   *)
(* parent, that a spawn is reached or refused, and that cancellations      *)
(* never wait for each other in a circle, for any tree of threads and any  *)
(* number of cancellations.                                                *)
(***************************************************************************)
EXTENDS LineageFence, FiniteSetTheorems, SequenceTheorems, WellFoundedInduction, TLAPS

(***************************************************************************)
(* The inductive invariant.                                                *)
(***************************************************************************)
\* A transaction has its fields.
TxRecord(r) == DOMAIN r = {"kind", "stage", "owner", "held", "todo", "flagged"}

\* A transaction under way holds its owner's lock; a thread's own is the end
\* of its run.
TxShape ==
  /\ tx = [p \in Actors |-> tx[p]]
  /\ \A p \in Actors :
       /\ TxRecord(tx[p])
       /\ tx[p].stage \in {"locking", "flagged"} => tx[p].owner \in tx[p].held
       /\ tx[p].stage \in {"locking", "flagged"} => (p \in Threads => lease[p].phase = "ending")

\* Admissions and fences lie in the past, and are told apart.
Clocked ==
  \A t \in Threads :
    /\ lease[t].at <= clock /\ fence[t] <= clock
    /\ lease[t].phase # "none" => lease[t].at > 0
    /\ \A u \in Threads : lease[t].at > 0 => lease[t].at # fence[u]

\* A spawn still to be admitted names the execution that made it.
SpawnsNamed ==
  \A t \in Threads :
    t \in toAdmit \/ lease[t].phase = "admitting" => parent[t] \in Threads /\ origin[t] > 0

\* An execution ended as a target is flagged, its reports are withdrawn.
EndedAreCut ==
  /\ \A t \in Threads : lease[t].ended = "target" => lease[t].flagged
  /\ \A r \in reports : r.ended => r.withdrawn

IInv ==
  /\ TypeOK /\ TxShape /\ Clocked /\ SpawnsNamed /\ EndedAreCut
  /\ FenceHolds /\ EndedReportsNothing

(***************************************************************************)
(* Type correctness.                                                       *)
(***************************************************************************)
\* The rows sends and reports add are rows of the inbox.
LEMMA RowTypes ==
  /\ WriterRow \in InboxRows
  /\ \A t \in Threads, at \in Nat : AgentRow(t, at) \in InboxRows
  /\ \A r \in Reports :
       [kind |-> "child", from |-> r.child, at |-> r.at, ended |-> r.ended] \in InboxRows
  BY DEF WriterRow, AgentRow, InboxRows, Reports, NoThread

\* NoLease is a lease.
LEMMA NoLeaseType == NoLease \in Leases
  BY DEF NoLease, Leases

\* What steps do to a lease, a report or a row gives another.
LEMMA LeaseEdits ==
  ASSUME NEW l \in Leases
  PROVE  /\ l.at \in Nat /\ l.flagged \in BOOLEAN /\ l.ended \in {"no", "owner", "target"}
         /\ \A phase \in {"refused", "setup", "unbound", "bound", "closed", "ending", "ended"} :
              [l EXCEPT !.phase = phase] \in Leases
         /\ \A b \in BOOLEAN : [l EXCEPT !.expired = b] \in Leases
         /\ \A at \in Nat, phase \in {"admitting", "setup"}, child \in BOOLEAN :
              [l EXCEPT !.at = at, !.phase = phase, !.child = child] \in Leases
  BY DEF Leases

\* Finalizing or withdrawing a report gives a report.
LEMMA ReportEdits ==
  ASSUME NEW r \in Reports
  PROVE  /\ [r EXCEPT !.done = TRUE] \in Reports
         /\ [r EXCEPT !.withdrawn = TRUE, !.ended = TRUE] \in Reports
  BY DEF Reports

\* Finalizing a report changes nothing else, withdrawing it withdraws it.
LEMMA ReportFields ==
  ASSUME NEW r \in Reports
  PROVE  /\ [r EXCEPT !.done = TRUE].ended = r.ended
         /\ [r EXCEPT !.done = TRUE].withdrawn = r.withdrawn
         /\ [r EXCEPT !.withdrawn = TRUE, !.ended = TRUE].withdrawn
  BY DEF Reports

\* A commit makes a lease of a lease.
LEMMA CommittedLease ==
  ASSUME NEW l \in Leases, NEW f \in BOOLEAN, NEW e \in {"no", "owner", "target"}, NEW b \in BOOLEAN
  PROVE  [l EXCEPT !.flagged = @ \/ f, !.ended = e, !.phase = IF b THEN "ended" ELSE @] \in Leases
<1>1. CASE b
  BY <1>1 DEF Leases
<1>2. CASE ~b
  BY <1>2 DEF Leases
<1> QED  BY <1>1, <1>2

\* Marking a row changes its mark alone.
LEMMA CommittedRow ==
  ASSUME NEW p, NEW row \in InboxRows
  PROVE  /\ Marked(p, row) \in InboxRows
         /\ Marked(p, row).kind = row.kind /\ Marked(p, row).at = row.at
         /\ Marked(p, row).ended = (row.ended \/ (row.kind = "child" /\ row.from \in Targets(p)))
  BY DEF Marked, InboxRows

\* Init establishes the invariant.
LEMMA InitIInv == Init => IInv
<1> SUFFICES ASSUME Init PROVE IInv  OBVIOUS
<1>1. TypeOK
  BY NoLeaseType DEF Init, TypeOK, NoThread
<1>2. TxShape
  BY DEF Init, TxShape, TxRecord, NoTx
<1>3. Clocked /\ SpawnsNamed /\ EndedAreCut /\ FenceHolds /\ EndedReportsNothing
  BY DEF Init, Clocked, SpawnsNamed, EndedAreCut, FenceHolds, EndedReportsNothing, NoLease
<1> QED  BY <1>1, <1>2, <1>3 DEF IInv


(***************************************************************************)
(* Type correctness of a step.                                             *)
(***************************************************************************)
\* Starting or admitting a run keeps the types.
LEMMA AdmitTypes ==
  ASSUME TypeOK, NEW t \in Threads, NEW child \in BOOLEAN,
         NEW phase \in {"admitting", "setup"}, Admit(t, phase, child)
  PROVE  clock' \in Nat /\ lease' \in [Threads -> Leases]
<1>1. clock' \in Nat  BY DEF TypeOK, Admit
<1>2. [NoLease EXCEPT !.at = clock + 1, !.phase = phase, !.child = child] \in Leases
  BY <1>1, NoLeaseType, LeaseEdits DEF Admit
<1> QED  BY <1>1, <1>2 DEF TypeOK, Admit

\* The steps of a run.
LEMMA RunTypes ==
  ASSUME TypeOK, NEW t \in Threads,
         WriterSends(t) \/ Start(t) \/ Bind(t) \/ RunEnds(t) \/ Release(t) \/ Expire(t) \/ Renew(t)
  PROVE  TypeOK'
<1>1. CASE WriterSends(t)
  BY <1>1, RowTypes DEF TypeOK, WriterSends, tree
<1>2. CASE Start(t)
  BY <1>2, AdmitTypes DEF TypeOK, Start, tree
<1>3. CASE Bind(t)
  <2>1. lease' \in [Threads -> Leases]
    BY <1>3, LeaseEdits DEF TypeOK, Bind
  <2>2. inbox' \in [Threads -> SUBSET InboxRows]
    BY <1>3 DEF TypeOK, Bind
  <2>3. [child |-> t, at |-> lease[t].at, done |-> FALSE, withdrawn |-> FALSE,
         ended |-> lease[t].ended = "target"] \in Reports
    BY DEF TypeOK, Leases, Reports
  <2>4. reports' \in SUBSET Reports
    BY <1>3, <2>3 DEF TypeOK, Bind
  <2> QED  BY <1>3, <2>1, <2>2, <2>4 DEF TypeOK, Bind, tree
<1>4. CASE RunEnds(t)
  <2>1. lease' \in [Threads -> Leases]
    BY <1>4, LeaseEdits DEF TypeOK, RunEnds
  <2>2. reports' \in SUBSET Reports
    BY <1>4, ReportEdits DEF TypeOK, RunEnds
  <2>3. spawn' \in [Threads -> {"none", "running", "cancelled", "ended"}]
    BY <1>4 DEF TypeOK, RunEnds
  <2> QED  BY <1>4, <2>1, <2>2, <2>3 DEF TypeOK, RunEnds
<1>5. CASE Release(t)
  BY <1>5, NoLeaseType DEF TypeOK, Release
<1>6. CASE Expire(t)
  <2>1. lease' \in [Threads -> Leases]
    BY <1>6, LeaseEdits DEF TypeOK, Expire
  <2> QED  BY <1>6, <2>1 DEF TypeOK, Expire, tree
<1>7. CASE Renew(t)
  <2>1. lease' \in [Threads -> Leases]
    BY <1>7, LeaseEdits DEF TypeOK, Renew
  <2> QED  BY <1>7, <2>1 DEF TypeOK, Renew, tree
<1> QED  BY <1>1, <1>2, <1>3, <1>4, <1>5, <1>6, <1>7

\* The steps of a spawn's admission and of a subagent's end.
LEMMA SpawnTypes ==
  ASSUME TypeOK, NEW t \in Threads,
         StartAdmission(t) \/ ConflictAdmission(t) \/ AdmitMessage(t) \/ RefuseAdmission(t)
           \/ EndSubtree(t) \/ EndSubtreeFails(t)
  PROVE  TypeOK'
<1>1. CASE StartAdmission(t)
  BY <1>1, AdmitTypes DEF TypeOK, StartAdmission
<1>2. CASE ConflictAdmission(t)
  BY <1>2 DEF TypeOK, ConflictAdmission
<1>3. CASE AdmitMessage(t)
  <2>1. lease' \in [Threads -> Leases]
    BY <1>3, LeaseEdits DEF TypeOK, AdmitMessage
  <2>2. AgentRow(t, origin[t]) \in InboxRows
    BY RowTypes DEF TypeOK
  <2> QED  BY <1>3, <2>1, <2>2 DEF TypeOK, AdmitMessage, tree
<1>4. CASE RefuseAdmission(t)
  <2>1. lease' \in [Threads -> Leases]
    BY <1>4, LeaseEdits DEF TypeOK, RefuseAdmission
  <2> QED  BY <1>4, <2>1 DEF TypeOK, RefuseAdmission, tree
<1>5. CASE EndSubtree(t)
  <2>1. lease' \in [Threads -> Leases]
    BY <1>5, LeaseEdits DEF TypeOK, EndSubtree
  <2> QED  BY <1>5, <2>1 DEF TypeOK, EndSubtree, Begin, tree
<1>6. CASE EndSubtreeFails(t)
  <2>1. lease' \in [Threads -> Leases]
    BY <1>6, LeaseEdits DEF TypeOK, EndSubtreeFails
  <2> QED  BY <1>6, <2>1 DEF TypeOK, EndSubtreeFails, tree
<1> QED  BY <1>1, <1>2, <1>3, <1>4, <1>5, <1>6

\* Messages, spawns and reports.
LEMMA WorkTypes ==
  ASSUME TypeOK,
         \/ \E t, u \in Threads : Send(t, u) \/ Spawn(t, u)
         \/ \E r \in reports : Publish(r)
  PROVE  TypeOK'
<1>1. ASSUME NEW t \in Threads, NEW u \in Threads, Send(t, u)  PROVE TypeOK'
  <2>1. AgentRow(t, lease[t].at) \in InboxRows
    BY RowTypes, LeaseEdits DEF TypeOK
  <2> QED  BY <1>1, <2>1 DEF TypeOK, Send, tree
<1>2. ASSUME NEW t \in Threads, NEW u \in Threads, Spawn(t, u)  PROVE TypeOK'
  <2>1. lease[t].at \in Nat
    BY LeaseEdits DEF TypeOK
  <2> QED  BY <1>2, <2>1 DEF TypeOK, Spawn
<1>3. ASSUME NEW r \in reports, Publish(r)  PROVE TypeOK'
  <2>1. [kind |-> "child", from |-> r.child, at |-> r.at, ended |-> r.ended] \in InboxRows
    BY RowTypes DEF TypeOK
  <2> QED  BY <1>3, <2>1 DEF TypeOK, Publish, tree
<1> QED  BY <1>1, <1>2, <1>3

\* Every step of a cancellation.
LEMMA CancelTypes ==
  ASSUME TypeOK,
         \/ \E p \in Commands, kind \in Kinds, t \in Threads : Press(p, kind, t)
         \/ \E p \in Actors : TakeTarget(p) \/ Flag(p) \/ Commit(p)
  PROVE  TypeOK'
<1>1. ASSUME NEW p \in Commands, NEW kind \in Kinds, NEW t \in Threads, Press(p, kind, t)
      PROVE TypeOK'
  <2>1. kind \in {"stop", "sendNow", "turn", "parked", "delete"}
    BY ThreadsAssumption
  <2> QED  BY <1>1, <2>1 DEF TypeOK, Press, Begin, tree
<1>2. ASSUME NEW p \in Actors, TakeTarget(p)  PROVE TypeOK'
  BY <1>2 DEF TypeOK, TakeTarget, tree
<1>3. ASSUME NEW p \in Actors, Flag(p)  PROVE TypeOK'
  BY <1>3 DEF TypeOK, Flag, tree
<1>4. ASSUME NEW p \in Actors, Commit(p)  PROVE TypeOK'
  <2>1. clock' \in Nat /\ fence' \in [Threads -> Nat]
    <3>1. clock + 1 \in Nat  BY DEF TypeOK
    <3> QED  BY <1>4, <3>1 DEF TypeOK, Commit
  <2>2. inbox' \in [Threads -> SUBSET InboxRows]
    <3>1. \A t \in Threads : inbox[t] \in SUBSET InboxRows
      BY DEF TypeOK
    <3>2. \A t \in Threads : \A row \in inbox[t] : Marked(p, row) \in InboxRows
      BY <3>1, CommittedRow
    <3>3. \A t \in Threads :
            {Marked(p, row) : row \in {row \in inbox[t] : ~Drops(p, t, row)}} \in SUBSET InboxRows
      BY <3>2
    <3>4. inbox' = [t \in Threads |->
             IF t \in tx[p].held
             THEN {Marked(p, row) : row \in {row \in inbox[t] : ~Drops(p, t, row)}}
             ELSE inbox[t]]
      BY <1>4, Zenon DEF Commit
    <3> QED  BY <3>1, <3>3, <3>4, Zenon
  <2>3. lease' \in [Threads -> Leases]
    <3>1. \A t \in Threads : EndedBy(p, t) \in {"no", "owner", "target"}
      BY LeaseEdits DEF TypeOK, EndedBy
    <3>2. \A t \in Threads : lease[t] \in Leases
      BY DEF TypeOK
    <3>3. \A t \in Threads :
            [lease[t] EXCEPT !.flagged = @ \/ t \in tx[p].flagged, !.ended = EndedBy(p, t),
                             !.phase = IF t = p THEN "ended" ELSE @] \in Leases
      BY <3>1, <3>2, CommittedLease
    <3> QED  BY <1>4, <3>3 DEF Commit
  <2>4. reports' \in SUBSET Reports
    <3>1. \A r \in reports : r \in Reports
      BY DEF TypeOK
    <3>2. Withdraw(p) \in SUBSET Reports
      BY <3>1, ReportEdits DEF Withdraw
    <3> QED  BY <1>4, <3>2 DEF Commit
  <2>5. spawn' \in [Threads -> {"none", "running", "cancelled", "ended"}]
    BY <1>4 DEF TypeOK, Commit
  <2>6. deleted' \in BOOLEAN
    BY <1>4 DEF TypeOK, Commit
  <2> QED  BY <1>4, <2>1, <2>2, <2>3, <2>4, <2>5, <2>6 DEF TypeOK, Commit
<1> QED  BY <1>1, <1>2, <1>3, <1>4

\* Every step keeps the types.
LEMMA TypeStep == TypeOK /\ [Next]_vars => TypeOK'
<1>1. TypeOK /\ Next => TypeOK'
  BY RunTypes, SpawnTypes, WorkTypes, CancelTypes DEF Next
<1>2. TypeOK /\ UNCHANGED vars => TypeOK'
  BY DEF TypeOK, vars, tree
<1> QED  BY <1>1, <1>2

\* Every variable keeps its type, for any tree and any number of commands.
THEOREM TypeCorrect == Spec => []TypeOK
<1>1. Init => TypeOK  BY InitIInv DEF IInv
<1> QED  BY <1>1, TypeStep, PTL DEF Spec

(***************************************************************************)
(* What a step does to the runs.                                           *)
(***************************************************************************)
\* The run of t goes on, under its flag and mark.
Kept(t) ==
  /\ lease'[t].at = lease[t].at
  /\ lease'[t].flagged = lease[t].flagged /\ lease'[t].ended = lease[t].ended
  /\ lease'[t].phase # "none" => lease[t].phase # "none"
  /\ lease'[t].phase = "admitting" => lease[t].phase = "admitting"
  /\ lease[t].phase = "ending" => lease'[t].phase = "ending"
\* Runs go on, or release their leases.
RunsMove ==
  /\ UNCHANGED <<clock, fence>>
  /\ \A t \in Threads :
       \/ lease'[t] = NoLease /\ lease[t].phase # "ending"
       \/ Kept(t)
\* A run is admitted.
RunAdmitted ==
  /\ UNCHANGED fence
  /\ \E t \in Threads, phase \in {"admitting", "setup"}, child \in BOOLEAN : Admit(t, phase, child)

\* What changes the phase of one lease keeps the runs.
LEMMA PhaseMoves ==
  ASSUME TypeOK, NEW t \in Threads, lease[t].phase # "none",
         NEW phase \in {"refused", "setup", "unbound", "bound", "closed", "ending", "ended"},
         lease[t].phase = "ending" => phase = "ending",
         lease' = [lease EXCEPT ![t].phase = phase], UNCHANGED <<clock, fence>>
  PROVE  RunsMove
  BY DEF TypeOK, RunsMove, Kept, Leases

\* A step of a run, of its admission or of its end moves it on.
LEMMA RunStepMoves ==
  ASSUME TypeOK, NEW t \in Threads,
         Bind(t) \/ RunEnds(t) \/ Release(t) \/ Expire(t) \/ Renew(t)
           \/ AdmitMessage(t) \/ RefuseAdmission(t) \/ EndSubtree(t) \/ EndSubtreeFails(t)
  PROVE  RunsMove
<1>1. CASE Bind(t)
  BY <1>1, PhaseMoves DEF Bind
<1>2. CASE RunEnds(t)
  BY <1>2, PhaseMoves DEF RunEnds
<1>3. CASE Release(t)
  BY <1>3 DEF TypeOK, Release, MayRelease, RunsMove, Kept
<1>4. CASE Expire(t) \/ Renew(t)
  BY <1>4 DEF TypeOK, Expire, Renew, RunsMove, Kept, Leases
<1>5. CASE AdmitMessage(t)
  BY <1>5, PhaseMoves DEF AdmitMessage
<1>6. CASE RefuseAdmission(t)
  BY <1>6, PhaseMoves DEF RefuseAdmission
<1>7. CASE EndSubtree(t)
  BY <1>7, PhaseMoves DEF EndSubtree, Begin
<1>8. CASE EndSubtreeFails(t)
  BY <1>8, PhaseMoves DEF EndSubtreeFails
<1> QED  BY <1>1, <1>2, <1>3, <1>4, <1>5, <1>6, <1>7, <1>8

\* Every step moves the runs on or admits one, or is a step of a cancellation.
LEMMA StepMoves ==
  ASSUME TypeOK, [Next]_vars
  PROVE  \/ UNCHANGED tx /\ (RunsMove \/ RunAdmitted)
         \/ /\ RunsMove
            /\ \/ \E p \in Commands, kind \in Kinds, t \in Threads : Press(p, kind, t)
               \/ \E t \in Threads : EndSubtree(t)
               \/ \E p \in Actors : TakeTarget(p) \/ Flag(p)
         \/ \E p \in Actors : Commit(p)
<1>1. ASSUME UNCHANGED <<clock, fence, lease>>  PROVE RunsMove
  BY <1>1 DEF RunsMove, Kept
<1>2. CASE UNCHANGED vars
  BY <1>1, <1>2 DEF vars
<1>3. ASSUME NEW t \in Threads, WriterSends(t) \/ ConflictAdmission(t)
      PROVE UNCHANGED tx /\ RunsMove
  BY <1>1, <1>3 DEF WriterSends, ConflictAdmission
<1>4. ASSUME NEW t \in Threads, Start(t) \/ StartAdmission(t)
      PROVE UNCHANGED tx /\ RunAdmitted
  BY <1>4 DEF Start, StartAdmission, RunAdmitted
<1>5. ASSUME NEW t \in Threads,
             Bind(t) \/ RunEnds(t) \/ Release(t) \/ Expire(t) \/ Renew(t)
               \/ AdmitMessage(t) \/ RefuseAdmission(t) \/ EndSubtreeFails(t)
      PROVE UNCHANGED tx /\ RunsMove
  <2>1. RunsMove
    BY <1>5, RunStepMoves
  <2>2. UNCHANGED tx
    BY <1>5 DEF Bind, RunEnds, Release, Expire, Renew, AdmitMessage, RefuseAdmission, EndSubtreeFails
  <2> QED  BY <2>1, <2>2
<1>6. ASSUME NEW t \in Threads, EndSubtree(t)  PROVE RunsMove
  BY <1>6, RunStepMoves
<1>7. ASSUME NEW t \in Threads, NEW u \in Threads, Send(t, u) \/ Spawn(t, u)
      PROVE UNCHANGED tx /\ RunsMove
  BY <1>1, <1>7 DEF Send, Spawn
<1>8. ASSUME NEW r \in reports, Publish(r)  PROVE UNCHANGED tx /\ RunsMove
  BY <1>1, <1>8 DEF Publish
<1>9. ASSUME NEW p \in Commands, NEW kind \in Kinds, NEW t \in Threads, Press(p, kind, t)
      PROVE RunsMove
  <2>1. kind \in {"stop", "sendNow", "turn", "parked", "delete"}
    BY ThreadsAssumption
  <2> QED  BY <1>1, <1>9, <2>1 DEF Press, Begin
<1>10. ASSUME NEW p \in Actors, TakeTarget(p) \/ Flag(p)  PROVE RunsMove
  BY <1>1, <1>10 DEF TakeTarget, Flag
<1> QED  BY <1>2, <1>3, <1>4, <1>5, <1>6, <1>7, <1>8, <1>9, <1>10 DEF Next

\* The lease a thread has after a commit.
LEMMA CommitMoves ==
  ASSUME TypeOK, TxShape, NEW p \in Actors, Commit(p), NEW t \in Threads
  PROVE  /\ lease'[t].at = lease[t].at
         /\ lease'[t].flagged = (lease[t].flagged \/ t \in tx[p].flagged)
         /\ lease'[t].ended = EndedBy(p, t)
         /\ lease'[t].phase = IF t = p THEN "ended" ELSE lease[t].phase
         /\ t = p => lease[t].phase = "ending"
<1>1. lease[t] \in Leases
  BY DEF TypeOK
<1>2. lease'[t] = [lease[t] EXCEPT !.flagged = @ \/ t \in tx[p].flagged, !.ended = EndedBy(p, t),
                                   !.phase = IF t = p THEN "ended" ELSE @]
  BY DEF Commit
<1>3. t = p => lease[t].phase = "ending"
  BY DEF Commit, TxShape
<1>4. DOMAIN lease[t] = {"at", "flagged", "expired", "child", "phase", "ended"}
  BY <1>1 DEF Leases
<1> QED  BY <1>2, <1>3, <1>4

\* Admitting a run changes its lease alone.
LEMMA AdmitMoves ==
  ASSUME TypeOK, RunAdmitted
  PROVE  /\ UNCHANGED fence /\ clock' = clock + 1
         /\ \E t \in Threads :
              /\ lease[t].phase = "none"
              /\ lease'[t].at = clock + 1 /\ lease'[t].ended = "no" /\ lease'[t].flagged = FALSE
              /\ \A u \in Threads \ {t} : lease'[u] = lease[u]
  BY DEF RunAdmitted, Admit, Running, NoLease, TypeOK

(***************************************************************************)
(* Each part of the invariant is kept.                                     *)
(***************************************************************************)
\* Moving on, or admitting a run, ends nobody's ending.
LEMMA EndingKept ==
  ASSUME TypeOK, RunsMove \/ RunAdmitted, NEW t \in Threads, lease[t].phase = "ending"
  PROVE  lease'[t].phase = "ending"
<1>1. CASE RunsMove
  BY <1>1 DEF RunsMove, Kept
<1>2. CASE RunAdmitted
  BY <1>2, AdmitMoves
<1> QED  BY <1>1, <1>2

\* A transaction starts with its owner's lock, and keeps what it holds.
LEMMA TxStep ==
  ASSUME TypeOK, TxShape, [Next]_vars
  PROVE  TxShape'
<1>1. CASE UNCHANGED tx /\ (RunsMove \/ RunAdmitted)
  BY <1>1, EndingKept DEF TxShape
<1>2. ASSUME NEW p \in Commands, NEW kind \in Kinds, NEW t \in Threads, Press(p, kind, t), RunsMove
      PROVE TxShape'
  <2>1. kind \in {"stop", "sendNow", "turn", "parked", "delete"} /\ p \in Actors /\ p \notin Threads
    BY ThreadsAssumption DEF Actors
  <2>2. PICK flagged, reach : Begin(p, kind, t, flagged, reach)
    BY <1>2, <2>1 DEF Press
  <2> QED  BY <1>2, <2>1, <2>2, EndingKept DEF TxShape, TxRecord, Begin
<1>3. ASSUME NEW t \in Threads, EndSubtree(t), RunsMove  PROVE TxShape'
  <2>1. lease'[t].phase = "ending"
    BY <1>3 DEF EndSubtree, TypeOK, Leases
  <2>2. Begin(t, "terminal", t, {}, Subtree(t)) /\ t \in Actors
    BY <1>3 DEF EndSubtree, Actors
  <2> QED  BY <1>3, <2>1, <2>2, EndingKept DEF TxShape, TxRecord, Begin
<1>4. ASSUME NEW p \in Actors, TakeTarget(p), RunsMove  PROVE TxShape'
  <2>1. /\ TxRecord(tx'[p]) /\ tx'[p].owner = tx[p].owner /\ tx'[p].stage = tx[p].stage
        /\ tx[p].held \subseteq tx'[p].held
    BY <1>4 DEF TakeTarget, TxShape, TxRecord
  <2>2. \A q \in Actors \ {p} : tx'[q] = tx[q]
    BY <1>4 DEF TakeTarget, TxShape
  <2>3. tx' = [q \in Actors |-> tx'[q]]
    BY <1>4 DEF TakeTarget, TxShape
  <2> QED  BY <1>4, <2>1, <2>2, <2>3, EndingKept DEF TxShape
<1>5. ASSUME NEW p \in Actors, Flag(p), RunsMove  PROVE TxShape'
  <2>1. TxRecord(tx'[p]) /\ tx'[p].owner = tx[p].owner /\ tx'[p].held = tx[p].held
    BY <1>5 DEF Flag, TxShape, TxRecord
  <2>2. \A q \in Actors \ {p} : tx'[q] = tx[q]
    BY <1>5 DEF Flag, TxShape
  <2>3. tx' = [q \in Actors |-> tx'[q]]
    BY <1>5 DEF Flag, TxShape
  <2>4. tx[p].stage = "locking"
    BY <1>5 DEF Flag
  <2> QED  BY <1>5, <2>1, <2>2, <2>3, <2>4, EndingKept DEF TxShape
<1>6. ASSUME NEW p \in Actors, Commit(p)  PROVE TxShape'
  <2>1. \A t \in Threads \ {p} : lease[t].phase = "ending" => lease'[t].phase = "ending"
    BY <1>6, CommitMoves
  <2>2. tx' = [tx EXCEPT ![p] = IF p \in Commands THEN Done ELSE NoTx]
    BY <1>6 DEF Commit
  <2> QED  BY <2>1, <2>2 DEF TxShape, TxRecord, Done, NoTx
<1> QED  BY <1>1, <1>2, <1>3, <1>4, <1>5, <1>6, StepMoves

\* Every admission and every fence reads a later clock.
LEMMA ClockedStep ==
  ASSUME TypeOK, TxShape, Clocked, [Next]_vars
  PROVE  Clocked'
<1>1. clock \in Nat /\ \A t \in Threads : lease[t].at \in Nat /\ fence[t] \in Nat
  BY LeaseEdits DEF TypeOK
<1>2. CASE RunsMove
  BY <1>1, <1>2 DEF Clocked, RunsMove, Kept, NoLease
<1>3. CASE RunAdmitted
  <2>1. PICK t \in Threads :
          /\ lease[t].phase = "none" /\ lease'[t].at = clock + 1
          /\ \A u \in Threads \ {t} : lease'[u] = lease[u]
    BY <1>3, AdmitMoves
  <2>2. clock' = clock + 1 /\ \A u \in Threads : fence'[u] = fence[u]
    BY <1>3, AdmitMoves
  <2> QED  BY <1>1, <2>1, <2>2 DEF Clocked
<1>4. ASSUME NEW p \in Actors, Commit(p)  PROVE Clocked'
  <2>1. \A t \in Threads : /\ lease'[t].at = lease[t].at
                           /\ lease'[t].phase # "none" => lease[t].phase # "none"
    BY <1>4, CommitMoves
  <2>2. \/ clock' = clock /\ \A t \in Threads : fence'[t] = fence[t]
        \/ clock' = clock + 1 /\ \A t \in Threads : fence'[t] \in {fence[t], clock + 1}
    BY <1>4 DEF Commit
  <2> QED  BY <1>1, <2>1, <2>2 DEF Clocked
<1> QED  BY <1>2, <1>3, <1>4, StepMoves

\* A spawn is admitted under the execution that made it.
LEMMA SpawnsStep ==
  ASSUME TypeOK, Clocked, SpawnsNamed, TxShape, [Next]_vars
  PROVE  SpawnsNamed'
<1>1. ASSUME UNCHANGED <<parent, origin>>, toAdmit' \subseteq toAdmit,
             \A t \in Threads :
               lease'[t].phase = "admitting" => lease[t].phase = "admitting" \/ t \in toAdmit
      PROVE SpawnsNamed'
  BY <1>1 DEF SpawnsNamed
<1>2. ASSUME NEW t \in Threads, Start(t)  PROVE SpawnsNamed'
  <2>1. \A u \in Threads : lease'[u].phase = "admitting" => lease[u].phase = "admitting"
    BY <1>2, NoLeaseType DEF Start, Admit, TypeOK, NoLease
  <2> QED  BY <1>1, <1>2, <2>1 DEF Start, tree
<1>3. ASSUME NEW t \in Threads, StartAdmission(t)  PROVE SpawnsNamed'
  <2>1. \A u \in Threads \ {t} : lease'[u] = lease[u]
    BY <1>3 DEF StartAdmission, Admit, TypeOK
  <2> QED  BY <1>1, <1>3, <2>1 DEF StartAdmission
<1>4. ASSUME RunsMove, UNCHANGED <<parent, origin>>, toAdmit' \subseteq toAdmit
      PROVE SpawnsNamed'
  BY <1>1, <1>4 DEF RunsMove, Kept, NoLease
<1>5. ASSUME NEW t \in Threads, ConflictAdmission(t) \/ WriterSends(t)  PROVE SpawnsNamed'
  BY <1>1, <1>5 DEF ConflictAdmission, WriterSends, tree
<1>6. ASSUME NEW t \in Threads,
             Bind(t) \/ RunEnds(t) \/ Release(t) \/ Expire(t) \/ Renew(t)
               \/ AdmitMessage(t) \/ RefuseAdmission(t) \/ EndSubtree(t) \/ EndSubtreeFails(t)
      PROVE SpawnsNamed'
  <2>1. RunsMove
    BY <1>6, RunStepMoves
  <2>2. UNCHANGED <<parent, origin, toAdmit>>
    BY <1>6 DEF Bind, RunEnds, Release, Expire, Renew, AdmitMessage, RefuseAdmission,
                EndSubtree, Begin, EndSubtreeFails, tree
  <2> QED  BY <1>4, <2>1, <2>2
<1>7. ASSUME NEW t \in Threads, NEW u \in Threads, Send(t, u)  PROVE SpawnsNamed'
  BY <1>1, <1>7 DEF Send, tree
<1>8. ASSUME NEW t \in Threads, NEW u \in Threads, Spawn(t, u)  PROVE SpawnsNamed'
  <2>1. lease[t].at \in Nat /\ lease[t].at > 0
    BY <1>8, LeaseEdits DEF Spawn, Clocked, TypeOK
  <2> QED  BY <1>8, <2>1 DEF Spawn, SpawnsNamed, TypeOK
<1>9. ASSUME NEW r \in reports, Publish(r)  PROVE SpawnsNamed'
  BY <1>1, <1>9 DEF Publish, tree
<1>10. ASSUME NEW p \in Commands, NEW kind \in Kinds, NEW t \in Threads, Press(p, kind, t)
       PROVE SpawnsNamed'
  <2>1. kind \in {"stop", "sendNow", "turn", "parked", "delete"}
    BY ThreadsAssumption
  <2>2. UNCHANGED <<parent, origin, toAdmit, lease>>
    BY <1>10, <2>1 DEF Press, Begin, tree
  <2> QED  BY <1>1, <2>2
<1>11. ASSUME NEW p \in Actors, TakeTarget(p) \/ Flag(p)  PROVE SpawnsNamed'
  BY <1>1, <1>11 DEF TakeTarget, Flag, tree
<1>12. ASSUME NEW p \in Actors, Commit(p)  PROVE SpawnsNamed'
  <2>1. \A t \in Threads : lease'[t].phase = "admitting" => lease[t].phase = "admitting"
    BY <1>12, CommitMoves
  <2> QED  BY <1>1, <1>12, <2>1 DEF Commit
<1>13. CASE UNCHANGED vars
  BY <1>1, <1>13 DEF vars, tree
<1> QED  BY <1>2, <1>3, <1>5, <1>6, <1>7, <1>8, <1>9, <1>10, <1>11, <1>12, <1>13 DEF Next

\* Ending an execution flags it and withdraws its reports; an ended one
\* admits none.
LEMMA EndedStep ==
  ASSUME TypeOK, TxShape, EndedAreCut, [Next]_vars
  PROVE  EndedAreCut'
<1>1. \A t \in Threads : lease'[t].ended = "target" => lease'[t].flagged
  <2>1. CASE RunsMove
    BY <2>1 DEF RunsMove, Kept, NoLease, EndedAreCut
  <2>2. CASE RunAdmitted
    BY <2>2, AdmitMoves DEF EndedAreCut
  <2>3. ASSUME NEW p \in Actors, Commit(p), NEW t \in Threads, lease'[t].ended = "target"
        PROVE lease'[t].flagged
    <3>1. EndedBy(p, t) = "target" => t \in tx[p].flagged \/ lease[t].ended = "target"
      BY DEF EndedBy
    <3> QED  BY <2>3, <3>1, CommitMoves DEF EndedAreCut
  <2> QED  BY <2>1, <2>2, <2>3, StepMoves
<1> DEFINE Cut == \A r \in reports' : r.ended => r.withdrawn
<1>2. Cut
  <2>1. ASSUME reports' \subseteq reports  PROVE Cut
    BY <2>1 DEF EndedAreCut
  <2>2. ASSUME NEW t \in Threads, Bind(t)  PROVE Cut
    <3>1. CASE ~lease[t].flagged
      <4> DEFINE new == [child |-> t, at |-> lease[t].at, done |-> FALSE, withdrawn |-> FALSE,
                         ended |-> lease[t].ended = "target"]
      <4>1. ~new.ended
        BY <3>1 DEF EndedAreCut
      <4>2. reports' \subseteq reports \cup {new}
        BY <2>2 DEF Bind
      <4> HIDE DEF new
      <4> QED  BY <4>1, <4>2 DEF EndedAreCut
    <3>2. CASE lease[t].flagged
      BY <2>1, <2>2, <3>2 DEF Bind
    <3> QED  BY <3>1, <3>2
  <2>3. ASSUME NEW t \in Threads, RunEnds(t)  PROVE Cut
    <3>1. \A r \in reports : [r EXCEPT !.done = TRUE].ended => [r EXCEPT !.done = TRUE].withdrawn
      BY ReportFields DEF EndedAreCut, TypeOK
    <3>2. \A s \in reports' : \E r \in reports : s = r \/ s = [r EXCEPT !.done = TRUE]
      BY <2>3 DEF RunEnds
    <3> QED  BY <3>1, <3>2, Zenon DEF EndedAreCut
  <2>4. ASSUME NEW p \in Actors, Commit(p)  PROVE Cut
    <3>1. \A r \in reports : [r EXCEPT !.withdrawn = TRUE, !.ended = TRUE].withdrawn
      BY ReportFields DEF TypeOK
    <3>2. \A s \in reports' :
            \E r \in reports : s = r \/ s = [r EXCEPT !.withdrawn = TRUE, !.ended = TRUE]
      BY <2>4 DEF Commit, Withdraw
    <3> QED  BY <3>1, <3>2, Zenon DEF EndedAreCut
  <2>5. ASSUME NEW r \in reports, Publish(r)  PROVE Cut
    BY <2>1, <2>5 DEF Publish
  <2>6. ASSUME NEW p \in Commands, NEW kind \in Kinds, NEW t \in Threads, Press(p, kind, t)
        PROVE Cut
    <3>1. kind \in {"stop", "sendNow", "turn", "parked", "delete"}
      BY ThreadsAssumption
    <3> QED  BY <2>1, <2>6, <3>1 DEF Press, Begin
  <2>7. ASSUME NEW t \in Threads,
               WriterSends(t) \/ Start(t) \/ Release(t) \/ Expire(t) \/ Renew(t)
                 \/ StartAdmission(t) \/ ConflictAdmission(t) \/ AdmitMessage(t)
                 \/ RefuseAdmission(t) \/ EndSubtree(t) \/ EndSubtreeFails(t)
        PROVE Cut
    BY <2>1, <2>7 DEF WriterSends, Start, Release, Expire, Renew, StartAdmission,
                      ConflictAdmission, AdmitMessage, RefuseAdmission, EndSubtree, Begin,
                      EndSubtreeFails
  <2>8. ASSUME NEW t \in Threads, NEW u \in Threads, Send(t, u) \/ Spawn(t, u)  PROVE Cut
    BY <2>1, <2>8 DEF Send, Spawn
  <2>9. ASSUME NEW p \in Actors, TakeTarget(p) \/ Flag(p)  PROVE Cut
    BY <2>1, <2>9 DEF TakeTarget, Flag
  <2>10. CASE UNCHANGED vars
    BY <2>1, <2>10 DEF vars
  <2> QED  BY <2>2, <2>3, <2>4, <2>5, <2>6, <2>7, <2>8, <2>9, <2>10 DEF Next
<1> QED  BY <1>1, <1>2 DEF EndedAreCut

(***************************************************************************)
(* What reaches an inbox.                                                  *)
(***************************************************************************)
\* A row no cancellation refuses or withdraws.
MayQueue(row, t) ==
  \/ row.kind = "writer"
  \/ row.kind = "agent" /\ row.at > fence[t]
  \/ row.kind = "child" /\ ~row.ended

\* Outside a commit, fences stand and inboxes gain only such rows.
LEMMA RowsStep ==
  ASSUME IInv, [Next]_vars
  PROVE  \/ /\ UNCHANGED fence
            /\ \A t \in Threads : \A row \in inbox'[t] : row \in inbox[t] \/ MayQueue(row, t)
         \/ \E p \in Actors : Commit(p)
<1> USE DEF IInv
<1> DEFINE Queued == \A t \in Threads : \A row \in inbox'[t] : row \in inbox[t] \/ MayQueue(row, t)
<1>1. ASSUME UNCHANGED inbox  PROVE Queued
  BY <1>1
<1>2. ASSUME NEW t \in Threads, WriterSends(t)  PROVE Queued
  BY <1>2 DEF WriterSends, WriterRow, MayQueue, TypeOK
<1>3. ASSUME NEW t \in Threads, Bind(t)  PROVE Queued
  BY <1>3 DEF Bind, TypeOK
<1>4. ASSUME NEW t \in Threads, AdmitMessage(t)  PROVE Queued
  <2>1. parent[t] \in Threads /\ origin[t] > 0
    BY <1>4 DEF AdmitMessage, SpawnsNamed
  <2>2. lease[parent[t]].at = origin[t] /\ ~(fence[t] > origin[t])
    BY <1>4, ThreadsAssumption DEF AdmitMessage, WakeRefused, NoThread
  <2>3. origin[t] \in Nat /\ fence[t] \in Nat /\ origin[t] # fence[t]
    BY <2>1, <2>2 DEF Clocked, TypeOK
  <2>4. origin[t] > fence[t]
    BY <2>2, <2>3
  <2>5. MayQueue(AgentRow(t, origin[t]), t)
    BY <2>4 DEF MayQueue, AgentRow
  <2> QED  BY <1>4, <2>5 DEF AdmitMessage, TypeOK
<1>5. ASSUME NEW t \in Threads, NEW u \in Threads, Send(t, u)  PROVE Queued
  <2>1. lease[t].at \in Nat /\ fence[u] \in Nat
    BY LeaseEdits DEF TypeOK
  <2>2. ~(fence[u] > lease[t].at) /\ lease[t].at # fence[u]
    BY <1>5, ThreadsAssumption DEF Send, WakeRefused, NoThread, Clocked
  <2>3. lease[t].at > fence[u]
    BY <2>1, <2>2
  <2>4. MayQueue(AgentRow(t, lease[t].at), u)
    BY <2>3 DEF MayQueue, AgentRow
  <2> QED  BY <1>5, <2>4 DEF Send, TypeOK
<1>6. ASSUME NEW r \in reports, Publish(r)  PROVE Queued
  <2>1. CASE r.withdrawn
    BY <1>1, <1>6, <2>1 DEF Publish
  <2>2. CASE ~r.withdrawn
    <3>1. r.ended = FALSE
      BY <2>2 DEF EndedAreCut, TypeOK, Reports
    <3> DEFINE row == [kind |-> "child", from |-> r.child, at |-> r.at, ended |-> r.ended]
    <3>2. \A t : MayQueue(row, t)
      BY <3>1 DEF MayQueue
    <3>3. inbox' = [inbox EXCEPT ![parent[r.child]] = @ \cup {row}]
      BY <1>6, <2>2 DEF Publish
    <3> QED  BY <3>2, <3>3 DEF TypeOK
  <2> QED  BY <2>1, <2>2
<1>7. ASSUME NEW t \in Threads,
             Start(t) \/ RunEnds(t) \/ Release(t) \/ Expire(t) \/ Renew(t)
               \/ StartAdmission(t) \/ ConflictAdmission(t)
               \/ RefuseAdmission(t) \/ EndSubtree(t) \/ EndSubtreeFails(t)
      PROVE Queued
  BY <1>1, <1>7 DEF Start, RunEnds, Release, Expire, Renew, StartAdmission,
                    ConflictAdmission, RefuseAdmission, EndSubtree, Begin, EndSubtreeFails
<1>8. ASSUME NEW t \in Threads, NEW u \in Threads, Spawn(t, u)  PROVE Queued
  BY <1>1, <1>8 DEF Spawn
<1>9. ASSUME NEW p \in Commands, NEW kind \in Kinds, NEW t \in Threads, Press(p, kind, t)
      PROVE Queued
  <2>1. kind \in {"stop", "sendNow", "turn", "parked", "delete"}
    BY ThreadsAssumption
  <2> QED  BY <1>1, <1>9, <2>1 DEF Press, Begin
<1>10. ASSUME NEW p \in Actors, TakeTarget(p) \/ Flag(p)  PROVE Queued
  BY <1>1, <1>10 DEF TakeTarget, Flag
<1>11. CASE UNCHANGED vars
  BY <1>1, <1>11 DEF vars
<1>12. Queued \/ \E p \in Actors : Commit(p)
  BY <1>2, <1>3, <1>4, <1>5, <1>6, <1>7, <1>8, <1>9, <1>10, <1>11 DEF Next
<1>13. UNCHANGED fence \/ \E p \in Actors : Commit(p)
  BY StepMoves DEF RunsMove, RunAdmitted
<1> QED  BY <1>12, <1>13

\* A commit drops from the inboxes it holds what its fences refuse and what
\* its targets reported.
LEMMA CommitRows ==
  ASSUME IInv, NEW p \in Actors, Commit(p), NEW t \in Threads, NEW row \in inbox'[t]
  PROVE  /\ row.kind = "agent" => row.at > fence'[t]
         /\ row.kind = "child" => ~row.ended
<1> USE DEF IInv
<1>1. tx[p].owner \in tx[p].held
  BY DEF Commit, TxShape
<1>2. Fenced(p) \subseteq tx[p].held
  BY <1>1 DEF Fenced, Targets
<1>3. CASE t \notin tx[p].held
  <2>1. row \in inbox[t]
    BY <1>3, Zenon DEF Commit
  <2>2. fence'[t] = fence[t]
    BY <1>2, <1>3 DEF Commit
  <2> QED  BY <2>1, <2>2 DEF FenceHolds, EndedReportsNothing
<1>4. CASE t \in tx[p].held
  <2>1. inbox'[t] = {Marked(p, old) : old \in {old \in inbox[t] : ~Drops(p, t, old)}}
    BY <1>4, Zenon DEF Commit
  <2>2. PICK old \in inbox[t] : ~Drops(p, t, old) /\ row = Marked(p, old)
    BY <2>1
  <2>3. old \in InboxRows
    BY DEF TypeOK
  <2>4. /\ row.kind = old.kind /\ row.at = old.at
        /\ row.ended = (old.ended \/ (old.kind = "child" /\ old.from \in Targets(p)))
    BY <2>2, <2>3, CommittedRow
  <2>5. row.kind = "agent" => row.at > fence'[t]
    <3>1. old.kind = "agent" => fence'[t] = fence[t]
      BY <2>2 DEF Drops, Commit
    <3> QED  BY <2>4, <3>1 DEF FenceHolds
  <2>6. row.kind = "child" => ~row.ended
    BY <2>2, <2>4 DEF Drops, EndedReportsNothing
  <2> QED  BY <2>5, <2>6
<1> QED  BY <1>3, <1>4

\* The invariant is inductive.
LEMMA StepIInv == IInv /\ [Next]_vars => IInv'
<1> SUFFICES ASSUME IInv, [Next]_vars PROVE IInv'  OBVIOUS
<1>1. TypeOK' /\ TxShape' /\ Clocked' /\ SpawnsNamed' /\ EndedAreCut'
  BY TypeStep, TxStep, ClockedStep, SpawnsStep, EndedStep DEF IInv
<1>2. FenceHolds'
  BY RowsStep, CommitRows DEF FenceHolds, MayQueue, IInv
<1>3. EndedReportsNothing'
  BY RowsStep, CommitRows DEF EndedReportsNothing, MayQueue, IInv
<1> QED  BY <1>1, <1>2, <1>3 DEF IInv

(***************************************************************************)
(* The fence and the reports.                                              *)
(***************************************************************************)
\* A stopped thread accepts no machine message from an execution admitted
\* before its cancellation.
THEOREM StoppedStaysStopped == Spec => []FenceHolds
<1>1. IInv => FenceHolds  BY DEF IInv
<1> QED  BY <1>1, InitIInv, StepIInv, PTL DEF Spec

\* No report of an execution a cancellation ended waits for its parent.
THEOREM EndedStaysSilent == Spec => []EndedReportsNothing
<1>1. IInv => EndedReportsNothing  BY DEF IInv
<1> QED  BY <1>1, InitIInv, StepIInv, PTL DEF Spec

(***************************************************************************)
(* Least numbers, and sorted sequences.                                    *)
(***************************************************************************)
\* A set of naturals has a least member.
LEMMA LeastExists ==
  ASSUME NEW N \in SUBSET Nat, N # {}
  PROVE  \E n \in N : \A m \in N : n <= m
<1> DEFINE Below == {p \in Nat \X Nat : p[1] < p[2]}
<1>1. IsWellFoundedOn(Below, Nat)
  <2>1. Below = OpToRel(<, Nat)
    BY DEF OpToRel
  <2> QED  BY <2>1, NatLessThanWellFounded
<1> HIDE DEF Below
<1>2. PICK n \in N : \A m \in N : <<m, n>> \notin Below
  BY <1>1, WFMin
<1>3. ASSUME NEW m \in N  PROVE n <= m
  <2>1. m \in Nat /\ n \in Nat /\ <<m, n>> \notin Below
    BY <1>2
  <2>2. ~(m < n)
    BY <2>1 DEF Below
  <2> QED  BY <2>1, <2>2
<1> QED  BY <1>3

\* A finite set with a strict total order has an increasing enumeration.
LEMMA Sortable ==
  ASSUME NEW S, IsFiniteSet(S), NEW R,
         \A x \in S : <<x, x>> \notin R,
         \A x, y, z \in S : <<x, y>> \in R /\ <<y, z>> \in R => <<x, z>> \in R,
         \A x, y \in S : x = y \/ <<x, y>> \in R \/ <<y, x>> \in R
  PROVE  \E s \in [1 .. Cardinality(S) -> S] :
           \A i, j \in 1 .. Cardinality(S) : i < j => <<s[i], s[j]>> \in R
<1> DEFINE n == Cardinality(S)
           Smaller(x) == {y \in S : <<y, x>> \in R}
           pos == [x \in S |-> Cardinality(Smaller(x)) + 1]
<1>1. n \in Nat
  BY FS_CardinalityType
<1>2. \A x \in S : IsFiniteSet(Smaller(x)) /\ Cardinality(Smaller(x)) \in Nat
  BY FS_Subset, FS_CardinalityType
<1>3. ASSUME NEW x \in S, NEW y \in S, <<x, y>> \in R
      PROVE  Cardinality(Smaller(x)) < Cardinality(Smaller(y))
  <2>1. Smaller(x) \subseteq Smaller(y)
    BY <1>3
  <2>2. x \in Smaller(y) /\ x \notin Smaller(x)
    BY <1>3
  <2> HIDE DEF Smaller
  <2>3. Cardinality(Smaller(x)) <= Cardinality(Smaller(y)) /\ Cardinality(Smaller(x)) # Cardinality(Smaller(y))
    BY <1>2, <2>1, <2>2, FS_Subset
  <2> QED  BY <1>2, <2>3
<1>4. ASSUME NEW x \in S
      PROVE  Cardinality(Smaller(x)) < n
  <2>1. Smaller(x) \subseteq S /\ x \notin Smaller(x)
    OBVIOUS
  <2> HIDE DEF Smaller
  <2>2. Cardinality(Smaller(x)) <= n /\ Cardinality(Smaller(x)) # n
    BY <2>1, FS_Subset
  <2> QED  BY <1>1, <1>2, <2>2
<1> HIDE DEF Smaller
<1>5. \A x \in S : pos[x] \in 1 .. n
  BY <1>1, <1>2, <1>4
<1>6. \A x, y \in S : <<x, y>> \in R => pos[x] < pos[y]
  BY <1>2, <1>3
<1>7. pos \in [S -> 1 .. n]
  BY <1>5
<1> HIDE DEF pos, n
<1>8. ASSUME NEW x \in S, NEW y \in S, pos[x] = pos[y]  PROVE x = y
  <2>1. pos[x] \in Nat /\ ~(pos[x] < pos[y]) /\ ~(pos[y] < pos[x])
    BY <1>1, <1>5, <1>8
  <2> QED  BY <1>6, <2>1
<1>9. pos \in Injection(S, 1 .. n)
  BY <1>7, <1>8 DEF Injection, IsInjective
<1>10. IsFiniteSet(1 .. n) /\ Cardinality(1 .. n) = n
  BY <1>1, FS_Interval
<1>11. pos \in Surjection(S, 1 .. n)
  BY <1>9, <1>10, FS_Injection DEF n
<1>12. \A i \in 1 .. n : \E x \in S : pos[x] = i
  BY <1>11 DEF Surjection
<1> DEFINE s == [i \in 1 .. n |-> CHOOSE x \in S : pos[x] = i]
<1>13. \A i \in 1 .. n : s[i] \in S /\ pos[s[i]] = i
  BY <1>12
<1>14. s \in [1 .. n -> S]
  BY <1>13
<1> HIDE DEF s
<1>15. ASSUME NEW i \in 1 .. n, NEW j \in 1 .. n, i < j  PROVE <<s[i], s[j]>> \in R
  <2>1. s[i] \in S /\ s[j] \in S /\ pos[s[i]] = i /\ pos[s[j]] = j
    BY <1>13
  <2>2. s[i] # s[j] /\ ~(pos[s[j]] < pos[s[i]])
    BY <1>1, <1>15, <2>1
  <2>3. <<s[j], s[i]>> \notin R
    BY <1>6, <2>1, <2>2
  <2> QED  BY <2>1, <2>2, <2>3
<1> QED  BY <1>14, <1>15 DEF n

(***************************************************************************)
(* The tree.                                                               *)
(***************************************************************************)
\* f is the ancestors of every thread, by the equation that defines Above.
AncestorsOf(f, par) ==
  f = [t \in Threads |-> IF par[t] = NoThread THEN {} ELSE {par[t]} \cup f[par[t]]]

\* Born threads are finitely many, and their ancestors are born; nobody is his
\* own ancestor, ancestors' ancestors are ancestors, and of two ancestors one
\* is the other's.
TreeFits ==
  /\ IsFiniteSet(Born)
  /\ AncestorsOf(Above, parent)
  /\ \A t \in Threads :
       /\ Above[t] \subseteq Born /\ t \notin Above[t]
       /\ \A u \in Above[t] : Above[u] \subseteq Above[t]
       /\ \A u, v \in Above[t] : u = v \/ u \in Above[v] \/ v \in Above[u]

\* Above holds one solution of its equation, if there is any.
LEMMA AboveSolves ==
  ASSUME NEW f, AncestorsOf(f, parent)
  PROVE  AncestorsOf(Above, parent)
<1>1. f = [t \in Threads |-> IF parent[t] = NoThread THEN {} ELSE {parent[t]} \cup f[parent[t]]]
  BY DEF AncestorsOf
<1>2. Above = [t \in Threads |-> IF parent[t] = NoThread THEN {}
                                 ELSE {parent[t]} \cup Above[parent[t]]]
  BY <1>1 DEF Above
<1> QED  BY <1>2 DEF AncestorsOf

\* The equation has no other solution than one that goes up finitely.
LEMMA OneSolution ==
  ASSUME NEW par, NEW f, NEW g, AncestorsOf(f, par), AncestorsOf(g, par),
         \A t \in Threads : par[t] = NoThread \/ par[t] \in Threads,
         \A t \in Threads : IsFiniteSet(g[t]) /\ t \notin g[t]
  PROVE  f = g
<1>1. \A t \in Threads :
        /\ f[t] = IF par[t] = NoThread THEN {} ELSE {par[t]} \cup f[par[t]]
        /\ g[t] = IF par[t] = NoThread THEN {} ELSE {par[t]} \cup g[par[t]]
  BY DEF AncestorsOf
<1>2. DOMAIN f = Threads /\ DOMAIN g = Threads
      /\ f = [t \in Threads |-> f[t]] /\ g = [t \in Threads |-> g[t]]
  BY Zenon DEF AncestorsOf
<1> SUFFICES ASSUME NEW t \in Threads, f[t] # g[t]  PROVE FALSE
  BY <1>2
<1> DEFINE Wrong == {u \in Threads : f[u] # g[u]}
           Sizes == {n \in Nat : \E u \in Wrong : n = Cardinality(g[u])}
<1>3. \A u \in Threads : Cardinality(g[u]) \in Nat
  BY FS_CardinalityType
<1>4. Sizes # {} /\ Sizes \in SUBSET Nat
  BY <1>3
<1>5. PICK n \in Sizes : \A m \in Sizes : n <= m
  BY <1>4, LeastExists
<1>6. PICK u \in Wrong : n = Cardinality(g[u])
  BY <1>5
<1>7. par[u] # NoThread /\ par[u] \in Threads /\ f[par[u]] # g[par[u]]
  <2>1. u \in Threads /\ f[u] # g[u]
    BY <1>6
  <2>2. par[u] # NoThread
    BY <1>1, <2>1
  <2>3. f[u] = {par[u]} \cup f[par[u]] /\ g[u] = {par[u]} \cup g[par[u]]
    BY <1>1, <2>1, <2>2
  <2> QED  BY <2>1, <2>2, <2>3
<1>8. g[u] = g[par[u]] \cup {par[u]} /\ par[u] \notin g[par[u]] /\ IsFiniteSet(g[par[u]])
  BY <1>1, <1>6, <1>7
<1>9. Cardinality(g[par[u]]) < Cardinality(g[u])
  <2>1. Cardinality(g[u]) = Cardinality(g[par[u]]) + 1
    BY <1>8, FS_AddElement
  <2> QED  BY <1>3, <1>7, <2>1
<1>10. Cardinality(g[par[u]]) \in Sizes
  BY <1>3, <1>7
<1> HIDE DEF Sizes, Wrong
<1>11. n <= Cardinality(g[par[u]]) /\ n \in Nat
  BY <1>4, <1>5, <1>10
<1> QED  BY <1>3, <1>6, <1>7, <1>9, <1>11 DEF Wrong

\* Who has a parent is born, and ancestors are what the parent adds.
LEMMA Parents ==
  ASSUME TypeOK, TreeFits, NEW t \in Threads
  PROVE  /\ parent[t] = NoThread => Above[t] = {}
         /\ parent[t] # NoThread =>
              /\ parent[t] \in Born /\ t \in Born /\ parent[t] # t
              /\ Above[t] = {parent[t]} \cup Above[parent[t]]
<1>1. Above[t] = IF parent[t] = NoThread THEN {} ELSE {parent[t]} \cup Above[parent[t]]
  BY DEF TreeFits, AncestorsOf
<1> QED  BY <1>1 DEF TreeFits, Born

\* Depths are numbers, and ancestors are less deep.
LEMMA Depths ==
  ASSUME TreeFits, NEW t \in Threads
  PROVE  /\ IsFiniteSet(Above[t]) /\ Cardinality(Above[t]) \in Nat
         /\ \A u \in Above[t] : u \in Threads /\ Cardinality(Above[u]) < Cardinality(Above[t])
<1>1. Above[t] \subseteq Born /\ Born \subseteq Threads
  BY DEF TreeFits, Born
<1>2. IsFiniteSet(Above[t]) /\ Cardinality(Above[t]) \in Nat
  BY <1>1, FS_Subset, FS_CardinalityType DEF TreeFits
<1>3. ASSUME NEW u \in Above[t]  PROVE Cardinality(Above[u]) < Cardinality(Above[t])
  <2>1. Above[u] \subseteq Above[t] /\ u \notin Above[u]
    BY <1>1 DEF TreeFits
  <2>2. IsFiniteSet(Above[u]) /\ Cardinality(Above[u]) \in Nat
    BY <1>2, <2>1, FS_Subset, FS_CardinalityType
  <2>3. Cardinality(Above[u]) <= Cardinality(Above[t]) /\ Cardinality(Above[u]) # Cardinality(Above[t])
    BY <1>2, <1>3, <2>1, FS_Subset
  <2> QED  BY <1>2, <2>2, <2>3
<1> QED  BY <1>1, <1>2, <1>3

\* The locks of a set of born threads are taken in an order in which nobody
\* comes before his ancestors.
LEMMA LockOrder ==
  ASSUME TreeFits, NEW S \in SUBSET Born
  PROVE  /\ Cardinality(S) \in Nat /\ InLockOrder(S) \in [1 .. Cardinality(S) -> S]
         /\ \A i, j \in 1 .. Cardinality(S) : InLockOrder(S)[i] = InLockOrder(S)[j] => i = j
         /\ \A x \in S : \E i \in 1 .. Cardinality(S) : InLockOrder(S)[i] = x
         /\ \A i, j \in 1 .. Cardinality(S) :
              InLockOrder(S)[j] \in Above[InLockOrder(S)[i]] => j < i
<1> DEFINE n == Cardinality(S)
           R == {pair \in S \X S : LocksFirst(pair[1], pair[2])}
<1>1. IsFiniteSet(S) /\ n \in Nat
  BY FS_Subset, FS_CardinalityType DEF TreeFits
<1>2. \A x \in S : x \in Threads /\ x \in Nat /\ Cardinality(Above[x]) \in Nat
  BY Depths, ThreadsAssumption DEF Born
<1>3. \A x, y \in S : <<x, y>> \in R <=> LocksFirst(x, y)
  OBVIOUS
<1>4. /\ \A x \in S : ~LocksFirst(x, x)
      /\ \A x, y, z \in S : LocksFirst(x, y) /\ LocksFirst(y, z) => LocksFirst(x, z)
      /\ \A x, y \in S : x = y \/ LocksFirst(x, y) \/ LocksFirst(y, x)
  BY <1>2 DEF LocksFirst
<1> HIDE DEF R
<1>5. PICK q \in [1 .. n -> S] : \A i, j \in 1 .. n : i < j => <<q[i], q[j]>> \in R
  BY <1>1, <1>3, <1>4, Sortable
<1>6. \A i, j \in 1 .. n : i < j => LocksFirst(q[i], q[j])
  BY <1>3, <1>5
<1> DEFINE s == InLockOrder(S)
<1>7. s \in [1 .. n -> S] /\ \A i, j \in 1 .. n : i < j => LocksFirst(s[i], s[j])
  BY <1>5, <1>6 DEF InLockOrder
<1> HIDE DEF s
<1>8. ASSUME NEW i \in 1 .. n, NEW j \in 1 .. n, s[i] = s[j]  PROVE i = j
  <2>1. s[i] \in S /\ s[j] \in S
    BY <1>7
  <2>2. ~(i < j) /\ ~(j < i)
    BY <1>4, <1>7, <1>8, <2>1
  <2> QED  BY <1>1, <2>2
<1>10. s \in Injection(1 .. n, S)
  BY <1>7, <1>8 DEF Injection, IsInjective
<1>11. Cardinality(1 .. n) = n
  BY <1>1, FS_Interval
<1>12. s \in Surjection(1 .. n, S)
  BY <1>1, <1>10, <1>11, FS_Injection
<1>13. \A x \in S : \E i \in 1 .. n : s[i] = x
  BY <1>12 DEF Surjection
<1>14. ASSUME NEW i \in 1 .. n, NEW j \in 1 .. n, s[j] \in Above[s[i]]  PROVE j < i
  <2>1. s[i] \in S /\ s[j] \in S
    BY <1>7
  <2>2. Cardinality(Above[s[j]]) < Cardinality(Above[s[i]])
    BY <1>2, <1>14, <2>1, Depths
  <2>3. ~LocksFirst(s[i], s[j])
    BY <1>2, <2>1, <2>2 DEF LocksFirst
  <2>4. ~(i < j)
    BY <1>7, <2>3
  <2>5. i # j
    BY <1>2, <2>1, <2>2
  <2> QED  BY <1>1, <2>4, <2>5
<1> QED  BY <1>1, <1>7, <1>8, <1>13, <1>14 DEF s

\* The tree stands while no thread gets a parent.
LEMMA TreeStands ==
  ASSUME TreeFits, UNCHANGED parent
  PROVE  Above' = Above /\ Born' = Born /\ TreeFits'
<1>1. Above' = Above
  BY DEF Above
<1>2. Born' = Born
  BY DEF Born
<1>3. AncestorsOf(Above, parent)' <=> AncestorsOf(Above, parent)
  BY <1>1 DEF AncestorsOf
<1> QED  BY <1>1, <1>2, <1>3 DEF TreeFits

\* A spawn adds a leaf.
LEMMA TreeGrows ==
  ASSUME TypeOK, TreeFits, NEW t \in Born, NEW u \in Threads \ Born,
         parent' = [parent EXCEPT ![u] = t]
  PROVE  /\ Above' = [Above EXCEPT ![u] = {t} \cup Above[t]]
         /\ Born' = Born \cup {u} /\ TreeFits'
<1> DEFINE g == [Above EXCEPT ![u] = {t} \cup Above[t]]
<1>1. /\ t \in Threads /\ t # u /\ t # NoThread /\ parent[u] = NoThread /\ u # Root
      /\ DOMAIN Above = Threads
  BY ThreadsAssumption DEF Born, TreeFits, AncestorsOf
<1>2. /\ \A v \in Threads : parent'[v] = IF v = u THEN t ELSE parent[v]
      /\ \A v \in Threads : g[v] = IF v = u THEN {t} \cup Above[t] ELSE Above[v]
      /\ g = [v \in Threads |-> g[v]]
  BY <1>1 DEF TypeOK
<1> HIDE DEF g
<1>3. \A v \in Threads : parent[v] = NoThread \/ (parent[v] \in Born /\ parent[v] # u)
  BY Parents
<1>4. \A v \in Threads : parent'[v] = NoThread \/ parent'[v] \in Threads
  BY <1>1, <1>2 DEF TypeOK
<1>5. ASSUME NEW v \in Threads
      PROVE  g[v] = IF parent'[v] = NoThread THEN {} ELSE {parent'[v]} \cup g[parent'[v]]
  <2>1. CASE v = u
    BY <1>1, <1>2, <2>1
  <2>2. CASE v # u /\ parent[v] = NoThread
    BY <1>2, <2>2, Parents
  <2>3. CASE v # u /\ parent[v] # NoThread
    <3>1. parent'[v] = parent[v] /\ g[v] = Above[v]
      BY <1>2, <2>3
    <3>2. parent[v] \in Threads /\ g[parent[v]] = Above[parent[v]]
      BY <1>2, <1>3, <2>3 DEF Born
    <3> QED  BY <2>3, <3>1, <3>2, Parents
  <2> QED  BY <2>1, <2>2, <2>3
<1>6. AncestorsOf(g, parent')
  BY <1>2, <1>5 DEF AncestorsOf
<1>7. Born' = Born \cup {u} /\ IsFiniteSet(Born')
  <2>1. Born' = Born \cup {u}
    BY <1>1, <1>2 DEF Born
  <2>2. IsFiniteSet(Born \cup {u})
    BY FS_AddElement DEF TreeFits
  <2> QED  BY <2>1, <2>2
<1>8. /\ \A v \in Threads : Above[v] \subseteq Born /\ v \notin Above[v]
      /\ \A v \in Threads : \A x \in Above[v] : x \in Threads /\ Above[x] \subseteq Above[v]
      /\ \A v \in Threads : \A x, y \in Above[v] : x = y \/ x \in Above[y] \/ y \in Above[x]
  BY DEF TreeFits, Born
<1>9. ASSUME NEW v \in Threads
      PROVE  /\ g[v] \subseteq Born' /\ v \notin g[v]
             /\ \A x \in g[v] : g[x] \subseteq g[v]
             /\ \A x, y \in g[v] : x = y \/ x \in g[y] \/ y \in g[x]
  <2>1. \A x \in Born : g[x] = Above[x]
    BY <1>2 DEF Born
  <2>2. g[v] \subseteq Born /\ v \notin g[v]
    BY <1>1, <1>2, <1>8
  <2>3. \A x \in g[v] : g[x] = Above[x]
    BY <2>1, <2>2
  <2>4. \A x \in g[v] : Above[x] \subseteq g[v]
    BY <1>1, <1>2, <1>8
  <2>5. \A x, y \in g[v] : x = y \/ x \in Above[y] \/ y \in Above[x]
    BY <1>1, <1>2, <1>8
  <2> QED  BY <1>7, <2>2, <2>3, <2>4, <2>5
<1>10. \A v \in Threads : IsFiniteSet(g[v]) /\ v \notin g[v]
  BY <1>7, <1>9, FS_Subset
<1>11. AncestorsOf(Above, parent)'
  <2>1. \E f : AncestorsOf(f, parent')
    BY <1>6
  <2>2. \E f : f = [v \in Threads |-> IF parent'[v] = NoThread THEN {}
                                      ELSE {parent'[v]} \cup f[parent'[v]]]
    BY <2>1 DEF AncestorsOf
  <2> QED  BY <2>2 DEF Above, AncestorsOf
<1>12. Above' = g
  <2>1. AncestorsOf(Above', parent')
    BY <1>11 DEF AncestorsOf
  <2> QED  BY <1>4, <1>6, <1>10, <2>1, OneSolution
<1>13. TreeFits'
  BY <1>7, <1>9, <1>11, <1>12 DEF TreeFits
<1> QED  BY <1>7, <1>12, <1>13 DEF g

\* Threads below one another.
LEMMA SubtreeFacts ==
  ASSUME TypeOK, TreeFits, NEW t \in Threads
  PROVE  /\ Subtree(t) \subseteq Born
         /\ \A u \in Threads : parent[u] = t => u \in Subtree(t)
         /\ Subtree(t) # {} => t \in Born
<1>1. \A u \in Threads : Above[u] # {} => u \in Born
  BY Parents
<1>2. \A u \in Threads : parent[u] = t => t \in Above[u]
  BY Parents, ThreadsAssumption
<1> QED  BY <1>1, <1>2 DEF Subtree, TreeFits

\* What a cancellation lists is below its owner, with all that is between.
Closed(reach, t) ==
  \A u \in reach : t \in Above[u] /\ \A v \in Above[u] : t \in Above[v] => v \in reach

\* What the cancellations list is closed in that sense, and names the children.
LEMMA ListsAreClosed ==
  ASSUME TypeOK, TreeFits, NEW t \in Threads, NEW at
  PROVE  /\ Closed({}, t) /\ Closed(Subtree(t), t) /\ Closed(SpawnedBy(t, at), t)
         /\ SpawnedBy(t, at) \subseteq Subtree(t)
         /\ \A u \in Threads : parent[u] = t /\ origin[u] = at => u \in SpawnedBy(t, at)
<1>1. \A u \in Threads : Above[u] \subseteq Threads
  BY DEF TreeFits, Born
<1>2. Closed({}, t) /\ Closed(Subtree(t), t) /\ SpawnedBy(t, at) \subseteq Subtree(t)
  BY <1>1 DEF Closed, Subtree, SpawnedBy
<1>3. \A u \in Threads : parent[u] = t /\ origin[u] = at => u \in SpawnedBy(t, at)
  BY SubtreeFacts DEF SpawnedBy
<1>4. ASSUME NEW u \in SpawnedBy(t, at), NEW v \in Above[u], t \in Above[v]
      PROVE  v \in SpawnedBy(t, at)
  <2>1. u \in Subtree(t) /\ u \in Threads /\ v \in Subtree(t) /\ v \in Threads
    BY <1>1, <1>2, <1>4 DEF Subtree
  <2>2. PICK w \in {u} \cup Above[u] : parent[w] = t /\ origin[w] = at
    BY DEF SpawnedBy
  <2>3. w \in Threads /\ Above[w] = {t} \cup Above[t]
    BY <1>1, <2>1, <2>2, Parents, ThreadsAssumption
  <2>4. v \notin Above[w]
    BY <1>4, <2>3 DEF TreeFits
  <2>5. v = w \/ w \in Above[v]
    BY <2>1, <2>2, <2>4 DEF TreeFits
  <2> QED  BY <2>1, <2>2, <2>5 DEF SpawnedBy
<1> QED  BY <1>2, <1>3, <1>4 DEF Closed, Subtree

(***************************************************************************)
(* The locks a cancellation holds and the list it goes through.            *)
(***************************************************************************)
\* A list names each thread once and none that is held, everything on it or
\* held is the owner or below him, and what is between them is held, or, for
\* a thread on the list, stands before it.
ListFits(above, held, todo, owner) ==
  /\ \A i \in 1 .. Len(todo) : todo[i] \notin held /\ owner \in above[todo[i]]
  /\ \A i, j \in 1 .. Len(todo) : todo[i] = todo[j] => i = j
  /\ \A x \in held : x = owner \/ owner \in above[x]
  /\ \A x \in held : above[x] \ above[owner] \subseteq held
  /\ \A i \in 1 .. Len(todo) : \A a \in above[todo[i]] \ above[owner] :
       a \in held \/ \E j \in 1 .. Len(todo) : j < i /\ todo[j] = a

\* The first list fits.
LEMMA FirstList ==
  ASSUME TreeFits, NEW t \in Born, NEW reach \in SUBSET Born, Closed(reach, t)
  PROVE  /\ InLockOrder(reach) \in Seq(Born) /\ Range(InLockOrder(reach)) = reach
         /\ ListFits(Above, {t}, InLockOrder(reach), t)
<1> DEFINE s == InLockOrder(reach)
           n == Cardinality(reach)
<1>1. /\ n \in Nat /\ s \in [1 .. n -> reach]
      /\ \A i, j \in 1 .. n : s[i] = s[j] => i = j
      /\ \A x \in reach : \E i \in 1 .. n : s[i] = x
      /\ \A i, j \in 1 .. n : s[j] \in Above[s[i]] => j < i
  BY LockOrder
<1> HIDE DEF s, n
<1>2. s \in Seq(reach) /\ Len(s) = n
  BY <1>1
<1>3. s \in Seq(Born)
  BY <1>2, SeqMonotonic
<1>4. Range(s) = reach
  BY <1>1 DEF Range
<1>5. /\ \A x \in Born : x \in Threads /\ Above[x] \subseteq Born /\ x \notin Above[x]
      /\ \A x \in Born : \A a, b \in Above[x] : a = b \/ a \in Above[b] \/ b \in Above[a]
  BY DEF TreeFits, Born
<1>6. \A i \in 1 .. Len(s) : s[i] \in reach /\ s[i] \in Born /\ s[i] # t /\ t \in Above[s[i]]
  BY <1>1, <1>2, <1>5 DEF Closed
<1>7. ASSUME NEW i \in 1 .. Len(s), NEW a \in Above[s[i]] \ Above[t]
      PROVE  a \in {t} \/ \E j \in 1 .. Len(s) : j < i /\ s[j] = a
  <2>1. a = t \/ t \in Above[a]
    BY <1>5, <1>6
  <2>2. CASE t \in Above[a]
    <3>1. a \in reach
      BY <1>6, <2>2 DEF Closed
    <3>2. PICK j \in 1 .. n : s[j] = a
      BY <1>1, <3>1
    <3>3. j < i
      BY <1>1, <1>2, <3>2
    <3> QED  BY <1>2, <3>2, <3>3
  <2> QED  BY <2>1, <2>2
<1>8. ListFits(Above, {t}, s, t)
  BY <1>1, <1>2, <1>6, <1>7 DEF ListFits
<1> QED  BY <1>3, <1>4, <1>8 DEF s

\* The list after its head is locked fits: what is new on it is below the
\* head, and ordered.
LEMMA NextList ==
  ASSUME TypeOK, TreeFits, NEW held \in SUBSET Born, NEW todo \in Seq(Born), NEW owner \in held,
         todo # <<>>, ListFits(Above, held, todo, owner)
  PROVE  LET h == Head(todo)
             new == Subtree(h) \ (held \cup Range(todo))
             rest == Tail(todo) \o InLockOrder(new)
         IN  /\ h \in Born /\ h \notin held /\ rest \in Seq(Born)
             /\ {h} \cup Range(rest) = Range(todo) \cup new
             /\ ListFits(Above, held \cup {h}, rest, owner)
<1> DEFINE h == Head(todo)
           new == Subtree(h) \ (held \cup Range(todo))
           s == InLockOrder(new)
           n == Cardinality(new)
           tail == Tail(todo)
           rest == tail \o s
<1>1. /\ Len(todo) \in Nat \ {0} /\ h = todo[1] /\ \A i \in 1 .. Len(todo) : todo[i] \in Born
      /\ todo \in [1 .. Len(todo) -> Born]
  BY EmptySeq, LenProperties
<1>2. /\ tail \in Seq(Born) /\ Len(tail) = Len(todo) - 1
      /\ \A i \in 1 .. Len(tail) : tail[i] = todo[i + 1]
  BY HeadTailProperties
<1>3. h \in Born /\ h \in Threads /\ h \notin held
  BY <1>1 DEF ListFits, Born
<1>4. new \in SUBSET Born
  BY <1>3, SubtreeFacts
<1>5. \A x \in new : h \in Above[x] /\ x \notin held /\ \A i \in 1 .. Len(todo) : todo[i] # x
  BY <1>1 DEF Subtree, Range
<1>6. \A x \in Threads : h \in Above[x] =>
         x \in new \/ x \in held \/ \E i \in 1 .. Len(todo) : todo[i] = x
  BY <1>1 DEF Subtree, Range
<1>7. Range(todo) = {todo[i] : i \in 1 .. Len(todo)}
  BY <1>1 DEF Range
<1> HIDE DEF new, h, tail
<1>8. /\ n \in Nat /\ s \in [1 .. n -> new]
      /\ \A i, j \in 1 .. n : s[i] = s[j] => i = j
      /\ \A x \in new : \E i \in 1 .. n : s[i] = x
      /\ \A i, j \in 1 .. n : s[j] \in Above[s[i]] => j < i
  BY <1>4, LockOrder
<1> HIDE DEF s, n
<1>9. s \in Seq(Born) /\ Len(s) = n
  <2>1. s \in Seq(new) /\ Len(s) = n
    BY <1>8
  <2> QED  BY <1>4, <2>1, SeqMonotonic
<1> DEFINE m == Len(tail)
<1>10. m \in Nat /\ m + 1 = Len(todo)
  BY <1>1, <1>2
<1>11. /\ rest \in Seq(Born) /\ Len(rest) = m + n
       /\ \A i \in 1 .. m + n : rest[i] = IF i <= m THEN tail[i] ELSE s[i - m]
  BY <1>2, <1>9, ConcatProperties
<1> HIDE DEF rest, m
<1>12. \A i \in 1 .. m : i \in 1 .. m + n /\ rest[i] = todo[i + 1] /\ i + 1 \in 1 .. Len(todo)
  BY <1>2, <1>8, <1>10, <1>11 DEF m
<1>13. \A i \in 1 .. n : m + i \in 1 .. m + n /\ rest[m + i] = s[i]
  BY <1>8, <1>10, <1>11
<1>14. \A i \in 1 .. m + n : \/ i \in 1 .. m
                             \/ i > m /\ i - m \in 1 .. n /\ rest[i] = s[i - m]
  BY <1>8, <1>10, <1>11
<1>15. \A i \in 1 .. Len(todo) : i = 1 \/ (i - 1 \in 1 .. m /\ rest[i - 1] = todo[i] /\ i > 1)
  BY <1>1, <1>10, <1>12
<1>16. /\ \A x \in Born : x \in Threads /\ Above[x] \subseteq Born /\ x \notin Above[x]
       /\ \A x \in Born : \A a \in Above[x] : Above[a] \subseteq Above[x]
       /\ \A x \in Born : \A a, b \in Above[x] : a = b \/ a \in Above[b] \/ b \in Above[a]
  BY DEF TreeFits, Born
<1>17. owner \in Above[h] /\ h # owner
  BY <1>1, <1>3 DEF ListFits
<1>18. \A a \in Above[h] \ Above[owner] : a \in held
  BY <1>1 DEF ListFits
<1>19. {h} \cup Range(rest) = Range(todo) \cup new
  <2>1. Range(rest) = {rest[i] : i \in 1 .. m + n}
    BY <1>11, LenProperties DEF Range
  <2>2. \A x \in Range(rest) : x \in Range(todo) \cup new
    BY <1>7, <1>8, <1>12, <1>14, <2>1
  <2>3. \A x \in Range(todo) : x = h \/ x \in Range(rest)
    <3> SUFFICES ASSUME NEW i \in 1 .. Len(todo)  PROVE todo[i] = h \/ todo[i] \in Range(rest)
      BY <1>7
    <3>1. i = 1 \/ (i - 1 \in 1 .. m + n /\ rest[i - 1] = todo[i])
      BY <1>12, <1>15
    <3> QED  BY <1>1, <2>1, <3>1
  <2>4. \A x \in new : x \in Range(rest)
    BY <1>8, <1>13, <2>1
  <2>5. h \in Range(todo)
    BY <1>1, <1>7
  <2> QED  BY <2>2, <2>3, <2>4, <2>5
<1>20. \A i \in 1 .. Len(rest) : rest[i] \notin held \cup {h} /\ owner \in Above[rest[i]]
  <2> SUFFICES ASSUME NEW i \in 1 .. m + n
               PROVE  rest[i] \notin held \cup {h} /\ owner \in Above[rest[i]]
    BY <1>11
  <2>1. CASE i \in 1 .. m
    <3>1. rest[i] = todo[i + 1] /\ i + 1 \in 1 .. Len(todo) /\ i + 1 # 1
      BY <1>12, <2>1
    <3> QED  BY <1>1, <3>1 DEF ListFits
  <2>2. CASE i - m \in 1 .. n /\ rest[i] = s[i - m]
    <3>1. rest[i] \in new
      BY <1>8, <2>2
    <3>2. h \in Above[rest[i]] /\ rest[i] \notin held /\ rest[i] \in Born
      BY <1>4, <1>5, <3>1
    <3> QED  BY <1>16, <1>17, <3>2
  <2> QED  BY <1>14, <2>1, <2>2
<1>21. ASSUME NEW i \in 1 .. m + n, NEW j \in 1 .. m + n, rest[i] = rest[j]  PROVE i = j
  <2>1. CASE i \in 1 .. m /\ j \in 1 .. m
    <3>1. todo[i + 1] = todo[j + 1] /\ i + 1 \in 1 .. Len(todo) /\ j + 1 \in 1 .. Len(todo)
      BY <1>12, <1>21, <2>1
    <3>2. i + 1 = j + 1
      BY <3>1 DEF ListFits
    <3> QED  BY <1>10, <2>1, <3>2
  <2>2. CASE i > m /\ j > m
    <3>1. i - m \in 1 .. n /\ j - m \in 1 .. n /\ s[i - m] = s[j - m]
      BY <1>10, <1>14, <1>21, <2>2
    <3>2. i - m = j - m
      BY <1>8, <3>1
    <3> QED  BY <1>8, <1>10, <3>2
  <2>3. \A k \in 1 .. m + n : k \in 1 .. m => \E l \in 1 .. Len(todo) : rest[k] = todo[l]
    BY <1>12
  <2>4. \A k \in 1 .. m + n : k \notin 1 .. m => rest[k] \in new
    BY <1>8, <1>14
  <2>5. \A k \in 1 .. m + n : k \in 1 .. m \/ k > m
    BY <1>8, <1>10
  <2> QED  BY <1>5, <1>21, <2>1, <2>2, <2>3, <2>4, <2>5
<1>22. \A x \in held \cup {h} : /\ x = owner \/ owner \in Above[x]
                                /\ Above[x] \ Above[owner] \subseteq held \cup {h}
  BY <1>17, <1>18 DEF ListFits
<1>23. ASSUME NEW i \in 1 .. m + n, NEW a \in Above[rest[i]] \ Above[owner]
       PROVE  a \in held \cup {h} \/ \E j \in 1 .. m + n : j < i /\ rest[j] = a
  <2>1. CASE i \in 1 .. m
    <3>1. rest[i] = todo[i + 1] /\ i + 1 \in 1 .. Len(todo)
      BY <1>12, <2>1
    <3>2. a \in held \/ \E j \in 1 .. Len(todo) : j < i + 1 /\ todo[j] = a
      BY <1>23, <3>1 DEF ListFits
    <3>3. ASSUME NEW j \in 1 .. Len(todo), j < i + 1, todo[j] = a
          PROVE  a = h \/ \E k \in 1 .. m + n : k < i /\ rest[k] = a
      <4>1. CASE j = 1
        BY <1>1, <3>3, <4>1
      <4>2. CASE j - 1 \in 1 .. m /\ rest[j - 1] = todo[j]
        <5>1. j - 1 \in 1 .. m + n /\ j - 1 < i
          BY <1>12, <3>3, <4>2
        <5> QED  BY <3>3, <4>2, <5>1
      <4> QED  BY <1>15, <4>1, <4>2
    <3> QED  BY <3>2, <3>3
  <2>2. CASE i > m /\ i - m \in 1 .. n /\ rest[i] = s[i - m]
    <3>1. rest[i] \in new /\ rest[i] \in Born /\ h \in Above[rest[i]]
      BY <1>4, <1>5, <1>8, <2>2
    <3>2. a = h \/ a \in Above[h] \/ (a \in Threads /\ h \in Above[a])
      BY <1>16, <1>23, <3>1 DEF Born
    <3>3. CASE a \in new
      <4>1. PICK k \in 1 .. n : s[k] = a
        BY <1>8, <3>3
      <4>2. k < i - m
        <5>1. s[k] \in Above[s[i - m]]
          BY <1>23, <2>2, <4>1
        <5> QED  BY <1>8, <2>2, <4>1, <5>1
      <4>3. m + k \in 1 .. m + n /\ rest[m + k] = a /\ m + k < i
        BY <1>8, <1>10, <1>13, <4>1, <4>2
      <4> QED  BY <4>3
    <3>4. ASSUME NEW j \in 1 .. Len(todo), todo[j] = a
          PROVE  a = h \/ \E k \in 1 .. m + n : k < i /\ rest[k] = a
      <4>1. CASE j = 1
        BY <1>1, <3>4, <4>1
      <4>2. CASE j - 1 \in 1 .. m /\ rest[j - 1] = todo[j]
        <5>1. j - 1 \in 1 .. m + n /\ j - 1 < i
          BY <1>10, <1>12, <2>2, <4>2
        <5> QED  BY <3>4, <4>2, <5>1
      <4> QED  BY <1>15, <4>1, <4>2
    <3> QED  BY <1>6, <1>18, <1>23, <3>2, <3>3, <3>4
  <2> QED  BY <1>14, <2>1, <2>2
<1>24. ListFits(Above, held \cup {h}, rest, owner)
  BY <1>11, <1>20, <1>21, <1>22, <1>23 DEF ListFits
<1> QED  BY <1>3, <1>11, <1>19, <1>24 DEF rest, tail, s, new, h

(***************************************************************************)
(* The invariant of trees and cancellations.                               *)
(***************************************************************************)
\* Only a born thread runs, has mail or is to be admitted.
RunsAreBorn ==
  \A t \in Threads : Running(t) \/ inbox[t] # {} \/ t \in toAdmit => t \in Born

\* Whether a transaction is under way.
Cancelling(p) == tx[p].stage \in {"locking", "flagged"}

\* Locks are held under way only, a list is left only while locking, and the
\* end of a run is its own thread's transaction.
TxFits(p) ==
  /\ tx[p].held \subseteq Born /\ tx[p].todo \in Seq(Born)
  /\ tx[p].stage # "locking" => tx[p].todo = <<>>
  /\ ~Cancelling(p) => tx[p].held = {} /\ tx[p].kind = "none"
  /\ tx[p].kind = "terminal" => tx[p].owner = p

Known(p) == tx[p].held \cup Range(tx[p].todo)

\* No child of a target is missed, nor one of the owner that its end or a
\* delete reaches, nor one of the turn that is cancelled.
KidsKnown(p) ==
  \A t \in Threads :
    /\ parent[t] \in Targets(p) => t \in Known(p)
    /\ parent[t] = tx[p].owner /\ tx[p].kind \in {"terminal", "delete"} => t \in Known(p)
    /\ parent[t] = tx[p].owner /\ tx[p].kind = "turn" /\ origin[t] = lease[tx[p].owner].at
         => t \in Known(p)

\* A cancellation's locks, list and reach; a turn that is cancelled holds its
\* lease meanwhile.
CancelFits(p) ==
  /\ TxFits(p)
  /\ ListFits(Above, tx[p].held, tx[p].todo, tx[p].owner)
  /\ KidsKnown(p)
  /\ tx[p].kind = "turn" => Running(tx[p].owner)

\* A thread's lock has one holder.
LocksApart == \A p, q \in Actors : p # q => tx[p].held \cap tx[q].held = {}

\* An execution a cancellation ended is flagged, or only its lease is left.
EndedStops == \A t \in Threads : lease[t].ended # "no" => lease[t].flagged \/ lease[t].phase = "ended"

\* Spawns are made by executions admitted before.
OriginsPast == \A t \in Threads : origin[t] <= clock

LInv ==
  /\ IInv
  /\ TreeFits /\ RunsAreBorn
  /\ \A p \in Actors : CancelFits(p)
  /\ LocksApart /\ EndedStops /\ OriginsPast
  /\ SpawnsAreReached

\* Init establishes it.
LEMMA InitLInv == Init => LInv
<1> SUFFICES ASSUME Init  PROVE LInv  OBVIOUS
<1>1. IInv
  BY InitIInv
<1>2. \A t \in Threads : parent[t] = NoThread
  BY DEF Init
<1>3. Born = {Root}
  BY <1>2, ThreadsAssumption DEF Born
<1>4. AncestorsOf(Above, parent)
  <2>1. AncestorsOf([t \in Threads |-> {}], parent)
    BY <1>2 DEF AncestorsOf
  <2> QED  BY <2>1, AboveSolves
<1>5. \A t \in Threads : Above[t] = {}
  BY <1>2, <1>4 DEF AncestorsOf
<1>6. TreeFits
  BY <1>3, <1>4, <1>5, FS_Singleton DEF TreeFits
<1>7. \A t \in Threads : lease[t] = NoLease /\ inbox[t] = {} /\ origin[t] = 0
  BY DEF Init
<1>8. RunsAreBorn /\ EndedStops /\ SpawnsAreReached
  BY <1>2, <1>7 DEF Init, RunsAreBorn, EndedStops, SpawnsAreReached, Running, NoLease, Born
<1>9. \A p \in Actors : /\ tx[p].held = {} /\ tx[p].todo = <<>> /\ tx[p].kind = "none"
                        /\ tx[p].stage = "idle"
  BY DEF Init, NoTx
<1>10. <<>> \in Seq(Born) /\ Len(<<>>) = 0
  BY EmptySeq
<1>11. ASSUME NEW p \in Actors  PROVE CancelFits(p)
  <2>1. /\ tx[p].held = {} /\ tx[p].todo = <<>> /\ tx[p].kind = "none"
        /\ <<>> \in Seq(Born) /\ Len(<<>>) = 0
    BY <1>9, <1>10
  <2>2. ListFits(Above, tx[p].held, tx[p].todo, tx[p].owner)
    BY <2>1 DEF ListFits
  <2>3. KidsKnown(p)
    BY <2>1 DEF KidsKnown, Targets
  <2> QED  BY <2>1, <2>2, <2>3 DEF CancelFits, TxFits
<1>12. LocksApart
  BY <1>9 DEF LocksApart
<1>13. OriginsPast
  BY <1>7 DEF Init, OriginsPast
<1> QED  BY <1>1, <1>6, <1>8, <1>11, <1>12, <1>13 DEF LInv

(***************************************************************************)
(* What a step does to the tree, the runs and the transactions.            *)
(***************************************************************************)
\* Only a spawn changes the tree.
LEMMA TreeMoves ==
  ASSUME [Next]_vars
  PROVE  \/ UNCHANGED <<parent, origin>>
         \/ \E t, u \in Threads : Spawn(t, u)
<1>1. CASE UNCHANGED vars
  BY <1>1 DEF vars, tree
<1>2. ASSUME NEW t \in Threads,
             \/ WriterSends(t) \/ Start(t) \/ Bind(t) \/ RunEnds(t) \/ Release(t)
             \/ Expire(t) \/ Renew(t) \/ StartAdmission(t) \/ ConflictAdmission(t)
             \/ AdmitMessage(t) \/ RefuseAdmission(t) \/ EndSubtree(t) \/ EndSubtreeFails(t)
      PROVE  UNCHANGED <<parent, origin>>
  BY <1>2 DEF WriterSends, Start, Bind, RunEnds, Release, Expire, Renew, StartAdmission,
              ConflictAdmission, AdmitMessage, RefuseAdmission, EndSubtree, Begin,
              EndSubtreeFails, tree
<1>3. ASSUME NEW t \in Threads, NEW u \in Threads, Send(t, u)  PROVE UNCHANGED <<parent, origin>>
  BY <1>3 DEF Send, tree
<1>4. ASSUME NEW r \in reports, Publish(r)  PROVE UNCHANGED <<parent, origin>>
  BY <1>4 DEF Publish, tree
<1>5. ASSUME NEW p \in Commands, NEW kind \in Kinds, NEW t \in Threads, Press(p, kind, t)
      PROVE  UNCHANGED <<parent, origin>>
  <2>1. kind \in {"stop", "sendNow", "turn", "parked", "delete"}
    BY ThreadsAssumption
  <2> QED  BY <1>5, <2>1 DEF Press, Begin, tree
<1>6. ASSUME NEW p \in Actors, TakeTarget(p) \/ Flag(p) \/ Commit(p)
      PROVE  UNCHANGED <<parent, origin>>
  BY <1>6 DEF TakeTarget, Flag, Commit, tree
<1> QED  BY <1>1, <1>2, <1>3, <1>4, <1>5, <1>6 DEF Next

\* A lease is released under no lock, admitted, or stands; only a commit ends
\* its execution.
Stands(t) ==
  /\ lease'[t].at = lease[t].at
  /\ lease[t].flagged => lease'[t].flagged
  /\ lease[t].phase # "none" => lease'[t].phase # "none"
  /\ lease[t].phase = "ended" => lease'[t].phase = "ended"
  /\ lease'[t].phase # "none" => lease[t].phase # "none"
Released(t) == Free(t) /\ lease'[t] = NoLease
Admitted(t) == ~Running(t) /\ lease'[t].ended = "no" /\ t \in Born

\* Changing the phase of a run lets every lease stand.
LEMMA PhaseStands ==
  ASSUME TypeOK, NEW t \in Threads, lease[t].phase \notin {"none", "ended"},
         NEW phase \in {"refused", "setup", "unbound", "bound", "closed", "ending", "ended"},
         lease' = [lease EXCEPT ![t].phase = phase], NEW u \in Threads
  PROVE  Stands(u) /\ lease'[u].ended = lease[u].ended
  BY DEF TypeOK, Stands, Leases

\* Those are the fates of a lease in a step.
LEMMA LeaseFates ==
  ASSUME TypeOK, TxShape, RunsAreBorn, [Next]_vars, NEW u \in Threads
  PROVE  \/ Released(u) \/ Admitted(u)
         \/ /\ Stands(u)
            /\ lease'[u].ended = lease[u].ended \/ \E p \in Actors : Commit(p)
<1>1. CASE UNCHANGED lease
  BY <1>1 DEF Stands
<1>2. ASSUME NEW t \in Threads, NEW phase, NEW child, Admit(t, phase, child), t \in Born
      PROVE  Admitted(u) \/ (Stands(u) /\ lease'[u].ended = lease[u].ended)
  <2>1. CASE u = t
    BY <1>2, <2>1 DEF Admit, Admitted, NoLease, TypeOK
  <2>2. CASE u # t
    BY <1>2, <2>2 DEF Admit, Stands, TypeOK
  <2> QED  BY <2>1, <2>2
<1>3. ASSUME NEW t \in Threads, Start(t) \/ StartAdmission(t)
      PROVE  Admitted(u) \/ (Stands(u) /\ lease'[u].ended = lease[u].ended)
  BY <1>2, <1>3 DEF Start, StartAdmission, RunsAreBorn
<1>4. ASSUME NEW t \in Threads,
             Bind(t) \/ RunEnds(t) \/ AdmitMessage(t) \/ RefuseAdmission(t)
               \/ EndSubtree(t) \/ EndSubtreeFails(t)
      PROVE  Stands(u) /\ lease'[u].ended = lease[u].ended
  <2>1. CASE Bind(t)
    BY <2>1, PhaseStands DEF Bind
  <2>2. CASE RunEnds(t)
    BY <2>2, PhaseStands DEF RunEnds
  <2>3. CASE AdmitMessage(t)
    BY <2>3, PhaseStands DEF AdmitMessage
  <2>4. CASE RefuseAdmission(t)
    BY <2>4, PhaseStands DEF RefuseAdmission
  <2>5. CASE EndSubtree(t)
    BY <2>5, PhaseStands DEF EndSubtree
  <2>6. CASE EndSubtreeFails(t)
    BY <2>6, PhaseStands DEF EndSubtreeFails
  <2> QED  BY <1>4, <2>1, <2>2, <2>3, <2>4, <2>5, <2>6
<1>5. ASSUME NEW t \in Threads, Expire(t) \/ Renew(t)
      PROVE  Stands(u) /\ lease'[u].ended = lease[u].ended
  BY <1>5 DEF Expire, Renew, Stands, TypeOK, Leases
<1>6. ASSUME NEW t \in Threads, Release(t)
      PROVE  Released(u) \/ (Stands(u) /\ lease'[u].ended = lease[u].ended)
  BY <1>6 DEF Release, Released, Stands, TypeOK
<1>7. ASSUME NEW t \in Threads, WriterSends(t) \/ ConflictAdmission(t)  PROVE UNCHANGED lease
  BY <1>7 DEF WriterSends, ConflictAdmission
<1>8. ASSUME NEW t \in Threads, NEW v \in Threads, Send(t, v) \/ Spawn(t, v)
      PROVE UNCHANGED lease
  BY <1>8 DEF Send, Spawn
<1>9. ASSUME NEW r \in reports, Publish(r)  PROVE UNCHANGED lease
  BY <1>9 DEF Publish
<1>10. ASSUME NEW p \in Commands, NEW kind \in Kinds, NEW t \in Threads, Press(p, kind, t)
       PROVE UNCHANGED lease
  BY <1>10 DEF Press
<1>11. ASSUME NEW p \in Actors, TakeTarget(p) \/ Flag(p)  PROVE UNCHANGED lease
  BY <1>11 DEF TakeTarget, Flag
<1>12. ASSUME NEW p \in Actors, Commit(p)  PROVE Stands(u)
  BY <1>12, CommitMoves DEF Stands
<1>13. CASE UNCHANGED vars
  BY <1>1, <1>13 DEF vars
<1> QED  BY <1>1, <1>3, <1>4, <1>5, <1>6, <1>7, <1>8, <1>9, <1>10, <1>11, <1>12, <1>13 DEF Next

\* A cancellation starts with its owner's lock, and lists what it reaches.
Starts(p, kind, t, reach) ==
  /\ tx[p].stage = "idle" /\ Free(t)
  /\ \E flagged : tx' = [tx EXCEPT ![p] =
       [kind |-> kind, stage |-> "locking", owner |-> t, held |-> {t},
        todo |-> InLockOrder(reach), flagged |-> flagged]]
  /\ kind = "terminal" => p = t
  /\ kind \in {"terminal", "delete"} => reach = Subtree(t)
  /\ kind = "turn" => Running(t) /\ UNCHANGED lease /\ reach = SpawnedBy(t, lease[t].at)

\* A request of the writer starts one.
LEMMA PressStarts ==
  ASSUME TypeOK, TreeFits, NEW p \in Commands, NEW kind \in Kinds, NEW t \in Threads,
         Press(p, kind, t)
  PROVE  \E reach \in SUBSET Born : t \in Born /\ Closed(reach, t) /\ Starts(p, kind, t, reach)
<1>1. kind \in {"stop", "sendNow", "turn", "parked", "delete"}
  BY ThreadsAssumption
<1>2. t \in Born
  BY DEF Press
<1>3. CASE kind = "stop" \/ kind = "sendNow"
  <2>1. Begin(p, kind, t, Live(t), {})
    BY <1>3 DEF Press
  <2> QED  BY <1>2, <1>3, <2>1, ListsAreClosed DEF Begin, Starts
<1>4. CASE kind = "turn"
  <2>1. Begin(p, kind, t, Live(t), SpawnedBy(t, lease[t].at)) /\ Running(t) /\ UNCHANGED lease
    BY <1>4 DEF Press, Live
  <2>2. SpawnedBy(t, lease[t].at) \in SUBSET Born
    BY ListsAreClosed, SubtreeFacts
  <2> QED  BY <1>2, <1>4, <2>1, <2>2, ListsAreClosed DEF Begin, Starts
<1>5. CASE kind = "delete"
  <2>1. Begin(p, kind, t, {}, Subtree(t))
    BY <1>5 DEF Press
  <2> QED  BY <1>2, <1>5, <2>1, ListsAreClosed, SubtreeFacts DEF Begin, Starts
<1>6. CASE kind = "parked"
  <2>1. PICK at : Begin(p, kind, t, {}, SpawnedBy(t, at))
    BY <1>6 DEF Press
  <2>2. SpawnedBy(t, at) \in SUBSET Born
    BY ListsAreClosed, SubtreeFacts
  <2> QED  BY <1>2, <1>6, <2>1, <2>2, ListsAreClosed DEF Begin, Starts
<1> QED  BY <1>1, <1>3, <1>4, <1>5, <1>6

\* So does a subagent's own end.
LEMMA EndSubtreeStarts ==
  ASSUME TypeOK, TreeFits, NEW t \in Threads, EndSubtree(t)
  PROVE  \E reach \in SUBSET Born : t \in Born /\ Closed(reach, t) /\ Starts(t, "terminal", t, reach)
<1>1. Begin(t, "terminal", t, {}, Subtree(t)) /\ Subtree(t) # {}
  BY DEF EndSubtree
<1> QED  BY <1>1, ListsAreClosed, SubtreeFacts DEF Begin, Starts

\* A transaction starts, takes a lock, flags or commits; the tree stands then.
LEMMA TxMoves ==
  ASSUME TypeOK, TreeFits, [Next]_vars
  PROVE  \/ UNCHANGED tx
         \/ /\ UNCHANGED <<parent, origin>>
            /\ \/ \E p \in Actors, kind \in Kinds \cup {"terminal"}, t \in Born :
                    \E reach \in SUBSET Born : Closed(reach, t) /\ Starts(p, kind, t, reach)
               \/ \E p \in Actors : TakeTarget(p) \/ Flag(p) \/ Commit(p)
<1>1. \A t, u \in Threads : Spawn(t, u) => UNCHANGED tx
  BY DEF Spawn
<1>2. ASSUME NEW p \in Commands, NEW kind \in Kinds, NEW t \in Threads, Press(p, kind, t)
      PROVE  p \in Actors /\ \E reach \in SUBSET Born :
               t \in Born /\ Closed(reach, t) /\ Starts(p, kind, t, reach)
  BY <1>2, PressStarts DEF Actors
<1>3. ASSUME NEW t \in Threads, EndSubtree(t)
      PROVE  t \in Actors /\ \E reach \in SUBSET Born :
               t \in Born /\ Closed(reach, t) /\ Starts(t, "terminal", t, reach)
  BY <1>3, EndSubtreeStarts DEF Actors
<1> QED  BY <1>1, <1>2, <1>3, StepMoves, TreeMoves

(***************************************************************************)
(* Each part of it is kept.                                                *)
(***************************************************************************)
\* Born threads keep their ancestors.
LEMMA TreeStep ==
  ASSUME TypeOK, TreeFits, RunsAreBorn, [Next]_vars
  PROVE  /\ TreeFits' /\ Born \subseteq Born'
         /\ \A x \in Born : Above'[x] = Above[x] /\ parent'[x] = parent[x] /\ origin'[x] = origin[x]
<1>1. CASE UNCHANGED <<parent, origin>>
  BY <1>1, TreeStands
<1>2. ASSUME NEW t \in Threads, NEW u \in Threads, Spawn(t, u)
      PROVE  /\ TreeFits' /\ Born \subseteq Born'
             /\ \A x \in Born : /\ Above'[x] = Above[x]
                                /\ parent'[x] = parent[x] /\ origin'[x] = origin[x]
  <2>1. /\ t \in Born /\ u \in Threads \ Born
        /\ parent' = [parent EXCEPT ![u] = t] /\ origin' = [origin EXCEPT ![u] = lease[t].at]
    BY <1>2 DEF Spawn, RunsAreBorn, Running
  <2>2. /\ Above' = [Above EXCEPT ![u] = {t} \cup Above[t]]
        /\ Born' = Born \cup {u} /\ TreeFits'
    BY <2>1, TreeGrows
  <2>3. DOMAIN Above = Threads /\ Born \subseteq Threads
    BY DEF TreeFits, AncestorsOf, Born
  <2> QED  BY <2>1, <2>2, <2>3 DEF TypeOK
<1> QED  BY <1>1, <1>2, TreeMoves

\* Mail goes to born threads, admissions are of theirs.
LEMMA RunsBornStep ==
  ASSUME TypeOK, TxShape, TreeFits, RunsAreBorn, [Next]_vars
  PROVE  RunsAreBorn'
<1>1. Born \subseteq Born'
  BY TreeStep
<1> DEFINE Mail == \A x \in Threads : inbox'[x] # {} => x \in Born
           Queue == \A x \in Threads : x \in toAdmit' => x \in Born'
<1>2. \A x \in Threads : Running(x)' => x \in Born
  BY LeaseFates DEF Released, Admitted, Stands, Running, NoLease, RunsAreBorn
<1>3. UNCHANGED inbox => Mail
  BY DEF RunsAreBorn
<1>4. toAdmit' \subseteq toAdmit => Queue
  BY <1>1 DEF RunsAreBorn
<1>5. ASSUME NEW t \in Threads,
             \/ Start(t) \/ RunEnds(t) \/ Release(t) \/ Expire(t) \/ Renew(t)
             \/ StartAdmission(t) \/ ConflictAdmission(t)
             \/ RefuseAdmission(t) \/ EndSubtree(t) \/ EndSubtreeFails(t)
      PROVE  Mail /\ Queue
  BY <1>3, <1>4, <1>5 DEF Start, RunEnds, Release, Expire, Renew, StartAdmission,
                          ConflictAdmission, RefuseAdmission, EndSubtree, Begin,
                          EndSubtreeFails, tree
<1>6. ASSUME NEW t \in Threads, WriterSends(t)  PROVE Mail /\ Queue
  BY <1>4, <1>6 DEF WriterSends, tree, RunsAreBorn, TypeOK
<1>7. ASSUME NEW t \in Threads, Bind(t)  PROVE Mail /\ Queue
  <2>1. t \in Born
    BY <1>7 DEF Bind, RunsAreBorn, Running
  <2>2. \A x \in Threads \ {t} : inbox'[x] = inbox[x]
    BY <1>7 DEF Bind, TypeOK
  <2> QED  BY <1>4, <1>7, <2>1, <2>2 DEF Bind, tree, RunsAreBorn
<1>8. ASSUME NEW t \in Threads, AdmitMessage(t)  PROVE Mail /\ Queue
  <2>1. t \in Born
    BY <1>8 DEF AdmitMessage, RunsAreBorn, Running
  <2> QED  BY <1>4, <1>8, <2>1 DEF AdmitMessage, tree, RunsAreBorn, TypeOK
<1>9. ASSUME NEW t \in Threads, NEW u \in Threads, Send(t, u)  PROVE Mail /\ Queue
  BY <1>4, <1>9 DEF Send, tree, RunsAreBorn, TypeOK
<1>10. ASSUME NEW t \in Threads, NEW u \in Threads, Spawn(t, u)  PROVE Mail /\ Queue
  <2>1. parent'[u] = t /\ t # NoThread
    BY <1>10, ThreadsAssumption DEF Spawn, TypeOK
  <2>2. u \in Born'
    BY <2>1 DEF Born
  <2> QED  BY <1>1, <1>3, <1>10, <2>2 DEF Spawn, RunsAreBorn
<1>11. ASSUME NEW r \in reports, Publish(r)  PROVE Mail /\ Queue
  <2>1. r.child \in Threads
    BY DEF TypeOK, Reports
  <2>2. parent[r.child] = NoThread \/ parent[r.child] \in Born
    BY <2>1, Parents
  <2>3. \A x \in Threads \ {parent[r.child]} : inbox'[x] = inbox[x]
    BY <1>11 DEF Publish, TypeOK
  <2>4. Mail
    BY <2>2, <2>3, ThreadsAssumption DEF RunsAreBorn
  <2> QED  BY <1>4, <1>11, <2>4 DEF Publish, tree
<1>12. ASSUME NEW p \in Commands, NEW kind \in Kinds, NEW t \in Threads, Press(p, kind, t)
       PROVE  Mail /\ Queue
  <2>1. kind \in {"stop", "sendNow", "turn", "parked", "delete"}
    BY ThreadsAssumption
  <2> QED  BY <1>3, <1>4, <1>12, <2>1 DEF Press, Begin, tree
<1>13. ASSUME NEW p \in Actors, TakeTarget(p) \/ Flag(p)  PROVE Mail /\ Queue
  BY <1>3, <1>4, <1>13 DEF TakeTarget, Flag, tree
<1>14. ASSUME NEW p \in Actors, Commit(p)  PROVE Mail /\ Queue
  <2>1. \A x \in Threads : inbox[x] = {} => inbox'[x] = {}
    BY <1>14 DEF Commit
  <2> QED  BY <1>4, <1>14, <2>1 DEF Commit, RunsAreBorn
<1>15. ASSUME UNCHANGED vars  PROVE Mail /\ Queue
  BY <1>3, <1>4, <1>15 DEF vars, tree
<1>16. Mail /\ Queue
  BY <1>5, <1>6, <1>7, <1>8, <1>9, <1>10, <1>11, <1>12, <1>13, <1>14, <1>15 DEF Next
<1> QED  BY <1>1, <1>2, <1>16 DEF RunsAreBorn

\* What a step of a transaction does to it; the others are left alone.
LEMMA StartFields ==
  ASSUME TxShape, NEW p \in Actors, NEW kind, NEW t, NEW reach, Starts(p, kind, t, reach)
  PROVE  /\ tx'[p].kind = kind /\ tx'[p].stage = "locking" /\ tx'[p].owner = t
         /\ tx'[p].held = {t} /\ tx'[p].todo = InLockOrder(reach)
         /\ \A q \in Actors \ {p} : tx'[q] = tx[q]
  BY DEF TxShape, Starts

\* Taking a lock.
LEMMA TakeFields ==
  ASSUME TxShape, NEW p \in Actors, TakeTarget(p)
  PROVE  /\ tx'[p].kind = tx[p].kind /\ tx'[p].stage = "locking" /\ tx'[p].owner = tx[p].owner
         /\ tx'[p].held = tx[p].held \cup {Head(tx[p].todo)} /\ tx'[p].todo = Relisted(p)
         /\ \A q \in Actors \ {p} : tx'[q] = tx[q]
<1>1. tx = [q \in Actors |-> tx[q]] /\ TxRecord(tx[p])
  BY DEF TxShape
<1>2. tx'[p] = [tx[p] EXCEPT !.held = @ \cup {Head(tx[p].todo)}, !.todo = Relisted(p)]
  BY <1>1 DEF TakeTarget
<1>3. \A q \in Actors \ {p} : tx'[q] = tx[q]
  BY <1>1 DEF TakeTarget
<1> QED  BY <1>1, <1>2, <1>3 DEF TxRecord, TakeTarget

\* Flagging.
LEMMA FlagFields ==
  ASSUME TxShape, NEW p \in Actors, Flag(p)
  PROVE  /\ tx'[p].kind = tx[p].kind /\ tx'[p].stage = "flagged" /\ tx'[p].owner = tx[p].owner
         /\ tx'[p].held = tx[p].held /\ tx'[p].todo = tx[p].todo /\ tx[p].todo = <<>>
         /\ \A q \in Actors \ {p} : tx'[q] = tx[q]
<1>1. tx = [q \in Actors |-> tx[q]] /\ TxRecord(tx[p])
  BY DEF TxShape
<1>2. \E flagged : tx'[p] = [tx[p] EXCEPT !.stage = "flagged", !.flagged = flagged]
  BY <1>1 DEF Flag
<1>3. \A q \in Actors \ {p} : tx'[q] = tx[q]
  BY <1>1 DEF Flag
<1> QED  BY <1>1, <1>2, <1>3 DEF TxRecord, Flag

\* Committing.
LEMMA CommitFields ==
  ASSUME TxShape, NEW p \in Actors, Commit(p)
  PROVE  /\ tx'[p].kind = "none" /\ tx'[p].stage \in {"idle", "done"}
         /\ tx'[p].held = {} /\ tx'[p].todo = <<>> /\ tx[p].stage = "flagged"
         /\ \A q \in Actors \ {p} : tx'[q] = tx[q]
  BY DEF TxShape, Commit, Done, NoTx

\* A cancellation stays as it is while others go on.
LEMMA BystanderFits ==
  ASSUME LInv, [Next]_vars, NEW p \in Actors, tx'[p] = tx[p]
  PROVE  CancelFits(p)'
<1> USE DEF LInv, IInv
<1> DEFINE o == tx[p].owner
<1>1. /\ TreeFits' /\ Born \subseteq Born'
      /\ \A x \in Born : Above'[x] = Above[x] /\ parent'[x] = parent[x] /\ origin'[x] = origin[x]
  BY TreeStep
<1>2. CancelFits(p) /\ tx[p].held \subseteq Born /\ tx[p].todo \in Seq(Born)
  BY DEF CancelFits, TxFits
<1>3. tx[p].kind # "none" => Cancelling(p) /\ o \in tx[p].held
  BY DEF CancelFits, TxFits, TxShape, Cancelling
<1>4. TxFits(p)'
  <2>1. tx[p].todo \in Seq(Born')
    BY <1>1, <1>2, SeqMonotonic
  <2> QED  BY <1>1, <1>2, <2>1 DEF CancelFits, TxFits, Cancelling
<1>5. ListFits(Above', tx'[p].held, tx'[p].todo, tx'[p].owner)
  <2>1. CASE Cancelling(p)
    <3>1. o \in Born
      BY <1>2, <2>1 DEF TxShape, Cancelling
    <3>2. /\ \A i \in 1 .. Len(tx[p].todo) : Above'[tx[p].todo[i]] = Above[tx[p].todo[i]]
          /\ \A x \in tx[p].held : Above'[x] = Above[x]
          /\ Above'[o] = Above[o]
      BY <1>1, <1>2, <3>1
    <3>3. ListFits(Above, tx[p].held, tx[p].todo, o)
      BY <1>2 DEF CancelFits
    <3>4. ListFits(Above', tx[p].held, tx[p].todo, o)
      <4>1. \A i \in 1 .. Len(tx[p].todo) : o \in Above'[tx[p].todo[i]]
        BY <3>2, <3>3 DEF ListFits
      <4>2. \A x \in tx[p].held : /\ x = o \/ o \in Above'[x]
                                  /\ Above'[x] \ Above'[o] \subseteq tx[p].held
        BY <3>2, <3>3 DEF ListFits
      <4>3. \A i \in 1 .. Len(tx[p].todo) : \A a \in Above'[tx[p].todo[i]] \ Above'[o] :
               a \in tx[p].held \/ \E j \in 1 .. Len(tx[p].todo) : j < i /\ tx[p].todo[j] = a
        BY <3>2, <3>3 DEF ListFits
      <4> QED  BY <3>3, <4>1, <4>2, <4>3 DEF ListFits
    <3> QED  BY <3>4
  <2>2. CASE ~Cancelling(p)
    <3>1. tx[p].held = {} /\ tx[p].todo = <<>> /\ Len(<<>>) = 0
      BY <1>2, <2>2, EmptySeq DEF CancelFits, TxFits, Cancelling
    <3> QED  BY <3>1 DEF ListFits
  <2> QED  BY <2>1, <2>2
<1>6. tx[p].kind = "turn" =>
        /\ o \in Threads /\ Running(o) /\ Running(o)' /\ lease'[o].at = lease[o].at
  <2> SUFFICES ASSUME tx[p].kind = "turn"
               PROVE  o \in Threads /\ Running(o) /\ Running(o)' /\ lease'[o].at = lease[o].at
    OBVIOUS
  <2>1. o \in Threads /\ ~Free(o) /\ Running(o)
    BY <1>2, <1>3 DEF CancelFits, Free, Born
  <2> QED  BY <2>1, LeaseFates DEF Released, Admitted, Stands, Running
<1>7. KidsKnown(p)'
  <2>1. ASSUME NEW t \in Threads, parent'[t] = parent[t], origin'[t] = origin[t]
        PROVE  /\ parent'[t] \in Targets(p)' => t \in Known(p)'
               /\ parent'[t] = o /\ tx[p].kind \in {"terminal", "delete"} => t \in Known(p)'
               /\ parent'[t] = o /\ tx[p].kind = "turn" /\ origin'[t] = lease'[o].at
                    => t \in Known(p)'
    BY <1>2, <1>6, <2>1 DEF CancelFits, KidsKnown, Targets, Known
  <2>2. ASSUME NEW t \in Threads, parent'[t] # parent[t] \/ origin'[t] # origin[t]
        PROVE  parent'[t] \notin tx[p].held
    <3>1. PICK v \in Threads, u \in Threads : Spawn(v, u)
      BY <2>2, TreeMoves
    <3>2. parent'[t] = v
      BY <2>2, <3>1 DEF Spawn, TypeOK
    <3> QED  BY <3>1, <3>2 DEF Spawn, Free
  <2> QED  BY <1>3, <2>1, <2>2 DEF KidsKnown, Targets
<1> QED  BY <1>4, <1>5, <1>6, <1>7 DEF CancelFits

\* A cancellation that starts.
LEMMA StartFits ==
  ASSUME LInv, [Next]_vars, UNCHANGED <<parent, origin>>,
         NEW p \in Actors, NEW kind \in Kinds \cup {"terminal"}, NEW t \in Born,
         NEW reach \in SUBSET Born, Closed(reach, t), Starts(p, kind, t, reach)
  PROVE  CancelFits(p)'
<1> USE DEF LInv, IInv
<1>1. Above' = Above /\ Born' = Born
  BY TreeStands
<1>2. /\ tx'[p].kind = kind /\ tx'[p].stage = "locking" /\ tx'[p].owner = t
      /\ tx'[p].held = {t} /\ tx'[p].todo = InLockOrder(reach)
  BY StartFields
<1>3. /\ InLockOrder(reach) \in Seq(Born) /\ Range(InLockOrder(reach)) = reach
      /\ ListFits(Above, {t}, InLockOrder(reach), t)
  BY FirstList
<1>4. TxFits(p)'
  BY <1>1, <1>2, <1>3 DEF TxFits, Cancelling, Starts
<1>5. t \in Threads
  BY DEF Born
<1>6. kind = "turn" => Running(t) /\ lease' = lease
  BY DEF Starts
<1>7. KidsKnown(p)'
  BY <1>2, <1>3, <1>5, <1>6, SubtreeFacts, ListsAreClosed DEF KidsKnown, Targets, Known, Starts
<1> QED  BY <1>1, <1>2, <1>3, <1>4, <1>6, <1>7 DEF CancelFits, Running

\* A cancellation that takes the next lock.
LEMMA TakeFits ==
  ASSUME LInv, NEW p \in Actors, TakeTarget(p)
  PROVE  CancelFits(p)'
<1> USE DEF LInv, IInv
<1> DEFINE held == tx[p].held
           todo == tx[p].todo
           h == Head(todo)
           new == Subtree(h) \ (held \cup Range(todo))
           rest == Tail(todo) \o InLockOrder(new)
<1>1. Above' = Above /\ Born' = Born /\ UNCHANGED <<parent, origin, lease>>
  BY TreeStands DEF TakeTarget, tree
<1>2. /\ held \in SUBSET Born /\ todo \in Seq(Born) /\ tx[p].owner \in held /\ todo # <<>>
      /\ ListFits(Above, held, todo, tx[p].owner) /\ CancelFits(p)
  BY DEF TakeTarget, CancelFits, TxFits, TxShape
<1>3. /\ tx'[p].kind = tx[p].kind /\ tx'[p].stage = "locking" /\ tx'[p].owner = tx[p].owner
      /\ tx'[p].held = held \cup {h} /\ tx'[p].todo = rest
  BY TakeFields DEF Relisted
<1>4. /\ h \in Born /\ h \notin held /\ rest \in Seq(Born)
      /\ {h} \cup Range(rest) = Range(todo) \cup new
      /\ ListFits(Above, held \cup {h}, rest, tx[p].owner)
  BY <1>2, NextList
<1>5. \A t \in Threads : parent[t] = h => t \in Subtree(h)
  BY <1>4, SubtreeFacts DEF Born
<1> HIDE DEF rest, h
<1>6. TxFits(p)'
  BY <1>1, <1>2, <1>3, <1>4 DEF CancelFits, TxFits, Cancelling, TakeTarget
<1>7. Known(p)' = Known(p) \cup new
  BY <1>3, <1>4 DEF Known
<1>8. \A t \in Threads : parent[t] = h => t \in Known(p)'
  BY <1>5, <1>7 DEF Known
<1>9. KidsKnown(p)'
  BY <1>1, <1>2, <1>3, <1>7, <1>8 DEF CancelFits, KidsKnown, Targets
<1> QED  BY <1>1, <1>2, <1>3, <1>4, <1>6, <1>9 DEF CancelFits, Running

\* One that flags goes through its list no more.
LEMMA FlagFits ==
  ASSUME LInv, NEW p \in Actors, Flag(p)
  PROVE  CancelFits(p)'
<1> USE DEF LInv, IInv
<1>1. Above' = Above /\ Born' = Born /\ UNCHANGED <<parent, origin, lease>>
  BY TreeStands DEF Flag, tree
<1>2. /\ tx'[p].kind = tx[p].kind /\ tx'[p].stage = "flagged" /\ tx'[p].owner = tx[p].owner
      /\ tx'[p].held = tx[p].held /\ tx'[p].todo = tx[p].todo /\ tx[p].todo = <<>>
  BY FlagFields
<1>3. CancelFits(p) /\ tx[p].stage = "locking"
  BY DEF Flag
<1> QED  BY <1>1, <1>2, <1>3 DEF CancelFits, TxFits, Cancelling, KidsKnown, Targets, Known, Running

\* One that commits holds nothing any more.
LEMMA CommitFits ==
  ASSUME LInv, NEW p \in Actors, Commit(p)
  PROVE  CancelFits(p)'
<1>1. /\ tx'[p].kind = "none" /\ tx'[p].stage \in {"idle", "done"}
      /\ tx'[p].held = {} /\ tx'[p].todo = <<>>
  BY CommitFields DEF LInv, IInv
<1>2. <<>> \in Seq(Born') /\ Len(<<>>) = 0
  BY EmptySeq
<1>3. ListFits(Above', tx'[p].held, tx'[p].todo, tx'[p].owner)
  BY <1>1, <1>2 DEF ListFits
<1>4. KidsKnown(p)'
  BY <1>1 DEF KidsKnown, Targets
<1>5. TxFits(p)'
  BY <1>1, <1>2 DEF TxFits
<1> QED  BY <1>1, <1>3, <1>4, <1>5 DEF CancelFits

\* Every cancellation goes on as it should.
LEMMA CancelStep ==
  ASSUME LInv, [Next]_vars
  PROVE  /\ \A p \in Actors : CancelFits(p)'
         /\ LocksApart'
<1> USE DEF LInv, IInv
<1>1. CASE UNCHANGED tx
  BY <1>1, BystanderFits DEF LocksApart
<1>2. ASSUME NEW p \in Actors, NEW kind \in Kinds \cup {"terminal"}, NEW t \in Born,
             NEW reach \in SUBSET Born, Closed(reach, t), Starts(p, kind, t, reach),
             UNCHANGED <<parent, origin>>
      PROVE  (\A q \in Actors : CancelFits(q)') /\ LocksApart'
  <2>1. tx'[p].held = {t} /\ \A q \in Actors \ {p} : tx'[q] = tx[q]
    BY <1>2, StartFields
  <2>3. \A q \in Actors : t \notin tx[q].held
    BY <1>2 DEF Starts, Free
  <2>2. CancelFits(p)'
    BY <1>2, StartFits
  <2> QED  BY <2>1, <2>2, <2>3, BystanderFits DEF LocksApart
<1>3. ASSUME NEW p \in Actors, TakeTarget(p)
      PROVE  (\A q \in Actors : CancelFits(q)') /\ LocksApart'
  <2>1. /\ tx'[p].held = tx[p].held \cup {Head(tx[p].todo)}
        /\ \A q \in Actors \ {p} : tx'[q] = tx[q] /\ Head(tx[p].todo) \notin tx[q].held
    BY <1>3, TakeFields DEF TakeTarget, Free
  <2>2. CancelFits(p)'
    BY <1>3, TakeFits
  <2> QED  BY <2>1, <2>2, BystanderFits DEF LocksApart
<1>4. ASSUME NEW p \in Actors, Flag(p)
      PROVE  (\A q \in Actors : CancelFits(q)') /\ LocksApart'
  <2>1. tx'[p].held = tx[p].held /\ \A q \in Actors \ {p} : tx'[q] = tx[q]
    BY <1>4, FlagFields
  <2>2. CancelFits(p)'
    BY <1>4, FlagFits
  <2> QED  BY <2>1, <2>2, BystanderFits DEF LocksApart
<1>5. ASSUME NEW p \in Actors, Commit(p)
      PROVE  (\A q \in Actors : CancelFits(q)') /\ LocksApart'
  <2>1. tx'[p].held = {} /\ \A q \in Actors \ {p} : tx'[q] = tx[q]
    BY <1>5, CommitFields
  <2>2. CancelFits(p)'
    BY <1>5, CommitFits
  <2> QED  BY <2>1, <2>2, BystanderFits DEF LocksApart
<1> QED  BY <1>1, <1>2, <1>3, <1>4, <1>5, TxMoves

\* Who is ended is flagged, or only its lease is left.
LEMMA EndedStopsStep ==
  ASSUME LInv, [Next]_vars
  PROVE  EndedStops'
<1> USE DEF LInv, IInv
<1> SUFFICES ASSUME NEW t \in Threads, lease'[t].ended # "no"
             PROVE  lease'[t].flagged \/ lease'[t].phase = "ended"
  BY DEF EndedStops
<1>1. /\ Stands(t)
      /\ lease'[t].ended = lease[t].ended \/ \E p \in Actors : Commit(p)
  BY LeaseFates DEF Released, Admitted, NoLease
<1>2. CASE lease'[t].ended = lease[t].ended
  BY <1>1, <1>2 DEF EndedStops, Stands
<1>3. ASSUME NEW p \in Actors, Commit(p)
      PROVE  lease'[t].flagged \/ lease'[t].phase = "ended"
  <2>1. /\ lease'[t].flagged = (lease[t].flagged \/ t \in tx[p].flagged)
        /\ lease'[t].ended = EndedBy(p, t)
        /\ lease'[t].phase = IF t = p THEN "ended" ELSE lease[t].phase
    BY <1>3, CommitMoves
  <2>2. tx[p].kind = "terminal" => tx[p].owner = p
    BY DEF CancelFits, TxFits
  <2>3. EndedBy(p, t) = lease[t].ended \/ t \in tx[p].flagged \/ t = p
    BY <2>2 DEF EndedBy
  <2> QED  BY <1>2, <2>1, <2>3
<1> QED  BY <1>1, <1>2, <1>3

\* The clock does not go back, and a fence is moved up by a commit alone.
LEMMA ClockStep ==
  ASSUME TypeOK, Clocked, [Next]_vars
  PROVE  /\ clock' \in Nat /\ clock <= clock'
         /\ \A t \in Threads : fence[t] <= fence'[t]
<1>1. clock \in Nat /\ \A t \in Threads : fence[t] \in Nat /\ fence[t] <= clock
  BY DEF TypeOK, Clocked
<1>2. CASE RunsMove
  BY <1>1, <1>2 DEF RunsMove
<1>3. CASE RunAdmitted
  <2>1. UNCHANGED fence /\ clock' = clock + 1
    BY <1>3, AdmitMoves
  <2> QED  BY <1>1, <2>1
<1>4. ASSUME NEW p \in Actors, Commit(p)
      PROVE  /\ clock' \in Nat /\ clock <= clock'
             /\ \A t \in Threads : fence[t] <= fence'[t]
  <2>1. clock' = clock \/ clock' = clock + 1
    BY <1>4 DEF Commit
  <2>2. \A t \in Threads : fence'[t] = fence[t] \/ fence'[t] = clock + 1
    BY <1>4 DEF Commit
  <2> QED  BY <1>1, <2>1, <2>2
<1> QED  BY <1>2, <1>3, <1>4, StepMoves

\* Spawns still name the past.
LEMMA OriginsPastStep ==
  ASSUME LInv, [Next]_vars
  PROVE  OriginsPast'
<1> USE DEF LInv, IInv
<1>1. /\ clock \in Nat /\ clock' \in Nat /\ clock <= clock'
      /\ \A t \in Threads : origin[t] \in Nat /\ origin[t] <= clock
      /\ \A t \in Threads : lease[t].at \in Nat /\ lease[t].at <= clock
  BY ClockStep DEF TypeOK, Leases, OriginsPast, Clocked
<1>2. CASE UNCHANGED origin
  BY <1>1, <1>2 DEF OriginsPast
<1>3. ASSUME NEW t \in Threads, NEW u \in Threads, Spawn(t, u)  PROVE OriginsPast'
  <2>1. \A v \in Threads : origin'[v] = origin[v] \/ origin'[v] = lease[t].at
    BY <1>3 DEF Spawn, TypeOK
  <2> QED  BY <1>1, <2>1 DEF OriginsPast
<1> QED  BY <1>2, <1>3, TreeMoves

\* A commit fences the children of whom it ends.
LEMMA CommitReaches ==
  ASSUME LInv, NEW p \in Actors, Commit(p), NEW t \in Threads, parent[t] # NoThread,
         lease[parent[t]].at = origin[t], EndedBy(p, parent[t]) # lease[parent[t]].ended
  PROVE  fence'[t] = clock + 1
<1> USE DEF LInv, IInv
<1> DEFINE x == parent[t]
<1>1. /\ x \in Born /\ x # t /\ Above[t] = {x} \cup Above[x] /\ t \notin Above[t]
  BY Parents DEF TreeFits
<1>2. CancelFits(p) /\ tx[p].stage = "flagged"
  BY DEF Commit
<1>3. Known(p) = tx[p].held
  <2>1. tx[p].todo = <<>>
    BY <1>2 DEF CancelFits, TxFits
  <2> QED  BY <2>1, EmptySeq DEF Known, Range
<1>4. CASE x \in Targets(p)
  <2>1. t \in tx[p].held
    BY <1>2, <1>3, <1>4 DEF CancelFits, KidsKnown
  <2>2. tx[p].owner \in Above[x]
    BY <1>2, <1>4 DEF CancelFits, ListFits, Targets
  <2>3. t \in Fenced(p)
    BY <1>1, <2>1, <2>2 DEF Fenced, Targets
  <2> QED  BY <2>3 DEF Commit
<1>5. CASE x = tx[p].owner /\ tx[p].kind \in {"terminal", "turn", "delete"}
  <2>1. t \in tx[p].held
    BY <1>2, <1>3, <1>5 DEF CancelFits, KidsKnown
  <2>2. t \in Fenced(p)
    BY <1>1, <1>5, <2>1 DEF Fenced, Targets
  <2> QED  BY <2>2 DEF Commit
<1> QED  BY <1>4, <1>5 DEF EndedBy

\* An execution's end still reaches its spawns.
LEMMA SpawnsReachedStep ==
  ASSUME LInv, [Next]_vars
  PROVE  SpawnsAreReached'
<1> USE DEF LInv, IInv
<1> SUFFICES ASSUME NEW t \in Born', t # Root,
                    lease'[parent'[t]].at = origin'[t], lease'[parent'[t]].ended # "no"
             PROVE  fence'[t] > origin'[t]
  BY DEF SpawnsAreReached
<1>1. t \in Threads /\ parent'[t] # NoThread
  BY DEF Born
<1>2. ASSUME NEW v \in Threads, NEW u \in Threads, Spawn(v, u), t = u  PROVE FALSE
  <2>1. parent'[t] = v /\ lease' = lease /\ lease[v].phase = "bound" /\ ~lease[v].flagged
    BY <1>1, <1>2 DEF Spawn, TypeOK, WakeRefused
  <2>2. lease[v].ended = "no"
    BY <2>1 DEF EndedStops
  <2> QED  BY <2>1, <2>2
<1>3. parent'[t] = parent[t] /\ origin'[t] = origin[t]
  BY <1>1, <1>2, TreeMoves DEF Spawn, TypeOK
<1> DEFINE x == parent[t]
<1>4. t \in Born /\ x \in Threads
  BY <1>1, <1>3, Parents DEF Born
<1>5. /\ Stands(x)
      /\ lease'[x].ended = lease[x].ended \/ \E p \in Actors : Commit(p)
  BY <1>3, <1>4, LeaseFates DEF Released, Admitted, NoLease
<1>6. lease[x].at = origin[t]
  BY <1>3, <1>5 DEF Stands
<1>7. CASE lease'[x].ended = lease[x].ended
  <2>1. fence[t] > origin[t]
    BY <1>3, <1>4, <1>6, <1>7 DEF SpawnsAreReached
  <2>2. fence[t] <= fence'[t] /\ fence[t] \in Nat /\ origin[t] \in Nat
    BY <1>1, ClockStep DEF TypeOK
  <2>3. fence'[t] \in Nat
    BY <1>1, TypeStep DEF TypeOK
  <2> QED  BY <1>3, <2>1, <2>2, <2>3
<1>8. ASSUME NEW p \in Actors, Commit(p), lease'[x].ended # lease[x].ended
      PROVE  fence'[t] > origin'[t]
  <2>1. lease'[x].ended = EndedBy(p, x)
    BY <1>4, <1>8, CommitMoves
  <2>2. fence'[t] = clock + 1
    BY <1>1, <1>3, <1>6, <1>8, <2>1, CommitReaches
  <2>3. origin[t] \in Nat /\ clock \in Nat /\ origin[t] <= clock
    BY <1>1 DEF TypeOK, OriginsPast
  <2> QED  BY <1>3, <2>2, <2>3
<1> QED  BY <1>5, <1>7, <1>8

\* The invariant of trees and cancellations is inductive.
LEMMA StepLInv == LInv /\ [Next]_vars => LInv'
<1> SUFFICES ASSUME LInv, [Next]_vars  PROVE LInv'  OBVIOUS
<1>1. IInv' /\ TreeFits' /\ RunsAreBorn'
  BY StepIInv, TreeStep, RunsBornStep DEF LInv, IInv
<1>2. (\A p \in Actors : CancelFits(p)') /\ LocksApart'
  BY CancelStep
<1>3. EndedStops' /\ OriginsPast' /\ SpawnsAreReached'
  BY EndedStopsStep, OriginsPastStep, SpawnsReachedStep
<1> QED  BY <1>1, <1>2, <1>3 DEF LInv

(***************************************************************************)
(* A spawn is reached, and nobody waits in a circle.                       *)
(***************************************************************************)
\* A spawn either commits before the cancellation of the execution that makes
\* it, and is one of its targets, or it is refused.
THEOREM SpawnsReached == Spec => []SpawnsAreReached
<1>1. LInv => SpawnsAreReached  BY DEF LInv
<1> QED  BY <1>1, InitLInv, StepLInv, PTL DEF Spec

\* A cancellation that waits for a lock another holds has its owner above the
\* other's: the other, had it locked below the first one's owner, would hold
\* that owner, too.
LEMMA WaitsGoDown ==
  ASSUME LInv, NEW p \in Actors, NEW q \in Actors,
         tx[p].stage = "locking", tx[q].stage = "locking", WaitsFor(p) \cap tx[q].held # {}
  PROVE  /\ tx[p].owner \in Threads /\ tx[q].owner \in Threads
         /\ tx[p].owner \in Above[tx[q].owner]
<1> USE DEF LInv, IInv
<1> DEFINE h == Head(tx[p].todo)
           o == tx[p].owner
           r == tx[q].owner
<1>1. tx[p].todo # <<>> /\ h \in tx[q].held
  BY DEF WaitsFor
<1>2. /\ CancelFits(p) /\ CancelFits(q)
      /\ o \in tx[p].held /\ r \in tx[q].held
      /\ tx[p].held \subseteq Born /\ tx[q].held \subseteq Born
  BY DEF CancelFits, TxFits, TxShape
<1>3. 1 \in 1 .. Len(tx[p].todo) /\ h = tx[p].todo[1]
  <2>1. tx[p].todo \in Seq(Born)
    BY <1>2 DEF CancelFits, TxFits
  <2> QED  BY <1>1, <2>1, EmptySeq, LenProperties
<1>4. h \notin tx[p].held /\ o \in Above[h] /\ h \in Threads
  <2>1. ListFits(Above, tx[p].held, tx[p].todo, o)
    BY <1>2 DEF CancelFits
  <2>2. h \notin tx[p].held /\ o \in Above[h]
    BY <1>3, <2>1 DEF ListFits
  <2>3. h \in Threads
    BY <1>1, <1>2 DEF Born
  <2> QED  BY <2>2, <2>3
<1>5. p # q /\ tx[p].held \cap tx[q].held = {}
  BY <1>1, <1>4 DEF LocksApart
<1>6. h = r \/ r \in Above[h]
  BY <1>1, <1>2 DEF CancelFits, ListFits
<1>7. o # r /\ o \notin tx[q].held /\ o \in Threads /\ r \in Threads
  BY <1>2, <1>5 DEF Born
<1>8. CASE h = r
  BY <1>4, <1>7, <1>8
<1>9. CASE r \in Above[h]
  <2>1. o \in Above[r] \/ r \in Above[o]
    BY <1>4, <1>7, <1>9 DEF TreeFits
  <2>2. o \in Above[r]
    BY <1>1, <1>2, <1>4, <1>7 DEF CancelFits, ListFits
  <2> QED  BY <1>7, <2>2
<1> QED  BY <1>6, <1>8, <1>9

\* Of a set of cancellations, one whose owner is deepest waits for none of it.
LEMMA NoCircle == LInv => NoLockCycle
<1> SUFFICES ASSUME LInv, NEW S \in SUBSET {p \in Actors : tx[p].stage = "locking"}, S # {},
                    \A p \in S : \E q \in S : WaitsFor(p) \cap tx[q].held # {}
             PROVE  FALSE
  BY DEF NoLockCycle
<1> USE DEF LInv
<1> DEFINE depth(p) == Cardinality(Above[tx[p].owner])
           n == Cardinality(Born)
           Heights == {m \in Nat : \E p \in S : m = n - depth(p)}
<1>1. \A p \in S : p \in Actors /\ tx[p].stage = "locking"
  OBVIOUS
<1>2. \A p \in S : \E q \in S : /\ tx[p].owner \in Threads /\ tx[q].owner \in Threads
                                /\ tx[p].owner \in Above[tx[q].owner]
  BY <1>1, WaitsGoDown
<1>3. n \in Nat /\ \A p \in S : depth(p) \in Nat /\ depth(p) <= n
  <2>1. IsFiniteSet(Born) /\ n \in Nat
    BY FS_CardinalityType DEF TreeFits
  <2>2. ASSUME NEW p \in S  PROVE depth(p) \in Nat /\ depth(p) <= n
    <3>1. tx[p].owner \in Threads /\ Above[tx[p].owner] \subseteq Born
      BY <1>2 DEF TreeFits
    <3> QED  BY <2>1, <3>1, Depths, FS_Subset
  <2> QED  BY <2>1, <2>2
<1>4. \A p \in S : \E q \in S : depth(p) < depth(q)
  BY <1>2, Depths
<1> HIDE DEF depth, n
<1>5. Heights # {} /\ Heights \in SUBSET Nat
  BY <1>3
<1>6. PICK m \in Heights : \A k \in Heights : m <= k
  BY <1>5, LeastExists
<1>7. PICK p \in S : m = n - depth(p)
  BY <1>6
<1>8. PICK q \in S : depth(p) < depth(q)
  BY <1>4
<1>9. n - depth(q) \in Heights /\ n - depth(q) < m
  BY <1>3, <1>7, <1>8
<1> HIDE DEF Heights
<1>10. m <= n - depth(q)
  BY <1>6, <1>9
<1> QED  BY <1>3, <1>7, <1>9, <1>10

\* Cancellations never wait for each other in a circle.
THEOREM NeverLockCycle == Spec => []NoLockCycle
  BY InitLInv, StepLInv, NoCircle, PTL DEF Spec
===============================================================================
