------------------------ MODULE RunDeliveryHistoryProofs -----------------------
(***************************************************************************)
(* What the delivery path has done stays right, for every number of        *)
(* processes, rows, turns and faults: which replies were cancelled, what   *)
(* they delivered, and which replies answered which message.  Each kind of *)
(* step of RunDeliveryPromiseProofs is followed through the turns, the     *)
(* lease row and the processes.                                            *)
(***************************************************************************)
EXTENDS RunDeliveryPromiseProofs

(* The turn that the lease row is bound to is not settled yet.             *)
LeaseTurnIsOpen == lease.turn # NoTurn => Open(lease.turn)

(* A process in a run has a reserved turn of its execution, and only the   *)
(* lease row's owner has the turn it is bound to.                          *)
RunsOnTurns ==
    \A w \in Workers :
        /\ pc[w] \in BeforeLease => run[w] = NoRun
        /\ pc[w] \in InSetup => run[w].turn = NoTurn
        /\ pc[w] \in InRun => /\ run[w].turn <= turnCount
                              /\ turns[run[w].turn].exec = run[w].exec
                              /\ lease.turn = run[w].turn => Owns(w)
        /\ pc[w] = "streaming" => Role(w) = "assistant"
        /\ pc[w] = "compacting" => Role(w) = "compaction"

(* A turn that was reserved is a reply or a compaction of an execution.    *)
ReservedTurns ==
    \A t \in Turns : t <= turnCount => /\ turns[t].role \in {"assistant", "compaction"}
                                      /\ turns[t].exec # NoExecution

(* What a turn delivered is delivered, by a turn that was reserved.        *)
DeliveriesFit ==
    \A r \in Rows : deliveredBy[r] # NoTurn => fate[r] = "delivered" /\ deliveredBy[r] <= turnCount

TInv ==
    /\ PInv
    /\ LeaseTurnIsOpen
    /\ RunsOnTurns
    /\ ReservedTurns
    /\ DeliveriesFit

-------------------------------------------------------------------------------
(* What the kinds of steps do to the turns, the lease row and the runs.    *)

(* A reserved turn keeps its execution, role and rows; a new turn belongs  *)
(* to the open execution.                                                  *)
TurnsGrow ==
    /\ turnCount' \in {turnCount, turnCount + 1}
    /\ \A t \in Turns : t <= turnCount =>
          /\ turns'[t].exec = turns[t].exec /\ turns'[t].role = turns[t].role
          /\ turns'[t].reservedFor = turns[t].reservedFor
    /\ turnCount' # turnCount =>
          /\ turnCount' \in Turns /\ lease.exec # NoExecution
          /\ turns'[turnCount'].exec = lease.exec
          /\ turns'[turnCount'].role \in {"assistant", "compaction"}

(* A reservation, seen from the turns and from the process.                *)
Reserved(w, settled, role, q) ==
    /\ turnCount' = turnCount + 1 /\ turnCount + 1 \in Turns
    /\ turns'[turnCount + 1].exec = lease.exec /\ turns'[turnCount + 1].role = role
    /\ turns'[turnCount + 1].status = "pending"
    /\ turns'[turnCount + 1].reservedFor = lease'.receipt
    /\ \A u \in Turns : u # turnCount + 1 =>
          turns'[u] = IF u = settled THEN [turns[u] EXCEPT !.status = "complete"] ELSE turns[u]
    /\ q = "bound" => pc[w] \in InSetup /\ settled = NoTurn
    /\ q # "bound" => pc[w] = "adoptSelected" /\ settled = run[w].turn
    /\ q = "ready" => role = "assistant" /\ run'[w].acks = lease'.receipt
    /\ q = "ready" /\ "forced" \in run[w].marks => Role(w) = "compaction"
    /\ q = "compacting" => role = "compaction"
    /\ pc'[w] = q

(* A reservation is one.                                                   *)
LEMMA BindingTurns ==
    ASSUME TypeOK, NEW w \in Workers, Binds(w)
    PROVE  \E settled \in {NoTurn, run[w].turn}, role \in {"assistant", "compaction"} :
              \E q \in {"bound", "ready", "compacting"} : Reserved(w, settled, role, q)
<1>1. PICK settled \in {NoTurn, run[w].turn}, role \in {"assistant", "compaction"},
           mode \in Modes, receipt \in SUBSET Rows, q \in {"bound", "ready", "compacting"} :
        Reserves(w, settled, role, mode, receipt, q)
  BY DEF Binds
<1>2. /\ Bind(w, settled, role, mode, receipt, receipt)
      /\ q = "bound" => pc[w] \in InSetup /\ settled = NoTurn
      /\ q # "bound" => pc[w] = "adoptSelected" /\ settled = run[w].turn
      /\ q = "ready" => role = "assistant" /\ run'[w].acks = receipt
      /\ q = "ready" /\ "forced" \in run[w].marks => Role(w) = "compaction"
      /\ q = "compacting" => role = "compaction"
      /\ pc' = [pc EXCEPT ![w] = q]
  BY <1>1 DEF Reserves
<1>3. lease \in LeaseType /\ turnCount \in 0 .. MaxTurns /\ pc \in [Workers -> Pcs]
  BY TypeParts DEF LeaseTypes, TurnTypes, RunTypes
<1>4. turnCount' = turnCount + 1 /\ turnCount + 1 \in Turns
  BY <1>2, <1>3, Ranges DEF Bind
<1>5. lease'.receipt = receipt
  <2>1. lease' = [lease EXCEPT !.turn = turnCount + 1, !.receipt = receipt]
    BY <1>2 DEF Bind
  <2> QED BY <1>3, <2>1 DEF LeaseType
<1>6. \A u \in Turns :
        turns'[u] = IF u = turnCount + 1
                    THEN [exec |-> lease.exec, role |-> role, status |-> "pending",
                          mode |-> mode, reservedFor |-> receipt]
                    ELSE IF u = settled THEN [turns[u] EXCEPT !.status = "complete"]
                    ELSE turns[u]
  BY <1>2 DEF Bind
<1>7. /\ turns'[turnCount + 1].exec = lease.exec /\ turns'[turnCount + 1].role = role
      /\ turns'[turnCount + 1].status = "pending" /\ turns'[turnCount + 1].reservedFor = receipt
  <2>1. turns'[turnCount + 1] = [exec |-> lease.exec, role |-> role, status |-> "pending",
                                 mode |-> mode, reservedFor |-> receipt]
    BY <1>4, <1>6
  <2> QED BY <2>1
<1>8. \A u \in Turns : u # turnCount + 1 =>
        turns'[u] = IF u = settled THEN [turns[u] EXCEPT !.status = "complete"] ELSE turns[u]
  BY <1>6
<1>9. pc'[w] = q
  BY <1>2, <1>3
<1>10. Reserved(w, settled, role, q)
  BY <1>2, <1>4, <1>5, <1>7, <1>8, <1>9 DEF Reserved
<1> QED BY <1>10

(* A failed summary, seen from the turns.                                  *)
LEMMA FailingTurns ==
    ASSUME IInv, NEW w \in Workers, CompactionFails(w)
    PROVE  /\ turnCount' = turnCount + 1 /\ turnCount + 1 \in Turns
           /\ turns'[turnCount + 1].exec = lease.exec /\ turns'[turnCount + 1].role = "assistant"
           /\ turns'[turnCount + 1].status = "error"
           /\ turns'[turnCount + 1].reservedFor = CarriedRows(w)
           /\ \A u \in Turns : u # turnCount + 1 =>
                turns'[u] = IF u = run[w].turn THEN [turns[u] EXCEPT !.status = "error"] ELSE turns[u]
<1>1. turnCount \in 0 .. MaxTurns /\ turns \in [Turns -> TurnType] /\ turnCount < MaxTurns
  BY TypeParts DEF IInv, TurnTypes, CompactionFails
<1>2. turnCount + 1 \in Turns
  BY <1>1, Ranges
<1> DEFINE fresh == [exec |-> lease.exec, role |-> "assistant", status |-> "error",
                     mode |-> turns[run[w].turn].mode,
                     reservedFor |-> {r \in CarriedRows(w) : kind[r] = "message"}]
<1>3. turnCount' = turnCount + 1
      /\ turns' = [turns EXCEPT ![run[w].turn].status = "error", ![turnCount + 1] = fresh]
  BY DEF CompactionFails
<1>4. \A r \in CarriedRows(w) : kind[r] = "message"
  BY CarriedRowsArePending, FailingSettles
<1>5. fresh.reservedFor = CarriedRows(w) /\ fresh.exec = lease.exec /\ fresh.role = "assistant"
      /\ fresh.status = "error"
  BY <1>4
<1> HIDE DEF fresh
<1> QED BY <1>1, <1>2, <1>3, <1>5

(* A repair fails every unsettled turn and nothing else.                   *)
LEMMA RepairingTurns ==
    ASSUME TypeOK, NEW w \in Workers, RepairOrphans(w)
    PROVE  /\ turnCount' = turnCount
           /\ \A t \in Turns : turns'[t] = IF Open(t) THEN [turns[t] EXCEPT !.status = "error"]
                                           ELSE turns[t]
BY DEF RepairOrphans

(* A settled turn, and the others.                                         *)
LEMMA SettlingTurns ==
    ASSUME TypeOK, NEW w \in Workers, Settles(w)
    PROVE  /\ turnCount' = turnCount
           /\ \E s \in {"none", "complete", "error", "cancelled"} :
                \A t \in Turns : turns'[t] = IF t = run[w].turn THEN [turns[t] EXCEPT !.status = s]
                                             ELSE turns[t]
<1>1. turns \in [Turns -> TurnType]
  BY TypeParts DEF TurnTypes
<1>2. PICK s \in {"none", "complete", "error", "cancelled"} :
        turns' = [turns EXCEPT ![run[w].turn].status = s]
  BY DEF Settles
<1> QED BY <1>1, <1>2 DEF Settles

(* Giving a turn another status changes nothing else of it.                *)
LEMMA StatusEdit ==
    ASSUME NEW old \in TurnType, NEW s, NEW new, new = old \/ new = [old EXCEPT !.status = s]
    PROVE  /\ new.exec = old.exec /\ new.role = old.role /\ new.reservedFor = old.reservedFor
           /\ new = old \/ new.status = s
BY DEF TurnType

(* Where the count stands and turns only get other statuses, they grow.    *)
LEMMA EditsGrow ==
    ASSUME turns \in [Turns -> TurnType], turnCount \in 0 .. MaxTurns,
           \/ UNCHANGED turnCount
           \/ /\ turnCount' = turnCount + 1 /\ turnCount + 1 \in Turns /\ lease.exec # NoExecution
              /\ turns'[turnCount + 1].exec = lease.exec
              /\ turns'[turnCount + 1].role \in {"assistant", "compaction"},
           \A t \in Turns : t <= turnCount =>
             \E s : turns'[t] = turns[t] \/ turns'[t] = [turns[t] EXCEPT !.status = s]
    PROVE  TurnsGrow
<1>1. ASSUME NEW t \in Turns, t <= turnCount
      PROVE  /\ turns'[t].exec = turns[t].exec /\ turns'[t].role = turns[t].role
             /\ turns'[t].reservedFor = turns[t].reservedFor
  <2>1. PICK s : turns'[t] = turns[t] \/ turns'[t] = [turns[t] EXCEPT !.status = s]
    BY <1>1
  <2>2. turns[t] \in TurnType
    OBVIOUS
  <2> QED BY <2>1, <2>2, StatusEdit
<1> QED BY <1>1 DEF TurnsGrow

(* No step does more to the turns.                                         *)
LEMMA StepGrowsTurns ==
    ASSUME IInv, StepKinds
    PROVE  TurnsGrow
<1> USE DEF IInv
<1>0. turnCount \in 0 .. MaxTurns /\ turns \in [Turns -> TurnType]
  BY TypeParts DEF TurnTypes
<1>1. CASE UNCHANGED <<turnCount, turns>>
  BY <1>1 DEF TurnsGrow
<1>2. ASSUME NEW w \in Workers, RepairOrphans(w) PROVE TurnsGrow
  <2>1. UNCHANGED turnCount
    BY <1>2, RepairingTurns
  <2>2. ASSUME NEW t \in Turns, t <= turnCount
        PROVE  \E s : turns'[t] = turns[t] \/ turns'[t] = [turns[t] EXCEPT !.status = s]
    <3>1. turns'[t] = turns[t] \/ turns'[t] = [turns[t] EXCEPT !.status = "error"]
      BY <1>2, RepairingTurns
    <3> QED BY <3>1
  <2> QED BY <1>0, <2>1, <2>2, EditsGrow
<1>3. ASSUME NEW w \in Workers, Settles(w) PROVE TurnsGrow
  <2>1. UNCHANGED turnCount
    BY <1>3, SettlingTurns
  <2>2. PICK s \in {"none", "complete", "error", "cancelled"} :
          \A t \in Turns : turns'[t] = IF t = run[w].turn THEN [turns[t] EXCEPT !.status = s]
                                       ELSE turns[t]
    BY <1>3, SettlingTurns
  <2>3. ASSUME NEW t \in Turns, t <= turnCount
        PROVE  \E x : turns'[t] = turns[t] \/ turns'[t] = [turns[t] EXCEPT !.status = x]
    <3>1. turns'[t] = turns[t] \/ turns'[t] = [turns[t] EXCEPT !.status = s]
      BY <2>2
    <3> QED BY <3>1
  <2> QED BY <1>0, <2>1, <2>3, EditsGrow
<1>4. ASSUME NEW w \in Workers, Binds(w) PROVE TurnsGrow
  <2>1. PICK settled \in {NoTurn, run[w].turn}, role \in {"assistant", "compaction"} :
          \E q \in {"bound", "ready", "compacting"} : Reserved(w, settled, role, q)
    BY <1>4, BindingTurns
  <2>2. PICK q \in {"bound", "ready", "compacting"} : Reserved(w, settled, role, q)
    BY <2>1
  <2>3. lease.exec # NoExecution
    BY <1>4 DEF Binds, Owns
  <2>4. \A u \in Turns : u <= turnCount => u # turnCount + 1
    BY <1>0, Ranges
  <2>5. /\ turnCount' = turnCount + 1 /\ turnCount + 1 \in Turns
        /\ turns'[turnCount + 1].exec = lease.exec
        /\ turns'[turnCount + 1].role \in {"assistant", "compaction"}
    BY <2>2 DEF Reserved
  <2>6. \A u \in Turns : u <= turnCount =>
          turns'[u] = turns[u] \/ turns'[u] = [turns[u] EXCEPT !.status = "complete"]
    BY <2>2, <2>4 DEF Reserved
  <2> QED BY <1>0, <2>3, <2>5, <2>6, EditsGrow
<1>5. ASSUME NEW w \in Workers, CompactionFails(w) PROVE TurnsGrow
  <2>1. lease.exec # NoExecution
    BY <1>5, FailingSettles DEF MayAdopt, Owns
  <2>2. \A u \in Turns : u <= turnCount => u # turnCount + 1
    BY <1>0, Ranges
  <2>3. /\ turnCount' = turnCount + 1 /\ turnCount + 1 \in Turns
        /\ turns'[turnCount + 1].exec = lease.exec
        /\ turns'[turnCount + 1].role \in {"assistant", "compaction"}
    BY <1>5, FailingTurns
  <2>4. \A u \in Turns : u <= turnCount =>
          turns'[u] = turns[u] \/ turns'[u] = [turns[u] EXCEPT !.status = "error"]
    BY <1>5, <2>2, FailingTurns
  <2> QED BY <1>0, <2>1, <2>3, <2>4, EditsGrow
<1>6. \/ UNCHANGED <<turnCount, turns>>
      \/ \E w \in Workers : RepairOrphans(w) \/ Settles(w) \/ Binds(w) \/ CompactionFails(w)
  BY Deciding DEF StepKinds, Rests, Enqueues, Withdraws, Flags, Frees, Opens, Respond, turnVars
<1> QED BY <1>1, <1>2, <1>3, <1>4, <1>5, <1>6

(* The lease row goes, is inserted, or stays its execution's; only a       *)
(* reservation binds it and gives it rows, only a command flags it, and    *)
(* only time and the heartbeat touch its expiry.                           *)
LeaseMoves ==
    \/ lease' = NoLease
    \/ \E w \in Workers : Opens(w)
    \/ /\ lease'.exec = lease.exec /\ lease'.holder = lease.holder
       /\ lease'.turn \in {lease.turn, NoTurn} \/ \E w \in Workers : Binds(w)
       /\ lease'.receipt \subseteq lease.receipt \/ \E w \in Workers : Binds(w)
       /\ lease'.flag = lease.flag \/ Decides \/ Flags
       /\ lease'.expired = lease.expired \/ Rests

(* Every step does one of these things to the lease row.                   *)
LEMMA StepMovesLease ==
    ASSUME IInv, StepKinds
    PROVE  LeaseMoves
<1> USE DEF IInv
<1>0. lease \in LeaseType
  BY TypeParts DEF LeaseTypes
<1>1. CASE lease' = lease \/ lease' = NoLease \/ \E w \in Workers : Opens(w)
  BY <1>1 DEF LeaseMoves
<1>2. CASE Rests
  BY <1>0, <1>1, <1>2 DEF Rests, LeaseMoves, LeaseType
<1>3. CASE Decides
  <2>1. PICK back \in SUBSET Rows : \E flag :
          lease' = [lease EXCEPT !.receipt = lease.receipt \ back, !.flag = flag]
    BY <1>3, Deciding
  <2>2. /\ lease'.exec = lease.exec /\ lease'.holder = lease.holder /\ lease'.turn = lease.turn
        /\ lease'.receipt = lease.receipt \ back /\ lease'.expired = lease.expired
    BY <1>0, <2>1 DEF LeaseType
  <2> QED BY <1>3, <2>2 DEF LeaseMoves
<1>4. CASE Flags
  BY <1>0, <1>4 DEF Flags, LeaseMoves, LeaseType
<1>5. ASSUME NEW w \in Workers, RepairOrphans(w) \/ Respond(w) PROVE LeaseMoves
  <2>1. \/ lease' = lease \/ lease' = [lease EXCEPT !.receipt = {}]
        \/ lease' = [lease EXCEPT !.turn = NoTurn, !.receipt = {}]
    BY <1>5 DEF RepairOrphans, Respond, ClearReceipt
  <2> QED BY <1>0, <1>1, <2>1 DEF LeaseMoves, LeaseType
<1>6. ASSUME NEW w \in Workers, Binds(w) PROVE LeaseMoves
  BY <1>6, BindingLease DEF LeaseMoves
<1>7. ASSUME NEW w \in Workers, Frees(w) \/ Settles(w) \/ CompactionFails(w) PROVE LeaseMoves
  BY <1>1, <1>7, FailingSettles DEF Frees, Settles
<1> QED BY <1>1, <1>2, <1>3, <1>4, <1>5, <1>6, <1>7 DEF StepKinds, Enqueues, Withdraws

(* What a response does to its process.                                    *)
LEMMA RespondingRun ==
    ASSUME TypeOK, NEW w \in Workers, Respond(w)
    PROVE  /\ pc[w] = "streaming" /\ pc'[w] \in {"boundary", "exitFailed"}
           /\ run'[w].exec = run[w].exec /\ run'[w].turn = run[w].turn
           /\ run'[w].marks \in {run[w].marks, run[w].marks \cup {"completing"}}
           /\ \A v \in Workers : v # w => Stays(v)
<1>1. run \in [Workers -> RunType] /\ pc \in [Workers -> Pcs]
  BY TypeParts DEF RunTypes
<1>2. PICK c \in BOOLEAN, where \in {"boundary", "exitFailed"} :
        /\ run' = [run EXCEPT ![w].acks = {},
                              ![w].marks = IF c THEN @ \cup {"completing"} ELSE @]
        /\ pc' = [pc EXCEPT ![w] = where]
  BY DEF Respond, Goto
<1>3. run' = [run EXCEPT ![w] = [run[w] EXCEPT !.acks = {},
                 !.marks = IF c THEN run[w].marks \cup {"completing"} ELSE run[w].marks]]
  BY <1>1, <1>2 DEF RunType
<1>4. /\ run'[w] = [run[w] EXCEPT !.acks = {},
                       !.marks = IF c THEN run[w].marks \cup {"completing"} ELSE run[w].marks]
      /\ pc'[w] = where
      /\ \A v \in Workers : v # w => Stays(v)
  BY <1>2, <1>3, OneMoves
<1> QED BY <1>1, <1>4 DEF Respond, RunType

(* What inserting the lease row does to its process.                       *)
LEMMA OpeningRun ==
    ASSUME TypeOK, NEW w \in Workers, Opens(w)
    PROVE  /\ pc[w] = "insert" /\ pc'[w] = "starting"
           /\ run'[w].exec = FreshExec /\ run'[w].turn = run[w].turn
           /\ run'[w].marks = run[w].marks
           /\ \A v \in Workers : v # w => Stays(v)
<1>1. run \in [Workers -> RunType] /\ pc \in [Workers -> Pcs]
  BY TypeParts DEF RunTypes
<1>2. run' = [run EXCEPT ![w] = [run[w] EXCEPT !.exec = FreshExec]]
      /\ pc' = [pc EXCEPT ![w] = "starting"]
  BY <1>1 DEF Opens
<1> HIDE DEF FreshExec
<1>3. /\ run'[w] = [run[w] EXCEPT !.exec = FreshExec] /\ pc'[w] = "starting"
      /\ \A v \in Workers : v # w => Stays(v)
  BY <1>2, OneMoves
<1> QED BY <1>1, <1>3 DEF Opens, RunType

(* Every other step only moves the processes on.                           *)
LEMMA StepMovesRuns ==
    ASSUME IInv, StepKinds, NEW v \in Workers
    PROVE  RunMoves(v) \/ Opens(v) \/ Binds(v) \/ Respond(v)
<1> USE DEF IInv
<1>0. run \in [Workers -> RunType] /\ pc \in [Workers -> Pcs]
  BY TypeParts DEF RunTypes
<1>1. Stays(v) => RunMoves(v)
  BY StayingMoves
<1>2. CASE Enqueues \/ Withdraws \/ Decides \/ Flags
  BY <1>1, <1>2, Deciding DEF Enqueues, Withdraws, Flags, Stays, procVars
<1>3. CASE Rests
  BY <1>3 DEF Rests
<1>4. ASSUME NEW w \in Workers, LeaveRun(w) PROVE RunMoves(v)
  BY <1>4, LeavingMoves
<1>5. ASSUME NEW w \in Workers, run' = run, pc[w] \in BeforeLease,
             NEW q \in BeforeLease, pc' = [pc EXCEPT ![w] = q]
      PROVE  RunMoves(v)
  <2>1. CASE v # w
    <3>1. Stays(v)
      BY <1>0, <1>5, <2>1 DEF Stays
    <3> QED BY <1>1, <3>1
  <2>2. CASE v = w
    <3>1. pc'[w] = q
      BY <1>0, <1>5
    <3> QED BY <1>5, <2>2, <3>1, PlacesApart
            DEF RunMoves, SelectionMoves, PlaceMoves, AbortMoves, Aborted
  <2> QED BY <2>1, <2>2
<1>6. ASSUME NEW w \in Workers, RepairOrphans(w) \/ Frees(w) PROVE RunMoves(v)
  <2>1. \/ LeaveRun(w)
        \/ run' = run /\ pc[w] \in BeforeLease
             /\ \E q \in BeforeLease : pc' = [pc EXCEPT ![w] = q]
    BY <1>6 DEF RepairOrphans, Frees, Goto, BeforeLease
  <2> QED BY <1>4, <1>5, <2>1
<1>7. ASSUME NEW w \in Workers, Settles(w) \/ CompactionFails(w) PROVE RunMoves(v)
  BY <1>4, <1>7 DEF Settles, CompactionFails
<1>8. ASSUME NEW w \in Workers, Opens(w) \/ Binds(w) \/ Respond(w), w # v PROVE RunMoves(v)
  <2>1. Stays(v)
    BY <1>8, OpeningRun, RespondingRun DEF Binds
  <2> QED BY <1>1, <2>1
<1> QED BY <1>2, <1>3, <1>6, <1>7, <1>8 DEF StepKinds

(* A message is delivered from the receipt, by the turn it is bound to, or *)
(* by the reply that a failed summary leaves.                              *)
NewlyDelivered(r) ==
    /\ r \in WriterRows /\ fate[r] = "pending" /\ fate'[r] = "delivered"
    /\ \/ \E w \in Workers : /\ CompactionFails(w) /\ r \in CarriedRows(w)
                             /\ deliveredBy'[r] = turnCount + 1
       \/ \E w \in Workers : /\ RepairOrphans(w) \/ Respond(w) \/ Settles(w)
                             /\ RepairOrphans(w) => turns[lease.turn].role = "assistant"
                             /\ Respond(w) \/ Settles(w) => Owns(w) /\ lease.turn = run[w].turn
                             /\ Settles(w) =>
                                   /\ turns'[lease.turn].status \in {"cancelled", "error"}
                                   /\ turns[lease.turn].role = "assistant"
                             /\ r \in lease.receipt /\ deliveredBy'[r] = lease.turn

Delivers ==
    /\ \A r \in Rows : fate[r] = "delivered" => /\ fate'[r] = "delivered"
                                               /\ deliveredBy'[r] = deliveredBy[r]
    /\ \A r \in Rows : deliveredBy'[r] # deliveredBy[r] => NewlyDelivered(r)
    /\ \A r \in WriterRows' : fate'[r] = "delivered" =>
          r \in WriterRows /\ (fate[r] = "delivered" \/ NewlyDelivered(r))

(* An acknowledgement of the receipt delivers.                             *)
LEMMA AckDelivers ==
    ASSUME NEW rows, NEW t, Ack(rows, t), UNCHANGED <<count, kind>>, DeliveriesFit, RowTypes,
           \A r \in WriterRows \cap rows :
               fate[r] = "pending" /\ fate'[r] = "delivered" /\ deliveredBy'[r] = t => NewlyDelivered(r)
    PROVE  Delivers
<1>1. ASSUME NEW r \in Rows
      PROVE  /\ fate[r] = "delivered" => fate'[r] = "delivered" /\ deliveredBy'[r] = deliveredBy[r]
             /\ \/ deliveredBy'[r] = deliveredBy[r]
                   /\ (r \in WriterRows => fate'[r] = fate[r])
                \/ /\ r \in WriterRows \cap rows /\ fate[r] = "pending"
                   /\ fate'[r] = "delivered" /\ deliveredBy'[r] = t
  BY DEF Ack, WriterRows, RowTypes
<1>2. WriterRows' = WriterRows
  BY DEF WriterRows
<1> QED BY <1>1, <1>2 DEF Delivers, WriterRows

(* No step delivers in any other way.                                      *)
LEMMA StepDelivers ==
    ASSUME TInv, StepKinds
    PROVE  Delivers
<1> USE DEF TInv, PInv, IInv
<1>0. RowTypes /\ lease \in LeaseType
  BY TypeParts DEF LeaseTypes
<1>1. CASE UNCHANGED <<fate, deliveredBy, kind>>
  BY <1>1 DEF Delivers, WriterRows
<1>2. CASE Enqueues
  <2>1. PICK k \in {"message", "compact"} \cup Modes, s \in {"pending", "delivered"},
             settled \in SUBSET Switches(Pending, kind) :
          NewRow(k, s, settled) /\ (k = "message" => s = "pending")
    BY <1>2 DEF Enqueues
  <2>2. count \in Nat /\ count + 1 \in Rows /\ deliveredBy' = deliveredBy
    BY <1>2, <2>1, TypeParts, Ranges DEF NewRow, RowTypes, Enqueues
  <2>3. /\ kind'[count + 1] = k /\ \A r \in Rows : r # count + 1 => kind'[r] = kind[r]
        /\ fate'[count + 1] = s
        /\ \A r \in Rows : r # count + 1 => fate'[r] = IF r \in settled THEN "delivered" ELSE fate[r]
    BY <2>1, <2>2, TypeParts DEF NewRow, RowTypes
  <2>4. \A r \in settled : kind[r] # "message"
    BY DEF Switches, Modes
  <2>5. fate[count + 1] = "absent"
    BY <2>2, Ranges DEF RowsInOrder
  <2> QED BY <2>1, <2>2, <2>3, <2>4, <2>5 DEF Delivers, WriterRows
<1>3. CASE Decides
  BY <1>3, Deciding DEF Delivers, WriterRows
<1>4. ASSUME NEW t, NEW rows, Ack(rows, t), UNCHANGED <<count, kind>>,
             \A r \in rows : kind[r] # "message"
      PROVE  Delivers
  BY <1>0, <1>4, AckDelivers DEF WriterRows
<1>5. CASE Withdraws
  <2>1. PICK r \in Rows : kind[r] # "message" /\ Ack({r}, NoTurn) /\ UNCHANGED <<count, kind>>
    BY <1>5 DEF Withdraws
  <2> QED BY <1>4, <2>1
<1>6. ASSUME NEW w \in Workers, Binds(w) PROVE Delivers
  <2>1. PICK c \in SUBSET Rows : (\A r \in c : kind[r] # "message") /\ Ack(c, NoTurn)
    BY <1>6 DEF Binds
  <2>2. UNCHANGED <<count, kind>>
    BY <1>6 DEF Binds
  <2> QED BY <1>4, <2>1, <2>2
<1>7. ASSUME NEW w \in Workers, CompactionFails(w) PROVE Delivers
  <2>1. Ack(CarriedRows(w), turnCount + 1) /\ UNCHANGED <<count, kind>>
    BY <1>7 DEF CompactionFails
  <2> QED BY <1>0, <1>7, <2>1, AckDelivers DEF NewlyDelivered
<1>8. ASSUME NEW w \in Workers, RepairOrphans(w) PROVE Delivers
  <2>1. UNCHANGED <<count, kind>>
    BY <1>8 DEF RepairOrphans
  <2>2. \/ NoAck
        \/ Ack(lease.receipt, lease.turn) /\ turns[lease.turn].role = "assistant"
    BY <1>8 DEF RepairOrphans
  <2>3. pc[w] \notin InRun /\ pc[w] # "streaming"
    BY <1>8, PlacesApart DEF RepairOrphans
  <2>4. ~Respond(w) /\ ~Settles(w)
    BY <2>3 DEF Respond, Settles
  <2> QED BY <1>0, <1>1, <1>8, <2>1, <2>2, <2>4, AckDelivers DEF NewlyDelivered, NoAck
<1>9. ASSUME NEW w \in Workers, Respond(w) \/ Settles(w) PROVE Delivers
  <2>1. UNCHANGED <<count, kind>> /\ ~RepairOrphans(w) /\ pc[w] \in InRun
    BY <1>9, PlacesApart DEF Respond, Settles, RepairOrphans
  <2>2. run[w].turn \in Turns
    BY <2>1 DEF RunsFit
  <2>3. \/ NoAck
        \/ /\ Owns(w) /\ Ack(lease.receipt, run[w].turn)
           /\ Settles(w) => /\ turns'[run[w].turn].status \in {"cancelled", "error"}
                            /\ turns[run[w].turn].role = "assistant"
    <3>1. CASE Respond(w)
      <4>1. ~Settles(w)
        <5>1. pc'[w] \in {"boundary", "exitFailed"}
          BY <3>1, RespondingRun
        <5>2. Settles(w) => pc'[w] = "idle"
          BY LeavingMoves DEF Settles, Leaves
        <5> QED BY <5>1, <5>2
      <4> QED BY <3>1, <4>1 DEF Respond, ClearReceipt
    <3>2. CASE Settles(w)
      <4>1. PICK s \in {"none", "complete", "error", "cancelled"} :
              /\ turns' = [turns EXCEPT ![run[w].turn].status = s]
              /\ \/ NoAck
                 \/ /\ Owns(w) /\ Role(w) = "assistant" /\ s \in {"cancelled", "error"}
                    /\ Ack(lease.receipt, run[w].turn)
        BY <3>2 DEF Settles
      <4>2. turns'[run[w].turn].status = s
        BY <2>2, <4>1, TypeParts DEF TurnTypes, TurnType
      <4> QED BY <2>2, <4>1, <4>2, Ranges DEF Role
    <3> QED BY <1>9, <3>1, <3>2
  <2>4. Owns(w) /\ lease.receipt # {} => lease.turn = run[w].turn
    BY <2>1 DEF OwnersFit, IdleLeaseIsBlank
  <2>5. CASE NoAck
    BY <1>1, <2>1, <2>5 DEF NoAck
  <2>6. CASE ~NoAck
    <3>1. Owns(w) /\ Ack(lease.receipt, run[w].turn)
      BY <2>3, <2>6
    <3>2. ASSUME NEW r \in WriterRows \cap lease.receipt,
                 fate[r] = "pending", fate'[r] = "delivered", deliveredBy'[r] = run[w].turn
          PROVE  NewlyDelivered(r)
      BY <1>9, <2>1, <2>3, <2>4, <2>6, <3>1, <3>2 DEF NewlyDelivered
    <3> QED BY <1>0, <2>1, <3>1, <3>2, AckDelivers
  <2> QED BY <2>5, <2>6
<1>10. Rests \/ Flags \/ (\E w \in Workers : Frees(w) \/ Opens(w)) => UNCHANGED <<fate, deliveredBy, kind>>
  BY DEF Rests, Flags, Frees, Opens, inboxVars
<1> QED BY <1>1, <1>2, <1>3, <1>5, <1>6, <1>7, <1>8, <1>9, <1>10 DEF StepKinds

-------------------------------------------------------------------------------
(* The turns, the lease row and the runs stay in step.                     *)

(* A turn that was not open is not opened again.                           *)
LEMMA OpenTurnWasOpen ==
    ASSUME IInv, StepKinds, NEW t \in Turns, t <= turnCount, Open(t)'
    PROVE  Open(t)
<1> USE DEF IInv
<1>0. turnCount \in 0 .. MaxTurns /\ turns[t] \in TurnType /\ turns'[t].status = "pending"
  BY TypeParts DEF TurnTypes, Open
<1>1. CASE turns' = turns
  BY <1>1 DEF Open
<1>2. ASSUME NEW s \in {"none", "complete", "error", "cancelled"},
             turns'[t] = turns[t] \/ turns'[t] = [turns[t] EXCEPT !.status = s]
      PROVE  Open(t)
  <2>1. turns'[t] = turns[t] \/ turns'[t].status = s
    <3>1. CASE turns'[t] = [turns[t] EXCEPT !.status = s]
      BY <1>0, <3>1 DEF TurnType
    <3> QED BY <1>2, <3>1
  <2> QED BY <1>0, <2>1 DEF Open
<1>3. ASSUME NEW w \in Workers, RepairOrphans(w) PROVE Open(t)
  BY <1>2, <1>3, RepairingTurns
<1>4. ASSUME NEW w \in Workers, Settles(w) PROVE Open(t)
  <2>1. PICK s \in {"none", "complete", "error", "cancelled"} :
          turns'[t] = IF t = run[w].turn THEN [turns[t] EXCEPT !.status = s] ELSE turns[t]
    BY <1>4, SettlingTurns
  <2> QED BY <1>2, <2>1
<1>5. t # turnCount + 1
  BY <1>0, Ranges
<1>6. ASSUME NEW w \in Workers, Binds(w) PROVE Open(t)
  <2>1. \E settled : turns'[t] = IF t = settled THEN [turns[t] EXCEPT !.status = "complete"] ELSE turns[t]
    BY <1>5, <1>6, BindingTurns DEF Reserved
  <2> QED BY <1>2, <2>1
<1>7. ASSUME NEW w \in Workers, CompactionFails(w) PROVE Open(t)
  <2>1. turns'[t] = turns[t] \/ turns'[t] = [turns[t] EXCEPT !.status = "error"]
    BY <1>5, <1>7, FailingTurns
  <2> QED BY <1>2, <2>1
<1> QED BY <1>1, <1>3, <1>4, <1>6, <1>7, Deciding
        DEF StepKinds, Rests, Enqueues, Withdraws, Flags, Frees, Opens, Respond, turnVars

(* A run's turn is one of the reserved turns.                              *)
LEMMA RunTurns ==
    ASSUME TInv, NEW w \in Workers, pc[w] \in InRun
    PROVE  /\ run[w].turn \in Turns /\ run[w].turn <= turnCount
           /\ run[w].turn # NoTurn /\ Role(w) = turns[run[w].turn].role
           /\ Role(w) \in {"assistant", "compaction"}
BY Ranges DEF TInv, PInv, IInv, RunsFit, RunsOnTurns, ReservedTurns, Role

(* A step that settles the bound turn unbinds it or ends the lease.        *)
LEMMA LeaseTurnStaysOpen ==
    ASSUME TInv, StepKinds
    PROVE  LeaseTurnIsOpen'
<1> USE DEF TInv, PInv, IInv
<1>0. turnCount \in 0 .. MaxTurns /\ turns \in [Turns -> TurnType] /\ lease \in LeaseType
  BY TypeParts DEF TurnTypes, LeaseTypes
<1>1. CASE lease'.turn = NoTurn
  BY <1>1 DEF LeaseTurnIsOpen
<1>2. ASSUME NEW w \in Workers, Binds(w) PROVE LeaseTurnIsOpen'
  BY <1>2, BindingLease, BindingTurns DEF LeaseTurnIsOpen, Open, Reserved
<1>3. CASE lease'.turn = lease.turn /\ turns' = turns
  BY <1>3 DEF LeaseTurnIsOpen, Open
<1>4. ASSUME NEW w \in Workers, RepairOrphans(w) PROVE LeaseTurnIsOpen'
  <2>1. CASE Open(lease.turn)
    <3>1. lease.turn # NoTurn
      BY <2>1, Ranges DEF Open
    <3>2. lease' = [lease EXCEPT !.turn = NoTurn, !.receipt = {}]
      BY <1>4, <2>1, <3>1 DEF RepairOrphans
    <3> QED BY <1>0, <1>1, <3>2 DEF LeaseType
  <2>2. CASE ~Open(lease.turn)
    <3>1. lease' = lease /\ lease.turn = NoTurn
      BY <1>4, <2>2 DEF RepairOrphans, LeaseTurnIsOpen
    <3> QED BY <1>1, <3>1
  <2> QED BY <2>1, <2>2
<1>5. ASSUME NEW w \in Workers, Settles(w) PROVE LeaseTurnIsOpen'
  <2>1. CASE Owns(w)
    BY <1>1, <1>5, <2>1, BlankLease DEF Settles
  <2>2. CASE ~Owns(w)
    <3>1. lease' = lease /\ lease.turn # run[w].turn
      BY <1>5, <2>2 DEF Settles, RunsOnTurns
    <3>2. lease.turn # NoTurn => turns'[lease.turn] = turns[lease.turn] /\ lease.turn \in Turns
      BY <1>0, <1>5, <3>1, SettlingTurns DEF LeaseType
    <3> QED BY <3>1, <3>2 DEF LeaseTurnIsOpen, Open
  <2> QED BY <2>1, <2>2
<1>6. ASSUME NEW w \in Workers, Frees(w) \/ CompactionFails(w) \/ Opens(w) PROVE LeaseTurnIsOpen'
  BY <1>1, <1>6, BlankLease, FreshLease, FailingSettles DEF Frees
<1>7. CASE Rests \/ Enqueues \/ Withdraws \/ Flags \/ \E w \in Workers : Respond(w)
  BY <1>0, <1>3, <1>7 DEF Rests, Enqueues, Withdraws, Flags, Respond, ClearReceipt, LeaseType, turnVars
<1>8. CASE Decides
  <2>1. \E receipt, flag : lease' = [lease EXCEPT !.receipt = receipt, !.flag = flag]
    BY <1>8, Deciding
  <2> QED BY <1>0, <1>3, <1>8, <2>1, Deciding DEF LeaseType
<1> QED BY <1>2, <1>4, <1>5, <1>6, <1>7, <1>8 DEF StepKinds

(* New turns are reserved by an execution, and none changes its role.      *)
LEMMA TurnsStayReserved ==
    ASSUME TInv, StepKinds
    PROVE  ReservedTurns'
<1> USE DEF TInv, PInv, IInv
<1>0. turnCount \in 0 .. MaxTurns
  BY TypeParts DEF TurnTypes
<1>1. TurnsGrow
  BY StepGrowsTurns
<1> QED BY <1>0, <1>1, Ranges DEF TurnsGrow, ReservedTurns

(* What delivers is a turn that was reserved.                              *)
LEMMA DeliveriesStayFit ==
    ASSUME TInv, StepKinds
    PROVE  DeliveriesFit'
<1> USE DEF TInv, PInv, IInv
<1>0. turnCount \in 0 .. MaxTurns /\ turnCount' \in Nat /\ turnCount <= turnCount'
  BY TypeParts, Ranges, StepGrowsTurns DEF TurnTypes, TurnsGrow
<1>1. Delivers
  BY StepDelivers
<1>2. ASSUME NEW r \in Rows, NewlyDelivered(r)
      PROVE  fate'[r] = "delivered" /\ deliveredBy'[r] <= turnCount'
  <2>1. CASE \E w \in Workers : CompactionFails(w) /\ deliveredBy'[r] = turnCount + 1
    BY <1>0, <1>2, <2>1, FailingTurns DEF NewlyDelivered
  <2>2. CASE r \in lease.receipt /\ deliveredBy'[r] = lease.turn
    <3>1. lease.turn # NoTurn
      BY <2>2 DEF IdleLeaseIsBlank
    <3>2. lease.turn \in Turns /\ lease.turn <= turnCount
      BY <3>1 DEF LeaseTurnIsOpen, OpenTurnsFit, Open
    <3> QED BY <1>0, <1>2, <2>2, <3>2, Ranges DEF NewlyDelivered
  <2> QED BY <1>2, <2>1, <2>2 DEF NewlyDelivered
<1>3. ASSUME NEW r \in Rows, deliveredBy'[r] # NoTurn, deliveredBy'[r] = deliveredBy[r]
      PROVE  fate'[r] = "delivered" /\ deliveredBy'[r] <= turnCount'
  <2>1. fate[r] = "delivered" /\ deliveredBy[r] <= turnCount /\ deliveredBy[r] \in Nat
    BY <1>3, TypeParts, Ranges DEF DeliveriesFit, RowTypes
  <2> QED BY <1>0, <1>1, <1>3, <2>1 DEF Delivers
<1> QED BY <1>1, <1>2, <1>3 DEF Delivers, DeliveriesFit

(* A process that keeps its run keeps its turn, and what it is to the      *)
(* lease row.                                                              *)
LEMMA RunKeepsItsTurn ==
    ASSUME TInv, StepKinds, NEW v \in Workers, pc[v] \in InRun,
           run'[v].exec = run[v].exec, run'[v].turn = run[v].turn
    PROVE  /\ run'[v].turn <= turnCount'
           /\ turns'[run'[v].turn].exec = run'[v].exec
           /\ lease'.turn = run'[v].turn => lease.turn = run[v].turn /\ Owns(v)'
           /\ Role(v)' = Role(v) /\ turns'[run'[v].turn].reservedFor = turns[run[v].turn].reservedFor
<1> USE DEF TInv, PInv, IInv
<1>0. turnCount \in 0 .. MaxTurns /\ TurnsGrow
  BY TypeParts, StepGrowsTurns DEF TurnTypes
<1>1. run[v].turn \in Turns /\ run[v].turn <= turnCount /\ run[v].turn # NoTurn
  BY RunTurns
<1>2. /\ run'[v].turn <= turnCount' /\ turns'[run'[v].turn].exec = run'[v].exec
      /\ Role(v)' = Role(v) /\ turns'[run'[v].turn].reservedFor = turns[run[v].turn].reservedFor
  BY <1>0, <1>1, Ranges DEF TurnsGrow, RunsOnTurns, Role
<1>3. ASSUME lease'.turn = run'[v].turn PROVE lease.turn = run[v].turn /\ Owns(v)'
  <2>1. lease'.turn # NoTurn
    BY <1>1, <1>3
  <2>2. \A w \in Workers : ~Opens(w)
    BY <2>1, FreshLease
  <2>3. \A w \in Workers : ~Binds(w)
    <3>1. run[v].turn # turnCount + 1
      BY <1>0, <1>1, Ranges
    <3> QED BY <1>3, <3>1, BindingLease
  <2>4. lease'.exec = lease.exec /\ lease'.holder = lease.holder /\ lease'.turn = lease.turn
    BY <2>1, <2>2, <2>3, BlankLease, StepMovesLease DEF LeaseMoves
  <2>5. Owns(v)
    BY <1>3, <2>4 DEF RunsOnTurns
  <2> QED BY <1>3, <2>4, <2>5 DEF Owns
<1> QED BY <1>2, <1>3

(* Every process stays on the turn of its execution.                       *)
LEMMA RunsStayOnTurns ==
    ASSUME TInv, StepKinds
    PROVE  RunsOnTurns'
<1> USE DEF TInv, PInv, IInv
<1> SUFFICES ASSUME NEW v \in Workers
             PROVE  /\ pc'[v] \in BeforeLease => run'[v] = NoRun
                    /\ pc'[v] \in InSetup => run'[v].turn = NoTurn
                    /\ pc'[v] \in InRun => /\ run'[v].turn <= turnCount'
                                           /\ turns'[run'[v].turn].exec = run'[v].exec
                                           /\ lease'.turn = run'[v].turn => Owns(v)'
                    /\ pc'[v] = "streaming" => Role(v)' = "assistant"
                    /\ pc'[v] = "compacting" => Role(v)' = "compaction"
  BY DEF RunsOnTurns
<1>0. turnCount \in 0 .. MaxTurns
  BY TypeParts DEF TurnTypes
<1>1. CASE Leaves(v)
  BY <1>1, PlacesApart DEF Leaves
<1>2. CASE RunMoves(v) /\ ~Leaves(v)
  <2>1. run'[v].exec = run[v].exec /\ run'[v].turn = run[v].turn /\ PlaceMoves(v)
    BY <1>2 DEF RunMoves
  <2>2. CASE pc[v] \in InRun
    <3>1. /\ run'[v].turn <= turnCount' /\ turns'[run'[v].turn].exec = run'[v].exec
          /\ lease'.turn = run'[v].turn => Owns(v)'
          /\ Role(v)' = Role(v) /\ Role(v) \in {"assistant", "compaction"}
      BY <2>1, <2>2, RunKeepsItsTurn, RunTurns
    <3>2. pc'[v] \notin BeforeLease /\ pc'[v] \notin InSetup
      BY <2>1, <2>2, PlacesApart DEF PlaceMoves
    <3> QED BY <2>1, <3>1, <3>2 DEF PlaceMoves, RunsOnTurns
  <2>3. CASE pc[v] \notin InRun
    <3>1. pc'[v] \notin InRun /\ pc'[v] \notin {"streaming", "compacting"}
      BY <2>1, <2>3, PlacesApart DEF PlaceMoves
    <3> QED BY <2>1, <3>1 DEF PlaceMoves, RunsOnTurns
  <2> QED BY <2>2, <2>3
<1>3. CASE Opens(v)
  <2>1. pc'[v] = "starting" /\ run'[v].turn = run[v].turn /\ pc[v] = "insert"
    BY <1>3, OpeningRun
  <2>2. run[v].turn = NoTurn
    BY <2>1, PlacesApart DEF RunsOnTurns, NoRun
  <2> QED BY <2>1, <2>2, PlacesApart
<1>4. CASE Binds(v)
  <2>1. PICK role \in {"assistant", "compaction"}, q \in {"bound", "ready", "compacting"} :
          \E settled : Reserved(v, settled, role, q)
    BY <1>4, BindingTurns
  <2>2. /\ turnCount' = turnCount + 1 /\ turns'[turnCount + 1].exec = lease.exec
        /\ turns'[turnCount + 1].role = role /\ pc'[v] = q /\ (q = "compacting" => role = "compaction")
    BY <2>1 DEF Reserved
  <2>3. Owns(v) /\ run'[v].exec = run[v].exec /\ run'[v].turn = turnCount + 1
    BY <1>4 DEF Binds
  <2>4. Owns(v)' /\ lease.exec = run'[v].exec
    BY <1>4, <2>3, BindingLease DEF Owns
  <2>5. turnCount + 1 # NoTurn
    BY <1>0, Ranges
  <2>6. Role(v)' = role
    BY <2>2, <2>3, <2>5 DEF Role
  <2> QED BY <1>0, <2>2, <2>3, <2>4, <2>6, PlacesApart, Ranges
<1>5. CASE Respond(v)
  <2>1. /\ pc[v] \in InRun /\ pc'[v] \in {"boundary", "exitFailed"}
        /\ run'[v].exec = run[v].exec /\ run'[v].turn = run[v].turn
    BY <1>5, RespondingRun, PlacesApart
  <2> QED BY <2>1, RunKeepsItsTurn, PlacesApart
<1> QED BY <1>1, <1>2, <1>3, <1>4, <1>5, StepMovesRuns

(* The invariant holds initially and is kept.                              *)
LEMMA InitTInv == Init => TInv
<1> SUFFICES ASSUME Init PROVE TInv
  OBVIOUS
<1>1. PInv
  BY InitPInv
<1>2. lease = NoLease /\ turnCount = 0
  BY DEF Init
<1>3. LeaseTurnIsOpen
  BY <1>2, BlankLease DEF LeaseTurnIsOpen
<1>4. RunsOnTurns
  BY PlacesApart DEF Init, RunsOnTurns
<1>5. ReservedTurns /\ DeliveriesFit
  BY <1>2, Ranges DEF Init, ReservedTurns, DeliveriesFit
<1> QED BY <1>1, <1>3, <1>4, <1>5 DEF TInv

(* By every step.                                                          *)
LEMMA NextKeepsTInv == TInv /\ [Next]_vars => TInv'
<1> SUFFICES ASSUME TInv, [Next]_vars PROVE TInv'
  OBVIOUS
<1> USE DEF TInv
<1>1. PInv'
  BY NextKeepsPInv
<1>2. CASE Next
  <2>1. StepKinds
    BY <1>2, StepHasAKind
  <2> QED BY <1>1, <2>1, LeaseTurnStaysOpen, RunsStayOnTurns, TurnsStayReserved, DeliveriesStayFit
<1>3. CASE UNCHANGED vars
  <2>1. UNCHANGED <<fate, deliveredBy, turnCount, turns, lease, pc, run>>
    BY <1>3 DEF vars, inboxVars, turnVars, leaseVars, procVars
  <2> QED BY <1>1, <2>1 DEF LeaseTurnIsOpen, RunsOnTurns, ReservedTurns, DeliveriesFit, Open, Owns, Role
<1> QED BY <1>2, <1>3

-------------------------------------------------------------------------------
(* Cancels.                                                                *)

(* A flag, an abort that is due, a recorded decision, and the abort or the *)
(* cancel exit of the lease row's owner: each names an execution that a    *)
(* command asked to cancel.                                                *)
FlagWasAsked == lease.flag => lease.exec \in cancelTargets
SignalsWereAsked == signals \subseteq cancelTargets
DecisionsWereAsked == \A q \in Requests : decided[q].cancels \in cancelTargets \cup {NoExecution}
AbortsWereAsked ==
    \A w \in Workers :
        Owns(w) /\ (Aborted(w) \/ pc[w] = "exitCancelled") => run[w].exec \in cancelTargets

CInv ==
    /\ TInv
    /\ FlagWasAsked
    /\ SignalsWereAsked
    /\ DecisionsWereAsked
    /\ AbortsWereAsked
    /\ CancelledWasAsked

(* Decisions and flags ask; no step takes back what was asked.             *)
LEMMA AsksOnlyGrow ==
    ASSUME StepKinds
    PROVE  /\ cancelTargets \subseteq cancelTargets'
           /\ \/ Decides \/ Flags \/ Rests
              \/ UNCHANGED <<cancelTargets, signals, decided>>
<1>1. Decides \/ Flags => cancelTargets \subseteq cancelTargets'
  <2>1. ASSUME NEW e, NEW rows, CancelExecution(e, rows)
        PROVE  cancelTargets \subseteq cancelTargets'
    BY <2>1 DEF CancelExecution
  <2>2. Decides => \E e, rows : CancelExecution(e, rows)
    BY Deciding
  <2>3. Flags => \E e, rows : CancelExecution(e, rows)
    BY DEF Flags
  <2> QED BY <2>1, <2>2, <2>3
<1>2. Rests => cancelTargets' = cancelTargets
  BY DEF Rests, historyVars
<1>3. ~Decides /\ ~Flags /\ ~Rests => UNCHANGED <<cancelTargets, signals, decided>>
  <2>1. Enqueues \/ Withdraws => UNCHANGED <<cancelTargets, signals, decided>>
    BY DEF Enqueues, Withdraws, historyVars
  <2>2. \A w \in Workers : RepairOrphans(w) \/ Frees(w) \/ Opens(w) \/ Binds(w)
                             => UNCHANGED <<cancelTargets, signals, decided>>
    BY DEF RepairOrphans, Frees, Opens, Binds, historyVars
  <2>3. \A w \in Workers : Respond(w) \/ Settles(w) \/ CompactionFails(w)
                             => UNCHANGED <<cancelTargets, signals, decided>>
    BY DEF Respond, Settles, CompactionFails, historyVars
  <2> QED BY <2>1, <2>2, <2>3 DEF StepKinds
<1> QED BY <1>1, <1>2, <1>3

(* What one decision is.                                                   *)
DecidesOn(q, cancels, back, answered) ==
    /\ \A p \in Requests : decided'[p].cancels \in {decided[p].cancels, cancels}
    /\ lease' = [lease EXCEPT !.receipt = lease.receipt \ back,
          !.flag = lease.flag \/ (cancels # NoExecution /\ cancels = lease.exec)]
    /\ CancelExecution(cancels, Rows \ answered)
    /\ \A r \in back \cap lease.receipt : turns[lease.turn].role = "compaction"
    /\ cancels # NoExecution => Carried /\ SparesLater(Rows \ answered)

(* Every decision is.                                                      *)
LEMMA DecidesOnce ==
    ASSUME TypeOK, Decides
    PROVE  \E q \in Requests, cancels \in {NoExecution, lease.exec} :
              \E back, answered \in SUBSET Rows : DecidesOn(q, cancels, back, answered)
<1>1. PICK q \in Requests, cancels \in {NoExecution, lease.exec},
           back \in SUBSET Rows, gone \in SUBSET Rows, answered \in SUBSET Rows :
        /\ decided' = [decided EXCEPT ![q] =
              [decided |-> TRUE, handBack |-> back, gone |-> gone,
               answered |-> answered, cancels |-> cancels]]
        /\ fate' = [r \in Rows |-> IF r \in back /\ fate[r] = "pending"
                                   THEN "handedBack" ELSE fate[r]]
        /\ lease' = [lease EXCEPT !.receipt = lease.receipt \ back,
              !.flag = lease.flag \/ (cancels # NoExecution /\ cancels = lease.exec)]
        /\ CancelExecution(cancels, Rows \ answered)
        /\ \A r \in back \cap lease.receipt : /\ cancels # NoExecution
                                              /\ turns[lease.turn].role = "compaction"
        /\ cancels # NoExecution => Carried /\ SparesLater(Rows \ answered)
  BY Deciding
<1>2. decided \in [Requests -> DecisionType]
  BY TypeParts DEF CommandTypes
<1>3. \A p \in Requests : decided'[p].cancels \in {decided[p].cancels, cancels}
  BY <1>1, <1>2
<1>4. DecidesOn(q, cancels, back, answered)
  BY <1>1, <1>3 DEF DecidesOn
<1> QED BY <1>4

(* What a decision and a flag ask for.                                     *)
LEMMA AskingTargets ==
    ASSUME TypeOK, Decides \/ Flags
    PROVE  \E e \in Execs \cup {NoExecution} :
              /\ e \in {NoExecution, lease.exec}
              /\ signals' = signals \cup ({e} \ {NoExecution})
              /\ cancelTargets' = cancelTargets \cup ({e} \ {NoExecution})
              /\ lease'.exec = lease.exec
              /\ lease'.flag => lease.flag \/ (e = lease.exec /\ e # NoExecution)
              /\ \A q \in Requests : decided'[q].cancels \in {decided[q].cancels, e}
<1>0. lease \in LeaseType /\ decided \in [Requests -> DecisionType]
  BY TypeParts DEF LeaseTypes, CommandTypes
<1>1. CASE Decides
  <2>1. PICK cancels \in {NoExecution, lease.exec}, back \in SUBSET Rows, answered \in SUBSET Rows :
          \E q \in Requests : DecidesOn(q, cancels, back, answered)
    BY <1>1, DecidesOnce
  <2>2. \A p \in Requests : decided'[p].cancels \in {decided[p].cancels, cancels}
    BY <2>1 DEF DecidesOn
  <2>3. /\ lease'.exec = lease.exec
        /\ lease'.flag => lease.flag \/ (cancels = lease.exec /\ cancels # NoExecution)
    BY <1>0, <2>1 DEF LeaseType, DecidesOn
  <2>4. cancels \in Execs \cup {NoExecution}
    BY <1>0 DEF LeaseType
  <2> QED BY <2>1, <2>2, <2>3, <2>4 DEF CancelExecution, DecidesOn
<1>2. CASE Flags
  <2>1. /\ signals' = signals \cup ({lease.exec} \ {NoExecution})
        /\ cancelTargets' = cancelTargets \cup ({lease.exec} \ {NoExecution})
        /\ decided' = decided /\ lease' = [lease EXCEPT !.flag = TRUE] /\ lease.exec # NoExecution
    BY <1>2 DEF Flags, CancelExecution
  <2>2. lease'.exec = lease.exec /\ lease.exec \in Execs \cup {NoExecution}
    BY <1>0, <2>1 DEF LeaseType
  <2> QED BY <2>1, <2>2
<1> QED BY <1>1, <1>2

(* A flag, an abort due or a recorded decision names its target.           *)
LEMMA AsksStay ==
    ASSUME CInv, StepKinds, TypeOK'
    PROVE  FlagWasAsked' /\ SignalsWereAsked' /\ DecisionsWereAsked'
<1> USE DEF CInv, TInv, PInv, IInv, FlagWasAsked, SignalsWereAsked, DecisionsWereAsked
<1>1. CASE Decides \/ Flags
  BY <1>1, AskingTargets
<1>2. CASE ~Decides /\ ~Flags
  <2>1. cancelTargets' = cancelTargets /\ decided' = decided
    <3>1. CASE Rests
      BY <3>1 DEF Rests, historyVars
    <3>2. CASE ~Rests
      BY <1>2, <3>2, AsksOnlyGrow
    <3> QED BY <3>1, <3>2
  <2>2. ASSUME NEW e \in signals' PROVE e \in cancelTargets
    <3>1. e \in Execs /\ e # NoExecution
      BY Ranges DEF TypeOK
    <3>2. CASE Rests
      BY <3>1, <3>2 DEF Rests
    <3>3. CASE ~Rests
      BY <1>2, <3>3, AsksOnlyGrow
    <3> QED BY <3>2, <3>3
  <2>3. SignalsWereAsked' /\ DecisionsWereAsked'
    BY <2>1, <2>2
  <2>4. FlagWasAsked'
    <3>1. CASE lease' = NoLease \/ \E w \in Workers : Opens(w)
      BY <3>1, BlankLease, FreshLease
    <3>2. CASE lease'.exec = lease.exec /\ lease'.flag = lease.flag
      BY <2>1, <3>2
    <3> QED BY <1>2, <3>1, <3>2, StepMovesLease DEF LeaseMoves
  <2> QED BY <2>3, <2>4
<1> QED BY <1>1, <1>2

(* The owner of the lease row owned it before the step, or opened it.      *)
LEMMA OwnerOwned ==
    ASSUME IInv, StepKinds, NEW v \in Workers, Owns(v)', run'[v].exec = run[v].exec, ~Opens(v)
    PROVE  Owns(v) /\ lease'.exec = lease.exec /\ lease'.holder = lease.holder
<1>1. lease'.exec # NoExecution /\ lease'.holder = v /\ lease'.exec = run'[v].exec
  BY DEF Owns
<1>2. \A w \in Workers : ~Opens(w)
  BY <1>1, FreshLease
<1> QED BY <1>1, <1>2, BlankLease, StepMovesLease DEF LeaseMoves, Owns

(* A run that is aborted, or takes the cancel exit, as owner was asked to. *)
LEMMA AbortsStayAsked ==
    ASSUME CInv, StepKinds
    PROVE  AbortsWereAsked'
<1> USE DEF CInv, TInv, PInv, IInv
<1> SUFFICES ASSUME NEW v \in Workers, Owns(v)', Aborted(v)' \/ pc'[v] = "exitCancelled"
             PROVE  run'[v].exec \in cancelTargets'
  BY DEF AbortsWereAsked
<1>0. cancelTargets \subseteq cancelTargets'
  BY AsksOnlyGrow
<1>1. run'[v].exec # NoExecution
  BY DEF Owns
<1>2. ~Leaves(v)
  BY <1>1 DEF Leaves, NoRun
<1>3. CASE Opens(v)
  <2>1. pc[v] = "insert" /\ pc'[v] = "starting" /\ run'[v].marks = run[v].marks
    BY <1>3, OpeningRun
  <2>2. run[v].marks = {}
    BY <2>1, PlacesApart DEF RunsOnTurns, NoRun
  <2> QED BY <2>1, <2>2 DEF Aborted
<1>4. CASE ~Opens(v)
  <2>1. run'[v].exec = run[v].exec
    BY <1>2, <1>4, StepMovesRuns, RespondingRun DEF RunMoves, Binds
  <2>2. Owns(v) /\ run[v].exec = lease.exec
    BY <1>4, <2>1, OwnerOwned DEF Owns
  <2>3. \/ Aborted(v) \/ pc[v] = "exitCancelled"
        \/ lease.flag
        \/ run[v].exec \in signals
    <3>1. CASE RunMoves(v)
      BY <1>2, <2>2, <3>1 DEF RunMoves, AbortMoves, Aborted
    <3>2. CASE Binds(v)
      <4>1. \E q \in {"bound", "ready", "compacting"} : pc'[v] = q
        BY <3>2, BindingTurns DEF Reserved
      <4>2. run'[v].marks \subseteq run[v].marks \cup {"continuing"}
        BY <3>2 DEF Binds
      <4> QED BY <4>1, <4>2 DEF Aborted
    <3>3. CASE Respond(v)
      BY <3>3, RespondingRun DEF Aborted
    <3> QED BY <1>4, <3>1, <3>2, <3>3, StepMovesRuns
  <2> QED BY <1>0, <2>1, <2>2, <2>3 DEF AbortsWereAsked, FlagWasAsked, SignalsWereAsked
<1> QED BY <1>3, <1>4

(* A turn becomes cancelled only when its process settles it.              *)
LEMMA CancelsBySettling ==
    ASSUME TInv, StepKinds, NEW t \in Turns, turns'[t].status = "cancelled"
    PROVE  \/ /\ turns[t].status = "cancelled" /\ turns'[t].exec = turns[t].exec
              /\ t <= turnCount' => t <= turnCount
           \/ \E w \in Workers : Settles(w) /\ t = run[w].turn /\ Open(t)
<1> USE DEF TInv, PInv, IInv
<1> DEFINE Was == /\ turns[t].status = "cancelled" /\ turns'[t].exec = turns[t].exec
                  /\ t <= turnCount' => t <= turnCount
<1>0. turnCount \in 0 .. MaxTurns /\ turns \in [Turns -> TurnType]
  BY TypeParts DEF TurnTypes
<1>1. ASSUME NEW s \in {"complete", "error"},
             turns'[t] = turns[t] \/ turns'[t] = [turns[t] EXCEPT !.status = s],
             turnCount' = turnCount \/ (turnCount' = turnCount + 1 /\ t # turnCount + 1)
      PROVE  Was
  <2>1. turns[t] \in TurnType
    BY <1>0
  <2>2. turns'[t].exec = turns[t].exec /\ (turns'[t] = turns[t] \/ turns'[t].status = s)
    BY <1>1, <2>1, StatusEdit
  <2>3. t <= turnCount' => t <= turnCount
    BY <1>0, <1>1, Ranges
  <2> QED BY <2>2, <2>3
<1> HIDE DEF Was
<1>2. ASSUME turns' = turns, turnCount' = turnCount PROVE Was
  BY <1>1, <1>2
<1>3. ASSUME NEW w \in Workers, RepairOrphans(w) PROVE Was
  BY <1>1, <1>3, RepairingTurns
<1>4. ASSUME NEW w \in Workers, CompactionFails(w) PROVE Was
  <2>1. t # turnCount + 1 /\ turnCount' = turnCount + 1
    BY <1>4, FailingTurns
  <2> QED BY <1>1, <1>4, <2>1, FailingTurns
<1>5. ASSUME NEW w \in Workers, Binds(w) PROVE Was
  <2>1. PICK settled \in {NoTurn, run[w].turn}, role \in {"assistant", "compaction"} :
          \E q \in {"bound", "ready", "compacting"} : Reserved(w, settled, role, q)
    BY <1>5, BindingTurns
  <2>2. /\ turnCount' = turnCount + 1 /\ turns'[turnCount + 1].status = "pending"
        /\ t # turnCount + 1 =>
             turns'[t] = IF t = settled THEN [turns[t] EXCEPT !.status = "complete"] ELSE turns[t]
    BY <2>1 DEF Reserved
  <2>3. t # turnCount + 1
    BY <2>2
  <2> QED BY <1>1, <2>2, <2>3
<1>6. ASSUME NEW w \in Workers, Settles(w)
      PROVE  Was \/ (t = run[w].turn /\ Open(t))
  <2>1. PICK s \in {"none", "complete", "error", "cancelled"} :
          /\ turns' = [turns EXCEPT ![run[w].turn].status = s]
          /\ ~Open(run[w].turn) => s = turns[run[w].turn].status \/ s = "complete"
    BY <1>6 DEF Settles
  <2>2. CASE t # run[w].turn \/ ~Open(t)
    <3>1. turns[t].status = "cancelled" /\ turns'[t].exec = turns[t].exec
      BY <1>0, <2>1, <2>2 DEF TurnType
    <3>2. turnCount' = turnCount
      BY <1>6, SettlingTurns
    <3> QED BY <3>1, <3>2 DEF Was
  <2> QED BY <2>2
<1>7. Was \/ \E w \in Workers : Settles(w) /\ t = run[w].turn /\ Open(t)
  <2>1. \/ turns' = turns /\ turnCount' = turnCount
        \/ \E w \in Workers : RepairOrphans(w) \/ CompactionFails(w) \/ Binds(w) \/ Settles(w)
    BY Deciding DEF StepKinds, Rests, Enqueues, Withdraws, Flags, Frees, Opens, Respond, turnVars
  <2> QED BY <1>2, <1>3, <1>4, <1>5, <1>6, <2>1
<1> QED BY <1>7 DEF Was

(* Only the owner settles a reply as cancelled, so it was asked for.       *)
LEMMA CancelledStaysAsked ==
    ASSUME CInv, StepKinds
    PROVE  CancelledWasAsked'
<1> USE DEF CInv, TInv, PInv, IInv
<1> SUFFICES ASSUME NEW t \in Turns, turns'[t].status = "cancelled"
             PROVE  turns'[t].exec \in cancelTargets'
  BY DEF CancelledWasAsked
<1>0. turns \in [Turns -> TurnType] /\ cancelTargets \subseteq cancelTargets'
  BY TypeParts, AsksOnlyGrow DEF TurnTypes
<1>1. CASE turns[t].status = "cancelled" /\ turns'[t].exec = turns[t].exec
  BY <1>0, <1>1 DEF CancelledWasAsked
<1>2. ASSUME NEW w \in Workers, Settles(w), t = run[w].turn, Open(t)
      PROVE  turns'[t].exec \in cancelTargets'
  <2>1. PICK s \in {"none", "complete", "error", "cancelled"} :
          /\ turns' = [turns EXCEPT ![t].status = s]
          /\ s = "cancelled" => Aborted(w) \/ pc[w] = "exitCancelled" \/ lease.flag
    BY <1>2 DEF Settles
  <2>2. s = "cancelled" /\ turns'[t].exec = turns[t].exec
    BY <1>0, <2>1 DEF TurnType
  <2>3. pc[w] \in InRun /\ lease.turn = t
    BY <1>2 DEF Settles, OpenTurnHasItsLease
  <2>4. Owns(w) /\ turns[t].exec = run[w].exec /\ run[w].exec = lease.exec
    BY <1>2, <2>3 DEF RunsOnTurns, Owns
  <2> QED BY <1>0, <2>1, <2>2, <2>4 DEF AbortsWereAsked, FlagWasAsked
<1> QED BY <1>1, <1>2, CancelsBySettling

(* Initially nothing was asked, and every step keeps to what was.          *)
LEMMA CInvHolds == Spec => []CInv
<1>1. Init => CInv
  <2> SUFFICES ASSUME Init PROVE CInv
    OBVIOUS
  <2>1. TInv
    BY InitTInv
  <2>2. lease = NoLease /\ decided = [q \in Requests |-> NoDecision] /\ signals = {}
    BY DEF Init
  <2>3. FlagWasAsked /\ SignalsWereAsked /\ DecisionsWereAsked
    BY <2>2, BlankLease DEF FlagWasAsked, SignalsWereAsked, DecisionsWereAsked, NoDecision
  <2>4. AbortsWereAsked
    BY <2>2, BlankLease DEF AbortsWereAsked, Owns
  <2>5. CancelledWasAsked
    BY DEF Init, CancelledWasAsked, BlankTurn
  <2> QED BY <2>1, <2>3, <2>4, <2>5 DEF CInv
<1>2. CInv /\ [Next]_vars => CInv'
  <2> SUFFICES ASSUME CInv, [Next]_vars PROVE CInv'
    OBVIOUS
  <2> USE DEF CInv
  <2>1. TInv' /\ TypeOK'
    BY NextKeepsTInv DEF TInv, PInv, IInv
  <2>2. CASE Next
    <3>1. StepKinds
      BY <2>2, StepHasAKind DEF TInv
    <3> QED BY <2>1, <3>1, AsksStay, AbortsStayAsked, CancelledStaysAsked
  <2>3. CASE UNCHANGED vars
    <3>1. UNCHANGED <<lease, signals, decided, cancelTargets, turns, pc, run>>
      BY <2>3 DEF vars, inboxVars, turnVars, leaseVars, procVars, historyVars
    <3> QED BY <2>1, <3>1 DEF FlagWasAsked, SignalsWereAsked, DecisionsWereAsked, AbortsWereAsked,
               CancelledWasAsked, Owns, Aborted
  <2> QED BY <2>2, <2>3
<1> QED BY <1>1, <1>2, PTL DEF Spec

(* Only a reply that a Stop, a Send now or a turn cancel named is ever     *)
(* cancelled, however late a command's local abort or replay arrives.      *)
THEOREM CancelledWasAskedIsInvariant == Spec => []CancelledWasAsked
<1>1. CInv => CancelledWasAsked
  BY DEF CInv
<1> QED BY <1>1, CInvHolds, PTL

-------------------------------------------------------------------------------
(* What a cancel spares.                                                   *)

(* Executions are numbered in the order of their turns, the open one last. *)
ExecutionsInOrder ==
    /\ \A s, t \in Turns : s <= t /\ t <= turnCount => turns[s].exec <= turns[t].exec
    /\ \A t \in Turns : t <= turnCount /\ lease.exec # NoExecution => turns[t].exec <= lease.exec

(* Only an execution that some turn carries spares rows, only while it is  *)
(* flagged if it is the open one, and not what the receipt holds.          *)
SparesFit ==
    /\ \A e \in Execs : spared[e] # {} => \E t \in Turns : t <= turnCount /\ turns[t].exec = e
    /\ lease.exec # NoExecution /\ spared[lease.exec] # {} => lease.flag
    /\ \A r \in lease.receipt : r \notin spared[lease.exec]

SInv ==
    /\ TInv
    /\ ExecutionsInOrder
    /\ SparesFit
    /\ CancelSparesLater

(* An execution that opens is numbered after all that turns carry.         *)
LEMMA FreshExecIsLast ==
    ASSUME TInv, ExecutionsInOrder, NEW w \in Workers, Opens(w)
    PROVE  /\ FreshExec \in Execs
           /\ \A t \in Turns : t <= turnCount => turns[t].exec < FreshExec
<1> USE DEF TInv, PInv, IInv
<1>1. FreshExec \in Execs
  BY FreshExecIsAnExecution DEF Opens
<1>2. turnCount \in 0 .. MaxTurns /\ turns \in [Turns -> TurnType]
  BY TypeParts DEF TurnTypes
<1>3. ASSUME NEW t \in Turns, t <= turnCount PROVE turns[t].exec < FreshExec
  <2>1. turnCount \in Turns /\ turnCount # 0
    BY <1>2, <1>3, Ranges
  <2>2. turns[t].exec <= turns[turnCount].exec
    BY <1>3, <2>1, <1>2 DEF ExecutionsInOrder
  <2>3. turns[t].exec \in Nat /\ turns[turnCount].exec \in Nat
    BY <1>2, <2>1, Ranges DEF TurnType
  <2>4. FreshExec = turns[turnCount].exec + 1
    BY <2>1 DEF FreshExec
  <2> QED BY <2>2, <2>3, <2>4
<1> QED BY <1>1, <1>3

(* A new execution comes after those of all turns.                         *)
LEMMA ExecutionsStayInOrder ==
    ASSUME TInv, ExecutionsInOrder, StepKinds
    PROVE  ExecutionsInOrder'
<1> USE DEF TInv, PInv, IInv
<1>0. /\ turnCount \in 0 .. MaxTurns /\ turns \in [Turns -> TurnType] /\ lease \in LeaseType
      /\ TurnsGrow
  BY TypeParts, StepGrowsTurns DEF TurnTypes, LeaseTypes
<1>1. lease.exec \in Nat /\ \A t \in Turns : turns[t].exec \in Nat
  BY <1>0, Ranges DEF LeaseType, TurnType
<1>2. ASSUME NEW t \in Turns, t <= turnCount'
      PROVE  \/ t <= turnCount /\ turns'[t].exec = turns[t].exec
             \/ t = turnCount' /\ turnCount' # turnCount
                  /\ lease.exec # NoExecution /\ turns'[t].exec = lease.exec
  BY <1>0, <1>2, Ranges DEF TurnsGrow
<1>3. ASSUME NEW s \in Turns, NEW t \in Turns, s <= t, t <= turnCount'
      PROVE  turns'[s].exec <= turns'[t].exec
  <2>1. s <= turnCount' /\ turnCount' \in Nat
    BY <1>0, <1>3, Ranges DEF TurnsGrow
  <2>2. CASE t <= turnCount
    <3>1. s <= turnCount /\ turns'[s].exec = turns[s].exec /\ turns'[t].exec = turns[t].exec
      BY <1>0, <1>3, <2>2, Ranges DEF TurnsGrow
    <3> QED BY <1>3, <2>2, <3>1 DEF ExecutionsInOrder
  <2>3. CASE ~(t <= turnCount)
    <3>1. turns'[t].exec = lease.exec /\ lease.exec # NoExecution
      BY <1>2, <1>3, <2>3
    <3> QED BY <1>1, <1>2, <2>1, <3>1 DEF ExecutionsInOrder
  <2> QED BY <2>2, <2>3
<1>4. ASSUME NEW t \in Turns, t <= turnCount', lease'.exec # NoExecution
      PROVE  turns'[t].exec <= lease'.exec
  <2>1. CASE \E w \in Workers : Opens(w)
    <3>1. PICK w \in Workers : Opens(w)
      BY <2>1
    <3>2. turnCount' = turnCount /\ turns' = turns /\ lease'.exec = FreshExec
      BY <3>1, FreshLease DEF Opens
    <3>3. turns[t].exec < FreshExec /\ FreshExec \in Nat
      BY <1>4, <3>1, <3>2, FreshExecIsLast, Ranges
    <3> QED BY <1>1, <3>2, <3>3
  <2>2. CASE ~\E w \in Workers : Opens(w)
    <3>1. lease'.exec = lease.exec
      BY <1>4, <2>2, BlankLease, StepMovesLease DEF LeaseMoves
    <3> QED BY <1>1, <1>2, <1>4, <3>1 DEF ExecutionsInOrder
  <2> QED BY <2>1, <2>2
<1> QED BY <1>3, <1>4 DEF ExecutionsInOrder

(* A command that cancels flags the open execution and spares rows for it. *)
Spares(rows) ==
    /\ lease.exec # NoExecution /\ lease'.exec = lease.exec /\ lease'.flag
    /\ lease'.receipt \subseteq lease.receipt
    /\ \A x \in Execs : spared'[x] = IF x = lease.exec THEN spared[x] \cup rows ELSE spared[x]
    /\ rows # {} => Carried /\ SparesLater(rows)
    /\ UNCHANGED <<count, kind, deliveredBy, turnCount, turns>>
    /\ \A r \in Rows : fate[r] = "delivered" <=> fate'[r] = "delivered"

(* Nothing else spares anything.                                           *)
LEMMA StepSpares ==
    ASSUME IInv, StepKinds
    PROVE  spared' = spared \/ \E rows \in SUBSET Rows : Spares(rows)
<1> USE DEF IInv
<1>0. lease \in LeaseType /\ spared \in [Execs -> SUBSET Rows]
  BY TypeParts DEF LeaseTypes, CommandTypes
<1>1. CASE Decides
  <2>1. PICK cancels \in {NoExecution, lease.exec}, back \in SUBSET Rows, answered \in SUBSET Rows :
          \E q \in Requests : DecidesOn(q, cancels, back, answered)
    BY <1>1, DecidesOnce
  <2>2. spared' = [x \in Execs |-> IF x = cancels THEN spared[x] \cup (Rows \ answered) ELSE spared[x]]
    BY <2>1 DEF DecidesOn, CancelExecution
  <2>3. CASE cancels = NoExecution
    <3>1. \A x \in Execs : x # cancels
      BY <2>3, Ranges
    <3> QED BY <1>0, <2>2, <3>1
  <2>4. CASE cancels # NoExecution
    <3>1. /\ lease.exec = cancels /\ lease'.exec = lease.exec /\ lease'.flag = TRUE
          /\ lease'.receipt \subseteq lease.receipt
      <4>1. lease' = [lease EXCEPT !.receipt = lease.receipt \ back,
                        !.flag = lease.flag \/ (cancels # NoExecution /\ cancels = lease.exec)]
        BY <2>1 DEF DecidesOn
      <4>2. lease.exec = cancels
        BY <2>1, <2>4
      <4>3. /\ lease'.exec = lease.exec /\ lease'.receipt = lease.receipt \ back
            /\ lease'.flag = (lease.flag \/ (cancels # NoExecution /\ cancels = lease.exec))
        BY <1>0, <4>1 DEF LeaseType
      <4>4. lease'.flag = TRUE
        BY <2>4, <4>2, <4>3
      <4> QED BY <4>2, <4>3, <4>4
    <3>2. Carried /\ SparesLater(Rows \ answered)
      BY <2>1, <2>4 DEF DecidesOn
    <3>3. /\ UNCHANGED <<count, kind, deliveredBy, turnCount, turns>>
          /\ \A r \in Rows : fate[r] = "delivered" <=> fate'[r] = "delivered"
      BY <1>1, Deciding
    <3>4. Spares(Rows \ answered)
      BY <2>2, <2>4, <3>1, <3>2, <3>3 DEF Spares
    <3> QED BY <3>4
  <2> QED BY <2>3, <2>4
<1>2. CASE Flags
  <2>1. PICK rows \in SUBSET Rows :
          CancelExecution(lease.exec, rows) /\ (rows # {} => Carried /\ SparesLater(rows))
    BY <1>2 DEF Flags
  <2>2. /\ lease.exec # NoExecution /\ lease' = [lease EXCEPT !.flag = TRUE]
        /\ UNCHANGED <<count, kind, deliveredBy, turnCount, turns, fate>>
    BY <1>2 DEF Flags, inboxVars
  <2>3. lease'.exec = lease.exec /\ lease'.flag = TRUE /\ lease'.receipt = lease.receipt
    BY <1>0, <2>2 DEF LeaseType
  <2>4. Spares(rows)
    BY <2>1, <2>2, <2>3 DEF Spares, CancelExecution
  <2> QED BY <2>4
<1> QED BY <1>1, <1>2
        DEF StepKinds, Rests, Enqueues, Withdraws, RepairOrphans, Frees, Opens, Binds, Respond,
            Settles, CompactionFails, historyVars

(* Only an execution that is flagged spares rows, and it holds none.       *)
LEMMA SparesStayFit ==
    ASSUME SInv, StepKinds
    PROVE  SparesFit'
<1> USE DEF SInv, TInv, PInv, IInv
<1>0. /\ turnCount \in 0 .. MaxTurns /\ lease \in LeaseType /\ spared \in [Execs -> SUBSET Rows]
      /\ TurnsGrow
  BY TypeParts, StepGrowsTurns DEF TurnTypes, LeaseTypes, CommandTypes
<1>1. ASSUME NEW e \in Execs, spared[e] # {}
      PROVE  \E t \in Turns : t <= turnCount' /\ turns'[t].exec = e
  <2>1. PICK t \in Turns : t <= turnCount /\ turns[t].exec = e
    BY <1>1 DEF SparesFit
  <2>2. t <= turnCount' /\ turns'[t].exec = e
    BY <1>0, <2>1, Ranges DEF TurnsGrow
  <2> QED BY <2>2
<1>2. CASE spared' = spared
  <2>1. CASE lease' = NoLease
    BY <1>1, <1>2, <2>1, BlankLease DEF SparesFit
  <2>2. CASE \E w \in Workers : Opens(w)
    <3>1. PICK w \in Workers : Opens(w)
      BY <2>2
    <3>2. lease'.exec = FreshExec /\ lease'.receipt = {}
      BY <3>1, FreshLease
    <3>3. FreshExec \in Execs /\ \A t \in Turns : t <= turnCount => turns[t].exec < FreshExec
      BY <3>1, FreshExecIsLast
    <3>4. \A t \in Turns : t <= turnCount => turns[t].exec # FreshExec
      BY <3>3, Ranges
    <3>5. spared[FreshExec] = {}
      BY <3>3, <3>4 DEF SparesFit
    <3> QED BY <1>1, <1>2, <3>2, <3>5 DEF SparesFit
  <2>3. CASE lease'.exec = lease.exec /\ lease'.receipt \subseteq lease.receipt /\ ~Decides /\ ~Flags
             /\ lease'.flag = lease.flag
    BY <1>1, <1>2, <2>3 DEF SparesFit
  <2>4. CASE \E w \in Workers : Binds(w)
    <3>1. ~lease.flag /\ lease'.exec = lease.exec /\ lease'.flag = lease.flag /\ lease.exec # NoExecution
      BY <2>4, BindingLease DEF Binds, Owns
    <3>2. spared[lease.exec] = {}
      BY <3>1 DEF SparesFit
    <3> QED BY <1>1, <1>2, <3>1, <3>2 DEF SparesFit
  <2>5. CASE Decides \/ Flags
    <3>1. lease'.exec = lease.exec /\ (lease.flag => lease'.flag) /\ lease'.receipt \subseteq lease.receipt
      <4>1. CASE Decides
        <5>1. \E cancels, back : lease' = [lease EXCEPT !.receipt = lease.receipt \ back,
                  !.flag = lease.flag \/ (cancels # NoExecution /\ cancels = lease.exec)]
          BY <4>1, DecidesOnce DEF DecidesOn
        <5> QED BY <1>0, <5>1 DEF LeaseType
      <4>2. CASE Flags
        BY <1>0, <4>2 DEF Flags, LeaseType
      <4> QED BY <2>5, <4>1, <4>2
    <3> QED BY <1>1, <1>2, <3>1 DEF SparesFit
  <2> QED BY <2>1, <2>2, <2>3, <2>4, <2>5, StepMovesLease DEF LeaseMoves
<1>3. CASE \E rows \in SUBSET Rows : Spares(rows)
  <2>1. PICK rows \in SUBSET Rows : Spares(rows)
    BY <1>3
  <2>2. lease.exec \in Execs
    BY <1>0, <2>1 DEF Spares, LeaseType
  <2>3. ASSUME NEW e \in Execs, spared'[e] # {}
        PROVE  \E t \in Turns : t <= turnCount' /\ turns'[t].exec = e
    <3>1. CASE spared[e] # {}
      BY <1>1, <3>1
    <3>2. CASE spared[e] = {}
      <4>1. e = lease.exec /\ rows # {}
        BY <2>1, <2>3, <3>2 DEF Spares
      <4> QED BY <2>1, <4>1 DEF Spares, Carried, ExecutionTurns
    <3> QED BY <3>1, <3>2
  <2>4. ASSUME NEW r \in lease'.receipt PROVE r \notin spared'[lease'.exec]
    <3>1. r \in lease.receipt /\ r \in WriterRows
      BY <1>0, <2>1, <2>4 DEF Spares, ReceiptIsPending, WriterRows, LeaseType
    <3>2. r \notin spared[lease.exec] /\ r \notin rows
      BY <2>1, <2>4, <3>1 DEF Spares, SparesLater, SparesFit
    <3> QED BY <2>1, <2>2, <3>2 DEF Spares
  <2>5. lease'.flag
    BY <2>1 DEF Spares
  <2> QED BY <2>3, <2>4, <2>5 DEF SparesFit
<1> QED BY <1>2, <1>3, StepSpares

(* What a cancel spares, its execution does not deliver afterwards.        *)
LEMMA SparedStayUndelivered ==
    ASSUME SInv, StepKinds
    PROVE  CancelSparesLater'
<1> USE DEF SInv, TInv, PInv, IInv
<1> SUFFICES ASSUME NEW r \in WriterRows', deliveredBy'[r] # NoTurn
             PROVE  r \notin spared'[turns'[deliveredBy'[r]].exec]
  BY DEF CancelSparesLater
<1>0. /\ turnCount \in 0 .. MaxTurns /\ lease \in LeaseType /\ spared \in [Execs -> SUBSET Rows]
      /\ TurnsGrow /\ Delivers /\ RowTypes
  BY TypeParts, StepGrowsTurns, StepDelivers DEF TurnTypes, LeaseTypes, CommandTypes
<1>1. r \in Rows
  BY DEF WriterRows
<1>2. CASE deliveredBy'[r] = deliveredBy[r]
  <2> DEFINE t == deliveredBy[r]
  <2>1. t \in Turns /\ t <= turnCount /\ fate[r] = "delivered"
    BY <1>0, <1>1, <1>2 DEF DeliveriesFit, RowTypes
  <2>2. r \in WriterRows /\ turns'[t].exec = turns[t].exec
    <3>1. fate'[r] = "delivered"
      BY <1>0, <1>1, <2>1 DEF Delivers
    <3> QED BY <1>0, <2>1, <3>1 DEF Delivers, TurnsGrow
  <2>3. r \notin spared[turns[t].exec]
    BY <1>2, <2>2 DEF CancelSparesLater
  <2>4. CASE spared' = spared
    BY <1>2, <2>2, <2>3, <2>4
  <2>5. ASSUME NEW rows \in SUBSET Rows, Spares(rows)
        PROVE  r \notin spared'[turns'[deliveredBy'[r]].exec]
    <3>1. CASE turns[t].exec # lease.exec
      <4>1. turns[t].exec \in Execs
        BY <2>1, TypeParts DEF ReservedTurns, TurnTypes, TurnType
      <4> QED BY <1>2, <2>2, <2>3, <2>5, <3>1, <4>1 DEF Spares
    <3>2. CASE turns[t].exec = lease.exec
      <4>1. lease.exec \in Execs
        BY <1>0, <2>5 DEF Spares, LeaseType
      <4>2. t \in ExecutionTurns(lease.exec)
        BY <2>1, <3>2 DEF ExecutionTurns
      <4>3. rows # {} => r \notin rows
        <5>1. fate'[r] = "delivered" /\ fate[r] = "delivered"
          BY <1>0, <1>1, <2>1 DEF Delivers
        <5> QED BY <2>2, <2>5, <4>2, <5>1 DEF Spares, SparesLater
      <4> QED BY <1>2, <2>2, <2>3, <2>5, <3>2, <4>1, <4>3 DEF Spares
    <3> QED BY <3>1, <3>2
  <2> QED BY <2>4, <2>5, StepSpares
<1>3. CASE deliveredBy'[r] # deliveredBy[r]
  <2>1. NewlyDelivered(r)
    BY <1>0, <1>1, <1>3 DEF Delivers
  <2>2. spared' = spared
    <3>1. \A rows : ~Spares(rows)
      BY <1>3 DEF Spares
    <3> QED BY <3>1, StepSpares
  <2>3. CASE \E w \in Workers : CompactionFails(w) /\ deliveredBy'[r] = turnCount + 1
    <3>1. PICK w \in Workers : CompactionFails(w) /\ deliveredBy'[r] = turnCount + 1
      BY <2>3
    <3>2. turns'[turnCount + 1].exec = lease.exec /\ lease.exec # NoExecution /\ ~lease.flag
      BY <3>1, FailingTurns, FailingSettles DEF MayAdopt, Owns
    <3>3. spared[lease.exec] = {}
      BY <3>2 DEF SparesFit
    <3> QED BY <2>2, <3>1, <3>2, <3>3
  <2>4. CASE r \in lease.receipt /\ deliveredBy'[r] = lease.turn
    <3>1. lease.turn # NoTurn /\ Open(lease.turn)
      BY <2>4 DEF IdleLeaseIsBlank, LeaseTurnIsOpen
    <3>2. lease.turn \in Turns /\ lease.turn <= turnCount /\ turns[lease.turn].exec = lease.exec
      BY <3>1 DEF OpenTurnsFit, OpenTurnHasItsLease, Open
    <3>3. turns'[lease.turn].exec = lease.exec
      BY <1>0, <3>2 DEF TurnsGrow
    <3> QED BY <2>2, <2>4, <3>3 DEF SparesFit
  <2> QED BY <2>1, <2>3, <2>4 DEF NewlyDelivered
<1> QED BY <1>2, <1>3

(* Initially nothing is spared, and every step keeps to what is.           *)
LEMMA SInvHolds == Spec => []SInv
<1>1. Init => SInv
  <2> SUFFICES ASSUME Init PROVE SInv
    OBVIOUS
  <2>1. TInv
    BY InitTInv
  <2>2. /\ lease = NoLease /\ turnCount = 0 /\ spared = [e \in Execs |-> {}]
        /\ deliveredBy = [r \in Rows |-> NoTurn]
    BY DEF Init
  <2>3. ExecutionsInOrder /\ SparesFit /\ CancelSparesLater
    BY <2>2, BlankLease, Ranges DEF ExecutionsInOrder, SparesFit, CancelSparesLater, WriterRows
  <2> QED BY <2>1, <2>3 DEF SInv
<1>2. SInv /\ [Next]_vars => SInv'
  <2> SUFFICES ASSUME SInv, [Next]_vars PROVE SInv'
    OBVIOUS
  <2> USE DEF SInv
  <2>1. TInv'
    BY NextKeepsTInv
  <2>2. CASE Next
    <3>1. StepKinds
      BY <2>2, StepHasAKind DEF TInv
    <3> QED BY <2>1, <3>1, ExecutionsStayInOrder, SparesStayFit, SparedStayUndelivered
  <2>3. CASE UNCHANGED vars
    <3>1. UNCHANGED <<lease, spared, deliveredBy, kind, turns, turnCount>>
      BY <2>3 DEF vars, inboxVars, turnVars, leaseVars, historyVars
    <3> QED BY <2>1, <3>1 DEF ExecutionsInOrder, SparesFit, CancelSparesLater, WriterRows
  <2> QED BY <2>2, <2>3
<1> QED BY <1>1, <1>2, PTL DEF Spec

(* A cancelled reply never delivers a message its command did not mean:    *)
(* not one sent after a Stop's press or given back by it, not one that was *)
(* waiting at a Send now or came after it.                                 *)
THEOREM CancelSparesLaterIsInvariant == Spec => []CancelSparesLater
<1>1. SInv => CancelSparesLater
  BY DEF SInv
<1> QED BY <1>1, SInvHolds, PTL

-------------------------------------------------------------------------------
(* What was delivered was answered.                                        *)

(* The receipt is what the turn it is bound to was reserved for.           *)
ReceiptIsReserved == lease.receipt \subseteq turns[lease.turn].reservedFor

(* A reply that had a response has answered what it was reserved for.      *)
ResponseAnswers ==
    \A w \in Workers :
        pc[w] \in AfterResponse /\ Role(w) = "assistant" /\ "forced" \notin run[w].marks
          => \A r \in turns[run[w].turn].reservedFor : run[w].turn \in answers[r]

AInv ==
    /\ TInv
    /\ lease.turn # NoTurn => ReceiptIsReserved
    /\ ResponseAnswers

(* Answers are given by responses, to what the turn was reserved for.      *)
LEMMA StepAnswers ==
    ASSUME IInv, StepKinds
    PROVE  /\ answers' = answers \/ \E w \in Workers : Respond(w)
           /\ \A w \in Workers : Respond(w) =>
                \A r \in Rows : answers'[r] = IF r \in turns[run[w].turn].reservedFor
                                              THEN answers[r] \cup {run[w].turn} ELSE answers[r]
           /\ \A r \in Rows : answers[r] \subseteq answers'[r]
<1>1. answers' = answers \/ \E w \in Workers : Respond(w)
  BY Deciding DEF StepKinds, Rests, Enqueues, Withdraws, Flags, RepairOrphans, Frees, Opens, Binds,
     Settles, CompactionFails, historyVars, CancelExecution
<1>2. ASSUME NEW w \in Workers, Respond(w)
      PROVE  \A r \in Rows : answers'[r] = IF r \in turns[run[w].turn].reservedFor
                                           THEN answers[r] \cup {run[w].turn} ELSE answers[r]
  BY <1>2 DEF Respond
<1> QED BY <1>1, <1>2

(* A receipt only shrinks, unless a turn is reserved for it.               *)
LEMMA ReceiptStaysReserved ==
    ASSUME AInv, StepKinds
    PROVE  (ReceiptIsReserved \/ lease.turn = NoTurn)'
<1> USE DEF AInv, TInv, PInv, IInv
<1>0. TurnsGrow
  BY StepGrowsTurns
<1>1. CASE \E w \in Workers : Binds(w)
  <2>1. PICK w \in Workers : Binds(w)
    BY <1>1
  <2>2. turns'[turnCount + 1].reservedFor = lease'.receipt
    BY <2>1, BindingTurns DEF Reserved
  <2> QED BY <2>1, <2>2, BindingLease DEF ReceiptIsReserved
<1>2. CASE ~\E w \in Workers : Binds(w)
  <2>1. \/ lease'.turn = NoTurn
        \/ lease'.turn = lease.turn /\ lease'.receipt \subseteq lease.receipt
    BY <1>2, BlankLease, FreshLease, StepMovesLease DEF LeaseMoves
  <2>2. CASE lease.turn # NoTurn /\ lease'.turn = lease.turn /\ lease'.receipt \subseteq lease.receipt
    <3>1. lease.turn \in Turns /\ lease.turn <= turnCount
      BY <2>2 DEF LeaseTurnIsOpen, OpenTurnsFit, Open
    <3> QED BY <1>0, <2>2, <3>1 DEF TurnsGrow, ReceiptIsReserved
  <2> QED BY <2>1, <2>2
<1> QED BY <1>1, <1>2

(* A reply reaches its boundary only through a response.                   *)
LEMMA ResponsesStayAnswers ==
    ASSUME AInv, StepKinds, answers \in [Rows -> SUBSET Turns]
    PROVE  ResponseAnswers'
<1> USE DEF AInv, TInv, PInv, IInv
<1> SUFFICES ASSUME NEW v \in Workers, pc'[v] \in AfterResponse, Role(v)' = "assistant",
                    "forced" \notin run'[v].marks, NEW r \in turns'[run'[v].turn].reservedFor
             PROVE  run'[v].turn \in answers'[r]
  BY DEF ResponseAnswers
<1>0. pc'[v] \notin {"starting", "idle", "bound", "ready", "compacting"} /\ pc'[v] \in InRun
  BY PlacesApart
<1>1. ~Opens(v) /\ ~Binds(v) /\ ~Leaves(v)
  BY <1>0, OpeningRun, BindingTurns DEF Reserved, Leaves
<1>2. run'[v].exec = run[v].exec /\ run'[v].turn = run[v].turn /\ pc[v] \in InRun
  BY <1>0, <1>1, StepMovesRuns, RespondingRun, PlacesApart DEF RunMoves, PlaceMoves
<1>3. /\ Role(v) = "assistant" /\ turns'[run'[v].turn].reservedFor = turns[run[v].turn].reservedFor
      /\ run[v].turn \in Turns
  BY <1>2, RunKeepsItsTurn, RunTurns
<1>4. r \in Rows
  BY <1>3, TypeParts DEF TurnTypes, TurnType
<1>5. CASE Respond(v)
  BY <1>2, <1>3, <1>4, <1>5, StepAnswers
<1>6. CASE ~Respond(v)
  <2>1. PlaceMoves(v)
    BY <1>1, <1>6, StepMovesRuns DEF RunMoves
  <2>2. pc[v] \in AfterResponse /\ "forced" \notin run[v].marks
    BY <1>3, <2>1 DEF PlaceMoves, RunsOnTurns
  <2>3. run[v].turn \in answers[r]
    BY <1>3, <2>2 DEF ResponseAnswers
  <2> QED BY <1>2, <1>4, <2>3, StepAnswers
<1> QED BY <1>5, <1>6

(* A process cancels a reply only as it ends the reply's execution.        *)
CancelledEnds ==
    \A t \in Turns : t <= turnCount /\ turns[t].status = "cancelled" => turns[t].exec # lease.exec

DInv ==
    /\ AInv
    /\ ExecutionsInOrder
    /\ CancelledEnds

(* A step that cancels a reply deletes the lease row, and the next one is  *)
(* of another execution.                                                   *)
LEMMA CancelledStaysEnded ==
    ASSUME DInv, StepKinds, ReservedTurns'
    PROVE  CancelledEnds'
<1> USE DEF DInv, AInv, TInv, PInv, IInv
<1> SUFFICES ASSUME NEW t \in Turns, t <= turnCount', turns'[t].status = "cancelled"
             PROVE  turns'[t].exec # lease'.exec
  BY DEF CancelledEnds
<1>0. /\ turnCount \in 0 .. MaxTurns /\ turns \in [Turns -> TurnType] /\ TurnsGrow
      /\ turns'[t].exec # NoExecution
  BY TypeParts, StepGrowsTurns DEF TurnTypes, ReservedTurns
<1>1. CASE lease' = NoLease
  BY <1>0, <1>1, BlankLease
<1>2. ASSUME NEW w \in Workers, Opens(w) PROVE turns'[t].exec # lease'.exec
  <2>1. turnCount' = turnCount /\ turns' = turns /\ lease'.exec = FreshExec
    BY <1>2, FreshLease DEF Opens
  <2>2. turns[t].exec < FreshExec /\ FreshExec \in Nat /\ turns[t].exec \in Nat
    BY <1>0, <1>2, <2>1, FreshExecIsLast, Ranges DEF TurnType
  <2> QED BY <2>1, <2>2
<1>3. CASE t <= turnCount /\ turns[t].status = "cancelled" /\ lease'.exec = lease.exec
  BY <1>0, <1>3 DEF CancelledEnds, TurnsGrow
<1>4. CASE ~(t <= turnCount /\ turns[t].status = "cancelled")
  <2>1. PICK w \in Workers : Settles(w) /\ t = run[w].turn /\ Open(t)
    BY <1>0, <1>4, CancelsBySettling
  <2>2. lease.turn = t /\ pc[w] \in InRun
    BY <2>1 DEF OpenTurnHasItsLease, Settles
  <2>3. Owns(w)
    BY <2>1, <2>2 DEF RunsOnTurns
  <2> QED BY <1>1, <2>1, <2>3 DEF Settles
<1>5. lease' = NoLease \/ (\E w \in Workers : Opens(w)) \/ lease'.exec = lease.exec
  BY StepMovesLease DEF LeaseMoves
<1> QED BY <1>1, <1>2, <1>3, <1>4, <1>5

(* A reply that failed stays failed, unless it has answered, or its own    *)
(* process completes it with a forced compaction.                          *)
LEMMA SettledStaysSettled ==
    ASSUME DInv, StepKinds, NEW t \in Turns, t <= turnCount,
           turns[t].role = "assistant", turns[t].status \in {"error", "cancelled"},
           NEW r \in turns[t].reservedFor
    PROVE  \/ turns'[t].status \in {"error", "cancelled"} \/ t \in answers[r]
           \/ SplitsFailedReply(t)
<1> USE DEF DInv, AInv, TInv, PInv, IInv
<1>0. turnCount \in 0 .. MaxTurns /\ turns \in [Turns -> TurnType]
  BY TypeParts DEF TurnTypes
<1>1. CASE turns' = turns
  BY <1>1
<1>2. ASSUME NEW w \in Workers, RepairOrphans(w) PROVE turns'[t] = turns[t]
  BY <1>2, RepairingTurns DEF Open
<1>3. ASSUME NEW w \in Workers, Settles(w) PROVE turns'[t].status = turns[t].status
  <2>1. PICK s \in {"none", "complete", "error", "cancelled"} :
          /\ turns' = [turns EXCEPT ![run[w].turn].status = s]
          /\ ~Open(run[w].turn) => \/ s = turns[run[w].turn].status
                                   \/ s = "complete" /\ Role(w) = "compaction"
    BY <1>3 DEF Settles
  <2>2. Role(w) = turns[run[w].turn].role
    BY <1>3, RunTurns DEF Settles
  <2>3. CASE t = run[w].turn
    <3>1. s = turns[t].status
      BY <2>1, <2>2, <2>3 DEF Open
    <3> QED BY <1>0, <2>1, <2>3, <3>1 DEF TurnType
  <2>4. CASE t # run[w].turn
    BY <1>0, <2>1, <2>4
  <2> QED BY <2>3, <2>4
<1>4. ASSUME NEW w \in Workers, Binds(w)
      PROVE  turns'[t].status = turns[t].status \/ t \in answers[r] \/ SplitsFailedReply(t)
  <2>1. PICK settled \in {NoTurn, run[w].turn}, role \in {"assistant", "compaction"} :
          \E q \in {"bound", "ready", "compacting"} : Reserved(w, settled, role, q)
    BY <1>4, BindingTurns
  <2>2. PICK q \in {"bound", "ready", "compacting"} : Reserved(w, settled, role, q)
    BY <2>1
  <2>3. t # turnCount + 1 /\ t # NoTurn
    BY <1>0, Ranges
  <2>4. CASE t # settled
    BY <2>2, <2>3, <2>4 DEF Reserved
  <2>5. CASE t = settled
    <3>1. pc[w] = "adoptSelected" /\ t = run[w].turn
      BY <2>2, <2>3, <2>5 DEF Reserved
    <3>2. pc[w] \in InRun /\ pc[w] \in AfterResponse /\ Role(w) = "assistant"
      BY <3>1, RunTurns, PlacesApart
    <3>3. CASE "forced" \notin run[w].marks
      BY <3>1, <3>2, <3>3 DEF ResponseAnswers
    <3>4. CASE "forced" \in run[w].marks
      <4>1. role = "compaction"
        BY <2>2, <3>1, <3>2, <3>4, PlacesApart DEF Reserved
      <4>2. /\ turns'[t].status = "complete" /\ turnCount' = turnCount + 1
            /\ lease'.turn = turnCount' /\ turns'[turnCount'].role = "compaction"
        BY <1>0, <1>4, <2>2, <2>3, <2>5, <4>1, BindingLease DEF Reserved, TurnType
      <4>3. Owns(w) /\ lease.exec = turns[t].exec
        BY <1>4, <3>1, <3>2 DEF Binds, Owns, RunsOnTurns
      <4>4. turns[t].status = "error"
        BY <4>3 DEF CancelledEnds
      <4>5. lease.turn = NoTurn
        BY <3>1, <3>2, <4>3, <4>4 DEF OwnersFit, LeaseTurnIsOpen, Open
      <4> QED BY <4>2, <4>3, <4>4, <4>5 DEF SplitsFailedReply
    <3> QED BY <3>3, <3>4
  <2> QED BY <2>4, <2>5
<1>5. ASSUME NEW w \in Workers, CompactionFails(w) PROVE turns'[t].status \in {turns[t].status, "error"}
  <2>1. t # turnCount + 1
    BY <1>0, Ranges
  <2> QED BY <1>0, <1>5, <2>1, FailingTurns DEF TurnType
<1> QED BY <1>1, <1>2, <1>3, <1>4, <1>5, Deciding
        DEF StepKinds, Rests, Enqueues, Withdraws, Flags, Frees, Opens, Respond, turnVars

(* What is delivered by a step was reserved for the turn that delivers it, *)
(* and that turn answered it or failed.                                    *)
LEMMA NewlyDeliveredIsAnswered ==
    ASSUME AInv, StepKinds, NEW r \in WriterRows, NewlyDelivered(r)
    PROVE  LET t == deliveredBy'[r]
           IN  /\ t \in Turns
               /\ turns'[t].role = "assistant" /\ r \in turns'[t].reservedFor
               /\ t \in answers'[r] \/ turns'[t].status \in {"error", "cancelled"}
<1> USE DEF AInv, TInv, PInv, IInv
<1>0. turnCount \in 0 .. MaxTurns /\ turns \in [Turns -> TurnType] /\ TurnsGrow
  BY TypeParts, StepGrowsTurns DEF TurnTypes
<1>1. CASE \E w \in Workers : /\ CompactionFails(w) /\ r \in CarriedRows(w)
                              /\ deliveredBy'[r] = turnCount + 1
  BY <1>1, FailingTurns
<1>2. CASE \E w \in Workers : /\ RepairOrphans(w) \/ Respond(w) \/ Settles(w)
                              /\ RepairOrphans(w) => turns[lease.turn].role = "assistant"
                              /\ Respond(w) \/ Settles(w) => Owns(w) /\ lease.turn = run[w].turn
                              /\ Settles(w) =>
                                    /\ turns'[lease.turn].status \in {"cancelled", "error"}
                                    /\ turns[lease.turn].role = "assistant"
                              /\ r \in lease.receipt /\ deliveredBy'[r] = lease.turn
  <2>1. PICK w \in Workers :
          /\ RepairOrphans(w) \/ Respond(w) \/ Settles(w)
          /\ RepairOrphans(w) => turns[lease.turn].role = "assistant"
          /\ Respond(w) \/ Settles(w) => Owns(w) /\ lease.turn = run[w].turn
          /\ Settles(w) => /\ turns'[lease.turn].status \in {"cancelled", "error"}
                           /\ turns[lease.turn].role = "assistant"
          /\ r \in lease.receipt /\ deliveredBy'[r] = lease.turn
    BY <1>2
  <2>2. lease.turn # NoTurn /\ Open(lease.turn)
    BY <2>1 DEF IdleLeaseIsBlank, LeaseTurnIsOpen
  <2>3. lease.turn \in Turns /\ lease.turn <= turnCount
    BY <2>2 DEF OpenTurnsFit, Open
  <2>4. r \in turns[lease.turn].reservedFor
    BY <2>1, <2>2 DEF ReceiptIsReserved
  <2>5. /\ turns'[lease.turn].role = turns[lease.turn].role
        /\ r \in turns'[lease.turn].reservedFor
    BY <1>0, <2>3, <2>4 DEF TurnsGrow
  <2>6. CASE RepairOrphans(w)
    <3>1. turns'[lease.turn].status = "error"
      BY <1>0, <2>2, <2>3, <2>6, RepairingTurns DEF TurnType
    <3> QED BY <2>1, <2>3, <2>5, <2>6, <3>1
  <2>7. CASE Settles(w)
    BY <2>1, <2>3, <2>5, <2>7
  <2>8. CASE Respond(w)
    <3>1. Role(w) = "assistant" /\ pc[w] \in InRun
      BY <2>8, PlacesApart DEF Respond, RunsOnTurns
    <3>2. turns[lease.turn].role = "assistant"
      BY <2>1, <2>8, <3>1, RunTurns
    <3>3. lease.turn \in answers'[r]
      BY <2>1, <2>4, <2>8, StepAnswers DEF WriterRows
    <3> QED BY <2>1, <2>3, <2>5, <3>2, <3>3
  <2> QED BY <2>1, <2>6, <2>7, <2>8
<1> QED BY <1>1, <1>2 DEF NewlyDelivered

(* What was delivered stays answered, by the same turn.                    *)
LEMMA DeliveredStaysAnswered ==
    ASSUME DInv, StepKinds, NEW r \in WriterRows, fate[r] = "delivered", ReplySettled(r)
    PROVE  ReplySettled(r)' \/ SplitsFailedReply(deliveredBy[r])
<1> USE DEF DInv, AInv, TInv, PInv, IInv
<1> DEFINE t == deliveredBy[r]
<1>1. deliveredBy'[r] = t /\ r \in Rows
  BY StepDelivers DEF Delivers, WriterRows
<1>2. /\ t \in Turns /\ turns[t].role = "assistant" /\ r \in turns[t].reservedFor
      /\ t \in answers[r] \/ turns[t].status \in {"error", "cancelled"}
  BY DEF ReplySettled
<1>3. t <= turnCount
  BY <1>1, <1>2, Ranges DEF DeliveriesFit
<1> HIDE DEF t
<1>4. turns'[t].role = "assistant" /\ r \in turns'[t].reservedFor
  BY <1>2, <1>3, StepGrowsTurns DEF TurnsGrow
<1>5. t \in answers[r] \/ turns'[t].status \in {"error", "cancelled"} \/ SplitsFailedReply(t)
  BY <1>2, <1>3, SettledStaysSettled
<1>6. t \in answers[r] => t \in answers'[r]
  BY <1>1, StepAnswers
<1>7. ReplySettled(r)' \/ SplitsFailedReply(t)
  BY <1>1, <1>2, <1>4, <1>5, <1>6 DEF ReplySettled
<1> QED BY <1>7 DEF t

(* The invariant holds initially.                                          *)
LEMMA InitAInv == Init => AInv
<1> SUFFICES ASSUME Init PROVE AInv
  OBVIOUS
<1>1. TInv
  BY InitTInv
<1>2. lease.turn = NoTurn
  BY BlankLease DEF Init
<1>3. \A w \in Workers : pc[w] = "idle"
  BY DEF Init
<1>4. ResponseAnswers
  BY <1>3, PlacesApart DEF ResponseAnswers
<1> QED BY <1>1, <1>2, <1>4 DEF AInv

(* Every step keeps it.                                                    *)
LEMMA NextKeepsAInv == AInv /\ [Next]_vars => AInv'
<1> SUFFICES ASSUME AInv, [Next]_vars PROVE AInv'
  OBVIOUS
<1>1. TInv'
  BY NextKeepsTInv DEF AInv
<1>2. answers \in [Rows -> SUBSET Turns]
  BY DEF AInv, TInv, PInv, IInv, TypeOK
<1>3. CASE Next
  <2>1. StepKinds
    BY <1>3, StepHasAKind DEF AInv, TInv
  <2> QED BY <1>1, <1>2, <2>1, ReceiptStaysReserved, ResponsesStayAnswers DEF AInv
<1>4. CASE UNCHANGED vars
  <2>1. UNCHANGED <<turns, lease, pc, run, answers>>
    BY <1>4 DEF vars, inboxVars, turnVars, leaseVars, procVars, historyVars
  <2> QED BY <1>1, <2>1 DEF AInv, ReceiptIsReserved, ResponseAnswers, Role
<1> QED BY <1>3, <1>4

(* With the order of the executions, it holds of every run.                *)
LEMMA DInvHolds == Spec => []DInv
<1>1. Init => DInv
  <2> SUFFICES ASSUME Init PROVE DInv
    OBVIOUS
  <2>1. lease = NoLease /\ turnCount = 0
    BY DEF Init
  <2>2. ExecutionsInOrder /\ CancelledEnds
    BY <2>1, BlankLease, Ranges DEF ExecutionsInOrder, CancelledEnds
  <2> QED BY <2>2, InitAInv DEF DInv
<1>2. DInv /\ [Next]_vars => DInv'
  <2> SUFFICES ASSUME DInv, [Next]_vars PROVE DInv'
    OBVIOUS
  <2>1. AInv' /\ ReservedTurns'
    BY NextKeepsAInv DEF DInv, AInv, TInv
  <2>2. CASE Next
    <3>1. StepKinds
      BY <2>2, StepHasAKind DEF DInv, AInv, TInv
    <3> QED BY <2>1, <3>1, ExecutionsStayInOrder, CancelledStaysEnded DEF DInv, AInv
  <2>3. CASE UNCHANGED vars
    <3>1. UNCHANGED <<lease, turns, turnCount>>
      BY <2>3 DEF vars, turnVars, leaseVars
    <3> QED BY <2>1, <3>1 DEF DInv, ExecutionsInOrder, CancelledEnds
  <2> QED BY <2>2, <2>3
<1> QED BY <1>1, <1>2, PTL DEF Spec

(* A message row is delivered only by the reply that was reserved for it,  *)
(* and only with that reply's response or failure, whatever processes run  *)
(* the chat and whether or not requests are compacted.  Only the process   *)
(* of a reply that another one has just failed can take the failure back.  *)
THEOREM AnswersWhatItDeliversHolds == Spec => AnswersWhatItDelivers
<1>1. DInv /\ [Next]_vars =>
        [\A r \in WriterRows' : fate'[r] = "delivered" =>
            /\ fate[r] # "delivered" => ReplySettled(r)'
            /\ fate[r] = "delivered" /\ ReplySettled(r) =>
                  ReplySettled(r)' \/ SplitsFailedReply(deliveredBy[r])]_vars
  <2> SUFFICES ASSUME DInv, Next, NEW r \in WriterRows', fate'[r] = "delivered"
               PROVE  /\ fate[r] # "delivered" => ReplySettled(r)'
                      /\ fate[r] = "delivered" /\ ReplySettled(r) =>
                            ReplySettled(r)' \/ SplitsFailedReply(deliveredBy[r])
    OBVIOUS
  <2>1. StepKinds
    BY StepHasAKind DEF DInv, AInv, TInv
  <2>2. r \in WriterRows /\ (fate[r] = "delivered" \/ NewlyDelivered(r))
    BY <2>1, StepDelivers DEF Delivers, DInv, AInv
  <2>3. fate[r] # "delivered" => ReplySettled(r)'
    BY <2>1, <2>2, NewlyDeliveredIsAnswered DEF DInv, ReplySettled
  <2> QED BY <2>1, <2>2, <2>3, DeliveredStaysAnswered
<1> QED BY <1>1, DInvHolds, PTL DEF Spec, AnswersWhatItDelivers

-------------------------------------------------------------------------------
(* One reply answers a message.                                            *)

(* A process that starts a run renews its lease until it has read what the *)
(* run was given: its receipt is what a read that joins live leases gives. *)
StartsRenewed == StallPoints \cap {"starting", "selected", "bound"} = {}

Delivered(r, t) == fate[r] = "delivered" /\ deliveredBy[r] = t
WillBeDelivered(r, t) == fate'[r] = "delivered" /\ deliveredBy'[r] = t

(* A reply delivered what it answered.                                     *)
AnswersDeliver == \A r \in Rows : \A t \in answers[r] : Delivered(r, t)

(* Until its response, what a reply was reserved for is held for it, or    *)
(* delivered by it.                                                        *)
Holds(w, r) == \/ Delivered(r, run[w].turn)
               \/ lease.turn = run[w].turn /\ r \in lease.receipt
TurnHolds ==
    \A w \in Workers :
        pc[w] \in {"bound", "ready", "streaming"} /\ Role(w) = "assistant"
          => \A r \in turns[run[w].turn].reservedFor : Holds(w, r)

(* A response acknowledges all that its turn holds.                        *)
AcksCover ==
    \A w \in Workers : pc[w] \in {"ready", "streaming"} /\ lease.turn = run[w].turn
                         => lease.receipt \subseteq run[w].acks

(* The owner's lease is live until it has read what its run was given.     *)
Renewed == \A w \in Workers : pc[w] \in InSetup \cup {"bound"} /\ Owns(w) => ~lease.expired

HInv ==
    /\ AInv
    /\ Renewed
    /\ AcksCover
    /\ TurnHolds
    /\ AnswersDeliver

(* Nobody else owns the lease row of a turn's process.                     *)
LEMMA OneOwner ==
    ASSUME TInv, NEW v \in Workers, pc[v] \in InRun, lease.turn = run[v].turn,
           NEW w \in Workers, Owns(w)
    PROVE  w = v
BY DEF TInv, RunsOnTurns, Owns

(* Where a lease row may run out, its owner is not at a start.             *)
LEMMA StaysRenewed ==
    ASSUME HInv, StepKinds, StartsRenewed
    PROVE  Renewed'
<1> USE DEF HInv, AInv, TInv, PInv, IInv
<1> SUFFICES ASSUME NEW v \in Workers, pc'[v] \in InSetup \cup {"bound"}, Owns(v)'
             PROVE  lease'.expired = FALSE
  BY DEF Renewed
<1>0. lease \in LeaseType
  BY TypeParts DEF LeaseTypes
<1>1. CASE Opens(v)
  BY <1>1, FreshLease
<1>2. CASE ~Opens(v)
  <2>1. ~Leaves(v) /\ ~Respond(v)
    BY PlacesApart, RespondingRun DEF Leaves
  <2>2. run'[v].exec = run[v].exec /\ pc[v] \in InSetup \cup {"bound"}
    <3>1. CASE RunMoves(v)
      BY <2>1, <3>1, PlacesApart DEF RunMoves, PlaceMoves
    <3>2. CASE Binds(v)
      <4>1. PICK settled, role, q : Reserved(v, settled, role, q)
        BY <3>2, BindingTurns
      <4>2. q = "bound"
        <5>1. q \in InSetup \cup {"bound"}
          BY <4>1 DEF Reserved
        <5>2. \E s, o : \E p \in {"bound", "ready", "compacting"} : Reserved(v, s, o, p)
          BY <3>2, BindingTurns
        <5>3. q \in {"bound", "ready", "compacting"}
          BY <4>1, <5>2 DEF Reserved
        <5> QED BY <5>1, <5>3, PlacesApart
      <4> QED BY <3>2, <4>1, <4>2 DEF Reserved, Binds
    <3> QED BY <1>2, <2>1, <3>1, <3>2, StepMovesRuns
  <2>3. Owns(v)
    BY <1>2, <2>2, OwnerOwned
  <2>4. lease.expired = FALSE
    BY <1>0, <2>2, <2>3 DEF Renewed, LeaseType
  <2>5. lease'.exec = lease.exec /\ lease.exec # NoExecution
    BY <1>2, <2>2, <2>3, OwnerOwned DEF Owns
  <2>6. lease' # NoLease /\ \A w \in Workers : ~Opens(w)
    BY <2>5, BlankLease DEF Opens
  <2>7. lease'.expired = lease.expired \/ Rests
    BY <2>6, StepMovesLease DEF LeaseMoves
  <2>8. CASE Rests
    <3>1. CASE lease' = lease
      BY <2>4, <3>1
    <3>2. CASE lease' # lease
      <4>1. PICK b \in BOOLEAN :
              /\ lease' = [lease EXCEPT !.expired = b]
              /\ b => \A w \in Workers : Owns(w) => pc[w] \in StallPoints \cup Exits
        BY <2>8, <3>2 DEF Rests
      <4>2. pc[v] \notin StallPoints \cup Exits
        BY <2>2, PlacesApart DEF StartsRenewed
      <4> QED BY <1>0, <2>3, <4>1, <4>2 DEF LeaseType
    <3> QED BY <3>1, <3>2
  <2> QED BY <2>4, <2>7, <2>8
<1> QED BY <1>1, <1>2

(* What the turn holds stays covered.                                      *)
LEMMA AcksStayCovering ==
    ASSUME HInv, StepKinds
    PROVE  AcksCover'
<1> USE DEF HInv, AInv, TInv, PInv, IInv
<1> SUFFICES ASSUME NEW v \in Workers, pc'[v] \in {"ready", "streaming"}, lease'.turn = run'[v].turn
             PROVE  lease'.receipt \subseteq run'[v].acks
  BY DEF AcksCover
<1>1. ~Opens(v) /\ ~Leaves(v) /\ ~Respond(v)
  BY OpeningRun, RespondingRun DEF Leaves
<1>2. CASE Binds(v)
  <2>1. PICK q \in {"bound", "ready", "compacting"} : \E settled, role : Reserved(v, settled, role, q)
    BY <1>2, BindingTurns
  <2>2. pc'[v] = q /\ (q = "ready" => run'[v].acks = lease'.receipt)
    BY <2>1 DEF Reserved
  <2> QED BY <2>1, <2>2
<1>3. CASE ~Binds(v)
  <2>1. run'[v].exec = run[v].exec /\ run'[v].turn = run[v].turn /\ PlaceMoves(v)
    BY <1>1, <1>3, StepMovesRuns DEF RunMoves
  <2>2. pc[v] \in InRun
    BY <2>1, PlacesApart DEF PlaceMoves
  <2>3. lease.turn = run[v].turn /\ run[v].turn # NoTurn
    BY <2>1, <2>2, RunKeepsItsTurn, RunTurns
  <2>4. Owns(v)
    BY <2>2, <2>3 DEF RunsOnTurns
  <2>5. \A w \in Workers : ~Binds(w)
    <3> SUFFICES ASSUME NEW w \in Workers, Binds(w) PROVE FALSE
      OBVIOUS
    <3>1. w = v
      BY <2>2, <2>3, OneOwner DEF Binds
    <3> QED BY <1>3, <3>1
  <2>6. \A w \in Workers : ~Opens(w)
    BY <2>4 DEF Opens, Owns
  <2>7. lease'.receipt \subseteq lease.receipt
    BY <2>5, <2>6, BlankLease, StepMovesLease DEF LeaseMoves
  <2>8. CASE pc[v] \in {"ready", "streaming"} /\ run'[v].acks = run[v].acks
    BY <2>3, <2>7, <2>8 DEF AcksCover
  <2>9. CASE pc[v] = "bound" /\ run'[v].acks = BoundRows
    <3>1. ~lease.expired
      BY <2>4, <2>9 DEF Renewed
    <3>2. BoundRows = lease.receipt
      BY <2>3, <2>4, <3>1 DEF BoundRows, LiveLease, Owns
    <3> QED BY <2>7, <2>9, <3>2
  <2>10. CASE run'[v].acks = lease.receipt
    BY <2>7, <2>10
  <2> QED BY <2>1, <2>4, <2>8, <2>9, <2>10 DEF PlaceMoves
<1> QED BY <1>2, <1>3

(* What a turn delivered stays delivered by it.                            *)
LEMMA DeliveredStays ==
    ASSUME TInv, StepKinds, NEW r \in Rows, NEW t, Delivered(r, t)
    PROVE  WillBeDelivered(r, t)
BY StepDelivers DEF Delivers, Delivered, WillBeDelivered

(* What a reply holds is held until its own response, or delivered by it.  *)
LEMMA HeldStaysHeld ==
    ASSUME HInv, StepKinds, NEW v \in Workers, pc[v] \in InRun, Role(v) = "assistant",
           ~Respond(v), ~Leaves(v), ~Binds(v), NEW r \in Rows, Holds(v, r)
    PROVE  \/ WillBeDelivered(r, run[v].turn)
           \/ lease'.turn = run[v].turn /\ r \in lease'.receipt
<1> USE DEF HInv, AInv, TInv, PInv, IInv
<1>0. /\ lease \in LeaseType /\ RowTypes
      /\ run[v].turn \in Turns /\ run[v].turn # NoTurn /\ Role(v) = turns[run[v].turn].role
  BY TypeParts, RunTurns DEF LeaseTypes
<1>1. CASE Delivered(r, run[v].turn)
  BY <1>1, DeliveredStays
<1>2. CASE lease.turn = run[v].turn /\ r \in lease.receipt
  <2>1. Owns(v) /\ Open(lease.turn)
    BY <1>0, <1>2 DEF RunsOnTurns, LeaseTurnIsOpen
  <2>2. \A w \in Workers : Owns(w) => w = v
    BY <1>2, OneOwner
  <2>3. fate[r] = "pending" /\ kind[r] = "message"
    BY <1>2 DEF ReceiptIsPending
  <2>4. CASE lease'.turn = lease.turn /\ lease'.receipt = lease.receipt
    BY <1>2, <2>4
  <2>5. CASE Rests
    BY <1>0, <2>4, <2>5 DEF Rests, LeaseType
  <2>6. CASE Enqueues \/ Withdraws
    BY <2>4, <2>6 DEF Enqueues, Withdraws
  <2>7. CASE Flags
    BY <1>0, <2>4, <2>7 DEF Flags, LeaseType
  <2>8. CASE Decides
    <3>1. PICK back \in SUBSET Rows :
            /\ \E flag : lease' = [lease EXCEPT !.receipt = lease.receipt \ back, !.flag = flag]
            /\ \A x \in back \cap lease.receipt : turns[lease.turn].role = "compaction"
      BY <2>8, Deciding
    <3>2. r \notin back
      BY <1>0, <1>2, <3>1
    <3> QED BY <1>0, <1>2, <3>1, <3>2 DEF LeaseType
  <2>9. ASSUME NEW w \in Workers, Frees(w) PROVE FALSE
    BY <2>1, <2>9 DEF Frees, Open
  <2>10. ASSUME NEW w \in Workers, Opens(w) PROVE FALSE
    BY <2>1, <2>10 DEF Opens, Owns
  <2>11. ASSUME NEW w \in Workers, Binds(w) PROVE FALSE
    BY <2>2, <2>11 DEF Binds
  <2>12. ASSUME NEW w \in Workers, Settles(w) PROVE lease' = lease
    <3>1. w # v
      BY <2>12, LeavingMoves DEF Settles
    <3> QED BY <2>2, <2>12, <3>1 DEF Settles
  <2>13. ASSUME NEW w \in Workers, CompactionFails(w) PROVE FALSE
    <3>1. w # v
      BY <2>13, LeavingMoves DEF CompactionFails
    <3> QED BY <2>2, <2>13, <3>1, FailingSettles DEF MayAdopt
  <2>14. ASSUME NEW w \in Workers, RepairOrphans(w) PROVE WillBeDelivered(r, run[v].turn)
    <3>1. Ack(lease.receipt, lease.turn)
      BY <1>0, <1>2, <2>1, <2>14 DEF RepairOrphans
    <3> QED BY <1>2, <2>3, <3>1 DEF Ack, WillBeDelivered
  <2>15. ASSUME NEW w \in Workers, Respond(w) PROVE lease' = lease
    <3>1. ~Owns(w)
      BY <2>2, <2>15
    <3> QED BY <2>15, <3>1 DEF Respond, ClearReceipt
  <2> QED BY <2>4, <2>5, <2>6, <2>7, <2>8, <2>9, <2>10, <2>11, <2>12, <2>13, <2>14, <2>15 DEF StepKinds
<1> QED BY <1>1, <1>2 DEF Holds

(* A reply that has had no response yet keeps what it was reserved for.    *)
LEMMA TurnsStayHolding ==
    ASSUME HInv, StepKinds
    PROVE  TurnHolds'
<1> USE DEF HInv, AInv, TInv, PInv, IInv
<1> SUFFICES ASSUME NEW v \in Workers, pc'[v] \in {"bound", "ready", "streaming"},
                    Role(v)' = "assistant", NEW r \in turns'[run'[v].turn].reservedFor
             PROVE  \/ WillBeDelivered(r, run'[v].turn)
                    \/ lease'.turn = run'[v].turn /\ r \in lease'.receipt
  <2>1. ASSUME NEW v \in Workers, NEW r
        PROVE  Holds(v, r)' <=> \/ WillBeDelivered(r, run'[v].turn)
                                \/ lease'.turn = run'[v].turn /\ r \in lease'.receipt
    BY DEF Holds, Delivered, WillBeDelivered
  <2> QED BY <2>1 DEF TurnHolds
<1>1. ~Opens(v) /\ ~Leaves(v) /\ ~Respond(v)
  BY OpeningRun, RespondingRun DEF Leaves
<1>2. CASE Binds(v)
  <2>1. PICK settled, role, q : Reserved(v, settled, role, q)
    BY <1>2, BindingTurns
  <2>2. run'[v].turn = turnCount + 1 /\ lease'.turn = turnCount + 1
    BY <1>2, BindingLease DEF Binds
  <2> QED BY <2>1, <2>2 DEF Reserved
<1>3. CASE ~Binds(v)
  <2>1. run'[v].exec = run[v].exec /\ run'[v].turn = run[v].turn /\ PlaceMoves(v)
    BY <1>1, <1>3, StepMovesRuns DEF RunMoves
  <2>2. pc[v] \in InRun
    BY <2>1, PlacesApart DEF PlaceMoves
  <2>3. /\ Role(v) = "assistant" /\ r \in turns[run[v].turn].reservedFor
        /\ run[v].turn \in Turns
    BY <2>1, <2>2, RunKeepsItsTurn, RunTurns
  <2>4. r \in Rows
    BY <2>3, TypeParts DEF TurnTypes, TurnType
  <2>5. Holds(v, r)
    <3>1. CASE pc[v] \in {"bound", "ready", "streaming"}
      BY <2>3, <3>1 DEF TurnHolds
    <3>2. CASE pc[v] = "adoptSelected" /\ "forced" \notin run[v].marks
      <4>1. run[v].turn \in answers[r]
        BY <2>3, <3>2, PlacesApart DEF ResponseAnswers
      <4> QED BY <2>4, <4>1 DEF AnswersDeliver, Holds
    <3> QED BY <2>1, <3>1, <3>2 DEF PlaceMoves
  <2> QED BY <1>1, <1>3, <2>1, <2>2, <2>3, <2>4, <2>5, HeldStaysHeld
<1> QED BY <1>2, <1>3

(* A response delivers all that its turn was reserved for.                 *)
LEMMA ResponsesDeliver ==
    ASSUME HInv, NEW w \in Workers, Respond(w), StepKinds,
           NEW r \in turns[run[w].turn].reservedFor, r \in Rows
    PROVE  WillBeDelivered(r, run[w].turn)
<1> USE DEF HInv, AInv, TInv, PInv, IInv
<1>1. pc[w] = "streaming" /\ pc[w] \in InRun /\ Role(w) = "assistant"
  BY PlacesApart DEF Respond, RunsOnTurns
<1>2. Holds(w, r)
  BY <1>1 DEF TurnHolds
<1>3. CASE Delivered(r, run[w].turn)
  BY <1>3, DeliveredStays
<1>4. CASE lease.turn = run[w].turn /\ r \in lease.receipt
  <2>1. r \in run[w].acks
    BY <1>1, <1>4 DEF AcksCover
  <2>2. Ack(run[w].acks, run[w].turn)
    BY <2>1 DEF Respond
  <2>3. fate[r] = "pending" /\ kind[r] = "message"
    BY <1>4 DEF ReceiptIsPending
  <2> QED BY <2>1, <2>2, <2>3 DEF Ack, WillBeDelivered
<1> QED BY <1>2, <1>3, <1>4 DEF Holds

(* A message is delivered by the reply that answers it.                    *)
LEMMA AnswersStayDelivered ==
    ASSUME HInv, StepKinds
    PROVE  AnswersDeliver'
<1> USE DEF HInv, AInv, TInv, PInv, IInv
<1> SUFFICES ASSUME NEW r \in Rows, NEW t \in answers'[r] PROVE WillBeDelivered(r, t)
  BY DEF AnswersDeliver, Delivered, WillBeDelivered
<1>1. CASE t \in answers[r]
  BY <1>1, DeliveredStays DEF AnswersDeliver
<1>2. CASE t \notin answers[r]
  <2>1. PICK w \in Workers : Respond(w)
    BY <1>2, StepAnswers
  <2>2. answers'[r] = IF r \in turns[run[w].turn].reservedFor
                      THEN answers[r] \cup {run[w].turn} ELSE answers[r]
    BY <2>1, StepAnswers
  <2>3. r \in turns[run[w].turn].reservedFor /\ t = run[w].turn
    BY <1>2, <2>2
  <2> QED BY <2>1, <2>3, ResponsesDeliver
<1> QED BY <1>1, <1>2

(* The invariant holds of every run in which starts renew their leases.    *)
LEMMA HInvHolds == StartsRenewed => (Spec => []HInv)
<1> SUFFICES ASSUME StartsRenewed PROVE Spec => []HInv
  OBVIOUS
<1>1. Init => HInv /\ AInv
  <2> SUFFICES ASSUME Init, AInv PROVE HInv
    BY InitAInv
  <2>1. \A w \in Workers : pc[w] = "idle"
    BY DEF Init
  <2>2. Renewed /\ AcksCover /\ TurnHolds
    BY <2>1, PlacesApart DEF Renewed, AcksCover, TurnHolds
  <2>3. AnswersDeliver
    BY DEF Init, AnswersDeliver
  <2> QED BY <2>2, <2>3 DEF HInv
<1>2. HInv /\ [Next]_vars => HInv'
  <2> SUFFICES ASSUME HInv, [Next]_vars PROVE HInv'
    OBVIOUS
  <2>1. AInv'
    BY NextKeepsAInv DEF HInv
  <2>2. CASE Next
    <3>1. StepKinds
      BY <2>2, StepHasAKind DEF HInv, AInv, TInv
    <3> QED BY <2>1, <3>1, StaysRenewed, AcksStayCovering, TurnsStayHolding, AnswersStayDelivered
            DEF HInv
  <2>3. CASE UNCHANGED vars
    <3>1. UNCHANGED <<fate, deliveredBy, turns, lease, pc, run, answers>>
      BY <2>3 DEF vars, inboxVars, turnVars, leaseVars, procVars, historyVars
    <3> QED BY <2>1, <3>1 DEF HInv, Renewed, AcksCover, TurnHolds, AnswersDeliver, Holds, Delivered,
            Owns, Role
  <2> QED BY <2>2, <2>3
<1> QED BY <1>1, <1>2, PTL DEF Spec

(* No two replies answer one message, through splits, yields, compactions, *)
(* crashes and takeovers, as long as a start renews its lease: a lease     *)
(* that reads as expired there hides the receipt from the run it was given *)
(* to, which then answers without acknowledging.                           *)
THEOREM AnsweredOnceIsInvariant == StartsRenewed => (Spec => []AnsweredOnce)
<1> SUFFICES ASSUME StartsRenewed PROVE Spec => []AnsweredOnce
  OBVIOUS
<1>1. HInv => AnsweredOnce
  BY DEF HInv, AnswersDeliver, Delivered, AnsweredOnce
<1> QED BY <1>1, HInvHolds, PTL

(* A message is handed back or answered, never both, under the same        *)
(* condition: what left the chat has no response, is in no receipt, and no *)
(* reply is still to answer it.                                            *)
THEOREM HandedBackIsNotAnsweredIsInvariant == StartsRenewed => (Spec => []HandedBackIsNotAnswered)
<1> SUFFICES ASSUME StartsRenewed PROVE Spec => []HandedBackIsNotAnswered
  OBVIOUS
<1>1. HInv => HandedBackIsNotAnswered
  <2> SUFFICES ASSUME HInv, NEW r \in Rows, fate[r] = "handedBack"
               PROVE  answers[r] = {} /\ r \notin lease.receipt /\ deliveredBy[r] = NoTurn
    BY DEF HandedBackIsNotAnswered
  <2> USE DEF HInv, AInv, TInv, PInv, IInv
  <2>1. answers[r] = {}
    BY DEF AnswersDeliver, Delivered, WillBeDelivered
  <2>2. r \notin lease.receipt
    BY DEF ReceiptIsPending
  <2>3. deliveredBy[r] = NoTurn
    BY DEF DeliveriesFit
  <2> QED BY <2>1, <2>2, <2>3
<1> QED BY <1>1, HInvHolds, PTL
===============================================================================
