----------------------- MODULE RunDeliveryPromiseProofs ------------------------
(***************************************************************************)
(* The delivery path keeps MessageFate's promise for every message, and a  *)
(* message behind the queued switch waits, for every number of processes,  *)
(* rows, turns and faults.  The actions of RunDelivery do a dozen kinds of *)
(* things to the database; each kind is stated once, and what the kinds    *)
(* keep is proved from there, here and in RunDeliveryHistoryProofs.        *)
(***************************************************************************)
EXTENDS RunDeliveryProofs

AfterResponse == {"boundary", "closeOrContinue", "adopting", "adoptSelected"}

(* The inbox is a prefix: what was not enqueued has no kind and no fate.   *)
RowsInOrder == \A r \in Rows : r > count => kind[r] = "absent" /\ fate[r] = "absent"

(* A lease row without an execution is no row, and one that is bound to no *)
(* turn holds no message.                                                  *)
IdleLeaseIsBlank ==
    /\ lease.exec = NoExecution => lease = NoLease
    /\ lease.turn = NoTurn => lease.receipt = {}

(* What a process remembers of the queue is what the queue was: the rows   *)
(* it may not choose from were a receipt's, never a control.               *)
SelectionsFit ==
    \A w \in Workers : /\ run[w].snap \subseteq 1 .. count
                       /\ \A r \in run[w].snap \ run[w].eligible : kind[r] = "message"

PInv ==
    /\ IInv
    /\ RowsInOrder
    /\ IdleLeaseIsBlank
    /\ SelectionsFit
    /\ BehindSwitchWaits

-------------------------------------------------------------------------------
(* What a process's own step may do to its memory of the run.              *)

SelectionMoves(w) ==
    \/ run'[w].snap = run[w].snap /\ run'[w].eligible = run[w].eligible
    \/ run'[w].snap = {}
    \/ run'[w].snap = Pending /\ run'[w].eligible = Eligible

(* How it came to the place it goes to, with what it will acknowledge.     *)
PlaceMoves(w) ==
    /\ pc'[w] \in BeforeLease => pc[w] \in BeforeLease /\ run'[w] = run[w]
    /\ pc'[w] \in InSetup => pc[w] \in InSetup
    /\ pc'[w] \in InRun => pc[w] \in InRun
    /\ pc'[w] = "bound" => pc[w] = "bound"
    /\ pc'[w] = "ready" =>
          \/ pc[w] = "ready" /\ run'[w].acks = run[w].acks
          \/ pc[w] = "bound" /\ run'[w].acks = BoundRows
          \/ /\ pc[w] = "adoptSelected" /\ "forced" \notin run[w].marks /\ Role(w) # "compaction"
             /\ Owns(w) => run'[w].acks = lease.receipt
    /\ pc'[w] = "streaming" => /\ run'[w].acks = run[w].acks
                               /\ pc[w] = "streaming" \/ (pc[w] = "ready" /\ Role(w) # "compaction")
    /\ pc'[w] = "compacting" => pc[w] = "compacting" \/ (pc[w] = "ready" /\ Role(w) = "compaction")
    /\ pc'[w] \in AfterResponse /\ "forced" \notin run'[w].marks =>
          \/ pc[w] \in AfterResponse /\ "forced" \notin run[w].marks
          \/ pc[w] = "compacting"

(* It is aborted, or takes the cancel exit, because of an abort that was   *)
(* sent to it, its flag, or the loss of its lease.                         *)
AbortMoves(w) ==
    /\ "aborted" \in run'[w].marks \/ pc'[w] = "exitCancelled" =>
          \/ Aborted(w) \/ pc[w] = "exitCancelled"
          \/ Owns(w) => lease.flag
          \/ run[w].exec \in signals

Leaves(w) == pc'[w] = "idle" /\ run'[w] = NoRun

RunMoves(w) ==
    \/ Leaves(w)
    \/ /\ run'[w].exec = run[w].exec /\ run'[w].turn = run[w].turn
       /\ SelectionMoves(w) /\ PlaceMoves(w) /\ AbortMoves(w)

Stays(w) == pc'[w] = pc[w] /\ run'[w] = run[w]

-------------------------------------------------------------------------------
(* The kinds of steps.                                                     *)

(* Nothing happens to the rows, the turns and the receipt.                 *)
Rests ==
    /\ UNCHANGED <<inboxVars, turnCount, turns, historyVars, decided>>
    /\ \A e \in signals' : e \in signals \/ \E q \in Requests : e = decided[q].cancels
    /\ \/ lease' = lease
       \/ \E b \in BOOLEAN :
             /\ lease.exec # NoExecution
             /\ lease' = [lease EXCEPT !.expired = b]
             /\ b => \A w \in Workers : Owns(w) => pc[w] \in StallPoints \cup Exits
    /\ \A w \in Workers : RunMoves(w)

(* A client's row, with the switch it settles.                             *)
Enqueues ==
    /\ \E k \in {"message", "compact"} \cup Modes, s \in {"pending", "delivered"},
          settled \in SUBSET Switches(Pending, kind) :
          NewRow(k, s, settled) /\ (k = "message" => s = "pending")
    /\ UNCHANGED <<deliveredBy, turnCount, turns, lease, decided, signals, procVars, historyVars>>

Withdraws ==
    /\ \E r \in Rows : kind[r] # "message" /\ Ack({r}, NoTurn)
    /\ UNCHANGED <<count, kind, turnCount, turns, lease, decided, signals, procVars, historyVars>>

(* A cancel spares nothing that its execution has answered or goes on      *)
(* holding.                                                                *)
SparesLater(rows) ==
    \A r \in WriterRows \cap rows :
        /\ ~(fate[r] = "delivered" /\ deliveredBy[r] \in ExecutionTurns(lease.exec))
        /\ r \notin lease'.receipt

(* A decision is recorded; it takes out of the receipt only what the       *)
(* execution it cancels holds for a compaction.                            *)
Decides ==
    \E q \in Requests, cancels \in {NoExecution, lease.exec}, back, gone, answered \in SUBSET Rows :
        /\ ApplyHandBack(q, [handBack |-> back, gone |-> gone, answered |-> answered], cancels)
        /\ \A r \in back \cap lease.receipt : /\ cancels # NoExecution
                                              /\ turns[lease.turn].role = "compaction"
        /\ cancels # NoExecution => Carried /\ SparesLater(Rows \ answered)

(* A command flags the open execution.                                     *)
Flags ==
    /\ \E spares \in SUBSET Rows :
          /\ CancelExecution(lease.exec, spares)
          /\ spares # {} => Carried /\ SparesLater(spares)
    /\ lease.exec # NoExecution
    /\ lease' = [lease EXCEPT !.flag = TRUE]
    /\ UNCHANGED <<inboxVars, turnCount, turns, decided, answers, procVars>>

(* The lease row is deleted with nothing left to settle.                   *)
Frees(w) ==
    /\ UNCHANGED <<inboxVars, turnCount, turns, decided, signals, historyVars>>
    /\ lease' = NoLease
    /\ \A t \in Turns : ~Open(t)
    /\ pc[w] \in BeforeLease \cup InSetup
    /\ \/ LeaveRun(w)
       \/ run' = run /\ pc[w] \in BeforeLease /\ pc' = [pc EXCEPT ![w] = "insert"]

Opens(w) ==
    /\ UNCHANGED <<inboxVars, turnCount, turns, decided, signals, historyVars>>
    /\ lease.exec = NoExecution /\ pc[w] = "insert"
    /\ lease' = [NoLease EXCEPT !.exec = FreshExec, !.holder = w]
    /\ run' = [run EXCEPT ![w].exec = FreshExec]
    /\ pc' = [pc EXCEPT ![w] = "starting"]

(* The rows a reservation takes on: pending messages that no queued switch *)
(* is in front of, the receipt's among them.                               *)
MayTakeOn(receipt) ==
    /\ receipt \in SUBSET Rows
    /\ lease.receipt \subseteq receipt
    /\ \A r \in receipt : fate[r] = "pending" /\ kind[r] = "message"
    /\ \A r \in receipt, s \in Switches(Pending', kind) : ~(r > s)

(* Where a reservation is made: by a start, which settles no turn, or at a *)
(* boundary, which settles the run's and hands its successor the receipt.  *)
Reserves(w, settled, role, mode, receipt, q) ==
    /\ MayTakeOn(receipt)
    /\ Bind(w, settled, role, mode, receipt, receipt)
    /\ q = "bound" => pc[w] \in InSetup /\ settled = NoTurn
    /\ q # "bound" => pc[w] = "adoptSelected" /\ settled = run[w].turn
    /\ q = "ready" => role = "assistant" /\ run'[w].acks = receipt
    /\ q = "ready" /\ "forced" \in run[w].marks => Role(w) = "compaction"
    /\ q = "compacting" => role = "compaction"
    /\ pc' = [pc EXCEPT ![w] = q]

(* A turn is reserved: by a start, or as a successor in the run's loop.    *)
Binds(w) ==
    /\ Owns(w) /\ ~lease.flag
    /\ \E settled \in {NoTurn, run[w].turn}, role \in {"assistant", "compaction"},
          mode \in Modes, receipt \in SUBSET Rows, q \in {"bound", "ready", "compacting"} :
          Reserves(w, settled, role, mode, receipt, q)
    /\ \E controls \in SUBSET Rows : (\A r \in controls : kind[r] # "message") /\ Ack(controls, NoTurn)
    /\ run'[w].exec = run[w].exec /\ run'[w].turn = turnCount + 1
    /\ run'[w].snap = {}
    /\ run'[w].marks \subseteq run[w].marks \cup {"continuing"}
    /\ \A v \in Workers : v # w => Stays(v)
    /\ UNCHANGED <<count, kind, decided, signals, historyVars>>

(* A turn is settled, and its execution ends if its process owns the lease; *)
(* a reply that failed or was cancelled answers what it held.              *)
Settles(w) ==
    /\ pc[w] \in InRun
    /\ \E s \in {"none", "complete", "error", "cancelled"} :
          /\ turns' = [turns EXCEPT ![run[w].turn].status = s]
          /\ s = "cancelled" /\ Open(run[w].turn) =>
                Aborted(w) \/ pc[w] = "exitCancelled" \/ lease.flag
          /\ ~Open(run[w].turn) => \/ s = turns[run[w].turn].status
                                   \/ s = "complete" /\ Role(w) = "compaction"
          /\ \/ NoAck
             \/ /\ Owns(w) /\ Role(w) = "assistant" /\ s \in {"cancelled", "error"}
                /\ Ack(lease.receipt, run[w].turn)
    /\ lease' = IF Owns(w) THEN NoLease ELSE lease
    /\ LeaveRun(w)
    /\ UNCHANGED <<count, kind, turnCount, decided, signals, historyVars>>

StepKinds ==
    \/ Rests \/ Enqueues \/ Withdraws \/ Decides \/ Flags
    \/ \E w \in Workers : \/ RepairOrphans(w) \/ Frees(w) \/ Opens(w) \/ Binds(w)
                          \/ Respond(w) \/ Settles(w) \/ CompactionFails(w)

-------------------------------------------------------------------------------
(* Steps that rest.                                                        *)

(* A process that stays where it is has moved nowhere.                     *)
LEMMA StayingMoves ==
    ASSUME NEW w \in Workers, Stays(w)
    PROVE  RunMoves(w)
BY DEF Stays, RunMoves, SelectionMoves, PlaceMoves, AbortMoves, Aborted

(* One process moves, the others stay.                                     *)
LEMMA OneMoves ==
    ASSUME TypeOK, NEW w \in Workers, NEW q, NEW u,
           pc' = [pc EXCEPT ![w] = q], run' = [run EXCEPT ![w] = u]
    PROVE  /\ pc'[w] = q /\ run'[w] = u
           /\ \A v \in Workers : v # w => Stays(v)
           /\ RunMoves(w) => \A v \in Workers : RunMoves(v)
<1>1. pc \in [Workers -> Pcs] /\ run \in [Workers -> RunType]
  BY TypeParts DEF RunTypes
<1>2. pc'[w] = q /\ run'[w] = u /\ \A v \in Workers : v # w => Stays(v)
  BY <1>1 DEF Stays
<1> QED BY <1>2, StayingMoves

(* A process that leaves its run.                                          *)
LEMMA LeavingMoves ==
    ASSUME TypeOK, NEW w \in Workers, LeaveRun(w)
    PROVE  /\ Leaves(w) /\ \A v \in Workers : v # w => Stays(v)
           /\ \A v \in Workers : RunMoves(v)
<1>1. pc' = [pc EXCEPT ![w] = "idle"] /\ run' = [run EXCEPT ![w] = NoRun]
  BY DEF LeaveRun, Goto
<1>2. Leaves(w) /\ \A v \in Workers : v # w => Stays(v)
  BY <1>1, OneMoves DEF Leaves
<1> QED BY <1>2, StayingMoves DEF RunMoves

(* The places of a process, told apart.                                    *)
LEMMA PlacesApart ==
    /\ BeforeLease = {"idle", "repair", "endStale", "insert"}
    /\ InSetup = {"starting", "selected"}
    /\ InRun = {"bound", "ready", "streaming", "boundary", "closeOrContinue", "adopting",
                "adoptSelected", "compacting", "exitSuccess", "exitFailed", "exitCancelled"}
    /\ Exits = {"exitSuccess", "exitFailed", "exitCancelled"}
    /\ AfterResponse = {"boundary", "closeOrContinue", "adopting", "adoptSelected"}
BY DEF BeforeLease, InSetup, InRun, LoopPcs, Exits, AfterResponse

(* A loop step that only goes somewhere.                                   *)
LEMMA LoopMovesRest ==
    ASSUME TypeOK, NEW w \in Workers, LoopMoves(w)
    PROVE  Rests
<1> USE DEF Goto
<1>0. run \in [Workers -> RunType] /\ pc \in [Workers -> Pcs]
  BY TypeParts DEF RunTypes
<1>1. UNCHANGED <<inboxVars, turnVars, leaseVars, decided, signals, faults, historyVars>>
  BY DEF LoopMoves, ReadQueued, BeginRequest, ResponseRefused, Overflow, StreamCancelled,
         RunFails, Boundary, ContinueReply, BeginCompaction, AdoptionCancelled, AdoptYields
<1>2. SUFFICES RunMoves(w) /\ \A v \in Workers : v # w => Stays(v)
  BY <1>1, StayingMoves DEF Rests, turnVars, leaseVars
<1>3. CASE ReadQueued(w)
  <2>1. /\ pc[w] = "bound" /\ pc' = [pc EXCEPT ![w] = "ready"]
        /\ run' = [run EXCEPT ![w] = [run[w] EXCEPT !.acks = BoundRows]]
    BY <1>3 DEF ReadQueued
  <2>2. /\ pc'[w] = "ready" /\ run'[w] = [run[w] EXCEPT !.acks = BoundRows]
        /\ \A v \in Workers : v # w => Stays(v)
    BY <2>1, OneMoves
  <2> HIDE DEF BoundRows
  <2>3. /\ run'[w].exec = run[w].exec /\ run'[w].turn = run[w].turn /\ run'[w].snap = run[w].snap
        /\ run'[w].eligible = run[w].eligible /\ run'[w].marks = run[w].marks
        /\ run'[w].acks = BoundRows
    BY <1>0, <2>2 DEF RunType
  <2> QED BY <2>1, <2>2, <2>3, PlacesApart DEF RunMoves, SelectionMoves, PlaceMoves, AbortMoves, Aborted
<1>4. CASE Overflow(w) /\ "retried" \notin run[w].marks
  <2>1. /\ pc[w] = "streaming" /\ AutoCompact /\ pc' = [pc EXCEPT ![w] = "boundary"]
        /\ run' = [run EXCEPT ![w] = [run[w] EXCEPT !.acks = {},
                                                    !.marks = run[w].marks \cup {"retried", "forced"}]]
    BY <1>4 DEF Overflow
  <2>2. /\ pc'[w] = "boundary"
        /\ run'[w] = [run[w] EXCEPT !.acks = {}, !.marks = run[w].marks \cup {"retried", "forced"}]
        /\ \A v \in Workers : v # w => Stays(v)
    BY <2>1, OneMoves
  <2>3. /\ run'[w].exec = run[w].exec /\ run'[w].turn = run[w].turn /\ run'[w].snap = run[w].snap
        /\ run'[w].eligible = run[w].eligible /\ run'[w].marks = run[w].marks \cup {"retried", "forced"}
    BY <1>0, <2>2 DEF RunType
  <2> QED BY <2>1, <2>2, <2>3, PlacesApart DEF RunMoves, SelectionMoves, PlaceMoves, AbortMoves, Aborted
<1>5. CASE ~ReadQueued(w) /\ ~(Overflow(w) /\ "retried" \notin run[w].marks)
  <2>1. run' = run /\ \E q : pc' = [pc EXCEPT ![w] = q]
    BY <1>5 DEF LoopMoves, BeginRequest, ResponseRefused, StreamCancelled, RunFails, Boundary,
                ContinueReply, BeginCompaction, AdoptionCancelled, AdoptYields, Overflow
  <2>2. \A v \in Workers : v # w => Stays(v)
    BY <1>0, <2>1 DEF Stays
  <2>3. SUFFICES PlaceMoves(w) /\ AbortMoves(w)
    BY <2>1, <2>2 DEF RunMoves, SelectionMoves
  <2>4. CASE BeginRequest(w)
    <3>1. /\ pc[w] = "ready"
          /\ pc'[w] = IF Cancelled(w) THEN "exitCancelled"
                      ELSE IF Role(w) = "compaction" THEN "compacting" ELSE "streaming"
      BY <1>0, <2>4 DEF BeginRequest
    <3> QED BY <2>1, <3>1, PlacesApart DEF PlaceMoves, AbortMoves, Cancelled, Aborted
  <2>5. CASE Boundary(w)
    <3>1. /\ pc[w] = "boundary"
          /\ pc'[w] \in {"exitCancelled", "exitSuccess", "closeOrContinue", "adopting"}
          /\ pc'[w] = "exitCancelled" => Cancelled(w)
      BY <1>0, <2>5 DEF Boundary, Cancelled
    <3> QED BY <2>1, <3>1, PlacesApart DEF PlaceMoves, AbortMoves, Cancelled, Aborted
  <2>6. CASE BeginCompaction(w)
    <3>1. /\ pc[w] = "compacting" /\ pc'[w] \in {"exitCancelled", "adopting"}
          /\ pc'[w] = "exitCancelled" => ~Owns(w) \/ lease.flag \/ Aborted(w)
      BY <1>0, <2>6 DEF BeginCompaction
    <3> QED BY <2>1, <3>1, PlacesApart DEF PlaceMoves, AbortMoves, Aborted
  <2>7. CASE AdoptionCancelled(w) \/ StreamCancelled(w)
    <3>1. /\ pc[w] \in {"adopting", "adoptSelected", "streaming"} /\ pc'[w] = "exitCancelled"
          /\ Aborted(w) \/ lease.flag
      BY <1>0, <2>7 DEF AdoptionCancelled, StreamCancelled
    <3> QED BY <2>1, <3>1, PlacesApart DEF PlaceMoves, AbortMoves, Aborted
  <2>8. CASE ResponseRefused(w) \/ RunFails(w) \/ AdoptYields(w) \/ ContinueReply(w) \/ Overflow(w)
    <3>1. /\ pc[w] \in InRun
          /\ \/ pc'[w] \in {"exitFailed", "exitSuccess"}
             \/ pc[w] = "closeOrContinue" /\ pc'[w] = "adopting"
      BY <1>0, <1>5, <2>8, PlacesApart
         DEF ResponseRefused, RunFails, AdoptYields, MayAdopt, ContinueReply, Overflow
    <3> QED BY <2>1, <3>1, PlacesApart DEF PlaceMoves, AbortMoves, Aborted
  <2> QED BY <1>5, <2>4, <2>5, <2>6, <2>7, <2>8 DEF LoopMoves
<1> QED BY <1>3, <1>4, <1>5

(* A step of one process that leaves the database as it is.                *)
LEMMA OneRests ==
    ASSUME NEW w \in Workers, RunMoves(w), \A v \in Workers : v # w => Stays(v), lease' = lease,
           UNCHANGED <<inboxVars, turnCount, turns, historyVars, decided, signals>>
    PROVE  Rests
BY StayingMoves DEF Rests

(* Reading the queue, for a start or for an adoption.                      *)
LEMMA SelectingRests ==
    ASSUME TypeOK, NEW w \in Workers,
           SelectStart(w) \/ ReselectStart(w) \/ SelectAdoption(w) \/ ReselectAdoption(w)
    PROVE  Rests
<1>0. run \in [Workers -> RunType] /\ pc \in [Workers -> Pcs]
  BY TypeParts DEF RunTypes
<1>1. PICK q, s, e :
        /\ pc' = [pc EXCEPT ![w] = q]
        /\ run' = [run EXCEPT ![w] = [run[w] EXCEPT !.snap = s, !.eligible = e]]
        /\ (s = Pending /\ e = Eligible) \/ s = {}
        /\ \/ pc[w] \in {"starting", "selected"} /\ q \in {"starting", "selected"}
           \/ pc[w] \in {"adopting", "adoptSelected"} /\ q \in {"adopting", "adoptSelected"}
        /\ lease' = lease
        /\ UNCHANGED <<inboxVars, turnCount, turns, historyVars, decided, signals>>
  <2>1. CASE SelectStart(w) \/ SelectAdoption(w)
    <3>1. run' = [run EXCEPT ![w] = [run[w] EXCEPT !.snap = Pending, !.eligible = Eligible]]
      BY <1>0, <2>1 DEF SelectStart, SelectAdoption, Selected
    <3> QED BY <2>1, <3>1 DEF SelectStart, SelectAdoption, Goto, turnVars, leaseVars
  <2>2. CASE ReselectStart(w) \/ ReselectAdoption(w)
    <3>1. run' = [run EXCEPT ![w] = [run[w] EXCEPT !.snap = {}, !.eligible = {}]]
      BY <1>0, <2>2 DEF ReselectStart, ReselectAdoption, Unselected
    <3> QED BY <2>2, <3>1 DEF ReselectStart, ReselectAdoption, Goto, turnVars, leaseVars
  <2> QED BY <2>1, <2>2
<1>2. /\ pc'[w] = q /\ \A v \in Workers : v # w => Stays(v)
      /\ run'[w] = [run[w] EXCEPT !.snap = s, !.eligible = e]
  BY <1>1, OneMoves
<1>3. /\ run'[w].exec = run[w].exec /\ run'[w].turn = run[w].turn /\ run'[w].snap = s
      /\ run'[w].eligible = e /\ run'[w].marks = run[w].marks /\ run'[w].acks = run[w].acks
  BY <1>0, <1>2 DEF RunType
<1>4. RunMoves(w)
  BY <1>1, <1>2, <1>3, PlacesApart DEF RunMoves, SelectionMoves, PlaceMoves, AbortMoves, Aborted
<1> QED BY <1>1, <1>2, <1>4, OneRests

(* A boundary with nothing new; one that a run without its lease reaches.  *)
LEMMA AdoptingNothingRests ==
    ASSUME IInv, NEW w \in Workers, AdoptNothing(w) \/ AdoptWithoutLease(w)
    PROVE  Rests
<1> USE DEF Goto
<1>0. run \in [Workers -> RunType] /\ pc \in [Workers -> Pcs] /\ TypeOK
  BY TypeParts DEF RunTypes, IInv
<1>1. /\ UNCHANGED <<inboxVars, turnCount, turns, decided, signals, historyVars>>
      /\ lease' = lease /\ pc[w] = "adoptSelected"
  BY DEF AdoptNothing, AdoptWithoutLease, MayAdopt, NoAck, AdoptionTail, inboxVars, turnVars,
         leaseVars, historyVars
<1>2. CASE AdoptWithoutLease(w) /\ Role(w) = "compaction"
  <2>1. LeaveRun(w)
    BY <1>2 DEF AdoptWithoutLease
  <2> QED BY <1>0, <1>1, <2>1, LeavingMoves, OneRests
<1>3. CASE AdoptNothing(w)
  <2>1. run[w].turn # NoTurn /\ lease' = lease /\ Role(w) # "compaction" /\ "forced" \notin run[w].marks
    BY <1>1, <1>3, PlacesApart, Ranges DEF IInv, RunsFit, AdoptNothing
  <2>2. run' = [run EXCEPT ![w] = [run[w] EXCEPT !.turn = run[w].turn, !.snap = {}, !.eligible = {},
                                     !.marks = run[w].marks \ {"completing"},
                                     !.acks = lease.receipt]]
    BY <1>0, <1>3, <2>1 DEF AdoptNothing, AdoptionTail
  <2>3. /\ run'[w] = [run[w] EXCEPT !.turn = run[w].turn, !.snap = {}, !.eligible = {},
                                     !.marks = run[w].marks \ {"completing"},
                                     !.acks = lease.receipt]
        /\ \A v \in Workers : v # w => Stays(v)
        /\ pc'[w] \in {"exitSuccess", "ready"}
    BY <1>0, <1>3, <2>2 DEF AdoptNothing, Stays
  <2>4. /\ run'[w].exec = run[w].exec /\ run'[w].turn = run[w].turn /\ run'[w].snap = {}
        /\ run'[w].acks = lease.receipt /\ run'[w].marks = run[w].marks \ {"completing"}
    BY <1>0, <2>3 DEF RunType
  <2>5. RunMoves(w)
    BY <1>1, <2>1, <2>3, <2>4, PlacesApart
       DEF RunMoves, SelectionMoves, PlaceMoves, AbortMoves, Aborted
  <2> QED BY <1>1, <2>3, <2>5, OneRests
<1>4. CASE AdoptWithoutLease(w) /\ Role(w) # "compaction"
  <2>1. run' = [run EXCEPT ![w] = [run[w] EXCEPT !.marks = run[w].marks \ {"completing"},
                                                 !.snap = {}, !.eligible = {}]]
    BY <1>0, <1>4 DEF AdoptWithoutLease
  <2>2. /\ run'[w] = [run[w] EXCEPT !.marks = run[w].marks \ {"completing"},
                                    !.snap = {}, !.eligible = {}]
        /\ \A v \in Workers : v # w => Stays(v)
        /\ pc'[w] \in {"exitSuccess", "exitFailed", "ready"}
        /\ pc'[w] = "ready" => "forced" \notin run[w].marks
        /\ ~Owns(w)
    BY <1>0, <1>4, <2>1 DEF AdoptWithoutLease, Stays
  <2>3. /\ run'[w].exec = run[w].exec /\ run'[w].turn = run[w].turn /\ run'[w].snap = {}
        /\ run'[w].marks = run[w].marks \ {"completing"}
    BY <1>0, <2>2 DEF RunType
  <2>4. RunMoves(w)
    BY <1>1, <1>4, <2>2, <2>3, PlacesApart
       DEF RunMoves, SelectionMoves, PlaceMoves, AbortMoves, Aborted
  <2> QED BY <1>1, <2>2, <2>4, OneRests
<1> QED BY <1>2, <1>3, <1>4

(* A wake, a lost session, and a replayed Stop.                            *)
LEMMA WakingRests ==
    ASSUME TypeOK, \/ \E w \in Workers : Claim(w) \/ LoseSession(w)
                   \/ \E q \in Requests : ReplayStop(q)
    PROVE  Rests
<1>0. run \in [Workers -> RunType] /\ pc \in [Workers -> Pcs]
  BY TypeParts DEF RunTypes
<1>1. ASSUME NEW w \in Workers, Claim(w) PROVE Rests
  <2>1. run' = run /\ pc'[w] = "repair" /\ pc[w] = "idle" /\ \A v \in Workers : v # w => Stays(v)
    BY <1>0, <1>1 DEF Claim, Goto, Stays
  <2>2. RunMoves(w)
    BY <2>1, PlacesApart DEF RunMoves, SelectionMoves, PlaceMoves, AbortMoves, Aborted
  <2> QED BY <1>1, <2>1, <2>2, OneRests DEF Claim, turnVars
<1>2. ASSUME NEW w \in Workers, LoseSession(w) PROVE Rests
  BY <1>2, StayingMoves DEF LoseSession, Rests, Stays, procVars, turnVars
<1>3. ASSUME NEW q \in Requests, ReplayStop(q) PROVE Rests
  BY <1>3, StayingMoves DEF ReplayStop, Rests, Stays, procVars, turnVars, leaseVars
<1> QED BY <1>1, <1>2, <1>3

(* A crash, and a start or a bare repair that ends without its lease.      *)
LEMMA LeavingRests ==
    ASSUME TypeOK, NEW w \in Workers, LeaveRun(w), lease' = lease,
           UNCHANGED <<inboxVars, turnCount, turns, historyVars, decided, signals>>
    PROVE  Rests
BY LeavingMoves DEF Rests

(* A heartbeat, and the abort after a command.                             *)
LEMMA AbortingRests ==
    ASSUME IInv, NEW w \in Workers, Heartbeat(w) \/ \E e \in Execs : AbortLocally(w, e)
    PROVE  Rests
<1>0. run \in [Workers -> RunType] /\ pc \in [Workers -> Pcs] /\ lease \in LeaseType
  BY TypeParts DEF RunTypes, LeaseTypes, IInv
<1>1. CASE run' = run
  <2>1. \A v \in Workers : RunMoves(v)
    BY <1>1, StayingMoves DEF Heartbeat, AbortLocally, Stays
  <2>2. lease' = lease \/ (lease.exec # NoExecution /\ lease' = [lease EXCEPT !.expired = FALSE])
    BY DEF Heartbeat, AbortLocally, leaseVars, Owns
  <2> QED BY <2>1, <2>2 DEF Heartbeat, AbortLocally, Rests, turnVars
<1>2. CASE run' # run
  <2>1. /\ run' = [run EXCEPT ![w].marks = @ \cup {"aborted"}] /\ pc' = pc
        /\ pc[w] \notin BeforeLease
        /\ (Owns(w) => lease.flag) \/ run[w].exec \in signals
        /\ lease' = lease \/ (lease.exec # NoExecution /\ lease' = [lease EXCEPT !.expired = FALSE])
        /\ \A e \in signals' : e \in signals
        /\ UNCHANGED <<inboxVars, turnCount, turns, historyVars, decided>>
    <3>1. CASE Heartbeat(w)
      BY <1>2, <3>1, PlacesApart DEF Heartbeat, turnVars, Owns
    <3>2. CASE \E e \in Execs : AbortLocally(w, e)
      <4>1. pc[w] \notin BeforeLease
        BY <1>2, <3>2, Ranges DEF AbortLocally, IInv, RunsFit
      <4> QED BY <1>2, <3>2, <4>1 DEF AbortLocally, turnVars, leaseVars
    <3> QED BY <3>1, <3>2
  <2>2. run'[w] = [run[w] EXCEPT !.marks = run[w].marks \cup {"aborted"}]
        /\ \A v \in Workers : v # w => Stays(v)
    BY <1>0, <2>1 DEF Stays
  <2>3. /\ run'[w].exec = run[w].exec /\ run'[w].turn = run[w].turn /\ run'[w].snap = run[w].snap
        /\ run'[w].eligible = run[w].eligible /\ run'[w].acks = run[w].acks
        /\ run'[w].marks = run[w].marks \cup {"aborted"}
    BY <1>0, <2>2 DEF RunType
  <2>4. RunMoves(w)
    BY <2>1, <2>3, PlacesApart DEF RunMoves, SelectionMoves, PlaceMoves, AbortMoves, Aborted
  <2>5. \A v \in Workers : RunMoves(v)
    BY <2>2, <2>4, StayingMoves
  <2> QED BY <2>1, <2>5 DEF Rests
<1> QED BY <1>1, <1>2

(* A lease row that runs out, or is left behind as evidence.               *)
LEMMA ExpiringRests ==
    ASSUME TypeOK, ExpireLease \/ \E w \in Workers : Abandon(w)
    PROVE  Rests
<1>1. CASE ExpireLease
  BY <1>1, StayingMoves DEF ExpireLease, LiveLease, Rests, Stays, procVars, turnVars
<1>2. CASE \E w \in Workers : Abandon(w)
  <2>1. PICK w \in Workers : Abandon(w)
    BY <1>2
  <2>2. \A v \in Workers : Owns(v) => pc[v] \in Exits
    BY <2>1 DEF Abandon, Owns
  <2> QED BY <2>1, <2>2, LeavingMoves DEF Abandon, Rests, Owns, turnVars
<1> QED BY <1>1, <1>2

-------------------------------------------------------------------------------
(* Every action is of one of the kinds.                                    *)

(* Clients' rows: a message, a compaction, a switch with what it settles.  *)
LEMMA EnqueueKind ==
    ASSUME IInv, SendMessage \/ RequestCompaction \/ \E mode \in Modes : RequestSwitch(mode)
    PROVE  Enqueues
<1>1. UNCHANGED <<deliveredBy, turnCount, turns, lease, decided, signals, procVars, historyVars>>
  BY DEF SendMessage, RequestCompaction, RequestSwitch, turnVars, leaseVars
<1>2. CASE SendMessage \/ RequestCompaction
  <2>1. \E k \in {"message", "compact"} : NewRow(k, "pending", {})
    BY <1>2 DEF SendMessage, RequestCompaction
  <2> QED BY <1>1, <2>1 DEF Enqueues
<1>3. ASSUME NEW mode \in Modes, RequestSwitch(mode) PROVE Enqueues
  <2> DEFINE queued == QueuedSwitch(Pending, kind)
             unchanged == IF queued = NoRow THEN aiMode = mode ELSE kind[queued] = mode
             settled == IF unchanged THEN {} ELSE {queued}
  <2>1. IF queued # NoRow \/ unchanged THEN NewRow(mode, "delivered", settled)
        ELSE NewRow(mode, "pending", {})
    BY <1>3 DEF RequestSwitch
  <2>2. Pending \subseteq Nat
    BY Ranges DEF Pending
  <2>3. queued # NoRow => queued \in Switches(Pending, kind)
    BY <2>2, QueuedSwitchIsFirst, NoQueuedSwitch
  <2> HIDE DEF queued
  <2>4. queued # NoRow \/ unchanged => settled \subseteq Switches(Pending, kind)
    BY <2>3
  <2> HIDE DEF settled, unchanged
  <2>5. \E s \in {"pending", "delivered"}, x \in SUBSET Switches(Pending, kind) : NewRow(mode, s, x)
    BY <2>1, <2>4
  <2>6. mode # "message"
    BY DEF Modes
  <2> QED BY <1>1, <2>5, <2>6 DEF Enqueues
<1> QED BY <1>2, <1>3

(* A control that is taken back.                                           *)
LEMMA WithdrawKind ==
    ASSUME NEW r \in Rows, WithdrawControl(r)
    PROVE  Withdraws
BY DEF WithdrawControl, Withdraws, Controls, Modes, turnVars, leaseVars

(* What a cancel that a command decides spares: neither what the execution *)
(* answered nor what it keeps.                                             *)
LEMMA StopSparesLater ==
    ASSUME IInv, NEW seen, NEW e, NEW mine,
           NEW facts, facts = Facts(SeenRows(seen, mine)),
           NEW covered, covered = Covered(facts, seen, mine),
           StopCancels(facts, covered, e),
           NEW d, d = DecideHandBack(facts, covered, TRUE),
           lease'.receipt = lease.receipt \ d.handBack
    PROVE  /\ Carried /\ facts.execution = lease.exec /\ lease.exec # NoExecution
           /\ SparesLater(Rows \ d.answered)
<1>1. /\ facts.execution = IF Carried THEN lease.exec ELSE NoExecution
      /\ facts.receipt = lease.receipt /\ facts.rows = SeenRows(seen, mine)
      /\ facts.delivered = {r \in SeenRows(seen, mine) : fate[r] # "pending"}
      /\ facts.byExecution = {r \in SeenRows(seen, mine) :
                                Carried /\ deliveredBy[r] \in ExecutionTurns(lease.exec)}
      /\ facts.gone = {r \in SeenRows(seen, mine) : fate[r] = "handedBack"}
  BY DEF Facts
<1>2. /\ facts.execution # NoExecution
      /\ \A r \in facts.rows \ covered : ~TakesOn(facts, r)
  BY DEF StopCancels
<1>3. Carried /\ facts.execution = lease.exec /\ lease.exec # NoExecution
  BY <1>1, <1>2
<1>4. /\ d.handBack = HandsBack(facts, covered, TRUE)
      /\ d.answered = covered \ (HandsBack(facts, covered, TRUE) \cup (covered \cap facts.gone))
      /\ HandsBack(facts, covered, TRUE) \cap facts.delivered = {}
  BY DEF DecideHandBack, HandsBack
<1>5. ASSUME NEW r \in WriterRows, r \notin d.answered
      PROVE  /\ ~(fate[r] = "delivered" /\ deliveredBy[r] \in ExecutionTurns(lease.exec))
             /\ r \notin lease'.receipt
  <2>1. ASSUME fate[r] = "delivered", deliveredBy[r] \in ExecutionTurns(lease.exec) PROVE FALSE
    <3>1. r \in facts.rows /\ r \in facts.byExecution
      BY <1>1, <1>3, <2>1 DEF SeenRows
    <3>2. r \in covered
      BY <1>2, <3>1 DEF TakesOn
    <3>3. r \in facts.delivered /\ r \notin facts.gone
      BY <1>1, <2>1, <3>1
    <3> QED BY <1>4, <1>5, <3>2, <3>3
  <2>2. ASSUME r \in lease'.receipt PROVE FALSE
    <3>1. r \in lease.receipt /\ r \notin d.handBack /\ fate[r] = "pending"
      BY <2>2 DEF IInv, ReceiptIsPending
    <3>2. r \in facts.rows
      BY <1>1, <3>1 DEF SeenRows
    <3>3. r \in covered
      BY <1>1, <1>2, <3>1, <3>2 DEF TakesOn
    <3> QED BY <1>1, <1>4, <1>5, <3>1, <3>3
  <2> QED BY <2>1, <2>2
<1> QED BY <1>3, <1>5 DEF SparesLater

(* The queue's x, and Stop.                                                *)
LEMMA DecideKind ==
    ASSUME IInv, NEW q \in Requests,
           \/ \E ids : HandBack(q, ids)
           \/ \E seen, e, mine : PressStop(q, seen, e, mine)
    PROVE  Decides
<1>0. lease \in LeaseType
  BY TypeParts DEF IInv, LeaseTypes
<1>1. ASSUME NEW ids, HandBack(q, ids) PROVE Decides
  <2> DEFINE rows == WriterRows \cap ids
             facts == Facts(rows)
             d == DecideHandBack(facts, rows, FALSE)
             back == HandsBack(facts, rows, FALSE)
  <2>1. ApplyHandBack(q, d, NoExecution)
    BY <1>1 DEF HandBack
  <2>2. facts.receipt = lease.receipt
    BY DEF Facts
  <2> HIDE DEF facts
  <2>3. back \cap lease.receipt = {} /\ rows \subseteq Rows
    BY <2>2 DEF HandsBack, WriterRows
  <2>4. d = [handBack |-> back, gone |-> rows \cap facts.gone,
             answered |-> rows \ (back \cup (rows \cap facts.gone))]
    BY DEF DecideHandBack
  <2>5. back \subseteq rows
    BY DEF HandsBack
  <2> HIDE DEF rows, d, back
  <2> QED BY <2>1, <2>3, <2>4, <2>5 DEF Decides
<1>2. ASSUME NEW seen, NEW e, NEW mine, PressStop(q, seen, e, mine) PROVE Decides
  <2> DEFINE facts == Facts(SeenRows(seen, mine))
             covered == Covered(facts, seen, mine)
             stops == StopCancels(facts, covered, e)
             d == DecideHandBack(facts, covered, stops)
             back == HandsBack(facts, covered, stops)
             cancels == IF stops THEN facts.execution ELSE NoExecution
  <2>1. ApplyHandBack(q, d, cancels)
    BY <1>2 DEF PressStop, DecideStop
  <2>2. /\ facts.receipt = lease.receipt /\ facts.rows = SeenRows(seen, mine)
        /\ facts.holder = "compaction" => Carried /\ turns[lease.turn].role = "compaction"
        /\ facts.execution # NoExecution => Carried /\ facts.execution = lease.exec
    BY DEF Facts
  <2>3. stops \in BOOLEAN
    BY DEF StopCancels
  <2>4. stops => facts.execution # NoExecution
    BY DEF StopCancels
  <2> HIDE DEF facts
  <2>5. covered \subseteq Rows
    BY <2>2 DEF Covered, SeenRows, WriterRows
  <2>6. d = [handBack |-> back, gone |-> covered \cap facts.gone,
             answered |-> covered \ (back \cup (covered \cap facts.gone))]
    BY DEF DecideHandBack
  <2>7. back \subseteq covered
    BY DEF HandsBack
  <2>8. \A r \in back \cap lease.receipt : stops /\ turns[lease.turn].role = "compaction"
    BY <2>2 DEF HandsBack
  <2>9. cancels \in {NoExecution, lease.exec} /\ (cancels # NoExecution <=> stops)
    BY <2>2, <2>4
  <2>10. lease'.receipt = lease.receipt \ d.handBack
    BY <1>0, <2>1 DEF ApplyHandBack, LeaseType
  <2>11. stops => Carried /\ SparesLater(Rows \ d.answered)
    <3> SUFFICES ASSUME stops PROVE Carried /\ SparesLater(Rows \ d.answered)
      OBVIOUS
    <3>1. StopCancels(facts, covered, e) /\ d = DecideHandBack(facts, covered, TRUE)
      BY <2>3
    <3>2. facts = Facts(SeenRows(seen, mine)) /\ covered = Covered(facts, seen, mine)
      BY DEF facts
    <3> HIDE DEF covered, d, stops
    <3> QED BY <2>10, <3>1, <3>2, StopSparesLater
  <2> HIDE DEF covered, d, back, cancels, stops
  <2>12. /\ d.handBack = back /\ d.answered = covered \ (back \cup (covered \cap facts.gone))
    BY <2>6
  <2>13. cancels # NoExecution => Carried /\ SparesLater(Rows \ (covered \ (back \cup (covered \cap facts.gone))))
    BY <2>9, <2>11, <2>12
  <2> QED BY <2>1, <2>5, <2>6, <2>7, <2>8, <2>9, <2>13 DEF Decides
<1> QED BY <1>1, <1>2

(* Send now and a turn's cancel.                                           *)
LEMMA FlagKind ==
    ASSUME IInv, \/ \E seen \in Nat : \E e : \E waiting \in SUBSET Rows : SendNow(seen, e, waiting)
                 \/ \E t \in Turns : CancelTurn(t)
    PROVE  Flags
<1>1. ASSUME NEW t \in Turns, CancelTurn(t) PROVE Flags
  <2>1. CancelExecution(lease.exec, {}) /\ {} \in SUBSET Rows /\ lease.exec # NoExecution
    BY <1>1 DEF CancelTurn, LiveLease
  <2> QED BY <1>1, <2>1 DEF CancelTurn, Flags, turnVars
<1>2. ASSUME NEW seen \in Nat, NEW e, NEW waiting \in SUBSET Rows, SendNow(seen, e, waiting)
      PROVE  Flags
  <2> DEFINE facts == Facts(SeenRows(seen, waiting))
             target == DecideSendNow(facts, seen, e, waiting)
             spares == waiting \cup {r \in Rows : r > seen}
  <2>1. /\ target # NoExecution /\ lease' = [lease EXCEPT !.flag = TRUE]
        /\ CancelExecution(target, spares)
        /\ UNCHANGED <<inboxVars, turnVars, claim, decided, procVars, faults, answers>>
    BY <1>2 DEF SendNow
  <2>2. /\ facts.execution = IF Carried THEN lease.exec ELSE NoExecution
        /\ facts.receipt = lease.receipt /\ facts.rows = SeenRows(seen, waiting)
        /\ facts.byExecution = {r \in SeenRows(seen, waiting) :
                                  Carried /\ deliveredBy[r] \in ExecutionTurns(lease.exec)}
    BY DEF Facts
  <2> HIDE DEF facts
  <2>3. /\ facts.execution # NoExecution /\ target = facts.execution
        /\ \A r \in facts.rows : r \in spares => ~TakesOn(facts, r)
    BY <2>1, <2>2 DEF DecideSendNow, SeenRows, WriterRows
  <2>4. Carried /\ target = lease.exec /\ lease.exec # NoExecution
    BY <2>2, <2>3
  <2>5. lease'.receipt = lease.receipt
    BY <2>1, TypeParts DEF IInv, LeaseTypes, LeaseType
  <2> HIDE DEF target, spares
  <2>6. SparesLater(spares)
    <3> SUFFICES ASSUME NEW r \in WriterRows, r \in spares
                 PROVE  /\ ~(fate[r] = "delivered" /\ deliveredBy[r] \in ExecutionTurns(lease.exec))
                        /\ r \notin lease.receipt
      BY <2>5 DEF SparesLater
    <3>1. ASSUME fate[r] = "delivered", deliveredBy[r] \in ExecutionTurns(lease.exec) PROVE FALSE
      BY <2>2, <2>3, <2>4, <3>1 DEF SeenRows, TakesOn
    <3>2. ASSUME r \in lease.receipt PROVE FALSE
      BY <2>2, <2>3, <3>2 DEF SeenRows, TakesOn, IInv, ReceiptIsPending
    <3> QED BY <3>1, <3>2
  <2>7. spares \in SUBSET Rows
    BY DEF spares
  <2> QED BY <2>1, <2>4, <2>6, <2>7 DEF Flags, turnVars
<1> QED BY <1>1, <1>2

(* Ending a lease with nothing to settle: a stale one, or a start's own.   *)
LEMMA FreeKind ==
    ASSUME IInv, NEW w \in Workers,
           EndStale(w) \/ NoPendingWake(w) \/ StartLost(w) \/ SetupFails(w)
    PROVE  Rests \/ Frees(w)
<1>0. TypeOK
  BY DEF IInv
<1>1. CASE EndStale(w)
  <2>1. CASE \E t \in ExecutionTurns(lease.exec) : lease.exec # NoExecution /\ Open(t)
    BY <1>0, <1>1, <2>1, LeavingRests DEF EndStale, turnVars
  <2>2. CASE ~\E t \in ExecutionTurns(lease.exec) : lease.exec # NoExecution /\ Open(t)
    <3>1. \A t \in Turns : ~Open(t)
      BY <2>2 DEF IInv, OpenTurnHasItsLease, OpenTurnsFit, ExecutionTurns
    <3> QED BY <1>1, <2>2, <3>1, PlacesApart DEF EndStale, Frees, Goto, turnVars
  <2> QED BY <2>1, <2>2
<1>2. CASE NoPendingWake(w) \/ StartLost(w) \/ SetupFails(w)
  <2>1. EndStart(w) /\ pc[w] \in InSetup
    BY <1>2, PlacesApart DEF NoPendingWake, StartLost, SetupFails
  <2>2. CASE ~Owns(w)
    BY <1>0, <2>1, <2>2, LeavingRests DEF EndStart, EndExecution, turnVars
  <2>3. CASE Owns(w)
    <3>1. \A t \in Turns : ~Open(t)
      BY <2>1, <2>3, Ranges DEF IInv, OwnersFit, OpenTurnHasItsLease
    <3> QED BY <2>1, <2>3, <3>1 DEF EndStart, EndExecution, Frees, turnVars
  <2> QED BY <2>2, <2>3
<1> QED BY <1>1, <1>2

(* The new execution's row.                                                *)
LEMMA OpenKind ==
    ASSUME IInv, NEW w \in Workers, InsertLease(w)
    PROVE  Rests \/ Opens(w)
<1>1. CASE lease.exec = NoExecution
  BY <1>1 DEF InsertLease, Opens, Goto, turnVars
<1>2. CASE lease.exec # NoExecution
  BY <1>2, LeavingRests DEF InsertLease, IInv, turnVars
<1> QED BY <1>1, <1>2

(* Acknowledging nothing.                                                  *)
LEMMA NoAckIsAck ==
    ASSUME TypeOK, NoAck
    PROVE  Ack({}, NoTurn)
BY TypeParts DEF NoAck, Ack, RowTypes

(* A start's reservation, with the switch it applies: no switch that stays *)
(* queued is in front of what it takes on.                                 *)
LEMMA StartBinds ==
    ASSUME PInv, NEW w \in Workers, Owns(w), ~lease.flag, pc[w] \in InSetup,
           NEW rows, rows \subseteq Pending, NEW mode \in Modes,
           NEW switch, \A c \in switch : kind[c] # "message",
           \A s \in Switches(Pending, kind) : s \in rows \/ s \in switch,
           ReserveStart(w, rows, mode, switch)
    PROVE  Binds(w)
<1> USE DEF PInv, IInv
<1> DEFINE selection == AtStart(rows)
           control == {selection.control} \ {NoRow}
           receipt == selection.rows
<1>0. run \in [Workers -> RunType] /\ pc \in [Workers -> Pcs]
  BY TypeParts DEF RunTypes
<1>1. PICK role \in {"assistant", "compaction"} :
        Bind(w, NoTurn, role, mode, receipt, {r \in receipt : kind[r] = "message"})
  BY DEF ReserveStart
<1>2. /\ selection.kind \in {"batch", "control"}
      /\ Ack(control \cup switch, NoTurn)
      /\ run' = [run EXCEPT ![w].turn = turnCount + 1, ![w].snap = {}, ![w].eligible = {}]
      /\ pc' = [pc EXCEPT ![w] = "bound"]
      /\ UNCHANGED <<count, kind, decided, signals, historyVars>>
  BY DEF ReserveStart, Goto
<1>3. rows \subseteq Nat /\ rows \subseteq Rows /\ Pending \subseteq Rows
  BY Ranges DEF Pending
<1>4. SelectionFits(selection, rows, kind)
  BY <1>3, RunStartFits DEF AtStart
<1> HIDE DEF selection
<1>5. receipt \subseteq rows /\ \A r \in receipt : kind[r] = "message" /\ fate[r] = "pending"
  BY <1>3, <1>4 DEF SelectionFits, Adoptable, RowsFit, Pending
<1>6. \A c \in control \cup switch : kind[c] # "message"
  BY <1>2, <1>4 DEF SelectionFits
<1>7. {r \in receipt : kind[r] = "message"} = receipt
  BY <1>5
<1>8. lease.receipt = {}
  BY DEF OwnersFit, IdleLeaseIsBlank
<1>9. MayTakeOn(receipt)
  <2>1. ASSUME NEW r \in receipt, NEW s \in Switches(Pending', kind) PROVE ~(r > s)
    <3>1. s \in Rows /\ fate'[s] = "pending" /\ kind[s] \in Modes
      BY <2>1 DEF Switches, Pending
    <3>2. fate[s] = "pending" /\ s \notin switch
      BY <1>2, <3>1 DEF Ack
    <3>3. s \in Switches(rows, kind)
      BY <3>1, <3>2 DEF Switches, Pending
    <3>4. r < s
      BY <1>4, <1>5, <2>1, <3>3 DEF SelectionFits, Messages
    <3>5. r \in Nat
      BY <1>3, <1>5
    <3>6. s \in Nat
      BY <3>1, Ranges
    <3> QED BY <3>4, <3>5, <3>6
  <2> QED BY <1>3, <1>5, <1>8, <2>1 DEF MayTakeOn
<1>10. /\ run'[w] = [run[w] EXCEPT !.turn = turnCount + 1, !.snap = {}, !.eligible = {}]
       /\ \A v \in Workers : v # w => Stays(v)
  BY <1>0, <1>2 DEF Stays
<1>11. /\ run'[w].exec = run[w].exec /\ run'[w].turn = turnCount + 1 /\ run'[w].snap = {}
       /\ run'[w].marks = run[w].marks
  BY <1>0, <1>10 DEF RunType
<1> DEFINE controls == control \cup switch
<1>12. controls \subseteq Rows \/ Ack(controls \cap Rows, NoTurn)
  BY <1>2 DEF Ack
<1>13. \E c \in SUBSET Rows : (\A r \in c : kind[r] # "message") /\ Ack(c, NoTurn)
  BY <1>2, <1>6, <1>12
<1>14. Bind(w, NoTurn, role, mode, receipt, receipt) /\ receipt \in SUBSET Rows
  BY <1>1, <1>3, <1>5, <1>7
<1> HIDE DEF receipt, control, controls
<1>15. Reserves(w, NoTurn, role, mode, receipt, "bound")
  BY <1>2, <1>9, <1>14 DEF Reserves
<1> QED BY <1>2, <1>10, <1>11, <1>13, <1>14, <1>15 DEF Binds

(* The optimistic attempt's commit, and the locked attempt's.              *)
LEMMA StartKind ==
    ASSUME PInv, NEW w \in Workers, CommitStart(w) \/ SwitchAndStart(w)
    PROVE  Binds(w)
<1> USE DEF PInv, IInv
<1>1. CASE CommitStart(w)
  <2>1. /\ Owns(w) /\ pc[w] \in InSetup /\ ReserveStart(w, run[w].eligible, aiMode, {})
        /\ run[w].snap = Pending /\ ~lease.flag
    BY <1>1 DEF CommitStart, SelectionStillCurrent, InSetup
  <2>2. run[w].eligible \subseteq Pending /\ aiMode \in Modes
    BY <2>1, TypeParts DEF RunsFit, TurnTypes
  <2>3. \A s \in Switches(Pending, kind) : s \in run[w].eligible \/ s \in {}
    BY <2>1 DEF SelectionsFit, Switches, Modes
  <2> QED BY <2>1, <2>2, <2>3, StartBinds
<1>2. CASE SwitchAndStart(w)
  <2> DEFINE due == AtStart(Eligible).control
  <2>1. /\ Owns(w) /\ pc[w] \in InSetup /\ AtStart(Eligible).kind = "switch" /\ ~lease.flag
        /\ ReserveStart(w, Eligible \ {due}, kind[due], {due})
    BY <1>2 DEF SwitchAndStart, InSetup
  <2>2. Eligible \subseteq Nat /\ Eligible \subseteq Pending
    BY Ranges DEF Eligible, Pending
  <2>3. SelectionFits(AtStart(Eligible), Eligible, kind)
    BY <2>2, RunStartFits DEF AtStart
  <2>4. AtStart(Eligible) = ApplySwitch(QueuedSwitch(Eligible, kind)) /\ Switches(Eligible, kind) # {}
    BY <2>1, <2>3 DEF SelectionFits
  <2>5. due \in Switches(Eligible, kind)
    <3>1. due = QueuedSwitch(Eligible, kind)
      BY <2>4 DEF ApplySwitch
    <3> QED BY <2>2, <2>4, <3>1, QueuedSwitchIsFirst
  <2> HIDE DEF due
  <2>6. due \in Switches(Pending, kind) /\ kind[due] \in Modes /\ kind[due] # "message"
    BY <2>2, <2>5 DEF Switches, Modes
  <2>7. \A s \in Switches(Pending, kind) : s \in Eligible \ {due} \/ s \in {due}
    BY <2>6 DEF OneQueuedSwitch
  <2>8. Eligible \ {due} \subseteq Pending /\ \A c \in {due} : kind[c] # "message"
    BY <2>2, <2>6
  <2> QED BY <2>1, <2>6, <2>7, <2>8, StartBinds
<1> QED BY <1>1, <1>2

(* What a boundary carries over waits behind no queued switch.             *)
LEMMA CarriedRowsWaitForNone ==
    ASSUME PInv, NEW w \in Workers, MayAdopt(w),
           NEW r \in CarriedRows(w), NEW s \in Switches(Pending, kind)
    PROVE  ~(r > s)
<1> USE DEF PInv, IInv
<1>1. r \in Rows /\ fate[r] = "pending" /\ kind[r] = "message"
  BY CarriedRowsArePending
<1>2. run[w].snap = Pending /\ Pending \subseteq Rows /\ run[w].eligible \subseteq Nat
  BY Ranges DEF MayAdopt, SelectionStillCurrent, RunsFit, Pending
<1>3. r \in Nat /\ s \in Nat
  BY <1>1, Ranges DEF Switches, Pending
<1>4. CASE r \in lease.receipt
  BY <1>1, <1>4 DEF BehindSwitchWaits, WriterRows
<1>5. CASE r \notin lease.receipt
  <2>1. r \in Messages(Adoption(w).rows, kind)
    BY <1>1, <1>5 DEF CarriedRows, NewlyAdopted, Messages
  <2>2. s \in Switches(run[w].eligible, kind)
    BY <1>2 DEF SelectionsFit, Switches, Modes
  <2>3. r < s
    BY <1>2, <2>1, <2>2, BoundaryFits DEF Adoption, AtBoundary
  <2> QED BY <1>3, <2>3
<1> QED BY <1>4, <1>5

(* What a successor carries may be taken on.                               *)
LEMMA CarriedRowsMayBeTakenOn ==
    ASSUME PInv, NEW w \in Workers, MayAdopt(w), NoAck
    PROVE  MayTakeOn(CarriedRows(w))
<1>1. /\ CarriedRows(w) \in SUBSET Rows
      /\ \A r \in CarriedRows(w) : fate[r] = "pending" /\ kind[r] = "message"
  BY CarriedRowsArePending DEF PInv
<1>2. Pending' = Pending
  BY DEF NoAck, Pending
<1> QED BY <1>1, <1>2, CarriedRowsWaitForNone DEF MayTakeOn, CarriedRows

(* A successor's reservation.                                              *)
LEMMA SuccessorBinds ==
    ASSUME PInv, NEW w \in Workers, MayAdopt(w),
           NEW role \in {"assistant", "compaction"}, NEW q \in {"ready", "compacting"},
           NEW marks, marks \subseteq run[w].marks \cup {"continuing"},
           q = "ready" <=> role = "assistant",
           q = "ready" /\ "forced" \in run[w].marks => Role(w) = "compaction",
           Bind(w, run[w].turn, role, turns[run[w].turn].mode, CarriedRows(w),
                {r \in CarriedRows(w) : kind[r] = "message"}),
           NoAck, Goto(w, q), AdoptionTail(w, turnCount + 1, marks)
    PROVE  Binds(w)
<1> USE DEF PInv, IInv
<1> DEFINE receipt == CarriedRows(w)
<1>0. run \in [Workers -> RunType] /\ pc \in [Workers -> Pcs] /\ lease \in LeaseType
  BY TypeParts DEF RunTypes, LeaseTypes
<1>1. /\ receipt \in SUBSET Rows
      /\ \A r \in receipt : fate[r] = "pending" /\ kind[r] = "message"
      /\ pc[w] \in InRun /\ Owns(w) /\ pc[w] = "adoptSelected" /\ ~lease.flag
  BY CarriedRowsArePending DEF MayAdopt
<1>2. MayTakeOn(receipt)
  BY CarriedRowsMayBeTakenOn
<1>3. {r \in receipt : kind[r] = "message"} = receipt
  BY <1>1
<1>4. turns[run[w].turn].mode \in Modes
  BY <1>1, TypeParts DEF RunsFit, TurnTypes, TurnType
<1>5. turnCount + 1 # NoTurn
  BY TypeParts, Ranges DEF TurnTypes
<1>6. lease'.receipt = receipt
  BY <1>0 DEF Bind, LeaseType
<1>7. /\ run'[w] = [run[w] EXCEPT !.turn = turnCount + 1, !.snap = {}, !.eligible = {},
                                 !.marks = marks, !.acks = lease'.receipt]
      /\ \A v \in Workers : v # w => Stays(v)
      /\ pc' = [pc EXCEPT ![w] = q]
      /\ UNCHANGED <<count, kind, decided, signals, historyVars>>
  BY <1>0, <1>5 DEF AdoptionTail, Goto, Stays
<1>8. /\ run'[w].exec = run[w].exec /\ run'[w].turn = turnCount + 1 /\ run'[w].snap = {}
      /\ run'[w].marks = marks /\ run'[w].acks = receipt
  BY <1>0, <1>6, <1>7 DEF RunType
<1>9. Ack({}, NoTurn)
  BY NoAckIsAck
<1>10. Bind(w, run[w].turn, role, turns[run[w].turn].mode, receipt, receipt)
  BY <1>3
<1> HIDE DEF receipt
<1>11. Reserves(w, run[w].turn, role, turns[run[w].turn].mode, receipt, q)
  BY <1>1, <1>2, <1>7, <1>8, <1>10 DEF Reserves
<1>12. \E c \in SUBSET Rows : (\A r \in c : kind[r] # "message") /\ Ack(c, NoTurn)
  BY <1>9
<1>13. \E settled \in {NoTurn, run[w].turn}, r \in {"assistant", "compaction"},
           mode \in Modes, rows \in SUBSET Rows, p \in {"bound", "ready", "compacting"} :
           Reserves(w, settled, r, mode, rows, p)
  BY <1>1, <1>4, <1>11
<1>14. /\ run'[w].exec = run[w].exec /\ run'[w].turn = turnCount + 1 /\ run'[w].snap = {}
       /\ run'[w].marks \subseteq run[w].marks \cup {"continuing"}
  BY <1>8
<1> QED BY <1>1, <1>7, <1>12, <1>13, <1>14 DEF Binds

(* A split, and a compaction that hands over.                              *)
LEMMA SuccessorKind ==
    ASSUME PInv, NEW w \in Workers, AdoptSplits(w) \/ CompactionHandsOver(w)
    PROVE  Binds(w)
<1>1. CASE AdoptSplits(w)
  <2> DEFINE old == run[w].marks \ {"completing", "forced"}
  <2>1. PICK compact \in BOOLEAN :
          /\ "forced" \in run[w].marks => compact
          /\ Bind(w, run[w].turn, IF compact THEN "compaction" ELSE "assistant",
                  turns[run[w].turn].mode, CarriedRows(w),
                  {r \in CarriedRows(w) : kind[r] = "message"})
          /\ NoAck
          /\ Goto(w, IF compact THEN "compacting" ELSE "ready")
          /\ AdoptionTail(w, turnCount + 1,
               (IF NewlyAdopted(w) = {} THEN old ELSE old \ {"retried"})
                  \cup (IF compact THEN {"continuing"} ELSE {}))
    BY <1>1 DEF AdoptSplits
  <2> DEFINE role == IF compact THEN "compaction" ELSE "assistant"
             q == IF compact THEN "compacting" ELSE "ready"
             marks == (IF NewlyAdopted(w) = {} THEN old ELSE old \ {"retried"})
                         \cup (IF compact THEN {"continuing"} ELSE {})
  <2>2. MayAdopt(w)
    BY <1>1 DEF AdoptSplits
  <2>3. role \in {"assistant", "compaction"} /\ q \in {"ready", "compacting"}
        /\ (q = "ready" <=> role = "assistant")
        /\ (q = "ready" => "forced" \notin run[w].marks)
    BY <2>1
  <2>4. marks \subseteq run[w].marks \cup {"continuing"}
    OBVIOUS
  <2> HIDE DEF role, q, marks
  <2>5. /\ Bind(w, run[w].turn, role, turns[run[w].turn].mode, CarriedRows(w),
                {r \in CarriedRows(w) : kind[r] = "message"})
        /\ NoAck /\ Goto(w, q) /\ AdoptionTail(w, turnCount + 1, marks)
    BY <2>1 DEF role, q, marks
  <2> QED BY <2>2, <2>3, <2>4, <2>5, SuccessorBinds
<1>2. CASE CompactionHandsOver(w)
  <2> DEFINE marks == IF NewlyAdopted(w) = {} THEN run[w].marks ELSE run[w].marks \ {"retried"}
  <2>1. /\ MayAdopt(w) /\ marks \subseteq run[w].marks \cup {"continuing"}
        /\ Role(w) = "compaction"
    BY <1>2 DEF CompactionHandsOver, CompactionContinues
  <2>2. /\ Bind(w, run[w].turn, "assistant", turns[run[w].turn].mode, CarriedRows(w),
                {r \in CarriedRows(w) : kind[r] = "message"})
        /\ NoAck /\ Goto(w, "ready") /\ AdoptionTail(w, turnCount + 1, marks)
    BY <1>2 DEF CompactionHandsOver
  <2> HIDE DEF marks
  <2> QED BY <2>1, <2>2, SuccessorBinds
<1> QED BY <1>1, <1>2

(* The terminal write, and a compaction that ends the execution.           *)
LEMMA SettleKind ==
    ASSUME IInv, NEW w \in Workers, Close(w) \/ CloseReply(w) \/ CompactionEnds(w)
    PROVE  Settles(w)
<1> USE DEF IInv
<1>1. CASE Close(w) \/ CloseReply(w)
  <2> DEFINE turn == run[w].turn
             status == IF Open(turn) THEN CloseCause(w) ELSE turns[turn].status
             answered == Owns(w) /\ turns[turn].role = "assistant" /\ status \in {"cancelled", "error"}
  <2>1. pc[w] \in InRun /\ SettleTerminal(w)
    BY <1>1 DEF Close, CloseReply, InRun, LoopPcs
  <2>2. turn \in Turns /\ Role(w) = turns[turn].role
    BY <2>1, Ranges DEF RunsFit, Role
  <2>3. /\ turns' = [turns EXCEPT ![turn].status = status]
        /\ IF answered THEN Ack(lease.receipt, turn) ELSE NoAck
        /\ EndExecution(w) /\ LeaveRun(w)
        /\ UNCHANGED <<count, kind, turnCount, aiMode, decided, signals, faults, historyVars>>
    BY <2>1 DEF SettleTerminal
  <2>4. status \in {"none", "complete", "error", "cancelled"}
    BY <2>2, TypeParts DEF Open, CloseCause, TurnTypes, TurnType
  <2>5. status = "cancelled" /\ Open(turn) => Aborted(w) \/ pc[w] = "exitCancelled" \/ lease.flag
    BY DEF CloseCause
  <2>6. ~Open(turn) => status = turns[turn].status
    OBVIOUS
  <2> HIDE DEF status
  <2>7. \/ NoAck
        \/ /\ Owns(w) /\ Role(w) = "assistant" /\ status \in {"cancelled", "error"}
           /\ Ack(lease.receipt, turn)
    BY <2>2, <2>3
  <2> QED BY <2>1, <2>3, <2>4, <2>5, <2>6, <2>7 DEF Settles, EndExecution
<1>2. CASE CompactionEnds(w)
  <2>1. /\ pc[w] \in InRun /\ Owns(w) /\ Role(w) = "compaction"
        /\ turns' = [turns EXCEPT ![run[w].turn].status = "complete"]
        /\ EndExecution(w) /\ LeaveRun(w) /\ NoAck
        /\ UNCHANGED <<inboxVars, turnCount, aiMode, decided, signals, faults, historyVars>>
    BY <1>2 DEF CompactionEnds, MayAdopt, InRun, LoopPcs, NoAck, inboxVars
  <2> QED BY <2>1 DEF Settles, EndExecution, inboxVars
<1> QED BY <1>1, <1>2

(* A process's step is of one of the kinds.                                *)
LEMMA ProcessStepHasAKind ==
    ASSUME PInv, NEW w \in Workers,
           StartStep(w) \/ LoopStep(w) \/ FaultStep(w) \/ Heartbeat(w)
             \/ \E e \in Execs : AbortLocally(w, e)
    PROVE  StepKinds
<1> USE DEF PInv, StepKinds
<1>0. TypeOK
  BY DEF IInv
<1>1. CASE StartStep(w)
  <2>1. CASE Claim(w)
    BY <1>0, <2>1, WakingRests
  <2>2. CASE RepairOrphans(w)
    BY <2>2
  <2>3. CASE EndStale(w) \/ NoPendingWake(w) \/ StartLost(w)
    BY <2>3, FreeKind
  <2>4. CASE InsertLease(w)
    BY <2>4, OpenKind
  <2>5. CASE SelectStart(w) \/ ReselectStart(w)
    BY <1>0, <2>5, SelectingRests
  <2>6. CASE CommitStart(w) \/ SwitchAndStart(w)
    BY <2>6, StartKind
  <2> QED BY <1>1, <2>1, <2>2, <2>3, <2>4, <2>5, <2>6 DEF StartStep
<1>2. CASE LoopStep(w)
  <2>1. CASE LoopMoves(w)
    BY <1>0, <2>1, LoopMovesRest
  <2>2. CASE SelectAdoption(w) \/ ReselectAdoption(w)
    BY <1>0, <2>2, SelectingRests
  <2>3. CASE Respond(w)
    BY <2>3
  <2>4. CASE Close(w) \/ CloseReply(w) \/ CompactionEnds(w)
    BY <2>4, SettleKind
  <2>5. CASE AdoptNothing(w) \/ AdoptWithoutLease(w)
    BY <2>5, AdoptingNothingRests
  <2>6. CASE AdoptSplits(w) \/ CompactionHandsOver(w)
    BY <2>6, SuccessorKind
  <2>7. CASE CompactionFails(w)
    BY <2>7
  <2> QED BY <1>2, <2>1, <2>2, <2>3, <2>4, <2>5, <2>6, <2>7 DEF LoopStep, LoopMoves
<1>3. CASE FaultStep(w)
  <2>1. CASE SetupFails(w)
    BY <2>1, FreeKind
  <2>2. CASE Crash(w)
    BY <1>0, <2>2, LeavingRests DEF Crash, turnVars
  <2>3. CASE LoseSession(w)
    BY <1>0, <2>3, WakingRests
  <2>4. CASE Abandon(w)
    BY <1>0, <2>4, ExpiringRests
  <2> QED BY <1>3, <2>1, <2>2, <2>3, <2>4 DEF FaultStep
<1>4. CASE Heartbeat(w) \/ \E e \in Execs : AbortLocally(w, e)
  BY <1>4, AbortingRests
<1> QED BY <1>1, <1>2, <1>3, <1>4

(* So is every step.                                                       *)
LEMMA StepHasAKind == PInv /\ Next => StepKinds
<1> SUFFICES ASSUME PInv, Next PROVE StepKinds
  OBVIOUS
<1> USE DEF PInv
<1>0. TypeOK
  BY DEF IInv
<1>1. CASE Client
  <2>1. CASE SendMessage \/ RequestCompaction \/ \E mode \in Modes : RequestSwitch(mode)
    BY <2>1, EnqueueKind DEF StepKinds
  <2>2. CASE \E r \in Rows : WithdrawControl(r)
    BY <2>2, WithdrawKind DEF StepKinds
  <2>3. CASE \E q \in Requests, ids \in SUBSET WriterRows : HandBack(q, ids)
    BY <2>3, DecideKind DEF StepKinds
  <2>4. CASE \E q \in Requests, seen \in 0 .. count, e \in {NoExecution} \cup ShownExecs :
               \E mine \in SUBSET {r \in WriterRows : r > seen} : PressStop(q, seen, e, mine)
    <3>1. \E q \in Requests : \E seen, e, mine : PressStop(q, seen, e, mine)
      BY <2>4
    <3> QED BY <3>1, DecideKind DEF StepKinds
  <2>5. CASE \E q \in Requests : ReplayStop(q)
    BY <1>0, <2>5, WakingRests DEF StepKinds
  <2>6. CASE \E seen \in 0 .. count, e \in ShownExecs :
               \E waiting \in SUBSET {r \in WriterRows : r <= seen} : SendNow(seen, e, waiting)
    <3>1. PICK seen \in 0 .. count, e \in ShownExecs :
            \E waiting \in SUBSET {r \in WriterRows : r <= seen} : SendNow(seen, e, waiting)
      BY <2>6
    <3>2. PICK waiting \in SUBSET {r \in WriterRows : r <= seen} : SendNow(seen, e, waiting)
      BY <3>1
    <3>3. seen \in Nat /\ waiting \in SUBSET Rows
      BY DEF WriterRows
    <3>4. \E n \in Nat : \E x : \E y \in SUBSET Rows : SendNow(n, x, y)
      BY <3>2, <3>3
    <3> QED BY <3>4, FlagKind DEF StepKinds
  <2>7. CASE \E t \in Turns : CancelTurn(t)
    BY <2>7, FlagKind DEF StepKinds
  <2> QED BY <1>1, <2>1, <2>2, <2>3, <2>4, <2>5, <2>6, <2>7 DEF Client
<1>2. CASE ExpireLease
  BY <1>0, <1>2, ExpiringRests DEF StepKinds
<1> QED BY <1>1, <1>2, ProcessStepHasAKind DEF Next

-------------------------------------------------------------------------------
(* What the kinds do to the rows and to the receipt.                       *)

(* A pending row may settle; nothing else happens to the inbox.            *)
RowsSettle ==
    /\ UNCHANGED <<count, kind>>
    /\ \A r \in Rows : \/ fate'[r] = fate[r]
                       \/ fate[r] = "pending" /\ fate'[r] \in {"delivered", "handedBack"}

(* The receipt does not grow, and a message that is answered was in it.    *)
AnswersHeld ==
    /\ RowsSettle
    /\ lease'.receipt \subseteq lease.receipt
    /\ \A r \in WriterRows : fate'[r] = "delivered" => fate[r] = "delivered" \/ r \in lease.receipt

(* An acknowledgement settles the rows it names.                           *)
LEMMA AckSettles ==
    ASSUME NEW rows, NEW t, Ack(rows, t), UNCHANGED <<count, kind>>
    PROVE  /\ RowsSettle
           /\ \A r \in Rows : r \notin rows => fate'[r] = fate[r] /\ deliveredBy'[r] = deliveredBy[r]
           /\ \A r \in rows \cap Rows : fate[r] = "pending" => fate'[r] = "delivered"
BY DEF Ack, RowsSettle

(* A lease row that is gone, and one that was just inserted.               *)
LEMMA BlankLease ==
    /\ NoLease.exec = NoExecution /\ NoLease.holder = NoWorker /\ NoLease.turn = NoTurn
    /\ NoLease.receipt = {} /\ NoLease.flag = FALSE /\ NoLease.expired = FALSE
BY DEF NoLease

(* A lease row that was just inserted is bound to nothing.                 *)
LEMMA FreshLease ==
    ASSUME NEW w \in Workers, Opens(w)
    PROVE  /\ lease'.exec = FreshExec /\ lease'.holder = w /\ lease'.turn = NoTurn
           /\ lease'.receipt = {} /\ lease'.flag = FALSE /\ lease'.expired = FALSE
<1>1. lease' = [NoLease EXCEPT !.exec = FreshExec, !.holder = w]
  BY DEF Opens
<1> HIDE DEF FreshExec
<1> QED BY <1>1 DEF NoLease

(* A decision touches neither the turns nor the processes.                 *)
LEMMA Deciding ==
    ASSUME Decides
    PROVE  /\ UNCHANGED <<count, kind, deliveredBy, turnCount, turns, pc, run, answers>>
           /\ \E q \in Requests, cancels \in {NoExecution, lease.exec},
                 back, gone, answered \in SUBSET Rows :
                 /\ decided' = [decided EXCEPT ![q] =
                       [decided |-> TRUE, handBack |-> back, gone |-> gone,
                        answered |-> answered, cancels |-> cancels]]
                 /\ fate' = [r \in Rows |-> IF r \in back /\ fate[r] = "pending"
                                            THEN "handedBack" ELSE fate[r]]
                 /\ lease' = [lease EXCEPT !.receipt = lease.receipt \ back,
                       !.flag = lease.flag \/ (cancels # NoExecution /\ cancels = lease.exec)]
                 /\ CancelExecution(cancels, Rows \ answered)
                 /\ \A r \in back \cap lease.receipt : /\ cancels # NoExecution
                                                       /\ turns[lease.turn].role = "compaction"
                 /\ cancels # NoExecution => Carried /\ SparesLater(Rows \ answered)
<1>1. PICK q \in Requests, cancels \in {NoExecution, lease.exec}, back \in SUBSET Rows,
           gone \in SUBSET Rows, answered \in SUBSET Rows :
        /\ ApplyHandBack(q, [handBack |-> back, gone |-> gone, answered |-> answered], cancels)
        /\ \A r \in back \cap lease.receipt : /\ cancels # NoExecution
                                              /\ turns[lease.turn].role = "compaction"
        /\ cancels # NoExecution => Carried /\ SparesLater(Rows \ answered)
  BY DEF Decides
<1> DEFINE d == [handBack |-> back, gone |-> gone, answered |-> answered]
<1>2. d.handBack = back /\ d.gone = gone /\ d.answered = answered /\ ApplyHandBack(q, d, cancels)
  BY <1>1
<1> HIDE DEF d
<1>3. /\ decided' = [decided EXCEPT ![q] =
            [decided |-> TRUE, handBack |-> back, gone |-> gone,
             answered |-> answered, cancels |-> cancels]]
      /\ fate' = [r \in Rows |-> IF r \in back /\ fate[r] = "pending" THEN "handedBack" ELSE fate[r]]
      /\ lease' = [lease EXCEPT !.receipt = lease.receipt \ back,
            !.flag = lease.flag \/ (cancels # NoExecution /\ cancels = lease.exec)]
      /\ CancelExecution(cancels, Rows \ answered)
      /\ UNCHANGED <<count, kind, deliveredBy, turnVars, claim, procVars, faults, answers>>
  BY <1>2 DEF ApplyHandBack
<1> QED BY <1>1, <1>3 DEF turnVars, procVars

(* Only a client's row, a reservation and a failed summary do more.        *)
LEMMA RestsAnswersHeld ==
    ASSUME TypeOK, Rests \/ Flags \/ \E w \in Workers : Frees(w) \/ Opens(w)
    PROVE  AnswersHeld /\ fate' = fate
<1>1. lease \in LeaseType
  BY TypeParts DEF LeaseTypes
<1>2. UNCHANGED <<count, kind, fate>>
  BY DEF Rests, Flags, Frees, Opens, inboxVars
<1>3. lease'.receipt \subseteq lease.receipt
  <2>1. CASE Rests
    BY <1>1, <2>1 DEF Rests, LeaseType
  <2>2. CASE Flags
    BY <1>1, <2>2 DEF Flags, LeaseType
  <2>3. CASE \E w \in Workers : Frees(w) \/ Opens(w)
    <3>1. lease'.receipt = {}
      BY <2>3, BlankLease, FreshLease DEF Frees
    <3> QED BY <3>1
  <2> QED BY <2>1, <2>2, <2>3
<1> QED BY <1>2, <1>3 DEF AnswersHeld, RowsSettle

(* Withdrawing a control answers no message.                               *)
LEMMA WithdrawAnswersHeld ==
    ASSUME Withdraws
    PROVE  AnswersHeld
<1>1. PICK r \in Rows : kind[r] # "message" /\ Ack({r}, NoTurn)
  BY DEF Withdraws
<1>2. UNCHANGED <<count, kind>> /\ lease' = lease
  BY DEF Withdraws
<1> QED BY <1>1, <1>2, AckSettles DEF AnswersHeld, WriterRows

(* A decision hands rows back, and answers none.                           *)
LEMMA DecideAnswersHeld ==
    ASSUME TypeOK, Decides
    PROVE  AnswersHeld
<1>1. PICK back \in SUBSET Rows :
        /\ fate' = [r \in Rows |-> IF r \in back /\ fate[r] = "pending" THEN "handedBack" ELSE fate[r]]
        /\ \E flag : lease' = [lease EXCEPT !.receipt = lease.receipt \ back, !.flag = flag]
        /\ UNCHANGED <<count, kind>>
  BY Deciding
<1>2. lease'.receipt \subseteq lease.receipt
  BY <1>1, TypeParts DEF LeaseTypes, LeaseType
<1> QED BY <1>1, <1>2 DEF AnswersHeld, RowsSettle, WriterRows

(* A process answers from the receipt only.                                *)
LEMMA ProcessAnswersHeld ==
    ASSUME TypeOK, NEW w \in Workers, RepairOrphans(w) \/ Respond(w) \/ Settles(w)
    PROVE  AnswersHeld
<1>1. lease \in LeaseType
  BY TypeParts DEF LeaseTypes
<1>2. UNCHANGED <<count, kind>>
  BY DEF RepairOrphans, Respond, Settles
<1>3. \/ NoAck
      \/ \E t : Ack(lease.receipt, t)
  BY DEF RepairOrphans, Respond, ClearReceipt, Settles
<1>4. RowsSettle /\ \A r \in Rows : r \notin lease.receipt => fate'[r] = fate[r]
  <2>1. CASE NoAck
    BY <1>2, <2>1 DEF NoAck, RowsSettle
  <2>2. CASE \E t : Ack(lease.receipt, t)
    BY <1>2, <2>2, AckSettles
  <2> QED BY <1>3, <2>1, <2>2
<1>5. lease'.receipt \subseteq lease.receipt
  <2>1. \/ lease' = lease \/ lease' = NoLease \/ lease' = [lease EXCEPT !.receipt = {}]
        \/ lease' = [lease EXCEPT !.turn = NoTurn, !.receipt = {}]
    BY DEF RepairOrphans, Respond, ClearReceipt, Settles
  <2>2. lease'.receipt = lease.receipt \/ lease'.receipt = {}
    BY <1>1, <2>1, BlankLease DEF LeaseType
  <2> QED BY <2>2
<1> QED BY <1>4, <1>5 DEF AnswersHeld, WriterRows

(* A reservation acknowledges controls only.                               *)
LEMMA BindingSettles ==
    ASSUME TypeOK, NEW w \in Workers, Binds(w)
    PROVE  RowsSettle /\ \A r \in WriterRows : fate'[r] = fate[r] /\ deliveredBy'[r] = deliveredBy[r]
<1>1. PICK c \in SUBSET Rows : (\A r \in c : kind[r] # "message") /\ Ack(c, NoTurn)
  BY DEF Binds
<1>2. UNCHANGED <<count, kind>>
  BY DEF Binds
<1> QED BY <1>1, <1>2, AckSettles DEF WriterRows

(* What a reservation does to the lease row.                               *)
LEMMA BindingLease ==
    ASSUME TypeOK, NEW w \in Workers, Binds(w)
    PROVE  /\ MayTakeOn(lease'.receipt) /\ lease'.turn = turnCount + 1 /\ turnCount + 1 \in Turns
           /\ lease'.exec = lease.exec /\ lease'.flag = lease.flag /\ lease'.holder = lease.holder
           /\ lease'.expired = lease.expired /\ turnCount' = turnCount + 1
<1>1. PICK settled \in {NoTurn, run[w].turn}, role \in {"assistant", "compaction"},
           mode \in Modes, receipt \in SUBSET Rows, q \in {"bound", "ready", "compacting"} :
        Reserves(w, settled, role, mode, receipt, q)
  BY DEF Binds
<1>2. lease' = [lease EXCEPT !.turn = turnCount + 1, !.receipt = receipt] /\ MayTakeOn(receipt)
      /\ turnCount < MaxTurns /\ turnCount' = turnCount + 1
  BY <1>1 DEF Reserves, Bind
<1>3. lease \in LeaseType /\ turnCount \in 0 .. MaxTurns
  BY TypeParts DEF LeaseTypes, TurnTypes
<1> QED BY <1>2, <1>3, Ranges DEF LeaseType

(* A failed summary answers what it carried, and ends its execution.       *)
LEMMA FailingSettles ==
    ASSUME IInv, NEW w \in Workers, CompactionFails(w)
    PROVE  /\ RowsSettle /\ lease' = NoLease
           /\ MayAdopt(w) /\ Ack(CarriedRows(w), turnCount + 1)
           /\ \A r \in Rows : r \notin CarriedRows(w) => fate'[r] = fate[r]
           /\ \A r \in CarriedRows(w) : r \in Rows /\ fate'[r] = "delivered"
<1>1. /\ MayAdopt(w) /\ Ack(CarriedRows(w), turnCount + 1) /\ UNCHANGED <<count, kind>>
      /\ EndExecution(w)
  BY DEF CompactionFails, CompactionContinues
<1>2. CarriedRows(w) \in SUBSET Rows /\ \A r \in CarriedRows(w) : fate[r] = "pending"
  BY <1>1, CarriedRowsArePending
<1> QED BY <1>1, <1>2, AckSettles DEF EndExecution, MayAdopt

-------------------------------------------------------------------------------
(* The invariant is kept, part by part.                                    *)

(* Rows are enqueued in order, one after the other.                        *)
LEMMA RowsStayInOrder ==
    ASSUME IInv, RowsInOrder, StepKinds
    PROVE  RowsInOrder'
<1> USE DEF IInv
<1>1. CASE RowsSettle
  BY <1>1 DEF RowsSettle, RowsInOrder
<1>2. CASE Enqueues
  <2>1. PICK k \in {"message", "compact"} \cup Modes, s \in {"pending", "delivered"},
             settled \in SUBSET Switches(Pending, kind) : NewRow(k, s, settled)
    BY <1>2 DEF Enqueues
  <2>2. count' = count + 1 /\ count \in Nat
    BY <2>1, TypeParts, Ranges DEF NewRow, RowTypes
  <2>3. ASSUME NEW r \in Rows, r > count'
        PROVE  kind'[r] = "absent" /\ fate'[r] = "absent"
    <3>1. r > count /\ r # count + 1
      BY <2>2, <2>3, Ranges
    <3>2. kind[r] = "absent" /\ fate[r] = "absent"
      BY <3>1 DEF RowsInOrder
    <3>3. r \notin settled
      BY <2>1, <3>2 DEF Switches, Modes
    <3> QED BY <2>1, <3>1, <3>2, <3>3, TypeParts DEF NewRow, RowTypes
  <2> QED BY <2>3 DEF RowsInOrder
<1>3. RowsSettle \/ Enqueues
  BY RestsAnswersHeld, WithdrawAnswersHeld, DecideAnswersHeld, ProcessAnswersHeld,
     BindingSettles, FailingSettles DEF StepKinds, AnswersHeld
<1> QED BY <1>1, <1>2, <1>3

(* The receipt goes with the turn, and both with the execution.            *)
LEMMA IdleLeaseStaysBlank ==
    ASSUME IInv, IdleLeaseIsBlank, StepKinds
    PROVE  IdleLeaseIsBlank'
<1> USE DEF IInv, IdleLeaseIsBlank
<1>0. lease \in LeaseType
  BY TypeParts DEF LeaseTypes
<1>1. CASE lease' = lease \/ lease' = NoLease
  BY <1>1 DEF NoLease
<1>2. CASE Rests
  BY <1>0, <1>1, <1>2 DEF Rests, LeaseType
<1>3. CASE Enqueues \/ Withdraws
  BY <1>1, <1>3 DEF Enqueues, Withdraws
<1>4. CASE Decides
  <2>2. PICK cancels \in {NoExecution, lease.exec}, back \in SUBSET Rows :
          lease' = [lease EXCEPT !.receipt = lease.receipt \ back,
                               !.flag = lease.flag \/ (cancels # NoExecution /\ cancels = lease.exec)]
    BY <1>4, Deciding
  <2>3. lease'.exec = lease.exec /\ lease'.turn = lease.turn /\ lease'.receipt \subseteq lease.receipt
    BY <1>0, <2>2 DEF LeaseType
  <2>4. CASE lease.exec = NoExecution
    <3>1. lease = NoLease /\ lease.receipt \ back = {} /\ lease.flag = FALSE
      BY <2>4 DEF NoLease
    <3>2. cancels = NoExecution
      BY <2>4
    <3>3. lease' = [NoLease EXCEPT !.receipt = {}, !.flag = FALSE]
      BY <2>2, <3>1, <3>2
    <3>4. lease' = NoLease
      BY <3>3 DEF NoLease
    <3> QED BY <1>1, <3>4
  <2> QED BY <2>3, <2>4
<1>5. CASE Flags
  BY <1>0, <1>5 DEF Flags, LeaseType
<1>6. ASSUME NEW w \in Workers, RepairOrphans(w) PROVE IdleLeaseIsBlank'
  <2>1. CASE Open(lease.turn)
    <3>1. lease.exec # NoExecution /\ lease.turn # NoTurn
      BY <2>1, Ranges DEF OpenTurnsFit, OpenTurnHasItsLease, Open
    <3>2. lease' = [lease EXCEPT !.turn = NoTurn, !.receipt = {}]
      BY <1>6, <2>1, <3>1 DEF RepairOrphans
    <3> QED BY <1>0, <3>1, <3>2 DEF LeaseType
  <2>2. CASE ~Open(lease.turn)
    <3>1. lease' = lease
      BY <1>6, <2>2 DEF RepairOrphans
    <3> QED BY <1>1, <3>1
  <2> QED BY <2>1, <2>2
<1>7. ASSUME NEW w \in Workers, Frees(w) \/ Settles(w) \/ CompactionFails(w) PROVE IdleLeaseIsBlank'
  BY <1>1, <1>7, FailingSettles DEF Frees, Settles
<1>8. ASSUME NEW w \in Workers, Opens(w) PROVE IdleLeaseIsBlank'
  <2>1. lease' = [NoLease EXCEPT !.exec = FreshExec, !.holder = w] /\ FreshExec # NoExecution
    BY <1>8, FreshExecIsAnExecution DEF Opens
  <2> QED BY <2>1 DEF NoLease
<1>9. ASSUME NEW w \in Workers, Binds(w) PROVE IdleLeaseIsBlank'
  BY <1>9, BindingLease, Ranges DEF Binds, Owns
<1>10. ASSUME NEW w \in Workers, Respond(w) PROVE IdleLeaseIsBlank'
  <2>1. lease' = lease \/ (Owns(w) /\ lease' = [lease EXCEPT !.receipt = {}])
    BY <1>10 DEF Respond, ClearReceipt
  <2> QED BY <1>0, <1>1, <2>1 DEF Owns, LeaseType
<1> QED BY <1>2, <1>3, <1>4, <1>5, <1>6, <1>7, <1>8, <1>9, <1>10 DEF StepKinds

(* A process's own step keeps its selection, drops it or makes it anew.    *)
LEMMA ProcessSelections ==
    ASSUME TypeOK, \/ Rests
                   \/ \E w \in Workers : \/ RepairOrphans(w) \/ Frees(w) \/ Opens(w) \/ Binds(w)
                                         \/ Respond(w) \/ Settles(w) \/ CompactionFails(w)
    PROVE  \A v \in Workers : SelectionMoves(v)
<1>0. run \in [Workers -> RunType] /\ pc \in [Workers -> Pcs]
  BY TypeParts DEF RunTypes
<1>1. \A v \in Workers : RunMoves(v) => SelectionMoves(v)
  BY DEF RunMoves, Leaves, SelectionMoves, NoRun
<1>2. CASE Rests
  BY <1>1, <1>2 DEF Rests
<1>3. ASSUME NEW w \in Workers, Frees(w) \/ Settles(w) \/ CompactionFails(w)
      PROVE  \A v \in Workers : SelectionMoves(v)
  BY <1>0, <1>1, <1>3, LeavingMoves DEF Frees, Settles, CompactionFails, SelectionMoves
<1>4. ASSUME NEW w \in Workers, RepairOrphans(w) PROVE \A v \in Workers : SelectionMoves(v)
  BY <1>4 DEF RepairOrphans, SelectionMoves
<1>5. ASSUME NEW w \in Workers, Opens(w) \/ Respond(w) PROVE \A v \in Workers : SelectionMoves(v)
  <2>1. \E e, a, m : run' = [run EXCEPT ![w] = [run[w] EXCEPT !.exec = e, !.acks = a, !.marks = m]]
    <3>1. CASE Opens(w)
      <4>1. run' = [run EXCEPT ![w] = [run[w] EXCEPT !.exec = FreshExec, !.acks = run[w].acks,
                                                     !.marks = run[w].marks]]
        BY <1>0, <3>1 DEF Opens, RunType
      <4> QED BY <4>1
    <3>2. CASE Respond(w)
      <4>1. PICK c \in BOOLEAN :
              run' = [run EXCEPT ![w].acks = {},
                                 ![w].marks = IF c THEN @ \cup {"completing"} ELSE @]
        BY <3>2 DEF Respond
      <4>2. run' = [run EXCEPT ![w] = [run[w] EXCEPT !.exec = run[w].exec, !.acks = {},
                       !.marks = IF c THEN run[w].marks \cup {"completing"} ELSE run[w].marks]]
        BY <1>0, <4>1 DEF RunType
      <4> QED BY <4>2
    <3> QED BY <1>5, <3>1, <3>2
  <2>2. PICK e, a, m :
          run' = [run EXCEPT ![w] = [run[w] EXCEPT !.exec = e, !.acks = a, !.marks = m]]
    BY <2>1
  <2>3. /\ run'[w].snap = run[w].snap /\ run'[w].eligible = run[w].eligible
        /\ \A v \in Workers : v # w => run'[v] = run[v]
    BY <1>0, <2>2 DEF RunType
  <2> QED BY <2>3 DEF SelectionMoves
<1>6. ASSUME NEW w \in Workers, Binds(w) PROVE \A v \in Workers : SelectionMoves(v)
  BY <1>6 DEF Binds, SelectionMoves, Stays
<1> QED BY <1>2, <1>3, <1>4, <1>5, <1>6

(* Selections are still of rows that were there.                           *)
LEMMA SelectionsStayFit ==
    ASSUME IInv, SelectionsFit, StepKinds
    PROVE  SelectionsFit'
<1> USE DEF IInv
<1>1. CASE Enqueues \/ Withdraws \/ Decides \/ Flags
  <2>1. run' = run
    BY <1>1, Deciding DEF Enqueues, Withdraws, Flags, procVars
  <2>2. count' \in Nat /\ count \in Nat /\ count <= count' /\ \A r \in 1 .. count : kind'[r] = kind[r]
    <3>1. count \in 0 .. MaxRows /\ kind \in [Rows -> RowKinds \cup {"absent"}]
      BY TypeParts DEF RowTypes
    <3>2. \/ count' = count + 1 /\ count < MaxRows /\ \E k : kind' = [kind EXCEPT ![count + 1] = k]
          \/ UNCHANGED <<count, kind>>
      BY <1>1, Deciding DEF Enqueues, NewRow, Withdraws, Flags, inboxVars
    <3> QED BY <3>1, <3>2, Ranges
  <2> QED BY <2>1, <2>2 DEF SelectionsFit
<1>2. CASE ~(Enqueues \/ Withdraws \/ Decides \/ Flags)
  <2>1. \A v \in Workers : SelectionMoves(v)
    BY <1>2, ProcessSelections DEF StepKinds
  <2>2. UNCHANGED <<count, kind>>
    BY <1>2 DEF StepKinds, Rests, RepairOrphans, Frees, Opens, Binds, Respond, Settles,
                CompactionFails, inboxVars
  <2>3. Pending \subseteq 1 .. count
    BY TypeParts, Ranges DEF Pending, RowsFit, RowTypes
  <2>4. \A r \in Pending \ Eligible : kind[r] = "message"
    BY DEF Eligible, BoundRows, ReceiptIsPending
  <2> QED BY <2>1, <2>2, <2>3, <2>4 DEF SelectionsFit, SelectionMoves
<1> QED BY <1>1, <1>2

(* No step takes on, or answers, a message behind the queued switch.       *)
LEMMA RowsBehindStayWaiting ==
    ASSUME PInv, StepKinds
    PROVE  BehindSwitchWaits'
<1> USE DEF PInv, IInv
<1>1. lease.receipt \subseteq Rows /\ Rows \subseteq Nat
  BY TypeParts, Ranges DEF LeaseTypes, LeaseType
<1>2. RowsSettle => /\ Switches(Pending', kind') \subseteq Switches(Pending, kind)
                    /\ WriterRows' = WriterRows
  BY DEF RowsSettle, Switches, Pending, WriterRows
<1>3. CASE AnswersHeld
  BY <1>2, <1>3 DEF AnswersHeld, BehindSwitchWaits
<1>4. CASE Enqueues
  <2>1. PICK k \in {"message", "compact"} \cup Modes, s \in {"pending", "delivered"},
             settled \in SUBSET Switches(Pending, kind) :
          NewRow(k, s, settled) /\ (k = "message" => s = "pending")
    BY <1>4 DEF Enqueues
  <2>2. count \in Nat /\ count + 1 \in Rows /\ lease' = lease
    BY <1>4, <2>1, TypeParts, Ranges DEF NewRow, RowTypes, Enqueues
  <2>3. /\ kind'[count + 1] = k /\ \A r \in Rows : r # count + 1 => kind'[r] = kind[r]
        /\ fate'[count + 1] = s
        /\ \A r \in Rows : r # count + 1 => fate'[r] = IF r \in settled THEN "delivered" ELSE fate[r]
    BY <2>1, <2>2, TypeParts DEF NewRow, RowTypes
  <2> SUFFICES ASSUME NEW x \in Switches(Pending', kind'), NEW r \in WriterRows', r > x
               PROVE  r \notin lease.receipt /\ fate'[r] # "delivered"
    BY <2>2 DEF BehindSwitchWaits
  <2>4. x \in Rows /\ r \in Rows /\ kind'[r] = "message" /\ kind'[x] \in Modes /\ fate'[x] = "pending"
    BY DEF Switches, Pending, WriterRows
  <2>5. CASE r = count + 1
    <3>1. kind[r] # "message" /\ fate'[r] = "pending"
      BY <1>1, <2>1, <2>2, <2>3, <2>4, <2>5 DEF RowsInOrder
    <3> QED BY <3>1 DEF ReceiptIsPending
  <2>6. CASE r # count + 1
    <3>1. kind[r] = "message" /\ r \notin settled /\ fate'[r] = fate[r]
      BY <2>3, <2>4, <2>6 DEF Switches, Modes
    <3>2. r < count + 1
      BY <1>1, <2>2, <2>4, <2>6, <3>1 DEF RowsInOrder
    <3>3. x # count + 1
      <4>1. r \in Nat /\ count \in Nat /\ r > x /\ r < count + 1
        BY <1>1, <2>2, <2>4, <3>2
      <4> QED BY <4>1
    <3>4. x \in Switches(Pending, kind)
      BY <2>3, <2>4, <3>3 DEF Switches, Pending
    <3> QED BY <2>4, <3>1, <3>4 DEF BehindSwitchWaits, WriterRows
  <2> QED BY <2>5, <2>6
<1>5. ASSUME NEW w \in Workers, Binds(w) PROVE BehindSwitchWaits'
  <2>1. RowsSettle /\ \A r \in WriterRows : fate'[r] = fate[r]
    BY <1>5, BindingSettles
  <2>2. \A r \in lease'.receipt, s \in Switches(Pending', kind) : ~(r > s)
    BY <1>5, BindingLease DEF MayTakeOn
  <2> QED BY <1>2, <2>1, <2>2 DEF BehindSwitchWaits, RowsSettle
<1>6. ASSUME NEW w \in Workers, CompactionFails(w) PROVE BehindSwitchWaits'
  <2>1. /\ RowsSettle /\ lease' = NoLease /\ MayAdopt(w)
        /\ \A r \in Rows : r \notin CarriedRows(w) => fate'[r] = fate[r]
    BY <1>6, FailingSettles
  <2>2. \A r \in CarriedRows(w), s \in Switches(Pending, kind) : ~(r > s)
    BY <2>1, CarriedRowsWaitForNone
  <2>3. lease'.receipt = {}
    BY <2>1 DEF NoLease
  <2> QED BY <1>2, <2>1, <2>2, <2>3 DEF BehindSwitchWaits, WriterRows
<1> QED BY <1>3, <1>4, <1>5, <1>6, RestsAnswersHeld, WithdrawAnswersHeld, DecideAnswersHeld,
           ProcessAnswersHeld DEF StepKinds

(* It holds initially and is kept.                                         *)
LEMMA InitPInv == Init => PInv
<1> SUFFICES ASSUME Init PROVE PInv
  OBVIOUS
<1>1. IInv
  BY InitInv
<1>2. lease = NoLease /\ \A w \in Workers : run[w] = NoRun
  BY DEF Init
<1>3. RowsInOrder /\ BehindSwitchWaits
  BY DEF Init, RowsInOrder, BehindSwitchWaits, Switches, Pending
<1>4. IdleLeaseIsBlank /\ SelectionsFit
  BY <1>2 DEF IdleLeaseIsBlank, SelectionsFit, NoLease, NoRun
<1> QED BY <1>1, <1>3, <1>4 DEF PInv

(* Every step keeps the invariant.                                         *)
LEMMA NextKeepsPInv == PInv /\ [Next]_vars => PInv'
<1> SUFFICES ASSUME PInv, [Next]_vars PROVE PInv'
  OBVIOUS
<1> USE DEF PInv
<1>1. IInv'
  BY NextKeepsInv
<1>2. CASE Next
  <2>1. StepKinds
    BY <1>2, StepHasAKind
  <2> QED BY <1>1, <2>1, RowsStayInOrder, IdleLeaseStaysBlank, SelectionsStayFit,
             RowsBehindStayWaiting
<1>3. CASE UNCHANGED vars
  <2>1. UNCHANGED <<count, kind, fate, lease, run>>
    BY <1>3 DEF vars, inboxVars, leaseVars, procVars
  <2> QED BY <1>1, <2>1 DEF RowsInOrder, IdleLeaseIsBlank, SelectionsFit, BehindSwitchWaits,
             Switches, Pending, WriterRows
<1> QED BY <1>2, <1>3

(* It holds of every run.                                                  *)
LEMMA PInvHolds == Spec => []PInv
BY InitPInv, NextKeepsPInv, PTL DEF Spec

(* A message behind the queued switch is in no receipt and delivered by no *)
(* reply: it waits until the switch applies or is taken back.              *)
THEOREM BehindSwitchWaitsIsInvariant == Spec => []BehindSwitchWaits
<1>1. PInv => BehindSwitchWaits
  BY DEF PInv
<1> QED BY <1>1, PInvHolds, PTL

-------------------------------------------------------------------------------
(* The promise.                                                            *)

(* What MessageFate sees of a row.                                         *)
Seen(r) ==
    /\ kind[r] # "message" => MessageState[r] = "unsent"
    /\ kind[r] = "message" =>
          /\ fate[r] = "delivered" => MessageState[r] = "answered"
          /\ fate[r] = "handedBack" => MessageState[r] = "handedBack"
          /\ fate[r] \in {"absent", "pending"} =>
                MessageState[r] = IF r \in lease.receipt THEN "taken" ELSE "waiting"

(* It sees every row, before and after a step.                             *)
LEMMA RowsAreSeen ==
    ASSUME NEW r \in Rows
    PROVE  Seen(r) /\ Seen(r)'
<1>1. Seen(r)
  BY DEF Seen, MessageState
<1>2. Seen(r)'
  BY DEF Seen, MessageState
<1> QED BY <1>1, <1>2

(* What it sees as taken on is the receipt, and the rest that is pending   *)
(* waits.                                                                  *)
LEMMA TakenIsReceipt ==
    ASSUME IInv
    PROVE  /\ Promise!In("taken") = lease.receipt
           /\ \A r \in Rows : kind[r] = "message" /\ fate[r] = "pending" /\ r \notin lease.receipt
                                => r \in Promise!In("waiting")
           /\ \A r \in Rows : r > count /\ RowsInOrder => r \in Promise!In("unsent")
<1> USE DEF IInv
<1>1. lease.receipt \subseteq Rows
  BY TypeParts DEF LeaseTypes, LeaseType
<1>2. \A r \in Rows : Seen(r) /\ fate[r] \in {"absent", "pending", "delivered", "handedBack"}
  BY RowsAreSeen, TypeParts DEF RowTypes
<1>3. ASSUME NEW r \in Rows PROVE MessageState[r] = "taken" <=> r \in lease.receipt
  BY <1>2, <1>3 DEF Seen, ReceiptIsPending
<1>4. ASSUME NEW r \in Rows, kind[r] = "message", fate[r] = "pending", r \notin lease.receipt
      PROVE  MessageState[r] = "waiting"
  BY <1>2, <1>4 DEF Seen
<1>5. ASSUME NEW r \in Rows, r > count, RowsInOrder
      PROVE  MessageState[r] = "unsent"
  BY <1>2, <1>5 DEF Seen, RowsInOrder
<1> QED BY <1>1, <1>3, <1>4, <1>5 DEF Promise!In

(* A move of messages, row by row.                                         *)
LEMMA MovesRowByRow ==
    ASSUME NEW ms, NEW to,
           \A r \in Rows : MessageState'[r] = IF r \in ms THEN to ELSE MessageState[r]
    PROVE  Promise!Move(ms, to)
BY DEF Promise!Move, MessageState

(* Nothing moved.                                                          *)
LEMMA NothingMoves ==
    ASSUME UNCHANGED <<kind, fate>>, lease'.receipt = lease.receipt
    PROVE  MessageState' = MessageState
BY DEF MessageState

(* The row that a client writes is one more message, or none.              *)
LEMMA EnqueuedIsSent ==
    ASSUME PInv, Enqueues
    PROVE  (\E m \in Rows : Promise!Send(m)) \/ UNCHANGED Promise!vars
<1> USE DEF PInv, IInv
<1>1. PICK k \in {"message", "compact"} \cup Modes, s \in {"pending", "delivered"},
           settled \in SUBSET Switches(Pending, kind) :
        NewRow(k, s, settled) /\ (k = "message" => s = "pending")
  BY DEF Enqueues
<1>2. count \in Nat /\ count + 1 \in Rows /\ lease' = lease
  BY <1>1, TypeParts, Ranges DEF NewRow, RowTypes, Enqueues
<1>3. /\ kind'[count + 1] = k /\ \A r \in Rows : r # count + 1 => kind'[r] = kind[r]
      /\ fate'[count + 1] = s
      /\ \A r \in Rows : r # count + 1 => fate'[r] = IF r \in settled THEN "delivered" ELSE fate[r]
  BY <1>1, <1>2, TypeParts DEF NewRow, RowTypes
<1>4. \A r \in settled : kind[r] # "message"
  BY DEF Switches, Modes
<1>5. ASSUME NEW r \in Rows, r # count + 1 PROVE MessageState'[r] = MessageState[r]
  <2>1. kind[r] = "message" => fate'[r] = fate[r]
    BY <1>3, <1>4, <1>5
  <2> QED BY <1>2, <1>3, <1>5, <2>1, RowsAreSeen, TypeParts DEF Seen, RowTypes
<1>6. count + 1 \in Promise!In("unsent") /\ MessageState[count + 1] = "unsent"
  <2>1. count + 1 \in Promise!In("unsent")
    BY <1>2, TakenIsReceipt
  <2> QED BY <2>1 DEF Promise!In
<1>7. CASE k = "message"
  <2>1. count + 1 \notin lease.receipt
    BY <1>2, Ranges DEF ReceiptIsPending, RowsInOrder
  <2>2. MessageState'[count + 1] = "waiting"
    BY <1>1, <1>2, <1>3, <1>7, <2>1, RowsAreSeen DEF Seen
  <2>3. Promise!Move({count + 1}, "waiting")
    BY <1>5, <2>2, MovesRowByRow
  <2> QED BY <1>2, <1>6, <2>3 DEF Promise!Send
<1>8. CASE k # "message"
  <2>1. MessageState'[count + 1] = "unsent"
    BY <1>2, <1>3, <1>8, RowsAreSeen DEF Seen
  <2>2. \A r \in Rows : MessageState'[r] = MessageState[r]
    BY <1>5, <1>6, <2>1
  <2>3. MessageState' = MessageState
    BY <2>2 DEF MessageState
  <2> QED BY <1>2, <2>3 DEF Promise!vars
<1> QED BY <1>7, <1>8

(* A decision hands back what waits; what was taken on only with a cancel. *)
LEMMA DecisionIsPromised ==
    ASSUME PInv, Decides
    PROVE  \E ms \in SUBSET Rows : Promise!HandBack(ms) \/ Promise!StopExecution(ms)
<1> USE DEF PInv, IInv
<1>1. PICK cancels \in {NoExecution, lease.exec}, back \in SUBSET Rows :
        /\ fate' = [r \in Rows |-> IF r \in back /\ fate[r] = "pending" THEN "handedBack" ELSE fate[r]]
        /\ lease' = [lease EXCEPT !.receipt = lease.receipt \ back,
              !.flag = lease.flag \/ (cancels # NoExecution /\ cancels = lease.exec)]
        /\ \A r \in back \cap lease.receipt : cancels # NoExecution
        /\ UNCHANGED <<count, kind>>
  BY Deciding
<1>2. lease \in LeaseType
  BY TypeParts DEF LeaseTypes
<1>3. /\ lease'.receipt = lease.receipt \ back /\ lease'.exec = lease.exec
      /\ lease'.flag = (lease.flag \/ (cancels # NoExecution /\ cancels = lease.exec))
  BY <1>1, <1>2 DEF LeaseType
<1> DEFINE ms == {r \in back : kind[r] = "message" /\ fate[r] = "pending"}
<1>4. Promise!Move(ms, "handedBack")
  <2>1. ASSUME NEW r \in Rows
        PROVE  MessageState'[r] = IF r \in ms THEN "handedBack" ELSE MessageState[r]
    <3>1. CASE r \in ms
      BY <1>1, <3>1, RowsAreSeen DEF Seen
    <3>2. CASE r \notin ms
      <4>1. kind[r] = "message" => fate'[r] = fate[r]
        BY <1>1, <3>2
      <4>2. kind[r] = "message" /\ fate[r] = "pending" => r \notin back
        BY <3>2
      <4>3. r \in lease'.receipt <=> (r \in lease.receipt /\ r \notin back)
        BY <1>3
      <4>4. r \in lease.receipt => kind[r] = "message" /\ fate[r] = "pending"
        BY DEF ReceiptIsPending
      <4>5. r \in lease'.receipt <=> r \in lease.receipt
        BY <4>2, <4>3, <4>4
      <4> QED BY <1>1, <3>2, <4>1, <4>5, RowsAreSeen, TypeParts DEF Seen, RowTypes
    <3> QED BY <3>1, <3>2
  <2> HIDE DEF ms
  <2> QED BY <2>1, MovesRowByRow
<1>5. ms \subseteq Rows /\ \A r \in ms : r \in Promise!In("taken") \/ r \in Promise!In("waiting")
  BY TakenIsReceipt
<1>6. CASE cancels = NoExecution
  <2>1. ms \subseteq Promise!In("waiting")
    BY <1>1, <1>5, <1>6, TakenIsReceipt
  <2>2. lease'.flag = lease.flag
    BY <1>2, <1>3, <1>6 DEF LeaseType
  <2> QED BY <1>3, <1>4, <1>5, <2>1, <2>2 DEF Promise!HandBack
<1>7. CASE cancels # NoExecution
  <2>1. lease'.flag = TRUE /\ lease.exec # NoExecution
    BY <1>1, <1>3, <1>7
  <2> QED BY <1>3, <1>4, <1>5, <2>1 DEF Promise!StopExecution
<1> QED BY <1>6, <1>7

(* A command that only flags hands nothing back.                           *)
LEMMA FlagIsPromised ==
    ASSUME PInv, Flags
    PROVE  Promise!StopExecution({})
<1> USE DEF PInv, IInv
<1>1. lease \in LeaseType /\ lease' = [lease EXCEPT !.flag = TRUE] /\ lease.exec # NoExecution
      /\ UNCHANGED <<kind, fate>>
  BY TypeParts DEF LeaseTypes, Flags, inboxVars
<1>2. lease'.exec = lease.exec /\ lease'.flag = TRUE /\ lease'.receipt = lease.receipt
  BY <1>1 DEF LeaseType
<1>3. MessageState' = MessageState
  BY <1>1, <1>2, NothingMoves
<1>4. Promise!Move({}, "handedBack")
  BY <1>3, MovesRowByRow
<1> QED BY <1>1, <1>2, <1>4 DEF Promise!StopExecution

(* An acknowledged receipt is answered, with what was adopted besides.     *)
LEMMA ReceiptIsAnswered ==
    ASSUME IInv, NEW more, more \subseteq Promise!In("waiting"), NEW t,
           NEW rows, rows = lease.receipt \cup more,
           Ack(rows, t), kind' = kind, lease'.receipt = {},
           \A r \in rows : kind[r] = "message" /\ fate[r] = "pending"
    PROVE  Promise!Move(Promise!In("taken") \cup more, "answered")
<1> USE DEF IInv
<1>1. Promise!In("taken") = lease.receipt
  BY TakenIsReceipt
<1>2. rows \subseteq Rows
  BY TypeParts DEF LeaseTypes, LeaseType, Promise!In
<1>3. ASSUME NEW r \in Rows
      PROVE  MessageState'[r] = IF r \in rows THEN "answered" ELSE MessageState[r]
  <2>1. CASE r \in rows
    BY <2>1, RowsAreSeen DEF Seen, Ack
  <2>2. CASE r \notin rows
    BY <2>2, RowsAreSeen, TypeParts DEF Seen, Ack, RowTypes
  <2> QED BY <2>1, <2>2
<1> QED BY <1>1, <1>3, MovesRowByRow

(* A receipt that is dropped unacknowledged waits again.                   *)
LEMMA ReceiptIsReturned ==
    ASSUME IInv, UNCHANGED <<fate, kind>>, lease'.receipt = {}
    PROVE  Promise!Move(Promise!In("taken"), "waiting")
<1> USE DEF IInv
<1>1. Promise!In("taken") = lease.receipt
  BY TakenIsReceipt
<1>2. ASSUME NEW r \in Rows
      PROVE  MessageState'[r] = IF r \in lease.receipt THEN "waiting" ELSE MessageState[r]
  <2>1. CASE r \in lease.receipt
    BY <2>1, RowsAreSeen DEF Seen, ReceiptIsPending
  <2>2. CASE r \notin lease.receipt
    BY <2>2, RowsAreSeen, TypeParts DEF Seen, RowTypes
  <2> QED BY <2>1, <2>2
<1> QED BY <1>1, <1>2, MovesRowByRow

(* A dead reply's receipt is answered, a dead compaction's waits again.    *)
LEMMA RepairIsPromised ==
    ASSUME PInv, NEW w \in Workers, RepairOrphans(w)
    PROVE  Promise!AnswerAll \/ Promise!ReturnAll \/ UNCHANGED Promise!vars
<1> USE DEF PInv, IInv
<1>1. lease \in LeaseType /\ kind' = kind
  BY TypeParts DEF LeaseTypes, RepairOrphans
<1>2. CASE Open(lease.turn)
  <2>1. lease.exec # NoExecution /\ lease.turn # NoTurn
    BY <1>2, Ranges DEF OpenTurnsFit, OpenTurnHasItsLease, Open
  <2>2. lease' = [lease EXCEPT !.turn = NoTurn, !.receipt = {}]
    BY <1>2, <2>1 DEF RepairOrphans
  <2>3. lease'.receipt = {} /\ lease'.exec = lease.exec /\ lease'.flag = lease.flag
    BY <1>1, <2>2 DEF LeaseType
  <2>4. Ack(lease.receipt, lease.turn) \/ NoAck
    BY <1>2, <2>1 DEF RepairOrphans
  <2>5. CASE Ack(lease.receipt, lease.turn)
    <3>1. Promise!Move(Promise!In("taken") \cup {}, "answered")
      BY <1>1, <2>3, <2>5, ReceiptIsAnswered DEF ReceiptIsPending
    <3> QED BY <2>1, <2>3, <3>1 DEF Promise!AnswerAll
  <2>6. CASE NoAck
    BY <1>1, <2>1, <2>3, <2>6, ReceiptIsReturned DEF NoAck, Promise!ReturnAll
  <2> QED BY <2>4, <2>5, <2>6
<1>3. CASE ~Open(lease.turn)
  <2>1. lease' = lease /\ NoAck
    BY <1>3 DEF RepairOrphans
  <2> QED BY <1>1, <2>1, NothingMoves DEF NoAck, Promise!vars
<1> QED BY <1>2, <1>3

(* A response that acknowledges answers everything that was taken on.      *)
LEMMA ResponseIsPromised ==
    ASSUME PInv, NEW w \in Workers, Respond(w)
    PROVE  Promise!AnswerAll \/ UNCHANGED Promise!vars
<1> USE DEF PInv, IInv
<1>1. lease \in LeaseType /\ kind' = kind
  BY TypeParts DEF LeaseTypes, Respond
<1>2. CASE run[w].acks = {}
  <2>1. lease' = lease /\ NoAck
    BY <1>2 DEF Respond
  <2> QED BY <1>1, <2>1, NothingMoves DEF NoAck, Promise!vars
<1>3. CASE run[w].acks # {}
  <2>1. /\ lease' = [lease EXCEPT !.receipt = {}] /\ lease.exec # NoExecution
        /\ Ack(lease.receipt, run[w].turn)
    BY <1>3 DEF Respond, ClearReceipt, Owns
  <2>2. lease'.receipt = {} /\ lease'.exec = lease.exec /\ lease'.flag = lease.flag
    BY <1>1, <2>1 DEF LeaseType
  <2>3. Promise!Move(Promise!In("taken") \cup {}, "answered")
    BY <1>1, <2>1, <2>2, ReceiptIsAnswered DEF ReceiptIsPending
  <2> QED BY <2>1, <2>2, <2>3 DEF Promise!AnswerAll
<1> QED BY <1>2, <1>3

(* The execution ends: with its receipt answered, or waiting again; and a  *)
(* failed summary's end answers what it had just adopted, too.             *)
LEMMA EndIsPromised ==
    ASSUME PInv, NEW w \in Workers, Frees(w) \/ Settles(w) \/ CompactionFails(w)
    PROVE  (\E ms \in SUBSET Rows : Promise!CloseExecution(ms)) \/ UNCHANGED Promise!vars
<1> USE DEF PInv, IInv
<1>1. kind' = kind
  BY DEF Frees, Settles, CompactionFails, inboxVars
<1>2. CASE lease' = lease
  <2>1. fate' = fate
    <3>1. CASE Frees(w)
      BY <3>1 DEF Frees, inboxVars
    <3>2. CASE Settles(w)
      <4>1. NoAck \/ Owns(w)
        BY <3>2 DEF Settles
      <4>2. ~Owns(w)
        BY <1>2, <3>2, BlankLease DEF Settles, Owns
      <4> QED BY <4>1, <4>2 DEF NoAck
    <3>3. CASE CompactionFails(w)
      <4>1. lease' = NoLease /\ Owns(w)
        BY <3>3, FailingSettles DEF MayAdopt
      <4> QED BY <1>2, <4>1, BlankLease DEF Owns
    <3> QED BY <3>1, <3>2, <3>3
  <2> QED BY <1>1, <1>2, <2>1, NothingMoves DEF Promise!vars
<1>3. CASE lease' # lease
  <2>1. lease' = NoLease
    BY <1>3, FailingSettles DEF Frees, Settles
  <2>2. lease'.exec = NoExecution /\ lease'.flag = FALSE /\ lease'.receipt = {}
    BY <2>1, BlankLease
  <2>3. lease.exec # NoExecution
    BY <1>3, <2>1 DEF IdleLeaseIsBlank
  <2>4. CASE NoAck \/ fate' = fate
    <3>1. Promise!Move(Promise!In("taken"), "waiting")
      BY <1>1, <2>2, <2>4, ReceiptIsReturned DEF NoAck
    <3> QED BY <2>2, <2>3, <3>1 DEF Promise!CloseExecution
  <2>5. CASE \E t : Ack(lease.receipt, t)
    <3>1. Promise!Move(Promise!In("taken") \cup {}, "answered")
      BY <1>1, <2>2, <2>5, ReceiptIsAnswered DEF ReceiptIsPending
    <3> QED BY <2>2, <2>3, <3>1 DEF Promise!CloseExecution
  <2>6. CASE CompactionFails(w)
    <3>1. MayAdopt(w) /\ Ack(CarriedRows(w), turnCount + 1)
      BY <2>6, FailingSettles
    <3>2. /\ CarriedRows(w) \in SUBSET Rows
          /\ \A r \in CarriedRows(w) : fate[r] = "pending" /\ kind[r] = "message"
      BY <3>1, CarriedRowsArePending
    <3> DEFINE more == CarriedRows(w) \ lease.receipt
    <3>3. more \subseteq Promise!In("waiting") /\ more \in SUBSET Rows
      BY <3>2, TakenIsReceipt
    <3>4. CarriedRows(w) = lease.receipt \cup more
      BY DEF CarriedRows
    <3> HIDE DEF more
    <3>5. Promise!Move(Promise!In("taken") \cup more, "answered")
      BY <1>1, <2>2, <3>1, <3>2, <3>3, <3>4, ReceiptIsAnswered
    <3>6. ~lease.flag
      BY <3>1 DEF MayAdopt
    <3> QED BY <2>2, <2>3, <3>3, <3>5, <3>6 DEF Promise!CloseExecution
  <2> QED BY <2>4, <2>5, <2>6 DEF Frees, Settles, inboxVars
<1> QED BY <1>2, <1>3

(* A reservation takes on what it adds to the receipt, and nothing when    *)
(* the execution is flagged.                                               *)
LEMMA BindingIsPromised ==
    ASSUME PInv, NEW w \in Workers, Binds(w)
    PROVE  \E ms \in SUBSET Rows : Promise!TakeOn(ms)
<1> USE DEF PInv, IInv
<1>1. /\ MayTakeOn(lease'.receipt) /\ lease'.exec = lease.exec /\ lease'.flag = lease.flag
      /\ lease.exec # NoExecution /\ ~lease.flag /\ kind' = kind
  BY BindingLease DEF Binds, Owns
<1>2. /\ lease'.receipt \subseteq Rows /\ lease.receipt \subseteq lease'.receipt
      /\ \A r \in lease'.receipt : fate[r] = "pending" /\ kind[r] = "message"
  BY <1>1 DEF MayTakeOn
<1>3. \A r \in WriterRows : fate'[r] = fate[r]
  BY BindingSettles
<1> DEFINE ms == lease'.receipt \ lease.receipt
<1>4. ms \in SUBSET Rows /\ ms \subseteq Promise!In("waiting")
  BY <1>2, TakenIsReceipt
<1>5. ASSUME NEW r \in Rows
      PROVE  MessageState'[r] = IF r \in ms THEN "taken" ELSE MessageState[r]
  <2>1. CASE r \in ms
    <3>1. fate'[r] = "pending" /\ kind'[r] = "message" /\ r \in lease'.receipt
      BY <1>1, <1>2, <1>3, <2>1 DEF WriterRows
    <3> QED BY <2>1, <3>1, RowsAreSeen DEF Seen
  <2>2. CASE r \notin ms
    <3>1. r \in lease'.receipt <=> r \in lease.receipt
      BY <1>2, <2>2
    <3>2. kind[r] = "message" => fate'[r] = fate[r]
      BY <1>3 DEF WriterRows
    <3> HIDE DEF ms
    <3> QED BY <1>1, <2>2, <3>1, <3>2, RowsAreSeen, TypeParts DEF Seen, RowTypes
  <2> QED BY <2>1, <2>2
<1> HIDE DEF ms
<1>6. Promise!Move(ms, "taken")
  BY <1>5, MovesRowByRow
<1> QED BY <1>1, <1>4, <1>6 DEF Promise!TakeOn

(* Every kind of step is one of the promise's, or none.                    *)
LEMMA StepIsPromised == PInv /\ Next => [Promise!Next]_(Promise!vars)
<1> SUFFICES ASSUME PInv, Next PROVE Promise!Next \/ UNCHANGED Promise!vars
  OBVIOUS
<1> USE DEF PInv, IInv
<1>0. lease \in LeaseType
  BY TypeParts DEF LeaseTypes
<1>1. CASE Rests \/ Withdraws
  <2>1. /\ kind' = kind /\ lease'.receipt = lease.receipt
        /\ lease'.exec = lease.exec /\ lease'.flag = lease.flag
    BY <1>0, <1>1 DEF Rests, Withdraws, LeaseType, inboxVars
  <2>2. \A r \in Rows : kind[r] = "message" => fate'[r] = fate[r]
    <3>1. CASE Rests
      BY <3>1 DEF Rests, inboxVars
    <3>2. CASE Withdraws
      <4>1. PICK c \in Rows : kind[c] # "message" /\ Ack({c}, NoTurn)
        BY <3>2 DEF Withdraws
      <4> QED BY <4>1 DEF Ack
    <3> QED BY <1>1, <3>1, <3>2
  <2>3. ASSUME NEW r \in Rows PROVE MessageState'[r] = MessageState[r]
    BY <2>1, <2>2, RowsAreSeen, TypeParts DEF Seen, RowTypes
  <2>4. MessageState' = MessageState
    BY <2>3 DEF MessageState
  <2> QED BY <2>1, <2>4 DEF Promise!vars
<1>2. CASE Enqueues
  BY <1>2, EnqueuedIsSent DEF Promise!Next
<1>3. CASE Decides
  BY <1>3, DecisionIsPromised DEF Promise!Next
<1>4. CASE Flags
  BY <1>4, FlagIsPromised DEF Promise!Next
<1>5. ASSUME NEW w \in Workers, RepairOrphans(w) \/ Respond(w)
      PROVE  Promise!Next \/ UNCHANGED Promise!vars
  BY <1>5, RepairIsPromised, ResponseIsPromised DEF Promise!Next
<1>6. ASSUME NEW w \in Workers, Frees(w) \/ Settles(w) \/ CompactionFails(w)
      PROVE  Promise!Next \/ UNCHANGED Promise!vars
  BY <1>6, EndIsPromised DEF Promise!Next
<1>7. ASSUME NEW w \in Workers, Binds(w) PROVE Promise!Next
  BY <1>7, BindingIsPromised DEF Promise!Next
<1>8. ASSUME NEW w \in Workers, Opens(w) PROVE Promise!Next
  <2>1. /\ lease.exec = NoExecution /\ lease'.exec = FreshExec /\ lease'.flag = FALSE
        /\ lease'.receipt = {} /\ UNCHANGED <<kind, fate>>
    BY <1>8, FreshLease DEF Opens, inboxVars
  <2>2. FreshExec \in Execs
    BY <1>8, FreshExecIsAnExecution DEF Opens
  <2>3. lease.receipt = {}
    BY <2>1, BlankLease DEF IdleLeaseIsBlank
  <2>4. MessageState' = MessageState
    BY <2>1, <2>3, NothingMoves
  <2>5. Promise!OpenExecution(FreshExec)
    BY <2>1, <2>4 DEF Promise!OpenExecution
  <2> QED BY <2>2, <2>5 DEF Promise!Next
<1>9. StepKinds
  BY StepHasAKind
<1> QED BY <1>1, <1>2, <1>3, <1>4, <1>5, <1>6, <1>7, <1>8, <1>9 DEF StepKinds

(* The delivery path keeps MessageFate's promise about every message: it   *)
(* waits, is taken on by the one open execution that nothing has stopped,  *)
(* and ends answered or handed back, once.                                 *)
THEOREM KeepsPromiseHolds == Spec => KeepsPromise
<1>1. Init => Promise!Init
  <2> SUFFICES ASSUME Init PROVE Promise!Init
    OBVIOUS
  <2>1. lease.exec = NoExecution /\ lease.flag = FALSE
    BY BlankLease DEF Init
  <2>2. MessageState = [r \in Rows |-> "unsent"]
    BY DEF Init, MessageState
  <2> QED BY <2>1, <2>2 DEF Promise!Init
<1>2. UNCHANGED vars => UNCHANGED Promise!vars
  <2> SUFFICES ASSUME UNCHANGED vars PROVE UNCHANGED Promise!vars
    OBVIOUS
  <2>1. UNCHANGED <<kind, fate, lease>>
    BY DEF vars, inboxVars, leaseVars
  <2> QED BY <2>1, NothingMoves DEF Promise!vars
<1>3. PInv /\ [Next]_vars => [Promise!Next]_(Promise!vars)
  BY <1>2, StepIsPromised
<1> QED BY <1>1, <1>3, PInvHolds, PTL DEF Spec, KeepsPromise, Promise!Spec
===============================================================================
