--------------------------- MODULE RunDeliveryProofs ---------------------------
(***************************************************************************)
(* The delivery path keeps its lease, its turns and its receipts straight  *)
(* for every number of processes, rows, turns and faults, whatever the     *)
(* clients send and wherever a live holder misses its renewals.            *)
(***************************************************************************)
EXTENDS RunDelivery, InboxSelectionProofs

BeforeLease == {"idle", "repair", "endStale", "insert"}
InSetup == {"starting", "selected"}
InRun == LoopPcs \cup Exits

(* Rows: only enqueued rows are pending, and no instance of this module    *)
(* enqueues a notice or an answer.                                         *)
RowsFit ==
    \A r \in Rows : /\ fate[r] = "pending" => r <= count
                    /\ kind[r] \notin {"notice", "answer"}

(* Execution numbers never run ahead of the turns.                         *)
ExecutionsFit ==
    /\ \A t \in Turns : turns[t].exec <= t
    /\ lease.exec <= turnCount + 1

(* An unsettled turn was reserved, by an execution.                        *)
OpenTurnsFit ==
    \A t \in Turns : Open(t) => t <= turnCount /\ turns[t].exec # NoExecution

(* A process has an execution once it inserted a lease, and a turn once it *)
(* reserved one; what it selected was pending when it looked.              *)
RunsFit ==
    \A w \in Workers : /\ pc[w] \in BeforeLease => run[w].exec = NoExecution
                       /\ pc[w] \in InRun => run[w].turn \in Turns
                       /\ run[w].eligible \subseteq run[w].snap

(* The owner of the lease row knows what it is bound to: nothing before    *)
(* the reservation, and then its own turn, unless a repair has settled it. *)
OwnersFit ==
    \A w \in Workers : Owns(w) =>
        /\ pc[w] \in InSetup => lease.turn = NoTurn
        /\ pc[w] \in InRun => /\ lease.turn \in {NoTurn, run[w].turn}
                              /\ turns[run[w].turn].mode = aiMode

IInv ==
    /\ TypeOK
    /\ RowsFit
    /\ ExecutionsFit
    /\ OpenTurnsFit
    /\ RunsFit
    /\ OwnersFit
    /\ OpenTurnHasItsLease
    /\ ReplyKeepsItsMode
    /\ ReceiptIsPending
    /\ OneQueuedSwitch

-------------------------------------------------------------------------------
(* Types, in parts.                                                        *)
RowTypes ==
    /\ count \in 0 .. MaxRows
    /\ kind \in [Rows -> RowKinds \cup {"absent"}]
    /\ fate \in [Rows -> {"absent", "pending", "delivered", "handedBack"}]
    /\ deliveredBy \in [Rows -> Turns \cup {NoTurn}]

TurnType == [exec : Execs \cup {NoExecution},
             role : {"none", "assistant", "compaction"},
             status : {"none", "pending", "complete", "error", "cancelled"},
             mode : Modes, reservedFor : SUBSET Rows]

TurnTypes ==
    /\ turnCount \in 0 .. MaxTurns
    /\ turns \in [Turns -> TurnType]
    /\ aiMode \in Modes

LeaseType == [exec : Execs \cup {NoExecution}, holder : Workers \cup {NoWorker},
              turn : Turns \cup {NoTurn}, receipt : SUBSET Rows,
              flag : BOOLEAN, expired : BOOLEAN]

LeaseTypes == lease \in LeaseType /\ claim \in Workers \cup {NoWorker}

DecisionType == [decided : BOOLEAN, handBack : SUBSET Rows, gone : SUBSET Rows,
                 answered : SUBSET Rows, cancels : Execs \cup {NoExecution}]

CommandTypes ==
    /\ decided \in [Requests -> DecisionType]
    /\ signals \subseteq Execs
    /\ cancelTargets \subseteq Execs
    /\ spared \in [Execs -> SUBSET Rows]

RunType == [exec : Execs \cup {NoExecution}, turn : Turns \cup {NoTurn},
            acks : SUBSET Rows, snap : SUBSET Rows, eligible : SUBSET Rows,
            marks : SUBSET Marks]

RunTypes ==
    /\ pc \in [Workers -> Pcs]
    /\ run \in [Workers -> RunType]
    /\ faults \in 0 .. MaxFaults
    /\ answers \in [Rows -> SUBSET Turns]

(* The type invariant is the conjunction of its parts.                     *)
LEMMA TypeParts == TypeOK <=> RowTypes /\ TurnTypes /\ LeaseTypes /\ CommandTypes /\ RunTypes
BY DEF TypeOK, RowTypes, TurnTypes, LeaseTypes, CommandTypes, RunTypes, TurnType, LeaseType,
       DecisionType, RunType

(* And after a step.                                                       *)
LEMMA TypePartsNext ==
    (RowTypes /\ TurnTypes /\ LeaseTypes /\ CommandTypes /\ RunTypes)' => TypeOK'
BY DEF TypeOK, RowTypes, TurnTypes, LeaseTypes, CommandTypes, RunTypes, TurnType, LeaseType,
       DecisionType, RunType

(* The constants' ranges in plain numbers.                                 *)
LEMMA Ranges ==
    /\ MaxRows \in Nat /\ MaxTurns \in Nat /\ MaxFaults \in Nat
    /\ Rows = 1 .. MaxRows /\ Turns = 1 .. MaxTurns /\ Execs = 1 .. MaxTurns + 1
    /\ NoTurn = 0 /\ NoExecution = 0 /\ NoRow = 0 /\ NoWorker \notin Workers
BY ConstantsAssumption DEF Rows, Turns, Execs, NoTurn, NoExecution, NoRow

(* Where a process is, is one of four places.                              *)
LEMMA Places ==
    /\ Pcs = BeforeLease \cup InSetup \cup InRun
    /\ BeforeLease \cap InSetup = {} /\ BeforeLease \cap InRun = {} /\ InSetup \cap InRun = {}
BY DEF Pcs, BeforeLease, InSetup, InRun, StartPcs, LoopPcs, Exits

-------------------------------------------------------------------------------
(* Most steps are quiet: rows and turns only settle, the lease row keeps   *)
(* its execution and turn or ends with nothing left to settle, and every   *)
(* process keeps its run or leaves it.                                     *)
RowsOnlySettle ==
    /\ kind' = kind /\ count' = count
    /\ \A r \in Rows : fate'[r] = "pending" => fate[r] = "pending"

TurnsOnlySettle ==
    /\ turnCount' = turnCount /\ aiMode' = aiMode
    /\ \A t \in Turns :
          /\ turns'[t].exec = turns[t].exec /\ turns'[t].mode = turns[t].mode
          /\ turns'[t].status = "pending" => turns[t].status = "pending"

LeaseIsKept ==
    /\ lease'.exec = lease.exec /\ lease'.holder = lease.holder
    /\ lease'.turn = lease.turn

LeaseIsFreed ==
    /\ \/ lease' = NoLease
       \/ /\ lease'.exec = lease.exec /\ lease'.holder = lease.holder
          /\ lease'.turn = NoTurn
    /\ \A t \in Turns : turns'[t].status # "pending"

RunIsKept(w) ==
    \/ pc'[w] = "idle" /\ run'[w] = NoRun
    \/ /\ run'[w].exec = run[w].exec /\ run'[w].turn = run[w].turn
       /\ run'[w].eligible \subseteq run'[w].snap
       /\ pc'[w] \in BeforeLease => pc[w] \in BeforeLease
       /\ pc'[w] \in InSetup => pc[w] \in InSetup
       /\ pc'[w] \in InRun => pc[w] \in InRun

(* Rows that only settle add no switch.                                    *)
LEMMA SettlingAddsNoSwitch ==
    ASSUME RowsFit, OneQueuedSwitch, RowsOnlySettle, aiMode' = aiMode
    PROVE  RowsFit' /\ OneQueuedSwitch'
<1>1. RowsFit'
  BY DEF RowsFit, RowsOnlySettle
<1>2. Switches(Pending', kind') \subseteq Switches(Pending, kind)
  BY DEF RowsOnlySettle, Switches, Pending
<1>3. OneQueuedSwitch'
  BY <1>2 DEF OneQueuedSwitch, RowsOnlySettle
<1> QED BY <1>1, <1>3

(* A quiet step keeps everything but, perhaps, the receipt's rows.         *)
LEMMA QuietStep ==
    ASSUME IInv, TypeOK', RowsOnlySettle, TurnsOnlySettle, LeaseIsKept \/ LeaseIsFreed,
           ReceiptIsPending', \A w \in Workers : RunIsKept(w)
    PROVE  IInv'
<1> USE DEF IInv
<1>1. RowsFit' /\ OneQueuedSwitch'
  BY SettlingAddsNoSwitch DEF TurnsOnlySettle
<1>2. ExecutionsFit'
  BY Ranges, TypeParts
     DEF ExecutionsFit, TurnsOnlySettle, LeaseIsKept, LeaseIsFreed, NoLease, TurnTypes
<1>3. OpenTurnsFit' /\ ReplyKeepsItsMode'
  BY DEF OpenTurnsFit, ReplyKeepsItsMode, TurnsOnlySettle, Open
<1>4. OpenTurnHasItsLease'
  BY DEF OpenTurnHasItsLease, TurnsOnlySettle, Open, LeaseIsKept, LeaseIsFreed
<1>5. RunsFit'
  <2> SUFFICES ASSUME NEW w \in Workers
               PROVE  /\ pc'[w] \in BeforeLease => run'[w].exec = NoExecution
                      /\ pc'[w] \in InRun => run'[w].turn \in Turns
                      /\ run'[w].eligible \subseteq run'[w].snap
    BY DEF RunsFit
  <2>1. CASE pc'[w] = "idle" /\ run'[w] = NoRun
    BY <2>1, Places DEF NoRun, BeforeLease
  <2>2. CASE ~(pc'[w] = "idle" /\ run'[w] = NoRun)
    BY <2>2 DEF RunIsKept, RunsFit
  <2> QED BY <2>1, <2>2
<1>6. OwnersFit'
  <2> SUFFICES ASSUME NEW w \in Workers, Owns(w)'
               PROVE  /\ pc'[w] \in InSetup => lease'.turn = NoTurn
                      /\ pc'[w] \in InRun => /\ lease'.turn \in {NoTurn, run'[w].turn}
                                             /\ turns'[run'[w].turn].mode = aiMode'
    BY DEF OwnersFit
  <2>1. lease'.exec # NoExecution /\ lease'.exec = run'[w].exec /\ lease'.holder = w
    BY DEF Owns
  <2>2. lease' # NoLease /\ run'[w] # NoRun
    BY <2>1 DEF NoLease, NoRun
  <2>3. /\ lease'.exec = lease.exec /\ lease'.holder = lease.holder
        /\ lease'.turn \in {lease.turn, NoTurn}
    BY <2>2 DEF LeaseIsKept, LeaseIsFreed
  <2>4. /\ run'[w].exec = run[w].exec /\ run'[w].turn = run[w].turn
        /\ pc'[w] \in InSetup => pc[w] \in InSetup
        /\ pc'[w] \in InRun => pc[w] \in InRun
    BY <2>2 DEF RunIsKept
  <2>5. Owns(w)
    BY <2>1, <2>3, <2>4 DEF Owns
  <2>6. pc'[w] \in InRun => run[w].turn \in Turns
    BY <2>4 DEF RunsFit
  <2> QED BY <2>3, <2>4, <2>5, <2>6 DEF OwnersFit, TurnsOnlySettle
<1> QED BY <1>1, <1>2, <1>3, <1>4, <1>5, <1>6

-------------------------------------------------------------------------------
(* Processes that only move on.                                            *)

(* A process that keeps its run and goes where its run may go.             *)
LEMMA ProcessMoves ==
    ASSUME IInv, NEW w \in Workers, NEW q \in Pcs, NEW u \in RunType,
           pc' = [pc EXCEPT ![w] = q], run' = [run EXCEPT ![w] = u],
           u.exec = run[w].exec, u.turn = run[w].turn, u.eligible \subseteq u.snap,
           q \in BeforeLease => pc[w] \in BeforeLease,
           q \in InSetup => pc[w] \in InSetup,
           q \in InRun => pc[w] \in InRun
    PROVE  pc' \in [Workers -> Pcs] /\ run' \in [Workers -> RunType]
           /\ \A v \in Workers : RunIsKept(v)
<1> USE DEF IInv
<1>1. pc \in [Workers -> Pcs] /\ run \in [Workers -> RunType]
  BY TypeParts DEF RunTypes
<1>2. pc' \in [Workers -> Pcs] /\ run' \in [Workers -> RunType]
  BY <1>1
<1>3. RunIsKept(w)
  BY <1>1 DEF RunIsKept
<1>4. ASSUME NEW v \in Workers, v # w PROVE RunIsKept(v)
  BY <1>1, <1>4 DEF RunIsKept, RunsFit
<1> QED BY <1>2, <1>3, <1>4

(* A process that leaves its run.                                          *)
LEMMA ProcessLeaves ==
    ASSUME IInv, NEW w \in Workers, LeaveRun(w)
    PROVE  pc' \in [Workers -> Pcs] /\ run' \in [Workers -> RunType]
           /\ \A v \in Workers : RunIsKept(v)
<1> USE DEF IInv, LeaveRun, Goto
<1>1. pc \in [Workers -> Pcs] /\ run \in [Workers -> RunType]
  BY TypeParts DEF RunTypes
<1>2. NoRun \in RunType /\ "idle" \in Pcs
  BY Ranges DEF NoRun, RunType, Pcs
<1>3. pc' \in [Workers -> Pcs] /\ run' \in [Workers -> RunType]
  BY <1>1, <1>2
<1>4. RunIsKept(w)
  BY <1>1 DEF RunIsKept
<1>5. ASSUME NEW v \in Workers, v # w PROVE RunIsKept(v)
  BY <1>1, <1>5 DEF RunIsKept, RunsFit
<1> QED BY <1>3, <1>4, <1>5

(* Such a step keeps the invariant when the database does not change.      *)
LEMMA ProcessStep ==
    ASSUME IInv, UNCHANGED <<inboxVars, turnVars, lease, decided, signals, historyVars>>,
           claim' \in Workers \cup {NoWorker}, faults' \in 0 .. MaxFaults,
           pc' \in [Workers -> Pcs], run' \in [Workers -> RunType],
           \A w \in Workers : RunIsKept(w)
    PROVE  IInv'
<1> USE DEF IInv
<1>1. TypeOK'
  <2>1. RowTypes' /\ TurnTypes'
    BY TypeParts DEF RowTypes, TurnTypes, inboxVars, turnVars
  <2>2. LeaseTypes' /\ CommandTypes' /\ RunTypes'
    BY TypeParts DEF LeaseTypes, CommandTypes, RunTypes, historyVars
  <2> QED BY <2>1, <2>2, TypePartsNext
<1>2. RowsOnlySettle /\ TurnsOnlySettle /\ LeaseIsKept
  BY DEF RowsOnlySettle, TurnsOnlySettle, LeaseIsKept, inboxVars, turnVars
<1>3. ReceiptIsPending'
  BY DEF ReceiptIsPending, inboxVars
<1> QED BY <1>1, <1>2, <1>3, QuietStep

(* The wake that gets the session lock.                                    *)
LEMMA ClaimKeepsInv ==
    ASSUME IInv, NEW w \in Workers, Claim(w)
    PROVE  IInv'
<1> USE DEF IInv, Claim, Goto
<1>1. run[w] \in RunType /\ run' = [run EXCEPT ![w] = run[w]] /\ "repair" \in BeforeLease
      /\ "repair" \in Pcs /\ pc[w] \in BeforeLease
  BY TypeParts DEF RunTypes, BeforeLease, Pcs, StartPcs
<1>2. run[w].eligible \subseteq run[w].snap
  BY DEF RunsFit
<1>3. pc' \in [Workers -> Pcs] /\ run' \in [Workers -> RunType] /\ \A v \in Workers : RunIsKept(v)
  BY <1>1, <1>2, Places, ProcessMoves
<1>4. faults' \in 0 .. MaxFaults
  BY TypeParts DEF RunTypes
<1> QED BY <1>3, <1>4, ProcessStep

(* The session lock's connection drops.                                    *)
LEMMA LoseSessionKeepsInv ==
    ASSUME IInv, NEW w \in Workers, LoseSession(w)
    PROVE  IInv'
<1> USE DEF IInv, LoseSession
<1>1. pc' \in [Workers -> Pcs] /\ run' \in [Workers -> RunType] /\ faults' \in 0 .. MaxFaults
  BY TypeParts, Ranges DEF RunTypes, procVars
<1>2. \A v \in Workers : RunIsKept(v)
  BY DEF RunIsKept, RunsFit, procVars
<1> QED BY <1>1, <1>2, ProcessStep

(* A crash takes the process's memory and its session lock.                *)
LEMMA CrashKeepsInv ==
    ASSUME IInv, NEW w \in Workers, Crash(w)
    PROVE  IInv'
<1> USE DEF IInv, Crash
<1>1. claim' \in Workers \cup {NoWorker} /\ faults' \in 0 .. MaxFaults
  BY TypeParts, Ranges DEF RunTypes, LeaseTypes
<1> QED BY <1>1, ProcessLeaves, ProcessStep

(* Reading the queue, without the lock, for a start or for an adoption.    *)
LEMMA SelectionKeepsInv ==
    ASSUME IInv, NEW w \in Workers,
           SelectStart(w) \/ ReselectStart(w) \/ SelectAdoption(w) \/ ReselectAdoption(w)
    PROVE  IInv'
<1> USE DEF IInv
<1>1. PICK q \in {"starting", "selected", "adopting", "adoptSelected"}, s \in SUBSET Rows,
           e \in SUBSET Rows :
        /\ e \subseteq s
        /\ pc' = [pc EXCEPT ![w] = q]
        /\ run' = [run EXCEPT ![w].snap = s, ![w].eligible = e]
        /\ q \in InSetup => pc[w] \in InSetup
        /\ q \in InRun => pc[w] \in InRun
  <2>1. /\ Pending \in SUBSET Rows /\ Eligible \in SUBSET Rows /\ {} \in SUBSET Rows
        /\ Eligible \subseteq Pending /\ {} \subseteq Pending
    BY DEF Pending, Eligible
  <2>2. /\ "starting" \in InSetup /\ "selected" \in InSetup
        /\ "starting" \notin InRun /\ "selected" \notin InRun
        /\ "adopting" \in InRun /\ "adoptSelected" \in InRun
        /\ "adopting" \notin InSetup /\ "adoptSelected" \notin InSetup
    BY DEF InSetup, InRun, LoopPcs, Exits
  <2>3. CASE SelectStart(w)
    <3>1. /\ pc' = [pc EXCEPT ![w] = "selected"]
          /\ run' = [run EXCEPT ![w].snap = Pending, ![w].eligible = Eligible]
          /\ pc[w] \in InSetup
      BY <2>2, <2>3 DEF SelectStart, Selected, Goto
    <3> QED BY <2>1, <2>2, <3>1
  <2>5. CASE SelectAdoption(w)
    <3>1. /\ pc' = [pc EXCEPT ![w] = "adoptSelected"]
          /\ run' = [run EXCEPT ![w].snap = Pending, ![w].eligible = Eligible]
          /\ pc[w] \in InRun
      BY <2>2, <2>5 DEF SelectAdoption, Selected, Goto
    <3> QED BY <2>1, <2>2, <3>1
  <2>4. CASE ReselectStart(w)
    <3>1. /\ pc' = [pc EXCEPT ![w] = "starting"]
          /\ run' = [run EXCEPT ![w].snap = {}, ![w].eligible = {}]
          /\ pc[w] \in InSetup
      BY <2>2, <2>4 DEF ReselectStart, Unselected, Goto
    <3> QED BY <2>1, <2>2, <3>1
  <2>6. CASE ReselectAdoption(w)
    <3>1. /\ pc' = [pc EXCEPT ![w] = "adopting"]
          /\ run' = [run EXCEPT ![w].snap = {}, ![w].eligible = {}]
          /\ pc[w] = "adoptSelected"
      BY <2>6 DEF ReselectAdoption, Unselected, Goto
    <3>2. pc[w] \in InRun /\ "adopting" \notin InSetup
      BY <2>2, <3>1
    <3> QED BY <2>1, <3>1, <3>2
  <2> QED BY <2>3, <2>4, <2>5, <2>6
<1> DEFINE u == [run[w] EXCEPT !.snap = s, !.eligible = e]
<1>2. run \in [Workers -> RunType]
  BY TypeParts DEF RunTypes
<1>3. /\ run' = [run EXCEPT ![w] = u] /\ u \in RunType /\ u.exec = run[w].exec
      /\ u.turn = run[w].turn /\ u.eligible \subseteq u.snap
  BY <1>1, <1>2 DEF RunType
<1> HIDE DEF u
<1>4. q \in Pcs /\ q \notin BeforeLease
  BY <1>1 DEF Pcs, StartPcs, LoopPcs, BeforeLease
<1>5. pc' \in [Workers -> Pcs] /\ run' \in [Workers -> RunType] /\ \A v \in Workers : RunIsKept(v)
  BY <1>1, <1>3, <1>4, ProcessMoves
<1>6. UNCHANGED <<inboxVars, turnVars, leaseVars, decided, signals, faults, historyVars>>
  BY DEF SelectStart, ReselectStart, SelectAdoption, ReselectAdoption
<1>7. claim' \in Workers \cup {NoWorker} /\ faults' \in 0 .. MaxFaults
  BY <1>6, TypeParts DEF LeaseTypes, RunTypes, leaseVars
<1> QED BY <1>5, <1>6, <1>7, ProcessStep DEF leaseVars

(* A loop step that leaves the database alone and may change what the run  *)
(* acknowledges or marks.                                                  *)
LoopMoves(w) ==
    \/ ReadQueued(w) \/ BeginRequest(w) \/ ResponseRefused(w) \/ Overflow(w)
    \/ StreamCancelled(w) \/ RunFails(w) \/ Boundary(w) \/ ContinueReply(w)
    \/ BeginCompaction(w) \/ AdoptionCancelled(w) \/ AdoptYields(w)

(* It stays in the loop, on its turn.                                      *)
LEMMA LoopMovesStay ==
    ASSUME IInv, NEW w \in Workers, LoopMoves(w)
    PROVE  /\ UNCHANGED <<inboxVars, turnVars, leaseVars, decided, signals, faults, historyVars>>
           /\ pc[w] \in InRun
           /\ \E q \in InRun, a \in SUBSET Rows, m \in SUBSET Marks :
                 /\ pc' = [pc EXCEPT ![w] = q]
                 /\ run' = [run EXCEPT ![w].acks = a, ![w].marks = m]
<1> USE DEF Goto
<1>1. run \in [Workers -> RunType] /\ lease \in LeaseType
  BY TypeParts DEF IInv, RunTypes, LeaseTypes
<1>2. /\ run[w].acks \in SUBSET Rows /\ run[w].marks \in SUBSET Marks
      /\ run = [run EXCEPT ![w].acks = run[w].acks, ![w].marks = run[w].marks]
  BY <1>1 DEF RunType
<1>3. UNCHANGED <<inboxVars, turnVars, leaseVars, decided, signals, faults, historyVars>>
  BY DEF LoopMoves, ReadQueued, BeginRequest, ResponseRefused, Overflow, StreamCancelled,
         RunFails, Boundary, ContinueReply, BeginCompaction, AdoptionCancelled, AdoptYields
<1>4. CASE ReadQueued(w)
  <2>1. BoundRows \in SUBSET Rows
    BY <1>1 DEF BoundRows, LeaseType
  <2>2. run' = [run EXCEPT ![w].acks = BoundRows, ![w].marks = run[w].marks]
    BY <1>1, <1>4 DEF ReadQueued, RunType
  <2>3. pc[w] \in InRun /\ "ready" \in InRun /\ pc' = [pc EXCEPT ![w] = "ready"]
    BY <1>4 DEF ReadQueued, InRun, LoopPcs
  <2> QED BY <1>2, <1>3, <2>1, <2>2, <2>3
<1>5. CASE Overflow(w)
  <2>1. pc[w] \in InRun
    BY <1>5 DEF Overflow, InRun, LoopPcs
  <2>2. CASE "retried" \in run[w].marks
    <3>1. run' = run /\ "exitFailed" \in InRun /\ pc' = [pc EXCEPT ![w] = "exitFailed"]
      BY <1>5, <2>2 DEF Overflow, InRun, Exits
    <3> QED BY <1>2, <1>3, <2>1, <3>1
  <2>3. CASE "retried" \notin run[w].marks
    <3>1. /\ {} \in SUBSET Rows
          /\ run[w].marks \cup {"retried", "forced"} \in SUBSET Marks
      BY <1>2 DEF Marks
    <3>2. "boundary" \in InRun
      BY DEF InRun, LoopPcs
    <3>3. /\ pc' = [pc EXCEPT ![w] = "boundary"]
          /\ run' = [run EXCEPT ![w].acks = {},
                                ![w].marks = run[w].marks \cup {"retried", "forced"}]
      BY <1>1, <1>5, <2>3 DEF Overflow, RunType
    <3> QED BY <1>3, <2>1, <3>1, <3>2, <3>3
  <2> QED BY <2>2, <2>3
<1>6. CASE ~ReadQueued(w) /\ ~Overflow(w)
  <2>1. run' = run /\ pc[w] \in InRun
    BY <1>6 DEF LoopMoves, BeginRequest, ResponseRefused, StreamCancelled, RunFails, Boundary,
                ContinueReply, BeginCompaction, AdoptionCancelled, AdoptYields, MayAdopt,
                InRun, LoopPcs
  <2>2. PICK q \in InRun : pc' = [pc EXCEPT ![w] = q]
    BY <1>6 DEF LoopMoves, BeginRequest, ResponseRefused, StreamCancelled, RunFails, Boundary,
                ContinueReply, BeginCompaction, AdoptionCancelled, AdoptYields,
                InRun, LoopPcs, Exits
  <2> QED BY <1>2, <1>3, <2>1, <2>2
<1> QED BY <1>4, <1>5, <1>6

(* The loop's own moves touch the process's memory only.                   *)
LEMMA LoopMovesKeepInv ==
    ASSUME IInv, NEW w \in Workers, LoopMoves(w)
    PROVE  IInv'
<1> USE DEF IInv
<1>1. PICK q \in InRun, a \in SUBSET Rows, m \in SUBSET Marks :
        /\ pc' = [pc EXCEPT ![w] = q]
        /\ run' = [run EXCEPT ![w].acks = a, ![w].marks = m]
  BY LoopMovesStay
<1> DEFINE u == [run[w] EXCEPT !.acks = a, !.marks = m]
<1>2. run \in [Workers -> RunType] /\ run[w].eligible \subseteq run[w].snap
  BY TypeParts DEF RunTypes, RunsFit
<1>3. /\ run' = [run EXCEPT ![w] = u] /\ u \in RunType /\ u.exec = run[w].exec
      /\ u.turn = run[w].turn /\ u.eligible \subseteq u.snap
  BY <1>1, <1>2 DEF RunType
<1> HIDE DEF u
<1>4. q \in Pcs /\ q \notin BeforeLease /\ q \notin InSetup
  BY Places
<1>5. pc' \in [Workers -> Pcs] /\ run' \in [Workers -> RunType] /\ \A v \in Workers : RunIsKept(v)
  BY <1>1, <1>3, <1>4, LoopMovesStay, ProcessMoves
<1>6. claim' \in Workers \cup {NoWorker} /\ faults' \in 0 .. MaxFaults
  BY LoopMovesStay, TypeParts DEF LeaseTypes, RunTypes, leaseVars
<1> QED BY <1>5, <1>6, LoopMovesStay, ProcessStep DEF leaseVars

-------------------------------------------------------------------------------
(* Flags, aborts and time: the rows and the turns stay as they are.        *)

(* A command that flags an execution keeps the types of its records.       *)
LEMMA CancelExecutionTypes ==
    ASSUME TypeOK, NEW e \in Execs \cup {NoExecution}, NEW s \in SUBSET Rows,
           CancelExecution(e, s), decided' \in [Requests -> DecisionType]
    PROVE  CommandTypes'
<1>1. CommandTypes
  BY TypeParts
<1>2. signals' \subseteq Execs /\ cancelTargets' \subseteq Execs
  BY <1>1 DEF CancelExecution, CommandTypes
<1>3. spared' \in [Execs -> SUBSET Rows]
  BY <1>1 DEF CancelExecution, CommandTypes
<1> QED BY <1>2, <1>3 DEF CommandTypes

(* A step that changes only flags of the lease row and marks of runs.      *)
LEMMA FlagStep ==
    ASSUME IInv, UNCHANGED <<inboxVars, turnVars, claim, faults, answers>>,
           lease' \in LeaseType, LeaseIsKept, lease'.receipt = lease.receipt,
           CommandTypes', pc' \in [Workers -> Pcs], run' \in [Workers -> RunType],
           \A w \in Workers : RunIsKept(w)
    PROVE  IInv'
<1> USE DEF IInv
<1>1. TypeOK'
  <2>1. RowTypes' /\ TurnTypes'
    BY TypeParts DEF RowTypes, TurnTypes, inboxVars, turnVars
  <2>2. LeaseTypes' /\ RunTypes'
    BY TypeParts DEF LeaseTypes, RunTypes
  <2> QED BY <2>1, <2>2, TypePartsNext
<1>2. RowsOnlySettle /\ TurnsOnlySettle
  BY DEF RowsOnlySettle, TurnsOnlySettle, inboxVars, turnVars
<1>3. ReceiptIsPending'
  BY DEF ReceiptIsPending, inboxVars
<1> QED BY <1>1, <1>2, <1>3, QuietStep

(* Processes that do not move, one of which may be marked.                 *)
LEMMA MarkTypes ==
    ASSUME IInv, NEW w \in Workers, NEW m \in SUBSET Marks, pc' = pc,
           run' = run \/ run' = [run EXCEPT ![w].marks = @ \cup m]
    PROVE  pc' \in [Workers -> Pcs] /\ run' \in [Workers -> RunType]
           /\ \A v \in Workers : RunIsKept(v)
<1> USE DEF IInv
<1>1. pc \in [Workers -> Pcs] /\ run \in [Workers -> RunType]
  BY TypeParts DEF RunTypes
<1> DEFINE u == [run[w] EXCEPT !.marks = @ \cup m]
<1>2. /\ u \in RunType /\ u.exec = run[w].exec /\ u.turn = run[w].turn
      /\ u.eligible = run[w].eligible /\ u.snap = run[w].snap
  BY <1>1 DEF RunType
<1>3. run' = run \/ run' = [run EXCEPT ![w] = u]
  OBVIOUS
<1> HIDE DEF u
<1>4. run' \in [Workers -> RunType]
  BY <1>1, <1>2, <1>3
<1>5. \A v \in Workers : /\ run'[v].exec = run[v].exec /\ run'[v].turn = run[v].turn
                         /\ run'[v].eligible = run[v].eligible /\ run'[v].snap = run[v].snap
  BY <1>1, <1>2, <1>3
<1>6. \A v \in Workers : RunIsKept(v)
  BY <1>5 DEF RunIsKept, RunsFit
<1> QED BY <1>1, <1>4, <1>6

(* A replayed Stop sends its abort again.                                  *)
LEMMA ReplayStopKeepsInv ==
    ASSUME IInv, NEW q \in Requests, ReplayStop(q)
    PROVE  IInv'
<1> USE DEF IInv, ReplayStop
<1>1. decided[q].cancels \in Execs
  BY TypeParts DEF CommandTypes, DecisionType
<1>2. CommandTypes'
  BY <1>1, TypeParts DEF CommandTypes, historyVars
<1>3. lease' \in LeaseType /\ LeaseIsKept /\ lease'.receipt = lease.receipt
  BY TypeParts DEF LeaseTypes, LeaseIsKept, leaseVars
<1>4. pc' \in [Workers -> Pcs] /\ run' \in [Workers -> RunType] /\ \A v \in Workers : RunIsKept(v)
  BY TypeParts DEF RunTypes, RunIsKept, RunsFit, procVars
<1> QED BY <1>2, <1>3, <1>4, FlagStep DEF leaseVars, historyVars

(* The local abort after a command.                                        *)
LEMMA AbortLocallyKeepsInv ==
    ASSUME IInv, NEW w \in Workers, NEW e \in Execs, AbortLocally(w, e)
    PROVE  IInv'
<1> USE DEF AbortLocally
<1>1. CommandTypes'
  BY TypeParts DEF IInv, CommandTypes, historyVars
<1>2. lease' \in LeaseType /\ LeaseIsKept /\ lease'.receipt = lease.receipt
  BY TypeParts DEF IInv, LeaseTypes, LeaseIsKept, leaseVars
<1>3. {"aborted"} \in SUBSET Marks
  BY DEF Marks
<1>4. pc' \in [Workers -> Pcs] /\ run' \in [Workers -> RunType] /\ \A v \in Workers : RunIsKept(v)
  BY <1>3, MarkTypes
<1> QED BY <1>1, <1>2, <1>4, FlagStep DEF leaseVars, historyVars

(* Send now and a turn's cancel flag the execution.                        *)
LEMMA SendNowKeepsInv ==
    ASSUME IInv, NEW seen \in Nat, NEW e, NEW waiting \in SUBSET Rows, SendNow(seen, e, waiting)
    PROVE  IInv'
<1> DEFINE target == DecideSendNow(Facts(SeenRows(seen, waiting)), seen, e, waiting)
           later == waiting \cup {r \in Rows : r > seen}
<1>1. target \in Execs \cup {NoExecution}
  BY TypeParts DEF IInv, LeaseTypes, LeaseType, DecideSendNow, Facts
<1>2. /\ lease' = [lease EXCEPT !.flag = TRUE] /\ CancelExecution(target, later)
      /\ UNCHANGED <<inboxVars, turnVars, claim, decided, procVars, faults, answers>>
  BY DEF SendNow
<1>3. later \in SUBSET Rows /\ decided' \in [Requests -> DecisionType]
  BY <1>2, TypeParts DEF IInv, CommandTypes
<1> HIDE DEF target, later
<1>4. CommandTypes'
  BY <1>1, <1>2, <1>3, CancelExecutionTypes DEF IInv
<1>5. lease' \in LeaseType /\ LeaseIsKept /\ lease'.receipt = lease.receipt
  BY <1>2, TypeParts DEF IInv, LeaseTypes, LeaseType, LeaseIsKept
<1>6. pc' \in [Workers -> Pcs] /\ run' \in [Workers -> RunType] /\ \A v \in Workers : RunIsKept(v)
  BY <1>2, TypeParts DEF IInv, RunTypes, RunIsKept, RunsFit, procVars
<1> QED BY <1>2, <1>4, <1>5, <1>6, FlagStep

(* The same for a turn.                                                    *)
LEMMA CancelTurnKeepsInv ==
    ASSUME IInv, NEW t \in Turns, CancelTurn(t)
    PROVE  IInv'
<1>1. /\ lease' = [lease EXCEPT !.flag = TRUE] /\ CancelExecution(lease.exec, {})
      /\ UNCHANGED <<inboxVars, turnVars, claim, decided, procVars, faults, answers>>
  BY DEF CancelTurn
<1>2. lease.exec \in Execs \cup {NoExecution} /\ decided' \in [Requests -> DecisionType]
  BY <1>1, TypeParts DEF IInv, LeaseTypes, LeaseType, CommandTypes
<1>3. CommandTypes'
  BY <1>1, <1>2, CancelExecutionTypes DEF IInv
<1>4. lease' \in LeaseType /\ LeaseIsKept /\ lease'.receipt = lease.receipt
  BY <1>1, TypeParts DEF IInv, LeaseTypes, LeaseType, LeaseIsKept
<1>5. pc' \in [Workers -> Pcs] /\ run' \in [Workers -> RunType] /\ \A v \in Workers : RunIsKept(v)
  BY <1>1, TypeParts DEF IInv, RunTypes, RunIsKept, RunsFit, procVars
<1> QED BY <1>1, <1>3, <1>4, <1>5, FlagStep

(* The lease row runs out.                                                 *)
LEMMA ExpireLeaseKeepsInv == IInv /\ ExpireLease => IInv'
<1> SUFFICES ASSUME IInv, ExpireLease PROVE IInv'
  OBVIOUS
<1>1. /\ lease' = [lease EXCEPT !.expired = TRUE]
      /\ UNCHANGED <<inboxVars, turnVars, claim, decided, procVars, signals, faults, historyVars>>
  BY DEF ExpireLease
<1>2. lease' \in LeaseType /\ LeaseIsKept /\ lease'.receipt = lease.receipt
  BY <1>1, TypeParts DEF IInv, LeaseTypes, LeaseType, LeaseIsKept
<1>3. CommandTypes'
  BY <1>1, TypeParts DEF IInv, CommandTypes, historyVars
<1>4. pc' \in [Workers -> Pcs] /\ run' \in [Workers -> RunType] /\ \A v \in Workers : RunIsKept(v)
  BY <1>1, TypeParts DEF IInv, RunTypes, RunIsKept, RunsFit, procVars
<1> QED BY <1>1, <1>2, <1>3, <1>4, FlagStep DEF historyVars

(* A heartbeat renews an owned row, and aborts a flagged or lost run.      *)
LEMMA HeartbeatKeepsInv ==
    ASSUME IInv, NEW w \in Workers, Heartbeat(w)
    PROVE  IInv'
<1>1. /\ lease' = [lease EXCEPT !.expired = FALSE] \/ lease' = lease
      /\ run' = run \/ run' = [run EXCEPT ![w].marks = @ \cup {"aborted"}]
      /\ UNCHANGED <<inboxVars, turnVars, claim, decided, pc, signals, faults, historyVars>>
  BY DEF Heartbeat
<1>2. lease' \in LeaseType /\ LeaseIsKept /\ lease'.receipt = lease.receipt
  BY <1>1, TypeParts DEF IInv, LeaseTypes, LeaseType, LeaseIsKept
<1>3. CommandTypes'
  BY <1>1, TypeParts DEF IInv, CommandTypes, historyVars
<1>4. {"aborted"} \in SUBSET Marks
  BY DEF Marks
<1>5. pc' \in [Workers -> Pcs] /\ run' \in [Workers -> RunType] /\ \A v \in Workers : RunIsKept(v)
  BY <1>1, <1>4, MarkTypes
<1> QED BY <1>1, <1>2, <1>3, <1>5, FlagStep DEF historyVars

-------------------------------------------------------------------------------
(* Commands that write rows.                                               *)

(* A new row, with the switch it settles.                                  *)
LEMMA NewRowKeepsInv ==
    ASSUME IInv, NEW k \in {"message", "compact"} \cup Modes, NEW s \in {"pending", "delivered"},
           NEW settled, settled \subseteq Switches(Pending, kind), NewRow(k, s, settled),
           UNCHANGED <<deliveredBy, turnVars, leaseVars, decided, procVars, signals, faults,
                       historyVars>>,
           k \in Modes /\ s = "pending" => k # aiMode /\ Switches(Pending, kind) = {}
    PROVE  IInv'
<1> USE DEF IInv, NewRow
<1>1. /\ count + 1 \in Rows /\ count' = count + 1 /\ count \in Nat
      /\ fate[count + 1] # "pending" /\ k \in RowKinds /\ k \notin {"notice", "answer"}
  BY TypeParts, Ranges DEF RowTypes, RowsFit, RowKinds, Modes
<1>2. RowTypes'
  <2>1. count' \in 0 .. MaxRows
    BY <1>1, Ranges
  <2>2. kind' \in [Rows -> RowKinds \cup {"absent"}]
    BY <1>1, TypeParts DEF RowTypes
  <2>3. fate' \in [Rows -> {"absent", "pending", "delivered", "handedBack"}]
    BY TypeParts DEF RowTypes
  <2>4. deliveredBy' \in [Rows -> Turns \cup {NoTurn}]
    BY TypeParts DEF RowTypes
  <2> QED BY <2>1, <2>2, <2>3, <2>4 DEF RowTypes
<1>3. TypeOK'
  <2>1. TurnTypes' /\ LeaseTypes'
    BY TypeParts DEF TurnTypes, LeaseTypes, turnVars, leaseVars
  <2>2. CommandTypes' /\ RunTypes'
    BY TypeParts DEF CommandTypes, RunTypes, procVars, historyVars
  <2> QED BY <1>2, <2>1, <2>2, TypePartsNext
<1>4. /\ kind'[count + 1] = k /\ fate'[count + 1] = s
      /\ \A r \in Rows : r # count + 1 => kind'[r] = kind[r]
      /\ \A r \in Rows : r # count + 1 =>
            fate'[r] = fate[r] \/ (r \in settled /\ fate'[r] = "delivered")
  BY <1>1, TypeParts DEF RowTypes
<1>5. RowsFit'
  <2> SUFFICES ASSUME NEW r \in Rows
               PROVE  (fate'[r] = "pending" => r <= count') /\ kind'[r] \notin {"notice", "answer"}
    BY DEF RowsFit
  <2> QED BY <1>1, <1>4, Ranges DEF RowsFit
<1>6. ReceiptIsPending'
  <2> SUFFICES ASSUME NEW r \in lease.receipt
               PROVE  fate'[r] = "pending" /\ kind'[r] = "message"
    BY DEF ReceiptIsPending, leaseVars
  <2>1. fate[r] = "pending" /\ kind[r] = "message"
    BY DEF ReceiptIsPending
  <2>2. r \in Rows
    BY TypeParts DEF LeaseTypes, LeaseType
  <2>3. r \notin settled
    BY <2>1 DEF Switches, Modes
  <2> QED BY <1>1, <1>4, <2>1, <2>2, <2>3
<1>7. OneQueuedSwitch'
  <2>1. aiMode' = aiMode
    BY DEF turnVars
  <2>2. \A q \in Switches(Pending', kind') : q = count + 1 \/ q \in Switches(Pending, kind)
    BY <1>4 DEF Switches, Pending
  <2>3. count + 1 \in Switches(Pending', kind') => k \in Modes /\ s = "pending"
    BY <1>1, <1>4 DEF Switches, Pending
  <2>4. CASE count + 1 \in Switches(Pending', kind')
    <3>1. Switches(Pending', kind') = {count + 1} /\ kind'[count + 1] # aiMode
      BY <1>4, <2>2, <2>3, <2>4
    <3> QED BY <2>1, <3>1 DEF OneQueuedSwitch
  <2>5. CASE count + 1 \notin Switches(Pending', kind')
    <3>1. \A q \in Switches(Pending', kind') : q \in Switches(Pending, kind) /\ kind'[q] = kind[q]
      BY <1>4, <2>2, <2>5 DEF Switches, Pending
    <3> QED BY <2>1, <3>1 DEF OneQueuedSwitch
  <2> QED BY <2>4, <2>5
<1>8. ExecutionsFit' /\ OpenTurnsFit' /\ OpenTurnHasItsLease' /\ ReplyKeepsItsMode'
  BY DEF ExecutionsFit, OpenTurnsFit, OpenTurnHasItsLease, ReplyKeepsItsMode, Open, turnVars, leaseVars
<1>9. RunsFit' /\ OwnersFit'
  BY DEF RunsFit, OwnersFit, Owns, procVars, turnVars, leaseVars
<1> QED BY <1>3, <1>5, <1>6, <1>7, <1>8, <1>9

(* A message, and a request to compact.                                    *)
LEMMA MessageKeepsInv == IInv /\ (SendMessage \/ RequestCompaction) => IInv'
<1> SUFFICES ASSUME IInv, SendMessage \/ RequestCompaction PROVE IInv'
  OBVIOUS
<1>1. PICK k \in {"message", "compact"} : NewRow(k, "pending", {})
  BY DEF SendMessage, RequestCompaction
<1>2. UNCHANGED <<deliveredBy, turnVars, leaseVars, decided, procVars, signals, faults,
                  historyVars>>
  BY DEF SendMessage, RequestCompaction
<1>3. k \notin Modes
  BY DEF Modes
<1> QED BY <1>1, <1>2, <1>3, NewRowKeepsInv

(* A switch request, with the switch it cancels out.                       *)
LEMMA RequestSwitchKeepsInv ==
    ASSUME IInv, NEW mode \in Modes, RequestSwitch(mode)
    PROVE  IInv'
<1> DEFINE queued == QueuedSwitch(Pending, kind)
           unchanged == IF queued = NoRow THEN aiMode = mode ELSE kind[queued] = mode
<1>1. Pending \subseteq Nat /\ NoRow \notin Pending
  BY Ranges DEF Pending
<1>2. Switches(Pending, kind) # {} => queued \in Switches(Pending, kind) /\ queued # NoRow
  <2>1. Switches(Pending, kind) # {} => queued \in Switches(Pending, kind)
    BY <1>1, QueuedSwitchIsFirst
  <2>2. NoRow \notin Switches(Pending, kind)
    BY <1>1 DEF Switches
  <2> QED BY <2>1, <2>2
<1>3. Switches(Pending, kind) = {} => queued = NoRow
  BY NoQueuedSwitch
<1>4. UNCHANGED <<deliveredBy, turnVars, leaseVars, decided, procVars, signals, faults,
                  historyVars>>
  BY DEF RequestSwitch
<1>5. IF queued # NoRow \/ unchanged
      THEN NewRow(mode, "delivered", IF unchanged THEN {} ELSE {queued})
      ELSE NewRow(mode, "pending", {})
  BY DEF RequestSwitch
<1> HIDE DEF queued
<1>6. CASE queued # NoRow \/ unchanged
  <2> DEFINE settled == IF unchanged THEN {} ELSE {queued}
  <2>1. settled \subseteq Switches(Pending, kind)
    BY <1>2, <1>3, <1>6
  <2>2. NewRow(mode, "delivered", settled)
    BY <1>5, <1>6
  <2> HIDE DEF settled, unchanged
  <2> QED BY <1>4, <2>1, <2>2, NewRowKeepsInv
<1>7. CASE ~(queued # NoRow \/ unchanged)
  <2>1. NewRow(mode, "pending", {}) /\ mode # aiMode /\ Switches(Pending, kind) = {}
    BY <1>2, <1>5, <1>7
  <2> QED BY <1>4, <2>1, NewRowKeepsInv
<1> QED BY <1>6, <1>7

(* What an acknowledgement does to the rows.                               *)
LEMMA AckTypes ==
    ASSUME TypeOK, NEW rows, NEW t \in Turns \cup {NoTurn}, Ack(rows, t),
           UNCHANGED <<count, kind>>
    PROVE  /\ RowTypes' /\ RowsOnlySettle
           /\ \A r \in Rows : r \notin rows => fate'[r] = fate[r]
<1>1. RowTypes
  BY TypeParts
<1>2. /\ fate' \in [Rows -> {"absent", "pending", "delivered", "handedBack"}]
      /\ \A r \in Rows : fate'[r] = "pending" => fate[r] = "pending"
      /\ \A r \in Rows : r \notin rows => fate'[r] = fate[r]
  BY <1>1 DEF Ack, RowTypes
<1>3. deliveredBy' \in [Rows -> Turns \cup {NoTurn}]
  BY <1>1 DEF Ack, RowTypes
<1> QED BY <1>1, <1>2, <1>3 DEF RowTypes, RowsOnlySettle

(* A control that is withdrawn before it has a turn.                       *)
LEMMA WithdrawControlKeepsInv ==
    ASSUME IInv, NEW r \in Rows, WithdrawControl(r)
    PROVE  IInv'
<1> USE DEF IInv
<1>1. /\ Ack({r}, NoTurn) /\ kind[r] # "message"
      /\ UNCHANGED <<count, kind, turnVars, leaseVars, decided, procVars, signals, faults,
                     historyVars>>
  BY DEF WithdrawControl, Controls, Modes
<1>2. RowTypes' /\ RowsOnlySettle /\ \A q \in Rows : q # r => fate'[q] = fate[q]
  BY <1>1, AckTypes
<1>3. TypeOK'
  <2>1. TurnTypes' /\ LeaseTypes'
    BY <1>1, TypeParts DEF TurnTypes, LeaseTypes, turnVars, leaseVars
  <2>2. CommandTypes' /\ RunTypes'
    BY <1>1, TypeParts DEF CommandTypes, RunTypes, procVars, historyVars
  <2> QED BY <1>2, <2>1, <2>2, TypePartsNext
<1>4. TurnsOnlySettle /\ LeaseIsKept
  BY <1>1 DEF TurnsOnlySettle, LeaseIsKept, turnVars, leaseVars
<1>5. ReceiptIsPending'
  <2>1. lease'.receipt = lease.receipt /\ lease.receipt \subseteq Rows /\ kind' = kind
    BY <1>1, TypeParts DEF leaseVars, LeaseTypes, LeaseType
  <2> QED BY <1>1, <1>2, <2>1 DEF ReceiptIsPending
<1>6. \A w \in Workers : RunIsKept(w)
  BY <1>1 DEF RunIsKept, RunsFit, procVars
<1> QED BY <1>2, <1>3, <1>4, <1>5, <1>6, QuietStep

(* A recorded decision: the rows leave the queue and the receipt at once.  *)
LEMMA ApplyHandBackKeepsInv ==
    ASSUME IInv, NEW q \in Requests, NEW d, NEW e \in Execs \cup {NoExecution},
           d.handBack \in SUBSET Rows, d.gone \in SUBSET Rows, d.answered \in SUBSET Rows,
           ApplyHandBack(q, d, e)
    PROVE  IInv'
<1> USE DEF IInv
<1>1. /\ decided' = [decided EXCEPT ![q] =
            [decided |-> TRUE, handBack |-> d.handBack, gone |-> d.gone,
             answered |-> d.answered, cancels |-> e]]
      /\ fate' = [r \in Rows |-> IF r \in d.handBack /\ fate[r] = "pending"
                                 THEN "handedBack" ELSE fate[r]]
      /\ lease' = [lease EXCEPT !.receipt = @ \ d.handBack,
                                !.flag = @ \/ (e # NoExecution /\ e = lease.exec)]
      /\ CancelExecution(e, Rows \ d.answered)
      /\ UNCHANGED <<count, kind, deliveredBy, turnVars, claim, procVars, faults, answers>>
  BY DEF ApplyHandBack
<1>2. decided' \in [Requests -> DecisionType]
  BY <1>1, TypeParts DEF CommandTypes, DecisionType
<1>3. CommandTypes'
  BY <1>1, <1>2, CancelExecutionTypes
<1>4. RowTypes' /\ RowsOnlySettle
  BY <1>1, TypeParts DEF RowTypes, RowsOnlySettle
<1>5. lease' \in LeaseType /\ LeaseIsKept /\ lease'.receipt = lease.receipt \ d.handBack
  BY <1>1, TypeParts DEF LeaseTypes, LeaseType, LeaseIsKept
<1>6. TypeOK'
  <2>1. TurnTypes' /\ LeaseTypes'
    BY <1>1, <1>5, TypeParts DEF TurnTypes, LeaseTypes, turnVars
  <2>2. RunTypes'
    BY <1>1, TypeParts DEF RunTypes, procVars
  <2> QED BY <1>3, <1>4, <2>1, <2>2, TypePartsNext
<1>7. TurnsOnlySettle
  BY <1>1 DEF TurnsOnlySettle, turnVars
<1>8. ReceiptIsPending'
  <2>1. lease.receipt \subseteq Rows
    BY TypeParts DEF LeaseTypes, LeaseType
  <2> QED BY <1>1, <1>5, <2>1 DEF ReceiptIsPending
<1>9. \A w \in Workers : RunIsKept(w)
  BY <1>1 DEF RunIsKept, RunsFit, procVars
<1> QED BY <1>4, <1>5, <1>6, <1>7, <1>8, <1>9, QuietStep

(* A decision names rows it was asked about.                               *)
LEMMA DecisionNamesItsRows ==
    ASSUME NEW facts, NEW covered \in SUBSET Rows, NEW cancels
    PROVE  LET d == DecideHandBack(facts, covered, cancels)
           IN  /\ d.handBack \in SUBSET Rows /\ d.gone \in SUBSET Rows
               /\ d.answered \in SUBSET Rows
BY DEF DecideHandBack, HandsBack

(* The queue's x: rows leave the chat, and nothing is cancelled.           *)
LEMMA HandBackKeepsInv ==
    ASSUME IInv, NEW q \in Requests, NEW ids, HandBack(q, ids)
    PROVE  IInv'
<1> DEFINE rows == WriterRows \cap ids
           d == DecideHandBack(Facts(rows), rows, FALSE)
<1>1. rows \in SUBSET Rows
  BY DEF WriterRows
<1>2. ApplyHandBack(q, d, NoExecution)
  BY DEF HandBack
<1> HIDE DEF rows
<1>3. d.handBack \in SUBSET Rows /\ d.gone \in SUBSET Rows /\ d.answered \in SUBSET Rows
  BY <1>1, DecisionNamesItsRows
<1> HIDE DEF d
<1> QED BY <1>2, <1>3, ApplyHandBackKeepsInv

(* Stop: rows leave the chat and the receipt, and the execution may be     *)
(* flagged.                                                                *)
LEMMA PressStopKeepsInv ==
    ASSUME IInv, NEW q \in Requests, NEW seen, NEW e, NEW mine, PressStop(q, seen, e, mine)
    PROVE  IInv'
<1> DEFINE facts == Facts(SeenRows(seen, mine))
           covered == Covered(facts, seen, mine)
           cancels == StopCancels(facts, covered, e)
           d == DecideHandBack(facts, covered, cancels)
           x == IF cancels THEN facts.execution ELSE NoExecution
<1>1. facts.rows \in SUBSET Rows /\ facts.execution \in Execs \cup {NoExecution}
  BY TypeParts DEF IInv, LeaseTypes, LeaseType, Facts, SeenRows, WriterRows
<1>2. ApplyHandBack(q, d, x)
  BY DEF PressStop, DecideStop
<1> HIDE DEF facts
<1>3. covered \in SUBSET Rows
  BY <1>1 DEF Covered
<1>4. x \in Execs \cup {NoExecution}
  BY <1>1
<1> HIDE DEF covered, cancels, x
<1>5. d.handBack \in SUBSET Rows /\ d.gone \in SUBSET Rows /\ d.answered \in SUBSET Rows
  BY <1>3, DecisionNamesItsRows
<1> HIDE DEF d
<1> QED BY <1>2, <1>4, <1>5, ApplyHandBackKeepsInv

-------------------------------------------------------------------------------
(* Repair and setup.                                                       *)

(* Settling a dead execution's turns, and answering a dead reply's receipt. *)
LEMMA RepairOrphansKeepsInv ==
    ASSUME IInv, NEW w \in Workers, RepairOrphans(w)
    PROVE  IInv'
<1> USE DEF IInv
<1> DEFINE bound == IF Open(lease.turn) THEN lease.turn ELSE NoTurn
           answered == bound # NoTurn /\ turns[bound].role = "assistant"
<1>1. /\ pc[w] = "repair"
      /\ turns' = [t \in Turns |-> IF Open(t) THEN [turns[t] EXCEPT !.status = "error"]
                                   ELSE turns[t]]
      /\ IF answered THEN Ack(lease.receipt, bound) ELSE NoAck
      /\ lease' = IF bound # NoTurn THEN [lease EXCEPT !.turn = NoTurn, !.receipt = {}] ELSE lease
      /\ pc' = [pc EXCEPT ![w] = "endStale"]
      /\ UNCHANGED <<count, kind, turnCount, aiMode, claim, decided, run, signals, faults,
                     historyVars>>
  BY DEF RepairOrphans, Goto
<1>2. /\ bound \in Turns \cup {NoTurn}
      /\ bound # NoTurn <=> Open(lease.turn)
  BY Ranges DEF Open
<1>3. ~Open(lease.turn) => \A t \in Turns : ~Open(t)
  BY DEF OpenTurnHasItsLease
<1> HIDE DEF bound
<1>4. RowTypes' /\ RowsOnlySettle /\ (~answered => fate' = fate)
  <2>1. CASE answered
    <3>1. Ack(lease.receipt, bound) /\ UNCHANGED <<count, kind>>
      BY <1>1, <2>1
    <3>2. RowTypes' /\ RowsOnlySettle
      BY <1>2, <3>1, AckTypes
    <3> QED BY <2>1, <3>2
  <2>2. CASE ~answered
    BY <1>1, <2>2, TypeParts DEF NoAck, RowTypes, RowsOnlySettle
  <2> QED BY <2>1, <2>2
<1>5. /\ TurnTypes'
      /\ \A t \in Turns : /\ turns'[t].exec = turns[t].exec /\ turns'[t].mode = turns[t].mode
                          /\ turns'[t].status # "pending"
  BY <1>1, TypeParts DEF TurnTypes, TurnType, Open
<1>6. TurnsOnlySettle
  BY <1>1, <1>5 DEF TurnsOnlySettle
<1>7. lease' \in LeaseType /\ (LeaseIsKept \/ LeaseIsFreed)
  BY <1>1, <1>5, Ranges, TypeParts DEF LeaseTypes, LeaseType, LeaseIsKept, LeaseIsFreed
<1>8. pc' \in [Workers -> Pcs] /\ run' \in [Workers -> RunType] /\ \A v \in Workers : RunIsKept(v)
  <2>1. run[w] \in RunType /\ run' = [run EXCEPT ![w] = run[w]] /\ run[w].eligible \subseteq run[w].snap
    BY <1>1, TypeParts DEF RunTypes, RunsFit
  <2>2. "endStale" \in BeforeLease /\ "endStale" \in Pcs /\ pc[w] \in BeforeLease
    BY <1>1 DEF BeforeLease, Pcs, StartPcs
  <2> QED BY <1>1, <2>1, <2>2, Places, ProcessMoves
<1>9. TypeOK'
  <2>1. LeaseTypes'
    BY <1>1, <1>7, TypeParts DEF LeaseTypes
  <2>2. CommandTypes' /\ RunTypes'
    BY <1>1, <1>8, TypeParts DEF CommandTypes, RunTypes, historyVars
  <2> QED BY <1>4, <1>5, <2>1, <2>2, TypePartsNext
<1>10. ReceiptIsPending'
  <2>1. CASE bound # NoTurn
    <3>1. lease'.receipt = {}
      BY <1>1, <2>1, TypeParts DEF LeaseTypes, LeaseType
    <3> QED BY <3>1 DEF ReceiptIsPending
  <2>2. CASE bound = NoTurn
    BY <1>1, <1>4, <2>2 DEF ReceiptIsPending
  <2> QED BY <2>1, <2>2
<1> QED BY <1>4, <1>6, <1>7, <1>8, <1>9, <1>10, QuietStep

(* A lease that ends with no turn left to settle.                          *)
LEMMA LeaseEnds ==
    ASSUME IInv, UNCHANGED <<inboxVars, turnVars, decided, signals, historyVars>>,
           lease' = NoLease \/ lease' = lease,
           lease' = NoLease => \A t \in Turns : ~Open(t),
           claim' \in Workers \cup {NoWorker}, faults' \in 0 .. MaxFaults,
           pc' \in [Workers -> Pcs], run' \in [Workers -> RunType],
           \A w \in Workers : RunIsKept(w)
    PROVE  IInv'
<1> USE DEF IInv
<1>1. NoLease \in LeaseType
  BY Ranges DEF NoLease, LeaseType
<1>2. TypeOK'
  <2>1. RowTypes' /\ TurnTypes'
    BY TypeParts DEF RowTypes, TurnTypes, inboxVars, turnVars
  <2>2. LeaseTypes' /\ CommandTypes' /\ RunTypes'
    BY <1>1, TypeParts DEF LeaseTypes, CommandTypes, RunTypes, historyVars
  <2> QED BY <2>1, <2>2, TypePartsNext
<1>3. RowsOnlySettle /\ TurnsOnlySettle
  BY DEF RowsOnlySettle, TurnsOnlySettle, inboxVars, turnVars
<1>4. LeaseIsKept \/ LeaseIsFreed
  BY DEF LeaseIsKept, LeaseIsFreed, Open, turnVars
<1>5. ReceiptIsPending'
  BY DEF ReceiptIsPending, NoLease, inboxVars
<1> QED BY <1>2, <1>3, <1>4, <1>5, QuietStep

(* Ending the stale lease once its execution has nothing to settle.        *)
LEMMA EndStaleKeepsInv ==
    ASSUME IInv, NEW w \in Workers, EndStale(w)
    PROVE  IInv'
<1> USE DEF IInv
<1>1. /\ pc[w] = "endStale"
      /\ UNCHANGED <<inboxVars, turnVars, decided, signals, faults, historyVars>>
  BY DEF EndStale
<1>2. faults' \in 0 .. MaxFaults
  BY <1>1, TypeParts DEF RunTypes
<1>3. CASE \E t \in ExecutionTurns(lease.exec) : lease.exec # NoExecution /\ Open(t)
  <2>1. /\ claim' = (IF claim = w THEN NoWorker ELSE claim) /\ LeaveRun(w) /\ lease' = lease
    BY <1>3 DEF EndStale
  <2>2. claim' \in Workers \cup {NoWorker}
    BY <2>1, TypeParts DEF LeaseTypes
  <2>3. lease' = NoLease => \A t \in Turns : ~Open(t)
    BY <1>3, <2>1 DEF NoLease
  <2> QED BY <1>1, <1>2, <2>1, <2>2, <2>3, ProcessLeaves, LeaseEnds
<1>4. CASE ~\E t \in ExecutionTurns(lease.exec) : lease.exec # NoExecution /\ Open(t)
  <2>1. /\ lease' = NoLease /\ pc' = [pc EXCEPT ![w] = "insert"] /\ claim' = claim /\ run' = run
    BY <1>4 DEF EndStale, Goto
  <2>2. \A t \in Turns : ~Open(t)
    BY <1>4 DEF OpenTurnHasItsLease, OpenTurnsFit, ExecutionTurns
  <2>3. run[w] \in RunType /\ run' = [run EXCEPT ![w] = run[w]] /\ run[w].eligible \subseteq run[w].snap
    BY <2>1, TypeParts DEF RunTypes, RunsFit
  <2>4. "insert" \in BeforeLease /\ "insert" \in Pcs /\ pc[w] \in BeforeLease
    BY <1>1 DEF BeforeLease, Pcs, StartPcs
  <2>5. /\ pc' \in [Workers -> Pcs] /\ run' \in [Workers -> RunType]
        /\ \A v \in Workers : RunIsKept(v)
    BY <2>1, <2>3, <2>4, Places, ProcessMoves
  <2>6. claim' \in Workers \cup {NoWorker}
    BY <2>1, TypeParts DEF LeaseTypes
  <2> QED BY <1>1, <1>2, <2>1, <2>2, <2>5, <2>6, LeaseEnds
<1> QED BY <1>3, <1>4

(* A run that reserved nothing gives up.                                   *)
LEMMA EndStartKeepsInv ==
    ASSUME IInv, NEW w \in Workers, NoPendingWake(w) \/ StartLost(w) \/ SetupFails(w)
    PROVE  IInv'
<1> USE DEF IInv
<1>1. EndExecution(w) /\ LeaveRun(w) /\ pc[w] \in InSetup
      /\ UNCHANGED <<inboxVars, turnVars, decided, signals, historyVars>>
  BY DEF NoPendingWake, StartLost, SetupFails, EndStart, InSetup
<1>2. faults' \in 0 .. MaxFaults
  BY TypeParts, Ranges DEF RunTypes, NoPendingWake, StartLost, SetupFails
<1>3. claim' \in Workers \cup {NoWorker} /\ (lease' = NoLease \/ lease' = lease)
  BY <1>1, TypeParts DEF EndExecution, LeaseTypes
<1>4. lease' = NoLease => \A t \in Turns : ~Open(t)
  <2>1. CASE Owns(w)
    BY <1>1, <2>1, Ranges DEF OwnersFit, OpenTurnHasItsLease, Turns, NoTurn
  <2>2. CASE ~Owns(w)
    <3>1. lease' = lease
      BY <1>1, <2>2 DEF EndExecution
    <3> QED BY <3>1, Ranges DEF OpenTurnHasItsLease, OpenTurnsFit, NoLease
  <2> QED BY <2>1, <2>2
<1> QED BY <1>1, <1>2, <1>3, <1>4, ProcessLeaves, LeaseEnds

(* The number of a new execution is in range, and next to the turns'.      *)
LEMMA FreshExecIsAnExecution ==
    ASSUME TypeOK, ExecutionsFit
    PROVE  FreshExec \in Execs /\ FreshExec # NoExecution /\ FreshExec <= turnCount + 1
<1>1. turnCount \in 0 .. MaxTurns /\ turns \in [Turns -> TurnType]
  BY TypeParts DEF TurnTypes
<1>2. CASE turnCount = 0
  BY <1>2, Ranges DEF FreshExec
<1>3. CASE turnCount # 0
  <2>1. turnCount \in Turns
    BY <1>1, <1>3, Ranges
  <2>2. turns[turnCount].exec \in 0 .. MaxTurns + 1 /\ turns[turnCount].exec <= turnCount
    BY <1>1, <2>1, Ranges DEF TurnType, ExecutionsFit
  <2> QED BY <1>1, <1>3, <2>2, Ranges DEF FreshExec
<1> QED BY <1>2, <1>3

(* The new execution's row.                                                *)
LEMMA InsertLeaseKeepsInv ==
    ASSUME IInv, NEW w \in Workers, InsertLease(w)
    PROVE  IInv'
<1> USE DEF IInv
<1>1. /\ pc[w] = "insert"
      /\ UNCHANGED <<inboxVars, turnVars, decided, signals, faults, historyVars>>
  BY DEF InsertLease
<1>2. CASE lease.exec # NoExecution
  <2>1. claim' \in Workers \cup {NoWorker} /\ LeaveRun(w) /\ lease' = lease
    BY <1>2, TypeParts DEF InsertLease, LeaseTypes
  <2>2. faults' \in 0 .. MaxFaults
    BY <1>1, TypeParts DEF RunTypes
  <2> QED BY <1>1, <2>1, <2>2, ProcessLeaves, ProcessStep
<1>3. CASE lease.exec = NoExecution
  <2> DEFINE e == FreshExec
  <2>1. /\ lease' = [NoLease EXCEPT !.exec = e, !.holder = w]
        /\ run' = [run EXCEPT ![w].exec = e] /\ pc' = [pc EXCEPT ![w] = "starting"]
        /\ claim' = claim
    BY <1>3 DEF InsertLease, Goto
  <2>2. e \in Execs /\ e # NoExecution /\ e <= turnCount + 1
    BY FreshExecIsAnExecution
  <2> HIDE DEF e
  <2>3. /\ lease'.exec = e /\ lease'.holder = w /\ lease'.turn = NoTurn /\ lease'.receipt = {}
        /\ lease' \in LeaseType
    BY <2>1, <2>2, Ranges DEF NoLease, LeaseType
  <2>4. \A t \in Turns : ~Open(t)
    BY <1>3 DEF OpenTurnHasItsLease, OpenTurnsFit
  <2>5. run \in [Workers -> RunType] /\ pc \in [Workers -> Pcs]
    BY TypeParts DEF RunTypes
  <2>6. /\ run' \in [Workers -> RunType]
        /\ run'[w].exec = e /\ run'[w].eligible = run[w].eligible /\ run'[w].snap = run[w].snap
        /\ \A v \in Workers : v # w => run'[v] = run[v]
    BY <2>1, <2>2, <2>5 DEF RunType
  <2>7. /\ pc' \in [Workers -> Pcs] /\ pc'[w] = "starting"
        /\ \A v \in Workers : v # w => pc'[v] = pc[v]
    BY <2>1, <2>5 DEF Pcs, StartPcs
  <2>8. TypeOK'
    <3>1. RowTypes' /\ TurnTypes'
      BY <1>1, TypeParts DEF RowTypes, TurnTypes, inboxVars, turnVars
    <3>2. LeaseTypes' /\ CommandTypes' /\ RunTypes'
      BY <1>1, <2>1, <2>3, <2>6, <2>7, TypeParts DEF LeaseTypes, CommandTypes, RunTypes, historyVars
    <3> QED BY <3>1, <3>2, TypePartsNext
  <2>9. RowsFit' /\ OneQueuedSwitch' /\ OpenTurnsFit' /\ ReplyKeepsItsMode'
    BY <1>1 DEF RowsFit, OneQueuedSwitch, OpenTurnsFit, ReplyKeepsItsMode, Open, Pending,
                inboxVars, turnVars
  <2>10. ExecutionsFit' /\ OpenTurnHasItsLease' /\ ReceiptIsPending'
    BY <1>1, <2>2, <2>3, <2>4
       DEF ExecutionsFit, OpenTurnHasItsLease, ReceiptIsPending, Open, turnVars
  <2>11. RunsFit'
    BY <2>6, <2>7 DEF RunsFit, BeforeLease, InRun, LoopPcs, Exits
  <2>12. OwnersFit'
    <3> SUFFICES ASSUME NEW v \in Workers, Owns(v)'
                 PROVE  (pc'[v] \in InSetup => lease'.turn = NoTurn) /\ pc'[v] \notin InRun
      BY DEF OwnersFit
    <3>1. v = w
      BY <2>3 DEF Owns
    <3> QED BY <2>3, <2>7, <3>1 DEF InRun, LoopPcs, Exits
  <2> QED BY <2>8, <2>9, <2>10, <2>11, <2>12
<1> QED BY <1>2, <1>3

-------------------------------------------------------------------------------
(* The loop's own writes.                                                  *)

(* A running owner's turn is the only one that can be unsettled.           *)
LEMMA OwnerHasTheTurn ==
    ASSUME IInv, NEW w \in Workers, Owns(w), pc[w] \in InRun
    PROVE  /\ run[w].turn \in Turns /\ lease.exec # NoExecution
           /\ \A t \in Turns : Open(t) => t = run[w].turn
BY Ranges DEF IInv, OwnersFit, RunsFit, OpenTurnHasItsLease, Owns, Open

(* The response, with the receipt's acknowledgement when there is one.     *)
LEMMA RespondKeepsInv ==
    ASSUME IInv, NEW w \in Workers, Respond(w)
    PROVE  IInv'
<1> USE DEF IInv
<1>1. /\ pc[w] = "streaming"
      /\ IF run[w].acks = {} THEN NoAck /\ lease' = lease
         ELSE ClearReceipt(w) /\ Ack(run[w].acks, run[w].turn)
      /\ UNCHANGED <<count, kind, turnVars, claim, decided, signals, faults, cancelTargets, spared>>
  BY DEF Respond
<1>2. pc[w] \in InRun /\ pc[w] \notin BeforeLease /\ run[w].turn \in Turns
  BY <1>1 DEF InRun, LoopPcs, BeforeLease, RunsFit
<1>3. run \in [Workers -> RunType] /\ pc \in [Workers -> Pcs] /\ lease \in LeaseType
  BY TypeParts DEF RunTypes, LeaseTypes
<1>4. PICK c \in BOOLEAN, q \in {"boundary", "exitFailed"} :
        /\ run' = [run EXCEPT ![w].acks = {},
                              ![w].marks = IF c THEN @ \cup {"completing"} ELSE @]
        /\ pc' = [pc EXCEPT ![w] = q]
  BY DEF Respond, Goto
<1> DEFINE u == [run[w] EXCEPT !.acks = {}, !.marks = IF c THEN @ \cup {"completing"} ELSE @]
<1>5. /\ run' = [run EXCEPT ![w] = u] /\ u \in RunType /\ u.exec = run[w].exec
      /\ u.turn = run[w].turn /\ u.eligible = run[w].eligible /\ u.snap = run[w].snap
  BY <1>3, <1>4 DEF RunType, Marks
<1> HIDE DEF u
<1>6. q \in Pcs /\ q \in InRun /\ q \notin InSetup /\ q \notin BeforeLease
  BY <1>4 DEF Pcs, InRun, LoopPcs, Exits, InSetup, BeforeLease
<1>7. u.eligible \subseteq u.snap
  BY <1>5 DEF RunsFit
<1>8. pc' \in [Workers -> Pcs] /\ run' \in [Workers -> RunType] /\ \A v \in Workers : RunIsKept(v)
  BY <1>2, <1>4, <1>5, <1>6, <1>7, ProcessMoves
<1>9. /\ RowTypes' /\ RowsOnlySettle /\ lease' \in LeaseType /\ LeaseIsKept
      /\ lease'.receipt = {} \/ (lease'.receipt = lease.receipt /\ fate' = fate)
  <2>1. CASE run[w].acks = {}
    <3>1. lease' = lease /\ UNCHANGED <<count, kind, fate, deliveredBy>>
      BY <1>1, <2>1 DEF NoAck
    <3> QED BY <1>3, <3>1, TypeParts DEF RowTypes, RowsOnlySettle, LeaseIsKept
  <2>2. CASE run[w].acks # {}
    <3>1. Ack(run[w].acks, run[w].turn) /\ lease' = [lease EXCEPT !.receipt = {}]
      BY <1>1, <2>2 DEF ClearReceipt
    <3>2. RowTypes' /\ RowsOnlySettle
      BY <1>1, <1>2, <3>1, AckTypes
    <3> QED BY <1>3, <3>1, <3>2 DEF LeaseType, LeaseIsKept
  <2> QED BY <2>1, <2>2
<1>10. answers' \in [Rows -> SUBSET Turns]
  BY <1>2, TypeParts DEF Respond, RunTypes
<1>11. TypeOK'
  <2>1. TurnTypes' /\ LeaseTypes'
    BY <1>1, <1>9, TypeParts DEF TurnTypes, LeaseTypes, turnVars
  <2>2. CommandTypes' /\ RunTypes'
    BY <1>1, <1>8, <1>10, TypeParts DEF CommandTypes, RunTypes
  <2> QED BY <1>9, <2>1, <2>2, TypePartsNext
<1>12. TurnsOnlySettle
  BY <1>1 DEF TurnsOnlySettle, turnVars
<1>13. ReceiptIsPending'
  BY <1>1, <1>9 DEF ReceiptIsPending
<1> QED BY <1>8, <1>9, <1>11, <1>12, <1>13, QuietStep

(* Writing a status to one turn.                                           *)
LEMMA StatusTypes ==
    ASSUME TypeOK, NEW t \in Turns, NEW s \in {"none", "complete", "error", "cancelled"},
           turns' = [turns EXCEPT ![t].status = s], UNCHANGED <<turnCount, aiMode>>
    PROVE  /\ TurnTypes' /\ TurnsOnlySettle /\ turns'[t].status # "pending"
           /\ \A u \in Turns : u # t => turns'[u] = turns[u]
<1>1. TurnTypes
  BY TypeParts
<1>2. turns' \in [Turns -> TurnType]
  BY <1>1 DEF TurnTypes, TurnType
<1>3. /\ \A u \in Turns : u # t => turns'[u] = turns[u]
      /\ turns'[t].status = s /\ turns'[t].exec = turns[t].exec /\ turns'[t].mode = turns[t].mode
  BY <1>1 DEF TurnTypes, TurnType
<1> QED BY <1>1, <1>2, <1>3 DEF TurnTypes, TurnsOnlySettle

(* A settled turn whose owner ends the execution; without ownership only   *)
(* the turn is settled.                                                    *)
LEMMA SettleEnds ==
    ASSUME IInv, NEW w \in Workers, pc[w] \in InRun,
           NEW s \in {"none", "complete", "error", "cancelled"},
           turns' = [turns EXCEPT ![run[w].turn].status = s], UNCHANGED <<turnCount, aiMode>>,
           RowTypes', RowsOnlySettle, ~Owns(w) => fate' = fate,
           EndExecution(w), LeaveRun(w),
           UNCHANGED <<decided, signals, faults, historyVars>>
    PROVE  IInv'
<1> USE DEF IInv
<1>1. run[w].turn \in Turns
  BY DEF RunsFit
<1>2. /\ TurnTypes' /\ TurnsOnlySettle /\ turns'[run[w].turn].status # "pending"
      /\ \A u \in Turns : u # run[w].turn => turns'[u] = turns[u]
  BY <1>1, StatusTypes
<1>3. /\ Owns(w) => lease' = NoLease
      /\ ~Owns(w) => lease' = lease
      /\ claim' \in Workers \cup {NoWorker}
  BY TypeParts DEF EndExecution, LeaseTypes
<1>4. LeaseIsKept \/ LeaseIsFreed
  <2>1. CASE Owns(w)
    <3>1. \A t \in Turns : turns'[t].status # "pending"
      BY <1>2, <2>1, OwnerHasTheTurn DEF Open
    <3> QED BY <1>3, <2>1, <3>1 DEF LeaseIsFreed
  <2>2. CASE ~Owns(w)
    BY <1>3, <2>2 DEF LeaseIsKept
  <2> QED BY <2>1, <2>2
<1>5. lease' \in LeaseType /\ (lease'.receipt = {} \/ (lease' = lease /\ fate' = fate))
  <2>1. NoLease \in LeaseType /\ NoLease.receipt = {}
    BY Ranges DEF NoLease, LeaseType
  <2>2. CASE Owns(w)
    BY <1>3, <2>1, <2>2
  <2>3. CASE ~Owns(w)
    BY <1>3, <2>3, TypeParts DEF LeaseTypes
  <2> QED BY <2>2, <2>3
<1>6. TypeOK'
  <2>1. LeaseTypes'
    BY <1>3, <1>5 DEF LeaseTypes
  <2>2. CommandTypes'
    BY TypeParts DEF CommandTypes, historyVars
  <2>3. RunTypes'
    BY ProcessLeaves, TypeParts DEF RunTypes, historyVars
  <2> QED BY <1>2, <2>1, <2>2, <2>3, TypePartsNext
<1>7. ReceiptIsPending'
  BY <1>5 DEF ReceiptIsPending, RowsOnlySettle
<1> QED BY <1>2, <1>4, <1>6, <1>7, ProcessLeaves, QuietStep

(* The terminal write.                                                     *)
LEMMA SettleTerminalKeepsInv ==
    ASSUME IInv, NEW w \in Workers, Close(w) \/ CloseReply(w)
    PROVE  IInv'
<1> USE DEF IInv
<1> DEFINE turn == run[w].turn
           status == IF Open(turn) THEN CloseCause(w) ELSE turns[turn].status
           answered == Owns(w) /\ turns[turn].role = "assistant" /\ status \in {"cancelled", "error"}
<1>1. pc[w] \in InRun /\ SettleTerminal(w)
  BY DEF Close, CloseReply, InRun, LoopPcs
<1>2. turn \in Turns
  BY <1>1 DEF RunsFit
<1>3. /\ turns' = [turns EXCEPT ![turn].status = status]
      /\ IF answered THEN Ack(lease.receipt, turn) ELSE NoAck
      /\ EndExecution(w) /\ LeaveRun(w)
      /\ UNCHANGED <<count, kind, turnCount, aiMode, decided, signals, faults, historyVars>>
  BY <1>1 DEF SettleTerminal
<1>4. status \in {"none", "complete", "error", "cancelled"}
  BY <1>2, TypeParts DEF Open, CloseCause, TurnTypes, TurnType
<1> HIDE DEF status
<1>5. RowTypes' /\ RowsOnlySettle /\ (~Owns(w) => fate' = fate)
  <2>1. CASE answered
    <3>1. Ack(lease.receipt, turn) /\ UNCHANGED <<count, kind>> /\ Owns(w)
      BY <1>3, <2>1
    <3>2. RowTypes' /\ RowsOnlySettle
      BY <1>2, <3>1, AckTypes
    <3> QED BY <3>1, <3>2
  <2>2. CASE ~answered
    BY <1>3, <2>2, TypeParts DEF NoAck, RowTypes, RowsOnlySettle
  <2> QED BY <2>1, <2>2
<1> QED BY <1>1, <1>3, <1>4, <1>5, SettleEnds

(* A compaction after which nothing is left to answer.                     *)
LEMMA CompactionEndsKeepsInv ==
    ASSUME IInv, NEW w \in Workers, CompactionEnds(w)
    PROVE  IInv'
<1>1. /\ pc[w] \in InRun /\ Owns(w)
      /\ turns' = [turns EXCEPT ![run[w].turn].status = "complete"]
      /\ EndExecution(w) /\ LeaveRun(w)
      /\ UNCHANGED <<inboxVars, turnCount, aiMode, decided, signals, faults, historyVars>>
  BY DEF CompactionEnds, MayAdopt, InRun, LoopPcs
<1>2. RowTypes' /\ RowsOnlySettle
  BY <1>1, TypeParts DEF IInv, RowTypes, RowsOnlySettle, inboxVars
<1> QED BY <1>1, <1>2, SettleEnds

(* The closing transaction failed too: the row is left, expired.           *)
LEMMA AbandonKeepsInv ==
    ASSUME IInv, NEW w \in Workers, Abandon(w)
    PROVE  IInv'
<1> USE DEF IInv
<1>1. /\ faults' \in 0 .. MaxFaults /\ claim' \in Workers \cup {NoWorker}
      /\ lease' = [lease EXCEPT !.expired = TRUE] /\ LeaveRun(w)
      /\ UNCHANGED <<inboxVars, turnVars, decided, signals, historyVars>>
  BY Ranges, TypeParts DEF Abandon, RunTypes, LeaseTypes
<1>2. lease' \in LeaseType /\ LeaseIsKept /\ lease'.receipt = lease.receipt
  BY <1>1, TypeParts DEF LeaseTypes, LeaseType, LeaseIsKept
<1>3. TypeOK'
  <2>1. RowTypes' /\ TurnTypes'
    BY <1>1, TypeParts DEF RowTypes, TurnTypes, inboxVars, turnVars
  <2>2. LeaseTypes' /\ CommandTypes'
    BY <1>1, <1>2, TypeParts DEF LeaseTypes, CommandTypes, historyVars
  <2>3. RunTypes'
    BY <1>1, ProcessLeaves, TypeParts DEF RunTypes, historyVars
  <2> QED BY <2>1, <2>2, <2>3, TypePartsNext
<1>4. RowsOnlySettle /\ TurnsOnlySettle /\ ReceiptIsPending'
  BY <1>1, <1>2 DEF RowsOnlySettle, TurnsOnlySettle, ReceiptIsPending, inboxVars, turnVars
<1> QED BY <1>1, <1>2, <1>3, <1>4, ProcessLeaves, QuietStep

(* A boundary with nothing new, for an owner or for a run that lost its    *)
(* lease.                                                                  *)
LEMMA AdoptsNothingKeepsInv ==
    ASSUME IInv, NEW w \in Workers, AdoptNothing(w) \/ AdoptWithoutLease(w)
    PROVE  IInv'
<1> USE DEF IInv
<1>1. /\ UNCHANGED <<inboxVars, turnVars, lease, claim, decided, signals, faults, historyVars>>
      /\ pc[w] = "adoptSelected"
  BY DEF AdoptNothing, AdoptWithoutLease, MayAdopt, NoAck, AdoptionTail, inboxVars, turnVars,
         leaseVars, historyVars
<1>2. claim' \in Workers \cup {NoWorker} /\ faults' \in 0 .. MaxFaults
  BY <1>1, TypeParts DEF LeaseTypes, RunTypes
<1>3. CASE AdoptWithoutLease(w) /\ Role(w) = "compaction"
  <2>1. LeaveRun(w)
    BY <1>3 DEF AdoptWithoutLease
  <2> QED BY <1>1, <1>2, <2>1, ProcessLeaves, ProcessStep
<1>4. CASE ~(AdoptWithoutLease(w) /\ Role(w) = "compaction")
  <2>1. run \in [Workers -> RunType] /\ lease \in LeaseType /\ run[w].turn \in Turns
    BY <1>1, TypeParts DEF RunTypes, LeaseTypes, RunsFit, InRun, LoopPcs
  <2>2. PICK q \in {"exitSuccess", "exitFailed", "ready"}, a \in SUBSET Rows :
          /\ pc' = [pc EXCEPT ![w] = q]
          /\ run' = [run EXCEPT ![w].acks = a, ![w].snap = {}, ![w].eligible = {},
                                ![w].marks = @ \ {"completing"}]
    <3>1. CASE AdoptNothing(w)
      <4>1. PICK q \in {"exitSuccess", "ready"} : pc' = [pc EXCEPT ![w] = q]
        BY <3>1 DEF AdoptNothing, Goto
      <4>2. lease.receipt \in SUBSET Rows /\ lease' = lease /\ run[w].turn # NoTurn
        BY <2>1, <3>1, Ranges DEF AdoptNothing, LeaseType
      <4>3. run' = [run EXCEPT ![w].turn = run[w].turn, ![w].snap = {}, ![w].eligible = {},
                               ![w].marks = run[w].marks \ {"completing"},
                               ![w].acks = lease.receipt]
        BY <3>1, <4>2 DEF AdoptNothing, AdoptionTail
      <4>4. run' = [run EXCEPT ![w].acks = lease.receipt, ![w].snap = {}, ![w].eligible = {},
                               ![w].marks = @ \ {"completing"}]
        <5>1. [run[w] EXCEPT !.turn = run[w].turn, !.snap = {}, !.eligible = {},
                             !.marks = run[w].marks \ {"completing"}, !.acks = lease.receipt]
              = [run[w] EXCEPT !.acks = lease.receipt, !.snap = {}, !.eligible = {},
                               !.marks = @ \ {"completing"}]
          BY <2>1 DEF RunType
        <5>2. run[w] \in RunType
          BY <2>1
        <5> QED BY <2>1, <4>3, <5>1, <5>2 DEF RunType
      <4> QED BY <4>1, <4>2, <4>4
    <3>2. CASE AdoptWithoutLease(w)
      <4>1. PICK q \in {"exitSuccess", "exitFailed", "ready"} : pc' = [pc EXCEPT ![w] = q]
        BY <1>4, <3>2 DEF AdoptWithoutLease, Goto
      <4>2. run' = [run EXCEPT ![w].marks = @ \ {"completing"}, ![w].snap = {}, ![w].eligible = {}]
        BY <1>4, <3>2 DEF AdoptWithoutLease
      <4>3. run' = [run EXCEPT ![w].acks = run[w].acks, ![w].snap = {}, ![w].eligible = {},
                               ![w].marks = @ \ {"completing"}]
        BY <2>1, <4>2 DEF RunType
      <4>4. run[w].acks \in SUBSET Rows
        BY <2>1 DEF RunType
      <4> QED BY <4>1, <4>3, <4>4
    <3> QED BY <3>1, <3>2
  <2> DEFINE u == [run[w] EXCEPT !.acks = a, !.snap = {}, !.eligible = {},
                                 !.marks = @ \ {"completing"}]
  <2>3. /\ run' = [run EXCEPT ![w] = u] /\ u \in RunType /\ u.exec = run[w].exec
        /\ u.turn = run[w].turn /\ u.eligible \subseteq u.snap
    BY <2>1, <2>2 DEF RunType
  <2> HIDE DEF u
  <2>4. q \in Pcs /\ q \notin BeforeLease /\ q \notin InSetup /\ pc[w] \in InRun
    BY <1>1, <2>2 DEF Pcs, BeforeLease, InSetup, InRun, LoopPcs, Exits
  <2>5. /\ pc' \in [Workers -> Pcs] /\ run' \in [Workers -> RunType]
        /\ \A v \in Workers : RunIsKept(v)
    BY <2>2, <2>3, <2>4, ProcessMoves
  <2> QED BY <1>1, <1>2, <2>5, ProcessStep
<1> QED BY <1>3, <1>4

-------------------------------------------------------------------------------
(* Reservations: a turn is bound to the owner's lease with its receipt.    *)

(* What a reservation needs: nothing unsettled but the turn it settles,    *)
(* pending messages for its receipt, and the chat's mode.                  *)
LEMMA BindKeepsInv ==
    ASSUME IInv, NEW w \in Workers, Owns(w),
           NEW settled, \A t \in Turns : Open(t) => t = settled,
           NEW role \in {"assistant", "compaction"}, NEW mode \in Modes, aiMode' = mode,
           NEW receipt \in SUBSET Rows, NEW reserved \in SUBSET Rows,
           \A r \in receipt : fate'[r] = "pending" /\ kind[r] = "message",
           Bind(w, settled, role, mode, receipt, reserved),
           RowTypes', RowsOnlySettle, OneQueuedSwitch',
           NEW q \in InRun, pc' = [pc EXCEPT ![w] = q],
           NEW u \in RunType, run' = [run EXCEPT ![w] = u],
           u.exec = run[w].exec, u.turn = turnCount + 1, u.eligible \subseteq u.snap,
           UNCHANGED <<claim, decided, signals, faults, historyVars>>
    PROVE  IInv'
<1> USE DEF IInv
<1> DEFINE t == turnCount + 1
           new == [exec |-> lease.exec, role |-> role, status |-> "pending", mode |-> mode,
                   reservedFor |-> reserved]
<1>1. /\ turnCount < MaxTurns /\ turnCount' = t
      /\ turns' = [x \in Turns |-> IF x = t THEN new
                                   ELSE IF x = settled THEN [turns[x] EXCEPT !.status = "complete"]
                                   ELSE turns[x]]
      /\ lease' = [lease EXCEPT !.turn = t, !.receipt = receipt]
  BY DEF Bind
<1>2. TurnTypes /\ lease \in LeaseType /\ claim \in Workers \cup {NoWorker}
  BY TypeParts DEF LeaseTypes
<1>3. t \in Turns /\ turnCount \in 0 .. MaxTurns
  BY <1>1, <1>2, Ranges DEF TurnTypes
<1>4. lease.exec \in Execs /\ lease.exec # NoExecution
  BY <1>2 DEF LeaseType, Owns
<1>5. new \in TurnType
  BY <1>2, <1>4 DEF TurnType, LeaseType
<1>6. /\ turns' \in [Turns -> TurnType] /\ turns'[t] = new
      /\ \A x \in Turns : x # t => /\ turns'[x].status # "pending"
                                   /\ turns'[x].exec = turns[x].exec
  <2> HIDE DEF new
  <2>1. turns' \in [Turns -> TurnType]
    BY <1>1, <1>2, <1>5 DEF TurnTypes, TurnType
  <2>2. turns'[t] = new
    BY <1>1, <1>3
  <2>3. ASSUME NEW x \in Turns, x # t
        PROVE  turns'[x].status # "pending" /\ turns'[x].exec = turns[x].exec
    <3>1. turns[x] \in TurnType
      BY <1>2 DEF TurnTypes
    <3>2. CASE x = settled
      <4>1. turns'[x] = [turns[x] EXCEPT !.status = "complete"]
        BY <1>1, <2>3, <3>2
      <4> QED BY <3>1, <4>1 DEF TurnType
    <3>3. CASE x # settled
      <4>1. turns'[x] = turns[x]
        BY <1>1, <2>3, <3>3
      <4> QED BY <3>3, <4>1 DEF Open
    <3> QED BY <3>2, <3>3
  <2> QED BY <2>1, <2>2, <2>3
<1>7. /\ lease' \in LeaseType /\ lease'.exec = lease.exec /\ lease'.holder = w
      /\ lease'.turn = t /\ lease'.receipt = receipt
  BY <1>1, <1>2, <1>3 DEF LeaseType, Owns
<1>8. /\ new.exec = lease.exec /\ new.status = "pending" /\ new.mode = mode
  OBVIOUS
<1> HIDE DEF new
<1>9. /\ pc \in [Workers -> Pcs] /\ run \in [Workers -> RunType]
      /\ q \in Pcs /\ q \notin BeforeLease /\ q \notin InSetup
  BY TypeParts, Places DEF RunTypes
<1>10. /\ pc' \in [Workers -> Pcs] /\ run' \in [Workers -> RunType]
       /\ pc'[w] = q /\ run'[w] = u
       /\ \A v \in Workers : v # w => pc'[v] = pc[v] /\ run'[v] = run[v]
  BY <1>9
<1>11. TypeOK'
  <2>1. TurnTypes'
    BY <1>1, <1>3, <1>6, Ranges DEF TurnTypes
  <2>2. LeaseTypes' /\ CommandTypes' /\ RunTypes'
    BY <1>2, <1>7, <1>10, TypeParts DEF LeaseTypes, CommandTypes, RunTypes, historyVars
  <2> QED BY <2>1, <2>2, TypePartsNext
<1>12. RowsFit' /\ ReceiptIsPending'
  BY <1>7 DEF RowsFit, RowsOnlySettle, ReceiptIsPending
<1>13. ExecutionsFit'
  <2>1. lease.exec <= t
    BY DEF ExecutionsFit
  <2>2. \A x \in Turns : turns'[x].exec <= x
    BY <1>3, <1>6, <1>8, <2>1 DEF ExecutionsFit
  <2>3. lease'.exec <= turnCount' + 1
    BY <1>1, <1>2, <1>3, <1>4, <1>7, <2>1, Ranges
  <2> QED BY <2>2, <2>3 DEF ExecutionsFit
<1>14. OpenTurnsFit' /\ OpenTurnHasItsLease' /\ ReplyKeepsItsMode'
  <2>1. \A x \in Turns : Open(x)' => x = t
    BY <1>6 DEF Open
  <2>2. t <= turnCount'
    BY <1>1, <1>3, Ranges
  <2> QED BY <1>4, <1>6, <1>7, <1>8, <2>1, <2>2
          DEF OpenTurnsFit, OpenTurnHasItsLease, ReplyKeepsItsMode
<1>15. RunsFit'
  BY <1>3, <1>9, <1>10 DEF RunsFit
<1>16. OwnersFit'
  <2> SUFFICES ASSUME NEW v \in Workers, Owns(v)'
               PROVE  /\ pc'[v] \in InSetup => lease'.turn = NoTurn
                      /\ pc'[v] \in InRun => /\ lease'.turn \in {NoTurn, run'[v].turn}
                                             /\ turns'[run'[v].turn].mode = aiMode'
    BY DEF OwnersFit
  <2>1. v = w
    BY <1>7 DEF Owns
  <2> QED BY <1>6, <1>7, <1>8, <1>9, <1>10, <2>1
<1> QED BY <1>11, <1>12, <1>13, <1>14, <1>15, <1>16

(* The reservation of a run start, with the switch it applies.             *)
LEMMA ReserveStartKeepsInv ==
    ASSUME IInv, NEW w \in Workers, Owns(w), pc[w] \in InSetup,
           NEW rows, rows \subseteq Pending, NEW mode \in Modes, NEW switch,
           \/ switch = {} /\ mode = aiMode
           \/ switch \subseteq Switches(Pending, kind) /\ switch # {},
           ReserveStart(w, rows, mode, switch)
    PROVE  IInv'
<1> USE DEF IInv
<1> DEFINE selection == AtStart(rows)
           control == {selection.control} \ {NoRow}
           receipt == selection.rows
           reserved == {r \in receipt : kind[r] = "message"}
<1>1. PICK role \in {"assistant", "compaction"} : Bind(w, NoTurn, role, mode, receipt, reserved)
  BY DEF ReserveStart
<1>2. /\ selection.kind \in {"batch", "control"}
      /\ Ack(control \cup switch, NoTurn) /\ aiMode' = mode
      /\ run' = [run EXCEPT ![w].turn = turnCount + 1, ![w].snap = {}, ![w].eligible = {}]
      /\ pc' = [pc EXCEPT ![w] = "bound"]
      /\ UNCHANGED <<count, kind, claim, decided, signals, faults, historyVars>>
  BY DEF ReserveStart, Goto
<1>3. rows \subseteq Nat /\ rows \subseteq Rows /\ Pending \subseteq Rows
  BY Ranges DEF Pending
<1>4. SelectionFits(selection, rows, kind)
  BY <1>3, RunStartFits DEF AtStart
<1> HIDE DEF selection
<1>5. receipt \subseteq rows /\ \A r \in receipt : kind[r] = "message"
  BY <1>3, <1>4 DEF SelectionFits, Adoptable, RowsFit
<1>6. \A c \in control : kind[c] # "message"
  BY <1>2, <1>4 DEF SelectionFits
<1>7. \A c \in switch : kind[c] # "message"
  BY DEF Switches, Modes
<1>8. RowTypes' /\ RowsOnlySettle /\ \A r \in Rows : r \notin control \cup switch => fate'[r] = fate[r]
  BY <1>2, AckTypes
<1>9. \A r \in receipt : fate'[r] = "pending" /\ kind[r] = "message"
  BY <1>3, <1>5, <1>6, <1>7, <1>8 DEF Pending
<1>10. OneQueuedSwitch'
  <2>1. CASE switch = {} /\ mode = aiMode
    BY <1>2, <1>8, <2>1, SettlingAddsNoSwitch
  <2>2. CASE switch \subseteq Switches(Pending, kind) /\ switch # {}
    <3>1. \A s \in Switches(Pending', kind') : s \in Switches(Pending, kind) /\ s \notin switch
      BY <1>2, <2>2 DEF Switches, Pending, Ack
    <3>2. Switches(Pending', kind') = {}
      BY <2>2, <3>1 DEF OneQueuedSwitch
    <3> QED BY <3>2 DEF OneQueuedSwitch
  <2> QED BY <2>1, <2>2
<1>11. \A t \in Turns : Open(t) => t = NoTurn
  BY Ranges DEF OwnersFit, OpenTurnHasItsLease
<1> DEFINE u == [run[w] EXCEPT !.turn = turnCount + 1, !.snap = {}, !.eligible = {}]
<1>12. /\ u \in RunType /\ run' = [run EXCEPT ![w] = u] /\ u.exec = run[w].exec
       /\ u.turn = turnCount + 1 /\ u.eligible \subseteq u.snap
  <2>1. turnCount + 1 \in Turns
    BY <1>1, TypeParts, Ranges DEF Bind, TurnTypes
  <2>2. run \in [Workers -> RunType]
    BY TypeParts DEF RunTypes
  <2> QED BY <1>2, <2>1, <2>2 DEF RunType
<1> HIDE DEF u
<1>13. "bound" \in InRun
  BY DEF InRun, LoopPcs
<1>14. receipt \in SUBSET Rows /\ reserved \in SUBSET Rows
  BY <1>3, <1>5
<1>15. /\ pc' = [pc EXCEPT ![w] = "bound"] /\ aiMode' = mode
       /\ UNCHANGED <<claim, decided, signals, faults, historyVars>>
  BY <1>2
<1>16. RowTypes' /\ RowsOnlySettle
  BY <1>8
<1> HIDE DEF receipt, reserved
<1> QED BY <1>1, <1>9, <1>10, <1>11, <1>12, <1>13, <1>14, <1>15, <1>16, BindKeepsInv

(* The optimistic attempt's commit.                                        *)
LEMMA CommitStartKeepsInv ==
    ASSUME IInv, NEW w \in Workers, CommitStart(w)
    PROVE  IInv'
<1>1. /\ Owns(w) /\ pc[w] \in InSetup /\ ReserveStart(w, run[w].eligible, aiMode, {})
      /\ run[w].snap = Pending
  BY DEF CommitStart, SelectionStillCurrent, InSetup
<1>2. run[w].eligible \subseteq Pending /\ aiMode \in Modes
  BY <1>1, TypeParts DEF IInv, RunsFit, TurnTypes
<1> QED BY <1>1, <1>2, ReserveStartKeepsInv

(* The locked attempt, which applies the due switch.                       *)
LEMMA SwitchAndStartKeepsInv ==
    ASSUME IInv, NEW w \in Workers, SwitchAndStart(w)
    PROVE  IInv'
<1> DEFINE due == AtStart(Eligible).control
<1>1. /\ Owns(w) /\ pc[w] \in InSetup /\ AtStart(Eligible).kind = "switch"
      /\ ReserveStart(w, Eligible \ {due}, kind[due], {due})
  BY DEF SwitchAndStart, InSetup
<1>2. Eligible \subseteq Nat /\ Eligible \subseteq Pending
  BY Ranges DEF Eligible, Pending
<1>3. SelectionFits(AtStart(Eligible), Eligible, kind)
  BY <1>2, RunStartFits DEF AtStart
<1>4. AtStart(Eligible) = ApplySwitch(QueuedSwitch(Eligible, kind)) /\ Switches(Eligible, kind) # {}
  BY <1>1, <1>3 DEF SelectionFits
<1>5. due \in Switches(Eligible, kind)
  <2>1. due = QueuedSwitch(Eligible, kind)
    BY <1>4 DEF ApplySwitch
  <2> QED BY <1>2, <1>4, <2>1, QueuedSwitchIsFirst
<1> HIDE DEF due
<1>6. {due} \subseteq Switches(Pending, kind) /\ {due} # {} /\ kind[due] \in Modes
  BY <1>2, <1>5 DEF Switches
<1>7. Eligible \ {due} \subseteq Pending
  BY <1>2
<1> QED BY <1>1, <1>6, <1>7, ReserveStartKeepsInv

(* What a boundary carries over: pending messages, the run's own and the   *)
(* newly adopted ones.                                                     *)
LEMMA CarriedRowsArePending ==
    ASSUME IInv, NEW w \in Workers, MayAdopt(w)
    PROVE  /\ CarriedRows(w) \in SUBSET Rows
           /\ \A r \in CarriedRows(w) : fate[r] = "pending" /\ kind[r] = "message"
           /\ pc[w] \in InRun /\ Owns(w)
<1> USE DEF IInv
<1>1. /\ pc[w] \in InRun /\ Owns(w) /\ run[w].snap = Pending
  BY DEF MayAdopt, SelectionStillCurrent, InRun, LoopPcs
<1>2. run[w].eligible \subseteq Pending /\ Pending \subseteq Rows /\ run[w].eligible \subseteq Nat
  BY <1>1, Ranges DEF RunsFit, Pending
<1>3. Adoption(w).rows \subseteq Adoptable(run[w].eligible, kind)
  BY <1>2, BoundaryFits DEF Adoption, AtBoundary
<1>4. \A r \in NewlyAdopted(w) : r \in Pending /\ kind[r] = "message"
  BY <1>2, <1>3 DEF NewlyAdopted, Adoptable, RowsFit
<1>5. \A r \in lease.receipt : r \in Rows /\ fate[r] = "pending" /\ kind[r] = "message"
  BY TypeParts DEF ReceiptIsPending, LeaseTypes, LeaseType
<1> QED BY <1>1, <1>4, <1>5 DEF CarriedRows, Pending

(* A successor in the same mode, with everything unanswered.               *)
LEMMA SuccessorKeepsInv ==
    ASSUME IInv, NEW w \in Workers, MayAdopt(w),
           NEW role \in {"assistant", "compaction"}, NEW q \in InRun, NEW marks \in SUBSET Marks,
           Bind(w, run[w].turn, role, turns[run[w].turn].mode, CarriedRows(w),
                {r \in CarriedRows(w) : kind[r] = "message"}),
           NoAck, Goto(w, q), AdoptionTail(w, turnCount + 1, marks)
    PROVE  IInv'
<1> USE DEF IInv
<1> DEFINE receipt == CarriedRows(w)
           reserved == {r \in receipt : kind[r] = "message"}
           mode == turns[run[w].turn].mode
<1>1. /\ receipt \in SUBSET Rows
      /\ \A r \in receipt : fate[r] = "pending" /\ kind[r] = "message"
      /\ pc[w] \in InRun /\ Owns(w)
  BY CarriedRowsArePending
<1>2. /\ fate' = fate /\ deliveredBy' = deliveredBy /\ pc' = [pc EXCEPT ![w] = q]
      /\ UNCHANGED <<count, kind, aiMode, claim, decided, signals, faults, historyVars>>
  BY DEF NoAck, Goto, AdoptionTail
<1>3. RowTypes' /\ RowsOnlySettle /\ OneQueuedSwitch'
  <2>1. RowTypes' /\ RowsOnlySettle
    BY <1>2, TypeParts DEF RowTypes, RowsOnlySettle
  <2> QED BY <1>2, <2>1, SettlingAddsNoSwitch
<1>4. /\ run[w].turn \in Turns /\ \A t \in Turns : Open(t) => t = run[w].turn
      /\ mode \in Modes /\ aiMode' = mode
  BY <1>1, <1>2, OwnerHasTheTurn, TypeParts DEF OwnersFit, TurnTypes
<1> DEFINE u == [run[w] EXCEPT !.turn = turnCount + 1, !.snap = {}, !.eligible = {},
                               !.marks = marks, !.acks = lease'.receipt]
<1>5. /\ u \in RunType /\ run' = [run EXCEPT ![w] = u] /\ u.exec = run[w].exec
      /\ u.turn = turnCount + 1 /\ u.eligible \subseteq u.snap
  <2>1. turnCount + 1 \in Turns /\ turnCount + 1 # NoTurn
    BY TypeParts, Ranges DEF Bind, TurnTypes
  <2>2. run \in [Workers -> RunType] /\ lease \in LeaseType
    BY TypeParts DEF RunTypes, LeaseTypes
  <2>3. lease' = [lease EXCEPT !.turn = turnCount + 1, !.receipt = CarriedRows(w)]
    BY DEF Bind
  <2>4. lease'.receipt \in SUBSET Rows
    BY <1>1, <2>2, <2>3 DEF LeaseType
  <2>5. run' = [run EXCEPT ![w].turn = turnCount + 1, ![w].snap = {}, ![w].eligible = {},
                           ![w].marks = marks, ![w].acks = lease'.receipt]
    BY <2>1 DEF AdoptionTail
  <2>6. run[w] \in RunType
    BY <2>2
  <2>7. u \in RunType /\ u.exec = run[w].exec /\ u.turn = turnCount + 1 /\ u.eligible \subseteq u.snap
    BY <2>1, <2>4, <2>6 DEF RunType
  <2>8. run' = [run EXCEPT ![w] = u]
    BY <2>2, <2>5
  <2> QED BY <2>7, <2>8
<1> HIDE DEF u
<1>6. Bind(w, run[w].turn, role, mode, receipt, reserved) /\ reserved \in SUBSET Rows
  BY <1>1
<1>7. \A r \in receipt : fate'[r] = "pending" /\ kind[r] = "message"
  BY <1>1, <1>2
<1> HIDE DEF receipt, reserved, mode
<1> QED BY <1>1, <1>2, <1>3, <1>4, <1>5, <1>6, <1>7, BindKeepsInv

(* A split, and a compaction that hands over.                              *)
LEMMA AdoptSplitsKeepsInv ==
    ASSUME IInv, NEW w \in Workers, AdoptSplits(w)
    PROVE  IInv'
<1> DEFINE old == run[w].marks \ {"completing", "forced"}
<1>1. PICK compact \in BOOLEAN :
        /\ Bind(w, run[w].turn, IF compact THEN "compaction" ELSE "assistant",
                turns[run[w].turn].mode, CarriedRows(w),
                {r \in CarriedRows(w) : kind[r] = "message"})
        /\ NoAck
        /\ Goto(w, IF compact THEN "compacting" ELSE "ready")
        /\ AdoptionTail(w, turnCount + 1,
             (IF NewlyAdopted(w) = {} THEN old ELSE old \ {"retried"})
                \cup (IF compact THEN {"continuing"} ELSE {}))
  BY DEF AdoptSplits
<1> DEFINE role == IF compact THEN "compaction" ELSE "assistant"
           q == IF compact THEN "compacting" ELSE "ready"
           marks == (IF NewlyAdopted(w) = {} THEN old ELSE old \ {"retried"})
                       \cup (IF compact THEN {"continuing"} ELSE {})
<1>2. MayAdopt(w)
  BY DEF AdoptSplits
<1>3. role \in {"assistant", "compaction"} /\ q \in InRun
  BY DEF InRun, LoopPcs
<1>4. marks \in SUBSET Marks
  BY TypeParts DEF IInv, RunTypes, RunType, Marks
<1> HIDE DEF role, q, marks
<1>5. /\ Bind(w, run[w].turn, role, turns[run[w].turn].mode, CarriedRows(w),
              {r \in CarriedRows(w) : kind[r] = "message"})
      /\ NoAck /\ Goto(w, q) /\ AdoptionTail(w, turnCount + 1, marks)
  BY <1>1 DEF role, q, marks
<1> QED BY <1>2, <1>3, <1>4, <1>5, SuccessorKeepsInv

(* A compaction's successor is reserved for all that is unanswered.        *)
LEMMA CompactionHandsOverKeepsInv ==
    ASSUME IInv, NEW w \in Workers, CompactionHandsOver(w)
    PROVE  IInv'
<1> DEFINE marks == IF NewlyAdopted(w) = {} THEN run[w].marks ELSE run[w].marks \ {"retried"}
<1>1. MayAdopt(w) /\ "ready" \in InRun
  BY DEF CompactionHandsOver, CompactionContinues, InRun, LoopPcs
<1>2. marks \in SUBSET Marks
  BY TypeParts DEF IInv, RunTypes, RunType
<1>3. /\ Bind(w, run[w].turn, "assistant", turns[run[w].turn].mode, CarriedRows(w),
              {r \in CarriedRows(w) : kind[r] = "message"})
      /\ NoAck /\ Goto(w, "ready") /\ AdoptionTail(w, turnCount + 1, marks)
  BY DEF CompactionHandsOver
<1> HIDE DEF marks
<1> QED BY <1>1, <1>2, <1>3, SuccessorKeepsInv

(* A required summary fails: its successor is reserved failed, and the     *)
(* execution ends with nothing unsettled.                                  *)
LEMMA CompactionFailsKeepsInv ==
    ASSUME IInv, NEW w \in Workers, CompactionFails(w)
    PROVE  IInv'
<1> USE DEF IInv
<1> DEFINE t == turnCount + 1
           receipt == CarriedRows(w)
           turn == run[w].turn
           failed == [exec |-> lease.exec, role |-> "assistant", status |-> "error",
                      mode |-> turns[turn].mode,
                      reservedFor |-> {r \in receipt : kind[r] = "message"}]
<1>1. /\ MayAdopt(w) /\ turnCount < MaxTurns /\ turnCount' = t
      /\ turns' = [turns EXCEPT ![turn].status = "error", ![t] = failed]
      /\ Ack(receipt, t) /\ EndExecution(w) /\ LeaveRun(w)
      /\ UNCHANGED <<count, kind, aiMode, decided, signals, faults, historyVars>>
  BY DEF CompactionFails, CompactionContinues
<1>2. receipt \in SUBSET Rows /\ pc[w] \in InRun /\ Owns(w)
  BY <1>1, CarriedRowsArePending
<1>3. turn \in Turns /\ \A x \in Turns : Open(x) => x = turn
  BY <1>2, OwnerHasTheTurn
<1>4. TurnTypes /\ lease \in LeaseType /\ t \in Turns /\ turnCount \in 0 .. MaxTurns
  BY <1>1, TypeParts, Ranges DEF TurnTypes, LeaseTypes
<1>5. failed \in TurnType /\ failed.status = "error" /\ failed.exec = lease.exec
  BY <1>2, <1>3, <1>4 DEF TurnTypes, TurnType, LeaseType
<1> HIDE DEF failed, receipt
<1>6. /\ turns' \in [Turns -> TurnType] /\ turns'[t] = failed
      /\ \A x \in Turns : turns'[x].status # "pending"
      /\ \A x \in Turns : x # t => turns'[x].exec = turns[x].exec
  <2> DEFINE ended == [turns EXCEPT ![turn].status = "error"]
  <2>1. ended \in [Turns -> TurnType]
    BY <1>3, <1>4 DEF TurnTypes, TurnType
  <2>2. \A x \in Turns : ended[x].exec = turns[x].exec /\ ended[x].status # "pending"
    BY <1>3, <1>4 DEF TurnTypes, TurnType, Open
  <2>3. turns' = [ended EXCEPT ![t] = failed]
    BY <1>1
  <2> HIDE DEF ended
  <2> QED BY <1>4, <1>5, <2>1, <2>2, <2>3
<1>7. lease' = NoLease /\ claim' \in Workers \cup {NoWorker} /\ NoLease \in LeaseType
  BY <1>1, <1>2, TypeParts, Ranges DEF EndExecution, LeaseTypes, NoLease, LeaseType
<1>8. RowTypes' /\ RowsOnlySettle
  BY <1>1, <1>4, AckTypes
<1>9. pc' \in [Workers -> Pcs] /\ run' \in [Workers -> RunType] /\ \A v \in Workers : RunIsKept(v)
  BY <1>1, ProcessLeaves
<1>10. TypeOK'
  <2>1. TurnTypes'
    <3>1. turnCount' \in 0 .. MaxTurns
      BY <1>1, <1>4, Ranges
    <3>2. aiMode' \in Modes
      BY <1>1, <1>4 DEF TurnTypes
    <3> QED BY <1>6, <3>1, <3>2 DEF TurnTypes
  <2>2. LeaseTypes' /\ CommandTypes' /\ RunTypes'
    BY <1>1, <1>7, <1>9, TypeParts DEF LeaseTypes, CommandTypes, RunTypes, historyVars
  <2> QED BY <1>8, <2>1, <2>2, TypePartsNext
<1>11. RowsFit' /\ OneQueuedSwitch'
  BY <1>1, <1>8, SettlingAddsNoSwitch
<1>12. ExecutionsFit'
  <2>1. lease.exec <= t
    BY DEF ExecutionsFit
  <2>2. \A x \in Turns : turns'[x].exec <= x
    BY <1>4, <1>5, <1>6, <2>1 DEF ExecutionsFit
  <2>3. lease'.exec = 0
    BY <1>7, Ranges DEF NoLease
  <2>4. 0 <= turnCount' + 1
    BY <1>1, <1>4, Ranges
  <2>5. lease'.exec <= turnCount' + 1
    BY <2>3, <2>4
  <2> QED BY <2>2, <2>5 DEF ExecutionsFit
<1>13. OpenTurnsFit' /\ OpenTurnHasItsLease' /\ ReplyKeepsItsMode'
  BY <1>6 DEF OpenTurnsFit, OpenTurnHasItsLease, ReplyKeepsItsMode, Open
<1>14. ReceiptIsPending' /\ OwnersFit'
  BY <1>7 DEF ReceiptIsPending, OwnersFit, Owns, NoLease
<1>15. RunsFit'
  <2> SUFFICES ASSUME NEW v \in Workers
               PROVE  /\ pc'[v] \in BeforeLease => run'[v].exec = NoExecution
                      /\ pc'[v] \in InRun => run'[v].turn \in Turns
                      /\ run'[v].eligible \subseteq run'[v].snap
    BY DEF RunsFit
  <2>1. CASE pc'[v] = "idle" /\ run'[v] = NoRun
    BY <2>1, Places DEF NoRun, BeforeLease
  <2>2. CASE ~(pc'[v] = "idle" /\ run'[v] = NoRun)
    BY <1>9, <2>2 DEF RunIsKept, RunsFit
  <2> QED BY <2>1, <2>2
<1> QED BY <1>10, <1>11, <1>12, <1>13, <1>14, <1>15

-------------------------------------------------------------------------------
(* The invariant holds initially.                                          *)
LEMMA InitInv == Init => IInv
<1> SUFFICES ASSUME Init PROVE IInv
  OBVIOUS
<1>0. lease.exec = NoExecution
  BY DEF Init, NoLease
<1>8. OwnersFit
  BY <1>0 DEF OwnersFit, Owns
<1>7. RunsFit
  <2>1. \A w \in Workers : pc[w] = "idle" /\ run[w] = NoRun
    BY DEF Init
  <2>2. "idle" \notin InRun
    BY DEF InRun, LoopPcs, Exits
  <2> QED BY <2>1, <2>2 DEF RunsFit, NoRun
<1> USE DEF Init
<1>1. RowTypes
  BY Ranges DEF RowTypes
<1>2. TurnTypes /\ LeaseTypes
  BY Ranges DEF TurnTypes, LeaseTypes, TurnType, LeaseType, BlankTurn, NoLease, Modes
<1>3. CommandTypes /\ RunTypes
  BY Ranges DEF CommandTypes, RunTypes, DecisionType, RunType, NoDecision, NoRun, Pcs
<1>4. TypeOK
  BY <1>1, <1>2, <1>3, TypeParts
<1>5. RowsFit /\ OneQueuedSwitch /\ ReceiptIsPending
  BY DEF RowsFit, OneQueuedSwitch, ReceiptIsPending, Switches, Pending, NoLease
<1>6. ExecutionsFit /\ OpenTurnsFit /\ OpenTurnHasItsLease /\ ReplyKeepsItsMode
  BY Ranges DEF ExecutionsFit, OpenTurnsFit, OpenTurnHasItsLease, ReplyKeepsItsMode, Open,
                BlankTurn, NoLease
<1> QED BY <1>4, <1>5, <1>6, <1>7, <1>8 DEF IInv

(* Every step keeps it.                                                    *)
LEMMA NextKeepsInv == IInv /\ [Next]_vars => IInv'
<1> SUFFICES ASSUME IInv, [Next]_vars PROVE IInv'
  OBVIOUS
<1>1. CASE UNCHANGED vars
  <2>1. TypeOK'
    BY <1>1 DEF IInv, TypeOK, vars, inboxVars, turnVars, leaseVars, procVars, historyVars
  <2>2. RowsOnlySettle /\ TurnsOnlySettle /\ LeaseIsKept /\ ReceiptIsPending'
    BY <1>1 DEF IInv, vars, inboxVars, turnVars, leaseVars, RowsOnlySettle, TurnsOnlySettle,
                LeaseIsKept, ReceiptIsPending
  <2>3. \A w \in Workers : RunIsKept(w)
    BY <1>1 DEF IInv, vars, procVars, RunIsKept, RunsFit
  <2> QED BY <2>1, <2>2, <2>3, QuietStep
<1>2. CASE Client
  <2>1. CASE SendMessage \/ RequestCompaction
    BY <2>1, MessageKeepsInv
  <2>2. CASE \E mode \in Modes : RequestSwitch(mode)
    BY <2>2, RequestSwitchKeepsInv
  <2>3. CASE \E r \in Rows : WithdrawControl(r)
    BY <2>3, WithdrawControlKeepsInv
  <2>4. CASE \E q \in Requests, ids \in SUBSET WriterRows : HandBack(q, ids)
    BY <2>4, HandBackKeepsInv
  <2>5. CASE \E q \in Requests, seen \in 0 .. count, e \in {NoExecution} \cup ShownExecs :
               \E mine \in SUBSET {r \in WriterRows : r > seen} : PressStop(q, seen, e, mine)
    BY <2>5, PressStopKeepsInv
  <2>6. CASE \E q \in Requests : ReplayStop(q)
    BY <2>6, ReplayStopKeepsInv
  <2>7. CASE \E seen \in 0 .. count, e \in ShownExecs :
               \E waiting \in SUBSET {r \in WriterRows : r <= seen} : SendNow(seen, e, waiting)
    <3>1. PICK seen \in 0 .. count, e \in ShownExecs :
            \E waiting \in SUBSET {r \in WriterRows : r <= seen} : SendNow(seen, e, waiting)
      BY <2>7
    <3>2. PICK waiting \in SUBSET {r \in WriterRows : r <= seen} : SendNow(seen, e, waiting)
      BY <3>1
    <3>3. seen \in Nat /\ waiting \in SUBSET Rows
      BY DEF WriterRows
    <3> QED BY <3>2, <3>3, SendNowKeepsInv
  <2>8. CASE \E t \in Turns : CancelTurn(t)
    BY <2>8, CancelTurnKeepsInv
  <2> QED BY <1>2, <2>1, <2>2, <2>3, <2>4, <2>5, <2>6, <2>7, <2>8 DEF Client
<1>3. CASE ExpireLease
  BY <1>3, ExpireLeaseKeepsInv
<1>4. ASSUME NEW w \in Workers, StartStep(w) PROVE IInv'
  <2>1. CASE Claim(w) \/ RepairOrphans(w) \/ EndStale(w) \/ InsertLease(w)
    BY <2>1, ClaimKeepsInv, RepairOrphansKeepsInv, EndStaleKeepsInv, InsertLeaseKeepsInv
  <2>2. CASE SelectStart(w) \/ ReselectStart(w)
    BY <2>2, SelectionKeepsInv
  <2>3. CASE CommitStart(w) \/ SwitchAndStart(w)
    BY <2>3, CommitStartKeepsInv, SwitchAndStartKeepsInv
  <2>4. CASE NoPendingWake(w) \/ StartLost(w)
    BY <2>4, EndStartKeepsInv
  <2> QED BY <1>4, <2>1, <2>2, <2>3, <2>4 DEF StartStep
<1>5. ASSUME NEW w \in Workers, LoopStep(w) PROVE IInv'
  <2>1. CASE LoopMoves(w)
    BY <2>1, LoopMovesKeepInv
  <2>2. CASE SelectAdoption(w) \/ ReselectAdoption(w)
    BY <2>2, SelectionKeepsInv
  <2>3. CASE Respond(w)
    BY <2>3, RespondKeepsInv
  <2>4. CASE Close(w) \/ CloseReply(w)
    BY <2>4, SettleTerminalKeepsInv
  <2>5. CASE AdoptNothing(w) \/ AdoptWithoutLease(w)
    BY <2>5, AdoptsNothingKeepsInv
  <2>6. CASE AdoptSplits(w) \/ CompactionHandsOver(w)
    BY <2>6, AdoptSplitsKeepsInv, CompactionHandsOverKeepsInv
  <2>7. CASE CompactionEnds(w) \/ CompactionFails(w)
    BY <2>7, CompactionEndsKeepsInv, CompactionFailsKeepsInv
  <2> QED BY <1>5, <2>1, <2>2, <2>3, <2>4, <2>5, <2>6, <2>7 DEF LoopStep, LoopMoves
<1>6. ASSUME NEW w \in Workers, FaultStep(w) PROVE IInv'
  BY <1>6, EndStartKeepsInv, CrashKeepsInv, LoseSessionKeepsInv, AbandonKeepsInv DEF FaultStep
<1>7. ASSUME NEW w \in Workers, Heartbeat(w) PROVE IInv'
  BY <1>7, HeartbeatKeepsInv
<1>8. ASSUME NEW w \in Workers, NEW e \in Execs, AbortLocally(w, e) PROVE IInv'
  BY <1>8, AbortLocallyKeepsInv
<1> QED BY <1>1, <1>2, <1>3, <1>4, <1>5, <1>6, <1>7, <1>8 DEF Next

(* It holds throughout.                                                    *)
LEMMA InvHolds == Spec => []IInv
BY InitInv, NextKeepsInv, PTL DEF Spec

-------------------------------------------------------------------------------
(* The variables keep their types: no step makes a status, an execution or *)
(* a receipt the code does not know.                                       *)
THEOREM TypeIsInvariant == Spec => []TypeOK
<1>1. IInv => TypeOK
  BY DEF IInv
<1> QED BY <1>1, InvHolds, PTL

(* At most one turn is unsettled and the lease row of its execution names  *)
(* it, through crashes, lost session locks, expired leases and takeovers   *)
(* by any number of processes.                                             *)
THEOREM OpenTurnHasItsLeaseIsInvariant == Spec => []OpenTurnHasItsLease
<1>1. IInv => OpenTurnHasItsLease
  BY DEF IInv
<1> QED BY <1>1, InvHolds, PTL

(* The receipt names only pending messages, whatever is handed back,       *)
(* withdrawn or taken on while a selection is being prepared.              *)
THEOREM ReceiptIsPendingIsInvariant == Spec => []ReceiptIsPending
<1>1. IInv => ReceiptIsPending
  BY DEF IInv
<1> QED BY <1>1, InvHolds, PTL

(* At most one switch is queued, and it would change the chat's mode.      *)
THEOREM OneQueuedSwitchIsInvariant == Spec => []OneQueuedSwitch
<1>1. IInv => OneQueuedSwitch
  BY DEF IInv
<1> QED BY <1>1, InvHolds, PTL

(* The chat's mode does not move under an unsettled reply.                 *)
THEOREM ReplyKeepsItsModeIsInvariant == Spec => []ReplyKeepsItsMode
<1>1. IInv => ReplyKeepsItsMode
  BY DEF IInv
<1> QED BY <1>1, InvHolds, PTL

-------------------------------------------------------------------------------
(* A flagged execution takes nothing on: only reservations grow a receipt, *)
(* and each of them looks at the flag under the lock.                      *)
ReceiptShrinks == lease.flag /\ lease'.exec = lease.exec => lease'.receipt \subseteq lease.receipt

(* A step that leaves the receipt, or ends the lease.                      *)
LEMMA ReceiptLeftAlone ==
    ASSUME lease' = NoLease \/ lease'.receipt \subseteq lease.receipt
    PROVE  ReceiptShrinks
BY DEF ReceiptShrinks, NoLease

(* The commands take rows out of the receipt, if anything.                 *)
LEMMA ClientLeavesReceipt == IInv /\ Client => ReceiptShrinks
<1> SUFFICES ASSUME IInv, Client PROVE ReceiptShrinks
  OBVIOUS
<1>1. lease \in LeaseType
  BY TypeParts DEF IInv, LeaseTypes
<1>2. lease'.receipt \subseteq lease.receipt
  <2>1. CASE lease' = lease
    BY <2>1
  <2>2. CASE \E q \in Requests : \E d, e : ApplyHandBack(q, d, e)
    <3>1. PICK q, d, e : ApplyHandBack(q, d, e)
      BY <2>2
    <3>2. lease' = [lease EXCEPT !.receipt = @ \ d.handBack,
                                 !.flag = @ \/ (e # NoExecution /\ e = lease.exec)]
      BY <3>1 DEF ApplyHandBack
    <3> QED BY <1>1, <3>2 DEF LeaseType
  <2>3. CASE lease' = [lease EXCEPT !.flag = TRUE]
    BY <1>1, <2>3 DEF LeaseType
  <2>4. lease' = lease \/ lease' = [lease EXCEPT !.flag = TRUE]
        \/ \E q \in Requests : \E d, e : ApplyHandBack(q, d, e)
    BY DEF Client, SendMessage, RequestCompaction, RequestSwitch, WithdrawControl, HandBack,
           PressStop, ReplayStop, SendNow, CancelTurn, leaseVars
  <2> QED BY <2>1, <2>2, <2>3, <2>4
<1> QED BY <1>2, ReceiptLeftAlone

(* Nor does a process's step grow the receipt of a flagged execution.      *)
LEMMA ProcessLeavesReceipt ==
    ASSUME IInv, NEW w \in Workers,
           StartStep(w) \/ LoopStep(w) \/ FaultStep(w) \/ Heartbeat(w)
             \/ \E e \in Execs : AbortLocally(w, e)
    PROVE  ReceiptShrinks
<1>1. lease \in LeaseType
  BY TypeParts DEF IInv, LeaseTypes
<1>3. CASE RepairOrphans(w) \/ Heartbeat(w) \/ Abandon(w) \/ Respond(w)
  <2>1. \/ lease' = lease \/ lease' = [lease EXCEPT !.turn = NoTurn, !.receipt = {}]
        \/ lease' = [lease EXCEPT !.expired = FALSE] \/ lease' = [lease EXCEPT !.expired = TRUE]
        \/ lease' = [lease EXCEPT !.receipt = {}]
    BY <1>3 DEF RepairOrphans, Heartbeat, Abandon, Respond, ClearReceipt
  <2>2. lease'.receipt \subseteq lease.receipt
    BY <1>1, <2>1 DEF LeaseType
  <2> QED BY <2>2, ReceiptLeftAlone
<1>4. CASE CommitStart(w) \/ SwitchAndStart(w) \/ AdoptSplits(w) \/ CompactionHandsOver(w)
  <2>1. ~lease.flag
    BY <1>4 DEF CommitStart, SwitchAndStart, AdoptSplits, CompactionHandsOver,
                CompactionContinues, MayAdopt
  <2> QED BY <2>1 DEF ReceiptShrinks
<1>5. CASE InsertLease(w)
  <2>1. CASE lease.exec = NoExecution
    <3>1. lease'.exec # lease.exec
      <4>1. lease' = [NoLease EXCEPT !.exec = FreshExec, !.holder = w]
        BY <1>5, <2>1 DEF InsertLease
      <4>2. FreshExec # NoExecution
        BY <1>5, FreshExecIsAnExecution DEF IInv
      <4> QED BY <2>1, <4>1, <4>2 DEF NoLease
    <3> QED BY <3>1 DEF ReceiptShrinks
  <2>2. CASE lease.exec # NoExecution
    <3>1. lease' = lease
      BY <1>5, <2>2 DEF InsertLease
    <3> QED BY <3>1, ReceiptLeftAlone
  <2> QED BY <2>1, <2>2
<1>6. CASE StartStep(w) /\ ~RepairOrphans(w) /\ ~InsertLease(w) /\ ~CommitStart(w) /\ ~SwitchAndStart(w)
  <2>1. lease' = lease \/ lease' = NoLease
    BY <1>6 DEF StartStep, Claim, EndStale, SelectStart, ReselectStart, NoPendingWake, StartLost,
                EndStart, EndExecution, leaseVars
  <2> QED BY <2>1, ReceiptLeftAlone
<1>7. CASE LoopStep(w) /\ ~Respond(w) /\ ~AdoptSplits(w) /\ ~CompactionHandsOver(w)
  <2>1. LoopMoves(w) => lease' = lease
    BY DEF LoopMoves, ReadQueued, BeginRequest, ResponseRefused, Overflow, StreamCancelled,
           RunFails, Boundary, ContinueReply, BeginCompaction, AdoptionCancelled, AdoptYields,
           leaseVars
  <2>2. ~LoopMoves(w) => lease' = lease \/ lease' = NoLease
    BY <1>7 DEF LoopStep, LoopMoves, SelectAdoption, ReselectAdoption, Close, CloseReply,
                SettleTerminal, AdoptNothing, AdoptWithoutLease, CompactionEnds,
                CompactionFails, EndExecution, leaseVars
  <2> QED BY <2>1, <2>2, ReceiptLeftAlone
<1>8. CASE (FaultStep(w) /\ ~Abandon(w)) \/ \E e \in Execs : AbortLocally(w, e)
  <2>1. lease' = lease \/ lease' = NoLease
    BY <1>8 DEF FaultStep, SetupFails, EndStart, EndExecution, Crash, LoseSession, AbortLocally,
                leaseVars
  <2> QED BY <2>1, ReceiptLeftAlone
<1> QED BY <1>3, <1>4, <1>5, <1>6, <1>7, <1>8

(* A Stop, Send now or turn cancel that flagged an execution has the last  *)
(* word: nothing is added to what the execution took on.                   *)
THEOREM FlaggedAdoptsNothingHolds == Spec => FlaggedAdoptsNothing
<1>1. IInv /\ [Next]_vars => [ReceiptShrinks]_vars
  <2> SUFFICES ASSUME IInv, Next PROVE ReceiptShrinks
    OBVIOUS
  <2>1. CASE ExpireLease
    <3>1. lease \in LeaseType /\ lease' = [lease EXCEPT !.expired = TRUE]
      BY <2>1, TypeParts DEF ExpireLease, IInv, LeaseTypes
    <3>2. lease'.receipt \subseteq lease.receipt
      BY <3>1 DEF LeaseType
    <3> QED BY <3>2, ReceiptLeftAlone
  <2> QED BY <2>1, ClientLeavesReceipt, ProcessLeavesReceipt DEF Next
<1>2. Spec => [][ReceiptShrinks]_vars
  BY <1>1, InvHolds, PTL DEF Spec
<1> QED BY <1>2 DEF FlaggedAdoptsNothing, ReceiptShrinks
=============================================================================
