----------------------------- MODULE RunDelivery ------------------------------
(***************************************************************************)
(* One chat's inbox, its run lease and the processes that run it: the      *)
(* runtime domain's delivery path.  A step is one thread-lock transaction, *)
(* one lone database write, or one read whose value is used after an       *)
(* await.  The database is `inbox` rows, `turns`, the chat's mode and the  *)
(* lease row; `claim` is the session lock of the chat; `pc` and `run` are  *)
(* a process's memory of the run it drives, lost when it dies.             *)
(***************************************************************************)
EXTENDS InboxSelection, StopRule

CONSTANTS
    Workers,        \* server processes (a lease's holderId)
    NoWorker,
    Requests,       \* request ids of Stop and hand-back commands
    Commands,       \* which commands clients send in this instance
    AutoCompact,    \* whether a request may be found too large and compacted
    StallPoints,    \* pcs at which a live holder may miss its renewals
    MaxRows,        \* bound: inbox rows ever enqueued
    MaxTurns,       \* bound: reply turns ever reserved
    MaxFaults       \* bound: crashes, lost sessions and failed commits

Rows  == 1 .. MaxRows
Turns == 1 .. MaxTurns
NoTurn == 0
Execs == 1 .. MaxTurns + 1

Exits == {"exitSuccess", "exitFailed", "exitCancelled"}
StartPcs == {"repair", "endStale", "insert", "starting", "selected"}
LoopPcs  == {"bound", "ready", "streaming", "boundary", "closeOrContinue",
             "adopting", "adoptSelected", "compacting"}
Pcs == {"idle"} \cup StartPcs \cup LoopPcs \cup Exits

Marks == {"aborted", "completing", "forced", "retried", "continuing"}
AllCommands == {"message", "switch", "withdraw", "compact", "handBack", "stop",
                "sendNow", "cancelTurn"}

ASSUME ConstantsAssumption ==
    /\ NoWorker \notin Workers
    /\ MaxRows \in Nat /\ MaxTurns \in Nat /\ MaxFaults \in Nat
    /\ Commands \subseteq AllCommands
    /\ AutoCompact \in BOOLEAN
    /\ StallPoints \subseteq Pcs

VARIABLES
    count, kind, fate, deliveredBy, \* thread_inbox_messages
    turnCount, turns, aiMode,       \* turns, threads.ai_write_mode
    lease, claim,                   \* thread_run_leases, the session lock
    decided,                        \* thread_hand_backs, by request id
    pc, run, signals,               \* process memory, post-commit aborts due
    faults,                         \* faults so far
    answers, cancelTargets, spared  \* history, for the properties only

inboxVars   == <<count, kind, fate, deliveredBy>>
turnVars    == <<turnCount, turns, aiMode>>
leaseVars   == <<lease, claim>>
procVars    == <<pc, run>>
historyVars == <<answers, cancelTargets, spared>>
vars == <<inboxVars, turnVars, leaseVars, decided, procVars, signals, faults, historyVars>>

NoLease == [exec |-> NoExecution, holder |-> NoWorker, turn |-> NoTurn,
            receipt |-> {}, flag |-> FALSE, expired |-> FALSE]
NoRun == [exec |-> NoExecution, turn |-> NoTurn, acks |-> {}, snap |-> {},
          eligible |-> {}, marks |-> {}]
BlankTurn == [exec |-> NoExecution, role |-> "none", status |-> "none",
              mode |-> "direct", reservedFor |-> {}]
NoDecision == [decided |-> FALSE, handBack |-> {}, gone |-> {}, answered |-> {},
               cancels |-> NoExecution]

TypeOK ==
    /\ count \in 0 .. MaxRows
    /\ kind \in [Rows -> RowKinds \cup {"absent"}]
    /\ fate \in [Rows -> {"absent", "pending", "delivered", "handedBack"}]
    /\ deliveredBy \in [Rows -> Turns \cup {NoTurn}]
    /\ turnCount \in 0 .. MaxTurns
    /\ turns \in [Turns -> [exec : Execs \cup {NoExecution},
                            role : {"none", "assistant", "compaction"},
                            status : {"none", "pending", "complete", "error", "cancelled"},
                            mode : Modes, reservedFor : SUBSET Rows]]
    /\ aiMode \in Modes
    /\ lease \in [exec : Execs \cup {NoExecution}, holder : Workers \cup {NoWorker},
                  turn : Turns \cup {NoTurn}, receipt : SUBSET Rows,
                  flag : BOOLEAN, expired : BOOLEAN]
    /\ claim \in Workers \cup {NoWorker}
    /\ decided \in [Requests -> [decided : BOOLEAN, handBack : SUBSET Rows,
                                 gone : SUBSET Rows, answered : SUBSET Rows,
                                 cancels : Execs \cup {NoExecution}]]
    /\ pc \in [Workers -> Pcs]
    /\ run \in [Workers -> [exec : Execs \cup {NoExecution}, turn : Turns \cup {NoTurn},
                            acks : SUBSET Rows, snap : SUBSET Rows, eligible : SUBSET Rows,
                            marks : SUBSET Marks]]
    /\ signals \subseteq Execs
    /\ faults \in 0 .. MaxFaults
    /\ answers \in [Rows -> SUBSET Turns]
    /\ cancelTargets \subseteq Execs
    /\ spared \in [Execs -> SUBSET Rows]

Init ==
    /\ count = 0
    /\ kind = [r \in Rows |-> "absent"]
    /\ fate = [r \in Rows |-> "absent"]
    /\ deliveredBy = [r \in Rows |-> NoTurn]
    /\ turnCount = 0
    /\ turns = [t \in Turns |-> BlankTurn]
    /\ aiMode = "direct"
    /\ lease = NoLease
    /\ claim = NoWorker
    /\ decided = [q \in Requests |-> NoDecision]
    /\ pc = [w \in Workers |-> "idle"]
    /\ run = [w \in Workers |-> NoRun]
    /\ signals = {}
    /\ faults = 0
    /\ answers = [r \in Rows |-> {}]
    /\ cancelTargets = {}
    /\ spared = [e \in Execs |-> {}]

-------------------------------------------------------------------------------
(* What the database says.                                                 *)

Pending == {r \in Rows : fate[r] = "pending"}

Open(t) == t \in Turns /\ turns[t].status = "pending"

(* A lease row that has not expired: what every expiry-filtered read sees. *)
LiveLease == lease.exec # NoExecution /\ ~lease.expired

(* readPendingProjection's run: the bound rows as a filtered read gives them. *)
BoundRows == IF LiveLease /\ lease.turn # NoTurn THEN lease.receipt ELSE {}

Eligible == Pending \ BoundRows

(* Some turn carries the lease's execution (readOpenExecutionId).          *)
ExecutionTurns(e) == {t \in Turns : t <= turnCount /\ turns[t].exec = e}
Carried == lease.exec # NoExecution /\ ExecutionTurns(lease.exec) # {}

(* Mutant: any lease of the chat counts as this process's own.             *)
OwnsAnyLease(w) == lease.exec # NoExecution

(* ownedLease: the row still names this process's execution and holder.    *)
Owns(w) == /\ lease.exec # NoExecution
           /\ lease.exec = run[w].exec
           /\ lease.holder = w

FreshExec == IF turnCount = 0 THEN 1 ELSE turns[turnCount].exec + 1

Role(w) == IF run[w].turn = NoTurn THEN "none" ELSE turns[run[w].turn].role

Aborted(w) == "aborted" \in run[w].marks

(* The inbox ack: pending rows are delivered once; a message row records   *)
(* the turn that delivered it.                                             *)
Ack(rows, t) ==
    /\ fate' = [r \in Rows |-> IF r \in rows /\ fate[r] = "pending"
                               THEN "delivered" ELSE fate[r]]
    /\ deliveredBy' = [r \in Rows |-> IF r \in rows /\ fate[r] = "pending" /\ kind[r] = "message"
                             THEN t ELSE deliveredBy[r]]

NoAck == UNCHANGED <<fate, deliveredBy>>

(* A command flags execution e for cancellation (NoExecution: none); its   *)
(* process aborts it after the commit.  History: what the command spares.  *)
CancelExecution(e, spares) ==
    /\ signals' = signals \cup ({e} \ {NoExecution})
    /\ cancelTargets' = cancelTargets \cup ({e} \ {NoExecution})
    /\ spared' = [x \in Execs |-> IF x = e THEN spared[x] \cup spares ELSE spared[x]]

(* Mutant: the session lock outlives the execution.                        *)
EndLeaseOnly(w) ==
    /\ lease' = IF Owns(w) THEN NoLease ELSE lease
    /\ claim' = claim

(* endExecution: the owner's delete of the lease row, with its claim.      *)
EndExecution(w) ==
    /\ lease' = IF Owns(w) THEN NoLease ELSE lease
    /\ claim' = IF claim = w THEN NoWorker ELSE claim

Goto(w, where) == pc' = [pc EXCEPT ![w] = where]

LeaveRun(w) == /\ Goto(w, "idle")
               /\ run' = [run EXCEPT ![w] = NoRun]

-------------------------------------------------------------------------------
(* Clients: every command is one thread-lock transaction.                  *)

(* inbox.enqueue of a fresh row.  Its status is given: a switch request    *)
(* that changes nothing writes its row already acknowledged.               *)
NewRow(k, status, settled) ==
    /\ count < MaxRows
    /\ count' = count + 1
    /\ kind' = [kind EXCEPT ![count + 1] = k]
    /\ fate' = [r \in Rows |-> IF r = count + 1 THEN status
                               ELSE IF r \in settled THEN "delivered" ELSE fate[r]]

SendMessage ==
    /\ "message" \in Commands
    /\ NewRow("message", "pending", {})
    /\ UNCHANGED <<deliveredBy, turnVars, leaseVars, decided, procVars, signals,
                   faults, historyVars>>

(* enqueueRow for a compaction: only after a completed reply.              *)
RequestCompaction ==
    /\ "compact" \in Commands
    /\ \E t \in Turns : turns[t].role = "assistant" /\ turns[t].status = "complete"
    /\ NewRow("compact", "pending", {})
    /\ UNCHANGED <<deliveredBy, turnVars, leaseVars, decided, procVars, signals,
                   faults, historyVars>>

(* Mutant: a switch back queues a second switch.                           *)
SwitchWithoutCancelOut(mode) ==
    /\ "switch" \in Commands
    /\ NewRow(mode, IF aiMode = mode THEN "delivered" ELSE "pending", {})
    /\ UNCHANGED <<deliveredBy, turnVars, leaseVars, decided, procVars, signals,
                   faults, historyVars>>

(* Mutant: a switch applies when it is requested.                          *)
SwitchAtOnce(mode) ==
    /\ "switch" \in Commands
    /\ NewRow(mode, "delivered", {})
    /\ aiMode' = mode
    /\ UNCHANGED <<deliveredBy, turnCount, turns, leaseVars, decided, procVars, signals,
                   faults, historyVars>>

(* enqueueRow for a write mode.  A request for the mode the chat is about  *)
(* to have settles at once; a switch back also settles the queued switch.  *)
RequestSwitch(mode) ==
    /\ "switch" \in Commands
    /\ LET queued == QueuedSwitch(Pending, kind)
           unchanged == IF queued = NoRow THEN aiMode = mode ELSE kind[queued] = mode
       IN  IF queued # NoRow \/ unchanged
           THEN NewRow(mode, "delivered", IF unchanged THEN {} ELSE {queued})
           ELSE NewRow(mode, "pending", {})
    /\ UNCHANGED <<deliveredBy, turnVars, leaseVars, decided, procVars, signals,
                   faults, historyVars>>

(* withdrawControl of a pending control: its turn does not exist, because  *)
(* the turn and the control's acknowledgement commit together.             *)
WithdrawControl(r) ==
    /\ "withdraw" \in Commands
    /\ r \in Controls(Pending, kind)
    /\ Ack({r}, NoTurn)
    /\ UNCHANGED <<count, kind, turnVars, leaseVars, decided, procVars, signals,
                   faults, historyVars>>

(* readFacts: the lease row whatever its expiry, and the writer rows the   *)
(* scope can name (`seen` scope: waiting, answered by the open execution,  *)
(* the press's own, handed back up to the watermark).                      *)
Facts(scopeRows) ==
    [execution |-> IF Carried THEN lease.exec ELSE NoExecution,
     holder |-> IF Carried /\ lease.turn # NoTurn THEN turns[lease.turn].role ELSE "none",
     receipt |-> lease.receipt,
     rows |-> scopeRows,
     delivered |-> {r \in scopeRows : fate[r] # "pending"},
     byExecution |-> {r \in scopeRows : Carried /\ deliveredBy[r] \in ExecutionTurns(lease.exec)},
     gone |-> {r \in scopeRows : fate[r] = "handedBack"},
     continuesWriterAnswer |-> FALSE]

WriterRows == {r \in Rows : kind[r] = "message"}

SeenRows(seenThrough, mine) ==
    {r \in WriterRows :
        \/ fate[r] = "pending"
        \/ Carried /\ deliveredBy[r] \in ExecutionTurns(lease.exec)
        \/ r \in mine
        \/ fate[r] = "handedBack" /\ r <= seenThrough}

(* handBackRequest: the decision is recorded, the rows leave the chat, a   *)
(* cancelled compaction's receipt gives back what it had taken on, and the *)
(* execution is flagged.                                                   *)
ApplyHandBack(q, decision, cancels) ==
    /\ ~decided[q].decided
    /\ decided' = [decided EXCEPT ![q] =
          [decided |-> TRUE, handBack |-> decision.handBack, gone |-> decision.gone,
           answered |-> decision.answered, cancels |-> cancels]]
    /\ fate' = [r \in Rows |-> IF r \in decision.handBack /\ fate[r] = "pending"
                               THEN "handedBack" ELSE fate[r]]
    /\ lease' = [lease EXCEPT !.receipt = @ \ decision.handBack,
                              !.flag = @ \/ (cancels # NoExecution /\ cancels = lease.exec)]
    /\ CancelExecution(cancels, Rows \ decision.answered)
    /\ UNCHANGED <<count, kind, deliveredBy, turnVars, claim, procVars, faults, answers>>

(* The queue's x and Cancel queue: never cancels the execution.            *)
HandBack(q, ids) ==
    /\ "handBack" \in Commands
    /\ LET rows == WriterRows \cap ids
       IN  ApplyHandBack(q, DecideHandBack(Facts(rows), rows, FALSE), NoExecution)

(* Stop, with the watermark, the execution the writer saw, and the         *)
(* messages of the press that the record did not show yet.                 *)
PressStop(q, seenThrough, seenExecution, mine) ==
    /\ "stop" \in Commands
    /\ LET result == DecideStop(Facts(SeenRows(seenThrough, mine)), seenThrough,
                                seenExecution, mine)
       IN  ApplyHandBack(q, result.decision, result.cancels)

(* A replayed Stop answers the stored decision and changes no row; its     *)
(* session then aborts the execution the decision names, if it runs it.    *)
ReplayStop(q) ==
    /\ "stop" \in Commands
    /\ decided[q].decided /\ decided[q].cancels # NoExecution
    /\ signals' = signals \cup {decided[q].cancels}
    /\ UNCHANGED <<inboxVars, turnVars, leaseVars, decided, procVars, faults, historyVars>>

SendNow(seenThrough, seenExecution, waiting) ==
    /\ "sendNow" \in Commands
    /\ LET target == DecideSendNow(Facts(SeenRows(seenThrough, waiting)), seenThrough,
                                   seenExecution, waiting)
       IN  /\ target # NoExecution
           /\ lease' = [lease EXCEPT !.flag = TRUE]
           /\ CancelExecution(target, waiting \cup {r \in Rows : r > seenThrough})
    /\ UNCHANGED <<inboxVars, turnVars, claim, decided, procVars, faults, answers>>

(* Cancelling a turn: flags the live lease that bound it.                  *)
CancelTurn(t) ==
    /\ "cancelTurn" \in Commands
    /\ LiveLease /\ lease.turn # NoTurn
    /\ t \in ExecutionTurns(lease.exec)
    /\ lease' = [lease EXCEPT !.flag = TRUE]
    /\ CancelExecution(lease.exec, {})
    /\ UNCHANGED <<inboxVars, turnVars, claim, decided, procVars, faults, answers>>

(* Mutant: a late abort hits whatever run the process has now.             *)
AbortWhateverRuns(w, e) ==
    /\ e \in signals
    /\ signals' = signals \ {e}
    /\ run' = IF pc[w] # "idle" THEN [run EXCEPT ![w].marks = @ \cup {"aborted"}] ELSE run
    /\ UNCHANGED <<inboxVars, turnVars, leaseVars, decided, pc, faults, historyVars>>

(* After the command commits, the process that served it aborts its own    *)
(* run of the chat when that run is the flagged execution.                 *)
AbortLocally(w, e) ==
    /\ e \in signals
    /\ signals' = signals \ {e}
    /\ run' = IF pc[w] # "idle" /\ run[w].exec = e
              THEN [run EXCEPT ![w].marks = @ \cup {"aborted"}]
              ELSE run
    /\ UNCHANGED <<inboxVars, turnVars, leaseVars, decided, pc, faults, historyVars>>

-------------------------------------------------------------------------------
(* Starting a run.  A wake follows an enqueue, a release or a sweep; a     *)
(* lone switch never causes one.                                           *)

WakeDue == \E r \in Pending : kind[r] \notin Modes

(* startExecution: the session lock is free, so the last holder is gone.   *)
Claim(w) ==
    /\ pc[w] = "idle"
    /\ claim = NoWorker
    /\ WakeDue
    /\ claim' = w
    /\ Goto(w, "repair")
    /\ UNCHANGED <<inboxVars, turnVars, lease, decided, run, signals, faults, historyVars>>

(* settleStaleExecution, first transaction: every unsettled turn fails; a  *)
(* dead reply's receipt is answered, a dead compaction's stays pending.    *)
RepairOrphans(w) ==
    /\ pc[w] = "repair"
    /\ LET bound == IF Open(lease.turn) THEN lease.turn ELSE NoTurn
       IN  /\ turns' = [t \in Turns |-> IF Open(t)
                                        THEN [turns[t] EXCEPT !.status = "error"]
                                        ELSE turns[t]]
           /\ IF bound # NoTurn /\ turns[bound].role = "assistant"
              THEN Ack(lease.receipt, bound)
              ELSE NoAck
           /\ lease' = IF bound # NoTurn
                       THEN [lease EXCEPT !.turn = NoTurn, !.receipt = {}]
                       ELSE lease
    /\ Goto(w, "endStale")
    /\ UNCHANGED <<count, kind, turnCount, aiMode, claim, decided, run, signals, faults,
                   historyVars>>

(* Second transaction: the stale lease ends when its execution has no      *)
(* unsettled turn; otherwise the start throws and frees the claim.         *)
EndStale(w) ==
    /\ pc[w] = "endStale"
    /\ IF \E t \in ExecutionTurns(lease.exec) : lease.exec # NoExecution /\ Open(t)
       THEN /\ claim' = IF claim = w THEN NoWorker ELSE claim
            /\ LeaveRun(w)
            /\ lease' = lease
       ELSE /\ lease' = NoLease
            /\ Goto(w, "insert")
            /\ UNCHANGED <<claim, run>>
    /\ UNCHANGED <<inboxVars, turnVars, decided, signals, faults, historyVars>>

(* The new execution's row; a process that lost the session lock meanwhile *)
(* hits the row of the one that has it, and its start throws.              *)
InsertLease(w) ==
    /\ pc[w] = "insert"
    /\ IF lease.exec = NoExecution
       THEN /\ lease' = [NoLease EXCEPT !.exec = FreshExec, !.holder = w]
            /\ run' = [run EXCEPT ![w].exec = FreshExec]
            /\ Goto(w, "starting")
            /\ claim' = claim
       ELSE /\ claim' = IF claim = w THEN NoWorker ELSE claim
            /\ LeaveRun(w)
            /\ lease' = lease
    /\ UNCHANGED <<inboxVars, turnVars, decided, signals, faults, historyVars>>

AtStart(rows) == NextAtRunStart(rows, kind, FALSE)

(* The optimistic half of every attempt remembers the queue it read and    *)
(* the rows it may choose from.                                            *)
Selected(w) == run' = [run EXCEPT ![w].snap = Pending, ![w].eligible = Eligible]
Unselected(w) == run' = [run EXCEPT ![w].snap = {}, ![w].eligible = {}]

(* The optimistic attempt: select and prepare without the thread lock.  A  *)
(* due switch is left to the locked attempt.                               *)
SelectStart(w) ==
    /\ pc[w] = "starting"
    /\ ~Aborted(w)
    /\ AtStart(Eligible).kind # "switch"
    /\ Selected(w)
    /\ Goto(w, "selected")
    /\ UNCHANGED <<inboxVars, turnVars, leaseVars, decided, signals, faults, historyVars>>

(* Mutant: a preparation is committed without looking at the queue again.  *)
SelectionNeverStale(w) == pc[w] # "idle"

(* selectionStillCurrent: a stale preparation is made again.               *)
SelectionStillCurrent(w) == run[w].snap = Pending

ReselectStart(w) ==
    /\ pc[w] = "selected"
    /\ ~SelectionStillCurrent(w)
    /\ Goto(w, "starting")
    /\ Unselected(w)
    /\ UNCHANGED <<inboxVars, turnVars, leaseVars, decided, signals, faults, historyVars>>

(* A reply turn is reserved and bound to the lease with its receipt.       *)
Bind(w, settled, role, mode, receipt, reservedFor) ==
    LET t == turnCount + 1
    IN  /\ turnCount < MaxTurns
        /\ turnCount' = t
        /\ turns' = [u \in Turns |->
              IF u = t THEN [exec |-> lease.exec, role |-> role, status |-> "pending",
                             mode |-> mode, reservedFor |-> reservedFor]
              ELSE IF u = settled THEN [turns[u] EXCEPT !.status = "complete"]
              ELSE turns[u]]
        /\ lease' = [lease EXCEPT !.turn = t, !.receipt = receipt]

(* A selection's reservation: a compaction control or an oversized request *)
(* reserves a compaction, anything else an assistant.                      *)
ReserveStart(w, rows, mode, switch) ==
    LET selection == AtStart(rows)
        control == {selection.control} \ {NoRow}
    IN  /\ selection.kind \in {"batch", "control"}
        /\ \E role \in {"assistant", "compaction"} :
              /\ role = "compaction" => (control # {} \/ AutoCompact)
              /\ role = "assistant" => control = {}
              /\ Bind(w, NoTurn, role, mode, selection.rows,
                      {r \in selection.rows : kind[r] = "message"})
        /\ Ack(control \cup switch, NoTurn)
        /\ aiMode' = mode
        /\ run' = [run EXCEPT ![w].turn = turnCount + 1, ![w].snap = {}, ![w].eligible = {}]
        /\ Goto(w, "bound")
        /\ UNCHANGED <<count, kind, claim, decided, signals, faults, historyVars>>

CommitStart(w) ==
    /\ pc[w] = "selected"
    /\ SelectionStillCurrent(w) /\ Owns(w) /\ ~lease.flag /\ ~Aborted(w)
    /\ ReserveStart(w, run[w].eligible, aiMode, {})

(* The locked attempt for a due switch: the chat's mode, the switch's      *)
(* acknowledgement and the reservation commit together.                    *)
SwitchAndStart(w) ==
    /\ pc[w] = "starting"
    /\ Owns(w) /\ ~lease.flag /\ ~Aborted(w)
    /\ AtStart(Eligible).kind = "switch"
    /\ LET due == AtStart(Eligible).control
       IN  ReserveStart(w, Eligible \ {due}, kind[due], {due})

(* A run that reserved nothing ends: nothing was pending any more, the     *)
(* lease was lost, or the setup failed (no credits, a preparation error).  *)
EndStart(w) ==
    /\ EndExecution(w)
    /\ LeaveRun(w)
    /\ UNCHANGED <<inboxVars, turnVars, decided, signals, historyVars>>

NoPendingWake(w) ==
    /\ pc[w] = "selected"
    /\ SelectionStillCurrent(w)
    /\ AtStart(run[w].eligible).kind = "none"
    /\ EndStart(w)
    /\ faults' = faults

StartLost(w) ==
    /\ pc[w] \in {"starting", "selected"}
    /\ ~Owns(w) \/ Aborted(w)
    /\ EndStart(w)
    /\ faults' = faults

SetupFails(w) ==
    /\ pc[w] \in {"starting", "selected"}
    /\ faults < MaxFaults
    /\ EndStart(w)
    /\ faults' = faults + 1

-------------------------------------------------------------------------------
(* The model loop.                                                         *)

(* The reply's first request acknowledges what the projection says the run *)
(* was given.  That read joins the lease only while it has not expired.    *)
ReadQueued(w) ==
    /\ pc[w] = "bound"
    /\ run' = [run EXCEPT ![w].acks = BoundRows]
    /\ Goto(w, "ready")
    /\ UNCHANGED <<inboxVars, turnVars, leaseVars, decided, signals, faults, historyVars>>

(* The cancel check in front of every request: the local abort, or the     *)
(* flag of an unexpired lease.                                             *)
Cancelled(w) == Aborted(w) \/ (LiveLease /\ lease.flag)

BeginRequest(w) ==
    /\ pc[w] = "ready"
    /\ Goto(w, IF Cancelled(w) THEN "exitCancelled"
               ELSE IF Role(w) = "compaction" THEN "compacting" ELSE "streaming")
    /\ UNCHANGED <<inboxVars, turnVars, leaseVars, decided, run, signals, faults, historyVars>>

(* Mutant: the acknowledged rows stay in the receipt.                      *)
KeepReceipt(w) ==
    /\ Owns(w) /\ lease.receipt = run[w].acks
    /\ lease' = lease

(* clearReceipt: only the owner's, and only the receipt it was given.      *)
ClearReceipt(w) ==
    /\ Owns(w) /\ lease.receipt = run[w].acks
    /\ lease' = [lease EXCEPT !.receipt = {}]

(* ackWithResponse: the response, the receipt's clearing and the           *)
(* acknowledgement commit together; with nothing to acknowledge only the   *)
(* response is written.  The response goes on with tools, ends the reply,  *)
(* or is one the loop fails on (out of output tokens, an error finish).    *)
(* An abort after the last stream event comes too late for this response.  *)
Respond(w) ==
    /\ pc[w] = "streaming"
    /\ IF run[w].acks = {}
       THEN NoAck /\ lease' = lease
       ELSE ClearReceipt(w) /\ Ack(run[w].acks, run[w].turn)
    /\ answers' = [r \in Rows |-> IF r \in turns[run[w].turn].reservedFor
                                  THEN answers[r] \cup {run[w].turn} ELSE answers[r]]
    /\ \E completing \in BOOLEAN, where \in {"boundary", "exitFailed"} :
          /\ where = "exitFailed" => ~completing
          /\ run' = [run EXCEPT ![w].acks = {},
                                ![w].marks = IF completing THEN @ \cup {"completing"} ELSE @]
          /\ Goto(w, where)
    /\ UNCHANGED <<count, kind, turnVars, claim, decided, signals, faults, cancelTargets, spared>>

(* The acknowledgement is refused: the response rolls back with it.        *)
ResponseRefused(w) ==
    /\ pc[w] = "streaming"
    /\ run[w].acks # {}
    /\ ~(Owns(w) /\ lease.receipt = run[w].acks)
    /\ Goto(w, "exitFailed")
    /\ UNCHANGED <<inboxVars, turnVars, leaseVars, decided, run, signals, faults, historyVars>>

(* A context overflow: prior responses stay, the request is retried once   *)
(* behind a forced compaction.                                             *)
Overflow(w) ==
    /\ pc[w] = "streaming"
    /\ AutoCompact
    /\ IF "retried" \in run[w].marks
       THEN /\ Goto(w, "exitFailed")
            /\ run' = run
       ELSE /\ Goto(w, "boundary")
            /\ run' = [run EXCEPT ![w].acks = {},
                                  ![w].marks = @ \cup {"retried", "forced"}]
    /\ UNCHANGED <<inboxVars, turnVars, leaseVars, decided, signals, faults, historyVars>>

(* The abort reaches the stream: the partial reply is saved unacknowledged. *)
StreamCancelled(w) ==
    /\ pc[w] = "streaming"
    /\ Aborted(w)
    /\ Goto(w, "exitCancelled")
    /\ UNCHANGED <<inboxVars, turnVars, leaseVars, decided, run, signals, faults, historyVars>>

(* A provider error, an exhausted budget, a failed preparation.            *)
RunFails(w) ==
    /\ pc[w] \in {"bound", "streaming", "boundary", "adopting"}
    /\ Role(w) = "assistant"
    /\ Goto(w, "exitFailed")
    /\ UNCHANGED <<inboxVars, turnVars, leaseVars, decided, run, signals, faults, historyVars>>

AtBoundary(rows) == NextAtBoundary(rows, kind)

(* The top of the loop: a message behind the queued switch ends the reply, *)
(* then the cancel check, then a finished reply closes unless more waits.  *)
Boundary(w) ==
    /\ pc[w] = "boundary"
    /\ Goto(w, IF Aborted(w) THEN "exitCancelled"
               ELSE IF AtBoundary(Eligible).kind = "yield" THEN "exitSuccess"
               ELSE IF Cancelled(w) THEN "exitCancelled"
               ELSE IF "completing" \in run[w].marks THEN "closeOrContinue" ELSE "adopting")
    /\ UNCHANGED <<inboxVars, turnVars, leaseVars, decided, run, signals, faults, historyVars>>

(* closeCause: the durable flag wins, then the local abort, then the run's *)
(* own reason.                                                             *)
CloseCause(w) ==
    IF (Owns(w) /\ lease.flag) \/ Aborted(w)
    THEN "cancelled"
    ELSE IF pc[w] = "exitFailed" THEN "error"
    ELSE IF pc[w] = "exitCancelled" THEN "cancelled" ELSE "complete"

(* Mutant: a run that lost its lease answers what the new holder was given. *)
SettleTerminalOfAny(w) ==
    LET turn == run[w].turn
        status == IF Open(turn) THEN CloseCause(w) ELSE turns[turn].status
    IN  /\ turns' = [turns EXCEPT ![turn].status = status]
        /\ IF turns[turn].role = "assistant" /\ status \in {"cancelled", "error"}
           THEN Ack(lease.receipt, turn)
           ELSE NoAck
        /\ EndExecution(w)
        /\ LeaveRun(w)
        /\ UNCHANGED <<count, kind, turnCount, aiMode, decided, signals, faults, historyVars>>

(* settleTerminal: a terminal turn is left alone, a failed or cancelled    *)
(* assistant answers what it held, the execution ends.                     *)
SettleTerminal(w) ==
    LET turn == run[w].turn
        status == IF Open(turn) THEN CloseCause(w) ELSE turns[turn].status
    IN  /\ turns' = [turns EXCEPT ![turn].status = status]
        /\ IF Owns(w) /\ turns[turn].role = "assistant" /\ status \in {"cancelled", "error"}
           THEN Ack(lease.receipt, turn)
           ELSE NoAck
        /\ EndExecution(w)
        /\ LeaveRun(w)
        /\ UNCHANGED <<count, kind, turnCount, aiMode, decided, signals, faults, historyVars>>

Close(w) == pc[w] \in Exits /\ SettleTerminal(w)

(* close with continueOnPending: a message that landed in the exit window  *)
(* keeps the run going; a cancelled run never continues.                   *)
MoreToAnswer(w) ==
    /\ CloseCause(w) = "complete"
    /\ \E r \in AtBoundary(Eligible).rows : kind[r] = "message"

ContinueReply(w) ==
    /\ pc[w] = "closeOrContinue"
    /\ MoreToAnswer(w)
    /\ Goto(w, "adopting")
    /\ UNCHANGED <<inboxVars, turnVars, leaseVars, decided, run, signals, faults, historyVars>>

CloseReply(w) ==
    /\ pc[w] = "closeOrContinue"
    /\ ~MoreToAnswer(w)
    /\ SettleTerminal(w)

(* executeCompaction's last check before the history reaches the           *)
(* summarizer reads this execution's own row, whatever its expiry.         *)
BeginCompaction(w) ==
    /\ pc[w] = "compacting"
    /\ Goto(w, IF ~Owns(w) \/ lease.flag \/ Aborted(w) THEN "exitCancelled" ELSE "adopting")
    /\ UNCHANGED <<inboxVars, turnVars, leaseVars, decided, run, signals, faults, historyVars>>

(* splitAndContinue, optimistic half: select and prepare.                  *)
SelectAdoption(w) ==
    /\ pc[w] = "adopting"
    /\ ~Aborted(w)
    /\ Selected(w)
    /\ Goto(w, "adoptSelected")
    /\ UNCHANGED <<inboxVars, turnVars, leaseVars, decided, signals, faults, historyVars>>

ReselectAdoption(w) ==
    /\ pc[w] = "adoptSelected"
    /\ ~SelectionStillCurrent(w)
    /\ Unselected(w)
    /\ Goto(w, "adopting")
    /\ UNCHANGED <<inboxVars, turnVars, leaseVars, decided, signals, faults, historyVars>>

(* The local abort, or the flag seen under the lock: the loop's catch      *)
(* takes the cancel exit.                                                  *)
AdoptionCancelled(w) ==
    /\ \/ pc[w] \in {"adopting", "adoptSelected"} /\ Aborted(w)
       \/ pc[w] = "adoptSelected" /\ SelectionStillCurrent(w) /\ Owns(w) /\ lease.flag
    /\ Goto(w, "exitCancelled")
    /\ UNCHANGED <<inboxVars, turnVars, leaseVars, decided, run, signals, faults, historyVars>>

(* Mutant: the cancel request is not looked at under the lock.             *)
MayAdoptFlagged(w) ==
    /\ pc[w] = "adoptSelected"
    /\ SelectionStillCurrent(w) /\ ~Aborted(w)
    /\ Owns(w)

(* The locked half, for the row's owner.                                   *)
MayAdopt(w) ==
    /\ pc[w] = "adoptSelected"
    /\ SelectionStillCurrent(w) /\ ~Aborted(w)
    /\ Owns(w) /\ ~lease.flag

Adoption(w) == AtBoundary(run[w].eligible)
NewlyAdopted(w) == Adoption(w).rows \ lease.receipt

(* Mutant: a successor forgets what the run has not answered yet.          *)
CarriesOnlyNewRows(w) == NewlyAdopted(w)

(* What a successor turn is given: the run's unanswered rows and the new.  *)
CarriedRows(w) == lease.receipt \cup NewlyAdopted(w)

AdoptionTail(w, next, marks) ==
    /\ run' = [run EXCEPT ![w].turn = next, ![w].snap = {}, ![w].eligible = {},
                          ![w].marks = marks,
                          ![w].acks = IF next = NoTurn THEN {} ELSE lease'.receipt]
    /\ UNCHANGED <<count, kind, aiMode, claim, decided, signals, faults, historyVars>>

(* A message waits behind the queued switch: nothing is adopted and an     *)
(* assistant exits through its success close.                              *)
AdoptYields(w) ==
    /\ MayAdopt(w)
    /\ Role(w) = "assistant"
    /\ Adoption(w).kind = "yield"
    /\ Goto(w, "exitSuccess")
    /\ UNCHANGED <<inboxVars, turnVars, leaseVars, decided, run, signals, faults, historyVars>>

(* New rows, or a compaction, end this turn and reserve its successor in   *)
(* the same mode, which carries everything the run has not answered yet.   *)
AdoptSplits(w) ==
    /\ MayAdopt(w)
    /\ Role(w) = "assistant"
    /\ Adoption(w).kind # "yield"
    /\ LET receipt == CarriedRows(w)
           old == run[w].marks \ {"completing", "forced"}
       IN  \E compact \in BOOLEAN :
             /\ "forced" \in run[w].marks => compact
             /\ compact => AutoCompact
             /\ compact \/ NewlyAdopted(w) # {}
             /\ Bind(w, run[w].turn, IF compact THEN "compaction" ELSE "assistant",
                     turns[run[w].turn].mode, receipt,
                     {r \in receipt : kind[r] = "message"})
             /\ NoAck
             /\ Goto(w, IF compact THEN "compacting" ELSE "ready")
             /\ AdoptionTail(w, turnCount + 1,
                  (IF NewlyAdopted(w) = {} THEN old ELSE old \ {"retried"})
                     \cup (IF compact THEN {"continuing"} ELSE {}))

(* Nothing new: the reply goes on in the same turn, or a reply that had    *)
(* finished closes after all.                                              *)
AdoptNothing(w) ==
    /\ MayAdopt(w)
    /\ Role(w) = "assistant"
    /\ Adoption(w).kind # "yield" /\ NewlyAdopted(w) = {} /\ "forced" \notin run[w].marks
    /\ lease' = lease
    /\ NoAck
    /\ Goto(w, IF "completing" \in run[w].marks THEN "exitSuccess" ELSE "ready")
    /\ AdoptionTail(w, run[w].turn, run[w].marks \ {"completing"})
    /\ UNCHANGED <<turnCount, turns>>

(* Mutant: a compaction that ends the execution answers what it held.      *)
CompactionEndsAndAcks(w) ==
    /\ MayAdopt(w)
    /\ Role(w) = "compaction"
    /\ \/ Adoption(w).kind = "yield"
       \/ /\ "continuing" \notin run[w].marks
          /\ lease.receipt \cup Adoption(w).rows = {}
    /\ turns' = [turns EXCEPT ![run[w].turn].status = "complete"]
    /\ Ack(lease.receipt, run[w].turn)
    /\ EndExecution(w)
    /\ LeaveRun(w)
    /\ UNCHANGED <<count, kind, turnCount, aiMode, decided, signals, faults, historyVars>>

(* A compaction completes.  When nothing is left to answer, or a message   *)
(* waits behind the queued switch, the execution ends with it and what it  *)
(* held stays pending.                                                     *)
CompactionEnds(w) ==
    /\ MayAdopt(w)
    /\ Role(w) = "compaction"
    /\ \/ Adoption(w).kind = "yield"
       \/ /\ "continuing" \notin run[w].marks
          /\ lease.receipt \cup Adoption(w).rows = {}
    /\ turns' = [turns EXCEPT ![run[w].turn].status = "complete"]
    /\ EndExecution(w)
    /\ LeaveRun(w)
    /\ UNCHANGED <<inboxVars, turnCount, aiMode, decided, signals, faults, historyVars>>

CompactionContinues(w) ==
    /\ MayAdopt(w)
    /\ Role(w) = "compaction"
    /\ Adoption(w).kind # "yield"
    /\ "continuing" \in run[w].marks \/ lease.receipt \cup Adoption(w).rows # {}

(* The successor assistant carries on with everything unanswered.          *)
CompactionHandsOver(w) ==
    /\ CompactionContinues(w)
    /\ LET receipt == CarriedRows(w)
       IN  Bind(w, run[w].turn, "assistant", turns[run[w].turn].mode, receipt,
                {r \in receipt : kind[r] = "message"})
    /\ NoAck
    /\ Goto(w, "ready")
    /\ AdoptionTail(w, turnCount + 1,
         IF NewlyAdopted(w) = {} THEN run[w].marks ELSE run[w].marks \ {"retried"})

(* A required summary failed: its successor is reserved already failed,    *)
(* answers what the run held, and ends the execution.                      *)
CompactionFails(w) ==
    /\ CompactionContinues(w)
    /\ turnCount < MaxTurns
    /\ LET t == turnCount + 1
           receipt == CarriedRows(w)
       IN  /\ turnCount' = t
           /\ turns' = [turns EXCEPT
                 ![run[w].turn].status = "error",
                 ![t] = [exec |-> lease.exec, role |-> "assistant", status |-> "error",
                         mode |-> turns[run[w].turn].mode,
                         reservedFor |-> {r \in receipt : kind[r] = "message"}]]
           /\ Ack(receipt, t)
    /\ EndExecution(w)
    /\ LeaveRun(w)
    /\ UNCHANGED <<count, kind, aiMode, decided, signals, faults, historyVars>>

(* A run that no longer owns the lease: binding a successor throws, a      *)
(* yield and an empty boundary go on without touching the inbox, and a     *)
(* compaction's placeholder stays as the new holder settled it.            *)
AdoptWithoutLease(w) ==
    /\ pc[w] = "adoptSelected"
    /\ SelectionStillCurrent(w) /\ ~Aborted(w) /\ ~Owns(w)
    /\ IF Role(w) = "compaction"
       THEN LeaveRun(w)
       ELSE /\ run' = [run EXCEPT ![w].marks = @ \ {"completing"}, ![w].snap = {},
                                   ![w].eligible = {}]
            /\ Goto(w, IF Adoption(w).kind = "yield" THEN "exitSuccess"
                       ELSE IF Adoption(w).kind = "batch" THEN "exitFailed"
                       ELSE IF "forced" \in run[w].marks THEN "exitFailed"
                       ELSE IF "completing" \in run[w].marks THEN "exitSuccess" ELSE "ready")
    /\ UNCHANGED <<inboxVars, turnVars, leaseVars, decided, signals, faults, historyVars>>

-------------------------------------------------------------------------------
(* Time and failures.                                                      *)

(* The lease row runs out: the holder is gone, or misses its renewals.     *)
ExpireLease ==
    /\ LiveLease
    /\ \A w \in Workers : Owns(w) => pc[w] \in StallPoints
    /\ lease' = [lease EXCEPT !.expired = TRUE]
    /\ UNCHANGED <<inboxVars, turnVars, claim, decided, procVars, signals, faults, historyVars>>

(* The heartbeat: a lost row aborts the run, a kept one is renewed and its *)
(* flag aborts the run.                                                    *)
Heartbeat(w) ==
    /\ pc[w] \notin {"idle", "repair", "endStale", "insert"}
    /\ IF Owns(w)
       THEN /\ lease.expired \/ (lease.flag /\ ~Aborted(w))
            /\ lease' = [lease EXCEPT !.expired = FALSE]
            /\ run' = IF lease.flag THEN [run EXCEPT ![w].marks = @ \cup {"aborted"}] ELSE run
       ELSE /\ ~Aborted(w)
            /\ run' = [run EXCEPT ![w].marks = @ \cup {"aborted"}]
            /\ lease' = lease
    /\ UNCHANGED <<inboxVars, turnVars, claim, decided, pc, signals, faults, historyVars>>

(* The process dies: its memory and its session lock go, the row stays.    *)
Crash(w) ==
    /\ pc[w] # "idle"
    /\ faults < MaxFaults
    /\ faults' = faults + 1
    /\ claim' = IF claim = w THEN NoWorker ELSE claim
    /\ LeaveRun(w)
    /\ UNCHANGED <<inboxVars, turnVars, lease, decided, signals, historyVars>>

(* The database connection that holds the session lock drops; the run goes *)
(* on, and nothing tells it.                                               *)
LoseSession(w) ==
    /\ claim = w
    /\ faults < MaxFaults
    /\ faults' = faults + 1
    /\ claim' = NoWorker
    /\ UNCHANGED <<inboxVars, turnVars, lease, decided, procVars, signals, historyVars>>

(* The closing transaction fails too: the final release finds an unsettled *)
(* turn and abandons the claim, leaving an expired row as evidence.        *)
Abandon(w) ==
    /\ pc[w] \in Exits
    /\ faults < MaxFaults
    /\ Owns(w) /\ Open(run[w].turn)
    /\ faults' = faults + 1
    /\ lease' = [lease EXCEPT !.expired = TRUE]
    /\ claim' = IF claim = w THEN NoWorker ELSE claim
    /\ LeaveRun(w)
    /\ UNCHANGED <<inboxVars, turnVars, decided, signals, historyVars>>

-------------------------------------------------------------------------------
(* The executions a run-state record has ever shown a client.              *)
ShownExecs == {turns[t].exec : t \in {u \in Turns : u <= turnCount}}

Client ==
    \/ SendMessage
    \/ RequestCompaction
    \/ \E mode \in Modes : RequestSwitch(mode)
    \/ \E r \in Rows : WithdrawControl(r)
    \/ \E q \in Requests, ids \in SUBSET WriterRows : HandBack(q, ids)
    \/ \E q \in Requests, seen \in 0 .. count, e \in {NoExecution} \cup ShownExecs :
         \E mine \in SUBSET {r \in WriterRows : r > seen} : PressStop(q, seen, e, mine)
    \/ \E q \in Requests : ReplayStop(q)
    \/ \E seen \in 0 .. count, e \in ShownExecs :
         \E waiting \in SUBSET {r \in WriterRows : r <= seen} : SendNow(seen, e, waiting)
    \/ \E t \in Turns : CancelTurn(t)

StartStep(w) ==
    \/ Claim(w) \/ RepairOrphans(w) \/ EndStale(w) \/ InsertLease(w)
    \/ SelectStart(w) \/ ReselectStart(w) \/ CommitStart(w) \/ SwitchAndStart(w)
    \/ NoPendingWake(w) \/ StartLost(w)

LoopStep(w) ==
    \/ ReadQueued(w) \/ BeginRequest(w) \/ Respond(w) \/ ResponseRefused(w)
    \/ Overflow(w) \/ StreamCancelled(w) \/ RunFails(w) \/ Boundary(w)
    \/ ContinueReply(w) \/ CloseReply(w) \/ BeginCompaction(w)
    \/ SelectAdoption(w) \/ ReselectAdoption(w) \/ AdoptionCancelled(w)
    \/ AdoptYields(w) \/ AdoptSplits(w) \/ AdoptNothing(w)
    \/ CompactionEnds(w) \/ CompactionHandsOver(w) \/ CompactionFails(w)
    \/ AdoptWithoutLease(w) \/ Close(w)

FaultStep(w) ==
    \/ SetupFails(w) \/ Crash(w) \/ LoseSession(w) \/ Abandon(w)

Next ==
    \/ Client
    \/ ExpireLease
    \/ \E w \in Workers :
         \/ StartStep(w) \/ LoopStep(w) \/ FaultStep(w) \/ Heartbeat(w)
         \/ \E e \in Execs : AbortLocally(w, e)

Spec == Init /\ [][Next]_vars

-------------------------------------------------------------------------------
(* Safety.                                                                 *)

(* A message is handed back or answered, never both: what left the chat    *)
(* has no response, is in no receipt, and no reply is still to answer it.  *)
HandedBackIsNotAnswered ==
    \A r \in Rows : fate[r] = "handedBack" =>
        /\ answers[r] = {}
        /\ r \notin lease.receipt
        /\ deliveredBy[r] = NoTurn

(* No two replies answer one message, through splits, yields, compactions, *)
(* crashes and takeovers.                                                  *)
AnsweredOnce ==
    \A r \in Rows : \A t, u \in answers[r] : t = u

(* The receipt names only pending message rows.                            *)
ReceiptIsPending ==
    \A r \in lease.receipt : fate[r] = "pending" /\ kind[r] = "message"

(* A message behind the queued switch is in no receipt and delivered by no *)
(* reply: it waits until the switch applies or is taken back.              *)
BehindSwitchWaits ==
    \A s \in Switches(Pending, kind), r \in WriterRows :
        r > s => r \notin lease.receipt /\ fate[r] # "delivered"

(* At most one switch is queued, and it changes the mode.                  *)
OneQueuedSwitch ==
    \A s \in Switches(Pending, kind) :
        /\ kind[s] # aiMode
        /\ \A r \in Switches(Pending, kind) : r = s

(* The mode of the chat does not move under an unsettled reply.            *)
ReplyKeepsItsMode == \A t \in Turns : Open(t) => turns[t].mode = aiMode

(* At most one turn is unsettled, and the lease row of its execution is    *)
(* there to settle it.                                                     *)
OpenTurnHasItsLease ==
    \A t \in Turns : Open(t) => lease.turn = t /\ lease.exec = turns[t].exec

(* Only a reply that a Stop, a Send now or a turn cancel named is ever     *)
(* cancelled, however late a command's local abort or replay arrives.      *)
CancelledWasAsked ==
    \A t \in Turns : turns[t].status = "cancelled" => turns[t].exec \in cancelTargets

(* A stopped execution that answers nothing new: once flagged, its receipt *)
(* never grows.                                                            *)
FlaggedAdoptsNothing ==
    [][lease.flag /\ lease'.exec = lease.exec => lease'.receipt \subseteq lease.receipt]_vars

(* The reply that a message was delivered by was reserved for it, and has  *)
(* answered it or failed.                                                  *)
ReplySettled(r) ==
    LET t == deliveredBy[r]
    IN  /\ t \in Turns
        /\ turns[t].role = "assistant" /\ r \in turns[t].reservedFor
        /\ t \in answers[r] \/ turns[t].status \in {"error", "cancelled"}

(* A reply that another process has failed is completed after all: its own *)
(* process forces a compaction between the repair's two transactions, when *)
(* the stale lease row, bound to no turn any more, still names it.         *)
SplitsFailedReply(t) ==
    /\ turns[t].status = "error" /\ turns'[t].status = "complete"
    /\ lease.exec = turns[t].exec /\ lease.turn = NoTurn
    /\ turnCount' = turnCount + 1 /\ lease'.turn = turnCount'
    /\ turns'[turnCount'].role = "compaction"

(* A message row is delivered only by the reply that was reserved for it,  *)
(* and only with that reply's response or failure; a compaction delivers   *)
(* nothing, however it ends.  The reply that delivered it keeps what it    *)
(* was: nothing but SplitsFailedReply takes its failure back.              *)
AnswersWhatItDelivers ==
    [][\A r \in WriterRows' : fate'[r] = "delivered" =>
          /\ fate[r] # "delivered" => ReplySettled(r)'
          /\ fate[r] = "delivered" /\ ReplySettled(r) =>
                ReplySettled(r)' \/ SplitsFailedReply(deliveredBy[r])]_vars

(* A cancelled reply never delivers a message its command did not mean:    *)
(* not one sent after a Stop's press or given back by it, not one that was *)
(* waiting at a Send now or came after it.                                 *)
CancelSparesLater ==
    \A r \in WriterRows : deliveredBy[r] # NoTurn =>
        r \notin spared[turns[deliveredBy[r]].exec]

-------------------------------------------------------------------------------
(* What the messages of the chat go through, as MessageFate sees it.       *)

MessageState ==
    [r \in Rows |->
        IF kind[r] # "message" THEN "unsent"
        ELSE IF fate[r] = "delivered" THEN "answered"
        ELSE IF fate[r] = "handedBack" THEN "handedBack"
        ELSE IF r \in lease.receipt THEN "taken" ELSE "waiting"]

Promise == INSTANCE MessageFate WITH
    Message <- Rows, Execution <- Execs, None <- NoExecution,
    state <- MessageState, open <- lease.exec, stopped <- lease.flag

(* The delivery path keeps MessageFate's promise about every message.      *)
KeepsPromise == Promise!Spec

-------------------------------------------------------------------------------
(* Liveness.  A live process keeps going, its heartbeat ticks, a lease     *)
(* nobody renews runs out, and the sweep keeps waking a chat with messages *)
(* waiting; nothing obliges a client, a fault or the model's tool calls.   *)
Fairness ==
    /\ \A w \in Workers : /\ WF_vars(StartStep(w))
                          /\ WF_vars(LoopStep(w))
                          /\ WF_vars(Heartbeat(w))
    /\ WF_vars(ExpireLease)

LiveSpec == Spec /\ Fairness

(* Every message is answered or handed back: nothing strands it.           *)
MessagesSettle == \A r \in Rows :
    (fate[r] = "pending" /\ kind[r] = "message") ~> fate[r] \in {"delivered", "handedBack"}
=============================================================================
