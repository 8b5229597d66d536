------------------------------- MODULE ChatQueue -------------------------------
(***************************************************************************)
(* One chat's inbox as its commands and its wakes see it: thread controls  *)
(* (runtime/loop/thread-controls.ts), the selection of the next work, the  *)
(* open ask that holds the queue up, and who starts the next run.          *)
(* Replies do not fail half-way here and a row leaves the queue when a run *)
(* takes it on; leases, crashes and receipts are RunDelivery's subject.    *)
(***************************************************************************)
EXTENDS InboxSelection

CONSTANTS
    MaxRows,        \* bound: inbox rows ever enqueued
    MaxFailures     \* bound: setups and replies that fail

ASSUME QueueConstants == MaxRows \in Nat /\ MaxFailures \in Nat

Rows == 1 .. MaxRows

VARIABLES
    count, kind, pending,   \* thread_inbox_messages and their delivered_at
    applied,                \* the controls that have a turn
    aiMode, workDefault,    \* threads.ai_write_mode, the Work's default mode
    askOpen,                \* an ask of this chat is open
    phase,                  \* what holds the run claim, if anything
    retryable,              \* the latest turn is a failed reply
    completed,              \* the chat has a completed reply
    waking, rereading,      \* a run start, a reread of the queue, is due
    failures,               \* setups and replies failed so far
    told, agentAsked        \* history: answers to withdrawals, an Agent's request

queueVars == <<count, kind, pending, applied>>
modeVars  == <<aiMode, workDefault, agentAsked>>
replyVars == <<phase, retryable, completed>>
wakeVars  == <<waking, rereading>>
vars == <<queueVars, modeVars, askOpen, replyVars, wakeVars, failures, told>>

Phases == {"idle", "setup", "retrySetup", "reply"}

TypeOK ==
    /\ count \in 0 .. MaxRows
    /\ kind \in [Rows -> RowKinds \cup {"absent"}]
    /\ pending \subseteq 1 .. count
    /\ applied \subseteq 1 .. count
    /\ aiMode \in Modes /\ workDefault \in Modes /\ agentAsked \in BOOLEAN
    /\ askOpen \in BOOLEAN
    /\ phase \in Phases /\ retryable \in BOOLEAN /\ completed \in BOOLEAN
    /\ waking \in BOOLEAN /\ rereading \in BOOLEAN
    /\ failures \in 0 .. MaxFailures
    /\ told \in [Rows -> {"nothing", "withdrawn", "already_started"}]

Init ==
    /\ count = 0
    /\ kind = [r \in Rows |-> "absent"]
    /\ pending = {} /\ applied = {}
    /\ aiMode = "direct" /\ workDefault = "direct" /\ agentAsked = FALSE
    /\ askOpen = FALSE
    /\ phase = "idle" /\ retryable = FALSE /\ completed = FALSE
    /\ waking = FALSE /\ rereading = FALSE
    /\ failures = 0
    /\ told = [r \in Rows |-> "nothing"]

-------------------------------------------------------------------------------
(* Commands, each under the thread lock.                                   *)

Queued == QueuedSwitch(pending, kind)

(* effectiveWriteMode: the mode the next message will be answered in.      *)
EffectiveMode == IF Queued = NoRow THEN aiMode ELSE kind[Queued]

(* A new inbox row; `settled` are the rows acknowledged with it.           *)
AddRow(k, settled) ==
    /\ count < MaxRows
    /\ count' = count + 1
    /\ kind' = [kind EXCEPT ![count + 1] = k]
    /\ pending' = (pending \cup {count + 1}) \ settled
    /\ UNCHANGED applied

SendMessage ==
    /\ AddRow("message", {})
    /\ waking' = TRUE
    /\ retryable' = FALSE
    /\ UNCHANGED <<modeVars, askOpen, phase, completed, rereading, failures, told>>

(* threadChanged: a Work refresh is enqueued without a wake.               *)
WorkChanged ==
    /\ AddRow("notice", {})
    /\ UNCHANGED <<modeVars, askOpen, replyVars, wakeVars, failures, told>>

RequestCompaction ==
    /\ completed
    /\ AddRow("compact", {})
    /\ waking' = TRUE
    /\ UNCHANGED <<modeVars, askOpen, replyVars, rereading, failures, told>>

(* The Work's default follows a writer's request, applied or not.          *)
FollowWriter(byWriter, mode) == workDefault' = IF byWriter THEN mode ELSE workDefault

(* enqueueControl of a write mode: a request for the effective mode leaves *)
(* the queue alone, a switch back cancels the queued switch.               *)
RequestSwitch(mode, byWriter) ==
    /\ LET cancels == IF Queued = NoRow \/ EffectiveMode = mode THEN {} ELSE {Queued}
           settles == Queued # NoRow \/ EffectiveMode = mode
       IN  AddRow(mode, IF settles THEN {count + 1} \cup cancels ELSE {})
    /\ FollowWriter(byWriter, mode)
    /\ agentAsked' = (agentAsked \/ ~byWriter)
    /\ UNCHANGED <<aiMode, askOpen, replyVars, wakeVars, failures, told>>

(* Mutant: a withdrawal answers without taking the row off the queue.      *)
WithdrawOnlyAnswers(r) ==
    /\ r <= count /\ kind[r] \in {"compact"} \cup Modes
    /\ told' = [told EXCEPT ![r] = IF r \in applied THEN "already_started" ELSE "withdrawn"]
    /\ UNCHANGED <<queueVars, modeVars, askOpen, replyVars, wakeVars, failures>>

(* Mutant: the Work's default keeps the mode of a withdrawn switch.        *)
WithdrawKeepsDefault(r) ==
    /\ r <= count /\ kind[r] \in {"compact"} \cup Modes
    /\ told' = [told EXCEPT ![r] = IF r \in applied THEN "already_started" ELSE "withdrawn"]
    /\ pending' = pending \ {r}
    /\ UNCHANGED <<count, kind, applied, modeVars, askOpen, replyVars, wakeVars, failures>>

(* withdrawControl: a control that has a turn has started; a pending one   *)
(* is acknowledged, and the Work's default goes back to the chat's mode.   *)
Withdraw(r) ==
    /\ r <= count /\ kind[r] \in {"compact"} \cup Modes
    /\ told' = [told EXCEPT ![r] = IF r \in applied THEN "already_started" ELSE "withdrawn"]
    /\ pending' = IF r \in applied THEN pending ELSE pending \ {r}
    /\ workDefault' = IF r \in pending \ applied /\ kind[r] \in Modes THEN aiMode ELSE workDefault
    /\ UNCHANGED <<count, kind, applied, aiMode, agentAsked, askOpen, replyVars, wakeVars, failures>>

(* An answered or timed-out ask: its continuation's row wakes the chat.    *)
ResolveAsk ==
    /\ askOpen
    /\ askOpen' = FALSE
    /\ AddRow("answer", {})
    /\ waking' = TRUE
    /\ UNCHANGED <<modeVars, replyVars, rereading, failures, told>>

(* Cancelling the turn that asked drops the ask; nothing continues it.     *)
CancelAsk ==
    /\ askOpen
    /\ askOpen' = FALSE
    /\ UNCHANGED <<queueVars, modeVars, replyVars, wakeVars, failures, told>>

-------------------------------------------------------------------------------
(* Run starts.                                                             *)

(* eligiblePending: an open ask holds back everything but its continuation. *)
EligibleWith(rows) == IF askOpen /\ Answers(rows, kind) = {} THEN {} ELSE rows

(* A wake claims the chat; turned away by the current holder it gives up.  *)
Start ==
    /\ waking
    /\ waking' = FALSE
    /\ phase' = IF phase = "idle" THEN "setup" ELSE phase
    /\ UNCHANGED <<queueVars, modeVars, askOpen, retryable, completed, rereading, failures, told>>

RetryReply ==
    /\ retryable /\ phase = "idle"
    /\ phase' = "retrySetup"
    /\ UNCHANGED <<queueVars, modeVars, askOpen, retryable, completed, wakeVars, failures, told>>

(* What a run start does: a due switch applies first, then the run takes   *)
(* on what is next, in one thread-lock transaction.                        *)
Due(retry) ==
    LET first == NextAtRunStart(EligibleWith(pending), kind, retry)
    IN  IF first.kind = "switch" THEN {first.control} ELSE {}

Chosen(retry) == NextAtRunStart(EligibleWith(pending \ Due(retry)), kind, retry)

Reserve ==
    /\ phase \in {"setup", "retrySetup"}
    /\ LET retry == phase = "retrySetup"
           controls == {Chosen(retry).control} \ {NoRow}
       IN  /\ IF retry THEN retryable ELSE Chosen(retry).kind # "none"
           /\ pending' = pending \ (Due(retry) \cup controls \cup Chosen(retry).rows)
           /\ applied' = applied \cup Due(retry) \cup {c \in controls : kind[c] = "compact"}
           /\ aiMode' = IF Due(retry) = {} THEN aiMode
                        ELSE kind[CHOOSE s \in Due(retry) : TRUE]
    /\ phase' = "reply"
    /\ retryable' = FALSE
    /\ UNCHANGED <<count, kind, workDefault, agentAsked, askOpen, completed, wakeVars, failures, told>>

(* NoPendingWakeError, or a Retry refused because a message came after the *)
(* failed reply: the claim is released and the queue is read again.        *)
StartsNothing ==
    /\ \/ phase = "setup" /\ Chosen(FALSE).kind = "none"
       \/ phase = "retrySetup" /\ ~retryable
    /\ phase' = "idle"
    /\ rereading' = TRUE
    /\ UNCHANGED <<queueVars, modeVars, askOpen, retryable, completed, waking, failures, told>>

(* Any other setup error of a wake skips the reread; a Retry's does not.   *)
SetupFails ==
    /\ phase \in {"setup", "retrySetup"}
    /\ failures < MaxFailures
    /\ failures' = failures + 1
    /\ rereading' = (rereading \/ phase = "retrySetup")
    /\ phase' = "idle"
    /\ UNCHANGED <<queueVars, modeVars, askOpen, retryable, completed, waking, told>>

(* A request boundary takes on what it may; `yield` ends the reply.        *)
Boundary ==
    /\ phase = "reply"
    /\ LET work == NextAtBoundary(pending, kind)
       IN  /\ work.kind = "batch"
           /\ pending' = pending \ work.rows
    /\ UNCHANGED <<count, kind, applied, modeVars, askOpen, replyVars, wakeVars, failures, told>>

(* The reply ends complete, failed, or parked on an ask it opens; cleanup  *)
(* releases the claim and has the queue read again.  A failed reply can be *)
(* retried while no message follows it.                                    *)
EndReply(outcome) ==
    /\ phase = "reply"
    /\ outcome = "failed" => failures < MaxFailures
    /\ failures' = IF outcome = "failed" THEN failures + 1 ELSE failures
    /\ phase' = "idle"
    /\ rereading' = TRUE
    /\ completed' = (completed \/ outcome = "complete")
    /\ retryable' = (outcome = "failed" /\ Messages(pending, kind) = {})
    /\ askOpen' = (outcome = "asks")
    /\ UNCHANGED <<queueVars, modeVars, waking, told>>

(* Mutant: any pending row is work.                                        *)
WakeIfPending ==
    /\ rereading
    /\ rereading' = FALSE
    /\ waking' = (waking \/ pending # {})
    /\ UNCHANGED <<queueVars, modeVars, askOpen, replyVars, failures, told>>

(* wakeIfRunnable rereads the whole queue, without the ask's hold.         *)
WakeIfRunnable ==
    /\ rereading
    /\ rereading' = FALSE
    /\ waking' = (waking \/ NextAtRunStart(pending, kind, FALSE).kind # "none")
    /\ UNCHANGED <<queueVars, modeVars, askOpen, replyVars, failures, told>>

(* Mutant: the sweep forgets that an ask holds the queue.                  *)
SweepIgnoresAsk == \E r \in pending : kind[r] \in {"message", "compact", "answer"}

(* Mutant: a queued switch keeps the whole chat out of the sweep.          *)
SweepSkipsSwitchChats ==
    /\ pending # {} /\ ~askOpen
    /\ \A r \in pending : kind[r] \in {"message", "compact", "answer"}

(* pendingMessageThreads: the SQL that finds the chats to sweep.           *)
SweepFinds ==
    /\ \E r \in pending : kind[r] \in {"message", "compact", "answer"}
    /\ ~askOpen

SweepWakes ==
    /\ SweepFinds /\ phase = "idle"
    /\ waking' = TRUE
    /\ UNCHANGED <<queueVars, modeVars, askOpen, replyVars, rereading, failures, told>>

-------------------------------------------------------------------------------
Command ==
    \/ SendMessage \/ WorkChanged \/ RequestCompaction
    \/ \E mode \in Modes, byWriter \in BOOLEAN : RequestSwitch(mode, byWriter)
    \/ \E r \in Rows : Withdraw(r)
    \/ ResolveAsk \/ CancelAsk \/ RetryReply

Outcomes == {"complete", "failed", "asks"}

Next ==
    \/ Command
    \/ Start \/ Reserve \/ StartsNothing \/ SetupFails
    \/ Boundary \/ \E outcome \in Outcomes : EndReply(outcome)
    \/ WakeIfRunnable \/ SweepWakes

Spec == Init /\ [][Next]_vars

(* Scheduled starts and rereads run, a reply ends (its iterations are      *)
(* bounded), and the sweep comes round; nothing obliges a client.          *)
Fairness ==
    /\ WF_vars(Start) /\ WF_vars(Reserve) /\ WF_vars(StartsNothing)
    /\ WF_vars(\E outcome \in Outcomes : EndReply(outcome))
    /\ WF_vars(WakeIfRunnable) /\ WF_vars(SweepWakes)

LiveSpec == Spec /\ Fairness

-------------------------------------------------------------------------------
(* A switch that a wake applies is followed by a run in the same           *)
(* transaction: the mode never changes for nothing (selectRunStart's loop  *)
(* finds work to reserve).                                                 *)
SwitchStartsARun ==
    Due(FALSE) # {} => Chosen(FALSE).kind \in {"batch", "control"}

(* The sweep's SQL and the run start agree on which chats have work: it    *)
(* neither misses one nor wakes one for nothing.                           *)
SweepMeetsWork ==
    SweepFinds <=> NextAtRunStart(EligibleWith(pending), kind, FALSE).kind # "none"

(* A reply that yields to the queued switch makes room for it: the next    *)
(* start applies that switch.                                              *)
YieldMeetsSwitch ==
    NextAtBoundary(pending, kind).kind = "yield" =>
        NextAtRunStart(pending, kind, FALSE) = ApplySwitch(Queued)

(* No run takes on a message across a switch: any switch in front of a     *)
(* message that leaves the queue has left it too, and a switch that        *)
(* applied set the mode the message runs in.                               *)
NothingCrossesSwitch ==
    [][\A r \in Messages(pending, kind) \ pending' : \A s \in Switches(pending, kind) :
          s < r => s \in applied' /\ aiMode' = kind[s]]_vars

(* A control whose withdrawal was confirmed never gets a turn.             *)
WithdrawnStaysOut == \A r \in Rows : told[r] = "withdrawn" => r \notin applied

(* While only the writer chooses, the Work's default is the mode the next  *)
(* message will be answered in, through cancel-outs, withdrawals, switches *)
(* that apply and requests that change nothing.                            *)
DefaultFollowsWriter == ~agentAsked => workDefault = EffectiveMode

(* A message does not stay behind: some run takes it on, or an ask holds   *)
(* the queue.                                                              *)
MessageIsTakenOn ==
    \A r \in Rows : (r \in pending /\ kind[r] = "message") ~> (r \notin pending \/ askOpen)

AtRest == phase = "idle" /\ ~waking /\ ~rereading

(* A chat nobody writes to any more comes to rest instead of starting runs *)
(* that find nothing, at least while no ask holds its queue.               *)
RestsOrIsHeld == <>[]AtRest \/ <>[]askOpen

(* The same with an open ask: a reread of a queue that the ask holds stops *)
(* rather than spins (delivery.md's rule for an empty reread).             *)
ComesToRest == <>[]AtRest
=============================================================================
