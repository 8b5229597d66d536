------------------------------- MODULE StopRule -------------------------------
(***************************************************************************)
(* The pure decisions behind Stop, hand-back and Send now:                 *)
(* runtime/loop/stop-rule.ts.  `facts` is what the adapter read under the  *)
(* thread lock, with the writer rows as sets of row numbers (the row id is *)
(* its place in send order):                                               *)
(*   execution   the open execution, or NoExecution                        *)
(*   holder      the role of the turn bound to the lease, or "none"        *)
(*   receipt     the lease's adopted rows                                  *)
(*   rows        the chat's relevant writer rows                           *)
(*   delivered   those acknowledged (answered or handed back)              *)
(*   byExecution those a turn of the open execution delivered              *)
(*   gone        those a hand-back request took out of the chat            *)
(*   continuesWriterAnswer  the execution continues the writer's answer    *)
(***************************************************************************)
EXTENDS Integers

NoExecution == 0

(* The writer rows a scope names: those up to the watermark and the        *)
(* press's own.  Rows that are not the chat's writer rows are ignored.     *)
Covered(facts, seenThrough, mine) ==
    {r \in facts.rows : r <= seenThrough \/ r \in mine}

TakesOn(facts, r) == r \in facts.receipt \/ r \in facts.byExecution

(* Mutant: hands back what the open execution holds.                       *)
HandsBackHeldRows(facts, covered, cancels) ==
    covered \ (facts.gone \cup facts.delivered)

(* What a request does with every row it covers; `cancels` when the same   *)
(* request cancels the open execution.                                     *)
HandsBack(facts, covered, cancels) ==
    {r \in covered \ (facts.gone \cup facts.delivered) :
        \/ r \notin facts.receipt
        \/ cancels /\ facts.execution # NoExecution /\ facts.holder = "compaction"}

DecideHandBack(facts, covered, cancels) ==
    LET back == HandsBack(facts, covered, cancels)
        gone == covered \cap facts.gone
    IN  [handBack |-> back, gone |-> gone, answered |-> covered \ (back \cup gone)]

(* Mutant: cancels although the execution has taken on a later message.    *)
StopCancelsPastIt(facts, covered, seenExecution) ==
    /\ facts.execution # NoExecution
    /\ \/ facts.execution = seenExecution
       \/ facts.continuesWriterAnswer
       \/ \E r \in covered : TakesOn(facts, r)

(* The writer saw the execution, or it took on a message the press covers, *)
(* or it continues the writer's answer; and it has taken on nothing later. *)
StopCancels(facts, covered, seenExecution) ==
    /\ facts.execution # NoExecution
    /\ \/ facts.execution = seenExecution
       \/ facts.continuesWriterAnswer
       \/ \E r \in covered : TakesOn(facts, r)
    /\ \A r \in facts.rows \ covered : ~TakesOn(facts, r)

DecideStop(facts, seenThrough, seenExecution, mine) ==
    LET covered == Covered(facts, seenThrough, mine)
        cancels == StopCancels(facts, covered, seenExecution)
    IN  [decision |-> DecideHandBack(facts, covered, cancels),
         cancels  |-> IF cancels THEN facts.execution ELSE NoExecution]

(* Mutant: looks only at the messages that were waiting.                   *)
SendNowForgetsLaterRows(facts, seenThrough, seenExecution, waiting) ==
    IF /\ facts.execution # NoExecution
       /\ facts.execution = seenExecution
       /\ \A r \in facts.rows \cap waiting : ~TakesOn(facts, r)
    THEN facts.execution
    ELSE NoExecution

(* Send now cancels the reply the writer saw unless it has taken on a      *)
(* waiting message or one sent since; it hands nothing back.               *)
DecideSendNow(facts, seenThrough, seenExecution, waiting) ==
    IF /\ facts.execution # NoExecution
       /\ facts.execution = seenExecution
       /\ \A r \in facts.rows :
             (r \in waiting \/ r > seenThrough) => ~TakesOn(facts, r)
    THEN facts.execution
    ELSE NoExecution
=============================================================================
