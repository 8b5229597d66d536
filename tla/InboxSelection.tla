---------------------------- MODULE InboxSelection ----------------------------
(***************************************************************************)
(* Which pending inbox rows a run may take on: `next` and `prefixRows` of  *)
(* runtime/loop/next-inbox-work.ts.  A row is its sequence number (the     *)
(* inbox is ordered by it), `pending` the set of unacknowledged rows and   *)
(* `kind` a function from rows to                                          *)
(*   "message"  an intent "message" row (a writer's or a subagent's)       *)
(*   "notice"   an intent "notice" row (a Work refresh)                    *)
(*   "compact"  a compaction control                                       *)
(*   "answer"   an `ask_resolved` control                                  *)
(*   a mode     a write-mode switch control to that mode                   *)
(***************************************************************************)
EXTENDS Integers

Modes == {"direct", "draft"}

(* The row kinds of the inbox.                                             *)
RowKinds == {"message", "notice", "compact", "answer"} \cup Modes

NoRow == 0

(* Array.find over the pending rows, which are ordered by seq.             *)
First(S) == IF S = {} THEN NoRow ELSE CHOOSE r \in S : \A q \in S : r <= q

Messages(pending, kind) == {r \in pending : kind[r] = "message"}
Switches(pending, kind) == {r \in pending : kind[r] \in Modes}
Answers(pending, kind)  == {r \in pending : kind[r] = "answer"}
Adoptable(pending, kind) == {r \in pending : kind[r] \in {"message", "notice"}}

(* isControl: a control that is not an ask's continuation.                 *)
Controls(pending, kind) == {r \in pending : kind[r] \in {"compact"} \cup Modes}

QueuedSwitch(pending, kind) == First(Switches(pending, kind))

(* Mutant: the rows adopted with a continuation ignore the switch.         *)
BeforeNoSwitch(r, pending, kind) == r \in pending

(* Whether row r is in front of the queued switch, or nothing is queued.   *)
BeforeSwitch(r, pending, kind) ==
    \/ Switches(pending, kind) = {}
    \/ r < QueuedSwitch(pending, kind)

(* `prefixRows`, and the rows a continuation adopts: what may run without  *)
(* crossing the queued switch.                                             *)
PrefixRows(eligible, kind) ==
    {r \in Adoptable(eligible, kind) : BeforeSwitch(r, eligible, kind)}

(* A message is waiting behind the queued switch.                          *)
SwitchIsDue(pending, kind) ==
    /\ Switches(pending, kind) # {}
    /\ \E r \in Messages(pending, kind) : r > QueuedSwitch(pending, kind)

Batch(rows)          == [kind |-> "batch",   control |-> NoRow, rows |-> rows]
RunControl(c, rows)  == [kind |-> "control", control |-> c,     rows |-> rows]
ApplySwitch(c)       == [kind |-> "switch",  control |-> c,     rows |-> {}]
YieldReply           == [kind |-> "yield",   control |-> NoRow, rows |-> {}]
NothingToDo          == [kind |-> "none",    control |-> NoRow, rows |-> {}]

(* Nothing to answer: only a compaction runs by itself; a lone switch      *)
(* stays queued until something else runs.                                 *)
NextControl(pending, kind) ==
    LET control == First(Controls(pending, kind))
    IN  IF Controls(pending, kind) \subseteq Switches(pending, kind) THEN NothingToDo
        ELSE IF kind[control] \in Modes THEN ApplySwitch(control)
        ELSE RunControl(control, {})

(* `next` at run start; `retry` when a Retry starts the run by itself.     *)
NextAtRunStart(pending, kind, retry) ==
    IF Answers(pending, kind) # {}
    THEN RunControl(First(Answers(pending, kind)), PrefixRows(pending, kind))
    ELSE IF SwitchIsDue(pending, kind) \/ (retry /\ Switches(pending, kind) # {})
    THEN ApplySwitch(QueuedSwitch(pending, kind))
    ELSE IF Messages(pending, kind) # {}
    THEN Batch(Adoptable(pending, kind))
    ELSE NextControl(pending, kind)

(* Mutant: a boundary adopts across the queued switch.                     *)
BoundaryNeverYields(pending, kind) ==
    IF Answers(pending, kind) # {} \/ Adoptable(pending, kind) = {}
    THEN NothingToDo
    ELSE Batch(Adoptable(pending, kind))

(* Mutant: a boundary yields to any queued switch.                         *)
BoundaryYieldsEarly(pending, kind) ==
    IF Answers(pending, kind) # {} \/ Adoptable(pending, kind) = {} THEN NothingToDo
    ELSE IF Switches(pending, kind) # {} THEN YieldReply
    ELSE Batch(Adoptable(pending, kind))

(* `next` at a request boundary inside a reply.                            *)
NextAtBoundary(pending, kind) ==
    IF Answers(pending, kind) # {} THEN NothingToDo
    ELSE IF SwitchIsDue(pending, kind) THEN YieldReply
    ELSE IF Adoptable(pending, kind) = {} THEN NothingToDo
    ELSE Batch(Adoptable(pending, kind))
=============================================================================
