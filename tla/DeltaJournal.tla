------------------------------ MODULE DeltaJournal ------------------------------
(***************************************************************************)
(* The journal of one scope's live deltas (runtime/loop/delta-journal.ts)  *)
(* and the two callers it has: the stream loop of a model request, which   *)
(* waits for room (orchestrator.ts), and a tool call, whose output callback*)
(* never waits and drops its output for good once refused                  *)
(* (tool-dispatch.ts).                                                     *)
(*                                                                         *)
(* Deltas are numbered as their producer makes them.  A pending event is   *)
(* the interval of deltas merged into it, its live block and its size.     *)
(***************************************************************************)
EXTENDS Integers, Sequences, FiniteSets

CONSTANTS
    Scopes,         \* the callers of this instance
    Blocks,         \* the live blocks a delta belongs to: only equal ones merge
    Sizes,          \* the sizes of a delta's own text
    Overhead,       \* what estimateDeltaEventBytes adds to an event's text
    MaxBytes,       \* MAX_UNJOURNALED_BYTES
    MaxBatch,       \* MAX_BATCH_EVENTS
    MaxDeltas       \* bound: deltas the producer makes

ASSUME JournalConstants ==
    /\ Scopes \subseteq {"model_request", "tool_call"}
    /\ Sizes \subseteq Nat \ {0}
    /\ Overhead \in Nat /\ MaxBytes \in Nat /\ MaxDeltas \in Nat
    /\ MaxBatch \in Nat \ {0}

VARIABLES
    scope,                      \* who owns this journal
    pending, inFlight,          \* events queued, events of the write under way
    pendingBytes, inFlightBytes,
    writing, sealed, failed,
    capacityWaiters,            \* callers awaiting capacityWaiters
    drainWaiters,               \* callers awaiting drainWaiters
    made,                       \* deltas the producer has made
    written,                    \* deltas committed to the thread's events
    offered,                    \* the delta the stream loop is pushing
    caller,                     \* where the owner of the scope is
    drain                       \* a tool handler's own flush before a spawn

queueVars  == <<pending, inFlight, pendingBytes, inFlightBytes, writing, failed, written>>
waitVars   == <<capacityWaiters, drainWaiters>>
callerVars == <<scope, made, offered, caller, drain>>
vars == <<queueVars, sealed, waitVars, callerVars>>

Events == [block: Blocks, first: 1 .. MaxDeltas, last: 1 .. MaxDeltas, size: Nat \ {0}]
Callers == {"owner", "drain"}

(* The owner pulls or emits, waits for room, flushes when the stream ends, *)
(* seals, flushes once more, and is done.                                  *)
OwnerStates == {"producing", "pushing", "ending", "sealing", "flushing", "flushed", "threw"}
DrainStates == {"idle", "flushing", "done"}

TypeOK ==
    /\ scope \in Scopes
    /\ pending \in Seq(Events) /\ inFlight \in Seq(Events)
    /\ pendingBytes \in Nat /\ inFlightBytes \in Nat
    /\ writing \in BOOLEAN /\ sealed \in BOOLEAN /\ failed \in BOOLEAN
    /\ capacityWaiters \subseteq Callers /\ drainWaiters \subseteq Callers
    /\ made \in 0 .. MaxDeltas /\ written \in 0 .. MaxDeltas
    /\ offered \in Seq(Events)
    /\ caller \in OwnerStates /\ drain \in DrainStates

Init ==
    /\ scope \in Scopes
    /\ pending = <<>> /\ inFlight = <<>>
    /\ pendingBytes = 0 /\ inFlightBytes = 0
    /\ writing = FALSE /\ sealed = FALSE /\ failed = FALSE
    /\ capacityWaiters = {} /\ drainWaiters = {}
    /\ made = 0 /\ written = 0
    /\ offered = <<>>
    /\ caller = "producing" /\ drain = "idle"

---------------------------------------------------------------------------------
(* Bytes and merging. *)

EstimateBytes(e) == Overhead + e.size

BatchBytes(batch) ==
    LET total[n \in 0 .. Len(batch)] ==
            IF n = 0 THEN 0 ELSE total[n - 1] + EstimateBytes(batch[n])
    IN  total[Len(batch)]

Delta(n, b, s) == [block |-> b, first |-> n, last |-> n, size |-> s]

Merges(previous, next) == previous.block = next.block

Merged(previous, next) ==
    [previous EXCEPT !.last = next.last, !.size = @ + next.size]

Last(s) == s[Len(s)]
Front(s) == SubSeq(s, 1, Len(s) - 1)

JoinsLast(e) == pending # <<>> /\ Merges(Last(pending), e)

(* What admitting e adds to the queue's bytes. *)
Growth(e) == IF JoinsLast(e)
             THEN EstimateBytes(Merged(Last(pending), e)) - EstimateBytes(Last(pending))
             ELSE EstimateBytes(e)

Unjournaled == inFlightBytes + pendingBytes

(* Mutants: the event's own bytes forgotten; no way in for a large event.  *)
HasCapacityBefore(e) == Unjournaled <= MaxBytes
HasCapacityWithin(e) == Unjournaled + Growth(e) <= MaxBytes

HasCapacity(e) == Unjournaled = 0 \/ Unjournaled + Growth(e) <= MaxBytes

(* startWrite takes a batch off the queue q of size bytes, unless a write  *)
(* runs or has failed.                                                     *)
Batch(q) == SubSeq(q, 1, IF Len(q) < MaxBatch THEN Len(q) ELSE MaxBatch)

TakeBatch(q, bytes) ==
    /\ inFlight' = Batch(q)
    /\ inFlightBytes' = BatchBytes(Batch(q))
    /\ pending' = SubSeq(q, Len(Batch(q)) + 1, Len(q))
    /\ pendingBytes' = bytes - BatchBytes(Batch(q))
    /\ writing' = TRUE

Admit(e) ==
    LET q == IF JoinsLast(e) THEN Append(Front(pending), Merged(Last(pending), e))
                             ELSE Append(pending, e)
        bytes == pendingBytes + Growth(e)
    IN  /\ IF writing
           THEN /\ pending' = q /\ pendingBytes' = bytes
                /\ UNCHANGED <<inFlight, inFlightBytes, writing>>
           ELSE TakeBatch(q, bytes)
        /\ UNCHANGED <<failed, written>>

---------------------------------------------------------------------------------
(* The stream loop of a model request. *)

NextDeltas == {Delta(made + 1, b, s) : b \in Blocks, s \in Sizes}

(* push: admitted at once, thrown on a journal that failed, or waiting.  A *)
(* woken push checks again (push's while loop).                            *)
Push(e) ==
    \/ /\ HasCapacity(e) /\ ~failed /\ ~sealed
       /\ Admit(e)
       /\ caller' = "producing" /\ offered' = <<>>
       /\ UNCHANGED waitVars
    \/ /\ failed \/ sealed
       /\ caller' = "sealing" /\ offered' = <<>>
       /\ UNCHANGED <<queueVars, waitVars>>
    \/ /\ ~HasCapacity(e) /\ ~failed /\ ~sealed
       /\ capacityWaiters' = capacityWaiters \cup {"owner"}
       /\ caller' = "pushing" /\ offered' = <<e>>
       /\ UNCHANGED <<queueVars, drainWaiters>>

StreamDelta ==
    /\ scope = "model_request" /\ caller = "producing" /\ made < MaxDeltas
    /\ \E e \in NextDeltas : Push(e)
    /\ made' = made + 1
    /\ UNCHANGED <<sealed, scope, drain>>

PushAgain ==
    /\ caller = "pushing" /\ "owner" \notin capacityWaiters
    /\ Push(offered[1])
    /\ UNCHANGED <<sealed, scope, made, drain>>

(* The gateway ends the stream, with its result or an error, and the loop  *)
(* flushes before it handles it; or the stream throws and it does not.     *)
StreamEnds ==
    /\ scope = "model_request" /\ caller = "producing"
    /\ caller' \in {"ending", "sealing"}
    /\ UNCHANGED <<queueVars, sealed, waitVars, scope, made, offered, drain>>

---------------------------------------------------------------------------------
(* A tool call. *)

(* Mutant: the refused output is dropped, the scope stays open. *)
SealNothing == UNCHANGED sealed /\ capacityWaiters' = {}

(* seal wakes whoever waits for room. *)
Seal ==
    /\ sealed' = TRUE
    /\ capacityWaiters' = IF sealed THEN capacityWaiters ELSE {}

(* emitOutputDelta: tryPush never waits; a refusal for room or after a     *)
(* failed write seals the scope, so no later output enters it.  A process  *)
(* may still write after its tool call has settled.                        *)
EmitOutput ==
    /\ scope = "tool_call" /\ made < MaxDeltas
    /\ made' = made + 1
    /\ \E e \in NextDeltas :
         \/ /\ ~failed /\ ~sealed /\ HasCapacity(e)
            /\ Admit(e)
            /\ UNCHANGED <<sealed, capacityWaiters>>
         \/ /\ failed \/ (~sealed /\ ~HasCapacity(e))
            /\ Seal
            /\ UNCHANGED queueVars
         \/ /\ sealed /\ ~failed
            /\ UNCHANGED <<queueVars, sealed, capacityWaiters>>
    /\ UNCHANGED <<drainWaiters, scope, offered, caller, drain>>

(* A spawn drains what was emitted before it starts its child. *)
StartDrain ==
    /\ scope = "tool_call" /\ caller = "producing" /\ drain = "idle"
    /\ drain' = "flushing"
    /\ UNCHANGED <<queueVars, sealed, waitVars, scope, made, offered, caller>>

ToolSettles ==
    /\ scope = "tool_call" /\ caller = "producing" /\ drain # "flushing"
    /\ caller' = "sealing"
    /\ UNCHANGED <<queueVars, sealed, waitVars, scope, made, offered, drain>>

---------------------------------------------------------------------------------
(* Closing: seal, then flush. *)

SealScope ==
    /\ caller = "sealing"
    /\ Seal
    /\ caller' = "flushing"
    /\ UNCHANGED <<queueVars, drainWaiters, scope, made, offered, drain>>

(* flush: returns once nothing is queued or being written, throws on a     *)
(* failed journal, else waits for the queue to drain.                      *)
(* Mutant: the write under way is forgotten. *)
QueueIsEmpty == pending = <<>>

Drained == ~writing /\ pending = <<>>

(* Mutant: it waits on a failed journal too. *)
FlushWaitsAnyway(c) ==
    /\ c \notin drainWaiters /\ ~Drained
    /\ drainWaiters' = drainWaiters \cup {c}
    /\ UNCHANGED <<queueVars, sealed, capacityWaiters, callerVars>>

FlushWaits(c) ==
    /\ c \notin drainWaiters /\ ~Drained /\ ~failed
    /\ drainWaiters' = drainWaiters \cup {c}
    /\ UNCHANGED <<queueVars, sealed, capacityWaiters, callerVars>>

FlushReturns(c) == c \notin drainWaiters /\ (Drained \/ failed)

EndFlush ==
    /\ caller = "ending" /\ FlushReturns("owner")
    /\ caller' = "sealing"
    /\ UNCHANGED <<queueVars, sealed, waitVars, scope, made, offered, drain>>

LastFlush ==
    /\ caller = "flushing" /\ FlushReturns("owner")
    /\ caller' = IF failed THEN "threw" ELSE "flushed"
    /\ UNCHANGED <<queueVars, sealed, waitVars, scope, made, offered, drain>>

(* drainOutput: a failed flush drops the tool's output. *)
EndDrain ==
    /\ drain = "flushing" /\ FlushReturns("drain")
    /\ drain' = "done"
    /\ IF failed THEN Seal ELSE UNCHANGED <<sealed, capacityWaiters>>
    /\ UNCHANGED <<queueVars, drainWaiters, scope, made, offered, caller>>

Flush ==
    \/ caller \in {"ending", "flushing"} /\ FlushWaits("owner")
    \/ drain = "flushing" /\ FlushWaits("drain")
    \/ EndFlush \/ LastFlush \/ EndDrain

---------------------------------------------------------------------------------
(* The write under way. *)

(* appendEvents committed: waiters for room wake; the next batch starts at *)
(* once, and only an empty queue wakes the flushes.                        *)
WriteCommits ==
    /\ writing /\ ~failed
    /\ written' = Last(inFlight).last
    /\ capacityWaiters' = {}
    /\ IF pending # <<>>
       THEN TakeBatch(pending, pendingBytes) /\ UNCHANGED drainWaiters
       ELSE /\ inFlight' = <<>> /\ inFlightBytes' = 0 /\ writing' = FALSE
            /\ drainWaiters' = {}
            /\ UNCHANGED <<pending, pendingBytes>>
    /\ UNCHANGED <<failed, sealed, callerVars>>

(* appendEvents rejected, its rows committed or not: the journal keeps the *)
(* failure for good, and everyone wakes.                                   *)
WriteFails ==
    /\ writing /\ ~failed
    /\ failed' = TRUE
    /\ written' \in {written, Last(inFlight).last}
    /\ capacityWaiters' = {} /\ drainWaiters' = {}
    /\ UNCHANGED <<pending, inFlight, pendingBytes, inFlightBytes, writing, sealed, callerVars>>

---------------------------------------------------------------------------------

Next ==
    \/ StreamDelta \/ PushAgain \/ StreamEnds
    \/ EmitOutput \/ StartDrain \/ ToolSettles
    \/ SealScope \/ Flush
    \/ WriteCommits \/ WriteFails

Spec == Init /\ [][Next]_vars

(* A write ends, one way or the other; a woken caller runs; the scope's    *)
(* owner ends its stream or its tool call.                                 *)
Fairness ==
    /\ WF_vars(WriteCommits \/ WriteFails)
    /\ WF_vars(PushAgain) /\ WF_vars(Flush) /\ WF_vars(SealScope)
    /\ WF_vars(StreamEnds \/ ToolSettles)

LiveSpec == Spec /\ Fairness

---------------------------------------------------------------------------------
(* Properties *)

(* The intervals of q follow each other from n + 1 on. *)
FollowFrom(q, n) ==
    \A i \in DOMAIN q :
        /\ q[i].first = (IF i = 1 THEN n ELSE q[i - 1].last) + 1
        /\ q[i].first <= q[i].last

(* Live deltas reach the events in the order they were made, each once and *)
(* with no hole: what is journaled, being written and queued is the start  *)
(* of what the producer made, whatever merges, refusals and batches did.   *)
InOrder == ~failed => FollowFrom(inFlight \o pending, written)

(* The bytes the journal counts are those of the events it holds, and they *)
(* stay within the bound, but for one event let in alone                   *)
(* (delta-journal.ts:147, run-loop.md on back pressure).                   *)
BytesAreBounded ==
    /\ pendingBytes = BatchBytes(pending)
    /\ inFlightBytes = BatchBytes(inFlight)
    /\ \/ Unjournaled <= MaxBytes
       \/ \E b \in Blocks, s \in Sizes, n \in 1 .. MaxDeltas : inFlight \o pending = <<Delta(n, b, s)>>

(* Nobody sleeps through the wake-up it waits for: while a caller waits,   *)
(* a write that has not failed is under way, and its end notifies; one     *)
(* that waits for room is not waiting on a sealed journal.                 *)
WaitersAreWoken ==
    /\ capacityWaiters \cup drainWaiters # {} => writing /\ ~failed
    /\ capacityWaiters # {} => ~sealed
    /\ pending # <<>> => writing

(* The last flush is the scope's durable boundary: once it has returned,   *)
(* everything the journal took has committed, all a model request's stream *)
(* made, and nothing more is written.                                      *)
FlushIsTheBoundary ==
    [][caller = "flushed" => /\ Drained
                             /\ scope = "model_request" => written = made
                             /\ UNCHANGED <<written, pending, writing>>]_vars

(* The owner of the scope gets out: no wait for room and no flush lasts.   *)
ScopeCloses == <>(caller \in {"flushed", "threw"})

=================================================================================
