----------------------------- MODULE LineageFence -----------------------------
(***************************************************************************)
(* What a cancellation reaches: a chat, its subagents, and theirs.  Each   *)
(* runs on its own lease, spawns children, sends messages and reports to   *)
(* the thread that spawned it; a Stop, a Send now, a cancelled turn, a     *)
(* deleted chat and a subagent's own end take the locks of the threads     *)
(* they reach, drop their queued machine work, flag their runs and stamp   *)
(* their wake fence, in one transaction.                                   *)
(*                                                                         *)
(* spawn/lineage-cancellation.ts, the run claim's wake refusal, the run    *)
(* session's triggers, the spawn and admission of a background child, and  *)
(* the report publisher.  Threads keep the order of their ids, which need  *)
(* not be the order they were spawned in.  Lease admissions and fences     *)
(* read one clock; no two read the same instant.                           *)
(***************************************************************************)
EXTENDS Naturals, Sequences, FiniteSets, SequencesExt

CONSTANTS
  Threads,    \* thread ids; a spawn takes any unused one
  Root,       \* the chat
  Written,    \* the threads the writer types into
  Commands,   \* the writer's requests, each pressed once
  Kinds,      \* what they may be: "stop", "sendNow", "turn" (with its run),
              \* "parked" (a turn parked on a question), "delete"
  MaxClock,   \* the bound of lease admissions, on the shared clock
  MaxSends,   \* the bound of messages runs send
  MaxFaults   \* the bound of missed renewals and failed subtree ends

NoThread == 0
Actors == Commands \cup Threads  \* a thread cancels when its run ends

ASSUME ThreadsAssumption ==
  /\ Threads \subseteq Nat \ {NoThread} /\ Root \in Threads /\ Written \subseteq Threads
  /\ Threads \cap Commands = {}
  /\ Kinds \subseteq {"stop", "sendNow", "turn", "parked", "delete"}
ASSUME BoundsAssumption == MaxClock \in Nat /\ MaxSends \in Nat /\ MaxFaults \in Nat

VARIABLES
  clock,    \* the last instant a lease or a fence took
  parent,   \* threads.parent_thread_id; NoThread for the chat and the unborn
  origin,   \* the admission of the execution that spawned the thread
  spawn,    \* threads.spawn_status
  deleted,  \* the chat is in the trash
  lease,    \* each thread's lease, how far its run is, and (ghost) whether a
            \* cancellation that reaches its spawns ended it
  toAdmit,  \* spawned children whose run is not admitted yet
  inbox,    \* each thread's pending rows: who sent them, from which execution,
            \* and (ghost) whether that execution was ended before
  fence,    \* threads.wake_fence_at
  reports,  \* execution reports not published yet
  tx,       \* each cancellation's transaction
  sent,     \* messages sent so far
  faults    \* missed renewals and failed subtree ends so far

tree == <<parent, origin, spawn, toAdmit>>
vars == <<clock, tree, deleted, lease, inbox, fence, reports, tx, sent, faults>>

NoLease == [at |-> 0, flagged |-> FALSE, expired |-> FALSE, phase |-> "none", child |-> FALSE,
            ended |-> "no"]
NoTx == [kind |-> "none", stage |-> "idle", owner |-> NoThread,
         held |-> {}, todo |-> <<>>, flagged |-> {}]
Done == [NoTx EXCEPT !.stage = "done"]
WriterRow == [kind |-> "writer", from |-> NoThread, at |-> 0, ended |-> FALSE]
AgentRow(t, at) == [kind |-> "agent", from |-> t, at |-> at, ended |-> FALSE]

(***************************************************************************)
(* Type correctness.                                                       *)
(***************************************************************************)
Leases == [at : Nat, flagged : BOOLEAN, expired : BOOLEAN, child : BOOLEAN,
           phase : {"none", "admitting", "refused", "setup", "unbound", "bound", "closed",
                    "ending", "ended"},
           ended : {"no", "owner", "target"}]
InboxRows == [kind : {"writer", "agent", "child"}, from : Threads \cup {NoThread}, at : Nat,
              ended : BOOLEAN]
Reports == [child : Threads, at : Nat, done : BOOLEAN, withdrawn : BOOLEAN, ended : BOOLEAN]
\* Every variable holds a value of its kind; a transaction's list is in the
\* order InLockOrder gives it.
TypeOK ==
  /\ clock \in Nat
  /\ parent \in [Threads -> Threads \cup {NoThread}]
  /\ origin \in [Threads -> Nat]
  /\ spawn \in [Threads -> {"none", "running", "cancelled", "ended"}]
  /\ deleted \in BOOLEAN
  /\ lease \in [Threads -> Leases]
  /\ toAdmit \in SUBSET Threads
  /\ inbox \in [Threads -> SUBSET InboxRows]
  /\ fence \in [Threads -> Nat]
  /\ reports \in SUBSET Reports
  /\ sent \in Nat
  /\ faults \in Nat

Born == {t \in Threads : t = Root \/ parent[t] # NoThread}
Running(t) == lease[t].phase # "none"
Free(t) == \A p \in Actors : t \notin tx[p].held

(***************************************************************************)
(* The tree.                                                               *)
(***************************************************************************)
Above[t \in Threads] == IF parent[t] = NoThread THEN {} ELSE {parent[t]} \cup Above[parent[t]]
Subtree(t) == {u \in Threads : t \in Above[u]}
\* The subtrees whose root the execution of t admitted `at` spawned.
SpawnedBy(t, at) ==
  {u \in Subtree(t) : \E v \in {u} \cup Above[u] : parent[v] = t /\ origin[v] = at}

\* Parents first, then by id.
LocksFirst(t, u) ==
  \/ Cardinality(Above[t]) < Cardinality(Above[u])
  \/ Cardinality(Above[t]) = Cardinality(Above[u]) /\ t < u
\* (mutant) Plain id order.
ById(S) == SetToSortSeq(S, LAMBDA t, u : t < u)
\* The order in which a cancellation locks the threads of S.
InLockOrder(S) ==
  CHOOSE s \in [1 .. Cardinality(S) -> S] :
    \A i, j \in 1 .. Cardinality(S) : i < j => LocksFirst(s[i], s[j])

\* (mutant) The sender's lease alone decides.
RefusedForSender(s, at, u) == lease[s].at # at \/ lease[s].flagged
\* A machine wake of u by the execution of s admitted `at` is refused; a
\* spawn has no receiver.
WakeRefused(s, at, u) ==
  \/ lease[s].at # at
  \/ lease[s].flagged
  \/ u # NoThread /\ fence[u] > at

(***************************************************************************)
(* Runs: the lease, the first transaction, the close, the release.         *)
(***************************************************************************)
Admit(t, phase, child) ==
  /\ ~Running(t)
  /\ clock < MaxClock
  /\ clock' = clock + 1
  /\ lease' = [lease EXCEPT ![t] = [NoLease EXCEPT !.at = clock + 1, !.phase = phase,
                                                    !.child = child]]

WriterSends(t) ==
  /\ t \in Written \cap Born
  /\ Free(t)
  /\ t = Root => ~deleted
  /\ inbox' = [inbox EXCEPT ![t] = @ \cup {WriterRow}]
  /\ UNCHANGED <<clock, tree, deleted, lease, fence, reports, tx, sent, faults>>

\* A wake takes the lease under no thread lock.
Start(t) ==
  /\ inbox[t] # {}
  /\ Admit(t, "setup", FALSE)
  /\ UNCHANGED <<tree, deleted, inbox, fence, reports, tx, sent, faults>>

Reporting(t) ==
  \/ lease[t].child
  \/ \E row \in inbox[t] : row.kind = "agent" /\ row.from = parent[t]

\* The run's first transaction: a flagged run, one that finds nothing to do
\* and one of a deleted chat end here, an aborted admission withdrawing its
\* own message; another adopts what is queued and admits the report of a
\* spawn, or of its parent's re-task.
Bind(t) ==
  /\ lease[t].phase = "setup"
  /\ Free(t)
  /\ LET runs == ~lease[t].flagged /\ inbox[t] # {} /\ ~(t = Root /\ deleted) IN
     /\ lease' = [lease EXCEPT ![t].phase = IF runs THEN "bound" ELSE "unbound"]
     /\ \/ runs /\ inbox' = [inbox EXCEPT ![t] = {}]
        \/ ~runs /\ inbox' = inbox
        \/ /\ ~runs /\ lease[t].child /\ lease[t].flagged
           /\ inbox' = [inbox EXCEPT ![t] = @ \ {AgentRow(t, origin[t])}]
     /\ reports' = IF runs /\ Reporting(t)
                   THEN reports \cup {[child |-> t, at |-> lease[t].at,
                                       done |-> FALSE, withdrawn |-> FALSE,
                                       ended |-> lease[t].ended = "target"]}
                   ELSE reports
  /\ UNCHANGED <<clock, tree, deleted, fence, tx, sent, faults>>

\* A spawn tool returns once the child's run has set up.
Spawning(t) ==
  \E u \in Threads :
    /\ parent[u] = t /\ origin[u] = lease[t].at
    /\ u \in toAdmit \/ (lease[u].child /\ lease[u].phase \in {"admitting", "setup"})

\* The close finalizes the report; a spawn's run settles its spawn status.
\* Only a stopped run leaves a spawn in flight behind.
RunEnds(t) ==
  /\ lease[t].phase = "bound"
  /\ Spawning(t) => lease[t].flagged
  /\ Free(t)
  /\ lease' = [lease EXCEPT ![t].phase = "closed"]
  /\ reports' = {IF r.child = t /\ r.at = lease[t].at THEN [r EXCEPT !.done = TRUE] ELSE r :
                  r \in reports}
  /\ spawn' = IF lease[t].child THEN [spawn EXCEPT ![t] = "ended"] ELSE spawn
  /\ UNCHANGED <<clock, parent, origin, toAdmit, deleted, inbox, fence, tx, sent, faults>>

\* A subagent's admitted run ends its subtree before its lease goes; it lists
\* the subtree first, under no lock.
MayRelease(t) ==
  \/ lease[t].phase \in {"unbound", "refused", "ended"}
  \/ lease[t].phase = "closed" /\ (lease[t].child => Subtree(t) = {})

\* A spawn whose run never bound is settled by the coordinator, unless its
\* admission was refused.
Release(t) ==
  /\ MayRelease(t)
  /\ Free(t)
  /\ lease' = [lease EXCEPT ![t] = NoLease]
  /\ spawn' = IF lease[t].phase = "unbound" /\ lease[t].child
              THEN [spawn EXCEPT ![t] = "ended"] ELSE spawn
  /\ UNCHANGED <<clock, parent, origin, toAdmit, deleted, inbox, fence, reports, tx, sent, faults>>

\* A missed renewal: the row reads as expired, its process holds on, and a
\* cancellation does not flag it.
Expire(t) ==
  /\ lease[t].phase \in {"admitting", "setup", "bound"} /\ ~lease[t].expired
  /\ ~lease[t].flagged   \* a bound: an expiry after the flag, or the close, changes nothing
  /\ faults < MaxFaults
  /\ lease' = [lease EXCEPT ![t].expired = TRUE]
  /\ faults' = faults + 1
  /\ UNCHANGED <<clock, tree, deleted, inbox, fence, reports, tx, sent>>

\* The next heartbeat renews it, flag and all.
Renew(t) ==
  /\ lease[t].expired
  /\ lease' = [lease EXCEPT ![t].expired = FALSE]
  /\ UNCHANGED <<clock, tree, deleted, inbox, fence, reports, tx, sent, faults>>

(***************************************************************************)
(* Machine work: messages, spawns and their admission, reports.            *)
(***************************************************************************)
\* A background thread_message, under the receiver's lock.
Send(t, u) ==
  /\ lease[t].phase = "bound" /\ u \in Born \ {t}
  /\ u = Root => ~deleted
  /\ sent < MaxSends
  /\ Free(u)
  /\ ~WakeRefused(t, lease[t].at, u)
  /\ inbox' = [inbox EXCEPT ![u] = @ \cup {AgentRow(t, lease[t].at)}]
  /\ sent' = sent + 1
  /\ UNCHANGED <<clock, tree, deleted, lease, fence, reports, tx, faults>>

\* A background spawn, under the parent's row lock.
Spawn(t, u) ==
  /\ lease[t].phase = "bound" /\ u \in Threads \ Born
  /\ \A v \in Threads \ Born : v <= u   \* a bound: later threads have smaller ids
  /\ Free(t)
  /\ ~WakeRefused(t, lease[t].at, NoThread)
  /\ parent' = [parent EXCEPT ![u] = t]
  /\ origin' = [origin EXCEPT ![u] = lease[t].at]
  /\ spawn' = [spawn EXCEPT ![u] = "running"]
  /\ toAdmit' = toAdmit \cup {u}
  /\ UNCHANGED <<clock, deleted, lease, inbox, fence, reports, tx, sent, faults>>

\* The child's lease, under no lock.
StartAdmission(t) ==
  /\ t \in toAdmit
  /\ Admit(t, "admitting", TRUE)
  /\ toAdmit' = toAdmit \ {t}
  /\ UNCHANGED <<parent, origin, spawn, deleted, inbox, fence, reports, tx, sent, faults>>

\* A run a message started holds the child's lease: the admission fails.
ConflictAdmission(t) ==
  /\ t \in toAdmit /\ Running(t)
  /\ toAdmit' = toAdmit \ {t}
  /\ spawn' = [spawn EXCEPT ![t] = "ended"]
  /\ UNCHANGED <<clock, parent, origin, deleted, lease, inbox, fence, reports, tx, sent, faults>>

\* The child's first message: it names the child, and is sent by the
\* execution that spawned it.
AdmitMessage(t) ==
  /\ lease[t].phase = "admitting"
  /\ Free(t)
  /\ ~WakeRefused(parent[t], origin[t], t)
  /\ lease' = [lease EXCEPT ![t].phase = "setup"]
  /\ inbox' = [inbox EXCEPT ![t] = @ \cup {AgentRow(t, origin[t])}]
  /\ UNCHANGED <<clock, tree, deleted, fence, reports, tx, sent, faults>>

\* A refused admission writes nothing.
RefuseAdmission(t) ==
  /\ lease[t].phase = "admitting"
  /\ Free(t)
  /\ WakeRefused(parent[t], origin[t], t)
  /\ lease' = [lease EXCEPT ![t].phase = "refused"]
  /\ UNCHANGED <<clock, tree, deleted, inbox, fence, reports, tx, sent, faults>>

\* The run, or the sweep after it, publishes a report under the caller's
\* lock; a caller in the trash parks it.
Publish(r) ==
  /\ r \in reports /\ r.done
  /\ Free(parent[r.child])
  /\ ~(parent[r.child] = Root /\ deleted)
  /\ reports' = reports \ {r}
  /\ inbox' = IF r.withdrawn THEN inbox
              ELSE [inbox EXCEPT ![parent[r.child]] =
                      @ \cup {[kind |-> "child", from |-> r.child, at |-> r.at, ended |-> r.ended]}]
  /\ UNCHANGED <<clock, tree, deleted, lease, fence, tx, sent, faults>>

(***************************************************************************)
(* The cancellation's transaction.                                         *)
(***************************************************************************)
Targets(p) == tx[p].held \ {tx[p].owner}
OwnerFenced(p) ==
  \/ tx[p].kind = "delete"
  \/ tx[p].kind = "stop" /\ tx[p].owner # Root
Fenced(p) == Targets(p) \cup (IF OwnerFenced(p) THEN {tx[p].owner} ELSE {})

\* The owner's lock; the trigger decides and, but for a delete, flags the
\* owner's own run; the subtree is listed.
Begin(p, kind, t, flagged, reach) ==
  /\ tx[p].stage = "idle"
  /\ Free(t)
  /\ tx' = [tx EXCEPT ![p] = [kind |-> kind, stage |-> "locking", owner |-> t, held |-> {t},
                               todo |-> InLockOrder(reach), flagged |-> flagged]]
  /\ UNCHANGED <<clock, tree, deleted, inbox, fence, reports, sent>>

\* The owner's run, if its lease is live.
Live(t) == IF Running(t) /\ ~lease[t].expired THEN {t} ELSE {}

\* The executions whose turn may be parked on a question: they are over, and
\* spawned what a cancel of that turn still reaches.
Parked(t) ==
  {at \in {origin[u] : u \in {u \in Threads : parent[u] = t}} : Running(t) => lease[t].at # at}

Press(p, kind, t) ==
  /\ t \in Born
  /\ CASE kind = "stop" -> Begin(p, kind, t, Live(t), {})
       [] kind = "sendNow" -> Live(t) # {} /\ Begin(p, kind, t, Live(t), {})
       [] kind = "turn" -> /\ Live(t) # {} /\ lease[t].phase \in {"bound", "closed"}
                           /\ Begin(p, kind, t, Live(t), SpawnedBy(t, lease[t].at))
       [] kind = "parked" -> \E at \in Parked(t) : Begin(p, kind, t, {}, SpawnedBy(t, at))
       [] kind = "delete" -> t = Root /\ ~deleted /\ Begin(p, kind, t, {}, Subtree(t))
  /\ UNCHANGED <<lease, faults>>

\* A subagent's admitted run ends its subtree before its lease goes; one that
\* lists nothing asks for no lock.
EndSubtree(t) ==
  /\ lease[t].phase = "closed" /\ lease[t].child /\ Subtree(t) # {}
  /\ Begin(t, "terminal", t, {}, Subtree(t))
  /\ lease' = [lease EXCEPT ![t].phase = "ending"]
  /\ UNCHANGED faults

\* A failed subtree end is only logged.
EndSubtreeFails(t) ==
  /\ lease[t].phase = "closed" /\ lease[t].child /\ Subtree(t) # {}
  /\ faults < MaxFaults
  /\ lease' = [lease EXCEPT ![t].phase = "ended"]
  /\ faults' = faults + 1
  /\ UNCHANGED <<clock, tree, deleted, inbox, fence, reports, tx, sent>>

\* (mutant) The subtree as first listed.
AsListed(p) == Tail(tx[p].todo)
\* The rest of the list, and under the lock of its head what has been
\* spawned below it since.
Relisted(p) ==
  LET next == Head(tx[p].todo)
      known == tx[p].held \cup Range(tx[p].todo)
  IN Tail(tx[p].todo) \o InLockOrder(Subtree(next) \ known)

TakeTarget(p) ==
  /\ tx[p].stage = "locking" /\ tx[p].todo # <<>>
  /\ Free(Head(tx[p].todo))
  /\ tx' = [tx EXCEPT ![p].held = @ \cup {Head(tx[p].todo)}, ![p].todo = Relisted(p)]
  /\ UNCHANGED <<clock, tree, deleted, lease, inbox, fence, reports, sent, faults>>

\* requestCancel: the leases of the targets, and of what is deleted, that exist
\* now and have not expired.
Flag(p) ==
  /\ tx[p].stage = "locking" /\ tx[p].todo = <<>>
  /\ LET cancelled == IF tx[p].kind = "delete" THEN tx[p].held ELSE Targets(p)
     IN tx' = [tx EXCEPT ![p].stage = "flagged",
                         ![p].flagged = @ \cup UNION {Live(t) : t \in cancelled}]
  /\ UNCHANGED <<clock, tree, deleted, lease, inbox, fence, reports, sent, faults>>

\* A target loses its machine rows, a fenced thread its messages, a deleted
\* chat its reports, and every held inbox the targets' reports.
Drops(p, t, row) ==
  \/ t \in Targets(p) /\ row.kind # "writer"
  \/ t \in Fenced(p) /\ row.kind = "agent"
  \/ t = tx[p].owner /\ tx[p].kind = "delete" /\ row.kind = "child"
  \/ row.kind = "child" /\ row.from \in Targets(p)

\* (mutant) A report already finalized is left to be published.
WithdrawOpen(p) ==
  {IF r.child \in Targets(p) THEN [r EXCEPT !.withdrawn = ~r.done, !.ended = TRUE] ELSE r :
     r \in reports}
Withdraw(p) ==
  {IF r.child \in Targets(p) THEN [r EXCEPT !.withdrawn = TRUE, !.ended = TRUE] ELSE r :
     r \in reports}

\* (ghost) A target's report that is still queued.
Marked(p, row) == [row EXCEPT !.ended = @ \/ (row.kind = "child" /\ row.from \in Targets(p))]
\* (ghost) The executions whose spawns p reaches: those it ends, and the owner's.
EndedBy(p, t) ==
  IF t \in tx[p].flagged \cap Targets(p) THEN "target"
  ELSE IF t = tx[p].owner /\ (tx[p].kind = "terminal" \/
                              (tx[p].kind \in {"turn", "delete"} /\ t \in tx[p].flagged))
       THEN "owner" ELSE lease[t].ended

\* fenceWakes reads the clock after requestCancel, and the commit follows:
\* a lease admitted between the two is not flagged, and older than the fence.
Commit(p) ==
  /\ tx[p].stage = "flagged"
  /\ clock' = IF Fenced(p) = {} THEN clock ELSE clock + 1
  /\ fence' = [t \in Threads |-> IF t \in Fenced(p) THEN clock + 1 ELSE fence[t]]
  /\ inbox' = [t \in Threads |->
       IF t \in tx[p].held
       THEN {Marked(p, row) : row \in {row \in inbox[t] : ~Drops(p, t, row)}}
       ELSE inbox[t]]
  /\ lease' = [t \in Threads |->
       [lease[t] EXCEPT !.flagged = @ \/ t \in tx[p].flagged,
                        !.ended = EndedBy(p, t),
                        !.phase = IF t = p THEN "ended" ELSE @]]
  /\ reports' = Withdraw(p)
  /\ spawn' = [t \in Threads |-> IF t \in Targets(p) /\ spawn[t] = "running"
                                 THEN "cancelled" ELSE spawn[t]]
  /\ deleted' = (deleted \/ tx[p].kind = "delete")
  /\ tx' = [tx EXCEPT ![p] = IF p \in Commands THEN Done ELSE NoTx]
  /\ UNCHANGED <<parent, origin, toAdmit, sent, faults>>

(***************************************************************************)
(* The specification.                                                      *)
(***************************************************************************)
Init ==
  /\ clock = 0
  /\ parent = [t \in Threads |-> NoThread]
  /\ origin = [t \in Threads |-> 0]
  /\ spawn = [t \in Threads |-> "none"]
  /\ deleted = FALSE
  /\ lease = [t \in Threads |-> NoLease]
  /\ toAdmit = {}
  /\ inbox = [t \in Threads |-> {}]
  /\ fence = [t \in Threads |-> 0]
  /\ reports = {}
  /\ tx = [p \in Actors |-> NoTx]
  /\ sent = 0
  /\ faults = 0

Next ==
  \/ \E t \in Threads : \/ WriterSends(t) \/ Start(t) \/ Bind(t) \/ RunEnds(t) \/ Release(t)
                        \/ Expire(t) \/ Renew(t)
                        \/ StartAdmission(t) \/ ConflictAdmission(t)
                        \/ AdmitMessage(t) \/ RefuseAdmission(t)
                        \/ EndSubtree(t) \/ EndSubtreeFails(t)
  \/ \E t, u \in Threads : Send(t, u) \/ Spawn(t, u)
  \/ \E r \in reports : Publish(r)
  \/ \E p \in Commands, kind \in Kinds, t \in Threads : Press(p, kind, t)
  \/ \E p \in Actors : TakeTarget(p) \/ Flag(p) \/ Commit(p)

Spec == Init /\ [][Next]_vars

(***************************************************************************)
(* Properties.                                                             *)
(***************************************************************************)
\* A stopped thread accepts no machine message from an execution admitted
\* before its cancellation, whenever that execution sent it.
FenceHolds ==
  \A t \in Threads : \A row \in inbox[t] : row.kind = "agent" => row.at > fence[t]

\* A spawn either commits before the cancellation of the execution that
\* makes it, and is one of its targets, or it is refused.
SpawnsAreReached ==
  \A t \in Born \ {Root} :
    lease[parent[t]].at = origin[t] /\ lease[parent[t]].ended # "no" => fence[t] > origin[t]

\* Whatever an execution ended as a target still writes, no report of it
\* waits for, or wakes, its parent.
EndedReportsNothing ==
  \A t \in Threads : \A row \in inbox[t] : row.kind = "child" => ~row.ended

\* The thread whose lock a transaction waits for.
WaitsFor(p) == IF tx[p].todo = <<>> THEN {} ELSE {Head(tx[p].todo)}
\* Cancellations never wait for each other in a circle: of any set of them,
\* one waits for no lock another of the set holds.
NoLockCycle ==
  \A S \in (SUBSET {p \in Actors : tx[p].stage = "locking"}) \ {{}} :
    \E p \in S : \A q \in S : WaitsFor(p) \cap tx[q].held = {}

\* (comment, child-run-coordinator.ts) A refused admission is a lineage
\* cancellation's, which already wrote `cancelled`.
RefusedWasCancelled ==
  \A t \in Threads : lease[t].phase = "refused" => spawn[t] = "cancelled"
=============================================================================
