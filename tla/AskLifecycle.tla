----------------------------- MODULE AskLifecycle -----------------------------
(***************************************************************************)
(* The life of a chat's asks: the question or permission request a tool    *)
(* call leaves behind when its run settles, and everything that may end    *)
(* it.  A writer's answer, the timeout sweep, a presence, a Stop, a delete *)
(* and the run's own settlement are transactions of one database; each     *)
(* takes the ask rows the chat holds, then the chat's lock, then commits.  *)
(*                                                                         *)
(* asks/ask-service.ts, asks/ask-deadline.ts, the Drizzle ask repository,  *)
(* the Postgres thread lock, the execution finalizer and the lineage       *)
(* claim.  A transaction's writes are invisible until it commits, so its   *)
(* commit is one step; what it reads before its locks, and what it waits   *)
(* for, are steps of their own.  Time is counted per ask, from the moment  *)
(* it opened.                                                              *)
(***************************************************************************)
EXTENDS Naturals, FiniteSets

CONSTANTS
  Asks,         \* the asks the chat's runs may open
  Permissions,  \* those that ask permission: no deadline, no presence
  Submissions,  \* the client's submission ids, each for one ask
  Drafts,       \* half-filled answers a presence may carry
  Writers,      \* the writer's requests: answer and presence
  Sweeps,       \* expiry sweeps, one per server process
  Commands,     \* Stop and delete requests
  Run,          \* the chat's run: one holds the lease at a time
  None,         \* no ask, no actor, no draft
  IdleLimit,    \* ASK_IDLE_MS, in ticks
  HardLimit,    \* ASK_HARD_LIMIT_MS, in ticks
  MaxFaults     \* the bound of crashes and failed transactions

Actors == Writers \cup Sweeps \cup Commands \cup {Run}

\* The actors are told apart; None is none of the values it stands in for.
ASSUME ActorsAssumption ==
  /\ Permissions \subseteq Asks
  /\ None \notin Asks \cup Actors \cup Submissions \cup Drafts
  /\ Run \notin Writers \cup Sweeps \cup Commands
  /\ Writers \cap Sweeps = {} /\ Writers \cap Commands = {} /\ Sweeps \cap Commands = {}
ASSUME LimitsAssumption ==
  /\ IdleLimit \in Nat /\ HardLimit \in Nat /\ IdleLimit <= HardLimit
  /\ MaxFaults \in Nat

VARIABLES
  status,     \* asks.status; "absent" before the row exists
  cont,       \* asks.continuation; "none" while nothing is decided
  age,        \* the time since asks.opened_at
  deadline,   \* asks.deadline_at, counted from opened_at
  draft,      \* asks.draft_answers
  answeredBy, \* asks.submission_id
  timedOut,   \* the draft a timeout's resolution was built from
  turn,       \* the asking turn's status
  hints,      \* the asks whose ask_resolved row is pending in the inbox
  run,        \* the chat's lease, and the ask its execution holds
  deleted,    \* the chat is in the trash
  tx,         \* each actor's transaction
  rowOf,      \* the transaction that holds an ask's row lock
  lock,       \* the transaction that holds the chat's lock
  reply,      \* the ask a submission answers and what its sender was told
  faults      \* crashes and failed transactions so far

clock == <<age, deadline>>
resolution == <<draft, answeredBy, timedOut>>
rows == <<status, cont, clock, resolution>>
locks == <<tx, rowOf, lock>>
vars == <<rows, turn, hints, run, deleted, locks, reply, faults>>

NoTx == [kind |-> "none", stage |-> "idle", ask |-> None, at |-> 0,
         carries |-> None, skip |-> FALSE]
NoRun == [phase |-> "none", asking |-> None, cancelled |-> FALSE]

Live(a) == status[a] \in {"pending", "open"}
Owed(a) == cont[a] = "pending"
Held(a) == Live(a) \/ Owed(a)
Free(p, a) == rowOf[a] \in {None, p}

\* (mutant) The idle clock alone.
IdleDeadline(at) == at + IdleLimit

\* The idle clock restarted `at` ticks after the ask opened; the hard limit
\* never moves.  Whole seconds are below the model's tick.
AskDeadline(at) == IF at + IdleLimit <= HardLimit THEN at + IdleLimit ELSE HardLimit

(***************************************************************************)
(* Type correctness.                                                       *)
(***************************************************************************)
TxKinds == {"none", "answer", "presence", "expire", "stop", "delete",
            "start", "settle", "repair"}
Transactions == [kind : TxKinds, stage : {"idle", "begun", "rows", "locked"},
                 ask : Asks \cup {None}, at : 0 .. HardLimit,
                 carries : Submissions \cup Drafts \cup {None}, skip : BOOLEAN]
Replies == [ask : Asks \cup {None}, said : {"none", "ok", "refused", "notFound"}]
\* Every variable holds a value of its kind.
TypeOK ==
  /\ status \in [Asks -> {"absent", "pending", "open", "answered", "expired", "cancelled"}]
  /\ cont \in [Asks -> {"none", "pending", "done", "cancelled"}]
  /\ age \in [Asks -> 0 .. HardLimit]
  /\ deadline \in [Asks -> 0 .. HardLimit]
  /\ draft \in [Asks -> Drafts \cup {None}]
  /\ answeredBy \in [Asks -> Submissions \cup {None}]
  /\ timedOut \in [Asks -> Drafts \cup {None}]
  /\ turn \in [Asks -> {"none", "streaming", "awaiting_answer", "complete", "cancelled"}]
  /\ hints \in SUBSET Asks
  /\ run \in [phase : {"none", "running", "dead"},
              asking : Asks \cup {None}, cancelled : BOOLEAN]
  /\ deleted \in BOOLEAN
  /\ tx \in [Actors -> Transactions]
  /\ rowOf \in [Asks -> Actors \cup {None}]
  /\ lock \in Actors \cup {None}
  /\ reply \in [Submissions -> Replies]
  /\ faults \in Nat

Init ==
  /\ status = [a \in Asks |-> "absent"]
  /\ cont = [a \in Asks |-> "none"]
  /\ age = [a \in Asks |-> 0]
  /\ deadline = [a \in Asks |-> 0]
  /\ draft = [a \in Asks |-> None]
  /\ answeredBy = [a \in Asks |-> None]
  /\ timedOut = [a \in Asks |-> None]
  /\ turn = [a \in Asks |-> "none"]
  /\ hints = {}
  /\ run = NoRun
  /\ deleted = FALSE
  /\ tx = [p \in Actors |-> NoTx]
  /\ rowOf = [a \in Asks |-> None]
  /\ lock = None
  /\ reply = [s \in Submissions |-> [ask |-> None, said |-> "none"]]
  /\ faults = 0

(***************************************************************************)
(* Transactions: what some read first, the locks, the end.                 *)
(***************************************************************************)
\* (mutant) A resend is judged like a first answer.
NeverReplay(s, a) == FALSE

\* A submission that resolved its ask already.
IsReplay(s, a) == answeredBy[a] = s /\ status[a] # "open"

\* answer()'s unlocked reads.  A submission that already resolved its ask is
\* replayed.  A chat in the trash is not found: the code says `ask_not_open`
\* then as for a refusal, but names no ask.
BeginAnswer(p) ==
  /\ tx[p].stage = "idle"
  /\ \E s \in Submissions, a \in Asks :
       /\ status[a] \notin {"absent", "pending"}
       /\ reply[s].ask \in {None, a}
       /\ IF deleted \/ IsReplay(s, a)
            THEN /\ reply' = [reply EXCEPT ![s] =
                                [ask |-> a, said |-> IF deleted THEN "notFound" ELSE "ok"]]
                 /\ UNCHANGED tx
            ELSE /\ reply' = [reply EXCEPT ![s].ask = a]
                 /\ tx' = [tx EXCEPT ![p] = [NoTx EXCEPT !.kind = "answer", !.stage = "begun",
                                                         !.ask = a, !.carries = s]]
  /\ UNCHANGED <<rows, turn, hints, run, deleted, rowOf, lock, faults>>

\* presence() reads its clock before its transaction.
BeginPresence(p) ==
  /\ tx[p].stage = "idle"
  /\ ~deleted
  /\ \E a \in Asks, d \in Drafts \cup {None} :
       /\ status[a] = "open"
       /\ tx' = [tx EXCEPT ![p] = [NoTx EXCEPT !.kind = "presence", !.stage = "begun",
                                     !.ask = a, !.at = age[a], !.carries = d]]
  /\ UNCHANGED <<rows, turn, hints, run, deleted, rowOf, lock, reply, faults>>

\* expireDue()'s listing: open questions whose deadline has passed.
Due(a) == status[a] = "open" /\ deadline[a] <= age[a] /\ a \notin Permissions
BeginExpire(p) ==
  /\ tx[p].stage = "idle"
  /\ \E a \in Asks :
       /\ Due(a)
       /\ tx' = [tx EXCEPT ![p] = [NoTx EXCEPT !.kind = "expire", !.stage = "begun",
                                     !.ask = a, !.at = age[a], !.carries = draft[a]]]
  /\ UNCHANGED <<rows, turn, hints, run, deleted, rowOf, lock, reply, faults>>

\* (mutant) Rows another transaction holds are always skipped.
WantedIfFree(p, skip) == {a \in Asks : Held(a) /\ Free(p, a)}

\* lockThreadAsks: every ask the chat holds.  It waits for those another
\* transaction holds, or skips them.
Wanted(p, skip) == {a \in Asks : Held(a) /\ (skip => Free(p, a))}
TakeRows(p, t) ==
  /\ \A a \in Wanted(p, t.skip) : Free(p, a)
  /\ rowOf' = [a \in Asks |-> IF a \in Wanted(p, t.skip) THEN p ELSE rowOf[a]]
  /\ tx' = [tx EXCEPT ![p] = [t EXCEPT !.stage = "rows"]]
  /\ UNCHANGED <<rows, turn, hints, run, deleted, lock, reply, faults>>

LockRows(p) ==
  /\ tx[p].stage = "begun"
  /\ TakeRows(p, tx[p])

\* Whatever reads nothing of an ask before its locks begins with them.
Enter(p, kind, skip) ==
  /\ tx[p].stage = "idle"
  /\ TakeRows(p, [NoTx EXCEPT !.kind = kind, !.skip = skip])

\* Stop, and the trash.  A Work's delete locks its later chats while it holds
\* an earlier one's lock, so there it skips rows it would have to wait for.
EnterStop(p) == Enter(p, "stop", FALSE)
EnterDelete(p) == ~deleted /\ \E later \in BOOLEAN : Enter(p, "delete", later)

\* The run's own: its start under a fresh claim, its settlement, and the repair
\* of an execution whose process died by whoever claims the chat next.
EnterStart == ~deleted /\ run.phase = "none" /\ Enter(Run, "start", FALSE)
EnterSettle == run.phase = "running" /\ Enter(Run, "settle", FALSE)
EnterRepair == run.phase = "dead" /\ Enter(Run, "repair", FALSE)

\* The advisory lock and the thread row.
LockThread(p) ==
  /\ tx[p].stage = "rows"
  /\ lock = None
  /\ lock' = p
  /\ tx' = [tx EXCEPT ![p].stage = "locked"]
  /\ UNCHANGED <<rows, turn, hints, run, deleted, rowOf, reply, faults>>

Release(p) ==
  /\ tx' = [tx EXCEPT ![p] = NoTx]
  /\ lock' = IF lock = p THEN None ELSE lock
  /\ rowOf' = [a \in Asks |-> IF rowOf[a] = p THEN None ELSE rowOf[a]]

\* The rows a transaction goes on to lock or write under the chat's lock: the
\* ask it resolves, the one its execution holds, the continuation it admits.
Touched(p) ==
  CASE tx[p].kind \in {"answer", "presence", "expire"} -> {a \in {tx[p].ask} : Live(a)}
    [] tx[p].kind \in {"settle", "repair"} -> {a \in {run.asking} \cap Asks : Live(a)}
    [] tx[p].kind = "start" -> {a \in hints : Owed(a)}
    [] OTHER -> {}

Commit(p, kind) ==
  /\ tx[p].kind = kind
  /\ tx[p].stage = "locked"
  /\ \A a \in Touched(p) : Free(p, a)
  /\ Release(p)
  /\ UNCHANGED faults

(***************************************************************************)
(* Answers, timeouts, presences.                                           *)
(***************************************************************************)
\* (mutant) Only a published ask is withdrawn.
CancelOpen(S) ==
  /\ status' = [a \in Asks |-> IF a \in S /\ status[a] = "open" THEN "cancelled" ELSE status[a]]
  /\ turn' = [a \in Asks |-> IF a \in S /\ Live(a) THEN "cancelled" ELSE turn[a]]
  /\ cont' = [a \in Asks |-> IF a \in S THEN "cancelled" ELSE cont[a]]

\* writeToolResult for cancelled asks: the asking turn ends with them.
CancelLive(S) ==
  /\ status' = [a \in Asks |-> IF a \in S /\ Live(a) THEN "cancelled" ELSE status[a]]
  /\ turn' = [a \in Asks |-> IF a \in S /\ Live(a) THEN "cancelled" ELSE turn[a]]
  /\ cont' = [a \in Asks |-> IF a \in S THEN "cancelled" ELSE cont[a]]

\* (mutant) A timeout resolves whatever its listing found.
OnceDue(p) == TRUE

\* resolveOpen: the row is open and, for a timeout, still due by the listing's
\* clock.  Its turn completes, and the continuation is owed with its hint.
StillDue(p) == tx[p].kind = "expire" => deadline[tx[p].ask] <= tx[p].at
MayResolve(p) == ~deleted /\ status[tx[p].ask] = "open" /\ StillDue(p)
\* (mutant) The continuation is recorded without its wake hint.
ResolveSilently(a, as) ==
  /\ turn[a] = "awaiting_answer"
  /\ status' = [status EXCEPT ![a] = as]
  /\ cont' = [cont EXCEPT ![a] = "pending"]
  /\ turn' = [turn EXCEPT ![a] = "complete"]
  /\ UNCHANGED hints

ResolveOpen(a, as) ==
  /\ turn[a] = "awaiting_answer"
  /\ status' = [status EXCEPT ![a] = as]
  /\ cont' = [cont EXCEPT ![a] = "pending"]
  /\ turn' = [turn EXCEPT ![a] = "complete"]
  /\ hints' = hints \cup {a}

\* (mutant) Nobody finishes what the delete skipped.
LeaveSkipped(p) == UNCHANGED <<status, turn, cont, hints>>

\* A live ask of a chat deleted meanwhile ends as the delete would have had it.
FinishDelete(p) ==
  /\ CancelLive({a \in {tx[p].ask} : deleted /\ Live(a)})
  /\ UNCHANGED hints

\* What the sender is told, if the answer's answer reaches it.
Tells(p, said) == reply' \in {reply, [reply EXCEPT ![tx[p].carries].said = said]}

ReplayAnswer(p) ==
  /\ Commit(p, "answer")
  /\ IsReplay(tx[p].carries, tx[p].ask)
  /\ Tells(p, "ok")
  /\ UNCHANGED <<rows, turn, hints, run, deleted>>

ResolveAnswer(p) ==
  /\ Commit(p, "answer")
  /\ ~IsReplay(tx[p].carries, tx[p].ask)
  /\ MayResolve(p)
  /\ ResolveOpen(tx[p].ask, "answered")
  /\ answeredBy' = [answeredBy EXCEPT ![tx[p].ask] = tx[p].carries]
  /\ Tells(p, "ok")
  /\ UNCHANGED <<clock, draft, timedOut, run, deleted>>

RefuseAnswer(p) ==
  /\ Commit(p, "answer")
  /\ ~IsReplay(tx[p].carries, tx[p].ask)
  /\ ~MayResolve(p)
  /\ FinishDelete(p)
  /\ Tells(p, "refused")
  /\ UNCHANGED <<clock, resolution, run, deleted>>

\* timeoutResolution reads the draft of the row as the lock holds it.
TimeoutDraft(p) == draft[tx[p].ask]

ResolveExpiry(p) ==
  /\ Commit(p, "expire")
  /\ MayResolve(p)
  /\ ResolveOpen(tx[p].ask, "expired")
  /\ timedOut' = [timedOut EXCEPT ![tx[p].ask] = TimeoutDraft(p)]
  /\ UNCHANGED <<clock, draft, answeredBy, run, deleted, reply>>

RefuseExpiry(p) ==
  /\ Commit(p, "expire")
  /\ ~MayResolve(p)
  /\ FinishDelete(p)
  /\ UNCHANGED <<clock, resolution, run, deleted, reply>>

\* presence() under the lock: an open question only.  The deadline never moves
\* back, and a presence without answers keeps the stored draft.
RecordPresence(p) ==
  LET a == tx[p].ask
      moved == AskDeadline(tx[p].at)
  IN /\ Commit(p, "presence")
     /\ IF status[a] = "open" /\ a \notin Permissions
          THEN /\ deadline' = [deadline EXCEPT ![a] = IF moved > @ THEN moved ELSE @]
               /\ draft' = [draft EXCEPT ![a] = IF tx[p].carries = None THEN @ ELSE tx[p].carries]
          ELSE UNCHANGED <<deadline, draft>>
     /\ UNCHANGED <<status, cont, age, answeredBy, timedOut, turn, hints, run, deleted, reply>>

(***************************************************************************)
(* Stop and delete: claimLineage over the owner.                           *)
(***************************************************************************)
\* Open asks, owed continuations and, of a cancelled execution, the pending
\* one.  Rows another transaction holds are skipped.
ClaimLineage(p, execution) ==
  {a \in Asks : /\ Free(p, a)
                /\ \/ status[a] = "open"
                   \/ status[a] = "pending" /\ execution /\ run.asking = a
                   \/ Owed(a)}

\* (mutant) The hints stay for a run to find.
KeepHints(claimed) == UNCHANGED hints

\* The hints of claimed asks leave the inbox with the claim.
DropHints(claimed) == hints' = hints \ claimed

\* The delivery's Stop cancels the live execution, or spares it.
Stop(p) ==
  /\ Commit(p, "stop")
  /\ \E execution \in BOOLEAN :
       /\ execution => run.phase = "running"
       /\ CancelLive(ClaimLineage(p, execution))
       /\ DropHints(ClaimLineage(p, execution))
       /\ run' = [run EXCEPT !.cancelled = @ \/ execution]
  /\ UNCHANGED <<clock, resolution, deleted, reply>>

\* stopThreads, then the trash.  Any lease is flagged, but only a run of this
\* process lends the claim its execution.
Delete(p) ==
  /\ Commit(p, "delete")
  /\ \E execution \in BOOLEAN :
       /\ execution => run.phase = "running"
       /\ CancelLive(ClaimLineage(p, execution))
       /\ DropHints(ClaimLineage(p, execution))
  /\ run' = [run EXCEPT !.cancelled = run.phase # "none"]
  /\ deleted' = TRUE
  /\ UNCHANGED <<clock, resolution, reply>>

\* A restore takes the thread row, so it waits for the chat's lock.
Restore ==
  /\ deleted
  /\ lock = None
  /\ deleted' = FALSE
  /\ UNCHANGED <<rows, turn, hints, run, locks, reply, faults>>

(***************************************************************************)
(* The run.                                                                *)
(***************************************************************************)
\* (mutant) An open ask holds nothing back.
MayAlwaysStart == ~deleted /\ hints = {}

\* What a start finds under the lock: nothing while an ask is open, unless a
\* hint comes first.
MayStartFresh == ~deleted /\ hints = {} /\ \A a \in Asks : status[a] # "open"

\* admitRun claims the continuation of the hinted ask and retires its hint; a
\* hint that owes nothing is retired without a run.
Continue(a) ==
  /\ Commit(Run, "start")
  /\ ~deleted
  /\ a \in hints
  /\ cont' = [cont EXCEPT ![a] = IF Owed(a) THEN "done" ELSE @]
  /\ hints' = hints \ {a}
  /\ run' = [NoRun EXCEPT !.phase = IF Owed(a) THEN "running" ELSE "none"]
  /\ UNCHANGED <<status, clock, resolution, turn, deleted, reply>>

StartFresh ==
  /\ Commit(Run, "start")
  /\ MayStartFresh
  /\ run' = [NoRun EXCEPT !.phase = "running"]
  /\ UNCHANGED <<rows, turn, hints, deleted, reply>>

StartNothing ==
  /\ Commit(Run, "start")
  /\ ~MayStartFresh /\ (deleted \/ hints = {})
  /\ UNCHANGED <<rows, turn, hints, run, deleted, reply>>

\* request(): one insert, outside every lock.  A batch holds one request, and
\* the batch that holds it ends its run.
Request(a) ==
  /\ run.phase = "running" /\ tx[Run].stage = "idle"
  /\ run.asking = None
  /\ status[a] = "absent"
  /\ status' = [status EXCEPT ![a] = "pending"]
  /\ turn' = [turn EXCEPT ![a] = "streaming"]
  /\ run' = [run EXCEPT !.asking = a]
  /\ UNCHANGED <<cont, clock, resolution, hints, deleted, locks, reply, faults>>

\* finalizeExecution with the cause the run closes with: an ask whose run was
\* flagged, or whose chat is gone, is withdrawn instead of published.
Asking == {a \in {run.asking} \cap Asks : turn[a] = "streaming"}
Publishes == ~run.cancelled /\ ~deleted

PublishAsk ==
  /\ Commit(Run, "settle")
  /\ Publishes
  /\ \E a \in Asking :
       /\ status[a] = "pending"
       /\ status' = [status EXCEPT ![a] = "open"]
       /\ turn' = [turn EXCEPT ![a] = "awaiting_answer"]
       /\ deadline' = [deadline EXCEPT ![a] = IF a \in Permissions THEN @ ELSE AskDeadline(0)]
  /\ run' = NoRun
  /\ UNCHANGED <<cont, age, resolution, hints, deleted, reply>>

\* The flag, a local abort or a failure of the run withdraws the ask.
WithdrawAsk(kind) ==
  /\ Commit(Run, kind)
  /\ CancelLive(Asking)
  /\ run' = NoRun
  /\ UNCHANGED <<clock, resolution, hints, deleted, reply>>

(***************************************************************************)
(* Failures, and time.                                                     *)
(***************************************************************************)
\* The run's process dies, with the transaction it may be in.
Crash ==
  /\ faults < MaxFaults
  /\ run.phase = "running"
  /\ faults' = faults + 1
  /\ run' = [run EXCEPT !.phase = "dead"]
  /\ Release(Run)
  /\ UNCHANGED <<rows, turn, hints, deleted, reply>>

\* A transaction fails and rolls back; its actor gives up.
Abort(p) ==
  /\ faults < MaxFaults
  /\ p # Run
  /\ tx[p].stage # "idle"
  /\ faults' = faults + 1
  /\ Release(p)
  /\ UNCHANGED <<rows, turn, hints, run, deleted, reply>>

Tick(a) ==
  /\ status[a] = "open" /\ a \notin Permissions
  /\ age[a] < HardLimit
  /\ age' = [age EXCEPT ![a] = @ + 1]
  /\ UNCHANGED <<status, cont, deadline, resolution, turn, hints, run, deleted, locks, reply, faults>>

(***************************************************************************)
(* The specification.                                                      *)
(***************************************************************************)
WriteOf(p) ==
  \/ ReplayAnswer(p) \/ ResolveAnswer(p) \/ RefuseAnswer(p) \/ RecordPresence(p)
  \/ ResolveExpiry(p) \/ RefuseExpiry(p) \/ Stop(p) \/ Delete(p)
  \/ p = Run /\ \/ \E a \in Asks : Continue(a)
                \/ StartFresh \/ StartNothing
                \/ PublishAsk \/ WithdrawAsk("settle") \/ WithdrawAsk("repair")
Proceed(p) == LockRows(p) \/ LockThread(p) \/ WriteOf(p)
EnterRun == EnterStart \/ EnterSettle \/ EnterRepair

Next ==
  \/ \E p \in Writers : BeginAnswer(p) \/ BeginPresence(p)
  \/ \E p \in Sweeps : BeginExpire(p)
  \/ \E p \in Commands : EnterStop(p) \/ EnterDelete(p)
  \/ EnterRun
  \/ \E p \in Actors : Proceed(p) \/ Abort(p)
  \/ \E a \in Asks : Request(a) \/ Tick(a)
  \/ Restore \/ Crash

Spec == Init /\ [][Next]_vars

\* Postgres serves lock waiters in order, so a transaction that can go on
\* again and again does go on; the sweep's timer fires, the drain follows a
\* hint, a run closes, the repair lane finds a dead one, and time passes.
\* Nothing makes a writer act, a command come or a chat be restored.
Fairness ==
  /\ \A p \in Writers \cup Commands : SF_vars(Proceed(p))
  /\ \A p \in Sweeps : SF_vars(BeginExpire(p) \/ Proceed(p))
  /\ SF_vars(EnterRun \/ Proceed(Run))
  /\ WF_vars(\E a \in Asks : Tick(a))
LiveSpec == Spec /\ Fairness

(***************************************************************************)
(* Properties.                                                             *)
(***************************************************************************)
\* A resolved ask whose continuation is owed has its wake hint in the inbox,
\* and a hint always finds its continuation owed: an answer is never left
\* unheard, and a start never fails on "no longer owed".
EveryOwedHasItsHint == \A a \in Asks : a \in hints <=> Owed(a)

\* A pending ask belongs to an unsettled execution and an open one to a turn
\* that waits for it, so no resolution throws on "not attached to its active
\* asking turn", and no turn waits for an ask that is gone.
AskAndTurnAgree ==
  \A a \in Asks :
    /\ status[a] = "pending" <=> turn[a] = "streaming"
    /\ status[a] = "pending" => run.asking = a
    /\ status[a] = "open" <=> turn[a] = "awaiting_answer"

\* At most one ask of the chat is live or owed.
OneAskAtATime == \A a, b \in Asks : Held(a) /\ Held(b) => a = b

\* A transaction that holds the chat's lock never waits for an ask row: its
\* holder waits for that lock.
NeverWaitsUnderTheLock ==
  \A p \in Actors : tx[p].stage = "locked" => \A a \in Touched(p) : Free(p, a)

\* An answer the writer was told stands is the ask's resolution for good, and
\* the sender of the standing answer is never told that it lost: that its ask
\* is resolved otherwise (`ask_not_open` with the ask), however often it asks
\* again.  A chat in the trash answers `ask_not_open` without the ask; the
\* client then holds the ask closed until a read tells it how it ended.
ToldTheTruth ==
  \A s \in Submissions :
    /\ reply[s].said = "ok" => answeredBy[reply[s].ask] = s /\ status[reply[s].ask] = "answered"
    /\ reply[s].said = "refused" => answeredBy[reply[s].ask] # s

\* A question times out only once the deadline its row holds has passed, with
\* the draft its row holds: a presence that came first counts.
TimeoutHonoursPresence ==
  [][\A a \in Asks : status[a] # "expired" /\ status'[a] = "expired" =>
       deadline[a] <= age[a] /\ timedOut'[a] = draft[a]]_vars

\* Every question ends, however long the writer stays active on the page and
\* whatever became of its chat.
EveryQuestionEnds ==
  \A a \in Asks \ Permissions : status[a] = "open" ~> status[a] # "open"

\* An answered question is continued or withdrawn, unless its chat is in the
\* trash.
EveryAnswerIsContinued ==
  \A a \in Asks : Owed(a) ~> (~Owed(a) \/ deleted)
=============================================================================
