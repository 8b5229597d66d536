# Meridian Flow: the delivery path, specified and checked

TLA+ models of the part of Meridian Flow that decides which messages of a chat
an agent answers, when, in which mode and how often, what becomes of the
questions it asks and of the subagents it spawns, and how its live output is
made durable: the `runtime` domain of the server
(`src/apps/server/server/domains/runtime/`).  TLC checks small instances;
TLAPS proves every safety property of the runs, the refinement included, for
every value of the constants.

Paths below are relative to `src/apps/server/server/domains/runtime/` unless
they start with `src/`.

1. [The system](#1-the-system)
2. [The modules](#2-the-modules)
3. [Model and code](#3-model-and-code)
4. [What is checked](#4-what-is-checked)
5. [What is proved](#5-what-is-proved)
6. [Disagreements found](#6-disagreements-found)
7. [What is not modelled](#7-what-is-not-modelled)
8. [Plan](#8-plan)

## 1. The system

A writer sends messages to a chat (a *thread*).  Every message, every thread
control (compaction, write-mode switch) and every continuation of an answered
ask is a row of the chat's **inbox** (`thread_inbox_messages`).  A server
process that finds work claims the chat, opens an **execution** (a row of
`thread_run_leases` plus a Postgres session lock), reserves a reply **turn**
bound to the lease, and runs the model loop.  The rows the reply has taken on
and not answered yet are the lease's **receipt**; they are acknowledged with
the first response.  Several processes serve one database; they die, lose
their connection, and stall.

### Components

| Component | State | Operations | Correct when |
|---|---|---|---|
| Inbox selection (`loop/next-inbox-work.ts`) | none (pure) | `next` at run start and at a request boundary | nothing runs across a queued write-mode switch; boundary and start agree |
| Thread controls (`loop/thread-controls.ts`) | control rows, the Work's default mode | enqueue, cancel-out, withdraw | one queued switch; a withdrawn control never starts |
| Stop rule (`loop/stop-rule.ts`) | none (pure) | decide hand-back, Stop, Send now | a press cancels only what the writer meant |
| Hand-back store (`adapters/drizzle-hand-backs.ts`, `adapters/thread-commands.ts`) | stored decisions, the lease flag | hand back, Stop, Send now, turn cancel | handed back or answered, never both |
| Run claim (`adapters/drizzle-run-claim.ts`, `drizzle-session-lock.ts`) | lease row, session lock | start, renew, flag, end, abandon | an unsettled turn has its lease; no chat stays locked |
| Runtime delivery (`adapters/runtime-delivery.ts`) | turns, receipt, chat mode | reserve a start, adopt, split, yield, close | rows are bound to one reply and answered once |
| Execution settlement (`adapters/execution-settlement.ts`) | turn status, acks | terminal write, stale settlement | a dead execution's rows are answered or wait again |
| Run session (`loop/run-session.ts`) | process memory: the run and its abort | drive a run, heartbeat, cleanup, local abort, Retry | a late abort hits only the run it names |
| Model loop (`loop/orchestrator.ts`) | memory: acks, retry flags | request, respond, boundary, close or continue | a message landing in the exit window is not lost |
| Compaction (`loop/compaction-phase.ts`, `compaction-successor.ts`) | the compaction turn | summarise, hand over, fail | what it holds reaches a successor or waits again |
| Wakes and sweep (`loop/wake-if-runnable.ts`, `sweep-wakes.ts`) | scheduled starts | reread, sweep | no chat is stranded, none spins |
| Asks (`asks/ask-service.ts`, `asks/ask-deadline.ts`, `adapters/drizzle-thread-lock.ts`) | ask rows: status, deadline, draft, continuation; their hints in the inbox | request, publish, answer, presence, expire, withdraw, continue | ask, turn, continuation and hint agree; one ask at a time; every question ends; row and chat locks never deadlock |
| Lineage (`spawn/lineage-cancellation.ts`, the wake refusal of `adapters/drizzle-run-claim.ts`) | `threads.wake_fence_at`, spawn statuses, lease flags of a whole tree | Stop, Send now, turn cancel, delete, a subagent's end | a cancelled thread takes no stale machine work; a racing spawn is reached or refused; locks are ordered |
| Child runs and reports (`spawn/child-run-coordinator.ts`, `spawn/report-publisher.ts`) | spawn status, execution reports | spawn, admit, message, report | cancelled work does not report |
| Delta journal (`loop/delta-journal.ts`) | memory: queued events, the write under way, two sets of waiters | push, tryPush, seal, flush | in order, bounded, nobody sleeps through a wake-up, a flush is a durable boundary |
| Everything else | | | see section 7 |

Processes share the database only.  Commands of clients, the run starter, the
loop's boundary and the close each take the thread lock for one transaction;
between two transactions a run keeps what it read in memory, and that is where
most of the difficulty lies.

### What is hard

- **Read, await, commit.** A start or a boundary selects and prepares without
  the lock (`runtime-delivery.ts:183`) and commits later; commands run between.
- **Lease expiry is an opinion.** Some reads hide an expired row
  (`drizzle-inbox.ts:195`, the cancel check), ownership ignores expiry
  (`ownedLease`), and a live holder may renew an expired row.
- **Zombies.** `startExecution` does not subscribe to the loss of its session
  lock: a second process may settle and replace an execution still running.
- **Two-transaction settlement** of a dead execution, with a crash between.
- **Late commands.** Stop and Send now carry the screen the writer saw; by the
  time they commit the execution may have moved on.  Their local abort runs
  after the commit, possibly against another run.
- **Write-mode switches** order messages across runs: a message behind a
  switch must wait through boundaries, splits, continuations and compactions.
- **Wakes** are hints; the sweep's SQL restates the selection and must agree.
- **Two kinds of lock.**  A transaction takes the chat's ask rows before the
  chat's lock, but asks are created outside every lock, and a Work's delete
  locks later chats while it holds earlier ones and skips rows held by others.
- **Trees.**  A cancellation locks a subtree that grows while it waits, and is
  told apart from older and newer executions by a clock only.
- **Lost wake-ups.**  The journal's waiters share sets with its writer, its
  seal and its failure.

`PROJECT.json` lists each hazard at its line with the properties that watch it.

## 2. The modules

| Module | What it is |
|---|---|
| `InboxSelection` | `next` and `prefixRows` as operators; no state |
| `StopRule` | the three decisions behind Stop, hand-back and Send now; no state |
| `ChatQueue` | one chat's queue as commands and wakes see it: controls, selection, the open ask, the Work's default, who starts the next run.  EXTENDS `InboxSelection` |
| `RunDelivery` | the delivery path with processes, leases, crashes and stale reads.  EXTENDS `InboxSelection`, `StopRule` |
| `MessageFate` | the abstract promise about each message; `RunDelivery` implements it |
| `MCRunDelivery` | `RunDelivery` with model values and the symmetry of processes |
| `AskLifecycle` | a chat's asks, their row locks and the chat's lock, the run that asks and continues, trash and restore |
| `LineageFence` | a tree of threads with their leases, inboxes, spawns and reports, and the cancellations that reach them |
| `DeltaJournal` | one scope's journal and its two kinds of caller |
| `InboxSelectionProofs` | lemmas on the selectors |
| `ChatQueueProofs`, `DeltaJournalProofs`, `AskLifecycleProofs`, `LineageFenceProofs` | the theorems of section 5 on one module each |
| `RunDeliveryProofs`, `RunDeliveryPromiseProofs`, `RunDeliveryHistoryProofs` | those on `RunDelivery`, each on top of the one before: leases, receipts and modes; the refinement of `MessageFate`; which replies were cancelled and which answered |

Each module opens up one part of the system and keeps the rest small:
`AskLifecycle` has a run of three phases where `RunDelivery` has thirty places;
`LineageFence` has many threads with one step per run phase; `ChatQueue` has
an ask that is open or not.

`RunDelivery` and `ChatQueue` overlap on purpose.  `ChatQueue` has every kind
of inbox row and every wake but a reply is a single phase; `RunDelivery` opens
the reply up into transactions and processes but leaves asks, Work notices and
Retry out.  Both use the same selectors, so a change in `next` is seen by both.

Definitions whose comment starts with `Mutant:` or `(mutant)` are deliberately
wrong variants of the definition that follows them.  Nothing in the specifications
uses them; substituting one for its original must break the property
`PROJECT.json` lists for it, which shows that the property can fail.

## 3. Model and code

A step of `RunDelivery` is one thread-lock transaction, one lone database
write, or one read whose value is used after an `await`.

| Variable | Code |
|---|---|
| `count`, `kind`, `fate`, `deliveredBy` | inbox rows: sequence, intent or control, `delivered_at` / handed back, `delivered_by_turn` |
| `turnCount`, `turns`, `aiMode` | reply turns with execution, role, status and the mode they run in; `threads.ai_write_mode`.  `reservedFor` is what the reply's request contains |
| `lease`, `claim` | the lease row (execution, holder, bound turn, receipt, cancel flag, expiry) and the session lock |
| `decided` | `thread_hand_backs`, by request id |
| `pc`, `run` | a process's place and memory: its execution, its turn, the rows it will acknowledge, the queue it selected from, its marks (aborted, completing, forced, retried, continuing) |
| `signals` | local aborts that committed commands still have to deliver |
| `answers`, `cancelTargets`, `spared` | history, read by properties only |

| Phase of a run | Actions | Code |
|---|---|---|
| claim and settle | `Claim`, `RepairOrphans`, `EndStale`, `InsertLease` | `drizzle-run-claim.ts`, `execution-settlement.ts`, `orphaned-placeholder.ts` |
| start | `SelectStart`, `ReselectStart`, `CommitStart`, `SwitchAndStart`, `NoPendingWake`, `StartLost`, `SetupFails` | `runtime-delivery.ts` (`selectRunStart`, `adoptBatch`), `orchestrator.ts` (`runDrainTurn`), `run-session.ts` |
| loop | `ReadQueued`, `BeginRequest`, `Respond`, `ResponseRefused`, `Overflow`, `StreamCancelled`, `RunFails`, `Boundary` | `orchestrator.ts`, `ackWithResponse` |
| adoption | `SelectAdoption`, `ReselectAdoption`, `AdoptionCancelled`, `AdoptYields`, `AdoptSplits`, `AdoptNothing`, `AdoptWithoutLease` | `splitAndContinue` |
| compaction | `BeginCompaction`, `CompactionEnds`, `CompactionHandsOver`, `CompactionFails` | `compaction-phase.ts`, `compaction-successor.ts` |
| exit | `ContinueReply`, `CloseReply`, `Close` | `close`, `settleTerminal` |
| clients | `SendMessage`, `RequestCompaction`, `RequestSwitch`, `WithdrawControl`, `HandBack`, `PressStop`, `ReplayStop`, `SendNow`, `CancelTurn`, `AbortLocally` | `thread-commands.ts`, `thread-controls.ts`, `drizzle-hand-backs.ts`, `run-session.ts` |
| time and faults | `ExpireLease`, `Heartbeat`, `Crash`, `LoseSession`, `Abandon` | `drizzle-run-claim.ts`, `run-session.ts` |

Choices the reader should know of:

- One chat.  A row is its sequence number; text, blocks and prefixes are data.
- The staleness check of a preparation compares the pending rows only; the
  code also compares the branch's leaf and an eligibility key, which can only
  make it select again.
- The code tries optimistically twice and then selects under the lock.  The
  model lets the optimistic attempt repeat and keeps the locked one for a due
  switch, which the code never applies optimistically.
- The yield test and the cancel check at the top of the loop are one step
  (`Boundary`), in the code's order.
- An abort that arrives after the last stream event is too late for that
  response, as in the loop.
- A compaction settles as `complete` whether the summary was used or was
  optional and failed; a required one that fails is `CompactionFails`.
- An execution number is consumed when its first turn is
  reserved, which keeps the executions bounded by the turns.
- Stop's exception for an execution that continues the writer's answered ask
  is a field of `StopRule`'s facts, FALSE in `RunDelivery` (no asks there).
- A replayed Stop changes no row and repeats its local abort (`ReplayStop`);
  a request id reused with another body is rejected by the code and left out.
- A compaction whose lease was replaced leaves its settled placeholder alone
  (`beginPromptEpoch` requires an unsettled turn).
- In `ChatQueue` a row leaves the queue when a run takes it on; a failed reply
  can be retried while no message follows it; an ask opens when a reply ends;
  `RequestCompaction` needs some completed reply rather than the exact last
  one, which allows more behaviours than the code.

### Asks (`AskLifecycle`)

A transaction is `begun` (what it reads before its locks), holds its `rows`
(`lockThreadAsks`), is `locked` (the advisory lock and the thread row) and
commits in one step, because its writes are invisible before.

| Variable | Code |
|---|---|
| `status`, `cont`, `deadline`, `draft`, `answeredBy` | the columns of `asks`; `age` is the clock, counted from `opened_at`; `timedOut` (history) the draft a timeout resolved with |
| `turn`, `hints` | the asking turn's status; the pending `ask_resolved` rows |
| `run` | the lease: its phase, the ask its execution holds, its cancel flag |
| `tx`, `rowOf`, `lock` | transactions and the locks they hold |
| `reply` | what a submission's sender was told, if the reply arrived |

| Actions | Code |
|---|---|
| `BeginAnswer`, `ReplayAnswer`, `ResolveAnswer`, `RefuseAnswer` | `answer` and `claim` in `ask-service.ts` |
| `BeginPresence`, `RecordPresence`; `BeginExpire`, `ResolveExpiry`, `RefuseExpiry` | `presence`; `expireDue` |
| `EnterStop`, `Stop`; `EnterDelete`, `Delete`, `Restore` | `run-session.ts` with `claimLineage`; `thread-trash-lifecycle.ts` |
| `EnterStart`, `Continue`, `StartFresh`, `StartNothing` | `eligiblePending`, `run-admission.ts` |
| `Request`, `EnterSettle`, `PublishAsk`, `WithdrawAsk`, `EnterRepair` | `request`, `finalizeExecution`, `finalizeOrphanedTurns` |
| `LockRows`, `LockThread`, `Abort`, `Crash`, `Tick` | `drizzle-thread-lock.ts`; failures and time |

An answer's body, the permission command an allow runs, and published events are
data.  An answer to an ask that is not published yet is left out.  A chat in the
trash refuses an answer with the code of a resolved ask, `ask_not_open`, but
without the ask (`asks/ask-service.ts:378`); the model calls that reply
`notFound`, because the client takes only the named ask as the resolution
(`answer-ask.ts:47-55`) and otherwise reads again.  A lease is here or gone: its
claim, renewal and expiry are `RunDelivery`'s.  A turn cancel writes what a Stop
that cancels writes and has no action of its own; so has archiving, which leaves
asks alone.  Rows from before the `continuation` column are left out.  Postgres
serves lock waiters in order.  A delete that locks its chat while an earlier
one's lock is held skips rows it would have to wait for.

### Lineage (`LineageFence`)

| Variable | Code |
|---|---|
| `parent`, `origin`, `spawn`, `fence`, `deleted` | `threads`: parent, the execution of the origin turn, spawn status, `wake_fence_at`, trash |
| `lease` | `thread_run_leases`: `acquired_at`, flag, expiry; `phase` is how far the run is, `child` whether it is a spawn's own first run |
| `inbox` | pending rows by provenance, with the sender's execution |
| `reports` | `execution_reports` between admission and publication |
| `toAdmit` | spawns between their two transactions |
| `tx` | a cancellation: its trigger, owner, locks held, locks to take, runs to flag |
| `clock` | the database clock both `startExecution` and `fenceWakes` read |

An execution is known by the instant its lease was admitted.  The field `ended`
of leases, rows and reports is history: which executions a cancellation ended.

| Actions | Code |
|---|---|
| `Press`, `EndSubtree`, `TakeTarget`, `Flag`, `Commit` | the triggers of `run-session.ts`; `cancel` and `endSubtree` in `lineage-cancellation.ts` |
| `Spawn`, `StartAdmission`, `AdmitMessage`, `RefuseAdmission`, `ConflictAdmission` | `child-run-coordinator.ts`, `child-run-driver.ts`, the child's first message in `orchestrator.ts` |
| `Send`, `WriterSends`, `Publish` | `sendBackgroundMessage`, `writer-enqueue.ts`, `report-publisher.ts` |
| `Start`, `Bind`, `RunEnds`, `Release`, `EndSubtreeFails`, `Expire`, `Renew` | `run-session.ts`, `execution-finalizer.ts`, `drizzle-run-claim.ts` |

Reductions: children run in the background; a delete names one chat, not a
Work's many; a request's wait for its owner's lock is part of `Begin`; any
execution that is over and left subagents may have left its turn parked on a
question (`Parked`), since asks are not modelled here; the fence's stamp and the
commit are one step, the flag before it is another, so a lease admitted in
between is unflagged and older than the fence, as in the code; `endSubtree`'s
unlocked listing happens with its start.  Spawn status `ended` stands for
whichever outcome the run or the coordinator wrote.  Asks a cancellation claims
are `AskLifecycle`'s, crashes `RunDelivery`'s.  Two bounds are guards: threads
are spawned in descending order of their ids, the order in which the lock order
matters most, and a lease misses its renewals only before it is flagged or
closed.

### The delta journal (`DeltaJournal`)

One action per call of `push`, `tryPush` (`EmitOutput`), `seal` and `flush` and
per end of a write, with the callers around them: the stream loop that waits
for room, flushes when the stream ends, seals and flushes again; and a tool
call that seals its scope when its output is refused and drains before a spawn.
A delta is a number, an event the interval merged into it; its size is all that
is kept of its text.

## 4. What is checked

Deadlock is not checked in any run: a chat nobody writes to really stops, and a
closed journal is closed.  That nobody waits for ever on somebody is stated
where it can happen (`NeverWaitsUnderTheLock`, `NoLockCycle`,
`WaitersAreWoken`, and the liveness properties).

| Run | Instance | Question | Properties |
|---|---|---|---|
| `controls` | 2 processes, 2 rows, 3 turns, 1 fault; message, switch, withdraw, Send now, turn cancel | do switches and cancellations stay ordered across crashing and zombie runs? | `OneQueuedSwitch`, `ReplyKeepsItsMode`, `OpenTurnHasItsLease`, `CancelSparesLater`, `FlaggedAdoptsNothing` |
| `stop` | 2 processes, 1 request, 2 rows, 3 turns, 1 fault; message, hand-back, Stop; the lease may run out anywhere from the first request on | is a message handed back or answered, once and by the reply it was reserved for, and only what was meant cancelled? | `HandedBackIsNotAnswered`, `AnsweredOnce`, `CancelSparesLater`, `CancelledWasAsked`, `KeepsPromise`, `AnswersWhatItDelivers` |
| `compaction` | 1 process, 1 request, 3 rows, 3 turns, 1 fault, automatic compaction; message, compact, switch, Stop | does what a compaction holds reach a successor or wait again, and does nothing cross a switch? | `ReceiptIsPending`, `BehindSwitchWaits`, `KeepsPromise`, `AnswersWhatItDelivers` |
| `live` | 2 processes, 2 rows, 3 turns, 2 faults; message | does every message end? | `MessagesSettle` |
| `queue` | 4 rows, 1 failure | do selection, sweep, boundary and the Work default agree in every order of commands; is no message left behind, and does the chat rest? | `SweepMeetsWork`, `YieldMeetsSwitch`, `WithdrawnStaysOut`, `DefaultFollowsWriter`, `NothingCrossesSwitch`, `MessageIsTakenOn`, `RestsOrIsHeld` |
| `journal` | both callers, 2 blocks, sizes 1 and 5 against a bound of 5, batches of 2, 8 deltas | is the journal in order, bounded, durable at its flush, and does everyone get out? | `InOrder`, `BytesAreBounded`, `WaitersAreWoken`, `FlushIsTheBoundary`, `ScopeCloses` |
| `ask` | a question and a permission, 1 submission, 2 writers, 1 sweep, 1 command, 1 fault | do the ask, its turn, its continuation and its hint ever disagree, and can the locks? | `EveryOwedHasItsHint`, `AskAndTurnAgree`, `OneAskAtATime`, `NeverWaitsUnderTheLock`, `ToldTheTruth` |
| `ask_ends` | 1 question with an idle limit of 1 and a hard limit of 2, a draft, one of each actor | does every question end and every answer get heard? | `TimeoutHonoursPresence`, `EveryQuestionEnds`, `EveryAnswerIsContinued` |
| `lineage` | 3 threads, 1 command of any of the five kinds, 3 lease admissions, 1 message, 1 fault | what does a cancellation reach while the tree grows? | `FenceHolds`, `SpawnsAreReached`, `EndedReportsNothing`, `NoLockCycle` |
| `expired_receipt` | 1 process, 1 row, expiry also before the first read | finding 1 | `HandedBackIsNotAnswered` is violated |
| `ask_spin` | 2 rows | finding 2 | `ComesToRest` is violated |
| `lineage_refused` | as `lineage`, no fault | finding 3 | `RefusedWasCancelled` is violated |

The modules' type invariants are proved (section 5), so no run repeats them.

**Bounds.**  Two processes are what a takeover, a zombie and a late local abort
need.  Three rows make a message, a switch and a message behind it; two a
message taken on and one sent after the press; four a cancel-out and messages
on both sides of it.  Three turns allow a split and a takeover of the split
reply, or a compaction with its successor and the next reply.  One fault gives
a zombie or a dead holder, two (in `live`) a takeover that dies in its turn,
between the two settling transactions too; the safety properties are proved for
any number of faults.  `StallPoints` names where a live holder may
miss its renewals: instances list the places whose reads depend on expiry, and
only `expired_receipt` includes `bound`, where the code goes wrong.  `Workers`
are symmetric; symmetry is used in safety runs only.  Where a bound cuts an
action off (`MaxTurns`) the run stops there, so the liveness run has enough
turns for every message: each fault can cost a reply, and a reply that crashed
has answered what it held.

Two asks are what a second one opened too early needs, two writers a resend
that races its original, and two ticks of the hard limit a deadline a presence
moves once and then cannot.  The journal's sizes make an event that fits, one
that fits alone and a merge that no longer fits, and eight deltas a full batch
in flight with another behind it.  Three threads make the chat, a subagent and
a subagent of that one, the smallest tree in which a target's subtree grows
under the cancellation and in which two cancellations (a Stop or delete from
above, a subagent's end from below) hold what the other may want; three
admissions let all three run, or the chat and a subagent run again after a
cancellation; fences take later instants still.  One writer's command is the
bound that says least: two of them with a subagent's end between make the longer
circles, which only the proof excludes.

**Fairness.**  `LiveSpec` of `RunDelivery` assumes that a live process goes on
(`StartStep`, `LoopStep`: a model request has a stall limit and a ceiling,
`gateway/deadline.ts`; database calls return; tools, some of which have a
`timeoutMs` in `tools/core-tools.ts`, are assumed to), that heartbeats tick (an
interval timer), that a row nobody renews runs out (the clock), and, within
`StartStep`, that waiting work is claimed again (the periodic sweep,
`sweep-wakes.ts`).  Nothing obliges a client, a fault or a particular answer of
the model.  `ChatQueue` assumes that scheduled starts and rereads run, that a
reply ends (iterations and budget are bounded), and that the sweep comes round.
`DeltaJournal` assumes that a write ends, one way or the other, that a resolved
promise resumes its waiter, and that a stream or a tool call ends.
`AskLifecycle` assumes strong fairness of a transaction under way, because
Postgres queues lock waiters and others may take the lock again and again in
between; that the expiry sweep's timer fires; that a run is started for a hint,
settles, or is repaired; and that time passes.  No writer has to act and no
chat has to be restored, so `EveryQuestionEnds` leaves permissions out, which
have no deadline.  `LineageFence` states no liveness.

**Properties.**  Each is stated in words at its definition.  The ones at the
centre: `HandedBackIsNotAnswered` (a message is handed back or answered, never
both), `AnsweredOnce` (through splits, yields, compactions and takeovers),
`CancelSparesLater` (a cancelled reply never swallows a message its command
did not mean), `BehindSwitchWaits` / `NothingCrossesSwitch` (the mode a message
is answered in), `OpenTurnHasItsLease` (something is left to settle an
unsettled turn), and `KeepsPromise` (the refinement: the state of each message
is waiting, taken, answered or handed back; `open` is the lease's execution and
`stopped` its flag).  Of asks: `EveryOwedHasItsHint` and `AskAndTurnAgree`
relate four tables that different transactions write, and
`NeverWaitsUnderTheLock` is why the two kinds of lock cannot deadlock.  Of
lineage: `FenceHolds` is what makes a stop final, `SpawnsAreReached` closes the
race between a spawn and the cancellation that collects its targets, and
`EndedReportsNothing` covers a report finalized before and published after.

## 5. What is proved

For every number of rows, turns, faults and failures; in `RunDelivery` for
every set of processes, requests, commands and stall points, in `DeltaJournal`
for all sizes and bounds, in `AskLifecycle` for all asks and actors, and in
`LineageFence` for all threads, commands and kinds.  Two theorems have a
hypothesis besides, `StartsRenewed`, explained where `RunDeliveryHistoryProofs` is described.  The
other assumptions are those on the constants, named in the modules that declare
them: bounds are naturals (the idle limit at most the hard one, a batch and a
delta not empty), the sets of actors are disjoint, and the values that stand for
"none" are not in the sets they stand in for.

**`ChatQueueProofs`**: `TypeOK`, `WithdrawnStaysOut`, `DefaultFollowsWriter`,
`SweepMeetsWork`, `SwitchStartsARun`, `YieldMeetsSwitch`,
`NothingCrossesSwitch`.  Apart from the types and `YieldMeetsSwitch`, none
holds by itself.  `IInv` adds that a withdrawn control is off the queue and has no turn,
that a control with a turn is off the queue, that there is one queued switch
and it changes the mode (otherwise a cancel-out would leave a second switch
behind and the Work's default would be wrong), and that an open ask stands
alone: no reply runs and its answer is not queued (otherwise the sweep's SQL
and the run start would disagree).  The selectors' lemmas are in
`InboxSelectionProofs`.  `YieldMeetsSwitch` is a fact about the two selectors
on any queue.  `SwitchStartsARun` is only proved: it, too, follows from the
selectors, and no run repeats it.

**`RunDeliveryProofs`**: `TypeOK`, `OpenTurnHasItsLease`, `ReceiptIsPending`,
`OneQueuedSwitch`, `ReplyKeepsItsMode` as invariants, `FlaggedAdoptsNothing`
as an action property.  They are proved together, because they need each
other:

- `OpenTurnHasItsLease` needs that a row inserted for a new execution finds no
  unsettled turn, which the settlement's second transaction provides, and that
  a process between the insert and its reservation owns a row bound to no turn
  (`OwnersFit`);
- `ReplyKeepsItsMode` needs `OpenTurnHasItsLease`: a start changes the mode
  only as the owner of a lease bound to nothing, so no turn is unsettled;
- `ReceiptIsPending` needs that what a process selected was pending when it
  looked and that the pending set did not change (`RunsFit` and the staleness
  check), and that every acknowledgement also clears the receipt or ends the
  lease;
- a successor takes over its predecessor's mode, so `OwnersFit` says that the
  owner's turn runs in the chat's mode even after a repair settled it.

`IInv` is the conjunction of these with the types and the numbering of
executions.  Most steps are *quiet*: rows and turns only settle, the lease
keeps its execution and turn or ends with nothing left to settle, each process
keeps or leaves its run.  One lemma carries `IInv` over every quiet step
(`QuietStep`), one each over new rows, a new lease, a reservation and a failed
compaction; every action is then one short lemma.  `FlaggedAdoptsNothing`
follows per action from the types and the guards.

**`RunDeliveryPromiseProofs`**: `BehindSwitchWaits` and the refinement
`KeepsPromise`.  The actions do a dozen kinds of things to the database
(`StepKinds`: a row comes or is withdrawn, a decision, a flag, a repair, a
lease freed or opened, a reservation, a response, a settlement, a failed
compaction, or nothing of the kind), and every action is shown to be one of
them; what follows is proved per kind.  `PInv` adds to `IInv` that rows are
numbered in order, that a blank lease row holds nothing, and what a preparation
that was selected without the lock may say of the queue once it commits.  A kind
of step is a step of `MessageFate` for every message or a stutter; the
refinement needs no fairness and no bound.

**`RunDeliveryHistoryProofs`**: the four properties on what was done.  All rest
on `TInv`: an unsettled turn is the lease's, a process in a run is on a turn of
its execution and owns the lease row if the row is bound to it, and what was
delivered stays.

- `CancelledWasAsked` (`CInv`): a flag, a signal, a stored decision and the
  abort of an owner each name an execution a command asked to cancel.  A zombie
  may be aborted without having been asked for; it does not own the row, so its
  exit settles nothing.
- `CancelSparesLater` (`SInv`): executions are numbered in the order of their
  turns, so a cancelled one gets no later turn; only a flagged one spares rows,
  and none of its receipt.
- `AnswersWhatItDelivers` (`AInv`, `DInv`), for any processes, with and without
  automatic compaction: the receipt is what its turn was reserved for, and past
  its response a reply has answered that; a cancel ends the lease together with
  the reply, so a cancelled reply is never resumed; and a lease's owner is on
  the lease's turn.  What a message was delivered by then stays: the one step
  that takes a delivering reply's failure back is `SplitsFailedReply`, which the
  property names, the flaw of section 6.
- `AnsweredOnce`, `HandedBackIsNotAnswered` (`HInv`): what a reply was reserved
  for is in its receipt or delivered by it until its response, and the response
  acknowledges the whole receipt.  The hypothesis `StartsRenewed` says that a
  lease does not run out between its insert and the loop's first read of the
  receipt; finding 1 is what happens if it does.  It is as weak as it can be: with
  any one of the three places it excludes (`starting`, `selected`, `bound`) as the
  only stall point, TLC finds both properties violated on the instance of
  `expired_receipt`.  Leases run out anywhere later, as in the run `stop`.

**`DeltaJournalProofs`**: the types, `InOrder`, `BytesAreBounded`,
`WaitersAreWoken`, `FlushIsTheBoundary`.  `IInv` adds that a write under way is
what keeps the queue non-empty, that a journal above its bound holds a single
event alone, that everything admitted is written, in flight, pending or
refused after the seal, that a waiting delta is the last one made, and that a
scope is sealed only once its owner closes it or its output was refused.  The
counters are sums over sequences: `BatchBytes` is a recursive function, and
that it is defined everywhere is proved once by an existence lemma over an
explicit least counterexample, after which appending, merging and splitting a
queue each have a lemma.

**`AskLifecycleProofs`**: the types and all the safety properties of the two
ask runs, `TimeoutHonoursPresence` included.  `IInv` is the types; `TxFits`, what each
kind of transaction carries at each stage; `Covered`, that a transaction
on one live ask that is past its rows has that ask's row, and that a
transaction of the run has the row of every live or owed ask, which is what
makes `NeverWaitsUnderTheLock` inductive although rows are created outside the
locks; `AsksFit`, that ask, turn, continuation, hint and run fit together; and
`SendersFit`, that a submission is bound to its ask before it resolves it.

**`LineageFenceProofs`**: the types and the four properties of `lineage`.
`IInv` adds that a transaction holds its owner's lock and a thread's own one is
the end of its run (`TxShape`), that admissions and fences lie in the past and
never tie (`Clocked`), that a spawn to be admitted names the execution that
made it (`SpawnsNamed`), and that an execution ended as a target is flagged and
its reports withdrawn (`EndedAreCut`).  `FenceHolds` then follows because a
refusal compares the same two instants, and because a commit that moves a fence
holds that thread's inbox and drops what is older.

`SpawnsAreReached` and `NoLockCycle` are about trees, and `LInv` says what a
tree of threads is (`TreeFits`): finitely many are born, `Above` solves the
equation that defines it, nobody is above himself, and of two ancestors one is
above the other.  That a spawn keeps this is the one place where the recursion
is opened up: the equation has a solution for the larger tree, and no other
(`TreeGrows`, `OneSolution`, by a least counterexample).  `Sortable` shows that
the order of the locks exists for any finite set, and `LockOrder` that nobody
comes before his ancestors in it.  A cancellation under way then fits
(`CancelFits`):

- `ListFits`: what it holds or has listed is its owner or below him; what is
  between a held thread and the owner is held, and what is between a listed
  thread and the owner is held or listed before it.  Appending the subtree of
  the thread just locked keeps that (`NextList`), although the list as a whole
  is then sorted no more.
- `KidsKnown`: no child it reaches is missing from its locks and its list.  A
  spawn takes its parent's lock, so the children of a held thread do not change.

`SpawnsAreReached` follows at the commit, when the list is empty: the children
are held, hence fenced, after the instant their parent was admitted.
`NoLockCycle` follows because one who waits for a thread that another holds has
its owner above the other's (`WaitsGoDown`: were it the other way round, the
other would hold the first one's owner), so a circle would go down the tree for
ever (`NoCircle`).

Every invariant was first checked by TLC, `IInv` and the others included, on the
bounds of the safety runs.  The runs check `AnswersWhatItDelivers` for one
process with automatic compaction and for two without; for two with it, where
its exception occurs, TLC found no error with two rows (some five million
states, too many for the regular runs), and the theorem covers any instance.

**Model-checked only.**  Liveness (`MessagesSettle`, `MessageIsTakenOn`,
`RestsOrIsHeld`, `ScopeCloses`, `EveryQuestionEnds`,
`EveryAnswerIsContinued`): fairness and ENABLED are beyond the prover.  Every
other property of a passing run is a theorem.

## 6. Disagreements found

1. **An expired but held lease hides the receipt** (`expired_receipt`).
   `loop/orchestrator.ts:1833` reads what the reply must acknowledge through a
   projection that drops an expired lease row (`adapters/drizzle-inbox.ts:195`).
   If the row runs out between the reservation and that read and is renewed
   afterwards, the run answers and acknowledges nothing; the message stays
   pending and can be handed back.  `.context/delivery.md:38-40` says a message
   is handed back or answered, never both.
2. **A reread under an open ask spins** (`ask_spin`).
   `loop/wake-if-runnable.ts:16` decides from the whole queue while a run start
   decides from what the ask leaves eligible, so with a message behind an open
   ask every reread starts a run that finds nothing and causes another reread.
   `.context/delivery.md:75-76` says an empty reread has to stop rather than
   spin.
3. **A refused spawn keeps `running`** (`lineage_refused`).  A spawn commits
   with `spawn_status` `running` and is admitted by a later transaction.  A
   chat's Stop in between flags the parent only (`thread` reach,
   `loop/run-session.ts:538-544`), the admission is refused
   (`adapters/drizzle-run-claim.ts:286`), and
   `spawn/child-run-coordinator.ts:507` writes nothing because "a refused
   admission is a lineage cancellation's, which already wrote `cancelled`".
   This one lists no target, so the status stays `running`.

Smaller things met while modelling, none with a run:

- `adapters/drizzle-run-claim.ts:262-263` says a lease acquired while the
  command waited for locks "must not read as admitted before the fence"; with
  `clock_timestamp()` such a lease does read as older than the fence, which is
  what keeps its late messages out.
- A compaction forced by an overflow splits the reply with `turn.completed`
  (`adapters/runtime-delivery.ts:608`), which writes the status unguarded
  (`../threads/adapters/drizzle/turn-repository.ts:445`).  A process that lost its
  session lock can do so after the next process has failed that reply and settled
  its messages, and before it ends the lease: `error` becomes `complete`, and
  messages nobody answered read as answered.  `AnswersWhatItDelivers` names this
  step as its only exception (`SplitsFailedReply`), and the theorem says there
  is no other.
- A lease that reads as expired while its holder lives is not flagged by
  `requestCancel` (247-258) and is revived by `renew` (141-153).
- A spawn cancelled before its run bound is overwritten with `failed` by the
  coordinator (508-513).  A re-tasked subagent has no `input.child`, so the end
  of that run leaves its subtree alone.  A failed `endSubtree` is only logged.
- A delete of a Work skips an ask row another transaction holds; a permission
  whose holder then rolls back stays open in the trashed chat until an answer
  comes, since it has no timeout.  A writer's answer that took its row before a
  Stop wins over it.

## 7. What is not modelled

Inside the modelled parts: notices and Work prefixes in a run (they are
`ChatQueue`'s), credits blocks, run-state publication, shutdown's abort, the
abort of a child's first run before its turn, which acknowledges the message
without one (`loop/orchestrator.ts:518-522`), tools
and their early exits, the notes a cancelled reply leaves, the sweeps' cursors
over many chats, foreground children, cards, seeds and budgets, a Work's delete
over many chats.

Other components, each with its reason in `PROJECT.json`:

- to be modelled (section 8): the session lock and contended wakes, user-turn
  admission, the run-state record with the thread client, the client's
  submission outbox, the resource replica, the credit ledger;
- CRDT and document algorithms (`collab`, `agent-edit`, `prosemirror-schema`,
  `markup`): their core is third-party Yjs or text transformation;
- data and I/O rather than control: import, export, packages, storage,
  projects, preferences, notices, recents, file policy and intake,
  observability, the web sites and the user interface.

## 8. Plan

Built: `InboxSelection`, `StopRule`, `ChatQueue`, `RunDelivery`, `MessageFate`,
`DeltaJournal`, `AskLifecycle`, `LineageFence`, and the proofs above.

Next, in this order:

1. `SessionLock` with `contended-claim-wake.ts`: one connection shared by all
   claims of a process, its loss, and the wake of a claim turned away.
2. `RunStateSync`: the versioned record and the thread client's reducer, with
   reordered and repeated events; abstract promise: the client converges.
3. `ChatSubmissions` (`src/apps/app/src/client/chat-submissions/`): outbox,
   lookup and resend; at most one admission per submission.
4. `Admission` (user turns, Retry) and `ResourceReplica`.

Proofs: none is open for the modules above; each new module brings its own, the
convergence of `RunStateSync` and the single admission of `ChatSubmissions`
first.
