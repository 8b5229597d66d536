-------------------------- MODULE AskLifecycleProofs --------------------------
(***************************************************************************)
(* For every number of asks, submissions, writers, sweeps and commands, and *)
(* any limits: the asks, the asking turns, the hints and the locks of a     *)
(* chat agree, and no sender is told a lie.                                 *)
(***************************************************************************)
EXTENDS AskLifecycle, TLAPS

(***************************************************************************)
(* The inductive invariant.                                                *)
(***************************************************************************)
Ended == {"answered", "expired", "cancelled"}
OfOneAsk == {"answer", "presence", "expire"}
OfTheRun == {"start", "settle", "repair"}

(* A transaction about one ask is about one that a run has published; its  *)
(* clock is behind the ask's own; a claim is only made of an idle chat.    *)
TxFits ==
  \A p \in Actors :
    /\ tx[p].kind \in OfOneAsk => tx[p].ask \in Asks /\ status[tx[p].ask] \in {"open"} \cup Ended
    /\ tx[p].kind = "expire" => tx[p].at <= age[tx[p].ask]
    /\ tx[p].kind = "answer" => /\ tx[p].carries \in Submissions
                                /\ reply[tx[p].carries].ask = tx[p].ask
    /\ tx[p].kind = "presence" => tx[p].carries \in Drafts \cup {None}
    /\ tx[p].kind \in OfTheRun => p = Run
    /\ tx[p].kind = "start" => run.phase = "none"
    /\ tx[p].stage = "idle" => tx[p].kind = "none"
    /\ tx[p].stage = "begun" => tx[p].kind \in OfOneAsk
    /\ tx[p].kind \in OfOneAsk => ~tx[p].skip

(* What a transaction may touch under the chat's lock is its own row by    *)
(* then; a run's transaction has every ask the chat holds.                 *)
Covered ==
  \A p \in Actors : tx[p].stage \in {"rows", "locked"} =>
    /\ tx[p].kind \in OfOneAsk /\ Live(tx[p].ask) => rowOf[tx[p].ask] = p
    /\ tx[p].kind \in OfTheRun => \A a \in Asks : Held(a) => rowOf[a] = p

(* A continuation is decided only when the ask has ended.                  *)
LiveIsNotOwed == \A a \in Asks : status[a] \in {"absent"} \cup {"pending", "open"} => cont[a] = "none"

(* An idle chat's lease holds no ask, and a run holds the only ask there is. *)
RunFits ==
  /\ run.phase = "none" => run.asking = None
  /\ run.phase # "none" => \A a \in Asks : Held(a) => run.asking = a

(* A submission is bound to its ask before it can resolve it, and a refusal *)
(* comes only after the end.                                               *)
RepliesFit ==
  /\ \A a \in Asks : answeredBy[a] # None =>
       status[a] = "answered" /\ reply[answeredBy[a]].ask = a
  /\ \A s \in Submissions : reply[s].said \in {"ok", "refused"} =>
       reply[s].ask \in Asks /\ status[reply[s].ask] \in Ended

(* What the asks, their turns, their hints and the run say of each other.  *)
AsksFit == LiveIsNotOwed /\ EveryOwedHasItsHint /\ AskAndTurnAgree /\ OneAskAtATime /\ RunFits

(* What the senders know of the asks.                                      *)
SendersFit == RepliesFit /\ ToldTheTruth

IInv == TypeOK /\ TxFits /\ Covered /\ AsksFit /\ SendersFit

LEMMA IInvHolds == Init => IInv
<1> SUFFICES ASSUME Init PROVE IInv
  OBVIOUS
<1> USE LimitsAssumption, ActorsAssumption DEF Init, NoTx, NoRun
<1>1. TypeOK
  <2>1. NoTx \in Transactions /\ [ask |-> None, said |-> "none"] \in Replies
    BY DEF Transactions, TxKinds, Replies
  <2>2. 0 \in 0 .. HardLimit
    OBVIOUS
  <2> QED BY <2>1, <2>2 DEF TypeOK
<1>2. TxFits /\ Covered
  BY DEF TxFits, Covered, OfOneAsk, OfTheRun
<1>3. AsksFit
  BY DEF AsksFit, LiveIsNotOwed, EveryOwedHasItsHint, AskAndTurnAgree, OneAskAtATime, RunFits,
         Held, Live, Owed
<1>4. SendersFit
  BY DEF SendersFit, RepliesFit, ToldTheTruth
<1> QED BY <1>1, <1>2, <1>3, <1>4 DEF IInv

-------------------------------------------------------------------------------
(* Type correctness, action by action.                                     *)

LEMMA TypeOfCancelLive ==
  ASSUME TypeOK, NEW S, CancelLive(S)
  PROVE  /\ status' \in [Asks -> {"absent", "pending", "open", "answered", "expired", "cancelled"}]
         /\ cont' \in [Asks -> {"none", "pending", "done", "cancelled"}]
         /\ turn' \in [Asks -> {"none", "streaming", "awaiting_answer", "complete", "cancelled"}]
BY DEF TypeOK, CancelLive

LEMMA TypeOfResolveOpen ==
  ASSUME TypeOK, NEW a \in Asks, NEW as \in Ended, ResolveOpen(a, as)
  PROVE  /\ status' \in [Asks -> {"absent", "pending", "open", "answered", "expired", "cancelled"}]
         /\ cont' \in [Asks -> {"none", "pending", "done", "cancelled"}]
         /\ turn' \in [Asks -> {"none", "streaming", "awaiting_answer", "complete", "cancelled"}]
         /\ hints' \in SUBSET Asks
BY DEF TypeOK, ResolveOpen, Ended

LEMMA NoTxFits == NoTx \in Transactions
BY LimitsAssumption DEF Transactions, TxKinds, NoTx

LEMMA TypeOfRelease ==
  ASSUME TypeOK, NEW p \in Actors, Release(p)
  PROVE  /\ tx' \in [Actors -> Transactions]
         /\ rowOf' \in [Asks -> Actors \cup {None}]
         /\ lock' \in Actors \cup {None}
BY NoTxFits DEF TypeOK, Release

LEMMA TypeOfTakeRows ==
  ASSUME TypeOK, NEW p \in Actors,
         NEW t \in Transactions,
         TakeRows(p, t)
  PROVE  TypeOK'
<1>1. [t EXCEPT !.stage = "rows"] \in Transactions
  BY DEF Transactions
<1> QED BY <1>1 DEF TypeOK, TakeRows, rows, clock, resolution

LEMMA DeadlineIsATime ==
  ASSUME NEW at \in 0 .. HardLimit
  PROVE  AskDeadline(at) \in 0 .. HardLimit
BY LimitsAssumption DEF AskDeadline

LEMMA TypeOfTells ==
  ASSUME TypeOK, NEW p \in Actors, NEW said \in {"ok", "refused"}, Tells(p, said)
  PROVE  reply' \in [Submissions -> Replies]
<1>1. reply \in [Submissions -> Replies]
  BY DEF TypeOK
<1>2. \A r \in Replies : [r EXCEPT !.said = said] \in Replies
  BY DEF Replies
<1> HIDE DEF Replies
<1>3. [reply EXCEPT ![tx[p].carries].said = said] \in [Submissions -> Replies]
  BY <1>1, <1>2
<1> QED BY <1>1, <1>3 DEF Tells

LEMMA TypeOKSteps == TypeOK /\ TxFits /\ [Next]_vars => TypeOK'
<1> SUFFICES ASSUME TypeOK, TxFits, [Next]_vars PROVE TypeOK'
  OBVIOUS
<1> USE LimitsAssumption, ActorsAssumption DEF rows, clock, resolution
<1>1. ASSUME NEW p \in Writers, BeginAnswer(p) PROVE TypeOK'
  <2>1. PICK s \in Submissions, a \in Asks : BeginAnswer(p)!2!(s, a)
    BY <1>1 DEF BeginAnswer
  <2>2. tx' \in [Actors -> Transactions]
    <3>1. [NoTx EXCEPT !.kind = "answer", !.stage = "begun", !.ask = a, !.carries = s] \in Transactions
      BY NoTxFits DEF Transactions, TxKinds
    <3> QED BY <2>1, <3>1 DEF TypeOK
  <2>3. reply' \in [Submissions -> Replies]
    BY <2>1 DEF TypeOK, Replies
  <2> QED BY <1>1, <2>2, <2>3 DEF TypeOK, BeginAnswer
<1>2. ASSUME NEW p \in Writers, BeginPresence(p) PROVE TypeOK'
  <2>1. PICK a \in Asks, d \in Drafts \cup {None} : BeginPresence(p)!3!(a, d)
    BY <1>2 DEF BeginPresence
  <2>2. age[a] \in 0 .. HardLimit
    BY DEF TypeOK
  <2>3. [NoTx EXCEPT !.kind = "presence", !.stage = "begun", !.ask = a, !.at = age[a], !.carries = d]
          \in Transactions
    BY <2>2, NoTxFits DEF Transactions, TxKinds
  <2>4. tx' \in [Actors -> Transactions]
    BY <2>1, <2>3 DEF TypeOK
  <2> QED BY <1>2, <2>4 DEF TypeOK, BeginPresence
<1>3. ASSUME NEW p \in Sweeps, BeginExpire(p) PROVE TypeOK'
  <2>1. PICK a \in Asks : BeginExpire(p)!2!(a)
    BY <1>3 DEF BeginExpire
  <2>2. age[a] \in 0 .. HardLimit /\ draft[a] \in Drafts \cup {None}
    BY DEF TypeOK
  <2>3. [NoTx EXCEPT !.kind = "expire", !.stage = "begun", !.ask = a, !.at = age[a], !.carries = draft[a]]
          \in Transactions
    BY <2>2, NoTxFits DEF Transactions, TxKinds
  <2>4. tx' \in [Actors -> Transactions]
    BY <2>1, <2>3 DEF TypeOK
  <2> QED BY <1>3, <2>4 DEF TypeOK, BeginExpire
<1>4. ASSUME NEW p \in Actors, NEW kind \in TxKinds, NEW skip \in BOOLEAN, Enter(p, kind, skip)
      PROVE  TypeOK'
  <2> DEFINE t == [NoTx EXCEPT !.kind = kind, !.skip = skip]
  <2>1. t \in Transactions
    BY NoTxFits DEF Transactions
  <2>2. TakeRows(p, t)
    BY <1>4 DEF Enter
  <2> HIDE DEF t
  <2> QED BY <2>1, <2>2, TypeOfTakeRows
<1>5. ASSUME NEW p \in Actors, LockRows(p) PROVE TypeOK'
  <2>1. PICK t \in Transactions : t = tx[p]
    BY DEF TypeOK
  <2>2. TakeRows(p, t)
    BY <1>5, <2>1 DEF LockRows
  <2> QED BY <2>2, TypeOfTakeRows
<1>6. ASSUME NEW p \in Actors, LockThread(p) PROVE TypeOK'
  <2>1. tx[p] \in Transactions
    BY DEF TypeOK
  <2>2. [tx[p] EXCEPT !.stage = "locked"] \in Transactions
    BY <2>1 DEF Transactions
  <2> QED BY <1>6, <2>2 DEF TypeOK, LockThread
<1>7. ASSUME NEW p \in Actors, Abort(p) PROVE TypeOK'
  BY <1>7, TypeOfRelease DEF TypeOK, Abort
<1>8. ASSUME Crash PROVE TypeOK'
  <2>1. Run \in Actors
    BY DEF Actors
  <2>2. Release(Run) /\ faults' \in Nat
    BY <1>8 DEF Crash, TypeOK
  <2> QED BY <1>8, <2>1, <2>2, TypeOfRelease DEF TypeOK, Crash
<1>9. ASSUME Restore PROVE TypeOK'
  BY <1>9 DEF TypeOK, Restore, locks
<1>10. ASSUME NEW a \in Asks, Request(a) PROVE TypeOK'
  BY <1>10 DEF TypeOK, Request, locks
<1>11. ASSUME NEW a \in Asks, Tick(a) PROVE TypeOK'
  <2>1. age' \in [Asks -> 0 .. HardLimit]
    <3>1. age[a] + 1 \in 0 .. HardLimit
      BY <1>11 DEF TypeOK, Tick
    <3> QED BY <1>11, <3>1 DEF TypeOK, Tick
  <2> QED BY <1>11, <2>1 DEF TypeOK, Tick, locks
<1>12. ASSUME NEW p \in Actors, WriteOf(p) PROVE TypeOK'
  <2>0. ASSUME NEW kind, Commit(p, kind) PROVE Release(p) /\ faults' = faults
    BY <2>0 DEF Commit
  <2>1. CASE ReplayAnswer(p)
    BY <2>0, <2>1, TypeOfRelease, TypeOfTells DEF TypeOK, ReplayAnswer
  <2>2. CASE ResolveAnswer(p)
    <3>1. tx[p].ask \in Asks /\ tx[p].carries \in Submissions
      BY <2>2 DEF ResolveAnswer, Commit, TxFits, OfOneAsk
    <3> QED BY <2>0, <2>2, <3>1, TypeOfRelease, TypeOfTells, TypeOfResolveOpen
            DEF TypeOK, ResolveAnswer, Ended
  <2>3. CASE RefuseAnswer(p)
    BY <2>0, <2>3, TypeOfRelease, TypeOfTells, TypeOfCancelLive DEF TypeOK, RefuseAnswer, FinishDelete
  <2>4. CASE RecordPresence(p)
    <3>1. tx[p].at \in 0 .. HardLimit
      BY DEF TypeOK, Transactions
    <3>2. tx[p].carries \in Drafts \cup {None}
      BY <2>4 DEF RecordPresence, Commit, TxFits
    <3> QED BY <2>0, <2>4, <3>1, <3>2, TypeOfRelease, DeadlineIsATime DEF TypeOK, RecordPresence
  <2>5. CASE ResolveExpiry(p)
    <3>1. tx[p].ask \in Asks
      BY <2>5 DEF ResolveExpiry, Commit, TxFits, OfOneAsk
    <3> QED BY <2>0, <2>5, <3>1, TypeOfRelease, TypeOfResolveOpen
            DEF TypeOK, ResolveExpiry, TimeoutDraft, Ended
  <2>6. CASE RefuseExpiry(p)
    BY <2>0, <2>6, TypeOfRelease, TypeOfCancelLive DEF TypeOK, RefuseExpiry, FinishDelete
  <2>7. CASE Stop(p)
    BY <2>0, <2>7, TypeOfRelease, TypeOfCancelLive DEF TypeOK, Stop, DropHints
  <2>8. CASE Delete(p)
    BY <2>0, <2>8, TypeOfRelease, TypeOfCancelLive DEF TypeOK, Delete, DropHints
  <2>9. ASSUME NEW a \in Asks, Continue(a), p = Run PROVE TypeOK'
    BY <2>0, <2>9, TypeOfRelease DEF TypeOK, Continue, NoRun
  <2>10. CASE p = Run /\ (StartFresh \/ StartNothing)
    <3>1. [NoRun EXCEPT !.phase = "running"] \in
            [phase : {"none", "running", "dead"}, asking : Asks \cup {None}, cancelled : BOOLEAN]
      BY DEF NoRun
    <3> QED BY <2>0, <2>10, <3>1, TypeOfRelease DEF TypeOK, StartFresh, StartNothing
  <2>11. CASE p = Run /\ PublishAsk
    <3>1. 0 \in 0 .. HardLimit
      OBVIOUS
    <3> QED BY <2>0, <2>11, <3>1, TypeOfRelease, DeadlineIsATime DEF TypeOK, PublishAsk, NoRun, Asking
  <2>12. ASSUME NEW kind, WithdrawAsk(kind), p = Run PROVE TypeOK'
    BY <2>0, <2>12, TypeOfRelease, TypeOfCancelLive DEF TypeOK, WithdrawAsk, NoRun
  <2> QED BY <1>12, <2>1, <2>2, <2>3, <2>4, <2>5, <2>6, <2>7, <2>8, <2>9, <2>10, <2>11, <2>12 DEF WriteOf
<1>13. CASE UNCHANGED vars
  BY <1>13 DEF TypeOK, vars, locks
<1> QED
  <2>1. ASSUME NEW p \in Commands, EnterStop(p) \/ EnterDelete(p) PROVE TypeOK'
    BY <2>1, <1>4 DEF EnterStop, EnterDelete, Actors, TxKinds
  <2>2. ASSUME EnterRun PROVE TypeOK'
    BY <2>2, <1>4 DEF EnterRun, EnterStart, EnterSettle, EnterRepair, Actors, TxKinds
  <2> QED BY <1>1, <1>2, <1>3, <1>5, <1>6, <1>7, <1>8, <1>9, <1>10, <1>11, <1>12, <1>13, <2>1, <2>2
          DEF Next, Proceed

-------------------------------------------------------------------------------
(* What a step leaves of the asks: one an ask has ended stays so, and only *)
(* a request makes an ask live or held.                                    *)
Settles ==
  \A a \in Asks : /\ Held(a)' => Held(a)
                  /\ Live(a)' => Live(a)
                  /\ status[a] = "open" => status'[a] \in {"open"} \cup Ended
                  /\ status[a] \in Ended => status'[a] = status[a]

BoundAlike == \A s \in Submissions : reply'[s].ask = reply[s].ask

(* A commit gives back what its transaction held and nothing else.         *)
LEMMA CommitKeepsLocks ==
  ASSUME IInv, NEW p \in Actors, Release(p), Settles, BoundAlike, age' = age,
         p # Run => run'.phase = run.phase
  PROVE  TxFits' /\ Covered'
<1> USE ActorsAssumption
<1>1. TypeOK /\ TxFits /\ Covered
  BY DEF IInv
<1>2. \A q \in Actors : tx'[q] = IF q = p THEN NoTx ELSE tx[q]
  BY <1>1 DEF Release, TypeOK
<1>3. ASSUME NEW q \in Actors, q = p
      PROVE  tx'[q].kind = "none" /\ tx'[q].stage = "idle" /\ ~tx'[q].skip
  BY <1>2, <1>3 DEF NoTx
<1>4. TxFits'
  <2> SUFFICES ASSUME NEW q \in Actors PROVE TxFits!(q)'
    BY DEF TxFits
  <2>1. CASE q = p
    BY <1>3, <2>1 DEF OfOneAsk, OfTheRun
  <2>2. CASE q # p
    <3>1. tx'[q] = tx[q]
      BY <1>2, <2>2
    <3>2. tx[q].kind \in OfOneAsk => tx[q].ask \in Asks /\ status'[tx[q].ask] \in {"open"} \cup Ended
      BY <1>1 DEF TxFits, Settles
    <3>3. tx[q].kind = "answer" => reply'[tx[q].carries].ask = tx[q].ask
      BY <1>1 DEF TxFits, BoundAlike
    <3>4. tx[q].kind = "start" => run'.phase = "none"
      BY <1>1, <2>2 DEF TxFits, OfTheRun
    <3> QED BY <1>1, <3>1, <3>2, <3>3, <3>4 DEF TxFits
  <2> QED BY <2>1, <2>2
<1>5. Covered'
  <2> SUFFICES ASSUME NEW q \in Actors, tx'[q].stage \in {"rows", "locked"} PROVE Covered!(q)!2'
    BY DEF Covered
  <2>1. q # p /\ tx'[q] = tx[q]
    BY <1>2, <1>3
  <2>2. \A a \in Asks : rowOf[a] = q => rowOf'[a] = q
    BY <2>1 DEF Release
  <2>3. ASSUME tx[q].kind \in OfOneAsk, Live(tx[q].ask)' PROVE rowOf'[tx[q].ask] = q
    BY <1>1, <2>1, <2>2, <2>3 DEF TxFits, Covered, Settles, Live
  <2>4. ASSUME tx[q].kind \in OfTheRun, NEW a \in Asks, Held(a)' PROVE rowOf'[a] = q
    BY <1>1, <2>1, <2>2, <2>4 DEF Covered, Settles
  <2> QED BY <2>1, <2>3, <2>4 DEF Live
<1> QED BY <1>4, <1>5

(* Taking the rows covers the transaction and robs no other.               *)
LEMMA TakeRowsKeepsLocks ==
  ASSUME IInv, NEW p \in Actors, NEW t, TakeRows(p, t),
         t.kind \in OfOneAsk => tx[p] = t,
         t.kind \in OfTheRun => p = Run /\ ~t.skip,
         t.kind = "start" => run.phase = "none",
         t.kind # "none", t.kind \in TxKinds, t \in Transactions
  PROVE  TxFits' /\ Covered'
<1> USE ActorsAssumption
<1>1. TypeOK /\ TxFits /\ Covered
  BY DEF IInv
<1>2. UNCHANGED <<status, cont, age, reply, run>>
  BY DEF TakeRows, rows, clock
<1>3. \A q \in Actors : tx'[q] = IF q = p THEN [t EXCEPT !.stage = "rows"] ELSE tx[q]
  BY <1>1 DEF TakeRows, TypeOK
<1>4. /\ tx'[p].kind = t.kind /\ tx'[p].ask = t.ask /\ tx'[p].at = t.at
      /\ tx'[p].carries = t.carries /\ tx'[p].skip = t.skip /\ tx'[p].stage = "rows"
  BY <1>3 DEF Transactions
<1>5. TxFits'
  <2> SUFFICES ASSUME NEW q \in Actors PROVE TxFits!(q)'
    BY DEF TxFits
  <2>1. CASE q # p
    <3>1. tx'[q] = tx[q]
      BY <1>3, <2>1
    <3> QED BY <1>1, <1>2, <3>1 DEF TxFits
  <2>2. CASE q = p /\ t.kind \in OfOneAsk
    BY <1>1, <1>2, <1>4, <2>2 DEF TxFits, OfOneAsk, OfTheRun
  <2>3. CASE q = p /\ t.kind \notin OfOneAsk
    BY <1>2, <1>4, <2>3 DEF OfOneAsk, OfTheRun
  <2> QED BY <2>1, <2>2, <2>3
<1>6. Covered'
  <2> SUFFICES ASSUME NEW q \in Actors, tx'[q].stage \in {"rows", "locked"} PROVE Covered!(q)!2'
    BY DEF Covered
  <2>1. CASE q # p
    <3>1. tx'[q] = tx[q]
      BY <1>3, <2>1
    <3>2. \A a \in Asks : rowOf[a] = q => rowOf'[a] = q
      BY <2>1 DEF TakeRows, Free
    <3>3. tx[q].kind \in OfOneAsk => tx[q].ask \in Asks
      BY <1>1 DEF TxFits
    <3> QED BY <1>1, <1>2, <3>1, <3>2, <3>3 DEF Covered, Live, Held, Owed
  <2>2. CASE q = p
    <3>1. ~t.skip => \A a \in Asks : Held(a) => rowOf'[a] = p
      BY DEF TakeRows, Wanted
    <3>2. t.kind \in OfOneAsk => t.ask \in Asks /\ ~t.skip
      BY <1>1 DEF TxFits
    <3> QED BY <1>2, <1>4, <2>2, <3>1, <3>2 DEF Live, Held, Owed
  <2> QED BY <2>1, <2>2
<1> QED BY <1>5, <1>6

-------------------------------------------------------------------------------
(* What the asks, their turns, their hints and the run say of each other.  *)

LEMMA SameAsksFit ==
  ASSUME IInv, UNCHANGED <<status, cont, turn, hints>>, run'.asking = run.asking,
         run'.phase = "none" => run.phase = "none",
         run.phase = "none" => run'.phase = "none" \/ \A a \in Asks : ~Held(a)
  PROVE  AsksFit'
<1>1. \A a \in Asks : (Held(a)' <=> Held(a)) /\ (Live(a)' <=> Live(a)) /\ (Owed(a)' <=> Owed(a))
  BY DEF Held, Live, Owed
<1> QED BY <1>1 DEF IInv, AsksFit, LiveIsNotOwed, EveryOwedHasItsHint, AskAndTurnAgree, OneAskAtATime, RunFits

(* Cancelling asks that are live or owed, with their hints, and the ask of *)
(* a run that ends.                                                        *)
LEMMA CancelKeepsAsks ==
  ASSUME IInv, NEW S \in SUBSET Asks, CancelLive(S), \A a \in S : Held(a),
         hints' = hints \ S,
         \/ run'.asking = run.asking /\ run'.phase = run.phase
         \/ run' = NoRun /\ \A a \in Asks : status[a] = "pending" => a \in S
  PROVE  AsksFit' /\ Settles
<1>1. /\ TypeOK /\ LiveIsNotOwed /\ EveryOwedHasItsHint /\ AskAndTurnAgree /\ OneAskAtATime /\ RunFits
  BY DEF IInv, AsksFit
<1>2. \A a \in Asks :
        /\ status'[a] = IF a \in S /\ Live(a) THEN "cancelled" ELSE status[a]
        /\ turn'[a] = IF a \in S /\ Live(a) THEN "cancelled" ELSE turn[a]
        /\ cont'[a] = IF a \in S THEN "cancelled" ELSE cont[a]
  BY DEF CancelLive
<1>3. \A a \in Asks : /\ Live(a)' <=> Live(a) /\ a \notin S
                      /\ Owed(a)' <=> Owed(a) /\ a \notin S
                      /\ Held(a)' <=> Held(a) /\ a \notin S
  BY <1>2 DEF Held, Live, Owed
<1>4. LiveIsNotOwed'
  BY <1>1, <1>2 DEF LiveIsNotOwed, Held, Live, Owed
<1>5. EveryOwedHasItsHint'
  BY <1>1, <1>3 DEF EveryOwedHasItsHint
<1>6. AskAndTurnAgree'
  BY <1>1, <1>2 DEF AskAndTurnAgree, Live
<1>7. OneAskAtATime'
  BY <1>1, <1>3 DEF OneAskAtATime
<1>8. RunFits'
  BY <1>1, <1>3 DEF RunFits, NoRun
<1>9. Settles
  BY <1>2, <1>3 DEF Settles, Live, Ended
<1> QED BY <1>4, <1>5, <1>6, <1>7, <1>8, <1>9 DEF AsksFit

(* A resolution completes the turn and leaves the continuation with its hint. *)
LEMMA ResolveKeepsAsks ==
  ASSUME IInv, NEW a \in Asks, NEW as \in {"answered", "expired"}, ResolveOpen(a, as),
         status[a] = "open", run' = run
  PROVE  AsksFit' /\ Settles
<1>1. /\ TypeOK /\ LiveIsNotOwed /\ EveryOwedHasItsHint /\ AskAndTurnAgree /\ OneAskAtATime /\ RunFits
  BY DEF IInv, AsksFit
<1>2. \A b \in Asks :
        /\ status'[b] = IF b = a THEN as ELSE status[b]
        /\ turn'[b] = IF b = a THEN "complete" ELSE turn[b]
        /\ cont'[b] = IF b = a THEN "pending" ELSE cont[b]
  BY <1>1 DEF ResolveOpen, TypeOK
<1>3. \A b \in Asks : /\ Live(b)' <=> Live(b) /\ b # a
                      /\ Owed(b)' <=> Owed(b) \/ b = a
                      /\ Held(b)' <=> Held(b)
  BY <1>2 DEF Held, Live, Owed
<1>4. LiveIsNotOwed'
  <2>1. \A b \in Asks : status'[b] \in {"absent"} \cup {"pending", "open"} =>
                         status[b] = status'[b] /\ cont'[b] = cont[b]
    BY <1>2
  <2> QED BY <1>1, <2>1 DEF LiveIsNotOwed
<1>5. EveryOwedHasItsHint'
  BY <1>1, <1>3 DEF EveryOwedHasItsHint, ResolveOpen
<1>6. AskAndTurnAgree'
  <2> SUFFICES ASSUME NEW b \in Asks PROVE AskAndTurnAgree!(b)'
    BY DEF AskAndTurnAgree
  <2>1. AskAndTurnAgree!(b)
    BY <1>1 DEF AskAndTurnAgree
  <2>2. CASE b = a
    BY <1>2, <2>2
  <2>3. CASE b # a
    BY <1>2, <2>1, <2>3
  <2> QED BY <2>2, <2>3
<1>7. OneAskAtATime'
  BY <1>1, <1>3 DEF OneAskAtATime
<1>8. RunFits'
  BY <1>1, <1>3 DEF RunFits
<1>9. Settles
  BY <1>2, <1>3 DEF Settles, Live, Ended
<1> QED BY <1>4, <1>5, <1>6, <1>7, <1>8, <1>9 DEF AsksFit

(* Admitting a continuation leaves the chat with nothing else to hold.     *)
LEMMA ContinueKeepsAsks ==
  ASSUME IInv, NEW a \in Asks, Continue(a), run.phase = "none"
  PROVE  AsksFit' /\ Settles
<1>1. /\ TypeOK /\ LiveIsNotOwed /\ EveryOwedHasItsHint /\ AskAndTurnAgree /\ OneAskAtATime /\ RunFits
  BY DEF IInv, AsksFit
<1>2. Owed(a) /\ ~Live(a) /\ status[a] # "absent"
  BY <1>1 DEF Continue, EveryOwedHasItsHint, LiveIsNotOwed, Live, Owed
<1>3. /\ status' = status /\ turn' = turn /\ hints' = hints \ {a}
      /\ \A b \in Asks : cont'[b] = IF b = a THEN "done" ELSE cont[b]
      /\ run'.phase = "running" /\ run'.asking = None
  BY <1>1, <1>2 DEF Continue, TypeOK, NoRun
<1>4. \A b \in Asks : /\ Live(b)' <=> Live(b)
                      /\ Owed(b)' <=> Owed(b) /\ b # a
                      /\ Held(b)' <=> Held(b) /\ b # a
  BY <1>2, <1>3 DEF Held, Live, Owed
<1>5. \A b \in Asks : ~Held(b)'
  <2>1. Held(a)
    BY <1>2 DEF Held
  <2>2. \A b \in Asks : Held(b) => b = a
    BY <1>1, <2>1 DEF OneAskAtATime
  <2> QED BY <1>4, <2>2
<1>6. LiveIsNotOwed'
  BY <1>1, <1>2, <1>3 DEF LiveIsNotOwed, Live
<1>7. EveryOwedHasItsHint'
  BY <1>1, <1>3, <1>4 DEF EveryOwedHasItsHint
<1>8. AskAndTurnAgree'
  BY <1>1, <1>3, <1>4, <1>5 DEF AskAndTurnAgree, Held, Live
<1>9. OneAskAtATime' /\ RunFits'
  BY <1>3, <1>5 DEF OneAskAtATime, RunFits
<1>10. Settles
  BY <1>3, <1>4 DEF Settles
<1> QED BY <1>6, <1>7, <1>8, <1>9, <1>10 DEF AsksFit

(* A published ask leaves its run behind and keeps its turn waiting.       *)
LEMMA PublishKeepsAsks ==
  ASSUME IInv, PublishAsk
  PROVE  AsksFit' /\ Settles
<1>1. /\ TypeOK /\ LiveIsNotOwed /\ EveryOwedHasItsHint /\ AskAndTurnAgree /\ OneAskAtATime /\ RunFits
  BY DEF IInv, AsksFit
<1>2. PICK a \in Asking : /\ status[a] = "pending"
                          /\ status' = [status EXCEPT ![a] = "open"]
                          /\ turn' = [turn EXCEPT ![a] = "awaiting_answer"]
  BY DEF PublishAsk
<1>3. a \in Asks /\ run.asking = a
  BY DEF Asking
<1>4. /\ cont' = cont /\ hints' = hints /\ run' = NoRun
      /\ \A b \in Asks : status'[b] = IF b = a THEN "open" ELSE status[b]
      /\ \A b \in Asks : turn'[b] = IF b = a THEN "awaiting_answer" ELSE turn[b]
  BY <1>1, <1>2, <1>3 DEF PublishAsk, TypeOK
<1>5. \A b \in Asks : (Live(b)' <=> Live(b)) /\ (Owed(b)' <=> Owed(b)) /\ (Held(b)' <=> Held(b))
  BY <1>2, <1>4 DEF Held, Live, Owed
<1>6. LiveIsNotOwed'
  BY <1>1, <1>2, <1>4 DEF LiveIsNotOwed
<1>7. EveryOwedHasItsHint' /\ OneAskAtATime'
  BY <1>1, <1>4, <1>5 DEF EveryOwedHasItsHint, OneAskAtATime
<1>8. AskAndTurnAgree'
  BY <1>1, <1>2, <1>3, <1>4 DEF AskAndTurnAgree
<1>9. RunFits'
  BY <1>4 DEF RunFits, NoRun
<1>10. Settles
  BY <1>2, <1>4, <1>5 DEF Settles, Ended
<1> QED BY <1>6, <1>7, <1>8, <1>9, <1>10 DEF AsksFit

(* A run asks only where nothing else is held.                             *)
LEMMA RequestKeepsAsks ==
  ASSUME IInv, NEW a \in Asks, Request(a)
  PROVE  AsksFit'
<1> USE ActorsAssumption
<1>1. /\ TypeOK /\ LiveIsNotOwed /\ EveryOwedHasItsHint /\ AskAndTurnAgree /\ OneAskAtATime /\ RunFits
  BY DEF IInv, AsksFit
<1>2. \A b \in Asks : ~Held(b)
  BY <1>1 DEF RunFits, Request
<1>3. /\ cont' = cont /\ hints' = hints /\ run'.asking = a /\ run'.phase = "running"
      /\ \A b \in Asks : status'[b] = IF b = a THEN "pending" ELSE status[b]
      /\ \A b \in Asks : turn'[b] = IF b = a THEN "streaming" ELSE turn[b]
  BY <1>1 DEF Request, TypeOK
<1>4. cont[a] = "none"
  BY <1>1 DEF LiveIsNotOwed, Request
<1>5. \A b \in Asks : (Owed(b)' <=> Owed(b)) /\ (Held(b)' => b = a)
  BY <1>2, <1>3 DEF Held, Live, Owed
<1>6. LiveIsNotOwed'
  BY <1>1, <1>3, <1>4 DEF LiveIsNotOwed
<1>7. EveryOwedHasItsHint' /\ OneAskAtATime' /\ RunFits'
  BY <1>1, <1>3, <1>5 DEF EveryOwedHasItsHint, OneAskAtATime, RunFits
<1>8. AskAndTurnAgree'
  BY <1>1, <1>2, <1>3 DEF AskAndTurnAgree, Held, Live, Request
<1> QED BY <1>6, <1>7, <1>8 DEF AsksFit

-------------------------------------------------------------------------------
(* What the senders know.                                                  *)

LEMMA SendersAlike ==
  ASSUME IInv, UNCHANGED <<answeredBy, reply>>,
         \A a \in Asks : status[a] \in Ended => status'[a] = status[a]
  PROVE  SendersFit'
<1>1. TypeOK /\ RepliesFit /\ ToldTheTruth
  BY DEF IInv, SendersFit
<1>2. RepliesFit'
  BY <1>1 DEF RepliesFit, Ended
<1>3. ToldTheTruth'
  BY <1>1 DEF RepliesFit, ToldTheTruth, Ended
<1> QED BY <1>2, <1>3 DEF SendersFit

(* A submission that is told something is bound to the ask it is told of.  *)
LEMMA TellKeepsSenders ==
  ASSUME IInv, NEW s \in Submissions, NEW a \in Asks, NEW said \in {"ok", "refused", "notFound"},
         \A b \in Asks : status[b] \in Ended => status'[b] = status[b],
         \A b \in Asks : b # a => answeredBy'[b] = answeredBy[b],
         answeredBy'[a] # None => status'[a] = "answered" /\ answeredBy'[a] \in {answeredBy[a], s},
         reply' = [reply EXCEPT ![s] = [ask |-> a, said |-> said]],
         reply[s].ask \in {None, a},
         said = "ok" => answeredBy'[a] = s /\ status'[a] = "answered",
         said = "refused" => status'[a] \in Ended /\ answeredBy'[a] # s,
         answeredBy'[a] # answeredBy[a] => status[a] \notin Ended
  PROVE  SendersFit'
<1> USE ActorsAssumption
<1>1. TypeOK /\ RepliesFit /\ ToldTheTruth
  BY DEF IInv, SendersFit
<1>2. \A t \in Submissions : reply'[t] = IF t = s THEN [ask |-> a, said |-> said] ELSE reply[t]
  BY <1>1 DEF TypeOK
<1>3. answeredBy \in [Asks -> Submissions \cup {None}]
  BY <1>1 DEF TypeOK
<1>4. RepliesFit'
  <2>1. ASSUME NEW b \in Asks, answeredBy'[b] # None
        PROVE  status'[b] = "answered" /\ reply'[answeredBy'[b]].ask = b
    <3>1. CASE b # a
      <4>1. answeredBy'[b] = answeredBy[b] /\ status[b] = "answered" /\ reply[answeredBy[b]].ask = b
        BY <1>1, <2>1, <3>1 DEF RepliesFit
      <4>2. answeredBy[b] # s /\ answeredBy[b] \in Submissions
        BY <1>3, <2>1, <3>1, <4>1
      <4> QED BY <1>2, <4>1, <4>2 DEF Ended
    <3>2. CASE b = a
      <4>1. CASE answeredBy'[b] = s
        BY <1>2, <2>1, <3>2, <4>1
      <4>2. CASE answeredBy'[b] # s
        <5>1. answeredBy'[b] = answeredBy[b] /\ answeredBy[b] \in Submissions
          BY <1>3, <2>1, <3>2, <4>2
        <5> QED BY <1>1, <1>2, <2>1, <3>2, <4>2, <5>1 DEF RepliesFit
      <4> QED BY <4>1, <4>2
    <3> QED BY <3>1, <3>2
  <2>2. ASSUME NEW t \in Submissions, reply'[t].said \in {"ok", "refused"}
        PROVE  reply'[t].ask \in Asks /\ status'[reply'[t].ask] \in Ended
    <3>1. CASE t = s
      BY <1>2, <2>2, <3>1 DEF Ended
    <3>2. CASE t # s
      BY <1>1, <1>2, <2>2, <3>2 DEF RepliesFit
    <3> QED BY <3>1, <3>2
  <2> QED BY <2>1, <2>2 DEF RepliesFit
<1>5. ToldTheTruth'
  <2> SUFFICES ASSUME NEW t \in Submissions PROVE ToldTheTruth!(t)'
    BY DEF ToldTheTruth
  <2>1. CASE t = s
    BY <1>2, <2>1
  <2>2. CASE t # s /\ reply[t].said \in {"ok", "refused"}
    <3>1. reply'[t] = reply[t] /\ reply[t].ask \in Asks /\ status[reply[t].ask] \in Ended
      BY <1>1, <1>2, <2>2 DEF RepliesFit
    <3>2. answeredBy'[reply[t].ask] = answeredBy[reply[t].ask]
      BY <3>1
    <3> QED BY <1>1, <3>1, <3>2 DEF ToldTheTruth
  <2>3. CASE t # s /\ reply[t].said \notin {"ok", "refused"}
    BY <1>2, <2>3
  <2> QED BY <2>1, <2>2, <2>3
<1> QED BY <1>4, <1>5 DEF SendersFit

-------------------------------------------------------------------------------
(* The commits of writers and sweeps.                                      *)

LEMMA CommitFacts ==
  ASSUME IInv, NEW p \in Actors, NEW kind, Commit(p, kind)
  PROVE  /\ Release(p) /\ tx[p].kind = kind
         /\ kind \in OfOneAsk => tx[p].ask \in Asks /\ status[tx[p].ask] \in {"open"} \cup Ended
         /\ kind = "answer" => /\ tx[p].carries \in Submissions
                               /\ reply[tx[p].carries].ask = tx[p].ask
         /\ kind \in OfTheRun => p = Run
         /\ kind = "start" => run.phase = "none"
BY DEF IInv, Commit, TxFits

LEMMA RunIsAnActor == Run \in Actors /\ Writers \subseteq Actors /\ Sweeps \subseteq Actors /\ Commands \subseteq Actors
BY DEF Actors

LEMMA ReplayAnswerStep ==
  ASSUME IInv, TypeOK', NEW p \in Actors, ReplayAnswer(p) PROVE IInv'
<1>1. /\ UNCHANGED <<status, cont, turn, hints, run, age, answeredBy>>
      /\ Commit(p, "answer") /\ Tells(p, "ok") /\ IsReplay(tx[p].carries, tx[p].ask)
  BY DEF ReplayAnswer, rows, clock, resolution
<1>2. PICK s \in Submissions, a \in Asks :
        /\ s = tx[p].carries /\ a = tx[p].ask /\ reply[s].ask = a
        /\ status[a] \in {"open"} \cup Ended
  BY <1>1, CommitFacts DEF OfOneAsk
<1>3. reply \in [Submissions -> Replies]
  BY DEF IInv, TypeOK
<1>4. \/ reply' = reply
      \/ reply' = [reply EXCEPT ![s] = [ask |-> a, said |-> "ok"]]
  BY <1>1, <1>2, <1>3 DEF Tells, Replies
<1>5. answeredBy[a] = s /\ status[a] \in Ended
  BY <1>1, <1>2 DEF IsReplay
<1>6. answeredBy[a] # None => status[a] = "answered"
  BY <1>2 DEF IInv, SendersFit, RepliesFit
<1>7. s # None
  BY <1>2, ActorsAssumption
<1>8. AsksFit' /\ Settles
  BY <1>1, SameAsksFit DEF Settles, Held, Live, Owed, Ended
<1>9. BoundAlike
  BY <1>2, <1>3, <1>4 DEF BoundAlike
<1>10. TxFits' /\ Covered'
  BY <1>1, <1>8, <1>9, CommitFacts, CommitKeepsLocks
<1>11. SendersFit'
  <2>1. CASE reply' = reply
    BY <1>1, <2>1, SendersAlike
  <2>2. CASE reply' = [reply EXCEPT ![s] = [ask |-> a, said |-> "ok"]]
    BY <1>1, <1>2, <1>5, <1>6, <1>7, <2>2, TellKeepsSenders
  <2> QED BY <1>4, <2>1, <2>2
<1> QED BY <1>8, <1>10, <1>11 DEF IInv

LEMMA ResolveAnswerStep ==
  ASSUME IInv, TypeOK', NEW p \in Actors, ResolveAnswer(p) PROVE IInv'
<1>1. /\ UNCHANGED <<run, age>>
      /\ Commit(p, "answer") /\ Tells(p, "ok") /\ MayResolve(p)
      /\ ResolveOpen(tx[p].ask, "answered")
      /\ answeredBy' = [answeredBy EXCEPT ![tx[p].ask] = tx[p].carries]
  BY DEF ResolveAnswer, clock
<1>2. PICK s \in Submissions, a \in Asks :
        /\ s = tx[p].carries /\ a = tx[p].ask /\ reply[s].ask = a
  BY <1>1, CommitFacts DEF OfOneAsk
<1>3. /\ reply \in [Submissions -> Replies] /\ answeredBy \in [Asks -> Submissions \cup {None}]
      /\ status \in [Asks -> {"absent", "pending", "open", "answered", "expired", "cancelled"}]
  BY DEF IInv, TypeOK
<1>4. \/ reply' = reply
      \/ reply' = [reply EXCEPT ![s] = [ask |-> a, said |-> "ok"]]
  BY <1>1, <1>2, <1>3 DEF Tells, Replies
<1>5. status[a] = "open"
  BY <1>1, <1>2 DEF MayResolve
<1>6. ResolveOpen(a, "answered")
  BY <1>1, <1>2
<1>7. AsksFit' /\ Settles
  BY <1>1, <1>5, <1>6, ResolveKeepsAsks
<1>8. BoundAlike
  BY <1>2, <1>3, <1>4 DEF BoundAlike
<1>9. TxFits' /\ Covered'
  BY <1>1, <1>7, <1>8, CommitFacts, CommitKeepsLocks
<1>10. status'[a] = "answered" /\ answeredBy'[a] = s
  BY <1>1, <1>2, <1>3, <1>6 DEF ResolveOpen
<1>11. \A b \in Asks : /\ b # a => answeredBy'[b] = answeredBy[b]
                       /\ status[b] \in Ended => status'[b] = status[b]
  BY <1>1, <1>2, <1>3, <1>7 DEF Settles
<1>12. SendersFit'
  <2>1. CASE reply' = [reply EXCEPT ![s] = [ask |-> a, said |-> "ok"]]
    BY <1>2, <1>5, <1>10, <1>11, <2>1, TellKeepsSenders DEF Ended
  <2>2. CASE reply' = reply
    <3>1. answeredBy[a] = None
      BY <1>5 DEF IInv, SendersFit, RepliesFit
    <3>2. reply[s].said \notin {"ok", "refused"}
      BY <1>2, <1>5 DEF IInv, SendersFit, RepliesFit, Ended
    <3>3. RepliesFit'
      <4>1. ASSUME NEW b \in Asks, answeredBy'[b] # None
            PROVE  status'[b] = "answered" /\ reply'[answeredBy'[b]].ask = b
        <5>1. CASE b = a
          BY <1>2, <1>10, <2>2, <5>1
        <5>2. CASE b # a
          BY <1>11, <2>2, <4>1, <5>2 DEF IInv, SendersFit, RepliesFit, Ended
        <5> QED BY <5>1, <5>2
      <4>2. ASSUME NEW t \in Submissions, reply'[t].said \in {"ok", "refused"}
            PROVE  reply'[t].ask \in Asks /\ status'[reply'[t].ask] \in Ended
        BY <1>11, <2>2, <4>2 DEF IInv, SendersFit, RepliesFit
      <4> QED BY <4>1, <4>2 DEF RepliesFit
    <3>4. ToldTheTruth'
      <4> SUFFICES ASSUME NEW t \in Submissions, reply[t].said \in {"ok", "refused"}
                   PROVE  ToldTheTruth!(t)'
        BY <2>2 DEF ToldTheTruth
      <4>1. reply[t].ask \in Asks /\ status[reply[t].ask] \in Ended
        BY DEF IInv, SendersFit, RepliesFit
      <4>2. reply[t].ask # a
        BY <1>5, <4>1 DEF Ended
      <4>3. answeredBy'[reply[t].ask] = answeredBy[reply[t].ask] /\ status'[reply[t].ask] = status[reply[t].ask]
        BY <1>11, <4>1, <4>2
      <4> QED BY <2>2, <4>3 DEF IInv, SendersFit, ToldTheTruth
    <3> QED BY <3>3, <3>4 DEF SendersFit
  <2> QED BY <1>4, <2>1, <2>2
<1> QED BY <1>7, <1>9, <1>12 DEF IInv

LEMMA FinishDeleteFacts ==
  ASSUME IInv, NEW p \in Actors, FinishDelete(p), tx[p].ask \in Asks, run' = run
  PROVE  /\ AsksFit' /\ Settles
         /\ deleted => status'[tx[p].ask] # "open"
<1>1. PICK S \in SUBSET Asks : S = {a \in {tx[p].ask} : deleted /\ Live(a)}
  OBVIOUS
<1>2. CancelLive(S) /\ hints' = hints
  BY <1>1 DEF FinishDelete
<1>3. \A a \in S : Held(a) /\ ~Owed(a)
  BY <1>1 DEF IInv, AsksFit, LiveIsNotOwed, Held, Live, Owed
<1>4. hints' = hints \ S
  BY <1>2, <1>3 DEF IInv, AsksFit, EveryOwedHasItsHint
<1>5. AsksFit' /\ Settles
  BY <1>2, <1>3, <1>4, CancelKeepsAsks
<1>6. deleted => status'[tx[p].ask] # "open"
  BY <1>1, <1>2 DEF CancelLive, Live
<1> QED BY <1>5, <1>6

LEMMA RefuseAnswerStep ==
  ASSUME IInv, TypeOK', NEW p \in Actors, RefuseAnswer(p) PROVE IInv'
<1>1. /\ UNCHANGED <<run, age, answeredBy, deleted>>
      /\ Commit(p, "answer") /\ Tells(p, "refused") /\ ~MayResolve(p)
      /\ FinishDelete(p) /\ ~IsReplay(tx[p].carries, tx[p].ask)
  BY DEF RefuseAnswer, clock, resolution
<1>2. PICK s \in Submissions, a \in Asks :
        /\ s = tx[p].carries /\ a = tx[p].ask /\ reply[s].ask = a
        /\ status[a] \in {"open"} \cup Ended
  BY <1>1, CommitFacts DEF OfOneAsk
<1>3. reply \in [Submissions -> Replies]
  BY DEF IInv, TypeOK
<1>4. \/ reply' = reply
      \/ reply' = [reply EXCEPT ![s] = [ask |-> a, said |-> "refused"]]
  BY <1>1, <1>2, <1>3 DEF Tells, Replies
<1>5. AsksFit' /\ Settles /\ (deleted => status'[a] # "open")
  BY <1>1, <1>2, FinishDeleteFacts
<1>6. deleted \/ status[a] # "open"
  BY <1>1, <1>2, CommitFacts DEF MayResolve, StillDue
<1>7. status'[a] \in Ended
  BY <1>2, <1>5, <1>6 DEF Settles, Ended
<1>8. BoundAlike
  BY <1>2, <1>3, <1>4 DEF BoundAlike
<1>9. TxFits' /\ Covered'
  BY <1>1, <1>5, <1>8, CommitFacts, CommitKeepsLocks
<1>10. answeredBy[a] # None => status[a] = "answered"
  BY <1>2 DEF IInv, SendersFit, RepliesFit
<1>11. answeredBy[a] # s
  BY <1>1, <1>2, <1>10, ActorsAssumption DEF IsReplay
<1>12. \A b \in Asks : status[b] \in Ended => status'[b] = status[b]
  BY <1>5 DEF Settles
<1>13. answeredBy'[a] # None => status'[a] = "answered"
  BY <1>1, <1>2, <1>10, <1>12 DEF Ended
<1>14. SendersFit'
  <2>1. CASE reply' = reply
    BY <1>1, <1>12, <2>1, SendersAlike
  <2>2. CASE reply' = [reply EXCEPT ![s] = [ask |-> a, said |-> "refused"]]
    BY <1>1, <1>2, <1>7, <1>11, <1>12, <1>13, <2>2, TellKeepsSenders
  <2> QED BY <1>4, <2>1, <2>2
<1> QED BY <1>5, <1>9, <1>14 DEF IInv

LEMMA RecordPresenceStep ==
  ASSUME IInv, TypeOK', NEW p \in Actors, RecordPresence(p) PROVE IInv'
<1>1. /\ UNCHANGED <<status, cont, turn, hints, run, age, answeredBy, reply>>
      /\ Commit(p, "presence")
  BY DEF RecordPresence
<1>2. AsksFit' /\ Settles /\ BoundAlike
  BY <1>1, SameAsksFit DEF Settles, BoundAlike, Held, Live, Owed, Ended
<1>3. TxFits' /\ Covered'
  BY <1>1, <1>2, CommitFacts, CommitKeepsLocks
<1>4. SendersFit'
  BY <1>1, SendersAlike
<1> QED BY <1>2, <1>3, <1>4 DEF IInv

LEMMA ResolveExpiryStep ==
  ASSUME IInv, TypeOK', NEW p \in Actors, ResolveExpiry(p) PROVE IInv'
<1>1. /\ UNCHANGED <<run, age, answeredBy, reply>>
      /\ Commit(p, "expire") /\ MayResolve(p) /\ ResolveOpen(tx[p].ask, "expired")
  BY DEF ResolveExpiry, clock
<1>2. PICK a \in Asks : a = tx[p].ask /\ status[a] = "open"
  BY <1>1, CommitFacts DEF OfOneAsk, MayResolve
<1>3. ResolveOpen(a, "expired")
  BY <1>1, <1>2
<1>4. AsksFit' /\ Settles /\ BoundAlike
  BY <1>1, <1>2, <1>3, ResolveKeepsAsks DEF BoundAlike
<1>5. TxFits' /\ Covered'
  BY <1>1, <1>4, CommitFacts, CommitKeepsLocks
<1>6. SendersFit'
  BY <1>1, <1>4, SendersAlike DEF Settles
<1> QED BY <1>4, <1>5, <1>6 DEF IInv

LEMMA RefuseExpiryStep ==
  ASSUME IInv, TypeOK', NEW p \in Actors, RefuseExpiry(p) PROVE IInv'
<1>1. /\ UNCHANGED <<run, age, answeredBy, reply>>
      /\ Commit(p, "expire") /\ FinishDelete(p)
  BY DEF RefuseExpiry, clock, resolution
<1>2. tx[p].ask \in Asks
  BY <1>1, CommitFacts DEF OfOneAsk
<1>3. AsksFit' /\ Settles /\ BoundAlike
  BY <1>1, <1>2, FinishDeleteFacts DEF BoundAlike
<1>4. TxFits' /\ Covered'
  BY <1>1, <1>3, CommitFacts, CommitKeepsLocks
<1>5. SendersFit'
  BY <1>1, <1>3, SendersAlike DEF Settles
<1> QED BY <1>3, <1>4, <1>5 DEF IInv

-------------------------------------------------------------------------------
(* The commits of commands and of the run.                                 *)

LEMMA StopOrDeleteStep ==
  ASSUME IInv, TypeOK', NEW p \in Actors, Stop(p) \/ Delete(p) PROVE IInv'
<1>1. /\ UNCHANGED <<age, answeredBy, reply>>
      /\ Release(p)
      /\ run'.asking = run.asking /\ run'.phase = run.phase
  BY DEF Stop, Delete, Commit, IInv, TypeOK, clock, resolution
<1>2. PICK S \in SUBSET Asks : CancelLive(S) /\ hints' = hints \ S /\ \A a \in S : Held(a)
  <2>1. PICK execution \in BOOLEAN : CancelLive(ClaimLineage(p, execution)) /\ DropHints(ClaimLineage(p, execution))
    BY DEF Stop, Delete
  <2>2. ClaimLineage(p, execution) \in SUBSET Asks /\ \A a \in ClaimLineage(p, execution) : Held(a)
    BY DEF ClaimLineage, Held, Live
  <2>3. PICK T \in SUBSET Asks : T = ClaimLineage(p, execution)
    BY <2>2
  <2>4. CancelLive(T) /\ hints' = hints \ T /\ \A a \in T : Held(a)
    BY <2>1, <2>2, <2>3 DEF DropHints
  <2> QED BY <2>4
<1>3. AsksFit' /\ Settles /\ BoundAlike
  BY <1>1, <1>2, CancelKeepsAsks DEF BoundAlike
<1>4. TxFits' /\ Covered'
  BY <1>1, <1>3, CommitKeepsLocks
<1>5. SendersFit'
  BY <1>1, <1>3, SendersAlike DEF Settles
<1> QED BY <1>3, <1>4, <1>5 DEF IInv

LEMMA ContinueStep ==
  ASSUME IInv, TypeOK', NEW a \in Asks, Continue(a) PROVE IInv'
<1>1. /\ UNCHANGED <<age, answeredBy, reply>> /\ Commit(Run, "start")
  BY DEF Continue, clock, resolution
<1>2. Release(Run) /\ run.phase = "none"
  BY <1>1, CommitFacts, RunIsAnActor
<1>3. AsksFit' /\ Settles /\ BoundAlike
  BY <1>1, <1>2, ContinueKeepsAsks DEF BoundAlike
<1>4. TxFits' /\ Covered'
  BY <1>1, <1>2, <1>3, CommitKeepsLocks, RunIsAnActor
<1>5. SendersFit'
  BY <1>1, <1>3, SendersAlike DEF Settles
<1> QED BY <1>3, <1>4, <1>5 DEF IInv

LEMMA StartStep ==
  ASSUME IInv, TypeOK', StartFresh \/ StartNothing PROVE IInv'
<1>1. /\ UNCHANGED <<status, cont, turn, hints, age, answeredBy, reply>> /\ Commit(Run, "start")
  BY DEF StartFresh, StartNothing, rows, clock, resolution
<1>2. Release(Run) /\ run.phase = "none"
  BY <1>1, CommitFacts, RunIsAnActor
<1>3. run.asking = None
  BY <1>2 DEF IInv, AsksFit, RunFits
<1>4. AsksFit' /\ Settles /\ BoundAlike
  <2>1. CASE StartFresh
    <3>1. run'.phase = "running" /\ run'.asking = run.asking
      BY <1>3, <2>1 DEF StartFresh, NoRun
    <3>2. \A a \in Asks : status[a] # "pending"
      BY <1>3, ActorsAssumption DEF IInv, AsksFit, AskAndTurnAgree
    <3>3. \A a \in Asks : ~Owed(a)
      BY <2>1 DEF IInv, AsksFit, EveryOwedHasItsHint, StartFresh, MayStartFresh
    <3>4. \A a \in Asks : ~Held(a)
      BY <2>1, <3>2, <3>3 DEF Held, Live, StartFresh, MayStartFresh
    <3> QED BY <1>1, <3>1, <3>4, SameAsksFit DEF Settles, BoundAlike, Held, Live, Owed, Ended
  <2>2. CASE StartNothing
    <3>1. run' = run
      BY <2>2 DEF StartNothing
    <3> QED BY <1>1, <3>1, SameAsksFit DEF Settles, BoundAlike, Held, Live, Owed, Ended
  <2> QED BY <2>1, <2>2
<1>5. TxFits' /\ Covered'
  BY <1>1, <1>2, <1>4, CommitKeepsLocks, RunIsAnActor
<1>6. SendersFit'
  BY <1>1, SendersAlike
<1> QED BY <1>4, <1>5, <1>6 DEF IInv

LEMMA PublishAskStep ==
  ASSUME IInv, TypeOK', PublishAsk PROVE IInv'
<1>1. /\ UNCHANGED <<age, answeredBy, reply>> /\ Commit(Run, "settle")
  BY DEF PublishAsk, resolution
<1>2. Release(Run)
  BY <1>1 DEF Commit
<1>3. AsksFit' /\ Settles /\ BoundAlike
  BY <1>1, PublishKeepsAsks DEF BoundAlike
<1>4. TxFits' /\ Covered'
  BY <1>1, <1>2, <1>3, CommitKeepsLocks, RunIsAnActor
<1>5. SendersFit'
  BY <1>1, <1>3, SendersAlike DEF Settles
<1> QED BY <1>3, <1>4, <1>5 DEF IInv

LEMMA WithdrawAskStep ==
  ASSUME IInv, TypeOK', NEW kind, WithdrawAsk(kind) PROVE IInv'
<1>1. /\ UNCHANGED <<age, answeredBy, reply>> /\ Commit(Run, kind) /\ run' = NoRun
      /\ CancelLive(Asking) /\ hints' = hints
  BY DEF WithdrawAsk, clock, resolution
<1>2. Release(Run)
  BY <1>1 DEF Commit
<1>3. PICK S \in SUBSET Asks : S = Asking
  BY DEF Asking
<1>4. /\ \A a \in S : Held(a) /\ ~Owed(a)
      /\ \A a \in Asks : status[a] = "pending" => a \in S
  BY <1>3 DEF Asking, IInv, AsksFit, AskAndTurnAgree, LiveIsNotOwed, Held, Live, Owed
<1>5. hints' = hints \ S
  BY <1>1, <1>4 DEF IInv, AsksFit, EveryOwedHasItsHint
<1>6. AsksFit' /\ Settles /\ BoundAlike
  BY <1>1, <1>3, <1>4, <1>5, CancelKeepsAsks DEF BoundAlike
<1>7. TxFits' /\ Covered'
  BY <1>1, <1>2, <1>6, CommitKeepsLocks, RunIsAnActor
<1>8. SendersFit'
  BY <1>1, <1>6, SendersAlike DEF Settles
<1> QED BY <1>6, <1>7, <1>8 DEF IInv

-------------------------------------------------------------------------------
(* The steps that commit nothing.                                          *)

LEMMA IdleStep ==
  ASSUME IInv, TypeOK', UNCHANGED <<status, cont, turn, hints, run, age, answeredBy, reply>>,
         TxFits' /\ Covered'
  PROVE  IInv'
<1>1. AsksFit'
  BY SameAsksFit
<1>2. SendersFit'
  BY SendersAlike
<1> QED BY <1>1, <1>2 DEF IInv

(* A request that has read its ask begins outside every lock.              *)
LEMMA BegunKeepsLocks ==
  ASSUME IInv, NEW p \in Actors, NEW t \in Transactions,
         tx' = [tx EXCEPT ![p] = t], t.stage = "begun", t.kind \in OfOneAsk, ~t.skip,
         UNCHANGED <<status, cont, age, run, rowOf>>,
         \A s \in Submissions : reply[s].ask \in {None, reply'[s].ask},
         t.ask \in Asks, status[t.ask] \in {"open"} \cup Ended,
         t.kind = "expire" => t.at <= age[t.ask],
         t.kind = "answer" => t.carries \in Submissions /\ reply'[t.carries].ask = t.ask,
         t.kind = "presence" => t.carries \in Drafts \cup {None}
  PROVE  TxFits' /\ Covered'
<1>1. TypeOK /\ TxFits /\ Covered
  BY DEF IInv
<1>2. \A q \in Actors : tx'[q] = IF q = p THEN t ELSE tx[q]
  BY <1>1 DEF TypeOK
<1>3. TxFits'
  <2> SUFFICES ASSUME NEW q \in Actors PROVE TxFits!(q)'
    BY DEF TxFits
  <2>1. CASE q = p
    BY <1>2, <2>1 DEF OfOneAsk, OfTheRun
  <2>2. CASE q # p
    <3>1. tx'[q] = tx[q]
      BY <1>2, <2>2
    <3>2. tx[q].kind = "answer" => reply'[tx[q].carries].ask = tx[q].ask
      BY <1>1, ActorsAssumption DEF TxFits, OfOneAsk
    <3> QED BY <1>1, <3>1, <3>2 DEF TxFits
  <2> QED BY <2>1, <2>2
<1>4. Covered'
  <2> SUFFICES ASSUME NEW q \in Actors, tx'[q].stage \in {"rows", "locked"} PROVE Covered!(q)!2'
    BY DEF Covered
  <2>1. tx'[q] = tx[q]
    BY <1>2
  <2> QED BY <1>1, <2>1 DEF Covered, Held, Live, Owed
<1> QED BY <1>3, <1>4

LEMMA BeginAnswerStep ==
  ASSUME IInv, TypeOK', NEW p \in Actors, BeginAnswer(p) PROVE IInv'
<1>1. /\ UNCHANGED <<status, cont, turn, hints, run, age, answeredBy, rowOf>>
      /\ tx[p].stage = "idle"
  BY DEF BeginAnswer, rows, clock, resolution
<1>2. PICK s \in Submissions, a \in Asks :
        /\ status[a] \notin {"absent", "pending"}
        /\ reply[s].ask \in {None, a}
        /\ IF deleted \/ IsReplay(s, a)
             THEN /\ reply' = [reply EXCEPT ![s] =
                                 [ask |-> a, said |-> IF deleted THEN "notFound" ELSE "ok"]]
                  /\ UNCHANGED tx
             ELSE /\ reply' = [reply EXCEPT ![s].ask = a]
                  /\ tx' = [tx EXCEPT ![p] = [NoTx EXCEPT !.kind = "answer", !.stage = "begun",
                                                          !.ask = a, !.carries = s]]
  BY DEF BeginAnswer
<1>3. /\ reply \in [Submissions -> Replies]
      /\ status[a] \in {"open"} \cup Ended
      /\ answeredBy[a] # None => status[a] = "answered"
  BY <1>2 DEF IInv, TypeOK, SendersFit, RepliesFit, Ended
<1>4. AsksFit'
  BY <1>1, SameAsksFit
<1>5. \A t \in Submissions : reply[t].ask \in {None, reply'[t].ask}
  BY <1>2, <1>3 DEF Replies
<1>6. CASE deleted \/ IsReplay(s, a)
  <2>1. TxFits' /\ Covered'
    <3>1. TxFits /\ Covered /\ tx' = tx
      BY <1>2, <1>6 DEF IInv
    <3>2. \A q \in Actors : tx[q].kind = "answer" => reply'[tx[q].carries].ask = tx[q].ask
      BY <1>5, <3>1, ActorsAssumption DEF TxFits, OfOneAsk
    <3>3. TxFits'
      BY <1>1, <3>1, <3>2 DEF TxFits
    <3>4. Covered'
      BY <1>1, <3>1 DEF Covered, Held, Live, Owed
    <3> QED BY <3>3, <3>4
  <2>2. SendersFit'
    <3>1. CASE deleted
      BY <1>1, <1>2, <1>3, <3>1, TellKeepsSenders
    <3>2. CASE ~deleted
      <4>1. answeredBy[a] = s /\ reply' = [reply EXCEPT ![s] = [ask |-> a, said |-> "ok"]]
        BY <1>2, <1>6, <3>2 DEF IsReplay
      <4>2. status[a] = "answered"
        BY <1>3, <4>1, ActorsAssumption
      <4> QED BY <1>1, <1>2, <1>3, <4>1, <4>2, TellKeepsSenders
    <3> QED BY <3>1, <3>2
  <2> QED BY <1>4, <2>1, <2>2 DEF IInv
<1>7. CASE ~(deleted \/ IsReplay(s, a))
  <2>1. PICK t \in Transactions :
          t = [NoTx EXCEPT !.kind = "answer", !.stage = "begun", !.ask = a, !.carries = s]
    BY NoTxFits DEF Transactions, TxKinds
  <2>2. /\ t.kind = "answer" /\ t.stage = "begun" /\ t.ask = a /\ t.carries = s /\ ~t.skip
    BY <2>1 DEF NoTx
  <2>3. tx' = [tx EXCEPT ![p] = t] /\ reply' = [reply EXCEPT ![s].ask = a]
    BY <1>2, <1>7, <2>1
  <2>4. reply'[s].ask = a
    BY <1>3, <2>3 DEF Replies
  <2>5. TxFits' /\ Covered'
    <3>1. /\ t.kind \in OfOneAsk /\ t.kind # "expire" /\ t.kind # "presence"
          /\ t.ask \in Asks /\ status[t.ask] \in {"open"} \cup Ended
          /\ t.carries \in Submissions /\ reply'[t.carries].ask = t.ask
      BY <1>3, <2>2, <2>4 DEF OfOneAsk
    <3>2. UNCHANGED <<status, cont, age, run, rowOf>>
      BY <1>1
    <3> QED BY <1>5, <2>2, <2>3, <3>1, <3>2, BegunKeepsLocks
  <2>6. SendersFit'
    <3>1. reply[s].said \in {"ok", "refused"} => reply[s].ask = a
      BY <1>2, ActorsAssumption DEF IInv, SendersFit, RepliesFit
    <3>2. CASE reply[s].said \in {"ok", "refused"}
      <4>1. reply' = reply
        BY <1>3, <2>3, <3>1, <3>2 DEF Replies
      <4> QED BY <1>1, <4>1, SendersAlike
    <3>3. CASE reply[s].said \notin {"ok", "refused"}
      <4>1. /\ \A q \in Submissions : reply'[q].said = reply[q].said
            /\ \A q \in Submissions \ {s} : reply'[q] = reply[q]
        BY <1>3, <2>3 DEF Replies
      <4>2. RepliesFit'
        <5>1. ASSUME NEW b \in Asks, answeredBy[b] # None
              PROVE  reply'[answeredBy[b]].ask = b
          <6>1. answeredBy[b] \in Submissions /\ reply[answeredBy[b]].ask = b
            BY <5>1 DEF IInv, TypeOK, SendersFit, RepliesFit
          <6> QED BY <1>5, <6>1, ActorsAssumption
        <5>2. ASSUME NEW q \in Submissions, reply'[q].said \in {"ok", "refused"}
              PROVE  reply'[q] = reply[q]
          BY <3>3, <4>1, <5>2
        <5> QED BY <1>1, <5>1, <5>2 DEF RepliesFit, IInv, SendersFit
      <4>3. ToldTheTruth'
        <5> SUFFICES ASSUME NEW q \in Submissions, reply'[q].said \in {"ok", "refused"}
                     PROVE  ToldTheTruth!(q)'
          BY DEF ToldTheTruth
        <5>1. reply'[q] = reply[q]
          BY <3>3, <4>1
        <5> QED BY <1>1, <5>1 DEF ToldTheTruth, IInv, SendersFit
      <4> QED BY <4>2, <4>3 DEF SendersFit
    <3> QED BY <3>2, <3>3
  <2> QED BY <1>4, <2>5, <2>6 DEF IInv
<1> QED BY <1>6, <1>7

LEMMA BeginPresenceStep ==
  ASSUME IInv, TypeOK', NEW p \in Actors, BeginPresence(p) PROVE IInv'
<1>1. UNCHANGED <<status, cont, turn, hints, run, age, answeredBy, rowOf, reply>>
  BY DEF BeginPresence, rows, clock, resolution
<1>2. PICK a \in Asks, d \in Drafts \cup {None} :
        /\ status[a] = "open"
        /\ tx' = [tx EXCEPT ![p] = [NoTx EXCEPT !.kind = "presence", !.stage = "begun",
                                      !.ask = a, !.at = age[a], !.carries = d]]
  BY DEF BeginPresence
<1>3. age[a] \in 0 .. HardLimit
  BY DEF IInv, TypeOK
<1>4. PICK t \in Transactions :
        t = [NoTx EXCEPT !.kind = "presence", !.stage = "begun", !.ask = a, !.at = age[a], !.carries = d]
  BY <1>3, NoTxFits DEF Transactions, TxKinds
<1>5. t.kind = "presence" /\ t.stage = "begun" /\ t.ask = a /\ t.carries = d /\ ~t.skip
  BY <1>4 DEF NoTx
<1>6. \A s \in Submissions : reply[s].ask \in {None, reply'[s].ask}
  BY <1>1
<1>7. TxFits' /\ Covered'
  BY <1>1, <1>2, <1>4, <1>5, <1>6, BegunKeepsLocks DEF OfOneAsk
<1> QED BY <1>1, <1>7, IdleStep

LEMMA BeginExpireStep ==
  ASSUME IInv, TypeOK', NEW p \in Actors, BeginExpire(p) PROVE IInv'
<1>1. UNCHANGED <<status, cont, turn, hints, run, age, answeredBy, rowOf, reply>>
  BY DEF BeginExpire, rows, clock, resolution
<1>2. PICK a \in Asks :
        /\ Due(a)
        /\ tx' = [tx EXCEPT ![p] = [NoTx EXCEPT !.kind = "expire", !.stage = "begun",
                                      !.ask = a, !.at = age[a], !.carries = draft[a]]]
  BY DEF BeginExpire
<1>3. age[a] \in 0 .. HardLimit /\ draft[a] \in Drafts \cup {None}
  BY DEF IInv, TypeOK
<1>4. PICK t \in Transactions :
        t = [NoTx EXCEPT !.kind = "expire", !.stage = "begun", !.ask = a, !.at = age[a], !.carries = draft[a]]
  BY <1>3, NoTxFits DEF Transactions, TxKinds
<1>5. t.kind = "expire" /\ t.stage = "begun" /\ t.ask = a /\ t.at = age[a] /\ ~t.skip
  BY <1>4 DEF NoTx
<1>6. /\ \A s \in Submissions : reply[s].ask \in {None, reply'[s].ask}
      /\ age[a] <= age[a] /\ status[a] = "open"
  BY <1>1, <1>2, <1>3, LimitsAssumption DEF Due
<1>7. TxFits' /\ Covered'
  BY <1>1, <1>2, <1>4, <1>5, <1>6, BegunKeepsLocks DEF OfOneAsk
<1> QED BY <1>1, <1>7, IdleStep

LEMMA EnterStep ==
  ASSUME IInv, TypeOK', NEW p \in Actors, NEW kind \in {"stop", "delete"} \cup OfTheRun,
         NEW skip \in BOOLEAN, Enter(p, kind, skip),
         kind \in OfTheRun => p = Run /\ ~skip,
         kind = "start" => run.phase = "none"
  PROVE  IInv'
<1>1. PICK t \in Transactions : t = [NoTx EXCEPT !.kind = kind, !.skip = skip]
  BY NoTxFits DEF Transactions, TxKinds, OfTheRun
<1>2. t.kind = kind /\ t.skip = skip /\ t.kind \notin OfOneAsk /\ t.kind # "none" /\ t.kind \in TxKinds
  BY <1>1 DEF NoTx, OfOneAsk, OfTheRun, TxKinds
<1>3. TakeRows(p, t)
  BY <1>1 DEF Enter
<1>4. TxFits' /\ Covered'
  BY <1>2, <1>3, TakeRowsKeepsLocks
<1>5. UNCHANGED <<status, cont, turn, hints, run, age, answeredBy, reply>>
  BY <1>3 DEF TakeRows, rows, clock, resolution
<1> QED BY <1>4, <1>5, IdleStep

LEMMA LockRowsStep ==
  ASSUME IInv, TypeOK', NEW p \in Actors, LockRows(p) PROVE IInv'
<1>1. PICK t \in Transactions : t = tx[p]
  BY DEF IInv, TypeOK
<1>2. TakeRows(p, t) /\ t.kind \in OfOneAsk
  BY <1>1 DEF LockRows, IInv, TxFits
<1>3. TxFits' /\ Covered'
  BY <1>1, <1>2, TakeRowsKeepsLocks DEF OfOneAsk, OfTheRun, TxKinds
<1>4. UNCHANGED <<status, cont, turn, hints, run, age, answeredBy, reply>>
  BY <1>2 DEF TakeRows, rows, clock, resolution
<1> QED BY <1>3, <1>4, IdleStep

LEMMA LockThreadStep ==
  ASSUME IInv, TypeOK', NEW p \in Actors, LockThread(p) PROVE IInv'
<1>1. UNCHANGED <<status, cont, turn, hints, run, age, answeredBy, rowOf, reply>>
  BY DEF LockThread, rows, clock, resolution
<1>2. TypeOK /\ TxFits /\ Covered /\ tx[p].stage = "rows"
  BY DEF IInv, LockThread
<1>3. \A q \in Actors :
        /\ tx'[q].kind = tx[q].kind /\ tx'[q].ask = tx[q].ask /\ tx'[q].at = tx[q].at
        /\ tx'[q].carries = tx[q].carries /\ tx'[q].skip = tx[q].skip
        /\ tx'[q].stage = IF q = p THEN "locked" ELSE tx[q].stage
  BY <1>2 DEF LockThread, TypeOK, Transactions
<1>4. TxFits'
  BY <1>1, <1>2, <1>3 DEF TxFits
<1>5. Covered'
  BY <1>1, <1>2, <1>3 DEF Covered, Held, Live, Owed
<1> QED BY <1>1, <1>4, <1>5, IdleStep

LEMMA RequestStep ==
  ASSUME IInv, TypeOK', NEW a \in Asks, Request(a) PROVE IInv'
<1>1. /\ UNCHANGED <<cont, age, answeredBy, reply, tx, rowOf>>
      /\ tx[Run].stage = "idle" /\ status[a] = "absent"
      /\ \A b \in Asks : status'[b] = IF b = a THEN "pending" ELSE status[b]
      /\ run'.phase = run.phase
  BY DEF Request, IInv, TypeOK, clock, resolution, locks
<1>2. AsksFit'
  BY RequestKeepsAsks
<1>3. TxFits'
  <2>1. \A p \in Actors : tx[p].kind \in OfOneAsk => status'[tx[p].ask] = status[tx[p].ask]
    BY <1>1 DEF IInv, TxFits, Ended
  <2> QED BY <1>1, <2>1 DEF IInv, TxFits
<1>4. Covered'
  <2> SUFFICES ASSUME NEW p \in Actors, tx[p].stage \in {"rows", "locked"} PROVE Covered!(p)!2'
    BY <1>1 DEF Covered
  <2>1. tx[p].kind \notin OfTheRun
    BY <1>1 DEF IInv, TxFits
  <2>2. tx[p].kind \in OfOneAsk => status'[tx[p].ask] = status[tx[p].ask]
    BY <1>1 DEF IInv, TxFits, Ended
  <2> QED BY <1>1, <2>1, <2>2 DEF IInv, Covered, Live
<1>5. SendersFit'
  BY <1>1, SendersAlike DEF Ended
<1> QED BY <1>2, <1>3, <1>4, <1>5 DEF IInv

LEMMA TickStep ==
  ASSUME IInv, TypeOK', NEW a \in Asks, Tick(a) PROVE IInv'
<1>1. UNCHANGED <<status, cont, turn, hints, run, answeredBy, reply, tx, rowOf>>
  BY DEF Tick, resolution, locks
<1>2. AsksFit'
  BY <1>1, SameAsksFit
<1>3. \A b \in Asks : age[b] \in Nat /\ age'[b] \in Nat /\ age[b] <= age'[b]
  BY LimitsAssumption DEF Tick, IInv, TypeOK
<1>4. \A p \in Actors : tx[p].at \in Nat
  BY LimitsAssumption DEF IInv, TypeOK, Transactions
<1>5. TxFits'
  <2>1. ASSUME NEW p \in Actors, tx[p].kind = "expire" PROVE tx[p].at <= age'[tx[p].ask]
    <3>1. tx[p].ask \in Asks /\ tx[p].at <= age[tx[p].ask]
      BY <2>1 DEF IInv, TxFits, OfOneAsk
    <3> QED BY <1>3, <1>4, <3>1
  <2> QED BY <1>1, <2>1 DEF IInv, TxFits
<1>6. Covered'
  BY <1>1 DEF IInv, Covered, Held, Live, Owed
<1>7. SendersFit'
  BY <1>1, SendersAlike
<1> QED BY <1>2, <1>5, <1>6, <1>7 DEF IInv

LEMMA FaultStep ==
  ASSUME IInv, TypeOK', Crash \/ \E p \in Actors : Abort(p) PROVE IInv'
<1>1. /\ UNCHANGED <<status, cont, turn, hints, age, answeredBy, reply>>
      /\ run'.asking = run.asking /\ (run'.phase = "none" <=> run.phase = "none")
  BY DEF Crash, Abort, IInv, TypeOK, rows, clock, resolution
<1>2. PICK p \in Actors : Release(p) /\ (p # Run => run' = run)
  BY RunIsAnActor DEF Crash, Abort
<1>3. AsksFit' /\ Settles /\ BoundAlike
  BY <1>1, SameAsksFit DEF Settles, BoundAlike, Held, Live, Owed, Ended
<1>4. TxFits' /\ Covered'
  BY <1>1, <1>2, <1>3, CommitKeepsLocks
<1>5. SendersFit'
  BY <1>1, SendersAlike
<1> QED BY <1>3, <1>4, <1>5 DEF IInv

LEMMA StillStep ==
  ASSUME IInv, TypeOK', Restore \/ UNCHANGED vars PROVE IInv'
<1>1. UNCHANGED <<status, cont, turn, hints, run, age, answeredBy, reply, tx, rowOf>>
  BY DEF Restore, vars, rows, clock, resolution, locks
<1>2. TxFits' /\ Covered'
  BY <1>1 DEF IInv, TxFits, Covered, Held, Live, Owed
<1> QED BY <1>1, <1>2, IdleStep

LEMMA IInvSteps == IInv /\ [Next]_vars => IInv'
<1> SUFFICES ASSUME IInv, [Next]_vars PROVE IInv'
  OBVIOUS
<1>1. TypeOK'
  BY TypeOKSteps DEF IInv
<1>2. ASSUME NEW p \in Actors, WriteOf(p) PROVE IInv'
  BY <1>1, <1>2, ReplayAnswerStep, ResolveAnswerStep, RefuseAnswerStep, RecordPresenceStep,
     ResolveExpiryStep, RefuseExpiryStep, StopOrDeleteStep, ContinueStep, StartStep,
     PublishAskStep, WithdrawAskStep DEF WriteOf
<1>3. ASSUME NEW p \in Actors, Proceed(p) PROVE IInv'
  BY <1>1, <1>2, <1>3, LockRowsStep, LockThreadStep DEF Proceed
<1>4. ASSUME NEW p \in Commands, EnterStop(p) \/ EnterDelete(p) PROVE IInv'
  BY <1>1, <1>4, EnterStep, RunIsAnActor DEF EnterStop, EnterDelete, OfTheRun
<1>5. ASSUME EnterRun PROVE IInv'
  BY <1>1, <1>5, EnterStep, RunIsAnActor DEF EnterRun, EnterStart, EnterSettle, EnterRepair, OfTheRun
<1> QED
  BY <1>1, <1>3, <1>4, <1>5, BeginAnswerStep, BeginPresenceStep, BeginExpireStep, RequestStep, TickStep,
     FaultStep, StillStep, RunIsAnActor DEF Next

(* The inductive invariant holds of every reachable state.                 *)
THEOREM AsksAreConsistent == Spec => []IInv
<1> QED BY IInvHolds, IInvSteps, PTL DEF Spec

(* Every variable keeps its type.                                          *)
THEOREM TypeIsInvariant == Spec => []TypeOK
<1>1. IInv => TypeOK
  BY DEF IInv
<1> QED BY <1>1, AsksAreConsistent, PTL

(* An answer is never left unheard: an owed continuation and its wake hint *)
(* are there together.                                                     *)
THEOREM EveryOwedHasItsHintHolds == Spec => []EveryOwedHasItsHint
<1>1. IInv => EveryOwedHasItsHint
  BY DEF IInv, AsksFit
<1> QED BY <1>1, AsksAreConsistent, PTL

(* The ask and the turn that asked change together.                        *)
THEOREM AskAndTurnAlwaysAgree == Spec => []AskAndTurnAgree
<1>1. IInv => AskAndTurnAgree
  BY DEF IInv, AsksFit
<1> QED BY <1>1, AsksAreConsistent, PTL

(* A chat has at most one ask that is live or owed.                        *)
THEOREM OneAskAtATimeHolds == Spec => []OneAskAtATime
<1>1. IInv => OneAskAtATime
  BY DEF IInv, AsksFit
<1> QED BY <1>1, AsksAreConsistent, PTL

(* Nobody waits for an ask row while it holds the chat's lock.             *)
THEOREM NeverWaitsUnderTheLockHolds == Spec => []NeverWaitsUnderTheLock
<1>1. ASSUME IInv PROVE NeverWaitsUnderTheLock
  <2> SUFFICES ASSUME NEW p \in Actors, tx[p].stage = "locked", NEW a \in Touched(p)
               PROVE  Free(p, a)
    BY DEF NeverWaitsUnderTheLock
  <2>1. Covered /\ TxFits /\ TypeOK
    BY <1>1 DEF IInv
  <2>2. tx[p].kind \in TxKinds
    BY <2>1 DEF TypeOK, Transactions
  <2>3. CASE tx[p].kind \in OfOneAsk
    BY <2>1, <2>3 DEF Touched, Covered, Free, OfOneAsk
  <2>4. CASE tx[p].kind \in OfTheRun
    <3>1. a \in Asks /\ Held(a)
      BY <2>1, <2>4 DEF Touched, OfTheRun, Held, TypeOK
    <3> QED BY <2>1, <2>4, <3>1 DEF Covered, Free
  <2>5. CASE tx[p].kind \notin OfOneAsk \cup OfTheRun
    BY <2>5 DEF Touched, OfOneAsk, OfTheRun
  <2> QED BY <2>3, <2>4, <2>5
<1> QED BY <1>1, AsksAreConsistent, PTL

(* What a sender was told of its submission stays true.                    *)
THEOREM ToldTheTruthHolds == Spec => []ToldTheTruth
<1>1. IInv => ToldTheTruth
  BY DEF IInv, SendersFit
<1> QED BY <1>1, AsksAreConsistent, PTL

(* A timeout comes only after the deadline the row holds, with its draft.  *)
THEOREM TimeoutHonoursPresenceHolds == Spec => TimeoutHonoursPresence
<1> DEFINE Honoured == \A a \in Asks : status[a] # "expired" /\ status'[a] = "expired" =>
                         deadline[a] <= age[a] /\ timedOut'[a] = draft[a]
<1>1. ASSUME IInv, [Next]_vars PROVE [Honoured]_vars
  <2>0. TypeOK /\ TxFits
    BY <1>1 DEF IInv
  <2>1. ASSUME NEW p \in Actors, ResolveExpiry(p) PROVE Honoured
    <3>1. PICK b \in Asks : b = tx[p].ask
      BY <2>0, <2>1 DEF ResolveExpiry, Commit, TxFits, OfOneAsk
    <3>2. /\ status' = [status EXCEPT ![b] = "expired"]
          /\ timedOut' = [timedOut EXCEPT ![b] = draft[b]]
          /\ deadline[b] <= tx[p].at /\ tx[p].at <= age[b]
      BY <2>0, <2>1, <3>1 DEF ResolveExpiry, Commit, ResolveOpen, MayResolve, StillDue, TimeoutDraft, TxFits
    <3>3. tx[p].at \in Nat /\ deadline[b] \in Nat /\ age[b] \in Nat
      BY <2>0, LimitsAssumption DEF TypeOK, Transactions
    <3>4. deadline[b] <= age[b]
      BY <3>2, <3>3
    <3> QED BY <2>0, <3>2, <3>4 DEF TypeOK
  <2>2. ASSUME NEW p \in Actors, WriteOf(p), ~ResolveExpiry(p)
        PROVE  \A a \in Asks : status'[a] = "expired" => status[a] = "expired"
    <3>1. CASE \/ ReplayAnswer(p) \/ RecordPresence(p) \/ StartFresh \/ StartNothing
               \/ \E a \in Asks : Continue(a)
      BY <3>1 DEF ReplayAnswer, RecordPresence, StartFresh, StartNothing, Continue, rows
    <3>2. CASE ResolveAnswer(p)
      BY <2>0, <3>2 DEF ResolveAnswer, ResolveOpen, TypeOK
    <3>3. CASE \/ RefuseAnswer(p) \/ RefuseExpiry(p) \/ Stop(p) \/ Delete(p)
               \/ WithdrawAsk("settle") \/ WithdrawAsk("repair")
      <4>1. PICK S : CancelLive(S)
        BY <3>3 DEF RefuseAnswer, RefuseExpiry, FinishDelete, Stop, Delete, WithdrawAsk
      <4> QED BY <4>1 DEF CancelLive
    <3>4. CASE PublishAsk
      BY <2>0, <3>4 DEF PublishAsk, TypeOK
    <3> QED BY <2>2, <3>1, <3>2, <3>3, <3>4 DEF WriteOf
  <2>3. CASE \A a \in Asks : status'[a] = "expired" => status[a] = "expired"
    BY <2>3
  <2>4. CASE \/ \E p \in Writers : BeginAnswer(p) \/ BeginPresence(p)
             \/ \E p \in Sweeps : BeginExpire(p)
             \/ \E p \in Actors : LockRows(p) \/ LockThread(p) \/ Abort(p)
             \/ \E a \in Asks : Tick(a)
             \/ Restore \/ Crash \/ UNCHANGED vars
    <3>1. status' = status
      BY <2>4 DEF BeginAnswer, BeginPresence, BeginExpire, LockRows, TakeRows, LockThread, Abort, Tick,
                  Restore, Crash, vars, rows
    <3> QED BY <2>3, <3>1
  <2>5. CASE EnterRun \/ \E p \in Commands : EnterStop(p) \/ EnterDelete(p)
    <3>1. status' = status
      BY <2>5 DEF EnterRun, EnterStart, EnterSettle, EnterRepair, EnterStop, EnterDelete, Enter, TakeRows, rows
    <3> QED BY <2>3, <3>1
  <2>6. CASE \E a \in Asks : Request(a)
    BY <2>0, <2>3, <2>6 DEF Request, TypeOK
  <2> QED BY <1>1, <2>1, <2>2, <2>3, <2>4, <2>5, <2>6 DEF Next, Proceed
<1>2. IInv /\ [Next]_vars => [Honoured]_vars
  BY <1>1
<1> QED BY <1>2, AsksAreConsistent, PTL DEF Spec, TimeoutHonoursPresence
===============================================================================
