---------------------------- MODULE ChatQueueProofs ----------------------------
(***************************************************************************)
(* The chat's queue keeps its safety properties for every number of rows.  *)
(***************************************************************************)
EXTENDS ChatQueue, InboxSelectionProofs

(* What holds together: a withdrawn control is known and gone, a control   *)
(* with a turn is off the queue, the one queued switch would change the    *)
(* mode, and an open ask is alone: no reply runs, no Retry is offered, and *)
(* its answer is not in the queue yet.                                     *)
WithdrawnIsGone ==
    \A r \in Rows : told[r] = "withdrawn" =>
        r \in 1 .. count /\ r \notin pending /\ r \notin applied

AppliedIsOff == pending \cap applied = {}

OneSwitch ==
    \A s \in Switches(pending, kind) :
        /\ kind[s] # aiMode
        /\ \A q \in Switches(pending, kind) : q = s

AskStandsAlone ==
    /\ askOpen => phase # "reply" /\ ~retryable /\ Answers(pending, kind) = {}
    /\ phase = "reply" => Answers(pending, kind) = {}
    /\ \A a, b \in Answers(pending, kind) : a = b

IInv ==
    /\ TypeOK
    /\ WithdrawnIsGone
    /\ AppliedIsOff
    /\ OneSwitch
    /\ AskStandsAlone
    /\ DefaultFollowsWriter

-------------------------------------------------------------------------------
(* Rows are naturals, and NoRow is not one of them.                        *)
LEMMA RowsAreNaturals ==
    ASSUME TypeOK
    PROVE  pending \subseteq Nat /\ pending \subseteq Rows /\ NoRow \notin pending
BY QueueConstants DEF TypeOK, Rows, NoRow

(* Two queues with the same switches have the same queued switch, and the  *)
(* chat the same effective mode.                                           *)
LEMMA SameSwitches ==
    ASSUME TypeOK, OneSwitch, aiMode' = aiMode,
           Switches(pending', kind') = Switches(pending, kind),
           \A s \in Switches(pending, kind) : kind'[s] = kind[s]
    PROVE  OneSwitch' /\ EffectiveMode' = EffectiveMode
<1>1. OneSwitch'
  BY DEF OneSwitch
<1>2. Queued' = Queued
  BY DEF Queued, QueuedSwitch
<1>3. Queued = NoRow \/ Queued \in Switches(pending, kind)
  BY RowsAreNaturals, QueuedSwitchIsFirst, NoQueuedSwitch DEF Queued
<1>4. EffectiveMode' = EffectiveMode
  BY <1>2, <1>3 DEF EffectiveMode
<1> QED BY <1>1, <1>4

(* The effective mode, switch or no switch queued.                         *)
LEMMA EffectiveModeIs ==
    ASSUME TypeOK, OneSwitch
    PROVE  /\ Switches(pending, kind) = {} => Queued = NoRow /\ EffectiveMode = aiMode
           /\ \A s \in Switches(pending, kind) :
                 Queued = s /\ Queued # NoRow /\ EffectiveMode = kind[s]
<1>1. Switches(pending, kind) = {} => Queued = NoRow /\ EffectiveMode = aiMode
  BY NoQueuedSwitch DEF Queued, EffectiveMode
<1>2. ASSUME NEW s \in Switches(pending, kind)
      PROVE  Queued = s /\ Queued # NoRow /\ EffectiveMode = kind[s]
  <2>1. Queued \in Switches(pending, kind)
    BY <1>2, RowsAreNaturals, QueuedSwitchIsFirst DEF Queued
  <2>2. Queued = s
    BY <1>2, <2>1 DEF OneSwitch
  <2>3. s # NoRow
    BY <1>2, RowsAreNaturals DEF Switches
  <2> QED BY <2>2, <2>3 DEF EffectiveMode
<1> QED BY <1>1, <1>2

(* A new row that is no switch and no answer changes neither.              *)
LEMMA PlainRow ==
    ASSUME TypeOK, NEW k \in RowKinds, AddRow(k, {})
    PROVE  /\ count' = count + 1 /\ count' \in 0 .. MaxRows /\ count \in Nat
           /\ count + 1 \in Rows /\ count + 1 \notin pending
           /\ kind' \in [Rows -> RowKinds \cup {"absent"}]
           /\ kind'[count + 1] = k
           /\ \A r \in pending : kind'[r] = kind[r]
           /\ pending' = pending \cup {count + 1} /\ pending' \subseteq 1 .. count'
           /\ applied' = applied /\ applied' \subseteq 1 .. count'
           /\ k \notin Modes => Switches(pending', kind') = Switches(pending, kind)
           /\ k # "answer" => Answers(pending', kind') = Answers(pending, kind)
<1>1. /\ count' = count + 1 /\ count' \in 0 .. MaxRows /\ count \in Nat
      /\ count + 1 \in Rows /\ count + 1 \notin pending
  BY QueueConstants DEF AddRow, TypeOK, Rows
<1>2. /\ kind' \in [Rows -> RowKinds \cup {"absent"}]
      /\ kind'[count + 1] = k
      /\ \A r \in pending : kind'[r] = kind[r]
  BY <1>1, RowsAreNaturals DEF AddRow, TypeOK
<1>3. /\ pending' = pending \cup {count + 1} /\ pending' \subseteq 1 .. count'
      /\ applied' = applied /\ applied' \subseteq 1 .. count'
  BY <1>1 DEF AddRow, TypeOK
<1>4. k \notin Modes => Switches(pending', kind') = Switches(pending, kind)
  BY <1>2, <1>3 DEF Switches
<1>5. k # "answer" => Answers(pending', kind') = Answers(pending, kind)
  BY <1>2, <1>3 DEF Answers
<1> QED BY <1>1, <1>2, <1>3, <1>4, <1>5

(* Such a row keeps the invariant when nothing else of it moves.           *)
LEMMA PlainRowKeepsInv ==
    ASSUME IInv, NEW k \in {"message", "notice", "compact"}, AddRow(k, {}),
           UNCHANGED <<modeVars, askOpen, phase, completed, failures, told>>,
           retryable' \in {retryable, FALSE}, waking' \in BOOLEAN, rereading' \in BOOLEAN
    PROVE  IInv'
<1> USE DEF IInv, modeVars
<1>0. k \in RowKinds /\ k \notin Modes /\ k # "answer"
  BY DEF RowKinds, Modes
<1>1. TypeOK'
  BY <1>0, PlainRow DEF TypeOK
<1>2. WithdrawnIsGone'
  BY <1>0, PlainRow DEF WithdrawnIsGone
<1>3. AppliedIsOff'
  BY <1>0, PlainRow DEF AppliedIsOff, TypeOK
<1>4. OneSwitch' /\ EffectiveMode' = EffectiveMode
  <2>1. \A s \in Switches(pending, kind) : kind'[s] = kind[s]
    BY <1>0, PlainRow DEF Switches
  <2> QED BY <1>0, <2>1, PlainRow, SameSwitches
<1>5. AskStandsAlone'
  <2>1. Answers(pending', kind') = Answers(pending, kind)
    BY <1>0, PlainRow
  <2>2. ~retryable => ~retryable'
    OBVIOUS
  <2> QED BY <2>1, <2>2 DEF AskStandsAlone
<1>6. DefaultFollowsWriter'
  BY <1>4 DEF DefaultFollowsWriter
<1> QED BY <1>1, <1>2, <1>3, <1>4, <1>5, <1>6

-------------------------------------------------------------------------------
(* Each action keeps the invariant.                                        *)

(* The empty queue satisfies the invariant.                                *)
LEMMA InitInv == Init => IInv
<1> SUFFICES ASSUME Init PROVE IInv
  OBVIOUS
<1>1. TypeOK
  <2>1. /\ count \in 0 .. MaxRows /\ failures \in 0 .. MaxFailures
        /\ aiMode \in Modes /\ workDefault \in Modes /\ phase \in Phases
    BY QueueConstants DEF Init, Modes, Phases
  <2>2. /\ kind \in [Rows -> RowKinds \cup {"absent"}]
        /\ told \in [Rows -> {"nothing", "withdrawn", "already_started"}]
    BY DEF Init
  <2> QED BY <2>1, <2>2 DEF Init, TypeOK
<1>2. WithdrawnIsGone /\ AppliedIsOff
  BY DEF Init, WithdrawnIsGone, AppliedIsOff
<1>3. Switches(pending, kind) = {} /\ Answers(pending, kind) = {}
  BY DEF Init, Switches, Answers
<1>4. OneSwitch /\ AskStandsAlone
  BY <1>3 DEF Init, OneSwitch, AskStandsAlone
<1>5. DefaultFollowsWriter
  BY <1>1, <1>3, <1>4, EffectiveModeIs DEF Init, DefaultFollowsWriter
<1> QED BY <1>1, <1>2, <1>4, <1>5 DEF IInv

(* A message changes neither the switch nor the ask.                       *)
LEMMA SendMessageKeepsInv == IInv /\ SendMessage => IInv'
<1> SUFFICES ASSUME IInv, SendMessage PROVE IInv'
  OBVIOUS
<1>1. /\ AddRow("message", {})
      /\ UNCHANGED <<modeVars, askOpen, phase, completed, failures, told>>
      /\ retryable' \in {retryable, FALSE} /\ waking' \in BOOLEAN /\ rereading' \in BOOLEAN
  BY DEF SendMessage, IInv, TypeOK
<1> QED BY <1>1, PlainRowKeepsInv

(* Nor does a Work refresh.                                                *)
LEMMA WorkChangedKeepsInv == IInv /\ WorkChanged => IInv'
<1> SUFFICES ASSUME IInv, WorkChanged PROVE IInv'
  OBVIOUS
<1>1. /\ AddRow("notice", {})
      /\ UNCHANGED <<modeVars, askOpen, phase, completed, failures, told>>
      /\ retryable' \in {retryable, FALSE} /\ waking' \in BOOLEAN /\ rereading' \in BOOLEAN
  BY DEF WorkChanged, IInv, TypeOK, replyVars, wakeVars
<1> QED BY <1>1, PlainRowKeepsInv

(* Nor does a request to compact.                                          *)
LEMMA RequestCompactionKeepsInv == IInv /\ RequestCompaction => IInv'
<1> SUFFICES ASSUME IInv, RequestCompaction PROVE IInv'
  OBVIOUS
<1>1. /\ AddRow("compact", {})
      /\ UNCHANGED <<modeVars, askOpen, phase, completed, failures, told>>
      /\ retryable' \in {retryable, FALSE} /\ waking' \in BOOLEAN /\ rereading' \in BOOLEAN
  BY DEF RequestCompaction, IInv, TypeOK, replyVars
<1> QED BY <1>1, PlainRowKeepsInv

(* The answer's row comes when the ask closes, and is the only one.        *)
LEMMA ResolveAskKeepsInv == IInv /\ ResolveAsk => IInv'
<1> SUFFICES ASSUME IInv, ResolveAsk PROVE IInv'
  OBVIOUS
<1> USE DEF IInv, modeVars, replyVars
<1>0. /\ "answer" \in RowKinds /\ "answer" \notin Modes
      /\ AddRow("answer", {}) /\ askOpen /\ askOpen' = FALSE /\ waking' = TRUE
      /\ UNCHANGED <<modeVars, replyVars, rereading, failures, told>>
  BY DEF RowKinds, Modes, ResolveAsk
<1>1. TypeOK'
  BY <1>0, PlainRow DEF TypeOK
<1>2. WithdrawnIsGone'
  BY <1>0, PlainRow DEF WithdrawnIsGone
<1>3. AppliedIsOff'
  BY <1>0, PlainRow DEF AppliedIsOff, TypeOK
<1>4. OneSwitch' /\ EffectiveMode' = EffectiveMode
  <2>1. \A s \in Switches(pending, kind) : kind'[s] = kind[s]
    BY <1>0, PlainRow DEF Switches
  <2> QED BY <1>0, <2>1, PlainRow, SameSwitches
<1>5. AskStandsAlone'
  <2>1. Answers(pending, kind) = {} /\ phase # "reply"
    BY <1>0 DEF AskStandsAlone
  <2>2. Answers(pending', kind') \subseteq {count + 1}
    BY <1>0, <2>1, PlainRow DEF Answers
  <2>3. phase' # "reply" /\ ~askOpen'
    BY <1>0, <2>1
  <2> QED BY <2>2, <2>3 DEF AskStandsAlone
<1>6. DefaultFollowsWriter'
  BY <1>0, <1>4 DEF DefaultFollowsWriter
<1> QED BY <1>1, <1>2, <1>3, <1>4, <1>5, <1>6

(* A switch request: the queue has no switch after it, or the new one, and *)
(* the effective mode is the requested one.                                *)
LEMMA RequestSwitchKeepsInv ==
    ASSUME NEW mode \in Modes, NEW byWriter \in BOOLEAN, IInv, RequestSwitch(mode, byWriter)
    PROVE  IInv'
<1> USE DEF IInv
<1> DEFINE cancels == IF Queued = NoRow \/ EffectiveMode = mode THEN {} ELSE {Queued}
           settles == Queued # NoRow \/ EffectiveMode = mode
           settled == IF settles THEN {count + 1} \cup cancels ELSE {}
           new == count + 1
<1>1. /\ new \in Nat /\ new \in Rows /\ new \notin pending /\ new \notin applied
      /\ count' = new /\ count' \in 0 .. MaxRows /\ count < new
      /\ kind' \in [Rows -> RowKinds \cup {"absent"}] /\ kind'[new] = mode
      /\ \A r \in pending : kind'[r] = kind[r]
      /\ applied' = applied
  <2>1. AddRow(mode, settled) /\ mode \in RowKinds
    BY DEF RequestSwitch, RowKinds
  <2> HIDE DEF settled
  <2>2. new \in Nat /\ new \in Rows /\ new \notin pending /\ new \notin applied
        /\ count' = new /\ count' \in 0 .. MaxRows /\ count < new
    BY <2>1, QueueConstants DEF AddRow, TypeOK, Rows
  <2> QED BY <2>1, <2>2, RowsAreNaturals DEF AddRow, TypeOK
<1>2. pending' = (pending \cup {new}) \ settled
  BY DEF RequestSwitch, AddRow
<1>3. /\ UNCHANGED <<aiMode, askOpen, phase, retryable, completed, waking, rereading>>
      /\ UNCHANGED <<failures, told>>
      /\ workDefault' = IF byWriter THEN mode ELSE workDefault
      /\ agentAsked' = (agentAsked \/ ~byWriter)
  BY DEF RequestSwitch, FollowWriter, replyVars, wakeVars
<1>4. pending' \subseteq pending \cup {new}
  BY <1>2
<1>5. TypeOK'
  <2>1. pending' \subseteq 1 .. count' /\ applied' \subseteq 1 .. count'
    BY <1>1, <1>4 DEF TypeOK
  <2>2. workDefault' \in Modes /\ agentAsked' \in BOOLEAN
    BY <1>3 DEF TypeOK
  <2> QED BY <1>1, <1>3, <2>1, <2>2 DEF TypeOK
<1>6. WithdrawnIsGone' /\ AppliedIsOff'
  BY <1>1, <1>3, <1>4 DEF WithdrawnIsGone, AppliedIsOff, TypeOK
<1>7. Answers(pending', kind') = Answers(pending, kind)
  <2>1. mode # "answer"
    BY DEF Modes
  <2>2. \A r \in Answers(pending, kind) : r # Queued
    <3>1. Queued = NoRow \/ Queued \in Switches(pending, kind)
      BY EffectiveModeIs
    <3>2. \A r \in Answers(pending, kind) : r # NoRow /\ r \notin Switches(pending, kind)
      BY RowsAreNaturals DEF Answers, Switches, Modes
    <3> QED BY <3>1, <3>2
  <2> QED BY <1>1, <1>2, <2>1, <2>2 DEF Answers
<1>8. AskStandsAlone'
  BY <1>3, <1>7 DEF AskStandsAlone
<1>9. OneSwitch' /\ EffectiveMode' = mode
  <2>1. CASE Queued # NoRow /\ EffectiveMode = mode
    <3>1. pending' = pending
      BY <1>1, <1>2, <2>1
    <3>2. Switches(pending', kind') = Switches(pending, kind)
          /\ \A s \in Switches(pending, kind) : kind'[s] = kind[s]
      BY <1>1, <3>1 DEF Switches
    <3> QED BY <1>3, <2>1, <3>2, SameSwitches
  <2>2. CASE Queued # NoRow /\ EffectiveMode # mode
    <3>1. pending' = pending \ {Queued}
      BY <1>1, <1>2, <2>2
    <3>2. Switches(pending, kind) # {} /\ Queued \in Switches(pending, kind)
      BY <2>2, EffectiveModeIs
    <3>3. Switches(pending', kind') = {}
      BY <1>1, <3>1, <3>2 DEF Switches, OneSwitch
    <3>4. aiMode = mode
      <4>1. aiMode \in Modes /\ kind[Queued] \in Modes
        BY <3>2 DEF TypeOK, Switches
      <4>2. kind[Queued] # aiMode /\ kind[Queued] # mode
        BY <2>2, <3>2, EffectiveModeIs DEF OneSwitch
      <4> QED BY <4>1, <4>2 DEF Modes
    <3>5. OneSwitch'
      BY <3>3 DEF OneSwitch
    <3> QED BY <1>3, <1>5, <3>3, <3>4, <3>5, NoQueuedSwitch
            DEF EffectiveMode, Queued, QueuedSwitch, First
  <2>3. CASE Queued = NoRow /\ EffectiveMode = mode
    <3>1. pending' = pending
      BY <1>1, <1>2, <2>3
    <3>2. Switches(pending', kind') = Switches(pending, kind)
          /\ \A s \in Switches(pending, kind) : kind'[s] = kind[s]
      BY <1>1, <3>1 DEF Switches
    <3> QED BY <1>3, <2>3, <3>2, SameSwitches
  <2>4. CASE Queued = NoRow /\ EffectiveMode # mode
    <3>1. pending' = pending \cup {new}
      BY <1>2, <2>4
    <3>2. Switches(pending, kind) = {} /\ aiMode # mode
      BY <2>4, EffectiveModeIs
    <3>3. Switches(pending', kind') = {new}
      BY <1>1, <3>1, <3>2 DEF Switches
    <3>4. OneSwitch'
      BY <1>1, <1>3, <3>2, <3>3 DEF OneSwitch
    <3>5. First({new}) = new
      BY <1>1, FirstIsLeast
    <3>6. Queued' = new /\ new # NoRow
      BY <1>1, <3>3, <3>5 DEF Queued, QueuedSwitch, NoRow, TypeOK
    <3> QED BY <1>1, <3>4, <3>6 DEF EffectiveMode
  <2> QED BY <2>1, <2>2, <2>3, <2>4
<1>10. DefaultFollowsWriter'
  <2> SUFFICES ASSUME ~agentAsked' PROVE workDefault' = EffectiveMode'
    BY DEF DefaultFollowsWriter
  <2>1. byWriter
    BY <1>3
  <2> QED BY <1>3, <1>9, <2>1
<1> QED BY <1>5, <1>6, <1>8, <1>9, <1>10

(* Whatever leaves the queue and the modes alone keeps the rest.           *)
LEMMA SameQueueKeepsInv ==
    ASSUME IInv, UNCHANGED <<queueVars, modeVars, told>>, TypeOK', AskStandsAlone'
    PROVE  IInv'
<1>1. /\ UNCHANGED <<count, kind, pending, applied, aiMode, workDefault, agentAsked, told>>
      /\ TypeOK /\ WithdrawnIsGone /\ AppliedIsOff /\ OneSwitch /\ DefaultFollowsWriter
  BY DEF queueVars, modeVars, IInv
<1>2. WithdrawnIsGone' /\ AppliedIsOff'
  BY <1>1 DEF WithdrawnIsGone, AppliedIsOff
<1>3. OneSwitch' /\ EffectiveMode' = EffectiveMode
  BY <1>1, SameSwitches
<1>4. DefaultFollowsWriter'
  BY <1>1, <1>3 DEF DefaultFollowsWriter
<1> QED BY <1>2, <1>3, <1>4 DEF IInv

(* Cancelling the turn that asked drops the ask and adds no row.           *)
LEMMA CancelAskKeepsInv == IInv /\ CancelAsk => IInv'
<1> SUFFICES ASSUME IInv, CancelAsk PROVE IInv'
  OBVIOUS
<1>1. /\ askOpen' = FALSE
      /\ UNCHANGED <<queueVars, modeVars, told>>
      /\ UNCHANGED <<count, kind, pending, applied, aiMode, workDefault, agentAsked, phase,
                     retryable, completed, waking, rereading, failures, told>>
  BY DEF CancelAsk, queueVars, modeVars, replyVars, wakeVars
<1>2. TypeOK'
  BY <1>1 DEF IInv, TypeOK
<1>3. AskStandsAlone'
  BY <1>1 DEF IInv, AskStandsAlone
<1> QED BY <1>1, <1>2, <1>3, SameQueueKeepsInv

(* The steps around a run's start and the wakes: only the claim's phase    *)
(* and the wakes move, and no reply begins.                                *)
LEMMA WakeStepKeepsInv ==
    ASSUME IInv, UNCHANGED <<queueVars, modeVars, askOpen, retryable, completed, told>>,
           phase' \in Phases, phase' = "reply" => phase = "reply",
           waking' \in BOOLEAN, rereading' \in BOOLEAN, failures' \in 0 .. MaxFailures
    PROVE  IInv'
<1>1. UNCHANGED <<count, kind, pending, applied, aiMode, workDefault, agentAsked>>
      /\ UNCHANGED <<queueVars, modeVars, told>>
  BY DEF queueVars, modeVars
<1>2. TypeOK'
  BY <1>1 DEF IInv, TypeOK
<1>3. AskStandsAlone'
  BY <1>1 DEF IInv, AskStandsAlone
<1> QED BY <1>1, <1>2, <1>3, SameQueueKeepsInv

(* A wake that claims the chat leaves the queue alone.                     *)
LEMMA StartKeepsInv == IInv /\ Start => IInv'
<1> SUFFICES ASSUME IInv, Start PROVE IInv'
  OBVIOUS
<1>1. phase' \in Phases /\ (phase' = "reply" => phase = "reply")
  BY DEF Start, IInv, TypeOK, Phases
<1>2. waking' \in BOOLEAN /\ rereading' \in BOOLEAN /\ failures' \in 0 .. MaxFailures
  BY DEF Start, IInv, TypeOK
<1> QED BY <1>1, <1>2, WakeStepKeepsInv DEF Start

(* Retry claims the chat only while no ask is open.                        *)
LEMMA RetryReplyKeepsInv == IInv /\ RetryReply => IInv'
<1> SUFFICES ASSUME IInv, RetryReply PROVE IInv'
  OBVIOUS
<1>1. phase' \in Phases /\ (phase' = "reply" => phase = "reply")
  BY DEF RetryReply, Phases
<1>2. waking' \in BOOLEAN /\ rereading' \in BOOLEAN /\ failures' \in 0 .. MaxFailures
  BY DEF RetryReply, IInv, TypeOK, wakeVars
<1> QED BY <1>1, <1>2, WakeStepKeepsInv DEF RetryReply

(* A setup that finds nothing releases the claim.                          *)
LEMMA StartsNothingKeepsInv == IInv /\ StartsNothing => IInv'
<1> SUFFICES ASSUME IInv, StartsNothing PROVE IInv'
  OBVIOUS
<1>1. phase' \in Phases /\ (phase' = "reply" => phase = "reply")
  BY DEF StartsNothing, Phases
<1>2. waking' \in BOOLEAN /\ rereading' \in BOOLEAN /\ failures' \in 0 .. MaxFailures
  BY DEF StartsNothing, IInv, TypeOK
<1> QED BY <1>1, <1>2, WakeStepKeepsInv DEF StartsNothing

(* So does one that fails.                                                 *)
LEMMA SetupFailsKeepsInv == IInv /\ SetupFails => IInv'
<1> SUFFICES ASSUME IInv, SetupFails PROVE IInv'
  OBVIOUS
<1>1. phase' \in Phases /\ (phase' = "reply" => phase = "reply")
  BY DEF SetupFails, Phases
<1>2. failures' \in 0 .. MaxFailures
  BY QueueConstants DEF SetupFails, IInv, TypeOK
<1>3. waking' \in BOOLEAN /\ rereading' \in BOOLEAN
  BY DEF SetupFails, IInv, TypeOK
<1> QED BY <1>1, <1>2, <1>3, WakeStepKeepsInv DEF SetupFails

(* A reread only schedules a start.                                        *)
LEMMA WakeIfRunnableKeepsInv == IInv /\ WakeIfRunnable => IInv'
<1> SUFFICES ASSUME IInv, WakeIfRunnable PROVE IInv'
  OBVIOUS
<1>1. phase' \in Phases /\ (phase' = "reply" => phase = "reply")
  BY DEF WakeIfRunnable, IInv, TypeOK, replyVars
<1>2. waking' \in BOOLEAN /\ rereading' \in BOOLEAN /\ failures' \in 0 .. MaxFailures
  BY DEF WakeIfRunnable, IInv, TypeOK
<1> QED BY <1>1, <1>2, WakeStepKeepsInv DEF WakeIfRunnable, replyVars

(* So does the sweep.                                                      *)
LEMMA SweepWakesKeepsInv == IInv /\ SweepWakes => IInv'
<1> SUFFICES ASSUME IInv, SweepWakes PROVE IInv'
  OBVIOUS
<1>1. phase' \in Phases /\ (phase' = "reply" => phase = "reply")
  BY DEF SweepWakes, IInv, TypeOK, replyVars
<1>2. waking' \in BOOLEAN /\ rereading' \in BOOLEAN /\ failures' \in 0 .. MaxFailures
  BY DEF SweepWakes, IInv, TypeOK
<1> QED BY <1>1, <1>2, WakeStepKeepsInv DEF SweepWakes, replyVars

(* A reply ends: no answer is queued while it runs, so an ask it opens     *)
(* stands alone.                                                           *)
LEMMA EndReplyKeepsInv ==
    ASSUME NEW outcome \in Outcomes, IInv, EndReply(outcome)
    PROVE  IInv'
<1>1. UNCHANGED <<count, kind, pending, applied, aiMode, workDefault, agentAsked, waking, told>>
      /\ UNCHANGED <<queueVars, modeVars, told>>
  BY DEF EndReply, queueVars, modeVars
<1>2. failures' \in 0 .. MaxFailures
  BY QueueConstants DEF EndReply, IInv, TypeOK
<1>3. TypeOK'
  BY <1>1, <1>2 DEF EndReply, IInv, TypeOK, Phases
<1>4. /\ phase' = "idle" /\ phase = "reply"
      /\ askOpen' => ~retryable'
  BY DEF EndReply
<1>5. AskStandsAlone'
  BY <1>1, <1>4 DEF IInv, AskStandsAlone
<1> QED BY <1>1, <1>3, <1>5, SameQueueKeepsInv

(* A withdrawal takes a pending control off the queue and gives the Work's *)
(* default back to the mode that is left.                                  *)
LEMMA WithdrawKeepsInv ==
    ASSUME NEW r \in Rows, IInv, Withdraw(r)
    PROVE  IInv'
<1> USE DEF IInv
<1>1. /\ r \in 1 .. count /\ kind[r] \in {"compact"} \cup Modes
      /\ told' = [told EXCEPT ![r] = IF r \in applied THEN "already_started" ELSE "withdrawn"]
      /\ pending' = IF r \in applied THEN pending ELSE pending \ {r}
      /\ workDefault' = IF r \in pending \ applied /\ kind[r] \in Modes THEN aiMode ELSE workDefault
      /\ UNCHANGED <<count, kind, applied, aiMode, agentAsked, askOpen, phase, retryable,
                     completed, waking, rereading, failures>>
  BY DEF Withdraw, replyVars, wakeVars, Rows, TypeOK
<1>2. TypeOK'
  BY <1>1 DEF TypeOK
<1>3. WithdrawnIsGone'
  BY <1>1 DEF WithdrawnIsGone, TypeOK
<1>4. AppliedIsOff'
  BY <1>1 DEF AppliedIsOff
<1>5. Answers(pending', kind') = Answers(pending, kind)
  BY <1>1 DEF Answers, Modes
<1>6. AskStandsAlone'
  BY <1>1, <1>5 DEF AskStandsAlone
<1>7. OneSwitch' /\ DefaultFollowsWriter'
  <2>1. CASE r \in pending /\ kind[r] \in Modes
    <3>1. r \in Switches(pending, kind) /\ r \notin applied
      BY <2>1 DEF Switches, AppliedIsOff
    <3>2. Switches(pending', kind') = {}
      BY <1>1, <3>1 DEF Switches, OneSwitch
    <3>3. OneSwitch'
      BY <3>2 DEF OneSwitch
    <3>4. EffectiveMode' = aiMode'
      BY <3>2, NoQueuedSwitch DEF EffectiveMode, Queued, QueuedSwitch, First
    <3> QED BY <1>1, <2>1, <3>1, <3>3, <3>4 DEF DefaultFollowsWriter
  <2>2. CASE ~(r \in pending /\ kind[r] \in Modes)
    <3>1. Switches(pending', kind') = Switches(pending, kind)
      BY <1>1, <2>2 DEF Switches
    <3>2. OneSwitch' /\ EffectiveMode' = EffectiveMode
      BY <1>1, <3>1, SameSwitches
    <3>3. workDefault' = workDefault
      BY <1>1, <2>2
    <3> QED BY <1>1, <3>2, <3>3 DEF DefaultFollowsWriter
  <2> QED BY <2>1, <2>2
<1> QED BY <1>2, <1>3, <1>4, <1>6, <1>7

(* A boundary takes on rows in front of the switch, never the switch.      *)
LEMMA BoundaryKeepsInv == IInv /\ Boundary => IInv'
<1> SUFFICES ASSUME IInv, Boundary PROVE IInv'
  OBVIOUS
<1> USE DEF IInv
<1> DEFINE rows == NextAtBoundary(pending, kind).rows
<1>1. /\ pending' = pending \ rows
      /\ UNCHANGED <<count, kind, applied, aiMode, workDefault, agentAsked, askOpen, phase,
                     retryable, completed, waking, rereading, failures, told>>
  BY DEF Boundary, modeVars, replyVars, wakeVars
<1>2. rows \subseteq Adoptable(pending, kind)
  BY RowsAreNaturals, BoundaryFits
<1> HIDE DEF rows
<1>3. /\ Switches(pending', kind') = Switches(pending, kind)
      /\ Answers(pending', kind') = Answers(pending, kind)
  BY <1>1, <1>2 DEF Switches, Answers, Adoptable, Modes
<1>4. TypeOK' /\ WithdrawnIsGone' /\ AppliedIsOff'
  BY <1>1 DEF TypeOK, WithdrawnIsGone, AppliedIsOff
<1>5. AskStandsAlone'
  BY <1>1, <1>3 DEF AskStandsAlone
<1>6. OneSwitch' /\ EffectiveMode' = EffectiveMode
  BY <1>1, <1>3, SameSwitches
<1>7. DefaultFollowsWriter'
  BY <1>1, <1>6 DEF DefaultFollowsWriter
<1> QED BY <1>4, <1>5, <1>6, <1>7

(* What a run start takes: the due switch is the only one, the control is  *)
(* a compaction or an answer, and every message taken on is in front of    *)
(* the switches that stay queued.                                          *)
LEMMA RunStartTakes ==
    ASSUME IInv, NEW retry \in BOOLEAN
    PROVE  LET controls == {Chosen(retry).control} \ {NoRow}
               rest == pending \ Due(retry)
           IN  /\ Due(retry) = {} \/ Due(retry) = Switches(pending, kind)
               /\ Due(retry) # {} => Answers(pending, kind) = {} /\ Due(retry) = {Queued}
               /\ Chosen(retry).kind # "switch"
               /\ controls \subseteq pending
               /\ \A c \in controls : kind[c] \in {"compact", "answer"}
               /\ Chosen(retry).rows \subseteq Adoptable(pending, kind)
               /\ \A r \in Messages(Chosen(retry).rows, kind), s \in Switches(rest, kind) : r < s
               /\ Answers(pending, kind) \subseteq controls
<1> USE DEF IInv
<1> DEFINE controls == {Chosen(retry).control} \ {NoRow}
           rest == pending \ Due(retry)
           first == NextAtRunStart(EligibleWith(pending), kind, retry)
           chosen == Chosen(retry)
<1>1. /\ EligibleWith(pending) \in {{}, pending} /\ EligibleWith(rest) \in {{}, rest}
      /\ EligibleWith(pending) \subseteq Nat /\ EligibleWith(rest) \subseteq Nat
  BY RowsAreNaturals DEF EligibleWith
<1>2. SelectionFits(first, EligibleWith(pending), kind)
  BY <1>1, RunStartFits
<1>3. SelectionFits(chosen, EligibleWith(rest), kind)
  BY <1>1, RunStartFits DEF Chosen
<1>4. Due(retry) = IF first.kind = "switch" THEN {first.control} ELSE {}
  BY DEF Due
<1> HIDE DEF first, chosen
<1>5. CASE first.kind = "switch"
  <2>1. /\ Switches(EligibleWith(pending), kind) # {}
        /\ Answers(EligibleWith(pending), kind) = {}
        /\ first.control = QueuedSwitch(EligibleWith(pending), kind)
    BY <1>2, <1>5 DEF SelectionFits, ApplySwitch
  <2>2. EligibleWith(pending) = pending
    BY <1>1, <2>1 DEF Switches
  <2>3. Due(retry) = {Queued} /\ Answers(pending, kind) = {} /\ Switches(pending, kind) # {}
    BY <1>4, <1>5, <2>1, <2>2 DEF Queued
  <2>4. Due(retry) = Switches(pending, kind)
    BY <2>3, EffectiveModeIs DEF OneSwitch
  <2>5. Switches(rest, kind) = {} /\ Switches(EligibleWith(rest), kind) = {}
    BY <1>1, <2>4 DEF Switches
  <2>6. chosen.kind # "switch"
    BY <1>3, <2>5 DEF SelectionFits
  <2>7. controls \subseteq pending /\ \A c \in controls : kind[c] \in {"compact", "answer"}
    BY <1>1, <1>3, <2>6 DEF SelectionFits, chosen
  <2>8. chosen.rows \subseteq Adoptable(pending, kind)
    BY <1>1, <1>3 DEF SelectionFits, Adoptable
  <2> QED BY <2>3, <2>4, <2>5, <2>6, <2>7, <2>8 DEF chosen
<1>6. CASE first.kind # "switch"
  <2>1. Due(retry) = {} /\ rest = pending /\ chosen = first
    BY <1>4, <1>6 DEF Chosen, chosen, first
  <2>2. controls \subseteq pending /\ \A c \in controls : kind[c] \in {"compact", "answer"}
    BY <1>1, <1>3, <1>6, <2>1 DEF SelectionFits, chosen
  <2>3. chosen.rows \subseteq Adoptable(pending, kind)
    BY <1>1, <1>3, <2>1 DEF SelectionFits, Adoptable
  <2>4. \A r \in Messages(chosen.rows, kind), s \in Switches(rest, kind) : r < s
    <3>1. CASE EligibleWith(rest) = rest
      BY <1>3, <3>1 DEF SelectionFits
    <3>2. CASE EligibleWith(rest) = {}
      BY <1>3, <3>2 DEF SelectionFits, Adoptable, Messages
    <3> QED BY <1>1, <3>1, <3>2
  <2>5. Answers(pending, kind) \subseteq controls
    <3>1. SUFFICES ASSUME NEW a \in Answers(pending, kind) PROVE a \in controls
      OBVIOUS
    <3>2. EligibleWith(rest) = pending
      BY <2>1, <3>1 DEF EligibleWith
    <3>3. chosen.control \in Answers(pending, kind)
      BY <1>3, <3>1, <3>2 DEF SelectionFits
    <3>4. chosen.control = a /\ a # NoRow
      BY <3>1, <3>3, RowsAreNaturals DEF AskStandsAlone, Answers
    <3> QED BY <3>4 DEF chosen
  <2> QED BY <1>6, <2>1, <2>2, <2>3, <2>4, <2>5 DEF chosen
<1> QED BY <1>5, <1>6

(* The transaction that reserves a reply: the due switch, the control and  *)
(* the adopted rows leave the queue together, the answer among them.       *)
LEMMA ReserveKeepsInv == IInv /\ Reserve => IInv'
<1> SUFFICES ASSUME IInv, Reserve PROVE IInv'
  OBVIOUS
<1> USE DEF IInv
<1> DEFINE retry == phase = "retrySetup"
           due == Due(retry)
           controls == {Chosen(retry).control} \ {NoRow}
           rows == Chosen(retry).rows
           gone == due \cup controls \cup rows
<1>0. retry \in BOOLEAN
  OBVIOUS
<1>1. /\ phase \in {"setup", "retrySetup"}
      /\ IF retry THEN retryable ELSE Chosen(retry).kind # "none"
      /\ pending' = pending \ gone
      /\ applied' = applied \cup due \cup {c \in controls : kind[c] = "compact"}
      /\ aiMode' = IF due = {} THEN aiMode ELSE kind[CHOOSE s \in due : TRUE]
      /\ phase' = "reply" /\ retryable' = FALSE
      /\ UNCHANGED <<count, kind, workDefault, agentAsked, askOpen, completed, waking,
                     rereading, failures, told>>
  BY DEF Reserve, wakeVars
<1>2. /\ due = {} \/ due = Switches(pending, kind)
      /\ due # {} => due = {Queued}
      /\ controls \subseteq pending /\ \A c \in controls : kind[c] \in {"compact", "answer"}
      /\ rows \subseteq Adoptable(pending, kind)
      /\ Answers(pending, kind) \subseteq controls
  BY <1>0, RunStartTakes
<1>3. retry = FALSE => Chosen(retry).kind # "none"
  BY <1>1
<1>4. askOpen = FALSE
  <2>1. CASE retry
    BY <1>1, <2>1 DEF AskStandsAlone, TypeOK
  <2>2. CASE ~retry
    <3>1. SUFFICES ASSUME askOpen PROVE FALSE
      BY DEF TypeOK
    <3>2. Answers(pending, kind) = {} /\ Answers(pending \ due, kind) = {}
      BY <3>1 DEF AskStandsAlone, Answers
    <3>3. EligibleWith(pending \ due) = {}
      BY <3>1, <3>2 DEF EligibleWith
    <3>4. Chosen(retry) = NextAtRunStart({}, kind, FALSE)
      BY <2>2, <3>3 DEF Chosen
    <3>5. NextAtRunStart({}, kind, FALSE).kind = "none"
      BY RunStartFindsNothing
    <3> QED BY <1>3, <2>2, <3>4, <3>5
  <2> QED BY <2>1, <2>2
<1>5. due \subseteq pending /\ gone \subseteq pending
  BY <1>2 DEF Switches, Adoptable
<1> HIDE DEF due, controls, rows, retry
<1>6. TypeOK'
  <2>1. aiMode' \in Modes
    <3>1. CASE due = {}
      BY <1>1, <3>1 DEF TypeOK
    <3>2. CASE due # {}
      <4>1. (CHOOSE s \in due : TRUE) \in due
        BY <3>2
      <4> QED BY <1>1, <1>2, <3>2, <4>1 DEF Switches
    <3> QED BY <3>1, <3>2
  <2>2. pending' \subseteq 1 .. count' /\ applied' \subseteq 1 .. count'
    BY <1>1, <1>2, <1>5 DEF TypeOK
  <2> QED BY <1>1, <2>1, <2>2 DEF TypeOK, Phases
<1>7. WithdrawnIsGone'
  BY <1>1, <1>2, <1>5 DEF WithdrawnIsGone
<1>8. AppliedIsOff'
  BY <1>1 DEF AppliedIsOff
<1>9. Answers(pending', kind') = {}
  BY <1>1, <1>2 DEF Answers
<1>10. AskStandsAlone'
  BY <1>1, <1>4, <1>9 DEF AskStandsAlone
<1>11. OneSwitch' /\ EffectiveMode' = EffectiveMode
  <2>1. CASE due = {}
    <3>1. Switches(pending', kind') = Switches(pending, kind)
      BY <1>1, <1>2, <2>1 DEF Switches, Adoptable, Modes
    <3> QED BY <1>1, <2>1, <3>1, SameSwitches
  <2>2. CASE due # {}
    <3>1. due = Switches(pending, kind) /\ due = {Queued}
      BY <1>2, <2>2
    <3>2. Switches(pending', kind') = {}
      BY <1>1, <3>1 DEF Switches
    <3>3. aiMode' = kind[Queued] /\ kind[Queued] = EffectiveMode
      BY <1>1, <2>2, <3>1, EffectiveModeIs
    <3>4. EffectiveMode' = aiMode' /\ OneSwitch'
      BY <3>2, NoQueuedSwitch DEF EffectiveMode, Queued, QueuedSwitch, First, OneSwitch
    <3> QED BY <3>3, <3>4
  <2> QED BY <2>1, <2>2
<1>12. DefaultFollowsWriter'
  BY <1>1, <1>11 DEF DefaultFollowsWriter
<1> QED BY <1>6, <1>7, <1>8, <1>10, <1>11, <1>12

-------------------------------------------------------------------------------
(* Every step keeps the invariant.                                         *)
LEMMA NextKeepsInv == IInv /\ [Next]_vars => IInv'
<1> SUFFICES ASSUME IInv, [Next]_vars PROVE IInv'
  OBVIOUS
<1>1. CASE UNCHANGED vars
  <2>1. UNCHANGED <<queueVars, modeVars, askOpen, replyVars, wakeVars, failures, told>>
    BY <1>1 DEF vars
  <2>2. TypeOK' /\ AskStandsAlone'
    BY <2>1 DEF IInv, TypeOK, AskStandsAlone, queueVars, modeVars, replyVars, wakeVars
  <2> QED BY <2>1, <2>2, SameQueueKeepsInv
<1>2. CASE Command
  BY <1>2, SendMessageKeepsInv, WorkChangedKeepsInv, RequestCompactionKeepsInv,
     RequestSwitchKeepsInv, WithdrawKeepsInv, ResolveAskKeepsInv, CancelAskKeepsInv,
     RetryReplyKeepsInv DEF Command
<1>3. CASE Start \/ Reserve \/ StartsNothing \/ SetupFails
  BY <1>3, StartKeepsInv, ReserveKeepsInv, StartsNothingKeepsInv, SetupFailsKeepsInv
<1>4. CASE Boundary \/ \E outcome \in Outcomes : EndReply(outcome)
  BY <1>4, BoundaryKeepsInv, EndReplyKeepsInv
<1>5. CASE WakeIfRunnable \/ SweepWakes
  BY <1>5, WakeIfRunnableKeepsInv, SweepWakesKeepsInv
<1> QED BY <1>1, <1>2, <1>3, <1>4, <1>5 DEF Next

(* The invariant holds of every behaviour.                                 *)
LEMMA InvHolds == Spec => []IInv
BY InitInv, NextKeepsInv, PTL DEF Spec

(* The variables keep their types: every row, mode and phase is one the    *)
(* code knows.                                                             *)
THEOREM TypeIsInvariant == Spec => []TypeOK
<1>1. IInv => TypeOK
  BY DEF IInv
<1> QED BY <1>1, InvHolds, PTL

(* A control whose withdrawal was confirmed never gets a turn, in every    *)
(* order of withdrawals, switches and run starts.                          *)
THEOREM WithdrawnStaysOutIsInvariant == Spec => []WithdrawnStaysOut
<1>1. IInv => WithdrawnStaysOut
  BY DEF IInv, WithdrawnIsGone, WithdrawnStaysOut
<1> QED BY <1>1, InvHolds, PTL

(* The Work's default follows the writer's requests.                       *)
THEOREM DefaultFollowsWriterIsInvariant == Spec => []DefaultFollowsWriter
<1>1. IInv => DefaultFollowsWriter
  BY DEF IInv
<1> QED BY <1>1, InvHolds, PTL

(* The sweep's SQL finds a chat exactly when a run start finds work in it. *)
THEOREM SweepMeetsWorkIsInvariant == Spec => []SweepMeetsWork
<1>1. ASSUME IInv PROVE SweepMeetsWork
  <2> USE <1>1 DEF IInv
  <2>1. CASE askOpen
    <3>1. EligibleWith(pending) = {}
      BY <2>1 DEF EligibleWith, AskStandsAlone
    <3>2. NextAtRunStart({}, kind, FALSE).kind = "none"
      BY RunStartFindsNothing
    <3> QED BY <2>1, <3>1, <3>2 DEF SweepMeetsWork, SweepFinds
  <2>2. CASE ~askOpen
    <3>1. EligibleWith(pending) = pending
      BY <2>2 DEF EligibleWith
    <3>2. NextAtRunStart(pending, kind, FALSE).kind = "none" <=>
            \A r \in pending : kind[r] \notin {"message", "compact", "answer"}
      BY RowsAreNaturals, RunStartFindsNothing
    <3> QED BY <2>2, <3>1, <3>2 DEF SweepMeetsWork, SweepFinds
  <2> QED BY <2>1, <2>2
<1> QED BY <1>1, InvHolds, PTL

(* A switch that a wake applies is followed by a run.                      *)
THEOREM SwitchStartsARunIsInvariant == Spec => []SwitchStartsARun
<1>1. ASSUME IInv PROVE SwitchStartsARun
  <2> USE <1>1 DEF IInv
  <2> DEFINE first == NextAtRunStart(EligibleWith(pending), kind, FALSE)
             rest == pending \ Due(FALSE)
  <2> SUFFICES ASSUME Due(FALSE) # {} PROVE Chosen(FALSE).kind \in {"batch", "control"}
    BY DEF SwitchStartsARun
  <2>1. /\ Due(FALSE) = Switches(pending, kind) /\ Answers(pending, kind) = {}
        /\ Chosen(FALSE).kind # "switch" /\ first.kind = "switch"
    BY RunStartTakes DEF Due
  <2>2. PICK r \in EligibleWith(pending) : kind[r] \in {"message", "compact", "answer"}
    <3>1. EligibleWith(pending) \subseteq Nat
      BY RowsAreNaturals DEF EligibleWith
    <3> HIDE DEF first
    <3>2. first.kind # "none"
      BY <2>1
    <3> QED BY <3>1, <3>2, RunStartFindsNothing DEF first
  <2>3. ~askOpen /\ r \in pending
    BY <2>1, <2>2 DEF EligibleWith, TypeOK
  <2>4. r \in rest /\ EligibleWith(rest) = rest /\ rest \subseteq Nat
    BY <2>1, <2>2, <2>3, RowsAreNaturals DEF EligibleWith, Switches, Modes
  <2>5. Chosen(FALSE) = NextAtRunStart(rest, kind, FALSE)
    BY <2>4 DEF Chosen
  <2>6. Chosen(FALSE).kind # "none"
    <3> HIDE DEF rest
    <3>1. NextAtRunStart(rest, kind, FALSE).kind # "none"
      BY <2>2, <2>4, RunStartFindsNothing
    <3> QED BY <2>5, <3>1
  <2>7. SelectionFits(Chosen(FALSE), rest, kind)
    BY <2>4, <2>5, RunStartFits
  <2> QED BY <2>1, <2>6, <2>7 DEF SelectionFits
<1> QED BY <1>1, InvHolds, PTL

(* A reply that yields meets its switch at the next start.                 *)
THEOREM YieldMeetsSwitchIsInvariant == Spec => []YieldMeetsSwitch
<1>1. YieldMeetsSwitch
  <2> SUFFICES ASSUME NextAtBoundary(pending, kind).kind = "yield"
               PROVE  NextAtRunStart(pending, kind, FALSE) = ApplySwitch(Queued)
    BY DEF YieldMeetsSwitch
  <2>1. Answers(pending, kind) = {} /\ SwitchIsDue(pending, kind)
    BY DEF NextAtBoundary, NothingToDo, Batch
  <2> QED BY <2>1 DEF NextAtRunStart, Queued
<1> QED BY <1>1, PTL

(* A message that leaves the queue, at a run start or at a boundary, does  *)
(* not cross a switch.                                                     *)
Crossing ==
    \A r \in Messages(pending, kind) \ pending' : \A s \in Switches(pending, kind) :
        s < r => s \in applied' /\ aiMode' = kind[s]

(* A run start applies the due switch before it takes on what waited for it. *)
LEMMA ReserveCrossesNothing == IInv /\ Reserve => Crossing
<1> SUFFICES ASSUME IInv, Reserve,
                    NEW r \in Messages(pending, kind) \ pending',
                    NEW s \in Switches(pending, kind), s < r
             PROVE  s \in applied' /\ aiMode' = kind[s]
  BY DEF Crossing
<1> DEFINE retry == phase = "retrySetup"
           due == Due(retry)
           controls == {Chosen(retry).control} \ {NoRow}
           rows == Chosen(retry).rows
<1>0. retry \in BOOLEAN
  OBVIOUS
<1>1. /\ pending' = pending \ (due \cup controls \cup rows)
      /\ applied' = applied \cup due \cup {c \in controls : kind[c] = "compact"}
      /\ aiMode' = IF due = {} THEN aiMode ELSE kind[CHOOSE x \in due : TRUE]
  BY DEF Reserve
<1>2. /\ due = {} \/ due = Switches(pending, kind)
      /\ due # {} => due = {Queued}
      /\ \A c \in controls : kind[c] \in {"compact", "answer"}
      /\ \A x \in Messages(rows, kind), y \in Switches(pending \ due, kind) : x < y
  BY <1>0, RunStartTakes
<1> HIDE DEF retry, due, controls, rows
<1>3. r \in Messages(rows, kind)
  BY <1>1, <1>2 DEF Messages, Switches, Modes
<1>4. s \in due
  <2>1. SUFFICES ASSUME s \notin due PROVE FALSE
    OBVIOUS
  <2>2. r < s
    BY <1>2, <1>3, <2>1 DEF Switches
  <2>3. r \in Nat /\ s \in Nat
    BY RowsAreNaturals DEF IInv, Messages, Switches
  <2> QED BY <2>2, <2>3
<1>5. due = {s}
  BY <1>2, <1>4
<1> QED BY <1>1, <1>5

(* A boundary takes on no message behind a switch.                         *)
LEMMA BoundaryCrossesNothing == IInv /\ Boundary => Crossing
<1> SUFFICES ASSUME IInv, Boundary,
                    NEW r \in Messages(pending, kind) \ pending',
                    NEW s \in Switches(pending, kind), s < r
             PROVE  FALSE
  BY DEF Crossing
<1>1. r \in Messages(NextAtBoundary(pending, kind).rows, kind)
  BY DEF Boundary, Messages
<1>2. r < s /\ r \in Nat /\ s \in Nat
  BY <1>1, RowsAreNaturals, BoundaryFits DEF IInv, Messages, Switches
<1> QED BY <1>2

(* Commands take no message off the queue.                                 *)
LEMMA CommandsTakeNoMessage == IInv /\ Command => Messages(pending, kind) \subseteq pending'
<1> SUFFICES ASSUME IInv, Command PROVE Messages(pending, kind) \subseteq pending'
  OBVIOUS
<1>1. CASE SendMessage \/ WorkChanged \/ RequestCompaction \/ ResolveAsk
  BY <1>1 DEF SendMessage, WorkChanged, RequestCompaction, ResolveAsk, AddRow, Messages
<1>2. ASSUME NEW mode \in Modes, NEW byWriter \in BOOLEAN, RequestSwitch(mode, byWriter)
      PROVE  Messages(pending, kind) \subseteq pending'
  <2>1. \A r \in Messages(pending, kind) : r # count + 1 /\ r # NoRow
    BY RowsAreNaturals DEF IInv, TypeOK, Messages
  <2>2. Queued = NoRow \/ Queued \in Switches(pending, kind)
    BY EffectiveModeIs DEF IInv
  <2>3. \A r \in Messages(pending, kind) : r \in pending /\ r # Queued
    BY <2>1, <2>2 DEF Messages, Switches, Modes
  <2> QED BY <1>2, <2>1, <2>3 DEF RequestSwitch, AddRow
<1>3. ASSUME NEW r \in Rows, Withdraw(r) PROVE Messages(pending, kind) \subseteq pending'
  BY <1>3 DEF Withdraw, Messages, Modes
<1>4. CASE CancelAsk \/ RetryReply
  BY <1>4 DEF CancelAsk, RetryReply, queueVars, Messages
<1> QED BY <1>1, <1>2, <1>3, <1>4 DEF Command

(* No step takes on a message across a switch: run starts and boundaries   *)
(* are the only steps that take one on.                                    *)
THEOREM NothingCrossesSwitchHolds == Spec => NothingCrossesSwitch
<1>1. ASSUME Messages(pending, kind) \subseteq pending' PROVE Crossing
  BY <1>1 DEF Crossing
<1>2. IInv /\ Next => Crossing
  <2> SUFFICES ASSUME IInv, Next PROVE Crossing
    OBVIOUS
  <2>1. CASE Command
    BY <1>1, <2>1, CommandsTakeNoMessage
  <2>2. CASE Reserve
    BY <2>2, ReserveCrossesNothing
  <2>3. CASE Boundary
    BY <2>3, BoundaryCrossesNothing
  <2>4. CASE \/ Start \/ StartsNothing \/ SetupFails \/ WakeIfRunnable \/ SweepWakes
             \/ \E outcome \in Outcomes : EndReply(outcome)
    BY <1>1, <2>4 DEF Start, StartsNothing, SetupFails, WakeIfRunnable, SweepWakes, EndReply,
                      queueVars, Messages
  <2> QED BY <2>1, <2>2, <2>3, <2>4 DEF Next
<1>3. IInv /\ [Next]_vars => [Crossing]_vars
  BY <1>2
<1>4. Spec => [][Crossing]_vars
  BY <1>3, InvHolds, PTL DEF Spec
<1> QED BY <1>4 DEF NothingCrossesSwitch, Crossing
=============================================================================
