------------------------- MODULE InboxSelectionProofs -------------------------
(***************************************************************************)
(* What the inbox selection may choose, from any queue at all: the facts   *)
(* that the specifications built on it rely on.                            *)
(***************************************************************************)
EXTENDS InboxSelection, TLAPS, WellFoundedInduction

(* First picks the least of a non-empty set of rows.                       *)
LEMMA FirstIsLeast ==
    ASSUME NEW S, S \subseteq Nat, S # {}
    PROVE  First(S) \in S /\ \A q \in S : First(S) <= q
<1> DEFINE Below == {p \in Nat \X Nat : p[1] < p[2]}
<1>1. Below = OpToRel(<, Nat)
  BY DEF OpToRel
<1>2. IsWellFoundedOn(Below, Nat)
  BY <1>1, NatLessThanWellFounded
<1> HIDE DEF Below
<1>3. PICK n \in S : \A m \in S : <<m, n>> \notin Below
  BY <1>2, WFMin
<1>4. ASSUME NEW m \in S, ~(n <= m) PROVE FALSE
  <2>1. m \in Nat /\ n \in Nat
    OBVIOUS
  <2>2. <<m, n>> \in Below
    BY <1>4, <2>1 DEF Below
  <2> QED BY <1>3, <2>2
<1> QED BY <1>4 DEF First

(* The queued switch is a pending switch, in front of every other.         *)
LEMMA QueuedSwitchIsFirst ==
    ASSUME NEW pending, pending \subseteq Nat, NEW kind, Switches(pending, kind) # {}
    PROVE  /\ QueuedSwitch(pending, kind) \in Switches(pending, kind)
           /\ \A s \in Switches(pending, kind) : QueuedSwitch(pending, kind) <= s
<1>1. Switches(pending, kind) \subseteq Nat
  BY DEF Switches
<1> QED BY <1>1, FirstIsLeast DEF QueuedSwitch

(* Without a pending switch there is no queued switch.                     *)
LEMMA NoQueuedSwitch ==
    ASSUME NEW pending, NEW kind, Switches(pending, kind) = {}
    PROVE  QueuedSwitch(pending, kind) = NoRow
BY DEF QueuedSwitch, First

(* What a selection at run start may be: its control and rows are pending, *)
(* it finds nothing only when only switches and Work refreshes wait, and   *)
(* no message in it is behind a queued switch.                             *)
SelectionFits(sel, pending, kind) ==
    /\ sel.kind \in {"none", "batch", "control", "switch"}
    /\ sel.rows \subseteq Adoptable(pending, kind)
    /\ sel.kind \in {"none", "batch"} => sel.control = NoRow
    /\ sel.kind = "switch" => /\ sel = ApplySwitch(QueuedSwitch(pending, kind))
                              /\ Switches(pending, kind) # {}
                              /\ Answers(pending, kind) = {}
    /\ sel.kind = "control" => /\ sel.control \in pending
                               /\ kind[sel.control] \in {"compact", "answer"}
    /\ Answers(pending, kind) # {} => sel.control \in Answers(pending, kind) /\ sel.kind = "control"
    /\ \A r \in Messages(sel.rows, kind), s \in Switches(pending, kind) : r < s

(* The earliest control, when no message and no answer waits.              *)
LEMMA ControlSelection ==
    ASSUME NEW pending, pending \subseteq Nat, NEW kind,
           Answers(pending, kind) = {}, Messages(pending, kind) = {}
    PROVE  /\ SelectionFits(NextControl(pending, kind), pending, kind)
           /\ NextControl(pending, kind).kind = "none" <=>
                Controls(pending, kind) = Switches(pending, kind)
<1> DEFINE control == First(Controls(pending, kind))
<1>1. Controls(pending, kind) \subseteq Nat /\ Controls(pending, kind) \subseteq pending
  BY DEF Controls
<1>2. Switches(pending, kind) \subseteq Controls(pending, kind)
  BY DEF Switches, Controls
<1>3. CASE Controls(pending, kind) \subseteq Switches(pending, kind)
  <2>1. NextControl(pending, kind) = NothingToDo
    BY <1>3 DEF NextControl
  <2> QED BY <1>2, <1>3, <2>1
          DEF SelectionFits, NothingToDo, Messages, Adoptable
<1>4. CASE ~(Controls(pending, kind) \subseteq Switches(pending, kind))
  <2>1. control \in Controls(pending, kind) /\ \A q \in Controls(pending, kind) : control <= q
    BY <1>1, <1>4, FirstIsLeast
  <2>2. CASE kind[control] \in Modes
    <3>1. NextControl(pending, kind) = ApplySwitch(control)
      BY <1>4, <2>2 DEF NextControl
    <3>2. control \in Switches(pending, kind)
      BY <2>1, <2>2 DEF Switches, Controls
    <3>3. QueuedSwitch(pending, kind) \in Switches(pending, kind)
          /\ QueuedSwitch(pending, kind) <= control
      BY <3>2, QueuedSwitchIsFirst
    <3>4. QueuedSwitch(pending, kind) = control
      BY <1>1, <1>2, <2>1, <3>3
    <3> QED BY <1>2, <1>4, <3>1, <3>2, <3>4
            DEF SelectionFits, ApplySwitch, Messages, Adoptable
  <2>3. CASE kind[control] \notin Modes
    <3>1. NextControl(pending, kind) = RunControl(control, {})
      BY <1>4, <2>3 DEF NextControl
    <3>2. control \in pending /\ kind[control] = "compact"
      BY <2>1, <2>3 DEF Controls
    <3> QED BY <1>2, <1>4, <3>1, <3>2
            DEF SelectionFits, RunControl, Messages, Adoptable
  <2> QED BY <2>2, <2>3
<1> QED BY <1>3, <1>4

(* Rows adopted with a continuation are in front of every queued switch.   *)
LEMMA PrefixIsInFront ==
    ASSUME NEW pending, pending \subseteq Nat, NEW kind
    PROVE  /\ PrefixRows(pending, kind) \subseteq Adoptable(pending, kind)
           /\ \A r \in PrefixRows(pending, kind), s \in Switches(pending, kind) : r < s
<1>1. PrefixRows(pending, kind) \subseteq Adoptable(pending, kind)
  BY DEF PrefixRows
<1>2. ASSUME NEW r \in PrefixRows(pending, kind), NEW s \in Switches(pending, kind)
      PROVE  r < s
  <2>1. r \in Nat /\ s \in Nat /\ r < QueuedSwitch(pending, kind)
    BY <1>2 DEF PrefixRows, BeforeSwitch, Adoptable, Switches
  <2>2. QueuedSwitch(pending, kind) \in Nat /\ QueuedSwitch(pending, kind) <= s
    BY <1>2, QueuedSwitchIsFirst DEF Switches
  <2> QED BY <2>1, <2>2
<1> QED BY <1>1, <1>2

(* When no switch is due, no message waits behind one.                     *)
LEMMA NoMessageBehindSwitch ==
    ASSUME NEW pending, pending \subseteq Nat, NEW kind, ~SwitchIsDue(pending, kind)
    PROVE  \A r \in Messages(pending, kind), s \in Switches(pending, kind) : r < s
<1> SUFFICES ASSUME NEW r \in Messages(pending, kind), NEW s \in Switches(pending, kind)
             PROVE  r < s
  OBVIOUS
<1>1. r \in Nat /\ s \in Nat /\ kind[r] \notin Modes /\ kind[s] \in Modes
  BY DEF Messages, Switches, Modes
<1>2. QueuedSwitch(pending, kind) \in Nat /\ QueuedSwitch(pending, kind) <= s
  BY QueuedSwitchIsFirst DEF Switches
<1>3. ~(r > QueuedSwitch(pending, kind))
  BY DEF SwitchIsDue
<1>4. r # s
  BY <1>1
<1> QED BY <1>1, <1>2, <1>3, <1>4

(* A selection at run start fits the queue it was made from.               *)
LEMMA RunStartFits ==
    ASSUME NEW pending, pending \subseteq Nat, NEW kind, NEW retry \in BOOLEAN
    PROVE  SelectionFits(NextAtRunStart(pending, kind, retry), pending, kind)
<1> DEFINE sel == NextAtRunStart(pending, kind, retry)
<1>1. CASE Answers(pending, kind) # {}
  <2>1. sel = RunControl(First(Answers(pending, kind)), PrefixRows(pending, kind))
    BY <1>1 DEF NextAtRunStart
  <2>2. First(Answers(pending, kind)) \in Answers(pending, kind)
    BY <1>1, FirstIsLeast DEF Answers
  <2>3. Answers(pending, kind) \subseteq pending
        /\ \A a \in Answers(pending, kind) : kind[a] = "answer"
    BY DEF Answers
  <2>4. /\ sel.kind = "control" /\ sel.rows = PrefixRows(pending, kind)
        /\ sel.control = First(Answers(pending, kind))
    BY <2>1 DEF RunControl
  <2>5. /\ sel.rows \subseteq Adoptable(pending, kind)
        /\ \A r \in Messages(sel.rows, kind), s \in Switches(pending, kind) : r < s
    BY <2>4, PrefixIsInFront DEF Messages
  <2> HIDE DEF sel
  <2>6. SelectionFits(sel, pending, kind)
    BY <2>2, <2>3, <2>4, <2>5 DEF SelectionFits
  <2> QED BY <2>6 DEF sel
<1>2. CASE Answers(pending, kind) = {} /\ (SwitchIsDue(pending, kind)
                                           \/ (retry /\ Switches(pending, kind) # {}))
  <2>1. sel = ApplySwitch(QueuedSwitch(pending, kind)) /\ Switches(pending, kind) # {}
    BY <1>2 DEF NextAtRunStart, SwitchIsDue
  <2> QED BY <1>2, <2>1 DEF SelectionFits, ApplySwitch, Messages
<1>3. CASE /\ Answers(pending, kind) = {} /\ ~SwitchIsDue(pending, kind)
           /\ ~(retry /\ Switches(pending, kind) # {})
           /\ Messages(pending, kind) # {}
  <2>1. sel = Batch(Adoptable(pending, kind))
    BY <1>3 DEF NextAtRunStart
  <2>2. Messages(Adoptable(pending, kind), kind) \subseteq Messages(pending, kind)
    BY DEF Messages, Adoptable
  <2>3. sel.kind = "batch" /\ sel.rows = Adoptable(pending, kind) /\ sel.control = NoRow
    BY <2>1 DEF Batch
  <2>4. \A r \in Messages(sel.rows, kind), s \in Switches(pending, kind) : r < s
    BY <1>3, <2>2, <2>3, NoMessageBehindSwitch
  <2> HIDE DEF sel
  <2>5. SelectionFits(sel, pending, kind)
    BY <1>3, <2>3, <2>4 DEF SelectionFits
  <2> QED BY <2>5 DEF sel
<1>4. CASE /\ Answers(pending, kind) = {} /\ ~SwitchIsDue(pending, kind)
           /\ ~(retry /\ Switches(pending, kind) # {})
           /\ Messages(pending, kind) = {}
  <2>1. sel = NextControl(pending, kind)
    BY <1>4 DEF NextAtRunStart
  <2> QED BY <1>4, <2>1, ControlSelection
<1> QED BY <1>1, <1>2, <1>3, <1>4

(* A run start finds nothing exactly when only switches and Work refreshes *)
(* wait.                                                                   *)
LEMMA RunStartFindsNothing ==
    ASSUME NEW pending, pending \subseteq Nat, NEW kind
    PROVE  NextAtRunStart(pending, kind, FALSE).kind = "none" <=>
             \A r \in pending : kind[r] \notin {"message", "compact", "answer"}
<1> DEFINE sel == NextAtRunStart(pending, kind, FALSE)
<1>1. CASE Answers(pending, kind) # {}
  BY <1>1 DEF NextAtRunStart, RunControl, Answers
<1>2. CASE Answers(pending, kind) = {} /\ Messages(pending, kind) # {}
  BY <1>2 DEF NextAtRunStart, ApplySwitch, Batch, Messages
<1>3. CASE Answers(pending, kind) = {} /\ Messages(pending, kind) = {}
  <2>1. ~SwitchIsDue(pending, kind)
    BY <1>3 DEF SwitchIsDue
  <2>2. sel = NextControl(pending, kind)
    BY <1>3, <2>1 DEF NextAtRunStart
  <2>3. Controls(pending, kind) = Switches(pending, kind) <=>
          \A r \in pending : kind[r] # "compact"
    BY DEF Controls, Switches, Modes
  <2> QED BY <1>3, <2>2, <2>3, ControlSelection DEF Answers, Messages
<1> QED BY <1>1, <1>2, <1>3

(* A boundary adopts pending rows, and no message behind a switch.         *)
LEMMA BoundaryFits ==
    ASSUME NEW pending, pending \subseteq Nat, NEW kind
    PROVE  LET sel == NextAtBoundary(pending, kind)
           IN  /\ sel.rows \subseteq Adoptable(pending, kind)
               /\ sel.kind \in {"none", "batch", "yield"}
               /\ \A r \in Messages(sel.rows, kind), s \in Switches(pending, kind) : r < s
<1> DEFINE sel == NextAtBoundary(pending, kind)
<1>1. CASE /\ Answers(pending, kind) = {} /\ ~SwitchIsDue(pending, kind)
           /\ Adoptable(pending, kind) # {}
  <2>1. sel = Batch(Adoptable(pending, kind))
    BY <1>1 DEF NextAtBoundary
  <2>2. Messages(Adoptable(pending, kind), kind) \subseteq Messages(pending, kind)
    BY DEF Messages, Adoptable
  <2>3. sel.kind = "batch" /\ sel.rows = Adoptable(pending, kind)
    BY <2>1 DEF Batch
  <2>4. \A r \in Messages(sel.rows, kind), s \in Switches(pending, kind) : r < s
    BY <1>1, <2>2, <2>3, NoMessageBehindSwitch
  <2> HIDE DEF sel
  <2>5. /\ sel.rows \subseteq Adoptable(pending, kind)
        /\ sel.kind \in {"none", "batch", "yield"}
    BY <2>3
  <2> QED BY <2>4, <2>5 DEF sel
<1>2. CASE ~(/\ Answers(pending, kind) = {} /\ ~SwitchIsDue(pending, kind)
             /\ Adoptable(pending, kind) # {})
  <2>1. sel \in {NothingToDo, YieldReply}
    BY <1>2 DEF NextAtBoundary
  <2> QED BY <2>1 DEF NothingToDo, YieldReply, Messages
<1> QED BY <1>1, <1>2
=============================================================================
