----------------------------- MODULE MessageFate ------------------------------
(***************************************************************************)
(* What the delivery path promises about each message, whatever runs,      *)
(* yields, crashes or is stopped: a message waits, is taken on by the one  *)
(* open execution, and ends answered or handed back, once.                 *)
(*   - only an open execution that is not stopped takes messages on;       *)
(*   - only a message that was taken on is answered, except that an        *)
(*     execution may take on and answer in the step that ends it;          *)
(*   - a waiting message may be handed back at any time; one that was      *)
(*     taken on only by the command that stops its execution.              *)
(***************************************************************************)
CONSTANTS Message, Execution, None

VARIABLES state,    \* of each message
          open,     \* the open execution, or None
          stopped   \* a command has stopped it

vars == <<state, open, stopped>>

States == {"unsent", "waiting", "taken", "answered", "handedBack"}

In(s) == {m \in Message : state[m] = s}

TypeOK ==
    /\ state \in [Message -> States]
    /\ open \in Execution \cup {None}
    /\ stopped \in BOOLEAN

Init ==
    /\ state = [m \in Message |-> "unsent"]
    /\ open = None
    /\ stopped = FALSE

Move(ms, to) == state' = [m \in Message |-> IF m \in ms THEN to ELSE state[m]]

Send(m) ==
    /\ m \in In("unsent")
    /\ Move({m}, "waiting")
    /\ UNCHANGED <<open, stopped>>

OpenExecution(e) ==
    /\ open = None
    /\ open' = e
    /\ stopped' = FALSE
    /\ UNCHANGED state

TakeOn(ms) ==
    /\ open # None /\ ~stopped
    /\ ms \subseteq In("waiting")
    /\ Move(ms, "taken")
    /\ UNCHANGED <<open, stopped>>

AnswerAll ==
    /\ open # None
    /\ Move(In("taken"), "answered")
    /\ UNCHANGED <<open, stopped>>

ReturnAll ==
    /\ open # None
    /\ Move(In("taken"), "waiting")
    /\ UNCHANGED <<open, stopped>>

(* The execution ends: what it took on is answered, or waits again.        *)
CloseExecution(last) ==
    /\ open # None
    /\ last \subseteq In("waiting")
    /\ stopped => last = {}
    /\ \/ Move(In("taken") \cup last, "answered")
       \/ last = {} /\ Move(In("taken"), "waiting")
    /\ open' = None
    /\ stopped' = FALSE

HandBack(ms) ==
    /\ ms \subseteq In("waiting")
    /\ Move(ms, "handedBack")
    /\ UNCHANGED <<open, stopped>>

StopExecution(ms) ==
    /\ open # None
    /\ ms \subseteq In("waiting") \cup In("taken")
    /\ Move(ms, "handedBack")
    /\ stopped' = TRUE
    /\ UNCHANGED open

Next ==
    \/ \E m \in Message : Send(m)
    \/ \E e \in Execution : OpenExecution(e)
    \/ AnswerAll
    \/ ReturnAll
    \/ \E ms \in SUBSET Message :
         TakeOn(ms) \/ CloseExecution(ms) \/ HandBack(ms) \/ StopExecution(ms)

Spec == Init /\ [][Next]_vars
=============================================================================
