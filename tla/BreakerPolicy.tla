--------------------------- MODULE BreakerPolicy ---------------------------
(***************************************************************************)
(* What a caller of circuit_breaker.rs may rely on, without its three      *)
(* states: the endpoint is left alone for Cooldown ticks after every       *)
(* failure that completes or continues a streak of Threshold failures, and *)
(* only then; one success, whenever it arrives, ends the streak.           *)
(***************************************************************************)
EXTENDS Integers

CONSTANTS Callers, Threshold, Cooldown, MaxStep

VARIABLES streak,   \* failures in a row, counted up to Threshold
          rest,     \* how long the endpoint is still to be left alone
          calling,  \* the callers whose call is under way
          answer    \* what a caller was told last

vars == <<streak, rest, calling, answer>>

AtLeastZero(x) == IF x > 0 THEN x ELSE 0

Init == streak = 0 /\ rest = 0 /\ calling = {} /\ answer = [c \in Callers |-> "none"]

Tripped == streak = Threshold

Local(c) ==
    /\ c \notin calling
    /\ answer' = [answer EXCEPT ![c] = "local"]
    /\ UNCHANGED <<streak, rest, calling>>

Admit(c) ==
    /\ c \notin calling
    /\ ~Tripped \/ rest = 0
    /\ calling' = calling \cup {c}
    /\ answer' = [answer EXCEPT ![c] = "none"]
    /\ UNCHANGED <<streak, rest>>

Refuse(c) ==
    /\ c \notin calling
    /\ Tripped /\ rest > 0
    /\ answer' = [answer EXCEPT ![c] = "unavailable"]
    /\ UNCHANGED <<streak, rest, calling>>

Success(c) ==
    /\ c \in calling
    /\ streak' = 0 /\ rest' = 0
    /\ calling' = calling \ {c}
    /\ answer' = [answer EXCEPT ![c] = "external"]

Failure(c) ==
    /\ c \in calling
    /\ streak' = IF Tripped THEN streak ELSE streak + 1
    /\ rest' = IF streak' = Threshold THEN Cooldown ELSE rest
    /\ calling' = calling \ {c}
    /\ answer' = [answer EXCEPT ![c] = "notfound"]

Cancel(c) ==
    /\ c \in calling
    /\ calling' = calling \ {c}
    /\ UNCHANGED <<streak, rest, answer>>

Time ==
    /\ \/ rest' = AtLeastZero(rest - 1)
       \/ MaxStep > 0 /\ rest' \in 0..(Cooldown + MaxStep)
    /\ UNCHANGED <<streak, calling, answer>>

Next ==
    \/ \E c \in Callers : Local(c) \/ Admit(c) \/ Refuse(c) \/ Success(c) \/ Failure(c) \/ Cancel(c)
    \/ Time

Spec == Init /\ [][Next]_vars
=============================================================================
