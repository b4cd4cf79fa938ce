----------------------------- MODULE PrivatePads -----------------------------
(***************************************************************************)
(* What the scratchpad promises (fedlex-store lib.rs, repository.rs): each *)
(* session of each tenant has a pad of its own.  A request takes effect    *)
(* once, on the pad of its owner and nowhere else, between the moment it   *)
(* is made and the moment it is answered; one that is answered by an error *)
(* may have had its effect or not.  Now and then all pads are lost.        *)
(***************************************************************************)
CONSTANTS Callers, Owners, Names, Values, none

VARIABLES
    pad,        \* what each owner keeps under each name
    asked,      \* the request of each caller, and its result once it had effect
    reply       \* its last answer, until it asks again

vars == <<pad, asked, reply>>

Requests == [op : {"put", "get", "delete"}, owner : Owners, name : Names, value : Values]

Idle == [pc |-> "idle"]
Waiting == [kind |-> "none"]
Invalid == [kind |-> "invalid"]
Lost == [kind |-> "error"]
Result(v) == [kind |-> "ok", value |-> v]

Init ==
    /\ pad = [o \in Owners |-> [n \in Names |-> none]]
    /\ asked = [c \in Callers |-> Idle]
    /\ reply = [c \in Callers |-> Waiting]

Ask(c) ==
    /\ asked[c] = Idle
    /\ \E r \in Requests : asked' = [asked EXCEPT ![c] = [pc |-> "asked", req |-> r]]
    /\ reply' = [reply EXCEPT ![c] = Waiting]
    /\ UNCHANGED pad

\* A name that is no name is refused, and touches nothing.
Refuse(c) ==
    /\ asked[c] = Idle
    /\ reply' = [reply EXCEPT ![c] = Invalid]
    /\ UNCHANGED <<pad, asked>>

Effect(c) ==
    /\ asked[c].pc = "asked"
    /\ LET r   == asked[c].req
           old == pad[r.owner][r.name]
       IN  /\ pad' = [pad EXCEPT ![r.owner][r.name] =
                         CASE r.op = "put" -> r.value [] r.op = "delete" -> none [] OTHER -> old]
           /\ asked' = [asked EXCEPT ![c] = [pc |-> "done",
                 value |-> CASE r.op = "put" -> none [] r.op = "get" -> old [] OTHER -> old # none]]
    /\ UNCHANGED reply

Answer(c) ==
    /\ asked[c].pc = "done"
    /\ asked' = [asked EXCEPT ![c] = Idle]
    /\ reply' = [reply EXCEPT ![c] = Result(asked[c].value)]
    /\ UNCHANGED pad

Fail(c) ==
    /\ asked[c] # Idle
    /\ asked' = [asked EXCEPT ![c] = Idle]
    /\ reply' = [reply EXCEPT ![c] = Lost]
    /\ UNCHANGED pad

LoseAll == pad' = [o \in Owners |-> [n \in Names |-> none]] /\ UNCHANGED <<asked, reply>>

Next ==
    \/ \E c \in Callers : Ask(c) \/ Refuse(c) \/ Effect(c) \/ Answer(c) \/ Fail(c)
    \/ LoseAll

Spec == Init /\ [][Next]_vars
=============================================================================
