---------------------------- MODULE PointInTime ----------------------------
(***************************************************************************)
(* What a client of the reader may rely on when it asks for the text of a  *)
(* norm (module comment of the reader's temporal.rs, fetch_akn_document):  *)
(* each text it is told was, at some moment between its question and the   *)
(* answer, the latest version readable in its language among those that    *)
(* apply on the day the answer names.  No cache, no pod and no other       *)
(* client shows through.                                                   *)
(***************************************************************************)
EXTENDS Naturals, Sequences

CONSTANTS Calls, Versions, Langs, Days,
          From      \* the day on which a version begins to apply

VARIABLES readable,  \* the versions that can be read, with the language
          look,      \* the questions under way
          said       \* the last answer of each client

vars == <<readable, look, said>>

Idle == [open |-> FALSE]
Error == [kind |-> "error"]

\* The latest readable versions that apply on a day.
Latest(l, d) ==
    LET rows == {v \in Versions : <<v, l>> \in readable /\ From[v] <= d}
    IN  {v \in rows : \A o \in rows : From[o] <= From[v]}

Init ==
    /\ readable = {}
    /\ look = [c \in Calls |-> Idle]
    /\ said = [c \in Calls |-> Error]

Publish(v, l) ==
    /\ readable' = readable \cup {<<v, l>>}
    /\ UNCHANGED <<look, said>>

Ask(c, l, days) ==
    /\ look[c] = Idle
    /\ look' = [look EXCEPT ![c] = [open |-> TRUE, lang |-> l, days |-> days, found |-> <<>>]]
    /\ UNCHANGED <<readable, said>>

Look(c) ==
    /\ look[c].open
    /\ Len(look[c].found) < Len(look[c].days)
    /\ LET d == look[c].days[Len(look[c].found) + 1]
       IN  \E v \in Latest(look[c].lang, d) :
              look' = [look EXCEPT ![c].found = Append(@, v)]
    /\ UNCHANGED <<readable, said>>

Tell(c) ==
    /\ look[c].open
    /\ Len(look[c].found) = Len(look[c].days)
    /\ said' = [said EXCEPT ![c] = [kind |-> "text", days |-> look[c].days,
                                    lang |-> look[c].lang, found |-> look[c].found]]
    /\ look' = [look EXCEPT ![c] = Idle]
    /\ UNCHANGED readable

\* No answer, or a steering error, at any time.
GiveUp(c) ==
    /\ look' = [look EXCEPT ![c] = Idle]
    /\ said' = [said EXCEPT ![c] = Error]
    /\ UNCHANGED readable

GiveUpAll ==
    /\ look' = [c \in Calls |-> Idle]
    /\ UNCHANGED <<readable, said>>

Next ==
    \/ \E v \in Versions, l \in Langs : Publish(v, l)
    \/ \E c \in Calls, l \in Langs, d \in Days : Ask(c, l, <<d>>)
    \/ \E c \in Calls, l \in Langs, d, e \in Days : Ask(c, l, <<d, e>>)
    \/ \E c \in Calls : Look(c) \/ Tell(c) \/ GiveUp(c)
    \/ GiveUpAll

Spec == Init /\ [][Next]_vars
=============================================================================
