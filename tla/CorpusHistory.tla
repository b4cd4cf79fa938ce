--------------------------- MODULE CorpusHistory ---------------------------
(***************************************************************************)
(* What oxigraph_corpus.rs promises: a history of versions of norms that   *)
(* only grows, each version known entirely or not at all, questions        *)
(* answered with the version in force on a day as it was known last, and   *)
(* backups that bring the whole history back or are refused.               *)
(***************************************************************************)
EXTENDS Naturals

CONSTANTS Drafts,    \* the versions that are handed in: [eli, ver, vf, tt]
          Days,      \* the days that are asked about
          NoVersion  \* the answer when nothing was in force

VARIABLES known,     \* how often each version was appended
          backup,    \* the last backup: the history, and whether it can be read
          answer     \* the question just asked and its answer

vars == <<known, backup, answer>>

Nothing == [d \in Drafts |-> 0]
Present == {d \in Drafts : known[d] > 0}

(* Of the versions of e that apply on the day, those whose validity began    *)
(* last; of these the ones that became known last.                           *)
InForce(e, day) ==
    LET applying == {d \in Present : d.eli = e /\ d.vf <= day}
        newest   == {d \in applying : \A o \in applying : o.vf <= d.vf}
    IN  {d \in newest : \A o \in newest : o.tt <= d.tt}

Unasked == [eli |-> "none", day |-> 0, found |-> NoVersion]

Init ==
    /\ known = Nothing
    /\ backup = [history |-> Nothing, readable |-> FALSE]
    /\ answer = Unasked

Learn(d) ==
    /\ known' = [known EXCEPT ![d] = @ + 1]
    /\ answer' = Unasked /\ UNCHANGED backup

Ask(e, day) ==
    /\ \E f \in IF InForce(e, day) = {} THEN {NoVersion} ELSE InForce(e, day) :
          answer' = [eli |-> e, day |-> day, found |-> f]
    /\ UNCHANGED <<known, backup>>

Save ==
    /\ backup' = [history |-> known, readable |-> TRUE]
    /\ answer' = Unasked /\ UNCHANGED known

Spoil ==
    /\ backup' = [backup EXCEPT !.readable = FALSE]
    /\ answer' = Unasked /\ UNCHANGED known

\* The process ends; everything is in memory.
Forget ==
    /\ known' = Nothing
    /\ answer' = Unasked /\ UNCHANGED backup

Restore ==
    /\ known = Nothing
    /\ backup.readable
    /\ known' = backup.history
    /\ answer' = Unasked /\ UNCHANGED backup

\* Something happened that nobody asked about.
Unseen == answer' = Unasked /\ UNCHANGED <<known, backup>>

Next ==
    \/ \E d \in Drafts : Learn(d)
    \/ \E d \in Drafts, day \in Days : Ask(d.eli, day)
    \/ Save \/ Spoil \/ Forget \/ Restore \/ Unseen

Spec == Init /\ [][Next]_vars
=============================================================================
