------------------------------- MODULE Corpus -------------------------------
(***************************************************************************)
(* The bi-temporal corpus of fedlex-store (oxigraph_corpus.rs).            *)
(*                                                                         *)
(* An append inserts the five quads of a version one by one, each an       *)
(* atomic step of the embedded store, so that other writers, readers and   *)
(* backups meet versions that are only partly there; an insert may fail    *)
(* and leave them so for good.  A query sees one state of the store.  The  *)
(* text of a version is determined by its draft and is left out, and so is *)
(* the line format of a backup.                                            *)
(*                                                                         *)
(* The writer belongs to another repository: Skip models how the comment   *)
(* on contains_version says it uses that check.                            *)
(***************************************************************************)
EXTENDS Naturals, SequencesExt

CONSTANTS
    Drafts,       \* the versions that are handed in: [eli, ver, vf, tt]
    Days,
    NoVersion,
    Writers,
    MaxVersions   \* bound of the model: resources in the store

ASSUME DraftsAssumption ==
    /\ \A d \in Drafts : d.vf \in Nat /\ d.tt \in Nat
    /\ NoVersion \notin Drafts
    /\ Days \subseteq Nat /\ MaxVersions \in Nat

VARIABLES
    store,     \* the resources in the order of their ids: [draft, quads]
    task,      \* the resource a writer is appending, 0 if none
    skipped,   \* the draft just acknowledged only because contains_version held
    backup,    \* the last snapshot: [header, rows]
    answer     \* what resolve_as_of just returned, and to which question

vars == <<store, task, skipped, backup, answer>>

Unasked == [eli |-> "none", day |-> 0, found |-> NoVersion]

\* Any other step than Skip and ResolveAsOf: nothing is acknowledged, nothing answered.
Quiet == skipped' = NoVersion /\ answer' = Unasked

-----------------------------------------------------------------------------
\* The predicates of a version in the order append_version inserts them.
Predicates == <<"eli", "versionId", "validFrom", "transactionTime", "text">>

\* The resources a query pattern with these predicates matches.
Matching(pattern) ==
    {i \in DOMAIN store : pattern \subseteq {Predicates[q] : q \in 1..store[i].quads}}

\* Mutant of Before: the knowledge that came first wins.
OldestKnowledge(a, b) == a.vf > b.vf \/ (a.vf = b.vf /\ a.tt < b.tt)

\* ORDER BY DESC(?vf) DESC(?tt): a is listed before b.
Before(a, b) == a.vf > b.vf \/ (a.vf = b.vf /\ a.tt > b.tt)

(* The results resolve_as_of may give: the first row; rows that tie are in   *)
(* no particular order.                                                      *)
Resolved(e, day) ==
    LET rows == {store[i].draft : i \in
                    {j \in Matching({"eli", "validFrom", "transactionTime", "text"}) :
                        store[j].draft.eli = e /\ store[j].draft.vf <= day}}
    IN  IF rows = {} THEN {NoVersion}
        ELSE {d \in rows : \A o \in rows : ~Before(o, d)}

ContainsVersion(e, v) ==
    \E i \in Matching({"eli", "versionId"}) : store[i].draft.eli = e /\ store[i].draft.ver = v

\* Those that all five predicates match.
Whole == {i \in DOMAIN store : store[i].quads = Len(Predicates)}

(* The rows dump_to_string may write, one for each of them: ORDER BY ?eli    *)
(* ?vf ?tt ?ver, where the order of acts and of equal times is immaterial.   *)
InTurn(a, b) == a.eli = b.eli => a.vf < b.vf \/ (a.vf = b.vf /\ a.tt <= b.tt)
Dumps ==
    {rows \in {[n \in DOMAIN order |-> store[order[n]].draft] : order \in SetToSeqs(Whole)} :
        \A n \in DOMAIN rows : \A m \in 1..n : InTurn(rows[m], rows[n])}

Init ==
    /\ store = <<>>
    /\ task = [w \in Writers |-> 0]
    /\ skipped = NoVersion
    /\ backup = [header |-> "other", rows |-> <<>>]
    /\ answer = Unasked

-----------------------------------------------------------------------------
\* append_version is called: next_id.fetch_add reserves the resource.
AppendVersion(w, d) ==
    /\ task[w] = 0
    /\ Len(store) < MaxVersions
    /\ store' = Append(store, [draft |-> d, quads |-> 0])
    /\ task' = [task EXCEPT ![w] = Len(store')]
    /\ Quiet /\ UNCHANGED backup

\* One turn of its loop; the last one returns Ok.
Insert(w) ==
    /\ task[w] # 0
    /\ store' = [store EXCEPT ![task[w]].quads = @ + 1]
    /\ task' = [task EXCEPT ![w] = IF store'[@].quads = Len(Predicates) THEN 0 ELSE @]
    /\ Quiet /\ UNCHANGED backup

\* An insert fails: the ? returns at once and the quads so far stay.
InsertFails(w) ==
    /\ task[w] # 0
    /\ task' = [task EXCEPT ![w] = 0]
    /\ Quiet /\ UNCHANGED <<store, backup>>

\* A version that is delivered again is acknowledged without an append.
Skip(w, d) ==
    /\ task[w] = 0
    /\ ContainsVersion(d.eli, d.ver)
    /\ skipped' = d /\ answer' = Unasked
    /\ UNCHANGED <<store, task, backup>>

ResolveAsOf(e, day) ==
    /\ \E f \in Resolved(e, day) : answer' = [eli |-> e, day |-> day, found |-> f]
    /\ skipped' = NoVersion
    /\ UNCHANGED <<store, task, backup>>

DumpToString ==
    /\ \E rows \in Dumps : backup' = [header |-> "current", rows |-> rows]
    /\ Quiet /\ UNCHANGED <<store, task>>

\* The snapshot at hand was written by another build, or is damaged.
Spoil ==
    /\ backup' = [backup EXCEPT !.header = "other"]
    /\ Quiet /\ UNCHANGED <<store, task>>

\* A new process with an empty corpus (new).
Restart ==
    /\ store' = <<>>
    /\ task' = [w \in Writers |-> 0]
    /\ Quiet /\ UNCHANGED backup

\* Mutant of RestoreFromStr: the format header is not looked at.
RestoreAnything ==
    /\ store = <<>>
    /\ store' = [i \in DOMAIN backup.rows |->
                    [draft |-> backup.rows[i], quads |-> Len(Predicates)]]
    /\ Quiet /\ UNCHANGED <<task, backup>>

(* restore_from_str, at start: every row is appended to a fresh corpus, and  *)
(* only a snapshot read to its end replaces the empty one.  Any other header *)
(* is an error that changes nothing.                                         *)
RestoreFromStr ==
    /\ store = <<>>
    /\ backup.header = "current"
    /\ store' = [i \in DOMAIN backup.rows |->
                    [draft |-> backup.rows[i], quads |-> Len(Predicates)]]
    /\ Quiet /\ UNCHANGED <<task, backup>>

Next ==
    \/ \E w \in Writers : Insert(w) \/ InsertFails(w)
    \/ \E w \in Writers, d \in Drafts : AppendVersion(w, d) \/ Skip(w, d)
    \/ \E d \in Drafts, day \in Days : ResolveAsOf(d.eli, day)
    \/ DumpToString \/ Spoil \/ Restart \/ RestoreFromStr

Spec == Init /\ [][Next]_vars

-----------------------------------------------------------------------------
(* Properties.                                                              *)

Stored(d)       == Cardinality({i \in Whole : store[i].draft = d})
Copies(d, rows) == Cardinality({i \in DOMAIN rows : rows[i] = d})

(* The corpus keeps the promise of CorpusHistory: versions appear whole,     *)
(* none is lost or replaced by another append, the answer is the version in  *)
(* force as known last, a backup taken in the midst of appends restores      *)
(* exactly what could be read then (append_version, resolve_as_of,           *)
(* dump_to_string, restore_from_str).                                        *)
History == INSTANCE CorpusHistory WITH
    known  <- [d \in Drafts |-> Stored(d)],
    backup <- [history  |-> [d \in Drafts |-> Copies(d, backup.rows)],
               readable |-> backup.header = "current"]

KeepsHistory == History!Spec

(* While the process lives, what is known about a day is never replaced by   *)
(* something older: neither an earlier version nor an earlier knowledge of   *)
(* the same one, whatever the order of the appends (resolve_as_of: "so       *)
(* gewinnt eine spaetere Korrektur").                                        *)
NeverRegresses ==
    [][store' # <<>> =>
          \A d \in Drafts, day \in Days :
              \A old \in Resolved(d.eli, day) \ {NoVersion}, new \in Resolved(d.eli, day)' :
                  /\ new # NoVersion
                  /\ old.vf <= new.vf
                  /\ old.vf = new.vf => old.tt <= new.tt]_vars

(* Documented (docs/30_PLAN.md, contains_version): a version the writer      *)
(* skips because contains_version says it exists is in the corpus, and is    *)
(* not lost without a word.                                                  *)
SkippedIsStored ==
    skipped # NoVersion =>
        \E i \in Whole : store[i].draft.eli = skipped.eli /\ store[i].draft.ver = skipped.ver
=============================================================================
