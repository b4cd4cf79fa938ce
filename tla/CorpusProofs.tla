---------------------------- MODULE CorpusProofs ----------------------------
(***************************************************************************)
(* The corpus implements CorpusHistory, for any writers, versions and      *)
(* days, and however many resources the store has: an append that is cut   *)
(* into five inserts, and may stop after any of them, is to its readers    *)
(* one step or none.  And a backup of BackupFormat comes back, for any     *)
(* characters and texts of any length.                                     *)
(***************************************************************************)
EXTENDS Corpus, BackupFormat, SequenceTheorems, FiniteSetTheorems, WellFoundedInduction, TLAPS

Resources == [draft : Drafts, quads : 0..5]

(* A resource that is being appended is incomplete, and has one writer: that *)
(* is why an insert completes a version once and for all.                    *)
StoreInv ==
    /\ store \in Seq(Resources)
    /\ task \in [Writers -> 0..Len(store)]
    /\ \A w \in Writers : task[w] # 0 => store[task[w]].quads < 5
    /\ \A v, w \in Writers : task[v] = task[w] /\ task[v] # 0 => v = w
    /\ backup \in [header : {"current", "other"}, rows : Seq(Drafts)]

LEMMA FunctionIsSequence ==
    ASSUME NEW S, NEW n \in Nat, NEW f \in [1..n -> S]
    PROVE  f \in Seq(S) /\ Len(f) = n
  BY SeqDef, LenProperties

LEMMA FivePredicates == Len(Predicates) = 5
  BY DEF Predicates

LEMMA FreshId ==
    ASSUME NEW w \in Writers, NEW d \in Drafts, StoreInv, AppendVersion(w, d)
    PROVE  /\ store' = Append(store, [draft |-> d, quads |-> 0])
           /\ store' \in Seq(Resources) /\ Len(store') = Len(store) + 1
           /\ \A i \in DOMAIN store : store'[i] = store[i]
           /\ store'[Len(store) + 1] = [draft |-> d, quads |-> 0]
           /\ task' = [task EXCEPT ![w] = Len(store) + 1]
  <1>1. [draft |-> d, quads |-> 0] \in Resources
    BY DEF Resources
  <1>2. store \in Seq(Resources) /\ store' = Append(store, [draft |-> d, quads |-> 0])
    BY DEF StoreInv, AppendVersion
  <1> QED BY <1>1, <1>2, AppendProperties DEF AppendVersion

LEMMA OneMore ==
    ASSUME NEW w \in Writers, StoreInv, Insert(w)
    PROVE  LET n == task[w] IN
           /\ n \in DOMAIN store /\ store[n].quads \in 0..4
           /\ store' \in Seq(Resources) /\ Len(store') = Len(store)
           /\ store'[n].draft = store[n].draft /\ store'[n].quads = store[n].quads + 1
           /\ \A i \in DOMAIN store \ {n} : store'[i] = store[i]
           /\ task' = [task EXCEPT ![w] = IF store'[n].quads = 5 THEN 0 ELSE n]
  <1> DEFINE n == task[w]
  <1>1. n \in 1..Len(store) /\ store[n].quads < 5 /\ store \in Seq(Resources)
    BY DEF StoreInv, Insert
  <1>2. store[n] \in Resources /\ DOMAIN store = 1..Len(store)
    BY <1>1
  <1>3. store[n].quads \in 0..4 /\ store[n].draft \in Drafts
    BY <1>1, <1>2 DEF Resources
  <1>4. store' = [store EXCEPT ![n] = [store[n] EXCEPT !.quads = @ + 1]]
    BY DEF Insert
  <1>5. /\ [store[n] EXCEPT !.quads = @ + 1] \in Resources
        /\ [store[n] EXCEPT !.quads = @ + 1].draft = store[n].draft
        /\ [store[n] EXCEPT !.quads = @ + 1].quads = store[n].quads + 1
    BY <1>2, <1>3 DEF Resources
  <1> HIDE DEF n
  <1>6. store' \in Seq(Resources) /\ Len(store') = Len(store)
    BY <1>1, <1>4, <1>5, ExceptSeq
  <1>7. store'[n] = [store[n] EXCEPT !.quads = @ + 1] /\ \A i \in DOMAIN store \ {n} : store'[i] = store[i]
    BY <1>1, <1>2, <1>4
  <1>8. task' = [task EXCEPT ![w] = IF store'[n].quads = 5 THEN 0 ELSE n]
    BY FivePredicates DEF Insert, n
  <1> QED BY <1>1, <1>2, <1>3, <1>5, <1>6, <1>7, <1>8 DEF n

LEMMA WholeFinite ==
    ASSUME StoreInv
    PROVE  /\ Whole \subseteq DOMAIN store /\ IsFiniteSet(Whole)
           /\ \A i \in Whole : store[i].draft \in Drafts
  <1>1. store \in Seq(Resources)
    BY DEF StoreInv
  <1>2. Len(store) \in Nat /\ DOMAIN store = 1..Len(store) /\ \A i \in DOMAIN store : store[i] \in Resources
    BY <1>1
  <1>3. Whole \subseteq DOMAIN store
    BY DEF Whole
  <1>4. IsFiniteSet(DOMAIN store)
    <2>1. IsFiniteSet(1..Len(store))
      BY <1>2, FS_Interval
    <2> QED BY <1>2, <2>1
  <1>5. IsFiniteSet(Whole)
    BY <1>3, <1>4, FS_Subset
  <1>6. \A r \in Resources : r.draft \in Drafts
    BY DEF Resources
  <1> QED BY <1>2, <1>3, <1>5, <1>6

LEMMA RowsOfDrafts ==
    ASSUME StoreInv, NEW dumped \in Dumps
    PROVE  /\ dumped \in Seq(Drafts)
           /\ \E order \in SetToSeqs(Whole) :
                  /\ DOMAIN dumped = DOMAIN order
                  /\ \A n \in DOMAIN dumped : dumped[n] = store[order[n]].draft
  <1>1. PICK order \in SetToSeqs(Whole) : dumped = [n \in DOMAIN order |-> store[order[n]].draft]
    BY DEF Dumps
  <1>2. order \in [1..Cardinality(Whole) -> Whole]
    BY DEF SetToSeqs
  <1>3. Cardinality(Whole) \in Nat
    BY WholeFinite, FS_CardinalityType
  <1>5. \A i \in Whole : store[i].draft \in Drafts
    BY WholeFinite
  <1>6. dumped \in [1..Cardinality(Whole) -> Drafts]
    BY <1>1, <1>2, <1>5
  <1> QED BY <1>1, <1>3, <1>6, SeqDef

LEMMA StoreStep == StoreInv /\ [Next]_vars => StoreInv'
  <1> SUFFICES ASSUME StoreInv, [Next]_vars PROVE StoreInv'
    OBVIOUS
  <1> USE DEF StoreInv
  <1>1. ASSUME NEW w \in Writers, Insert(w) PROVE StoreInv'
    <2>1. backup' = backup
      BY <1>1 DEF Insert
    <2> DEFINE n == task[w]
    <2>2. /\ n \in 1..Len(store) /\ store[n].quads \in 0..4
          /\ store' \in Seq(Resources) /\ Len(store') = Len(store)
          /\ store'[n].quads = store[n].quads + 1
          /\ \A i \in 1..Len(store) : i # n => store'[i] = store[i]
          /\ task' = [task EXCEPT ![w] = IF store'[n].quads = 5 THEN 0 ELSE n]
      BY <1>1, OneMore
    <2>3. task' \in [Writers -> 0..Len(store')]
      BY <2>2
    <2>4. ASSUME NEW v \in Writers, task'[v] # 0 PROVE store'[task'[v]].quads < 5
      <3>1. CASE v = w
        BY <2>2, <2>4, <3>1
      <3>2. CASE v # w
        <4>1. task'[v] = task[v] /\ task[v] # n /\ task[v] \in 1..Len(store)
          BY <2>2, <2>4, <3>2
        <4> QED BY <2>2, <4>1
      <3> QED BY <3>1, <3>2
    <2>5. \A v, x \in Writers : task'[v] = task'[x] /\ task'[v] # 0 => v = x
      BY <2>2
    <2> QED BY <2>1, <2>2, <2>3, <2>4, <2>5
  <1>2. ASSUME NEW w \in Writers, InsertFails(w) PROVE StoreInv'
    BY <1>2 DEF InsertFails
  <1>3. ASSUME NEW w \in Writers, NEW d \in Drafts, AppendVersion(w, d) PROVE StoreInv'
    <2>1. backup' = backup
      BY <1>3 DEF AppendVersion
    <2>6. /\ store' \in Seq(Resources) /\ Len(store') = Len(store) + 1
          /\ \A i \in DOMAIN store : store'[i] = store[i]
          /\ store'[Len(store) + 1] = [draft |-> d, quads |-> 0]
          /\ task' = [task EXCEPT ![w] = Len(store) + 1]
      BY <1>3, FreshId
    <2>7. Len(store) \in Nat /\ DOMAIN store = 1..Len(store)
      OBVIOUS
    <2>2. /\ store' \in Seq(Resources) /\ Len(store') = Len(store) + 1
          /\ \A i \in 1..Len(store) : store'[i] = store[i]
          /\ store'[Len(store) + 1].quads = 0
          /\ task' = [task EXCEPT ![w] = Len(store) + 1] /\ Len(store) \in Nat
      BY <2>6, <2>7
    <2>3. task' \in [Writers -> 0..Len(store')]
      BY <2>2
    <2>4. ASSUME NEW v \in Writers, task'[v] # 0 PROVE store'[task'[v]].quads < 5
      <3>1. CASE v = w
        BY <2>2, <3>1
      <3>2. CASE v # w
        <4>1. task'[v] = task[v] /\ task[v] \in 1..Len(store)
          BY <2>2, <2>4, <3>2
        <4> QED BY <2>2, <4>1
      <3> QED BY <3>1, <3>2
    <2>5. \A v, x \in Writers : task'[v] = task'[x] /\ task'[v] # 0 => v = x
      BY <2>2
    <2> QED BY <2>1, <2>2, <2>3, <2>4, <2>5
  <1>4. ASSUME NEW w \in Writers, NEW d \in Drafts, Skip(w, d) PROVE StoreInv'
    BY <1>4 DEF Skip
  <1>5. ASSUME NEW e, NEW day, ResolveAsOf(e, day) PROVE StoreInv'
    BY <1>5 DEF ResolveAsOf
  <1>6. CASE DumpToString
    BY <1>6, RowsOfDrafts DEF DumpToString
  <1>7. CASE Spoil
    BY <1>7 DEF Spoil
  <1>8. CASE Restart
    <2>1. store' = <<>> /\ task' = [w \in Writers |-> 0] /\ backup' = backup
      BY <1>8 DEF Restart
    <2> QED BY <2>1
  <1>9. CASE RestoreFromStr
    <2>1. store' = [i \in DOMAIN backup.rows |-> [draft |-> backup.rows[i], quads |-> 5]]
      BY <1>9, FivePredicates DEF RestoreFromStr
    <2>2. store' \in [1..Len(backup.rows) -> Resources]
      BY <2>1 DEF Resources
    <2>6. Len(backup.rows) \in Nat
      OBVIOUS
    <2>3. store' \in Seq(Resources)
      <3> HIDE DEF StoreInv
      <3> QED BY <2>2, <2>6, FunctionIsSequence
    <2>4. store = <<>> /\ task' = task /\ backup' = backup
      BY <1>9 DEF RestoreFromStr
    <2>5. \A w \in Writers : task[w] = 0
      BY <2>4
    <2>7. task' \in [Writers -> 0..Len(store')]
      BY <2>3, <2>4, <2>5
    <2> QED BY <2>3, <2>4, <2>5, <2>7
  <1>10. CASE UNCHANGED vars
    BY <1>10 DEF vars
  <1> QED BY <1>1, <1>2, <1>3, <1>4, <1>5, <1>6, <1>7, <1>8, <1>9, <1>10 DEF Next

LEMMA StoreAlways == Spec => []StoreInv
  <1>1. Init => StoreInv
    BY DEF Init, StoreInv
  <1> QED BY <1>1, StoreStep, PTL DEF Spec

-----------------------------------------------------------------------------
(* resolve_as_of: what can be read never becomes less in the life of a       *)
(* process, and of what can be read the latest is told.                      *)
AllFour == {"eli", "validFrom", "transactionTime", "text"}

\* The quads a query needs are the last one and those before it.
LEMMA ReadableWhole ==
    ASSUME StoreInv
    PROVE  Matching(AllFour) = Whole
  <1>1. \A i \in DOMAIN store : store[i].quads \in 0..5
    <2>1. \A i \in DOMAIN store : store[i] \in Resources
      BY DEF StoreInv
    <2>2. \A r \in Resources : r.quads \in 0..5
      BY DEF Resources
    <2> QED BY <2>1, <2>2
  <1>2. ASSUME NEW i \in DOMAIN store
        PROVE  AllFour \subseteq {Predicates[q] : q \in 1..store[i].quads} <=> store[i].quads = 5
    <2>1. CASE store[i].quads = 5
      <3>1. /\ Predicates[1] = "eli" /\ Predicates[3] = "validFrom"
            /\ Predicates[4] = "transactionTime" /\ Predicates[5] = "text"
        BY DEF Predicates
      <3>2. 1 \in 1..5 /\ 3 \in 1..5 /\ 4 \in 1..5 /\ 5 \in 1..5
        OBVIOUS
      <3> QED BY <2>1, <3>1, <3>2 DEF AllFour
    <2>2. CASE store[i].quads # 5
      <3>1. \A q \in 1..store[i].quads : q \in 1..4
        BY <1>1, <2>2
      <3>2. \A q \in 1..4 : Predicates[q] # "text"
        BY DEF Predicates
      <3> QED BY <2>2, <3>1, <3>2 DEF AllFour
    <2> QED BY <2>1, <2>2
  <1> QED BY <1>2, FivePredicates DEF Matching, Whole

Applying(e, day) == {i \in Whole : store[i].draft.eli = e /\ store[i].draft.vf <= day}

LEMMA ResolvedLatest ==
    StoreInv =>
        \A e, day :
            LET found == {store[i].draft : i \in Applying(e, day)}
            IN  Resolved(e, day) = IF found = {} THEN {NoVersion}
                                   ELSE {d \in found : \A o \in found : ~Before(o, d)}
  <1> SUFFICES ASSUME StoreInv, NEW e, NEW day
               PROVE  LET found == {store[i].draft : i \in Applying(e, day)}
                      IN  Resolved(e, day) = IF found = {} THEN {NoVersion}
                                             ELSE {d \in found : \A o \in found : ~Before(o, d)}
    OBVIOUS
  <1>1. {j \in Matching(AllFour) : store[j].draft.eli = e /\ store[j].draft.vf <= day} = Applying(e, day)
    BY ReadableWhole DEF Applying
  <1> QED BY <1>1 DEF Resolved, AllFour

\* What is said of a state said of the next one, as the steps below need it.
LEMMA WholeOfDraftsNext == StoreInv' => \A i \in Whole' : store'[i].draft \in Drafts
  <1> DEFINE OfDrafts == StoreInv => \A i \in Whole : store[i].draft \in Drafts
  <1>1. OfDrafts
    BY WholeFinite
  <1>2. OfDrafts'
    BY <1>1, PTL
  <1> QED BY <1>2

LEMMA ResolvedLatestNext ==
    StoreInv' =>
        \A e, day :
            LET found == {store'[i].draft : i \in Applying(e, day)'}
            IN  Resolved(e, day)' = IF found = {} THEN {NoVersion}
                                    ELSE {d \in found : \A o \in found : ~Before(o, d)}
  <1> DEFINE Latest == StoreInv =>
        \A e, day :
            LET found == {store[i].draft : i \in Applying(e, day)}
            IN  Resolved(e, day) = IF found = {} THEN {NoVersion}
                                   ELSE {d \in found : \A o \in found : ~Before(o, d)}
  <1>1. Latest
    BY ResolvedLatest
  <1>2. Latest'
    BY <1>1, PTL
  <1> QED BY <1>2

\* What a step leaves of the versions that can be read.
LEMMA WholeGrows ==
    ASSUME StoreInv, [Next]_vars, store' # <<>>, store # <<>>
    PROVE  Whole \subseteq Whole' /\ \A i \in Whole : store'[i].draft = store[i].draft
  <1>1. CASE store' = store
    BY <1>1 DEF Whole
  <1>2. ASSUME NEW w \in Writers, Insert(w)
        PROVE  Whole \subseteq Whole' /\ \A i \in Whole : store'[i].draft = store[i].draft
    <2>1. task[w] \notin Whole
      <3>1. store[task[w]].quads \in 0..4
        BY <1>2, OneMore
      <3> QED BY <3>1, FivePredicates DEF Whole
    <2>2. DOMAIN store' = DOMAIN store
      BY <1>2, OneMore DEF StoreInv
    <2> QED BY <1>2, <2>1, <2>2, OneMore DEF Whole
  <1>3. ASSUME NEW w \in Writers, NEW d \in Drafts, AppendVersion(w, d)
        PROVE  Whole \subseteq Whole' /\ \A i \in Whole : store'[i].draft = store[i].draft
    <2>1. /\ store \in Seq(Resources) /\ store' \in Seq(Resources) /\ Len(store') = Len(store) + 1
          /\ \A i \in DOMAIN store : store'[i] = store[i]
      BY <1>3, FreshId DEF StoreInv
    <2>2. DOMAIN store \subseteq DOMAIN store'
      BY <2>1
    <2> QED BY <2>1, <2>2 DEF Whole
  <1>4. CASE Restart
    BY <1>4 DEF Restart
  <1>5. CASE RestoreFromStr
    BY <1>5 DEF RestoreFromStr
  <1> QED BY <1>1, <1>2, <1>3, <1>4, <1>5
      DEF Next, vars, InsertFails, Skip, ResolveAsOf, DumpToString, Spoil

LEMMA NothingResolved ==
    ASSUME store = <<>>, StoreInv, NEW e, NEW day
    PROVE  Resolved(e, day) = {NoVersion}
  <1>1. Whole = {}
    BY DEF Whole
  <1> QED BY <1>1, ResolvedLatest DEF Applying

(* While the process lives, what is known about a day is never replaced by   *)
(* something older, whatever the order of the appends and whatever fails     *)
(* (resolve_as_of, append_version).                                          *)
THEOREM NeverRegressesAlways == Spec => NeverRegresses
  <1> DEFINE Kept == store' # <<>> =>
          \A d \in Drafts, day \in Days :
              \A old \in Resolved(d.eli, day) \ {NoVersion}, new \in Resolved(d.eli, day)' :
                  /\ new # NoVersion
                  /\ old.vf <= new.vf
                  /\ old.vf = new.vf => old.tt <= new.tt
  <1>1. StoreInv /\ StoreInv' /\ [Next]_vars => [Kept]_vars
    <2> SUFFICES ASSUME StoreInv, StoreInv', [Next]_vars, store' # <<>>, NEW d \in Drafts, NEW day \in Days,
                        NEW old \in Resolved(d.eli, day) \ {NoVersion}, NEW new \in Resolved(d.eli, day)'
                 PROVE  /\ new # NoVersion
                        /\ old.vf <= new.vf
                        /\ old.vf = new.vf => old.tt <= new.tt
      OBVIOUS
    <2> DEFINE found == {store[i].draft : i \in Applying(d.eli, day)}
               later == {store'[i].draft : i \in Applying(d.eli, day)'}
    <2>1. store # <<>>
      BY NothingResolved
    <2>2. old \in found
      <3>1. Resolved(d.eli, day) = IF found = {} THEN {NoVersion} ELSE {x \in found : \A o \in found : ~Before(o, x)}
        BY ResolvedLatest
      <3> QED BY <3>1
    <2>3. PICK i \in Whole : store[i].draft = old /\ old.eli = d.eli /\ old.vf <= day
      BY <2>2 DEF Applying
    <2>4. i \in Applying(d.eli, day)' /\ store'[i].draft = old
      BY <2>1, <2>3, WholeGrows DEF Applying
    <2>5. old \in later
      BY <2>4
    <2>6. Resolved(d.eli, day)' = IF later = {} THEN {NoVersion} ELSE {x \in later : \A o \in later : ~Before(o, x)}
      BY ResolvedLatestNext
    <2>7. new \in later /\ ~Before(old, new)
      BY <2>5, <2>6
    <2>8. later \subseteq Drafts
      BY WholeOfDraftsNext DEF Applying
    <2> HIDE DEF found, later
    <2>9. old \in Drafts /\ new \in Drafts
      BY <2>5, <2>7, <2>8
    <2> QED BY <2>7, <2>9, DraftsAssumption DEF Before
  <1>2. NeverRegresses <=> [][Kept]_vars
    BY DEF NeverRegresses
  <1> HIDE DEF Kept
  <1> QED BY <1>1, <1>2, StoreAlways, PTL DEF Spec
-----------------------------------------------------------------------------
(* The refinement of CorpusHistory.  What is known of a version is how many  *)
(* whole resources there are of it.                                          *)
Known     == [d \in Drafts |-> Stored(d)]
OfDraft(d) == {i \in Whole : store[i].draft = d}

LEMMA OfDraftFinite ==
    ASSUME StoreInv, NEW d
    PROVE  IsFiniteSet(OfDraft(d)) /\ Stored(d) = Cardinality(OfDraft(d)) /\ Stored(d) \in Nat
  <1>1. OfDraft(d) \in SUBSET Whole
    BY DEF OfDraft
  <1>2. IsFiniteSet(OfDraft(d))
    BY <1>1, WholeFinite, FS_Subset
  <1>3. Stored(d) = Cardinality(OfDraft(d))
    BY DEF Stored, OfDraft
  <1> QED BY <1>2, <1>3, FS_CardinalityType

\* The versions that are known are the drafts of what can be read.
LEMMA PresentIsWhole ==
    ASSUME StoreInv
    PROVE  History!Present = {store[i].draft : i \in Whole}
  <1>1. ASSUME NEW d \in Drafts
        PROVE  Stored(d) > 0 <=> OfDraft(d) # {}
    BY OfDraftFinite, FS_EmptySet
  <1>2. \A i \in Whole : store[i].draft \in Drafts
    BY WholeFinite
  <1> QED BY <1>1, <1>2 DEF History!Present, OfDraft

\* The first row of the query is the version in force.
LEMMA AnswersInForce ==
    ASSUME StoreInv, NEW e, NEW day \in Days, NEW f \in Resolved(e, day)
    PROVE  f \in IF History!InForce(e, day) = {} THEN {NoVersion} ELSE History!InForce(e, day)
  <1> DEFINE found == {store[i].draft : i \in Applying(e, day)}
             applying == {d \in History!Present : d.eli = e /\ d.vf <= day}
             newest == {d \in applying : \A o \in applying : o.vf <= d.vf}
  <1>1. found = applying
    BY PresentIsWhole DEF Applying
  <1>2. Resolved(e, day) = IF applying = {} THEN {NoVersion} ELSE {x \in applying : \A o \in applying : ~Before(o, x)}
    <2>1. Resolved(e, day) = IF found = {} THEN {NoVersion} ELSE {x \in found : \A o \in found : ~Before(o, x)}
      BY ResolvedLatest
    <2> QED BY <1>1, <2>1
  <1>3. History!InForce(e, day) = {d \in newest : \A o \in newest : o.tt <= d.tt}
    BY DEF History!InForce
  <1>4. \A d \in applying : d.vf \in Nat /\ d.tt \in Nat
    BY DraftsAssumption DEF History!Present
  <1> HIDE DEF found
  <1>5. CASE applying = {}
    BY <1>2, <1>3, <1>5
  <1>6. CASE applying # {}
    <2> HIDE DEF applying
    <2>1. f \in applying /\ \A o \in applying : ~Before(o, f)
      BY <1>2, <1>6
    <2>2. f \in newest
      BY <1>4, <2>1 DEF Before
    <2>3. \A o \in newest : o.tt <= f.tt
      BY <1>4, <2>1, <2>2 DEF Before
    <2> QED BY <1>3, <2>2, <2>3
  <1> QED BY <1>5, <1>6

\* Nothing that can be read has changed: nobody notices.
LEMMA SameKnown ==
    ASSUME Whole' = Whole, \A i \in Whole : store'[i].draft = store[i].draft
    PROVE  Known' = Known
  <1>1. ASSUME NEW d PROVE Stored(d)' = Stored(d)
    <2>1. {i \in Whole' : store'[i].draft = d} = {i \in Whole : store[i].draft = d}
      OBVIOUS
    <2> QED BY <2>1 DEF Stored
  <1> QED BY <1>1 DEF Known

LEMMA AppendUnseen ==
    ASSUME StoreInv, NEW w \in Writers, NEW d \in Drafts, AppendVersion(w, d)
    PROVE  Known' = Known
  <1>1. /\ store \in Seq(Resources) /\ store' \in Seq(Resources) /\ Len(store') = Len(store) + 1
        /\ \A i \in DOMAIN store : store'[i] = store[i]
        /\ store'[Len(store) + 1].quads = 0
    <2>1. /\ store' \in Seq(Resources) /\ Len(store') = Len(store) + 1
          /\ \A i \in DOMAIN store : store'[i] = store[i]
          /\ store'[Len(store) + 1] = [draft |-> d, quads |-> 0]
      BY FreshId
    <2>2. store \in Seq(Resources)
      BY DEF StoreInv
    <2> QED BY <2>1, <2>2
  <1>2. DOMAIN store' = DOMAIN store \cup {Len(store) + 1} /\ Len(store) + 1 \notin DOMAIN store
    BY <1>1
  <1>3. Whole' = Whole
    BY <1>1, <1>2, FivePredicates DEF Whole
  <1>4. \A i \in Whole : store'[i].draft = store[i].draft
    BY <1>1 DEF Whole
  <1> QED BY <1>3, <1>4, SameKnown

\* The last insert makes the version known, every other one nothing.
LEMMA InsertLearns ==
    ASSUME StoreInv, NEW w \in Writers, Insert(w)
    PROVE  \/ Known' = Known
           \/ \E d \in Drafts : Known' = [Known EXCEPT ![d] = @ + 1]
  <1> DEFINE n == task[w]
  <1>1. /\ n \in DOMAIN store /\ store[n].quads \in 0..4
        /\ store' \in Seq(Resources) /\ Len(store') = Len(store)
        /\ store'[n].draft = store[n].draft /\ store'[n].quads = store[n].quads + 1
        /\ \A i \in DOMAIN store \ {n} : store'[i] = store[i]
    BY OneMore
  <1>2. store \in Seq(Resources) /\ DOMAIN store' = DOMAIN store
    BY <1>1 DEF StoreInv
  <1>3. n \notin Whole
    BY <1>1, FivePredicates DEF Whole
  <1> HIDE DEF n
  <1>4. \A i \in Whole : store'[i].draft = store[i].draft
    BY <1>1 DEF Whole
  <1>5. CASE store[n].quads # 4
    <2>1. Whole' = Whole
      BY <1>1, <1>2, <1>3, <1>5, FivePredicates DEF Whole
    <2> QED BY <1>4, <2>1, SameKnown
  <1>6. CASE store[n].quads = 4
    <2>1. Whole' = Whole \cup {n}
      BY <1>1, <1>2, <1>6, FivePredicates DEF Whole
    <2> DEFINE new == store[n].draft
    <2>2. new \in Drafts
      <3>1. store[n] \in Resources
        BY <1>1, <1>2
      <3> QED BY <3>1 DEF Resources
    <2>3. ASSUME NEW d \in Drafts
          PROVE  Stored(d)' = IF d = new THEN Stored(d) + 1 ELSE Stored(d)
      <3>1. {i \in Whole' : store'[i].draft = d} = IF d = new THEN OfDraft(d) \cup {n} ELSE OfDraft(d)
        BY <1>1, <1>4, <2>1 DEF OfDraft
      <3>2. Stored(d)' = Cardinality({i \in Whole' : store'[i].draft = d})
        BY DEF Stored
      <3>3. n \notin OfDraft(d)
        BY <1>3 DEF OfDraft
      <3>4. Cardinality(OfDraft(d) \cup {n}) = Cardinality(OfDraft(d)) + 1
        BY <3>3, OfDraftFinite, FS_AddElement
      <3> QED BY <3>1, <3>2, <3>4, OfDraftFinite
    <2> HIDE DEF new
    <2>4. Known' = [Known EXCEPT ![new] = @ + 1]
      BY <2>2, <2>3 DEF Known
    <2> QED BY <2>2, <2>4
  <1> QED BY <1>5, <1>6

\* A backup has as many rows of a version as it has whole resources.
LEMMA DumpIsComplete ==
    ASSUME StoreInv, NEW dumped \in Dumps, NEW d
    PROVE  Copies(d, dumped) = Stored(d)
  <1>1. PICK order \in SetToSeqs(Whole) :
            /\ DOMAIN dumped = DOMAIN order
            /\ \A n \in DOMAIN dumped : dumped[n] = store[order[n]].draft
    BY RowsOfDrafts
  <1> DEFINE N == Cardinality(Whole)
             S == {n \in DOMAIN dumped : dumped[n] = d}
             f == [n \in S |-> order[n]]
  <1>2. IsFiniteSet(Whole) /\ N \in Nat
    BY WholeFinite, FS_CardinalityType
  <1>3. order \in [1..N -> Whole] /\ \A i, j \in 1..N : i # j => order[i] # order[j]
    BY DEF SetToSeqs
  <1> HIDE DEF N
  <1>4. order \in Injection(1..N, Whole)
    BY <1>3 DEF Injection, IsInjective
  <1>5. IsFiniteSet(1..N) /\ Cardinality(1..N) = N
    BY <1>2, FS_Interval
  <1>6. order \in Surjection(1..N, Whole)
    BY <1>2, <1>4, <1>5, FS_Injection DEF N
  <1>7. \A i \in Whole : \E n \in 1..N : order[n] = i
    BY <1>6 DEF Surjection
  <1>8. DOMAIN dumped = 1..N
    BY <1>1, <1>3
  <1>9. f \in Injection(S, OfDraft(d))
    BY <1>1, <1>3, <1>8 DEF Injection, IsInjective, OfDraft
  <1>10. f \in Surjection(S, OfDraft(d))
    BY <1>1, <1>3, <1>7, <1>8, <1>9 DEF Injection, Surjection, OfDraft
  <1> HIDE DEF S, f
  <1>11. Cardinality(S) = Cardinality(OfDraft(d))
    BY <1>9, <1>10, OfDraftFinite, FS_Injection
  <1> QED BY <1>11, OfDraftFinite DEF Copies, S

LEMMA RestoredIsBackup ==
    ASSUME StoreInv, RestoreFromStr
    PROVE  Known' = [d \in Drafts |-> Copies(d, backup.rows)]
  <1>1. store' = [i \in DOMAIN backup.rows |-> [draft |-> backup.rows[i], quads |-> 5]]
    BY FivePredicates DEF RestoreFromStr
  <1>2. Whole' = DOMAIN backup.rows
    BY <1>1, FivePredicates DEF Whole
  <1>3. ASSUME NEW d PROVE Stored(d)' = Copies(d, backup.rows)
    <2>1. {i \in Whole' : store'[i].draft = d} = {i \in DOMAIN backup.rows : backup.rows[i] = d}
      BY <1>1, <1>2
    <2> QED BY <2>1 DEF Stored, Copies
  <1> QED BY <1>3 DEF Known

LEMMA EmptyKnowsNothing ==
    ASSUME store = <<>>
    PROVE  Known = [d \in Drafts |-> 0]
  <1>1. Whole = {}
    BY DEF Whole
  <1>2. ASSUME NEW d PROVE Stored(d) = 0
    <2>1. {i \in Whole : store[i].draft = d} = {}
      BY <1>1
    <2> QED BY <2>1, FS_EmptySet DEF Stored
  <1> QED BY <1>2 DEF Known

LEMMA EmptyKnowsNothingNext == store' = <<>> => Known' = [d \in Drafts |-> 0]
  <1> DEFINE Empty == store = <<>> => Known = [d \in Drafts |-> 0]
  <1>1. Empty
    BY EmptyKnowsNothing
  <1>2. Empty'
    BY <1>1, PTL
  <1> QED BY <1>2

LEMMA SpoiltRecord ==
    ASSUME NEW h, NEW r, NEW other, other = FALSE
    PROVE  [history |-> h, readable |-> other] = [[history |-> h, readable |-> r] EXCEPT !.readable = FALSE]
  <1>1. [[history |-> h, readable |-> r] EXCEPT !.readable = other] = [history |-> h, readable |-> other]
    BY SMT
  <1>2. [[history |-> h, readable |-> r] EXCEPT !.readable = other]
            = [[history |-> h, readable |-> r] EXCEPT !.readable = FALSE]
    BY Zenon
  <1> QED BY <1>1, <1>2, Zenon

\* Every step of the corpus is one of the history, or none.
LEMMA StepKeepsHistory == StoreInv /\ [Next]_vars => [History!Next]_(History!vars)
  <1> SUFFICES ASSUME StoreInv, [Next]_vars
               PROVE  [History!Next]_(History!vars)
    OBVIOUS
  <1> USE DEF Known
  <1>1. ASSUME NEW w \in Writers, Insert(w)
        PROVE  History!Next
    <2>1. answer' = History!Unasked /\ backup' = backup
      BY <1>1 DEF Insert, Quiet, Unasked, History!Unasked
    <2>2. CASE Known' = Known
      BY <2>1, <2>2 DEF History!Next, History!Unseen
    <2>3. ASSUME NEW d \in Drafts, Known' = [Known EXCEPT ![d] = @ + 1]
          PROVE  History!Next
      BY <2>1, <2>3 DEF History!Next, History!Learn
    <2> QED BY <1>1, <2>2, <2>3, InsertLearns
  <1>2. ASSUME NEW w \in Writers, InsertFails(w)
        PROVE  History!Next
    <2>1. answer' = History!Unasked /\ backup' = backup /\ Known' = Known
      BY <1>2, SameKnown DEF InsertFails, Quiet, Unasked, History!Unasked, Whole
    <2> QED BY <2>1 DEF History!Next, History!Unseen
  <1>3. ASSUME NEW w \in Writers, NEW d \in Drafts, AppendVersion(w, d)
        PROVE  History!Next
    <2>1. answer' = History!Unasked /\ backup' = backup
      BY <1>3 DEF AppendVersion, Quiet, Unasked, History!Unasked
    <2>2. Known' = Known
      BY <1>3, AppendUnseen
    <2> QED BY <2>1, <2>2 DEF History!Next, History!Unseen
  <1>4. ASSUME NEW w \in Writers, NEW d \in Drafts, Skip(w, d)
        PROVE  History!Next
    <2>1. answer' = History!Unasked /\ backup' = backup /\ Known' = Known
      BY <1>4, SameKnown DEF Skip, Unasked, History!Unasked, Whole
    <2> QED BY <2>1 DEF History!Next, History!Unseen
  <1>5. ASSUME NEW d \in Drafts, NEW day \in Days, ResolveAsOf(d.eli, day)
        PROVE  History!Next
    <2>1. PICK f \in Resolved(d.eli, day) : answer' = [eli |-> d.eli, day |-> day, found |-> f]
      BY <1>5 DEF ResolveAsOf
    <2>2. backup' = backup /\ Known' = Known
      BY <1>5, SameKnown DEF ResolveAsOf, Whole
    <2>3. f \in IF History!InForce(d.eli, day) = {} THEN {NoVersion} ELSE History!InForce(d.eli, day)
      BY AnswersInForce
    <2>4. History!Ask(d.eli, day)
      BY <2>1, <2>2, <2>3 DEF History!Ask
    <2> QED BY <2>4 DEF History!Next
  <1>6. CASE DumpToString
    <2>1. PICK dumped \in Dumps : backup' = [header |-> "current", rows |-> dumped]
      BY <1>6 DEF DumpToString
    <2>2. answer' = History!Unasked /\ Known' = Known
      BY <1>6, SameKnown DEF DumpToString, Quiet, Unasked, History!Unasked, Whole
    <2>3. \A d \in Drafts : Copies(d, dumped) = Stored(d)
      BY DumpIsComplete
    <2>4. [d \in Drafts |-> Copies(d, backup'.rows)] = Known /\ backup'.header = "current"
      BY <2>1, <2>3
    <2>5. [d \in Drafts |-> Copies(d, backup.rows)]' = Known
      BY <2>4 DEF Copies
    <2>6. History!Save
      BY <2>2, <2>4, <2>5 DEF History!Save
    <2> QED BY <2>6 DEF History!Next
  <1>7. CASE Spoil
    <2>1. answer' = History!Unasked /\ Known' = Known
      BY <1>7, SameKnown DEF Spoil, Quiet, Unasked, History!Unasked, Whole
    <2>2. backup'.rows = backup.rows /\ backup'.header = "other"
      BY <1>7 DEF Spoil, StoreInv
    <2>3. History!Spoil
      <3>1. [d \in Drafts |-> Copies(d, backup.rows)]' = [d \in Drafts |-> Copies(d, backup.rows)]
        BY <2>2 DEF Copies
      <3> DEFINE taken == [d \in Drafts |-> Copies(d, backup.rows)]
      <3>2. taken' = taken /\ backup'.header # "current"
        BY <2>2, <3>1
      <3> HIDE DEF taken
      <3>3. [history |-> taken', readable |-> backup'.header = "current"]
                = [[history |-> taken, readable |-> backup.header = "current"] EXCEPT !.readable = FALSE]
        <4>1. (backup'.header = "current") = FALSE
          BY <3>2
        <4> DEFINE now == backup.header = "current"
                   then == backup'.header = "current"
        <4>3. then = FALSE
          BY <4>1
        <4> HIDE DEF now, then
        <4>4. [history |-> taken, readable |-> then] = [[history |-> taken, readable |-> now] EXCEPT !.readable = FALSE]
          BY <4>3, SpoiltRecord, Zenon
        <4>2. [history |-> taken, readable |-> backup'.header = "current"]
                  = [[history |-> taken, readable |-> backup.header = "current"] EXCEPT !.readable = FALSE]
          BY <4>4 DEF now, then
        <4> QED BY <3>2, <4>2, Zenon
      <3> QED BY <2>1, <3>3 DEF History!Spoil, taken
    <2> QED BY <2>3 DEF History!Next
  <1>8. CASE Restart
    <2>1. answer' = History!Unasked /\ backup' = backup /\ store' = <<>>
      BY <1>8 DEF Restart, Quiet, Unasked, History!Unasked
    <2>2. Known' = [d \in Drafts |-> 0]
      BY <2>1, EmptyKnowsNothingNext
    <2>3. History!Forget
      BY <2>1, <2>2 DEF History!Forget, History!Nothing, Copies
    <2> QED BY <2>3 DEF History!Next
  <1>9. CASE RestoreFromStr
    <2>1. answer' = History!Unasked /\ backup' = backup /\ store = <<>> /\ backup.header = "current"
      BY <1>9 DEF RestoreFromStr, Quiet, Unasked, History!Unasked
    <2>2. Known = [d \in Drafts |-> 0]
      BY <2>1, EmptyKnowsNothing
    <2>3. Known' = [d \in Drafts |-> Copies(d, backup.rows)]
      BY <1>9, RestoredIsBackup
    <2>4. History!Restore
      BY <2>1, <2>2, <2>3 DEF History!Restore, History!Nothing
    <2> QED BY <2>4 DEF History!Next
  <1>10. CASE UNCHANGED vars
    <2>1. answer' = answer /\ backup' = backup /\ Known' = Known
      BY <1>10, SameKnown DEF vars, Whole
    <2> QED BY <2>1 DEF History!vars
  <1> QED BY <1>1, <1>2, <1>3, <1>4, <1>5, <1>6, <1>7, <1>8, <1>9, <1>10 DEF Next

(* The corpus keeps the promise of CorpusHistory: a version appears whole or *)
(* not at all, an answer is the version in force as it was known last, and a *)
(* backup taken in the midst of appends brings back what could be read then  *)
(* (append_version, resolve_as_of, dump_to_string, restore_from_str).        *)
THEOREM KeepsHistoryAlways == Spec => KeepsHistory
  <1>1. Init => History!Init
    <2> SUFFICES ASSUME Init PROVE History!Init
      OBVIOUS
    <2>1. Known = History!Nothing
      BY EmptyKnowsNothing DEF Init, History!Nothing
    <2>2. backup = [header |-> "other", rows |-> <<>>] /\ answer = History!Unasked
      BY DEF Init, Unasked, History!Unasked
    <2>3. [d \in Drafts |-> Copies(d, backup.rows)] = History!Nothing
      <3>1. ASSUME NEW d PROVE Copies(d, <<>>) = 0
        <4>1. {i \in DOMAIN <<>> : <<>>[i] = d} = {}
          OBVIOUS
        <4> QED BY <4>1, FS_EmptySet DEF Copies
      <3> QED BY <2>2, <3>1 DEF History!Nothing
    <2> QED BY <2>1, <2>2, <2>3 DEF History!Init, Known
  <1> QED BY <1>1, StepKeepsHistory, StoreAlways, PTL DEF Spec, KeepsHistory, History!Spec

-----------------------------------------------------------------------------
(* Numbers.  Induction is had from the least for which a claim does not hold. *)
LEMMA LeastOf ==
    ASSUME NEW T, T \subseteq Nat, T # {}
    PROVE  \E x \in T : \A y \in T : x <= y
  <1>1. PICK x \in T : \A y \in T : ~ (<<y, x>> \in OpToRel(<, Nat))
    BY WFMin, NatLessThanWellFounded
  <1>2. \A y \in T : ~(y < x)
    BY <1>1 DEF OpToRel
  <1> QED BY <1>2

LEMMA LastOf ==
    ASSUME NEW n \in Nat, NEW T, T \subseteq 1..n, T # {}
    PROVE  \E x \in T : \A y \in T : y <= x
  <1> DEFINE bounds == {m \in Nat : \A y \in T : y <= m}
  <1>1. n \in bounds
    OBVIOUS
  <1>2. PICK m \in bounds : \A k \in bounds : m <= k
    <2>1. bounds \subseteq Nat /\ bounds # {}
      BY <1>1
    <2> HIDE DEF bounds
    <2> QED BY <2>1, LeastOf
  <1>3. ASSUME m \notin T PROVE FALSE
    <2>1. \A y \in T : y <= m - 1 /\ y >= 1
      BY <1>3
    <2>2. m - 1 \in Nat
      <3>1. PICK y \in T : TRUE
        OBVIOUS
      <3> QED BY <2>1, <3>1
    <2>3. m - 1 \in bounds
      BY <2>1, <2>2
    <2> QED BY <1>2, <2>3
  <1> QED BY <1>3

LEMMA MaxIs ==
    ASSUME NEW n \in Nat, NEW T, T \subseteq 1..n, T # {}
    PROVE  Max(T) \in T /\ \A y \in T : y <= Max(T)
  <1>1. \E x \in T : \A y \in T : x >= y
    <2>1. PICK x \in T : \A y \in T : y <= x
      BY LastOf
    <2>2. \A y \in T : x >= y
      BY <2>1
    <2> QED BY <2>2
  <1> QED BY <1>1 DEF Max

-----------------------------------------------------------------------------
(* Sequences laid end to end, and folds.                                      *)
Flattens(f, ss, k) == f = [i \in 1..k |-> IF i = 1 THEN ss[i] ELSE f[i - 1] \o ss[i]]

\* One more piece is laid behind the others.
LEMMA FlattensMore ==
    ASSUME NEW ss, NEW n \in Nat, NEW k \in 1..n, k = 1 \/ \E f : Flattens(f, ss, k - 1)
    PROVE  \E f : Flattens(f, ss, k)
  <1>1. CASE k = 1
    <2>1. Flattens([i \in 1..1 |-> ss[1]], ss, 1)
      BY DEF Flattens
    <2> QED BY <1>1, <2>1
  <1>2. CASE k # 1
    <2>1. PICK f : Flattens(f, ss, k - 1)
      BY <1>2
    <2> DEFINE g == [i \in 1..k |-> IF i = k THEN f[k - 1] \o ss[k] ELSE f[i]]
    <2>2. \A i \in 1..k - 1 : f[i] = IF i = 1 THEN ss[i] ELSE f[i - 1] \o ss[i]
      BY <2>1 DEF Flattens
    <2>3. \A i \in 1..k : g[i] = IF i = 1 THEN ss[i] ELSE g[i - 1] \o ss[i]
      <3> TAKE i \in 1..k
      <3>1. CASE i = k
        <4>1. g[k - 1] = f[k - 1]
          BY <1>2
        <4> QED BY <1>2, <3>1, <4>1
      <3>2. CASE i # k
        <4>1. g[i] = f[i] /\ (i # 1 => g[i - 1] = f[i - 1])
          BY <3>2
        <4> QED BY <2>2, <3>2, <4>1
      <3> QED BY <3>1, <3>2
    <2>4. g = [i \in 1..k |-> g[i]]
      OBVIOUS
    <2> HIDE DEF g
    <2>5. Flattens(g, ss, k)
      BY <2>3, <2>4 DEF Flattens
    <2> QED BY <2>5
  <1> QED BY <1>1, <1>2

\* FlattenSeq lays its pieces end to end, from the first.
LEMMA FlattenIs ==
    ASSUME NEW V, NEW ss \in Seq(Seq(V))
    PROVE  \E f : /\ f \in [0..Len(ss) -> Seq(V)] /\ f[0] = <<>> /\ f[Len(ss)] = FlattenSeq(ss)
                  /\ \A k \in 1..Len(ss) : f[k] = f[k - 1] \o ss[k]
  <1> DEFINE n == Len(ss)
             missing == {k \in 1..n : ~ \E f : Flattens(f, ss, k)}
  <1>0. n \in Nat /\ \A k \in 1..n : ss[k] \in Seq(V)
    BY ElementOfSeq
  <1>1. CASE n = 0
    <2> DEFINE f == [k \in 0..n |-> <<>>]
    <2>1. FlattenSeq(ss) = ss /\ ss = <<>>
      BY <1>1 DEF FlattenSeq
    <2>2. f \in [0..n -> Seq(V)]
      BY EmptySeq
    <2>3. f[0] = <<>>
      BY <1>0
    <2>4. f[Len(ss)] = FlattenSeq(ss) /\ \A k \in 1..n : f[k] = f[k - 1] \o ss[k]
      BY <1>1, <2>1, <2>3
    <2> HIDE DEF f
    <2> QED BY <2>2, <2>3, <2>4
  <1>2. CASE n # 0
    <2>1. ASSUME missing # {} PROVE FALSE
      <3>1. PICK k \in missing : \A m \in missing : k <= m
        <4>1. missing \subseteq Nat
          OBVIOUS
        <4> HIDE DEF missing
        <4> QED BY <2>1, <4>1, LeastOf
      <3>2. k \in 1..n /\ ~ \E f : Flattens(f, ss, k)
        OBVIOUS
      <3>3. k = 1 \/ k - 1 \notin missing
        <4> HIDE DEF missing
        <4> QED BY <1>0, <3>1, <3>2
      <3>4. k = 1 \/ \E f : Flattens(f, ss, k - 1)
        BY <1>0, <3>2, <3>3
      <3> QED BY <1>0, <3>2, <3>4, FlattensMore
    <2>2. \E f : Flattens(f, ss, n)
      <3>1. n \in 1..n
        BY <1>0, <1>2
      <3>2. \A k \in 1..n : \E f : Flattens(f, ss, k)
        BY <2>1
      <3> HIDE DEF n
      <3> QED BY <3>1, <3>2
    <2> DEFINE fl == CHOOSE f : Flattens(f, ss, n)
    <2>3. Flattens(fl, ss, n)
      BY <2>2
    <2>4. FlattenSeq(ss) = fl[n]
      BY <1>2 DEF FlattenSeq, Flattens
    <2> HIDE DEF fl
    <2>5. \A i \in 1..n : fl[i] = IF i = 1 THEN ss[i] ELSE fl[i - 1] \o ss[i]
      BY <2>3 DEF Flattens
    <2> DEFINE wrong == {k \in 1..n : fl[k] \notin Seq(V)}
    <2>6. ASSUME wrong # {} PROVE FALSE
      <3>1. PICK k \in wrong : \A m \in wrong : k <= m
        <4>1. wrong \subseteq Nat
          OBVIOUS
        <4> HIDE DEF wrong
        <4> QED BY <2>6, <4>1, LeastOf
      <3>2. k \in 1..n /\ fl[k] \notin Seq(V)
        OBVIOUS
      <3>3. CASE k = 1
        BY <1>0, <2>5, <3>2, <3>3
      <3>4. CASE k # 1
        <4>1. k - 1 \in 1..n /\ k - 1 \notin wrong
          BY <1>0, <3>1, <3>2, <3>4
        <4>2. fl[k - 1] \in Seq(V) /\ ss[k] \in Seq(V) /\ fl[k] = fl[k - 1] \o ss[k]
          BY <1>0, <2>5, <3>2, <3>4, <4>1
        <4> QED BY <3>2, <4>2, ConcatProperties
      <3> QED BY <3>3, <3>4
    <2> DEFINE f == [k \in 0..n |-> IF k = 0 THEN <<>> ELSE fl[k]]
    <2>7. f \in [0..n -> Seq(V)]
      BY <1>0, <2>6, EmptySeq
    <2>8. f[0] = <<>> /\ f[n] = FlattenSeq(ss)
      BY <1>0, <1>2, <2>4
    <2>9. ASSUME NEW k \in 1..n PROVE f[k] = f[k - 1] \o ss[k]
      <3>1. CASE k = 1
        <4>1. <<>> \o ss[k] = ss[k]
          BY <1>0, ConcatEmptySeq
        <4>2. f[k] = ss[k] /\ f[k - 1] = <<>>
          BY <1>0, <2>5, <3>1
        <4> QED BY <4>1, <4>2
      <3>2. CASE k # 1
        <4>1. f[k] = fl[k] /\ f[k - 1] = fl[k - 1]
          BY <1>0, <3>2
        <4> QED BY <2>5, <3>2, <4>1
      <3> QED BY <3>1, <3>2
    <2> HIDE DEF f
    <2> QED BY <2>7, <2>8, <2>9
  <1> QED BY <1>1, <1>2

\* A fold from the left, as the libraries define it: over sets of places, the last first.
Folding(f, V, base, step, s, k) ==
    /\ f \in [SUBSET (1..k) -> V]
    /\ \A T \in SUBSET (1..k) :
          f[T] = IF T = {} THEN base ELSE step[<<f[T \ {Max(T)}], s[Max(T)]>>]

\* A fold of one more place.
LEMMA FoldsMore ==
    ASSUME NEW V, NEW P, NEW base \in V, NEW step \in [V \X P -> V], NEW n \in Nat, NEW s \in [1..n -> P],
           NEW k \in 1..n, \E f : Folding(f, V, base, step, s, k - 1)
    PROVE  \E f : Folding(f, V, base, step, s, k)
  <1>1. PICK f : Folding(f, V, base, step, s, k - 1)
    OBVIOUS
  <1> DEFINE g == [T \in SUBSET (1..k) |-> IF T = {} THEN base ELSE step[<<f[T \ {Max(T)}], s[Max(T)]>>]]
  <1>2. ASSUME NEW T \in SUBSET (1..k), T # {}
        PROVE  Max(T) \in 1..n /\ T \ {Max(T)} \in SUBSET (1..k - 1)
    <2>0. T \subseteq 1..k /\ k \in Nat /\ \A y \in T : y \in Nat /\ y >= 1 /\ y <= k
      OBVIOUS
    <2>1. Max(T) \in T /\ \A y \in T : y <= Max(T)
      BY <1>2, <2>0, MaxIs
    <2> DEFINE m == Max(T)
    <2> HIDE DEF m
    <2>2. m \in T /\ \A y \in T : y <= m
      BY <2>1 DEF m
    <2>3. \A y \in T \ {m} : y \in 1..k - 1
      BY <2>0, <2>2
    <2>4. m \in 1..n
      BY <2>0, <2>2
    <2> QED BY <2>3, <2>4 DEF m
  <1>3. g \in [SUBSET (1..k) -> V]
    <2>1. ASSUME NEW T \in SUBSET (1..k) PROVE g[T] \in V
      <3>1. CASE T = {}
        BY <3>1
      <3>2. CASE T # {}
        <4>1. f[T \ {Max(T)}] \in V /\ s[Max(T)] \in P
          BY <1>1, <1>2, <3>2 DEF Folding
        <4> QED BY <3>2, <4>1
      <3> QED BY <3>1, <3>2
    <2> QED BY <2>1
  <1>4. \A T \in SUBSET (1..k - 1) : T \in SUBSET (1..k) /\ g[T] = f[T]
    <2> TAKE T \in SUBSET (1..k - 1)
    <2>1. T \in SUBSET (1..k)
      OBVIOUS
    <2>2. f[T] = IF T = {} THEN base ELSE step[<<f[T \ {Max(T)}], s[Max(T)]>>]
      BY <1>1 DEF Folding
    <2> QED BY <2>1, <2>2
  <1>5. ASSUME NEW T \in SUBSET (1..k)
        PROVE  g[T] = IF T = {} THEN base ELSE step[<<g[T \ {Max(T)}], s[Max(T)]>>]
    <2>1. CASE T = {}
      BY <2>1
    <2>2. CASE T # {}
      <3>1. g[T \ {Max(T)}] = f[T \ {Max(T)}]
        BY <1>2, <1>4, <2>2
      <3>2. g[T] = step[<<f[T \ {Max(T)}], s[Max(T)]>>]
        BY <2>2
      <3> HIDE DEF g
      <3> QED BY <2>2, <3>1, <3>2
    <2> QED BY <2>1, <2>2
  <1> HIDE DEF g
  <1>6. Folding(g, V, base, step, s, k)
    BY <1>3, <1>5 DEF Folding
  <1> QED BY <1>6

\* Over every sequence there is the fold, place by place.
LEMMA FoldExists ==
    ASSUME NEW V, NEW P, NEW base \in V, NEW step \in [V \X P -> V], NEW n \in Nat, NEW s \in [1..n -> P]
    PROVE  \E f : Folding(f, V, base, step, s, n)
  <1> DEFINE missing == {k \in 0..n : ~ \E f : Folding(f, V, base, step, s, k)}
  <1>1. ASSUME missing # {} PROVE FALSE
    <2>1. PICK k \in missing : \A m \in missing : k <= m
      <3>1. missing \subseteq Nat
        OBVIOUS
      <3> HIDE DEF missing
      <3> QED BY <1>1, <3>1, LeastOf
    <2>2. k \in 0..n /\ ~ \E f : Folding(f, V, base, step, s, k)
      OBVIOUS
    <2>3. CASE k = 0
      <3> DEFINE f == [T \in SUBSET (1..0) |-> base]
      <3>1. \A T \in SUBSET (1..0) : T = {}
        OBVIOUS
      <3>2. f \in [SUBSET (1..0) -> V]
        OBVIOUS
      <3>3. \A T \in SUBSET (1..0) : f[T] = base
        OBVIOUS
      <3> HIDE DEF f
      <3>4. Folding(f, V, base, step, s, 0)
        BY <3>1, <3>2, <3>3 DEF Folding
      <3> QED BY <2>2, <2>3, <3>4
    <2>4. CASE k # 0
      <3>1. k \in 1..n /\ k - 1 \in 0..n
        BY <2>2, <2>4
      <3>2. k - 1 \notin missing
        <4> HIDE DEF missing
        <4> QED BY <2>1, <2>2, <3>1
      <3>3. \E f : Folding(f, V, base, step, s, k - 1)
        BY <3>1, <3>2
      <3> QED BY <2>2, <3>1, <3>3, FoldsMore
    <2> QED BY <2>3, <2>4
  <1> QED BY <1>1

\* What each step keeps of a kind is of that kind in the end.
Keeping(it, V, base, step, s, n) ==
    /\ it[{}] = base
    /\ \A T \in SUBSET (1..n) : T # {} /\ it[T \ {Max(T)}] \in V => it[T] = step[<<it[T \ {Max(T)}], s[Max(T)]>>]

Steps(g, V, base, step, s, n) ==
    g \in [0..n -> V] /\ g[0] = base /\ \A k \in 1..n : g[k] = step[<<g[k - 1], s[k]>>]

EndsWith(result, V, base, step, s, n) == \E g : Steps(g, V, base, step, s, n) /\ g[n] = result

\* And FoldLeft, as the library defines it, is that fold.
LEMMA FoldSteps ==
    ASSUME NEW V, NEW P, NEW base \in V, NEW step \in [V \X P -> V], NEW n \in Nat, NEW s \in [1..n -> P],
           NEW it, Keeping(it, V, base, step, s, n)
    PROVE  EndsWith(it[1..n], V, base, step, s, n)
  <1>0. it[1..0] = base
    <2>1. 1..0 = {}
      OBVIOUS
    <2> QED BY <2>1 DEF Keeping
  <1>1. ASSUME NEW k \in 1..n, it[1..k - 1] \in V
        PROVE  it[1..k] \in V /\ it[1..k] = step[<<it[1..k - 1], s[k]>>]
    <2> DEFINE T == 1..k
    <2>1. T \in SUBSET (1..n) /\ T # {} /\ k \in T /\ \A y \in T : y <= k
      <3>1. \A y \in T : y \in 1..n /\ y <= k
        OBVIOUS
      <3>2. k \in T
        OBVIOUS
      <3> QED BY <3>1, <3>2
    <2>2. Max(T) = k
      <3>1. Max(T) \in T /\ k <= Max(T)
        <4> HIDE DEF T
        <4> QED BY <2>1, MaxIs
      <3> QED BY <2>1, <3>1
    <2>3. T \ {k} = 1..k - 1
      OBVIOUS
    <2>4. it[T] = step[<<it[1..k - 1], s[k]>>]
      <3> HIDE DEF T
      <3> QED BY <1>1, <2>1, <2>2, <2>3 DEF Keeping
    <2>5. s[k] \in P
      OBVIOUS
    <2> QED BY <1>1, <2>4, <2>5
  <1> DEFINE wrong == {k \in 0..n : it[1..k] \notin V}
  <1>2. ASSUME wrong # {} PROVE FALSE
    <2>1. PICK k \in wrong : \A m \in wrong : k <= m
      <3>1. wrong \subseteq Nat
        OBVIOUS
      <3> HIDE DEF wrong
      <3> QED BY <1>2, <3>1, LeastOf
    <2>2. k \in 0..n /\ it[1..k] \notin V
      OBVIOUS
    <2>3. k \in 1..n /\ k - 1 \in 0..n /\ k - 1 < k
      BY <1>0, <2>2
    <2>4. k - 1 \notin wrong
      <3> HIDE DEF wrong
      <3> QED BY <2>1, <2>2, <2>3
    <2>5. it[1..k - 1] \in V
      BY <2>3, <2>4
    <2> QED BY <1>1, <2>2, <2>3, <2>5
  <1>3. \A k \in 0..n : it[1..k] \in V
    BY <1>2
  <1> DEFINE g == [k \in 0..n |-> it[1..k]]
  <1>4. \A k \in 0..n : g[k] = it[1..k] /\ g[k] \in V
    BY <1>3
  <1>5. g \in [0..n -> V] /\ 0 \in 0..n /\ n \in 0..n
    <2>1. g = [k \in 0..n |-> g[k]] /\ 0 \in 0..n /\ n \in 0..n
      OBVIOUS
    <2> HIDE DEF g
    <2> QED BY <1>4, <2>1
  <1> HIDE DEF g
  <1>6. ASSUME NEW k \in 1..n PROVE g[k] = step[<<g[k - 1], s[k]>>]
    <2>1. k \in 0..n /\ k - 1 \in 0..n
      OBVIOUS
    <2>2. it[1..k] = step[<<it[1..k - 1], s[k]>>]
      BY <1>1, <1>3, <2>1
    <2> QED BY <1>4, <2>1, <2>2
  <1>7. Steps(g, V, base, step, s, n)
    BY <1>0, <1>4, <1>5, <1>6 DEF Steps
  <1> QED BY <1>4, <1>5, <1>7 DEF EndsWith

LEMMA ConcatAppend ==
    ASSUME NEW A, NEW s \in Seq(A), NEW v \in Seq(A), NEW c \in A
    PROVE  s \o Append(v, c) = Append(s \o v, c)
  <1>1. <<c>> \in Seq(A) /\ Append(v, c) = v \o <<c>> /\ s \o v \in Seq(A)
    BY AppendIsConcat, ConcatProperties
  <1>2. Append(s \o v, c) = (s \o v) \o <<c>>
    BY <1>1, AppendIsConcat
  <1>3. s \o (v \o <<c>>) = (s \o v) \o <<c>>
    BY <1>1, ConcatAssociative
  <1> QED BY <1>1, <1>2, <1>3

\* Append and \o, named, so that a step can leave them whole.
Ext(s, c) == Append(s, c)
Cat(s, t) == s \o t

LEMMA CatTyped ==
    ASSUME NEW A, NEW s \in Seq(A), NEW t \in Seq(A)
    PROVE  Cat(s, t) \in Seq(A) /\ Len(Cat(s, t)) = Len(s) + Len(t) /\ Cat(s, <<>>) = s /\ Cat(<<>>, s) = s
  BY ConcatProperties, ConcatEmptySeq DEF Cat

LEMMA CatElements ==
    ASSUME NEW A, NEW s \in Seq(A), NEW t \in Seq(A), NEW i \in 1..Len(s) + Len(t)
    PROVE  Cat(s, t) \in Seq(A) /\ Cat(s, t)[i] = IF i <= Len(s) THEN s[i] ELSE t[i - Len(s)]
  BY ConcatProperties DEF Cat

LEMMA ExtTyped ==
    ASSUME NEW A, NEW s \in Seq(A), NEW c \in A
    PROVE  Ext(s, c) \in Seq(A) /\ Len(Ext(s, c)) = Len(s) + 1
  BY AppendProperties DEF Ext

LEMMA ExtElements ==
    ASSUME NEW A, NEW s \in Seq(A), NEW c \in A, NEW i \in 1..Len(s) + 1
    PROVE  Ext(s, c) \in Seq(A) /\ Ext(s, c)[i] = IF i = Len(s) + 1 THEN c ELSE s[i]
  BY AppendProperties DEF Ext

Extends(t, s, c) == \A i \in 1..Len(s) + 1 : t[i] = IF i = Len(s) + 1 THEN c ELSE s[i]

LEMMA ExtExtends ==
    ASSUME NEW A, NEW s \in Seq(A), NEW c \in A
    PROVE  Ext(s, c) \in Seq(A) /\ Len(Ext(s, c)) = Len(s) + 1 /\ Extends(Ext(s, c), s, c)
  <1>1. \A i \in 1..Len(s) + 1 : Ext(s, c)[i] = IF i = Len(s) + 1 THEN c ELSE s[i]
    BY AppendProperties DEF Ext
  <1> QED BY <1>1, ExtTyped DEF Extends

LEMMA CatExt ==
    ASSUME NEW A, NEW s \in Seq(A), NEW v \in Seq(A), NEW c \in A
    PROVE  Cat(s, Ext(v, c)) = Ext(Cat(s, v), c)
  BY ConcatAppend DEF Cat, Ext

LEMMA CatAssociative ==
    ASSUME NEW A, NEW s \in Seq(A), NEW t \in Seq(A), NEW u \in Seq(A)
    PROVE  Cat(Cat(s, t), u) = Cat(s, Cat(t, u))
  BY ConcatAssociative DEF Cat

\* A piece more at the end of what is laid.
LEMMA FlattenMore ==
    ASSUME NEW V, NEW ss \in Seq(Seq(V)), NEW x \in Seq(V)
    PROVE  /\ FlattenSeq(ss) \in Seq(V)
           /\ FlattenSeq(Append(ss, x)) = FlattenSeq(ss) \o x
  <1> DEFINE tt == Append(ss, x)
             n  == Len(ss)
  <1>1. n \in Nat /\ tt \in Seq(Seq(V)) /\ Len(tt) = n + 1 /\ tt[n + 1] = x /\ \A k \in 1..n : tt[k] = ss[k]
    BY AppendProperties, LenProperties
  <1> HIDE DEF tt
  <1>2. PICK f : /\ f \in [0..Len(ss) -> Seq(V)] /\ f[0] = <<>> /\ f[Len(ss)] = FlattenSeq(ss)
                 /\ \A k \in 1..Len(ss) : f[k] = f[k - 1] \o ss[k]
    BY FlattenIs
  <1>3. PICK g : /\ g \in [0..Len(tt) -> Seq(V)] /\ g[0] = <<>> /\ g[Len(tt)] = FlattenSeq(tt)
                 /\ \A k \in 1..Len(tt) : g[k] = g[k - 1] \o tt[k]
    BY <1>1, FlattenIs
  <1> DEFINE wrong == {k \in 0..n : g[k] # f[k]}
  <1>4. ASSUME wrong # {} PROVE FALSE
    <2>1. PICK k \in wrong : \A m \in wrong : k <= m
      <3>1. wrong \subseteq Nat
        OBVIOUS
      <3> HIDE DEF wrong
      <3> QED BY <1>4, <3>1, LeastOf
    <2>2. k \in 0..n /\ g[k] # f[k]
      OBVIOUS
    <2>3. k \in 1..n /\ k - 1 \in 0..n
      BY <1>1, <1>2, <1>3, <2>2
    <2>4. k - 1 \notin wrong
      <3> HIDE DEF wrong
      <3> QED BY <1>1, <2>1, <2>2, <2>3
    <2>5. g[k - 1] = f[k - 1]
      BY <2>3, <2>4
    <2>6. g[k] = g[k - 1] \o tt[k] /\ f[k] = f[k - 1] \o ss[k] /\ tt[k] = ss[k]
      <3>1. k \in 1..Len(tt)
        BY <1>1, <2>3
      <3>2. g[k] = g[k - 1] \o tt[k]
        BY <1>3, <3>1
      <3>3. f[k] = f[k - 1] \o ss[k]
        BY <1>2, <2>3
      <3> QED BY <1>1, <2>3, <3>2, <3>3
    <2> QED BY <2>2, <2>5, <2>6
  <1>5. g[n] = f[n]
    BY <1>1, <1>4
  <1>6. g[n + 1] = g[n] \o x
    <2> DEFINE m == n + 1
    <2>1. m \in 1..Len(tt) /\ m - 1 = n /\ tt[m] = x
      BY <1>1
    <2> HIDE DEF m
    <2>2. g[m] = g[m - 1] \o tt[m]
      BY <1>3, <2>1
    <2> QED BY <2>1, <2>2 DEF m
  <1>7. f[n] \in Seq(V)
    <2> DEFINE W == Seq(V)
    <2>1. f \in [0..n -> W] /\ n \in 0..n
      BY <1>1, <1>2
    <2> HIDE DEF W
    <2>2. f[n] \in W
      BY <2>1
    <2> QED BY <2>2 DEF W
  <1>8. FlattenSeq(ss) = f[n] /\ FlattenSeq(tt) = g[n + 1]
    <2>1. FlattenSeq(tt) = g[n + 1]
      BY <1>1, <1>3
    <2> QED BY <1>2, <2>1
  <1>9. FlattenSeq(ss) \in Seq(V) /\ FlattenSeq(tt) = FlattenSeq(ss) \o x
    BY <1>5, <1>6, <1>7, <1>8
  <1> QED BY <1>9 DEF tt

\* The same of a step that takes a kind to itself.
Ending(result, V, P, base, step, s, n) == step \in [V \X P -> V] /\ base \in V /\ EndsWith(result, V, base, step, s, n)

Next1(step, v, c) == step[<<v, c>>]

\* Two folds that start alike: an element more is one step more.
LEMMA FoldMore ==
    ASSUME NEW V, NEW P, NEW base, NEW step, NEW s \in Seq(P), NEW c \in P, NEW a, NEW b, NEW t, t = Ext(s, c),
           Ending(a, V, P, base, step, s, Len(s)), Ending(b, V, P, base, step, t, Len(t))
    PROVE  a \in V /\ b = Next1(step, a, c)
  <1> DEFINE n == Len(s)
  <1>1. n \in Nat /\ Len(t) = n + 1 /\ t[n + 1] = c /\ \A k \in 1..n : t[k] = s[k]
    BY AppendProperties, LenProperties DEF Ext
  <1>2. PICK f : Steps(f, V, base, step, s, n) /\ f[n] = a
    BY DEF Ending, EndsWith
  <1>3. PICK g : Steps(g, V, base, step, t, n + 1) /\ g[n + 1] = b
    BY <1>1 DEF Ending, EndsWith
  <1> HIDE DEF n
  <1> DEFINE wrong == {k \in 0..n : g[k] # f[k]}
  <1>4. ASSUME wrong # {} PROVE FALSE
    <2>1. PICK k \in wrong : \A m \in wrong : k <= m
      <3>1. wrong \subseteq Nat
        OBVIOUS
      <3> HIDE DEF wrong
      <3> QED BY <1>4, <3>1, LeastOf
    <2>2. k \in 0..n /\ g[k] # f[k]
      OBVIOUS
    <2>3. k \in 1..n /\ k - 1 \in 0..n
      <3>1. g[0] = base /\ f[0] = base
        BY <1>2, <1>3 DEF Steps
      <3> QED BY <1>1, <2>2, <3>1
    <2>4. k - 1 \notin wrong
      <3> HIDE DEF wrong
      <3> QED BY <1>1, <2>1, <2>2, <2>3
    <2>5. g[k - 1] = f[k - 1]
      BY <2>3, <2>4
    <2>6. g[k] = step[<<g[k - 1], t[k]>>] /\ f[k] = step[<<f[k - 1], s[k]>>] /\ t[k] = s[k]
      <3>1. k \in 1..n + 1
        BY <1>1, <2>3
      <3>2. g[k] = step[<<g[k - 1], t[k]>>]
        BY <1>3, <3>1 DEF Steps
      <3>3. f[k] = step[<<f[k - 1], s[k]>>]
        BY <1>2, <2>3 DEF Steps
      <3> QED BY <1>1, <2>3, <3>2, <3>3
    <2> QED BY <2>2, <2>5, <2>6
  <1>5. g[n] = f[n]
    BY <1>1, <1>4
  <1>6. g[n + 1] = step[<<g[n], c>>]
    <2> DEFINE m == n + 1
    <2>1. m \in 1..n + 1 /\ m - 1 = n /\ t[m] = c
      BY <1>1
    <2> HIDE DEF m
    <2>2. g[m] = step[<<g[m - 1], t[m]>>]
      BY <1>3, <2>1 DEF Steps
    <2> QED BY <2>1, <2>2 DEF m
  <1>7. f[n] \in V
    <2>1. n \in 0..n
      BY <1>1
    <2>2. f \in [0..n -> V]
      BY <1>2, Zenon DEF Steps
    <2> QED BY <2>1, <2>2
  <1> QED BY <1>2, <1>3, <1>5, <1>6, <1>7 DEF Next1

LEMMA FoldNone ==
    ASSUME NEW V, NEW base, NEW step, NEW a, EndsWith(a, V, base, step, <<>>, 0)
    PROVE  a = base
  BY DEF EndsWith, Steps

-----------------------------------------------------------------------------
(* str::split, character by character.                                        *)
Parting(parts, c, x) == IF c = x THEN Append(parts, <<>>) ELSE [parts EXCEPT ![Len(parts)] = Append(@, c)]

PartingStep(A, x) == [v \in Seq(Seq(A)) \X A |-> Parting(v[1], v[2], x)]

LEMMA PartingTyped ==
    ASSUME NEW A, NEW x
    PROVE  /\ PartingStep(A, x) \in [Seq(Seq(A)) \X A -> Seq(Seq(A))]
           /\ \A parts \in Seq(Seq(A)), c \in A : PartingStep(A, x)[<<parts, c>>] = Parting(parts, c, x)
  <1>1. ASSUME NEW parts \in Seq(Seq(A)), NEW c \in A PROVE Parting(parts, c, x) \in Seq(Seq(A))
    <2>1. <<>> \in Seq(A)
      BY EmptySeq
    <2>2. ASSUME Len(parts) \in 1..Len(parts)
          PROVE  [parts EXCEPT ![Len(parts)] = Append(@, c)] \in Seq(Seq(A))
      <3>1. parts[Len(parts)] \in Seq(A)
        BY <2>2, ElementOfSeq
      <3>2. Append(parts[Len(parts)], c) \in Seq(A)
        BY <3>1, AppendProperties
      <3> QED BY <2>2, <3>2, ExceptSeq
    <2>3. ASSUME Len(parts) \notin 1..Len(parts)
          PROVE  [parts EXCEPT ![Len(parts)] = Append(@, c)] = parts
      <3>1. DOMAIN parts = 1..Len(parts) /\ parts = [i \in 1..Len(parts) |-> parts[i]]
        BY LenProperties
      <3> QED BY <2>3, <3>1
    <2> QED BY <2>1, <2>2, <2>3, AppendProperties DEF Parting
  <1> QED BY <1>1 DEF PartingStep

LEMMA SplitSteps ==
    ASSUME NEW A, NEW x, NEW s \in Seq(A)
    PROVE  EndsWith(Split(s, x), Seq(Seq(A)), <<<<>>>>, PartingStep(A, x), s, Len(s))
  <1> DEFINE n == Len(s)
             V == Seq(Seq(A))
             step == PartingStep(A, x)
             Rec(f) == f = [T \in SUBSET (1..n) |-> IF T = {} THEN <<<<>>>> ELSE Parting(f[T \ {Max(T)}], s[Max(T)], x)]
             iter == CHOOSE f : Rec(f)
  <1>0. n \in Nat /\ s \in [1..n -> A] /\ DOMAIN s = 1..n
    BY LenProperties
  <1>1. Split(s, x) = iter[1..n]
    BY <1>0 DEF Split, FoldLeft, MapThenFoldSet, Parting
  <1>2. <<<<>>>> \in V
    BY EmptySeq
  <1>3. step \in [V \X A -> V] /\ \A p \in V, c \in A : step[<<p, c>>] = Parting(p, c, x)
    BY PartingTyped
  <1> HIDE DEF V, step
  <1>5. PICK f : Folding(f, V, <<<<>>>>, step, s, n)
    BY <1>0, <1>2, <1>3, FoldExists
  <1>6. \A T \in SUBSET (1..n) : T # {} => Max(T) \in 1..n /\ T \ {Max(T)} \in SUBSET (1..n)
    BY <1>0, MaxIs
  <1>7. Rec(f)
    <2>1. \A T \in SUBSET (1..n) : f[T] = IF T = {} THEN <<<<>>>> ELSE Parting(f[T \ {Max(T)}], s[Max(T)], x)
      <3> TAKE T \in SUBSET (1..n)
      <3>1. CASE T = {}
        BY <1>5, <3>1 DEF Folding
      <3>2. CASE T # {}
        <4>1. f[T \ {Max(T)}] \in V /\ s[Max(T)] \in A
          BY <1>0, <1>5, <1>6, <3>2 DEF Folding
        <4>2. f[T] = step[<<f[T \ {Max(T)}], s[Max(T)]>>]
          BY <1>5, <3>2 DEF Folding
        <4> QED BY <1>3, <3>2, <4>1, <4>2
      <3> QED BY <3>1, <3>2
    <2>2. f \in [SUBSET (1..n) -> V]
      BY <1>5 DEF Folding
    <2> QED BY <2>1, <2>2
  <1>8. Rec(iter)
    <2> HIDE DEF Rec
    <2> QED BY <1>7
  <1> HIDE DEF iter
  <1>9. iter[{}] = <<<<>>>> /\ \A T \in SUBSET (1..n) : T # {} => iter[T] = Parting(iter[T \ {Max(T)}], s[Max(T)], x)
    BY <1>8
  <1> HIDE DEF Rec
  <1>10. ASSUME NEW T \in SUBSET (1..n), T # {}, iter[T \ {Max(T)}] \in V
         PROVE  iter[T] = step[<<iter[T \ {Max(T)}], s[Max(T)]>>]
    <2>1. s[Max(T)] \in A
      BY <1>0, <1>6, <1>10
    <2> QED BY <1>3, <1>9, <1>10, <2>1
  <1>11. Keeping(iter, V, <<<<>>>>, step, s, n)
    BY <1>9, <1>10 DEF Keeping
  <1>12. EndsWith(iter[1..n], V, <<<<>>>>, step, s, n)
    <2> HIDE DEF n
    <2> QED BY <1>0, <1>2, <1>3, <1>11, FoldSteps
  <1> QED BY <1>1, <1>12 DEF V, step

\* A character more: Parting is the step of str::split.
LEMMA SplitMore ==
    ASSUME NEW A, NEW x, NEW s \in Seq(A), NEW c \in A
    PROVE  Split(s, x) \in Seq(Seq(A)) /\ Split(Ext(s, c), x) = Parting(Split(s, x), c, x)
  <1> DEFINE V == Seq(Seq(A))
             base == <<<<>>>>
             step == PartingStep(A, x)
             t == Ext(s, c)
             a == Split(s, x)
             b == Split(t, x)
  <1>1. t \in Seq(A) /\ t = Ext(s, c)
    BY ExtTyped
  <1>2. base \in V
    BY EmptySeq
  <1>3. step \in [V \X A -> V] /\ \A parts \in V : step[<<parts, c>>] = Parting(parts, c, x)
    BY PartingTyped
  <1> HIDE DEF t
  <1>4. Ending(a, V, A, base, step, s, Len(s)) /\ Ending(b, V, A, base, step, t, Len(t))
    BY <1>1, <1>2, <1>3, SplitSteps DEF Ending
  <1> HIDE DEF V, base, step, a, b
  <1>5. a \in V /\ b = Next1(step, a, c)
    BY <1>1, <1>2, <1>3, <1>4, FoldMore
  <1> QED BY <1>3, <1>5 DEF V, a, b, t, Next1

LEMMA SplitNone == ASSUME NEW x PROVE Split(<<>>, x) = <<<<>>>>
  <1>1. <<>> \in Seq({}) /\ Len(<<>>) = 0
    BY EmptySeq
  <1>2. EndsWith(Split(<<>>, x), Seq(Seq({})), <<<<>>>>, PartingStep({}, x), <<>>, 0)
    BY <1>1, SplitSteps
  <1> QED BY <1>2, FoldNone

\* A separator begins a new part, and any other character goes on with the last.
LEMMA SplitOn ==
    ASSUME NEW A, NEW x, NEW s \in Seq(A), NEW p \in Seq(Seq(A)), NEW l \in Seq(A), Split(s, x) = Ext(p, l),
           NEW c \in A
    PROVE  /\ c = x => Split(Ext(s, c), x) = Ext(Ext(p, l), <<>>)
           /\ c # x => Split(Ext(s, c), x) = Ext(p, Ext(l, c))
  <1>1. Split(Ext(s, c), x) = Parting(Ext(p, l), c, x)
    BY SplitMore
  <1>2. ASSUME c # x PROVE [Ext(p, l) EXCEPT ![Len(Ext(p, l))] = Append(@, c)] = Ext(p, Ext(l, c))
    <2> DEFINE old == Ext(p, l)
               m == Ext(l, c)
               new == Ext(p, m)
               k == Len(p) + 1
    <2>1. Len(p) \in Nat /\ k \in 1..k /\ Len(old) = k /\ old \in Seq(Seq(A)) /\ old[k] = l
          /\ \A i \in 1..k : i # k => old[i] = p[i]
      BY AppendProperties, LenProperties DEF Ext
    <2>2. m \in Seq(A) /\ m = Append(l, c)
      BY AppendProperties DEF Ext
    <2> HIDE DEF m
    <2>3. Len(new) = k /\ new \in Seq(Seq(A)) /\ new[k] = m /\ \A i \in 1..k : i # k => new[i] = p[i]
      BY <2>2, AppendProperties, LenProperties DEF Ext
    <2> HIDE DEF old, new, k
    <2> DEFINE ex == [old EXCEPT ![k] = m]
    <2>5. ex \in Seq(Seq(A)) /\ Len(ex) = Len(old) /\ \A j \in 1..Len(old) : ex[j] = IF j = k THEN m ELSE old[j]
      BY <2>1, <2>2, ExceptSeq
    <2> HIDE DEF ex
    <2>6. \A j \in 1..k : ex[j] = new[j]
      BY <2>1, <2>3, <2>5
    <2>7. ex = new
      <3>1. Len(ex) = k /\ Len(new) = k
        BY <2>1, <2>3, <2>5
      <3> QED BY <2>3, <2>5, <2>6, <3>1, SeqEqual
    <2>8. [old EXCEPT ![Len(old)] = Append(@, c)] = ex
      BY <2>1, <2>2 DEF ex
    <2> QED BY <2>7, <2>8 DEF m, old, new
  <1>3. Parting(Ext(p, l), x, x) = Ext(Ext(p, l), <<>>)
    BY DEF Parting, Ext
  <1> QED BY <1>1, <1>2, <1>3 DEF Parting

\* Characters that are no separators all go to the last part.
LEMMA SplitPast ==
    ASSUME NEW A, NEW x, NEW s \in Seq(A), NEW p \in Seq(Seq(A)), NEW l \in Seq(A), Split(s, x) = Ext(p, l),
           NEW u \in Seq(A), \A i \in 1..Len(u) : u[i] # x
    PROVE  Split(Cat(s, u), x) = Ext(p, Cat(l, u))
  <1> DEFINE n == Len(u)
             At(k) == SubSeq(u, 1, k)
             wrong == {k \in 0..n : Split(Cat(s, At(k)), x) # Ext(p, Cat(l, At(k)))}
  <1>0. n \in Nat /\ At(n) = u
    BY LenProperties, SubSeqFull
  <1>1. At(0) = <<>> /\ Cat(s, <<>>) = s /\ Cat(l, <<>>) = l
    BY SubSeqEmpty, CatTyped
  <1>2. ASSUME NEW k \in 1..n
        PROVE  At(k) = Ext(At(k - 1), u[k]) /\ At(k - 1) \in Seq(A) /\ u[k] \in A /\ u[k] # x
    <2>1. At(k) = Append(At(k - 1), u[k])
      BY SubSeqRecursiveSecond
    <2>2. At(k - 1) \in Seq(A)
      BY SubSeqProperties
    <2> QED BY <2>1, <2>2, ElementOfSeq DEF Ext
  <1> HIDE DEF At
  <1>3. ASSUME wrong # {} PROVE FALSE
    <2>1. PICK k \in wrong : \A m \in wrong : k <= m
      <3>1. wrong \subseteq Nat
        OBVIOUS
      <3> HIDE DEF wrong
      <3> QED BY <1>3, <3>1, LeastOf
    <2>2. k \in 0..n /\ Split(Cat(s, At(k)), x) # Ext(p, Cat(l, At(k)))
      OBVIOUS
    <2>3. k # 0
      BY <1>1, <2>2
    <2>4. k \in 1..n /\ k - 1 \in 0..n
      BY <1>0, <2>2, <2>3
    <2>5. k - 1 \notin wrong
      <3> HIDE DEF wrong
      <3> QED BY <1>0, <2>1, <2>2, <2>4
    <2> DEFINE v == At(k - 1)
               t == Cat(s, v)
               q == Cat(l, v)
               c == u[k]
    <2>6. Split(t, x) = Ext(p, q)
      BY <2>4, <2>5
    <2>7. At(k) = Ext(v, c) /\ v \in Seq(A) /\ c \in A /\ c # x
      BY <1>2, <2>4
    <2> HIDE DEF wrong, v, c
    <2>8. t \in Seq(A) /\ q \in Seq(A)
      BY <2>7, CatTyped
    <2>9. Cat(s, Ext(v, c)) = Ext(t, c) /\ Cat(l, Ext(v, c)) = Ext(q, c)
      BY <2>7, CatExt
    <2> HIDE DEF t, q
    <2>10. Split(Ext(t, c), x) = Ext(p, Ext(q, c))
      BY <2>6, <2>7, <2>8, SplitOn
    <2> QED BY <2>2, <2>7, <2>9, <2>10
  <1>4. n \in 0..n
    BY <1>0
  <1>5. Split(Cat(s, At(n)), x) = Ext(p, Cat(l, At(n)))
    BY <1>3, <1>4
  <1> QED BY <1>0, <1>5

-----------------------------------------------------------------------------
(* backup_unescape, character by character.                                   *)
Special == {"\\", "\t", "\n", "\r", "t", "n", "r"}

Begun == [out |-> <<>>, escape |-> FALSE]

Reading(s) == FoldLeft(ReadOn, Begun, s)

Readings(A) == [out : Seq(A), escape : BOOLEAN]

ReadingStep(A) == [v \in Readings(A) \X A |-> ReadOn(v[1], v[2])]

\* What an escape stands for is text.
LEMMA MeantTyped ==
    ASSUME NEW A, Special \subseteq A, NEW c \in A
    PROVE  Meant(c) \in Seq(A)
  <1>1. "\\" \in A /\ "\t" \in A /\ "\n" \in A /\ "\r" \in A
    BY DEF Special
  <1> QED BY <1>1 DEF Meant

LEMMA ReadingTyped ==
    ASSUME NEW A, Special \subseteq A
    PROVE  /\ Begun \in Readings(A)
           /\ ReadingStep(A) \in [Readings(A) \X A -> Readings(A)]
           /\ \A read \in Readings(A), c \in A : ReadingStep(A)[<<read, c>>] = ReadOn(read, c)
  <1>1. ASSUME NEW read \in Readings(A), NEW c \in A PROVE ReadOn(read, c) \in Readings(A)
    <2>1. read.out \in Seq(A) /\ read.escape \in BOOLEAN
      BY DEF Readings
    <2>2. read.out \o Meant(c) \in Seq(A) /\ Append(read.out, c) \in Seq(A)
      BY <2>1, MeantTyped, ConcatProperties, AppendProperties
    <2>3. \A o \in Seq(A), b \in BOOLEAN : [out |-> o, escape |-> b] \in Readings(A)
      BY DEF Readings
    <2> QED BY <2>1, <2>2, <2>3, Zenon DEF ReadOn
  <1>2. Begun \in Readings(A)
    <2>1. <<>> \in Seq(A)
      BY EmptySeq
    <2>2. \A o \in Seq(A), b \in BOOLEAN : [out |-> o, escape |-> b] \in Readings(A)
      BY DEF Readings
    <2> QED BY <2>1, <2>2, Zenon DEF Begun
  <1> QED BY <1>1, <1>2 DEF ReadingStep

LEMMA ReadingSteps ==
    ASSUME NEW A, Special \subseteq A, NEW s \in Seq(A)
    PROVE  EndsWith(Reading(s), Readings(A), Begun, ReadingStep(A), s, Len(s))
  <1> DEFINE n == Len(s)
             V == Readings(A)
             step == ReadingStep(A)
             Rec(f) == f = [T \in SUBSET (1..n) |-> IF T = {} THEN Begun ELSE ReadOn(f[T \ {Max(T)}], s[Max(T)])]
             iter == CHOOSE f : Rec(f)
  <1>0. n \in Nat /\ s \in [1..n -> A] /\ DOMAIN s = 1..n
    BY LenProperties
  <1>1. Reading(s) = iter[1..n]
    BY <1>0 DEF Reading, FoldLeft, MapThenFoldSet
  <1>2. Begun \in V
    BY ReadingTyped
  <1>3. step \in [V \X A -> V] /\ \A p \in V, c \in A : step[<<p, c>>] = ReadOn(p, c)
    BY ReadingTyped
  <1> HIDE DEF V, step
  <1>5. PICK f : Folding(f, V, Begun, step, s, n)
    BY <1>0, <1>2, <1>3, FoldExists
  <1>6. \A T \in SUBSET (1..n) : T # {} => Max(T) \in 1..n /\ T \ {Max(T)} \in SUBSET (1..n)
    BY <1>0, MaxIs
  <1>7. Rec(f)
    <2>1. \A T \in SUBSET (1..n) : f[T] = IF T = {} THEN Begun ELSE ReadOn(f[T \ {Max(T)}], s[Max(T)])
      <3> TAKE T \in SUBSET (1..n)
      <3>1. CASE T = {}
        BY <1>5, <3>1 DEF Folding
      <3>2. CASE T # {}
        <4>1. f[T \ {Max(T)}] \in V /\ s[Max(T)] \in A
          BY <1>0, <1>5, <1>6, <3>2 DEF Folding
        <4>2. f[T] = step[<<f[T \ {Max(T)}], s[Max(T)]>>]
          BY <1>5, <3>2 DEF Folding
        <4> QED BY <1>3, <3>2, <4>1, <4>2
      <3> QED BY <3>1, <3>2
    <2>2. f \in [SUBSET (1..n) -> V]
      BY <1>5 DEF Folding
    <2> QED BY <2>1, <2>2
  <1>8. Rec(iter)
    <2> HIDE DEF Rec
    <2> QED BY <1>7
  <1> HIDE DEF iter
  <1>9. iter[{}] = Begun /\ \A T \in SUBSET (1..n) : T # {} => iter[T] = ReadOn(iter[T \ {Max(T)}], s[Max(T)])
    BY <1>8
  <1> HIDE DEF Rec
  <1>10. ASSUME NEW T \in SUBSET (1..n), T # {}, iter[T \ {Max(T)}] \in V
         PROVE  iter[T] = step[<<iter[T \ {Max(T)}], s[Max(T)]>>]
    <2>1. s[Max(T)] \in A
      BY <1>0, <1>6, <1>10
    <2> QED BY <1>3, <1>9, <1>10, <2>1
  <1>11. Keeping(iter, V, Begun, step, s, n)
    BY <1>9, <1>10 DEF Keeping
  <1>12. EndsWith(iter[1..n], V, Begun, step, s, n)
    <2> HIDE DEF n
    <2> QED BY <1>0, <1>2, <1>3, <1>11, FoldSteps
  <1> QED BY <1>1, <1>12 DEF V, step

\* A character more: ReadOn is the step of backup_unescape.
LEMMA ReadingMore ==
    ASSUME NEW A, Special \subseteq A, NEW s \in Seq(A), NEW c \in A
    PROVE  Reading(s) \in Readings(A) /\ Reading(Ext(s, c)) = ReadOn(Reading(s), c)
  <1> DEFINE V == Readings(A)
             step == ReadingStep(A)
             t == Ext(s, c)
             a == Reading(s)
             b == Reading(t)
  <1>1. t \in Seq(A) /\ t = Ext(s, c)
    BY ExtTyped
  <1>2. step \in [V \X A -> V] /\ Begun \in V /\ \A read \in V : step[<<read, c>>] = ReadOn(read, c)
    BY ReadingTyped
  <1> HIDE DEF t
  <1>3. Ending(a, V, A, Begun, step, s, Len(s)) /\ Ending(b, V, A, Begun, step, t, Len(t))
    BY <1>1, <1>2, ReadingSteps DEF Ending
  <1> HIDE DEF V, step, a, b
  <1>4. a \in V /\ b = Next1(step, a, c)
    BY <1>1, <1>2, <1>3, FoldMore
  <1> QED BY <1>2, <1>4 DEF V, a, b, t, Next1

LEMMA ReadingNone == Reading(<<>>) = Begun
  <1>1. <<>> \in Seq(Special) /\ Len(<<>>) = 0
    BY EmptySeq
  <1>2. EndsWith(Reading(<<>>), Readings(Special), Begun, ReadingStep(Special), <<>>, 0)
    BY <1>1, ReadingSteps
  <1> QED BY <1>2, FoldNone

-----------------------------------------------------------------------------
(* The first of a row of sequences, and laid end to end.                      *)
Firsts(f, k) == [i \in 1..k |-> f[i]]
Laid(f, k) == FlattenSeq(Firsts(f, k))

LEMMA FirstsAre ==
    ASSUME NEW V, NEW f, NEW k \in Nat, \A i \in 1..k : f[i] \in V
    PROVE  Firsts(f, k) \in Seq(V) /\ Len(Firsts(f, k)) = k /\ DOMAIN Firsts(f, k) = 1..k
  <1>1. Firsts(f, k) \in [1..k -> V] /\ DOMAIN Firsts(f, k) = 1..k
    BY DEF Firsts
  <1> QED BY <1>1, SeqDef, LenProperties

LEMMA FirstsNone == ASSUME NEW f PROVE Firsts(f, 0) = <<>>
  BY DEF Firsts

\* The first of a row, and one more.
LEMMA FirstsMore ==
    ASSUME NEW f, NEW k \in Nat, k # 0
    PROVE  Firsts(f, k) = Ext(Firsts(f, k - 1), f[k])
  <1> DEFINE V == {f[i] : i \in 1..k}
             s == Firsts(f, k)
             t == Firsts(f, k - 1)
             u == Ext(t, f[k])
  <1>1. k - 1 \in Nat /\ k \in 1..k /\ (\A i \in 1..k : f[i] \in V) /\ \A i \in 1..k - 1 : f[i] \in V
    OBVIOUS
  <1> HIDE DEF V
  <1>2. t \in Seq(V) /\ Len(t) = k - 1 /\ s \in Seq(V) /\ Len(s) = k
    BY <1>1, FirstsAre
  <1>3. \A i \in 1..k : s[i] = f[i] /\ (i # k => t[i] = f[i])
    BY DEF Firsts
  <1> HIDE DEF s, t
  <1>4. u \in Seq(V) /\ Len(u) = k /\ u[k] = f[k] /\ \A i \in 1..k - 1 : u[i] = t[i]
    BY <1>1, <1>2, AppendProperties DEF Ext
  <1>5. \A i \in 1..Len(s) : s[i] = u[i]
    BY <1>2, <1>3, <1>4
  <1>6. Len(s) = Len(u)
    BY <1>2, <1>4
  <1> HIDE DEF u
  <1>7. s = u
    BY <1>2, <1>4, <1>5, <1>6, SeqEqual
  <1> QED BY <1>7 DEF s, t, u

LEMMA FirstsOf ==
    ASSUME NEW V, NEW s \in Seq(V), NEW k \in 0..Len(s)
    PROVE  Firsts(s, k) = SubSeq(s, 1, k) /\ Firsts(s, Len(s)) = s
  <1>0. Len(s) \in Nat /\ (\A i \in 1..Len(s) : s[i] \in V) /\ k \in Nat /\ \A i \in 1..k : s[i] \in V
    BY LenProperties, ElementOfSeq
  <1> DEFINE f == Firsts(s, k)
             t == SubSeq(s, 1, k)
  <1>1. f \in Seq(V) /\ Len(f) = k /\ \A i \in 1..k : f[i] = s[i]
    BY <1>0, FirstsAre DEF Firsts
  <1>2. t \in Seq(V) /\ Len(t) = k /\ \A i \in 1..k : t[i] = s[i]
    BY <1>0, SubSeqProperties
  <1> HIDE DEF f, t
  <1>3. f = t
    BY <1>1, <1>2, SeqEqual
  <1>4. Firsts(s, Len(s)) = s
    <2>1. DOMAIN s = 1..Len(s) /\ s = [i \in DOMAIN s |-> s[i]]
      BY LenProperties
    <2> QED BY <2>1 DEF Firsts
  <1> QED BY <1>3, <1>4 DEF f, t

\* Laid end to end, piece by piece.
LEMMA LaidTo ==
    ASSUME NEW V, NEW n \in Nat, NEW f, \A i \in 1..n : f[i] \in Seq(V), NEW k \in 0..n
    PROVE  /\ Laid(f, k) \in Seq(V)
           /\ Laid(f, 0) = <<>>
           /\ k # 0 => Laid(f, k) = Cat(Laid(f, k - 1), f[k])
  <1>2. Laid(f, 0) = <<>>
    BY FirstsNone DEF Laid, FlattenSeq
  <1>3. ASSUME k # 0 PROVE Laid(f, k) = Cat(Laid(f, k - 1), f[k]) /\ Laid(f, k) \in Seq(V)
    <2> DEFINE t == Firsts(f, k - 1)
               x == f[k]
    <2>1. k - 1 \in 0..n /\ x \in Seq(V)
      BY <1>3
    <2>2. t \in Seq(Seq(V)) /\ Firsts(f, k) = Ext(t, x)
      <3> DEFINE W == Seq(V)
      <3>1. (\A i \in 1..k - 1 : f[i] \in W) /\ k \in Nat /\ k - 1 \in Nat
        BY <2>1
      <3> HIDE DEF W
      <3>2. Firsts(f, k) = Ext(Firsts(f, k - 1), f[k])
        BY <1>3, FirstsMore
      <3>3. Firsts(f, k - 1) \in Seq(W)
        BY <3>1, FirstsAre
      <3> QED BY <3>2, <3>3 DEF W
    <2> HIDE DEF t, x
    <2>3. FlattenSeq(Append(t, x)) = FlattenSeq(t) \o x /\ FlattenSeq(t) \in Seq(V)
      BY <2>1, <2>2, FlattenMore
    <2>4. FlattenSeq(Ext(t, x)) = Cat(FlattenSeq(t), x)
      BY <2>3 DEF Ext, Cat
    <2>5. Cat(FlattenSeq(t), x) \in Seq(V)
      BY <2>1, <2>3, CatTyped
    <2> QED BY <2>2, <2>4, <2>5 DEF Laid, t, x
  <1> QED BY <1>2, <1>3, EmptySeq

LEMMA LaidNone == ASSUME NEW f PROVE Laid(f, 0) = <<>>
  BY FirstsNone DEF Laid, FlattenSeq

Row(f, n, V) == n \in Nat /\ \A i \in 1..n : f[i] \in Seq(V)

\* The same of a row that is named.
LEMMA LaidRow ==
    ASSUME NEW V, NEW f, NEW n, Row(f, n, V), NEW k \in 0..n
    PROVE  Laid(f, k) \in Seq(V) /\ (k # 0 => Laid(f, k) = Cat(Laid(f, k - 1), f[k]))
  <1>1. n \in Nat /\ \A i \in 1..n : f[i] \in Seq(V)
    BY DEF Row
  <1> QED BY <1>1, LaidTo

\* The start of two sequences is within the first, or behind it.
LEMMA PrefixOfCat ==
    ASSUME NEW V, NEW s \in Seq(V), NEW t \in Seq(V), NEW m \in 0..Len(s) + Len(t)
    PROVE  /\ m <= Len(s) => SubSeq(Cat(s, t), 1, m) = SubSeq(s, 1, m)
           /\ m >= Len(s) => SubSeq(Cat(s, t), 1, m) = Cat(s, SubSeq(t, 1, m - Len(s)))
  <1> DEFINE w == Cat(s, t)
             p == SubSeq(w, 1, m)
             a == SubSeq(s, 1, m)
             b == SubSeq(t, 1, m - Len(s))
             c == Cat(s, b)
  <1>0. Len(s) \in Nat /\ Len(t) \in Nat /\ (\A i \in 1..Len(s) : s[i] \in V) /\ \A i \in 1..Len(t) : t[i] \in V
    BY LenProperties, ElementOfSeq
  <1>1. w \in Seq(V) /\ Len(w) = Len(s) + Len(t)
        /\ \A i \in 1..Len(s) + Len(t) : w[i] = IF i <= Len(s) THEN s[i] ELSE t[i - Len(s)]
    BY ConcatProperties DEF Cat
  <1> HIDE DEF w
  <1>2. p \in Seq(V) /\ Len(p) = m /\ \A i \in 1..m : p[i] = w[i]
    <2>1. \A i \in 1..m : w[i] \in V
      BY <1>0, <1>1
    <2> QED BY <1>0, <2>1, SubSeqProperties
  <1> HIDE DEF p
  <1>3. ASSUME m <= Len(s) PROVE p = a
    <2>1. a \in Seq(V) /\ Len(a) = m /\ \A i \in 1..m : a[i] = s[i]
      <3>1. \A i \in 1..m : s[i] \in V
        BY <1>0, <1>3
      <3> QED BY <1>0, <3>1, SubSeqProperties
    <2> HIDE DEF a
    <2>2. \A i \in 1..Len(p) : p[i] = a[i]
      BY <1>0, <1>1, <1>2, <1>3, <2>1
    <2>3. Len(p) = Len(a)
      BY <1>2, <2>1
    <2> QED BY <1>2, <2>1, <2>2, <2>3, SeqEqual
  <1>4. ASSUME m >= Len(s) PROVE p = c
    <2> DEFINE d == m - Len(s)
    <2>0. d \in Nat /\ d <= Len(t)
      BY <1>0, <1>4
    <2>1. b \in Seq(V) /\ Len(b) = d /\ \A i \in 1..d : b[i] = t[i]
      <3>1. \A i \in 1..d : t[i] \in V
        BY <1>0, <2>0
      <3> HIDE DEF d
      <3> QED BY <2>0, <3>1, SubSeqProperties DEF d
    <2> HIDE DEF b
    <2>2. c \in Seq(V) /\ Len(c) = Len(s) + d
          /\ \A i \in 1..Len(s) + d : c[i] = IF i <= Len(s) THEN s[i] ELSE b[i - Len(s)]
      BY <2>1, ConcatProperties DEF Cat
    <2> HIDE DEF c
    <2>3. Len(p) = Len(c)
      BY <1>0, <1>2, <2>2
    <2>4. ASSUME NEW i \in 1..m PROVE p[i] = c[i]
      <3>1. i \in 1..Len(s) + d /\ i \in 1..Len(s) + Len(t)
        BY <1>0, <2>0
      <3>2. CASE i <= Len(s)
        BY <1>1, <1>2, <2>2, <3>1, <3>2
      <3>3. CASE ~(i <= Len(s))
        <4>1. i - Len(s) \in 1..d
          BY <1>0, <2>0, <3>1, <3>3
        <4> QED BY <1>1, <1>2, <2>1, <2>2, <3>1, <3>3, <4>1
      <3> QED BY <3>2, <3>3
    <2> QED BY <1>2, <2>2, <2>3, <2>4, SeqEqual
  <1> QED BY <1>3, <1>4 DEF p, w, a, b, c

\* Where a row of sequences is cut: within one of them.
LEMMA LaidCut ==
    ASSUME NEW V, NEW n \in Nat, NEW f, \A i \in 1..n : f[i] \in Seq(V), NEW m \in Nat, m < Len(Laid(f, n))
    PROVE  /\ Laid(f, n) \in Seq(V)
           /\ \E k \in 1..n, j \in Nat :
                 j < Len(f[k]) /\ SubSeq(Laid(f, n), 1, m) = Cat(Laid(f, k - 1), SubSeq(f[k], 1, j))
  <1> DEFINE wrong == {h \in 0..n : m < Len(Laid(f, h)) /\ ~ \E k \in 1..h, j \in Nat :
                            j < Len(f[k]) /\ SubSeq(Laid(f, h), 1, m) = Cat(Laid(f, k - 1), SubSeq(f[k], 1, j))}
  <1>1. ASSUME wrong # {} PROVE FALSE
    <2>1. PICK h \in wrong : \A y \in wrong : h <= y
      <3>1. wrong \subseteq Nat
        OBVIOUS
      <3> HIDE DEF wrong
      <3> QED BY <1>1, <3>1, LeastOf
    <2>2. h \in 0..n /\ m < Len(Laid(f, h))
      OBVIOUS
    <2>3. ASSUME NEW k \in 1..h, NEW j \in Nat, j < Len(f[k]),
                 SubSeq(Laid(f, h), 1, m) = Cat(Laid(f, k - 1), SubSeq(f[k], 1, j))
          PROVE  FALSE
      BY <2>1, <2>3
    <2>4. h # 0
      <3>1. Laid(f, 0) = <<>>
        BY LaidNone
      <3> QED BY <2>2, <3>1, EmptySeq
    <2>5. h \in 1..n /\ h - 1 \in 0..n /\ h - 1 < h /\ h \in 1..h
      BY <2>2, <2>4
    <2> DEFINE s == Laid(f, h - 1)
               t == f[h]
    <2>6. s \in Seq(V) /\ t \in Seq(V) /\ Laid(f, h) = Cat(s, t)
      <3> HIDE DEF wrong
      <3>1. h \in 0..n /\ h - 1 \in 0..n
        BY <2>5
      <3>0. Row(f, n, V)
        BY DEF Row
      <3>2. Laid(f, h) = Cat(Laid(f, h - 1), f[h])
        BY <2>4, <3>0, <3>1, LaidRow
      <3>3. Laid(f, h - 1) \in Seq(V)
        BY <3>0, <3>1, LaidRow
      <3> QED BY <2>5, <3>2, <3>3
    <2>7. h - 1 \notin wrong
      <3> HIDE DEF wrong
      <3> QED BY <2>1, <2>5
    <2>8. \/ ~(m < Len(s))
          \/ \E k \in 1..h - 1, j \in Nat :
                j < Len(f[k]) /\ SubSeq(s, 1, m) = Cat(Laid(f, k - 1), SubSeq(f[k], 1, j))
      BY <2>5, <2>7
    <2> HIDE DEF wrong, s
    <2>9. Len(s) \in Nat /\ Len(t) \in Nat /\ Len(Cat(s, t)) = Len(s) + Len(t) /\ m \in 0..Len(s) + Len(t)
      <3>1. Len(s) \in Nat /\ Len(t) \in Nat
        BY <2>6, LenProperties
      <3>2. Len(Cat(s, t)) = Len(s) + Len(t)
        BY <2>6, CatTyped
      <3> QED BY <2>2, <2>6, <3>1, <3>2
    <2>10. CASE m < Len(s)
      <3>1. SubSeq(Cat(s, t), 1, m) = SubSeq(s, 1, m)
        <4>1. m \in 0..Len(s) + Len(t) /\ m <= Len(s)
          BY <2>9, <2>10
        <4> HIDE DEF t
        <4> QED BY <2>6, <4>1, PrefixOfCat
      <3>2. PICK k \in 1..h - 1, j \in Nat :
                j < Len(f[k]) /\ SubSeq(s, 1, m) = Cat(Laid(f, k - 1), SubSeq(f[k], 1, j))
        BY <2>8, <2>10
      <3>3. k \in 1..h
        BY <2>5
      <3> QED BY <2>3, <2>6, <3>1, <3>2, <3>3
    <2>11. CASE ~(m < Len(s))
      <3> DEFINE j == m - Len(s)
      <3>1. j \in Nat /\ j < Len(t) /\ m >= Len(s)
        BY <2>2, <2>6, <2>9, <2>11
      <3>2. SubSeq(Cat(s, t), 1, m) = Cat(s, SubSeq(t, 1, j))
        BY <2>6, <2>9, <3>1, PrefixOfCat
      <3> HIDE DEF j
      <3> QED BY <2>3, <2>5, <2>6, <3>1, <3>2 DEF s
    <2> QED BY <2>10, <2>11
  <1>2. n \in 0..n
    OBVIOUS
  <1>3. Laid(f, n) \in Seq(V)
    BY <1>2, LaidTo
  <1> QED BY <1>1, <1>2, <1>3

CutAt(f, n, m) ==
    \E k \in 1..n, j \in Nat :
        j < Len(f[k]) /\ SubSeq(Laid(f, n), 1, m) = Cat(Laid(f, k - 1), SubSeq(f[k], 1, j))

LEMMA RowCut ==
    ASSUME NEW V, NEW f, NEW n, Row(f, n, V), NEW m \in Nat, m < Len(Laid(f, n))
    PROVE  CutAt(f, n, m)
  <1>1. n \in Nat /\ \A i \in 1..n : f[i] \in Seq(V)
    BY DEF Row
  <1>2. /\ Laid(f, n) \in Seq(V)
        /\ \E k \in 1..n, j \in Nat :
              j < Len(f[k]) /\ SubSeq(Laid(f, n), 1, m) = Cat(Laid(f, k - 1), SubSeq(f[k], 1, j))
    BY <1>1, LaidCut
  <1> QED BY <1>2 DEF CutAt

LEMMA SeqWithin ==
    ASSUME NEW A, NEW B, B \subseteq A, NEW s \in Seq(B)
    PROVE  s \in Seq(A) /\ \A i \in 1..Len(s) : s[i] \in B
  <1>1. s \in [1..Len(s) -> B] /\ Len(s) \in Nat
    BY LenProperties
  <1>2. s \in [1..Len(s) -> A]
    BY <1>1
  <1> QED BY <1>1, <1>2, SeqDef

LEMMA ExtShort ==
    ASSUME NEW c
    PROVE  Ext(<<>>, c) = <<c>> /\ \A d : Ext(<<c>>, d) = <<c, d>>
  <1>1. Ext(<<>>, c) = <<c>>
    <2>1. <<>> \in Seq({c}) /\ <<c>> \in Seq({c})
      OBVIOUS
    <2>2. Append(<<>>, c) = <<>> \o <<c>>
      BY <2>1, AppendIsConcat
    <2>3. <<>> \o <<c>> = <<c>>
      BY <2>1, ConcatEmptySeq
    <2> QED BY <2>2, <2>3 DEF Ext
  <1>2. ASSUME NEW d PROVE Ext(<<c>>, d) = <<c, d>>
    <2>1. <<c>> \in Seq({c, d})
      OBVIOUS
    <2>2. Append(<<c>>, d) = <<c>> \o <<d>>
      BY <2>1, AppendIsConcat
    <2>3. <<c>> \o <<d>> = <<c, d>>
      <3> DEFINE A == {c, d}
                 p == <<c>>
                 q == <<d>>
                 t == <<c, d>>
                 u == p \o q
      <3>1. /\ p \in Seq(A) /\ Len(p) = 1 /\ p[1] = c /\ q \in Seq(A) /\ Len(q) = 1 /\ q[1] = d
            /\ t \in Seq(A) /\ Len(t) = 2 /\ t[1] = c /\ t[2] = d
        OBVIOUS
      <3> HIDE DEF p, q, t, A
      <3>2. u \in Seq(A) /\ Len(u) = 2 /\ \A i \in 1..2 : u[i] = IF i <= 1 THEN p[i] ELSE q[i - 1]
        BY <3>1, ConcatProperties
      <3> HIDE DEF u
      <3>3. Len(u) = Len(t) /\ \A i \in 1..Len(u) : u[i] = t[i]
        BY <3>1, <3>2
      <3>4. u = t
        BY <3>1, <3>2, <3>3, SeqEqual
      <3> QED BY <3>4 DEF u, p, q, t
    <2> QED BY <2>2, <2>3 DEF Ext
  <1> QED BY <1>1, <1>2

LEMMA FirstOfTwo ==
    ASSUME NEW c, NEW d
    PROVE  SubSeq(<<c, d>>, 1, 1) = <<c>> /\ Len(<<c, d>>) = 2
  <1> DEFINE A == {c, d}
             s == <<c>>
             t == <<c, d>>
             u == SubSeq(t, 1, 1)
  <1>1. s \in Seq(A) /\ Len(s) = 1 /\ s[1] = c /\ t \in Seq(A) /\ Len(t) = 2 /\ t[1] = c /\ c \in A
    OBVIOUS
  <1> HIDE DEF s, t, A
  <1>2. \A i \in 1..1 : t[i] \in A
    BY <1>1
  <1>3. u \in Seq(A) /\ Len(u) = 1 /\ u[1] = t[1]
    <2>1. /\ u \in Seq(A)
          /\ Len(u) = IF 1 <= 1 THEN 1 - 1 + 1 ELSE 0
          /\ \A i \in 1..1 - 1 + 1 : u[i] = t[1 + i - 1]
      BY <1>2, SubSeqProperties
    <2> HIDE DEF u
    <2> QED BY <2>1
  <1> HIDE DEF u
  <1>4. Len(u) = Len(s) /\ \A i \in 1..Len(u) : u[i] = s[i]
    BY <1>1, <1>3
  <1>5. u = s
    BY <1>1, <1>3, <1>4, SeqEqual
  <1> QED BY <1>1, <1>5 DEF s, t, u

LEMMA OneCat ==
    ASSUME NEW A, NEW s \in Seq(A), NEW c \in A
    PROVE  Cat(s, <<c>>) = Ext(s, c)
  BY AppendIsConcat DEF Cat, Ext

LEMMA TwoCat ==
    ASSUME NEW A, NEW s \in Seq(A), NEW c \in A, NEW d \in A
    PROVE  Cat(s, <<c>>) = Ext(s, c) /\ Cat(s, <<c, d>>) = Ext(Ext(s, c), d)
  <1>1. Cat(s, <<c>>) = Ext(s, c)
    BY OneCat
  <1>2. <<c>> \in Seq(A) /\ Ext(<<c>>, d) = <<c, d>>
    BY ExtShort
  <1>3. Cat(s, Ext(<<c>>, d)) = Ext(Cat(s, <<c>>), d)
    BY <1>2, CatExt
  <1> QED BY <1>1, <1>2, <1>3

\* Pieces that end with the separator and do not have it before.
Ended(f, bs, n, x, A, B) ==
    /\ x \in A /\ B \subseteq A /\ x \notin B /\ n \in Nat
    /\ \A i \in 1..n : bs[i] \in Seq(B) /\ f[i] = Ext(bs[i], x)

\* Of pieces that each end with the separator the parts are the pieces.
LEMMA SplitEnded ==
    ASSUME NEW A, NEW B, NEW x, NEW n, NEW bs, NEW f, Ended(f, bs, n, x, A, B), NEW k \in 0..n, NEW tail \in Seq(B)
    PROVE  /\ Laid(f, k) \in Seq(A)
           /\ Split(Laid(f, k), x) = Ext(Firsts(bs, k), <<>>)
           /\ Split(Cat(Laid(f, k), tail), x) = Ext(Firsts(bs, k), tail)
  <1>0. /\ x \in A /\ B \subseteq A /\ x \notin B /\ n \in Nat
        /\ \A i \in 1..n : bs[i] \in Seq(B) /\ f[i] = Ext(bs[i], x)
    BY DEF Ended
  <1> USE <1>0
  <1>1. ASSUME NEW i \in 1..n PROVE bs[i] \in Seq(A) /\ f[i] \in Seq(A)
    <2>1. bs[i] \in Seq(A)
      BY SeqWithin
    <2> QED BY <2>1, ExtTyped
  <1>2. \A h \in 0..n : Laid(f, h) \in Seq(A) /\ Firsts(bs, h) \in Seq(Seq(A))
    <2> TAKE h \in 0..n
    <2> DEFINE W == Seq(A)
    <2>1. h \in Nat /\ \A i \in 1..h : bs[i] \in W
      BY <1>1
    <2>2. Laid(f, h) \in Seq(A)
      BY <1>1, LaidTo
    <2> HIDE DEF W
    <2>3. Firsts(bs, h) \in Seq(W)
      BY <2>1, FirstsAre
    <2> QED BY <2>2, <2>3 DEF W
  <1>3. ASSUME NEW h \in 0..n, Split(Laid(f, h), x) = Ext(Firsts(bs, h), <<>>), NEW u \in Seq(B)
        PROVE  Split(Cat(Laid(f, h), u), x) = Ext(Firsts(bs, h), u) /\ Cat(Laid(f, h), u) \in Seq(A) /\ u \in Seq(A)
    <2> DEFINE s == Laid(f, h)
               p == Firsts(bs, h)
               l == <<>>
    <2>1. s \in Seq(A) /\ p \in Seq(Seq(A)) /\ Split(s, x) = Ext(p, l)
      BY <1>2, <1>3
    <2>2. l \in Seq(A) /\ Cat(l, u) = u /\ u \in Seq(A)
      <3>1. u \in Seq(A)
        BY SeqWithin
      <3> QED BY <3>1, CatTyped, EmptySeq
    <2>3. \A i \in 1..Len(u) : u[i] # x
      BY SeqWithin
    <2> HIDE DEF s, p, l
    <2>4. Split(Cat(s, u), x) = Ext(p, Cat(l, u))
      BY <2>1, <2>2, <2>3, SplitPast
    <2>5. Cat(s, u) \in Seq(A)
      BY <2>1, <2>2, CatTyped
    <2> QED BY <2>2, <2>4, <2>5 DEF s, p
  <1> DEFINE wrong == {h \in 0..n : Split(Laid(f, h), x) # Ext(Firsts(bs, h), <<>>)}
  <1>4. ASSUME wrong # {} PROVE FALSE
    <2>1. PICK h \in wrong : \A m \in wrong : h <= m
      <3>1. wrong \subseteq Nat
        OBVIOUS
      <3> HIDE DEF wrong
      <3> QED BY <1>4, <3>1, LeastOf
    <2>2. h \in 0..n /\ Split(Laid(f, h), x) # Ext(Firsts(bs, h), <<>>)
      OBVIOUS
    <2>3. h # 0
      <3>1. Laid(f, 0) = <<>>
        BY LaidNone
      <3>2. Ext(Firsts(bs, 0), <<>>) = <<<<>>>>
        BY FirstsNone, ExtShort
      <3> QED BY <2>2, <3>1, <3>2, SplitNone
    <2>4. h \in 1..n /\ h - 1 \in 0..n /\ h \in Nat
      BY <2>2, <2>3
    <2>5. h - 1 \notin wrong
      <3> HIDE DEF wrong
      <3> QED BY <2>1, <2>4
    <2> DEFINE g == h - 1
               b == bs[h]
               L == Laid(f, g)
               p == Firsts(bs, g)
               t == Cat(L, b)
    <2>6. b \in Seq(B) /\ b \in Seq(A) /\ f[h] = Ext(b, x) /\ g \in 0..n /\ L \in Seq(A) /\ p \in Seq(Seq(A))
      BY <1>1, <1>2, <2>4
    <2>7. Split(L, x) = Ext(p, <<>>)
      BY <2>4, <2>5
    <2>8. Laid(f, h) = Cat(L, Ext(b, x)) /\ Firsts(bs, h) = Ext(p, b)
      <3>1. Laid(f, h) \in Seq(A) /\ Laid(f, h) = Cat(L, f[h])
        <4> HIDE DEF wrong
        <4>1. Row(f, n, A)
          BY <1>1 DEF Row
        <4> QED BY <2>2, <2>3, <4>1, LaidRow
      <3>2. Firsts(bs, h) = Ext(p, b)
        BY <2>3, <2>4, FirstsMore
      <3> QED BY <2>6, <3>1, <3>2
    <2> HIDE DEF wrong, b, g
    <2>9. Split(t, x) = Ext(p, b) /\ t \in Seq(A)
      BY <1>3, <2>6, <2>7
    <2>10. Cat(L, Ext(b, x)) = Ext(t, x)
      BY <2>6, CatExt
    <2> HIDE DEF L, p, t
    <2>11. Split(Ext(t, x), x) = Ext(Ext(p, b), <<>>)
      BY <2>6, <2>9, SplitOn
    <2> QED BY <2>2, <2>8, <2>10, <2>11
  <1>5. Split(Laid(f, k), x) = Ext(Firsts(bs, k), <<>>)
    BY <1>4
  <1>6. \A u \in Seq(B) : Split(Cat(Laid(f, k), u), x) = Ext(Firsts(bs, k), u)
    BY <1>3, <1>5
  <1> QED BY <1>2, <1>5, <1>6

-----------------------------------------------------------------------------
(* What is escaped, read back.                                                *)
Read(out, escape) == [out |-> out, escape |-> escape]

\* The characters of a line within a field.
Inner(A) == A \ {"\t", "\n", "\r"}

\* A character is itself, or a backslash and what stands for it.
LEMMA EscapedIs ==
    ASSUME NEW A, Special \subseteq A, NEW c \in A
    PROVE  /\ Escaped(c) \in Seq(Inner(A))
           /\ \/ Escaped(c) = <<c>> /\ c # "\\"
              \/ \E d \in A : Escaped(c) = <<"\\", d>> /\ Meant(d) = <<c>>
  <1>0. /\ "\\" \in Inner(A) /\ "t" \in Inner(A) /\ "n" \in Inner(A) /\ "r" \in Inner(A)
        /\ c \notin {"\\", "\t", "\n", "\r"} => c \in Inner(A)
    BY DEF Special, Inner
  <1>1. CASE c = "\\"
    <2>1. Escaped(c) = <<"\\", "\\">> /\ Meant("\\") = <<c>>
      BY <1>1 DEF Escaped, Meant
    <2> QED BY <1>0, <2>1 DEF Inner
  <1>2. CASE c = "\t"
    <2>1. Escaped(c) = <<"\\", "t">> /\ Meant("t") = <<c>>
      BY <1>2 DEF Escaped, Meant
    <2> QED BY <1>0, <2>1 DEF Inner
  <1>3. CASE c = "\n"
    <2>1. Escaped(c) = <<"\\", "n">> /\ Meant("n") = <<c>>
      BY <1>3 DEF Escaped, Meant
    <2> QED BY <1>0, <2>1 DEF Inner
  <1>4. CASE c = "\r"
    <2>1. Escaped(c) = <<"\\", "r">> /\ Meant("r") = <<c>>
      BY <1>4 DEF Escaped, Meant
    <2> QED BY <1>0, <2>1 DEF Inner
  <1>5. CASE c \notin {"\\", "\t", "\n", "\r"}
    <2>1. Escaped(c) = <<c>>
      BY <1>5 DEF Escaped
    <2> QED BY <1>0, <1>5, <2>1
  <1> QED BY <1>1, <1>2, <1>3, <1>4, <1>5

\* An escaped character is read back, and half of one leaves a backslash waiting.
LEMMA ReadOne ==
    ASSUME NEW A, Special \subseteq A, NEW s \in Seq(A), NEW o \in Seq(A), Reading(s) = Read(o, FALSE), NEW c \in A
    PROVE  /\ Reading(Cat(s, Escaped(c))) = Read(Ext(o, c), FALSE)
           /\ \A j \in Nat : j # 0 /\ j < Len(Escaped(c)) =>
                 Reading(Cat(s, SubSeq(Escaped(c), 1, j))) = Read(o, TRUE)
  <1>0. ASSUME NEW r \in Seq(A), NEW d \in A PROVE Reading(Ext(r, d)) = ReadOn(Reading(r), d)
    BY ReadingMore
  <1>1. CASE Escaped(c) = <<c>> /\ c # "\\"
    <2>1. Cat(s, Escaped(c)) = Ext(s, c)
      BY <1>1, TwoCat
    <2>2. ReadOn(Read(o, FALSE), c) = Read(Ext(o, c), FALSE)
      BY <1>1 DEF ReadOn, Read, Ext
    <2>3. ~ \E j \in Nat : j # 0 /\ j < Len(Escaped(c))
      BY <1>1
    <2> QED BY <1>0, <2>1, <2>2, <2>3
  <1>2. ASSUME NEW d \in A, Escaped(c) = <<"\\", d>>, Meant(d) = <<c>>
        PROVE  /\ Reading(Cat(s, Escaped(c))) = Read(Ext(o, c), FALSE)
               /\ \A j \in Nat : j # 0 /\ j < Len(Escaped(c)) =>
                     Reading(Cat(s, SubSeq(Escaped(c), 1, j))) = Read(o, TRUE)
    <2> DEFINE b == "\\"
               t == Ext(s, b)
    <2>0. b \in A
      BY DEF Special
    <2>1. ReadOn(Read(o, FALSE), b) = Read(o, TRUE)
      BY DEF ReadOn, Read
    <2>2. ReadOn(Read(o, TRUE), d) = Read(Ext(o, c), FALSE)
      <3>1. o \o <<c>> = Ext(o, c)
        BY AppendIsConcat DEF Ext
      <3> QED BY <1>2, <3>1 DEF ReadOn, Read
    <2>3. Escaped(c) = <<b, d>>
      BY <1>2
    <2>6. SubSeq(Escaped(c), 1, 1) = <<b>> /\ \A j \in Nat : j # 0 /\ j < Len(Escaped(c)) => j = 1
      BY <2>3, FirstOfTwo
    <2> HIDE DEF b
    <2>4. t \in Seq(A) /\ Cat(s, <<b>>) = t /\ Cat(s, <<b, d>>) = Ext(t, d)
      BY <2>0, TwoCat, ExtTyped
    <2> HIDE DEF t
    <2>5. Reading(t) = Read(o, TRUE)
      BY <1>0, <2>0, <2>1 DEF t
    <2>7. Reading(Ext(t, d)) = Read(Ext(o, c), FALSE)
      BY <1>0, <2>2, <2>4, <2>5
    <2> QED BY <2>3, <2>4, <2>5, <2>6, <2>7
  <1> QED BY <1>1, <1>2, EscapedIs

\* What is escaped up to some character is read back up to it.
LEMMA EscapeRead ==
    ASSUME NEW A, Special \subseteq A, NEW raw \in Seq(A), NEW f, \A i \in 1..Len(raw) : f[i] = Escaped(raw[i]),
           NEW k \in 0..Len(raw)
    PROVE  Laid(f, k) \in Seq(Inner(A)) /\ Laid(f, k) \in Seq(A) /\ Reading(Laid(f, k)) = Read(Firsts(raw, k), FALSE)
  <1> DEFINE n == Len(raw)
  <1>0. n \in Nat /\ (\A i \in 1..n : raw[i] \in A) /\ Inner(A) \subseteq A
    BY LenProperties, ElementOfSeq DEF Inner
  <1>1. \A i \in 1..n : f[i] \in Seq(Inner(A))
    BY <1>0, EscapedIs
  <1> HIDE DEF n
  <1>2. \A h \in 0..n : Laid(f, h) \in Seq(Inner(A)) /\ Laid(f, h) \in Seq(A) /\ Firsts(raw, h) \in Seq(A)
    <2> TAKE h \in 0..n
    <2>1. Laid(f, h) \in Seq(Inner(A))
      BY <1>0, <1>1, LaidTo
    <2>2. h \in Nat /\ \A i \in 1..h : raw[i] \in A
      BY <1>0
    <2>3. Firsts(raw, h) \in Seq(A)
      BY <2>2, FirstsAre
    <2> QED BY <1>0, <2>1, <2>3, SeqWithin
  <1> DEFINE Right(h) == Reading(Laid(f, h)) = Read(Firsts(raw, h), FALSE)
             wrong == {h \in 0..n : ~Right(h)}
  <1>3. ASSUME wrong # {} PROVE FALSE
    <2>1. PICK h \in wrong : \A m \in wrong : h <= m
      <3>1. wrong \subseteq Nat
        <4> HIDE DEF Right
        <4> QED BY <1>0
      <3> HIDE DEF wrong
      <3> QED BY <1>3, <3>1, LeastOf
    <2>2. h \in 0..n /\ Reading(Laid(f, h)) # Read(Firsts(raw, h), FALSE)
      OBVIOUS
    <2>3. h # 0
      <3>1. Laid(f, 0) = <<>>
        BY LaidNone
      <3>2. Read(Firsts(raw, 0), FALSE) = Begun
        BY FirstsNone DEF Read, Begun
      <3> QED BY <2>2, <3>1, <3>2, ReadingNone
    <2>4. h \in 1..n /\ h - 1 \in 0..n /\ h \in Nat
      BY <1>0, <2>2, <2>3
    <2>5. h - 1 \notin wrong
      <3> HIDE DEF wrong
      <3> QED BY <2>1, <2>4
    <2> DEFINE g == h - 1
               c == raw[h]
               L == Laid(f, g)
               o == Firsts(raw, g)
    <2>6. Reading(L) = Read(o, FALSE) /\ L \in Seq(A) /\ o \in Seq(A) /\ c \in A /\ f[h] = Escaped(c)
      BY <1>0, <1>2, <2>4, <2>5 DEF n
    <2>7. Laid(f, h) = Cat(L, Escaped(c)) /\ Firsts(raw, h) = Ext(o, c)
      <3>1. Laid(f, h) \in Seq(Inner(A)) /\ Laid(f, h) = Cat(L, f[h])
        <4>1. Row(f, n, Inner(A))
          BY <1>0, <1>1 DEF Row
        <4> QED BY <2>2, <2>3, <4>1, LaidRow
      <3>2. Firsts(raw, h) = Ext(o, c)
        BY <2>3, <2>4, FirstsMore
      <3> QED BY <2>6, <3>1, <3>2
    <2> HIDE DEF wrong, c, g, L, o
    <2>8. Reading(Cat(L, Escaped(c))) = Read(Ext(o, c), FALSE)
      BY <2>6, ReadOne
    <2> QED BY <2>2, <2>7, <2>8
  <1> QED BY <1>2, <1>3 DEF n

\* What is left of a text that was cut, possibly within an escape.
CutShort(v, raw) == IsPrefix(v, raw) \/ (Last(v) = "\\" /\ IsPrefix(Front(v), raw))

\* A backslash at the end stays.
LEMMA UnescapeIs ==
    ASSUME NEW s, NEW o
    PROVE  /\ Reading(s) = Read(o, FALSE) => backup_unescape(s) = o
           /\ Reading(s) = Read(o, TRUE) => backup_unescape(s) = Ext(o, "\\")
  BY DEF Reading, Begun, Read, Ext, backup_unescape

LEMMA CutShorts ==
    ASSUME NEW A, NEW raw \in Seq(A), NEW k \in 0..Len(raw), NEW c \in A
    PROVE  /\ CutShort(Firsts(raw, k), raw)
           /\ c = "\\" => CutShort(Ext(Firsts(raw, k), c), raw)
  <1> DEFINE o == Firsts(raw, k)
             v == Ext(o, c)
  <1>0. Len(raw) \in Nat /\ k \in Nat /\ \A i \in 1..k : raw[i] \in A
    BY LenProperties, ElementOfSeq
  <1>1. o \in Seq(A) /\ Len(o) = k
    BY <1>0, FirstsAre
  <1>2. SubSeq(raw, 1, k) = o
    BY FirstsOf
  <1> HIDE DEF o
  <1>3. SubSeq(o, 1, Len(o)) = o
    BY <1>1, SubSeqFull
  <1>4. IsPrefix(o, raw)
    BY <1>0, <1>1, <1>2, <1>3 DEF IsPrefix
  <1>5. v \in Seq(A) /\ Len(v) = k + 1
    BY <1>1, ExtTyped
  <1>6. Last(v) = c
    <2>1. k + 1 \in 1..Len(o) + 1
      BY <1>0, <1>1
    <2>2. v \in Seq(A) /\ v[k + 1] = IF k + 1 = Len(o) + 1 THEN c ELSE o[k + 1]
      BY <1>1, <2>1, ExtElements
    <2> HIDE DEF v
    <2> QED BY <1>1, <1>5, <2>2 DEF Last
  <1>7. Front(v) = o
    <2>1. v = Cat(o, <<c>>) /\ <<c>> \in Seq(A) /\ Len(<<c>>) = 1
      BY <1>1, OneCat
    <2> HIDE DEF v
    <2>2. k \in 0..Len(o) + Len(<<c>>) /\ k <= Len(o)
      BY <1>0, <1>1, <2>1
    <2>3. SubSeq(Cat(o, <<c>>), 1, k) = SubSeq(o, 1, k)
      BY <1>1, <2>1, <2>2, PrefixOfCat
    <2>4. k + 1 - 1 = k
      BY <1>0
    <2> QED BY <1>1, <1>3, <1>5, <2>1, <2>3, <2>4 DEF Front
  <1> HIDE DEF v
  <1> QED BY <1>4, <1>6, <1>7 DEF CutShort, o, v

\* backup_unescape undoes backup_escape, and the start of an escaped text
\* gives back the start of the text, with a backslash at most.
LEMMA EscapeOf ==
    ASSUME NEW A, Special \subseteq A, NEW raw \in Seq(A)
    PROVE  /\ backup_escape(raw) \in Seq(Inner(A))
           /\ backup_unescape(backup_escape(raw)) = raw
           /\ \A m \in 0..Len(backup_escape(raw)) :
                 CutShort(backup_unescape(SubSeq(backup_escape(raw), 1, m)), raw)
  <1> DEFINE n == Len(raw)
             f == [i \in 1..n |-> Escaped(raw[i])]
             e == backup_escape(raw)
  <1>0. n \in Nat /\ n \in 0..n /\ DOMAIN raw = 1..n /\ (\A i \in 1..n : raw[i] \in A) /\ "\\" \in A
    BY LenProperties, ElementOfSeq DEF Special
  <1>1. \A i \in 1..n : f[i] = Escaped(raw[i])
    OBVIOUS
  <1>2. e = Laid(f, n)
    <2>1. Firsts(f, n) = f
      BY DEF Firsts
    <2> QED BY <1>0, <2>1 DEF Laid, backup_escape
  <1> HIDE DEF f, e, n
  <1>3. \A k \in 0..n : Laid(f, k) \in Seq(Inner(A)) /\ Laid(f, k) \in Seq(A) /\ Reading(Laid(f, k)) = Read(Firsts(raw, k), FALSE)
    BY <1>1, EscapeRead DEF n
  <1>4. backup_unescape(e) = raw
    <2>1. Reading(e) = Read(raw, FALSE)
      BY <1>0, <1>2, <1>3, FirstsOf DEF n
    <2> QED BY <2>1, UnescapeIs
  <1>5. e \in Seq(Inner(A)) /\ e \in Seq(A) /\ Len(e) \in Nat
    BY <1>0, <1>2, <1>3, LenProperties
  <1>6. raw = Firsts(raw, n)
    BY <1>0, FirstsOf DEF n
  <1>7. ASSUME NEW m \in 0..Len(e) PROVE CutShort(backup_unescape(SubSeq(e, 1, m)), raw)
    <2>1. CASE m = Len(e)
      <3>1. SubSeq(e, 1, m) = e
        BY <1>5, <2>1, SubSeqFull
      <3>2. CutShort(Firsts(raw, n), raw)
        BY <1>0, CutShorts DEF n
      <3> QED BY <1>4, <1>6, <3>1, <3>2
    <2>2. CASE m # Len(e)
      <3>1. m \in Nat /\ m < Len(Laid(f, n)) /\ \A i \in 1..n : f[i] \in Seq(Inner(A))
        <4>1. \A i \in 1..n : f[i] \in Seq(Inner(A))
          BY <1>0, <1>1, EscapedIs
        <4> QED BY <1>2, <1>5, <2>2, <4>1
      <3>10. /\ Laid(f, n) \in Seq(Inner(A))
             /\ \E k \in 1..n, j \in Nat :
                   j < Len(f[k]) /\ SubSeq(Laid(f, n), 1, m) = Cat(Laid(f, k - 1), SubSeq(f[k], 1, j))
        BY <1>0, <3>1, LaidCut
      <3>2. PICK k \in 1..n, j \in Nat :
               j < Len(f[k]) /\ SubSeq(Laid(f, n), 1, m) = Cat(Laid(f, k - 1), SubSeq(f[k], 1, j))
        BY <3>10
      <3> DEFINE h == k - 1
                 c == raw[k]
                 L == Laid(f, h)
                 o == Firsts(raw, h)
                 x == "\\"
      <3>3. h \in 0..n /\ c \in A /\ f[k] = Escaped(c) /\ x \in A
        BY <1>0, <1>1
      <3>4. L \in Seq(A) /\ Reading(L) = Read(o, FALSE)
        BY <1>3, <3>3
      <3>5. o \in Seq(A)
        <4>1. h \in Nat /\ \A i \in 1..h : raw[i] \in A
          BY <1>0, <3>3
        <4> HIDE DEF h
        <4> QED BY <4>1, FirstsAre
      <3>6. CutShort(o, raw) /\ CutShort(Ext(o, x), raw)
        <4> HIDE DEF h
        <4> QED BY <3>3, CutShorts DEF n
      <3>7. SubSeq(e, 1, m) = Cat(L, SubSeq(Escaped(c), 1, j)) /\ j < Len(Escaped(c))
        BY <1>2, <3>2, <3>3
      <3> HIDE DEF h, c, L, o, x
      <3>8. CASE j = 0
        <4>1. SubSeq(Escaped(c), 1, j) = <<>>
          BY <3>8, SubSeqEmpty
        <4>2. Cat(L, <<>>) = L
          BY <3>4, CatTyped, EmptySeq
        <4>3. backup_unescape(L) = o
          BY <3>4, UnescapeIs
        <4> QED BY <3>6, <3>7, <4>1, <4>2, <4>3
      <3>9. CASE j # 0
        <4>1. Reading(Cat(L, SubSeq(Escaped(c), 1, j))) = Read(o, TRUE)
          BY <3>2, <3>3, <3>4, <3>5, <3>7, <3>9, ReadOne
        <4>2. backup_unescape(SubSeq(e, 1, m)) = Ext(o, x)
          BY <3>7, <4>1, UnescapeIs DEF x
        <4> QED BY <3>6, <4>2
      <3> QED BY <3>8, <3>9
    <2> QED BY <2>1, <2>2
  <1> QED BY <1>4, <1>5, <1>7 DEF e

-----------------------------------------------------------------------------
(* A line.                                                                    *)
Versions(A) == {r \in [1..5 -> Seq(A)] : r[3] = Day /\ r[4] = Time}

Fields(r) == [f \in 1..5 |-> backup_escape(r[f])]
Tabbed(r) == [f \in 1..5 |-> Ext(Fields(r)[f], IF f = 5 THEN "\n" ELSE "\t")]
Body(r) == Cat(Laid(Tabbed(r), 4), Fields(r)[5])

\* The characters within a line.
Within(A) == A \ {"\n", "\r"}

\* As much of a version as the start of its line gives back.
CutRow(v, r) == v[1] = r[1] /\ v[2] = r[2] /\ v[3] = r[3] /\ v[4] = r[4] /\ CutShort(v[5], r[5])

CutLine(restored, r) ==
    \/ restored = <<>>
    \/ \E v : restored = <<v>> /\ (Fits(v) => CutRow(v, r))

\* No tab, and no end of a line, is within a field.
LEMMA FieldsAre ==
    ASSUME NEW A, Special \subseteq A, NEW r \in Versions(A)
    PROVE  /\ \A f \in 1..5 : Fields(r)[f] \in Seq(Inner(A)) /\ Fields(r)[f] = backup_escape(r[f]) /\ r[f] \in Seq(A)
           /\ \A f \in 1..4 : Tabbed(r)[f] = Ext(Fields(r)[f], "\t")
           /\ Tabbed(r)[5] = Ext(Fields(r)[5], "\n")
  <1>1. ASSUME NEW f \in 1..5
        PROVE  Fields(r)[f] \in Seq(Inner(A)) /\ Fields(r)[f] = backup_escape(r[f]) /\ r[f] \in Seq(A)
    <2>1. r[f] \in Seq(A) /\ Fields(r)[f] = backup_escape(r[f])
      BY DEF Versions, Fields
    <2> QED BY <2>1, EscapeOf
  <1>2. \A f \in 1..4 : Tabbed(r)[f] = Ext(Fields(r)[f], "\t")
    <2> TAKE f \in 1..4
    <2>1. f \in 1..5 /\ f # 5
      OBVIOUS
    <2> QED BY <2>1 DEF Tabbed
  <1>3. Tabbed(r)[5] = Ext(Fields(r)[5], "\n")
    BY DEF Tabbed
  <1> QED BY <1>1, <1>2, <1>3

\* A version is one line.
LEMMA LineIs ==
    ASSUME NEW A, Special \subseteq A, NEW r \in Versions(A)
    PROVE  Body(r) \in Seq(Within(A)) /\ Line(r) = Ext(Body(r), "\n")
  <1> DEFINE h == Tabbed(r)
             W == Within(A)
  <1>0. Inner(A) \subseteq W /\ "\t" \in W /\ W \subseteq A /\ "\n" \in A
    BY DEF Inner, Within, Special
  <1>1. \A f \in 1..5 : Fields(r)[f] \in Seq(W)
    BY <1>0, FieldsAre, SeqWithin
  <1>2. \A f \in 1..4 : h[f] \in Seq(W)
    <2> TAKE f \in 1..4
    <2>1. f \in 1..5 /\ h[f] = Ext(Fields(r)[f], "\t")
      BY FieldsAre
    <2>2. Fields(r)[f] \in Seq(W)
      BY <1>1, <2>1
    <2> HIDE DEF h, W
    <2> QED BY <1>0, <2>1, <2>2, ExtTyped
  <1> HIDE DEF h, W
  <1> DEFINE L == Laid(h, 4)
             e == Fields(r)[5]
  <1>3. L \in Seq(W)
    <2>1. 4 \in Nat /\ 4 \in 0..4
      OBVIOUS
    <2> QED BY <1>2, <2>1, LaidTo
  <1>4. e \in Seq(W) /\ h[5] = Ext(e, "\n")
    BY <1>1, FieldsAre DEF h
  <1> HIDE DEF L, e
  <1>5. L \in Seq(A) /\ e \in Seq(A) /\ Ext(e, "\n") \in Seq(A)
    <2>1. L \in Seq(A) /\ e \in Seq(A)
      BY <1>0, <1>3, <1>4, SeqWithin
    <2> QED BY <1>0, <2>1, ExtTyped
  <1>6. Line(r) = Laid(h, 5)
    <2>1. h = [f \in 1..5 |-> Append(backup_escape(r[f]), IF f = 5 THEN "\n" ELSE "\t")]
      BY DEF h, Tabbed, Fields, Ext
    <2>2. Firsts(h, 5) = h
      <3>1. h = [f \in 1..5 |-> h[f]]
        BY <2>1
      <3> QED BY <3>1 DEF Firsts
    <2> QED BY <2>1, <2>2 DEF Line, Laid
  <1>7. Laid(h, 5) = Cat(L, h[5])
    <2>1. \A f \in 1..5 : h[f] \in Seq(A)
      <3> TAKE f \in 1..5
      <3>1. CASE f = 5
        BY <1>4, <1>5, <3>1
      <3>2. CASE f # 5
        <4>1. f \in 1..4
          BY <3>2
        <4>2. h[f] \in Seq(W)
          BY <1>2, <4>1
        <4> QED BY <1>0, <4>2, SeqWithin
      <3> QED BY <3>1, <3>2
    <2> DEFINE five == 5
    <2>2. five \in Nat /\ five \in 0..five /\ five # 0 /\ five - 1 = 4 /\ \A f \in 1..five : h[f] \in Seq(A)
      BY <2>1
    <2> HIDE DEF five
    <2>3. Laid(h, five) \in Seq(A) /\ Laid(h, five) = Cat(Laid(h, five - 1), h[five])
      BY <2>2, LaidTo
    <2> QED BY <2>2, <2>3 DEF L, five
  <1>8. Cat(L, Ext(e, "\n")) = Ext(Cat(L, e), "\n")
    BY <1>0, <1>5, CatExt
  <1>9. Cat(L, e) \in Seq(W)
    BY <1>3, <1>4, CatTyped
  <1> QED BY <1>4, <1>6, <1>7, <1>8, <1>9 DEF Body, L, e, h, W

\* The tabs part the fields, of a line and of what is left of one.
LEMMA BodySplit ==
    ASSUME NEW A, Special \subseteq A, NEW r \in Versions(A), NEW q \in 1..5, NEW u \in Seq(Inner(A))
    PROVE  Split(Cat(Laid(Tabbed(r), q - 1), u), "\t") = Ext(Firsts(Fields(r), q - 1), u)
  <1> DEFINE B == Inner(A)
             x == "\t"
             f == Tabbed(r)
             bs == Fields(r)
             h == q - 1
             n == 4
  <1>1. B \subseteq A /\ x \notin B /\ x \in A
    BY DEF Inner, Special
  <1>2. /\ \A i \in 1..n : bs[i] \in Seq(B)
        /\ \A i \in 1..n : f[i] = Ext(bs[i], x)
    BY FieldsAre
  <1>3. n \in Nat /\ h \in 0..n
    OBVIOUS
  <1> HIDE DEF B, x, f, bs, h, n
  <1>5. Ended(f, bs, n, x, A, B)
    BY <1>1, <1>2, <1>3 DEF Ended
  <1>4. Laid(f, h) \in Seq(A) /\ Split(Cat(Laid(f, h), u), x) = Ext(Firsts(bs, h), u)
    BY <1>3, <1>5, SplitEnded DEF B
  <1> QED BY <1>4 DEF B, x, f, bs, h

\* A whole line gives back its version.
LEMMA RestoredIs ==
    ASSUME NEW A, Special \subseteq A, NEW r \in Versions(A)
    PROVE  Body(r) # <<>> /\ Restored(Body(r)) = <<r>>
  <1> DEFINE es == Fields(r)
             e == es[5]
             p == Firsts(es, 4)
  <1>1. Split(Body(r), "\t") = es
    <2>1. 5 \in 1..5 /\ 5 - 1 = 4 /\ e \in Seq(Inner(A))
      BY FieldsAre
    <2>2. Split(Cat(Laid(Tabbed(r), 5 - 1), e), "\t") = Ext(Firsts(es, 5 - 1), e)
      <3> HIDE DEF es, e
      <3> DEFINE five == 5
      <3>1. five \in 1..5
        OBVIOUS
      <3> HIDE DEF five
      <3>2. Split(Cat(Laid(Tabbed(r), five - 1), e), "\t") = Ext(Firsts(Fields(r), five - 1), e)
        BY <2>1, <3>1, BodySplit
      <3> QED BY <3>2 DEF five, es
    <2>3. Ext(Firsts(es, 5 - 1), e) = Firsts(es, 5)
      <3> DEFINE five == 5
      <3>1. five \in Nat /\ five # 0 /\ e = es[five]
        OBVIOUS
      <3> HIDE DEF five, e, es
      <3>2. Firsts(es, five) = Ext(Firsts(es, five - 1), es[five])
        BY <3>1, FirstsMore
      <3> QED BY <3>1, <3>2 DEF five
    <2>4. Firsts(es, 5) = es
      BY DEF Firsts, Fields
    <2> QED BY <2>1, <2>2, <2>3, <2>4 DEF Body
  <1>2. DOMAIN es = 1..5 /\ \A f \in 1..5 : backup_unescape(es[f]) = r[f]
    <2>1. DOMAIN es = 1..5
      BY DEF Fields
    <2>2. ASSUME NEW f \in 1..5 PROVE backup_unescape(es[f]) = r[f]
      <3>1. es[f] = backup_escape(r[f]) /\ r[f] \in Seq(A)
        BY FieldsAre
      <3> QED BY <3>1, EscapeOf
    <2> QED BY <2>1, <2>2
  <1> HIDE DEF es
  <1>3. [f \in DOMAIN es |-> backup_unescape(es[f])] = r
    <2>1. r = [f \in 1..5 |-> r[f]]
      BY DEF Versions
    <2> QED BY <1>2, <2>1
  <1>4. Body(r) # <<>>
    <2>1. ASSUME Body(r) = <<>> PROVE FALSE
      <3>1. es = <<<<>>>>
        BY <1>1, <2>1, SplitNone
      <3>2. DOMAIN <<<<>>>> = 1..1
        OBVIOUS
      <3>3. 2 \in 1..5 /\ 2 \notin 1..1
        OBVIOUS
      <3> QED BY <1>2, <3>1, <3>2, <3>3
    <2> QED BY <2>1
  <1> QED BY <1>1, <1>3, <1>4 DEF Restored

\* A line that was cut within a field: it fits only if it was the last.
LEMMA RestoredCut ==
    ASSUME NEW A, Special \subseteq A, NEW r \in Versions(A), NEW q \in 1..5, NEW j \in 0..Len(Fields(r)[q]),
           NEW u, u = SubSeq(Fields(r)[q], 1, j), NEW line, line = Cat(Laid(Tabbed(r), q - 1), u)
    PROVE  CutLine(Restored(line), r)
  <1> DEFINE es == Fields(r)
             h == q - 1
             cols == Ext(Firsts(es, h), u)
             v == [f \in DOMAIN cols |-> backup_unescape(cols[f])]
  <1>0. h \in Nat /\ h + 1 = q /\ es[q] \in Seq(Inner(A)) /\ r[q] \in Seq(A) /\ es[q] = backup_escape(r[q])
    BY FieldsAre
  <1>1. u \in Seq(Inner(A))
    <2>1. \A i \in 1..j : es[q][i] \in Inner(A)
      BY <1>0, ElementOfSeq
    <2> HIDE DEF es
    <2> QED BY <2>1, SubSeqProperties DEF es
  <1>2. Split(line, "\t") = cols
    BY <1>1, BodySplit
  <1>3. cols \in Seq(Seq(Inner(A))) /\ Len(cols) = q /\ DOMAIN cols = 1..q /\ cols[q] = u /\ \A f \in 1..h : cols[f] = es[f]
    <2> DEFINE W == Seq(Inner(A))
               p == Firsts(es, h)
    <2>1. \A f \in 1..h : es[f] \in W
      <3> TAKE f \in 1..h
      <3>1. f \in 1..5
        OBVIOUS
      <3> QED BY <3>1, FieldsAre
    <2> HIDE DEF W, es, h
    <2>2. p \in Seq(W) /\ Len(p) = h /\ \A f \in 1..h : p[f] = es[f]
      <3>1. h \in Nat
        BY <1>0
      <3>2. p \in Seq(W) /\ Len(p) = h
        BY <2>1, <3>1, FirstsAre
      <3> QED BY <3>2 DEF Firsts
    <2>3. u \in W
      BY <1>1 DEF W
    <2> HIDE DEF p
    <2>4. Ext(p, u) \in Seq(W) /\ Len(Ext(p, u)) = Len(p) + 1
      BY <2>2, <2>3, ExtTyped
    <2>5. ASSUME NEW f \in 1..q PROVE Ext(p, u) \in Seq(W) /\ Ext(p, u)[f] = IF f = Len(p) + 1 THEN u ELSE p[f]
      <3>1. f \in 1..Len(p) + 1
        BY <1>0, <2>2
      <3> QED BY <2>2, <2>3, <3>1, ExtElements
    <2>6. q \in 1..q /\ \A f \in 1..h : f \in 1..q /\ f # q
      BY <1>0
    <2>7. DOMAIN Ext(p, u) = 1..Len(Ext(p, u))
      BY <2>4, LenProperties
    <2> QED BY <1>0, <2>2, <2>4, <2>5, <2>6, <2>7 DEF p, W
  <1> HIDE DEF cols
  <1>4. Len(v) = q /\ v[q] = backup_unescape(u) /\ \A f \in 1..h : v[f] = r[f]
    <2>1. DOMAIN v = 1..q /\ \A f \in 1..q : v[f] = backup_unescape(cols[f])
      BY <1>3
    <2>2. v = [f \in 1..q |-> v[f]]
      BY <1>3
    <2>3. Len(v) = q
      <3> DEFINE R == {v[f] : f \in 1..q}
      <3>1. v \in [1..q -> R]
        BY <2>1, <2>2
      <3>2. q \in Nat
        OBVIOUS
      <3> HIDE DEF v, R
      <3> QED BY <3>1, <3>2, LenProperties, SeqDef
    <2>4. ASSUME NEW f \in 1..h PROVE v[f] = r[f]
      <3>1. f \in 1..5 /\ f \in 1..q
        OBVIOUS
      <3>2. es[f] = backup_escape(r[f]) /\ r[f] \in Seq(A)
        BY <3>1, FieldsAre
      <3>3. cols[f] = es[f]
        BY <1>3
      <3>4. backup_unescape(backup_escape(r[f])) = r[f]
        BY <3>2, EscapeOf
      <3> QED BY <2>1, <3>1, <3>2, <3>3, <3>4
    <2>5. q \in 1..q
      OBVIOUS
    <2> HIDE DEF v
    <2> QED BY <1>3, <2>1, <2>3, <2>4, <2>5
  <1> HIDE DEF v
  <1>5. ASSUME Fits(v) PROVE CutRow(v, r)
    <2>1. q = 5 /\ h = 4
      BY <1>0, <1>4, <1>5 DEF Fits
    <2>2. v[1] = r[1] /\ v[2] = r[2] /\ v[3] = r[3] /\ v[4] = r[4]
      BY <1>4, <2>1
    <2>3. CutShort(v[5], r[5])
      <3>1. j \in 0..Len(backup_escape(r[5])) /\ u = SubSeq(backup_escape(r[5]), 1, j) /\ r[5] \in Seq(A)
        BY <1>0, <2>1
      <3>2. CutShort(backup_unescape(SubSeq(backup_escape(r[5]), 1, j)), r[5])
        BY <3>1, EscapeOf
      <3> QED BY <1>4, <2>1, <3>1, <3>2
    <2> QED BY <2>2, <2>3 DEF CutRow
  <1>6. Restored(line) = <<>> \/ Restored(line) = <<v>>
    BY <1>2 DEF Restored, v
  <1> QED BY <1>5, <1>6 DEF CutLine

\* str::lines, where no text has a return.
LEMMA LinesOf ==
    ASSUME NEW W, "\r" \notin W, NEW p \in Seq(Seq(W)), NEW u \in Seq(W), NEW s, Split(s, "\n") = Ext(p, u)
    PROVE  Lines(s) = IF u = <<>> THEN p ELSE Ext(p, u)
  <1> DEFINE parts == Split(s, "\n")
             n == Len(p)
             Bare(l) == IF l # <<>> /\ Last(l) = "\r" THEN Front(l) ELSE l
             ended == [i \in 1..Len(parts) - 1 |-> Bare(parts[i])]
  <1>1. Lines(s) = IF Last(parts) = <<>> THEN ended ELSE Append(ended, Last(parts))
    BY DEF Lines
  <1>2. n \in Nat /\ p = [i \in 1..n |-> p[i]] /\ \A i \in 1..n : p[i] \in Seq(W)
    BY LenProperties, ElementOfSeq
  <1>3. /\ Len(parts) = n + 1
        /\ \A i \in 1..n + 1 : parts[i] = IF i = n + 1 THEN u ELSE p[i]
    <2> DEFINE V == Seq(W)
    <2>1. p \in Seq(V) /\ u \in V
      OBVIOUS
    <2> HIDE DEF V
    <2>2. Len(Ext(p, u)) = n + 1
      BY <2>1, ExtTyped
    <2>3. ASSUME NEW i \in 1..n + 1 PROVE Ext(p, u) \in Seq(V) /\ Ext(p, u)[i] = IF i = n + 1 THEN u ELSE p[i]
      BY <2>1, ExtElements
    <2> QED BY <2>2, <2>3
  <1> HIDE DEF parts
  <1>4. \A i \in 1..n : Bare(p[i]) = p[i]
    <2>1. ASSUME NEW i \in 1..n, p[i] # <<>> PROVE Last(p[i]) # "\r"
      <3> DEFINE l == p[i]
      <3>1. l \in Seq(W) /\ l # <<>>
        BY <1>2, <2>1
      <3> HIDE DEF l
      <3>2. l[Len(l)] \in W
        <4>1. Len(l) \in 1..Len(l)
          BY <3>1, EmptySeq, LenProperties
        <4> QED BY <3>1, <4>1, ElementOfSeq
      <3> QED BY <3>2 DEF Last, l
    <2> QED BY <2>1
  <1>5. ended = p
    <2>1. Len(parts) - 1 = n
      BY <1>2, <1>3
    <2>2. \A i \in 1..n : parts[i] = p[i]
      BY <1>2, <1>3
    <2>3. \A i \in 1..n : Bare(parts[i]) = p[i]
      BY <1>4, <2>2
    <2>4. ended = [i \in 1..n |-> Bare(parts[i])]
      BY <2>1
    <2> HIDE DEF ended, Bare
    <2> QED BY <1>2, <2>3, <2>4
  <1>6. Last(parts) = u
    <2>1. n + 1 \in 1..n + 1 /\ parts[Len(parts)] = parts[n + 1]
      BY <1>2, <1>3
    <2> QED BY <1>3, <2>1 DEF Last
  <1> HIDE DEF ended
  <1> QED BY <1>1, <1>5, <1>6 DEF Ext

Singles(f, g, n, V) == n \in Nat /\ \A i \in 1..n : f[i] = <<g[i]>> /\ g[i] \in V

\* Pieces of one each.
LEMMA LaidSingles ==
    ASSUME NEW V, NEW n, NEW g, NEW f, Singles(f, g, n, V)
    PROVE  Laid(f, n) = Firsts(g, n)
  <1>0. n \in Nat /\ \A i \in 1..n : f[i] = <<g[i]>> /\ g[i] \in V
    BY DEF Singles
  <1> USE <1>0
  <1>1. \A i \in 1..n : f[i] \in Seq(V)
    <2> TAKE i \in 1..n
    <2> DEFINE x == g[i]
    <2>1. f[i] = <<x>> /\ x \in V
      OBVIOUS
    <2> HIDE DEF x
    <2> QED BY <2>1
  <1> DEFINE Right(h) == Laid(f, h) = Firsts(g, h)
             wrong == {h \in 0..n : ~Right(h)}
  <1>2. ASSUME wrong # {} PROVE FALSE
    <2>1. PICK h \in wrong : \A m \in wrong : h <= m
      <3>1. wrong \subseteq Nat
        <4> HIDE DEF Right
        <4> QED OBVIOUS
      <3> HIDE DEF wrong
      <3> QED BY <1>2, <3>1, LeastOf
    <2>2. h \in 0..n /\ ~Right(h)
      <3> HIDE DEF Right
      <3> QED OBVIOUS
    <2> HIDE DEF wrong
    <2>3. h # 0
      <3>1. Laid(f, 0) = <<>>
        BY LaidNone
      <3> QED BY <2>2, <3>1, FirstsNone
    <2>4. h \in 1..n /\ h - 1 \in 0..n /\ h \in Nat /\ h - 1 \in Nat
      BY <2>2, <2>3
    <2>5. Right(h - 1)
      <3>1. h - 1 \notin wrong
        BY <2>1, <2>4
      <3> HIDE DEF Right
      <3> QED BY <2>4, <3>1 DEF wrong
    <2>6. Laid(f, h) \in Seq(V) /\ Laid(f, h) = Cat(Laid(f, h - 1), f[h])
      BY <1>1, <2>2, <2>3, LaidTo
    <2>7. Firsts(g, h) = Ext(Firsts(g, h - 1), g[h])
      BY <2>3, <2>4, FirstsMore
    <2>8. Firsts(g, h - 1) \in Seq(V) /\ g[h] \in V
      <3>1. \A i \in 1..h - 1 : g[i] \in V
        BY <2>4
      <3> QED BY <2>4, <3>1, FirstsAre
    <2>9. Cat(Firsts(g, h - 1), <<g[h]>>) = Ext(Firsts(g, h - 1), g[h])
      BY <2>8, OneCat
    <2>10. f[h] = <<g[h]>>
      BY <2>4
    <2> QED BY <2>2, <2>5, <2>6, <2>7, <2>9, <2>10
  <1>3. n \in 0..n
    OBVIOUS
  <1> QED BY <1>2, <1>3

-----------------------------------------------------------------------------
(* A backup.                                                                  *)
Header == <<BACKUP_HEADER_PREFIX, SCHEMA_VERSION>>

\* Its lines, without and with their ends.
Inside(corpus) == [i \in 1..Len(corpus) + 1 |-> IF i = 1 THEN Header ELSE Body(corpus[i - 1])]
WithEnds(corpus) == [i \in 1..Len(corpus) + 1 |-> Ext(Inside(corpus)[i], "\n")]

Alphabet(A) == Special \subseteq A /\ BACKUP_HEADER_PREFIX \in A /\ SCHEMA_VERSION \in A

\* The lines of a backup: the header, and a version each.
LEMMA InsideIs ==
    ASSUME NEW A, Alphabet(A), NEW corpus \in Seq(Versions(A))
    PROVE  /\ Len(corpus) \in Nat
           /\ Ended(WithEnds(corpus), Inside(corpus), Len(corpus) + 1, "\n", A, Within(A))
           /\ Inside(corpus)[1] = Header
           /\ Header \in Seq(Within(A))
           /\ \A i \in 1..Len(corpus) : corpus[i] \in Versions(A) /\ Inside(corpus)[i + 1] = Body(corpus[i])
  <1> DEFINE n == Len(corpus)
  <1>0. n \in Nat /\ \A i \in 1..n : corpus[i] \in Versions(A)
    BY LenProperties, ElementOfSeq
  <1>1. "\n" \in A /\ "\n" \notin Within(A) /\ Within(A) \subseteq A /\ Special \subseteq A
    BY DEF Special, Within, Alphabet
  <1>2. BACKUP_HEADER_PREFIX \in Within(A) /\ SCHEMA_VERSION \in Within(A)
    <2>1. BACKUP_HEADER_PREFIX \notin {"\n", "\r"}
      BY DEF BACKUP_HEADER_PREFIX
    <2>2. SCHEMA_VERSION \notin {"\n", "\r"}
      BY DEF SCHEMA_VERSION
    <2> QED BY <2>1, <2>2 DEF Alphabet, Within
  <1>3. Header \in Seq(Within(A))
    BY <1>2 DEF Header
  <1>4. ASSUME NEW i \in 1..n + 1
        PROVE  Inside(corpus)[i] \in Seq(Within(A)) /\ WithEnds(corpus)[i] = Ext(Inside(corpus)[i], "\n")
    <2>1. Inside(corpus)[i] = IF i = 1 THEN Header ELSE Body(corpus[i - 1])
      BY DEF Inside
    <2>2. WithEnds(corpus)[i] = Ext(Inside(corpus)[i], "\n")
      BY DEF WithEnds
    <2>3. CASE i = 1
      BY <1>3, <2>1, <2>2, <2>3
    <2>4. CASE i # 1
      <3>1. i - 1 \in 1..n
        BY <1>0, <2>4
      <3>2. corpus[i - 1] \in Versions(A)
        BY <1>0, <3>1
      <3>3. Body(corpus[i - 1]) \in Seq(Within(A))
        BY <1>1, <3>2, LineIs
      <3> QED BY <2>1, <2>2, <2>4, <3>3
    <2> QED BY <2>3, <2>4
  <1>5. Ended(WithEnds(corpus), Inside(corpus), n + 1, "\n", A, Within(A))
    <2>1. n + 1 \in Nat
      BY <1>0
    <2> QED BY <1>1, <1>4, <2>1 DEF Ended
  <1>6. Inside(corpus)[1] = Header
    <2>1. 1 \in 1..n + 1
      BY <1>0
    <2> QED BY <2>1 DEF Inside
  <1>7. ASSUME NEW i \in 1..n PROVE Inside(corpus)[i + 1] = Body(corpus[i])
    <2>1. i + 1 \in 1..n + 1 /\ i + 1 # 1 /\ i + 1 - 1 = i
      BY <1>0
    <2> DEFINE h == i + 1
    <2> HIDE DEF h
    <2>2. Inside(corpus)[h] = IF h = 1 THEN Header ELSE Body(corpus[h - 1])
      BY <2>1 DEF Inside, h
    <2> QED BY <2>1, <2>2 DEF h
  <1> QED BY <1>0, <1>3, <1>5, <1>6, <1>7

LEMMA ExtThree ==
    ASSUME NEW c, NEW d, NEW e
    PROVE  Ext(<<c, d>>, e) = <<c, d, e>>
  <1> DEFINE A == {c, d, e}
             p == <<c, d>>
             q == <<e>>
             t == <<c, d, e>>
             u == Cat(p, q)
  <1>1. /\ p \in Seq(A) /\ Len(p) = 2 /\ p[1] = c /\ p[2] = d /\ q \in Seq(A) /\ Len(q) = 1 /\ q[1] = e
        /\ t \in Seq(A) /\ Len(t) = 3 /\ t[1] = c /\ t[2] = d /\ t[3] = e /\ e \in A
    OBVIOUS
  <1> HIDE DEF p, q, t, A
  <1>2. u \in Seq(A) /\ Len(u) = 3 /\ \A i \in 1..3 : u[i] = IF i <= 2 THEN p[i] ELSE q[i - 2]
    <2>1. u \in Seq(A) /\ Len(u) = Len(p) + Len(q)
      BY <1>1, CatTyped
    <2>2. ASSUME NEW i \in 1..Len(p) + Len(q)
          PROVE  u \in Seq(A) /\ u[i] = IF i <= Len(p) THEN p[i] ELSE q[i - Len(p)]
      BY <1>1, CatElements
    <2> HIDE DEF u
    <2> QED BY <1>1, <2>1, <2>2
  <1> HIDE DEF u
  <1>3. Len(u) = Len(t) /\ \A i \in 1..Len(u) : u[i] = t[i]
    BY <1>1, <1>2
  <1>4. u = t
    BY <1>1, <1>2, <1>3, SeqEqual
  <1>5. Ext(p, e) = Cat(p, <<e>>)
    BY <1>1, OneCat
  <1> QED BY <1>4, <1>5 DEF u, p, q, t

\* A backup is its lines, laid end to end.
LEMMA FileIs ==
    ASSUME NEW A, Alphabet(A), NEW corpus \in Seq(Versions(A))
    PROVE  dump_to_string(corpus) = Laid(WithEnds(corpus), Len(corpus) + 1)
  <1> DEFINE n == Len(corpus)
             fs == WithEnds(corpus)
             ln == [i \in 1..n |-> Line(corpus[i])]
             top == <<BACKUP_HEADER_PREFIX, SCHEMA_VERSION, "\n">>
  <1>0. n \in Nat /\ DOMAIN corpus = 1..n
    BY LenProperties
  <1>1. /\ \A i \in 1..n + 1 : fs[i] = Ext(Inside(corpus)[i], "\n") /\ Inside(corpus)[i] \in Seq(Within(A))
        /\ Inside(corpus)[1] = Header
        /\ \A i \in 1..n : corpus[i] \in Versions(A) /\ Inside(corpus)[i + 1] = Body(corpus[i])
        /\ Header \in Seq(Within(A))
        /\ "\n" \in A /\ Within(A) \subseteq A
    BY InsideIs DEF Ended
  <1>2. top = Ext(Header, "\n") /\ top \in Seq(A)
    <2>1. top = Ext(Header, "\n")
      BY ExtThree DEF Header
    <2>2. Header \in Seq(A)
      BY <1>1, SeqWithin
    <2> HIDE DEF top
    <2> QED BY <1>1, <2>1, <2>2, ExtTyped
  <1>3. \A i \in 1..n + 1 : fs[i] \in Seq(A)
    <2> TAKE i \in 1..n + 1
    <2>1. Inside(corpus)[i] \in Seq(A)
      BY <1>1, SeqWithin
    <2> QED BY <1>1, <2>1, ExtTyped
  <1>4. ASSUME NEW i \in 1..n PROVE ln[i] = fs[i + 1] /\ ln[i] \in Seq(A)
    <2>1. i + 1 \in 1..n + 1
      BY <1>0
    <2>2. Special \subseteq A
      BY DEF Alphabet
    <2>3. Line(corpus[i]) = Ext(Body(corpus[i]), "\n")
      BY <1>1, <2>2, LineIs
    <2>4. ln[i] = fs[i + 1]
      BY <1>1, <2>1, <2>3
    <2> QED BY <1>3, <2>1, <2>4
  <1> HIDE DEF top, ln, fs, n
  <1> DEFINE Right(h) == Laid(fs, h + 1) = Cat(top, Laid(ln, h))
             wrong == {h \in 0..n : ~Right(h)}
  <1>5. Laid(fs, 1) = top
    <2> DEFINE one == 1
    <2>1. one \in 0..n + 1 /\ one # 0 /\ one - 1 = 0 /\ n + 1 \in Nat /\ one \in 1..n + 1
      BY <1>0
    <2> HIDE DEF one
    <2>2. Laid(fs, one) \in Seq(A) /\ Laid(fs, one) = Cat(Laid(fs, one - 1), fs[one])
      <3>1. Row(fs, n + 1, A)
        BY <1>3, <2>1 DEF Row
      <3> QED BY <2>1, <3>1, LaidRow
    <2>3. Laid(fs, 0) = <<>>
      BY LaidNone
    <2>4. fs[one] = top
      BY <1>1, <1>2, <2>1 DEF one
    <2>5. Cat(<<>>, top) = top
      BY <1>2, CatTyped
    <2> QED BY <2>1, <2>2, <2>3, <2>4, <2>5 DEF one
  <1>6. Right(0)
    <2>1. Laid(ln, 0) = <<>>
      BY FirstsNone DEF Laid, FlattenSeq
    <2>2. Cat(top, <<>>) = top
      BY <1>2, CatTyped
    <2> QED BY <1>5, <2>1, <2>2
  <1>7. ASSUME wrong # {} PROVE FALSE
    <2>1. PICK h \in wrong : \A m \in wrong : h <= m
      <3>1. wrong \subseteq Nat
        <4> HIDE DEF Right
        <4> QED BY <1>0
      <3> HIDE DEF wrong
      <3> QED BY <1>7, <3>1, LeastOf
    <2>2. h \in 0..n /\ ~Right(h)
      <3> HIDE DEF Right
      <3> QED OBVIOUS
    <2> HIDE DEF wrong
    <2>3. h # 0
      <3> HIDE DEF Right
      <3> QED BY <1>6, <2>2
    <2>4. h \in 1..n /\ h - 1 \in 0..n /\ h + 1 \in 1..n + 1 /\ h + 1 # 0 /\ h + 1 - 1 = h /\ h - 1 + 1 = h
      BY <1>0, <2>2, <2>3
    <2>5. Right(h - 1)
      <3>1. h - 1 \notin wrong
        BY <1>0, <2>1, <2>4
      <3> HIDE DEF Right
      <3> QED BY <2>4, <3>1 DEF wrong
    <2> DEFINE g == h + 1
               L == Laid(ln, h - 1)
               l == ln[h]
    <2>6. Laid(fs, g) \in Seq(A) /\ Laid(fs, g) = Cat(Laid(fs, g - 1), fs[g])
      <3>1. g \in 0..n + 1 /\ g # 0 /\ n + 1 \in Nat
        BY <1>0, <2>4
      <3> HIDE DEF g
      <3> QED BY <1>3, <3>1, LaidTo
    <2>7. Laid(ln, h) \in Seq(A) /\ Laid(ln, h) = Cat(Laid(ln, h - 1), ln[h])
      <3>1. Row(ln, n, A)
        BY <1>0, <1>4 DEF Row
      <3> QED BY <2>2, <2>3, <3>1, LaidRow
    <2>8. L \in Seq(A) /\ l \in Seq(A)
      <3>1. L \in Seq(A)
        BY <1>0, <1>4, <2>4, LaidTo
      <3> QED BY <1>4, <2>4, <3>1
    <2>9. Laid(fs, g - 1) = Cat(top, L) /\ fs[g] = l
      BY <1>4, <2>4, <2>5
    <2> HIDE DEF L, l
    <2>10. Cat(Cat(top, L), l) = Cat(top, Cat(L, l))
      BY <1>2, <2>8, CatAssociative
    <2> QED BY <2>2, <2>6, <2>7, <2>9, <2>10 DEF L, l
  <1>8. Right(n)
    <2>1. n \in 0..n
      BY <1>0
    <2> HIDE DEF Right
    <2> QED BY <1>7, <2>1
  <1>9. dump_to_string(corpus) = Cat(top, Laid(ln, n))
    <2>1. Firsts(ln, n) = ln
      BY DEF Firsts, ln
    <2> QED BY <1>0, <2>1 DEF dump_to_string, Cat, Laid, top, ln
  <1> QED BY <1>8, <1>9 DEF n, fs

ReadFrom(ls) == FlattenSeq([i \in 1..Len(ls) - 1 |-> Restored(ls[i + 1])])

\* The lines of a backup up to some version, and a last one that was cut.
LEMMA ReadBack ==
    ASSUME NEW A, Alphabet(A), NEW corpus \in Seq(Versions(A)), NEW k \in 0..Len(corpus), NEW u \in Seq(Within(A)),
           NEW V, Versions(A) \subseteq V, Restored(u) \in Seq(V), NEW ls,
           ls = IF u = <<>> THEN Firsts(Inside(corpus), k + 1) ELSE Ext(Firsts(Inside(corpus), k + 1), u)
    PROVE  ls # <<>> /\ ls[1] = Header /\ ReadFrom(ls) = Cat(Firsts(corpus, k), Restored(u))
  <1> DEFINE n == Len(corpus)
             bs == Inside(corpus)
             m == Len(ls) - 1
             rr == [i \in 1..m |-> Restored(ls[i + 1])]
             p == Firsts(bs, k + 1)
             W == Seq(Within(A))
  <1>0. /\ n \in Nat /\ k \in Nat /\ k <= n
        /\ bs[1] = Header
        /\ \A i \in 1..n : corpus[i] \in Versions(A) /\ bs[i + 1] = Body(corpus[i])
        /\ \A i \in 1..n + 1 : bs[i] \in W
        /\ Special \subseteq A
    BY InsideIs DEF Ended, Alphabet
  <1> HIDE DEF bs, n, W
  <1>1. p \in Seq(W) /\ Len(p) = k + 1 /\ \A i \in 1..k + 1 : p[i] = bs[i]
    <2>1. k + 1 \in Nat /\ \A i \in 1..k + 1 : bs[i] \in W
      BY <1>0
    <2>2. p \in Seq(W) /\ Len(p) = k + 1
      <3> DEFINE h == k + 1
      <3> HIDE DEF h
      <3> QED BY <2>1, FirstsAre DEF h
    <2> QED BY <2>2 DEF Firsts
  <1> HIDE DEF p
  <1>2. ls = IF u = <<>> THEN p ELSE Ext(p, u)
    BY DEF p, bs
  <1>3. /\ Len(ls) = IF u = <<>> THEN k + 1 ELSE k + 2
        /\ \A i \in 1..k + 1 : ls[i] = bs[i]
        /\ u # <<>> => ls[k + 2] = u
    <2>1. CASE u = <<>>
      BY <1>0, <1>1, <1>2, <2>1
    <2>2. CASE u # <<>>
      <3>1. u \in W
        BY DEF W
      <3>2. Ext(p, u) \in Seq(W) /\ Len(Ext(p, u)) = Len(p) + 1 /\ Extends(Ext(p, u), p, u)
        BY <1>1, <3>1, ExtExtends
      <3>3. \A i \in 1..Len(p) + 1 : Ext(p, u)[i] = IF i = Len(p) + 1 THEN u ELSE p[i]
        BY <3>2 DEF Extends
      <3>4. \A i \in 1..k + 2 : ls[i] = IF i = k + 2 THEN u ELSE p[i]
        BY <1>0, <1>1, <1>2, <2>2, <3>3
      <3>5. k + 2 \in 1..k + 2 /\ \A i \in 1..k + 1 : i \in 1..k + 2 /\ i # k + 2
        BY <1>0
      <3> QED BY <1>0, <1>1, <1>2, <2>2, <3>2, <3>4, <3>5
    <2> QED BY <2>1, <2>2
  <1>4. ls # <<>> /\ ls[1] = Header
    <2>1. 1 \in 1..k + 1 /\ Len(ls) # 0
      BY <1>0, <1>3
    <2> QED BY <1>0, <1>3, <2>1
  <1>5. \A i \in 1..k : rr[i] = <<corpus[i]>> /\ corpus[i] \in Versions(A)
    <2> TAKE i \in 1..k
    <2>1. i \in 1..n /\ i + 1 \in 1..k + 1 /\ i \in 1..m
      BY <1>0, <1>3
    <2>2. corpus[i] \in Versions(A) /\ ls[i + 1] = Body(corpus[i])
      BY <1>0, <1>3, <2>1
    <2>3. Restored(Body(corpus[i])) = <<corpus[i]>>
      BY <1>0, <2>2, RestoredIs
    <2>4. rr[i] = Restored(ls[i + 1])
      BY <2>1
    <2> QED BY <2>2, <2>3, <2>4
  <1>6. ReadFrom(ls) = Laid(rr, m)
    <2>1. Firsts(rr, m) = rr
      BY DEF Firsts
    <2> QED BY <2>1 DEF ReadFrom, Laid
  <1>7. u # <<>> => rr[k + 1] = Restored(u)
    <2>1. u # <<>> => k + 1 \in 1..m /\ k + 1 + 1 = k + 2
      BY <1>0, <1>3
    <2> DEFINE h == k + 1
    <2>2. h \in 1..m => rr[h] = Restored(ls[h + 1])
      OBVIOUS
    <2> HIDE DEF rr
    <2> QED BY <1>3, <2>1, <2>2
  <1>8. u = <<>> => m = k
    BY <1>0, <1>3
  <1>9. u # <<>> => m = k + 1
    BY <1>0, <1>3
  <1> HIDE DEF rr, m
  <1>10. Laid(rr, k) = Firsts(corpus, k)
    <2>1. Singles(rr, corpus, k, Versions(A))
      BY <1>0, <1>5 DEF Singles
    <2> QED BY <2>1, LaidSingles
  <1>11. Firsts(corpus, k) \in Seq(V)
    <2>1. \A i \in 1..k : corpus[i] \in V
      BY <1>5
    <2> QED BY <1>0, <2>1, FirstsAre
  <1>12. CASE u = <<>>
    <2>1. Restored(u) = <<>>
      BY <1>12 DEF Restored
    <2>2. Cat(Firsts(corpus, k), <<>>) = Firsts(corpus, k)
      BY <1>11, CatTyped
    <2> QED BY <1>4, <1>6, <1>8, <1>10, <1>12, <2>1, <2>2
  <1>13. CASE u # <<>>
    <2> DEFINE h == k + 1
    <2>1. h \in Nat /\ h \in 0..h /\ h # 0 /\ h - 1 = k
      BY <1>0
    <2>2. \A i \in 1..h : rr[i] \in Seq(V)
      <3> TAKE i \in 1..h
      <3>1. CASE i = k + 1
        BY <1>7, <1>13, <3>1
      <3>2. CASE i # k + 1
        <4> DEFINE x == corpus[i]
        <4>1. i \in 1..k
          BY <1>0, <3>2
        <4>2. rr[i] = <<x>> /\ x \in V
          BY <1>5, <4>1
        <4> HIDE DEF x
        <4> QED BY <4>2
      <3> QED BY <3>1, <3>2
    <2> HIDE DEF h
    <2>3. Laid(rr, h) \in Seq(V) /\ Laid(rr, h) = Cat(Laid(rr, h - 1), rr[h])
      <3>1. Row(rr, h, V)
        BY <2>1, <2>2 DEF Row
      <3> QED BY <2>1, <3>1, LaidRow
    <2> QED BY <1>4, <1>6, <1>7, <1>9, <1>10, <1>13, <2>1, <2>3 DEF h
  <1> QED BY <1>12, <1>13

\* Every version of the corpus is accepted.
LEMMA FitsIs ==
    ASSUME NEW A, NEW r \in Versions(A)
    PROVE  Fits(r)
  <1>1. r \in [1..5 -> Seq(A)] /\ r[3] = Day /\ r[4] = Time
    BY DEF Versions
  <1>2. r \in Seq(Seq(A)) /\ Len(r) = 5
    <2> DEFINE W == Seq(A)
               five == 5
    <2>1. r \in [1..five -> W] /\ five \in Nat
      BY <1>1
    <2> HIDE DEF W, five
    <2>2. r \in Seq(W) /\ Len(r) = five
      BY <2>1, SeqDef, LenProperties
    <2> QED BY <2>2 DEF W, five
  <1> QED BY <1>1, <1>2 DEF Fits

LEMMA ExtCut ==
    ASSUME NEW A, NEW w \in Seq(A), NEW x \in A, NEW i \in 0..Len(w)
    PROVE  SubSeq(Ext(w, x), 1, i) = SubSeq(w, 1, i)
  <1> DEFINE t == <<x>>
  <1>1. t \in Seq(A) /\ Len(t) = 1 /\ Len(w) \in Nat
    BY LenProperties
  <1>2. Ext(w, x) = Cat(w, t)
    BY OneCat
  <1> HIDE DEF t
  <1>3. i <= Len(w) /\ i \in 0..Len(w) + Len(t)
    BY <1>1
  <1>4. SubSeq(Cat(w, t), 1, i) = SubSeq(w, 1, i)
    BY <1>1, <1>3, PrefixOfCat
  <1> QED BY <1>2, <1>4

\* A part of a line gives back a part of its version.
LEMMA BodyCut ==
    ASSUME NEW A, Special \subseteq A, NEW r \in Versions(A), NEW j \in 0..Len(Body(r))
    PROVE  CutLine(Restored(SubSeq(Body(r), 1, j)), r)
  <1> DEFINE h == Tabbed(r)
             es == Fields(r)
             L == Laid(h, 4)
             e == es[5]
             four == 4
  <1>0. \A q \in 1..5 : es[q] \in Seq(Inner(A)) /\ es[q] \in Seq(A) /\ Len(es[q]) \in Nat
    <2> TAKE q \in 1..5
    <2>1. es[q] \in Seq(Inner(A))
      BY FieldsAre
    <2>2. Inner(A) \subseteq A
      BY DEF Inner
    <2> HIDE DEF es
    <2> QED BY <2>1, <2>2, SeqWithin, LenProperties
  <1>1. \A q \in 1..four : h[q] = Ext(es[q], "\t") /\ h[q] \in Seq(A)
    <2> TAKE q \in 1..four
    <2>1. q \in 1..5 /\ q \in 1..4
      OBVIOUS
    <2>2. h[q] = Ext(es[q], "\t")
      BY <2>1, FieldsAre
    <2>3. es[q] \in Seq(A) /\ "\t" \in A
      BY <1>0, <2>1 DEF Special
    <2> HIDE DEF es, h
    <2> QED BY <2>2, <2>3, ExtTyped
  <1>2. L \in Seq(A) /\ Len(L) \in Nat
    <2>1. four \in Nat /\ four \in 0..four /\ L = Laid(h, four)
      OBVIOUS
    <2> HIDE DEF h, four, L
    <2>2. Laid(h, four) \in Seq(A)
      BY <1>1, <2>1, LaidTo
    <2> QED BY <2>1, <2>2, LenProperties
  <1>3. Body(r) = Cat(L, e) /\ e \in Seq(A) /\ Len(e) \in Nat
    <2>1. 5 \in 1..5
      OBVIOUS
    <2> QED BY <1>0, <2>1 DEF Body
  <1>4. \A q \in 1..5, i \in Nat : i <= Len(es[q]) =>
            CutLine(Restored(Cat(Laid(h, q - 1), SubSeq(es[q], 1, i))), r)
    <2> TAKE q \in 1..5, i \in Nat
    <2> HAVE i <= Len(es[q])
    <2>1. i \in 0..Len(es[q])
      BY <1>0
    <2> QED BY <2>1, RestoredCut
  <1>5. L = Laid(h, four) /\ four \in Nat /\ four = 4
    OBVIOUS
  <1> HIDE DEF h, es, L, e, four
  <1>6. j \in 0..Len(L) + Len(e)
    <2>1. Len(Cat(L, e)) = Len(L) + Len(e)
      BY <1>2, <1>3, CatTyped
    <2> QED BY <1>3, <2>1
  <1>7. CASE j >= Len(L)
    <2> DEFINE i == j - Len(L)
    <2>1. i \in Nat /\ i <= Len(e)
      BY <1>2, <1>3, <1>6, <1>7
    <2>2. SubSeq(Cat(L, e), 1, j) = Cat(L, SubSeq(e, 1, i))
      BY <1>2, <1>3, <1>6, <1>7, PrefixOfCat
    <2> HIDE DEF i
    <2> DEFINE q == 5
    <2>3. q \in 1..5 /\ q - 1 = 4 /\ e = es[q]
      BY DEF e
    <2> HIDE DEF q
    <2>4. CutLine(Restored(Cat(Laid(h, q - 1), SubSeq(es[q], 1, i))), r)
      BY <1>4, <2>1, <2>3
    <2> QED BY <1>3, <1>5, <2>2, <2>3, <2>4
  <1>8. CASE ~(j >= Len(L))
    <2>1. j \in Nat /\ j <= Len(L) /\ j < Len(Laid(h, four))
      BY <1>2, <1>5, <1>6, <1>8
    <2>2. SubSeq(Cat(L, e), 1, j) = SubSeq(L, 1, j)
      BY <1>2, <1>3, <1>6, <2>1, PrefixOfCat
    <2>3. CutAt(h, four, j)
      <3>1. Row(h, four, A)
        BY <1>1, <1>5 DEF Row
      <3> QED BY <2>1, <3>1, RowCut
    <2>4. PICK q \in 1..four, i \in Nat :
             i < Len(h[q]) /\ SubSeq(Laid(h, four), 1, j) = Cat(Laid(h, q - 1), SubSeq(h[q], 1, i))
      BY <2>3 DEF CutAt
    <2> DEFINE x == "\t"
               w == es[q]
    <2>5. q \in 1..5 /\ w \in Seq(A) /\ Len(w) \in Nat /\ h[q] = Ext(w, x) /\ x \in A
      <3>1. q \in 1..5
        BY <1>5
      <3> QED BY <1>0, <1>1, <3>1 DEF Special
    <2> HIDE DEF x, w
    <2>6. i <= Len(w) /\ SubSeq(Ext(w, x), 1, i) = SubSeq(w, 1, i)
      <3>1. Len(Ext(w, x)) = Len(w) + 1
        BY <2>5, ExtTyped
      <3>2. i \in 0..Len(w)
        BY <2>4, <2>5, <3>1
      <3> QED BY <2>5, <3>2, ExtCut
    <2>7. CutLine(Restored(Cat(Laid(h, q - 1), SubSeq(w, 1, i))), r)
      BY <1>4, <2>5, <2>6 DEF w
    <2> QED BY <1>3, <1>5, <2>2, <2>4, <2>5, <2>6, <2>7
  <1> QED BY <1>7, <1>8

BackOf(read) == IF \A i \in DOMAIN read : Fits(read[i]) THEN read ELSE Unreadable

\* What is restored from a backup that ends within some line.
LEMMA RestoreAt ==
    ASSUME NEW A, Alphabet(A), NEW corpus \in Seq(Versions(A)), NEW k \in 0..Len(corpus), NEW u \in Seq(Within(A)),
           NEW V, Versions(A) \subseteq V, Restored(u) \in Seq(V), NEW s
    PROVE  Split(s, "\n") = Ext(Firsts(Inside(corpus), k + 1), u) =>
               restore_from_str(s) = BackOf(Cat(Firsts(corpus, k), Restored(u)))
  <1> SUFFICES ASSUME Split(s, "\n") = Ext(Firsts(Inside(corpus), k + 1), u)
               PROVE  restore_from_str(s) = BackOf(Cat(Firsts(corpus, k), Restored(u)))
    OBVIOUS
  <1> DEFINE p == Firsts(Inside(corpus), k + 1)
             ls == Lines(s)
             read == ReadFrom(ls)
  <1>1. p \in Seq(Seq(Within(A)))
    <2> DEFINE h == k + 1
               W == Seq(Within(A))
    <2>1. h \in Nat /\ \A i \in 1..h : Inside(corpus)[i] \in W
      BY InsideIs DEF Ended
    <2> HIDE DEF h, W
    <2>2. Firsts(Inside(corpus), h) \in Seq(W)
      BY <2>1, FirstsAre
    <2> QED BY <2>2 DEF h, W
  <1>2. "\r" \notin Within(A)
    BY DEF Within
  <1>3. ls = IF u = <<>> THEN p ELSE Ext(p, u)
    <2> HIDE DEF p, ls
    <2> QED BY <1>1, <1>2, LinesOf DEF p, ls
  <1> HIDE DEF ls
  <1>4. ls # <<>> /\ ls[1] = Header /\ ReadFrom(ls) = Cat(Firsts(corpus, k), Restored(u))
    BY <1>3, ReadBack
  <1>5. restore_from_str(s) = IF ls # <<>> /\ ls[1] = Header /\ \A i \in DOMAIN read : Fits(read[i])
                              THEN read ELSE Unreadable
    BY DEF restore_from_str, ReadFrom, Header, ls
  <1> HIDE DEF read
  <1>6. restore_from_str(s) = BackOf(read)
    BY <1>4, <1>5 DEF BackOf
  <1> QED BY <1>4, <1>6 DEF read

\* The whole backup gives back the corpus.
LEMMA WholeBack ==
    ASSUME NEW A, Alphabet(A), NEW corpus \in Seq(Versions(A))
    PROVE  restore_from_str(dump_to_string(corpus)) = corpus
  <1> DEFINE n == Len(corpus)
             bs == Inside(corpus)
             fs == WithEnds(corpus)
             s == Laid(fs, n + 1)
             V == Versions(A)
             u == <<>>
  <1>1. n \in Nat /\ Ended(fs, bs, n + 1, "\n", A, Within(A)) /\ \A i \in 1..n : corpus[i] \in V
    BY InsideIs
  <1>2. u \in Seq(Within(A)) /\ u \in Seq(V) /\ Restored(u) = u
    BY DEF Restored
  <1>3. Split(s, "\n") = Ext(Firsts(bs, n + 1), u)
    <2> DEFINE h == n + 1
    <2>1. h \in 0..h /\ Ended(fs, bs, h, "\n", A, Within(A))
      BY <1>1
    <2> HIDE DEF h, u, fs, bs
    <2>2. Laid(fs, h) \in Seq(A) /\ Split(Laid(fs, h), "\n") = Ext(Firsts(bs, h), <<>>)
      BY <1>2, <2>1, SplitEnded
    <2> QED BY <2>2 DEF h, u
  <1>4. dump_to_string(corpus) = s
    BY FileIs
  <1>5. Firsts(corpus, n) = corpus
    <2>1. n \in 0..n
      BY <1>1
    <2> QED BY <2>1, FirstsOf
  <1> HIDE DEF s, u, n
  <1>6. n \in 0..Len(corpus) /\ V \subseteq V /\ Restored(u) \in Seq(V)
    BY <1>1, <1>2 DEF n
  <1>7. restore_from_str(s) = BackOf(Cat(Firsts(corpus, n), Restored(u)))
    <2> HIDE DEF V
    <2> QED BY <1>2, <1>3, <1>6, RestoreAt DEF V
  <1>8. Cat(corpus, u) = corpus
    BY CatTyped DEF u
  <1>9. \A i \in DOMAIN corpus : Fits(corpus[i])
    <2>1. DOMAIN corpus = 1..n
      BY LenProperties DEF n
    <2> HIDE DEF V
    <2> QED BY <1>1, <2>1, FitsIs DEF V
  <1>10. BackOf(corpus) = corpus
    BY <1>9 DEF BackOf
  <1> QED BY <1>2, <1>4, <1>5, <1>7, <1>8, <1>10

\* What comes back of a backup that lost its tail.
Partial(back, corpus) ==
    back # Unreadable =>
        /\ Len(back) <= Len(corpus)
        /\ \A i \in DOMAIN back, f \in 1..5 :
              \/ back[i][f] = corpus[i][f]
              \/ i = Len(back) /\ f = 5 /\ CutShort(back[i][5], corpus[i][5])

\* The versions of the lines before, and a part of the next, are such a rest.
LEMMA PartialRows ==
    ASSUME NEW V, NEW corpus \in Seq(V), NEW k \in 0..Len(corpus)
    PROVE  /\ Partial(BackOf(Firsts(corpus, k)), corpus)
           /\ \A v : k < Len(corpus) /\ (Fits(v) => CutRow(v, corpus[k + 1])) =>
                        Partial(BackOf(Ext(Firsts(corpus, k), v)), corpus)
  <1> DEFINE p == Firsts(corpus, k)
  <1>0. Len(corpus) \in Nat /\ k \in Nat /\ \A i \in 1..Len(corpus) : corpus[i] \in V
    BY LenProperties, ElementOfSeq
  <1>1. p \in Seq(V) /\ Len(p) = k /\ DOMAIN p = 1..k /\ \A i \in 1..k : p[i] = corpus[i]
    <2>1. \A i \in 1..k : corpus[i] \in V
      BY <1>0
    <2>2. p \in Seq(V) /\ Len(p) = k /\ DOMAIN p = 1..k
      BY <1>0, <2>1, FirstsAre
    <2> QED BY <2>2 DEF Firsts
  <1> HIDE DEF p
  <1>2. Partial(BackOf(p), corpus)
    <2>1. BackOf(p) = p \/ BackOf(p) = Unreadable
      BY DEF BackOf
    <2>2. Partial(p, corpus) /\ Partial(Unreadable, corpus)
      BY <1>0, <1>1 DEF Partial
    <2> QED BY <2>1, <2>2
  <1>3. ASSUME NEW v, k < Len(corpus), Fits(v) => CutRow(v, corpus[k + 1])
        PROVE  Partial(BackOf(Ext(p, v)), corpus)
    <2> DEFINE W == V \cup {v}
               b == Ext(p, v)
    <2>1. p \in Seq(W) /\ v \in W
      BY <1>1, SeqWithin
    <2> HIDE DEF W
    <2>2. b \in Seq(W) /\ Len(b) = Len(p) + 1 /\ Extends(b, p, v)
      BY <2>1, ExtExtends
    <2>3. DOMAIN b = 1..k + 1
      BY <1>1, <2>2, LenProperties
    <2> HIDE DEF b
    <2>4. ASSUME \A i \in DOMAIN b : Fits(b[i]) PROVE Partial(b, corpus)
      <3>1. Len(b) = k + 1 /\ \A i \in 1..k + 1 : b[i] = IF i = k + 1 THEN v ELSE corpus[i]
        <4>1. \A i \in 1..k + 1 : b[i] = IF i = k + 1 THEN v ELSE p[i]
          BY <1>1, <2>2 DEF Extends
        <4>2. \A i \in 1..k + 1 : i # k + 1 => i \in 1..k
          BY <1>0
        <4> QED BY <1>1, <2>2, <4>1, <4>2
      <3>2. CutRow(v, corpus[k + 1])
        <4>1. k + 1 \in DOMAIN b /\ b[k + 1] = v
          BY <1>0, <2>3, <3>1
        <4> QED BY <1>3, <2>4, <4>1
      <3>3. ASSUME NEW i \in DOMAIN b, NEW f \in 1..5
            PROVE  \/ b[i][f] = corpus[i][f]
                   \/ i = Len(b) /\ f = 5 /\ CutShort(b[i][5], corpus[i][5])
        <4>1. CASE i # k + 1
          BY <2>3, <3>1, <4>1
        <4>2. CASE i = k + 1
          <5>1. b[i] = v /\ i = Len(b)
            BY <2>3, <3>1, <4>2
          <5>2. f = 1 \/ f = 2 \/ f = 3 \/ f = 4 \/ f = 5
            OBVIOUS
          <5> DEFINE r == corpus[i]
          <5>3. v[1] = r[1] /\ v[2] = r[2] /\ v[3] = r[3] /\ v[4] = r[4] /\ CutShort(v[5], r[5])
            BY <3>2, <4>2 DEF CutRow
          <5> HIDE DEF r
          <5> QED BY <5>1, <5>2, <5>3 DEF r
        <4> QED BY <4>1, <4>2
      <3>4. Len(b) <= Len(corpus)
        BY <1>0, <1>3, <3>1
      <3> QED BY <3>3, <3>4 DEF Partial
    <2>5. Partial(Unreadable, corpus)
      BY DEF Partial
    <2> QED BY <2>4, <2>5 DEF BackOf, b
  <1> QED BY <1>2, <1>3 DEF p

\* A backup that was cut anywhere gives back such a rest, or is refused.
LEMMA PartBack ==
    ASSUME NEW A, Alphabet(A), NEW corpus \in Seq(Versions(A)), NEW m \in Nat, m < Len(dump_to_string(corpus))
    PROVE  Partial(restore_from_str(SubSeq(dump_to_string(corpus), 1, m)), corpus)
  <1> DEFINE n == Len(corpus)
             bs == Inside(corpus)
             fs == WithEnds(corpus)
             file == Laid(fs, n + 1)
             s == SubSeq(file, 1, m)
             B == Within(A)
  <1>1. /\ n \in Nat /\ bs[1] = Header /\ Header \in Seq(B)
        /\ Ended(fs, bs, n + 1, "\n", A, B)
        /\ \A i \in 1..n : corpus[i] \in Versions(A) /\ bs[i + 1] = Body(corpus[i])
        /\ B \subseteq A /\ "\n" \in A /\ Special \subseteq A
    BY InsideIs DEF Ended, Alphabet
  <1>2. dump_to_string(corpus) = file
    BY FileIs
  <1> HIDE DEF n, bs, fs, B
  <1>3. \A i \in 1..n + 1 : bs[i] \in Seq(B) /\ bs[i] \in Seq(A) /\ fs[i] = Ext(bs[i], "\n") /\ fs[i] \in Seq(A)
    <2> TAKE i \in 1..n + 1
    <2>1. bs[i] \in Seq(B) /\ fs[i] = Ext(bs[i], "\n")
      BY <1>1 DEF Ended
    <2>2. bs[i] \in Seq(A)
      BY <1>1, <2>1, SeqWithin
    <2> QED BY <1>1, <2>1, <2>2, ExtTyped
  <1>4. CutAt(fs, n + 1, m)
    <2> DEFINE h == n + 1
    <2>1. Row(fs, h, A)
      BY <1>1, <1>3 DEF Row
    <2>2. m < Len(Laid(fs, h))
      BY <1>2
    <2> HIDE DEF h
    <2>3. CutAt(fs, h, m)
      BY <2>1, <2>2, RowCut
    <2> QED BY <2>3 DEF h
  <1>5. PICK k \in 1..n + 1, j \in Nat : j < Len(fs[k]) /\ s = Cat(Laid(fs, k - 1), SubSeq(fs[k], 1, j))
    BY <1>4 DEF CutAt
  <1> HIDE DEF s
  <1> DEFINE w == bs[k]
             u == SubSeq(w, 1, j)
             g == k - 1
  <1>6. w \in Seq(B) /\ w \in Seq(A) /\ j \in 0..Len(w) /\ SubSeq(fs[k], 1, j) = u
    <2>1. w \in Seq(B) /\ w \in Seq(A) /\ fs[k] = Ext(w, "\n") /\ Len(w) \in Nat
      BY <1>3, LenProperties
    <2> HIDE DEF w
    <2>2. Len(fs[k]) = Len(w) + 1
      BY <1>1, <2>1, ExtTyped
    <2>3. j \in 0..Len(w)
      BY <1>5, <2>1, <2>2
    <2>4. SubSeq(Ext(w, "\n"), 1, j) = SubSeq(w, 1, j)
      BY <1>1, <2>1, <2>3, ExtCut
    <2> QED BY <2>1, <2>3, <2>4
  <1> HIDE DEF w
  <1>7. u \in Seq(B)
    <2>1. \A i \in 1..j : w[i] \in B
      BY <1>6, ElementOfSeq
    <2> QED BY <2>1, SubSeqProperties
  <1>8. g \in 0..n + 1 /\ g \in 0..n /\ s = Cat(Laid(fs, g), u)
    <2>1. g \in 0..n + 1 /\ g \in 0..n
      <3>1. n \in Nat /\ k \in 1..n + 1
        BY <1>1
      <3> QED BY ONLY <3>1 DEF g
    <2> HIDE DEF u
    <2>2. s = Cat(Laid(fs, k - 1), u)
      BY <1>5, <1>6
    <2> QED BY <2>1, <2>2
  <1> HIDE DEF u, g
  <1>9. Split(s, "\n") = Ext(Firsts(bs, g), u)
    <2>1. Laid(fs, g) \in Seq(A) /\ Split(Cat(Laid(fs, g), u), "\n") = Ext(Firsts(bs, g), u)
      <3> DEFINE h == n + 1
      <3>1. Ended(fs, bs, h, "\n", A, B) /\ g \in 0..h
        BY <1>1, <1>8
      <3> HIDE DEF h
      <3> QED BY <1>7, <3>1, SplitEnded
    <2> QED BY <1>8, <2>1
  <1>10. CASE g = 0
    <2> DEFINE ls == Lines(s)
               read == ReadFrom(ls)
               p == <<>>
    <2>1. p \in Seq(Seq(B)) /\ "\r" \notin B
      BY DEF B, Within
    <2>2. Split(s, "\n") = Ext(p, u)
      BY <1>9, <1>10, FirstsNone
    <2>3. Ext(p, u) = <<u>>
      BY ExtShort
    <2> HIDE DEF p, ls
    <2>4. ls = IF u = <<>> THEN p ELSE Ext(p, u)
      BY <1>7, <2>1, <2>2, LinesOf DEF ls
    <2>5. Len(ls) = 0 \/ Len(ls) = 1
      BY <2>3, <2>4 DEF p
    <2>6. read = <<>>
      <3>1. 1..Len(ls) - 1 = {}
        <4>1. Len(ls) - 1 = 0 - 1 \/ Len(ls) - 1 = 0
          BY <2>5
        <4>2. \A e : e = 0 - 1 \/ e = 0 => 1..e = {}
          OBVIOUS
        <4> QED BY <4>1, <4>2
      <3>2. [i \in 1..Len(ls) - 1 |-> Restored(ls[i + 1])] = <<>>
        BY <3>1
      <3> QED BY <3>2 DEF ReadFrom, FlattenSeq
    <2>7. restore_from_str(s) = IF ls # <<>> /\ ls[1] = Header /\ \A i \in DOMAIN read : Fits(read[i])
                                THEN read ELSE Unreadable
      BY DEF restore_from_str, ReadFrom, Header, ls
    <2> HIDE DEF read
    <2>8. restore_from_str(s) = <<>> \/ restore_from_str(s) = Unreadable
      BY <2>6, <2>7
    <2>9. Partial(<<>>, corpus) /\ Partial(Unreadable, corpus)
      BY <1>1 DEF Partial, n
    <2> QED BY <1>2, <2>8, <2>9 DEF s
  <1>11. CASE g # 0
    <2> DEFINE h == g - 1
               r == corpus[g]
               p == Firsts(corpus, h)
    <2>1. h \in 0..n /\ h \in 0..Len(corpus) /\ h + 1 = g /\ g \in 1..n /\ k = g + 1 /\ h < Len(corpus)
      BY <1>1, <1>5, <1>8, <1>11 DEF g, n
    <2>2. r \in Versions(A) /\ w = Body(r)
      BY <1>1, <2>1 DEF w
    <2>3. CutLine(Restored(u), r)
      BY <1>1, <1>6, <2>2, BodyCut DEF u
    <2>4. Split(s, "\n") = Ext(Firsts(Inside(corpus), h + 1), u)
      BY <1>9, <2>1 DEF bs
    <2>5. u \in Seq(Within(A))
      BY <1>7 DEF B
    <2> HIDE DEF h
    <2>6. CASE Restored(u) = <<>>
      <3> DEFINE V == Versions(A)
      <3>1. Restored(u) \in Seq(V) /\ V \subseteq V
        BY <2>6
      <3> HIDE DEF V
      <3>2. restore_from_str(s) = BackOf(Cat(p, Restored(u)))
        BY <2>1, <2>4, <2>5, <3>1, RestoreAt DEF V
      <3>3. p \in Seq(V)
        <4>1. h \in Nat /\ \A i \in 1..h : corpus[i] \in V
          BY <1>1, <2>1 DEF V
        <4> QED BY <4>1, FirstsAre
      <3>4. Cat(p, <<>>) = p
        BY <3>3, CatTyped
      <3>5. Partial(BackOf(p), corpus)
        BY <2>1, PartialRows
      <3> QED BY <1>2, <2>6, <3>2, <3>4, <3>5 DEF s
    <2>7. ASSUME NEW v, Restored(u) = <<v>>, Fits(v) => CutRow(v, r)
          PROVE  Partial(restore_from_str(s), corpus)
      <3> DEFINE V == Versions(A) \cup {v}
      <3>1. Restored(u) \in Seq(V) /\ Versions(A) \subseteq V /\ v \in V
        BY <2>7
      <3> HIDE DEF V
      <3>2. restore_from_str(s) = BackOf(Cat(p, Restored(u)))
        BY <2>1, <2>4, <2>5, <3>1, RestoreAt
      <3>3. p \in Seq(V)
        <4>1. h \in Nat /\ \A i \in 1..h : corpus[i] \in V
          BY <1>1, <2>1, <3>1
        <4> QED BY <4>1, FirstsAre
      <3>4. Cat(p, <<v>>) = Ext(p, v)
        BY <3>1, <3>3, OneCat
      <3>5. Partial(BackOf(Ext(p, v)), corpus)
        <4>1. \A x : h < Len(corpus) /\ (Fits(x) => CutRow(x, corpus[h + 1])) => Partial(BackOf(Ext(Firsts(corpus, h), x)), corpus)
          BY <2>1, PartialRows
        <4> QED BY <2>1, <2>7, <4>1
      <3> QED BY <2>7, <3>2, <3>4, <3>5
    <2> QED BY <1>2, <2>3, <2>6, <2>7 DEF CutLine, s
  <1> QED BY <1>10, <1>11

-----------------------------------------------------------------------------
(* The corpora of the machine.                                                *)
Used == Characters \cup Special \cup {BACKUP_HEADER_PREFIX, SCHEMA_VERSION, "2024-01-01", "2024-01-01T00:00:00Z"}

RowsInv == rows \in Seq(Versions(Used))

\* The characters of the machine are enough to write a backup.
LEMMA UsedIs == Alphabet(Used) /\ Day \in Seq(Used) /\ Time \in Seq(Used) /\ Characters \subseteq Used
  <1>1. Alphabet(Used) /\ Characters \subseteq Used
    BY DEF Alphabet, Used
  <1>2. "2024-01-01" \in Used /\ "2024-01-01T00:00:00Z" \in Used
    BY DEF Used
  <1> HIDE DEF Used
  <1> QED BY <1>1, <1>2 DEF Day, Time

LEMMA VersionIs ==
    ASSUME NEW A, NEW r \in Versions(A), NEW field \in {1, 2, 5}, NEW c \in A
    PROVE  [r EXCEPT ![field] = Append(@, c)] \in Versions(A)
  <1>1. r \in [1..5 -> Seq(A)] /\ r[3] = Day /\ r[4] = Time
    BY DEF Versions
  <1> DEFINE t == Ext(r[field], c)
             v == [r EXCEPT ![field] = t]
  <1>2. field \in 1..5 /\ field # 3 /\ field # 4
    OBVIOUS
  <1>3. r[field] \in Seq(A)
    BY <1>1, <1>2
  <1>4. t \in Seq(A)
    BY <1>3, ExtTyped
  <1>5. [r EXCEPT ![field] = Append(@, c)] = v
    BY DEF Ext
  <1> HIDE DEF t
  <1>6. v \in [1..5 -> Seq(A)]
    BY <1>1, <1>2, <1>4
  <1>7. v[3] = r[3] /\ v[4] = r[4]
    BY <1>1, <1>2
  <1> HIDE DEF v
  <1> QED BY <1>1, <1>5, <1>6, <1>7 DEF Versions

\* An empty corpus is one of versions.
LEMMA RowsStart == BackupInit => RowsInv
  <1> DEFINE V == Versions(Used)
  <1> HIDE DEF V
  <1>1. <<>> \in Seq(V)
    OBVIOUS
  <1> QED BY <1>1 DEF BackupInit, RowsInv, V

\* Every step leaves a corpus of versions.
LEMMA RowsStep == RowsInv /\ [BackupNext]_rows => RowsInv'
  <1> DEFINE V == Versions(Used)
  <1> SUFFICES ASSUME RowsInv, [BackupNext]_rows
               PROVE  rows' \in Seq(V)
    BY DEF RowsInv
  <1>0. rows \in Seq(V)
    BY DEF RowsInv
  <1>1. ASSUME NextVersion
        PROVE  rows' \in Seq(V)
    <2> DEFINE new == <<<<>>, <<>>, Day, Time, <<>>>>
    <2>1. new \in V
      <3> DEFINE T == Seq(Used)
      <3>1. Day \in T /\ Time \in T /\ <<>> \in T
        BY UsedIs
      <3> HIDE DEF T
      <3>2. new \in [1..5 -> T] /\ new[3] = Day /\ new[4] = Time
        BY <3>1
      <3> HIDE DEF new
      <3> QED BY <3>2 DEF Versions, T
    <2>2. rows' = Append(rows, new)
      BY <1>1 DEF NextVersion
    <2> HIDE DEF V, new
    <2> QED BY <1>0, <2>1, <2>2
  <1>2. ASSUME NEW field \in {1, 2, 5}, NEW c \in Characters, Write(field, c)
        PROVE  rows' \in Seq(V)
    <2> DEFINE n == Len(rows)
               v == [rows[n] EXCEPT ![field] = Append(@, c)]
    <2>1. rows # <<>> /\ rows' = [rows EXCEPT ![n] = v]
      BY <1>2 DEF Write
    <2>2. n \in 1..Len(rows) /\ rows[n] \in V
      <3> HIDE DEF V
      <3> QED BY <1>0, <2>1, EmptySeq, LenProperties, ElementOfSeq
    <2>3. v \in V
      <3>1. c \in Used
        BY UsedIs
      <3> QED BY <2>2, <3>1, VersionIs
    <2> HIDE DEF v, V
    <2> QED BY <1>0, <2>1, <2>2, <2>3, ExceptSeq
  <1>3. ASSUME NewCorpus
        PROVE  rows' \in Seq(V)
    <2> HIDE DEF V
    <2> QED BY <1>3 DEF NewCorpus
  <1>4. CASE UNCHANGED rows
    BY <1>0, <1>4
  <1> QED BY <1>1, <1>2, <1>3, <1>4 DEF BackupNext

LEMMA FileLength ==
    ASSUME NEW A, Alphabet(A), NEW corpus \in Seq(Versions(A))
    PROVE  dump_to_string(corpus) \in Seq(A) /\ Len(dump_to_string(corpus)) \in Nat
  <1> DEFINE bs == Inside(corpus)
             fs == WithEnds(corpus)
             h == Len(corpus) + 1
             u == <<>>
             B == Within(A)
             x == "\n"
  <1>1. h \in Nat /\ h \in 0..h /\ Ended(fs, bs, h, x, A, B) /\ dump_to_string(corpus) = Laid(fs, h)
    BY InsideIs, FileIs
  <1>2. u \in Seq(B)
    OBVIOUS
  <1> HIDE DEF fs, bs, h, u, B, x
  <1>3. Laid(fs, h) \in Seq(A) /\ Split(Cat(Laid(fs, h), u), x) = Ext(Firsts(bs, h), u)
    BY <1>1, <1>2, SplitEnded
  <1> QED BY <1>1, <1>3, LenProperties

\* Whatever the corpus is, its backup comes back.
LEMMA RowsComeBack == RowsInv => ComesBack
  <1> SUFFICES ASSUME RowsInv PROVE ComesBack
    OBVIOUS
  <1> DEFINE file == dump_to_string(rows)
  <1>1. Alphabet(Used) /\ rows \in Seq(Versions(Used))
    BY UsedIs DEF RowsInv
  <1>2. restore_from_str(file) = rows
    BY <1>1, WholeBack
  <1>3. ASSUME NEW m \in 0..Len(file) - 1
        PROVE  Partial(restore_from_str(SubSeq(file, 1, m)), rows)
    <2>1. m \in Nat /\ m < Len(file)
      <3>1. Len(file) \in Nat
        BY <1>1, FileLength
      <3> HIDE DEF file
      <3> QED BY <3>1
    <2> QED BY <1>1, <2>1, PartBack
  <1> HIDE DEF file
  <1>4. ASSUME NEW m \in 0..Len(file) - 1,
               restore_from_str(SubSeq(file, 1, m)) # Unreadable
        PROVE  LET back == restore_from_str(SubSeq(file, 1, m))
               IN  /\ Len(back) <= Len(rows)
                   /\ \A i \in DOMAIN back, f \in 1..5 :
                         \/ back[i][f] = rows[i][f]
                         \/ /\ i = Len(back) /\ f = 5
                            /\ \/ IsPrefix(back[i][5], rows[i][5])
                               \/ Last(back[i][5]) = "\\" /\ IsPrefix(Front(back[i][5]), rows[i][5])
    <2> DEFINE back == restore_from_str(SubSeq(file, 1, m))
    <2>1. Partial(back, rows) /\ back # Unreadable
      BY <1>3, <1>4
    <2> HIDE DEF back
    <2>2. Len(back) <= Len(rows)
      BY <2>1 DEF Partial
    <2>3. ASSUME NEW i \in DOMAIN back, NEW f \in 1..5
          PROVE  \/ back[i][f] = rows[i][f]
                 \/ /\ i = Len(back) /\ f = 5
                    /\ \/ IsPrefix(back[i][5], rows[i][5])
                       \/ Last(back[i][5]) = "\\" /\ IsPrefix(Front(back[i][5]), rows[i][5])
      <3>1. back[i][f] = rows[i][f] \/ (i = Len(back) /\ f = 5 /\ CutShort(back[i][5], rows[i][5]))
        BY <2>1 DEF Partial
      <3> QED BY <3>1 DEF CutShort
    <2> QED BY <2>2, <2>3 DEF back
  <1> QED BY <1>2, <1>4 DEF ComesBack, file

(* The backup of a corpus gives it back as it was, for texts of any length    *)
(* over any characters, those of the format included; and of a backup that    *)
(* lost its tail nothing comes back that was not there: the versions up to    *)
(* some row, of the last of them no more than the text is cut short, possibly *)
(* within an escape (dump_to_string, restore_from_str, backup_escape,         *)
(* backup_unescape).                                                          *)
THEOREM ComesBackAlways == BackupSpec => []ComesBack
  <1>1. BackupInit => RowsInv
    BY RowsStart
  <1>2. RowsInv /\ [BackupNext]_rows => RowsInv'
    BY RowsStep
  <1>3. RowsInv => ComesBack
    BY RowsComeBack
  <1> QED BY <1>1, <1>2, <1>3, PTL DEF BackupSpec
=============================================================================
