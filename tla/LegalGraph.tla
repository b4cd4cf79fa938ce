----------------------------- MODULE LegalGraph -----------------------------
(***************************************************************************)
(* The graph of legal metadata as the queries of fedlex-jolux see it: a    *)
(* set of facts <<predicate, subject, object>>, and what the clauses of    *)
(* SPARQL the queries are written with select of it.                       *)
(*                                                                         *)
(* A resource is named by a URI, here the sequence of its parts, so that   *)
(* one URI may begin with another or contain a name, as the texts do which *)
(* STRSTARTS and CONTAINS compare.  Days are numbers, other values atoms.  *)
(***************************************************************************)
EXTENDS Integers, SequencesExt

CONSTANTS
    none,       \* a variable that is not bound; None of Rust
    Links,      \* the predicates whose objects are resources
    MaxRows     \* the limits of queries that no constant of its own names

Objects(g, p, s) == {f[3] : f \in {f \in g : f[1] = p /\ f[2] = s}}
Subjects(g, p, o) == {f[2] : f \in {f \in g : f[1] = p /\ f[3] = o}}
Pairs(g, p) == {<<f[2], f[3]>> : f \in {f \in g : f[1] = p}}

\* OPTIONAL { s p ?x }
Optional(g, p, s) ==
    LET found == Objects(g, p, s) IN IF found = {} THEN {none} ELSE found

\* p+, along which the parts of acts are nested.
Below(g, p, o) ==
    LET reach[n \in Nat] ==
            IF n = 0 THEN Subjects(g, p, o)
            ELSE reach[n - 1] \cup UNION {Subjects(g, p, x) : x \in reach[n - 1]}
    IN  reach[Cardinality(Pairs(g, p))]

\* CONTAINS(STR(?x), name)
Mentions(uri, name) ==
    \E i \in 0..(Len(uri) - Len(name)) : SubSeq(uri, i + 1, i + Len(name)) = name

\* LIMIT n after no ORDER BY: any n of the rows.
Cut(rows, n) == IF Cardinality(rows) <= n THEN {rows} ELSE kSubset(n, rows)

\* LIMIT n after ORDER BY: ties may fall either way.
Foremost(rows, n, before) ==
    {kept \in Cut(rows, n) : \A r \in kept, o \in rows \ kept : <<o, r>> \notin before}

\* The orders in which rows may come when the query does not ask for one.
Orders(rows) == SetToSeqs(rows)

\* The first of the rows, or NotFound.
FirstOf(rows) == IF rows = {} THEN {none} ELSE rows

-----------------------------------------------------------------------------
(* The names of acts: Eli::new, eli_uri, strip_prefix(FEDLEX_BASE).          *)
Base == "https://fedlex.data.admin.ch"

Space == " "
Trimmed(raw) == IF raw # <<>> /\ Head(raw) = Space THEN Tail(raw) ELSE raw

EliNew(raw) ==
    LET trimmed == Trimmed(raw)
    IN  IF trimmed # <<>> /\ Head(trimmed) = "eli" THEN trimmed ELSE none

EliUri(eli) == <<Base>> \o eli
Relative(uri) == IF uri # <<>> /\ Head(uri) = Base THEN Tail(uri) ELSE uri

(* normalize_eid: JOLux writes art_14a where the documents have art_14_a.    *)
Letters == {"a", "b"}
JoinsLetter(eid, i) ==
    /\ eid[i] = "_" /\ i < Len(eid) /\ eid[i + 1] \in Letters
    /\ i + 1 = Len(eid) \/ eid[i + 2] = "/"
NormalizeEid(eid) ==
    LET kept == SetToSortSeq({i \in DOMAIN eid : ~JoinsLetter(eid, i)}, <)
    IN  [k \in DOMAIN kept |-> eid[kept[k]]]
=============================================================================
