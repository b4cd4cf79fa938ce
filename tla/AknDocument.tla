---------------------------- MODULE AknDocument ----------------------------
(***************************************************************************)
(* The arena of an AKN document (fedlex-akn, dom.rs) and the primitives    *)
(* that look things up in it (doc.rs, structure.rs, components.rs).        *)
(*                                                                         *)
(* A document is a sequence of nodes in document order, the order in which *)
(* copy_rox fills the arena; node 1 is the root and has parent NoNode.     *)
(* Pieces of text are nodes of tag "text" here.  A text is known by its    *)
(* node, its characters by their number: what becomes of a text shows in   *)
(* the set of nodes an operation returns.  Separators that text_of puts    *)
(* between blocks are not counted.                                         *)
(***************************************************************************)
EXTENDS Integers, Sequences, FiniteSetsExt

CONSTANTS
    None,     \* an absent attribute
    Corpora   \* kinds of documents, see Init

NoNode == 0

HierarchyTags == {"book", "part", "title", "chapter", "section", "subdivision", "article",
                  "paragraph", "level", "transitional", "proviso"}

\* What a node of a document is made of; eIds are numbers with their spelling.
EidValues == [num : Nat, underscore : BOOLEAN]
Uris      == [path : Nat, dated : BOOLEAN]
Nodes(tags) ==
    [ tag : tags, parent : Nat, eid : EidValues \cup {None},
      frbr : [uri : Uris \cup {None}, this : Uris \cup {None}], len : Nat ]

\* Each node but the root is below one that was still open.
InDocumentOrder(d) ==
    /\ Len(d) >= 1 /\ d[1].parent = NoNode
    /\ \A n \in 2 .. Len(d) :
          /\ d[n].parent \in 1 .. n - 1
          /\ \A k \in d[n].parent + 1 .. n - 1 : d[k].parent >= d[n].parent

\* A document begins as one, and has no tags but those that stand below others.
\* Its root is the whole of an act or a component, not an element of the hierarchy.
ASSUME CorporaAssumption ==
    \A c \in Corpora :
        /\ c.begin \in Seq(Nodes(DOMAIN c.below)) /\ InDocumentOrder(c.begin)
        /\ c.begin[1].tag \notin HierarchyTags
        /\ \A tag \in DOMAIN c.below : c.below[tag] \subseteq DOMAIN c.below
        /\ "text" \in DOMAIN c.below
        /\ c.lengths \subseteq Nat

ASSUME NoneAssumption == None \notin EidValues \cup Uris

VARIABLES
    doc,     \* the arena
    corpus   \* the kind of document being read

vars == <<doc, corpus>>

-----------------------------------------------------------------------------
(* dom.rs                                                                   *)

Node(tag, parent, eid, frbr, len) ==
    [tag |-> tag, parent |-> parent, eid |-> eid, frbr |-> frbr, len |-> len]

Elements(d) == {i \in DOMAIN d : d[i].tag # "text"}

(* In document order a subtree ends where a node hangs further up.           *)
Subtree(d, i) ==
    LET Outside == {k \in i + 1 .. Len(d) : d[k].parent < i}
    IN  IF Outside = {} THEN i .. Len(d) ELSE i .. Min(Outside) - 1

\* The node and its ancestors.
Ancestry(d, i) ==
    LET Above[n \in 0 .. i] == IF n = NoNode THEN {} ELSE {n} \cup Above[d[n].parent]
    IN  Above[i]

Children(d, i) == {c \in Elements(d) : d[c].parent = i}

FindAll(d, i, tag) == {e \in Subtree(d, i) : d[e].tag = tag}

FindChild(d, i, tag) ==
    LET found == {c \in Children(d, i) : d[c].tag = tag}
    IN  IF found = {} THEN NoNode ELSE Min(found)

\* The texts of a subtree outside of the elements below i with a tag of cut.
Texts(d, i, cut) ==
    LET below == {c \in Subtree(d, i) \ {i} : d[c].tag \in cut}
    IN  FindAll(d, i, "text") \ UNION {Subtree(d, c) : c \in below}

TextOf(d, i)            == Texts(d, i, {"authorialNote", "foreign"})
TextWithoutTables(d, i) == Texts(d, i, {"authorialNote", "foreign", "table"})
TextWithNotes(d, i)     == Texts(d, i, {"foreign"})

Size(d, texts) == MapThenSumSet(LAMBDA t : d[t].len, texts)

NearestEid(d, i) ==
    LET named == {a \in Ancestry(d, i) : d[a].eid # None}
    IN  IF named = {} THEN None ELSE d[Max(named)].eid

-----------------------------------------------------------------------------
(* structure.rs.  An eId is a number and its spelling: with the underscore   *)
(* of the XML (art_14_a) or without it, as JOLux has it (art_14a).           *)

NormalizeEid(e) == [e EXCEPT !.underscore = FALSE]

LookupEid(d, r, e) == {i \in Subtree(d, r) : d[i].eid = e}

ResolveEid(d, r, e) ==
    LET exact == LookupEid(d, r, e)
        other == {i \in Subtree(d, r) : d[i].eid # None /\ NormalizeEid(d[i].eid) = NormalizeEid(e)}
        hits  == IF exact # {} THEN exact ELSE other
    IN  [node       |-> IF hits = {} THEN NoNode ELSE Min(hits),
         duplicates |-> Cardinality(hits) - 1]

\* The hierarchy elements from the root r to the node.
SectionPath(d, r, i) == {a \in Ancestry(d, i) \cap Subtree(d, r) : d[a].tag \in HierarchyTags}

-----------------------------------------------------------------------------
(* doc.rs.  Of the FRBR block of an act or a component only the URI of the   *)
(* work is kept, which is FRBRuri or else FRBRthis, and may carry the date   *)
(* of a consolidation.                                                       *)

EliWork(d, r) == IF d[r].frbr.uri # None THEN d[r].frbr.uri ELSE d[r].frbr.this

WorkEliPath(uri) == [uri EXCEPT !.dated = FALSE]

Body(d, r) ==
    IF FindChild(d, r, "body") # NoNode THEN FindChild(d, r, "body") ELSE FindChild(d, r, "mainBody")

ClassifyPattern(d, r) ==
    LET body      == Body(d, r)
        Has(tags) == \E n \in Subtree(d, body) : d[n].tag \in tags
    IN  CASE body = NoNode -> "NoBody"
          [] body # NoNode /\ Has({"article"}) ->
                IF Has({"chapter", "section", "title", "part", "book"}) THEN "Structured" ELSE "FlatArticles"
          [] OTHER ->
                IF Has({"level"}) THEN "LevelBased" ELSE IF Has({"mod"}) THEN "Amendment" ELSE "Other"

-----------------------------------------------------------------------------
(* Parsing: copy_rox adds a node after the other, each below an element that *)
(* is still open.  The documents read are those of a kind of the corpus: how *)
(* they begin, which tags stand below which, who carries an eId, and what an *)
(* FRBR block may lack.                                                      *)

Open(d) == {a \in Ancestry(d, Len(d)) : d[a].tag # "text"}

\* An eId of its own, one that was given before in either spelling, or none.
Eids(d, how) ==
    UNION { IF "none" \in how THEN {None} ELSE {},
            IF "own" \in how THEN {[num |-> Len(d) + 1, underscore |-> TRUE]} ELSE {},
            IF "again" \in how
            THEN {[num |-> d[i].eid.num, underscore |-> b] :
                     i \in {n \in DOMAIN d : d[n].eid # None}, b \in BOOLEAN}
            ELSE {} }

NoFrbr == [uri |-> None, this |-> None]

Frbrs(d, tag) ==
    IF tag # "doc" THEN {NoFrbr}
    ELSE LET own == [path |-> Len(d) + 1, dated |-> TRUE]
         IN  {NoFrbr, [uri |-> own, this |-> None], [uri |-> None, this |-> own]}

Init ==
    /\ corpus \in Corpora
    /\ doc = corpus.begin

Element(p, tag) ==
    /\ tag # "text"
    /\ \E eid \in Eids(doc, corpus.eids[tag]), frbr \in Frbrs(doc, tag) :
          doc' = Append(doc, Node(tag, p, eid, frbr, 0))
    /\ UNCHANGED corpus

\* A parser joins neighbouring pieces of text.
Text(p, len) ==
    /\ "text" \in corpus.below[doc[p].tag]
    /\ ~(doc[Len(doc)].tag = "text" /\ doc[Len(doc)].parent = p)
    /\ doc' = Append(doc, Node("text", p, None, NoFrbr, len))
    /\ UNCHANGED corpus

Next ==
    /\ Len(doc) < corpus.nodes
    /\ \E p \in Open(doc) :
          \/ \E tag \in corpus.below[doc[p].tag] : Element(p, tag)
          \/ \E len \in corpus.lengths : Text(p, len)

Spec == Init /\ [][Next]_vars

=============================================================================
