------------------------------ MODULE Chunking ------------------------------
(***************************************************************************)
(* Chunking of an AKN document (chunking.rs and components.rs of           *)
(* fedlex-akn): how its text reaches an index.                             *)
(***************************************************************************)
EXTENDS AknDocument, SequencesExt

CONSTANTS
    SplitThreshold,   \* characters a chunk should not exceed (SPLIT_THRESHOLD)
    StubLength        \* a component with a shorter text is a stub

ASSUME ThresholdsAssumption == SplitThreshold \in Nat /\ StubLength \in Nat

\* Each node has its place: as many are before it as in the arena.
InOrder(nodes) ==
    [k \in 1..Cardinality(nodes) |-> CHOOSE n \in nodes : Cardinality({m \in nodes : m < n}) = k - 1]

-----------------------------------------------------------------------------
(* chunking.rs: pieces of text, in the order they are pushed in.             *)

Piece(node, suffix, texts) == [node |-> node, suffix |-> suffix, texts |-> texts]

\* Mutant of Packed: the room the header takes in each part is forgotten.
PackedTight(d, items, reserve) ==
    LET Group(i) == [texts |-> i, len |-> Size(d, i)]
        Add(groups, i) ==
            IF Size(d, i) = 0 THEN groups
            ELSE IF groups = <<>> \/ Last(groups).len + Size(d, i) > SplitThreshold
            THEN Append(groups, Group(i))
            ELSE Append(Front(groups), [texts |-> Last(groups).texts \cup i,
                                        len   |-> Last(groups).len + 1 + Size(d, i)])
    IN  FoldLeft(Add, <<>>, items)

\* Mutant of Packed: every text is a group.
PackedTexts(d, items, reserve) ==
    LET texts == InOrder(UNION Range(items)) IN [n \in DOMAIN texts |-> [texts |-> {texts[n]}, len |-> d[texts[n]].len]]

(* Items are joined by newlines until the next one would pass the threshold; *)
(* `reserve` is the room each group leaves.                                  *)
Packed(d, items, reserve) ==
    LET Group(i) == [texts |-> i, len |-> Size(d, i)]
        Add(groups, i) ==
            IF Size(d, i) = 0 THEN groups
            ELSE IF groups = <<>> \/ reserve + Last(groups).len + Size(d, i) > SplitThreshold
            THEN Append(groups, Group(i))
            ELSE Append(Front(groups), [texts |-> Last(groups).texts \cup i,
                                        len   |-> Last(groups).len + 1 + Size(d, i)])
    IN  FoldLeft(Add, <<>>, items)

HasHeader(d, rows) == rows # <<>> /\ \E c \in Children(d, rows[1]) : d[c].tag = "th"

\* The pieces of the k-th table of a node that is split.
TablePieces(d, node, k, table) ==
    LET rows     == InOrder(FindAll(d, table, "tr"))
        headed   == HasHeader(d, rows)
        header   == IF headed THEN TextOf(d, rows[1]) ELSE {}
        dataRows == [r \in DOMAIN rows |-> TextOf(d, rows[r])]
        groups   == Packed(d, IF headed THEN Tail(dataRows) ELSE dataRows,
                           IF headed THEN Size(d, header) + 2 ELSE 1)
    IN  IF Size(d, TextOf(d, table)) <= SplitThreshold
        THEN << Piece(node, <<k>>, TextOf(d, table)) >>
        ELSE [g \in DOMAIN groups |-> Piece(node, <<k, g>>, header \cup groups[g].texts)]

TableAware(d, node) ==
    LET tables == InOrder(FindAll(d, node, "table"))
    IN  IF Size(d, TextOf(d, node)) <= SplitThreshold \/ tables = <<>>
        THEN << Piece(node, <<>>, TextOf(d, node)) >>
        ELSE << Piece(node, <<>>, TextWithoutTables(d, node)) >>
             \o FlattenSeq([k \in DOMAIN tables |-> TablePieces(d, node, k, tables[k])])

Paragraphs(d, art) == {c \in Children(d, art) : d[c].tag = "paragraph"}

\* Mutant of Split: an oversized article without paragraphs is split, too.
SplitAnyway(d, art) == Size(d, TextOf(d, art)) > SplitThreshold

Split(d, art) == Size(d, TextOf(d, art)) > SplitThreshold /\ Paragraphs(d, art) # {}

LevelLeaves(d, r) == {l \in FindAll(d, Body(d, r), "level") : FindAll(d, l, "level") = {l}}

(* The nodes that become chunks: articles, or the paragraphs of those that   *)
(* are too long, innermost levels, or mods.                                  *)
Sources(d, r) ==
    LET pattern  == ClassifyPattern(d, r)
        articles == InOrder(FindAll(d, Body(d, r), "article"))
    IN  CASE pattern \in {"Structured", "FlatArticles"} ->
                FlattenSeq([n \in DOMAIN articles |->
                    InOrder(IF Split(d, articles[n]) THEN Paragraphs(d, articles[n]) ELSE {articles[n]})])
          [] pattern = "LevelBased" -> InOrder(LevelLeaves(d, r))
          [] pattern = "Amendment"  -> InOrder(FindAll(d, Body(d, r), "mod"))
          [] OTHER -> <<>>

BodyPieces(d, r) ==
    LET sources == Sources(d, r)
        ps      == InOrder(FindAll(d, Body(d, r), "p"))
        groups  == Packed(d, [n \in DOMAIN ps |-> TextOf(d, ps[n])], 0)
    IN  IF ClassifyPattern(d, r) = "Other"
        THEN [g \in DOMAIN groups |-> Piece(NoNode, <<>>, groups[g].texts)]
        ELSE FlattenSeq([n \in DOMAIN sources |-> TableAware(d, sources[n])])

-----------------------------------------------------------------------------
(* From pieces to chunks: an empty piece is none.  The chunk_id is made of   *)
(* the work, the eId or else the position, and the suffix.                   *)

\* Mutant of ChunkId: the parts of a table share an id.
ChunkIdOfTable(c) == <<c.eli, c.eid, IF c.eid # None THEN 0 ELSE c.idx, Len(c.suffix) > 0>>

ChunkId(c) == <<c.eli, c.eid, IF c.eid # None THEN 0 ELSE c.idx, c.suffix>>

Pushed(d, r, pieces) ==
    LET Push(chunks, p) ==
            IF Size(d, p.texts) = 0 THEN chunks
            ELSE Append(chunks,
                    [ eli    |-> WorkEliPath(EliWork(d, r)),
                      eid    |-> IF p.node = NoNode THEN None ELSE d[p.node].eid,
                      idx    |-> Len(chunks),
                      suffix |-> p.suffix,
                      path   |-> IF p.node = NoNode THEN {} ELSE SectionPath(d, r, p.node),
                      texts  |-> p.texts ])
    IN  FoldLeft(Push, <<>>, pieces)

-----------------------------------------------------------------------------
(* components.rs                                                             *)

\* The inner document of each component, NoNode for one that has none.
ComponentDocs(d) ==
    LET cs == InOrder(FindAll(d, 1, "component")) IN [n \in DOMAIN cs |-> FindChild(d, cs[n], "doc")]

IsEmptyStub(d, inner) ==
    \/ inner = NoNode
    \/ FindChild(d, inner, "mainBody") = NoNode
    \/ Size(d, TextOf(d, FindChild(d, inner, "mainBody"))) < StubLength

(* The roots of what is chunked: the act, or else the components that are no *)
(* stubs, each parsed into an arena of its own, which is the subtree here.   *)
(* These have a mainBody, so the recursion of the code goes no deeper.       *)
Roots(d) ==
    LET inner == ComponentDocs(d)
    IN  IF ClassifyPattern(d, 1) # "NoBody" THEN <<1>>
        ELSE FlattenSeq([n \in DOMAIN inner |-> IF IsEmptyStub(d, inner[n]) THEN <<>> ELSE <<inner[n]>>])

\* One work that is not named fails the whole document.
ChunkDocument(d) ==
    LET roots == Roots(d)
    IN  IF \E r \in {1} \cup Range(roots) : EliWork(d, r) = None
        THEN [ok |-> FALSE, chunks |-> <<>>]
        ELSE [ok |-> TRUE,
              chunks |-> FlattenSeq([n \in DOMAIN roots |-> Pushed(d, roots[n], BodyPieces(d, roots[n]))])]

-----------------------------------------------------------------------------
(* Properties of the chunks of every document.                              *)

\* What the pattern of a document makes chunks of.
Units(r) ==
    LET pattern == ClassifyPattern(doc, r)
    IN  CASE pattern \in {"Structured", "FlatArticles"} -> FindAll(doc, Body(doc, r), "article")
          [] pattern = "LevelBased" -> LevelLeaves(doc, r)
          [] pattern = "Amendment"  -> FindAll(doc, Body(doc, r), "mod")
          [] OTHER                  -> FindAll(doc, Body(doc, r), "p")

IsHeader(t) ==
    \E table \in FindAll(doc, 1, "table") :
        LET rows == InOrder(FindAll(doc, table, "tr"))
        IN  HasHeader(doc, rows) /\ t \in TextOf(doc, rows[1])

\* The text stands in one element that is chunked inside of another.
InBoth(t) ==
    \/ \E tag \in {"article", "mod", "table", "component"} :
          Cardinality({a \in Ancestry(doc, t) : doc[a].tag = tag}) > 1
    \/ \E tag \in {"tr", "p"} :
          Cardinality({a \in Ancestry(doc, t) : doc[a].tag = tag /\ t \in TextOf(doc, a)}) > 1

(* "Wer naiv alle eId-Elemente als Chunks indexiert, hat jeden Satz 3-4x im  *)
(* Index": no text is in two chunks, but for the header of a split table,    *)
(* unless an article, a mod, a table or a component stands inside of another *)
(* or a row or a paragraph is part of another.                               *)
NoTextTwice ==
    LET Chunks == ChunkDocument(doc).chunks
    IN  \A m, n \in DOMAIN Chunks : m < n =>
            \A t \in Chunks[m].texts \cap Chunks[n].texts : IsHeader(t) \/ InBoth(t)

HeadAlone(rows) == HasHeader(doc, rows) /\ \A n \in DOMAIN rows \ {1} : Size(doc, TextOf(doc, rows[n])) = 0

(* "stillschweigend verschwinden": the text of what is chunked is in a chunk *)
(* unless an article too long for one has it outside of its paragraphs, or a *)
(* table too long for one outside of its rows, or in a head that no data     *)
(* follow: a group of rows is what repeats it.                               *)
OnlyTheseVanish ==
    LET result  == ChunkDocument(doc)
        chunked == UNION {c.texts : c \in Range(result.chunks)}
    IN  result.ok => \A r \in Range(Roots(doc)) : \A u \in Units(r) : \A t \in TextOf(doc, u) \ chunked :
            \/ doc[t].len = 0
            \/ /\ doc[u].tag = "article" /\ Split(doc, u) /\ Paragraphs(doc, u) # {}
               /\ \A q \in Paragraphs(doc, u) : t \notin Subtree(doc, q)
            \/ \E table \in FindAll(doc, u, "table") :
                  /\ Size(doc, TextOf(doc, table)) > SplitThreshold
                  /\ t \in Subtree(doc, table)
                  /\ \A row \in FindAll(doc, table, "tr") : t \in Subtree(doc, row) =>
                        HeadAlone(InOrder(FindAll(doc, table, "tr")))

(* Text reaches the index once: none is in it twice, none is missing.        *)
ChunkedOnce == NoTextTwice /\ OnlyTheseVanish

(* "Jeder Teil bleibt unter der Schwelle": a part of a table with its header *)
(* and its newlines fits the threshold, or it is a single row, which is      *)
(* never cut.                                                                *)
PartsFit ==
    \A c \in Range(ChunkDocument(doc).chunks) :
        Len(c.suffix) = 2 =>
            LET rows == {r \in FindAll(doc, 1, "tr") :
                            /\ TextOf(doc, r) \cap c.texts # {} /\ Size(doc, TextOf(doc, r)) > 0
                            /\ \A a \in Ancestry(doc, r) \ {r} : doc[a].tag # "tr"}
                data == {r \in rows : \A t \in TextOf(doc, r) : ~IsHeader(t)}
            IN  \/ Size(doc, c.texts) + Cardinality(rows) - 1 <= SplitThreshold
                \/ Cardinality(data) <= 1

UniqueEids ==
    \A i, j \in DOMAIN doc :
        doc[i].eid # None /\ doc[j].eid # None /\ i # j => doc[i].eid.num # doc[j].eid.num

\* No two of the documents that are chunked are of one work.
UniqueWorks ==
    \A r, s \in Range(Roots(doc)) : r # s => WorkEliPath(EliWork(doc, r)) # WorkEliPath(EliWork(doc, s))

(* "Stabile ID", "eId der Chunk-Quelle", "Components sind eigene FRBR-Werke":*)
(* where eIds are unique, and components are works of their own, chunk_ids   *)
(* are, and a chunk leads back to its text: its eli to the document it was   *)
(* cut from, its eid, in the spelling of JOLux as well, to an element of it  *)
(* that holds the text: it has it itself, or a table or row in a note of it. *)
ChunksCite ==
    LET Chunks == ChunkDocument(doc).chunks
    IN  ChunkDocument(doc).ok /\ UniqueEids /\ UniqueWorks =>
        /\ Cardinality({ChunkId(c) : c \in Range(Chunks)}) = Len(Chunks)
        /\ \A c \in Range(Chunks) : \E r \in Range(Roots(doc)) :
              /\ EliWork(doc, r) # None /\ c.eli = WorkEliPath(EliWork(doc, r))
              /\ c.texts \subseteq Subtree(doc, r)
              /\ c.eid # None =>
                    \A e \in {c.eid, NormalizeEid(c.eid)} :
                       LET hit == ResolveEid(doc, r, e)
                       IN  /\ hit.node # NoNode /\ hit.duplicates = 0
                           /\ \A t \in c.texts : \E n \in Subtree(doc, hit.node) :
                                 (n = hit.node \/ doc[n].tag \in {"table", "tr"}) /\ t \in TextOf(doc, n)
=============================================================================
