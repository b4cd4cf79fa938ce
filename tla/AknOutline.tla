----------------------------- MODULE AknOutline -----------------------------
(***************************************************************************)
(* The tools that read an act in parts: its outline, elements by eId,      *)
(* references, modifications and tables (structure.rs, text.rs,            *)
(* references.rs, modifications.rs, special.rs of fedlex-akn), and the     *)
(* comparison of two versions (tools.rs of mcp-reader).  A list is the set *)
(* of its entries, each with the node it was made from.                    *)
(***************************************************************************)
EXTENDS AknText, Chunking

-----------------------------------------------------------------------------
(* structure.rs: elements that are not of the hierarchy are passed through,  *)
(* so that the parent of an entry is the next element of the hierarchy.      *)

\* Mutant of OutlineNodes: the walk ends at elements outside of the hierarchy.
OutlineOfChildren(d) ==
    {n \in Subtree(d, Body(d, 1)) \ {Body(d, 1)} :
        \A a \in Ancestry(d, n) : a > Body(d, 1) => d[a].tag \in HierarchyTags}

OutlineNodes(d) ==
    IF Body(d, 1) = NoNode THEN {}
    ELSE {n \in Subtree(d, Body(d, 1)) \ {Body(d, 1)} : d[n].tag \in HierarchyTags}

OutlineParent(d, n) ==
    LET above == OutlineNodes(d) \cap (Ancestry(d, n) \ {n})
    IN  IF above = {} THEN NoNode ELSE Max(above)

\* get_document_structure with a type_filter.
Flattened(d, kind) == {n \in OutlineNodes(d) : d[n].tag = kind}

-----------------------------------------------------------------------------
(* text.rs: an element by its eId; an act that does not name its work        *)
(* cannot be cited.                                                          *)

Unreadable == [node |-> NoNode, texts |-> {}, notes |-> {}, path |-> {}]

GetElementText(d, e) ==
    LET n == ResolveEid(d, 1, e).node
    IN  IF EliWork(d, 1) = None \/ n = NoNode THEN Unreadable
        ELSE [node |-> n, texts |-> TextOf(d, n), notes |-> CollectNotes(d, n), path |-> SectionPath(d, 1, n)]

GetArticleText(d, e) ==
    LET n == ResolveEid(d, 1, e).node
    IN  IF n = NoNode \/ d[n].tag # "article" THEN Unreadable ELSE GetElementText(d, e)

-----------------------------------------------------------------------------
GetAllReferences(d) ==
    {[node |-> r, source |-> NearestEid(d, d[r].parent), label |-> TextWithNotes(d, r)] :
        r \in FindAll(d, 1, "ref")}

\* Of a mod the first quoted structure counts, and of that its first child.
GetModifications(d) ==
    LET Quoted(m) == LET qs == FindAll(d, m, "quotedStructure") IN IF qs = {} THEN NoNode ELSE Min(qs)
        Root(q)   == IF q = NoNode \/ Children(d, q) = {} THEN NoNode ELSE Min(Children(d, q))
    IN  {[mod |-> m, root |-> Root(Quoted(m)), texts |-> IF Quoted(m) = NoNode THEN {} ELSE TextOf(d, Quoted(m))] :
            m \in FindAll(d, 1, "mod")}

(* A table: the head cells of its first row, and the data cells of the       *)
(* others, or of all of them if the first has no head cell.  The rows of a   *)
(* table in a cell are rows of both tables.                                  *)
Cells(d, row, tag) == {c \in Children(d, row) : d[c].tag = tag}

DataCells(d, rows) ==
    UNION {Cells(d, rows[i], "td") : i \in {k \in DOMAIN rows : k > 1 \/ ~HasHeader(d, rows)}}

ExtractTables(d, scope) ==
    LET Rows(t) == InOrder(FindAll(d, t, "tr"))
    IN  {[node    |-> t,
          context |-> NearestEid(d, t),
          header  |-> IF HasHeader(d, Rows(t)) THEN Cells(d, Rows(t)[1], "th") ELSE {},
          data    |-> DataCells(d, Rows(t))] : t \in FindAll(d, scope, "table")}

-----------------------------------------------------------------------------
(* tools.rs: compare_versions knows the articles of a version by their eIds  *)
(* and the text the first element with that eId has.  Texts are the same     *)
(* when node and length are.                                                 *)

Wording(d, n) == {<<t, d[t].len>> : t \in TextOf(d, n)}

\* Mutant of ArticleTexts: the articles of the first level of the outline.
TopArticles(d) ==
    LET eids == {d[n].eid : n \in {a \in Flattened(d, "article") : OutlineParent(d, a) = NoNode}} \ {None}
    IN  [e \in eids |-> Wording(d, GetElementText(d, e).node)]

ArticleTexts(d) ==
    LET eids == IF EliWork(d, 1) = None THEN {} ELSE {d[n].eid : n \in Flattened(d, "article")} \ {None}
    IN  [e \in eids |-> Wording(d, GetElementText(d, e).node)]

\* What compare_versions makes of the texts of the two versions.
Compared(base, other) ==
    [added   |-> DOMAIN base \ DOMAIN other,
     changed |-> {e \in DOMAIN base \cap DOMAIN other : base[e] # other[e]},
     removed |-> DOMAIN other \ DOMAIN base]

-----------------------------------------------------------------------------
(* Properties of every document.                                            *)

EidsUnique(d) == \A i, j \in Named(d) : i # j => d[i].eid # d[j].eid

(* Every eId a tool hands out is a way to what it stands for, provided none  *)
(* is given twice (AKN-STR-02): those of the outline, of references, tables  *)
(* and modifications, of the placeholders and of the hits of a search.  The  *)
(* path cited with an element or a chunk is its way through the outline.     *)
(* Elements are read of acts that name their work, and a quotation is part   *)
(* of its modification unless it stands in a note or an island of it.        *)
SignpostsLead ==
    LET Way[n \in {NoNode} \cup OutlineNodes(doc)] ==
            IF n = NoNode THEN {} ELSE {n} \cup Way[OutlineParent(doc, n)]
        Read(e) == GetElementText(doc, e)
        Spoken(m) == \A n \in Subtree(doc, m) \ {m} : doc[n].tag \in {"authorialNote", "foreign"} =>
                        FindAll(doc, n, "quotedStructure") = {}
    IN  FoundOnce /\ (EidsUnique(doc) =>
          /\ PlaceholdersLead
          /\ \A c \in Range(IF Body(doc, 1) # NoNode THEN ChunkDocument(doc).chunks ELSE <<>>) :
                c.path \subseteq OutlineNodes(doc)
          /\ EliWork(doc, 1) # None =>
                /\ \A n \in OutlineNodes(doc) \cap Named(doc) :
                      Read(doc[n].eid).node = n /\ Read(doc[n].eid).path = Way[n]
                /\ \A r \in GetAllReferences(doc) :
                      r.source # None => r.node \in Subtree(doc, Read(r.source).node)
                /\ \A m \in GetModifications(doc) :
                      doc[m.mod].eid # None /\ Spoken(m.mod) => m.texts \subseteq Read(doc[m.mod].eid).texts
                /\ \A t \in ExtractTables(doc, 1) :
                      t.context # None => t \in ExtractTables(doc, Read(t.context).node))

\* Nothing in the element is made a chunk or a part of one by itself.
InOnePiece(n, tags) ==
    \A m \in Subtree(doc, n) \ {n} : doc[m].tag \notin {"article", "paragraph", "level", "mod"} \cup tags

\* A table that stands in none and has none, its rows in no note of it.
Plain(table) ==
    /\ InOnePiece(table, {"table"}) /\ \A a \in Ancestry(doc, table) \ {table} : doc[a].tag # "table"
    /\ \A row \in FindAll(doc, table, "tr") : TextOf(doc, row) \subseteq TextOf(doc, table)

(* "Tabellen nie mitten in der Zeile splitten": a row is whole in each chunk *)
(* that has some of it, and a chunk with data cells of a table also has the  *)
(* head that extract_tables reports for it, unless tables stand in tables,   *)
(* what is a chunk by itself stands in the row or the table, or the          *)
(* paragraphs of a document without articles are packed.                     *)
RowsWhole ==
    \A c \in Range(ChunkDocument(doc).chunks) :
        LET Has(n)  == TextOf(doc, n) \cap c.texts # {}
            Whole(n) == TextOf(doc, n) \subseteq c.texts
        IN  c.eid # None =>
              /\ \A row \in FindAll(doc, 1, "tr") : InOnePiece(row, {"table", "tr"}) /\ Has(row) => Whole(row)
              /\ \A t \in ExtractTables(doc, 1) : Plain(t.node) /\ (\E n \in t.data : Has(n)) =>
                    \A n \in t.header : Whole(n)

(* compare_versions tells of every article what became of it since an older  *)
(* version, of which articles or texts were missing or a text was different, *)
(* and the same the other way round, provided no eId is given twice, the act *)
(* names its work and has one body, whose articles are told of; what is told *)
(* of can be read.  Otherwise it tells of no change that is not one.         *)
Older == {SubSeq(doc, 1, n) : n \in 2..Len(doc)} \cup {[doc EXCEPT ![t].len = @ + 1] : t \in FindAll(doc, 1, "text")}

ChangesTold ==
    LET now      == ArticleTexts(doc)
        articles == {a \in FindAll(doc, Body(doc, 1), "article") : doc[a].eid # None}
        telling  == /\ EidsUnique(doc) /\ EliWork(doc, 1) # None /\ Body(doc, 1) # NoNode
                    /\ NoNode \in {FindChild(doc, 1, "body"), FindChild(doc, 1, "mainBody")}
    IN  \A old \in Older :
        LET was     == ArticleTexts(old)
            told    == Compared(now, was)
            back    == Compared(was, now)
            Same(n) == n \in DOMAIN old /\ Wording(old, n) = Wording(doc, n)
        IN  /\ told.added = back.removed /\ told.removed = back.added /\ told.changed = back.changed
            /\ \A e \in told.changed : \E n \in LookupEid(doc, 1, e) : ~Same(n)
            /\ telling =>
                  /\ told.removed = {}
                  /\ \A a \in articles :
                        LET e == doc[a].eid
                        IN  /\ GetArticleText(doc, e).node = a
                            /\ a \notin DOMAIN old <=> e \in told.added
                            /\ a \in DOMAIN old /\ ~Same(a) <=> e \in told.changed
=============================================================================
