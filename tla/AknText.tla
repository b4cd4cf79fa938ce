------------------------------ MODULE AknText ------------------------------
(***************************************************************************)
(* What a reader of an AKN document gets to see of its text: the hollowed  *)
(* view and the search in it (chunking.rs, text.rs of fedlex-akn), and the *)
(* whole document as Markdown (markdown.rs).                               *)
(***************************************************************************)
EXTENDS AknDocument

-----------------------------------------------------------------------------
(* modifications.rs and special.rs: the notes and the foreign islands the    *)
(* text leaves out.  extract_change_notes takes the text of the last note    *)
(* collected in a note, which is another one if they are nested.             *)

CollectNotes(d, i) == FindAll(d, i, "authorialNote")

\* Mutant of ExtractChangeNotes: notes within notes and paragraphs are missed.
NotesOfChildren(d, scope) ==
    {[anchor |-> NearestEid(d, d[n].parent), texts |-> TextWithNotes(d, n)] :
        n \in {c \in Children(d, scope) : d[c].tag = "authorialNote"}}

ExtractChangeNotes(d, scope) ==
    {[anchor |-> NearestEid(d, d[n].parent), texts |-> TextWithNotes(d, Max(CollectNotes(d, n)))] :
        n \in FindAll(d, scope, "authorialNote")}

DetectForeignContent(d) ==
    {[context |-> NearestEid(d, f), elements |-> Subtree(d, f) \ {f}] : f \in FindAll(d, 1, "foreign")}

-----------------------------------------------------------------------------
(* The hollowed view and the search in it.                                  *)

HasEidDescendant(d, i) == \E c \in Subtree(d, i) \ {i} : d[c].eid # None

Named(d) == {i \in DOMAIN d : d[i].eid # None}

\* The elements of the hollowed view that keep their text.
Leaves(d) == {i \in Named(d) : ~HasEidDescendant(d, i)}

(* The placeholder of the others lists the next elements with an eId, found  *)
(* breadth first below elements without one.                                 *)
DirectEidChildren(d, i) ==
    {c \in Subtree(d, i) \ {i} :
        d[c].eid # None /\ \A a \in Ancestry(d, c) : i < a /\ a < c => d[a].eid = None}

(* search_text for words that only text t contains, with room for max_hits:  *)
(* the first leaves whose text has it.                                       *)
SearchText(d, t, max_hits) ==
    LET having == {l \in Leaves(d) : t \in TextOf(d, l)}
    IN  {l \in having : Cardinality({m \in having : m < l}) < max_hits}

-----------------------------------------------------------------------------
(* markdown.rs: render walks the body and passes by notes and foreign        *)
(* islands; a hierarchy element with others below it shows its number and    *)
(* heading, one without shows its text en bloc.                              *)

HasHierarchyChildren(d, i) == \E c \in Subtree(d, i) \ {i} : d[c].tag \in HierarchyTags

Rendered(d) ==
    {h \in Subtree(d, Body(d, 1)) \ {Body(d, 1)} :
        /\ d[h].tag \in HierarchyTags
        /\ \A a \in Ancestry(d, h) : a > Body(d, 1) => d[a].tag \notin {"authorialNote", "foreign"}}

Label(d, h) == UNION {TextOf(d, c) : c \in {FindChild(d, h, "num"), FindChild(d, h, "heading")} \ {NoNode}}

\* Mutant of Shown: every element is rendered en bloc.
EnBloc(d, h) == TextOf(d, h)

\* The texts a rendered element contributes.
Shown(d, h) == IF HasHierarchyChildren(d, h) THEN Label(d, h) ELSE TextOf(d, h)

ReadableDocument(d) ==
    LET preamble == FindChild(d, 1, "preamble")
    IN  (IF preamble = NoNode THEN {} ELSE TextOf(d, preamble))
        \cup (IF Body(d, 1) = NoNode THEN {} ELSE UNION {Shown(d, h) : h \in Rendered(d)})

-----------------------------------------------------------------------------
(* Properties of the views of every document.                               *)

(* "damit nichts stillschweigend fehlt": below an element with an eId each   *)
(* text is part of the norm, or of a change note anchored at the element     *)
(* or further down, or it lies in an island that is reported, and never is   *)
(* it of the norm and of a note, unless notes are nested or the element is a *)
(* note, nor of the norm and of an island, unless the element is in one.     *)
NothingUnaccounted ==
    \A i \in Named(doc) :
        LET notes  == ExtractChangeNotes(doc, i)
            noted  == UNION {n.texts : n \in notes}
            island == UNION {f.elements : f \in DetectForeignContent(doc)}
        IN  (\A n \in CollectNotes(doc, i) : CollectNotes(doc, n) = {n}) =>
                /\ FindAll(doc, i, "text") \subseteq TextOf(doc, i) \cup noted \cup island
                /\ doc[i].tag # "authorialNote" =>
                       /\ TextOf(doc, i) \cap noted = {}
                       /\ \A n \in notes : \E e \in Subtree(doc, i) : doc[e].eid = n.anchor
                /\ (\A f \in FindAll(doc, 1, "foreign") : i \notin Subtree(doc, f)) =>
                       TextOf(doc, i) \cap island = {}

(* "Eltern-Container wuerden jeden Treffer vervielfachen": a text of the     *)
(* document is found in one place, and that place is also found by its eId   *)
(* if no other element has it.                                               *)
FoundOnce ==
    \A t \in FindAll(doc, 1, "text") :
        LET hits == SearchText(doc, t, Len(doc))
        IN  /\ Cardinality(hits) <= 1
            /\ \A h \in hits : LookupEid(doc, 1, doc[h].eid) = {h} => ResolveEid(doc, 1, doc[h].eid).node = h

(* The placeholders are a way to every leaf: whoever follows the eIds they   *)
(* list, from any element that has one, meets all texts the hollowed view    *)
(* still has below it, provided no eId is given twice.                       *)
PlaceholdersLead ==
    LET Reached[i \in DOMAIN doc] ==
            {i} \cup UNION {Reached[ResolveEid(doc, 1, doc[c].eid).node] : c \in DirectEidChildren(doc, i)}
    IN  (\A i, j \in Named(doc) : i # j => doc[i].eid # doc[j].eid) =>
            \A i \in Named(doc) : Leaves(doc) \cap Subtree(doc, i) = Leaves(doc) \cap Reached[i]

(* The readable document shows no text twice, unless a number or a heading   *)
(* holds elements of the hierarchy, no note and no foreign island, and       *)
(* leaves none of the elements out that have no others below them.           *)
ShownOnce ==
    LET plain    == \A c \in DOMAIN doc : doc[c].tag \in {"num", "heading"} => ~HasHierarchyChildren(doc, c)
        readable == ReadableDocument(doc)
        rendered == Rendered(doc)
        shown    == [h \in rendered |-> Shown(doc, h)]
        all      == TextOf(doc, 1)
    IN  Body(doc, 1) # NoNode =>
            /\ plain => \A g, h \in rendered : g < h => shown[g] \cap shown[h] = {}
            /\ readable \subseteq all
            /\ \A h \in Subtree(doc, Body(doc, 1)) :
                  /\ doc[h].tag \in HierarchyTags
                  /\ ~HasHierarchyChildren(doc, h)
                  => TextOf(doc, h) \cap all \subseteq readable
=============================================================================
