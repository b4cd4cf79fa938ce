------------------------------ MODULE XmlEngine ------------------------------
(***************************************************************************)
(* The engine for long documents (xml_engine.rs of mcp-reader): a cache of *)
(* parsed documents, pages of their articles, and what differs between two *)
(* of them.  The client modelled walks through an act page by page,        *)
(* following next_page; each page goes through the cache, with whatever    *)
(* text the act has by then.  Later it keeps its copy up to date by the    *)
(* differences it is told.                                                 *)
(***************************************************************************)
EXTENDS Integers, SequencesExt

CONSTANTS
    Raws,           \* the texts the act may have: sequences of lines
    PageSizes,
    none,
    MaxRemovals     \* bound of the model: invalidations

VARIABLES
    held,       \* what the cache holds of the act
    parse_count,
    removed,    \* history: invalidations and evictions
    walk,       \* the client's walk
    copy        \* what it has of the act in the end

vars == <<held, parse_count, removed, walk, copy>>

Idle == [pc |-> "idle"]

\* Document::parse: line by line; one without a bar is no article.
Parse(raw) ==
    LET articles[n \in 0..Len(raw)] ==
            IF n = 0 THEN <<>>
            ELSE IF raw[n].bar THEN Append(articles[n - 1], [id |-> raw[n].id, text |-> raw[n].text])
            ELSE articles[n - 1]
    IN  articles[Len(raw)]

\* Document::by_id: of two articles with one id the later one.
ById(doc) ==
    [id \in {doc[i].id : i \in DOMAIN doc} |->
        doc[CHOOSE i \in DOMAIN doc : doc[i].id = id /\ \A j \in DOMAIN doc : doc[j].id = id => j <= i].text]

\* diff_to_markdown: the three sections.
Diff(old, new) ==
    LET o == ById(old)
        n == ById(new)
    IN  [added   |-> DOMAIN n \ DOMAIN o,
         changed |-> {id \in DOMAIN n \cap DOMAIN o : o[id] # n[id]},
         removed |-> DOMAIN o \ DOMAIN n]

\* Mutant of Paginate: the last page is thought to be full.
PaginateFull(items, page, size) ==
    LET start == page * size
        end   == IF start + size < Len(items) THEN start + size ELSE Len(items)
    IN  [items |-> IF start < Len(items) THEN SubSeq(items, start + 1, end) ELSE <<>>,
         next  |-> IF start + size + 1 < Len(items) THEN page + 1 ELSE none]

Paginate(items, page, page_size) ==
    LET size  == IF page_size < 1 THEN 1 ELSE page_size
        start == page * size
        end   == IF start + size < Len(items) THEN start + size ELSE Len(items)
    IN  [items |-> IF start < Len(items) THEN SubSeq(items, start + 1, end) ELSE <<>>,
         next  |-> IF end < Len(items) THEN page + 1 ELSE none]

-----------------------------------------------------------------------------
Init ==
    /\ held = none /\ parse_count = 0 /\ removed = 0
    /\ walk = Idle
    /\ copy = none

\* get_or_parse: what is held wins over the text that came with the call.
GetOrParse(raw) ==
    IF held # none THEN held' = held /\ UNCHANGED parse_count
    ELSE held' = Parse(raw) /\ parse_count' = parse_count + 1

Begin(size) ==
    /\ walk = Idle
    /\ walk' = [pc |-> "ask", size |-> size, page |-> 0, got |-> <<>>, pages |-> 0, at |-> removed]
    /\ UNCHANGED <<held, parse_count, removed, copy>>

\* One page; the walk ends with the one that names no next.
Ask(raw) ==
    /\ walk.pc = "ask"
    /\ GetOrParse(raw)
    /\ LET p == Paginate(held', walk.page, walk.size)
       IN  walk' = [walk EXCEPT !.got = @ \o p.items, !.pages = @ + 1, !.page = p.next,
                                !.pc = IF p.next = none THEN "read" ELSE "ask"]
    /\ UNCHANGED <<removed, copy>>

\* The client keeps what it read.
Keep ==
    /\ walk.pc = "read"
    /\ copy' = [doc |-> walk.got, current |-> FALSE]
    /\ walk' = Idle
    /\ UNCHANGED <<held, parse_count, removed>>

\* It asks what changed since, and reads the articles named anew.
Update(raw) ==
    /\ walk = Idle /\ copy # none
    /\ GetOrParse(raw)
    /\ LET d   == Diff(copy.doc, held')
           new == ById(held')
           old == ById(copy.doc)
       IN  copy' = [current |-> TRUE, doc |-> SetToSeq(
               {[id |-> i, text |-> new[i]] : i \in d.added \cup d.changed}
               \cup {[id |-> i, text |-> old[i]] : i \in DOMAIN old \ (d.removed \cup d.changed)})]
    /\ UNCHANGED <<removed, walk>>

\* invalidate, or an entry moka makes room of.
Invalidate ==
    /\ removed < MaxRemovals
    /\ held' = none
    /\ removed' = removed + 1
    /\ copy' = IF copy = none THEN none ELSE [copy EXCEPT !.current = FALSE]
    /\ UNCHANGED <<parse_count, walk>>

Next ==
    \/ \E size \in PageSizes : Begin(size)
    \/ \E raw \in Raws : Ask(raw) \/ Update(raw)
    \/ Keep \/ Invalidate

Spec == Init /\ [][Next]_vars

-----------------------------------------------------------------------------
(* Who follows next_page to its end has every article once and in order, of  *)
(* one text of the act, if the cache was not made to forget it on the way;   *)
(* the walk is no longer than there are articles, also with pages of no      *)
(* size; the act is parsed no more often than it was forgotten; and a copy   *)
(* brought up to date by what differs reads as the act does, whatever walk   *)
(* it came from (paginate, get_or_parse, diff_to_markdown).                  *)
WalkIsWhole ==
    /\ walk.pc = "read" /\ walk.at = removed =>
           /\ walk.got = held
           /\ walk.pages <= Len(held) \/ (held = <<>> /\ walk.pages = 1)
    /\ parse_count <= removed + 1
    /\ copy # none => (copy.current => ById(copy.doc) = ById(held))
=============================================================================
