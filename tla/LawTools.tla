------------------------------ MODULE LawTools ------------------------------
(***************************************************************************)
(* The discovery and metadata tools of mcp-reader (discovery.rs,           *)
(* metadata.rs) and the primitives of fedlex-jolux that library callers    *)
(* use directly.  A tool checks its arguments, asks one question of a      *)
(* graph Fedlex goes on publishing to, and wraps what comes back in a      *)
(* provenance: a norm for what is said of the act asked about, a hint for  *)
(* each act that was found.                                                *)
(***************************************************************************)
EXTENDS JoluxQueries

CONSTANTS
    Themes,     \* what a behaviour is about
    Known,      \* the facts known from the start, by theme
    Later,      \* those published later, by resource
    Requests,   \* the requests that are made
    Languages,  \* those `lang` may name
    InTitle,    \* <<word, title>>: the word is in the title
    Elis, Days, \* the acts and days the properties speak of
    DefaultLimit, LargestLimit

(* Dates are days; a resource is named by an absolute URI, which begins with *)
(* Base or another host and has nothing blank in it, and so is a file.       *)
DatePredicates ==
    {"dateApplicability", "dateEntryInForce", "dateNoLongerInForce", "dateEndApplicability"}

FactOk(f) ==
    /\ f[1] \in DatePredicates => f[3] \in Int
    /\ f[1] = "isExemplifiedBy" => f[3] \in Seq(STRING)
    /\ f[2] \in Seq(STRING) /\ f[2] # <<>>
    /\ f[2][1] \notin {"eli", Space}
    /\ f[2][1] = Base /\ Len(f[2]) > 1 => f[2][2] \notin {Base, Space}

ASSUME FactsAssumption ==
    \A t \in Themes : \A facts \in {Known[t]} \cup Later[t] :
        IsFiniteSet(facts) /\ \A f \in facts : FactOk(f)

\* none is told from dates, names and rows.
ASSUME UnboundAssumption ==
    /\ none \notin Int /\ none \notin Seq(STRING)
    /\ none \notin [cons : Seq(STRING), date : Int, url : Seq(STRING), lang : {"de"}]

ASSUME BoundsAssumption ==
    Days \subseteq Int /\ {MaxRows, MaxVersions, MaxDrafts} \subseteq Nat

VARIABLES
    theme,
    graph,      \* what Fedlex has published
    call,       \* the tool or function under way
    said        \* the last answer

vars == <<theme, graph, call, said>>

Idle == [pc |-> "idle"]
Error(what) == [kind |-> what]

-----------------------------------------------------------------------------
(* Arguments.                                                                *)

Blank == <<" ">>

\* arg_lang: missing is German.
LangOk(q) == q.lang \in Languages \cup {none}
LangOf(q) == IF q.lang = none THEN "de" ELSE q.lang

\* arg_limit: as_u64 of a negative number is None.
LimitOf(q) ==
    CASE q.limit = none \/ q.limit < 0 -> DefaultLimit
      [] q.limit = 0                   -> 1
      [] q.limit > LargestLimit        -> LargestLimit
      [] OTHER                         -> q.limit

DirectionOf(q) == IF q.direction = none THEN "both" ELSE q.direction

MetadataTools ==
    {"check_in_force", "list_versions", "resolve_consolidation_at", "get_impacts", "get_outgoing_impacts",
     "get_article_history", "get_citations", "get_taxonomy", "get_subdivisions", "list_annexes"}
DiscoveryTools == {"search_law", "resolve_sr_number", "find_related_topic"}

\* What each tool looks at before it asks.
ArgumentsOk(q) ==
    /\ q.tool \in MetadataTools \cup {"find_related_topic"} => EliNew(q.eli) # none
    /\ q.tool \in {"resolve_consolidation_at", "get_taxonomy", "search_law", "resolve_sr_number"} => LangOk(q)
    /\ q.tool = "get_article_history" => q.eid \notin {none, Blank}
    /\ q.tool = "get_citations" => DirectionOf(q) \in {"outgoing", "incoming", "both"}
    /\ q.tool = "get_subdivisions" => q.type # " "
    /\ q.tool \in {"search_law", "resolve_sr_number"} => q.word # none

Respond(r) == said' = r /\ call' = Idle

-----------------------------------------------------------------------------
\* A request arrives, and is refused or on its way to the endpoint.
Arrive(q) ==
    /\ call = Idle
    /\ \/ ~ArgumentsOk(q) /\ Respond(Error("invalid"))
       \/ ArgumentsOk(q) /\ call' = [pc |-> "query", req |-> q] /\ UNCHANGED said
    /\ UNCHANGED <<theme, graph>>

\* The endpoint fails: JoluxError becomes ToolError::Upstream.
Upstream ==
    /\ call.pc # "idle"
    /\ Respond(Error("upstream"))
    /\ UNCHANGED <<theme, graph>>

\* into_value_response keeps the provenance of the primitive.
NormOf(q, a) ==
    IF a = none THEN Error("not_found")
    ELSE [kind |-> "norm", tool |-> q.tool, eli |-> EliNew(q.eli), day |-> q.day, req |-> q, data |-> a]

\* The request under way.
req == call.req

Norm(tool, answers) ==
    /\ call.pc = "query" /\ req.tool = tool
    /\ \E a \in answers : Respond(NormOf(req, a))
    /\ UNCHANGED <<theme, graph>>

CheckInForce == Norm("check_in_force", check_in_force(graph, EliNew(req.eli), req.day))
ListVersions == Norm("list_versions", list_versions(graph, EliNew(req.eli)))
ResolveConsolidationAt ==
    Norm("resolve_consolidation_at",
         resolve_consolidation_at(graph, EliNew(req.eli), req.day, LangOf(req)))
GetImpacts == Norm("get_impacts", get_impacts(graph, EliNew(req.eli)))
GetOutgoingImpacts == Norm("get_outgoing_impacts", get_outgoing_impacts(graph, EliNew(req.eli)))
GetArticleHistory ==
    Norm("get_article_history", get_article_history(graph, EliNew(req.eli), req.eid))
GetCitations == Norm("get_citations", get_citations(graph, EliNew(req.eli), DirectionOf(req)))
GetTaxonomy == Norm("get_taxonomy", get_taxonomy(graph, EliNew(req.eli), LangOf(req)))
GetSubdivisions == Norm("get_subdivisions", get_subdivisions(graph, EliNew(req.eli), req.type))
ListAnnexes == Norm("list_annexes", list_annexes(graph, EliNew(req.eli)))

-----------------------------------------------------------------------------
\* Mutant of AnnotateHit: the hit is named by the act that was asked about.
AnnotateWithQuery(q, hit) == [hit |-> hit, about |-> EliNew(q.eli)]

\* A hit carries a hint of its own, unless its name is no ELI.
AnnotateHit(q, hit) == [hit |-> hit, about |-> EliNew(hit.eli)]

Hint(tool, about, answers) ==
    /\ call.pc = "query" /\ req.tool = tool
    /\ \E hits \in answers :
           Respond([kind |-> "hint", tool |-> tool, eli |-> about, day |-> req.day,
                    req |-> req, data |-> {AnnotateHit(req, h) : h \in hits}])
    /\ UNCHANGED <<theme, graph>>

\* query_hint: a name that is no act's.
Genus == <<"eli", "cc">>

SearchLaw ==
    Hint("search_law", Genus, search_law(graph, req.word, LangOf(req), LimitOf(req), InTitle))
ResolveSrNumber ==
    Hint("resolve_sr_number", Genus, resolve_sr_number(graph, req.word, LangOf(req)))
FindRelatedTopic ==
    Hint("find_related_topic", EliNew(req.eli),
         find_related_by_topic(graph, EliNew(req.eli), LimitOf(req)))

-----------------------------------------------------------------------------
(* The primitives no tool reaches: some speak of a norm, some are plain.     *)
NormPrimitives ==
    {"resolve_manifestation", "get_drafts", "get_oc_act", "get_fga_documents", "get_law_metadata"}
PlainPrimitives ==
    {"list_expressions", "get_consultations", "get_consultation_documents", "get_memorial",
     "resolve_vocabulary_label", "list_vocabulary", "get_treaty_info", "find_treaties"}

PrimitiveAnswers(g, q) ==
    CASE q.tool = "resolve_manifestation"      -> resolve_manifestation(g, q.eli, q.day, LangOf(q), q.type)
      [] q.tool = "get_drafts"                 -> get_drafts(g, q.eli)
      [] q.tool = "get_oc_act"                 -> get_oc_act(g, q.eli)
      [] q.tool = "get_fga_documents"          -> get_fga_documents(g, q.eli)
      [] q.tool = "get_law_metadata"           -> get_law_metadata(g, q.eli)
      [] q.tool = "list_expressions"           -> list_expressions(g, q.eli)
      [] q.tool = "get_consultations"          -> get_consultations(g, q.word)
      [] q.tool = "get_consultation_documents" -> get_consultation_documents(g, q.word)
      [] q.tool = "get_memorial"               -> get_memorial(g, q.eli, LimitOf(q))
      [] q.tool = "resolve_vocabulary_label"   -> resolve_vocabulary_label(g, q.word, LangOf(q))
      [] q.tool = "list_vocabulary"            -> list_vocabulary(g, q.word, LangOf(q), LimitOf(q))
      [] q.tool = "get_treaty_info"            -> get_treaty_info(g, q.word)
      [] q.tool = "find_treaties"              -> find_treaties(g, q.word, none, LimitOf(q))

Primitive ==
    /\ call.pc = "query" /\ req.tool \in NormPrimitives \cup PlainPrimitives
    /\ \E a \in PrimitiveAnswers(graph, req) :
           Respond(IF a = none \/ req.tool \in NormPrimitives THEN NormOf(req, a)
                   ELSE [kind |-> "plain", tool |-> req.tool, req |-> req, data |-> a])
    /\ UNCHANGED <<theme, graph>>

\* explore_node: the edges that leave a node, and then those that reach it.
ExploreNode ==
    /\ call.pc = "query" /\ req.tool = "explore_node"
    /\ \E half \in explore_out(graph, req.word, LimitOf(req)) :
           call' = [pc |-> "second", req |-> req, half |-> half]
    /\ UNCHANGED <<theme, graph, said>>

ExploreSecond ==
    /\ call.pc = "second"
    /\ \E half \in explore_in(graph, req.word, LimitOf(req)) :
           Respond([kind |-> "plain", tool |-> "explore_node", req |-> req,
                    data |-> [outgoing |-> call.half, incoming |-> half]])
    /\ UNCHANGED <<theme, graph>>

-----------------------------------------------------------------------------
\* Fedlex publishes: facts of one resource at a time.
Publish ==
    /\ \E facts \in Later[theme] : ~(facts \subseteq graph) /\ graph' = graph \cup facts
    /\ UNCHANGED <<theme, call, said>>

Init ==
    /\ theme \in Themes
    /\ graph = Known[theme]
    /\ call = Idle
    /\ said = Error("nothing")

Next ==
    \/ \E q \in Requests[theme] : Arrive(q)
    \/ CheckInForce \/ ListVersions \/ ResolveConsolidationAt
    \/ GetImpacts \/ GetOutgoingImpacts \/ GetArticleHistory \/ GetCitations
    \/ GetTaxonomy \/ GetSubdivisions \/ ListAnnexes
    \/ SearchLaw \/ ResolveSrNumber \/ FindRelatedTopic
    \/ Primitive \/ ExploreNode \/ ExploreSecond
    \/ Upstream \/ Publish

Spec == Init /\ [][Next]_vars
-----------------------------------------------------------------------------
(* Properties.                                                              *)

(* The version of a day is one of the versions listed, and no later one of   *)
(* the list that is readable comes before the day; from a list cut off at    *)
(* its limit only newer versions may be missing (VERSIONS_Q, CONS_Q).        *)
Readable(cons) == \E f \in FilesOf(graph, cons, "de") : f[2] = "xml"

VersionsAgree ==
    \A eli \in Elis, day \in Days :
        \A at \in resolve_consolidation_at(graph, eli, day, "de"), list \in list_versions(graph, eli) :
            /\ at # none =>
                   /\ at.date <= day
                   /\ \A v \in list : at.date < v.date /\ v.date <= day => ~Readable(v.cons)
                   /\ \/ \E v \in list : v.cons = at.cons /\ v.date = at.date
                      \/ Cardinality(list) = MaxVersions /\ \A v \in list : v.date <= at.date
            /\ at = none => \A v \in list : v.date <= day => ~Readable(v.cons)

(* A number is given again: of two acts with one SR number, the first ended  *)
(* before or when the second entered into force, no more than one is in      *)
(* force on any day, also the day of the change (resolve_sr_number sends     *)
(* its caller to check_in_force to tell them apart).                         *)
SrNumberDecided ==
    \A old, new \in Elis, day \in Days :
        LET entry(e) == Objects(graph, "dateEntryInForce", EliUri(e))
            end(e)   == Objects(graph, "dateNoLongerInForce", EliUri(e))
                            \cup Objects(graph, "dateEndApplicability", EliUri(e))
        IN  (/\ old # new /\ entry(old) # {} /\ end(old) # {} /\ entry(new) # {}
             /\ Objects(graph, "historicalLegalId", EliUri(old)) \cap
                    Objects(graph, "historicalLegalId", EliUri(new)) # {}
             /\ \A e \in end(old), b \in entry(new) : e <= b)
            => \A was \in check_in_force(graph, old, day), is \in check_in_force(graph, new, day) :
                   ~(was.inForce /\ is.inForce)

(* Who cites is cited: what one act reports as outgoing to another is what   *)
(* the other reports as incoming from it, and both directions together tell  *)
(* of every pair once (get_citations).                                       *)
PairsOf(citations) == {<<c.from, c.to>> : c \in citations}
CitationsMirror ==
    \A a, b \in Elis :
        \A out \in get_citations(graph, a, "outgoing"), in \in get_citations(graph, b, "incoming"),
           all \in get_citations(graph, a, "both"), into \in get_citations(graph, a, "incoming") :
            /\ {p \in PairsOf(out) : IsPrefix(EliUri(b), p[2])}
                   = {p \in PairsOf(in) : IsPrefix(EliUri(a), p[1])}
            /\ PairsOf(all) = PairsOf(out) \cup PairsOf(into)
            /\ \A c, d \in all : c.from = d.from /\ c.to = d.to => c = d

(* The papers of an act are the results of its drafts that are papers, and   *)
(* each draft results in the act; a list of drafts that was cut off has no   *)
(* more than that, and one of papers that may have been tells nothing        *)
(* (get_drafts, get_fga_documents, get_oc_act).                              *)
PapersOfDrafts ==
    \A eli \in Elis :
        \A drafts \in get_drafts(graph, eli), papers \in get_fga_documents(graph, eli) :
            LET results == UNION {d.results : d \in drafts}
                told    == {r \in results : Mentions(r, <<"eli", "fga">>)}
            IN  Cardinality(papers) < MaxRows =>
                /\ told \subseteq {p.fga : p \in papers}
                /\ Cardinality(DraftRows(graph, eli)) <= MaxDrafts =>
                       /\ told = {p.fga : p \in papers}
                       /\ \A d \in drafts : d.results \cap Objects(graph, "basicAct", EliUri(eli)) # {}

(* A hit leads back: what the tools of discovery name is in the graph under  *)
(* the name the metadata tools will look up, and each hit cites itself; one  *)
(* outside of Fedlex cites nothing (annotate_hit, FEDLEX_BASE).  What is     *)
(* related to an act names that act among what is related to it.             *)
HitsLeadBack ==
    said.kind = "hint" =>
        \A h \in said.data :
            /\ IF h.about = none THEN h.hit.eli = Relative(h.hit.eli) /\ EliNew(h.hit.eli) = none
               ELSE h.about = h.hit.eli /\ \E f \in graph : f[2] = EliUri(h.about)
            /\ said.tool = "find_related_topic" /\ h.about # none =>
                   EliUri(said.eli) \in RelatedActs(graph, h.about)
=============================================================================
