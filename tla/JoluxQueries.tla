---------------------------- MODULE JoluxQueries ----------------------------
(***************************************************************************)
(* The primitives of fedlex-jolux: for each, the rows its query selects of *)
(* the graph g and what it makes of them.  A query without an order and    *)
(* with a limit leaves the choice to the endpoint, so each operator is the *)
(* SET of the answers that may come; `none` as an answer is NotFound.      *)
(* Acts are given by their ELI.  Answers that the code orders by date only *)
(* to be read are sets.                                                    *)
(***************************************************************************)
EXTENDS LegalGraph

CONSTANTS
    MaxVersions,    \* the limit of VERSIONS_Q
    MaxDrafts       \* that of DRAFTS_Q, which counts rows

-----------------------------------------------------------------------------
(* temporal.rs, resolve.rs: versions of acts.                                *)

\* The files of a consolidation in a language, down FRBR's levels.
FilesOf(g, cons, lang) ==
    LET texts  == {e \in Objects(g, "isRealizedBy", cons) : lang \in Objects(g, "language", e)}
        copies == UNION {Objects(g, "isEmbodiedBy", e) : e \in texts}
    IN  UNION {Objects(g, "isExemplifiedBy", m) : m \in copies}

VersionsOf(g, eli) ==
    UNION { {[cons |-> c, date |-> d] : d \in Objects(g, "dateApplicability", c)}
            : c \in Subjects(g, "isMemberOf", EliUri(eli)) }

FileRows(g, eli, day, lang, format) ==
    UNION { {[cons |-> v.cons, date |-> v.date, url |-> u, lang |-> lang]
             : u \in {u \in FilesOf(g, v.cons, lang) : u[2] = format}}
            : v \in {v \in VersionsOf(g, eli) : v.date <= day} }

\* The latest of the rows, ORDER BY DESC(?date) LIMIT 1.
LatestRow(rows) == FirstOf({r \in rows : \A o \in rows : o.date <= r.date})

resolve_manifestation(g, eli, day, lang, format) ==
    LatestRow(FileRows(g, eli, day, lang, format))

\* Mutant of resolve_consolidation_at: the day is not in the filter.
AlwaysNewest(g, eli, day, lang) ==
    LatestRow(UNION {FileRows(g, eli, v.date, lang, "xml") : v \in VersionsOf(g, eli)})

resolve_consolidation_at(g, eli, day, lang) == LatestRow(FileRows(g, eli, day, lang, "xml"))

list_versions(g, eli) ==
    LET rows == VersionsOf(g, eli)
    IN  Foremost(rows, MaxVersions, {r \in rows \X rows : r[1].date < r[2].date})

list_expressions(g, eli) ==
    Cut(UNION { UNION {Objects(g, "language", e) : e \in Objects(g, "isRealizedBy", c)}
                : c \in Subjects(g, "isMemberOf", EliUri(eli)) }, MaxRows)

StatusInForce == "enforcement-status/0"

\* Mutant of InForceOn: the last day counts as one in force.
EndsAfterDay(row, day) ==
    IF row.entry = none THEN row.status = StatusInForce
    ELSE row.entry <= day /\ \A d \in {row.noLonger, row.endApp} \ {none} : day <= d

\* The dates decide, the status only for an act without a date of entry.
InForceOn(row, day) ==
    IF row.entry = none THEN row.status = StatusInForce
    ELSE row.entry <= day /\ \A d \in {row.noLonger, row.endApp} \ {none} : day < d

\* All its clauses are OPTIONAL: there is a row for every act, known or not.
check_in_force(g, eli, day) ==
    LET o(p) == Optional(g, p, EliUri(eli))
        rows == {[status |-> s, entry |-> e, noLonger |-> n, endApp |-> x]
                 : s \in o("inForceStatus"), e \in o("dateEntryInForce"),
                   n \in o("dateNoLongerInForce"), x \in o("dateEndApplicability")}
    IN  {[inForce |-> InForceOn(r, day), row |-> r] : r \in rows}

-----------------------------------------------------------------------------
(* impacts.rs, citations.rs: acts and the acts they change or cite.          *)

ImpactRows(g, impacts) ==
    UNION { {[impact |-> p[1], target |-> p[2], type |-> t, date |-> d, comment |-> c, from |-> f]
             : t \in Optional(g, "legalResourceImpactHasType", p[1]),
               d \in Optional(g, "legalResourceImpactHasDateEntryInForce", p[1]),
               c \in Optional(g, "impactToLegalResourceComment", p[1]),
               f \in Optional(g, "impactFromLegalResource", p[1])}
            : p \in impacts }

get_impacts(g, eli) ==
    {ImpactRows(g, {p \in Pairs(g, "impactToLegalResource") : IsPrefix(EliUri(eli), p[2])})}

get_article_history(g, eli, eid) ==
    {ImpactRows(g, {p \in Pairs(g, "impactToLegalResource") :
                       /\ IsPrefix(EliUri(eli) \o <<"/">>, p[2])
                       /\ Mentions(p[2], NormalizeEid(eid))})}

get_outgoing_impacts(g, eli) ==
    {{r \in ImpactRows(g, Pairs(g, "impactToLegalResource")) :
         r.from # none /\ IsPrefix(EliUri(eli), r.from)}}

CitationRows(g) ==
    UNION { {[from |-> f, to |-> t, desc |-> d]
             : f \in Objects(g, "citationFromLegalResource", c),
               t \in Objects(g, "citationToLegalResource", c),
               d \in Optional(g, "descriptionFrom", c)}
            : c \in {p[1] : p \in Pairs(g, "citationFromLegalResource")} }

\* Rows come in any order, and the first of each pair is kept.
OncePerPair(rows) ==
    LET described(r) == {o \in rows : o.from = r.from /\ o.to = r.to}
        pairs        == {described(r) : r \in rows}
    IN  {{choice[c] : c \in pairs} : choice \in {f \in [pairs -> rows] : \A c \in pairs : f[c] \in c}}

\* Mutant of CitationsOf: incoming citations are looked for at their source.
IncomingAtSource(g, eli, direction) ==
    {r \in CitationRows(g) : direction # "none" /\ IsPrefix(EliUri(eli), r.from)}

CitationsOf(g, eli, direction) ==
    {r \in CitationRows(g) :
        \/ direction \in {"outgoing", "both"} /\ IsPrefix(EliUri(eli), r.from)
        \/ direction \in {"incoming", "both"} /\ IsPrefix(EliUri(eli), r.to)}

get_citations(g, eli, direction) == OncePerPair(CitationsOf(g, eli, direction))

-----------------------------------------------------------------------------
(* genesis.rs, publication.rs: where an act comes from.                      *)

\* Mutant of DraftRows: the result that is reported is the one looked up.
ResultOnly(g, eli) ==
    UNION { {[draft |-> d, via |-> oc, draftId |-> i, parlId |-> n, result |-> oc]
             : i \in Optional(g, "draftId", d), n \in Optional(g, "parliamentDraftId", d), oc \in
               Objects(g, "hasResultingLegalResource", d) \cap Objects(g, "basicAct", EliUri(eli))}
            : d \in UNION {Subjects(g, "hasResultingLegalResource", oc)
                           : oc \in Objects(g, "basicAct", EliUri(eli))} }

DraftRows(g, eli) ==
    LET acts   == Objects(g, "basicAct", EliUri(eli))
        drafts == UNION {Subjects(g, "hasResultingLegalResource", oc) : oc \in acts}
    IN  UNION { {[draft |-> d, via |-> oc, draftId |-> i, parlId |-> n, result |-> r]
                 : oc \in Objects(g, "hasResultingLegalResource", d) \cap acts,
                   i \in Optional(g, "draftId", d), n \in Optional(g, "parliamentDraftId", d),
                   r \in Optional(g, "hasResultingLegalResource", d)}
                : d \in drafts }

\* The limit counts rows, and the rows of a draft are as many as its results;
\* `ids` are those its first row may carry.
get_drafts(g, eli) ==
    { {[draft   |-> d, ids |-> {<<r.draftId, r.parlId>> : r \in {r \in kept : r.draft = d}},
        results |-> {r.result : r \in {r \in kept : r.draft = d}}] : d \in {r.draft : r \in kept}}
      : kept \in Cut(DraftRows(g, eli), MaxDrafts) }

ConsultationRows(g, draft) ==
    LET taskRows(t) == {[start |-> s, end |-> e, inst |-> i]
                        : s \in Optional(g, "eventStartDate", t), e \in Optional(g, "eventEndDate", t),
                          i \in Optional(g, "institutionInChargeOfTheEvent", t)}
        blank       == {[start |-> none, end |-> none, inst |-> none]}
        subTasks(c) == Objects(g, "hasSubTask", c)
    IN  UNION { {[cons |-> c, status |-> s, task |-> t]
                 : s \in Optional(g, "consultationStatus", c),
                   t \in IF subTasks(c) = {} THEN blank
                         ELSE UNION {taskRows(t) : t \in subTasks(c)}}
                : c \in Objects(g, "draftHasTask", draft) \cap Subjects(g, "a", "Consultation") }

\* The first value of a field in the rows, each field for itself.
FirstBound(rows, field) ==
    LET bound == SelectSeq(rows, LAMBDA r : r.task[field] # none)
    IN  IF bound = <<>> THEN none ELSE bound[1].task[field]

get_consultations(g, draft) ==
    { {LET own == SelectSeq(rows, LAMBDA r : r.cons = c)
       IN  [cons |-> c, status |-> own[1].status, start |-> FirstBound(own, "start"),
            end |-> FirstBound(own, "end"), inst |-> FirstBound(own, "inst")]
       : c \in {rows[i].cons : i \in DOMAIN rows}}
      : rows \in UNION {Orders(kept) : kept \in Cut(ConsultationRows(g, draft), MaxRows)} }

get_consultation_documents(g, cons) ==
    Cut(UNION { {[doc |-> p[1], kind |-> k] : k \in {k \in Objects(g, "a", p[1]) :
                     k \in {"PositionStatementPublication", "ResultOfAConsultationPublication"}}}
                : p \in {p \in Pairs(g, "isOpinionOf") : IsPrefix(cons, p[2])} }, MaxRows)

get_oc_act(g, eli) ==
    FirstOf(UNION { {[oc |-> oc, pub |-> d, genre |-> k, office |-> r, memorial |-> m]
                     : d \in Optional(g, "publicationDate", oc), k \in Optional(g, "legalResourceGenre", oc),
                       r \in Optional(g, "responsibilityOf", oc), m \in Optional(g, "isPartOf", oc)}
                    : oc \in Objects(g, "basicAct", EliUri(eli)) })

\* The bulletin is that of the first row, the acts are those of every row.
get_memorial(g, eli, limit) ==
    LET rows == {p \in Pairs(g, "isPartOf") : p[2] \in Objects(g, "isPartOf", EliUri(eli))}
    IN  IF rows = {} THEN {none}
        ELSE UNION { {[uri |-> first[2], acts |-> {p[1] : p \in kept}] : first \in kept}
                     : kept \in Cut(rows, limit) }

get_fga_documents(g, eli) ==
    LET drafts == UNION {Subjects(g, "hasResultingLegalResource", oc)
                         : oc \in Objects(g, "basicAct", EliUri(eli))}
        rows(f) == {[fga |-> f, genre |-> k, pub |-> d]
                    : k \in Optional(g, "legalResourceGenre", f), d \in Optional(g, "publicationDate", f)}
        fgas == {f \in UNION {Objects(g, "hasResultingLegalResource", d) : d \in drafts} :
                    Mentions(f, <<"eli", "fga">>)}
    IN  Cut(UNION {rows(f) : f \in fgas}, MaxRows)

-----------------------------------------------------------------------------
(* subdivisions.rs                                                           *)

Annex == "subdivision-type/annex"

SubdivisionRows(g, eli, type) ==
    UNION { {[sub |-> s, type |-> t] : t \in Optional(g, "legalResourceSubdivisionType", s)}
            : s \in {s \in Below(g, "legalResourceSubdivisionIsPartOf", EliUri(eli)) :
                        type = none \/ type \in Objects(g, "legalResourceSubdivisionType", s)} }

get_subdivisions(g, eli, type) == Cut(SubdivisionRows(g, eli, type), MaxRows)
list_annexes(g, eli) == get_subdivisions(g, eli, Annex)

-----------------------------------------------------------------------------
(* vocabulary.rs; a label is a pair of its language and its text.            *)

Labels(g, concept, lang) == {l[2] : l \in {l \in Objects(g, "prefLabel", concept) : l[1] = lang}}
LabelOrNone(g, concept, lang) ==
    LET found == Labels(g, concept, lang) IN IF found = {} THEN {none} ELSE found

resolve_vocabulary_label(g, concept, lang) == FirstOf(Labels(g, concept, lang))

\* A concept is listed once, with the first label its rows bring.
list_vocabulary(g, scheme, lang, limit) ==
    LET concepts == {p[1] : p \in {p \in Pairs(g, "prefLabel") : IsPrefix(scheme, p[1])}}
        rows     == UNION {{[uri |-> c, label |-> l] : l \in LabelOrNone(g, c, lang)} : c \in concepts}
        once(kept, pick) == {pick[c] : c \in {r.uri : r \in kept}}
    IN  UNION { { once(kept, pick)
                  : pick \in {f \in [{r.uri : r \in kept} -> kept] : \A c \in DOMAIN f : f[c].uri = c} }
                : kept \in Cut(rows, limit) }

\* explore_node asks twice; each half is answered when its turn comes.
explore_out(g, uri, limit) == Cut({<<f[1], f[3]>> : f \in {f \in g : f[2] = uri}}, limit)
explore_in(g, uri, limit) == Cut({<<f[1], f[2]>> : f \in {f \in g : f[1] \in Links /\ f[3] = uri}}, limit)

-----------------------------------------------------------------------------
(* taxonomy.rs                                                               *)

get_taxonomy(g, eli, lang) ==
    Cut(UNION { {[tax |-> t, label |-> l, broader |-> b]
                 : l \in LabelOrNone(g, t, lang), b \in Optional(g, "broader", t)}
                : t \in Objects(g, "classifiedByTaxonomyEntry", EliUri(eli)) }, MaxRows)

\* Acts below the same parent, those of the same entry among them.
RelatedActs(g, eli) ==
    LET mine == Objects(g, "classifiedByTaxonomyEntry", EliUri(eli))
        near == UNION { Subjects(g, "broader", p) : p \in UNION {Objects(g, "broader", t) : t \in mine} }
    IN  (UNION {Subjects(g, "classifiedByTaxonomyEntry", s) : s \in near}) \ {EliUri(eli)}

find_related_by_topic(g, eli, limit) ==
    Cut(UNION { {[eli |-> Relative(o), sr |-> n] : n \in Optional(g, "historicalLegalId", o)}
                : o \in RelatedActs(g, eli) }, limit)

-----------------------------------------------------------------------------
(* treaties.rs                                                               *)

\* All clauses are OPTIONAL: a process that is not known has one empty row,
\* and the answer is never NotFound.
TreatyRows(g, uri) ==
    LET o(p) == Optional(g, p, uri)
    IN  {[title |-> t, date |-> d, place |-> l, bilateral |-> b, country |-> c, act |-> a]
         : t \in o("titleTreaty"), d \in o("treatySignatureDate"), l \in o("treatySignaturePlace"),
           b \in o("bilateral"), c \in o("treatyPartyCountry"), a \in o("approbationAct")}

\* The limit counts rows; what is there once is of the first of them.
get_treaty_info(g, uri) ==
    UNION {{[process |-> uri, title |-> first.title, date |-> first.date, place |-> first.place,
             bilateral |-> IF first.bilateral = none THEN none ELSE first.bilateral \in {"true", "1"},
             act |-> first.act,
             parties |-> {r.country : r \in kept} \ {none}]
            : first \in kept} : kept \in Cut(TreatyRows(g, uri), MaxRows)}

\* ORDER BY DESC(?sigDate): a process without a date comes last.
find_treaties(g, country, bilateral, limit) ==
    LET fits == {t \in Subjects(g, "a", "TreatyProcess") :
                    /\ country = none \/ country \in Objects(g, "treatyPartyCountry", t)
                    /\ bilateral = none \/ bilateral \in Objects(g, "bilateral", t)}
        rows == UNION {{[process |-> t, date |-> d] : d \in Optional(g, "treatySignatureDate", t)} : t \in fits}
        later(a, b) == a.date # none /\ (b.date = none \/ a.date > b.date)
    IN  Foremost(rows, limit, {r \in rows \X rows : later(r[1], r[2])})

-----------------------------------------------------------------------------
(* metadata.rs, search.rs, resolve.rs                                        *)

\* Titles hang on the expressions of the act itself.
Titles(g, uri, lang) ==
    UNION { Objects(g, "title", e)
            : e \in {e \in Objects(g, "isRealizedBy", uri) : lang \in Objects(g, "language", e)} }
TitleOrNone(g, uri, lang) ==
    LET found == Titles(g, uri, lang) IN IF found = {} THEN {none} ELSE found

\* Also an act that is not known has metadata, all of them missing.
get_law_metadata(g, eli) ==
    LET o(p) == Optional(g, p, EliUri(eli))
    IN  {[eli |-> eli, sr |-> n, title |-> t, document |-> d, entry |-> e, type |-> k]
         : n \in o("historicalLegalId"), t \in TitleOrNone(g, EliUri(eli), "de"), d \in o("dateDocument"),
           e \in o("dateEntryInForce"), k \in o("typeDocument")}

Acts(g) == Subjects(g, "a", "ConsolidationAbstract")

\* Whether the word is in the title, both in lower case: `Matches` is a set of pairs.
search_law(g, word, lang, limit, Matches) ==
    Cut(UNION { {[eli |-> Relative(a), sr |-> n, title |-> t]
                 : n \in Objects(g, "historicalLegalId", a),
                   t \in {t \in Titles(g, a, lang) : <<word, t>> \in Matches}}
                : a \in Acts(g) }, limit)

resolve_sr_number(g, sr, lang) ==
    Cut(UNION { {[eli |-> Relative(a), title |-> t, status |-> s]
                 : t \in TitleOrNone(g, a, lang), s \in Optional(g, "inForceStatus", a)}
                : a \in Acts(g) \cap Subjects(g, "historicalLegalId", sr) }, MaxRows)
=============================================================================
