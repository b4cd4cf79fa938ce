------------------------------- MODULE MCTools -------------------------------
(* Small graphs, environments and messages for TLC.                          *)
EXTENDS Tools

-----------------------------------------------------------------------------
(* LawTools: small graphs, one per theme, each published bit by bit.         *)

Cc(n) == <<"eli", "cc">> \o n
A1 == Cc(<<"7", "6">>)            \* an act,
A2 == Cc(<<"7", "6", "2">>)       \* and one whose number begins with its number
A3 == Cc(<<"1">>)
Oc1 == <<"eli", "oc", "7">>
Node(name) == EliUri(<<name>>)
Art(n) == EliUri(A1) \o <<"/", "art">> \o n

Fact(p, s, o) == <<p, s, o>>
Of(s, facts) == {<<f[1], s, f[2]>> : f \in facts}

\* A consolidation with a text in German, and its files.
Version(cons, eli, date, formats) ==
    LET c == Node(cons)  e == c \o <<"de">>
    IN  Of(c, {<<"isMemberOf", EliUri(eli)>>}) \cup Of(c, {<<"dateApplicability", date>>})
        \cup Of(c, {<<"isRealizedBy", e>>}) \cup Of(e, {<<"language", "de">>})
        \cup UNION {Of(e, {<<"isEmbodiedBy", c \o <<f>>>>}) \cup Of(c \o <<f>>, {<<"isExemplifiedBy", <<cons, f>>>>})
                    : f \in formats}

Act(eli, sr, title) ==
    LET u == EliUri(eli)
    IN  {Fact("a", u, "ConsolidationAbstract"), Fact("historicalLegalId", u, sr),
         Fact("isRealizedBy", u, u \o <<"de">>), Fact("language", u \o <<"de">>, "de"),
         Fact("title", u \o <<"de">>, title)}

Impact(name, target, from) ==
    {Fact("impactToLegalResource", Node(name), target), Fact("impactFromLegalResource", Node(name), from)}
Citation(name, from, to, desc) ==
    {Fact("citationFromLegalResource", Node(name), from), Fact("citationToLegalResource", Node(name), to)}
    \cup {Fact("descriptionFrom", Node(name), d) : d \in desc}

AllThemes == {"versions", "force", "changes", "genesis", "topics", "lists"}

KnownFacts == [t \in AllThemes |->
    CASE t = "force"  -> Act(A1, "730.0", "Energy Act") \cup Act(A3, "730.0", "Energy Act")
      [] t = "topics" -> Act(A1, "730.0", "Energy Act")
      [] OTHER        -> {}]

Foreign == <<"elsewhere", "act">>

LaterFacts == [t \in AllThemes |->
    CASE t = "versions" ->
            { Version("v1", A1, 1, {"xml", "pdf"}), Version("v2", A1, 2, {"pdf"}),
              Version("v3", A1, 2, {"xml"}), Version("v4", A1, 3, {"xml"}),
              {Fact("isEmbodiedBy", Node("v2") \o <<"de">>, Node("v2x")),
               Fact("isExemplifiedBy", Node("v2x"), <<"v2", "xml">>)} }
      [] t = "force" ->
            { {Fact("dateEntryInForce", EliUri(A3), 1)}, {Fact("dateNoLongerInForce", EliUri(A3), 2)},
              {Fact("dateEndApplicability", EliUri(A3), 3)}, {Fact("dateEntryInForce", EliUri(A1), 2)},
              {Fact("inForceStatus", EliUri(A3), StatusInForce)}, {Fact("inForceStatus", EliUri(A1), StatusInForce)},
              {Fact("dateDocument", EliUri(A1), 1), Fact("typeDocument", EliUri(A1), "21")} }
      [] t = "changes" ->
            { Impact("i1", EliUri(A1), EliUri(Oc1)), Impact("i2", Art(<<"14", "a">>), EliUri(Oc1)),
              Impact("i3", EliUri(A2), EliUri(Oc1)),
              Citation("c1", EliUri(A1), EliUri(A3), {"one"}), Citation("c2", EliUri(A1), EliUri(A3), {"two"}),
              Citation("c3", EliUri(A3), EliUri(A2), {}) }
      [] t = "genesis" ->
            { {Fact("basicAct", EliUri(A1), EliUri(Oc1))},
              {Fact("hasResultingLegalResource", Node("d1"), EliUri(Oc1)), Fact("draftId", Node("d1"), 1)},
              {Fact("hasResultingLegalResource", Node("d1"), EliUri(<<"eli", "fga", "1">>))},
              {Fact("hasResultingLegalResource", Node("d2"), EliUri(<<"eli", "fga", "2">>)),
               Fact("hasResultingLegalResource", Node("d2"), EliUri(Oc1))},
              {Fact("isPartOf", EliUri(Oc1), Node("m")), Fact("isPartOf", EliUri(<<"eli", "fga", "1">>), Node("m"))},
              {Fact("draftHasTask", Node("d1"), Node("c")), Fact("a", Node("c"), "Consultation"),
               Fact("hasSubTask", Node("c"), Node("t1")), Fact("eventStartDate", Node("t1"), 1)},
              {Fact("hasSubTask", Node("c"), Node("t2")), Fact("eventStartDate", Node("t2"), 2),
               Fact("eventEndDate", Node("t2"), 3)},
              {Fact("isOpinionOf", Node("p"), Node("c")), Fact("a", Node("p"), "PositionStatementPublication")} }
      [] t = "topics" ->
            { Act(A2, "730.1", "Energy Levy Act"),
              {Fact("classifiedByTaxonomyEntry", EliUri(A1), Node("x1")), Fact("broader", Node("x1"), Node("x"))},
              {Fact("classifiedByTaxonomyEntry", EliUri(A2), Node("x2")), Fact("broader", Node("x2"), Node("x"))},
              {Fact("a", Foreign, "ConsolidationAbstract"), Fact("classifiedByTaxonomyEntry", Foreign, Node("x1"))},
              {Fact("prefLabel", Node("x1"), <<"de", "Energie">>), Fact("prefLabel", Node("x1"), <<"fr", "Energie">>)} }
      [] t = "lists" ->
            { {Fact("legalResourceSubdivisionIsPartOf", Node("s1"), EliUri(A1)),
               Fact("legalResourceSubdivisionType", Node("s1"), "chapter")},
              {Fact("legalResourceSubdivisionIsPartOf", Node("s2"), Node("s1")),
               Fact("legalResourceSubdivisionType", Node("s2"), Annex)},
              {Fact("a", Node("t"), "TreatyProcess"), Fact("treatySignatureDate", Node("t"), 1),
               Fact("treatyPartyCountry", Node("t"), "fr")},
              {Fact("titleTreaty", Node("t"), title) : title \in {"Abkommen", "Vertrag"}}
              \cup {Fact("treatyPartyCountry", Node("t"), country) : country \in {"it", "de"}},
              {Fact("a", Node("u"), "TreatyProcess"), Fact("treatyPartyCountry", Node("u"), "fr"),
               Fact("bilateral", Node("u"), "true")},
              {Fact("prefLabel", EliUri(<<"type", "1">>), <<"de", "Gesetz">>)},
              {Fact("prefLabel", EliUri(<<"type", "2">>), <<"fr", "Loi">>)} }]

LinkPredicates ==
    {"isMemberOf", "isRealizedBy", "isEmbodiedBy", "impactToLegalResource", "impactFromLegalResource",
     "citationFromLegalResource", "citationToLegalResource", "basicAct", "hasResultingLegalResource",
     "isPartOf", "draftHasTask", "hasSubTask", "isOpinionOf", "classifiedByTaxonomyEntry", "broader",
     "legalResourceSubdivisionIsPartOf"}

Ask(tool, eli) ==
    [tool |-> tool, eli |-> eli, day |-> 2, lang |-> none, eid |-> none, direction |-> none,
     type |-> none, word |-> none, limit |-> none]
With(tool, word) == [Ask(tool, <<>>) EXCEPT !.word = word]

SomeRequests == [t \in AllThemes |->
    CASE t = "versions" ->
            {Ask("list_versions", A1), Ask("list_expressions", A1), Ask("resolve_consolidation_at", A1),
             [Ask("resolve_consolidation_at", A1) EXCEPT !.lang = "xx"], Ask("resolve_consolidation_at", <<"no">>),
             [Ask("resolve_manifestation", A1) EXCEPT !.type = "pdf"]}
      [] t = "force" ->
            {[Ask("check_in_force", <<" ">> \o A3) EXCEPT !.day = d] : d \in Days}
            \cup {Ask("get_law_metadata", A1), With("resolve_sr_number", "730.0"), With("resolve_sr_number", none)}
      [] t = "changes" ->
            {Ask("get_impacts", A1), Ask("get_outgoing_impacts", Oc1),
             [Ask("get_article_history", A1) EXCEPT !.eid = <<"art", "14", "_", "a">>],
             [Ask("get_article_history", A1) EXCEPT !.eid = Blank],
             Ask("get_citations", A3), [Ask("get_citations", A1) EXCEPT !.direction = "sideways"]}
      [] t = "genesis" ->
            {Ask("get_drafts", A1), Ask("get_oc_act", A1), Ask("get_fga_documents", A1), Ask("get_memorial", Oc1),
             With("get_consultations", Node("d1")), With("get_consultation_documents", Node("c"))}
      [] t = "topics" ->
            {With("search_law", "energy"), [With("search_law", "levy") EXCEPT !.limit = 0],
             [With("search_law", "energy") EXCEPT !.limit = -1],
             Ask("find_related_topic", A1), [Ask("find_related_topic", A2) EXCEPT !.limit = 9],
             Ask("get_taxonomy", A1), With("explore_node", Node("x1")),
             With("resolve_vocabulary_label", Node("x1"))}
      [] t = "lists" ->
            {Ask("get_subdivisions", A1), [Ask("get_subdivisions", A1) EXCEPT !.type = " "], Ask("list_annexes", A1),
             With("get_treaty_info", Node("t")), With("find_treaties", "fr"),
             [With("find_treaties", none) EXCEPT !.limit = 1],
             With("list_vocabulary", EliUri(<<"type">>))}]

Words == {<<"energy", "Energy Act">>, <<"energy", "Energy Levy Act">>, <<"levy", "Energy Levy Act">>}
AllDays == 1..4
AllElis == {A1, A2, A3}
-----------------------------------------------------------------------------
(* Service: environments of all modes of trust, right and wrong, and         *)
(* messages that differ in a few fields from an ordinary one.                *)
Absent == "absent"

Nobody == [ca |-> none, cert |-> none, key |-> none, scheme |-> "redis", issuer |-> none, jwks |-> none,
           hs256 |-> none, rs256 |-> none, dev |-> none, version |-> none, origins |-> none]
Dev == [Nobody EXCEPT !.dev = "token"]
Hs == [Dev EXCEPT !.hs256 = "secret", !.issuer = "idp", !.origins = <<<<" ", "ui">>, <<" ">>>>]
Jwks == [Dev EXCEPT !.jwks = "url", !.issuer = "idp", !.version = "2024-11-05"]
Tls == [Dev EXCEPT !.ca = "pem", !.cert = "pem", !.key = "pem", !.scheme = "rediss", !.version = "2099-01-01"]

MCRedeployed == {Dev, Hs, Jwks}
MCEnvironments ==
    MCRedeployed \cup {Tls, Nobody}
    \cup {[Dev EXCEPT !.ca = a, !.cert = c, !.key = k, !.scheme = s] :
              a, c, k \in {none, "", "pem"}, s \in {"redis", "rediss"}}
    \cup {[Nobody EXCEPT !.jwks = j, !.hs256 = h, !.rs256 = r, !.issuer = i, !.dev = d] :
              j \in {none, "url"}, h \in {none, "secret"}, r \in {none, "pem", "garbage"},
              i \in {none, "idp"}, d \in {none, "token"}}

Token(kind, tenant, role) ==
    [kind |-> kind, fit |-> TRUE, kid |-> "k1", tenant |-> tenant, session |-> <<"s">>, role |-> role]
Bearer(token) == [scheme |-> "Bearer", token |-> token]

DevToken == Bearer(Token("dev", <<"x">>, "x"))
HsReader == Bearer(Token("hs256", <<"t">>, "reader"))
JwksNavigator == Bearer(Token("jwks", <<"t">>, "navigator"))
Tokens == {DevToken, HsReader, JwksNavigator}

Wrong == {none, opaque, [HsReader EXCEPT !.scheme = "Basic"], Bearer(Token("hs256", <<"t", ":">>, "reader")),
          Bearer(Token("hs256", <<"t">>, "root")), Bearer([Token("hs256", <<"t">>, "reader") EXCEPT !.fit = FALSE]),
          Bearer(Token("rs256", <<"t">>, "validator"))}

Plain == [path |-> "/mcp", origin |-> none, version |-> none, authorization |-> DevToken, parses |-> TRUE,
          id |-> "7", method |-> "ping", asks |-> none,
          name |-> none, arguments |-> "the case of a client", as_of |-> none]
Call(a, name) == [Plain EXCEPT !.authorization = a, !.method = "tools/call", !.name = name]

MCMessages ==
    {[Plain EXCEPT !.path = p, !.origin = o] :
         p \in {"/rpc", "/mcp"}, o \in {opaque, <<" ">>, <<"ui">>, <<"other">>}}
    \cup {[Plain EXCEPT !.version = v] :
              v \in {opaque, <<>>, <<"2024-11-05">>, <<"2025-11-25", " ">>, <<"2099-01-01">>}}
    \cup {[Plain EXCEPT !.method = "initialize", !.asks = v, !.authorization = a] :
              v \in {none, "2024-11-05", "2099-01-01"}, a \in {DevToken, HsReader}}
    \cup {[Plain EXCEPT !.authorization = a] : a \in Wrong}
    \cup {[Plain EXCEPT !.authorization = a, !.method = "tools/list"] : a \in Tokens}
    \cup {Call(a, name) : a \in Tokens, name \in {"read_article", "search_law", "compare_versions"}}
    \cup {[Call(a, name) EXCEPT !.id = i] :
              a \in {DevToken}, i \in {Absent, none, "7"}, name \in {"read_article", "no_such_tool", none}}
    \cup {[Call(DevToken, "read_article") EXCEPT !.as_of = d] : d \in {"2024-01-01", "tomorrow"}}
    \cup {[Plain EXCEPT !.parses = FALSE], [Plain EXCEPT !.method = "notifications/initialized"],
          [Plain EXCEPT !.method = "resources/list"]}
==============================================================================
