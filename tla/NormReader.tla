----------------------------- MODULE NormReader -----------------------------
(***************************************************************************)
(* One pod of mcp-reader answering tools/call (McpService::handle): the    *)
(* credential, the quota, the day, the dispatch, and the tools that read   *)
(* the text of a norm through the AknFetcher of fedlex-bridge, which asks  *)
(* Fedlex for the version and keeps parsed documents in a cache.           *)
(*                                                                         *)
(* A handler is cut where it awaits: the quota, the SPARQL endpoint, the   *)
(* download.  In between other calls run, Fedlex publishes, midnight       *)
(* passes, clients hang up.  Whether a credential is accepted and a call   *)
(* is within its quota is left open here (Quota models the latter).        *)
(***************************************************************************)
EXTENDS Integers, SequencesExt

CONSTANTS
    Calls,              \* handler tasks
    Requests,           \* [tool, role, asOf, other, lang]
    Versions, Langs, Days,
    From,               \* dateApplicability of a version
    NoVersion,
    MaxCalls            \* bound of the model: requests that arrive

ASSUME FromAssumption == Days \subseteq Nat \ {0} /\ From \in [Versions -> Days]

\* A request names a language the reader knows; its days may be missing or no days.
ASSUME RequestsAssumption ==
    Requests \subseteq [tool : STRING, role : STRING, asOf : Days \cup {0, -1},
                       other : Days \cup {0}, lang : Langs]

VARIABLES
    day,        \* the date
    default,    \* TemporalResolver.default_as_of
    published,  \* Fedlex: the consolidations listed for the norm
    xml,        \* Fedlex: which of them have an XML manifestation, by language
    cache,      \* AknFetcher.cache: the manifestations held parsed
    call,       \* the handlers under way
    said,       \* the last response of each
    arrived,    \* how many requests arrived (bounded by MaxCalls)
    paid,       \* history: the calls the quota admitted
    load        \* history: the requests sent to Fedlex

vars == <<day, default, published, xml, cache, call, said, arrived, paid, load>>
fedlex == <<published, xml>>

NotGiven == 0      \* an as_of that is missing
Malformed == -1    \* and one that is not a date

Idle == [pc |-> "idle"]
Error == [kind |-> "error"]

-----------------------------------------------------------------------------
\* CONS_Q: the rows of the query, and those its ORDER BY and LIMIT may leave.
Rows(l, d) == {v \in published : <<v, l>> \in xml /\ From[v] <= d}

\* Mutant of Resolved: the order of the rows is turned round.
ResolvedAscending(l, d) == LET rows == Rows(l, d) IN {v \in rows : \A o \in rows : From[o] >= From[v]}

Resolved(l, d) == LET rows == Rows(l, d) IN {v \in rows : \A o \in rows : From[o] <= From[v]}

\* role_allows for the pools of the tools modelled.
Allows(role, tool) == tool = "read_article" \/ (tool = "compare_versions" /\ role = "Validator")

\* What Registry::dispatch and the tool refuse before they ask for anything.
Dispatchable(q) ==
    /\ q.tool \in {"read_article", "compare_versions"}
    /\ Allows(q.role, q.tool)
    /\ q.tool = "compare_versions" => q.other \in Days

\* The days of the versions a tool fetches, one after the other.
DaysOf(q, stamp) == IF q.tool = "compare_versions" THEN <<stamp, q.other>> ELSE <<stamp>>

Respond(c, r) ==
    /\ said' = [said EXCEPT ![c] = r]
    /\ call' = [call EXCEPT ![c] = Idle]

Init ==
    /\ day \in Days /\ default = day
    /\ published = {} /\ xml = {} /\ cache = {}
    /\ call = [c \in Calls |-> Idle]
    /\ said = [c \in Calls |-> Error]
    /\ arrived = 0 /\ paid = 0 /\ load = 0

-----------------------------------------------------------------------------
\* handle up to the quota: the credential, the name of the tool.
Arrive(c, q) ==
    /\ call[c] = Idle /\ arrived < MaxCalls
    /\ arrived' = arrived + 1
    /\ \/ Respond(c, Error)
       \/ /\ q.tool # "unnamed"
          /\ call' = [call EXCEPT ![c] = [pc |-> "quota", req |-> q, since |-> day]]
          /\ UNCHANGED said
    /\ UNCHANGED <<day, default, fedlex, cache, paid, load>>

\* Mutant of Denied: the decision is not looked at.
CarriesOn(c) ==
    /\ call[c].pc = "quota"
    /\ Dispatchable(call[c].req)
    /\ call' = [call EXCEPT ![c] =
                   [pc |-> "query", req |-> @.req, since |-> @.since,
                    days |-> DaysOf(@.req, default), got |-> <<>>, pick |-> NoVersion]]
    /\ UNCHANGED <<day, default, fedlex, cache, said, arrived, paid, load>>

\* The quota refuses, or could not be asked and the fallback refuses.
Denied(c) ==
    /\ call[c].pc = "quota"
    /\ Respond(c, Error)
    /\ UNCHANGED <<day, default, fedlex, cache, arrived, paid, load>>

(* The quota admits the call, which is paid from here on; then the day is    *)
(* read and stamped and the tool dispatched, all before the next await.      *)
Dispatch(c) ==
    /\ call[c].pc = "quota"
    /\ paid' = paid + 1
    /\ LET q     == call[c].req
           stamp == IF q.asOf = NotGiven THEN default ELSE q.asOf
       IN  \/ (q.asOf = Malformed \/ ~Dispatchable(q)) /\ Respond(c, Error)
           \/ /\ q.asOf # Malformed /\ Dispatchable(q)
              /\ call' = [call EXCEPT ![c] =
                             [pc |-> "query", req |-> q, since |-> @.since,
                              days |-> DaysOf(q, stamp), got |-> <<>>, pick |-> NoVersion]]
              /\ UNCHANGED said
    /\ UNCHANGED <<day, default, fedlex, cache, arrived, load>>

\* resolve_consolidation_at, answered by the endpoint at this moment or failed.
ResolveConsolidationAt(c) ==
    /\ call[c].pc = "query"
    /\ load' = load + 1
    /\ \/ Respond(c, Error)
       \/ /\ \E v \in Resolved(call[c].req.lang, call[c].days[Len(call[c].got) + 1]) :
                call' = [call EXCEPT ![c].pc = "lookup", ![c].pick = v]
          /\ UNCHANGED said
    /\ UNCHANGED <<day, default, fedlex, cache, arrived, paid>>

(* The document at hand is the next of those the tool asked for; from the    *)
(* last one follows the answer, unless the element asked for is not in it.   *)
Received(c) ==
    LET got == Append(call[c].got, call[c].pick)
    IN  IF Len(got) < Len(call[c].days)
        THEN /\ call' = [call EXCEPT ![c].pc = "query", ![c].got = got, ![c].pick = NoVersion]
             /\ UNCHANGED said
        ELSE \/ Respond(c, Error)
             \/ Respond(c, [kind |-> "text", days |-> call[c].days, lang |-> call[c].req.lang,
                            found |-> got, asked |-> call[c].req.asOf, since |-> call[c].since])

\* cache.get(url): a hit is the document, a miss is followed by the download.
Lookup(c) ==
    /\ call[c].pc = "lookup"
    /\ \/ <<call[c].pick, call[c].req.lang>> \in cache /\ Received(c)
       \/ /\ <<call[c].pick, call[c].req.lang>> \notin cache
          /\ call' = [call EXCEPT ![c].pc = "download"]
          /\ UNCHANGED said
    /\ UNCHANGED <<day, default, fedlex, cache, arrived, paid, load>>

\* source.fetch, parse and cache.insert; or the download or the parser fails.
Download(c) ==
    /\ call[c].pc = "download"
    /\ load' = load + 1
    /\ \/ Respond(c, Error) /\ UNCHANGED cache
       \/ Received(c) /\ cache' = cache \cup {<<call[c].pick, call[c].req.lang>>}
    /\ UNCHANGED <<day, default, fedlex, arrived, paid>>

\* The client hangs up: the handler is dropped where it awaits.
HangUp(c) ==
    /\ call[c] # Idle
    /\ Respond(c, Error)
    /\ UNCHANGED <<day, default, fedlex, cache, arrived, paid, load>>

\* moka evicts for room.
Evict ==
    /\ \E m \in cache : cache' = cache \ {m}
    /\ UNCHANGED <<day, default, fedlex, call, said, arrived, paid, load>>

\* Fedlex lists a consolidation; its manifestations follow, or never do.
PublishVersion(v) ==
    /\ v \notin published
    /\ published' = published \cup {v}
    /\ UNCHANGED <<day, default, xml, cache, call, said, arrived, paid, load>>

PublishXml(v, l) ==
    /\ v \in published /\ <<v, l>> \notin xml
    /\ xml' = xml \cup {<<v, l>>}
    /\ UNCHANGED <<day, default, published, cache, call, said, arrived, paid, load>>

Midnight ==
    /\ day + 1 \in Days
    /\ day' = day + 1
    /\ UNCHANGED <<default, fedlex, cache, call, said, arrived, paid, load>>

\* The pod is replaced; main reads the date once, as it starts.
Restart ==
    /\ default' = day
    /\ cache' = {}
    /\ call' = [c \in Calls |-> Idle]
    /\ UNCHANGED <<day, fedlex, said, arrived, paid, load>>

CallStep(c) ==
    Denied(c) \/ Dispatch(c) \/ ResolveConsolidationAt(c) \/ Lookup(c) \/ Download(c) \/ HangUp(c)

Next ==
    \/ \E c \in Calls, q \in Requests : Arrive(c, q)
    \/ \E c \in Calls : CallStep(c)
    \/ \E v \in Versions : PublishVersion(v)
    \/ \E v \in Versions, l \in Langs : PublishXml(v, l)
    \/ Evict \/ Midnight \/ Restart

Spec == Init /\ [][Next]_vars

-----------------------------------------------------------------------------
(* Properties.                                                              *)

Working == {"query", "lookup", "download"}

(* Only paid work reaches Fedlex (handle: "Quota vor jeder Arbeit"), and a   *)
(* paid call asks for at most two versions, each with one query and one      *)
(* download: what clients can make the pod send is bounded by their quota.   *)
LoadIsPaid == load <= 4 * paid

(* Nobody sees a norm through the window of another: the answers keep the    *)
(* promise of PointInTime, whatever the cache holds, Fedlex publishes in     *)
(* between, and other calls do (fetch_akn_document, compare_versions).       *)
Promise == INSTANCE PointInTime WITH
    readable <- xml,
    look <- [c \in Calls |->
                IF call[c].pc \notin Working THEN [open |-> FALSE]
                ELSE [open |-> TRUE, lang |-> call[c].req.lang, days |-> call[c].days,
                      found |-> IF call[c].pc = "query" THEN call[c].got
                                ELSE Append(call[c].got, call[c].pick)]],
    said <- [c \in Calls |->
                IF said[c].kind = "error" THEN Error
                ELSE [kind |-> "text", days |-> said[c].days, lang |-> said[c].lang,
                      found |-> said[c].found]]

KeepsPromise == Promise!Spec

(* Documented (README: "without it, today applies"; TemporalResolver):       *)
(* a request without as_of is answered for the day on which it arrives.      *)
DefaultIsToday ==
    \A c \in Calls :
        (said[c].kind = "text" /\ said[c].asked = NotGiven) => said[c].days[1] = said[c].since

(* Documented (resolve_consolidation_at, fetch_akn_document): the version    *)
(* resolved for a day is the one that applies on it, and there is no answer  *)
(* if that version has no XML.                                               *)
AppliesOnDay ==
    [][\A c \in Calls :
          ResolveConsolidationAt(c) /\ call'[c].pc = "lookup" =>
              LET d == call[c].days[Len(call[c].got) + 1]
              IN  \A v \in published : From[v] <= d => From[v] <= From[call'[c].pick]]_vars
=============================================================================
