# Verification of mcp-fedlex

TLA+ models of the parts of `mcp-fedlex` in which order, failure and time decide, the TLC
configurations that check them on small instances, and TLAPS proofs of the results that matter
most for any instance. Paths below are relative to `src/crates/`.

## 1. The system

An MCP server (`mcp-reader`, several replicas behind a load balancer) answers JSON-RPC calls of
language models about Swiss federal law. A call carries a bearer credential; the pod verifies it,
charges the session's quota in Redis, stamps the call with the day it asks about, and runs a tool.
Navigation tools fetch one or two versions of an act from Fedlex (SPARQL for the version, HTTP for
the XML); discovery and metadata tools ask Fedlex a single query.

| Component (files) | State | Operations | Works with | Hard because | What makes it correct |
|---|---|---|---|---|---|
| Distributed quota (`mcp-reader/quota.rs`, `fedlex-store/token_bucket.rs`) | one hash per session in Redis (level, stamp, expiry); a map per pod for outages | `check_weighted`, the Lua script, `PodLocalBucket::try_acquire` | transport calls it once per `tools/call` with its wall clock; Redis is shared by all pods | late, reordered and lost commands; clocks of several pods; restarts of either side | a session gets bounded tokens over all pods; no failure lets a call run unpaid; an honest hint to wait |
| Circuit breaker, LOD gateway (`circuit_breaker.rs`, `lod_gateway.rs`) | state, streak of failures, time of opening, behind a mutex | `state`, `allow`, `on_success`, `on_failure`, `call`, `resolve` | any number of tasks share it; the external call runs outside the mutex | answers that belong to an earlier state; dropped tasks; a wall clock for the cooldown | fields never disagree; a dead endpoint is left alone; a healthy one is used again |
| Bi-temporal corpus (`oxigraph_corpus.rs`) | quads in memory, an id counter, snapshots as text | `append_version`, `contains_version`, `resolve_as_of`, `dump_to_string`, `restore_from_str` | a writer in another repository appends; readers query | an append is five separate inserts; retries; snapshots while appends run | nothing known is lost or altered; the answer for a day follows validity, then knowledge |
| Request pipeline (`transport.rs`, `registry.rs`, `temporal.rs`, `tool.rs`) | the default day; nothing per session | `handle`, `dispatch`, `stamp` | credentials, quota, tools | every await lets other calls, midnight and disconnects in | quota before work; RBAC before execution; the right day |
| Direct fetch (`fedlex-bridge`, `tools.rs`, `fedlex-jolux/temporal.rs`) | a cache of parsed documents by URL | `resolve_consolidation_at`, `fetch_akn_document`, the navigation tools | Fedlex publishes while calls run | the version is chosen before an await and used after it; no single flight; eviction | each text is the version of its day, in its language |
| AKN documents (`fedlex-akn`: `dom.rs`, `doc.rs`, `structure.rs`, `text.rs`, `chunking.rs`, `components.rs`, `markdown.rs`) | the arena of one parsed document | `copy_rox`, `text_of`, `resolve_eid`, `hollow_document`, `search_text`, `chunk_document`, `get_readable_document` | the navigation tools render it, an indexer takes the chunks | no two acts are nested alike; eIds are given twice; tables and annexes | no text is lost or told twice; a citation leads back to its text |
| Key rotation (`auth.rs`, `main.rs`) | the map of keys by `kid` behind a lock | `install_jwks`, `verify`, the refresher loop | an identity provider | whole-map swaps, failed and empty refreshes | withdrawn keys stop working, published ones start to |
| Single-flight caches (`warmup.rs`, `xml_engine.rs`) | a moka cache and a counter | `get_or_load`, `warm`, `invalidate`, `paginate`, `diff_to_markdown` | loaders that fail | invalidation during a load, dropped loaders, pages of a text that changes | one load per miss; no waiter is left alone; a walk is whole |
| Protocol and HTTP surface (`transport.rs`, `protocol.rs`, `app.rs`, `main.rs`) | what the environment said at the start | `initialize`, `tools/list`, `tools/call`, `ping`, the guards of `/mcp` | clients, keys, quota, tools | pods with different settings answer one client; null ids, blank headers | what was agreed on is not turned away; every request has its answer; no setting weakens another |
| Roles, pools, contract (`tool.rs`, `registry.rs`) | the registry | `list_tools`, `dispatch`, `cost_weight` | quota, tools | tables in three files have to fit each other | what is listed can be called and paid |
| JOLux queries, discovery and metadata tools (`fedlex-jolux`, `discovery.rs`, `metadata.rs`) | none | one or two queries and an answer with its provenance | Fedlex | limits without an order, names that begin with other names, facts published between two questions | answers of different tools agree, and lead back |
| Health (`health.rs`, `probes.rs`) | two switches, probes | `readyz`, `livez`, `startupz` | Redis, Fedlex, an orchestrator | probes without a timeout, one after the other | calls follow the dependencies; an outage alone restarts nothing |
| Scratchpad (`scratchpad.rs`, `redis_store.rs`, `key.rs`, `repository.rs`) | values by tenant, session and name | put, get, delete | Redis | keys built from claims, calls that fail half-way | tenants and sessions never meet |
| Search sandbox (`sandbox.rs`) | work on blocking threads | `run`, `find_all` | tokio | work that outlives its caller | a caller is told in time |
| Redis TLS (`redis_tls.rs`) | none | `from_files` | `main.rs` | half of a configuration | a pod starts as configured or not at all |
| Domain types, telemetry scrubber (`fedlex-core`, `fedlex-telemetry`) | none | values, `scrub` | all others | - | see section 8 |
| Semantic client (`semantic_client.rs`) | none | one request | a service | - | see section 8 |

`lod_gateway`, `circuit_breaker`, `warmup`, `xml_engine`, `sandbox`, `semantic_client`, the corpus
and the scratchpad are libraries that `main.rs` does not wire into the server yet; they are
modelled for the callers their interfaces admit.

`PROJECT.json` lists, under `hazards`, each place where something hard to test can go wrong, and the
property that watches it or why none does yet.

## 2. Modules

| Module | What it is |
|---|---|
| `TokenBucket` | the arithmetic of a token bucket, shared by the Lua script and the fallback, and the ledger (a history record) the limits are stated with |
| `Quota` | pods, calls in flight, Redis, the fallback buckets |
| `QuotaProofs` | lemmas about the arithmetic; the quota's limits, payments and hints |
| `BreakerConfig` | threshold and cooldown, and the assumption on them |
| `BreakerPolicy` | what a caller may rely on: streak, rest, who is calling |
| `CircuitBreaker` | the three states, the opening time, concurrent callers |
| `CorpusHistory` | a history that only grows, questions, backups |
| `Corpus` | resources with their quads, writers inside an append, snapshots |
| `CorpusProofs` | the corpus implements its history; answers never go back; backups come back |
| `BackupFormat` | the lines of a backup, character by character |
| `PointInTime` | a client's questions about days and the answers it may get |
| `NormReader` | one pod: handlers cut at their awaits, the cache, Fedlex publishing |
| `NormReaderProofs` | the reader implements `PointInTime`; its load is paid for |
| `KeyTrust` | which tokens a pod may accept: those one published document stands for |
| `KeyRotation` | the installed keys, the refresher cut at its awaits, the provider |
| `KeyRotationProofs` | types; the rotation keeps the trust |
| `AknDocument` | the arena, what is looked up in it, and the parser that fills it |
| `AknText` | change notes, foreign islands, hollowed view, search, Markdown |
| `Chunking` | pieces, chunks and components |
| `AknOutline` | outline, elements by eId, references, modifications, tables, comparison of versions |
| `DocumentProofs` | the arena is a tree; what views of it show, where signposts lead, what a comparison tells |
| `ChunkProofs` | every text reaches the chunks once, parts fit, rows stay whole, chunks cite |
| `LegalGraph` | facts of Fedlex, and the clauses of SPARQL the queries use |
| `JoluxQueries` | the primitives of `fedlex-jolux` |
| `LawTools` | the discovery and metadata tools over a graph that is being published |
| `ToolContract` | tools, pools, roles, weights and buckets |
| `Startup` | how the environment becomes a pod: the guards of `/mcp`, the negotiation of `initialize`, the tokens it takes |
| `Service` | a pod as its client meets it |
| `TenantKeys` | the names of things in Redis |
| `PrivatePads` | a pad for each session |
| `Scratchpad` | calls of the scratchpad over a store of strings |
| `WarmCache` | single flight |
| `XmlEngine` | documents page by page, and by their differences |
| `Sandbox` | searches under a deadline |
| `Readiness` | the probes of a pod and its orchestrator |
| `Pod` | the parts of a pod that share no state: breaker, cache, pages, scratchpad, sandbox, health |
| `PodProofs` | the breaker's coherence and policy, the cache's two promises, the pads of `PrivatePads`, walks through acts |
| `Tools` | the two ends of a pod: what its client is told, what its tools ask Fedlex |
| `ToolsProofs` | the promises of both ends |
| `MCQuota`, `MCCorpus`, `MCNormReader`, `MCKeyRotation`, `MCDocuments`, `MCPod`, `MCTools` | small instances |

`NormReader` and `Service` are two views of `McpService::handle`. `NormReader` follows the tools that
read a text through every await, for several handlers at once; `Service` has all methods, one call at a
time, and leaves open what the quota and the tool decide. `Pod`, `Tools` and `MCCorpus` each hold
several modules that share no state in the code. A behaviour of theirs is about one of them, named by
`part`, and their configurations check the promises of all.

### State and actions against the code

**Quota.** `bucket[k]` is the hash `HMGET`/`HMSET` touch, with the time `PEXPIRE` sets; `local[p][k]`
an entry of `PodLocalBucket.state`; `call[c]` where a handler stands in `check_weighted`: the command
is `sent`, the script `ran` and its reply is under way, or the caller has given up and the command is
an `orphan`. `Begin` is the transport reading `now_ms()` and awaiting the attempt, `RunScript` the
whole Lua script, `Reply` the `Ok` arm, `Fallback` the `Err` arm with the pod-local attempt in it.
The key is made of tenant and session alone, so calls of one session with different roles meet in one
bucket with different parameters (`RolesOf`). The code computes in `f64`; here time is in ticks and
tokens in units that make the refill per tick a whole number, so rounding of fractions is left out
except where it matters (`CeilDiv` in the hint to wait).

**CircuitBreaker.** Each method holds the mutex once, so each is one action; `Refreshed` is the
transition `refresh` performs inside `state` and `allow`. Only the age of the opening is kept, not
the date. `consecutive_failures` is counted up to the threshold, since the code tells no more apart.
`caller[c] = "probing"` only notes that the call was let through in HalfOpen.

**Corpus.** A resource is its draft and the number of quads that are in; `append_version` is
`AppendVersion` (the id), then one `Insert` per turn of the loop, or `InsertFails`. Queries are
described by the predicates their patterns name (`Matching`). The text of a draft is left out, its
identity stands for it. `Dumps` are the backups the query of `dump_to_string` may give: one row per whole
version in the order of act, validity and knowledge; the order of acts is left open. `Skip` is the writer, of which this repository has only the comment.

**NormReader.** A handler is `quota`, then `query`, `lookup` and, after a miss, `download`, once per
version its tool asks for. `Dispatch` is one action from the reply of the quota to the first await of
the tool: day, stamp, existence, role, arguments. `read_article` stands for the tools that fetch one
document and render it, `compare_versions` fetches two. `published` and `xml` are what `CONS_Q`
finds in Fedlex.

**KeyRotation.** `keys` is the map behind the `RwLock`. `install_jwks` holds the write lock for the
exchange and `verify` the read lock from the choice of the key to the check of the signature, so each
is one action. The refresher awaits three times: the response (`Response`), its body (`InstallJwks`)
and the timer (`Wake`); `FetchFails` is any of the early returns that only log. A document is a sequence of
keys since a later entry replaces an earlier one of its kid (`Installed`). Signatures are the
library's: a token carries the key it was signed with, and whether its claims are fit.

**AKN documents.** The operators of these modules are the functions of the code, the state machine is
the parser: it adds a node below an element still open, so that every document up to a size is a
reachable state and each invariant is a statement about all of them. Pieces of text are nodes, and
what an operation returns is the set of the texts in it: a text is lost or doubled exactly if its
node is. Texts have a length, of which the splitting of chunks depends; the blanks that `text_of` puts
between blocks are not counted. An eId is a number and its spelling, with or without the underscore
that JOLux leaves out (`normalize_eid`). Of the FRBR block only the work remains, which is what chunks
carry. `Packed` is the loop that fills one group after another, for prose and, with the room for the
repeated header, for tables.

**AKN documents, read in parts.** A list a tool returns (`OutlineNodes`, `GetAllReferences`, `ExtractTables`,
`GetModifications`) is the set of its entries, each with the node it was made from, so that an invariant can say
where its eId leads. `Compared` is `compare_versions` over the two maps `article_texts` makes; the older
versions it is checked with are every shorter document and every one with a text changed.

**JOLux and its tools.** A graph is a set of facts. The operator of a primitive is the set of all answers
its query may give: a query with a limit and without an order leaves the choice of rows to the endpoint
(`Cut`). `none` as an answer stands for `NotFound`. URIs are sequences of parts, since `STRSTARTS` and
`CONTAINS` find names that begin with another name. A tool in `LawTools` is `Arrive` (its arguments), then
one action that evaluates its query on the graph of that moment and wraps the answer; `explore_node` asks
twice, with `Publish` possible in between. Acts are facts that arrive per resource, in any order.

**Service.** `Start` is `main`: it refuses (`none`) or yields a pod with a mode of trust, a default version
and origins. `TurnedAway` is what is answered before a method is read, in the order of the code: origin,
version, JSON, notification, credential. `ToolsCall`, `Denied`, `Admitted` and `Executed` are the
parts of `tools/call` between its awaits. `Restart` replaces the pod under the client, with another environment;
the call is lost with it. A call that is let through gets a result (`Response` with a provenance, `graceful` with an
error), of which the client and the audit line, a step's `log`, are told (`Dispatched`). What was asked and found
are texts the line has no attribute for. `told` is the last answer until a call is under way.

**WarmCache.** Of moka is modelled what the code relies on: a miss starts a flight or joins it (`Miss`), the
outcome goes to all who wait (`Loaded`, `LoadFails`), and if the task that runs the flight is dropped, those
who wait look again (`Drop`). `Read` is separate from `Loaded`: between the two the value can become old. `raced`
marks a load that an invalidation met under way.

**XmlEngine.** The client follows `next_page`; each page is a call of its own with the text the act has by
then, so the cache alone keeps a walk consistent. `Update` applies `diff_to_markdown` to a copy.

**Scratchpad.** A call is `Call` (the key), a command (`Put`, `Get`, `Delete`) and `Reply`; `Fails` strikes
before the command or after it. Claims and names are sequences of characters, since what is at stake is
whether two keys can be spelled alike.

**Sandbox, Readiness.** A search occupies a thread from `Take` to `Finish`, whatever `Deadline` told its caller.
`Readyz` asks one probe after the other (`ProbeReady`, `ProbeFails`); a mute dependency holds it until the
orchestrator gives up. The orchestrator is external: it asks `startupz` first, routes by `readyz` and
restarts by `livez`.

**BackupFormat.** Texts are characters here, because the format is about them: tab, return, line feed,
backslash, and the letters that escapes use.

## 3. Abstract specifications

* `BreakerPolicy`: after `Threshold` failures in a row the endpoint rests for `Cooldown`, counted from
  the last failure; whenever a success arrives the streak is over. `CircuitBreaker` implements it
  (`KeepsPolicy`): `streak` is the counter in Closed and the threshold otherwise, `rest` what is left
  of the cooldown. The three states are not visible in it.
* `CorpusHistory`: a bag of versions. `Corpus` implements it (`KeepsHistory`) with `known` mapped to
  the whole versions: a version appears in one step although it is inserted in five, and a backup is
  the bag at one moment.
* `PointInTime`: each text told was, at a moment between question and answer, the latest readable
  version of its day. `NormReader` implements it (`KeepsPromise`): neither the cache, nor the pod's
  other calls, nor its restart are visible.
* `KeyTrust`: every verdict is that of one published document, never of a mixture of two nor of one
  a failed fetch spoiled, and a pod only moves on to later documents. `KeyRotation` implements it
  (`KeepsTrust`): the refresher is not visible, and `keys` is seen through the document it came from.
* `PrivatePads`: each session of each tenant has a pad of its own, a call takes effect once between question
  and answer, and one that failed may or may not have had its effect. `Scratchpad` implements it (`KeepsApart`):
  the one store of strings behind all pads is not visible, which it would be if two keys met.

## 4. Runs

| Run | Checks | What it shows |
|---|---|---|
| `quota_books` | `BooksBalance`, `GlobalLimit`, `FallbackLimit`, `FailClosed`, `RetryHonest`, `CallTakesAtMostItsCost` | limits with skewed clocks, late, orphaned and lost commands, restarts, a session with two roles that refill at different rates; a hint to wait is long enough |
| `quota_reorder` | `LimitAcrossPods`, violated | commands that overtake each other credit time twice |
| `pod` | `KeepsPolicy`, `RecoversWhenHealthy` | three callers of the breaker, late answers, cancellations, a clock that is set |
| | `FreshOrRaced`, `LoadsAreNeeded`, `NobodyWaitsForever` | what a cache holds is as new as the last invalidation, unless a load raced with it; one load per miss; nobody is left waiting |
| | `WalkIsWhole` | pages of any size, also 0, are the act, also for a client that keeps a copy |
| | `KeepsApart` | three sessions, that share a tenant or the name of a session, and two names, of which claims and keys without separators would be alike: each session has a pad of its own, and claims or names with separators get none |
| | `ToldInTime` | a caller is told although all threads are held for ever |
| | `RoutedAsReady` | calls leave a pod whose dependency stays away, and come back with it; whatever its dependencies do, a pod nobody declares dead is not restarted |
| `breaker_probe` | `SingleProbe`, violated | two probes at once |
| `corpus` | `KeepsHistory`, `NeverRegresses`, `ComesBack` | two writers, a version, its correction, its successor; failures, backups, restarts; texts of any special characters in a backup that is whole or cut off anywhere |
| `corpus_skip` | `SkippedIsStored`, violated | `contains_version` holds for a version that cannot be read |
| `key_rotation` | `KeepsTrust`, `FollowsProvider` | rotations with and without overlap, a kid taken over, unusable keys, an empty document; failed fetches and a restart; then the pod accepts what the provider stands for |
| `norm_reader` | `LoadIsPaid`, `KeepsPromise` | two handlers, every kind of request, publication and eviction in between |
| `norm_reader_today` | `DefaultIsToday`, violated | the day used without `as_of` is that of the pod's start |
| `norm_reader_version` | `AppliesOnDay`, violated | an older text under a day on which a newer version applies |
| `documents` | `ChunkedOnce`, `PartsFit`, `RowsWhole`, `ChunksCite` | of every small document of ten kinds: its text is chunked once, table rows are whole and have their head, chunks cite what they are of |
| | `NothingUnaccounted`, `ShownOnce`, `SignpostsLead`, `ChangesTold` | what is left out of a text is reported elsewhere; every eId a tool hands out leads back; a comparison tells of each article that changed and of no other |
| `tools` | `VersionsAgree`, `SrNumberDecided`, `CitationsMirror`, `PapersOfDrafts`, `HitsLeadBack` | while Fedlex publishes, the answers of different tools agree with each other and lead back |
| | `HandshakeHolds`, `ListedIsCallable`, `AnswersMatch`, `TrustAsConfigured`, `LogTellsTheCall` | for pods of any environment, replaced under way, and messages of any kind: versions, lists, answers and trust hold; the audit log has each dispatched call with the norm the client was told about, and any other attribute only blanked |

### Bounds and why they are enough

* Quota: two pods, one session, two calls in flight, two calls in all (five in the violated run),
  two ticks, one restart of each kind. Two pods and two commands are what an overtaking
  needs; the sessions do not touch each other's buckets; capacity is 2 or 3 so that a bucket runs
  empty, is partly refilled and is full again within the ticks; `Ttl = 2` lets a key expire. The
  three limits are proved for every value (section 6).
* Breaker: threshold 2 and cooldown 2 tell "one short", "reached", "half over" and "over" apart;
  three callers give a late answer, a probe and one more. `MaxStep = 1` sets the clock back by a tick
  or to any age.
* Corpus: three drafts and two resources; two appends in progress meet in every way, a correction
  comes before or after what it corrects. A longer history repeats the same comparisons in pairs.
  Backups: two rows with three characters in all, of six kinds. An escape is two characters long, so three make an
  escape and its neighbour, and a cut falls at every place in it.
* NormReader: two handlers, two versions, one language, three requests, two days. Languages
  separate the documents by the key of the cache, so one is enough for the interleavings.
* KeyRotation: two kids, two keys, six documents, of which three are published one after the other.
  Two successive replacements while one document is on its way are what a stale installation needs;
  one restart forgets the keys once.
* Documents: `SplitThreshold` is 5 instead of 2000 characters, so that a text of 6 is too long alone,
  two of 3 together, and a header of 1 leaves room for one row of 2 but not for two. Each kind of
  `MCDocuments` is one of the patterns of `classify_pattern` or a case that needs depth (a table with
  a header and without one, rows of cells, components, references, eIds given twice), with up to 7 to 13 nodes,
  which is where a second table part, a second component and a nested level exist. All tags at once would not
  fit; the operators look at one subtree at a time, so mixing kinds adds little.
* WarmCache: two tasks, two keys, a store that changes once, one removal. That is one who loads and one who waits,
  and a value that is old. With two keys `warm` meets one that is held and one that is not.
* XmlEngine: a text with a line that is no article, one with an id given twice, one without articles;
  pages of 0 to 3; one removal.
* Scratchpad: two callers; three sessions, two of one tenant and one of another with the same name, and two
  names; one value, since what is read tells a pad of its own from one that is shared. Three more claims and two more
  names are invalid (a separator, a blank) and have to be refused: let in, they would meet the keys of the
  valid ones. With the tenant, the session or the separators left out of a key, or separators let into a
  part, the run finds `KeepsApart` violated. A caller's last answer is forgotten when it calls again.
* Sandbox: two searches and one thread, so that one search holds what the other waits for.
* LawTools: six themes with up to eight resources each, published in any order, limits of 2 to 4 rows that are
  exceeded by one. Two acts whose numbers begin alike, one article whose number begins with another's.
* Service: all environments in which the settings of trust and of the connection vary, and messages that
  differ from an ordinary one in one or two fields. The guards look
  at one field each, and the pairs that matter (id and method, token and mode, header and agreement) are there.

`CHECK_DEADLOCK FALSE` is set in the quota configurations, where time and calls are bounded, and for
the documents, where a document of full size is finished.

## 5. Fairness

`CircuitBreaker!Fairness`: `WF(Tick)`: the wall clock advances.
`WF(OnSuccess(c) \/ OnFailure(c) \/ Cancel(c))`: a call that was let through ends somehow; the
connector's call ends with an answer, an error or the drop of its task. `WF(Admit(c))`: the endpoint
is being used, so somebody asks again. `RecoversWhenHealthy` assumes, in its hypothesis and not in the
specification, that from some point on calls do not fail or get dropped and the clock is not set back.

`KeyRotation!Spec`: `WF(Wake)`: the timer of the refresher fires. `SF(Response)`, `SF(InstallJwks)`:
any fetch may fail, but not all of them do. That is an assumption on the provider, and on the network,
since the request has no timeout: a provider that accepts a connection and never answers stops the
refresher. `FollowsProvider` says nothing of that case.

`WarmCache!Fairness`: `WF(Turn(c))`: the runtime polls tasks that can go on. `WF(Loaded(c) \/ LoadFails(c))`: a
loader that is not dropped ends, as the contract of `get_or_load` assumes. `NobodyWaitsForever` excludes, as its hypothesis, that
loaders are dropped for ever.

`Sandbox!Fairness`: `WF(Deadline(s))`: tokio's timer fires. `WF(Take(s))`: a free thread takes work. No fairness of `Finish`:
a search may run for ever, which is why there is a deadline.

`Readiness!Fairness`: the pod marks its start, the orchestrator asks its questions again and again, and a question under way is
answered or given up; how long the orchestrator waits is its own configuration. Nothing is assumed of the
dependencies, and nobody has to declare a pod unhealthy.

In `Pod` the fairness of a part is assumed of the behaviours about it, and of no others: a breaker owes nothing
to a behaviour about the sandbox. No liveness is claimed of the quota and
of the reader: neither the connection to Redis nor the requests to Fedlex have a timeout, so the code
guarantees no answer.

## 6. Proofs

Checked by TLAPS, for every value of the constants that satisfies the named assumptions.

* **Quota** (`QuotaProofs`): `TypeCorrect`, `BooksBalanceAlways`, `GlobalLimitHolds`,
  `FallbackLimitHolds`. The limits are not inductive: a step may not break them only because the level
  left in the bucket is tied to what it granted. `BooksBalance` is that strengthening. `Accounted`
  says granted plus left fits the budget up to the stamp of the last attempt, where the budget counts
  bursts lost to restarts and time that was rewound by late attempts; with it every stamp is at most
  `now + MaxSkew`. The proof has a lemma per action; the arithmetic (a booking keeps an account, an
  expired bucket counts as refilled for its lifetime, which is where `TtlAssumption` enters: 240
  tokens at 4 per second take 60 seconds) comes first.
  `OneLimitForAllPods` is the global limit without the terms for what goes wrong: if clocks agree and
  commands are not late (`MaxSkew = 0`, `MaxDelay = 0`) a session gets its burst, once more per life of
  Redis, and the refill of the time since. It needs one more invariant, `OnTime`: a command under way
  that can still run is stamped with the present tick, so that nothing was ever rewound, and a key
  expires a whole lifetime after its last attempt. `quota_reorder` shows that the assumption is needed.
  `RetryHonestAlways`: the hint is the least time after which the refill covers what was missing (`CeilDivCovers`).
  `CallTakesAtMostItsCostAlways`: each step books at most one call, in one bucket.
  `FailClosedAlways` compares two sums: what calls in flight and finished calls have taken, and what the
  buckets of Redis and of all pods have granted. Sums over pods and calls need induction over finite sets; the proof counts
  units instead (`UnitsAre`): every granted token is a member of a set, and a step adds a block of them
  to both sides or moves one (`Balances`).
* **Breaker** (`PodProofs`): `CoherentAlways` and `KeepsPolicyAlways`. `TypeOK /\ Coherent`
  is inductive. The refinement needs it where a failure opens the breaker: in HalfOpen the counter is
  not touched, and only `Coherent` says it already stands at the threshold.
* **Single flight** (`PodProofs`): `FreshOrRacedAlways`, `LoadsAreNeededAlways`. Neither is inductive: that a value told is
  new enough rests on what the loader read, and that is known only while the loader runs. `WarmInv` follows a
  value from the read to the cache and to the caller (`NewEnough`, `HeldFresh`, `ToldFresh`), says that a flight has one
  task and nothing is held meanwhile (`OneFlight`), and counts a held entry as the load that is not yet
  removed (`Counted`).
* **Scratchpad** (`PodProofs`): `KeepsApartAlways`, the refinement of `PrivatePads`. It rests on one fact, `KeysApart`: keys are equal only
  if tenant, session and name are. A key joins its parts with a separator no part contains, and
  `SplitAtSeparator` cuts it at the first one in just one way. The pad of a session is what the store holds under
  the keys that read as its own, so it stays as it is when another session writes.
* **Long documents** (`PodProofs`): `WalkIsWholeAlways`, for acts and pages of any length. `WalkInv` says where a walk stands that
  the cache was not made to forget: it has read the pages before the one it asks for, there is more
  (`OnItsWay`), and at its end it has all (`AtItsEnd`); `CopyReads` is about the client's copy. A page added to the pages before it
  is `Continues`. `UpdatedReads`: taking up what differs makes a copy read as the new text, in whatever order the
  articles are listed (`AnyOrderReads`). The induction over lines is had from least counterexamples
  (`LeastOf`), since the well-foundedness of the naturals can be cited and induction theorems cannot.
* **Corpus** (`CorpusProofs`): `KeepsHistoryAlways`, the refinement of `CorpusHistory`, and `NeverRegressesAlways`. `StoreInv` says that a resource being
  appended is incomplete and belongs to one writer: therefore each insert but the last is a stutter of the history, and
  the last makes the version known once (`InsertLearns`). A query finds just the resources with all five quads
  because the fifth is one of those it asks for (`ReadableWhole`). A dump lists each of them once, so it has
  as many rows of a version as there are (`DumpIsComplete`).
* **Backups** (`CorpusProofs`): `ComesBackAlways`, for texts of any length over any characters. Its invariant `RowsInv` only says what
  a version is made of; the work is about the two directions of the format. `FoldLeft` of the libraries is shown to
  take one step for each character (`FoldSteps`, `FoldMore`), so that `Split` and `backup_unescape` can be reasoned about from the
  left (`SplitMore`, `ReadingMore`). An escaped character is read back whole, and half of one leaves a
  backslash waiting (`ReadOne`): hence what is escaped is read back up to wherever it was cut (`EscapeOf`). No tab
  and no end of a line is within a field (`FieldsAre`), so the parts of a line are its fields (`BodySplit`) and the lines
  of a backup its versions (`SplitEnded`, `LinesOf`). A cut falls into one line (`RowCut`), and a line that was cut
  has five fields only if the cut was within the text (`BodyCut`). No constant needs an assumption.
* **Direct fetch** (`NormReaderProofs`): `KeepsPromiseAlways`, the refinement of `PointInTime`, and `LoadIsPaidAlways`. `ReaderInv` says of a
  handler at work that it asks for one day or two, has not yet got the texts of all of them, and knows the version whose text it
  is about to read (`Progress`). That this version was the right one at a moment since the question is not in the invariant:
  the refinement mapping hands each version on when it is chosen (`found`), and `PointInTime` allows the choice only at that moment. `Budget` counts the questions a handler may still
  send as tokens in a set: queries and downloads sent, and those still open, are at most four for each
  paid call.
* **Key rotation** (`KeyRotationProofs`): `TypeCorrect` and `KeepsTrustAlways`, for any documents and
  tokens. The strengthening `InForce` says that the installed keys are those of the document `level`
  counts, and that a document on its way is not an earlier one: without the second half an
  installation could be a step back, which `KeyTrust` forbids.
* **The client's end of a pod** (`ToolsProofs`): `HandshakeHoldsAlways`, `ListedIsCallableAlways`, `AnswersMatchAlways`, `TrustAsConfiguredAlways`, `LogTellsTheCallAlways`, for
  any environments and messages. The answer is given steps after the credential was looked at, so
  the invariant carries it over: a call being served has a message of its own, its claims are those of its
  token, and it has passed the checks behind it (`CallInv`); whatever was told follows from the
  message it answers (`ToldInv`). `LogTellsTheCallAlways` needs that nothing is told while a call waits, so that an
  answer, also to a call made again word for word, is seen to be one; what the line says is `LogLine`.
* **The tools' end** (`ToolsProofs`): `VersionsAgreeAlways`, `SrNumberDecidedAlways`, `CitationsMirrorAlways`, `PapersOfDraftsAlways`, `HitsLeadBackAlways`, for any facts
  published in any order. `LawInv` keeps the graph finite and its facts typed. Most of the work is in lemmas that
  say what the answer of a query is made of, whatever rows the endpoint chose: `LastDay` (in a finite set of versions there is
  a last one), `KeptOfEachPair`, `DraftsTold`, `PapersTold`. `HitsLeadBack` speaks of answers given before later
  publications; `LeadsBack` is its strengthening, and is kept since a graph only grows (`StillLeadsBack`).

* **AKN documents** (`DocumentProofs`): `DocumentIsTree`, `NothingUnaccountedAlways`, `ShownOnceAlways`, `SignpostsLeadAlways` and
  `ChangesToldAlways`, for documents of any size over any tags. `DocInv` says
  that nodes are well-formed and stand in document order (`InDocumentOrder`): a parser adds a node only below an element that is still
  open. The rest follows from the shape of the arena alone. `SubtreeIs` and `AncestryIs` say that a subtree, which the code reads as
  a stretch of the arena, is what has the node among its ancestors, and `Nested` that two subtrees are one within the other or
  disjoint. `Ancestry`, `Reached` and `Way` are recursive: that such a function exists is shown by writing its values down, and
  what they are by the least (or last) node where they would differ.
  The paths of chunks need more: that all the folds of `Chunking` end, and that what they are made of stands in the body. `InOrderIs`,
  `FlattenTyped` and `FoldTyped` say so of nodes in order, sequences laid end to end and folds of any step that keeps a kind
  (`FoldExists` builds the fold place by place); `PackedIs`, `TableAwareTyped`, `SourcesTyped` and `PushedIs` take each operator of
  `Chunking` in turn, and `PathsLead` adds them up.
  For `ChangesTold`, an older version `Begins` the document, and subtrees, lookups, the body and the articles of a beginning are those
  of the document cut off at its end (`SubtreeBegins` and the lemmas after it).
  The attempt found places where the properties, as TLC had checked them, were true of small documents only. An element that is
  a note itself, or lies in an island, shares its text with it. A number or heading that holds elements of
  the hierarchy is shown as a whole and those elements again. A quotation in a footnote of a modification is not in the text of the modification.
  An act that does not name its work cannot be read by eId, whatever its outline hands out. A comparison tells nothing of articles outside
  of the body, and an act with both a `body` and a `mainBody` may change which of them that is. The properties now name these as
  exceptions, each for the conjunct it breaks.
* **Chunks** (`ChunkProofs`): `ChunkedOnceAlways`, `PartsFitAlways`, `RowsWholeAlways` and `ChunksCiteAlways`, for documents of any size,
  any nesting of articles, tables and components, and any threshold. `DocInv` is again all that is needed of the state; the work is in
  what a document is cut into, from the inside out:
  * `Packed` and `Pushed` are folds, so each has a claim about its steps: a group under way is made of items of its own, in their order,
    and another item joins it only if there is room (`PackedMade`); each chunk is made of one piece, and `id` counts those before it
    (`PushedHolds`). `Size` is a sum over a set, of which `SizeOneMore` and `SizeOfBoth` say what is needed to add the rows of a part up.
  * `TablePartsAre`: the parts of a table each repeat its head, and share the outermost rows among them. `TableAwareCut`: what is
    cut out of a node is the node, or what is outside of its tables and the tables, whole or in parts. `SourcesAre`: the nodes that
    become chunks hold one another only in the cases `InBoth` names. From the three, `BodyPiecesAre` says that the pieces of a
    document differ in node or suffix and share no text that is not excused.
  * `ChunkedOnce`: two chunks are of one root, and then two of its pieces, or of two roots, one of which is a component inside of the
    other (`ChunksTold`). What is missing is followed down in the same way, from the unit to its pieces and to their rows (`UnitVanish`,
    `NodeVanish`, `TableVanish`).
  * `PartsFit`: `PartFits` compares what the loop measured, the head and rows of a part with a newline each, with the rows the property sees,
    which are only the outermost ones that have text (`OneOutermost`, `BelowOutermost`).
  * `RowsWhole`: a piece that has text of a row has the row, or is a part that has the row among its items (`PieceHasRow`, `PieceHasHead`).
  * `ChunksCite`: a chunk_id is put together from eli, position or eId, and suffix, each of which tells two pieces apart (`ChunkIdIs`, `IdsDiffer`); the
    element a chunk names is found again, with nothing else of that eId, and holds each of its texts (`Cited`, `CutHolds`).

  Here, too, TLC had checked properties that are true of small documents only. A text may be in two chunks also if a component stands inside
  another, or a row or paragraph is part of another. A row need not be whole if an article or a `mod` stands in it, for then that is a source of its own.
  A table in which an element is a chunk by itself, or whose rows stand in a note of it, need not have its head in each part. Two components of
  one work give the same chunk_id twice. A text of a table that stands in a change note is not text of the element the chunk cites, only
  of the table. The properties now name these cases.

Assumptions: `DocumentsAssumption` (documents are sequences of keys), `ParamsAssumption` (bursts and
rates are natural numbers with common bounds), `SetsAssumption`, `BoundsAssumption`, `TtlAssumption`,
`ConfigAssumption` (a positive cooldown), `FromAssumption` and `RequestsAssumption` (requests of the reader have a known language,
and days that may be missing), `TextAssumption` (claims and names are text), `ActsAssumption` (lines of acts are text), `WarmKeysAssumption`, `DraftsAssumption` (days and times are
natural numbers), `FactsAssumption` (what Fedlex publishes is finite, and dates are dates), `CorporaAssumption` (a document begins in document order, with tags of its kind, and its root is no element of the hierarchy), `ThresholdsAssumption` (the two limits of `chunking.rs` and `components.rs` are natural numbers), and `NoneAssumption`,
`UnboundAssumption`: the model value that stands for a missing value is no value. TLC evaluates each in a passing run.

`TypeOK` and `Coherent` are proved and therefore not among what the runs check.

Only model-checked:

* Liveness (`RecoversWhenHealthy`, `FollowsProvider`, `NobodyWaitsForever`, `ToldInTime`, `RoutedAsReady`), which is out of the prover's
  reach.

Every invariant the runs check is also a theorem.

## 7. Where code and documents part

* `fedlex-store/token_bucket.rs:68`: an attempt that was overtaken sets the stamp of the bucket back.
  A session whose calls are stamped by several pods, or delayed, gets the time between the stamps
  twice. `GlobalLimit` says what still holds.
* `mcp-reader/circuit_breaker.rs:105`: HalfOpen admits every caller until the first answer, not one.
* `fedlex-store/oxigraph_corpus.rs:171`: `contains_version` holds for a version that is only partly
  inserted; a writer that retries after an error skips it.
* `mcp-reader/main.rs:76`: "today" is the day the pod was started.
* `fedlex-jolux/temporal.rs:33`: a version without XML in the language is passed over, and the one
  before it is returned under the day of the request.

The properties also name, as exceptions or in their hypotheses, what the code leaves open on purpose or at
least visibly.

Documents:
* An article split into its paragraphs loses what stands between them (`chunking.rs:137`), an oversized table
  what is outside of its rows. A table that has a head and nothing else, and is too long, is in no chunk.
* A body without a known pattern is chunked by its `<p>`, those of footnotes included (`chunking.rs:171`). An
  act that quotes whole articles in its amendments is classified as `FlatArticles` (`doc.rs`), so its chunks
  are the quoted articles.
* `get_readable_document` shows an element that has others below it by its number and heading only: an
  introductory sentence between the heading and the first paragraph does not appear, nor does the text of
  a body without hierarchy elements.
* `extract_tables` drops the `td` of a first row that has `th`, and the `th` of later rows; the rows of a table
  within a table are given twice (`special.rs`). `get_modifications` keeps the first `quotedStructure` of
  a `mod` (`modifications.rs:39`).
* `compare_versions` is silent about text outside of articles, about all but the first article of an eId, and
  about a whole version whose structure cannot be read: `article_texts` turns that error into no articles
  (`tools.rs:589`).
* `search_text` cuts its snippets by positions found in the lower-cased text (`text.rs:154`); letters whose
  lower case is longer would shift them. Characters are not modelled there.

Fedlex queries:
* `list_versions` ends after 200 rows in ascending order (`temporal.rs:84`): of an act with more, the newest are
  missing. `get_drafts` counts a row per result (`genesis.rs:28`), so the last draft may be told in part.
* An act is recognised by how its URI begins (`impacts.rs:29`, `citations.rs:39`, `genesis.rs:152`): the changes of
  `.../2017/762` include those of `.../2017/7621`. `get_article_history` looks for the eId anywhere in the
  URI (`impacts.rs:81`): `art_1` also finds `art_10`.
* Most tools answer an act nobody knows by an empty list with the provenance of a norm, not by `NotFound`.
* `get_treaty_info` promises `NotFound` for a node without predicates of a treaty (`treaties.rs:40`), but a query of
  OPTIONAL clauses alone always has a row, so the answer is a treaty without any data.

Pods:
* A load that an invalidation meets under way is stored after it and stays (`warmup.rs:99`); `raced` in
  `FreshOrRaced` is this case.
* `readyz` is 503 while Redis or Fedlex is away, for all pods together, although each could still answer some
  calls by its fallback (`health.rs:94`). `RoutedAsReady` states it as it is.
* The keys of the scratchpad, of the quota and of the probe have no prefix that keeps them apart (`key.rs:110`,
  `quota.rs:131`): a tenant named `quota` would have keys of the same spelling. `KeepsApart` is about the
  scratchpad alone; the reader does not write it yet.
* A backup that was cut off within its last text is restored with that text shortened, without an error
  (`oxigraph_corpus.rs:316`). `ComesBack` says that this is all that can happen.

## 8. Not modelled

* The semantic client: one request with a deadline and a check of the vector that comes back, without state and
  not wired into the server.
* The day and secret types of `fedlex-core`: conversions of text. The telemetry scrubber is modelled for the one
  use it has, the audit line (`Service`), without the duration.
* Of `fedlex-akn`: FRBR fields other than the work, `parse_unlinked_ref`, the cutting of snippets and the
  normalisation of blanks. They are about single characters.
* `version_count` of the corpus, a count over a pattern that `contains_version` has.
* Wiring: axum's router, CORS, the SSE frames, certificates (`Startup` knows whether a file is one).
* Libraries: the engine that evaluates SPARQL, `jsonwebtoken`, moka and tokio beyond what the models name
  external, Redis beyond one script run at a time.

## 9. Plan

Done, in this order: `TokenBucket` and `Quota` with proofs; `BreakerPolicy` and `CircuitBreaker` with
proofs; `CorpusHistory` and `Corpus`; `PointInTime` and `NormReader`; `KeyTrust` and `KeyRotation` with
proofs; `AknDocument`, `AknText` and `Chunking`; then `WarmCache`, `XmlEngine`, `Scratchpad`, `Sandbox` and
`Readiness`; `BackupFormat`; `LegalGraph`, `JoluxQueries` and `LawTools`; `ToolContract`,
`Startup` and `Service`; `AknOutline`.

Then the proofs: the quota's payments and hints, `WarmCache`, `Scratchpad`, `NormReader`, `Service`, `LawTools`,
`Corpus`, `XmlEngine`, `AknText`, `AknOutline`, `Chunking` and `BackupFormat`, in this order.

Left is one thing: what `CorpusHistory`, `PointInTime` and `PrivatePads` each promise in one sentence, as an invariant of the
abstract specification itself.

The tools of `LocalNavigation` ask the live endpoint for the version once per call, although `tool.rs`
describes the pool as navigation in the local cache; `NormReader` models what they do.
