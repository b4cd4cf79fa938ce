------------------------------- MODULE Service -------------------------------
(***************************************************************************)
(* A pod of mcp-reader as a client meets it (transport.rs, app.rs): POST   *)
(* /rpc and /mcp, GET /sse, and behind them McpService::handle.  A pod is  *)
(* started with an environment, answers, and is at any time replaced by    *)
(* one with another environment; the client keeps what it was told.        *)
(*                                                                         *)
(* A call is cut where the handler awaits: the quota and the tool.  What   *)
(* these decide is left open, within the weight and the bucket (Quota) and *)
(* the outcomes of a tool (NormReader, LawTools).                          *)
(***************************************************************************)
EXTENDS Startup, ToolContract

CONSTANTS
    Environments,
    Redeployed,     \* those a pod is replaced with
    Kids,           \* those a JWKS document may name
    Messages,       \* the requests of the client
    Days,           \* as_of that parse
    Sources         \* ELIs of norms that tools answer about

VARIABLES
    pod,    \* the pod that runs, or none
    env,    \* what it was started with
    keys,   \* the kids its resolver knows
    call,   \* the call it works on
    told,   \* its last answer, until a call is under way
    agreed, \* the client: the version negotiated last
    listed, \* and the tools it was last shown, with the token it showed
    log     \* the line the last step wrote to the audit log

vars == <<pod, env, keys, call, told, agreed, listed, log>>

Absent == "absent"      \* a field `id` that is missing, which null is not
Idle == [pc |-> "idle"]
Nothing == [status |-> 0, id |-> none, kind |-> "nothing"]

\* The result is told apart for tools only.
Answer(status, id, kind, m) == [status |-> status, id |-> id, kind |-> kind, m |-> m, result |-> none]

Start(e) ==
    /\ env' = e /\ pod' = Pod(e) /\ keys' = {}
    /\ call' = Idle /\ log' = Nothing

Init ==
    /\ \E e \in Environments : env = e /\ pod = Pod(e)
    /\ keys = {} /\ call = Idle /\ log = Nothing
    /\ told = Nothing /\ agreed = none /\ listed = [by |-> none, tools |-> {}]

Restart == \E e \in Redeployed : Start(e) /\ UNCHANGED <<told, agreed, listed>>

\* spawn_jwks_refresher installs a document (KeyRotation).
InstallJwks(k) ==
    /\ pod # none /\ pod.mode = "jwks"
    /\ keys' = k
    /\ log' = Nothing
    /\ UNCHANGED <<pod, env, call, told, agreed, listed>>

-----------------------------------------------------------------------------
(* rpc_handler and mcp_handler up to handle.                                 *)

Serves == pod # none /\ call = Idle

\* Mutant of is_notification: null is taken for a missing id.
NoId(m) == m.id \in {Absent, none}

is_notification(m) == m.id = Absent

\* mcp_handler looks at the origin first, then at the version.
Guarded(m) ==
    CASE m.path = "/mcp" /\ ForbiddenOrigin(m.origin, pod.origins) -> 403
      [] m.path = "/mcp" /\ ~ForbiddenOrigin(m.origin, pod.origins) /\ UnsupportedVersion(m.version) -> 400
      [] OTHER -> 200

\* What the handler answers before it reads a method.
Turned(m) ==
    LET status == Guarded(m)
    IN  CASE status # 200                    -> Answer(status, none, "guard", m)
          [] status = 200 /\ ~m.parses       -> Answer(200, "null", "parse_error", m)
          [] status = 200 /\ m.parses /\ is_notification(m) -> Answer(202, none, "accepted", m)
          [] OTHER                           -> none

\* response_id: null for a null, the value otherwise.
response_id(m) == IF m.id \in {Absent, none} THEN "null" ELSE m.id

ClaimsOf(m) ==
    LET token == bearer(m.authorization) IN IF token = none THEN none ELSE verify(pod.mode, keys, token)

Tell(m, kind) == told' = Answer(200, response_id(m), kind, m)

\* The message is answered at once: by a guard, or for want of an identity.
TurnedAway(m) ==
    /\ Serves
    /\ IF Turned(m) # none THEN told' = Turned(m) ELSE ClaimsOf(m) = none /\ Tell(m, "unauthorized")
    /\ log' = Nothing
    /\ UNCHANGED <<pod, env, keys, call, agreed, listed>>

Handles(m, method) == Serves /\ m.method = method /\ Turned(m) = none /\ ClaimsOf(m) # none

Initialize(m) ==
    /\ Handles(m, "initialize")
    /\ agreed' = negotiate(m.asks, pod.default)
    /\ Tell(m, "initialized")
    /\ log' = Nothing
    /\ UNCHANGED <<pod, env, keys, call, listed>>

\* ping, and notifications/initialized sent as a request.
Ping(m) ==
    /\ \E method \in {"ping", "notifications/initialized"} : Handles(m, method)
    /\ Tell(m, "empty")
    /\ log' = Nothing
    /\ UNCHANGED <<pod, env, keys, call, agreed, listed>>

ToolsList(m) ==
    /\ Handles(m, "tools/list")
    /\ listed' = [by |-> m.authorization, tools |-> list_tools(ClaimsOf(m).role)]
    /\ Tell(m, "list")
    /\ log' = Nothing
    /\ UNCHANGED <<pod, env, keys, call, agreed>>

UnknownMethod(m) ==
    /\ m.method \notin {"initialize", "ping", "notifications/initialized", "tools/list", "tools/call"}
    /\ Handles(m, m.method)
    /\ Tell(m, "unknown_method")
    /\ log' = Nothing
    /\ UNCHANGED <<pod, env, keys, call, agreed, listed>>

-----------------------------------------------------------------------------
(* tools/call.                                                              *)

\* The name and its weight are known; the quota is awaited.
ToolsCall(m) ==
    /\ Handles(m, "tools/call")
    /\ \/ m.name = none /\ Tell(m, "no_name") /\ UNCHANGED call
       \/ /\ m.name # none
          /\ call' = [pc |-> "quota", m |-> m, claims |-> ClaimsOf(m), cost |-> cost_weight(m.name)]
          /\ told' = Nothing
    /\ log' = Nothing
    /\ UNCHANGED <<pod, env, keys, agreed, listed>>

\* check_weighted refuses, alone or by its fallback.
Denied ==
    /\ call.pc = "quota"
    /\ Tell(call.m, "rate_limit") /\ call' = Idle
    /\ log' = Nothing
    /\ UNCHANGED <<pod, env, keys, agreed, listed>>

Affordable == call.cost <= capacity_of(call.claims.role) /\ call.cost <= fallback_capacity

\* What dispatch returns: Response of a tool, what it found with its provenance,
\* or the envelope of graceful, whose error is the kind of the answer here.
Response(eli, day) == [data |-> "found", provenance |-> [eli |-> eli, valid_as_of |-> day]]
graceful(error) == [error |-> error]

\* AttributeAllowlist::baseline
baseline ==
    {"tool.name", "tool.pool", "auth.role", "provenance.eli", "provenance.valid_as_of",
     "http.status", "span.duration_ms", "outcome"}

\* call_log_scrubber: the baseline and the pseudonyms of the claim.
call_log_scrubber == baseline \cup {"auth.tenant", "auth.session"}

REDACTED == none

\* SpanScrubber::scrub keeps the name of an attribute, and its value if permitted.
Scrubbed(span) == [a \in DOMAIN span |-> IF a \in call_log_scrubber THEN span[a] ELSE REDACTED]

\* prov of call_log_line
prov(result, key) == IF "provenance" \in DOMAIN result THEN result.provenance[key] ELSE "-"

Attributes ==
    {"tool.name", "auth.role", "auth.tenant", "auth.session", "provenance.eli", "provenance.valid_as_of", "outcome"}

\* Mutant of call_log_line: the norm is the one that was asked for.
EliAsAsked(c, result) ==
    Scrubbed([a \in Attributes |->
        CASE a = "tool.name"    -> c.m.name
          [] a = "auth.role"    -> c.claims.role
          [] a = "auth.tenant"  -> c.claims.tenant
          [] a = "auth.session" -> c.claims.session
          [] a = "provenance.eli" -> IF "provenance" \in DOMAIN result THEN c.m.arguments ELSE "-"
          [] a = "provenance.valid_as_of" -> prov(result, "valid_as_of")
          [] a = "outcome"      -> IF "error" \in DOMAIN result THEN "error" ELSE "ok"])

\* The duration is left out: there is no time here.
call_log_line(c, result) ==
    Scrubbed([a \in Attributes |->
        CASE a = "tool.name"    -> c.m.name
          [] a = "auth.role"    -> c.claims.role
          [] a = "auth.tenant"  -> c.claims.tenant
          [] a = "auth.session" -> c.claims.session
          [] a = "provenance.eli" -> prov(result, "eli")
          [] a = "provenance.valid_as_of" -> prov(result, "valid_as_of")
          [] a = "outcome"      -> IF "error" \in DOMAIN result THEN "error" ELSE "ok"])

\* The answer of a call that was dispatched is its result, and is logged.
Dispatched(c, kind, result) ==
    /\ told' = [Answer(200, response_id(c.m), kind, c.m) EXCEPT !.result = result]
    /\ call' = Idle
    /\ log' = call_log_line(c, result)

(* The quota admits: as_of is read, the stamp set, and the tool awaited, or  *)
(* its name or the role refused by dispatch.                                 *)
Admitted ==
    /\ call.pc = "quota" /\ Affordable
    /\ LET m       == call.m
           stamped == [pc |-> "tool", m |-> m, claims |-> call.claims, cost |-> call.cost,
                       day |-> IF m.as_of = none THEN "default" ELSE m.as_of]
           refusal == Refusal(call.claims.role, m.name)
       IN  \/ /\ m.as_of \notin Days \cup {none}
              /\ Tell(m, "bad_day") /\ call' = Idle /\ log' = Nothing
           \/ /\ m.as_of \in Days \cup {none} /\ refusal # "none"
              /\ Dispatched(stamped, refusal, graceful(refusal))
           \/ /\ m.as_of \in Days \cup {none} /\ refusal = "none"
              /\ call' = stamped /\ log' = Nothing /\ UNCHANGED told
    /\ UNCHANGED <<pod, env, keys, agreed, listed>>

\* execute returns; a failure is an answer like any other. The provenance has the
\* day of the stamp, and an ELI that the tool made of its arguments or has found.
Executed(kind) ==
    /\ call.pc = "tool"
    /\ \/ kind = "ok" /\ \E eli \in Sources : Dispatched(call, kind, Response(eli, call.day))
       \/ kind = "failed" /\ Dispatched(call, kind, graceful(kind))
    /\ UNCHANGED <<pod, env, keys, agreed, listed>>

Next ==
    \/ Restart
    \/ \E k \in SUBSET Kids : InstallJwks(k)
    \/ \E m \in Messages :
           TurnedAway(m) \/ Initialize(m) \/ Ping(m) \/ ToolsList(m) \/ UnknownMethod(m) \/ ToolsCall(m)
    \/ Denied \/ Admitted
    \/ \E kind \in {"ok", "failed"} : Executed(kind)

Spec == Init /\ [][Next]_vars

-----------------------------------------------------------------------------
(* Properties.                                                              *)

Outcomes == {"ok", "failed", "unknown_tool", "not_permitted"}
Permitted ==
    {"auth.tenant", "auth.session", "auth.role", "tool.name", "outcome",
     "provenance.eli", "provenance.valid_as_of"}

(* A version agreed on in initialize is never turned away as a header        *)
(* afterwards, also not by the next pod, whatever default or header its      *)
(* environment names; the two levels have different fallbacks                *)
(* (negotiate, classify_protocol_header).                                    *)
HandshakeHolds ==
    told.status = 400 => agreed = none \/ Trimmed(Readable(told.m.version)) # <<agreed>>

(* A tool shown to a token can be called with that token: the name and the   *)
(* role are not refused, and every bucket the call may be taken from, that   *)
(* of the role and the fallback of a pod alone, holds its weight             *)
(* (list_tools, dispatch, cost_weight, fallback_params).                     *)
ListedIsCallable ==
    /\ told.kind \in {"unknown_tool", "not_permitted"} =>
           listed.by # told.m.authorization \/ told.m.name \notin listed.tools
    /\ call.pc = "quota" /\ listed.by = call.m.authorization /\ call.m.name \in listed.tools => Affordable

(* A message that is let in and can be read is answered by its kind: one with *)
(* an id, null included, is never merely accepted but gets an envelope with  *)
(* that id; one without gets no envelope, is accepted on the spot and never  *)
(* becomes a call that is charged, run or logged (is_notification).          *)
AnswersMatch ==
    /\ told.kind \notin {"nothing", "guard", "parse_error"} =>
           IF told.m.id = Absent THEN told.status = 202 /\ told.id = none
           ELSE told.status = 200 /\ told.id = IF told.m.id = none THEN "null" ELSE told.m.id
    /\ call # Idle => call.m.id # Absent

(* Nothing set for the outside world weakens what was set for it: with any   *)
(* JWT setting the token for development is worth nothing, a JWT setting     *)
(* without issuer and certificates without TLS stop the start, and an empty  *)
(* environment lets nobody in (build_auth_resolver, build_quota_backend).    *)
TrustAsConfigured ==
    LET jwt == {env.jwks, env.hs256, env.rs256} # {none}
    IN  /\ pod # none =>
               /\ jwt => env.issuer # none
               /\ {env.ca, env.cert, env.key} # {none} => pod.link = "mtls" /\ env.scheme = "rediss"
        /\ call # Idle =>
               /\ jwt => bearer(call.m.authorization).kind # "dev"
               /\ ~jwt => env.dev # none

(* A call that reached dispatch, and no other step, leaves a line, also when *)
(* the same call is made again. The line names the tenant, the session and   *)
(* the role of its token, the tool, how it ended, and the norm and the day   *)
(* the client is told about, or a dash for each if there is none; whatever   *)
(* else that was asked or answered may be in it is blanked (call_log_line,   *)
(* call_log_scrubber).                                                       *)
LogTellsTheCall ==
    [][IF call # Idle /\ call' = Idle /\ told'.kind \in Outcomes
       THEN LET found == told'.kind = "ok"
            IN  /\ log'["auth.tenant"] = call.claims.tenant /\ log'["auth.session"] = call.claims.session
                /\ log'["auth.role"] = call.claims.role /\ log'["tool.name"] = call.m.name
                /\ log'["outcome"] = IF found THEN "ok" ELSE "error"
                /\ log'["provenance.eli"] = IF found THEN told'.result.provenance.eli ELSE "-"
                /\ log'["provenance.valid_as_of"] = IF found THEN told'.result.provenance.valid_as_of ELSE "-"
                /\ \A a \in DOMAIN log' \ Permitted : log'[a] = REDACTED
       ELSE log' = Nothing]_vars
=============================================================================
