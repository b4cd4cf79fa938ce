----------------------------- MODULE ToolsProofs ------------------------------
(***************************************************************************)
(* The properties of the protocol and of the law tools, for every graph,   *)
(* environment, set of requests and set of messages the assumptions of     *)
(* Tools and LawTools allow.                                               *)
(*                                                                         *)
(* The protocol rests on ServiceInv: what a call keeps while it waits      *)
(* (CallInv) is still what its token, its name and the environment of the  *)
(* pod say, and the last answer (ToldInv) is the one its message wants;    *)
(* there is none while a call waits.                                       *)
(* The law tools rest on LawInv, that whatever was published the graph is  *)
(* finite and its dates are numbers (GraphOk), and on lemmas about the     *)
(* queries: what each of them selects of any graph.                        *)
(***************************************************************************)
EXTENDS Tools, SequenceTheorems, FiniteSetTheorems, TLAPS

\* What a token says of the role of its bearer, to any resolver that takes it.
RoleOf(token) == IF token.kind = "dev" THEN "Validator" ELSE Svc!role_from_claim(token.role)
Token(m) == Svc!bearer(m.authorization)

Jwt == {"jwks", "hs256", "rs256"}

LEMMA Recognized ==
    ASSUME NEW m, Svc!ClaimsOf(m) # none
    PROVE  /\ Token(m) # none
           /\ Svc!ClaimsOf(m).role = RoleOf(Token(m)) /\ RoleOf(Token(m)) \in Svc!Roles
           /\ \/ pod.mode = "dev" /\ Token(m).kind = "dev"
              \/ pod.mode \in Jwt /\ Token(m).kind = pod.mode
  <1> DEFINE token == Token(m)
  <1>1. token # none /\ Svc!ClaimsOf(m) = Svc!verify(pod.mode, keys, token)
    BY DEF Svc!ClaimsOf, Token
  <1> HIDE DEF token
  <1>2. CASE pod.mode = "dev" /\ token.kind = "dev"
    BY <1>1, <1>2 DEF Svc!verify, RoleOf, Svc!Roles, token
  <1>3. CASE ~(pod.mode = "dev" /\ token.kind = "dev")
    <2>1. /\ pod.mode \in Jwt /\ token.kind = pod.mode /\ Svc!role_from_claim(token.role) # none
          /\ Svc!ClaimsOf(m).role = Svc!role_from_claim(token.role)
      BY <1>1, <1>3 DEF Svc!verify, Jwt
    <2> QED BY <1>1, <2>1 DEF RoleOf, Svc!Roles, token, Jwt, Svc!role_from_claim
  <1> QED BY <1>2, <1>3

(* The line of a call: its values are the permitted ones, or blanked.        *)
LEMMA LogLine ==
    ASSUME NEW c, NEW result
    PROVE  LET line == Svc!call_log_line(c, result)
           IN  /\ line["auth.tenant"] = c.claims.tenant /\ line["auth.session"] = c.claims.session
               /\ line["auth.role"] = c.claims.role /\ line["tool.name"] = c.m.name
               /\ line["outcome"] = IF "error" \in DOMAIN result THEN "error" ELSE "ok"
               /\ line["provenance.eli"] = Svc!prov(result, "eli")
               /\ line["provenance.valid_as_of"] = Svc!prov(result, "valid_as_of")
               /\ \A a \in DOMAIN line \ Svc!Permitted : line[a] = Svc!REDACTED
  <1> DEFINE line == Svc!call_log_line(c, result)
  <1>1. DOMAIN line = Svc!Attributes /\ Svc!Attributes = Svc!Permitted
    BY DEF Svc!call_log_line, Svc!Scrubbed, Svc!Attributes, Svc!Permitted
  <1>2. Svc!Attributes \subseteq Svc!call_log_scrubber
    BY DEF Svc!Attributes, Svc!call_log_scrubber, Svc!baseline
  <1>3. /\ line["auth.tenant"] = c.claims.tenant /\ line["auth.session"] = c.claims.session
        /\ line["auth.role"] = c.claims.role /\ line["tool.name"] = c.m.name
    BY <1>2 DEF Svc!call_log_line, Svc!Scrubbed, Svc!Attributes
  <1>4. /\ line["outcome"] = IF "error" \in DOMAIN result THEN "error" ELSE "ok"
        /\ line["provenance.eli"] = Svc!prov(result, "eli")
        /\ line["provenance.valid_as_of"] = Svc!prov(result, "valid_as_of")
    BY <1>2 DEF Svc!call_log_line, Svc!Scrubbed, Svc!Attributes
  <1> HIDE DEF line
  <1> QED BY <1>1, <1>3, <1>4 DEF line

-----------------------------------------------------------------------------
Supported == ToSet(Svc!SUPPORTED_PROTOCOL_VERSIONS)

CallInv(c) ==
    /\ c.pc \in {"quota", "tool"}
    /\ c.m.id # Svc!Absent
    /\ c.claims.role = RoleOf(Token(c.m)) /\ c.claims.role \in Svc!Roles
    /\ c.cost = Svc!cost_weight(c.m.name)
    /\ pod # none
    /\ \/ pod.mode = "dev" /\ Token(c.m).kind = "dev"
       \/ pod.mode \in Jwt /\ Token(c.m).kind = pod.mode

Addressed(t) ==
    t.kind \notin {"nothing", "guard", "parse_error"} =>
        /\ t.m.id = Svc!Absent => t.status = 202 /\ t.id = none
        /\ t.m.id # Svc!Absent => t.status = 200
        /\ t.m.id # Svc!Absent /\ t.m.id = none => t.id = "null"
        /\ t.m.id # Svc!Absent /\ t.m.id # none => t.id = t.m.id

ToldInv(t) ==
    /\ t.status = 400 => Svc!UnsupportedVersion(t.m.version)
    /\ t.kind \in {"unknown_tool", "not_permitted"} =>
           Svc!Refusal(RoleOf(Token(t.m)), t.m.name) = t.kind
    /\ Addressed(t)

ListedInv(l) == l.tools # {} => l.tools = Svc!list_tools(RoleOf(Svc!bearer(l.by)))

ServiceInv ==
    /\ pod = Svc!Pod(env)
    /\ agreed \in {none} \cup Supported
    /\ ToldInv(told)
    /\ ListedInv(listed)
    /\ serving # Svc!Idle => CallInv(serving) /\ told = Svc!Nothing

LEMMA Negotiated ==
    /\ \A s : Svc!default_protocol_version(s) \in Supported
    /\ \A v, d : d \in Supported => Svc!negotiate(v, d) \in Supported
  <1>1. {"2024-11-05", "2025-11-25"} \subseteq Supported
    BY DEF Supported, Svc!SUPPORTED_PROTOCOL_VERSIONS, ToSet
  <1>2. Svc!highest_supported = "2025-11-25"
    BY DEF Svc!highest_supported, Svc!SUPPORTED_PROTOCOL_VERSIONS, Svc!Last
  <1>3. \A v : Svc!is_supported(v) => v \in Supported
    BY DEF Svc!is_supported, Svc!ToSet, Supported, ToSet
  <1>4. ASSUME NEW s PROVE Svc!default_protocol_version(s) \in Supported
    BY <1>1, <1>3 DEF Svc!default_protocol_version, Svc!DEFAULT_PROTOCOL_VERSION
  <1>5. ASSUME NEW v, NEW d, d \in Supported PROVE Svc!negotiate(v, d) \in Supported
    BY <1>1, <1>2, <1>3, <1>5 DEF Svc!negotiate
  <1> QED BY <1>4, <1>5

LEMMA DefaultSupported ==
    ASSUME NEW e, Svc!Pod(e) # none PROVE Svc!Pod(e).default \in Supported
  BY Negotiated DEF Svc!Pod

LEMMA AnswerFields ==
    ASSUME NEW s, NEW i, NEW k, NEW m
    PROVE  LET t == Svc!Answer(s, i, k, m) IN t.status = s /\ t.id = i /\ t.kind = k /\ t.m = m
  BY DEF Svc!Answer

LEMMA AnswerIsSome ==
    ASSUME NEW s \in {200, 202, 400, 403}, NEW i \in {none, "null"},
           NEW k \in {"guard", "parse_error", "accepted"}, NEW m \in Messages
    PROVE  Svc!Answer(s, i, k, m) # none
  <1>1. Svc!Answer(s, i, k, m) \in
            [status : {200, 202, 400, 403}, id : {none, "null"},
             kind : {"guard", "parse_error", "accepted"}, m : Messages, result : {none}]
    BY DEF Svc!Answer
  <1> QED BY <1>1, NoneAssumption

(* What is answered before a method is read.                                 *)
LEMMA TurnedTold ==
    ASSUME NEW m \in Messages
    PROVE  /\ Svc!Turned(m) # none => ToldInv(Svc!Turned(m))
           /\ Svc!Turned(m) = none => m.id # Svc!Absent
  <1> DEFINE t == Svc!Turned(m)
  <1>1. CASE Svc!Guarded(m) # 200
    <2>1. t = Svc!Answer(Svc!Guarded(m), none, "guard", m)
      BY <1>1 DEF Svc!Turned
    <2>2. Svc!Guarded(m) \in {400, 403} /\ (Svc!Guarded(m) = 400 => Svc!UnsupportedVersion(m.version))
      BY <1>1 DEF Svc!Guarded
    <2>3. t # none
      BY <2>1, <2>2, AnswerIsSome
    <2>4. ToldInv(t)
      BY <2>1, <2>2, AnswerFields DEF ToldInv, Addressed
    <2> QED BY <2>3, <2>4
  <1>2. CASE Svc!Guarded(m) = 200 /\ ~m.parses
    <2>1. t = Svc!Answer(200, "null", "parse_error", m)
      BY <1>2 DEF Svc!Turned
    <2>2. t # none
      BY <2>1, AnswerIsSome
    <2>3. ToldInv(t)
      BY <2>1, AnswerFields DEF ToldInv, Addressed
    <2> QED BY <2>2, <2>3
  <1>3. CASE Svc!Guarded(m) = 200 /\ m.parses /\ m.id = Svc!Absent
    <2>1. t = Svc!Answer(202, none, "accepted", m)
      BY <1>3 DEF Svc!Turned, Svc!is_notification
    <2>2. t # none
      BY <2>1, AnswerIsSome
    <2>3. ToldInv(t)
      BY <2>1, <1>3, AnswerFields DEF ToldInv, Addressed
    <2> QED BY <2>2, <2>3
  <1>4. CASE Svc!Guarded(m) = 200 /\ m.parses /\ m.id # Svc!Absent
    BY <1>4 DEF Svc!Turned, Svc!is_notification
  <1> QED BY <1>1, <1>2, <1>3, <1>4

(* An answer in an envelope is addressed to the one who asked.               *)
LEMMA AnswerTold ==
    ASSUME NEW m, NEW kind, NEW t, m.id # Svc!Absent,
           t.status = 200, t.id = Svc!response_id(m), t.kind = kind, t.m = m,
           kind \in {"unknown_tool", "not_permitted"} => Svc!Refusal(RoleOf(Token(m)), m.name) = kind
    PROVE  ToldInv(t)
  <1>1. (m.id = none => t.id = "null") /\ (m.id # none => t.id = m.id)
    BY DEF Svc!response_id
  <1> QED BY <1>1 DEF ToldInv, Addressed

LEMMA DispatchedFields ==
    ASSUME NEW c, NEW kind, NEW result, Svc!Dispatched(c, kind, result)
    PROVE  /\ told'.status = 200 /\ told'.id = Svc!response_id(c.m)
           /\ told'.kind = kind /\ told'.m = c.m /\ told'.result = result
           /\ serving' = Svc!Idle /\ log' = Svc!call_log_line(c, result)
  <1>1. told' = [Svc!Answer(200, Svc!response_id(c.m), kind, c.m) EXCEPT !.result = result]
    BY DEF Svc!Dispatched
  <1>2. /\ told'.status = 200 /\ told'.id = Svc!response_id(c.m)
        /\ told'.kind = kind /\ told'.m = c.m /\ told'.result = result
    BY <1>1 DEF Svc!Answer
  <1> QED BY <1>2 DEF Svc!Dispatched

LEMMA ServiceInit == Svc!Init => ServiceInv
  <1> SUFFICES ASSUME Svc!Init PROVE ServiceInv
    OBVIOUS
  <1>1. PICK e \in Environments : env = e /\ pod = Svc!Pod(e)
    BY DEF Svc!Init
  <1>2. ToldInv(told)
    BY DEF Svc!Init, Svc!Nothing, ToldInv, Addressed
  <1>3. ListedInv(listed)
    BY DEF Svc!Init, ListedInv
  <1> QED BY <1>1, <1>2, <1>3 DEF Svc!Init, ServiceInv

(* An answer to a message that came this far is well addressed, and gives    *)
(* the parts of the state it leaves alone no cause to change.                *)
LEMMA TellTold ==
    ASSUME NEW m, NEW kind, m.id # Svc!Absent, Svc!Tell(m, kind),
           kind \notin {"unknown_tool", "not_permitted"}
    PROVE  ToldInv(told')
  BY AnswerTold, AnswerFields DEF Svc!Tell

LEMMA ServiceRestart == ServiceInv /\ Svc!Restart => ServiceInv'
  <1> SUFFICES ASSUME ServiceInv, NEW e \in Redeployed, Svc!Start(e), UNCHANGED <<told, agreed, listed>>
               PROVE  ServiceInv'
    BY DEF Svc!Restart
  <1> QED BY DEF ServiceInv, Svc!Start, ToldInv, Addressed, ListedInv

LEMMA ServiceInstall ==
    ASSUME ServiceInv, NEW k, Svc!InstallJwks(k) PROVE ServiceInv'
  BY DEF ServiceInv, Svc!InstallJwks, CallInv, Svc!Idle, ToldInv, Addressed, ListedInv

LEMMA ServiceTurnedAway ==
    ASSUME ServiceInv, NEW m \in Messages, Svc!TurnedAway(m) PROVE ServiceInv'
  <1>1. ToldInv(told')
    <2>1. CASE Svc!Turned(m) # none
      BY <2>1, TurnedTold DEF Svc!TurnedAway
    <2>2. CASE Svc!Turned(m) = none
      <3>1. m.id # Svc!Absent /\ Svc!Tell(m, "unauthorized")
        BY <2>2, TurnedTold DEF Svc!TurnedAway
      <3> QED BY <3>1, TellTold
    <2> QED BY <2>1, <2>2
  <1>2. serving' = Svc!Idle
    BY DEF Svc!TurnedAway, Svc!Serves
  <1> QED
    BY <1>1, <1>2 DEF ServiceInv, Svc!TurnedAway, ListedInv

LEMMA ServiceHandles ==
    ASSUME NEW m \in Messages, NEW method, Svc!Handles(m, method)
    PROVE  m.id # Svc!Absent /\ Svc!ClaimsOf(m) # none /\ pod # none /\ serving = Svc!Idle
  BY TurnedTold DEF Svc!Handles, Svc!Serves

LEMMA ServiceInitialize ==
    ASSUME ServiceInv, NEW m \in Messages, Svc!Initialize(m) PROVE ServiceInv'
  <1>1. m.id # Svc!Absent /\ pod # none /\ serving = Svc!Idle
    BY ServiceHandles DEF Svc!Initialize
  <1>2. ToldInv(told')
    BY <1>1, TellTold DEF Svc!Initialize
  <1>3. agreed' \in Supported
    BY <1>1, DefaultSupported, Negotiated DEF Svc!Initialize, ServiceInv
  <1> QED
    BY <1>1, <1>2, <1>3 DEF ServiceInv, Svc!Initialize, ListedInv

LEMMA ServicePing ==
    ASSUME ServiceInv, NEW m \in Messages, Svc!Ping(m) PROVE ServiceInv'
  <1>1. m.id # Svc!Absent /\ serving = Svc!Idle
    BY ServiceHandles DEF Svc!Ping
  <1>2. ToldInv(told')
    BY <1>1, TellTold DEF Svc!Ping
  <1> QED
    BY <1>1, <1>2 DEF ServiceInv, Svc!Ping, ListedInv

LEMMA ServiceUnknownMethod ==
    ASSUME ServiceInv, NEW m \in Messages, Svc!UnknownMethod(m) PROVE ServiceInv'
  <1>1. m.id # Svc!Absent /\ serving = Svc!Idle
    BY ServiceHandles DEF Svc!UnknownMethod
  <1>2. ToldInv(told')
    BY <1>1, TellTold DEF Svc!UnknownMethod
  <1> QED
    BY <1>1, <1>2 DEF ServiceInv, Svc!UnknownMethod, ListedInv

LEMMA ServiceToolsList ==
    ASSUME ServiceInv, NEW m \in Messages, Svc!ToolsList(m) PROVE ServiceInv'
  <1>1. m.id # Svc!Absent /\ Svc!ClaimsOf(m) # none /\ serving = Svc!Idle
    BY ServiceHandles DEF Svc!ToolsList
  <1>2. ToldInv(told')
    BY <1>1, TellTold DEF Svc!ToolsList
  <1>3. listed' = [by |-> m.authorization, tools |-> Svc!list_tools(Svc!ClaimsOf(m).role)]
    BY DEF Svc!ToolsList
  <1>4. Svc!ClaimsOf(m).role = RoleOf(Svc!bearer(m.authorization))
    BY <1>1, Recognized DEF Token
  <1>5. ListedInv(listed')
    BY <1>3, <1>4 DEF ListedInv
  <1> QED
    BY <1>1, <1>2, <1>5 DEF ServiceInv, Svc!ToolsList

LEMMA ServiceToolsCall ==
    ASSUME ServiceInv, NEW m \in Messages, Svc!ToolsCall(m) PROVE ServiceInv'
  <1>1. m.id # Svc!Absent /\ Svc!ClaimsOf(m) # none /\ pod # none /\ serving = Svc!Idle
    BY ServiceHandles DEF Svc!ToolsCall
  <1>2. CASE m.name = none /\ Svc!Tell(m, "no_name") /\ UNCHANGED serving
    <2>1. ToldInv(told')
      BY <1>1, <1>2, TellTold
    <2> QED
      BY <1>1, <1>2, <2>1 DEF ServiceInv, Svc!ToolsCall, ListedInv
  <1>3. CASE /\ serving' = [pc |-> "quota", m |-> m, claims |-> Svc!ClaimsOf(m), cost |-> Svc!cost_weight(m.name)]
             /\ told' = Svc!Nothing
    <2>1. CallInv(serving')
      BY <1>1, <1>3, Recognized DEF CallInv
    <2>2. pod' = pod /\ env' = env /\ agreed' = agreed /\ listed' = listed
      BY DEF Svc!ToolsCall
    <2> QED
      BY <1>3, <2>1, <2>2 DEF ServiceInv, CallInv, ToldInv, Addressed, ListedInv, Svc!Nothing
  <1> QED BY <1>2, <1>3 DEF Svc!ToolsCall

LEMMA ServiceDenied ==
    ASSUME ServiceInv, Svc!Denied PROVE ServiceInv'
  <1>1. serving.m.id # Svc!Absent
    BY DEF ServiceInv, Svc!Denied, CallInv, Svc!Idle
  <1>2. ToldInv(told')
    BY <1>1, TellTold DEF Svc!Denied
  <1> QED
    BY <1>2 DEF ServiceInv, Svc!Denied, ListedInv

LEMMA ServiceAdmitted ==
    ASSUME ServiceInv, Svc!Admitted PROVE ServiceInv'
  <1> DEFINE m == serving.m
             day == IF m.as_of = none THEN "default" ELSE m.as_of
             stamped == [pc |-> "tool", m |-> m, claims |-> serving.claims, cost |-> serving.cost, day |-> day]
             refusal == Svc!Refusal(serving.claims.role, m.name)
  <1>1. CallInv(serving) /\ m.id # Svc!Absent
    BY DEF ServiceInv, Svc!Admitted, CallInv, Svc!Idle
  <1>2. pod' = pod /\ env' = env /\ agreed' = agreed /\ listed' = listed
    BY DEF Svc!Admitted
  <1>3. CASE Svc!Tell(m, "bad_day") /\ serving' = Svc!Idle
    <2>1. ToldInv(told')
      BY <1>1, <1>3, TellTold
    <2> QED BY <1>2, <1>3, <2>1 DEF ServiceInv, ListedInv
  <1>4. CASE refusal # "none" /\ Svc!Dispatched(stamped, refusal, Svc!graceful(refusal))
    <2>1. refusal = Svc!Refusal(RoleOf(Token(m)), m.name)
      BY <1>1 DEF CallInv
    <2>2. stamped.m = m
      OBVIOUS
    <2> HIDE DEF refusal, stamped
    <2>3. /\ told'.status = 200 /\ told'.id = Svc!response_id(m)
          /\ told'.kind = refusal /\ told'.m = m /\ serving' = Svc!Idle
      BY <1>4, <2>2, DispatchedFields
    <2>4. ToldInv(told')
      BY <1>1, <2>1, <2>3, AnswerTold
    <2> QED BY <1>2, <2>3, <2>4 DEF ServiceInv, ListedInv
  <1>5. CASE serving' = stamped /\ UNCHANGED told
    <2>1. CallInv(serving')
      BY <1>1, <1>5 DEF CallInv
    <2>2. told = Svc!Nothing
      BY DEF ServiceInv, Svc!Admitted, Svc!Idle
    <2> QED BY <1>2, <1>5, <2>1, <2>2 DEF ServiceInv, CallInv, ToldInv, Addressed, ListedInv
  <1> QED BY <1>3, <1>4, <1>5 DEF Svc!Admitted

LEMMA ServiceExecuted ==
    ASSUME ServiceInv, NEW kind \in {"ok", "failed"}, Svc!Executed(kind) PROVE ServiceInv'
  <1>1. serving.m.id # Svc!Absent
    BY DEF ServiceInv, Svc!Executed, CallInv, Svc!Idle
  <1>2. PICK result : Svc!Dispatched(serving, kind, result)
    BY DEF Svc!Executed
  <1>3. ToldInv(told') /\ serving' = Svc!Idle
    BY <1>1, <1>2, DispatchedFields, AnswerTold
  <1> QED
    BY <1>3 DEF ServiceInv, Svc!Executed, ListedInv

LEMMA ServiceStep == ServiceInv /\ [ToolsNext]_toolsVars => ServiceInv'
  <1> SUFFICES ASSUME ServiceInv, [ToolsNext]_toolsVars PROVE ServiceInv'
    OBVIOUS
  <1>1. CASE UNCHANGED svcVars
    BY <1>1 DEF svcVars, ServiceInv, CallInv, ToldInv, Addressed, ListedInv, Svc!Idle
  <1>2. CASE Svc!Next
    BY <1>2, ServiceRestart, ServiceInstall, ServiceTurnedAway, ServiceInitialize, ServicePing,
       ServiceToolsList, ServiceUnknownMethod, ServiceToolsCall, ServiceDenied, ServiceAdmitted,
       ServiceExecuted DEF Svc!Next
  <1> QED BY <1>1, <1>2 DEF ToolsNext, toolsVars

LEMMA ServiceAlways == ToolsSpec => []ServiceInv
  <1>1. ToolsInit => ServiceInv
    BY ServiceInit DEF ToolsInit
  <1> QED BY <1>1, ServiceStep, PTL DEF ToolsSpec

-----------------------------------------------------------------------------
(* A version agreed on in initialize is never turned away as a header        *)
(* afterwards, also not by the next pod, whatever its environment names      *)
(* (negotiate, classify_protocol_header).                                    *)
THEOREM HandshakeHoldsAlways == ToolsSpec => []HandshakeHolds
  <1>1. ServiceInv => HandshakeHolds
    <2> SUFFICES ASSUME ServiceInv, told.status = 400, agreed # none
                 PROVE  Svc!Trimmed(Svc!Readable(told.m.version)) # <<agreed>>
      BY DEF HandshakeHolds, Svc!HandshakeHolds
    <2> DEFINE h == told.m.version
    <2>1. Svc!UnsupportedVersion(h) /\ agreed \in Supported
      BY DEF ServiceInv, ToldInv
    <2>2. Svc!Readable(h) = h
      BY <2>1 DEF Svc!UnsupportedVersion, Svc!Says, Svc!Readable
    <2>3. Svc!Trimmed(h) # <<agreed>>
      BY <2>1 DEF Svc!UnsupportedVersion, Supported, Svc!ToSet, ToSet
    <2> QED BY <2>2, <2>3
  <1> QED BY <1>1, ServiceAlways, PTL

(* A tool shown to a token can be called with it: neither its name nor its   *)
(* role is refused, and the buckets of the role and of a pod alone hold its  *)
(* weight (list_tools, dispatch, cost_weight, fallback_params).              *)
THEOREM ListedIsCallableAlways == ToolsSpec => []ListedIsCallable
  <1>1. ServiceInv => ListedIsCallable
    <2> SUFFICES ASSUME ServiceInv PROVE ListedIsCallable
      OBVIOUS
    <2>1. ASSUME told.kind \in {"unknown_tool", "not_permitted"}, listed.by = told.m.authorization,
                 told.m.name \in listed.tools
          PROVE  FALSE
      <3> DEFINE role == RoleOf(Token(told.m))
      <3>1. told.m.name \in Svc!list_tools(role)
        BY <2>1 DEF ServiceInv, ListedInv, Token
      <3>2. Svc!Exists(told.m.name) /\ Svc!role_allows(role, Svc!pool_of(told.m.name))
        BY <3>1 DEF Svc!list_tools, Svc!Exists
      <3>3. Svc!Refusal(role, told.m.name) = "none"
        BY <3>2 DEF Svc!Refusal
      <3> QED BY <2>1, <3>3 DEF ServiceInv, ToldInv
    <2>2. ASSUME serving.pc = "quota" PROVE Svc!Affordable
      <3>1. CallInv(serving)
        BY <2>2 DEF ServiceInv, Svc!Idle
      <3>2. serving.cost \in {1, 5}
        BY <3>1 DEF CallInv, Svc!cost_weight
      <3>3. Svc!capacity_of(serving.claims.role) \in {60, 120, 240}
        BY <3>1 DEF CallInv, Svc!Roles, Svc!capacity_of
      <3> QED BY <3>2, <3>3 DEF Svc!Affordable, Svc!fallback_capacity
    <2> QED BY <2>1, <2>2 DEF ListedIsCallable, Svc!ListedIsCallable
  <1> QED BY <1>1, ServiceAlways, PTL

(* A message that is let in and can be read gets an envelope with its id if  *)
(* it has one; a message without one never becomes a call (is_notification). *)
THEOREM AnswersMatchAlways == ToolsSpec => []AnswersMatch
  <1>1. ServiceInv => AnswersMatch
    <2> SUFFICES ASSUME ServiceInv PROVE AnswersMatch
      OBVIOUS
    <2>1. Addressed(told) /\ (serving # Svc!Idle => serving.m.id # Svc!Absent)
      BY DEF ServiceInv, ToldInv, CallInv
    <2> QED BY <2>1 DEF AnswersMatch, Svc!AnswersMatch, Addressed
  <1> QED BY <1>1, ServiceAlways, PTL

(* Whatever the environment names beside it: what is set for the outside     *)
(* world is in force as it was set, or nobody is let in                      *)
(* (build_auth_resolver, build_quota_backend, verify).                       *)
THEOREM TrustAsConfiguredAlways == ToolsSpec => []TrustAsConfigured
  <1>1. ServiceInv => TrustAsConfigured
    <2> SUFFICES ASSUME ServiceInv, pod # none PROVE TrustAsConfigured
      BY DEF ServiceInv, CallInv, TrustAsConfigured, Svc!TrustAsConfigured
    <2> DEFINE link == Svc!build_quota_backend(env)
               mode == Svc!build_auth_resolver(env)
               jwt  == {env.jwks, env.hs256, env.rs256} # {none}
    <2>1. /\ link # Svc!Refused /\ mode # Svc!Refused
          /\ pod.link = link /\ pod.mode = mode
      BY DEF ServiceInv, Svc!Pod
    <2>2. {env.ca, env.cert, env.key} # {none} => link = "mtls" /\ env.scheme = "rediss"
      BY <2>1 DEF Svc!build_quota_backend, Svc!Refused
    <2>3. jwt => mode \in Jwt /\ env.issuer # none
      BY <2>1 DEF Svc!build_auth_resolver, Svc!Refused, Jwt
    <2>4. ~jwt => mode = IF env.dev # none THEN "dev" ELSE "closed"
      BY DEF Svc!build_auth_resolver
    <2>5. serving # Svc!Idle => \/ mode = "dev" /\ Token(serving.m).kind = "dev"
                                \/ mode \in Jwt /\ Token(serving.m).kind = mode
      BY <2>1 DEF ServiceInv, CallInv
    <2> HIDE DEF link, mode, jwt
    <2>6. serving # Svc!Idle => (jwt => Token(serving.m).kind # "dev") /\ (~jwt => env.dev # none)
      BY <2>3, <2>4, <2>5 DEF Jwt
    <2> QED BY <2>1, <2>2, <2>3, <2>6 DEF TrustAsConfigured, Svc!TrustAsConfigured, Token, jwt
  <1> QED BY <1>1, ServiceAlways, PTL

\* What the line of a call has to say when the call is answered.
Told ==
    LET found == told'.kind = "ok"
    IN  /\ log'["auth.tenant"] = serving.claims.tenant /\ log'["auth.session"] = serving.claims.session
        /\ log'["auth.role"] = serving.claims.role /\ log'["tool.name"] = serving.m.name
        /\ log'["outcome"] = IF found THEN "ok" ELSE "error"
        /\ log'["provenance.eli"] = IF found THEN told'.result.provenance.eli ELSE "-"
        /\ log'["provenance.valid_as_of"] = IF found THEN told'.result.provenance.valid_as_of ELSE "-"
        /\ \A a \in DOMAIN log' \ Svc!Permitted : log'[a] = Svc!REDACTED

LEMMA LineOfCall ==
    ASSUME NEW c, NEW kind, NEW result, Svc!Dispatched(c, kind, result),
           c.claims = serving.claims, c.m = serving.m,
           \/ kind = "ok" /\ \E eli, day : result = Svc!Response(eli, day)
           \/ kind # "ok" /\ \E error : result = Svc!graceful(error)
    PROVE  Told
  <1>1. told'.kind = kind /\ told'.result = result /\ log' = Svc!call_log_line(c, result)
    BY DispatchedFields
  <1>2. CASE kind = "ok"
    <2>1. PICK eli, day : result = Svc!Response(eli, day)
      BY <1>2
    <2>2. /\ "error" \notin DOMAIN result
          /\ Svc!prov(result, "eli") = result.provenance.eli
          /\ Svc!prov(result, "valid_as_of") = result.provenance.valid_as_of
      BY <2>1 DEF Svc!Response, Svc!prov
    <2> QED BY <1>1, <1>2, <2>2, LogLine DEF Told
  <1>3. CASE kind # "ok"
    <2>1. PICK error : result = Svc!graceful(error)
      BY <1>3
    <2>2. /\ "error" \in DOMAIN result
          /\ Svc!prov(result, "eli") = "-" /\ Svc!prov(result, "valid_as_of") = "-"
      BY <2>1 DEF Svc!graceful, Svc!prov
    <2> QED BY <1>1, <1>3, <2>2, LogLine DEF Told
  <1> QED BY <1>2, <1>3

(* A call that reached dispatch, and no other step, leaves a line: with the  *)
(* tenant, the session and the role of its token, the tool, how it ended,    *)
(* the norm and the day the client is told about, and no other attribute     *)
(* that is not blanked (call_log_line, call_log_scrubber).                   *)
THEOREM LogTellsTheCallAlways == ToolsSpec => LogTellsTheCall
  <1> DEFINE Ends == serving # Svc!Idle /\ serving' = Svc!Idle /\ told'.kind \in Svc!Outcomes
             Act  == IF Ends THEN Told ELSE log' = Svc!Nothing
  <1>1. ServiceInv /\ [ToolsNext]_toolsVars => [Act]_(Svc!vars)
    <2> SUFFICES ASSUME ServiceInv, Svc!Next PROVE Act
      BY DEF ToolsNext, toolsVars, svcVars, Svc!vars
    <2>1. CASE Svc!Restart
      <3>1. ~Ends
        BY <2>1 DEF ServiceInv, Svc!Restart, Svc!Start, Svc!Nothing, Svc!Outcomes
      <3>2. log' = Svc!Nothing
        BY <2>1 DEF Svc!Restart, Svc!Start
      <3> QED BY <3>1, <3>2
    <2>2. ASSUME NEW k, Svc!InstallJwks(k) PROVE Act
      BY <2>2 DEF Svc!InstallJwks
    <2>3. ASSUME NEW m \in Messages,
                 \/ Svc!TurnedAway(m) \/ Svc!Initialize(m) \/ Svc!Ping(m)
                 \/ Svc!ToolsList(m) \/ Svc!UnknownMethod(m) \/ Svc!ToolsCall(m)
          PROVE  Act
      <3>1. serving = Svc!Idle /\ log' = Svc!Nothing
        BY <2>3 DEF Svc!TurnedAway, Svc!Initialize, Svc!Ping, Svc!ToolsList, Svc!UnknownMethod,
           Svc!ToolsCall, Svc!Handles, Svc!Serves
      <3> QED BY <3>1
    <2>4. CASE Svc!Denied
      <3>1. told'.kind = "rate_limit" /\ log' = Svc!Nothing
        BY <2>4, AnswerFields DEF Svc!Denied, Svc!Tell
      <3> QED BY <3>1 DEF Svc!Outcomes
    <2>5. CASE Svc!Admitted
      <3> DEFINE m == serving.m
                 stamped == [pc |-> "tool", m |-> m, claims |-> serving.claims, cost |-> serving.cost,
                             day |-> IF m.as_of = none THEN "default" ELSE m.as_of]
                 refusal == Svc!Refusal(serving.claims.role, m.name)
      <3>1. CASE Svc!Tell(m, "bad_day") /\ log' = Svc!Nothing
        <4>1. told'.kind = "bad_day"
          BY <3>1, AnswerFields DEF Svc!Tell
        <4> QED BY <3>1, <4>1 DEF Svc!Outcomes
      <3>2. CASE refusal # "none" /\ Svc!Dispatched(stamped, refusal, Svc!graceful(refusal))
        <4>1. refusal \in Svc!Outcomes /\ refusal # "ok"
          BY <3>2 DEF Svc!Refusal, Svc!Outcomes
        <4>2. stamped.claims = serving.claims /\ stamped.m = serving.m
          OBVIOUS
        <4>3. serving # Svc!Idle
          BY <2>5 DEF Svc!Admitted, Svc!Idle
        <4> HIDE DEF stamped, refusal
        <4>4. Told /\ told'.kind = refusal /\ serving' = Svc!Idle
          BY <3>2, <4>1, <4>2, LineOfCall, DispatchedFields
        <4> QED BY <4>1, <4>3, <4>4
      <3>3. CASE serving' = stamped /\ log' = Svc!Nothing
        <4>1. serving' # Svc!Idle
          BY <3>3 DEF Svc!Idle
        <4> QED BY <3>3, <4>1
      <3> QED BY <2>5, <3>1, <3>2, <3>3 DEF Svc!Admitted
    <2>6. ASSUME NEW kind \in {"ok", "failed"}, Svc!Executed(kind) PROVE Act
      <3>1. PICK result :
               /\ Svc!Dispatched(serving, kind, result)
               /\ \/ kind = "ok" /\ \E eli, day : result = Svc!Response(eli, day)
                  \/ kind # "ok" /\ \E error : result = Svc!graceful(error)
        BY <2>6 DEF Svc!Executed
      <3>2. serving # Svc!Idle
        BY <2>6 DEF Svc!Executed, Svc!Idle
      <3>3. Told /\ told'.kind = kind /\ serving' = Svc!Idle
        BY <3>1, LineOfCall, DispatchedFields
      <3> QED BY <3>2, <3>3 DEF Svc!Outcomes
    <2> QED BY <2>1, <2>2, <2>3, <2>4, <2>5, <2>6 DEF Svc!Next
  <1> QED BY <1>1, ServiceAlways, PTL DEF ToolsSpec, LogTellsTheCall, Svc!LogTellsTheCall, Told

-----------------------------------------------------------------------------
(* LawTools.  A graph is finite, and its facts are as FactsAssumption says.  *)
GraphOk(g) == IsFiniteSet(g) /\ \A f \in g : FactOk(f)

LawInv == theme \in Themes /\ GraphOk(graph)

LEMMA LawStep == LawInv /\ [ToolsNext]_toolsVars => LawInv'
  <1> SUFFICES ASSUME LawInv, [ToolsNext]_toolsVars PROVE LawInv'
    OBVIOUS
  <1>1. theme' = theme /\ (graph' = graph \/ Publish)
    BY DEF ToolsNext, toolsVars, vars, Next, Arrive, Respond, Norm, Hint, Primitive, ExploreNode, ExploreSecond,
       Upstream, Publish, CheckInForce, ListVersions, ResolveConsolidationAt, GetImpacts, GetOutgoingImpacts,
       GetArticleHistory, GetCitations, GetTaxonomy, GetSubdivisions, ListAnnexes, SearchLaw,
       ResolveSrNumber, FindRelatedTopic
  <1>2. CASE Publish
    <2>1. PICK facts \in Later[theme] : graph' = graph \cup facts
      BY <1>2 DEF Publish
    <2>2. IsFiniteSet(facts) /\ \A f \in facts : FactOk(f)
      BY FactsAssumption DEF LawInv
    <2>3. IsFiniteSet(graph \cup facts)
      BY <2>2, FS_Union DEF LawInv, GraphOk
    <2> QED BY <1>1, <2>1, <2>2, <2>3 DEF LawInv, GraphOk
  <1> QED BY <1>1, <1>2 DEF LawInv

LEMMA LawAlways == ToolsSpec => []LawInv
  <1>1. ToolsInit => LawInv
    BY FactsAssumption DEF ToolsInit, Init, LawInv, GraphOk
  <1> QED BY <1>1, LawStep, PTL DEF ToolsSpec

-----------------------------------------------------------------------------
(* check_in_force.                                                           *)
LEMMA BoundOptional ==
    ASSUME NEW g, NEW p, NEW s, NEW x \in Optional(g, p, s)
    PROVE  /\ x \in Objects(g, p, s) \/ (Objects(g, p, s) = {} /\ x = none)
  BY DEF Optional

LEMMA DateObjects ==
    ASSUME NEW g, GraphOk(g), NEW p \in DatePredicates, NEW s
    PROVE  Objects(g, p, s) \subseteq Int
  BY DEF Objects, GraphOk, FactOk

LEMMA ForceRow ==
    ASSUME NEW g, GraphOk(g), NEW eli, NEW day \in Int, NEW a \in check_in_force(g, eli, day),
           a.inForce, Objects(g, "dateEntryInForce", EliUri(eli)) # {}
    PROVE  /\ \E b \in Objects(g, "dateEntryInForce", EliUri(eli)) : b <= day
           /\ Objects(g, "dateNoLongerInForce", EliUri(eli)) # {} =>
                  \E e \in Objects(g, "dateNoLongerInForce", EliUri(eli)) : day < e
           /\ Objects(g, "dateEndApplicability", EliUri(eli)) # {} =>
                  \E e \in Objects(g, "dateEndApplicability", EliUri(eli)) : day < e
  <1>1. PICK s \in Optional(g, "inForceStatus", EliUri(eli)),
             b \in Optional(g, "dateEntryInForce", EliUri(eli)),
             n \in Optional(g, "dateNoLongerInForce", EliUri(eli)),
             x \in Optional(g, "dateEndApplicability", EliUri(eli)) :
                 a = [inForce |-> InForceOn([status |-> s, entry |-> b, noLonger |-> n, endApp |-> x], day),
                      row |-> [status |-> s, entry |-> b, noLonger |-> n, endApp |-> x]]
    BY DEF check_in_force
  <1>2. InForceOn([status |-> s, entry |-> b, noLonger |-> n, endApp |-> x], day)
    BY <1>1
  <1>3. b \in Objects(g, "dateEntryInForce", EliUri(eli)) /\ b # none
    BY BoundOptional, DateObjects, UnboundAssumption DEF DatePredicates
  <1>4. b <= day /\ \A d \in {n, x} \ {none} : day < d
    BY <1>2, <1>3 DEF InForceOn
  <1>5. Objects(g, "dateNoLongerInForce", EliUri(eli)) # {} =>
            n \in Objects(g, "dateNoLongerInForce", EliUri(eli)) /\ n # none
    BY BoundOptional, DateObjects, UnboundAssumption DEF DatePredicates
  <1>6. Objects(g, "dateEndApplicability", EliUri(eli)) # {} =>
            x \in Objects(g, "dateEndApplicability", EliUri(eli)) /\ x # none
    BY BoundOptional, DateObjects, UnboundAssumption DEF DatePredicates
  <1> QED BY <1>3, <1>4, <1>5, <1>6

(* Of two acts with one number the first of which ended before or when the   *)
(* second entered into force, no more than one is in force on any day        *)
(* (check_in_force, effective_in_force).                                     *)
THEOREM SrNumberDecidedAlways == ToolsSpec => []SrNumberDecided
  <1>1. LawInv => SrNumberDecided
    <2> SUFFICES ASSUME LawInv, NEW old \in Elis, NEW new \in Elis, NEW day \in Days,
                        Objects(graph, "dateEntryInForce", EliUri(old)) # {},
                        Objects(graph, "dateEntryInForce", EliUri(new)) # {},
                        Objects(graph, "dateNoLongerInForce", EliUri(old))
                            \cup Objects(graph, "dateEndApplicability", EliUri(old)) # {},
                        \A e \in Objects(graph, "dateNoLongerInForce", EliUri(old))
                                    \cup Objects(graph, "dateEndApplicability", EliUri(old)),
                           b \in Objects(graph, "dateEntryInForce", EliUri(new)) : e <= b,
                        NEW was \in check_in_force(graph, old, day), was.inForce,
                        NEW is \in check_in_force(graph, new, day), is.inForce
                 PROVE  FALSE
      BY DEF SrNumberDecided
    <2>1. day \in Int /\ GraphOk(graph)
      BY BoundsAssumption DEF LawInv
    <2>2. PICK b \in Objects(graph, "dateEntryInForce", EliUri(new)) : b <= day
      BY <2>1, ForceRow
    <2>3. PICK e \in Objects(graph, "dateNoLongerInForce", EliUri(old))
                         \cup Objects(graph, "dateEndApplicability", EliUri(old)) : day < e
      BY <2>1, ForceRow
    <2>4. b \in Int /\ e \in Int
      BY <2>1, DateObjects DEF DatePredicates
    <2> QED BY <2>1, <2>2, <2>3, <2>4
  <1> QED BY <1>1, LawAlways, PTL

-----------------------------------------------------------------------------
(* get_citations.                                                            *)
LEMMA KeptOfEachPair ==
    ASSUME NEW rows, NEW kept \in OncePerPair(rows)
    PROVE  /\ kept \subseteq rows
           /\ PairsOf(kept) = PairsOf(rows)
           /\ \A c, d \in kept : c.from = d.from /\ c.to = d.to => c = d
  <1> DEFINE described(r) == {o \in rows : o.from = r.from /\ o.to = r.to}
             pairs == {described(r) : r \in rows}
  <1>1. PICK choice \in [pairs -> rows] :
            (\A c \in pairs : choice[c] \in c) /\ kept = {choice[c] : c \in pairs}
    BY DEF OncePerPair
  <1>2. \A r \in rows : described(r) \in pairs
    OBVIOUS
  <1>3. \A r, o : o \in described(r) => o \in rows /\ o.from = r.from /\ o.to = r.to
    OBVIOUS
  <1>4. \A r, s : r.from = s.from /\ r.to = s.to => described(r) = described(s)
    OBVIOUS
  <1>5. \A c \in pairs : \E r \in rows : c = described(r)
    OBVIOUS
  <1> HIDE DEF described, pairs
  <1>6. kept \subseteq rows
    BY <1>1
  <1>7. ASSUME NEW r \in rows PROVE <<r.from, r.to>> \in PairsOf(kept)
    <2>1. choice[described(r)] \in kept /\ choice[described(r)] \in described(r)
      BY <1>1, <1>2
    <2>2. choice[described(r)].from = r.from /\ choice[described(r)].to = r.to
      BY <2>1, <1>3
    <2> QED BY <2>1, <2>2 DEF PairsOf
  <1>8. PairsOf(kept) = PairsOf(rows)
    BY <1>6, <1>7 DEF PairsOf
  <1>9. ASSUME NEW c \in kept, NEW d \in kept, c.from = d.from, c.to = d.to PROVE c = d
    <2>1. PICK r \in rows : described(r) \in pairs /\ c = choice[described(r)]
      BY <1>1, <1>5
    <2>2. PICK s \in rows : described(s) \in pairs /\ d = choice[described(s)]
      BY <1>1, <1>5
    <2>3. c \in described(r) /\ d \in described(s)
      BY <1>1, <2>1, <2>2
    <2>4. r.from = s.from /\ r.to = s.to
      BY <2>3, <1>3, <1>9
    <2> QED BY <2>1, <2>2, <2>4, <1>4
  <1> QED BY <1>6, <1>8, <1>9

LEMMA CitedPairs ==
    ASSUME NEW g, NEW eli, NEW dir, NEW kept \in get_citations(g, eli, dir)
    PROVE  /\ PairsOf(kept) = PairsOf(CitationsOf(g, eli, dir))
           /\ \A c, d \in kept : c.from = d.from /\ c.to = d.to => c = d
  BY KeptOfEachPair DEF get_citations

LEMMA PairsOfCitations ==
    ASSUME NEW g, NEW eli
    PROVE  /\ PairsOf(CitationsOf(g, eli, "outgoing")) =
                  {p \in PairsOf(CitationRows(g)) : IsPrefix(EliUri(eli), p[1])}
           /\ PairsOf(CitationsOf(g, eli, "incoming")) =
                  {p \in PairsOf(CitationRows(g)) : IsPrefix(EliUri(eli), p[2])}
           /\ PairsOf(CitationsOf(g, eli, "both")) =
                  PairsOf(CitationsOf(g, eli, "outgoing")) \cup PairsOf(CitationsOf(g, eli, "incoming"))
  <1>1. CitationsOf(g, eli, "outgoing") = {r \in CitationRows(g) : IsPrefix(EliUri(eli), r.from)}
    BY DEF CitationsOf
  <1>2. CitationsOf(g, eli, "incoming") = {r \in CitationRows(g) : IsPrefix(EliUri(eli), r.to)}
    BY DEF CitationsOf
  <1>3. CitationsOf(g, eli, "both") = CitationsOf(g, eli, "outgoing") \cup CitationsOf(g, eli, "incoming")
    BY <1>1, <1>2 DEF CitationsOf
  <1> QED BY <1>1, <1>2, <1>3 DEF PairsOf

(* Who cites is cited, and both directions together tell of every pair once, *)
(* whichever of the rows of a pair comes first (get_citations).              *)
THEOREM CitationsMirrorAlways == ToolsSpec => []CitationsMirror
  <1>1. CitationsMirror
    <2> SUFFICES ASSUME NEW a \in Elis, NEW b \in Elis,
                        NEW out \in get_citations(graph, a, "outgoing"),
                        NEW in \in get_citations(graph, b, "incoming"),
                        NEW all \in get_citations(graph, a, "both"),
                        NEW into \in get_citations(graph, a, "incoming")
                 PROVE  /\ {p \in PairsOf(out) : IsPrefix(EliUri(b), p[2])}
                               = {p \in PairsOf(in) : IsPrefix(EliUri(a), p[1])}
                        /\ PairsOf(all) = PairsOf(out) \cup PairsOf(into)
                        /\ \A c, d \in all : c.from = d.from /\ c.to = d.to => c = d
      BY DEF CitationsMirror
    <2>1. PairsOf(out) = {p \in PairsOf(CitationRows(graph)) : IsPrefix(EliUri(a), p[1])}
      BY CitedPairs, PairsOfCitations
    <2>2. PairsOf(in) = {p \in PairsOf(CitationRows(graph)) : IsPrefix(EliUri(b), p[2])}
      BY CitedPairs, PairsOfCitations
    <2>3. PairsOf(all) = PairsOf(out) \cup PairsOf(into)
      BY CitedPairs, PairsOfCitations
    <2>4. \A c, d \in all : c.from = d.from /\ c.to = d.to => c = d
      BY CitedPairs
    <2> QED BY <2>1, <2>2, <2>3, <2>4
  <1> QED BY <1>1, PTL

-----------------------------------------------------------------------------
(* LIMIT n: all of the rows, or n of them.                                   *)
LEMMA CutOff ==
    ASSUME NEW rows, NEW n, NEW kept \in Cut(rows, n)
    PROVE  /\ kept \subseteq rows
           /\ kept = rows \/ Cardinality(kept) = n
           /\ Cardinality(rows) <= n => kept = rows
  BY DEF Cut, kSubset

LEMMA SomethingOptional == \A g, p, s : Optional(g, p, s) # {}
  BY DEF Optional

(* get_drafts, get_fga_documents: both go from the act to its drafts.        *)
Drafts(g, eli) ==
    UNION {Subjects(g, "hasResultingLegalResource", oc) : oc \in Objects(g, "basicAct", EliUri(eli))}
Results(g, d) == Objects(g, "hasResultingLegalResource", d)

LEMMA DraftRow ==
    ASSUME NEW g, NEW eli
    PROVE  /\ \A r \in DraftRows(g, eli) : r.draft \in Drafts(g, eli) /\ r.result \in Results(g, r.draft)
           /\ \A d \in Drafts(g, eli) : \A x \in Results(g, d) :
                  \E r \in DraftRows(g, eli) : r.draft = d /\ r.result = x
           /\ \A d \in Drafts(g, eli) : Results(g, d) \cap Objects(g, "basicAct", EliUri(eli)) # {}
  <1> DEFINE acts == Objects(g, "basicAct", EliUri(eli))
             rowsOf(d) == {[draft |-> d, via |-> oc, draftId |-> i, parlId |-> n, result |-> r]
                 : oc \in Objects(g, "hasResultingLegalResource", d) \cap acts,
                   i \in Optional(g, "draftId", d), n \in Optional(g, "parliamentDraftId", d),
                   r \in Optional(g, "hasResultingLegalResource", d)}
  <1>1. DraftRows(g, eli) = UNION {rowsOf(d) : d \in Drafts(g, eli)}
    BY DEF DraftRows, Drafts
  <1>2. \A d \in Drafts(g, eli) : Results(g, d) \cap acts # {}
    BY DEF Drafts, Results, Subjects, Objects
  <1>3. \A d \in Drafts(g, eli) : Optional(g, "hasResultingLegalResource", d) = Results(g, d)
    BY <1>2 DEF Optional, Results
  <1>4. ASSUME NEW d \in Drafts(g, eli), NEW r \in rowsOf(d)
        PROVE  r.draft = d /\ r.result \in Results(g, d)
    BY <1>3
  <1>5. ASSUME NEW d \in Drafts(g, eli), NEW x \in Results(g, d)
        PROVE  \E r \in rowsOf(d) : r.draft = d /\ r.result = x
    <2>1. PICK oc \in Objects(g, "hasResultingLegalResource", d) \cap acts : TRUE
      BY <1>2 DEF Results
    <2>2. PICK i \in Optional(g, "draftId", d), n \in Optional(g, "parliamentDraftId", d) : TRUE
      BY SomethingOptional
    <2> DEFINE r == [draft |-> d, via |-> oc, draftId |-> i, parlId |-> n, result |-> x]
    <2>3. r \in rowsOf(d)
      BY <1>3, <2>1, <2>2
    <2>4. r.draft = d /\ r.result = x
      OBVIOUS
    <2> HIDE DEF r, rowsOf
    <2> QED BY <2>3, <2>4
  <1> HIDE DEF rowsOf
  <1> QED BY <1>1, <1>2, <1>4, <1>5

LEMMA DraftsTold ==
    ASSUME NEW g, NEW eli, NEW drafts \in get_drafts(g, eli)
    PROVE  /\ \A d \in drafts : \A x \in d.results :
                  d.draft \in Drafts(g, eli) /\ x \in Results(g, d.draft)
           /\ Cardinality(DraftRows(g, eli)) <= MaxDrafts =>
                  /\ \A d \in Drafts(g, eli) : \A x \in Results(g, d) :
                         \E t \in drafts : t.draft = d /\ x \in t.results
                  /\ \A t \in drafts : t.results \cap Objects(g, "basicAct", EliUri(eli)) # {}
  <1> DEFINE grouped(kept, d) == [draft   |-> d,
                                  ids     |-> {<<r.draftId, r.parlId>> : r \in {r \in kept : r.draft = d}},
                                  results |-> {r.result : r \in {r \in kept : r.draft = d}}]
  <1>1. PICK kept \in Cut(DraftRows(g, eli), MaxDrafts) :
            drafts = {grouped(kept, d) : d \in {r.draft : r \in kept}}
    BY DEF get_drafts
  <1>2. /\ kept \subseteq DraftRows(g, eli)
        /\ (Cardinality(DraftRows(g, eli)) <= MaxDrafts => kept = DraftRows(g, eli))
    BY CutOff
  <1>3. \A d : /\ grouped(kept, d).draft = d
              /\ grouped(kept, d).results = {r.result : r \in {r \in kept : r.draft = d}}
    OBVIOUS
  <1> HIDE DEF grouped
  <1>4. ASSUME NEW t \in drafts, NEW x \in t.results
        PROVE  t.draft \in Drafts(g, eli) /\ x \in Results(g, t.draft)
    <2>1. PICK r \in kept : r.draft = t.draft /\ r.result = x
      BY <1>1, <1>3
    <2> QED BY <1>2, <2>1, DraftRow
  <1>5. ASSUME kept = DraftRows(g, eli), NEW d \in Drafts(g, eli), NEW x \in Results(g, d)
        PROVE  grouped(kept, d) \in drafts /\ x \in grouped(kept, d).results
    <2>1. PICK r \in kept : r.draft = d /\ r.result = x
      BY <1>5, DraftRow
    <2> QED BY <1>1, <1>3, <2>1
  <1>6. ASSUME kept = DraftRows(g, eli), NEW t \in drafts
        PROVE  t.results \cap Objects(g, "basicAct", EliUri(eli)) # {}
    <2>1. PICK r \in kept : t = grouped(kept, r.draft)
      BY <1>1
    <2>2. r.draft \in Drafts(g, eli)
      BY <1>2, DraftRow
    <2>3. PICK x \in Results(g, r.draft) : x \in Objects(g, "basicAct", EliUri(eli))
      BY <2>2, DraftRow
    <2> QED BY <1>5, <1>6, <2>1, <2>2, <2>3
  <1> QED BY <1>2, <1>3, <1>4, <1>5, <1>6

LEMMA PapersTold ==
    ASSUME NEW g, NEW eli, NEW papers \in get_fga_documents(g, eli), MaxRows \in Nat,
           Cardinality(papers) < MaxRows
    PROVE  {p.fga : p \in papers} =
               {x \in UNION {Results(g, d) : d \in Drafts(g, eli)} : Mentions(x, <<"eli", "fga">>)}
  <1> DEFINE rows(f) == {[fga |-> f, genre |-> k, pub |-> d]
                         : k \in Optional(g, "legalResourceGenre", f), d \in Optional(g, "publicationDate", f)}
             fgas == {x \in UNION {Results(g, d) : d \in Drafts(g, eli)} : Mentions(x, <<"eli", "fga">>)}
  <1>1. papers \in Cut(UNION {rows(f) : f \in fgas}, MaxRows)
    BY DEF get_fga_documents, Drafts, Results
  <1>2. papers = UNION {rows(f) : f \in fgas}
    BY <1>1, CutOff
  <1>3. \A f : \A p \in rows(f) : p.fga = f
    OBVIOUS
  <1>4. ASSUME NEW f PROVE rows(f) # {}
    <2>1. PICK k \in Optional(g, "legalResourceGenre", f), d \in Optional(g, "publicationDate", f) : TRUE
      BY SomethingOptional
    <2>2. [fga |-> f, genre |-> k, pub |-> d] \in rows(f)
      OBVIOUS
    <2> QED BY <2>2
  <1> HIDE DEF rows, fgas
  <1>5. {p.fga : p \in papers} = fgas
    BY <1>2, <1>3, <1>4
  <1> QED BY <1>5 DEF fgas

(* The papers of an act are the results of its drafts that are papers, and   *)
(* each draft results in the act; what was cut off is missing, and nothing   *)
(* else is told (get_drafts, get_fga_documents, get_oc_act).                 *)
THEOREM PapersOfDraftsAlways == ToolsSpec => []PapersOfDrafts
  <1>1. PapersOfDrafts
    <2> SUFFICES ASSUME NEW eli \in Elis, NEW drafts \in get_drafts(graph, eli),
                        NEW papers \in get_fga_documents(graph, eli), Cardinality(papers) < MaxRows
                 PROVE  LET acts == {r \in UNION {d.results : d \in drafts} : Mentions(r, <<"eli", "fga">>)}
                        IN  /\ acts \subseteq {p.fga : p \in papers}
                            /\ Cardinality(DraftRows(graph, eli)) <= MaxDrafts =>
                                   /\ acts = {p.fga : p \in papers}
                                   /\ \A d \in drafts :
                                          d.results \cap Objects(graph, "basicAct", EliUri(eli)) # {}
      BY DEF PapersOfDrafts
    <2> DEFINE all == UNION {Results(graph, d) : d \in Drafts(graph, eli)}
               some == UNION {d.results : d \in drafts}
    <2>1. {p.fga : p \in papers} = {x \in all : Mentions(x, <<"eli", "fga">>)}
      BY PapersTold, BoundsAssumption
    <2>2. some \subseteq all
      BY DraftsTold
    <2>3. ASSUME Cardinality(DraftRows(graph, eli)) <= MaxDrafts
          PROVE  /\ some = all
                 /\ \A d \in drafts : d.results \cap Objects(graph, "basicAct", EliUri(eli)) # {}
      BY <2>2, <2>3, DraftsTold
    <2> HIDE DEF all, some
    <2>4. /\ {r \in some : Mentions(r, <<"eli", "fga">>)} \subseteq {p.fga : p \in papers}
          /\ Cardinality(DraftRows(graph, eli)) <= MaxDrafts =>
                 /\ {r \in some : Mentions(r, <<"eli", "fga">>)} = {p.fga : p \in papers}
                 /\ \A d \in drafts : d.results \cap Objects(graph, "basicAct", EliUri(eli)) # {}
      BY <2>1, <2>2, <2>3
    <2> QED BY <2>4 DEF some
  <1> QED BY <1>1, PTL

-----------------------------------------------------------------------------
(* list_versions, resolve_consolidation_at.                                  *)

(* A finite set of days has a last one: the days after a day are fewer the   *)
(* later it is.                                                              *)
LEMMA LastDay ==
    ASSUME NEW S, S \subseteq Int, IsFiniteSet(S), S # {}
    PROVE  \E x \in S : \A y \in S : y <= x
  <1> DEFINE After(x) == {y \in S : x < y}
             T == {After(x) : x \in S}
  <1>1. T \subseteq FiniteSubsetsOf(S) /\ T # {}
    <2>1. FiniteSubsetsOf(S) = SUBSET S
      BY FS_FiniteSubsetsOfFinite
    <2>2. \A x : After(x) \in SUBSET S
      OBVIOUS
    <2> HIDE DEF After
    <2>3. T \subseteq FiniteSubsetsOf(S)
      BY <2>1, <2>2
    <2>4. PICK x \in S : After(x) \in T
      OBVIOUS
    <2> QED BY <2>3, <2>4
  <1>2. IsWellFoundedOn(StrictSubsetOrdering(S), FiniteSubsetsOf(S))
    BY FS_StrictSubsetOrderingWellFounded
  <1>3. PICK A \in T : \A B \in T : ~(<<B, A>> \in StrictSubsetOrdering(S))
    <2> HIDE DEF T
    <2> QED BY <1>1, <1>2, WFMin
  <1>4. PICK x \in S : A = After(x)
    OBVIOUS
  <1>5. ASSUME NEW y \in S, x < y PROVE FALSE
    <2>1. After(y) \in T /\ After(y) \subseteq S /\ After(x) \subseteq S
      OBVIOUS
    <2>2. After(y) \subseteq After(x)
      <3>1. ASSUME NEW z \in S, y < z PROVE x < z
        <4>1. x \in Int /\ y \in Int /\ z \in Int
          OBVIOUS
        <4> QED BY <1>5, <3>1, <4>1
      <3> QED BY <3>1
    <2>3. y \in After(x) /\ y \notin After(y)
      BY <1>5
    <2>4. <<After(y), A>> \in StrictSubsetOrdering(S)
      BY <1>4, <2>1, <2>2, <2>3 DEF StrictSubsetOrdering
    <2> QED BY <1>3, <2>1, <2>4
  <1> QED BY <1>5

LEMMA Latest ==
    ASSUME NEW g, GraphOk(g), NEW rows,
           \A r \in rows : r.date \in Int /\ \E f \in g : f[3] = r.date,
           NEW at \in LatestRow(rows), none \notin rows
    PROVE  /\ at # none => at \in rows /\ \A o \in rows : o.date <= at.date
           /\ at = none => rows = {}
  <1> DEFINE last == {r \in rows : \A o \in rows : o.date <= r.date}
  <1>1. at \in (IF last = {} THEN {none} ELSE last)
    BY DEF LatestRow, FirstOf
  <1>2. ASSUME rows # {} PROVE last # {}
    <2> DEFINE dates == {r.date : r \in rows}
               values == {f[3] : f \in g}
    <2>1. [f \in g |-> f[3]] \in Surjection(g, values)
      BY DEF Surjection
    <2>2. IsFiniteSet(values)
      BY <2>1, FS_Surjection DEF GraphOk
    <2>3. dates \subseteq values /\ dates \subseteq Int
      OBVIOUS
    <2>4. IsFiniteSet(dates)
      BY <2>2, <2>3, FS_Subset
    <2>5. dates # {}
      BY <1>2
    <2>6. PICK x \in dates : \A y \in dates : y <= x
      <3> HIDE DEF dates, values
      <3> QED BY <2>3, <2>4, <2>5, LastDay
    <2>7. PICK r \in rows : r.date = x
      OBVIOUS
    <2> QED BY <2>6, <2>7
  <1>3. last \subseteq rows /\ none \notin last
    OBVIOUS
  <1>4. at # none => at \in last
    BY <1>1
  <1>5. at = none => rows = {}
    BY <1>1, <1>2, <1>3
  <1> QED BY <1>4, <1>5

LEMMA Versions ==
    ASSUME NEW g, GraphOk(g), NEW eli, NEW v \in VersionsOf(g, eli)
    PROVE  /\ v = [cons |-> v.cons, date |-> v.date]
           /\ v.date \in Int /\ v.cons \in Seq(STRING) /\ \E f \in g : f[3] = v.date
  <1>1. PICK c \in Subjects(g, "isMemberOf", EliUri(eli)) : \E d \in Objects(g, "dateApplicability", c) :
            v = [cons |-> c, date |-> d]
    BY DEF VersionsOf
  <1>2. PICK d \in Objects(g, "dateApplicability", c) : v = [cons |-> c, date |-> d]
    BY <1>1
  <1>3. PICK f \in g : f[2] = c /\ f[1] = "isMemberOf"
    BY DEF Subjects
  <1>4. PICK e \in g : e[3] = d /\ e[1] = "dateApplicability"
    BY DEF Objects
  <1>5. c \in Seq(STRING) /\ d \in Int
    BY <1>3, <1>4 DEF GraphOk, FactOk, DatePredicates
  <1> QED BY <1>2, <1>4, <1>5

LEMMA FileRow ==
    ASSUME NEW g, NEW eli, NEW day, NEW r \in FileRows(g, eli, day, "de", "xml")
    PROVE  \E v \in VersionsOf(g, eli) : \E u \in FilesOf(g, v.cons, "de") :
               v.date <= day /\ r = [cons |-> v.cons, date |-> v.date, url |-> u, lang |-> "de"]
  BY DEF FileRows

LEMMA RowTyped ==
    ASSUME NEW c \in Seq(STRING), NEW d \in Int, NEW u \in Seq(STRING)
    PROVE  [cons |-> c, date |-> d, url |-> u, lang |-> "de"]
               \in [cons : Seq(STRING), date : Int, url : Seq(STRING), lang : {"de"}]
  OBVIOUS

LEMMA FilesTyped ==
    ASSUME NEW g, GraphOk(g), NEW cons, NEW u \in FilesOf(g, cons, "de")
    PROVE  u \in Seq(STRING)
  <1>1. PICK m : u \in Objects(g, "isExemplifiedBy", m)
    BY DEF FilesOf
  <1> QED BY <1>1 DEF Objects, GraphOk, FactOk

LEMMA RowOfFile ==
    ASSUME NEW g, NEW eli, NEW day, NEW v \in VersionsOf(g, eli), v.date <= day,
           NEW u \in FilesOf(g, v.cons, "de"), u[2] = "xml"
    PROVE  \E r \in FileRows(g, eli, day, "de", "xml") : r.date = v.date
  <1> DEFINE r == [cons |-> v.cons, date |-> v.date, url |-> u, lang |-> "de"]
  <1>1. r \in FileRows(g, eli, day, "de", "xml")
    BY DEF FileRows
  <1>2. r.date = v.date
    OBVIOUS
  <1> HIDE DEF r
  <1> QED BY <1>1, <1>2

(* The version of a day is one of those listed, and no later readable one of *)
(* the list comes before the day; what the limit cuts off is newer           *)
(* (VERSIONS_Q, CONS_Q).                                                     *)
THEOREM VersionsAgreeAlways == ToolsSpec => []VersionsAgree
  <1>1. LawInv => VersionsAgree
    <2> SUFFICES ASSUME LawInv, NEW eli \in Elis, NEW day \in Days,
                        NEW at \in resolve_consolidation_at(graph, eli, day, "de"),
                        NEW list \in list_versions(graph, eli)
                 PROVE  /\ at # none =>
                              /\ at.date <= day
                              /\ \A v \in list : at.date < v.date /\ v.date <= day => ~Readable(v.cons)
                              /\ \/ \E v \in list : v.cons = at.cons /\ v.date = at.date
                                 \/ Cardinality(list) = MaxVersions /\ \A v \in list : v.date <= at.date
                        /\ at = none => \A v \in list : v.date <= day => ~Readable(v.cons)
      BY DEF VersionsAgree
    <2> DEFINE rows == VersionsOf(graph, eli)
               files == FileRows(graph, eli, day, "de", "xml")
    <2>1. GraphOk(graph) /\ day \in Int
      BY BoundsAssumption DEF LawInv
    <2>2. /\ list \subseteq rows
          /\ list = rows \/ Cardinality(list) = MaxVersions
          /\ \A r \in list, o \in rows \ list : ~(o.date < r.date)
      <3> DEFINE before == {r \in rows \X rows : r[1].date < r[2].date}
      <3>1. list \in Cut(rows, MaxVersions) /\ \A r \in list, o \in rows \ list : <<o, r>> \notin before
        BY DEF list_versions, Foremost
      <3>2. list \subseteq rows /\ (list = rows \/ Cardinality(list) = MaxVersions)
        BY <3>1, CutOff
      <3>3. ASSUME NEW r \in list, NEW o \in rows \ list, o.date < r.date PROVE FALSE
        BY <3>1, <3>2, <3>3
      <3> QED BY <3>2, <3>3
    <2>3. \A v \in rows : v.date \in Int
      BY <2>1, Versions
    <2>4. ASSUME NEW r \in files
          PROVE  /\ r \in [cons : Seq(STRING), date : Int, url : Seq(STRING), lang : {"de"}]
                 /\ r.date <= day /\ \E f \in graph : f[3] = r.date
                 /\ \E v \in rows : v.cons = r.cons /\ v.date = r.date
      <3>1. PICK v \in rows : \E u \in FilesOf(graph, v.cons, "de") :
                v.date <= day /\ r = [cons |-> v.cons, date |-> v.date, url |-> u, lang |-> "de"]
        BY FileRow
      <3>2. PICK u \in FilesOf(graph, v.cons, "de") :
                v.date <= day /\ r = [cons |-> v.cons, date |-> v.date, url |-> u, lang |-> "de"]
        BY <3>1
      <3>3. u \in Seq(STRING) /\ v.cons \in Seq(STRING) /\ v.date \in Int /\ \E f \in graph : f[3] = v.date
        BY <2>1, FilesTyped, Versions
      <3>4. r \in [cons : Seq(STRING), date : Int, url : Seq(STRING), lang : {"de"}]
        BY <3>2, <3>3, RowTyped
      <3>5. r.cons = v.cons /\ r.date = v.date
        BY <3>2
      <3> HIDE DEF rows
      <3> QED BY <3>2, <3>3, <3>4, <3>5
    <2>5. ASSUME NEW v \in rows, v.date <= day, Readable(v.cons)
          PROVE  \E r \in files : r.date = v.date
      <3>1. PICK u \in FilesOf(graph, v.cons, "de") : u[2] = "xml"
        BY <2>5 DEF Readable
      <3> QED BY <2>5, <3>1, RowOfFile
    <2>6. none \notin files
      BY <2>4, UnboundAssumption
    <2>7. /\ at # none => at \in files /\ \A o \in files : o.date <= at.date
          /\ at = none => files = {}
      <3>1. at \in LatestRow(files)
        BY DEF resolve_consolidation_at
      <3>2. \A r \in files : r.date \in Int /\ \E f \in graph : f[3] = r.date
        BY <2>4
      <3> HIDE DEF files
      <3> QED BY <2>1, <2>6, <3>1, <3>2, Latest
    <2> HIDE DEF rows, files
    <2>8. ASSUME at # none
          PROVE  /\ at.date <= day
                 /\ \A v \in list : at.date < v.date /\ v.date <= day => ~Readable(v.cons)
                 /\ \/ \E v \in list : v.cons = at.cons /\ v.date = at.date
                    \/ Cardinality(list) = MaxVersions /\ \A v \in list : v.date <= at.date
      <3>1. at \in files /\ at.date <= day /\ at.date \in Int
        BY <2>4, <2>7, <2>8
      <3>2. ASSUME NEW v \in list, at.date < v.date, v.date <= day, Readable(v.cons) PROVE FALSE
        <4>1. PICK r \in files : r.date = v.date
          BY <2>2, <2>5, <3>2
        <4>2. r.date <= at.date /\ v.date \in Int
          BY <2>2, <2>3, <2>7, <2>8
        <4> QED BY <3>1, <3>2, <4>1, <4>2
      <3>3. PICK v \in rows : v.cons = at.cons /\ v.date = at.date
        BY <2>4, <3>1
      <3>4. CASE v \in list
        BY <3>1, <3>2, <3>3, <3>4
      <3>5. CASE v \notin list
        <4>1. Cardinality(list) = MaxVersions
          BY <2>2, <3>5
        <4>2. ASSUME NEW w \in list PROVE w.date <= at.date
          BY <2>2, <2>3, <3>3, <3>5
        <4> QED BY <3>1, <3>2, <4>1, <4>2
      <3> QED BY <3>4, <3>5
    <2>9. at = none => \A v \in list : v.date <= day => ~Readable(v.cons)
      BY <2>2, <2>5, <2>7
    <2> QED BY <2>8, <2>9
  <1> QED BY <1>1, LawAlways, PTL

-----------------------------------------------------------------------------
(* search_law, resolve_sr_number, find_related_by_topic.                     *)
Subject(g, uri) == \E f \in g : f[2] = uri

HitOk(g, h) ==
    IF h.about = none THEN h.hit.eli = Relative(h.hit.eli) /\ EliNew(h.hit.eli) = none
    ELSE h.about = h.hit.eli /\ Subject(g, EliUri(h.about))

(* What an act is named leads back to it: stripped of Base and read as an    *)
(* ELI, it is the name the act has under Base.                               *)
LEMMA NameLeadsBack ==
    ASSUME NEW g, GraphOk(g), NEW uri, Subject(g, uri), NEW q, NEW hit, hit.eli = Relative(uri),
           NEW h, h = AnnotateHit(q, hit)
    PROVE  HitOk(g, h) /\ (h.about # none => EliUri(h.about) = uri)
  <1>1. /\ uri \in Seq(STRING) /\ uri # <<>> /\ uri[1] \notin {"eli", Space}
        /\ uri[1] = Base /\ Len(uri) > 1 => uri[2] \notin {Base, Space}
    BY DEF Subject, GraphOk, FactOk
  <1>2. h.hit = hit /\ h.about = EliNew(hit.eli)
    BY DEF AnnotateHit
  <1>3. CASE uri[1] = Base
    <2> DEFINE t == Tail(uri)
    <2>1. t \in Seq(STRING) /\ (t # <<>> => t[1] \notin {Base, Space})
      BY <1>1, <1>3
    <2>2. Relative(uri) = t /\ Relative(t) = t
      BY <1>1, <1>3, <2>1 DEF Relative
    <2>3. Trimmed(t) = t
      BY <2>1 DEF Trimmed
    <2>9. t # <<>> => Head(t) = t[1]
      BY <2>1
    <2>4. EliNew(t) = IF t # <<>> /\ t[1] = "eli" THEN t ELSE none
      <3> HIDE DEF t
      <3> QED BY <2>3, <2>9 DEF EliNew
    <2>5. EliUri(t) = uri
      BY <1>1, <1>3 DEF EliUri
    <2>6. t # none
      BY <2>1, UnboundAssumption
    <2> HIDE DEF t
    <2>7. CASE t # <<>> /\ t[1] = "eli"
      BY <1>2, <2>2, <2>4, <2>5, <2>6, <2>7 DEF HitOk
    <2>8. CASE ~(t # <<>> /\ t[1] = "eli")
      BY <1>2, <2>2, <2>4, <2>8 DEF HitOk
    <2> QED BY <2>7, <2>8
  <1>4. CASE uri[1] # Base
    <2>1. Relative(uri) = uri /\ Trimmed(uri) = uri
      BY <1>1, <1>4 DEF Relative, Trimmed
    <2>2. EliNew(uri) = none
      BY <1>1, <2>1 DEF EliNew
    <2> QED BY <1>2, <2>1, <2>2 DEF HitOk
  <1> QED BY <1>3, <1>4

(* An act of the graph is the subject of a fact, and stays so.               *)
LEMMA FoundIsSubject ==
    \A g, p, o : \A x \in Subjects(g, p, o) : Subject(g, x)
  BY DEF Subjects, Subject

LEMMA RelatedBothWays ==
    ASSUME NEW g, NEW eli, NEW o \in RelatedActs(g, eli), NEW back, EliUri(back) = o
    PROVE  EliUri(eli) \in RelatedActs(g, back)
  <1>1. PICK t \in Objects(g, "classifiedByTaxonomyEntry", EliUri(eli)) :
        \E p \in Objects(g, "broader", t) : \E s \in Subjects(g, "broader", p) :
            o \in Subjects(g, "classifiedByTaxonomyEntry", s)
    BY DEF RelatedActs
  <1>2. PICK p \in Objects(g, "broader", t) : \E s \in Subjects(g, "broader", p) :
            o \in Subjects(g, "classifiedByTaxonomyEntry", s)
    BY <1>1
  <1>3. PICK s \in Subjects(g, "broader", p) : o \in Subjects(g, "classifiedByTaxonomyEntry", s)
    BY <1>2
  <1>4. o # EliUri(eli)
    BY DEF RelatedActs
  <1>5. /\ s \in Objects(g, "classifiedByTaxonomyEntry", EliUri(back))
        /\ p \in Objects(g, "broader", s)
        /\ t \in Subjects(g, "broader", p)
        /\ EliUri(eli) \in Subjects(g, "classifiedByTaxonomyEntry", t)
    BY <1>1, <1>2, <1>3 DEF Objects, Subjects
  <1> QED BY <1>4, <1>5 DEF RelatedActs

LEMMA RelatedStay ==
    ASSUME NEW g, NEW more, g \subseteq more, NEW eli
    PROVE  RelatedActs(g, eli) \subseteq RelatedActs(more, eli)
  <1>1. \A p, x : Objects(g, p, x) \subseteq Objects(more, p, x) /\ Subjects(g, p, x) \subseteq Subjects(more, p, x)
    BY DEF Objects, Subjects
  <1>2. ASSUME NEW a \in RelatedActs(g, eli) PROVE a \in RelatedActs(more, eli)
    <2>1. a # EliUri(eli)
      BY DEF RelatedActs
    <2>2. PICK t \in Objects(g, "classifiedByTaxonomyEntry", EliUri(eli)) :
          \E p \in Objects(g, "broader", t) : \E s \in Subjects(g, "broader", p) :
              a \in Subjects(g, "classifiedByTaxonomyEntry", s)
      BY DEF RelatedActs
    <2>3. PICK p \in Objects(g, "broader", t) : \E s \in Subjects(g, "broader", p) :
              a \in Subjects(g, "classifiedByTaxonomyEntry", s)
      BY <2>2
    <2>4. PICK s \in Subjects(g, "broader", p) : a \in Subjects(g, "classifiedByTaxonomyEntry", s)
      BY <2>3
    <2>5. /\ t \in Objects(more, "classifiedByTaxonomyEntry", EliUri(eli)) /\ p \in Objects(more, "broader", t)
          /\ s \in Subjects(more, "broader", p) /\ a \in Subjects(more, "classifiedByTaxonomyEntry", s)
      BY <1>1, <2>2, <2>3, <2>4
    <2> QED BY <2>1, <2>5 DEF RelatedActs
  <1> QED BY <1>2

LEMMA LawFound ==
    ASSUME NEW g, NEW word, NEW lang, NEW limit,
           NEW hits \in search_law(g, word, lang, limit, InTitle), NEW hit \in hits
    PROVE  \E a : Subject(g, a) /\ hit.eli = Relative(a)
  <1> DEFINE titles(a) == {t \in Titles(g, a, lang) : <<word, t>> \in InTitle}
             rows(a) == {[eli |-> Relative(a), sr |-> n, title |-> t]
                         : n \in Objects(g, "historicalLegalId", a), t \in titles(a)}
  <1>1. hits \in Cut(UNION {rows(a) : a \in Acts(g)}, limit)
    BY DEF search_law
  <1>2. \A a : \A r \in rows(a) : r.eli = Relative(a)
    <2> HIDE DEF titles
    <2> QED OBVIOUS
  <1> HIDE DEF rows
  <1>3. PICK a \in Acts(g) : hit \in rows(a)
    BY <1>1, CutOff
  <1> QED BY <1>2, <1>3, FoundIsSubject DEF Acts

LEMMA NumberFound ==
    ASSUME NEW g, NEW sr, NEW lang, NEW hits \in resolve_sr_number(g, sr, lang), NEW hit \in hits
    PROVE  \E a : Subject(g, a) /\ hit.eli = Relative(a)
  <1> DEFINE rows(a) == {[eli |-> Relative(a), title |-> t, status |-> s]
                 : t \in TitleOrNone(g, a, lang), s \in Optional(g, "inForceStatus", a)}
             found == Acts(g) \cap Subjects(g, "historicalLegalId", sr)
  <1>1. hits \in Cut(UNION {rows(a) : a \in found}, MaxRows)
    BY DEF resolve_sr_number
  <1>2. \A a : \A r \in rows(a) : r.eli = Relative(a)
    OBVIOUS
  <1> HIDE DEF rows
  <1>3. PICK a \in found : hit \in rows(a)
    BY <1>1, CutOff
  <1> QED BY <1>2, <1>3, FoundIsSubject DEF Acts

LEMMA TopicFound ==
    ASSUME NEW g, NEW eli, NEW limit, NEW hits \in find_related_by_topic(g, eli, limit), NEW hit \in hits
    PROVE  \E a \in RelatedActs(g, eli) : Subject(g, a) /\ hit.eli = Relative(a)
  <1> DEFINE rows(o) == {[eli |-> Relative(o), sr |-> n] : n \in Optional(g, "historicalLegalId", o)}
  <1>1. hits \in Cut(UNION {rows(o) : o \in RelatedActs(g, eli)}, limit)
    BY DEF find_related_by_topic
  <1>2. \A a : \A r \in rows(a) : r.eli = Relative(a)
    OBVIOUS
  <1> HIDE DEF rows
  <1>3. PICK a \in RelatedActs(g, eli) : hit \in rows(a)
    BY <1>1, CutOff
  <1>4. Subject(g, a)
    BY FoundIsSubject DEF RelatedActs
  <1> QED BY <1>2, <1>3, <1>4

(* What an answer of discovery says of the graph.                            *)
LeadsBack(g, s) ==
    s.kind = "hint" =>
        \A h \in s.data :
            /\ HitOk(g, h)
            /\ s.tool = "find_related_topic" /\ h.about # none => EliUri(s.eli) \in RelatedActs(g, h.about)

LEMMA StillLeadsBack ==
    ASSUME NEW g, NEW more, g \subseteq more, NEW s, LeadsBack(g, s)
    PROVE  LeadsBack(more, s)
  BY RelatedStay DEF LeadsBack, HitOk, Subject

LEMMA OtherAnswers ==
    /\ \A g : \A w \in {"nothing", "invalid", "upstream", "not_found"} : LeadsBack(g, Error(w))
    /\ \A g, q, a : LeadsBack(g, NormOf(q, a))
  BY DEF LeadsBack, Error, NormOf

Led(g, tool, about, hit) ==
    \E a : /\ Subject(g, a) /\ hit.eli = Relative(a)
           /\ tool = "find_related_topic" => a \in RelatedActs(g, about)

LEMMA HintLeadsBack ==
    ASSUME LawInv, NEW tool, NEW about, NEW hits, NEW q, NEW day, NEW r,
           r = [kind |-> "hint", tool |-> tool, eli |-> about, day |-> day,
                req |-> q, data |-> {AnnotateHit(q, h) : h \in hits}],
           \A hit \in hits : Led(graph, tool, about, hit)
    PROVE  LeadsBack(graph, r)
  <1>1. r.tool = tool /\ r.eli = about /\ r.data = {AnnotateHit(q, h) : h \in hits}
    OBVIOUS
  <1>2. SUFFICES ASSUME NEW h \in r.data
                 PROVE  /\ HitOk(graph, h)
                        /\ tool = "find_related_topic" /\ h.about # none =>
                               EliUri(about) \in RelatedActs(graph, h.about)
    BY <1>1 DEF LeadsBack
  <1>3. PICK hit \in hits : h = AnnotateHit(q, hit)
    BY <1>1
  <1>4. PICK a : /\ Subject(graph, a) /\ hit.eli = Relative(a)
                 /\ tool = "find_related_topic" => a \in RelatedActs(graph, about)
    BY <1>3 DEF Led
  <1>5. HitOk(graph, h) /\ (h.about # none => EliUri(h.about) = a)
    BY <1>3, <1>4, NameLeadsBack DEF LawInv
  <1> QED BY <1>4, <1>5, RelatedBothWays

LEMMA LeadsBackStep ==
    ASSUME LawInv, LeadsBack(graph, said), [ToolsNext]_toolsVars
    PROVE  LeadsBack(graph, said)'
  <1>1. CASE graph' = graph /\ said' = said
    BY <1>1
  <1>2. CASE UNCHANGED toolsVars
    BY <1>1, <1>2 DEF toolsVars, vars
  <1>3. CASE UNCHANGED vars
    BY <1>1, <1>3 DEF vars
  <1>4. CASE Next
    <2>1. ASSUME NEW q, Arrive(q) PROVE LeadsBack(graph, said)'
      BY <2>1, OtherAnswers DEF Arrive, Respond
    <2>2. CASE Upstream
      BY <2>2, OtherAnswers DEF Upstream, Respond
    <2>3. ASSUME NEW tool, NEW answers, Norm(tool, answers) PROVE LeadsBack(graph, said)'
      BY <2>3, OtherAnswers DEF Norm, Respond
    <2>4. CASE \/ CheckInForce \/ ListVersions \/ ResolveConsolidationAt
               \/ GetImpacts \/ GetOutgoingImpacts \/ GetArticleHistory \/ GetCitations
               \/ GetTaxonomy \/ GetSubdivisions \/ ListAnnexes
      BY <2>3, <2>4 DEF CheckInForce, ListVersions, ResolveConsolidationAt, GetImpacts, GetOutgoingImpacts,
         GetArticleHistory, GetCitations, GetTaxonomy, GetSubdivisions, ListAnnexes
    <2>5. CASE SearchLaw
      <3>1. PICK hits \in search_law(graph, req.word, LangOf(req), LimitOf(req), InTitle) :
                said' = [kind |-> "hint", tool |-> "search_law", eli |-> Genus, day |-> req.day,
                         req |-> req, data |-> {AnnotateHit(req, h) : h \in hits}]
        BY <2>5 DEF SearchLaw, Hint, Respond
      <3>2. graph' = graph
        BY <2>5 DEF SearchLaw, Hint
      <3>3. \A hit \in hits : Led(graph, "search_law", Genus, hit)
        BY LawFound DEF Led
      <3>4. LeadsBack(graph, said')
        BY <3>1, <3>3, HintLeadsBack
      <3> QED BY <3>2, <3>4
    <2>6. CASE ResolveSrNumber
      <3>1. PICK hits \in resolve_sr_number(graph, req.word, LangOf(req)) :
                said' = [kind |-> "hint", tool |-> "resolve_sr_number", eli |-> Genus, day |-> req.day,
                         req |-> req, data |-> {AnnotateHit(req, h) : h \in hits}]
        BY <2>6 DEF ResolveSrNumber, Hint, Respond
      <3>2. graph' = graph
        BY <2>6 DEF ResolveSrNumber, Hint
      <3>3. \A hit \in hits : Led(graph, "resolve_sr_number", Genus, hit)
        BY NumberFound DEF Led
      <3>4. LeadsBack(graph, said')
        BY <3>1, <3>3, HintLeadsBack
      <3> QED BY <3>2, <3>4
    <2>7. CASE FindRelatedTopic
      <3>1. PICK hits \in find_related_by_topic(graph, EliNew(req.eli), LimitOf(req)) :
                said' = [kind |-> "hint", tool |-> "find_related_topic", eli |-> EliNew(req.eli), day |-> req.day,
                         req |-> req, data |-> {AnnotateHit(req, h) : h \in hits}]
        BY <2>7 DEF FindRelatedTopic, Hint, Respond
      <3>2. graph' = graph
        BY <2>7 DEF FindRelatedTopic, Hint
      <3>3. \A hit \in hits : Led(graph, "find_related_topic", EliNew(req.eli), hit)
        BY TopicFound DEF Led
      <3>4. LeadsBack(graph, said')
        BY <3>1, <3>3, HintLeadsBack
      <3> QED BY <3>2, <3>4
    <2>8. CASE Primitive
      <3>1. graph' = graph
        BY <2>8 DEF Primitive
      <3>2. (\E a : said' = NormOf(req, a)) \/ said'.kind = "plain"
        BY <2>8 DEF Primitive, Respond
      <3> QED BY <3>1, <3>2, OtherAnswers DEF LeadsBack
    <2>9. CASE ExploreNode \/ ExploreSecond
      BY <2>9 DEF ExploreNode, ExploreSecond, Respond, LeadsBack
    <2>10. CASE Publish
      BY <2>10, StillLeadsBack DEF Publish
    <2> QED BY <1>4, <2>1, <2>2, <2>4, <2>5, <2>6, <2>7, <2>8, <2>9, <2>10 DEF Next
  <1> QED BY <1>2, <1>3, <1>4 DEF ToolsNext

(* What discovery names is in the graph under the name the metadata tools    *)
(* will look up, and stays there however much Fedlex publishes before the    *)
(* caller asks; each hit cites itself, and an act that is related to another *)
(* names it in turn (annotate_hit, strip_prefix(FEDLEX_BASE)).               *)
THEOREM HitsLeadBackAlways == ToolsSpec => []HitsLeadBack
  <1>1. ToolsInit => LeadsBack(graph, said)
    BY OtherAnswers DEF ToolsInit, Init
  <1>2. LawInv /\ LeadsBack(graph, said) /\ [ToolsNext]_toolsVars => LeadsBack(graph, said)'
    BY LeadsBackStep
  <1>3. LeadsBack(graph, said) => HitsLeadBack
    BY DEF LeadsBack, HitOk, Subject, HitsLeadBack
  <1> QED BY <1>1, <1>2, <1>3, LawAlways, PTL DEF ToolsSpec
=============================================================================
