------------------------------- MODULE Startup -------------------------------
(***************************************************************************)
(* How the environment becomes a pod (main.rs, redis_tls.rs): the guards   *)
(* of the transport and the negotiation of `initialize` it configures      *)
(* (protocol.rs), and the tokens its resolver then takes (auth.rs).        *)
(* Settings are `none` when missing; files are known by what is in them.   *)
(* A header or a setting is the sequence of its symbols, a version or an   *)
(* origin being one symbol.                                                *)
(***************************************************************************)
EXTENDS TenantKeys

CONSTANTS none,
    opaque      \* a header whose bytes are no text

SUPPORTED_PROTOCOL_VERSIONS == <<"2024-11-05", "2025-11-25">>
DEFAULT_PROTOCOL_VERSION == "2025-11-25"

highest_supported == Last(SUPPORTED_PROTOCOL_VERSIONS)
is_supported(v) == v \in ToSet(SUPPORTED_PROTOCOL_VERSIONS)

\* MCP_PROTOCOL_DEFAULT, when it names a version that is supported.
default_protocol_version(setting) == IF is_supported(setting) THEN setting ELSE DEFAULT_PROTOCOL_VERSION

\* Mutant of negotiate: the client is taken at its word.
Agreeable(requested, default) == IF requested = none THEN default ELSE requested

negotiate(requested, default) ==
    IF requested = none THEN default
    ELSE IF is_supported(requested) THEN requested ELSE highest_supported

-----------------------------------------------------------------------------
Trimmed(s) == SelectSeq(s, LAMBDA c : c # " ")

\* header_str
Readable(h) == IF h = opaque THEN none ELSE h

\* A header that is missing, unreadable or blank says nothing.
Says(h) == Readable(h) # none /\ Trimmed(h) # <<>>

\* classify_protocol_header, when it is Unsupported.
UnsupportedVersion(h) == Says(h) /\ ~ \E v \in ToSet(SUPPORTED_PROTOCOL_VERSIONS) : Trimmed(h) = <<v>>

\* allowed_origins_from_env: the setting is a list of what stands between commas.
AllowedOrigins(setting) ==
    IF setting = none THEN {} ELSE {Trimmed(s) : s \in ToSet(setting)} \ {<<>>}

\* classify_origin, when it is Forbidden.
ForbiddenOrigin(h, allowed) == Says(h) /\ Trimmed(h) \notin allowed

-----------------------------------------------------------------------------
Refused == "refused"

\* RedisTlsConfig::from_files, and what the library makes of the text.
Pem(file) == file = "pem"

\* build_quota_backend: all three files or none, and then only rediss://.
build_quota_backend(env) ==
    LET files == {env.ca, env.cert, env.key}
    IN  IF files = {none} THEN "by_url"
        ELSE IF (\A f \in files : Pem(f)) /\ env.scheme = "rediss" THEN "mtls"
        ELSE Refused

\* Mutant of build_auth_resolver: the token for development comes first.
DevFirst(env) ==
    IF env.dev # none THEN "dev"
    ELSE IF env.hs256 # none THEN IF env.issuer = none THEN Refused ELSE "hs256" ELSE "closed"

\* build_auth_resolver: JWKS, HS256, RS256, the token for development, nothing.
build_auth_resolver(env) ==
    LET Jwt(mode) == IF env.issuer = none THEN Refused ELSE mode
    IN  IF env.jwks # none THEN Jwt("jwks")
        ELSE IF env.hs256 # none THEN Jwt("hs256")
        ELSE IF env.rs256 # none THEN IF Pem(env.rs256) THEN Jwt("rs256") ELSE Refused
        ELSE IF env.dev # none THEN "dev" ELSE "closed"

\* The pod, or none when main returns an error.
Pod(env) ==
    LET link == build_quota_backend(env)
        mode == build_auth_resolver(env)
    IN  IF Refused \in {link, mode} THEN none
        ELSE [link |-> link, mode |-> mode, default |-> default_protocol_version(env.version),
              origins |-> AllowedOrigins(env.origins)]

-----------------------------------------------------------------------------
\* bearer: what follows the prefix, of a header that is text.
bearer(authorization) ==
    IF authorization \in {none, opaque} \/ authorization.scheme # "Bearer" THEN none ELSE authorization.token

role_from_claim(raw) ==
    CASE raw = "reader" -> "Reader" [] raw = "navigator" -> "Navigator" [] raw = "validator" -> "Validator"
      [] OTHER -> none

(* The claims of a token for this mode, or none.  `fit` stands for what the  *)
(* jsonwebtoken library checks: signature, exp, issuer, audience; `keys` for *)
(* the kids of the JWKS document in force.                                   *)
verify(mode, keys, token) ==
    IF mode = "dev" /\ token.kind = "dev"
    THEN [tenant |-> <<"dev">>, session |-> <<"dev">>, role |-> "Validator"]
    ELSE IF /\ mode \in {"jwks", "hs256", "rs256"} /\ token.kind = mode /\ token.fit
            /\ mode = "jwks" => token.kid \in keys
            /\ ValidComponent(token.tenant) /\ ValidComponent(token.session)
            /\ role_from_claim(token.role) # none
         THEN [tenant |-> token.tenant, session |-> token.session, role |-> role_from_claim(token.role)]
    ELSE none
=============================================================================
