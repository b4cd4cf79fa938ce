----------------------------- MODULE TenantKeys -----------------------------
(***************************************************************************)
(* The names under which tenants keep things (fedlex-store key.rs) and the *)
(* other keys of the reader in Redis.  A name is the sequence of its       *)
(* characters; words the code writes itself are one symbol.                *)
(***************************************************************************)
EXTENDS SequencesExt

Separator == ":"
Forbidden == {Separator, "*", "?", "[", "]"}

\* validate_component: not blank, and free of separators and wildcards.
ValidComponent(raw) == (\E i \in DOMAIN raw : raw[i] # " ") /\ ToSet(raw) \cap Forbidden = {}

\* Mutant of ScratchpadKey: the sessions of a tenant share their entries.
KeyOfTenant(ctx, user_key) == ctx.tenant \o <<Separator>> \o user_key

\* TenantContext::key
ScratchpadKey(ctx, user_key) == ctx.tenant \o <<Separator>> \o ctx.session \o <<Separator>> \o user_key

\* quota_key
QuotaKey(claims) == <<"quota", Separator>> \o claims.tenant \o <<Separator>> \o claims.session

\* the bucket of QuotaBackendProbe
ProbeKey == <<"healthz", Separator, "probe">>
=============================================================================
