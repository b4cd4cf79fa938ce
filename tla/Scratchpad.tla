----------------------------- MODULE Scratchpad ------------------------------
(***************************************************************************)
(* The scratchpad: TenantRepository over a store of strings (repository.rs *)
(* and scratchpad.rs of fedlex-store; redis_store.rs when the store is     *)
(* Redis).  All that keeps tenants apart is how keys are made (TenantKeys).*)
(*                                                                         *)
(* A call connects, sends one command and reads its reply.  Connecting and *)
(* the reply may fail; the store in memory is the case where neither does. *)
(***************************************************************************)
EXTENDS TenantKeys

CONSTANTS
    Callers,
    Claims,         \* what claims of tokens say: a tenant and a session
    UserKeys,       \* what callers name their entries
    Values, none

VARIABLES
    store,      \* the strings of the store: a function of those there are
    request,    \* the call of each caller
    reply       \* its last answer, until it calls again

vars == <<store, request, reply>>

Idle == [pc |-> "idle"]
Waiting == [kind |-> "none"]
Invalid == [kind |-> "invalid"]
Lost == [kind |-> "error"]

\* TenantContext::new, of TenantId::from_claim and SessionId::from_claim.
Contexts == {ctx \in Claims : ValidComponent(ctx.tenant) /\ ValidComponent(ctx.session)}

Held(key) == IF key \in DOMAIN store THEN store[key] ELSE none

Init ==
    /\ store = <<>>
    /\ request = [c \in Callers |-> Idle]
    /\ reply = [c \in Callers |-> Waiting]

\* put, get and delete of the repository: the key is made, or the call refused.
Call(c, op, ctx, user_key, value) ==
    /\ request[c] = Idle
    /\ \/ /\ ValidComponent(user_key)
          /\ request' = [request EXCEPT ![c] =
                [pc |-> "send", key |-> ScratchpadKey(ctx, user_key),
                 req |-> [op |-> op, owner |-> ctx, name |-> user_key, value |-> value]]]
          /\ reply' = [reply EXCEPT ![c] = Waiting]
       \/ /\ ~ValidComponent(user_key)
          /\ reply' = [reply EXCEPT ![c] = Invalid]
          /\ UNCHANGED request
    /\ UNCHANGED store

Sends(c, op) == request[c].pc = "send" /\ request[c].req.op = op
Returns(c, v) == request' = [request EXCEPT ![c] = [pc |-> "reply", value |-> v]]

Put(c) ==
    /\ Sends(c, "put")
    /\ store' = [k \in DOMAIN store \cup {request[c].key} |->
                    IF k = request[c].key THEN request[c].req.value ELSE store[k]]
    /\ Returns(c, none)
    /\ UNCHANGED reply

Get(c) ==
    /\ Sends(c, "get")
    /\ Returns(c, Held(request[c].key))
    /\ UNCHANGED <<store, reply>>

\* Whether something was removed.
Delete(c) ==
    /\ Sends(c, "delete")
    /\ store' = [k \in DOMAIN store \ {request[c].key} |-> store[k]]
    /\ Returns(c, request[c].key \in DOMAIN store)
    /\ UNCHANGED reply

Reply(c) ==
    /\ request[c].pc = "reply"
    /\ reply' = [reply EXCEPT ![c] = [kind |-> "ok", value |-> request[c].value]]
    /\ request' = [request EXCEPT ![c] = Idle]
    /\ UNCHANGED store

\* No connection, or none any more: before or after the command ran.
Fails(c) ==
    /\ request[c] # Idle
    /\ reply' = [reply EXCEPT ![c] = Lost]
    /\ request' = [request EXCEPT ![c] = Idle]
    /\ UNCHANGED store

\* Redis keeps nothing over a restart.
StoreRestart ==
    /\ store # <<>>
    /\ store' = <<>>
    /\ UNCHANGED <<request, reply>>

Next ==
    \/ \E c \in Callers, op \in {"put", "get", "delete"}, ctx \in Contexts, u \in UserKeys, v \in Values :
           Call(c, op, ctx, u, v)
    \/ \E c \in Callers : Put(c) \/ Get(c) \/ Delete(c) \/ Reply(c) \/ Fails(c)
    \/ StoreRestart

Spec == Init /\ [][Next]_vars

-----------------------------------------------------------------------------
(* Whatever sessions, entries and calls at once: each session has a pad of   *)
(* its own, and a call answers for one moment between its start and its end  *)
(* (TenantContext::key, TenantRepository).                                   *)
Names == {u \in UserKeys : ValidComponent(u)}
Pads == INSTANCE PrivatePads WITH
    Owners <- Contexts,
    pad <- [o \in Contexts |-> [n \in Names |-> Held(ScratchpadKey(o, n))]],
    asked <- [c \in Callers |->
                 CASE request[c] = Idle -> Idle
                   [] request[c].pc = "send"  -> [pc |-> "asked", req |-> request[c].req]
                   [] request[c].pc = "reply" -> [pc |-> "done", value |-> request[c].value]]

KeepsApart == Pads!Spec
=============================================================================
