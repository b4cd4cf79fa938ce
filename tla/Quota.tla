------------------------------- MODULE Quota -------------------------------
(***************************************************************************)
(* The distributed quota of mcp-reader (quota.rs) over the Redis token     *)
(* bucket of fedlex-store (token_bucket.rs): several pods, any number of   *)
(* calls in flight, one Redis bucket per session key, one fallback bucket  *)
(* per pod and key.                                                        *)
(*                                                                         *)
(* A call is stamped with the clock of its pod when the request arrives,   *)
(* the script runs in Redis some time later and in any order, and the      *)
(* reply may be lost.  A call whose Redis attempt fails is decided by the  *)
(* pod-local bucket, with the same stamp; its command may still reach      *)
(* Redis afterwards.  Redis keeps nothing on disk, a pod keeps nothing.    *)
(***************************************************************************)
EXTENDS TokenBucket, FiniteSets

CONSTANTS
    Pods,               \* replicas of the reader
    Keys,               \* quota:{tenant}:{session}, taken from the claim alone
    Calls,              \* slots for tool calls in flight
    Roles,
    RolesOf,            \* the roles a session's credentials carry
    Capacity, Refill,   \* bucket parameters of each role
    FallbackCapacity, FallbackRefill,
    Costs,              \* cost weights of the tool pools
    Ttl,                \* lifetime of an untouched Redis key
    BurstLimit, RateLimit, \* upper bounds of Capacity and Refill over the roles
    MaxSkew,            \* how far the pods' clocks are apart
    MaxDelay,           \* how long a command is under way to Redis
    MaxTime, MaxCalls, MaxLosses   \* bounds of the model, not of the program

ASSUME SetsAssumption ==
    /\ RolesOf \in [Keys -> SUBSET Roles]
    /\ Costs \subseteq Nat \ {0}

ASSUME ParamsAssumption ==
    /\ Capacity \in [Roles -> Nat] /\ Refill \in [Roles -> Nat]
    /\ FallbackCapacity \in Nat /\ FallbackRefill \in Nat
    /\ BurstLimit \in Nat /\ RateLimit \in Nat
    /\ \A r \in Roles : Capacity[r] <= BurstLimit /\ Refill[r] <= RateLimit

\* An expired key is back at full level by refill alone: 240 = 4/s * 60 s.
ASSUME TtlAssumption == Ttl \in Nat /\ BurstLimit <= RateLimit * Ttl

ASSUME BoundsAssumption ==
    /\ MaxSkew \in Nat /\ MaxDelay \in Nat
    /\ MaxTime \in Nat /\ MaxCalls \in Nat /\ MaxLosses \in Nat

VARIABLES
    now,        \* Redis' clock, against which its keys expire
    skew,       \* how far a pod's wall clock is ahead of it
    bucket,     \* the hash of a key in Redis
    local,      \* a pod's PodLocalBucket
    call,       \* the calls in flight
    issued,     \* how many calls were begun (bounded by MaxCalls)
    ledger,     \* history: what the Redis bucket of a key granted
    podLedger,  \* history: what a pod's fallback bucket granted
    admitted    \* history: the cost of the calls a session was allowed

vars == <<now, skew, bucket, local, call, issued, ledger, podLedger, admitted>>
history == <<ledger, podLedger, admitted>>

Idle == [pc |-> "idle"]
CallType ==
    [pc : {"sent", "orphan"}, pod : Pods, key : Keys, role : Roles, cost : Costs, stamp : Nat]
    \cup
    [pc : {"ran"}, pod : Pods, key : Keys, role : Roles, cost : Costs, stamp : Nat, ok : BOOLEAN]
    \cup {Idle}

NoBucket == [live |-> FALSE, tokens |-> 0, ts |-> 0, expires |-> 0]
NoEntry  == [live |-> FALSE, tokens |-> 0, ts |-> 0]

Init ==
    /\ now = 0
    /\ skew \in [Pods -> 0..MaxSkew]
    /\ bucket = [k \in Keys |-> NoBucket]
    /\ local = [p \in Pods |-> [k \in Keys |-> NoEntry]]
    /\ call = [c \in Calls |-> Idle]
    /\ issued = 0
    /\ ledger = [k \in Keys |-> EmptyLedger]
    /\ podLedger = [p \in Pods |-> [k \in Keys |-> EmptyLedger]]
    /\ admitted = [k \in Keys |-> 0]

-----------------------------------------------------------------------------
(* A tool call arrives at a pod: the transport reads the wall clock, then   *)
(* awaits the Redis attempt.                                                *)
Begin(c, p, k, r, w) ==
    /\ issued < MaxCalls
    /\ call[c] = Idle
    /\ r \in RolesOf[k]
    /\ call' = [call EXCEPT ![c] = [pc |-> "sent", pod |-> p, key |-> k, role |-> r,
                                    cost |-> w, stamp |-> now + skew[p]]]
    /\ issued' = issued + 1
    /\ UNCHANGED <<now, skew, bucket, local, history>>

\* Redis drops a key whose lifetime is over before it serves another command.
Live(k) == bucket[k].live /\ now < bucket[k].expires

\* The time up to which the bucket of k has been credited: a bucket that
\* expired counts as refilled for its whole lifetime.
CreditedUpTo(k) ==
    IF bucket[k].live /\ ~Live(k) THEN ledger[k].clock + Ttl ELSE ledger[k].clock

ScriptLevel(k, r, s) ==
    IF Live(k) THEN Available(bucket[k].tokens, bucket[k].ts, Capacity[r], Refill[r], s)
               ELSE Capacity[r]

(* The Lua script, one atomic step in Redis: refill, check, deduct, write   *)
(* back the level with the caller's stamp, renew the lifetime.              *)
RunScript(c) ==
    /\ call[c].pc \in {"sent", "orphan"}
    /\ LET k     == call[c].key
           cost  == call[c].cost
           s     == call[c].stamp
           avail == ScriptLevel(k, call[c].role, s)
       IN
       /\ bucket' = [bucket EXCEPT ![k] = [live |-> TRUE, tokens |-> Remaining(avail, cost),
                                           ts |-> s, expires |-> now + Ttl]]
       /\ ledger' = [ledger EXCEPT ![k] =
                        Booked(@, CreditedUpTo(k), s, Taken(avail, cost))]
       /\ call' = [call EXCEPT ![c] =
                      IF call[c].pc = "orphan" THEN Idle
                      ELSE [pc |-> "ran", pod |-> @.pod, key |-> k, role |-> @.role,
                            cost |-> cost, stamp |-> s, ok |-> avail >= cost]]
    /\ UNCHANGED <<now, skew, local, issued, podLedger, admitted>>

\* check_weighted hands the decision of the backend through, degraded = false.
Reply(c) ==
    /\ call[c].pc = "ran"
    /\ call' = [call EXCEPT ![c] = Idle]
    /\ admitted' = [admitted EXCEPT ![call[c].key] =
                        IF call[c].ok THEN @ + call[c].cost ELSE @]
    /\ UNCHANGED <<now, skew, bucket, local, issued, ledger, podLedger>>

\* Mutant of LocalLevel: the pod forgets its bucket between two calls.
ForgottenLocal(p, k, s) == FallbackCapacity

LocalLevel(p, k, s) ==
    IF local[p][k].live
    THEN Available(local[p][k].tokens, local[p][k].ts, FallbackCapacity, FallbackRefill, s)
    ELSE FallbackCapacity

(* Mutant of Fallback: a call is admitted because Redis cannot be asked.    *)
FailOpen(c) ==
    /\ call[c].pc \in {"sent", "ran"}
    /\ admitted' = [admitted EXCEPT ![call[c].key] = @ + call[c].cost]
    /\ call' = [call EXCEPT ![c] = Idle]
    /\ UNCHANGED <<now, skew, bucket, local, issued, ledger, podLedger>>

(* The attempt failed, before or after the script ran: the pod-local bucket *)
(* decides, degraded = true.  A command whose caller has given up may still *)
(* be on its way (orphan).                                                  *)
Fallback(c) ==
    /\ call[c].pc \in {"sent", "ran"}
    /\ LET p     == call[c].pod
           k     == call[c].key
           cost  == call[c].cost
           s     == call[c].stamp
           avail == LocalLevel(p, k, s)
       IN
       /\ local' = [local EXCEPT ![p][k] =
                       [live |-> TRUE, tokens |-> Remaining(avail, cost), ts |-> s]]
       /\ podLedger' = [podLedger EXCEPT ![p][k] =
                           Booked(@, @.clock, s, Taken(avail, cost))]
       /\ admitted' = [admitted EXCEPT ![k] = @ + Taken(avail, cost)]
       /\ \/ call' = [call EXCEPT ![c] = Idle]
          \/ /\ call[c].pc = "sent"
             /\ call' = [call EXCEPT ![c].pc = "orphan"]
    /\ UNCHANGED <<now, skew, bucket, issued, ledger>>

\* The command of a caller that has given up never reaches Redis.
DropOrphan(c) ==
    /\ call[c].pc = "orphan"
    /\ call' = [call EXCEPT ![c] = Idle]
    /\ UNCHANGED <<now, skew, bucket, local, issued, history>>

Tick ==
    /\ now < MaxTime
    /\ \A c \in Calls : call[c].pc \in {"sent", "orphan"} => now < call[c].stamp + MaxDelay
    /\ now' = now + 1
    /\ UNCHANGED <<skew, bucket, local, call, issued, history>>

\* The wall clock of a pod is set, forward or back.
AdjustClock(p) ==
    /\ \E d \in 0..MaxSkew \ {skew[p]} : skew' = [skew EXCEPT ![p] = d]
    /\ UNCHANGED <<now, bucket, local, call, issued, history>>

\* Redis runs without persistence: a restart forgets every bucket.
RedisRestart ==
    /\ \A k \in Keys : ledger[k].losses < MaxLosses
    /\ bucket' = [k \in Keys |-> NoBucket]
    /\ ledger' = [k \in Keys |-> Lost(ledger[k])]
    /\ UNCHANGED <<now, skew, local, call, issued, podLedger, admitted>>

\* A pod is replaced: its fallback buckets and the calls it was serving are
\* gone, commands it had sent may still run.
PodRestart(p) ==
    /\ \A k \in Keys : podLedger[p][k].losses < MaxLosses
    /\ local' = [local EXCEPT ![p] = [k \in Keys |-> NoEntry]]
    /\ podLedger' = [podLedger EXCEPT ![p] = [k \in Keys |-> Lost(podLedger[p][k])]]
    /\ call' = [c \in Calls |->
                  CASE call[c].pc = "sent" /\ call[c].pod = p -> [call[c] EXCEPT !.pc = "orphan"]
                    [] call[c].pc = "ran"  /\ call[c].pod = p -> Idle
                    [] OTHER -> call[c]]
    /\ UNCHANGED <<now, skew, bucket, issued, ledger, admitted>>

CallStep(c) == RunScript(c) \/ Reply(c) \/ Fallback(c) \/ DropOrphan(c)

Next ==
    \/ \E c \in Calls : CallStep(c)
    \/ \E c \in Calls, p \in Pods, k \in Keys, r \in Roles, w \in Costs : Begin(c, p, k, r, w)
    \/ \E p \in Pods : AdjustClock(p) \/ PodRestart(p)
    \/ Tick
    \/ RedisRestart

Spec == Init /\ [][Next]_vars

-----------------------------------------------------------------------------
(* Properties.                                                              *)

TypeOK ==
    /\ now \in Nat
    /\ skew \in [Pods -> 0..MaxSkew]
    /\ bucket \in [Keys -> [live : BOOLEAN, tokens : Nat, ts : Nat, expires : Nat]]
    /\ local \in [Pods -> [Keys -> [live : BOOLEAN, tokens : Nat, ts : Nat]]]
    /\ call \in [Calls -> CallType]
    /\ issued \in Nat
    /\ ledger \in [Keys -> Ledger]
    /\ podLedger \in [Pods -> [Keys -> Ledger]]
    /\ admitted \in [Keys -> Nat]

(* The global limit of a session, over all pods and whatever is lost or     *)
(* reordered (TOKEN_BUCKET_LUA, check_weighted): since its first call Redis *)
(* has granted at most one burst, one more burst per restart of Redis, and  *)
(* the refill of the time that passed, where the time between an attempt    *)
(* and an older one that overtook it counts twice.                          *)
GlobalLimit ==
    \A k \in Keys :
        ledger[k].first # Never =>
            ledger[k].granted <= Budget(ledger[k], BurstLimit, RateLimit, now + MaxSkew)

(* The same limit without allowance for late attempts: one burst per life   *)
(* of Redis and the refill of the time that passed.  It is what a bucket    *)
(* shared by all pods is for; it holds when every command reaches Redis in  *)
(* the tick it was stamped in (MaxDelay = 0, MaxSkew = 0).                  *)
LimitAcrossPods ==
    \A k \in Keys :
        ledger[k].first # Never =>
            ledger[k].granted <= BurstLimit * (1 + ledger[k].losses)
                                 + RateLimit * (now - ledger[k].first)

(* Degraded operation is bounded per pod and session by the conservative    *)
(* parameters, one burst per life of the pod (fallback_params,              *)
(* PodLocalBucket::try_acquire).                                            *)
FallbackLimit ==
    \A p \in Pods, k \in Keys :
        podLedger[p][k].first # Never =>
            podLedger[p][k].granted <=
                Budget(podLedger[p][k], FallbackCapacity, FallbackRefill, now + MaxSkew)

(* The inductive invariant behind the two limits: every bucket agrees with  *)
(* its ledger, and no stamp is ahead of the fastest clock.                  *)
BooksBalance ==
    /\ \A k \in Keys :
          /\ Accounted(bucket[k], ledger[k], BurstLimit, RateLimit)
          /\ ledger[k].clock <= now + MaxSkew
    /\ \A p \in Pods, k \in Keys :
          /\ Accounted(local[p][k], podLedger[p][k], FallbackCapacity, FallbackRefill)
          /\ podLedger[p][k].clock <= now + MaxSkew
    /\ \A c \in Calls : call[c].pc # "idle" => call[c].stamp <= now + MaxSkew

\* The units a function has in all its places, and those the pods granted a session.
Units(f) == UNION {{x} \X (1..f[x]) : x \in DOMAIN f}
PodUnits(k) == Units([p \in Pods |-> podLedger[p][k].granted])

(* Fail-closed (check_weighted): no failure of Redis, of a reply or of a    *)
(* pod lets a session run calls that no bucket has paid for.                *)
FailClosed == \A k \in Keys : admitted[k] <= ledger[k].granted + Cardinality(PodUnits(k))

\* Whether the hints for those refused at stamp s are long enough.
HintsSuffice(level, rate, cap, s) ==
    rate > 0 =>
        \A w \in Costs : level < w /\ w <= cap =>
            Available(level, s, cap, rate, s + RetryAfter(level, w, rate)) >= w

(* A refused caller that waits retry_after and is alone finds the tokens it *)
(* asked for (the retry computation of the script and of PodLocalBucket).   *)
RetryHonest ==
    \A k \in Keys, s \in 0..(now + MaxSkew) :
        /\ \A r \in RolesOf[k] : HintsSuffice(ScriptLevel(k, r, s), Refill[r], Capacity[r], s)
        /\ \A p \in Pods : HintsSuffice(LocalLevel(p, k, s), FallbackRefill, FallbackCapacity, s)

(* One call never costs a session more than the weight of its tool, even    *)
(* if it comes late or is refused; only the smaller capacity of a role may  *)
(* cap what the session has saved (the script's refill and write back).     *)
CallTakesAtMostItsCost ==
    [][\A c \in Calls : RunScript(c) =>
          LET k    == call[c].key
              kept == Lesser(bucket[k].tokens, Capacity[call[c].role])
          IN  Live(k) => bucket'[k].tokens >= kept - call[c].cost]_vars
=============================================================================
