--------------------------------- MODULE Pod ---------------------------------
(***************************************************************************)
(* What a pod of the reader keeps in its memory and shares among its tasks *)
(* beside the way of a call (NormReader), its quota (Quota) and its keys   *)
(* (KeyRotation).  The parts share no state; a behaviour is about one.     *)
(***************************************************************************)
EXTENDS BreakerConfig, SequencesExt

CONSTANTS
    none,
    Resolvers,                              \* CircuitBreaker, with BreakerConfig
    Callers, Keys, WarmKeys, MaxVersion,    \* WarmCache
    MaxRemovals,                            \* WarmCache, XmlEngine
    Claims, UserKeys, Values,               \* Scratchpad
    Raws, PageSizes,                        \* XmlEngine
    Searches, Threads,                      \* Sandbox
    Probes                                  \* Readiness

\* warm is called with keys, and with some.
ASSUME WarmKeysAssumption == WarmKeys \in Seq(Keys) /\ WarmKeys # <<>>

\* Claims and names are text.
ASSUME TextAssumption ==
    /\ Claims \subseteq [tenant : Seq(STRING), session : Seq(STRING)]
    /\ UserKeys \subseteq Seq(STRING)

\* A line of an act has a bar, and then two texts, or it has none.
ASSUME ActsAssumption ==
    /\ Raws \subseteq Seq([bar : {TRUE}, id : STRING, text : STRING] \cup [bar : {FALSE}])
    /\ PageSizes \subseteq Nat

\* none is told from whatever is stored.
ASSUME NoneAssumption ==
    /\ none \notin Nat
    /\ none \notin [version : Nat, raced : BOOLEAN]
    /\ none \notin [by : Callers, version : Nat \cup {none}, raced : BOOLEAN]
    /\ none \notin Values
    /\ none \notin Seq([id : STRING, text : STRING])

VARIABLES
    part,
    state, failures, opened, age, resolver, answer,                 \* CircuitBreaker
    source, cache, flight, caller, told, loads, removals, owed,     \* WarmCache
    store, request, reply,                                          \* Scratchpad
    held, parse_count, removed, walk, copy,                         \* XmlEngine
    work, outcome,                                                  \* Sandbox
    link, live, started, asking, failing, seen, routed              \* Readiness

Breaker == INSTANCE CircuitBreaker WITH Callers <- Resolvers, caller <- resolver
Warm    == INSTANCE WarmCache
Pad     == INSTANCE Scratchpad
Xml     == INSTANCE XmlEngine
Box     == INSTANCE Sandbox
Ready   == INSTANCE Readiness

Parts == {"breaker", "warmup", "scratchpad", "xml_engine", "sandbox", "health"}

Init ==
    /\ part \in Parts
    /\ Breaker!Init /\ Warm!Init /\ Pad!Init /\ Xml!Init /\ Box!Init
    /\ Ready!Init /\ (part # "health" => link = [d \in Ready!Dependencies |-> "up"])

breakerVars == <<state, failures, opened, age, resolver, answer>>
warmVars    == <<source, cache, flight, caller, told, loads, removals, owed>>
padVars     == <<store, request, reply>>
xmlVars     == <<held, parse_count, removed, walk, copy>>
boxVars     == <<work, outcome>>
readyVars   == <<link, live, started, asking, failing, seen, routed>>
vars        == <<part, breakerVars, warmVars, padVars, xmlVars, boxVars, readyVars>>

Next ==
    /\ UNCHANGED part
    /\ \/ part = "breaker" /\ Breaker!Next /\ UNCHANGED <<warmVars, padVars, xmlVars, boxVars, readyVars>>
       \/ part = "warmup" /\ Warm!Next /\ UNCHANGED <<breakerVars, padVars, xmlVars, boxVars, readyVars>>
       \/ part = "scratchpad" /\ Pad!Next /\ UNCHANGED <<breakerVars, warmVars, xmlVars, boxVars, readyVars>>
       \/ part = "xml_engine" /\ Xml!Next /\ UNCHANGED <<breakerVars, warmVars, padVars, boxVars, readyVars>>
       \/ part = "sandbox" /\ Box!Next /\ UNCHANGED <<breakerVars, warmVars, padVars, xmlVars, readyVars>>
       \/ part = "health" /\ Ready!Next /\ UNCHANGED <<breakerVars, warmVars, padVars, xmlVars, boxVars>>

\* The fairness of the parts (CircuitBreaker, WarmCache, Sandbox, Readiness), of a
\* part that rests too; but there the breaker's callers would call, and a pod would
\* start, so these two are owed a step only where a behaviour is about them.
Fairness ==
    /\ Warm!Fairness /\ Box!Fairness
    /\ WF_breakerVars(part = "breaker" /\ Breaker!Tick)
    /\ \A c \in Resolvers :
          /\ WF_breakerVars(part = "breaker" /\ (Breaker!OnSuccess(c) \/ Breaker!OnFailure(c) \/ Breaker!Cancel(c)))
          /\ WF_breakerVars(part = "breaker" /\ Breaker!Admit(c))
    /\ WF_readyVars(part = "health" /\ Ready!MarkStarted)
    /\ WF_readyVars(part = "health" /\ Ready!Startupz)
    /\ WF_readyVars(part = "health" /\ Ready!Livez)
    /\ WF_readyVars(part = "health" /\ Ready!Readyz)
    /\ WF_readyVars(part = "health" /\ (Ready!ProbeReady \/ Ready!ProbeFails \/ Ready!GiveUp))
    /\ WF_readyVars(part = "health" /\ Ready!Answer)

Spec == Init /\ [][Next]_vars /\ Fairness

(* What a part promises, of the behaviours that are about it.                *)

(* CircuitBreaker implements BreakerPolicy.                                  *)
KeepsPolicy == Breaker!KeepsPolicy

(* CircuitBreaker: it finds back to an endpoint that is well.                *)
RecoversWhenHealthy == part = "breaker" => Breaker!RecoversWhenHealthy

(* WarmupCache: what is held is as new as the last invalidation.             *)
FreshOrRaced == part = "warmup" => Warm!FreshOrRaced

(* WarmupCache: one load per miss.                                           *)
LoadsAreNeeded == part = "warmup" => Warm!LoadsAreNeeded

(* WarmupCache: nobody waits for ever for the load of another.               *)
NobodyWaitsForever == part = "warmup" => Warm!NobodyWaitsForever

(* TenantRepository implements a pad per session.                            *)
KeepsApart == Pad!KeepsApart

(* paginate, L1Cache: a walk has every article once, in order.               *)
WalkIsWhole == part = "xml_engine" => Xml!WalkIsWhole

(* SearchSandbox: every caller is told something in the end.                 *)
ToldInTime == part = "sandbox" => Box!ToldInTime

(* HealthState: calls follow the dependencies.                               *)
RoutedAsReady == part = "health" => Ready!RoutedAsReady
=============================================================================
