--------------------------- MODULE CircuitBreaker ---------------------------
(***************************************************************************)
(* The circuit breaker of mcp-reader (circuit_breaker.rs) under the        *)
(* concurrent callers of the LOD gateway (lod_gateway.rs).                 *)
(*                                                                         *)
(* Each method holds the mutex for one step; the external call itself runs *)
(* without it, so any number of calls are under way when the state         *)
(* changes, and an answer may belong to a state long gone.  Only the age   *)
(* of the last opening matters to the code, so the wall clock is modelled  *)
(* by that age.                                                            *)
(***************************************************************************)
EXTENDS BreakerConfig, FiniteSets

CONSTANTS Callers    \* tasks that resolve references

VARIABLES
    state,       \* "Closed", "Open" or "HalfOpen"
    failures,    \* consecutive_failures, counted up to Threshold: more is never told apart
    opened,      \* opened_at is set
    age,         \* now_utc() - opened_at; Cooldown stands for anything longer
    caller,      \* "idle", "calling", or "probing": admitted in HalfOpen
    answer       \* what the resolver returned last

vars == <<state, failures, opened, age, caller, answer>>
breaker == <<state, failures, opened, age>>

Init ==
    /\ state = "Closed" /\ failures = 0 /\ opened = FALSE /\ age = 0
    /\ caller = [c \in Callers |-> "idle"]
    /\ answer = [c \in Callers |-> "none"]

-----------------------------------------------------------------------------
\* The state once a due cooldown has been taken into account.
Refreshed == IF state = "Open" /\ opened /\ age >= Cooldown THEN "HalfOpen" ELSE state

\* Anyone may ask for the state, which performs the transition that is due.
AskState ==
    /\ state' = Refreshed
    /\ UNCHANGED <<failures, opened, age, caller, answer>>

(* EliResolver::resolve: a reference of the local stock never touches the   *)
(* breaker; any other goes through call().                                  *)
ResolveLocal(c) ==
    /\ caller[c] = "idle"
    /\ answer' = [answer EXCEPT ![c] = "local"]
    /\ UNCHANGED <<breaker, caller>>

\* allow() lets the call through.
Admit(c) ==
    /\ caller[c] = "idle"
    /\ Refreshed # "Open"
    /\ state' = Refreshed
    /\ caller' = [caller EXCEPT ![c] = IF Refreshed = "HalfOpen" THEN "probing" ELSE "calling"]
    /\ answer' = [answer EXCEPT ![c] = "none"]
    /\ UNCHANGED <<failures, opened, age>>

\* allow() refuses: BreakerError::Open, reported as Unavailable.
ShortCircuit(c) ==
    /\ caller[c] = "idle"
    /\ Refreshed = "Open"
    /\ answer' = [answer EXCEPT ![c] = "unavailable"]
    /\ UNCHANGED <<breaker, caller>>

\* Mutant of OnSuccess: the state is not reset.
StaysHalfOpen(c) ==
    /\ caller[c] # "idle"
    /\ caller' = [caller EXCEPT ![c] = "idle"]
    /\ answer' = [answer EXCEPT ![c] = "external"]
    /\ UNCHANGED breaker

OnSuccess(c) ==
    /\ caller[c] # "idle"
    /\ state' = "Closed" /\ failures' = 0 /\ opened' = FALSE /\ age' = 0
    /\ caller' = [caller EXCEPT ![c] = "idle"]
    /\ answer' = [answer EXCEPT ![c] = "external"]

\* Mutant of Opens: the cooldown is not restarted.
OpensWithOldTime == state' = "Open" /\ opened' = TRUE /\ UNCHANGED age

\* A failure that opens the breaker, or keeps it open, restarts the cooldown.
Opens == state' = "Open" /\ opened' = TRUE /\ age' = 0

OnFailure(c) ==
    /\ caller[c] # "idle"
    /\ \/ /\ state = "HalfOpen"
          /\ Opens
          /\ UNCHANGED failures
       \/ /\ state # "HalfOpen"
          /\ failures' = IF failures < Threshold THEN failures + 1 ELSE failures
          /\ \/ failures' >= Threshold /\ Opens
             \/ failures' < Threshold /\ UNCHANGED <<state, opened, age>>
    /\ caller' = [caller EXCEPT ![c] = "idle"]
    /\ answer' = [answer EXCEPT ![c] = "notfound"]

\* The task is dropped while it awaits the endpoint; the breaker never learns.
Cancel(c) ==
    /\ caller[c] # "idle"
    /\ caller' = [caller EXCEPT ![c] = "idle"]
    /\ UNCHANGED <<breaker, answer>>

Tick ==
    /\ opened /\ age < Cooldown
    /\ age' = age + 1
    /\ UNCHANGED <<state, failures, opened, caller, answer>>

\* The wall clock is set, so that the opening seems older or younger.
SetClock ==
    /\ opened /\ MaxStep > 0
    /\ age' \in (-MaxStep)..Cooldown
    /\ UNCHANGED <<state, failures, opened, caller, answer>>

CallerStep(c) ==
    ResolveLocal(c) \/ Admit(c) \/ ShortCircuit(c) \/ OnSuccess(c) \/ OnFailure(c) \/ Cancel(c)

Next == (\E c \in Callers : CallerStep(c)) \/ AskState \/ Tick \/ SetClock

Spec == Init /\ [][Next]_vars

(* Time passes, an external call ends sooner or later, and while the        *)
(* endpoint is being used somebody tries again.                             *)
Fairness ==
    /\ WF_vars(Tick)
    /\ \A c \in Callers : WF_vars(OnSuccess(c) \/ OnFailure(c) \/ Cancel(c)) /\ WF_vars(Admit(c))

FairSpec == Spec /\ Fairness

-----------------------------------------------------------------------------
TypeOK ==
    /\ state \in {"Closed", "Open", "HalfOpen"}
    /\ failures \in 0..Threshold
    /\ opened \in BOOLEAN
    /\ age \in (-MaxStep)..Cooldown
    /\ caller \in [Callers -> {"idle", "calling", "probing"}]
    /\ answer \in [Callers -> {"none", "local", "external", "unavailable", "notfound"}]

(* The fields agree with each other (Inner): Closed means a streak short of *)
(* the threshold and no opening remembered; otherwise the opening time is   *)
(* there for the cooldown to run from, so the breaker cannot stay open for  *)
(* lack of it.                                                              *)
Coherent ==
    /\ state = "Closed" => ~opened /\ age = 0 /\ (failures < Threshold \/ failures = 0)
    /\ state # "Closed" => opened /\ failures >= Threshold

(* The breaker keeps the promise of BreakerPolicy.                           *)
Policy == INSTANCE BreakerPolicy WITH
    streak  <- IF state = "Closed" THEN failures ELSE Threshold,
    rest    <- IF state = "Open" THEN Cooldown - age ELSE 0,
    calling <- {c \in Callers : caller[c] # "idle"}

KeepsPolicy == Policy!Spec

(* Documented (module comment, BreakerState::HalfOpen): in HalfOpen a single *)
(* probe is let through.                                                     *)
SingleProbe ==
    state = "HalfOpen" => Cardinality({c \in Callers : caller[c] = "probing"}) <= 1

(* An endpoint that is healthy from some point on, for calls that are not    *)
(* abandoned and a clock that is not set back any more, is used again for    *)
(* good: no order of late answers keeps the breaker from closing (allow,     *)
(* on_success).                                                              *)
Healthy ==
    /\ \A c \in Callers : ~OnFailure(c) /\ ~Cancel(c)
    /\ opened' = opened => age' >= age

RecoversWhenHealthy == (<>[][Healthy]_vars) => <>[](state = "Closed")
=============================================================================
