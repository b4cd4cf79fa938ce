------------------------------ MODULE PodProofs ------------------------------
(***************************************************************************)
(* What is proved of the parts of a pod: the breaker keeps its policy, the *)
(* cache of reference data is fresh and loads no more than it must, the    *)
(* scratchpads keep tenants apart, and who walks through an act reads all  *)
(* of it.                                                                  *)
(***************************************************************************)
EXTENDS Pod, SequenceTheorems, FiniteSetTheorems, WellFoundedInduction, TLAPS

-----------------------------------------------------------------------------
(* CircuitBreaker.                                                            *)
BreakerInv == Breaker!TypeOK /\ Breaker!Coherent

LEMMA BreakerSteps == [Next]_vars => Breaker!Next \/ UNCHANGED breakerVars
  BY DEF Next, vars, breakerVars

LEMMA AgeRange ==
  /\ 0 \in (-MaxStep)..Cooldown
  /\ \A a \in (-MaxStep)..Cooldown : a \in Int /\ a <= Cooldown
  /\ \A a \in (-MaxStep)..Cooldown : a < Cooldown => a + 1 \in (-MaxStep)..Cooldown
  /\ \A a \in (-MaxStep)..Cooldown : Cooldown - a \in 0..(Cooldown + MaxStep)
  /\ 0 \in 0..(Cooldown + MaxStep)
  BY ConfigAssumption

LEMMA BreakerInvInit == Init => BreakerInv
  <1> SUFFICES ASSUME Breaker!Init PROVE BreakerInv
    BY DEF Init
  <1>1. ~opened /\ opened \in BOOLEAN
    BY DEF Breaker!Init
  <1>2. Breaker!TypeOK
    BY <1>1, ConfigAssumption, AgeRange DEF Breaker!Init, Breaker!TypeOK
  <1>3. Breaker!Coherent
    BY <1>1 DEF Breaker!Init, Breaker!Coherent
  <1> QED BY <1>2, <1>3 DEF BreakerInv

LEMMA BreakerInvStep == BreakerInv /\ [Next]_vars => BreakerInv'
  <1> SUFFICES ASSUME BreakerInv, [Next]_vars PROVE BreakerInv'
    OBVIOUS
  <1> USE ConfigAssumption, AgeRange DEF BreakerInv, Breaker!TypeOK, Breaker!Coherent
  <1>1. ASSUME NEW c \in Resolvers, Breaker!ResolveLocal(c) PROVE BreakerInv'
    BY <1>1 DEF Breaker!ResolveLocal, Breaker!breaker
  <1>2. ASSUME NEW c \in Resolvers, Breaker!Admit(c) PROVE BreakerInv'
    BY <1>2 DEF Breaker!Admit, Breaker!Refreshed
  <1>3. ASSUME NEW c \in Resolvers, Breaker!ShortCircuit(c) PROVE BreakerInv'
    BY <1>3 DEF Breaker!ShortCircuit, Breaker!breaker
  <1>4. ASSUME NEW c \in Resolvers, Breaker!OnSuccess(c) PROVE BreakerInv'
    <2>1. ~opened' /\ opened' \in BOOLEAN
      BY <1>4 DEF Breaker!OnSuccess
    <2>2. Breaker!TypeOK'
      BY <1>4, <2>1 DEF Breaker!OnSuccess
    <2>3. Breaker!Coherent'
      BY <1>4, <2>1 DEF Breaker!OnSuccess
    <2> QED BY <2>2, <2>3
  <1>5. ASSUME NEW c \in Resolvers, Breaker!OnFailure(c) PROVE BreakerInv'
    <2>1. failures' \in 0..Threshold /\ (failures >= Threshold => failures' >= Threshold)
      BY <1>5 DEF Breaker!OnFailure
    <2>2. /\ resolver' \in [Resolvers -> {"idle", "calling", "probing"}]
          /\ answer' \in [Resolvers -> {"none", "local", "external", "unavailable", "notfound"}]
      BY <1>5 DEF Breaker!OnFailure
    <2>3. CASE Breaker!Opens /\ failures' >= Threshold
      <3>1. opened' /\ opened' \in BOOLEAN /\ state' = "Open" /\ age' = 0
        BY <2>3 DEF Breaker!Opens
      <3> QED BY <2>1, <2>2, <2>3, <3>1
    <2>4. CASE state # "HalfOpen" /\ failures' < Threshold /\ UNCHANGED <<state, opened, age>>
      BY <2>1, <2>2, <2>4
    <2> QED BY <1>5, <2>3, <2>4 DEF Breaker!OnFailure
  <1>6. ASSUME NEW c \in Resolvers, Breaker!Cancel(c) PROVE BreakerInv'
    BY <1>6 DEF Breaker!Cancel, Breaker!breaker
  <1>7. CASE Breaker!AskState
    BY <1>7 DEF Breaker!AskState, Breaker!Refreshed
  <1>8. CASE Breaker!Tick
    BY <1>8 DEF Breaker!Tick
  <1>9. CASE Breaker!SetClock
    BY <1>9 DEF Breaker!SetClock
  <1>10. CASE UNCHANGED breakerVars
    BY <1>10 DEF breakerVars
  <1> QED
    BY <1>1, <1>2, <1>3, <1>4, <1>5, <1>6, <1>7, <1>8, <1>9, <1>10, BreakerSteps
    DEF Breaker!Next, Breaker!CallerStep

LEMMA BreakerInvAlways == Spec => []BreakerInv
  <1> QED BY BreakerInvInit, BreakerInvStep, PTL DEF Spec

(* The fields of Inner never contradict each other, whatever order the        *)
(* answers of overlapping calls come in (on_success, on_failure, refresh).    *)
THEOREM CoherentAlways == Spec => [](Breaker!TypeOK /\ Breaker!Coherent)
  <1>1. BreakerInv => Breaker!TypeOK /\ Breaker!Coherent
    BY DEF BreakerInv
  <1> QED BY <1>1, BreakerInvAlways, PTL

LEMMA PolicyInit == Init => Breaker!Policy!Init
  BY ConfigAssumption DEF Init, Breaker!Init, Breaker!Policy!Init

LEMMA PolicyStep == BreakerInv /\ [Next]_vars => [Breaker!Policy!Next]_(Breaker!Policy!vars)
  <1> SUFFICES ASSUME BreakerInv, [Next]_vars PROVE [Breaker!Policy!Next]_(Breaker!Policy!vars)
    OBVIOUS
  <1> USE ConfigAssumption, AgeRange DEF BreakerInv, Breaker!TypeOK, Breaker!Coherent
  <1>1. ASSUME NEW c \in Resolvers, Breaker!ResolveLocal(c) PROVE Breaker!Policy!Local(c)
    BY <1>1 DEF Breaker!ResolveLocal, Breaker!breaker, Breaker!Policy!Local
  <1>2. ASSUME NEW c \in Resolvers, Breaker!Admit(c) PROVE Breaker!Policy!Admit(c)
    BY <1>2 DEF Breaker!Admit, Breaker!Refreshed, Breaker!Policy!Admit, Breaker!Policy!Tripped
  <1>3. ASSUME NEW c \in Resolvers, Breaker!ShortCircuit(c) PROVE Breaker!Policy!Refuse(c)
    BY <1>3 DEF Breaker!ShortCircuit, Breaker!Refreshed, Breaker!breaker, Breaker!Policy!Refuse, Breaker!Policy!Tripped
  <1>4. ASSUME NEW c \in Resolvers, Breaker!OnSuccess(c) PROVE Breaker!Policy!Success(c)
    BY <1>4 DEF Breaker!OnSuccess, Breaker!Policy!Success
  <1>5. ASSUME NEW c \in Resolvers, Breaker!OnFailure(c) PROVE Breaker!Policy!Failure(c)
    BY <1>5 DEF Breaker!OnFailure, Breaker!Opens, Breaker!Policy!Failure, Breaker!Policy!Tripped
  <1>6. ASSUME NEW c \in Resolvers, Breaker!Cancel(c) PROVE Breaker!Policy!Cancel(c)
    BY <1>6 DEF Breaker!Cancel, Breaker!breaker, Breaker!Policy!Cancel
  <1>7. CASE Breaker!AskState
    BY <1>7 DEF Breaker!AskState, Breaker!Refreshed, Breaker!Policy!vars
  <1>8. CASE Breaker!Tick
    BY <1>8 DEF Breaker!Tick, Breaker!Policy!Time, Breaker!Policy!AtLeastZero, Breaker!Policy!Next
  <1>9. CASE Breaker!SetClock
    BY <1>9 DEF Breaker!SetClock, Breaker!Policy!Time, Breaker!Policy!AtLeastZero, Breaker!Policy!Next
  <1>10. CASE UNCHANGED breakerVars
    BY <1>10 DEF breakerVars, Breaker!Policy!vars
  <1> QED
    BY <1>1, <1>2, <1>3, <1>4, <1>5, <1>6, <1>7, <1>8, <1>9, <1>10, BreakerSteps
    DEF Breaker!Next, Breaker!CallerStep, Breaker!Policy!Next

(* However callers, late answers and the clock mix, the breaker of a pod     *)
(* trips, rests and probes as BreakerPolicy says: it refuses exactly while a *)
(* streak of failures is fresh (allow, on_success, on_failure).              *)
THEOREM KeepsPolicyAlways == Spec => KeepsPolicy
  <1> QED BY PolicyInit, PolicyStep, BreakerInvAlways, PTL DEF Spec, KeepsPolicy, Breaker!KeepsPolicy, Breaker!Policy!Spec

-----------------------------------------------------------------------------
(* WarmupCache.                                                               *)
Entries  == [version : Nat, raced : BOOLEAN]
Flights  == [by : Callers, version : Nat \cup {none}, raced : BOOLEAN]
Reports  == [warmed : SUBSET Keys, skipped : SUBSET Keys, failed : SUBSET Keys]
Tasks    == [kind : {"get", "warm"}, pc : {"check", "look", "load", "wait"},
             key : Keys, rest : Seq(Keys), owed : Nat, report : Reports]
Tellings == [kind : {"value"}, key : Keys, owed : Nat, entry : Entries]
            \cup [kind : {"report"}, report : Reports] \cup {Warm!Failed}

WarmTypes ==
    /\ source \in Nat
    /\ cache \in [Keys -> Entries \cup {none}]
    /\ flight \in [Keys -> Flights \cup {none}]
    /\ caller \in [Callers -> Tasks \cup {Warm!Idle}]
    /\ told \in [Callers -> Tellings]
    /\ loads \in [Keys -> Nat] /\ removals \in [Keys -> Nat] /\ owed \in [Keys -> Nat]

\* A load under way and the task that runs it belong to each other, and while
\* it is under way nothing is held.
OneFlight ==
    /\ \A k \in Keys : flight[k] # none =>
           /\ caller[flight[k].by].pc = "load" /\ caller[flight[k].by].key = k
           /\ cache[k] = none
    /\ \A c \in Callers : caller[c].pc = "load" =>
           flight[caller[c].key] # none /\ flight[caller[c].key].by = c

\* Nothing is owed that the store does not have; what a loader has read since is new enough.
NewEnough ==
    /\ \A k \in Keys : owed[k] <= source
    /\ \A k \in Keys : flight[k] # none /\ flight[k].version # none /\ ~flight[k].raced =>
           flight[k].version >= owed[k]
    /\ \A c \in Callers : caller[c] # Warm!Idle /\ caller[c].kind = "get" =>
           caller[c].owed <= owed[caller[c].key]

\* Only warm looks whether an entry is there.
ChecksWarm == \A c \in Callers : caller[c].pc = "check" => caller[c].kind = "warm"

\* Whatever is held was loaded once since it was removed the last time.
Counted == \A k \in Keys : loads[k] <= removals[k] + (IF cache[k] = none THEN 0 ELSE 1)

\* The two halves of FreshOrRaced.
HeldFresh == \A k \in Keys : cache[k] # none /\ ~cache[k].raced => cache[k].version >= owed[k]
ToldFresh == \A c \in Callers :
    told[c].kind = "value" /\ ~told[c].entry.raced => told[c].entry.version >= told[c].owed

WarmInv == WarmTypes /\ OneFlight /\ ChecksWarm /\ NewEnough /\ HeldFresh /\ ToldFresh /\ Counted

LEMMA TasksAreTasks ==
    /\ Warm!Idle \notin Tasks /\ Warm!Idle.pc = "idle"
    /\ \A t \in Tasks : t.pc # "idle"
    /\ none \notin Entries /\ none \notin Flights /\ Warm!Failed \notin Entries
  <1>1. Warm!Idle \notin Tasks /\ Warm!Idle.pc = "idle"
    BY DEF Warm!Idle, Tasks
  <1>2. \A t \in Tasks : t.pc # "idle"
    BY DEF Tasks
  <1>3. none \notin Entries /\ none \notin Flights
    BY NoneAssumption DEF Entries, Flights
  <1>4. Warm!Failed \notin Entries
    BY DEF Warm!Failed, Entries
  <1> QED BY <1>1, <1>2, <1>3, <1>4

(* What becomes of a task whose get_or_load is over.                          *)
LEMMA TaskGoesOn ==
    ASSUME NEW t \in Tasks, NEW r \in Entries \cup {Warm!Failed}
    PROVE  /\ Warm!After(t, r) \in Tasks \cup {Warm!Idle}
           /\ Warm!After(t, r) # Warm!Idle =>
                  Warm!After(t, r).pc = "check" /\ Warm!After(t, r).kind = "warm"
  <1> DEFINE report == Warm!Line(t, r)
  <1>1. report \in Reports
    BY DEF Warm!Line, Tasks, Reports
  <1> HIDE DEF report
  <1>2. CASE t.kind = "warm" /\ t.rest # <<>>
    <2> DEFINE next == [t EXCEPT !.pc = "check", !.key = Head(t.rest), !.rest = Tail(t.rest),
                                 !.report = report]
    <2>1. Head(t.rest) \in Keys /\ Tail(t.rest) \in Seq(Keys)
      BY <1>2 DEF Tasks
    <2>2. next \in Tasks /\ next.pc = "check" /\ next.kind = "warm"
      BY <1>1, <1>2, <2>1 DEF Tasks
    <2>3. Warm!After(t, r) = next
      BY <1>2 DEF Warm!After, Warm!NextKey, report
    <2> QED BY <2>2, <2>3
  <1>3. CASE t.kind = "get" \/ t.rest = <<>>
    BY <1>3 DEF Warm!After, Warm!NextKey
  <1> QED BY <1>2, <1>3 DEF Tasks

LEMMA TaskIsTold ==
    ASSUME NEW t \in Tasks, NEW r \in Entries \cup {Warm!Failed}, NEW before \in Tellings
    PROVE  /\ Warm!Said(t, r, before) \in Tellings
           /\ t.kind = "get" /\ r # Warm!Failed =>
                  /\ Warm!Said(t, r, before).entry = r
                  /\ Warm!Said(t, r, before).owed = t.owed
           /\ t.kind = "get" /\ r = Warm!Failed => Warm!Said(t, r, before).kind = "error"
           /\ t.kind = "warm" => Warm!Said(t, r, before) = before
                                 \/ Warm!Said(t, r, before).kind = "report"
  <1> DEFINE report == Warm!Line(t, r)
  <1>1. report \in Reports
    BY DEF Warm!Line, Tasks, Reports
  <1>2. [kind |-> "report", report |-> report] \in Tellings
    BY <1>1 DEF Tellings
  <1>3. r # Warm!Failed => [kind |-> "value", key |-> t.key, owed |-> t.owed, entry |-> r] \in Tellings
    BY DEF Tellings, Tasks
  <1>4. Warm!Failed \in Tellings /\ Warm!Failed.kind = "error"
    BY DEF Tellings, Warm!Failed
  <1> HIDE DEF report
  <1>5. t.kind \in {"get", "warm"}
    BY DEF Tasks
  <1>6. Warm!Said(t, r, before) =
            IF t.kind = "get"
            THEN IF r = Warm!Failed THEN Warm!Failed
                 ELSE [kind |-> "value", key |-> t.key, owed |-> t.owed, entry |-> r]
            ELSE IF t.rest = <<>> THEN [kind |-> "report", report |-> report] ELSE before
    BY DEF Warm!Said, report
  <1> QED BY <1>2, <1>3, <1>4, <1>5, <1>6

(* The end of some calls for an entry that is new enough for them, or for     *)
(* nothing.                                                                   *)
LEMMA FinishKeeps ==
    ASSUME WarmTypes, ToldFresh, NEW who \in SUBSET Callers,
           NEW r \in Entries \cup {Warm!Failed}, Warm!Finish(who, r),
           \A c \in who : caller[c] \in Tasks,
           \A c \in who : caller[c].kind = "get" /\ r # Warm!Failed /\ ~r.raced =>
                              r.version >= caller[c].owed
    PROVE  /\ caller' \in [Callers -> Tasks \cup {Warm!Idle}]
           /\ told' \in [Callers -> Tellings]
           /\ ToldFresh'
           /\ \A c \in Callers \ who : caller'[c] = caller[c]
           /\ \A c \in who : caller'[c] = Warm!Idle
                             \/ (caller'[c].pc = "check" /\ caller'[c].kind = "warm")
  <1>1. \A c \in Callers : caller'[c] = IF c \in who THEN Warm!After(caller[c], r) ELSE caller[c]
    BY DEF Warm!Finish
  <1>2. \A c \in Callers : told'[c] = IF c \in who THEN Warm!Said(caller[c], r, told[c]) ELSE told[c]
    BY DEF Warm!Finish
  <1>3. caller' \in [Callers -> Tasks \cup {Warm!Idle}]
    <2>1. \A c \in Callers : caller'[c] \in Tasks \cup {Warm!Idle}
      BY <1>1, TaskGoesOn DEF WarmTypes
    <2> QED BY <2>1 DEF Warm!Finish
  <1>4. told' \in [Callers -> Tellings]
    <2>1. \A c \in Callers : told'[c] \in Tellings
      BY <1>2, TaskIsTold DEF WarmTypes
    <2> QED BY <2>1 DEF Warm!Finish
  <1>5. ToldFresh'
    <2> SUFFICES ASSUME NEW c \in Callers, told'[c].kind = "value", ~told'[c].entry.raced
                 PROVE  told'[c].entry.version >= told'[c].owed
      BY DEF ToldFresh
    <2>1. CASE c \notin who
      BY <1>2, <2>1 DEF ToldFresh
    <2>2. CASE c \in who
      <3>1. caller[c] \in Tasks /\ told[c] \in Tellings /\ caller[c].kind \in {"get", "warm"}
        BY <2>2 DEF WarmTypes, Tasks
      <3>2. told'[c] = Warm!Said(caller[c], r, told[c])
        BY <1>2, <2>2
      <3>3. CASE caller[c].kind = "get"
        BY <2>2, <3>1, <3>2, <3>3, TaskIsTold
      <3>4. CASE caller[c].kind = "warm"
        BY <3>1, <3>2, <3>4, TaskIsTold DEF ToldFresh
      <3> QED BY <3>1, <3>3, <3>4
    <2> QED BY <2>1, <2>2
  <1>6. \A c \in who : caller'[c] = Warm!Idle \/ (caller'[c].pc = "check" /\ caller'[c].kind = "warm")
    BY <1>1, TaskGoesOn
  <1> QED BY <1>1, <1>3, <1>4, <1>5, <1>6

LEMMA WarmInit == Warm!Init => WarmInv
  <1> SUFFICES ASSUME Warm!Init PROVE WarmInv
    OBVIOUS
  <1> USE DEF Warm!Init
  <1>1. WarmTypes
    BY DEF WarmTypes, Tellings
  <1>2. OneFlight /\ NewEnough /\ ChecksWarm /\ Counted
    BY TasksAreTasks DEF OneFlight, ChecksWarm, NewEnough, Counted
  <1>3. HeldFresh /\ ToldFresh
    BY DEF HeldFresh, ToldFresh, Warm!Failed
  <1> QED BY <1>1, <1>2, <1>3 DEF WarmInv

LEMMA WarmBegins ==
    ASSUME WarmInv, NEW c \in Callers, Warm!Idle = caller[c],
           NEW kind \in {"get", "warm"}, NEW pc \in {"look", "check"}, NEW k \in Keys, NEW rest \in Seq(Keys),
           pc = "check" => kind = "warm",
           told' = [told EXCEPT ![c] = Warm!Failed],
           caller' = [caller EXCEPT ![c] = Warm!Task(kind, pc, k, rest)],
           UNCHANGED <<source, cache, flight, loads, removals, owed>>
    PROVE  WarmInv'
  <1> DEFINE t == Warm!Task(kind, pc, k, rest)
  <1> USE DEF WarmInv
  <1>1. t \in Tasks /\ t.pc = pc /\ t.key = k /\ t.owed = owed[k]
    BY DEF Warm!Task, Tasks, Warm!NoReport, Reports, WarmTypes
  <1> HIDE DEF t
  <1>2. caller' = [caller EXCEPT ![c] = t]
    BY DEF t
  <1>3. Warm!Failed \in Tellings /\ Warm!Failed.kind = "error"
    BY DEF Tellings, Warm!Failed
  <1>4. WarmTypes'
    BY <1>1, <1>2, <1>3 DEF WarmTypes
  <1>5. OneFlight'
    <2>1. caller[c].pc = "idle"
      BY TasksAreTasks
    <2>2. caller'[c] = t /\ \A x \in Callers \ {c} : caller'[x] = caller[x]
      BY <1>2 DEF WarmTypes
    <2>3. \A j \in Keys : flight[j] # none => flight[j].by \in Callers
      BY DEF WarmTypes, Flights
    <2> QED BY <1>1, <2>1, <2>2, <2>3 DEF OneFlight
  <1>6. NewEnough'
    <2>1. caller'[c] = t /\ \A x \in Callers \ {c} : caller'[x] = caller[x]
      BY <1>2 DEF WarmTypes
    <2>2. owed[k] \in Nat
      BY DEF WarmTypes
    <2> QED BY <1>1, <2>1, <2>2 DEF NewEnough
  <1>7. ToldFresh'
    BY <1>3 DEF ToldFresh, WarmTypes
  <1>8. HeldFresh' /\ Counted'
    BY DEF HeldFresh, Counted
  <1>9. ChecksWarm'
    <2>1. caller'[c] = t /\ \A x \in Callers \ {c} : caller'[x] = caller[x]
      BY <1>2 DEF WarmTypes
    <2>2. t.kind = kind
      BY DEF t, Warm!Task
    <2> QED BY <1>1, <2>1, <2>2 DEF ChecksWarm
  <1> QED BY <1>4, <1>5, <1>6, <1>7, <1>8, <1>9

LEMMA WarmGetOrLoad ==
    ASSUME WarmInv, NEW c \in Callers, NEW k \in Keys, Warm!GetOrLoad(c, k) PROVE WarmInv'
  <1>1. <<>> \in Seq(Keys)
    OBVIOUS
  <1> QED BY <1>1, WarmBegins DEF Warm!GetOrLoad

LEMMA WarmWarm ==
    ASSUME WarmInv, NEW c \in Callers, Warm!Warm(c) PROVE WarmInv'
  <1>1. Head(WarmKeys) \in Keys /\ Tail(WarmKeys) \in Seq(Keys)
    BY WarmKeysAssumption
  <1> QED BY <1>1, WarmBegins DEF Warm!Warm

(* A task that moves on without flight, entry or owed changing.               *)
LEMMA TaskMoves ==
    ASSUME WarmInv, NEW c \in Callers, caller[c] \in Tasks, caller[c].pc # "load",
           caller' \in [Callers -> Tasks \cup {Warm!Idle}], told' \in [Callers -> Tellings],
           \A x \in Callers \ {c} : caller'[x] = caller[x],
           \/ caller'[c] = Warm!Idle
           \/ /\ caller'[c].pc # "load"
              /\ caller'[c].pc = "check" => caller'[c].kind = "warm"
              /\ caller'[c].kind = "get" =>
                    caller'[c].key = caller[c].key /\ caller'[c].owed = caller[c].owed /\ caller[c].kind = "get",
           ToldFresh',
           UNCHANGED <<source, cache, flight, loads, removals, owed>>
    PROVE  WarmInv'
  <1> USE DEF WarmInv
  <1>1. WarmTypes'
    BY DEF WarmTypes
  <1>2. caller'[c].pc # "load"
    BY TasksAreTasks
  <1>3. OneFlight'
    <2>1. \A j \in Keys : flight[j] # none => flight[j].by \in Callers
      BY DEF WarmTypes, Flights
    <2> QED BY <1>2, <2>1 DEF OneFlight
  <1>4. NewEnough'
    <2>1. caller[c] # Warm!Idle
      BY TasksAreTasks
    <2> QED BY <2>1 DEF NewEnough
  <1>5. HeldFresh' /\ Counted'
    BY DEF HeldFresh, Counted
  <1>6. ChecksWarm'
    BY TasksAreTasks DEF ChecksWarm
  <1> QED BY <1>1, <1>3, <1>4, <1>5, <1>6

LEMMA TaskAt ==
    ASSUME WarmTypes, NEW c \in Callers, caller[c].pc # "idle"
    PROVE  caller[c] \in Tasks /\ caller[c].key \in Keys
  BY TasksAreTasks DEF WarmTypes, Tasks

LEMMA WarmCheck ==
    ASSUME WarmInv, NEW c \in Callers, Warm!Check(c) PROVE WarmInv'
  <1> DEFINE w == caller[c]
             report == [w.report EXCEPT !.skipped = @ \cup {w.key}]
  <1>1. w \in Tasks /\ w.pc = "check"
    BY TaskAt DEF Warm!Check, WarmInv
  <1>2. report \in Reports
    BY <1>1 DEF Tasks, Reports
  <1> HIDE DEF report
  <1>3. CASE cache[w.key] = none
    <2> DEFINE looks == [w EXCEPT !.pc = "look"]
    <2>1. looks \in Tasks /\ looks.pc = "look" /\ looks.kind = w.kind /\ looks.key = w.key /\ looks.owed = w.owed
      BY <1>1 DEF Tasks
    <2>2. caller' = [caller EXCEPT ![c] = looks]
      BY <1>3 DEF Warm!Check
    <2> HIDE DEF looks
    <2>3. UNCHANGED told
      BY <1>3 DEF Warm!Check
    <2>4. caller' \in [Callers -> Tasks \cup {Warm!Idle}] /\ caller'[c] = looks
          /\ \A x \in Callers \ {c} : caller'[x] = caller[x]
      BY <2>1, <2>2 DEF WarmInv, WarmTypes
    <2> QED BY <1>1, <2>1, <2>3, <2>4, TaskMoves DEF WarmInv, WarmTypes, ToldFresh, Warm!Check
  <1>4. CASE cache[w.key] # none
    <2> DEFINE next == Warm!NextKey(w, report)
    <2>1. w.kind = "warm"
      BY <1>1 DEF WarmInv, ChecksWarm
    <2>2. /\ next \in Tasks \cup {Warm!Idle}
          /\ next # Warm!Idle => next.pc = "check" /\ next.kind = "warm"
      <3>1. CASE w.rest = <<>>
        BY <3>1 DEF Warm!NextKey
      <3>2. CASE w.rest # <<>>
        <4>1. Head(w.rest) \in Keys /\ Tail(w.rest) \in Seq(Keys)
          BY <1>1, <3>2 DEF Tasks
        <4> QED BY <1>1, <1>2, <2>1, <3>2, <4>1 DEF Warm!NextKey, Tasks
      <3> QED BY <3>1, <3>2
    <2>3. caller' = [caller EXCEPT ![c] = next]
      BY <1>4 DEF Warm!Check, report
    <2> HIDE DEF next
    <2>4. caller' \in [Callers -> Tasks \cup {Warm!Idle}] /\ caller'[c] = next
          /\ \A x \in Callers \ {c} : caller'[x] = caller[x]
      BY <2>2, <2>3 DEF WarmInv, WarmTypes
    <2> DEFINE tells == [kind |-> "report", report |-> report]
    <2>5. tells \in Tellings /\ tells.kind = "report"
      BY <1>2 DEF Tellings
    <2>6. told' = told \/ told' = [told EXCEPT ![c] = tells]
      BY <1>4 DEF Warm!Check, report
    <2> HIDE DEF tells
    <2>7. told' \in [Callers -> Tellings] /\ ToldFresh'
      BY <2>5, <2>6 DEF WarmInv, WarmTypes, ToldFresh, Warm!Check
    <2> QED BY <1>1, <2>1, <2>2, <2>4, <2>7, TaskMoves DEF Warm!Check
  <1> QED BY <1>3, <1>4

LEMMA WarmHit ==
    ASSUME WarmInv, NEW c \in Callers, Warm!Hit(c) PROVE WarmInv'
  <1> DEFINE w == caller[c]
             r == cache[w.key]
  <1>1. w \in Tasks /\ w.pc = "look" /\ w.key \in Keys
    BY TaskAt DEF Warm!Hit, WarmInv
  <1>2. r \in Entries /\ r.version \in Nat /\ owed[w.key] \in Nat /\ w.owed \in Nat
    BY <1>1 DEF Warm!Hit, WarmInv, WarmTypes, Entries, Tasks
  <1>3. ~r.raced => r.version >= owed[w.key]
    BY <1>1 DEF Warm!Hit, WarmInv, HeldFresh
  <1>4. w.kind = "get" => owed[w.key] >= w.owed
    BY <1>1, TasksAreTasks DEF WarmInv, NewEnough
  <1>5. w.kind = "get" /\ ~r.raced => r.version >= w.owed
    BY <1>2, <1>3, <1>4
  <1>6. Warm!Finish({c}, r) /\ r \in Entries \cup {Warm!Failed}
    BY <1>2 DEF Warm!Hit
  <1> HIDE DEF r, w
  <1>7. /\ caller' \in [Callers -> Tasks \cup {Warm!Idle}]
        /\ told' \in [Callers -> Tellings]
        /\ ToldFresh'
        /\ \A x \in Callers \ {c} : caller'[x] = caller[x]
        /\ caller'[c] = Warm!Idle \/ (caller'[c].pc = "check" /\ caller'[c].kind = "warm")
    BY <1>1, <1>5, <1>6, FinishKeeps DEF WarmInv, w
  <1> QED BY <1>1, <1>7, TaskMoves DEF Warm!Hit, w

LEMMA WarmMiss ==
    ASSUME WarmInv, NEW c \in Callers, Warm!Miss(c) PROVE WarmInv'
  <1> DEFINE w == caller[c]
             k == w.key
  <1>1. w \in Tasks /\ w.pc = "look" /\ k \in Keys /\ cache[k] = none
    BY TaskAt DEF Warm!Miss, WarmInv
  <1>2. CASE flight[k] # none
    <2> DEFINE waits == [w EXCEPT !.pc = "wait"]
    <2>1. waits \in Tasks /\ waits.pc = "wait" /\ waits.kind = w.kind /\ waits.key = w.key /\ waits.owed = w.owed
      BY <1>1 DEF Tasks
    <2>2. caller' = [caller EXCEPT ![c] = waits] /\ UNCHANGED flight
      BY <1>2 DEF Warm!Miss
    <2> HIDE DEF waits
    <2>3. caller' \in [Callers -> Tasks \cup {Warm!Idle}] /\ caller'[c] = waits
          /\ \A x \in Callers \ {c} : caller'[x] = caller[x]
      BY <2>1, <2>2 DEF WarmInv, WarmTypes
    <2> QED BY <1>1, <2>1, <2>2, <2>3, TaskMoves DEF WarmInv, WarmTypes, ToldFresh, Warm!Miss
  <1>3. CASE flight[k] = none
    <2> DEFINE loads1 == [w EXCEPT !.pc = "load"]
               new == [by |-> c, version |-> none, raced |-> FALSE]
    <2>1. loads1 \in Tasks /\ loads1.pc = "load" /\ loads1.kind = w.kind /\ loads1.key = k /\ loads1.owed = w.owed
      BY <1>1 DEF Tasks
    <2>2. new \in Flights /\ new.by = c /\ new.version = none
      BY DEF Flights
    <2>3. new # none
      BY <2>2, TasksAreTasks
    <2>4. caller' = [caller EXCEPT ![c] = loads1] /\ flight' = [flight EXCEPT ![k] = new]
      BY <1>3 DEF Warm!Miss
    <2> HIDE DEF loads1, new
    <2>5. caller' \in [Callers -> Tasks \cup {Warm!Idle}] /\ caller'[c] = loads1
          /\ \A x \in Callers \ {c} : caller'[x] = caller[x]
      BY <2>1, <2>4 DEF WarmInv, WarmTypes
    <2>6. flight' \in [Keys -> Flights \cup {none}] /\ flight'[k] = new
          /\ \A j \in Keys \ {k} : flight'[j] = flight[j]
      BY <1>1, <2>2, <2>4 DEF WarmInv, WarmTypes
    <2>7. UNCHANGED <<source, cache, told, loads, removals, owed>>
      BY DEF Warm!Miss
    <2>8. WarmTypes'
      BY <2>5, <2>6, <2>7 DEF WarmInv, WarmTypes
    <2>9. OneFlight'
      <3>1. \A j \in Keys : flight[j] # none => flight[j].by \in Callers /\ flight[j].by # c
        BY <1>1 DEF WarmInv, WarmTypes, Flights, OneFlight
      <3>2. \A x \in Callers \ {c} : caller[x].pc = "load" => caller[x].key # k
        BY <1>3 DEF WarmInv, OneFlight
      <3>3. \A x \in Callers : caller[x].pc = "load" => caller[x].key \in Keys
        BY TaskAt DEF WarmInv
      <3>4. \A j \in Keys : flight'[j] # none =>
               /\ caller'[flight'[j].by].pc = "load" /\ caller'[flight'[j].by].key = j
               /\ cache'[j] = none
        BY <1>1, <2>1, <2>2, <2>5, <2>6, <2>7, <3>1 DEF WarmInv, OneFlight
      <3>5. \A x \in Callers : caller'[x].pc = "load" =>
               flight'[caller'[x].key] # none /\ flight'[caller'[x].key].by = x
        BY <1>1, <2>1, <2>2, <2>3, <2>5, <2>6, <3>2, <3>3 DEF WarmInv, OneFlight
      <3> QED BY <3>4, <3>5 DEF OneFlight
    <2>10. NewEnough'
      <3>1. \A x \in Callers : caller'[x] # Warm!Idle => caller[x] # Warm!Idle /\
               caller'[x].kind = caller[x].kind /\ caller'[x].key = caller[x].key /\ caller'[x].owed = caller[x].owed
        BY <1>1, <2>1, <2>5, TasksAreTasks
      <3> QED BY <2>2, <2>6, <2>7, <3>1 DEF WarmInv, NewEnough
    <2>11. ChecksWarm'
      BY <2>1, <2>5 DEF WarmInv, ChecksWarm
    <2>12. HeldFresh' /\ ToldFresh' /\ Counted'
      BY <2>7 DEF WarmInv, HeldFresh, ToldFresh, Counted
    <2> QED BY <2>8, <2>9, <2>10, <2>11, <2>12 DEF WarmInv
  <1> QED BY <1>2, <1>3

LEMMA WarmRead ==
    ASSUME WarmInv, NEW c \in Callers, Warm!Read(c) PROVE WarmInv'
  <1> DEFINE k == caller[c].key
             read == [flight[k] EXCEPT !.version = source]
  <1>1. k \in Keys /\ caller[c].pc = "load"
    BY TaskAt DEF Warm!Read, WarmInv
  <1>2. flight[k] \in Flights /\ flight[k] # none
    BY <1>1 DEF WarmInv, WarmTypes, OneFlight
  <1>3. source \in Nat /\ owed[k] \in Nat /\ source >= owed[k]
    BY <1>1 DEF WarmInv, WarmTypes, NewEnough
  <1>4. read \in Flights /\ read.by = flight[k].by /\ read.version = source
    BY <1>2, <1>3 DEF Flights
  <1>5. read # none
    BY <1>4, TasksAreTasks
  <1>6. flight' = [flight EXCEPT ![k] = read]
    BY DEF Warm!Read
  <1> HIDE DEF read
  <1>7. flight' \in [Keys -> Flights \cup {none}] /\ flight'[k] = read
        /\ \A j \in Keys \ {k} : flight'[j] = flight[j]
    BY <1>1, <1>4, <1>6 DEF WarmInv, WarmTypes
  <1>8. UNCHANGED <<source, cache, caller, told, loads, removals, owed>>
    BY DEF Warm!Read
  <1>9. WarmTypes'
    BY <1>7, <1>8 DEF WarmInv, WarmTypes
  <1>10. OneFlight'
    <2>1. \A j \in Keys : (flight'[j] # none <=> flight[j] # none) /\ flight'[j].by = flight[j].by
      BY <1>2, <1>4, <1>5, <1>7
    <2>2. \A x \in Callers : caller[x].pc = "load" => caller[x].key \in Keys
      BY TaskAt DEF WarmInv
    <2> QED BY <1>8, <2>1, <2>2 DEF WarmInv, OneFlight
  <1>11. NewEnough'
    BY <1>3, <1>4, <1>7, <1>8 DEF WarmInv, NewEnough
  <1>12. ChecksWarm' /\ HeldFresh' /\ ToldFresh' /\ Counted'
    BY <1>8 DEF WarmInv, ChecksWarm, HeldFresh, ToldFresh, Counted
  <1> QED BY <1>9, <1>10, <1>11, <1>12 DEF WarmInv

(* The end of a load: its flight is over, and who ran it and some who waited  *)
(* go on, for an entry that is stored, or for nothing.                        *)
LEMMA LoadEnds ==
    ASSUME WarmInv, NEW c \in Callers, caller[c].pc = "load", NEW r \in Entries \cup {Warm!Failed},
           r # Warm!Failed /\ ~r.raced => r.version >= owed[caller[c].key],
           Warm!Finish({c} \cup Warm!Waiting(caller[c].key), r),
           flight' = [flight EXCEPT ![caller[c].key] = none],
           IF r = Warm!Failed THEN cache' = cache /\ loads' = loads
           ELSE /\ cache' = [cache EXCEPT ![caller[c].key] = r]
                /\ loads' = [loads EXCEPT ![caller[c].key] = @ + 1],
           UNCHANGED <<source, removals, owed>>
    PROVE  WarmInv'
  <1> DEFINE k == caller[c].key
             who == {c} \cup Warm!Waiting(k)
  <1>1. k \in Keys /\ flight[k] # none /\ flight[k].by = c /\ cache[k] = none
    BY TaskAt DEF WarmInv, OneFlight
  <1>2. who \in SUBSET Callers
    BY DEF Warm!Waiting
  <1>3. \A x \in who : caller[x] \in Tasks /\ caller[x].key = k
    BY TaskAt DEF Warm!Waiting, WarmInv
  <1>4. ASSUME NEW x \in who, caller[x].kind = "get", r # Warm!Failed, ~r.raced
        PROVE  r.version >= caller[x].owed
    <2>1. caller[x].owed <= owed[k]
      BY <1>2, <1>3, <1>4, TasksAreTasks DEF WarmInv, NewEnough
    <2>2. caller[x].owed \in Nat /\ owed[k] \in Nat /\ r.version \in Nat
      BY <1>1, <1>3, <1>4 DEF Tasks, WarmInv, WarmTypes, Entries
    <2> QED BY <1>4, <2>1, <2>2
  <1>5. /\ caller' \in [Callers -> Tasks \cup {Warm!Idle}]
        /\ told' \in [Callers -> Tellings]
        /\ ToldFresh'
        /\ \A x \in Callers \ who : caller'[x] = caller[x]
        /\ \A x \in who : caller'[x] = Warm!Idle
                         \/ (caller'[x].pc = "check" /\ caller'[x].kind = "warm")
    BY <1>2, <1>3, <1>4, FinishKeeps DEF WarmInv
  <1>6. c \in who
    OBVIOUS
  <1> HIDE DEF who
  <1>7. flight' \in [Keys -> Flights \cup {none}] /\ flight'[k] = none
        /\ \A j \in Keys \ {k} : flight'[j] = flight[j]
    BY <1>1 DEF WarmInv, WarmTypes
  <1>8. /\ cache' \in [Keys -> Entries \cup {none}] /\ loads' \in [Keys -> Nat]
        /\ \A j \in Keys \ {k} : cache'[j] = cache[j] /\ loads'[j] = loads[j]
        /\ r = Warm!Failed => cache'[k] = none /\ loads'[k] = loads[k]
        /\ r # Warm!Failed => cache'[k] = r /\ loads'[k] = loads[k] + 1 /\ r # none
    BY <1>1, TasksAreTasks DEF WarmInv, WarmTypes
  <1>9. WarmTypes'
    BY <1>5, <1>7, <1>8 DEF WarmInv, WarmTypes
  <1>10. OneFlight'
    <2>1. \A x \in who : caller'[x].pc # "load"
      BY <1>5, TasksAreTasks
    <2>2. \A x \in Callers : caller'[x].pc = "load" => x \notin who /\ caller'[x] = caller[x] /\ caller[x].key \in Keys
      BY <1>5, <2>1, TaskAt DEF WarmInv
    <2>3. \A x \in Callers : x \notin who /\ caller[x].pc = "load" => caller[x].key # k
      BY <1>1, <1>6 DEF WarmInv, OneFlight
    <2>4. \A j \in Keys \ {k} : flight[j] # none => flight[j].by \in Callers /\ flight[j].by \notin who
      BY <1>3 DEF WarmInv, WarmTypes, Flights, OneFlight
    <2>5. \A j \in Keys : flight'[j] # none =>
               /\ caller'[flight'[j].by].pc = "load" /\ caller'[flight'[j].by].key = j
               /\ cache'[j] = none
      BY <1>5, <1>7, <1>8, <2>4 DEF WarmInv, OneFlight
    <2>6. \A x \in Callers : caller'[x].pc = "load" =>
               flight'[caller'[x].key] # none /\ flight'[caller'[x].key].by = x
      BY <1>7, <2>2, <2>3 DEF WarmInv, OneFlight
    <2> QED BY <2>5, <2>6 DEF OneFlight
  <1>11. NewEnough'
    <2>1. \A x \in Callers : caller'[x] # Warm!Idle /\ caller'[x].kind = "get" => caller'[x] = caller[x]
      BY <1>5
    <2> QED BY <1>7, <2>1 DEF WarmInv, NewEnough
  <1>12. ChecksWarm'
    BY <1>5, TasksAreTasks DEF WarmInv, ChecksWarm
  <1>13. HeldFresh'
    BY <1>8 DEF WarmInv, HeldFresh
  <1>14. Counted'
    <2>1. loads[k] <= removals[k] /\ loads[k] \in Nat /\ removals[k] \in Nat
      BY <1>1 DEF WarmInv, Counted, WarmTypes
    <2>2. loads'[k] <= removals'[k] + (IF cache'[k] = none THEN 0 ELSE 1)
      BY <1>8, <2>1
    <2> QED BY <1>8, <2>2 DEF WarmInv, Counted
  <1> QED BY <1>5, <1>9, <1>10, <1>11, <1>12, <1>13, <1>14 DEF WarmInv

LEMMA WarmLoaded ==
    ASSUME WarmInv, NEW c \in Callers, Warm!Loaded(c) PROVE WarmInv'
  <1> DEFINE k == caller[c].key
             entry == [version |-> flight[k].version, raced |-> flight[k].raced]
  <1>1. k \in Keys /\ caller[c].pc = "load" /\ flight[k].version # none
    BY TaskAt DEF Warm!Loaded, WarmInv
  <1>2. flight[k] \in Flights /\ flight[k] # none
    BY <1>1 DEF WarmInv, WarmTypes, OneFlight
  <1>3. entry \in Entries
    BY <1>1, <1>2 DEF Flights, Entries
  <1>4. ~entry.raced => entry.version >= owed[k]
    BY <1>1, <1>2 DEF WarmInv, NewEnough
  <1>5. entry # Warm!Failed
    BY <1>3, TasksAreTasks
  <1>6. /\ cache' = [cache EXCEPT ![k] = entry] /\ flight' = [flight EXCEPT ![k] = none]
        /\ loads' = [loads EXCEPT ![k] = @ + 1]
        /\ Warm!Finish({c} \cup Warm!Waiting(k), entry)
        /\ UNCHANGED <<source, removals, owed>>
    BY DEF Warm!Loaded
  <1> HIDE DEF entry
  <1> QED BY <1>1, <1>3, <1>4, <1>5, <1>6, LoadEnds

LEMMA WarmLoadFails ==
    ASSUME WarmInv, NEW c \in Callers, Warm!LoadFails(c) PROVE WarmInv'
  BY LoadEnds DEF Warm!LoadFails

LEMMA WarmDrop ==
    ASSUME WarmInv, NEW c \in Callers, Warm!Drop(c) PROVE WarmInv'
  <1> DEFINE k == caller[c].key
             loader == caller[c].pc = "load"
             Again(x) == [caller[x] EXCEPT !.pc = "look"]
  <1>1. k \in Keys /\ caller[c] \in Tasks /\ caller[c].pc \in {"load", "wait"}
    BY TaskAt DEF Warm!Drop, WarmInv
  <1>2. \A x \in Warm!Waiting(k) : caller[x] \in Tasks
    BY TaskAt DEF Warm!Waiting, WarmInv
  <1>3. \A x \in Callers : caller[x] \in Tasks =>
            Again(x) \in Tasks /\ Again(x).pc = "look" /\ Again(x).kind = caller[x].kind
            /\ Again(x).key = caller[x].key /\ Again(x).owed = caller[x].owed
    BY DEF Tasks
  <1>4. caller' = [x \in Callers |->
                     IF x = c THEN Warm!Idle
                     ELSE IF loader /\ x \in Warm!Waiting(k) THEN Again(x) ELSE caller[x]]
    BY DEF Warm!Drop
  <1>5. caller'[c] = Warm!Idle /\ caller'[c].pc # "load"
    BY <1>4, TasksAreTasks
  <1>6. \A x \in Callers \ {c} :
            \/ caller'[x] = caller[x]
            \/ /\ caller[x] \in Tasks /\ caller[x].pc = "wait" /\ caller'[x] \in Tasks
               /\ caller'[x].pc = "look" /\ caller'[x].kind = caller[x].kind
               /\ caller'[x].key = caller[x].key /\ caller'[x].owed = caller[x].owed
    <2> HIDE DEF Again, loader, k
    <2> QED BY <1>2, <1>3, <1>4 DEF Warm!Waiting
  <1> HIDE DEF Again
  <1>7. caller' \in [Callers -> Tasks \cup {Warm!Idle}]
    <2>1. \A x \in Callers : caller'[x] \in Tasks \cup {Warm!Idle}
      BY <1>5, <1>6 DEF WarmInv, WarmTypes
    <2> QED BY <1>4, <2>1
  <1>8. /\ flight' \in [Keys -> Flights \cup {none}]
        /\ \A j \in Keys \ {k} : flight'[j] = flight[j]
        /\ loader => flight'[k] = none
        /\ ~loader => flight' = flight
    BY <1>1 DEF Warm!Drop, WarmInv, WarmTypes
  <1>9. UNCHANGED <<source, cache, told, loads, removals, owed>>
    BY DEF Warm!Drop
  <1>10. WarmTypes'
    BY <1>7, <1>8, <1>9 DEF WarmInv, WarmTypes
  <1>11. OneFlight'
    <2>1. \A j \in Keys : flight'[j] # none => flight'[j] = flight[j] /\ flight[j].by \in Callers /\ flight[j].by # c
      <3>1. \A j \in Keys : flight[j] # none => flight[j].by \in Callers
        BY DEF WarmInv, WarmTypes, Flights
      <3>2. \A j \in Keys : flight[j] # none /\ flight[j].by = c => loader /\ j = k
        BY DEF WarmInv, OneFlight
      <3> QED BY <1>1, <1>8, <3>1, <3>2
    <2>2. \A x \in Callers : caller'[x].pc = "load" =>
              x # c /\ caller'[x] = caller[x] /\ caller[x].key \in Keys
      BY <1>5, <1>6, TaskAt DEF WarmInv
    <2>3. \A x \in Callers \ {c} : caller[x].pc = "load" => caller'[x] = caller[x]
      BY <1>6
    <2>4. \A x \in Callers \ {c} : loader /\ caller[x].pc = "load" => caller[x].key # k
      BY DEF WarmInv, OneFlight
    <2>5. \A j \in Keys : flight'[j] # none =>
               /\ caller'[flight'[j].by].pc = "load" /\ caller'[flight'[j].by].key = j
               /\ cache'[j] = none
      BY <1>9, <2>1, <2>3 DEF WarmInv, OneFlight
    <2>6. \A x \in Callers : caller'[x].pc = "load" =>
               flight'[caller'[x].key] # none /\ flight'[caller'[x].key].by = x
      BY <1>8, <2>2, <2>4 DEF WarmInv, OneFlight
    <2> QED BY <2>5, <2>6 DEF OneFlight
  <1>12. NewEnough'
    <2>1. \A x \in Callers : caller'[x] # Warm!Idle =>
              /\ caller[x] # Warm!Idle /\ caller'[x].kind = caller[x].kind
              /\ caller'[x].key = caller[x].key /\ caller'[x].owed = caller[x].owed
      BY <1>5, <1>6, TasksAreTasks
    <2>2. \A j \in Keys : flight'[j] # none => flight'[j] = flight[j]
      BY <1>1, <1>8
    <2> QED BY <1>9, <2>1, <2>2 DEF WarmInv, NewEnough
  <1>13. ChecksWarm'
    BY <1>5, <1>6, TasksAreTasks DEF WarmInv, ChecksWarm
  <1>14. HeldFresh' /\ ToldFresh' /\ Counted'
    BY <1>9 DEF WarmInv, HeldFresh, ToldFresh, Counted
  <1> QED BY <1>10, <1>11, <1>12, <1>13, <1>14 DEF WarmInv

LEMMA WarmChange ==
    ASSUME WarmInv, Warm!Change PROVE WarmInv'
  <1> USE DEF WarmInv, Warm!Change
  <1>1. WarmTypes'
    BY DEF WarmTypes
  <1>2. NewEnough'
    BY DEF NewEnough, WarmTypes
  <1>3. OneFlight' /\ ChecksWarm' /\ HeldFresh' /\ ToldFresh' /\ Counted'
    BY DEF OneFlight, ChecksWarm, HeldFresh, ToldFresh, Counted
  <1> QED BY <1>1, <1>2, <1>3

(* An entry is removed, while a load of it may be under way; an invalidation  *)
(* marks that load and owes all that the store has.                           *)
LEMMA WarmRemoved ==
    ASSUME WarmInv, NEW k \in Keys, Warm!Removed(k),
           \/ flight' = flight /\ owed' = owed
           \/ /\ flight' = IF flight[k] = none THEN flight ELSE [flight EXCEPT ![k].raced = TRUE]
              /\ owed' = [owed EXCEPT ![k] = source]
    PROVE  WarmInv'
  <1>1. UNCHANGED <<source, loads, caller, told>>
    BY DEF Warm!Removed
  <1>2. /\ cache' \in [Keys -> Entries \cup {none}] /\ cache'[k] = none
        /\ \A j \in Keys \ {k} : cache'[j] = cache[j]
        /\ removals' \in [Keys -> Nat] /\ removals'[k] = removals[k] + 1
        /\ \A j \in Keys \ {k} : removals'[j] = removals[j]
    BY DEF Warm!Removed, WarmInv, WarmTypes
  <1>3. /\ flight' \in [Keys -> Flights \cup {none}]
        /\ \A j \in Keys : (flight'[j] # none <=> flight[j] # none)
        /\ \A j \in Keys : flight[j] # none =>
               /\ flight'[j].by = flight[j].by /\ flight'[j].version = flight[j].version
               /\ ~flight'[j].raced => ~flight[j].raced
        /\ \A j \in Keys \ {k} : flight'[j] = flight[j]
        /\ owed'[k] # owed[k] /\ flight'[k] # none => flight'[k].raced
    <2>1. CASE flight' = flight /\ owed' = owed
      BY <2>1 DEF WarmInv, WarmTypes
    <2>2. CASE flight[k] = none /\ flight' = flight
      BY <2>2 DEF WarmInv, WarmTypes
    <2>3. CASE flight[k] # none /\ flight' = [flight EXCEPT ![k].raced = TRUE]
      <3> DEFINE raced == [flight[k] EXCEPT !.raced = TRUE]
      <3>1. raced \in Flights /\ raced.by = flight[k].by /\ raced.version = flight[k].version /\ raced.raced = TRUE
        BY <2>3 DEF WarmInv, WarmTypes, Flights
      <3>2. flight' = [flight EXCEPT ![k] = raced]
        BY <2>3
      <3> HIDE DEF raced
      <3> QED BY <2>3, <3>1, <3>2, TasksAreTasks DEF WarmInv, WarmTypes
    <2> QED BY <2>1, <2>2, <2>3
  <1>4. /\ owed' \in [Keys -> Nat] /\ owed'[k] \in {owed[k], source} /\ owed[k] <= source
        /\ \A j \in Keys \ {k} : owed'[j] = owed[j]
    BY DEF WarmInv, WarmTypes, NewEnough
  <1>5. \A j \in Keys : owed[j] <= owed'[j] /\ owed'[j] <= source /\ owed'[j] \in Nat /\ owed[j] \in Nat
    BY <1>4 DEF WarmInv, WarmTypes, NewEnough
  <1>6. WarmTypes'
    BY <1>1, <1>2, <1>3, <1>4 DEF WarmInv, WarmTypes
  <1>7. OneFlight'
    <2>1. \A x \in Callers : caller[x].pc = "load" => caller[x].key \in Keys
      BY TaskAt DEF WarmInv
    <2>2. \A j \in Keys : cache[j] = none => cache'[j] = none
      BY <1>2
    <2> QED BY <1>1, <1>3, <2>1, <2>2 DEF WarmInv, OneFlight
  <1>8. NewEnough'
    <2>1. ASSUME NEW j \in Keys, flight'[j] # none, flight'[j].version # none, ~flight'[j].raced
          PROVE  flight'[j].version >= owed'[j]
      <3>1. owed'[j] = owed[j]
        BY <1>3, <1>4, <2>1
      <3>2. flight[j] # none /\ flight[j].version # none /\ flight'[j].version = flight[j].version
        BY <1>3, <2>1
      <3>3. ~flight[j].raced
        BY <1>3, <2>1, <3>2
      <3> QED BY <3>1, <3>2, <3>3 DEF WarmInv, NewEnough
    <2>2. ASSUME NEW x \in Callers, caller'[x] # Warm!Idle, caller'[x].kind = "get"
          PROVE  caller'[x].owed <= owed'[caller'[x].key]
      <3>1. caller[x] \in Tasks /\ caller[x].key \in Keys /\ caller[x].owed \in Nat
        BY <1>1, <2>2 DEF WarmInv, WarmTypes, Tasks
      <3> QED BY <1>1, <1>5, <2>2, <3>1 DEF WarmInv, NewEnough
    <2> QED BY <1>1, <1>5, <2>1, <2>2 DEF NewEnough
  <1>9. HeldFresh'
    BY <1>2, <1>4 DEF WarmInv, HeldFresh
  <1>10. Counted'
    <2>1. loads[k] \in Nat /\ removals[k] \in Nat /\ loads[k] <= removals[k] + 1
      BY DEF WarmInv, WarmTypes, Counted
    <2>2. loads'[k] <= removals'[k] + (IF cache'[k] = none THEN 0 ELSE 1)
      BY <1>1, <1>2, <2>1
    <2> QED BY <1>1, <1>2, <2>2 DEF WarmInv, Counted
  <1>11. ChecksWarm' /\ ToldFresh'
    BY <1>1 DEF WarmInv, ChecksWarm, ToldFresh
  <1> QED BY <1>6, <1>7, <1>8, <1>9, <1>10, <1>11 DEF WarmInv

LEMMA WarmStep == WarmInv /\ [Next]_vars => WarmInv'
  <1> SUFFICES ASSUME WarmInv, [Next]_vars PROVE WarmInv'
    OBVIOUS
  <1>1. CASE UNCHANGED warmVars
    BY <1>1 DEF warmVars, WarmInv, WarmTypes, OneFlight, ChecksWarm, NewEnough, HeldFresh, ToldFresh, Counted
  <1>2. CASE Warm!Next
    <2>1. ASSUME NEW c \in Callers, Warm!Turn(c) PROVE WarmInv'
      BY <2>1, WarmCheck, WarmHit, WarmMiss, WarmRead DEF Warm!Turn
    <2>2. ASSUME NEW c \in Callers, Warm!Ends(c) PROVE WarmInv'
      BY <2>2, WarmLoaded, WarmLoadFails, WarmDrop DEF Warm!Ends
    <2>3. ASSUME NEW k \in Keys, Warm!Invalidate(k) PROVE WarmInv'
      BY <2>3, WarmRemoved DEF Warm!Invalidate
    <2>4. ASSUME NEW k \in Keys, Warm!Evict(k) PROVE WarmInv'
      BY <2>4, WarmRemoved DEF Warm!Evict
    <2> QED BY <1>2, <2>1, <2>2, <2>3, <2>4, WarmGetOrLoad, WarmWarm, WarmChange DEF Warm!Next
  <1> QED BY <1>1, <1>2 DEF Next, vars

LEMMA WarmAlways == Spec => []WarmInv
  <1>1. Init => WarmInv
    BY WarmInit DEF Init
  <1> QED BY <1>1, WarmStep, PTL DEF Spec

(* What WarmupCache holds, and what it told, is as new as the last            *)
(* invalidation, but for loads that were under way when it came (invalidate,  *)
(* try_get_with): for any number of tasks, keys and changes of the store.     *)
THEOREM FreshOrRacedAlways == Spec => []FreshOrRaced
  <1>1. WarmInv => FreshOrRaced
    BY DEF WarmInv, FreshOrRaced, Warm!FreshOrRaced, HeldFresh, ToldFresh
  <1> QED BY <1>1, WarmAlways, PTL

(* However many ask, wait, fail or are dropped: a key is loaded successfully  *)
(* at most once more than it was removed (the stampede of warmup.rs).         *)
THEOREM LoadsAreNeededAlways == Spec => []LoadsAreNeeded
  <1>1. ASSUME WarmInv, NEW k \in Keys PROVE loads[k] <= removals[k] + 1
    <2>1. loads[k] \in Nat /\ removals[k] \in Nat
      BY <1>1 DEF WarmInv, WarmTypes
    <2> QED BY <1>1, <2>1 DEF WarmInv, Counted
  <1>2. WarmInv => LoadsAreNeeded
    BY <1>1 DEF LoadsAreNeeded, Warm!LoadsAreNeeded
  <1> QED BY <1>2, WarmAlways, PTL

-----------------------------------------------------------------------------
(* The scratchpad.  A key is text: components, and separators between them.   *)
Symbols == STRING \cup {Pad!Separator}
Text == Seq(Symbols)
Mark == <<Pad!Separator>>
Joined(u, v) == (u \o Mark) \o v
SeparatorFree(u) == \A i \in 1..Len(u) : u[i] # Pad!Separator

\* How the places of whole are those of u, of the separator, and of v.
Around(whole, u, v) ==
    /\ Len(whole) = Len(u) + 1 + Len(v)
    /\ \A i \in 1..Len(u) : whole[i] = u[i]
    /\ whole[Len(u) + 1] = Pad!Separator
    /\ \A i \in 1..Len(v) : whole[Len(u) + 1 + i] = v[i]

LEMMA MarkIsText == Mark \in Text /\ Len(Mark) = 1 /\ Mark[1] = Pad!Separator
  <1>1. Pad!Separator \in Symbols
    BY DEF Symbols
  <1> QED BY <1>1 DEF Mark, Text

LEMMA JoinedIsText == \A u \in Text, v \in Text : Joined(u, v) \in Text
  <1> HIDE DEF Symbols
  <1> SUFFICES ASSUME NEW u \in Text, NEW v \in Text PROVE Joined(u, v) \in Text
    OBVIOUS
  <1>1. PICK head \in Seq(Symbols) : head = u \o Mark
    <2>1. PICK one \in Seq(Symbols) : one = Mark
      BY MarkIsText DEF Text
    <2>2. u \o one \in Seq(Symbols)
      BY DEF Text
    <2> QED BY <2>1, <2>2, Zenon
  <1>2. head \o v \in Seq(Symbols)
    BY DEF Text
  <1> QED BY <1>1, <1>2 DEF Text, Joined

LEMMA JoinedAround == \A u \in Text, v \in Text : Around(Joined(u, v), u, v)
  <1> SUFFICES ASSUME NEW u \in Seq(Symbols), NEW v \in Seq(Symbols) PROVE Around(Joined(u, v), u, v)
    BY DEF Text
  <1> HIDE DEF Symbols
  <1> DEFINE sep == Pad!Separator
  <1>1. PICK one \in Seq(Symbols) : one = Mark
    BY MarkIsText DEF Text
  <1>2. Len(one) = 1 /\ one[1] = sep
    BY <1>1, MarkIsText
  <1> HIDE DEF sep
  <1>3. PICK head \in Seq(Symbols) : head = u \o one
    <2>1. u \o one \in Seq(Symbols)
      OBVIOUS
    <2> QED BY <2>1, Zenon
  <1>4. /\ Len(head) = Len(u) + 1
        /\ \A i \in 1..Len(u) : head[i] = u[i]
        /\ head[Len(u) + 1] = sep
    <2>1. Len(u \o one) = Len(u) + Len(one)
      BY ConcatProperties
    <2>2. \A i \in 1..Len(u) : (u \o one)[i] = u[i]
      OBVIOUS
    <2>3. (u \o one)[Len(u) + 1] = one[1]
      <3>1. ASSUME NEW second \in Seq(Symbols)
            PROVE  \A i \in 1..Len(second) : (u \o second)[Len(u) + i] = second[i]
        OBVIOUS
      <3>2. \A i \in 1..Len(one) : (u \o one)[Len(u) + i] = one[i]
        BY <3>1, Zenon
      <3>3. 1 \in 1..Len(one)
        BY <1>2
      <3> QED BY <3>2, <3>3, Zenon
    <2> QED BY <1>2, <1>3, <2>1, <2>2, <2>3
  <1>5. /\ head \o v \in Seq(Symbols)
        /\ Len(head \o v) = Len(head) + Len(v)
        /\ \A i \in 1..Len(head) : (head \o v)[i] = head[i]
        /\ \A i \in 1..Len(v) : (head \o v)[Len(head) + i] = v[i]
    OBVIOUS
  <1>6. PICK all \in Seq(Symbols) : all = head \o v
    BY <1>5
  <1>7. Len(all) = Len(u) + 1 + Len(v) /\ \A i \in 1..(Len(u) + 1) : all[i] = head[i]
    BY <1>4, <1>5, <1>6
  <1>8. \A i \in 1..Len(v) : all[Len(u) + 1 + i] = v[i]
    BY <1>4, <1>5, <1>6
  <1>9. \A i \in 1..Len(u) : all[i] = u[i]
    BY <1>4, <1>7
  <1>10. all[Len(u) + 1] = sep
    BY <1>4, <1>7
  <1>11. Around(all, u, v)
    BY <1>7, <1>8, <1>9, <1>10, Zenon DEF Around, sep
  <1> QED BY <1>1, <1>3, <1>6, <1>11, Zenon DEF Joined

LEMMA JoinedRegroups ==
    \A u \in Text, v \in Text, w \in Text : Joined(Joined(u, v), w) = Joined(u, Joined(v, w))
  <1> SUFFICES ASSUME NEW u \in Seq(Symbols), NEW v \in Seq(Symbols), NEW w \in Seq(Symbols)
               PROVE  Joined(Joined(u, v), w) = Joined(u, Joined(v, w))
    BY DEF Text
  <1> HIDE DEF Symbols
  <1>1. PICK one \in Seq(Symbols) : one = Mark
    BY MarkIsText DEF Text
  <1>2. ASSUME NEW uo \in Seq(Symbols) PROVE (uo \o v) \o one = uo \o (v \o one)
    OBVIOUS
  <1>3. ASSUME NEW uo \in Seq(Symbols), NEW vo \in Seq(Symbols) PROVE (uo \o vo) \o w = uo \o (vo \o w)
    OBVIOUS
  <1>4. u \o one \in Seq(Symbols) /\ v \o one \in Seq(Symbols)
    OBVIOUS
  <1>5. ((u \o one) \o v) \o one = (u \o one) \o (v \o one)
    BY <1>2, <1>4, Zenon
  <1>6. ((u \o one) \o (v \o one)) \o w = (u \o one) \o ((v \o one) \o w)
    BY <1>3, <1>4, Zenon
  <1> QED BY <1>1, <1>5, <1>6, Zenon DEF Joined

(* What stands before a separator is read off unambiguously.                  *)
LEMMA SplitAtSeparator ==
    \A a \in Text, b \in Text, x \in Text, y \in Text :
        SeparatorFree(a) /\ SeparatorFree(b) /\ Joined(a, x) = Joined(b, y) => a = b /\ x = y
  <1> SUFFICES ASSUME NEW a \in Seq(Symbols), NEW b \in Seq(Symbols),
                      NEW x \in Seq(Symbols), NEW y \in Seq(Symbols),
                      SeparatorFree(a), SeparatorFree(b), Joined(a, x) = Joined(b, y)
               PROVE  a = b /\ x = y
    BY DEF Text
  <1> HIDE DEF Symbols
  <1> DEFINE whole == Joined(a, x)
             m == Len(a)
             n == Len(b)
  <1>1. Around(whole, a, x) /\ Around(whole, b, y)
    BY JoinedAround DEF Text
  <1>2. m \in Nat /\ n \in Nat /\ Len(x) \in Nat /\ Len(y) \in Nat
    BY LenProperties
  <1> HIDE DEF whole
  <1>3. m = n
    <2>1. ~(m < n)
      <3>1. m < n => m + 1 \in 1..n
        BY <1>2
      <3> QED BY <1>1, <3>1 DEF Around, SeparatorFree
    <2>2. ~(n < m)
      <3>1. n < m => n + 1 \in 1..m
        BY <1>2
      <3> QED BY <1>1, <3>1 DEF Around, SeparatorFree
    <2> QED BY <1>2, <2>1, <2>2
  <1>4. a = b
    BY <1>1, <1>3, SeqEqual DEF Around
  <1>5. Len(x) = Len(y)
    BY <1>1, <1>2, <1>3 DEF Around
  <1>6. \A i \in 1..Len(x) : x[i] = y[i]
    BY <1>1, <1>3, <1>5 DEF Around
  <1> QED BY <1>4, <1>5, <1>6, SeqEqual

(* No two entries of any two sessions have a key in common (TenantContext::key *)
(* and validate_component).                                                   *)
LEMMA KeysApart ==
    ASSUME NEW o \in Pad!Contexts, NEW p \in Pad!Contexts, NEW m \in Pad!Names, NEW n \in Pad!Names,
           Pad!ScratchpadKey(o, m) = Pad!ScratchpadKey(p, n)
    PROVE  o = p /\ m = n
  <1>1. \A raw \in Seq(STRING) : raw \in Text
    BY SeqMonotonic DEF Text, Symbols
  <1>2. /\ o.tenant \in Seq(STRING) /\ o.session \in Seq(STRING) /\ m \in Seq(STRING)
        /\ p.tenant \in Seq(STRING) /\ p.session \in Seq(STRING) /\ n \in Seq(STRING)
        /\ o = [tenant |-> o.tenant, session |-> o.session]
        /\ p = [tenant |-> p.tenant, session |-> p.session]
    BY TextAssumption DEF Pad!Contexts, Pad!Names
  <1>3. ASSUME NEW raw \in Seq(STRING), Pad!ValidComponent(raw)
        PROVE  SeparatorFree(raw)
    <2>1. Pad!Separator \notin Pad!ToSet(raw)
      BY <1>3, Zenon DEF Pad!ValidComponent, Pad!Forbidden
    <2>2. \A i \in DOMAIN raw : raw[i] \in Pad!ToSet(raw)
      BY Zenon DEF Pad!ToSet
    <2>3. DOMAIN raw = 1..Len(raw)
      BY LenProperties
    <2> QED BY <2>1, <2>2, <2>3 DEF SeparatorFree
  <1>4. /\ SeparatorFree(o.tenant) /\ SeparatorFree(o.session)
        /\ SeparatorFree(p.tenant) /\ SeparatorFree(p.session)
    BY <1>2, <1>3 DEF Pad!Contexts
  <1>5. /\ Pad!ScratchpadKey(o, m) = Joined(Joined(o.tenant, o.session), m)
        /\ Pad!ScratchpadKey(p, n) = Joined(Joined(p.tenant, p.session), n)
    BY DEF Pad!ScratchpadKey, Joined, Mark
  <1>6. /\ o.tenant \in Text /\ o.session \in Text /\ m \in Text
        /\ p.tenant \in Text /\ p.session \in Text /\ n \in Text
    BY <1>1, <1>2
  <1>7. Joined(o.tenant, Joined(o.session, m)) = Joined(p.tenant, Joined(p.session, n))
    <2>1. Joined(Joined(o.tenant, o.session), m) = Joined(o.tenant, Joined(o.session, m))
      BY <1>6, JoinedRegroups
    <2>2. Joined(Joined(p.tenant, p.session), n) = Joined(p.tenant, Joined(p.session, n))
      BY <1>6, JoinedRegroups
    <2> QED BY <1>5, <2>1, <2>2
  <1>8. Joined(o.session, m) \in Text /\ Joined(p.session, n) \in Text
    BY <1>6, JoinedIsText
  <1>9. o.tenant = p.tenant /\ Joined(o.session, m) = Joined(p.session, n)
    BY <1>4, <1>6, <1>7, <1>8, SplitAtSeparator
  <1>10. o.session = p.session /\ m = n
    BY <1>4, <1>6, <1>9, SplitAtSeparator
  <1> QED BY <1>2, <1>9, <1>10

\* What a caller is at: nothing, a command about to be sent, or its result.
Orders    == [op : {"put", "get", "delete"}, owner : Pad!Contexts, name : Pad!Names, value : Values]
Results   == Values \cup {none} \cup BOOLEAN
Sent(r)   == [pc |-> "send", key |-> Pad!ScratchpadKey(r.owner, r.name), req |-> r]
Done(v)   == [pc |-> "reply", value |-> v]
Errands   == {Pad!Idle} \cup {Sent(r) : r \in Orders} \cup {Done(v) : v \in Results}
PadReplies == {Pad!Waiting, Pad!Invalid, Pad!Lost} \cup [kind : {"ok"}, value : Results]

PadInv ==
    /\ request \in [Callers -> Errands]
    /\ reply \in [Callers -> PadReplies]
    /\ \A key \in DOMAIN store : store[key] \in Values

\* What the mapping makes of an errand, and of the store.
Seen(w) == CASE w = Pad!Idle -> Pad!Idle
             [] w.pc = "send"  -> [pc |-> "asked", req |-> w.req]
             [] w.pc = "reply" -> [pc |-> "done", value |-> w.value]
SeenAsked == [c \in Callers |-> Seen(request[c])]
Entry(o, n) == Pad!Held(Pad!ScratchpadKey(o, n))
SeenPad == [o \in Pad!Contexts |-> [n \in Pad!Names |-> Entry(o, n)]]

LEMMA SeenErrands ==
    /\ Seen(Pad!Idle) = Pad!Idle
    /\ \A r \in Orders : Seen(Sent(r)) = [pc |-> "asked", req |-> r] /\ Sent(r) # Pad!Idle
    /\ \A v \in Results : Seen(Done(v)) = [pc |-> "done", value |-> v] /\ Done(v) # Pad!Idle
  <1>1. Seen(Pad!Idle) = Pad!Idle
    BY DEF Seen, Pad!Idle
  <1>2. ASSUME NEW r \in Orders PROVE Seen(Sent(r)) = [pc |-> "asked", req |-> r] /\ Sent(r) # Pad!Idle
    BY DEF Seen, Sent, Pad!Idle
  <1>3. ASSUME NEW v \in Results PROVE Seen(Done(v)) = [pc |-> "done", value |-> v] /\ Done(v) # Pad!Idle
    BY DEF Seen, Done, Pad!Idle
  <1> QED BY <1>1, <1>2, <1>3

(* A step of one caller changes what is seen of that caller only.             *)
LEMMA SeenOne ==
    ASSUME NEW c \in Callers, NEW w, request' = [request EXCEPT ![c] = w], PadInv
    PROVE  SeenAsked' = [SeenAsked EXCEPT ![c] = Seen(w)]
  <1>1. request'[c] = w /\ \A d \in Callers \ {c} : request'[d] = request[d]
    BY DEF PadInv
  <1>2. SeenAsked' = [d \in Callers |-> Seen(request'[d])]
    BY DEF SeenAsked, Seen
  <1>3. SeenAsked = [d \in Callers |-> Seen(request[d])]
    BY DEF SeenAsked
  <1> QED BY <1>1, <1>2, <1>3

(* Init.                                                                      *)
LEMMA PadInitially == Pad!Init => PadInv /\ Pad!Pads!Init
  <1> SUFFICES ASSUME Pad!Init PROVE PadInv /\ Pad!Pads!Init
    OBVIOUS
  <1>1. PadInv
    BY DEF Pad!Init, PadInv, Errands, PadReplies
  <1>2. Pad!Pads!Init
    BY DEF Pad!Init, Pad!Pads!Init, Pad!Held, Pad!Idle, Pad!Pads!Idle, Pad!Waiting, Pad!Pads!Waiting
  <1> QED BY <1>1, <1>2

LEMMA PadTyped == PadInv /\ [Pad!Next]_padVars => PadInv'
  <1> SUFFICES ASSUME PadInv, [Pad!Next]_padVars PROVE PadInv'
    OBVIOUS
  <1>1. ASSUME NEW c \in Callers, NEW op \in {"put", "get", "delete"}, NEW ctx \in Pad!Contexts,
               NEW u \in UserKeys, NEW v \in Values, Pad!Call(c, op, ctx, u, v)
        PROVE  PadInv'
    <2>1. CASE Pad!ValidComponent(u)
      <3> DEFINE r == [op |-> op, owner |-> ctx, name |-> u, value |-> v]
      <3>1. r \in Orders
        BY <2>1 DEF Orders, Pad!Names
      <3>2. Sent(r) \in Errands
        BY <3>1 DEF Errands
      <3>3. /\ request' = [request EXCEPT ![c] = Sent(r)]
            /\ reply' = [reply EXCEPT ![c] = Pad!Waiting]
            /\ UNCHANGED store
        BY <1>1, <2>1 DEF Pad!Call, Sent
      <3> HIDE DEF r
      <3> QED BY <3>2, <3>3 DEF PadInv, PadReplies
    <2>2. CASE ~Pad!ValidComponent(u)
      BY <1>1, <2>2 DEF PadInv, Pad!Call, PadReplies
    <2> QED BY <2>1, <2>2
  <1>2. ASSUME NEW c \in Callers, Pad!Put(c) PROVE PadInv'
    <2>1. PICK r \in Orders : request[c] = Sent(r)
      BY <1>2 DEF PadInv, Pad!Put, Pad!Sends, Errands, Pad!Idle, Done
    <2>2. Done(none) \in Errands
      BY DEF Errands, Results
    <2>3. request[c].req.value \in Values
      BY <2>1 DEF Sent, Orders
    <2> QED BY <1>2, <2>2, <2>3 DEF PadInv, Pad!Put, Pad!Returns, Done
  <1>3. ASSUME NEW c \in Callers, Pad!Get(c) PROVE PadInv'
    <2>1. Done(Pad!Held(request[c].key)) \in Errands
      BY DEF PadInv, Errands, Results, Pad!Held
    <2> QED BY <1>3, <2>1 DEF PadInv, Pad!Get, Pad!Returns, Done
  <1>4. ASSUME NEW c \in Callers, Pad!Delete(c) PROVE PadInv'
    <2> DEFINE was == request[c].key \in DOMAIN store
    <2>1. Done(TRUE) \in Errands /\ Done(FALSE) \in Errands
      BY DEF Errands, Results
    <2>2. Done(was) = Done(TRUE) \/ Done(was) = Done(FALSE)
      <3>1. ASSUME NEW b \in BOOLEAN PROVE Done(b) = Done(TRUE) \/ Done(b) = Done(FALSE)
        BY DEF Done
      <3>2. was \in BOOLEAN
        OBVIOUS
      <3> HIDE DEF was
      <3> QED BY <3>1, <3>2
    <2> QED BY <1>4, <2>1, <2>2 DEF PadInv, Pad!Delete, Pad!Returns, Done
  <1>5. ASSUME NEW c \in Callers, Pad!Reply(c) PROVE PadInv'
    <2>1. PICK v \in Results : request[c] = Done(v)
      BY <1>5 DEF PadInv, Pad!Reply, Errands, Pad!Idle, Sent
    <2>2. [kind |-> "ok", value |-> request[c].value] \in PadReplies
      BY <2>1 DEF Done, PadReplies
    <2> QED BY <1>5, <2>2 DEF PadInv, Pad!Reply, Errands
  <1>6. ASSUME NEW c \in Callers, Pad!Fails(c) PROVE PadInv'
    BY <1>6 DEF PadInv, Pad!Fails, Errands, PadReplies
  <1>7. ASSUME Pad!StoreRestart PROVE PadInv'
    BY <1>7 DEF PadInv, Pad!StoreRestart
  <1>8. ASSUME UNCHANGED padVars PROVE PadInv'
    BY <1>8 DEF PadInv, padVars
  <1> QED BY <1>1, <1>2, <1>3, <1>4, <1>5, <1>6, <1>7, <1>8 DEF Pad!Next

(* The pads as the mapping shows them, with names for its two functions.      *)
Shown == INSTANCE PrivatePads WITH
    Owners <- Pad!Contexts, Names <- Pad!Names, pad <- SeenPad, asked <- SeenAsked

LEMMA SameEntries == UNCHANGED store => UNCHANGED SeenPad
  BY DEF SeenPad, Entry, Pad!Held

\* An entry is none exactly when its key is not in the store.
LEMMA EntryIsNone ==
    ASSUME PadInv, NEW o \in Pad!Contexts, NEW n \in Pad!Names
    PROVE  (Entry(o, n) = none) = (Pad!ScratchpadKey(o, n) \notin DOMAIN store)
  BY NoneAssumption DEF PadInv, Entry, Pad!Held

LEMMA CallIsAsked ==
    ASSUME PadInv, NEW c \in Callers, NEW op \in {"put", "get", "delete"}, NEW ctx \in Pad!Contexts,
           NEW u \in UserKeys, NEW v \in Values, Pad!Call(c, op, ctx, u, v)
    PROVE  Shown!Ask(c) \/ Shown!Refuse(c)
  <1>1. SeenAsked[c] = Pad!Idle /\ Pad!Idle = Shown!Idle
    BY SeenErrands DEF Pad!Call, SeenAsked, Pad!Idle, Shown!Idle
  <1>2. UNCHANGED SeenPad
    BY SameEntries DEF Pad!Call
  <1>3. CASE Pad!ValidComponent(u)
    <2> DEFINE r == [op |-> op, owner |-> ctx, name |-> u, value |-> v]
    <2>1. r \in Orders
      BY <1>3 DEF Orders, Pad!Names
    <2>2. /\ request' = [request EXCEPT ![c] = Sent(r)]
          /\ reply' = [reply EXCEPT ![c] = Shown!Waiting]
      BY <1>3 DEF Pad!Call, Sent, Pad!Waiting, Shown!Waiting
    <2> HIDE DEF r
    <2>3. SeenAsked' = [SeenAsked EXCEPT ![c] = [pc |-> "asked", req |-> r]]
      <3>1. Seen(Sent(r)) = [pc |-> "asked", req |-> r]
        BY <2>1, SeenErrands
      <3> QED BY <2>2, <3>1, SeenOne
    <2>4. r \in Shown!Requests
      BY <2>1 DEF Orders, Shown!Requests
    <2> QED BY <1>1, <1>2, <2>2, <2>3, <2>4 DEF Shown!Ask
  <1>4. CASE ~Pad!ValidComponent(u)
    <2>1. UNCHANGED SeenAsked /\ reply' = [reply EXCEPT ![c] = Shown!Invalid]
      BY <1>4 DEF Pad!Call, SeenAsked, Pad!Invalid, Shown!Invalid
    <2> QED BY <1>1, <1>2, <2>1 DEF Shown!Refuse
  <1> QED BY <1>3, <1>4

\* What is sent is an order of the caller that is waiting for its effect.
LEMMA SentOrder ==
    ASSUME PadInv, NEW c \in Callers, request[c].pc = "send"
    PROVE  \E r \in Orders : /\ request[c] = Sent(r) /\ SeenAsked[c] = [pc |-> "asked", req |-> r]
                             /\ request[c].key = Pad!ScratchpadKey(r.owner, r.name)
                             /\ request[c].req = r
  <1>1. PICK r \in Orders : request[c] = Sent(r)
    BY DEF PadInv, Errands, Pad!Idle, Done
  <1>2. SeenAsked[c] = [pc |-> "asked", req |-> r]
    BY <1>1, SeenErrands DEF SeenAsked
  <1>3. request[c].key = Pad!ScratchpadKey(r.owner, r.name) /\ request[c].req = r
    BY <1>1 DEF Sent
  <1> QED BY <1>1, <1>2, <1>3

\* What an effect writes to the pad, and what it tells the caller.
Written(r) == CASE r.op = "put" -> r.value [] r.op = "delete" -> none [] OTHER -> SeenPad[r.owner][r.name]
Answered(r) ==
    CASE r.op = "put" -> none
      [] r.op = "get" -> SeenPad[r.owner][r.name]
      [] OTHER -> SeenPad[r.owner][r.name] # none

LEMMA EffectOfOrder ==
    ASSUME NEW c \in Callers, NEW r \in Orders, SeenAsked[c] = [pc |-> "asked", req |-> r],
           SeenPad' = [SeenPad EXCEPT ![r.owner][r.name] = Written(r)],
           SeenAsked' = [SeenAsked EXCEPT ![c] = [pc |-> "done", value |-> Answered(r)]],
           UNCHANGED reply
    PROVE  Shown!Effect(c)
  <1>1. SeenAsked[c].pc = "asked" /\ SeenAsked[c].req = r
    OBVIOUS
  <1> QED BY <1>1, Zenon DEF Shown!Effect, Written, Answered

LEMMA PutIsEffect ==
    ASSUME PadInv, NEW c \in Callers, Pad!Put(c)
    PROVE  Shown!Effect(c)
  <1>1. PICK r \in Orders : /\ SeenAsked[c] = [pc |-> "asked", req |-> r]
                            /\ request[c].key = Pad!ScratchpadKey(r.owner, r.name)
                            /\ request[c].req = r
    BY SentOrder DEF Pad!Put, Pad!Sends
  <1>2. r.op = "put" /\ r.owner \in Pad!Contexts /\ r.name \in Pad!Names
    BY <1>1 DEF Orders, Pad!Put, Pad!Sends
  <1>3. SeenAsked' = [SeenAsked EXCEPT ![c] = [pc |-> "done", value |-> none]]
    <2>1. request' = [request EXCEPT ![c] = Done(none)]
      BY DEF Pad!Put, Pad!Returns, Done
    <2>2. Seen(Done(none)) = [pc |-> "done", value |-> none]
      BY SeenErrands DEF Results
    <2> QED BY <2>1, <2>2, SeenOne
  <1>4. ASSUME NEW o \in Pad!Contexts, NEW n \in Pad!Names
        PROVE  Entry(o, n)' = IF o = r.owner /\ n = r.name THEN r.value ELSE Entry(o, n)
    <2> DEFINE key == Pad!ScratchpadKey(o, n)
               mine == Pad!ScratchpadKey(r.owner, r.name)
    <2>1. key = mine => o = r.owner /\ n = r.name
      BY <1>2, KeysApart
    <2>2. o = r.owner /\ n = r.name => key = mine
      OBVIOUS
    <2>3. store' = [k \in DOMAIN store \cup {mine} |-> IF k = mine THEN r.value ELSE store[k]]
      BY <1>1 DEF Pad!Put
    <2>4. Entry(o, n) = IF key \in DOMAIN store THEN store[key] ELSE none
      BY DEF Entry, Pad!Held
    <2>5. Entry(o, n)' = IF key \in DOMAIN store' THEN store'[key] ELSE none
      BY DEF Entry, Pad!Held
    <2> HIDE DEF key, mine
    <2> QED BY <2>1, <2>2, <2>3, <2>4, <2>5
  <1>5. SeenPad' = [SeenPad EXCEPT ![r.owner][r.name] = r.value]
    BY <1>2, <1>4 DEF SeenPad
  <1>6. UNCHANGED reply
    BY DEF Pad!Put
  <1>7. Written(r) = r.value /\ Answered(r) = none
    BY <1>2 DEF Written, Answered
  <1> QED BY <1>1, <1>3, <1>5, <1>6, <1>7, EffectOfOrder

LEMMA GetIsEffect ==
    ASSUME PadInv, NEW c \in Callers, Pad!Get(c)
    PROVE  Shown!Effect(c)
  <1>1. PICK r \in Orders : /\ SeenAsked[c] = [pc |-> "asked", req |-> r]
                            /\ request[c].key = Pad!ScratchpadKey(r.owner, r.name)
                            /\ request[c].req = r
    BY SentOrder DEF Pad!Get, Pad!Sends
  <1>2. r.op = "get" /\ r.owner \in Pad!Contexts /\ r.name \in Pad!Names
    BY <1>1 DEF Orders, Pad!Get, Pad!Sends
  <1>3. SeenPad[r.owner][r.name] = Pad!Held(request[c].key)
    BY <1>1, <1>2 DEF SeenPad, Entry
  <1>4. Written(r) = SeenPad[r.owner][r.name] /\ Answered(r) = SeenPad[r.owner][r.name]
    BY <1>2 DEF Written, Answered
  <1>5. SeenAsked' = [SeenAsked EXCEPT ![c] = [pc |-> "done", value |-> Answered(r)]]
    <2> DEFINE v == Pad!Held(request[c].key)
    <2>1. v \in Results
      BY DEF PadInv, Pad!Held, Results
    <2>2. request' = [request EXCEPT ![c] = Done(v)]
      BY DEF Pad!Get, Pad!Returns, Done
    <2>3. v = Answered(r)
      BY <1>3, <1>4
    <2> HIDE DEF v
    <2>4. Seen(Done(v)) = [pc |-> "done", value |-> v]
      BY <2>1, SeenErrands
    <2> QED BY <2>2, <2>3, <2>4, SeenOne
  <1>6. SeenPad' = [SeenPad EXCEPT ![r.owner][r.name] = Written(r)]
    <2>1. UNCHANGED SeenPad
      BY SameEntries DEF Pad!Get
    <2>2. SeenPad = [SeenPad EXCEPT ![r.owner][r.name] = SeenPad[r.owner][r.name]]
      BY <1>2 DEF SeenPad
    <2> QED BY <1>4, <2>1, <2>2
  <1>7. UNCHANGED reply
    BY DEF Pad!Get
  <1> QED BY <1>1, <1>5, <1>6, <1>7, EffectOfOrder

LEMMA DeleteIsEffect ==
    ASSUME PadInv, NEW c \in Callers, Pad!Delete(c)
    PROVE  Shown!Effect(c)
  <1>1. PICK r \in Orders : /\ SeenAsked[c] = [pc |-> "asked", req |-> r]
                            /\ request[c].key = Pad!ScratchpadKey(r.owner, r.name)
                            /\ request[c].req = r
    BY SentOrder DEF Pad!Delete, Pad!Sends
  <1>2. r.op = "delete" /\ r.owner \in Pad!Contexts /\ r.name \in Pad!Names
    BY <1>1 DEF Orders, Pad!Delete, Pad!Sends
  <1> DEFINE was == request[c].key \in DOMAIN store
  <1>3. Written(r) = none /\ Answered(r) = was
    <2>1. (SeenPad[r.owner][r.name] # none) = was
      BY <1>1, <1>2, EntryIsNone DEF SeenPad
    <2> QED BY <1>2, <2>1 DEF Written, Answered
  <1>4. SeenAsked' = [SeenAsked EXCEPT ![c] = [pc |-> "done", value |-> Answered(r)]]
    <2>1. was \in Results
      BY DEF Results
    <2>2. request' = [request EXCEPT ![c] = Done(was)]
      BY DEF Pad!Delete, Pad!Returns, Done
    <2> HIDE DEF was
    <2>3. Seen(Done(was)) = [pc |-> "done", value |-> was]
      BY <2>1, SeenErrands
    <2> QED BY <1>3, <2>2, <2>3, SeenOne
  <1>5. ASSUME NEW o \in Pad!Contexts, NEW n \in Pad!Names
        PROVE  Entry(o, n)' = IF o = r.owner /\ n = r.name THEN none ELSE Entry(o, n)
    <2> DEFINE key == Pad!ScratchpadKey(o, n)
               mine == Pad!ScratchpadKey(r.owner, r.name)
    <2>1. key = mine => o = r.owner /\ n = r.name
      BY <1>2, KeysApart
    <2>2. o = r.owner /\ n = r.name => key = mine
      OBVIOUS
    <2>3. store' = [k \in DOMAIN store \ {mine} |-> store[k]]
      BY <1>1 DEF Pad!Delete
    <2>4. Entry(o, n) = IF key \in DOMAIN store THEN store[key] ELSE none
      BY DEF Entry, Pad!Held
    <2>5. Entry(o, n)' = IF key \in DOMAIN store' THEN store'[key] ELSE none
      BY DEF Entry, Pad!Held
    <2> HIDE DEF key, mine
    <2> QED BY <2>1, <2>2, <2>3, <2>4, <2>5
  <1>6. SeenPad' = [SeenPad EXCEPT ![r.owner][r.name] = Written(r)]
    BY <1>2, <1>3, <1>5 DEF SeenPad
  <1>7. UNCHANGED reply
    BY DEF Pad!Delete
  <1> QED BY <1>1, <1>4, <1>6, <1>7, EffectOfOrder

LEMMA ReplyIsAnswer ==
    ASSUME PadInv, NEW c \in Callers, Pad!Reply(c)
    PROVE  Shown!Answer(c)
  <1>1. PICK v \in Results : request[c] = Done(v)
    BY DEF PadInv, Pad!Reply, Errands, Pad!Idle, Sent
  <1>2. SeenAsked[c] = [pc |-> "done", value |-> v]
    BY <1>1, SeenErrands DEF SeenAsked
  <1>3. reply' = [reply EXCEPT ![c] = [kind |-> "ok", value |-> v]]
    BY <1>1 DEF Pad!Reply, Done
  <1>4. SeenAsked' = [SeenAsked EXCEPT ![c] = Shown!Idle]
    BY SeenOne, SeenErrands DEF Pad!Reply, Pad!Idle, Shown!Idle
  <1>5. UNCHANGED SeenPad
    BY SameEntries DEF Pad!Reply
  <1> QED BY <1>2, <1>3, <1>4, <1>5 DEF Shown!Answer, Shown!Result

LEMMA FailsIsFail ==
    ASSUME PadInv, NEW c \in Callers, Pad!Fails(c)
    PROVE  Shown!Fail(c)
  <1>1. SeenAsked[c] # Shown!Idle
    <2>1. CASE \E r \in Orders : request[c] = Sent(r)
      BY <2>1, SeenErrands DEF SeenAsked, Shown!Idle
    <2>2. CASE \E v \in Results : request[c] = Done(v)
      BY <2>2, SeenErrands DEF SeenAsked, Shown!Idle
    <2> QED BY <2>1, <2>2 DEF PadInv, Errands, Pad!Fails
  <1>2. SeenAsked' = [SeenAsked EXCEPT ![c] = Shown!Idle]
    BY SeenOne, SeenErrands DEF Pad!Fails, Pad!Idle, Shown!Idle
  <1>3. UNCHANGED SeenPad
    BY SameEntries DEF Pad!Fails
  <1> QED BY <1>1, <1>2, <1>3 DEF Pad!Fails, Shown!Fail, Pad!Lost, Shown!Lost

LEMMA RestartLosesAll == Pad!StoreRestart => Shown!LoseAll
  <1> SUFFICES ASSUME Pad!StoreRestart PROVE Shown!LoseAll
    OBVIOUS
  <1>1. \A o \in Pad!Contexts, n \in Pad!Names : Entry(o, n)' = none
    BY DEF Entry, Pad!Held, Pad!StoreRestart
  <1>2. SeenPad' = [o \in Pad!Contexts |-> [n \in Pad!Names |-> none]]
    BY <1>1 DEF SeenPad
  <1>3. UNCHANGED <<SeenAsked, reply>>
    BY DEF SeenAsked, Pad!StoreRestart
  <1> QED BY <1>2, <1>3 DEF Shown!LoseAll

LEMMA ShownStep == PadInv /\ [Pad!Next]_padVars => [Shown!Next]_(Shown!vars)
  <1> SUFFICES ASSUME PadInv, Pad!Next \/ UNCHANGED padVars PROVE Shown!Next \/ UNCHANGED Shown!vars
    OBVIOUS
  <1>1. ASSUME UNCHANGED padVars PROVE UNCHANGED Shown!vars
    BY <1>1, SameEntries DEF padVars, Shown!vars, SeenAsked
  <1> QED BY <1>1, CallIsAsked, PutIsEffect, GetIsEffect, DeleteIsEffect, ReplyIsAnswer, FailsIsFail,
             RestartLosesAll DEF Pad!Next, Shown!Next

LEMMA ShownIsPads == [Shown!Next]_(Shown!vars) => [Pad!Pads!Next]_(Pad!Pads!vars)
  BY DEF Shown!Next, Shown!vars, Shown!Ask, Shown!Refuse, Shown!Effect, Shown!Answer, Shown!Fail, Shown!LoseAll,
         Shown!Requests, Shown!Idle, Shown!Waiting, Shown!Invalid, Shown!Lost, Shown!Result, SeenPad, SeenAsked, Seen, Entry,
         Pad!Pads!Next, Pad!Pads!vars, Pad!Pads!Ask, Pad!Pads!Refuse, Pad!Pads!Effect, Pad!Pads!Answer,
         Pad!Pads!Fail, Pad!Pads!LoseAll, Pad!Pads!Requests, Pad!Pads!Idle, Pad!Pads!Waiting, Pad!Pads!Invalid, Pad!Pads!Lost,
         Pad!Pads!Result

(* Whatever claims, names and calls at once: each session has a pad of its    *)
(* own, and a call answers for one moment between its start and its end       *)
(* (TenantContext::key, TenantRepository).                                    *)
THEOREM KeepsApartAlways == Spec => KeepsApart
  <1>1. Init => PadInv /\ Pad!Pads!Init
    BY PadInitially DEF Init
  <1>2. [Next]_vars => [Pad!Next]_padVars
    BY DEF Next, vars, padVars
  <1>3. PadInv /\ [Pad!Next]_padVars => PadInv'
    BY PadTyped
  <1>4. PadInv /\ [Pad!Next]_padVars => [Pad!Pads!Next]_(Pad!Pads!vars)
    BY ShownStep, ShownIsPads
  <1> QED BY <1>1, <1>2, <1>3, <1>4, PTL DEF Spec, KeepsApart, Pad!KeepsApart, Pad!Pads!Spec
-----------------------------------------------------------------------------
(* XmlEngine.  Induction over the lines of an act is had from the least       *)
(* number for which a claim does not hold.                                    *)
LEMMA LeastOf ==
    ASSUME NEW T, T \subseteq Nat, T # {}
    PROVE  \E x \in T : \A y \in T : x <= y
  <1>1. PICK x \in T : \A y \in T : ~ (<<y, x>> \in OpToRel(<, Nat))
    BY WFMin, NatLessThanWellFounded
  <1>2. \A y \in T : ~(y < x)
    BY <1>1 DEF OpToRel
  <1> QED BY <1>2

LEMMA GreatestOf ==
    ASSUME NEW n \in Nat, NEW T, T \subseteq 1..n, T # {}
    PROVE  \E x \in T : \A y \in T : y <= x
  <1> DEFINE bounds == {m \in Nat : \A y \in T : y <= m}
  <1>1. n \in bounds
    OBVIOUS
  <1>2. PICK m \in bounds : \A k \in bounds : m <= k
    <2>1. bounds \subseteq Nat /\ bounds # {}
      BY <1>1
    <2> HIDE DEF bounds
    <2> QED BY <2>1, LeastOf
  <1>3. ASSUME m \notin T PROVE FALSE
    <2>1. \A y \in T : y <= m - 1 /\ y >= 1
      BY <1>3
    <2>2. m - 1 \in Nat
      <3>1. PICK y \in T : TRUE
        OBVIOUS
      <3> QED BY <2>1, <3>1
    <2>3. m - 1 \in bounds
      BY <2>1, <2>2
    <2> QED BY <1>2, <2>3
  <1> QED BY <1>3

Articles == [id : STRING, text : STRING]
Lines    == [bar : {TRUE}, id : STRING, text : STRING] \cup [bar : {FALSE}]

\* One turn of the loop over the lines.
Turn(raw, before, n) ==
    IF n = 0 THEN <<>>
    ELSE IF raw[n].bar THEN Append(before, [id |-> raw[n].id, text |-> raw[n].text])
    ELSE before

LEMMA TurnTyped ==
    ASSUME NEW raw \in Seq(Lines), NEW n \in 0..Len(raw), NEW before, n # 0 => before \in Seq(Articles)
    PROVE  Turn(raw, before, n) \in Seq(Articles)
  <1>1. CASE n = 0
    BY <1>1 DEF Turn
  <1>2. CASE n # 0
    <2>1. raw[n] \in Lines /\ before \in Seq(Articles)
      BY <1>2
    <2>2. raw[n].bar => [id |-> raw[n].id, text |-> raw[n].text] \in Articles
      BY <2>1 DEF Lines, Articles
    <2> QED BY <1>2, <2>1, <2>2, AppendProperties DEF Turn
  <1> QED BY <1>1, <1>2

\* The lines can be read one after the other.
Readings(raw, n) == {f \in [0..n -> Seq(Articles)] : \A i \in 0..n : f[i] = Turn(raw, f[i - 1], i)}

LEMMA ReadingExists ==
    ASSUME NEW raw \in Seq(Lines), NEW n \in 0..Len(raw)
    PROVE  Readings(raw, n) # {}
  <1> DEFINE wrong == {m \in 0..Len(raw) : Readings(raw, m) = {}}
  <1>1. SUFFICES ASSUME wrong # {} PROVE FALSE
    OBVIOUS
  <1>2. PICK m \in wrong : \A k \in wrong : m <= k
    <2>1. wrong \subseteq Nat
      OBVIOUS
    <2> HIDE DEF wrong
    <2> QED BY <1>1, <2>1, LeastOf
  <1>3. m \in 0..Len(raw) /\ Readings(raw, m) = {}
    OBVIOUS
  <1>4. CASE m = 0
    <2> DEFINE f == [i \in 0..0 |-> <<>>]
    <2>1. f \in [0..m -> Seq(Articles)]
      BY <1>4
    <2>2. \A i \in 0..m : f[i] = Turn(raw, f[i - 1], i)
      BY <1>4 DEF Turn
    <2> QED BY <1>3, <2>1, <2>2 DEF Readings
  <1>5. CASE m # 0
    <2>1. m - 1 \in 0..Len(raw) /\ m - 1 \notin wrong
      BY <1>2, <1>3, <1>5
    <2>2. PICK f \in Readings(raw, m - 1) : TRUE
      BY <2>1
    <2>3. f \in [0..m - 1 -> Seq(Articles)] /\ \A i \in 0..m - 1 : f[i] = Turn(raw, f[i - 1], i)
      BY DEF Readings
    <2> DEFINE last == Turn(raw, f[m - 1], m)
               g == [i \in 0..m |-> IF i = m THEN last ELSE f[i]]
    <2>4. last \in Seq(Articles)
      BY <1>3, <1>5, <2>3, TurnTyped
    <2> HIDE DEF last
    <2>5. g \in [0..m -> Seq(Articles)]
      BY <1>3, <1>5, <2>3, <2>4
    <2>6. \A i \in 0..m : g[i] = Turn(raw, g[i - 1], i)
      <3>1. g[m] = Turn(raw, g[m - 1], m)
        <4>1. last = Turn(raw, f[m - 1], m)
          BY DEF last
        <4>2. g[m] = last /\ g[m - 1] = f[m - 1]
          BY <1>3, <1>5
        <4> HIDE DEF g, last
        <4> QED BY <4>1, <4>2
      <3>2. ASSUME NEW i \in 0..m - 1 PROVE g[i] = Turn(raw, g[i - 1], i)
        <4>1. CASE i = 0
          <5>1. f[i] = <<>>
            BY <2>3, <4>1 DEF Turn
          <5>2. g[i] = f[i]
            BY <1>3, <1>5, <4>1
          <5> HIDE DEF g
          <5> QED BY <4>1, <5>1, <5>2 DEF Turn
        <4>2. CASE i # 0
          <5>1. i - 1 \in 0..m - 1 /\ i \in 0..m /\ i # m /\ i - 1 # m /\ i - 1 \in 0..m
            BY <1>3, <1>5, <4>2
          <5>2. g[i] = f[i] /\ g[i - 1] = f[i - 1]
            BY <5>1
          <5> QED BY <2>3, <5>2
        <4> QED BY <4>1, <4>2
      <3> QED BY <1>3, <3>1, <3>2
    <2> HIDE DEF g
    <2> QED BY <1>3, <2>5, <2>6 DEF Readings
  <1> QED BY <1>4, <1>5

LEMMA ParsedIsDocument ==
    ASSUME NEW raw \in Raws
    PROVE  Xml!Parse(raw) \in Seq(Articles)
  <1>1. raw \in Seq(Lines) /\ Len(raw) \in Nat
    BY ActsAssumption DEF Lines
  <1> DEFINE IsReading(f) == f = [n \in 0..Len(raw) |->
                                     IF n = 0 THEN <<>>
                                     ELSE IF raw[n].bar THEN Append(f[n - 1], [id |-> raw[n].id, text |-> raw[n].text])
                                     ELSE f[n - 1]]
             articles == CHOOSE f : IsReading(f)
  <1>2. Xml!Parse(raw) = articles[Len(raw)]
    BY DEF Xml!Parse
  <1>3. \E f : IsReading(f)
    <2>1. PICK f \in Readings(raw, Len(raw)) : TRUE
      BY <1>1, ReadingExists
    <2>2. IsReading(f)
      BY <1>1 DEF Readings, Turn
    <2> QED BY <2>2
  <1>4. IsReading(articles)
    BY <1>3
  <1> HIDE DEF articles
  <1>5. \A n \in 0..Len(raw) : articles[n] = Turn(raw, articles[n - 1], n)
    BY <1>4 DEF Turn
  <1> HIDE DEF IsReading
  <1> DEFINE wrong == {n \in 0..Len(raw) : articles[n] \notin Seq(Articles)}
  <1>6. ASSUME wrong # {} PROVE FALSE
    <2>1. PICK m \in wrong : \A k \in wrong : m <= k
      <3>1. wrong \subseteq Nat
        BY <1>1
      <3> HIDE DEF wrong
      <3> QED BY <1>6, <3>1, LeastOf
    <2>2. m \in 0..Len(raw) /\ articles[m] \notin Seq(Articles)
      OBVIOUS
    <2>3. m # 0 => articles[m - 1] \in Seq(Articles)
      <3>1. m # 0 => m - 1 \in 0..Len(raw) /\ m - 1 \notin wrong
        BY <1>1, <2>1, <2>2
      <3> QED BY <3>1
    <2> QED BY <1>1, <1>5, <2>2, <2>3, TurnTyped
  <1> QED BY <1>1, <1>2, <1>6

\* Walks past a page: what is read so far, and where it ends.
Size(w) == IF w.size < 1 THEN 1 ELSE w.size

LEMMA Pages ==
    ASSUME NEW page \in Nat, NEW size \in Nat \ {0}
    PROVE  /\ page * size \in Nat /\ page <= page * size
           /\ (page + 1) * size = page * size + size
  <1>1. page * size \in Nat /\ (page + 1) * size = page * size + size
    BY SMT
  <1>2. page * 1 <= page * size
    <2>1. PICK k \in Nat : size = 1 + k
      <3>1. size - 1 \in Nat /\ size = 1 + (size - 1)
        OBVIOUS
      <3> QED BY <3>1
    <2>2. page * (1 + k) = page * 1 + page * k /\ page * k \in Nat
      BY SMT
    <2> QED BY <2>1, <2>2
  <1> QED BY <1>1, <1>2

\* What a page adds to the ones before it.
Continues(doc, page, size, got, p) ==
    /\ p.items \in Seq(Articles)
    /\ p.next \in {page + 1, none}
    /\ got = SubSeq(doc, 1, page * size) /\ (page = 0 \/ page * size < Len(doc)) =>
           IF p.next = none
           THEN got \o p.items = doc /\ (page + 1 <= Len(doc) \/ (doc = <<>> /\ page = 0))
           ELSE (page + 1) * size < Len(doc) /\ got \o p.items = SubSeq(doc, 1, (page + 1) * size)

LEMMA OnePage ==
    ASSUME NEW doc \in Seq(Articles), NEW page \in Nat, NEW page_size \in Nat, none \notin Nat, NEW got
    PROVE  Continues(doc, page, IF page_size < 1 THEN 1 ELSE page_size, got, Xml!Paginate(doc, page, page_size))
  <1> DEFINE size == IF page_size < 1 THEN 1 ELSE page_size
             p == Xml!Paginate(doc, page, page_size)
             start == page * size
             end == IF start + size < Len(doc) THEN start + size ELSE Len(doc)
  <1>1. p = [items |-> IF start < Len(doc) THEN SubSeq(doc, start + 1, end) ELSE <<>>,
             next  |-> IF end < Len(doc) THEN page + 1 ELSE none]
    BY DEF Xml!Paginate
  <1>2. size \in Nat \ {0}
    OBVIOUS
  <1> HIDE DEF size, p
  <1>3. start \in Nat /\ page <= start /\ (page + 1) * size = start + size
    BY <1>2, Pages
  <1>4. Len(doc) \in Nat /\ \A i \in 1..Len(doc) : doc[i] \in Articles
    OBVIOUS
  <1>0. page = 0 => start = 0
    BY <1>2
  <1> HIDE DEF start
  <1>9. p.items = IF start < Len(doc) THEN SubSeq(doc, start + 1, end) ELSE <<>>
    <2> HIDE DEF end
    <2> QED BY <1>1, Zenon
  <1>5. end \in Nat /\ end <= Len(doc) /\ (start < Len(doc) => end > start)
    BY <1>2, <1>3, <1>4
  <1>6. p.items \in Seq(Articles)
    <2>1. start < Len(doc) => SubSeq(doc, start + 1, end) \in Seq(Articles)
      <3> SUFFICES ASSUME start < Len(doc) PROVE SubSeq(doc, start + 1, end) \in Seq(Articles)
        OBVIOUS
      <3>1. \A i \in start + 1..end : doc[i] \in Articles
        BY <1>3, <1>4, <1>5
      <3> HIDE DEF end
      <3>2. start + 1 \in Int /\ end \in Int
        BY <1>3, <1>5
      <3> QED BY <3>1, <3>2, SubSeqProperties
    <2> HIDE DEF end
    <2> QED BY <1>9, <2>1
  <1>7. p.next \in {page + 1, none}
    BY <1>1
  <1>8. ASSUME got = SubSeq(doc, 1, start), page = 0 \/ start < Len(doc)
        PROVE  IF p.next = none
               THEN got \o p.items = doc /\ (page + 1 <= Len(doc) \/ (doc = <<>> /\ page = 0))
               ELSE (page + 1) * size < Len(doc) /\ got \o p.items = SubSeq(doc, 1, (page + 1) * size)
    <2>1. CASE start < Len(doc)
      <3>1. got \o p.items = SubSeq(doc, 1, end)
        <4> HIDE DEF end
        <4>1. p.items = SubSeq(doc, start + 1, end)
          BY <1>9, <2>1
        <4>2. start \in 1 - 1..Len(doc) /\ end \in start..Len(doc) /\ 1 \in 1..Len(doc) + 1
          BY <1>3, <1>4, <1>5, <2>1
        <4>3. SubSeq(doc, 1, start) \o SubSeq(doc, start + 1, end) = SubSeq(doc, 1, end)
          BY <4>2, ConcatAdjacentSubSeq
        <4> QED BY <1>8, <4>1, <4>3
      <3>2. CASE end < Len(doc)
        <4>1. p.next = page + 1 /\ p.next # none /\ end = start + size
          BY <1>1, <3>2
        <4> HIDE DEF end
        <4> QED BY <1>3, <3>1, <3>2, <4>1
      <3>3. CASE ~(end < Len(doc))
        <4>1. p.next = none /\ end = Len(doc)
          BY <1>1, <1>4, <1>5, <3>3
        <4> HIDE DEF end
        <4>2. got \o p.items = doc
          BY <3>1, <4>1, SubSeqFull
        <4>3. page + 1 <= Len(doc)
          BY <1>3, <1>4, <2>1
        <4> QED BY <4>1, <4>2, <4>3
      <3> QED BY <3>2, <3>3
    <2>2. CASE ~(start < Len(doc))
      <3>1. page = 0 /\ start = 0 /\ Len(doc) = 0
        BY <1>0, <1>4, <1>8, <2>2
      <3>2. doc = <<>> /\ end = 0 /\ p.next = none /\ p.items = <<>>
        BY <1>1, <1>2, <1>5, <2>2, <3>1
      <3>3. got = <<>>
        BY <1>8, <3>1, SubSeqEmpty
      <3> QED BY <3>1, <3>2, <3>3
    <2> QED BY <2>1, <2>2
  <1> HIDE DEF end
  <1> QED BY <1>6, <1>7, <1>8 DEF start, size, p, Continues

\* What an article reads, of two with one id the later.
LEMMA ByIdReads ==
    ASSUME NEW doc \in Seq(Articles)
    PROVE  LET read == Xml!ById(doc) IN
           /\ DOMAIN read = {doc[i].id : i \in DOMAIN doc}
           /\ read = [id \in DOMAIN read |-> read[id]]
           /\ \A id \in DOMAIN read : id \in STRING /\ read[id] \in STRING
  <1> DEFINE ids == {doc[i].id : i \in DOMAIN doc}
             last(id) == CHOOSE i \in DOMAIN doc : doc[i].id = id /\ \A j \in DOMAIN doc : doc[j].id = id => j <= i
  <1>1. Xml!ById(doc) = [id \in ids |-> doc[last(id)].text]
    BY DEF Xml!ById
  <1>2. DOMAIN doc = 1..Len(doc) /\ Len(doc) \in Nat /\ \A i \in DOMAIN doc : doc[i] \in Articles
    OBVIOUS
  <1>3. \A a \in Articles : a.id \in STRING /\ a.text \in STRING
    BY DEF Articles
  <1>4. ASSUME NEW id \in ids PROVE doc[last(id)].text \in STRING
    <2> DEFINE T == {i \in DOMAIN doc : doc[i].id = id}
    <2>1. T # {} /\ T \subseteq 1..Len(doc)
      BY <1>2
    <2>2. PICK x \in T : \A y \in T : y <= x
      <3> HIDE DEF T
      <3> QED BY <1>2, <2>1, GreatestOf
    <2>3. last(id) \in DOMAIN doc
      BY <2>2
    <2> HIDE DEF last
    <2> QED BY <1>2, <1>3, <2>3
  <1>5. ids \subseteq STRING
    BY <1>2, <1>3
  <1> HIDE DEF last, ids
  <1>6. DOMAIN Xml!ById(doc) = ids /\ \A id \in ids : Xml!ById(doc)[id] = doc[last(id)].text
    BY <1>1
  <1>7. Xml!ById(doc) = [id \in DOMAIN Xml!ById(doc) |-> Xml!ById(doc)[id]]
    BY <1>1, <1>6
  <1> QED BY <1>4, <1>5, <1>6, <1>7 DEF ids

\* A set of articles in any order reads as they do, if each id is there once.
LEMMA AnyOrderReads ==
    ASSUME NEW f, f = [id \in DOMAIN f |-> f[id]],
           NEW M, M = {[id |-> i, text |-> f[i]] : i \in DOMAIN f}, IsFiniteSet(M)
    PROVE  Xml!ById(Xml!SetToSeq(M)) = f
  <1> DEFINE s == Xml!SetToSeq(M)
             N == Cardinality(M)
  <1>1. N \in Nat /\ IsFiniteSet(1..N) /\ Cardinality(1..N) = N
    <2>1. N \in Nat
      BY FS_CardinalityType
    <2> HIDE DEF N
    <2> QED BY <2>1, FS_Interval
  <1>2. \E g \in [1..N -> M] : IsInjective(g)
    <2>1. PICK g \in Bijection(1..N, M) : TRUE
      BY FS_CardinalityType DEF ExistsBijection
    <2>2. g \in Injection(1..N, M)
      BY DEF Bijection
    <2> QED BY <2>2 DEF Injection
  <1>3. s \in [1..N -> M] /\ IsInjective(s)
    <2>1. Xml!Cardinality(M) = Cardinality(M)
      BY DEF Xml!Cardinality, Cardinality
    <2> QED BY <1>2, <2>1 DEF Xml!SetToSeq, Xml!IsInjective, IsInjective
  <1> HIDE DEF s, N
  <1>4. s \in Surjection(1..N, M)
    <2>1. s \in Injection(1..N, M)
      BY <1>3 DEF Injection
    <2> QED BY <1>1, <2>1, FS_Injection DEF N
  <1>5. \A a \in M : \E n \in 1..N : s[n] = a
    BY <1>4 DEF Surjection
  <1>6. \A a \in M : a.id \in DOMAIN f /\ a.text = f[a.id] /\ a = [id |-> a.id, text |-> f[a.id]]
    OBVIOUS
  <1>7. \A n \in 1..N : s[n] \in M
    BY <1>3
  <1>8. DOMAIN s = 1..N
    BY <1>3
  <1> DEFINE last(id) == CHOOSE i \in DOMAIN s : s[i].id = id /\ \A j \in DOMAIN s : s[j].id = id => j <= i
  <1>9. {s[n].id : n \in DOMAIN s} = DOMAIN f
    <2>1. ASSUME NEW i \in DOMAIN f PROVE \E n \in DOMAIN s : s[n].id = i
      <3>1. PICK n \in 1..N : s[n] = [id |-> i, text |-> f[i]]
        BY <1>5
      <3> QED BY <1>8, <3>1
    <2>2. \A n \in DOMAIN s : s[n].id \in DOMAIN f
      BY <1>6, <1>7, <1>8
    <2> QED BY <2>1, <2>2
  <1>10. ASSUME NEW id \in DOMAIN f PROVE s[last(id)].text = f[id]
    <2>1. PICK n \in DOMAIN s : s[n].id = id
      BY <1>9
    <2>2. ASSUME NEW j \in DOMAIN s, s[j].id = id PROVE j = n
      <3>1. s[j] = s[n]
        BY <1>6, <1>7, <1>8, <2>1, <2>2
      <3> QED BY <1>3, <3>1 DEF IsInjective
    <2>3. n \in Nat
      BY <1>8
    <2>4. last(id) \in DOMAIN s /\ s[last(id)].id = id
      BY <2>1, <2>2, <2>3
    <2> HIDE DEF last
    <2> QED BY <1>6, <1>7, <1>8, <2>4
  <1>11. Xml!ById(s) = [id \in DOMAIN f |-> s[last(id)].text]
    BY <1>9 DEF Xml!ById
  <1> HIDE DEF last
  <1>12. Xml!ById(s) = f
    BY <1>10, <1>11
  <1> QED BY <1>12 DEF s

\* A copy changed where the documents differ reads as the new one.
Merged(old, doc) ==
    LET d   == Xml!Diff(old, doc)
        new == Xml!ById(doc)
        was == Xml!ById(old)
    IN  {[id |-> i, text |-> new[i]] : i \in d.added \cup d.changed}
        \cup {[id |-> i, text |-> was[i]] : i \in DOMAIN was \ (d.removed \cup d.changed)}

LEMMA UpdatedReads ==
    ASSUME NEW old, NEW doc \in Seq(Articles)
    PROVE  Xml!ById(Xml!SetToSeq(Merged(old, doc))) = Xml!ById(doc)
  <1> DEFINE d   == Xml!Diff(old, doc)
             new == Xml!ById(doc)
             was == Xml!ById(old)
             M   == {[id |-> i, text |-> new[i]] : i \in DOMAIN new}
             merged == {[id |-> i, text |-> new[i]] : i \in d.added \cup d.changed}
                     \cup {[id |-> i, text |-> was[i]] : i \in DOMAIN was \ (d.removed \cup d.changed)}
  <1>1. /\ d.added = DOMAIN new \ DOMAIN was
        /\ d.changed = {id \in DOMAIN new \cap DOMAIN was : was[id] # new[id]}
        /\ d.removed = DOMAIN was \ DOMAIN new
    BY DEF Xml!Diff
  <1>2. DOMAIN new = {doc[i].id : i \in DOMAIN doc} /\ new = [id \in DOMAIN new |-> new[id]]
    BY ByIdReads
  <1> HIDE DEF d, new, was
  <1>3. merged = M
    <2>1. ASSUME NEW i \in DOMAIN new
          PROVE  [id |-> i, text |-> new[i]] \in merged
      <3>1. CASE i \in d.added \cup d.changed
        BY <3>1
      <3>2. CASE i \notin d.added \cup d.changed
        <4>1. i \in DOMAIN was \ (d.removed \cup d.changed) /\ was[i] = new[i]
          BY <1>1, <3>2
        <4> QED BY <4>1
      <3> QED BY <3>1, <3>2
    <2>2. \A i \in d.added \cup d.changed : i \in DOMAIN new
      BY <1>1
    <2>3. \A i \in DOMAIN was \ (d.removed \cup d.changed) : i \in DOMAIN new /\ was[i] = new[i]
      BY <1>1
    <2>4. merged \subseteq M
      BY <2>2, <2>3
    <2>5. M \subseteq merged
      BY <2>1
    <2> QED BY <2>4, <2>5
  <1>4. IsFiniteSet(M)
    <2> DEFINE g == [n \in 1..Len(doc) |-> [id |-> doc[n].id, text |-> new[doc[n].id]]]
    <2>1. Len(doc) \in Nat /\ DOMAIN doc = 1..Len(doc)
      OBVIOUS
    <2>2. g \in Surjection(1..Len(doc), M)
      <3>1. g \in [1..Len(doc) -> M]
        BY <1>2, <2>1
      <3>2. \A a \in M : \E n \in 1..Len(doc) : g[n] = a
        BY <1>2, <2>1
      <3> QED BY <3>1, <3>2 DEF Surjection
    <2>3. IsFiniteSet(1..Len(doc))
      BY <2>1, FS_Interval
    <2> HIDE DEF g, M
    <2> QED BY <2>2, <2>3, FS_Surjection
  <1>5. Xml!ById(Xml!SetToSeq(M)) = new
    BY <1>2, <1>4, AnyOrderReads
  <1> HIDE DEF M, merged
  <1>6. Xml!ById(Xml!SetToSeq(merged)) = new
    BY <1>3, <1>5
  <1> QED BY <1>6 DEF merged, d, new, was, Merged

Walks == [pc : {"ask", "read"}, size : PageSizes, page : Nat \cup {none}, got : Seq(Articles), pages : Nat, at : Nat]

\* A walk the cache was not made to forget has read the pages before the one it
\* asks for, and there is more.
OnItsWay(w) ==
    w.pc = "ask" =>
        /\ w.pages = w.page
        /\ w.got = IF w.page = 0 THEN <<>> ELSE SubSeq(held, 1, w.page * Size(w))
        /\ w.page = 0 \/ (held # none /\ w.page * Size(w) < Len(held))

AtItsEnd(w) ==
    w.pc = "read" => held # none /\ w.got = held /\ (w.pages <= Len(held) \/ (held = <<>> /\ w.pages = 1))

CopyReads == copy # none /\ copy.current => held # none /\ Xml!ById(copy.doc) = Xml!ById(held)

WalkInv ==
    /\ held \in Seq(Articles) \cup {none}
    /\ removed \in Nat /\ parse_count \in Nat
    /\ parse_count + (IF held = none THEN 1 ELSE 0) <= removed + 1
    /\ walk = Xml!Idle \/ walk \in Walks
    /\ walk \in Walks =>
           /\ walk.at <= removed
           /\ walk.pc = "ask" => walk.page \in Nat
           /\ walk.at = removed => OnItsWay(walk) /\ AtItsEnd(walk)
    /\ copy # none => DOMAIN copy = {"doc", "current"}
    /\ CopyReads

LEMMA WalkInit == Xml!Init => WalkInv
  BY DEF Xml!Init, WalkInv, Xml!Idle, Walks, CopyReads

Moved(v, w, g, n, next, pc) ==
    /\ v \in Walks /\ v.pc = pc /\ v.size = w.size /\ v.at = w.at
    /\ v.page = next /\ v.got = g /\ v.pages = n

LEMMA WalkMoves ==
    ASSUME NEW w \in Walks, NEW g \in Seq(Articles), NEW n \in Nat, NEW next \in Nat \cup {none},
           NEW pc \in {"ask", "read"}
    PROVE  Moved([w EXCEPT !.got = g, !.pages = n, !.page = next, !.pc = pc], w, g, n, next, pc)
  BY DEF Walks, Moved

LEMMA CopyStays ==
    ASSUME CopyReads, copy' = copy, held # none => held' = held
    PROVE  CopyReads'
  <1>1. (Xml!ById(copy.doc))' = Xml!ById(copy'.doc) /\ (Xml!ById(held))' = Xml!ById(held')
    BY DEF Xml!ById
  <1>2. copy # none /\ copy.current => Xml!ById(copy'.doc) = Xml!ById(held') /\ held # none /\ held' = held
    BY DEF CopyReads
  <1> QED BY <1>1, <1>2 DEF CopyReads

\* What a page is cut from, whether it was held or has to be parsed.
LEMMA PageIsHeld ==
    ASSUME WalkInv, NEW raw \in Raws, Xml!GetOrParse(raw), removed' = removed
    PROVE  /\ held' \in Seq(Articles) /\ held' # none
           /\ held # none => held' = held
           /\ parse_count' \in Nat /\ parse_count' <= removed' + 1
  <1>1. none \notin Seq(Articles)
    BY NoneAssumption DEF Articles
  <1>2. Xml!Parse(raw) \in Seq(Articles)
    BY ParsedIsDocument
  <1>3. CASE held # none
    BY <1>1, <1>3 DEF WalkInv, Xml!GetOrParse
  <1>4. CASE held = none
    BY <1>1, <1>2, <1>4 DEF WalkInv, Xml!GetOrParse
  <1> QED BY <1>3, <1>4

LEMMA WalkAsks ==
    ASSUME WalkInv, NEW raw \in Raws, Xml!Ask(raw)
    PROVE  WalkInv'
  <1>1. /\ walk.pc = "ask" /\ Xml!GetOrParse(raw) /\ removed' = removed /\ copy' = copy
    BY DEF Xml!Ask
  <1>2. walk \in Walks /\ walk.page \in Nat /\ removed \in Nat /\ none \notin Nat
    BY <1>1, NoneAssumption DEF WalkInv, Xml!Idle
  <1>3. /\ held' \in Seq(Articles) /\ held' # none
        /\ held # none => held' = held
        /\ parse_count' \in Nat /\ parse_count' <= removed' + 1
    BY <1>1, PageIsHeld
  <1> DEFINE doc == held'
             size == Size(walk)
             page == walk.page
             got == walk.got
             p == Xml!Paginate(doc, page, walk.size)
             pc == IF p.next = none THEN "read" ELSE "ask"
  <1>4. walk.size \in Nat /\ got \in Seq(Articles) /\ walk.pages \in Nat /\ walk.at \in Nat
    BY <1>2, ActsAssumption DEF Walks
  <1>5. walk' = [walk EXCEPT !.got = got \o p.items, !.pages = walk.pages + 1, !.page = p.next, !.pc = pc]
    BY DEF Xml!Ask
  <1>6. Continues(held', page, size, got, p)
    <2>1. doc \in Seq(Articles) /\ page \in Nat
      BY <1>2, <1>3
    <2> HIDE DEF doc, page, got
    <2>2. Continues(doc, page, size, got, p)
      BY <1>2, <1>4, <2>1, OnePage DEF Size
    <2> QED BY <2>2 DEF doc
  <1>0. size = IF walk.size < 1 THEN 1 ELSE walk.size
    BY DEF Size
  <1>17. page = walk.page /\ page \in Nat
    BY <1>2
  <1> HIDE DEF p, size, page
  <1>7. /\ walk'.pc = pc
        /\ walk'.size = walk.size /\ walk'.at = walk.at /\ walk'.page = p.next
        /\ walk'.got = got \o p.items /\ walk'.pages = walk.pages + 1
        /\ walk' \in Walks
    <2> DEFINE g == got \o p.items
               n == walk.pages + 1
               next == p.next
    <2>1. g \in Seq(Articles)
      BY <1>4, <1>6, ConcatProperties DEF Continues
    <2>2. next \in Nat \cup {none}
      BY <1>6, <1>17 DEF Continues
    <2>3. pc \in {"ask", "read"}
      OBVIOUS
    <2>4. n \in Nat
      BY <1>4
    <2>5. walk' = [walk EXCEPT !.got = g, !.pages = n, !.page = next, !.pc = pc]
      BY <1>5
    <2> HIDE DEF g, n, next, pc
    <2>6. walk \in Walks
      BY <1>2
    <2>7. Moved([walk EXCEPT !.got = g, !.pages = n, !.page = next, !.pc = pc], walk, g, n, next, pc)
      BY <2>1, <2>2, <2>3, <2>4, <2>6, WalkMoves, Zenon
    <2>8. Moved(walk', walk, g, n, next, pc)
      BY <2>5, <2>7
    <2> QED BY <2>8 DEF Moved, g, n, next
  <1>8. ASSUME walk'.at = removed'
        PROVE  /\ walk'.pc = "ask" =>
                      /\ walk'.pages = walk'.page
                      /\ walk'.got = IF walk'.page = 0 THEN <<>> ELSE SubSeq(held', 1, walk'.page * size)
                      /\ walk'.page = 0 \/ (held' # none /\ walk'.page * size < Len(held'))
               /\ walk'.pc = "read" => held' # none /\ walk'.got = held'
                      /\ (walk'.pages <= Len(held') \/ (held' = <<>> /\ walk'.pages = 1))
    <2>1. OnItsWay(walk)
      BY <1>1, <1>2, <1>7, <1>8 DEF WalkInv
    <2>2. walk.pages = page
      BY <1>1, <1>17, <2>1 DEF OnItsWay
    <2>3. got = SubSeq(held', 1, page * size) /\ (page = 0 \/ page * size < Len(held'))
      <3>1. CASE page = 0
        <4>1. got = <<>> /\ page * size = 0
          BY <1>0, <1>1, <1>4, <1>17, <2>1, <3>1 DEF OnItsWay
        <4> QED BY <3>1, <4>1, SubSeqEmpty
      <3>2. CASE page # 0
        BY <1>1, <1>3, <1>17, <2>1, <3>2 DEF OnItsWay, size
      <3> QED BY <3>1, <3>2
    <2> HIDE DEF size, got
    <2>4. CASE p.next = none
      <3>1. walk'.pc = "read" /\ walk'.pc # "ask"
        BY <1>7, <2>4
      <3>2. walk'.got = held' /\ (page + 1 <= Len(held') \/ (held' = <<>> /\ page = 0))
        BY <1>6, <1>7, <2>3, <2>4 DEF Continues
      <3>3. walk'.pages = page + 1
        BY <1>7, <2>2
      <3>4. walk'.pages <= Len(held') \/ (held' = <<>> /\ walk'.pages = 1)
        BY <3>2, <3>3
      <3> QED BY <1>3, <3>1, <3>2, <3>4
    <2>5. CASE p.next # none
      <3>1. p.next = page + 1 /\ page + 1 # 0
        BY <1>6, <1>17, <2>5 DEF Continues
      <3>2. (page + 1) * size < Len(held') /\ got \o p.items = SubSeq(held', 1, (page + 1) * size)
        BY <1>6, <2>3, <2>5 DEF Continues
      <3>3. walk'.pc = "ask" /\ walk'.pc # "read"
        BY <1>7, <2>5
      <3> QED BY <1>3, <1>7, <2>2, <3>1, <3>2, <3>3
    <2> QED BY <2>4, <2>5
  <1>9. Size(walk') = size
    BY <1>7 DEF Size, size
  <1>10. CopyReads'
    BY <1>1, <1>3, CopyStays DEF WalkInv
  <1>11. walk'.pc = "ask" => walk'.page \in Nat
    BY <1>6, <1>7, <1>17 DEF Continues
  <1>12. (OnItsWay(walk) /\ AtItsEnd(walk))' <=>
             /\ walk'.pc = "ask" =>
                      /\ walk'.pages = walk'.page
                      /\ walk'.got = IF walk'.page = 0 THEN <<>> ELSE SubSeq(held', 1, walk'.page * size)
                      /\ walk'.page = 0 \/ (held' # none /\ walk'.page * size < Len(held'))
             /\ walk'.pc = "read" => held' # none /\ walk'.got = held'
                      /\ (walk'.pages <= Len(held') \/ (held' = <<>> /\ walk'.pages = 1))
    BY <1>9 DEF OnItsWay, AtItsEnd
  <1>13. walk.at <= removed
    BY <1>2 DEF WalkInv
  <1>14. copy # none => DOMAIN copy = {"doc", "current"}
    BY DEF WalkInv
  <1> HIDE DEF size
  <1>15. parse_count' + (IF held' = none THEN 1 ELSE 0) <= removed' + 1
    BY <1>3
  <1> QED BY <1>1, <1>2, <1>3, <1>7, <1>8, <1>10, <1>11, <1>12, <1>13, <1>14, <1>15 DEF WalkInv

LEMMA WalkStep == WalkInv /\ [Next]_vars => WalkInv'
  <1> SUFFICES ASSUME WalkInv, [Next]_vars PROVE WalkInv'
    OBVIOUS
  <1>1. ASSUME NEW size \in PageSizes, Xml!Begin(size) PROVE WalkInv'
    <2>1. /\ walk' = [pc |-> "ask", size |-> size, page |-> 0, got |-> <<>>, pages |-> 0, at |-> removed]
          /\ UNCHANGED <<held, parse_count, removed, copy>>
      BY <1>1 DEF Xml!Begin
    <2>2. walk' \in Walks
      <3>1. <<>> \in Seq(Articles)
        OBVIOUS
      <3> QED BY <2>1, <3>1 DEF Walks, WalkInv
    <2>3. (OnItsWay(walk) /\ AtItsEnd(walk))'
      BY <2>1 DEF OnItsWay, AtItsEnd
    <2>4. CopyReads'
      BY <2>1, CopyStays DEF WalkInv
    <2> QED BY <2>1, <2>2, <2>3, <2>4 DEF WalkInv
  <1>2. ASSUME NEW raw \in Raws, Xml!Ask(raw) PROVE WalkInv'
    BY <1>2, WalkAsks
  <1>3. CASE Xml!Keep
    <2>1. /\ copy' = [doc |-> walk.got, current |-> FALSE] /\ walk' = Xml!Idle
          /\ UNCHANGED <<held, parse_count, removed>>
      BY <1>3 DEF Xml!Keep
    <2>2. Xml!Idle \notin Walks
      BY DEF Xml!Idle, Walks
    <2>3. DOMAIN copy' = {"doc", "current"} /\ copy'.current = FALSE
      BY <2>1
    <2>4. CopyReads'
      BY <2>3 DEF CopyReads
    <2> QED BY <2>1, <2>2, <2>3, <2>4 DEF WalkInv
  <1>4. ASSUME NEW raw \in Raws, Xml!Update(raw) PROVE WalkInv'
    <2> DEFINE doc == Xml!SetToSeq(Merged(copy.doc, held'))
    <2>1. /\ walk = Xml!Idle /\ walk' = walk /\ removed' = removed /\ Xml!GetOrParse(raw)
          /\ copy' = [current |-> TRUE, doc |-> doc]
      BY <1>4 DEF Xml!Update, Merged
    <2>2. /\ held' \in Seq(Articles) /\ held' # none
          /\ parse_count' \in Nat /\ parse_count' <= removed' + 1
      BY <2>1, PageIsHeld
    <2>3. Xml!ById(doc) = Xml!ById(held')
      <3> DEFINE now == held'
      <3>1. now \in Seq(Articles)
        BY <2>2
      <3> HIDE DEF now
      <3>2. Xml!ById(Xml!SetToSeq(Merged(copy.doc, now))) = Xml!ById(now)
        BY <3>1, UpdatedReads
      <3> QED BY <3>2 DEF now
    <2> HIDE DEF doc
    <2>4. DOMAIN copy' = {"doc", "current"} /\ copy'.doc = doc
      BY <2>1
    <2>5. walk' \notin Walks
      BY <2>1 DEF Xml!Idle, Walks
    <2>6. CopyReads'
      <3>1. (Xml!ById(copy.doc))' = Xml!ById(copy'.doc) /\ (Xml!ById(held))' = Xml!ById(held')
        BY DEF Xml!ById
      <3> QED BY <2>2, <2>3, <2>4, <3>1 DEF CopyReads
    <2>7. removed' \in Nat
      BY <2>1 DEF WalkInv
    <2>8. parse_count' + (IF held' = none THEN 1 ELSE 0) <= removed' + 1
      BY <2>2
    <2> QED BY <2>1, <2>2, <2>4, <2>5, <2>6, <2>7, <2>8 DEF WalkInv
  <1>5. CASE Xml!Invalidate
    <2>1. /\ held' = none /\ removed' = removed + 1 /\ walk' = walk /\ parse_count' = parse_count
          /\ copy' = IF copy = none THEN none ELSE [copy EXCEPT !.current = FALSE]
      BY <1>5 DEF Xml!Invalidate
    <2>2. copy' # none => DOMAIN copy' = {"doc", "current"} /\ copy'.current = FALSE
      BY <2>1 DEF WalkInv
    <2>3. removed \in Nat /\ parse_count \in Nat /\ parse_count <= removed + 1
      BY DEF WalkInv
    <2>4. walk \in Walks => walk.at <= removed /\ walk.at \in Nat
      BY DEF WalkInv, Walks
    <2>5. CopyReads'
      BY <2>2 DEF CopyReads
    <2> QED BY <2>1, <2>2, <2>3, <2>4, <2>5 DEF WalkInv
  <1>6. CASE UNCHANGED xmlVars
    <2>1. CopyReads'
      BY <1>6, CopyStays DEF xmlVars, WalkInv
    <2> QED BY <1>6, <2>1 DEF xmlVars, WalkInv, OnItsWay, AtItsEnd
  <1> QED BY <1>1, <1>2, <1>3, <1>4, <1>5, <1>6 DEF Next, vars, Xml!Next

(* paginate, L1Cache and diff_to_markdown: who follows next_page to its end   *)
(* has each article once and in order, with pages of any size and for acts of *)
(* any length, unless the cache forgot the act on the way; and a copy brought *)
(* up to date by what differs reads as the act does.                          *)
THEOREM WalkIsWholeAlways == Spec => []WalkIsWhole
  <1>1. WalkInv => WalkIsWhole
    <2> SUFFICES ASSUME WalkInv PROVE Xml!WalkIsWhole
      BY DEF WalkIsWhole
    <2>1. walk.pc = "read" => walk \in Walks
      BY DEF WalkInv, Xml!Idle
    <2>2. parse_count <= removed + 1
      BY DEF WalkInv
    <2> QED BY <2>1, <2>2 DEF WalkInv, AtItsEnd, CopyReads, Xml!WalkIsWhole
  <1>2. Init => WalkInv
    BY WalkInit DEF Init
  <1> QED BY <1>1, <1>2, WalkStep, PTL DEF Spec

=============================================================================
