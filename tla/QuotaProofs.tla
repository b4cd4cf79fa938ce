---------------------------- MODULE QuotaProofs ----------------------------
(* The types, the global limit and the fallback limit of Quota, what a call   *)
(* takes at most, the honest retry hint and the closed fallback, for any      *)
(* number of pods, sessions, calls in flight, roles, costs and clocks.        *)
EXTENDS Quota, FiniteSetTheorems, TLAPS

-----------------------------------------------------------------------------
(* TokenBucket: what one attempt does to a bucket and its ledger, for all     *)
(* parameters.                                                                *)
LEMMA MultMonotone ==
    ASSUME NEW a \in Nat, NEW b \in Nat, NEW c \in Nat, a <= b
    PROVE  a * c <= b * c
  <1>1. b * c = a * c + (b - a) * c
    BY Z3
  <1>2. (b - a) \in Nat /\ (b - a) * c >= 0
    BY Z3
  <1> QED BY <1>1, <1>2, Z3

LEMMA MultSum ==
    ASSUME NEW a \in Int, NEW x \in Int, NEW y \in Int
    PROVE  a * (x + y) = a * x + a * y
  BY Z3

LEMMA ProductType ==
    ASSUME NEW a \in Nat, NEW c \in Nat
    PROVE  a * c \in Nat
  BY Z3

(* Elapsed is the forward part of a difference of stamps.                    *)
LEMMA ElapsedSplit ==
    ASSUME NEW from, NEW to,
           from \in Nat, to \in Nat
    PROVE  /\ Elapsed(from, to) \in Nat
           /\ (to - from) + Elapsed(to, from) = Elapsed(from, to)
  BY DEF Elapsed

(* The refilled level is a natural number, never above the capacity and      *)
(* never above the old level plus the refill.                                *)
LEMMA AvailableBounds ==
    ASSUME NEW tokens, NEW ts, NEW cap, NEW rate, NEW s,
           tokens \in Nat, ts \in Nat, cap \in Nat, rate \in Nat, s \in Nat
    PROVE  /\ Available(tokens, ts, cap, rate, s) \in Nat
           /\ Available(tokens, ts, cap, rate, s) <= cap
           /\ Available(tokens, ts, cap, rate, s) <= tokens + rate * Elapsed(ts, s)
  <1>1. rate * Elapsed(ts, s) \in Nat
    BY ElapsedSplit, ProductType
  <1> QED BY <1>1 DEF Available, Lesser

(* An attempt moves tokens from the bucket to the grant, and loses none.     *)
LEMMA RemainingSplit ==
    ASSUME NEW avail, NEW cost,
           avail \in Nat, cost \in Nat
    PROVE  /\ Remaining(avail, cost) \in Nat
           /\ Taken(avail, cost) \in Nat
           /\ Remaining(avail, cost) + Taken(avail, cost) = avail
  BY DEF Remaining, Taken

LEMMA BookedType ==
    ASSUME NEW l, NEW upTo, NEW s, NEW taken,
           l \in Ledger, upTo \in Nat, s \in Nat, taken \in Nat
    PROVE  /\ Booked(l, upTo, s, taken) \in Ledger
           /\ Booked(l, upTo, s, taken).first # Never
           /\ Booked(l, upTo, s, taken).clock = s
           /\ Booked(l, upTo, s, taken).granted = l.granted + taken
           /\ Booked(l, upTo, s, taken).losses = l.losses
  <1>1. Elapsed(s, upTo) \in Nat
    BY ElapsedSplit
  <1> QED BY <1>1 DEF Booked, Ledger, Never

(* How far an attempt moves the budget: by the time it credits.              *)
LEMMA BudgetMoves ==
    ASSUME NEW l, NEW upTo, NEW s, NEW taken, NEW burst, NEW rate,
           l \in Ledger, upTo \in Nat, s \in Nat, taken \in Nat, burst \in Nat,
           rate \in Nat, l.first # Never
    PROVE  /\ Budget(l, burst, rate, upTo) \in Int
           /\ Budget(Booked(l, upTo, s, taken), burst, rate, s)
                = Budget(l, burst, rate, upTo) + rate * Elapsed(upTo, s)
  <1> DEFINE m == Booked(l, upTo, s, taken)
             x == upTo - l.first + l.rewound
  <1>1. l.first \in Nat /\ l.rewound \in Nat /\ l.losses \in Nat
    BY DEF Ledger
  <1>2. m.first = l.first /\ m.rewound = l.rewound + Elapsed(s, upTo) /\ m.losses = l.losses
    BY DEF Booked, Ledger
  <1>3. Elapsed(upTo, s) \in Nat /\ Elapsed(s, upTo) \in Nat
        /\ (s - upTo) + Elapsed(s, upTo) = Elapsed(upTo, s)
    BY ElapsedSplit
  <1>4. x \in Int /\ s - m.first + m.rewound = x + Elapsed(upTo, s)
    BY <1>1, <1>2, <1>3
  <1>5. rate * (s - m.first + m.rewound) = rate * x + rate * Elapsed(upTo, s)
    BY <1>3, <1>4, MultSum
  <1>6. /\ burst * (1 + l.losses) \in Nat /\ rate * x \in Int /\ rate * Elapsed(upTo, s) \in Nat
    BY <1>1, <1>3, <1>4, Z3
  <1> HIDE DEF x
  <1>7. /\ Budget(l, burst, rate, upTo) = burst * (1 + l.losses) + rate * x
        /\ Budget(m, burst, rate, s) = burst * (1 + l.losses) + rate * (s - m.first + m.rewound)
    BY <1>2 DEF Budget, x
  <1> QED BY <1>5, <1>6, <1>7

(* An attempt on a bucket that is there keeps it accounted for.              *)
LEMMA AttemptAccounted ==
    ASSUME NEW b, NEW l, NEW burst, NEW top, NEW cap, NEW rate, NEW cost, NEW s, NEW b2, NEW avail,
           l \in Ledger, burst \in Nat, top \in Nat, cap \in Nat, rate \in Nat,
           cost \in Nat, s \in Nat, cap <= burst, rate <= top, b.live = TRUE,
           b.tokens \in Nat, b.ts \in Nat, Accounted(b, l, burst, top),
           avail = Available(b.tokens, b.ts, cap, rate, s), b2.live = TRUE, b2.ts = s,
           b2.tokens = Remaining(avail, cost)
    PROVE  Accounted(b2, Booked(l, l.clock, s, Taken(avail, cost)), burst, top)
  <1> DEFINE e == Elapsed(b.ts, s)
  <1>1. l.first # Never /\ b.ts = l.clock /\ l.clock \in Nat /\ l.granted \in Nat
        /\ l.granted + b.tokens <= Budget(l, burst, top, l.clock)
    BY DEF Accounted, Ledger
  <1>2. avail \in Nat /\ avail <= b.tokens + rate * e
    BY AvailableBounds
  <1>3. e \in Nat /\ rate * e \in Nat /\ top * e \in Nat /\ rate * e <= top * e
    BY ElapsedSplit, ProductType, MultMonotone
  <1> DEFINE taken == Taken(avail, cost)
             upTo == l.clock
             m == Booked(l, upTo, s, taken)
  <1>4. taken \in Nat /\ b2.tokens \in Nat /\ b2.tokens + taken = avail
    BY <1>2, RemainingSplit
  <1>41. upTo \in Nat
    BY <1>1
  <1> HIDE DEF taken, upTo
  <1>5. Budget(m, burst, top, s) = Budget(l, burst, top, upTo) + top * Elapsed(upTo, s)
    BY <1>1, <1>4, <1>41, BudgetMoves
  <1>51. Budget(l, burst, top, upTo) \in Int
    BY <1>1, <1>4, <1>41, BudgetMoves
  <1>6. m.first # Never /\ m.clock = s /\ m.granted = l.granted + taken
    BY <1>4, <1>41, BookedType
  <1> HIDE DEF m, e
  <1>7. m.granted + b2.tokens <= Budget(m, burst, top, s)
    BY <1>1, <1>2, <1>3, <1>4, <1>5, <1>6, <1>51 DEF e, upTo
  <1>8. Accounted(b2, m, burst, top)
    BY <1>6, <1>7 DEF Accounted
  <1> QED BY <1>8 DEF m, taken, upTo

(* An attempt that finds no bucket starts from a full one; it stays          *)
(* accounted for if a full burst fits the budget up to upTo.                 *)
LEMMA FreshAccounted ==
    ASSUME NEW l, NEW burst, NEW top, NEW cap, NEW cost, NEW s, NEW upTo, NEW b2,
           l \in Ledger, burst \in Nat, top \in Nat, cap \in Nat, cost \in Nat,
           s \in Nat, upTo \in Nat, cap <= burst, l.first = Never => l.granted = 0,
           l.first # Never => l.granted + burst <= Budget(l, burst, top, upTo),
           b2.live = TRUE, b2.ts = s, b2.tokens = Remaining(cap, cost)
    PROVE  Accounted(b2, Booked(l, upTo, s, Taken(cap, cost)), burst, top)
  <1>1. PICK taken \in Nat :
          taken = Taken(cap, cost) /\ b2.tokens \in Nat /\ b2.tokens + taken = cap
    BY RemainingSplit
  <1> DEFINE m == Booked(l, upTo, s, taken)
  <1>2. m.first # Never /\ m.clock = s /\ m.granted = l.granted + taken
    BY BookedType
  <1>3. l.granted \in Nat /\ l.losses \in Nat
    BY DEF Ledger
  <1>4. m.granted + b2.tokens <= Budget(m, burst, top, s)
    <2>1. CASE l.first = Never
      <3>1. m.first = s /\ m.rewound = 0 /\ m.losses = l.losses
        BY <2>1 DEF Booked
      <3> HIDE DEF m
      <3>2. s - m.first + m.rewound = 0
        BY <3>1
      <3>3. Budget(m, burst, top, s) = burst * (1 + l.losses)
        <4>1. top * 0 = 0 /\ burst * (1 + l.losses) \in Int
          BY <1>3, Z3
        <4>2. Budget(m, burst, top, s) = burst * (1 + l.losses) + top * (s - m.first + m.rewound)
          BY <3>1 DEF Budget
        <4> QED BY <3>2, <4>1, <4>2
      <3>4. burst * (1 + l.losses) >= burst
        <4>1. burst * (1 + l.losses) = burst + burst * l.losses
          BY <1>3, MultSum
        <4>2. burst * l.losses \in Nat
          BY <1>3, ProductType
        <4> QED BY <4>1, <4>2
      <3>5. burst * (1 + l.losses) \in Int
        BY <1>3, Z3
      <3> QED BY <1>1, <1>2, <2>1, <3>3, <3>4, <3>5
    <2>2. CASE l.first # Never
      <3>1. Budget(m, burst, top, s) = Budget(l, burst, top, upTo) + top * Elapsed(upTo, s)
        BY <2>2, BudgetMoves
      <3>3. Budget(l, burst, top, upTo) \in Int
        BY <2>2, BudgetMoves
      <3>2. top * Elapsed(upTo, s) \in Nat
        BY ElapsedSplit, ProductType
      <3> HIDE DEF m
      <3> QED BY <1>1, <1>2, <1>3, <2>2, <3>1, <3>2, <3>3
    <2> QED BY <2>1, <2>2
  <1> HIDE DEF m
  <1>5. Accounted(b2, m, burst, top)
    BY <1>2, <1>4 DEF Accounted
  <1> QED BY <1>1, <1>5 DEF m

LEMMA LostType ==
    ASSUME NEW l, l \in Ledger
    PROVE  Lost(l) \in Ledger
  BY DEF Lost, Ledger

(* A bucket that is gone, and one that has expired, leave room for a full    *)
(* burst: by the restart itself, or by the refill of its lifetime.           *)
LEMMA LossAccounted ==
    ASSUME NEW l, NEW b, NEW burst, NEW top, NEW gone,
           l \in Ledger, burst \in Nat, top \in Nat, b.live \in BOOLEAN,
           b.tokens \in Nat, Accounted(b, l, burst, top), gone.live = FALSE
    PROVE  Lost(l) \in Ledger /\ Accounted(gone, Lost(l), burst, top)
  <1> DEFINE m == Lost(l)
             y == top * (l.clock - l.first + l.rewound)
  <1>1. m \in Ledger /\ m.first = l.first /\ m.granted = l.granted /\ m.clock = l.clock
        /\ m.rewound = l.rewound /\ m.losses = l.losses + 1
    BY DEF Lost, Ledger
  <1>2. l.losses \in Nat /\ l.granted \in Nat /\ (l.first = Never => l.granted = 0)
    BY DEF Ledger, Accounted
  <1>3. ASSUME l.first # Never PROVE l.granted + burst <= Budget(m, burst, top, l.clock)
    <2>1. l.clock - l.first + l.rewound \in Int
      BY <1>3 DEF Ledger
    <2>2. y \in Int /\ burst * (1 + l.losses) \in Int
      BY <1>2, <2>1, Z3
    <2>3. Budget(l, burst, top, l.clock) = burst * (1 + l.losses) + y
      BY DEF Budget
    <2>4. Budget(m, burst, top, l.clock) = burst * (1 + (l.losses + 1)) + y
      BY <1>1 DEF Budget
    <2>5. burst * (1 + (l.losses + 1)) = burst * (1 + l.losses) + burst
      BY <1>2, Z3
    <2> HIDE DEF y
    <2>6. l.granted <= Budget(l, burst, top, l.clock)
      BY <1>2, <1>3, <2>2, <2>3 DEF Accounted
    <2> QED BY <1>2, <2>2, <2>3, <2>4, <2>5, <2>6
  <1> HIDE DEF m
  <1>4. Accounted(gone, m, burst, top)
    BY <1>1, <1>2, <1>3 DEF Accounted
  <1> QED BY <1>1, <1>4 DEF m

LEMMA ExpiryLeavesRoom ==
    ASSUME NEW l, NEW b, NEW burst, NEW top, NEW ttl,
           l \in Ledger, burst \in Nat, top \in Nat, ttl \in Nat, l.first # Never,
           b.live = TRUE, b.tokens \in Nat, burst <= top * ttl,
           Accounted(b, l, burst, top)
    PROVE  l.granted + burst <= Budget(l, burst, top, l.clock + ttl)
  <1> DEFINE x == l.clock - l.first + l.rewound
  <1>1. x \in Int /\ l.granted \in Nat /\ l.losses \in Nat /\ l.clock \in Nat
        /\ l.first \in Nat /\ l.rewound \in Nat
    BY DEF Ledger
  <1>2. (l.clock + ttl) - l.first + l.rewound = x + ttl
    BY <1>1
  <1>3. top * (x + ttl) = top * x + top * ttl
    BY <1>1, MultSum
  <1>4. top * x \in Int /\ top * ttl \in Int /\ burst * (1 + l.losses) \in Int
    BY <1>1, Z3
  <1>5. Budget(l, burst, top, l.clock) = burst * (1 + l.losses) + top * x
    BY DEF Budget
  <1>6. Budget(l, burst, top, l.clock + ttl) = burst * (1 + l.losses) + top * (x + ttl)
    BY <1>2 DEF Budget
  <1>7. l.granted + b.tokens <= Budget(l, burst, top, l.clock)
    BY DEF Accounted
  <1> HIDE DEF x
  <1> QED BY <1>1, <1>3, <1>4, <1>5, <1>6, <1>7

(* A later horizon only widens the budget.                                   *)
LEMMA BudgetGrows ==
    ASSUME NEW l, NEW burst, NEW top, NEW u, NEW v,
           l \in Ledger, burst \in Nat, top \in Nat, u \in Nat, v \in Nat,
           l.first # Never, u <= v
    PROVE  /\ Budget(l, burst, top, u) \in Int
           /\ Budget(l, burst, top, v) \in Int
           /\ Budget(l, burst, top, u) <= Budget(l, burst, top, v)
  <1> DEFINE x == u - l.first + l.rewound
  <1>1. x \in Int /\ l.losses \in Nat /\ l.first \in Nat /\ l.rewound \in Nat
    BY DEF Ledger
  <1>2. v - l.first + l.rewound = x + (v - u) /\ v - u \in Nat
    BY <1>1
  <1>3. top * (x + (v - u)) = top * x + top * (v - u)
    BY <1>1, <1>2, MultSum
  <1>4. top * x \in Int /\ top * (v - u) \in Nat /\ burst * (1 + l.losses) \in Int
    BY <1>1, <1>2, ProductType, Z3
  <1>5. Budget(l, burst, top, u) = burst * (1 + l.losses) + top * x
    BY DEF Budget
  <1>6. Budget(l, burst, top, v) = burst * (1 + l.losses) + top * (x + (v - u))
    BY <1>2 DEF Budget
  <1> HIDE DEF x
  <1> QED BY <1>3, <1>4, <1>5, <1>6

-----------------------------------------------------------------------------
(* Quota.                                                                     *)
(* A call that is in flight is a full record.                                 *)
LEMMA InFlight ==
    ASSUME NEW c, c \in Calls, TypeOK, call[c].pc # "idle"
    PROVE  /\ call[c].pc \in {"sent", "orphan", "ran"}
           /\ call[c].pod \in Pods /\ call[c].key \in Keys /\ call[c].role \in Roles
           /\ call[c].cost \in Costs /\ call[c].cost \in Nat /\ call[c].stamp \in Nat
           /\ call[c].pc = "ran" => call[c].ok \in BOOLEAN
  <1>1. call[c] \in CallType
    BY DEF TypeOK
  <1>2. call[c] # Idle
    BY DEF Idle
  <1>3. CASE call[c] \in [pc : {"sent", "orphan"}, pod : Pods, key : Keys, role : Roles,
                          cost : Costs, stamp : Nat]
    BY <1>3, SetsAssumption
  <1>4. CASE call[c] \in [pc : {"ran"}, pod : Pods, key : Keys, role : Roles,
                          cost : Costs, stamp : Nat, ok : BOOLEAN]
    BY <1>4, SetsAssumption
  <1> QED BY <1>1, <1>2, <1>3, <1>4 DEF CallType

(* The levels an attempt finds are natural numbers.                           *)
LEMMA LevelsType ==
    ASSUME TypeOK, NEW k, k \in Keys, NEW s, s \in Nat
    PROVE  /\ \A r \in Roles : ScriptLevel(k, r, s) \in Nat
           /\ \A p \in Pods : LocalLevel(p, k, s) \in Nat
  <1>1. ASSUME NEW r \in Roles PROVE ScriptLevel(k, r, s) \in Nat
    <2>1. bucket[k].tokens \in Nat /\ bucket[k].ts \in Nat
      BY DEF TypeOK
    <2>2. Capacity[r] \in Nat /\ Refill[r] \in Nat
      BY ParamsAssumption
    <2>3. Available(bucket[k].tokens, bucket[k].ts, Capacity[r], Refill[r], s) \in Nat
      BY <2>1, <2>2, AvailableBounds
    <2> QED BY <2>2, <2>3 DEF ScriptLevel
  <1>2. ASSUME NEW p \in Pods PROVE LocalLevel(p, k, s) \in Nat
    <2>1. local[p][k].tokens \in Nat /\ local[p][k].ts \in Nat
      BY DEF TypeOK
    <2>2. FallbackCapacity \in Nat /\ FallbackRefill \in Nat
      BY ParamsAssumption
    <2>3. Available(local[p][k].tokens, local[p][k].ts, FallbackCapacity, FallbackRefill, s) \in Nat
      BY <2>1, <2>2, AvailableBounds
    <2> QED BY <2>2, <2>3 DEF LocalLevel
  <1> QED BY <1>1, <1>2

-----------------------------------------------------------------------------
LEMMA TypeInit == Init => TypeOK
  <1> SUFFICES ASSUME Init PROVE TypeOK
    OBVIOUS
  <1>1. EmptyLedger \in Ledger
    BY DEF EmptyLedger, Ledger
  <1>2. Idle \in CallType
    BY DEF CallType
  <1> QED BY <1>1, <1>2 DEF Init, TypeOK, NoBucket, NoEntry

LEMMA TypeBegin ==
    ASSUME TypeOK, NEW c \in Calls, NEW p \in Pods, NEW k \in Keys, NEW r \in Roles,
           NEW w \in Costs, Begin(c, p, k, r, w)
    PROVE  TypeOK'
  <1> DEFINE new == [pc |-> "sent", pod |-> p, key |-> k, role |-> r,
                     cost |-> w, stamp |-> now + skew[p]]
  <1>1. now + skew[p] \in Nat
    BY BoundsAssumption DEF TypeOK
  <1>2. new \in CallType
    BY <1>1 DEF CallType
  <1>3. call' \in [Calls -> CallType]
    BY <1>2 DEF Begin, TypeOK
  <1> QED BY <1>3 DEF Begin, TypeOK, history

LEMMA TypeRunScript ==
    ASSUME TypeOK, NEW c \in Calls, RunScript(c)
    PROVE  TypeOK'
  <1> DEFINE k == call[c].key
             cost == call[c].cost
             s == call[c].stamp
             avail == ScriptLevel(k, call[c].role, s)
             after == [live |-> TRUE, tokens |-> Remaining(avail, cost), ts |-> s,
                       expires |-> now + Ttl]
             answer == [pc |-> "ran", pod |-> call[c].pod, key |-> k, role |-> call[c].role,
                        cost |-> cost, stamp |-> s, ok |-> avail >= cost]
  <1>1. /\ call[c].pod \in Pods /\ k \in Keys /\ call[c].role \in Roles /\ cost \in Costs
        /\ cost \in Nat /\ s \in Nat
    BY InFlight DEF RunScript
  <1>2. avail \in Nat
    BY <1>1, LevelsType
  <1>3. Remaining(avail, cost) \in Nat /\ Taken(avail, cost) \in Nat
    BY <1>1, <1>2, RemainingSplit
  <1>4. CreditedUpTo(k) \in Nat
    BY <1>1, TtlAssumption DEF CreditedUpTo, TypeOK, Ledger
  <1>5. ledger[k] \in Ledger
    BY <1>1 DEF TypeOK
  <1>6. Booked(ledger[k], CreditedUpTo(k), s, Taken(avail, cost)) \in Ledger
    BY <1>1, <1>3, <1>4, <1>5, BookedType
  <1>7. answer \in CallType
    <2>1. (avail >= cost) \in BOOLEAN
      OBVIOUS
    <2> QED BY <1>1, <2>1 DEF CallType
  <1>8. after \in [live : BOOLEAN, tokens : Nat, ts : Nat, expires : Nat]
    <2>1. now + Ttl \in Nat
      BY TtlAssumption DEF TypeOK
    <2> QED BY <1>1, <1>3, <2>1
  <1>9. bucket' = [bucket EXCEPT ![k] = after]
    BY DEF RunScript
  <1>10. ledger' = [ledger EXCEPT ![k] =
                       Booked(ledger[k], CreditedUpTo(k), s, Taken(avail, cost))]
    BY DEF RunScript
  <1>11. call' = [call EXCEPT ![c] = IF call[c].pc = "orphan" THEN Idle ELSE answer]
    BY DEF RunScript
  <1>12. UNCHANGED <<now, skew, local, issued, podLedger, admitted>>
    BY DEF RunScript
  <1> HIDE DEF after, answer, avail, cost, s, k
  <1>13. bucket' \in [Keys -> [live : BOOLEAN, tokens : Nat, ts : Nat, expires : Nat]]
    BY <1>8, <1>9 DEF TypeOK
  <1>14. ledger' \in [Keys -> Ledger]
    BY <1>6, <1>10 DEF TypeOK
  <1>15. call' \in [Calls -> CallType]
    BY <1>7, <1>11 DEF TypeOK, CallType
  <1> QED BY <1>12, <1>13, <1>14, <1>15 DEF TypeOK

LEMMA TypeReply ==
    ASSUME TypeOK, NEW c \in Calls, Reply(c)
    PROVE  TypeOK'
  <1>1. call[c].key \in Keys /\ call[c].cost \in Nat
    BY InFlight DEF Reply
  <1>2. call' \in [Calls -> CallType]
    BY DEF Reply, TypeOK, CallType
  <1>3. admitted' \in [Keys -> Nat]
    BY <1>1 DEF Reply, TypeOK
  <1> QED BY <1>2, <1>3 DEF Reply, TypeOK

LEMMA TypeFallback ==
    ASSUME TypeOK, NEW c \in Calls, Fallback(c)
    PROVE  TypeOK'
  <1> DEFINE p == call[c].pod
             k == call[c].key
             cost == call[c].cost
             s == call[c].stamp
             avail == LocalLevel(p, k, s)
             after == [live |-> TRUE, tokens |-> Remaining(avail, cost), ts |-> s]
             booked == Booked(podLedger[p][k], podLedger[p][k].clock, s, Taken(avail, cost))
  <1>1. /\ call[c].pc \in {"sent", "ran"} /\ p \in Pods /\ k \in Keys /\ call[c].role \in Roles
        /\ cost \in Costs /\ cost \in Nat /\ s \in Nat
    BY InFlight DEF Fallback
  <1>2. avail \in Nat
    BY <1>1, LevelsType
  <1>3. Remaining(avail, cost) \in Nat /\ Taken(avail, cost) \in Nat
    BY <1>1, <1>2, RemainingSplit
  <1>4. podLedger[p][k] \in Ledger /\ podLedger[p][k].clock \in Nat
    BY <1>1 DEF TypeOK, Ledger
  <1>5. booked \in Ledger
    BY <1>1, <1>3, <1>4, BookedType
  <1>6. after \in [live : BOOLEAN, tokens : Nat, ts : Nat]
    BY <1>1, <1>3
  <1>7. local' = [local EXCEPT ![p][k] = after]
    BY DEF Fallback
  <1>8. podLedger' = [podLedger EXCEPT ![p][k] = booked]
    BY DEF Fallback
  <1>9. admitted' = [admitted EXCEPT ![k] = @ + Taken(avail, cost)]
    BY DEF Fallback
  <1>10. call' \in [Calls -> CallType]
    <2>1. CASE call' = [call EXCEPT ![c] = Idle]
      BY <2>1 DEF TypeOK, CallType
    <2>2. CASE call[c].pc = "sent" /\ call' = [call EXCEPT ![c].pc = "orphan"]
      <3>1. call[c] \in [pc : {"sent", "orphan"}, pod : Pods, key : Keys, role : Roles,
                         cost : Costs, stamp : Nat]
        BY <2>2 DEF TypeOK, CallType, Idle
      <3>2. [call[c] EXCEPT !.pc = "orphan"] \in CallType
        BY <3>1 DEF CallType
      <3> QED BY <2>2, <3>2 DEF TypeOK
    <2> QED BY <2>1, <2>2 DEF Fallback
  <1>11. UNCHANGED <<now, skew, bucket, issued, ledger>>
    BY DEF Fallback
  <1> HIDE DEF after, booked, avail, cost, s, k, p
  <1>12. local' \in [Pods -> [Keys -> [live : BOOLEAN, tokens : Nat, ts : Nat]]]
    BY <1>1, <1>6, <1>7 DEF TypeOK
  <1>13. podLedger' \in [Pods -> [Keys -> Ledger]]
    BY <1>1, <1>5, <1>8 DEF TypeOK
  <1>14. admitted' \in [Keys -> Nat]
    BY <1>1, <1>3, <1>9 DEF TypeOK
  <1> QED BY <1>10, <1>11, <1>12, <1>13, <1>14 DEF TypeOK

LEMMA TypeDropOrphan ==
    ASSUME TypeOK, NEW c \in Calls, DropOrphan(c)
    PROVE  TypeOK'
  BY DEF DropOrphan, TypeOK, CallType, history

LEMMA TypeAdjustClock ==
    ASSUME TypeOK, NEW p \in Pods, AdjustClock(p)
    PROVE  TypeOK'
  BY DEF AdjustClock, TypeOK, history

LEMMA TypePodRestart ==
    ASSUME TypeOK, NEW p \in Pods, PodRestart(p)
    PROVE  TypeOK'
  <1>1. \A k \in Keys : Lost(podLedger[p][k]) \in Ledger
    <2>1. \A k \in Keys : podLedger[p][k] \in Ledger
      BY DEF TypeOK
    <2> QED BY <2>1, LostType
  <1>2. podLedger' \in [Pods -> [Keys -> Ledger]]
    BY <1>1 DEF PodRestart, TypeOK
  <1>3. local' \in [Pods -> [Keys -> [live : BOOLEAN, tokens : Nat, ts : Nat]]]
    BY DEF PodRestart, TypeOK, NoEntry
  <1>4. call' \in [Calls -> CallType]
    <2>1. ASSUME NEW c \in Calls PROVE call'[c] \in CallType
      <3>1. CASE call[c].pc = "sent" /\ call[c].pod = p
        <4>1. call[c] \in [pc : {"sent", "orphan"}, pod : Pods, key : Keys, role : Roles,
                           cost : Costs, stamp : Nat]
          BY <3>1 DEF TypeOK, CallType, Idle
        <4>2. [call[c] EXCEPT !.pc = "orphan"] \in CallType
          BY <4>1 DEF CallType
        <4>3. call'[c] = [call[c] EXCEPT !.pc = "orphan"]
          BY <3>1 DEF PodRestart
        <4> QED BY <4>2, <4>3
      <3>2. CASE call[c].pc = "ran" /\ call[c].pod = p
        <4>1. call'[c] = Idle
          BY <3>2 DEF PodRestart
        <4> QED BY <4>1 DEF CallType
      <3>3. CASE ~(call[c].pc = "sent" /\ call[c].pod = p) /\ ~(call[c].pc = "ran" /\ call[c].pod = p)
        <4>1. call'[c] = call[c]
          BY <3>3 DEF PodRestart
        <4> QED BY <4>1 DEF TypeOK
      <3> QED BY <3>1, <3>2, <3>3
    <2>2. call' = [c \in Calls |-> call'[c]]
      BY DEF PodRestart
    <2> QED BY <2>1, <2>2
  <1> QED BY <1>2, <1>3, <1>4 DEF PodRestart, TypeOK

LEMMA TypeRedisRestart ==
    ASSUME TypeOK, RedisRestart
    PROVE  TypeOK'
  <1>1. \A k \in Keys : Lost(ledger[k]) \in Ledger
    <2>1. \A k \in Keys : ledger[k] \in Ledger
      BY DEF TypeOK
    <2> QED BY <2>1, LostType
  <1> QED BY <1>1 DEF RedisRestart, TypeOK, NoBucket

LEMMA TypeStep == TypeOK /\ [Next]_vars => TypeOK'
  <1> SUFFICES ASSUME TypeOK, [Next]_vars PROVE TypeOK'
    OBVIOUS
  <1>1. ASSUME NEW c \in Calls, CallStep(c) PROVE TypeOK'
    BY <1>1, TypeRunScript, TypeReply, TypeFallback, TypeDropOrphan DEF CallStep
  <1>2. ASSUME NEW c \in Calls, NEW p \in Pods, NEW k \in Keys, NEW r \in Roles, NEW w \in Costs,
               Begin(c, p, k, r, w)
        PROVE  TypeOK'
    BY <1>2, TypeBegin
  <1>3. ASSUME NEW p \in Pods, AdjustClock(p) \/ PodRestart(p) PROVE TypeOK'
    BY <1>3, TypeAdjustClock, TypePodRestart
  <1>4. CASE Tick
    BY <1>4 DEF Tick, TypeOK, history
  <1>5. CASE RedisRestart
    BY <1>5, TypeRedisRestart
  <1>6. CASE UNCHANGED vars
    BY <1>6 DEF vars, TypeOK
  <1> QED BY <1>1, <1>2, <1>3, <1>4, <1>5, <1>6 DEF Next

(* Type correctness of the quota for every instance (quota.rs,               *)
(* token_bucket.rs): levels never fall below zero, in any order of events.   *)
THEOREM TypeCorrect == Spec => []TypeOK
  <1> QED BY TypeInit, TypeStep, PTL DEF Spec

-----------------------------------------------------------------------------
(* BooksBalance is inductive.                                                 *)

RedisBooks ==
    \A k \in Keys : /\ Accounted(bucket[k], ledger[k], BurstLimit, RateLimit)
                    /\ ledger[k].clock <= now + MaxSkew
PodBooks ==
    \A p \in Pods, k \in Keys :
        /\ Accounted(local[p][k], podLedger[p][k], FallbackCapacity, FallbackRefill)
        /\ podLedger[p][k].clock <= now + MaxSkew
StampsInReach ==
    \A c \in Calls : call[c].pc # "idle" => call[c].stamp <= now + MaxSkew

LEMMA BooksParts == BooksBalance <=> RedisBooks /\ PodBooks /\ StampsInReach
  BY DEF BooksBalance, RedisBooks, PodBooks, StampsInReach

LEMMA BooksInit == Init => BooksBalance
  <1> SUFFICES ASSUME Init PROVE RedisBooks /\ PodBooks /\ StampsInReach
    BY BooksParts
  <1>1. StampsInReach
    BY DEF Init, StampsInReach, Idle
  <1>2. RedisBooks
    BY BoundsAssumption DEF Init, RedisBooks, Accounted, NoBucket, EmptyLedger, Never
  <1>3. PodBooks
    BY BoundsAssumption DEF Init, PodBooks, Accounted, NoEntry, EmptyLedger, Never
  <1> QED BY <1>1, <1>2, <1>3

LEMMA BooksBegin ==
    ASSUME TypeOK, BooksBalance, NEW c \in Calls, NEW p \in Pods, NEW k \in Keys,
           NEW r \in Roles, NEW w \in Costs, Begin(c, p, k, r, w)
    PROVE  BooksBalance'
  <1>1. RedisBooks' /\ PodBooks'
    BY BooksParts DEF Begin, RedisBooks, PodBooks, history
  <1>2. now + skew[p] <= now + MaxSkew
    BY BoundsAssumption DEF TypeOK
  <1>3. StampsInReach'
    BY <1>2, BooksParts DEF Begin, StampsInReach, TypeOK
  <1> QED BY <1>1, <1>3, BooksParts, PTL

(* The script keeps the books of its key: either the bucket is there, or it   *)
(* has expired and its lifetime has refilled it, or Redis has lost it.        *)
LEMMA BooksRunScript ==
    ASSUME TypeOK, BooksBalance, NEW c \in Calls, RunScript(c)
    PROVE  BooksBalance'
  <1> DEFINE k == call[c].key
             r == call[c].role
             cost == call[c].cost
             s == call[c].stamp
             avail == ScriptLevel(k, r, s)
             b == bucket[k]
             l == ledger[k]
             after == [live |-> TRUE, tokens |-> Remaining(avail, cost), ts |-> s,
                       expires |-> now + Ttl]
             booked == Booked(l, CreditedUpTo(k), s, Taken(avail, cost))
  <1>1. /\ k \in Keys /\ r \in Roles /\ cost \in Nat /\ s \in Nat /\ s <= now + MaxSkew
    BY InFlight, BooksParts DEF RunScript, StampsInReach
  <1>2. l \in Ledger /\ b.tokens \in Nat /\ b.ts \in Nat /\ b.live \in BOOLEAN
    BY <1>1 DEF TypeOK
  <1>3. Accounted(b, l, BurstLimit, RateLimit)
    BY <1>1, BooksParts DEF RedisBooks
  <1>4. /\ Capacity[r] \in Nat /\ Refill[r] \in Nat /\ BurstLimit \in Nat /\ RateLimit \in Nat
        /\ Capacity[r] <= BurstLimit /\ Refill[r] <= RateLimit
        /\ Ttl \in Nat /\ BurstLimit <= RateLimit * Ttl
    BY <1>1, ParamsAssumption, TtlAssumption
  <1>5. avail \in Nat
    BY <1>1, LevelsType
  <1>6. Taken(avail, cost) \in Nat
    BY <1>1, <1>5, RemainingSplit
  <1>7. after.live = TRUE /\ after.ts = s /\ after.tokens = Remaining(avail, cost)
    OBVIOUS
  <1>8. l.clock \in Nat /\ CreditedUpTo(k) \in Nat
    BY <1>2, <1>4 DEF CreditedUpTo, Ledger
  <1>9. Accounted(after, booked, BurstLimit, RateLimit)
    <2>1. CASE Live(k)
      <3>1. avail = Available(b.tokens, b.ts, Capacity[r], Refill[r], s) /\ b.live = TRUE
        BY <2>1, <1>2 DEF ScriptLevel, Live
      <3>2. CreditedUpTo(k) = l.clock
        BY <2>1 DEF CreditedUpTo
      <3> HIDE DEF after, avail, l, b, k, r, cost, s
      <3>3. Accounted(after, Booked(l, l.clock, s, Taken(avail, cost)), BurstLimit, RateLimit)
        BY <1>1, <1>2, <1>3, <1>4, <1>7, <3>1, AttemptAccounted
      <3> QED BY <3>2, <3>3
    <2>2. CASE ~Live(k)
      <3>1. avail = Capacity[r]
        BY <2>2 DEF ScriptLevel
      <3>2. l.first = Never => l.granted = 0
        BY <1>3 DEF Accounted
      <3>3. ASSUME l.first # Never
            PROVE  l.granted + BurstLimit <= Budget(l, BurstLimit, RateLimit, CreditedUpTo(k))
        <4>1. CASE b.live = TRUE
          <5>1. CreditedUpTo(k) = l.clock + Ttl
            BY <2>2, <4>1 DEF CreditedUpTo
          <5> HIDE DEF l, b, k
          <5>2. l.granted + BurstLimit <= Budget(l, BurstLimit, RateLimit, l.clock + Ttl)
            BY <1>2, <1>3, <1>4, <3>3, <4>1, ExpiryLeavesRoom
          <5> QED BY <5>1, <5>2
        <4>2. CASE b.live = FALSE
          <5>1. CreditedUpTo(k) = l.clock
            BY <4>2 DEF CreditedUpTo
          <5>2. l.granted + BurstLimit <= Budget(l, BurstLimit, RateLimit, l.clock)
            BY <1>3, <3>3, <4>2 DEF Accounted
          <5> QED BY <5>1, <5>2
        <4> QED BY <1>2, <4>1, <4>2
      <3> DEFINE upTo == CreditedUpTo(k)
                 cap == Capacity[r]
      <3>4. after.tokens = Remaining(cap, cost) /\ cap \in Nat /\ cap <= BurstLimit /\ upTo \in Nat
        BY <1>4, <1>7, <1>8, <3>1
      <3> HIDE DEF after, l, b, upTo, cap, cost, s
      <3>5. Accounted(after, Booked(l, upTo, s, Taken(cap, cost)), BurstLimit, RateLimit)
        BY <1>1, <1>2, <1>4, <1>7, <3>2, <3>3, <3>4, FreshAccounted DEF upTo
      <3> QED BY <3>1, <3>5 DEF upTo, cap
    <2> QED BY <2>1, <2>2
  <1>10. booked.clock = s
    BY <1>1, <1>2, <1>6, <1>8, BookedType
  <1>11. bucket' = [bucket EXCEPT ![k] = after] /\ ledger' = [ledger EXCEPT ![k] = booked]
    BY DEF RunScript
  <1>12. UNCHANGED <<now, local, podLedger>>
    BY DEF RunScript
  <1>13. StampsInReach'
    <2>1. ASSUME NEW d \in Calls, call'[d].pc # "idle"
          PROVE  call'[d].stamp = call[d].stamp /\ call[d].pc # "idle"
      BY <2>1 DEF RunScript, TypeOK, Idle
    <2> QED BY <1>12, <2>1, BooksParts DEF StampsInReach
  <1> HIDE DEF after, booked, k, s
  <1>14. RedisBooks'
    <2>1. ASSUME NEW j \in Keys
          PROVE  /\ Accounted(bucket'[j], ledger'[j], BurstLimit, RateLimit)
                 /\ ledger'[j].clock <= now + MaxSkew
      <3>1. CASE j = k
        <4>1. bucket'[j] = after /\ ledger'[j] = booked
          BY <1>11, <3>1 DEF TypeOK
        <4> QED BY <1>1, <1>9, <1>10, <4>1
      <3>2. CASE j # k
        <4>1. bucket'[j] = bucket[j] /\ ledger'[j] = ledger[j]
          BY <1>11, <3>2 DEF TypeOK
        <4> QED BY <4>1, BooksParts DEF RedisBooks
      <3> QED BY <3>1, <3>2
    <2> QED BY <1>12, <2>1 DEF RedisBooks
  <1>15. PodBooks'
    BY <1>12, BooksParts DEF PodBooks
  <1> QED BY <1>13, <1>14, <1>15, BooksParts, PTL

LEMMA BooksFallback ==
    ASSUME TypeOK, BooksBalance, NEW c \in Calls, Fallback(c)
    PROVE  BooksBalance'
  <1> DEFINE p == call[c].pod
             k == call[c].key
             cost == call[c].cost
             s == call[c].stamp
             avail == LocalLevel(p, k, s)
             b == local[p][k]
             l == podLedger[p][k]
             after == [live |-> TRUE, tokens |-> Remaining(avail, cost), ts |-> s]
             booked == Booked(l, l.clock, s, Taken(avail, cost))
  <1>1. p \in Pods /\ k \in Keys /\ cost \in Nat /\ s \in Nat /\ s <= now + MaxSkew
    BY InFlight, BooksParts DEF Fallback, StampsInReach
  <1>2. l \in Ledger /\ l.clock \in Nat /\ b.tokens \in Nat /\ b.ts \in Nat /\ b.live \in BOOLEAN
    BY <1>1 DEF TypeOK, Ledger
  <1>3. Accounted(b, l, FallbackCapacity, FallbackRefill)
    BY <1>1, BooksParts DEF PodBooks
  <1>4. FallbackCapacity \in Nat /\ FallbackRefill \in Nat
        /\ FallbackCapacity <= FallbackCapacity /\ FallbackRefill <= FallbackRefill
    BY ParamsAssumption
  <1>5. avail \in Nat
    BY <1>1, LevelsType
  <1>6. Taken(avail, cost) \in Nat
    BY <1>1, <1>5, RemainingSplit
  <1>7. after.live = TRUE /\ after.ts = s /\ after.tokens = Remaining(avail, cost)
    OBVIOUS
  <1>8. Accounted(after, booked, FallbackCapacity, FallbackRefill)
    <2>1. CASE b.live = TRUE
      <3>1. avail = Available(b.tokens, b.ts, FallbackCapacity, FallbackRefill, s)
        BY <2>1 DEF LocalLevel
      <3> HIDE DEF after, avail, l, b, k, p, cost, s
      <3> QED BY <1>1, <1>2, <1>3, <1>4, <1>7, <2>1, <3>1, AttemptAccounted
    <2>2. CASE b.live = FALSE
      <3>1. avail = FallbackCapacity
        BY <2>2 DEF LocalLevel
      <3>2. l.first = Never => l.granted = 0
        BY <1>3 DEF Accounted
      <3>3. l.first # Never =>
              l.granted + FallbackCapacity <= Budget(l, FallbackCapacity, FallbackRefill, l.clock)
        BY <1>3, <2>2 DEF Accounted
      <3>4. after.tokens = Remaining(FallbackCapacity, cost)
        BY <1>7, <3>1
      <3> DEFINE upTo == l.clock
      <3>5. upTo \in Nat
        BY <1>2
      <3> HIDE DEF after, l, b, k, p, cost, s, avail, upTo
      <3>6. Accounted(after, Booked(l, upTo, s, Taken(FallbackCapacity, cost)),
                      FallbackCapacity, FallbackRefill)
        BY <1>1, <1>2, <1>4, <1>7, <3>2, <3>3, <3>4, <3>5, FreshAccounted DEF upTo
      <3> QED BY <3>1, <3>6 DEF upTo
    <2> QED BY <1>2, <2>1, <2>2
  <1>9. booked.clock = s
    BY <1>1, <1>2, <1>6, BookedType
  <1>10. local' = [local EXCEPT ![p][k] = after] /\ podLedger' = [podLedger EXCEPT ![p][k] = booked]
    BY DEF Fallback
  <1>11. UNCHANGED <<now, bucket, ledger>>
    BY DEF Fallback
  <1>12. StampsInReach'
    <2>1. ASSUME NEW d \in Calls, call'[d].pc # "idle"
          PROVE  call'[d].stamp = call[d].stamp /\ call[d].pc # "idle"
      <3>1. CASE call' = [call EXCEPT ![c] = Idle]
        BY <2>1, <3>1 DEF TypeOK, Idle
      <3>2. CASE call[c].pc = "sent" /\ call' = [call EXCEPT ![c].pc = "orphan"]
        <4>1. call[c] \in [pc : {"sent", "orphan"}, pod : Pods, key : Keys, role : Roles,
                           cost : Costs, stamp : Nat]
          BY <3>2 DEF TypeOK, CallType, Idle
        <4>2. [call[c] EXCEPT !.pc = "orphan"].stamp = call[c].stamp
          BY <4>1
        <4>3. call'[d] = IF d = c THEN [call[c] EXCEPT !.pc = "orphan"] ELSE call[d]
          BY <3>2 DEF TypeOK
        <4> QED BY <2>1, <3>2, <4>2, <4>3
      <3> QED BY <3>1, <3>2 DEF Fallback
    <2> QED BY <1>11, <2>1, BooksParts DEF StampsInReach
  <1> HIDE DEF after, booked, p, k, s
  <1>13. PodBooks'
    <2>1. ASSUME NEW q \in Pods, NEW j \in Keys
          PROVE  /\ Accounted(local'[q][j], podLedger'[q][j], FallbackCapacity, FallbackRefill)
                 /\ podLedger'[q][j].clock <= now + MaxSkew
      <3>1. CASE q = p /\ j = k
        <4>1. local'[q][j] = after /\ podLedger'[q][j] = booked
          BY <1>10, <3>1 DEF TypeOK
        <4> QED BY <1>1, <1>8, <1>9, <4>1
      <3>2. CASE ~(q = p /\ j = k)
        <4>1. local'[q][j] = local[q][j] /\ podLedger'[q][j] = podLedger[q][j]
          BY <1>10, <3>2 DEF TypeOK
        <4> QED BY <4>1, BooksParts DEF PodBooks
      <3> QED BY <3>1, <3>2
    <2> QED BY <1>11, <2>1 DEF PodBooks
  <1>14. RedisBooks'
    BY <1>11, BooksParts DEF RedisBooks
  <1> QED BY <1>12, <1>13, <1>14, BooksParts, PTL

LEMMA BooksRedisRestart ==
    ASSUME TypeOK, BooksBalance, RedisRestart
    PROVE  BooksBalance'
  <1>1. ASSUME NEW k \in Keys
        PROVE  /\ Accounted(NoBucket, Lost(ledger[k]), BurstLimit, RateLimit)
               /\ Lost(ledger[k]).clock <= now + MaxSkew
    <2>1. /\ ledger[k] \in Ledger /\ bucket[k].live \in BOOLEAN /\ bucket[k].tokens \in Nat
          /\ NoBucket.live = FALSE /\ BurstLimit \in Nat /\ RateLimit \in Nat
      BY ParamsAssumption DEF TypeOK, NoBucket
    <2>2. Accounted(bucket[k], ledger[k], BurstLimit, RateLimit)
      BY BooksParts DEF RedisBooks
    <2>3. Accounted(NoBucket, Lost(ledger[k]), BurstLimit, RateLimit)
      BY <2>1, <2>2, LossAccounted
    <2>4. Lost(ledger[k]).clock = ledger[k].clock
      BY <2>1 DEF Lost, Ledger
    <2> QED BY <2>3, <2>4, BooksParts DEF RedisBooks
  <1>2. RedisBooks'
    BY <1>1 DEF RedisRestart, RedisBooks
  <1>3. PodBooks' /\ StampsInReach'
    BY BooksParts DEF RedisRestart, PodBooks, StampsInReach
  <1> QED BY <1>2, <1>3, BooksParts, PTL

LEMMA BooksPodRestart ==
    ASSUME TypeOK, BooksBalance, NEW p \in Pods, PodRestart(p)
    PROVE  BooksBalance'
  <1>1. ASSUME NEW k \in Keys
        PROVE  /\ Accounted(NoEntry, Lost(podLedger[p][k]), FallbackCapacity, FallbackRefill)
               /\ Lost(podLedger[p][k]).clock <= now + MaxSkew
    <2>1. /\ podLedger[p][k] \in Ledger /\ local[p][k].live \in BOOLEAN
          /\ local[p][k].tokens \in Nat
          /\ NoEntry.live = FALSE /\ FallbackCapacity \in Nat /\ FallbackRefill \in Nat
      BY ParamsAssumption DEF TypeOK, NoEntry
    <2>2. Accounted(local[p][k], podLedger[p][k], FallbackCapacity, FallbackRefill)
      BY BooksParts DEF PodBooks
    <2>3. Accounted(NoEntry, Lost(podLedger[p][k]), FallbackCapacity, FallbackRefill)
      BY <2>1, <2>2, LossAccounted
    <2>4. Lost(podLedger[p][k]).clock = podLedger[p][k].clock
      BY <2>1 DEF Lost, Ledger
    <2> QED BY <2>3, <2>4, BooksParts DEF PodBooks
  <1>2. PodBooks'
    <2>1. ASSUME NEW q \in Pods, NEW j \in Keys
          PROVE  /\ Accounted(local'[q][j], podLedger'[q][j], FallbackCapacity, FallbackRefill)
                 /\ podLedger'[q][j].clock <= now + MaxSkew
      <3>1. CASE q = p
        <4>1. local'[q][j] = NoEntry /\ podLedger'[q][j] = Lost(podLedger[p][j])
          BY <3>1 DEF PodRestart, TypeOK
        <4> QED BY <1>1, <4>1
      <3>2. CASE q # p
        <4>1. local'[q][j] = local[q][j] /\ podLedger'[q][j] = podLedger[q][j]
          BY <3>2 DEF PodRestart, TypeOK
        <4> QED BY <4>1, BooksParts DEF PodBooks
      <3> QED BY <3>1, <3>2
    <2> QED BY <2>1 DEF PodBooks, PodRestart
  <1>3. RedisBooks'
    BY BooksParts DEF PodRestart, RedisBooks
  <1>4. StampsInReach'
    <2>1. ASSUME NEW d \in Calls, call'[d].pc # "idle"
          PROVE  call'[d].stamp = call[d].stamp /\ call[d].pc # "idle"
      <3>1. CASE call[d].pc = "sent" /\ call[d].pod = p
        <4>1. call'[d] = [call[d] EXCEPT !.pc = "orphan"]
          BY <3>1 DEF PodRestart
        <4> QED BY <3>1, <4>1 DEF TypeOK, CallType, Idle
      <3>2. CASE call[d].pc = "ran" /\ call[d].pod = p
        <4>1. call'[d] = Idle
          BY <3>2 DEF PodRestart
        <4> QED BY <2>1, <4>1 DEF Idle
      <3>3. CASE ~(call[d].pc = "sent" /\ call[d].pod = p) /\ ~(call[d].pc = "ran" /\ call[d].pod = p)
        <4>1. call'[d] = call[d]
          BY <3>3 DEF PodRestart
        <4> QED BY <2>1, <4>1
      <3> QED BY <3>1, <3>2, <3>3
    <2> QED BY <2>1, BooksParts DEF StampsInReach, PodRestart
  <1> QED BY <1>2, <1>3, <1>4, BooksParts, PTL

LEMMA BooksStep == TypeOK /\ BooksBalance /\ [Next]_vars => BooksBalance'
  <1> SUFFICES ASSUME TypeOK, BooksBalance, [Next]_vars PROVE BooksBalance'
    OBVIOUS
  <1>1. ASSUME NEW c \in Calls, CallStep(c) PROVE BooksBalance'
    <2>1. CASE RunScript(c)
      BY <2>1, BooksRunScript
    <2>2. CASE Fallback(c)
      BY <2>2, BooksFallback
    <2>3. CASE Reply(c)
      BY <2>3 DEF Reply, BooksBalance, TypeOK, Idle
    <2>4. CASE DropOrphan(c)
      BY <2>4 DEF DropOrphan, BooksBalance, TypeOK, Idle, history
    <2> QED BY <1>1, <2>1, <2>2, <2>3, <2>4 DEF CallStep
  <1>2. ASSUME NEW c \in Calls, NEW p \in Pods, NEW k \in Keys, NEW r \in Roles, NEW w \in Costs,
               Begin(c, p, k, r, w)
        PROVE  BooksBalance'
    BY <1>2, BooksBegin
  <1>3. ASSUME NEW p \in Pods, AdjustClock(p) PROVE BooksBalance'
    BY <1>3 DEF AdjustClock, BooksBalance, history
  <1>4. ASSUME NEW p \in Pods, PodRestart(p) PROVE BooksBalance'
    BY <1>4, BooksPodRestart
  <1>5. CASE Tick
    <2>1. \A x \in Nat : x <= now + MaxSkew => x <= now' + MaxSkew
      BY <1>5, BoundsAssumption DEF Tick, TypeOK
    <2>2. RedisBooks'
      <3>1. \A k \in Keys : ledger[k].clock \in Nat
        BY DEF TypeOK, Ledger
      <3> QED BY <1>5, <2>1, <3>1, BooksParts DEF Tick, RedisBooks, history
    <2>3. PodBooks'
      <3>1. \A p \in Pods, k \in Keys : podLedger[p][k].clock \in Nat
        BY DEF TypeOK, Ledger
      <3> QED BY <1>5, <2>1, <3>1, BooksParts DEF Tick, PodBooks, history
    <2>4. StampsInReach'
      <3>1. \A c \in Calls : call[c].pc # "idle" => call[c].stamp \in Nat
        BY InFlight
      <3> QED BY <1>5, <2>1, <3>1, BooksParts DEF Tick, StampsInReach
    <2> QED BY <2>2, <2>3, <2>4, BooksParts, PTL
  <1>6. CASE RedisRestart
    BY <1>6, BooksRedisRestart
  <1>7. CASE UNCHANGED vars
    BY <1>7 DEF vars, BooksBalance
  <1> QED BY <1>1, <1>2, <1>3, <1>4, <1>5, <1>6, <1>7 DEF Next

(* Redis and pod books balance in every reachable state.                      *)
THEOREM BooksBalanceAlways == Spec => []BooksBalance
  <1> QED BY TypeInit, TypeStep, BooksInit, BooksStep, PTL DEF Spec
-----------------------------------------------------------------------------
LEMMA LimitFromBooks == TypeOK /\ BooksBalance => GlobalLimit /\ FallbackLimit
  <1> SUFFICES ASSUME TypeOK, BooksBalance PROVE GlobalLimit /\ FallbackLimit
    OBVIOUS
  <1>1. now + MaxSkew \in Nat
    BY BoundsAssumption DEF TypeOK
  <1>2. ASSUME NEW b, NEW l, b.live \in BOOLEAN, b.tokens \in Nat, l \in Ledger,
               NEW burst, NEW rate, burst \in Nat, rate \in Nat,
               Accounted(b, l, burst, rate), l.clock <= now + MaxSkew, l.first # Never
        PROVE  l.granted <= Budget(l, burst, rate, now + MaxSkew)
    <2> DEFINE u == l.clock
               v == now + MaxSkew
    <2>1. u \in Nat /\ v \in Nat /\ u <= v /\ l.granted \in Nat
      BY <1>1, <1>2 DEF Ledger
    <2>2. l.granted <= l.granted + (IF b.live THEN b.tokens ELSE burst)
      BY <1>2, <2>1
    <2>3. l.granted + (IF b.live THEN b.tokens ELSE burst) <= Budget(l, burst, rate, u)
      BY <1>2 DEF Accounted
    <2>4. (IF b.live THEN b.tokens ELSE burst) \in Nat
      BY <1>2
    <2> HIDE DEF u, v
    <2>5. Budget(l, burst, rate, u) <= Budget(l, burst, rate, v)
      BY <1>2, <2>1, BudgetGrows
    <2>6. Budget(l, burst, rate, u) \in Int
      BY <1>2, <2>1, BudgetGrows
    <2>7. Budget(l, burst, rate, v) \in Int
      BY <1>2, <2>1, BudgetGrows
    <2>8. l.granted <= Budget(l, burst, rate, v)
      BY <2>1, <2>2, <2>3, <2>4, <2>5, <2>6, <2>7
    <2> QED BY <2>8 DEF v
  <1>3. GlobalLimit
    <2>1. ASSUME NEW k \in Keys, ledger[k].first # Never
          PROVE  ledger[k].granted <= Budget(ledger[k], BurstLimit, RateLimit, now + MaxSkew)
      <3>1. bucket[k].live \in BOOLEAN /\ bucket[k].tokens \in Nat /\ ledger[k] \in Ledger
            /\ BurstLimit \in Nat /\ RateLimit \in Nat
        BY ParamsAssumption DEF TypeOK
      <3>2. Accounted(bucket[k], ledger[k], BurstLimit, RateLimit)
            /\ ledger[k].clock <= now + MaxSkew
        BY DEF BooksBalance
      <3> QED BY <1>2, <2>1, <3>1, <3>2
    <2> QED BY <2>1 DEF GlobalLimit
  <1>4. FallbackLimit
    <2>1. ASSUME NEW p \in Pods, NEW k \in Keys, podLedger[p][k].first # Never
          PROVE  podLedger[p][k].granted
                   <= Budget(podLedger[p][k], FallbackCapacity, FallbackRefill, now + MaxSkew)
      <3>1. local[p][k].live \in BOOLEAN /\ local[p][k].tokens \in Nat
            /\ podLedger[p][k] \in Ledger /\ FallbackCapacity \in Nat /\ FallbackRefill \in Nat
        BY ParamsAssumption DEF TypeOK
      <3>2. Accounted(local[p][k], podLedger[p][k], FallbackCapacity, FallbackRefill)
            /\ podLedger[p][k].clock <= now + MaxSkew
        BY DEF BooksBalance
      <3> QED BY <1>2, <2>1, <3>1, <3>2
    <2> QED BY <2>1 DEF FallbackLimit
  <1> QED BY <1>3, <1>4

(* However many pods, sessions and calls there are, whatever is lost,        *)
(* delayed, reordered or restarted: the Redis bucket of a session grants one *)
(* burst per life of Redis plus the refill of the time that passed, where    *)
(* time an attempt turned back counts again (TOKEN_BUCKET_LUA).              *)
THEOREM GlobalLimitHolds == Spec => []GlobalLimit
  <1> QED BY TypeCorrect, BooksBalanceAlways, LimitFromBooks, PTL

(* In degraded operation the same holds of every pod with the conservative   *)
(* parameters (PodLocalBucket, fallback_params).                             *)
THEOREM FallbackLimitHolds == Spec => []FallbackLimit
  <1> QED BY TypeCorrect, BooksBalanceAlways, LimitFromBooks, PTL
-----------------------------------------------------------------------------
(* With one clock and commands that run in the tick they are stamped in.     *)
(* Nothing turns a bucket back then: a command on its way is stamped with    *)
(* the present, and a key that expired had its whole lifetime.               *)
OnTime ==
    /\ \A c \in Calls : call[c].pc \in {"sent", "orphan"} => call[c].stamp = now
    /\ \A k \in Keys :
          /\ ledger[k].rewound = 0 /\ ledger[k].clock <= now
          /\ bucket[k].live => bucket[k].expires = ledger[k].clock + Ttl

LEMMA OnTimeInit == Init => OnTime
  BY DEF Init, OnTime, Idle, NoBucket, EmptyLedger

LEMMA OnTimeRunScript ==
    ASSUME TypeOK, OnTime, NEW c \in Calls, RunScript(c)
    PROVE  OnTime'
  <1> DEFINE k == call[c].key
             s == call[c].stamp
  <1>1. call[c].pc \in {"sent", "orphan"} /\ s = now /\ k \in Keys /\ now \in Nat
    <2>1. call[c].pc \in {"sent", "orphan"} /\ call[c].pc # "idle"
      BY DEF RunScript
    <2> QED BY <2>1, InFlight DEF OnTime, TypeOK
  <1>2. CreditedUpTo(k) \in Nat /\ CreditedUpTo(k) <= now
    <2>1. ledger[k].clock \in Nat /\ ledger[k].clock <= now /\ Ttl \in Nat
      BY <1>1, TtlAssumption DEF OnTime, TypeOK, Ledger
    <2>2. CASE bucket[k].live /\ ~Live(k)
      <3>1. bucket[k].expires = ledger[k].clock + Ttl /\ ~(now < bucket[k].expires)
        BY <1>1, <2>2 DEF OnTime, Live
      <3> QED BY <1>1, <2>1, <2>2, <3>1 DEF CreditedUpTo
    <2>3. CASE ~(bucket[k].live /\ ~Live(k))
      BY <2>1, <2>3 DEF CreditedUpTo
    <2> QED BY <2>2, <2>3
  <1>3. ledger[k].rewound = 0
    BY <1>1 DEF OnTime
  <1>4. ASSUME NEW taken PROVE /\ Booked(ledger[k], CreditedUpTo(k), s, taken).rewound = 0
                               /\ Booked(ledger[k], CreditedUpTo(k), s, taken).clock = now
    BY <1>1, <1>2, <1>3 DEF Booked, Elapsed
  <1>5. /\ ledger'[k].rewound = 0 /\ ledger'[k].clock = now
        /\ bucket'[k].expires = now + Ttl
    BY <1>1, <1>4 DEF RunScript, TypeOK
  <1>6. \A j \in Keys : j # k => ledger'[j] = ledger[j] /\ bucket'[j] = bucket[j]
    BY DEF RunScript, TypeOK
  <1>7. now' = now /\ \A d \in Calls : call'[d].pc \in {"sent", "orphan"} => call'[d] = call[d]
    <2>1. call'[c].pc \in {"idle", "ran"}
      BY DEF RunScript, TypeOK, Idle
    <2>2. \A d \in Calls : d # c => call'[d] = call[d]
      BY DEF RunScript, TypeOK
    <2> QED BY <2>1, <2>2 DEF RunScript
  <1> HIDE DEF k, s
  <1> QED BY <1>1, <1>5, <1>6, <1>7 DEF OnTime

LEMMA OnTimeStep ==
    ASSUME MaxSkew = 0, MaxDelay = 0
    PROVE  TypeOK /\ OnTime /\ [Next]_vars => OnTime'
  <1> SUFFICES ASSUME TypeOK, OnTime, [Next]_vars PROVE OnTime'
    OBVIOUS
  <1>1. ASSUME NEW c \in Calls, CallStep(c) PROVE OnTime'
    <2>1. CASE RunScript(c)
      BY <2>1, OnTimeRunScript
    <2>2. CASE Reply(c)
      BY <2>2 DEF Reply, OnTime, TypeOK, Idle
    <2>3. CASE Fallback(c)
      <3>1. \A d \in Calls : call'[d].pc \in {"sent", "orphan"} =>
               call[d].pc \in {"sent", "orphan"} /\ call'[d].stamp = call[d].stamp
        <4>1. \A d \in Calls : d # c => call'[d] = call[d]
          BY <2>3 DEF Fallback, TypeOK
        <4>2. call'[c].pc \in {"sent", "orphan"} =>
                 call[c].pc \in {"sent", "orphan"} /\ call'[c].stamp = call[c].stamp
          <5>1. CASE call' = [call EXCEPT ![c] = Idle]
            BY <5>1 DEF TypeOK, Idle
          <5>2. CASE call[c].pc = "sent" /\ call' = [call EXCEPT ![c].pc = "orphan"]
            <6>1. call'[c] = [call[c] EXCEPT !.pc = "orphan"]
              BY <5>2 DEF TypeOK
            <6> QED BY <5>2, <6>1, InFlight
          <5> QED BY <2>3, <5>1, <5>2 DEF Fallback
        <4> QED BY <4>1, <4>2
      <3> QED BY <2>3, <3>1 DEF Fallback, OnTime
    <2>4. CASE DropOrphan(c)
      BY <2>4 DEF DropOrphan, OnTime, TypeOK, Idle, history
    <2> QED BY <1>1, <2>1, <2>2, <2>3, <2>4 DEF CallStep
  <1>2. ASSUME NEW c \in Calls, NEW p \in Pods, NEW k \in Keys, NEW r \in Roles, NEW w \in Costs,
               Begin(c, p, k, r, w)
        PROVE  OnTime'
    <2>1. skew[p] = 0 /\ now \in Nat
      BY DEF TypeOK
    <2>2. call'[c].stamp = now /\ \A d \in Calls : d # c => call'[d] = call[d]
      BY <1>2, <2>1 DEF Begin, TypeOK
    <2> QED BY <1>2, <2>2 DEF Begin, OnTime, history
  <1>3. ASSUME NEW p \in Pods, AdjustClock(p) PROVE OnTime'
    BY <1>3 DEF AdjustClock, OnTime, history
  <1>4. ASSUME NEW p \in Pods, PodRestart(p) PROVE OnTime'
    <2>1. \A d \in Calls : call'[d].pc \in {"sent", "orphan"} =>
             call[d].pc \in {"sent", "orphan"} /\ call'[d].stamp = call[d].stamp
      <3> SUFFICES ASSUME NEW d \in Calls, call'[d].pc \in {"sent", "orphan"}
                   PROVE  call[d].pc \in {"sent", "orphan"} /\ call'[d].stamp = call[d].stamp
        OBVIOUS
      <3>1. CASE call[d].pc = "sent" /\ call[d].pod = p
        <4>1. call'[d] = [call[d] EXCEPT !.pc = "orphan"]
          BY <1>4, <3>1 DEF PodRestart
        <4>2. call'[d].stamp = call[d].stamp
          BY <3>1, <4>1, InFlight
        <4> QED BY <3>1, <4>2
      <3>2. CASE call[d].pc = "ran" /\ call[d].pod = p
        <4>1. call'[d] = Idle
          BY <1>4, <3>2 DEF PodRestart
        <4> QED BY <4>1 DEF Idle
      <3>3. CASE ~(call[d].pc = "sent" /\ call[d].pod = p) /\ ~(call[d].pc = "ran" /\ call[d].pod = p)
        <4>1. call'[d] = call[d]
          BY <1>4, <3>3 DEF PodRestart
        <4> QED BY <4>1
      <3> QED BY <3>1, <3>2, <3>3
    <2> QED BY <1>4, <2>1 DEF PodRestart, OnTime
  <1>5. CASE Tick
    <2>1. \A c \in Calls : call[c].pc \notin {"sent", "orphan"}
      <3> SUFFICES ASSUME NEW c \in Calls, call[c].pc \in {"sent", "orphan"} PROVE FALSE
        OBVIOUS
      <3>1. call[c].stamp = now /\ now < call[c].stamp + MaxDelay /\ now \in Nat
        BY <1>5 DEF Tick, OnTime, TypeOK
      <3> QED BY <3>1
    <2>2. \A k \in Keys : ledger[k].clock \in Nat
      BY DEF TypeOK, Ledger
    <2>3. now \in Nat /\ now' = now + 1
      BY <1>5 DEF Tick, TypeOK
    <2> QED BY <1>5, <2>1, <2>2, <2>3 DEF Tick, OnTime, history
  <1>6. CASE RedisRestart
    BY <1>6 DEF RedisRestart, OnTime, NoBucket, Lost, TypeOK, Ledger
  <1>7. CASE UNCHANGED vars
    BY <1>7 DEF vars, OnTime
  <1> QED BY <1>1, <1>2, <1>3, <1>4, <1>5, <1>6, <1>7 DEF Next

LEMMA BudgetAt ==
    ASSUME NEW l, NEW burst, NEW rate, NEW upTo, NEW x,
           upTo - l.first + l.rewound = x
    PROVE  Budget(l, burst, rate, upTo) = burst * (1 + l.losses) + rate * x
  BY DEF Budget

LEMMA LimitOnTime ==
    ASSUME MaxSkew = 0, TypeOK, GlobalLimit, OnTime
    PROVE  LimitAcrossPods
  <1> SUFFICES ASSUME NEW k \in Keys, ledger[k].first # Never
               PROVE  ledger[k].granted <= BurstLimit * (1 + ledger[k].losses)
                                           + RateLimit * (now - ledger[k].first)
    BY DEF LimitAcrossPods
  <1> DEFINE x == now - ledger[k].first
             upTo == now + MaxSkew
             l == ledger[k]
  <1>1. l.rewound = 0 /\ l.first \in Int /\ now \in Int
    BY DEF OnTime, TypeOK, Ledger
  <1>2. upTo - l.first + l.rewound = x
    BY <1>1
  <1>3. l.granted <= Budget(l, BurstLimit, RateLimit, upTo)
    BY DEF GlobalLimit
  <1> SUFFICES l.granted <= BurstLimit * (1 + l.losses) + RateLimit * x
    OBVIOUS
  <1> HIDE DEF x, upTo, l
  <1>4. Budget(l, BurstLimit, RateLimit, upTo) = BurstLimit * (1 + l.losses) + RateLimit * x
    BY <1>2, BudgetAt
  <1> QED BY <1>3, <1>4

(* One bucket for all pods (the comment of token_bucket.rs): if the clocks   *)
(* agree and no command is late, a session gets its burst, one more per life *)
(* of Redis, and the refill of the time that passed, through however many    *)
(* pods, and whatever fails, is lost, expires or restarts.                   *)
THEOREM OneLimitForAllPods ==
    ASSUME MaxSkew = 0, MaxDelay = 0
    PROVE  Spec => []LimitAcrossPods
  <1>1. Init => OnTime
    BY OnTimeInit
  <1>2. TypeOK /\ OnTime /\ [Next]_vars => OnTime'
    BY OnTimeStep
  <1>3. TypeOK /\ GlobalLimit /\ OnTime => LimitAcrossPods
    BY LimitOnTime
  <1> QED BY <1>1, <1>2, <1>3, TypeCorrect, GlobalLimitHolds, PTL DEF Spec

-----------------------------------------------------------------------------
(* Rounding up covers what was asked for: CeilDiv ticks at this rate bring at *)
(* least a units.                                                             *)
LEMMA CeilDivCovers ==
    ASSUME NEW a, NEW b, a \in Nat, b \in Nat, b > 0
    PROVE  CeilDiv(a, b) \in Nat /\ b * CeilDiv(a, b) >= a
  <1> DEFINE n == a + b - 1
             q == n \div b
  <1>1. n \in Nat
    OBVIOUS
  <1>2. q \in Nat /\ b * q + (n % b) = n /\ (n % b) \in 0..(b - 1)
    BY <1>1, SMTT(30)
  <1> HIDE DEF q
  <1>3. b * q \in Int /\ (n % b) \in Int
    BY <1>2, Z3
  <1>4. b * q >= a
    BY <1>2, <1>3
  <1> QED BY <1>2, <1>4 DEF CeilDiv, q

(* Whoever waits for the hint finds what was refused, at any level and rate.  *)
LEMMA HintLongEnough ==
    ASSUME NEW level, NEW rate, NEW cap, NEW s,
           level \in Nat, rate \in Nat, cap \in Nat, s \in Nat
    PROVE  HintsSuffice(level, rate, cap, s)
  <1> SUFFICES ASSUME rate > 0, NEW w \in Costs, level < w, w <= cap
               PROVE  Available(level, s, cap, rate, s + RetryAfter(level, w, rate)) >= w
    BY DEF HintsSuffice
  <1> DEFINE wait == CeilDiv(w - level, rate)
             gain == rate * wait
  <1>1. w \in Nat /\ w - level \in Nat
    BY SetsAssumption
  <1>2. wait \in Nat /\ gain >= w - level
    BY <1>1, CeilDivCovers
  <1>3. RetryAfter(level, w, rate) = wait
    BY <1>1 DEF RetryAfter
  <1>4. gain \in Nat
    BY <1>2, ProductType
  <1> HIDE DEF wait
  <1>5. Elapsed(s, s + wait) = wait
    BY <1>2 DEF Elapsed
  <1>6. Available(level, s, cap, rate, s + wait) = Lesser(cap, level + gain)
    BY <1>5 DEF Available
  <1> HIDE DEF gain
  <1> QED BY <1>1, <1>2, <1>3, <1>4, <1>6 DEF Lesser

(* A refused caller that waits the retry_after of the script, or of the       *)
(* pod-local bucket, and is alone finds the tokens it asked for (the retry    *)
(* computation of TOKEN_BUCKET_LUA and of PodLocalBucket::try_acquire), for   *)
(* every level, capacity, rate and cost.                                      *)
THEOREM RetryHonestAlways == Spec => []RetryHonest
  <1>1. TypeOK => RetryHonest
    <2> SUFFICES ASSUME TypeOK, NEW k \in Keys, NEW s \in 0..(now + MaxSkew)
                 PROVE  /\ \A r \in RolesOf[k] :
                              HintsSuffice(ScriptLevel(k, r, s), Refill[r], Capacity[r], s)
                        /\ \A p \in Pods :
                              HintsSuffice(LocalLevel(p, k, s), FallbackRefill, FallbackCapacity, s)
      BY DEF RetryHonest
    <2>1. s \in Nat
      BY BoundsAssumption DEF TypeOK
    <2>2. ASSUME NEW r \in RolesOf[k]
          PROVE  HintsSuffice(ScriptLevel(k, r, s), Refill[r], Capacity[r], s)
      <3>1. r \in Roles
        BY SetsAssumption
      <3> QED BY <2>1, <3>1, LevelsType, ParamsAssumption, HintLongEnough
    <2>3. ASSUME NEW p \in Pods
          PROVE  HintsSuffice(LocalLevel(p, k, s), FallbackRefill, FallbackCapacity, s)
      BY <2>1, LevelsType, ParamsAssumption, HintLongEnough
    <2> QED BY <2>2, <2>3
  <1> QED BY <1>1, TypeCorrect, PTL

(* No call costs a session more than the weight of its tool: of what the      *)
(* bucket held, as far as the role of the caller may hold it, the script      *)
(* leaves all but the cost, whenever the attempt comes and whatever its stamp.*)
THEOREM CallTakesAtMostItsCostAlways == Spec => CallTakesAtMostItsCost
  <1>1. ASSUME TypeOK, NEW c \in Calls, RunScript(c), Live(call[c].key)
        PROVE  bucket'[call[c].key].tokens
                 >= Lesser(bucket[call[c].key].tokens, Capacity[call[c].role]) - call[c].cost
    <2> DEFINE k == call[c].key
               cost == call[c].cost
               s == call[c].stamp
               cap == Capacity[call[c].role]
               rate == Refill[call[c].role]
               b == bucket[k]
               avail == Available(b.tokens, b.ts, cap, rate, s)
    <2>1. k \in Keys /\ call[c].role \in Roles /\ cost \in Nat /\ s \in Nat
      BY <1>1, InFlight DEF RunScript
    <2>2. b.tokens \in Nat /\ b.ts \in Nat /\ cap \in Nat /\ rate \in Nat
      BY <1>1, <2>1, ParamsAssumption DEF TypeOK
    <2>3. bucket'[k].tokens = Remaining(avail, cost)
      BY <1>1, <2>1 DEF RunScript, ScriptLevel, TypeOK
    <2>4. rate * Elapsed(b.ts, s) \in Nat
      BY <2>1, <2>2, ElapsedSplit, ProductType
    <2>5. avail \in Nat /\ avail >= Lesser(b.tokens, cap)
      BY <2>2, <2>4 DEF Available, Lesser
    <2> HIDE DEF avail, cap, rate, b, k, s, cost
    <2>6. Remaining(avail, cost) >= Lesser(b.tokens, cap) - cost
      BY <2>1, <2>2, <2>5 DEF Remaining, Taken, Lesser
    <2> QED BY <2>3, <2>6 DEF cap, b, k, cost
  <1>2. TypeOK => [\A c \in Calls : RunScript(c) =>
                      LET k    == call[c].key
                          kept == Lesser(bucket[k].tokens, Capacity[call[c].role])
                      IN  Live(k) => bucket'[k].tokens >= kept - call[c].cost]_vars
    BY <1>1
  <1> QED BY <1>2, TypeCorrect, PTL DEF CallTakesAtMostItsCost

-----------------------------------------------------------------------------
(* FailClosed.  Sums are numbers of units, so that what one place of a        *)
(* function adds is the cardinality of a set of its own.                      *)
Block(x, n) == {x} \X (1..n)

LEMMA BlockSize ==
    ASSUME NEW x, NEW n \in Nat
    PROVE  IsFiniteSet(Block(x, n)) /\ Cardinality(Block(x, n)) = n
  <1>1. IsFiniteSet({x}) /\ Cardinality({x}) = 1
    BY FS_Singleton
  <1>2. IsFiniteSet(1..n) /\ Cardinality(1..n) = n
    BY FS_Interval
  <1>3. PICK one : one = {x}
    OBVIOUS
  <1>4. PICK range : range = 1..n
    OBVIOUS
  <1>5. IsFiniteSet(one \X range) /\ Cardinality(one \X range) = Cardinality(one) * Cardinality(range)
    <2>1. IsFiniteSet(one) /\ IsFiniteSet(range)
      BY <1>1, <1>2, <1>3, <1>4
    <2> QED BY <2>1, FS_Product, Zenon
  <1>6. Cardinality(one) * Cardinality(range) = n
    BY <1>1, <1>2, <1>3, <1>4
  <1> QED BY <1>3, <1>4, <1>5, <1>6 DEF Block

LEMMA UnitsAre ==
    ASSUME NEW S, NEW f \in [S -> Nat]
    PROVE  \A t : t \in Units(f) <=> \E x \in S, i \in Nat : t = <<x, i>> /\ 1 <= i /\ i <= f[x]
  <1> SUFFICES ASSUME NEW t
               PROVE  t \in Units(f) <=> \E x \in S, i \in Nat : t = <<x, i>> /\ 1 <= i /\ i <= f[x]
    OBVIOUS
  <1>1. t \in Units(f) <=> \E x \in S : t \in {x} \X (1..f[x])
    BY DEF Units
  <1>2. ASSUME NEW x \in S
        PROVE  t \in {x} \X (1..f[x]) <=> \E i \in Nat : t = <<x, i>> /\ 1 <= i /\ i <= f[x]
    OBVIOUS
  <1> QED BY <1>1, <1>2

LEMMA Disjoint ==
    ASSUME NEW S, NEW T, IsFiniteSet(S), IsFiniteSet(T), S \cap T = {}
    PROVE  IsFiniteSet(S \cup T) /\ Cardinality(S \cup T) = Cardinality(S) + Cardinality(T)
  <1>1. Cardinality(S \cap T) = 0
    BY FS_EmptySet
  <1>2. Cardinality(S) \in Nat /\ Cardinality(T) \in Nat
    BY FS_CardinalityType
  <1>3. /\ IsFiniteSet(S \cup T)
        /\ Cardinality(S \cup T) = Cardinality(S) + Cardinality(T) - Cardinality(S \cap T)
    BY FS_Union, Zenon
  <1> QED BY <1>1, <1>2, <1>3

(* A function that changes in one place changes its units by as many.         *)
LEMMA UnitsChange ==
    ASSUME NEW S, NEW f \in [S -> Nat], NEW x \in S, NEW n \in Nat, IsFiniteSet(Units(f))
    PROVE  LET g == [f EXCEPT ![x] = n]
           IN  /\ IsFiniteSet(Units(g))
               /\ Cardinality(Units(g)) = Cardinality(Units(f)) + n - f[x]
               /\ Cardinality(Units(g)) \in Nat /\ Cardinality(Units(f)) \in Nat
  <1> DEFINE g == [f EXCEPT ![x] = n]
             rest == Units(f) \ Block(x, f[x])
  <1>1. g \in [S -> Nat] /\ g[x] = n /\ \A y \in S \ {x} : g[y] = f[y]
    OBVIOUS
  <1> HIDE DEF g
  <1>2. f[x] \in Nat
    OBVIOUS
  <1>3. ASSUME NEW m \in Nat, NEW t
        PROVE  t \in Block(x, m) <=> \E i \in Nat : t = <<x, i>> /\ 1 <= i /\ i <= m
    BY DEF Block
  <1>4. ASSUME NEW t
        PROVE  t \in rest <=> \E y \in S \ {x}, i \in Nat : t = <<y, i>> /\ 1 <= i /\ i <= f[y]
    <2>1. t \in Units(f) <=> \E y \in S, i \in Nat : t = <<y, i>> /\ 1 <= i /\ i <= f[y]
      BY UnitsAre
    <2>2. t \in Block(x, f[x]) <=> \E i \in Nat : t = <<x, i>> /\ 1 <= i /\ i <= f[x]
      BY <1>2, <1>3
    <2> QED BY <2>1, <2>2
  <1>5. Units(f) = rest \cup Block(x, f[x]) /\ rest \cap Block(x, f[x]) = {}
    <2>1. Block(x, f[x]) \subseteq Units(f)
      BY <1>2, <1>3, UnitsAre
    <2> QED BY <2>1
  <1>6. Units(g) = rest \cup Block(x, n) /\ rest \cap Block(x, n) = {}
    <2>1. ASSUME NEW t PROVE t \in Units(g) <=> t \in rest \/ t \in Block(x, n)
      <3>1. t \in Units(g) <=> \E y \in S, i \in Nat : t = <<y, i>> /\ 1 <= i /\ i <= g[y]
        BY <1>1, UnitsAre
      <3>2. t \in Block(x, n) <=> \E i \in Nat : t = <<x, i>> /\ 1 <= i /\ i <= n
        BY <1>3
      <3> QED BY <1>1, <1>4, <3>1, <3>2
    <2>2. ASSUME NEW t \in rest PROVE t \notin Block(x, n)
      BY <1>3, <1>4
    <2> QED BY <2>1, <2>2
  <1>7. IsFiniteSet(rest)
    BY FS_Difference
  <1> HIDE DEF rest
  <1>8. Cardinality(Units(f)) = Cardinality(rest) + f[x]
    BY <1>2, <1>5, <1>7, BlockSize, Disjoint
  <1>9. IsFiniteSet(Units(g)) /\ Cardinality(Units(g)) = Cardinality(rest) + n
    <2>1. IsFiniteSet(Block(x, n)) /\ Cardinality(Block(x, n)) = n
      BY BlockSize
    <2> QED BY <1>6, <1>7, <2>1, Disjoint
  <1>10. Cardinality(rest) \in Nat
    BY <1>7, FS_CardinalityType
  <1> QED BY <1>2, <1>8, <1>9, <1>10 DEF g

LEMMA UnitsFewer ==
    ASSUME NEW S, NEW f \in [S -> Nat], NEW g \in [S -> Nat], IsFiniteSet(Units(f)),
           \A x \in S : g[x] <= f[x]
    PROVE  /\ IsFiniteSet(Units(g)) /\ Cardinality(Units(g)) <= Cardinality(Units(f))
           /\ Cardinality(Units(g)) \in Nat /\ Cardinality(Units(f)) \in Nat
  <1>1. Units(g) \in SUBSET Units(f)
    <2> SUFFICES ASSUME NEW t \in Units(g) PROVE t \in Units(f)
      OBVIOUS
    <2>1. PICK x \in S, i \in Nat : t = <<x, i>> /\ 1 <= i /\ i <= g[x]
      BY UnitsAre
    <2>2. i <= f[x]
      <3>1. g[x] \in Nat /\ f[x] \in Nat
        OBVIOUS
      <3> QED BY <2>1, <3>1
    <2> QED BY <2>1, <2>2, UnitsAre
  <1>2. IsFiniteSet(Units(g)) /\ Cardinality(Units(g)) <= Cardinality(Units(f))
    BY <1>1, FS_Subset
  <1> QED BY <1>2, FS_CardinalityType

\* What a call that was decided in Redis, and not answered yet, is allowed.
Owes(w, k) == IF w.pc = "ran" /\ w.ok /\ w.key = k THEN w.cost ELSE 0
Owing(k) == [c \in Calls |-> Owes(call[c], k)]
Granting(k) == [p \in Pods |-> podLedger[p][k].granted]

\* FailClosed with the answers that are still under way.
PaidFor(k) ==
    /\ IsFiniteSet(Units(Owing(k))) /\ IsFiniteSet(Units(Granting(k)))
    /\ admitted[k] + Cardinality(Units(Owing(k))) <= ledger[k].granted + Cardinality(Units(Granting(k)))
AllPaid == \A k \in Keys : PaidFor(k)

LEMMA OwingType ==
    ASSUME TypeOK, NEW k \in Keys
    PROVE  Owing(k) \in [Calls -> Nat] /\ Granting(k) \in [Pods -> Nat]
  <1>1. \A c \in Calls : Owes(call[c], k) \in Nat
    BY InFlight DEF Owes
  <1>2. \A p \in Pods : podLedger[p][k].granted \in Nat
    BY DEF TypeOK, Ledger
  <1> QED BY <1>1, <1>2 DEF Owing, Granting

LEMMA OwingOne ==
    ASSUME TypeOK, NEW k \in Keys, NEW c \in Calls, NEW w, call' = [call EXCEPT ![c] = w]
    PROVE  Owing(k)' = [Owing(k) EXCEPT ![c] = Owes(w, k)]
  <1>1. call'[c] = w /\ \A d \in Calls \ {c} : call'[d] = call[d]
    BY DEF TypeOK
  <1>2. Owing(k)' = [d \in Calls |-> Owes(call'[d], k)]
    BY DEF Owing, Owes
  <1>3. Owing(k) = [d \in Calls |-> Owes(call[d], k)]
    BY DEF Owing
  <1> QED BY <1>1, <1>2, <1>3

LEMMA OwesIdle == \A k \in Keys : Owes(Idle, k) = 0
  BY DEF Owes, Idle

(* One call and one pod change what they owe and granted; the session is      *)
(* admitted no more than is paid for.                                         *)
LEMMA Balances ==
    ASSUME TypeOK, TypeOK', NEW k \in Keys, PaidFor(k),
           NEW c \in Calls, NEW n \in Nat, Owing(k)' = [Owing(k) EXCEPT ![c] = n],
           NEW p \in Pods, NEW m \in Nat, Granting(k)' = [Granting(k) EXCEPT ![p] = m],
           admitted'[k] + (n - Owing(k)[c])
               <= admitted[k] + (ledger'[k].granted - ledger[k].granted) + (m - Granting(k)[p])
    PROVE  PaidFor(k)'
  <1> DEFINE O  == Units(Owing(k))
             G  == Units(Granting(k))
             O1 == Units([Owing(k) EXCEPT ![c] = n])
             G1 == Units([Granting(k) EXCEPT ![p] = m])
  <1>1. IsFiniteSet(O) /\ IsFiniteSet(G)
        /\ admitted[k] + Cardinality(O) <= ledger[k].granted + Cardinality(G)
    BY DEF PaidFor
  <1>2. /\ admitted[k] \in Nat /\ ledger[k].granted \in Nat
        /\ admitted'[k] \in Nat /\ ledger'[k].granted \in Nat
    BY DEF TypeOK, Ledger
  <1>3. Owing(k)[c] \in Nat /\ Granting(k)[p] \in Nat
    BY OwingType
  <1>4. IsFiniteSet(O1) /\ Cardinality(O1) = Cardinality(O) + n - Owing(k)[c]
        /\ Cardinality(O1) \in Nat /\ Cardinality(O) \in Nat
    <2>1. PICK f : f = Owing(k)
      OBVIOUS
    <2>2. f \in [Calls -> Nat] /\ IsFiniteSet(Units(f))
      BY <1>1, <2>1, OwingType
    <2>3. /\ IsFiniteSet(Units([f EXCEPT ![c] = n]))
          /\ Cardinality(Units([f EXCEPT ![c] = n])) = Cardinality(Units(f)) + n - f[c]
          /\ Cardinality(Units([f EXCEPT ![c] = n])) \in Nat /\ Cardinality(Units(f)) \in Nat
      BY <2>2, UnitsChange
    <2> QED BY <2>1, <2>3
  <1>5. IsFiniteSet(G1) /\ Cardinality(G1) = Cardinality(G) + m - Granting(k)[p]
        /\ Cardinality(G1) \in Nat /\ Cardinality(G) \in Nat
    <2>1. PICK f : f = Granting(k)
      OBVIOUS
    <2>2. f \in [Pods -> Nat] /\ IsFiniteSet(Units(f))
      BY <1>1, <2>1, OwingType
    <2>3. /\ IsFiniteSet(Units([f EXCEPT ![p] = m]))
          /\ Cardinality(Units([f EXCEPT ![p] = m])) = Cardinality(Units(f)) + m - f[p]
          /\ Cardinality(Units([f EXCEPT ![p] = m])) \in Nat /\ Cardinality(Units(f)) \in Nat
      BY <2>2, UnitsChange
    <2> QED BY <2>1, <2>3
  <1>6. Units(Owing(k))' = O1 /\ Units(Granting(k))' = G1
    <2>1. Units(Owing(k))' = Units(Owing(k)') /\ Units(Granting(k))' = Units(Granting(k)')
      BY DEF Units
    <2> QED BY <2>1
  <1> HIDE DEF O, G, O1, G1
  <1>7. admitted'[k] + Cardinality(O1) <= ledger'[k].granted + Cardinality(G1)
    BY <1>1, <1>2, <1>3, <1>4, <1>5
  <1> QED BY <1>4, <1>5, <1>6, <1>7 DEF PaidFor

\* No pod grants anything.
LEMMA BalancesAlone ==
    ASSUME TypeOK, TypeOK', NEW k \in Keys, PaidFor(k), UNCHANGED podLedger,
           NEW c \in Calls, NEW n \in Nat, Owing(k)' = [Owing(k) EXCEPT ![c] = n],
           admitted'[k] + (n - Owing(k)[c])
               <= admitted[k] + (ledger'[k].granted - ledger[k].granted)
    PROVE  PaidFor(k)'
  <1> DEFINE O  == Units(Owing(k))
             G  == Units(Granting(k))
             O1 == Units([Owing(k) EXCEPT ![c] = n])
  <1>1. IsFiniteSet(O) /\ IsFiniteSet(G)
        /\ admitted[k] + Cardinality(O) <= ledger[k].granted + Cardinality(G)
    BY DEF PaidFor
  <1>2. /\ admitted[k] \in Nat /\ ledger[k].granted \in Nat
        /\ admitted'[k] \in Nat /\ ledger'[k].granted \in Nat
    BY DEF TypeOK, Ledger
  <1>3. Owing(k)[c] \in Nat /\ Cardinality(G) \in Nat
    BY <1>1, OwingType, FS_CardinalityType
  <1>4. IsFiniteSet(O1) /\ Cardinality(O1) = Cardinality(O) + n - Owing(k)[c]
        /\ Cardinality(O1) \in Nat /\ Cardinality(O) \in Nat
    <2>1. PICK f : f = Owing(k)
      OBVIOUS
    <2>2. f \in [Calls -> Nat] /\ IsFiniteSet(Units(f))
      BY <1>1, <2>1, OwingType
    <2>3. /\ IsFiniteSet(Units([f EXCEPT ![c] = n]))
          /\ Cardinality(Units([f EXCEPT ![c] = n])) = Cardinality(Units(f)) + n - f[c]
          /\ Cardinality(Units([f EXCEPT ![c] = n])) \in Nat /\ Cardinality(Units(f)) \in Nat
      BY <2>2, UnitsChange
    <2> QED BY <2>1, <2>3
  <1>5. Units(Owing(k))' = O1
    <2>1. Units(Owing(k))' = Units(Owing(k)')
      BY DEF Units
    <2> QED BY <2>1
  <1>6. Units(Granting(k))' = G
    BY DEF Granting, Units
  <1> HIDE DEF O, G, O1
  <1>7. admitted'[k] + Cardinality(O1) <= ledger'[k].granted + Cardinality(G)
    BY <1>1, <1>2, <1>3, <1>4
  <1> QED BY <1>1, <1>4, <1>5, <1>6, <1>7 DEF PaidFor

LEMMA PaidInit == Init => AllPaid
  <1> SUFFICES ASSUME Init, NEW k \in Keys PROVE PaidFor(k)
    BY DEF AllPaid
  <1>1. Owing(k) = [c \in Calls |-> 0]
    BY OwesIdle DEF Init, Owing
  <1>2. Granting(k) = [p \in Pods |-> 0]
    BY DEF Init, Granting, EmptyLedger
  <1>3. Units(Owing(k)) = {} /\ Units(Granting(k)) = {}
    BY <1>1, <1>2 DEF Units
  <1>4. IsFiniteSet({}) /\ Cardinality({}) = 0
    BY FS_EmptySet
  <1>5. admitted[k] = 0 /\ ledger[k].granted = 0
    BY DEF Init, EmptyLedger
  <1> QED BY <1>3, <1>4, <1>5 DEF PaidFor

LEMMA PaidRunScript ==
    ASSUME TypeOK, TypeOK', NEW k \in Keys, PaidFor(k), NEW c \in Calls, RunScript(c)
    PROVE  PaidFor(k)'
  <1> DEFINE key == call[c].key
             cost == call[c].cost
             avail == ScriptLevel(key, call[c].role, call[c].stamp)
             enough == avail >= cost
             answer == [pc |-> "ran", pod |-> call[c].pod, key |-> key, role |-> call[c].role,
                        cost |-> cost, stamp |-> call[c].stamp, ok |-> enough]
             n == Owes(call'[c], k)
  <1>1. key \in Keys /\ cost \in Nat /\ call[c].role \in Roles /\ call[c].stamp \in Nat
    BY InFlight DEF RunScript
  <1>2. avail \in Nat
    BY <1>1, LevelsType
  <1>3. Taken(avail, cost) \in Nat /\ (enough => Taken(avail, cost) = cost)
    BY <1>1, <1>2 DEF Taken
  <1>4. ledger'[k].granted = IF k = key THEN ledger[k].granted + Taken(avail, cost) ELSE ledger[k].granted
    BY <1>1 DEF RunScript, Booked, TypeOK
  <1>5. call' = [call EXCEPT ![c] = IF call[c].pc = "orphan" THEN Idle ELSE answer]
    BY DEF RunScript
  <1>6. n = 0 \/ (n = cost /\ k = key /\ enough)
    <2> HIDE DEF enough
    <2>1. call'[c] = Idle \/ call'[c] = answer
      BY <1>5 DEF TypeOK
    <2>2. CASE call'[c] = Idle
      BY <2>2, OwesIdle
    <2>3. CASE call'[c] = answer
      <3>1. call'[c].cost = cost /\ call'[c].key = key
        BY <2>3
      <3>2. call'[c].ok = enough
        BY <2>3
      <3> QED BY <3>1, <3>2, Zenon DEF Owes
    <2> QED BY <2>1, <2>2, <2>3
  <1>7. Owing(k)' = [Owing(k) EXCEPT ![c] = n]
    <2>1. call' = [call EXCEPT ![c] = call'[c]]
      BY <1>5 DEF TypeOK
    <2> QED BY <2>1, OwingOne
  <1>8. Owing(k)[c] = 0
    BY DEF Owing, Owes, RunScript
  <1>9. admitted'[k] = admitted[k] /\ UNCHANGED podLedger
    BY DEF RunScript
  <1>10. admitted[k] \in Nat /\ ledger[k].granted \in Nat
    BY DEF TypeOK, Ledger
  <1> HIDE DEF avail, cost, key, n, enough
  <1>11. n \in Nat /\ n - 0 <= ledger'[k].granted - ledger[k].granted
    BY <1>1, <1>3, <1>4, <1>6, <1>10
  <1>12. admitted'[k] + (n - Owing(k)[c]) <= admitted[k] + (ledger'[k].granted - ledger[k].granted)
    <2>1. ledger'[k].granted \in Nat
      BY DEF TypeOK, Ledger
    <2> QED BY <1>8, <1>9, <1>10, <1>11, <2>1
  <1> QED BY <1>7, <1>9, <1>11, <1>12, BalancesAlone

LEMMA PaidReply ==
    ASSUME TypeOK, TypeOK', NEW k \in Keys, PaidFor(k), NEW c \in Calls, Reply(c)
    PROVE  PaidFor(k)'
  <1>1. call[c].key \in Keys /\ call[c].cost \in Nat /\ call[c].ok \in BOOLEAN
    BY InFlight DEF Reply
  <1>2. Owing(k)' = [Owing(k) EXCEPT ![c] = 0]
    <2>1. Owing(k)' = [Owing(k) EXCEPT ![c] = Owes(Idle, k)]
      BY OwingOne DEF Reply
    <2> QED BY <2>1, OwesIdle
  <1>3. admitted'[k] = admitted[k] + Owing(k)[c]
    <2>1. Owing(k)[c] = Owes(call[c], k)
      BY DEF Owing
    <2>2. CASE k = call[c].key /\ call[c].ok
      BY <2>1, <2>2 DEF Reply, TypeOK, Owes
    <2>3. CASE ~(k = call[c].key /\ call[c].ok)
      <3>1. Owes(call[c], k) = 0
        BY <2>3 DEF Owes
      <3>2. admitted'[k] = admitted[k]
        BY <1>1, <2>3 DEF Reply, TypeOK
      <3>3. admitted[k] \in Nat
        BY DEF TypeOK
      <3> QED BY <2>1, <3>1, <3>2, <3>3
    <2> QED BY <2>2, <2>3
  <1>4. admitted[k] \in Nat /\ Owing(k)[c] \in Nat /\ ledger[k].granted \in Nat
    BY OwingType DEF TypeOK, Ledger
  <1>5. UNCHANGED <<ledger, podLedger>>
    BY DEF Reply
  <1>6. admitted'[k] + (0 - Owing(k)[c]) <= admitted[k] + (ledger'[k].granted - ledger[k].granted)
    BY <1>3, <1>4, <1>5
  <1> QED BY <1>2, <1>5, <1>6, BalancesAlone

LEMMA PaidFallback ==
    ASSUME TypeOK, TypeOK', NEW k \in Keys, PaidFor(k), NEW c \in Calls, Fallback(c)
    PROVE  PaidFor(k)'
  <1> DEFINE p == call[c].pod
             key == call[c].key
             cost == call[c].cost
             avail == LocalLevel(p, key, call[c].stamp)
             taken == Taken(avail, cost)
  <1>1. p \in Pods /\ key \in Keys /\ cost \in Nat /\ call[c].stamp \in Nat
    BY InFlight DEF Fallback
  <1>2. avail \in Nat
    BY <1>1, LevelsType
  <1>3. taken \in Nat
    BY <1>1, <1>2 DEF Taken
  <1>4. Owing(k)' = [Owing(k) EXCEPT ![c] = 0]
    <2>1. CASE call' = [call EXCEPT ![c] = Idle]
      <3>1. Owing(k)' = [Owing(k) EXCEPT ![c] = Owes(Idle, k)]
        BY <2>1, OwingOne
      <3> QED BY <3>1, OwesIdle
    <2>2. CASE call' = [call EXCEPT ![c].pc = "orphan"]
      <3> DEFINE w == [call[c] EXCEPT !.pc = "orphan"]
      <3>1. call' = [call EXCEPT ![c] = w]
        BY <2>2 DEF TypeOK
      <3>2. w.pc # "ran"
        <4>1. call[c] \in CallType
          BY DEF TypeOK
        <4> QED BY <4>1 DEF CallType, Idle
      <3>3. Owes(w, k) = 0
        <4> HIDE DEF w
        <4> QED BY <3>2 DEF Owes
      <3> HIDE DEF w
      <3> QED BY <3>1, <3>3, OwingOne
    <2> QED BY <2>1, <2>2 DEF Fallback
  <1> DEFINE m == IF k = key THEN podLedger[p][k].granted + taken ELSE podLedger[p][k].granted
  <1>5. podLedger[p][k].granted \in Nat
    BY <1>1 DEF TypeOK, Ledger
  <1>6. podLedger' = [podLedger EXCEPT ![p][key] =
                         Booked(@, podLedger[p][key].clock, call[c].stamp, taken)]
        /\ admitted' = [admitted EXCEPT ![key] = @ + taken] /\ UNCHANGED ledger
    BY DEF Fallback
  <1> HIDE DEF taken, avail
  <1>7. Granting(k)' = [Granting(k) EXCEPT ![p] = m]
    <2>1. ASSUME NEW q \in Pods
          PROVE  podLedger'[q][k].granted = IF q = p THEN m ELSE podLedger[q][k].granted
      BY <1>1, <1>6 DEF TypeOK, Booked
    <2>2. Granting(k)' = [q \in Pods |-> podLedger'[q][k].granted]
      BY DEF Granting
    <2>3. Granting(k) = [q \in Pods |-> podLedger[q][k].granted]
      BY DEF Granting
    <2> HIDE DEF m
    <2> QED BY <1>1, <2>1, <2>2, <2>3
  <1>8. admitted'[k] = IF k = key THEN admitted[k] + taken ELSE admitted[k]
    BY <1>1, <1>6 DEF TypeOK
  <1>9. Granting(k)[p] = podLedger[p][k].granted
    BY <1>1 DEF Granting
  <1>10. admitted[k] \in Nat /\ Owing(k)[c] \in Nat /\ ledger[k].granted \in Nat
    BY OwingType DEF TypeOK, Ledger
  <1>11. m \in Nat
    BY <1>3, <1>5
  <1>12. admitted'[k] + (0 - Owing(k)[c])
            <= admitted[k] + (ledger'[k].granted - ledger[k].granted) + (m - Granting(k)[p])
    <2>1. ledger'[k].granted = ledger[k].granted
      BY <1>6
    <2> QED BY <1>3, <1>5, <1>8, <1>9, <1>10, <2>1
  <1> HIDE DEF m
  <1> QED BY <1>1, <1>4, <1>7, <1>11, <1>12, Balances

\* Steps of no call, and those of many: nobody owes more, nobody granted less.
LEMMA PaidWithin ==
    ASSUME TypeOK, TypeOK', NEW k \in Keys, PaidFor(k), UNCHANGED admitted,
           ledger'[k].granted = ledger[k].granted,
           \A c \in Calls : Owes(call'[c], k) <= Owes(call[c], k),
           \A p \in Pods : podLedger'[p][k].granted = podLedger[p][k].granted
    PROVE  PaidFor(k)'
  <1> DEFINE O  == Owing(k)
             O1 == Owing(k)'
  <1>1. Owing(k) \in [Calls -> Nat] /\ Owing(k)' \in [Calls -> Nat]
    <2>1. TypeOK => Owing(k) \in [Calls -> Nat]
      BY OwingType
    <2>2. TypeOK' => Owing(k)' \in [Calls -> Nat]
      <3>1. TypeOK' => \A c \in Calls : Owes(call[c], k)' \in Nat
        <4> SUFFICES ASSUME TypeOK', NEW c \in Calls PROVE Owes(call[c], k)' \in Nat
          OBVIOUS
        <4>1. call'[c] \in CallType
          BY DEF TypeOK
        <4>2. Owes(call'[c], k) \in Nat
          <5>1. CASE call'[c].pc = "ran"
            <6>1. call'[c].cost \in Costs
              BY <4>1, <5>1 DEF CallType, Idle
            <6>2. call'[c].cost \in Nat
              BY <6>1, SetsAssumption
            <6> QED BY <6>2 DEF Owes
          <5>2. CASE call'[c].pc # "ran"
            BY <5>2 DEF Owes
          <5> QED BY <5>1, <5>2
        <4> QED BY <4>2 DEF Owes
      <3> QED BY <3>1 DEF Owing
    <2> QED BY <2>1, <2>2
  <1>2. \A c \in Calls : O1[c] <= O[c]
    BY DEF Owing, Owes
  <1>3. Granting(k)' = Granting(k)
    BY DEF Granting
  <1> HIDE DEF O, O1
  <1>4. IsFiniteSet(Units(O)) /\ IsFiniteSet(Units(Granting(k)))
        /\ admitted[k] + Cardinality(Units(O)) <= ledger[k].granted + Cardinality(Units(Granting(k)))
    BY DEF PaidFor, O
  <1>5. /\ IsFiniteSet(Units(O1)) /\ Cardinality(Units(O1)) <= Cardinality(Units(O))
        /\ Cardinality(Units(O1)) \in Nat /\ Cardinality(Units(O)) \in Nat
    <2>1. O \in [Calls -> Nat] /\ O1 \in [Calls -> Nat]
      BY <1>1 DEF O, O1
    <2> QED BY <1>2, <1>4, <2>1, UnitsFewer
  <1>6. admitted[k] \in Nat /\ ledger[k].granted \in Nat /\ Cardinality(Units(Granting(k))) \in Nat
    BY <1>4, FS_CardinalityType DEF TypeOK, Ledger
  <1>7. admitted'[k] + Cardinality(Units(O1)) <= ledger'[k].granted + Cardinality(Units(Granting(k)))
    BY <1>4, <1>5, <1>6
  <1>8. Units(Owing(k))' = Units(O1) /\ Units(Granting(k))' = Units(Granting(k))
    BY <1>3 DEF O1, Units
  <1> QED BY <1>4, <1>5, <1>7, <1>8 DEF PaidFor

LEMMA PaidStep == TypeOK /\ TypeOK' /\ AllPaid /\ [Next]_vars => AllPaid'
  <1> SUFFICES ASSUME TypeOK, TypeOK', AllPaid, [Next]_vars, NEW k \in Keys PROVE PaidFor(k)'
    BY DEF AllPaid
  <1>0. PaidFor(k)
    BY DEF AllPaid
  <1>1. ASSUME NEW c \in Calls, RunScript(c) PROVE PaidFor(k)'
    BY <1>0, <1>1, PaidRunScript
  <1>2. ASSUME NEW c \in Calls, Reply(c) PROVE PaidFor(k)'
    BY <1>0, <1>2, PaidReply
  <1>3. ASSUME NEW c \in Calls, Fallback(c) PROVE PaidFor(k)'
    BY <1>0, <1>3, PaidFallback
  <1>4. ASSUME UNCHANGED <<admitted, ledger, podLedger>>,
               \A c \in Calls : Owes(call'[c], k) <= Owes(call[c], k)
        PROVE  PaidFor(k)'
    BY <1>0, <1>4, PaidWithin
  <1>5. \A c \in Calls : Owes(call[c], k) \in Nat
    BY OwingType DEF Owing
  <1>6. ASSUME NEW c \in Calls, DropOrphan(c) PROVE PaidFor(k)'
    <2>1. \A d \in Calls : call'[d] = call[d] \/ call'[d] = Idle
      BY <1>6 DEF DropOrphan, TypeOK
    <2>2. \A d \in Calls : Owes(call'[d], k) <= Owes(call[d], k)
      BY <1>5, <2>1, OwesIdle
    <2> QED BY <1>4, <1>6, <2>2 DEF DropOrphan, history
  <1>7. ASSUME NEW c \in Calls, NEW p \in Pods, NEW key \in Keys, NEW r \in Roles, NEW w \in Costs,
               Begin(c, p, key, r, w)
        PROVE  PaidFor(k)'
    <2>1. \A d \in Calls : call'[d] = call[d] \/ call'[d].pc = "sent"
      BY <1>7 DEF Begin, TypeOK
    <2>2. \A d \in Calls : call'[d].pc = "sent" => Owes(call'[d], k) = 0
      BY DEF Owes
    <2>3. \A d \in Calls : Owes(call'[d], k) <= Owes(call[d], k)
      BY <1>5, <2>1, <2>2
    <2> QED BY <1>4, <1>7, <2>3 DEF Begin, history
  <1>8. ASSUME UNCHANGED call PROVE \A c \in Calls : Owes(call'[c], k) <= Owes(call[c], k)
    BY <1>5, <1>8
  <1>9. ASSUME NEW p \in Pods, AdjustClock(p) PROVE PaidFor(k)'
    BY <1>4, <1>8, <1>9 DEF AdjustClock, history
  <1>10. ASSUME Tick PROVE PaidFor(k)'
    BY <1>4, <1>8, <1>10 DEF Tick, history
  <1>11. ASSUME UNCHANGED vars PROVE PaidFor(k)'
    BY <1>4, <1>8, <1>11 DEF vars, history
  <1>12. ASSUME RedisRestart PROVE PaidFor(k)'
    <2>1. ledger'[k].granted = ledger[k].granted
      BY <1>12 DEF RedisRestart, Lost, TypeOK, Ledger
    <2>2. \A p \in Pods : podLedger'[p][k].granted = podLedger[p][k].granted
      BY <1>12 DEF RedisRestart
    <2>3. UNCHANGED admitted /\ UNCHANGED call
      BY <1>12 DEF RedisRestart
    <2> QED BY <1>0, <1>8, <2>1, <2>2, <2>3, PaidWithin
  <1>13. ASSUME NEW p \in Pods, PodRestart(p) PROVE PaidFor(k)'
    <2>1. ledger'[k].granted = ledger[k].granted /\ UNCHANGED admitted
      BY <1>13 DEF PodRestart
    <2>2. \A q \in Pods : podLedger'[q][k].granted = podLedger[q][k].granted
      BY <1>13 DEF PodRestart, Lost, TypeOK, Ledger
    <2>3. ASSUME NEW d \in Calls PROVE Owes(call'[d], k) <= Owes(call[d], k)
      <3>1. CASE call[d].pc = "sent" /\ call[d].pod = p
        <4> DEFINE w == [call[d] EXCEPT !.pc = "orphan"]
        <4>1. call'[d] = w
          BY <1>13, <3>1 DEF PodRestart
        <4>2. w.pc # "ran"
          BY <3>1 DEF TypeOK, CallType, Idle
        <4> HIDE DEF w
        <4>3. Owes(call'[d], k) = 0
          BY <4>1, <4>2 DEF Owes
        <4> QED BY <1>5, <4>3
      <3>2. CASE call[d].pc = "ran" /\ call[d].pod = p
        BY <1>5, <1>13, <3>2, OwesIdle DEF PodRestart
      <3>3. CASE ~(call[d].pc = "sent" /\ call[d].pod = p) /\ ~(call[d].pc = "ran" /\ call[d].pod = p)
        BY <1>5, <1>13, <3>3 DEF PodRestart
      <3> QED BY <3>1, <3>2, <3>3
    <2> QED BY <1>0, <2>1, <2>2, <2>3, PaidWithin
  <1> QED BY <1>1, <1>2, <1>3, <1>6, <1>7, <1>9, <1>10, <1>11, <1>12, <1>13 DEF Next, CallStep

(* No failure of Redis, of a reply or of a pod lets a session run calls that  *)
(* no bucket has paid for (check_weighted fails closed).                      *)
THEOREM FailClosedAlways == Spec => []FailClosed
  <1>1. TypeOK /\ AllPaid => FailClosed
    <2> SUFFICES ASSUME TypeOK, AllPaid, NEW k \in Keys
                 PROVE  admitted[k] <= ledger[k].granted + Cardinality(PodUnits(k))
      BY DEF FailClosed
    <2>1. PaidFor(k)
      BY DEF AllPaid
    <2>2. Cardinality(Units(Owing(k))) \in Nat /\ Cardinality(Units(Granting(k))) \in Nat
      BY <2>1, FS_CardinalityType DEF PaidFor
    <2>3. PodUnits(k) = Units(Granting(k))
      BY DEF PodUnits, Granting
    <2>4. admitted[k] \in Nat /\ ledger[k].granted \in Nat
      BY DEF TypeOK, Ledger
    <2> QED BY <2>1, <2>2, <2>3, <2>4 DEF PaidFor
  <1>2. Spec => []AllPaid
    BY PaidInit, PaidStep, TypeCorrect, PTL DEF Spec
  <1> QED BY <1>1, <1>2, TypeCorrect, PTL
=============================================================================
