---------------------------- MODULE TokenBucket ----------------------------
(***************************************************************************)
(* The token-bucket arithmetic shared by the Redis script of fedlex-store  *)
(* (token_bucket.rs) and the pod-local fallback of mcp-reader (quota.rs).  *)
(* Time is counted in ticks and tokens in units chosen so that the refill  *)
(* per tick is a whole number; the code computes the same formula in f64.  *)
(*                                                                         *)
(* A ledger is a history record kept beside a bucket: it does not exist in *)
(* the program, it only says what the bucket has granted and which         *)
(* stretches of time have been credited more than once.                    *)
(***************************************************************************)
EXTENDS Integers

Never == -1     \* the "no stamp yet" value of a ledger, the "never" of a retry hint

Lesser(a, b) == IF a < b THEN a ELSE b

\* Mutant of Elapsed: a clock that went back takes tokens away.
SignedElapsed(from, to) == to - from

\* Time from one stamp to a later one; a clock that went back counts as no time.
Elapsed(from, to) == IF to > from THEN to - from ELSE 0

\* The level a bucket has at stamp s, after the refill.
Available(tokens, ts, cap, rate, s) == Lesser(cap, tokens + rate * Elapsed(ts, s))

\* What an attempt to take cost tokens out of avail takes and leaves.
Taken(avail, cost) == IF avail >= cost THEN cost ELSE 0

\* Mutant of Remaining: nothing is taken out.
Undeducted(avail, cost) == avail

Remaining(avail, cost) == avail - Taken(avail, cost)

\* Mutant of CeilDiv: the hint is rounded down.
FloorDiv(a, b) == a \div b

CeilDiv(a, b) == (a + b - 1) \div b

\* The waiting time handed to the caller of an attempt.
RetryAfter(avail, cost, rate) ==
    IF avail >= cost THEN 0
    ELSE IF rate > 0 THEN CeilDiv(cost - avail, rate)
    ELSE Never

-----------------------------------------------------------------------------

Ledger == [first : Nat \cup {Never}, clock : Nat, rewound : Nat, granted : Nat, losses : Nat]

EmptyLedger == [first |-> Never, clock |-> 0, rewound |-> 0, granted |-> 0, losses |-> 0]

(* An attempt stamped s took `taken` tokens out of a bucket whose credit    *)
(* reached up to `upTo`: the time between s and upTo, if any, will be       *)
(* credited a second time.                                                  *)
Booked(l, upTo, s, taken) ==
    [ first   |-> IF l.first = Never THEN s ELSE l.first,
      clock   |-> s,
      rewound |-> IF l.first = Never THEN 0 ELSE l.rewound + Elapsed(s, upTo),
      granted |-> l.granted + taken,
      losses  |-> l.losses ]

\* A restart emptied the memory the bucket lived in.
Lost(l) == [l EXCEPT !.losses = @ + 1]

\* Everything a bucket may have granted when its credit reaches up to `upTo`.
Budget(l, burst, rate, upTo) ==
    burst * (1 + l.losses) + rate * (upTo - l.first + l.rewound)

(* A bucket and its ledger agree: what was granted and what is still left   *)
(* (a full burst, if the bucket is gone) fits the budget up to the stamp of *)
(* the last attempt.                                                        *)
Accounted(b, l, burst, rate) ==
    /\ b.live => l.first # Never /\ b.ts = l.clock
    /\ l.first = Never => l.granted = 0
    /\ l.first # Never =>
          l.granted + (IF b.live THEN b.tokens ELSE burst) <= Budget(l, burst, rate, l.clock)
=============================================================================
