---------------------------- MODULE BreakerConfig ----------------------------
(* What a breaker is configured with (BreakerConfig of circuit_breaker.rs),   *)
(* and how freely the wall clock moves under it.                              *)
EXTENDS Integers

CONSTANTS
    Threshold,   \* failure_threshold
    Cooldown,    \* open_cooldown, in ticks
    MaxStep      \* how far the wall clock may be set; 0: it only advances

ASSUME ConfigAssumption == Threshold \in Nat /\ Cooldown \in Nat \ {0} /\ MaxStep \in Nat
=============================================================================
