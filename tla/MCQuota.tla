------------------------------ MODULE MCQuota ------------------------------
(* Small instances of Quota for TLC. *)
EXTENDS Quota, TLC

CONSTANTS p1, p2, k1, reader, navigator, c1, c2

OneRole   == [k \in Keys |-> {reader}]
BothRoles == [k \in Keys |-> {reader, navigator}]

Caps    == [r \in Roles |-> IF r = navigator THEN 2 ELSE 1]
Refills == [r \in Roles |-> IF r = navigator THEN RateLimit ELSE 1]
CapsFull == [r \in Roles |-> BurstLimit]

Interchangeable == Permutations(Pods) \cup Permutations(Calls)
=============================================================================
