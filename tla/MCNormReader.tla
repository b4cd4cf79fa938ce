---------------------------- MODULE MCNormReader ----------------------------
(* Small instances of NormReader for TLC: a norm with two versions, the       *)
(* second from the second day on.                                            *)
EXTENDS NormReader, TLC

CONSTANTS c1, c2, v1, v2, de, none

Request(tool, role, asOf, other) ==
    [tool |-> tool, role |-> role, asOf |-> asOf, other |-> other, lang |-> de]

SomeRequests ==
    {Request("read_article", "Reader", a, 0) : a \in {NotGiven, 2}}
    \cup {Request("compare_versions", "Validator", 2, 1)}

EveryOutcome ==
    SomeRequests \cup
    { Request("read_article", "Reader", Malformed, 0),
      Request("compare_versions", "Reader", 2, 1),
      Request("compare_versions", "Validator", 2, 0),
      Request("unnamed", "Reader", NotGiven, 0),
      Request("unknown", "Reader", NotGiven, 0) }

FromDay == [v \in Versions |-> IF v = v1 THEN 1 ELSE 2]

Interchangeable == Permutations(Calls)
=============================================================================
