------------------------ MODULE MCResourceAllocation ------------------------
(* Instances of ResourceAllocation for TLC: every call is made once, so    *)
(* the number of calls bounds the run.                                     *)
EXTENDS ResourceAllocation, TLC

CONSTANTS c1, c2, c3, w1, w2, v1, v2, s1, s2

MCCall == {c1, c2, c3}
MCWedding1 == {w1}
MCWedding2 == {w1, w2}
MCVendor1 == {v1}
MCVendor2 == {v1, v2}
MCServer1 == {s1}
MCServer2 == {s1, s2}

MCSymmetry ==
  Permutations(MCCall) \cup Permutations(MCWedding2)
    \cup Permutations(MCVendor2) \cup Permutations(MCServer2)
=============================================================================
