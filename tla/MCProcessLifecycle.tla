------------------------- MODULE MCProcessLifecycle -------------------------
(* Instances of ProcessLifecycle for TLC.                                  *)
EXTENDS ProcessLifecycle, TLC

CONSTANTS c1, c2, c3, t1, t2, w1, w2

MCClient2 == {c1, c2}
MCClient3 == {c1, c2, c3}
MCTask1 == {t1}
MCTask2 == {t1, t2}
MCWedding1 == {w1}
MCWedding2 == {w1, w2}

MCSymmetry ==
  Permutations(MCClient3) \cup Permutations(MCTask2) \cup Permutations(MCWedding2)
=============================================================================
