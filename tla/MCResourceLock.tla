--------------------------- MODULE MCResourceLock ---------------------------
(* An instance of ResourceLock for TLC: every call is made once, so the    *)
(* number of calls bounds the run.                                         *)
EXTENDS ResourceLock

CONSTANTS c1, c2, c3, c4, k1, k2

MCCall == {c1, c2, c3, c4}
MCKey == {k1, k2}
MCStuck == {k2}
=============================================================================
