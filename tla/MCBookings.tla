----------------------------- MODULE MCBookings -----------------------------
(* Instances of Bookings for TLC: every call is made once, so the number   *)
(* of calls bounds the run.                                                *)
EXTENDS Bookings, TLC

CONSTANTS c1, c2, c3, w1, w2, v1, v2, ghost

MCCall == {c1, c2, c3}
MCOne == {w1}
MCTwo == {w1, w2}
MCVendor1 == {v1}
MCVendor2 == {v1, v2}
MCVendorId == {v1, v2, ghost}

MCSymmetry ==
  Permutations(MCCall) \cup Permutations(MCTwo) \cup Permutations(MCVendor2)
=============================================================================
