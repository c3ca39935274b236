----------------------------- MODULE MCPlanning -----------------------------
(* Two clients, two customers, one row id.                                 *)
EXTENDS Planning, TLC

CONSTANTS c1, c2, u1, u2

MCTime == 0..2
MCDatum == 0..1
MCDetails == 0..1

Symmetry == Permutations(Client) \cup Permutations(Customer)
=============================================================================
