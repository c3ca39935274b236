------------------------------- MODULE MCSeed -------------------------------
(* Two clients, of whom one may hold the dev address of the admin before   *)
(* the script comes to it, spelled in one of two ways, and two runs of the *)
(* script over one row of each shape: users that others reference and one  *)
(* that none does, a row under a user, under another row, and under two.   *)
EXTENDS Seed, TLC

CONSTANTS c1, c2, i1, i2

MCTyped == {"admin", "ADMIN"}
SeededId == {USERS[i].id : i \in DOMAIN USERS}
MCAddress == MCTyped \cup {DevEmail(name) : name \in SeededId}
MCLower == [a \in MCAddress |-> IF a = "ADMIN" THEN "admin" ELSE a]
MCSeeded == {"customer", "vendor1", "admin", "photography", "wedding", "b1"}
MCFreshId == {i1, i2}
MCUserId == MCFreshId \cup SeededId

Symmetry == Permutations(Client) \cup Permutations(MCFreshId) \cup Permutations(Seeder)
=============================================================================
