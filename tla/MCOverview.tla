----------------------------- MODULE MCOverview -----------------------------
(* 11.50 of 20.00 is half a percent more than 57, which the doubles miss   *)
(* (57.49999999999999); 23.00 is over budget; the text of 11.50 is "11.5". *)
EXTENDS Overview, TLC

MCAmount == {5, 1150}
MCBudget == {0, 2000}
MCTime == 0..2
MCDue == {1}
MCPlusOnes == {0, 2}
MCFallsShort == {<<1150, 2000>>}

Symmetry == Permutations(Expense) \cup Permutations(Guest)
              \cup Permutations(Task)
              \cup Permutations(Event)
=============================================================================
