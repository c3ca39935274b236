\* One call over rows that change meanwhile.
SPECIFICATION Spec
CONSTANTS
  Client = {c1}
  Expense = {x1, x2}
  Guest = {g1, g2}
  Task = {t1, t2}
  Event = {e1, e2}
  Amount <- MCAmount
  Budget <- MCBudget
  Time <- MCTime
  Due <- MCDue
  PlusOnes <- MCPlusOnes
  DASHBOARD_LIST_LIMIT = 1
  MaxWrites = 1
  FallsShort <- MCFallsShort
  None = None
SYMMETRY Symmetry
INVARIANTS
  FiguresWereTrue
  FiguresFit
  EndpointsAgree
\* Nothing obliges the customer to ask again.
CHECK_DEADLOCK FALSE
