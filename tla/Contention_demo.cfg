\* One server and no unique index: the lock alone keeps a vendor to one holder.
SPECIFICATION DemoSpec
CONSTANTS
  first = first
  second = second
  final = final
  other = other
  NoRow = NoRow
  NoRequest = NoRequest
  Call <- MCCall
  Wedding = {w1, w2}
  Vendor = {v1}
  Server = {s1}
  UniqueIndex = FALSE
  MaxCrashes = 0
  Ops = {"request", "release", "list", "get"}
  Failures = TRUE
SYMMETRY Symmetry
INVARIANTS
  DemoIsTrue
PROPERTIES
  ImplementsLedger
\* Every call is made once: the run ends when all have ended.
CHECK_DEADLOCK FALSE
