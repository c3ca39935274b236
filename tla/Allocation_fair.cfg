\* Two servers, a crash and an orphaned transaction: every call ends.
SPECIFICATION FairSpec
CONSTANTS
  c1 = c1
  c2 = c2
  c3 = c3
  w1 = w1
  w2 = w2
  v1 = v1
  v2 = v2
  s1 = s1
  s2 = s2
  NoRow = NoRow
  NoRequest = NoRequest
  Call <- MCCall
  Wedding <- MCWedding1
  Vendor <- MCVendor1
  Server <- MCServer2
  UniqueIndex = TRUE
  MaxCrashes = 1
  Ops = {"request"}
  Failures = FALSE
PROPERTIES
  EveryCallEnds
\* Every call is made once: the run ends when all have ended.
CHECK_DEADLOCK FALSE
