\* The comment on the booking table: duplicates are refused while active.
SPECIFICATION Spec
CONSTANTS
  c1 = c1
  c2 = c2
  c3 = c3
  w1 = w1
  w2 = w2
  v1 = v1
  v2 = v2
  ghost = ghost
  NoRequest = NoRequest
  Call <- MCCall
  Customer <- MCOne
  Vendor <- MCVendor1
  VendorId <- MCVendor1
PROPERTIES
  DuplicateOnlyIfActive
\* Every call is made once: the run ends when all have ended.
CHECK_DEADLOCK FALSE
