\* Three calls that create or decide the bookings of two weddings with two
\* vendors; an id that is no vendor; vendors meet each other's bookings.
SPECIFICATION Spec
CONSTANTS
  c1 = c1
  c2 = c2
  c3 = c3
  w1 = w1
  w2 = w2
  v1 = v1
  v2 = v2
  ghost = ghost
  NoRequest = NoRequest
  Call <- MCCall
  Customer <- MCTwo
  Vendor <- MCVendor2
  VendorId <- MCVendorId
SYMMETRY MCSymmetry
INVARIANTS
  EachRowHasOneAuthor
  RepliesAreTrue
PROPERTIES
  ImplementsLedger
\* Every call is made once: the run ends when all have ended.
CHECK_DEADLOCK FALSE
