CONSTANTS
  c1 = c1
  c2 = c2
  u1 = u1
  u2 = u2
  Client = {c1, c2}
  Customer = {u1, u2}
  Item = {i1}
  Time <- MCTime
  Datum <- MCDatum
  Details <- MCDetails
  NoWedding = NoWedding
  NoItem = NoItem
  Deleted = Deleted
  NoCall = NoCall
SPECIFICATION Spec
SYMMETRY Symmetry
INVARIANTS
  EventsChronological
  NoLostColumn
PROPERTIES
  OnlyTheOwnerWrites
  CreatesReplaceNothing
