\* One row of each shape of the script, two runs of it and two clients.
SPECIFICATION Spec
CONSTANTS
  c1 = c1
  c2 = c2
  i1 = i1
  i2 = i2
  Client = {c1, c2}
  Address <- MCAddress
  Lower <- MCLower
  Password = {p1, p2}
  UserId <- MCUserId
  FreshId <- MCFreshId
  Typed <- MCTyped
  Placeholder = Placeholder
  NoUser = NoUser
  NoToken = NoToken
  NoCall = NoCall
  Seeder = {s1, s2}
  MaxStarts = 2
  Seeded <- MCSeeded
SYMMETRY Symmetry
INVARIANTS
  ActsAsOneself
  OneAccountPerAddress
  DoneMeansComplete
PROPERTIES
  LoginRefusalsAreTrue
  FailsForAReason
\* Nothing obliges the clients to call again.
CHECK_DEADLOCK FALSE
