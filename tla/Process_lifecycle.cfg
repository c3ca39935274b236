\* Two transitions of one process at once against the lifecycle table.
SPECIFICATION Spec
CONSTANTS
  c1 = c1
  c2 = c2
  c3 = c3
  t1 = t1
  t2 = t2
  w1 = w1
  w2 = w2
  NoProcess = NoProcess
  NoCall = NoCall
  Client <- MCClient2
  Task <- MCTask1
  Wedding <- MCWedding1
  MaxStarts = 2
  Ops = {"create", "transition", "remove"}
SYMMETRY MCSymmetry
PROPERTIES
  ValidLifecycle
