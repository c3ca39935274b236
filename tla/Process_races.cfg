\* Clients that create, dispatch, complete and delete two tasks' processes.
SPECIFICATION Spec
CONSTANTS
  c1 = c1
  c2 = c2
  c3 = c3
  t1 = t1
  t2 = t2
  w1 = w1
  w2 = w2
  NoProcess = NoProcess
  NoCall = NoCall
  Client <- MCClient2
  Task <- MCTask2
  Wedding <- MCWedding2
  MaxStarts = 2
  Ops = {"create", "transition", "remove"}
SYMMETRY MCSymmetry
INVARIANTS
  ProcessesAreFiled
  StampsFollowStates
PROPERTIES
  ProcessesMoveOn
  UnovertakenMovesAreValid
