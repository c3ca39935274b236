\* Up to three processes with every mix of gaps, ties, bursts and urgency, and
\* quanta from one unit to a whole burst.
SPECIFICATION FairSpec
CONSTANTS
  t1 = t1
  t2 = t2
  t3 = t3
  foreign = foreign
  NoQuantum = NoQuantum
  TaskLists <- MCTaskLists
  OwnTask <- MCOwnTask
  Arrivals = {0, 1, 4}
  Bursts = {1, 2, 3}
  Priorities = {1, 2}
  Quanta = {1, 2, 3}
INVARIANTS
  NoTimeIsLost
  WaitingIsOthersRunning
  ShortestFirstIsOptimal
  UrgentWaitsForOne
  TakesTurns
  LargeQuantumIsFcfs
PROPERTIES
  ImplementsCpu
  AlwaysAnswers
\* A request is answered once.
CHECK_DEADLOCK FALSE
