\* Four calls on two keys; critical sections on k2 may hang for ever.
SPECIFICATION FairSpec
CONSTANTS
  c1 = c1
  c2 = c2
  c3 = c3
  c4 = c4
  k1 = k1
  k2 = k2
  NoTail = NoTail
  Resolved = Resolved
  NoKey = NoKey
  Call <- MCCall
  Key <- MCKey
  Stuck <- MCStuck
INVARIANTS
  MutualExclusion
  HeldExact
  TailsExact
PROPERTIES
  ImplementsFifoMutex
  EveryCallFinishes
\* Every call is made once: the run ends when all have finished.
CHECK_DEADLOCK FALSE
