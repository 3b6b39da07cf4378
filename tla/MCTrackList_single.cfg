CONSTANTS
  n1 = n1
  n2 = n2
  n3 = n3
  n4 = n4
  Node = {n1, n2, n3, n4}
  End = End
  Idle = Idle
  Unset = Unset
  Overlap = FALSE
SPECIFICATION FairSpec
INVARIANTS TypeOK AddedIsReachable
PROPERTIES AtomicAppend AddedIsVisited
