CONSTANTS
  n1 = n1
  n2 = n2
  n3 = n3
  n4 = n4
  Node = {n1, n2, n3}
  End = End
  Idle = Idle
  Unset = Unset
  Overlap = TRUE
SPECIFICATION FairSpec
INVARIANT AddedIsReachable
