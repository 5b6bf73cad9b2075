SPECIFICATION CoordinatorSpec
CONSTANTS
  None = None
  align = align
  route = route
  o1 = o1
  o2 = o2
  o3 = o3
  k1 = k1
  k2 = k2
  NodeIds <- MCNodeIds
  Objects <- MCObjects
  Commands <- MCCommands
  Capable <- MCCapable
  Calls <- MCCalls
  MaxOverflows = 1
INVARIANTS
  IdleNodesAreFree
  LeasesAreLive
  ReapsBoundOverlap
  LossesBoundRuns
PROPERTIES
  ReservationsEnd
