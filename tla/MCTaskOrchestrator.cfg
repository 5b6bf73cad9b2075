SPECIFICATION OrchestratorSpec
CONSTANTS
  None = None
  render = render
  index = index
  blue = blue
  green = green
  Kinds <- TwoKinds
  Workers <- TwoWorkers
  Registrations <- BothQueues
  Priorities <- TwoPriorities
  Reports <- OneReport
  MaxTasks = 2
  MaxAttempts = 2
  MaxReclaims = 1
SYMMETRY WorkerSymmetry
INVARIANTS
  QueuedOnce
  ActiveIsHeld
  AttemptsAreBounded
  OldestFirst
PROPERTIES
  TerminalIsFinal
