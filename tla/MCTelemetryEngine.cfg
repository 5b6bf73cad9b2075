SPECIFICATION TelemetrySpec
CONSTANTS
  None = None
  p1 = p1
  p2 = p2
  w1 = w1
  w2 = w2
  Publishers <- TwoPublishers
  Workers <- TwoWorkers
  Capacity = 2
  BatchLimit = 2
  MaxSamples = 3
PROPERTIES
  SamplesLeave
  StopEnds
INVARIANTS
  EachSampleOnce
  CountersAgree
  StopLeavesNothing
