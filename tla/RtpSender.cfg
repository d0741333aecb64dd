SPECIFICATION FairSpec
CONSTANTS
  MaxPayload = 5
  Frames <- MCFrames
  SeqMod = 3
  Interval = 1
  MaxFrames = 2
  MaxFaults = 1
  MaxLosses = 2
INVARIANTS
  WholeUnits
  GapsAreLosses
  CompleteFrames
  MarkerEndsFrame
PROPERTIES
  StreamKeepsGoing
  ImplementsUnitStream
CHECK_DEADLOCK FALSE
