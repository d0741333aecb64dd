SPECIFICATION Spec
CONSTANTS
  QSize = 2
  BufSize = 6
  Align = 2
  Fps = 2
  FrameSizes <- MCFrameSizes
  Outcomes = {"ready", "error", "fuse"}
  MaxToggles = 2
INVARIANTS
  BufferBounds
  FreesWhatItSent
  NoLostRequest
  AtMostOneLateFrame
PROPERTIES
  NothingQueuedWhilePaused
  FirstQueuedIsIntra
