SPECIFICATION Spec
CONSTANTS
  QSize = 2
  BufSize = 4
  Align = 2
  Fps = 2
  FrameSizes <- MCAligned
  Outcomes = {"ready"}
  MaxToggles = 0
INVARIANTS
  NextPositionIsFree
