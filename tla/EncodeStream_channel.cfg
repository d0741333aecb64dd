SPECIFICATION FairSpec
CONSTANTS
  QSize = 2
  BufSize = 6
  Align = 2
  Fps = 1
  FrameSizes <- MCAligned
  Outcomes = {"ready"}
  MaxToggles = 2
PROPERTIES
  ImplementsChannel
  ResumeHonoured
