SPECIFICATION FairSpec
CONSTANTS
  MaxAttempts = 2
  QueueLen = 2
INVARIANTS
  MutexHolderAlive
  OneSession
  AnsweredOnItsStack
  BuffersAccounted
  StoppedIsClean
PROPERTIES
  NoAttemptHangs
  BrokenLinkEndsSession
