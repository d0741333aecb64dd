CONSTANTS
  MaxAttempts = 2
  QueueLen = 1
SPECIFICATION Spec
INVARIANT AttemptKeepsItsObjects
