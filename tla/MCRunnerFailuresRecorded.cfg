CONSTANTS
  t1 = t1
  t2 = t2
  t3 = t3
  l1 = l1
  l2 = l2
  x1 = x1
  x2 = x2
  Tests <- MCTests
  Minors <- MCMinors
  NeedsRoot <- MCNeedsRoot
  LacksFeatures <- MCLacksFeatures
  HasInit <- MCHasInit
  HasDeinit <- MCHasDeinit
  Utilities <- MCUtilities
  Queues <- MCQueues
  Options <- MCOptions
  Labels <- MCLabels
  Texts <- MCTexts
  Failures <- MCFailures
  MaxLogs = 1
SPECIFICATION Spec
INVARIANT FailuresRecorded
