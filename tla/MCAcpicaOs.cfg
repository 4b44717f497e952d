\* Two Notify() threads beside the main one; AML can lock the process up, which stops it.
SPECIFICATION Spec
CONSTANTS
  main = main
  w1 = w1
  w2 = w2
  w3 = w3
  none = none
  Main <- main
  NoThread <- none
  Workers <- TwoWorkers
  MaxSemaphores = 1
  MaxThreads = 2
  MaxEvaluations = 2
  MaxCalls = 2
  Nested = FALSE
INVARIANTS TypeOK AllThreadsComplete SlotsNameTheirThreads
PROPERTIES ImplementsLedger EvaluationEnds
CHECK_DEADLOCK FALSE
