\* Errors that fit in the pipe, any amount of other output, any failure.  Out of
\* memory the parent and the compiler may wait for each other: no deadlock
\* check, AssembleReturns covers the rest.
SPECIFICATION IaslSpec
CONSTANTS
  Scripts <- TerseErrors
  PipeSize = 2
  Faults = {"pipe", "fork", "memory", "read", "stop"}
INVARIANTS OutputsAreComplete NothingLeft
PROPERTY AssembleReturns
CHECK_DEADLOCK FALSE
