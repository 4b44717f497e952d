\* Inputs and outputs shorter and longer than a pipe, and every failure at any
\* point.
SPECIFICATION Spec
CONSTANTS
  Jobs <- Commands
  Input = 3
  Capacity = 2
  Failures = {"pipe", "fork", "memory", "signal"}
INVARIANTS SuccessIsReal OutputIsComplete ClosedAfterRun
PROPERTY CommandReturns
