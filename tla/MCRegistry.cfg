CONSTANTS
  t1 = t1
  t2 = t2
  t3 = t3
  t4 = t4
  acpi = acpi
  utils = utils
  Batch = Batch
  Unknown = Unknown
  Tests <- MCTests
  Categories <- MCCategories
  Priority <- MCPriority
  TestFlags <- MCTestFlags
  CommandLines <- MCCommandLines
SPECIFICATION FairSpec
INVARIANTS
  RegisteredInOrder
  SelectionIsExact
  UnknownNameRunsNothing
PROPERTY SelectionEnds
