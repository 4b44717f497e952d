\* A machine whose FADT has no FACS.
SPECIFICATION Spec
CONSTANTS
  Machines <- MCMachines
  MaxTables = 10
  MaxQueries = 1
  FakeBase = 60
  Limit32 = 100
  Starving = FALSE
INVARIANT MissingFacsIgnored
