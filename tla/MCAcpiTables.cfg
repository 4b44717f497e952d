\* Firmware, dumps and directories of all shapes; low memory may run out.
SPECIFICATION Spec
CONSTANTS
  Machines <- MCMachines
  MaxTables = 10
  MaxQueries = 2
  FakeBase = 60
  Limit32 = 100
  Starving = TRUE
INVARIANTS CacheSound FreedNeverRead FirmwareLoadComplete FixedUpTreeComplete
