\* UEFI and SMCCC tests beside someone who loads and removes modules.
SPECIFICATION Spec
CONSTANTS
  Kinds = {"plain", "late", "smccc"}
  MaxTests = 3
  MaxOthers = 2
INVARIANTS DescriptorsAccounted OnlyOwnModules
PROPERTY WorkingDriverReused
CHECK_DEADLOCK FALSE
