\* One UEFI test that loads its driver, and nobody else.
SPECIFICATION Spec
CONSTANTS
  Kinds = {"plain"}
  MaxTests = 2
  MaxOthers = 0
PROPERTY UnloadRemoves
CHECK_DEADLOCK FALSE
