SPECIFICATION Spec
CONSTANTS
  Methods = {"logind", "sysfs", "pmutils"}
  Delay = 2
  FailTimes = {0, 1}
  Faults = {"alarm", "refusal", "foreign", "early", "proxy", "memory"}
  Cycles = 2
  MinDelay = 0
  MaxDelay = 1
  Delta = 1
  SleepTypes = {"none", "s2idle"}
  HasHook = TRUE
  Hybrid = TRUE
  Checks = {"klog"}
  Machines <- MCMachines
INVARIANTS SettingsRestored  SleepsWithAlarm
PROPERTIES HookStopsCycles 
