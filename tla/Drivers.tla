------------------------------- MODULE Drivers -------------------------------
(***************************************************************************)
(* The test drivers of the kernel, which tests load for themselves and are *)
(* to unload: efi_test or its older self efi_runtime for the UEFI tests    *)
(* (fwts_efi_module.c), smccc_test for those of the ARM firmware interface *)
(* (fwts_smccc.c), both by way of modprobe (fwts_modprobe.c).              *)
(*                                                                         *)
(* Tests run one after the other, but not alone: someone else may load and *)
(* remove modules, and a device may be there without a module, or come     *)
(* later than its module.  Each look at the system is a step of its own.   *)
(***************************************************************************)
EXTENDS Integers, Sequences

CONSTANTS
  Kinds,     \* of tests: "plain" and "late" for UEFI, where "late" may find
             \* after the driver that it cannot run, and "smccc"
  MaxTests,  \* bound: tests run
  MaxOthers  \* bound: modules that others load or remove

ASSUME DriversAssumption ==
  /\ Kinds \subseteq {"plain", "late", "smccc"}
  /\ MaxTests \in Nat
  /\ MaxOthers \in Nat

EfiModules == <<"efi_test", "efi_runtime">>
Smccc == "smccc_test"
Modules == {"efi_test", "efi_runtime", Smccc}
None == "none"

VARIABLES
  (* The system. *)
  inTree,      \* modules under /lib/modules
  loaded,      \* modules in /proc/modules
  devices,     \* modules whose device is there
  others,      \* modules that others loaded or removed so far, a count
  (* fwts. *)
  place,       \* "idle", a place in an init(), "running" or, in a deinit(), "close"
  i,           \* the index in EfiModules of the name that is tried
  kind,        \* of the test
  efi_dev_name,
  module_name,
  fd,          \* the device that the test in hand has open, or None for -1
  smcccFd, smcccFlag,  \* smccc_fd and module_loaded
  tests,       \* tests begun
  (* History variables. *)
  leaked,      \* descriptors no test knows of any more, by device
  lateFailures,
  mine,        \* modules that are there because fwts loaded them
  meddled,     \* modules that others loaded or removed since the test began
  worked       \* the device of the last UEFI test that ran, if nobody removed it

systemVars == <<inTree, loaded, devices, others>>
efiVars == <<efi_dev_name, module_name, fd>>
smcccVars == <<smcccFd, smcccFlag>>
historyVars == <<leaked, lateFailures, mine, meddled, worked>>
vars == <<systemVars, place, i, kind, efiVars, smcccVars, tests, historyVars>>

\* A driver may be part of the kernel, with a device and no module, or have
\* been loaded by someone and not have its device yet.
Init ==
  /\ inTree \in SUBSET Modules
  /\ loaded \in SUBSET inTree
  /\ devices \in SUBSET (loaded \union (Modules \ inTree))
  /\ others = 0
  /\ place = "idle"
  /\ i = 1
  /\ kind = None
  /\ efi_dev_name = None
  /\ module_name = None
  /\ fd = None
  /\ smcccFd = None
  /\ smcccFlag = FALSE
  /\ tests = 0
  /\ leaked = [m \in Modules |-> 0]
  /\ lateFailures = 0
  /\ mine = {}
  /\ meddled = {}
  /\ worked = None

Name == EfiModules[i]
InUse(m) == fd = m \/ smcccFd = m \/ leaked[m] > 0

-----------------------------------------------------------------------------
(* Others: whoever is root, udev and the kernel.                           *)
OtherLoads(m) ==
  /\ others < MaxOthers
  /\ m \in inTree \ loaded
  /\ loaded' = loaded \union {m}
  /\ others' = others + 1
  /\ meddled' = meddled \union {m}
  /\ UNCHANGED <<inTree, devices, place, i, kind, efiVars, smcccVars, tests,
                 leaked, lateFailures, mine, worked>>

\* A device that is open keeps its module.
OtherRemoves(m) ==
  /\ others < MaxOthers
  /\ m \in loaded
  /\ ~InUse(m)
  /\ loaded' = loaded \ {m}
  /\ devices' = devices \ {m}
  /\ others' = others + 1
  /\ mine' = mine \ {m}
  /\ meddled' = meddled \union {m}
  /\ worked' = IF worked = m THEN None ELSE worked
  /\ UNCHANGED <<inTree, place, i, kind, efiVars, smcccVars, tests, leaked, lateFailures>>

DeviceAppears(m) ==
  /\ m \in loaded \ devices
  /\ devices' = devices \union {m}
  /\ UNCHANGED <<inTree, loaded, others, place, i, kind, efiVars, smcccVars, tests, historyVars>>

-----------------------------------------------------------------------------
(* fwts_module_load() and fwts_module_unload().                            *)

\* modprobe may fail with a module that is there. A module that is loaded is not
\* loaded again, and one that is not passes for loaded when modprobe could not
\* be started: its status is still 0 then.
ModuleLoads(m) ==
  \/ m \in inTree /\ UNCHANGED <<loaded, mine>>
  \/ /\ m \in inTree \ loaded
     /\ loaded' = loaded \union {m}
     /\ mine' = mine \union {m}

ModuleLoadFails(m) == m \notin loaded /\ UNCHANGED <<loaded, mine>>

\* The command is cut off by one character, for want of room for the blank
\* before the name: "modprobe -r efi_tes".  No module has such a name.
ModuleUnload(m) == UNCHANGED <<loaded, devices, mine>>

-----------------------------------------------------------------------------
(* fwts_lib_efi_runtime_module_init().                                     *)

\* The bug of loading the driver without a look for it.
BeginEfiBlindly(k) ==
  /\ place = "idle" /\ tests < MaxTests
  /\ k \in Kinds \ {"smccc"}
  /\ tests' = tests + 1
  /\ meddled' = {}
  /\ kind' = k
  /\ place' = "absent" /\ i' = 1 /\ efi_dev_name' = None /\ module_name' = None /\ UNCHANGED fd
  /\ UNCHANGED <<systemVars, smcccVars, leaked, lateFailures, mine, worked>>

\* The firmware is no UEFI or the kernel is locked down, or on it goes with
\* what the last test left forgotten.
BeginEfi(k) ==
  /\ place = "idle" /\ tests < MaxTests
  /\ k \in Kinds \ {"smccc"}
  /\ tests' = tests + 1
  /\ meddled' = {}
  /\ kind' = k
  /\ \/ UNCHANGED <<place, i, efiVars>>
     \/ place' = "device" /\ i' = 1 /\ efi_dev_name' = None /\ module_name' = None /\ UNCHANGED fd
  /\ UNCHANGED <<systemVars, smcccVars, leaked, lateFailures, mine, worked>>

Frame == UNCHANGED <<inTree, others, kind, fd, smcccVars, tests,
                     leaked, lateFailures, meddled, worked>>
Still == UNCHANGED <<loaded, devices, mine>>

\* The next name, and after the last the next place.
Onward(here, next) ==
  IF i = 1 THEN place' = here /\ i' = 2 ELSE place' = next /\ i' = 1

\* check_device() before anything is loaded.
LookForDevice ==
  /\ place = "device"
  /\ IF Name \in devices
     THEN place' = "open" /\ efi_dev_name' = Name /\ UNCHANGED i
     ELSE Onward("device", "absent") /\ UNCHANGED efi_dev_name
  /\ Frame /\ Still
  /\ UNCHANGED module_name

\* The bug of not looking for the module.
CheckModuleTrusting ==
  /\ place = "absent"
  /\ Onward("absent", "load")
  /\ Frame /\ Still
  /\ UNCHANGED <<efi_dev_name, module_name>>

\* check_module_loaded_no_dev(): it should not be loaded.
CheckModule ==
  /\ place = "absent"
  /\ IF Name \in loaded THEN place' = "idle" /\ UNCHANGED i
                        ELSE Onward("absent", "load")
  /\ Frame /\ Still
  /\ UNCHANGED <<efi_dev_name, module_name>>

\* load_module(): load it, ...
LoadModule ==
  /\ place = "load"
  /\ \/ ModuleLoads(Name) /\ place' = "loaded" /\ UNCHANGED i
     \/ ModuleLoadFails(Name) /\ Onward("load", "idle")
  /\ Frame
  /\ UNCHANGED <<devices, efi_dev_name, module_name>>

\* ... see that it is loaded, ...
ConfirmLoaded ==
  /\ place = "loaded"
  /\ IF Name \in loaded THEN place' = "appear" /\ UNCHANGED i
                        ELSE Onward("load", "idle")
  /\ Frame /\ Still
  /\ UNCHANGED <<efi_dev_name, module_name>>

\* ... and that its device has appeared.
ConfirmDevice ==
  /\ place = "appear"
  /\ IF Name \in devices
     THEN place' = "open" /\ efi_dev_name' = Name /\ module_name' = Name /\ UNCHANGED i
     ELSE Onward("load", "idle") /\ UNCHANGED <<efi_dev_name, module_name>>
  /\ Frame /\ Still

\* fwts_lib_efi_runtime_open(), and what is left of the init() of the test.
\* One that fails here has no deinit(): the descriptor is lost.
OpenEfi ==
  /\ place = "open"
  /\ \/ /\ efi_dev_name \in devices
        /\ place' = "running"
        /\ fd' = efi_dev_name
        /\ worked' = efi_dev_name
        /\ UNCHANGED <<leaked, lateFailures>>
     \/ /\ efi_dev_name \in devices
        /\ kind = "late"
        /\ place' = "idle"
        /\ fd' = None
        /\ leaked' = [leaked EXCEPT ![efi_dev_name] = @ + 1]
        /\ lateFailures' = lateFailures + 1
        /\ UNCHANGED worked
     \/ place' = "idle" /\ fd' = None /\ UNCHANGED <<leaked, lateFailures, worked>>
  /\ Still
  /\ UNCHANGED <<inTree, others, i, kind, efi_dev_name, module_name, smcccVars, tests, meddled>>

-----------------------------------------------------------------------------
(* The deinit() of the UEFI tests.                                         *)

\* The bug of a deinit() that leaves the descriptor alone.
CloseEfiNot ==
  /\ place = "running" /\ kind # "smccc"
  /\ place' = "unload"
  /\ leaked' = [leaked EXCEPT ![fd] = @ + 1]
  /\ fd' = None
  /\ Still
  /\ UNCHANGED <<inTree, others, i, kind, efi_dev_name, module_name, smcccVars, tests,
                 lateFailures, meddled, worked>>

CloseEfi ==
  /\ place = "running" /\ kind # "smccc"
  /\ place' = "unload"
  /\ fd' = None
  /\ Still
  /\ UNCHANGED <<inTree, others, i, kind, efi_dev_name, module_name, smcccVars, tests,
                 leaked, lateFailures, meddled, worked>>

\* fwts_lib_efi_runtime_unload_module(), whose result nobody looks at.
UnloadEfi ==
  /\ place = "unload"
  /\ place' = "idle"
  /\ efi_dev_name' = None
  /\ module_name' = None
  /\ IF module_name \in loaded THEN ModuleUnload(module_name) ELSE Still
  /\ UNCHANGED <<inTree, others, i, kind, fd, smcccVars, tests,
                 leaked, lateFailures, meddled, worked>>

-----------------------------------------------------------------------------
(* smccc_init() and smccc_deinit().                                        *)
BeginSmccc ==
  /\ place = "idle" /\ tests < MaxTests
  /\ "smccc" \in Kinds
  /\ tests' = tests + 1
  /\ meddled' = {}
  /\ kind' = "smccc"
  /\ \/ ModuleLoads(Smccc) /\ place' = "openSmccc" /\ UNCHANGED smcccVars
     \/ /\ ModuleLoadFails(Smccc)
        /\ smcccFlag' = FALSE /\ smcccFd' = None
        /\ UNCHANGED place
  /\ UNCHANGED <<inTree, devices, others, i, efiVars, leaked, lateFailures, worked>>

\* The test runs whether or not the device could be opened.
OpenSmccc ==
  /\ place = "openSmccc"
  /\ place' = "running"
  /\ smcccFd' \in {None} \union ({Smccc} \intersect devices)
  /\ UNCHANGED <<systemVars, i, kind, efiVars, smcccFlag, tests, historyVars>>

CloseSmccc ==
  /\ place = "running" /\ kind = "smccc"
  /\ place' = "unloadSmccc"
  /\ smcccFd' = None
  /\ UNCHANGED <<systemVars, i, kind, efiVars, smcccFlag, tests, historyVars>>

\* module_loaded is set here and nowhere else: the first test leaves the
\* module, and those after it try.
UnloadSmccc ==
  /\ place = "unloadSmccc"
  /\ place' = "idle"
  /\ smcccFlag' = TRUE
  /\ IF smcccFlag /\ Smccc \in loaded THEN ModuleUnload(Smccc) ELSE Still
  /\ UNCHANGED <<inTree, others, i, kind, efiVars, smcccFd, tests,
                 leaked, lateFailures, meddled, worked>>

-----------------------------------------------------------------------------
Others == \E m \in Modules : OtherLoads(m) \/ OtherRemoves(m) \/ DeviceAppears(m)
EfiInit ==
  \/ \E k \in Kinds : BeginEfi(k)
  \/ LookForDevice \/ CheckModule \/ LoadModule \/ ConfirmLoaded \/ ConfirmDevice \/ OpenEfi
EfiDeinit == CloseEfi \/ UnloadEfi
SmcccTest == BeginSmccc \/ OpenSmccc \/ CloseSmccc \/ UnloadSmccc

Next == Others \/ EfiInit \/ EfiDeinit \/ SmcccTest

Spec == Init /\ [][Next]_vars

-----------------------------------------------------------------------------
InitPlaces == {"device", "absent", "load", "loaded", "appear", "open"}
Places == InitPlaces \union {"idle", "running", "unload", "openSmccc", "unloadSmccc"}

(* The variables have their types.                                          *)
TypeOK ==
  /\ {inTree, loaded, devices, mine, meddled} \subseteq SUBSET Modules
  /\ {others, tests, lateFailures} \subseteq Nat
  /\ place \in Places
  /\ i \in 1 .. 2
  /\ kind \in Kinds \union {None}
  /\ {efi_dev_name, module_name, fd, smcccFd, worked} \subseteq Modules \union {None}
  /\ smcccFlag \in BOOLEAN
  /\ leaked \in [Modules -> Nat]

(* A UEFI test runs on a descriptor of a device that is there, whoever      *)
(* removed modules meanwhile; the descriptors that nobody closes are those  *)
(* of tests that gave up after the driver was opened, one for each, and no  *)
(* other: fwts_framework_run_test() has no deinit() for them.               *)
DescriptorsAccounted ==
  /\ place = "running" /\ kind # "smccc" => fd \in devices
  /\ place = "idle" => fd = None /\ smcccFd = None
  /\ leaked["efi_test"] + leaked["efi_runtime"] + leaked[Smccc] = lateFailures

(* module_name, what the deinit() is to unload, is never a module that was  *)
(* there before the test: fwts loaded it, or someone else did while the     *)
(* test was on its way to it.                                               *)
OnlyOwnModules ==
  place \in {"open", "running", "unload"} /\ kind # "smccc" /\ module_name # None
    => module_name \in mine \union meddled

(* A test finds the driver that an earlier one ran on, although deinit()    *)
(* does not unload it and init() takes a module without device for an       *)
(* error: no init() fails for want of a driver that worked.                 *)
InitFailsForWantOfDriver == place \in InitPlaces \ {"open"} /\ place' = "idle"
WorkingDriverReused == [][InitFailsForWantOfDriver => worked = None]_vars

(* "unload a module": what the deinit() unloads and nobody uses is gone     *)
(* after it.                                                                *)
UnloadRemoves ==
  [][place = "unload" /\ module_name # None /\ ~InUse(module_name)
     => module_name \notin loaded']_vars
=============================================================================
