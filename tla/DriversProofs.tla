--------------------------- MODULE DriversProofs ---------------------------
(***************************************************************************)
(* Proofs about the test drivers, for any kinds of tests and any number of *)
(* tests and of acts of others.                                            *)
(***************************************************************************)
EXTENDS Drivers, TLAPS

\* The values of Name.
EfiNames == {"efi_test", "efi_runtime"}

LEMMA Names ==
  /\ EfiModules[1] = "efi_test" /\ EfiModules[2] = "efi_runtime"
  /\ i \in 1 .. 2 => Name \in EfiNames /\ Name \in Modules /\ (i = 1 => Name = "efi_test")
  /\ None \notin Modules
BY DEF EfiModules, Name, EfiNames, Modules, None, Smccc

-----------------------------------------------------------------------------
(* Types. *)

SystemType == {inTree, loaded, devices, mine, meddled} \subseteq SUBSET Modules
CountType == {others, tests, lateFailures} \subseteq Nat /\ leaked \in [Modules -> Nat]
PlaceType == place \in Places /\ i \in 1 .. 2
FwtsType ==
  /\ kind \in Kinds \union {None}
  /\ {efi_dev_name, module_name, fd, smcccFd, worked} \subseteq Modules \union {None}
  /\ smcccFlag \in BOOLEAN

LEMMA TypeNext == TypeOK /\ [Next]_vars => TypeOK'
<1> SUFFICES ASSUME TypeOK, [Next]_vars PROVE TypeOK'
  OBVIOUS
<1>0. SystemType /\ CountType /\ PlaceType /\ FwtsType
  BY DEF TypeOK, SystemType, CountType, PlaceType, FwtsType
<1>1. SystemType'
  BY <1>0, Names DEF Next, vars, systemVars, efiVars, smcccVars, historyVars, Others, OtherLoads,
     OtherRemoves, DeviceAppears, EfiInit, BeginEfi, LookForDevice, CheckModule, LoadModule,
     ModuleLoads, ModuleLoadFails, ConfirmLoaded, ConfirmDevice, OpenEfi, EfiDeinit, CloseEfi,
     UnloadEfi, ModuleUnload, SmcccTest, BeginSmccc, OpenSmccc, CloseSmccc, UnloadSmccc,
     Frame, Still, SystemType, PlaceType, Modules, Smccc
<1>2. CountType'
  BY <1>0, Names DEF Next, vars, systemVars, efiVars, smcccVars, historyVars, Others, OtherLoads,
     OtherRemoves, DeviceAppears, EfiInit, BeginEfi, LookForDevice, CheckModule, LoadModule,
     ConfirmLoaded, ConfirmDevice, OpenEfi, EfiDeinit, CloseEfi,
     UnloadEfi, SmcccTest, BeginSmccc, OpenSmccc, CloseSmccc, UnloadSmccc,
     Frame, Still, SystemType, CountType
<1>3. PlaceType'
  BY <1>0 DEF Next, vars, systemVars, efiVars, smcccVars, historyVars, Others, OtherLoads,
     OtherRemoves, DeviceAppears, EfiInit, BeginEfi, LookForDevice, CheckModule, LoadModule,
     ConfirmLoaded, ConfirmDevice, OpenEfi, EfiDeinit, CloseEfi,
     UnloadEfi, SmcccTest, BeginSmccc, OpenSmccc, CloseSmccc, UnloadSmccc,
     Frame, Still, Onward, PlaceType, Places, InitPlaces
<1>4. FwtsType'
  BY <1>0, Names DEF Next, vars, systemVars, efiVars, smcccVars, historyVars, Others, OtherLoads,
     OtherRemoves, DeviceAppears, EfiInit, BeginEfi, LookForDevice, CheckModule, LoadModule,
     ConfirmLoaded, ConfirmDevice, OpenEfi, EfiDeinit, CloseEfi,
     UnloadEfi, SmcccTest, BeginSmccc, OpenSmccc, CloseSmccc, UnloadSmccc,
     Frame, Still, FwtsType, PlaceType, SystemType, Modules, Smccc
<1> QED
  BY <1>1, <1>2, <1>3, <1>4 DEF TypeOK, SystemType, CountType, PlaceType, FwtsType

LEMMA TypeInit == Init => TypeOK
<1> SUFFICES ASSUME Init PROVE TypeOK
  OBVIOUS
<1>1. SystemType
  BY DEF Init, SystemType
<1>2. CountType
  BY DEF Init, CountType
<1>3. PlaceType
  BY DEF Init, PlaceType, Places, InitPlaces
<1>4. FwtsType
  BY DEF Init, FwtsType
<1> QED
  BY <1>1, <1>2, <1>3, <1>4 DEF TypeOK, SystemType, CountType, PlaceType, FwtsType

(* The variables of fwts and of the system keep their types.                *)
THEOREM TypeCorrect == Spec => []TypeOK
BY TypeInit, TypeNext, PTL DEF Spec

-----------------------------------------------------------------------------
(* Descriptors. *)

\* Which test the places belong to.
KindFits ==
  /\ place \in InitPlaces \union {"unload"} => kind # "smccc"
  /\ place \in {"openSmccc", "unloadSmccc"} => kind = "smccc"

\* Descriptors are open while a test runs, the one of its driver and no other.
InHand ==
  /\ place # "running" => fd = None /\ smcccFd = None
  /\ place = "running" /\ kind # "smccc" => fd \in devices /\ smcccFd = None
  /\ place = "running" /\ kind = "smccc" => fd = None

LeaksCounted == leaked["efi_test"] + leaked["efi_runtime"] + leaked[Smccc] = lateFailures

LEMMA KindNext == TypeOK /\ KindFits /\ [Next]_vars => KindFits'
<1> SUFFICES ASSUME TypeOK, KindFits, [Next]_vars PROVE KindFits'
  OBVIOUS
<1>1. PlaceType
  BY DEF TypeOK, PlaceType
<1> QED
  BY <1>1, DriversAssumption DEF Next, vars, systemVars, efiVars, smcccVars, historyVars, Others, OtherLoads,
     OtherRemoves, DeviceAppears, EfiInit, BeginEfi, LookForDevice, CheckModule, LoadModule,
     ConfirmLoaded, ConfirmDevice, OpenEfi, EfiDeinit, CloseEfi,
     UnloadEfi, SmcccTest, BeginSmccc, OpenSmccc, CloseSmccc, UnloadSmccc,
     Frame, Still, Onward, KindFits, InitPlaces, PlaceType, Places

LEMMA InHandNext == TypeOK /\ KindFits /\ InHand /\ [Next]_vars => InHand'
<1> SUFFICES ASSUME TypeOK, KindFits, InHand, [Next]_vars PROVE InHand'
  OBVIOUS
<1>1. SystemType /\ PlaceType
  BY DEF TypeOK, SystemType, PlaceType
<1> QED
  BY <1>1, DriversAssumption DEF Next, vars, systemVars, efiVars, smcccVars, historyVars, Others, OtherLoads,
     OtherRemoves, DeviceAppears, EfiInit, BeginEfi, LookForDevice, CheckModule, LoadModule,
     ConfirmLoaded, ConfirmDevice, OpenEfi, EfiDeinit, CloseEfi, UnloadEfi, ModuleUnload,
     SmcccTest, BeginSmccc, OpenSmccc, CloseSmccc, UnloadSmccc, InUse,
     Frame, Still, Onward, KindFits, InHand, InitPlaces, PlaceType, SystemType

LEMMA LeaksNext == TypeOK /\ KindFits /\ LeaksCounted /\ [Next]_vars => LeaksCounted'
<1> SUFFICES ASSUME TypeOK, LeaksCounted, [Next]_vars PROVE LeaksCounted'
  OBVIOUS
<1>1. SystemType /\ CountType
  BY DEF TypeOK, SystemType, CountType
<1>2. CASE UNCHANGED <<leaked, lateFailures>>
  BY <1>2 DEF LeaksCounted
<1>3. CASE /\ efi_dev_name \in devices
           /\ leaked' = [leaked EXCEPT ![efi_dev_name] = @ + 1]
           /\ lateFailures' = lateFailures + 1
  BY <1>1, <1>3 DEF SystemType, CountType, LeaksCounted, Modules, Smccc
<1> QED
  BY <1>2, <1>3 DEF Next, vars, historyVars, Others, OtherLoads,
     OtherRemoves, DeviceAppears, EfiInit, BeginEfi, LookForDevice, CheckModule, LoadModule,
     ConfirmLoaded, ConfirmDevice, OpenEfi, EfiDeinit, CloseEfi,
     UnloadEfi, SmcccTest, BeginSmccc, OpenSmccc, CloseSmccc, UnloadSmccc, Frame

(* A UEFI test runs on a descriptor of a device that is there, and only the *)
(* tests that give up late leave one behind, each a single one.             *)
THEOREM DescriptorsCorrect == Spec => []DescriptorsAccounted
<1>1. Init => KindFits /\ InHand /\ LeaksCounted
  BY DEF Init, KindFits, InHand, LeaksCounted, InitPlaces, Modules, Smccc
<1>2. KindFits /\ InHand /\ LeaksCounted => DescriptorsAccounted
  BY DEF KindFits, InHand, LeaksCounted, DescriptorsAccounted
<1> QED
  BY <1>1, <1>2, TypeInit, TypeNext, KindNext, InHandNext, LeaksNext, PTL DEF Spec

-----------------------------------------------------------------------------
(* Modules. *)

\* Modules that came since the test began or by fwts.
New == mine \union meddled

(* While the driver is looked for no module is to be unloaded, and the      *)
(* modules that were found absent are new if they are there; so is the one   *)
(* whose device is waited for, and so is the one to be unloaded.             *)
FoundAbsent ==
  /\ place \in InitPlaces \ {"open"} => module_name = None
  /\ place = "absent" /\ i = 2 => ("efi_test" \in loaded => "efi_test" \in New)
  /\ place \in {"load", "loaded", "appear"} =>
       \A m \in EfiNames : m \in loaded => m \in New
  /\ place = "appear" => Name \in New
  /\ OnlyOwnModules

LEMMA FoundAbsentNext == TypeOK /\ KindFits /\ FoundAbsent /\ [Next]_vars => FoundAbsent'
<1> SUFFICES ASSUME TypeOK, KindFits, FoundAbsent, [Next]_vars PROVE FoundAbsent'
  OBVIOUS
<1>1. PlaceType
  BY DEF TypeOK, PlaceType
<1> USE DEF FoundAbsent, OnlyOwnModules, New, InitPlaces
<1>2. ASSUME UNCHANGED <<place, i, kind, module_name>>, loaded' \subseteq loaded \union meddled',
             New \subseteq New'
      PROVE FoundAbsent'
  BY <1>2, <1>1 DEF PlaceType, EfiNames, Name
<1>3. CASE Others \/ UNCHANGED vars
  BY <1>2, <1>3 DEF Others, OtherLoads, OtherRemoves, DeviceAppears, vars, systemVars,
     efiVars, historyVars
<1>4. ASSUME NEW k \in Kinds, BeginEfi(k) PROVE FoundAbsent'
  BY <1>4 DEF BeginEfi, efiVars
<1>5. CASE LookForDevice
  BY <1>5 DEF LookForDevice, Frame, Still, Onward
<1>6. CASE CheckModule
  BY <1>6, <1>1, Names DEF CheckModule, Frame, Still, Onward, PlaceType, EfiNames, Name
<1>7. CASE LoadModule
  BY <1>7, <1>1, Names DEF LoadModule, ModuleLoads, ModuleLoadFails, Frame, Onward, PlaceType
<1>8. CASE ConfirmLoaded
  BY <1>8, <1>1, Names DEF ConfirmLoaded, Frame, Still, Onward, PlaceType, Name
<1>9. CASE ConfirmDevice
  BY <1>9 DEF ConfirmDevice, Frame, Still, Onward
<1>10. CASE OpenEfi
  BY <1>10 DEF OpenEfi, Still
<1>11. CASE EfiDeinit
  BY <1>11 DEF EfiDeinit, CloseEfi, UnloadEfi, ModuleUnload, Still
<1>12. CASE SmcccTest
  BY <1>12 DEF SmcccTest, BeginSmccc, OpenSmccc, CloseSmccc, UnloadSmccc, efiVars, KindFits
<1> QED
  BY <1>3, <1>4, <1>5, <1>6, <1>7, <1>8, <1>9, <1>10, <1>11, <1>12 DEF Next, EfiInit

(* No deinit() takes for its own a module that was there before the test.   *)
THEOREM ModulesCorrect == Spec => []OnlyOwnModules
<1>1. Init => KindFits /\ FoundAbsent
  BY DEF Init, KindFits, FoundAbsent, OnlyOwnModules, InitPlaces
<1>2. FoundAbsent => OnlyOwnModules
  BY DEF FoundAbsent
<1> QED
  BY <1>1, <1>2, TypeInit, TypeNext, KindNext, FoundAbsentNext, PTL DEF Spec

-----------------------------------------------------------------------------
(* The driver that worked. *)

\* It is still there, and the search has not passed it.
StillThere ==
  /\ worked # None => worked \in devices \intersect EfiNames
  /\ place = "open" => efi_dev_name \in EfiNames
  /\ place = "device" /\ i = 2 => worked # "efi_test"
  /\ place \in {"absent", "load", "loaded", "appear"} => worked = None

LEMMA StillThereNext == TypeOK /\ StillThere /\ [Next]_vars => StillThere'
<1> SUFFICES ASSUME TypeOK, StillThere, [Next]_vars PROVE StillThere'
  OBVIOUS
<1>1. PlaceType /\ Name \in EfiNames /\ (i = 1 => Name = "efi_test")
         /\ (i = 2 => Name = "efi_runtime")
  BY Names DEF TypeOK, PlaceType, Name
<1> USE DEF StillThere
<1>2. CASE UNCHANGED vars
  BY <1>2 DEF vars, systemVars, efiVars, historyVars
<1>3. ASSUME NEW m \in Modules, OtherLoads(m) \/ OtherRemoves(m) \/ DeviceAppears(m)
      PROVE  StillThere'
  <2>1. CASE OtherLoads(m)
    BY <2>1 DEF OtherLoads, efiVars
  <2>2. CASE OtherRemoves(m)
    BY <2>2 DEF OtherRemoves, efiVars, None
  <2>3. CASE DeviceAppears(m)
    BY <2>3 DEF DeviceAppears, efiVars, historyVars
  <2> QED
    BY <1>3, <2>1, <2>2, <2>3
<1>8. ASSUME NEW k \in Kinds, BeginEfi(k) PROVE StillThere'
  <2>1. UNCHANGED <<worked, devices>> /\ place = "idle"
    BY <1>8 DEF BeginEfi, systemVars
  <2>2. CASE UNCHANGED <<place, i, efiVars>>
    BY <2>1, <2>2
  <2>3. CASE place' = "device" /\ i' = 1
    BY <2>1, <2>3
  <2> QED
    BY <1>8, <2>2, <2>3 DEF BeginEfi
<1>4. CASE LookForDevice
  <2>1. UNCHANGED <<worked, devices>> /\ place = "device" /\ i \in 1 .. 2
    BY <1>4, <1>1 DEF LookForDevice, Frame, Still, PlaceType
  <2>2. CASE Name \in devices
    <3>1. place' = "open" /\ efi_dev_name' = Name
      BY <1>4, <2>2 DEF LookForDevice
    <3> QED
      BY <2>1, <3>1, <1>1
  <2>3. CASE Name \notin devices /\ i = 1
    <3>1. place' = "device" /\ i' = 2
      BY <1>4, <2>3 DEF LookForDevice, Onward
    <3>2. worked # "efi_test"
      BY <1>1, <2>3, Names DEF None, Modules
    <3> QED
      BY <2>1, <3>1, <3>2
  <2>4. CASE Name \notin devices /\ i = 2
    <3>1. place' = "absent" /\ i' = 1
      BY <1>4, <2>4 DEF LookForDevice, Onward
    <3>2. worked = None
      BY <1>1, <2>1, <2>4 DEF EfiNames
    <3> QED
      BY <2>1, <3>1, <3>2
  <2> QED
    BY <2>1, <2>2, <2>3, <2>4
<1>5. CASE CheckModule \/ LoadModule \/ ConfirmLoaded \/ ConfirmDevice
  BY <1>5, <1>1 DEF CheckModule, LoadModule, ConfirmLoaded, ConfirmDevice, Frame, Still, Onward
<1>6. CASE OpenEfi
  BY <1>6 DEF OpenEfi, Still
<1>7. CASE EfiDeinit \/ SmcccTest
  BY <1>7 DEF EfiDeinit, CloseEfi, UnloadEfi, ModuleUnload, Still,
     SmcccTest, BeginSmccc, OpenSmccc, CloseSmccc, UnloadSmccc, efiVars, systemVars, historyVars
<1> QED
  BY <1>2, <1>3, <1>4, <1>5, <1>6, <1>7, <1>8 DEF Next, EfiInit, Others

(* No init() fails for want of a driver that an earlier test ran on.        *)
THEOREM DriverIsReused == Spec => WorkingDriverReused
<1>1. Init => StillThere
  BY DEF Init, StillThere
<1>2. TypeOK /\ StillThere /\ [Next]_vars => [InitFailsForWantOfDriver => worked = None]_vars
  <2> SUFFICES ASSUME TypeOK, StillThere, Next, InitFailsForWantOfDriver PROVE worked = None
    OBVIOUS
  <2>1. place = "device" => place' # "idle"
    BY DEF Next, Others, OtherLoads, OtherRemoves, DeviceAppears, EfiInit, BeginEfi, LookForDevice,
       CheckModule, LoadModule, ConfirmLoaded, ConfirmDevice, OpenEfi, EfiDeinit, CloseEfi, UnloadEfi,
       SmcccTest, BeginSmccc, OpenSmccc, CloseSmccc, UnloadSmccc, Onward
  <2> QED
    BY <2>1 DEF StillThere, InitFailsForWantOfDriver, InitPlaces
<1> QED
  BY <1>1, <1>2, TypeInit, TypeNext, StillThereNext, PTL DEF Spec, WorkingDriverReused
=============================================================================
