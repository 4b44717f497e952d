----------------------------- MODULE SleepTests -----------------------------
(***************************************************************************)
(* The tests s3 and s4 on one machine, one after the other or either       *)
(* alone: the settings they change and put back, the cycles, the rules     *)
(* that end or repeat them, and what they claim in the end.                *)
(***************************************************************************)
EXTENDS Suspend

CONSTANTS
  Cycles,      \* s3_multiple and s4_multiple
  MinDelay,    \* seconds awake between cycles, from
  MaxDelay,    \* ... to
  Delta,       \* ... in steps of
  SleepTypes,  \* --s3-sleep-type: "none" when it was not given
  HasHook,     \* --s3-resume-hook was given
  Hybrid,      \* --s3-hybrid was given
  Checks,      \* checks of the machine after a cycle that may find something
  Machines     \* settings of the machine under /sys before the tests

Settings == {"pm_debug", "mem_sleep", "s0ix_warn", "buffer_size_kb", "disk"}

\* What a machine has of them: s0ix_warn is a boolean of the kernel, and no
\* text is the name of a setting or stands for a file that cannot be read.
Ordinary(m) ==
  /\ DOMAIN m \subseteq Settings
  /\ \A file \in DOMAIN m : m[file] \notin Settings \union {"-1"}
  /\ "s0ix_warn" \in DOMAIN m => m["s0ix_warn"] \in {"Y", "N"}

ASSUME SleepTestsAssumption ==
  /\ Cycles \in Nat
  /\ MinDelay \in Nat /\ MaxDelay \in Nat /\ MinDelay <= MaxDelay
  /\ Delta \in Nat \ {0}
  /\ HasHook \in BOOLEAN /\ Hybrid \in BOOLEAN
  /\ Checks \subseteq {"hw", "s2idle", "klog", "oops"}
  /\ \A m \in Machines : Ordinary(m)

VARIABLES
  test,      \* the test that is running, "none" after the last
  files,     \* what fwts can write: /sys settings, and its working directory
  saved,     \* settings as a test found them
  cycle,     \* cycles begun
  awake,     \* awake_delay
  errors,    \* the error counters that are not zero
  retried,   \* s4 shrank the tracing buffer
  retrying,  \* s4_hibernate() runs for the second time in a cycle
  aborted,   \* s4 returned without the end of s4_test_multiple()
  (* History variables. *)
  original,  \* files at the start
  cut        \* the test has cycles in which the machine did not sleep through:
             \* "asked", or "unasked" when s3 did not get as far as to ask it to

testVars == <<test, files, saved, cycle, awake, errors, retried, retrying,
              aborted, original, cut>>
vars == <<pc, suspendVars, testVars>>

Counters == Checks \union {"pm", "hook"}

\* fwts_get(): "-1" stands for a file that cannot be read.
Get(file) == IF file \in DOMAIN files THEN files[file] ELSE "-1"

\* fwts_set(): the kernel makes no files, a working directory does.
Set(fs, file, text) ==
  IF file \in Settings \ DOMAIN fs THEN fs
  ELSE [name \in DOMAIN fs \union {file} |-> IF name = file THEN text ELSE fs[name]]

\* The kernel takes back the sleep type it had; others it may turn down.
SetSleepType(fs, type) ==
  {Set(fs, "mem_sleep", type)} \union
    (IF "mem_sleep" \in DOMAIN original /\ original["mem_sleep"] = type THEN {} ELSE {fs})

\* Longer by a step, and the shortest again after the longest.
NextAwake(delay) == IF delay + Delta > MaxDelay THEN MinDelay ELSE delay + Delta

Init ==
  /\ SuspendInit
  /\ pc = "init"
  /\ test \in {"s3", "s4"}
  /\ files \in Machines
  /\ saved = [file \in Settings |-> "-1"]
  /\ cycle = 0
  /\ awake = MinDelay
  /\ errors = {}
  /\ retried = FALSE
  /\ retrying = FALSE
  /\ aborted = FALSE
  /\ original = files
  /\ cut = {}

At(name, place) == test = name /\ Running({place})

NextTest ==
  /\ test' = IF test = "s3" THEN "s4" ELSE "none"
  /\ pc' = IF test = "s3" THEN "init" ELSE "done"

-----------------------------------------------------------------------------
(* Neither test runs when the wake alarm does not fire, and s4 needs swap. *)
CannotRun ==
  /\ Running({"init"})
  /\ NextTest
  /\ UNCHANGED <<suspendVars, files, saved, cycle, awake, errors, retried,
                 retrying, aborted, original, cut>>

(* s3_init(): the sleep type in force and whether the warning is on are     *)
(* noted, then both are set.                                                 *)
S3Init ==
  /\ At("s3", "init")
  /\ saved' = [saved EXCEPT
       !.mem_sleep = IF Get("mem_sleep") = "s2idle" THEN "s2idle" ELSE "deep",
       !.s0ix_warn = Get("s0ix_warn")]
  /\ \E type \in SleepTypes :
       LET warned == IF Get("s0ix_warn") = "N" THEN Set(files, "s0ix_warn", "Y")
                                               ELSE files
       IN  files' \in IF type = "none" THEN {warned} ELSE SetSleepType(warned, type)
  /\ pc' = "begin"
  /\ UNCHANGED <<suspendVars, test, cycle, awake, errors, retried, retrying,
                 aborted, original, cut>>

S4Init ==
  /\ At("s4", "init")
  /\ pc' = "begin"
  /\ UNCHANGED <<suspendVars, testVars>>

\* The start of s3_test_multiple() and s4_test_multiple().
Begin ==
  /\ Running({"begin"})
  /\ saved' = [saved EXCEPT !.pm_debug = Get("pm_debug"), !.buffer_size_kb = "-1"]
  /\ files' = Set(files, "pm_debug", "1")
  /\ cycle' = 0
  /\ awake' = MinDelay
  /\ errors' = {}
  /\ cut' = {}
  /\ pc' = "cycle"
  /\ UNCHANGED <<suspendVars, test, retried, retrying, aborted, original>>

BeginCycle ==
  /\ Running({"cycle"})
  /\ retrying \/ cycle < Cycles
  /\ cycle' = IF retrying THEN cycle ELSE cycle + 1
  /\ Prepare
  /\ UNCHANGED <<test, files, saved, awake, errors, retried, retrying,
                 aborted, original, cut>>

(***************************************************************************)
(* s3.                                                                     *)
(***************************************************************************)

(* fwts_sysfs_do_suspend() for hybrid sleep writes to /sys/power/disk first, *)
(* and asks the machine to sleep only when that could be written.            *)
DirectHybrid ==
  /\ test = "s3" /\ Hybrid
  /\ method = "sysfs"
  /\ \/ /\ DirectSleep
        /\ "disk" \in DOMAIN files
        /\ files' = Set(files, "disk", "suspend")
     \/ /\ DirectFails
        /\ files' \in {files, Set(files, "disk", "suspend")}
  /\ UNCHANGED <<test, saved, cycle, awake, errors, retried, retrying,
                 aborted, original, cut>>

\* Any other step of a method.
MethodOnly ==
  /\ MethodStep
  /\ ~(test = "s3" /\ Hybrid /\ method = "sysfs" /\ pc = "call")
  /\ UNCHANGED testVars

\* The bug of a duration that is not compared with the delay.
S3MethodFailedOnly == duration > 2 * Delay \/ status > 0

\* ShortSuspend, LongSuspend and the three PMAction failures.
S3MethodFailed == duration < Delay \/ duration > 2 * Delay \/ status > 0

\* The bug of a failed hook that is only logged.
S3StopLate(found) == cycle = Cycles

\* When no cycle follows: the hook failed, or it was the last.
S3Stop(found) == "hook" \in found \/ cycle = Cycles

\* The rest of s3_do_suspend_resume() and of the loop over the cycles.
S3Resumed ==
  /\ At("s3", "resumed")
  /\ \E seen \in SUBSET Checks, hook \in SUBSET (IF HasHook THEN {"hook"} ELSE {}) :
       LET found == errors \union seen \union hook
                           \union (IF S3MethodFailed THEN {"pm"} ELSE {})
       IN  /\ hook # {} => seen \cap {"klog", "oops"} = {}
           /\ errors' = found
           /\ pc' = IF S3Stop(found) THEN "report" ELSE "cycle"
           /\ awake' = IF "hook" \in found THEN awake ELSE NextAwake(awake)
  /\ cut' = cut \union (IF rest < Delay THEN {"asked"} ELSE {})
  /\ EndCall
  /\ UNCHANGED <<test, files, saved, cycle, retried, retrying,
                 aborted, original>>

\* Out of memory ends the cycles.
S3NoMemory ==
  /\ At("s3", "cycle")
  /\ cycle < Cycles
  /\ NoMemory
  /\ pc' = "report"
  /\ cut' = cut \union {"unasked"}
  /\ UNCHANGED <<test, files, saved, cycle, awake, errors, retried, retrying,
                 aborted, original>>

\* Without a proxy the cycle does nothing but to look at the kernel log, and
\* the next one is begun.
S3NoProxy ==
  /\ At("s3", "cycle")
  /\ cycle < Cycles
  /\ NoProxy
  /\ cycle' = cycle + 1
  /\ awake' = NextAwake(awake)
  /\ \E seen \in SUBSET (Checks \ {"hw", "s2idle"}) : errors' = errors \union seen
  /\ pc' = IF cycle' = Cycles THEN "report" ELSE "cycle"
  /\ cut' = cut \union {"unasked"}
  /\ UNCHANGED <<test, files, saved, retried, retrying, aborted, original>>

\* The bug of settings that stay as the test made them.
S3RestoreDebugOnly == {Set(files, "pm_debug", saved.pm_debug)}

\* The end of s3_test_multiple() puts back pm_debug, s3_deinit() the rest.
S3Restore ==
  LET debug == IF saved.pm_debug # "-1" THEN Set(files, "pm_debug", saved.pm_debug)
                                        ELSE files
  IN  {IF Get("s0ix_warn") = "Y" /\ saved.s0ix_warn # "Y"
       THEN Set(sleep, "s0ix_warn", "N") ELSE sleep :
          sleep \in SetSleepType(debug, saved.mem_sleep)}

S3Report ==
  /\ test = "s3"
  /\ Running({"report"}) \/ (Running({"cycle"}) /\ cycle >= Cycles)
  /\ files' \in S3Restore
  /\ NextTest
  /\ UNCHANGED <<suspendVars, saved, cycle, awake, errors, retried, retrying,
                 aborted, original, cut>>

(***************************************************************************)
(* s4.                                                                     *)
(***************************************************************************)

Big == {"8192"}    \* tracing buffer sizes above 4096

\* What the method says, and what the kernel log lacks.
S4MethodFailed(log) == status > 0 \/ log # {}

(* What the kernel log may lack: "alloc", the line that says the image was  *)
(* allocated; "other", one of the other four.  A machine that did not sleep  *)
(* leaves none of the lines about the image restored.                        *)
S4Log == IF rest = 0 THEN {{"other"}, {"alloc", "other"}}
                     ELSE SUBSET {"alloc", "other"}

\* One s4_hibernate(), and what the loop makes of it.
S4Resumed ==
  /\ At("s4", "resumed")
  /\ \E log \in S4Log, seen \in SUBSET (Checks \ {"s2idle"}) :
       LET size == Get("buffer_size_kb")
           alloc == "alloc" \in log
           again == alloc /\ ~retrying /\ ~retried /\ size \in Big
       IN  /\ errors' = errors \union seen \union
                        (IF S4MethodFailed(log) THEN {"pm"} ELSE {})
           /\ saved' = IF alloc /\ ~retrying
                       THEN [saved EXCEPT !.buffer_size_kb = size] ELSE saved
           /\ retrying' = again
           /\ retried' = (retried \/ again)
           /\ files' = IF again THEN Set(files, "1", "buffer_size_kb") ELSE files
           /\ pc' = IF retrying /\ alloc THEN "report" ELSE "cycle"
           /\ awake' = IF again \/ (retrying /\ alloc) THEN awake ELSE NextAwake(awake)
  /\ cut' = cut \union (IF rest = 0 THEN {"asked"} ELSE {})
  /\ EndCall
  /\ UNCHANGED <<test, cycle, aborted, original>>

\* s4_hibernate() fails: the first time in a cycle the test returns at once.
S4Fails ==
  /\ At("s4", "cycle")
  /\ retrying \/ cycle < Cycles
  /\ NoMemory \/ NoProxy
  /\ retrying' = FALSE
  /\ IF retrying
     THEN pc' = "report" /\ UNCHANGED <<test, aborted>>
     ELSE NextTest /\ aborted' = TRUE
  /\ cut' = cut \union {"asked"}
  /\ UNCHANGED <<files, saved, cycle, awake, errors, retried, original>>

\* The end of s4_test_multiple().
S4Report ==
  /\ test = "s4"
  /\ \/ Running({"report"})
     \/ Running({"cycle"}) /\ cycle >= Cycles /\ ~retrying
  /\ LET debug == IF saved.pm_debug # "-1"
                  THEN Set(files, "pm_debug", saved.pm_debug) ELSE files
     IN  files' = IF saved.buffer_size_kb # "-1"
                  THEN Set(debug, saved.buffer_size_kb, "buffer_size_kb")
                  ELSE debug
  /\ NextTest
  /\ UNCHANGED <<suspendVars, saved, cycle, awake, errors, retried, retrying,
                 aborted, original, cut>>

-----------------------------------------------------------------------------
Program ==
  \/ CannotRun \/ S3Init \/ S4Init \/ Begin \/ BeginCycle
  \/ S3Resumed \/ S3NoMemory \/ S3NoProxy \/ S3Report
  \/ S4Resumed \/ S4Fails \/ S4Report
  \/ MethodOnly \/ DirectHybrid

Terminating == pc \in {"done", "crashed"} /\ UNCHANGED vars

Next ==
  \/ Program
  \/ Environment /\ UNCHANGED testVars
  \/ Terminating

(* fwts is scheduled; the machine does go to sleep when it said so, and the *)
(* alarm, once set, wakes it.  Nothing is assumed of people, devices and     *)
(* other users of logind.                                                    *)
Spec ==
  /\ Init /\ [][Next]_vars
  /\ WF_vars(Program)
  /\ WF_vars(FallAsleep /\ UNCHANGED testVars)
  /\ WF_vars(AlarmWakes /\ UNCHANGED testVars)
-----------------------------------------------------------------------------
(* The variables have their types: the time awake between cycles stays      *)
(* between --s3-min-delay and --s3-max-delay.                                *)
TypeOK ==
  /\ SuspendTypeOK
  /\ test \in {"s3", "s4", "none"}
  /\ pc \in {"init", "begin", "cycle", "call", "loop", "wait", "resumed",
             "report", "done", "crashed"}
  /\ DOMAIN saved = Settings
  /\ cycle \in 0 .. Cycles
  /\ awake \in MinDelay .. MaxDelay
  /\ errors \subseteq Counters
  /\ {retried, retrying, aborted} \subseteq BOOLEAN
  /\ cut \subseteq {"asked", "unasked"}

(* The machine is left with the settings it had, whatever failed on the way *)
(* and whichever tests ran, but for three: when s4 gives up at a hibernate() *)
(* that could not be tried, pm_debug_messages stays on (s4.c:391); a sleep   *)
(* type that is neither "s2idle" nor "deep" is forgotten (s3.c:207); and     *)
(* hybrid sleep leaves its "suspend" in /sys/power/disk                      *)
(* (fwts_pm_method.c:422).                                                   *)
SettingsRestored ==
  pc = "done" =>
    \A file \in DOMAIN original :
      \/ files[file] = original[file]
      \/ file = "pm_debug" /\ aborted
      \/ file = "mem_sleep" /\ original[file] \notin {"s2idle", "deep"}
      \/ file = "disk" /\ Hybrid /\ method = "sysfs"

(* Sleep types and hybrid sleep included, every setting that a test which    *)
(* came to its end had changed is as it was.                                 *)
SleepTypeRestored ==
  pc = "done" /\ "mem_sleep" \in DOMAIN original =>
    files["mem_sleep"] = original["mem_sleep"]
DiskRestored ==
  pc = "done" /\ "disk" \in DOMAIN original => files["disk"] = original["disk"]

(* A cycle in which the machine did not sleep through, by whatever method   *)
(* and for whatever reason, is among the errors of the test, or ends it      *)
(* without a verdict: no "No PM related suspend issues detected" comes of    *)
(* it.  Only an s3 that could not so much as ask for the sleep, for want of  *)
(* a D-Bus proxy or of memory, does not count the cycle (s3.c:485 and 849).  *)
UnsleptIsCounted == "asked" \in cut => "pm" \in errors \/ aborted

(* Of all cycles: s3 passes "Found no errors doing %d suspend/resume          *)
(* cycle(s)" (s3.c:930) only when the machine slept through all of them.     *)
NoErrorsMeansSlept ==
  cut # {} => errors \cap {"klog", "pm", "hw", "oops"} # {} \/ aborted

(* In each cycle the machine sleeps with a wake alarm that was set for it,  *)
(* early wake-ups and retries included, unless the alarm could not be set or *)
(* the loop was ended by the end of somebody else's sleep while the machine  *)
(* was still to sleep.  The alarm may have gone off before the machine was   *)
(* asleep.                                                                   *)
SleepsWithAlarm ==
  machine = "asleep" =>
    alarm \in {"set", "spent"} \/ faulted \cap {"alarm", "foreign", "early"} # {}

(* The alarm is also still to come.                                          *)
AlarmToCome ==
  machine = "asleep" =>
    alarm = "set" \/ faulted \cap {"alarm", "foreign", "early"} # {}

(* Once a resume hook failed, s3 begins no further cycle ("Failures will    *)
(* abort subsequent S3 test iterations").                                    *)
HookStopsCycles ==
  [][test = "s3" /\ test' = "s3" /\ "hook" \in errors => cycle' = cycle]_vars

(* The tests come to their end, unless logind refuses without a signal, the *)
(* alarm cannot be set or goes off before the machine is asleep, or freed    *)
(* memory is used.                                                           *)
SleepEnds ==
  \/ <>(pc = "done")
  \/ <>(faulted \cap {"refusal", "alarm", "foreign", "early"} # {})
  \/ <>(machine = "asleep" /\ alarm = "spent")

(* "shrink tracing buffer size and retry": hibernation is tried again with  *)
(* a tracing buffer of one kilobyte.                                         *)
ShrunkForRetry == retrying => Get("buffer_size_kb") = "1"
=============================================================================
