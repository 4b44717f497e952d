------------------------------- MODULE Suspend -------------------------------
(***************************************************************************)
(* Putting the machine to sleep and waiting for it to come back, as the S3 *)
(* and S4 tests do it: the wake alarm, then logind (a request from inside  *)
(* a GLib main loop, which a PrepareForSleep signal ends), or a write to   *)
(* /sys/power/state, or a command of pm-utils.                             *)
(*                                                                         *)
(* The machine, logind and other users of logind are the environment.      *)
(* Times are in seconds and count up to Cap.                               *)
(***************************************************************************)
EXTENDS Integers, Sequences, FiniteSets

CONSTANTS
  Methods,    \* the power methods the detection may find, or the user choose
  Delay,      \* seconds from setting the wake alarm to its going off
  FailTimes,  \* seconds an attempt that is turned down may take
  Faults      \* what may go wrong: "alarm", "refusal", "foreign", "early",
              \* "proxy", "memory"

\* Longer than any duration the tests accept.
Cap == 2 * Delay + 1

ASSUME SuspendAssumption ==
  /\ Methods \subseteq {"logind", "sysfs", "pmutils"}
  /\ Delay \in Nat \ {0}
  /\ FailTimes \subseteq 0 .. Cap
  /\ Faults \subseteq {"alarm", "refusal", "foreign", "early", "proxy", "memory"}

VARIABLES
  pc,        \* where the test that is running stands
  method,    \* fw->pm_method, kept from one cycle and test to the next
  alarm,     \* "set", "off", or "spent": it went off while the machine was
             \* not asleep, in the call that is running
  machine,   \* "awake", "entering" (asked to sleep) or "asleep"
  timer,     \* timeout sources of logind_do(): "own", or "orphan" when the
             \* fwts_pm_method_vars it was given is freed
  signals,   \* PrepareForSleep signals on their way to the main loop
  began,     \* t_start was set
  seconds,   \* time since then
  status,    \* what the method returned
  duration,  \* the duration it reported
  (* History variables. *)
  rest,      \* seconds the machine slept since the method was called
  faulted    \* what went wrong so far

suspendVars ==
  <<method, alarm, machine, timer, signals, began, seconds, status, duration,
    rest, faulted>>

Plus(s, d) == IF s + d > Cap THEN Cap ELSE s + d

\* fwts runs unless the whole machine sleeps.
Running(places) == pc \in places /\ machine # "asleep"

\* The faults the properties tell apart are remembered.
MayFail(fault) == fault \in Faults /\ faulted' = faulted \union {fault}

SuspendTypeOK ==
  /\ method \in Methods \union {"undefined"}
  /\ alarm \in {"off", "set", "spent"}
  /\ machine \in {"awake", "entering", "asleep"}
  /\ timer \subseteq {"own", "orphan"}
  /\ signals \in Seq(BOOLEAN)
  /\ began \in BOOLEAN
  /\ {seconds, duration, rest} \subseteq 0 .. Cap
  /\ status \in {-1, 0, 1, 128, 129}
  /\ faulted \subseteq Faults

SuspendInit ==
  /\ method \in Methods \union {"undefined"}
  /\ alarm = "off"
  /\ machine = "awake"
  /\ timer = {}
  /\ signals = <<>>
  /\ began = FALSE
  /\ seconds = 0
  /\ status = 0
  /\ duration = 0
  /\ rest = 0
  /\ faulted = {}

-----------------------------------------------------------------------------
\* The method once it has been detected; it is looked for only once.
Detected == IF method = "undefined" THEN Methods ELSE {method}

\* fwts_wakealarm_trigger(), whose result the tests ignore.
SetAlarm ==
  \/ alarm' = "set" /\ UNCHANGED faulted
  \/ UNCHANGED alarm /\ MayFail("alarm")

\* The bug of an alarm that is set for the first cycle only.
PrepareOnce ==
  /\ method' \in Detected
  /\ IF method = "undefined" THEN SetAlarm ELSE UNCHANGED <<alarm, faulted>>
  /\ pc' = "call"
  /\ rest' = 0
  /\ UNCHANGED <<machine, timer, signals, began, seconds, status, duration>>

\* The start of s3_do_suspend_resume() and s4_hibernate(): a method, its
\* command, the alarm.
Prepare ==
  /\ method' \in Detected
  /\ SetAlarm
  /\ pc' = "call"
  /\ rest' = 0
  /\ UNCHANGED <<machine, timer, signals, began, seconds, status, duration>>

\* No D-Bus proxy for logind: before the alarm is set.
NoProxy ==
  /\ method' \in Detected
  /\ method' = "logind"
  /\ "proxy" \in Faults
  /\ UNCHANGED <<alarm, machine, timer, signals, began, seconds, status,
                 duration, rest, faulted>>

\* Before the method is looked for, or for its command.
NoMemory ==
  /\ method' \in {method} \union Detected
  /\ "memory" \in Faults
  /\ UNCHANGED <<alarm, machine, timer, signals, began, seconds, status,
                 duration, rest, faulted>>

(***************************************************************************)
(* logind.                                                                 *)
(***************************************************************************)

\* Subscribe, add the timeout and run the main loop.
CallLogind ==
  /\ Running({"call"})
  /\ method = "logind"
  /\ pc' = "loop"
  /\ timer' = timer \union {"own"}
  /\ signals' = <<>>
  /\ began' = FALSE
  /\ UNCHANGED <<method, alarm, machine, seconds, status, duration, rest,
                 faulted>>

\* No memory for the action or the loop: a duration of 0, which is a failure.
LogindGivesUp ==
  /\ Running({"call"})
  /\ method = "logind"
  /\ "memory" \in Faults
  /\ duration' = 0
  /\ status' = 1
  /\ pc' = "resumed"
  /\ UNCHANGED <<method, alarm, machine, timer, signals, began, seconds, rest,
                 faulted>>

(* logind_do(), which fires once.  logind accepts, or announces a sleep and *)
(* its end without sleeping, or answers with an error and no signal: which   *)
(* it also does while an earlier request is under way.                       *)
LogindDo ==
  /\ Running({"loop"})
  /\ "own" \in timer
  /\ timer' = timer \ {"own"}
  /\ began' = TRUE
  /\ \/ /\ machine = "awake"
        /\ machine' = "entering"
        /\ seconds' = 0
        /\ signals' = Append(signals, TRUE)
        /\ UNCHANGED faulted
     \/ /\ machine = "awake"
        /\ seconds' \in FailTimes
        /\ signals' = signals \o <<TRUE, FALSE>>
        /\ UNCHANGED <<machine, faulted>>
     \/ /\ IF machine = "entering" THEN UNCHANGED faulted ELSE MayFail("refusal")
        /\ seconds' = 0
        /\ UNCHANGED <<machine, signals>>
  /\ UNCHANGED <<pc, method, alarm, status, duration, rest>>

\* The bug of a handler that takes all signals for one.
SleepSignalTakesAll ==
  /\ Running({"loop"})
  /\ signals # <<>> /\ Head(signals)
  /\ signals' = <<>>
  /\ UNCHANGED <<pc, method, alarm, machine, timer, began, seconds, status,
                 duration, rest, faulted>>

\* PrepareForSleep(true): nothing to do.
SleepSignal ==
  /\ Running({"loop"})
  /\ signals # <<>> /\ Head(signals)
  /\ signals' = Tail(signals)
  /\ UNCHANGED <<pc, method, alarm, machine, timer, began, seconds, status,
                 duration, rest, faulted>>

(* PrepareForSleep(false): the loop ends and the duration is t_end -        *)
(* t_start, where t_start is 1970 when logind_do() has not been called yet.  *)
ResumeSignal ==
  /\ Running({"loop"})
  /\ signals # <<>> /\ ~Head(signals)
  /\ signals' = <<>>
  /\ duration' = IF began THEN seconds ELSE Cap
  /\ status' = IF duration' > 0 THEN 0 ELSE 1
  /\ pc' = "resumed"
  /\ UNCHANGED <<method, alarm, machine, timer, began, seconds, rest, faulted>>

\* The timeout of an earlier call fires: it reads freed memory.
OrphanFires ==
  /\ Running({"loop"})
  /\ "orphan" \in timer
  /\ pc' = "crashed"
  /\ UNCHANGED suspendVars

\* Somebody else's sleep ends.
ForeignResume ==
  /\ Running({"loop"})
  /\ signals = <<>>
  /\ signals' = <<FALSE>>
  /\ MayFail(IF "own" \in timer THEN "early" ELSE "foreign")
  /\ UNCHANGED <<pc, method, alarm, machine, timer, began, seconds, status,
                 duration, rest>>

(* free_pm_method_vars(), with a timeout that has not fired still attached  *)
(* to the main context, and the locals of the caller gone.                   *)
EndCall ==
  /\ timer' = IF "own" \in timer THEN {"orphan"} ELSE timer
  /\ began' = FALSE
  /\ seconds' = 0
  /\ status' = 0
  /\ duration' = 0
  /\ rest' = 0
  /\ alarm' = IF alarm = "spent" THEN "off" ELSE alarm
  /\ UNCHANGED <<method, machine, signals, faulted>>

(***************************************************************************)
(* sysfs and pm-utils.                                                     *)
(***************************************************************************)
Accepted(m) == IF m = "sysfs" THEN {0} ELSE {0, 1, 128, 129}
Rejected(m) == IF m = "sysfs" THEN {-1} ELSE {0, 1, 128, 129}

DirectSleep ==
  /\ Running({"call"})
  /\ method # "logind"
  /\ machine = "awake"
  /\ machine' = "entering"
  /\ began' = TRUE
  /\ seconds' = 0
  /\ pc' = "wait"
  /\ UNCHANGED <<method, alarm, timer, signals, status, duration, rest, faulted>>

DirectFails ==
  /\ Running({"call"})
  /\ method # "logind"
  /\ began' = TRUE
  /\ seconds' \in FailTimes
  /\ duration' = seconds'
  /\ status' \in Rejected(method)
  /\ pc' = "resumed"
  /\ UNCHANGED <<method, alarm, machine, timer, signals, rest, faulted>>

DirectResumes ==
  /\ Running({"wait"})
  /\ machine = "awake"
  /\ duration' = seconds
  /\ status' \in Accepted(method)
  /\ pc' = "resumed"
  /\ UNCHANGED <<method, alarm, machine, timer, signals, began, seconds, rest,
                 faulted>>

(***************************************************************************)
(* The machine.                                                            *)
(***************************************************************************)
FallAsleep ==
  /\ machine = "entering"
  /\ machine' = "asleep"
  /\ UNCHANGED <<pc, method, alarm, timer, signals, began, seconds, status,
                 duration, rest, faulted>>

Wake(d) ==
  /\ machine = "asleep"
  /\ machine' = "awake"
  /\ seconds' = Plus(seconds, d)
  /\ rest' = Plus(rest, d)
  /\ signals' = IF pc = "loop" THEN Append(signals, FALSE) ELSE signals
  /\ UNCHANGED <<pc, method, timer, began, status, duration, faulted>>

\* The alarm wakes the machine, in time or late.
AlarmWakes ==
  /\ alarm = "set"
  /\ alarm' = "off"
  /\ \E d \in Delay .. Cap : Wake(d)

\* A person or a device wakes it.
OtherWakes ==
  /\ \E d \in 1 .. Cap : (alarm = "set" => d < Delay) /\ Wake(d)
  /\ UNCHANGED alarm

(* The alarm goes off while the machine is not asleep: it woke before, or  *)
(* has yet to sleep, since nobody says how long logind or a command takes.   *)
AlarmUnheard ==
  /\ machine # "asleep"
  /\ alarm = "set"
  /\ alarm' = IF pc \in {"call", "loop", "wait", "resumed", "crashed"} THEN "spent" ELSE "off"
  /\ UNCHANGED <<pc, method, machine, timer, signals, began, seconds, status,
                 duration, rest, faulted>>

MethodStep ==
  \/ CallLogind \/ LogindGivesUp \/ LogindDo \/ SleepSignal \/ ResumeSignal \/ OrphanFires
  \/ DirectSleep \/ DirectFails \/ DirectResumes

Environment ==
  \/ ForeignResume \/ FallAsleep \/ AlarmWakes \/ OtherWakes \/ AlarmUnheard
=============================================================================
