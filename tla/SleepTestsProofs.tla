-------------------------- MODULE SleepTestsProofs --------------------------
(***************************************************************************)
(* Proofs about the sleep tests: for any power methods, delays, numbers of *)
(* cycles and faults, and any machine.                                     *)
(***************************************************************************)
EXTENDS SleepTests, SequenceTheorems, TLAPS

Places == {"init", "begin", "cycle", "call", "loop", "wait", "resumed",
           "report", "done", "crashed"}

PlaceType ==
  /\ test \in {"s3", "s4", "none"}
  /\ pc \in Places
  /\ machine \in {"awake", "entering", "asleep"}
  /\ test = "none" <=> pc = "done"

TimeType ==
  /\ seconds \in 0 .. Cap
  /\ duration \in 0 .. Cap
  /\ rest \in 0 .. Cap
  /\ status \in {-1, 0, 1, 128, 129}

MethodType ==
  /\ method \in Methods \union {"undefined"}
  /\ alarm \in {"off", "set", "spent"}
  /\ timer \subseteq {"own", "orphan"}
  /\ faulted \subseteq Faults

SignalType == signals \in Seq(BOOLEAN)

FlagType ==
  /\ began \in BOOLEAN
  /\ retried \in BOOLEAN
  /\ retrying \in BOOLEAN
  /\ aborted \in BOOLEAN

LoopType ==
  /\ cycle \in 0 .. Cycles
  /\ awake \in MinDelay .. MaxDelay
  /\ errors \subseteq Counters
  /\ DOMAIN saved = Settings
  /\ cut \subseteq {"asked", "unasked"}

-----------------------------------------------------------------------------
(* The alarm. *)

Unfaulted == faulted \cap {"alarm", "foreign", "early"} = {}

\* No signal says that a sleep has ended.
AllTrue == \A n \in 1 .. Len(signals) : signals[n] = TRUE

\* The alarm was set in this cycle.
WasSet == alarm \in {"set", "spent"}

\* When nothing of that kind went wrong the machine is on its way to sleep only
\* while the test waits for it, and its alarm was set.
AlarmInv ==
  /\ "own" \in timer => pc \in {"loop", "resumed", "crashed"}
  /\ Unfaulted =>
       /\ machine # "awake" =>
            /\ pc \in {"loop", "wait", "crashed"}
            /\ WasSet
            /\ pc = "loop" => "own" \notin timer /\ AllTrue
       /\ pc = "call" => WasSet
       /\ pc = "loop" /\ "own" \in timer => WasSet /\ signals = <<>>

-----------------------------------------------------------------------------
(* The duration. *)

\* Once the method was asked, the time counted is time slept, unless it turned
\* the request down; then the machine stays awake.
RestCounted ==
  /\ pc = "wait" \/ (pc = "loop" /\ began) =>
       \/ seconds <= rest
       \/ seconds < Delay /\ machine = "awake" /\ "own" \notin timer
  /\ pc = "resumed" /\ rest < Delay => S3MethodFailed

-----------------------------------------------------------------------------
(* The resume hook. *)
HookInv ==
  test = "s3" =>
    /\ pc \in {"init", "begin"} => errors = {}
    /\ "hook" \in errors => pc = "report"

-----------------------------------------------------------------------------
(* The settings. *)

Original(file) == IF file \in DOMAIN original THEN original[file] ELSE "-1"

Has(file) == file \in DOMAIN original

\* fs has every setting of the machine, and no setting it did not have.
Fits(fs) == DOMAIN original \subseteq DOMAIN fs /\ DOMAIN fs \cap Settings \subseteq DOMAIN original

SettingsInv ==
  /\ Ordinary(original)
  /\ Fits(files)
  /\ DOMAIN saved = Settings
  /\ aborted => pc = "done"

DebugInv ==
  /\ pc \notin {"init", "begin", "done"} => saved["pm_debug"] = Original("pm_debug")
  /\ Has("pm_debug") /\ (pc \in {"init", "begin"} \/ (pc = "done" /\ ~aborted)) =>
       files["pm_debug"] = original["pm_debug"]

SleepInv ==
  Has("mem_sleep") /\ original["mem_sleep"] \in {"s2idle", "deep"} =>
    IF test = "s3" /\ pc # "init"
    THEN saved["mem_sleep"] = original["mem_sleep"]
    ELSE files["mem_sleep"] = original["mem_sleep"]

WarnInv ==
  Has("s0ix_warn") =>
    IF test = "s3" /\ pc # "init"
    THEN saved["s0ix_warn"] = original["s0ix_warn"] /\ files["s0ix_warn"] = "Y"
    ELSE files["s0ix_warn"] = original["s0ix_warn"]

BufferInv ==
  /\ saved["buffer_size_kb"] \in {"-1", Original("buffer_size_kb")}
  /\ Has("buffer_size_kb") => files["buffer_size_kb"] = original["buffer_size_kb"]

DiskInv ==
  Has("disk") => files["disk"] = original["disk"] \/ (Hybrid /\ method = "sysfs")

-----------------------------------------------------------------------------
LEMMA QueueFacts ==
  ASSUME NEW q \in Seq(BOOLEAN), q # <<>>
  PROVE  /\ Head(q) = q[1] /\ 1 \in 1 .. Len(q) /\ Len(q) \in Nat
         /\ Len(Tail(q)) = Len(q) - 1
         /\ \A n \in 1 .. Len(Tail(q)) : Tail(q)[n] = q[n + 1]
<1>1. Len(q) \in Nat /\ Len(q) # 0
  BY EmptySeq
<1>2. Head(q) = q[1]
  OBVIOUS
<1> QED
  BY <1>1, <1>2, HeadTailProperties

(* Where the steps of the methods and of the environment lead.              *)

LEMMA MethodSteps ==
  MethodOnly \/ DirectHybrid =>
    /\ MethodStep
    /\ UNCHANGED <<test, saved, cycle, awake, errors, retried, retrying, aborted, original, cut>>
BY DEF MethodOnly, DirectHybrid, MethodStep, testVars

LEMMA MethodPlace ==
  MethodStep => pc \in {"call", "loop", "wait"} /\ pc' \in {"loop", "wait", "resumed", "crashed"}
BY DEF MethodStep, CallLogind, LogindGivesUp, LogindDo, SleepSignal, ResumeSignal, OrphanFires,
   DirectSleep, DirectFails, DirectResumes, Running

LEMMA EnvironmentPlace == Environment => pc' = pc
BY DEF Environment, ForeignResume, FallAsleep, AlarmWakes, OtherWakes, AlarmUnheard, Wake

LEMMA PlaceInit == Init => PlaceType
BY DEF Init, SuspendInit, PlaceType, Places

LEMMA PlaceNext == PlaceType /\ [Next]_vars => PlaceType'
<1> SUFFICES ASSUME PlaceType, [Next]_vars PROVE PlaceType'
  OBVIOUS
<1> USE DEF PlaceType, Places, Running, At
<1>1. CASE CannotRun \/ S3Init \/ S4Init \/ Begin
  BY <1>1 DEF CannotRun, S3Init, S4Init, Begin, NextTest, suspendVars, testVars
<1>2. CASE BeginCycle \/ S3Resumed \/ S3NoMemory \/ S3NoProxy
  BY <1>2 DEF BeginCycle, Prepare, S3Resumed, EndCall, S3NoMemory, NoMemory, S3NoProxy, NoProxy,
     suspendVars, testVars
<1>3. CASE S3Report \/ S4Report
  BY <1>3 DEF S3Report, S4Report, NextTest, suspendVars
<1>4. CASE S4Resumed
  BY <1>4 DEF S4Resumed, EndCall
<1>5. CASE S4Fails
  BY <1>5 DEF S4Fails, NextTest, NoMemory, NoProxy, suspendVars
<1>6. CASE MethodOnly \/ DirectHybrid
  <2>0. MethodStep /\ UNCHANGED test
    BY <1>6, MethodSteps
  <2>1. machine' \in {"awake", "entering", "asleep"}
    BY <2>0 DEF MethodStep, CallLogind, LogindGivesUp, LogindDo, SleepSignal, ResumeSignal, OrphanFires,
       DirectSleep, DirectFails, DirectResumes, suspendVars
  <2> QED
    BY <2>0, <2>1, MethodPlace
<1>7. CASE Environment /\ UNCHANGED testVars
  <2>1. machine' \in {"awake", "entering", "asleep"}
    BY <1>7 DEF Environment, ForeignResume, FallAsleep, AlarmWakes, OtherWakes, AlarmUnheard, Wake
  <2> QED
    BY <1>7, <2>1, EnvironmentPlace DEF testVars
<1>8. CASE Terminating \/ UNCHANGED vars
  BY <1>8 DEF Terminating, vars, suspendVars, testVars
<1> QED
  BY <1>1, <1>2, <1>3, <1>4, <1>5, <1>6, <1>7, <1>8 DEF Next, Program

-----------------------------------------------------------------------------
(* Types. *)

LEMMA SignalInit == Init => SignalType
BY DEF Init, SuspendInit, SignalType

LEMMA SignalNext == SignalType /\ [Next]_vars => SignalType'
<1> SUFFICES ASSUME SignalType, [Next]_vars PROVE SignalType'
  OBVIOUS
<1> USE DEF SignalType
<1>1. CASE UNCHANGED signals
  BY <1>1
<1>2. CASE MethodStep
  <2>1. <<>> \in Seq(BOOLEAN) /\ <<TRUE, FALSE>> \in Seq(BOOLEAN)
    OBVIOUS
  <2>2. Append(signals, TRUE) \in Seq(BOOLEAN) /\ signals \o <<TRUE, FALSE>> \in Seq(BOOLEAN)
    BY <2>1
  <2>3. signals # <<>> => Tail(signals) \in Seq(BOOLEAN)
    OBVIOUS
  <2> QED
    BY <1>2, <2>1, <2>2, <2>3 DEF MethodStep, CallLogind, LogindGivesUp, LogindDo, SleepSignal, ResumeSignal,
       OrphanFires, DirectSleep, DirectFails, DirectResumes, suspendVars
<1>3. CASE Environment
  <2>1. <<FALSE>> \in Seq(BOOLEAN) /\ Append(signals, FALSE) \in Seq(BOOLEAN)
    OBVIOUS
  <2> QED
    BY <1>3, <2>1 DEF Environment, ForeignResume, FallAsleep, AlarmWakes, OtherWakes, AlarmUnheard, Wake
<1>4. Program => MethodStep \/ UNCHANGED signals
  BY MethodSteps DEF Program, CannotRun, S3Init, S4Init, Begin, BeginCycle, Prepare, S3Resumed, EndCall,
     S3NoMemory, NoMemory, S3NoProxy, NoProxy, S3Report, S4Resumed, S4Fails, S4Report, suspendVars
<1> QED
  BY <1>1, <1>2, <1>3, <1>4 DEF Next, Terminating, vars, suspendVars

-----------------------------------------------------------------------------
(* The alarm. *)

LEMMA AlarmInit == Init => AlarmInv
BY DEF Init, SuspendInit, AlarmInv, Unfaulted

LEMMA AlarmNext == PlaceType /\ SignalType /\ AlarmInv /\ [Next]_vars => AlarmInv'
<1> SUFFICES ASSUME PlaceType, SignalType, AlarmInv, [Next]_vars PROVE AlarmInv'
  OBVIOUS
<1> USE DEF PlaceType, Places, Running, At, AlarmInv, Unfaulted, WasSet
<1>1. CASE CannotRun \/ S3Init \/ S4Init \/ Begin
  BY <1>1 DEF CannotRun, S3Init, S4Init, Begin, NextTest, suspendVars, testVars
<1>2. CASE BeginCycle
  BY <1>2 DEF BeginCycle, Prepare, SetAlarm, MayFail
<1>3. CASE S3Resumed
  BY <1>3 DEF S3Resumed, EndCall
<1>4. CASE S3NoMemory \/ S3NoProxy
  BY <1>4 DEF S3NoMemory, NoMemory, S3NoProxy, NoProxy, suspendVars, testVars
<1>5. CASE S3Report \/ S4Report
  BY <1>5 DEF S3Report, S4Report, NextTest, suspendVars
<1>6. CASE S4Resumed
  BY <1>6 DEF S4Resumed, EndCall
<1>7. CASE S4Fails
  BY <1>7 DEF S4Fails, NextTest, NoMemory, NoProxy, suspendVars
<1>8. CASE CallLogind
  BY <1>8 DEF CallLogind
<1>9. CASE LogindDo
  <2>1. Unfaulted' => Unfaulted /\ machine = "awake" /\ WasSet /\ signals = <<>>
    BY <1>9 DEF LogindDo, MayFail
  <2>2. signals = <<>> => /\ Append(signals, TRUE) = <<TRUE>>
                         /\ Len(<<TRUE>>) = 1 /\ <<TRUE>>[1] = TRUE
    OBVIOUS
  <2>3. CASE machine' = "awake"
    BY <1>9, <2>1, <2>3 DEF LogindDo
  <2>4. CASE machine' # "awake" /\ Unfaulted'
    <3>1. signals' = <<TRUE>>
      BY <1>9, <2>1, <2>2, <2>4 DEF LogindDo
    <3>2. pc' = "loop" /\ WasSet' /\ timer' = timer \ {"own"}
      BY <1>9, <2>1, <2>4 DEF LogindDo
    <3>3. AllTrue'
      <4> SUFFICES ASSUME NEW n \in 1 .. Len(signals') PROVE signals'[n] = TRUE
        BY Zenon DEF AllTrue
      <4>1. n = 1
        BY <3>1
      <4> QED
        BY <3>1, <4>1
    <3> QED
      BY <3>2, <3>3
  <2>5. CASE ~Unfaulted'
    BY <1>9, <2>5 DEF LogindDo
  <2> QED
    BY <2>3, <2>4, <2>5
<1>10. CASE SleepSignal
  <2>1. /\ Len(signals') = Len(signals) - 1 /\ Len(signals) \in Nat
        /\ \A n \in 1 .. Len(signals') : signals'[n] = signals[n + 1]
    <3>1. signals # <<>> /\ signals' = Tail(signals)
      BY <1>10 DEF SleepSignal
    <3> QED
      BY <3>1, QueueFacts DEF SignalType
  <2>2. AllTrue => AllTrue'
    BY <2>1 DEF AllTrue
  <2>3. UNCHANGED <<pc, alarm, machine, timer, faulted>> /\ pc = "loop" /\ signals # <<>>
    BY <1>10 DEF SleepSignal
  <2> QED
    BY <2>2, <2>3
<1>11. CASE ResumeSignal
  <2>1. 1 \in 1 .. Len(signals) /\ Head(signals) = signals[1]
    <3>1. signals # <<>>
      BY <1>11 DEF ResumeSignal
    <3> QED
      BY <3>1, QueueFacts DEF SignalType
  <2>2. ~Head(signals)
    BY <1>11 DEF ResumeSignal
  <2>3. ~AllTrue
    BY <2>1, <2>2, Zenon DEF AllTrue
  <2> QED
    BY <1>11, <2>3 DEF ResumeSignal
<1>12. CASE OrphanFires
  BY <1>12 DEF OrphanFires, suspendVars
<1>13. CASE DirectSleep \/ DirectFails \/ DirectResumes
  BY <1>13 DEF DirectSleep, DirectFails, DirectResumes
<1>14. CASE ForeignResume
  BY <1>14 DEF ForeignResume, MayFail
<1>15. CASE FallAsleep \/ AlarmUnheard
  BY <1>15 DEF FallAsleep, AlarmUnheard, AllTrue
<1>16. CASE AlarmWakes \/ OtherWakes
  BY <1>16 DEF AlarmWakes, OtherWakes, Wake
<1>17. CASE Terminating \/ UNCHANGED vars
  BY <1>17 DEF Terminating, vars, suspendVars, testVars, AllTrue
<1>18. CASE LogindGivesUp
  BY <1>18 DEF LogindGivesUp
<1> QED
  BY <1>1, <1>2, <1>3, <1>4, <1>5, <1>6, <1>7, <1>8, <1>9, <1>10, <1>11, <1>12, <1>13, <1>14,
     <1>15, <1>16, <1>17, <1>18, MethodSteps DEF Next, Program, MethodStep, Environment

(* Nothing but a wake alarm that could not be set, or the end of somebody   *)
(* else's sleep, makes the machine sleep without an alarm of the same cycle: *)
(* early wake-ups, refusals and retries do not, nor does an alarm that goes  *)
(* off, heard or not, at whatever time.                                      *)
THEOREM AlwaysSleepsWithAlarm == Spec => []SleepsWithAlarm
<1>1. AlarmInv => SleepsWithAlarm
  BY DEF AlarmInv, SleepsWithAlarm, Unfaulted, WasSet
<1> QED
  BY <1>1, PlaceInit, PlaceNext, SignalInit, SignalNext, AlarmInit, AlarmNext, PTL DEF Spec

-----------------------------------------------------------------------------
(* The duration. *)

LEMMA CapFacts ==
  /\ Delay \in Nat /\ Delay > 0 /\ Cap \in Nat /\ Cap > 2 * Delay
  /\ 0 \in 0 .. Cap /\ Cap \in 0 .. Cap /\ FailTimes \subseteq 0 .. Cap
BY SuspendAssumption DEF Cap

LEMMA PlusFacts ==
  /\ \A s, d \in 0 .. Cap : Plus(s, d) \in 0 .. Cap
  /\ \A s, t, d \in 0 .. Cap : s <= t => Plus(s, d) <= Plus(t, d)
  /\ \A s, d \in 0 .. Cap : s <= Plus(s, d)
BY CapFacts DEF Plus

LEMMA TimeInit == Init => TimeType
BY CapFacts DEF Init, SuspendInit, TimeType

LEMMA TimeNext == TimeType /\ [Next]_vars => TimeType'
<1> SUFFICES ASSUME TimeType, [Next]_vars PROVE TimeType'
  OBVIOUS
<1> USE DEF TimeType
<1>1. CASE UNCHANGED <<seconds, status, duration, rest>>
  BY <1>1
<1>2. CASE BeginCycle
  BY <1>2, CapFacts DEF BeginCycle, Prepare
<1>3. CASE S3Resumed \/ S4Resumed
  <2>1. EndCall
    BY <1>3 DEF S3Resumed, S4Resumed
  <2> QED
    BY <2>1, CapFacts DEF EndCall
<1>4. CASE MethodStep
  <2>1. CASE CallLogind \/ LogindGivesUp \/ SleepSignal \/ OrphanFires
    BY <2>1, CapFacts DEF CallLogind, LogindGivesUp, SleepSignal, OrphanFires, suspendVars
  <2>2. CASE LogindDo
    BY <2>2, CapFacts DEF LogindDo
  <2>3. CASE ResumeSignal
    BY <2>3, CapFacts DEF ResumeSignal
  <2>4. CASE DirectSleep \/ DirectResumes
    BY <2>4, CapFacts DEF DirectSleep, DirectResumes, Accepted
  <2>5. CASE DirectFails
    BY <2>5, CapFacts DEF DirectFails, Rejected
  <2> QED
    BY <1>4, <2>1, <2>2, <2>3, <2>4, <2>5 DEF MethodStep
<1>5. CASE Environment
  <2>1. ASSUME NEW d \in 0 .. Cap, Wake(d) PROVE TimeType'
    BY <2>1, PlusFacts DEF Wake
  <2>2. CASE AlarmWakes \/ OtherWakes
    BY <2>1, <2>2, SuspendAssumption DEF AlarmWakes, OtherWakes, Cap
  <2>3. CASE ForeignResume \/ FallAsleep \/ AlarmUnheard
    BY <2>3 DEF ForeignResume, FallAsleep, AlarmUnheard
  <2> QED
    BY <1>5, <2>2, <2>3 DEF Environment
<1>6. Program => \/ BeginCycle \/ S3Resumed \/ S4Resumed \/ MethodStep
                 \/ UNCHANGED <<seconds, status, duration, rest>>
  BY MethodSteps DEF Program, CannotRun, S3Init, S4Init, Begin,
     S3NoMemory, NoMemory, S3NoProxy, NoProxy, S3Report, S4Fails, S4Report, suspendVars
<1> QED
  BY <1>1, <1>2, <1>3, <1>4, <1>5, <1>6 DEF Next, Terminating, vars, suspendVars

\* Whoever turns a request down does so before the machine would have slept
\* through: the duration is all that tells the two apart.
PromptRefusals == \A time \in FailTimes : time < Delay

LEMMA RestInit == Init => RestCounted
BY DEF Init, SuspendInit, RestCounted

LEMMA RestNext ==
  ASSUME PromptRefusals, PlaceType, TimeType, RestCounted, [Next]_vars
  PROVE  RestCounted'
<1> USE DEF PlaceType, Places, Running, At, TimeType, RestCounted, S3MethodFailed
<1>1. CASE CannotRun \/ S3Init \/ S4Init \/ Begin
  BY <1>1 DEF CannotRun, S3Init, S4Init, Begin, NextTest, suspendVars, testVars
<1>2. CASE BeginCycle
  BY <1>2 DEF BeginCycle, Prepare
<1>3. CASE S3Resumed \/ S4Resumed
  BY <1>3 DEF S3Resumed, S4Resumed, EndCall
<1>4. CASE S3NoMemory \/ S3NoProxy \/ S4Fails
  BY <1>4 DEF S3NoMemory, NoMemory, S3NoProxy, NoProxy, S4Fails, NextTest, suspendVars, testVars
<1>5. CASE S3Report \/ S4Report
  BY <1>5 DEF S3Report, S4Report, NextTest, suspendVars
<1>6. CASE CallLogind
  BY <1>6 DEF CallLogind
<1>7. CASE LogindDo
  <2>1. pc' = "loop" /\ timer' = timer \ {"own"} /\ UNCHANGED rest
    BY <1>7 DEF LogindDo
  <2>2. seconds' = 0 \/ (seconds' < Delay /\ machine' = "awake")
    BY <1>7 DEF LogindDo, PromptRefusals
  <2> QED
    BY <2>1, <2>2, CapFacts
<1>8. CASE SleepSignal \/ ForeignResume
  <2>1. UNCHANGED <<pc, machine, timer, began, seconds, status, duration, rest>>
    BY <1>8 DEF SleepSignal, ForeignResume
  <2> QED
    BY <2>1
<1>9. CASE ResumeSignal
  <2>1. /\ pc = "loop" /\ pc' = "resumed" /\ UNCHANGED <<machine, timer, began, seconds, rest>>
        /\ duration' = IF began THEN seconds ELSE Cap
    BY <1>9 DEF ResumeSignal
  <2>2. CASE began
    BY <2>1, <2>2, CapFacts
  <2>3. CASE ~began
    BY <2>1, <2>3, CapFacts
  <2> QED
    BY <2>2, <2>3
<1>10. CASE OrphanFires
  BY <1>10 DEF OrphanFires, suspendVars
<1>11. CASE DirectSleep
  BY <1>11 DEF DirectSleep
<1>12. CASE DirectFails
  BY <1>12, CapFacts DEF DirectFails, PromptRefusals
<1>13. CASE DirectResumes
  <2>1. pc = "wait" /\ pc' = "resumed" /\ duration' = seconds /\ UNCHANGED <<seconds, rest>>
    BY <1>13 DEF DirectResumes
  <2> QED
    BY <2>1, CapFacts
<1>14. CASE FallAsleep \/ AlarmUnheard
  BY <1>14 DEF FallAsleep, AlarmUnheard
<1>15. CASE AlarmWakes \/ OtherWakes
  <2>1. PICK d \in 0 .. Cap : Wake(d)
    BY <1>15, SuspendAssumption DEF AlarmWakes, OtherWakes, Cap
  <2>2. /\ rest' \in 0 .. Cap /\ seconds' \in 0 .. Cap /\ rest <= rest'
        /\ seconds <= rest => seconds' <= rest'
    BY <2>1, PlusFacts DEF Wake
  <2>3. machine = "asleep" /\ UNCHANGED <<pc, began, status, duration>>
    BY <2>1 DEF Wake
  <2> QED
    BY <2>2, <2>3, CapFacts
<1>16. CASE Terminating \/ UNCHANGED vars
  BY <1>16 DEF Terminating, vars, suspendVars, testVars
<1>17. CASE LogindGivesUp
  BY <1>17 DEF LogindGivesUp
<1> QED
  BY <1>1, <1>2, <1>3, <1>4, <1>5, <1>6, <1>7, <1>8, <1>9, <1>10, <1>11, <1>12, <1>13, <1>14,
     <1>15, <1>16, <1>17, MethodSteps DEF Next, Program, MethodStep, Environment

\* A hibernation is tried again after an error of the first time.
RetryInv == retrying => "pm" \in errors /\ test # "s3" /\ pc \notin {"init", "begin"}

LEMMA RetryNext ==
  ASSUME PlaceType, RetryInv, [Next]_vars
  PROVE  RetryInv'
<1> USE DEF RetryInv, PlaceType, Places, Running, At
<1>1. CASE CannotRun \/ S3Init \/ S4Init \/ Begin \/ BeginCycle
  BY <1>1 DEF CannotRun, S3Init, S4Init, Begin, BeginCycle, Prepare, NextTest, testVars
<1>2. CASE S3Resumed
  <2>1. errors \subseteq errors' /\ pc' \in {"report", "cycle"} /\ UNCHANGED <<retrying, test>>
    BY <1>2 DEF S3Resumed
  <2> QED
    BY <2>1
<1>3. CASE S3NoMemory \/ S3NoProxy
  <2>1. errors \subseteq errors' /\ pc' \in {"report", "cycle"} /\ UNCHANGED <<retrying, test>>
    BY <1>3 DEF S3NoMemory, S3NoProxy
  <2> QED
    BY <2>1
<1>4. CASE S4Resumed
  <2>1. pc' \in {"report", "cycle"} /\ test' = "s4" /\ (retrying' => "pm" \in errors')
    BY <1>4 DEF S4Resumed, S4MethodFailed
  <2> QED
    BY <2>1
<1>5. CASE S4Fails
  BY <1>5 DEF S4Fails
<1>6. CASE MethodOnly \/ DirectHybrid
  BY <1>6, MethodSteps, MethodPlace
<1>7. CASE Environment /\ UNCHANGED testVars
  BY <1>7, EnvironmentPlace DEF testVars
<1>8. CASE Terminating \/ UNCHANGED vars
  BY <1>8 DEF Terminating, vars, testVars
<1>9. CASE S3Report \/ S4Report
  BY <1>9 DEF S3Report, S4Report, NextTest
<1> QED
  BY <1>1, <1>2, <1>3, <1>4, <1>5, <1>6, <1>7, <1>8, <1>9 DEF Next, Program

LEMMA CountNext ==
  ASSUME PlaceType, RestCounted, RetryInv, UnsleptIsCounted, [Next]_vars
  PROVE  UnsleptIsCounted'
<1> USE DEF UnsleptIsCounted
<1>0. aborted => aborted'
  BY MethodSteps DEF Next, Program, CannotRun, S3Init, S4Init, Begin, BeginCycle, S3Resumed, S3NoMemory,
     S3NoProxy, S3Report, S4Resumed, S4Fails, S4Report, Terminating, vars, testVars
<1>1. CASE Begin
  BY <1>1 DEF Begin
<1>2. CASE S3Resumed
  <2>1. (S3MethodFailed => "pm" \in errors') /\ errors \subseteq errors'
    BY <1>2 DEF S3Resumed
  <2>2. "asked" \in cut' => "asked" \in cut \/ rest < Delay
    BY <1>2 DEF S3Resumed
  <2>3. pc = "resumed"
    BY <1>2 DEF S3Resumed, At, Running
  <2> QED
    BY <1>0, <2>1, <2>2, <2>3 DEF RestCounted
<1>3. CASE S4Resumed
  <2>1. errors \subseteq errors' /\ (rest = 0 => "pm" \in errors')
    BY <1>3 DEF S4Resumed, S4Log, S4MethodFailed
  <2>2. "asked" \in cut' => "asked" \in cut \/ rest = 0
    BY <1>3 DEF S4Resumed
  <2> QED
    BY <1>0, <2>1, <2>2
<1>4. CASE UNCHANGED <<cut, errors>>
  BY <1>0, <1>4
<1>5. CASE S4Fails
  <2>1. UNCHANGED errors /\ (retrying \/ aborted')
    BY <1>5 DEF S4Fails
  <2> QED
    BY <2>1 DEF RetryInv
<1>6. CASE S3NoMemory \/ S3NoProxy
  <2>1. errors \subseteq errors' /\ ("asked" \in cut' => "asked" \in cut)
    BY <1>6 DEF S3NoMemory, S3NoProxy
  <2> QED
    BY <1>0, <2>1
<1>7. Program => \/ Begin \/ S3Resumed \/ S4Resumed \/ S4Fails \/ S3NoMemory \/ S3NoProxy
                 \/ UNCHANGED <<cut, errors>>
  BY MethodSteps DEF Program, CannotRun, S3Init, S4Init, BeginCycle, S3Report, S4Report, testVars
<1> QED
  BY <1>1, <1>2, <1>3, <1>4, <1>5, <1>6, <1>7 DEF Next, Terminating, vars, testVars

(* A cycle for which the machine was asked to sleep and that was not slept   *)
(* through is an error of the test, or the test ends without a verdict,      *)
(* whatever the method, and however alarms, sleeps that others asked for,    *)
(* early wake-ups and early signals fall; provided that a request which is   *)
(* turned down is turned down in less time than the machine was to sleep.    *)
THEOREM UnsleptAlwaysCounted ==
  ASSUME PromptRefusals
  PROVE  Spec => []UnsleptIsCounted
<1>1. Init => UnsleptIsCounted /\ RetryInv
  BY DEF Init, UnsleptIsCounted, RetryInv
<1>2. PlaceType /\ TimeType /\ RestCounted /\ [Next]_vars => RestCounted'
  BY RestNext
<1>3. PlaceType /\ RestCounted /\ RetryInv /\ UnsleptIsCounted /\ [Next]_vars => UnsleptIsCounted'
  BY CountNext
<1>4. PlaceType /\ RetryInv /\ [Next]_vars => RetryInv'
  BY RetryNext
<1> QED
  BY <1>1, <1>2, <1>3, <1>4, PlaceInit, PlaceNext, TimeInit, TimeNext, RestInit, PTL DEF Spec

-----------------------------------------------------------------------------
(* The resume hook. *)

LEMMA HookInit == Init => HookInv
BY DEF Init, HookInv

LEMMA HookNext == PlaceType /\ HookInv /\ [Next]_vars => HookInv'
<1> SUFFICES ASSUME PlaceType, HookInv, [Next]_vars PROVE HookInv'
  OBVIOUS
<1> USE DEF PlaceType, Places, Running, At, HookInv
<1>1. CASE CannotRun \/ S3Init \/ S4Init \/ Begin
  BY <1>1 DEF CannotRun, S3Init, S4Init, Begin, NextTest, suspendVars, testVars
<1>2. CASE BeginCycle
  BY <1>2 DEF BeginCycle, Prepare
<1>3. CASE S3Resumed
  <2>1. PICK found : errors' = found /\ pc' = IF S3Stop(found) THEN "report" ELSE "cycle"
    BY <1>3 DEF S3Resumed
  <2> QED
    BY <2>1, <1>3 DEF S3Stop, S3Resumed
<1>4. CASE S3NoMemory \/ S3NoProxy
  <2>1. "hook" \notin errors /\ pc' \in {"cycle", "report"}
    BY <1>4 DEF S3NoMemory, S3NoProxy
  <2>2. "hook" \in errors' => pc' = "report"
    BY <1>4, <2>1, SleepTestsAssumption DEF S3NoMemory, S3NoProxy
  <2> QED
    BY <2>1, <2>2
<1>5. CASE S3Report \/ S4Report
  BY <1>5 DEF S3Report, S4Report, NextTest, suspendVars
<1>6. CASE S4Resumed \/ S4Fails
  BY <1>6 DEF S4Resumed, S4Fails, NextTest
<1>7. CASE MethodOnly \/ DirectHybrid
  BY <1>7, MethodPlace, MethodSteps
<1>8. CASE Environment /\ UNCHANGED testVars
  BY <1>8, EnvironmentPlace DEF testVars
<1>9. CASE Terminating \/ UNCHANGED vars
  BY <1>9 DEF Terminating, vars, suspendVars, testVars
<1> QED
  BY <1>1, <1>2, <1>3, <1>4, <1>5, <1>6, <1>7, <1>8, <1>9 DEF Next, Program

(* No cycle of s3 begins after a resume hook failed, whatever else the      *)
(* cycle found.                                                              *)
THEOREM HookAlwaysStopsCycles == Spec => HookStopsCycles
<1>1. PlaceType /\ HookInv /\ [Next]_vars =>
        [test = "s3" /\ test' = "s3" /\ "hook" \in errors => cycle' = cycle]_vars
  <2> SUFFICES ASSUME PlaceType, HookInv, [Next]_vars, test = "s3", "hook" \in errors
               PROVE cycle' = cycle
    OBVIOUS
  <2>1. pc = "report"
    BY DEF HookInv
  <2>2. ~(Begin \/ BeginCycle \/ S3NoProxy)
    BY <2>1 DEF Begin, BeginCycle, S3NoProxy, At, Running
  <2> QED
    BY <2>2, MethodSteps DEF Next, Program, CannotRun, S3Init, S4Init, S3Resumed, S3NoMemory, S3Report,
       S4Resumed, S4Fails, S4Report, Terminating, testVars, vars
<1> QED
  BY <1>1, PlaceInit, PlaceNext, HookInit, HookNext, PTL DEF Spec, HookStopsCycles

-----------------------------------------------------------------------------
(* The settings. *)

LEMMA SetFacts ==
  ASSUME NEW fs, NEW file, NEW text, DOMAIN original \subseteq Settings, Fits(fs)
  PROVE  LET new == Set(fs, file, text) IN
         /\ Fits(new)
         /\ \A f \in DOMAIN original : f # file => new[f] = fs[f]
         /\ file \in DOMAIN original => new[file] = text
<1>1. CASE file \in Settings \ DOMAIN fs
  BY <1>1 DEF Set, Fits
<1>2. CASE file \notin Settings \ DOMAIN fs
  <2>1. Set(fs, file, text) = [name \in DOMAIN fs \union {file} |-> IF name = file THEN text ELSE fs[name]]
    BY <1>2 DEF Set
  <2>2. file \in Settings => file \in DOMAIN fs
    BY <1>2
  <2> QED
    BY <2>1, <2>2 DEF Fits
<1> QED
  BY <1>1, <1>2

\* Who writes the settings, and what was saved of them.
LEMMA WritersOnly ==
  [Next]_vars =>
    /\ original' = original
    /\ \/ S3Init \/ Begin \/ S3Report \/ S4Resumed \/ S4Report \/ DirectHybrid
       \/ CannotRun /\ UNCHANGED <<files, saved>>
       \/ S4Init /\ UNCHANGED testVars
       \/ S4Fails /\ UNCHANGED <<files, saved>>
       \/ UNCHANGED <<files, saved, test, aborted>> /\ pc' = pc
       \/ /\ UNCHANGED <<files, saved, test, aborted>>
          /\ pc \notin {"init", "begin", "done"} /\ pc' \notin {"init", "begin", "done"}
<1> SUFFICES ASSUME [Next]_vars
             PROVE  /\ original' = original
                    /\ \/ S3Init \/ Begin \/ S3Report \/ S4Resumed \/ S4Report \/ DirectHybrid
                       \/ CannotRun /\ UNCHANGED <<files, saved>>
                       \/ S4Init /\ UNCHANGED testVars
                       \/ S4Fails /\ UNCHANGED <<files, saved>>
                       \/ UNCHANGED <<files, saved, test, aborted>> /\ pc' = pc
                       \/ /\ UNCHANGED <<files, saved, test, aborted>>
                          /\ pc \notin {"init", "begin", "done"}
                          /\ pc' \notin {"init", "begin", "done"}
  OBVIOUS
<1>1. CASE S3Init \/ Begin \/ S3Report \/ S4Resumed \/ S4Report \/ DirectHybrid
  BY <1>1, MethodSteps DEF S3Init, Begin, S3Report, S4Resumed, S4Report
<1>2. CASE CannotRun \/ S4Init \/ S4Fails
  BY <1>2 DEF CannotRun, S4Init, S4Fails, testVars
<1>3. CASE BeginCycle \/ S3Resumed \/ S3NoMemory \/ S3NoProxy
  BY <1>3 DEF BeginCycle, Prepare, S3Resumed, S3NoMemory, S3NoProxy, At, Running, testVars
<1>4. CASE MethodOnly
  BY <1>4, MethodPlace, MethodSteps DEF MethodOnly, testVars
<1>5. CASE Environment /\ UNCHANGED testVars
  BY <1>5, EnvironmentPlace DEF testVars
<1>6. CASE Terminating \/ UNCHANGED vars
  BY <1>6 DEF Terminating, vars, testVars
<1> QED
  BY <1>1, <1>2, <1>3, <1>4, <1>5, <1>6 DEF Next, Program

LEMMA GetFacts ==
  ASSUME SettingsInv, NEW file \in Settings
  PROVE  Get(file) = IF Has(file) THEN files[file] ELSE "-1"
BY DEF SettingsInv, Fits, Get, Has

\* What each writer does to the settings the machine has.
LEMMA S3InitWrites ==
  ASSUME SettingsInv, S3Init
  PROVE  /\ Fits(files')
         /\ Has("pm_debug") => files'["pm_debug"] = files["pm_debug"]
         /\ Has("buffer_size_kb") => files'["buffer_size_kb"] = files["buffer_size_kb"]
         /\ Has("disk") => files'["disk"] = files["disk"]
         /\ Has("s0ix_warn") => files'["s0ix_warn"] =
                IF files["s0ix_warn"] = "N" THEN "Y" ELSE files["s0ix_warn"]
<1> DEFINE warned == IF Get("s0ix_warn") = "N" THEN Set(files, "s0ix_warn", "Y") ELSE files
<1>0. DOMAIN original \subseteq Settings /\ Fits(files)
  BY DEF SettingsInv, Ordinary
<1>1. /\ Fits(warned)
      /\ \A f \in DOMAIN original : f # "s0ix_warn" => warned[f] = files[f]
      /\ Has("s0ix_warn") => warned["s0ix_warn"] =
            IF files["s0ix_warn"] = "N" THEN "Y" ELSE files["s0ix_warn"]
  BY <1>0, SetFacts, GetFacts DEF Has, Settings
<1>2. \/ files' = warned
      \/ \E type \in SleepTypes : files' = Set(warned, "mem_sleep", type)
  BY DEF S3Init, SetSleepType
<1> HIDE DEF warned
<1>3. CASE files' = warned
  BY <1>1, <1>3 DEF Has
<1>4. ASSUME NEW type \in SleepTypes, files' = Set(warned, "mem_sleep", type)
      PROVE  /\ Fits(files')
             /\ \A f \in DOMAIN original : f # "mem_sleep" => files'[f] = warned[f]
  BY <1>0, <1>1, <1>4, SetFacts
<1> QED
  BY <1>1, <1>2, <1>3, <1>4 DEF Has

LEMMA BeginWrites ==
  ASSUME SettingsInv, Begin
  PROVE  /\ Fits(files')
         /\ \A f \in DOMAIN original : f # "pm_debug" => files'[f] = files[f]
<1>0. DOMAIN original \subseteq Settings /\ Fits(files)
  BY DEF SettingsInv, Ordinary
<1> QED
  BY <1>0, SetFacts DEF Begin

LEMMA S4ResumedWrites ==
  ASSUME SettingsInv, S4Resumed
  PROVE  /\ Fits(files')
         /\ \A f \in DOMAIN original : files'[f] = files[f]
<1>0. DOMAIN original \subseteq Settings /\ Fits(files) /\ "1" \notin Settings
  BY DEF SettingsInv, Ordinary, Settings
<1>1. files' = files \/ files' = Set(files, "1", "buffer_size_kb")
  BY DEF S4Resumed
<1> QED
  BY <1>0, <1>1, SetFacts

LEMMA S3ReportWrites ==
  ASSUME SettingsInv, WarnInv, S3Report
  PROVE  /\ Fits(files')
         /\ Has("pm_debug") => files'["pm_debug"] =
               IF saved["pm_debug"] # "-1" THEN saved["pm_debug"] ELSE files["pm_debug"]
         /\ Has("mem_sleep") /\ saved["mem_sleep"] = original["mem_sleep"] =>
               files'["mem_sleep"] = original["mem_sleep"]
         /\ Has("disk") => files'["disk"] = files["disk"]
         /\ Has("buffer_size_kb") => files'["buffer_size_kb"] = files["buffer_size_kb"]
         /\ Has("s0ix_warn") => files'["s0ix_warn"] = original["s0ix_warn"]
<1> DEFINE debug == IF saved.pm_debug # "-1" THEN Set(files, "pm_debug", saved.pm_debug) ELSE files
<1>0. DOMAIN original \subseteq Settings /\ Fits(files)
  BY DEF SettingsInv, Ordinary
<1>1. /\ Fits(debug)
      /\ \A f \in DOMAIN original : f # "pm_debug" => debug[f] = files[f]
      /\ Has("pm_debug") => debug["pm_debug"] =
               IF saved["pm_debug"] # "-1" THEN saved["pm_debug"] ELSE files["pm_debug"]
  BY <1>0, SetFacts DEF Has
<1>2. PICK sleep \in SetSleepType(debug, saved.mem_sleep) :
        files' = IF Get("s0ix_warn") = "Y" /\ saved.s0ix_warn # "Y"
                 THEN Set(sleep, "s0ix_warn", "N") ELSE sleep
  BY DEF S3Report, S3Restore
<1>3. \/ sleep = Set(debug, "mem_sleep", saved["mem_sleep"])
      \/ sleep = debug /\ ~(Has("mem_sleep") /\ saved["mem_sleep"] = original["mem_sleep"])
  BY <1>2 DEF SetSleepType, Has
<1>4. /\ Fits(sleep)
      /\ \A f \in DOMAIN original : f # "mem_sleep" => sleep[f] = debug[f]
      /\ Has("mem_sleep") /\ saved["mem_sleep"] = original["mem_sleep"] =>
            sleep["mem_sleep"] = original["mem_sleep"]
  <2> HIDE DEF debug
  <2>1. CASE sleep = debug /\ ~(Has("mem_sleep") /\ saved["mem_sleep"] = original["mem_sleep"])
    BY <1>1, <2>1
  <2>2. CASE sleep = Set(debug, "mem_sleep", saved["mem_sleep"])
    BY <1>0, <1>1, <2>2, SetFacts DEF Has
  <2> QED
    BY <1>3, <2>1, <2>2
<1>5. Has("s0ix_warn") => /\ Get("s0ix_warn") = "Y" /\ saved["s0ix_warn"] = original["s0ix_warn"]
                          /\ sleep["s0ix_warn"] = "Y" /\ original["s0ix_warn"] \in {"Y", "N"}
  <2> SUFFICES ASSUME Has("s0ix_warn")
               PROVE /\ Get("s0ix_warn") = "Y" /\ saved["s0ix_warn"] = original["s0ix_warn"]
                     /\ sleep["s0ix_warn"] = "Y" /\ original["s0ix_warn"] \in {"Y", "N"}
    OBVIOUS
  <2>1. saved["s0ix_warn"] = original["s0ix_warn"] /\ files["s0ix_warn"] = "Y"
    BY DEF S3Report, Running, WarnInv
  <2>2. sleep["s0ix_warn"] = files["s0ix_warn"]
    <3> HIDE DEF debug
    <3> QED
      BY <1>1, <1>4 DEF Has
  <2>3. Get("s0ix_warn") = "Y"
    BY <2>1, GetFacts DEF Settings
  <2> QED
    BY <2>1, <2>2, <2>3 DEF SettingsInv, Ordinary, Has
<1> HIDE DEF debug
<1>6. /\ Fits(files')
      /\ \A f \in DOMAIN original : f # "s0ix_warn" => files'[f] = sleep[f]
      /\ Has("s0ix_warn") => files'["s0ix_warn"] = original["s0ix_warn"]
  BY <1>0, <1>4, <1>2, <1>5, SetFacts DEF Has
<1> QED
  BY <1>1, <1>4, <1>6 DEF Has

LEMMA S4ReportWrites ==
  ASSUME SettingsInv, BufferInv, S4Report
  PROVE  /\ Fits(files')
         /\ \A f \in DOMAIN original : f # "pm_debug" => files'[f] = files[f]
         /\ Has("pm_debug") => files'["pm_debug"] =
               IF saved["pm_debug"] # "-1" THEN saved["pm_debug"] ELSE files["pm_debug"]
<1> DEFINE debug == IF saved.pm_debug # "-1" THEN Set(files, "pm_debug", saved.pm_debug) ELSE files
<1>0. DOMAIN original \subseteq Settings /\ Fits(files)
  BY DEF SettingsInv, Ordinary
<1>1. /\ Fits(debug)
      /\ \A f \in DOMAIN original : f # "pm_debug" => debug[f] = files[f]
      /\ Has("pm_debug") => debug["pm_debug"] =
               IF saved["pm_debug"] # "-1" THEN saved["pm_debug"] ELSE files["pm_debug"]
  BY <1>0, SetFacts DEF Has
<1>2. \/ files' = debug
      \/ saved.buffer_size_kb # "-1" /\ files' = Set(debug, saved.buffer_size_kb, "buffer_size_kb")
  BY DEF S4Report
<1>3. saved.buffer_size_kb # "-1" => saved.buffer_size_kb \notin DOMAIN original
  BY DEF BufferInv, Original, SettingsInv, Ordinary
<1> HIDE DEF debug
<1>4. CASE files' = debug
  BY <1>1, <1>4
<1>5. CASE saved.buffer_size_kb # "-1" /\ files' = Set(debug, saved.buffer_size_kb, "buffer_size_kb")
  <2>1. Fits(files') /\ \A f \in DOMAIN original : files'[f] = debug[f]
    BY <1>0, <1>1, <1>3, <1>5, SetFacts
  <2> QED
    BY <1>1, <2>1 DEF Has
<1> QED
  BY <1>2, <1>4, <1>5

LEMMA HybridWrites ==
  ASSUME SettingsInv, DirectHybrid
  PROVE  /\ Fits(files')
         /\ \A f \in DOMAIN original : f # "disk" => files'[f] = files[f]
         /\ Hybrid /\ method' = "sysfs"
         /\ UNCHANGED <<test, saved, aborted, original>>
         /\ pc = "call" /\ pc' \in {"wait", "resumed"}
<1>1. DOMAIN original \subseteq Settings /\ Fits(files)
  BY DEF SettingsInv, Ordinary
<1>2. files' = files \/ files' = Set(files, "disk", "suspend")
  BY DEF DirectHybrid
<1>3. Fits(files') /\ \A f \in DOMAIN original : f # "disk" => files'[f] = files[f]
  BY <1>1, <1>2, SetFacts
<1> QED
  BY <1>3 DEF DirectHybrid, DirectSleep, DirectFails, Running

LEMMA SettingsInit ==
  Init => SettingsInv /\ DebugInv /\ SleepInv /\ WarnInv /\ BufferInv /\ DiskInv
<1> SUFFICES ASSUME Init PROVE SettingsInv /\ DebugInv /\ SleepInv /\ WarnInv /\ BufferInv /\ DiskInv
  OBVIOUS
<1>1. files = original /\ Ordinary(original)
  BY SleepTestsAssumption DEF Init
<1>2. DOMAIN saved = Settings /\ saved["buffer_size_kb"] = "-1"
  BY DEF Init, Settings
<1>3. pc = "init" /\ ~aborted
  BY DEF Init
<1> QED
  BY <1>1, <1>2, <1>3
  DEF SettingsInv, Ordinary, Fits, DebugInv, SleepInv, WarnInv, BufferInv, DiskInv, Has

LEMMA SettingsNext ==
  ASSUME PlaceType, SettingsInv, WarnInv, BufferInv, [Next]_vars
  PROVE  SettingsInv'
<1>1. original' = original
  BY WritersOnly
<1>2. Fits(files')
  <2>1. UNCHANGED files => Fits(files')
    BY DEF SettingsInv
  <2> QED
    BY <2>1, WritersOnly, S3InitWrites, BeginWrites, S3ReportWrites, S4ResumedWrites, S4ReportWrites, HybridWrites
    DEF testVars
<1>3. DOMAIN saved' = Settings
  <2>1. UNCHANGED saved => DOMAIN saved' = Settings
    BY DEF SettingsInv
  <2>2. S3Init \/ Begin \/ S4Resumed => DOMAIN saved' = Settings
    BY DEF SettingsInv, S3Init, Begin, S4Resumed
  <2>3. S3Report \/ S4Report => UNCHANGED saved
    BY DEF S3Report, S4Report
  <2> QED
    BY <2>1, <2>2, <2>3, WritersOnly, HybridWrites DEF testVars
<1>4. aborted' => pc' = "done"
  <2>1. UNCHANGED aborted /\ pc # "done" => (aborted' => pc' = "done")
    BY DEF SettingsInv
  <2>2. UNCHANGED <<aborted, pc>> => (aborted' => pc' = "done")
    BY DEF SettingsInv
  <2>3. S4Fails => (aborted' => pc' = "done")
    <3> SUFFICES ASSUME S4Fails PROVE aborted' => pc' = "done"
      OBVIOUS
    <3>1. pc = "cycle" /\ test = "s4"
      BY DEF S4Fails, At, Running
    <3>2. CASE retrying
      <4>1. UNCHANGED aborted
        BY <3>2 DEF S4Fails
      <4> QED
        BY <2>1, <3>1, <4>1
    <3>3. CASE ~retrying
      BY <3>1, <3>3 DEF S4Fails, NextTest
    <3> QED
      BY <3>2, <3>3
  <2>4. S3Init \/ Begin \/ S3Report \/ S4Resumed \/ S4Report \/ CannotRun \/ S4Init =>
          UNCHANGED aborted /\ pc # "done"
    BY DEF S3Init, Begin, S3Report, S4Resumed, S4Report, CannotRun, S4Init, At, Running, testVars
  <2> QED
    BY <2>1, <2>2, <2>3, <2>4, WritersOnly, HybridWrites
<1>5. Ordinary(original)
  BY DEF SettingsInv
<1> QED
  BY <1>1, <1>2, <1>3, <1>4, <1>5 DEF SettingsInv, Fits

LEMMA DebugNext ==
  ASSUME PlaceType, SettingsInv, WarnInv, BufferInv, DebugInv, [Next]_vars
  PROVE  DebugInv'
<1> USE DEF PlaceType, Places, Running, At, DebugInv, Has, Original
<1>0. original' = original /\ "pm_debug" \in Settings
  BY WritersOnly DEF Settings
<1>1. CASE S3Init
  BY <1>0, <1>1, S3InitWrites DEF S3Init
<1>2. CASE Begin
  <2>1. saved'["pm_debug"] = Get("pm_debug")
    BY <1>2 DEF Begin, SettingsInv, Settings
  <2>2. Get("pm_debug") = Original("pm_debug")
    BY <1>0, <1>2, GetFacts DEF Begin
  <2> QED
    BY <1>0, <1>2, <2>1, <2>2 DEF Begin
<1>3. CASE S3Report
  <2>1. Has("pm_debug") => saved["pm_debug"] # "-1"
    BY <1>3 DEF S3Report, SettingsInv, Ordinary
  <2> QED
    BY <1>0, <1>3, <2>1, S3ReportWrites DEF S3Report, NextTest
<1>4. CASE S4Resumed
  <2>1. saved'["pm_debug"] = saved["pm_debug"]
    BY <1>4 DEF S4Resumed, SettingsInv, Settings
  <2>2. pc = "resumed" /\ pc' \in {"cycle", "report"}
    BY <1>4 DEF S4Resumed
  <2> QED
    BY <1>0, <2>1, <2>2
<1>5. CASE S4Report
  <2>1. Has("pm_debug") => saved["pm_debug"] # "-1"
    BY <1>5 DEF S4Report, SettingsInv, Ordinary
  <2> QED
    BY <1>0, <1>5, <2>1, S4ReportWrites DEF S4Report, NextTest
<1>6. CASE CannotRun /\ UNCHANGED <<files, saved>>
  <2>1. pc = "init" /\ pc' \in {"init", "done"}
    BY <1>6 DEF CannotRun, NextTest
  <2> QED
    BY <1>0, <1>6, <2>1
<1>7. CASE S4Init /\ UNCHANGED testVars
  BY <1>0, <1>7 DEF S4Init, testVars
<1>8. CASE S4Fails /\ UNCHANGED <<files, saved>>
  <2>1. pc = "cycle" /\ (pc' = "report" \/ (pc' = "done" /\ aborted'))
    BY <1>8 DEF S4Fails, NextTest
  <2> QED
    BY <1>0, <1>8, <2>1
<1>9. CASE UNCHANGED <<files, saved, test, aborted>> /\ pc' = pc
  BY <1>0, <1>9
<1>10. CASE /\ UNCHANGED <<files, saved, test, aborted>>
            /\ pc \notin {"init", "begin", "done"} /\ pc' \notin {"init", "begin", "done"}
  BY <1>0, <1>10
<1>11. CASE DirectHybrid
  BY <1>0, <1>11, HybridWrites
<1> QED
  BY <1>1, <1>2, <1>3, <1>4, <1>5, <1>6, <1>7, <1>8, <1>9, <1>10, <1>11, WritersOnly

LEMMA SleepNext ==
  ASSUME PlaceType, SettingsInv, WarnInv, BufferInv, SleepInv, [Next]_vars
  PROVE  SleepInv'
<1> USE DEF PlaceType, Places, Running, At, SleepInv, Has
<1>0. original' = original /\ "mem_sleep" \in Settings
  BY WritersOnly DEF Settings
<1>1. CASE S3Init
  <2>1. saved'["mem_sleep"] = IF Get("mem_sleep") = "s2idle" THEN "s2idle" ELSE "deep"
    BY <1>1 DEF S3Init, SettingsInv, Settings
  <2>2. Has("mem_sleep") /\ original["mem_sleep"] \in {"s2idle", "deep"} =>
          Get("mem_sleep") = original["mem_sleep"]
    BY <1>0, <1>1, GetFacts DEF S3Init
  <2> QED
    BY <1>0, <1>1, <2>1, <2>2 DEF S3Init
<1>2. CASE Begin
  <2>1. saved'["mem_sleep"] = saved["mem_sleep"]
    BY <1>2 DEF Begin, SettingsInv, Settings
  <2> QED
    BY <1>0, <1>2, <2>1, BeginWrites DEF Begin
<1>3. CASE S3Report
  BY <1>0, <1>3, S3ReportWrites DEF S3Report, NextTest
<1>4. CASE S4Resumed
  BY <1>0, <1>4, S4ResumedWrites DEF S4Resumed
<1>5. CASE S4Report
  BY <1>0, <1>5, S4ReportWrites DEF S4Report, NextTest
<1>6. CASE CannotRun /\ UNCHANGED <<files, saved>>
  BY <1>0, <1>6 DEF CannotRun, NextTest
<1>7. CASE S4Init /\ UNCHANGED testVars
  BY <1>0, <1>7 DEF S4Init, testVars
<1>8. CASE S4Fails /\ UNCHANGED <<files, saved>>
  BY <1>0, <1>8 DEF S4Fails, NextTest
<1>9. CASE UNCHANGED <<files, saved, test, aborted>> /\ pc' = pc
  BY <1>0, <1>9
<1>10. CASE /\ UNCHANGED <<files, saved, test, aborted>>
            /\ pc \notin {"init", "begin", "done"} /\ pc' \notin {"init", "begin", "done"}
  BY <1>0, <1>10
<1>11. CASE DirectHybrid
  BY <1>0, <1>11, HybridWrites
<1> QED
  BY <1>1, <1>2, <1>3, <1>4, <1>5, <1>6, <1>7, <1>8, <1>9, <1>10, <1>11, WritersOnly

LEMMA WarnNext ==
  ASSUME PlaceType, SettingsInv, BufferInv, WarnInv, [Next]_vars
  PROVE  WarnInv'
<1> USE DEF PlaceType, Places, Running, At, WarnInv, Has
<1>0. original' = original /\ "s0ix_warn" \in Settings
  BY WritersOnly DEF Settings
<1>1. CASE S3Init
  <2>1. saved'["s0ix_warn"] = Get("s0ix_warn")
    BY <1>1 DEF S3Init, SettingsInv, Settings
  <2>2. Has("s0ix_warn") => /\ Get("s0ix_warn") = original["s0ix_warn"]
                            /\ original["s0ix_warn"] \in {"Y", "N"}
    BY <1>0, <1>1, GetFacts DEF S3Init, SettingsInv, Ordinary
  <2> QED
    BY <1>0, <1>1, <2>1, <2>2, S3InitWrites DEF S3Init
<1>2. CASE Begin
  <2>1. saved'["s0ix_warn"] = saved["s0ix_warn"]
    BY <1>2 DEF Begin, SettingsInv, Settings
  <2> QED
    BY <1>0, <1>2, <2>1, BeginWrites DEF Begin
<1>3. CASE S3Report
  BY <1>0, <1>3, S3ReportWrites DEF S3Report, NextTest
<1>4. CASE S4Resumed
  BY <1>0, <1>4, S4ResumedWrites DEF S4Resumed
<1>5. CASE S4Report
  BY <1>0, <1>5, S4ReportWrites DEF S4Report, NextTest
<1>6. CASE CannotRun /\ UNCHANGED <<files, saved>>
  BY <1>0, <1>6 DEF CannotRun, NextTest
<1>7. CASE S4Init /\ UNCHANGED testVars
  BY <1>0, <1>7 DEF S4Init, testVars
<1>8. CASE S4Fails /\ UNCHANGED <<files, saved>>
  BY <1>0, <1>8 DEF S4Fails, NextTest
<1>9. CASE UNCHANGED <<files, saved, test, aborted>> /\ pc' = pc
  BY <1>0, <1>9
<1>10. CASE /\ UNCHANGED <<files, saved, test, aborted>>
            /\ pc \notin {"init", "begin", "done"} /\ pc' \notin {"init", "begin", "done"}
  BY <1>0, <1>10
<1>11. CASE DirectHybrid
  BY <1>0, <1>11, HybridWrites
<1> QED
  BY <1>1, <1>2, <1>3, <1>4, <1>5, <1>6, <1>7, <1>8, <1>9, <1>10, <1>11, WritersOnly

LEMMA BufferNext ==
  ASSUME PlaceType, SettingsInv, WarnInv, BufferInv, [Next]_vars
  PROVE  BufferInv'
<1> USE DEF PlaceType, Places, Running, At, BufferInv, Has, Original
<1>0. original' = original /\ "buffer_size_kb" \in Settings
  BY WritersOnly DEF Settings
<1>1. CASE S3Init
  <2>1. saved'["buffer_size_kb"] = saved["buffer_size_kb"]
    BY <1>1 DEF S3Init, SettingsInv, Settings
  <2> QED
    BY <1>0, <1>1, <2>1, S3InitWrites
<1>2. CASE Begin
  <2>1. saved'["buffer_size_kb"] = "-1"
    BY <1>2 DEF Begin, SettingsInv, Settings
  <2> QED
    BY <1>0, <1>2, <2>1, BeginWrites
<1>3. CASE S3Report
  BY <1>0, <1>3, S3ReportWrites DEF S3Report
<1>4. CASE S4Resumed
  <2>1. saved'["buffer_size_kb"] \in {saved["buffer_size_kb"], Get("buffer_size_kb")}
    BY <1>4 DEF S4Resumed, SettingsInv, Settings
  <2>2. Get("buffer_size_kb") = Original("buffer_size_kb")
    BY <1>0, GetFacts
  <2> QED
    BY <1>0, <1>4, <2>1, <2>2, S4ResumedWrites
<1>5. CASE S4Report
  BY <1>0, <1>5, S4ReportWrites DEF S4Report, NextTest
<1>6. CASE CannotRun /\ UNCHANGED <<files, saved>>
  BY <1>0, <1>6 DEF CannotRun, NextTest
<1>7. CASE S4Init /\ UNCHANGED testVars
  BY <1>0, <1>7 DEF S4Init, testVars
<1>8. CASE S4Fails /\ UNCHANGED <<files, saved>>
  BY <1>0, <1>8 DEF S4Fails, NextTest
<1>9. CASE UNCHANGED <<files, saved, test, aborted>> /\ pc' = pc
  BY <1>0, <1>9
<1>10. CASE /\ UNCHANGED <<files, saved, test, aborted>>
            /\ pc \notin {"init", "begin", "done"} /\ pc' \notin {"init", "begin", "done"}
  BY <1>0, <1>10
<1>11. CASE DirectHybrid
  BY <1>0, <1>11, HybridWrites
<1> QED
  BY <1>1, <1>2, <1>3, <1>4, <1>5, <1>6, <1>7, <1>8, <1>9, <1>10, <1>11, WritersOnly

\* A method, once detected, stays.
LEMMA MethodStays == [Next]_vars /\ method = "sysfs" => method' = "sysfs"
BY DEF Next, Program, CannotRun, S3Init, S4Init, Begin, BeginCycle, Prepare, S3Resumed, EndCall,
   S3NoMemory, NoMemory, S3NoProxy, NoProxy, S3Report, S4Resumed, S4Fails, S4Report, Detected,
   MethodOnly, DirectHybrid, MethodStep, CallLogind, LogindGivesUp, LogindDo, SleepSignal, ResumeSignal,
   OrphanFires, DirectSleep, DirectFails, DirectResumes, Environment, ForeignResume, FallAsleep,
   AlarmWakes, OtherWakes, AlarmUnheard, Wake, Terminating, vars, suspendVars

LEMMA DiskNext ==
  ASSUME PlaceType, SettingsInv, WarnInv, BufferInv, DiskInv, [Next]_vars
  PROVE  DiskInv'
<1>0. original' = original /\ (Hybrid /\ method = "sysfs" => method' = "sysfs")
  BY WritersOnly, MethodStays
<1>1. CASE DirectHybrid
  BY <1>1, HybridWrites DEF DiskInv
<1>2. Has("disk") /\ ~DirectHybrid => files'["disk"] = files["disk"]
  BY WritersOnly, S3InitWrites, BeginWrites, S3ReportWrites, S4ResumedWrites, S4ReportWrites
  DEF testVars, Has
<1> QED
  BY <1>0, <1>1, <1>2 DEF DiskInv, Has

(* When the tests are over the machine has the settings it had, whichever   *)
(* tests ran and whatever failed; but a hibernation that could not be tried  *)
(* leaves pm_debug_messages on, a sleep type other than "s2idle" and "deep"  *)
(* may come back as "deep", and /sys/power/disk stays as hybrid sleep by     *)
(* sysfs needs it.                                                           *)
THEOREM SettingsAlwaysRestored == Spec => []SettingsRestored
<1> DEFINE Inv == PlaceType /\ SettingsInv /\ DebugInv /\ SleepInv /\ WarnInv /\ BufferInv /\ DiskInv
<1>1. Init => Inv
  BY PlaceInit, SettingsInit
<1>2. Inv /\ [Next]_vars => Inv'
  BY PlaceNext, SettingsNext, DebugNext, SleepNext, WarnNext, BufferNext, DiskNext
<1>3. Inv => SettingsRestored
  <2> SUFFICES ASSUME Inv, pc = "done", NEW file \in DOMAIN original
               PROVE  \/ files[file] = original[file]
                      \/ file = "pm_debug" /\ aborted
                      \/ file = "mem_sleep" /\ original[file] \notin {"s2idle", "deep"}
                      \/ file = "disk" /\ Hybrid /\ method = "sysfs"
    BY DEF SettingsRestored
  <2>1. file \in Settings /\ test = "none"
    BY DEF SettingsInv, Ordinary, PlaceType
  <2>2. CASE file = "pm_debug"
    BY <2>2 DEF DebugInv, Has
  <2>3. CASE file = "mem_sleep"
    BY <2>1, <2>3 DEF SleepInv, Has
  <2>4. CASE file = "s0ix_warn"
    BY <2>1, <2>4 DEF WarnInv, Has
  <2>5. CASE file = "buffer_size_kb"
    BY <2>5 DEF BufferInv, Has
  <2>6. CASE file = "disk"
    BY <2>6 DEF DiskInv, Has
  <2> QED
    BY <2>1, <2>2, <2>3, <2>4, <2>5, <2>6 DEF Settings
<1> QED
  BY <1>1, <1>2, <1>3, PTL DEF Spec

-----------------------------------------------------------------------------
(* The other types. *)

LEMMA MethodTypeNext == MethodType /\ [Next]_vars => MethodType'
<1> SUFFICES ASSUME MethodType, [Next]_vars PROVE MethodType'
  OBVIOUS
<1> USE DEF MethodType
<1>1. CASE UNCHANGED <<method, alarm, timer, faulted>>
  BY <1>1
<1>2. CASE BeginCycle
  BY <1>2 DEF BeginCycle, Prepare, SetAlarm, MayFail, Detected
<1>3. CASE S3Resumed \/ S4Resumed
  <2>1. EndCall
    BY <1>3 DEF S3Resumed, S4Resumed
  <2> QED
    BY <2>1 DEF EndCall
<1>4. CASE S3NoProxy \/ S3NoMemory \/ S4Fails
  BY <1>4 DEF S3NoProxy, S3NoMemory, S4Fails, NoProxy, NoMemory, Detected
<1>5. CASE MethodStep
  BY <1>5 DEF MethodStep, CallLogind, LogindGivesUp, LogindDo, SleepSignal, ResumeSignal, OrphanFires,
       DirectSleep, DirectFails, DirectResumes, MayFail, suspendVars
<1>6. CASE Environment
  BY <1>6 DEF Environment, ForeignResume, FallAsleep, AlarmWakes, OtherWakes, AlarmUnheard, Wake, MayFail
<1>7. Program => \/ BeginCycle \/ S3Resumed \/ S4Resumed \/ S3NoProxy \/ S3NoMemory \/ S4Fails
                 \/ MethodStep \/ UNCHANGED <<method, alarm, timer, faulted>>
  BY MethodSteps DEF Program, CannotRun, S3Init, S4Init, Begin, S3Report, S4Report, suspendVars
<1> QED
  BY <1>1, <1>2, <1>3, <1>4, <1>5, <1>6, <1>7 DEF Next, Terminating, vars, suspendVars

LEMMA FlagTypeNext == FlagType /\ [Next]_vars => FlagType'
<1> SUFFICES ASSUME FlagType, [Next]_vars PROVE FlagType'
  OBVIOUS
<1> QED
  BY Zenon DEF FlagType, Next, Program, MethodOnly, DirectHybrid, CannotRun, S3Init, S4Init, Begin, BeginCycle, Prepare,
     S3Resumed, S3NoMemory, S3NoProxy, S3Report, S4Resumed, S4Fails, S4Report, NoMemory, NoProxy,
     EndCall, MethodStep, CallLogind, LogindGivesUp, LogindDo, SleepSignal, ResumeSignal, OrphanFires,
     DirectSleep, DirectFails, DirectResumes, Environment, ForeignResume, FallAsleep, AlarmWakes,
     OtherWakes, AlarmUnheard, Wake, Terminating, vars, suspendVars, testVars

LEMMA AwakeFacts ==
  /\ MinDelay \in MinDelay .. MaxDelay
  /\ \A delay \in MinDelay .. MaxDelay : NextAwake(delay) \in MinDelay .. MaxDelay
BY SleepTestsAssumption DEF NextAwake

LEMMA LoopTypeNext == LoopType /\ [Next]_vars => LoopType'
<1> SUFFICES ASSUME LoopType, [Next]_vars PROVE LoopType'
  OBVIOUS
<1> USE DEF LoopType
<1>0. Cycles \in Nat /\ Checks \subseteq Counters /\ {"pm", "hook"} \subseteq Counters
  BY SleepTestsAssumption DEF Counters
<1>1. CASE UNCHANGED <<cycle, awake, errors, saved, cut>>
  BY <1>1
<1>2. CASE S3Init \/ Begin
  <2>1. DOMAIN saved' = DOMAIN saved
    BY <1>2 DEF S3Init, Begin
  <2>2. \/ UNCHANGED <<cycle, awake, errors, cut>>
        \/ cycle' = 0 /\ awake' = MinDelay /\ errors' = {} /\ cut' = {}
    BY <1>2 DEF S3Init, Begin
  <2>3. CASE UNCHANGED <<cycle, awake, errors, cut>>
    BY <2>1, <2>3
  <2>4. CASE cycle' = 0 /\ awake' = MinDelay /\ errors' = {} /\ cut' = {}
    <3>1. 0 \in 0 .. Cycles
      BY <1>0
    <3> QED
      BY <2>1, <2>4, <3>1, AwakeFacts
  <2> QED
    BY <2>2, <2>3, <2>4
<1>3. CASE BeginCycle
  BY <1>0, <1>3 DEF BeginCycle
<1>4. CASE S3Resumed
  <2>1. errors' \subseteq Counters
    BY <1>0, <1>4 DEF S3Resumed
  <2>2. awake' \in {awake, NextAwake(awake)} /\ UNCHANGED <<cycle, saved>>
    BY <1>4 DEF S3Resumed
  <2>3. cut' \subseteq cut \union {"asked"}
    BY <1>4 DEF S3Resumed
  <2> QED
    BY <2>1, <2>2, <2>3, AwakeFacts
<1>5. CASE S3NoProxy
  <2>1. cycle' = cycle + 1 /\ cycle < Cycles /\ awake' = NextAwake(awake) /\ UNCHANGED saved
    BY <1>5 DEF S3NoProxy
  <2>2. errors' \subseteq Counters /\ cut' \subseteq cut \union {"unasked"}
    BY <1>0, <1>5 DEF S3NoProxy
  <2> QED
    BY <1>0, <2>1, <2>2, AwakeFacts
<1>6. CASE S4Resumed
  <2>1. errors' \subseteq Counters
    BY <1>0, <1>6 DEF S4Resumed
  <2>2. awake' \in {awake, NextAwake(awake)} /\ UNCHANGED cycle /\ DOMAIN saved' = DOMAIN saved
    BY <1>6 DEF S4Resumed
  <2>3. cut' \subseteq cut \union {"asked"}
    BY <1>6 DEF S4Resumed
  <2> QED
    BY <2>1, <2>2, <2>3, AwakeFacts
<1>7. CASE S3NoMemory \/ S4Fails
  <2>1. cut' \subseteq cut \union {"asked", "unasked"} /\ UNCHANGED <<cycle, awake, errors, saved>>
    BY <1>7 DEF S3NoMemory, S4Fails
  <2> QED
    BY <2>1
<1>8. Program => \/ S3Init \/ Begin \/ BeginCycle \/ S3Resumed \/ S3NoProxy \/ S4Resumed
                 \/ S3NoMemory \/ S4Fails \/ UNCHANGED <<cycle, awake, errors, saved, cut>>
  BY MethodSteps DEF Program, CannotRun, S4Init, S3Report, S4Report, testVars
<1> QED
  BY <1>1, <1>2, <1>3, <1>4, <1>5, <1>6, <1>7, <1>8 DEF Next, Terminating, vars, testVars

(* The variables have their types: the time awake stays between its bounds  *)
(* and no more cycles are counted than were asked for.                       *)
THEOREM TypeCorrect == Spec => []TypeOK
<1>1. Init => MethodType /\ FlagType /\ LoopType
  <2> SUFFICES ASSUME Init PROVE MethodType /\ FlagType /\ LoopType
    OBVIOUS
  <2>1. MethodType
    BY DEF Init, SuspendInit, MethodType
  <2>2. FlagType
    BY DEF Init, SuspendInit, FlagType
  <2>3. LoopType
    BY AwakeFacts, SleepTestsAssumption DEF Init, LoopType
  <2> QED
    BY <2>1, <2>2, <2>3
<1>2. PlaceType /\ TimeType /\ SignalType /\ MethodType /\ FlagType /\ LoopType => TypeOK
  BY DEF PlaceType, Places, TimeType, SignalType, MethodType, FlagType, LoopType, TypeOK, SuspendTypeOK
<1> QED
  BY <1>1, <1>2, PlaceInit, PlaceNext, TimeInit, TimeNext, SignalInit, SignalNext,
     MethodTypeNext, FlagTypeNext, LoopTypeNext, PTL DEF Spec
=============================================================================
