---------------------------- MODULE PipeIoProofs ----------------------------
(***************************************************************************)
(* Proofs about PipeIo: for any set of commands, any amount of input and   *)
(* output, pipes of any capacity and any of the failures.  At the end the  *)
(* same for IaslPipe, for anything the compiler may print.                 *)
(***************************************************************************)
EXTENDS PipeIo, IaslPipe, SequenceTheorems, FiniteSetTheorems, TLAPS

\* The parent has the read end of the output.
Looping == {"poll", "read", "write"}

ParentType ==
  /\ pc \in Looping \cup {"open", "close", "wait", "done", "killed"}
  /\ fds \subseteq {"inR", "inW", "outR", "outW"}
  /\ inLeft \in Nat
  /\ ready \subseteq {"in", "out"}
  /\ rc \in {"ok", "failed"}
  /\ status \in {0, 1, 13, NotReaped}
  /\ ret \in {"none", "ok", "exec_error", "error"}

ChildType ==
  /\ child \in {"none", "running", "exited", "reaped"}
  /\ taken \in Nat
  /\ printed \in 0 .. job.prints
  /\ died \in {0, 1, 13}

FlagType == sawEof \in BOOLEAN /\ cut \in BOOLEAN

PipeType ==
  /\ job \in Jobs
  /\ inPipe \in 0 .. Capacity
  /\ outPipe \in 0 .. Capacity
  /\ got \in Nat

\* Nothing is lost on the way: what was sent is in the pipe or with the child,
\* what was printed is in the pipe or with the parent, unless that gave up.
Conserved ==
  /\ inLeft + inPipe + taken = Input
  /\ IF rc = "ok" THEN got + outPipe = printed ELSE got = 0

\* Where the parent and the child can be together.
Together ==
  /\ pc = "open" <=> child = "none" /\ ret = "none"
  /\ child = "none" => pc \in {"open", "done"}
  /\ child = "reaped" => pc = "done"
  /\ pc \in Looping \cup {"open"} => rc = "ok" /\ cut = FALSE
  /\ ret = "none" <=> pc # "done"
  /\ pc \in Looping => "outR" \in fds /\ job.caller # "exec"
  /\ pc = "wait" => fds = {}
  /\ pc = "done" /\ ret # "error" => fds = {}

\* A child that ended by itself printed all it had to; the others could not,
\* the parent no longer listened.
EndedWell ==
  child \in {"exited", "reaped"} =>
    \/ printed = job.prints /\ died = job.code
    \/ died = 13 /\ pc \notin Looping

\* poll() does not lie: what it called readable still has data, or an end.
PollHolds == pc = "read" /\ "out" \in ready => outPipe > 0 \/ child = "exited"

\* Past the loop all the output is there, unless an error or a signal ended it.
ReadToTheEnd ==
  pc \in {"close", "wait", "done"} /\ job.caller # "exec" /\ ret # "error" =>
    \/ rc = "failed" \/ cut
    \/ got = job.prints /\ outPipe = 0 /\ child \in {"exited", "reaped"}

OkIsOk == ret = "ok" => child = "reaped" /\ died = 0 /\ rc = "ok"

Inv ==
  ParentType /\ ChildType /\ FlagType /\ PipeType /\ Conserved /\ Together /\ EndedWell
    /\ PollHolds /\ ReadToTheEnd /\ OkIsOk

-----------------------------------------------------------------------------
LEMMA JobFacts ==
  ASSUME job \in Jobs
  PROVE  /\ job.caller \in {"exec", "pipe_exec", "exec2", "dtc"}
         /\ job.reads \in {"none", "all", "eof"}
         /\ job.prints \in Nat /\ job.code \in {0, 1}
BY PipeIoAssumption DEF Job

LEMMA InvInit == Init => Inv
<1> SUFFICES ASSUME Init PROVE Inv
  OBVIOUS
<1>1. job \in Jobs /\ job.prints \in Nat
  BY JobFacts DEF Init
<1>2. ParentType
  BY PipeIoAssumption DEF Init, ParentType, Looping, NotReaped
<1>5. PipeType
  BY PipeIoAssumption DEF Init, PipeType
<1>6. FlagType
  BY DEF Init, FlagType
<1>3. ChildType /\ Conserved /\ Together
  BY <1>1, PipeIoAssumption DEF Init, ChildType, Conserved, Together, Looping
<1>4. EndedWell /\ PollHolds /\ ReadToTheEnd /\ OkIsOk
  BY DEF Init, EndedWell, PollHolds, ReadToTheEnd, OkIsOk
<1> QED
  BY <1>2, <1>3, <1>4, <1>5, <1>6 DEF Inv

LEMMA ParentTypeNext == Inv /\ [Next]_vars => ParentType'
<1> SUFFICES ASSUME Inv, [Next]_vars PROVE ParentType'
  OBVIOUS
<1> USE DEF Inv, ParentType, Looping
<1>1. CASE Open
  BY <1>1 DEF Open, Opened
<1>2. CASE OpenNoPipe \/ OpenNoFork
  BY <1>2 DEF OpenNoPipe, OpenNoFork, Opened
<1>3. CASE Poll
  BY <1>3 DEF Poll
<1>4. CASE PollInterrupted
  BY <1>4 DEF PollInterrupted
<1>5. CASE Read
  BY <1>5 DEF Read
<1>6. CASE ReadNoMemory
  BY <1>6 DEF ReadNoMemory, Fail
<1>7. CASE Write
  BY <1>7 DEF Write
<1>8. CASE Close
  BY <1>8 DEF Close
<1>9. CASE Wait \/ WaitInterrupted
  BY <1>9 DEF Wait, WaitInterrupted, Result, ChildType
<1>10. CASE ChildStep
  BY <1>10 DEF ChildStep, ChildReads, ChildPrints, ChildExits, parent
<1>11. CASE Terminating \/ UNCHANGED vars
  BY <1>11 DEF Terminating, vars, parent
<1> QED
  BY <1>1, <1>2, <1>3, <1>4, <1>5, <1>6, <1>7, <1>8, <1>9, <1>10, <1>11 DEF Next, ParentStep

LEMMA ChildTypeNext == Inv /\ [Next]_vars => ChildType'
<1> SUFFICES ASSUME Inv, [Next]_vars PROVE ChildType'
  OBVIOUS
<1> USE DEF Inv, ChildType
<1>0. job.prints \in Nat /\ job.code \in {0, 1}
  BY JobFacts DEF PipeType
<1>1. CASE Open
  BY <1>0, <1>1 DEF Open, Opened
<1>2. CASE OpenNoPipe \/ OpenNoFork
  BY <1>0, <1>2 DEF OpenNoPipe, OpenNoFork, childVars
<1>3. CASE Poll \/ PollInterrupted
  BY <1>0, <1>3 DEF Poll, PollInterrupted, childVars
<1>4. CASE Read
  BY <1>0, <1>4 DEF Read, childVars
<1>5. CASE ReadNoMemory
  BY <1>0, <1>5 DEF ReadNoMemory, Fail, childVars
<1>6. CASE Write
  BY <1>0, <1>6 DEF Write, childVars
<1>7. CASE Close
  BY <1>0, <1>7 DEF Close, childVars
<1>8. CASE Wait \/ WaitInterrupted
  BY <1>0, <1>8 DEF Wait, WaitInterrupted, childVars
<1>9. CASE ChildReads
  BY <1>0, <1>9 DEF ChildReads, parent
<1>10. CASE ChildPrints
  BY <1>0, <1>10 DEF ChildPrints, parent
<1>11. CASE ChildExits
  BY <1>0, <1>11 DEF ChildExits, parent
<1>12. CASE Terminating \/ UNCHANGED vars
  BY <1>0, <1>12 DEF Terminating, vars, parent, childVars
<1> QED
  BY <1>1, <1>2, <1>3, <1>4, <1>5, <1>6, <1>7, <1>8, <1>9, <1>10, <1>11, <1>12
     DEF Next, ParentStep, ChildStep

LEMMA FlagTypeNext == Inv /\ [Next]_vars => FlagType'
<1> SUFFICES ASSUME FlagType, [Next]_vars PROVE FlagType'
  BY DEF Inv
<1> QED
  BY Zenon DEF FlagType, Next, ParentStep, Open, OpenNoPipe, OpenNoFork, Poll,
     PollInterrupted, Read, ReadNoMemory, Write, Close, Wait, WaitInterrupted, ChildStep,
     ChildReads, ChildPrints, ChildExits, Terminating, childVars, parent, vars

LEMMA PipeTypeNext == Inv /\ [Next]_vars => PipeType'
<1> SUFFICES ASSUME Inv, [Next]_vars PROVE PipeType'
  OBVIOUS
<1> USE DEF Inv, ParentType, ChildType, PipeType
<1>1. CASE Open
  BY PipeIoAssumption, <1>1 DEF Open, Opened
<1>2. CASE OpenNoPipe \/ OpenNoFork
  BY PipeIoAssumption, <1>2 DEF OpenNoPipe, OpenNoFork, childVars
<1>3. CASE Poll \/ PollInterrupted
  BY PipeIoAssumption, <1>3 DEF Poll, PollInterrupted, childVars
<1>4. CASE Read
  BY PipeIoAssumption, <1>4 DEF Read, childVars
<1>5. CASE ReadNoMemory
  BY PipeIoAssumption, <1>5 DEF ReadNoMemory, Fail, childVars
<1>6. CASE Write
  BY PipeIoAssumption, <1>6 DEF Write, childVars
<1>7. CASE Close
  BY PipeIoAssumption, <1>7 DEF Close, childVars
<1>8. CASE Wait \/ WaitInterrupted
  BY PipeIoAssumption, <1>8 DEF Wait, WaitInterrupted, childVars
<1>9. CASE ChildReads
  BY PipeIoAssumption, <1>9 DEF ChildReads, parent
<1>10. CASE ChildPrints
  BY PipeIoAssumption, <1>10 DEF ChildPrints, parent
<1>11. CASE ChildExits
  BY PipeIoAssumption, <1>11 DEF ChildExits, parent
<1>12. CASE Terminating \/ UNCHANGED vars
  BY PipeIoAssumption, <1>12 DEF Terminating, vars, parent, childVars
<1> QED
  BY <1>1, <1>2, <1>3, <1>4, <1>5, <1>6, <1>7, <1>8, <1>9, <1>10, <1>11, <1>12
     DEF Next, ParentStep, ChildStep

LEMMA ConservedNext == Inv /\ [Next]_vars => Conserved'
<1> SUFFICES ASSUME Inv, [Next]_vars PROVE Conserved'
  OBVIOUS
<1> USE DEF Inv, ParentType, ChildType, PipeType, Conserved, Together, Looping
<1>1. CASE Open
  BY PipeIoAssumption, <1>1 DEF Open, Opened
<1>2. CASE OpenNoPipe \/ OpenNoFork
  BY PipeIoAssumption, <1>2 DEF OpenNoPipe, OpenNoFork, childVars
<1>3. CASE Poll \/ PollInterrupted
  BY PipeIoAssumption, <1>3 DEF Poll, PollInterrupted, childVars
<1>4. CASE Read
  BY PipeIoAssumption, <1>4 DEF Read, childVars
<1>5. CASE ReadNoMemory
  BY PipeIoAssumption, <1>5 DEF ReadNoMemory, Fail, childVars
<1>6. CASE Write
  BY PipeIoAssumption, <1>6 DEF Write, childVars
<1>7. CASE Close
  BY PipeIoAssumption, <1>7 DEF Close, childVars
<1>8. CASE Wait \/ WaitInterrupted
  BY PipeIoAssumption, <1>8 DEF Wait, WaitInterrupted, childVars
<1>9. CASE ChildReads
  BY PipeIoAssumption, <1>9 DEF ChildReads, parent
<1>10. CASE ChildPrints
  BY PipeIoAssumption, <1>10 DEF ChildPrints, parent
<1>11. CASE ChildExits
  BY PipeIoAssumption, <1>11 DEF ChildExits, parent
<1>12. CASE Terminating \/ UNCHANGED vars
  BY PipeIoAssumption, <1>12 DEF Terminating, vars, parent, childVars
<1> QED
  BY <1>1, <1>2, <1>3, <1>4, <1>5, <1>6, <1>7, <1>8, <1>9, <1>10, <1>11, <1>12
     DEF Next, ParentStep, ChildStep

LEMMA TogetherNext == Inv /\ [Next]_vars => Together'
<1> SUFFICES ASSUME Inv, [Next]_vars PROVE Together'
  OBVIOUS
<1> USE DEF Inv, ParentType, Together, Looping
<1>0. job \in Jobs /\ job.caller \in {"exec", "pipe_exec", "exec2", "dtc"}
  BY JobFacts DEF PipeType
<1>1. CASE Open
  <2>1. "outR" \in Opened \ {"inR", "outW"}
    BY DEF Opened
  <2> QED
    BY <1>1, <2>1 DEF Open, HasInput
<1>2. CASE OpenNoPipe \/ OpenNoFork
  BY <1>2 DEF OpenNoPipe, OpenNoFork, childVars
<1>3. CASE Poll
  BY <1>3 DEF Poll, childVars
<1>4. CASE PollInterrupted
  BY <1>4 DEF PollInterrupted, childVars
<1>5. CASE Read
  BY <1>5 DEF Read, childVars
<1>6. CASE ReadNoMemory
  BY <1>6 DEF ReadNoMemory, Fail, childVars
<1>7. CASE Write
  BY <1>7 DEF Write, childVars
<1>8. CASE Close
  BY <1>8 DEF Close, childVars
<1>9. CASE Wait \/ WaitInterrupted
  BY <1>9 DEF Wait, WaitInterrupted, Result, childVars
<1>10. CASE ChildStep
  BY <1>10 DEF ChildStep, ChildReads, ChildPrints, ChildExits, parent, ChildType
<1>11. CASE Terminating \/ UNCHANGED vars
  BY <1>11 DEF Terminating, vars, parent, childVars
<1> QED
  BY <1>1, <1>2, <1>3, <1>4, <1>5, <1>6, <1>7, <1>8, <1>9, <1>10, <1>11 DEF Next, ParentStep

LEMMA EndedWellNext == Inv /\ [Next]_vars => EndedWell'
<1> SUFFICES ASSUME Inv, [Next]_vars PROVE EndedWell'
  OBVIOUS
<1> USE DEF Inv, ParentType, ChildType, Together, EndedWell, Looping
<1>0. job \in Jobs /\ job.prints \in Nat
  BY JobFacts DEF PipeType
<1>1. CASE Open
  BY <1>0, <1>1 DEF Open, Opened
<1>2. CASE OpenNoPipe \/ OpenNoFork
  BY <1>0, <1>2 DEF OpenNoPipe, OpenNoFork, childVars
<1>3. CASE Poll \/ PollInterrupted
  BY <1>0, <1>3 DEF Poll, PollInterrupted, childVars
<1>4. CASE Read
  BY <1>0, <1>4 DEF Read, childVars
<1>5. CASE ReadNoMemory
  BY <1>0, <1>5 DEF ReadNoMemory, Fail, childVars
<1>6. CASE Write
  BY <1>0, <1>6 DEF Write, childVars
<1>7. CASE Close
  BY <1>0, <1>7 DEF Close, childVars
<1>8. CASE Wait \/ WaitInterrupted
  BY <1>0, <1>8 DEF Wait, WaitInterrupted, childVars
<1>9. CASE ChildReads
  BY <1>0, <1>9 DEF ChildReads, parent
<1>10. CASE ChildPrints
  BY <1>0, <1>10 DEF ChildPrints, parent
<1>11. CASE ChildExits
  BY <1>0, <1>11 DEF ChildExits, parent
<1>12. CASE Terminating \/ UNCHANGED vars
  BY <1>0, <1>12 DEF Terminating, vars, parent, childVars
<1> QED
  BY <1>1, <1>2, <1>3, <1>4, <1>5, <1>6, <1>7, <1>8, <1>9, <1>10, <1>11, <1>12
     DEF Next, ParentStep, ChildStep

LEMMA PollHoldsNext == Inv /\ [Next]_vars => PollHolds'
<1> SUFFICES ASSUME Inv, [Next]_vars PROVE PollHolds'
  OBVIOUS
<1> USE DEF Inv, ParentType, PipeType, Together, PollHolds, Looping
<1>1. CASE Open
  BY <1>1 DEF Open, Opened
<1>2. CASE OpenNoPipe \/ OpenNoFork
  BY <1>2 DEF OpenNoPipe, OpenNoFork, childVars
<1>3. CASE Poll \/ PollInterrupted
  BY <1>3 DEF Poll, PollInterrupted, childVars, Readable, Gone
<1>4. CASE Read
  BY <1>4 DEF Read, childVars
<1>5. CASE ReadNoMemory
  BY <1>5 DEF ReadNoMemory, Fail, childVars
<1>6. CASE Write
  BY <1>6 DEF Write, childVars
<1>7. CASE Close
  BY <1>7 DEF Close, childVars
<1>8. CASE Wait \/ WaitInterrupted
  BY <1>8 DEF Wait, WaitInterrupted, childVars
<1>9. CASE ChildReads
  BY <1>9 DEF ChildReads, parent
<1>10. CASE ChildPrints
  BY <1>10 DEF ChildPrints, parent
<1>11. CASE ChildExits
  BY <1>11 DEF ChildExits, parent
<1>12. CASE Terminating \/ UNCHANGED vars
  BY <1>12 DEF Terminating, vars, parent, childVars
<1> QED
  BY <1>1, <1>2, <1>3, <1>4, <1>5, <1>6, <1>7, <1>8, <1>9, <1>10, <1>11, <1>12
     DEF Next, ParentStep, ChildStep

LEMMA ReadToTheEndNext == Inv /\ [Next]_vars => ReadToTheEnd'
<1> SUFFICES ASSUME Inv, [Next]_vars PROVE ReadToTheEnd'
  OBVIOUS
<1> USE DEF Inv, ParentType, ChildType, PipeType, Conserved, Together, EndedWell, PollHolds,
           ReadToTheEnd, Looping
<1>0. job \in Jobs /\ job.prints \in Nat
  BY JobFacts DEF PipeType
<1>1. CASE Open
  BY <1>0, <1>1 DEF Open, Opened
<1>2. CASE OpenNoPipe \/ OpenNoFork
  BY <1>0, <1>2 DEF OpenNoPipe, OpenNoFork, childVars
<1>3. CASE Poll \/ PollInterrupted
  BY <1>0, <1>3 DEF Poll, PollInterrupted, childVars
<1>4. CASE Read
  BY <1>0, <1>4 DEF Read, childVars
<1>5. CASE ReadNoMemory
  BY <1>0, <1>5 DEF ReadNoMemory, Fail, childVars
<1>6. CASE Write
  BY <1>0, <1>6 DEF Write, childVars
<1>7. CASE Close
  BY <1>0, <1>7 DEF Close, childVars
<1>8. CASE Wait \/ WaitInterrupted
  BY <1>0, <1>8 DEF Wait, WaitInterrupted, childVars
<1>9. CASE ChildReads
  BY <1>0, <1>9 DEF ChildReads, parent
<1>10. CASE ChildPrints
  BY <1>0, <1>10 DEF ChildPrints, parent
<1>11. CASE ChildExits
  BY <1>0, <1>11 DEF ChildExits, parent
<1>12. CASE Terminating \/ UNCHANGED vars
  BY <1>0, <1>12 DEF Terminating, vars, parent, childVars
<1> QED
  BY <1>1, <1>2, <1>3, <1>4, <1>5, <1>6, <1>7, <1>8, <1>9, <1>10, <1>11, <1>12
     DEF Next, ParentStep, ChildStep

LEMMA OkIsOkNext == Inv /\ [Next]_vars => OkIsOk'
<1> SUFFICES ASSUME Inv, [Next]_vars PROVE OkIsOk'
  OBVIOUS
<1> USE DEF Inv, ParentType, ChildType, Together, OkIsOk, Looping
<1>1. CASE Open
  BY <1>1 DEF Open, Opened
<1>2. CASE OpenNoPipe \/ OpenNoFork
  BY <1>2 DEF OpenNoPipe, OpenNoFork, childVars
<1>3. CASE Poll \/ PollInterrupted
  BY <1>3 DEF Poll, PollInterrupted, childVars
<1>4. CASE Read
  BY <1>4 DEF Read, childVars
<1>5. CASE ReadNoMemory
  BY <1>5 DEF ReadNoMemory, Fail, childVars
<1>6. CASE Write
  BY <1>6 DEF Write, childVars
<1>7. CASE Close
  BY <1>7 DEF Close, childVars
<1>8. CASE Wait \/ WaitInterrupted
  BY <1>8 DEF Wait, WaitInterrupted, childVars, Result
<1>9. CASE ChildReads
  BY <1>9 DEF ChildReads, parent
<1>10. CASE ChildPrints
  BY <1>10 DEF ChildPrints, parent
<1>11. CASE ChildExits
  BY <1>11 DEF ChildExits, parent
<1>12. CASE Terminating \/ UNCHANGED vars
  BY <1>12 DEF Terminating, vars, parent, childVars
<1> QED
  BY <1>1, <1>2, <1>3, <1>4, <1>5, <1>6, <1>7, <1>8, <1>9, <1>10, <1>11, <1>12
     DEF Next, ParentStep, ChildStep

LEMMA InvNext == Inv /\ [Next]_vars => Inv'
BY ParentTypeNext, ChildTypeNext, FlagTypeNext, PipeTypeNext, ConservedNext, TogetherNext,
   EndedWellNext, PollHoldsNext, ReadToTheEndNext, OkIsOkNext DEF Inv

LEMMA InvHolds == Spec => []Inv
BY InvInit, InvNext, PTL DEF Spec

-----------------------------------------------------------------------------
(* The variables have their types: no chunk is counted twice on the way, so *)
(* the parent never has more than the child is to print.                     *)
THEOREM TypeCorrect == Spec => []TypeOK
<1>1. Inv => TypeOK
  <2> SUFFICES ASSUME Inv PROVE TypeOK
    OBVIOUS
  <2>1. job.prints \in Nat
    BY JobFacts DEF Inv, PipeType
  <2>2. got \in 0 .. job.prints
    BY <2>1 DEF Inv, PipeType, Conserved, ChildType
  <2>3. inLeft \in 0 .. Input /\ taken \in 0 .. Input
    BY PipeIoAssumption DEF Inv, ParentType, PipeType, Conserved, ChildType
  <2>4. sawEof \in BOOLEAN /\ cut \in BOOLEAN
    BY DEF Inv, FlagType
  <2> QED
    BY <2>2, <2>3, <2>4 DEF TypeOK, Inv, ParentType, ChildType, PipeType, Looping
<1> QED
  BY <1>1, InvHolds, PTL

(* A command whose child failed, died or was not waited for is never called *)
(* a success, and with a success both pipes are closed.                      *)
THEOREM SuccessAlwaysReal == Spec => []SuccessIsReal
<1>1. Inv => SuccessIsReal
  BY DEF Inv, OkIsOk, Together, SuccessIsReal
<1> QED
  BY <1>1, InvHolds, PTL

(* The output handed on with a success is all the child printed, whatever   *)
(* the sizes of the output, of the pipe and of the single reads.             *)
THEOREM OutputAlwaysComplete == Spec => []OutputIsComplete
<1>1. Inv => OutputIsComplete
  <2> SUFFICES ASSUME Inv, ret = "ok", job.caller # "exec", cut = FALSE
               PROVE got = job.prints
    BY DEF OutputIsComplete, Inv, FlagType
  <2>1. pc = "done" /\ rc = "ok"
    BY DEF Inv, Together, OkIsOk
  <2> QED
    BY <2>1 DEF Inv, ReadToTheEnd
<1> QED
  BY <1>1, InvHolds, PTL

(* fwts_pipe_close() leaves no descriptor behind.                           *)
THEOREM AlwaysClosedAfterRun == Spec => []ClosedAfterRun
<1>1. Inv => ClosedAfterRun
  BY DEF Inv, Together, ClosedAfterRun
<1> QED
  BY <1>1, InvHolds, PTL

-----------------------------------------------------------------------------
(* What safety there is in CommandReturns: nobody is stuck.                 *)

\* The system call the parent is in can return.
ParentCanMove ==
  \/ pc \in {"open", "read", "write", "close"}
  \/ pc = "poll" /\ (Readable \/ Writable)
  \/ pc = "wait" /\ child = "exited"

\* The child can read, print, die of printing or exit.
ChildCanMove ==
  /\ child = "running"
  /\ \/ job.reads # "none" /\ ~sawEof /\ (inPipe > 0 \/ "inW" \notin fds)
     \/ printed < job.prints /\ ("outR" \notin fds \/ outPipe < Capacity)
     \/ printed = job.prints /\ Satisfied

\* Parent and child never wait for each other, and fwts writes to no child that
\* is gone, as long as the child takes the input it is sent.
NobodyStuck ==
  TakesItsInput =>
    /\ pc # "killed"
    /\ pc # "done" => ParentCanMove \/ ChildCanMove

\* A child that ended by itself while the parent still listened had had all the
\* input it wanted, and only the callers with an input pipe write to one.
SatisfiedEnd ==
  /\ child = "exited" /\ pc \in Looping => Satisfied
  /\ "in" \in ready \/ "inW" \in fds => HasInput
  /\ pc \in Looping /\ HasInput => "inW" \in fds
  /\ pc \in Looping \cup {"open"} /\ HasInput => sawEof = FALSE
  /\ TakesItsInput => pc # "killed"

LEMMA SatisfiedEndInit == Init => SatisfiedEnd
BY DEF Init, SatisfiedEnd, Looping

LEMMA SatisfiedEndNext == Inv /\ SatisfiedEnd /\ [Next]_vars => SatisfiedEnd'
<1> SUFFICES ASSUME Inv, SatisfiedEnd, [Next]_vars PROVE SatisfiedEnd'
  OBVIOUS
<1> USE DEF SatisfiedEnd, Looping, HasInput, TakesItsInput
<1>0. ParentType /\ Together /\ EndedWell
  BY DEF Inv
<1>1. CASE Open
  BY <1>0, <1>1 DEF Open, Opened, Together
<1>2. CASE OpenNoPipe \/ OpenNoFork
  BY <1>2 DEF OpenNoPipe, OpenNoFork, Opened
<1>3. CASE Poll
  BY <1>3 DEF Poll, Writable, Satisfied, childVars
<1>4. CASE PollInterrupted
  BY <1>4 DEF PollInterrupted
<1>5. CASE Read
  BY <1>5 DEF Read, Satisfied, childVars
<1>6. CASE ReadNoMemory
  BY <1>6 DEF ReadNoMemory, Fail
<1>7. CASE Write
  <2>1. TakesItsInput /\ "in" \in ready /\ Gone => ~(inLeft > 0)
    <3> SUFFICES ASSUME TakesItsInput, "in" \in ready, Gone PROVE ~(inLeft > 0)
      OBVIOUS
    <3>1. HasInput /\ job.reads = "all" /\ sawEof = FALSE /\ Satisfied
      BY <1>7 DEF Write, Gone
    <3>2. taken = Input
      BY <3>1 DEF Satisfied
    <3> QED
      BY <3>2, PipeIoAssumption DEF Inv, Conserved, ParentType, ChildType, PipeType
  <2> QED
    BY <1>7, <2>1 DEF Write, Satisfied, childVars
<1>8. CASE Close
  BY <1>8 DEF Close
<1>9. CASE Wait \/ WaitInterrupted
  BY <1>9 DEF Wait, WaitInterrupted, childVars
<1>10. CASE ChildReads
  BY <1>0, <1>10 DEF ChildReads, parent, Together
<1>11. CASE ChildPrints
  BY <1>0, <1>11 DEF ChildPrints, parent, Together
<1>12. CASE ChildExits
  BY <1>12 DEF ChildExits, Satisfied, parent
<1>13. CASE Terminating \/ UNCHANGED vars
  BY <1>13 DEF Terminating, vars, parent, childVars, Satisfied
<1> QED
  BY <1>1, <1>2, <1>3, <1>4, <1>5, <1>6, <1>7, <1>8, <1>9, <1>10, <1>11, <1>12, <1>13
  DEF Next, ParentStep, ChildStep

(* Whatever happens short of a crash of the machine, either fwts has        *)
(* something to read, write, close or reap, or the command has something to  *)
(* read or print or can end: no pipe that is full or empty holds up both.    *)
THEOREM NobodyEverStuck == Spec => []NobodyStuck
<1>1. Inv /\ SatisfiedEnd => NobodyStuck
  <2> SUFFICES ASSUME Inv, SatisfiedEnd, TakesItsInput,
                      pc # "done", ~ParentCanMove
               PROVE ChildCanMove
    BY DEF NobodyStuck, SatisfiedEnd
  <2>0. job.caller \in {"exec", "pipe_exec", "exec2", "dtc"} /\ job.reads \in {"none", "all", "eof"}
        /\ job.prints \in Nat
    BY JobFacts DEF Inv, PipeType
  <2>1. pc \in {"poll", "wait"} /\ child = "running"
    BY DEF Inv, ParentType, Looping, Together, ParentCanMove, ChildType, SatisfiedEnd, Readable, Gone
  <2>2. outPipe = 0 \/ "outR" \notin fds
    BY <2>1 DEF ParentCanMove, Readable, Inv, PipeType, Together
  <2>3. CASE printed # job.prints
    BY <2>0, <2>1, <2>2, <2>3, PipeIoAssumption DEF ChildCanMove, Inv, ChildType, PipeType
  <2>4. CASE printed = job.prints /\ Satisfied
    BY <2>1, <2>4 DEF ChildCanMove
  <2>5. CASE ~Satisfied
    <3>1. job.reads # "none" /\ ~sawEof
      BY <2>5 DEF Satisfied
    <3>2. inPipe > 0 \/ "inW" \notin fds
      <4> SUFFICES ASSUME "inW" \in fds PROVE inPipe > 0
        OBVIOUS
      <4>1. pc = "poll" /\ HasInput /\ job.reads = "all" /\ taken # Input
        BY <2>1, <2>5 DEF Inv, Together, SatisfiedEnd, TakesItsInput, Satisfied
      <4>2. inLeft > 0 => ~(inPipe < Capacity)
        BY <4>1 DEF ParentCanMove, Writable
      <4> QED
        BY <4>1, <4>2, PipeIoAssumption DEF Inv, Conserved, ParentType, ChildType, PipeType
    <3> QED
      BY <2>1, <3>1, <3>2 DEF ChildCanMove
  <2> QED
    BY <2>3, <2>4, <2>5
<1>2. Spec => [](Inv /\ SatisfiedEnd)
  BY InvInit, InvNext, SatisfiedEndInit, SatisfiedEndNext, PTL DEF Spec
<1> QED
  BY <1>1, <1>2, PTL

-----------------------------------------------------------------------------
(* The iasl interface.                                                     *)

IaslType ==
  /\ left \in Seq(Streams)
  /\ compiler \in {"none", "running", "exited", "reaped"}
  /\ stage \in {"open", "out", "err", "wait", "done"}
  /\ pipe \in [Streams -> Nat]
  /\ collected \in [Streams -> Nat]
  /\ eof \subseteq Streams

\* What was printed of a stream is to be printed, in its pipe or collected.
Accounted ==
  \A s \in Streams \ lost :
    collected[s] + pipe[s] + Count(left, s) = Printed(s)

\* The compiler says nothing more, and a stream that has ended is empty.
NotStarted == stage = "open" => compiler = "none"
AfterExit ==
  compiler \in {"exited", "reaped"} => left = <<>> \/ stage = "done"
EndsMeant ==
  \A s \in eof \ lost :
    pipe[s] = 0 /\ compiler \in {"exited", "reaped"} /\ left = <<>>
StillOpen == stage \in {"out", "err", "wait"} => ends = Streams

\* The loop is left when both streams have ended or have no buffer.
BothDrained ==
  /\ stage = "err" => "out" \in eof \cup lost
  /\ stage = "wait" => Streams \subseteq eof \cup lost
  /\ result = 0 => /\ stage = "done" /\ Streams \subseteq eof \cup lost
                   /\ compiler = "reaped" \/ stopped
                   /\ ends = {}

IaslInv == IaslType /\ Accounted /\ NotStarted /\ AfterExit /\ EndsMeant /\ StillOpen /\ BothDrained

LEMMA CountTail ==
  ASSUME NEW t \in Seq(Streams), t # <<>>, NEW s
  PROVE  /\ Count(Tail(t), s) \in Nat
         /\ Count(t, s) = Count(Tail(t), s) + (IF Head(t) = s THEN 1 ELSE 0)
<1> DEFINE At(u) == {i \in DOMAIN u : u[i] = s}
           n == Len(t) - 1
<1>1. /\ n \in Nat /\ DOMAIN t = 1 .. n + 1 /\ DOMAIN Tail(t) = 1 .. n
      /\ \A i \in 1 .. n : Tail(t)[i] = t[i + 1]
      /\ Head(t) = t[1]
  BY HeadTailProperties, LenProperties
<1> HIDE DEF n
<1>2. IsFiniteSet(1 .. n) /\ At(Tail(t)) \subseteq 1 .. n
  BY <1>1, FS_Interval
<1>3. IsFiniteSet(At(Tail(t)))
  BY <1>2, FS_Subset
<1> DEFINE Up == {i + 1 : i \in At(Tail(t))}
           f == [i \in At(Tail(t)) |-> i + 1]
<1>4. f \in Bijection(At(Tail(t)), Up)
  <2>1. f \in Surjection(At(Tail(t)), Up)
    BY DEF Surjection
  <2>2. f \in Injection(At(Tail(t)), Up)
    BY <1>2 DEF Injection, IsInjective
  <2> QED  BY <2>1, <2>2 DEF Bijection
<1>5. IsFiniteSet(Up) /\ Cardinality(Up) = Cardinality(At(Tail(t)))
  <2>1. ExistsBijection(At(Tail(t)), Up)
    BY <1>4 DEF ExistsBijection
  <2> HIDE DEF At, Up
  <2> QED  BY <1>3, <2>1, FS_Bijection
<1>6. 1 \notin Up
  BY <1>2
<1>7. At(t) = Up \cup (IF Head(t) = s THEN {1} ELSE {})
  <2>1. ASSUME NEW i \in At(t) PROVE i \in Up \cup (IF Head(t) = s THEN {1} ELSE {})
    <3>1. CASE i = 1
      BY <1>1, <3>1
    <3>2. CASE i # 1
      <4>1. i - 1 \in 1 .. n /\ Tail(t)[i - 1] = s /\ i = (i - 1) + 1
        BY <1>1, <3>2
      <4> QED  BY <1>1, <4>1
    <3> QED  BY <3>1, <3>2
  <2>2. ASSUME NEW i \in Up PROVE i \in At(t)
    BY <1>1
  <2>3. Head(t) = s => 1 \in At(t)
    BY <1>1
  <2> QED  BY <2>1, <2>2, <2>3
<1>8. Cardinality(At(Tail(t))) \in Nat
  BY <1>3, FS_CardinalityType
<1> HIDE DEF At, Up
<1>9. Cardinality(At(t)) = Cardinality(At(Tail(t))) + (IF Head(t) = s THEN 1 ELSE 0)
  <2>1. CASE Head(t) = s
    BY <1>5, <1>6, <1>7, <2>1, FS_AddElement
  <2>2. CASE Head(t) # s
    BY <1>5, <1>7, <1>8, <2>2
  <2> QED  BY <2>1, <2>2
<1>10. \A u : Count(u, s) = Cardinality(At(u))
  BY DEF Count, At
<1> QED  BY <1>8, <1>9, <1>10

LEMMA CountType ==
  ASSUME NEW t \in Seq(Streams), NEW s
  PROVE  Count(t, s) \in Nat /\ Count(<<>>, s) = 0
<1>1. DOMAIN t = 1 .. Len(t) /\ Len(t) \in Nat
  BY LenProperties
<1>2. IsFiniteSet(1 .. Len(t)) /\ {i \in DOMAIN t : t[i] = s} \subseteq 1 .. Len(t)
  BY <1>1, FS_Interval
<1>3. IsFiniteSet({i \in DOMAIN t : t[i] = s})
  BY <1>2, FS_Subset
<1>4. {i \in DOMAIN <<>> : <<>>[i] = s} = {}
  OBVIOUS
<1> QED  BY <1>3, <1>4, FS_CardinalityType, FS_EmptySet DEF Count

LEMMA IaslInvInit == IaslInit => IaslInv
<1> SUFFICES ASSUME IaslInit PROVE IaslInv
  OBVIOUS
<1>1. script \in Seq(Streams)
  BY IaslPipeAssumption DEF IaslInit
<1>2. \A s \in Streams : Count(script, s) \in Nat
  BY <1>1, CountType
<1>3. IaslType /\ NotStarted /\ AfterExit /\ EndsMeant /\ StillOpen /\ BothDrained
  BY <1>1 DEF IaslInit, IaslType, NotStarted, AfterExit, EndsMeant, StillOpen, BothDrained
<1>4. Accounted
  BY <1>2 DEF IaslInit, Accounted, Printed
<1> QED  BY <1>3, <1>4 DEF IaslInv

LEMMA IaslInvNext == IaslInv /\ [IaslNext]_(iaslVars) => IaslInv'
<1> SUFFICES ASSUME IaslInv, [IaslNext]_(iaslVars) PROVE IaslInv'
  OBVIOUS
<1> USE DEF IaslInv, IaslType, Accounted, NotStarted, AfterExit, EndsMeant, StillOpen, BothDrained,
            Printed, Streams
<1>1. CASE OpenPipes
  BY <1>1 DEF OpenPipes
<1>2. CASE NoPipe
  BY <1>2 DEF NoPipe
<1>3. CASE NoFork
  BY <1>3 DEF NoFork
<1>4. CASE Finish
  BY <1>4 DEF Finish
<1>5. ASSUME NEW s \in Streams, Take(s)
      PROVE  IaslInv'
  BY <1>5 DEF Take
<1>6. ASSUME NEW s \in Streams, End(s)
      PROVE  IaslInv'
  BY <1>6 DEF End, After
<1>7. ASSUME NEW s \in Streams, TakeNoMemory(s)
      PROVE  IaslInv'
  BY <1>7 DEF TakeNoMemory, After
<1>12. ASSUME NEW s \in Streams, ReadFails(s)
       PROVE  IaslInv'
  BY <1>12 DEF ReadFails, After
<1>13. CASE CompilerStops
  BY <1>13 DEF CompilerStops
<1>8. CASE CompilerPrints
  <2> DEFINE h == Head(left)
  <2>1. /\ h \in Streams /\ left \in Seq(Streams) /\ left # <<>>
        /\ Tail(left) \in Seq(Streams)
    BY <1>8, HeadTailProperties DEF CompilerPrints
  <2>2. /\ compiler = "running" /\ left' = Tail(left)
        /\ pipe' = [pipe EXCEPT ![h] = pipe[h] + 1]
        /\ UNCHANGED <<script, compiler, stopped, stage, eof, collected, lost, ends, result>>
    BY <1>8 DEF CompilerPrints
  <2>3. ASSUME NEW s \in Streams \ lost
        PROVE  collected[s] + pipe'[s] + Count(left', s) = Count(script, s)
    <3>1. collected[s] + pipe[s] + Count(left, s) = Count(script, s)
      OBVIOUS
    <3>2. collected[s] \in Nat /\ pipe[s] \in Nat
      OBVIOUS
    <3>3. /\ Count(Tail(left), s) \in Nat
          /\ Count(left, s) = Count(Tail(left), s) + (IF h = s THEN 1 ELSE 0)
      BY <2>1, CountTail
    <3>4. pipe'[s] = pipe[s] + (IF h = s THEN 1 ELSE 0)
      BY <2>1, <2>2, <3>2
    <3> HIDE DEF IaslInv
    <3> QED  BY <2>2, <3>1, <3>2, <3>3, <3>4
  <2>4. Accounted'
    BY <2>2, <2>3
  <2>5. IaslType'
    BY <2>1, <2>2
  <2> QED  BY <2>2, <2>4, <2>5
<1>9. CASE CompilerExits
  BY <1>9 DEF CompilerExits
<1>10. CASE UNCHANGED iaslVars
  BY <1>10 DEF iaslVars
<1>11. CASE Returned
  BY <1>10, <1>11 DEF Returned, iaslVars
<1> QED
  BY <1>1, <1>2, <1>3, <1>4, <1>5, <1>6, <1>7, <1>8, <1>9, <1>10, <1>11, <1>12, <1>13
     DEF IaslNext, AssembleStep, CompilerStep

LEMMA IaslInvHolds == IaslSpec => []IaslInv
BY IaslInvInit, IaslInvNext, PTL DEF IaslSpec

(* What syntaxcheck scans is all the compiler printed, on either stream,     *)
(* whatever the order it prints in, unless memory ran out for the stream or   *)
(* its read() failed.                                                        *)
THEOREM IaslOutputsComplete == IaslSpec => []OutputsAreComplete
<1>1. IaslInv => OutputsAreComplete
  <2> SUFFICES ASSUME IaslInv, result = 0, NEW s \in Streams \ lost
               PROVE  collected[s] = Printed(s)
    BY DEF OutputsAreComplete
  <2>1. s \in eof \ lost
    BY DEF IaslInv, BothDrained
  <2>2. pipe[s] = 0 /\ left = <<>>
    BY <2>1 DEF IaslInv, EndsMeant
  <2>3. Count(left, s) = 0
    BY <2>2, CountType DEF IaslInv, IaslType
  <2> QED  BY <2>2, <2>3 DEF IaslInv, IaslType, Accounted
<1> QED  BY <1>1, IaslInvHolds, PTL

(* An assembly that returns 0 has closed both pipes and waited for the       *)
(* compiler, unless this was stopped meanwhile; out of memory too.           *)
THEOREM IaslLeavesNothing == IaslSpec => []NothingLeft
<1>1. IaslInv => NothingLeft
  BY DEF IaslInv, BothDrained, NothingLeft
<1> QED  BY <1>1, IaslInvHolds, PTL
=============================================================================
