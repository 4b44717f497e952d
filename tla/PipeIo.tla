------------------------------- MODULE PipeIo -------------------------------
(***************************************************************************)
(* How fwts runs a command: fwts_exec(), fwts_pipe_exec(), fwts_exec2()    *)
(* and the device tree test's use of dtc, all on fwts_pipe_open_rw(),      *)
(* fwts_pipe_readwrite() and fwts_pipe_close().  Parent and child are two  *)
(* processes with a bounded pipe in each direction, at most one system     *)
(* call of one of them to a step.  Data is counted in chunks.              *)
(***************************************************************************)
EXTENDS Naturals, FiniteSets

CONSTANTS
  Jobs,       \* the commands a run may execute, see Job
  Input,      \* chunks the callers with an input pipe have to send
  Capacity,   \* chunks a pipe holds
  Failures    \* which of "pipe", "fork", "memory", "signal" may happen

\* What matters of a command: the function that runs it and, of the child, how
\* much of its input it wants ("none", "all" that is sent, or up to "eof"), how
\* many chunks it prints, and its exit status.
Job == [caller : {"exec", "pipe_exec", "exec2", "dtc"},
        reads : {"none", "all", "eof"}, prints : Nat, code : {0, 1}]

ASSUME PipeIoAssumption ==
  /\ Jobs \subseteq Job
  /\ Input \in Nat
  /\ Capacity \in Nat \ {0}
  /\ Failures \subseteq {"pipe", "fork", "memory", "signal"}

VARIABLES
  job,
  pc,       \* of the parent: "open", "poll", "read", "write", "close", "wait", "done", "killed"
  fds,      \* ends of the two pipes the parent has open
  inLeft,   \* in_size: input not yet written
  got,      \* out_size: output read
  ready,    \* the revents of the last poll(): "out" readable, "in" writable
  rc,       \* fwts_pipe_readwrite(): "ok" or "failed"
  child,    \* "none", "running", "exited" (a zombie) or "reaped"
  inPipe, outPipe,  \* chunks in the two pipes
  taken, printed,   \* chunks the child has read and written
  sawEof,   \* the child has read the end of its input
  died,     \* the wait status of the child: its code, or 13 after SIGPIPE
  status,   \* what fwts_pipe_close() returned
  ret,      \* what the caller got: "ok", "exec_error" or "error"
  cut       \* history: a poll() was interrupted

parent == <<fds, inLeft, got, ready, rc, status, ret, cut>>
childVars == <<child, taken, printed, sawEof, died>>
vars == <<job, pc, parent, childVars, inPipe, outPipe>>

HasInput == job.caller \in {"exec2", "dtc"}
NotReaped == 255

Init ==
  /\ job \in Jobs
  /\ pc = "open"
  /\ fds = {}
  /\ inLeft = Input
  /\ got = 0
  /\ ready = {}
  /\ rc = "ok"
  /\ child = "none"
  /\ inPipe = 0 /\ outPipe = 0
  /\ taken = 0 /\ printed = 0
  /\ sawEof = FALSE
  /\ died = 0
  /\ status = NotReaped
  /\ ret = "none"
  /\ cut = FALSE

-----------------------------------------------------------------------------
(* fwts_pipe_open_rw() *)

\* Without an input pipe the read end of the input is /dev/null.
Opened == (IF HasInput THEN {"inR", "inW"} ELSE {"inR"}) \cup {"outR", "outW"}

\* Fork, and the ends of the child are closed.  fwts_exec() reads nothing.
Open ==
  /\ pc = "open"
  /\ fds' = Opened \ {"inR", "outW"}
  /\ child' = "running"
  /\ pc' = IF job.caller = "exec" THEN "close" ELSE "poll"
  /\ UNCHANGED <<job, inLeft, got, ready, rc, status, ret, taken, printed, sawEof, died, inPipe, outPipe, cut>>

\* pipe() fails, for the input (nothing is open) or for the output (the input
\* is closed again, and two descriptors never set are closed with it).
OpenNoPipe ==
  /\ pc = "open"
  /\ "pipe" \in Failures
  /\ pc' = "done"
  /\ ret' = "error"
  /\ UNCHANGED <<job, fds, inLeft, got, ready, rc, status, childVars, inPipe, outPipe, cut>>

\* fork() fails: err_close_out closes the output pipe only.
OpenNoFork ==
  /\ pc = "open"
  /\ "fork" \in Failures
  /\ fds' = Opened \ {"outR", "outW"}
  /\ pc' = "done"
  /\ ret' = "error"
  /\ UNCHANGED <<job, inLeft, got, ready, rc, status, childVars, inPipe, outPipe, cut>>

-----------------------------------------------------------------------------
(* fwts_pipe_readwrite() *)

Gone == child = "exited"

Readable == outPipe > 0 \/ Gone
\* POLLOUT while there is input left, POLLERR whenever the reader is gone.
Writable == HasInput /\ (Gone \/ (inLeft > 0 /\ inPipe < Capacity))

Poll ==
  /\ pc = "poll"
  /\ Readable \/ Writable
  /\ ready' = (IF Readable THEN {"out"} ELSE {}) \cup (IF Writable THEN {"in"} ELSE {})
  /\ pc' = "read"
  /\ UNCHANGED <<job, fds, inLeft, got, rc, status, ret, childVars, inPipe, outPipe, cut>>

\* poll() is interrupted: the loop ends as at the end of the output.
PollInterrupted ==
  /\ pc = "poll"
  /\ "signal" \in Failures
  /\ pc' = "close"
  /\ cut' = TRUE
  /\ UNCHANGED <<job, fds, inLeft, got, ready, rc, status, ret, childVars, inPipe, outPipe>>

\* The bug of a buffer that starts over with every read().
ReadOver ==
  /\ pc = "read"
  /\ IF "out" \notin ready
     THEN pc' = "write" /\ UNCHANGED <<outPipe, got>>
     ELSE \/ outPipe = 0 /\ pc' = "close" /\ UNCHANGED <<outPipe, got>>
          \/ \E n \in 1 .. outPipe : outPipe' = outPipe - n /\ got' = n /\ pc' = "write"
  /\ UNCHANGED <<job, fds, inLeft, ready, rc, status, ret, childVars, inPipe, cut>>

\* The bug of a loop that goes on when read() returns 0.
ReadOn ==
  /\ pc = "read"
  /\ IF "out" \notin ready \/ outPipe = 0
     THEN pc' = "write" /\ UNCHANGED <<outPipe, got>>
     ELSE \E n \in 1 .. outPipe : outPipe' = outPipe - n /\ got' = got + n /\ pc' = "write"
  /\ UNCHANGED <<job, fds, inLeft, ready, rc, status, ret, childVars, inPipe, cut>>

\* read(), which finds the end once the pipe is empty and the child gone.
Read ==
  /\ pc = "read"
  /\ IF "out" \notin ready
     THEN pc' = "write" /\ UNCHANGED <<outPipe, got>>
     ELSE \/ outPipe = 0 /\ pc' = "close" /\ UNCHANGED <<outPipe, got>>
          \/ \E n \in 1 .. outPipe : outPipe' = outPipe - n /\ got' = got + n /\ pc' = "write"
  /\ UNCHANGED <<job, fds, inLeft, ready, rc, status, ret, childVars, inPipe, cut>>

\* After "goto fail" fwts_exec2() returns at once; the others close and wait.
Fail ==
  /\ rc' = "failed"
  /\ got' = 0
  /\ IF job.caller = "exec2"
     THEN pc' = "done" /\ ret' = "error"
     ELSE pc' = "close" /\ UNCHANGED ret

ReadNoMemory ==
  /\ pc = "read"
  /\ "memory" \in Failures
  /\ "out" \in ready /\ outPipe > 0
  /\ Fail
  /\ \E n \in 1 .. outPipe : outPipe' = outPipe - n
  /\ UNCHANGED <<job, fds, inLeft, ready, status, childVars, inPipe, cut>>

\* write(): as much as fits.  Writing to a pipe without a reader raises
\* SIGPIPE, which fwts leaves at its default, unless nothing is left to write.
Write ==
  /\ pc = "write"
  /\ IF "in" \in ready /\ ~Gone /\ inLeft > 0 /\ inPipe < Capacity
     THEN \E n \in 1 .. inLeft :
            /\ inPipe + n <= Capacity
            /\ inPipe' = inPipe + n
            /\ inLeft' = inLeft - n
     ELSE UNCHANGED <<inPipe, inLeft>>
  /\ pc' = IF "in" \in ready /\ Gone /\ inLeft > 0 THEN "killed" ELSE "poll"
  /\ UNCHANGED <<job, fds, got, ready, rc, status, ret, childVars, outPipe, cut>>

-----------------------------------------------------------------------------
(* fwts_pipe_close() and fwts_pipe_close2() *)

\* The bug of closing one of the two descriptors.
CloseOutputOnly ==
  /\ pc = "close"
  /\ fds' = fds \ {"outR"}
  /\ pc' = "wait"
  /\ UNCHANGED <<job, inLeft, got, ready, rc, status, ret, childVars, inPipe, outPipe, cut>>

Close ==
  /\ pc = "close"
  /\ fds' = {}
  /\ pc' = "wait"
  /\ UNCHANGED <<job, inLeft, got, ready, rc, status, ret, childVars, inPipe, outPipe, cut>>

\* The bug of looking at the exit status alone.
ResultIgnoringRc(s) == IF s # 0 THEN "exec_error" ELSE "ok"

\* What the callers make of rc and the status.
Result(s) == IF rc = "failed" \/ s # 0 THEN "exec_error" ELSE "ok"

Wait ==
  /\ pc = "wait"
  /\ child = "exited"
  /\ child' = "reaped"
  /\ status' = died
  /\ ret' = Result(died)
  /\ pc' = "done"
  /\ UNCHANGED <<job, fds, inLeft, got, ready, rc, taken, printed, sawEof, died, inPipe, outPipe, cut>>

\* waitpid() is interrupted: EXIT_FAILURE, and nobody waits again.
WaitInterrupted ==
  /\ pc = "wait"
  /\ "signal" \in Failures
  /\ status' = 1
  /\ ret' = Result(1)
  /\ pc' = "done"
  /\ UNCHANGED <<job, fds, inLeft, got, ready, rc, childVars, inPipe, outPipe, cut>>

-----------------------------------------------------------------------------
(* The child *)

ChildReads ==
  /\ child = "running"
  /\ job.reads # "none" /\ ~sawEof
  /\ \/ inPipe > 0 /\ inPipe' = inPipe - 1 /\ taken' = taken + 1 /\ UNCHANGED sawEof
     \/ inPipe = 0 /\ "inW" \notin fds /\ sawEof' = TRUE /\ UNCHANGED <<inPipe, taken>>
  /\ UNCHANGED <<job, pc, parent, child, printed, died, outPipe>>

\* Printing without a reader raises SIGPIPE in the child.
ChildPrints ==
  /\ child = "running"
  /\ printed < job.prints
  /\ IF "outR" \in fds
     THEN /\ outPipe < Capacity
          /\ outPipe' = outPipe + 1
          /\ printed' = printed + 1
          /\ UNCHANGED <<child, died>>
     ELSE child' = "exited" /\ died' = 13 /\ UNCHANGED <<outPipe, printed>>
  /\ UNCHANGED <<job, pc, parent, taken, sawEof, inPipe>>

Satisfied ==
  \/ job.reads = "none"
  \/ job.reads = "all" /\ (~HasInput \/ taken = Input)
  \/ sawEof

ChildExits ==
  /\ child = "running"
  /\ printed = job.prints
  /\ Satisfied
  /\ child' = "exited"
  /\ died' = job.code
  /\ UNCHANGED <<job, pc, parent, taken, printed, sawEof, inPipe, outPipe>>

Terminating == pc \in {"done", "killed"} /\ UNCHANGED vars

ParentStep ==
  \/ Open \/ OpenNoPipe \/ OpenNoFork \/ Poll \/ PollInterrupted \/ Read \/ ReadNoMemory
  \/ Write \/ Close \/ Wait \/ WaitInterrupted

ChildStep == ChildReads \/ ChildPrints \/ ChildExits

Next == ParentStep \/ ChildStep \/ Terminating

\* Both processes are scheduled.
Spec == Init /\ [][Next]_vars /\ WF_vars(ParentStep) /\ WF_vars(ChildStep)

-----------------------------------------------------------------------------
(* Properties *)

\* Types, and pipes that never hold more than they can.
TypeOK ==
  /\ job \in Jobs
  /\ pc \in {"open", "poll", "read", "write", "close", "wait", "done", "killed"}
  /\ fds \subseteq {"inR", "inW", "outR", "outW"}
  /\ inLeft \in 0 .. Input
  /\ got \in 0 .. job.prints
  /\ ready \subseteq {"in", "out"}
  /\ rc \in {"ok", "failed"}
  /\ child \in {"none", "running", "exited", "reaped"}
  /\ inPipe \in 0 .. Capacity /\ outPipe \in 0 .. Capacity
  /\ taken \in 0 .. Input /\ printed \in 0 .. job.prints
  /\ sawEof \in BOOLEAN
  /\ died \in {0, 1, 13}
  /\ status \in {0, 1, 13, NotReaped}
  /\ ret \in {"none", "ok", "exec_error", "error"}
  /\ cut \in BOOLEAN

\* Success is only reported of a command that ran to its end with status 0,
\* was reaped, and left no descriptor of its pipes open in fwts, whatever
\* failed or was interrupted on the way.
SuccessIsReal ==
  ret = "ok" => child = "reaped" /\ died = 0 /\ rc = "ok" /\ fds = {}

\* fwts_pipe_exec(): "return a list containing lines of the stdout output from
\* the command".  The output handed on with a success is all there was, however
\* the reads fell between the child's writes and its end, unless a signal
\* interrupted poll().
OutputIsComplete ==
  ret = "ok" /\ job.caller # "exec" /\ ~cut => got = job.prints

\* Whoever ran a command through fwts_pipe_close() has closed both pipes by the
\* time it returns: only the early return of fwts_exec2() and a failed open can
\* leave one behind.
ClosedAfterRun ==
  pc = "done" /\ ret # "error" => fds = {}

\* The child takes the input it is sent, without waiting for its end.
TakesItsInput == HasInput => job.reads = "all"

\* A command that takes its input returns, whatever fails or is interrupted:
\* parent and child never wait for each other for ever, and
\* fwts does not die of SIGPIPE.
CommandReturns == TakesItsInput => <>(pc = "done")
=============================================================================
