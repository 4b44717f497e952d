------------------------------ MODULE IaslPipe ------------------------------
(***************************************************************************)
(* fwts_iasl_assemble_aml(): the ACPI source compiler runs in a forked     *)
(* child whose standard output and standard error come back through two    *)
(* pipes.  The parent reads them one after the other, each to its end,     *)
(* with blocking reads; the child prints to either in an order of its own. *)
(* No name here is one of PipeIo's: PipeIoProofs extends both.             *)
(***************************************************************************)
EXTENDS Integers, FiniteSets, Sequences, SequencesExt

CONSTANTS
  Scripts,    \* what the compiler may print: sequences of "out" and "err"
  PipeSize,   \* chunks a pipe holds
  Faults      \* which of "pipe", "fork", "memory", "read" and "stop" may happen

Streams == {"out", "err"}

ASSUME IaslPipeAssumption ==
  /\ Scripts \subseteq Seq(Streams)
  /\ PipeSize \in Nat \ {0}
  /\ Faults \subseteq {"pipe", "fork", "memory", "read", "stop"}

VARIABLES
  script,    \* all the child prints
  left,      \* what it has yet to print
  compiler,  \* the child: "none", "running", "exited" or "reaped"
  stopped,   \* it was stopped and goes on, and waitpid() has yet to say so
  pipe,      \* chunks in the pipe of each stream
  stage,     \* of the parent: "open", the stream it reads, "wait" or "done"
  eof,       \* stdout_eof and stderr_eof, as the streams that ended
  collected, \* chunks read of each stream
  lost,      \* streams whose buffer could not grow (freed, and NULL) or whose
             \* read() failed
  ends,      \* the pipes whose read end is open
  result     \* what fwts_iasl_assemble_aml() returns

iaslVars == <<script, left, compiler, stopped, pipe, stage, eof, collected, lost, ends, result>>

IaslInit ==
  /\ script \in Scripts
  /\ left = script
  /\ compiler = "none"
  /\ stopped = FALSE
  /\ pipe = [s \in Streams |-> 0]
  /\ stage = "open"
  /\ eof = {}
  /\ collected = [s \in Streams |-> 0]
  /\ lost = {}
  /\ ends = {}
  /\ result = 1

OpenPipes ==
  /\ stage = "open"
  /\ ends' = Streams
  /\ compiler' = "running"
  /\ stage' = "out"
  /\ UNCHANGED <<script, left, stopped, pipe, eof, collected, lost, result>>

\* pipe() fails for stdout, or for stderr: then the first pipe stays open.
NoPipe ==
  /\ stage = "open"
  /\ "pipe" \in Faults
  /\ ends' \in {{}, {"out"}}
  /\ stage' = "done"
  /\ result' = -1
  /\ UNCHANGED <<script, left, compiler, stopped, pipe, eof, collected, lost>>

\* fork() fails: both pipes are closed.
NoFork ==
  /\ stage = "open"
  /\ "fork" \in Faults
  /\ stage' = "done"
  /\ result' = -1
  /\ UNCHANGED <<script, left, compiler, stopped, pipe, eof, collected, lost, ends>>

\* The bug of a loop that ends as soon as one stream has.
AfterFirst(s, ended) ==
  IF ended # {} THEN "wait" ELSE IF s = "out" THEN "err" ELSE "out"

\* The order in the loop; "while (!stdout_eof && !stderr_eof)" is looked at
\* after stderr.
After(s, ended) ==
  IF s = "out" THEN "err" ELSE IF ended = {} THEN "out" ELSE "wait"

\* fwts_iasl_read_output(): read() blocks while the pipe is empty and the child
\* has it open, ...
Take(s) ==
  /\ stage = s /\ s \notin eof
  /\ pipe[s] > 0
  /\ \E n \in 1 .. pipe[s] :
       /\ pipe' = [pipe EXCEPT ![s] = @ - n]
       /\ collected' = [collected EXCEPT ![s] = @ + n]
  /\ UNCHANGED <<script, left, compiler, stopped, stage, eof, lost, ends, result>>

\* The bug of a read_output() that does not tell its caller about the end.
EndUnnoticed(s) ==
  /\ stage = s
  /\ s \in eof \/ (pipe[s] = 0 /\ compiler = "exited")
  /\ stage' = After(s, eof)
  /\ UNCHANGED <<script, left, compiler, stopped, pipe, eof, collected, lost, ends, result>>

\* ... ends at the end of the stream, at once if that was seen before, ...
End(s) ==
  /\ stage = s
  /\ s \in eof \/ (pipe[s] = 0 /\ compiler = "exited")
  /\ eof' = eof \cup {s}
  /\ stage' = After(s, eof')
  /\ UNCHANGED <<script, left, compiler, stopped, pipe, collected, lost, ends, result>>

\* ... or when read() fails, which passes for it, ...
ReadFails(s) ==
  /\ stage = s /\ s \notin eof
  /\ "read" \in Faults
  /\ eof' = eof \cup {s}
  /\ lost' = lost \cup {s}
  /\ stage' = After(s, eof')
  /\ UNCHANGED <<script, left, compiler, stopped, pipe, collected, ends, result>>

\* ... and gives up without memory, an error nobody looks at.
TakeNoMemory(s) ==
  /\ stage = s /\ s \notin eof
  /\ "memory" \in Faults
  /\ pipe[s] > 0
  /\ \E n \in 1 .. pipe[s] : pipe' = [pipe EXCEPT ![s] = @ - n]
  /\ lost' = lost \cup {s}
  /\ stage' = After(s, eof)
  /\ UNCHANGED <<script, left, compiler, stopped, eof, collected, ends, result>>

\* The bug of an error path that leaves before the child is waited for.
FinishEarly ==
  /\ stage = "wait"
  /\ IF lost = {} THEN compiler = "exited" /\ compiler' = "reaped" ELSE UNCHANGED compiler
  /\ ends' = {}
  /\ result' = 0
  /\ stage' = "done"
  /\ UNCHANGED <<script, left, stopped, pipe, eof, collected, lost>>

\* waitpid(), which also returns for a child that stopped or went on, and the
\* two pipes are closed.
Finish ==
  /\ stage = "wait"
  /\ \/ compiler = "exited" /\ compiler' = "reaped"
     \/ stopped /\ UNCHANGED compiler
  /\ ends' = {}
  /\ result' = 0
  /\ stage' = "done"
  /\ UNCHANGED <<script, left, stopped, pipe, eof, collected, lost>>

CompilerPrints ==
  /\ compiler = "running" /\ left # <<>> /\ ends # {}
  /\ pipe[Head(left)] < PipeSize
  /\ pipe' = [pipe EXCEPT ![Head(left)] = @ + 1]
  /\ left' = Tail(left)
  /\ UNCHANGED <<script, compiler, stopped, stage, eof, collected, lost, ends, result>>

\* ... or is killed by the first write to a pipe that is closed.
CompilerExits ==
  /\ compiler = "running" /\ (left = <<>> \/ ends = {})
  /\ compiler' = "exited"
  /\ UNCHANGED <<script, left, stopped, pipe, stage, eof, collected, lost, ends, result>>

CompilerStops ==
  /\ compiler = "running" /\ ~stopped
  /\ "stop" \in Faults
  /\ stopped' = TRUE
  /\ UNCHANGED <<script, left, compiler, pipe, stage, eof, collected, lost, ends, result>>

Returned == stage = "done" /\ UNCHANGED iaslVars

AssembleStep ==
  \/ OpenPipes \/ NoPipe \/ NoFork \/ Finish
  \/ \E s \in Streams : Take(s) \/ End(s) \/ ReadFails(s) \/ TakeNoMemory(s)

CompilerStep == CompilerPrints \/ CompilerExits

IaslNext == AssembleStep \/ CompilerStep \/ CompilerStops \/ Returned

\* Both processes are scheduled.
IaslSpec == IaslInit /\ [][IaslNext]_iaslVars /\ WF_iaslVars(AssembleStep) /\ WF_iaslVars(CompilerStep)

-----------------------------------------------------------------------------
(* Properties *)

\* Chunks of stream s in a script.
Count(t, s) == Cardinality({i \in DOMAIN t : t[i] = s})

Printed(s) == Count(script, s)

\* Types; a pipe never holds more than it can.
IaslTypeOK ==
  /\ script \in Scripts
  /\ IsSuffix(left, script)
  /\ compiler \in {"none", "running", "exited", "reaped"}
  /\ stopped \in BOOLEAN
  /\ pipe \in [Streams -> 0 .. PipeSize]
  /\ stage \in Streams \cup {"open", "wait", "done"}
  /\ eof \subseteq Streams /\ lost \subseteq Streams /\ ends \subseteq Streams
  /\ collected \in [Streams -> 0 .. Len(script)]
  /\ result \in {1, 0, -1}

\* What syntaxcheck scans is all the compiler said, on either stream, unless
\* memory ran out for that stream or read() failed.
OutputsAreComplete ==
  result = 0 => \A s \in Streams \ lost : collected[s] = Printed(s)

\* An assembly that returns 0 leaves no descriptor, and no zombie unless the
\* compiler was stopped, which waitpid() tells as it tells the end (line 282).
NothingLeft == result = 0 => (compiler = "reaped" \/ stopped) /\ ends = {}

\* "invoke iasl and assemble some source, stdout into stdout_output, stderr
\* into stderr_output": it comes back with them.  When it stops reading stdout for
\* (lost) the compiler may be stuck there for ever.
AssembleReturns == <>(stage = "done" \/ lost # {})
=============================================================================
