------------------------------ MODULE MCPipeIo ------------------------------
(* The commands of the runs of PipeIo.                                      *)
EXTENDS PipeIo

Command(callers, reads, prints) ==
  [caller : callers, reads : reads, prints : prints, code : {0, 1}]

\* Output that fits in a pipe and output that does not, silent and printing
\* commands under fwts_exec(), and children that take their input or ignore it.
\* Only a child that waits for the end of its input is left out: see the README.
Commands ==
  Command({"pipe_exec", "exec"}, {"none", "eof"}, 0 .. 3)
    \cup Command({"exec2", "dtc"}, {"none", "all"}, 0 .. 3)
=============================================================================
