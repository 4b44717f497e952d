----------------------------- MODULE MCIaslPipe -----------------------------
(* What the compiler prints in the runs of IaslPipe.                        *)
EXTENDS IaslPipe

\* Any amount on stdout, on stderr no more than the pipe holds.
TerseErrors ==
  {t \in SeqOf(Streams, 6) : Len(SelectSeq(t, LAMBDA s : s = "err")) <= PipeSize}

\* Any amount of errors.
AnyErrors == SeqOf(Streams, 4)
=============================================================================
