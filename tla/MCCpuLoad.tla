---- MODULE MCCpuLoad ----
(* The instances of CpuLoad are given by the configurations alone.         *)
EXTENDS CpuLoad
====
