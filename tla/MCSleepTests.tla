---- MODULE MCSleepTests ----
EXTENDS SleepTests

\* A laptop that sleeps to idle, with a large tracing buffer; a machine
\* that sleeps deep, with pm_debug_messages on and debugfs not mounted; one
\* that sleeps neither way, which cannot hibernate.
MCMachines ==
  {[pm_debug |-> "0", mem_sleep |-> "s2idle", s0ix_warn |-> "N",
    buffer_size_kb |-> "8192", disk |-> "platform"],
   [pm_debug |-> "1", mem_sleep |-> "deep", s0ix_warn |-> "Y",
    disk |-> "shutdown"],
   [pm_debug |-> "0", mem_sleep |-> "shallow"]}
====
