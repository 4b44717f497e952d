----------------------------- MODULE SemLedger -----------------------------
(***************************************************************************)
(* What the semaphore accounting of libfwtsacpica promises the ACPI tests: *)
(* between fwts_acpica_sem_count_clear() and fwts_acpica_sem_count_get()   *)
(* every acquire takes a unit and every release gives one back, each is    *)
(* entered once, and the report counts the semaphores in existence and     *)
(* those whose acquires and releases balance.  The evaluation of a method  *)
(* fails with AMLLocksAcquired when the two figures differ.                *)
(***************************************************************************)
EXTENDS Integers, FiniteSets

CONSTANT Semaphores

VARIABLES
  created,    \* the semaphores in existence
  units,      \* the units each has to give
  net,        \* acquires less releases since the evaluation began
  phase,      \* "idle" or "evaluating"
  report      \* the two figures of the last report

ledger == <<created, units, net, phase, report>>

Init ==
  /\ created \in SUBSET Semaphores
  /\ units \in [Semaphores -> {0, 1}]
  /\ net = [s \in Semaphores |-> 0]
  /\ phase = "idle"
  /\ report = [acquired |-> 0, released |-> 0]

Begin ==
  /\ phase = "idle"
  /\ phase' = "evaluating"
  /\ net' = [s \in Semaphores |-> 0]
  /\ UNCHANGED <<created, units, report>>

\* Inside an evaluation nothing else touches the phase or the report.
Evaluating == phase = "evaluating" /\ UNCHANGED <<phase, report>>

Create(s) ==
  /\ Evaluating
  /\ s \notin created
  /\ created' = created \cup {s}
  /\ \E n \in {0, 1} : units' = [units EXCEPT ![s] = n]
  /\ net' = [net EXCEPT ![s] = 0]

Delete(s) ==
  /\ Evaluating
  /\ s \in created
  /\ created' = created \ {s}
  /\ net' = [net EXCEPT ![s] = 0]
  /\ UNCHANGED units

Take(s) ==
  /\ Evaluating
  /\ s \in created /\ units[s] > 0
  /\ units' = [units EXCEPT ![s] = @ - 1]
  /\ net' = [net EXCEPT ![s] = @ + 1]
  /\ UNCHANGED created

Give(s) ==
  /\ Evaluating
  /\ s \in created
  /\ units' = [units EXCEPT ![s] = @ + 1]
  /\ net' = [net EXCEPT ![s] = @ - 1]
  /\ UNCHANGED created

Report ==
  /\ phase = "evaluating"
  /\ phase' = "idle"
  /\ report' = [acquired |-> Cardinality(created),
                released |-> Cardinality({s \in created : net[s] = 0})]
  /\ UNCHANGED <<created, units, net>>

Next ==
  \/ Begin
  \/ Report
  \/ \E s \in Semaphores : Create(s) \/ Delete(s) \/ Take(s) \/ Give(s)

Spec == Init /\ [][Next]_ledger
=============================================================================
