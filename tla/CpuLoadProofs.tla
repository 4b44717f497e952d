---------------------------- MODULE CpuLoadProofs ----------------------------
(***************************************************************************)
(* Proofs about the processes that load the CPUs, for any number of CPUs,  *)
(* of processes and of loads.                                              *)
(***************************************************************************)
EXTENDS CpuLoad, TLAPS

-----------------------------------------------------------------------------
(* Types. *)

\* There is a slot for a process that was forked, and a burner has a signal to
\* come only after the interrupt.
TypeInv ==
  /\ TypeOK
  /\ pc = "enter" => next <= Cpus /\ child \in Pids
  /\ handler = 0 => pending = {}

LEMMA EmptyType == Empty \in [Slots -> Pids \union {NoPid}]
BY DEF Empty

LEMMA TypeInit == Init => TypeInv
<1> SUFFICES ASSUME Init PROVE TypeInv
  OBVIOUS
<1>1. copy \in [Pids -> [Slots -> Pids \union {NoPid}]] /\ entry \in [Slots -> Pids \union {NoPid}]
  BY EmptyType DEF Init
<1>2. checked \in BOOLEAN /\ caught \in BOOLEAN
  BY DEF Init
<1>3. next \in 1 .. Cpus + 1 /\ handler \in 0 .. Cpus + 1 /\ calls \in 0 .. MaxCalls
  BY CpuLoadAssumption DEF Init
<1>4. proc \in [Pids -> {"none", "burner", "zombie", "other"}]
  BY DEF Init
<1> QED
  BY <1>1, <1>2, <1>3, <1>4 DEF Init, TypeInv, TypeOK, Places

LEMMA KillType ==
  ASSUME TypeOK, NEW p \in Garbage, Kill(p)
  PROVE  /\ proc' \in [Pids -> {"none", "burner", "zombie", "other"}]
         /\ pending' \subseteq pending /\ hit' \subseteq Pids
BY DEF TypeOK, Kill, Garbage

LEMMA TypeNext == TypeInv /\ [Next]_vars => TypeInv'
<1> SUFFICES ASSUME TypeInv, [Next]_vars PROVE TypeInv'
  OBVIOUS
<1> USE CpuLoadAssumption DEF TypeInv, TypeOK, Slots, callVars, tableVars, signalVars, procVars
<1>1. CASE Start \/ StartFails
  <2>1. checked' \in BOOLEAN /\ caught' \in BOOLEAN
    BY <1>1 DEF Start, StartFails
  <2>2. pc' \in {"fork", "idle", "again"} /\ calls' \in 0 .. MaxCalls /\ handler' = 0
    BY <1>1 DEF Start, StartFails, At
  <2>3. next' \in 1 .. Cpus + 1 /\ table' \in {"null", "live", "freed"}
    BY <1>1 DEF Start, StartFails
  <2>4. entry' \in [Slots -> Pids \union {NoPid}]
    BY <1>1, EmptyType DEF Start, StartFails, Fresh
  <2> QED
    BY <1>1, <2>1, <2>2, <2>3, <2>4 DEF Start, StartFails, At, Places
<1>2. CASE Fork
  BY <1>2 DEF Fork, At, Places
<1>3. CASE Enter
  BY <1>3 DEF Enter, At, Places
<1>4. CASE Complete \/ Free \/ FreeAgain \/ Finish
  <2>1. pc' \in {"kill", "undo", "idle", "again", "crashed", "done"} /\ next' \in 1 .. Cpus + 1
    BY <1>4 DEF Complete, Free, FreeAgain, Finish, At
  <2> QED
    BY <1>4, <2>1 DEF Complete, Free, FreeAgain, Finish, Places, Ended
<1>5. CASE KillNext
  <2>1. next \in Slots /\ Kill(entry[next]) /\ pc # "enter" /\ handler = 0
    BY <1>5 DEF KillNext, At
  <2>3. entry[next] \in Garbage
    BY <2>1 DEF Garbage
  <2> HIDE DEF Slots
  <2>2. /\ proc' \in [Pids -> {"none", "burner", "zombie", "other"}]
        /\ pending' \subseteq pending /\ hit' \subseteq Pids
    BY <2>1, <2>3, KillType
  <2> QED
    BY <1>5, <2>1, <2>2 DEF KillNext, Slots
<1>6. CASE HandlerKills \/ HandlerReadsFreed \/ HandlerExits
  <2>1. ASSUME NEW p \in Garbage, handler \in Slots, Kill(p), handler' = handler + 1,
               UNCHANGED pc
        PROVE  TypeInv'
    <3> HIDE DEF Slots
    <3>1. /\ proc' \in [Pids -> {"none", "burner", "zombie", "other"}]
          /\ pending' \subseteq pending /\ hit' \subseteq Pids
      BY <2>1, KillType
    <3>2. UNCHANGED <<callVars, tableVars, caught, copy, spoilt>>
      BY <1>6 DEF HandlerKills, HandlerReadsFreed, HandlerExits
    <3> QED
      BY <2>1, <3>1, <3>2 DEF Slots
  <2>2. CASE pc' \in {"exited", "crashed"} /\ UNCHANGED <<handler, proc, pending, hit>>
    <3>1. UNCHANGED <<callVars, tableVars, caught, copy, spoilt>>
      BY <1>6 DEF HandlerKills, HandlerReadsFreed, HandlerExits
    <3> QED
      BY <2>2, <3>1 DEF Places, Ended
  <2>3. handler \in Slots => entry[handler] \in Garbage
    BY DEF Garbage
  <2> QED
    BY <1>6, <2>1, <2>2, <2>3 DEF HandlerKills, HandlerReadsFreed, HandlerExits
<1>7. CASE Interrupt
  <2>1. pending' \subseteq Pids /\ spoilt' \subseteq {"window", "late", "inherited", "unchecked"}
    BY <1>7 DEF Interrupt
  <2> QED
    BY <1>7, <2>1 DEF Interrupt
<1>8. ASSUME NEW p \in Pids, BurnerInterrupted(p) PROVE TypeInv'
  <2>1. Range(copy[p]) \subseteq Pids \union {NoPid}
    BY DEF Range
  <2> QED
    BY <1>8, <2>1 DEF BurnerInterrupted
<1>9. ASSUME NEW p \in Pids, Reused(p) PROVE TypeInv'
  BY <1>9 DEF Reused
<1>10. CASE UNCHANGED vars
  BY <1>10 DEF vars
<1>11. CASE CompleteAgain
  <2>1. spoilt' \subseteq {"window", "late", "inherited", "unchecked"} /\ pc = "again" /\ handler = 0
    BY <1>11 DEF CompleteAgain, At
  <2>2. ASSUME NEW p \in Garbage, Kill(p), next' = next + 1, UNCHANGED pc PROVE TypeInv'
    <3>1. next' \in 1 .. Cpus + 1
      BY <1>11, <2>2 DEF CompleteAgain
    <3>2. /\ proc' \in [Pids -> {"none", "burner", "zombie", "other"}]
          /\ pending' \subseteq pending /\ hit' \subseteq Pids
      BY <2>2, KillType
    <3> QED
      BY <1>11, <2>1, <2>2, <3>1, <3>2 DEF CompleteAgain
  <2>3. CASE pc' = "crashed" /\ UNCHANGED <<next, proc, pending, hit>>
    BY <1>11, <2>1, <2>3 DEF CompleteAgain, Places, Ended
  <2> QED
    BY <1>11, <2>2, <2>3 DEF CompleteAgain
<1> QED
  BY <1>1, <1>2, <1>3, <1>4, <1>5, <1>6, <1>7, <1>8, <1>9, <1>10, <1>11 DEF Next, Fwts, Terminating

(* The variables keep their types, and the index of the loop its bounds.    *)
THEOREM TypeCorrect == Spec => []TypeOK
<1>1. TypeInv => TypeOK
  BY DEF TypeInv
<1> QED
  BY <1>1, TypeInit, TypeNext, PTL DEF Spec

-----------------------------------------------------------------------------
(* No process is forgotten. *)

\* The slots that are still to be killed from, by whoever is at it.
ToKill == {j \in Slots :
             /\ j >= handler
             /\ \/ pc \in {"fork", "enter", "load"} /\ j < next
                \/ pc \in {"kill", "undo"} /\ j >= next}

\* A process that burns is in one of them, or about to be noted; or it is
\* interrupted itself, or lost in the window.
Known(p) ==
  \/ p \in pending
  \/ "window" \in spoilt
  \/ pc = "enter" /\ handler = 0 /\ p = child
  \/ \E j \in ToKill : entry[j] = p

AllKnown == \A p \in Pids : proc[p] = "burner" => Known(p)

\* The table is there as long as there is something to kill.
TableThere == pc \in {"fork", "enter", "load", "kill", "undo"} => table = "live"

LEMMA KillKeeps ==
  ASSUME TypeInv, NEW q \in Garbage, Kill(q), NEW p \in Pids, proc'[p] = "burner"
  PROVE  proc[p] = "burner" /\ p # q /\ (p \in pending => p \in pending')
BY CpuLoadAssumption DEF TypeInv, TypeOK, Kill, Garbage

LEMMA KnownNext == TypeInv /\ AllKnown /\ TableThere /\ [Next]_vars => AllKnown' /\ TableThere'
<1> SUFFICES ASSUME TypeInv, AllKnown, TableThere, [Next]_vars PROVE AllKnown' /\ TableThere'
  OBVIOUS
<1>0. next \in 1 .. Cpus + 1 /\ handler \in 0 .. Cpus + 1 /\ Cpus \in Nat
  BY CpuLoadAssumption DEF TypeInv, TypeOK
<1>1. TableThere'
  BY DEF TableThere, Next, Fwts, Start, StartFails, Fork, Enter, Complete, KillNext, Free,
     CompleteAgain, FreeAgain, Finish, HandlerKills, HandlerReadsFreed, HandlerExits, Interrupt,
     BurnerInterrupted, Reused, Terminating, At, vars, callVars, tableVars, procVars, signalVars
<1> SUFFICES ASSUME NEW p \in Pids, proc'[p] = "burner" PROVE Known(p)'
  BY <1>1 DEF AllKnown
<1>2. spoilt \subseteq spoilt'
  BY DEF Next, Fwts, Start, StartFails, Fork, Enter, Complete, KillNext, Free,
     CompleteAgain, FreeAgain, Finish, HandlerKills, HandlerReadsFreed, HandlerExits, Interrupt,
     BurnerInterrupted, Reused, Terminating, vars
<1>3. CASE UNCHANGED vars
  BY <1>3 DEF vars, AllKnown, Known, ToKill, callVars, tableVars, signalVars, procVars
<1>4. CASE Start \/ StartFails
  <2>1. pc \notin {"fork", "enter", "load", "kill", "undo"} /\ ToKill = {}
    BY <1>4 DEF Start, StartFails, At, ToKill
  <2>2. Known(p)
    BY <1>4 DEF AllKnown, Start, StartFails, procVars
  <2> QED
    BY <1>4, <2>1, <2>2 DEF Known, Start, StartFails, procVars
<1>5. CASE Fork
  <2>1. p = child' \/ proc[p] = "burner"
    BY <1>5 DEF Fork, TypeInv, TypeOK
  <2>2. pc' = "enter" /\ handler' = 0 /\ ToKill \subseteq ToKill'
    BY <1>5 DEF Fork, At, ToKill, signalVars
  <2> QED
    BY <1>5, <2>1, <2>2 DEF Fork, At, AllKnown, Known
<1>6. CASE Enter
  <2>1. Known(p) /\ next \in Slots /\ child \in Pids /\ handler = 0 /\ handler' = 0
    BY <1>6, <1>0 DEF Enter, At, AllKnown, TypeInv, procVars, signalVars, Slots
  <2>2. pc' \in {"load", "fork"} /\ next' = next + 1 /\ pc = "enter"
    BY <1>6 DEF Enter, At
  <2>3. CASE p = child
    <3>1. next \in ToKill' /\ entry'[next] = p
      BY <1>6, <1>0, <2>1, <2>2, <2>3 DEF Enter, ToKill, TypeInv, TypeOK, Slots
    <3> QED
      BY <3>1 DEF Known
  <2>4. ASSUME NEW j \in ToKill, entry[j] = p PROVE Known(p)'
    <3>1. j \in ToKill' /\ entry'[j] = p
      BY <1>6, <1>0, <2>1, <2>2, <2>4 DEF Enter, ToKill, TypeInv, TypeOK, Slots
    <3> QED
      BY <3>1 DEF Known
  <2> QED
    BY <1>6, <2>1, <2>3, <2>4 DEF Known, Enter, procVars
<1>7. CASE Complete
  <2>1. Known(p) /\ pc # "enter"
    BY <1>7 DEF Complete, At, AllKnown, procVars
  <2>2. ToKill \subseteq ToKill'
    BY <1>7, <1>0 DEF Complete, At, ToKill, signalVars, Slots
  <2> QED
    BY <1>7, <2>1, <2>2 DEF Known, Complete, procVars
<1>8. CASE KillNext
  <2>1. next \in Slots /\ Kill(entry[next]) /\ entry[next] \in Garbage /\ pc # "enter"
    BY <1>8, <1>0 DEF KillNext, At, Slots, Garbage, TypeInv, TypeOK
  <2>2. proc[p] = "burner" /\ p # entry[next] /\ (p \in pending => p \in pending')
    BY <2>1, KillKeeps
  <2>3. ToKill \ {next} \subseteq ToKill'
    BY <1>8, <1>0 DEF KillNext, At, ToKill, signalVars, Slots
  <2> QED
    BY <1>8, <2>1, <2>2, <2>3 DEF Known, AllKnown, KillNext
<1>9. CASE Free
  <2>1. Known(p) /\ pc # "enter" /\ ToKill = {}
    BY <1>9, <1>0 DEF Free, At, AllKnown, procVars, ToKill, Slots
  <2> QED
    BY <1>9, <2>1 DEF Known, Free, procVars
<1>10. CASE CompleteAgain \/ FreeAgain \/ Finish
  <2>1. pc # "enter" /\ pc' # "enter" /\ ToKill = {}
    BY <1>10 DEF CompleteAgain, FreeAgain, Finish, At, ToKill
  <2>2. proc[p] = "burner" /\ (p \in pending => p \in pending')
    BY <1>10, KillKeeps DEF CompleteAgain, FreeAgain, Finish, procVars
  <2> QED
    BY <1>2, <2>1, <2>2 DEF Known, AllKnown
<1>11. CASE HandlerKills \/ HandlerReadsFreed
  <2>1. CASE handler \in Slots /\ Kill(entry[handler]) /\ handler' = handler + 1 /\ UNCHANGED <<pc, tableVars>>
    <3>0. entry[handler] \in Garbage
      BY <2>1 DEF Garbage, TypeInv, TypeOK
    <3>1. proc[p] = "burner" /\ p # entry[handler] /\ (p \in pending => p \in pending')
      BY <2>1, <3>0, KillKeeps
    <3>2. ToKill \ {handler} \subseteq ToKill' /\ handler # 0
      BY <2>1, <1>0 DEF ToKill, Slots, tableVars
    <3> QED
      BY <1>2, <2>1, <3>1, <3>2 DEF Known, AllKnown, tableVars
  <2>2. CASE table # "live" /\ handler \in Slots /\ UNCHANGED <<proc, pending, spoilt>>
    <3>1. ToKill = {} /\ Known(p) /\ pc # "enter"
      BY <2>2 DEF TableThere, ToKill, AllKnown
    <3> QED
      BY <2>2, <3>1 DEF Known
  <2>3. CASE \E q \in Garbage : Kill(q) /\ handler' = handler + 1 /\ UNCHANGED <<pc, tableVars>> /\ table # "live"
    <3>1. ToKill = {} /\ pc # "enter"
      BY <2>3 DEF TableThere, ToKill
    <3>2. proc[p] = "burner" /\ (p \in pending => p \in pending')
      BY <2>3, KillKeeps
    <3> QED
      BY <1>2, <2>3, <3>1, <3>2 DEF Known, AllKnown
  <2> QED
    BY <1>11, <2>1, <2>2, <2>3 DEF HandlerKills, HandlerReadsFreed
<1>12. CASE HandlerExits
  <2>1. Known(p) /\ ToKill = {} /\ handler # 0
    BY <1>12, <1>0 DEF HandlerExits, AllKnown, procVars, ToKill, Slots
  <2> QED
    BY <1>12, <2>1 DEF Known, HandlerExits, procVars
<1>13. CASE Interrupt
  <2>1. PICK all \in BOOLEAN :
          /\ pending' = {q \in Pids : all /\ proc[q] = "burner"}
          /\ ("window" \in spoilt') \/ ~(pc = "enter" /\ ~all)
    BY <1>13 DEF Interrupt
  <2>2. proc[p] = "burner" /\ Known(p) /\ p \notin pending
    BY <1>13 DEF Interrupt, AllKnown, TypeInv
  <2>3. ToKill \subseteq ToKill'
    BY <1>13, <1>0 DEF Interrupt, ToKill, tableVars, Slots
  <2>4. CASE all
    BY <2>1, <2>2, <2>4 DEF Known
  <2>5. CASE ~all
    BY <1>13, <1>2, <2>1, <2>2, <2>3, <2>5 DEF Known, Interrupt, tableVars
  <2> QED
    BY <2>4, <2>5
<1>14. ASSUME NEW q \in Pids, BurnerInterrupted(q) PROVE Known(p)'
  <2>1. /\ proc[p] = "burner" /\ p # q /\ Known(p)
        /\ p \in pending => p \in pending'
    BY <1>14 DEF BurnerInterrupted, TypeInv, TypeOK, AllKnown
  <2>2. UNCHANGED <<pc, handler, child, entry, ToKill>>
    BY <1>14 DEF BurnerInterrupted, tableVars, signalVars, ToKill
  <2> QED
    BY <1>2, <2>1, <2>2 DEF Known
<1>15. ASSUME NEW q \in Pids, Reused(q) PROVE Known(p)'
  <2>1. proc[p] = "burner" /\ Known(p)
    BY <1>15 DEF Reused, TypeInv, TypeOK, AllKnown
  <2> QED
    BY <1>15, <2>1 DEF Known, Reused, tableVars, signalVars, ToKill
<1> QED
  BY <1>3, <1>4, <1>5, <1>6, <1>7, <1>8, <1>9, <1>10, <1>11, <1>12, <1>13, <1>14, <1>15
     DEF Next, Fwts, Terminating

(* When a load is over, and when fwts is, by SIGINT too, no process that it *)
(* forked is left burning, but one that it was interrupted before noting.   *)
THEOREM LoadEnds == Spec => []NoBurnerLeft
<1>1. Init => AllKnown /\ TableThere
  BY DEF Init, AllKnown, TableThere
<1>2. AllKnown => NoBurnerLeft
  BY DEF AllKnown, NoBurnerLeft, Known, ToKill, Ended
<1> QED
  BY <1>1, <1>2, TypeInit, TypeNext, KnownNext, PTL DEF Spec

-----------------------------------------------------------------------------
(* Nobody else is signalled. *)

Loading == pc \in {"fork", "enter", "load"}
OutOfOrder == spoilt \intersect {"late", "inherited", "unchecked"} # {}

\* A process of fwts that it has not waited for, so that its pid is not free.
Unwaited(p) == proc[p] \in {"burner", "zombie"}

\* What is still to be killed from are slots of such processes, each in one of
\* them, and slots that were never filled.  The one that is about to be noted
\* is none of those.  The handler kills from no table but that of a load.
EntriesFit ==
  /\ hit = {}
  /\ \A j \in ToKill : entry[j] # NoPid => Unwaited(entry[j])
  /\ \A j, k \in ToKill : entry[j] # NoPid /\ entry[j] = entry[k] => j = k
  /\ Loading => \A j \in Slots : j >= next => entry[j] = NoPid
  /\ pc = "enter" /\ handler = 0 => Unwaited(child) /\ \A j \in ToKill : entry[j] # child
  /\ handler > 0 => Loading \/ pc \in Ended

Signals == OutOfOrder \/ EntriesFit

LEMMA KillSafe ==
  ASSUME TypeInv, NEW i \in Slots, Kill(entry[i]), entry[i] # NoPid => Unwaited(entry[i])
  PROVE  hit' = hit /\ \A p \in Pids : p # entry[i] => proc'[p] = proc[p]
BY CpuLoadAssumption DEF TypeInv, TypeOK, Kill, Unwaited

LEMMA SignalsNext == TypeInv /\ TableThere /\ Signals /\ [Next]_vars => Signals'
<1> SUFFICES ASSUME TypeInv, TableThere, Signals, [Next]_vars, ~OutOfOrder' PROVE EntriesFit'
  BY DEF Signals
<1>0. next \in 1 .. Cpus + 1 /\ handler \in 0 .. Cpus + 1 /\ Cpus \in Nat
  BY CpuLoadAssumption DEF TypeInv, TypeOK
<1>1. spoilt \subseteq spoilt'
  BY DEF Next, Fwts, Start, StartFails, Fork, Enter, Complete, KillNext, Free,
     CompleteAgain, FreeAgain, Finish, HandlerKills, HandlerReadsFreed, HandlerExits, Interrupt,
     BurnerInterrupted, Reused, Terminating, vars
<1>2. EntriesFit
  BY <1>1 DEF Signals, OutOfOrder
<1>3. \A j \in Slots : entry[j] \in Pids \union {NoPid}
  BY DEF TypeInv, TypeOK
<1>4. CASE UNCHANGED vars
  BY <1>2, <1>4 DEF vars, EntriesFit, Unwaited, Loading, ToKill, callVars, tableVars, signalVars, procVars
<1>5. CASE Start
  <2>1. pc' = "fork" /\ ToKill' = {} /\ hit' = {} /\ handler' = 0 /\ \A j \in Slots : entry'[j] = NoPid
    BY <1>2, <1>5 DEF Start, At, ToKill, Slots, Fresh, Empty, EntriesFit, procVars
  <2> QED
    BY <2>1 DEF EntriesFit
<1>6. CASE StartFails \/ Free \/ FreeAgain \/ Finish
  <2>1. pc' \in {"idle", "again", "crashed", "done"} /\ hit' = {} /\ handler' = 0
    BY <1>2, <1>6 DEF StartFails, Free, FreeAgain, Finish, At, EntriesFit, procVars, signalVars
  <2> QED
    BY <2>1 DEF EntriesFit, ToKill, Loading
<1>7. CASE Fork
  <2>1. pc = "fork" /\ pc' = "enter" /\ handler = 0 /\ handler' = 0 /\ hit' = {} /\ next' = next
    BY <1>2, <1>7 DEF Fork, At, EntriesFit, signalVars
  <2>2. PICK p \in Pids : /\ proc[p] = "none" /\ child' = p
                          /\ proc' = [proc EXCEPT ![p] = "burner"]
    BY <1>7 DEF Fork
  <2>3. ToKill' = ToKill /\ entry' = entry
    BY <1>7, <2>1 DEF Fork, ToKill
  <2>4. \A j \in ToKill : entry[j] # p
    BY <1>2, <2>2, CpuLoadAssumption DEF EntriesFit, Unwaited
  <2>5. \A q \in Pids : Unwaited(q) => Unwaited(q)'
    BY <2>2 DEF Unwaited, TypeInv, TypeOK
  <2>6. Unwaited(child)'
    BY <2>2 DEF Unwaited, TypeInv, TypeOK
  <2>7. \A j \in ToKill' : entry'[j] # NoPid => Unwaited(entry[j])'
    BY <1>2, <1>3, <2>3, <2>5 DEF EntriesFit, ToKill
  <2> QED
    BY <1>2, <2>1, <2>2, <2>3, <2>4, <2>6, <2>7 DEF EntriesFit, Loading
<1>8. CASE Enter
  <2>1. /\ pc = "enter" /\ pc' \in {"load", "fork"} /\ handler = 0 /\ handler' = 0
        /\ hit' = {} /\ next' = next + 1 /\ UNCHANGED proc
        /\ next \in Slots /\ child \in Pids
    BY <1>0, <1>2, <1>8 DEF Enter, At, EntriesFit, signalVars, procVars, TypeInv, Slots
  <2>2. entry' = [entry EXCEPT ![next] = child] /\ entry'[next] = child
    BY <1>8, <2>1 DEF Enter, TypeInv, TypeOK
  <2>3. ToKill' \subseteq ToKill \union {next} /\ next \notin ToKill /\ ToKill \subseteq Slots
    BY <1>0, <2>1 DEF ToKill, Slots
  <2>4. \A j \in Slots : j # next => entry'[j] = entry[j]
    BY <2>2 DEF TypeInv, TypeOK
  <2>5. \A j \in ToKill' : entry'[j] # NoPid => Unwaited(entry[j])'
    BY <1>2, <2>1, <2>2, <2>3, <2>4 DEF EntriesFit, Unwaited
  <2>6. \A j, k \in ToKill' : entry'[j] # NoPid /\ entry'[j] = entry'[k] => j = k
    BY <1>2, <2>1, <2>2, <2>3, <2>4 DEF EntriesFit
  <2>7. \A j \in Slots : j >= next' => entry'[j] = NoPid
    BY <1>0, <1>2, <2>1, <2>4 DEF EntriesFit, Loading, Slots
  <2> QED
    BY <2>1, <2>5, <2>6, <2>7 DEF EntriesFit
<1>9. CASE Complete
  <2>1. pc \in {"load", "fork"} /\ pc' \in {"kill", "undo"} /\ handler = 0 /\ UNCHANGED <<entry, proc, hit, handler>>
    BY <1>9 DEF Complete, At, signalVars, procVars
  <2>2. \A j \in ToKill' : j \in ToKill \/ entry[j] = NoPid
    BY <1>0, <1>2, <2>1 DEF EntriesFit, Loading, ToKill, Slots
  <2> QED
    BY <1>2, <2>1, <2>2 DEF EntriesFit, Unwaited, Loading
<1>10. CASE KillNext
  <2>1. /\ next \in ToKill /\ next \in Slots /\ Kill(entry[next]) /\ handler = 0
        /\ pc \in {"kill", "undo"} /\ UNCHANGED <<pc, entry, handler>>
    BY <1>0, <1>10 DEF KillNext, At, ToKill, Slots, signalVars
  <2>2. ToKill' \subseteq ToKill \ {next}
    BY <1>0, <1>10, <2>1 DEF KillNext, ToKill, Slots
  <2>3. hit' = hit /\ \A p \in Pids : p # entry[next] => proc'[p] = proc[p]
    BY <1>2, <2>1, KillSafe DEF EntriesFit
  <2>4. \A j \in ToKill' : entry[j] # NoPid => Unwaited(entry[j])'
    BY <1>2, <1>3, <2>1, <2>2, <2>3 DEF EntriesFit, Unwaited, ToKill
  <2> QED
    BY <1>2, <2>1, <2>2, <2>3, <2>4 DEF EntriesFit, Loading
<1>11. CASE HandlerKills
  <2>1. /\ handler \in Slots /\ Kill(entry[handler]) /\ pc \notin Ended /\ handler' = handler + 1
        /\ UNCHANGED <<pc, entry, next>>
    BY <1>11 DEF HandlerKills, tableVars
  <2>2. Loading /\ Loading' /\ handler > 0 /\ handler' > 0
    BY <1>0, <1>2, <2>1 DEF EntriesFit, Slots, Loading
  <2>3. entry[handler] # NoPid => handler \in ToKill
    BY <1>0, <1>2, <2>1, <2>2 DEF EntriesFit, ToKill, Loading, Slots
  <2>4. hit' = hit /\ \A p \in Pids : p # entry[handler] => proc'[p] = proc[p]
    BY <1>2, <2>1, <2>3, KillSafe DEF EntriesFit
  <2>5. ToKill' \subseteq ToKill \ {handler}
    BY <1>0, <2>1 DEF ToKill, Slots
  <2>6. \A j \in ToKill' : entry[j] # NoPid => Unwaited(entry[j])'
    BY <1>2, <1>3, <2>1, <2>3, <2>4, <2>5 DEF EntriesFit, Unwaited, ToKill
  <2> QED
    BY <1>2, <2>1, <2>2, <2>4, <2>5, <2>6 DEF EntriesFit, Loading
<1>12. CASE HandlerReadsFreed
  <2>1. handler > 0 /\ ~Loading /\ pc \notin Ended
    BY <1>0, <1>12 DEF HandlerReadsFreed, TableThere, Loading, Slots
  <2> QED
    BY <1>2, <2>1 DEF EntriesFit
<1>13. CASE HandlerExits
  <2>1. pc' = "exited" /\ hit' = {}
    BY <1>2, <1>13 DEF HandlerExits, EntriesFit, procVars
  <2> QED
    BY <2>1 DEF EntriesFit, ToKill, Loading, Ended
<1>14. CASE Interrupt
  <2>1. /\ handler = 0 /\ handler' = 1 /\ pc \notin Ended
        /\ UNCHANGED <<pc, entry, next, child, proc, hit>>
    BY <1>14 DEF Interrupt, tableVars
  <2>2. pc \notin {"kill", "undo", "again", "idle"}
    BY <1>14 DEF Interrupt, OutOfOrder
  <2>3. Loading
    BY <2>1, <2>2 DEF TypeInv, TypeOK, Places, Loading
  <2>4. ToKill' \subseteq ToKill
    BY <1>0, <2>1 DEF ToKill, Slots
  <2> QED
    BY <1>2, <2>1, <2>3, <2>4 DEF EntriesFit, Unwaited, Loading
<1>15. ASSUME NEW p \in Pids, BurnerInterrupted(p) PROVE EntriesFit'
  <2>1. UNCHANGED <<pc, handler, next, child, entry, ToKill>>
    BY <1>15 DEF BurnerInterrupted, tableVars, signalVars, ToKill
  <2>2. hit' = hit
    BY <1>15 DEF BurnerInterrupted, OutOfOrder
  <2>3. \A q \in Pids : Unwaited(q) => Unwaited(q)'
    BY <1>15 DEF BurnerInterrupted, Unwaited, TypeInv, TypeOK
  <2>4. handler > 0
    BY <1>15, <1>0 DEF BurnerInterrupted, TypeInv
  <2>5. \A j \in ToKill : entry[j] # NoPid => Unwaited(entry[j])'
    BY <1>2, <1>3, <2>3, <2>1 DEF EntriesFit, ToKill
  <2> QED
    BY <1>2, <2>1, <2>2, <2>4, <2>5 DEF EntriesFit, Loading
<1>16. ASSUME NEW p \in Pids, Reused(p) PROVE EntriesFit'
  <2>1. UNCHANGED <<pc, handler, next, child, entry, hit, ToKill>>
    BY <1>16 DEF Reused, tableVars, signalVars, ToKill
  <2>2. \A q \in Pids : Unwaited(q) => Unwaited(q)'
    BY <1>16 DEF Reused, Unwaited, TypeInv, TypeOK
  <2>3. \A j \in ToKill : entry[j] # NoPid => Unwaited(entry[j])'
    BY <1>2, <1>3, <2>2, <2>1 DEF EntriesFit, ToKill
  <2>4. pc = "enter" /\ handler = 0 => Unwaited(child)'
    BY <1>2, <2>1, <2>2 DEF EntriesFit, TypeInv
  <2> QED
    BY <1>2, <2>1, <2>3, <2>4 DEF EntriesFit, Loading
<1>17. CASE CompleteAgain
  BY <1>17 DEF CompleteAgain, OutOfOrder
<1> QED
  BY <1>4, <1>5, <1>6, <1>7, <1>8, <1>9, <1>10, <1>11, <1>12, <1>13, <1>14, <1>15, <1>16, <1>17
     DEF Next, Fwts, Terminating

(* fwts signals no process but its own, whatever pids the system gives out  *)
(* again, as long as no SIGINT comes after complete() has begun, nor to a   *)
(* burner that knows of one waited for, and complete() is not called for a   *)
(* start() that failed.                                                     *)
THEOREM SignalsCorrect == Spec => []OnlyBurnersSignalled
<1>1. Init => TableThere /\ Signals
  BY DEF Init, TableThere, Signals, EntriesFit, ToKill, Loading
<1>2. Signals => OnlyBurnersSignalled
  BY DEF Signals, EntriesFit, OutOfOrder, OnlyBurnersSignalled
<1>3. Init => AllKnown
  BY DEF Init, AllKnown
<1> QED
  BY <1>1, <1>2, <1>3, TypeInit, TypeNext, KnownNext, SignalsNext, PTL DEF Spec
=============================================================================
