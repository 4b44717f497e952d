------------------------------- MODULE CpuLoad -------------------------------
(***************************************************************************)
(* The processes that keep every CPU busy: fwts_cpu_consume_start() forks  *)
(* one for each CPU and notes it in fwts_cpu_pids[], and complete() kills  *)
(* those noted there, as does the handler of SIGINT.  The handler may run  *)
(* between any two steps; the burners inherit it, with the table as it was *)
(* when they were forked.                                                  *)
(***************************************************************************)
EXTENDS Naturals, FiniteSets, Functions

CONSTANTS
  Cpus,      \* what fwts_cpu_enumerate() returns
  Pids,      \* process identities
  NoPid,     \* the 0 of calloc()
  MaxCalls   \* bound: times the load is started

ASSUME CpuLoadAssumption ==
  /\ Cpus \in Nat \ {0}
  /\ MaxCalls \in Nat
  /\ NoPid \notin Pids

VARIABLES
  pc,       \* of fwts, see Places
  checked,  \* the caller looks at the result, as fwts_cpu_consume() does
  table,    \* fwts_cpu_pids: "null", "live" or "freed"
  entry,    \* what is in it
  next,     \* the index of the loop of fwts
  child,    \* forked and not yet entered
  calls,
  handler,  \* the index of the loop of the SIGINT handler; 0: it is not running
  caught,   \* the handler is installed
  proc,     \* of each pid: "none", "burner", "zombie" or "other"
  copy,     \* the table each burner inherited
  pending,  \* burners with a SIGINT to come
  (* History variables. *)
  hit,      \* processes of others that fwts sent SIGUSR1
  spoilt    \* how the protocol was broken, see Interrupt, CompleteAgain
             \* and BurnerInterrupted

callVars   == <<checked, calls>>
tableVars  == <<table, entry, next, child>>
signalVars == <<handler, caught>>
procVars   == <<proc, copy, pending, hit>>
vars == <<pc, callVars, tableVars, signalVars, procVars, spoilt>>

Slots == 1 .. Cpus
Empty == [i \in Slots |-> NoPid]
Ended == {"done", "exited", "crashed"}
Places == {"idle", "fork", "enter", "load", "kill", "undo", "again"} \union Ended

Init ==
  /\ pc = "idle"
  /\ checked = TRUE
  /\ table = "null"
  /\ entry = Empty
  /\ next = 1
  /\ child = NoPid
  /\ handler = 0
  /\ caught = FALSE
  /\ proc = [p \in Pids |-> "none"]
  /\ copy = [p \in Pids |-> Empty]
  /\ pending = {}
  /\ calls = 0
  /\ hit = {}
  /\ spoilt = {}

\* fwts runs when its handler does not.
At(place) == pc = place /\ handler = 0

-----------------------------------------------------------------------------
\* The bug of malloc() in the place of calloc(): the old entries are back.
FreshMalloc == entry

\* A new table is all zero.
Fresh == Empty

\* The handler is set by each start, and never reset.
Start ==
  /\ At("idle")
  /\ calls < MaxCalls
  /\ calls' = calls + 1
  /\ checked' \in BOOLEAN
  /\ table' = "live"
  /\ entry' = Fresh
  /\ next' = 1
  /\ caught' = TRUE
  /\ pc' = "fork"
  /\ UNCHANGED <<child, handler, procVars, spoilt>>

\* No memory for a table: a caller that does not look goes on to complete().
StartFails ==
  /\ At("idle")
  /\ calls < MaxCalls
  /\ calls' = calls + 1
  /\ checked' \in BOOLEAN
  /\ table' = "null"
  /\ next' = 1
  /\ pc' = IF checked' THEN "idle" ELSE "again"
  /\ UNCHANGED <<entry, child, signalVars, procVars, spoilt>>

Fork ==
  /\ At("fork")
  /\ next <= Cpus
  /\ \E p \in {q \in Pids : proc[q] = "none"} :
       /\ proc' = [proc EXCEPT ![p] = "burner"]
       /\ copy' = [copy EXCEPT ![p] = entry]
       /\ child' = p
  /\ pc' = "enter"
  /\ UNCHANGED <<callVars, table, entry, next, signalVars, pending, hit, spoilt>>

Enter ==
  /\ At("enter")
  /\ entry' = [entry EXCEPT ![next] = child]
  /\ child' = NoPid
  /\ next' = next + 1
  /\ pc' = IF next = Cpus THEN "load" ELSE "fork"
  /\ UNCHANGED <<callVars, table, signalVars, procVars, spoilt>>

\* complete() is called when the time is up, and by start() when a fork fails.
Complete ==
  /\ At("load") \/ At("fork")
  /\ pc' = IF pc = "load" THEN "kill" ELSE "undo"
  /\ next' = 1
  /\ UNCHANGED <<callVars, table, entry, child, signalVars, procVars, spoilt>>

\* One round of fwts_cpu_consume_kill(), that finds p in the table: kill() and
\* waitid().
Kill(p) ==
  LET q == {p} \ {NoPid}
  IN  /\ proc' = [r \in Pids |-> IF r \in q /\ proc[r] # "other" THEN "none"
                                                               ELSE proc[r]]
      /\ pending' = pending \ q
      /\ hit' = hit \union {r \in q : proc[r] = "other"}

\* The bug of a loop that ends before the last process.
KillNextButLast ==
  /\ At("kill") \/ At("undo")
  /\ next <= Cpus
  /\ IF next = Cpus THEN UNCHANGED <<proc, pending, hit>> ELSE Kill(entry[next])
  /\ next' = next + 1
  /\ UNCHANGED <<pc, callVars, table, entry, child, signalVars, copy, spoilt>>

\* The bug of a loop that stays at the process it just killed.
KillNextSame ==
  /\ At("kill") \/ At("undo")
  /\ next <= Cpus
  /\ Kill(entry[next])
  /\ UNCHANGED <<pc, callVars, tableVars, signalVars, copy, spoilt>>

KillNext ==
  /\ At("kill") \/ At("undo")
  /\ next <= Cpus
  /\ Kill(entry[next])
  /\ next' = next + 1
  /\ UNCHANGED <<pc, callVars, table, entry, child, signalVars, copy, spoilt>>

\* The table is freed; the pointer to it, its length and the handler stay.
Free ==
  /\ At("kill") \/ At("undo")
  /\ next > Cpus
  /\ table' = "freed"
  /\ next' = 1
  /\ pc' = IF pc = "kill" \/ checked THEN "idle" ELSE "again"
  /\ UNCHANGED <<callVars, entry, child, signalVars, procVars, spoilt>>

\* What a table that was freed holds: the pids of before, or anything else.
Garbage == Pids \union {NoPid}

(* complete() for a start() that failed.  The table is not there; or it was *)
(* freed, and what is in its memory is signalled as if it were a pid.       *)
CompleteAgain ==
  /\ At("again")
  /\ next <= Cpus
  /\ spoilt' = spoilt \union {"unchecked"}
  /\ \/ /\ table = "freed"
        /\ \E p \in Garbage : Kill(p)
        /\ next' = next + 1
        /\ UNCHANGED pc
     \/ /\ pc' = "crashed"
        /\ UNCHANGED <<next, proc, pending, hit>>
  /\ UNCHANGED <<callVars, table, entry, child, signalVars, copy>>

\* free() may see that the table is freed a second time, or not.
FreeAgain ==
  /\ At("again")
  /\ next > Cpus
  /\ pc' \in {"idle", "crashed"}
  /\ next' = 1
  /\ UNCHANGED <<callVars, table, entry, child, signalVars, procVars, spoilt>>

Finish ==
  /\ At("idle")
  /\ pc' = "done"
  /\ UNCHANGED <<callVars, tableVars, signalVars, procVars, spoilt>>

(***************************************************************************)
(* SIGINT, once: to fwts alone, or from a terminal to the burners too.     *)
(***************************************************************************)

(* "window": a process is not in the table yet and gets no SIGINT itself.   *)
(* "late": processes in the table are gone, or the table is.                 *)
Interrupt ==
  /\ caught
  /\ handler = 0
  /\ pc \notin Ended
  /\ handler' = 1
  /\ \E all \in BOOLEAN :
       /\ pending' = {p \in Pids : all /\ proc[p] = "burner"}
       /\ spoilt' = spoilt \union
            {s \in {"window", "late"} :
               \/ s = "window" /\ pc = "enter" /\ ~all
               \/ s = "late" /\ pc \in {"kill", "undo", "again", "idle"}}
  /\ UNCHANGED <<pc, callVars, tableVars, caught, proc, copy, hit>>

HandlerKills ==
  /\ handler \in Slots
  /\ pc \notin Ended
  /\ table = "live"
  /\ Kill(entry[handler])
  /\ handler' = handler + 1
  /\ UNCHANGED <<pc, callVars, tableVars, caught, copy, spoilt>>

\* Freed memory may still hold the pids, or others, or not be there at all.
HandlerReadsFreed ==
  /\ handler \in Slots
  /\ pc \notin Ended
  /\ table # "live"
  /\ \/ /\ table = "freed"
        /\ \E p \in Garbage : Kill(p)
        /\ handler' = handler + 1
        /\ UNCHANGED pc
     \/ /\ pc' = "crashed"
        /\ UNCHANGED <<handler, proc, pending, hit>>
  /\ UNCHANGED <<callVars, tableVars, caught, copy, spoilt>>

HandlerExits ==
  /\ handler > Cpus
  /\ pc \notin Ended
  /\ pc' = "exited"
  /\ UNCHANGED <<callVars, tableVars, signalVars, procVars, spoilt>>

(* A burner runs the same handler: it kills those it knows of and is gone.  *)
(* "inherited": one that it knew of has been waited for since, and its pid   *)
(* is somebody else's.                                                       *)
BurnerInterrupted(p) ==
  /\ p \in pending
  /\ LET known == Range(copy[p]) \ {NoPid}
         strangers == {q \in known : proc[q] = "other"}
     IN  /\ proc' = [q \in Pids |->
                       IF q = p \/ (q \in known /\ proc[q] = "burner")
                       THEN "zombie" ELSE proc[q]]
         /\ pending' = (pending \ known) \ {p}
         /\ hit' = hit \union strangers
         /\ spoilt' = spoilt \union (IF strangers = {} THEN {} ELSE {"inherited"})
  /\ UNCHANGED <<pc, callVars, tableVars, signalVars, copy>>

\* A pid that is free goes to some other process.
Reused(p) ==
  /\ proc[p] = "none"
  /\ proc' = [proc EXCEPT ![p] = "other"]
  /\ UNCHANGED <<pc, callVars, tableVars, signalVars, copy, pending, hit, spoilt>>

-----------------------------------------------------------------------------
Fwts ==
  \/ Start \/ StartFails \/ Fork \/ Enter \/ Complete \/ KillNext \/ Free
  \/ CompleteAgain \/ FreeAgain \/ Finish
  \/ HandlerKills \/ HandlerReadsFreed \/ HandlerExits

Terminating == pc \in Ended /\ pending = {} /\ UNCHANGED vars

Next ==
  \/ Fwts
  \/ Interrupt
  \/ \E p \in Pids : BurnerInterrupted(p) \/ Reused(p)
  \/ Terminating

\* Every process is scheduled and gets the signals it was sent.
Spec ==
  /\ Init /\ [][Next]_vars
  /\ WF_vars(Fwts)
  /\ \A p \in Pids : WF_vars(BurnerInterrupted(p))

-----------------------------------------------------------------------------
(* The variables have their types; between forks the loop index says how    *)
(* much of the table is filled.                                              *)
TypeOK ==
  /\ pc \in Places
  /\ checked \in BOOLEAN /\ caught \in BOOLEAN
  /\ table \in {"null", "live", "freed"}
  /\ entry \in [Slots -> Pids \union {NoPid}]
  /\ next \in 1 .. Cpus + 1 /\ handler \in 0 .. Cpus + 1
  /\ child \in Pids \union {NoPid}
  /\ calls \in 0 .. MaxCalls
  /\ proc \in [Pids -> {"none", "burner", "zombie", "other"}]
  /\ copy \in [Pids -> [Slots -> Pids \union {NoPid}]]
  /\ pending \subseteq Pids /\ hit \subseteq Pids
  /\ spoilt \subseteq {"window", "late", "inherited", "unchecked"}

(* fwts sends SIGUSR1 only to processes it forked and has not waited for,    *)
(* whatever pids the system gives out again, unless SIGINT came after        *)
(* complete() had begun, or to burners too that know of one waited for, or   *)
(* complete() was called for a start() that had failed.                      *)
OnlyBurnersSignalled ==
  hit = {} \/ spoilt \intersect {"late", "inherited", "unchecked"} # {}

(* Between loads, after a fork() that failed too, and at the end of fwts,   *)
(* no process is left burning, unless it has a SIGINT to come or fwts alone  *)
(* was interrupted before it noted the process.                              *)
NoBurnerLeft ==
  pc \in {"idle"} \union Ended =>
    \A p \in Pids : proc[p] = "burner" => p \in pending \/ "window" \in spoilt

(* "kill all CPU consumes, free up pid info" (fwts_cpu.c:545): whatever      *)
(* became of start(), complete() signals no other process, unless SIGINT     *)
(* came in between.                                                          *)
CompleteKillsConsumers == hit = {} \/ spoilt \intersect {"late", "inherited"} # {}

(* Every process that fwts starts to burn cycles stops in the end.          *)
BurnersStop ==
  \A p \in Pids : proc[p] = "burner" ~> (proc[p] # "burner" \/ "window" \in spoilt)

(* "kill all CPU consumer processes and die" (fwts_cpu.c:333): when the     *)
(* handler has ended fwts, no process burns on.                              *)
KillAllAndDie == pc = "exited" /\ pending = {} => \A p \in Pids : proc[p] # "burner"
=============================================================================
