------------------------------ MODULE AcpicaOs ------------------------------
(***************************************************************************)
(* The operating system layer fwts gives the ACPICA interpreter: the table *)
(* of accounted semaphores, the threads AcpiOsExecute() starts for         *)
(* Notify(), the alarm that breaks an endless wait, and the evaluation     *)
(* loop of the ACPI tests around them.  What the AML being interpreted     *)
(* does is arbitrary: any thread inside a method makes any of the calls.   *)
(*                                                                         *)
(* A section under mutex_lock_sem_table or mutex_thread_info is one step;  *)
(* what lies between two of them can be interleaved.  Every ACPICA mutex   *)
(* is one of these semaphores too (ACPI_MUTEX_TYPE is the binary           *)
(* semaphore), taken with ACPI_WAIT_FOREVER.                               *)
(***************************************************************************)
EXTENDS Integers, FiniteSets

CONSTANTS
  Main,            \* the thread that runs the tests
  Workers,         \* the threads AcpiOsExecute() may create in one run
  NoThread,        \* a pthread_t of no thread: none yet, or one joined before
  MaxSemaphores,   \* MAX_SEMAPHORES
  MaxThreads,      \* MAX_THREADS
  MaxEvaluations,  \* bound: methods evaluated
  MaxCalls,        \* bound: calls one thread makes in one method
  Nested           \* whether the _NOT methods Notify() in their turn

ASSUME AcpicaOsAssumption ==
  /\ Main \notin Workers
  /\ NoThread \notin Workers \cup {Main}
  /\ IsFiniteSet(Workers)
  /\ MaxSemaphores \in Nat \ {0}
  /\ MaxThreads \in Nat \ {0}
  /\ MaxEvaluations \in Nat
  /\ MaxCalls \in Nat
  /\ Nested \in BOOLEAN

Threads == Workers \cup {Main}
Semaphores == 1 .. MaxSemaphores
Slots == 1 .. MaxThreads

VARIABLES
  sem,         \* sem_table[]: used and count; value is the sem_t's, open that a handle was given out
  slots,       \* threads[]: used and the pthread_t
  pc,          \* where each thread is
  at,          \* the semaphore a thread's call is about
  calls,       \* calls made in the present method
  index,       \* ctx->thread_index of each worker
  alarm,       \* whether alarm() is armed: one timer for the process
  cursor,      \* i in fwts_acpica_sem_count_get()
  joining,     \* the thread pthread_join() was given
  evaluations, \* methods evaluated
  report       \* the two figures sem_count_get() returned last

vars == <<sem, slots, pc, at, calls, index, alarm, cursor, joining, evaluations, report>>
osVars == <<slots, index, cursor, joining, evaluations, report>>
threadVars == <<sem, at, alarm, evaluations, report>>

\* An entry before anything used it.
Unused == [used |-> FALSE, open |-> FALSE, value |-> 0, count |-> 0]

\* What sem_count_get() counts as acquired, and as released.
Acquired == {s \in Semaphores : sem[s].used}
Released == {s \in Acquired : sem[s].count = 0}

\* The loops over sem_table[] and threads[] stop at the first free entry.
FirstFreeSem == {s \in Semaphores : ~sem[s].used /\ \A r \in 1 .. s - 1 : sem[r].used}
FirstFreeSlot == {i \in Slots : ~slots[i].used /\ \A j \in 1 .. i - 1 : slots[j].used}

\* Thread t is inside a method and makes another call.
Calling(t) ==
  /\ pc[t] = "run"
  /\ calls[t] < MaxCalls
  /\ calls' = [calls EXCEPT ![t] = @ + 1]

Go(t, label) == pc' = [pc EXCEPT ![t] = label]

\* Semaphores some thread is inside a call about: the AML object is referenced.
InCall == {"wait", "interrupted", "got", "acquired", "posted"}
Referenced == {at[t] : t \in {u \in Threads : pc[u] \in InCall}}

-----------------------------------------------------------------------------
(* The semaphore calls *)

\* AcpiInitialize() and the table load created some semaphores already, as
\* free mutexes (one unit) or as events (none).
Init ==
  /\ \E n \in 0 .. MaxSemaphores : \E units \in [1 .. n -> {0, 1}] :
       sem = [s \in Semaphores |->
                IF s <= n THEN [used |-> TRUE, open |-> TRUE, value |-> units[s], count |-> 0]
                          ELSE Unused]
  /\ slots = [i \in Slots |-> [used |-> FALSE, thread |-> NoThread]]
  /\ pc = [t \in Threads |-> IF t = Main THEN "idle" ELSE "none"]
  /\ at = [t \in Threads |-> 0]
  /\ calls = [t \in Threads |-> 0]
  /\ index = [w \in Workers |-> 0]
  /\ alarm = "off"
  /\ cursor = 1
  /\ joining = NoThread
  /\ evaluations = 0
  /\ report = [acquired |-> 0, released |-> 0]

\* AcpiOsCreateSemaphore(); a failing sem_init() leaves the entry used though
\* no handle to it exists.  With the table full nothing happens.
CreateSemaphore(t) ==
  /\ Calling(t)
  /\ \E s \in FirstFreeSem, opens \in BOOLEAN, units \in {0, 1} :
       /\ ~opens => units = 0
       /\ sem' = [sem EXCEPT ![s] = [used |-> TRUE, open |-> opens, value |-> units, count |-> 0]]
  /\ UNCHANGED <<pc, at, alarm, osVars>>

CreateSemaphoreFull(t) ==
  /\ Calling(t)
  /\ FirstFreeSem = {}
  /\ UNCHANGED <<sem, pc, at, alarm, osVars>>

\* AcpiOsDeleteSemaphore(): the interpreter deletes an object nothing refers to.
DeleteSemaphore(t) ==
  /\ Calling(t)
  /\ \E s \in Semaphores \ Referenced :
       /\ sem[s].used /\ sem[s].open
       /\ sem' = [sem EXCEPT ![s] = [used |-> FALSE, open |-> FALSE, value |-> @.value, count |-> 0]]
  /\ UNCHANGED <<pc, at, alarm, osVars>>

\* The bug of not looking at what sem_trywait() returned.
TakeUnitUnchecked(s) == sem' = [sem EXCEPT ![s].value = @ - 1]

\* sem_trywait() and the uncontended sem_wait(): a unit is there to be taken.
TakeUnit(s) ==
  /\ sem[s].value > 0
  /\ sem' = [sem EXCEPT ![s].value = @ - 1]

\* The bug of a break where the code returns AE_TIME.
WaitBrieflyFallingThrough(t) ==
  /\ Calling(t)
  /\ \E s \in Semaphores :
       /\ sem[s].open
       /\ TakeUnit(s) \/ (sem[s].value = 0 /\ UNCHANGED sem)
       /\ Go(t, "acquired")
       /\ at' = [at EXCEPT ![t] = s]
  /\ UNCHANGED <<alarm, osVars>>

\* AcpiOsWaitSemaphore() with any timeout but ACPI_WAIT_FOREVER.  The timed
\* branch gives sem_timedwait() the timeout itself as an absolute time, which
\* passed in 1970, so it never waits either: AE_TIME unless a unit is there.
WaitBriefly(t) ==
  /\ Calling(t)
  /\ \E s \in Semaphores :
       /\ sem[s].open
       /\ \/ TakeUnit(s) /\ Go(t, "acquired") /\ at' = [at EXCEPT ![t] = s]
          \/ sem[s].value = 0 /\ UNCHANGED <<sem, pc, at>>
  /\ UNCHANGED <<alarm, osVars>>

\* ACPI_WAIT_FOREVER: alarm(MAX_WAIT_TIMEOUT), then sem_wait().
WaitForever(t) ==
  /\ Calling(t)
  /\ \E s \in Semaphores : sem[s].open /\ at' = [at EXCEPT ![t] = s]
  /\ alarm' = "armed"
  /\ Go(t, "wait")
  /\ UNCHANGED <<sem, osVars>>

\* sem_wait() returns 0.
WaitSucceeds(t) ==
  /\ pc[t] = "wait"
  /\ TakeUnit(at[t])
  /\ Go(t, "got")
  /\ UNCHANGED <<at, calls, alarm, osVars>>

\* alarm(0): it cancels the timer of the process, whoever armed it.
CancelAlarm(t) ==
  /\ pc[t] = "got"
  /\ alarm' = "off"
  /\ Go(t, "acquired")
  /\ UNCHANGED <<sem, at, calls, osVars>>

\* sem->count++ under the lock.
CountAcquire(t) ==
  /\ pc[t] = "acquired"
  /\ sem' = [sem EXCEPT ![at[t]].count = @ + 1]
  /\ Go(t, "run")
  /\ UNCHANGED <<at, calls, alarm, osVars>>

\* sem_wait() returned EINTR: alarm(0) and AE_TIME.
GiveUp(t) ==
  /\ pc[t] = "interrupted"
  /\ alarm' = "off"
  /\ Go(t, "run")
  /\ UNCHANGED <<sem, at, calls, osVars>>

\* AcpiOsSignalSemaphore(): sem_post(), then sem->count-- under the lock.
SignalSemaphore(t) ==
  /\ Calling(t)
  /\ \E s \in Semaphores :
       /\ sem[s].open
       /\ sem' = [sem EXCEPT ![s].value = @ + 1]
       /\ at' = [at EXCEPT ![t] = s]
  /\ Go(t, "posted")
  /\ UNCHANGED <<alarm, osVars>>

CountRelease(t) ==
  /\ pc[t] = "posted"
  /\ sem' = [sem EXCEPT ![at[t]].count = @ - 1]
  /\ Go(t, "run")
  /\ UNCHANGED <<at, calls, alarm, osVars>>

Live == {t \in Threads : pc[t] \notin {"none", "exited"}}

\* SIGALRM is sent to the process: the kernel picks a thread to run sem_alarm()
\* in, and only a sem_wait() of that thread is interrupted.
SigAlarm ==
  /\ pc[Main] # "crashed"
  /\ alarm = "armed"
  /\ alarm' = "off"
  /\ \E t \in Live : pc' = [pc EXCEPT ![t] = IF @ = "wait" THEN "interrupted" ELSE @]
  /\ UNCHANGED <<sem, at, calls, osVars>>

-----------------------------------------------------------------------------
(* The threads *)

MayNotify(t) == t = Main \/ Nested

\* AcpiOsExecute() starts a thread in the first free slot.
Execute(t) ==
  /\ MayNotify(t)
  /\ Calling(t)
  /\ \E i \in FirstFreeSlot, w \in Workers :
       /\ pc[w] = "none"
       /\ slots' = [slots EXCEPT ![i] = [used |-> TRUE, thread |-> w]]
       /\ index' = [index EXCEPT ![w] = i]
       /\ Go(w, "run")
  /\ UNCHANGED <<threadVars, cursor, joining>>

\* pthread_create() fails: the slot stays used, naming whatever it named, or
\* nothing, for what a failed call leaves in the pthread_t is undefined.
ExecuteFails(t) ==
  /\ MayNotify(t)
  /\ Calling(t)
  /\ \E i \in FirstFreeSlot, keeps \in BOOLEAN :
       slots' = [slots EXCEPT ![i] = [used |-> TRUE,
                                      thread |-> IF keeps THEN @.thread ELSE NoThread]]
  /\ UNCHANGED <<threadVars, pc, index, cursor, joining>>

\* No free slot, or no memory for the context.
ExecuteRefused(t) ==
  /\ MayNotify(t)
  /\ Calling(t)
  /\ UNCHANGED <<threadVars, pc, slots, index, cursor, joining>>

\* The bug of a wrapper that gives its slot back before it calls the function.
FunctionReturnsSlotFreed(w) ==
  /\ pc[w] = "run"
  /\ slots' = [slots EXCEPT ![index[w]].used = FALSE]
  /\ IF slots[index[w]].used THEN UNCHANGED pc ELSE Go(w, "returned")
  /\ UNCHANGED <<threadVars, calls, index, cursor, joining>>

\* fwts_pthread_func_wrapper(): the method returns, ...
FunctionReturns(w) ==
  /\ pc[w] = "run"
  /\ Go(w, "returned")
  /\ UNCHANGED <<threadVars, calls, slots, index, cursor, joining>>

\* ... its slot is given back and the thread ends.
ThreadExits(w) ==
  /\ pc[w] = "returned"
  /\ slots' = [slots EXCEPT ![index[w]].used = FALSE]
  /\ Go(w, "exited")
  /\ UNCHANGED <<threadVars, calls, index, cursor, joining>>

-----------------------------------------------------------------------------
(* One evaluation: sem_count_clear(), AcpiEvaluateObject(), sem_count_get() *)

ClearCounts ==
  /\ pc[Main] = "idle"
  /\ evaluations < MaxEvaluations
  /\ evaluations' = evaluations + 1
  /\ sem' = [s \in Semaphores |-> [sem[s] EXCEPT !.count = 0]]
  /\ calls' = [calls EXCEPT ![Main] = 0]
  /\ Go(Main, "run")
  /\ UNCHANGED <<at, alarm, slots, index, cursor, joining, report>>

MethodReturns ==
  /\ pc[Main] = "run"
  /\ Go(Main, "collect")
  /\ cursor' = 1
  /\ UNCHANGED <<threadVars, calls, slots, index, joining>>

\* The bug of a loop that ends at the first free slot, as the search for one does.
PassFreeSlotEnding ==
  /\ pc[Main] = "collect"
  /\ cursor \in Slots
  /\ ~slots[cursor].used
  /\ cursor' = MaxThreads + 1
  /\ UNCHANGED <<threadVars, pc, calls, slots, index, joining>>

\* threads[i].used is read under the lock, which is then let go.
PassFreeSlot ==
  /\ pc[Main] = "collect"
  /\ cursor \in Slots
  /\ ~slots[cursor].used
  /\ cursor' = cursor + 1
  /\ UNCHANGED <<threadVars, pc, calls, slots, index, joining>>

FindUsedSlot ==
  /\ pc[Main] = "collect"
  /\ cursor \in Slots
  /\ slots[cursor].used
  /\ Go(Main, "unlocked")
  /\ UNCHANGED <<threadVars, calls, slots, index, cursor, joining>>

\* pthread_join(threads[i].thread), the slot read outside the lock.
CallJoin ==
  /\ pc[Main] = "unlocked"
  /\ joining' = slots[cursor].thread
  /\ Go(Main, "joining")
  /\ UNCHANGED <<threadVars, calls, slots, index, cursor>>

\* To join no thread is undefined: the call may return, ...
Ended(t) == t \notin {w \in Workers : pc[w] # "exited"}

\* The bug of a loop that forgets to move on from the slot it joined.
JoinReturnsStaying ==
  /\ pc[Main] = "joining"
  /\ Ended(joining)
  /\ joining' = NoThread
  /\ Go(Main, "collect")
  /\ UNCHANGED <<threadVars, calls, index, slots, cursor>>

\* The pthread_t stays in the slot, but is of no thread any more.
JoinReturns ==
  /\ pc[Main] = "joining"
  /\ Ended(joining)
  /\ slots' = [slots EXCEPT ![cursor] =
                 [used |-> FALSE, thread |-> IF @.thread = joining THEN NoThread ELSE @.thread]]
  /\ cursor' = cursor + 1
  /\ joining' = NoThread
  /\ Go(Main, "collect")
  /\ UNCHANGED <<threadVars, calls, index>>

\* ... wait for ever, or end fwts.
JoinNoThread ==
  /\ pc[Main] = "joining"
  /\ joining = NoThread
  /\ \E end \in {"stuck", "crashed"} : Go(Main, end)
  /\ UNCHANGED <<threadVars, calls, slots, index, cursor, joining>>

\* The accounting, under mutex_lock_sem_table.
Account ==
  /\ pc[Main] = "collect"
  /\ cursor \notin Slots
  /\ report' = [acquired |-> Cardinality(Acquired), released |-> Cardinality(Released)]
  /\ Go(Main, "idle")
  /\ UNCHANGED <<sem, slots, at, calls, index, alarm, cursor, joining, evaluations>>

Terminating ==
  /\ \/ pc[Main] = "idle" /\ evaluations = MaxEvaluations
     \/ pc[Main] \in {"stuck", "crashed"}
  /\ UNCHANGED vars

-----------------------------------------------------------------------------
\* The steps a thread takes inside a method.
InMethod(t) ==
  \/ CreateSemaphore(t) \/ CreateSemaphoreFull(t) \/ DeleteSemaphore(t)
  \/ WaitBriefly(t) \/ WaitForever(t) \/ WaitSucceeds(t) \/ CancelAlarm(t)
  \/ CountAcquire(t) \/ GiveUp(t) \/ SignalSemaphore(t) \/ CountRelease(t)
  \/ Execute(t) \/ ExecuteFails(t) \/ ExecuteRefused(t)

Running == pc[Main] # "crashed"

WorkerStep(w) == Running /\ (InMethod(w) \/ FunctionReturns(w) \/ ThreadExits(w))

MainStep ==
  \/ InMethod(Main) \/ ClearCounts \/ MethodReturns \/ PassFreeSlot \/ FindUsedSlot
  \/ CallJoin \/ JoinReturns \/ JoinNoThread \/ Account

Next == MainStep \/ (\E w \in Workers : WorkerStep(w)) \/ SigAlarm \/ Terminating

\* The scheduler runs every thread that can run, and time passes.
Fairness == WF_vars(MainStep) /\ (\A w \in Workers : WF_vars(WorkerStep(w))) /\ WF_vars(SigAlarm)

Spec == Init /\ [][Next]_vars /\ Fairness

-----------------------------------------------------------------------------
(* Properties *)

\* Threads that have done to semaphore s what pc says and not yet counted it.
Uncounted(s, label) == {t \in Threads : pc[t] = label /\ at[t] = s}
Waited(s) == Uncounted(s, "got") \cup Uncounted(s, "acquired")

Labels == {"none", "run", "wait", "interrupted", "got", "acquired", "posted", "returned", "exited"}

MainLabels == {"idle", "collect", "unlocked", "joining", "stuck", "crashed"}

SemTableOK == sem \in [Semaphores -> [used : BOOLEAN, open : BOOLEAN, value : Nat, count : Int]]

ThreadTableOK ==
  /\ slots \in [Slots -> [used : BOOLEAN, thread : Workers \cup {NoThread}]]
  /\ index \in [Workers -> 0 .. MaxThreads]
  /\ \A w \in Workers : pc[w] # "none" => index[w] \in Slots

PlacesOK ==
  /\ pc \in [Threads -> Labels \cup MainLabels]
  /\ \A w \in Workers : pc[w] \in Labels
  /\ at \in [Threads -> 0 .. MaxSemaphores]
  /\ \A t \in Threads : pc[t] \in InCall => at[t] \in Semaphores
  /\ calls \in [Threads -> 0 .. MaxCalls]

LoopOK ==
  /\ alarm \in {"off", "armed"}
  /\ cursor \in 1 .. MaxThreads + 1
  /\ pc[Main] \in {"unlocked", "joining"} => cursor \in Slots
  /\ joining \in Workers \cup {NoThread}
  /\ evaluations \in 0 .. MaxEvaluations
  /\ report \in [acquired : 0 .. MaxSemaphores, released : 0 .. MaxSemaphores]

\* Types of the tables and program counters; a unit is never taken from an
\* empty semaphore.
TypeOK == SemTableOK /\ ThreadTableOK /\ PlacesOK /\ LoopOK

\* A thread is still in the function AcpiOsExecute() was given.
Executing(w) == pc[w] \notin {"none", "returned", "exited"}

\* The comment in fwts_acpica_sem_count_get() after the join loop: "All threads
\* (such as Notify() calls now complete, so we can now do the semaphore
\* accounting calculations".
AllThreadsComplete ==
  pc[Main] = "idle" \/ (pc[Main] = "collect" /\ cursor \notin Slots)
    => \A w \in Workers : ~Executing(w)

\* The join loop can find every thread that is running: its slot is in use and
\* names it.  AcpiOsExecute(), the wrapper and the join loop each write slots.
SlotsNameTheirThreads ==
  \A w \in Workers : pc[w] \notin {"none", "exited"} =>
    slots[index[w]].used /\ slots[index[w]].thread = w

\* The accounting is exact: acquires and releases that are made in two steps by
\* interleaved threads, and waits that give up, are reported as if each had been
\* one entry in a ledger that sem_count_clear() opens and sem_count_get() reads.
Net == [s \in Semaphores |-> sem[s].count + Cardinality(Waited(s)) - Cardinality(Uncounted(s, "posted"))]

Units == [s \in Semaphores |-> sem[s].value]
Phase == IF pc[Main] = "idle" THEN "idle" ELSE "evaluating"

Ledger == INSTANCE SemLedger WITH created <- Acquired, units <- Units, net <- Net, phase <- Phase

ImplementsLedger == Ledger!Spec

\* The comment in AcpiOsWaitSemaphore(): "we actually detect a lock up after a
\* long wait and break out rather than waiting for the sun to turn into a lump
\* of coal".  Whoever waits for ever comes back out of the call.
InWait(t) == pc[t] \in {"wait", "interrupted"}
LockUpDetected == \A t \in Threads : InWait(t) ~> ~InWait(t)

\* A method that is evaluated is accounted for in the end, whatever it waits
\* for, unless it has Notify() threads, or a thread that could not be created
\* was joined all the same.
NotifyThreadRuns == Live \cap Workers # {}
JoinedNoThread == pc[Main] \in {"stuck", "crashed"}
EvaluationEnds ==
  pc[Main] = "run" ~> pc[Main] = "idle" \/ NotifyThreadRuns \/ JoinedNoThread

\* "Wait for thread to complete" (fwts_acpica.c:144): what is joined is a
\* thread.
JoinsThreads == pc[Main] = "joining" => joining # NoThread

\* A lock reported as left acquired is one: sem_info says "count > 0 if
\* acquired", and AMLLocksAcquired "left %d locks in an acquired state".
LeftoverIsHeld ==
  pc[Main] = "idle" /\ evaluations > 0 =>
    report.acquired - report.released <= Cardinality({s \in Semaphores : sem[s].count > 0})
=============================================================================
