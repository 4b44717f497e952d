---------------------------- MODULE AcpicaProofs ----------------------------
(***************************************************************************)
(* Proofs about the ACPICA operating system layer, for any number of       *)
(* semaphores, slots, threads, evaluations and calls.                      *)
(***************************************************************************)
EXTENDS AcpicaOs, FiniteSetTheorems, TLAPS

SemEntry == [used : BOOLEAN, open : BOOLEAN, value : Nat, count : Int]
Slot == [used : BOOLEAN, thread : Workers \cup {NoThread}]

LEMMA Constants ==
  /\ Main \in Threads /\ Main \notin Workers /\ Workers \subseteq Threads
  /\ NoThread \notin Threads
  /\ IsFiniteSet(Threads)
  /\ MaxSemaphores \in Nat /\ MaxThreads \in Nat /\ MaxThreads > 0
  /\ MaxCalls \in Nat /\ MaxEvaluations \in Nat
<1>1. IsFiniteSet(Threads)
  BY AcpicaOsAssumption, FS_AddElement DEF Threads
<1> QED  BY <1>1, AcpicaOsAssumption DEF Threads

-----------------------------------------------------------------------------
(* Types, one variable or table at a time. *)

LEMMA SemTableNext == TypeOK /\ [Next]_vars => SemTableOK'
<1> SUFFICES ASSUME TypeOK, [Next]_vars PROVE SemTableOK'
  OBVIOUS
<1>s. sem \in [Semaphores -> SemEntry]
  BY DEF TypeOK, SemTableOK, SemEntry
<1>u. ASSUME UNCHANGED sem PROVE SemTableOK'
  BY <1>u DEF TypeOK, SemTableOK
<1>t. ASSUME NEW s \in Semaphores, TakeUnit(s) PROVE SemTableOK'
  <2>1. sem[s].value \in Nat /\ sem[s].value > 0
    BY <1>s, <1>t DEF TakeUnit, SemEntry
  <2>2. sem' = [sem EXCEPT ![s].value = sem[s].value - 1]
    BY <1>t DEF TakeUnit
  <2> QED  BY <2>1, <2>2, <1>s, <1>t DEF SemTableOK, SemEntry
<1>1. ASSUME NEW t \in Threads, InMethod(t) PROVE SemTableOK'
  <2>a. pc[t] \in InCall => at[t] \in Semaphores /\ sem[at[t]] \in SemEntry
    BY <1>s DEF TypeOK, PlacesOK
  <2>1. CASE CreateSemaphore(t)
    <3>1. PICK s \in FirstFreeSem, opens \in BOOLEAN, units \in {0, 1} :
            sem' = [sem EXCEPT ![s] = [used |-> TRUE, open |-> opens, value |-> units, count |-> 0]]
      BY <2>1 DEF CreateSemaphore
    <3>2. s \in Semaphores
      BY DEF FirstFreeSem
    <3>3. [used |-> TRUE, open |-> opens, value |-> units, count |-> 0] \in SemEntry
      BY DEF SemEntry
    <3> QED  BY <3>1, <3>2, <3>3, <1>s DEF SemTableOK, SemEntry
  <2>2. CASE DeleteSemaphore(t)
    <3>1. PICK s \in Semaphores :
            sem' = [sem EXCEPT ![s] = [used |-> FALSE, open |-> FALSE, value |-> @.value, count |-> 0]]
      BY <2>2 DEF DeleteSemaphore
    <3>2. sem[s].value \in Nat
      BY <1>s DEF SemEntry
    <3> QED  BY <3>1, <3>2, <1>s DEF SemTableOK, SemEntry
  <2>3. CASE WaitBriefly(t)
    BY <2>3, <1>t, <1>u DEF WaitBriefly
  <2>4. CASE WaitSucceeds(t)
    BY <2>4, <2>a, <1>t DEF WaitSucceeds, InCall
  <2>5. CASE CountAcquire(t)
    <3>1. at[t] \in Semaphores /\ sem[at[t]].count \in Int
      BY <2>5, <2>a DEF CountAcquire, InCall, SemEntry
    <3>2. sem' = [sem EXCEPT ![at[t]].count = sem[at[t]].count + 1]
      BY <2>5 DEF CountAcquire
    <3> QED  BY <3>1, <3>2, <1>s DEF SemTableOK, SemEntry
  <2>6. CASE SignalSemaphore(t)
    <3>1. PICK s \in Semaphores : sem' = [sem EXCEPT ![s].value = sem[s].value + 1]
      BY <2>6 DEF SignalSemaphore
    <3>2. sem[s].value \in Nat
      BY <1>s DEF SemEntry
    <3> QED  BY <3>1, <3>2, <1>s DEF SemTableOK, SemEntry
  <2>7. CASE CountRelease(t)
    <3>1. at[t] \in Semaphores /\ sem[at[t]].count \in Int
      BY <2>7, <2>a DEF CountRelease, InCall, SemEntry
    <3>2. sem' = [sem EXCEPT ![at[t]].count = sem[at[t]].count - 1]
      BY <2>7 DEF CountRelease
    <3> QED  BY <3>1, <3>2, <1>s DEF SemTableOK, SemEntry
  <2>8. CASE \/ CreateSemaphoreFull(t) \/ WaitForever(t) \/ CancelAlarm(t) \/ GiveUp(t)
             \/ Execute(t) \/ ExecuteFails(t) \/ ExecuteRefused(t)
    BY <2>8, <1>u DEF CreateSemaphoreFull, WaitForever, CancelAlarm, GiveUp,
       Execute, ExecuteFails, ExecuteRefused, threadVars
  <2> QED  BY <1>1, <2>1, <2>2, <2>3, <2>4, <2>5, <2>6, <2>7, <2>8 DEF InMethod
<1>2. CASE ClearCounts
  BY <1>2, <1>s DEF ClearCounts, SemTableOK, SemEntry
<1>3. CASE \/ \E w \in Workers : FunctionReturns(w) \/ ThreadExits(w)
           \/ MethodReturns \/ PassFreeSlot \/ FindUsedSlot \/ CallJoin \/ JoinReturns \/ JoinNoThread
           \/ Account \/ SigAlarm \/ Terminating
  BY <1>3, <1>u DEF FunctionReturns, ThreadExits, MethodReturns, PassFreeSlot, FindUsedSlot,
     CallJoin, JoinReturns, JoinNoThread, Account, SigAlarm, Terminating, threadVars, vars
<1>4. CASE UNCHANGED vars
  BY <1>4, <1>u DEF vars
<1> QED  BY <1>1, <1>2, <1>3, <1>4, Constants DEF Next, MainStep, WorkerStep

LEMMA ThreadTableNext == TypeOK /\ [Next]_vars => ThreadTableOK'
<1> SUFFICES ASSUME TypeOK, [Next]_vars PROVE ThreadTableOK'
  OBVIOUS
<1>s. slots \in [Slots -> Slot]
  BY DEF TypeOK, ThreadTableOK, Slot
<1>i. /\ index \in [Workers -> 0 .. MaxThreads]
      /\ \A w \in Workers : pc[w] # "none" => index[w] \in Slots
  BY DEF TypeOK, ThreadTableOK
<1>p. pc \in [Threads -> Labels \cup MainLabels]
  BY DEF TypeOK, PlacesOK
\* A thread that exists stays one, and the tables are left alone.
<1>g. ASSUME UNCHANGED <<slots, index>>,
             NEW t \in Threads, NEW label, pc[t] # "none", pc' = [pc EXCEPT ![t] = label]
      PROVE  ThreadTableOK'
  <2>1. \A w \in Workers : pc'[w] # "none" => pc[w] # "none"
    BY <1>g, <1>p, Constants
  <2> QED  BY <2>1, <1>g, <1>s, <1>i DEF ThreadTableOK, Slot
<1>u. ASSUME UNCHANGED <<slots, index, pc>> PROVE ThreadTableOK'
  BY <1>u, <1>s, <1>i DEF ThreadTableOK, Slot
<1>f. ASSUME NEW i \in Slots, NEW b \in BOOLEAN, NEW u \in Workers \cup {NoThread},
             \/ slots' = [slots EXCEPT ![i].used = b]
             \/ slots' = [slots EXCEPT ![i] = [used |-> b, thread |-> u]]
      PROVE  slots' \in [Slots -> Slot]
  BY <1>f, <1>s DEF Slot
<1>1. ASSUME NEW t \in Threads, InMethod(t) PROVE ThreadTableOK'
  <2>1. CASE Execute(t)
    <3>1. PICK i \in FirstFreeSlot, w \in Workers :
            /\ slots' = [slots EXCEPT ![i] = [used |-> TRUE, thread |-> w]]
            /\ index' = [index EXCEPT ![w] = i]
            /\ pc' = [pc EXCEPT ![w] = "run"]
      BY <2>1 DEF Execute, Go
    <3>2. i \in Slots
      BY DEF FirstFreeSlot
    <3>3. slots' \in [Slots -> Slot]
      BY <3>1, <3>2, <1>s DEF Slot
    <3>4. index' \in [Workers -> 0 .. MaxThreads]
      BY <3>1, <3>2, <1>i DEF Slots
    <3>5. \A v \in Workers : pc'[v] # "none" => index'[v] \in Slots
      BY <3>1, <3>2, <1>i, <1>p, Constants
    <3> QED  BY <3>3, <3>4, <3>5 DEF ThreadTableOK, Slot
  <2>2. CASE ExecuteFails(t)
    <3>1. PICK i \in FirstFreeSlot, keeps \in BOOLEAN :
            slots' = [slots EXCEPT ![i] = [used |-> TRUE,
                                           thread |-> IF keeps THEN @.thread ELSE NoThread]]
      BY <2>2 DEF ExecuteFails
    <3>3. i \in Slots /\ slots[i].thread \in Workers \cup {NoThread}
      BY <1>s DEF FirstFreeSlot, Slot
    <3>2. slots' \in [Slots -> Slot]
      BY <3>1, <3>3, <1>s DEF Slot
    <3> QED  BY <3>2, <2>2, <1>i DEF ExecuteFails, ThreadTableOK, Slot
  <2>3. CASE WaitBriefly(t)
    <3>1. pc[t] = "run" /\ UNCHANGED <<slots, index>>
          /\ (pc' = [pc EXCEPT ![t] = "acquired"] \/ UNCHANGED pc)
      BY <2>3 DEF WaitBriefly, Calling, Go, osVars
    <3> QED  BY <3>1, <1>g, <1>u
  <2>4. CASE CreateSemaphore(t) \/ CreateSemaphoreFull(t) \/ DeleteSemaphore(t) \/ ExecuteRefused(t)
    BY <2>4, <1>u DEF CreateSemaphore, CreateSemaphoreFull, DeleteSemaphore, ExecuteRefused, osVars
  <2>5. CASE \/ WaitForever(t) \/ WaitSucceeds(t) \/ CancelAlarm(t) \/ CountAcquire(t)
             \/ GiveUp(t) \/ SignalSemaphore(t) \/ CountRelease(t)
    <3>1. pc[t] # "none" /\ UNCHANGED <<slots, index>>
          /\ \E label \in Labels : pc' = [pc EXCEPT ![t] = label]
      BY <2>5 DEF WaitForever, WaitSucceeds, CancelAlarm, CountAcquire, GiveUp,
         SignalSemaphore, CountRelease, Calling, Go, osVars, Labels
    <3> QED  BY <3>1, <1>g
  <2> QED  BY <1>1, <2>1, <2>2, <2>3, <2>4, <2>5 DEF InMethod
<1>2. ASSUME NEW w \in Workers, FunctionReturns(w) PROVE ThreadTableOK'
  BY <1>2, <1>g, Constants DEF FunctionReturns, Go
<1>3. ASSUME NEW w \in Workers, ThreadExits(w) PROVE ThreadTableOK'
  <2>1. index[w] \in Slots /\ UNCHANGED index
    BY <1>3, <1>i DEF ThreadExits
  <2>2. slots' \in [Slots -> Slot]
    BY <2>1, <1>3, <1>f DEF ThreadExits
  <2>3. \A v \in Workers : pc'[v] # "none" => pc[v] # "none"
    BY <1>3, <1>p, Constants DEF ThreadExits, Go
  <2> QED  BY <2>1, <2>2, <2>3, <1>i DEF ThreadTableOK, Slot
<1>4. CASE ClearCounts \/ MethodReturns \/ FindUsedSlot \/ CallJoin \/ JoinNoThread \/ Account
  <2>1. pc[Main] # "none" /\ UNCHANGED <<slots, index>>
        /\ \E label : pc' = [pc EXCEPT ![Main] = label]
    BY <1>4 DEF ClearCounts, MethodReturns, FindUsedSlot, CallJoin, JoinNoThread, Account, Go
  <2> QED  BY <2>1, <1>g, Constants
<1>5. CASE PassFreeSlot \/ Terminating \/ UNCHANGED vars
  BY <1>5, <1>u DEF PassFreeSlot, Terminating, vars
<1>6. CASE JoinReturns
  <2>1. cursor \in Slots /\ UNCHANGED index
    BY <1>6 DEF JoinReturns, TypeOK, LoopOK
  <2>4. slots[cursor].thread \in Workers \cup {NoThread}
    BY <2>1, <1>s DEF Slot
  <2>5. PICK u \in Workers \cup {NoThread} :
          slots' = [slots EXCEPT ![cursor] = [used |-> FALSE, thread |-> u]]
    BY <2>4, <1>6 DEF JoinReturns
  <2>2. slots' \in [Slots -> Slot]
    BY <2>1, <2>5, <1>f
  <2>3. \A v \in Workers : pc'[v] = pc[v]
    BY <1>6, <1>p, Constants DEF JoinReturns, Go
  <2> QED  BY <2>1, <2>2, <2>3, <1>i DEF ThreadTableOK, Slot
<1>7. CASE SigAlarm
  <2>1. UNCHANGED <<slots, index>>
    BY <1>7 DEF SigAlarm, osVars
  <2>2. \A v \in Workers : pc'[v] # "none" => pc[v] # "none"
    BY <1>7, <1>p, Constants DEF SigAlarm, Live
  <2> QED  BY <2>1, <2>2, <1>s, <1>i DEF ThreadTableOK, Slot
<1> QED
  BY <1>1, <1>2, <1>3, <1>4, <1>5, <1>6, <1>7, Constants DEF Next, MainStep, WorkerStep

PlaceNames == Labels \cup {"idle", "collect", "unlocked", "joining", "stuck", "crashed"}

LEMMA PlacesNext == TypeOK /\ [Next]_vars => PlacesOK'
<1> SUFFICES ASSUME TypeOK, [Next]_vars PROVE PlacesOK'
  OBVIOUS
<1>p. /\ pc \in [Threads -> PlaceNames]
      /\ \A w \in Workers : pc[w] \in Labels
      /\ at \in [Threads -> 0 .. MaxSemaphores]
      /\ \A t \in Threads : pc[t] \in InCall => at[t] \in Semaphores
      /\ calls \in [Threads -> 0 .. MaxCalls]
  BY DEF TypeOK, PlacesOK, PlaceNames, MainLabels
<1>u. ASSUME UNCHANGED <<pc, at>>, calls' \in [Threads -> 0 .. MaxCalls] PROVE PlacesOK'
  BY <1>u, <1>p DEF PlacesOK, PlaceNames, MainLabels
\* One thread moves on, and if it is in a call then about a semaphore.
<1>g. ASSUME NEW t \in Threads, NEW label \in Labels, pc' = [pc EXCEPT ![t] = label],
             label \in InCall => at'[t] \in Semaphores,
             at' \in [Threads -> 0 .. MaxSemaphores],
             \A u \in Threads \ {t} : at'[u] = at[u],
             calls' \in [Threads -> 0 .. MaxCalls]
      PROVE  PlacesOK'
  <2>1. pc' \in [Threads -> PlaceNames]
    BY <1>g, <1>p DEF PlaceNames
  <2>2. \A w \in Workers : pc'[w] \in Labels
    BY <1>g, <1>p, Constants
  <2>3. \A u \in Threads : pc'[u] \in InCall => at'[u] \in Semaphores
    BY <1>g, <1>p
  <2> QED  BY <2>1, <2>2, <2>3, <1>g DEF PlacesOK, PlaceNames, MainLabels
\* The main thread moves on, outside any call.
<1>m. ASSUME NEW label \in PlaceNames \ InCall, pc' = [pc EXCEPT ![Main] = label],
             UNCHANGED at, calls' \in [Threads -> 0 .. MaxCalls]
      PROVE  PlacesOK'
  <2>1. pc' \in [Threads -> PlaceNames]
    BY <1>m, <1>p
  <2>2. \A w \in Workers : pc'[w] \in Labels
    BY <1>m, <1>p, Constants
  <2>3. \A u \in Threads : pc'[u] \in InCall => at'[u] \in Semaphores
    BY <1>m, <1>p
  <2> QED  BY <2>1, <2>2, <2>3, <1>m, <1>p DEF PlacesOK, PlaceNames, MainLabels
<1>c. ASSUME NEW t \in Threads, Calling(t) PROVE calls' \in [Threads -> 0 .. MaxCalls]
  <2>1. calls[t] \in 0 .. MaxCalls /\ calls[t] < MaxCalls
    BY <1>c, <1>p DEF Calling
  <2>2. calls[t] + 1 \in 0 .. MaxCalls
    BY <2>1, Constants
  <2> QED  BY <2>2, <1>c, <1>p DEF Calling
<1>1. ASSUME NEW t \in Threads, InMethod(t) PROVE PlacesOK'
  <2>1. CASE \/ CreateSemaphore(t) \/ CreateSemaphoreFull(t) \/ DeleteSemaphore(t)
             \/ ExecuteFails(t) \/ ExecuteRefused(t)
    <3>1. Calling(t) /\ UNCHANGED <<pc, at>>
      BY <2>1 DEF CreateSemaphore, CreateSemaphoreFull, DeleteSemaphore, ExecuteFails,
         ExecuteRefused, threadVars
    <3> QED  BY <3>1, <1>c, <1>u
  <2>2. CASE WaitBriefly(t) \/ WaitForever(t) \/ SignalSemaphore(t)
    <3>1. Calling(t)
      BY <2>2 DEF WaitBriefly, WaitForever, SignalSemaphore
    <3>2. CASE UNCHANGED <<pc, at>>
      BY <3>1, <3>2, <1>c, <1>u
    <3>3. CASE \E s \in Semaphores, label \in {"wait", "acquired", "posted"} :
                 at' = [at EXCEPT ![t] = s] /\ pc' = [pc EXCEPT ![t] = label]
      <4>1. PICK s \in Semaphores, label \in {"wait", "acquired", "posted"} :
                 at' = [at EXCEPT ![t] = s] /\ pc' = [pc EXCEPT ![t] = label]
        BY <3>3
      <4>2. at' \in [Threads -> 0 .. MaxSemaphores] /\ at'[t] \in Semaphores
        BY <4>1, <1>p DEF Semaphores
      <4>3. \A u \in Threads \ {t} : at'[u] = at[u]
        BY <4>1, <1>p
      <4> QED  BY <4>1, <4>2, <4>3, <3>1, <1>c, <1>g DEF Labels
    <3> QED  BY <2>2, <3>2, <3>3 DEF WaitBriefly, WaitForever, SignalSemaphore, Go
  <2>3. CASE WaitSucceeds(t) \/ CancelAlarm(t) \/ CountAcquire(t) \/ GiveUp(t) \/ CountRelease(t)
    <3>1. /\ pc[t] \in InCall /\ UNCHANGED <<at, calls>>
          /\ \E label \in Labels : pc' = [pc EXCEPT ![t] = label]
      BY <2>3 DEF WaitSucceeds, CancelAlarm, CountAcquire, GiveUp, CountRelease, Go, Labels, InCall
    <3> QED  BY <3>1, <1>p, <1>g
  <2>4. CASE Execute(t)
    <3>1. PICK w \in Workers : pc' = [pc EXCEPT ![w] = "run"]
      BY <2>4 DEF Execute, Go
    <3>2. Calling(t) /\ UNCHANGED at
      BY <2>4 DEF Execute, threadVars
    <3> QED  BY <3>1, <3>2, <1>c, <1>g, <1>p, Constants DEF Labels, InCall
  <2> QED  BY <1>1, <2>1, <2>2, <2>3, <2>4 DEF InMethod
<1>2. ASSUME NEW w \in Workers, FunctionReturns(w) \/ ThreadExits(w) PROVE PlacesOK'
  <2>1. UNCHANGED <<at, calls>> /\ \E label \in Labels \ InCall : pc' = [pc EXCEPT ![w] = label]
    BY <1>2 DEF FunctionReturns, ThreadExits, threadVars, Go, Labels, InCall
  <2> QED  BY <2>1, <1>g, <1>p, Constants
<1>3. CASE ClearCounts
  <2>1. calls' \in [Threads -> 0 .. MaxCalls]
    BY <1>3, <1>p, Constants DEF ClearCounts
  <2> QED  BY <1>3, <2>1, <1>m DEF ClearCounts, Go, PlaceNames, Labels, InCall
<1>4. CASE MethodReturns \/ FindUsedSlot \/ CallJoin \/ JoinReturns \/ JoinNoThread \/ Account
  <2>1. UNCHANGED <<at, calls>>
        /\ \E label \in PlaceNames \ InCall : pc' = [pc EXCEPT ![Main] = label]
    BY <1>4 DEF MethodReturns, FindUsedSlot, CallJoin, JoinReturns, JoinNoThread, Account, threadVars, Go,
       PlaceNames, Labels, InCall
  <2> QED  BY <2>1, <1>m, <1>p
<1>5. CASE PassFreeSlot \/ Terminating \/ UNCHANGED vars
  BY <1>5, <1>u, <1>p DEF PassFreeSlot, Terminating, threadVars, vars
<1>6. CASE SigAlarm
  <2>1. PICK t \in Live : pc' = [pc EXCEPT ![t] = IF @ = "wait" THEN "interrupted" ELSE @]
    BY <1>6 DEF SigAlarm
  <2>2. UNCHANGED <<at, calls>> /\ t \in Threads
    BY <1>6 DEF SigAlarm, Live
  <2>3. CASE pc[t] = "wait"
    <3>1. pc' = [pc EXCEPT ![t] = "interrupted"]
      BY <2>1, <2>3
    <3> QED  BY <2>2, <2>3, <3>1, <1>g, <1>p DEF Labels, InCall
  <2>4. CASE pc[t] # "wait"
    <3>1. UNCHANGED pc
      BY <2>1, <2>2, <2>4, <1>p
    <3> QED  BY <2>2, <3>1, <1>u, <1>p
  <2> QED  BY <2>3, <2>4
<1> QED
  BY <1>1, <1>2, <1>3, <1>4, <1>5, <1>6, Constants DEF Next, MainStep, WorkerStep

LEMMA CountsType ==
  ASSUME NEW S \in SUBSET Semaphores
  PROVE  IsFiniteSet(S) /\ Cardinality(S) \in 0 .. MaxSemaphores
<1>1. IsFiniteSet(Semaphores) /\ Cardinality(Semaphores) = MaxSemaphores
  BY Constants, FS_Interval, AcpicaOsAssumption DEF Semaphores
<1>2. IsFiniteSet(S) /\ Cardinality(S) <= Cardinality(Semaphores)
  BY <1>1, FS_Subset
<1>3. Cardinality(S) \in Nat
  BY <1>2, FS_CardinalityType
<1> QED  BY <1>1, <1>2, <1>3, Constants

LEMMA LoopNext == TypeOK /\ [Next]_vars => LoopOK'
<1> SUFFICES ASSUME TypeOK, [Next]_vars PROVE LoopOK'
  OBVIOUS
<1>l. /\ alarm \in {"off", "armed"}
      /\ cursor \in 1 .. MaxThreads + 1
      /\ pc[Main] \in {"unlocked", "joining"} => cursor \in Slots
      /\ joining \in Workers \cup {NoThread}
      /\ evaluations \in 0 .. MaxEvaluations
      /\ report \in [acquired : 0 .. MaxSemaphores, released : 0 .. MaxSemaphores]
  BY DEF TypeOK, LoopOK
<1>p. pc \in [Threads -> PlaceNames]
  BY DEF TypeOK, PlacesOK, PlaceNames, MainLabels
<1>s. slots \in [Slots -> Slot]
  BY DEF TypeOK, ThreadTableOK, Slot
\* The steps outside the loop and its bookkeeping.
<1>g. ASSUME UNCHANGED <<cursor, joining, evaluations, report>>,
             alarm' \in {"off", "armed"},
             pc'[Main] \in {"unlocked", "joining"} => pc[Main] \in {"unlocked", "joining"}
      PROVE  LoopOK'
  BY <1>g, <1>l DEF LoopOK
<1>1. ASSUME NEW t \in Threads, InMethod(t) PROVE LoopOK'
  <2>1. UNCHANGED <<cursor, joining, evaluations, report>>
    BY <1>1 DEF InMethod, CreateSemaphore, CreateSemaphoreFull, DeleteSemaphore, WaitBriefly,
       WaitForever, WaitSucceeds, CancelAlarm, CountAcquire, GiveUp, SignalSemaphore,
       CountRelease, Execute, ExecuteFails, ExecuteRefused, osVars, threadVars
  <2>2. alarm' \in {"off", "armed"}
    BY <1>1, <1>l DEF InMethod, CreateSemaphore, CreateSemaphoreFull, DeleteSemaphore, WaitBriefly,
       WaitForever, WaitSucceeds, CancelAlarm, CountAcquire, GiveUp, SignalSemaphore,
       CountRelease, Execute, ExecuteFails, ExecuteRefused, osVars, threadVars
  <2>3. UNCHANGED pc \/ \E u \in Threads, label \in Labels : pc' = [pc EXCEPT ![u] = label]
    BY <1>1, Constants DEF InMethod, CreateSemaphore, CreateSemaphoreFull, DeleteSemaphore, WaitBriefly,
       WaitForever, WaitSucceeds, CancelAlarm, CountAcquire, GiveUp, SignalSemaphore,
       CountRelease, Execute, ExecuteFails, ExecuteRefused, osVars, threadVars, Go, Labels
  <2>4. pc'[Main] \in {"unlocked", "joining"} => pc[Main] \in {"unlocked", "joining"}
    BY <2>3, <1>p, Constants DEF Labels
  <2> QED  BY <2>1, <2>2, <2>4, <1>g
<1>2. ASSUME NEW w \in Workers, FunctionReturns(w) \/ ThreadExits(w) PROVE LoopOK'
  <2>1. UNCHANGED <<cursor, joining, evaluations, report, alarm>> /\ pc'[Main] = pc[Main]
    BY <1>2, <1>p, Constants DEF FunctionReturns, ThreadExits, threadVars, Go
  <2> QED  BY <2>1, <1>g, <1>l
<1>3. CASE ClearCounts
  <2>1. evaluations' \in 0 .. MaxEvaluations
    BY <1>3, <1>l, Constants DEF ClearCounts
  <2>2. pc'[Main] = "run"
    BY <1>3, <1>p, Constants DEF ClearCounts, Go
  <2> QED  BY <2>1, <2>2, <1>3, <1>l DEF ClearCounts, LoopOK
<1>4. CASE MethodReturns \/ PassFreeSlot
  <2>1. pc'[Main] = "collect"
    BY <1>4, <1>p, Constants DEF MethodReturns, PassFreeSlot, Go
  <2>2. cursor' \in 1 .. MaxThreads + 1
    BY <1>4, <1>l, Constants DEF MethodReturns, PassFreeSlot, Slots
  <2> QED  BY <2>1, <2>2, <1>4, <1>l DEF MethodReturns, PassFreeSlot, threadVars, LoopOK
<1>5. CASE FindUsedSlot
  BY <1>5, <1>l DEF FindUsedSlot, threadVars, LoopOK
<1>6. CASE CallJoin
  <2>1. cursor \in Slots /\ joining' \in Workers \cup {NoThread}
    BY <1>6, <1>l, <1>s DEF CallJoin, Slot
  <2> QED  BY <2>1, <1>6, <1>l DEF CallJoin, threadVars, LoopOK
<1>7. CASE JoinReturns
  <2>1. pc'[Main] = "collect"
    BY <1>7, <1>p, Constants DEF JoinReturns, Go
  <2>2. cursor' \in 1 .. MaxThreads + 1 /\ joining' \in Workers \cup {NoThread}
    BY <1>7, <1>l, Constants DEF JoinReturns, Slots
  <2> QED  BY <2>1, <2>2, <1>7, <1>l DEF JoinReturns, threadVars, LoopOK
<1>11. CASE JoinNoThread
  <2>1. pc'[Main] \in {"stuck", "crashed"}
    BY <1>11, <1>p, Constants DEF JoinNoThread, Go
  <2> QED  BY <2>1, <1>11, <1>l DEF JoinNoThread, threadVars, LoopOK
<1>8. CASE Account
  <2>1. pc'[Main] = "idle"
    BY <1>8, <1>p, Constants DEF Account, Go
  <2>2. report' \in [acquired : 0 .. MaxSemaphores, released : 0 .. MaxSemaphores]
    BY <1>8, CountsType DEF Account, Acquired, Released
  <2> QED  BY <2>1, <2>2, <1>8, <1>l DEF Account, LoopOK
<1>9. CASE SigAlarm
  <2>1. pc'[Main] \in {"unlocked", "joining"} => pc[Main] \in {"unlocked", "joining"}
    BY <1>9, <1>p, Constants DEF SigAlarm, Live
  <2> QED  BY <2>1, <1>9, <1>g DEF SigAlarm, osVars
<1>10. CASE Terminating \/ UNCHANGED vars
  BY <1>10, <1>l DEF Terminating, vars, LoopOK
<1> QED
  BY <1>1, <1>2, <1>3, <1>4, <1>5, <1>6, <1>7, <1>8, <1>9, <1>10, <1>11, Constants
     DEF Next, MainStep, WorkerStep

LEMMA TypeInit == Init => TypeOK
<1> SUFFICES ASSUME Init PROVE TypeOK
  OBVIOUS
<1>1. SemTableOK
  <2>1. PICK n \in 0 .. MaxSemaphores : \E units \in [1 .. n -> {0, 1}] :
          sem = [s \in Semaphores |->
                   IF s <= n THEN [used |-> TRUE, open |-> TRUE, value |-> units[s], count |-> 0]
                             ELSE Unused]
    BY DEF Init
  <2>2. PICK units \in [1 .. n -> {0, 1}] :
          sem = [s \in Semaphores |->
                   IF s <= n THEN [used |-> TRUE, open |-> TRUE, value |-> units[s], count |-> 0]
                             ELSE Unused]
    BY <2>1
  <2>3. \A s \in Semaphores : s <= n => units[s] \in Nat
    BY Constants DEF Semaphores
  <2> QED  BY <2>2, <2>3 DEF SemTableOK, Unused
<1>2. ThreadTableOK
  BY Constants DEF Init, ThreadTableOK
<1>3. PlacesOK
  BY Constants DEF Init, PlacesOK, Labels, MainLabels, InCall
<1>4. LoopOK
  BY Constants DEF Init, LoopOK
<1> QED  BY <1>1, <1>2, <1>3, <1>4 DEF TypeOK

\* The tables and program counters of the layer keep their types, and a unit is
\* never taken from an empty semaphore, whatever the AML does.
THEOREM TypeCorrect == Spec => []TypeOK
<1>1. TypeOK /\ [Next]_vars => TypeOK'
  BY SemTableNext, ThreadTableNext, PlacesNext, LoopNext DEF TypeOK
<1> QED  BY <1>1, TypeInit, PTL DEF Spec

-----------------------------------------------------------------------------
(* The table of threads and the join loop.  Both depend on Notify() threads  *)
(* not starting threads themselves: then no slot is taken while the main     *)
(* thread is in the loop.                                                    *)

LiveWorker(w) == pc[w] \notin {"none", "exited"}
InLoop == {"collect", "unlocked", "joining"}

JoinInv ==
  /\ SlotsNameTheirThreads
  /\ pc[Main] = "joining" => slots[cursor].thread = joining
  /\ pc[Main] \in InLoop => \A w \in Workers : Executing(w) => ~(index[w] < cursor)
  /\ pc[Main] = "idle" => \A w \in Workers : ~Executing(w)

\* Two workers that live have slots of their own.
LEMMA OwnSlots ==
  ASSUME SlotsNameTheirThreads, NEW v \in Workers, NEW w \in Workers,
         LiveWorker(v), LiveWorker(w), index[v] = index[w]
  PROVE  v = w
BY DEF SlotsNameTheirThreads, LiveWorker

LEMMA JoinNext ==
  ASSUME ~Nested, TypeOK, JoinInv, [Next]_vars
  PROVE  JoinInv'
<1>p. /\ pc \in [Threads -> PlaceNames]
      /\ \A w \in Workers : pc[w] \in Labels
  BY DEF TypeOK, PlacesOK, PlaceNames, MainLabels
<1>s. /\ slots \in [Slots -> Slot]
      /\ index \in [Workers -> 0 .. MaxThreads]
      /\ \A w \in Workers : LiveWorker(w) => index[w] \in Slots
  BY DEF TypeOK, ThreadTableOK, Slot, LiveWorker
<1>j. /\ \A w \in Workers : LiveWorker(w) => slots[index[w]].used /\ slots[index[w]].thread = w
      /\ \A w \in Workers : Executing(w) => LiveWorker(w)
  BY DEF JoinInv, SlotsNameTheirThreads, LiveWorker, Executing
\* The tables and the loop are left alone, and no worker starts.
<1>g. ASSUME UNCHANGED <<slots, index, cursor, joining>>,
             pc'[Main] = pc[Main] \/ pc'[Main] \notin InLoop \cup {"idle"},
             \A w \in Workers : (LiveWorker(w)' => LiveWorker(w)) /\ (Executing(w)' => Executing(w))
      PROVE  JoinInv'
  BY <1>g, Zenon DEF JoinInv, SlotsNameTheirThreads, LiveWorker, InLoop
<1>1. ASSUME NEW t \in Threads, InMethod(t) PROVE JoinInv'
  <2>1. CASE Execute(t)
    <3>1. t = Main /\ pc[Main] = "run"
      BY <2>1 DEF Execute, MayNotify, Calling
    <3>2. PICK i \in FirstFreeSlot, w \in Workers :
            /\ pc[w] = "none"
            /\ slots' = [slots EXCEPT ![i] = [used |-> TRUE, thread |-> w]]
            /\ index' = [index EXCEPT ![w] = i]
            /\ pc' = [pc EXCEPT ![w] = "run"]
      BY <2>1 DEF Execute, Go
    <3>3. i \in Slots /\ ~slots[i].used
      BY DEF FirstFreeSlot
    <3>4. pc'[Main] = "run"
      BY <3>1, <3>2, <1>p, Constants
    <3>5. ASSUME NEW v \in Workers, LiveWorker(v)'
          PROVE  slots'[index'[v]].used /\ slots'[index'[v]].thread = v
      <4>1. CASE v = w
        BY <4>1, <3>2, <3>3, <1>s
      <4>2. CASE v # w
        <5>1. LiveWorker(v) /\ index'[v] = index[v]
          BY <4>2, <3>5, <3>2, <1>p, <1>s, Constants DEF LiveWorker
        <5>2. index[v] # i
          BY <5>1, <3>3, <1>j
        <5>3. slots'[index[v]] = slots[index[v]]
          BY <5>1, <5>2, <3>2, <1>s
        <5> QED  BY <5>1, <5>3, <1>j
      <4> QED  BY <4>1, <4>2
    <3> QED  BY <3>4, <3>5 DEF JoinInv, SlotsNameTheirThreads, LiveWorker, InLoop
  <2>2. CASE ExecuteFails(t)
    <3>1. t = Main /\ pc[Main] = "run" /\ UNCHANGED <<pc, index>>
      BY <2>2 DEF ExecuteFails, MayNotify, Calling
    <3>2. PICK i \in FirstFreeSlot : \E entry : slots' = [slots EXCEPT ![i] = entry]
      BY <2>2 DEF ExecuteFails
    <3>3. ASSUME NEW v \in Workers, LiveWorker(v)
          PROVE  slots'[index[v]].used /\ slots'[index[v]].thread = v
      <4>1. index[v] # i
        BY <3>3, <1>j DEF FirstFreeSlot
      <4> QED  BY <4>1, <3>3, <3>2, <1>s, <1>j
    <3> QED  BY <3>1, <3>3 DEF JoinInv, SlotsNameTheirThreads, LiveWorker, InLoop
  <2>3. CASE ~Execute(t) /\ ~ExecuteFails(t)
    <3>1. UNCHANGED <<slots, index, cursor, joining>>
      BY <2>3, <1>1 DEF InMethod, CreateSemaphore, CreateSemaphoreFull, DeleteSemaphore, WaitBriefly,
         WaitForever, WaitSucceeds, CancelAlarm, CountAcquire, GiveUp, SignalSemaphore,
         CountRelease, ExecuteRefused, osVars
    <3>2. \/ UNCHANGED pc
          \/ /\ pc[t] \in {"run"} \cup InCall
             /\ \E label \in {"run"} \cup InCall : pc' = [pc EXCEPT ![t] = label]
      BY <2>3, <1>1 DEF InMethod, CreateSemaphore, CreateSemaphoreFull, DeleteSemaphore, WaitBriefly,
         WaitForever, WaitSucceeds, CancelAlarm, CountAcquire, GiveUp, SignalSemaphore,
         CountRelease, ExecuteRefused, Calling, Go, InCall
    <3>3. pc'[Main] = pc[Main] \/ pc'[Main] \notin InLoop \cup {"idle"}
      BY <3>2, <1>p, Constants DEF InCall, InLoop
    <3>4. \A w \in Workers : (LiveWorker(w)' => LiveWorker(w)) /\ (Executing(w)' => Executing(w))
      BY <3>2, <1>p, Constants DEF InCall, LiveWorker, Executing
    <3> QED  BY <3>1, <3>3, <3>4, <1>g
  <2> QED  BY <2>1, <2>2, <2>3
<1>2. ASSUME NEW w \in Workers, FunctionReturns(w) PROVE JoinInv'
  <2>1. UNCHANGED <<slots, index, cursor, joining>> /\ pc'[Main] = pc[Main]
    BY <1>2, <1>p, Constants DEF FunctionReturns, Go
  <2>2. \A v \in Workers : (LiveWorker(v)' => LiveWorker(v)) /\ (Executing(v)' => Executing(v))
    BY <1>2, <1>p, Constants DEF FunctionReturns, Go, LiveWorker, Executing
  <2> QED  BY <2>1, <2>2, <1>g
<1>3. ASSUME NEW w \in Workers, ThreadExits(w) PROVE JoinInv'
  <2>1. /\ LiveWorker(w) /\ UNCHANGED <<index, cursor, joining>> /\ pc'[Main] = pc[Main]
        /\ slots' = [slots EXCEPT ![index[w]].used = FALSE]
    BY <1>3, <1>p, Constants DEF ThreadExits, Go, LiveWorker
  <2>2. \A v \in Workers : /\ LiveWorker(v)' => LiveWorker(v) /\ v # w
                           /\ Executing(v)' => Executing(v)
    BY <1>3, <1>p, Constants DEF ThreadExits, Go, LiveWorker, Executing
  <2>3. ASSUME NEW v \in Workers, LiveWorker(v)'
        PROVE  slots'[index[v]].used /\ slots'[index[v]].thread = v
    <3>1. LiveWorker(v) /\ v # w
      BY <2>2, <2>3
    <3>2. index[v] # index[w]
      BY <3>1, <2>1, OwnSlots DEF JoinInv
    <3>3. slots'[index[v]] = slots[index[v]]
      BY <3>1, <3>2, <2>1, <1>s
    <3> QED  BY <3>1, <3>3, <1>j
  <2>4. ASSUME pc'[Main] = "joining" PROVE slots'[cursor].thread = joining
    <3>1. cursor \in Slots /\ slots[cursor].thread = joining
      BY <2>1, <2>4 DEF JoinInv, TypeOK, LoopOK
    <3> QED  BY <3>1, <2>1, <1>s DEF Slot
  <2> QED  BY <2>1, <2>2, <2>3, <2>4 DEF JoinInv, SlotsNameTheirThreads, LiveWorker, InLoop
<1>4. CASE ClearCounts
  <2>1. UNCHANGED <<slots, index, cursor, joining>> /\ pc' = [pc EXCEPT ![Main] = "run"]
    BY <1>4 DEF ClearCounts, Go
  <2>2. pc'[Main] = "run" /\ \A w \in Workers : pc'[w] = pc[w]
    BY <2>1, <1>p, Constants
  <2> QED  BY <2>1, <2>2, <1>g DEF LiveWorker, Executing, InLoop
<1>5. CASE MethodReturns
  <2>1. UNCHANGED <<slots, index>> /\ cursor' = 1 /\ pc' = [pc EXCEPT ![Main] = "collect"]
    BY <1>5 DEF MethodReturns, Go
  <2>2. pc'[Main] = "collect" /\ \A w \in Workers : pc'[w] = pc[w]
    BY <2>1, <1>p, Constants
  <2>3. \A w \in Workers : Executing(w) => ~(index[w] < 1)
    BY <1>j, <1>s DEF Slots
  <2> QED  BY <2>1, <2>2, <2>3 DEF JoinInv, SlotsNameTheirThreads, Executing, InLoop
<1>6. CASE PassFreeSlot
  <2>1. /\ UNCHANGED <<slots, index, pc>> /\ cursor' = cursor + 1 /\ cursor \in Slots
        /\ pc[Main] = "collect" /\ ~slots[cursor].used
    BY <1>6 DEF PassFreeSlot
  <2>2. ASSUME NEW w \in Workers, Executing(w) PROVE ~(index[w] < cursor + 1)
    <3>1. index[w] # cursor /\ index[w] \in Slots
      BY <2>1, <2>2, <1>j, <1>s
    <3>2. ~(index[w] < cursor)
      BY <2>1, <2>2 DEF JoinInv, InLoop
    <3> QED  BY <3>1, <3>2, <2>1 DEF Slots
  <2> QED  BY <2>1, <2>2 DEF JoinInv, SlotsNameTheirThreads, Executing, InLoop
<1>7. CASE FindUsedSlot
  <2>1. /\ UNCHANGED <<slots, index, cursor, joining>> /\ pc[Main] = "collect"
        /\ pc' = [pc EXCEPT ![Main] = "unlocked"]
    BY <1>7 DEF FindUsedSlot, Go
  <2>2. pc'[Main] = "unlocked" /\ \A w \in Workers : pc'[w] = pc[w]
    BY <2>1, <1>p, Constants
  <2> QED  BY <2>1, <2>2 DEF JoinInv, SlotsNameTheirThreads, Executing, InLoop
<1>8. CASE CallJoin
  <2>1. /\ UNCHANGED <<slots, index, cursor>> /\ joining' = slots[cursor].thread
        /\ pc[Main] = "unlocked" /\ pc' = [pc EXCEPT ![Main] = "joining"]
    BY <1>8 DEF CallJoin, Go
  <2>2. pc'[Main] = "joining" /\ \A w \in Workers : pc'[w] = pc[w]
    BY <2>1, <1>p, Constants
  <2> QED  BY <2>1, <2>2 DEF JoinInv, SlotsNameTheirThreads, Executing, InLoop
<1>9. CASE JoinReturns
  <2>1. /\ \E entry : slots' = [slots EXCEPT ![cursor] = entry]
        /\ cursor' = cursor + 1 /\ UNCHANGED index /\ Ended(joining)
        /\ pc[Main] = "joining" /\ pc' = [pc EXCEPT ![Main] = "collect"]
    BY <1>9 DEF JoinReturns, Go
  <2>2. pc'[Main] = "collect" /\ \A w \in Workers : pc'[w] = pc[w]
    BY <2>1, <1>p, Constants
  <2>3. ASSUME NEW w \in Workers, LiveWorker(w) PROVE index[w] # cursor /\ index[w] \in Slots
    <3>1. slots[cursor].thread = joining
      BY <2>1 DEF JoinInv
    <3>2. joining # w
      BY <2>1, <2>3 DEF Ended, LiveWorker
    <3> QED  BY <3>1, <3>2, <2>3, <1>j, <1>s
  <2>4. cursor \in Slots
    BY <2>1 DEF TypeOK, LoopOK
  <2>5. ASSUME NEW w \in Workers, LiveWorker(w)
        PROVE  slots'[index[w]].used /\ slots'[index[w]].thread = w
    BY <2>1, <2>3, <2>5, <1>j, <1>s
  <2>6. ASSUME NEW w \in Workers, Executing(w) PROVE ~(index[w] < cursor + 1)
    <3>1. ~(index[w] < cursor)
      BY <2>1, <2>6 DEF JoinInv, InLoop
    <3> QED  BY <3>1, <2>3, <2>4, <2>6, <1>j DEF Slots
  <2> QED  BY <2>1, <2>2, <2>5, <2>6
              DEF JoinInv, SlotsNameTheirThreads, Executing, LiveWorker, InLoop
<1>10. CASE Account
  <2>1. /\ UNCHANGED <<slots, index>> /\ pc[Main] = "collect" /\ cursor \notin Slots
        /\ pc' = [pc EXCEPT ![Main] = "idle"]
    BY <1>10 DEF Account, Go
  <2>2. pc'[Main] = "idle" /\ \A w \in Workers : pc'[w] = pc[w]
    BY <2>1, <1>p, Constants
  <2>3. cursor = MaxThreads + 1
    BY <2>1, Constants DEF TypeOK, LoopOK, Slots
  <2>4. \A w \in Workers : ~Executing(w)
    BY <2>1, <2>3, <1>j, <1>s, Constants DEF JoinInv, InLoop, Slots
  <2> QED  BY <2>1, <2>2, <2>4 DEF JoinInv, SlotsNameTheirThreads, Executing, InLoop
<1>11. CASE SigAlarm
  <2>1. UNCHANGED <<slots, index, cursor, joining>>
    BY <1>11 DEF SigAlarm, osVars
  <2>2. pc'[Main] = pc[Main] \/ pc'[Main] \notin InLoop \cup {"idle"}
    BY <1>11, <1>p, Constants DEF SigAlarm, Live, InLoop
  <2>3. \A w \in Workers : (LiveWorker(w)' => LiveWorker(w)) /\ (Executing(w)' => Executing(w))
    BY <1>11, <1>p, Constants DEF SigAlarm, Live, LiveWorker, Executing
  <2> QED  BY <2>1, <2>2, <2>3, <1>g
<1>13. CASE JoinNoThread
  <2>1. /\ UNCHANGED <<slots, index, cursor, joining>>
        /\ \E label \in {"stuck", "crashed"} : pc' = [pc EXCEPT ![Main] = label]
    BY <1>13 DEF JoinNoThread, Go
  <2>2. pc'[Main] \in {"stuck", "crashed"} /\ \A w \in Workers : pc'[w] = pc[w]
    BY <2>1, <1>p, Constants
  <2> QED  BY <2>1, <2>2, <1>g DEF LiveWorker, Executing, InLoop
<1>12. CASE Terminating \/ UNCHANGED vars
  <2>1. UNCHANGED <<slots, index, cursor, joining, pc>>
    BY <1>12 DEF Terminating, vars
  <2> QED  BY <2>1, <1>g DEF LiveWorker, Executing
<1> QED
  BY <1>1, <1>2, <1>3, <1>4, <1>5, <1>6, <1>7, <1>8, <1>9, <1>10, <1>11, <1>12, <1>13,
     Constants
     DEF Next, MainStep, WorkerStep

LEMMA JoinInit == Init => JoinInv
<1> SUFFICES ASSUME Init PROVE JoinInv
  OBVIOUS
<1>1. pc[Main] = "idle" /\ \A w \in Workers : pc[w] = "none"
  BY Constants DEF Init
<1> QED  BY <1>1 DEF JoinInv, SlotsNameTheirThreads, Executing, InLoop

LEMMA JoinInvariant == ASSUME ~Nested PROVE Spec => [](TypeOK /\ JoinInv)
<1>1. TypeOK /\ JoinInv /\ [Next]_vars => JoinInv'
  BY JoinNext
<1> QED  BY <1>1, JoinInit, TypeCorrect, PTL DEF Spec

\* As long as no Notify() thread starts another, the join loop can find every
\* thread that is running in the slot AcpiOsExecute() gave it, whatever order
\* the wrapper and the loop give slots back in.
THEOREM SlotsCorrect == ASSUME ~Nested PROVE Spec => []SlotsNameTheirThreads
<1>1. JoinInv => SlotsNameTheirThreads
  BY DEF JoinInv
<1> QED  BY <1>1, JoinInvariant, PTL

\* Then, too, every thread has left its function when the accounting is done.
THEOREM ThreadsComplete == ASSUME ~Nested PROVE Spec => []AllThreadsComplete
<1>1. TypeOK /\ JoinInv => AllThreadsComplete
  <2> SUFFICES ASSUME TypeOK, JoinInv, pc[Main] = "collect", cursor \notin Slots,
                      NEW w \in Workers, Executing(w)
               PROVE  FALSE
    BY DEF AllThreadsComplete, JoinInv
  <2>1. cursor = MaxThreads + 1
    BY Constants DEF TypeOK, LoopOK, Slots
  <2>2. index[w] \in Slots
    BY DEF TypeOK, ThreadTableOK, Executing
  <2> QED  BY <2>1, <2>2, Constants DEF JoinInv, InLoop, Slots
<1> QED  BY <1>1, JoinInvariant, PTL

-----------------------------------------------------------------------------
(* The refinement of SemLedger. *)

\* A semaphore some thread is in a call about exists, and so does any that a
\* handle was given out for.
RefInv ==
  /\ \A s \in Semaphores : sem[s].open => sem[s].used
  /\ \A t \in Threads : pc[t] \in InCall => sem[at[t]].used

LEMMA RefNext == ASSUME TypeOK, RefInv, [Next]_vars PROVE RefInv'
<1>s. sem \in [Semaphores -> SemEntry]
  BY DEF TypeOK, SemTableOK, SemEntry
<1>p. /\ pc \in [Threads -> PlaceNames]
      /\ at \in [Threads -> 0 .. MaxSemaphores]
      /\ \A t \in Threads : pc[t] \in InCall => at[t] \in Semaphores
  BY DEF TypeOK, PlacesOK, PlaceNames, MainLabels
\* Flags stay, and nobody enters a call.
<1>g. ASSUME \A s \in Semaphores : sem'[s].used = sem[s].used /\ sem'[s].open = sem[s].open,
             \A u \in Threads : pc'[u] \in InCall => pc[u] \in InCall /\ at'[u] = at[u]
      PROVE  RefInv'
  BY <1>g, <1>p DEF RefInv
\* Flags stay, and thread t enters a call about s.
<1>h. ASSUME \A s \in Semaphores : sem'[s].used = sem[s].used /\ sem'[s].open = sem[s].open,
             NEW t \in Threads, NEW s \in Semaphores, sem[s].open, at' = [at EXCEPT ![t] = s],
             NEW label, pc' = [pc EXCEPT ![t] = label]
      PROVE  RefInv'
  <2>1. ASSUME NEW u \in Threads, pc'[u] \in InCall PROVE sem'[at'[u]].used
    <3>1. CASE u = t
      BY <3>1, <1>h, <1>p DEF RefInv
    <3>2. CASE u # t
      BY <3>2, <2>1, <1>h, <1>p DEF RefInv
    <3> QED  BY <3>1, <3>2
  <2> QED  BY <2>1, <1>h DEF RefInv
<1>v. ASSUME NEW s \in Semaphores, NEW n, sem' = [sem EXCEPT ![s].value = n]
      PROVE  \A r \in Semaphores : sem'[r].used = sem[r].used /\ sem'[r].open = sem[r].open
  BY <1>v, <1>s DEF SemEntry
<1>c. ASSUME NEW s \in Semaphores, NEW n, sem' = [sem EXCEPT ![s].count = n]
      PROVE  \A r \in Semaphores : sem'[r].used = sem[r].used /\ sem'[r].open = sem[r].open
  BY <1>c, <1>s DEF SemEntry
<1>t. ASSUME NEW s \in Semaphores, TakeUnit(s)
      PROVE  \A r \in Semaphores : sem'[r].used = sem[r].used /\ sem'[r].open = sem[r].open
  BY <1>t, <1>s DEF TakeUnit, SemEntry
<1>1. ASSUME NEW t \in Threads, InMethod(t) PROVE RefInv'
  <2>1. CASE CreateSemaphore(t)
    <3>1. PICK s \in FirstFreeSem, opens \in BOOLEAN, units \in {0, 1} :
            sem' = [sem EXCEPT ![s] = [used |-> TRUE, open |-> opens, value |-> units, count |-> 0]]
      BY <2>1 DEF CreateSemaphore
    <3>2. s \in Semaphores /\ UNCHANGED <<pc, at>>
      BY <2>1 DEF CreateSemaphore, FirstFreeSem
    <3>3. \A r \in Semaphores : sem[r].used => sem'[r].used
      BY <3>1, <3>2, <1>s
    <3>4. \A r \in Semaphores : sem'[r].open => sem'[r].used
      BY <3>1, <3>2, <1>s DEF RefInv
    <3> QED  BY <3>2, <3>3, <3>4, <1>p DEF RefInv
  <2>2. CASE DeleteSemaphore(t)
    <3>1. PICK s \in Semaphores \ Referenced :
            sem' = [sem EXCEPT ![s] = [used |-> FALSE, open |-> FALSE, value |-> @.value, count |-> 0]]
      BY <2>2 DEF DeleteSemaphore
    <3>2. UNCHANGED <<pc, at>>
      BY <2>2 DEF DeleteSemaphore
    <3>3. \A u \in Threads : pc[u] \in InCall => at[u] # s
      BY <3>1 DEF Referenced
    <3>4. \A r \in Semaphores : sem'[r].open => sem'[r].used
      BY <3>1, <1>s DEF RefInv
    <3>5. \A r \in Semaphores \ {s} : sem'[r] = sem[r]
      BY <3>1, <1>s
    <3> QED  BY <3>2, <3>3, <3>4, <3>5, <1>p DEF RefInv
  <2>3. CASE WaitBriefly(t)
    <3>1. PICK s \in Semaphores :
            /\ sem[s].open
            /\ \/ TakeUnit(s) /\ pc' = [pc EXCEPT ![t] = "acquired"] /\ at' = [at EXCEPT ![t] = s]
               \/ UNCHANGED <<sem, pc, at>>
      BY <2>3 DEF WaitBriefly, Go
    <3>2. CASE TakeUnit(s) /\ pc' = [pc EXCEPT ![t] = "acquired"] /\ at' = [at EXCEPT ![t] = s]
      BY <3>1, <3>2, <1>t, <1>h
    <3>3. CASE UNCHANGED <<sem, pc, at>>
      BY <3>3, <1>g
    <3> QED  BY <3>1, <3>2, <3>3
  <2>4. CASE WaitForever(t)
    <3>1. PICK s \in Semaphores : sem[s].open /\ at' = [at EXCEPT ![t] = s]
      BY <2>4 DEF WaitForever
    <3>2. pc' = [pc EXCEPT ![t] = "wait"] /\ UNCHANGED sem
      BY <2>4 DEF WaitForever, Go
    <3> QED  BY <3>1, <3>2, <1>h
  <2>5. CASE SignalSemaphore(t)
    <3>1. PICK s \in Semaphores : /\ sem[s].open /\ at' = [at EXCEPT ![t] = s]
                                  /\ sem' = [sem EXCEPT ![s].value = @ + 1]
      BY <2>5 DEF SignalSemaphore
    <3>2. pc' = [pc EXCEPT ![t] = "posted"]
      BY <2>5 DEF SignalSemaphore, Go
    <3>3. \A r \in Semaphores : sem'[r].used = sem[r].used /\ sem'[r].open = sem[r].open
      BY <3>1, <1>s DEF SemEntry
    <3> QED  BY <3>1, <3>2, <3>3, <1>h
  <2>6. CASE WaitSucceeds(t) \/ CountAcquire(t) \/ CountRelease(t)
    <3>1. /\ pc[t] \in InCall /\ UNCHANGED at
          /\ \E label \in Labels : pc' = [pc EXCEPT ![t] = label]
      BY <2>6 DEF WaitSucceeds, CountAcquire, CountRelease, Go, InCall, Labels
    <3>2. at[t] \in Semaphores
      BY <3>1, <1>p
    <3>3. \A r \in Semaphores : sem'[r].used = sem[r].used /\ sem'[r].open = sem[r].open
      BY <2>6, <3>2, <1>t, <1>s DEF WaitSucceeds, CountAcquire, CountRelease, SemEntry
    <3> QED  BY <3>1, <3>3, <1>g, <1>p
  <2>7. CASE \/ CreateSemaphoreFull(t) \/ CancelAlarm(t) \/ GiveUp(t) \/ ExecuteFails(t) \/ ExecuteRefused(t)
    <3>1. UNCHANGED <<sem, at>>
      BY <2>7 DEF CreateSemaphoreFull, CancelAlarm, GiveUp, ExecuteFails, ExecuteRefused, threadVars
    <3>2. \A u \in Threads : pc'[u] \in InCall => pc[u] \in InCall
      BY <2>7, <1>p DEF CreateSemaphoreFull, CancelAlarm, GiveUp, ExecuteFails, ExecuteRefused, Go, InCall
    <3> QED  BY <3>1, <3>2, <1>g
  <2>8. CASE Execute(t)
    <3>1. UNCHANGED <<sem, at>> /\ \E w \in Workers : pc' = [pc EXCEPT ![w] = "run"]
      BY <2>8 DEF Execute, threadVars, Go
    <3>2. \A u \in Threads : pc'[u] \in InCall => pc[u] \in InCall
      BY <3>1, <1>p DEF InCall
    <3> QED  BY <3>1, <3>2, <1>g
  <2> QED  BY <1>1, <2>1, <2>2, <2>3, <2>4, <2>5, <2>6, <2>7, <2>8 DEF InMethod
<1>2. ASSUME NEW w \in Workers, FunctionReturns(w) \/ ThreadExits(w) PROVE RefInv'
  <2>1. UNCHANGED <<sem, at>> /\ \E label \in {"returned", "exited"} : pc' = [pc EXCEPT ![w] = label]
    BY <1>2 DEF FunctionReturns, ThreadExits, threadVars, Go
  <2>2. \A u \in Threads : pc'[u] \in InCall => pc[u] \in InCall
    BY <2>1, <1>p DEF InCall
  <2> QED  BY <2>1, <2>2, <1>g
<1>3. CASE ClearCounts
  <2>1. \A s \in Semaphores : sem'[s].used = sem[s].used /\ sem'[s].open = sem[s].open
    BY <1>3, <1>s DEF ClearCounts, SemEntry
  <2>2. UNCHANGED at /\ pc' = [pc EXCEPT ![Main] = "run"]
    BY <1>3 DEF ClearCounts, Go
  <2>3. \A u \in Threads : pc'[u] \in InCall => pc[u] \in InCall
    BY <2>2, <1>p DEF InCall
  <2> QED  BY <2>1, <2>2, <2>3, <1>g
<1>4. CASE MethodReturns \/ PassFreeSlot \/ FindUsedSlot \/ CallJoin \/ JoinReturns
           \/ JoinNoThread \/ Account
  <2>1. /\ UNCHANGED <<sem, at>>
        /\ \/ UNCHANGED pc
           \/ \E label \in InLoop \cup {"idle", "stuck", "crashed"} : pc' = [pc EXCEPT ![Main] = label]
    BY <1>4 DEF MethodReturns, PassFreeSlot, FindUsedSlot, CallJoin, JoinReturns, JoinNoThread, Account, threadVars,
       Go, InLoop
  <2>2. \A u \in Threads : pc'[u] \in InCall => pc[u] \in InCall
    BY <2>1, <1>p DEF InCall, InLoop
  <2> QED  BY <2>1, <2>2, <1>g
<1>5. CASE SigAlarm
  <2>1. UNCHANGED <<sem, at>>
    BY <1>5 DEF SigAlarm
  <2>2. \A u \in Threads : pc'[u] \in InCall => pc[u] \in InCall
    BY <1>5, <1>p DEF SigAlarm, Live, InCall
  <2> QED  BY <2>1, <2>2, <1>g
<1>6. CASE Terminating \/ UNCHANGED vars
  BY <1>6, <1>g DEF Terminating, vars
<1> QED
  BY <1>1, <1>2, <1>3, <1>4, <1>5, <1>6, Constants DEF Next, MainStep, WorkerStep

LEMMA RefInit == Init => RefInv
<1> SUFFICES ASSUME Init PROVE RefInv
  OBVIOUS
<1>1. \A t \in Threads : pc[t] \notin InCall
  BY DEF Init, InCall
<1>2. PICK n \in 0 .. MaxSemaphores : \E units \in [1 .. n -> {0, 1}] :
        sem = [s \in Semaphores |->
                 IF s <= n THEN [used |-> TRUE, open |-> TRUE, value |-> units[s], count |-> 0]
                           ELSE Unused]
  BY DEF Init
<1>3. \A s \in Semaphores : sem[s].open => sem[s].used
  BY <1>2 DEF Unused
<1> QED  BY <1>1, <1>3 DEF RefInv

\* What thread t owes to the count of s: 1 for a unit it took and has not yet
\* counted, -1 for one it gave.
Share(t, s) ==
  IF at[t] # s THEN 0
  ELSE IF pc[t] \in {"got", "acquired"} THEN 1
  ELSE IF pc[t] = "posted" THEN -1 ELSE 0

OneIf(b) == IF b THEN 1 ELSE 0

LEMMA MemberChange ==
  ASSUME NEW S, NEW T, NEW t, IsFiniteSet(S), S \ {t} = T \ {t}
  PROVE  /\ Cardinality(T) = Cardinality(S) + OneIf(t \in T) - OneIf(t \in S)
         /\ Cardinality(S) \in Nat /\ Cardinality(T) \in Nat
<1>1. IsFiniteSet(S \ {t})
  BY FS_RemoveElement
<1>2. Cardinality(S) = Cardinality(S \ {t}) + OneIf(t \in S)
  <2>1. CASE t \in S
    <3>1. Cardinality(S \ {t}) = Cardinality(S) - 1 /\ Cardinality(S) \in Nat
      BY <2>1, FS_RemoveElement, FS_CardinalityType
    <3> QED  BY <2>1, <3>1 DEF OneIf
  <2>2. CASE t \notin S
    <3>1. S \ {t} = S /\ Cardinality(S) \in Nat
      BY <2>2, FS_CardinalityType
    <3> QED  BY <2>2, <3>1 DEF OneIf
  <2> QED  BY <2>1, <2>2
<1>3. IsFiniteSet(T)
  <2>1. CASE t \in T
    <3>1. T = (S \ {t}) \cup {t}
      BY <2>1
    <3> QED  BY <1>1, <3>1, FS_AddElement
  <2>2. CASE t \notin T
    <3>1. T = S \ {t}
      BY <2>2
    <3> QED  BY <1>1, <3>1
  <2> QED  BY <2>1, <2>2
<1>4. Cardinality(T) = Cardinality(S \ {t}) + OneIf(t \in T)
  <2>1. CASE t \in T
    <3>1. Cardinality(T \ {t}) = Cardinality(T) - 1 /\ Cardinality(T) \in Nat
      BY <1>3, <2>1, FS_RemoveElement, FS_CardinalityType
    <3> QED  BY <2>1, <3>1 DEF OneIf
  <2>2. CASE t \notin T
    <3>1. T = S \ {t} /\ Cardinality(T) \in Nat
      BY <1>3, <2>2, FS_CardinalityType
    <3> QED  BY <2>2, <3>1 DEF OneIf
  <2> QED  BY <2>1, <2>2
<1>5. Cardinality(S \ {t}) \in Nat /\ Cardinality(S) \in Nat /\ Cardinality(T) \in Nat
  BY <1>1, <1>3, FS_CardinalityType
<1> QED  BY <1>2, <1>4, <1>5 DEF OneIf

\* A step in which only thread t moves changes the net figure of s by what it
\* adds to the count and by the change of what t owes.
LEMMA NetChange ==
  ASSUME TypeOK, TypeOK', NEW t \in Threads, NEW s \in Semaphores,
         \A u \in Threads \ {t} : pc'[u] = pc[u] /\ at'[u] = at[u]
  PROVE  /\ Net[s] \in Int /\ Net'[s] \in Int
         /\ Net'[s] = Net[s] + (sem'[s].count - sem[s].count) + (Share(t, s)' - Share(t, s))
<1>1. sem[s].count \in Int /\ sem'[s].count \in Int
  BY DEF TypeOK, SemTableOK
<1>2. Waited(s) \subseteq Threads /\ Uncounted(s, "posted") \subseteq Threads
  BY DEF Waited, Uncounted
<1>3. IsFiniteSet(Waited(s)) /\ IsFiniteSet(Uncounted(s, "posted"))
  BY <1>2, Constants, FS_Subset
<1>4. /\ Waited(s) \ {t} = Waited(s)' \ {t}
      /\ Uncounted(s, "posted") \ {t} = Uncounted(s, "posted")' \ {t}
  BY DEF Waited, Uncounted
<1>5. /\ Cardinality(Waited(s)') =
           Cardinality(Waited(s)) + OneIf(t \in Waited(s)') - OneIf(t \in Waited(s))
      /\ Cardinality(Waited(s)) \in Nat /\ Cardinality(Waited(s)') \in Nat
  BY <1>3, <1>4, MemberChange
<1>6. /\ Cardinality(Uncounted(s, "posted")') =
           Cardinality(Uncounted(s, "posted"))
             + OneIf(t \in Uncounted(s, "posted")') - OneIf(t \in Uncounted(s, "posted"))
      /\ Cardinality(Uncounted(s, "posted")) \in Nat /\ Cardinality(Uncounted(s, "posted")') \in Nat
  BY <1>3, <1>4, MemberChange
<1>7. /\ OneIf(t \in Waited(s)) - OneIf(t \in Uncounted(s, "posted")) = Share(t, s)
      /\ OneIf(t \in Waited(s)) \in Int /\ OneIf(t \in Uncounted(s, "posted")) \in Int
  BY DEF Share, OneIf, Waited, Uncounted
<1>8. /\ OneIf(t \in Waited(s)') - OneIf(t \in Uncounted(s, "posted")') = Share(t, s)'
      /\ OneIf(t \in Waited(s)') \in Int /\ OneIf(t \in Uncounted(s, "posted")') \in Int
  BY DEF Share, OneIf, Waited, Uncounted
<1>9. /\ Net[s] = sem[s].count + Cardinality(Waited(s)) - Cardinality(Uncounted(s, "posted"))
      /\ Net'[s] = sem'[s].count + Cardinality(Waited(s)') - Cardinality(Uncounted(s, "posted")')
  BY DEF Net
<1> DEFINE w == Cardinality(Waited(s))
           v == Cardinality(Waited(s)')
           p == Cardinality(Uncounted(s, "posted"))
           q == Cardinality(Uncounted(s, "posted")')
           w1 == OneIf(t \in Waited(s))
           w2 == OneIf(t \in Waited(s)')
           p1 == OneIf(t \in Uncounted(s, "posted"))
           p2 == OneIf(t \in Uncounted(s, "posted")')
           x == Share(t, s)
           y == Share(t, s)'
           c == sem[s].count
           d == sem'[s].count
<1>10. /\ w \in Int /\ v \in Int /\ p \in Int /\ q \in Int /\ c \in Int /\ d \in Int
       /\ w1 \in Int /\ w2 \in Int /\ p1 \in Int /\ p2 \in Int
       /\ v = w + w2 - w1 /\ q = p + p2 - p1 /\ w1 - p1 = x /\ w2 - p2 = y
       /\ Net[s] = c + w - p /\ Net'[s] = d + v - q
  BY <1>1, <1>5, <1>6, <1>7, <1>8, <1>9
<1> HIDE DEF w, v, p, q, w1, w2, p1, p2, x, y, c, d
<1>11. Net[s] \in Int /\ Net'[s] \in Int /\ Net'[s] = Net[s] + (d - c) + (y - x)
  BY <1>10
<1> QED  BY <1>11 DEF c, d, x, y

LEMMA LedgerInit == Init => Ledger!Init
<1> SUFFICES ASSUME Init PROVE Ledger!Init
  OBVIOUS
<1>1. PICK n \in 0 .. MaxSemaphores : \E units \in [1 .. n -> {0, 1}] :
        sem = [s \in Semaphores |->
                 IF s <= n THEN [used |-> TRUE, open |-> TRUE, value |-> units[s], count |-> 0]
                           ELSE Unused]
  BY DEF Init
<1>2. \A s \in Semaphores : sem[s].value \in {0, 1} /\ sem[s].count = 0
  <2> SUFFICES ASSUME NEW s \in Semaphores PROVE sem[s].value \in {0, 1} /\ sem[s].count = 0
    OBVIOUS
  <2>1. CASE s <= n
    <3>1. s \in 1 .. n
      BY <2>1, Constants DEF Semaphores
    <3>2. \A units \in [1 .. n -> {0, 1}] : units[s] \in {0, 1}
      BY <3>1
    <3> QED  BY <1>1, <2>1, <3>2
  <2>2. CASE ~(s <= n)
    BY <1>1, <2>2 DEF Unused
  <2> QED  BY <2>1, <2>2
<1>3. \A s \in Semaphores : Waited(s) = {} /\ Uncounted(s, "posted") = {}
  BY DEF Init, Waited, Uncounted
<1>4. Cardinality({}) = 0
  BY FS_EmptySet
<1>5. Net = [s \in Semaphores |-> 0]
  BY <1>2, <1>3, <1>4 DEF Net
<1>6. Units \in [Semaphores -> {0, 1}]
  BY <1>2 DEF Units
<1>7. Acquired \subseteq Semaphores /\ Phase = "idle" /\ report = [acquired |-> 0, released |-> 0]
  BY Constants DEF Acquired, Phase, Init
<1> QED  BY <1>5, <1>6, <1>7 DEF Ledger!Init

LEMMA LedgerNext ==
  ASSUME TypeOK, TypeOK', JoinInv, RefInv, [Next]_vars
  PROVE  [Ledger!Next]_<<Acquired, Units, Net, Phase, report>>
<1> DEFINE Refined == [Ledger!Next]_<<Acquired, Units, Net, Phase, report>>
<1>s. sem \in [Semaphores -> SemEntry] /\ sem' \in [Semaphores -> SemEntry]
  BY DEF TypeOK, SemTableOK, SemEntry
<1>p. /\ pc \in [Threads -> PlaceNames]
      /\ at \in [Threads -> 0 .. MaxSemaphores]
      /\ \A t \in Threads : pc[t] \in InCall => at[t] \in Semaphores
  BY DEF TypeOK, PlacesOK, PlaceNames, MainLabels
<1>n. ASSUME NEW t \in Threads, \A u \in Threads \ {t} : pc'[u] = pc[u] /\ at'[u] = at[u]
      PROVE  /\ Net \in [Semaphores -> Int] /\ Net' \in [Semaphores -> Int]
             /\ \A s \in Semaphores :
                  Net'[s] = Net[s] + (sem'[s].count - sem[s].count) + (Share(t, s)' - Share(t, s))
  <2>1. \A s \in Semaphores :
          /\ Net[s] \in Int /\ Net'[s] \in Int
          /\ Net'[s] = Net[s] + (sem'[s].count - sem[s].count) + (Share(t, s)' - Share(t, s))
    BY <1>n, NetChange
  <2>2. Net \in [Semaphores -> Int]
    <3>1. Net = [s \in Semaphores |-> Net[s]]
      BY DEF Net
    <3> HIDE DEF Net
    <3> QED  BY <2>1, <3>1
  <2>3. Net' \in [Semaphores -> Int]
    <3>1. Net' = [s \in Semaphores |-> Net'[s]]
      BY DEF Net
    <3> QED  BY <2>1, <3>1
  <2> QED  BY <2>1, <2>2, <2>3
\* A step the ledger does not see.
<1>g. ASSUME NEW t \in Threads, \A u \in Threads \ {t} : pc'[u] = pc[u] /\ at'[u] = at[u],
             \A s \in Semaphores : /\ sem'[s].used = sem[s].used /\ sem'[s].value = sem[s].value
                                  /\ sem'[s].count + Share(t, s)' = sem[s].count + Share(t, s),
             pc'[Main] = "idle" <=> pc[Main] = "idle",
             UNCHANGED report
      PROVE  Refined
  <2>1. Acquired' = Acquired /\ Units' = Units /\ Phase' = Phase
    BY <1>g DEF Acquired, Units, Phase
  <2>2. \A s \in Semaphores : Net'[s] = Net[s]
    <3> SUFFICES ASSUME NEW s \in Semaphores PROVE Net'[s] = Net[s]
      OBVIOUS
    <3>1. sem[s].count \in Int /\ sem'[s].count \in Int
      BY <1>s DEF SemEntry
    <3>2. Share(t, s) \in Int /\ Share(t, s)' \in Int
      BY DEF Share
    <3>3. Net[s] \in Int
          /\ Net'[s] = Net[s] + (sem'[s].count - sem[s].count) + (Share(t, s)' - Share(t, s))
      BY <1>n, <1>g
    <3> QED  BY <3>1, <3>2, <3>3, <1>g
  <2>3. Net' = Net
    BY <2>2, <1>n, <1>g
  <2> QED  BY <2>1, <2>3, <1>g
\* Inside a method the ledger is evaluating.
<1>e. ASSUME NEW t \in Threads, pc[t] \in {"run", "wait"},
             NEW label \in Labels, pc' = [pc EXCEPT ![t] = label] \/ UNCHANGED pc
      PROVE  Phase = "evaluating" /\ Phase' = "evaluating"
  <2>1. pc[Main] # "idle"
    BY <1>e DEF JoinInv, Executing, Threads
  <2>2. pc'[Main] # "idle"
    BY <2>1, <1>e, <1>p, Constants DEF Labels
  <2> QED  BY <2>1, <2>2 DEF Phase
\* Thread t moves on, between places where it owes the counts nothing.
<1>m. ASSUME NEW t \in Threads, NEW label, pc' = [pc EXCEPT ![t] = label],
             pc[t] \notin {"got", "acquired", "posted"}, label \notin {"got", "acquired", "posted"},
             \A u \in Threads \ {t} : at'[u] = at[u],
             t = Main => (label = "idle" <=> pc[t] = "idle"), t # Main => label # "idle",
             UNCHANGED <<sem, report>>
      PROVE  Refined
  <2>1. \A s \in Semaphores : Share(t, s) = 0 /\ Share(t, s)' = 0
    BY <1>m, <1>p DEF Share
  <2>2. \A u \in Threads \ {t} : pc'[u] = pc[u] /\ at'[u] = at[u]
    BY <1>m, <1>p
  <2>3. pc'[Main] = "idle" <=> pc[Main] = "idle"
    BY <1>m, <1>p, Constants
  <2> QED  BY <2>1, <2>2, <2>3, <1>m, <1>g
<1>q. ASSUME UNCHANGED <<sem, pc, at, report>> PROVE Refined
  BY <1>q, <1>g, Constants DEF Share
\* A semaphore nobody is in a call about owes nothing.
<1>y. ASSUME NEW s \in Semaphores, \A u \in Threads : pc[u] \in InCall => at[u] # s
      PROVE  Net[s] = sem[s].count
  <2>1. Waited(s) = {} /\ Uncounted(s, "posted") = {}
    BY <1>y DEF Waited, Uncounted, InCall
  <2>2. sem[s].count \in Int
    BY <1>s DEF SemEntry
  <2>3. Net[s] = sem[s].count + Cardinality({}) - Cardinality({})
    BY <2>1 DEF Net
  <2> QED  BY <2>2, <2>3, FS_EmptySet
<1>z. ASSUME NEW s \in Semaphores, \A u \in Threads : pc'[u] \in InCall => at'[u] # s
      PROVE  Net'[s] = sem'[s].count
  <2>1. Waited(s)' = {} /\ Uncounted(s, "posted")' = {}
    BY <1>z DEF Waited, Uncounted, InCall
  <2>2. sem'[s].count \in Int
    BY <1>s DEF SemEntry
  <2>3. Net'[s] = sem'[s].count + Cardinality({}) - Cardinality({})
    BY <2>1 DEF Net
  <2> QED  BY <2>2, <2>3, FS_EmptySet
\* The steps that take a unit and those that give one.
<1>t. ASSUME NEW t \in Threads, NEW s \in Semaphores, sem[s].used, TakeUnit(s),
             pc[t] \in {"run", "wait"}, at'[t] = s, UNCHANGED report,
             NEW label \in {"got", "acquired"}, pc' = [pc EXCEPT ![t] = label],
             \A u \in Threads \ {t} : at'[u] = at[u]
      PROVE  Refined
  <2>1. Phase = "evaluating" /\ Phase' = "evaluating"
    BY <1>t, <1>e DEF Labels
  <2>2. /\ sem[s].value > 0
        /\ sem' = [sem EXCEPT ![s].value = @ - 1]
    BY <1>t DEF TakeUnit
  <2>3. s \in Acquired /\ Acquired' = Acquired
    BY <2>2, <1>t, <1>s DEF Acquired, SemEntry
  <2>4. Units[s] > 0 /\ Units' = [Units EXCEPT ![s] = @ - 1]
    BY <2>2, <1>s DEF Units, SemEntry
  <2>5. \A u \in Threads \ {t} : pc'[u] = pc[u]
    BY <1>t, <1>p
  <2>6. \A r \in Semaphores : Share(t, r) = 0 /\ Share(t, r)' = IF r = s THEN 1 ELSE 0
    BY <1>t, <1>p DEF Share
  <2>7. \A r \in Semaphores : sem'[r].count = sem[r].count /\ sem[r].count \in Int
    BY <2>2, <1>s DEF SemEntry
  <2>8. \A r \in Semaphores : Net[r] \in Int /\ Net'[r] = Net[r] + IF r = s THEN 1 ELSE 0
    BY <2>5, <2>6, <2>7, <1>n, <1>t
  <2>9. Net' = [Net EXCEPT ![s] = @ + 1]
    BY <2>5, <2>8, <1>n, <1>t
  <2>10. Ledger!Take(s)
    BY <2>1, <2>3, <2>4, <2>9, <1>t DEF Ledger!Take, Ledger!Evaluating
  <2> QED  BY <2>10 DEF Ledger!Next
<1>r. ASSUME NEW t \in Threads, SignalSemaphore(t) PROVE Refined
  <2>1. PICK s \in Semaphores : /\ sem[s].open /\ sem' = [sem EXCEPT ![s].value = @ + 1]
                                /\ at' = [at EXCEPT ![t] = s]
    BY <1>r DEF SignalSemaphore
  <2>2. /\ pc[t] = "run" /\ pc' = [pc EXCEPT ![t] = "posted"] /\ UNCHANGED report
    BY <1>r DEF SignalSemaphore, Calling, Go, osVars
  <2>3. Phase = "evaluating" /\ Phase' = "evaluating"
    BY <2>2, <1>e DEF Labels
  <2>4. s \in Acquired /\ Acquired' = Acquired
    BY <2>1, <1>s DEF Acquired, SemEntry, RefInv
  <2>5. Units' = [Units EXCEPT ![s] = @ + 1]
    BY <2>1, <1>s DEF Units, SemEntry
  <2>6. \A u \in Threads \ {t} : pc'[u] = pc[u] /\ at'[u] = at[u]
    BY <2>1, <2>2, <1>p
  <2>7. \A r \in Semaphores : Share(t, r) = 0 /\ Share(t, r)' = IF r = s THEN -1 ELSE 0
    BY <2>1, <2>2, <1>p DEF Share
  <2>8. \A r \in Semaphores : sem'[r].count = sem[r].count /\ sem[r].count \in Int
    BY <2>1, <1>s DEF SemEntry
  <2>9. \A r \in Semaphores : Net[r] \in Int /\ Net'[r] = Net[r] + IF r = s THEN -1 ELSE 0
    BY <2>6, <2>7, <2>8, <1>n
  <2>10. Net' = [Net EXCEPT ![s] = @ - 1]
    BY <2>6, <2>9, <1>n
  <2>11. Ledger!Give(s)
    BY <2>2, <2>3, <2>4, <2>5, <2>10 DEF Ledger!Give, Ledger!Evaluating
  <2> QED  BY <2>11 DEF Ledger!Next
<1>1. ASSUME NEW t \in Threads, InMethod(t) PROVE Refined
  <2>1. CASE CreateSemaphore(t)
    <3>1. PICK s \in FirstFreeSem, opens \in BOOLEAN, units \in {0, 1} :
            sem' = [sem EXCEPT ![s] = [used |-> TRUE, open |-> opens, value |-> units, count |-> 0]]
      BY <2>1 DEF CreateSemaphore
    <3>2. s \in Semaphores /\ ~sem[s].used
      BY DEF FirstFreeSem
    <3>3. UNCHANGED <<pc, at, report>> /\ pc[t] = "run"
      BY <2>1 DEF CreateSemaphore, Calling, osVars
    <3>4. Phase = "evaluating" /\ Phase' = "evaluating"
      BY <3>3, <1>e DEF Labels
    <3>5. \A u \in Threads : pc'[u] \in InCall => at'[u] # s
      BY <3>2, <3>3 DEF RefInv
    <3>6. Net'[s] = 0
      BY <3>1, <3>2, <3>5, <1>z, <1>s
    <3>7. \A r \in Semaphores \ {s} : Net'[r] = Net[r]
      <4>1. \A r \in Semaphores \ {s} :
              Share(t, r)' = Share(t, r) /\ sem'[r].count = sem[r].count
              /\ Share(t, r) \in Int /\ sem[r].count \in Int
        BY <3>1, <3>3, <1>s DEF Share, SemEntry
      <4>2. \A r \in Semaphores \ {s} : Net[r] \in Int
              /\ Net'[r] = Net[r] + (sem'[r].count - sem[r].count) + (Share(t, r)' - Share(t, r))
        BY <3>3, <1>n
      <4> QED  BY <4>1, <4>2
    <3>8. Net' = [Net EXCEPT ![s] = 0]
      BY <3>3, <3>6, <3>7, <1>n
    <3>9. s \notin Acquired /\ Acquired' = Acquired \cup {s} /\ Units' = [Units EXCEPT ![s] = units]
      BY <3>1, <3>2, <1>s DEF Acquired, Units
    <3>10. Ledger!Create(s)
      BY <3>3, <3>4, <3>8, <3>9 DEF Ledger!Create, Ledger!Evaluating
    <3> QED  BY <3>2, <3>10 DEF Ledger!Next
  <2>2. CASE DeleteSemaphore(t)
    <3>1. PICK s \in Semaphores \ Referenced :
            /\ sem[s].used
            /\ sem' = [sem EXCEPT ![s] = [used |-> FALSE, open |-> FALSE, value |-> @.value, count |-> 0]]
      BY <2>2 DEF DeleteSemaphore
    <3>2. UNCHANGED <<pc, at, report>> /\ pc[t] = "run"
      BY <2>2 DEF DeleteSemaphore, Calling, osVars
    <3>3. Phase = "evaluating" /\ Phase' = "evaluating"
      BY <3>2, <1>e DEF Labels
    <3>4. \A u \in Threads : pc'[u] \in InCall => at'[u] # s
      BY <3>1, <3>2 DEF Referenced
    <3>5. Net'[s] = 0
      BY <3>1, <3>4, <1>z, <1>s
    <3>6. \A r \in Semaphores \ {s} : Net'[r] = Net[r]
      <4>1. \A r \in Semaphores \ {s} :
              Share(t, r)' = Share(t, r) /\ sem'[r].count = sem[r].count
              /\ Share(t, r) \in Int /\ sem[r].count \in Int
        BY <3>1, <3>2, <1>s DEF Share, SemEntry
      <4>2. \A r \in Semaphores \ {s} : Net[r] \in Int
              /\ Net'[r] = Net[r] + (sem'[r].count - sem[r].count) + (Share(t, r)' - Share(t, r))
        BY <3>2, <1>n
      <4> QED  BY <4>1, <4>2
    <3>7. Net' = [Net EXCEPT ![s] = 0]
      BY <3>2, <3>5, <3>6, <1>n
    <3>8. s \in Acquired /\ Acquired' = Acquired \ {s} /\ Units' = Units
      BY <3>1, <1>s DEF Acquired, Units
    <3>9. Ledger!Delete(s)
      BY <3>2, <3>3, <3>7, <3>8 DEF Ledger!Delete, Ledger!Evaluating
    <3> QED  BY <3>9 DEF Ledger!Next
  <2>3. CASE WaitBriefly(t)
    <3>1. pc[t] = "run" /\ UNCHANGED report
      BY <2>3 DEF WaitBriefly, Calling, osVars
    <3>2. ASSUME NEW s \in Semaphores, sem[s].open, TakeUnit(s), pc' = [pc EXCEPT ![t] = "acquired"],
                 at' = [at EXCEPT ![t] = s]
          PROVE  Refined
      <4>1. sem[s].used
        BY <3>2 DEF RefInv
      <4>2. at'[t] = s /\ \A u \in Threads \ {t} : at'[u] = at[u]
        BY <3>2, <1>p
      <4> QED  BY <3>1, <3>2, <4>1, <4>2, <1>t
    <3>3. CASE UNCHANGED <<sem, pc, at>>
      BY <3>1, <3>3, <1>g DEF Share
    <3> QED  BY <2>3, <3>2, <3>3 DEF WaitBriefly, Go
  <2>4. CASE WaitSucceeds(t)
    <3>1. /\ pc[t] = "wait" /\ TakeUnit(at[t]) /\ pc' = [pc EXCEPT ![t] = "got"]
          /\ UNCHANGED <<at, report>>
      BY <2>4 DEF WaitSucceeds, Go, osVars
    <3>2. at[t] \in Semaphores /\ sem[at[t]].used
      BY <3>1, <1>p DEF InCall, RefInv
    <3> QED  BY <3>1, <3>2, <1>t
  <2>5. CASE SignalSemaphore(t)
    BY <2>5, <1>r
\* The counts catch up with what was done.
  <2>6. CASE CountAcquire(t) \/ CountRelease(t)
    <3>1. /\ pc[t] \in {"acquired", "posted"} /\ pc' = [pc EXCEPT ![t] = "run"]
          /\ UNCHANGED <<at, report>>
          /\ sem' = [sem EXCEPT ![at[t]].count =
                        sem[at[t]].count + IF pc[t] = "acquired" THEN 1 ELSE -1]
      BY <2>6, <1>s, <1>p DEF CountAcquire, CountRelease, Go, osVars, SemEntry, InCall
    <3>2. at[t] \in Semaphores
      BY <3>1, <1>p DEF InCall
    <3>3. \A s \in Semaphores : /\ sem'[s].used = sem[s].used /\ sem'[s].value = sem[s].value
                                /\ s # at[t] => sem'[s].count = sem[s].count
      BY <3>1, <1>s DEF SemEntry
    <3>4. \A s \in Semaphores : sem'[s].count + Share(t, s)' = sem[s].count + Share(t, s)
      <4>1. \A s \in Semaphores : sem[s].count \in Int /\ sem'[s].count \in Int
        BY <1>s DEF SemEntry
      <4>2. \A s \in Semaphores : Share(t, s)' = 0
        BY <3>1, <1>p DEF Share
      <4>3. Share(t, at[t]) = IF pc[t] = "acquired" THEN 1 ELSE -1
        BY <3>1 DEF Share
      <4>4. \A s \in Semaphores : s # at[t] => Share(t, s) = 0
        BY DEF Share
      <4>5. sem'[at[t]].count = sem[at[t]].count + IF pc[t] = "acquired" THEN 1 ELSE -1
        BY <3>1, <3>2, <1>s DEF SemEntry
      <4> QED  BY <3>1, <3>2, <3>3, <4>1, <4>2, <4>3, <4>4, <4>5
    <3>5. \A u \in Threads \ {t} : pc'[u] = pc[u] /\ at'[u] = at[u]
      BY <3>1, <1>p
    <3>6. pc'[Main] = "idle" <=> pc[Main] = "idle"
      BY <3>1, <1>p, Constants
    <3> QED  BY <3>1, <3>3, <3>4, <3>5, <3>6, <1>g
  <2>7. CASE CancelAlarm(t)
    <3>1. pc[t] = "got" /\ pc' = [pc EXCEPT ![t] = "acquired"] /\ UNCHANGED <<sem, at, report>>
      BY <2>7 DEF CancelAlarm, Go, osVars
    <3>2. \A s \in Semaphores : Share(t, s)' = Share(t, s)
      BY <3>1, <1>p DEF Share
    <3>3. \A u \in Threads \ {t} : pc'[u] = pc[u] /\ at'[u] = at[u]
      BY <3>1, <1>p
    <3>4. pc'[Main] = "idle" <=> pc[Main] = "idle"
      BY <3>1, <1>p, Constants
    <3> QED  BY <3>1, <3>2, <3>3, <3>4, <1>g
  <2>8. CASE WaitForever(t) \/ GiveUp(t)
    <3>1. /\ pc[t] \in {"run", "interrupted"} /\ UNCHANGED <<sem, report>>
          /\ \E label \in {"wait", "run"} : pc' = [pc EXCEPT ![t] = label]
          /\ UNCHANGED at \/ \E s \in Semaphores : at' = [at EXCEPT ![t] = s]
      BY <2>8 DEF WaitForever, GiveUp, Calling, Go, osVars
    <3>2. \A u \in Threads \ {t} : at'[u] = at[u]
      BY <3>1, <1>p
    <3> QED  BY <3>1, <3>2, <1>m
  <2>9. CASE Execute(t)
    <3>1. PICK w \in Workers : pc[w] = "none" /\ pc' = [pc EXCEPT ![w] = "run"]
      BY <2>9 DEF Execute, Go
    <3>2. UNCHANGED <<sem, at, report>>
      BY <2>9 DEF Execute, threadVars
    <3> QED  BY <3>1, <3>2, <1>m, Constants
  <2>10. CASE CreateSemaphoreFull(t) \/ ExecuteFails(t) \/ ExecuteRefused(t)
    BY <2>10, <1>q DEF CreateSemaphoreFull, ExecuteFails, ExecuteRefused, threadVars, osVars
  <2> QED
    BY <1>1, <2>1, <2>2, <2>3, <2>4, <2>5, <2>6, <2>7, <2>8, <2>9, <2>10 DEF InMethod
<1>2. ASSUME NEW w \in Workers, FunctionReturns(w) \/ ThreadExits(w) PROVE Refined
  <2>1. /\ pc[w] \in {"run", "returned"} /\ UNCHANGED <<sem, at, report>>
        /\ \E label \in {"returned", "exited"} : pc' = [pc EXCEPT ![w] = label]
    BY <1>2 DEF FunctionReturns, ThreadExits, threadVars, Go
  <2> QED  BY <2>1, <1>m, Constants
<1>3. CASE ClearCounts
  <2>1. /\ pc[Main] = "idle" /\ pc' = [pc EXCEPT ![Main] = "run"] /\ UNCHANGED <<at, report>>
        /\ sem' = [s \in Semaphores |-> [sem[s] EXCEPT !.count = 0]]
    BY <1>3 DEF ClearCounts, Go
  <2>2. \A w \in Workers : ~Executing(w)
    BY <2>1 DEF JoinInv
  <2>3. \A t \in Threads : pc'[t] \notin InCall
    BY <2>1, <2>2, <1>p, Constants DEF Executing, InCall, Threads
  <2>4. \A s \in Semaphores : Net'[s] = 0
    BY <2>1, <2>3, <1>z, <1>s DEF SemEntry
  <2>5. Net' = [s \in Semaphores |-> 0]
    BY <2>1, <2>4, <1>n, <1>p, Constants
  <2>6. Acquired' = Acquired /\ Units' = Units
    BY <2>1, <1>s DEF Acquired, Units, SemEntry
  <2>7. Phase = "idle" /\ Phase' = "evaluating"
    BY <2>1, <1>p, Constants DEF Phase
  <2>8. Ledger!Begin
    BY <2>1, <2>5, <2>6, <2>7 DEF Ledger!Begin
  <2> QED  BY <2>8 DEF Ledger!Next
<1>4. CASE Account
  <2>1. /\ pc[Main] = "collect" /\ cursor \notin Slots /\ pc' = [pc EXCEPT ![Main] = "idle"]
        /\ UNCHANGED <<sem, at>>
        /\ report' = [acquired |-> Cardinality(Acquired), released |-> Cardinality(Released)]
    BY <1>4 DEF Account, Go
  <2>2. cursor = MaxThreads + 1
    BY <2>1, Constants DEF TypeOK, LoopOK, Slots
  <2>3. \A w \in Workers : ~Executing(w)
    <3>1. \A w \in Workers : pc[w] # "none" => index[w] \in Slots
      BY DEF TypeOK, ThreadTableOK
    <3> QED  BY <2>1, <2>2, <3>1, Constants DEF JoinInv, InLoop, Slots, Executing
  <2>4. \A t \in Threads : pc[t] \notin InCall
    BY <2>1, <2>3 DEF Executing, InCall, Threads
  <2>5. \A s \in Semaphores : Net[s] = sem[s].count
    BY <2>4, <1>y
  <2>6. {s \in Acquired : Net[s] = 0} = Released
    BY <2>5 DEF Released, Acquired
  <2>7. \A t \in Threads : pc'[t] \notin InCall
    BY <2>1, <2>4, <1>p, Constants DEF InCall
  <2>8. \A s \in Semaphores : Net'[s] = Net[s]
    BY <2>1, <2>5, <2>7, <1>z
  <2>9. Net' = Net
    BY <2>1, <2>8, <1>n, <1>p, Constants
  <2>10. Acquired' = Acquired /\ Units' = Units
    BY <2>1 DEF Acquired, Units
  <2>11. Phase = "evaluating" /\ Phase' = "idle"
    BY <2>1, <1>p, Constants DEF Phase
  <2>12. Ledger!Report
    <3>1. \A S : Ledger!Cardinality(S) = Cardinality(S)
      BY DEF Ledger!Cardinality, Cardinality
    <3> QED  BY <3>1, <2>1, <2>6, <2>9, <2>10, <2>11 DEF Ledger!Report
  <2> QED  BY <2>12 DEF Ledger!Next
<1>5. CASE MethodReturns \/ PassFreeSlot \/ FindUsedSlot \/ CallJoin \/ JoinReturns \/ JoinNoThread
  <2>1. UNCHANGED <<sem, at, report>>
    BY <1>5 DEF MethodReturns, PassFreeSlot, FindUsedSlot, CallJoin, JoinReturns, JoinNoThread, threadVars
  <2>2. \/ UNCHANGED pc
        \/ /\ pc[Main] \in InLoop \cup {"run"}
           /\ \E label \in InLoop \cup {"stuck", "crashed"} :
                pc' = [pc EXCEPT ![Main] = label]
    BY <1>5 DEF MethodReturns, PassFreeSlot, FindUsedSlot, CallJoin, JoinReturns, JoinNoThread, threadVars, Go, InLoop
  <2> QED  BY <2>1, <2>2, <1>m, <1>q, Constants DEF InLoop
<1>6. CASE SigAlarm
  <2>1. PICK t \in Live : pc' = [pc EXCEPT ![t] = IF @ = "wait" THEN "interrupted" ELSE @]
    BY <1>6 DEF SigAlarm
  <2>2. UNCHANGED <<sem, at, report>> /\ t \in Threads
    BY <1>6 DEF SigAlarm, osVars, Live
  <2>3. CASE pc[t] = "wait"
    <3>1. pc' = [pc EXCEPT ![t] = "interrupted"]
      BY <2>1, <2>3
    <3> QED  BY <2>2, <2>3, <3>1, <1>m
  <2>4. CASE pc[t] # "wait"
    <3>1. UNCHANGED pc
      BY <2>1, <2>2, <2>4, <1>p
    <3> QED  BY <2>2, <3>1, <1>q
  <2> QED  BY <2>3, <2>4
<1>7. CASE Terminating \/ UNCHANGED vars
  BY <1>7, <1>q DEF Terminating, vars
<1> QED
  BY <1>1, <1>2, <1>3, <1>4, <1>5, <1>6, <1>7, Constants DEF Next, MainStep, WorkerStep

\* The accounting of acquires and releases is exact: whatever the interleaving
\* of the two steps AcpiOsWaitSemaphore() and AcpiOsSignalSemaphore() take, of
\* the waits that give up and of the threads Notify() started, every behaviour
\* of the layer is one of the ledger.
THEOREM LedgerCorrect == ASSUME ~Nested PROVE Spec => ImplementsLedger
<1>1. Spec => []RefInv
  <2>1. TypeOK /\ RefInv /\ [Next]_vars => RefInv'
    BY RefNext
  <2> QED  BY <2>1, RefInit, TypeCorrect, PTL DEF Spec
<1>2. TypeOK /\ TypeOK' /\ JoinInv /\ RefInv /\ [Next]_vars
        => [Ledger!Next]_<<Acquired, Units, Net, Phase, report>>
  BY LedgerNext
<1>3. [Ledger!Next]_<<Acquired, Units, Net, Phase, report>> => [Ledger!Next]_(Ledger!ledger)
  BY DEF Ledger!ledger
<1>4. Spec => Ledger!Init /\ [][Ledger!Next]_(Ledger!ledger)
  BY <1>1, <1>2, <1>3, LedgerInit, JoinInvariant, PTL DEF Spec
<1> QED  BY <1>4 DEF ImplementsLedger, Ledger!Spec
=============================================================================
