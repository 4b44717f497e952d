---------------------------- MODULE RunnerProofs ----------------------------
(***************************************************************************)
(* Proofs about the run phase of the test framework, for any set of tests, *)
(* any lists of tests to run and any options.                              *)
(***************************************************************************)
EXTENDS Runner, SequenceTheorems, FiniteSetTheorems, WellFoundedInduction, TLAPS

(* minorNum counts the minor tests of the current test: it never passes the  *)
(* number of them by more than the one that ends the loop.                   *)
MinorNumOK ==
    /\ pc \in {"gate", "init"} => minorNum = 1
    /\ pc = "next" => minorNum \in 1 .. Minors[Current] + 1
    /\ pc \in {"minor", "tally"} => minorNum \in 1 .. Minors[Current]

TypeInv == TypeOK /\ MinorNumOK

-----------------------------------------------------------------------------
LEMMA CurrentType ==
    ASSUME TypeOK, pos <= Len(queue)
    PROVE  Current \in Tests /\ Minors[Current] \in Nat
BY RunnerAssumption DEF TypeOK, Current

LEMMA AddType ==
    ASSUME NEW r \in Results, NEW f \in Fields, NEW n \in Nat
    PROVE  /\ Add(r, f, n) \in Results
           /\ Add(r, f, n)[f] = r[f] + n
           /\ \A g \in Fields \ {f} : Add(r, f, n)[g] = r[g]
BY DEF Add, Results

LEMMA PlusType ==
    ASSUME NEW r \in Results, NEW s \in Results
    PROVE  /\ Plus(r, s) \in Results
           /\ \A f \in Fields : Plus(r, s)[f] = r[f] + s[f]
BY DEF Plus, Results

LEMMA ZeroType == Zero \in Results /\ \A f \in Fields : Zero[f] = 0
BY DEF Zero, Results

LEMMA VerdictType ==
    ASSUME NEW res \in Results, NEW levels \in SUBSET Levels
    PROVE  Verdict(res, levels) \in Verdicts
<1> DEFINE named == levels \cap (Critical .. Low)
<1>1. CASE res["failed"] > 0 /\ named # {}
  <2> DEFINE l == CHOOSE l \in named : \A m \in named : l <= m
  <2>1. \E l_1 \in named : \A m \in named : l_1 <= m
    <3>1. named \subseteq {1, 2, 3, 4}
      BY DEF Critical, Low
    <3>2. CASE 1 \in named
      BY <3>1, <3>2
    <3>3. CASE 1 \notin named /\ 2 \in named
      BY <3>1, <3>3
    <3>4. CASE 1 \notin named /\ 2 \notin named /\ 3 \in named
      BY <3>1, <3>4
    <3>5. CASE 1 \notin named /\ 2 \notin named /\ 3 \notin named
      BY <3>1, <3>5, <1>1
    <3> QED  BY <3>2, <3>3, <3>4, <3>5
  <2>2. l \in named
    BY <2>1
  <2>3. l \in Critical .. Low
    BY <2>2
  <2>4. Verdict(res, levels) = FailedWord[l]
    BY <1>1 DEF Verdict
  <2> HIDE DEF l
  <2> QED  BY <2>3, <2>4 DEF Verdicts
<1>2. CASE ~(res["failed"] > 0 /\ named # {})
  BY <1>2 DEF Verdict, Verdicts
<1> QED  BY <1>1, <1>2

LEMMA SummaryAddType ==
    ASSUME TypeOK, pos <= Len(queue), NEW failure \in Failures, SummaryAdd(failure)
    PROVE  summary' \in [Critical .. Info -> Seq(Entry)]
<1> DEFINE i == SummaryIndex(failure.level)
           e == [test |-> Current, text |-> failure.text]
<1>1. i \in Critical .. Info
  BY DEF SummaryIndex, Critical, Low, Info
<1>2. e \in Entry
  BY CurrentType, RunnerAssumption DEF Entry, Failure
<1>3. summary[i] \in Seq(Entry)
  BY <1>1 DEF TypeOK
<1>4. Append(summary[i], e) \in Seq(Entry)
  BY <1>2, <1>3
<1>5. summary' = summary \/ summary' = [summary EXCEPT ![i] = Append(@, e)]
  BY DEF SummaryAdd
<1> HIDE DEF i, e
<1> QED  BY <1>1, <1>3, <1>4, <1>5 DEF TypeOK

-----------------------------------------------------------------------------
LEMMA TypeInit == Init => TypeInv
<1> SUFFICES ASSUME Init PROVE TypeInv
  OBVIOUS
<1>1. queue \in Seq(Tests) /\ Len(queue) \in Nat
  BY RunnerAssumption DEF Init
<1>2. summary \in [Critical .. Info -> Seq(Entry)]
  BY DEF Init
<1>3. results \in [Tests -> Results] /\ minorRes \in Results /\ total \in Results
  BY ZeroType DEF Init
<1>4. MinorNumOK
  BY DEF Init, MinorNumOK
<1>5. logs \in 0 .. MaxLogs /\ pos \in 1 .. Len(queue) + 1 /\ minorNum \in Nat
  BY <1>1, RunnerAssumption DEF Init
<1>6. verdict \in Verdicts /\ pc \in PCs /\ pc = "pick"
  BY DEF Init, Verdicts, PCs
<1> QED
  BY <1>2, <1>3, <1>4, <1>5, <1>6 DEF Init, TypeInv, TypeOK

LEMMA TypeNext == TypeInv /\ [Next]_vars => TypeInv'
<1> SUFFICES ASSUME TypeInv, [Next]_vars PROVE TypeInv'
  OBVIOUS
<1> USE DEF TypeInv
<1>q. queue \in Seq(Tests) /\ Len(queue) \in Nat
  BY RunnerAssumption DEF TypeOK
<1>z. 0 \in 0 .. MaxLogs
  BY RunnerAssumption
<1>w. ASSUME NEW field \in Fields, pos <= Len(queue), WriteOff(field)
      PROVE  TypeInv'
  <2>1. Add(results[Current], field, Minors[Current]) \in Results
        /\ Add(total, field, Minors[Current]) \in Results
    BY <1>w, CurrentType, AddType DEF TypeOK
  <2> QED
    BY <2>1, <1>w, <1>q, CurrentType
    DEF WriteOff, TypeOK, MinorNumOK, PCs, histVars, Current
<1>1. CASE StartTest
  BY <1>1, <1>q, CurrentType, ZeroType
  DEF StartTest, TypeOK, MinorNumOK, PCs, Verdicts, Current
<1>2. CASE RefuseRoot
  BY <1>2, <1>w DEF RefuseRoot, TypeOK, Fields
<1>3. CASE SkipFeatures
  BY <1>3, <1>w DEF SkipFeatures, TypeOK, Fields
<1>4. CASE PassGates
  <2>1. pos <= Len(queue) /\ Current \in Tests /\ Minors[Current] \in Nat
    BY <1>4, CurrentType DEF PassGates, TypeOK
  <2> QED
    BY <2>1, <1>4, <1>q, <1>z
    DEF PassGates, TypeOK, MinorNumOK, PCs, Current
<1>5. CASE InitReturnsOk
  <2>1. pos <= Len(queue) /\ Current \in Tests /\ Minors[Current] \in Nat
    BY <1>5, CurrentType DEF InitReturnsOk, TypeOK
  <2> QED
    BY <2>1, <1>5, <1>q DEF InitReturnsOk, TypeOK, MinorNumOK, PCs, Current
<1>6. CASE InitReturnsSkip
  BY <1>6, <1>w DEF InitReturnsSkip, TypeOK, Fields
<1>7. CASE InitReturnsError
  BY <1>7, <1>w DEF InitReturnsError, TypeOK, Fields
<1>8. ASSUME NEW failure \in Failures, LogFailed(failure)
      PROVE  TypeInv'
  <2>1. pos <= Len(queue) /\ Current \in Tests
    BY <1>8, CurrentType DEF LogFailed, InCallback, TypeOK
  <2>2. Add(minorRes, "failed", 1) \in Results
    BY AddType DEF TypeOK, Fields
  <2>3. failure.level \in Levels /\ failure.text \in Texts /\ failure.newline \in BOOLEAN
    BY RunnerAssumption DEF Failure
  <2>4. SummaryIndex(failure.level) \in Critical .. Info
    BY DEF SummaryIndex, Critical, Low, Info
  <2>5. summary' \in [Critical .. Info -> Seq(Entry)]
    BY <2>1, <1>8, SummaryAddType DEF LogFailed, TypeOK
  <2>6. minorRes' \in Results /\ failedLevel' \subseteq Levels
    BY <2>2, <2>3, <1>8 DEF LogFailed, TypeOK
  <2>7. reported' \subseteq [test : Tests, index : Critical .. Info, text : Texts,
                             newline : BOOLEAN]
    BY <2>1, <2>3, <2>4, <1>8 DEF LogFailed, TypeOK
  <2>8. raised' \subseteq Failures /\ callRaised' \subseteq Failures
    BY <1>8 DEF LogFailed, TypeOK
  <2>9. logs' \in 0 .. MaxLogs
    BY <1>8, RunnerAssumption DEF LogFailed, TypeOK
  <2>10. UNCHANGED <<opts, queue, pos, pc, minorNum, results, total, wasRun,
                     printSummary, status, completed, claimed, owed, live, verdict>>
    BY <1>8 DEF LogFailed
  <2> QED
    BY <2>5, <2>6, <2>7, <2>8, <2>9, <2>10 DEF TypeOK, MinorNumOK, Current
<1>9. ASSUME NEW field \in Fields \ {"failed"}, LogOutcome(field)
      PROVE  TypeInv'
  <2>1. minorRes' \in Results
    BY <1>9, AddType DEF LogOutcome, TypeOK
  <2>2. logs' \in 0 .. MaxLogs
    BY <1>9, RunnerAssumption DEF LogOutcome, TypeOK
  <2> QED
    BY <1>9, <2>1, <2>2 DEF LogOutcome, TypeOK, MinorNumOK, Current, histVars
<1>10. CASE CallMinor
  <2>1. pos <= Len(queue) /\ Minors[Current] \in Nat
    BY <1>10, CurrentType DEF CallMinor, TypeOK
  <2> QED
    BY <2>1, <1>10, <1>z, ZeroType
    DEF CallMinor, TypeOK, MinorNumOK, PCs, Current
<1>11. CASE MinorReturns
  <2>1. pos <= Len(queue) /\ Current \in Tests /\ Minors[Current] \in Nat
    BY <1>11, CurrentType DEF MinorReturns, TypeOK
  <2>2. Plus(results[Current], minorRes) \in Results
    BY <2>1, PlusType DEF TypeOK
  <2>3. minorRes["aborted"] \in Nat /\ minorRes["skipped"] \in Nat
    BY DEF TypeOK, Results, Fields
  <2>4. owed' \in BOOLEAN
    BY <1>11, Zenon DEF MinorReturns
  <2>5. pc' = "next" /\ minorNum' = minorNum + 1 /\ minorNum \in 1 .. Minors[Current]
    BY <1>11 DEF MinorReturns, MinorNumOK
  <2>6. results' \in [Tests -> Results] /\ completed' \in Nat /\ claimed' \in Nat
    BY <2>1, <2>2, <2>3, <1>11 DEF MinorReturns, TypeOK
  <2>7. UNCHANGED <<opts, queue, pos, minorRes, total, failedLevel, wasRun,
                    printSummary, summary, status, logs, raised, callRaised, reported,
                    live, verdict>>
    BY <1>11 DEF MinorReturns
  <2> QED
    BY <2>1, <2>4, <2>5, <2>6, <2>7 DEF TypeOK, MinorNumOK, PCs, Current
<1>12. CASE MinorAborts
  <2>1. pos <= Len(queue) /\ Current \in Tests /\ Minors[Current] \in Nat
    BY <1>12, CurrentType DEF MinorAborts, TypeOK
  <2>2. WrittenOff \in Nat
    BY <2>1, <1>12 DEF MinorAborts, WrittenOff, MinorNumOK
  <2>3. Add(results[Current], "aborted", WrittenOff) \in Results
    BY <2>1, <2>2, AddType DEF TypeOK, Fields
  <2> QED
    BY <2>1, <2>3, <1>12
    DEF MinorAborts, TypeOK, MinorNumOK, PCs, Current, histVars
<1>13. CASE EndMinors
  <2>1. pos <= Len(queue) /\ Current \in Tests
    BY <1>13, CurrentType DEF EndMinors, TypeOK
  <2>2. Plus(total, results[Current]) \in Results
    BY <2>1, PlusType DEF TypeOK
  <2> QED
    BY <2>1, <2>2, <1>13, <1>z DEF EndMinors, TypeOK, MinorNumOK, PCs
<1>14. CASE DeinitReturns
  BY <1>14 DEF DeinitReturns, TypeOK, MinorNumOK, PCs
<1>15. CASE FinishTest
  <2>1. pos <= Len(queue) /\ Current \in Tests
    BY <1>15, CurrentType DEF FinishTest, TypeOK
  <2>2. Verdict(results[Current], failedLevel) \in Verdicts
    BY <2>1, VerdictType DEF TypeOK
  <2> QED
    BY <2>1, <2>2, <1>15, <1>q DEF FinishTest, TypeOK, MinorNumOK, PCs
<1>16. CASE Finish
  BY <1>16 DEF Finish, TypeOK, MinorNumOK, PCs, histVars
<1>17. CASE UNCHANGED vars
  BY <1>17 DEF vars, fwVars, histVars, TypeOK, MinorNumOK, Current
<1> QED
  BY <1>1, <1>2, <1>3, <1>4, <1>5, <1>6, <1>7, <1>8, <1>9, <1>10, <1>11, <1>12,
     <1>13, <1>14, <1>15, <1>16, <1>17 DEF Next, Terminating

LEMMA TypeInvariant == Spec => []TypeInv
BY TypeInit, TypeNext, PTL DEF Spec

(* Every field of the framework keeps its type: in particular the count of   *)
(* minor tests that an aborting one writes off is never negative.            *)
THEOREM TypeCorrect == Spec => []TypeOK
<1>1. TypeInv => TypeOK
  BY DEF TypeInv
<1> QED  BY <1>1, TypeInvariant, PTL

-----------------------------------------------------------------------------
(* SectionsBalanced is inductive: the stack is a function of the place in    *)
(* the code, and every step moves both alike.                                *)
LEMMA SectionsNext ==
    TypeInv /\ SectionsBalanced /\ [Next]_vars => SectionsBalanced'
<1> SUFFICES ASSUME TypeInv, SectionsBalanced, [Next]_vars
             PROVE  SectionsBalanced'
  OBVIOUS
<1> DEFINE c == Current
           Top     == <<"tests">>
           Test    == <<c, "tests">>
           Loop    == <<"subtests", c, "tests">>
           Minor   == <<"subtest_results", "subtest", "subtests", c, "tests">>
           Names   == {c, "tests", "subtests", "subtest", "subtest_results"}
<1>t1. Tail(Top) = <<>> /\ Tail(Test) = Top /\ Tail(Loop) = Test
  OBVIOUS
<1>t2. Tail(Tail(Minor)) = Loop
  <2>1. Tail(Minor) = <<"subtest", "subtests", c, "tests">>
    OBVIOUS
  <2>2. Tail(<<"subtest", "subtests", c, "tests">>) = Loop
    OBVIOUS
  <2> QED  BY <2>1, <2>2
<1>t3. <<c>> \o Top = Test
  <2>1. <<c>> \in Seq(Names) /\ Top \in Seq(Names) /\ Test \in Seq(Names)
    OBVIOUS
  <2>2. Len(<<c>>) = 1 /\ Len(Top) = 1 /\ Len(Test) = 2
    OBVIOUS
  <2>3. /\ <<c>> \o Top \in Seq(Names)
        /\ Len(<<c>> \o Top) = 2
        /\ \A i \in 1 .. 2 : (<<c>> \o Top)[i] =
              IF i <= 1 THEN <<c>>[i] ELSE Top[i - 1]
    BY <2>1, <2>2, ConcatProperties
  <2>4. \A i \in 1 .. 2 : (<<c>> \o Top)[i] = Test[i]
    BY <2>3
  <2> QED  BY <2>1, <2>2, <2>3, <2>4, SeqEqual
<1>t4. <<"subtests">> \o Test = Loop
  <2>1. <<"subtests">> \in Seq(Names) /\ Test \in Seq(Names) /\ Loop \in Seq(Names)
    OBVIOUS
  <2>2. Len(<<"subtests">>) = 1 /\ Len(Test) = 2 /\ Len(Loop) = 3
    OBVIOUS
  <2>3. /\ <<"subtests">> \o Test \in Seq(Names)
        /\ Len(<<"subtests">> \o Test) = 3
        /\ \A i \in 1 .. 3 : (<<"subtests">> \o Test)[i] =
              IF i <= 1 THEN <<"subtests">>[i] ELSE Test[i - 1]
    BY <2>1, <2>2, ConcatProperties
  <2>4. \A i \in 1 .. 3 : (<<"subtests">> \o Test)[i] = Loop[i]
    BY <2>3
  <2> QED  BY <2>1, <2>2, <2>3, <2>4, SeqEqual
<1>t5. <<"subtest_results", "subtest">> \o Loop = Minor
  <2>1. <<"subtest_results", "subtest">> \in Seq(Names) /\ Loop \in Seq(Names) /\ Minor \in Seq(Names)
    OBVIOUS
  <2>2. Len(<<"subtest_results", "subtest">>) = 2 /\ Len(Loop) = 3 /\ Len(Minor) = 5
    OBVIOUS
  <2>3. /\ <<"subtest_results", "subtest">> \o Loop \in Seq(Names)
        /\ Len(<<"subtest_results", "subtest">> \o Loop) = 5
        /\ \A i \in 1 .. 5 : (<<"subtest_results", "subtest">> \o Loop)[i] =
              IF i <= 2 THEN <<"subtest_results", "subtest">>[i] ELSE Loop[i - 2]
    BY <2>1, <2>2, ConcatProperties
  <2>4. \A i \in 1 .. 5 : (<<"subtest_results", "subtest">> \o Loop)[i] = Minor[i]
    BY <2>3
  <2> QED  BY <2>1, <2>2, <2>3, <2>4, SeqEqual
<1>t. /\ Tail(Top) = <<>> /\ Tail(Test) = Top /\ Tail(Loop) = Test
      /\ Tail(Tail(Minor)) = Loop
      /\ <<c>> \o Top = Test /\ <<"subtests">> \o Test = Loop
      /\ <<"subtest_results", "subtest">> \o Loop = Minor
  BY <1>t1, <1>t2, <1>t3, <1>t4, <1>t5
<1>s. /\ pc = "pick" => sections = Top
      /\ pc \in {"gate", "init", "deinit", "done"} => sections = Test
      /\ pc \in {"next", "tally"} => sections = Loop
      /\ pc = "minor" => sections = Minor
      /\ pc = "exit" => sections = <<>>
  BY DEF SectionsBalanced
<1>g. ASSUME UNCHANGED <<queue, pos>>,
             \/ pc' \in {"gate", "init", "deinit", "done"} /\ sections' = Test
             \/ pc' \in {"next", "tally"} /\ sections' = Loop
             \/ pc' = "minor" /\ sections' = Minor
             \/ pc' = "exit" /\ sections' = <<>>
      PROVE  SectionsBalanced'
  BY <1>g DEF SectionsBalanced, Current
<1> HIDE DEF Top, Test, Loop, Minor, c
<1>w. ASSUME NEW field, pc \in {"gate", "init"}, WriteOff(field)
      PROVE  SectionsBalanced'
  BY <1>w, <1>s, <1>g DEF WriteOff, histVars
<1>1. CASE StartTest
  BY <1>1, <1>s, <1>t, <1>g DEF StartTest, c
<1>2. CASE RefuseRoot
  BY <1>2, <1>w DEF RefuseRoot
<1>3. CASE SkipFeatures
  BY <1>3, <1>w DEF SkipFeatures
<1>4. CASE PassGates
  BY <1>4, <1>s, <1>t, <1>g DEF PassGates
<1>5. CASE InitReturnsOk
  BY <1>5, <1>s, <1>t, <1>g DEF InitReturnsOk
<1>6. CASE InitReturnsSkip
  BY <1>6, <1>w DEF InitReturnsSkip
<1>7. CASE InitReturnsError
  BY <1>7, <1>w DEF InitReturnsError
<1>8. ASSUME NEW failure \in Failures, LogFailed(failure)
      PROVE  SectionsBalanced'
  BY <1>8 DEF LogFailed, SectionsBalanced, Current
<1>9. ASSUME NEW field \in Fields \ {"failed"}, LogOutcome(field)
      PROVE  SectionsBalanced'
  BY <1>9 DEF LogOutcome, SectionsBalanced, Current
<1>10. CASE CallMinor
  BY <1>10, <1>s, <1>t, <1>g DEF CallMinor
<1>11. CASE MinorReturns
  BY <1>11, <1>s, <1>t, <1>g DEF MinorReturns
<1>12. CASE MinorAborts
  BY <1>12, <1>s, <1>t, <1>g DEF MinorAborts
<1>13. CASE EndMinors
  BY <1>13, <1>s, <1>t, <1>g DEF EndMinors
<1>14. CASE DeinitReturns
  BY <1>14, <1>s, <1>g DEF DeinitReturns
<1>15. CASE FinishTest
  <2>1. pc' = "pick" /\ sections' = <<"tests">>
    BY <1>15, <1>s, <1>t DEF FinishTest, Top
  <2> QED
    BY <2>1 DEF SectionsBalanced
<1>16. CASE Finish
  BY <1>16, <1>s, <1>t, <1>g DEF Finish
<1>17. CASE UNCHANGED vars
  BY <1>17 DEF vars, fwVars, SectionsBalanced, Current
<1> QED
  BY <1>1, <1>2, <1>3, <1>4, <1>5, <1>6, <1>7, <1>8, <1>9, <1>10, <1>11, <1>12,
     <1>13, <1>14, <1>15, <1>16, <1>17 DEF Next, Terminating

(* On every path through a test, and for every list of tests, the sections   *)
(* of the results log are closed in the order they were opened.              *)
THEOREM SectionsCorrect == Spec => []SectionsBalanced
<1>1. Init => SectionsBalanced
  BY DEF Init, SectionsBalanced
<1> QED  BY <1>1, SectionsNext, TypeInvariant, PTL DEF Spec

-----------------------------------------------------------------------------
LEMMA LiveNext == TypeInv /\ InitDeinitPaired /\ [Next]_vars => InitDeinitPaired'
<1> SUFFICES ASSUME TypeInv, InitDeinitPaired, [Next]_vars
             PROVE  InitDeinitPaired'
  OBVIOUS
<1> USE DEF InitDeinitPaired, Current
<1>w. ASSUME NEW field, pc \in {"gate", "init"}, WriteOff(field)
      PROVE  InitDeinitPaired'
  BY <1>w DEF WriteOff, histVars
<1>1. CASE StartTest
  BY <1>1 DEF StartTest
<1>2. CASE RefuseRoot
  BY <1>2, <1>w DEF RefuseRoot
<1>3. CASE SkipFeatures
  BY <1>3, <1>w DEF SkipFeatures
<1>4. CASE PassGates
  BY <1>4 DEF PassGates
<1>5. CASE InitReturnsOk
  BY <1>5 DEF InitReturnsOk
<1>6. CASE InitReturnsSkip
  BY <1>6, <1>w DEF InitReturnsSkip
<1>7. CASE InitReturnsError
  BY <1>7, <1>w DEF InitReturnsError
<1>8. ASSUME NEW failure \in Failures, LogFailed(failure)
      PROVE  InitDeinitPaired'
  BY <1>8 DEF LogFailed
<1>9. ASSUME NEW field \in Fields \ {"failed"}, LogOutcome(field)
      PROVE  InitDeinitPaired'
  BY <1>9 DEF LogOutcome, histVars
<1>10. CASE CallMinor
  BY <1>10 DEF CallMinor
<1>11. CASE MinorReturns
  BY <1>11 DEF MinorReturns
<1>12. CASE MinorAborts
  BY <1>12 DEF MinorAborts, histVars
<1>13. CASE EndMinors
  BY <1>13 DEF EndMinors
<1>14. CASE DeinitReturns
  BY <1>14 DEF DeinitReturns
<1>15. CASE FinishTest
  BY <1>15 DEF FinishTest
<1>16. CASE Finish
  BY <1>16 DEF Finish, histVars
<1>17. CASE UNCHANGED vars
  BY <1>17 DEF vars, fwVars, histVars
<1> QED
  BY <1>1, <1>2, <1>3, <1>4, <1>5, <1>6, <1>7, <1>8, <1>9, <1>10, <1>11, <1>12,
     <1>13, <1>14, <1>15, <1>16, <1>17 DEF Next, Terminating

(* deinit() runs exactly once for each test that was set up, whichever way   *)
(* its minor tests ended, and never for one that was not.                    *)
THEOREM InitDeinitCorrect == Spec => []InitDeinitPaired
<1>1. Init => InitDeinitPaired
  BY DEF Init, InitDeinitPaired
<1> QED  BY <1>1, LiveNext, TypeInvariant, PTL DEF Spec

-----------------------------------------------------------------------------
(* The accounts of the current test at every place of the code: nothing yet  *)
(* before the loop, one minor test completed per turn of the loop, and all   *)
(* of them settled once the loop is left or was never entered.               *)
Claims(r) == r["aborted"] + r["skipped"]

Accounts ==
    /\ pc \in {"gate", "init"} =>
          completed = 0 /\ claimed = 0 /\ Claims(results[Current]) = 0
    /\ pc \in {"next", "minor"} =>
          completed = minorNum - 1 /\ Claims(results[Current]) = claimed
    /\ pc \in {"tally", "deinit", "done"} =>
          Claims(results[Current]) + completed = Minors[Current] + claimed

LEMMA ClaimsAdd ==
    ASSUME NEW r \in Results, NEW field \in {"aborted", "skipped"}, NEW n \in Nat
    PROVE  Claims(Add(r, field, n)) = Claims(r) + n
<1>1. r["aborted"] \in Nat /\ r["skipped"] \in Nat
  BY DEF Results, Fields
<1>2. CASE field = "aborted"
  <2>1. Add(r, field, n)["aborted"] = r["aborted"] + n
    BY <1>2, AddType DEF Fields
  <2>2. Add(r, field, n)["skipped"] = r["skipped"]
    BY <1>2, AddType DEF Fields
  <2> QED  BY <1>1, <2>1, <2>2 DEF Claims
<1>3. CASE field = "skipped"
  <2>1. Add(r, field, n)["skipped"] = r["skipped"] + n
    BY <1>3, AddType DEF Fields
  <2>2. Add(r, field, n)["aborted"] = r["aborted"]
    BY <1>3, AddType DEF Fields
  <2> QED  BY <1>1, <2>1, <2>2 DEF Claims
<1> QED  BY <1>2, <1>3

LEMMA ClaimsPlus ==
    ASSUME NEW r \in Results, NEW s \in Results
    PROVE  Claims(Plus(r, s)) = Claims(r) + Claims(s)
<1>1. /\ r["aborted"] \in Nat /\ r["skipped"] \in Nat
      /\ s["aborted"] \in Nat /\ s["skipped"] \in Nat
  BY DEF Results, Fields
<1>2. /\ Plus(r, s)["aborted"] = r["aborted"] + s["aborted"]
      /\ Plus(r, s)["skipped"] = r["skipped"] + s["skipped"]
  BY PlusType DEF Fields
<1> QED  BY <1>1, <1>2 DEF Claims

LEMMA AccountsNext == TypeInv /\ Accounts /\ [Next]_vars => Accounts'
<1> SUFFICES ASSUME TypeInv, Accounts, [Next]_vars
             PROVE  Accounts'
  OBVIOUS
<1>c. ASSUME pc \notin {"pick", "exit"}
      PROVE  /\ Current \in Tests
             /\ Minors[Current] \in Nat
             /\ results[Current] \in Results
             /\ Claims(results[Current]) \in Nat
  <2>1. Current \in Tests /\ Minors[Current] \in Nat
    BY <1>c, CurrentType DEF TypeInv, TypeOK
  <2>2. results[Current] \in Results
    BY <2>1 DEF TypeInv, TypeOK
  <2>3. results[Current]["aborted"] \in Nat /\ results[Current]["skipped"] \in Nat
    BY <2>2 DEF Results, Fields
  <2> QED  BY <2>1, <2>2, <2>3 DEF Claims
<1>n. /\ completed \in Nat /\ claimed \in Nat /\ minorNum \in Nat
      /\ minorRes \in Results /\ results \in [Tests -> Results]
  BY DEF TypeInv, TypeOK
<1>w. ASSUME NEW field \in {"aborted", "skipped"}, pc \in {"gate", "init"},
             WriteOff(field)
      PROVE  Accounts'
  <2>1. Current' = Current /\ pc' = "done" /\ UNCHANGED <<completed, claimed>>
    BY <1>w DEF WriteOff, histVars, Current
  <2>2. results'[Current] = Add(results[Current], field, Minors[Current])
    BY <1>w, <1>c, <1>n DEF WriteOff
  <2>3. Claims(results'[Current]) = Claims(results[Current]) + Minors[Current]
    BY <2>2, <1>w, <1>c, ClaimsAdd
  <2>4. completed = 0 /\ claimed = 0 /\ Claims(results[Current]) = 0
    BY <1>w DEF Accounts
  <2>5. Claims(results'[Current']) + completed' = Minors[Current'] + claimed'
    BY <2>1, <2>3, <2>4, <1>c, <1>w
  <2> QED  BY <2>1, <2>5 DEF Accounts
<1>u. ASSUME UNCHANGED <<queue, pos, pc, minorNum, results, completed, claimed>>
      PROVE  Accounts'
  <2>1. Current' = Current
    BY <1>u DEF Current
  <2> QED  BY <2>1, <1>u DEF Accounts
<1>1. CASE StartTest
  <2>1. Current \in Tests /\ Current' = Current
    BY <1>1, CurrentType DEF StartTest, TypeInv, Current
  <2>2. results'[Current'] = Zero
    BY <2>1, <1>1, <1>n DEF StartTest
  <2>3. Claims(Zero) = 0
    BY ZeroType DEF Claims, Fields
  <2>4. completed' = 0 /\ claimed' = 0 /\ pc' = "gate"
    BY <1>1, <1>n DEF StartTest
  <2>5. Claims(results'[Current']) = 0
    BY <2>2, <2>3
  <2> QED  BY <2>4, <2>5 DEF Accounts
<1>2. CASE RefuseRoot
  BY <1>2, <1>w DEF RefuseRoot
<1>3. CASE SkipFeatures
  BY <1>3, <1>w DEF SkipFeatures
<1>4. CASE PassGates
  <2>1. /\ Current' = Current /\ pc \in {"gate", "init"} /\ pc' \in {"init", "next"}
        /\ UNCHANGED <<minorNum, results, completed, claimed>>
    BY <1>4 DEF PassGates, Current
  <2>2. minorNum = 1
    BY <2>1 DEF TypeInv, MinorNumOK
  <2> QED  BY <2>1, <2>2 DEF Accounts
<1>5. CASE InitReturnsOk
  <2>1. /\ Current' = Current /\ pc \in {"gate", "init"} /\ pc' \in {"init", "next"}
        /\ UNCHANGED <<minorNum, results, completed, claimed>>
    BY <1>5 DEF InitReturnsOk, Current
  <2>2. minorNum = 1
    BY <2>1 DEF TypeInv, MinorNumOK
  <2> QED  BY <2>1, <2>2 DEF Accounts
<1>6. CASE InitReturnsSkip
  BY <1>6, <1>w DEF InitReturnsSkip
<1>7. CASE InitReturnsError
  BY <1>7, <1>w DEF InitReturnsError
<1>8. ASSUME NEW failure \in Failures, LogFailed(failure)
      PROVE  Accounts'
  BY <1>8, <1>u DEF LogFailed
<1>9. ASSUME NEW field \in Fields \ {"failed"}, LogOutcome(field)
      PROVE  Accounts'
  BY <1>9, <1>u DEF LogOutcome, histVars
<1>10. CASE CallMinor
  <2>1. /\ Current' = Current /\ pc = "next" /\ pc' = "minor"
        /\ UNCHANGED <<minorNum, results, completed, claimed>>
    BY <1>10 DEF CallMinor, Current
  <2> QED  BY <2>1 DEF Accounts
<1>11. CASE MinorReturns
  <2>1. /\ Current' = Current /\ pc' = "next"
        /\ minorNum' = minorNum + 1 /\ completed' = completed + 1
        /\ claimed' = claimed + minorRes["aborted"] + minorRes["skipped"]
    BY <1>11 DEF MinorReturns, Current
  <2>2. results'[Current] = Plus(results[Current], minorRes)
    BY <1>11, <1>c, <1>n DEF MinorReturns
  <2>3. Claims(results'[Current']) = Claims(results[Current]) + Claims(minorRes)
    BY <2>1, <2>2, <1>11, <1>c, <1>n, ClaimsPlus DEF MinorReturns
  <2>4. completed = minorNum - 1 /\ Claims(results[Current]) = claimed
    BY <1>11 DEF MinorReturns, Accounts
  <2>5. minorRes["aborted"] \in Nat /\ minorRes["skipped"] \in Nat
    BY <1>n DEF Results, Fields
  <2>6. completed' = minorNum' - 1 /\ Claims(results'[Current']) = claimed'
    BY <2>1, <2>3, <2>4, <2>5, <1>n DEF Claims
  <2> QED  BY <2>1, <2>6 DEF Accounts
<1>12. CASE MinorAborts
  <2>1. Current' = Current /\ pc' = "tally" /\ UNCHANGED <<completed, claimed>>
    BY <1>12 DEF MinorAborts, Current, histVars
  <2>2. WrittenOff \in Nat /\ WrittenOff = Minors[Current] - (minorNum - 1)
    BY <1>12, <1>c DEF MinorAborts, WrittenOff, TypeInv, MinorNumOK
  <2>3. results'[Current] = Add(results[Current], "aborted", WrittenOff)
    BY <1>12, <1>c, <1>n DEF MinorAborts
  <2>4. Claims(results'[Current']) = Claims(results[Current]) + WrittenOff
    BY <2>1, <2>2, <2>3, <1>12, <1>c, ClaimsAdd DEF MinorAborts
  <2>5. completed = minorNum - 1 /\ Claims(results[Current]) = claimed
    BY <1>12 DEF MinorAborts, Accounts
  <2>6. Claims(results'[Current']) + completed' = Minors[Current'] + claimed'
    BY <2>1, <2>2, <2>4, <2>5, <1>12, <1>c, <1>n DEF MinorAborts
  <2> QED  BY <2>1, <2>6 DEF Accounts
<1>13. CASE EndMinors
  <2>1. Current' = Current /\ UNCHANGED <<results, completed, claimed>>
        /\ pc' \in {"deinit", "done"}
    BY <1>13 DEF EndMinors, Current
  <2>2. Claims(results[Current]) + completed = Minors[Current] + claimed
    <3>1. CASE pc = "tally"
      BY <3>1 DEF Accounts
    <3>2. CASE pc = "next" /\ minorNum > Minors[Current]
      <4>1. minorNum = Minors[Current] + 1
        BY <3>2, <1>c DEF TypeInv, MinorNumOK
      <4>2. completed = minorNum - 1 /\ Claims(results[Current]) = claimed
        BY <3>2 DEF Accounts
      <4> QED  BY <4>1, <4>2, <3>2, <1>c, <1>n
    <3> QED  BY <3>1, <3>2, <1>13 DEF EndMinors
  <2> QED  BY <2>1, <2>2 DEF Accounts
<1>14. CASE DeinitReturns
  <2>1. /\ Current' = Current /\ pc = "deinit" /\ pc' = "done"
        /\ UNCHANGED <<results, completed, claimed>>
    BY <1>14 DEF DeinitReturns, Current
  <2> QED  BY <2>1 DEF Accounts
<1>15. CASE FinishTest
  BY <1>15 DEF FinishTest, Accounts
<1>16. CASE Finish
  BY <1>16 DEF Finish, Accounts
<1>17. CASE UNCHANGED vars
  BY <1>17, <1>u DEF vars, fwVars, histVars
<1> QED
  BY <1>1, <1>2, <1>3, <1>4, <1>5, <1>6, <1>7, <1>8, <1>9, <1>10, <1>11, <1>12,
     <1>13, <1>14, <1>15, <1>16, <1>17 DEF Next, Terminating

(* When a test is over, however it ended, each of its minor tests either ran *)
(* to its end or is in the count of skipped or aborted ones, exactly once.   *)
THEOREM MinorsAccountedFor == Spec => []MinorsAccounted
<1>1. Init => Accounts
  BY DEF Init, Accounts
<1>2. Accounts => MinorsAccounted
  <2>1. ASSUME Accounts, pc = "done"
        PROVE  Claims(results[Current]) + completed = Minors[Current] + claimed
    BY <2>1 DEF Accounts
  <2> QED  BY <2>1 DEF MinorsAccounted, Claims
<1> QED  BY <1>1, <1>2, AccountsNext, TypeInvariant, PTL DEF Spec

-----------------------------------------------------------------------------
(* A failure that counts is on its way to the exit status: from the counts   *)
(* of the minor test that logged it, through the results of the test, to    *)
(* the total.                                                                *)
Admitted == \E failure \in callRaised : ~Ignored(failure.level)

FailureCarried ==
    /\ pc = "minor" /\ Admitted => minorRes["failed"] > 0
    /\ owed => \/ total["failed"] > 0
               \/ /\ pc \in {"next", "minor", "tally"}
                  /\ results[Current]["failed"] > 0
    /\ status = "success" => pc = "exit" /\ ~(total["failed"] > 0)
LEMMA FailedAdd ==
    ASSUME NEW r \in Results, NEW n \in Nat
    PROVE  /\ r["failed"] \in Nat
           /\ Add(r, "failed", n)["failed"] = r["failed"] + n
           /\ \A field \in Fields \ {"failed"} :
                 Add(r, field, n)["failed"] = r["failed"]
<1>1. "failed" \in Fields
  BY DEF Fields
<1>2. r["failed"] \in Nat
  BY <1>1 DEF Results
<1>3. Add(r, "failed", n)["failed"] = r["failed"] + n
  BY <1>1, AddType
<1>4. ASSUME NEW field \in Fields \ {"failed"}
      PROVE  Add(r, field, n)["failed"] = r["failed"]
  BY <1>1, <1>4, AddType
<1> QED  BY <1>2, <1>3, <1>4

LEMMA CarriedNext == TypeInv /\ FailureCarried /\ [Next]_vars => FailureCarried'
<1> SUFFICES ASSUME TypeInv, FailureCarried, [Next]_vars
             PROVE  FailureCarried'
  OBVIOUS
<1>c. ASSUME pc \notin {"pick", "exit"}
      PROVE  /\ Current \in Tests
             /\ Minors[Current] \in Nat
             /\ results[Current] \in Results
             /\ results[Current]["failed"] \in Nat
  <2>1. Current \in Tests /\ Minors[Current] \in Nat
    BY <1>c, CurrentType DEF TypeInv, TypeOK
  <2>2. results[Current] \in Results
    BY <2>1 DEF TypeInv, TypeOK
  <2> QED  BY <2>1, <2>2, FailedAdd
<1>n. /\ minorRes \in Results /\ total \in Results
      /\ minorRes["failed"] \in Nat /\ total["failed"] \in Nat
      /\ results \in [Tests -> Results]
  BY DEF TypeInv, TypeOK, Results, Fields
<1>r. pc # "exit" => status # "success"
  BY DEF FailureCarried
(* A step that changes none of what the invariant reads, or moves between    *)
(* places where it says the same.                                            *)
<1>u. ASSUME UNCHANGED <<queue, pos, status, total, results, owed>>,
             pc' = pc \/ (pc \notin {"next", "minor", "tally", "exit"} /\ pc' # "minor"),
             pc' = "minor" => UNCHANGED <<opts, callRaised, minorRes>>
      PROVE  FailureCarried'
  <2>1. Current' = Current
    BY <1>u DEF Current
  <2>2. opts' = opts /\ callRaised' = callRaised => Admitted' = Admitted
    BY DEF Admitted, Ignored
  <2> QED  BY <2>1, <2>2, <1>u DEF FailureCarried
<1>w. ASSUME NEW field \in {"aborted", "skipped"}, pc \in {"gate", "init"},
             WriteOff(field)
      PROVE  FailureCarried'
  <2>1. Add(total, field, Minors[Current])["failed"] = total["failed"]
    BY <1>w, <1>c, <1>n, FailedAdd DEF Fields
  <2>2. total'["failed"] = total["failed"] /\ pc' = "done" /\ UNCHANGED <<owed, status>>
    BY <2>1, <1>w DEF WriteOff, histVars
  <2> QED  BY <2>2, <1>w, <1>r DEF FailureCarried
<1>1. CASE StartTest
  <2>1. pc = "pick" /\ pc' = "gate" /\ UNCHANGED <<owed, status, total>>
    BY <1>1 DEF StartTest
  <2> QED  BY <2>1, <1>r DEF FailureCarried
<1>2. CASE RefuseRoot
  BY <1>2, <1>w DEF RefuseRoot
<1>3. CASE SkipFeatures
  BY <1>3, <1>w DEF SkipFeatures
<1>4. CASE PassGates
  BY <1>4, <1>u DEF PassGates
<1>5. CASE InitReturnsOk
  BY <1>5, <1>u DEF InitReturnsOk
<1>6. CASE InitReturnsSkip
  BY <1>6, <1>w DEF InitReturnsSkip
<1>7. CASE InitReturnsError
  BY <1>7, <1>w DEF InitReturnsError
<1>8. ASSUME NEW failure \in Failures, LogFailed(failure)
      PROVE  FailureCarried'
  <2>1. Current' = Current /\ UNCHANGED <<pc, status, total, results, owed, opts>>
    BY <1>8 DEF LogFailed, Current
  <2>2. Admitted' => minorRes'["failed"] > 0 \/ (Admitted /\ minorRes' = minorRes)
    <3>1. CASE FilteredOut(failure.label)
      BY <3>1, <2>1, <1>8 DEF LogFailed, Admitted, Ignored
    <3>2. CASE ~FilteredOut(failure.label) /\ Ignored(failure.level)
      BY <3>2, <2>1, <1>8 DEF LogFailed, Admitted, Ignored
    <3>3. CASE ~FilteredOut(failure.label) /\ ~Ignored(failure.level)
      <4>1. minorRes' = Add(minorRes, "failed", 1)
        BY <3>3, <1>8 DEF LogFailed
      <4>2. minorRes'["failed"] = minorRes["failed"] + 1
        BY <4>1, <1>n, FailedAdd
      <4> QED  BY <4>2, <1>n
    <3> QED  BY <3>1, <3>2, <3>3
  <2> QED  BY <2>1, <2>2 DEF FailureCarried
<1>9. ASSUME NEW field \in Fields \ {"failed"}, LogOutcome(field)
      PROVE  FailureCarried'
  <2>1. Current' = Current /\ UNCHANGED <<pc, status, total, results, owed, opts, callRaised>>
    BY <1>9 DEF LogOutcome, Current, histVars
  <2>2. minorRes'["failed"] = minorRes["failed"]
    BY <1>9, <1>n, FailedAdd DEF LogOutcome
  <2> QED  BY <2>1, <2>2 DEF FailureCarried, Admitted, Ignored
<1>10. CASE CallMinor
  <2>1. /\ Current' = Current /\ pc = "next" /\ pc' = "minor" /\ callRaised' = {}
        /\ UNCHANGED <<status, total, results, owed>>
    BY <1>10 DEF CallMinor, Current
  <2>2. ~Admitted'
    BY <2>1 DEF Admitted
  <2> QED  BY <2>1, <2>2 DEF FailureCarried
<1>11. CASE MinorReturns
  <2>1. /\ Current' = Current /\ pc = "minor" /\ pc' = "next"
        /\ UNCHANGED <<status, total>>
        /\ owed' => owed \/ Admitted
    BY <1>11 DEF MinorReturns, Current, Admitted
  <2>2. results'[Current] = Plus(results[Current], minorRes)
    BY <1>11, <1>c, <1>n DEF MinorReturns
  <2>3. results'[Current']["failed"] = results[Current]["failed"] + minorRes["failed"]
    BY <2>1, <2>2, <1>c, <1>n, PlusType DEF Fields
  <2>4. Admitted => results'[Current']["failed"] > 0
    BY <2>1, <2>3, <1>c, <1>n DEF FailureCarried
  <2>5. results[Current]["failed"] > 0 => results'[Current']["failed"] > 0
    BY <2>1, <2>3, <1>c, <1>n
  <2> QED  BY <2>1, <2>4, <2>5, <1>r DEF FailureCarried
<1>12. CASE MinorAborts
  <2>1. /\ Current' = Current /\ pc = "minor" /\ pc' = "tally"
        /\ UNCHANGED <<status, total, owed>>
    BY <1>12 DEF MinorAborts, Current, histVars
  <2>2. WrittenOff \in Nat
    BY <2>1, <1>c DEF WrittenOff, TypeInv, MinorNumOK
  <2>3. results'[Current] = Add(results[Current], "aborted", WrittenOff)
    BY <1>12, <1>c, <1>n DEF MinorAborts
  <2>4. Add(results[Current], "aborted", WrittenOff)["failed"]
          = results[Current]["failed"]
    <3>1. results[Current] \in Results /\ "aborted" \in Fields \ {"failed"}
      BY <2>1, <1>c DEF Fields
    <3> QED  BY <3>1, <2>2, FailedAdd
  <2> QED  BY <2>1, <2>3, <2>4, <1>r DEF FailureCarried
<1>13. CASE EndMinors
  <2>1. /\ pc \in {"next", "tally"} /\ pc' \in {"deinit", "done"}
        /\ UNCHANGED <<status, owed>> /\ total' = Plus(total, results[Current])
    BY <1>13 DEF EndMinors
  <2>2. total'["failed"] = total["failed"] + results[Current]["failed"]
    BY <2>1, <1>c, <1>n, PlusType DEF Fields
  <2>3. owed' => total'["failed"] > 0
    BY <2>1, <2>2, <1>c, <1>n DEF FailureCarried
  <2> QED  BY <2>1, <2>3, <1>r DEF FailureCarried
<1>14. CASE DeinitReturns
  BY <1>14, <1>u DEF DeinitReturns
<1>15. CASE FinishTest
  <2>1. pc = "done" /\ pc' = "pick" /\ UNCHANGED <<owed, status, total>>
    BY <1>15 DEF FinishTest
  <2> QED  BY <2>1, <1>r DEF FailureCarried
<1>16. CASE Finish
  <2>1. /\ pc = "pick" /\ pc' = "exit" /\ UNCHANGED <<owed, total>>
        /\ status' = IF RunFailed THEN "failure" ELSE "success"
    BY <1>16 DEF Finish, histVars
  <2> QED  BY <2>1 DEF FailureCarried, RunFailed
<1>17. CASE UNCHANGED vars
  BY <1>17, <1>u DEF vars, fwVars, histVars
<1> QED
  BY <1>1, <1>2, <1>3, <1>4, <1>5, <1>6, <1>7, <1>8, <1>9, <1>10, <1>11, <1>12,
     <1>13, <1>14, <1>15, <1>16, <1>17 DEF Next, Terminating

(* A run in which a minor test completed and had logged a failure at a      *)
(* level the user asked for never exits with success.                        *)
THEOREM FailuresReachTheStatus == Spec => []CountedFailuresFailTheRun
<1>1. Init => FailureCarried
  BY DEF Init, FailureCarried
<1>2. FailureCarried => CountedFailuresFailTheRun
  BY DEF FailureCarried, CountedFailuresFailTheRun
<1> QED  BY <1>1, <1>2, CarriedNext, TypeInvariant, PTL DEF Spec

-----------------------------------------------------------------------------
(* The verdict of a test: while it runs there is none, and fw->failed_level  *)
(* has the levels of what it logged.                                        *)
VerdictInv ==
    /\ failedLevel = {failure.level : failure \in raised}
    /\ pc \notin {"pick", "exit"} => verdict = "none"
    /\ VerdictIsHighestLogged

LEMMA FailedWords ==
    /\ \A l \in Critical .. Low : FailedWord[l] # "none"
    /\ \A l, m \in Critical .. Low : FailedWord[l] = FailedWord[m] => l = m
    /\ \A l \in Critical .. Low :
         FailedWord[l] \notin {"FAILED", "SKIPPED", "WARNING", "ABORTED", "PASSED"}
<1>1. \A l \in Critical .. Low : l \in {1, 2, 3, 4}
  BY DEF Critical, Low
<1>2. /\ FailedWord[1] = "FAILED_CRITICAL" /\ FailedWord[2] = "FAILED_HIGH"
      /\ FailedWord[3] = "FAILED_MEDIUM" /\ FailedWord[4] = "FAILED_LOW"
  BY DEF FailedWord
<1> QED  BY <1>1, <1>2

\* The word with a level names the least, that is the most severe, level.
LEMMA VerdictLevel ==
    ASSUME NEW res, NEW levels \in SUBSET Levels, NEW l \in Critical .. Low,
           Verdict(res, levels) = FailedWord[l]
    PROVE  l \in levels /\ \A m \in levels : m = None \/ l <= m
<1> DEFINE named == levels \cap (Critical .. Low)
           least == CHOOSE k \in named : \A m \in named : k <= m
<1>1. named # {} /\ Verdict(res, levels) = FailedWord[least]
  BY FailedWords DEF Verdict
<1>2. \E k \in named : \A m \in named : k <= m
  <2>1. named \subseteq {1, 2, 3, 4}
    BY DEF Critical, Low
  <2>2. CASE 1 \in named
    BY <2>1, <2>2
  <2>3. CASE 1 \notin named /\ 2 \in named
    BY <2>1, <2>3
  <2>4. CASE 1 \notin named /\ 2 \notin named /\ 3 \in named
    BY <2>1, <2>4
  <2>5. CASE 1 \notin named /\ 2 \notin named /\ 3 \notin named
    BY <2>1, <2>5, <1>1
  <2> QED  BY <2>2, <2>3, <2>4, <2>5
<1>3. least \in named /\ \A m \in named : least <= m
  BY <1>2
<1> HIDE DEF least
<1>4. least = l
  BY <1>1, <1>3, FailedWords
<1>5. ASSUME NEW m \in levels, m # None PROVE l <= m
  <2>1. m \in Critical .. Low \/ m = 5
    BY <1>5 DEF Levels, None, Critical, Low, Info
  <2>2. l \in 1 .. 4
    BY DEF Critical, Low
  <2> QED  BY <1>3, <1>4, <2>1, <2>2
<1> QED  BY <1>3, <1>4, <1>5

LEMMA VerdictNext == TypeInv /\ VerdictInv /\ [Next]_vars => VerdictInv'
<1> SUFFICES ASSUME TypeInv, VerdictInv, [Next]_vars
             PROVE  VerdictInv'
  OBVIOUS
(* Elsewhere nothing is logged, and the verdict stays.                      *)
<1>u. ASSUME UNCHANGED <<failedLevel, raised, verdict>>, pc \notin {"pick", "exit"}, pc' # "pick"
      PROVE  VerdictInv'
  BY <1>u DEF VerdictInv, VerdictIsHighestLogged
<1>1. CASE StartTest
  <2>1. failedLevel' = {} /\ raised' = {} /\ pc' = "gate" /\ verdict' = "none"
    BY <1>1 DEF StartTest
  <2> QED  BY <2>1 DEF VerdictInv, VerdictIsHighestLogged
<1>2. CASE RefuseRoot \/ SkipFeatures \/ InitReturnsSkip \/ InitReturnsError
  <2>1. UNCHANGED <<failedLevel, raised, verdict>> /\ pc \in {"gate", "init"} /\ pc' = "done"
    BY <1>2 DEF RefuseRoot, SkipFeatures, InitReturnsSkip, InitReturnsError, WriteOff, histVars
  <2> QED  BY <1>u, <2>1
<1>3. CASE PassGates \/ InitReturnsOk \/ CallMinor \/ MinorReturns \/ MinorAborts \/ EndMinors
           \/ DeinitReturns
  <2>1. UNCHANGED <<failedLevel, raised, verdict>> /\ pc \notin {"pick", "exit"} /\ pc' # "pick"
    BY <1>3 DEF PassGates, InitReturnsOk, CallMinor, MinorReturns, MinorAborts, EndMinors,
                DeinitReturns, histVars
  <2> QED  BY <1>u, <2>1
<1>4. ASSUME NEW failure \in Failures, LogFailed(failure)
      PROVE  VerdictInv'
  <2>1. /\ pc \notin {"pick", "exit"} /\ pc' = pc /\ verdict' = verdict
        /\ \/ UNCHANGED <<failedLevel, raised>>
           \/ failedLevel' = failedLevel \cup {failure.level} /\ raised' = raised \cup {failure}
    BY <1>4 DEF LogFailed, InCallback
  <2>2. failedLevel' = {f.level : f \in raised'}
    BY <2>1 DEF VerdictInv
  <2> QED  BY <2>1, <2>2 DEF VerdictInv, VerdictIsHighestLogged
<1>5. ASSUME NEW field \in Fields \ {"failed"}, LogOutcome(field)
      PROVE  VerdictInv'
  BY <1>5, <1>u DEF LogOutcome, InCallback, histVars
<1>6. CASE FinishTest
  <2>1. /\ pc = "done" /\ pc' = "pick" /\ UNCHANGED <<failedLevel, raised>>
        /\ verdict' = IF Current \in Utilities THEN verdict
                      ELSE Verdict(results[Current], failedLevel)
    BY <1>6 DEF FinishTest
  <2>2. failedLevel = {failure.level : failure \in raised} /\ verdict = "none"
    BY <2>1 DEF VerdictInv
  <2>3. failedLevel \in SUBSET Levels
    BY DEF TypeInv, TypeOK
  <2>4. ASSUME NEW l \in Critical .. Low, verdict' = FailedWord[l]
        PROVE  /\ \E failure \in raised : failure.level = l
               /\ \A failure \in raised : failure.level = None \/ l <= failure.level
    <3>1. Verdict(results[Current], failedLevel) = FailedWord[l]
      BY <2>1, <2>2, <2>4, FailedWords
    <3>2. l \in failedLevel /\ \A m \in failedLevel : m = None \/ l <= m
      BY <2>3, <3>1, VerdictLevel
    <3> QED  BY <2>2, <3>2
  <2> QED  BY <2>1, <2>2, <2>4 DEF VerdictInv, VerdictIsHighestLogged
<1>7. CASE Finish
  BY <1>7 DEF Finish, histVars, VerdictInv, VerdictIsHighestLogged
<1>8. CASE UNCHANGED vars
  BY <1>8 DEF vars, fwVars, histVars, VerdictInv, VerdictIsHighestLogged
<1> QED
  BY <1>1, <1>2, <1>3, <1>4, <1>5, <1>6, <1>7, <1>8 DEF Next, Terminating

(* The level in the --stdout-summary line of a test is that of the most      *)
(* severe failure of this very test.                                         *)
THEOREM VerdictAlwaysHighest == Spec => []VerdictIsHighestLogged
<1>1. Init => VerdictInv
  BY FailedWords DEF Init, VerdictInv, VerdictIsHighestLogged
<1>2. VerdictInv => VerdictIsHighestLogged
  BY DEF VerdictInv
<1> QED  BY <1>1, <1>2, VerdictNext, TypeInvariant, PTL DEF Spec

-----------------------------------------------------------------------------
(* The lists of the report, one level at a time.                             *)
TextsOf(list) == {list[k].text : k \in DOMAIN list}
At(logged, i) == {r \in logged : r.index = i}
By(of, e) == {r \in of : r.text = e.text /\ r.test = e.test}

Matches(list, of) ==
    /\ TextsOf(list) = {r.text : r \in of}
    /\ \A k \in DOMAIN list : By(of, list[k]) # {}
    /\ \A j, k \in DOMAIN list :
          j < k /\ list[j].text = list[k].text => \E r \in By(of, list[k]) : r.newline

SummaryInv == \A i \in Critical .. Info : Matches(summary[i], At(reported, i))

LEMMA SummaryByLevel == SummaryMatchesLog <=> SummaryInv
  BY DEF SummaryMatchesLog, SummaryInv, Matches, TextsOf, At, By

\* One more message, with the list as it is or with a new entry.
LEMMA MatchesMore ==
    ASSUME NEW list \in Seq(Entry), NEW of, Matches(list, of), NEW r,
           NEW new, NEW e \in Entry, r.text = e.text, r.test = e.test,
           \/ new = list /\ e.text \in TextsOf(list)
           \/ new = Append(list, e) /\ (r.newline \/ e.text \notin TextsOf(list))
    PROVE  Matches(new, of \cup {r})
<1>1. {q.text : q \in of \cup {r}} = {q.text : q \in of} \cup {e.text}
  OBVIOUS
<1>2. \A x : By(of, x) \subseteq By(of \cup {r}, x)
  BY DEF By
<1>3. CASE new = list /\ e.text \in TextsOf(list)
  <2>1. TextsOf(new) = {q.text : q \in of \cup {r}}
    BY <1>1, <1>3 DEF Matches
  <2>2. \A k \in DOMAIN new : By(of \cup {r}, new[k]) # {}
    BY <1>2, <1>3 DEF Matches
  <2>3. \A j, k \in DOMAIN new :
          j < k /\ new[j].text = new[k].text => \E q \in By(of \cup {r}, new[k]) : q.newline
    BY <1>2, <1>3 DEF Matches
  <2> QED  BY <2>1, <2>2, <2>3 DEF Matches
<1>4. CASE new = Append(list, e) /\ (r.newline \/ e.text \notin TextsOf(list))
  <2> DEFINE n == Len(list)
  <2>1. n \in Nat /\ DOMAIN list = 1 .. n
    BY LenProperties
  <2>3. /\ Len(new) = n + 1 /\ DOMAIN new = 1 .. n + 1
        /\ \A k \in 1 .. n : new[k] = list[k]
        /\ new[n + 1] = e
    BY <1>4, AppendProperties, LenProperties
  <2>4. \A k : k \in 1 .. n + 1 <=> k \in 1 .. n \/ k = n + 1
    BY <2>1
  <2>5. \A j \in 1 .. n + 1, k \in 1 .. n + 1 : j < k => j \in 1 .. n
    BY <2>1
  <2> HIDE DEF n
  <2>6. TextsOf(new) = TextsOf(list) \cup {e.text}
    <3>1. ASSUME NEW x \in TextsOf(new) PROVE x \in TextsOf(list) \cup {e.text}
      BY <2>1, <2>3, <2>4 DEF TextsOf
    <3>2. ASSUME NEW x \in TextsOf(list) PROVE x \in TextsOf(new)
      BY <2>1, <2>3, <2>4 DEF TextsOf
    <3>3. e.text \in TextsOf(new)
      BY <2>3, <2>4 DEF TextsOf
    <3> QED  BY <3>1, <3>2, <3>3
  <2>7. TextsOf(new) = {q.text : q \in of \cup {r}}
    BY <1>1, <2>6 DEF Matches
  <2>8. r \in By(of \cup {r}, e)
    BY DEF By
  <2>9. ASSUME NEW k \in DOMAIN new
        PROVE  By(of \cup {r}, new[k]) # {}
    <3>1. CASE k \in 1 .. n
      BY <1>2, <2>1, <2>3, <3>1 DEF Matches
    <3>2. CASE k = n + 1
      BY <2>3, <2>8, <3>2
    <3> QED  BY <2>3, <2>4, <3>1, <3>2
  <2>10. ASSUME NEW j \in DOMAIN new, NEW k \in DOMAIN new,
                j < k, new[j].text = new[k].text
         PROVE  \E q \in By(of \cup {r}, new[k]) : q.newline
    <3>1. j \in 1 .. n /\ new[j] = list[j]
      BY <2>3, <2>5, <2>10
    <3>2. CASE k \in 1 .. n
      <4>1. \E q \in By(of, list[k]) : q.newline
        BY <2>1, <2>3, <2>10, <3>1, <3>2 DEF Matches
      <4> QED  BY <1>2, <2>3, <3>2, <4>1
    <3>3. CASE k = n + 1
      <4>1. e.text \in TextsOf(list)
        BY <2>1, <2>3, <2>10, <3>1, <3>3 DEF TextsOf
      <4> QED  BY <1>4, <2>3, <2>8, <3>3, <4>1
    <3> QED  BY <2>3, <2>4, <3>2, <3>3
  <2> QED  BY <2>7, <2>9, <2>10 DEF Matches
<1> QED  BY <1>3, <1>4

LEMMA SummaryNext == TypeInv /\ SummaryInv /\ [Next]_vars => SummaryInv'
<1> SUFFICES ASSUME TypeInv, SummaryInv, [Next]_vars
             PROVE  SummaryInv'
  OBVIOUS
<1>u. ASSUME UNCHANGED <<summary, reported>> PROVE SummaryInv'
  BY <1>u DEF SummaryInv
<1>1. ASSUME NEW failure \in Failures, LogFailed(failure)
      PROVE  SummaryInv'
  <2> DEFINE i == SummaryIndex(failure.level)
             e == [test |-> Current, text |-> failure.text]
             r == [test |-> Current, text |-> failure.text,
                   newline |-> failure.newline, index |-> i]
             new == IF Listed(failure) THEN summary[i] ELSE Append(summary[i], e)
  <2>1. CASE FilteredOut(failure.label)
    BY <1>1, <1>u, <2>1 DEF LogFailed
  <2>2. CASE Ignored(failure.level)
    BY <1>1, <1>u, <2>2 DEF LogFailed, SummaryAdd
  <2>3. CASE ~FilteredOut(failure.label) /\ ~Ignored(failure.level)
    <3>1. pos <= Len(queue) /\ Current \in Tests
      BY <1>1, CurrentType DEF LogFailed, InCallback, TypeInv, TypeOK
    <3>2. i \in Critical .. Info
      BY DEF SummaryIndex, Critical, Low, Info
    <3>3. e \in Entry /\ summary[i] \in Seq(Entry)
      BY <3>1, <3>2, RunnerAssumption DEF Entry, Failure, TypeInv, TypeOK
    <3>4. /\ summary \in [Critical .. Info -> Seq(Entry)]
          /\ summary' = [summary EXCEPT ![i] = new]
      BY <1>1, <2>3, <3>2 DEF LogFailed, SummaryAdd, TypeInv, TypeOK
    <3>5. reported' = reported \cup {r}
      BY <1>1, <2>3 DEF LogFailed
    <3>6. r.text = e.text /\ r.test = e.test /\ r.index = i
      OBVIOUS
    <3>12. \/ new = summary[i] /\ e.text \in TextsOf(summary[i])
           \/ new = Append(summary[i], e) /\ (r.newline \/ e.text \notin TextsOf(summary[i]))
      BY DEF Listed, TextsOf
    <3>7. \A j \in Critical .. Info : Matches(summary[j], At(reported, j))
      BY DEF SummaryInv
    <3> HIDE DEF i, e, r, new
    <3>8. Matches(new, At(reported, i) \cup {r})
      BY <3>2, <3>3, <3>6, <3>7, <3>12, MatchesMore
    <3>9. /\ At(reported', i) = At(reported, i) \cup {r}
          /\ \A j \in Critical .. Info : j # i => At(reported', j) = At(reported, j)
      BY <3>5, <3>6 DEF At
    <3>10. /\ summary'[i] = new
           /\ \A j \in Critical .. Info : j # i => summary'[j] = summary[j]
      BY <3>2, <3>4
    <3>11. \A j \in Critical .. Info : Matches(summary'[j], At(reported', j))
      BY <3>7, <3>8, <3>9, <3>10
    <3> QED  BY <3>11 DEF SummaryInv
  <2> QED  BY <2>1, <2>2, <2>3
<1>2. ASSUME NEW field \in Fields, LogOutcome(field)
      PROVE  SummaryInv'
  BY <1>2, <1>u DEF LogOutcome, histVars
<1>3. CASE StartTest \/ RefuseRoot \/ SkipFeatures \/ PassGates
  BY <1>3, <1>u DEF StartTest, RefuseRoot, SkipFeatures, PassGates, WriteOff, histVars
<1>4. CASE InitReturnsOk \/ InitReturnsSkip \/ InitReturnsError
  BY <1>4, <1>u DEF InitReturnsOk, InitReturnsSkip, InitReturnsError, WriteOff, histVars
<1>5. CASE CallMinor \/ MinorReturns \/ MinorAborts \/ EndMinors \/ DeinitReturns
  BY <1>5, <1>u DEF CallMinor, MinorReturns, MinorAborts, EndMinors, DeinitReturns, histVars
<1>6. CASE FinishTest \/ Finish \/ Terminating
  BY <1>6, <1>u DEF FinishTest, Finish, Terminating, vars, fwVars, histVars
<1>7. CASE UNCHANGED vars
  BY <1>7, <1>u DEF vars, fwVars, histVars
<1> QED  BY <1>1, <1>2, <1>3, <1>4, <1>5, <1>6, <1>7 DEF Next

(* The lists of the final report and what was logged during the run agree at *)
(* every step: the level and label filters let the same messages into both,  *)
(* each is listed under a test that logged it, and again only for one that   *)
(* logged it with a newline at its end.                                      *)
THEOREM SummaryAlwaysMatches == Spec => []SummaryMatchesLog
<1>1. Init => SummaryInv
  <2> SUFFICES ASSUME Init, NEW i \in Critical .. Info
               PROVE  Matches(summary[i], At(reported, i))
    BY DEF SummaryInv
  <2>1. summary[i] = <<>> /\ At(reported, i) = {}
    BY DEF Init, At
  <2>2. DOMAIN summary[i] = {} /\ Len(summary[i]) = 0
    BY <2>1
  <2>3. TextsOf(summary[i]) = {} /\ {r.text : r \in At(reported, i)} = {}
    BY <2>1, <2>2 DEF TextsOf
  <2> QED  BY <2>2, <2>3 DEF Matches
<1> QED  BY <1>1, SummaryNext, SummaryByLevel, TypeInvariant, PTL DEF Spec

-----------------------------------------------------------------------------
(* SumFunctionOnSet() folds over the subsets of a finite set; nothing here    *)
(* knows about fwts.                                                          *)
IsFold(g, S, sum) ==
    sum = [s \in SUBSET S |->
             IF s = {} THEN 0
             ELSE g[CHOOSE x \in s : TRUE] + sum[s \ {CHOOSE x \in s : TRUE}]]

LEMMA SumIsFold ==
    ASSUME NEW g, NEW S
    PROVE  SumFunctionOnSet(g, S) = (CHOOSE sum : IsFold(g, S, sum))[S]
  BY DEF SumFunctionOnSet, FoldFunctionOnSet, MapThenFoldSet, IsFold

\* Of sets of sets, all finite, one has the fewest elements.
LEMMA SmallestExists ==
    ASSUME NEW C, C # {}, \A S \in C : IsFiniteSet(S)
    PROVE  \E S \in C : \A T \in C : T \subseteq S => T = S
<1> DEFINE I == {Cardinality(S) : S \in C}
<1>1. I \subseteq Nat /\ I # {}
  BY FS_CardinalityType
<1>2. \E m \in I : \A k \in I : ~ (<<k, m>> \in OpToRel(<, Nat))
  BY <1>1, NatLessThanWellFounded, WFMin
<1>3. PICK m \in I : \A k \in I : ~ (<<k, m>> \in OpToRel(<, Nat))
  BY <1>2
<1>4. \A k \in I : ~ (k < m)
  BY <1>1, <1>3 DEF OpToRel
<1>5. PICK S \in C : Cardinality(S) = m
  OBVIOUS
<1>6. ASSUME NEW T \in C, T \subseteq S, T # S PROVE FALSE
  <2>1. IsFiniteSet(S) /\ Cardinality(T) \in Nat /\ Cardinality(S) \in Nat
    BY FS_CardinalityType
  <2>2. Cardinality(T) <= Cardinality(S) /\ Cardinality(T) # Cardinality(S)
    BY <1>6, <2>1, FS_Subset
  <2>3. Cardinality(T) \in I /\ Cardinality(T) < m
    BY <1>5, <2>1, <2>2
  <2> QED  BY <1>4, <2>3
<1> QED  BY <1>5, <1>6

\* Two folds agree on the finite sets both are of.
LEMMA FoldsAgree ==
    ASSUME NEW g, NEW S, NEW T, NEW f, NEW h, IsFold(g, S, f), IsFold(g, T, h)
    PROVE  \A s : s \subseteq S /\ s \subseteq T /\ IsFiniteSet(s) => f[s] = h[s]
<1> DEFINE C == {s \in SUBSET S : s \subseteq T /\ IsFiniteSet(s) /\ f[s] # h[s]}
<1>1. SUFFICES ASSUME C # {} PROVE FALSE
  OBVIOUS
<1>2. PICK s \in C : \A t \in C : t \subseteq s => t = s
  <2>1. \A t \in C : IsFiniteSet(t)
    OBVIOUS
  <2> HIDE DEF C
  <2> QED  BY <1>1, <2>1, SmallestExists
<1> DEFINE x == CHOOSE x \in s : TRUE
           t == s \ {x}
<1>3. s # {}
  BY <1>2 DEF IsFold
<1>4. x \in s
  BY <1>3
<1>5. f[t] = h[t]
  <2>1. IsFiniteSet(t)
    BY <1>2, FS_Subset
  <2> QED  BY <1>2, <1>4, <2>1
<1>6. f[s] = g[x] + f[t] /\ h[s] = g[x] + h[t]
  BY <1>2, <1>3 DEF IsFold
<1> QED  BY <1>2, <1>5, <1>6

\* Every finite set has one.
LEMMA FoldExists ==
    ASSUME NEW g, NEW S, IsFiniteSet(S)
    PROVE  \E f : IsFold(g, S, f)
<1> DEFINE C == {T \in SUBSET S : ~ \E f : IsFold(g, T, f)}
<1>1. SUFFICES ASSUME C # {} PROVE FALSE
  OBVIOUS
<1>2. \A T \in C : IsFiniteSet(T)
  BY FS_Subset
<1>3. PICK T \in C : \A U \in C : U \subseteq T => U = T
  <2> HIDE DEF C
  <2> QED  BY <1>1, <1>2, SmallestExists
<1> DEFINE Of(U) == CHOOSE f : IsFold(g, U, f)
           Pick(s) == CHOOSE x \in s : TRUE
           Rest(s) == s \ {Pick(s)}
           F == [s \in SUBSET T |-> IF s = {} THEN 0 ELSE g[Pick(s)] + Of(Rest(s))[Rest(s)]]
<1>4. ASSUME NEW U, U \subseteq T, U # T PROVE IsFold(g, U, Of(U))
  <2>1. U \in SUBSET S /\ U \notin C
    BY <1>3, <1>4
  <2> QED  BY <2>1
<1>5. ASSUME NEW s \in SUBSET T, s # T PROVE F[s] = Of(s)[s]
  <2>1. IsFold(g, s, Of(s))
    BY <1>4, <1>5
  <2>2. CASE s = {}
    BY <2>1, <2>2 DEF IsFold
  <2>3. CASE s # {}
    <3>1. Pick(s) \in s
      BY <2>3
    <3>2. Rest(s) \subseteq s /\ Rest(s) \subseteq T /\ Rest(s) # T /\ IsFiniteSet(Rest(s))
      BY <1>2, <1>3, <3>1, FS_Subset
    <3>3. IsFold(g, Rest(s), Of(Rest(s)))
      BY <1>4, <3>2
    <3>4. Of(s)[Rest(s)] = Of(Rest(s))[Rest(s)]
      BY <2>1, <3>2, <3>3, FoldsAgree
    <3>5. Of(s)[s] = g[Pick(s)] + Of(s)[Rest(s)]
      BY <2>1, <2>3 DEF IsFold
    <3>6. F[s] = g[Pick(s)] + Of(Rest(s))[Rest(s)]
      BY <2>3
    <3> QED  BY <3>4, <3>5, <3>6
  <2> QED  BY <2>2, <2>3
<1>6. ASSUME NEW s \in SUBSET T, s # {}
      PROVE  F[s] = g[Pick(s)] + F[Rest(s)]
  <2>1. Pick(s) \in s
    BY <1>6
  <2>2. Rest(s) \in SUBSET T /\ Rest(s) # T
    BY <2>1
  <2>3. F[Rest(s)] = Of(Rest(s))[Rest(s)]
    BY <1>5, <2>2
  <2> QED  BY <1>6, <2>3
<1>7. F[{}] = 0
  OBVIOUS
<1>8. F = [s \in SUBSET T |-> IF s = {} THEN 0 ELSE g[Pick(s)] + F[Rest(s)]]
  <2> DEFINE G == [s \in SUBSET T |-> IF s = {} THEN 0 ELSE g[Pick(s)] + F[Rest(s)]]
  <2>1. ASSUME NEW s \in SUBSET T PROVE F[s] = G[s]
    <3>1. CASE s = {}
      BY <1>7, <3>1
    <3>2. CASE s # {}
      <4>1. F[s] = g[Pick(s)] + F[Rest(s)]
        BY <1>6, <3>2
      <4> HIDE DEF F
      <4> QED  BY <3>2, <4>1
    <3> QED  BY <3>1, <3>2
  <2>2. DOMAIN F = SUBSET T /\ DOMAIN G = SUBSET T
    OBVIOUS
  <2>3. F = [s \in SUBSET T |-> F[s]] /\ G = [s \in SUBSET T |-> G[s]]
    OBVIOUS
  <2> HIDE DEF F, G
  <2> QED  BY <2>1, <2>2, <2>3 DEF G
<1>9. IsFold(g, T, F)
  BY <1>8 DEF IsFold
<1> QED  BY <1>3, <1>9

\* What the sum is, ...
LEMMA SumUnfold ==
    ASSUME NEW g, NEW S, IsFiniteSet(S)
    PROVE  /\ S = {} => SumFunctionOnSet(g, S) = 0
           /\ S # {} => LET x == CHOOSE x \in S : TRUE
                        IN  SumFunctionOnSet(g, S) = g[x] + SumFunctionOnSet(g, S \ {x})
<1> DEFINE Of(U) == CHOOSE f : IsFold(g, U, f)
           x == CHOOSE x \in S : TRUE
           R == S \ {x}
<1>1. IsFold(g, S, Of(S))
  BY FoldExists
<1>2. IsFiniteSet(R) /\ R \subseteq S
  BY FS_Subset
<1>3. IsFold(g, R, Of(R))
  BY <1>2, FoldExists
<1>4. SumFunctionOnSet(g, S) = Of(S)[S] /\ SumFunctionOnSet(g, R) = Of(R)[R]
  BY SumIsFold
<1>5. Of(S)[R] = Of(R)[R]
  BY <1>1, <1>2, <1>3, FoldsAgree
<1>6. S = {} => Of(S)[S] = 0
  BY <1>1 DEF IsFold
<1>7. S # {} => Of(S)[S] = g[x] + Of(S)[R]
  BY <1>1 DEF IsFold
<1> QED  BY <1>4, <1>5, <1>6, <1>7

\* ... whichever element is taken first, ...
LEMMA SumRemove ==
    ASSUME NEW D, NEW g \in [D -> Nat], NEW S \in SUBSET D, IsFiniteSet(S)
    PROVE  /\ SumFunctionOnSet(g, S) \in Nat
           /\ \A x \in S : SumFunctionOnSet(g, S) = g[x] + SumFunctionOnSet(g, S \ {x})
<1> DEFINE Sum(T) == SumFunctionOnSet(g, T)
           Good(T) == Sum(T) \in Nat /\ \A x \in T : Sum(T) = g[x] + Sum(T \ {x})
           C == {T \in SUBSET S : ~Good(T)}
<1>1. SUFFICES ASSUME C # {} PROVE FALSE
  <2>1. C = {} => Good(S)
    OBVIOUS
  <2> QED  BY <2>1
<1>2. \A T \in C : IsFiniteSet(T)
  BY FS_Subset
<1>3. PICK T \in C : \A U \in C : U \subseteq T => U = T
  <2> HIDE DEF C
  <2> QED  BY <1>1, <1>2, SmallestExists
<1>4. ASSUME NEW U \in SUBSET T, U # T PROVE Good(U)
  BY <1>3, <1>4
<1>5. IsFiniteSet(T) /\ T \in SUBSET D
  BY <1>2, <1>3
<1> DEFINE y == CHOOSE y \in T : TRUE
<1>6. T # {}
  <2>1. T = {} => Sum(T) = 0
    BY <1>5, SumUnfold
  <2> QED  BY <1>3, <2>1
<1>7. y \in T /\ g[y] \in Nat
  BY <1>5, <1>6
<1>8. Sum(T) = g[y] + Sum(T \ {y})
  BY <1>5, <1>6, SumUnfold
<1> HIDE DEF Sum, y
<1>9. Sum(T) \in Nat /\ Sum(T \ {y}) \in Nat
  <2>1. T \ {y} \in SUBSET T /\ T \ {y} # T
    BY <1>7
  <2> QED  BY <1>4, <1>7, <1>8, <2>1
<1>10. ASSUME NEW x \in T PROVE Sum(T) = g[x] + Sum(T \ {x})
  <2>1. CASE x = y
    BY <1>8, <2>1
  <2>2. CASE x # y
    <3> DEFINE Ty == T \ {y}  Tx == T \ {x}  Txy == T \ {x, y}
    <3>1. /\ Ty \in SUBSET T /\ Ty # T /\ Tx \in SUBSET T /\ Tx # T
          /\ Txy \in SUBSET T /\ Txy # T
          /\ x \in Ty /\ y \in Tx /\ Ty \ {x} = Txy /\ Tx \ {y} = Txy
      BY <1>7, <2>2
    <3> HIDE DEF Ty, Tx, Txy
    <3>2. Sum(Ty) = g[x] + Sum(Txy)
      BY <1>4, <3>1
    <3>3. Sum(Tx) = g[y] + Sum(Txy)
      BY <1>4, <3>1
    <3>4. g[x] \in Nat /\ Sum(Txy) \in Nat
      BY <1>4, <1>5, <3>1
    <3>5. Sum(T) = g[y] + (g[x] + Sum(Txy))
      BY <1>8, <3>2 DEF Ty
    <3>6. Sum(T) = g[x] + Sum(Tx)
      BY <1>7, <3>3, <3>4, <3>5
    <3> QED  BY <3>6 DEF Tx
  <2> QED  BY <2>1, <2>2
<1> QED  BY <1>3, <1>9, <1>10

\* ... and of the function only what it is on the set counts.
LEMMA SumSame ==
    ASSUME NEW D, NEW g \in [D -> Nat], NEW h \in [D -> Nat],
           NEW S \in SUBSET D, IsFiniteSet(S), \A x \in S : g[x] = h[x]
    PROVE  SumFunctionOnSet(g, S) = SumFunctionOnSet(h, S)
<1> DEFINE C == {T \in SUBSET S : SumFunctionOnSet(g, T) # SumFunctionOnSet(h, T)}
<1>1. SUFFICES ASSUME C # {} PROVE FALSE
  OBVIOUS
<1>2. \A T \in C : IsFiniteSet(T)
  BY FS_Subset
<1>3. PICK T \in C : \A U \in C : U \subseteq T => U = T
  <2> HIDE DEF C
  <2> QED  BY <1>1, <1>2, SmallestExists
<1>4. IsFiniteSet(T) /\ T \in SUBSET S
  BY <1>2, <1>3
<1> DEFINE x == CHOOSE x \in T : TRUE
           R == T \ {x}
<1>5. T # {}
  <2>1. T = {} => SumFunctionOnSet(g, T) = 0 /\ SumFunctionOnSet(h, T) = 0
    BY <1>4, SumUnfold
  <2> QED  BY <1>3, <2>1
<1>6. x \in T /\ R \in SUBSET S /\ R \subseteq T /\ R # T
  BY <1>4, <1>5
<1>7. SumFunctionOnSet(g, R) = SumFunctionOnSet(h, R)
  <2>1. R \notin C
    BY <1>3, <1>6
  <2> QED  BY <1>6, <2>1
<1>8. /\ SumFunctionOnSet(g, T) = g[x] + SumFunctionOnSet(g, R)
      /\ SumFunctionOnSet(h, T) = h[x] + SumFunctionOnSet(h, R)
  BY <1>4, <1>5, SumUnfold
<1>9. g[x] = h[x]
  BY <1>4, <1>6
<1> QED  BY <1>3, <1>7, <1>8, <1>9

-----------------------------------------------------------------------------
(* The rows of the table are the tests begun so far, and the total is the    *)
(* sum of the rows, without that of a test whose minor tests are not over:   *)
(* up to there the row grows while the total waits.                          *)
Begun == {queue[k] : k \in 1 .. (IF pc \in {"pick", "exit"} THEN pos - 1 ELSE pos)}

Counted == IF pc \in {"gate", "init", "next", "minor", "tally"}
           THEN wasRun \ {Current} ELSE wasRun

TableFacts ==
    /\ wasRun = Begun
    /\ pc \in {"gate", "init"} => results[Current] = Zero
    /\ \A field \in Fields : total[field] = SumFunctionOnSet(Column(field), Counted)

TableInv == IsInjective(queue) => TableFacts

ColumnOf(res, field) == [t \in Tests |-> res[t][field]]

LEMMA ColumnType ==
    ASSUME NEW res \in [Tests -> Results], NEW field \in Fields
    PROVE  ColumnOf(res, field) \in [Tests -> Nat]
BY DEF ColumnOf, Results

\* A row that is not summed may change, ...
LEMMA SumKept ==
    ASSUME NEW res \in [Tests -> Results], NEW new \in [Tests -> Results],
           NEW field \in Fields, NEW S \in SUBSET Tests, IsFiniteSet(S),
           \A t \in S : new[t] = res[t]
    PROVE  SumFunctionOnSet(ColumnOf(new, field), S) = SumFunctionOnSet(ColumnOf(res, field), S)
<1>1. \A t \in S : ColumnOf(new, field)[t] = ColumnOf(res, field)[t]
  BY DEF ColumnOf
<1> QED  BY <1>1, ColumnType, SumSame

\* ... and is added when it joins the others.
LEMMA SumGrows ==
    ASSUME NEW res \in [Tests -> Results], NEW new \in [Tests -> Results],
           NEW field \in Fields, NEW S \in SUBSET Tests, IsFiniteSet(S), NEW c \in S,
           \A t \in S \ {c} : new[t] = res[t]
    PROVE  /\ SumFunctionOnSet(ColumnOf(new, field), S)
                = SumFunctionOnSet(ColumnOf(res, field), S \ {c}) + new[c][field]
           /\ SumFunctionOnSet(ColumnOf(res, field), S \ {c}) \in Nat
<1> DEFINE R == S \ {c}
<1>1. R \in SUBSET Tests /\ IsFiniteSet(R)
  BY FS_Subset
<1>2. SumFunctionOnSet(ColumnOf(new, field), R) = SumFunctionOnSet(ColumnOf(res, field), R)
  BY <1>1, SumKept
<1>3. SumFunctionOnSet(ColumnOf(new, field), S)
        = ColumnOf(new, field)[c] + SumFunctionOnSet(ColumnOf(new, field), R)
  BY ColumnType, SumRemove
<1>4. SumFunctionOnSet(ColumnOf(res, field), R) \in Nat
  BY <1>1, ColumnType, SumRemove
<1>5. ColumnOf(new, field)[c] = new[c][field] /\ new[c][field] \in Nat
  BY DEF ColumnOf, Results
<1> QED  BY <1>2, <1>3, <1>4, <1>5

LEMMA BegunFinite == TypeOK => Begun \subseteq Tests /\ IsFiniteSet(Begun)
<1> SUFFICES ASSUME TypeOK PROVE Begun \subseteq Tests /\ IsFiniteSet(Begun)
  OBVIOUS
<1> DEFINE last == IF pc \in {"pick", "exit"} THEN pos - 1 ELSE pos
<1>1. queue \in Seq(Tests) /\ last \in 0 .. Len(queue)
  BY RunnerAssumption DEF TypeOK
<1> HIDE DEF last
<1>2. IsFiniteSet(1 .. last)
  BY <1>1, FS_Interval
<1> DEFINE f == [k \in 1 .. last |-> queue[k]]
<1>3. f \in Surjection(1 .. last, {queue[k] : k \in 1 .. last})
  BY DEF Surjection
<1>4. IsFiniteSet({queue[k] : k \in 1 .. last})
  BY <1>2, <1>3, FS_Surjection
<1>5. \A k \in 1 .. last : queue[k] \in Tests
  BY <1>1
<1> QED  BY <1>4, <1>5 DEF Begun, last

LEMMA QueueKept == [Next]_vars => queue' = queue
<1> SUFFICES ASSUME [Next]_vars PROVE queue' = queue
  OBVIOUS
<1>1. ASSUME NEW failure \in Failures, LogFailed(failure) PROVE queue' = queue
  BY <1>1 DEF LogFailed
<1>2. ASSUME NEW field \in Fields, LogOutcome(field) PROVE queue' = queue
  BY <1>2 DEF LogOutcome
<1>3. CASE \/ StartTest \/ RefuseRoot \/ SkipFeatures \/ PassGates
            \/ InitReturnsOk \/ InitReturnsSkip \/ InitReturnsError
  BY <1>3 DEF StartTest, RefuseRoot, SkipFeatures, PassGates, InitReturnsOk,
              InitReturnsSkip, InitReturnsError, WriteOff
<1>4. CASE \/ CallMinor \/ MinorReturns \/ MinorAborts \/ EndMinors \/ DeinitReturns
            \/ FinishTest \/ Finish \/ Terminating \/ UNCHANGED vars
  BY <1>4 DEF CallMinor, MinorReturns, MinorAborts, EndMinors, DeinitReturns,
              FinishTest, Finish, Terminating, vars, fwVars
<1> QED  BY <1>1, <1>2, <1>3, <1>4 DEF Next

LEMMA TableNext == TypeInv /\ TypeInv' /\ TableInv /\ [Next]_vars => TableInv'
<1> SUFFICES ASSUME TypeInv, TypeInv', TableInv, [Next]_vars, IsInjective(queue)
             PROVE  TableFacts'
  BY QueueKept DEF TableInv
<1> USE DEF TableInv
<1>t. /\ results \in [Tests -> Results] /\ results' \in [Tests -> Results]
      /\ total \in Results /\ total' \in Results
      /\ queue \in Seq(Tests) /\ pos \in 1 .. Len(queue) + 1
      /\ wasRun \in SUBSET Tests /\ IsFiniteSet(wasRun)
  BY RunnerAssumption, BegunFinite DEF TypeInv, TypeOK, TableFacts
<1>c. pos <= Len(queue) => Current \in Tests
  BY <1>t DEF Current
<1>d. \A field : /\ Column(field) = ColumnOf(results, field)
                /\ Column(field)' = ColumnOf(results', field)
  BY DEF Column, ColumnOf
<1>k. ASSUME Counted' \subseteq Tests, Counted' = Counted, total' = total,
             \A t \in Counted : results'[t] = results[t], NEW field \in Fields
      PROVE  (total[field] = SumFunctionOnSet(Column(field), Counted))'
  <2>1. Counted \in SUBSET Tests /\ IsFiniteSet(Counted)
    BY <1>k, <1>t, FS_Subset DEF Counted
  <2>2. SumFunctionOnSet(ColumnOf(results', field), Counted)
          = SumFunctionOnSet(ColumnOf(results, field), Counted)
    BY <1>k, <1>t, <2>1, SumKept
  <2> QED  BY <1>d, <1>k, <2>2 DEF TableFacts
<1>1. ASSUME UNCHANGED <<queue, pos, results, total, wasRun>>,
             pc' # "gate",
             pc' = "init" => pc \in {"gate", "init"},
             pc' \in {"gate", "init", "next", "minor", "tally"}
               <=> pc \in {"gate", "init", "next", "minor", "tally"},
             pc' \in {"pick", "exit"} <=> pc \in {"pick", "exit"}
      PROVE  TableFacts'
  <2>1. Counted' = Counted /\ Begun' = Begun /\ Current' = Current
    BY <1>1 DEF Counted, Begun, Current
  <2>2. Counted' \subseteq Tests
    BY <1>t, <2>1 DEF Counted
  <2>3. \A field \in Fields : (total[field] = SumFunctionOnSet(Column(field), Counted))'
    BY <1>1, <1>k, <2>1, <2>2
  <2> QED  BY <1>1, <2>1, <2>3 DEF TableFacts
<1>2. CASE StartTest
  <2>1. /\ pc = "pick" /\ pc' = "gate" /\ pos <= Len(queue)
        /\ wasRun' = wasRun \cup {Current} /\ results' = [results EXCEPT ![Current] = Zero]
        /\ UNCHANGED <<queue, pos, total>>
    BY <1>2 DEF StartTest
  <2>2. Current' = Current /\ Current = queue[pos]
    BY <2>1 DEF Current
  <2>3. Begun = {queue[k] : k \in 1 .. pos - 1} /\ Begun' = {queue[k] : k \in 1 .. pos}
    BY <2>1 DEF Begun
  <2>4. Current \notin Begun
    <3>1. \A k \in 1 .. pos - 1 : queue[k] # queue[pos]
      BY <1>t, <2>1 DEF IsInjective
    <3> QED  BY <2>2, <2>3, <3>1
  <2>5. Begun' = Begun \cup {Current}
    <3>1. \A k : k \in 1 .. pos <=> k \in 1 .. pos - 1 \/ k = pos
      BY <1>t
    <3> QED  BY <2>2, <2>3, <3>1
  <2>6. Counted = wasRun /\ Counted' = wasRun' \ {Current}
    BY <2>1, <2>2 DEF Counted
  <2>7. Counted' = Counted /\ Current \notin Counted
    BY <2>1, <2>4, <2>6 DEF TableFacts
  <2>8. \A t \in Counted : results'[t] = results[t]
    BY <1>t, <2>1, <2>6, <2>7
  <2>9. results'[Current] = Zero
    BY <1>t, <1>c, <2>1
  <2>10. Counted' \subseteq Tests
    BY <1>t, <2>6, <2>7
  <2>11. \A field \in Fields : (total[field] = SumFunctionOnSet(Column(field), Counted))'
    BY <1>k, <2>1, <2>7, <2>8, <2>10
  <2> QED  BY <2>1, <2>2, <2>5, <2>9, <2>11 DEF TableFacts
\* A test whose minor tests are over joins the others.
<1>3. ASSUME pc \in {"gate", "init", "next", "tally"}, pc' \in {"deinit", "done"},
             UNCHANGED <<queue, pos, wasRun>>,
             \A t \in Tests \ {Current} : results'[t] = results[t],
             \A field \in Fields : total'[field] = total[field] + results'[Current][field]
      PROVE  TableFacts'
  <2>1. Current \in wasRun /\ Begun' = Begun
    <3>1. pos <= Len(queue)
      BY <1>3 DEF TypeInv, TypeOK
    <3>2. Begun = {queue[k] : k \in 1 .. pos} /\ Begun' = {queue[k] : k \in 1 .. pos}
      BY <1>3 DEF Begun
    <3> QED  BY <1>t, <3>1, <3>2 DEF TableFacts, Current
  <2>2. Counted = wasRun \ {Current} /\ Counted' = wasRun
    BY <1>3 DEF Counted
  <2>3. ASSUME NEW field \in Fields
        PROVE  total'[field] = SumFunctionOnSet(ColumnOf(results', field), wasRun)
    <3>1. /\ SumFunctionOnSet(ColumnOf(results', field), wasRun)
               = SumFunctionOnSet(ColumnOf(results, field), Counted) + results'[Current][field]
      BY <1>3, <1>t, <2>1, <2>2, SumGrows
    <3>2. total[field] = SumFunctionOnSet(ColumnOf(results, field), Counted)
      BY <1>d DEF TableFacts
    <3> QED  BY <1>3, <3>1, <3>2
  <2> QED  BY <1>3, <1>d, <2>1, <2>2, <2>3 DEF TableFacts
<1>4. ASSUME NEW field \in Fields, WriteOff(field), pc \in {"gate", "init"}
      PROVE  TableFacts'
  <2>1. pos <= Len(queue) /\ Current \in Tests /\ Minors[Current] \in Nat
    BY <1>4, CurrentType DEF TypeInv, TypeOK
  <2>2. /\ results' = [results EXCEPT ![Current] = Add(Zero, field, Minors[Current])]
        /\ total' = Add(total, field, Minors[Current]) /\ pc' = "done"
        /\ UNCHANGED <<queue, pos, wasRun>>
    BY <1>4 DEF WriteOff, TableFacts
  <2>3. ASSUME NEW g \in Fields
        PROVE  total'[g] = total[g] + results'[Current][g]
    <3>1. Add(total, field, Minors[Current])[g]
            = total[g] + Add(Zero, field, Minors[Current])[g]
      <4> DEFINE n == Minors[Current]
      <4>1. total \in Results /\ Zero \in Results /\ n \in Nat
        BY <1>t, <2>1, ZeroType
      <4> HIDE DEF n
      <4>2. /\ Add(total, field, n)[field] = total[field] + n
            /\ \A h \in Fields \ {field} : Add(total, field, n)[h] = total[h]
        BY <4>1, AddType
      <4>3. /\ Add(Zero, field, n)[field] = Zero[field] + n
            /\ \A h \in Fields \ {field} : Add(Zero, field, n)[h] = Zero[h]
        BY <4>1, AddType
      <4>4. total[g] \in Nat /\ Zero[g] = 0
        BY <4>1, ZeroType DEF Results
      <4>5. Add(total, field, n)[g] = total[g] + Add(Zero, field, n)[g]
        BY <4>1, <4>2, <4>3, <4>4
      <4> QED  BY <4>5 DEF n
    <3> QED  BY <1>t, <2>1, <2>2, <3>1
  <2>4. \A t \in Tests \ {Current} : results'[t] = results[t]
    BY <1>t, <2>2
  <2> QED  BY <1>3, <1>4, <2>2, <2>3, <2>4
<1>5. CASE EndMinors
  <2>1. /\ pc \in {"next", "tally"} /\ pc' \in {"deinit", "done"}
        /\ total' = Plus(total, results[Current])
        /\ UNCHANGED <<queue, pos, wasRun, results>>
    BY <1>5 DEF EndMinors
  <2>2. results[Current] \in Results
    BY <1>c, <1>t, <2>1 DEF TypeInv, TypeOK
  <2>3. \A field \in Fields : total'[field] = total[field] + results'[Current][field]
    BY <1>t, <2>1, <2>2, PlusType
  <2> QED  BY <1>3, <2>1, <2>3
\* The row of the test in hand grows.
<1>6. CASE MinorReturns \/ MinorAborts
  <2>1. /\ pc = "minor" /\ pc' \in {"next", "tally"}
        /\ \A t \in Tests \ {Current} : results'[t] = results[t]
        /\ UNCHANGED <<queue, pos, wasRun, total>>
    BY <1>6, <1>t DEF MinorReturns, MinorAborts, histVars
  <2>2. Counted = wasRun \ {Current} /\ Counted' = Counted /\ Begun' = Begun
    BY <2>1 DEF Counted, Current, Begun
  <2>3. \A t \in Counted : results'[t] = results[t]
    BY <1>t, <2>1, <2>2
  <2>4. Counted' \subseteq Tests
    BY <1>t, <2>2
  <2>5. \A field \in Fields : (total[field] = SumFunctionOnSet(Column(field), Counted))'
    BY <1>k, <2>1, <2>2, <2>3, <2>4
  <2> QED  BY <2>1, <2>2, <2>5 DEF TableFacts
<1>7. CASE FinishTest
  <2>1. /\ pc = "done" /\ pc' = "pick" /\ pos' = pos + 1
        /\ UNCHANGED <<queue, wasRun, results, total>>
    BY <1>7 DEF FinishTest
  <2>2. Counted = wasRun /\ Counted' = wasRun
    BY <2>1 DEF Counted
  <2>3. Begun' = Begun
    BY <1>t, <2>1 DEF Begun
  <2>4. Counted' \subseteq Tests
    BY <1>t, <2>2
  <2>5. \A field \in Fields : (total[field] = SumFunctionOnSet(Column(field), Counted))'
    BY <1>k, <2>1, <2>2, <2>4
  <2> QED  BY <2>1, <2>3, <2>5 DEF TableFacts
<1>8. ASSUME NEW failure \in Failures, LogFailed(failure) PROVE TableFacts'
  BY <1>1, <1>8 DEF LogFailed, InCallback
<1>9. ASSUME NEW field \in Fields, LogOutcome(field) PROVE TableFacts'
  BY <1>1, <1>9 DEF LogOutcome, InCallback
<1>10. CASE RefuseRoot \/ SkipFeatures \/ InitReturnsSkip \/ InitReturnsError
  <2>1. "aborted" \in Fields /\ "skipped" \in Fields
    BY DEF Fields
  <2> QED  BY <1>4, <1>10, <2>1 DEF RefuseRoot, SkipFeatures, InitReturnsSkip, InitReturnsError
<1>11. CASE PassGates
  BY <1>1, <1>11 DEF PassGates
<1>12. CASE InitReturnsOk
  BY <1>1, <1>12 DEF InitReturnsOk
<1>13. CASE CallMinor
  BY <1>1, <1>13 DEF CallMinor
<1>14. CASE DeinitReturns
  BY <1>1, <1>14 DEF DeinitReturns
<1>15. CASE Finish
  BY <1>1, <1>15 DEF Finish, histVars
<1>16. CASE UNCHANGED vars
  <2>1. UNCHANGED <<queue, pos, pc, results, total, wasRun>>
    BY <1>16 DEF vars, fwVars
  <2>2. Counted' = Counted /\ Begun' = Begun /\ Current' = Current
    BY <2>1 DEF Counted, Begun, Current
  <2>3. \A field : Column(field)' = Column(field)
    BY <2>1 DEF Column
  <2> QED  BY <2>1, <2>2, <2>3 DEF TableFacts
<1>17. CASE Terminating
  BY <1>16, <1>17 DEF Terminating
<1> QED
  BY <1>2, <1>5, <1>6, <1>7, <1>8, <1>9, <1>10, <1>11, <1>12, <1>13, <1>14, <1>15,
     <1>16, <1>17 DEF Next

(* The Total line is the sum of the rows of the table, in every field, unless *)
(* a test is queued twice; the total is written by the early exits and after  *)
(* the loop, the rows at every minor test.                                    *)
THEOREM TableAlwaysAddsUp == Spec => []TableAddsUp
<1>1. Init => TableInv
  <2> SUFFICES ASSUME Init PROVE TableFacts
    BY DEF TableInv
  <2>1. /\ pc = "pick" /\ pos = 1 /\ wasRun = {} /\ total = Zero
        /\ results = [t \in Tests |-> Zero]
    BY DEF Init
  <2>2. Begun = {} /\ Counted = {}
    BY <2>1 DEF Begun, Counted
  <2>3. \A field \in Fields : SumFunctionOnSet(Column(field), {}) = 0
    BY SumUnfold, FS_EmptySet
  <2> QED  BY <2>1, <2>2, <2>3, ZeroType DEF TableFacts
<1>2. TableInv => TableAddsUp
  BY DEF TableInv, TableFacts, TableAddsUp, Counted
<1> QED  BY <1>1, <1>2, TableNext, TypeInvariant, PTL DEF Spec
=============================================================================
