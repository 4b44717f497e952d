------------------------------- MODULE Runner -------------------------------
(***************************************************************************)
(* The run phase of the test framework: fwts_framework_tests_run() walks   *)
(* the list of tests it was given and runs each one through its gates      *)
(* (privilege, firmware features), init(), the minor tests and deinit(),   *)
(* counting what the callbacks log; fwts_framework_args() then prints the  *)
(* summary and derives the exit status.                                    *)
(*                                                                         *)
(* The callbacks belong to the firmware tests: what they log and return is *)
(* chosen freely, at most MaxLogs messages per call.                       *)
(***************************************************************************)
EXTENDS Naturals, FiniteSets, Sequences, SequencesExt, Functions

CONSTANTS
    Tests,          \* the registered tests
    Minors,         \* Minors[t]: the number of minor tests of t (ops->total_tests)
    NeedsRoot,      \* the tests flagged FWTS_FLAG_ROOT_PRIV
    LacksFeatures,  \* the tests that require a firmware feature this machine lacks
    HasInit,        \* the tests with an init() callback
    HasDeinit,      \* the tests with a deinit() callback
    Utilities,      \* the tests flagged FWTS_FLAG_UTILS
    Queues,         \* the lists tests_to_run may hold; a test may be there twice
    Options,        \* the option settings a run may have, see OptionRecord
    Labels,         \* the labels of failures
    Texts,          \* the messages of failures
    Failures,       \* the failures a callback may log
    MaxLogs         \* bound: messages logged by one call of a callback

Fields == {"passed", "failed", "aborted", "warning", "skipped", "infoonly"}

(* Log levels in order of severity; LOG_LEVEL_NONE is no level at all. *)
None     == 0
Critical == 1
High     == 2
Medium   == 3
Low      == 4
Info     == 5
Levels   == None .. Info

(* filter: the least severe level that --log-level admits; discard, keep:   *)
(* the labels of --filter-error-discard and --filter-error-keep; root: fwts  *)
(* runs with an effective uid of 0.                                          *)
OptionRecord == [filter : Critical .. Info, discard : SUBSET Labels,
                 keep : SUBSET Labels, root : BOOLEAN]
(* newline: the message ends in one, which the summary chops off its copy.   *)
Failure == [label : Labels, level : Levels, text : Texts, newline : BOOLEAN]

ASSUME RunnerAssumption ==
    /\ Minors \in [Tests -> Nat]
    /\ NeedsRoot \subseteq Tests
    /\ LacksFeatures \subseteq Tests
    /\ HasInit \subseteq Tests
    /\ HasDeinit \subseteq Tests
    /\ Utilities \subseteq Tests
    /\ Queues \subseteq Seq(Tests)
    /\ Options \subseteq OptionRecord
    /\ \A o \in Options : o.discard = {} \/ o.keep = {}
    /\ Failures \subseteq Failure
    /\ MaxLogs \in Nat

VARIABLES
    opts,         \* the options, fixed when the run starts
    queue,        \* tests_to_run
    pos,          \* fw->current_major_test_num
    pc,           \* where fwts_framework_run_test() is
    minorNum,     \* fw->current_minor_test_num
    results,      \* results[t]: test->results
    minorRes,     \* fw->minor_tests
    total,        \* fw->total
    failedLevel,  \* fw->failed_level: the levels or-ed into it
    wasRun,       \* the tests with test->was_run
    printSummary, \* fw->print_summary
    summary,      \* fwts_summaries[]: per level, the failures of the final report
    sections,     \* the open sections of the results log, the innermost first
    status,       \* the exit status, "running" until there is one
    logs,         \* messages logged by the callback that is running
    (* History variables: nothing in the program reads them. *)
    completed,    \* minor tests of the current test that ran to their end
    claimed,      \* skips and aborts those minor tests counted themselves
    raised,       \* failures the label filters let through since the test started;
                  \* the level filter may still keep their lines out of the log
    callRaised,   \* those of the callback that is running
    owed,         \* a minor test that completed logged a failure that counts
    reported,     \* [test, index, text, newline] of those the level filter admitted
    live,         \* tests set up by init() whose deinit() has yet to return
    verdict       \* the --stdout-summary line of the last test

fwVars   == <<opts, queue, pos, pc, minorNum, results, minorRes, total,
              failedLevel, wasRun, printSummary, summary, sections, status, logs>>
histVars == <<completed, claimed, raised, callRaised, owed, reported, live, verdict>>
vars     == <<fwVars, histVars>>

-----------------------------------------------------------------------------
Zero == [f \in Fields |-> 0]
Plus(r, s) == [f \in Fields |-> r[f] + s[f]]          \* fwts_framework_summate_results
Add(r, f, n) == [r EXCEPT ![f] = @ + n]

Current == queue[pos]                                  \* fw->current_major_test

Ignored(level) == level # None /\ level > opts.filter  \* FWTS_LEVEL_IGNORE

(* The discard list is looked at first: when it is not empty the keep list  *)
(* is never consulted.                                                       *)
FilteredOut(label) ==
    IF opts.discard # {} THEN label \in opts.discard
                         ELSE opts.keep # {} /\ label \notin opts.keep

(* Warnings, skips and aborts are logged at medium level, passes and        *)
(* information without a level.                                              *)
OutcomeLevel(field) == IF field \in {"warning", "skipped", "aborted"}
                       THEN Medium ELSE None

SummaryIndex(level) == IF level \in Critical .. Low THEN level ELSE Info

Listed(failure) ==
    /\ ~failure.newline
    /\ LET list == summary[SummaryIndex(failure.level)]
       IN  \E k \in DOMAIN list : list[k].text = failure.text

SummaryAddUnfiltered(failure) ==                       \* mutant: no level check
    LET i == SummaryIndex(failure.level)
    IN  summary' = IF Listed(failure) THEN summary
                   ELSE [summary EXCEPT ![i] = Append(@, [test |-> Current,
                                                          text |-> failure.text])]

(* fwts_summary_add(): one entry per text in the list of a level, attributed *)
(* to the first test that logged it.                                         *)
SummaryAdd(failure) ==
    LET i == SummaryIndex(failure.level)
    IN  summary' = IF Ignored(failure.level) \/ Listed(failure) THEN summary
                   ELSE [summary EXCEPT ![i] = Append(@, [test |-> Current,
                                                          text |-> failure.text])]

FailedWord == <<"FAILED_CRITICAL", "FAILED_HIGH", "FAILED_MEDIUM", "FAILED_LOW">>

VerdictLowest(res, levels) ==                          \* mutant: lowest bit wins
    LET named == levels \cap (Critical .. Low)
    IN  IF res["failed"] > 0 /\ named # {}
        THEN FailedWord[CHOOSE l \in named : \A m \in named : m <= l]
        ELSE "PASSED"

(* The --stdout-summary word for the results of a test. *)
Verdict(res, levels) ==
    IF res["failed"] > 0
    THEN LET named == levels \cap (Critical .. Low)
         IN  IF named = {} THEN "FAILED"
             ELSE FailedWord[CHOOSE l \in named : \A m \in named : l <= m]
    ELSE IF res["skipped"] > 0 THEN "SKIPPED"
    ELSE IF res["warning"] > 0 THEN "WARNING"
    ELSE IF res["aborted"] > 0 THEN "ABORTED"
    ELSE "PASSED"

(* The minor tests that an aborting one takes with it, itself included. *)
WrittenOffLessOne == Minors[Current] - minorNum        \* mutant: counts from zero
WrittenOffTooFew  == Minors[Current] - minorNum - 1    \* mutant: the sign swapped
WrittenOff        == Minors[Current] - (minorNum - 1)

(* What decides the exit status. *)
RunFailedLastTest ==                                   \* mutant: the last test decides
    queue # <<>> /\ results[Last(queue)]["failed"] > 0
RunFailed == total["failed"] > 0 \/ total["warning"] > 0

InCallback == pc \in {"init", "minor", "deinit"}

-----------------------------------------------------------------------------
Init ==
    /\ opts \in Options
    /\ queue \in Queues
    /\ pos = 1
    /\ pc = "pick"
    /\ minorNum = 0
    /\ results = [t \in Tests |-> Zero]
    /\ minorRes = Zero
    /\ total = Zero
    /\ failedLevel = {}
    /\ wasRun = {}
    /\ printSummary = FALSE
    /\ summary = [i \in Critical .. Info |-> <<>>]
    /\ sections = <<"tests">>
    /\ status = "running"
    /\ logs = 0
    /\ completed = 0
    /\ claimed = 0
    /\ raised = {}
    /\ callRaised = {}
    /\ owed = FALSE
    /\ reported = {}
    /\ live = {}
    /\ verdict = "none"

(* The head of fwts_framework_run_test(). *)
StartTest ==
    /\ pc = "pick"
    /\ pos <= Len(queue)
    /\ wasRun' = wasRun \cup {Current}
    /\ results' = [results EXCEPT ![Current] = Zero]
    /\ failedLevel' = {}
    /\ sections' = <<Current>> \o sections
    /\ minorNum' = 1
    /\ printSummary' = (printSummary \/ Current \notin Utilities)
    /\ pc' = "gate"
    /\ completed' = 0
    /\ claimed' = 0
    /\ raised' = {}
    /\ verdict' = "none"
    /\ UNCHANGED <<opts, queue, pos, minorRes, total, summary, status, logs,
                   callRaised, owed, reported, live>>

WriteOffResultsOnly(field) ==                          \* mutant: the total is forgotten
    /\ results' = [results EXCEPT ![Current] = Add(@, field, Minors[Current])]
    /\ pc' = "done"
    /\ UNCHANGED <<opts, queue, pos, minorNum, minorRes, total, failedLevel,
                   wasRun, printSummary, summary, sections, status, logs, histVars>>

(* All the minor tests of the current test end up in one count, both of the  *)
(* test and of the run, without any of them being called.                    *)
WriteOff(field) ==
    /\ results' = [results EXCEPT ![Current] = Add(@, field, Minors[Current])]
    /\ total' = Add(total, field, Minors[Current])
    /\ pc' = "done"
    /\ UNCHANGED <<opts, queue, pos, minorNum, minorRes, failedLevel, wasRun,
                   printSummary, summary, sections, status, logs, histVars>>

RootRefused == Current \in NeedsRoot /\ ~opts.root

RefuseRoot ==
    /\ pc = "gate"
    /\ RootRefused
    /\ WriteOff("aborted")

SkipFeatures ==
    /\ pc = "gate"
    /\ ~RootRefused
    /\ Current \in LacksFeatures
    /\ WriteOff("skipped")

(* ops->init is called, or the test has none and its minor tests begin. *)
PassGates ==
    /\ pc = "gate"
    /\ ~RootRefused
    /\ Current \notin LacksFeatures
    /\ IF Current \in HasInit
       THEN pc' = "init" /\ UNCHANGED <<sections, live>>
       ELSE /\ pc' = "next"
            /\ sections' = <<"subtests">> \o sections
            /\ live' = live \cup ({Current} \cap HasDeinit)
    /\ logs' = 0
    /\ callRaised' = {}
    /\ UNCHANGED <<opts, queue, pos, minorNum, results, minorRes, total,
                   failedLevel, wasRun, printSummary, summary, status,
                   completed, claimed, raised, owed, reported, verdict>>

InitReturnsOk ==
    /\ pc = "init"
    /\ pc' = "next"
    /\ sections' = <<"subtests">> \o sections
    /\ live' = live \cup ({Current} \cap HasDeinit)
    /\ UNCHANGED <<opts, queue, pos, minorNum, results, minorRes, total,
                   failedLevel, wasRun, printSummary, summary, status, logs,
                   completed, claimed, raised, callRaised, owed, reported, verdict>>

InitReturnsSkip == pc = "init" /\ WriteOff("skipped")

InitReturnsError == pc = "init" /\ WriteOff("aborted")

(* fwts_failed(): fwts_framework_log() with LOG_FAILED. *)
LogFailed(failure) ==
    /\ InCallback
    /\ logs < MaxLogs
    /\ logs' = logs + 1
    /\ IF FilteredOut(failure.label)
       THEN UNCHANGED <<failedLevel, summary, minorRes, raised, callRaised, reported>>
       ELSE /\ failedLevel' = failedLevel \cup {failure.level}
            /\ SummaryAdd(failure)
            /\ minorRes' = IF Ignored(failure.level) THEN minorRes
                           ELSE Add(minorRes, "failed", 1)
            /\ raised' = raised \cup {failure}
            /\ callRaised' = callRaised \cup {failure}
            /\ reported' = IF Ignored(failure.level) THEN reported
                           ELSE reported \cup {[test |-> Current, text |-> failure.text,
                                               newline |-> failure.newline,
                                               index |-> SummaryIndex(failure.level)]}
    /\ UNCHANGED <<opts, queue, pos, pc, minorNum, results, total, wasRun,
                   printSummary, sections, status, completed, claimed, owed, live,
                   verdict>>

(* fwts_passed(), fwts_warning(), fwts_skipped(), fwts_aborted() and         *)
(* fwts_infoonly().                                                          *)
LogOutcome(field) ==
    /\ InCallback
    /\ logs < MaxLogs
    /\ logs' = logs + 1
    /\ minorRes' = IF Ignored(OutcomeLevel(field)) THEN minorRes
                   ELSE Add(minorRes, field, 1)
    /\ UNCHANGED <<opts, queue, pos, pc, minorNum, results, total, failedLevel,
                   wasRun, printSummary, summary, sections, status, histVars>>

(* The body of the loop over the minor tests, up to the call. *)
CallMinor ==
    /\ pc = "next"
    /\ minorNum <= Minors[Current]
    /\ sections' = <<"subtest_results", "subtest">> \o sections
    /\ minorRes' = Zero
    /\ pc' = "minor"
    /\ logs' = 0
    /\ callRaised' = {}
    /\ UNCHANGED <<opts, queue, pos, minorNum, results, total, failedLevel, wasRun,
                   printSummary, summary, status, completed, claimed, raised,
                   owed, reported, live, verdict>>

(* The minor test returned something other than FWTS_ABORTED. *)
MinorReturns ==
    /\ pc = "minor"
    /\ results' = [results EXCEPT ![Current] = Plus(@, minorRes)]
    /\ sections' = Tail(Tail(sections))
    /\ minorNum' = minorNum + 1
    /\ pc' = "next"
    /\ completed' = completed + 1
    /\ claimed' = claimed + minorRes["aborted"] + minorRes["skipped"]
    /\ owed' = (owed \/ \E failure \in callRaised : ~Ignored(failure.level))
    /\ UNCHANGED <<opts, queue, pos, minorRes, total, failedLevel, wasRun,
                   printSummary, summary, status, logs, raised, callRaised,
                   reported, live, verdict>>

MinorAbortsOpenSection ==                              \* mutant: one end is missing
    /\ pc = "minor"
    /\ results' = [results EXCEPT ![Current] = Add(@, "aborted", WrittenOff)]
    /\ sections' = Tail(sections)
    /\ pc' = "tally"
    /\ UNCHANGED <<opts, queue, pos, minorNum, minorRes, total, failedLevel,
                   wasRun, printSummary, summary, status, logs, histVars>>

MinorAbortsToDone ==                                   \* mutant: goto done, no deinit
    /\ pc = "minor"
    /\ results' = [results EXCEPT ![Current] = Add(@, "aborted", WrittenOff)]
    /\ sections' = Tail(Tail(Tail(sections)))
    /\ pc' = "done"
    /\ UNCHANGED <<opts, queue, pos, minorNum, minorRes, total, failedLevel,
                   wasRun, printSummary, summary, status, logs, histVars>>

(* The minor test returned FWTS_ABORTED: the loop is left, and what the      *)
(* minor test had counted is not added to the results.                       *)
MinorAborts ==
    /\ pc = "minor"
    /\ results' = [results EXCEPT ![Current] =
                       Add(@, "aborted", WrittenOff)]
    /\ sections' = Tail(Tail(sections))
    /\ pc' = "tally"
    /\ UNCHANGED <<opts, queue, pos, minorNum, minorRes, total, failedLevel,
                   wasRun, printSummary, summary, status, logs, histVars>>

(* After the loop: the results join the total and deinit() is called. *)
EndMinors ==
    /\ \/ pc = "next" /\ minorNum > Minors[Current]
       \/ pc = "tally"
    /\ sections' = Tail(sections)
    /\ total' = Plus(total, results[Current])
    /\ pc' = IF Current \in HasDeinit THEN "deinit" ELSE "done"
    /\ logs' = 0
    /\ callRaised' = {}
    /\ UNCHANGED <<opts, queue, pos, minorNum, results, minorRes, failedLevel,
                   wasRun, printSummary, summary, status, completed, claimed,
                   raised, owed, reported, live, verdict>>

DeinitReturns ==
    /\ pc = "deinit"
    /\ pc' = "done"
    /\ live' = live \ {Current}
    /\ UNCHANGED <<opts, queue, pos, minorNum, results, minorRes, total,
                   failedLevel, wasRun, printSummary, summary, sections, status,
                   logs, completed, claimed, raised, callRaised, owed, reported,
                   verdict>>

FinishTestOrRun ==                                     \* mutant: an abort ends the run
    /\ pc = "done"
    /\ verdict' = IF Current \in Utilities THEN verdict
                  ELSE Verdict(results[Current], failedLevel)
    /\ sections' = Tail(sections)
    /\ pos' = IF results[Current]["aborted"] > 0 THEN Len(queue) + 1 ELSE pos + 1
    /\ pc' = "pick"
    /\ UNCHANGED <<opts, queue, minorNum, results, minorRes, total, failedLevel,
                   wasRun, printSummary, summary, status, logs, completed, claimed,
                   raised, callRaised, owed, reported, live>>

(* The label done: of fwts_framework_run_test(), and the step to the next    *)
(* test in fwts_framework_tests_run().                                       *)
FinishTest ==
    /\ pc = "done"
    /\ verdict' = IF Current \in Utilities THEN verdict
                  ELSE Verdict(results[Current], failedLevel)
    /\ sections' = Tail(sections)
    /\ pos' = pos + 1
    /\ pc' = "pick"
    /\ UNCHANGED <<opts, queue, minorNum, results, minorRes, total, failedLevel,
                   wasRun, printSummary, summary, status, logs, completed, claimed,
                   raised, callRaised, owed, reported, live>>

(* The tail of fwts_framework_args(): the report, when one is due, reads the *)
(* totals and the lists; the status follows from the totals alone.           *)
Finish ==
    /\ pc = "pick"
    /\ pos > Len(queue)
    /\ sections' = Tail(sections)
    /\ status' = IF RunFailed THEN "failure" ELSE "success"
    /\ pc' = "exit"
    /\ UNCHANGED <<opts, queue, pos, minorNum, results, minorRes, total,
                   failedLevel, wasRun, printSummary, summary, logs, histVars>>

Terminating == pc = "exit" /\ UNCHANGED vars

Next ==
    \/ StartTest
    \/ RefuseRoot \/ SkipFeatures \/ PassGates
    \/ InitReturnsOk \/ InitReturnsSkip \/ InitReturnsError
    \/ \E failure \in Failures : LogFailed(failure)
    \/ \E field \in Fields \ {"failed"} : LogOutcome(field)
    \/ CallMinor \/ MinorReturns \/ MinorAborts
    \/ EndMinors \/ DeinitReturns
    \/ FinishTest \/ Finish
    \/ Terminating

Spec     == Init /\ [][Next]_vars
(* The framework is one thread and every callback is taken to return. *)
FairSpec == Spec /\ WF_vars(Next)

-----------------------------------------------------------------------------
Results == [Fields -> Nat]
Entry   == [test : Tests, text : Texts]
PCs     == {"pick", "gate", "init", "next", "minor", "tally", "deinit", "done", "exit"}
Verdicts == {FailedWord[l] : l \in Critical .. Low}
              \cup {"none", "FAILED", "SKIPPED", "WARNING", "ABORTED", "PASSED"}

(* Every field of the framework holds a value of its type. *)
TypeOK ==
    /\ opts \in Options
    /\ queue \in Queues
    /\ pos \in 1 .. Len(queue) + 1
    /\ pc \in PCs
    /\ pc \notin {"pick", "exit"} => pos <= Len(queue)
    /\ minorNum \in Nat
    /\ results \in [Tests -> Results]
    /\ minorRes \in Results
    /\ total \in Results
    /\ failedLevel \subseteq Levels
    /\ wasRun \subseteq Tests
    /\ printSummary \in BOOLEAN
    /\ summary \in [Critical .. Info -> Seq(Entry)]
    /\ status \in {"running", "success", "failure"}
    /\ logs \in 0 .. MaxLogs
    /\ completed \in Nat
    /\ claimed \in Nat
    /\ raised \subseteq Failures
    /\ callRaised \subseteq Failures
    /\ owed \in BOOLEAN
    /\ reported \subseteq [test : Tests, index : Critical .. Info, text : Texts,
                            newline : BOOLEAN]
    /\ live \subseteq Tests
    /\ verdict \in Verdicts

(* Sections of the results log are closed in the order they were opened on   *)
(* every path through fwts_framework_run_test(), the early exits and the     *)
(* aborted minor test included: the depth depends on the place in the code   *)
(* alone, and nothing is left open at the end. The structured log formats    *)
(* keep a bounded stack of the open sections and end the program when it     *)
(* overflows or underflows.                                                  *)
SectionsBalanced ==
    sections = CASE pc = "pick" -> <<"tests">>
                 [] pc \in {"gate", "init", "deinit", "done"} -> <<Current, "tests">>
                 [] pc \in {"next", "tally"} -> <<"subtests", Current, "tests">>
                 [] pc = "minor" ->
                      <<"subtest_results", "subtest", "subtests", Current, "tests">>
                 [] pc = "exit" -> <<>>

(* When a test is over, each of its minor tests either ran to its end or was *)
(* written off as skipped or aborted, exactly once: on every path (no        *)
(* privilege, no feature, init() skipping or failing, a minor test aborting  *)
(* half way) the results leave no minor test unaccounted for.                *)
MinorsAccounted ==
    pc = "done" =>
        results[Current]["aborted"] + results[Current]["skipped"] + completed
            = Minors[Current] + claimed

(* The rows of the final table add up to its Total line, as long as no test  *)
(* is queued twice: fw->total is kept in step with the results of the tests  *)
(* by assignments at four different places.                                  *)
Column(field) == [t \in Tests |-> results[t][field]]

TableAddsUp ==
    pc \in {"pick", "exit"} /\ IsInjective(queue) =>
        \A field \in Fields : total[field] = SumFunctionOnSet(Column(field), wasRun)

(* A failure logged by a minor test that ran to its end, at a level the      *)
(* user asked for, makes the exit status of fwts an error, whatever happened *)
(* before or after it.                                                       *)
CountedFailuresFailTheRun == status = "success" => ~owed

(* "We intentionally report the highest logged error level": the level in    *)
(* the --stdout-summary line of a test is that of the most severe failure of *)
(* this test, its init() and deinit() included, and of no earlier test. It   *)
(* may be one that --log-level keeps out of the log.                         *)
VerdictIsHighestLogged ==
    \A l \in Critical .. Low : pc = "pick" /\ verdict = FailedWord[l] =>
        /\ \E failure \in raised : failure.level = l
        /\ \A failure \in raised : failure.level = None \/ l <= failure.level

(* The lists of the final report and what was logged during the run agree:   *)
(* a message is there exactly when the level and label filters let it        *)
(* through, credited to a test that logged it, and a second time only for a  *)
(* test that logged it with a newline at its end.                            *)
SummaryMatchesLog ==
    \A i \in Critical .. Info :
        LET list  == summary[i]
            of    == {r \in reported : r.index = i}
            By(k) == {r \in of : r.text = list[k].text /\ r.test = list[k].test}
        IN  /\ {list[k].text : k \in DOMAIN list} = {r.text : r \in of}
            /\ \A k \in DOMAIN list : By(k) # {}
            /\ \A j, k \in DOMAIN list :
                  j < k /\ list[j].text = list[k].text => \E r \in By(k) : r.newline

(* "And append new item if not done so already" (fwts_summary.c:149): no     *)
(* message is listed twice at a level.                                       *)
EachListedOnce ==
    \A i \in Critical .. Info : \A j, k \in DOMAIN summary[i] :
        summary[i][j].text = summary[i][k].text => j = k

(* deinit() is called for exactly the tests that were set up: not when       *)
(* init() failed or was never reached, also when a minor test aborted, and   *)
(* before the next test starts.                                              *)
InitDeinitPaired ==
    live = IF pc \in {"next", "minor", "tally", "deinit"}
           THEN {Current} \cap HasDeinit ELSE {}

(* Whatever the tests do, as long as their callbacks return, the run ends    *)
(* with an exit status and every queued test was started.                    *)
EveryRunEnds == <>(status # "running" /\ wasRun = Range(queue))

(* doc/fwts.1: "Test failure levels equal to and higher than the specified   *)
(* are logged and recorded as failures": a run whose report lists failures   *)
(* exits with an error.                                                      *)
FailuresRecorded ==
    status = "success" /\ printSummary => \A i \in Critical .. Info : summary[i] = <<>>
=============================================================================
