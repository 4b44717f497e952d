------------------------------ MODULE Registry ------------------------------
(***************************************************************************)
(* From the constructors of the firmware tests to the list of tests to     *)
(* run: FWTS_REGISTER() adds each test to fwts_framework_test_list in      *)
(* priority order before main() starts, in whatever order the linker put   *)
(* the constructors; fwts_framework_args() then takes the options one by   *)
(* one, the names on the command line one by one, and finally the tests of *)
(* the categories asked for.                                               *)
(***************************************************************************)
EXTENDS Naturals, Sequences, SequencesExt, FiniteSets, FiniteSetsExt, Functions

CONSTANTS
    Tests,        \* the firmware tests linked into fwts
    Categories,   \* the category flags, FWTS_FLAG_RUN_ALL being all of them
    Batch,        \* FWTS_FLAG_BATCH
    Priority,     \* Priority[t]: FWTS_TEST_FIRST (0) .. FWTS_TEST_LAST (4)
    TestFlags,    \* TestFlags[t]: the categories t is registered for
    Unknown,      \* a name that no test has
    CommandLines  \* the command lines a run may be started with, see CommandLine

Names == Tests \cup {Unknown}

(* What matters here of an option: it selects a category, skips the tests of *)
(* a comma separated list, filters errors by label, asks for a list of the   *)
(* tests, asks for something that is done at once (help, version), or is     *)
(* refused.                                                                  *)
Option ==
    [kind : {"category"}, set : SUBSET Categories]
        \cup [kind : {"skip"}, names : Seq(Names)]
        \cup [kind : {"keep", "discard", "show", "help", "invalid"}]
CommandLine == [options : Seq(Option), names : Seq(Names)]

ASSUME RegistryAssumption ==
    /\ Batch \in Categories
    /\ Priority \in [Tests -> 0 .. 4]
    /\ TestFlags \in [Tests -> SUBSET Categories]
    /\ Unknown \notin Tests
    /\ CommandLines \subseteq CommandLine

VARIABLES
    cmd,      \* the command line
    pending,  \* tests whose constructor has not run
    list,     \* fwts_framework_test_list
    pc,       \* "ctors", "options", "names", "scan", then "run" or "exit"
    next,     \* the option, name or registered test that is looked at next
    flags,    \* the categories in fw->flags
    seen,     \* the kinds of the options keep, discard and show that were given
    toSkip,   \* tests_to_skip
    toRun,    \* tests_to_run
    ret       \* what fwts_framework_args() returns, "none" before it does

vars == <<cmd, pending, list, pc, next, flags, seen, toSkip, toRun, ret>>

-----------------------------------------------------------------------------
(* fwts_list_add_ordered() with fwts_framework_compare_priority(): the new   *)
(* test goes in front of the first one whose priority is not lower than its  *)
(* own, that is, in front of the earlier tests of its own priority.          *)
AddOrderedBehind(tests, t) ==                       \* mutant: one too far
    LET i == SelectInSeq(tests, LAMBDA u : Priority[u] >= Priority[t])
    IN  IF i = 0 THEN Append(tests, t) ELSE InsertAt(tests, i + 1, t)
AddOrdered(tests, t) ==
    LET i == SelectInSeq(tests, LAMBDA u : Priority[u] >= Priority[t])
    IN  IF i = 0 THEN Append(tests, t) ELSE InsertAt(tests, i, t)

(* fwts_framework_skip_test_parse(): the tests in front of the first unknown *)
(* name are on the list even when the option is refused.                     *)
SkipPrefix(names) ==
    LET i == SelectInSeq(names, LAMBDA n : n = Unknown)
    IN  Range(IF i = 0 THEN names ELSE SubSeq(names, 1, i - 1))

Skipped(t) == t \in toSkip                          \* fwts_framework_skip_test

AppendNeverSkipping(t) == toRun' = Append(toRun, t) \* mutant: the skip list is ignored
AppendUnlessSkipped(t) == toRun' = IF Skipped(t) THEN toRun ELSE Append(toRun, t)

Init ==
    /\ cmd \in CommandLines
    /\ pending = Tests
    /\ list = <<>>
    /\ pc = "ctors"
    /\ next = 1
    /\ flags = {}
    /\ seen = {}
    /\ toSkip = {}
    /\ toRun = <<>>
    /\ ret = "none"

(* fwts_framework_test_add(), from the constructor of test t. *)
Register(t) ==
    /\ pc = "ctors"
    /\ list' = AddOrdered(list, t)
    /\ pending' = pending \ {t}
    /\ UNCHANGED <<cmd, pc, next, flags, seen, toSkip, toRun, ret>>

(* main() calls fwts_framework_args(). *)
Main ==
    /\ pc = "ctors"
    /\ pending = {}
    /\ pc' = "options"
    /\ UNCHANGED <<cmd, pending, list, next, flags, seen, toSkip, toRun, ret>>

Leave(result) == pc' = "exit" /\ ret' = result /\ UNCHANGED <<next, toRun>>

(* fwts_framework_options_handler(), for the next option of the command line. *)
TakeOption ==
    /\ pc = "options"
    /\ next <= Len(cmd.options)
    /\ LET option == cmd.options[next]
       IN  \/ /\ option.kind = "category"
              /\ flags' = flags \cup option.set
              /\ next' = next + 1
              /\ UNCHANGED <<pc, seen, toSkip, toRun, ret>>
           \/ /\ option.kind = "skip"
              /\ toSkip' = toSkip \cup SkipPrefix(option.names)
              /\ IF Unknown \in Range(option.names)
                 THEN Leave("ok")
                 ELSE next' = next + 1 /\ UNCHANGED <<pc, toRun, ret>>
              /\ UNCHANGED <<flags, seen>>
           \/ /\ option.kind \in {"keep", "discard", "show"}
              /\ seen' = seen \cup {option.kind}
              /\ next' = next + 1
              /\ UNCHANGED <<pc, flags, toSkip, toRun, ret>>
           \/ /\ option.kind = "help"
              /\ Leave("ok")
              /\ UNCHANGED <<flags, seen, toSkip>>
           \/ /\ option.kind = "invalid"
              /\ Leave("error")
              /\ UNCHANGED <<flags, seen, toSkip>>
    /\ UNCHANGED <<cmd, pending, list>>

(* Between the options and the names: a request to show the tests is served, *)
(* the two error filters exclude each other, and the results log may not     *)
(* open (or be refused, when several logs are to go to one stream).          *)
CheckOptions ==
    /\ pc = "options"
    /\ next > Len(cmd.options)
    /\ \/ "show" \in seen /\ Leave("ok")
       \/ "show" \notin seen /\ Leave("error")
       \/ /\ "show" \notin seen
          /\ ~({"keep", "discard"} \subseteq seen)
          /\ pc' = "names"
          /\ next' = 1
          /\ UNCHANGED <<toRun, ret>>
    /\ UNCHANGED <<cmd, pending, list, flags, seen, toSkip>>

TakeNameUnchecked ==                                \* mutant: the name is not looked up
    /\ pc = "names"
    /\ next <= Len(cmd.names)
    /\ AppendUnlessSkipped(cmd.names[next])
    /\ next' = next + 1
    /\ UNCHANGED <<cmd, pending, list, pc, flags, seen, toSkip, ret>>

(* The loop over the names on the command line. *)
TakeName ==
    /\ pc = "names"
    /\ next <= Len(cmd.names)
    /\ IF cmd.names[next] = Unknown
       THEN Leave("error")
       ELSE /\ AppendUnlessSkipped(cmd.names[next])
            /\ next' = next + 1
            /\ UNCHANGED <<pc, ret>>
    /\ UNCHANGED <<cmd, pending, list, flags, seen, toSkip>>

(* "No options given and no tests, so default to run batch tests" *)
DefaultsToBatch == flags = {} /\ toRun = <<>>

EndNames ==
    /\ pc = "names"
    /\ next > Len(cmd.names)
    /\ flags' = IF DefaultsToBatch THEN {Batch} ELSE flags
    /\ pc' = "scan"
    /\ next' = 1
    /\ UNCHANGED <<cmd, pending, list, seen, toSkip, toRun, ret>>

ScanTestStuck ==                                    \* mutant: only advances on a match
    /\ pc = "scan"
    /\ next <= Len(list)
    /\ IF flags \cap TestFlags[list[next]] # {}
       THEN AppendUnlessSkipped(list[next]) /\ next' = next + 1
       ELSE UNCHANGED <<toRun, next>>
    /\ UNCHANGED <<cmd, pending, list, pc, flags, seen, toSkip, ret>>

(* The loop over the registered tests, for the categories asked for. *)
ScanTest ==
    /\ pc = "scan"
    /\ next <= Len(list)
    /\ IF flags \cap TestFlags[list[next]] # {}
       THEN AppendUnlessSkipped(list[next])
       ELSE UNCHANGED toRun
    /\ next' = next + 1
    /\ UNCHANGED <<cmd, pending, list, pc, flags, seen, toSkip, ret>>

(* tests_to_run is complete: fwts_framework_tests_run() takes over. *)
EndScan ==
    /\ pc = "scan"
    /\ next > Len(list)
    /\ pc' = "run"
    /\ UNCHANGED <<cmd, pending, list, next, flags, seen, toSkip, toRun, ret>>

Terminating == pc \in {"run", "exit"} /\ UNCHANGED vars

Next ==
    \/ \E t \in pending : Register(t)
    \/ Main \/ TakeOption \/ CheckOptions
    \/ TakeName \/ EndNames \/ ScanTest \/ EndScan
    \/ Terminating

Spec     == Init /\ [][Next]_vars
(* One thread, no blocking call on this path. *)
FairSpec == Spec /\ WF_vars(Next)

-----------------------------------------------------------------------------
(* The elements of S among the first n of a sequence, in their order; what   *)
(* SelectSeq does, without its recursion.                                    *)
Places(seq, n, S) == {i \in 1 .. n : seq[i] \in S}
Rank(places, i) == Cardinality({j \in places : j <= i})
Ranked(places, k) == CHOOSE i \in places : Rank(places, i) = k
SelectedUpTo(seq, n, S) ==
    LET places == Places(seq, n, S)
    IN  [k \in 1 .. Cardinality(places) |-> seq[Ranked(places, k)]]
Selected(seq, S) == SelectedUpTo(seq, Len(seq), S)

(* The state of the framework before the run is made of values of its types. *)
TypeOK ==
    /\ cmd \in CommandLines
    /\ pending \subseteq Tests
    /\ list \in Seq(Tests)
    /\ pc \in {"ctors", "options", "names", "scan", "run", "exit"}
    /\ next \in Nat \ {0}
    /\ flags \subseteq Categories
    /\ seen \subseteq {"keep", "discard", "show"}
    /\ toSkip \subseteq Tests
    /\ toRun \in Seq(Tests)
    /\ ret \in {"none", "ok", "error"}

(* README_SOURCE.txt: tests "will run before tests of higher priory ranking  *)
(* and after tests of lower priority ranking": whatever the link order, the  *)
(* registered tests are on the list exactly once, in priority order.         *)
RegisteredInOrder ==
    /\ Range(list) = Tests \ pending
    /\ IsInjective(list)
    /\ \A i, j \in DOMAIN list : i < j => Priority[list[i]] <= Priority[list[j]]

(* The tests to run are the named ones in the order of the command line,     *)
(* followed by those of the chosen categories in priority order, without the *)
(* ones to be skipped: neither the order of the options nor where a --skip-  *)
(* test stands among them makes a difference.                                *)
GivenOptions(kind) == {o \in Range(cmd.options) : o.kind = kind}
ToSkip  == UNION {Range(o.names) : o \in GivenOptions("skip")}
Chosen  == UNION {o.set : o \in GivenOptions("category")}
Named   == Selected(cmd.names, Names \ ToSkip)
Wanted  == IF Chosen = {} /\ Named = <<>> THEN {Batch} ELSE Chosen
InCategory == {t \in Tests \ ToSkip : Wanted \cap TestFlags[t] # {}}
SelectionIsExact == pc = "run" => toRun = Named \o Selected(list, InCategory)

(* A command line that names an unknown test, anywhere, runs no test at all. *)
UnknownNameRunsNothing ==
    Unknown \in Range(cmd.names) \cup ToSkip => pc # "run"

(* The list of tests is settled, or fwts has returned, whatever was asked.   *)
SelectionEnds == <>(pc = "run" \/ ret # "none")
=============================================================================
