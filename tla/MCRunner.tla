------------------------------ MODULE MCRunner ------------------------------
(* A firmware test with every kind of gate and callback, one that can only   *)
(* be skipped, and a utility, run under options that differ in what they let *)
(* through. One list names a test twice, as a command line that gives both   *)
(* the name of a test and its category does.                                 *)
EXTENDS Runner

CONSTANTS t1, t2, t3, l1, l2, x1, x2

MCTests         == {t1, t2, t3}
MCMinors        == (t1 :> 2) @@ (t2 :> 1) @@ (t3 :> 1)
MCNeedsRoot     == {t1}
MCLacksFeatures == {t2}
MCHasInit       == {t1}
MCHasDeinit     == {t1, t3}
MCUtilities     == {t3}
MCQueues        == {<<>>, <<t1, t2>>, <<t3, t1>>, <<t3, t3>>}
MCLabels        == {l1, l2}
MCTexts         == {x1, x2}

Option(filter, discard, keep, root) ==
    [filter |-> filter, discard |-> discard, keep |-> keep, root |-> root]
MCOptions ==
    {Option(Info, {}, {}, TRUE), Option(Info, {}, {}, FALSE),
     Option(Critical, {}, {l1}, TRUE), Option(Medium, {l1}, {}, TRUE)}

MCFailures ==
    {[label |-> l1, level |-> Critical, text |-> x2, newline |-> FALSE],
     [label |-> l2, level |-> Low, text |-> x1, newline |-> FALSE],
     [label |-> l1, level |-> Low, text |-> x1, newline |-> TRUE]}
=============================================================================
