----------------------------- MODULE MCRegistry -----------------------------
(* Four tests at three priorities, two of them sharing one, linked in any    *)
(* order, and every command line of at most two options and two names.       *)
EXTENDS Registry, TLC

CONSTANTS t1, t2, t3, t4, acpi, utils

MCTests      == {t1, t2, t3, t4}
MCCategories == {Batch, acpi, utils}
MCPriority   == (t1 :> 0) @@ (t2 :> 2) @@ (t3 :> 2) @@ (t4 :> 3)
MCTestFlags  == (t1 :> {Batch}) @@ (t2 :> {Batch, acpi}) @@ (t3 :> {acpi}) @@ (t4 :> {utils})

MCOptions ==
    {[kind |-> "category", set |-> {Batch}],
     [kind |-> "category", set |-> {acpi}],
     [kind |-> "skip", names |-> <<t2>>],
     [kind |-> "skip", names |-> <<t1, Unknown>>]}
        \cup {[kind |-> k] : k \in {"keep", "discard", "show", "invalid"}}

MCCommandLines ==
    [options : SeqOf(MCOptions, 2), names : SeqOf({t2, t4, Unknown}, 2)]
        \cup {[options |-> <<[kind |-> "help"]>>, names |-> <<>>]}
=============================================================================
