---- MODULE MCAcpiTables ----
(* Tables, firmware and files for AcpiTables.                               *)
EXTENDS AcpiTables, TLC

Ssdt == [sig |-> "SSDT"]
Dsdt == [sig |-> "DSDT"]
Facs == [sig |-> "FACS"]

Fadt(len, reduced, facs32, facs64, dsdt32, dsdt64) ==
  [sig |-> "FACP", len |-> len, reduced |-> reduced, facs32 |-> facs32, facs64 |-> facs64,
   dsdt32 |-> dsdt32, dsdt64 |-> dsdt64]

\* Addresses: RSDP 1, XSDT 2, RSDT 3, FADTs 10 and 11, SSDT 20, FACS 30,
\* another 32, DSDT 31 and, past 4GB, 131; 40 cannot be read.
Fadts ==
  {Fadt("long", FALSE, 30, 0, 31, 0), Fadt("long", FALSE, 32, 30, 31, 131),
   Fadt("short", FALSE, 30, 0, 31, 0), Fadt("long", TRUE, 0, 0, 31, 0),
   Fadt("short", FALSE, 0, 0, 0, 0), Fadt("long", FALSE, 30, 0, 40, 0),
   Fadt("long", FALSE, 40, 0, 31, 0), Fadt("long", FALSE, 30, 0, 0, 0),
   Fadt("tiny", FALSE, 0, 0, 0, 0)}

Dir(name, list) == [sig |-> name, list |-> list]
Rsdp(rev, rsdt, xsdt) ==
  [sig |-> "RSDP", rev |-> rev, len |-> "long", rsdt |-> rsdt, xsdt |-> xsdt]

Memory(root, xsdt, rsdt, fadt) ==
  (1 :> root) @@ (2 :> Dir("XSDT", xsdt)) @@ (3 :> Dir("RSDT", rsdt)) @@ (10 :> fadt) @@
  (11 :> Fadt("long", FALSE, 32, 0, 31, 0)) @@ (20 :> Ssdt) @@ (30 :> Facs) @@ (32 :> Facs) @@
  (31 :> Dsdt) @@ (131 :> Dsdt)

Roots == {Rsdp(2, 3, 2), Rsdp(2, 3, 40), Rsdp(2, 0, 2), Rsdp(2, 2, 2), Rsdp(2, 3, 1)}
Lists == {<<10, 20>>, <<20, 0, 10>>, <<20, 40, 20>>, <<11, 10>>, <<20, 3>>}

InMemory ==
  {[source |-> "root", arm |-> FALSE, files |-> <<>>, rsdp |-> 1, memory |-> Memory(r, x, s, f)] :
   r \in Roots, x \in Lists, s \in Lists, f \in Fadts}

Nowhere == {[source |-> s, arm |-> FALSE, files |-> <<>>, rsdp |-> 0, memory |-> <<>>] :
            s \in {"root", "user", "path", "dump"}}

FileSets ==
  LET fadts == {<<f>> : f \in Fadts} \union {<<>>}
      others == {<<>>, <<Dsdt>>, <<Dsdt, Facs, Ssdt>>, <<Ssdt, Rsdp(0, 5, 0), Ssdt>>,
                 <<Dir("RSDT", <<5>>), Facs, Rsdp(2, 5, 6)>>, [i \in 1 .. 9 |-> Ssdt],
                 <<Dsdt, [Rsdp(2, 5, 6) EXCEPT !.len = "short"]>>}
  IN  {f \o o : f \in fadts, o \in others}

InFiles ==
  {[source |-> s, arm |-> a, files |-> f, rsdp |-> 0, memory |-> <<>>] :
   s \in {"root", "path"}, a \in BOOLEAN, f \in FileSets}

\* A dump has the addresses, or zeros.
Placed(table, addr) == [at |-> addr] @@ table
InDump ==
  {[source |-> "dump", arm |-> FALSE, rsdp |-> 0, memory |-> <<>>,
    files |-> <<Placed(f, 10), Placed(Dsdt, d), Placed(Dir("XSDT", <<10, 31>>), x)>>] :
   f \in Fadts, d \in {0, 31, 131}, x \in {0, 2}}

\* /sys has tables, and memory has too.
InBoth ==
  {[source |-> "root", arm |-> FALSE, files |-> <<f, Dsdt>>, rsdp |-> 1,
    memory |-> Memory(Rsdp(2, 3, 2), <<10>>, <<10>>, f)] : f \in Fadts}

MCMachines == InMemory \union Nowhere \union InFiles \union InDump \union InBoth

\* The files here are such as FilesAreTied is about.
ASSUME TidyFiles == \A m \in MCMachines : Tidy(m)
====
