------------------------------ MODULE AcpiTables ------------------------------
(***************************************************************************)
(* The cache of ACPI tables (fwts_acpi_tables.c).  The first query loads   *)
(* it: from a directory, a dump, /sys or, where /sys has nothing, from the *)
(* firmware's memory, following RSDP, XSDT, RSDT and FADT.  What came from *)
(* files gets made-up addresses and the tables that are missing.           *)
(*                                                                         *)
(* A load may start a load: a FADT without a FACS asks for the FADT of a   *)
(* cache that is not loaded yet.  So loads are frames on a stack.          *)
(*                                                                         *)
(* A table is a record with its signature sig and                          *)
(*   RSDP        rev, len ("short" or, from 36 bytes, "long"), rsdt, xsdt  *)
(*   RSDT, XSDT  list: the addresses in it                                 *)
(*   FACP        len ("tiny", "short" or "long"), reduced, and addresses   *)
(*               facs32, facs64, dsdt32, dsdt64; 0 where there is none, or *)
(*               where the table ends before (low memory is mapped, and 0) *)
(* and in a dump its address at.                                           *)
(***************************************************************************)
EXTENDS Integers, SequencesExt

CONSTANTS
  Machines,   \* what tables can be loaded from, see Machine below
  MaxTables,  \* ACPI_MAX_TABLES
  MaxQueries, \* bound: queries asked
  FakeBase,   \* where made-up addresses start
  Limit32,    \* 2^32
  Starving    \* low memory may run out

ASSUME AcpiTablesAssumption ==
  /\ MaxTables \in Nat \ {0}
  /\ MaxQueries \in Nat
  /\ FakeBase \in Nat \ {0}
  /\ Limit32 \in Nat \ {0}
  /\ Starving \in BOOLEAN

TableNames == {"RSDP", "RSDT", "XSDT", "FACP", "FACS", "DSDT", "SSDT"}

IsTable(t) ==
  /\ {"sig"} \subseteq DOMAIN t /\ t.sig \in TableNames
  /\ t.sig = "RSDP" =>
       /\ {"rev", "len", "rsdt", "xsdt"} \subseteq DOMAIN t
       /\ t.len \in {"short", "long"} /\ {t.rev, t.rsdt, t.xsdt} \subseteq Nat
  /\ t.sig \in {"RSDT", "XSDT"} => t.list \in Seq(Nat)
  /\ t.sig = "FACP" =>
       /\ {"len", "reduced", "facs32", "facs64", "dsdt32", "dsdt64"} \subseteq DOMAIN t
       /\ t.len \in {"tiny", "short", "long"} /\ t.reduced \in BOOLEAN
       /\ {t.facs32, t.facs64, t.dsdt32, t.dsdt64} \subseteq Nat
       /\ t.len # "long" => t.facs64 = 0 /\ t.dsdt64 = 0

\* Address 0 is skipped wherever the code meets it: nothing is read there. What
\* the RSDP points at is read as a XSDT or a RSDT whatever its signature is: it
\* is one here, or another root.
ASSUME MachinesAssumption ==
  \A m \in Machines :
    /\ m.files \in Seq(Range(m.files))
    /\ \A t \in Range(m.files) : IsTable(t) /\ (m.source = "dump" => t.at \in Nat)
    /\ DOMAIN m.memory \subseteq Nat \ {0}
    /\ \A a \in DOMAIN m.memory : IsTable(m.memory[a])
    /\ m.rsdp \in DOMAIN m.memory =>
         LET root == m.memory[m.rsdp]
         IN  /\ root.sig = "RSDP"
             /\ root.xsdt \in DOMAIN m.memory \ {m.rsdp} => m.memory[root.xsdt].sig = "XSDT"
             /\ root.rsdt \in DOMAIN m.memory \ {m.rsdp, root.xsdt} =>
                  m.memory[root.rsdt].sig = "RSDT"

VARIABLES
  machine,  \* source: "path", "dump", "root" or "user"; arm; files, a sequence
            \* of tables; rsdp, its address or 0; memory, tables by address
  loaded,   \* acpi_tables_loaded: "not", "ok" or "failed"
  tables,   \* tables[], up to the first free slot
  heap,     \* every copy made in low memory: its table, and whether it is live
  fakes,    \* made-up addresses given out
  facsLast, \* facs_last_phys_addr
  frames,   \* the loads under way, the innermost last
  queries,  \* queries asked
  ended,    \* "no", "exit" or "crash"
  starved   \* history: an allocation has failed

cacheVars == <<loaded, tables, heap, fakes, facsLast>>
vars == <<machine, cacheVars, frames, queries, ended, starved>>

Init ==
  /\ machine \in Machines
  /\ loaded = "not"
  /\ tables = <<>>
  /\ heap = <<>>
  /\ fakes = 0
  /\ facsLast = 0
  /\ frames = <<>>
  /\ queries = 0
  /\ ended = "no"
  /\ starved = FALSE

-----------------------------------------------------------------------------
(* The cache.                                                              *)

Live(copy) == heap[copy].live
Content(copy) == heap[copy].table

Named(ts, name) == {i \in DOMAIN ts : ts[i].name = name}
Duplicate(ts, addr) == addr # 0 /\ \E i \in DOMAIN ts : ts[i].addr = addr

\* The index of the first table of a name, 0 when there is none.
Find(name) ==
  LET found == {i \in Named(tables, name) : tables[i].which = 0}
  IN  IF found = {} THEN 0 ELSE CHOOSE i \in found : TRUE

\* The bug of adding a table whatever its address.
AddTableAgain(ts, name, copy, addr, from) ==
  IF Len(ts) = MaxTables THEN ts
  ELSE Append(ts, [name |-> name, data |-> copy, addr |-> addr, from |-> from,
                   which |-> Cardinality(Named(ts, name))])

\* fwts_acpi_add_table(), for a copy that is new.
AddTable(ts, name, copy, addr, from) ==
  IF Duplicate(ts, addr) \/ Len(ts) = MaxTables THEN ts
  ELSE Append(ts, [name |-> name, data |-> copy, addr |-> addr, from |-> from,
                   which |-> Cardinality(Named(ts, name))])

\* The new copy of a duplicate is freed at once; of one too many it is lost.
AddAs(name, table, addr, from) ==
  LET copy == Len(heap) + 1
  IN  /\ tables' = AddTable(tables, name, copy, addr, from)
      /\ heap' = Append(heap, [table |-> table, live |-> ~Duplicate(tables, addr)])
Add(table, addr, from) == AddAs(table.sig, table, addr, from)

\* The bug of freeing the tables and not their slots.
ReleaseData ==
  /\ heap' = [c \in DOMAIN heap |->
                IF \E i \in DOMAIN tables : tables[i].data = c
                THEN [heap[c] EXCEPT !.live = FALSE] ELSE heap[c]]
  /\ UNCHANGED tables

\* fwts_acpi_free_tables().
Release ==
  /\ heap' = [c \in DOMAIN heap |->
                IF \E i \in DOMAIN tables : tables[i].data = c
                THEN [heap[c] EXCEPT !.live = FALSE] ELSE heap[c]]
  /\ tables' = <<>>

-----------------------------------------------------------------------------
(* The stack of loads.                                                     *)

(* The locals of a load: its place, the file or entry that is next, tables  *)
(* counted, the copies of RSDP, of RSDT or XSDT and of the FADT in hand, the *)
(* directory that is read, and where the fixup has RSDT and XSDT.            *)
Frame(place) == [at |-> place, i |-> 1, count |-> 0, rsdp |-> 0, list |-> 0,
                 fadt |-> 0, dir |-> "XSDT", RSDT |-> 0, XSDT |-> 0]
Depth == Len(frames)
Top == frames[Depth]
At(place) == ended = "no" /\ frames # <<>> /\ Top.at = place

\* The innermost load goes on, or returns what it made of the cache.
Go(frame) == frames' = [frames EXCEPT ![Depth] = frame]
Goto(place) == Go([Top EXCEPT !.at = place])
Return(result) == loaded' = result /\ frames' = Front(frames)

\* Reading memory that was unmapped.
Crash ==
  /\ ended' = "crash"
  /\ UNCHANGED <<machine, cacheVars, frames, queries, starved>>

\* Low memory is there, or it is not and the copy cannot be made.
Enough == starved' = starved
Starves == Starving /\ starved' = TRUE
Step == UNCHANGED <<machine, queries, ended>>

-----------------------------------------------------------------------------
(* find_table(), get_table() and the others: the first query loads.        *)
Ask ==
  /\ ended = "no" /\ frames = <<>>
  /\ queries < MaxQueries
  /\ queries' = queries + 1
  /\ frames' = IF loaded = "not" THEN <<Frame("begin")>> ELSE <<>>
  /\ UNCHANGED <<machine, cacheVars, ended, starved>>

Exit ==
  /\ ended = "no" /\ frames = <<>>
  /\ ended' = "exit"
  /\ Release
  /\ UNCHANGED <<machine, loaded, fakes, facsLast, frames, queries, starved>>

\* Nobody but root may read memory and /sys, and a dump may not be readable.
Begin ==
  /\ At("begin")
  /\ \/ machine.source # "user" /\ Goto("files") /\ UNCHANGED loaded
     \/ machine.source = "user" /\ Return("failed")
     \/ machine.source = "dump" /\ machine.files = <<>> /\ Return("failed")
  /\ Step
  /\ UNCHANGED <<tables, heap, fakes, facsLast, starved>>

(***************************************************************************)
(* Files: a directory, /sys or a dump.                                     *)
(***************************************************************************)
FakeAddr == FakeBase + fakes

\* A dump has addresses and may have a RSDT and a XSDT worth keeping.
LoadFile ==
  /\ At("files")
  /\ Top.i <= Len(machine.files)
  /\ LET table == machine.files[Top.i]
         faked == machine.source # "dump" \/ table.at = 0
         next  == [Top EXCEPT !.i = @ + 1, !.count = @ + 1]
     IN  \/ /\ Starves
            /\ Go([Top EXCEPT !.i = @ + 1])
            /\ UNCHANGED <<tables, heap, fakes>>
         \/ /\ Enough
            /\ machine.source # "dump" /\ table.sig \in {"RSDT", "XSDT"}
            /\ Go(next)
            /\ UNCHANGED <<tables, heap, fakes>>
         \/ /\ Enough
            /\ machine.source = "dump" \/ table.sig \notin {"RSDT", "XSDT"}
            /\ Add(table, IF faked THEN FakeAddr ELSE table.at, "file")
            /\ fakes' = IF faked THEN fakes + 1 ELSE fakes
            /\ Go(next)
  /\ Step
  /\ UNCHANGED <<loaded, facsLast>>

\* Without a table /sys gives way to memory and a directory fails; a dump
\* that could be opened is never too short.
EndFiles ==
  /\ At("files")
  /\ Top.i > Len(machine.files)
  /\ IF Top.count > 0 \/ machine.source = "dump"
     THEN loaded' = "ok" /\ Goto("fixFacs")
     ELSE IF machine.source = "root" THEN Goto("rsdp") /\ UNCHANGED loaded
                                     ELSE Return("failed")
  /\ Step
  /\ UNCHANGED <<tables, heap, fakes, facsLast, starved>>

(***************************************************************************)
(* fwts_acpi_load_tables_fixup(): what files lack is made up.  Its result  *)
(* is ignored: the cache is loaded whether or not it got to its end.       *)
(***************************************************************************)
Table(name) == Content(tables[Find(name)].data)
GiveUpFixup == frames' = Front(frames) /\ UNCHANGED <<tables, heap, fakes>>
MadeUp(table, addr) == Add(table, addr, "fixup")

\* A FACS is made at the address the FADT has for it, or gets one.
FixFacs ==
  /\ At("fixFacs")
  /\ IF Find("FACP") = 0 THEN GiveUpFixup /\ Enough
     ELSE IF Find("FACS") # 0
     THEN Goto("fixAddrs") /\ Enough /\ UNCHANGED <<tables, heap, fakes>>
     ELSE LET fadt  == Table("FACP")
              given == IF fadt.len = "long" /\ fadt.facs64 # 0 THEN fadt.facs64
                                                               ELSE fadt.facs32
              facs  == [sig |-> "FACS"]
          IN  \/ Starves /\ GiveUpFixup
              \/ /\ Enough
                 /\ given # 0
                 /\ MadeUp(facs, given)
                 /\ Goto("fixAddrs")
                 /\ UNCHANGED fakes
              \/ /\ Enough
                 /\ given = 0
                 /\ tables' = AddTable(tables, "FACS", Len(heap) + 1, FakeAddr, "fixup")
                 /\ heap' = Append(
                      [heap EXCEPT ![tables[Find("FACP")].data].table =
                         IF fadt.len = "long" THEN [@ EXCEPT !.facs64 = FakeAddr]
                                              ELSE [@ EXCEPT !.facs32 = FakeAddr]],
                      [table |-> facs, live |-> ~Duplicate(tables, FakeAddr)])
                 /\ fakes' = fakes + 1
                 /\ Goto("fixAddrs")
  /\ Step
  /\ UNCHANGED <<loaded, facsLast>>

\* fwts_acpi_fixup_addr_from_fadt(): 64 bits before 32, and no zeros.
Moved(ts, name, addr32, addr64) ==
  LET i == Find(name)
      addr == IF addr64 # 0 THEN addr64 ELSE addr32
  IN  IF i = 0 \/ addr = 0 THEN ts ELSE [ts EXCEPT ![i].addr = addr]

\* The bug of a DSDT that keeps its made-up address.
FixAddrsFacsOnly ==
  /\ At("fixAddrs")
  /\ LET fadt == Table("FACP")
     IN  tables' = Moved(tables, "FACS", fadt.facs32, fadt.facs64)
  /\ Goto("fixRsdt")
  /\ Step
  /\ UNCHANGED <<loaded, heap, fakes, facsLast, starved>>

FixAddrs ==
  /\ At("fixAddrs")
  /\ LET fadt == Table("FACP")
     IN  tables' = Moved(Moved(tables, "FACS", fadt.facs32, fadt.facs64),
                         "DSDT", fadt.dsdt32, fadt.dsdt64)
  /\ Goto("fixRsdt")
  /\ Step
  /\ UNCHANGED <<loaded, heap, fakes, facsLast, starved>>

\* fwts_acpi_table_fixable(): anything but a RSDT or a XSDT.
Fixable ==
  LET kept   == {i \in DOMAIN tables : Content(tables[i].data).sig \notin {"RSDT", "XSDT"}}
      Nth(k) == CHOOSE i \in kept : Cardinality({j \in kept : j <= i}) = k
  IN  [k \in 1 .. Cardinality(kept) |-> tables[Nth(k)]]

\* A RSDT has the low half of each address.
Directory(name) ==
  [sig |-> name,
   list |-> [i \in DOMAIN Fixable |-> IF name = "RSDT" THEN Fixable[i].addr % Limit32
                                                       ELSE Fixable[i].addr]]

FixDirectory(name, place, next) ==
  /\ At(place)
  /\ \/ /\ Find(name) # 0
        /\ Go([Top EXCEPT !.at = next, ![name] = tables[Find(name)].addr])
        /\ Enough
        /\ UNCHANGED <<tables, heap, fakes>>
     \/ /\ Find(name) = 0
        /\ Starves /\ GiveUpFixup
     \/ /\ Find(name) = 0
        /\ Enough
        /\ MadeUp(Directory(name), FakeAddr)
        /\ fakes' = fakes + 1
        /\ Go([Top EXCEPT !.at = next, ![name] = FakeAddr])
  /\ Step
  /\ UNCHANGED <<loaded, facsLast>>

FixRsdt == FixDirectory("RSDT", "fixRsdt", "fixXsdt")
FixXsdt == FixDirectory("XSDT", "fixXsdt", "fixRsdp")

\* A RSDP of revision 0, or a short one, has the RSDT only.
Extended(rsdp) == rsdp.rev > 0 /\ rsdp.len = "long"

\* The RSDP is made to point at the two.
Pointed(rsdp) ==
  [rsdp EXCEPT !.rsdt = IF machine.arm THEN @ ELSE Top.RSDT % Limit32,
               !.xsdt = IF Extended(rsdp) THEN Top.XSDT ELSE @]

FixRsdp ==
  /\ At("fixRsdp")
  /\ frames' = Front(frames)
  /\ \/ /\ Find("RSDP") # 0
        /\ Enough
        /\ heap' = [heap EXCEPT ![tables[Find("RSDP")].data].table = Pointed(@)]
        /\ UNCHANGED <<tables, fakes>>
     \/ /\ Find("RSDP") = 0
        /\ Starves
        /\ UNCHANGED <<tables, heap, fakes>>
     \/ /\ Find("RSDP") = 0
        /\ Enough
        /\ MadeUp(Pointed([sig |-> "RSDP", rev |-> 2, len |-> "long", rsdt |-> 0, xsdt |-> 0]),
                  FakeAddr)
        /\ fakes' = fakes + 1
  /\ Step
  /\ UNCHANGED <<loaded, facsLast>>

(***************************************************************************)
(* The firmware's memory.                                                  *)
(***************************************************************************)
Readable(addr) == addr \in DOMAIN machine.memory

\* Everything that was cached so far is given up.
Fail ==
  /\ Release
  /\ Return("failed")
  /\ Step
  /\ UNCHANGED <<fakes, facsLast>>

GetRsdp ==
  /\ At("rsdp")
  /\ machine.rsdp # 0 /\ Readable(machine.rsdp)
  /\ Enough
  /\ Add(machine.memory[machine.rsdp], machine.rsdp, "firmware")
  /\ Go([Top EXCEPT !.at = "root", !.rsdp = Len(heap) + 1])
  /\ Step
  /\ UNCHANGED <<loaded, fakes, facsLast>>

\* There is no RSDP, or no memory for it.
NoRsdp ==
  /\ At("rsdp")
  /\ IF machine.rsdp # 0 /\ Readable(machine.rsdp) THEN Starves ELSE Enough
  /\ Return("failed")
  /\ Step
  /\ UNCHANGED <<tables, heap, fakes, facsLast>>

\* After the XSDT the RSDT, and then the load has succeeded.
NextDirectory ==
  IF Top.dir = "XSDT" THEN Go([Top EXCEPT !.at = "root", !.dir = "RSDT"]) /\ UNCHANGED loaded
                      ELSE Return("ok")

\* The bug of code copied for the RSDT and not changed.
RootAddrCopied == Content(Top.rsdp).xsdt

\* rsdp->xsdt_address or rsdp->rsdt_address is followed.
RootAddr == IF Top.dir = "XSDT" THEN Content(Top.rsdp).xsdt ELSE Content(Top.rsdp).rsdt

GetDirectory ==
  /\ At("root") /\ Live(Top.rsdp)
  /\ Readable(RootAddr)
  /\ Enough
  /\ AddAs(Top.dir, machine.memory[RootAddr], RootAddr, "firmware")
  /\ Go([Top EXCEPT !.at = "entries", !.i = 1, !.list = Len(heap) + 1])
  /\ Step
  /\ UNCHANGED <<loaded, fakes, facsLast>>

NoDirectory ==
  /\ At("root") /\ Live(Top.rsdp)
  /\ IF Readable(RootAddr) THEN Starves ELSE Enough
  /\ NextDirectory
  /\ Step
  /\ UNCHANGED <<tables, heap, fakes, facsLast>>

EndDirectory ==
  /\ At("entries") /\ Live(Top.list)
  /\ Top.i > Len(Content(Top.list).list)
  /\ NextDirectory
  /\ Step
  /\ UNCHANGED <<tables, heap, fakes, facsLast, starved>>

\* The copy of RSDP, XSDT or RSDT this load goes by was freed as a duplicate.
ReadFreed ==
  /\ \/ At("root") /\ ~Live(Top.rsdp)
     \/ At("entries") /\ ~Live(Top.list)
  /\ Crash

Entry == Content(Top.list).list[Top.i]

NoEntry ==
  /\ At("entries") /\ Live(Top.list)
  /\ Top.i <= Len(Content(Top.list).list)
  /\ IF Readable(Entry) THEN Starves ELSE Enough
  /\ Go([Top EXCEPT !.i = @ + 1])
  /\ Step
  /\ UNCHANGED cacheVars

\* A FADT seen a moment ago is not followed again.
GetEntry ==
  /\ At("entries") /\ Live(Top.list)
  /\ Top.i <= Len(Content(Top.list).list)
  /\ Readable(Entry)
  /\ Enough
  /\ LET table == machine.memory[Entry]
     IN  IF table.sig = "FACP" /\ Entry # facsLast
         THEN /\ heap' = Append(heap, [table |-> table, live |-> TRUE])
              /\ facsLast' = Entry
              /\ Go([Top EXCEPT !.at = "facs", !.fadt = Len(heap) + 1])
              /\ UNCHANGED tables
         ELSE /\ Add(table, Entry, "firmware")
              /\ Go([Top EXCEPT !.i = @ + 1])
              /\ UNCHANGED facsLast
  /\ Step
  /\ UNCHANGED <<loaded, fakes>>

\* The address that the length of the FADT and the zeros in it leave.
Chosen(fadt, addr32, addr64) ==
  IF fadt.len = "long" /\ addr64 # 0 THEN addr64 ELSE addr32

FadtAddr ==
  LET fadt == Content(Top.fadt)
  IN  IF Top.at = "facs" THEN Chosen(fadt, fadt.facs32, fadt.facs64)
                         ELSE Chosen(fadt, fadt.dsdt32, fadt.dsdt64)

\* The FADT itself is added when what it points at has been.
AfterFadt(ts, hp) ==
  /\ tables' = AddTable(ts, "FACP", Top.fadt, Entry, "firmware")
  /\ heap' = [hp EXCEPT ![Top.fadt].live = ~Duplicate(ts, Entry)]
  /\ Go([Top EXCEPT !.at = "entries", !.i = @ + 1])

\* fwts_acpi_handle_fadt_tables() for the FACS.
GetFacs ==
  /\ At("facs")
  /\ Content(Top.fadt).len # "tiny" /\ Readable(FadtAddr)
  /\ Enough
  /\ Add(machine.memory[FadtAddr], FadtAddr, "firmware")
  /\ Goto("dsdt")
  /\ Step
  /\ UNCHANGED <<loaded, fakes, facsLast>>

\* No address at all: is it a machine with reduced hardware?
NoFacs ==
  /\ At("facs")
  /\ Content(Top.fadt).len # "tiny" /\ FadtAddr = 0
  /\ Goto("reduced")
  /\ Step
  /\ UNCHANGED <<cacheVars, starved>>

\* ... and for the DSDT.
GetDsdt ==
  /\ At("dsdt")
  /\ Content(Top.fadt).len # "tiny" /\ Readable(FadtAddr)
  /\ Enough
  /\ LET copy  == Len(heap) + 1
         table == machine.memory[FadtAddr]
     IN  AfterFadt(AddTable(tables, table.sig, copy, FadtAddr, "firmware"),
                   Append(heap, [table |-> table, live |-> ~Duplicate(tables, FadtAddr)]))
  /\ Step
  /\ UNCHANGED <<loaded, fakes, facsLast>>

\* A table the FADT needs cannot be had, and the load fails.
FadtFails ==
  /\ At("facs") \/ At("dsdt")
  /\ \/ Content(Top.fadt).len = "tiny" /\ Enough
     \/ FadtAddr = 0 /\ At("dsdt") /\ Enough
     \/ FadtAddr # 0 /\ (IF Readable(FadtAddr) THEN Starves ELSE Enough)
  /\ Fail

\* fwts_acpi_is_reduced_hardware() asks for the FADT, which loads the cache.
AskReduced ==
  /\ At("reduced")
  /\ loaded = "not"
  /\ frames' = Append(frames, Frame("begin"))
  /\ Step
  /\ UNCHANGED <<cacheVars, starved>>

Reduced ==
  /\ loaded = "ok"
  /\ Find("FACP") # 0
  /\ Table("FACP").reduced

AnswerReduced ==
  /\ At("reduced")
  /\ loaded # "not"
  /\ Reduced
  /\ Goto("dsdt")
  /\ Step
  /\ UNCHANGED <<cacheVars, starved>>

AnswerNotReduced ==
  /\ At("reduced")
  /\ loaded # "not"
  /\ ~Reduced
  /\ Enough
  /\ Fail

-----------------------------------------------------------------------------
Files == LoadFile \/ EndFiles
Fixup == FixFacs \/ FixAddrs \/ FixRsdt \/ FixXsdt \/ FixRsdp
Firmware ==
  \/ GetRsdp \/ NoRsdp \/ GetDirectory \/ NoDirectory \/ EndDirectory \/ ReadFreed
  \/ GetEntry \/ NoEntry \/ GetFacs \/ NoFacs \/ GetDsdt \/ FadtFails
  \/ AskReduced \/ AnswerReduced \/ AnswerNotReduced

Terminating == ended # "no" /\ UNCHANGED vars

Next == Ask \/ Exit \/ Begin \/ Files \/ Fixup \/ Firmware \/ Terminating

Spec == Init /\ [][Next]_vars

-----------------------------------------------------------------------------
Copies == DOMAIN heap

(* The variables have their types, and no more than MaxTables are cached.   *)
TypeOK ==
  /\ loaded \in {"not", "ok", "failed"}
  /\ Len(tables) <= MaxTables
  /\ \A i \in DOMAIN tables :
       /\ tables[i].name \in TableNames
       /\ tables[i].data \in Copies
       /\ {tables[i].addr, tables[i].which} \subseteq Nat
       /\ tables[i].from \in {"file", "firmware", "fixup"}
  /\ \A c \in Copies : heap[c].live \in BOOLEAN
  /\ {fakes, facsLast, queries} \subseteq Nat
  /\ \A f \in Range(frames) : {f.rsdp, f.list, f.fadt} \subseteq Copies \union {0}
  /\ ended \in {"no", "exit", "crash"}
  /\ starved \in BOOLEAN

(* Whatever a load met and however it ended, each table that is cached has a *)
(* copy of its own that was not freed, and the tables of one name are         *)
(* numbered without a gap, so that find_table(name, 0), (name, 1), ... finds  *)
(* them all.                                                                 *)
CacheSound ==
  /\ \A i, j \in DOMAIN tables : tables[i].data = tables[j].data => i = j
  /\ \A i \in DOMAIN tables : Live(tables[i].data)
  /\ \A name \in TableNames :
       {tables[i].which : i \in Named(tables, name)} = 0 .. Cardinality(Named(tables, name)) - 1

\* What a FADT points at, and what a RSDT or a XSDT leads to.
Pointers(fadt) ==
  {Chosen(fadt, fadt.facs32, fadt.facs64), Chosen(fadt, fadt.dsdt32, fadt.dsdt64)} \ {0}
LedTo(m, dir) ==
  IF dir \notin DOMAIN m.memory THEN {}
  ELSE LET listed == Range(m.memory[dir].list) \intersect DOMAIN m.memory
           fadts  == {a \in listed : m.memory[a].sig = "FACP"}
       IN  listed \union UNION {Pointers(m.memory[a]) : a \in fadts}

\* Firmware that has a root where it has another, or that lists its RSDT in
\* its XSDT.
Muddled(m) ==
  /\ m.rsdp \in DOMAIN m.memory
  /\ LET root == m.memory[m.rsdp]
     IN  \/ root.xsdt = m.rsdp
         \/ /\ root.rsdt \in DOMAIN m.memory
            /\ root.rsdt \in {m.rsdp, root.xsdt} \union LedTo(m, root.xsdt)

(* A load goes by copies that add_table() may have freed as duplicates: it   *)
(* never reads one that was, unless one load runs inside another or the      *)
(* firmware has a root in two places.                                        *)
FreedNeverRead == ended = "crash" => Depth > 1 \/ Muddled(machine)

\* The load is over and nothing was lost for want of room.
Loaded == loaded = "ok" /\ frames = <<>> /\ ended = "no"
Unhindered == ~starved /\ Len(tables) < MaxTables
Origins == {tables[i].from : i \in DOMAIN tables}

\* What RSDP, XSDT, RSDT and FADT lead to, worked out without the cache.
Reachable(m) ==
  LET root == m.memory[m.rsdp]
  IN  {m.rsdp} \union ({root.rsdt, root.xsdt} \intersect DOMAIN m.memory)
        \union LedTo(m, root.xsdt) \union LedTo(m, root.rsdt)

(* A load from memory that succeeds has each table that can be reached, once *)
(* and under its own name, in whatever order RSDT and XSDT list it and       *)
(* however often; facs_last_phys_addr and the check for duplicates lose none.*)
FirmwareLoadComplete ==
  Loaded /\ Unhindered /\ Origins = {"firmware"} =>
    /\ {e.addr : e \in Range(tables)} = Reachable(machine)
    /\ Cardinality(Reachable(machine)) = Len(tables)
    /\ \A e \in Range(tables) : e.name = machine.memory[e.addr].sig

\* The cached table at an address, 0 when there is none.
TableAt(addr) ==
  LET found == {i \in DOMAIN tables : tables[i].addr = addr}
  IN  IF found = {} THEN 0 ELSE CHOOSE i \in found : TRUE
Holds(addr, name) == TableAt(addr) # 0 /\ tables[TableAt(addr)].name = name

\* The addresses that a RSDT or XSDT made by the fixup has to list.
ToList == {tables[i].addr : i \in {j \in DOMAIN tables : tables[j].name \notin {"RSDT", "XSDT"}}}

\* Where the FADTs in files have the FACS and the DSDT.
FadtFiles(m)  == {f \in Range(m.files) : f.sig = "FACP"}
FacsPlaces(m) == ({f.facs32 : f \in FadtFiles(m)} \union {f.facs64 : f \in FadtFiles(m)}) \ {0}
DsdtPlaces(m) == ({f.dsdt32 : f \in FadtFiles(m)} \union {f.dsdt64 : f \in FadtFiles(m)}) \ {0}

\* Files whose addresses do not get in each other's way: nothing is where made-up
\* addresses are, all of which fit in 32 bits as the RSDT does, and what is at an
\* address that a FADT has for the FACS or the DSDT is one.
Tidy(m) ==
  LET placed == {t \in Range(m.files) : m.source = "dump" /\ t.at # 0}
  IN  /\ FakeBase + Len(m.files) + 3 < Limit32
      /\ \A n \in 0 .. Len(m.files) + 3 :
           FakeBase + n \notin FacsPlaces(m) \union DsdtPlaces(m) \union {t.at : t \in placed}
      /\ FacsPlaces(m) \intersect DsdtPlaces(m) = {}
      /\ \A t \in placed :
           /\ t.at \in FacsPlaces(m) => t.sig = "FACS"
           /\ t.at \in DsdtPlaces(m) => t.sig = "DSDT"
           /\ t.sig = "RSDT" => t.at < Limit32

(* After a load from files that have a FADT the tables hang together as in   *)
(* memory: the FADT leads to the FACS and the DSDT that are cached, the RSDP  *)
(* to a RSDT and a XSDT, and one of these that was made up lists every table *)
(* (but a RSDP made up later, and addresses past 4GB in a RSDT).             *)
FixedUpTreeComplete ==
  Loaded /\ Unhindered /\ Find("FACP") # 0 /\ "firmware" \notin Origins =>
    LET fadt == Table("FACP")
        facs == IF fadt.facs64 # 0 THEN fadt.facs64 ELSE fadt.facs32
        dsdt == IF fadt.dsdt64 # 0 THEN fadt.dsdt64 ELSE fadt.dsdt32
        rsdp == Table("RSDP")
        Complete(name) ==
          tables[Find(name)].from = "fixup" =>
            \A a \in ToList \ (IF tables[Find("RSDP")].from = "fixup"
                               THEN {tables[Find("RSDP")].addr} ELSE {}) :
              a \in Range(Table(name).list) \/ (name = "RSDT" /\ a >= Limit32)
    IN  /\ Find("FACS") # 0 /\ Find("RSDP") # 0
        /\ facs # 0 => Holds(facs, "FACS")
        /\ tables[Find("FACS")].from = "fixup" => facs # 0
        /\ Find("DSDT") # 0 /\ dsdt # 0 => Holds(dsdt, "DSDT")
        /\ machine.arm \/ Holds(rsdp.rsdt, "RSDT")
        /\ Extended(rsdp) => Holds(rsdp.xsdt, "XSDT")
        /\ Complete("RSDT") /\ Complete("XSDT")

(* "Will ignore the missing FACS in the hardware-reduced mode." (line 422):  *)
(* a load that has only met FADTs of machines with reduced hardware may fail *)
(* but reads nothing that was freed.                                         *)
MissingFacsIgnored ==
  (\A f \in Range(frames) : f.fadt # 0 => Content(f.fadt).reduced) =>
    ended # "crash" \/ Muddled(machine)
=============================================================================
