-------------------------- MODULE AcpiTablesProofs --------------------------
(***************************************************************************)
(* Proofs about the cache of ACPI tables: for any firmware, dump or        *)
(* directory of files, any size of the cache and any lack of memory.       *)
(***************************************************************************)
EXTENDS AcpiTables, SequenceTheorems, FiniteSetTheorems, TLAPS

Sequence(s) == \E S : s \in Seq(S)

\* The copies that the tables of ts have.
Held(ts) == {ts[i].data : i \in DOMAIN ts}

LEMMA AppendFacts ==
  ASSUME NEW s, NEW e, Sequence(s)
  PROVE  /\ Sequence(Append(s, e))
         /\ Len(s) \in Nat /\ DOMAIN s = 1 .. Len(s)
         /\ Len(Append(s, e)) = Len(s) + 1
         /\ DOMAIN Append(s, e) = 1 .. Len(s) + 1
         /\ \A i \in DOMAIN s : Append(s, e)[i] = s[i]
         /\ Append(s, e)[Len(s) + 1] = e
<1>1. PICK S : s \in Seq(S)
  BY DEF Sequence
<1>2. s \in Seq(S \union {e}) /\ e \in S \union {e}
  BY <1>1
<1>3. Append(s, e) \in Seq(S \union {e})
  BY <1>2
<1>4. Sequence(Append(s, e))
  BY <1>3 DEF Sequence
<1> QED
  BY <1>2, <1>4

LEMMA FunctionFacts ==
  ASSUME NEW n \in Nat, NEW f, f = [i \in 1 .. n |-> f[i]]
  PROVE  Sequence(f) /\ Len(f) = n /\ DOMAIN f = 1 .. n
<1>1. f \in [1 .. n -> Range(f)]
  BY DEF Range
<1>2. f \in Seq(Range(f))
  BY <1>1
<1> QED
  BY <1>2 DEF Sequence

LEMMA FrontFacts ==
  ASSUME NEW s, Sequence(s), s # <<>>
  PROVE  /\ Sequence(Front(s)) /\ Len(Front(s)) = Len(s) - 1 /\ Len(s) \in Nat \ {0}
         /\ \A i \in DOMAIN Front(s) : i \in DOMAIN s /\ Front(s)[i] = s[i]
<1>1. PICK S : s \in Seq(S)
  BY DEF Sequence
<1>2. Len(s) \in Nat /\ Len(s) # 0
  BY <1>1, EmptySeq
<1>3. Front(s) = [i \in 1 .. Len(s) - 1 |-> s[i]]
  BY <1>1, <1>2, SubSeqProperties DEF Front
<1>4. Front(s) \in [1 .. Len(s) - 1 -> S]
  BY <1>1, <1>2, <1>3
<1>5. Front(s) \in Seq(S) /\ Len(Front(s)) = Len(s) - 1
  BY <1>2, <1>4
<1> QED
  BY <1>1, <1>2, <1>3, <1>5 DEF Sequence

-----------------------------------------------------------------------------
(* The cache, as a pair of tables and copies. *)

Fields == {"name", "data", "addr", "from", "which"}

HeapShape(hp) ==
  \A c \in DOMAIN hp : DOMAIN hp[c] = {"table", "live"} /\ hp[c].live \in BOOLEAN

Fresh(ts, hp) ==
  /\ \A i \in DOMAIN ts : ts[i].data \in DOMAIN hp /\ hp[ts[i].data].live = TRUE
  /\ \A i, j \in DOMAIN ts : ts[i].data = ts[j].data => i = j

Numbered(ts) ==
  \A name \in TableNames :
    {ts[i].which : i \in Named(ts, name)} = 0 .. Cardinality(Named(ts, name)) - 1

Shape(ts, hp) ==
  /\ Sequence(ts) /\ Sequence(hp)
  /\ Len(ts) <= MaxTables
  /\ \A i \in DOMAIN ts : DOMAIN ts[i] = Fields
  /\ HeapShape(hp)
  /\ Fresh(ts, hp)
  /\ Numbered(ts)

LEMMA NamedFinite ==
  ASSUME NEW ts, Sequence(ts), NEW name
  PROVE  IsFiniteSet(Named(ts, name)) /\ Cardinality(Named(ts, name)) \in Nat
<1>1. Len(ts) \in Nat /\ DOMAIN ts = 1 .. Len(ts)
  BY AppendFacts
<1>2. IsFiniteSet(1 .. Len(ts))
  BY <1>1, FS_Interval
<1>3. Named(ts, name) \in SUBSET (1 .. Len(ts))
  BY <1>1 DEF Named
<1>4. IsFiniteSet(Named(ts, name))
  BY <1>2, <1>3, FS_Subset
<1> QED
  BY <1>4, FS_CardinalityType

\* A table added last under the next number keeps the numbers without a gap.
LEMMA AppendNumbered ==
  ASSUME NEW ts, Sequence(ts), Numbered(ts), NEW e,
         e.which = Cardinality(Named(ts, e.name))
  PROVE  Numbered(Append(ts, e))
<1> DEFINE new == Append(ts, e)
           last == Len(ts) + 1
<1>1. /\ Len(ts) \in Nat /\ DOMAIN ts = 1 .. Len(ts)
      /\ DOMAIN new = 1 .. last
      /\ \A i \in DOMAIN ts : new[i] = ts[i]
      /\ new[last] = e
  BY AppendFacts
<1> SUFFICES ASSUME NEW name \in TableNames
             PROVE {new[i].which : i \in Named(new, name)} = 0 .. Cardinality(Named(new, name)) - 1
  BY DEF Numbered
<1> HIDE DEF new
<1>2. {ts[i].which : i \in Named(ts, name)} = 0 .. Cardinality(Named(ts, name)) - 1
  BY DEF Numbered
<1>3. IsFiniteSet(Named(ts, name)) /\ Cardinality(Named(ts, name)) \in Nat
  BY NamedFinite
<1>4. last \notin Named(ts, name)
  BY <1>1 DEF Named
<1>5. CASE e.name # name
  <2>1. Named(new, name) = Named(ts, name)
    BY <1>1, <1>5 DEF Named
  <2>2. \A i \in Named(ts, name) : new[i] = ts[i]
    BY <1>1 DEF Named
  <2> QED
    BY <1>2, <2>1, <2>2
<1>6. CASE e.name = name
  <2>1. Named(new, name) = Named(ts, name) \union {last}
    BY <1>1, <1>6 DEF Named
  <2>2. Cardinality(Named(new, name)) = Cardinality(Named(ts, name)) + 1
    BY <1>3, <1>4, <2>1, FS_AddElement
  <2>3. \A i \in Named(ts, name) : new[i] = ts[i]
    BY <1>1 DEF Named
  <2>4. {new[i].which : i \in Named(new, name)} =
          {ts[i].which : i \in Named(ts, name)} \union {e.which}
    BY <1>1, <2>1, <2>3
  <2>5. ASSUME NEW n \in Nat PROVE (0 .. n - 1) \union {n} = 0 .. n
    OBVIOUS
  <2>6. {new[i].which : i \in Named(new, name)} = 0 .. Cardinality(Named(ts, name))
    BY <1>2, <1>3, <1>6, <2>4, <2>5
  <2>7. Cardinality(Named(new, name)) - 1 = Cardinality(Named(ts, name))
    BY <1>3, <2>2
  <2> QED
    BY <2>6, <2>7
<1> QED
  BY <1>5, <1>6

\* add_table() of a copy no table has yet, live unless it is a duplicate.
LEMMA AddTableShape ==
  ASSUME NEW ts, NEW hp, Shape(ts, hp), NEW name, NEW c \in DOMAIN hp, NEW addr, NEW from,
         c \notin Held(ts), hp[c].live = ~Duplicate(ts, addr)
  PROVE  LET new == AddTable(ts, name, c, addr, from)
         IN  Shape(new, hp) /\ Held(new) \subseteq Held(ts) \union {c}
<1>1. CASE Duplicate(ts, addr) \/ Len(ts) = MaxTables
  BY <1>1 DEF AddTable
<1>2. CASE ~(Duplicate(ts, addr) \/ Len(ts) = MaxTables)
  <2> DEFINE e == [name |-> name, data |-> c, addr |-> addr, from |-> from,
                   which |-> Cardinality(Named(ts, name))]
             new == Append(ts, e)
  <2>1. AddTable(ts, name, c, addr, from) = new
    BY <1>2 DEF AddTable
  <2>2. /\ DOMAIN e = Fields /\ e.data = c /\ e.name = name
        /\ e.which = Cardinality(Named(ts, e.name))
    BY DEF Fields
  <2>3. Sequence(ts) /\ Sequence(hp) /\ HeapShape(hp) /\ Fresh(ts, hp) /\ Numbered(ts)
        /\ Len(ts) <= MaxTables /\ \A i \in DOMAIN ts : DOMAIN ts[i] = Fields
    BY DEF Shape
  <2> HIDE DEF e
  <2>4. /\ Sequence(new) /\ Len(new) = Len(ts) + 1 /\ Len(ts) \in Nat
        /\ DOMAIN ts = 1 .. Len(ts) /\ DOMAIN new = 1 .. Len(ts) + 1
        /\ \A i \in DOMAIN ts : new[i] = ts[i]
        /\ new[Len(ts) + 1] = e
    BY <2>3, AppendFacts
  <2>5. Numbered(new)
    BY <2>2, <2>3, AppendNumbered
  <2> HIDE DEF new
  <2>6. Len(new) <= MaxTables
    <3>1. Len(ts) # MaxTables /\ MaxTables \in Nat
      BY <1>2, AcpiTablesAssumption
    <3>2. Len(ts) <= MaxTables
      BY DEF Shape
    <3>3. Len(ts) \in Nat /\ Len(new) = Len(ts) + 1
      BY <2>4
    <3> QED
      BY <3>1, <3>2, <3>3
  <2>7. \A i \in DOMAIN new : i \in DOMAIN ts \/ (i = Len(ts) + 1 /\ new[i] = e)
    BY <2>4
  <2>8. \A i \in DOMAIN new : DOMAIN new[i] = Fields
    BY <2>2, <2>3, <2>4, <2>7
  <2>9. hp[c].live = TRUE
    BY <1>2
  <2>10. Fresh(new, hp)
    <3>1. ASSUME NEW i \in DOMAIN new PROVE new[i].data \in DOMAIN hp /\ hp[new[i].data].live = TRUE
      BY <2>2, <2>3, <2>4, <2>7, <2>9 DEF Fresh
    <3>2. ASSUME NEW i \in DOMAIN new, NEW j \in DOMAIN new, new[i].data = new[j].data PROVE i = j
      <4>1. \A k \in DOMAIN ts : ts[k].data # c
        BY DEF Held
      <4> QED
        BY <2>2, <2>3, <2>4, <2>7, <3>2, <4>1 DEF Fresh
    <3> QED
      BY <3>1, <3>2 DEF Fresh
  <2>11. Held(new) \subseteq Held(ts) \union {c}
    BY <2>2, <2>4, <2>7 DEF Held
  <2> QED
    BY <2>1, <2>3, <2>4, <2>5, <2>6, <2>8, <2>10, <2>11 DEF Shape
<1> QED
  BY <1>1, <1>2

\* Copies come, change their contents and, when no table has them, their lives.
LEMMA AppendCopyShape ==
  ASSUME NEW ts, NEW hp, Shape(ts, hp), NEW table, NEW live \in BOOLEAN
  PROVE  LET new == Append(hp, [table |-> table, live |-> live])
         IN  /\ Shape(ts, new)
             /\ Len(hp) + 1 \notin Held(ts)
             /\ DOMAIN new = DOMAIN hp \union {Len(hp) + 1} /\ Len(hp) + 1 \notin DOMAIN hp
             /\ new[Len(hp) + 1].live = live
<1> DEFINE r == [table |-> table, live |-> live]
           new == Append(hp, r)
<1>1. DOMAIN r = {"table", "live"} /\ r.live = live
  OBVIOUS
<1> HIDE DEF r
<1>2. /\ Sequence(new) /\ Len(hp) \in Nat /\ DOMAIN hp = 1 .. Len(hp)
      /\ DOMAIN new = 1 .. Len(hp) + 1
      /\ \A c \in DOMAIN hp : new[c] = hp[c]
      /\ new[Len(hp) + 1] = r
  BY AppendFacts DEF Shape
<1> HIDE DEF new
<1>3. DOMAIN new = DOMAIN hp \union {Len(hp) + 1} /\ Len(hp) + 1 \notin DOMAIN hp
  BY <1>2
<1>4. HeapShape(new)
  BY <1>1, <1>2, <1>3 DEF Shape, HeapShape
<1>5. Fresh(ts, new)
  BY <1>2, <1>3 DEF Shape, Fresh
<1>6. Len(hp) + 1 \notin Held(ts)
  BY <1>3 DEF Shape, Fresh, Held
<1>7. Shape(ts, new)
  BY <1>2, <1>4, <1>5 DEF Shape
<1> QED
  BY <1>1, <1>2, <1>3, <1>6, <1>7 DEF new, r

LEMMA ChangeCopyShape ==
  ASSUME NEW ts, NEW hp, Shape(ts, hp), NEW new, DOMAIN new = DOMAIN hp,
         new = [c \in DOMAIN hp |-> new[c]],
         HeapShape(new), \A c \in Held(ts) : new[c].live = hp[c].live
  PROVE  Shape(ts, new) /\ Len(new) = Len(hp)
<1>1. Len(hp) \in Nat /\ DOMAIN hp = 1 .. Len(hp)
  BY AppendFacts DEF Shape
<1>2. Sequence(new) /\ Len(new) = Len(hp)
  BY <1>1, FunctionFacts
<1>3. Fresh(ts, new)
  BY DEF Shape, Fresh, Held
<1> QED
  BY <1>2, <1>3 DEF Shape

LEMMA SetTableShape ==
  ASSUME NEW ts, NEW hp, Shape(ts, hp), NEW c, NEW table
  PROVE  LET new == [hp EXCEPT ![c].table = table]
         IN  Shape(ts, new) /\ Len(new) = Len(hp) /\ DOMAIN new = DOMAIN hp
<1> DEFINE new == [hp EXCEPT ![c].table = table]
<1>1. /\ DOMAIN new = DOMAIN hp /\ new = [d \in DOMAIN hp |-> new[d]]
      /\ \A d \in DOMAIN hp : d # c => new[d] = hp[d]
      /\ c \in DOMAIN hp => new[c] = [hp[c] EXCEPT !.table = table]
  OBVIOUS
<1> HIDE DEF new
<1>2. ASSUME NEW d \in DOMAIN hp
      PROVE  DOMAIN new[d] = {"table", "live"} /\ new[d].live = hp[d].live /\ hp[d].live \in BOOLEAN
  BY <1>1 DEF Shape, HeapShape
<1>3. HeapShape(new)
  BY <1>1, <1>2 DEF HeapShape
<1>4. Held(ts) \subseteq DOMAIN hp
  BY DEF Shape, Fresh, Held
<1>5. Shape(ts, new) /\ Len(new) = Len(hp)
  BY <1>1, <1>2, <1>3, <1>4, ChangeCopyShape
<1> QED
  BY <1>1, <1>5 DEF new

LEMMA SetLiveShape ==
  ASSUME NEW ts, NEW hp, Shape(ts, hp), NEW c \in DOMAIN hp, c \notin Held(ts), NEW live \in BOOLEAN
  PROVE  LET new == [hp EXCEPT ![c].live = live]
         IN  Shape(ts, new) /\ DOMAIN new = DOMAIN hp /\ new[c].live = live
<1> DEFINE new == [hp EXCEPT ![c].live = live]
<1>1. /\ DOMAIN new = DOMAIN hp /\ new = [d \in DOMAIN hp |-> new[d]]
      /\ \A d \in DOMAIN hp : d # c => new[d] = hp[d]
      /\ new[c] = [hp[c] EXCEPT !.live = live]
  OBVIOUS
<1> HIDE DEF new
<1>2. DOMAIN new[c] = {"table", "live"} /\ new[c].live = live
  BY <1>1 DEF Shape, HeapShape
<1>3. HeapShape(new)
  BY <1>1, <1>2 DEF Shape, HeapShape
<1>4. Held(ts) \subseteq DOMAIN hp
  BY DEF Shape, Fresh, Held
<1>5. Shape(ts, new)
  BY <1>1, <1>3, <1>4, ChangeCopyShape
<1> QED
  BY <1>1, <1>2, <1>5 DEF new

LEMMA EmptyShape ==
  ASSUME NEW hp, Sequence(hp), HeapShape(hp)
  PROVE  Shape(<<>>, hp)
<1>1. Sequence(<<>>) /\ Len(<<>>) = 0 /\ DOMAIN <<>> = {}
  <2>1. <<>> \in Seq({})
    OBVIOUS
  <2> QED
    BY <2>1 DEF Sequence
<1>2. \A name : Named(<<>>, name) = {}
  BY DEF Named
<1>3. Numbered(<<>>)
  <2>1. 0 .. Cardinality({}) - 1 = {}
    BY FS_EmptySet
  <2> QED
    BY <1>2, <2>1 DEF Numbered
<1>4. Fresh(<<>>, hp)
  BY DEF Fresh
<1> QED
  BY <1>1, <1>3, <1>4, AcpiTablesAssumption DEF Shape

LEMMA ReleaseShape ==
  ASSUME Shape(tables, heap), Release
  PROVE  Shape(tables', heap') /\ Held(tables') = {} /\ DOMAIN heap' = DOMAIN heap
<1>1. Len(heap) \in Nat /\ DOMAIN heap = 1 .. Len(heap)
  BY AppendFacts DEF Shape
<1>2. DOMAIN heap' = DOMAIN heap /\ heap' = [c \in DOMAIN heap |-> heap'[c]]
  BY DEF Release
<1>3. Sequence(heap')
  BY <1>1, <1>2, FunctionFacts
<1>4. HeapShape(heap')
  <2> SUFFICES ASSUME NEW c \in DOMAIN heap
               PROVE  DOMAIN heap'[c] = {"table", "live"} /\ heap'[c].live \in BOOLEAN
    BY <1>2 DEF HeapShape
  <2>1. DOMAIN heap[c] = {"table", "live"} /\ heap[c].live \in BOOLEAN
    BY DEF Shape, HeapShape
  <2>2. heap'[c] = heap[c] \/ heap'[c] = [heap[c] EXCEPT !.live = FALSE]
    BY DEF Release
  <2> QED
    BY <2>1, <2>2
<1>5. tables' = <<>>
  BY DEF Release
<1>6. Held(<<>>) = {}
  BY DEF Held
<1> QED
  BY <1>2, <1>3, <1>4, <1>5, <1>6, EmptyShape

LEMMA MovedShape ==
  ASSUME NEW ts, NEW hp, Shape(ts, hp), NEW name, NEW addr32, NEW addr64
  PROVE  LET new == Moved(ts, name, addr32, addr64)
         IN  Shape(new, hp) /\ Held(new) = Held(ts)
<1> DEFINE k == Find(name)
           addr == IF addr64 # 0 THEN addr64 ELSE addr32
           new == [ts EXCEPT ![k].addr = addr]
<1> HIDE DEF k, addr
<1>1. Moved(ts, name, addr32, addr64) \in {ts, new}
  BY DEF Moved, k, addr
<1>2. Len(ts) \in Nat /\ DOMAIN ts = 1 .. Len(ts)
  BY AppendFacts DEF Shape
<1>3. /\ DOMAIN new = DOMAIN ts /\ new = [i \in DOMAIN ts |-> new[i]]
      /\ \A i \in DOMAIN ts : i # k => new[i] = ts[i]
      /\ k \in DOMAIN ts => new[k] = [ts[k] EXCEPT !.addr = addr]
  OBVIOUS
<1> HIDE DEF new
<1>4. ASSUME NEW i \in DOMAIN ts
      PROVE  /\ DOMAIN new[i] = Fields /\ new[i].name = ts[i].name
             /\ new[i].data = ts[i].data /\ new[i].which = ts[i].which
  BY <1>3 DEF Shape, Fields
<1>5. Sequence(new) /\ Len(new) = Len(ts)
  BY <1>2, <1>3, FunctionFacts
<1>6. \A n : Named(new, n) = Named(ts, n)
  BY <1>3, <1>4 DEF Named
<1>7. Numbered(new)
  <2> SUFFICES ASSUME NEW n \in TableNames
               PROVE {new[i].which : i \in Named(new, n)} = 0 .. Cardinality(Named(new, n)) - 1
    BY DEF Numbered
  <2>1. \A i \in Named(ts, n) : new[i].which = ts[i].which
    BY <1>4 DEF Named
  <2>2. {ts[i].which : i \in Named(ts, n)} = 0 .. Cardinality(Named(ts, n)) - 1
    BY DEF Shape, Numbered
  <2> QED
    BY <1>6, <2>1, <2>2
<1>8. Fresh(new, hp) /\ Held(new) = Held(ts)
  BY <1>3, <1>4 DEF Shape, Fresh, Held
<1>9. Shape(new, hp)
  BY <1>3, <1>4, <1>5, <1>7, <1>8 DEF Shape
<1> QED
  BY <1>1, <1>8, <1>9

\* A new copy with its table.
LEMMA AddShape ==
  ASSUME Shape(tables, heap), NEW name, NEW table, NEW addr, NEW from,
         AddAs(name, table, addr, from)
  PROVE  /\ Shape(tables', heap')
         /\ Held(tables') \subseteq Held(tables) \union {Len(heap) + 1}
         /\ DOMAIN heap' = DOMAIN heap \union {Len(heap) + 1} /\ Len(heap) + 1 \notin DOMAIN heap
<1> DEFINE copy == Len(heap) + 1
           live == ~Duplicate(tables, addr)
           hp == Append(heap, [table |-> table, live |-> live])
<1>0. live \in BOOLEAN
  BY DEF Duplicate
<1>1. tables' = AddTable(tables, name, copy, addr, from) /\ heap' = hp
  BY DEF AddAs
<1> HIDE DEF live
<1>2. /\ Shape(tables, hp) /\ copy \notin Held(tables)
      /\ DOMAIN hp = DOMAIN heap \union {copy} /\ copy \notin DOMAIN heap /\ hp[copy].live = live
  BY <1>0, AppendCopyShape
<1> HIDE DEF hp, copy
<1>3. hp[copy].live = ~Duplicate(tables, addr)
  BY <1>2 DEF live
<1>4. LET new == AddTable(tables, name, copy, addr, from)
      IN  Shape(new, hp) /\ Held(new) \subseteq Held(tables) \union {copy}
  BY <1>2, <1>3, AddTableShape
<1> QED
  BY <1>1, <1>2, <1>4 DEF copy

-----------------------------------------------------------------------------
(* The loads under way.  One that follows a FADT has a copy of it in hand,  *)
(* which is in no table yet and in no other load's hand.                    *)

Hand == {"facs", "reduced", "dsdt"}
FrameFields == {"at", "i", "count", "rsdp", "list", "fadt", "dir", "RSDT", "XSDT"}

HandsFresh(ts, hp, fs) ==
  /\ \A i \in DOMAIN fs :
       fs[i].at \in Hand => fs[i].fadt \in DOMAIN hp /\ fs[i].fadt \notin Held(ts)
  /\ \A i, j \in DOMAIN fs :
       fs[i].at \in Hand /\ fs[j].at \in Hand /\ fs[i].fadt = fs[j].fadt => i = j

Hands(ts, hp, fs) ==
  /\ Sequence(fs)
  /\ \A i \in DOMAIN fs : DOMAIN fs[i] = FrameFields
  /\ HandsFresh(ts, hp, fs)

\* Copies are made, and tables get copies that are in nobody's hand.
LEMMA HandsGrow ==
  ASSUME NEW ts, NEW hp, NEW fs, Hands(ts, hp, fs), NEW ts2, NEW hp2, NEW S,
         DOMAIN hp \subseteq DOMAIN hp2, Held(ts2) \subseteq Held(ts) \union S,
         \A i \in DOMAIN fs : fs[i].at \in Hand => fs[i].fadt \notin S
  PROVE  Hands(ts2, hp2, fs)
<1>1. HandsFresh(ts2, hp2, fs)
  BY DEF Hands, HandsFresh
<1> QED
  BY <1>1 DEF Hands

LEMMA HandsNew ==
  ASSUME NEW ts, NEW hp, NEW fs, Hands(ts, hp, fs), NEW ts2, NEW hp2, NEW c, c \notin DOMAIN hp,
         DOMAIN hp2 = DOMAIN hp \union {c}, Held(ts2) \subseteq Held(ts) \union {c}
  PROVE  Hands(ts2, hp2, fs)
<1>1. \A i \in DOMAIN fs : fs[i].at \in Hand => fs[i].fadt \notin {c}
  BY DEF Hands, HandsFresh
<1> QED
  BY <1>1, HandsGrow

LEMMA HandsGo ==
  ASSUME NEW ts, NEW hp, NEW fs, Hands(ts, hp, fs), fs # <<>>, NEW f, DOMAIN f = FrameFields,
         f.at \in Hand =>
           /\ f.fadt \in DOMAIN hp /\ f.fadt \notin Held(ts)
           /\ \A i \in DOMAIN fs : fs[i].at \in Hand /\ fs[i].fadt = f.fadt => i = Len(fs)
  PROVE  /\ Hands(ts, hp, [fs EXCEPT ![Len(fs)] = f])
         /\ [fs EXCEPT ![Len(fs)] = f] # <<>>
<1> DEFINE new == [fs EXCEPT ![Len(fs)] = f]
           n == Len(fs)
<1>1. n \in Nat \ {0} /\ DOMAIN fs = 1 .. n
  <2>1. n \in Nat /\ DOMAIN fs = 1 .. n
    BY AppendFacts DEF Hands
  <2>2. n # 0
    <3>1. PICK S : fs \in Seq(S)
      BY DEF Hands, Sequence
    <3> QED
      BY <3>1, EmptySeq
  <2> QED
    BY <2>1, <2>2
<1>2. /\ DOMAIN new = DOMAIN fs /\ new = [i \in 1 .. n |-> new[i]]
      /\ \A i \in DOMAIN fs : i # n => new[i] = fs[i]
      /\ n \in DOMAIN fs /\ new[n] = f
  <2>1. n \in DOMAIN fs /\ new = [fs EXCEPT ![n] = f]
    BY <1>1
  <2> HIDE DEF new, n
  <2>2. DOMAIN new = DOMAIN fs /\ new = [i \in DOMAIN fs |-> new[i]]
    BY <2>1
  <2>3. \A i \in DOMAIN fs : i # n => new[i] = fs[i]
    BY <2>1
  <2>4. new[n] = f
    BY <2>1
  <2> QED
    BY <1>1, <2>1, <2>2, <2>3, <2>4
<1> HIDE DEF new, n
<1>3. Sequence(new) /\ Len(new) = n
  BY <1>1, <1>2, FunctionFacts
<1>4. \A i \in DOMAIN new : DOMAIN new[i] = FrameFields
  BY <1>2 DEF Hands
<1>5. HandsFresh(ts, hp, new)
  <2>1. f.at \in Hand =>
           /\ f.fadt \in DOMAIN hp /\ f.fadt \notin Held(ts)
           /\ \A i \in DOMAIN fs : fs[i].at \in Hand /\ fs[i].fadt = f.fadt => i = n
    BY DEF n
  <2>2. HandsFresh(ts, hp, fs)
    BY DEF Hands
  <2>3. ASSUME NEW i \in DOMAIN new, new[i].at \in Hand
        PROVE  new[i].fadt \in DOMAIN hp /\ new[i].fadt \notin Held(ts)
    BY <1>2, <2>1, <2>2, <2>3 DEF HandsFresh
  <2>4. ASSUME NEW i \in DOMAIN new, NEW j \in DOMAIN new, new[i].at \in Hand, new[j].at \in Hand,
               new[i].fadt = new[j].fadt
        PROVE  i = j
    BY <1>2, <2>1, <2>2, <2>4 DEF HandsFresh
  <2> QED
    BY <2>3, <2>4 DEF HandsFresh
<1>6. Hands(ts, hp, new)
  BY <1>3, <1>4, <1>5 DEF Hands
<1>7. new # <<>>
  BY <1>1, <1>3
<1> QED
  BY <1>6, <1>7 DEF new, n

LEMMA HandsFront ==
  ASSUME NEW ts, NEW hp, NEW fs, Hands(ts, hp, fs), fs # <<>>
  PROVE  Hands(ts, hp, Front(fs))
<1>1. /\ Sequence(Front(fs))
      /\ \A i \in DOMAIN Front(fs) : i \in DOMAIN fs /\ Front(fs)[i] = fs[i]
  BY FrontFacts DEF Hands
<1> QED
  BY <1>1 DEF Hands, HandsFresh

LEMMA HandsPush ==
  ASSUME NEW ts, NEW hp, NEW fs, Hands(ts, hp, fs), NEW place, place \notin Hand
  PROVE  Hands(ts, hp, Append(fs, Frame(place)))
<1> DEFINE f == Frame(place)
           new == Append(fs, f)
<1>1. DOMAIN f = FrameFields /\ f.at \notin Hand
  BY DEF Frame, FrameFields
<1> HIDE DEF f
<1>2. /\ Sequence(new)
      /\ DOMAIN fs = 1 .. Len(fs) /\ Len(fs) \in Nat
      /\ DOMAIN new = 1 .. Len(fs) + 1
      /\ \A i \in DOMAIN fs : new[i] = fs[i]
      /\ new[Len(fs) + 1] = f
  BY AppendFacts DEF Hands
<1> HIDE DEF new
<1>3. \A i \in DOMAIN new : i \in DOMAIN fs \/ new[i] = f
  BY <1>2
<1>4. Hands(ts, hp, new)
  BY <1>1, <1>2, <1>3 DEF Hands, HandsFresh
<1> QED
  BY <1>4 DEF new, f

-----------------------------------------------------------------------------
(* The inductive invariant. *)

IInv == Shape(tables, heap) /\ Hands(tables, heap, frames)

LEMMA TopFacts ==
  ASSUME NEW ts, NEW hp, Hands(ts, hp, frames), frames # <<>>
  PROVE  DOMAIN Top = FrameFields /\ Depth \in DOMAIN frames /\ Top = frames[Depth]
<1>1. Len(frames) \in Nat /\ DOMAIN frames = 1 .. Len(frames)
  BY AppendFacts DEF Hands
<1>2. Len(frames) # 0
  BY EmptySeq DEF Hands, Sequence
<1>3. Depth \in DOMAIN frames
  BY <1>1, <1>2 DEF Depth
<1> QED
  BY <1>3 DEF Hands, Top

\* The innermost load goes on; what it has in hand stays in its hand.
LEMMA GoKeeps ==
  ASSUME NEW ts, NEW hp, Hands(ts, hp, frames), frames # <<>>, NEW f, Go(f), DOMAIN f = FrameFields,
         f.at \notin Hand \/ (Top.at \in Hand /\ f.fadt = Top.fadt)
  PROVE  Hands(ts, hp, frames')
<1>1. Depth \in DOMAIN frames /\ Top = frames[Depth]
  BY TopFacts
<1>2. ASSUME f.at \in Hand
      PROVE  /\ f.fadt \in DOMAIN hp /\ f.fadt \notin Held(ts)
             /\ \A i \in DOMAIN frames : frames[i].at \in Hand /\ frames[i].fadt = f.fadt => i = Len(frames)
  BY <1>1, <1>2 DEF Hands, HandsFresh, Depth
<1>3. frames' = [frames EXCEPT ![Len(frames)] = f]
  BY DEF Go, Depth
<1> QED
  BY <1>2, <1>3, HandsGo

LEMMA GotoKeeps ==
  ASSUME NEW ts, NEW hp, Hands(ts, hp, frames), frames # <<>>, NEW place, Goto(place),
         place \notin Hand \/ Top.at \in Hand
  PROVE  Hands(ts, hp, frames')
<1> DEFINE f == [Top EXCEPT !.at = place]
<1>1. DOMAIN Top = FrameFields
  BY TopFacts
<1>2. DOMAIN f = FrameFields /\ f.at = place /\ f.fadt = Top.fadt
  BY <1>1 DEF FrameFields
<1>3. Go(f)
  BY DEF Goto
<1> HIDE DEF f
<1> QED
  BY <1>2, <1>3, GoKeeps

LEMMA AddKeeps ==
  ASSUME IInv, NEW name, NEW table, NEW addr, NEW from, AddAs(name, table, addr, from)
  PROVE  Shape(tables', heap') /\ Hands(tables', heap', frames)
<1>1. /\ Shape(tables', heap')
      /\ Held(tables') \subseteq Held(tables) \union {Len(heap) + 1}
      /\ DOMAIN heap' = DOMAIN heap \union {Len(heap) + 1} /\ Len(heap) + 1 \notin DOMAIN heap
  BY AddShape DEF IInv
<1>2. Hands(tables', heap', frames)
  BY <1>1, HandsNew DEF IInv
<1> QED
  BY <1>1, <1>2

LEMMA ReleaseKeeps ==
  ASSUME IInv, Release
  PROVE  Shape(tables', heap') /\ Hands(tables', heap', frames)
<1>1. Shape(tables', heap') /\ Held(tables') = {} /\ DOMAIN heap' = DOMAIN heap
  BY ReleaseShape DEF IInv
<1>2. Hands(tables, heap, frames)
  BY DEF IInv
<1>3. Hands(tables', heap', frames)
  BY <1>1, <1>2 DEF Hands, HandsFresh
<1> QED
  BY <1>1, <1>3

\* A load that ends leaves the hands of the others as they are.
LEMMA PopKeeps ==
  ASSUME NEW ts, NEW hp, Hands(ts, hp, frames), frames # <<>>, frames' = Front(frames)
  PROVE  Hands(ts, hp, frames')
  BY HandsFront

LEMMA InitProof == Init => IInv
<1> SUFFICES ASSUME Init PROVE IInv
  OBVIOUS
<1>1. <<>> \in Seq({}) /\ DOMAIN <<>> = {}
  OBVIOUS
<1>2. Sequence(<<>>)
  BY <1>1 DEF Sequence
<1>3. HeapShape(<<>>)
  BY <1>1 DEF HeapShape
<1>4. Shape(tables, heap)
  BY <1>2, <1>3, EmptyShape DEF Init
<1>5. Hands(tables, heap, frames)
  BY <1>1, <1>2 DEF Init, Hands, HandsFresh
<1> QED
  BY <1>4, <1>5 DEF IInv

-----------------------------------------------------------------------------
(* Queries, and loading files. *)

LEMMA AskKeeps ==
  ASSUME IInv, Ask
  PROVE  IInv'
<1>1. frames = <<>> /\ UNCHANGED <<tables, heap>>
  BY DEF Ask, cacheVars
<1>2. Hands(tables, heap, Append(frames, Frame("begin")))
  BY HandsPush DEF IInv, Hand
<1>3. frames' = frames \/ frames' = Append(frames, Frame("begin"))
  BY <1>1 DEF Ask
<1> QED
  BY <1>1, <1>2, <1>3 DEF IInv

LEMMA ExitKeeps ==
  ASSUME IInv, Exit
  PROVE  IInv'
  BY ReleaseKeeps DEF Exit, IInv

LEMMA BeginKeeps ==
  ASSUME IInv, Begin
  PROVE  IInv'
<1>1. frames # <<>> /\ UNCHANGED <<tables, heap>>
  BY DEF Begin, At
<1>2. Hands(tables, heap, frames')
  <2>1. CASE Return("failed")
    BY <1>1, <2>1, PopKeeps DEF IInv, Return
  <2>2. CASE Goto("files")
    BY <1>1, <2>2, GotoKeeps DEF IInv, Hand
  <2> QED
    BY <2>1, <2>2 DEF Begin
<1> QED
  BY <1>1, <1>2 DEF IInv

LEMMA LoadFileKeeps ==
  ASSUME IInv, LoadFile
  PROVE  IInv'
<1> DEFINE table == machine.files[Top.i]
           faked == machine.source # "dump" \/ table.at = 0
           addr  == IF faked THEN FakeAddr ELSE table.at
           next  == [Top EXCEPT !.i = @ + 1, !.count = @ + 1]
           skip  == [Top EXCEPT !.i = @ + 1]
<1>1. frames # <<>> /\ Top.at = "files"
  BY DEF LoadFile, At
<1>2. DOMAIN Top = FrameFields
  BY <1>1, TopFacts DEF IInv
<1>3. /\ DOMAIN next = FrameFields /\ next.at = "files"
      /\ DOMAIN skip = FrameFields /\ skip.at = "files"
  BY <1>1, <1>2 DEF FrameFields
<1>4. \/ Go(skip) /\ UNCHANGED <<tables, heap>>
      \/ Go(next) /\ UNCHANGED <<tables, heap>>
      \/ Go(next) /\ Add(table, addr, "file")
  BY DEF LoadFile
<1> HIDE DEF next, skip, addr, table
<1>5. CASE (Go(skip) \/ Go(next)) /\ UNCHANGED <<tables, heap>>
  <2>1. Hands(tables, heap, frames')
    BY <1>1, <1>3, <1>5, GoKeeps DEF IInv, Hand
  <2> QED
    BY <1>5, <2>1 DEF IInv
<1>6. CASE Go(next) /\ Add(table, addr, "file")
  <2>1. Shape(tables', heap') /\ Hands(tables', heap', frames)
    BY <1>6, AddKeeps DEF Add
  <2>2. Hands(tables', heap', frames')
    BY <1>1, <1>3, <1>6, <2>1, GoKeeps DEF Hand
  <2> QED
    BY <2>1, <2>2 DEF IInv
<1> QED
  BY <1>4, <1>5, <1>6

LEMMA EndFilesKeeps ==
  ASSUME IInv, EndFiles
  PROVE  IInv'
<1>1. frames # <<>> /\ UNCHANGED <<tables, heap>>
  BY DEF EndFiles, At
<1>2. Goto("fixFacs") \/ Goto("rsdp") \/ Return("failed")
  BY DEF EndFiles
<1>3. Hands(tables, heap, frames')
  <2>1. CASE Return("failed")
    BY <1>1, <2>1, PopKeeps DEF IInv, Return
  <2>2. CASE Goto("fixFacs") \/ Goto("rsdp")
    BY <1>1, <2>2, GotoKeeps DEF IInv, Hand
  <2> QED
    BY <1>2, <2>1, <2>2
<1> QED
  BY <1>1, <1>3 DEF IInv

-----------------------------------------------------------------------------
(* The fixup. *)

LEMMA GiveUpKeeps ==
  ASSUME IInv, frames # <<>>, GiveUpFixup
  PROVE  IInv'
<1>1. UNCHANGED <<tables, heap>> /\ frames' = Front(frames)
  BY DEF GiveUpFixup
<1>2. Hands(tables, heap, frames')
  BY <1>1, PopKeeps DEF IInv
<1> QED
  BY <1>1, <1>2 DEF IInv

\* A FACS that the FADT is made to point at.
LEMMA FacsForFadt ==
  ASSUME IInv, NEW c, NEW t, NEW facs, NEW addr,
         tables' = AddTable(tables, "FACS", Len(heap) + 1, addr, "fixup"),
         heap' = Append([heap EXCEPT ![c].table = t],
                        [table |-> facs, live |-> ~Duplicate(tables, addr)])
  PROVE  Shape(tables', heap') /\ Hands(tables', heap', frames)
<1> DEFINE hp == [heap EXCEPT ![c].table = t]
           live == ~Duplicate(tables, addr)
           copy == Len(heap) + 1
<1>1. Shape(tables, hp) /\ Len(hp) = Len(heap) /\ DOMAIN hp = DOMAIN heap
  BY SetTableShape DEF IInv
<1>2. heap' = Append(hp, [table |-> facs, live |-> live])
  OBVIOUS
<1>3. live \in BOOLEAN
  BY DEF Duplicate
<1> HIDE DEF hp, live
<1>4. LET new == Append(hp, [table |-> facs, live |-> live])
      IN  /\ Shape(tables, new)
          /\ Len(hp) + 1 \notin Held(tables)
          /\ DOMAIN new = DOMAIN hp \union {Len(hp) + 1} /\ Len(hp) + 1 \notin DOMAIN hp
          /\ new[Len(hp) + 1].live = live
  BY <1>1, <1>3, AppendCopyShape
<1>5. /\ Shape(tables, heap')
      /\ Len(hp) + 1 \notin Held(tables)
      /\ DOMAIN heap' = DOMAIN hp \union {Len(hp) + 1} /\ Len(hp) + 1 \notin DOMAIN hp
      /\ heap'[Len(hp) + 1].live = live
  BY <1>2, <1>4
<1>6. /\ Shape(tables, heap') /\ copy \notin Held(tables) /\ copy \notin DOMAIN heap
      /\ DOMAIN heap' = DOMAIN heap \union {copy}
      /\ heap'[copy].live = ~Duplicate(tables, addr)
  BY <1>1, <1>5 DEF live
<1> HIDE DEF copy
<1>7. tables' = AddTable(tables, "FACS", copy, addr, "fixup")
  BY DEF copy
<1>8. ASSUME NEW hp2, Shape(tables, hp2), copy \in DOMAIN hp2, hp2[copy].live = ~Duplicate(tables, addr)
      PROVE  LET new == AddTable(tables, "FACS", copy, addr, "fixup")
             IN  Shape(new, hp2) /\ Held(new) \subseteq Held(tables) \union {copy}
  BY <1>6, <1>8, AddTableShape
<1>9. Shape(tables', heap') /\ Held(tables') \subseteq Held(tables) \union {copy}
  BY <1>6, <1>7, <1>8
<1>10. Hands(tables', heap', frames)
  BY <1>6, <1>9, HandsNew DEF IInv
<1> QED
  BY <1>9, <1>10

LEMMA FixFacsKeeps ==
  ASSUME IInv, FixFacs
  PROVE  IInv'
<1> DEFINE fadt  == Table("FACP")
           given == IF fadt.len = "long" /\ fadt.facs64 # 0 THEN fadt.facs64
                                                            ELSE fadt.facs32
           facs  == [sig |-> "FACS"]
           c     == tables[Find("FACP")].data
           t     == IF fadt.len = "long" THEN [heap[c].table EXCEPT !.facs64 = FakeAddr]
                                         ELSE [heap[c].table EXCEPT !.facs32 = FakeAddr]
           made  == /\ tables' = AddTable(tables, "FACS", Len(heap) + 1, FakeAddr, "fixup")
                    /\ heap' = Append([heap EXCEPT ![c].table = t],
                                      [table |-> facs, live |-> ~Duplicate(tables, FakeAddr)])
<1>1. frames # <<>>
  BY DEF FixFacs, At
<1>2. \/ GiveUpFixup
      \/ Goto("fixAddrs") /\ UNCHANGED <<tables, heap>>
      \/ Goto("fixAddrs") /\ Add(facs, given, "fixup")
      \/ Goto("fixAddrs") /\ made
  BY DEF FixFacs, MadeUp
<1> HIDE DEF fadt, given, facs, c, t
<1>3. CASE GiveUpFixup
  BY <1>1, <1>3, GiveUpKeeps
<1>4. CASE Goto("fixAddrs") /\ UNCHANGED <<tables, heap>>
  <2>1. Hands(tables, heap, frames')
    BY <1>1, <1>4, GotoKeeps DEF IInv, Hand
  <2> QED
    BY <1>4, <2>1 DEF IInv
<1>5. ASSUME Goto("fixAddrs"), Shape(tables', heap') /\ Hands(tables', heap', frames)
      PROVE  IInv'
  <2>1. Hands(tables', heap', frames')
    BY <1>1, <1>5, GotoKeeps DEF Hand
  <2> QED
    BY <1>5, <2>1 DEF IInv
<1>6. CASE Goto("fixAddrs") /\ Add(facs, given, "fixup")
  BY <1>5, <1>6, AddKeeps DEF Add
<1>7. CASE Goto("fixAddrs") /\ made
  <2>1. Shape(tables', heap') /\ Hands(tables', heap', frames)
    BY <1>7, FacsForFadt
  <2> QED
    BY <1>5, <1>7, <2>1
<1> QED
  BY <1>2, <1>3, <1>4, <1>6, <1>7

LEMMA FixAddrsKeeps ==
  ASSUME IInv, FixAddrs
  PROVE  IInv'
<1> DEFINE fadt == Table("FACP")
           ts   == Moved(tables, "FACS", fadt.facs32, fadt.facs64)
<1>1. frames # <<>> /\ Goto("fixRsdt") /\ heap' = heap
  BY DEF FixAddrs, At
<1>2. tables' = Moved(ts, "DSDT", fadt.dsdt32, fadt.dsdt64)
  BY DEF FixAddrs
<1> HIDE DEF fadt
<1>3. Shape(ts, heap) /\ Held(ts) = Held(tables)
  BY MovedShape DEF IInv
<1> HIDE DEF ts
<1>4. Shape(tables', heap) /\ Held(tables') = Held(tables)
  BY <1>2, <1>3, MovedShape
<1>5. Hands(tables, heap, frames')
  BY <1>1, GotoKeeps DEF IInv, Hand
<1>6. Hands(tables', heap, frames')
  BY <1>4, <1>5 DEF Hands, HandsFresh
<1> QED
  BY <1>1, <1>4, <1>6 DEF IInv

LEMMA FixDirectoryKeeps ==
  ASSUME IInv, NEW name \in {"RSDT", "XSDT"}, NEW place, NEW next, next \notin Hand,
         FixDirectory(name, place, next)
  PROVE  IInv'
<1> DEFINE found == [Top EXCEPT !.at = next, ![name] = tables[Find(name)].addr]
           made  == [Top EXCEPT !.at = next, ![name] = FakeAddr]
           dir   == Directory(name)
<1>1. frames # <<>>
  BY DEF FixDirectory, At
<1>2. DOMAIN Top = FrameFields
  BY <1>1, TopFacts DEF IInv
<1>3. /\ DOMAIN found = FrameFields /\ found.at = next
      /\ DOMAIN made = FrameFields /\ made.at = next
  BY <1>2 DEF FrameFields
<1>4. \/ Go(found) /\ UNCHANGED <<tables, heap>>
      \/ GiveUpFixup
      \/ Go(made) /\ Add(dir, FakeAddr, "fixup")
  BY DEF FixDirectory, MadeUp
<1> HIDE DEF found, made, dir
<1>5. CASE Go(found) /\ UNCHANGED <<tables, heap>>
  <2>1. Hands(tables, heap, frames')
    BY <1>1, <1>3, <1>5, GoKeeps DEF IInv
  <2> QED
    BY <1>5, <2>1 DEF IInv
<1>6. CASE GiveUpFixup
  BY <1>1, <1>6, GiveUpKeeps
<1>7. CASE Go(made) /\ Add(dir, FakeAddr, "fixup")
  <2>1. Shape(tables', heap') /\ Hands(tables', heap', frames)
    BY <1>7, AddKeeps DEF Add
  <2>2. Hands(tables', heap', frames')
    BY <1>1, <1>3, <1>7, <2>1, GoKeeps
  <2> QED
    BY <2>1, <2>2 DEF IInv
<1> QED
  BY <1>4, <1>5, <1>6, <1>7

LEMMA FixRsdpKeeps ==
  ASSUME IInv, FixRsdp
  PROVE  IInv'
<1> DEFINE c    == tables[Find("RSDP")].data
           t    == Pointed(heap[c].table)
           rsdp == Pointed([sig |-> "RSDP", rev |-> 2, len |-> "long", rsdt |-> 0, xsdt |-> 0])
<1>1. frames # <<>> /\ frames' = Front(frames)
  BY DEF FixRsdp, At
<1>2. \/ heap' = [heap EXCEPT ![c].table = t] /\ tables' = tables
      \/ UNCHANGED <<tables, heap>>
      \/ Add(rsdp, FakeAddr, "fixup")
  BY DEF FixRsdp, MadeUp
<1> HIDE DEF c, t, rsdp
<1>3. CASE heap' = [heap EXCEPT ![c].table = t] /\ tables' = tables
  <2>1. Shape(tables, heap') /\ DOMAIN heap' = DOMAIN heap
    BY <1>3, SetTableShape DEF IInv
  <2>2. Hands(tables, heap, frames')
    BY <1>1, PopKeeps DEF IInv
  <2>3. Hands(tables, heap', frames')
    BY <2>1, <2>2 DEF Hands, HandsFresh
  <2> QED
    BY <1>3, <2>1, <2>3 DEF IInv
<1>4. CASE UNCHANGED <<tables, heap>>
  <2>1. Hands(tables, heap, frames')
    BY <1>1, PopKeeps DEF IInv
  <2> QED
    BY <1>4, <2>1 DEF IInv
<1>5. CASE Add(rsdp, FakeAddr, "fixup")
  <2>1. Shape(tables', heap') /\ Hands(tables', heap', frames)
    BY <1>5, AddKeeps DEF Add
  <2>2. Hands(tables', heap', frames')
    BY <1>1, <2>1, PopKeeps
  <2> QED
    BY <2>1, <2>2 DEF IInv
<1> QED
  BY <1>2, <1>3, <1>4, <1>5

-----------------------------------------------------------------------------
(* The firmware's memory. *)

\* Nothing happens to the cache, and the load goes on or ends.
LEMMA StayKeeps ==
  ASSUME IInv, frames # <<>>, UNCHANGED <<tables, heap>>, Hands(tables, heap, frames')
  PROVE  IInv'
  BY DEF IInv

LEMMA FailKeeps ==
  ASSUME IInv, frames # <<>>, Fail
  PROVE  IInv'
<1>1. Release /\ frames' = Front(frames)
  BY DEF Fail, Return
<1>2. Shape(tables', heap') /\ Hands(tables', heap', frames)
  BY <1>1, ReleaseKeeps
<1>3. Hands(tables', heap', frames')
  BY <1>1, <1>2, PopKeeps
<1> QED
  BY <1>2, <1>3 DEF IInv

\* The load takes a table and goes on.
LEMMA TakeKeeps ==
  ASSUME IInv, frames # <<>>, NEW name, NEW table, NEW addr, NEW from,
         AddAs(name, table, addr, from), NEW f, Go(f), DOMAIN f = FrameFields, f.at \notin Hand \/ (Top.at \in Hand /\ f.fadt = Top.fadt)
  PROVE  IInv'
<1>1. Shape(tables', heap') /\ Hands(tables', heap', frames)
  BY AddKeeps
<1>2. Hands(tables', heap', frames')
  BY <1>1, GoKeeps
<1> QED
  BY <1>1, <1>2 DEF IInv

LEMMA NextDirectoryKeeps ==
  ASSUME IInv, frames # <<>>, NextDirectory
  PROVE  Hands(tables, heap, frames')
<1> DEFINE f == [Top EXCEPT !.at = "root", !.dir = "RSDT"]
<1>1. DOMAIN Top = FrameFields
  BY TopFacts DEF IInv
<1>2. DOMAIN f = FrameFields /\ f.at = "root"
  BY <1>1 DEF FrameFields
<1>3. Go(f) \/ frames' = Front(frames)
  BY DEF NextDirectory, Return
<1> HIDE DEF f
<1>4. CASE Go(f)
  BY <1>2, <1>4, GoKeeps DEF IInv, Hand
<1>5. CASE frames' = Front(frames)
  BY <1>5, PopKeeps DEF IInv
<1> QED
  BY <1>3, <1>4, <1>5

LEMMA GetRsdpKeeps ==
  ASSUME IInv, GetRsdp
  PROVE  IInv'
<1> DEFINE f == [Top EXCEPT !.at = "root", !.rsdp = Len(heap) + 1]
<1>1. frames # <<>> /\ Go(f) /\ Add(machine.memory[machine.rsdp], machine.rsdp, "firmware")
  BY DEF GetRsdp, At
<1>2. DOMAIN Top = FrameFields
  BY <1>1, TopFacts DEF IInv
<1>3. DOMAIN f = FrameFields /\ f.at = "root"
  BY <1>2 DEF FrameFields
<1> HIDE DEF f
<1> QED
  BY <1>1, <1>3, TakeKeeps DEF Hand, Add

LEMMA NoRsdpKeeps ==
  ASSUME IInv, NoRsdp
  PROVE  IInv'
<1>1. frames # <<>> /\ UNCHANGED <<tables, heap>> /\ frames' = Front(frames)
  BY DEF NoRsdp, At, Return
<1>2. Hands(tables, heap, frames')
  BY <1>1, PopKeeps DEF IInv
<1> QED
  BY <1>1, <1>2, StayKeeps

LEMMA GetDirectoryKeeps ==
  ASSUME IInv, GetDirectory
  PROVE  IInv'
<1> DEFINE f == [Top EXCEPT !.at = "entries", !.i = 1, !.list = Len(heap) + 1]
<1>1. frames # <<>> /\ Go(f) /\ AddAs(Top.dir, machine.memory[RootAddr], RootAddr, "firmware")
  BY DEF GetDirectory, At
<1>2. DOMAIN Top = FrameFields
  BY <1>1, TopFacts DEF IInv
<1>3. DOMAIN f = FrameFields /\ f.at = "entries"
  BY <1>2 DEF FrameFields
<1> HIDE DEF f
<1> QED
  BY <1>1, <1>3, TakeKeeps DEF Hand, Add

LEMMA DirectoryEndsKeeps ==
  ASSUME IInv, NoDirectory \/ EndDirectory
  PROVE  IInv'
<1>1. frames # <<>> /\ UNCHANGED <<tables, heap>> /\ NextDirectory
  BY DEF NoDirectory, EndDirectory, At
<1> QED
  BY <1>1, NextDirectoryKeeps, StayKeeps

LEMMA NoEntryKeeps ==
  ASSUME IInv, NoEntry
  PROVE  IInv'
<1> DEFINE f == [Top EXCEPT !.i = @ + 1]
<1>1. frames # <<>> /\ Top.at = "entries" /\ Go(f) /\ UNCHANGED <<tables, heap>>
  BY DEF NoEntry, At, cacheVars
<1>2. DOMAIN Top = FrameFields
  BY <1>1, TopFacts DEF IInv
<1>3. DOMAIN f = FrameFields /\ f.at = "entries"
  BY <1>1, <1>2 DEF FrameFields
<1> HIDE DEF f
<1>4. Hands(tables, heap, frames')
  BY <1>1, <1>3, GoKeeps DEF IInv, Hand
<1> QED
  BY <1>1, <1>4, StayKeeps

\* A FADT is taken in hand: its copy is new.
LEMMA HoldKeeps ==
  ASSUME IInv, frames # <<>>, NEW table, NEW f, Go(f), DOMAIN f = FrameFields,
         f.fadt = Len(heap) + 1, tables' = tables,
         heap' = Append(heap, [table |-> table, live |-> TRUE])
  PROVE  IInv'
<1> DEFINE copy == Len(heap) + 1
<1>1. LET new == Append(heap, [table |-> table, live |-> TRUE])
      IN  /\ Shape(tables, new)
          /\ Len(heap) + 1 \notin Held(tables)
          /\ DOMAIN new = DOMAIN heap \union {Len(heap) + 1} /\ Len(heap) + 1 \notin DOMAIN heap
          /\ new[Len(heap) + 1].live = TRUE
  BY AppendCopyShape DEF IInv
<1>2. /\ Shape(tables, heap') /\ copy \notin Held(tables) /\ copy \notin DOMAIN heap
      /\ DOMAIN heap' = DOMAIN heap \union {copy}
  BY <1>1
<1>3. f.fadt = copy
  OBVIOUS
<1> HIDE DEF copy
<1>4. Hands(tables, heap', frames)
  BY <1>2, HandsNew DEF IInv
<1>5. \A i \in DOMAIN frames : frames[i].at \in Hand => frames[i].fadt # copy
  BY <1>2 DEF IInv, Hands, HandsFresh
<1>6. frames' = [frames EXCEPT ![Len(frames)] = f]
  BY DEF Go, Depth
<1>7. Hands(tables, heap', frames')
  BY <1>2, <1>3, <1>4, <1>5, <1>6, HandsGo
<1> QED
  BY <1>2, <1>7 DEF IInv

LEMMA GetEntryKeeps ==
  ASSUME IInv, GetEntry
  PROVE  IInv'
<1> DEFINE table == machine.memory[Entry]
           hold  == [Top EXCEPT !.at = "facs", !.fadt = Len(heap) + 1]
           f     == [Top EXCEPT !.i = @ + 1]
<1>1. frames # <<>> /\ Top.at = "entries"
  BY DEF GetEntry, At
<1>2. DOMAIN Top = FrameFields
  BY <1>1, TopFacts DEF IInv
<1>3. /\ DOMAIN f = FrameFields /\ f.at = "entries"
      /\ DOMAIN hold = FrameFields /\ hold.fadt = Len(heap) + 1
  BY <1>1, <1>2 DEF FrameFields
<1>4. \/ /\ heap' = Append(heap, [table |-> table, live |-> TRUE])
         /\ tables' = tables
         /\ Go(hold)
      \/ Add(table, Entry, "firmware") /\ Go(f)
  BY DEF GetEntry
<1> HIDE DEF f, hold, table
<1>5. CASE /\ heap' = Append(heap, [table |-> table, live |-> TRUE])
           /\ tables' = tables
           /\ Go(hold)
  BY <1>1, <1>3, <1>5, HoldKeeps
<1>6. CASE Add(table, Entry, "firmware") /\ Go(f)
  BY <1>1, <1>3, <1>6, TakeKeeps DEF Hand, Add
<1> QED
  BY <1>4, <1>5, <1>6

LEMMA GetFacsKeeps ==
  ASSUME IInv, GetFacs
  PROVE  IInv'
<1> DEFINE f == [Top EXCEPT !.at = "dsdt"]
<1>1. /\ frames # <<>> /\ Top.at = "facs" /\ Go(f)
      /\ Add(machine.memory[FadtAddr], FadtAddr, "firmware")
  BY DEF GetFacs, At, Goto
<1>2. DOMAIN Top = FrameFields
  BY <1>1, TopFacts DEF IInv
<1>3. DOMAIN f = FrameFields /\ f.fadt = Top.fadt
  BY <1>2 DEF FrameFields
<1> HIDE DEF f
<1> QED
  BY <1>1, <1>3, TakeKeeps DEF Hand, Add

\* No FACS: the question for reduced hardware, and its answer yes.
LEMMA ReducedKeeps ==
  ASSUME IInv, NoFacs \/ AnswerReduced
  PROVE  IInv'
<1>1. /\ frames # <<>> /\ Top.at \in Hand
      /\ Goto("reduced") \/ Goto("dsdt")
      /\ UNCHANGED <<tables, heap>>
  BY DEF NoFacs, AnswerReduced, At, cacheVars, Hand
<1>2. Hands(tables, heap, frames')
  BY <1>1, GotoKeeps DEF IInv
<1> QED
  BY <1>1, <1>2, StayKeeps

LEMMA AskReducedKeeps ==
  ASSUME IInv, AskReduced
  PROVE  IInv'
<1>1. frames # <<>> /\ frames' = Append(frames, Frame("begin")) /\ UNCHANGED <<tables, heap>>
  BY DEF AskReduced, At, cacheVars
<1>2. Hands(tables, heap, frames')
  BY <1>1, HandsPush DEF IInv, Hand
<1> QED
  BY <1>1, <1>2, StayKeeps

\* The DSDT is added, and then the FADT in hand, which leaves the hand.
LEMMA AfterFadtKeeps ==
  ASSUME NEW ts, NEW hp, Shape(ts, hp), Hands(ts, hp, frames), frames # <<>>, Top.at = "dsdt",
         AfterFadt(ts, hp)
  PROVE  IInv'
<1> DEFINE c    == Top.fadt
           live == ~Duplicate(ts, Entry)
           f    == [Top EXCEPT !.at = "entries", !.i = @ + 1]
           new  == AddTable(ts, "FACP", c, Entry, "firmware")
           hp2  == [hp EXCEPT ![c].live = live]
<1>1. tables' = new /\ heap' = hp2 /\ Go(f)
  BY DEF AfterFadt
<1>2. DOMAIN Top = FrameFields /\ Depth \in DOMAIN frames /\ Top = frames[Depth]
  BY TopFacts
<1>3. DOMAIN f = FrameFields /\ f.at = "entries"
  BY <1>2 DEF FrameFields
<1>4. c \in DOMAIN hp /\ c \notin Held(ts)
  BY <1>2 DEF Hands, HandsFresh, Hand
<1>5. \A i \in DOMAIN frames : frames[i].at \in Hand /\ frames[i].fadt = c => i = Depth
  BY <1>2 DEF Hands, HandsFresh, Hand
<1>6. live \in BOOLEAN
  BY DEF Duplicate
<1>7. frames' = [frames EXCEPT ![Depth] = f]
  BY <1>1 DEF Go
<1> HIDE DEF c, f, live
<1>8. Shape(ts, hp2) /\ DOMAIN hp2 = DOMAIN hp /\ hp2[c].live = live
  BY <1>4, <1>6, SetLiveShape
<1> HIDE DEF hp2
<1>9. Shape(new, hp2) /\ Held(new) \subseteq Held(ts) \union {c}
  <2>1. hp2[c].live = ~Duplicate(ts, Entry)
    BY <1>8 DEF live
  <2>2. ASSUME NEW addr, hp2[c].live = ~Duplicate(ts, addr)
        PROVE  LET t == AddTable(ts, "FACP", c, addr, "firmware")
               IN  Shape(t, hp2) /\ Held(t) \subseteq Held(ts) \union {c}
    BY <1>4, <1>8, <2>2, AddTableShape
  <2> QED
    BY <2>1, <2>2
<1> HIDE DEF new
<1>10. Hands(ts, hp, frames')
  BY <1>1, <1>3, GoKeeps DEF Hand
<1>11. \A i \in DOMAIN frames' : frames'[i].at \in Hand => frames'[i].fadt \notin {c}
  <2> SUFFICES ASSUME NEW i \in DOMAIN frames, frames'[i].at \in Hand
               PROVE  frames'[i].fadt # c
    BY <1>7
  <2>1. i # Depth
    BY <1>2, <1>3, <1>7 DEF Hand
  <2>2. frames'[i] = frames[i]
    BY <1>7, <2>1
  <2> QED
    BY <1>5, <2>1, <2>2
<1>12. Hands(new, hp2, frames')
  BY <1>8, <1>9, <1>10, <1>11, HandsGrow
<1> QED
  BY <1>1, <1>9, <1>12 DEF IInv

LEMMA GetDsdtKeeps ==
  ASSUME IInv, GetDsdt
  PROVE  IInv'
<1> DEFINE copy  == Len(heap) + 1
           addr  == FadtAddr
           table == machine.memory[addr]
           sig   == table.sig
           ts    == AddTable(tables, sig, copy, addr, "firmware")
           live  == ~Duplicate(tables, addr)
           hp    == Append(heap, [table |-> table, live |-> live])
<1>1. frames # <<>> /\ Top.at = "dsdt" /\ AfterFadt(ts, hp)
  BY DEF GetDsdt, At
<1>2. live \in BOOLEAN
  BY DEF Duplicate
<1> HIDE DEF addr, table, sig, live
<1>3. /\ Shape(tables, hp) /\ copy \notin Held(tables)
      /\ DOMAIN hp = DOMAIN heap \union {copy} /\ copy \notin DOMAIN heap /\ hp[copy].live = live
  BY <1>2, AppendCopyShape DEF IInv
<1> HIDE DEF copy, hp
<1>4. Shape(ts, hp) /\ Held(ts) \subseteq Held(tables) \union {copy}
  <2>1. hp[copy].live = ~Duplicate(tables, addr)
    BY <1>3 DEF live
  <2> QED
    BY <1>3, <2>1, AddTableShape
<1> HIDE DEF ts
<1>5. Hands(ts, hp, frames)
  BY <1>3, <1>4, HandsNew DEF IInv
<1> QED
  BY <1>1, <1>4, <1>5, AfterFadtKeeps

-----------------------------------------------------------------------------
LEMMA NextKeeps == IInv /\ [Next]_vars => IInv'
<1> SUFFICES ASSUME IInv, [Next]_vars PROVE IInv'
  OBVIOUS
<1>1. CASE Ask
  BY <1>1, AskKeeps
<1>2. CASE Exit
  BY <1>2, ExitKeeps
<1>3. CASE Begin
  BY <1>3, BeginKeeps
<1>4. CASE Files
  BY <1>4, LoadFileKeeps, EndFilesKeeps DEF Files
<1>5. CASE Fixup
  <2>1. CASE FixFacs
    BY <2>1, FixFacsKeeps
  <2>2. CASE FixAddrs
    BY <2>2, FixAddrsKeeps
  <2>3. CASE FixRsdt
    BY <2>3, FixDirectoryKeeps DEF FixRsdt, Hand
  <2>4. CASE FixXsdt
    BY <2>4, FixDirectoryKeeps DEF FixXsdt, Hand
  <2>5. CASE FixRsdp
    BY <2>5, FixRsdpKeeps
  <2> QED
    BY <1>5, <2>1, <2>2, <2>3, <2>4, <2>5 DEF Fixup
<1>6. CASE Firmware
  <2>1. CASE GetRsdp \/ NoRsdp
    BY <2>1, GetRsdpKeeps, NoRsdpKeeps
  <2>2. CASE GetDirectory \/ NoDirectory \/ EndDirectory
    BY <2>2, GetDirectoryKeeps, DirectoryEndsKeeps
  <2>3. CASE ReadFreed
    BY <2>3 DEF ReadFreed, Crash, cacheVars, IInv
  <2>4. CASE GetEntry \/ NoEntry
    BY <2>4, GetEntryKeeps, NoEntryKeeps
  <2>5. CASE GetFacs
    BY <2>5, GetFacsKeeps
  <2>6. CASE GetDsdt
    BY <2>6, GetDsdtKeeps
  <2>7. CASE FadtFails \/ AnswerNotReduced
    BY <2>7, FailKeeps DEF FadtFails, AnswerNotReduced, At
  <2>8. CASE NoFacs \/ AnswerReduced
    BY <2>8, ReducedKeeps
  <2>9. CASE AskReduced
    BY <2>9, AskReducedKeeps
  <2> QED
    BY <1>6, <2>1, <2>2, <2>3, <2>4, <2>5, <2>6, <2>7, <2>8, <2>9 DEF Firmware
<1>7. CASE Terminating
  BY <1>7 DEF Terminating, vars, cacheVars, IInv
<1>8. CASE UNCHANGED vars
  BY <1>8 DEF vars, cacheVars, IInv
<1> QED
  BY <1>1, <1>2, <1>3, <1>4, <1>5, <1>6, <1>7, <1>8 DEF Next

THEOREM InvariantHolds == Spec => []IInv
<1> QED
  BY InitProof, NextKeeps, PTL DEF Spec

(* Whatever a load met - duplicates, a full cache, no low memory, a FADT     *)
(* that fails it, a load inside a load - every table that is cached has a    *)
(* live copy of its own, and tables of one name are numbered without a gap.  *)
THEOREM CacheAlwaysSound == Spec => []CacheSound
<1>1. IInv => CacheSound
  BY DEF IInv, Shape, Fresh, Numbered, CacheSound, Live
<1> QED
  BY <1>1, InvariantHolds, PTL

(* fwts_acpi_add_table() never goes past ACPI_MAX_TABLES, and a FADT that a  *)
(* load has in hand is in no table and no other load's hand until it is      *)
(* added: no copy gets to be freed twice.                                    *)
THEOREM CacheBounded ==
  Spec => [](Len(tables) <= MaxTables /\ HandsFresh(tables, heap, frames))
<1>1. IInv => Len(tables) <= MaxTables /\ HandsFresh(tables, heap, frames)
  BY DEF IInv, Shape, Hands
<1> QED
  BY <1>1, InvariantHolds, PTL
-----------------------------------------------------------------------------
(* Loads from memory.  Each load on the stack but the innermost waits for   *)
(* the answer to a question, and is where machine and cache let it get.     *)

FromMemory == {"root", "entries"} \union Hand
FromFiles  == {"fixFacs", "fixAddrs", "fixRsdt", "fixXsdt", "fixRsdp"}

FrameOK(f, m, ld, st) ==
  /\ f.i \in Nat \ {0} /\ f.count \in Nat
  /\ m.files = <<>> => f.count = 0
  /\ f.at \in {"begin", "rsdp"} => f.count = 0
  /\ f.at = "begin" => f.i = 1
  /\ f.at = "files" /\ st # TRUE => f.count = f.i - 1
  /\ f.at \in FromFiles => ld = "ok"
  /\ f.at \in FromMemory \union {"rsdp"} => m.source = "root" /\ (st = TRUE \/ m.files = <<>>)
  /\ f.at \in FromMemory => m.rsdp \in DOMAIN m.memory
  /\ ld = "failed" => f.at = "reduced"

Stack ==
  /\ machine \in Machines /\ starved \in BOOLEAN
  /\ \A k \in DOMAIN frames : FrameOK(frames[k], machine, loaded, starved)
  /\ \A k \in DOMAIN frames : k # Len(frames) => frames[k].at = "reduced"

\* Before the first table there is none.
Early ==
  /\ frames = <<>> /\ loaded = "not" => tables = <<>> /\ facsLast = 0 /\ fakes = 0
  /\ Len(frames) = 1 /\ frames[1].at \in {"begin", "files", "rsdp"} =>
       /\ loaded = "not" /\ facsLast = 0 /\ frames[1].dir = "XSDT"
       /\ frames[1].count = 0 => tables = <<>>
       /\ frames[1].at = "begin" => fakes = 0

\* Where the firmware has its roots and what an entry in one leads to.
RootOf(m, f)    == IF f.dir = "XSDT" THEN m.memory[m.rsdp].xsdt ELSE m.memory[m.rsdp].rsdt
EntryOf(m, f)   == m.memory[RootOf(m, f)].list[f.i]
FacsOf(fadt)    == Chosen(fadt, fadt.facs32, fadt.facs64)
DsdtOf(fadt)    == Chosen(fadt, fadt.dsdt32, fadt.dsdt64)
Cover(m, a)     == IF a \notin DOMAIN m.memory THEN {}
                   ELSE {a} \union (IF m.memory[a].sig = "FACP" THEN Pointers(m.memory[a]) ELSE {})
Listed(m, d, n) == UNION {Cover(m, m.memory[d].list[k]) : k \in 1 .. n}
IsDir(m, d)     == d \in DOMAIN m.memory /\ m.memory[d].sig \in {"RSDT", "XSDT"}
DirCover(m, d)  == ({d} \intersect DOMAIN m.memory)
                     \union (IF IsDir(m, d) THEN Listed(m, d, Len(m.memory[d].list)) ELSE {})

\* The addresses a load has been to.
Before(m, f) ==
  {m.rsdp} \union (IF f.dir = "RSDT" THEN DirCover(m, m.memory[m.rsdp].xsdt) ELSE {})
Seen(m, f) ==
  Before(m, f)
    \union (IF f.at = "root" THEN {} ELSE {RootOf(m, f)} \union Listed(m, RootOf(m, f), f.i - 1))
    \union (IF f.at = "dsdt" THEN {FacsOf(m.memory[EntryOf(m, f)])} ELSE {})

\* The load goes by live copies of what is in memory.
Copied(hp, c, table) == c \in DOMAIN hp /\ hp[c].table = table
HandsTrue(f, m, hp) ==
  /\ Copied(hp, f.rsdp, m.memory[m.rsdp]) /\ hp[f.rsdp].live = TRUE
  /\ f.dir \in {"XSDT", "RSDT"}
  /\ f.at # "root" =>
       /\ RootOf(m, f) \in DOMAIN m.memory
       /\ Copied(hp, f.list, m.memory[RootOf(m, f)]) /\ f.list # f.rsdp
       /\ \/ /\ hp[f.list].live = TRUE /\ IsDir(m, RootOf(m, f))
             /\ f.i <= Len(m.memory[RootOf(m, f)].list) + 1
          \/ hp[f.list].live = FALSE /\ f.at = "entries" /\ Muddled(m)
  /\ f.at \in Hand =>
       /\ f.i <= Len(m.memory[RootOf(m, f)].list)
       /\ EntryOf(m, f) \in DOMAIN m.memory /\ m.memory[EntryOf(m, f)].sig = "FACP"
       /\ Copied(hp, f.fadt, m.memory[EntryOf(m, f)]) /\ f.fadt \notin {f.rsdp, f.list}
  /\ f.at = "dsdt" => FacsOf(m.memory[EntryOf(m, f)]) \in DOMAIN m.memory

Addrs(ts) == {ts[i].addr : i \in DOMAIN ts}
Visited(f, m, ts) ==
  /\ m.rsdp \in Addrs(ts) /\ Addrs(ts) \subseteq Seen(m, f)
  /\ \A i \in DOMAIN ts : ts[i].from = "firmware"

\* Nothing is lost: the load has every table of where it has been.
WellNamed(m, ts) ==
  /\ \A i \in DOMAIN ts : ts[i].addr \in DOMAIN m.memory /\ ts[i].name = m.memory[ts[i].addr].sig
  /\ \A i, j \in DOMAIN ts : ts[i].addr = ts[j].addr => i = j
SeenAll(f, m, ts, last) ==
  /\ Seen(m, f) \subseteq Addrs(ts)
  /\ WellNamed(m, ts)
  /\ f.dir = "RSDT" /\ m.memory[m.rsdp].xsdt \in DOMAIN m.memory => IsDir(m, m.memory[m.rsdp].xsdt)
  /\ f.at \in Hand => last = EntryOf(m, f)
  /\ f.at \notin Hand /\ last # 0 =>
       last \in DOMAIN m.memory /\ m.memory[last].sig = "FACP" /\ Cover(m, last) \subseteq Addrs(ts)

\* The only load, with nothing answered inside it.
Alone == Len(frames) = 1 /\ loaded = "not" /\ frames[1].at \in FromMemory
Followed ==
  Alone => HandsTrue(frames[1], machine, heap) /\ Visited(frames[1], machine, tables)
Complete ==
  Alone /\ starved = FALSE /\ Len(tables) < MaxTables =>
    SeenAll(frames[1], machine, tables, facsLast)

\* A load inside a load from memory gets nowhere when there are no files.
NestedOK(m, ld, fs, ts, hp) ==
  m.files = <<>> /\ fs # <<>> /\ fs[1].at \in FromMemory =>
    /\ ld # "ok" /\ Len(fs) <= 2
    /\ ld = "not" => m.rsdp \in Addrs(ts)
    /\ Len(fs) = 2 =>
         /\ ld = "not"
         /\ fs[2].at \in {"begin", "files", "rsdp", "root"}
         /\ fs[2].at = "root" => fs[2].rsdp \in DOMAIN hp /\ hp[fs[2].rsdp].live = FALSE
Nested == NestedOK(machine, loaded, frames, tables, heap)

CrashInv ==
  ended = "crash" =>
    \/ Len(frames) > 1
    \/ Len(frames) = 1 /\ frames[1].at \in FromMemory /\ (loaded = "ok" \/ Muddled(machine))

FromFirmware(ts) == \E i \in DOMAIN ts : ts[i].from = "firmware"
NoneFromFirmware ==
  Len(frames) = 1 /\ frames[1].at \in {"begin", "files", "rsdp"} \union FromFiles /\ starved = FALSE =>
    ~FromFirmware(tables)
MemoryDone ==
  frames = <<>> /\ loaded = "ok" /\ ended = "no" /\ starved = FALSE /\ FromFirmware(tables)
  /\ Len(tables) < MaxTables => Addrs(tables) = Reachable(machine) /\ WellNamed(machine, tables)

\* Tables are in files or in memory, and not in both.
OnePlace(m) == m.files = <<>> \/ m.rsdp \notin DOMAIN m.memory

\* What a step of the only load has to leave when it goes on from g.
Follows(g) ==
  /\ HandsTrue(g, machine, heap') /\ Visited(g, machine, tables')
  /\ starved' = FALSE /\ Len(tables') < MaxTables => SeenAll(g, machine, tables', facsLast')

Answered == loaded \in {"not", "ok", "failed"}

\* What a load from memory keeps, on top of IInv.
MInv ==
  /\ IInv /\ Stack /\ Answered /\ Early /\ Followed /\ Complete /\ Nested
  /\ CrashInv /\ NoneFromFirmware /\ MemoryDone

LEMMA MachineFacts ==
  ASSUME NEW m \in Machines
  PROVE  /\ \A t \in Range(m.files) : IsTable(t) /\ (m.source = "dump" => t.at \in Nat)
         /\ m.files \in Seq(Range(m.files)) /\ Len(m.files) \in Nat
         /\ \A a \in DOMAIN m.memory : a \in Nat \ {0} /\ IsTable(m.memory[a])
  BY MachinesAssumption

LEMMA RootFacts ==
  ASSUME NEW m \in Machines, m.rsdp \in DOMAIN m.memory
  PROVE  LET root == m.memory[m.rsdp]
         IN  /\ root.sig = "RSDP"
             /\ root.xsdt \in DOMAIN m.memory \ {m.rsdp} => IsDir(m, root.xsdt) /\ m.memory[root.xsdt].sig = "XSDT"
             /\ root.rsdt \in DOMAIN m.memory \ {m.rsdp, root.xsdt} =>
                  IsDir(m, root.rsdt) /\ m.memory[root.rsdt].sig = "RSDT"
             /\ root.rsdt \in DOMAIN m.memory \ {m.rsdp} => IsDir(m, root.rsdt)
  BY MachinesAssumption DEF IsDir

LEMMA ListFacts ==
  ASSUME NEW m \in Machines, NEW d, IsDir(m, d)
  PROVE  m.memory[d].list \in Seq(Nat) /\ Len(m.memory[d].list) \in Nat
<1>1. m.memory[d].list \in Seq(Nat)
  BY MachineFacts DEF IsDir, IsTable
<1> QED
  BY <1>1

LEMMA FadtFacts ==
  ASSUME NEW t, IsTable(t), t.sig = "FACP"
  PROVE  /\ FacsOf(t) \in Nat /\ DsdtOf(t) \in Nat
         /\ Pointers(t) = {FacsOf(t), DsdtOf(t)} \ {0}
  BY DEF IsTable, FacsOf, DsdtOf, Chosen, Pointers

LEMMA GoFrames ==
  ASSUME NEW fs, Sequence(fs), fs # <<>>, NEW f
  PROVE  LET new == [fs EXCEPT ![Len(fs)] = f]
         IN  /\ Len(fs) \in Nat \ {0} /\ DOMAIN fs = 1 .. Len(fs)
             /\ Sequence(new) /\ Len(new) = Len(fs) /\ DOMAIN new = DOMAIN fs /\ new # <<>>
             /\ new[Len(fs)] = f /\ \A k \in DOMAIN fs : k # Len(fs) => new[k] = fs[k]
<1> DEFINE n == Len(fs)
           new == [fs EXCEPT ![n] = f]
<1>1. PICK S : fs \in Seq(S)
  BY DEF Sequence
<1>2. n \in Nat \ {0} /\ DOMAIN fs = 1 .. n
  BY <1>1, EmptySeq
<1>3. new \in Seq(S \union {f})
  BY <1>1, <1>2
<1>4. DOMAIN new = 1 .. n /\ new[n] = f /\ \A k \in DOMAIN fs : k # n => new[k] = fs[k]
  BY <1>2
<1>5. Len(new) = n
  BY <1>2, <1>3, <1>4
<1>6. new # <<>>
  BY <1>2, <1>5
<1> QED
  BY <1>2, <1>3, <1>4, <1>5, <1>6 DEF Sequence

-----------------------------------------------------------------------------
\* What adding a table does to the addresses in the cache.
LEMMA AddTableFacts ==
  ASSUME NEW ts, Sequence(ts), Len(ts) <= MaxTables, NEW name, NEW c, NEW addr, addr # 0, NEW from
  PROVE  LET new == AddTable(ts, name, c, addr, from)
         IN  /\ Duplicate(ts, addr) <=> addr \in Addrs(ts)
             /\ Addrs(ts) \subseteq Addrs(new) /\ Addrs(new) \subseteq Addrs(ts) \union {addr}
             /\ Len(new) < MaxTables => Len(ts) < MaxTables
             /\ Len(ts) < MaxTables => addr \in Addrs(new)
             /\ addr \in Addrs(ts) => new = ts
             /\ Sequence(new) /\ Len(new) <= MaxTables
             /\ \A i \in DOMAIN ts : i \in DOMAIN new /\ new[i] = ts[i]
             /\ \A i \in DOMAIN new :
                  \/ i \in DOMAIN ts /\ new[i] = ts[i]
                  \/ /\ addr \notin Addrs(ts) /\ i = Len(ts) + 1
                     /\ new[i].name = name /\ new[i].addr = addr
                     /\ new[i].from = from /\ new[i].data = c
<1> DEFINE e == [name |-> name, data |-> c, addr |-> addr, from |-> from,
                 which |-> Cardinality(Named(ts, name))]
           new == AddTable(ts, name, c, addr, from)
<1>1. Duplicate(ts, addr) <=> addr \in Addrs(ts)
  BY DEF Duplicate, Addrs
<1>2. CASE addr \in Addrs(ts) \/ Len(ts) = MaxTables
  <2>1. new = ts
    BY <1>1, <1>2 DEF AddTable
  <2> QED
    BY <1>1, <1>2, <2>1, AcpiTablesAssumption
<1>3. CASE ~(addr \in Addrs(ts) \/ Len(ts) = MaxTables)
  <2>1. new = Append(ts, e)
    BY <1>1, <1>3 DEF AddTable
  <2>2. e.name = name /\ e.addr = addr /\ e.from = from /\ e.data = c
    OBVIOUS
  <2> HIDE DEF e, new
  <2>3. /\ Len(ts) \in Nat /\ DOMAIN ts = 1 .. Len(ts)
        /\ Len(new) = Len(ts) + 1
        /\ DOMAIN new = 1 .. Len(ts) + 1
        /\ \A i \in DOMAIN ts : new[i] = ts[i]
        /\ new[Len(ts) + 1] = e
    BY <2>1, AppendFacts
  <2>4. Addrs(new) = Addrs(ts) \union {addr}
    BY <2>2, <2>3 DEF Addrs
  <2>5. \A i \in DOMAIN new : i \in DOMAIN ts \/ i = Len(ts) + 1
    BY <2>3
  <2>6. Len(new) < MaxTables => Len(ts) < MaxTables
    BY <2>3, AcpiTablesAssumption
  <2>7. Sequence(new) /\ Len(new) <= MaxTables
    <3>1. Sequence(new)
      BY <2>1, AppendFacts
    <3>2. Len(ts) # MaxTables /\ Len(ts) \in Nat /\ Len(new) = Len(ts) + 1
      BY <1>3, <2>3
    <3>3. MaxTables \in Nat
      BY AcpiTablesAssumption
    <3>4. \A x, y, z : x \in Nat /\ z \in Nat /\ x <= z /\ x # z /\ y = x + 1 => y <= z
      OBVIOUS
    <3>5. Len(new) <= MaxTables
      BY <3>2, <3>3, <3>4
    <3> QED
      BY <3>1, <3>5
  <2> QED
    BY <1>1, <1>3, <2>2, <2>3, <2>4, <2>5, <2>6, <2>7 DEF new
<1> QED
  BY <1>2, <1>3

LEMMA AddTableNamed ==
  ASSUME NEW ts, Sequence(ts), Len(ts) <= MaxTables, NEW name, NEW c, NEW addr, addr # 0, NEW from,
         NEW m, WellNamed(m, ts), addr \in DOMAIN m.memory,
         addr \notin Addrs(ts) => name = m.memory[addr].sig
  PROVE  WellNamed(m, AddTable(ts, name, c, addr, from))
<1> DEFINE new == AddTable(ts, name, c, addr, from)
<1>1. \A i \in DOMAIN new :
        \/ i \in DOMAIN ts /\ new[i] = ts[i]
        \/ /\ addr \notin Addrs(ts) /\ i = Len(ts) + 1
           /\ new[i].name = name /\ new[i].addr = addr
           /\ new[i].from = from /\ new[i].data = c
  BY AddTableFacts
<1> HIDE DEF new
<1>2. \A i \in DOMAIN ts : ts[i].addr \in Addrs(ts)
  BY DEF Addrs
<1> QED
  BY <1>1, <1>2 DEF WellNamed, new

\* ... and to the copies.
LEMMA AddAsFacts ==
  ASSUME Shape(tables, heap), NEW name, NEW table, NEW addr, addr # 0, NEW from,
         AddAs(name, table, addr, from)
  PROVE  LET c == Len(heap) + 1
         IN  /\ tables' = AddTable(tables, name, c, addr, from)
             /\ c \notin DOMAIN heap /\ DOMAIN heap' = DOMAIN heap \union {c}
             /\ \A d \in DOMAIN heap : heap'[d] = heap[d]
             /\ heap'[c].table = table
             /\ heap'[c].live = (addr \notin Addrs(tables))
<1> DEFINE c == Len(heap) + 1
           live == ~Duplicate(tables, addr)
           r == [table |-> table, live |-> live]
<1>1. heap' = Append(heap, r) /\ tables' = AddTable(tables, name, c, addr, from)
  BY DEF AddAs
<1>2. live = (addr \notin Addrs(tables))
  BY AddTableFacts DEF Shape
<1>3. r.table = table /\ r.live = live
  OBVIOUS
<1> HIDE DEF r, live
<1>4. /\ Len(heap) \in Nat /\ DOMAIN heap = 1 .. Len(heap)
      /\ DOMAIN heap' = 1 .. Len(heap) + 1
      /\ \A d \in DOMAIN heap : heap'[d] = heap[d]
      /\ heap'[Len(heap) + 1] = r
  BY <1>1, AppendFacts DEF Shape
<1>5. c \notin DOMAIN heap /\ DOMAIN heap' = DOMAIN heap \union {c}
  BY <1>4
<1> QED
  BY <1>1, <1>2, <1>3, <1>4, <1>5

-----------------------------------------------------------------------------
(* The stack. *)

\* No step changes the machine, or forgets that memory ran out.
Onward == machine' = machine /\ starved' \in {starved, TRUE}

LEMMA AlwaysOnward == [Next]_vars => Onward
<1> SUFFICES ASSUME [Next]_vars PROVE Onward
  OBVIOUS
<1> USE DEF Onward, Step, Enough, Starves
<1>1. CASE Ask \/ Exit \/ Begin
  BY <1>1 DEF Ask, Exit, Begin
<1>2. CASE Files
  BY <1>2 DEF Files, LoadFile, EndFiles
<1>3. CASE Fixup
  BY <1>3 DEF Fixup, FixFacs, FixAddrs, FixRsdt, FixXsdt, FixDirectory, FixRsdp
<1>4. CASE Firmware
  BY <1>4 DEF Firmware, GetRsdp, NoRsdp, GetDirectory, NoDirectory, EndDirectory, ReadFreed, Crash,
              GetEntry, NoEntry, GetFacs, NoFacs, GetDsdt, FadtFails, Fail, AskReduced,
              AnswerReduced, AnswerNotReduced
<1>5. CASE Terminating \/ UNCHANGED vars
  BY <1>5 DEF Terminating, vars
<1> QED
  BY <1>1, <1>2, <1>3, <1>4, <1>5 DEF Next

LEMMA FrameWaits ==
  ASSUME NEW f, NEW m, NEW ld, NEW st, FrameOK(f, m, ld, st), f.at = "reduced",
         NEW ld2, NEW st2 \in {st, TRUE}
  PROVE  FrameOK(f, m, ld2, st2)
  BY DEF FrameOK, FromMemory, FromFiles, Hand

LEMMA FrameMoves ==
  ASSUME NEW f, NEW m, NEW ld, NEW st, FrameOK(f, m, ld, st), f.at \in FromMemory,
         NEW g, g.at \in FromMemory, g.i \in Nat \ {0}, g.count = f.count,
         NEW ld2, ld2 # "failed", NEW st2 \in {st, TRUE}
  PROVE  FrameOK(g, m, ld2, st2)
  BY DEF FrameOK, FromMemory, FromFiles, Hand

LEMMA TopFrame ==
  ASSUME IInv, Stack, frames # <<>>
  PROVE  /\ FrameOK(Top, machine, loaded, starved) /\ DOMAIN Top = FrameFields
         /\ Top = frames[Len(frames)] /\ machine \in Machines
         /\ Len(frames) \in Nat \ {0} /\ DOMAIN frames = 1 .. Len(frames)
<1>1. DOMAIN Top = FrameFields /\ Depth \in DOMAIN frames /\ Top = frames[Depth]
  BY TopFacts DEF IInv
<1>2. Len(frames) \in Nat \ {0} /\ DOMAIN frames = 1 .. Len(frames)
  BY GoFrames DEF IInv, Hands
<1> QED
  BY <1>1, <1>2 DEF Stack, Depth

LEMMA StackGo ==
  ASSUME IInv, Stack, frames # <<>>, Onward, NEW f, Go(f), FrameOK(f, machine, loaded', starved')
  PROVE  Stack'
<1> DEFINE n == Len(frames)
<1>1. frames' = [frames EXCEPT ![n] = f]
  BY DEF Go, Depth
<1>2. /\ n \in Nat \ {0} /\ DOMAIN frames = 1 .. n
      /\ Len(frames') = n /\ DOMAIN frames' = DOMAIN frames
      /\ frames'[n] = f /\ \A k \in DOMAIN frames : k # n => frames'[k] = frames[k]
  BY <1>1, GoFrames DEF IInv, Hands
<1>3. \A k \in DOMAIN frames : k # n => frames[k].at = "reduced" /\ FrameOK(frames[k], machine, loaded, starved)
  BY DEF Stack
<1> HIDE DEF n
<1>4. \A k \in DOMAIN frames' : FrameOK(frames'[k], machine, loaded', starved')
  BY <1>2, <1>3, FrameWaits DEF Onward
<1>5. \A k \in DOMAIN frames' : k # n => frames'[k].at = "reduced"
  BY <1>2, <1>3
<1> QED
  BY <1>2, <1>4, <1>5 DEF Stack, Onward

LEMMA StackPop ==
  ASSUME IInv, Stack, frames # <<>>, Onward, frames' = Front(frames)
  PROVE  Stack'
<1> DEFINE n == Len(frames)
<1>1. /\ Len(frames') = n - 1 /\ n \in Nat \ {0} /\ Sequence(frames')
      /\ \A i \in DOMAIN frames' : i \in DOMAIN frames /\ frames'[i] = frames[i]
  BY FrontFacts DEF IInv, Hands
<1>2. DOMAIN frames' = 1 .. n - 1
  BY <1>1, AppendFacts
<1>3. \A k \in DOMAIN frames : k # n => frames[k].at = "reduced" /\ FrameOK(frames[k], machine, loaded, starved)
  BY DEF Stack
<1>4. \A k \in DOMAIN frames' : k # n
  BY <1>1, <1>2
<1> HIDE DEF n
<1>5. \A k \in DOMAIN frames' : FrameOK(frames'[k], machine, loaded', starved')
  BY <1>1, <1>3, <1>4, FrameWaits DEF Onward
<1>6. \A k \in DOMAIN frames' : frames'[k].at = "reduced"
  BY <1>1, <1>3, <1>4
<1> QED
  BY <1>5, <1>6 DEF Stack, Onward

LEMMA StackPush ==
  ASSUME IInv, Stack, \A k \in DOMAIN frames : frames[k].at = "reduced", loaded = "not", loaded' = loaded,
         Onward, frames' = Append(frames, Frame("begin"))
  PROVE  Stack'
<1> DEFINE f == Frame("begin")
<1>1. f.at = "begin" /\ f.i = 1 /\ f.count = 0
  BY DEF Frame
<1> HIDE DEF f
<1>2. FrameOK(f, machine, loaded', starved')
  <2>1. f.i \in Nat \ {0} /\ f.count \in Nat /\ f.count = 0 /\ loaded' # "failed"
    BY <1>1
  <2>2. f.at \notin FromMemory \union FromFiles \union {"rsdp", "files"}
    BY <1>1 DEF FromMemory, FromFiles, Hand
  <2> QED
    BY <1>1, <2>1, <2>2 DEF FrameOK
<1>3. /\ Len(frames) \in Nat /\ DOMAIN frames = 1 .. Len(frames)
      /\ Len(frames') = Len(frames) + 1 /\ DOMAIN frames' = 1 .. Len(frames) + 1
      /\ \A i \in DOMAIN frames : frames'[i] = frames[i]
      /\ frames'[Len(frames) + 1] = f
  BY AppendFacts DEF IInv, Hands, f
<1>4. \A k \in DOMAIN frames' : k \in DOMAIN frames \/ k = Len(frames) + 1
  BY <1>3
<1>5. \A k \in DOMAIN frames' : FrameOK(frames'[k], machine, loaded', starved')
  BY <1>2, <1>3, <1>4, FrameWaits DEF Onward, Stack
<1>6. \A k \in DOMAIN frames' : k # Len(frames') => frames'[k].at = "reduced"
  BY <1>3, <1>4
<1> QED
  BY <1>5, <1>6 DEF Stack, Onward

LEMMA StackFiles ==
  ASSUME IInv, Stack, Onward, Begin \/ LoadFile \/ EndFiles
  PROVE  Stack'
<1>0. frames # <<>>
  BY DEF Begin, LoadFile, EndFiles, At
<1>1. /\ FrameOK(Top, machine, loaded, starved) /\ DOMAIN Top = FrameFields /\ machine \in Machines
  BY <1>0, TopFrame
<1>2. CASE Begin
  <2> DEFINE f == [Top EXCEPT !.at = "files"]
  <2>1. f.at = "files" /\ f.i = Top.i /\ f.count = Top.count
    BY <1>1 DEF FrameFields
  <2>2. Top.at = "begin" /\ (frames' = Front(frames) \/ (Go(f) /\ loaded' = loaded))
    BY <1>2 DEF Begin, At, Return, Goto
  <2> HIDE DEF f
  <2>3. ASSUME loaded' = loaded PROVE FrameOK(f, machine, loaded', starved')
    <3>1. Top.i = 1 /\ Top.count = 0 /\ loaded # "failed"
      BY <1>1, <2>2 DEF FrameOK
    <3>2. f.i = 1 /\ f.count = 0 /\ f.count = f.i - 1 /\ loaded' # "failed"
      BY <2>1, <2>3, <3>1
    <3>3. f.at \notin FromMemory \union FromFiles \union {"begin", "rsdp"}
      BY <2>1 DEF FromMemory, FromFiles, Hand
    <3> QED
      BY <1>1, <2>1, <3>2, <3>3 DEF FrameOK
  <2> QED
    BY <1>0, <2>2, <2>3, StackGo, StackPop
<1>3. CASE LoadFile
  <2> DEFINE next == [Top EXCEPT !.i = @ + 1, !.count = @ + 1]
             skip == [Top EXCEPT !.i = @ + 1]
  <2>1. /\ next.at = Top.at /\ next.i = Top.i + 1 /\ next.count = Top.count + 1
        /\ skip.at = Top.at /\ skip.i = Top.i + 1 /\ skip.count = Top.count
    BY <1>1 DEF FrameFields
  <2>2. /\ Top.at = "files" /\ loaded' = loaded /\ Top.i <= Len(machine.files)
        /\ (Go(skip) /\ starved' = TRUE) \/ (Go(next) /\ starved' = starved)
    BY <1>3 DEF LoadFile, At, Starves, Enough
  <2> HIDE DEF next, skip
  <2>3. Top.i \in Nat \ {0} /\ Top.count \in Nat /\ machine.files # <<>>
    BY <1>1, <2>2, MachineFacts DEF FrameOK
  <2>4. starved' = TRUE => FrameOK(skip, machine, loaded', starved')
    BY <1>1, <2>1, <2>2, <2>3 DEF FrameOK, FromMemory, FromFiles, Hand
  <2>5. ASSUME starved' = starved PROVE FrameOK(next, machine, loaded', starved')
    <3>1. loaded' # "failed" /\ (starved # TRUE => Top.count = Top.i - 1)
      BY <1>1, <2>2 DEF FrameOK
    <3>2. next.i \in Nat \ {0} /\ next.count \in Nat
      BY <2>1, <2>3
    <3>4. starved' # TRUE => next.count = next.i - 1
      <4> SUFFICES ASSUME starved' # TRUE PROVE next.count = next.i - 1
        OBVIOUS
      <4>1. Top.count = Top.i - 1
        BY <2>5, <3>1
      <4>2. next.i = Top.i + 1 /\ next.count = Top.count + 1
        BY <2>1
      <4> QED
        BY <2>3, <4>1, <4>2
    <3>3. next.at \notin FromMemory \union FromFiles \union {"begin", "rsdp"}
      BY <2>1, <2>2 DEF FromMemory, FromFiles, Hand
    <3> QED
      BY <2>3, <3>1, <3>2, <3>3, <3>4 DEF FrameOK
  <2> QED
    BY <1>0, <2>2, <2>4, <2>5, StackGo
<1>4. CASE EndFiles
  <2> DEFINE fix  == [Top EXCEPT !.at = "fixFacs"]
             rsdp == [Top EXCEPT !.at = "rsdp"]
  <2>1. /\ fix.at = "fixFacs" /\ fix.i = Top.i /\ fix.count = Top.count
        /\ rsdp.at = "rsdp" /\ rsdp.i = Top.i /\ rsdp.count = Top.count
    BY <1>1 DEF FrameFields
  <2>2. /\ Top.at = "files" /\ starved' = starved /\ Top.i > Len(machine.files)
        /\ \/ Go(fix) /\ loaded' = "ok"
           \/ Go(rsdp) /\ loaded' = loaded /\ machine.source = "root" /\ ~(Top.count > 0)
           \/ frames' = Front(frames)
    BY <1>4 DEF EndFiles, At, Return, Goto
  <2> HIDE DEF fix, rsdp
  <2>3. Top.i \in Nat \ {0} /\ Top.count \in Nat
    BY <1>1 DEF FrameOK
  <2>4. loaded' = "ok" => FrameOK(fix, machine, loaded', starved')
    BY <1>1, <2>1, <2>2, <2>3 DEF FrameOK, FromMemory, FromFiles, Hand
  <2>5. ASSUME loaded' = loaded, machine.source = "root", ~(Top.count > 0)
        PROVE  FrameOK(rsdp, machine, loaded', starved')
    <3>1. rsdp.count = 0
      BY <2>1, <2>3, <2>5
    <3>2. starved # TRUE => machine.files = <<>>
      <4>1. starved # TRUE => Top.count = Top.i - 1
        BY <1>1, <2>2 DEF FrameOK
      <4>2. starved # TRUE => Len(machine.files) = 0
        BY <1>1, <2>1, <2>2, <2>3, <3>1, <4>1, MachineFacts
      <4> QED
        BY <1>1, <4>2, MachineFacts, EmptySeq
    <3> QED
      BY <1>1, <2>1, <2>2, <2>3, <2>5, <3>1, <3>2 DEF FrameOK, FromMemory, FromFiles, Hand
  <2> QED
    BY <1>0, <2>2, <2>4, <2>5, StackGo, StackPop
<1> QED
  BY <1>2, <1>3, <1>4

LEMMA FrameFixes ==
  ASSUME NEW f, NEW m, NEW st, FrameOK(f, m, "ok", st), f.at \in FromFiles,
         NEW g, g.at \in FromFiles, g.i = f.i, g.count = f.count, NEW st2 \in {st, TRUE}
  PROVE  FrameOK(g, m, "ok", st2)
  BY DEF FrameOK, FromMemory, FromFiles, Hand

LEMMA StackFixup ==
  ASSUME IInv, Stack, Onward, Fixup
  PROVE  Stack'
<1>0. frames # <<>> /\ Top.at \in FromFiles /\ loaded' = loaded
  BY DEF Fixup, FixFacs, FixAddrs, FixRsdt, FixXsdt, FixDirectory, FixRsdp, At, FromFiles
<1>1. FrameOK(Top, machine, loaded, starved) /\ DOMAIN Top = FrameFields
  BY <1>0, TopFrame
<1>2. loaded = "ok"
  BY <1>0, <1>1 DEF FrameOK
<1>3. \/ frames' = Front(frames)
      \/ \E place \in FromFiles : Go([Top EXCEPT !.at = place])
      \/ \E place \in FromFiles, name \in {"RSDT", "XSDT"} : \E addr : Go([Top EXCEPT !.at = place, ![name] = addr])
  <2>1. CASE FixFacs \/ FixAddrs \/ FixRsdp
    BY <2>1 DEF FixFacs, FixAddrs, FixRsdp, GiveUpFixup, Goto, FromFiles
  <2>2. ASSUME NEW name \in {"RSDT", "XSDT"}, NEW place, NEW next \in FromFiles, FixDirectory(name, place, next)
        PROVE  \/ frames' = Front(frames)
               \/ \E addr : Go([Top EXCEPT !.at = next, ![name] = addr])
    BY <2>2 DEF FixDirectory, GiveUpFixup
  <2>3. CASE FixRsdt
    BY <2>2, <2>3 DEF FixRsdt, FromFiles
  <2>4. CASE FixXsdt
    BY <2>2, <2>4 DEF FixXsdt, FromFiles
  <2> QED
    BY <2>1, <2>3, <2>4 DEF Fixup
<1>4. ASSUME NEW f, Go(f), f.at \in FromFiles, f.i = Top.i, f.count = Top.count
      PROVE  Stack'
  <2>1. FrameOK(f, machine, loaded', starved')
    BY <1>0, <1>1, <1>2, <1>4, FrameFixes DEF Onward
  <2> QED
    BY <1>0, <1>4, <2>1, StackGo
<1>5. ASSUME NEW place \in FromFiles, Go([Top EXCEPT !.at = place])
      PROVE  Stack'
  <2> DEFINE f == [Top EXCEPT !.at = place]
  <2>1. f.at = place /\ f.i = Top.i /\ f.count = Top.count
    BY <1>1 DEF FrameFields
  <2> QED
    BY <1>4, <1>5, <2>1
<1>6. ASSUME NEW place \in FromFiles, NEW name \in {"RSDT", "XSDT"}, NEW addr,
             Go([Top EXCEPT !.at = place, ![name] = addr])
      PROVE  Stack'
  <2> DEFINE f == [Top EXCEPT !.at = place, ![name] = addr]
  <2>1. f.at = place /\ f.i = Top.i /\ f.count = Top.count
    BY <1>1 DEF FrameFields
  <2> QED
    BY <1>4, <1>6, <2>1
<1> QED
  BY <1>0, <1>3, <1>5, <1>6, StackPop

LEMMA StackMoves ==
  ASSUME IInv, Stack, Onward, frames # <<>>, Top.at \in FromMemory, loaded' = loaded, loaded # "failed",
         NEW f, Go(f), f.at \in FromMemory, f.i \in Nat \ {0}, f.count = Top.count
  PROVE  Stack'
<1>1. FrameOK(Top, machine, loaded, starved)
  BY TopFrame
<1>2. FrameOK(f, machine, loaded', starved')
  BY <1>1, FrameMoves DEF Onward
<1> QED
  BY <1>2, StackGo

LEMMA StackRoots ==
  ASSUME IInv, Stack, Onward,
         GetRsdp \/ NoRsdp \/ GetDirectory \/ NoDirectory \/ EndDirectory
  PROVE  Stack'
<1>0. frames # <<>>
  BY DEF GetRsdp, NoRsdp, GetDirectory, NoDirectory, EndDirectory, At
<1>1. FrameOK(Top, machine, loaded, starved) /\ DOMAIN Top = FrameFields
  BY <1>0, TopFrame
<1>2. CASE NoRsdp
  BY <1>0, <1>2, StackPop DEF NoRsdp, Return
<1>3. CASE GetRsdp
  <2> DEFINE f == [Top EXCEPT !.at = "root", !.rsdp = Len(heap) + 1]
  <2>1. f.at = "root" /\ f.i = Top.i /\ f.count = Top.count
    BY <1>1 DEF FrameFields
  <2>2. /\ Go(f) /\ loaded' = loaded /\ Top.at = "rsdp" /\ machine.rsdp \in DOMAIN machine.memory
    BY <1>3 DEF GetRsdp, At, Readable
  <2> HIDE DEF f
  <2>3. FrameOK(f, machine, loaded', starved')
    BY <1>1, <2>1, <2>2 DEF FrameOK, FromMemory, FromFiles, Hand, Onward
  <2> QED
    BY <1>0, <2>2, <2>3, StackGo
<1>4. CASE GetDirectory
  <2> DEFINE f == [Top EXCEPT !.at = "entries", !.i = 1, !.list = Len(heap) + 1]
  <2>1. f.at = "entries" /\ f.i = 1 /\ f.count = Top.count
    BY <1>1 DEF FrameFields
  <2>2. Go(f) /\ loaded' = loaded /\ Top.at = "root"
    BY <1>4 DEF GetDirectory, At
  <2>3. Top.at \in FromMemory /\ f.at \in FromMemory /\ loaded # "failed"
    BY <1>1, <2>1, <2>2 DEF FromMemory, FrameOK
  <2> HIDE DEF f
  <2> QED
    BY <1>0, <2>1, <2>2, <2>3, StackMoves
<1>5. CASE NoDirectory \/ EndDirectory
  <2> DEFINE f == [Top EXCEPT !.at = "root", !.dir = "RSDT"]
  <2>1. f.at = "root" /\ f.i = Top.i /\ f.count = Top.count
    BY <1>1 DEF FrameFields
  <2>2. /\ Top.at \in {"root", "entries"}
        /\ (Go(f) /\ loaded' = loaded) \/ frames' = Front(frames)
    BY <1>5 DEF NoDirectory, EndDirectory, At, NextDirectory, Return
  <2>3. /\ Top.at \in FromMemory /\ f.at \in FromMemory /\ loaded # "failed" /\ f.i \in Nat \ {0}
    BY <1>1, <2>1, <2>2 DEF FromMemory, FrameOK
  <2> HIDE DEF f
  <2> QED
    BY <1>0, <2>1, <2>2, <2>3, StackMoves, StackPop
<1> QED
  BY <1>2, <1>3, <1>4, <1>5

LEMMA StackEntries ==
  ASSUME IInv, Stack, Onward,
         GetEntry \/ NoEntry \/ GetFacs \/ NoFacs \/ GetDsdt \/ FadtFails
         \/ AskReduced \/ AnswerReduced \/ AnswerNotReduced
  PROVE  Stack'
<1>0. frames # <<>>
  BY DEF GetEntry, NoEntry, GetFacs, NoFacs, GetDsdt, FadtFails, AskReduced, AnswerReduced,
         AnswerNotReduced, At
<1>1. FrameOK(Top, machine, loaded, starved) /\ DOMAIN Top = FrameFields /\ Top.i \in Nat \ {0}
  BY <1>0, TopFrame DEF FrameOK
<1>2. CASE FadtFails \/ AnswerNotReduced
  BY <1>0, <1>2, StackPop DEF FadtFails, AnswerNotReduced, Fail, Return
<1>3. ASSUME NEW place \in FromMemory, Goto(place), loaded' = loaded, loaded # "failed", Top.at \in FromMemory
      PROVE  Stack'
  <2> DEFINE f == [Top EXCEPT !.at = place]
  <2>1. f.at = place /\ f.i = Top.i /\ f.count = Top.count /\ Go(f)
    BY <1>1, <1>3 DEF FrameFields, Goto
  <2> HIDE DEF f
  <2> QED
    BY <1>0, <1>1, <1>3, <2>1, StackMoves
<1>4. CASE GetFacs \/ NoFacs
  <2>1. Top.at = "facs" /\ loaded' = loaded /\ (Goto("dsdt") \/ Goto("reduced"))
    BY <1>4 DEF GetFacs, NoFacs, At, cacheVars
  <2>2. loaded # "failed" /\ {"facs", "dsdt", "reduced"} \subseteq FromMemory
    BY <1>1, <2>1 DEF FromMemory, FrameOK, Hand
  <2> QED
    BY <1>3, <2>1, <2>2
<1>5. CASE AnswerReduced
  <2>1. Top.at = "reduced" /\ loaded' = loaded /\ Goto("dsdt") /\ loaded = "ok"
    BY <1>5 DEF AnswerReduced, At, cacheVars, Reduced
  <2> QED
    BY <1>3, <2>1 DEF FromMemory, Hand
<1>6. CASE NoEntry \/ GetEntry \/ GetDsdt
  <2> DEFINE skip == [Top EXCEPT !.i = @ + 1]
             hand == [Top EXCEPT !.at = "facs", !.fadt = Len(heap) + 1]
             back == [Top EXCEPT !.at = "entries", !.i = @ + 1]
  <2>1. /\ skip.at = Top.at /\ skip.i = Top.i + 1 /\ skip.count = Top.count
        /\ hand.at = "facs" /\ hand.i = Top.i /\ hand.count = Top.count
        /\ back.at = "entries" /\ back.i = Top.i + 1 /\ back.count = Top.count
    BY <1>1 DEF FrameFields
  <2>2. /\ Top.at \in {"entries", "dsdt"} /\ loaded' = loaded
        /\ Go(skip) \/ Go(hand) \/ Go(back)
    BY <1>6 DEF GetEntry, NoEntry, GetDsdt, AfterFadt, At, cacheVars
  <2> HIDE DEF skip, hand, back
  <2>3. loaded # "failed" /\ Top.at \in FromMemory /\ {"facs", "entries"} \subseteq FromMemory
    BY <1>1, <2>2 DEF FromMemory, FrameOK, Hand
  <2>4. Top.i + 1 \in Nat \ {0}
    BY <1>1
  <2> QED
    BY <1>0, <1>1, <2>1, <2>2, <2>3, <2>4, StackMoves
<1>7. CASE AskReduced
  <2>1. \A k \in DOMAIN frames : frames[k].at = "reduced"
    BY <1>0, <1>7, TopFrame DEF AskReduced, At, Stack
  <2> QED
    BY <1>7, <2>1, StackPush DEF AskReduced, cacheVars
<1> QED
  BY <1>2, <1>4, <1>5, <1>6, <1>7

LEMMA StackHolds ==
  ASSUME IInv, Stack, [Next]_vars
  PROVE  Stack'
<1>0. Onward
  BY AlwaysOnward
<1>1. CASE Ask
  <2>1. \A k \in DOMAIN frames : frames[k].at = "reduced"
    BY <1>1 DEF Ask
  <2>2. frames = <<>> /\ loaded' = loaded
    BY <1>1 DEF Ask, cacheVars
  <2>3. CASE loaded = "not"
    <3>1. frames' = Append(frames, Frame("begin"))
      BY <1>1, <2>2, <2>3 DEF Ask
    <3> QED
      BY <1>0, <2>1, <2>2, <2>3, <3>1, StackPush
  <2>4. CASE loaded # "not"
    BY <1>0, <1>1, <2>4 DEF Ask, Stack, Onward
  <2> QED
    BY <2>3, <2>4
<1>2. CASE Exit \/ Terminating \/ UNCHANGED vars \/ ReadFreed
  <2>1. UNCHANGED <<frames, loaded, starved>>
    BY <1>2 DEF Exit, Terminating, ReadFreed, Crash, vars, cacheVars
  <2> QED
    BY <1>0, <2>1 DEF Stack, Onward
<1>3. CASE Begin \/ Files
  BY <1>0, <1>3, StackFiles DEF Files
<1>4. CASE Fixup
  BY <1>0, <1>4, StackFixup
<1>5. CASE Firmware
  BY <1>0, <1>2, <1>5, StackRoots, StackEntries DEF Firmware
<1> QED
  BY <1>1, <1>2, <1>3, <1>4, <1>5 DEF Next

\* What becomes of the outermost load.
LEMMA GoLone ==
  ASSUME IInv, frames # <<>>, NEW f, Go(f)
  PROVE  /\ Len(frames) \in Nat \ {0} /\ Len(frames') = Len(frames) /\ frames' # <<>>
         /\ Top = frames[Len(frames)] /\ frames'[Len(frames)] = f
         /\ Len(frames) # 1 => frames'[1] = frames[1]
<1>1. frames' = [frames EXCEPT ![Len(frames)] = f]
  BY DEF Go, Depth
<1>2. /\ Len(frames) \in Nat \ {0} /\ DOMAIN frames = 1 .. Len(frames)
      /\ Len(frames') = Len(frames) /\ frames' # <<>>
      /\ frames'[Len(frames)] = f /\ \A k \in DOMAIN frames : k # Len(frames) => frames'[k] = frames[k]
  BY <1>1, GoFrames DEF IInv, Hands
<1> QED
  BY <1>2 DEF Top, Depth

LEMMA PopLone ==
  ASSUME IInv, Stack, frames # <<>>, frames' = Front(frames)
  PROVE  /\ Len(frames) \in Nat \ {0} /\ Len(frames') = Len(frames) - 1
         /\ Top = frames[Len(frames)]
         /\ frames' # <<>> => frames'[1] = frames[1] /\ frames[1].at = "reduced"
         /\ frames' # <<>> => Len(frames) > 1
<1>1. /\ Len(frames') = Len(frames) - 1 /\ Len(frames) \in Nat \ {0} /\ Sequence(frames')
      /\ \A i \in DOMAIN frames' : i \in DOMAIN frames /\ frames'[i] = frames[i]
  BY FrontFacts DEF IInv, Hands
<1>2. DOMAIN frames' = 1 .. Len(frames) - 1
  BY <1>1, AppendFacts
<1>3. frames' # <<>> => Len(frames') # 0
  BY <1>1, EmptySeq DEF Sequence
<1>4. frames' # <<>> => 1 \in DOMAIN frames' /\ Len(frames) > 1
  BY <1>1, <1>2, <1>3
<1>5. \A k \in DOMAIN frames : k # Len(frames) => frames[k].at = "reduced"
  BY DEF Stack
<1> QED
  BY <1>1, <1>4, <1>5 DEF Top, Depth

LEMMA PushLone ==
  ASSUME IInv, frames' = Append(frames, Frame("begin"))
  PROVE  /\ Len(frames) \in Nat /\ Len(frames') = Len(frames) + 1 /\ frames' # <<>>
         /\ frames # <<>> => Len(frames) \in Nat \ {0} /\ frames'[1] = frames[1]
         /\ frames = <<>> => Len(frames) = 0
         /\ LET f == frames'[Len(frames')]
            IN  f.at = "begin" /\ f.i = 1 /\ f.count = 0 /\ f.dir = "XSDT"
<1> DEFINE f == Frame("begin")
<1>1. f.at = "begin" /\ f.i = 1 /\ f.count = 0 /\ f.dir = "XSDT"
  BY DEF Frame
<1> HIDE DEF f
<1>2. /\ Len(frames) \in Nat /\ DOMAIN frames = 1 .. Len(frames)
      /\ Len(frames') = Len(frames) + 1 /\ DOMAIN frames' = 1 .. Len(frames) + 1
      /\ \A i \in DOMAIN frames : frames'[i] = frames[i]
      /\ frames'[Len(frames) + 1] = f
  BY AppendFacts DEF IInv, Hands, f
<1>3. frames # <<>> => Len(frames) # 0
  BY EmptySeq DEF IInv, Hands, Sequence
<1>4. frames' # <<>>
  BY <1>2
<1> QED
  BY <1>1, <1>2, <1>3, <1>4

\* A load that returns has set what became of the tables.
LEMMA ReturnsLoaded ==
  ASSUME IInv, Stack, frames # <<>>, frames' = Front(frames), NoRsdp \/ NoDirectory \/ EndDirectory
         \/ FadtFails \/ AnswerNotReduced \/ Begin \/ EndFiles \/ Fixup
  PROVE  loaded' \in {"ok", "failed"}
<1>1. CASE Fixup
  <2>1. Top.at \in FromFiles /\ loaded' = loaded
    BY <1>1 DEF Fixup, FixFacs, FixAddrs, FixRsdt, FixXsdt, FixDirectory, FixRsdp, At, FromFiles
  <2> QED
    BY <2>1, TopFrame DEF FrameOK
<1>2. ASSUME NEW f, Go(f) PROVE FALSE
  BY <1>2, GoLone, PopLone
<1>3. CASE Begin \/ EndFiles
  BY <1>2, <1>3 DEF Begin, EndFiles, Goto, Return
<1>4. CASE NoDirectory \/ EndDirectory
  BY <1>2, <1>4 DEF NoDirectory, EndDirectory, NextDirectory, Return
<1>5. CASE NoRsdp \/ FadtFails \/ AnswerNotReduced
  BY <1>5 DEF NoRsdp, FadtFails, AnswerNotReduced, Fail, Return
<1> QED
  BY <1>1, <1>3, <1>4, <1>5

LEMMA FixupFrames ==
  ASSUME IInv, Stack, Fixup
  PROVE  /\ frames # <<>> /\ Top.at \in FromFiles /\ loaded = "ok" /\ loaded' = loaded
         /\ facsLast' = facsLast /\ ended = "no" /\ ended' = ended
         /\ frames' = Front(frames) \/ \E f : Go(f) /\ f.at \in FromFiles
<1>0. /\ frames # <<>> /\ Top.at \in FromFiles /\ loaded' = loaded /\ facsLast' = facsLast
      /\ ended = "no" /\ ended' = ended
  BY DEF Fixup, FixFacs, FixAddrs, FixRsdt, FixXsdt, FixDirectory, FixRsdp, At, FromFiles, Step
<1>1. DOMAIN Top = FrameFields /\ loaded = "ok"
  BY <1>0, TopFrame DEF FrameOK
<1>2. ASSUME NEW place \in FromFiles
      PROVE  [Top EXCEPT !.at = place].at \in FromFiles
  BY <1>1 DEF FrameFields
<1>3. CASE FixFacs \/ FixAddrs \/ FixRsdp
  <2>1. frames' = Front(frames) \/ Goto("fixAddrs") \/ Goto("fixRsdt")
    BY <1>3 DEF FixFacs, FixAddrs, FixRsdp, GiveUpFixup
  <2>2. "fixAddrs" \in FromFiles /\ "fixRsdt" \in FromFiles
    BY DEF FromFiles
  <2> QED
    BY <1>0, <1>1, <1>2, <2>1, <2>2 DEF Goto
<1>4. ASSUME NEW name \in {"RSDT", "XSDT"}, NEW place, NEW next \in FromFiles, FixDirectory(name, place, next)
      PROVE  frames' = Front(frames) \/ \E f : Go(f) /\ f.at \in FromFiles
  <2>1. frames' = Front(frames) \/ \E addr : Go([Top EXCEPT !.at = next, ![name] = addr])
    BY <1>4 DEF FixDirectory, GiveUpFixup
  <2>2. \A addr : [Top EXCEPT !.at = next, ![name] = addr].at = next
    BY <1>1 DEF FrameFields
  <2> QED
    BY <2>1, <2>2
<1>5. CASE FixRsdt \/ FixXsdt
  BY <1>0, <1>1, <1>4, <1>5 DEF FixRsdt, FixXsdt, FromFiles
<1> QED
  BY <1>0, <1>1, <1>3, <1>5 DEF Fixup

\* Where an action in the firmware's memory is taken, and where it leads.
LEMMA FirmwareFrames ==
  ASSUME IInv, Stack, Firmware
  PROVE  /\ frames # <<>> /\ Top.at \in FromMemory \union {"rsdp"} /\ ended = "no"
         /\ ReadFreed \/ ended' = "no"
         /\ \/ ReadFreed /\ UNCHANGED <<frames, cacheVars>>
            \/ frames' = Front(frames) /\ loaded' \in {"ok", "failed"}
            \/ /\ frames' = Append(frames, Frame("begin")) /\ Top.at = "reduced"
               /\ UNCHANGED cacheVars /\ loaded = "not"
            \/ loaded' = loaded /\ \E f : Go(f) /\ f.at \in FromMemory
<1>0. /\ frames # <<>> /\ Top.at \in FromMemory \union {"rsdp"} /\ ended = "no"
  BY DEF Firmware, GetRsdp, NoRsdp, GetDirectory, NoDirectory, EndDirectory, ReadFreed, FromMemory,
         GetEntry, NoEntry, GetFacs, NoFacs, GetDsdt, FadtFails, AskReduced, AnswerReduced,
         AnswerNotReduced, Hand, At
<1>1. DOMAIN Top = FrameFields
  BY <1>0, TopFrame
<1>2. CASE ReadFreed
  BY <1>0, <1>2 DEF ReadFreed, Crash
<1>3. CASE NoRsdp \/ FadtFails \/ AnswerNotReduced
  BY <1>0, <1>3 DEF NoRsdp, FadtFails, AnswerNotReduced, Fail, Return, Step
<1>4. CASE AskReduced
  BY <1>0, <1>4 DEF AskReduced, At, Step
<1>5. ASSUME NEW f, Go(f), loaded' = loaded, f.at \in {"root", "entries", "facs", "reduced", "dsdt"},
             ended' = ended
      PROVE  ended' = "no" /\ loaded' = loaded /\ \E g : Go(g) /\ g.at \in FromMemory
  BY <1>0, <1>5 DEF FromMemory, Hand
<1>6. ASSUME NEW place \in {"reduced", "dsdt"}, Goto(place), loaded' = loaded, ended' = ended
      PROVE  ended' = "no" /\ loaded' = loaded /\ \E g : Go(g) /\ g.at \in FromMemory
  <2>1. [Top EXCEPT !.at = place].at = place
    BY <1>1 DEF FrameFields
  <2> QED
    BY <1>5, <1>6, <2>1 DEF Goto
<1>7. CASE NoDirectory \/ EndDirectory
  <2>1. [Top EXCEPT !.at = "root", !.dir = "RSDT"].at = "root"
    BY <1>1 DEF FrameFields
  <2>2. ended' = ended /\ NextDirectory
    BY <1>7 DEF NoDirectory, EndDirectory, Step
  <2> QED
    BY <1>0, <1>5, <2>1, <2>2 DEF NextDirectory, Return
<1>8. CASE GetFacs \/ NoFacs \/ AnswerReduced
  BY <1>0, <1>6, <1>8 DEF GetFacs, NoFacs, AnswerReduced, Step, cacheVars
<1>9. CASE GetRsdp
  <2>1. [Top EXCEPT !.at = "root", !.rsdp = Len(heap) + 1].at = "root"
    BY <1>1 DEF FrameFields
  <2> QED
    BY <1>0, <1>5, <1>9, <2>1 DEF GetRsdp, Step
<1>10. CASE GetDirectory
  <2>1. [Top EXCEPT !.at = "entries", !.i = 1, !.list = Len(heap) + 1].at = "entries"
    BY <1>1 DEF FrameFields
  <2> QED
    BY <1>0, <1>5, <1>10, <2>1 DEF GetDirectory, Step
<1>11. CASE GetEntry \/ NoEntry \/ GetDsdt
  <2> DEFINE skip == [Top EXCEPT !.i = @ + 1]
             hand == [Top EXCEPT !.at = "facs", !.fadt = Len(heap) + 1]
             back == [Top EXCEPT !.at = "entries", !.i = @ + 1]
  <2>1. skip.at = Top.at /\ hand.at = "facs" /\ back.at = "entries"
    BY <1>1 DEF FrameFields
  <2>2. /\ loaded' = loaded /\ ended' = ended
        /\ (Go(skip) /\ Top.at = "entries") \/ Go(hand) \/ Go(back)
    BY <1>11 DEF GetEntry, NoEntry, GetDsdt, AfterFadt, At, cacheVars, Step
  <2> HIDE DEF skip, hand, back
  <2>3. \E f : Go(f) /\ f.at \in {"root", "entries", "facs", "reduced", "dsdt"}
    BY <2>1, <2>2
  <2> QED
    BY <1>0, <1>5, <2>2, <2>3
<1> QED
  BY <1>0, <1>2, <1>3, <1>4, <1>7, <1>8, <1>9, <1>10, <1>11 DEF Firmware

\* Places, where one is not another.
LEMMA Places ==
  /\ FromMemory \intersect (FromFiles \union {"begin", "files", "rsdp"}) = {}
  /\ FromFiles \intersect {"begin", "files", "rsdp"} = {}
  /\ "reduced" \in FromMemory
  BY DEF FromMemory, FromFiles, Hand

LEMMA EarlyFiles ==
  ASSUME IInv, Stack, Early, Begin \/ LoadFile \/ EndFiles
  PROVE  Early'
<1> DEFINE first == {"begin", "files", "rsdp"}
<1>0. frames # <<>> /\ facsLast' = facsLast
  BY DEF Begin, LoadFile, EndFiles, At
<1>1. DOMAIN Top = FrameFields /\ FrameOK(Top, machine, loaded, starved)
  BY <1>0, TopFrame
<1>2. CASE frames' = Front(frames) /\ (Begin \/ EndFiles)
  <2>1. loaded' # "not"
    BY <1>0, <1>2, ReturnsLoaded
  <2>2. frames' # <<>> => frames'[1].at \notin first
    BY <1>0, <1>2, PopLone
  <2>3. Len(frames') = 1 => frames' # <<>>
    OBVIOUS
  <2> QED
    BY <2>1, <2>2, <2>3 DEF Early
<1>3. ASSUME NEW f, Go(f), Len(frames) = 1 /\ f.at \in first =>
               /\ loaded' = "not" /\ f.dir = "XSDT"
               /\ f.count = 0 => tables' = <<>>
               /\ f.at # "begin"
      PROVE  Early'
  <2>1. /\ Len(frames') = 1 => Len(frames) = 1 /\ frames'[1] = f /\ Top = frames[1]
        /\ frames' # <<>>
    BY <1>0, <1>3, GoLone
  <2>2. Len(frames) = 1 /\ f.at \in first => facsLast = 0
    <3>1. Top.at \in first
      BY DEF Begin, LoadFile, EndFiles, At
    <3> QED
      BY <1>0, <1>3, <2>1, <3>1, GoLone DEF Early
  <2> QED
    BY <1>0, <1>3, <2>1, <2>2 DEF Early
<1>4. Len(frames) = 1 => /\ loaded = "not" /\ Top.dir = "XSDT"
                         /\ Top.count = 0 => tables = <<>>
  <2>1. Top.at \in first /\ Top = frames[Len(frames)]
    BY <1>0, TopFrame DEF Begin, LoadFile, EndFiles, At
  <2> QED
    BY <2>1 DEF Early
<1>5. CASE Begin \/ EndFiles
  <2>1. ASSUME NEW place \in {"files", "rsdp", "fixFacs"}, Goto(place), tables' = tables,
               place # "fixFacs" => loaded' = loaded
        PROVE  Early'
    <3> DEFINE f == [Top EXCEPT !.at = place]
    <3>1. f.at = place /\ f.dir = Top.dir /\ f.count = Top.count /\ Go(f)
      BY <1>1, <2>1 DEF FrameFields, Goto
    <3> HIDE DEF f
    <3>2. f.at # "begin" /\ (f.at \in first => loaded' = loaded)
      BY <2>1, <3>1
    <3> QED
      BY <1>3, <1>4, <2>1, <3>1, <3>2
  <2>2. /\ tables' = tables
        /\ \/ frames' = Front(frames)
           \/ Goto("files") /\ loaded' = loaded
           \/ Goto("rsdp") /\ loaded' = loaded
           \/ Goto("fixFacs")
    BY <1>5 DEF Begin, EndFiles, Return
  <2> QED
    BY <1>2, <1>5, <2>1, <2>2
<1>6. CASE LoadFile
  <2> DEFINE next == [Top EXCEPT !.i = @ + 1, !.count = @ + 1]
             skip == [Top EXCEPT !.i = @ + 1]
  <2>1. /\ next.at = Top.at /\ next.dir = Top.dir /\ next.count = Top.count + 1
        /\ skip.at = Top.at /\ skip.dir = Top.dir /\ skip.count = Top.count
    BY <1>1 DEF FrameFields
  <2>2. /\ Top.at = "files" /\ loaded' = loaded
        /\ (Go(skip) /\ tables' = tables) \/ Go(next)
    BY <1>6 DEF LoadFile, At
  <2> HIDE DEF next, skip
  <2>3. next.count # 0
    BY <1>1, <2>1 DEF FrameOK
  <2> QED
    BY <1>3, <1>4, <2>1, <2>2, <2>3
<1> QED
  BY <1>5, <1>6

LEMMA EarlyHolds ==
  ASSUME IInv, Stack, Early, [Next]_vars
  PROVE  Early'
<1> DEFINE first == {"begin", "files", "rsdp"}
<1>1. CASE Ask
  <2>1. frames = <<>> /\ UNCHANGED cacheVars
    BY <1>1 DEF Ask
  <2>2. CASE loaded = "not"
    <3>1. frames' = Append(frames, Frame("begin"))
      BY <1>1, <2>1, <2>2 DEF Ask
    <3>2. /\ frames' # <<>> /\ Len(frames') = 1
          /\ frames'[1].at = "begin" /\ frames'[1].dir = "XSDT"
      BY <2>1, <3>1, PushLone
    <3> QED
      BY <2>1, <2>2, <3>2 DEF Early, cacheVars
  <2>3. CASE loaded # "not"
    <3>1. frames' = frames
      BY <1>1, <2>1, <2>3 DEF Ask
    <3> QED
      BY <2>1, <2>3, <3>1 DEF Early, cacheVars
  <2> QED
    BY <2>2, <2>3
<1>2. CASE Exit
  BY <1>2 DEF Exit, Release, Early
<1>3. CASE Begin \/ Files
  BY <1>3, EarlyFiles DEF Files
<1>4. CASE frames' = Front(frames) /\ frames # <<>> /\ loaded' \in {"ok", "failed"}
  <2>1. frames' # <<>> => frames'[1].at \notin first
    BY <1>4, PopLone
  <2>2. Len(frames') = 1 => frames' # <<>>
    OBVIOUS
  <2> QED
    BY <1>4, <2>1, <2>2 DEF Early
<1>5. ASSUME frames # <<>>, NEW f, Go(f), f.at \in FromMemory \union FromFiles
      PROVE  Early'
  <2>1. /\ Len(frames') = 1 => frames'[1] = f
        /\ frames' # <<>>
    BY <1>5, GoLone
  <2> QED
    BY <1>5, <2>1, Places DEF Early
<1>6. CASE Fixup
  BY <1>4, <1>5, <1>6, FixupFrames
<1>7. CASE UNCHANGED <<frames, cacheVars>>
  BY <1>7 DEF Early, cacheVars
<1>8. CASE frames' = Append(frames, Frame("begin")) /\ frames # <<>>
  <2>1. Len(frames') # 1 /\ frames' # <<>>
    BY <1>8, PushLone
  <2> QED
    BY <2>1 DEF Early
<1>9. CASE Firmware
  BY <1>4, <1>5, <1>7, <1>8, <1>9, FirmwareFrames
<1>10. CASE Terminating \/ UNCHANGED vars
  BY <1>7, <1>10 DEF Terminating, vars
<1> QED
  BY <1>1, <1>2, <1>3, <1>6, <1>9, <1>10 DEF Next

-----------------------------------------------------------------------------
(* What a load has been to. *)

LEMMA ListedFacts ==
  ASSUME NEW m, NEW d
  PROVE  /\ Listed(m, d, 0) = {}
         /\ \A n \in Nat : Listed(m, d, n + 1) = Listed(m, d, n) \union Cover(m, m.memory[d].list[n + 1])
<1>1. Listed(m, d, 0) = {}
  BY DEF Listed
<1>2. ASSUME NEW n \in Nat
      PROVE  Listed(m, d, n + 1) = Listed(m, d, n) \union Cover(m, m.memory[d].list[n + 1])
  <2>1. 1 .. n + 1 = (1 .. n) \union {n + 1}
    OBVIOUS
  <2> QED
    BY <2>1 DEF Listed
<1> QED
  BY <1>1, <1>2

LEMMA DirCoverFacts ==
  ASSUME NEW m \in Machines, NEW d
  PROVE  /\ d \notin DOMAIN m.memory => DirCover(m, d) = {} /\ LedTo(m, d) = {}
         /\ d \in DOMAIN m.memory => d \in DirCover(m, d)
         /\ IsDir(m, d) => DirCover(m, d) = {d} \union LedTo(m, d)
         /\ DirCover(m, d) \subseteq {d} \union LedTo(m, d)
<1>1. d \notin DOMAIN m.memory => DirCover(m, d) = {} /\ LedTo(m, d) = {}
  BY DEF DirCover, LedTo, IsDir
<1>2. d \in DOMAIN m.memory => d \in DirCover(m, d)
  BY DEF DirCover
<1>3. ASSUME IsDir(m, d) PROVE DirCover(m, d) = {d} \union LedTo(m, d)
  <2> DEFINE list   == m.memory[d].list
             listed == Range(list) \intersect DOMAIN m.memory
             fadts  == {a \in listed : m.memory[a].sig = "FACP"}
  <2>1. Len(list) \in Nat /\ DOMAIN list = 1 .. Len(list)
    BY <1>3, ListFacts
  <2>2. LedTo(m, d) = listed \union UNION {Pointers(m.memory[a]) : a \in fadts}
    BY <1>3 DEF LedTo, IsDir
  <2>3. Listed(m, d, Len(list)) = UNION {Cover(m, list[k]) : k \in DOMAIN list}
    BY <2>1 DEF Listed
  <2>4. \A k \in DOMAIN list : list[k] \in Range(list)
    BY DEF Range
  <2>5. \A a \in Range(list) : \E k \in DOMAIN list : a = list[k]
    BY DEF Range
  <2> HIDE DEF list
  <2>6. Listed(m, d, Len(list)) \subseteq LedTo(m, d)
    BY <2>2, <2>3, <2>4 DEF Cover
  <2>7. LedTo(m, d) \subseteq Listed(m, d, Len(list))
    <3>1. ASSUME NEW a \in listed PROVE Cover(m, a) \subseteq Listed(m, d, Len(list))
      BY <2>3, <2>5
    <3>2. \A a \in listed : a \in Cover(m, a)
      BY DEF Cover
    <3>3. \A a \in fadts : Pointers(m.memory[a]) \subseteq Cover(m, a)
      BY DEF Cover
    <3> QED
      BY <2>2, <3>1, <3>2, <3>3
  <2> QED
    BY <1>3, <2>6, <2>7 DEF DirCover, IsDir, list
<1>4. DirCover(m, d) \subseteq {d} \union LedTo(m, d)
  BY <1>3 DEF DirCover
<1> QED
  BY <1>1, <1>2, <1>3, <1>4

\* The only load, in the middle of memory.
LEMMA TopFollows ==
  ASSUME IInv, Stack, Followed, Complete, Len(frames) = 1, loaded = "not", frames # <<>>,
         Top.at \in FromMemory
  PROVE  /\ HandsTrue(Top, machine, heap) /\ Visited(Top, machine, tables)
         /\ starved = FALSE /\ Len(tables) < MaxTables => SeenAll(Top, machine, tables, facsLast)
         /\ machine \in Machines /\ machine.rsdp \in DOMAIN machine.memory
         /\ DOMAIN Top = FrameFields /\ Top.i \in Nat \ {0}
<1>1. /\ FrameOK(Top, machine, loaded, starved) /\ DOMAIN Top = FrameFields
      /\ Top = frames[1] /\ machine \in Machines
  BY TopFrame
<1>2. Alone
  BY <1>1 DEF Alone
<1> QED
  BY <1>1, <1>2 DEF Followed, Complete, FrameOK

LEMMA FollowedGo ==
  ASSUME IInv, frames # <<>>, Onward, NEW g, Go(g), Len(frames) = 1 /\ loaded' = "not" => Follows(g)
  PROVE  Followed' /\ Complete'
<1>1. Len(frames') = Len(frames) /\ (Len(frames) = 1 => frames'[1] = g)
  BY GoLone
<1> QED
  BY <1>1 DEF Followed, Complete, Follows, Alone, Onward

\* A table from the firmware's memory is added.
LEMMA FirmwareAdded ==
  ASSUME NEW ts, Sequence(ts), Len(ts) <= MaxTables, NEW name, NEW c, NEW addr, addr # 0,
         \A i \in DOMAIN ts : ts[i].from = "firmware",
         NEW new, new = AddTable(ts, name, c, addr, "firmware")
  PROVE  /\ \A i \in DOMAIN new : new[i].from = "firmware"
         /\ Addrs(ts) \subseteq Addrs(new) /\ Addrs(new) \subseteq Addrs(ts) \union {addr}
         /\ Len(new) < MaxTables => Len(ts) < MaxTables /\ addr \in Addrs(new)
         /\ Len(ts) < MaxTables => addr \in Addrs(new)
<1> DEFINE added == AddTable(ts, name, c, addr, "firmware")
<1>1. /\ Duplicate(ts, addr) <=> addr \in Addrs(ts)
      /\ Addrs(ts) \subseteq Addrs(added) /\ Addrs(added) \subseteq Addrs(ts) \union {addr}
      /\ Len(added) < MaxTables => Len(ts) < MaxTables
      /\ Len(ts) < MaxTables => addr \in Addrs(added)
      /\ addr \in Addrs(ts) => added = ts
      /\ Sequence(added) /\ Len(added) <= MaxTables
      /\ \A i \in DOMAIN ts : i \in DOMAIN added /\ added[i] = ts[i]
      /\ \A i \in DOMAIN added :
           \/ i \in DOMAIN ts /\ added[i] = ts[i]
           \/ /\ addr \notin Addrs(ts) /\ i = Len(ts) + 1
              /\ added[i].name = name /\ added[i].addr = addr
              /\ added[i].from = "firmware" /\ added[i].data = c
  BY AddTableFacts, Zenon
<1> HIDE DEF added
<1>2. new = added
  BY DEF added
<1>3. \A i \in DOMAIN added : added[i].from = "firmware"
  BY <1>1
<1> QED
  BY <1>1, <1>2, <1>3

LEMMA RsdpFollows ==
  ASSUME IInv, Stack, Early, Onward, GetRsdp, Len(frames) = 1
  PROVE  \E g : Go(g) /\ Follows(g)
<1> DEFINE m == machine
           c == Len(heap) + 1
           g == [Top EXCEPT !.at = "root", !.rsdp = c]
           table == m.memory[m.rsdp]
<1>1. /\ frames # <<>> /\ Top.at = "rsdp" /\ m.rsdp \in DOMAIN m.memory
      /\ AddAs(table.sig, table, m.rsdp, "firmware") /\ Go(g) /\ facsLast' = facsLast
  BY DEF GetRsdp, At, Readable, Add
<1>2. /\ DOMAIN Top = FrameFields /\ FrameOK(Top, m, loaded, starved) /\ m \in Machines
      /\ Top = frames[1]
  BY <1>1, TopFrame
<1>3. tables = <<>> /\ facsLast = 0 /\ Top.dir = "XSDT"
  BY <1>1, <1>2 DEF Early, FrameOK
<1>4. g.at = "root" /\ g.rsdp = c /\ g.dir = "XSDT"
  BY <1>2, <1>3 DEF FrameFields
<1>5. m.rsdp # 0 /\ IsTable(table)
  BY <1>1, <1>2, MachineFacts
<1> HIDE DEF g, table
<1>6. /\ tables' = AddTable(tables, table.sig, c, m.rsdp, "firmware")
      /\ c \in DOMAIN heap' /\ heap'[c].table = table /\ heap'[c].live = (m.rsdp \notin Addrs(tables))
  BY <1>1, <1>5, AddAsFacts DEF IInv
<1> HIDE DEF c
<1>7. Addrs(tables) = {} /\ DOMAIN tables = {} /\ Len(tables) = 0
  BY <1>3 DEF Addrs
<1>8. /\ Addrs(tables') = {m.rsdp}
      /\ \A i \in DOMAIN tables' : tables'[i].from = "firmware"
      /\ WellNamed(m, tables')
  <2>1. Sequence(tables) /\ Len(tables) <= MaxTables /\ Len(tables) < MaxTables
    BY <1>7, AcpiTablesAssumption DEF IInv, Shape
  <2>2. WellNamed(m, tables)
    BY <1>7 DEF WellNamed
  <2>3. WellNamed(m, tables')
    BY <1>1, <1>5, <1>6, <2>1, <2>2, AddTableNamed DEF table
  <2> QED
    BY <1>5, <1>6, <1>7, <2>1, <2>3, FirmwareAdded
<1>9. HandsTrue(g, m, heap')
  BY <1>4, <1>6, <1>7 DEF HandsTrue, Copied, Hand, table
<1>10. Seen(m, g) = {m.rsdp}
  BY <1>4 DEF Seen, Before
<1>11. SeenAll(g, m, tables', facsLast')
  BY <1>1, <1>3, <1>4, <1>8, <1>10 DEF SeenAll, Hand
<1> QED
  BY <1>1, <1>8, <1>9, <1>10, <1>11 DEF Follows, Visited

LEMMA DirectoryFollows ==
  ASSUME IInv, Stack, Followed, Complete, Onward, GetDirectory, Len(frames) = 1, loaded = "not"
  PROVE  \E g : Go(g) /\ Follows(g)
<1> DEFINE m == machine
           c == Len(heap) + 1
           g == [Top EXCEPT !.at = "entries", !.i = 1, !.list = c]
           root == m.memory[m.rsdp]
           r == RootOf(m, Top)
<1>1. /\ frames # <<>> /\ Top.at = "root" /\ Top.at \in FromMemory
      /\ RootAddr \in DOMAIN m.memory
      /\ AddAs(Top.dir, m.memory[RootAddr], RootAddr, "firmware") /\ Go(g) /\ facsLast' = facsLast
  BY DEF GetDirectory, At, Readable, FromMemory
<1>2. /\ HandsTrue(Top, m, heap) /\ Visited(Top, m, tables)
      /\ starved = FALSE /\ Len(tables) < MaxTables => SeenAll(Top, m, tables, facsLast)
      /\ m \in Machines /\ m.rsdp \in DOMAIN m.memory /\ DOMAIN Top = FrameFields
  BY <1>1, TopFollows
<1>3. RootAddr = r
  BY <1>2 DEF HandsTrue, Copied, RootAddr, RootOf, Content
<1>4. g.at = "entries" /\ g.i = 1 /\ g.list = c /\ g.rsdp = Top.rsdp /\ g.dir = Top.dir
  BY <1>2 DEF FrameFields
<1>5. r # 0 /\ r \in DOMAIN m.memory
  BY <1>1, <1>2, <1>3, MachineFacts
<1>6. RootOf(m, g) = r /\ Before(m, g) = Before(m, Top)
  BY <1>4 DEF RootOf, Before
<1> HIDE DEF g
<1>7. /\ tables' = AddTable(tables, Top.dir, c, r, "firmware")
      /\ c \notin DOMAIN heap /\ DOMAIN heap' = DOMAIN heap \union {c}
      /\ \A d \in DOMAIN heap : heap'[d] = heap[d]
      /\ heap'[c].table = m.memory[r] /\ heap'[c].live = (r \notin Addrs(tables))
  BY <1>1, <1>3, <1>5, AddAsFacts DEF IInv
<1> HIDE DEF c, r
<1>8. /\ m.rsdp \in Addrs(tables) /\ Addrs(tables) \subseteq Before(m, Top)
  BY <1>1, <1>2 DEF Visited, Seen
<1>9. Top.dir \in {"XSDT", "RSDT"}
  BY <1>2 DEF HandsTrue
<1>10. r \notin Addrs(tables) => IsDir(m, r)
  BY <1>2, <1>5, <1>8, <1>9, RootFacts DEF RootOf, r
<1>11. ASSUME r \in Addrs(tables) PROVE Muddled(m)
  <2>1. CASE Top.dir = "XSDT"
    BY <1>2, <1>8, <1>11, <2>1 DEF Before, Muddled, RootOf, r
  <2>2. CASE Top.dir = "RSDT"
    <3>1. r = root.rsdt
      BY <2>2 DEF r, RootOf
    <3>2. r \in {m.rsdp} \union DirCover(m, root.xsdt)
      BY <1>8, <1>11, <2>2 DEF Before
    <3>3. r \in {m.rsdp, root.xsdt} \union LedTo(m, root.xsdt)
      BY <1>2, <3>2, DirCoverFacts
    <3> QED
      BY <1>2, <1>5, <3>1, <3>3 DEF Muddled
  <2> QED
    BY <1>9, <2>1, <2>2
<1>12. HandsTrue(g, m, heap')
  <2>1. Copied(heap', g.rsdp, m.memory[m.rsdp]) /\ heap'[g.rsdp].live = TRUE /\ g.rsdp \in DOMAIN heap
    BY <1>2, <1>4, <1>7 DEF HandsTrue, Copied
  <2>2. Copied(heap', g.list, m.memory[r]) /\ g.list # g.rsdp
    BY <1>4, <1>7, <2>1 DEF Copied
  <2>3. heap'[g.list].live = FALSE \/ (heap'[g.list].live = TRUE /\ r \notin Addrs(tables))
    BY <1>4, <1>7
  <2>4. IsDir(m, r) => g.i <= Len(m.memory[r].list) + 1
    BY <1>2, <1>4, ListFacts
  <2>5. heap'[g.list].live = FALSE => r \in Addrs(tables)
    BY <1>4, <1>7
  <2> QED
    BY <1>4, <1>5, <1>6, <1>9, <1>10, <1>11, <2>1, <2>2, <2>3, <2>4, <2>5 DEF HandsTrue, Hand
<1>13. Seen(m, g) = Before(m, Top) \union {r}
  <2>1. Listed(m, r, g.i - 1) = {}
    BY <1>4, ListedFacts
  <2> QED
    BY <1>4, <1>6, <2>1 DEF Seen
<1>14. Sequence(tables) /\ Len(tables) <= MaxTables
  BY DEF IInv, Shape
<1>15. Visited(g, m, tables')
  <2>1. \A i \in DOMAIN tables : tables[i].from = "firmware"
    BY <1>2 DEF Visited
  <2>2. /\ \A i \in DOMAIN tables' : tables'[i].from = "firmware"
        /\ Addrs(tables) \subseteq Addrs(tables') /\ Addrs(tables') \subseteq Addrs(tables) \union {r}
    BY <1>5, <1>7, <1>14, <2>1, FirmwareAdded
  <2> QED
    BY <1>8, <1>13, <2>2 DEF Visited
<1>16. ASSUME starved' = FALSE, Len(tables') < MaxTables
       PROVE  SeenAll(g, m, tables', facsLast')
  <2>1. /\ Len(tables) < MaxTables /\ r \in Addrs(tables') /\ Addrs(tables) \subseteq Addrs(tables')
    BY <1>5, <1>7, <1>14, <1>16, AddTableFacts
  <2>2. SeenAll(Top, m, tables, facsLast) /\ Before(m, Top) \subseteq Addrs(tables)
    BY <1>1, <1>2, <1>16, <2>1 DEF Onward, SeenAll, Seen
  <2>3. r \notin Addrs(tables) => Top.dir = m.memory[r].sig
    <3>1. r # m.rsdp \/ r \in Addrs(tables)
      BY <1>8
    <3>2. ASSUME Top.dir = "RSDT", r = root.xsdt PROVE r \in Addrs(tables)
      BY <1>2, <1>5, <2>2, <3>2, DirCoverFacts DEF Before
    <3> QED
      BY <1>2, <1>5, <1>9, <3>1, <3>2, RootFacts DEF RootOf, r
  <2>4. WellNamed(m, tables')
    BY <1>5, <1>7, <1>14, <2>2, <2>3, AddTableNamed DEF SeenAll
  <2>5. Seen(m, g) \subseteq Addrs(tables')
    BY <1>13, <2>1, <2>2
  <2>6. g.dir = "RSDT" /\ root.xsdt \in DOMAIN m.memory => IsDir(m, root.xsdt)
    BY <1>4, <2>2 DEF SeenAll
  <2>7. g.at \notin Hand /\ (facsLast' # 0 =>
          facsLast \in DOMAIN m.memory /\ m.memory[facsLast].sig = "FACP" /\ Cover(m, facsLast) \subseteq Addrs(tables))
    BY <1>1, <1>4, <2>2 DEF SeenAll, Hand
  <2> QED
    BY <1>1, <2>1, <2>4, <2>5, <2>6, <2>7 DEF SeenAll
<1> QED
  BY <1>1, <1>12, <1>15, <1>16 DEF Follows

\* The end of a directory that is there: the load has been to all it leads to.
LEMMA EndReached ==
  ASSUME IInv, Stack, Followed, Complete, Onward, Len(frames) = 1, loaded = "not",
         NoDirectory \/ EndDirectory
  PROVE  LET r == RootOf(machine, Top)
             all == Before(machine, Top) \union DirCover(machine, r)
         IN  /\ frames # <<>> /\ Top.at \in FromMemory \ Hand /\ UNCHANGED <<tables, heap, facsLast>>
             /\ Seen(machine, Top) \subseteq all
             /\ starved' = FALSE /\ Len(tables) < MaxTables =>
                  /\ Seen(machine, Top) = all
                  /\ r \in DOMAIN machine.memory => IsDir(machine, r)
<1> DEFINE m == machine
           r == RootOf(m, Top)
           all == Before(m, Top) \union DirCover(m, r)
<1>1. /\ frames # <<>> /\ Top.at \in {"root", "entries"} /\ UNCHANGED <<tables, heap, facsLast>>
  BY DEF NoDirectory, EndDirectory, At
<1>2. Top.at \in FromMemory \ Hand
  BY <1>1 DEF FromMemory, Hand
<1>3. /\ HandsTrue(Top, m, heap) /\ Visited(Top, m, tables)
      /\ m \in Machines /\ m.rsdp \in DOMAIN m.memory
  BY <1>1, <1>2, TopFollows
<1>4. CASE NoDirectory
  <2>1. Top.at = "root" /\ Seen(m, Top) = Before(m, Top)
    BY <1>4 DEF NoDirectory, At, Seen
  <2>2. RootAddr = r
    BY <1>3 DEF HandsTrue, Copied, RootAddr, RootOf, Content
  <2>3. starved' = FALSE => r \notin DOMAIN m.memory
    BY <1>4, <2>2 DEF NoDirectory, Readable, Starves
  <2>4. starved' = FALSE => DirCover(m, r) = {}
    BY <1>3, <2>3, DirCoverFacts
  <2> QED
    BY <1>1, <1>2, <2>1, <2>3, <2>4
<1>5. CASE EndDirectory
  <2> DEFINE n == Len(m.memory[r].list)
  <2>1. Top.at = "entries" /\ heap[Top.list].live /\ Top.i > Len(Content(Top.list).list)
    BY <1>5 DEF EndDirectory, At, Live
  <2>2. IsDir(m, r) /\ Top.i <= n + 1 /\ Content(Top.list) = m.memory[r]
    BY <1>3, <2>1 DEF HandsTrue, Content, Copied
  <2>3. n \in Nat /\ Top.i \in Nat
    BY <1>1, <1>2, <1>3, <2>2, ListFacts, TopFollows
  <2>4. Top.i - 1 = n
    BY <2>1, <2>2, <2>3
  <2>5. DirCover(m, r) = {r} \union Listed(m, r, n)
    BY <2>2 DEF DirCover, IsDir
  <2>6. Seen(m, Top) = all
    BY <2>1, <2>4, <2>5 DEF Seen
  <2> QED
    BY <1>1, <1>2, <2>2, <2>6
<1> QED
  BY <1>4, <1>5

LEMMA NextDirectoryFollows ==
  ASSUME IInv, Stack, Followed, Complete, Onward, Len(frames) = 1, loaded = "not", loaded' = "not",
         NoDirectory \/ EndDirectory
  PROVE  \E g : Go(g) /\ Follows(g)
<1> DEFINE m == machine
           g == [Top EXCEPT !.at = "root", !.dir = "RSDT"]
           r == RootOf(m, Top)
           all == Before(m, Top) \union DirCover(m, r)
<1>1. /\ frames # <<>> /\ Top.at \in FromMemory \ Hand /\ UNCHANGED <<tables, heap, facsLast>>
      /\ Seen(m, Top) \subseteq all
      /\ starved' = FALSE /\ Len(tables) < MaxTables =>
           /\ Seen(m, Top) = all
           /\ r \in DOMAIN m.memory => IsDir(m, r)
  BY EndReached
<1>2. /\ HandsTrue(Top, m, heap) /\ Visited(Top, m, tables)
      /\ starved = FALSE /\ Len(tables) < MaxTables => SeenAll(Top, m, tables, facsLast)
      /\ m \in Machines /\ DOMAIN Top = FrameFields
  BY <1>1, TopFollows
<1>3. Go(g) /\ Top.dir = "XSDT"
  BY DEF NoDirectory, EndDirectory, NextDirectory, Return
<1>4. g.at = "root" /\ g.dir = "RSDT" /\ g.rsdp = Top.rsdp
  BY <1>2 DEF FrameFields
<1> HIDE DEF g
<1>5. r = m.memory[m.rsdp].xsdt /\ all = {m.rsdp} \union DirCover(m, r)
  BY <1>3 DEF Before, RootOf
<1>6. Seen(m, g) = all
  BY <1>4, <1>5 DEF Seen, Before
<1>7. HandsTrue(g, m, heap')
  BY <1>1, <1>2, <1>4 DEF HandsTrue, Hand
<1>8. Visited(g, m, tables')
  BY <1>1, <1>2, <1>6 DEF Visited
<1>9. ASSUME starved' = FALSE, Len(tables') < MaxTables
      PROVE  SeenAll(g, m, tables', facsLast')
  <2>1. SeenAll(Top, m, tables, facsLast) /\ Seen(m, Top) = all /\ (r \in DOMAIN m.memory => IsDir(m, r))
    BY <1>1, <1>2, <1>9 DEF Onward
  <2> QED
    BY <1>1, <1>4, <1>5, <1>6, <2>1 DEF SeenAll, Hand
<1> QED
  BY <1>3, <1>7, <1>8, <1>9 DEF Follows

\* An entry in the list of a directory.
LEMMA EntryFacts ==
  ASSUME NEW m \in Machines, NEW f, NEW hp, HandsTrue(f, m, hp), f.at \in {"entries", "facs", "dsdt", "reduced"},
         f.at = "entries" => hp[f.list].live = TRUE /\ f.i <= Len(hp[f.list].table.list),
         f.i \in Nat \ {0}
  PROVE  LET r == RootOf(m, f)
             e == EntryOf(m, f)
         IN  /\ IsDir(m, r) /\ hp[f.list].live = TRUE
             /\ f.i <= Len(m.memory[r].list) /\ Len(m.memory[r].list) \in Nat
             /\ hp[f.list].table.list[f.i] = e /\ e \in Nat
             /\ f.i - 1 \in Nat /\ f.i = (f.i - 1) + 1
             /\ Listed(m, r, f.i) = Listed(m, r, f.i - 1) \union Cover(m, e)
<1> DEFINE r == RootOf(m, f)
           e == EntryOf(m, f)
<1>1. IsDir(m, r) /\ hp[f.list].live = TRUE /\ hp[f.list].table = m.memory[r]
  BY DEF HandsTrue, Copied
<1>2. f.i <= Len(m.memory[r].list)
  BY <1>1 DEF HandsTrue, Hand
<1>3. m.memory[r].list \in Seq(Nat) /\ Len(m.memory[r].list) \in Nat
  BY <1>1, ListFacts
<1>4. e = m.memory[r].list[f.i] /\ e \in Nat
  <2> DEFINE list == m.memory[r].list
  <2>1. e = list[f.i]
    BY DEF EntryOf
  <2>2. list \in Seq(Nat) /\ f.i \in 1 .. Len(list)
    BY <1>2, <1>3
  <2> HIDE DEF list
  <2>3. list[f.i] \in Nat
    BY <2>2
  <2> QED
    BY <2>1, <2>3 DEF list
<1>5. f.i - 1 \in Nat /\ f.i = (f.i - 1) + 1
  OBVIOUS
<1>6. Listed(m, r, (f.i - 1) + 1) = Listed(m, r, f.i - 1) \union Cover(m, m.memory[r].list[(f.i - 1) + 1])
  BY <1>5, ListedFacts
<1> HIDE DEF r, e
<1>7. Listed(m, r, f.i) = Listed(m, r, f.i - 1) \union Cover(m, e)
  BY <1>4, <1>5, <1>6
<1> QED
  BY <1>1, <1>2, <1>3, <1>4, <1>5, <1>7 DEF r, e

LEMMA NoEntryFollows ==
  ASSUME IInv, Stack, Followed, Complete, Onward, Len(frames) = 1, loaded = "not", NoEntry
  PROVE  \E g : Go(g) /\ Follows(g)
<1> DEFINE m == machine
           g == [Top EXCEPT !.i = @ + 1]
           r == RootOf(m, Top)
           e == EntryOf(m, Top)
<1>1. /\ frames # <<>> /\ Top.at = "entries" /\ UNCHANGED <<tables, heap, facsLast>> /\ Go(g)
      /\ heap[Top.list].live /\ Top.i <= Len(heap[Top.list].table.list)
      /\ starved' = FALSE => Entry \notin DOMAIN m.memory
  BY DEF NoEntry, At, cacheVars, Live, Content, Readable, Starves
<1>2. Top.at \in FromMemory
  BY <1>1 DEF FromMemory
<1>3. /\ HandsTrue(Top, m, heap) /\ Visited(Top, m, tables)
      /\ starved = FALSE /\ Len(tables) < MaxTables => SeenAll(Top, m, tables, facsLast)
      /\ m \in Machines /\ DOMAIN Top = FrameFields /\ Top.i \in Nat \ {0}
  BY <1>1, <1>2, TopFollows
<1>4. heap[Top.list].live = TRUE
  BY <1>1, <1>3 DEF HandsTrue
<1>5. /\ IsDir(m, r)
      /\ Top.i <= Len(m.memory[r].list) /\ Len(m.memory[r].list) \in Nat
      /\ Entry = e
      /\ Listed(m, r, Top.i) = Listed(m, r, Top.i - 1) \union Cover(m, e)
  BY <1>1, <1>3, <1>4, EntryFacts DEF Entry, Content
<1>6. /\ g.at = "entries" /\ g.i = Top.i + 1 /\ g.rsdp = Top.rsdp /\ g.list = Top.list /\ g.dir = Top.dir
  BY <1>1, <1>3 DEF FrameFields
<1> HIDE DEF g
<1>7. RootOf(m, g) = r /\ Before(m, g) = Before(m, Top) /\ g.i - 1 = Top.i /\ g.i <= Len(m.memory[r].list) + 1
  <2>1. RootOf(m, g) = r /\ Before(m, g) = Before(m, Top)
    BY <1>6 DEF RootOf, Before
  <2> HIDE DEF r
  <2> QED
    BY <1>3, <1>5, <1>6, <2>1
<1>8. Seen(m, g) = Seen(m, Top) \union Cover(m, e)
  BY <1>1, <1>5, <1>6, <1>7 DEF Seen
<1>9. HandsTrue(g, m, heap')
  BY <1>1, <1>3, <1>4, <1>5, <1>6, <1>7 DEF HandsTrue, Hand
<1>10. Visited(g, m, tables')
  BY <1>1, <1>3, <1>8 DEF Visited
<1>11. ASSUME starved' = FALSE, Len(tables') < MaxTables
       PROVE  SeenAll(g, m, tables', facsLast')
  <2>1. SeenAll(Top, m, tables, facsLast)
    BY <1>1, <1>3, <1>11 DEF Onward
  <2>2. Cover(m, e) = {}
    BY <1>1, <1>5, <1>11 DEF Cover
  <2> QED
    BY <1>1, <1>6, <1>8, <2>1, <2>2 DEF SeenAll, Hand
<1> QED
  BY <1>1, <1>9, <1>10, <1>11 DEF Follows

\* A FADT is taken in hand.
LEMMA HoldFollows ==
  ASSUME IInv, Stack, Followed, Complete, Onward, Len(frames) = 1, loaded = "not", GetEntry,
         machine.memory[Entry].sig = "FACP" /\ Entry # facsLast
  PROVE  \E g : Go(g) /\ Follows(g)
<1> DEFINE m == machine
           c == Len(heap) + 1
           g == [Top EXCEPT !.at = "facs", !.fadt = c]
           r == RootOf(m, Top)
           e == EntryOf(m, Top)
           copy == [table |-> m.memory[Entry], live |-> TRUE]
<1>1. /\ frames # <<>> /\ Top.at = "entries" /\ tables' = tables /\ Go(g)
      /\ heap[Top.list].live /\ Top.i <= Len(heap[Top.list].table.list)
      /\ Entry \in DOMAIN m.memory /\ facsLast' = Entry /\ starved' = starved
      /\ heap' = Append(heap, copy)
  BY DEF GetEntry, At, Live, Content, Readable, Enough
<1>2. Top.at \in FromMemory
  BY <1>1 DEF FromMemory
<1>3. /\ HandsTrue(Top, m, heap) /\ Visited(Top, m, tables)
      /\ starved = FALSE /\ Len(tables) < MaxTables => SeenAll(Top, m, tables, facsLast)
      /\ m \in Machines /\ DOMAIN Top = FrameFields /\ Top.i \in Nat \ {0}
  BY <1>1, <1>2, TopFollows
<1>4. heap[Top.list].live = TRUE
  BY <1>1, <1>3 DEF HandsTrue
<1>5. IsDir(m, r) /\ Top.i <= Len(m.memory[r].list) /\ Len(m.memory[r].list) \in Nat /\ Entry = e
  BY <1>1, <1>3, <1>4, EntryFacts DEF Entry, Content
<1>6. copy.table = m.memory[e] /\ m.memory[e].sig = "FACP"
  BY <1>5
<1> HIDE DEF copy
<1>7. /\ g.at = "facs" /\ g.i = Top.i /\ g.rsdp = Top.rsdp /\ g.list = Top.list /\ g.dir = Top.dir
      /\ g.fadt = c
  BY <1>3 DEF FrameFields
<1> HIDE DEF g
<1>8. /\ c \notin DOMAIN heap /\ DOMAIN heap' = DOMAIN heap \union {c}
      /\ \A d \in DOMAIN heap : heap'[d] = heap[d]
      /\ heap'[c] = copy
  <2>1. /\ Len(heap) \in Nat /\ DOMAIN heap = 1 .. Len(heap)
        /\ DOMAIN heap' = 1 .. Len(heap) + 1
        /\ \A d \in DOMAIN heap : heap'[d] = heap[d]
        /\ heap'[Len(heap) + 1] = copy
    BY <1>1, AppendFacts DEF IInv, Shape
  <2> QED
    BY <2>1
<1> HIDE DEF c
<1>9. RootOf(m, g) = r /\ Before(m, g) = Before(m, Top) /\ EntryOf(m, g) = e
  BY <1>7 DEF RootOf, Before, EntryOf
<1>10. Seen(m, g) = Seen(m, Top)
  BY <1>1, <1>7, <1>9 DEF Seen
<1>11. HandsTrue(g, m, heap')
  <2>1. Top.rsdp \in DOMAIN heap /\ Top.list \in DOMAIN heap /\ Top.list # Top.rsdp
    BY <1>1, <1>3 DEF HandsTrue, Copied
  <2>2. /\ Copied(heap', g.rsdp, m.memory[m.rsdp]) /\ heap'[g.rsdp].live = TRUE
        /\ g.dir \in {"XSDT", "RSDT"}
    BY <1>3, <1>7, <1>8, <2>1 DEF HandsTrue, Copied
  <2>3. /\ Copied(heap', g.list, m.memory[r]) /\ heap'[g.list].live = TRUE /\ g.list # g.rsdp
        /\ r \in DOMAIN m.memory
    BY <1>1, <1>3, <1>4, <1>7, <1>8, <2>1 DEF HandsTrue, Copied
  <2>4. Copied(heap', g.fadt, m.memory[e]) /\ g.fadt \notin {g.rsdp, g.list}
    BY <1>6, <1>7, <1>8, <2>1 DEF Copied
  <2>5. g.i <= Len(m.memory[r].list) + 1 /\ g.i <= Len(m.memory[r].list)
    <3> HIDE DEF r
    <3> QED BY <1>3, <1>5, <1>7
  <2> QED
    BY <1>1, <1>5, <1>6, <1>7, <1>9, <2>2, <2>3, <2>4, <2>5 DEF HandsTrue
<1>12. Visited(g, m, tables')
  BY <1>1, <1>3, <1>10 DEF Visited
<1>13. ASSUME starved' = FALSE, Len(tables') < MaxTables
       PROVE  SeenAll(g, m, tables', facsLast')
  <2>1. SeenAll(Top, m, tables, facsLast)
    BY <1>1, <1>3, <1>13
  <2>2. g.at \in Hand
    BY <1>7 DEF Hand
  <2> QED
    BY <1>1, <1>5, <1>7, <1>9, <1>10, <2>1, <2>2 DEF SeenAll
<1> QED
  BY <1>1, <1>11, <1>12, <1>13 DEF Follows

\* Any other table is added.
LEMMA TakeFollows ==
  ASSUME IInv, Stack, Followed, Complete, Onward, Len(frames) = 1, loaded = "not", GetEntry,
         ~(machine.memory[Entry].sig = "FACP" /\ Entry # facsLast)
  PROVE  \E g : Go(g) /\ Follows(g)
<1> DEFINE m == machine
           c == Len(heap) + 1
           g == [Top EXCEPT !.i = @ + 1]
           r == RootOf(m, Top)
           e == EntryOf(m, Top)
<1>1. /\ frames # <<>> /\ Top.at = "entries" /\ facsLast' = facsLast /\ Go(g)
      /\ heap[Top.list].live /\ Top.i <= Len(heap[Top.list].table.list)
      /\ Entry \in DOMAIN m.memory /\ starved' = starved
      /\ AddAs(m.memory[Entry].sig, m.memory[Entry], Entry, "firmware")
  BY DEF GetEntry, At, Live, Content, Readable, Enough, Add
<1>2. Top.at \in FromMemory
  BY <1>1 DEF FromMemory
<1>3. /\ HandsTrue(Top, m, heap) /\ Visited(Top, m, tables)
      /\ starved = FALSE /\ Len(tables) < MaxTables => SeenAll(Top, m, tables, facsLast)
      /\ m \in Machines /\ DOMAIN Top = FrameFields /\ Top.i \in Nat \ {0}
  BY <1>1, <1>2, TopFollows
<1>4. heap[Top.list].live = TRUE
  BY <1>1, <1>3 DEF HandsTrue
<1>5. /\ IsDir(m, r) /\ Top.i <= Len(m.memory[r].list) /\ Len(m.memory[r].list) \in Nat /\ Entry = e
      /\ Listed(m, r, Top.i) = Listed(m, r, Top.i - 1) \union Cover(m, e)
  BY <1>1, <1>3, <1>4, EntryFacts DEF Entry, Content
<1>6. /\ g.at = "entries" /\ g.i = Top.i + 1 /\ g.rsdp = Top.rsdp /\ g.list = Top.list /\ g.dir = Top.dir
  BY <1>1, <1>3 DEF FrameFields
<1>7. e # 0 /\ e \in DOMAIN m.memory
  BY <1>1, <1>3, <1>5, MachineFacts
<1> HIDE DEF g, e
<1>8. /\ tables' = AddTable(tables, m.memory[e].sig, c, e, "firmware")
      /\ \A d \in DOMAIN heap : heap'[d] = heap[d]
      /\ DOMAIN heap' = DOMAIN heap \union {c}
  <2> DEFINE t == m.memory[e]
             s == t.sig
  <2>1. AddAs(s, t, e, "firmware")
    BY <1>1, <1>5 DEF AddAs
  <2> HIDE DEF t, s
  <2>2. Shape(tables, heap)
    BY DEF IInv
  <2>3. /\ tables' = AddTable(tables, s, c, e, "firmware")
        /\ \A d \in DOMAIN heap : heap'[d] = heap[d]
        /\ DOMAIN heap' = DOMAIN heap \union {c}
    BY <1>7, <2>1, <2>2, AddAsFacts
  <2> QED
    BY <2>3 DEF t, s
<1> HIDE DEF c
<1>9. RootOf(m, g) = r /\ Before(m, g) = Before(m, Top)
  BY <1>6 DEF RootOf, Before
<1>10. g.i - 1 = Top.i /\ g.i <= Len(m.memory[r].list) + 1
  <2> HIDE DEF r
  <2> QED
    BY <1>3, <1>5, <1>6
<1>11. Seen(m, g) = Seen(m, Top) \union Cover(m, e)
  BY <1>1, <1>5, <1>6, <1>9, <1>10 DEF Seen
<1>12. HandsTrue(g, m, heap')
  BY <1>1, <1>3, <1>4, <1>5, <1>6, <1>8, <1>9, <1>10 DEF HandsTrue, Hand, Copied
<1>13. Sequence(tables) /\ Len(tables) <= MaxTables
  BY DEF IInv, Shape
<1>14. /\ \A i \in DOMAIN tables' : tables'[i].from = "firmware"
       /\ Addrs(tables) \subseteq Addrs(tables') /\ Addrs(tables') \subseteq Addrs(tables) \union {e}
       /\ Len(tables') < MaxTables => Len(tables) < MaxTables /\ e \in Addrs(tables')
  <2>1. \A i \in DOMAIN tables : tables[i].from = "firmware"
    BY <1>3 DEF Visited
  <2> QED
    BY <1>7, <1>8, <1>13, <2>1, FirmwareAdded
<1>15. e \in Cover(m, e)
  BY <1>7 DEF Cover
<1>16. Visited(g, m, tables')
  BY <1>3, <1>11, <1>14, <1>15 DEF Visited
<1>17. ASSUME starved' = FALSE, Len(tables') < MaxTables
       PROVE  SeenAll(g, m, tables', facsLast')
  <2>1. SeenAll(Top, m, tables, facsLast)
    BY <1>1, <1>3, <1>14, <1>17
  <2>2. WellNamed(m, tables')
    BY <1>7, <1>8, <1>13, <2>1, AddTableNamed DEF SeenAll
  <2>3. facsLast # 0 => /\ facsLast \in DOMAIN m.memory /\ m.memory[facsLast].sig = "FACP"
                        /\ Cover(m, facsLast) \subseteq Addrs(tables)
    BY <1>1, <2>1 DEF SeenAll, Hand
  <2>4. Cover(m, e) \subseteq Addrs(tables')
    <3>1. CASE m.memory[e].sig = "FACP"
      BY <1>5, <1>7, <1>14, <2>3, <3>1
    <3>2. CASE m.memory[e].sig # "FACP"
      BY <1>14, <1>17, <3>2 DEF Cover
    <3> QED
      BY <3>1, <3>2
  <2>5. Seen(m, g) \subseteq Addrs(tables')
    BY <1>11, <1>14, <2>1, <2>4 DEF SeenAll
  <2>6. /\ g.at \notin Hand
        /\ g.dir = "RSDT" /\ m.memory[m.rsdp].xsdt \in DOMAIN m.memory => IsDir(m, m.memory[m.rsdp].xsdt)
    BY <1>6, <2>1 DEF SeenAll, Hand
  <2> QED
    BY <1>1, <1>14, <2>2, <2>3, <2>5, <2>6 DEF SeenAll
<1> QED
  BY <1>1, <1>12, <1>16, <1>17 DEF Follows

\* The FADT in hand is the one that the entry leads to.
LEMMA HandFacts ==
  ASSUME IInv, Stack, Followed, Complete, Len(frames) = 1, loaded = "not", frames # <<>>, Top.at \in Hand
  PROVE  LET m == machine
             r == RootOf(m, Top)
             e == EntryOf(m, Top)
         IN  /\ HandsTrue(Top, m, heap) /\ Visited(Top, m, tables)
             /\ starved = FALSE /\ Len(tables) < MaxTables => SeenAll(Top, m, tables, facsLast)
             /\ m \in Machines /\ DOMAIN Top = FrameFields /\ Top.i \in Nat \ {0}
             /\ heap[Top.fadt].table = m.memory[e] /\ Entry = e
             /\ e \in DOMAIN m.memory /\ e # 0 /\ m.memory[e].sig = "FACP"
             /\ Cover(m, e) = {e} \union ({FacsOf(m.memory[e]), DsdtOf(m.memory[e])} \ {0})
             /\ IsDir(m, r) /\ heap[Top.list].live = TRUE
             /\ Top.i <= Len(m.memory[r].list) /\ Len(m.memory[r].list) \in Nat
             /\ Listed(m, r, Top.i) = Listed(m, r, Top.i - 1) \union Cover(m, e)
<1> DEFINE m == machine
           r == RootOf(m, Top)
           e == EntryOf(m, Top)
<1>1. Top.at \in FromMemory /\ Top.at \in {"entries", "facs", "dsdt", "reduced"} /\ Top.at # "entries" /\ Top.at # "root"
  BY DEF FromMemory, Hand
<1>2. /\ HandsTrue(Top, m, heap) /\ Visited(Top, m, tables)
      /\ starved = FALSE /\ Len(tables) < MaxTables => SeenAll(Top, m, tables, facsLast)
      /\ m \in Machines /\ DOMAIN Top = FrameFields /\ Top.i \in Nat \ {0}
  BY <1>1, TopFollows
<1>3. heap[Top.fadt].table = m.memory[e] /\ e \in DOMAIN m.memory /\ m.memory[e].sig = "FACP"
  BY <1>2 DEF HandsTrue, Copied
<1>4. e # 0 /\ IsTable(m.memory[e])
  BY <1>2, <1>3, MachineFacts
<1>5. Cover(m, e) = {e} \union ({FacsOf(m.memory[e]), DsdtOf(m.memory[e])} \ {0})
  BY <1>3, <1>4, FadtFacts DEF Cover
<1>6. /\ IsDir(m, r) /\ heap[Top.list].live = TRUE
      /\ Top.i <= Len(m.memory[r].list) /\ Len(m.memory[r].list) \in Nat
      /\ heap[Top.list].table.list[Top.i] = e
      /\ Listed(m, r, Top.i) = Listed(m, r, Top.i - 1) \union Cover(m, e)
  BY <1>1, <1>2, EntryFacts
<1>7. Entry = e
  BY <1>6 DEF Entry, Content
<1> QED
  BY <1>2, <1>3, <1>4, <1>5, <1>6, <1>7

LEMMA FacsFollows ==
  ASSUME IInv, Stack, Followed, Complete, Onward, Len(frames) = 1, loaded = "not", GetFacs
  PROVE  \E g : Go(g) /\ Follows(g)
<1> DEFINE m == machine
           c == Len(heap) + 1
           g == [Top EXCEPT !.at = "dsdt"]
           r == RootOf(m, Top)
           e == EntryOf(m, Top)
           a == FacsOf(m.memory[e])
<1>1. /\ frames # <<>> /\ Top.at = "facs" /\ facsLast' = facsLast /\ Go(g)
      /\ FadtAddr \in DOMAIN m.memory /\ starved' = starved
      /\ AddAs(m.memory[FadtAddr].sig, m.memory[FadtAddr], FadtAddr, "firmware")
  BY DEF GetFacs, At, Readable, Enough, Add, Goto
<1>2. /\ HandsTrue(Top, m, heap) /\ Visited(Top, m, tables)
      /\ starved = FALSE /\ Len(tables) < MaxTables => SeenAll(Top, m, tables, facsLast)
      /\ m \in Machines /\ DOMAIN Top = FrameFields /\ Top.i \in Nat \ {0}
      /\ heap[Top.fadt].table = m.memory[e]
      /\ IsDir(m, r) /\ heap[Top.list].live = TRUE
      /\ Top.i <= Len(m.memory[r].list)
  BY <1>1, HandFacts DEF Hand
<1>3. FadtAddr = a
  BY <1>1, <1>2 DEF FadtAddr, FacsOf, Content
<1>4. a \in DOMAIN m.memory /\ a # 0
  BY <1>1, <1>2, <1>3, MachineFacts
<1>5. /\ g.at = "dsdt" /\ g.i = Top.i /\ g.rsdp = Top.rsdp /\ g.list = Top.list /\ g.dir = Top.dir
      /\ g.fadt = Top.fadt
  BY <1>2 DEF FrameFields
<1> HIDE DEF g
<1>6. RootOf(m, g) = r /\ Before(m, g) = Before(m, Top) /\ EntryOf(m, g) = e
  BY <1>5 DEF RootOf, Before, EntryOf
<1> HIDE DEF a
<1>7. /\ tables' = AddTable(tables, m.memory[a].sig, c, a, "firmware")
      /\ \A d \in DOMAIN heap : heap'[d] = heap[d]
      /\ DOMAIN heap' = DOMAIN heap \union {c}
  <2> DEFINE t == m.memory[a]
             s == t.sig
  <2>1. AddAs(s, t, a, "firmware")
    BY <1>1, <1>3 DEF AddAs
  <2> HIDE DEF t, s
  <2>2. Shape(tables, heap)
    BY DEF IInv
  <2>3. /\ tables' = AddTable(tables, s, c, a, "firmware")
        /\ \A d \in DOMAIN heap : heap'[d] = heap[d]
        /\ DOMAIN heap' = DOMAIN heap \union {c}
    BY <1>4, <2>1, <2>2, AddAsFacts
  <2> QED
    BY <2>3 DEF t, s
<1> HIDE DEF c
<1>8. Seen(m, g) = Seen(m, Top) \union {a}
  BY <1>1, <1>5, <1>6 DEF Seen, a
<1>9. HandsTrue(g, m, heap')
  BY <1>1, <1>2, <1>4, <1>5, <1>6, <1>7 DEF HandsTrue, Hand, Copied, a
<1>10. Sequence(tables) /\ Len(tables) <= MaxTables
  BY DEF IInv, Shape
<1>11. /\ \A i \in DOMAIN tables' : tables'[i].from = "firmware"
       /\ Addrs(tables) \subseteq Addrs(tables') /\ Addrs(tables') \subseteq Addrs(tables) \union {a}
       /\ Len(tables') < MaxTables => Len(tables) < MaxTables /\ a \in Addrs(tables')
  <2>1. \A i \in DOMAIN tables : tables[i].from = "firmware"
    BY <1>2 DEF Visited
  <2> QED
    BY <1>4, <1>7, <1>10, <2>1, FirmwareAdded
<1>12. Visited(g, m, tables')
  BY <1>2, <1>8, <1>11 DEF Visited
<1>13. ASSUME starved' = FALSE, Len(tables') < MaxTables
       PROVE  SeenAll(g, m, tables', facsLast')
  <2>1. SeenAll(Top, m, tables, facsLast)
    BY <1>1, <1>2, <1>11, <1>13
  <2>2. WellNamed(m, tables')
    BY <1>4, <1>7, <1>10, <2>1, AddTableNamed DEF SeenAll
  <2>3. Seen(m, g) \subseteq Addrs(tables')
    BY <1>8, <1>11, <1>13, <2>1 DEF SeenAll
  <2> QED
    BY <1>1, <1>5, <1>6, <2>1, <2>2, <2>3 DEF SeenAll, Hand
<1> QED
  BY <1>1, <1>9, <1>12, <1>13 DEF Follows

LEMMA NoFacsFollows ==
  ASSUME IInv, Stack, Followed, Complete, Onward, Len(frames) = 1, loaded = "not", NoFacs
  PROVE  \E g : Go(g) /\ Follows(g)
<1> DEFINE m == machine
           g == [Top EXCEPT !.at = "reduced"]
<1>1. /\ frames # <<>> /\ Top.at = "facs" /\ UNCHANGED <<tables, heap, facsLast, starved>> /\ Go(g)
  BY DEF NoFacs, At, Goto, cacheVars
<1>2. /\ HandsTrue(Top, m, heap) /\ Visited(Top, m, tables)
      /\ starved = FALSE /\ Len(tables) < MaxTables => SeenAll(Top, m, tables, facsLast)
      /\ DOMAIN Top = FrameFields
  BY <1>1, HandFacts DEF Hand
<1>3. /\ g.at = "reduced" /\ g.i = Top.i /\ g.rsdp = Top.rsdp /\ g.list = Top.list /\ g.dir = Top.dir
      /\ g.fadt = Top.fadt
  BY <1>2 DEF FrameFields
<1> HIDE DEF g
<1>4. /\ RootOf(m, g) = RootOf(m, Top) /\ Before(m, g) = Before(m, Top) /\ EntryOf(m, g) = EntryOf(m, Top)
  BY <1>3 DEF RootOf, Before, EntryOf
<1>5. Seen(m, g) = Seen(m, Top)
  BY <1>1, <1>3, <1>4 DEF Seen
<1>6. HandsTrue(g, m, heap')
  BY <1>1, <1>2, <1>3, <1>4 DEF HandsTrue, Hand
<1>7. Visited(g, m, tables')
  BY <1>1, <1>2, <1>5 DEF Visited
<1>8. SeenAll(Top, m, tables, facsLast) => SeenAll(g, m, tables', facsLast')
  BY <1>1, <1>3, <1>4, <1>5 DEF SeenAll, Hand
<1> QED
  BY <1>1, <1>2, <1>6, <1>7, <1>8 DEF Follows

LEMMA DsdtFollows ==
  ASSUME IInv, Stack, Followed, Complete, Onward, Len(frames) = 1, loaded = "not", GetDsdt
  PROVE  \E g : Go(g) /\ Follows(g)
<1> DEFINE m == machine
           c == Len(heap) + 1
           g == [Top EXCEPT !.at = "entries", !.i = @ + 1]
           r == RootOf(m, Top)
           e == EntryOf(m, Top)
           a == DsdtOf(m.memory[e])
           ts == AddTable(tables, m.memory[a].sig, c, a, "firmware")
<1>1. /\ frames # <<>> /\ Top.at = "dsdt" /\ facsLast' = facsLast /\ Go(g)
      /\ FadtAddr \in DOMAIN m.memory /\ starved' = starved
      /\ tables' = AddTable(AddTable(tables, m.memory[FadtAddr].sig, c, FadtAddr, "firmware"),
                            "FACP", Top.fadt, Entry, "firmware")
      /\ \E new, live : heap' = [Append(heap, new) EXCEPT ![Top.fadt].live = live]
  BY DEF GetDsdt, At, Readable, Enough, AfterFadt
<1>2. /\ HandsTrue(Top, m, heap) /\ Visited(Top, m, tables)
      /\ starved = FALSE /\ Len(tables) < MaxTables => SeenAll(Top, m, tables, facsLast)
      /\ m \in Machines /\ DOMAIN Top = FrameFields /\ Top.i \in Nat \ {0}
      /\ heap[Top.fadt].table = m.memory[e] /\ Entry = e
      /\ e \in DOMAIN m.memory /\ e # 0 /\ m.memory[e].sig = "FACP"
      /\ Cover(m, e) = {e} \union ({FacsOf(m.memory[e]), DsdtOf(m.memory[e])} \ {0})
      /\ IsDir(m, r) /\ heap[Top.list].live = TRUE
      /\ Top.i <= Len(m.memory[r].list) /\ Len(m.memory[r].list) \in Nat
      /\ Listed(m, r, Top.i) = Listed(m, r, Top.i - 1) \union Cover(m, e)
  BY <1>1, HandFacts DEF Hand
<1>3. FadtAddr = a
  BY <1>1, <1>2 DEF FadtAddr, DsdtOf, Content
<1>4. a \in DOMAIN m.memory /\ a # 0
  BY <1>1, <1>2, <1>3, MachineFacts
<1>5. FacsOf(m.memory[e]) \in DOMAIN m.memory /\ FacsOf(m.memory[e]) # 0
  BY <1>1, <1>2, MachineFacts DEF HandsTrue
<1>6. /\ g.at = "entries" /\ g.i = Top.i + 1 /\ g.rsdp = Top.rsdp /\ g.list = Top.list /\ g.dir = Top.dir
  BY <1>2 DEF FrameFields
<1> HIDE DEF g
<1>7. RootOf(m, g) = r /\ Before(m, g) = Before(m, Top)
  BY <1>6 DEF RootOf, Before
<1>8. Cover(m, e) = {e, FacsOf(m.memory[e]), a}
  BY <1>2, <1>4, <1>5
<1> HIDE DEF a, e
<1>9. g.i - 1 = Top.i /\ g.i <= Len(m.memory[r].list) + 1
  <2> HIDE DEF r
  <2> QED
    BY <1>2, <1>6
<1>10. tables' = AddTable(ts, "FACP", Top.fadt, e, "firmware")
  BY <1>1, <1>2, <1>3
<1> HIDE DEF ts, c
<1>11. Seen(m, g) = Seen(m, Top) \union Cover(m, e)
  <2>1. Seen(m, g) = Before(m, Top) \union {r} \union Listed(m, r, Top.i)
    BY <1>6, <1>7, <1>9 DEF Seen
  <2>2. Seen(m, Top) = Before(m, Top) \union {r} \union Listed(m, r, Top.i - 1) \union {FacsOf(m.memory[e])}
    BY <1>1 DEF Seen, e
  <2> QED
    BY <1>2, <1>8, <2>1, <2>2
<1>12. HandsTrue(g, m, heap')
  <2>1. PICK new, live : heap' = [Append(heap, new) EXCEPT ![Top.fadt].live = live]
    BY <1>1
  <2>2. \A d \in DOMAIN heap : d \in DOMAIN heap' /\ (d # Top.fadt => heap'[d] = heap[d])
    <3> DEFINE hp == Append(heap, new)
    <3>1. \A d \in DOMAIN heap : d \in DOMAIN hp /\ hp[d] = heap[d]
      BY AppendFacts DEF IInv, Shape
    <3>2. heap' = [hp EXCEPT ![Top.fadt].live = live]
      BY <2>1
    <3> HIDE DEF hp
    <3> QED
      BY <3>1, <3>2
  <2>3. /\ Top.rsdp \in DOMAIN heap /\ Top.list \in DOMAIN heap /\ Top.list # Top.rsdp
        /\ Top.fadt \notin {Top.rsdp, Top.list}
    BY <1>1, <1>2 DEF HandsTrue, Hand, Copied
  <2>4. heap'[Top.rsdp] = heap[Top.rsdp] /\ heap'[Top.list] = heap[Top.list]
    BY <2>2, <2>3
  <2> QED
    BY <1>1, <1>2, <1>6, <1>7, <1>9, <2>2, <2>3, <2>4 DEF HandsTrue, Hand, Copied
<1>13. Sequence(tables) /\ Len(tables) <= MaxTables
  BY DEF IInv, Shape
<1>14. /\ \A i \in DOMAIN ts : ts[i].from = "firmware"
       /\ Addrs(tables) \subseteq Addrs(ts) /\ Addrs(ts) \subseteq Addrs(tables) \union {a}
       /\ Len(ts) < MaxTables => Len(tables) < MaxTables /\ a \in Addrs(ts)
  <2>1. \A i \in DOMAIN tables : tables[i].from = "firmware"
    BY <1>2 DEF Visited
  <2> QED
    BY <1>4, <1>13, <2>1, FirmwareAdded DEF ts
<1>15. Sequence(ts) /\ Len(ts) <= MaxTables
  <2> DEFINE name == m.memory[a].sig
  <2>1. ts = AddTable(tables, name, c, a, "firmware")
    BY DEF ts
  <2> HIDE DEF name
  <2>2. LET new == AddTable(tables, name, c, a, "firmware")
        IN  Sequence(new) /\ Len(new) <= MaxTables
    BY <1>4, <1>13, AddTableFacts
  <2> QED
    BY <2>1, <2>2
<1>16. /\ \A i \in DOMAIN tables' : tables'[i].from = "firmware"
       /\ Addrs(ts) \subseteq Addrs(tables') /\ Addrs(tables') \subseteq Addrs(ts) \union {e}
       /\ Len(tables') < MaxTables => Len(ts) < MaxTables /\ e \in Addrs(tables')
  BY <1>2, <1>10, <1>14, <1>15, FirmwareAdded
<1>17. Visited(g, m, tables')
  BY <1>2, <1>8, <1>11, <1>14, <1>16 DEF Visited
<1>18. ASSUME starved' = FALSE, Len(tables') < MaxTables
       PROVE  SeenAll(g, m, tables', facsLast')
  <2>1. SeenAll(Top, m, tables, facsLast)
    BY <1>1, <1>2, <1>14, <1>16, <1>18
  <2>2. WellNamed(m, ts)
    BY <1>4, <1>13, <2>1, AddTableNamed DEF SeenAll, ts
  <2>3. WellNamed(m, tables')
    BY <1>2, <1>10, <1>15, <2>2, AddTableNamed
  <2>4. FacsOf(m.memory[e]) \in Addrs(tables)
    BY <1>1, <2>1 DEF SeenAll, Seen, e
  <2>5. Cover(m, e) \subseteq Addrs(tables')
    BY <1>8, <1>14, <1>16, <1>18, <2>4
  <2>6. Seen(m, g) \subseteq Addrs(tables')
    BY <1>11, <1>14, <1>16, <2>1, <2>5 DEF SeenAll
  <2>7. facsLast' = e /\ g.at \notin Hand
    BY <1>1, <1>6, <2>1 DEF SeenAll, Hand, e
  <2> QED
    BY <1>2, <1>6, <2>1, <2>3, <2>5, <2>6, <2>7 DEF SeenAll
<1> QED
  BY <1>1, <1>12, <1>17, <1>18 DEF Follows

LEMMA FollowedHolds ==
  ASSUME IInv, Stack, Early, Followed, Complete, [Next]_vars
  PROVE  Followed' /\ Complete'
<1>0. Onward
  BY AlwaysOnward
<1>1. CASE UNCHANGED <<frames, tables, heap, facsLast, loaded>>
  BY <1>0, <1>1 DEF Followed, Complete, Alone, Onward
<1>2. CASE frames' = <<>> \/ loaded' # "not"
  <2>1. Len(frames') # 1 \/ loaded' # "not"
    BY <1>2
  <2> QED
    BY <2>1 DEF Followed, Complete, Alone
<1>3. ASSUME frames # <<>>, NEW g, Go(g), g.at \notin FromMemory
      PROVE  Followed' /\ Complete'
  <2>1. Len(frames') = 1 => frames'[1] = g
    BY <1>3, GoLone
  <2> QED
    BY <1>3, <2>1 DEF Followed, Complete, Alone
<1>4. ASSUME frames' = Append(frames, Frame("begin"))
      PROVE  Followed' /\ Complete'
  <2>1. Len(frames') = 1 => frames'[1].at = "begin"
    BY <1>4, PushLone
  <2> QED
    BY <2>1, Places DEF Followed, Complete, Alone
<1>5. CASE Ask
  <2>1. frames = <<>> /\ UNCHANGED cacheVars
        /\ (frames' = <<>> \/ frames' = Append(frames, Frame("begin")))
    BY <1>5 DEF Ask
  <2> QED
    BY <1>2, <1>4, <2>1
<1>6. CASE Exit
  BY <1>2, <1>6 DEF Exit
<1>7. CASE Begin \/ Files
  <2>1. frames # <<>> /\ DOMAIN Top = FrameFields
    BY <1>7, TopFrame DEF Begin, Files, LoadFile, EndFiles, At
  <2>2. CASE frames' = Front(frames) /\ (Begin \/ EndFiles)
    BY <1>2, <2>1, <2>2, ReturnsLoaded
  <2>3. ASSUME NEW place \in {"files", "rsdp", "fixFacs"}, Goto(place)
        PROVE  Followed' /\ Complete'
    <3>1. [Top EXCEPT !.at = place].at = place /\ place \notin FromMemory
      BY <2>1 DEF FrameFields, FromMemory, Hand
    <3> QED
      BY <1>3, <2>1, <2>3, <3>1 DEF Goto
  <2>4. CASE LoadFile
    <3> DEFINE next == [Top EXCEPT !.i = @ + 1, !.count = @ + 1]
               skip == [Top EXCEPT !.i = @ + 1]
    <3>1. next.at = Top.at /\ skip.at = Top.at
      BY <2>1 DEF FrameFields
    <3>2. Top.at = "files" /\ (Go(skip) \/ Go(next))
      BY <2>4 DEF LoadFile, At
    <3> HIDE DEF next, skip
    <3> QED
      BY <1>3, <2>1, <3>1, <3>2 DEF FromMemory, Hand
  <2> QED
    BY <1>7, <2>2, <2>3, <2>4 DEF Files, Begin, EndFiles, Return
<1>8. CASE Fixup
  <2>1. loaded' # "not"
    BY <1>8, FixupFrames
  <2> QED
    BY <1>2, <2>1
<1>9. CASE Firmware
  <2>1. frames # <<>> /\ Len(frames) \in Nat
    BY <1>9, FirmwareFrames, TopFrame
  <2>2. CASE ReadFreed
    BY <1>1, <2>2 DEF ReadFreed, Crash, cacheVars
  <2>3. CASE frames' = Front(frames) /\ loaded' \in {"ok", "failed"}
    BY <1>2, <2>3
  <2>4. CASE frames' = Append(frames, Frame("begin"))
    BY <1>4, <2>4
  <2>5. ASSUME loaded' = loaded, NEW f, Go(f), ~(Len(frames) = 1 /\ loaded = "not")
        PROVE  Followed' /\ Complete'
    BY <1>0, <2>1, <2>5, FollowedGo
  <2>6. ASSUME loaded' = loaded, NEW f, Go(f), Len(frames) = 1, loaded = "not", ~ReadFreed
        PROVE  Followed' /\ Complete'
    <3>1. ASSUME \E g : Go(g) /\ Follows(g)
          PROVE  Followed' /\ Complete'
      BY <1>0, <2>1, <3>1, FollowedGo
    <3>2. frames' # <<>> /\ Len(frames') = Len(frames)
      BY <2>1, <2>6, GoLone
    <3>3. frames' # Front(frames)
      BY <2>1, <3>2, PopLone
    <3>4. frames' # Append(frames, Frame("begin"))
      BY <2>1, <3>2, PushLone
    <3>5. CASE GetRsdp
      BY <1>0, <2>6, <3>1, <3>5, RsdpFollows
    <3>6. CASE GetDirectory
      BY <1>0, <2>6, <3>1, <3>6, DirectoryFollows
    <3>7. CASE NoDirectory \/ EndDirectory
      BY <1>0, <2>6, <3>1, <3>7, NextDirectoryFollows
    <3>8. CASE NoEntry
      BY <1>0, <2>6, <3>1, <3>8, NoEntryFollows
    <3>9. CASE GetEntry
      BY <1>0, <2>6, <3>1, <3>9, HoldFollows, TakeFollows
    <3>10. CASE GetFacs
      BY <1>0, <2>6, <3>1, <3>10, FacsFollows
    <3>11. CASE NoFacs
      BY <1>0, <2>6, <3>1, <3>11, NoFacsFollows
    <3>12. CASE GetDsdt
      BY <1>0, <2>6, <3>1, <3>12, DsdtFollows
    <3>13. ~(NoRsdp \/ FadtFails \/ AnswerNotReduced)
      BY <3>3 DEF NoRsdp, FadtFails, AnswerNotReduced, Fail, Return
    <3>14. ~AskReduced
      BY <3>4 DEF AskReduced
    <3>15. ~AnswerReduced
      BY <2>6 DEF AnswerReduced
    <3> QED
      BY <1>9, <2>6, <3>5, <3>6, <3>7, <3>8, <3>9, <3>10, <3>11, <3>12, <3>13, <3>14, <3>15 DEF Firmware
  <2> QED
    BY <1>9, <2>2, <2>3, <2>4, <2>5, <2>6, FirmwareFrames
<1>10. CASE Terminating \/ UNCHANGED vars
  BY <1>1, <1>10 DEF Terminating, vars, cacheVars
<1> QED
  BY <1>5, <1>6, <1>7, <1>8, <1>9, <1>10 DEF Next

LEMMA AnsweredHolds ==
  ASSUME Answered, [Next]_vars
  PROVE  Answered'
<1> USE DEF Answered, cacheVars
<1>1. CASE Ask \/ Exit \/ Begin
  BY <1>1 DEF Ask, Exit, Begin, Return
<1>2. CASE Files
  BY <1>2 DEF Files, LoadFile, EndFiles, Return
<1>3. CASE Fixup
  BY <1>3 DEF Fixup, FixFacs, FixAddrs, FixRsdt, FixXsdt, FixDirectory, FixRsdp
<1>4. CASE Firmware
  BY <1>4 DEF Firmware, GetRsdp, NoRsdp, GetDirectory, NoDirectory, EndDirectory, ReadFreed, Crash,
              GetEntry, NoEntry, GetFacs, NoFacs, GetDsdt, FadtFails, Fail, AskReduced,
              AnswerReduced, AnswerNotReduced, Return, NextDirectory
<1>5. CASE Terminating \/ UNCHANGED vars
  BY <1>5 DEF Terminating, vars
<1> QED
  BY <1>1, <1>2, <1>3, <1>4, <1>5 DEF Next

LEMMA CrashHolds ==
  ASSUME IInv, Stack, Answered, Early, Followed, CrashInv, [Next]_vars
  PROVE  CrashInv'
<1>1. CASE UNCHANGED vars \/ Terminating
  <2>1. UNCHANGED <<frames, loaded, machine, ended>>
    BY <1>1 DEF Terminating, vars, cacheVars
  <2> QED
    BY <2>1 DEF CrashInv
<1>2. CASE ReadFreed
  <2>1. /\ frames # <<>> /\ UNCHANGED <<frames, loaded, machine>>
        /\ \/ Top.at = "root" /\ ~heap[Top.rsdp].live
           \/ Top.at = "entries" /\ ~heap[Top.list].live
    BY <1>2 DEF ReadFreed, Crash, At, cacheVars, Live
  <2>2. /\ FrameOK(Top, machine, loaded, starved) /\ Top = frames[Len(frames)] /\ Len(frames) \in Nat \ {0}
    BY <2>1, TopFrame
  <2>3. Top.at \in FromMemory /\ loaded # "failed"
    BY <2>1, <2>2 DEF FromMemory, FrameOK
  <2>4. ASSUME Len(frames) = 1, loaded # "ok" PROVE Muddled(machine)
    <3>1. Alone
      BY <2>2, <2>3, <2>4 DEF Alone, Answered
    <3>2. HandsTrue(Top, machine, heap)
      BY <2>2, <2>4, <3>1 DEF Followed
    <3> QED
      BY <2>1, <3>2 DEF HandsTrue
  <2>5. CASE Len(frames) = 1
    BY <2>1, <2>2, <2>3, <2>4, <2>5 DEF CrashInv
  <2>6. CASE Len(frames) # 1
    <3>1. Len(frames) > 1
      BY <2>2, <2>6
    <3>2. Len(frames') > 1
      BY <2>1, <3>1
    <3> QED
      BY <3>2 DEF CrashInv
  <2> QED
    BY <2>5, <2>6
<1>3. CASE ended' # "crash"
  BY <1>3 DEF CrashInv
<1>4. CASE Ask \/ Exit \/ Begin \/ Files
  BY <1>3, <1>4 DEF Ask, Exit, Begin, Files, LoadFile, EndFiles, At, Step
<1>5. CASE Fixup
  BY <1>3, <1>5, FixupFrames
<1>6. CASE Firmware
  BY <1>2, <1>3, <1>6, FirmwareFrames
<1> QED
  BY <1>1, <1>2, <1>4, <1>5, <1>6 DEF Next

\* Once the RSDP is cached it stays so while the load from memory goes on.
LEMMA NestedHolds ==
  ASSUME IInv, Stack, Answered, Early, Followed, Followed', Nested, [Next]_vars
  PROVE  Nested'
<1>0. Onward
  BY AlwaysOnward
<1> DEFINE Goal == NestedOK(machine, loaded', frames', tables', heap')
<1> SUFFICES ASSUME machine.files = <<>>, frames' # <<>>, frames'[1].at \in FromMemory
             PROVE  Goal
  BY <1>0 DEF NestedOK, Nested, Onward
<1>1. ASSUME frames # <<>>, frames[1].at \in FromMemory
      PROVE  /\ loaded # "ok" /\ Len(frames) <= 2
             /\ loaded = "not" => machine.rsdp \in Addrs(tables)
             /\ Len(frames) = 2 =>
                  /\ loaded = "not"
                  /\ frames[2].at \in {"begin", "files", "rsdp", "root"}
                  /\ frames[2].at = "root" => frames[2].rsdp \in DOMAIN heap /\ heap[frames[2].rsdp].live = FALSE
  BY <1>1 DEF Nested, NestedOK
<1>1a. ASSUME frames # <<>>, frames[1].at \in FromMemory
       PROVE  /\ Len(frames) \in {1, 2} /\ frames[1].at # "rsdp" /\ machine.source = "root"
              /\ Len(frames) # 1 =>
                   /\ Len(frames) = 2 /\ loaded = "not" /\ machine.rsdp \in Addrs(tables)
                   /\ frames[2].at \in {"begin", "files", "rsdp", "root"}
                   /\ frames[2].at = "root" => frames[2].rsdp \in DOMAIN heap /\ heap[frames[2].rsdp].live = FALSE
  <2>1. Len(frames) \in Nat \ {0} /\ DOMAIN frames = 1 .. Len(frames)
    BY <1>1a, TopFrame
  <2>2. FrameOK(frames[1], machine, loaded, starved)
    BY <2>1 DEF Stack
  <2>3. Len(frames) <= 2
    BY <1>1, <1>1a
  <2>4. Len(frames) \in {1, 2}
    BY <2>1, <2>3
  <2>5. frames[1].at # "rsdp" /\ machine.source = "root"
    BY <1>1a, <2>2, Places DEF FrameOK
  <2> QED
    BY <1>1, <1>1a, <2>4, <2>5
\* The load from memory itself goes on.
<1>2. ASSUME frames # <<>>, NEW g, Go(g), Len(frames) = 1, loaded' = loaded, loaded # "ok"
      PROVE  Goal
  <2>1. Len(frames') = 1 /\ frames'[1] = g
    BY <1>2, GoLone
  <2>2. loaded' = "not" => machine.rsdp \in Addrs(tables')
    BY <1>0, <2>1 DEF Followed, Alone, Visited, Onward
  <2> QED
    BY <1>2, <2>1, <2>2 DEF NestedOK
<1>3. CASE UNCHANGED <<frames, tables, heap, loaded>>
  BY <1>3 DEF Nested
<1>4. CASE Ask
  <2>1. frames = <<>> /\ (frames' = <<>> \/ frames' = Append(frames, Frame("begin")))
    BY <1>4 DEF Ask
  <2>2. frames' = Append(frames, Frame("begin")) => Len(frames') = 1 /\ frames'[1].at = "begin"
    BY <2>1, PushLone
  <2> QED
    BY <2>1, <2>2, Places
<1>5. CASE Exit
  BY <1>5 DEF Exit
\* A load ends, and with it the one that waits for it goes on.
<1>6. ASSUME frames # <<>>, frames' = Front(frames), loaded' = "failed"
      PROVE  Goal
  <2>1. frames[1].at \in FromMemory /\ Len(frames') = Len(frames) - 1
    BY <1>6, PopLone
  <2>2. Len(frames) \in {1, 2}
    BY <1>1a, <1>6, <2>1
  <2>3. Len(frames') <= 2 /\ Len(frames') # 2
    BY <2>1, <2>2
  <2> QED
    BY <1>6, <2>3 DEF NestedOK
<1>7. CASE Begin \/ Files
  <2>1. frames # <<>> /\ Top.at \in {"begin", "files"} /\ DOMAIN Top = FrameFields
        /\ FrameOK(Top, machine, loaded, starved) /\ machine \in Machines
        /\ Len(frames) \in Nat \ {0} /\ DOMAIN frames = 1 .. Len(frames) /\ Top = frames[Len(frames)]
    BY <1>7, TopFrame DEF Begin, Files, LoadFile, EndFiles, At
  <2>2. machine.files = <<>> /\ Len(machine.files) = 0 /\ Top.count = 0 /\ Top.i \in Nat \ {0}
    BY <2>1 DEF FrameOK
  <2>3. ~LoadFile
    BY <2>2 DEF LoadFile
  <2>4. tables' = tables /\ heap' = heap
    BY <1>7, <2>3 DEF Begin, Files, EndFiles
  <2>5. CASE frames' = Front(frames)
    <3>1. frames[1].at \in FromMemory /\ Len(frames) > 1
      BY <2>1, <2>5, PopLone
    <3>2. machine.source = "root"
      BY <1>1a, <2>1, <3>1
    <3>3. ASSUME NEW g, Go(g) PROVE FALSE
      BY <2>1, <2>5, <3>3, GoLone, PopLone
    <3>4. ~(Begin \/ EndFiles)
      BY <2>2, <3>2, <3>3 DEF Begin, EndFiles, Goto
    <3> QED
      BY <1>7, <2>3, <3>4 DEF Files
  <2>6. ASSUME NEW g, Go(g), g.at \in {"files", "rsdp", "fixFacs"}, g.at # "fixFacs" => loaded' = loaded,
               g.at = "fixFacs" => machine.source = "dump"
        PROVE  Goal
    <3>1. /\ Len(frames') = Len(frames) /\ frames'[Len(frames)] = g
          /\ Len(frames) # 1 => frames'[1] = frames[1]
      BY <2>1, <2>6, GoLone
    <3>2. Len(frames) # 1
      BY <2>6, <3>1, Places DEF FromFiles
    <3>3. frames[1].at \in FromMemory
      BY <3>1, <3>2
    <3>4. /\ Len(frames) = 2 /\ loaded = "not" /\ machine.rsdp \in Addrs(tables)
          /\ machine.source = "root"
      BY <1>1a, <2>1, <3>2, <3>3
    <3>5. Len(frames') = 2 /\ frames'[2] = g /\ loaded' = "not" /\ g.at \in {"files", "rsdp"}
      BY <2>6, <3>1, <3>4
    <3> QED
      BY <2>4, <3>4, <3>5 DEF NestedOK
  <2>7. ASSUME NEW place \in {"files", "rsdp", "fixFacs"}
        PROVE  [Top EXCEPT !.at = place].at = place
    BY <2>1 DEF FrameFields
  <2>8. \/ frames' = Front(frames)
        \/ Goto("files") /\ loaded' = loaded
        \/ Goto("rsdp") /\ loaded' = loaded
        \/ Goto("fixFacs") /\ machine.source = "dump"
    BY <1>7, <2>2, <2>3 DEF Begin, Files, EndFiles, Return
  <2> QED
    BY <2>5, <2>6, <2>7, <2>8 DEF Goto, NestedOK, Addrs
<1>8. CASE Fixup
  <2>1. /\ frames # <<>> /\ Top.at \in FromFiles /\ loaded = "ok"
        /\ frames' = Front(frames) \/ \E f : Go(f) /\ f.at \in FromFiles
    BY <1>8, FixupFrames
  <2>2. frames[1].at \notin FromMemory
    BY <1>1, <2>1
  <2>3. frames' # Front(frames)
    BY <2>1, <2>2, PopLone
  <2>4. PICK f : Go(f) /\ f.at \in FromFiles
    BY <2>1, <2>3
  <2>5. Len(frames) # 1 /\ frames'[1] = frames[1]
    BY <2>1, <2>4, GoLone, Places
  <2> QED
    BY <2>2, <2>5
<1>9. CASE Firmware
  <2>1. /\ frames # <<>> /\ Top.at \in FromMemory \union {"rsdp"}
        /\ Top = frames[Len(frames)] /\ Len(frames) \in Nat \ {0} /\ FrameOK(Top, machine, loaded, starved)
        /\ machine \in Machines
    BY <1>9, FirmwareFrames, TopFrame
  <2>2. CASE ReadFreed /\ UNCHANGED <<frames, cacheVars>>
    BY <1>3, <2>2 DEF cacheVars
  <2>3. CASE frames' = Front(frames) /\ loaded' \in {"ok", "failed"}
    <3>1. frames[1].at \in FromMemory /\ Len(frames) > 1
      BY <2>1, <2>3, PopLone
    <3>2. /\ Len(frames) = 2 /\ loaded = "not" /\ Top.at \in {"rsdp", "root"}
          /\ Top.at = "root" => heap[Top.rsdp].live = FALSE
      <4>0. Len(frames) # 1
        <5>1. Len(frames) > 1
          BY <3>1
        <5> QED
          BY <2>1, <5>1
      <4>1. /\ Len(frames) = 2 /\ loaded = "not" /\ frames[2].at \in {"begin", "files", "rsdp", "root"}
            /\ frames[2].at = "root" => heap[frames[2].rsdp].live = FALSE
        BY <1>1a, <2>1, <3>1, <4>0
      <4>2. Top = frames[2]
        BY <2>1, <4>1
      <4> QED
        BY <2>1, <4>1, <4>2, Places
    <3>3. ~(NoDirectory \/ EndDirectory)
      BY <3>2 DEF NoDirectory, EndDirectory, At, Live
    <3>4. ASSUME NEW g, Go(g) PROVE FALSE
      BY <2>1, <2>3, <3>4, GoLone, PopLone
    <3>5. loaded' = "failed"
      <4>1. ~(GetRsdp \/ GetDirectory \/ GetEntry \/ NoEntry \/ GetFacs \/ NoFacs \/ GetDsdt \/ AnswerReduced)
        BY <3>4 DEF GetRsdp, GetDirectory, GetEntry, NoEntry, GetFacs, NoFacs, GetDsdt, AfterFadt,
                    AnswerReduced, Goto
      <4>2. ~(ReadFreed \/ AskReduced)
        BY <2>3, <3>2 DEF ReadFreed, Crash, AskReduced, cacheVars
      <4> QED
        BY <1>9, <3>3, <4>1, <4>2 DEF Firmware, NoRsdp, FadtFails, AnswerNotReduced, Fail, Return
    <3> QED
      BY <1>6, <2>1, <2>3, <3>5 DEF NestedOK
  <2>4. CASE frames' = Append(frames, Frame("begin")) /\ Top.at = "reduced" /\ UNCHANGED cacheVars /\ loaded = "not"
    <3>1. /\ Len(frames') = Len(frames) + 1 /\ frames'[1] = frames[1] /\ frames'[Len(frames')].at = "begin"
      BY <2>1, <2>4, PushLone
    <3>2. Len(frames) = 1 /\ loaded = "not" /\ machine.rsdp \in Addrs(tables)
      <4>1. frames[1].at \in FromMemory
        BY <3>1
      <4> QED
        BY <1>1, <1>1a, <2>1, <2>4, <4>1
    <3>3. Len(frames') = 2 /\ frames'[2].at = "begin"
      BY <3>1, <3>2
    <3> QED
      BY <2>4, <3>2, <3>3 DEF cacheVars, NestedOK
  <2>5. ASSUME loaded' = loaded, NEW g, Go(g), g.at \in FromMemory, ~ReadFreed
        PROVE  Goal
    <3>1. CASE Len(frames) = 1
      <4>1. loaded # "ok"
        <5>1. CASE Top.at = "rsdp"
          BY <2>1, <3>1, <5>1 DEF Early
        <5>2. CASE Top.at # "rsdp"
          BY <1>1, <2>1, <3>1, <5>2
        <5> QED
          BY <5>1, <5>2
      <4> QED
        BY <1>2, <2>1, <2>5, <3>1, <4>1
    <3>2. CASE Len(frames) # 1
      <4>1. /\ Len(frames') = Len(frames) /\ frames'[Len(frames)] = g /\ frames'[1] = frames[1]
        BY <2>1, <2>5, <3>2, GoLone
      <4>2. /\ Len(frames) = 2 /\ loaded = "not" /\ Top.at \in {"rsdp", "root"}
            /\ Top.at = "root" => heap[Top.rsdp].live = FALSE
            /\ machine.rsdp \in Addrs(tables)
        <5>1. /\ Len(frames) = 2 /\ loaded = "not" /\ frames[2].at \in {"begin", "files", "rsdp", "root"}
              /\ frames[2].at = "root" => heap[frames[2].rsdp].live = FALSE
              /\ machine.rsdp \in Addrs(tables)
          BY <1>1a, <2>1, <3>2, <4>1
        <5>2. Top = frames[2]
          BY <2>1, <5>1
        <5> QED
          BY <2>1, <5>1, <5>2, Places
      <4>3. frames' # Front(frames) /\ frames' # Append(frames, Frame("begin"))
        BY <2>1, <4>1, PopLone, PushLone
      <4>4. GetRsdp
        <5>1. ~(NoDirectory \/ EndDirectory \/ GetDirectory)
          BY <4>2 DEF NoDirectory, EndDirectory, GetDirectory, At, Live
        <5>2. ~(GetEntry \/ NoEntry \/ GetFacs \/ NoFacs \/ GetDsdt \/ AnswerReduced)
          BY <4>2 DEF GetEntry, NoEntry, GetFacs, NoFacs, GetDsdt, AnswerReduced, At
        <5>3. ~(NoRsdp \/ FadtFails \/ AnswerNotReduced \/ AskReduced)
          BY <4>3 DEF NoRsdp, FadtFails, AnswerNotReduced, AskReduced, Fail, Return
        <5>4. ~NoFacs
          BY <4>2 DEF NoFacs, At
        <5> QED
          BY <1>9, <2>5, <5>1, <5>2, <5>3, <5>4 DEF Firmware
      <4> DEFINE c == Len(heap) + 1
                 h == [Top EXCEPT !.at = "root", !.rsdp = c]
                 name == machine.memory[machine.rsdp].sig
                 table == machine.memory[machine.rsdp]
      <4>5. AddAs(name, table, machine.rsdp, "firmware") /\ Go(h) /\ machine.rsdp # 0
        BY <4>4 DEF GetRsdp, Add
      <4>6. h.at = "root" /\ h.rsdp = c
        BY <2>1, TopFrame DEF FrameFields
      <4>7. frames'[2] = h
        BY <2>1, <4>2, <4>5, GoLone
      <4> HIDE DEF h, name, table
      <4>8. /\ tables' = AddTable(tables, name, c, machine.rsdp, "firmware")
            /\ c \in DOMAIN heap' /\ heap'[c].live = (machine.rsdp \notin Addrs(tables))
        BY <4>5, AddAsFacts DEF IInv
      <4>9. tables' = tables
        <5>1. Duplicate(tables, machine.rsdp)
          BY <4>2, <4>5 DEF Duplicate, Addrs
        <5> QED
          BY <4>8, <5>1 DEF AddTable
      <4>10. Len(frames') = 2 /\ frames'[2] = g /\ loaded' = "not"
        BY <2>5, <4>1, <4>2
      <4>11. g.at = "root" /\ g.rsdp \in DOMAIN heap' /\ heap'[g.rsdp].live = FALSE
        BY <4>2, <4>6, <4>7, <4>8, <4>10
      <4> QED
        BY <4>2, <4>9, <4>10, <4>11 DEF NestedOK
    <3> QED
      BY <3>1, <3>2
  <2>6. ReadFreed => UNCHANGED <<frames, cacheVars>>
    BY DEF ReadFreed, Crash
  <2> QED
    BY <1>0, <1>9, <2>2, <2>3, <2>4, <2>5, <2>6, FirmwareFrames DEF NestedOK
<1>10. CASE Terminating \/ UNCHANGED vars
  BY <1>3, <1>10 DEF Terminating, vars, cacheVars
<1> QED
  BY <1>4, <1>5, <1>7, <1>8, <1>9, <1>10 DEF Next

-----------------------------------------------------------------------------
(* Where tables come from, and a load from memory that is over. *)

LEMMA AddedFrom ==
  ASSUME NEW ts, Sequence(ts), NEW name, NEW c, NEW addr, NEW from,
         NEW new, new = AddTable(ts, name, c, addr, from)
  PROVE  \A i \in DOMAIN new : (i \in DOMAIN ts /\ new[i] = ts[i]) \/ new[i].from = from
<1> DEFINE e == [name |-> name, data |-> c, addr |-> addr, from |-> from,
                 which |-> Cardinality(Named(ts, name))]
<1>1. new = ts \/ new = Append(ts, e)
  BY DEF AddTable
<1>2. e.from = from
  OBVIOUS
<1> HIDE DEF e
<1>3. CASE new = Append(ts, e)
  <2>1. /\ DOMAIN ts = 1 .. Len(ts) /\ DOMAIN new = 1 .. Len(ts) + 1 /\ Len(ts) \in Nat
        /\ \A i \in DOMAIN ts : new[i] = ts[i]
        /\ new[Len(ts) + 1] = e
    BY <1>3, AppendFacts
  <2>2. \A i \in DOMAIN new : i \in DOMAIN ts \/ i = Len(ts) + 1
    BY <2>1
  <2> QED
    BY <1>2, <2>1, <2>2
<1> QED
  BY <1>1, <1>3

LEMMA MovedFrom ==
  ASSUME NEW ts, NEW hp, Shape(ts, hp), NEW name, NEW addr32, NEW addr64,
         NEW new, new = Moved(ts, name, addr32, addr64)
  PROVE  /\ DOMAIN new = DOMAIN ts
         /\ \A i \in DOMAIN ts : new[i].from = ts[i].from
<1> DEFINE k == Find(name)
           addr == IF addr64 # 0 THEN addr64 ELSE addr32
<1> HIDE DEF k, addr
<1>1. new \in {ts, [ts EXCEPT ![k].addr = addr]}
  BY DEF Moved, k, addr
<1>2. \A i \in DOMAIN ts : "from" \in DOMAIN ts[i]
  BY DEF Shape, Fields
<1> QED
  BY <1>1, <1>2

LEMMA FixupFrom ==
  ASSUME IInv, Fixup
  PROVE  \A i \in DOMAIN tables' :
           (i \in DOMAIN tables /\ tables'[i].from = tables[i].from) \/ tables'[i].from = "fixup"
<1>1. Sequence(tables) /\ Shape(tables, heap)
  BY DEF IInv, Shape
<1>2. CASE tables' = tables
  BY <1>2
<1>3. ASSUME NEW name, NEW c, NEW addr, tables' = AddTable(tables, name, c, addr, "fixup")
      PROVE  \A i \in DOMAIN tables' : (i \in DOMAIN tables /\ tables'[i] = tables[i]) \/ tables'[i].from = "fixup"
  BY <1>1, <1>3, AddedFrom
<1>4. CASE FixFacs
  BY <1>2, <1>3, <1>4 DEF FixFacs, GiveUpFixup, MadeUp, Add, AddAs
<1>5. CASE FixAddrs
  <2> DEFINE fadt == Table("FACP")
             ts   == Moved(tables, "FACS", fadt.facs32, fadt.facs64)
  <2>1. tables' = Moved(ts, "DSDT", fadt.dsdt32, fadt.dsdt64)
    BY <1>5 DEF FixAddrs
  <2> HIDE DEF fadt
  <2>2. Shape(ts, heap) /\ DOMAIN ts = DOMAIN tables /\ \A i \in DOMAIN tables : ts[i].from = tables[i].from
    BY <1>1, MovedShape, MovedFrom
  <2> HIDE DEF ts
  <2>3. DOMAIN tables' = DOMAIN ts /\ \A i \in DOMAIN ts : tables'[i].from = ts[i].from
    BY <2>1, <2>2, MovedFrom
  <2> QED
    BY <2>2, <2>3
<1>6. CASE FixRsdt \/ FixXsdt
  BY <1>2, <1>3, <1>6 DEF FixRsdt, FixXsdt, FixDirectory, GiveUpFixup, MadeUp, Add, AddAs
<1>7. CASE FixRsdp
  BY <1>2, <1>3, <1>7 DEF FixRsdp, MadeUp, Add, AddAs
<1> QED
  BY <1>4, <1>5, <1>6, <1>7 DEF Fixup

LEMMA NoneHolds ==
  ASSUME IInv, Stack, Early, NoneFromFirmware, [Next]_vars
  PROVE  NoneFromFirmware'
<1> DEFINE places == {"begin", "files", "rsdp"} \union FromFiles
<1>0. Onward
  BY AlwaysOnward
<1>1. CASE UNCHANGED <<frames, tables>>
  BY <1>0, <1>1 DEF NoneFromFirmware, Onward
<1>2. CASE frames # <<>> /\ frames' = Front(frames)
  <2>1. frames' # <<>> => frames'[1].at = "reduced"
    BY <1>2, PopLone
  <2>2. Len(frames') = 1 => frames' # <<>>
    OBVIOUS
  <2> QED
    BY <2>1, <2>2, Places DEF NoneFromFirmware
<1>3. ASSUME frames # <<>>, NEW g, Go(g), Top.at \in places,
             starved' = FALSE /\ ~FromFirmware(tables) => ~FromFirmware(tables')
      PROVE  NoneFromFirmware'
  <2>1. Len(frames') = Len(frames) /\ (Len(frames) = 1 => Top = frames[1])
    BY <1>3, GoLone
  <2> QED
    BY <1>0, <1>3, <2>1 DEF NoneFromFirmware, Onward
<1>4. CASE Ask
  <2>1. frames = <<>> /\ UNCHANGED cacheVars
    BY <1>4 DEF Ask
  <2>2. CASE frames' = <<>>
    BY <2>1, <2>2, <1>1 DEF cacheVars
  <2>3. CASE frames' # <<>>
    BY <1>4, <2>1, <2>3 DEF Ask, Early, NoneFromFirmware, FromFirmware, cacheVars
  <2> QED
    BY <2>2, <2>3
<1>5. CASE Exit
  BY <1>5 DEF Exit, NoneFromFirmware
<1>6. CASE Begin \/ Files
  <2>1. frames # <<>> /\ Top.at \in places
    BY <1>6 DEF Begin, Files, LoadFile, EndFiles, At
  <2>2. ~FromFirmware(tables) => ~FromFirmware(tables')
    <3>1. tables' = tables \/ \E name, c, addr : tables' = AddTable(tables, name, c, addr, "file")
      BY <1>6 DEF Begin, Files, LoadFile, EndFiles, Add, AddAs
    <3>2. ASSUME NEW name, NEW c, NEW addr, tables' = AddTable(tables, name, c, addr, "file")
          PROVE  \A i \in DOMAIN tables' : (i \in DOMAIN tables /\ tables'[i] = tables[i]) \/ tables'[i].from = "file"
      BY <3>2, AddedFrom DEF IInv, Shape
    <3> QED
      BY <3>1, <3>2 DEF FromFirmware
  <2>3. frames' = Front(frames) \/ \E g : Go(g)
    BY <1>6 DEF Begin, Files, LoadFile, EndFiles, Goto, Return
  <2> QED
    BY <1>2, <1>3, <2>1, <2>2, <2>3
<1>7. CASE Fixup
  <2>1. /\ frames # <<>> /\ Top.at \in FromFiles
        /\ frames' = Front(frames) \/ \E g : Go(g)
    BY <1>7, FixupFrames
  <2>2. ~FromFirmware(tables) => ~FromFirmware(tables')
    BY <1>7, FixupFrom DEF FromFirmware
  <2> QED
    BY <1>2, <1>3, <2>1, <2>2
<1>8. CASE Firmware
  <2>1. frames # <<>>
    BY <1>8, FirmwareFrames
  <2>2. CASE ReadFreed
    BY <1>1, <2>2 DEF ReadFreed, Crash, cacheVars
  <2>3. CASE frames' = Append(frames, Frame("begin"))
    <3>1. Len(frames) \in Nat \ {0} /\ Len(frames') = Len(frames) + 1
      BY <2>1, <2>3, PushLone
    <3>2. Len(frames') # 1
      BY <3>1
    <3> QED
      BY <3>2 DEF NoneFromFirmware
  <2>4. ASSUME NEW g, Go(g), g.at \in FromMemory
        PROVE  NoneFromFirmware'
    <3>1. Len(frames') = 1 => frames'[1] = g
      BY <2>1, <2>4, GoLone
    <3> QED
      BY <2>4, <3>1, Places DEF NoneFromFirmware
  <2> QED
    BY <1>2, <1>8, <2>1, <2>2, <2>3, <2>4, FirmwareFrames
<1>9. CASE Terminating \/ UNCHANGED vars
  BY <1>1, <1>9 DEF Terminating, vars, cacheVars
<1> QED
  BY <1>4, <1>5, <1>6, <1>7, <1>8, <1>9 DEF Next

LEMMA MemoryDoneHolds ==
  ASSUME IInv, Stack, Answered, Early, Followed, Complete, Nested, NoneFromFirmware, MemoryDone, [Next]_vars
  PROVE  MemoryDone'
<1>0. Onward
  BY AlwaysOnward
<1>1. CASE UNCHANGED <<frames, tables, loaded, ended>>
  BY <1>0, <1>1 DEF MemoryDone, Onward
<1>2. ASSUME frames # <<>>, NEW g, Go(g) PROVE MemoryDone'
  BY <1>2, GoLone DEF MemoryDone
<1>3. CASE loaded' # "ok" \/ ended' # "no"
  BY <1>3 DEF MemoryDone
<1>4. CASE Ask
  <2>1. frames = <<>> /\ UNCHANGED <<cacheVars, ended>>
    BY <1>4 DEF Ask
  <2>2. CASE frames' = <<>>
    BY <1>1, <2>1, <2>2 DEF cacheVars
  <2>3. CASE frames' # <<>>
    BY <2>3 DEF MemoryDone
  <2> QED
    BY <2>2, <2>3
<1>5. CASE Exit
  BY <1>3, <1>5 DEF Exit
<1>6. CASE Begin \/ Files
  <2>1. frames # <<>>
    BY <1>6 DEF Begin, Files, LoadFile, EndFiles, At
  <2>2. loaded' = "failed" \/ \E g : Go(g)
    BY <1>6 DEF Begin, Files, LoadFile, EndFiles, Goto, Return
  <2> QED
    BY <1>2, <1>3, <2>1, <2>2
<1>7. CASE Fixup
  <2>1. /\ frames # <<>> /\ Top.at \in FromFiles
        /\ frames' = Front(frames) \/ \E g : Go(g)
    BY <1>7, FixupFrames
  <2>2. ASSUME frames' = Front(frames), frames' = <<>>, starved' = FALSE
        PROVE  ~FromFirmware(tables')
    <3>1. Len(frames) \in Nat /\ Len(frames') = Len(frames) - 1 /\ Len(frames') = 0 /\ Top = frames[Len(frames)]
      BY <2>1, <2>2, PopLone
    <3>2. Len(frames) = 1
      BY <3>1
    <3>3. ~FromFirmware(tables)
      BY <1>0, <2>1, <2>2, <3>1, <3>2 DEF NoneFromFirmware, Onward
    <3> QED
      BY <1>7, <3>3, FixupFrom DEF FromFirmware
  <2> QED
    BY <1>2, <2>1, <2>2 DEF MemoryDone
<1>8. CASE Firmware
  <2>1. frames # <<>> /\ Top.at \in FromMemory \union {"rsdp"} /\ machine \in Machines
        /\ FrameOK(Top, machine, loaded, starved)
    BY <1>8, FirmwareFrames, TopFrame
  <2>2. CASE ReadFreed
    BY <1>1, <1>3, <2>2 DEF ReadFreed, Crash
  <2>3. CASE frames' = Append(frames, Frame("begin"))
    BY <2>3, PushLone DEF MemoryDone
  <2>4. CASE NoRsdp \/ FadtFails \/ AnswerNotReduced
    BY <1>3, <2>4 DEF NoRsdp, FadtFails, AnswerNotReduced, Fail, Return
  <2>5. CASE GetRsdp \/ GetDirectory \/ GetEntry \/ NoEntry \/ GetFacs \/ NoFacs \/ GetDsdt \/ AnswerReduced
    BY <1>2, <2>1, <2>5 DEF GetRsdp, GetDirectory, GetEntry, NoEntry, GetFacs, NoFacs, GetDsdt, AfterFadt,
                    AnswerReduced, Goto
  <2>6. CASE NoDirectory \/ EndDirectory
    <3> SUFFICES ASSUME frames' = <<>>, loaded' = "ok", starved' = FALSE, Len(tables') < MaxTables
                 PROVE  Addrs(tables') = Reachable(machine) /\ WellNamed(machine, tables')
      BY <1>0 DEF MemoryDone, Onward
    <3> DEFINE m == machine
               root == m.memory[m.rsdp]
               r == RootOf(m, Top)
    <3>1. frames' = Front(frames) /\ Top.dir # "XSDT" /\ Top.at \in {"root", "entries"}
      BY <1>2, <2>1, <2>6, GoLone DEF NoDirectory, EndDirectory, NextDirectory, Return, At
    <3>2. Len(frames) \in Nat /\ Len(frames') = Len(frames) - 1 /\ Len(frames') = 0 /\ Top = frames[Len(frames)]
      BY <2>1, <3>1, PopLone
    <3>3. Len(frames) = 1 /\ Top = frames[1]
      BY <3>2
    <3>4. Top.at \in FromMemory /\ starved = FALSE /\ m.files = <<>> /\ m.rsdp \in DOMAIN m.memory
      BY <1>0, <2>1, <3>1 DEF FromMemory, FrameOK, Onward
    <3>5. loaded = "not"
      BY <2>1, <3>1, <3>3, <3>4 DEF Nested, NestedOK, FrameOK, Answered
    <3>6. /\ UNCHANGED <<tables, heap, facsLast>>
          /\ Len(tables) < MaxTables =>
                  /\ Seen(m, Top) = Before(m, Top) \union DirCover(m, r)
                  /\ r \in DOMAIN m.memory => IsDir(m, r)
      BY <1>0, <2>6, <3>3, <3>5, EndReached
    <3>7. /\ HandsTrue(Top, m, heap) /\ Visited(Top, m, tables) /\ SeenAll(Top, m, tables, facsLast)
      BY <2>1, <3>3, <3>4, <3>5, <3>6, TopFollows
    <3>8. Top.dir = "RSDT" /\ r = root.rsdt
      BY <3>1, <3>7 DEF HandsTrue, RootOf
    <3>9. Seen(m, Top) = {m.rsdp} \union DirCover(m, root.xsdt) \union DirCover(m, root.rsdt)
      BY <3>6, <3>8 DEF Before
    <3>10. root.xsdt \in DOMAIN m.memory => IsDir(m, root.xsdt)
      BY <3>7, <3>8 DEF SeenAll
    <3>11. root.rsdt \in DOMAIN m.memory => IsDir(m, root.rsdt)
      BY <3>6, <3>8
    <3>12. \A d : (d \in DOMAIN m.memory => IsDir(m, d)) =>
             DirCover(m, d) = ({d} \intersect DOMAIN m.memory) \union LedTo(m, d)
      BY <2>1, DirCoverFacts DEF IsDir
    <3>13. Seen(m, Top) = Reachable(m)
      BY <3>9, <3>10, <3>11, <3>12 DEF Reachable
    <3>14. Addrs(tables) = Seen(m, Top) /\ WellNamed(m, tables)
      BY <3>7 DEF Visited, SeenAll
    <3> QED
      BY <3>6, <3>13, <3>14
  <2>7. CASE AskReduced
    BY <2>3, <2>7 DEF AskReduced
  <2> QED
    BY <1>8, <2>2, <2>4, <2>5, <2>6, <2>7 DEF Firmware
<1>9. CASE Terminating \/ UNCHANGED vars
  BY <1>1, <1>9 DEF Terminating, vars, cacheVars
<1> QED
  BY <1>4, <1>5, <1>6, <1>7, <1>8, <1>9 DEF Next

LEMMA MemoryInvariantHolds == Spec => []MInv
<1>1. Init => MInv
  <2> SUFFICES ASSUME Init PROVE MInv
    OBVIOUS
  <2>1. IInv
    BY InitProof
  <2>2. frames = <<>> /\ Len(frames) = 0 /\ DOMAIN frames = {}
    BY DEF Init
  <2>3. Stack /\ Answered
    BY <2>2 DEF Init, Stack, Answered
  <2>4. Early /\ Followed /\ Complete /\ Nested /\ CrashInv /\ NoneFromFirmware /\ MemoryDone
    BY <2>2 DEF Init, Early, Followed, Complete, Alone, Nested, NestedOK, CrashInv, NoneFromFirmware, MemoryDone
  <2> QED
    BY <2>1, <2>3, <2>4 DEF MInv
<1>2. MInv /\ [Next]_vars => MInv'
  <2> SUFFICES ASSUME MInv, [Next]_vars PROVE MInv'
    OBVIOUS
  <2> USE DEF MInv
  <2>1. IInv' /\ Stack' /\ Answered' /\ Early'
    BY NextKeeps, StackHolds, AnsweredHolds, EarlyHolds
  <2>2. Followed' /\ Complete'
    BY FollowedHolds
  <2>3. Nested'
    BY <2>2, NestedHolds
  <2>4. CrashInv' /\ NoneFromFirmware' /\ MemoryDone'
    BY CrashHolds, NoneHolds, MemoryDoneHolds
  <2> QED
    BY <2>1, <2>2, <2>3, <2>4
<1> QED
  BY <1>1, <1>2, PTL DEF Spec

(* A load goes by copies that fwts_acpi_add_table() frees when their address *)
(* is cached already.  On any machine it reads one of these only where one   *)
(* load runs inside another, where the firmware has a root in two places, or *)
(* where low memory ran out for every file, so that the load went to the     *)
(* firmware, and was there again for a load inside it.                       *)
THEOREM FreedReadOnlyNestedOrMuddled ==
  Spec => [](ended = "crash" => \/ Len(frames) > 1 \/ Muddled(machine)
                                \/ loaded = "ok" /\ starved /\ machine.files # <<>>)
<1>1. MInv => (ended = "crash" => \/ Len(frames) > 1 \/ Muddled(machine)
                                  \/ loaded = "ok" /\ starved /\ machine.files # <<>>)
  <2> SUFFICES ASSUME MInv, ended = "crash", ~(Len(frames) > 1), ~Muddled(machine)
               PROVE  loaded = "ok" /\ starved /\ machine.files # <<>>
    OBVIOUS
  <2>1. Len(frames) = 1 /\ frames[1].at \in FromMemory /\ loaded = "ok"
    BY DEF MInv, CrashInv
  <2>2. frames # <<>>
    <3>1. Len(frames) = 1
      BY <2>1
    <3> QED
      BY <3>1
  <2>3. FrameOK(frames[1], machine, loaded, starved)
    BY <2>1, <2>2, TopFrame DEF MInv
  <2>4. starved = TRUE \/ machine.files = <<>>
    BY <2>1, <2>3 DEF FrameOK
  <2>5. machine.files # <<>>
    BY <2>1, <2>2 DEF MInv, Nested, NestedOK
  <2> QED
    BY <2>1, <2>4, <2>5
<1> QED
  BY <1>1, MemoryInvariantHolds, PTL

LEMMA StarvedHolds == Spec => [](starved => Starving)
<1>1. Init => (starved => Starving)
  BY DEF Init
<1>2. (starved => Starving) /\ [Next]_vars => (starved => Starving)'
  <2> SUFFICES ASSUME starved => Starving, [Next]_vars PROVE (starved => Starving)'
    OBVIOUS
  <2>1. CASE UNCHANGED vars
    BY <2>1 DEF vars
  <2>2. CASE Ask \/ Exit \/ Begin \/ Terminating
    BY <2>2 DEF Ask, Exit, Begin, Terminating, vars
  <2>3. CASE Files
    BY <2>3 DEF Files, LoadFile, EndFiles, Starves, Enough
  <2>4. CASE Fixup
    BY <2>4 DEF Fixup, FixFacs, FixAddrs, FixRsdt, FixXsdt, FixDirectory, FixRsdp, Starves, Enough
  <2>5. CASE GetRsdp \/ NoRsdp \/ GetDirectory \/ NoDirectory \/ EndDirectory \/ ReadFreed
    BY <2>5 DEF GetRsdp, NoRsdp, GetDirectory, NoDirectory, EndDirectory, ReadFreed, Crash, Starves, Enough
  <2>6. CASE GetEntry \/ NoEntry \/ GetFacs \/ NoFacs \/ GetDsdt
    BY <2>6 DEF GetEntry, NoEntry, GetFacs, NoFacs, GetDsdt, Starves, Enough
  <2>7. CASE FadtFails \/ AskReduced \/ AnswerReduced \/ AnswerNotReduced
    BY <2>7 DEF FadtFails, AskReduced, AnswerReduced, AnswerNotReduced, Starves, Enough
  <2> QED
    BY <2>1, <2>2, <2>3, <2>4, <2>5, <2>6, <2>7 DEF Next, Firmware
<1> QED
  BY <1>1, <1>2, PTL DEF Spec

(* ... so that FreedNeverRead holds where no machine has tables in files and *)
(* in memory too, and on any machine where low memory does not run out.      *)
THEOREM FreedIsNeverRead ==
  ASSUME Starving = FALSE \/ \A m \in Machines : OnePlace(m)
  PROVE  Spec => []FreedNeverRead
<1>1. MInv /\ (starved => Starving) => FreedNeverRead
  <2> SUFFICES ASSUME MInv, starved => Starving, ended = "crash", ~(Len(frames) > 1), ~Muddled(machine)
               PROVE  FALSE
    BY DEF FreedNeverRead, Depth
  <2>1. Len(frames) = 1 /\ frames[1].at \in FromMemory /\ loaded = "ok"
    BY DEF MInv, CrashInv
  <2>2. frames # <<>>
    <3>1. Len(frames) = 1
      BY <2>1
    <3> QED
      BY <3>1
  <2>3. machine \in Machines /\ FrameOK(frames[1], machine, loaded, starved)
    BY <2>1, <2>2, TopFrame DEF MInv
  <2>4. starved \in BOOLEAN
    BY DEF MInv, Stack
  <2>5. machine.files = <<>>
    BY <2>1, <2>3, <2>4 DEF OnePlace, FrameOK
  <2> QED
    BY <2>1, <2>2, <2>5 DEF MInv, Nested, NestedOK
<1> QED
  BY <1>1, MemoryInvariantHolds, StarvedHolds, PTL

\* As many addresses as tables.
LEMMA AddrsCounted ==
  ASSUME NEW ts, Sequence(ts), \A i, j \in DOMAIN ts : ts[i].addr = ts[j].addr => i = j
  PROVE  Cardinality(Addrs(ts)) = Len(ts)
<1> DEFINE f == [i \in DOMAIN ts |-> ts[i].addr]
<1>1. Len(ts) \in Nat /\ DOMAIN ts = 1 .. Len(ts)
  BY AppendFacts
<1>2. f \in Bijection(1 .. Len(ts), Addrs(ts))
  BY <1>1 DEF Bijection, Injection, Surjection, Addrs, IsInjective
<1>3. IsFiniteSet(1 .. Len(ts)) /\ Cardinality(1 .. Len(ts)) = Len(ts)
  BY <1>1, FS_Interval
<1> QED
  BY <1>2, <1>3, FS_Bijection DEF ExistsBijection

(* A load from memory that succeeds with nothing lost has every table that   *)
(* RSDP, XSDT, RSDT and FADTs lead to, each once and under the name in its    *)
(* signature: facs_last_phys_addr and the check for duplicates lose none.    *)
THEOREM FirmwareIsLoadedWhole == Spec => []FirmwareLoadComplete
<1>1. MInv => FirmwareLoadComplete
  <2> SUFFICES ASSUME MInv, Loaded, Unhindered, Origins = {"firmware"}
               PROVE  /\ {e.addr : e \in Range(tables)} = Reachable(machine)
                      /\ Cardinality(Reachable(machine)) = Len(tables)
                      /\ \A e \in Range(tables) : e.name = machine.memory[e.addr].sig
    BY DEF FirmwareLoadComplete
  <2>1. FromFirmware(tables)
    BY DEF Origins, FromFirmware
  <2>2. starved = FALSE
    BY DEF Unhindered, MInv, Stack
  <2>3. Addrs(tables) = Reachable(machine) /\ WellNamed(machine, tables)
    BY <2>1, <2>2 DEF MInv, MemoryDone, Loaded, Unhindered
  <2>4. {e.addr : e \in Range(tables)} = Addrs(tables)
    BY DEF Range, Addrs
  <2>5. Cardinality(Addrs(tables)) = Len(tables)
    BY <2>3, AddrsCounted DEF WellNamed, MInv, IInv, Shape
  <2>6. \A e \in Range(tables) : e.name = machine.memory[e.addr].sig
    BY <2>3 DEF WellNamed, Range
  <2> QED
    BY <2>3, <2>4, <2>5, <2>6
<1> QED
  BY <1>1, MemoryInvariantHolds, PTL

-----------------------------------------------------------------------------
(* Loads from files.  What the cache is at each place, as long as memory and *)
(* room last; "done" is when the load is over.                              *)

\* The first free slot.
Slot(ts) == Len(ts) + 1

Firsts(ts, name) == {i \in Named(ts, name) : ts[i].which = 0}
FindIn(ts, name) == IF Firsts(ts, name) = {} THEN 0 ELSE CHOOSE i \in Firsts(ts, name) : TRUE
\* ts and hp with a table e whose copy is r.
GrownBy(ts, hp, name, addr, from, r, new, hp2) ==
  LET n == Slot(ts)
  IN  /\ DOMAIN new = DOMAIN ts \union {n} /\ n \notin DOMAIN ts
      /\ \A i \in DOMAIN ts : new[i] = ts[i] /\ hp2[new[i].data].table = hp[ts[i].data].table
      /\ new[n].name = name /\ new[n].addr = addr /\ new[n].from = from
      /\ hp2[new[n].data] = r
      /\ \A k \in TableNames : k # name \/ FindIn(ts, k) # 0 => FindIn(new, k) = FindIn(ts, k)
      /\ name \in TableNames /\ FindIn(ts, name) = 0 => FindIn(new, name) = n

TableIn(ts, hp, name) == hp[ts[FindIn(ts, name)].data].table
Wanted(addr32, addr64) == IF addr64 # 0 THEN addr64 ELSE addr32
FacsWanted(fadt) == Wanted(fadt.facs32, fadt.facs64)
DsdtWanted(fadt) == Wanted(fadt.dsdt32, fadt.dsdt64)

\* A table is cached under the name in its signature and has its fields.
Worded(t, name) ==
  /\ t.sig = name
  /\ name = "FACP" => /\ {"len", "facs32", "facs64", "dsdt32", "dsdt64"} \subseteq DOMAIN t
                      /\ {t.facs32, t.facs64, t.dsdt32, t.dsdt64} \subseteq Nat
                      /\ t.len # "long" => t.facs64 = 0
  /\ name = "RSDP" => {"sig", "rev", "len", "rsdt", "xsdt"} \subseteq DOMAIN t
AllWorded(ts, hp) == \A i \in DOMAIN ts : Worded(hp[ts[i].data].table, ts[i].name)

\* Tables of different names have different addresses, what a FADT points at is
\* what it is for, and no address is one that is to be made up.
SiteOK(m, fk, name, addr) ==
  /\ addr \in Nat \ {0}
  /\ addr \in FacsPlaces(m) => name = "FACS"
  /\ addr \in DsdtPlaces(m) => name = "DSDT"
  /\ name = "RSDT" => addr < Limit32
  /\ \A n \in fk .. Len(m.files) + 3 : addr # FakeBase + n
Sited(m, ts, fk) ==
  /\ \A i \in DOMAIN ts : SiteOK(m, fk, ts[i].name, ts[i].addr)
  /\ \A i, j \in DOMAIN ts : ts[i].addr = ts[j].addr => ts[i].name = ts[j].name

\* Nothing was made up yet, or none of some names.
AsInFiles(m, ts, hp) ==
  \A i \in DOMAIN ts : hp[ts[i].data].table \in Range(m.files) /\ ts[i].from = "file"
FromFile(ts, names) == \A i \in DOMAIN ts : ts[i].name \in names => ts[i].from = "file"

\* The FADT leads to a FACS, or will when this has been moved.
Led(m, ts, hp) ==
  LET fadt == TableIn(ts, hp, "FACP")
      facs == FindIn(ts, "FACS")
  IN  /\ FindIn(ts, "FACP") # 0 /\ facs # 0
      /\ FacsWanted(fadt) \in {0, ts[facs].addr} \union FacsPlaces(m)
      /\ DsdtWanted(fadt) \in {0} \union DsdtPlaces(m)
      /\ ts[facs].from = "fixup" => FacsWanted(fadt) # 0
Served(ts, hp) ==
  LET fadt == TableIn(ts, hp, "FACP")
      facs == FindIn(ts, "FACS")
      dsdt == FindIn(ts, "DSDT")
  IN  /\ FindIn(ts, "FACP") # 0 /\ facs # 0
      /\ FacsWanted(fadt) # 0 => ts[facs].addr = FacsWanted(fadt)
      /\ dsdt # 0 /\ DsdtWanted(fadt) # 0 => ts[dsdt].addr = DsdtWanted(fadt)
      /\ ts[facs].from = "fixup" => FacsWanted(fadt) # 0

\* There is a RSDT or XSDT, which lists all if it was made up.
MadeRsdp(e) == e.name = "RSDP" /\ e.from = "fixup"
ToBeListed(ts) ==
  {ts[i].addr : i \in {j \in DOMAIN ts : ts[j].name \notin {"RSDT", "XSDT"} /\ ~MadeRsdp(ts[j])}}
Listing(ts, hp, name) ==
  LET k == FindIn(ts, name)
  IN  /\ k # 0
      /\ ts[k].from = "fixup" =>
           \A a \in ToBeListed(ts) :
             a \in Range(hp[ts[k].data].table.list) \/ (name = "RSDT" /\ a >= Limit32)

\* The RSDP points at the two.
Rooted(m, ts, hp) ==
  LET k == FindIn(ts, "RSDP")
      rsdp == TableIn(ts, hp, "RSDP")
  IN  /\ k # 0
      /\ m.arm \/ rsdp.rsdt = ts[FindIn(ts, "RSDT")].addr
      /\ Extended(rsdp) => rsdp.xsdt = ts[FindIn(ts, "XSDT")].addr
      /\ \A i \in DOMAIN ts : MadeRsdp(ts[i]) => i = k

Base(m, ts, hp, fk) == fk \in Nat /\ AllWorded(ts, hp) /\ Sited(m, ts, fk)
Phase(at, f, m, ts, hp, fk) ==
  LET n == Len(m.files)
  IN  /\ Base(m, ts, hp, fk)
      /\ at = "files" => AsInFiles(m, ts, hp) /\ fk <= f.i - 1 /\ f.i <= n + 1
      /\ at = "fixFacs" => AsInFiles(m, ts, hp) /\ fk <= n
      /\ at = "fixAddrs" => Led(m, ts, hp) /\ FromFile(ts, {"RSDT", "XSDT", "RSDP"}) /\ fk <= n + 1
      /\ at \in {"fixRsdt", "fixXsdt", "fixRsdp", "done"} => Served(ts, hp)
      /\ at = "fixRsdt" => FromFile(ts, {"RSDT", "XSDT", "RSDP"}) /\ fk <= n + 1
      /\ at = "fixXsdt" => FromFile(ts, {"XSDT", "RSDP"}) /\ fk <= n + 2
      /\ at = "fixRsdp" => FromFile(ts, {"RSDP"}) /\ fk <= n + 3
      /\ at \in {"fixXsdt", "fixRsdp", "done"} => Listing(ts, hp, "RSDT")
      /\ at \in {"fixRsdp", "done"} => Listing(ts, hp, "XSDT")
      /\ at \in {"fixXsdt", "fixRsdp"} => f.RSDT = ts[FindIn(ts, "RSDT")].addr
      /\ at = "fixRsdp" => f.XSDT = ts[FindIn(ts, "XSDT")].addr
      /\ at = "done" => Rooted(m, ts, hp)

Filing == Len(frames) = 1 /\ frames[1].at \in {"files"} \union FromFiles
FilesDone ==
  /\ frames = <<>> /\ loaded = "ok" /\ ended = "no"
  /\ ~FromFirmware(tables) /\ FindIn(tables, "FACP") # 0
FilesInv ==
  starved = FALSE /\ Len(tables) < MaxTables =>
    /\ Filing => Phase(frames[1].at, frames[1], machine, tables, heap, fakes)
    /\ FilesDone => Phase("done", FALSE, machine, tables, heap, fakes)

LEMMA FindAgrees ==
  /\ \A name : Find(name) = FindIn(tables, name) /\ Table(name) = TableIn(tables, heap, name)
  /\ \A name : Find(name)' = FindIn(tables', name) /\ Table(name)' = TableIn(tables', heap', name)
<1>1. \A name : Find(name) = FindIn(tables, name)
  BY DEF Find, FindIn, Firsts
<1>2. \A name : Find(name)' = FindIn(tables', name)
  BY DEF Find, FindIn, Firsts
<1> QED
  BY <1>1, <1>2 DEF Table, TableIn, Content

\* What find_table(name, 0) finds, if there is one of the name.
LEMMA FindFacts ==
  ASSUME NEW ts, NEW hp, Shape(ts, hp), NEW name \in TableNames
  PROVE  LET k == FindIn(ts, name)
         IN  /\ k = 0 <=> \A i \in DOMAIN ts : ts[i].name # name
             /\ k # 0 => k \in DOMAIN ts /\ ts[k].name = name
<1> DEFINE found == Firsts(ts, name)
<1>1. Sequence(ts) /\ Numbered(ts)
  BY DEF Shape
<1>2. DOMAIN ts = 1 .. Len(ts) /\ Len(ts) \in Nat
  BY <1>1, AppendFacts
<1>3. 0 \notin found /\ found \subseteq DOMAIN ts
  BY <1>2 DEF Named, Firsts
<1>4. ASSUME NEW i \in DOMAIN ts, ts[i].name = name
      PROVE  found # {}
  <2>1. i \in Named(ts, name)
    BY <1>4 DEF Named
  <2>2. IsFiniteSet(Named(ts, name)) /\ Cardinality(Named(ts, name)) \in Nat
    BY <1>1, NamedFinite
  <2>3. Cardinality(Named(ts, name)) # 0
    BY <2>1, <2>2, FS_EmptySet
  <2>4. {ts[j].which : j \in Named(ts, name)} = 0 .. Cardinality(Named(ts, name)) - 1
    BY <1>1 DEF Numbered
  <2>5. 0 \in 0 .. Cardinality(Named(ts, name)) - 1
    BY <2>2, <2>3
  <2> QED
    BY <2>4, <2>5 DEF Firsts
<1>5. CASE found = {}
  BY <1>4, <1>5 DEF FindIn
<1>6. CASE found # {}
  <2>1. FindIn(ts, name) \in found
    BY <1>6 DEF FindIn
  <2> QED
    BY <1>3, <2>1 DEF Named, Firsts
<1> QED
  BY <1>5, <1>6

\* Neither other contents of the slots nor ...
LEMMA FindKept ==
  ASSUME NEW ts, NEW new, DOMAIN new = DOMAIN ts,
         \A i \in DOMAIN ts : new[i].name = ts[i].name /\ new[i].which = ts[i].which, NEW name
  PROVE  FindIn(new, name) = FindIn(ts, name)
<1>1. Firsts(new, name) = Firsts(ts, name)
  BY DEF Named, Firsts
<1> QED
  BY <1>1 DEF FindIn

\* ... a table added last changes what is found.
LEMMA FindAppended ==
  ASSUME NEW ts, NEW hp, Shape(ts, hp), NEW e, e.which = Cardinality(Named(ts, e.name)),
         NEW name \in TableNames
  PROVE  /\ e.name # name \/ FindIn(ts, name) # 0 => FindIn(Append(ts, e), name) = FindIn(ts, name)
         /\ e.name = name /\ FindIn(ts, name) = 0 => FindIn(Append(ts, e), name) = Slot(ts)
<1> DEFINE last == Len(ts) + 1
           new == Append(ts, e)
<1>1. /\ Sequence(ts)
      /\ Len(ts) \in Nat /\ DOMAIN ts = 1 .. Len(ts) /\ DOMAIN new = 1 .. last
      /\ \A i \in DOMAIN ts : new[i] = ts[i]
      /\ new[last] = e
  BY AppendFacts DEF Shape
<1>2. /\ DOMAIN new = DOMAIN ts \union {last} /\ last \notin DOMAIN ts
  BY <1>1
<1> HIDE DEF last, new
<1>3. IsFiniteSet(Named(ts, e.name)) /\ Cardinality(Named(ts, e.name)) \in Nat
  BY <1>1, NamedFinite
<1>4. CASE e.name # name
  <2>1. Firsts(new, name) = Firsts(ts, name)
    BY <1>1, <1>2, <1>4 DEF Named, Firsts
  <2>2. FindIn(new, name) = FindIn(ts, name)
    BY <2>1 DEF FindIn
  <2> QED
    BY <1>4, <2>2 DEF new
<1>5. CASE e.name = name /\ FindIn(ts, name) # 0
  <2>1. Named(ts, name) # {}
    BY <1>5, FindFacts DEF Named
  <2>2. e.which # 0
    BY <1>3, <1>5, <2>1, FS_EmptySet
  <2>3. Firsts(new, name) = Firsts(ts, name)
    BY <1>1, <1>2, <2>2 DEF Named, Firsts
  <2>4. FindIn(new, name) = FindIn(ts, name)
    BY <2>3 DEF FindIn
  <2> QED
    BY <1>5, <2>4 DEF new
<1>6. CASE e.name = name /\ FindIn(ts, name) = 0
  <2>1. Named(ts, name) = {}
    BY <1>6, FindFacts DEF Named
  <2>2. e.which = 0
    BY <1>6, <2>1, FS_EmptySet
  <2>3. Firsts(new, name) = {last}
    BY <1>1, <1>2, <1>6, <2>1, <2>2 DEF Named, Firsts
  <2>4. FindIn(new, name) = last
    BY <2>3 DEF FindIn
  <2> QED
    BY <1>6, <2>4 DEF last, new, Slot
<1> QED
  BY <1>4, <1>5, <1>6 DEF new

\* A table with a new copy, at an address that is not in the cache.
LEMMA Grown ==
  ASSUME NEW ts, NEW hp, Shape(ts, hp), Len(ts) < MaxTables, NEW name, NEW addr, addr \notin Addrs(ts),
         NEW from, NEW new, new = AddTable(ts, name, Slot(hp), addr, from),
         NEW r, NEW hp2, hp2 = Append(hp, r)
  PROVE  GrownBy(ts, hp, name, addr, from, r, new, hp2)
<1> DEFINE n == Len(ts) + 1
           c == Len(hp) + 1
           e == [name |-> name, data |-> c, addr |-> addr, from |-> from,
                 which |-> Cardinality(Named(ts, name))]
<1>0. Slot(ts) = n /\ Slot(hp) = c
  BY DEF Slot
<1>1. new = Append(ts, e)
  BY <1>0, AcpiTablesAssumption DEF AddTable, Duplicate, Addrs
<1>2. e.name = name /\ e.addr = addr /\ e.from = from /\ e.data = c
      /\ e.which = Cardinality(Named(ts, e.name))
  OBVIOUS
<1> HIDE DEF e
<1>3. /\ Len(ts) \in Nat /\ DOMAIN ts = 1 .. Len(ts) /\ DOMAIN new = 1 .. n
      /\ \A i \in DOMAIN ts : new[i] = ts[i]
      /\ new[n] = e
  <2>1. Sequence(ts)
    BY DEF Shape
  <2>2. /\ Len(ts) \in Nat /\ DOMAIN ts = 1 .. Len(ts) /\ DOMAIN new = 1 .. Len(ts) + 1
        /\ \A i \in DOMAIN ts : new[i] = ts[i]
        /\ new[Len(ts) + 1] = e
    BY <1>1, <2>1, AppendFacts
  <2> QED
    BY <2>2
<1>4. /\ \A d \in DOMAIN hp : hp2[d] = hp[d]
      /\ hp2[c] = r
  BY AppendFacts DEF Shape
<1>5. \A i \in DOMAIN ts : ts[i].data \in DOMAIN hp
  BY DEF Shape, Fresh
<1>6. DOMAIN new = DOMAIN ts \union {n} /\ n \notin DOMAIN ts
  <2>1. \A k \in Nat : 1 .. k + 1 = (1 .. k) \union {k + 1} /\ k + 1 \notin 1 .. k
    OBVIOUS
  <2> QED
    BY <1>3, <2>1
<1>7. ASSUME NEW k \in TableNames
      PROVE  /\ k # name \/ FindIn(ts, k) # 0 => FindIn(new, k) = FindIn(ts, k)
             /\ k = name /\ FindIn(ts, k) = 0 => FindIn(new, k) = n
  <2> HIDE DEF n
  <2>1. e.which = Cardinality(Named(ts, e.name))
    BY <1>2
  <2>2. /\ e.name # k \/ FindIn(ts, k) # 0 => FindIn(Append(ts, e), k) = FindIn(ts, k)
        /\ e.name = k /\ FindIn(ts, k) = 0 => FindIn(Append(ts, e), k) = Slot(ts)
    BY <2>1, FindAppended
  <2> QED
    BY <1>0, <1>1, <1>2, <2>2
<1> HIDE DEF n, c
<1> QED
  BY <1>0, <1>2, <1>3, <1>4, <1>5, <1>6, <1>7 DEF GrownBy

-----------------------------------------------------------------------------
(* Files are loaded. *)

LEMMA FileFacts ==
  ASSUME NEW m \in Machines
  PROVE  /\ Len(m.files) \in Nat /\ DOMAIN m.files = 1 .. Len(m.files)
         /\ \A i \in DOMAIN m.files : m.files[i] \in Range(m.files)
         /\ \A t \in Range(m.files) : Worded(t, t.sig) /\ (m.source = "dump" => t.at \in Nat)
<1>1. /\ m.files \in Seq(Range(m.files))
      /\ \A t \in Range(m.files) : IsTable(t) /\ (m.source = "dump" => t.at \in Nat)
  BY MachinesAssumption
<1>2. ASSUME NEW t, IsTable(t)
      PROVE  Worded(t, t.sig)
  BY <1>2 DEF IsTable, Worded
<1> QED
  BY <1>1, <1>2 DEF Range

\* The address that is made up next, and one from a dump.
LEMMA FakeSite ==
  ASSUME NEW m \in Machines, Tidy(m), NEW fk \in Nat, fk <= Len(m.files) + 3, NEW name
  PROVE  SiteOK(m, fk + 1, name, FakeBase + fk)
<1>1. Len(m.files) \in Nat /\ FakeBase \in Nat \ {0} /\ Limit32 \in Nat
  BY FileFacts, AcpiTablesAssumption
<1> DEFINE n == Len(m.files)
<1>2. /\ FakeBase + n + 3 < Limit32
      /\ FakeBase + fk \notin FacsPlaces(m) \union DsdtPlaces(m)
  BY <1>1 DEF Tidy
<1> HIDE DEF n
<1>3. n \in Nat /\ fk <= n + 3
  BY <1>1 DEF n
<1>4. FakeBase + fk \in Nat \ {0} /\ FakeBase + fk < Limit32
  BY <1>1, <1>2, <1>3
<1>5. \A k \in fk + 1 .. n + 3 : FakeBase + fk # FakeBase + k
  BY <1>1, <1>3
<1> QED
  BY <1>2, <1>4, <1>5 DEF SiteOK, n

LEMMA PlacedSite ==
  ASSUME NEW m \in Machines, Tidy(m), m.source = "dump", NEW t \in Range(m.files), t.at # 0,
         NEW fk \in Nat
  PROVE  SiteOK(m, fk, t.sig, t.at)
<1>1. t.at \in Nat /\ Len(m.files) \in Nat
  BY FileFacts
<1>2. \A k \in 0 .. Len(m.files) + 3 : FakeBase + k # t.at
  BY DEF Tidy
<1>3. fk .. Len(m.files) + 3 \subseteq 0 .. Len(m.files) + 3
  BY <1>1
<1>4. /\ t.at \in FacsPlaces(m) => t.sig = "FACS"
      /\ t.at \in DsdtPlaces(m) => t.sig = "DSDT"
      /\ t.sig = "RSDT" => t.at < Limit32
  BY DEF Tidy
<1> QED
  BY <1>1, <1>2, <1>3, <1>4 DEF SiteOK

LEMMA SiteLater ==
  ASSUME NEW m, NEW fk \in Nat, NEW fk2 \in {fk, fk + 1}, NEW name, NEW addr, SiteOK(m, fk, name, addr)
  PROVE  SiteOK(m, fk2, name, addr)
<1>1. \A x : fk2 .. x \subseteq fk .. x
  OBVIOUS
<1> QED
  BY <1>1 DEF SiteOK

LEMMA BaseLater ==
  ASSUME NEW m, NEW ts, NEW hp, NEW fk, NEW fk2 \in {fk, fk + 1}, Base(m, ts, hp, fk),
         NEW hp2, \A i \in DOMAIN ts : hp2[ts[i].data].table = hp[ts[i].data].table
  PROVE  Base(m, ts, hp2, fk2)
<1>1. fk \in Nat /\ fk2 \in Nat
  BY DEF Base
<1>2. Sited(m, ts, fk2)
  BY <1>1, SiteLater DEF Base, Sited
<1> QED
  BY <1>1, <1>2 DEF Base, AllWorded

LEMMA BaseGrown ==
  ASSUME NEW m, NEW ts, NEW hp, Shape(ts, hp), Len(ts) < MaxTables,
         NEW fk, NEW fk2 \in {fk, fk + 1}, Base(m, ts, hp, fk),
         NEW name, NEW addr, SiteOK(m, fk2, name, addr), addr \notin Addrs(ts),
         NEW from, NEW new, new = AddTable(ts, name, Slot(hp), addr, from),
         NEW r, Worded(r.table, name), NEW hp2, hp2 = Append(hp, r)
  PROVE  Base(m, new, hp2, fk2)
<1>1. GrownBy(ts, hp, name, addr, from, r, new, hp2)
  BY Grown
<1>2. fk \in Nat /\ fk2 \in Nat
  BY DEF Base
<1>3. AllWorded(new, hp2)
  BY <1>1 DEF Base, AllWorded, GrownBy
<1>4. \A i \in DOMAIN new : SiteOK(m, fk2, new[i].name, new[i].addr)
  <2>1. \A i \in DOMAIN ts : SiteOK(m, fk2, ts[i].name, ts[i].addr)
    BY <1>2, SiteLater DEF Base, Sited
  <2> QED
    BY <1>1, <2>1 DEF GrownBy
<1>5. \A i \in DOMAIN ts : ts[i].addr # addr
  BY DEF Addrs
<1>6. \A i, j \in DOMAIN new : new[i].addr = new[j].addr => new[i].name = new[j].name
  BY <1>1, <1>5 DEF Base, Sited, GrownBy
<1> QED
  BY <1>2, <1>3, <1>4, <1>6 DEF Base, Sited

\* The only load, its frame, and the step it takes.
LEMMA OnlyFrame ==
  ASSUME IInv, Stack, Filing
  PROVE  /\ frames # <<>> /\ Top = frames[1] /\ DOMAIN Top = FrameFields
         /\ machine \in Machines /\ FrameOK(Top, machine, loaded, starved)
         /\ \A g : Go(g) => Len(frames') = 1 /\ frames'[1] = g /\ frames' # <<>>
         /\ frames' = Front(frames) => frames' = <<>>
<1>1. frames # <<>> /\ Len(frames) = 1
  BY DEF Filing
<1>2. Top = frames[1]
  BY <1>1 DEF Top, Depth
<1>3. /\ DOMAIN Top = FrameFields /\ machine \in Machines /\ FrameOK(Top, machine, loaded, starved)
  BY <1>1, TopFrame
<1>4. \A g : Go(g) => Len(frames') = 1 /\ frames'[1] = g /\ frames' # <<>>
  BY <1>1, GoLone
<1>5. ASSUME frames' = Front(frames) PROVE frames' = <<>>
  <2>1. Len(frames') = 0
    BY <1>1, <1>5, PopLone
  <2>2. frames' # <<>> => Len(frames) > 1
    BY <1>1, <1>5, PopLone
  <2> QED
    BY <1>1, <2>2
<1> QED
  BY <1>1, <1>2, <1>3, <1>4, <1>5

Here == Phase(frames[1].at, frames[1], machine, tables, heap, fakes)

\* A table is added, or its address is that of one in the cache.
Same(ts, hp, hp2) == \A i \in DOMAIN ts : hp2[ts[i].data].table = hp[ts[i].data].table
AddedAs(name, table, addr, from) ==
  \/ addr \in Addrs(tables) /\ tables' = tables /\ Same(tables, heap, heap')
  \/ /\ addr \notin Addrs(tables)
     /\ \E r : r.table = table /\ GrownBy(tables, heap, name, addr, from, r, tables', heap')

LEMMA Adds ==
  ASSUME IInv, NEW m, NEW name, NEW table, NEW addr, NEW from, AddAs(name, table, addr, from),
         Len(tables') < MaxTables, NEW fk2 \in {fakes, fakes + 1}, Base(m, tables, heap, fakes),
         SiteOK(m, fk2, name, addr), Worded(table, name)
  PROVE  Base(m, tables', heap', fk2) /\ AddedAs(name, table, addr, from)
<1> DEFINE r == [table |-> table, live |-> ~Duplicate(tables, addr)]
<1>1. Shape(tables, heap) /\ Sequence(tables) /\ Sequence(heap) /\ Len(tables) <= MaxTables
  BY DEF IInv, Shape
<1>2. addr # 0
  BY DEF SiteOK
<1>3. tables' = AddTable(tables, name, Slot(heap), addr, from) /\ heap' = Append(heap, r)
  BY DEF AddAs, Slot
<1>4. r.table = table
  OBVIOUS
<1>5. Len(tables) < MaxTables
  BY <1>1, <1>2, <1>3, AddTableFacts
<1>6. CASE addr \in Addrs(tables)
  <2>1. tables' = tables
    BY <1>2, <1>3, <1>6 DEF AddTable, Duplicate, Addrs
  <2>2. \A d \in DOMAIN heap : heap'[d] = heap[d]
    BY <1>1, <1>3, AppendFacts
  <2>3. Same(tables, heap, heap')
    BY <1>1, <2>2 DEF Same, Shape, Fresh
  <2>4. Base(m, tables, heap', fk2)
    BY <2>3, BaseLater DEF Same
  <2> QED
    BY <1>6, <2>1, <2>3, <2>4 DEF AddedAs
<1>7. CASE addr \notin Addrs(tables)
  <2> HIDE DEF r
  <2>1. GrownBy(tables, heap, name, addr, from, r, tables', heap')
    BY <1>1, <1>3, <1>5, <1>7, Grown
  <2>2. Worded(r.table, name)
    BY <1>4
  <2>3. Base(m, tables', heap', fk2)
    BY <1>1, <1>3, <1>5, <1>7, <2>2, BaseGrown
  <2> QED
    BY <1>4, <1>7, <2>1, <2>3 DEF AddedAs
<1> QED
  BY <1>6, <1>7

\* Room after a step is room before it.
LEMMA RoomBefore ==
  ASSUME IInv, Files \/ Fixup, Len(tables') < MaxTables
  PROVE  Len(tables) < MaxTables
<1>1. Shape(tables, heap) /\ Sequence(tables) /\ Len(tables) <= MaxTables /\ Len(tables) \in Nat
  BY AppendFacts DEF IInv, Shape
<1>2. ASSUME NEW ts, NEW name, NEW c, NEW addr, NEW from, Len(ts) = Len(tables), Sequence(ts),
             tables' = AddTable(ts, name, c, addr, from)
      PROVE  Len(tables) < MaxTables
  <2>1. CASE tables' = ts
    BY <1>2, <2>1
  <2>2. CASE tables' # ts
    <3>1. Len(ts) # MaxTables
      BY <1>2, <2>2 DEF AddTable
    <3> QED
      BY <1>1, <1>2, <3>1, AcpiTablesAssumption
  <2> QED
    BY <2>1, <2>2
<1>3. CASE FixAddrs
  <2> DEFINE fadt == Table("FACP")
             ts == Moved(tables, "FACS", fadt.facs32, fadt.facs64)
  <2>1. tables' = Moved(ts, "DSDT", fadt.dsdt32, fadt.dsdt64)
    BY <1>3 DEF FixAddrs
  <2> HIDE DEF fadt
  <2>2. DOMAIN ts = DOMAIN tables /\ Shape(ts, heap)
    BY <1>1, MovedShape, MovedFrom
  <2> HIDE DEF ts
  <2>3. DOMAIN tables' = DOMAIN ts /\ Shape(tables', heap)
    BY <2>1, <2>2, MovedShape, MovedFrom
  <2>4. Len(tables') = Len(tables)
    BY <1>1, <2>2, <2>3, AppendFacts DEF Shape
  <2> QED
    BY <2>4
<1>4. CASE ~FixAddrs
  <2>1. tables' = tables \/ \E name, c, addr, from : tables' = AddTable(tables, name, c, addr, from)
    BY <1>4 DEF Files, Fixup, LoadFile, EndFiles, FixFacs, FixRsdt, FixXsdt, FixRsdp, FixDirectory,
                GiveUpFixup, MadeUp, Add, AddAs
  <2> QED
    BY <1>1, <1>2, <2>1
<1> QED
  BY <1>3, <1>4

LEMMA LoadFileHolds ==
  ASSUME IInv, Stack, Filing, Tidy(machine), Here, LoadFile, starved' = FALSE, Len(tables') < MaxTables
  PROVE  Here'
<1> DEFINE m == machine
           t == m.files[Top.i]
           n == Len(m.files)
           g == [Top EXCEPT !.i = @ + 1, !.count = @ + 1]
<1>1. /\ Top = frames[1] /\ DOMAIN Top = FrameFields /\ m \in Machines /\ m' = m
      /\ FrameOK(Top, m, loaded, starved) /\ Top.at = "files" /\ Top.i <= n
      /\ \A f : Go(f) => frames'[1] = f
  BY OnlyFrame DEF LoadFile, At, Step
<1>2. /\ Base(m, tables, heap, fakes) /\ AsInFiles(m, tables, heap) /\ fakes <= Top.i - 1
      /\ Top.i <= n + 1
  BY <1>1 DEF Here, Phase
<1>3. n \in Nat /\ Top.i \in Nat \ {0} /\ fakes \in Nat
  BY <1>1, <1>2, FileFacts DEF FrameOK, Base
<1>4. frames'[1] = g
  <2>1. ~(Starves) \/ starved' = TRUE
    BY DEF Starves
  <2> QED
    BY <1>1, <2>1 DEF LoadFile
<1>5. g.at = "files" /\ g.i = Top.i + 1
  BY <1>1 DEF FrameFields
<1>6. Top.i \in DOMAIN m.files /\ t \in Range(m.files) /\ Worded(t, t.sig)
  BY <1>1, <1>3, FileFacts
<1> HIDE DEF g
<1> SUFFICES Base(m, tables', heap', fakes') /\ AsInFiles(m, tables', heap')
             /\ fakes' <= Top.i /\ Top.i + 1 <= n + 1
  <2>1. fakes' <= g.i - 1 /\ g.i <= n + 1
    BY <1>3, <1>5
  <2> QED
    BY <1>1, <1>4, <1>5, <2>1 DEF Here, Phase
<1>7. CASE UNCHANGED <<tables, heap, fakes>>
  BY <1>1, <1>2, <1>3, <1>7
<1>8. ASSUME ~UNCHANGED <<tables, heap, fakes>>
      PROVE  Base(m, tables', heap', fakes') /\ AsInFiles(m, tables', heap')
             /\ fakes' \in {fakes, fakes + 1}
  <2> DEFINE faked == m.source # "dump" \/ t.at = 0
             addr == IF faked THEN FakeAddr ELSE t.at
  <2>1. /\ AddAs(t.sig, t, addr, "file")
        /\ fakes' = IF faked THEN fakes + 1 ELSE fakes
    BY <1>8 DEF LoadFile, Add
  <2>2. fakes' \in {fakes, fakes + 1}
    BY <2>1
  <2>3. SiteOK(m, fakes', t.sig, addr)
    <3>1. CASE faked
      <4>1. fakes <= n + 3
        BY <1>1, <1>2, <1>3
      <4> QED
        BY <1>1, <1>3, <2>1, <3>1, <4>1, FakeSite DEF FakeAddr
    <3>2. CASE ~faked
      BY <1>1, <1>3, <1>6, <2>1, <3>2, PlacedSite
    <3> QED
      BY <3>1, <3>2
  <2> HIDE DEF addr, t
  <2>4. Base(m, tables', heap', fakes') /\ AddedAs(t.sig, t, addr, "file")
    BY <1>2, <1>6, <2>1, <2>2, <2>3, Adds
  <2>5. AsInFiles(m, tables', heap')
    BY <1>2, <1>6, <2>4 DEF AddedAs, Same, GrownBy, AsInFiles
  <2> QED
    BY <2>2, <2>4, <2>5
<1> QED
  BY <1>1, <1>2, <1>3, <1>7, <1>8

LEMMA EndFilesHolds ==
  ASSUME IInv, Stack, Filing, Here, EndFiles, Filing'
  PROVE  Here'
<1> DEFINE m == machine
           n == Len(m.files)
<1>1. /\ Top = frames[1] /\ DOMAIN Top = FrameFields /\ m \in Machines /\ m' = m
      /\ FrameOK(Top, m, loaded, starved) /\ Top.at = "files"
      /\ \A f : Go(f) => frames'[1] = f
      /\ frames' = Front(frames) => frames' = <<>>
  BY OnlyFrame DEF EndFiles, At, Step
<1>2. /\ Base(m, tables, heap, fakes) /\ AsInFiles(m, tables, heap) /\ fakes <= Top.i - 1
      /\ Top.i <= n + 1
  BY <1>1 DEF Here, Phase
<1>3. n \in Nat /\ Top.i \in Nat \ {0} /\ fakes \in Nat
  BY <1>1, <1>2, FileFacts DEF FrameOK, Base
<1>4. fakes <= n
  BY <1>2, <1>3
<1>5. frames' # <<>>
  BY DEF Filing
<1>6. frames'[1].at \in {"fixFacs", "rsdp"}
  BY <1>1, <1>5 DEF EndFiles, Goto, Return, FrameFields
<1>7. frames'[1].at = "fixFacs"
  BY <1>6 DEF Filing, FromFiles
<1> QED
  BY <1>1, <1>2, <1>4, <1>7 DEF Here, Phase, EndFiles

-----------------------------------------------------------------------------
(* A FACS is found or made. *)

\* What a FADT in a file points at, and that a FACS or DSDT can be there.
LEMMA FadtPlaces ==
  ASSUME NEW m, NEW fadt \in Range(m.files), Worded(fadt, "FACP")
  PROVE  /\ FacsWanted(fadt) \in {0} \union FacsPlaces(m)
         /\ DsdtWanted(fadt) \in {0} \union DsdtPlaces(m)
<1>1. fadt \in FadtFiles(m)
  BY DEF Worded, FadtFiles
<1> QED
  BY <1>1 DEF FacsWanted, DsdtWanted, Wanted, FacsPlaces, DsdtPlaces

LEMMA PlacesAreNumbers ==
  ASSUME NEW m \in Machines
  PROVE  FacsPlaces(m) \subseteq Nat \ {0} /\ DsdtPlaces(m) \subseteq Nat \ {0}
<1>1. \A f \in FadtFiles(m) : {f.facs32, f.facs64, f.dsdt32, f.dsdt64} \subseteq Nat
  <2> SUFFICES ASSUME NEW f \in FadtFiles(m) PROVE {f.facs32, f.facs64, f.dsdt32, f.dsdt64} \subseteq Nat
    OBVIOUS
  <2>1. f \in Range(m.files) /\ f.sig = "FACP"
    BY DEF FadtFiles
  <2>2. Worded(f, "FACP")
    BY <2>1, FileFacts
  <2> QED
    BY <2>2 DEF Worded
<1>2. \A a \in FacsPlaces(m) : a # 0 /\ \E f \in FadtFiles(m) : a \in {f.facs32, f.facs64}
  BY DEF FacsPlaces
<1>3. \A a \in DsdtPlaces(m) : a # 0 /\ \E f \in FadtFiles(m) : a \in {f.dsdt32, f.dsdt64}
  BY DEF DsdtPlaces
<1> QED
  BY <1>1, <1>2, <1>3

LEMMA FadtSite ==
  ASSUME NEW m \in Machines, Tidy(m), NEW fk \in Nat, NEW addr
  PROVE  /\ addr \in FacsPlaces(m) => SiteOK(m, fk, "FACS", addr)
         /\ addr \in DsdtPlaces(m) => SiteOK(m, fk, "DSDT", addr)
<1>1. Len(m.files) \in Nat
  BY FileFacts
<1>2. \A k \in 0 .. Len(m.files) + 3 : FakeBase + k \notin FacsPlaces(m) \union DsdtPlaces(m)
  BY DEF Tidy
<1>3. fk .. Len(m.files) + 3 \subseteq 0 .. Len(m.files) + 3
  BY <1>1
<1>4. FacsPlaces(m) \intersect DsdtPlaces(m) = {}
  BY DEF Tidy
<1> QED
  BY <1>2, <1>3, <1>4, PlacesAreNumbers DEF SiteOK

\* Nothing is at the address that is made up next.
LEMMA FakeIsFree ==
  ASSUME NEW m \in Machines, NEW ts, NEW fk \in Nat, Sited(m, ts, fk), fk <= Len(m.files) + 3
  PROVE  FakeBase + fk \notin Addrs(ts)
<1>1. Len(m.files) \in Nat
  BY FileFacts
<1>2. fk \in fk .. Len(m.files) + 3
  BY <1>1
<1> QED
  BY <1>2 DEF Sited, SiteOK, Addrs

\* Another table in a copy that is in the cache.
RewrittenAs(ts, hp, k, table, new) ==
  /\ Shape(ts, new) /\ Len(new) = Len(hp)
  /\ new[ts[k].data].table = table
  /\ \A i \in DOMAIN ts : i # k => new[ts[i].data] = hp[ts[i].data]

LEMMA Rewritten ==
  ASSUME NEW ts, NEW hp, Shape(ts, hp), NEW k \in DOMAIN ts, NEW table, NEW c, c = ts[k].data
  PROVE  RewrittenAs(ts, hp, k, table, [hp EXCEPT ![c].table = table])
<1> DEFINE new == [hp EXCEPT ![c].table = table]
<1>1. c \in DOMAIN hp /\ \A i \in DOMAIN ts : i # k => ts[i].data # c
  BY DEF Shape, Fresh
<1>2. DOMAIN hp[c] = {"table", "live"}
  BY <1>1 DEF Shape, HeapShape
<1>3. Shape(ts, new)
  BY SetTableShape, Zenon
<1>4. Len(new) = Len(hp)
  <2>1. DOMAIN new = DOMAIN hp
    OBVIOUS
  <2> HIDE DEF new
  <2> QED
    BY <1>3, <2>1, AppendFacts DEF Shape
<1> QED
  BY <1>1, <1>2, <1>3, <1>4 DEF RewrittenAs

\* A FACS that is added leaves the FADT where it was and is what it points at.
LEMMA FacsMade ==
  ASSUME NEW m, NEW ts, NEW hp, Shape(ts, hp), NEW addr, NEW r, NEW new, NEW hp2,
         GrownBy(ts, hp, "FACS", addr, "fixup", r, new, hp2),
         FindIn(ts, "FACP") # 0, FindIn(ts, "FACS") = 0, addr # 0,
         FacsWanted(TableIn(ts, hp, "FACP")) = addr,
         DsdtWanted(TableIn(ts, hp, "FACP")) \in {0} \union DsdtPlaces(m),
         \A i \in DOMAIN ts : ts[i].from = "file"
  PROVE  Led(m, new, hp2) /\ FromFile(new, {"RSDT", "XSDT", "RSDP"})
<1> DEFINE k == FindIn(ts, "FACP")
           n == Slot(ts)
<1>1. "FACP" \in TableNames /\ "FACS" \in TableNames
  BY DEF TableNames
<1>2. k \in DOMAIN ts
  BY <1>1, FindFacts
<1>3. FindIn(new, "FACP") = k /\ FindIn(new, "FACS") = n
  BY <1>1 DEF GrownBy
<1>4. /\ new[n].addr = addr /\ new[n].from = "fixup" /\ n \in DOMAIN new /\ new[n].name = "FACS"
      /\ \A i \in DOMAIN new : i = n \/ (i \in DOMAIN ts /\ new[i] = ts[i])
      /\ hp2[new[k].data].table = hp[ts[k].data].table
  BY <1>2 DEF GrownBy
<1>5. TableIn(new, hp2, "FACP") = TableIn(ts, hp, "FACP")
  BY <1>3, <1>4 DEF TableIn
<1>6. n # 0
  BY AppendFacts DEF Slot, Shape
<1>7. FromFile(new, {"RSDT", "XSDT", "RSDP"})
  BY <1>4 DEF FromFile
<1> HIDE DEF n
<1> QED
  BY <1>3, <1>4, <1>5, <1>6, <1>7 DEF Led

LEMMA FixFacsHolds ==
  ASSUME IInv, Stack, Filing, Tidy(machine), Here, FixFacs, starved' = FALSE, Len(tables') < MaxTables
  PROVE  (Filing' => Here') /\ ~FilesDone'
<1> DEFINE m == machine
           n == Len(m.files)
           k == FindIn(tables, "FACP")
           fadt == TableIn(tables, heap, "FACP")
           given == IF fadt.len = "long" /\ fadt.facs64 # 0 THEN fadt.facs64 ELSE fadt.facs32
           names == {"RSDT", "XSDT", "RSDP"}
<1>1. /\ Top = frames[1] /\ DOMAIN Top = FrameFields /\ m \in Machines /\ m' = m
      /\ Top.at = "fixFacs" /\ loaded' = loaded
      /\ \A f : Go(f) => frames'[1] = f /\ frames' # <<>>
      /\ frames' = Front(frames) => frames' = <<>>
  BY OnlyFrame DEF FixFacs, At, Step
<1>2. Base(m, tables, heap, fakes) /\ AsInFiles(m, tables, heap) /\ fakes <= n
  BY <1>1 DEF Here, Phase
<1>3. n \in Nat /\ fakes \in Nat /\ Shape(tables, heap) /\ Sited(m, tables, fakes) /\ AllWorded(tables, heap)
  BY <1>1, <1>2, FileFacts DEF Base, IInv
<1>4. "FACP" \in TableNames /\ "FACS" \in TableNames
  BY DEF TableNames
<1>5. Find("FACP") = k /\ Find("FACS") = FindIn(tables, "FACS") /\ Table("FACP") = fadt
      /\ Find("FACP")' = FindIn(tables', "FACP")
  BY FindAgrees
<1>6. CASE k = 0
  <2>1. frames' = <<>> /\ tables' = tables
    BY <1>1, <1>5, <1>6 DEF FixFacs, GiveUpFixup
  <2>2. ~Filing'
    BY <2>1 DEF Filing
  <2> QED
    BY <1>6, <2>1, <2>2 DEF FilesDone
<1> SUFFICES ASSUME k # 0 PROVE (Filing' => Here') /\ ~FilesDone'
  BY <1>6
<1>7. k \in DOMAIN tables /\ tables[k].name = "FACP"
  BY <1>3, <1>4, FindFacts
<1>8. /\ fadt \in Range(m.files) /\ Worded(fadt, "FACP") /\ given = FacsWanted(fadt)
      /\ heap[tables[k].data].table = fadt
  <2>1. fadt \in Range(m.files) /\ Worded(fadt, "FACP")
    BY <1>2, <1>3, <1>7 DEF AsInFiles, AllWorded, TableIn
  <2>2. given = FacsWanted(fadt)
    BY <2>1 DEF Worded, FacsWanted, Wanted
  <2> QED
    BY <2>1, <2>2 DEF TableIn
<1>9. /\ FacsWanted(fadt) \in {0} \union FacsPlaces(m)
      /\ DsdtWanted(fadt) \in {0} \union DsdtPlaces(m)
  BY <1>8, FadtPlaces
<1>10. \A i \in DOMAIN tables : tables[i].from = "file"
  BY <1>2 DEF AsInFiles
<1>11. ASSUME Goto("fixAddrs"), Base(m, tables', heap', fakes'), fakes' <= n + 1,
              Led(m, tables', heap'), FromFile(tables', names)
       PROVE  (Filing' => Here') /\ ~FilesDone'
  <2>1. frames' # <<>> /\ frames'[1].at = "fixAddrs"
    BY <1>1, <1>11 DEF Goto, FrameFields
  <2>2. Here'
    BY <1>1, <1>11, <2>1 DEF Here, Phase
  <2> QED
    BY <2>1, <2>2 DEF FilesDone
<1>12. CASE Find("FACS") # 0
  <2>1. Goto("fixAddrs") /\ UNCHANGED <<tables, heap, fakes>>
    BY <1>5, <1>12 DEF FixFacs
  <2>2. FindIn(tables, "FACS") \in DOMAIN tables
    BY <1>3, <1>4, <1>5, <1>12, FindFacts
  <2>3. Led(m, tables, heap) /\ FromFile(tables, names)
    BY <1>5, <1>9, <1>10, <1>12, <2>2 DEF Led, FromFile
  <2>4. fakes <= n + 1
    BY <1>2, <1>3
  <2> QED
    BY <1>2, <1>11, <2>1, <2>3, <2>4
<1>13. ASSUME Find("FACS") = 0, given # 0, AddAs("FACS", [sig |-> "FACS"], given, "fixup"),
              Goto("fixAddrs"), fakes' = fakes
       PROVE  (Filing' => Here') /\ ~FilesDone'
  <2> DEFINE t == [sig |-> "FACS"]
  <2>1. given \in FacsPlaces(m)
    BY <1>8, <1>9, <1>13
  <2>2. SiteOK(m, fakes, "FACS", given)
    BY <1>1, <1>3, <2>1, FadtSite
  <2>3. given \notin Addrs(tables)
    <3>1. \A i \in DOMAIN tables : tables[i].name # "FACS"
      BY <1>3, <1>4, <1>5, <1>13, FindFacts
    <3> QED
      BY <1>3, <2>1, <3>1 DEF Sited, SiteOK, Addrs
  <2>4. Worded(t, "FACS")
    BY DEF Worded
  <2> HIDE DEF t, given
  <2>5. Base(m, tables', heap', fakes') /\ AddedAs("FACS", t, given, "fixup")
    BY <1>2, <1>13, <2>2, <2>4, Adds DEF t
  <2>6. PICK r : GrownBy(tables, heap, "FACS", given, "fixup", r, tables', heap')
    BY <2>3, <2>5 DEF AddedAs
  <2>7. Led(m, tables', heap') /\ FromFile(tables', names)
    BY <1>3, <1>5, <1>8, <1>9, <1>10, <1>13, <2>6, FacsMade
  <2>8. fakes' <= n + 1
    BY <1>2, <1>3, <1>13
  <2> QED
    BY <1>11, <1>13, <2>5, <2>7, <2>8
<1>14. ASSUME Find("FACS") = 0, given = 0, Goto("fixAddrs"), fakes' = fakes + 1, NEW r, NEW fadt2, NEW c,
              c = tables[k].data,
              fadt2 = IF fadt.len = "long" THEN [fadt EXCEPT !.facs64 = FakeAddr]
                                           ELSE [fadt EXCEPT !.facs32 = FakeAddr],
              r.table = [sig |-> "FACS"],
              tables' = AddTable(tables, "FACS", Len(heap) + 1, FakeAddr, "fixup"),
              heap' = Append([heap EXCEPT ![c].table = fadt2], r)
       PROVE  (Filing' => Here') /\ ~FilesDone'
  <2> DEFINE hp == [heap EXCEPT ![c].table = fadt2]
  <2>1. /\ Shape(tables, hp) /\ Len(hp) = Len(heap) /\ hp[c].table = fadt2
        /\ \A i \in DOMAIN tables : i # k => hp[tables[i].data] = heap[tables[i].data]
    <3>1. Shape(tables, heap) /\ k \in DOMAIN tables /\ c = tables[k].data
      BY <1>3, <1>7, <1>14
    <3> HIDE DEF k
    <3>2. RewrittenAs(tables, heap, k, fadt2, hp)
      BY <3>1, Rewritten, Zenon
    <3> HIDE DEF hp
    <3> QED
      BY <3>1, <3>2 DEF RewrittenAs
  <2> HIDE DEF hp
  <2>2. FakeAddr \in Nat \ {0} /\ fakes <= n + 3 /\ fakes' <= n + 1
    BY <1>2, <1>3, <1>14, AcpiTablesAssumption DEF FakeAddr
  <2>3. /\ Worded(fadt2, "FACP") /\ FacsWanted(fadt2) = FakeAddr
        /\ DsdtWanted(fadt2) = DsdtWanted(fadt)
    BY <1>8, <1>14, <2>2 DEF Worded, FacsWanted, DsdtWanted, Wanted
  <2>4. AllWorded(tables, hp)
    BY <1>3, <1>7, <1>14, <2>1, <2>3 DEF AllWorded
  <2>5. Base(m, tables, hp, fakes)
    BY <1>2, <2>4 DEF Base
  <2>6. SiteOK(m, fakes', "FACS", FakeAddr) /\ FakeAddr \notin Addrs(tables)
    BY <1>1, <1>3, <1>14, <2>2, FakeSite, FakeIsFree DEF FakeAddr
  <2>7. Len(tables) < MaxTables
    BY RoomBefore DEF Fixup
  <2>8. Slot(hp) = Len(heap) + 1
    BY <2>1 DEF Slot
  <2>9. Worded(r.table, "FACS")
    BY <1>14 DEF Worded
  <2>10. tables' = AddTable(tables, "FACS", Slot(hp), FakeAddr, "fixup") /\ heap' = Append(hp, r)
    BY <1>14, <2>8 DEF hp
  <2>15. fakes' \in {fakes, fakes + 1} /\ FindIn(tables, "FACS") = 0 /\ FakeAddr # 0
         /\ FacsWanted(TableIn(tables, hp, "FACP")) = FakeAddr
         /\ DsdtWanted(TableIn(tables, hp, "FACP")) \in {0} \union DsdtPlaces(m)
    <3>1. TableIn(tables, hp, "FACP") = fadt2
      BY <1>14, <2>1 DEF TableIn
    <3> HIDE DEF fadt
    <3> QED
      BY <1>5, <1>9, <1>14, <2>2, <2>3, <3>1
  <2>11. Base(m, tables', heap', fakes')
    BY <2>15, <2>1, <2>5, <2>6, <2>7, <2>9, <2>10, BaseGrown
  <2>12. GrownBy(tables, hp, "FACS", FakeAddr, "fixup", r, tables', heap')
    BY <2>1, <2>6, <2>7, <2>10, Grown
  <2>14. Led(m, tables', heap') /\ FromFile(tables', names)
    BY <1>10, <2>1, <2>12, <2>15, FacsMade
  <2> QED
    BY <1>11, <1>14, <2>2, <2>11, <2>14
<1>15. CASE Find("FACS") = 0
  <2> HIDE DEF k, fadt
  <2>1. ~Starves
    BY DEF Starves
  <2>2. CASE given # 0
    <3>1. AddAs("FACS", [sig |-> "FACS"], given, "fixup") /\ Goto("fixAddrs") /\ fakes' = fakes
      BY <1>5, <1>15, <2>1, <2>2 DEF FixFacs, MadeUp, Add
    <3> QED
      BY <1>13, <1>15, <2>2, <3>1
  <2>3. CASE given = 0
    <3> DEFINE c == tables[k].data
               r == [table |-> [sig |-> "FACS"], live |-> ~Duplicate(tables, FakeAddr)]
               fadt2 == IF fadt.len = "long" THEN [fadt EXCEPT !.facs64 = FakeAddr]
                                             ELSE [fadt EXCEPT !.facs32 = FakeAddr]
    <3>1. heap[c].table = fadt
      BY <1>8
    <3>2. /\ tables' = AddTable(tables, "FACS", Len(heap) + 1, FakeAddr, "fixup")
          /\ heap' = Append(
                      [heap EXCEPT ![c].table =
                         IF fadt.len = "long" THEN [@ EXCEPT !.facs64 = FakeAddr]
                                              ELSE [@ EXCEPT !.facs32 = FakeAddr]],
                      r)
          /\ Goto("fixAddrs") /\ fakes' = fakes + 1
      BY <1>5, <1>15, <2>1, <2>3 DEF FixFacs
    <3>3. heap' = Append([heap EXCEPT ![c].table = fadt2], r)
      BY <3>1, <3>2
    <3>4. r.table = [sig |-> "FACS"]
      OBVIOUS
    <3> HIDE DEF r, c, fadt2
    <3> QED
      BY <1>14, <1>15, <2>3, <3>2, <3>3, <3>4 DEF c, fadt2
  <2> QED
    BY <2>2, <2>3
<1> QED
  BY <1>12, <1>15

-----------------------------------------------------------------------------
(* FACS and DSDT are moved to where the FADT has them. *)

MovedBy(ts, k, addr, new) ==
  /\ DOMAIN new = DOMAIN ts
  /\ \A i \in DOMAIN ts :
       /\ new[i].name = ts[i].name /\ new[i].which = ts[i].which
       /\ new[i].data = ts[i].data /\ new[i].from = ts[i].from
       /\ i # k \/ addr = 0 => new[i].addr = ts[i].addr
       /\ i = k /\ addr # 0 => new[i].addr = addr

LEMMA MovedOne ==
  ASSUME NEW ts, NEW hp, Shape(ts, hp), NEW name, NEW addr32, NEW addr64, 0 \notin DOMAIN ts
  PROVE  MovedBy(ts, FindIn(tables, name), Wanted(addr32, addr64), Moved(ts, name, addr32, addr64))
<1> DEFINE k == FindIn(tables, name)
           addr == Wanted(addr32, addr64)
           new == Moved(ts, name, addr32, addr64)
<1>1. Find(name) = k
  BY FindAgrees
<1> HIDE DEF k
<1>2. new = IF k = 0 \/ addr = 0 THEN ts ELSE [ts EXCEPT ![k].addr = addr]
  BY <1>1 DEF Moved, Wanted
<1>3. \A i \in DOMAIN ts : DOMAIN ts[i] = Fields
  BY DEF Shape
<1> HIDE DEF addr, new
<1>4. ASSUME k = 0 \/ addr = 0 PROVE MovedBy(ts, k, addr, new)
  <2>1. new = ts
    BY <1>2, <1>4
  <2>2. \A i \in DOMAIN ts : i = k => addr = 0
    BY <1>4
  <2> QED
    BY <2>1, <2>2 DEF MovedBy
<1>5. ASSUME ~(k = 0 \/ addr = 0) PROVE MovedBy(ts, k, addr, new)
  <2>1. new = [ts EXCEPT ![k].addr = addr]
    BY <1>2, <1>5
  <2>2. DOMAIN new = DOMAIN ts /\ \A i \in DOMAIN ts : i # k => new[i] = ts[i]
    BY <2>1
  <2>3. k \in DOMAIN ts => new[k] = [ts[k] EXCEPT !.addr = addr]
    BY <2>1
  <2>4. k \in DOMAIN ts => /\ new[k].name = ts[k].name /\ new[k].which = ts[k].which
                           /\ new[k].data = ts[k].data /\ new[k].from = ts[k].from
                           /\ new[k].addr = addr
    BY <1>3, <2>3 DEF Fields
  <2>5. \A i \in DOMAIN ts : i # k => new[i] = ts[i]
    BY <2>2
  <2>6. addr # 0
    BY <1>5
  <2> QED
    BY <2>2, <2>4, <2>5, <2>6 DEF MovedBy
<1> QED
  BY <1>4, <1>5 DEF k, addr, new

LEMMA FixAddrsHolds ==
  ASSUME IInv, Stack, Filing, Tidy(machine), Here, FixAddrs
  PROVE  (Filing' => Here') /\ ~FilesDone'
<1> DEFINE m == machine
           ts == tables
           new == tables'
           fadt == TableIn(tables, heap, "FACP")
           facs == FindIn(tables, "FACS")
           dsdt == FindIn(tables, "DSDT")
           a == FacsWanted(fadt)
           b == DsdtWanted(fadt)
           mid == Moved(tables, "FACS", fadt.facs32, fadt.facs64)
           names == {"RSDT", "XSDT", "RSDP"}
<1>1. /\ Top = frames[1] /\ DOMAIN Top = FrameFields /\ m \in Machines /\ m' = m
      /\ Top.at = "fixAddrs" /\ fakes' = fakes /\ heap' = heap
      /\ \A f : Go(f) => frames'[1] = f /\ frames' # <<>>
  BY OnlyFrame DEF FixAddrs, At, Step
<1>2. /\ Base(m, ts, heap, fakes) /\ Led(m, ts, heap) /\ FromFile(ts, names)
      /\ fakes <= Len(m.files) + 1
  BY <1>1 DEF Here, Phase
<1>3. fakes \in Nat /\ Shape(ts, heap) /\ Sited(m, ts, fakes) /\ AllWorded(ts, heap)
  BY <1>1, <1>2 DEF Base, IInv
<1>4. "FACP" \in TableNames /\ "FACS" \in TableNames /\ "DSDT" \in TableNames
  BY DEF TableNames
<1>5. 0 \notin DOMAIN ts
  BY <1>3, AppendFacts DEF Shape
<1>6. frames'[1].at = "fixRsdt" /\ frames' # <<>>
  BY <1>1 DEF FixAddrs, Goto, FrameFields
<1>7. new = Moved(mid, "DSDT", fadt.dsdt32, fadt.dsdt64)
  BY FindAgrees DEF FixAddrs
<1> HIDE DEF fadt
<1>8. MovedBy(ts, facs, a, mid) /\ Shape(mid, heap)
  BY <1>3, <1>5, MovedOne, MovedShape DEF FacsWanted
<1> HIDE DEF mid
<1>9. MovedBy(mid, dsdt, b, new)
  <2>1. 0 \notin DOMAIN mid
    BY <1>5, <1>8 DEF MovedBy
  <2> QED
    BY <1>7, <1>8, <2>1, MovedOne DEF DsdtWanted
<1> HIDE DEF facs, dsdt, a, b
<1>10. /\ facs \in DOMAIN ts /\ ts[facs].name = "FACS"
       /\ dsdt # 0 => dsdt \in DOMAIN ts /\ ts[dsdt].name = "DSDT"
       /\ FindIn(ts, "FACP") # 0
       /\ a \in {0, ts[facs].addr} \union FacsPlaces(m)
       /\ b \in {0} \union DsdtPlaces(m)
       /\ ts[facs].from = "fixup" => a # 0
  BY <1>2, <1>3, <1>4, FindFacts DEF Led, facs, dsdt, a, b, fadt
<1>11. /\ DOMAIN new = DOMAIN ts
       /\ \A i \in DOMAIN ts :
            /\ new[i].name = ts[i].name /\ new[i].which = ts[i].which
            /\ new[i].data = ts[i].data /\ new[i].from = ts[i].from
            /\ \/ new[i].addr = ts[i].addr
               \/ new[i].name = "FACS" /\ new[i].addr \in FacsPlaces(m)
               \/ new[i].name = "DSDT" /\ new[i].addr \in DsdtPlaces(m)
       /\ a # 0 => new[facs].addr = a
       /\ dsdt # 0 /\ b # 0 => new[dsdt].addr = b
  BY <1>5, <1>8, <1>9, <1>10 DEF MovedBy
<1>12. \A name : FindIn(new, name) = FindIn(ts, name)
  BY <1>11, FindKept
<1>13. AllWorded(new, heap)
  BY <1>3, <1>11 DEF AllWorded
<1>14. \A i \in DOMAIN new : SiteOK(m, fakes, new[i].name, new[i].addr)
  <2> SUFFICES ASSUME NEW i \in DOMAIN new PROVE SiteOK(m, fakes, new[i].name, new[i].addr)
    OBVIOUS
  <2>1. SiteOK(m, fakes, ts[i].name, ts[i].addr)
    BY <1>3, <1>11 DEF Sited
  <2>2. /\ \A x \in FacsPlaces(m) : SiteOK(m, fakes, "FACS", x)
        /\ \A x \in DsdtPlaces(m) : SiteOK(m, fakes, "DSDT", x)
    BY <1>1, <1>3, FadtSite
  <2> QED
    BY <1>11, <2>1, <2>2
<1>15. \A i, j \in DOMAIN new : new[i].addr = new[j].addr => new[i].name = new[j].name
  <2>1. \A i \in DOMAIN new : /\ new[i].addr \in FacsPlaces(m) => new[i].name = "FACS"
                              /\ new[i].addr \in DsdtPlaces(m) => new[i].name = "DSDT"
    BY <1>14 DEF SiteOK
  <2>2. \A i, j \in DOMAIN ts : ts[i].addr = ts[j].addr => ts[i].name = ts[j].name
    BY <1>3 DEF Sited
  <2> QED
    BY <1>11, <2>1, <2>2
<1>16. Base(m, new, heap, fakes)
  BY <1>3, <1>13, <1>14, <1>15 DEF Base, Sited
<1>17. Served(new, heap)
  <2>1. FindIn(ts, "FACP") \in DOMAIN ts
    BY <1>3, <1>4, <1>10, FindFacts
  <2>2. TableIn(new, heap, "FACP") = fadt
    BY <1>11, <1>12, <2>1 DEF TableIn, fadt
  <2>3. FindIn(new, "FACS") = facs /\ FindIn(new, "DSDT") = dsdt /\ facs # 0 /\ FindIn(new, "FACP") # 0
    BY <1>5, <1>10, <1>12 DEF facs, dsdt
  <2> QED
    BY <1>10, <1>11, <2>2, <2>3 DEF Served, a, b
<1>18. FromFile(new, names)
  BY <1>2, <1>11 DEF FromFile
<1> QED
  BY <1>1, <1>2, <1>6, <1>16, <1>17, <1>18 DEF Here, Phase, FilesDone

-----------------------------------------------------------------------------
(* A RSDT and a XSDT are found or made. *)

LEMMA FixableAll ==
  ASSUME Shape(tables, heap), NEW i \in DOMAIN tables,
         Content(tables[i].data).sig \notin {"RSDT", "XSDT"}
  PROVE  \E k \in DOMAIN Fixable : Fixable[k] = tables[i]
<1> DEFINE kept == {j \in DOMAIN tables : Content(tables[j].data).sig \notin {"RSDT", "XSDT"}}
           UpTo(x) == {j \in kept : j <= x}
           Nth(k) == CHOOSE x \in kept : Cardinality(UpTo(x)) = k
           n == Cardinality(UpTo(i))
<1>1. Fixable = [k \in 1 .. Cardinality(kept) |-> tables[Nth(k)]]
  BY DEF Fixable
<1>2. Len(tables) \in Nat /\ DOMAIN tables = 1 .. Len(tables)
  BY AppendFacts DEF Shape
<1>3. IsFiniteSet(kept) /\ kept \subseteq Nat /\ i \in kept
  <2>1. IsFiniteSet(1 .. Len(tables))
    BY <1>2, FS_Interval
  <2>2. kept \subseteq 1 .. Len(tables)
    BY <1>2
  <2> QED
    BY <2>1, <2>2, FS_Subset
<1> HIDE DEF kept
<1>11. \A j \in kept : j \in Nat
  BY <1>3
<1>12. \A j, x : j \in UpTo(x) <=> j \in kept /\ j <= x
  OBVIOUS
<1>13. \A x : UpTo(x) \subseteq kept
  OBVIOUS
<1> HIDE DEF UpTo
<1>4. \A x : IsFiniteSet(UpTo(x)) /\ Cardinality(UpTo(x)) \in Nat
             /\ Cardinality(UpTo(x)) <= Cardinality(kept)
  BY <1>3, <1>13, FS_Subset, FS_CardinalityType
<1>5. ASSUME NEW x \in kept, NEW y \in kept, x < y
      PROVE  Cardinality(UpTo(x)) # Cardinality(UpTo(y))
  <2>1. UpTo(x) \subseteq UpTo(y) /\ y \in UpTo(y) /\ y \notin UpTo(x)
    <3>1. x \in Nat /\ y \in Nat /\ x < y
      BY <1>5, <1>11
    <3>2. \A j \in Nat : j <= x => j <= y
      BY <3>1
    <3>3. y <= y /\ ~(y <= x)
      BY <3>1
    <3> QED
      BY <1>11, <1>12, <3>2, <3>3
  <2>2. UpTo(x) # UpTo(y)
    BY <2>1
  <2> QED
    BY <1>4, <2>1, <2>2, FS_Subset
<1>6. i \in UpTo(i)
  <2>1. i \in Nat
    BY <1>3
  <2>2. i <= i
    BY <2>1
  <2> QED
    BY <1>3, <1>12, <2>2
<1>7. \A x \in kept : Cardinality(UpTo(x)) = n => x = i
  <2> SUFFICES ASSUME NEW x \in kept, Cardinality(UpTo(x)) = n, x # i PROVE FALSE
    OBVIOUS
  <2>1. x < i \/ i < x
    <3>1. x \in Nat /\ i \in Nat
      BY <1>3
    <3> HIDE DEF n
    <3> QED
      BY <3>1
  <2> QED
    BY <1>3, <1>5, <2>1
<1>8. n # 0
  BY <1>4, <1>6, FS_EmptySet
<1>9. n \in 1 .. Cardinality(kept)
  <2>1. Cardinality(kept) \in Nat
    BY <1>3, FS_CardinalityType
  <2> QED
    BY <1>4, <1>8, <2>1
<1>10. Nth(n) = i
  BY <1>3, <1>7
<1> HIDE DEF n, Nth
<1> QED
  BY <1>1, <1>9, <1>10

LEMMA DirectoryLists ==
  ASSUME Shape(tables, heap), AllWorded(tables, heap), NEW i \in DOMAIN tables,
         tables[i].name \notin {"RSDT", "XSDT"}, tables[i].addr \in Nat, NEW name \in {"RSDT", "XSDT"}
  PROVE  \/ tables[i].addr \in Range(Directory(name).list)
         \/ name = "RSDT" /\ tables[i].addr >= Limit32
<1> DEFINE list == [k \in DOMAIN Fixable |-> IF name = "RSDT" THEN Fixable[k].addr % Limit32
                                                              ELSE Fixable[k].addr]
<1>1. Content(tables[i].data).sig \notin {"RSDT", "XSDT"}
  BY DEF AllWorded, Worded, Content
<1>2. PICK k \in DOMAIN Fixable : Fixable[k] = tables[i]
  BY <1>1, FixableAll
<1>3. name = "RSDT" /\ tables[i].addr < Limit32 => tables[i].addr % Limit32 = tables[i].addr
  BY AcpiTablesAssumption
<1>4. Directory(name).list = list
  BY DEF Directory
<1>5. list[k] \in Range(list)
  BY <1>2 DEF Range
<1>6. list[k] = IF name = "RSDT" THEN tables[i].addr % Limit32 ELSE tables[i].addr
  BY <1>2
<1> HIDE DEF list
<1>7. CASE name = "RSDT" /\ ~(tables[i].addr < Limit32)
  <2>1. tables[i].addr >= Limit32
    BY <1>7, AcpiTablesAssumption
  <2> QED
    BY <1>7, <2>1
<1> QED
  BY <1>3, <1>4, <1>5, <1>6, <1>7

\* What a table that is added does not disturb.
LEMMA KeepsGrown ==
  ASSUME NEW ts, NEW hp, Shape(ts, hp), NEW name, NEW addr, NEW from, NEW r, NEW new, NEW hp2,
         GrownBy(ts, hp, name, addr, from, r, new, hp2),
         name \in {"RSDT", "XSDT"} \/ (name = "RSDP" /\ from = "fixup"), NEW other \in TableNames, NEW names
  PROVE  /\ Served(ts, hp) => Served(new, hp2)
         /\ Listing(ts, hp, other) => Listing(new, hp2, other)
         /\ ToBeListed(new) = ToBeListed(ts)
         /\ FromFile(ts, names) /\ name \notin names => FromFile(new, names)
         /\ FindIn(ts, other) # 0 => FindIn(new, other) = FindIn(ts, other) /\ FindIn(ts, other) \in DOMAIN ts
                                     /\ new[FindIn(ts, other)] = ts[FindIn(ts, other)]
<1>1. "FACP" \in TableNames /\ "FACS" \in TableNames /\ "DSDT" \in TableNames
  BY DEF TableNames
<1>2. \A i \in DOMAIN new : i = Slot(ts) \/ (i \in DOMAIN ts /\ new[i] = ts[i])
  BY DEF GrownBy
<1>3. /\ DOMAIN ts \subseteq DOMAIN new /\ Slot(ts) \notin DOMAIN ts
      /\ \A i \in DOMAIN ts : new[i] = ts[i] /\ hp2[new[i].data].table = hp[ts[i].data].table
      /\ new[Slot(ts)].name = name /\ new[Slot(ts)].from = from
  BY DEF GrownBy
<1>4. \A k \in TableNames : FindIn(ts, k) # 0 => FindIn(ts, k) \in DOMAIN ts
  BY FindFacts
<1>5. \A k \in TableNames : k # name \/ FindIn(ts, k) # 0 => FindIn(new, k) = FindIn(ts, k)
  BY DEF GrownBy
<1>6. name # "DSDT"
  OBVIOUS
<1>7. ToBeListed(new) = ToBeListed(ts)
  <2>1. {j \in DOMAIN new : new[j].name \notin {"RSDT", "XSDT"} /\ ~MadeRsdp(new[j])}
          = {j \in DOMAIN ts : ts[j].name \notin {"RSDT", "XSDT"} /\ ~MadeRsdp(ts[j])}
    BY <1>2, <1>3 DEF MadeRsdp
  <2> QED
    BY <1>3, <2>1 DEF ToBeListed
<1>8. ASSUME Served(ts, hp) PROVE Served(new, hp2)
  <2>1. /\ FindIn(ts, "FACP") # 0 /\ FindIn(ts, "FACS") # 0
        /\ FindIn(new, "FACP") = FindIn(ts, "FACP") /\ FindIn(new, "FACS") = FindIn(ts, "FACS")
        /\ FindIn(new, "DSDT") = FindIn(ts, "DSDT")
        /\ FindIn(ts, "FACP") \in DOMAIN ts /\ FindIn(ts, "FACS") \in DOMAIN ts
        /\ FindIn(ts, "DSDT") # 0 => FindIn(ts, "DSDT") \in DOMAIN ts
    BY <1>1, <1>4, <1>5, <1>6, <1>8 DEF Served
  <2>2. TableIn(new, hp2, "FACP") = TableIn(ts, hp, "FACP")
    BY <1>3, <2>1 DEF TableIn
  <2> QED
    BY <1>3, <1>8, <2>1, <2>2 DEF Served
<1>9. ASSUME FindIn(ts, other) # 0
      PROVE  FindIn(new, other) = FindIn(ts, other) /\ FindIn(ts, other) \in DOMAIN ts
             /\ new[FindIn(ts, other)] = ts[FindIn(ts, other)]
  BY <1>3, <1>4, <1>5, <1>9
<1>10. ASSUME Listing(ts, hp, other) PROVE Listing(new, hp2, other)
  <2>1. FindIn(ts, other) # 0
    BY <1>10 DEF Listing
  <2> QED
    BY <1>3, <1>7, <1>9, <1>10, <2>1 DEF Listing
<1>11. FromFile(ts, names) /\ name \notin names => FromFile(new, names)
  BY <1>2, <1>3 DEF FromFile
<1> QED
  BY <1>7, <1>8, <1>9, <1>10, <1>11

\* The two are made one after the other.
Turn(name, place, next) ==
  \/ name = "RSDT" /\ place = "fixRsdt" /\ next = "fixXsdt"
  \/ name = "XSDT" /\ place = "fixXsdt" /\ next = "fixRsdp"

LEMMA FixDirectoryHolds ==
  ASSUME IInv, Stack, Filing, Tidy(machine), Here, starved' = FALSE, Len(tables') < MaxTables,
         NEW name, NEW place, NEW next, FixDirectory(name, place, next), FixRsdt \/ FixXsdt,
         Turn(name, place, next)
  PROVE  (Filing' => Here') /\ ~FilesDone'
<1>0. \/ name = "RSDT" /\ place = "fixRsdt" /\ next = "fixXsdt"
      \/ name = "XSDT" /\ place = "fixXsdt" /\ next = "fixRsdp"
  BY DEF Turn
<1> USE <1>0
<1> DEFINE m == machine
           n == Len(m.files)
           names == IF name = "RSDT" THEN {"XSDT", "RSDP"} ELSE {"RSDP"}
           more == IF name = "RSDT" THEN 2 ELSE 3
           k == FindIn(tables, name)
           k2 == FindIn(tables', name)
<1>1. /\ Top = frames[1] /\ DOMAIN Top = FrameFields /\ m \in Machines /\ m' = m
      /\ Top.at = place
      /\ \A f : Go(f) => frames'[1] = f /\ frames' # <<>>
  BY OnlyFrame DEF FixDirectory, At, Step
<1>2. Shape(tables, heap) /\ n \in Nat
  BY <1>1, FileFacts DEF IInv
<1>3. /\ Base(m, tables, heap, fakes) /\ Served(tables, heap)
      /\ FromFile(tables, {name} \union names) /\ fakes <= n + more - 1
      /\ name = "XSDT" => Listing(tables, heap, "RSDT") /\ Top.RSDT = tables[FindIn(tables, "RSDT")].addr
  <2>1. CASE name = "RSDT"
    <3>1. FromFile(tables, {"RSDT", "XSDT", "RSDP"}) /\ {"RSDT", "XSDT", "RSDP"} = {name} \union names
      BY <1>1, <2>1 DEF Here, Phase
    <3>2. /\ Base(m, tables, heap, fakes) /\ Served(tables, heap) /\ fakes <= n + 1
      BY <1>1, <2>1 DEF Here, Phase
    <3>3. more = 2 /\ n + more - 1 = n + 1
      BY <1>2, <2>1
    <3> QED
      BY <2>1, <3>1, <3>2, <3>3
  <2>2. CASE name = "XSDT"
    <3>1. FromFile(tables, {"XSDT", "RSDP"}) /\ {"XSDT", "RSDP"} = {name} \union names
      BY <1>1, <2>2 DEF Here, Phase
    <3>2. /\ Base(m, tables, heap, fakes) /\ Served(tables, heap) /\ fakes <= n + 2
          /\ Listing(tables, heap, "RSDT") /\ Top.RSDT = tables[FindIn(tables, "RSDT")].addr
      BY <1>1, <2>2 DEF Here, Phase
    <3>3. more = 3 /\ n + more - 1 = n + 2
      BY <1>2, <2>2
    <3> QED
      BY <2>2, <3>1, <3>2, <3>3
  <2> QED
    BY <2>1, <2>2
<1>11. more \in {2, 3}
  OBVIOUS
<1>4. /\ Sited(m, tables, fakes) /\ AllWorded(tables, heap) /\ fakes \in Nat
      /\ \A i \in DOMAIN tables : tables[i].addr \in Nat
  BY <1>3 DEF Base, Sited, SiteOK
<1>5. name \in TableNames /\ "RSDT" \in TableNames /\ Find(name) = k /\ name \in {"RSDT", "XSDT"}
  BY FindAgrees DEF TableNames
<1>6. ASSUME NEW f, Go(f), f.at = next, f[name] = tables'[k2].addr, f.RSDT = Top.RSDT \/ name = "RSDT",
             Base(m, tables', heap', fakes'), fakes' <= n + more, Served(tables', heap'),
             Listing(tables', heap', name), FromFile(tables', names),
             name = "XSDT" => /\ Listing(tables', heap', "RSDT")
                              /\ tables'[FindIn(tables', "RSDT")].addr = tables[FindIn(tables, "RSDT")].addr
      PROVE  (Filing' => Here') /\ ~FilesDone'
  <2>1. frames'[1] = f /\ frames' # <<>>
    BY <1>1, <1>6
  <2>2. CASE name = "RSDT"
    <3>1. f.at = "fixXsdt" /\ f.RSDT = tables'[FindIn(tables', "RSDT")].addr /\ names = {"XSDT", "RSDP"}
          /\ fakes' <= n + 2
      BY <1>6, <2>2
    <3>2. Phase(f.at, f, m, tables', heap', fakes')
      BY <1>6, <2>2, <3>1 DEF Phase
    <3> QED
      BY <1>1, <2>1, <3>2 DEF Here, FilesDone
  <2>3. CASE name = "XSDT"
    <3>1. /\ f.at = "fixRsdp" /\ f.XSDT = tables'[FindIn(tables', "XSDT")].addr /\ names = {"RSDP"}
          /\ f.RSDT = tables'[FindIn(tables', "RSDT")].addr /\ fakes' <= n + 3
      BY <1>3, <1>6, <2>3
    <3>2. Phase(f.at, f, m, tables', heap', fakes')
      BY <1>6, <2>3, <3>1 DEF Phase
    <3> QED
      BY <1>1, <2>1, <3>2 DEF Here, FilesDone
  <2> QED
    BY <2>2, <2>3
<1>7. CASE Find(name) # 0
  <2> DEFINE f == [Top EXCEPT !.at = next, ![name] = tables[Find(name)].addr]
  <2>1. Go(f) /\ UNCHANGED <<tables, heap, fakes>>
    BY <1>7 DEF FixDirectory
  <2>2. f.at = next /\ f[name] = tables[k].addr /\ (f.RSDT = Top.RSDT \/ name = "RSDT")
    BY <1>1, <1>5 DEF FrameFields
  <2>3. Listing(tables, heap, name)
    <3>1. k \in DOMAIN tables /\ tables[k].name = name
      BY <1>2, <1>5, <1>7, FindFacts
    <3>2. tables[k].from = "file"
      BY <1>3, <3>1 DEF FromFile
    <3> QED
      BY <1>5, <1>7, <3>2 DEF Listing
  <2>4. FromFile(tables, names)
    BY <1>3 DEF FromFile
  <2>5. fakes <= n + more
    <3>1. n \in Nat /\ fakes \in Nat /\ fakes <= n + more - 1 /\ more \in {2, 3}
      BY <1>2, <1>3, <1>4, <1>11
    <3> HIDE DEF n, more
    <3> QED
      BY <3>1
  <2> HIDE DEF f, names, more
  <2> QED
    BY <1>3, <1>6, <2>1, <2>2, <2>3, <2>4, <2>5
<1>8. CASE Find(name) = 0
  <2> DEFINE f == [Top EXCEPT !.at = next, ![name] = FakeAddr]
             t == Directory(name)
  <2>1. AddAs(name, t, FakeAddr, "fixup") /\ fakes' = fakes + 1 /\ Go(f)
    <3>1. ~Starves /\ t.sig = name
      BY DEF Starves, Directory
    <3> QED
      BY <1>8, <3>1 DEF FixDirectory, MadeUp, Add
  <2>2. f.at = next /\ f[name] = FakeAddr /\ (f.RSDT = Top.RSDT \/ name = "RSDT")
    BY <1>1, <1>5 DEF FrameFields
  <2>3. fakes <= n + 3 /\ fakes' <= n + more
    <3>1. n \in Nat /\ fakes \in Nat /\ fakes <= n + more - 1 /\ more \in {2, 3} /\ fakes' = fakes + 1
      BY <1>2, <1>3, <1>4, <1>11, <2>1
    <3> HIDE DEF n, more
    <3> QED
      BY <3>1
  <2>4. SiteOK(m, fakes', name, FakeAddr) /\ FakeAddr \notin Addrs(tables)
    BY <1>1, <1>4, <2>1, <2>3, FakeSite, FakeIsFree DEF FakeAddr
  <2>5. Worded(t, name)
    BY <1>5 DEF Worded, Directory
  <2>6. \A a \in ToBeListed(tables) : a \in Range(t.list) \/ (name = "RSDT" /\ a >= Limit32)
    BY <1>2, <1>4, <1>5, DirectoryLists DEF ToBeListed
  <2> HIDE DEF f, t, names, more
  <2>7. Base(m, tables', heap', fakes') /\ AddedAs(name, t, FakeAddr, "fixup")
    BY <1>3, <2>1, <2>4, <2>5, Adds
  <2>8. PICK r : r.table = t /\ GrownBy(tables, heap, name, FakeAddr, "fixup", r, tables', heap')
    BY <2>4, <2>7 DEF AddedAs
  <2>9. k2 = Slot(tables)
    BY <1>5, <1>8, <2>8 DEF GrownBy
  <2>10. tables'[k2].addr = FakeAddr /\ heap'[tables'[k2].data].table = t
    BY <2>8, <2>9 DEF GrownBy
  <2>11. k2 # 0
    BY <1>2, <2>9, AppendFacts DEF Slot, Shape
  <2>12. /\ Served(tables', heap') /\ ToBeListed(tables') = ToBeListed(tables)
         /\ Listing(tables, heap, "RSDT") => Listing(tables', heap', "RSDT")
    BY <1>2, <1>3, <1>5, <2>8, KeepsGrown
  <2>13. FromFile(tables', names)
    <3>1. FromFile(tables, names) /\ name \notin names
      BY <1>3, <1>5 DEF FromFile, names
    <3> QED
      BY <1>2, <1>5, <2>8, <3>1, KeepsGrown
  <2>14. name = "XSDT" => tables'[FindIn(tables', "RSDT")].addr = tables[FindIn(tables, "RSDT")].addr
    <3>1. name = "XSDT" => FindIn(tables, "RSDT") # 0
      BY <1>3 DEF Listing
    <3> QED
      BY <1>2, <1>5, <2>8, <3>1, KeepsGrown
  <2>15. Listing(tables', heap', name)
    BY <2>6, <2>10, <2>11, <2>12 DEF Listing
  <2> HIDE DEF k2
  <2> QED
    BY <1>3, <1>6, <2>1, <2>2, <2>3, <2>7, <2>10, <2>12, <2>13, <2>14, <2>15
<1> QED
  BY <1>7, <1>8

-----------------------------------------------------------------------------
(* The RSDP, and the end. *)

LEMMA PointedFacts ==
  ASSUME NEW old, {"sig", "rev", "len", "rsdt", "xsdt"} \subseteq DOMAIN old
  PROVE  LET rsdp == Pointed(old)
         IN  /\ rsdp.sig = old.sig /\ rsdp.rev = old.rev /\ rsdp.len = old.len /\ DOMAIN rsdp = DOMAIN old
             /\ machine.arm \/ rsdp.rsdt = Top.RSDT % Limit32
             /\ Extended(rsdp) => rsdp.xsdt = Top.XSDT
  BY DEF Pointed, Extended

\* The RSDP in copy k is replaced: nothing else that matters is.
LEMMA KeepsRewritten ==
  ASSUME NEW m, NEW ts, NEW hp, Shape(ts, hp), NEW k, k = FindIn(ts, "RSDP"), k # 0, NEW t, NEW new,
         RewrittenAs(ts, hp, k, t, new), Worded(t, "RSDP"), NEW fk
  PROVE  /\ Base(m, ts, hp, fk) => Base(m, ts, new, fk)
         /\ Served(ts, hp) => Served(ts, new)
         /\ \A name \in {"RSDT", "XSDT"} : Listing(ts, hp, name) => Listing(ts, new, name)
         /\ TableIn(ts, new, "RSDP") = t
<1>1. {"RSDP", "FACP", "RSDT", "XSDT"} \subseteq TableNames
  BY DEF TableNames
<1>2. k \in DOMAIN ts /\ ts[k].name = "RSDP"
  BY <1>1, FindFacts
<1>3. ASSUME NEW name \in TableNames, name # "RSDP", FindIn(ts, name) # 0
      PROVE  new[ts[FindIn(ts, name)].data] = hp[ts[FindIn(ts, name)].data]
  <2>1. FindIn(ts, name) \in DOMAIN ts /\ ts[FindIn(ts, name)].name = name
    BY <1>3, FindFacts
  <2>2. FindIn(ts, name) # k
    BY <1>2, <1>3, <2>1
  <2> QED
    BY <2>1, <2>2 DEF RewrittenAs
<1>4. ASSUME AllWorded(ts, hp) PROVE AllWorded(ts, new)
  BY <1>2, <1>4 DEF AllWorded, RewrittenAs
<1>5. Base(m, ts, hp, fk) => Base(m, ts, new, fk)
  BY <1>4 DEF Base
<1>6. ASSUME Served(ts, hp) PROVE Served(ts, new)
  <2>1. TableIn(ts, new, "FACP") = TableIn(ts, hp, "FACP")
    BY <1>1, <1>3, <1>6 DEF Served, TableIn
  <2> QED
    BY <1>6, <2>1 DEF Served
<1>7. ASSUME NEW name \in {"RSDT", "XSDT"}, Listing(ts, hp, name) PROVE Listing(ts, new, name)
  <2>1. FindIn(ts, name) # 0 /\ name \in TableNames
    BY <1>1, <1>7 DEF Listing
  <2>2. new[ts[FindIn(ts, name)].data] = hp[ts[FindIn(ts, name)].data]
    BY <1>3, <2>1
  <2> QED
    BY <1>7, <2>2 DEF Listing
<1>8. TableIn(ts, new, "RSDP") = t
  BY DEF RewrittenAs, TableIn
<1> QED
  BY <1>5, <1>6, <1>7, <1>8

LEMMA FixRsdpHolds ==
  ASSUME IInv, Stack, Filing, Tidy(machine), Here, FixRsdp, starved' = FALSE, Len(tables') < MaxTables
  PROVE  ~Filing' /\ Phase("done", FALSE, machine', tables', heap', fakes')
<1> DEFINE m == machine
           n == Len(m.files)
           k == FindIn(tables, "RSDP")
           d == FindIn(tables, "RSDT")
           x == FindIn(tables, "XSDT")
<1>1. /\ Top = frames[1] /\ DOMAIN Top = FrameFields /\ m \in Machines /\ m' = m
      /\ Top.at = "fixRsdp" /\ frames' = <<>>
  BY OnlyFrame DEF FixRsdp, At, Step
<1>2. /\ Base(m, tables, heap, fakes) /\ Served(tables, heap) /\ FromFile(tables, {"RSDP"})
      /\ Listing(tables, heap, "RSDT") /\ Listing(tables, heap, "XSDT") /\ fakes <= n + 3
      /\ Top.RSDT = tables[d].addr /\ Top.XSDT = tables[x].addr
  BY <1>1 DEF Here, Phase
<1>3. Shape(tables, heap) /\ Sited(m, tables, fakes) /\ AllWorded(tables, heap) /\ fakes \in Nat
  BY <1>2 DEF IInv, Base
<1>4. /\ "RSDP" \in TableNames /\ "RSDT" \in TableNames /\ "XSDT" \in TableNames
      /\ Find("RSDP") = k /\ d # 0 /\ x # 0
  BY <1>2, FindAgrees DEF TableNames, Listing
<1>5. ~Filing'
  BY <1>1 DEF Filing
<1>6. Top.RSDT % Limit32 = Top.RSDT
  <2>1. d \in DOMAIN tables /\ tables[d].name = "RSDT"
    BY <1>3, <1>4, FindFacts
  <2>2. Top.RSDT \in Nat /\ Top.RSDT < Limit32
    BY <1>2, <1>3, <2>1 DEF Sited, SiteOK
  <2> HIDE DEF d
  <2> QED
    BY <2>2, AcpiTablesAssumption
<1>7. \A i \in DOMAIN tables : ~MadeRsdp(tables[i])
  BY <1>2 DEF FromFile, MadeRsdp
<1>8. ~Starves
  BY DEF Starves
<1>9. CASE Find("RSDP") # 0
  <2>1. PICK c : c = tables[k].data
    OBVIOUS
  <2> DEFINE old == heap[c].table
             t == Pointed(old)
  <2>2. k \in DOMAIN tables /\ Worded(old, "RSDP")
    <3>1. k \in DOMAIN tables /\ tables[k].name = "RSDP"
      BY <1>3, <1>4, <1>9, FindFacts
    <3> QED
      BY <1>3, <2>1, <3>1 DEF AllWorded
  <2>3. tables' = tables /\ fakes' = fakes /\ heap' = [heap EXCEPT ![c].table = t]
    BY <1>4, <1>9, <2>1 DEF FixRsdp
  <2>4. RewrittenAs(tables, heap, k, t, [heap EXCEPT ![c].table = t])
    <3>1. Shape(tables, heap) /\ k \in DOMAIN tables /\ c = tables[k].data
      BY <1>3, <2>1, <2>2
    <3> HIDE DEF k, t
    <3> QED
      BY <3>1, Rewritten, Zenon
  <2>5. RewrittenAs(tables, heap, k, t, heap')
    BY <2>3, <2>4
  <2>6. old.sig = "RSDP" /\ {"sig", "rev", "len", "rsdt", "xsdt"} \subseteq DOMAIN old
    BY <2>2 DEF Worded
  <2>8. /\ t.sig = "RSDP" /\ DOMAIN t = DOMAIN old
        /\ m.arm \/ t.rsdt = Top.RSDT % Limit32
        /\ Extended(t) => t.xsdt = Top.XSDT
    BY <2>6, PointedFacts
  <2>9. Worded(t, "RSDP")
    BY <2>6, <2>8 DEF Worded
  <2> HIDE DEF t, old, k
  <2>10. /\ Base(m, tables, heap', fakes) /\ Served(tables, heap')
         /\ Listing(tables, heap', "RSDT") /\ Listing(tables, heap', "XSDT")
         /\ TableIn(tables, heap', "RSDP") = t
    BY <1>2, <1>3, <1>4, <1>9, <2>5, <2>9, KeepsRewritten DEF k
  <2>11. Rooted(m, tables, heap')
    BY <1>2, <1>4, <1>6, <1>7, <1>9, <2>8, <2>10 DEF Rooted, k
  <2> QED
    BY <1>1, <1>5, <2>3, <2>10, <2>11 DEF Phase
<1>10. CASE Find("RSDP") = 0
  <2> DEFINE old == [sig |-> "RSDP", rev |-> 2, len |-> "long", rsdt |-> 0, xsdt |-> 0]
             t == Pointed(old)
             k2 == FindIn(tables', "RSDP")
  <2>1. /\ t.sig = "RSDP" /\ DOMAIN t = DOMAIN old
        /\ m.arm \/ t.rsdt = Top.RSDT % Limit32
        /\ Extended(t) => t.xsdt = Top.XSDT
    BY PointedFacts
  <2>2. Worded(t, "RSDP")
    BY <2>1 DEF Worded
  <2>3. AddAs("RSDP", t, FakeAddr, "fixup") /\ fakes' = fakes + 1
    BY <1>8, <1>10, <2>1 DEF FixRsdp, MadeUp, Add
  <2>4. SiteOK(m, fakes', "RSDP", FakeAddr) /\ FakeAddr \notin Addrs(tables)
    BY <1>1, <1>2, <1>3, <2>3, FakeSite, FakeIsFree DEF FakeAddr
  <2> HIDE DEF t, old
  <2>5. Base(m, tables', heap', fakes') /\ AddedAs("RSDP", t, FakeAddr, "fixup")
    BY <1>2, <2>2, <2>3, <2>4, Adds
  <2>6. PICK r : r.table = t /\ GrownBy(tables, heap, "RSDP", FakeAddr, "fixup", r, tables', heap')
    BY <2>4, <2>5 DEF AddedAs
  <2>7. k2 = Slot(tables) /\ k2 # 0
    BY <1>3, <1>4, <1>10, <2>6, AppendFacts DEF GrownBy, Slot, Shape
  <2>8. /\ TableIn(tables', heap', "RSDP") = t
        /\ \A i \in DOMAIN tables' : i = k2 \/ (i \in DOMAIN tables /\ tables'[i] = tables[i])
    BY <2>6, <2>7 DEF GrownBy, TableIn
  <2>9. /\ Served(tables', heap') /\ Listing(tables', heap', "RSDT") /\ Listing(tables', heap', "XSDT")
        /\ tables'[FindIn(tables', "RSDT")] = tables[d] /\ tables'[FindIn(tables', "XSDT")] = tables[x]
    BY <1>2, <1>3, <1>4, <2>6, KeepsGrown
  <2>10. \A i \in DOMAIN tables' : MadeRsdp(tables'[i]) => i = k2
    BY <1>7, <2>8
  <2> HIDE DEF k2
  <2>11. Rooted(m, tables', heap')
    BY <1>2, <1>6, <2>1, <2>7, <2>8, <2>9, <2>10 DEF Rooted, k2
  <2> QED
    BY <1>1, <1>5, <2>5, <2>9, <2>11 DEF Phase
<1> QED
  BY <1>9, <1>10

LEMMA NotFiling ==
  ASSUME IInv, Stack, frames # <<>>
  PROVE  /\ frames' = Front(frames) => ~Filing'
         /\ frames' = Append(frames, Frame("begin")) => ~Filing' /\ frames' # <<>>
         /\ \A g : Go(g) => /\ frames' # <<>>
                            /\ Filing' => Len(frames) = 1 /\ Top = frames[1] /\ frames'[1] = g
                                          /\ g.at \in {"files"} \union FromFiles
<1>1. ASSUME frames' = Front(frames), Filing' PROVE FALSE
  <2>1. frames' # <<>>
    BY <1>1 DEF Filing
  <2>2. frames'[1].at = "reduced"
    BY <1>1, <2>1, PopLone
  <2> QED
    BY <1>1, <2>2, Places DEF Filing
<1>2. ASSUME frames' = Append(frames, Frame("begin")) PROVE ~Filing' /\ frames' # <<>>
  <2>1. Len(frames) \in Nat \ {0} /\ Len(frames') = Len(frames) + 1 /\ frames' # <<>>
    BY <1>2, PushLone
  <2>2. Len(frames') # 1
    BY <2>1
  <2> QED
    BY <2>1, <2>2 DEF Filing
<1>3. ASSUME NEW g, Go(g)
      PROVE  /\ frames' # <<>>
             /\ Filing' => Len(frames) = 1 /\ Top = frames[1] /\ frames'[1] = g
                           /\ g.at \in {"files"} \union FromFiles
  <2>1. Len(frames') = Len(frames) /\ frames' # <<>> /\ Top = frames[Len(frames)]
        /\ frames'[Len(frames)] = g
    BY <1>3, GoLone
  <2> QED
    BY <2>1 DEF Filing
<1> QED
  BY <1>1, <1>2, <1>3

LEMMA BeginHolds ==
  ASSUME IInv, Stack, Early, Begin
  PROVE  (Filing' => Here') /\ ~FilesDone'
<1>1. frames # <<>> /\ Top.at = "begin" /\ DOMAIN Top = FrameFields /\ machine \in Machines
      /\ FrameOK(Top, machine, loaded, starved) /\ machine' = machine
      /\ UNCHANGED <<tables, heap, fakes>>
  BY TopFrame DEF Begin, At, Step
<1>2. CASE Return("failed")
  BY <1>1, <1>2, NotFiling DEF Return, FilesDone
<1>3. CASE Goto("files")
  <2> DEFINE g == [Top EXCEPT !.at = "files"]
  <2>1. Go(g) /\ g.at = "files" /\ g.i = Top.i
    BY <1>1, <1>3 DEF Goto, FrameFields
  <2> HIDE DEF g
  <2>2. frames' # <<>>
    BY <1>1, <2>1, NotFiling
  <2> SUFFICES ASSUME Filing' PROVE Here'
    BY <2>2 DEF FilesDone
  <2>3. Len(frames) = 1 /\ Top = frames[1] /\ frames'[1] = g
    BY <1>1, <2>1, NotFiling
  <2>4. Top.i = 1 /\ Top.count = 0
    BY <1>1 DEF FrameOK
  <2>5. tables = <<>> /\ fakes = 0
    BY <1>1, <2>3, <2>4 DEF Early
  <2>6. DOMAIN tables = {}
    BY <2>5
  <2>7. Base(machine, tables, heap, 0) /\ AsInFiles(machine, tables, heap)
    BY <2>6 DEF Base, AllWorded, Sited, AsInFiles
  <2>8. Len(machine.files) \in Nat
    BY <1>1, FileFacts
  <2>9. 0 <= g.i - 1 /\ g.i <= Len(machine.files) + 1
    BY <2>1, <2>4, <2>8
  <2> QED
    BY <1>1, <2>1, <2>3, <2>5, <2>7, <2>9 DEF Here, Phase
<1> QED
  BY <1>2, <1>3 DEF Begin

\* A load from memory that is over has its tables from memory.
LEMMA MemoryEndHolds ==
  ASSUME IInv, Stack, Answered, Followed, Nested, starved = FALSE,
         NoDirectory \/ EndDirectory, frames' = Front(frames), frames' = <<>>
  PROVE  FromFirmware(tables')
<1>1. frames # <<>> /\ Top.at \in {"root", "entries"} /\ UNCHANGED tables
  BY DEF NoDirectory, EndDirectory, At
<1>2. Len(frames) \in Nat /\ Len(frames') = Len(frames) - 1 /\ Len(frames') = 0 /\ Top = frames[Len(frames)]
  BY <1>1, PopLone
<1>3. Len(frames) = 1 /\ Top = frames[1]
  <2>1. Len(frames) = 1
    BY <1>2
  <2> QED
    BY <1>2, <2>1
<1>4. FrameOK(Top, machine, loaded, starved) /\ Top.at \in FromMemory
  BY <1>1, TopFrame DEF FromMemory
<1>5. machine.files = <<>>
  BY <1>4 DEF FrameOK
<1>6. loaded = "not"
  BY <1>1, <1>3, <1>4, <1>5 DEF Nested, NestedOK, FrameOK, Answered
<1>7. Visited(Top, machine, tables)
  BY <1>3, <1>4, <1>6 DEF Followed, Alone
<1> QED
  BY <1>1, <1>7 DEF Visited, Addrs, FromFirmware

LEMMA FilesHolds ==
  ASSUME \A m \in Machines : Tidy(m), IInv, Stack, Answered, Early, Followed, Nested, FilesInv, [Next]_vars
  PROVE  FilesInv'
<1>0. Onward
  BY AlwaysOnward
<1> SUFFICES ASSUME starved' = FALSE, Len(tables') < MaxTables
             PROVE  /\ Filing' => Here'
                    /\ FilesDone' => Phase("done", FALSE, machine', tables', heap', fakes')
  BY DEF FilesInv, Here
<1>1. starved = FALSE /\ machine' = machine /\ Tidy(machine)
  <2>1. machine \in Machines
    BY DEF Stack
  <2> QED
    BY <1>0, <2>1 DEF Onward
<1>2. CASE UNCHANGED <<frames, cacheVars, ended>>
  <2>1. UNCHANGED <<frames, loaded, tables, heap, fakes, ended>> /\ Len(tables) < MaxTables
    BY <1>2 DEF cacheVars
  <2>2. (Filing => Here) /\ (FilesDone => Phase("done", FALSE, machine, tables, heap, fakes))
    BY <1>1, <2>1 DEF FilesInv, Here
  <2> QED
    BY <1>1, <2>1, <2>2 DEF Filing, FilesDone, Here
<1>3. CASE Ask
  <2>1. frames = <<>> /\ UNCHANGED <<cacheVars, ended>>
    BY <1>3 DEF Ask
  <2>2. CASE frames' = <<>>
    BY <1>2, <2>1, <2>2
  <2>3. CASE frames' # <<>>
    <3>1. frames' = <<Frame("begin")>>
      BY <1>3, <2>3 DEF Ask
    <3>2. frames'[1].at = "begin"
      BY <3>1 DEF Frame
    <3> QED
      BY <2>3, <3>2, Places DEF Filing, FilesDone
  <2> QED
    BY <2>2, <2>3
<1>4. CASE Exit
  BY <1>4 DEF Exit, Filing, FilesDone
<1>5. CASE Begin
  BY <1>5, BeginHolds
<1>6. CASE Files \/ Fixup
  <2>1. frames # <<>> /\ Top.at \in {"files"} \union FromFiles
    BY <1>6, FixupFrames DEF Files, LoadFile, EndFiles, At
  <2>2. ASSUME Len(frames) # 1
        PROVE  ~Filing' /\ ~FilesDone'
    <3>1. frames' = Front(frames) \/ \E g : Go(g)
      BY <1>6, FixupFrames DEF Files, LoadFile, EndFiles, Goto, Return
    <3>2. CASE frames' = Front(frames)
      <4>1. Len(frames) \in Nat /\ Len(frames') = Len(frames) - 1
        BY <2>1, <3>2, PopLone
      <4>2. Len(frames') # 0
        BY <2>2, <4>1
      <4>3. frames' # <<>>
        BY <4>2
      <4> QED
        BY <2>1, <3>2, <4>3, NotFiling DEF FilesDone
    <3>3. CASE \E g : Go(g)
      BY <2>1, <2>2, <3>3, NotFiling DEF FilesDone
    <3> QED
      BY <3>1, <3>2, <3>3
  <2>3. ASSUME Len(frames) = 1
        PROVE  Filing /\ Here
    <3>1. Top = frames[1]
      BY <2>1, <2>3, TopFrame
    <3>2. Filing
      BY <2>1, <2>3, <3>1 DEF Filing
    <3>3. Len(tables) < MaxTables
      BY <1>6, RoomBefore
    <3> QED
      BY <1>1, <3>2, <3>3 DEF FilesInv, Here
  <2>4. CASE Len(frames) = 1
    <3>1. CASE LoadFile
      <4>1. \E g : Go(g)
        BY <3>1 DEF LoadFile
      <4>2. ~FilesDone'
        BY <2>1, <4>1, NotFiling DEF FilesDone
      <4> QED
        BY <1>1, <2>3, <2>4, <3>1, <4>2, LoadFileHolds
    <3>2. CASE EndFiles
      <4>1. loaded' = "failed" \/ \E g : Go(g)
        BY <3>2 DEF EndFiles, Goto, Return
      <4>2. ~FilesDone'
        BY <2>1, <4>1, NotFiling DEF FilesDone
      <4> QED
        BY <2>3, <2>4, <3>2, <4>2, EndFilesHolds
    <3>3. CASE FixFacs
      BY <1>1, <2>3, <2>4, <3>3, FixFacsHolds
    <3>4. CASE FixAddrs
      BY <1>1, <2>3, <2>4, <3>4, FixAddrsHolds
    <3>5. CASE FixRsdt
      <4>1. FixDirectory("RSDT", "fixRsdt", "fixXsdt")
        BY <3>5 DEF FixRsdt
      <4>2. FixRsdt \/ FixXsdt
        BY <3>5
      <4>3. Turn("RSDT", "fixRsdt", "fixXsdt")
        BY DEF Turn
      <4> QED
        BY <1>1, <2>3, <2>4, <4>1, <4>2, <4>3, FixDirectoryHolds
    <3>6. CASE FixXsdt
      <4>1. FixDirectory("XSDT", "fixXsdt", "fixRsdp")
        BY <3>6 DEF FixXsdt
      <4>2. FixRsdt \/ FixXsdt
        BY <3>6
      <4>3. Turn("XSDT", "fixXsdt", "fixRsdp")
        BY DEF Turn
      <4> QED
        BY <1>1, <2>3, <2>4, <4>1, <4>2, <4>3, FixDirectoryHolds
    <3>7. CASE FixRsdp
      BY <1>1, <2>3, <2>4, <3>7, FixRsdpHolds
    <3> QED
      BY <1>6, <3>1, <3>2, <3>3, <3>4, <3>5, <3>6, <3>7 DEF Files, Fixup
  <2> QED
    BY <2>2, <2>4
<1>7. CASE Firmware
  <2>1. frames # <<>> /\ Top.at \in FromMemory \union {"rsdp"}
    BY <1>7, FirmwareFrames
  <2>2. CASE ReadFreed
    <3>1. ended' = "crash" /\ frames' = frames
      BY <2>2 DEF ReadFreed, Crash
    <3>2. ~Filing
      BY <2>1, TopFrame, Places DEF Filing
    <3> QED
      BY <3>1, <3>2 DEF Filing, FilesDone
  <2>3. ASSUME NEW g, Go(g), g.at \in FromMemory
        PROVE  ~Filing' /\ ~FilesDone'
    BY <2>1, <2>3, NotFiling, Places DEF FilesDone
  <2>4. CASE frames' = Append(frames, Frame("begin"))
    BY <2>1, <2>4, NotFiling DEF FilesDone
  <2>5. CASE frames' = Front(frames) /\ loaded' # "ok"
    BY <2>1, <2>5, NotFiling DEF FilesDone
  <2>6. CASE frames' = Front(frames) /\ loaded' = "ok"
    <3>1. ReadFreed \/ AskReduced \/ (NoDirectory \/ EndDirectory) \/ \E g : Go(g)
      BY <1>7, <2>6 DEF Firmware, NoRsdp, FadtFails, AnswerNotReduced, Fail, Return,
           GetRsdp, GetDirectory, GetEntry, NoEntry, GetFacs, NoFacs, GetDsdt, AfterFadt,
           AnswerReduced, Goto
    <3>2. AskReduced => frames' = Append(frames, Frame("begin"))
      BY DEF AskReduced
    <3> QED
      BY <1>1, <2>1, <2>2, <2>4, <2>6, <3>1, <3>2, NotFiling, MemoryEndHolds DEF FilesDone
  <2> QED
    BY <1>7, <2>2, <2>3, <2>4, <2>5, <2>6, FirmwareFrames
<1>8. CASE Terminating \/ UNCHANGED vars
  BY <1>2, <1>8 DEF Terminating, vars, cacheVars
<1> QED
  BY <1>3, <1>4, <1>5, <1>6, <1>7, <1>8 DEF Next

-----------------------------------------------------------------------------
(* What the fixup leaves. *)

LEMMA FilesInvariant ==
  ASSUME \A m \in Machines : Tidy(m)
  PROVE  Spec => []FilesInv
<1>1. Init => FilesInv
  <2> SUFFICES ASSUME Init PROVE FilesInv
    OBVIOUS
  <2>1. frames = <<>> /\ loaded = "not"
    BY DEF Init
  <2>2. Len(frames) = 0
    BY <2>1
  <2> QED
    BY <2>1, <2>2 DEF FilesInv, Filing, FilesDone
<1>2. MInv /\ FilesInv /\ [Next]_vars => FilesInv'
  BY FilesHolds DEF MInv
<1> QED
  BY <1>1, <1>2, MemoryInvariantHolds, PTL DEF Spec

LEMMA HoldsFound ==
  ASSUME NEW m, NEW fk, Shape(tables, heap), Sited(m, tables, fk), NEW name \in TableNames,
         FindIn(tables, name) # 0, NEW addr, addr = tables[FindIn(tables, name)].addr
  PROVE  Holds(addr, name)
<1> DEFINE k == FindIn(tables, name)
           found == {i \in DOMAIN tables : tables[i].addr = addr}
<1>1. k \in DOMAIN tables /\ tables[k].name = name
  BY FindFacts
<1>2. 0 \notin DOMAIN tables
  BY AppendFacts DEF Shape
<1>3. k \in found
  BY <1>1
<1>4. TableAt(addr) \in found
  BY <1>3 DEF TableAt
<1>5. tables[TableAt(addr)].name = name
  BY <1>1, <1>3, <1>4 DEF Sited
<1> QED
  BY <1>2, <1>4, <1>5 DEF Holds

(* A load from files that have a FADT leaves a tree: the FADT leads to the    *)
(* FACS and the DSDT, the RSDP to a RSDT and a XSDT that list all.  It does so *)
(* whatever the files are and in whatever order, if none is in another's way.  *)
THEOREM FilesAreTied ==
  ASSUME \A m \in Machines : Tidy(m)
  PROVE  Spec => []FixedUpTreeComplete
<1>1. MInv /\ FilesInv => FixedUpTreeComplete
  <2> SUFFICES ASSUME MInv, FilesInv, Loaded, Unhindered, Find("FACP") # 0, "firmware" \notin Origins
               PROVE  FixedUpTreeComplete
    BY DEF FixedUpTreeComplete
  <2> DEFINE fadt == Table("FACP")
             rsdp == Table("RSDP")
             facs == IF fadt.facs64 # 0 THEN fadt.facs64 ELSE fadt.facs32
             dsdt == IF fadt.dsdt64 # 0 THEN fadt.dsdt64 ELSE fadt.dsdt32
             k == Find("RSDP")
             Whole(name) ==
               tables[Find(name)].from = "fixup" =>
                 \A a \in ToList \ (IF tables[k].from = "fixup" THEN {tables[k].addr} ELSE {}) :
                   a \in Range(Table(name).list) \/ (name = "RSDT" /\ a >= Limit32)
  <2>1. FilesDone
    <3>1. ~FromFirmware(tables)
      BY DEF FromFirmware, Origins
    <3> QED
      BY <3>1, FindAgrees DEF FilesDone, Loaded
  <2>2. starved = FALSE /\ Len(tables) < MaxTables
    BY DEF MInv, Stack, Unhindered
  <2>3. Phase("done", FALSE, machine, tables, heap, fakes)
    BY <2>1, <2>2 DEF FilesInv
  <2>4. /\ Sited(machine, tables, fakes) /\ Shape(tables, heap) /\ Served(tables, heap)
        /\ Listing(tables, heap, "RSDT") /\ Listing(tables, heap, "XSDT") /\ Rooted(machine, tables, heap)
    BY <2>3 DEF Phase, Base, MInv, IInv
  <2>5. {"FACP", "FACS", "DSDT", "RSDP", "RSDT", "XSDT"} \subseteq TableNames
    BY DEF TableNames
  <2>6. \A name : Find(name) = FindIn(tables, name) /\ Table(name) = TableIn(tables, heap, name)
    BY FindAgrees
  <2>7. facs = FacsWanted(fadt) /\ dsdt = DsdtWanted(fadt)
    BY DEF FacsWanted, DsdtWanted, Wanted
  <2>8. Find("RSDT") # 0 /\ Find("XSDT") # 0
    BY <2>4, <2>6 DEF Listing
  <2>9. \A name \in TableNames : Find(name) # 0 => Holds(tables[Find(name)].addr, name)
    BY <2>4, <2>6, HoldsFound
  <2> HIDE DEF fadt, facs, dsdt, rsdp, k
  <2>10. /\ Find("FACS") # 0
         /\ facs # 0 => tables[Find("FACS")].addr = facs
         /\ Find("DSDT") # 0 /\ dsdt # 0 => tables[Find("DSDT")].addr = dsdt
         /\ tables[Find("FACS")].from = "fixup" => facs # 0
    BY <2>4, <2>6, <2>7 DEF Served, fadt
  <2>11. /\ k # 0
         /\ machine.arm \/ rsdp.rsdt = tables[Find("RSDT")].addr
         /\ Extended(rsdp) => rsdp.xsdt = tables[Find("XSDT")].addr
         /\ \A i \in DOMAIN tables : MadeRsdp(tables[i]) => i = k
    BY <2>4, <2>6 DEF Rooted, rsdp, k
  <2>12. ToList \ (IF tables[k].from = "fixup" THEN {tables[k].addr} ELSE {}) \subseteq ToBeListed(tables)
    BY <2>11 DEF ToList, ToBeListed, MadeRsdp
  <2>13. ASSUME NEW name \in {"RSDT", "XSDT"} PROVE Whole(name)
    <3>1. Listing(tables, heap, name) /\ Find(name) = FindIn(tables, name)
          /\ Table(name) = heap[tables[FindIn(tables, name)].data].table
      BY <2>4, <2>6 DEF TableIn
    <3> QED
      BY <2>12, <3>1 DEF Listing
  <2>14. /\ facs # 0 => Holds(facs, "FACS")
         /\ Find("DSDT") # 0 /\ dsdt # 0 => Holds(dsdt, "DSDT")
         /\ machine.arm \/ Holds(rsdp.rsdt, "RSDT")
         /\ Extended(rsdp) => Holds(rsdp.xsdt, "XSDT")
    BY <2>5, <2>8, <2>9, <2>10, <2>11
  <2>15. Whole("RSDT") /\ Whole("XSDT")
    BY <2>13
  <2> HIDE DEF Whole
  <2> QED
    BY <2>10, <2>11, <2>14, <2>15 DEF FixedUpTreeComplete, Whole, fadt, facs, dsdt, rsdp, k
<1> QED
  BY <1>1, MemoryInvariantHolds, FilesInvariant, PTL
=============================================================================
