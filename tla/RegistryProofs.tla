---------------------------- MODULE RegistryProofs ----------------------------
(***************************************************************************)
(* Proofs about registration and selection: for any tests, priorities and  *)
(* categories, any link order and any command line.                        *)
(***************************************************************************)
EXTENDS Registry, SequenceTheorems, FiniteSetTheorems, WellFoundedInduction, TLAPS

-----------------------------------------------------------------------------
(* The least of a set of numbers, and what it is used for: the first place   *)
(* of a sequence where a test succeeds.                                      *)

LEMMA LeastExists ==
  ASSUME NEW I \in SUBSET Nat, I # {}
  PROVE  \E m \in I : \A k \in I : m <= k
<1>1. \E m \in I : \A k \in I : ~ (<<k, m>> \in OpToRel(<, Nat))
  BY NatLessThanWellFounded, WFMin
<1>2. PICK m \in I : \A k \in I : ~ (<<k, m>> \in OpToRel(<, Nat))
  BY <1>1
<1>3. \A k \in I : ~ (k < m)
  BY <1>2 DEF OpToRel
<1> QED
  BY <1>3

LEMMA LeastFacts ==
  ASSUME NEW I \in SUBSET Nat, I # {}
  PROVE  Min(I) \in I /\ \A k \in I : Min(I) <= k
  BY LeastExists DEF Min

-----------------------------------------------------------------------------
(* fwts_list_add_ordered(). *)

Ordered(s) == \A i, j \in DOMAIN s : i < j => Priority[s[i]] <= Priority[s[j]]

\* t is put in front of the k-th of tests, or behind all of them.
PutAt(tests, k, t) ==
  [j \in 1 .. Len(tests) + 1 |->
     IF j < k THEN tests[j] ELSE IF j = k THEN t ELSE tests[j - 1]]

\* Where the ordered insertion puts its test: the tests in front of it have a
\* lower priority, the one behind it has not.
Fits(tests, k, t) ==
  /\ k \in 1 .. Len(tests) + 1
  /\ \A j \in 1 .. k - 1 : Priority[tests[j]] < Priority[t]
  /\ k <= Len(tests) => Priority[tests[k]] >= Priority[t]

LEMMA InsertAtFacts ==
  ASSUME NEW S, NEW s \in Seq(S), NEW k \in 1 .. Len(s), NEW e \in S
  PROVE  InsertAt(s, k, e) = PutAt(s, k, e) /\ InsertAt(s, k, e) \in Seq(S)
<1> DEFINE front == SubSeq(s, 1, k - 1)
           back  == SubSeq(s, k, Len(s))
           mid   == front \o <<e>>
           all   == mid \o back
<1>1. Len(s) \in Nat /\ \A i \in 1 .. Len(s) : s[i] \in S
  OBVIOUS
<1>2. front \in Seq(S) /\ Len(front) = k - 1 /\ \A i \in 1 .. k - 1 : front[i] = s[i]
  BY <1>1, SubSeqProperties
<1>3. /\ back \in Seq(S) /\ Len(back) = Len(s) - k + 1
      /\ \A i \in 1 .. Len(s) - k + 1 : back[i] = s[k + i - 1]
  BY <1>1, SubSeqProperties
<1>4. <<e>> \in Seq(S) /\ Len(<<e>>) = 1 /\ <<e>>[1] = e
  OBVIOUS
<1> HIDE DEF front, back
<1>5. /\ mid \in Seq(S) /\ Len(mid) = k
      /\ \A i \in 1 .. k : mid[i] = IF i <= k - 1 THEN front[i] ELSE <<e>>[i - (k - 1)]
  BY <1>2, <1>4, ConcatProperties
<1> HIDE DEF mid
<1>6. /\ all \in Seq(S) /\ Len(all) = Len(s) + 1
      /\ \A i \in 1 .. Len(s) + 1 :
           all[i] = IF i <= k THEN mid[i] ELSE back[i - k]
  <2>1. /\ all \in Seq(S) /\ Len(all) = Len(mid) + Len(back)
        /\ \A i \in 1 .. Len(mid) + Len(back) :
             all[i] = IF i <= Len(mid) THEN mid[i] ELSE back[i - Len(mid)]
    BY <1>3, <1>5, ConcatProperties
  <2>2. Len(mid) = k /\ Len(mid) + Len(back) = Len(s) + 1
    BY <1>1, <1>3, <1>5
  <2> QED
    BY <2>1, <2>2
<1> HIDE DEF all
<1>7. ASSUME NEW i \in 1 .. Len(s) + 1 PROVE all[i] = PutAt(s, k, e)[i]
  <2>1. CASE i < k
    <3>1. i \in 1 .. k /\ i <= k - 1 /\ i <= k /\ i \in 1 .. k - 1
      BY <1>1, <2>1
    <3>2. all[i] = s[i]
      BY <1>2, <1>5, <1>6, <3>1
    <3> QED
      BY <2>1, <3>2 DEF PutAt
  <2>2. CASE i = k
    BY <1>1, <1>4, <1>5, <1>6, <2>2 DEF PutAt
  <2>3. CASE i > k
    <3>1. i - k \in 1 .. Len(s) - k + 1 /\ k + (i - k) - 1 = i - 1
      BY <1>1, <2>3
    <3>2. back[i - k] = s[i - 1]
      BY <1>3, <3>1
    <3>3. all[i] = back[i - k]
      BY <1>6, <2>3
    <3> QED
      BY <2>3, <3>2, <3>3 DEF PutAt
  <2> QED
    BY <1>1, <2>1, <2>2, <2>3
<1>8. all = [i \in 1 .. Len(s) + 1 |-> all[i]]
  BY <1>6
<1>9. all = PutAt(s, k, e)
  BY <1>7, <1>8 DEF PutAt
<1> QED
  BY <1>6, <1>9 DEF InsertAt, all, mid, front, back

LEMMA AppendFacts ==
  ASSUME NEW S, NEW s \in Seq(S), NEW e \in S
  PROVE  Append(s, e) = PutAt(s, Len(s) + 1, e) /\ Append(s, e) \in Seq(S)
<1>1. Append(s, e) \in Seq(S) /\ Len(Append(s, e)) = Len(s) + 1 /\ Len(s) \in Nat
  OBVIOUS
<1>2. Append(s, e) = [i \in 1 .. Len(s) + 1 |-> Append(s, e)[i]]
  <2> DEFINE new == Append(s, e)
  <2>1. new \in Seq(S) /\ Len(new) = Len(s) + 1
    BY <1>1
  <2> HIDE DEF new
  <2>2. new = [i \in 1 .. Len(s) + 1 |-> new[i]]
    BY <2>1, LenProperties
  <2> QED
    BY <2>2 DEF new
<1>3. \A i \in 1 .. Len(s) + 1 : Append(s, e)[i] = PutAt(s, Len(s) + 1, e)[i]
  BY DEF PutAt
<1> QED
  BY <1>1, <1>2, <1>3 DEF PutAt

LEMMA AddOrderedFits ==
  ASSUME NEW tests \in Seq(Tests), NEW t \in Tests
  PROVE  \E k \in 1 .. Len(tests) + 1 :
           /\ Fits(tests, k, t)
           /\ AddOrdered(tests, t) = PutAt(tests, k, t)
           /\ AddOrdered(tests, t) \in Seq(Tests)
<1> DEFINE I == {i \in 1 .. Len(tests) : Priority[tests[i]] >= Priority[t]}
           first == IF I # {} THEN Min(I) ELSE 0
<1>1. AddOrdered(tests, t) = IF first = 0 THEN Append(tests, t) ELSE InsertAt(tests, first, t)
  BY DEF AddOrdered, SelectInSeq
<1>2. Len(tests) \in Nat /\ \A i \in 1 .. Len(tests) : tests[i] \in Tests
  OBVIOUS
<1>3. \A u \in Tests : Priority[u] \in Nat
  BY RegistryAssumption
<1>4. CASE I = {}
  <2>1. first = 0
    BY <1>4
  <2>2. Fits(tests, Len(tests) + 1, t)
    <3>1. ASSUME NEW j \in 1 .. Len(tests) PROVE Priority[tests[j]] < Priority[t]
      BY <1>2, <1>3, <1>4
    <3> QED
      BY <1>2, <3>1 DEF Fits
  <2>3. AddOrdered(tests, t) = Append(tests, t)
    BY <1>1, <2>1
  <2>4. AddOrdered(tests, t) = PutAt(tests, Len(tests) + 1, t) /\ AddOrdered(tests, t) \in Seq(Tests)
    BY <2>3, AppendFacts
  <2>5. Len(tests) + 1 \in 1 .. Len(tests) + 1
    BY <1>2
  <2> QED
    BY <2>2, <2>4, <2>5
<1>5. CASE I # {}
  <2>1. I \in SUBSET Nat
    BY <1>2
  <2>2. first \in I /\ \A j \in I : first <= j
    BY <1>5, <2>1, LeastFacts
  <2>3. first \in 1 .. Len(tests) /\ Priority[tests[first]] >= Priority[t] /\ first # 0
    BY <1>2, <2>2
  <2>4. ASSUME NEW j \in 1 .. first - 1 PROVE Priority[tests[j]] < Priority[t]
    <3>1. j \in 1 .. Len(tests) /\ ~(first <= j)
      BY <1>2, <2>3
    <3>2. j \notin I
      BY <2>2, <3>1
    <3>3. Priority[tests[j]] \in Nat /\ Priority[t] \in Nat
      BY <1>2, <1>3, <3>1
    <3> QED
      BY <3>1, <3>2, <3>3
  <2> HIDE DEF first
  <2>5. Fits(tests, first, t)
    BY <1>2, <2>3, <2>4 DEF Fits
  <2>6. AddOrdered(tests, t) = InsertAt(tests, first, t)
    BY <1>1, <2>3
  <2> QED
    BY <1>2, <2>3, <2>5, <2>6, InsertAtFacts
<1> QED
  BY <1>4, <1>5

\* A test put where it fits keeps the order, and every test once.
LEMMA PutAtKeeps ==
  ASSUME NEW tests \in Seq(Tests), NEW t \in Tests, NEW k, Fits(tests, k, t),
         Ordered(tests), IsInjective(tests), t \notin Range(tests)
  PROVE  LET new == PutAt(tests, k, t)
         IN  Ordered(new) /\ IsInjective(new) /\ Range(new) = Range(tests) \cup {t}
<1> DEFINE new == PutAt(tests, k, t)
           n == Len(tests)
<1>1. n \in Nat /\ DOMAIN tests = 1 .. n /\ k \in 1 .. n + 1
      /\ \A i \in 1 .. n : tests[i] \in Tests
  BY DEF Fits
<1>2. DOMAIN new = 1 .. n + 1
  BY DEF PutAt
<1>3. /\ \A j \in 1 .. n + 1 : j < k => new[j] = tests[j] /\ j \in 1 .. n
      /\ new[k] = t
      /\ \A j \in 1 .. n + 1 : j > k => new[j] = tests[j - 1] /\ j - 1 \in 1 .. n
  BY <1>1 DEF PutAt
<1> HIDE DEF new, n
<1>4. \A u \in Tests : Priority[u] \in Nat
  BY RegistryAssumption
<1>5. \A i, j \in 1 .. n : i < j => Priority[tests[i]] <= Priority[tests[j]]
  BY <1>1 DEF Ordered
<1>6. \A j \in 1 .. n : j < k => Priority[tests[j]] < Priority[t]
  BY <1>1 DEF Fits, n
<1>7. \A j \in 1 .. n : j >= k => Priority[tests[j]] >= Priority[t]
  <2> SUFFICES ASSUME NEW j \in 1 .. n, j >= k PROVE Priority[tests[j]] >= Priority[t]
    OBVIOUS
  <2>1. k \in 1 .. n /\ Priority[tests[k]] >= Priority[t]
    BY <1>1 DEF Fits, n
  <2>2. Priority[tests[k]] \in Nat /\ Priority[tests[j]] \in Nat /\ Priority[t] \in Nat
    BY <1>1, <1>4, <2>1
  <2>3. j = k \/ Priority[tests[k]] <= Priority[tests[j]]
    BY <1>1, <1>5, <2>1
  <2> QED
    BY <2>1, <2>2, <2>3
<1>8. Ordered(new)
  <2> SUFFICES ASSUME NEW i \in 1 .. n + 1, NEW j \in 1 .. n + 1, i < j
               PROVE  Priority[new[i]] <= Priority[new[j]]
    BY <1>2 DEF Ordered
  <2>1. CASE j < k
    <3>1. new[i] = tests[i] /\ new[j] = tests[j] /\ i \in 1 .. n /\ j \in 1 .. n
      BY <1>1, <1>3, <2>1
    <3> QED
      BY <1>5, <3>1
  <2>2. CASE j = k
    <3>1. new[i] = tests[i] /\ i \in 1 .. n /\ i < k /\ new[j] = t
      BY <1>1, <1>3, <2>2
    <3>2. Priority[tests[i]] \in Nat /\ Priority[t] \in Nat
      BY <1>1, <1>4, <3>1
    <3> QED
      BY <1>6, <3>1, <3>2
  <2>3. CASE i = k
    <3>1. new[j] = tests[j - 1] /\ j - 1 \in 1 .. n /\ j - 1 >= k /\ new[i] = t
      BY <1>1, <1>3, <2>3
    <3>2. Priority[tests[j - 1]] \in Nat /\ Priority[t] \in Nat
      BY <1>1, <1>4, <3>1
    <3>3. Priority[tests[j - 1]] >= Priority[t]
      BY <1>7, <3>1
    <3> QED
      BY <3>1, <3>2, <3>3
  <2>4. CASE i < k /\ j > k
    <3>1. new[i] = tests[i] /\ i \in 1 .. n /\ new[j] = tests[j - 1] /\ j - 1 \in 1 .. n
          /\ i < j - 1
      BY <1>1, <1>3, <2>4
    <3> QED
      BY <1>5, <3>1
  <2>5. CASE i > k
    <3>1. new[i] = tests[i - 1] /\ i - 1 \in 1 .. n /\ new[j] = tests[j - 1] /\ j - 1 \in 1 .. n
          /\ i - 1 < j - 1
      BY <1>1, <1>3, <2>5
    <3> QED
      BY <1>5, <3>1
  <2> QED
    BY <1>1, <2>1, <2>2, <2>3, <2>4, <2>5
<1>9. \A i \in 1 .. n : tests[i] # t
  BY <1>1 DEF Range
<1>10. \A i, j \in 1 .. n : tests[i] = tests[j] => i = j
  BY <1>1 DEF IsInjective
<1>11. IsInjective(new)
  <2> SUFFICES ASSUME NEW i \in 1 .. n + 1, NEW j \in 1 .. n + 1, i <= j, new[i] = new[j]
               PROVE  i = j
    <3>1. \A i, j \in 1 .. n + 1 : i <= j \/ j <= i
      BY <1>1
    <3> QED
      BY <1>2, <3>1 DEF IsInjective
  <2>1. CASE j < k
    BY <1>1, <1>3, <1>10, <2>1
  <2>2. CASE j = k
    BY <1>1, <1>3, <1>9, <2>2
  <2>3. CASE i = k
    BY <1>1, <1>3, <1>9, <2>3
  <2>4. CASE i < k /\ j > k
    <3>1. new[i] = tests[i] /\ i \in 1 .. n /\ new[j] = tests[j - 1] /\ j - 1 \in 1 .. n
      BY <1>3, <2>4
    <3>2. i = j - 1
      BY <1>10, <3>1
    <3> QED
      BY <1>1, <2>4, <3>2
  <2>5. CASE i > k
    <3>1. new[i] = tests[i - 1] /\ i - 1 \in 1 .. n /\ new[j] = tests[j - 1] /\ j - 1 \in 1 .. n
      BY <1>1, <1>3, <2>5
    <3>2. i - 1 = j - 1
      BY <1>10, <3>1
    <3> QED
      BY <3>2
  <2> QED
    BY <1>1, <2>1, <2>2, <2>3, <2>4, <2>5
<1>12. Range(new) = Range(tests) \cup {t}
  <2>1. ASSUME NEW i \in 1 .. n + 1 PROVE new[i] \in Range(tests) \cup {t}
    <3>1. i < k \/ i = k \/ i > k
      BY <1>1
    <3> QED
      BY <1>1, <1>3, <3>1 DEF Range
  <2>2. ASSUME NEW i \in 1 .. n PROVE tests[i] \in Range(new)
    <3>1. CASE i < k
      <4>1. i \in 1 .. n + 1 /\ new[i] = tests[i]
        BY <1>1, <1>3, <3>1
      <4> QED
        BY <1>2, <4>1 DEF Range
    <3>2. CASE i >= k
      <4>1. i + 1 \in 1 .. n + 1 /\ i + 1 > k /\ (i + 1) - 1 = i
        BY <1>1, <3>2
      <4>2. new[i + 1] = tests[i]
        BY <1>3, <4>1
      <4> QED
        BY <1>2, <4>1, <4>2 DEF Range
    <3> QED
      BY <1>1, <3>1, <3>2
  <2>3. t \in Range(new)
    BY <1>1, <1>2, <1>3 DEF Range
  <2>4. Range(new) \subseteq Range(tests) \cup {t}
    BY <1>2, <2>1 DEF Range
  <2>5. Range(tests) \subseteq Range(new)
    BY <1>1, <2>2 DEF Range
  <2> QED
    BY <2>3, <2>4, <2>5
<1> QED
  BY <1>8, <1>11, <1>12 DEF new

-----------------------------------------------------------------------------
(* Selecting from a sequence, one element after the other. *)

LEMMA PlacesFacts ==
  ASSUME NEW seq, NEW n \in Nat, NEW S
  PROVE  /\ IsFiniteSet(Places(seq, n, S)) /\ Cardinality(Places(seq, n, S)) \in Nat
         /\ Places(seq, n + 1, S) =
              IF seq[n + 1] \in S THEN Places(seq, n, S) \cup {n + 1} ELSE Places(seq, n, S)
<1>1. IsFiniteSet(1 .. n) /\ Places(seq, n, S) \in SUBSET (1 .. n)
  BY FS_Interval DEF Places
<1>2. IsFiniteSet(Places(seq, n, S))
  BY <1>1, FS_Subset
<1>3. \A i : i \in 1 .. n + 1 <=> i \in 1 .. n \/ i = n + 1
  OBVIOUS
<1> QED
  BY <1>2, <1>3, FS_CardinalityType DEF Places

LEMMA RankedNext ==
  ASSUME NEW n \in Nat, NEW P \in SUBSET (1 .. n), IsFiniteSet(P)
  PROVE  LET Q == P \cup {n + 1}
         IN  /\ Cardinality(P) \in Nat /\ Cardinality(Q) = Cardinality(P) + 1
             /\ \A k \in 1 .. Cardinality(P) : Ranked(Q, k) = Ranked(P, k)
             /\ Ranked(Q, Cardinality(P) + 1) = n + 1
<1> DEFINE Q == P \cup {n + 1}
           c == Cardinality(P)
<1>1. n + 1 \notin P
  OBVIOUS
<1>2. c \in Nat /\ Cardinality(Q) = c + 1
  BY <1>1, FS_AddElement, FS_CardinalityType
<1>3. ASSUME NEW i \in P PROVE Rank(Q, i) = Rank(P, i) /\ Rank(P, i) <= c
  <2>1. {j \in Q : j <= i} = {j \in P : j <= i}
    <3>1. ~(n + 1 <= i)
      OBVIOUS
    <3> QED
      BY <3>1
  <2>2. {j \in P : j <= i} \in SUBSET P
    OBVIOUS
  <2>3. Cardinality({j \in P : j <= i}) <= c
    BY <2>2, FS_Subset
  <2> QED
    BY <2>1, <2>3 DEF Rank
<1>4. Rank(Q, n + 1) = c + 1
  <2>1. \A j \in Q : j <= n + 1
    OBVIOUS
  <2>2. {j \in Q : j <= n + 1} = Q
    BY <2>1
  <2> QED
    BY <1>2, <2>2 DEF Rank
<1> HIDE DEF c
<1>5. ASSUME NEW k \in 1 .. c PROVE Ranked(Q, k) = Ranked(P, k)
  <2>1. k # c + 1
    BY <1>2
  <2>2. \A i : i \in Q /\ Rank(Q, i) = k <=> i \in P /\ Rank(P, i) = k
    BY <1>3, <1>4, <2>1
  <2> HIDE DEF Q
  <2> QED
    BY <2>2 DEF Ranked
<1>6. Ranked(Q, c + 1) = n + 1
  <2>1. \A i \in P : Rank(Q, i) \in Nat /\ Rank(Q, i) <= c
    <3> SUFFICES ASSUME NEW i \in P PROVE Rank(Q, i) \in Nat
      BY <1>3
    <3>1. {j \in P : j <= i} \in SUBSET P
      OBVIOUS
    <3>2. IsFiniteSet({j \in P : j <= i})
      BY <3>1, FS_Subset
    <3>3. Rank(P, i) \in Nat
      BY <3>2, FS_CardinalityType DEF Rank
    <3> QED
      BY <1>3, <3>3
  <2>2. \A i \in Q : Rank(Q, i) = c + 1 <=> i = n + 1
    BY <1>2, <1>4, <2>1
  <2>3. n + 1 \in Q
    OBVIOUS
  <2> HIDE DEF Q
  <2> QED
    BY <2>2, <2>3 DEF Ranked
<1> QED
  BY <1>2, <1>5, <1>6 DEF c

LEMMA SelectedNone ==
  ASSUME NEW seq, NEW S
  PROVE  SelectedUpTo(seq, 0, S) = <<>>
<1>1. Places(seq, 0, S) = {}
  BY DEF Places
<1>2. Cardinality(Places(seq, 0, S)) = 0
  BY <1>1, FS_EmptySet
<1> QED
  BY <1>2 DEF SelectedUpTo

LEMMA SelectedNext ==
  ASSUME NEW seq, NEW n \in Nat, NEW S, NEW U, SelectedUpTo(seq, n, S) \in Seq(U), seq[n + 1] \in U
  PROVE  SelectedUpTo(seq, n + 1, S) =
           IF seq[n + 1] \in S THEN Append(SelectedUpTo(seq, n, S), seq[n + 1])
                               ELSE SelectedUpTo(seq, n, S)
<1> DEFINE P == Places(seq, n, S)
           Q == P \cup {n + 1}
           c == Cardinality(P)
           r == SelectedUpTo(seq, n, S)
           e == seq[n + 1]
<1>1. CASE e \notin S
  BY <1>1, PlacesFacts DEF SelectedUpTo
<1>2. CASE e \in S
  <2>1. Places(seq, n + 1, S) = Q /\ IsFiniteSet(P)
    BY <1>2, PlacesFacts
  <2>2. P \in SUBSET (1 .. n)
    BY DEF Places
  <2>3. r = [k \in 1 .. c |-> seq[Ranked(P, k)]]
    BY DEF SelectedUpTo
  <2>4. SelectedUpTo(seq, n + 1, S) = [k \in 1 .. Cardinality(Q) |-> seq[Ranked(Q, k)]]
    BY <2>1 DEF SelectedUpTo
  <2> HIDE DEF P
  <2>5. /\ c \in Nat /\ Cardinality(Q) = c + 1
        /\ \A k \in 1 .. c : Ranked(Q, k) = Ranked(P, k)
        /\ Ranked(Q, c + 1) = n + 1
    BY <2>1, <2>2, RankedNext
  <2> HIDE DEF Q, c
  <2>6. r \in Seq(U) /\ e \in U
    OBVIOUS
  <2> HIDE DEF r
  <2>7. Len(r) = c
    <3>1. DOMAIN r = 1 .. c
      BY <2>3
    <3>2. DOMAIN r = 1 .. Len(r) /\ Len(r) \in Nat
      BY <2>6, LenProperties
    <3> QED
      BY <2>5, <3>1, <3>2
  <2>8. Append(r, e) = PutAt(r, c + 1, e)
    BY <2>6, <2>7, AppendFacts
  <2>9. PutAt(r, c + 1, e) = [k \in 1 .. c + 1 |-> PutAt(r, c + 1, e)[k]]
    BY <2>7 DEF PutAt
  <2>10. ASSUME NEW k \in 1 .. c + 1 PROVE PutAt(r, c + 1, e)[k] = seq[Ranked(Q, k)]
    <3>1. CASE k \in 1 .. c
      <4>1. r[k] = seq[Ranked(P, k)]
        BY <2>3, <3>1
      <4>2. PutAt(r, c + 1, e)[k] = r[k]
        BY <2>5, <2>7, <3>1 DEF PutAt
      <4> QED
        BY <2>5, <3>1, <4>1, <4>2
    <3>2. CASE k = c + 1
      BY <2>5, <2>7, <3>2 DEF PutAt
    <3> QED
      BY <2>5, <3>1, <3>2
  <2>11. SelectedUpTo(seq, n + 1, S) = PutAt(r, c + 1, e)
    BY <2>4, <2>5, <2>9, <2>10
  <2> QED
    BY <1>2, <2>8, <2>11 DEF r
<1> QED
  BY <1>1, <1>2

-----------------------------------------------------------------------------
(* The inductive invariant: what was made of the command line so far. *)

ChosenBy(n) == UNION {cmd.options[i].set : i \in {j \in 1 .. n : cmd.options[j].kind = "category"}}
SkippedBy(n) ==
  UNION {Range(cmd.options[i].names) : i \in {j \in 1 .. n : cmd.options[j].kind = "skip"}}

Started == pc = "ctors" => flags = {} /\ toSkip = {} /\ toRun = <<>> /\ next = 1

OptionsRead ==
  pc = "options" =>
    /\ next <= Len(cmd.options) + 1
    /\ toRun = <<>>
    /\ flags = ChosenBy(next - 1)
    /\ toSkip = SkippedBy(next - 1)
    /\ Unknown \notin SkippedBy(next - 1)

SkipsKnown == pc \in {"names", "scan", "run"} => toSkip = ToSkip /\ Unknown \notin ToSkip

NamesRead ==
  pc = "names" =>
    /\ next <= Len(cmd.names) + 1
    /\ flags = Chosen
    /\ \A i \in 1 .. next - 1 : cmd.names[i] # Unknown
    /\ toRun = SelectedUpTo(cmd.names, next - 1, Names \ ToSkip)

NamesKnown ==
  pc \in {"scan", "run"} =>
    Unknown \notin Range(cmd.names) /\ flags = Wanted /\ Named \in Seq(Tests)

ListRead ==
  pc = "scan" =>
    /\ next <= Len(list) + 1
    /\ SelectedUpTo(list, next - 1, InCategory) \in Seq(Tests)
    /\ toRun = Named \o SelectedUpTo(list, next - 1, InCategory)

Selecting == OptionsRead /\ SkipsKnown /\ NamesRead /\ NamesKnown /\ ListRead /\ SelectionIsExact
Inv == TypeOK /\ RegisteredInOrder /\ Started /\ Selecting

LEMMA CommandFacts ==
  ASSUME cmd \in CommandLines
  PROVE  /\ cmd.options \in Seq(Option) /\ cmd.names \in Seq(Names)
         /\ \A i \in 1 .. Len(cmd.options) :
              /\ cmd.options[i] \in Option
              /\ cmd.options[i].kind = "category" => cmd.options[i].set \subseteq Categories
              /\ cmd.options[i].kind = "skip" => cmd.options[i].names \in Seq(Names)
<1>1. cmd.options \in Seq(Option) /\ cmd.names \in Seq(Names)
  BY RegistryAssumption DEF CommandLine
<1>2. \A i \in 1 .. Len(cmd.options) : cmd.options[i] \in Option
  BY <1>1, ElementOfSeq
<1>3. ASSUME NEW o \in Option
      PROVE  /\ o.kind = "category" => o.set \subseteq Categories
             /\ o.kind = "skip" => o.names \in Seq(Names)
  BY DEF Option
<1> QED
  BY <1>1, <1>2, <1>3

LEMMA SameCommand ==
  ASSUME cmd' = cmd
  PROVE  /\ ToSkip' = ToSkip /\ Chosen' = Chosen /\ Named' = Named
         /\ Wanted' = Wanted /\ InCategory' = InCategory
<1>1. ToSkip' = ToSkip /\ Chosen' = Chosen
  BY DEF ToSkip, Chosen, GivenOptions
<1>2. Named' = Named
  BY <1>1 DEF Named
<1>3. Wanted' = Wanted
  BY <1>1, <1>2 DEF Wanted
<1> QED
  BY <1>1, <1>2, <1>3 DEF InCategory

\* fwts_framework_skip_test_parse().
LEMMA SkipPrefixFacts ==
  ASSUME NEW names \in Seq(Names)
  PROVE  /\ SkipPrefix(names) \subseteq Tests
         /\ Unknown \notin Range(names) => SkipPrefix(names) = Range(names)
<1> DEFINE I == {i \in 1 .. Len(names) : names[i] = Unknown}
           first == IF I # {} THEN Min(I) ELSE 0
<1>1. SkipPrefix(names) = Range(IF first = 0 THEN names ELSE SubSeq(names, 1, first - 1))
  BY DEF SkipPrefix, SelectInSeq
<1>2. Len(names) \in Nat /\ DOMAIN names = 1 .. Len(names)
      /\ \A i \in 1 .. Len(names) : names[i] \in Names
  OBVIOUS
<1>3. CASE I = {}
  <2>1. first = 0
    BY <1>3
  <2>2. \A i \in 1 .. Len(names) : names[i] \in Tests
    BY <1>2, <1>3 DEF Names
  <2> QED
    BY <1>1, <1>2, <2>1, <2>2 DEF Range
<1>4. CASE I # {}
  <2>1. I \in SUBSET Nat
    BY <1>2
  <2>2. first \in I /\ \A i \in I : first <= i
    BY <1>4, <2>1, LeastFacts
  <2>3. Unknown \in Range(names)
    BY <1>2, <2>2 DEF Range
  <2>4. first \in 1 .. Len(names) /\ first # 0
    BY <1>2, <2>2
  <2> DEFINE front == SubSeq(names, 1, first - 1)
  <2> HIDE DEF first
  <2>5. \A i \in 1 .. first - 1 : names[i] \in Tests
    <3> SUFFICES ASSUME NEW i \in 1 .. first - 1 PROVE names[i] \in Tests
      OBVIOUS
    <3>1. i \in 1 .. Len(names) /\ ~(first <= i)
      BY <1>2, <2>4
    <3>2. i \notin I
      BY <2>2, <3>1
    <3> QED
      BY <1>2, <3>1, <3>2 DEF Names
  <2>6. front \in Seq(Tests)
    BY <2>4, <2>5, SubSeqProperties
  <2>7. SkipPrefix(names) = Range(front)
    BY <1>1, <2>4
  <2> HIDE DEF front
  <2>8. Range(front) \in SUBSET Tests
    BY <2>6, RangeOfSeq
  <2> QED
    BY <2>3, <2>7, <2>8
<1> QED
  BY <1>3, <1>4

\* One more option of the command line.
LEMMA OptionNext ==
  ASSUME NEW n \in Nat \ {0}
  PROVE  LET o == cmd.options[n]
         IN  /\ ChosenBy(n) = IF o.kind = "category" THEN ChosenBy(n - 1) \cup o.set
                                                      ELSE ChosenBy(n - 1)
             /\ SkippedBy(n) = IF o.kind = "skip" THEN SkippedBy(n - 1) \cup Range(o.names)
                                                   ELSE SkippedBy(n - 1)
<1>1. ASSUME NEW kind
      PROVE  {j \in 1 .. n : cmd.options[j].kind = kind} =
               IF cmd.options[n].kind = kind THEN {j \in 1 .. n - 1 : cmd.options[j].kind = kind} \cup {n}
               ELSE {j \in 1 .. n - 1 : cmd.options[j].kind = kind}
  <2>1. \A j : j \in 1 .. n <=> j \in 1 .. n - 1 \/ j = n
    OBVIOUS
  <2> QED
    BY <2>1
<1>2. ASSUME NEW A, NEW x PROVE UNION (A \cup {x}) = (UNION A) \cup x
  OBVIOUS
<1>3. ASSUME NEW I PROVE {cmd.options[i].set : i \in I \cup {n}} =
                           {cmd.options[i].set : i \in I} \cup {cmd.options[n].set}
  OBVIOUS
<1>4. ASSUME NEW I PROVE {Range(cmd.options[i].names) : i \in I \cup {n}} =
                           {Range(cmd.options[i].names) : i \in I} \cup {Range(cmd.options[n].names)}
  OBVIOUS
<1>5. /\ cmd.options[n].kind = "category" => ChosenBy(n) = ChosenBy(n - 1) \cup cmd.options[n].set
      /\ cmd.options[n].kind # "category" => ChosenBy(n) = ChosenBy(n - 1)
  <2> DEFINE I == {j \in 1 .. n - 1 : cmd.options[j].kind = "category"}
             J == {j \in 1 .. n : cmd.options[j].kind = "category"}
  <2>1. J = IF cmd.options[n].kind = "category" THEN I \cup {n} ELSE I
    BY <1>1
  <2>2. ChosenBy(n) = UNION {cmd.options[i].set : i \in J}
        /\ ChosenBy(n - 1) = UNION {cmd.options[i].set : i \in I}
    BY DEF ChosenBy
  <2> HIDE DEF I, J
  <2>3. UNION {cmd.options[i].set : i \in I \cup {n}} =
          (UNION {cmd.options[i].set : i \in I}) \cup cmd.options[n].set
    BY <1>2, <1>3
  <2> QED
    BY <2>1, <2>2, <2>3
<1>6. /\ cmd.options[n].kind = "skip" =>
           SkippedBy(n) = SkippedBy(n - 1) \cup Range(cmd.options[n].names)
      /\ cmd.options[n].kind # "skip" => SkippedBy(n) = SkippedBy(n - 1)
  <2> DEFINE I == {j \in 1 .. n - 1 : cmd.options[j].kind = "skip"}
             J == {j \in 1 .. n : cmd.options[j].kind = "skip"}
  <2>1. J = IF cmd.options[n].kind = "skip" THEN I \cup {n} ELSE I
    BY <1>1
  <2>2. SkippedBy(n) = UNION {Range(cmd.options[i].names) : i \in J}
        /\ SkippedBy(n - 1) = UNION {Range(cmd.options[i].names) : i \in I}
    BY DEF SkippedBy
  <2> HIDE DEF I, J
  <2>3. UNION {Range(cmd.options[i].names) : i \in I \cup {n}} =
          (UNION {Range(cmd.options[i].names) : i \in I}) \cup Range(cmd.options[n].names)
    BY <1>2, <1>4
  <2> QED
    BY <2>1, <2>2, <2>3
<1> QED
  BY <1>5, <1>6

LEMMA OptionsNone == ChosenBy(0) = {} /\ SkippedBy(0) = {}
  BY DEF ChosenBy, SkippedBy

LEMMA OptionsAll ==
  ASSUME cmd \in CommandLines
  PROVE  ChosenBy(Len(cmd.options)) = Chosen /\ SkippedBy(Len(cmd.options)) = ToSkip
<1> DEFINE os == cmd.options
<1>1. DOMAIN os = 1 .. Len(os)
  BY CommandFacts, LenProperties
<1>2. ASSUME NEW kind
      PROVE  GivenOptions(kind) = {os[i] : i \in {j \in 1 .. Len(os) : os[j].kind = kind}}
  BY <1>1 DEF GivenOptions, Range
<1> QED
  BY <1>2 DEF ChosenBy, SkippedBy, Chosen, ToSkip

-----------------------------------------------------------------------------
(* The steps. *)

LEMMA InitProof == Init => Inv
<1> SUFFICES ASSUME Init PROVE Inv
  OBVIOUS
<1>1. <<>> \in Seq(Tests) /\ DOMAIN <<>> = {}
  OBVIOUS
<1>2. TypeOK
  BY <1>1 DEF Init, TypeOK
<1>3. RegisteredInOrder
  BY <1>1 DEF Init, RegisteredInOrder, Range, IsInjective
<1>4. Started
  BY DEF Init, Started
<1>5. pc = "ctors"
  BY DEF Init
<1>6. Selecting
  BY <1>5 DEF Selecting, OptionsRead, SkipsKnown, NamesRead, NamesKnown, ListRead, SelectionIsExact
<1> QED
  BY <1>2, <1>3, <1>4, <1>6 DEF Inv

LEMMA RegisterKeeps ==
  ASSUME Inv, NEW t \in pending, Register(t)
  PROVE  Inv'
<1>1. /\ pc = "ctors" /\ list' = AddOrdered(list, t) /\ pending' = pending \ {t}
      /\ UNCHANGED <<cmd, pc, next, flags, seen, toSkip, toRun, ret>>
  BY DEF Register
<1>2. TypeOK /\ t \in Tests /\ list \in Seq(Tests)
  BY DEF Inv, TypeOK
<1>3. Range(list) = Tests \ pending /\ IsInjective(list) /\ Ordered(list)
  BY DEF Inv, RegisteredInOrder, Ordered
<1>4. PICK k : Fits(list, k, t) /\ list' = PutAt(list, k, t) /\ list' \in Seq(Tests)
  BY <1>1, <1>2, AddOrderedFits
<1>5. Ordered(list') /\ IsInjective(list') /\ Range(list') = Range(list) \cup {t}
  BY <1>2, <1>3, <1>4, PutAtKeeps
<1>6. RegisteredInOrder'
  BY <1>1, <1>2, <1>3, <1>5 DEF RegisteredInOrder, Ordered, TypeOK
<1>7. TypeOK'
  BY <1>1, <1>2, <1>4 DEF TypeOK
<1>8. Started'
  BY <1>1 DEF Inv, Started
<1>9. Selecting'
  BY <1>1 DEF Selecting, OptionsRead, SkipsKnown, NamesRead, NamesKnown, ListRead, SelectionIsExact
<1> QED
  BY <1>6, <1>7, <1>8, <1>9 DEF Inv

\* The list stays as it is.
LEMMA ListStays ==
  ASSUME Inv, UNCHANGED <<pending, list>>
  PROVE  RegisteredInOrder'
  BY DEF Inv, RegisteredInOrder

LEMMA MainKeeps ==
  ASSUME Inv, Main
  PROVE  Inv'
<1>1. /\ pc = "ctors" /\ pc' = "options"
      /\ UNCHANGED <<cmd, pending, list, next, flags, seen, toSkip, toRun, ret>>
  BY DEF Main
<1>2. flags = {} /\ toSkip = {} /\ toRun = <<>> /\ next = 1 /\ cmd \in CommandLines
  BY <1>1 DEF Inv, Started, TypeOK
<1>3. ChosenBy(next - 1)' = {} /\ SkippedBy(next - 1)' = {}
  BY <1>1, <1>2, OptionsNone DEF ChosenBy, SkippedBy
<1>4. Len(cmd.options) \in Nat
  BY <1>2, CommandFacts, LenProperties
<1>5. OptionsRead'
  BY <1>1, <1>2, <1>3, <1>4 DEF OptionsRead
<1>6. TypeOK' /\ RegisteredInOrder' /\ Started'
  BY <1>1, ListStays DEF Inv, TypeOK, Started
<1>7. Selecting'
  BY <1>1, <1>5 DEF Selecting, SkipsKnown, NamesRead, NamesKnown, ListRead, SelectionIsExact
<1> QED
  BY <1>6, <1>7 DEF Inv

\* fwts_framework_args() returns before the selection is complete.
LEMMA LeaveKeeps ==
  ASSUME Inv, NEW result \in {"ok", "error"}, Leave(result),
         UNCHANGED <<cmd, pending, list, flags, seen>>, toSkip' \subseteq Tests
  PROVE  Inv'
<1>1. pc' = "exit" /\ ret' = result /\ UNCHANGED <<next, toRun>>
  BY DEF Leave
<1>2. TypeOK'
  BY <1>1 DEF Inv, TypeOK
<1>3. Selecting' /\ Started'
  BY <1>1 DEF Selecting, OptionsRead, SkipsKnown, NamesRead, NamesKnown, ListRead, SelectionIsExact,
              Started
<1> QED
  BY <1>2, <1>3, ListStays DEF Inv

LEMMA TakeOptionKeeps ==
  ASSUME Inv, TakeOption
  PROVE  Inv'
<1> DEFINE o == cmd.options[next]
<1>1. /\ pc = "options" /\ next <= Len(cmd.options) /\ UNCHANGED <<cmd, pending, list>>
  BY DEF TakeOption
<1>2. /\ cmd \in CommandLines /\ next \in Nat \ {0} /\ toSkip \subseteq Tests
      /\ flags \subseteq Categories /\ seen \subseteq {"keep", "discard", "show"}
  BY DEF Inv, TypeOK
<1>3. Len(cmd.options) \in Nat /\ next \in 1 .. Len(cmd.options)
  BY <1>1, <1>2, CommandFacts, LenProperties
<1>4. /\ o.kind = "category" => o.set \subseteq Categories
      /\ o.kind = "skip" => o.names \in Seq(Names)
  BY <1>2, <1>3, CommandFacts
<1>5. toRun = <<>> /\ flags = ChosenBy(next - 1) /\ toSkip = SkippedBy(next - 1)
      /\ Unknown \notin SkippedBy(next - 1)
  BY <1>1 DEF Inv, Selecting, OptionsRead
<1>6. /\ ChosenBy(next) = IF o.kind = "category" THEN ChosenBy(next - 1) \cup o.set
                                                 ELSE ChosenBy(next - 1)
      /\ SkippedBy(next) = IF o.kind = "skip" THEN SkippedBy(next - 1) \cup Range(o.names)
                                              ELSE SkippedBy(next - 1)
  BY <1>2, OptionNext
<1>7. ASSUME next' = next + 1, UNCHANGED <<pc, toRun, ret>>, flags' = ChosenBy(next),
             toSkip' = SkippedBy(next), Unknown \notin SkippedBy(next),
             flags' \subseteq Categories, toSkip' \subseteq Tests,
             seen' \subseteq {"keep", "discard", "show"}
      PROVE  Inv'
  <2>1. next' - 1 = next
    BY <1>2, <1>7
  <2>2. OptionsRead'
    <3>1. ChosenBy(next - 1)' = ChosenBy(next) /\ SkippedBy(next - 1)' = SkippedBy(next)
      BY <1>1, <2>1 DEF ChosenBy, SkippedBy
    <3>2. next' <= Len(cmd'.options) + 1
      BY <1>1, <1>2, <1>3, <1>7
    <3> QED
      BY <1>5, <1>7, <3>1, <3>2 DEF OptionsRead
  <2>3. TypeOK'
    BY <1>1, <1>2, <1>7 DEF Inv, TypeOK
  <2>4. Started' /\ Selecting'
    BY <1>1, <1>7, <2>2 DEF Started, Selecting, SkipsKnown, NamesRead, NamesKnown, ListRead,
                            SelectionIsExact
  <2> QED
    BY <1>1, <2>3, <2>4, ListStays DEF Inv
<1>8. CASE /\ o.kind = "category"
           /\ flags' = flags \cup o.set
           /\ next' = next + 1
           /\ UNCHANGED <<pc, seen, toSkip, toRun, ret>>
  <2>1. o.kind # "skip"
    BY <1>8
  <2> QED
    BY <1>2, <1>4, <1>5, <1>6, <1>7, <1>8, <2>1
<1>9. CASE /\ o.kind = "skip"
           /\ toSkip' = toSkip \cup SkipPrefix(o.names)
           /\ IF Unknown \in Range(o.names)
              THEN Leave("ok")
              ELSE next' = next + 1 /\ UNCHANGED <<pc, toRun, ret>>
           /\ UNCHANGED <<flags, seen>>
  <2>1. /\ SkipPrefix(o.names) \subseteq Tests
        /\ Unknown \notin Range(o.names) => SkipPrefix(o.names) = Range(o.names)
    BY <1>4, <1>9, SkipPrefixFacts
  <2>2. toSkip' \subseteq Tests
    BY <1>2, <1>9, <2>1
  <2>3. o.kind # "category"
    BY <1>9
  <2>4. CASE Unknown \in Range(o.names)
    <3>1. Leave("ok")
      BY <1>9, <2>4, Zenon
    <3>2. UNCHANGED <<cmd, pending, list, flags, seen>>
      BY <1>1, <1>9
    <3> QED
      BY <2>2, <3>1, <3>2, LeaveKeeps
  <2>5. CASE Unknown \notin Range(o.names)
    BY <1>2, <1>5, <1>6, <1>7, <1>9, <2>1, <2>2, <2>3, <2>5
  <2> QED
    BY <2>4, <2>5
<1>10. CASE /\ o.kind \in {"keep", "discard", "show"}
            /\ seen' = seen \cup {o.kind}
            /\ next' = next + 1
            /\ UNCHANGED <<pc, flags, toSkip, toRun, ret>>
  <2>1. o.kind # "skip" /\ o.kind # "category"
    BY <1>10
  <2>2. seen' \subseteq {"keep", "discard", "show"}
    BY <1>2, <1>10
  <2> QED
    BY <1>2, <1>5, <1>6, <1>7, <1>10, <2>1, <2>2
<1>11. CASE (Leave("ok") \/ Leave("error")) /\ UNCHANGED <<flags, seen, toSkip>>
  BY <1>1, <1>2, <1>11, LeaveKeeps
<1> QED
  BY <1>8, <1>9, <1>10, <1>11 DEF TakeOption

LEMMA CheckOptionsKeeps ==
  ASSUME Inv, CheckOptions
  PROVE  Inv'
<1>1. /\ pc = "options" /\ next > Len(cmd.options)
      /\ UNCHANGED <<cmd, pending, list, flags, seen, toSkip>>
  BY DEF CheckOptions
<1>2. cmd \in CommandLines /\ next \in Nat \ {0} /\ toSkip \subseteq Tests
  BY DEF Inv, TypeOK
<1>3. CASE Leave("ok") \/ Leave("error")
  BY <1>1, <1>2, <1>3, LeaveKeeps
<1>4. CASE pc' = "names" /\ next' = 1 /\ UNCHANGED <<toRun, ret>>
  <2>1. Len(cmd.options) \in Nat /\ Len(cmd.names) \in Nat
    BY <1>2, CommandFacts, LenProperties
  <2>2. /\ next <= Len(cmd.options) + 1 /\ toRun = <<>>
        /\ flags = ChosenBy(next - 1) /\ toSkip = SkippedBy(next - 1)
        /\ Unknown \notin SkippedBy(next - 1)
    BY <1>1 DEF Inv, Selecting, OptionsRead
  <2>3. next - 1 = Len(cmd.options)
    BY <1>1, <1>2, <2>1, <2>2
  <2>4. flags = Chosen /\ toSkip = ToSkip /\ Unknown \notin ToSkip
    BY <1>2, <2>2, <2>3, OptionsAll
  <2>5. ToSkip' = ToSkip /\ Chosen' = Chosen
    BY <1>1, SameCommand
  <2>6. SkipsKnown'
    BY <1>1, <2>4, <2>5 DEF SkipsKnown
  <2>7. NamesRead'
    <3>1. SelectedUpTo(cmd.names, 0, Names \ ToSkip) = <<>>
      BY SelectedNone
    <3>2. (next - 1)' = 0 /\ 1 .. 0 = {}
      BY <1>4
    <3>3. toRun' = <<>> /\ flags' = Chosen' /\ next' <= Len(cmd'.names) + 1
      BY <1>1, <1>4, <2>1, <2>2, <2>4, <2>5
    <3> QED
      BY <1>1, <2>5, <3>1, <3>2, <3>3 DEF NamesRead
  <2>8. TypeOK'
    BY <1>1, <1>4 DEF Inv, TypeOK
  <2>9. Started' /\ Selecting'
    BY <1>4, <2>6, <2>7 DEF Started, Selecting, OptionsRead, NamesKnown, ListRead, SelectionIsExact
  <2> QED
    BY <1>1, <2>8, <2>9, ListStays DEF Inv
<1> QED
  BY <1>3, <1>4 DEF CheckOptions

LEMMA TakeNameKeeps ==
  ASSUME Inv, TakeName
  PROVE  Inv'
<1> DEFINE name == cmd.names[next]
           S == Names \ ToSkip
<1>1. /\ pc = "names" /\ next <= Len(cmd.names)
      /\ UNCHANGED <<cmd, pending, list, flags, seen, toSkip>>
  BY DEF TakeName
<1>2. cmd \in CommandLines /\ next \in Nat \ {0} /\ toSkip \subseteq Tests /\ toRun \in Seq(Tests)
  BY DEF Inv, TypeOK
<1>3. CASE Leave("error")
  BY <1>1, <1>2, <1>3, LeaveKeeps
<1>4. CASE name # Unknown /\ AppendUnlessSkipped(name) /\ next' = next + 1 /\ UNCHANGED <<pc, ret>>
  <2>1. Len(cmd.names) \in Nat /\ next \in 1 .. Len(cmd.names) /\ cmd.names \in Seq(Names)
    BY <1>1, <1>2, CommandFacts, LenProperties
  <2>2. name \in Tests
    BY <1>4, <2>1 DEF Names
  <2>3. /\ toSkip = ToSkip /\ Unknown \notin ToSkip
        /\ flags = Chosen /\ \A i \in 1 .. next - 1 : cmd.names[i] # Unknown
        /\ toRun = SelectedUpTo(cmd.names, next - 1, S)
    BY <1>1 DEF Inv, Selecting, SkipsKnown, NamesRead
  <2>4. ToSkip' = ToSkip /\ Chosen' = Chosen
    BY <1>1, SameCommand
  <2>5. toRun' = (IF name \in S THEN Append(toRun, name) ELSE toRun) /\ toRun' \in Seq(Tests)
    <3>1. name \in S <=> name \notin toSkip
      BY <2>2, <2>3 DEF Names
    <3>2. Append(toRun, name) \in Seq(Tests)
      BY <1>2, <2>2
    <3> QED
      BY <1>2, <1>4, <3>1, <3>2 DEF AppendUnlessSkipped, Skipped
  <2>6. SelectedUpTo(cmd.names, next, S) = IF name \in S THEN Append(toRun, name) ELSE toRun
    <3>1. next - 1 \in Nat /\ (next - 1) + 1 = next
      BY <1>2
    <3>2. SelectedUpTo(cmd.names, (next - 1) + 1, S) =
            IF cmd.names[(next - 1) + 1] \in S
            THEN Append(SelectedUpTo(cmd.names, next - 1, S), cmd.names[(next - 1) + 1])
            ELSE SelectedUpTo(cmd.names, next - 1, S)
      BY <1>2, <2>2, <2>3, <3>1, SelectedNext
    <3> QED
      BY <2>3, <3>1, <3>2
  <2>7. NamesRead'
    <3>1. next' - 1 = next /\ next' <= Len(cmd.names) + 1
      BY <1>2, <1>4, <2>1
    <3>2. \A i \in 1 .. next : cmd.names[i] # Unknown
      <4>1. \A i \in 1 .. next : i \in 1 .. next - 1 \/ i = next
        BY <1>2
      <4> QED
        BY <1>4, <2>3, <4>1
    <3>3. SelectedUpTo(cmd.names, next - 1, Names \ ToSkip)' = SelectedUpTo(cmd.names, next, S)
      BY <1>1, <2>4, <3>1
    <3> QED
      BY <1>1, <2>3, <2>4, <2>5, <2>6, <3>1, <3>2, <3>3 DEF NamesRead
  <2>8. SkipsKnown'
    BY <1>1, <2>3, <2>4 DEF SkipsKnown
  <2>9. TypeOK'
    BY <1>1, <1>2, <1>4, <2>5 DEF Inv, TypeOK
  <2>10. Started' /\ Selecting'
    BY <1>1, <1>4, <2>7, <2>8 DEF Started, Selecting, OptionsRead, NamesKnown, ListRead, SelectionIsExact
  <2> QED
    BY <1>1, <2>9, <2>10, ListStays DEF Inv
<1> QED
  BY <1>3, <1>4 DEF TakeName

LEMMA EndNamesKeeps ==
  ASSUME Inv, EndNames
  PROVE  Inv'
<1>1. /\ pc = "names" /\ next > Len(cmd.names) /\ pc' = "scan" /\ next' = 1
      /\ flags' = IF DefaultsToBatch THEN {Batch} ELSE flags
      /\ UNCHANGED <<cmd, pending, list, seen, toSkip, toRun, ret>>
  BY DEF EndNames
<1>2. /\ cmd \in CommandLines /\ next \in Nat \ {0} /\ toRun \in Seq(Tests) /\ list \in Seq(Tests)
      /\ flags \subseteq Categories
  BY DEF Inv, TypeOK
<1>3. Len(cmd.names) \in Nat /\ DOMAIN cmd.names = 1 .. Len(cmd.names)
  BY <1>2, CommandFacts, LenProperties
<1>4. /\ next <= Len(cmd.names) + 1 /\ flags = Chosen
      /\ \A i \in 1 .. next - 1 : cmd.names[i] # Unknown
      /\ toRun = SelectedUpTo(cmd.names, next - 1, Names \ ToSkip)
      /\ toSkip = ToSkip /\ Unknown \notin ToSkip
  BY <1>1 DEF Inv, Selecting, NamesRead, SkipsKnown
<1>5. next - 1 = Len(cmd.names)
  BY <1>1, <1>2, <1>3, <1>4
<1>6. toRun = Named
  BY <1>4, <1>5 DEF Named, Selected
<1>7. flags' = Wanted
  BY <1>1, <1>4, <1>6 DEF DefaultsToBatch, Wanted
<1>8. Unknown \notin Range(cmd.names)
  BY <1>3, <1>4, <1>5 DEF Range
<1>9. /\ ToSkip' = ToSkip /\ Chosen' = Chosen /\ Named' = Named
      /\ Wanted' = Wanted /\ InCategory' = InCategory
  BY <1>1, SameCommand
<1>10. NamesKnown' /\ SkipsKnown'
  BY <1>1, <1>2, <1>4, <1>6, <1>7, <1>8, <1>9 DEF NamesKnown, SkipsKnown
<1>11. ListRead'
  <2>1. SelectedUpTo(list, 0, InCategory) = <<>>
    BY SelectedNone
  <2>2. Named \o <<>> = Named
    BY <1>2, <1>6, ConcatEmptySeq
  <2>3. <<>> \in Seq(Tests) /\ next' - 1 = 0 /\ next' <= Len(list) + 1
    BY <1>1, <1>2, LenProperties
  <2>4. SelectedUpTo(list, next - 1, InCategory)' = <<>>
    BY <1>1, <1>9, <2>1, <2>3
  <2> QED
    BY <1>1, <1>6, <1>9, <2>2, <2>3, <2>4 DEF ListRead
<1>12. TypeOK'
  BY <1>1, <1>2, RegistryAssumption DEF Inv, TypeOK
<1>13. Started' /\ Selecting'
  BY <1>1, <1>10, <1>11 DEF Started, Selecting, OptionsRead, NamesRead, SelectionIsExact
<1> QED
  BY <1>1, <1>12, <1>13, ListStays DEF Inv

LEMMA ConcatAppend ==
  \A r, s \in Seq(Tests) : \A e \in Tests : Append(r \o s, e) = r \o Append(s, e)
<1> SUFFICES ASSUME NEW r \in Seq(Tests), NEW s \in Seq(Tests), NEW e \in Tests
             PROVE  Append(r \o s, e) = r \o Append(s, e)
  OBVIOUS
<1>1. <<e>> \in Seq(Tests) /\ r \o s \in Seq(Tests)
  BY ConcatProperties
<1>2. Append(r \o s, e) = (r \o s) \o <<e>> /\ Append(s, e) = s \o <<e>>
  BY <1>1, AppendIsConcat
<1> QED
  BY <1>1, <1>2, ConcatAssociative

LEMMA ScanTestKeeps ==
  ASSUME Inv, ScanTest
  PROVE  Inv'
<1> DEFINE t == list[next]
           sel == SelectedUpTo(list, next - 1, InCategory)
<1>1. /\ pc = "scan" /\ next <= Len(list) /\ next' = next + 1
      /\ IF flags \cap TestFlags[t] # {} THEN AppendUnlessSkipped(t) ELSE UNCHANGED toRun
      /\ UNCHANGED <<cmd, pending, list, pc, flags, seen, toSkip, ret>>
  BY DEF ScanTest
<1>2. next \in Nat \ {0} /\ toRun \in Seq(Tests) /\ list \in Seq(Tests)
  BY DEF Inv, TypeOK
<1>3. Len(list) \in Nat /\ next \in 1 .. Len(list) /\ t \in Tests
  BY <1>1, <1>2, LenProperties, ElementOfSeq
<1>4. /\ toSkip = ToSkip /\ Unknown \notin ToSkip /\ flags = Wanted
      /\ Unknown \notin Range(cmd.names) /\ Named \in Seq(Tests)
      /\ sel \in Seq(Tests) /\ toRun = Named \o sel
  BY <1>1 DEF Inv, Selecting, SkipsKnown, NamesKnown, ListRead
<1>5. /\ ToSkip' = ToSkip /\ Chosen' = Chosen /\ Named' = Named
      /\ Wanted' = Wanted /\ InCategory' = InCategory
  BY <1>1, SameCommand
<1>6. toRun' = IF t \in InCategory THEN Append(toRun, t) ELSE toRun
  BY <1>1, <1>3, <1>4 DEF AppendUnlessSkipped, Skipped, InCategory
<1>7. SelectedUpTo(list, next, InCategory) = IF t \in InCategory THEN Append(sel, t) ELSE sel
  <2>1. next - 1 \in Nat /\ (next - 1) + 1 = next
    BY <1>2
  <2>2. SelectedUpTo(list, (next - 1) + 1, InCategory) =
          IF list[(next - 1) + 1] \in InCategory
          THEN Append(SelectedUpTo(list, next - 1, InCategory), list[(next - 1) + 1])
          ELSE SelectedUpTo(list, next - 1, InCategory)
    BY <1>3, <1>4, <2>1, SelectedNext
  <2> QED
    BY <2>1, <2>2
<1> HIDE DEF sel, t
<1>8. /\ SelectedUpTo(list, next, InCategory) \in Seq(Tests)
      /\ toRun' = Named \o SelectedUpTo(list, next, InCategory)
      /\ toRun' \in Seq(Tests)
  <2>1. CASE t \in InCategory
    <3>1. Append(sel, t) \in Seq(Tests) /\ Append(toRun, t) \in Seq(Tests)
      BY <1>2, <1>3, <1>4
    <3>2. Append(Named \o sel, t) = Named \o Append(sel, t)
      <4>1. Named \in Seq(Tests) /\ sel \in Seq(Tests) /\ t \in Tests
        BY <1>3, <1>4
      <4> QED
        BY <4>1, ConcatAppend, Zenon
    <3> QED
      BY <1>4, <1>6, <1>7, <2>1, <3>1, <3>2
  <2>2. CASE t \notin InCategory
    BY <1>2, <1>4, <1>6, <1>7, <2>2
  <2> QED
    BY <2>1, <2>2
<1>9. ListRead'
  <2>1. next' - 1 = next /\ next' <= Len(list) + 1
    BY <1>1, <1>2, <1>3
  <2>2. SelectedUpTo(list, next - 1, InCategory)' = SelectedUpTo(list, next, InCategory)
    BY <1>1, <1>5, <2>1
  <2> QED
    BY <1>1, <1>5, <1>8, <2>1, <2>2 DEF ListRead
<1>10. NamesKnown' /\ SkipsKnown'
  BY <1>1, <1>4, <1>5 DEF NamesKnown, SkipsKnown
<1>11. TypeOK'
  BY <1>1, <1>2, <1>8 DEF Inv, TypeOK
<1>12. Started' /\ Selecting'
  BY <1>1, <1>9, <1>10 DEF Started, Selecting, OptionsRead, NamesRead, SelectionIsExact
<1> QED
  BY <1>1, <1>11, <1>12, ListStays DEF Inv

LEMMA EndScanKeeps ==
  ASSUME Inv, EndScan
  PROVE  Inv'
<1>1. /\ pc = "scan" /\ next > Len(list) /\ pc' = "run"
      /\ UNCHANGED <<cmd, pending, list, next, flags, seen, toSkip, toRun, ret>>
  BY DEF EndScan
<1>2. next \in Nat \ {0} /\ Len(list) \in Nat
  BY LenProperties DEF Inv, TypeOK
<1>3. /\ toSkip = ToSkip /\ Unknown \notin ToSkip /\ flags = Wanted
      /\ Unknown \notin Range(cmd.names) /\ Named \in Seq(Tests) /\ next <= Len(list) + 1
      /\ toRun = Named \o SelectedUpTo(list, next - 1, InCategory)
  BY <1>1 DEF Inv, Selecting, SkipsKnown, NamesKnown, ListRead
<1>4. next - 1 = Len(list)
  BY <1>1, <1>2, <1>3
<1>5. toRun = Named \o Selected(list, InCategory)
  BY <1>3, <1>4 DEF Selected
<1>6. /\ ToSkip' = ToSkip /\ Chosen' = Chosen /\ Named' = Named
      /\ Wanted' = Wanted /\ InCategory' = InCategory
  BY <1>1, SameCommand
<1>7. SelectionIsExact' /\ NamesKnown' /\ SkipsKnown'
  BY <1>1, <1>3, <1>5, <1>6 DEF SelectionIsExact, NamesKnown, SkipsKnown
<1>8. TypeOK' /\ Started' /\ Selecting'
  BY <1>1, <1>7 DEF Inv, TypeOK, Started, Selecting, OptionsRead, NamesRead, ListRead
<1> QED
  BY <1>1, <1>8, ListStays DEF Inv

LEMMA StutterKeeps ==
  ASSUME Inv, UNCHANGED vars
  PROVE  Inv'
<1>1. UNCHANGED <<cmd, pending, list, pc, next, flags, seen, toSkip, toRun, ret>>
  BY DEF vars
<1>2. TypeOK' /\ RegisteredInOrder' /\ Started'
  BY <1>1 DEF Inv, TypeOK, RegisteredInOrder, Started
<1>3. /\ ToSkip' = ToSkip /\ Chosen' = Chosen /\ Named' = Named
      /\ Wanted' = Wanted /\ InCategory' = InCategory
  BY <1>1, SameCommand
<1>4. OptionsRead'
  BY <1>1 DEF Inv, Selecting, OptionsRead, ChosenBy, SkippedBy
<1>5. Selecting'
  BY <1>1, <1>3, <1>4 DEF Inv, Selecting, SkipsKnown, NamesRead, NamesKnown, ListRead, SelectionIsExact
<1> QED
  BY <1>2, <1>5 DEF Inv

LEMMA NextKeeps == Inv /\ [Next]_vars => Inv'
  BY RegisterKeeps, MainKeeps, TakeOptionKeeps, CheckOptionsKeeps, TakeNameKeeps, EndNamesKeeps,
     ScanTestKeeps, EndScanKeeps, StutterKeeps DEF Next, Terminating

THEOREM InvariantHolds == Spec => []Inv
<1> QED
  BY InitProof, NextKeeps, PTL DEF Spec

(* The list, the skip list and the tests to run hold registered tests only,  *)
(* and the flags categories, after any options and names.                    *)
THEOREM TypeCorrect == Spec => []TypeOK
<1>1. Inv => TypeOK
  BY DEF Inv
<1> QED
  BY <1>1, InvariantHolds, PTL

(* fwts_list_add_ordered() keeps the registered tests in priority order, each *)
(* of them once, in whatever order the constructors ran.                      *)
THEOREM AlwaysRegisteredInOrder == Spec => []RegisteredInOrder
<1>1. Inv => RegisteredInOrder
  BY DEF Inv
<1> QED
  BY <1>1, InvariantHolds, PTL

(* The tests that run are the named ones in the order of the command line and *)
(* those of the chosen categories in priority order, but for the skipped: for *)
(* any command line, wherever its options stand.                              *)
THEOREM SelectionAlwaysExact == Spec => []SelectionIsExact
<1>1. Inv => SelectionIsExact
  BY DEF Inv, Selecting
<1> QED
  BY <1>1, InvariantHolds, PTL

(* An unknown name, among the tests to run or those to skip, runs nothing.   *)
THEOREM UnknownNeverRuns == Spec => []UnknownNameRunsNothing
<1>1. Inv => UnknownNameRunsNothing
  BY DEF Inv, Selecting, SkipsKnown, NamesKnown, UnknownNameRunsNothing
<1> QED
  BY <1>1, InvariantHolds, PTL
=============================================================================
