----------------------------- MODULE Dict_proofs -----------------------------
(***************************************************************************)
(* Proofs about dict.c.  The state of the dictionary is abstracted by      *)
(* DictOK(x, K): the record x is a dictionary that holds exactly the keys  *)
(* K.  Every operation of Dict is shown to take one such dictionary to     *)
(* another, once and for all keys, hash functions and sizes; the theorems  *)
(* about the specification then follow action by action.                   *)
(***************************************************************************)
EXTENDS Dict, TLAPS, FiniteSetTheorems, WellFoundedInduction, NaturalsInduction

AllOf(t) == Held(t, 0, t.size)

TableType(t) ==
  t \in [size : Nat, used : Nat, table : [0..(t.size - 1) -> SUBSET Keys]]

\* Every key is in the bucket of its hash, and the counter counts them.
TableOK(t) ==
  /\ TableType(t)
  /\ \A i \in 0..(t.size - 1) : \A k \in t.table[i] : Index(k, t) = i
  /\ t.used = Cardinality(AllOf(t))

Shape(x) ==
  x \in [ht : [{0, 1} -> {x.ht[0], x.ht[1]}], rehashidx : Int, iterators : Int]

\* No key is in both tables; the second exists only during a rehashing, and
\* then the buckets below rehashidx are empty.
DictOK(x, K) ==
  /\ Shape(x)
  /\ TableOK(x.ht[0]) /\ TableOK(x.ht[1])
  /\ AllOf(x.ht[0]) \cap AllOf(x.ht[1]) = {}
  /\ AllOf(x.ht[0]) \cup AllOf(x.ht[1]) = K
  /\ ~IsRehashing(x) => x.ht[1].size = 0
  /\ IsRehashing(x) => /\ x.ht[0].size > 0 /\ x.ht[1].size > 0
                       /\ x.rehashidx \in 0..x.ht[0].size
                       /\ Held(x.ht[0], 0, x.rehashidx) = {}

-----------------------------------------------------------------------------
(* Tables. *)

\* A non-empty set of numbers has a least element.
LEMMA Least ==
  ASSUME NEW S, S \subseteq Nat, S # {}
  PROVE  \E m \in S : \A j \in S : m <= j
<1>1. IsWellFoundedOn(OpToRel(<, Nat), Nat)
  BY NatLessThanWellFounded, Zenon
<1>2. PICK m \in S : \A y \in S : ~(<<y, m>> \in OpToRel(<, Nat))
  BY <1>1, WFMin, Zenon
<1>3. \A y \in S : ~(y < m)
  BY <1>2, Zenon DEF OpToRel
<1> QED BY <1>3

\* The keys of a table are finitely many keys.
LEMMA HeldFinite ==
  ASSUME NEW t, TableType(t), NEW lo \in Nat, NEW hi \in Int, hi <= t.size
  PROVE  /\ Held(t, lo, hi) \subseteq AllOf(t)
         /\ AllOf(t) \subseteq Keys
         /\ IsFiniteSet(Held(t, lo, hi)) /\ IsFiniteSet(AllOf(t))
         /\ Cardinality(Held(t, lo, hi)) \in Nat /\ Cardinality(AllOf(t)) \in Nat
<1>1. Held(t, lo, hi) \subseteq AllOf(t)
  BY DEF Held, AllOf, TableType
<1>2. AllOf(t) \subseteq Keys
  BY DEF Held, AllOf, TableType
<1>3. IsFiniteSet(Keys)
  BY DictAssumption
<1>4. IsFiniteSet(Held(t, lo, hi)) /\ IsFiniteSet(AllOf(t))
  BY <1>1, <1>2, <1>3, FS_Subset
<1> QED BY <1>1, <1>2, <1>4, FS_CardinalityType

LEMMA IndexType ==
  ASSUME NEW t, t.size \in Nat \ {0}, NEW k \in Keys
  PROVE  Index(k, t) \in 0..(t.size - 1)
<1>1. Hash[k] \in Nat
  BY DictAssumption
<1> QED BY <1>1 DEF Index

\* A key of a table is found by its hash.
LEMMA HoldsExact ==
  ASSUME NEW t, TableOK(t), t.size > 0, NEW k \in Keys
  PROVE  Holds(t, k) <=> k \in AllOf(t)
<1>1. t.size \in Nat \ {0}
  BY DEF TableOK, TableType
<1>2. Index(k, t) \in 0..(t.size - 1)
  BY <1>1, IndexType
<1> QED BY <1>1, <1>2 DEF Holds, AllOf, Held, TableOK

\* An allocated table is empty and sound.
LEMMA NewTableOK ==
  ASSUME NEW n \in Nat
  PROVE  /\ TableOK(NewTable(n)) /\ AllOf(NewTable(n)) = {}
         /\ NewTable(n).size = n
<1>1. AllOf(NewTable(n)) = {}
  BY DEF AllOf, Held, NewTable
<1>2. Cardinality({}) = 0
  BY FS_EmptySet
<1> QED BY <1>1, <1>2, Zenon DEF TableOK, TableType, NewTable

LEMMA NoTableOK == TableOK(NoTable) /\ AllOf(NoTable) = {} /\ NoTable.size = 0
<1>1. AllOf(NoTable) = {}
  BY DEF AllOf, Held, NoTable
<1>2. Cardinality({}) = 0
  BY FS_EmptySet
<1> QED BY <1>1, <1>2 DEF TableOK, TableType, NoTable

\* Linking a new key into its chain adds that key and counts it.
LEMMA LinkedOK ==
  ASSUME NEW t, TableOK(t), t.size > 0, NEW k \in Keys, k \notin AllOf(t)
  PROVE  /\ TableOK(Linked(t, k)) /\ Linked(t, k).size = t.size
         /\ AllOf(Linked(t, k)) = AllOf(t) \cup {k}
<1> DEFINE u == Linked(t, k)
           j == Index(k, t)
<1>1. t.size \in Nat \ {0} /\ t.used \in Nat
  BY DEF TableOK, TableType
<1>2. j \in 0..(t.size - 1)
  BY <1>1, IndexType
<1> DEFINE chains == [t.table EXCEPT ![j] = @ \cup {k}]
<1>3. chains \in [0..(t.size - 1) -> SUBSET Keys]
  BY <1>2 DEF TableOK, TableType
<1>4. u = [t EXCEPT !.table = chains, !.used = t.used + 1]
  BY DEF Linked, TableOK, TableType
<1>5. /\ u.size = t.size /\ u.used = t.used + 1 /\ u.table = chains
      /\ TableType(u)
  <2> HIDE DEF u, chains
  <2>1. u.size = t.size /\ u.used = t.used + 1 /\ u.table = chains
    BY <1>4 DEF TableOK, TableType
  <2>2. t.used + 1 \in Nat
    BY <1>1
  <2>3. u \in [size : Nat, used : Nat, table : [0..(t.size - 1) -> SUBSET Keys]]
    BY <1>3, <1>4, <2>2, Zenon DEF TableOK, TableType
  <2> QED BY <2>1, <2>3 DEF TableType
<1>6. AllOf(u) = AllOf(t) \cup {k}
  BY <1>2, <1>5 DEF AllOf, Held, TableOK, TableType
<1>7. Cardinality(AllOf(u)) = Cardinality(AllOf(t)) + 1
  <2>1. IsFiniteSet(AllOf(t))
    BY HeldFinite DEF TableOK, AllOf, TableType
  <2> QED BY <2>1, <1>6, FS_AddElement, Zenon
<1>8. \A i \in 0..(u.size - 1) : \A q \in u.table[i] : Index(q, u) = i
  BY <1>2, <1>5 DEF Index, TableOK, TableType
<1> QED BY <1>5, <1>6, <1>7, <1>8 DEF TableOK

\* Unlinking a key from its chain removes that key and counts it off.
LEMMA UnlinkedOK ==
  ASSUME NEW t, TableOK(t), t.size > 0, NEW k \in Keys, k \in AllOf(t)
  PROVE  /\ TableOK(Unlinked(t, k)) /\ Unlinked(t, k).size = t.size
         /\ AllOf(Unlinked(t, k)) = AllOf(t) \ {k}
         /\ \A i \in 0..(t.size - 1) : Unlinked(t, k).table[i] \subseteq t.table[i]
<1> DEFINE u == Unlinked(t, k)
           j == Index(k, t)
<1>1. t.size \in Nat \ {0} /\ t.used \in Nat
  BY DEF TableOK, TableType
<1>2. j \in 0..(t.size - 1)
  BY <1>1, IndexType
<1>3. IsFiniteSet(AllOf(t)) /\ Cardinality(AllOf(t)) \in Nat
  BY HeldFinite DEF TableOK, AllOf, TableType
<1>4. Cardinality(AllOf(t) \ {k}) = t.used - 1 /\ t.used - 1 \in Nat
  <2>1. Cardinality(AllOf(t) \ {k}) = Cardinality(AllOf(t)) - 1
    BY <1>3, FS_RemoveElement, Zenon
  <2>2. IsFiniteSet(AllOf(t) \ {k})
    BY <1>3, FS_RemoveElement
  <2>3. Cardinality(AllOf(t) \ {k}) \in Nat
    BY <2>2, FS_CardinalityType
  <2> QED BY <2>1, <2>3 DEF TableOK
<1>5. /\ u.size = t.size /\ u.used = t.used - 1
      /\ u.table = [t.table EXCEPT ![j] = @ \ {k}]
      /\ TableType(u)
  BY <1>1, <1>2, <1>4, Zenon DEF Unlinked, TableOK, TableType
<1>6. AllOf(u) = AllOf(t) \ {k}
  BY <1>2, <1>5 DEF AllOf, Held, TableOK, TableType
<1>7. \A i \in 0..(u.size - 1) : \A q \in u.table[i] : Index(q, u) = i
  BY <1>2, <1>5 DEF Index, TableOK, TableType
<1>8. \A i \in 0..(t.size - 1) : u.table[i] \subseteq t.table[i]
  BY <1>2, <1>5 DEF TableOK, TableType
<1> QED BY <1>4, <1>5, <1>6, <1>7, <1>8 DEF TableOK

\* Emptying a range of buckets leaves the keys of the others.
LEMMA EmptiedOK ==
  ASSUME NEW t, TableOK(t), NEW lo \in Nat, NEW hi \in Nat, hi <= t.size
  PROVE  /\ TableOK(Emptied(t, lo, hi)) /\ Emptied(t, lo, hi).size = t.size
         /\ AllOf(Emptied(t, lo, hi)) = AllOf(t) \ Held(t, lo, hi)
         /\ \A i \in 0..(t.size - 1) :
              Emptied(t, lo, hi).table[i] = IF i \in lo..(hi - 1) THEN {} ELSE t.table[i]
<1> DEFINE u == Emptied(t, lo, hi)
           gone == Held(t, lo, hi)
           chains == [i \in 0..(t.size - 1) |-> IF i \in lo..(hi - 1) THEN {} ELSE t.table[i]]
<1>1. /\ gone \subseteq AllOf(t) /\ IsFiniteSet(gone) /\ IsFiniteSet(AllOf(t))
      /\ Cardinality(gone) \in Nat
  BY HeldFinite DEF TableOK
<1>2. Cardinality(AllOf(t) \ gone) = t.used - Cardinality(gone)
  <2>1. AllOf(t) \cap gone = gone
    BY <1>1
  <2>2. Cardinality(AllOf(t) \ gone) = Cardinality(AllOf(t)) - Cardinality(AllOf(t) \cap gone)
    BY <1>1, FS_Difference
  <2> QED BY <2>1, <2>2 DEF TableOK
<1>3. t.used - Cardinality(gone) \in Nat
  <2>1. IsFiniteSet(AllOf(t) \ gone)
    BY <1>1, FS_Difference, Zenon
  <2> QED BY <1>2, <2>1, FS_CardinalityType
<1>4. chains \in [0..(t.size - 1) -> SUBSET Keys]
  BY DEF TableOK, TableType
<1>5. u = [t EXCEPT !.used = t.used - Cardinality(gone), !.table = chains]
  BY Zenon DEF Emptied, TableOK, TableType
<1>6. /\ u.size = t.size /\ u.used = t.used - Cardinality(gone) /\ u.table = chains
      /\ TableType(u)
  <2> HIDE DEF u, chains, gone
  <2>1. u.size = t.size /\ u.used = t.used - Cardinality(gone) /\ u.table = chains
    BY <1>5 DEF TableOK, TableType
  <2>2. u \in [size : Nat, used : Nat, table : [0..(t.size - 1) -> SUBSET Keys]]
    BY <1>3, <1>4, <1>5, Zenon DEF TableOK, TableType
  <2> QED BY <2>1, <2>2 DEF TableType
<1>7. \A i \in 0..(u.size - 1) : \A q \in u.table[i] : q \in t.table[i] /\ Index(q, u) = i
  BY <1>6 DEF Index, TableOK, TableType
<1>8. AllOf(u) = AllOf(t) \ gone
  <2>1. ASSUME NEW k \in AllOf(u) PROVE k \in AllOf(t) /\ k \notin gone
    <3>1. PICK i \in 0..(u.size - 1) : k \in u.table[i]
      BY DEF AllOf, Held
    <3>2. i \notin lo..(hi - 1) /\ k \in t.table[i]
      BY <3>1, <1>6
    <3>3. i \in 0..(t.size - 1) /\ Index(k, t) = i
      BY <3>1, <3>2, <1>6 DEF TableOK
    <3>4. \A j \in lo..(hi - 1) : j \in 0..(t.size - 1)
      BY DEF TableOK, TableType
    <3>5. \A j \in lo..(hi - 1) : k \in t.table[j] => j = i
      BY <3>3, <3>4 DEF TableOK
    <3> QED BY <3>2, <3>3, <3>5 DEF AllOf, Held
  <2>2. ASSUME NEW k \in AllOf(t), k \notin gone PROVE k \in AllOf(u)
    <3>1. PICK i \in 0..(t.size - 1) : k \in t.table[i]
      BY DEF AllOf, Held
    <3>2. i \notin lo..(hi - 1)
      BY <3>1, <2>2 DEF Held
    <3> QED BY <3>1, <3>2, <1>6 DEF AllOf, Held
  <2> QED BY <2>1, <2>2
<1> QED BY <1>2, <1>6, <1>7, <1>8, Zenon DEF TableOK

\* Linking the keys of S, none of which is in the table, adds just those.
LEMMA FilledOK ==
  ASSUME NEW t, TableOK(t), t.size > 0, NEW S, S \subseteq Keys, S \cap AllOf(t) = {}
  PROVE  /\ TableOK(Filled(t, S)) /\ Filled(t, S).size = t.size
         /\ AllOf(Filled(t, S)) = AllOf(t) \cup S
<1> DEFINE u == Filled(t, S)
           chains == [i \in 0..(t.size - 1) |-> t.table[i] \cup {k \in S : Index(k, t) = i}]
<1>1. /\ IsFiniteSet(AllOf(t)) /\ IsFiniteSet(S) /\ Cardinality(S) \in Nat
      /\ t.size \in Nat \ {0} /\ t.used \in Nat
  <2>1. IsFiniteSet(S)
    BY DictAssumption, FS_Subset
  <2>2. t.size \in Nat \ {0} /\ t.used \in Nat
    BY DEF TableOK, TableType
  <2>3. IsFiniteSet(AllOf(t))
    BY <2>2, HeldFinite DEF TableOK, AllOf
  <2> QED BY <2>1, <2>2, <2>3, FS_CardinalityType
<1>2. Cardinality(AllOf(t) \cup S) = t.used + Cardinality(S)
  <2>1. /\ AllOf(t) \cap S = {}
        /\ Cardinality({}) = 0
    BY FS_EmptySet
  <2>2. Cardinality(AllOf(t) \cup S) = Cardinality(AllOf(t)) + Cardinality(S) - Cardinality(AllOf(t) \cap S)
    BY <1>1, FS_Union
  <2> QED BY <1>1, <2>1, <2>2 DEF TableOK
<1>3. chains \in [0..(t.size - 1) -> SUBSET Keys]
  BY DEF TableOK, TableType
<1>4. u = [t EXCEPT !.used = t.used + Cardinality(S), !.table = chains]
  BY Zenon DEF Filled, TableOK, TableType
<1>5. /\ u.size = t.size /\ u.used = t.used + Cardinality(S) /\ u.table = chains
      /\ TableType(u)
  <2> HIDE DEF u, chains
  <2>1. u.size = t.size /\ u.used = t.used + Cardinality(S) /\ u.table = chains
    BY <1>4 DEF TableOK, TableType
  <2>2. t.used + Cardinality(S) \in Nat
    BY <1>1
  <2>3. u \in [size : Nat, used : Nat, table : [0..(t.size - 1) -> SUBSET Keys]]
    BY <1>3, <1>4, <2>2, Zenon DEF TableOK, TableType
  <2> QED BY <2>1, <2>3 DEF TableType
<1>6. \A k \in S : Index(k, t) \in 0..(t.size - 1)
  BY <1>1, IndexType
<1>7. AllOf(u) = AllOf(t) \cup S
  BY <1>5, <1>6 DEF AllOf, Held
<1>8. \A i \in 0..(u.size - 1) : \A q \in u.table[i] : Index(q, u) = i
  BY <1>5 DEF Index, TableOK
<1> QED BY <1>2, <1>5, <1>7, <1>8 DEF TableOK

-----------------------------------------------------------------------------
(* Dictionaries. *)

\* x with other tables.
With(x, a, b, r) ==
  [x EXCEPT !.ht = [s \in {0, 1} |-> IF s = 0 THEN a ELSE b], !.rehashidx = r]

LEMMA WithShape ==
  ASSUME NEW x, Shape(x), NEW a, NEW b, NEW r \in Int
  PROVE  /\ Shape(With(x, a, b, r))
         /\ With(x, a, b, r).ht[0] = a /\ With(x, a, b, r).ht[1] = b
         /\ With(x, a, b, r).rehashidx = r /\ With(x, a, b, r).iterators = x.iterators
<1> DEFINE h == [s \in {0, 1} |-> IF s = 0 THEN a ELSE b]
           y == [x EXCEPT !.ht = h, !.rehashidx = r]
<1>1. h[0] = a /\ h[1] = b /\ h \in [{0, 1} -> {a, b}]
  OBVIOUS
<1>2. With(x, a, b, r) = y
  BY DEF With
<1> HIDE DEF h
<1>3. y.ht = h /\ y.rehashidx = r /\ y.iterators = x.iterators
  BY DEF Shape
<1>4. y \in [ht : [{0, 1} -> {a, b}], rehashidx : Int, iterators : Int]
  BY <1>1, Zenon DEF Shape
<1>5. Shape(y)
  BY <1>1, <1>3, <1>4 DEF Shape
<1> QED BY <1>1, <1>2, <1>3, <1>5

LEMMA PutTable ==
  ASSUME NEW x, Shape(x), NEW a
  PROVE  /\ [x EXCEPT !.ht[0] = a] = With(x, a, x.ht[1], x.rehashidx)
         /\ [x EXCEPT !.ht[1] = a] = With(x, x.ht[0], a, x.rehashidx)
         /\ [x EXCEPT !.ht[1] = a, !.rehashidx = 0] = With(x, x.ht[0], a, 0)
<1>1. /\ [x.ht EXCEPT ![0] = a] = [s \in {0, 1} |-> IF s = 0 THEN a ELSE x.ht[1]]
      /\ [x.ht EXCEPT ![1] = a] = [s \in {0, 1} |-> IF s = 0 THEN x.ht[0] ELSE a]
  BY DEF Shape
<1> QED BY <1>1, Zenon DEF Shape, With

\* dictRehash stops within the old table: the assertion
\* "ht[0].size > rehashidx" of dict.c holds.
LEMMA StopType ==
  ASSUME NEW x, NEW K, DictOK(x, K), IsRehashing(x), NEW n \in Nat
  PROVE  StopAt(x, n) \in x.rehashidx..x.ht[0].size
<1> DEFINE t == x.ht[0]
           range == x.rehashidx..t.size
           S == {e \in range : Stops(x, n, e)}
<1>1. TableOK(t) /\ t.size \in Nat /\ x.rehashidx \in 0..t.size
  BY DEF DictOK, TableOK, TableType
<1>2. Held(t, x.rehashidx, t.size) = AllOf(t)
  <2>1. \A i \in 0..(t.size - 1) : i \in 0..(x.rehashidx - 1) \/ i \in x.rehashidx..(t.size - 1)
    BY <1>1
  <2>2. Held(t, 0, x.rehashidx) = {}
    BY DEF DictOK
  <2>3. AllOf(t) = Held(t, 0, x.rehashidx) \cup Held(t, x.rehashidx, t.size)
    BY <1>1, <2>1 DEF Held, AllOf
  <2> QED BY <2>2, <2>3
<1>3. Stops(x, n, t.size)
  BY <1>1, <1>2 DEF Stops, TableOK
<1>4. S \subseteq Nat /\ S # {}
  BY <1>1, <1>3
<1>5. PICK m \in S : \A j \in S : m <= j
  BY <1>4, Least, Zenon
<1>6. \A f \in x.rehashidx..(m - 1) : ~Stops(x, n, f)
  BY <1>1, <1>5
<1>7. \E e \in range : Stops(x, n, e) /\ \A f \in x.rehashidx..(e - 1) : ~Stops(x, n, f)
  BY <1>5, <1>6
<1> QED BY <1>7 DEF StopAt

\* A step of rehashing moves keys and loses none.
LEMMA RehashOK ==
  ASSUME NEW x, NEW K, DictOK(x, K), NEW n \in Nat
  PROVE  DictOK(Rehash(x, n), K) /\ Rehash(x, n).iterators = x.iterators
<1>1. CASE ~IsRehashing(x)
  BY <1>1 DEF Rehash
<1>2. CASE IsRehashing(x)
  <2> DEFINE e == StopAt(x, n)
             moved == Held(x.ht[0], x.rehashidx, e)
             old == Emptied(x.ht[0], x.rehashidx, e)
             new == Filled(x.ht[1], moved)
             y == Rehash(x, n)
  <2>1. /\ TableOK(x.ht[0]) /\ TableOK(x.ht[1])
        /\ x.ht[0].size \in Nat \ {0} /\ x.ht[1].size \in Nat \ {0}
        /\ x.rehashidx \in 0..x.ht[0].size
    BY <1>2 DEF DictOK, TableOK, TableType
  <2>2. e \in x.rehashidx..x.ht[0].size /\ e \in Nat /\ x.rehashidx \in Nat
    BY <1>2, <2>1, StopType
  <2> HIDE DEF e
  <2>3. moved \subseteq AllOf(x.ht[0]) /\ AllOf(x.ht[0]) \subseteq Keys
    <3>1. TableType(x.ht[0])
      BY <2>1 DEF TableOK
    <3> QED BY <2>2, <3>1, HeldFinite
  <2>4. /\ TableOK(old) /\ old.size = x.ht[0].size
        /\ AllOf(old) = AllOf(x.ht[0]) \ moved
        /\ \A i \in 0..(x.ht[0].size - 1) :
             old.table[i] = IF i \in x.rehashidx..(e - 1) THEN {} ELSE x.ht[0].table[i]
    <3>1. e <= x.ht[0].size /\ TableOK(x.ht[0]) /\ e \in Nat /\ x.rehashidx \in Nat
      BY <2>1, <2>2
    <3> QED BY <3>1, EmptiedOK
  <2>5. TableOK(new) /\ new.size = x.ht[1].size /\ AllOf(new) = AllOf(x.ht[1]) \cup moved
    <3>1. moved \subseteq Keys /\ moved \cap AllOf(x.ht[1]) = {}
      BY <2>3 DEF DictOK
    <3> QED BY <2>1, <3>1, FilledOK
  <2>6. Held(old, 0, e) = {}
    <3>1. \A i \in 0..(x.rehashidx - 1) : x.ht[0].table[i] = {}
      BY <1>2 DEF DictOK, Held
    <3>2. \A i \in 0..(e - 1) : old.table[i] = {}
      BY <2>1, <2>2, <2>4, <3>1
    <3> QED BY <3>2 DEF Held
  <2>7. CASE old.used = 0
    <3>1. y = With(x, new, NoTable, -1)
      BY <1>2, <2>7 DEF Rehash, With, e
    <3>2. AllOf(old) = {}
      <4>1. IsFiniteSet(AllOf(old))
        BY <2>3, <2>4, DictAssumption, FS_Subset
      <4> QED BY <2>4, <2>7, <4>1, FS_EmptySet DEF TableOK
    <3>3. AllOf(new) = K
      BY <2>4, <2>5, <2>3, <3>2 DEF DictOK
    <3> HIDE DEF new, old, moved, y
    <3>4. /\ y.ht[0] = new /\ y.ht[1] = NoTable /\ y.rehashidx = -1
          /\ y.iterators = x.iterators
          /\ Shape(y)
      BY <3>1, WithShape DEF DictOK
    <3> QED BY <2>5, <3>3, <3>4, NoTableOK DEF DictOK, IsRehashing, y
  <2>8. CASE old.used # 0
    <3>1. y = With(x, old, new, e)
      BY <1>2, <2>8 DEF Rehash, With, e
    <3>2. AllOf(old) \cap AllOf(new) = {} /\ AllOf(old) \cup AllOf(new) = K
      BY <2>3, <2>4, <2>5 DEF DictOK
    <3> HIDE DEF new, old, moved, y
    <3>3. /\ y.ht[0] = old /\ y.ht[1] = new /\ y.rehashidx = e
          /\ y.iterators = x.iterators
          /\ Shape(y)
      BY <3>1, <2>2, WithShape DEF DictOK
    <3>4. IsRehashing(y) /\ y.rehashidx \in 0..y.ht[0].size
      BY <2>1, <2>2, <2>4, <3>3 DEF IsRehashing
    <3> QED BY <2>1, <2>4, <2>5, <2>6, <3>2, <3>3, <3>4 DEF DictOK, y
  <2> QED BY <2>7, <2>8
<1> QED BY <1>1, <1>2

LEMMA RehashStepOK ==
  ASSUME NEW x, NEW K, DictOK(x, K)
  PROVE  DictOK(RehashStep(x), K) /\ RehashStep(x).iterators = x.iterators
BY RehashOK DEF RehashStep

\* The tables hold at most all keys.
LEMMA UsedBound ==
  ASSUME NEW t, TableOK(t)
  PROVE  t.used <= Cardinality(Keys) /\ Cardinality(Keys) \in Nat
<1>1. t.size \in Nat
  BY DEF TableOK, TableType
<1>2. AllOf(t) \subseteq Keys
  BY <1>1, HeldFinite DEF TableOK
<1>3. Cardinality(AllOf(t)) <= Cardinality(Keys)
  BY <1>2, DictAssumption, FS_Subset
<1> QED BY <1>3, DictAssumption, FS_CardinalityType DEF TableOK

\* A size that the keys can need is rounded up to one that exists.
LEMMA NextPowerType ==
  ASSUME NEW n \in Nat, n <= 2 * Cardinality(Keys) \/ n = InitialSize
  PROVE  NextPower(n) \in Nat \ {0} /\ NextPower(n) >= n
<1> DEFINE S == {p \in Sizes : p >= n}
<1>1. Sizes \subseteq Nat \ {0}
  BY SizesAssumption
<1>2. S \subseteq Nat
  BY <1>1, Zenon
<1>3. \E p \in Sizes : p >= n
  <2>1. Cardinality(Keys) \in Nat
    BY DictAssumption, FS_CardinalityType
  <2>2. PICK p \in Sizes : p >= 2 * Cardinality(Keys)
    BY SizesAssumption
  <2>3. p \in Nat
    BY <1>1, <2>2
  <2>4. CASE n = InitialSize
    BY <2>4, SizesAssumption
  <2>5. CASE n <= 2 * Cardinality(Keys)
    BY <2>1, <2>2, <2>3, <2>5
  <2> QED BY <2>4, <2>5
<1>4. S # {}
  BY <1>3
<1>5. PICK m \in S : \A j \in S : m <= j
  BY <1>2, <1>4, Least, Zenon
<1>6. \E p \in Sizes : p >= n /\ \A q \in Sizes : q >= n => p <= q
  BY <1>5
<1>7. NextPower(n) \in Sizes /\ NextPower(n) >= n
  BY <1>6 DEF NextPower
<1> QED BY <1>1, <1>7, Zenon

\* dictExpand allocates an empty table and moves nothing.
LEMMA ExpandKeeps ==
  ASSUME NEW x, NEW K, DictOK(x, K), NEW n \in Nat,
         n <= 2 * Cardinality(Keys) \/ n = InitialSize
  PROVE  /\ DictOK(Expand(x, n), K) /\ Expand(x, n).iterators = x.iterators
         /\ ExpandOK(x, n) => Expand(x, n).ht[Target(Expand(x, n))].size > 0
<1> DEFINE y == Expand(x, n)
           new == NewTable(NextPower(n))
<1>1. NextPower(n) \in Nat \ {0}
  BY NextPowerType
<1>2. TableOK(new) /\ AllOf(new) = {} /\ new.size > 0
  BY <1>1, NewTableOK
<1>3. CASE ~ExpandOK(x, n)
  BY <1>3 DEF Expand
<1>4. CASE ExpandOK(x, n) /\ x.ht[0].size = 0
  <2>1. y = With(x, new, x.ht[1], x.rehashidx)
    BY <1>4, PutTable, Zenon DEF Expand, DictOK
  <2>2. x.rehashidx = -1 /\ x.ht[1].size = 0
    BY <1>4 DEF ExpandOK, DictOK, IsRehashing
  <2> HIDE DEF y, new
  <2>3. /\ Shape(y) /\ y.ht[0] = new /\ y.ht[1] = x.ht[1]
        /\ y.rehashidx = -1 /\ y.iterators = x.iterators
    BY <2>1, <2>2, WithShape DEF DictOK
  <2>4. AllOf(x.ht[0]) = {} /\ AllOf(x.ht[1]) = {}
    BY <1>4, <2>2 DEF AllOf, Held
  <2>5. DictOK(y, K)
    BY <1>2, <2>2, <2>3, <2>4 DEF DictOK, IsRehashing
  <2> QED BY <1>2, <2>3, <2>5 DEF Target, IsRehashing, y
<1>5. CASE ExpandOK(x, n) /\ x.ht[0].size # 0
  <2>1. y = With(x, x.ht[0], new, 0)
    BY <1>5, PutTable, Zenon DEF Expand, DictOK
  <2>2. /\ x.rehashidx = -1 /\ x.ht[1].size = 0
        /\ x.ht[0].size > 0 /\ x.ht[0].size \in Nat
    BY <1>5 DEF ExpandOK, DictOK, IsRehashing, TableOK, TableType
  <2> HIDE DEF y, new
  <2>3. /\ Shape(y) /\ y.ht[0] = x.ht[0] /\ y.ht[1] = new
        /\ y.rehashidx = 0 /\ y.iterators = x.iterators
    BY <2>1, <2>2, WithShape DEF DictOK
  <2>4. AllOf(x.ht[1]) = {} /\ Held(x.ht[0], 0, 0) = {}
    BY <2>2 DEF AllOf, Held
  <2>5. DictOK(y, K)
    BY <1>2, <2>2, <2>3, <2>4 DEF DictOK, IsRehashing
  <2> QED BY <1>2, <2>3, <2>5 DEF Target, IsRehashing, y
<1> QED BY <1>3, <1>4, <1>5

LEMMA SizeType ==
  ASSUME NEW x, NEW K, DictOK(x, K)
  PROVE  /\ Size(x) = Cardinality(K) /\ K \subseteq Keys /\ IsFiniteSet(K)
         /\ Size(x) = 0 => K = {}
<1>1. /\ AllOf(x.ht[0]) \subseteq Keys /\ IsFiniteSet(AllOf(x.ht[0]))
      /\ AllOf(x.ht[1]) \subseteq Keys /\ IsFiniteSet(AllOf(x.ht[1]))
  <2>1. x.ht[0].size \in Nat /\ x.ht[1].size \in Nat
    BY DEF DictOK, TableOK, TableType
  <2> QED BY <2>1, HeldFinite DEF DictOK, TableOK
<1>2. Cardinality(K) = Cardinality(AllOf(x.ht[0])) + Cardinality(AllOf(x.ht[1])) - Cardinality({})
  BY <1>1, FS_Union DEF DictOK
<1>3. IsFiniteSet(K) /\ K \subseteq Keys
  BY <1>1, FS_Union, Zenon DEF DictOK
<1>4. Cardinality({}) = 0 /\ (Cardinality(K) = 0 => K = {})
  BY <1>3, FS_EmptySet
<1>5. Size(x) = Cardinality(K)
  BY <1>1, <1>2, <1>4, FS_CardinalityType DEF Size, DictOK, TableOK
<1> QED BY <1>3, <1>4, <1>5

\* The tables a lookup searches exist, and hold all keys.
LEMMA SlotsHold ==
  ASSUME NEW x, NEW K, DictOK(x, K), Size(x) # 0
  PROVE  /\ \A s \in Slots(x) : s \in {0, 1} /\ TableOK(x.ht[s]) /\ x.ht[s].size > 0
         /\ K = UNION {AllOf(x.ht[s]) : s \in Slots(x)}
<1>1. CASE IsRehashing(x)
  BY <1>1 DEF DictOK, Slots
<1>2. CASE ~IsRehashing(x)
  <2>1. AllOf(x.ht[1]) = {}
    BY <1>2 DEF DictOK, AllOf, Held
  <2>2. x.ht[0].size > 0
    <3>1. x.ht[0].size = 0 => AllOf(x.ht[0]) = {}
      BY DEF AllOf, Held
    <3>2. Cardinality({}) = 0
      BY FS_EmptySet
    <3>3. x.ht[1].used = 0
      BY <2>1, <3>2 DEF DictOK, TableOK
    <3>4. x.ht[0].size = 0 => x.ht[0].used = 0
      BY <3>1, <3>2 DEF DictOK, TableOK
    <3>5. x.ht[0].size # 0
      BY <3>3, <3>4 DEF Size
    <3> QED BY <3>5 DEF DictOK, TableOK, TableType
  <2> QED BY <1>2, <2>1, <2>2 DEF DictOK, Slots
<1> QED BY <1>1, <1>2

\* dictFind searches the buckets of a key in the tables that are in use.
LEMMA FoundExact ==
  ASSUME NEW x, NEW K, DictOK(x, K), NEW k \in Keys
  PROVE  Found(x, k) <=> k \in K
<1>1. CASE Size(x) = 0
  BY <1>1, SizeType DEF Found
<1>2. CASE Size(x) # 0
  <2>1. \A s \in Slots(x) : Holds(x.ht[s], k) <=> k \in AllOf(x.ht[s])
    BY <1>2, SlotsHold, HoldsExact
  <2>2. k \in K <=> \E s \in Slots(x) : k \in AllOf(x.ht[s])
    BY <1>2, SlotsHold
  <2> QED BY <1>2, <2>1, <2>2 DEF Found
<1> QED BY <1>1, <1>2

\* A new key goes to the new table during a rehashing, so the buckets below
\* rehashidx stay empty.
LEMMA InsertOK ==
  ASSUME NEW x, NEW K, DictOK(x, K), NEW k \in Keys, k \notin K,
         x.ht[Target(x)].size > 0
  PROVE  DictOK(Insert(x, k), K \cup {k}) /\ Insert(x, k).iterators = x.iterators
<1> DEFINE y == Insert(x, k)
           new == Linked(x.ht[Target(x)], k)
<1>1. k \notin AllOf(x.ht[0]) /\ k \notin AllOf(x.ht[1])
  BY DEF DictOK
<1>2. TableOK(x.ht[Target(x)])
  BY DEF DictOK, Target
<1>3. k \notin AllOf(x.ht[Target(x)])
  BY <1>1 DEF Target
<1>4. /\ TableOK(new) /\ new.size = x.ht[Target(x)].size
      /\ AllOf(new) = AllOf(x.ht[Target(x)]) \cup {k}
  BY <1>2, <1>3, LinkedOK
<1>5. CASE IsRehashing(x)
  <2>1. y = With(x, x.ht[0], new, x.rehashidx)
    BY <1>5, PutTable, Zenon DEF Insert, Target, DictOK, Shape
  <2>2. Target(x) = 1
    BY <1>5 DEF Target
  <2> HIDE DEF y, new
  <2>3. /\ Shape(y) /\ y.ht[0] = x.ht[0] /\ y.ht[1] = new
        /\ y.rehashidx = x.rehashidx /\ y.iterators = x.iterators
    BY <2>1, WithShape DEF DictOK, Shape
  <2> QED BY <1>1, <1>4, <1>5, <2>2, <2>3 DEF DictOK, IsRehashing, y
<1>6. CASE ~IsRehashing(x)
  <2>1. y = With(x, new, x.ht[1], x.rehashidx)
    BY <1>6, PutTable, Zenon DEF Insert, Target, DictOK, Shape
  <2>2. Target(x) = 0
    BY <1>6 DEF Target
  <2> HIDE DEF y, new
  <2>3. /\ Shape(y) /\ y.ht[0] = new /\ y.ht[1] = x.ht[1]
        /\ y.rehashidx = x.rehashidx /\ y.iterators = x.iterators
    BY <2>1, WithShape DEF DictOK, Shape
  <2> QED BY <1>1, <1>4, <1>6, <2>2, <2>3 DEF DictOK, IsRehashing, y
<1> QED BY <1>5, <1>6

\* The expansion that an insertion asks for is never refused.
LEMMA WantedOK ==
  ASSUME NEW x, NEW K, DictOK(x, K)
  PROVE  /\ Wanted(x) \in Nat
         /\ Wanted(x) = 0 => x.ht[Target(x)].size > 0
         /\ Wanted(x) # 0 => /\ ExpandOK(x, Wanted(x))
                             /\ Wanted(x) <= 2 * Cardinality(Keys) \/ Wanted(x) = InitialSize
<1>1. /\ TableOK(x.ht[0]) /\ x.ht[0].size \in Nat /\ x.ht[0].used \in Nat
      /\ x.ht[0].used <= Cardinality(Keys) /\ Cardinality(Keys) \in Nat
  BY UsedBound DEF DictOK, TableOK, TableType
<1>2. InitialSize \in Nat \ {0}
  BY DictAssumption
<1>3. CASE IsRehashing(x)
  BY <1>3 DEF Wanted, Target, DictOK
<1>4. CASE ~IsRehashing(x) /\ x.ht[0].size = 0
  <2>1. Wanted(x) = InitialSize
    BY <1>4 DEF Wanted
  <2>2. x.ht[0].used = 0
    <3>1. AllOf(x.ht[0]) = {}
      BY <1>4 DEF AllOf, Held
    <3> QED BY <1>1, <3>1, FS_EmptySet DEF TableOK
  <2>3. NextPower(InitialSize) \in Nat \ {0}
    BY <1>2, NextPowerType
  <2> QED BY <1>2, <1>4, <2>1, <2>2, <2>3 DEF ExpandOK
<1>5. CASE ~IsRehashing(x) /\ x.ht[0].size # 0
  <2>1. CASE Wanted(x) = 0
    BY <1>1, <1>5, <2>1 DEF Target
  <2>2. CASE Wanted(x) # 0
    <3>1. Wanted(x) = x.ht[0].used * 2 /\ x.ht[0].used >= x.ht[0].size
      BY <1>5, <2>2 DEF Wanted
    <3>2. Wanted(x) \in Nat /\ Wanted(x) <= 2 * Cardinality(Keys)
      BY <1>1, <3>1
    <3>3. NextPower(Wanted(x)) \in Nat /\ NextPower(Wanted(x)) >= Wanted(x)
      BY <3>2, NextPowerType
    <3>4. x.ht[0].used <= Wanted(x) /\ NextPower(Wanted(x)) # x.ht[0].size
      BY <1>1, <1>5, <3>1, <3>3
    <3> QED BY <1>5, <2>2, <3>2, <3>4 DEF ExpandOK
  <2> QED BY <2>1, <2>2
<1> QED BY <1>3, <1>4, <1>5

\* dictAdd: afterwards the dictionary holds the key, in one place.
LEMMA AddOK ==
  ASSUME NEW x, NEW K, DictOK(x, K), NEW k \in Keys
  PROVE  DictOK(dictAddRaw(x, k), K \cup {k}) /\ dictAddRaw(x, k).iterators = x.iterators
<1> DEFINE r == RehashStep(x)
           n == Wanted(r)
           y == IF n = 0 THEN r ELSE Expand(r, n)
<1>1. DictOK(r, K) /\ r.iterators = x.iterators
  BY RehashStepOK
<1>2. dictAddRaw(x, k) = IF (n # 0 /\ ~ExpandOK(r, n)) \/ Found(y, k) THEN y ELSE Insert(y, k)
  BY DEF dictAddRaw
<1> HIDE DEF r
<1>3. DictOK(y, K) /\ y.ht[Target(y)].size > 0 /\ y.iterators = x.iterators
  <2>1. CASE n = 0
    BY <1>1, <2>1, WantedOK
  <2>2. CASE n # 0
    BY <1>1, <2>2, WantedOK, ExpandKeeps
  <2> QED BY <2>1, <2>2
<1>4. ~(n # 0 /\ ~ExpandOK(r, n))
  BY <1>1, WantedOK
<1> HIDE DEF n, y
<1>5. CASE k \in K
  <2>1. K \cup {k} = K
    BY <1>5
  <2> QED BY <1>2, <1>3, <1>5, <2>1, FoundExact
<1>6. CASE k \notin K
  BY <1>2, <1>3, <1>4, <1>6, FoundExact, InsertOK
<1> QED BY <1>5, <1>6

\* dictDelete: afterwards the dictionary holds the other keys.
LEMMA DeleteOK ==
  ASSUME NEW x, NEW K, DictOK(x, K), NEW k \in Keys
  PROVE  /\ DictOK(dictGenericDelete(x, k), K \ {k})
         /\ dictGenericDelete(x, k).iterators = x.iterators
<1>1. CASE Size(x) = 0
  <2>1. K \ {k} = K
    BY <1>1, SizeType
  <2> QED BY <1>1, <2>1 DEF dictGenericDelete
<1>2. CASE Size(x) # 0
  <2> DEFINE y == RehashStep(x)
             where == {s \in Slots(y) : Holds(y.ht[s], k)}
             t == IF 0 \in where THEN 0 ELSE 1
             z == dictGenericDelete(x, k)
             new == Unlinked(y.ht[t], k)
  <2>1. z = IF where = {} THEN y ELSE [y EXCEPT !.ht[t] = new]
    BY <1>2 DEF dictGenericDelete
  <2>2. DictOK(y, K) /\ y.iterators = x.iterators
    BY RehashStepOK
  <2>3. Size(y) # 0
    BY <1>2, <2>2, SizeType
  <2> HIDE DEF y, z
  <2>4. \A s \in Slots(y) : s \in {0, 1} /\ TableOK(y.ht[s]) /\ y.ht[s].size > 0
    BY <2>2, <2>3, SlotsHold
  <2>5. \A s \in Slots(y) : Holds(y.ht[s], k) <=> k \in AllOf(y.ht[s])
    BY <2>4, HoldsExact
  <2>6. K = UNION {AllOf(y.ht[s]) : s \in Slots(y)}
    BY <2>2, <2>3, SlotsHold
  <2>7. CASE where = {}
    <3>1. K \ {k} = K
      BY <2>5, <2>6, <2>7
    <3> QED BY <2>1, <2>2, <2>7, <3>1 DEF z
  <2>8. CASE where # {}
    <3>1. t \in where
      BY <2>4, <2>8
    <3>2. /\ t \in {0, 1} /\ TableOK(y.ht[t]) /\ y.ht[t].size > 0
          /\ k \in AllOf(y.ht[t])
      BY <2>4, <2>5, <3>1
    <3> HIDE DEF t, where
    <3>3. /\ TableOK(new) /\ new.size = y.ht[t].size
          /\ AllOf(new) = AllOf(y.ht[t]) \ {k}
          /\ \A i \in 0..(y.ht[t].size - 1) : new.table[i] \subseteq y.ht[t].table[i]
      BY <3>2, UnlinkedOK
    <3>4. z = [y EXCEPT !.ht[t] = new]
      BY <2>1, <2>8
    <3> HIDE DEF new
    <3>5. CASE t = 0
      <4>1. z = With(y, new, y.ht[1], y.rehashidx)
        BY <2>2, <3>4, <3>5, PutTable, Zenon DEF DictOK
      <4>2. /\ Shape(z) /\ z.ht[0] = new /\ z.ht[1] = y.ht[1]
            /\ z.rehashidx = y.rehashidx /\ z.iterators = y.iterators
        BY <2>2, <4>1, WithShape DEF DictOK, Shape
      <4>3. k \notin AllOf(y.ht[1])
        BY <2>2, <3>2, <3>5 DEF DictOK
      <4>4. IsRehashing(y) => Held(new, 0, y.rehashidx) = {}
        <5> SUFFICES ASSUME IsRehashing(y)
                     PROVE  \A i \in 0..(y.rehashidx - 1) : new.table[i] = {}
          BY DEF Held
        <5>1. \A i \in 0..(y.rehashidx - 1) : y.ht[0].table[i] = {}
          BY <2>2 DEF DictOK, Held
        <5>2. y.rehashidx \in 0..y.ht[0].size /\ y.ht[0].size \in Nat
          BY <2>2 DEF DictOK, TableOK, TableType
        <5>3. \A i \in 0..(y.rehashidx - 1) : i \in 0..(y.ht[0].size - 1)
          BY <5>2
        <5> QED BY <3>3, <3>5, <5>1, <5>3
      <4>5. DictOK(z, K \ {k})
        BY <2>2, <3>3, <3>5, <4>2, <4>3, <4>4 DEF DictOK, IsRehashing
      <4> QED BY <2>2, <4>2, <4>5 DEF z
    <3>6. CASE t = 1
      <4>1. z = With(y, y.ht[0], new, y.rehashidx)
        BY <2>2, <3>4, <3>6, PutTable, Zenon DEF DictOK
      <4>2. /\ Shape(z) /\ z.ht[0] = y.ht[0] /\ z.ht[1] = new
            /\ z.rehashidx = y.rehashidx /\ z.iterators = y.iterators
        BY <2>2, <4>1, WithShape DEF DictOK, Shape
      <4>3. k \notin AllOf(y.ht[0])
        BY <2>2, <3>2, <3>6 DEF DictOK
      <4>4. DictOK(z, K \ {k})
        BY <2>2, <3>3, <3>6, <4>2, <4>3 DEF DictOK, IsRehashing
      <4> QED BY <2>2, <4>2, <4>4 DEF z
    <3> QED BY <3>2, <3>5, <3>6
  <2> QED BY <2>7, <2>8
<1> QED BY <1>1, <1>2

\* dictGetRandomKey draws from every bucket that can hold a key.
LEMMA DrawnExact ==
  ASSUME NEW x, NEW K, DictOK(x, K)
  PROVE  Drawn(x) = K
<1>1. CASE ~IsRehashing(x)
  <2>1. AllOf(x.ht[1]) = {}
    BY <1>1 DEF DictOK, AllOf, Held
  <2> QED BY <1>1, <2>1 DEF DictOK, Drawn, AllOf
<1>2. CASE IsRehashing(x)
  <2>1. x.rehashidx \in 0..x.ht[0].size /\ x.ht[0].size \in Nat
    BY <1>2 DEF DictOK, TableOK, TableType
  <2>2. \A i \in 0..(x.ht[0].size - 1) :
          i \in 0..(x.rehashidx - 1) \/ i \in x.rehashidx..(x.ht[0].size - 1)
    BY <2>1
  <2>3. AllOf(x.ht[0]) = Held(x.ht[0], 0, x.rehashidx) \cup Held(x.ht[0], x.rehashidx, x.ht[0].size)
    BY <2>1, <2>2 DEF Held, AllOf
  <2>4. AllOf(x.ht[0]) = Held(x.ht[0], x.rehashidx, x.ht[0].size)
    BY <1>2, <2>3 DEF DictOK
  <2> QED BY <1>2, <2>4 DEF DictOK, Drawn, AllOf
<1> QED BY <1>1, <1>2

-----------------------------------------------------------------------------
(* The specification. *)

\* The dictionary holds exactly what callers stored.
DictInv == DictOK(d, keys)

LEMMA EmptyOK == DictOK(Empty, {})
<1>1. Shape(Empty)
  BY DEF Empty, Shape
<1> QED BY <1>1, NoTableOK DEF Empty, DictOK, IsRehashing

\* Binding and releasing an iterator leaves the tables alone.
LEMMA IteratorsKeep ==
  ASSUME NEW x, NEW K, DictOK(x, K), NEW i \in Int
  PROVE  DictOK([x EXCEPT !.iterators = i], K)
<1> DEFINE y == [x EXCEPT !.iterators = i]
<1>1. y.ht = x.ht /\ y.rehashidx = x.rehashidx /\ Shape(y)
  BY DEF DictOK, Shape
<1> HIDE DEF y
<1>2. DictOK(y, K)
  BY <1>1 DEF DictOK, IsRehashing
<1> QED BY <1>2 DEF y

LEMMA DictStep == DictInv /\ [Next]_vars => DictInv'
<1> SUFFICES ASSUME DictInv, [Next]_vars PROVE DictInv'
  OBVIOUS
<1> USE DEF DictInv
<1>1. ASSUME NEW k \in Keys, Add(k) PROVE DictInv'
  BY <1>1, AddOK DEF Add
<1>2. ASSUME NEW k \in Keys, Delete(k) PROVE DictInv'
  BY <1>2, DeleteOK DEF Delete
<1>3. ASSUME NEW k \in Keys, Find(k) PROVE DictInv'
  BY <1>3, RehashStepOK DEF Find, dictFind
<1>4. CASE RandomKey
  BY <1>4, RehashStepOK DEF RandomKey
<1>5. CASE Clear
  BY <1>5, EmptyOK DEF Clear
<1>6. CASE Resize
  <2>1. /\ TableOK(d.ht[0]) /\ d.ht[0].used \in Nat /\ InitialSize \in Nat
        /\ d.ht[0].used <= Cardinality(Keys) /\ Cardinality(Keys) \in Nat
    BY DictAssumption, UsedBound, Zenon DEF DictOK, TableOK, TableType
  <2> DEFINE n == IF d.ht[0].used < InitialSize THEN InitialSize ELSE d.ht[0].used
  <2>2. n \in Nat /\ (n <= 2 * Cardinality(Keys) \/ n = InitialSize)
    BY <2>1
  <2>3. d' = Expand(d, n) /\ keys' = keys
    BY <1>6 DEF Resize
  <2> HIDE DEF n
  <2> QED BY <2>2, <2>3, ExpandKeeps
<1>7. CASE RehashMs
  <2>1. PICK n \in 1..MsBuckets : d' = Rehash(d, n)
    BY <1>7 DEF RehashMs
  <2>2. n \in Nat
    BY <2>1, DictAssumption
  <2> QED BY <1>7, <2>1, <2>2, RehashOK DEF RehashMs
<1>8. CASE ResizePolicy
  BY <1>8 DEF ResizePolicy
<1>9. CASE IterStart
  <2>1. d.iterators + 1 \in Int
    BY DEF DictOK, Shape
  <2> QED BY <1>9, <2>1, IteratorsKeep DEF IterStart
<1>10. CASE IterNext
  BY <1>10 DEF IterNext
<1>11. CASE IterRelease
  <2>1. d.iterators - 1 \in Int
    BY DEF DictOK, Shape
  <2> QED BY <1>11, <2>1, IteratorsKeep DEF IterRelease
<1>12. CASE Scan
  BY <1>12 DEF Scan
<1>13. CASE ScanForget
  BY <1>13 DEF ScanForget
<1>14. CASE UNCHANGED vars
  BY <1>14 DEF vars
<1> QED
  BY <1>1, <1>2, <1>3, <1>4, <1>5, <1>6, <1>7, <1>8, <1>9, <1>10, <1>11, <1>12,
     <1>13, <1>14 DEF Next

\* The inductive invariant of dict.c: after every operation, and at every
\* moment of an incremental rehashing, the two tables hold exactly the keys
\* that were stored, each in the bucket of its hash and in one table only.
THEOREM DictInvariance == Spec => []DictInv
<1>1. Init => DictInv
  BY EmptyOK DEF Init, DictInv
<1> QED BY <1>1, DictStep, PTL DEF Spec

\* For every set of keys, hash function and size: lookups, counters and random
\* draws are exact at every moment (dictFind, dictRehash, dictGetRandomKey).
THEOREM TablesAlwaysSound == Spec => []TablesSound
<1>1. DictInv => TablesSound
  <2> SUFFICES ASSUME DictInv PROVE TablesSound
    OBVIOUS
  <2> USE DEF DictInv
  <2>1. LookupExact
    BY RehashStepOK, FoundExact DEF LookupExact, dictFind
  <2>2. CountersExact
    BY SizeType, Zenon DEF CountersExact, DictOK, TableOK, AllOf
  <2>3. RandomReachesAll
    BY RehashStepOK, DrawnExact DEF RandomReachesAll
  <2> QED BY <2>1, <2>2, <2>3 DEF TablesSound
<1> QED BY <1>1, DictInvariance, PTL

-----------------------------------------------------------------------------
(* Safe iterators. *)

\* The keys a safe iterator at bucket index of table tb has yet to reach.
Front(x, tb, index) ==
  Held(x.ht[tb], index + 1, x.ht[tb].size)
    \cup (IF tb = 0 /\ IsRehashing(x) THEN AllOf(x.ht[1]) ELSE {})

\* What is left is in the rest of the chain or in front of the iterator, what
\* was seen is in neither, and the bound iterator keeps the buckets in place.
IterInv ==
  /\ it = None => d.iterators = 0
  /\ it # None =>
       /\ d.iterators = 1 /\ it \in Iterators /\ it.index >= -1
       /\ it.table = 1 => IsRehashing(d)
       /\ it.next = None => it.rest = {}
       /\ it.next # None => it.next \in it.rest
       /\ it.cur \notin it.rest
       /\ it.rest \subseteq keys /\ it.seen \subseteq keys
       /\ it.rest \cap Front(d, it.table, it.index) = {}
       /\ it.left \subseteq it.rest \cup Front(d, it.table, it.index)
       /\ it.seen \cap (it.rest \cup Front(d, it.table, it.index)) = {}
       /\ ~it.twice
       /\ it.done => it.left = {}

\* Growing the tables leaves what is in front of an iterator.
LEMMA FrontExpand ==
  ASSUME NEW x, NEW K, DictOK(x, K), NEW n \in Nat,
         n <= 2 * Cardinality(Keys) \/ n = InitialSize,
         NEW tb \in {0, 1}, NEW i \in Int, i >= -1, tb = 1 => IsRehashing(x)
  PROVE  /\ Front(Expand(x, n), tb, i) = Front(x, tb, i)
         /\ tb = 1 => IsRehashing(Expand(x, n))
<1> DEFINE y == Expand(x, n)
           new == NewTable(NextPower(n))
<1>1. NextPower(n) \in Nat \ {0}
  BY NextPowerType
<1>2. new.size \in Nat /\ AllOf(new) = {} /\ \A a \in Nat : Held(new, a, new.size) = {}
  BY <1>1 DEF NewTable, AllOf, Held
<1>3. CASE ~ExpandOK(x, n)
  BY <1>3 DEF Expand
<1>4. CASE ExpandOK(x, n) /\ x.ht[0].size = 0
  <2>1. y = With(x, new, x.ht[1], x.rehashidx)
    BY <1>4, PutTable, Zenon DEF Expand, DictOK
  <2>2. x.rehashidx = -1 /\ tb = 0
    BY <1>4 DEF ExpandOK, IsRehashing
  <2> HIDE DEF y, new
  <2>3. y.ht[0] = new /\ y.rehashidx = -1
    BY <2>1, <2>2, WithShape DEF DictOK
  <2>4. Held(x.ht[0], i + 1, x.ht[0].size) = {}
    BY <1>4 DEF Held
  <2>5. i + 1 \in Nat
    OBVIOUS
  <2>6. Held(new, i + 1, new.size) = {}
    BY <1>2, <2>5
  <2> QED BY <2>2, <2>3, <2>4, <2>6, Zenon DEF Front, IsRehashing, y
<1>5. CASE ExpandOK(x, n) /\ x.ht[0].size # 0
  <2>1. y = With(x, x.ht[0], new, 0)
    BY <1>5, PutTable, Zenon DEF Expand, DictOK
  <2>2. x.rehashidx = -1 /\ tb = 0
    BY <1>5 DEF ExpandOK, IsRehashing
  <2> HIDE DEF y, new
  <2>3. y.ht[0] = x.ht[0] /\ y.ht[1] = new /\ y.rehashidx = 0
    BY <2>1, WithShape DEF DictOK
  <2> QED BY <1>2, <2>2, <2>3 DEF Front, IsRehashing, y
<1> QED BY <1>3, <1>4, <1>5

\* A new key is all that an insertion adds in front of an iterator.
LEMMA FrontInsert ==
  ASSUME NEW x, NEW K, DictOK(x, K), NEW k \in Keys, x.ht[Target(x)].size > 0,
         NEW tb \in {0, 1}, NEW i \in Int, i >= -1, tb = 1 => IsRehashing(x)
  PROVE  /\ Front(x, tb, i) \subseteq Front(Insert(x, k), tb, i)
         /\ Front(Insert(x, k), tb, i) \subseteq Front(x, tb, i) \cup {k}
         /\ tb = 1 => IsRehashing(Insert(x, k))
<1> DEFINE y == Insert(x, k)
           t == x.ht[Target(x)]
           new == Linked(t, k)
<1>1. TableOK(t) /\ t.size \in Nat \ {0}
  BY DEF DictOK, Target, TableOK, TableType
<1>2. /\ new.size = t.size
      /\ \A b \in 0..(t.size - 1) : /\ t.table[b] \subseteq new.table[b]
                                     /\ new.table[b] \subseteq t.table[b] \cup {k}
  <2>1. Index(k, t) \in 0..(t.size - 1)
    BY <1>1, IndexType
  <2> QED BY <1>1, <2>1 DEF Linked, TableOK, TableType
<1>3. ASSUME NEW a \in Nat
      PROVE  /\ Held(t, a, t.size) \subseteq Held(new, a, new.size)
             /\ Held(new, a, new.size) \subseteq Held(t, a, t.size) \cup {k}
  <2>1. \A b \in a..(t.size - 1) : b \in 0..(t.size - 1)
    BY <1>1
  <2> HIDE DEF new, t
  <2> QED BY <1>2, <2>1 DEF Held
<1>4. /\ AllOf(t) \subseteq AllOf(new) /\ AllOf(new) \subseteq AllOf(t) \cup {k}
      /\ Held(t, i + 1, t.size) \subseteq Held(new, i + 1, new.size)
      /\ Held(new, i + 1, new.size) \subseteq Held(t, i + 1, t.size) \cup {k}
  <2>1. 0 \in Nat /\ i + 1 \in Nat
    OBVIOUS
  <2> HIDE DEF new, t
  <2> QED BY <1>3, <2>1 DEF AllOf
<1>5. CASE IsRehashing(x)
  <2>1. y = With(x, x.ht[0], new, x.rehashidx)
    BY <1>5, PutTable, Zenon DEF Insert, Target, DictOK
  <2>2. t = x.ht[1]
    BY <1>5 DEF Target
  <2> HIDE DEF y, new, t
  <2>3. y.ht[0] = x.ht[0] /\ y.ht[1] = new /\ y.rehashidx = x.rehashidx
    BY <2>1, WithShape DEF DictOK, Shape
  <2> QED BY <1>4, <1>5, <2>2, <2>3 DEF Front, IsRehashing, y
<1>6. CASE ~IsRehashing(x)
  <2>1. y = With(x, new, x.ht[1], x.rehashidx)
    BY <1>6, PutTable, Zenon DEF Insert, Target, DictOK
  <2>2. t = x.ht[0]
    BY <1>6 DEF Target
  <2> HIDE DEF y, new, t
  <2>3. y.ht[0] = new /\ y.ht[1] = x.ht[1] /\ y.rehashidx = x.rehashidx
    BY <2>1, WithShape DEF DictOK, Shape
  <2> QED BY <1>4, <1>6, <2>2, <2>3 DEF Front, IsRehashing, y
<1> QED BY <1>5, <1>6

\* An insertion while an iterator is bound moves no bucket.
LEMMA FrontAdd ==
  ASSUME NEW x, NEW K, DictOK(x, K), NEW k \in Keys, x.iterators # 0,
         NEW tb \in {0, 1}, NEW i \in Int, i >= -1, tb = 1 => IsRehashing(x)
  PROVE  /\ Front(x, tb, i) \subseteq Front(dictAddRaw(x, k), tb, i)
         /\ Front(dictAddRaw(x, k), tb, i) \subseteq Front(x, tb, i) \cup ({k} \ K)
         /\ tb = 1 => IsRehashing(dictAddRaw(x, k))
<1> DEFINE n == Wanted(x)
           y == IF n = 0 THEN x ELSE Expand(x, n)
<1>1. RehashStep(x) = x
  BY DEF RehashStep
<1>2. dictAddRaw(x, k) = IF (n # 0 /\ ~ExpandOK(x, n)) \/ Found(y, k) THEN y ELSE Insert(y, k)
  BY <1>1 DEF dictAddRaw
<1>3. /\ DictOK(y, K) /\ y.ht[Target(y)].size > 0
      /\ Front(y, tb, i) = Front(x, tb, i) /\ (tb = 1 => IsRehashing(y))
  <2>1. CASE n = 0
    BY <2>1, WantedOK
  <2>2. CASE n # 0
    BY <2>2, WantedOK, ExpandKeeps, FrontExpand
  <2> QED BY <2>1, <2>2
<1>4. ~(n # 0 /\ ~ExpandOK(x, n))
  BY WantedOK
<1> HIDE DEF n, y
<1>5. CASE k \in K
  BY <1>2, <1>3, <1>5, FoundExact
<1>6. CASE k \notin K
  BY <1>2, <1>3, <1>4, <1>6, FoundExact, FrontInsert
<1> QED BY <1>5, <1>6

\* A deletion while an iterator is bound removes just that key.
LEMMA FrontDelete ==
  ASSUME NEW x, NEW K, DictOK(x, K), NEW k \in Keys, x.iterators # 0,
         NEW tb \in {0, 1}, NEW i \in Int, i >= -1, tb = 1 => IsRehashing(x)
  PROVE  /\ Front(dictGenericDelete(x, k), tb, i) = Front(x, tb, i) \ {k}
         /\ IsRehashing(dictGenericDelete(x, k)) <=> IsRehashing(x)
<1> DEFINE z == dictGenericDelete(x, k)
<1>1. \A a, b \in {0, 1} : TableOK(x.ht[a]) /\ Held(x.ht[a], i + 1, x.ht[a].size) \subseteq AllOf(x.ht[a])
  <2>1. \A a \in {0, 1} : TableOK(x.ht[a]) /\ x.ht[a].size \in Nat
    BY DEF DictOK, TableOK, TableType
  <2>2. i + 1 \in Nat
    OBVIOUS
  <2> QED BY <2>1, <2>2, HeldFinite DEF TableOK
<1>2. Front(x, tb, i) \subseteq K
  BY <1>1 DEF Front, DictOK
<1>3. CASE k \notin K
  <2>1. z = x
    <3>1. CASE Size(x) = 0
      BY <3>1 DEF dictGenericDelete
    <3>2. CASE Size(x) # 0
      <4>1. \A s \in Slots(x) : Holds(x.ht[s], k) <=> k \in AllOf(x.ht[s])
        BY <3>2, SlotsHold, HoldsExact
      <4>2. \A s \in Slots(x) : ~Holds(x.ht[s], k)
        BY <1>3, <3>2, <4>1, SlotsHold
      <4> QED BY <4>2 DEF dictGenericDelete, RehashStep
    <3> QED BY <3>1, <3>2
  <2> QED BY <1>2, <1>3, <2>1
<1>4. CASE k \in K
  <2> DEFINE where == {s \in Slots(x) : Holds(x.ht[s], k)}
             t == IF 0 \in where THEN 0 ELSE 1
             new == Unlinked(x.ht[t], k)
  <2>1. Size(x) # 0
    BY <1>4, SizeType
  <2>2. /\ \A s \in Slots(x) : Holds(x.ht[s], k) <=> k \in AllOf(x.ht[s])
        /\ \A s \in Slots(x) : s \in {0, 1} /\ x.ht[s].size > 0
        /\ where # {}
    BY <1>4, <2>1, SlotsHold, HoldsExact
  <2>3. z = [x EXCEPT !.ht[t] = new]
    BY <2>1, <2>2 DEF dictGenericDelete, RehashStep
  <2>4. t \in {0, 1} /\ t \in Slots(x) /\ k \in AllOf(x.ht[t]) /\ x.ht[t].size > 0
    BY <2>2
  <2> HIDE DEF t, where
  <2>5. /\ new.size = x.ht[t].size
        /\ \A b \in 0..(x.ht[t].size - 1) : new.table[b] = x.ht[t].table[b] \ {k}
    <3>1. TableOK(x.ht[t]) /\ x.ht[t].size \in Nat \ {0}
      BY <1>1, <2>4 DEF TableOK, TableType
    <3>2. Index(k, x.ht[t]) \in 0..(x.ht[t].size - 1)
      BY <3>1, IndexType
    <3>3. \A b \in 0..(x.ht[t].size - 1) : b # Index(k, x.ht[t]) => k \notin x.ht[t].table[b]
      BY <3>1 DEF TableOK
    <3> QED BY <3>1, <3>2, <3>3 DEF Unlinked, TableOK, TableType
  <2>6. ASSUME NEW a \in Nat
        PROVE  Held(new, a, new.size) = Held(x.ht[t], a, x.ht[t].size) \ {k}
    <3>1. \A b \in a..(x.ht[t].size - 1) : b \in 0..(x.ht[t].size - 1)
      BY <1>1, <2>4 DEF TableOK, TableType
    <3> HIDE DEF new
    <3> QED BY <2>5, <3>1 DEF Held
  <2>7. /\ AllOf(new) = AllOf(x.ht[t]) \ {k}
        /\ Held(new, i + 1, new.size) = Held(x.ht[t], i + 1, x.ht[t].size) \ {k}
    <3>1. 0 \in Nat /\ i + 1 \in Nat
      OBVIOUS
    <3> HIDE DEF new
    <3> QED BY <2>6, <3>1 DEF AllOf
  <2> HIDE DEF new, z
  <2>8. CASE t = 0
    <3>1. z = With(x, new, x.ht[1], x.rehashidx)
      BY <2>3, <2>8, PutTable, Zenon DEF DictOK
    <3>2. z.ht[0] = new /\ z.ht[1] = x.ht[1] /\ z.rehashidx = x.rehashidx
      BY <3>1, WithShape DEF DictOK, Shape
    <3>3. k \notin AllOf(x.ht[1])
      BY <2>4, <2>8 DEF DictOK
    <3> QED BY <1>1, <2>7, <2>8, <3>2, <3>3 DEF Front, IsRehashing, z
  <2>9. CASE t = 1
    <3>1. z = With(x, x.ht[0], new, x.rehashidx)
      BY <2>3, <2>9, PutTable, Zenon DEF DictOK
    <3>2. z.ht[0] = x.ht[0] /\ z.ht[1] = new /\ z.rehashidx = x.rehashidx
      BY <3>1, WithShape DEF DictOK, Shape
    <3>3. k \notin AllOf(x.ht[0])
      BY <2>4, <2>9 DEF DictOK
    <3>4. IsRehashing(x)
      BY <2>4, <2>9 DEF Slots
    <3> QED BY <1>1, <2>7, <2>9, <3>2, <3>3 DEF Front, IsRehashing, z
  <2> QED BY <2>4, <2>8, <2>9
<1> QED BY <1>3, <1>4

\* The next used bucket splits what is in front of an iterator.
LEMMA NextChain ==
  ASSUME NEW t, TableOK(t), NEW i \in Int, i >= -1, NEW S,
         S = {b \in (i + 1)..(t.size - 1) : t.table[b] # {}}
  PROVE  /\ S = {} => Held(t, i + 1, t.size) = {}
         /\ S # {} => /\ MinOf(S) \in 0..(t.size - 1) /\ t.table[MinOf(S)] # {}
                      /\ t.table[MinOf(S)] \cap Held(t, MinOf(S) + 1, t.size) = {}
                      /\ Held(t, i + 1, t.size)
                           = t.table[MinOf(S)] \cup Held(t, MinOf(S) + 1, t.size)
<1>1. CASE S = {}
  BY <1>1 DEF Held
<1>2. CASE S # {}
  <2> DEFINE m == MinOf(S)
  <2>1. t.size \in Nat /\ S \subseteq Nat
    BY DEF TableOK, TableType
  <2>2. m \in S /\ \A b \in S : m <= b
    BY <1>2, <2>1, Least DEF MinOf
  <2> HIDE DEF m
  <2>3. m \in (i + 1)..(t.size - 1) /\ m \in 0..(t.size - 1) /\ t.table[m] # {}
    BY <2>1, <2>2
  <2>4. \A b \in (i + 1)..(m - 1) : t.table[b] = {}
    BY <2>1, <2>2, <2>3
  <2>5. \A b \in (i + 1)..(t.size - 1) : b \in (i + 1)..(m - 1) \/ b = m \/ b \in (m + 1)..(t.size - 1)
    BY <2>1, <2>3
  <2>6. \A b \in (m + 1)..(t.size - 1) : b \in (i + 1)..(t.size - 1) /\ b \in 0..(t.size - 1) /\ b # m
    BY <2>1, <2>3
  <2>7. Held(t, i + 1, t.size) = t.table[m] \cup Held(t, m + 1, t.size)
    BY <2>3, <2>4, <2>5, <2>6 DEF Held
  <2>8. t.table[m] \cap Held(t, m + 1, t.size) = {}
    <3>1. \A b \in (m + 1)..(t.size - 1) : \A q \in t.table[b] : q \notin t.table[m]
      BY <2>3, <2>6 DEF TableOK
    <3> QED BY <3>1 DEF Held
  <2> QED BY <1>2, <2>3, <2>7, <2>8, Zenon DEF m
<1> QED BY <1>1, <1>2, Zenon

LEMMA FirstChain ==
  ASSUME TableOK(d.ht[1])
  PROVE  /\ Ahead(1, -1) = {} => Held(d.ht[1], 0, d.ht[1].size) = {}
         /\ Ahead(1, -1) # {} =>
              LET m == MinOf(Ahead(1, -1)) C == d.ht[1].table[m] IN
              /\ m \in 0..(d.ht[1].size - 1) /\ C # {}
              /\ C \cap Held(d.ht[1], m + 1, d.ht[1].size) = {}
              /\ Held(d.ht[1], 0, d.ht[1].size) = C \cup Held(d.ht[1], m + 1, d.ht[1].size)
<1> DEFINE i == -1
           t == d.ht[1]
           S == Ahead(1, -1)
<1>1. i \in Int /\ i >= -1 /\ i + 1 = 0
  OBVIOUS
<1>2. S = {b \in (i + 1)..(t.size - 1) : t.table[b] # {}}
  BY DEF Ahead
<1> HIDE DEF i, t, S
<1>3. TableOK(t)
  BY DEF t
<1>4. /\ S = {} => Held(t, i + 1, t.size) = {}
      /\ S # {} => /\ MinOf(S) \in 0..(t.size - 1) /\ t.table[MinOf(S)] # {}
                   /\ t.table[MinOf(S)] \cap Held(t, MinOf(S) + 1, t.size) = {}
                   /\ Held(t, i + 1, t.size) = t.table[MinOf(S)] \cup Held(t, MinOf(S) + 1, t.size)
  BY <1>1, <1>2, <1>3, NextChain, Zenon
<1> QED BY <1>1, <1>4 DEF t, S

\* dictNext hands out a key it has not handed out before.
LEMMA ReturnKeeps ==
  ASSUME DictInv, IterInv, it # None, ~it.done,
         NEW tb \in {0, 1}, NEW ix \in Int, ix >= -1, tb = 1 => IsRehashing(d),
         NEW C, C \subseteq keys, NEW k \in C, C \cap Front(d, tb, ix) = {},
         C \cup Front(d, tb, ix) = it.rest \cup Front(d, it.table, it.index),
         Return(tb, ix, k, C), d' = d, keys' = keys
  PROVE  IterInv'
<1>1. it \in Iterators
  BY DEF IterInv
<1>2. keys \subseteq Keys
  BY SizeType DEF DictInv
<1>3. k \notin it.seen /\ ~it.twice
  BY DEF IterInv
<1>4. PICK n \in IF C = {k} THEN {None} ELSE C \ {k} :
        it' = [it EXCEPT !.table = tb, !.index = ix, !.cur = k, !.next = n,
                         !.rest = C \ {k}, !.twice = it.twice \/ k \in it.seen,
                         !.left = it.left \ {k}, !.seen = it.seen \cup ({k} \cap it.left)]
  BY Zenon DEF Return
<1>5. /\ n \in Keys \cup {None}
      /\ n = None => C \ {k} = {}
      /\ n # None => n \in C \ {k}
  BY <1>2, <1>4, DictAssumption
<1>6. /\ it'.table = tb /\ it'.index = ix /\ it'.cur = k /\ it'.next = n
      /\ it'.rest = C \ {k} /\ it'.twice = FALSE /\ it'.left = it.left \ {k}
      /\ it'.seen = it.seen \cup ({k} \cap it.left) /\ it'.done = it.done
  BY <1>1, <1>3, <1>4 DEF Iterators
<1>7. it' \in Iterators
  <2>1. C \ {k} \in SUBSET Keys /\ it.left \ {k} \in SUBSET Keys /\ k \in Keys
        /\ it.seen \cup ({k} \cap it.left) \in SUBSET Keys
        /\ (it.twice \/ k \in it.seen) \in BOOLEAN
    BY <1>1, <1>2 DEF Iterators
  <2> QED BY <1>1, <1>4, <1>5, <2>1, Zenon DEF Iterators
<1>8. it' # None
  BY <1>7, NoneAssumption
<1> DEFINE F == Front(d, tb, ix)
<1>9. Front(d, tb, ix)' = F
  OBVIOUS
<1>10. Front(d', it'.table, it'.index) = F
  BY <1>6
<1>11. /\ it'.rest \cap F = {} /\ it'.left \subseteq it'.rest \cup F
       /\ it'.seen \cap (it'.rest \cup F) = {}
       /\ it'.rest \subseteq keys /\ it'.seen \subseteq keys
  <2> HIDE DEF F
  <2>1. /\ it.left \subseteq C \cup F /\ it.seen \cap (C \cup F) = {} /\ it.seen \subseteq keys
        /\ C \cap F = {}
    BY DEF IterInv, F
  <2> QED BY <1>6, <2>1
<1> QED
  BY <1>5, <1>6, <1>7, <1>8, <1>10, <1>11 DEF IterInv

LEMMA IterNextKeeps ==
  ASSUME DictInv, IterInv, IterNext
  PROVE  IterInv'
<1> DEFINE tb == it.table
           ix == it.index
<1>1. it # None /\ ~it.done /\ d' = d /\ keys' = keys
  BY DEF IterNext
<1>2. /\ it \in Iterators /\ tb \in {0, 1} /\ ix \in Int /\ ix >= -1
      /\ tb = 1 => IsRehashing(d)
      /\ it.rest \subseteq keys
  <2>1. /\ it \in Iterators /\ it.index >= -1 /\ it.rest \subseteq keys
        /\ it.table = 1 => IsRehashing(d)
    BY <1>1, Zenon DEF IterInv
  <2>2. it.table \in {0, 1} /\ it.index \in Int
    BY <2>1 DEF Iterators
  <2> QED BY <2>1, <2>2
<1>3. TableOK(d.ht[0]) /\ TableOK(d.ht[1]) /\ AllOf(d.ht[0]) \subseteq keys /\ AllOf(d.ht[1]) \subseteq keys
  BY DEF DictInv, DictOK
<1>4. CASE it.next # None
  <2>1. Return(tb, ix, it.next, it.rest)
    BY <1>1, <1>4 DEF IterNext
  <2>2. it.next \in it.rest /\ it.rest \cap Front(d, tb, ix) = {}
    BY <1>1, <1>4 DEF IterInv
  <2> QED BY <1>1, <1>2, <2>1, <2>2, ReturnKeeps
<1>5. CASE it.next = None /\ Ahead(tb, ix) # {}
  <2> DEFINE m == MinOf(Ahead(tb, ix))
             C == d.ht[tb].table[m]
  <2>1. PICK k \in C : Return(tb, m, k, C)
    BY <1>1, <1>5 DEF IterNext
  <2>2. it.rest = {}
    BY <1>1, <1>5 DEF IterInv
  <2>3. TableOK(d.ht[tb])
    BY <1>2, <1>3
  <2>4. /\ m \in 0..(d.ht[tb].size - 1) /\ C # {}
        /\ C \cap Held(d.ht[tb], m + 1, d.ht[tb].size) = {}
        /\ Held(d.ht[tb], ix + 1, d.ht[tb].size) = C \cup Held(d.ht[tb], m + 1, d.ht[tb].size)
    BY <1>2, <1>5, <2>3, NextChain, Zenon DEF Ahead
  <2> HIDE DEF m
  <2>5. C \subseteq AllOf(d.ht[tb])
    BY <2>4 DEF AllOf, Held
  <2>6. C \cap (IF tb = 0 /\ IsRehashing(d) THEN AllOf(d.ht[1]) ELSE {}) = {}
    BY <2>5 DEF DictInv, DictOK
  <2>7. /\ C \cap Front(d, tb, m) = {}
        /\ C \cup Front(d, tb, m) = it.rest \cup Front(d, tb, ix)
    <3> HIDE DEF C, tb, ix
    <3> QED BY <2>2, <2>4, <2>6 DEF Front
  <2>8. C \subseteq keys
    BY <1>2, <1>3, <2>5
  <2>9. m \in Int /\ m >= -1
    BY <2>4
  <2> HIDE DEF C
  <2> QED BY <1>1, <1>2, <2>1, <2>7, <2>8, <2>9, ReturnKeeps
<1>6. CASE it.next = None /\ Ahead(tb, ix) = {} /\ IsRehashing(d) /\ tb = 0 /\ Ahead(1, -1) # {}
  <2> DEFINE m == MinOf(Ahead(1, -1))
             C == d.ht[1].table[m]
  <2>1. PICK k \in C : Return(1, m, k, C)
    BY <1>1, <1>6 DEF IterNext
  <2>2. it.rest = {}
    BY <1>1, <1>6 DEF IterInv
  <2>3. /\ m \in 0..(d.ht[1].size - 1) /\ C # {}
        /\ C \cap Held(d.ht[1], m + 1, d.ht[1].size) = {}
        /\ Held(d.ht[1], 0, d.ht[1].size) = C \cup Held(d.ht[1], m + 1, d.ht[1].size)
    BY <1>3, <1>6, FirstChain, Zenon
  <2>4. Held(d.ht[0], ix + 1, d.ht[0].size) = {}
    BY <1>2, <1>3, <1>6, NextChain, Zenon DEF Ahead
  <2> HIDE DEF m
  <2>5. C \subseteq AllOf(d.ht[1])
    BY <2>3 DEF AllOf, Held
  <2>6. AllOf(d.ht[1]) = C \cup Held(d.ht[1], m + 1, d.ht[1].size)
    BY <2>3 DEF AllOf
  <2>7. /\ C \cap Front(d, 1, m) = {}
        /\ C \cup Front(d, 1, m) = it.rest \cup Front(d, tb, ix)
    BY <1>6, <2>2, <2>3, <2>4, <2>6 DEF Front
  <2>8. C \subseteq keys /\ m \in Int /\ m >= -1
    BY <1>3, <2>3, <2>5
  <2> HIDE DEF C
  <2> QED BY <1>1, <1>6, <2>1, <2>7, <2>8, ReturnKeeps
<1>7. CASE it.next = None /\ Ahead(tb, ix) = {} /\ ~(IsRehashing(d) /\ tb = 0 /\ Ahead(1, -1) # {})
  <2>1. it' = [it EXCEPT !.cur = None, !.done = TRUE]
    BY <1>1, <1>7 DEF IterNext
  <2>2. it.rest = {}
    BY <1>1, <1>7 DEF IterInv
  <2>3. Held(d.ht[tb], ix + 1, d.ht[tb].size) = {}
    <3>1. TableOK(d.ht[tb])
      BY <1>2, <1>3
    <3> QED BY <1>2, <1>7, <3>1, NextChain, Zenon DEF Ahead
  <2>4. IsRehashing(d) /\ tb = 0 => AllOf(d.ht[1]) = {}
    BY <1>3, <1>7, FirstChain DEF AllOf
  <2>5. Front(d, tb, ix) = {}
    BY <2>3, <2>4 DEF Front
  <2>6. it.left = {}
    BY <1>1, <2>2, <2>5 DEF IterInv
  <2>7. /\ it'.table = tb /\ it'.index = ix /\ it'.cur = None /\ it'.next = it.next
        /\ it'.rest = it.rest /\ it'.twice = it.twice /\ it'.left = it.left
        /\ it'.seen = it.seen /\ it'.done = TRUE /\ it' \in Iterators
    BY <1>2, <2>1, Zenon DEF Iterators
  <2> QED BY <1>1, <2>2, <2>5, <2>6, <2>7, NoneAssumption DEF IterInv
<1> QED BY <1>4, <1>5, <1>6, <1>7

LEMMA IterAddKeeps ==
  ASSUME DictInv, IterInv, NEW k \in Keys, Add(k)
  PROVE  IterInv'
<1>1. it' = it /\ d' = dictAddRaw(d, k) /\ keys' = keys \cup {k} /\ d'.iterators = d.iterators
  BY AddOK DEF Add, DictInv
<1>2. CASE it = None
  BY <1>1, <1>2 DEF IterInv
<1>3. CASE it # None
  <2> DEFINE F == Front(d, it.table, it.index)
             G == Front(d', it.table, it.index)
  <2>1. /\ it.table \in {0, 1} /\ it.index \in Int /\ it.index >= -1
        /\ it.table = 1 => IsRehashing(d)
        /\ d.iterators # 0
    <3>1. /\ d.iterators = 1 /\ it \in Iterators /\ it.index >= -1
          /\ it.table = 1 => IsRehashing(d)
      BY <1>3, Zenon DEF IterInv
    <3>2. it.table \in {0, 1} /\ it.index \in Int
      BY <3>1 DEF Iterators
    <3> QED BY <3>1, <3>2
  <2>2. F \subseteq G /\ G \subseteq F \cup ({k} \ keys) /\ (it.table = 1 => IsRehashing(d'))
    BY <1>1, <2>1, FrontAdd DEF DictInv
  <2>3. Front(d', it'.table, it'.index) = G
    BY <1>1
  <2>4. /\ it.rest \cap F = {} /\ it.left \subseteq it.rest \cup F
        /\ it.seen \cap (it.rest \cup F) = {} /\ it.rest \subseteq keys /\ it.seen \subseteq keys
    BY <1>3 DEF IterInv
  <2> HIDE DEF F, G
  <2>5. /\ it.rest \cap G = {} /\ it.left \subseteq it.rest \cup G
        /\ it.seen \cap (it.rest \cup G) = {} /\ it.rest \subseteq keys' /\ it.seen \subseteq keys'
    BY <1>1, <2>2, <2>4
  <2> QED BY <1>1, <1>3, <2>2, <2>3, <2>5 DEF IterInv
<1> QED BY <1>2, <1>3

\* The entry handed out last is behind the iterator.
LEMMA IterDeleteKeeps ==
  ASSUME DictInv, IterInv, NEW k \in Keys, Delete(k)
  PROVE  IterInv'
<1>1. d' = dictGenericDelete(d, k) /\ keys' = keys \ {k} /\ d'.iterators = d.iterators
  BY DeleteOK DEF Delete, DictInv
<1>2. CASE it = None
  BY <1>1, <1>2 DEF IterInv, Delete
<1>3. CASE it # None
  <2> DEFINE F == Front(d, it.table, it.index)
             G == Front(d', it.table, it.index)
  <2>1. /\ it \in Iterators /\ it.table \in {0, 1} /\ it.index \in Int /\ it.index >= -1
        /\ it.table = 1 => IsRehashing(d)
        /\ d.iterators # 0
    <3>1. /\ d.iterators = 1 /\ it \in Iterators /\ it.index >= -1
          /\ it.table = 1 => IsRehashing(d)
      BY <1>3, Zenon DEF IterInv
    <3>2. it.table \in {0, 1} /\ it.index \in Int
      BY <3>1 DEF Iterators
    <3> QED BY <3>1, <3>2
  <2>2. G = F \ {k} /\ (it.table = 1 => IsRehashing(d'))
    BY <1>1, <2>1, FrontDelete DEF DictInv
  <2>3. k = it.cur /\ it' = [it EXCEPT !.left = @ \ {k}, !.seen = @ \ {k}]
    BY <1>3 DEF Delete
  <2>4. /\ it'.table = it.table /\ it'.index = it.index /\ it'.cur = it.cur /\ it'.next = it.next
        /\ it'.rest = it.rest /\ it'.twice = it.twice /\ it'.left = it.left \ {k}
        /\ it'.seen = it.seen \ {k} /\ it'.done = it.done
    BY <2>1, <2>3 DEF Iterators
  <2>5. it' \in Iterators
    BY <2>1, <2>3, Zenon DEF Iterators
  <2>6. it' # None
    BY <2>5, NoneAssumption
  <2>7. Front(d', it'.table, it'.index) = G
    BY <2>4
  <2>8. /\ it.rest \cap F = {} /\ it.left \subseteq it.rest \cup F
        /\ it.seen \cap (it.rest \cup F) = {} /\ it.rest \subseteq keys /\ it.seen \subseteq keys
        /\ k \notin it.rest
    BY <1>3, <2>3 DEF IterInv
  <2> HIDE DEF F, G
  <2>9. /\ it'.rest \cap G = {} /\ it'.left \subseteq it'.rest \cup G
        /\ it'.seen \cap (it'.rest \cup G) = {} /\ it'.rest \subseteq keys' /\ it'.seen \subseteq keys'
    BY <1>1, <2>2, <2>4, <2>8
  <2>10. /\ it.next = None => it.rest = {}
         /\ it.next # None => it.next \in it.rest
         /\ it.cur \notin it.rest /\ ~it.twice /\ (it.done => it.left = {}) /\ it.index >= -1
    BY <1>3 DEF IterInv
  <2>11. it'.done => it'.left = {}
    BY <2>4, <2>10
  <2>12. d'.iterators = 1
    BY <1>1, <1>3 DEF IterInv
  <2> QED BY <2>2, <2>4, <2>5, <2>6, <2>7, <2>9, <2>10, <2>11, <2>12 DEF IterInv
<1> QED BY <1>2, <1>3

LEMMA IterStartKeeps ==
  ASSUME DictInv, IterInv, IterStart
  PROVE  IterInv'
<1>1. /\ d' = [d EXCEPT !.iterators = @ + 1] /\ keys' = keys /\ d.iterators = 0
      /\ it' = [table |-> 0, index |-> -1, cur |-> None, next |-> None, rest |-> {},
                 left |-> keys, seen |-> {}, twice |-> FALSE, done |-> FALSE]
  BY DEF IterStart, IterInv
<1>2. /\ d'.ht = d.ht /\ d'.rehashidx = d.rehashidx /\ d'.iterators = 1
  BY <1>1 DEF DictInv, DictOK, Shape
<1>3. keys \subseteq Keys
  BY SizeType DEF DictInv
<1>4. it' \in Iterators /\ it' # None
  <2> DEFINE no == FALSE
  <2>1. no \in BOOLEAN /\ 0 \in {0, 1} /\ -1 \in Int /\ {} \in SUBSET Keys
        /\ it' = [table |-> 0, index |-> -1, cur |-> None, next |-> None, rest |-> {},
                  left |-> keys, seen |-> {}, twice |-> no, done |-> no]
    BY <1>1
  <2> HIDE DEF no
  <2> QED BY <1>3, <2>1, NoneAssumption DEF Iterators
<1>5. Front(d', 0, -1) = keys
  <2>1. keys = AllOf(d.ht[0]) \cup AllOf(d.ht[1]) /\ (~IsRehashing(d) => AllOf(d.ht[1]) = {})
    <3>1. d.ht[1].size = 0 => AllOf(d.ht[1]) = {}
      BY DEF AllOf, Held
    <3> QED BY <3>1 DEF DictInv, DictOK
  <2>2. IsRehashing(d') <=> IsRehashing(d)
    BY <1>2 DEF IsRehashing
  <2>3. Held(d'.ht[0], -1 + 1, d'.ht[0].size) = AllOf(d.ht[0])
    BY <1>2 DEF AllOf
  <2> QED BY <1>2, <2>1, <2>2, <2>3 DEF Front
<1>6. Front(d', it'.table, it'.index) = keys
  BY <1>1, <1>5
<1>7. /\ it'.table = 0 /\ it'.index = -1 /\ it'.next = None /\ it'.cur = None /\ it'.rest = {}
      /\ it'.left = keys /\ it'.seen = {} /\ it'.twice = FALSE /\ it'.done = FALSE
  BY <1>1
<1> QED BY <1>2, <1>4, <1>6, <1>7 DEF IterInv

LEMMA IterStep == DictInv /\ IterInv /\ [Next]_vars => IterInv'
<1> SUFFICES ASSUME DictInv, IterInv, [Next]_vars PROVE IterInv'
  OBVIOUS
<1>1. ASSUME d' = d, it' = it, keys' = keys PROVE IterInv'
  BY <1>1 DEF IterInv, Front, IsRehashing
<1>2. ASSUME NEW k \in Keys, Add(k) PROVE IterInv'
  BY <1>2, IterAddKeeps
<1>3. ASSUME NEW k \in Keys, Delete(k) PROVE IterInv'
  BY <1>3, IterDeleteKeeps
<1>4. ASSUME d' = RehashStep(d), it' = it, keys' = keys PROVE IterInv'
  <2>1. CASE it = None
    BY <1>4, <2>1, RehashStepOK DEF IterInv, DictInv
  <2>2. CASE it # None
    BY <1>1, <1>4, <2>2 DEF IterInv, RehashStep
  <2> QED BY <2>1, <2>2
<1>5. ASSUME NEW k \in Keys, Find(k) PROVE IterInv'
  BY <1>1, <1>4, <1>5 DEF Find, dictFind
<1>6. CASE RandomKey
  BY <1>4, <1>6 DEF RandomKey
<1>7. ASSUME it = None, it' = None, d'.iterators = d.iterators PROVE IterInv'
  BY <1>7 DEF IterInv
<1>8. CASE Clear
  BY <1>8 DEF Clear, Empty, IterInv
<1>9. CASE Resize
  <2> DEFINE n == IF d.ht[0].used < InitialSize THEN InitialSize ELSE d.ht[0].used
  <2>1. it = None /\ it' = None /\ d' = Expand(d, n)
    BY <1>9 DEF Resize
  <2>2. TableOK(d.ht[0]) /\ InitialSize \in Nat
    BY DictAssumption DEF DictInv, DictOK
  <2>3. d.ht[0].used \in Nat /\ d.ht[0].used <= Cardinality(Keys) /\ Cardinality(Keys) \in Nat
    BY <2>2, UsedBound, DictAssumption DEF TableOK, TableType
  <2>4. n \in Nat /\ (n <= 2 * Cardinality(Keys) \/ n = InitialSize)
    BY <2>2, <2>3
  <2> HIDE DEF n
  <2>5. d'.iterators = d.iterators
    BY <2>1, <2>4, ExpandKeeps DEF DictInv
  <2> QED BY <1>7, <2>1, <2>5
<1>10. CASE RehashMs
  <2>1. PICK n \in 1..MsBuckets : d' = Rehash(d, n)
    BY <1>10 DEF RehashMs
  <2>2. n \in Nat
    BY <2>1, DictAssumption
  <2> QED BY <1>7, <1>10, <2>1, <2>2, RehashOK DEF RehashMs, DictInv
<1>11. CASE ResizePolicy
  BY <1>1, <1>11 DEF ResizePolicy
<1>12. CASE IterStart
  BY <1>12, IterStartKeeps
<1>13. CASE IterNext
  BY <1>13, IterNextKeeps
<1>14. CASE IterRelease
  <2>1. d.iterators = 1 /\ d' = [d EXCEPT !.iterators = @ - 1] /\ it' = None
    BY <1>14 DEF IterRelease, IterInv
  <2>2. d'.iterators = 0
    BY <2>1 DEF DictInv, DictOK, Shape
  <2> QED BY <2>1, <2>2 DEF IterInv
<1>15. CASE Scan \/ ScanForget
  BY <1>1, <1>15 DEF Scan, ScanForget
<1>16. CASE UNCHANGED vars
  BY <1>1, <1>16 DEF vars
<1> QED
  BY <1>2, <1>3, <1>5, <1>6, <1>8, <1>9, <1>10, <1>11, <1>12, <1>13, <1>14, <1>15, <1>16
     DEF Next

\* A safe iterator (dictGetSafeIterator, dictNext) hands out every key that is
\* there from its start to its end, once, although the user deletes the entry
\* at hand and adds keys that may start a rehashing.
THEOREM IterationAlwaysExact == Spec => []IterationExact
<1>1. Init => IterInv
  BY DEF Init, Empty, IterInv
<1>2. IterInv => IterationExact
  BY DEF IterInv, IterationExact
<1> QED BY <1>1, <1>2, IterStep, DictInvariance, PTL DEF Spec
=============================================================================
