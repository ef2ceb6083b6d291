-------------------------------- MODULE Dict --------------------------------
(***************************************************************************)
(* The hash table of dict.c: two tables, incremental rehashing, safe       *)
(* iterators and the stateless cursor of SCAN.                             *)
(*                                                                         *)
(* The record d is the C struct: ht[0] and ht[1] (size, used, table),      *)
(* rehashidx and iterators.  A chain is the set of its keys: the order     *)
(* inside a chain is observable only through an iterator, which keeps the  *)
(* unvisited tail of the chain it is in.  Sizes are powers of two, so      *)
(* "hash & sizemask" is hash % size.  Every operator below is one C        *)
(* function, taking the dictionary and returning the changed one.          *)
(***************************************************************************)
EXTENDS Integers, FiniteSets

CONSTANTS
  Keys,         \* the keys that callers use
  Hash,         \* [Keys -> Nat], the hash function under the process's seed
  W,            \* width of unsigned long in bits (64 in the code)
  InitialSize,  \* DICT_HT_INITIAL_SIZE (4)
  EmptyVisits,  \* empty buckets visited per requested rehashing step (10)
  ForceRatio,   \* dict_force_resize_ratio (5)
  MinFill,      \* HASHTABLE_MIN_FILL of server.c, a percentage (10)
  MsBuckets,    \* buckets one millisecond of background rehashing may move
  None

ASSUME DictAssumption ==
  /\ IsFiniteSet(Keys) /\ Hash \in [Keys -> Nat] /\ None \notin Keys
  /\ W \in Nat /\ InitialSize \in Nat \ {0} /\ EmptyVisits \in Nat \ {0}
  /\ ForceRatio \in Nat /\ MinFill \in Nat /\ MsBuckets \in Nat \ {0}

\* A safe iterator: the table and bucket where it stands, the entry it
\* returned and the one it saved, the rest of the chain; and what a reader can
\* tell of the iteration (left, seen, twice, done), which is history.
Iterators ==
  [table : {0, 1}, index : Int, cur : Keys \cup {None}, next : Keys \cup {None},
   rest : SUBSET Keys, left : SUBSET Keys, seen : SUBSET Keys,
   twice : BOOLEAN, done : BOOLEAN]

ASSUME NoneAssumption == None \notin Iterators

VARIABLES
  d,          \* the dictionary
  canResize,  \* dict_can_resize, cleared while a child process is saving
  keys,       \* what callers stored: history, not in the code
  it,         \* a safe iterator, or None
  scan        \* a client's SCAN in progress, or None

vars == <<d, canResize, keys, it, scan>>

-----------------------------------------------------------------------------
(* Tables. *)

NoTable == [size |-> 0, used |-> 0, table |-> [i \in {} |-> {}]]

NewTable(n) == [size |-> n, used |-> 0, table |-> [i \in 0..(n - 1) |-> {}]]

Empty == [ht |-> [t \in {0, 1} |-> NoTable], rehashidx |-> -1, iterators |-> 0]

IsRehashing(x) == x.rehashidx # -1

Index(k, t) == Hash[k] % t.size

Size(x) == x.ht[0].used + x.ht[1].used

\* The keys of the buckets lo .. hi - 1 of table t.
Held(t, lo, hi) == UNION {t.table[i] : i \in lo..(hi - 1)}

Stored(x) == Held(x.ht[0], 0, x.ht[0].size) \cup Held(x.ht[1], 0, x.ht[1].size)

Sizes == {InitialSize * 2^i : i \in 0..W}

\* The keys fit in the address space, twice over.  (That the sizes are
\* positive is arithmetic; it is stated because the provers do not know 2^i.)
ASSUME SizesAssumption ==
  /\ Sizes \subseteq Nat \ {0}
  /\ InitialSize \in Sizes
  /\ \E p \in Sizes : p >= 2 * Cardinality(Keys)

NextPower(n) == CHOOSE p \in Sizes : p >= n /\ \A q \in Sizes : q >= n => p <= q

ExpandOK(x, n) ==
  ~IsRehashing(x) /\ x.ht[0].used <= n /\ NextPower(n) # x.ht[0].size

Expand(x, n) ==
  IF ~ExpandOK(x, n) THEN x
  ELSE IF x.ht[0].size = 0 THEN [x EXCEPT !.ht[0] = NewTable(NextPower(n))]
  ELSE [x EXCEPT !.ht[1] = NewTable(NextPower(n)), !.rehashidx = 0]

\* Rehashing n buckets stops at bucket e: n chains were moved, or
\* n * EmptyVisits empty buckets were met, or table 0 has no key left.
Stops(x, n, e) ==
  LET t    == x.ht[0]
      seen == x.rehashidx..(e - 1)
      full == {i \in seen : t.table[i] # {}}
  IN \/ t.used = Cardinality(Held(t, x.rehashidx, e))
     \/ Cardinality(full) = n
     \/ Cardinality(seen \ full) = n * EmptyVisits

StopAt(x, n) ==
  CHOOSE e \in x.rehashidx..x.ht[0].size :
    Stops(x, n, e) /\ \A f \in x.rehashidx..(e - 1) : ~Stops(x, n, f)

\* Table t without the chains of the buckets lo .. hi - 1.
Emptied(t, lo, hi) ==
  [t EXCEPT !.used = @ - Cardinality(Held(t, lo, hi)),
            !.table = [i \in DOMAIN @ |-> IF i \in lo..(hi - 1) THEN {} ELSE @[i]]]

\* Table t with the keys of S, each in the chain of its hash.
Filled(t, S) ==
  [t EXCEPT !.used = @ + Cardinality(S),
            !.table = [i \in DOMAIN @ |-> @[i] \cup {k \in S : Index(k, t) = i}]]

Rehash(x, n) ==
  IF ~IsRehashing(x) THEN x ELSE
  LET e   == StopAt(x, n)
      old == Emptied(x.ht[0], x.rehashidx, e)
      new == Filled(x.ht[1], Held(x.ht[0], x.rehashidx, e))
  IN IF old.used = 0
     THEN [x EXCEPT !.ht = [t \in {0, 1} |-> IF t = 0 THEN new ELSE NoTable],
                    !.rehashidx = -1]
     ELSE [x EXCEPT !.ht = [t \in {0, 1} |-> IF t = 0 THEN old ELSE new],
                    !.rehashidx = e]

\* mutant: the lookup step does not respect safe iterators
RehashStepAlways(x) == Rehash(x, 1)

\* One bucket, and only when no safe iterator is bound to the dictionary.
RehashStep(x) == IF x.iterators = 0 THEN Rehash(x, 1) ELSE x

-----------------------------------------------------------------------------
(* Lookup, insertion, deletion. *)

\* mutant: only the old table is searched
SlotsOld(x) == {0}

Slots(x) == IF IsRehashing(x) THEN {0, 1} ELSE {0}

Holds(t, k) == k \in t.table[Index(k, t)]

Found(x, k) == Size(x) # 0 /\ \E t \in Slots(x) : Holds(x.ht[t], k)

dictFind(x, k) == IF Size(x) = 0 THEN x ELSE RehashStep(x)

\* The size _dictExpandIfNeeded asks for, 0 when the table is large enough.
Wanted(x) ==
  LET t == x.ht[0]
  IN IF IsRehashing(x) THEN 0
     ELSE IF t.size = 0 THEN InitialSize
     ELSE IF t.used >= t.size /\ (canResize \/ t.used \div t.size > ForceRatio)
     THEN t.used * 2
     ELSE 0

\* mutant: new keys keep going to the old table
TargetOld(x) == 0

\* The table a new key goes to: always the new one during a rehashing.
Target(x) == IF IsRehashing(x) THEN 1 ELSE 0

Linked(t, k) ==
  [t EXCEPT !.table[Index(k, t)] = @ \cup {k}, !.used = @ + 1]

Unlinked(t, k) ==
  [t EXCEPT !.table[Index(k, t)] = @ \ {k}, !.used = @ - 1]

Insert(x, k) == [x EXCEPT !.ht[Target(x)] = Linked(@, k)]

\* A key that is already there is left alone (NULL, or its value replaced);
\* a failed expansion refuses the key.
dictAddRaw(x, k) ==
  LET r == RehashStep(x)
      n == Wanted(r)
      y == IF n = 0 THEN r ELSE Expand(r, n)
  IN IF (n # 0 /\ ~ExpandOK(r, n)) \/ Found(y, k) THEN y ELSE Insert(y, k)

dictGenericDelete(x, k) ==
  IF Size(x) = 0 THEN x ELSE
  LET y     == RehashStep(x)
      where == {t \in Slots(y) : Holds(y.ht[t], k)}
      t     == IF 0 \in where THEN 0 ELSE 1
  IN IF where = {} THEN y
     ELSE [y EXCEPT !.ht[t] = Unlinked(@, k)]

-----------------------------------------------------------------------------
(* SCAN: the cursor is counted from its high bits. *)

Words == 0..(2^W - 1)

Bit(v, i) == (v \div 2^i) % 2

rev == [v \in Words |->
          CHOOSE r \in Words : \A i \in 0..(W - 1) : Bit(r, i) = Bit(v, W - 1 - i)]

\* mutant: the cursor is incremented from its low bits
NextCursorPlain(v, size) == ((v % size) + 1) % size

\* v |= ~(size - 1); v = rev(rev(v) + 1)
NextCursor(v, size) == rev[(rev[(v % size) + 2^W - size] + 1) % 2^W]

\* One call of dictScan: the keys it emits and the cursor it returns.
dictScan(x, v) ==
  IF Size(x) = 0 THEN [out |-> {}, cursor |-> 0]
  ELSE IF ~IsRehashing(x)
  THEN [out |-> x.ht[0].table[v % x.ht[0].size],
        cursor |-> NextCursor(v, x.ht[0].size)]
  ELSE LET small == IF x.ht[0].size > x.ht[1].size THEN x.ht[1] ELSE x.ht[0]
           large == IF x.ht[0].size > x.ht[1].size THEN x.ht[0] ELSE x.ht[1]
           c[i \in 0..large.size] ==
             IF i = 0 THEN v ELSE NextCursor(c[i - 1], large.size)
           \* v & (m0 ^ m1) is zero
           Wrapped(i) == (c[i] % large.size) \div small.size = 0
           n == CHOOSE i \in 1..large.size :
                  Wrapped(i) /\ \A j \in 1..(i - 1) : ~Wrapped(j)
       IN [out |-> small.table[v % small.size] \cup
                   UNION {large.table[c[i] % large.size] : i \in 0..(n - 1)},
           cursor |-> c[n]]

-----------------------------------------------------------------------------
Init ==
  /\ d = Empty
  /\ canResize = TRUE
  /\ keys = {}
  /\ it = None
  /\ scan = None

Add(k) ==
  /\ d' = dictAddRaw(d, k)
  /\ keys' = keys \cup {k}
  /\ UNCHANGED <<canResize, it, scan>>

\* The user of a safe iterator may delete the entry it was handed, and no
\* other: a later entry may be the one the iterator has saved.
Delete(k) ==
  /\ it # None => k = it.cur
  /\ d' = dictGenericDelete(d, k)
  /\ keys' = keys \ {k}
  /\ scan' = IF scan = None THEN None ELSE [scan EXCEPT !.left = @ \ {k}]
  /\ it' = IF it = None THEN None
           ELSE [it EXCEPT !.left = @ \ {k}, !.seen = @ \ {k}]
  /\ UNCHANGED canResize

Find(k) == d' = dictFind(d, k) /\ UNCHANGED <<canResize, keys, it, scan>>

RandomKey ==
  Size(d) # 0 /\ d' = RehashStep(d) /\ UNCHANGED <<canResize, keys, it, scan>>

\* mutant: the buckets of the new table are not drawn
DrawnOld(x) == Held(x.ht[0], 0, x.ht[0].size)

\* dictGetRandomKey draws among the buckets at or above rehashidx.
Drawn(x) ==
  IF IsRehashing(x)
  THEN Held(x.ht[0], x.rehashidx, x.ht[0].size) \cup Held(x.ht[1], 0, x.ht[1].size)
  ELSE Held(x.ht[0], 0, x.ht[0].size)

Clear ==
  /\ it = None
  /\ d' = Empty
  /\ keys' = {}
  /\ scan' = IF scan = None THEN None ELSE [scan EXCEPT !.left = {}]
  /\ UNCHANGED <<canResize, it>>

\* tryResizeHashTables of the cron, and the type commands after a removal.
htNeedsResize ==
  LET slots == d.ht[0].size + d.ht[1].size
  IN slots > InitialSize /\ (Size(d) * 100) \div slots < MinFill

Resize ==
  /\ it = None
  /\ htNeedsResize
  /\ canResize /\ ~IsRehashing(d)
  /\ d' = Expand(d, IF d.ht[0].used < InitialSize THEN InitialSize ELSE d.ht[0].used)
  /\ UNCHANGED <<canResize, keys, it, scan>>

\* mutant: no background rehashing while a child process is saving
RehashMsPolicy ==
  /\ it = None
  /\ IsRehashing(d) /\ canResize
  /\ d' = Rehash(d, 1)
  /\ UNCHANGED <<canResize, keys, it, scan>>

\* dictRehashMilliseconds: the clock decides how many buckets are moved.
RehashMs ==
  /\ it = None
  /\ IsRehashing(d)
  /\ \E n \in 1..MsBuckets : d' = Rehash(d, n)
  /\ UNCHANGED <<canResize, keys, it, scan>>

\* A saving child starts or ends.
ResizePolicy == canResize' = ~canResize /\ UNCHANGED <<d, keys, it, scan>>

\* Entries of table t after the bucket where the iterator stands.
Ahead(t, from) == {i \in (from + 1)..(d.ht[t].size - 1) : d.ht[t].table[i] # {}}

MinOf(S) == CHOOSE i \in S : \A j \in S : i <= j

\* dictNext returns k, an entry of the chain C, and saves the one after it.
\* left and seen split the keys that were there since the start.
Return(table, index, k, C) ==
  \E n \in IF C = {k} THEN {None} ELSE C \ {k} :
    it' = [it EXCEPT !.table = table, !.index = index, !.cur = k,
                     !.next = n, !.rest = C \ {k},
                     !.twice = @ \/ k \in it.seen,
                     !.left = @ \ {k}, !.seen = @ \cup ({k} \cap it.left)]

IterStart ==
  /\ it = None /\ scan = None
  /\ d' = [d EXCEPT !.iterators = @ + 1]
  /\ it' = [table |-> 0, index |-> -1, cur |-> None, next |-> None, rest |-> {},
            left |-> keys, seen |-> {}, twice |-> FALSE, done |-> FALSE]
  /\ UNCHANGED <<canResize, keys, scan>>

\* The saved entry first, then the next chain of this table, then table 1.
IterNext ==
  /\ it # None /\ ~it.done
  /\ IF it.next # None
     THEN Return(it.table, it.index, it.next, it.rest)
     ELSE IF Ahead(it.table, it.index) # {}
     THEN LET i == MinOf(Ahead(it.table, it.index))
              C == d.ht[it.table].table[i]
          IN \E k \in C : Return(it.table, i, k, C)
     ELSE IF IsRehashing(d) /\ it.table = 0 /\ Ahead(1, -1) # {}
     THEN LET i == MinOf(Ahead(1, -1))
              C == d.ht[1].table[i]
          IN \E k \in C : Return(1, i, k, C)
     ELSE it' = [it EXCEPT !.cur = None, !.done = TRUE]
  /\ UNCHANGED <<d, canResize, keys, scan>>

IterRelease ==
  /\ it # None /\ it.done
  /\ d' = [d EXCEPT !.iterators = @ - 1]
  /\ it' = None
  /\ UNCHANGED <<canResize, keys, scan>>

\* A client starts a SCAN at cursor 0 and goes on until 0 comes back; left
\* are the keys there since the start that no call has returned.
Scan ==
  /\ it = None
  /\ LET s == IF scan = None THEN [cursor |-> 0, left |-> keys, done |-> FALSE]
              ELSE scan
         r == dictScan(d, s.cursor)
     IN /\ ~s.done
        /\ scan' = [s EXCEPT !.cursor = r.cursor, !.left = @ \ r.out,
                             !.done = r.cursor = 0]
  /\ UNCHANGED <<d, canResize, keys, it>>

ScanForget == scan # None /\ scan' = None /\ UNCHANGED <<d, canResize, keys, it>>

Next ==
  \/ \E k \in Keys : Add(k) \/ Delete(k) \/ Find(k)
  \/ RandomKey \/ Clear \/ Resize \/ RehashMs \/ ResizePolicy
  \/ IterStart \/ IterNext \/ IterRelease
  \/ Scan \/ ScanForget

Spec == Init /\ [][Next]_vars

\* The timer runs between commands again and again, so the cron is taken
\* whenever it is possible again and again; a command that iterates ends.
Fairness ==
  /\ SF_vars(RehashMs)
  /\ WF_vars(IterNext) /\ WF_vars(IterRelease)

-----------------------------------------------------------------------------
(* Properties. *)

\* Every lookup is exact at every moment of an incremental rehashing: dictFind
\* finds a key iff a caller stored it, whichever table its bucket is in.
LookupExact == \A k \in Keys : Found(dictFind(d, k), k) <=> k \in keys

\* dictRehash decides that it is done from the counter "used" alone.  The
\* counters always equal the keys in the tables, no key is in both tables, and
\* no bucket below rehashidx holds a key (dictGetSomeKeys and
\* dictGetRandomKey skip those buckets).
CountersExact ==
  /\ \A t \in {0, 1} :
       d.ht[t].used = Cardinality(Held(d.ht[t], 0, d.ht[t].size))
  /\ Size(d) = Cardinality(keys)
  /\ IsRehashing(d) => Held(d.ht[0], 0, d.rehashidx) = {}

\* dictGetRandomKey loops until it draws a used bucket: while keys are stored
\* every one of them can be drawn, so the loop can end and no key is left out.
RandomReachesAll == Size(d) # 0 => Drawn(RehashStep(d)) = keys

\* The tables are sound at every moment of an incremental rehashing: lookups,
\* counters and random draws are exact (dict.c, dictFind, dictRehash,
\* dictGetRandomKey).
TablesSound == LookupExact /\ CountersExact /\ RandomReachesAll

\* The guarantee of dictScan: a key present from the first call of a scan to
\* the call that returns cursor 0 was emitted, whatever resizes and rehashing
\* happened between the calls.
ScanComplete == scan # None /\ scan.done => scan.left = {}

\* A safe iteration, during which the user adds keys (and may so start a
\* rehashing) and deletes the entries it is handed, returns each key that is
\* there throughout exactly once.
IterationExact ==
  it # None => ~it.twice /\ (it.done => it.left = {})

\* Cursors and safe iterators miss no key that is there throughout, and an
\* iterator returns none twice (dict.c, dictScan and dictNext).
TraversalsComplete == ScanComplete /\ IterationExact

\* A rehashing that was started ends, if the cron keeps running.
RehashEnds == IsRehashing(d) ~> ~IsRehashing(d)
=============================================================================
