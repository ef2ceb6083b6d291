-------------------------------- MODULE Rax --------------------------------
(***************************************************************************)
(* rax.c: the radix tree of the streams, of the slots of a cluster and of  *)
(* the clients.  A node holds, in data, either the letters of its children *)
(* or, compressed, the letters on the way to its only child.  The code's   *)
(* stack of parents is here a path: the position taken in each node.       *)
(*                                                                         *)
(* Memory is not exhausted and no key is as long as RAX_NODE_MAX_SIZE.     *)
(***************************************************************************)
EXTENDS Integers, Sequences, FiniteSets

CONSTANTS NoKey,     \* what a node that ends no key holds
          Scenarios  \* [keys, values, walk]

VARIABLE s

Max2(a, b) == IF a > b THEN a ELSE b
Least(S) == CHOOSE x \in S : \A y \in S : x <= y
Greatest(S) == CHOOSE x \in S : \A y \in S : x >= y
Front(q) == SubSeq(q, 1, Len(q) - 1)
From(q, i) == SubSeq(q, i, Len(q))

-----------------------------------------------------------------------------
(* Nodes. *)

Leaf(value) == [value |-> value, compr |-> FALSE, data |-> <<>>, kids |-> <<>>]
Chain(value, data, kid) == [value |-> value, compr |-> Len(data) > 1, data |-> data, kids |-> <<kid>>]

IsKey(n) == n.value # NoKey
Passage(n) == ~IsKey(n) /\ (n.compr \/ Len(n.data) = 1)   \* may be merged with its parent

New == [head |-> Leaf(NoKey), ele |-> 0, nodes |-> 1]

RECURSIVE At(_, _), With(_, _, _), Count(_)
At(n, path) == IF path = <<>> THEN n ELSE At(n.kids[path[1]], Tail(path))
With(n, path, m) == IF path = <<>> THEN m
                    ELSE [n EXCEPT !.kids[path[1]] = With(@, Tail(path), m)]
Count(n) == LET C[i \in 0..Len(n.kids)] == IF i = 0 THEN 1 ELSE C[i - 1] + Count(n.kids[i])
            IN C[Len(n.kids)]

\* raxLowWalk: how much of the key was matched, the node it stopped at and how
\* much of that node, when compressed, was matched too
Common(data, key, i) ==
  LET n == IF Len(data) < Len(key) - i THEN Len(data) ELSE Len(key) - i
      same == {m \in 0..n : SubSeq(data, 1, m) = SubSeq(key, i + 1, i + m)}
  IN Greatest(same)

RECURSIVE WalkFrom(_, _, _, _)
WalkFrom(n, key, i, path) ==
  IF n.data = <<>> \/ i = Len(key) THEN [i |-> i, path |-> path, j |-> 0]
  ELSE IF n.compr
  THEN LET m == Common(n.data, key, i)
       IN IF m = Len(n.data) THEN WalkFrom(n.kids[1], key, i + m, Append(path, 1))
          ELSE [i |-> i + m, path |-> path, j |-> m]
  ELSE LET at == {p \in DOMAIN n.data : n.data[p] = key[i + 1]}
       IN IF at = {} THEN [i |-> i, path |-> path, j |-> 0]
          ELSE WalkFrom(n.kids[Least(at)], key, i + 1, Append(path, Least(at)))

LowWalk(head, key) == WalkFrom(head, key, 0, <<>>)

-----------------------------------------------------------------------------
(* raxGenericInsert. *)

\* raxAddChild
AddChild(n, c, kid) ==
  LET pos == Cardinality({p \in DOMAIN n.data : n.data[p] <= c})
  IN [n EXCEPT !.data = SubSeq(@, 1, pos) \o <<c>> \o From(@, pos + 1),
               !.kids = SubSeq(@, 1, pos) \o <<kid>> \o From(@, pos + 1)]

\* The loop that adds the rest of the key below a node
RECURSIVE Grow(_, _, _)
Grow(n, rest, value) ==
  IF rest = <<>> THEN [n EXCEPT !.value = value]
  ELSE IF n.data = <<>> /\ Len(rest) > 1 THEN Chain(n.value, rest, Leaf(value))
  ELSE AddChild(n, rest[1], Grow(Leaf(NoKey), Tail(rest), value))

Grown(n, rest) == IF rest = <<>> THEN 0
                  ELSE IF n.data = <<>> \/ Len(rest) = 1 THEN 1
                  ELSE 2

\* Algorithm 1: a compressed node differs from the key at j
SplitNode(n, j) ==
  LET post == From(n.data, j + 2)
      next == IF post = <<>> THEN n.kids[1] ELSE Chain(NoKey, post, n.kids[1])
  IN Chain(IF j = 0 THEN n.value ELSE NoKey, <<n.data[j + 1]>>, next)

Split(n, j, rest, value) ==
  IF j = 0 THEN Grow(SplitNode(n, j), rest, value)
  ELSE Chain(n.value, SubSeq(n.data, 1, j), Grow(SplitNode(n, j), rest, value))

SplitNodes(n, j, rest) == (IF j > 0 THEN 1 ELSE 0) + (IF j + 1 < Len(n.data) THEN 1 ELSE 0)
                          + Grown(SplitNode(n, j), rest)

\* Algorithm 2: the key ends inside a compressed node
\* Mutated: the trimmed node loses its own key
TrimLosesKey(n, j, value) == Chain(NoKey, SubSeq(n.data, 1, j), Chain(value, From(n.data, j + 1), n.kids[1]))

Trim(n, j, value) == Chain(n.value, SubSeq(n.data, 1, j), Chain(value, From(n.data, j + 1), n.kids[1]))

Put(r, path, n, ele, nodes) == [head |-> With(r.head, path, n), ele |-> r.ele + ele, nodes |-> r.nodes + nodes]

InsertAt(r, w, n, rest, value, over) ==
  IF rest = <<>> /\ (~n.compr \/ w.j = 0)
  THEN IF IsKey(n) THEN [r |-> IF over THEN Put(r, w.path, [n EXCEPT !.value = value], 0, 0) ELSE r,
                         ok |-> FALSE, old |-> n.value]
       ELSE [r |-> Put(r, w.path, [n EXCEPT !.value = value], 1, 0), ok |-> TRUE, old |-> NoKey]
  ELSE [r |-> IF n.compr /\ rest # <<>>
              THEN Put(r, w.path, Split(n, w.j, rest, value), 1, SplitNodes(n, w.j, rest))
              ELSE IF n.compr THEN Put(r, w.path, Trim(n, w.j, value), 1, 1)
              ELSE Put(r, w.path, Grow(n, rest, value), 1, Grown(n, rest)),
        ok |-> TRUE, old |-> NoKey]

InsertWalked(r, w, key, value, over) == InsertAt(r, w, At(r.head, w.path), From(key, w.i + 1), value, over)

Insert(r, key, value, over) == InsertWalked(r, LowWalk(r.head, key), key, value, over)

\* raxFind
FindAt(w, n, key) == IF w.i # Len(key) \/ (n.compr /\ w.j # 0) THEN NoKey ELSE n.value
FindWalked(r, w, key) == FindAt(w, At(r.head, w.path), key)
Find(r, key) == FindWalked(r, LowWalk(r.head, key), key)

-----------------------------------------------------------------------------
(* raxRemove. *)

RECURSIVE DeadEnd(_, _), StartOf(_, _)

\* The parent at which the removal of a childless node stops
DeadEnd(head, path) ==
  IF path = <<>> \/ ~Passage(At(head, path)) THEN path ELSE DeadEnd(head, Front(path))

\* raxRemoveChild
Without(n, p) ==
  IF n.compr THEN Leaf(n.value)
  ELSE [n EXCEPT !.data = SubSeq(@, 1, p - 1) \o From(@, p + 1),
                 !.kids = SubSeq(@, 1, p - 1) \o From(@, p + 1)]

\* Where the nodes that may become one begin, and the one they become
StartOf(head, path) ==
  IF path = <<>> \/ ~Passage(At(head, Front(path))) THEN path ELSE StartOf(head, Front(path))

RECURSIVE Joined(_), Joins(_)
Joined(n) == IF n.data = <<>> \/ ~Passage(n.kids[1]) THEN [data |-> n.data, next |-> n.kids[1]]
             ELSE LET below == Joined(n.kids[1]) IN [below EXCEPT !.data = n.data \o @]
Joins(n) == IF Passage(n.kids[1]) THEN 1 + Joins(n.kids[1]) ELSE 0

Compress(r, path) ==
  LET n == At(r.head, path)
      all == Joined(n)
  IN IF Joins(n) = 0 THEN r
     ELSE Put(r, path, Chain(NoKey, all.data, all.next), 0, -Joins(n))

TryCompress(r, path, yes) == IF yes THEN Compress(r, StartOf(r.head, path)) ELSE r

\* Mutated: of the nodes that are freed one is counted
UnlinkUncounted(r, path, top) ==
  TryCompress(Put(r, top, Without(At(r.head, top), path[Len(top) + 1]), 0, -1),
              top, Len(At(r.head, top).data) = 2 /\ ~IsKey(At(r.head, top)) /\ ~At(r.head, top).compr)

\* Free the nodes from the one at path up to, but not including, top
Unlink(r, path, top) ==
  TryCompress(Put(r, top, Without(At(r.head, top), path[Len(top) + 1]), 0, Len(top) - Len(path)),
              top, Len(At(r.head, top).data) = 2 /\ ~IsKey(At(r.head, top)) /\ ~At(r.head, top).compr)

RemoveAt(r, path, n) ==
  IF n.data # <<>> THEN TryCompress(r, path, Len(n.data) = 1)
  ELSE IF path = <<>> THEN r
  ELSE Unlink(r, path, DeadEnd(r.head, Front(path)))

RemoveFound(r, path) ==
  RemoveAt(Put(r, path, [At(r.head, path) EXCEPT !.value = NoKey], -1, 0), path, At(r.head, path))

Remove(r, key) ==
  LET old == Find(r, key)
  IN IF old = NoKey THEN [r |-> r, ok |-> FALSE, old |-> NoKey]
     ELSE [r |-> RemoveFound(r, LowWalk(r.head, key).path), ok |-> TRUE, old |-> old]

-----------------------------------------------------------------------------
(* Iterators: raxStart, raxSeek, raxNext and raxPrev. *)

Start == [path |-> <<>>, key |-> <<>>, value |-> NoKey, eof |-> TRUE, just |-> FALSE]

RECURSIVE Forward(_, _, _, _, _), Climb(_, _, _, _, _), SeekGreatest(_, _, _), Backward(_, _, _, _, _)

Reach(h, it, path, key) == [it EXCEPT !.path = path, !.key = key, !.value = At(h, path).value]

\* raxIteratorNextStep
Arrive(h, it, path, key) ==
  IF IsKey(At(h, path)) THEN Reach(h, it, path, key) ELSE Forward(h, it, path, key, FALSE)

Forward(h, it, path, key, noup) ==
  LET n == At(h, path)
  IN IF noup \/ n.kids = <<>> THEN Climb(h, it, path, key, noup)
     ELSE Arrive(h, it, Append(path, 1), key \o IF n.compr THEN n.data ELSE <<n.data[1]>>)

Scan(n, noup, S) == IF n.compr \/ Len(n.data) <= (IF noup THEN 0 ELSE 1) THEN {} ELSE S

Cut(n, key) == SubSeq(key, 1, Len(key) - IF n.compr THEN Len(n.data) ELSE 1)

ClimbTo(h, it, path, n, key, prev, noup) ==
  LET found == Scan(n, noup, {p \in DOMAIN n.data : n.data[p] > prev})
  IN IF found = {} THEN Climb(h, it, path, Cut(n, key), FALSE)
     ELSE Arrive(h, it, Append(path, Least(found)), Append(Cut(n, key), n.data[Least(found)]))

ClimbAt(h, it, path, key, noup) == ClimbTo(h, it, path, At(h, path), key, key[Len(key)], noup)

Climb(h, it, path, key, noup) ==
  IF ~noup /\ path = <<>> THEN [it EXCEPT !.eof = TRUE]
  ELSE ClimbAt(h, it, IF noup THEN path ELSE Front(path), key, noup)

NextStep(h, it, noup) ==
  IF it.eof THEN it ELSE IF it.just THEN [it EXCEPT !.just = FALSE]
  ELSE Forward(h, it, it.path, it.key, noup)

\* raxSeekGreatest, raxIteratorPrevStep
SeekGreatest(h, path, key) ==
  LET n == At(h, path)
  IN IF n.data = <<>> THEN [path |-> path, key |-> key]
     ELSE SeekGreatest(h, Append(path, Len(n.kids)), key \o IF n.compr THEN n.data ELSE <<n.data[Len(n.data)]>>)

Stop(h, it, at) == IF IsKey(At(h, at.path)) THEN Reach(h, it, at.path, at.key)
                   ELSE Backward(h, it, at.path, at.key, FALSE)

BackTo(h, it, path, n, key, prev, noup) ==
  LET found == Scan(n, noup, {p \in DOMAIN n.data : n.data[p] < prev})
  IN Stop(h, it, IF found = {} THEN [path |-> path, key |-> Cut(n, key)]
                 ELSE SeekGreatest(h, Append(path, Greatest(found)),
                                   Append(Cut(n, key), n.data[Greatest(found)])))

BackAt(h, it, path, key, noup) == BackTo(h, it, path, At(h, path), key, key[Len(key)], noup)

Backward(h, it, path, key, noup) ==
  IF ~noup /\ path = <<>> THEN [it EXCEPT !.eof = TRUE]
  ELSE BackAt(h, it, IF noup THEN path ELSE Front(path), key, noup)

PrevStep(h, it, noup) ==
  IF it.eof THEN it ELSE IF it.just THEN [it EXCEPT !.just = FALSE]
  ELSE Backward(h, it, it.path, it.key, noup)

\* raxSeek.  Lower and Upper are its two directions after a walk that stopped
\* in node n at it.path, i letters of the element being matched.  A "<" that
\* stops inside a compressed key leaves the iterator's value as it was.
\* Mutated: the letter that differs is not compared
UpperAlways(h, it, n, w, ele) ==
  IF w.i = Len(ele) THEN NextStep(h, it, FALSE)
  ELSE IF ~n.compr THEN NextStep(h, [it EXCEPT !.key = Append(@, ele[w.i + 1])], TRUE)
  ELSE NextStep(h, it, FALSE)

Upper(h, it, n, w, ele) ==
  IF w.i = Len(ele) THEN NextStep(h, it, FALSE)
  ELSE IF ~n.compr THEN NextStep(h, [it EXCEPT !.key = Append(@, ele[w.i + 1])], TRUE)
  ELSE IF n.data[w.j + 1] > ele[w.i + 1] THEN NextStep(h, it, FALSE)
  ELSE NextStep(h, [it EXCEPT !.key = @ \o n.data], TRUE)

Lower(h, it, n, w, ele) ==
  IF w.i = Len(ele) THEN IF n.compr /\ IsKey(n) /\ w.j > 0 THEN it ELSE PrevStep(h, it, FALSE)
  ELSE IF ~n.compr THEN PrevStep(h, [it EXCEPT !.key = Append(@, ele[w.i + 1])], TRUE)
  ELSE IF n.data[w.j + 1] < ele[w.i + 1]
  THEN LET at == SeekGreatest(h, it.path, it.key) IN Reach(h, it, at.path, at.key)
  ELSE PrevStep(h, [it EXCEPT !.key = @ \o n.data], TRUE)

SeekFrom(h, it, n, w, op, ele) ==
  IF op \in {"=", ">=", "<="} /\ w.i = Len(ele) /\ (~n.compr \/ w.j = 0) /\ IsKey(n)
  THEN Reach(h, [it EXCEPT !.just = TRUE], w.path, ele)
  ELSE IF op = "=" THEN [it EXCEPT !.eof = TRUE, !.just = TRUE]
  ELSE [(IF op \in {">", ">="} THEN Upper(h, it, n, w, ele) ELSE Lower(h, it, n, w, ele))
        EXCEPT !.just = TRUE]

SeekWalked(h, it, w, op, ele) ==
  SeekFrom(h, [it EXCEPT !.path = w.path, !.key = SubSeq(ele, 1, w.i - w.j), !.eof = FALSE, !.just = FALSE],
           At(h, w.path), w, op, ele)

Seek(r, it, op, ele) ==
  IF r.ele = 0 THEN [it EXCEPT !.path = <<>>, !.key = <<>>, !.eof = TRUE, !.just = TRUE]
  ELSE IF op = "^" THEN SeekWalked(r.head, it, LowWalk(r.head, <<>>), ">=", <<>>)
  ELSE IF op = "$"
  THEN LET at == SeekGreatest(r.head, <<>>, <<>>)
       IN Reach(r.head, [it EXCEPT !.eof = FALSE, !.just = TRUE], at.path, at.key)
  ELSE SeekWalked(r.head, it, LowWalk(r.head, ele), op, ele)

\* raxCompare
Differ(a, b) == {i \in 1..Max2(Len(a), Len(b)) : i > Len(a) \/ i > Len(b) \/ a[i] # b[i]}
Before(a, b) == LET d == Differ(a, b)
                IN d # {} /\ LET i == Least(d) IN i > Len(a) \/ (i <= Len(b) /\ a[i] < b[i])

Compare(key, op, ele) ==
  \/ op \in {"==", ">=", "<="} /\ key = ele
  \/ op \in {">", ">="} /\ Before(ele, key)
  \/ op \in {"<", "<="} /\ Before(key, ele)

-----------------------------------------------------------------------------
(* The machine: one iterator, started again after every change but the       *)
(* removal of the key it stands at.                                           *)

Ops == {"=", ">", ">=", "<", "<=", "^", "$"}

NowAt(res, want) == s' = [s EXCEPT !.r = res.r, !.ok = res.ok, !.old = res.old, !.want = want,
                                   !.it = Start, !.at = <<>>]

\* What the map gives back: whether the key is new, and its old value
InsertStep ==
  \E key \in s.sc.keys, value \in s.sc.values, over \in BOOLEAN :
    /\ s.it = Start
    /\ NowAt(Insert(s.r, key, value, over),
             IF key \in DOMAIN s.want /\ ~over THEN s.want
             ELSE [k \in DOMAIN s.want \cup {key} |-> IF k = key THEN value ELSE s.want[k]])

RemoveStep ==
  \E key \in s.sc.keys :
    /\ s.it = Start
    /\ NowAt(Remove(s.r, key), [k \in DOMAIN s.want \ {key} |-> s.want[k]])

First(S) == CHOOSE k \in S : \A x \in S \ {k} : Before(k, x)
Last(S) == CHOOSE k \in S : \A x \in S \ {k} : Before(x, k)
Toward(S, up) == IF S = {} THEN [key |-> <<>>, eof |-> TRUE, just |-> TRUE]
                 ELSE [key |-> IF up THEN First(S) ELSE Last(S), eof |-> FALSE, just |-> TRUE]

\* The element an iterator should stand at
Wanted(map, op, ele) ==
  LET S == DOMAIN map
  IN CASE op = "^" -> Toward(S, TRUE)
       [] op = "$" -> Toward(S, FALSE)
       [] op = "=" -> Toward(S \cap {ele}, TRUE)
       [] OTHER -> Toward({k \in S : Compare(k, op, ele)}, op \in {">", ">="})

Step(at, up) ==
  IF at.eof THEN at ELSE IF at.just THEN [at EXCEPT !.just = FALSE]
  ELSE LET to == Toward({k \in DOMAIN s.want : Compare(k, IF up THEN ">" ELSE "<", at.key)}, up)
       IN [to EXCEPT !.just = FALSE, !.key = IF to.eof THEN at.key ELSE @]

SeekStep ==
  \E op \in Ops, ele \in s.sc.keys :
    /\ s.sc.walk /\ s.it = Start
    /\ s' = [s EXCEPT !.it = Seek(s.r, s.it, op, ele), !.at = Wanted(s.want, op, ele)]

NextOne == /\ s.it # Start
           /\ s' = [s EXCEPT !.it = NextStep(s.r.head, @, FALSE), !.at = Step(@, TRUE)]

PrevOne == /\ s.it # Start
           /\ s' = [s EXCEPT !.it = PrevStep(s.r.head, @, FALSE), !.at = Step(@, FALSE)]

\* The loop of streamTrimByLength: the key an iterator stands at is removed, and
\* the iterator seeks from there, its key being the element that it looks for
RemoveUnder ==
  /\ ~s.it.eof /\ ~s.it.just
  /\ LET res == Remove(s.r, s.it.key)
         want == [k \in DOMAIN s.want \ {s.it.key} |-> s.want[k]]
     IN s' = [s EXCEPT !.r = res.r, !.ok = res.ok, !.old = res.old, !.want = want,
                       !.it = Seek(res.r, s.it, ">=", s.it.key), !.at = Wanted(want, ">=", s.it.key)]

Init == \E sc \in Scenarios :
          s = [sc |-> sc, r |-> New, want |-> <<>>, ok |-> TRUE, old |-> NoKey, it |-> Start, at |-> <<>>]

Next == InsertStep \/ RemoveStep \/ SeekStep \/ NextOne \/ PrevOne \/ RemoveUnder

Spec == Init /\ [][Next]_s

-----------------------------------------------------------------------------
(* Properties. *)

RECURSIVE Sound(_)
Sound(n) == /\ IF n.compr THEN Len(n.kids) = 1 /\ Len(n.data) > 1
               ELSE Len(n.kids) = Len(n.data) /\ \A i \in 1..(Len(n.data) - 1) : n.data[i] < n.data[i + 1]
            /\ \A i \in DOMAIN n.kids : /\ n.kids[i].kids = <<>> => IsKey(n.kids[i])
                                        /\ Sound(n.kids[i])

\* The tree is a map: whatever was inserted and removed, a lookup finds every
\* key with its last value and no other, and the two counters that raxSize and
\* the assertion of raxFreeWithCallback rely on are exact (rax.c).
MapExact ==
  /\ \A key \in s.sc.keys : Find(s.r, key) = IF key \in DOMAIN s.want THEN s.want[key] ELSE NoKey
  /\ s.r.ele = Cardinality(DOMAIN s.want) /\ s.r.nodes = Count(s.r.head)

\* Splitting and joining nodes leave no empty branch, no letters out of order
\* and no compressed node that has more than one child (rax.c, raxRemove).
TreeSound == Sound(s.r.head)

\* An iterator stands where the order of the keys says, for every way to seek
\* and after any steps forwards and backwards, also once the key it stood at was
\* removed and it seeks from there (rax.c, raxSeek, raxNext; streamTrimByLength).
IteratorExact ==
  s.it # Start => /\ s.it.eof = s.at.eof /\ s.it.just = s.at.just
                  /\ ~s.it.eof => s.it.key = s.at.key /\ Find(s.r, s.it.key) = At(s.r.head, s.it.path).value
=============================================================================
