----------------------------- MODULE Quicklist -----------------------------
(***************************************************************************)
(* Lists: quicklist.c, a chain of ziplists whose inner nodes may be        *)
(* compressed, and the commands of t_list.c.  A value is a number; what it *)
(* weighs in a ziplist and whether LZF shrinks it are constants.  A node   *)
(* is known by its place in the chain; an absent key is the empty chain.   *)
(* A history in which a node that was marked for recompression becomes an  *)
(* end of the list and is recompressed there is not followed (see stale).  *)
(***************************************************************************)
EXTENDS Integers, Sequences, FiniteSets

CONSTANTS Weight,      \* the bytes of a value in a ziplist
          Shrinks,     \* the values a node may hold to be worth compressing
          MinCompress, \* MIN_COMPRESS_BYTES
          Optimal,     \* optimization_level, for a negative fill
          Safety,      \* SIZE_SAFETY_LIMIT, for a positive one
          Commands,    \* records with the name op and its arguments
          Scenarios    \* [fill, compress, max]: max bounds the length

VARIABLE s

-----------------------------------------------------------------------------
(* Nodes. *)

RECURSIVE Bytes(_)
Bytes(zl) == IF zl = <<>> THEN 11 ELSE Weight[Head(zl)] + Bytes(Tail(zl))

Node(zl) == [zl |-> zl, cnt |-> Len(zl), sz |-> Bytes(zl), lzf |-> FALSE, re |-> FALSE]

UpdateSz(n, zl) == [n EXCEPT !.zl = zl, !.sz = Bytes(zl)]

CompressNode(n) ==
  IF n.lzf \/ n.sz < MinCompress \/ \E i \in DOMAIN n.zl : n.zl[i] \notin Shrinks THEN n
  ELSE [n EXCEPT !.lzf = TRUE, !.re = FALSE]

DecompressNode(n) == [n EXCEPT !.lzf = FALSE]
DecompressNodeForUse(n) == IF n.lzf THEN [n EXCEPT !.lzf = FALSE, !.re = TRUE] ELSE n

Empty(fill, compress) == [nodes |-> <<>>, count |-> 0, len |-> 0,
                          fill |-> fill, compress |-> compress, bad |-> FALSE, stale |-> FALSE]

\* A ziplist operation on node i: wrong if what is there is LZF data
Touch(q, i) == [q EXCEPT !.bad = @ \/ q.nodes[i].lzf]

\* __quicklistCompress, with i = 0 for NULL: the len it tests is the one from
\* before the insertion or deletion that calls it
Ends(q) == {i \in DOMAIN q.nodes : i <= q.compress \/ i > Len(q.nodes) - q.compress}

Beyond(q, i) == {j \in DOMAIN q.nodes :
                   \/ j = i /\ i \notin Ends(q)
                   \/ q.compress > 1 /\ j \in {q.compress + 1, Len(q.nodes) - q.compress}}

CompressEnds(q, i) ==
  IF q.compress = 0 \/ q.len < 2 * q.compress THEN q
  ELSE IF Len(q.nodes) < 2 * q.compress
  THEN [q EXCEPT !.nodes = <<>> \o [j \in DOMAIN @ |-> DecompressNode(@[j])],
                 !.bad = @ \/ Len(q.nodes) < 2 * q.compress - 1]
  ELSE [q EXCEPT !.nodes = <<>> \o [j \in DOMAIN @ |->
          IF j \in Beyond(q, i)
          THEN CompressNode(IF j \in Ends(q) THEN DecompressNode(@[j]) ELSE @[j])
          ELSE IF j \in Ends(q) THEN DecompressNode(@[j]) ELSE @[j]]]

\* quicklistRecompressOnly and quicklistCompress.  __quicklistDecompressNode
\* leaves the mark of a node that becomes an end: stale records its use there.
RecompressOnly(q, i) ==
  IF q.nodes[i].re THEN [q EXCEPT !.nodes[i] = CompressNode(@), !.stale = @ \/ i \in Ends(q)] ELSE q

Compress(q, i) == IF q.nodes[i].re THEN RecompressOnly(q, i) ELSE CompressEnds(q, i)

\* __quicklistInsertNode: new comes at place at, next to the old node at place old
InsertNode(q, at, new, old) ==
  LET linked == [q EXCEPT !.nodes = SubSeq(@, 1, at - 1) \o <<new>> \o SubSeq(@, at, Len(@))]
  IN [(IF old = 0 THEN linked ELSE Compress(linked, old)) EXCEPT !.len = @ + 1]

InsertBefore(q, i, new) == InsertNode(q, i, new, i + 1)
InsertAfter(q, i, new) == InsertNode(q, i + 1, new, i)

\* Mutated: the ends are not looked at when a node goes
DelNodeOnly(q, i) ==
  [q EXCEPT !.nodes = SubSeq(@, 1, i - 1) \o SubSeq(@, i + 1, Len(@)),
            !.count = @ - q.nodes[i].cnt, !.len = @ - 1]

DelNode(q, i) ==
  [CompressEnds([q EXCEPT !.nodes = SubSeq(@, 1, i - 1) \o SubSeq(@, i + 1, Len(@))], 0)
     EXCEPT !.count = @ - q.nodes[i].cnt, !.len = @ - 1]

-----------------------------------------------------------------------------
(* When a value fits, and when two nodes do. *)

Fits(fill, sz, cnt) == IF fill < 0 THEN sz <= Optimal[-fill] ELSE sz <= Safety /\ cnt <= fill

NodeAllowInsert(q, i, v) ==
  /\ i \in DOMAIN q.nodes
  /\ Fits(q.fill, q.nodes[i].sz + Weight[v], q.nodes[i].cnt + 1)

NodeAllowMerge(q, a, b) ==
  /\ {a, b} \subseteq DOMAIN q.nodes
  /\ Fits(q.fill, q.nodes[a].sz + q.nodes[b].sz - 11, q.nodes[a].cnt + q.nodes[b].cnt)

\* _quicklistZiplistMerge: the longer ziplist is the one that stays
Merge(q, a, b) ==
  LET keep == IF Len(q.nodes[a].zl) >= Len(q.nodes[b].zl) THEN a ELSE b
      gone == a + b - keep
      zl   == q.nodes[a].zl \o q.nodes[b].zl
      both == [q EXCEPT !.nodes[keep] = [UpdateSz(DecompressNode(@), zl) EXCEPT !.cnt = Len(zl)],
                        !.nodes[gone].cnt = 0]
  IN Compress(DelNode(both, gone), a)

MergeIf(q, a, b) == IF NodeAllowMerge(q, a, b) THEN Merge(q, a, b) ELSE q

\* _quicklistMergeNodes: c is the place of the centre, n the length before
Shift(q, n, c) == c - (n - Len(q.nodes))

MergeTarget(q, n, c) == MergeIf(q, Shift(q, n, c), Shift(q, n, c) + 1)
MergeCenter(q, c) == MergeTarget(MergeIf(q, c - 1, c), Len(q.nodes), c)
MergeOuter(q, c) == MergeCenter(MergeIf(q, c + 1, c + 2), c)

MergeNodes(q, c) ==
  LET first == MergeIf(q, c - 2, c - 1) IN MergeOuter(first, Shift(first, Len(q.nodes), c))

-----------------------------------------------------------------------------
(* Ends, index and iteration. *)

InsertAt(zl, i, v) == SubSeq(zl, 1, i - 1) \o <<v>> \o SubSeq(zl, i, Len(zl))
RemoveAt(zl, i) == SubSeq(zl, 1, i - 1) \o SubSeq(zl, i + 1, Len(zl))

\* The ziplist of node i gains v at place p of it
Gains(q, i, p, v) ==
  [Touch(q, i) EXCEPT !.nodes[i] = [UpdateSz(@, InsertAt(@.zl, p, v)) EXCEPT !.cnt = @ + 1]]

Counted(q) == [q EXCEPT !.count = @ + 1]

PushHead(q, v) ==
  Counted(IF NodeAllowInsert(q, 1, v) THEN Gains(q, 1, 1, v)
          ELSE InsertNode(q, 1, Node(<<v>>), IF q.len = 0 THEN 0 ELSE 2))

PushTail(q, v) ==
  Counted(IF NodeAllowInsert(q, Len(q.nodes), v)
          THEN Gains(q, Len(q.nodes), Len(q.nodes[Len(q.nodes)].zl) + 1, v)
          ELSE InsertNode(q, Len(q.nodes) + 1, Node(<<v>>), IF q.len = 0 THEN 0 ELSE Len(q.nodes)))

QuicklistPush(q, v, where) == IF where = "head" THEN PushHead(q, v) ELSE PushTail(q, v)

\* quicklistDelIndex: the entry at place p of node i
DelIndex(q, i, p) ==
  LET left == [Touch(q, i) EXCEPT !.nodes[i] = [@ EXCEPT !.zl = RemoveAt(@, p), !.cnt = @ - 1]]
  IN [(IF left.nodes[i].cnt = 0 THEN DelNode(left, i)
       ELSE [left EXCEPT !.nodes[i] = UpdateSz(@, @.zl)]) EXCEPT !.count = @ - 1]

Pop(q, where) ==
  IF where = "head" THEN DelIndex(q, 1, 1)
  ELSE DelIndex(q, Len(q.nodes), Len(q.nodes[Len(q.nodes)].zl))

\* quicklistIndex: node and place for an index that counts from 0 or from -1
RECURSIVE Forward(_, _, _), Backward(_, _, _)
Forward(q, i, index) ==
  IF i > Len(q.nodes) THEN [node |-> 0, at |-> 0]
  ELSE IF q.nodes[i].cnt > index THEN [node |-> i, at |-> index + 1]
  ELSE Forward(q, i + 1, index - q.nodes[i].cnt)

Backward(q, i, index) ==
  IF i = 0 THEN [node |-> 0, at |-> 0]
  ELSE IF q.nodes[i].cnt > index THEN [node |-> i, at |-> q.nodes[i].cnt - index]
  ELSE Backward(q, i - 1, index - q.nodes[i].cnt)

Locate(q, idx) ==
  IF (IF idx < 0 THEN -idx - 1 ELSE idx) >= q.count THEN [node |-> 0, at |-> 0]
  ELSE IF idx < 0 THEN Backward(q, Len(q.nodes), -idx - 1) ELSE Forward(q, 1, idx)

Open(q, i) == IF i = 0 THEN q ELSE [q EXCEPT !.nodes[i] = DecompressNodeForUse(@)]

\* quicklistNext when the iterator leaves node i, and enters the next one
Leave(q, i) == Compress(q, i)
Enter(q, i) == IF i \in DOMAIN q.nodes THEN Open(q, i) ELSE q

-----------------------------------------------------------------------------
(* LINSERT. *)

\* _quicklistSplitNode and the new half with v at its inner end
SplitInsert(q, i, p, v, after) ==
  LET zl == q.nodes[i].zl
      kept == IF after THEN SubSeq(zl, 1, p) ELSE SubSeq(zl, p, Len(zl))
      new  == IF after THEN <<v>> \o SubSeq(zl, p + 1, Len(zl)) ELSE Append(SubSeq(zl, 1, p - 1), v)
      cut  == [Touch(q, i) EXCEPT !.nodes[i] = [UpdateSz(@, kept) EXCEPT !.cnt = Len(kept)]]
  IN IF after THEN MergeNodes(InsertAfter(cut, i, Node(new)), i)
     ELSE MergeNodes(InsertBefore(cut, i, Node(new)), i + 1)

\* _quicklistInsert next to place p of node i.  The test for the tail of the
\* node compares an offset with a count and never holds.
Insert(q, i, p, v, after) ==
  Counted(
    IF NodeAllowInsert(q, i, v)
    THEN RecompressOnly(Gains(Open(q, i), i, IF after THEN p + 1 ELSE p, v), i)
    ELSE IF ~after /\ p = 1 /\ i > 1
    THEN IF NodeAllowInsert(q, i - 1, v)
         THEN RecompressOnly(Gains(Open(q, i - 1), i - 1, Len(q.nodes[i - 1].zl) + 1, v), i - 1)
         ELSE InsertBefore(q, i, Node(<<v>>))
    ELSE SplitInsert(Open(q, i), i, p, v, after))

First(zl, v) == IF \E p \in DOMAIN zl : zl[p] = v
                THEN CHOOSE p \in DOMAIN zl : zl[p] = v /\ \A o \in 1..(p - 1) : zl[o] # v
                ELSE 0

RECURSIVE InsertFrom(_, _, _)
InsertFrom(q, i, c) ==
  IF i > Len(q.nodes) THEN q
  ELSE IF First(q.nodes[i].zl, c.pivot) # 0
  THEN Insert(Touch(q, i), i, First(q.nodes[i].zl, c.pivot), c.v, c.after)
  ELSE InsertFrom(Enter(Leave(Touch(q, i), i), i + 1), i + 1, c)

Linsert(q, c) == InsertFrom(Enter(q, 1), 1, c)

-----------------------------------------------------------------------------
(* The other commands. *)

\* quicklistReplaceAtIndex
Replace(q, i, p, v) ==
  Compress([Touch(q, i) EXCEPT !.nodes[i] = UpdateSz(@, [@.zl EXCEPT ![p] = v])], i)

Lset(q, c) ==
  IF Locate(q, c.idx).node = 0 THEN q
  ELSE Replace(Open(q, Locate(q, c.idx).node), Locate(q, c.idx).node, Locate(q, c.idx).at, c.v)

Lindex(q, c) == Open(q, Locate(q, c.idx).node)

\* LREM: at place p of node i, with n to remove (0 for all); d is the direction
RECURSIVE RemoveFrom(_, _, _, _, _, _)
Edge(q, i, d) == IF d = 1 \/ i \notin DOMAIN q.nodes THEN 1 ELSE Len(q.nodes[i].zl)

\* quicklistDelEntry: the iterator stays where the entry was, or leaves a node that is gone
Removed(q, was, i, p, v, n, d) ==
  IF n = 1 THEN q
  ELSE IF Len(q.nodes) < was
  THEN LET j == IF d = 1 THEN i ELSE i - 1 IN RemoveFrom(Enter(q, j), j, Edge(q, j, d), v, n - 1, d)
  ELSE RemoveFrom(q, i, IF d = 1 THEN p ELSE p - 1, v, n - 1, d)

RemoveFrom(q, i, p, v, n, d) ==
  IF i \notin DOMAIN q.nodes THEN q
  ELSE IF p \notin DOMAIN q.nodes[i].zl
  THEN RemoveFrom(Enter(Leave(q, i), i + d), i + d, Edge(q, i + d, d), v, n, d)
  ELSE IF q.nodes[i].zl[p] = v
  THEN Removed(DelIndex(q, i, p), Len(q.nodes), i, p, v, n, d)
  ELSE RemoveFrom(Touch(q, i), i, p + d, v, n, d)

Lrem(q, c) ==
  IF c.n < 0 THEN RemoveFrom(Enter(q, Len(q.nodes)), Len(q.nodes), Edge(q, Len(q.nodes), -1), c.v, -c.n, -1)
  ELSE RemoveFrom(Enter(q, 1), 1, 1, c.v, c.n, 1)

\* quicklistDelRange, from node i and offset off of it (negative from its end)
Doomed(n, off, extent) ==
  IF off >= 0 /\ extent >= n.cnt THEN n.cnt - off
  ELSE IF off < 0 THEN (IF -off > extent THEN extent ELSE -off)
  ELSE extent

\* Mutated: what is left after the deletion inside a node starts one entry early
CutEarly(q, i, off, del) ==
  LET at == IF off < 0 THEN Len(q.nodes[i].zl) + off ELSE off
      zl == SubSeq(q.nodes[i].zl, 1, at) \o SubSeq(q.nodes[i].zl, at + del, Len(q.nodes[i].zl))
  IN [Touch(q, i) EXCEPT !.nodes[i] = [UpdateSz(@, zl) EXCEPT !.cnt = @ - del],
                         !.count = @ - del]

Cut(q, i, off, del) ==
  LET at == IF off < 0 THEN Len(q.nodes[i].zl) + off ELSE off
      zl == SubSeq(q.nodes[i].zl, 1, at) \o SubSeq(q.nodes[i].zl, at + del + 1, Len(q.nodes[i].zl))
  IN [Touch(q, i) EXCEPT !.nodes[i] = [UpdateSz(@, zl) EXCEPT !.cnt = @ - del],
                         !.count = @ - del]

CutNode(q, i, off, del) ==
  IF off = 0 /\ del = q.nodes[i].cnt THEN DelNode(q, i)
  ELSE LET cut == Cut(Open(q, i), i, off, del)
       IN IF cut.nodes[i].cnt = 0 THEN DelNode(cut, i) ELSE RecompressOnly(cut, i)

RECURSIVE DelFrom(_, _, _, _), DelNext(_, _, _, _)
DelFrom(q, i, off, extent) ==
  IF extent = 0 THEN q
  ELSE DelNext(CutNode(q, i, off, Doomed(q.nodes[i], off, extent)), Len(q.nodes), i,
               extent - Doomed(q.nodes[i], off, extent))
DelNext(q, was, i, extent) == DelFrom(q, IF Len(q.nodes) < was THEN i ELSE i + 1, 0, extent)

DelRangeAt(q, l, start, extent) ==
  IF l.node = 0 THEN q
  ELSE DelFrom(Open(q, l.node), l.node, IF start < 0 THEN l.at - 1 - q.nodes[l.node].cnt ELSE l.at - 1, extent)

DelRange(q, start, count) ==
  IF count <= 0 THEN q
  ELSE DelRangeAt(q, Locate(q, start), start,
                  IF start >= 0 /\ count > q.count - start THEN q.count - start
                  ELSE IF start < 0 /\ count > -start THEN -start ELSE count)

\* The indexes of LTRIM and LRANGE, made absolute
From(llen, c) == IF c.start >= 0 THEN c.start ELSE IF llen + c.start < 0 THEN 0 ELSE llen + c.start
To(llen, c) == LET e == IF c.end < 0 THEN llen + c.end ELSE c.end IN IF e >= llen THEN llen - 1 ELSE e
NoRange(llen, c) == From(llen, c) > To(llen, c) \/ From(llen, c) >= llen

LtrimBy(q, ltrim, rtrim) == DelRange(DelRange(q, 0, ltrim), -rtrim, rtrim)
Ltrim(q, c) ==
  IF NoRange(q.count, c) THEN LtrimBy(q, q.count, 0)
  ELSE LtrimBy(q, From(q.count, c), q.count - To(q.count, c) - 1)

\* LRANGE: n more entries from place p of node i on
RECURSIVE ReadFrom(_, _, _, _)
ReadFrom(q, i, p, n) ==
  IF i \notin DOMAIN q.nodes THEN q
  ELSE IF n <= Len(q.nodes[i].zl) - p + 1 THEN Touch(q, i)
  ELSE ReadFrom(Enter(Leave(Touch(q, i), i), i + 1), i + 1, 1, n - (Len(q.nodes[i].zl) - p + 1))

LrangeAt(q, l, n) == ReadFrom(Open(q, l.node), l.node, l.at, n)
Lrange(q, c) ==
  IF NoRange(q.count, c) THEN q
  ELSE LrangeAt(q, Locate(q, From(q.count, c)), To(q.count, c) - From(q.count, c) + 1)

\* RPOPLPUSH of a list to itself
Rotate(q) == IF q.count = 0 THEN q
             ELSE PushHead(Pop(q, "tail"), q.nodes[Len(q.nodes)].zl[Len(q.nodes[Len(q.nodes)].zl)])

\* rdbSaveObject and rdbLoadObject: node by node, each a ziplist again
RECURSIVE Appended(_, _)
Appended(q, nodes) ==
  IF nodes = <<>> THEN q
  ELSE Appended([InsertNode(q, Len(q.nodes) + 1, Node(Head(nodes).zl), Len(q.nodes)) EXCEPT
                    !.count = @ + Len(Head(nodes).zl)], Tail(nodes))

Reload(q) == Appended(Empty(q.fill, q.compress), q.nodes)

-----------------------------------------------------------------------------
(* The machine: the list, and the sequence it stands for. *)

Length(q) == q.count

\* The key goes with its last element
Settled(q) == IF Length(q) = 0 THEN [Empty(q.fill, q.compress) EXCEPT !.bad = q.bad, !.stale = q.stale] ELSE q

Of(op) == {c \in Commands : c.op = op}

Becomes(q, want) == s' = [s EXCEPT !.q = Settled(q), !.want = want]

Without(w, p) == SubSeq(w, 1, p - 1) \o SubSeq(w, p + 1, Len(w))
LastOf(w, v) == IF \E p \in DOMAIN w : w[p] = v
                THEN CHOOSE p \in DOMAIN w : w[p] = v /\ \A o \in (p + 1)..Len(w) : w[o] # v
                ELSE 0

RECURSIVE Rid(_, _, _)
Rid(w, v, n) ==
  IF v \notin {w[p] : p \in DOMAIN w} THEN w
  ELSE LET w2 == Without(w, IF n < 0 THEN LastOf(w, v) ELSE First(w, v))
       IN IF n \in {1, -1} THEN w2 ELSE Rid(w2, v, CASE n < 0 -> n + 1 [] n = 0 -> 0 [] n > 0 -> n - 1)

PushCommand ==
  \E c \in Of("push") :
    /\ Len(s.want) < s.sc.max
    /\ Becomes(QuicklistPush(s.q, c.v, c.where), IF c.where = "head" THEN <<c.v>> \o s.want ELSE Append(s.want, c.v))

PopCommand ==
  \E c \in Of("pop") :
    /\ s.want # <<>>
    /\ Becomes(Pop(s.q, c.where), IF c.where = "head" THEN Tail(s.want) ELSE SubSeq(s.want, 1, Len(s.want) - 1))

LinsertCommand ==
  \E c \in Of("linsert") :
    /\ Len(s.want) < s.sc.max
    /\ Becomes(Linsert(s.q, c),
               IF First(s.want, c.pivot) = 0 THEN s.want
               ELSE InsertAt(s.want, First(s.want, c.pivot) + IF c.after THEN 1 ELSE 0, c.v))

Place(w, idx) == IF idx < 0 THEN Len(w) + idx + 1 ELSE idx + 1

LsetCommand ==
  \E c \in Of("lset") :
    Becomes(Lset(s.q, c),
            IF Place(s.want, c.idx) \in DOMAIN s.want THEN [s.want EXCEPT ![Place(s.want, c.idx)] = c.v]
            ELSE s.want)

LindexCommand == \E c \in Of("lindex") : Becomes(Lindex(s.q, c), s.want)
LrangeCommand == \E c \in Of("lrange") : Becomes(Lrange(s.q, c), s.want)
LremCommand == \E c \in Of("lrem") : s.want # <<>> /\ Becomes(Lrem(s.q, c), Rid(s.want, c.v, c.n))

LtrimCommand ==
  \E c \in Of("ltrim") :
    Becomes(Ltrim(s.q, c),
            SubSeq(s.want, From(Len(s.want), c) + 1, To(Len(s.want), c) + 1))

RpoplpushCommand ==
  /\ Of("rpoplpush") # {}
  /\ s.want # <<>>
  /\ Becomes(Rotate(s.q), <<s.want[Len(s.want)]>> \o SubSeq(s.want, 1, Len(s.want) - 1))

Restart == Of("reload") # {} /\ Becomes(Reload(s.q), s.want)

Init == \E sc \in Scenarios : s = [sc |-> sc, q |-> Empty(sc.fill, sc.compress), want |-> <<>>]

Next ==
  /\ ~s.q.stale
  /\ \/ PushCommand \/ PopCommand \/ LinsertCommand \/ LsetCommand \/ LindexCommand
     \/ LrangeCommand \/ LremCommand \/ LtrimCommand \/ RpoplpushCommand \/ Restart

Spec == Init /\ [][Next]_s

-----------------------------------------------------------------------------
(* Properties. *)

RECURSIVE Content(_)
Content(nodes) == IF nodes = <<>> THEN <<>> ELSE Head(nodes).zl \o Content(Tail(nodes))

\* The chain holds exactly the elements the commands so far leave, in order,
\* through splits, merges and deletions that run across nodes (quicklist.c,
\* _quicklistInsert, _quicklistMergeNodes, quicklistDelRange, quicklistDelEntry).
ContentExact == Content(s.q.nodes) = s.want

\* The counters of the list and of its nodes are exact and no node is empty
\* (quicklist.c, __quicklistDelNode and _quicklistZiplistMerge).
CountsExact ==
  /\ s.q.count = Len(s.want) /\ s.q.len = Len(s.q.nodes)
  /\ \A i \in DOMAIN s.q.nodes :
       LET n == s.q.nodes[i] IN n.cnt = Len(n.zl) /\ n.cnt > 0 /\ n.sz = Bytes(n.zl)

\* No push, pop, index or iteration reads LZF data as a ziplist, and both ends
\* of the list are plain, unless an end was recompressed for an old mark
\* (quicklist.c, __quicklistCompress).
NeverMisread ==
  ~s.q.stale =>
  /\ ~s.q.bad
  /\ s.q.nodes # <<>> => ~s.q.nodes[1].lzf /\ ~s.q.nodes[Len(s.q.nodes)].lzf

\* An index from either end finds the element that is there (quicklist.c,
\* quicklistIndex).
IndexExact ==
  \A idx \in (-Len(s.want) - 1)..Len(s.want) :
    LET l == Locate(s.q, idx)
    IN IF Place(s.want, idx) \in DOMAIN s.want
       THEN l.node # 0 /\ s.q.nodes[l.node].zl[l.at] = s.want[Place(s.want, idx)]
       ELSE l.node = 0
=============================================================================
