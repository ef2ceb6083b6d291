-------------------------------- MODULE Zset --------------------------------
(* Sorted sets (t_zset.c): the skiplist with its spans and its dictionary,   *)
(* the ziplist encoding, the conversions between them and the commands.      *)
EXTENDS Integers, Sequences, FiniteSets, SequencesExt, FiniteSetsExt, Functions, TLC

CONSTANTS Members,      \* integers 1..n; their order is the order of sdscmp()
          Long,         \* the members longer than zset-max-ziplist-value
          MaxEntries,   \* zset-max-ziplist-entries
          MaxLevel,     \* ZSKIPLIST_MAXLEVEL, and the bound on random levels
          Sources,      \* the other keys, which ZUNIONSTORE reads: [name -> object]
          Commands,     \* the commands clients send
          Finite,       \* bound: the finite scores
          Levels        \* bound: the random levels, per member, of new nodes

VARIABLE s              \* s.z: the sorted set of the key

-----------------------------------------------------------------------------
(* Doubles: a few finite values, the two infinities and NaN.                 *)
Inf == 90
NegInf == -90
NaN == 99
Doubles == Finite \cup {Inf, NegInf}

DAdd(a, b) == CASE NaN \in {a, b} -> NaN
                [] {a, b} = {Inf, NegInf} -> NaN
                [] Inf \in {a, b} -> Inf
                [] NegInf \in {a, b} -> NegInf
                [] OTHER -> a + b

DMul(w, v) == CASE NaN \in {w, v} -> NaN
                [] v \in {Inf, NegInf} /\ w = 0 -> NaN
                [] v \in {Inf, NegInf} -> IF w > 0 THEN v ELSE -v
                [] OTHER -> w * v

-----------------------------------------------------------------------------
(* The skiplist.  Nodes are numbered; 0 is the header, Null the null         *)
(* pointer.  node[n].lv[i] is the forward link of level i and its span.      *)
Null == -1
Header == 0

NewList == [level |-> 1, length |-> 0, tail |-> Null,
            node |-> Header :> [ele |-> 0, score |-> 0, back |-> Null,
                                lv |-> [i \in 1..MaxLevel |-> [fwd |-> Null, span |-> 0]]]]

Fwd(z, n, i) == z.node[n].lv[i].fwd
Span(z, n, i) == z.node[n].lv[i].span
Nodes(z) == DOMAIN z.node \ {Header}

(* The inner loop of every search: follow level i while the next node is in  *)
(* B and the rank reached stays within cap.                                  *)
RECURSIVE Advance(_, _, _, _, _)
Advance(z, at, i, B, cap) ==
  LET f == Fwd(z, at.n, i)
      r == at.rank + Span(z, at.n, i)
  IN IF f # Null /\ f \in B /\ r <= cap THEN Advance(z, [n |-> f, rank |-> r], i, B, cap) ELSE at

(* The outer loop: update[i] and rank[i] for every level, from the top.      *)
RECURSIVE DescendFrom(_, _, _, _, _)
DescendFrom(z, at, i, B, cap) ==
  IF i = 0 THEN <<>>
  ELSE LET a == Advance(z, at, i, B, cap) IN Append(DescendFrom(z, a, i - 1, B, cap), a)

Descend(z, B, cap) == DescendFrom(z, [n |-> Header, rank |-> 0], z.level, B, cap)

NoCap == 1000

(* The nodes before <<score, ele>> in the order of the list.                 *)
Before(z, score, ele) == {n \in Nodes(z) : \/ z.node[n].score < score
                                           \/ z.node[n].score = score /\ z.node[n].ele < ele}

(* zslInsert(): level is what zslRandomLevel() returned.  A fresh node is    *)
(* numbered with the least free number.                                      *)
ZslRaise(z, level) ==
  [z.node EXCEPT ![Header].lv = <<>> \o
     [i \in 1..MaxLevel |-> IF i > z.level /\ i <= level
                            THEN [@[i] EXCEPT !.span = z.length] ELSE @[i]]]

ZslNode(raised, score, ele, level, upd, rank) ==
  [ele |-> ele, score |-> score,
   back |-> IF upd[1] = Header THEN Null ELSE upd[1],
   lv |-> <<>> \o [i \in 1..level |->
            [fwd |-> raised[upd[i]].lv[i].fwd,
             span |-> raised[upd[i]].lv[i].span - (rank[1] - rank[i])]]]

ZslLink(raised, x, level, upd, rank) ==
  [n \in DOMAIN raised |->
     [raised[n] EXCEPT !.lv = <<>> \o
       [i \in DOMAIN @ |->
         IF i \in DOMAIN upd /\ upd[i] = n
         THEN IF i <= level THEN [fwd |-> x, span |-> rank[1] - rank[i] + 1]
              ELSE [@[i] EXCEPT !.span = @ + 1]
         ELSE @[i]]]]

ZslJoin(z, linked, x, node, level) ==
  LET next == node.lv[1].fwd
      all == linked @@ x :> node
  IN [list |-> [level |-> Max({level, z.level}), length |-> z.length + 1,
                tail |-> IF next = Null THEN x ELSE z.tail,
                node |-> IF next = Null THEN all ELSE [all EXCEPT ![next].back = x]],
      id |-> x]

ZslInsertAfter(z, raised, x, score, ele, level, upd, rank) ==
  ZslJoin(z, ZslLink(raised, x, level, upd, rank), x,
          ZslNode(raised, score, ele, level, upd, rank), level)

ZslInsertAt(z, score, ele, level, d) ==
  ZslInsertAfter(z, ZslRaise(z, level), Min(1..(Cardinality(DOMAIN z.node) + 1) \ DOMAIN z.node),
                 score, ele, level,
                 [i \in 1..Max({level, z.level}) |-> IF i <= z.level THEN d[i].n ELSE Header],
                 [i \in 1..Max({level, z.level}) |-> IF i <= z.level THEN d[i].rank ELSE 0])

ZslInsert(z, score, ele, level) ==
  ZslInsertAt(z, score, ele, level, Descend(z, Before(z, score, ele), NoCap))

(* zslDeleteNode(), followed by zslFreeNode().                               *)
ZslDeleteNode(z, x, upd) ==
  LET cut == [n \in DOMAIN z.node |->
                [z.node[n] EXCEPT !.lv = <<>> \o
                  [i \in DOMAIN @ |->
                    IF i <= z.level /\ upd[i] = n
                    THEN IF @[i].fwd = x
                         THEN [fwd |-> Fwd(z, x, i), span |-> @[i].span + Span(z, x, i) - 1]
                         ELSE [@[i] EXCEPT !.span = @ - 1]
                    ELSE @[i]]]]
      next == Fwd(z, x, 1)
      back == z.node[x].back
      node == RestrictDomain(IF next = Null THEN cut ELSE [cut EXCEPT ![next].back = back],
                             LAMBDA n : n # x)
  IN [level |-> Max({1} \cup {i \in 1..z.level : node[Header].lv[i].fwd # Null}),
      length |-> z.length - 1,
      tail |-> IF next = Null THEN back ELSE z.tail,
      node |-> node]

Update(z, B, cap) == LET d == Descend(z, B, cap) IN [i \in 1..z.level |-> d[i].n]

(* zslDelete(): the node found, or none.                                     *)
ZslDelete(z, score, ele) ==
  LET upd == Update(z, Before(z, score, ele), NoCap)
      IfFound(x) == IF x # Null /\ z.node[x].score = score /\ z.node[x].ele = ele
                    THEN ZslDeleteNode(z, x, upd) ELSE z
  IN IfFound(Fwd(z, upd[1], 1))

StaysInPlaceTies(z, x, new) ==
  LET b == z.node[x].back
      f == Fwd(z, x, 1)
  IN (b = Null \/ z.node[b].score <= new) /\ (f = Null \/ z.node[f].score >= new)

(* zslUpdateScore(): in place when the neighbours allow it, else the node is *)
(* replaced by a new one.  id is the node that now holds the member.         *)
StaysInPlace(z, x, new) ==
  LET b == z.node[x].back
      f == Fwd(z, x, 1)
  IN (b = Null \/ z.node[b].score < new) /\ (f = Null \/ z.node[f].score > new)

ZslUpdateNode(z, x, upd, ele, new, level) ==
  IF StaysInPlace(z, x, new)
  THEN [list |-> [z EXCEPT !.node[x].score = new], id |-> x]
  ELSE ZslInsert(ZslDeleteNode(z, x, upd), new, ele, level)

ZslUpdateScore(z, cur, ele, new, level) ==
  LET upd == Update(z, Before(z, cur, ele), NoCap)
      x == Fwd(z, upd[1], 1)
  IN ZslUpdateNode(z, x, upd, ele, new, level)

(* zslGetRank(): 0 when the member is not found at any level.                *)
ZslGetRank(z, score, ele) ==
  LET upto == Before(z, score, ele) \cup
              {n \in Nodes(z) : z.node[n].score = score /\ z.node[n].ele = ele}
      d == Descend(z, upto, NoCap)
      hit == {i \in 1..z.level : z.node[d[i].n].ele = ele}
  IN IF hit = {} THEN 0 ELSE d[Max(hit)].rank

(* zslGetElementByRank().                                                    *)
ZslGetElementByRank(z, rank) ==
  LET d == Descend(z, Nodes(z), rank)
      hit == {i \in 1..z.level : d[i].rank = rank}
  IN IF hit = {} THEN Null ELSE d[Max(hit)].n

-----------------------------------------------------------------------------
(* Ranges by score or by member.  A lexicographic item - or + is NegInf or   *)
(* Inf with ex set, as zslParseLexRangeItem() leaves it.                     *)
Value(r, ele, score) == IF r.by = "lex" THEN ele ELSE score
GteMin(r, v) == IF r.minex THEN v > r.min ELSE v >= r.min
LteMax(r, v) == IF r.maxex THEN v < r.max ELSE v <= r.max
EmptyRange(r) == r.min > r.max \/ (r.min = r.max /\ (r.minex \/ r.maxex))

(* zslIsInRange(), zslFirstInRange(), zslLastInRange() and their Lex twins.  *)
NodeValue(r, z, n) == Value(r, z.node[n].ele, z.node[n].score)

ZslIsInRange(z, r) ==
  /\ ~EmptyRange(r)
  /\ z.tail # Null /\ GteMin(r, NodeValue(r, z, z.tail))
  /\ Fwd(z, Header, 1) # Null /\ LteMax(r, NodeValue(r, z, Fwd(z, Header, 1)))

ZslFirstInRange(z, r) ==
  IF ~ZslIsInRange(z, r) THEN Null
  ELSE LET low == {n \in Nodes(z) : ~GteMin(r, NodeValue(r, z, n))}
           x == Fwd(z, Descend(z, low, NoCap)[1].n, 1)
       IN IF LteMax(r, NodeValue(r, z, x)) THEN x ELSE Null

ZslLastInRange(z, r) ==
  IF ~ZslIsInRange(z, r) THEN Null
  ELSE LET high == {n \in Nodes(z) : LteMax(r, NodeValue(r, z, n))}
           x == Descend(z, high, NoCap)[1].n
       IN IF GteMin(r, NodeValue(r, z, x)) THEN x ELSE Null

(* The loop of the three zslDeleteRangeBy*(): delete from x on while the     *)
(* node is in D (and, by rank, while traversed <= end), keeping the same     *)
(* update[] throughout, and delete each member from the dictionary.          *)
RECURSIVE DeleteFrom(_, _, _, _, _, _)
DeleteFrom(z, dict, x, upd, D, left) ==
  IF x = Null \/ x \notin D \/ left = 0 THEN [list |-> z, dict |-> dict]
  ELSE LET gone == z.node[x].ele
       IN DeleteFrom(ZslDeleteNode(z, x, upd), RestrictDomain(dict, LAMBDA e : e # gone),
                     Fwd(z, x, 1), upd, D, left - 1)

(* zslDeleteRangeByScore() and zslDeleteRangeByLex().                        *)
ZslDeleteRange(z, dict, r) ==
  LET low == {n \in Nodes(z) : ~GteMin(r, NodeValue(r, z, n))}
      upd == Update(z, low, NoCap)
  IN DeleteFrom(z, dict, Fwd(z, upd[1], 1), upd,
                {n \in Nodes(z) : LteMax(r, NodeValue(r, z, n))}, NoCap)

ZslDeleteRangeByRankStale(z, dict, start, end) ==
  LET d == Descend(z, Nodes(z), start)
      upd == [i \in 1..z.level |-> d[i].n]
  IN DeleteFrom(z, dict, Fwd(z, upd[1], 1), upd, Nodes(z), end - d[1].rank)

(* zslDeleteRangeByRank(): start and end count from 1.                       *)
ZslDeleteRangeByRank(z, dict, start, end) ==
  LET d == Descend(z, Nodes(z), start - 1)
      upd == [i \in 1..z.level |-> d[i].n]
  IN DeleteFrom(z, dict, Fwd(z, upd[1], 1), upd, Nodes(z), end - d[1].rank)

-----------------------------------------------------------------------------
(* The ziplist encoding: a sequence of <<member, score>> pairs.              *)
ZzlFind(zl, ele) == LET at == {i \in DOMAIN zl : zl[i][1] = ele} IN IF at = {} THEN 0 ELSE Min(at)

(* zzlInsert(): before the first pair that is greater.                       *)
ZzlInsert(zl, ele, score) ==
  LET after == {i \in DOMAIN zl : zl[i][2] > score \/ (zl[i][2] = score /\ zl[i][1] > ele)}
  IN IF after = {} THEN Append(zl, <<ele, score>>) ELSE InsertAt(zl, Min(after), <<ele, score>>)

PairValue(r, p) == Value(r, p[1], p[2])

ZzlIsInRange(zl, r) == /\ ~EmptyRange(r)
                       /\ zl # <<>>
                       /\ GteMin(r, PairValue(r, Last(zl)))
                       /\ LteMax(r, PairValue(r, Head(zl)))

(* zzlFirstInRange(), zzlLastInRange() and their Lex twins: an index, or     *)
(* Null.  The first pair that passes one bound must also pass the other.     *)
ZzlFirstInRange(zl, r) ==
  LET ok == {i \in DOMAIN zl : GteMin(r, PairValue(r, zl[i]))}
  IN IF ~ZzlIsInRange(zl, r) \/ ok = {} THEN Null
     ELSE IF LteMax(r, PairValue(r, zl[Min(ok)])) THEN Min(ok) ELSE Null

ZzlLastInRange(zl, r) ==
  LET ok == {i \in DOMAIN zl : LteMax(r, PairValue(r, zl[i]))}
  IN IF ~ZzlIsInRange(zl, r) \/ ok = {} THEN Null
     ELSE IF GteMin(r, PairValue(r, zl[Max(ok)])) THEN Max(ok) ELSE Null

(* zzlDeleteRangeByScore(), zzlDeleteRangeByLex(): from the first pair in    *)
(* range to the one before the first that exceeds the maximum.               *)
ZzlDeleteRange(zl, r) ==
  LET from == ZzlFirstInRange(zl, r)
      over == {i \in DOMAIN zl : i > from /\ ~LteMax(r, PairValue(r, zl[i]))}
      upto == IF over = {} THEN Len(zl) ELSE Min(over) - 1
  IN IF from = Null THEN zl ELSE SubSeq(zl, 1, from - 1) \o SubSeq(zl, upto + 1, Len(zl))

ZzlDeleteRangeByRank(zl, start, end) == SubSeq(zl, 1, start - 1) \o SubSeq(zl, end + 1, Len(zl))

-----------------------------------------------------------------------------
(* The object: a ziplist or a skiplist with a dictionary from members to the *)
(* nodes whose score field they share.  NoKey: the key does not exist.        *)
NoKey == [enc |-> "none"]
Ziplist(zl) == [enc |-> "ziplist", zl |-> zl]
Skiplist(z, dict) == [enc |-> "skiplist", list |-> z, dict |-> dict]

ZsetLength(o) == IF o.enc = "ziplist" THEN Len(o.zl) ELSE o.list.length

(* The pairs of a skiplist in the order of its level 1 links.                *)
RECURSIVE From(_, _)
From(z, n) == IF n = Null THEN <<>>
              ELSE <<<<z.node[n].ele, z.node[n].score>>>> \o From(z, Fwd(z, n, 1))

(* The list a change left, and the dictionary entry of the member it moved.  *)
PointTo(dict, ele, r) == Skiplist(r.list, ele :> r.id @@ dict)

(* zsetConvert(), each way; lv[e] is the random level of the node of e.      *)
InsertPair(o, p, lv) ==
  PointTo(o.dict, p[1], ZslInsert(o.list, p[2], p[1], lv[p[1]]))

ToSkiplist(pairs, lv) ==
  FoldLeft(LAMBDA o, p : InsertPair(o, p, lv), Skiplist(NewList, [e \in {} |-> Null]), pairs)

ToZiplist(o) == Ziplist(From(o.list, Fwd(o.list, Header, 1)))

(* zsetScore(): NaN when the member is not there.                            *)
ZsetScore(o, ele) ==
  CASE o.enc = "none" -> NaN
    [] o.enc = "ziplist" -> LET i == ZzlFind(o.zl, ele) IN IF i = 0 THEN NaN ELSE o.zl[i][2]
    [] o.enc = "skiplist" -> IF ele \in DOMAIN o.dict THEN o.list.node[o.dict[ele]].score ELSE NaN

ZsetUpdateKeepsNode(o, ele, cur, new, lv) ==
  IF o.enc = "ziplist" THEN Ziplist(ZzlInsert(RemoveAt(o.zl, ZzlFind(o.zl, ele)), ele, new))
  ELSE Skiplist(ZslUpdateScore(o.list, cur, ele, new, lv[ele]).list, o.dict)

(* zsetAdd().  fl is the flag it returns ("same" when none is set).          *)
ZsetUpdate(o, ele, cur, new, lv) ==
  IF o.enc = "ziplist" THEN Ziplist(ZzlInsert(RemoveAt(o.zl, ZzlFind(o.zl, ele)), ele, new))
  ELSE PointTo(o.dict, ele, ZslUpdateScore(o.list, cur, ele, new, lv[ele]))

ZsetInsert(o, ele, score, lv) ==
  IF o.enc = "skiplist" THEN InsertPair(o, <<ele, score>>, lv)
  ELSE LET zl == ZzlInsert(o.zl, ele, score)
       IN IF Len(zl) > MaxEntries \/ ele \in Long THEN ToSkiplist(zl, lv) ELSE Ziplist(zl)

ZsetAdd(o, score, ele, c, lv) ==
  LET cur == ZsetScore(o, ele)
      new == IF c.incr THEN DAdd(score, cur) ELSE score
  IN CASE cur = NaN /\ c.xx -> [o |-> o, fl |-> "nop", score |-> score]
       [] cur = NaN /\ ~c.xx -> [o |-> ZsetInsert(o, ele, score, lv), fl |-> "added", score |-> score]
       [] cur # NaN /\ c.nx -> [o |-> o, fl |-> "nop", score |-> score]
       [] cur # NaN /\ ~c.nx /\ new = NaN -> [o |-> o, fl |-> "nan", score |-> NaN]
       [] cur # NaN /\ ~c.nx /\ new = cur -> [o |-> o, fl |-> "same", score |-> new]
       [] OTHER -> [o |-> ZsetUpdate(o, ele, cur, new, lv), fl |-> "updated", score |-> new]

(* zsetDel().                                                                *)
ZsetDel(o, ele) ==
  IF ZsetScore(o, ele) = NaN THEN o
  ELSE IF o.enc = "ziplist" THEN Ziplist(RemoveAt(o.zl, ZzlFind(o.zl, ele)))
  ELSE Skiplist(ZslDelete(o.list, ZsetScore(o, ele), ele),
                RestrictDomain(o.dict, LAMBDA e : e # ele))

(* zsetRank(): -1 when the member is not there.                              *)
ZsetRank(o, ele, rev) ==
  LET rank == IF o.enc = "ziplist" THEN ZzlFind(o.zl, ele)
              ELSE IF ele \in DOMAIN o.dict
                   THEN ZslGetRank(o.list, o.list.node[o.dict[ele]].score, ele) ELSE 0
  IN IF rank = 0 THEN -1 ELSE IF rev THEN ZsetLength(o) - rank ELSE rank - 1

(* dbDelete() of a sorted set that became empty.                             *)
Settled(o) == IF ZsetLength(o) = 0 THEN NoKey ELSE o

-----------------------------------------------------------------------------
(* The commands that write.  Each returns the object left at the key and the *)
(* reply: a count, or for ZINCRBY a sequence with the score, or "nan".       *)

(* zaddGenericCommand(): c.pairs is the list of <<score, member>> arguments. *)
Created(ele) == IF MaxEntries = 0 \/ ele \in Long THEN Skiplist(NewList, [e \in {} |-> Null])
                ELSE Ziplist(<<>>)

Added(r, a) == [o |-> a.o, fl |-> Append(r.fl, a.fl), score |-> a.score]

ZaddReply(c, end) ==
  LET Count(F) == Cardinality({i \in DOMAIN end.fl : end.fl[i] \in F})
  IN [o |-> end.o,
      reply |-> CASE "nan" \in Range(end.fl) -> <<NaN>>
                  [] c.incr /\ Count({"nop"}) = 0 -> <<end.score>>
                  [] c.incr /\ Count({"nop"}) > 0 -> <<>>
                  [] ~c.incr /\ c.ch -> Count({"added", "updated"})
                  [] OTHER -> Count({"added"})]

Zadd(z, c, lv) ==
  IF z = NoKey /\ c.xx THEN [o |-> NoKey, reply |-> IF c.incr THEN <<>> ELSE 0]
  ELSE ZaddReply(c, FoldLeft(LAMBDA r, p : Added(r, ZsetAdd(r.o, p[1], p[2], c, lv)),
                             [o |-> IF z = NoKey THEN Created(c.pairs[1][2]) ELSE z,
                              fl |-> <<>>, score |-> 0],
                             c.pairs))

(* zremCommand(): the loop stops when the set is empty and the key deleted.  *)
Zrem(z, c) ==
  FoldLeft(LAMBDA r, e : IF r.o = NoKey THEN r
                         ELSE [o |-> Settled(ZsetDel(r.o, e)),
                               reply |-> r.reply + (IF ZsetScore(r.o, e) = NaN THEN 0 ELSE 1)],
           [o |-> z, reply |-> 0], c.members)

(* zremrangeGenericCommand(), by rank, by score or by member.                *)
Bounds(o, c) ==
  LET len == ZsetLength(o)
      a == IF c.start < 0 THEN Max({0, len + c.start}) ELSE c.start
      b == IF c.end < 0 THEN len + c.end ELSE c.end
  IN IF a > b \/ a >= len THEN <<>> ELSE <<a, Min({b, len - 1})>>

Kept(d) == Skiplist(d.list, d.dict)

Cut(z, c) ==
  IF c.op = "zremrangebyrank"
  THEN LET b == Bounds(z, c)
       IN IF b = <<>> THEN z
          ELSE IF z.enc = "ziplist" THEN Ziplist(ZzlDeleteRangeByRank(z.zl, b[1] + 1, b[2] + 1))
          ELSE Kept(ZslDeleteRangeByRank(z.list, z.dict, b[1] + 1, b[2] + 1))
  ELSE IF z.enc = "ziplist" THEN Ziplist(ZzlDeleteRange(z.zl, c.range))
  ELSE Kept(ZslDeleteRange(z.list, z.dict, c.range))

Shortened(z, cut) == [o |-> Settled(cut), reply |-> ZsetLength(z) - ZsetLength(cut)]

Zremrange(z, c) == IF z = NoKey THEN [o |-> NoKey, reply |-> 0] ELSE Shortened(z, Cut(z, c))

(* genericZpopCommand(): count times, the least or the greatest.             *)
Extreme(o, max) ==
  IF o.enc = "skiplist" THEN o.list.node[IF max THEN o.list.tail ELSE Fwd(o.list, Header, 1)].ele
  ELSE IF max THEN Last(o.zl)[1] ELSE Head(o.zl)[1]

RECURSIVE Popped(_, _, _, _)
Popped(o, max, count, n) ==
  IF count = 0 \/ o = NoKey THEN [o |-> o, reply |-> n]
  ELSE Popped(Settled(ZsetDel(o, Extreme(o, max))), max, count - 1, n + 1)

Zpop(z, c) == Popped(z, c.max, c.count, 0)

(* zunionInterGenericCommand().  A source is a sorted set or a plain set,    *)
(* whose members score 1; sources are sorted by cardinality, and the         *)
(* destination is built before it replaces what the key held.                *)
Pairs(o) == CASE o.enc = "none" -> <<>>
              [] o.enc = "set" -> SetToSortSeq({<<e, 1>> : e \in o.set}, LAMBDA p, q : p[1] < q[1])
              [] o.enc = "ziplist" -> o.zl
              [] o.enc = "skiplist" -> From(o.list, Fwd(o.list, Header, 1))

ZuiFind(o, e) == IF o.enc = "set" THEN (IF e \in o.set THEN 1 ELSE NaN) ELSE ZsetScore(o, e)

NoNaN(v) == IF v = NaN THEN 0 ELSE v

AggregateNaN(target, v, how) ==
  CASE how = "sum" -> DAdd(target, v)
    [] how = "min" -> IF v # NaN /\ v < target THEN v ELSE target
    [] how = "max" -> IF v # NaN /\ v > target THEN v ELSE target

Aggregate(target, v, how) ==
  CASE how = "sum" -> NoNaN(DAdd(target, v))
    [] how = "min" -> IF v # NaN /\ v < target THEN v ELSE target
    [] how = "max" -> IF v # NaN /\ v > target THEN v ELSE target

Inter(srcs, how) ==
  LET rest == SubSeq(srcs, 2, Len(srcs))
      Score(p) == FoldLeft(LAMBDA sc, r : Aggregate(sc, DMul(r.w, IF r.o = srcs[1].o THEN p[2] ELSE ZuiFind(r.o, p[1])), how),
                           NoNaN(DMul(srcs[1].w, p[2])), rest)
      In(p) == \A i \in DOMAIN rest : ZuiFind(rest[i].o, p[1]) # NaN
  IN FoldLeft(LAMBDA acc, p : IF In(p) THEN (p[1] :> Score(p)) @@ acc ELSE acc,
              [e \in {} |-> 0], Pairs(srcs[1].o))

UnionOf(srcs, how) ==
  LET Fill(acc, r) ==
        FoldLeft(LAMBDA a, p : LET v == NoNaN(DMul(r.w, p[2]))
                               IN (p[1] :> IF p[1] \in DOMAIN a THEN Aggregate(a[p[1]], v, how) ELSE v) @@ a,
                 acc, Pairs(r.o))
  IN FoldLeft(Fill, [e \in {} |-> 0], srcs)

Stored(pairs, lv) ==
  LET dst == ToSkiplist(pairs, lv)
  IN [o |-> IF pairs = <<>> THEN NoKey
            ELSE IF Len(pairs) <= MaxEntries /\ \A i \in DOMAIN pairs : pairs[i][1] \notin Long
            THEN ToZiplist(dst)
            ELSE dst,
      reply |-> Len(pairs)]

Zstore(S, c, lv) ==
  LET Src(k) == IF k = "z" THEN S.z ELSE Sources[k]
      given == [i \in DOMAIN c.srcs |-> [o |-> Src(c.srcs[i][1]), w |-> c.srcs[i][2]]]
      srcs == SortSeq(given, LAMBDA a, b : Len(Pairs(a.o)) < Len(Pairs(b.o)))
      f == IF c.op = "zinterstore" THEN Inter(srcs, c.how) ELSE UnionOf(srcs, c.how)
  IN Stored(SetToSortSeq({<<e, f[e]>> : e \in DOMAIN f}, LAMBDA p, q : p[1] < q[1]), lv)

-----------------------------------------------------------------------------
(* The commands that read, as the code walks the two encodings.  A cursor is *)
(* an index of the ziplist or a node of the skiplist.                        *)
PairAt(o, x) == IF o.enc = "ziplist" THEN o.zl[x] ELSE <<o.list.node[x].ele, o.list.node[x].score>>

(* zzlNext(), zzlPrev(), level[0].forward and backward.                      *)
Step(o, x, rev) ==
  IF o.enc = "ziplist" THEN LET y == IF rev THEN x - 1 ELSE x + 1
                            IN IF y \in DOMAIN o.zl THEN y ELSE Null
  ELSE IF rev THEN o.list.node[x].back ELSE Fwd(o.list, x, 1)

RECURSIVE Walk(_, _, _, _)
Walk(o, x, rev, n) == IF n = 0 \/ x = Null THEN <<>>
                      ELSE <<PairAt(o, x)>> \o Walk(o, Step(o, x, rev), rev, n - 1)

RECURSIVE Skip(_, _, _, _)
Skip(o, x, rev, n) == IF n = 0 \/ x = Null THEN x ELSE Skip(o, Step(o, x, rev), rev, n - 1)

(* zrangeGenericCommand().                                                   *)
Zrange(o, c, rev) ==
  LET b == Bounds(o, c)
      first == IF o.enc = "ziplist" THEN (IF rev THEN Len(o.zl) - b[1] ELSE b[1] + 1)
               ELSE IF rev THEN (IF b[1] > 0 THEN ZslGetElementByRank(o.list, ZsetLength(o) - b[1])
                                 ELSE o.list.tail)
               ELSE IF b[1] > 0 THEN ZslGetElementByRank(o.list, b[1] + 1)
               ELSE Fwd(o.list, Header, 1)
  IN IF b = <<>> THEN <<>> ELSE Walk(o, first, rev, b[2] - b[1] + 1)

FirstInRange(o, r) == IF o.enc = "ziplist" THEN ZzlFirstInRange(o.zl, r) ELSE ZslFirstInRange(o.list, r)
LastInRange(o, r) == IF o.enc = "ziplist" THEN ZzlLastInRange(o.zl, r) ELSE ZslLastInRange(o.list, r)

(* genericZrangebyscoreCommand(), genericZrangebylexCommand(): a negative    *)
(* offset runs off the end, a negative limit is no limit.                    *)
UntilOut(all, r, rev) ==
  LET out == {i \in DOMAIN all : IF rev THEN ~GteMin(r, PairValue(r, all[i]))
                                 ELSE ~LteMax(r, PairValue(r, all[i]))}
  IN IF out = {} THEN all ELSE SubSeq(all, 1, Min(out) - 1)

Zrangeby(o, r, rev, offset, limit) ==
  LET start == IF rev THEN LastInRange(o, r) ELSE FirstInRange(o, r)
  IN UntilOut(Walk(o, Skip(o, start, rev, offset), rev, limit), r, rev)

RankOf(z, n) == ZslGetRank(z, z.node[n].score, z.node[n].ele)

CountBetweenAlone(z, a, b) == IF a = Null THEN 0 ELSE RankOf(z, b) - RankOf(z, a)

(* zcountCommand(), zlexcountCommand().                                      *)
CountBetween(z, a, b) ==
  IF a = Null THEN 0
  ELSE z.length - (RankOf(z, a) - 1) - (IF b = Null THEN 0 ELSE z.length - RankOf(z, b))

Zcount(o, r) ==
  IF o.enc = "ziplist" THEN Len(Zrangeby(o, r, FALSE, 0, -1))
  ELSE CountBetween(o.list, ZslFirstInRange(o.list, r), ZslLastInRange(o.list, r))

-----------------------------------------------------------------------------
Exec(S, c, lv) == CASE c.op = "zadd" -> Zadd(S.z, c, lv)
                    [] c.op = "zrem" -> Zrem(S.z, c)
                    [] c.op \in {"zremrangebyrank", "zremrangebyscore"} -> Zremrange(S.z, c)
                    [] c.op = "zpop" -> Zpop(S.z, c)
                    [] c.op \in {"zunionstore", "zinterstore"} -> Zstore(S, c, lv)

Init == s = [z |-> NoKey]

InBounds(o) == \A i \in DOMAIN Pairs(o) : Pairs(o)[i][2] \in Doubles \cup {NaN}

LevelsFor(c) == IF c.op \in {"zadd", "zunionstore", "zinterstore"} THEN Levels
                ELSE {[e \in Members |-> 1]}

Of(op) == {c \in Commands : c.op = op}

Becomes(r) == InBounds(r.o) /\ s' = [s EXCEPT !.z = r.o]

ZaddCommand == \E c \in Of("zadd"), lv \in Levels : Becomes(Zadd(s.z, c, lv))
ZremCommand == \E c \in Of("zrem") : Becomes(Zrem(s.z, c))
ZremrangebyrankCommand == \E c \in Of("zremrangebyrank") : Becomes(Zremrange(s.z, c))
ZremrangebyscoreCommand == \E c \in Of("zremrangebyscore") : Becomes(Zremrange(s.z, c))
ZpopCommand == \E c \in Of("zpop") : Becomes(Zpop(s.z, c))
ZunionstoreCommand == \E c \in Of("zunionstore"), lv \in Levels : Becomes(Zstore(s, c, lv))
ZinterstoreCommand == \E c \in Of("zinterstore"), lv \in Levels : Becomes(Zstore(s, c, lv))

Next == \/ ZaddCommand \/ ZremCommand \/ ZremrangebyrankCommand \/ ZremrangebyscoreCommand
        \/ ZpopCommand \/ ZunionstoreCommand \/ ZinterstoreCommand

Spec == Init /\ [][Next]_s

-----------------------------------------------------------------------------
(* Reference: a sorted set is a function from members to scores.             *)
Abs(o) == LET p == Pairs(o) IN [e \in {p[i][1] : i \in DOMAIN p} |->
                                 p[CHOOSE i \in DOMAIN p : p[i][1] = e][2]]

InOrder(f) == SetToSortSeq({<<e, f[e]>> : e \in DOMAIN f},
                           LAMBDA p, q : p[2] < q[2] \/ (p[2] = q[2] /\ p[1] < q[1]))

Slice(q, a, b) == IF a > b \/ a > Len(q) THEN <<>> ELSE SubSeq(q, a, b)

Without(f, D) == RestrictDomain(f, LAMBDA e : e \notin D)

(* What each command should leave, said on functions.                        *)
Effect(f, c) ==
  LET ord == InOrder(f)
      n == Cardinality(DOMAIN f)
      Norm(i) == IF i < 0 THEN n + i ELSE i
  IN CASE c.op = "zadd" ->
            FoldLeft(LAMBDA g, p :
                       LET old == p[2] \in DOMAIN g
                           new == IF c.incr /\ old THEN DAdd(g[p[2]], p[1]) ELSE p[1]
                       IN IF (old /\ c.nx) \/ (~old /\ c.xx) \/ new = NaN THEN g
                          ELSE (p[2] :> new) @@ g, f, c.pairs)
       [] c.op = "zrem" -> Without(f, Range(c.members))
       [] c.op = "zremrangebyrank" ->
            Without(f, {ord[i][1] : i \in {j \in 1..n : j - 1 >= Norm(c.start) /\ j - 1 <= Norm(c.end)}})
       [] c.op = "zremrangebyscore" -> Without(f, {e \in DOMAIN f : GteMin(c.range, f[e]) /\ LteMax(c.range, f[e])})
       [] c.op = "zpop" ->
            Without(f, {ord[i][1] : i \in {j \in 1..n : IF c.max THEN j > n - c.count ELSE j <= c.count}})
       [] c.op \in {"zunionstore", "zinterstore"} ->
            LET g == [i \in DOMAIN c.srcs |-> IF c.srcs[i][1] = "z" THEN f ELSE Abs(Sources[c.srcs[i][1]])]
                Has(e) == {i \in DOMAIN g : e \in DOMAIN g[i]}
                D == {e \in Members : IF c.op = "zunionstore" THEN Has(e) # {} ELSE Has(e) = DOMAIN g}
                V(e) == {<<i, NoNaN(DMul(c.srcs[i][2], g[i][e]))>> : i \in Has(e)}
                Total(e) == LET v == {p[2] : p \in V(e)} IN
                            CASE c.how = "min" -> Min(v) [] c.how = "max" -> Max(v)
                              [] c.how = "sum" -> IF {Inf, NegInf} \subseteq v THEN 0
                                                  ELSE IF Inf \in v THEN Inf
                                                  ELSE IF NegInf \in v THEN NegInf
                                                  ELSE FoldSet(LAMBDA p, t : p[2] + t, 0, V(e))
            IN [e \in D |-> Total(e)]

(* ZINTERSTORE replaces the NaN of inf * 0 by 0 only for its smallest source *)
(* (t_zset.c:2285); such products are left out of the comparison.            *)
Comparable(f, c) ==
  c.op = "zinterstore" =>
    \A i \in DOMAIN c.srcs : LET g == IF c.srcs[i][1] = "z" THEN f ELSE Abs(Sources[c.srcs[i][1]])
                             IN \A e \in DOMAIN g : DMul(c.srcs[i][2], g[e]) # NaN

(* Every command, in every encoding and for every choice of random levels,   *)
(* leaves exactly the members and scores its description says, and an empty  *)
(* sorted set never stays in the keyspace: ziplist and skiplist encodings    *)
(* (t_zset.c) cannot be told apart by a client.                              *)
CommandsExact ==
  LET Leaves(f, o) == Abs(o) = f /\ (o = NoKey <=> DOMAIN f = {})
      Exact(c, f) == \A lv \in LevelsFor(c) : Leaves(f, Exec(s, c, lv).o)
      All(f) == \A c \in Commands : Comparable(f, c) => Exact(c, Effect(f, c))
  IN All(Abs(s.z))

(* zslInsert(), zslDeleteNode() and zslUpdateScore() keep the list sound:    *)
(* each level is a sorted sublist of level 1, each span is the number of     *)
(* level 1 links it jumps, backward and tail mirror the forward links, and   *)
(* no level in use is empty.                                                 *)
ListSound ==
  s.z.enc = "skiplist" =>
    LET z == s.z.list
        ord == From(z, Fwd(z, Header, 1))
        pos == [n \in Nodes(z) |-> CHOOSE i \in DOMAIN ord : ord[i] = <<z.node[n].ele, z.node[n].score>>]
        At(n) == IF n = Header THEN 0 ELSE IF n = Null THEN z.length ELSE pos[n]
    IN /\ ord = InOrder(Abs(s.z)) /\ Len(ord) = z.length /\ Cardinality(Nodes(z)) = z.length
       /\ \A n \in DOMAIN z.node : \A i \in 1..Min({z.level, Len(z.node[n].lv)}) :
            /\ Span(z, n, i) = At(Fwd(z, n, i)) - At(n)
            /\ \A k \in Nodes(z) : At(k) > At(n) /\ (Fwd(z, n, i) = Null \/ At(k) < At(Fwd(z, n, i)))
                                     => Len(z.node[k].lv) < i
       /\ \A n \in Nodes(z) : At(n) = 1 + (IF z.node[n].back = Null THEN 0 ELSE At(z.node[n].back))
       /\ z.tail = Null \/ At(z.tail) = z.length
       /\ z.level = Max({Len(z.node[n].lv) : n \in Nodes(z)})

(* The dictionary of a skiplist encoded set maps every member to the live    *)
(* node that holds it, so ZSCORE never reads a score freed or moved by       *)
(* zslUpdateScore().                                                         *)
DictPointsToNodes ==
  s.z.enc = "skiplist" =>
    /\ DOMAIN s.z.dict = DOMAIN Abs(s.z)
    /\ \A e \in DOMAIN s.z.dict : s.z.dict[e] \in Nodes(s.z.list) /\ s.z.list.node[s.z.dict[e]].ele = e

(* ZRANGE, ZRANGEBYSCORE with offset and limit, ZRANGEBYLEX, ZCOUNT, ZRANK   *)
(* and their reverses answer what the sorted sequence of pairs says, for     *)
(* every range including the empty, the inverted and the infinite ones.      *)
Between(by, Cuts) == {[by |-> by, min |-> a[1], minex |-> a[2], max |-> b[1], maxex |-> b[2]] :
                      a \in Cuts, b \in Cuts}
Ranges == Between("score", {<<NegInf, FALSE>>, <<Inf, FALSE>>, <<Inf, TRUE>>} \cup (Finite \X BOOLEAN))
LexRanges == Between("lex", {<<NegInf, TRUE>>, <<Inf, TRUE>>} \cup (Members \X BOOLEAN))

QueriesExact ==
  LET Turn(q, rev) == IF rev THEN Reverse(q) ELSE q
      In(q, r) == SelectSeq(q, LAMBDA p : GteMin(r, PairValue(r, p)) /\ LteMax(r, PairValue(r, p)))
      ByRank(o, ord, rev) ==
        \A a, b \in {-4, -2, -1, 0, 1, 3} :
          LET n == Len(ord)
              lo == IF a < 0 THEN Max({n + a, 0}) ELSE a
              hi == IF b < 0 THEN n + b ELSE Min({b, n - 1})
          IN Zrange(o, [start |-> a, end |-> b], rev) = Slice(ord, lo + 1, hi + 1)
      ByRange(o, r, rev, want) ==
        /\ Zrangeby(o, r, rev, 0, -1) = want
        /\ Zrangeby(o, r, rev, 1, 1) = Slice(want, 2, 2)
        /\ Zrangeby(o, r, rev, -1, -1) = <<>>
      Ranked(o, ord, rev) ==
        \A e \in Members :
          LET at == {i \in DOMAIN ord : ord[i][1] = e}
          IN ZsetRank(o, e, rev) = IF at = {} THEN -1 ELSE Min(at) - 1
      Asked(ord) == IF \A i \in DOMAIN ord : ord[i][2] = ord[1][2] THEN Ranges \cup LexRanges ELSE Ranges
      Exact(o, ord) ==
        /\ \A rev \in BOOLEAN : ByRank(o, Turn(ord, rev), rev) /\ Ranked(o, Turn(ord, rev), rev)
        /\ \A r \in Asked(ord) : /\ Zcount(o, r) = Len(In(ord, r))
                                  /\ \A rev \in BOOLEAN : ByRange(o, r, rev, Turn(In(ord, r), rev))
  IN s.z # NoKey => Exact(s.z, InOrder(Abs(s.z)))

(* No command stores NaN as a score: inf - inf of ZINCRBY is refused, and in *)
(* ZUNIONSTORE and ZINTERSTORE it becomes 0; zslInsert() asserts it.         *)
NeverNaN == \A i \in DOMAIN Pairs(s.z) : Pairs(s.z)[i][2] # NaN
=============================================================================
