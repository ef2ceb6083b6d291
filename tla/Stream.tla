------------------------------- MODULE Stream -------------------------------
(***************************************************************************)
(* A stream of Redis (t_stream.c): the radix tree of listpacks with its    *)
(* delta encoded entries, the iterator over them, trimming and deletion,   *)
(* consumer groups with their pending entries, the blocked readers, and    *)
(* what is propagated to a replica or written by an AOF rewrite or a dump. *)
(*                                                                         *)
(* A listpack is the sequence of its elements, all integers (listpack.c is *)
(* abstracted to that): fields and values are numbers as well.  A stream   *)
(* ID is a pair <<ms, seq>>; seq has the width SeqMax + 1, for the 2^64 of *)
(* the code.                                                               *)
(***************************************************************************)
EXTENDS Integers, Sequences, FiniteSets

CONSTANTS
  SeqMax,      \* UINT64_MAX
  MaxEntries,  \* stream-node-max-entries
  MaxBytes,    \* stream-node-max-bytes, in elements
  Scenarios,   \* what is tried: [cmds, times, length, queries]
  NoKey        \* the key does not exist

VARIABLE s
(* s.m, s.r   the stream at the master and at its replica                   *)
(* s.live     the entries a reader should see, oldest first                 *)
(* s.wait     the blocked readers, first come first                         *)
(* s.size     the lengths that the last command may leave                   *)
(* s.left     commands still to come in this scenario, s.sc                 *)

-----------------------------------------------------------------------------
(* Identifiers. *)

MinID == <<0, 0>>
MaxID == <<SeqMax, SeqMax>>
Leq(a, b) == a[1] < b[1] \/ (a[1] = b[1] /\ a[2] <= b[2])
Less(a, b) == ~Leq(b, a)

\* start.seq++ of the readers: the first ID after the one that was read
After(id) == <<id[1], (id[2] + 1) % (SeqMax + 1)>>

RECURSIVE SortedIDs(_)
SortedIDs(S) ==
  IF S = {} THEN <<>>
  ELSE LET i == CHOOSE a \in S : \A b \in S : Leq(a, b) IN <<i>> \o SortedIDs(S \ {i})

NextID(last, now) == IF now > last[1] THEN <<now, 0>> ELSE After(last)

-----------------------------------------------------------------------------
(* The listpack of a node: count, deleted, number of master fields, the     *)
(* master fields and 0; then per entry flags, ID delta, its own fields      *)
(* unless they are the master's, values, and the number of these elements.  *)
Deleted == 1
SameFields == 2
IsDeleted(flags) == flags % 2 = 1
IsSame(flags) == flags >= 2

Header(fields) == <<1, 0, Len(fields)>> \o fields \o <<0>>
MasterFields(lp) == SubSeq(lp, 4, 3 + lp[3])
FirstEntry(lp) == 5 + lp[3]

RECURSIVE Interleaved(_, _, _)
Interleaved(fields, values, i) ==
  IF i > Len(fields) THEN <<>>
  ELSE <<fields[i], values[i]>> \o Interleaved(fields, values, i + 1)

\* Mutated: the count forgets the number of fields
EncodedEntryShort(same, delta, fields, values) ==
  LET body == IF same THEN values ELSE <<Len(fields)>> \o Interleaved(fields, values, 1)
      flags == IF same THEN SameFields ELSE 0
  IN <<flags, delta[1], delta[2]>> \o body \o <<(IF same THEN Len(body) ELSE Len(body) - 1) + 3>>

EncodedEntry(same, delta, fields, values) ==
  LET body == IF same THEN values ELSE <<Len(fields)>> \o Interleaved(fields, values, 1)
      flags == IF same THEN SameFields ELSE 0
  IN <<flags, delta[1], delta[2]>> \o body \o <<Len(body) + 3>>

Delta(id, master) == <<id[1] - master[1], id[2] - master[2]>>

\* streamAppendItem: the stream, or [err] when the ID is not above the last
AppendItem(st, id, fields, values) ==
  LET n    == Len(st.rax)
      full == n = 0 \/ Len(st.rax[n].lp) >= MaxBytes
              \/ (MaxEntries # 0 /\ st.rax[n].lp[1] >= MaxEntries)
      node == IF full THEN [key |-> id, lp |-> Header(fields)]
              ELSE [st.rax[n] EXCEPT !.lp[1] = @ + 1]
      same == MasterFields(node.lp) = fields
      new  == [node EXCEPT !.lp =
                 @ \o EncodedEntry(same, Delta(id, node.key), fields, values)]
  IN [st EXCEPT !.rax = IF full THEN Append(@, new) ELSE [@ EXCEPT ![n] = new],
                !.len = @ + 1, !.last = id]

\* The entry at p: it has nf fields of its own or of the master
OwnFields(lp, p) == IF IsSame(lp[p]) THEN lp[3] ELSE lp[p + 3]
Body(lp, p) == IF IsSame(lp[p]) THEN p + 3 ELSE p + 4
EntrySize(lp, p) == IF IsSame(lp[p]) THEN lp[3] ELSE 1 + 2 * lp[p + 3]

\* The loop of streamTrimByLength that marks the first entries of a node
RECURSIVE MarkFrom(_, _, _)
MarkFrom(lp, p, todo) ==
  IF todo = 0 THEN lp
  ELSE LET next == p + 4 + EntrySize(lp, p)
       IN IF IsDeleted(lp[p]) THEN MarkFrom(lp, next, todo)
          ELSE MarkFrom([lp EXCEPT ![p] = @ + Deleted], next, todo - 1)

RECURSIVE TrimByLength(_, _, _)
TrimByLength(st, maxlen, approx) ==
  IF st.len <= maxlen \/ st.rax = <<>> THEN st
  ELSE LET lp == st.rax[1].lp
           todo == st.len - maxlen
       IN IF st.len - lp[1] >= maxlen
          THEN TrimByLength([st EXCEPT !.rax = Tail(@), !.len = @ - lp[1]], maxlen, approx)
          ELSE IF approx THEN st
          ELSE [st EXCEPT !.len = maxlen,
                          !.rax[1].lp = MarkFrom([lp EXCEPT ![1] = @ - todo, ![2] = @ + todo],
                                                 FirstEntry(lp), todo)]

-----------------------------------------------------------------------------
(* The iterator: the next node, the node in use (0: none) and the element   *)
(* lp_ele it points at (0: past the end).                                   *)

\* raxSeek "<=", and to an end of the tree when nothing is that low
SeekLeq(rax, id, otherwise) ==
  LET low == {i \in 1..Len(rax) : Leq(rax[i].key, id)}
  IN IF low = {} THEN otherwise ELSE CHOOSE i \in low : \A j \in low : j <= i

IteratorStart(st, start, end, rev) ==
  [next |-> IF ~rev THEN IF start = MinID THEN 1 ELSE SeekLeq(st.rax, start, 1)
            ELSE IF end = MinID THEN Len(st.rax) ELSE SeekLeq(st.rax, end, Len(st.rax)),
   node |-> 0, ele |-> 0, start |-> start, end |-> end, rev |-> rev]

EntryID(node, p) == <<node.key[1] + node.lp[p + 1], node.key[2] + node.lp[p + 2]>>

\* One call of streamIteratorGetID: [id, p, it] with p the flags of the entry,
\* or [id |-> NoKey].  Enter goes to the next node, Scan is its inner loop.
NotFound == [id |-> NoKey]

RECURSIVE Enter(_, _), Scan(_, _), ScanEntry(_, _, _, _, _)
Enter(st, it) ==
  IF it.next \notin 1..Len(st.rax) THEN NotFound
  ELSE LET lp == st.rax[it.next].lp
       IN Scan(st, [it EXCEPT !.node = it.next,
                              !.next = IF it.rev THEN @ - 1 ELSE @ + 1,
                              !.ele = IF it.rev THEN Len(lp) ELSE FirstEntry(lp) - 1])

Scan(st, it) ==
  LET node == st.rax[it.node]
      lp == node.lp
      p == IF it.rev THEN it.ele - lp[it.ele] ELSE it.ele + 1
  IN IF (IF it.rev THEN lp[it.ele] = 0 ELSE it.ele = Len(lp))
     THEN Enter(st, [it EXCEPT !.ele = 0])
     ELSE ScanEntry(st, it, lp, p, EntryID(node, p))

ScanEntry(st, it, lp, p, id) ==
  LET reached == IF it.rev THEN Leq(id, it.end) ELSE Leq(it.start, id)
      passed == IF it.rev THEN Less(id, it.start) ELSE Less(it.end, id)
  IN IF reached /\ ~IsDeleted(lp[p])
     THEN IF passed THEN NotFound
          ELSE [id |-> id, p |-> p, it |-> [it EXCEPT !.ele = Body(lp, p)]]
     ELSE Scan(st, [it EXCEPT !.ele =
             IF it.rev THEN p - 1
             ELSE Body(lp, p) + (IF IsSame(lp[p]) THEN 1 ELSE 2) * OwnFields(lp, p)])

\* After the fields were read lp_ele is the last element of the entry; going
\* backwards the iterator first leaves that entry.
GetID(st, it) ==
  IF it.ele = 0 THEN Enter(st, it)
  ELSE Scan(st, IF it.rev THEN [it EXCEPT !.ele = it.ele - st.rax[it.node].lp[it.ele] - 1] ELSE it)

\* streamIteratorGetField for each field: the pairs, and lp_ele behind them
Pairs(lp, p) ==
  LET b == Body(lp, p)
  IN <<>> \o [i \in 1..OwnFields(lp, p) |->
        IF IsSame(lp[p]) THEN <<MasterFields(lp)[i], lp[b + i - 1]>>
        ELSE <<lp[b + 2 * (i - 1)], lp[b + 2 * (i - 1) + 1]>>]
FieldsRead(st, found) ==
  LET lp == st.rax[found.it.node].lp
  IN [found.it EXCEPT !.ele = @ + (IF IsSame(lp[found.p]) THEN 1 ELSE 2) * OwnFields(lp, found.p)]

\* The loop of streamReplyWithRange; count 0 is no limit
RECURSIVE RangeFrom(_, _, _)
RangeFrom(st, f, count) ==
  IF f.id = NoKey THEN <<>>
  ELSE <<[id |-> f.id, pairs |-> Pairs(st.rax[f.it.node].lp, f.p)]>>
       \o (IF count = 1 THEN <<>> ELSE RangeFrom(st, GetID(st, FieldsRead(st, f)), count - 1))

Range(st, start, end, count, rev) ==
  RangeFrom(st, GetID(st, IteratorStart(st, start, end, rev)), count)

\* streamIteratorRemoveEntry: a node without entries leaves the tree
RemoveEntry(st, f) ==
  LET n == f.it.node
      lp == st.rax[n].lp
  IN [st EXCEPT !.len = @ - 1,
        !.rax = IF lp[1] = 1 THEN SubSeq(@, 1, n - 1) \o SubSeq(@, n + 1, Len(@))
                ELSE [@ EXCEPT ![n].lp = [lp EXCEPT ![f.p] = @ + Deleted,
                                                    ![1] = @ - 1, ![2] = @ + 1]]]

Find(st, id) == GetID(st, IteratorStart(st, id, id, FALSE))

RemoveFound(st, f) == IF f.id = NoKey THEN st ELSE RemoveEntry(st, f)

RECURSIVE DeleteItems(_, _)
DeleteItems(st, ids) ==
  IF ids = <<>> THEN st ELSE DeleteItems(RemoveFound(st, Find(st, Head(ids))), Tail(ids))

-----------------------------------------------------------------------------
(* Consumer groups.  A pending entry is one object, reached from the group  *)
(* and from its consumer: [c, time, n], with told = FALSE after a delivery  *)
(* that is not propagated.  cons gives the pending IDs of each consumer.    *)

NewStream == [rax |-> <<>>, len |-> 0, last |-> MinID, groups |-> <<>>]
CreateCG(id) == [last |-> id, pel |-> <<>>, cons |-> <<>>]

Without(f, k) == [x \in DOMAIN f \ {k} |-> f[x]]
With(f, k, v) == [x \in DOMAIN f \cup {k} |-> IF x = k THEN v ELSE f[x]]

LookupConsumer(g, c) == IF c \in DOMAIN g.cons THEN g ELSE [g EXCEPT !.cons = With(@, c, {})]

\* Mutated: the consumer that held the entry keeps it
ReassignedKeeps(g, id, c, nack) ==
  [g EXCEPT !.cons[c] = @ \cup {id}, !.pel = With(@, id, nack)]

\* The entry id changes hands to c
Reassigned(g, id, c, nack) ==
  [g EXCEPT !.cons = [x \in DOMAIN g.cons |-> IF x = c THEN g.cons[x] \cup {id} ELSE g.cons[x] \ {id}],
            !.pel = With(@, id, nack)]

DelConsumer(g, c) ==
  IF c \notin DOMAIN g.cons THEN g
  ELSE [g EXCEPT !.pel = [x \in DOMAIN @ \ g.cons[c] |-> g.pel[x]],
                 !.cons = Without(@, c)]

RECURSIVE Acked(_, _)
Acked(g, ids) ==
  IF ids = <<>> THEN g
  ELSE LET i == Head(ids)
       IN Acked(IF i \notin DOMAIN g.pel THEN g
                ELSE [g EXCEPT !.pel = Without(@, i), !.cons[g.pel[i].c] = @ \ {i}], Tail(ids))

\* streamPropagateXCLAIM and streamPropagateGroupID: what a delivery propagates
ClaimCommand(group, g, id) ==
  [op |-> "xclaim", g |-> group, c |-> g.pel[id].c, ids |-> <<id>>, minidle |-> 0,
   time |-> g.pel[id].time, retry |-> g.pel[id].n, force |-> TRUE, justid |-> TRUE,
   lastid |-> g.last]
\* Mutated: a reader that does not acknowledge moves the group at the master only
SetIdCommandNone(group, g) == [op |-> "setid", g |-> NoKey, id |-> g.last]
SetIdCommand(group, g) == [op |-> "setid", g |-> group, id |-> g.last]

\* streamReplyWithRange with a group: items are delivered one by one, and each
\* is propagated.  x is [g, moved, props].
RECURSIVE Delivered(_, _, _, _, _, _)
Delivered(x, group, c, items, noack, now) ==
  IF items = <<>> THEN x
  ELSE LET id == Head(items).id
           up == Less(x.g.last, id)
           g == IF up THEN [x.g EXCEPT !.last = id] ELSE x.g
           moved == x.moved \/ up
           given == Reassigned(g, id, c, [c |-> c, time |-> now, n |-> 1, told |-> TRUE])
       IN Delivered(
            IF noack
            THEN [g |-> g, moved |-> moved,
                  props |-> x.props \o (IF moved THEN <<SetIdCommand(group, g)>> ELSE <<>>)]
            ELSE [g |-> given, moved |-> moved,
                  props |-> Append(x.props, ClaimCommand(group, given, id))],
            group, c, Tail(items), noack, now)

\* streamReplyWithRangeFromConsumerPEL: the entries that still exist count as
\* delivered once more, and nothing is propagated
History(st, g, c, start, count, now) ==
  LET mine == {i \in g.cons[c] : Leq(start, i)}
      first == IF count = 0 THEN mine
               ELSE {i \in mine : Cardinality({j \in mine : Less(j, i)}) < count}
  IN [g EXCEPT !.pel = [i \in DOMAIN @ |->
        IF i \in first /\ Find(st, i).id # NoKey
        THEN [g.pel[i] EXCEPT !.time = now, !.n = @ + 1, !.told = FALSE] ELSE g.pel[i]]]

\* One ID of XCLAIM.  x is [g, props]
ClaimOne(st, x, cmd, id, now) ==
  LET g == x.g
      known == id \in DOMAIN g.pel
      idle == known /\ cmd.minidle > 0 /\ now - g.pel[id].time < cmd.minidle
      time == IF cmd.time = -1 \/ cmd.time > now THEN now ELSE cmd.time
      n == IF known THEN g.pel[id].n ELSE 1
      nack == [c |-> cmd.c, time |-> time, told |-> TRUE,
               n |-> IF cmd.retry >= 0 THEN cmd.retry ELSE IF cmd.justid THEN n ELSE n + 1]
      h == Reassigned(g, id, cmd.c, nack)
  IN IF idle \/ (~known /\ (~cmd.force \/ Find(st, id).id = NoKey)) THEN x
     ELSE [g |-> h, props |-> Append(x.props, ClaimCommand(cmd.g, h, id))]

RECURSIVE ClaimAll(_, _, _, _, _)
ClaimAll(st, x, cmd, ids, now) ==
  IF ids = <<>> THEN x
  ELSE ClaimAll(st, ClaimOne(st, x, cmd, Head(ids), now), cmd, Tail(ids), now)

-----------------------------------------------------------------------------
(* The commands: [st, props], the key after the command and what it         *)
(* propagates.  A command that changed nothing propagates nothing.          *)

Nothing(st) == [st |-> st, props |-> <<>>]
Changed(st, new, cmd) == [st |-> new, props |-> IF new = st THEN <<>> ELSE <<cmd>>]
HasGroup(st, g) == st # NoKey /\ g \in DOMAIN st.groups

\* A limit with ~ is propagated as the length it left
Trimmed(new, cmd) ==
  [st |-> new,
   props |-> <<IF cmd.approx THEN [cmd EXCEPT !.approx = FALSE, !.maxlen = new.len] ELSE cmd>>]

Xadd(st, cmd, now) ==
  LET base == IF st = NoKey THEN NewStream ELSE st
      id == IF cmd.id = NoKey THEN NextID(base.last, now) ELSE cmd.id
      added == AppendItem(base, id, cmd.fields, cmd.values)
  IN IF cmd.id = MinID THEN Nothing(st)
     ELSE IF Leq(id, base.last) THEN Nothing(base)
     ELSE Trimmed(IF cmd.maxlen < 0 THEN added ELSE TrimByLength(added, cmd.maxlen, cmd.approx),
                  [cmd EXCEPT !.id = id])

Xdel(st, cmd) ==
  IF st = NoKey THEN Nothing(st) ELSE Changed(st, DeleteItems(st, cmd.ids), cmd)

Xtrim(st, cmd) ==
  LET new == TrimByLength(st, cmd.maxlen, cmd.approx)
  IN IF st = NoKey \/ new = st THEN Nothing(st) ELSE Trimmed(new, cmd)

Xsetid(st, cmd) ==
  IF st = NoKey THEN Nothing(st)
  ELSE LET top == GetID(st, IteratorStart(st, MinID, MaxID, TRUE)).id
       IN IF st.len > 0 /\ Less(cmd.id, top) THEN Nothing(st)
          ELSE [st |-> [st EXCEPT !.last = cmd.id], props |-> <<cmd>>]

\* XGROUP CREATE; an id of NoKey is $
GroupCreate(st, cmd) ==
  LET base == IF st = NoKey THEN NewStream ELSE st
      id == IF cmd.id = NoKey THEN base.last ELSE cmd.id
  IN IF st = NoKey /\ ~cmd.mkstream THEN Nothing(st)
     ELSE IF cmd.g \in DOMAIN base.groups THEN Nothing(st)
     ELSE [st |-> [base EXCEPT !.groups = With(@, cmd.g, CreateCG(id))], props |-> <<cmd>>]

GroupSetid(st, cmd) ==
  IF ~HasGroup(st, cmd.g) THEN Nothing(st)
  ELSE [st |-> [st EXCEPT !.groups[cmd.g].last = IF cmd.id = NoKey THEN st.last ELSE cmd.id],
        props |-> <<cmd>>]

GroupDestroy(st, cmd) ==
  IF ~HasGroup(st, cmd.g) THEN Nothing(st)
  ELSE [st |-> [st EXCEPT !.groups = Without(@, cmd.g)], props |-> <<cmd>>]

GroupDelconsumer(st, cmd) ==
  IF ~HasGroup(st, cmd.g) THEN Nothing(st)
  ELSE [st |-> [st EXCEPT !.groups[cmd.g] = DelConsumer(@, cmd.c)], props |-> <<cmd>>]

Xack(st, cmd) ==
  IF ~HasGroup(st, cmd.g) THEN Nothing(st)
  ELSE Changed(st, [st EXCEPT !.groups[cmd.g] = Acked(@, cmd.ids)], cmd)

Xclaim(st, cmd, now) ==
  IF ~HasGroup(st, cmd.g) THEN Nothing(st)
  ELSE LET g == st.groups[cmd.g]
           up == Less(g.last, cmd.lastid)
           h == LookupConsumer([g EXCEPT !.last = IF up THEN cmd.lastid ELSE @], cmd.c)
           Told(x) == [st |-> [st EXCEPT !.groups[cmd.g] = x.g],
                       props |-> IF up /\ x.props = <<>> THEN <<SetIdCommand(cmd.g, h)>> ELSE x.props]
       IN Told(ClaimAll(st, [g |-> h, props |-> <<>>], cmd, cmd.ids, now))

\* What XREADGROUP with the special ID > delivers
ReadNew(st, group, c, count, noack, now) ==
  LET g == LookupConsumer(st.groups[group], c)
      Told(x) == [st |-> [st EXCEPT !.groups[group] = x.g], props |-> x.props]
  IN Told(Delivered([g |-> g, moved |-> FALSE, props |-> <<>>], group, c,
                    Range(st, After(g.last), MaxID, count, FALSE), noack, now))

\* XREADGROUP; an id of NoKey is >.  It waits when there is nothing new and it
\* was told to block: then "waits" is TRUE.
Xreadgroup(st, cmd, now) ==
  IF ~HasGroup(st, cmd.g) THEN Nothing(st)
  ELSE IF cmd.id # NoKey
  THEN LET g == LookupConsumer(st.groups[cmd.g], cmd.c)
       IN [st |-> [st EXCEPT !.groups[cmd.g] =
                     History(st, g, cmd.c, After(cmd.id), cmd.count, now)],
           props |-> <<>>]
  ELSE IF st.len > 0 /\ Less(st.groups[cmd.g].last, st.last)
  THEN ReadNew(st, cmd.g, cmd.c, cmd.count, cmd.noack, now)
  ELSE Nothing(st)

MustWait(st, cmd) ==
  /\ cmd.op = "xreadgroup" /\ cmd.block /\ cmd.id = NoKey /\ HasGroup(st, cmd.g)
  /\ ~(st.len > 0 /\ Less(st.groups[cmd.g].last, st.last))

\* XPENDING: the summary, and the pending IDs of a group or of one consumer
XpendingInfo(g) ==
  LET ids == SortedIDs(DOMAIN g.pel)
      busy == {c \in DOMAIN g.cons : g.cons[c] # {}}
  IN [total |-> Len(ids), counts |-> [c \in busy |-> Cardinality(g.cons[c])],
      first |-> IF ids = <<>> THEN NoKey ELSE ids[1],
      last |-> IF ids = <<>> THEN NoKey ELSE ids[Len(ids)]]

XpendingRange(g, c, start, end, count) ==
  LET pel == IF c = NoKey THEN DOMAIN g.pel ELSE IF c \in DOMAIN g.cons THEN g.cons[c] ELSE {}
      ids == SortedIDs({i \in pel : Leq(start, i) /\ Leq(i, end)})
      n == IF count < Len(ids) THEN count ELSE Len(ids)
  IN <<>> \o [k \in 1..n |-> <<ids[k], g.pel[ids[k]].c, g.pel[ids[k]].n>>]

Exec(st, cmd, now) ==
  CASE cmd.op = "xadd"        -> Xadd(st, cmd, now)
    [] cmd.op = "xdel"        -> Xdel(st, cmd)
    [] cmd.op = "xtrim"       -> Xtrim(st, cmd)
    [] cmd.op = "xsetid"      -> Xsetid(st, cmd)
    [] cmd.op = "create"      -> GroupCreate(st, cmd)
    [] cmd.op = "setid"       -> GroupSetid(st, cmd)
    [] cmd.op = "destroy"     -> GroupDestroy(st, cmd)
    [] cmd.op = "delconsumer" -> GroupDelconsumer(st, cmd)
    [] cmd.op = "xack"        -> Xack(st, cmd)
    [] cmd.op = "xclaim"      -> Xclaim(st, cmd, now)
    [] cmd.op = "xreadgroup"  -> Xreadgroup(st, cmd, now)

RECURSIVE Replayed(_, _, _)
Replayed(st, cmds, now) ==
  IF cmds = <<>> THEN st ELSE Replayed(Exec(st, Head(cmds), now).st, Tail(cmds), now)

\* handleClientsBlockedOnKeys for a stream that XADD signalled: each waiting
\* reader takes what is new to its group, or learns that the group is gone
ServedBy(x, y) == [x EXCEPT !.st = y.st, !.props = @ \o y.props]

RECURSIVE Serve(_, _, _)
Serve(x, waiting, now) ==
  IF waiting = <<>> THEN x
  ELSE LET w == Head(waiting)
       IN IF w.g \notin DOMAIN x.st.groups THEN Serve(x, Tail(waiting), now)
          ELSE IF ~Less(x.st.groups[w.g].last, x.st.last)
          THEN Serve([x EXCEPT !.wait = Append(@, w)], Tail(waiting), now)
          ELSE Serve(ServedBy(x, ReadNew(x.st, w.g, w.c, w.count, w.noack, now)), Tail(waiting), now)

-----------------------------------------------------------------------------
(* Copies of a stream.                                                      *)

\* rewriteStreamObject: the commands of the rewritten append only file
AddCommand(id, pairs, maxlen) ==
  [op |-> "xadd", id |-> id, maxlen |-> maxlen, approx |-> FALSE,
   fields |-> <<>> \o [i \in 1..Len(pairs) |-> pairs[i][1]],
   values |-> <<>> \o [i \in 1..Len(pairs) |-> pairs[i][2]]]

AddCommands(all) == [i \in 1..Len(all) |-> AddCommand(all[i].id, all[i].pairs, -1)]

PendingCommand(group, g, id) == [ClaimCommand(group, g, id) EXCEPT !.lastid = MinID]

RewrittenGroup(group, g) ==
  LET ids == SortedIDs(DOMAIN g.pel)
  IN <<[op |-> "create", g |-> group, id |-> g.last, mkstream |-> FALSE]>>
     \o [i \in 1..Len(ids) |-> PendingCommand(group, g, ids[i])]

RECURSIVE RewrittenGroups(_, _)
RewrittenGroups(st, todo) ==
  IF todo = {} THEN <<>>
  ELSE LET g == CHOOSE x \in todo : TRUE
       IN RewrittenGroup(g, st.groups[g]) \o RewrittenGroups(st, todo \ {g})

\* Mutated: last_id is taken to be that of the last entry
RewriteStreamNoSetid(st) ==
  (IF st.len > 0 THEN AddCommands(Range(st, MinID, MaxID, 0, FALSE))
   ELSE <<AddCommand(st.last, <<<<0, 0>>>>, 0)>>)
     \o RewrittenGroups(st, DOMAIN st.groups)

RewriteStream(st) ==
  (IF st.len > 0 THEN AddCommands(Range(st, MinID, MaxID, 0, FALSE))
   ELSE <<AddCommand(st.last, <<<<0, 0>>>>, 0)>>)
     \o <<[op |-> "xsetid", id |-> st.last]>>
     \o RewrittenGroups(st, DOMAIN st.groups)

\* rdbSaveObject and rdbLoadObject: nodes as they are, the pending entries of a
\* group without their consumer, and of each consumer the IDs alone
SavedStream(st) ==
  [st EXCEPT !.groups = [g \in DOMAIN @ |->
     [last |-> st.groups[g].last, cons |-> st.groups[g].cons,
      pel |-> [i \in DOMAIN st.groups[g].pel |->
                 [time |-> st.groups[g].pel[i].time, n |-> st.groups[g].pel[i].n]]]]]

Owner(g, id) == CHOOSE c \in DOMAIN g.cons : id \in g.cons[c]
LoadedStream(file) ==
  [file EXCEPT !.groups = [g \in DOMAIN @ |->
     [file.groups[g] EXCEPT !.pel = [i \in DOMAIN @ |->
        [c |-> Owner(file.groups[g], i), time |-> @[i].time, n |-> @[i].n, told |-> TRUE]]]]]

-----------------------------------------------------------------------------
(* The behaviours of a scenario. *)

\* What a reader should see after the command: the added entry last, the
\* deleted ones gone, and after a trim the newest ones, as many as XLEN says
Surviving(live, cmd, before, after) ==
  LET grown == IF cmd.op = "xadd" /\ after.last # before.last
               THEN Append(live, [id |-> after.last,
                      pairs |-> <<>> \o [i \in 1..Len(cmd.fields) |-> <<cmd.fields[i], cmd.values[i]>>]])
               ELSE live
      gone == IF cmd.op = "xdel" THEN {cmd.ids[i] : i \in DOMAIN cmd.ids} ELSE {}
      kept == SelectSeq(grown, LAMBDA e : e.id \notin gone)
  IN IF cmd.op \in {"xadd", "xtrim"} THEN SubSeq(kept, Len(kept) - after.len + 1, Len(kept)) ELSE kept

\* The lengths that a trim may leave of n entries: a limit is exact, or with ~
\* exceeded by what shares a node
Sizes(cmd, n) ==
  IF cmd.op \notin {"xadd", "xtrim"} \/ cmd.maxlen < 0 \/ cmd.maxlen >= n THEN 0..n
  ELSE IF cmd.approx THEN cmd.maxlen..n ELSE {cmd.maxlen}

Init ==
  \E sc \in Scenarios :
    s = [m |-> NoKey, r |-> NoKey, live |-> <<>>, wait |-> <<>>, sc |-> sc, left |-> sc.length,
         size |-> 0..0]

\* A command, and the blocked readers it serves
Served(cmd, e, now) ==
  IF cmd.op = "xadd" /\ e.props # <<>>
  THEN Serve([st |-> e.st, props |-> e.props, wait |-> <<>>], s.wait, now)
  ELSE [st |-> e.st, props |-> e.props, wait |-> s.wait]

Commit(cmd, x, now) ==
  s' = [s EXCEPT !.m = x.st,
                 !.r = Replayed(@, x.props, now),
                 !.wait = IF MustWait(s.m, cmd) THEN Append(x.wait, cmd) ELSE x.wait,
                 !.live = IF x.st = NoKey THEN <<>>
                          ELSE Surviving(@, cmd, IF s.m = NoKey THEN NewStream ELSE s.m, x.st),
                 !.left = @ - 1,
                 !.size = Sizes(cmd, Len(s.live) + (IF cmd.op = "xadd" THEN 1 ELSE 0))]

Command(cmd, now) == Commit(cmd, Served(cmd, Exec(s.m, cmd, now), now), now)

\* A blocked reader times out or goes away
Timeout == \E i \in DOMAIN s.wait :
  s' = [s EXCEPT !.wait = SubSeq(@, 1, i - 1) \o SubSeq(@, i + 1, Len(@))]

Next ==
  \/ s.left > 0 /\ \E cmd \in s.sc.cmds, now \in s.sc.times : Command(cmd, now)
  \/ Timeout

Spec == Init /\ [][Next]_s

-----------------------------------------------------------------------------
(* Properties. *)

Rev(q) == <<>> \o [i \in 1..Len(q) |-> q[Len(q) + 1 - i]]
First(q, n) == IF n = 0 \/ n >= Len(q) THEN q ELSE SubSeq(q, 1, n)

\* Every range, forwards and backwards and with every limit, shows exactly the
\* entries between its ends, in order (streamIteratorGetID over delta encoded,
\* partly deleted nodes).
RangesExact ==
  s.m # NoKey => \A a, b \in s.sc.queries, n \in {0, 1} :
    LET between == SelectSeq(s.live, LAMBDA e : Leq(a, e.id) /\ Leq(e.id, b))
    IN /\ Range(s.m, a, b, n, FALSE) = First(between, n)
       /\ Range(s.m, a, b, n, TRUE) = First(Rev(between), n)

\* The counters that trimming and deletion rely on are those of the entries:
\* the length, per node the entries and the deleted ones, none of them empty;
\* no entry has an ID above last_id, which the next one must exceed; and a trim
\* leaves exactly as many entries as it was asked to, or with ~ not fewer.
RECURSIVE Flags(_, _)
Flags(lp, p) == IF p > Len(lp) THEN <<>> ELSE <<lp[p]>> \o Flags(lp, p + 4 + EntrySize(lp, p))
CountersExact ==
  s.m # NoKey =>
    /\ s.m.len = Len(s.live) /\ s.m.len \in s.size
    /\ \A i \in DOMAIN s.m.rax :
         LET f == Flags(s.m.rax[i].lp, FirstEntry(s.m.rax[i].lp))
             alive == {j \in DOMAIN f : ~IsDeleted(f[j])}
         IN /\ s.m.rax[i].lp[1] = Cardinality(alive) /\ alive # {}
            /\ s.m.rax[i].lp[2] = Len(f) - Cardinality(alive)
            /\ i > 1 => Less(s.m.rax[i - 1].key, s.m.rax[i].key)
    /\ \A i \in DOMAIN s.live : Leq(s.live[i].id, s.m.last)

\* The pending entries of a group are those of its consumers, each of exactly
\* one: a nack always points to a consumer that lists it, and XPENDING shows the
\* same entries for the group and for its consumers.
PendingAgree ==
  s.m # NoKey => \A n \in DOMAIN s.m.groups :
    LET g == s.m.groups[n]
    IN /\ DOMAIN g.pel = UNION {g.cons[c] : c \in DOMAIN g.cons}
       /\ \A i \in DOMAIN g.pel : \A c \in DOMAIN g.cons : i \in g.cons[c] <=> c = g.pel[i].c
       /\ LET info == XpendingInfo(g)
              all == XpendingRange(g, NoKey, MinID, MaxID, info.total)
          IN /\ Len(all) = info.total
             /\ \A c \in DOMAIN g.cons :
                  SelectSeq(all, LAMBDA e : e[2] = c) = XpendingRange(g, c, MinID, MaxID, info.total)

\* What two copies of a stream must share.  A consumer without pending entries
\* may be missing, and a delivery from the history is not propagated.
SameGroup(g, h, ids) ==
  /\ g.last = h.last
  /\ DOMAIN g.pel \cap ids = DOMAIN h.pel \cap ids
  /\ \A i \in DOMAIN g.pel \cap ids :
       /\ g.pel[i].c = h.pel[i].c
       /\ g.pel[i].told => g.pel[i].time = h.pel[i].time /\ g.pel[i].n = h.pel[i].n
Same(a, b, ids) ==
  \/ a = NoKey /\ b = NoKey
  \/ /\ a # NoKey /\ b # NoKey
     /\ a.len = b.len /\ a.last = b.last
     /\ Range(a, MinID, MaxID, 0, FALSE) = Range(b, MinID, MaxID, 0, FALSE)
     /\ DOMAIN a.groups = DOMAIN b.groups
     /\ \A n \in DOMAIN a.groups : SameGroup(a.groups[n], b.groups[n], ids)

AllIDs == (0..SeqMax) \X (0..SeqMax)

\* The propagated commands give a replica the stream of its master: entries,
\* last IDs, and who holds which pending entry since when and how often
\* (streamPropagateXCLAIM, streamPropagateGroupID, the rewriting of XADD and
\* XTRIM), blocked readers included.
ReplicaSame == Same(s.m, s.r, AllIDs)

\* The rewritten append only file gives the stream back, but for the pending
\* entries of deleted messages (XCLAIM FORCE does not create those) and for an
\* empty stream that never had an entry (XADD refuses the ID 0-0).
RewriteSame ==
  (s.m # NoKey /\ ~(s.m.len = 0 /\ s.m.last = MinID)) =>
    LET copy == Replayed(NoKey, RewriteStream(s.m), SeqMax)
        told == [s.m EXCEPT !.groups = [g \in DOMAIN @ |->
                  [@[g] EXCEPT !.pel = [i \in DOMAIN @ |-> [@[i] EXCEPT !.told = TRUE]]]]]
    IN Same(told, copy, {s.live[i].id : i \in DOMAIN s.live})

\* A dump gives the stream back as it is, every pending entry with its owner.
DumpSame ==
  s.m # NoKey =>
    LET copy == LoadedStream(SavedStream(s.m))
    IN copy = [s.m EXCEPT !.groups = [g \in DOMAIN @ |->
                 [@[g] EXCEPT !.pel = [i \in DOMAIN @ |-> [@[i] EXCEPT !.told = TRUE]]]]]
=============================================================================
