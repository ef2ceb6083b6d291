------------------------------ MODULE SetType ------------------------------
(***************************************************************************)
(* Sets: intset.c, and the commands of t_set.c with what they propagate to *)
(* replicas.  A member is <<1, n>>, a string that is the integer n, or     *)
(* <<0, n>>, another string.  A set is an intset, whose integers all have  *)
(* the width of the widest, or a hash table.  Random picks are choices.    *)
(***************************************************************************)
EXTENDS Integers, Sequences, FiniteSets

CONSTANTS Limit,      \* Limit[w]: the integers of width w are -Limit[w]..Limit[w]-1
          MaxIntset,  \* set_max_intset_entries
          PopMul,     \* SPOP_MOVE_STRATEGY_MUL
          Scenarios   \* [db, members, keys, cmds, counts]

VARIABLE s

From(q, i) == SubSeq(q, i, Len(q))

-----------------------------------------------------------------------------
(* intset.c *)

\* _intsetValueEncoding
ValueEncoding(v) == IF v < -Limit[2] \/ v >= Limit[2] THEN 3
                    ELSE IF v < -Limit[1] \/ v >= Limit[1] THEN 2 ELSE 1

\* _intsetSet then _intsetGet: what is read back from a cell of a width
Stored(v, w) == LET m == v % (2 * Limit[w]) IN IF m >= Limit[w] THEN m - 2 * Limit[w] ELSE m

\* intsetSearch
RECURSIVE Bisect(_, _, _, _)
Bisect(q, v, min, max) ==
  IF max < min THEN [found |-> FALSE, pos |-> min]
  ELSE LET mid == (min + max) \div 2
       IN IF v > q[mid + 1] THEN Bisect(q, v, mid + 1, max)
          ELSE IF v < q[mid + 1] THEN Bisect(q, v, min, mid - 1)
          ELSE [found |-> TRUE, pos |-> mid]

Search(q, v) == IF q = <<>> THEN [found |-> FALSE, pos |-> 0]
                ELSE IF v > q[Len(q)] THEN [found |-> FALSE, pos |-> Len(q)]
                ELSE IF v < q[1] THEN [found |-> FALSE, pos |-> 0]
                ELSE Bisect(q, v, 0, Len(q) - 1)

Absent == [enc |-> 0, ints |-> <<>>, ht |-> {}]
Intset == [enc |-> 1, ints |-> <<>>, ht |-> {}]
HashTable(S) == [enc |-> 4, ints |-> <<>>, ht |-> S]
IsIntset(o) == o.enc \in 1..3
IsSet(o) == o.enc \in 1..4

\* intsetUpgradeAndAdd
Widen(q, w) == <<>> \o [i \in DOMAIN q |-> Stored(q[i], w)]

\* Mutated: a wider negative number is added at the end
UpgradeAppend(o, v) ==
  [o EXCEPT !.enc = ValueEncoding(v), !.ints = Widen(@, ValueEncoding(v)) \o <<v>>]

Upgrade(o, v) ==
  [o EXCEPT !.enc = ValueEncoding(v),
            !.ints = IF v < 0 THEN <<v>> \o Widen(@, ValueEncoding(v)) ELSE Widen(@, ValueEncoding(v)) \o <<v>>]

AddAt(o, v, at) ==
  IF at.found THEN o
  ELSE [o EXCEPT !.ints = SubSeq(@, 1, at.pos) \o <<Stored(v, o.enc)>> \o From(@, at.pos + 1)]

IntsetAdd(o, v) == IF ValueEncoding(v) > o.enc THEN Upgrade(o, v) ELSE AddAt(o, v, Search(o.ints, v))

RemoveAt(o, at) == IF at.found THEN [o EXCEPT !.ints = SubSeq(@, 1, at.pos) \o From(@, at.pos + 2)] ELSE o

IntsetRemove(o, v) == IF ValueEncoding(v) <= o.enc THEN RemoveAt(o, Search(o.ints, v)) ELSE o

IntsetFind(o, v) == ValueEncoding(v) <= o.enc /\ Search(o.ints, v).found

-----------------------------------------------------------------------------
(* The set type. *)

\* setTypeNext over the whole set, setTypeSize
Members(o) == IF IsIntset(o) THEN {<<1, o.ints[i]>> : i \in DOMAIN o.ints} ELSE o.ht
Size(o) == IF IsIntset(o) THEN Len(o.ints) ELSE Cardinality(o.ht)

TypeCreate(e) == IF e[1] = 1 THEN Intset ELSE HashTable({})

Convert(o) == HashTable(Members(o))

Bounded(o) == IF Len(o.ints) > MaxIntset THEN Convert(o) ELSE o

\* setTypeAdd, setTypeRemove, setTypeIsMember
TypeAdd(o, e) == IF ~IsIntset(o) THEN HashTable(o.ht \cup {e})
                 ELSE IF e[1] = 1 THEN Bounded(IntsetAdd(o, e[2]))
                 ELSE HashTable(Members(o) \cup {e})

TypeRemove(o, e) == IF ~IsIntset(o) THEN HashTable(o.ht \ {e})
                    ELSE IF e[1] = 1 THEN IntsetRemove(o, e[2]) ELSE o

IsMember(o, e) == IF ~IsIntset(o) THEN e \in o.ht ELSE e[1] = 1 /\ IntsetFind(o, e[2])

RECURSIVE AddAll(_, _), RemoveAll(_, _)
AddAll(o, S) == IF S = {} THEN o ELSE LET e == CHOOSE x \in S : TRUE IN AddAll(TypeAdd(o, e), S \ {e})
RemoveAll(o, S) == IF S = {} THEN o ELSE LET e == CHOOSE x \in S : TRUE IN RemoveAll(TypeRemove(o, e), S \ {e})

-----------------------------------------------------------------------------
(* Commands.  Done records the new database, the keys that were signalled  *)
(* as modified and whether the reply is the one the sets require; if the   *)
(* command is dirty the replica's sets become rep.                         *)

Kept(o) == IF IsSet(o) /\ Size(o) = 0 THEN Absent ELSE o

Content(o) == [enc |-> IF IsSet(o) THEN 1 ELSE o.enc, of |-> IF IsSet(o) THEN Members(o) ELSE {}]
Plain(S) == [enc |-> IF S = {} THEN 0 ELSE 1, of |-> S]
Rep(k) == s.rep[k].of

Done(db, touched, dirty, rep, reply, expect) ==
  s' = [s EXCEPT !.db = db, !.rep = IF dirty THEN rep ELSE @,
                 !.missed = {k \in s.sc.keys : Content(db[k]) # Content(s.db[k])} \ touched,
                 !.ok = reply = expect]

Refused == Done(s.db, {}, FALSE, s.rep, <<>>, <<>>)

\* saddCommand
Sadd == "sadd" \in s.sc.cmds /\ \E k \in s.sc.keys, a, b \in s.sc.members :
  LET o == IF s.db[k].enc = 0 THEN TypeCreate(a) ELSE s.db[k]
      new == TypeAdd(TypeAdd(o, a), b)
      added == Size(new) - Size(o)
  IN IF ~IsSet(o) THEN Refused
     ELSE Done([s.db EXCEPT ![k] = new], IF added > 0 THEN {k} ELSE {}, added > 0,
               [s.rep EXCEPT ![k] = Plain(Rep(k) \cup {a, b})],
               added, Cardinality({a, b} \ Rep(k)))

\* sremCommand
Srem == "srem" \in s.sc.cmds /\ \E k \in s.sc.keys, a, b \in s.sc.members :
  LET one == TypeRemove(s.db[k], a)
      new == IF Size(one) = 0 THEN one ELSE TypeRemove(one, b)
      deleted == Size(s.db[k]) - Size(new)
  IN IF ~IsSet(s.db[k]) THEN Refused
     ELSE Done([s.db EXCEPT ![k] = Kept(new)], IF deleted > 0 THEN {k} ELSE {}, deleted > 0,
               [s.rep EXCEPT ![k] = Plain(Rep(k) \ {a, b})],
               deleted, Cardinality({a, b} \cap Rep(k)))

\* smoveCommand
\* Mutated: the destination is not signalled
SmoveQuiet == "smove" \in s.sc.cmds /\ \E k, d \in s.sc.keys, e \in s.sc.members :
  LET dst == IF s.db[d].enc = 0 THEN TypeCreate(e) ELSE s.db[d]
  IN IF s.db[k].enc = 0 THEN Done(s.db, {}, FALSE, s.rep, 0, 0)
     ELSE IF ~IsSet(s.db[k]) \/ ~IsSet(dst) THEN Refused
     ELSE IF k = d \/ ~IsMember(s.db[k], e)
     THEN Done(s.db, {}, FALSE, s.rep, IF IsMember(s.db[k], e) THEN 1 ELSE 0, IF e \in Rep(k) THEN 1 ELSE 0)
     ELSE Done([s.db EXCEPT ![k] = Kept(TypeRemove(@, e)), ![d] = TypeAdd(dst, e)], {k}, TRUE,
               [s.rep EXCEPT ![k] = Plain(Rep(k) \ {e}), ![d] = Plain(Rep(d) \cup {e})], 1, 1)

Smove == "smove" \in s.sc.cmds /\ \E k, d \in s.sc.keys, e \in s.sc.members :
  LET dst == IF s.db[d].enc = 0 THEN TypeCreate(e) ELSE s.db[d]
  IN IF s.db[k].enc = 0 THEN Done(s.db, {}, FALSE, s.rep, 0, 0)
     ELSE IF ~IsSet(s.db[k]) \/ ~IsSet(dst) THEN Refused
     ELSE IF k = d \/ ~IsMember(s.db[k], e)
     THEN Done(s.db, {}, FALSE, s.rep, IF IsMember(s.db[k], e) THEN 1 ELSE 0, IF e \in Rep(k) THEN 1 ELSE 0)
     ELSE Done([s.db EXCEPT ![k] = Kept(TypeRemove(@, e)), ![d] = TypeAdd(dst, e)], {k, d}, TRUE,
               [s.rep EXCEPT ![k] = Plain(Rep(k) \ {e}), ![d] = Plain(Rep(d) \cup {e})], 1, 1)

\* sismemberCommand and scardCommand
Query == "query" \in s.sc.cmds /\ \E k \in s.sc.keys, e \in s.sc.members :
  IF ~IsSet(s.db[k]) THEN Refused
  ELSE Done(s.db, {}, FALSE, s.rep, <<IsMember(s.db[k], e), Size(s.db[k])>>,
            <<e \in Rep(k), Cardinality(Rep(k))>>)

\* spopCommand: propagated as SREM of the member that was picked
Spop == "spop" \in s.sc.cmds /\ \E k \in s.sc.keys :
  IF ~IsSet(s.db[k]) THEN Refused
  ELSE \E e \in Members(s.db[k]) :
         Done([s.db EXCEPT ![k] = Kept(TypeRemove(@, e))], {k}, TRUE,
              [s.rep EXCEPT ![k] = Plain(Rep(k) \ {e})], e \in Rep(k), TRUE)

\* spopWithCountCommand: the whole set, a few members one by one, or all but a
\* few, which become a new set.  The replica gets DEL, or SREM of each member.
SomeOf(o, n) == {S \in SUBSET Members(o) : Cardinality(S) = n}

PopRest(R) == LET e == CHOOSE x \in R : TRUE IN AddAll(TypeCreate(e), R)

PopMany(k, o, count, P) ==
  LET remaining == Size(o) - count
      new == IF remaining * PopMul > count THEN RemoveAll(o, P) ELSE PopRest(Members(o) \ P)
      gone == IF remaining * PopMul > count THEN P ELSE Members(RemoveAll(o, Members(o) \ P))
  IN Done([s.db EXCEPT ![k] = new], {k}, TRUE, [s.rep EXCEPT ![k] = Plain(Rep(k) \ gone)],
          Cardinality(gone), count)

SpopCount == "spop" \in s.sc.cmds /\ \E k \in s.sc.keys, count \in s.sc.counts :
  IF ~IsSet(s.db[k]) \/ count <= 0 THEN Refused
  ELSE IF count >= Size(s.db[k])
  THEN Done([s.db EXCEPT ![k] = Absent], {k}, TRUE, [s.rep EXCEPT ![k] = Plain({})],
            Members(AddAll(Intset, Members(s.db[k]))), Rep(k))
  ELSE \E P \in SomeOf(s.db[k], count) : PopMany(k, s.db[k], count, P)

\* srandmemberCommand: with repetitions when count is negative
Srandmember == "query" \in s.sc.cmds /\ \E k \in s.sc.keys, count \in s.sc.counts :
  IF ~IsSet(s.db[k]) \/ count = 0 THEN Refused
  ELSE IF count < 0 THEN \E e \in Members(s.db[k]) : Done(s.db, {}, FALSE, s.rep, e \in Rep(k), TRUE)
  ELSE IF count >= Size(s.db[k])
  THEN Done(s.db, {}, FALSE, s.rep, Members(AddAll(Intset, Members(s.db[k]))), Rep(k))
  ELSE \E P \in SomeOf(s.db[k], count) : Done(s.db, {}, FALSE, s.rep, P \subseteq Rep(k), TRUE)

\* The end of the STORE commands, and the reply of the others
Store(d, new, want) ==
  IF d = "none" THEN Done(s.db, {}, FALSE, s.rep, Members(new), want)
  ELSE Done([s.db EXCEPT ![d] = Kept(new)], {d}, TRUE, [s.rep EXCEPT ![d] = Plain(want)],
            Size(new), Cardinality(want))

\* sinterGenericCommand: from the smallest set
InterOf(first, sets) ==
  AddAll(Intset, {e \in Members(first) : \A o \in sets \ {first} : IsMember(o, e)})

Smallest(sets) == CHOOSE o \in sets : \A x \in sets : Size(o) <= Size(x)

Sinter == "store" \in s.sc.cmds /\ \E a, b \in s.sc.keys, d \in s.sc.keys \cup {"none"} :
  LET missing == s.db[a].enc = 0 \/ (IsSet(s.db[a]) /\ s.db[b].enc = 0)
  IN IF missing
     THEN IF d = "none" THEN Done(s.db, {}, FALSE, s.rep, {}, Rep(a) \cap Rep(b))
          ELSE Done([s.db EXCEPT ![d] = Absent], IF s.db[d].enc # 0 THEN {d} ELSE {}, s.db[d].enc # 0,
                    [s.rep EXCEPT ![d] = Plain({})], {}, Rep(a) \cap Rep(b))
     ELSE IF ~IsSet(s.db[a]) \/ ~IsSet(s.db[b]) THEN Refused
     ELSE Store(d, InterOf(Smallest({s.db[a], s.db[b]}), {s.db[a], s.db[b]}), Rep(a) \cap Rep(b))

\* sunionDiffGenericCommand, with its two ways to subtract
DiffOne(first, others, same) ==
  AddAll(Intset, {e \in Members(first) : ~same /\ \A o \in others : ~IsMember(o, e)})

RECURSIVE DiffTwo(_, _)
DiffTwo(acc, others) == IF others = <<>> \/ Size(acc) = 0 THEN acc
                        ELSE DiffTwo(RemoveAll(acc, Members(others[1])), Tail(others))

AlgoOne(first, sets) ==
  LET Sum[i \in 0..Len(sets)] == IF i = 0 THEN Size(first) ELSE Sum[i - 1] + Size(sets[i])
  IN ((Len(sets) + 1) * Size(first)) \div 2 <= Sum[Len(sets)]

There(q) == SelectSeq(q, LAMBDA o : o.enc # 0)

Diff(first, others, same) ==
  IF first.enc = 0 THEN Intset
  ELSE IF AlgoOne(first, others) THEN DiffOne(first, {others[i] : i \in DOMAIN others}, same)
  ELSE DiffTwo(AddAll(Intset, Members(first)), others)

Other(k) == s.db[k].enc \notin 0..4

SunionDiff == "store" \in s.sc.cmds /\ \E a, b, c \in s.sc.keys, d \in s.sc.keys \cup {"none"}, union \in BOOLEAN :
  IF Other(a) \/ Other(b) \/ Other(c) THEN Refused
  ELSE Store(d, IF union THEN AddAll(AddAll(AddAll(Intset, Members(s.db[a])), Members(s.db[b])), Members(s.db[c]))
                ELSE Diff(s.db[a], There(<<s.db[b], s.db[c]>>), a \in {b, c}),
             IF union THEN Rep(a) \cup Rep(b) \cup Rep(c) ELSE Rep(a) \ (Rep(b) \cup Rep(c)))

Init == \E sc \in Scenarios :
          s = [sc |-> sc, db |-> sc.db, rep |-> [k \in sc.keys |-> Content(sc.db[k])], missed |-> {}, ok |-> TRUE]

Next == Sadd \/ Srem \/ Smove \/ Query \/ Spop \/ SpopCount \/ Srandmember \/ Sinter \/ SunionDiff

Spec == Init /\ [][Next]_s

-----------------------------------------------------------------------------
(* Properties. *)

\* A replica that is sent what the commands propagate, for the random ones the
\* members that were picked, holds the sets of the master (t_set.c).
ReplicaAgrees == \A k \in s.sc.keys : Content(s.db[k]) = s.rep[k]

\* Every reply is that of plain sets, whatever the encodings of the operands
\* and the strategy chosen by size (t_set.c, spopWithCountCommand, SDIFF).
RepliesExact == s.ok

\* A key whose value changed was signalled, so that a transaction that watches
\* it fails (t_set.c, signalModifiedKey).
ChangesSignalled == s.missed = {}

\* An intset is sorted, without repetitions, at most MaxIntset long and as wide
\* as its widest integer; no set in the database is empty (intset.c).
EncodingSound ==
  \A k \in s.sc.keys :
    LET o == s.db[k]
    IN /\ IsSet(o) => Size(o) > 0
       /\ IsIntset(o) => /\ Len(o.ints) <= MaxIntset
                         /\ \A i \in 1..(Len(o.ints) - 1) : o.ints[i] < o.ints[i + 1]
                         /\ \A i \in DOMAIN o.ints : ValueEncoding(o.ints[i]) <= o.enc
=============================================================================
