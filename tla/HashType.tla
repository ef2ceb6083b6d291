------------------------------ MODULE HashType ------------------------------
(***************************************************************************)
(* Hashes: the commands of t_hash.c and what they propagate to replicas.   *)
(* A string is <<kind, n, length>>: an integer ("int"), the float n / 2    *)
(* ("half"), or another string ("str").  A hash is a ziplist, in which     *)
(* fields and values alternate, or a hash table.                           *)
(***************************************************************************)
EXTENDS Integers, Sequences, FiniteSets

CONSTANTS MaxEntries,  \* hash_max_ziplist_entries
          MaxValue,    \* hash_max_ziplist_value
          MaxLong,     \* LLONG_MAX; LLONG_MIN is -MaxLong - 1
          Scenarios    \* [db, keys, fields, values, incrs, cmds]

VARIABLE s

From(q, i) == SubSeq(q, i, Len(q))
Integer(n) == <<"int", n, 1>>
Missing == <<"none", 0, 0>>

-----------------------------------------------------------------------------
(* The hash type. *)

Absent == [enc |-> "none", zl |-> <<>>, ht |-> <<>>]
Hash == [Absent EXCEPT !.enc = "zl"]
Table(f) == [Absent EXCEPT !.enc = "ht", !.ht = f]
IsHash(o) == o.enc \in {"zl", "ht"}

\* ziplistFind with a skip of one: only fields are compared
ZlFind(zl, field) ==
  LET at == {i \in DOMAIN zl : i % 2 = 1 /\ zl[i] = field}
  IN IF at = {} THEN 0 ELSE CHOOSE i \in at : \A j \in at : i <= j

\* hashTypeGetValue
GetAt(zl, i) == IF i = 0 THEN Missing ELSE zl[i + 1]
GetValue(o, field) == IF o.enc = "zl" THEN GetAt(o.zl, ZlFind(o.zl, field))
                      ELSE IF field \in DOMAIN o.ht THEN o.ht[field] ELSE Missing

Exists(o, field) == GetValue(o, field) # Missing

Length(o) == IF o.enc = "zl" THEN Len(o.zl) \div 2 ELSE Cardinality(DOMAIN o.ht)

\* hashTypeNext over the whole hash; hashTypeConvert
ZlPairs(zl) == [f \in {zl[i] : i \in {j \in DOMAIN zl : j % 2 = 1}} |-> zl[ZlFind(zl, f) + 1]]
Pairs(o) == IF o.enc = "zl" THEN ZlPairs(o.zl) ELSE o.ht
Convert(o) == Table(Pairs(o))

\* hashTypeTryConversion
TryConversion(o, strings) == IF o.enc = "zl" /\ \E x \in strings : x[1] # "int" /\ x[3] > MaxValue
                             THEN Convert(o) ELSE o

\* hashTypeSet: the value is replaced where it is, or the pair appended
Put(f, field, value) == [x \in DOMAIN f \cup {field} |-> IF x = field THEN value ELSE f[x]]

ZlSet(zl, i, field, value) ==
  IF i = 0 THEN zl \o <<field, value>>
  ELSE SubSeq(zl, 1, i) \o <<value>> \o From(zl, i + 2)

Bounded(o) == IF Length(o) > MaxEntries THEN Convert(o) ELSE o

Set(o, field, value) ==
  IF o.enc = "zl" THEN Bounded([o EXCEPT !.zl = ZlSet(@, ZlFind(@, field), field, value)])
  ELSE Table(Put(o.ht, field, value))

\* hashTypeDelete
ZlDelete(zl, i) == IF i = 0 THEN zl ELSE SubSeq(zl, 1, i - 1) \o From(zl, i + 2)
Delete(o, field) ==
  IF o.enc = "zl" THEN [o EXCEPT !.zl = ZlDelete(@, ZlFind(@, field))]
  ELSE Table([x \in DOMAIN o.ht \ {field} |-> o.ht[x]])

-----------------------------------------------------------------------------
(* Commands.  A command that is dirty makes the replica's hashes rep.      *)

Lookup(k) == IF s.db[k].enc = "none" THEN Hash ELSE s.db[k]   \* hashTypeLookupWriteOrCreate

Content(o) == [hash |-> IsHash(o), of |-> IF IsHash(o) THEN Pairs(o) ELSE <<>>]
Rep(k) == s.rep[k].of
RepGet(k, field) == IF field \in DOMAIN Rep(k) THEN Rep(k)[field] ELSE Missing
RepWith(k, f) == [s.rep EXCEPT ![k] = [hash |-> f # <<>>, of |-> f]]

Done(k, o, touched, dirty, rep, ok) ==
  s' = [s EXCEPT !.db[k] = o, !.rep = IF dirty THEN rep ELSE @, !.ok = ok,
                 !.missed = Content(o).of # Content(s.db[k]).of /\ ~touched]

Refused(k) == Done(k, s.db[k], FALSE, FALSE, s.rep, TRUE)

\* hsetCommand with two pairs, one of which may repeat the other
Hset == "hset" \in s.sc.cmds /\ \E k \in s.sc.keys, f, g \in s.sc.fields, v, w \in s.sc.values :
  LET o == TryConversion(Lookup(k), {f, g, v, w})
      created == (IF Exists(o, f) THEN 0 ELSE 1) + (IF Exists(Set(o, f, v), g) THEN 0 ELSE 1)
  IN IF ~IsHash(Lookup(k)) THEN Refused(k)
     ELSE Done(k, Set(Set(o, f, v), g, w), TRUE, TRUE, RepWith(k, Put(Put(Rep(k), f, v), g, w)),
               created = Cardinality({f, g} \ DOMAIN Rep(k)))

\* hsetnxCommand: may convert a hash it does not change
Hsetnx == "hsetnx" \in s.sc.cmds /\ \E k \in s.sc.keys, f \in s.sc.fields, v \in s.sc.values :
  LET o == TryConversion(Lookup(k), {f, v})
  IN IF ~IsHash(Lookup(k)) THEN Refused(k)
     ELSE IF Exists(o, f) THEN Done(k, o, FALSE, FALSE, s.rep, f \in DOMAIN Rep(k))
     ELSE Done(k, Set(o, f, v), TRUE, TRUE, RepWith(k, Put(Rep(k), f, v)), f \notin DOMAIN Rep(k))

\* hincrbyCommand
\* Mutated: only a positive sum is tested for overflow
WouldOverflowUp(old, incr) == incr > 0 /\ old > 0 /\ incr > MaxLong - old

WouldOverflow(old, incr) == \/ incr < 0 /\ old < 0 /\ incr < (-MaxLong - 1) - old
                            \/ incr > 0 /\ old > 0 /\ incr > MaxLong - old

Wrapped(n) == ((n + MaxLong + 1) % (2 * MaxLong + 2)) - MaxLong - 1

IncrBy(k, o, f, old, incr) ==
  IF WouldOverflow(old, incr) THEN Done(k, o, FALSE, FALSE, s.rep, old + incr \notin (-MaxLong - 1)..MaxLong)
  ELSE Done(k, Set(o, f, Integer(Wrapped(old + incr))), TRUE, TRUE,
            RepWith(k, Put(Rep(k), f, Integer(Wrapped(old + incr)))), Wrapped(old + incr) = old + incr)

Hincrby == "hincrby" \in s.sc.cmds /\ \E k \in s.sc.keys, f \in s.sc.fields, incr \in s.sc.incrs :
  LET v == GetValue(Lookup(k), f)
  IN IF ~IsHash(Lookup(k)) THEN Refused(k)
     ELSE IF v[1] \in {"half", "str"} THEN Refused(k)
     ELSE IncrBy(k, Lookup(k), f, v[2], incr)

\* hincrbyfloatCommand: by half of n, or infinity (2 * MaxLong), in which case
\* the key that was created for it stays.  Propagated as HSET of the result.
Halves(v) == IF v[1] = "half" THEN v[2] ELSE 2 * v[2]
Float(n) == IF n % 2 = 0 THEN Integer(n \div 2) ELSE <<"half", n, 2>>
Infinity == 2 * MaxLong

Hincrbyfloat == "hincrbyfloat" \in s.sc.cmds /\ \E k \in s.sc.keys, f \in s.sc.fields, n \in {-1, 1, Infinity} :
  LET v == GetValue(Lookup(k), f)
      new == Float(Halves(v) + n)
  IN IF ~IsHash(Lookup(k)) THEN Refused(k)
     ELSE IF v[1] = "str" THEN Refused(k)
     ELSE IF n = Infinity THEN Done(k, Lookup(k), FALSE, FALSE, s.rep, TRUE)
     ELSE /\ Halves(v) + n \in -4..4
          /\ Done(k, Set(Lookup(k), f, new), TRUE, TRUE, RepWith(k, Put(Rep(k), f, new)), TRUE)

\* hdelCommand
Hdel == "hdel" \in s.sc.cmds /\ \E k \in s.sc.keys, f, g \in s.sc.fields :
  LET one == Delete(s.db[k], f)
      new == IF Exists(s.db[k], f) /\ Length(one) = 0 THEN one ELSE Delete(one, g)
      deleted == Length(s.db[k]) - Length(new)
  IN IF ~IsHash(s.db[k]) THEN Refused(k)
     ELSE Done(k, IF deleted > 0 /\ Length(new) = 0 THEN Absent ELSE new, deleted > 0, deleted > 0,
               RepWith(k, [x \in DOMAIN Rep(k) \ {f, g} |-> Rep(k)[x]]),
               deleted = Cardinality({f, g} \cap DOMAIN Rep(k)))

\* addHashFieldToReply
FieldReply(o, field) == IF IsHash(o) THEN GetValue(o, field) ELSE Missing

\* hgetCommand, hmgetCommand, hexistsCommand, hstrlenCommand, hlenCommand and
\* genericHgetallCommand, whose assertion is the last conjunct
ReadStep == "read" \in s.sc.cmds /\ \E k \in s.sc.keys :
  IF s.db[k].enc = "str" THEN Refused(k)
  ELSE Done(k, s.db[k], FALSE, FALSE, s.rep,
            /\ \A f \in s.sc.fields : FieldReply(s.db[k], f) = RepGet(k, f)
            /\ Length(s.db[k]) = Cardinality(DOMAIN Rep(k))
            /\ Length(s.db[k]) = Cardinality(DOMAIN Pairs(s.db[k])))

Init == \E sc \in Scenarios :
          s = [sc |-> sc, db |-> sc.db, rep |-> [k \in sc.keys |-> Content(sc.db[k])], ok |-> TRUE,
               missed |-> FALSE]

Next == Hset \/ Hsetnx \/ Hincrby \/ Hincrbyfloat \/ Hdel \/ ReadStep

Spec == Init /\ [][Next]_s

-----------------------------------------------------------------------------
(* Properties. *)

\* A replica that is sent what the commands propagate holds the hashes of the
\* master, but for an empty hash, which only HINCRBYFLOAT by infinity of a key
\* that did not exist leaves behind (t_hash.c, hincrbyfloatCommand).
ReplicaAgrees ==
  \A k \in s.sc.keys : /\ Content(s.db[k]).of = s.rep[k].of
                       /\ Content(s.db[k]) # s.rep[k] => "hincrbyfloat" \in s.sc.cmds

\* Replies are those of a plain map, a conversion loses nothing, and sums are
\* exact or refused (t_hash.c, hashTypeSet, hincrbyCommand).
RepliesExact == s.ok

\* A hash that changed was signalled to those who watch it, and a ziplist has
\* whole pairs with different fields, at most MaxEntries (t_hash.c).
EncodingSound ==
  /\ ~s.missed
  /\ \A k \in s.sc.keys :
       LET zl == s.db[k].zl
       IN /\ Len(zl) % 2 = 0 /\ Len(zl) <= 2 * MaxEntries
          /\ \A i, j \in DOMAIN zl : i % 2 = 1 /\ j % 2 = 1 /\ zl[i] = zl[j] => i = j
=============================================================================
