-------------------------------- MODULE MCTypes --------------------------------
(* Small instances of the data types, and what clients send in each.         *)
EXTENDS Integers, Sequences

CONSTANT NoKey

-----------------------------------------------------------------------------
(* What the clients of each scenario send. *)

KeyC(name) == [name |-> name]
KeyK(name, k) == [name |-> name, k |-> k]
KeyKV(name, k, v) == [name |-> name, k |-> k, v |-> v]
KeyKJ(name, k, j) == [name |-> name, k |-> k, j |-> j]
KeyKs(name, keys) == [name |-> name, keys |-> keys]

\* c1 watches and runs transactions while c2 writes
KeyWatching ==
    [commands |-> [c1 |-> {KeyC("multi"), KeyC("exec"), KeyC("bad"), KeyK("watch", "x"), KeyK("get", "x"),
                           KeyKV("set", "y", 1), [name |-> "swapdb", d |-> 0, e |-> 1]},
                   c2 |-> {KeyKV("set", "x", 2), KeyK("del", "x"), KeyKJ("rename", "x", "y"),
                           KeyC("flushdb"), [name |-> "expire", k |-> "x", ttl |-> 1]},
                   c3 |-> {}],
     steps |-> 6, ticks |-> 2, evicts |-> FALSE, leaves |-> FALSE]

\* three clients block on lists and on a sorted set of the same keys
KeyBlocking ==
    [commands |-> [c1 |-> {KeyKs("blpop", <<"x", "y">>), KeyKJ("brpoplpush", "x", "y")},
                   c2 |-> {KeyKs("blpop", <<"y">>), KeyKs("bzpopmin", <<"x">>), KeyKJ("brpoplpush", "y", "x")},
                   c3 |-> {KeyKV("lpush", "x", 1), KeyKV("zadd", "x", 1), KeyKV("set", "y", 1), KeyK("del", "y"),
                           KeyC("multi"), KeyC("exec"), KeyKJ("rename", "x", "y")}],
     steps |-> 6, ticks |-> 0, evicts |-> FALSE, leaves |-> TRUE]

\* transactions whose pushes serve blocked clients while others watch
KeyServed ==
    [commands |-> [c1 |-> {KeyKJ("brpoplpush", "x", "y"), KeyKs("blpop", <<"x">>)},
                   c2 |-> {KeyK("watch", "y"), KeyC("multi"), KeyC("exec"), KeyK("get", "y"), KeyC("discard"), KeyC("unwatch")},
                   c3 |-> {KeyKV("lpush", "x", 1), KeyKV("lpush", "x", 2), KeyC("multi"), KeyC("exec"), KeyK("rpop", "x")}],
     steps |-> 6, ticks |-> 0, evicts |-> FALSE, leaves |-> FALSE]

\* two databases, keys that expire, keys that are evicted
KeyExpiring ==
    [commands |-> [c1 |-> {[name |-> "expire", k |-> "x", ttl |-> 1], KeyKV("set", "x", 1), KeyK("persist", "x"),
                           [name |-> "move", k |-> "x", e |-> 1], KeyKJ("rename", "x", "y"),
                           [name |-> "expire", k |-> "y", ttl |-> 0], KeyKJ("rpoplpush", "x", "y"),
                           KeyKV("lpush", "x", 1), KeyK("get", "y"), KeyKV("set", "y", 2)},
                   c2 |-> {[name |-> "select", d |-> 1], [name |-> "swapdb", d |-> 0, e |-> 1],
                           KeyKs("blpop", <<"x">>)},
                   c3 |-> {}],
     steps |-> 5, ticks |-> 3, evicts |-> TRUE, leaves |-> FALSE]

\* sorted sets
KeySorted ==
    [commands |-> [c1 |-> {KeyKs("bzpopmin", <<"y", "x">>), KeyK("zpopmin", "x"), KeyK("lpop", "y")},
                   c2 |-> {KeyKs("bzpopmin", <<"x">>), KeyKV("zadd", "x", 2)},
                   c3 |-> {KeyKV("zadd", "x", 1), KeyKV("zadd", "x", 2), KeyKJ("rename", "x", "y"), KeyC("multi"),
                           KeyC("exec"), KeyK("del", "x")}],
     steps |-> 6, ticks |-> 0, evicts |-> FALSE, leaves |-> TRUE]

KeyScenarios == {KeyWatching, KeyBlocking, KeyServed, KeyExpiring, KeySorted}

-----------------------------------------------------------------------------
(* Small commands for Zset: three members, of which one is long.             *)

ZsetInf == 90
ZsetNegInf == -90
ZsetMembers == 1..3
ZsetFiniteScores == 0..1
ZsetSomeLevels == {<<1, 1, 2>>, <<2, 2, 1>>}

ZsetAdd(pairs) == [op |-> "zadd", pairs |-> pairs, nx |-> FALSE, xx |-> FALSE, incr |-> FALSE, ch |-> FALSE]

ZsetCommands ==
  {ZsetAdd(<<<<v, e>>>>) : v \in ZsetFiniteScores, e \in ZsetMembers}
  \cup {ZsetAdd(<<<<ZsetInf, 1>>, <<1, 2>>>>)}
  \cup {[ZsetAdd(<<<<1, 1>>>>) EXCEPT !.nx = TRUE]}
  \cup {[ZsetAdd(<<<<0, 2>>, <<0, 3>>>>) EXCEPT !.xx = TRUE, !.ch = TRUE]}
  \cup {[ZsetAdd(<<<<ZsetNegInf, 1>>>>) EXCEPT !.incr = TRUE]}
  \cup {[op |-> "zrem", members |-> m] : m \in {<<1>>, <<2, 1, 3>>}}
  \cup {[op |-> "zremrangebyrank", start |-> a, end |-> b] : a \in {1, -2}, b \in {-2}}
  \cup {[op |-> "zremrangebyscore",
         range |-> [by |-> "score", min |-> ZsetNegInf, minex |-> x, max |-> 0, maxex |-> ~x]] :
         x \in BOOLEAN}
  \cup {[op |-> "zpop", max |-> x, count |-> n] : x \in BOOLEAN, n \in {1, 2}}
  \cup {[op |-> o, srcs |-> <<<<"z", 1>>, <<p[1], 1>>>>, how |-> p[2]] :
          o \in {"zunionstore", "zinterstore"}, p \in {<<"set", "min">>, <<"zset", "sum">>}}
  \cup {[op |-> o, srcs |-> <<<<"z", 0>>, <<"z", 1>>>>, how |-> "sum"] :
          o \in {"zunionstore", "zinterstore"}}

ZsetOtherKeys == [set |-> [enc |-> "set", set |-> {1, 2}],
              zset |-> [enc |-> "ziplist", zl |-> <<<<2, 0>>, <<1, 90>>>>]]

-----------------------------------------------------------------------------
(* Small scenarios for Stream: the layout of the nodes, and consumer groups. *)


StreamOne == [fields |-> <<11>>, values |-> <<21>>]
StreamTwo == [fields |-> <<11, 12>>, values |-> <<22, 23>>]

StreamAdd(id, e, maxlen, approx) ==
  [op |-> "xadd", id |-> id, fields |-> e.fields, values |-> e.values,
   maxlen |-> maxlen, approx |-> approx]
StreamDel(ids) == [op |-> "xdel", ids |-> ids]
StreamTrim(n, approx) == [op |-> "xtrim", maxlen |-> n, approx |-> approx]

\* Entries of two shapes in nodes of two or three, deleted and trimmed
StreamLayout ==
  [cmds |-> {StreamAdd(NoKey, e, -1, FALSE) : e \in {StreamOne, StreamTwo}}
            \cup {StreamAdd(NoKey, StreamOne, 2, TRUE), StreamAdd(NoKey, StreamTwo, 1, FALSE), StreamAdd(<<1, 2>>, StreamTwo, -1, FALSE)}
            \cup {StreamDel(<<i>>) : i \in {<<1, 0>>, <<1, 1>>, <<1, 2>>, <<2, 0>>}}
            \cup {StreamDel(<<<<1, 1>>, <<1, 2>>, <<1, 1>>>>)}
            \cup {StreamTrim(1, FALSE), StreamTrim(2, TRUE), StreamTrim(0, FALSE)}
            \cup {[op |-> "xsetid", id |-> <<1, 3>>]},
   times |-> {1, 2}, length |-> 5,
   queries |-> {<<0, 0>>, <<1, 1>>, <<7, 7>>}]

StreamRead(c, id, count, noack, block) ==
  [op |-> "xreadgroup", g |-> "g", c |-> c, id |-> id, count |-> count, noack |-> noack,
   block |-> block]
StreamClaim(c, ids, minidle, time, retry, force, justid, lastid) ==
  [op |-> "xclaim", g |-> "g", c |-> c, ids |-> ids, minidle |-> minidle, time |-> time,
   retry |-> retry, force |-> force, justid |-> justid, lastid |-> lastid]

\* One group of two consumers
StreamGroups ==
  [cmds |-> {[op |-> "create", g |-> "g", id |-> i, mkstream |-> TRUE] : i \in {NoKey, <<0, 0>>}}
            \cup {StreamAdd(NoKey, StreamOne, -1, FALSE), StreamAdd(NoKey, StreamOne, 0, FALSE)}
            \cup {StreamRead("a", NoKey, 1, FALSE, FALSE), StreamRead("b", NoKey, 0, FALSE, TRUE),
                  StreamRead("b", NoKey, 0, TRUE, FALSE), StreamRead("a", <<0, 0>>, 0, FALSE, FALSE)}
            \cup {StreamClaim("b", <<<<1, 0>>, <<1, 1>>>>, 0, -1, -1, FALSE, FALSE, <<0, 0>>),
                  StreamClaim("b", <<<<1, 0>>>>, 1, 1, 5, TRUE, TRUE, <<0, 0>>),
                  StreamClaim("a", <<<<1, 1>>>>, 0, -1, -1, TRUE, FALSE, <<1, 1>>)}
            \cup {[op |-> "xack", g |-> "g", ids |-> <<<<1, 1>>, <<1, 0>>>>]}
            \cup {[op |-> "setid", g |-> "g", id |-> i] : i \in {NoKey, <<0, 0>>}}
            \cup {[op |-> "destroy", g |-> "g"], [op |-> "delconsumer", g |-> "g", c |-> "a"]}
            \cup {StreamDel(<<<<1, 0>>>>)},
   times |-> {1, 2}, length |-> 6,
   queries |-> {<<0, 0>>, <<7, 7>>}]

StreamScenarios == {StreamLayout, StreamGroups}

-----------------------------------------------------------------------------
(* Small lists for Quicklist: two elements to a node by count, or by bytes.  *)

ListWeights == <<3, 5>>

ListPush(v, w) == [op |-> "push", v |-> v, where |-> w]
ListPop(w) == [op |-> "pop", where |-> w]
ListInsert(p, v, a) == [op |-> "linsert", pivot |-> p, v |-> v, after |-> a]

ListCommon == {ListPush(1, "head"), ListPush(2, "tail"), ListPop("head"), ListPop("tail"),
           [op |-> "rpoplpush"], [op |-> "reload"]}
ListMiddle == {ListInsert(1, 2, TRUE), ListInsert(2, 1, FALSE), [op |-> "lset", idx |-> -2, v |-> 1],
           [op |-> "lindex", idx |-> 2]}
ListAcross == {[op |-> "lrem", v |-> 1, n |-> 2], [op |-> "lrem", v |-> 2, n |-> -1],
           [op |-> "lrem", v |-> 1, n |-> 0],
           [op |-> "ltrim", start |-> 1, end |-> -2], [op |-> "ltrim", start |-> -3, end |-> 9],
           [op |-> "lrange", start |-> 1, end |-> -2]}

ListCommands == ListCommon \cup ListMiddle \cup ListAcross

ListScenarios ==
  {[fill |-> 3, compress |-> 1, max |-> 5],
   [fill |-> 1, compress |-> 2, max |-> 6],
   [fill |-> -1, compress |-> 1, max |-> 5]}

-----------------------------------------------------------------------------
(* Small lists for Ziplist: strings around the length at which the entry     *)
(* that follows needs the wide field, and the integers at the end of every   *)
(* encoding, whose widths are two to six bits.                               *)

ZiplistStr(len) == [int |-> FALSE, len |-> len, n |-> 1]
ZiplistNum(n) == [int |-> TRUE, n |-> n]

ZiplistWidths == <<2, 3, 4, 5, 6>>
ZiplistImmMost == 2

ZiplistLengths == {ZiplistNum(1), ZiplistStr(250), ZiplistStr(252)}
ZiplistCascades == [values |-> ZiplistLengths, max |-> 6, others |-> {<<ZiplistStr(252), ZiplistStr(250)>>, <<ZiplistNum(1)>>},
             ranges |-> {<<0, 1>>, <<-1, 1>>, <<1, 2>>, <<-2, 1>>}]
ZiplistEncodings == [values |-> {ZiplistNum(n) : n \in -32..31} \cup {ZiplistStr(0), ZiplistStr(64), ZiplistStr(16384)}, max |-> 1,
              others |-> {}, ranges |-> {<<0, 1>>}]
ZiplistCounted == [values |-> {ZiplistNum(1)}, max |-> 7, others |-> {<<ZiplistNum(1), ZiplistNum(1)>>}, ranges |-> {<<0, 2>>, <<-1, 1>>}]

ZiplistScenarios == {ZiplistCascades, ZiplistEncodings, ZiplistCounted}

-----------------------------------------------------------------------------
(* Small lists for Listpack: the integers and lengths at the boundaries.     *)

ListpackStr(len) == [int |-> FALSE, len |-> len, n |-> 1]
ListpackNum(n) == [int |-> TRUE, n |-> n]

ListpackEdges == {ListpackNum(n) : n \in {0, 127, 128, -1, 4095, 4096, -4096, -4097, 32767, 32768, -32768,
                          -32769, 8388607, -8388608}}
         \cup {ListpackStr(n) : n \in {0, 63, 64, 125, 126, 4095, 4096, 16377, 16378, 16379, 2097145,
                               2097146, 2097147}}

ListpackScenarios == {[values |-> ListpackEdges, max |-> 2],
                 [values |-> {ListpackNum(1), ListpackStr(126), ListpackStr(16378)}, max |-> 5]}

-----------------------------------------------------------------------------
(* Small sets of keys for Rax: prefixes, forks inside compressed nodes.      *)

RaxNested == {<<>>, <<2>>, <<2, 1, 1>>, <<2, 1, 1, 2>>, <<2, 1, 3>>}
RaxForked == {<<1, 2, 2, 2>>, <<1, 2, 1>>, <<1, 2, 2, 2, 3>>, <<3>>, <<1, 2>>, <<1>>}
RaxWide == {<<1, 1>>, <<1, 3>>, <<1, 2, 2>>, <<2, 2, 2>>, <<1, 2>>}

RaxScenarios ==
  {[keys |-> k, values |-> {1}, walk |-> TRUE] : k \in {RaxNested, RaxForked, RaxWide}}
  \cup {[keys |-> {<<1>>, <<1, 2, 1>>, <<1, 2>>}, values |-> {1, 2}, walk |-> FALSE]}

-----------------------------------------------------------------------------
(* Small databases for SetType.  Widths are scaled: 2 bits, 4 bits, more.    *)

SetLimits == [w \in 1..3 |-> 2^(2 * w - 1)]

SetI(n) == <<1, n>>
SetT(n) == <<0, n>>
SetNoSet == [enc |-> 0, ints |-> <<>>, ht |-> {}]
SetString == [enc |-> 5, ints |-> <<>>, ht |-> {}]

SetEmpty == [a |-> SetNoSet, b |-> SetNoSet, c |-> SetNoSet]

SetScenarios ==
  {\* one set grows and shrinks over every width
   [db |-> [a |-> SetNoSet], keys |-> {"a"}, members |-> {SetI(0), SetI(1), SetI(-3), SetI(7), SetI(-9), SetT(1)},
    cmds |-> {"sadd", "srem", "query"}, counts |-> {1, 2, 3, -2}],
   \* popping
   [db |-> [a |-> SetNoSet], keys |-> {"a"}, members |-> {SetI(0), SetI(1), SetI(-9), SetT(1), SetT(2)},
    cmds |-> {"sadd", "spop"}, counts |-> {0, 1, 2, 3, 4, 5}],
   \* several sets
   [db |-> SetEmpty, keys |-> {"a", "b", "c"}, members |-> {SetI(-9), SetT(1)},
    cmds |-> {"sadd", "smove", "store"}, counts |-> {}],
   \* a set much larger than those it is compared with
   [db |-> [a |-> [SetNoSet EXCEPT !.enc = 4, !.ht = {SetI(1), SetI(2), SetI(3), SetI(-9), SetT(1), SetT(2)}],
            b |-> [SetNoSet EXCEPT !.enc = 1, !.ints = <<1>>], c |-> SetNoSet],
    keys |-> {"a", "b", "c"}, members |-> {SetI(1), SetT(1)}, cmds |-> {"sadd", "srem", "store"}, counts |-> {}],
   [db |-> [a |-> SetNoSet, b |-> SetString], keys |-> {"a", "b"}, members |-> {SetI(1), SetI(2), SetT(1)},
    cmds |-> {"sadd", "srem", "smove", "spop", "query", "store"}, counts |-> {1, 2}]}

-----------------------------------------------------------------------------
(* Small databases for HashType: fields that are also values, long strings.  *)

HashI(n) == <<"int", n, 1>>
HashShort == <<"str", 1, 1>>
HashLong == <<"str", 2, 9>>
HashNoHash == [enc |-> "none", zl |-> <<>>, ht |-> <<>>]
HashString == [HashNoHash EXCEPT !.enc = "str"]

HashScenarios ==
  {[db |-> [a |-> HashNoHash], keys |-> {"a"}, fields |-> {HashI(1), HashShort, HashI(2)}, values |-> {HashShort, HashI(2)},
    incrs |-> {}, cmds |-> {"hset", "hsetnx", "hdel", "read"}],
   [db |-> [a |-> HashNoHash], keys |-> {"a"}, fields |-> {HashI(1), HashShort}, values |-> {HashI(1), HashLong},
    incrs |-> {}, cmds |-> {"hset", "hsetnx", "hdel", "read"}],
   [db |-> [a |-> HashNoHash, b |-> HashString], keys |-> {"a", "b"}, fields |-> {HashI(1), HashShort},
    values |-> {HashShort, HashI(7), HashI(-8)}, incrs |-> {-8, -1, 1, 7}, cmds |-> {"hsetnx", "hincrby", "hdel", "read"}],
   [db |-> [a |-> HashNoHash], keys |-> {"a"}, fields |-> {HashI(1), HashI(2), HashShort}, values |-> {HashShort, HashI(1)},
    incrs |-> {}, cmds |-> {"hsetnx", "hincrbyfloat", "hdel", "read"}]}

-----------------------------------------------------------------------------
(* Few registers and hashes for HyperLogLog.                                *)

HllNoHll == [enc |-> "none", ops |-> <<>>, bytes |-> <<>>, card |-> [val |-> 0, len |-> 0, long |-> FALSE]]
HllStr == [HllNoHll EXCEPT !.enc = "str"]

HllH(index, count) == index + 8 * 2^(count - 1)

HllScenarios ==
  {[keys |-> {"a"}, db |-> [a |-> HllNoHll],
    elements |-> {HllH(i, c) : i \in 2..5, c \in 1..2} \cup {HllH(7, 1), HllH(0, 4), HllH(3, 5)}],
   [keys |-> {"a", "b"}, db |-> [a |-> HllNoHll, b |-> HllNoHll], elements |-> {HllH(1, 1), HllH(2, 1), HllH(6, 2), HllH(5, 4)}],
   [keys |-> {"a", "b"}, db |-> [a |-> HllNoHll, b |-> HllStr], elements |-> {HllH(1, 1), HllH(7, 3)}]}

-----------------------------------------------------------------------------
(* Small databases of strings.  Bytes have three bits: 0 is NUL, 1 to 3 are the digits of   *)
(* numerals of base 3, 4 is the minus sign, the others are plain characters.                *)

StringsNoKey == [kind |-> "none", id |-> 0, obj |-> [enc |-> "raw", num |-> 0, bytes |-> <<>>], ttl |-> FALSE]
StringsRawOf(b) == [StringsNoKey EXCEPT !.kind = "own", !.obj.bytes = b]
StringsOtherType == [StringsNoKey EXCEPT !.kind = "other"]

\* Numerals: 1, -1, 31 (the largest), -32; leading zeros and other texts
StringsOne == <<2>>
StringsMinusOne == <<4, 2>>
StringsLargest == <<2, 1, 2, 2>>
StringsSmallest == <<4, 2, 1, 2, 3>>
StringsPadded == <<1, 2>>

StringsField(op, sign, bits, off, arg, ow) == [op |-> op, sign |-> sign, bits |-> bits, off |-> off, arg |-> arg, ow |-> ow]

StringsTexts == UNION {[1..n -> {0, 1, 2, 3, 4}] : n \in 0..4} \cup {<<3>> \o t : t \in [1..4 -> {1, 3}]} \cup {<<4>> \o t : t \in [1..5 -> {1, 2, 3}]}
StringsPatterns == UNION {[1..n -> {0, 5, 7}] : n \in 0..5}

StringsBase0 == [keys |-> {"a", "b"}, db |-> [a |-> StringsNoKey, b |-> StringsNoKey], cmds |-> {}, vals |-> {}, expires |-> {FALSE},
          offsets |-> {}, ints |-> {}, fields |-> {}, sources |-> {}, targets |-> {}, texts |-> {}, patterns |-> {},
          share |-> TRUE, pure |-> FALSE]

StringsScenarios ==
  {[StringsBase0 EXCEPT !.cmds = {"set", "incr", "append", "setrange"}, !.vals = {StringsOne}, !.ints = {30, -30},
                 !.offsets = {-1, 1}, !.share = sh] : sh \in BOOLEAN}
  \cup
  {[StringsBase0 EXCEPT !.cmds = {"set", "getset", "mset", "incr"}, !.vals = {StringsOne, StringsLargest, StringsSmallest}, !.ints = {1, 31, -32},
                 !.expires = {TRUE, FALSE}, !.keys = {"a"}, !.db = [a |-> StringsNoKey]],
   [StringsBase0 EXCEPT !.cmds = {"getset", "append", "incr", "incrbyfloat", "setrange", "setbit", "bitfield"}, !.offsets = {2},
                 !.fields = {<<StringsField("set", TRUE, 3, 1, 2, "wrap")>>}, !.vals = {StringsPadded, StringsMinusOne}, !.ints = {30, -31},
                 !.db = [a |-> StringsNoKey, b |-> StringsOtherType]],
   [StringsBase0 EXCEPT !.cmds = {"set", "getset", "incr", "incrbyfloat", "setbit"}, !.vals = {StringsOne}, !.ints = {30, -31}, !.offsets = {2},
                 !.expires = {TRUE, FALSE}, !.keys = {"a"}, !.db = [a |-> StringsNoKey]],
   [StringsBase0 EXCEPT !.cmds = {"setbit", "bitfield", "incr"}, !.keys = {"a"}, !.db = [a |-> StringsRawOf(<<2>>)], !.ints = {1},
                 !.offsets = {0, 4},
                 !.fields = {<<StringsField("incrby", TRUE, 4, 1, 5, ow), StringsField("get", FALSE, 5, 2, 0, ow)>> : ow \in {"wrap", "sat", "fail"}}
                            \cup {<<StringsField("get", TRUE, 5, 5, 0, "wrap")>>,
                                  <<StringsField("set", FALSE, 3, 2, -1, "sat"), StringsField("set", TRUE, 2, 0, 3, "fail")>>}],
   [StringsBase0 EXCEPT !.cmds = {"bitop"}, !.targets = {"c", "x"}, !.keys = {"a", "b", "c", "x"},
                 !.db = [a |-> StringsRawOf(<<5, 3, 0, 7, 6>>), b |-> StringsRawOf(<<6, 6, 1, 2>>), c |-> StringsNoKey, x |-> StringsOtherType],
                 !.sources = {<<"a">>, <<"c">>, <<"a", "b">>, <<"b", "a">>, <<"a", "c", "b">>, <<"a", "x">>}],
   [StringsBase0 EXCEPT !.pure = TRUE, !.texts = StringsTexts, !.patterns = StringsPatterns]}
=============================================================================
