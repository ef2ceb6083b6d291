------------------------------- MODULE MCServing -------------------------------
(* Small instances of the parts of a server around the data.                 *)
EXTENDS Integers, Sequences

-----------------------------------------------------------------------------
(* Strings and numbers for the codec, and databases with every encoding.     *)

RdbZero == 16
RdbPlain == [strings |-> {}, numbers |-> {}, garbage |-> 0, dbs |-> <<>>, dbnum |-> 2, replid |-> <<>>, replica |-> FALSE,
          now |-> 5, maxEntries |-> 2, maxValue |-> 2, checksum |-> TRUE]

RdbTexts == UNION {[1..n -> {0, 15, RdbZero, RdbZero + 1, 7}] : n \in 0..3}
RdbLonger == UNION {[1..n -> {1, 2}] : n \in 9..10}
RdbRun(n, x) == [i \in 1..n |-> x]
RdbRuns == {RdbRun(n, 1) : n \in 11..60} \cup {<<2>> \o [i \in 1..n |-> i % 3] : n \in 10..60}
          \cup {[i \in 1..n |-> (i * i) % 7] : n \in 20..40}
RdbApart == {<<7, 1, 2, 3>> \o [i \in 1..n |-> 10 + (i % 20)] \o <<1, 2, 3, 9, 1, 2, 3, 9>> : n \in 122..130}
RdbEdges == {0, 1, 7, 8, 255, 256, 257, 1023, 1024, 1025, 16383, 16384, 16385, -1, -16, -17, 15, 16, -512, -513, 511, 512, -16384, -16385}

RdbStr(t) == [type |-> "string", enc |-> "raw", val |-> t]
RdbNumber(n) == [type |-> "string", enc |-> "int", val |-> n]
RdbList(nodes) == [type |-> "list", enc |-> "quicklist", val |-> nodes]
RdbColl(type, enc, val) == [type |-> type, enc |-> enc, val |-> val]
RdbR(k, o, expire, idle) == [key |-> <<k>>, o |-> o, expire |-> expire, idle |-> idle]
RdbA == <<8>>
RdbL3 == <<8, 9, 8>>
RdbN1 == <<RdbZero + 1>>
RdbN2 == <<RdbZero + 2>>

RdbDb1 == <<RdbR(1, RdbStr(RdbL3), 4, -1), RdbR(2, RdbStr(<<>>), -1, -1), RdbR(3, RdbNumber(700), 5, 3),
         RdbR(4, RdbList(<<[lzf |-> FALSE, q |-> <<RdbA, <<>>>>], [lzf |-> TRUE, q |-> <<RdbRun(12, 3), RdbN1>>]>>), -1, 9)>>
RdbDb2 == <<RdbR(1, RdbColl("set", "intset", <<RdbN1, RdbN2>>), -1, -1), RdbR(2, RdbColl("set", "ht", <<RdbN1, RdbA, RdbL3>>), 7, -1),
         RdbR(RdbZero, RdbColl("set", "ht", <<RdbN1, RdbN2>>), -1, -1), RdbR(4, RdbColl("zset", "ziplist", <<<<RdbA, RdbN1>>, <<RdbN2, RdbN2>>>>), -1, -1),
         RdbR(5, RdbColl("zset", "skiplist", <<<<RdbA, RdbN1>>, <<RdbL3, RdbN2>>>>), 3, -1)>>
RdbDb3 == <<RdbR(1, RdbColl("zset", "skiplist", <<<<RdbA, RdbN1>>, <<RdbN2, RdbN2>>>>), -1, -1), RdbR(2, RdbColl("hash", "ziplist", <<<<RdbA, RdbN1>>>>), -1, 0),
         RdbR(3, RdbColl("hash", "ht", <<<<RdbA, RdbL3>>, <<RdbN1, RdbA>>>>), -1, -1), RdbR(4, RdbColl("hash", "ziplist", <<<<RdbA, RdbN1>>, <<RdbN1, RdbA>>>>), -1, -1)>>

RdbScenarios ==
  {[RdbPlain EXCEPT !.strings = RdbTexts \cup RdbLonger \cup RdbRuns \cup RdbApart, !.numbers = RdbEdges, !.garbage = g] : g \in {0, 2}}
    \cup {[RdbPlain EXCEPT !.dbs = dbs, !.replica = r, !.replid = IF r THEN RdbL3 ELSE <<>>, !.maxEntries = m, !.checksum = r \/ m = 2]
            : dbs \in {<<RdbDb1>>, <<<<>>, RdbDb2>>, <<RdbDb3, RdbDb1>>}, r \in BOOLEAN, m \in {1, 2}}

-----------------------------------------------------------------------------
(* Scripts that write before and after random commands, by their effects or  *)
(* as a whole, fail, loop, or keep writes from some.                          *)

ScriptsSet(k, v) == [op |-> "set", k |-> k, v |-> v, protected |-> FALSE]
ScriptsPSet(k, v) == [op |-> "set", k |-> k, v |-> v, protected |-> TRUE]
ScriptsOp(op) == [op |-> op]
ScriptsRepl(to) == [op |-> "repl", to |-> to]
ScriptsBoth == {"rep", "aof"}

ScriptsScript == <<
  <<ScriptsSet(1, 5)>>,
  <<ScriptsOp("random"), ScriptsPSet(1, 0), ScriptsOp("effects"), ScriptsPSet(1, 0), ScriptsSet(2, 6)>>,
  <<ScriptsSet(2, 5), ScriptsOp("effects"), ScriptsOp("random"), ScriptsPSet(1, 0), ScriptsSet(2, 0), ScriptsSet(1, 7)>>,
  <<ScriptsOp("effects"), ScriptsRepl({"aof"}), ScriptsSet(1, 6), ScriptsRepl({}), ScriptsSet(2, 6), ScriptsOp("get"), ScriptsRepl(ScriptsBoth), ScriptsSet(2, 7)>>,
  <<ScriptsOp("get"), ScriptsOp("loop"), ScriptsSet(1, 8), ScriptsOp("loop"), ScriptsSet(2, 5)>>,
  <<ScriptsOp("get"), ScriptsSet(1, 6), ScriptsOp("get"), ScriptsSet(2, 7), ScriptsRepl({}), ScriptsSet(1, 7)>>,
  <<ScriptsOp("get"), ScriptsOp("random"), ScriptsOp("fail"), ScriptsSet(1, 5)>>,
  <<ScriptsOp("effects"), ScriptsOp("random"), ScriptsRepl({}), ScriptsOp("get")>>,
  <<ScriptsPSet(1, 5), ScriptsSet(2, 6)>> >>

ScriptsPlain == [ops |-> 4, shas |-> {}, txs |-> {FALSE}, always |-> FALSE, readonly |-> FALSE, oom |-> FALSE, replies |-> {}]
ScriptsAtoms == {[t |-> "null"], [t |-> "int", v |-> 3], [t |-> "bulk", v |-> 1], [t |-> "ok", v |-> 1], [t |-> "err", v |-> 2]}
ScriptsMulti(set) == {[t |-> "multi", q |-> q] : q \in UNION {[1..n -> set] : n \in 0..3}}
ScriptsReplies == ScriptsAtoms \cup ScriptsMulti(ScriptsAtoms) \cup ScriptsMulti({[t |-> "null"], [t |-> "multi", q |-> <<[t |-> "null"], [t |-> "int", v |-> 1]>>]})

ScriptsScenarios ==
  {[ScriptsPlain EXCEPT !.shas = {1, i}] : i \in 2..8}
    \cup {[ScriptsPlain EXCEPT !.shas = {1, i}, !.ops = 3, !.txs = BOOLEAN] : i \in {2, 4}}
    \cup {[ScriptsPlain EXCEPT !.shas = {3, 4}, !.ops = 3, !.txs = BOOLEAN, !.always = TRUE],
          [ScriptsPlain EXCEPT !.shas = {2, 6}, !.ops = 3, !.oom = TRUE],
          [ScriptsPlain EXCEPT !.shas = {9}, !.ops = 2, !.oom = TRUE],
          [ScriptsPlain EXCEPT !.shas = {6}, !.ops = 2, !.readonly = TRUE],
          [ScriptsPlain EXCEPT !.ops = 0, !.replies = ScriptsReplies]}

-----------------------------------------------------------------------------
(* A second connection beside one write, or three writes on one connection.  *)

TransferScenarios ==
  {[by |-> by, conns |-> n, writes |-> 5 - 2 * n] : by \in {"socket", "disk"}, n \in 1..2}

-----------------------------------------------------------------------------
(* Three keys in two databases, small and large values, policies that change. *)

EvictionKey(size, idle, vol) == [size |-> size, idle |-> idle, vol |-> vol]
EvictionPlain == [ops |-> 3, max |-> 3, overhead |-> 0, lazy |-> FALSE, sizes |-> {1, 3}, policies |-> {"allkeys-lru"},
          keys |-> <<EvictionKey(2, 1, TRUE), EvictionKey(1, 2, FALSE), EvictionKey(3, 0, TRUE)>>]

EvictionScenarios ==
  {[EvictionPlain EXCEPT !.policies = ps, !.lazy = lazy] :
     ps \in {{"allkeys-lru", "volatile-lru"}, {"volatile-random", "noeviction"}, {"allkeys-random"}}, lazy \in BOOLEAN}
    \cup {[EvictionPlain EXCEPT !.policies = {"volatile-lru"}, !.overhead = 2, !.sizes = {3}]}

-----------------------------------------------------------------------------
(* Masters, one whose clients are paused now and then and one with tables     *)
(* that are almost empty, and a writable replica.                            *)

ExpiryScenarios ==
  {[role |-> "master", sparse |-> FALSE, pause |-> TRUE, ops |-> 2],
   [role |-> "master", sparse |-> TRUE, pause |-> FALSE, ops |-> 2],
   [role |-> "replica", sparse |-> FALSE, pause |-> FALSE, ops |-> 3]}

-----------------------------------------------------------------------------
(* Replies of several sizes, limits, subscriptions, monitors, scripts.       *)

ClientsC(name, field, value) == [k \in {"name", field} |-> IF k = "name" THEN name ELSE value]
ClientsGet(pieces) == ClientsC("get", "pieces", pieces)
ClientsPlain(name) == ClientsC(name, "ch", "a")
ClientsSc(clients, steps, cmds) ==
  [clients |-> clients, steps |-> steps, cmds |-> cmds, accepts |-> clients, hard |-> 0, soft |-> 0, seconds |-> 0,
   quit |-> FALSE, hangup |-> FALSE, demote |-> FALSE]

ClientsScenarios ==
  {[ClientsSc(1, 3, {ClientsGet(<<1, 1>>), ClientsGet(<<2, 3>>), ClientsC("channels", "n", 1), ClientsC("channels", "n", 3)}) EXCEPT !.quit = TRUE],
   [ClientsSc(1, 3, {ClientsGet(<<2, 3>>), ClientsC("channels", "n", 2)}) EXCEPT !.hard = 10, !.soft = 4, !.seconds = 1],
   [ClientsSc(1, 4, {ClientsGet(<<1>>), ClientsC("reply", "mode", "on"), ClientsC("reply", "mode", "off"), ClientsC("reply", "mode", "skip")}) EXCEPT !.hangup = TRUE],
   [ClientsSc(2, 3, {ClientsPlain("subscribe"), ClientsPlain("unsubscribe"), ClientsC("psubscribe", "ch", "*"), ClientsPlain("punsubscribe"), ClientsPlain("publish")})
      EXCEPT !.hangup = TRUE],
   ClientsSc(2, 3, {ClientsPlain("subscribe"), ClientsC("kill", "who", 1), ClientsPlain("monitor"), ClientsPlain("slow"), ClientsPlain("publish"), ClientsGet(<<2>>)}),
   [ClientsSc(2, 3, {ClientsPlain("block"), ClientsC("unblock", "who", 1), ClientsC("kill", "who", 2), ClientsPlain("monitor"), ClientsGet(<<2>>)})
      EXCEPT !.demote = TRUE, !.hard = 4]}

-----------------------------------------------------------------------------
(* Streams of requests, a master's stream, streams that end in garbage.      *)

ProtocolM(argv) == [form |-> "multi", argv |-> argv]
ProtocolQ(argv) == [form |-> "quoted", argv |-> argv]
ProtocolI(argv) == [form |-> "inline", argv |-> argv]
ProtocolSc(reqs, tail, master, may) == [reqs |-> reqs, tail |-> tail, master |-> master, may |-> may, quotes |-> {}]

ProtocolBig == <<"a", "CR", "LF", "$">>
ProtocolStrings == UNION {[1..n -> {"a", "\"", "\\", "'", " ", "n", "LF", "NUL", "x", "0"}] : n \in 0..3}

ProtocolScenarios ==
  {ProtocolSc(<<ProtocolM(<<<<"s">>, ProtocolBig>>), ProtocolM(<<<<"s">>, <<>>>>), ProtocolI(<<<<"g">>>>)>>, <<>>, FALSE, {"pause", "hangup"}),
   ProtocolSc(<<ProtocolM(<<<<"b">>>>), ProtocolI(<<>>), ProtocolM(<<<<"s">>, <<"a">>>>), ProtocolQ(<<<<" ">>, <<>>>>), ProtocolI(<<<<"g">>>>)>>, <<>>, FALSE, {"pause"}),
   ProtocolSc(<<ProtocolM(<<<<"m">>>>), ProtocolM(<<<<"s">>, ProtocolBig>>), ProtocolI(<<>>), ProtocolM(<<<<"e">>>>), ProtocolM(<<<<"s">>>>)>>, <<>>, TRUE, {"slow"}),
   ProtocolSc(<<ProtocolM(<<<<"s">>, ProtocolBig>>), ProtocolM(<<ProtocolBig>>)>>, <<"*", "1", "CR", "LF", "a", "1", "CR", "LF">>, FALSE, {}),
   ProtocolSc(<<ProtocolI(<<<<"g">>>>)>>, <<"g", " ", "\"", "a", "LF", "g", "LF">>, FALSE, {}),
   ProtocolSc(<<ProtocolI(<<<<"g">>>>)>>, <<"*", "1", "0", "CR", "LF">>, FALSE, {}),
   ProtocolSc(<<ProtocolI(<<<<"g">>>>), ProtocolM(<<<<"q">>>>)>>, <<"g", "LF">>, FALSE, {}),
   ProtocolSc(<<ProtocolI(<<<<"k">>>>)>>, <<"g", "LF">>, FALSE, {}),
   ProtocolSc(<<ProtocolI(<<<<"g">>>>)>>, <<"*", "-", "1", "CR", "LF", "a", "a", "a", "a", "a", "a", "a", "a", "a">>, FALSE, {}),
   [ProtocolSc(<<>>, <<>>, FALSE, {}) EXCEPT !.quotes = ProtocolStrings]}
=============================================================================
