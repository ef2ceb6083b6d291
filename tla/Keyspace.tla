------------------------------ MODULE Keyspace ------------------------------
(***************************************************************************)
(* The command path of a Redis server: the key space with expires (db.c,   *)
(* expire.c), transactions and WATCH (multi.c), clients blocked on keys    *)
(* (blocked.c, the blocking commands of t_list.c and t_zset.c), eviction   *)
(* of a key (evict.c) and what is propagated to the append only file       *)
(* (server.c, aof.c).                                                      *)
(*                                                                         *)
(* The server is single threaded: one action is one command with           *)
(* everything call() and handleClientsBlockedOnKeys() do for it.  S is the *)
(* state of a server; the operators of the commands take and return one.   *)
(* S.aof is the server that loading the append only file would produce: it *)
(* executes what the master propagates with the same operators.            *)
(***************************************************************************)
EXTENDS Integers, Sequences, SequencesExt, FiniteSets

CONSTANTS
    Keys, Dbs, Clients,
    Scenarios,      \* [commands, clients, steps, ticks]: what clients send
    None

VARIABLE s

-----------------------------------------------------------------------------
(* The key space: db.c, expire.c. *)

Str(x)  == [t |-> "string", v |-> x]
List(q) == [t |-> "list", v |-> q]
Zset(q) == [t |-> "zset", v |-> q]         \* scores in order

Type(S, d, k) == IF S.db[d][k] = None THEN "none" ELSE S.db[d][k].t

\* propagate and alsoPropagate: what goes to the file, in this order
Propagate(S, d, cmd) == [S EXCEPT !.out = Append(@, <<d, cmd>>)]

\* touchWatchedKey
Touch(S, d, k) ==
    [S EXCEPT !.cl = [c \in DOMAIN @ |->
        IF <<d, k>> \in @[c].watch THEN [@[c] EXCEPT !.cas = TRUE] ELSE @[c]]]

\* signalKeyAsReady: once per key, and only when somebody waits for it
SignalReady(S, d, k) ==
    IF S.bk[d][k] = <<>> \/ Contains(S.ready, <<d, k>>) THEN S
    ELSE [S EXCEPT !.ready = Append(@, <<d, k>>)]

DbAdd(S, d, k, v) ==
    LET T == [S EXCEPT !.db[d][k] = v]
    IN  IF v.t \in {"list", "zset"} THEN SignalReady(T, d, k) ELSE T

DbDelete(S, d, k) == [S EXCEPT !.db[d][k] = None, !.exp[d][k] = None]

\* keyIsExpired; a server that loads its file expires nothing
KeyIsExpired(S, d, k) == S.exp[d][k] # None /\ ~S.loading /\ S.now > S.exp[d][k]

\* Mutant: the DEL of an expired key is not propagated
ExpireIfNeededSilently(S, d, k) ==
    IF KeyIsExpired(S, d, k) THEN DbDelete(S, d, k) ELSE S

ExpireIfNeeded(S, d, k) ==
    IF KeyIsExpired(S, d, k)
      THEN DbDelete(Propagate(S, d, [name |-> "del", k |-> k]), d, k)
      ELSE S

SetKey(S, d, k, v) ==
    LET T == ExpireIfNeeded(S, d, k)
        U == IF T.db[d][k] = None THEN DbAdd(T, d, k, v)
             ELSE [T EXCEPT !.db[d][k] = v]
    IN  Touch([U EXCEPT !.exp[d][k] = None], d, k)

Dirty(S) == [S EXCEPT !.dirty = TRUE]

\* rewriteClientCommandVector
Rewrite(S, cmd) == [S EXCEPT !.argv = cmd]

Del(S, d, k) ==
    LET T == ExpireIfNeeded(S, d, k)
    IN  IF T.db[d][k] = None THEN T ELSE Dirty(Touch(DbDelete(T, d, k), d, k))

Rename(S, d, k, j) ==
    LET T == ExpireIfNeeded(S, d, k)
        o == T.db[d][k]
        U == ExpireIfNeeded(T, d, j)
        V == DbAdd(DbDelete(U, d, j), d, j, o)
        W == DbDelete([V EXCEPT !.exp[d][j] = T.exp[d][k]], d, k)
    IN  IF o = None \/ k = j THEN T ELSE Dirty(Touch(Touch(W, d, k), d, j))

\* moveCommand touches no watched key
Move(S, d, k, e) ==
    LET T == ExpireIfNeeded(S, d, k)
        o == T.db[d][k]
        U == ExpireIfNeeded(T, e, k)
        V == [DbAdd(U, e, k, o) EXCEPT !.exp[e][k] = T.exp[d][k]]
    IN  IF d = e THEN S
        ELSE IF o = None THEN T
        ELSE IF U.db[e][k] # None THEN U
        ELSE Dirty(DbDelete(V, d, k))

\* scanDatabaseForReadyLists
ScanReady(S, d) ==
    LET waiting == {k \in Keys : S.bk[d][k] # <<>> /\ Type(S, d, k) \in {"list", "zset"}}
    IN  FoldSet(LAMBDA k, T : SignalReady(T, d, k), S, waiting)

\* dbSwapDatabases swaps the contents; blocked and watching clients stay
SwapDb(S, d, e) ==
    LET T == [S EXCEPT !.db = [@ EXCEPT ![d] = S.db[e], ![e] = S.db[d]],
                       !.exp = [@ EXCEPT ![d] = S.exp[e], ![e] = S.exp[d]]]
    IN  Dirty(ScanReady(ScanReady(T, d), e))

\* touchWatchedKeysOnFlush and emptyDb
FlushDb(S, d) ==
    LET keys == {k \in Keys : S.db[d][k] # None}
        T == FoldSet(LAMBDA k, U : Touch(U, d, k), S, keys)
        U == FoldSet(LAMBDA k, V : DbDelete(V, d, k), T, keys)
    IN  IF keys = {} THEN S ELSE Dirty(U)

\* expireGenericCommand, with the absolute time; a time that is past
\* deletes.  feedAppendOnlyFile writes a PEXPIREAT.
Expire(S, d, k, at) ==
    LET T == ExpireIfNeeded(S, d, k)
    IN  IF T.db[d][k] = None THEN T
        ELSE IF at <= T.now /\ ~T.loading
          THEN Rewrite(Dirty(Touch(DbDelete(T, d, k), d, k)),
                       [name |-> "del", k |-> k])
          ELSE Rewrite(Dirty(Touch([T EXCEPT !.exp[d][k] = at], d, k)),
                       [name |-> "pexpireat", k |-> k, at |-> at])

\* persistCommand touches no watched key either
Persist(S, d, k) ==
    LET T == ExpireIfNeeded(S, d, k)
    IN  IF T.exp[d][k] = None THEN T ELSE Dirty([T EXCEPT !.exp[d][k] = None])

-----------------------------------------------------------------------------
(* Lists and sorted sets, as far as blocking commands need them. *)

PushTo(q, x, where) == IF where = "head" THEN <<x>> \o q ELSE Append(q, x)
Popped(q, where) == IF where = "head" THEN Tail(q) ELSE Front(q)
End(q, where) == IF where = "head" THEN Head(q) ELSE Last(q)

\* pushGenericCommand
Push(S, d, k, x, where) ==
    LET T == ExpireIfNeeded(S, d, k)
        U == IF T.db[d][k] = None THEN DbAdd(T, d, k, List(<<>>)) ELSE T
    IN  IF Type(T, d, k) \notin {"none", "list"} THEN T
        ELSE Dirty(Touch([U EXCEPT !.db[d][k].v = PushTo(@, x, where)], d, k))

DeleteIfEmpty(S, d, k) == IF S.db[d][k].v = <<>> THEN DbDelete(S, d, k) ELSE S

\* popGenericCommand, and ZPOPMIN, the head of a sorted set
Pop(S, d, k, where, type) ==
    LET T == ExpireIfNeeded(S, d, k)
        U == [T EXCEPT !.db[d][k].v = Popped(@, where)]
    IN  IF Type(T, d, k) # type THEN T
        ELSE Dirty(Touch(DeleteIfEmpty(U, d, k), d, k))

\* Mutant: the clients watching the destination are not told
HandlePushUntold(S, d, k, x) ==
    LET T == IF S.db[d][k] = None THEN DbAdd(S, d, k, List(<<>>)) ELSE S
    IN  [T EXCEPT !.db[d][k].v = PushTo(@, x, "head")]

\* rpoplpushHandlePush
HandlePush(S, d, k, x) ==
    LET T == IF S.db[d][k] = None THEN DbAdd(S, d, k, List(<<>>)) ELSE S
    IN  Touch([T EXCEPT !.db[d][k].v = PushTo(@, x, "head")], d, k)

RpopLpush(S, d, k, j) ==
    LET T == ExpireIfNeeded(S, d, k)
        U == ExpireIfNeeded(T, d, j)
        x == Last(U.db[d][k].v)
        V == HandlePush([U EXCEPT !.db[d][k].v = Front(@)], d, j, x)
    IN  IF Type(T, d, k) # "list" THEN T
        ELSE IF Type(U, d, j) \notin {"none", "list"} THEN U
        ELSE Rewrite(Dirty(Touch(DeleteIfEmpty(V, d, k), d, k)),
                     [name |-> "rpoplpush", k |-> k, j |-> j])

Zadd(S, d, k, x) ==
    LET T == ExpireIfNeeded(S, d, k)
        U == IF T.db[d][k] = None THEN DbAdd(T, d, k, Zset(<<>>)) ELSE T
        q == U.db[d][k].v
        pre == SelectSeq(q, LAMBDA y : y < x)
    IN  IF Type(T, d, k) \notin {"none", "zset"} THEN T
        ELSE IF Contains(q, x) THEN U
        ELSE Dirty(Touch([U EXCEPT !.db[d][k].v =
                            pre \o <<x>> \o SelectSeq(q, LAMBDA y : y > x)], d, k))

-----------------------------------------------------------------------------
(* Blocking: blocked.c. *)

\* blockForKeys
Block(S, c, keys, kind, where, dst) ==
    LET d == S.cl[c].db
        T == FoldSet(LAMBDA k, U : [U EXCEPT !.bk[d][k] = Append(@, c)],
                     S, ToSet(keys))
    IN  [T EXCEPT !.cl[c].block =
           [keys |-> ToSet(keys), kind |-> kind, where |-> where, dst |-> dst]]

\* Mutant: the client stays in the queues of the keys it waited for
UnblockKeepsQueues(S, c) == [S EXCEPT !.cl[c].block = None]

\* unblockClient, unblockClientWaitingData
Unblock(S, c) ==
    LET d == S.cl[c].db
        T == FoldSet(LAMBDA k, U : [U EXCEPT !.bk[d][k] = SelectSeq(@, LAMBDA x : x # c)],
                     S, S.cl[c].block.keys)
    IN  [T EXCEPT !.cl[c].block = None]

PopCommand(kind, where, k) ==
    [name |-> IF kind = "zset" THEN "zpopmin"
              ELSE IF where = "head" THEN "lpop" ELSE "rpop", k |-> k]

\* blockingPopGenericCommand, and BZPOPMIN: the keys in order until one has
\* an object; inside EXEC nobody blocks
BlockingPop(S, c, keys, kind, where) ==
    LET d     == S.cl[c].db
        live  == {i \in 1..Len(keys) : S.db[d][keys[i]] # None
                                       /\ ~KeyIsExpired(S, d, keys[i])}
        first == IF live = {} THEN Len(keys)
                 ELSE CHOOSE i \in live : \A j \in live : i <= j
        T == FoldLeft(LAMBDA U, k : ExpireIfNeeded(U, d, k), S, SubSeq(keys, 1, first))
        k == keys[first]
    IN  IF live # {}
          THEN IF Type(T, d, k) # kind THEN T
               ELSE Rewrite(Pop(T, d, k, where, kind), PopCommand(kind, where, k))
          ELSE IF T.cl[c].multi THEN T
          ELSE Block(T, c, keys, kind, where, None)

Brpoplpush(S, c, k, j) ==
    LET d == S.cl[c].db
        T == ExpireIfNeeded(S, d, k)
    IN  CASE Type(T, d, k) = "list" -> RpopLpush(T, d, k, j)
          [] Type(T, d, k) = "none" /\ ~T.cl[c].multi ->
               Block(T, c, <<k>>, "list", "tail", j)
          [] OTHER -> T

\* serveClientBlockedOnList, x already popped: when the destination of a
\* BRPOPLPUSH has a wrong type x is pushed back
ServeOnList(S, d, k, c, x) ==
    LET b == S.cl[c].block
        T == Unblock(S, c)
        U == ExpireIfNeeded(T, d, b.dst)
        V == Propagate(U, d, PopCommand("list", "tail", k))
    IN  IF b.dst = None
          THEN Propagate(T, d, PopCommand("list", b.where, k))
          ELSE IF Type(U, d, b.dst) \in {"none", "list"}
          THEN Propagate(HandlePush(V, d, b.dst, x), d,
                         [name |-> "lpush", k |-> b.dst, v |-> x])
          ELSE [U EXCEPT !.db[d][k].v = PushTo(@, x, b.where)]

\* Mutant: a client that waits for another type blocks the ones behind it
ServeOneStops(S, d, k) ==
    LET c == Head(S.bk[d][k])
        b == S.cl[c].block
        T == [S EXCEPT !.db[d][k].v = Popped(@, b.where)]
    IN  IF b.kind # Type(S, d, k) \/ S.db[d][k].v = <<>> THEN S
        ELSE IF b.kind = "list"
          THEN ServeOnList(T, d, k, c, End(S.db[d][k].v, b.where))
          ELSE Propagate(Touch(Unblock(T, c), d, k), d, PopCommand("zset", "head", k))

\* One client of the queue of k; a client that waits for another type goes
\* to the other end
ServeOne(S, d, k) ==
    LET c == Head(S.bk[d][k])
        b == S.cl[c].block
        T == [S EXCEPT !.db[d][k].v = Popped(@, b.where)]
    IN  IF b.kind # Type(S, d, k)
          THEN [S EXCEPT !.bk[d][k] = Append(Tail(@), c)]
          ELSE IF S.db[d][k].v = <<>> THEN S
          ELSE IF b.kind = "list"
          THEN ServeOnList(T, d, k, c, End(S.db[d][k].v, b.where))
          ELSE Propagate(Touch(Unblock(T, c), d, k), d, PopCommand("zset", "head", k))

RECURSIVE ServeKey(_, _, _, _)
ServeKey(S, d, k, n) ==
    IF n = 0 THEN DeleteIfEmpty(S, d, k)
    ELSE ServeKey(ServeOne(S, d, k), d, k, n - 1)

\* handleClientsBlockedOnKeys: until no key is ready, a BRPOPLPUSH served
\* may make another one ready
RECURSIVE ServeBlocked(_)
ServeBlocked(S) ==
    IF S.ready = <<>> THEN S
    ELSE LET d == Head(S.ready)[1]
             k == Head(S.ready)[2]
             T == ExpireIfNeeded([S EXCEPT !.ready = Tail(@)], d, k)
         IN  ServeBlocked(IF Type(T, d, k) \in {"list", "zset"}
                            THEN ServeKey(T, d, k, Len(T.bk[d][k])) ELSE T)

-----------------------------------------------------------------------------
(* Commands of a client: multi.c, server.c. *)

\* unwatchAllKeys
Unwatch(S, c) == [S EXCEPT !.cl[c].watch = {}]

\* c->cmd->proc(c), in the database of the client
Proc(S, c, cmd) ==
    LET d == S.cl[c].db
    IN  CASE cmd.name = "set"       -> Dirty(SetKey(S, d, cmd.k, Str(cmd.v)))
          [] cmd.name = "get"       -> ExpireIfNeeded(S, d, cmd.k)
          [] cmd.name = "del"       -> Del(S, d, cmd.k)
          [] cmd.name = "rename"    -> Rename(S, d, cmd.k, cmd.j)
          [] cmd.name = "move"      -> Move(S, d, cmd.k, cmd.e)
          [] cmd.name = "swapdb"    -> SwapDb(S, cmd.d, cmd.e)
          [] cmd.name = "flushdb"   -> FlushDb(S, d)
          [] cmd.name = "expire"    -> Expire(S, d, cmd.k, S.now + cmd.ttl)
          [] cmd.name = "pexpireat" -> Expire(S, d, cmd.k, cmd.at)
          [] cmd.name = "persist"   -> Persist(S, d, cmd.k)
          [] cmd.name = "lpush"     -> Push(S, d, cmd.k, cmd.v, "head")
          [] cmd.name = "lpop"      -> Pop(S, d, cmd.k, "head", "list")
          [] cmd.name = "rpop"      -> Pop(S, d, cmd.k, "tail", "list")
          [] cmd.name = "rpoplpush" -> RpopLpush(S, d, cmd.k, cmd.j)
          [] cmd.name = "zadd"      -> Zadd(S, d, cmd.k, cmd.v)
          [] cmd.name = "zpopmin"   -> Pop(S, d, cmd.k, "head", "zset")
          [] cmd.name = "blpop"     -> BlockingPop(S, c, cmd.keys, "list", "head")
          [] cmd.name = "brpoplpush" -> Brpoplpush(S, c, cmd.k, cmd.j)
          [] cmd.name = "bzpopmin"  -> BlockingPop(S, c, cmd.keys, "zset", "head")
          [] cmd.name = "unwatch"   -> [Unwatch(S, c) EXCEPT !.cl[c].cas = FALSE,
                                                             !.cl[c].broke = FALSE]
          [] cmd.name = "select"    -> [S EXCEPT !.cl[c].db = cmd.d]

ReadOnly == {"get"}

\* The changes WATCH does not notice
Unnoticed == {"move", "swapdb", "persist"}

Value(S, w) == IF KeyIsExpired(S, w[1], w[2]) THEN <<None, None>>
               ELSE <<S.db[w[1]][w[2]], S.exp[w[1]][w[2]]>>

\* History: the clients with a watched key that was changed from S to T
Noted(S, T) ==
    [T EXCEPT !.cl = [c \in DOMAIN @ |-> [@[c] EXCEPT !.broke =
        @ \/ \E w \in T.cl[c].watch : Value(S, w) # Value(T, w)]]]

\* call: the command, then its propagation if it made the data set dirty
Propagated(S, c) == IF S.dirty THEN Propagate(S, S.cl[c].db, S.argv) ELSE S

Called(S, T, cmd) == IF cmd.name \in Unnoticed THEN T ELSE Noted(S, T)

Call(S, c, cmd) ==
    Called(S, Propagated(Proc([S EXCEPT !.dirty = FALSE, !.argv = cmd], c, cmd), c), cmd)

\* discardTransaction
Discard(S, c) ==
    [Unwatch(S, c) EXCEPT !.cl[c].multi = FALSE, !.cl[c].queue = <<>>,
        !.cl[c].cas = FALSE, !.cl[c].ex = FALSE,
        !.cl[c].broke = FALSE, !.cl[c].sent = <<>>]

\* The commands EXEC runs, MULTI propagated before the first that may write
RECURSIVE ExecQueue(_, _, _, _)
ExecQueue(S, c, queue, propagated) ==
    IF queue = <<>>
      THEN IF propagated THEN Propagate(S, S.cl[c].db, [name |-> "exec"]) ELSE S
      ELSE LET first == ~propagated /\ Head(queue).name \notin ReadOnly
               T == IF first THEN Propagate(S, S.cl[c].db, [name |-> "multi"]) ELSE S
           IN  ExecQueue(Call(T, c, Head(queue)), c, Tail(queue), propagated \/ first)

\* execCommand; ran and stale are history: what the transaction should have
\* been, and whether it ran although a watched key had changed
Exec(S, c) ==
    LET me == S.cl[c]
        T  == [S EXCEPT !.ran = Append(@, [sent |-> me.sent, done |-> me.queue,
                                           stale |-> me.broke])]
    IN  IF ~me.multi THEN S
        ELSE IF me.cas \/ me.ex THEN Discard(S, c)
        ELSE Discard(ExecQueue(Unwatch(T, c), c, me.queue, FALSE), c)

\* Mutant: a refused command leaves the transaction as it was
FlagTransactionNot(S, c) == S

\* flagTransaction, for a command refused before it is queued
FlagTransaction(S, c) == [S EXCEPT !.cl[c].ex = @ \/ S.cl[c].multi]

\* watchForKey for the keys of WATCH, refused inside MULTI
Watch(S, c, k) ==
    IF S.cl[c].multi THEN S
    ELSE [S EXCEPT !.cl[c].watch = @ \cup {<<S.cl[c].db, k>>}]

Direct == {"multi", "exec", "discard", "watch"}

\* queueMultiCommand
Queue(S, c, cmd) == [S EXCEPT !.cl[c].queue = Append(@, cmd)]

\* processCommand; "bad" is any command refused before it is queued
ProcessCommand(S, c, cmd) ==
    LET multi == S.cl[c].multi
    IN  CASE cmd.name = "bad"  -> FlagTransaction(S, c)
          [] multi /\ cmd.name \notin Direct \cup {"bad"} -> Queue(S, c, cmd)
          [] cmd.name = "multi" -> [S EXCEPT !.cl[c].multi = TRUE]
          [] cmd.name = "exec" -> Exec(S, c)
          [] cmd.name = "discard" -> IF multi THEN Discard(S, c) ELSE S
          [] cmd.name = "watch" -> Watch(S, c, cmd.k)
          [] OTHER -> Call(S, c, cmd)

\* History: what was sent since MULTI
Remember(S, c, cmd) ==
    IF S.cl[c].multi /\ cmd.name \notin Direct
      THEN [S EXCEPT !.cl[c].sent = Append(@, cmd)] ELSE S

\* loadAppendOnlyFile: the commands of the file, executed by a client that
\* selects the database of each
Loaded(S, out) ==
    LET One(A, e) ==
          IF e[2].name \in {"multi", "exec"}
            THEN [A EXCEPT !.open = e[2].name = "multi"]
            ELSE [Proc([A EXCEPT !.cl["loader"].db = e[1]], "loader", e[2])
                    EXCEPT !.ready = <<>>]
    IN  FoldLeft(One, S, out)

\* The end of a command: blocked clients are served, the file is written
Written(S) ==
    [S EXCEPT !.out = <<>>, !.aof = Loaded(@, S.out),
              !.dirty = FALSE, !.argv = [name |-> "none"]]

Finish(S, unnoticed) ==
    LET T == ServeBlocked(S)
    IN  Written(IF unnoticed THEN T ELSE Noted(S, T))

Names(S, c, cmd) ==
    {cmd.name} \cup IF cmd.name = "exec"
                    THEN {S.cl[c].queue[i].name : i \in DOMAIN S.cl[c].queue} ELSE {}

Command(c, cmd) ==
    /\ s.steps > 0
    /\ s.cl[c].block = None
    /\ cmd.name = "multi" => ~s.cl[c].multi       \* MULTI calls can not be nested
    /\ s' = [Finish(ProcessCommand(Remember(s, c, cmd), c, cmd),
                    Names(s, c, cmd) \cap Unnoticed # {})
               EXCEPT !.steps = @ - 1]

\* clientsCronHandleTimeout: a blocked client gets its null reply
TimedOut(c) ==
    /\ s.cl[c].block # None
    /\ s' = Unblock(s, c)

NewClient == [db |-> 0, multi |-> FALSE, queue |-> <<>>, cas |-> FALSE,
              ex |-> FALSE, watch |-> {}, block |-> None,
              broke |-> FALSE, sent |-> <<>>]

\* freeClient, and the next connection of the same user
Disconnect(c) ==
    /\ s.cl[c] # NewClient
    /\ s' = [IF s.cl[c].block # None THEN Unblock(s, c) ELSE s
               EXCEPT !.cl[c] = NewClient]

\* activeExpireCycleTryExpire; the watching clients are not told
ActiveExpire(d, k) ==
    /\ KeyIsExpired(s, d, k)
    /\ s' = Finish(ExpireIfNeeded(s, d, k), TRUE)

\* freeMemoryIfNeeded: any key may be the best one; nobody is told either
Evict(d, k) ==
    /\ s.scenario.evicts /\ s.db[d][k] # None
    /\ s' = Finish(DbDelete(Propagate(s, d, [name |-> "del", k |-> k]), d, k), TRUE)

Tick ==
    /\ s.now < s.scenario.ticks
    /\ s' = [s EXCEPT !.now = @ + 1]

NoneInDbs == [d \in Dbs |-> [k \in Keys |-> None]]

Server(clients, loading) ==
    [db |-> NoneInDbs, exp |-> NoneInDbs, now |-> 0, loading |-> loading,
     cl |-> [c \in clients |-> NewClient], ready |-> <<>>, out |-> <<>>,
     bk |-> [d \in Dbs |-> [k \in Keys |-> <<>>]],
     dirty |-> FALSE, argv |-> [name |-> "none"], open |-> FALSE]

Started(sc) ==
    LET S == Server(Clients, FALSE)
        Field(f) == CASE f = "aof" -> Server({"loader"}, TRUE)
                      [] f = "ran" -> <<>>
                      [] f = "scenario" -> sc
                      [] f = "steps" -> sc.steps
                      [] OTHER -> S[f]
    IN  [f \in DOMAIN S \cup {"aof", "ran", "scenario", "steps"} |-> Field(f)]

Init == \E sc \in Scenarios : s = Started(sc)

Next ==
    \/ \E c \in Clients : \E cmd \in s.scenario.commands[c] : Command(c, cmd)
    \/ \E c \in Clients : TimedOut(c) \/ (s.scenario.leaves /\ Disconnect(c))
    \/ \E d \in Dbs, k \in Keys : ActiveExpire(d, k) \/ Evict(d, k)
    \/ Tick

Spec == Init /\ [][Next]_s

-----------------------------------------------------------------------------
(* Properties. *)

\* Loading the append only file gives the data set of the server, expires
\* included: expired and evicted keys are propagated as a DEL before the
\* command that found them, a blocking pop as the pop that served it, an
\* expire as an absolute time, and the MULTI of a transaction is closed
\* (db.c propagateExpire, blocked.c, aof.c, multi.c execCommand).
AofReproduces ==
    s.aof.db = s.db /\ s.aof.exp = s.exp /\ ~s.aof.open

\* EXEC never runs when a key the client watches was changed by a command
\* since WATCH, by whichever client and on whichever path, a served
\* BRPOPLPUSH included (multi.c, touchWatchedKey).  MOVE, SWAPDB, PERSIST,
\* expiry and eviction are not noticed by the code and are not counted.
WatchedUnchanged == \A i \in DOMAIN s.ran : ~s.ran[i].stale

\* EXEC runs every command sent since MULTI or none: one that was refused
\* when it was sent makes EXEC abort (multi.c, flagTransaction).
TransactionWhole == \A i \in DOMAIN s.ran : s.ran[i].done = s.ran[i].sent

\* Nobody stays blocked on a key that has what they wait for (blocked.c,
\* handleClientsBlockedOnKeys; db.c, dbAdd and scanDatabaseForReadyLists).
BlockedServed ==
    \A c \in Clients : s.cl[c].block # None =>
        \A k \in s.cl[c].block.keys :
            Type(s, s.cl[c].db, k) # s.cl[c].block.kind

\* The indexes agree: the queues of blocking_keys hold exactly the clients
\* blocked on the key, once, no empty list or sorted set and no expire
\* without a key is left, and no key is ready between two commands.
IndexesAgree ==
    /\ s.ready = <<>>
    /\ \A d \in Dbs, k \in Keys :
        /\ ToSet(s.bk[d][k]) = {c \in Clients : s.cl[c].block # None
                                  /\ s.cl[c].db = d /\ k \in s.cl[c].block.keys}
        /\ Len(s.bk[d][k]) = Cardinality(ToSet(s.bk[d][k]))
        /\ s.exp[d][k] # None => s.db[d][k] # None
        /\ Type(s, d, k) \in {"list", "zset"} => s.db[d][k].v # <<>>
=============================================================================
