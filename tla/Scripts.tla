------------------------------ MODULE Scripts ------------------------------
(* Lua scripts (scripting.c): what a script may call, how it reaches the     *)
(* append only file and the replicas, as a whole or command by command, the  *)
(* cache of the scripts they know, the objects kept between calls, a script   *)
(* that takes long and is killed, and the conversion of replies.              *)
(*                                                                           *)
(* A script is a sequence of steps: [op |-> "set", k, v, protected],          *)
(* v = 0 for what the last random command told; "get", "random", "effects"   *)
(* (replicate_commands), "repl" (set_repl), "fail", "loop".  Every server     *)
(* gets a value of its own from a random command.                            *)
EXTENDS Integers, Sequences, FiniteSets

CONSTANTS Keys, Script, CacheSize, Scenarios

VARIABLE s

Ids == 1..Cardinality(Keys) + 2
Both == {"rep", "aof"}
NoRun == [on |-> FALSE]

Val(z, k) == IF z.m[k] = 0 THEN 0 ELSE z.heap[z.m[k]]
Vals(z) == [k \in Keys |-> Val(z, k)]
Range(q) == {q[i] : i \in DOMAIN q}

-----------------------------------------------------------------------------
(* A consumer, a replica or the content of a file, as it applies what it is  *)
(* sent: [data, known, open, ok, random].                                    *)

Consumer(data, known, random) == [data |-> data, known |-> known, open |-> FALSE, ok |-> TRUE, random |-> random]
\* A script as a whole, which did not ask for its effects to be replicated
RECURSIVE Replay(_, _, _, _)
Replay(c, q, reg, rd) ==
  IF q = <<>> \/ q[1].op \in {"fail", "repl"} THEN c
  ELSE CASE q[1].op = "random" -> Replay(c, Tail(q), c.random, TRUE)
         [] q[1].op = "set" /\ rd /\ ~q[1].protected -> c
         [] q[1].op = "set" /\ ~rd -> Replay([c EXCEPT !.data[q[1].k] = IF q[1].v = 0 THEN reg ELSE q[1].v], Tail(q), reg, rd)
         [] OTHER -> Replay(c, Tail(q), reg, rd)
Apply(c, r) ==
  CASE r.op = "multi" -> [c EXCEPT !.ok = @ /\ ~c.open, !.open = TRUE]
    [] r.op = "exec" -> [c EXCEPT !.ok = @ /\ c.open, !.open = FALSE]
    [] r.op = "set" -> [c EXCEPT !.data[r.k] = r.v]
    [] r.op = "load" -> [c EXCEPT !.known = @ \cup {r.sha}]
    [] r.op = "flush" -> [c EXCEPT !.known = {}]
    [] r.op = "eval" -> Replay([c EXCEPT !.known = @ \cup {r.sha}], Script[r.sha], 0, FALSE)
    [] r.op = "evalsha" -> IF r.sha \in c.known THEN Replay(c, Script[r.sha], 0, FALSE) ELSE [c EXCEPT !.ok = FALSE]

\* propagate; while a file is rewritten, what it must hold too is kept
Feed(z, to, r) ==
  [z EXCEPT !.rep = IF "rep" \in to THEN Apply(@, r) ELSE @,
            !.aof = IF "aof" \in to THEN Apply(@, r) ELSE @,
            !.next = IF "aof" \in to THEN Apply(@, r) ELSE @]
Simple(op) == [op |-> op]
OfScript(op, sha) == [op |-> op, sha |-> sha]
SetRecord(k, v) == [op |-> "set", k |-> k, v |-> v]

\* What the write ought to become there
Want(z, to, k, v) ==
  [z EXCEPT !.want = [c \in DOMAIN @ |-> IF c \in to \cup {"m"} \/ (c = "next" /\ "aof" \in to) THEN [@[c] EXCEPT ![k] = v] ELSE @[c]]]

-----------------------------------------------------------------------------
(* Calls of a script.                                                       *)

\* The object of an argument: one kept from an earlier call, or a new one
Unused(z) == CHOOSE i \in Ids : i # z.kept /\ \A k \in Keys : z.m[k] # i
Arg(z, v) == LET i == IF z.kept # 0 THEN z.kept ELSE Unused(z)
             IN [z EXCEPT !.heap[i] = v, !.kept = 0, !.run.arg = i]

\* Mutated: an object is kept although the dataset holds it too
CleanupAll(z) == [z EXCEPT !.kept = z.run.arg, !.run.arg = 0]

\* Behind a call: an argument that nobody else holds is kept
Cleanup(z) == [z EXCEPT !.kept = IF \E k \in Keys : z.m[k] = z.run.arg THEN @ ELSE z.run.arg, !.run.arg = 0]

\* Mutated: writing after a random command is allowed
RefusedRandom(z, oom) == z.sc.readonly \/ (oom /\ ~z.run.wd)

\* The checks of luaRedisGenericCommand for a command that writes
Refused(z, oom) == (z.run.rd /\ ~z.run.eff) \/ z.sc.readonly \/ (oom /\ ~z.run.wd)

\* Mutated: the transaction of the caller is not thought of
EmitMultiAlways(z) ==
  IF z.run.eff /\ ~z.run.multi /\ z.run.wd /\ z.run.repl # {}
  THEN [Feed(z, Both, Simple("multi")) EXCEPT !.run.multi = TRUE] ELSE z

\* With the first write of a script that is replicated by its effects
EmitMulti(z) ==
  IF z.run.eff /\ ~z.run.multi /\ ~z.run.tx /\ z.run.wd /\ z.run.repl # {}
  THEN [Feed(z, Both, Simple("multi")) EXCEPT !.run.multi = TRUE] ELSE z

\* call, for a command that writes
Stored(z, k, v) == [z EXCEPT !.m[k] = z.run.arg, !.run.dirty = TRUE]
CallSet(z, k, v) ==
  IF z.run.eff THEN Want(Feed(Stored(z, k, v), z.run.repl, SetRecord(k, v)), z.run.repl, k, v)
  ELSE Want(Stored(z, k, v), Both, k, v)

Raise(z) == [z EXCEPT !.run.pc = Len(Script[z.run.sha]) + 1]
Forward(z) == [z EXCEPT !.run.pc = @ + 1]
\* spared: refused for lack of memory, a check that replicas and a file that is
\* loaded do not make
SetStep(z, st, v, oom) ==
  IF Refused(z, oom) THEN LET y == [Cleanup(Arg(z, v)) EXCEPT !.run.spared = @ \/ ~Refused(z, FALSE)]
                          IN IF st.protected THEN Forward(y) ELSE Raise(y)
  ELSE Forward(Cleanup(CallSet(EmitMulti([Arg(z, v) EXCEPT !.run.wd = TRUE]), st.k, v)))

\* redis.replicate_commands, redis.set_repl
ReplicateCommands(z) == IF z.run.wd THEN z ELSE [z EXCEPT !.run.eff = TRUE]
SetRepl(z, to) == IF z.run.eff THEN Forward([z EXCEPT !.run.repl = to]) ELSE Raise(z)

\* luaMaskCountHook in a script that takes long: SCRIPT KILL may have come in,
\* from the only kind of client that is served then
Killed(z) == [Raise(z) EXCEPT !.killed = @ \/ Vals(z) # z.run.before]

\* Mutated: a script may be killed at any time
KillableAny(z) == TRUE

Killable(z) == ~z.run.wd
Hook(z) == {Forward(z)} \cup (IF Killable(z) THEN {Killed(z)} ELSE {})

StepOf(z, st) ==
  CASE st.op = "set" -> {SetStep(z, st, IF st.v = 0 THEN z.run.reg ELSE st.v, oom) : oom \in {FALSE, z.sc.oom}}
    [] st.op = "get" -> {Forward(Cleanup(EmitMulti(Arg(z, 0))))}
    [] st.op = "random" -> {Forward(EmitMulti([z EXCEPT !.run.rd = TRUE, !.run.reg = 1]))}
    [] st.op = "effects" -> {Forward(ReplicateCommands(z))}
    [] st.op = "repl" -> {SetRepl(z, st.to)}
    [] st.op = "fail" -> {Raise(z)}
    [] st.op = "loop" -> Hook(z)
Step == s.run.on /\ s.run.pc <= Len(Script[s.run.sha]) /\ s' \in StepOf(s, Script[s.run.sha][s.run.pc])

-----------------------------------------------------------------------------
(* EVAL, EVALSHA, SCRIPT.                                                   *)

Tick(z) == [z EXCEPT !.ops = @ - 1]
Idle == ~s.run.on /\ s.ops > 0

\* evalGenericCommand up to the call of the function; tx: within EXEC
Started(z, sha, bySha, tx) ==
  [z EXCEPT !.run = [on |-> TRUE, sha |-> sha, bySha |-> bySha, tx |-> tx, pc |-> 1, reg |-> 0, rd |-> FALSE, wd |-> FALSE,
                     eff |-> z.sc.always, multi |-> FALSE, repl |-> Both, dirty |-> FALSE, arg |-> 0, spared |-> FALSE, before |-> Vals(z)],
            !.known = @ \cup {sha}]
Opened(z, tx) == IF tx THEN Feed(z, Both, Simple("multi")) ELSE z
Closed(z, tx) == IF tx THEN Feed(z, Both, Simple("exec")) ELSE z
Eval == Idle /\ \E sha \in s.sc.shas, tx \in s.sc.txs : s' = Started(Opened(Tick(s), tx), sha, FALSE, tx)
EvalSha ==
  Idle /\ \E sha \in s.sc.shas, tx \in s.sc.txs :
    s' = IF sha \in s.known THEN Started(Opened(Tick(s), tx), sha, TRUE, tx) ELSE Closed(Opened(Tick(s), tx), tx)

\* replicationScriptCacheAdd: the oldest makes room
CacheAdd(z, sha) == [z EXCEPT !.fifo = <<sha>> \o (IF Len(@) = CacheSize THEN SubSeq(@, 1, Len(@) - 1) ELSE @)]

\* Mutated: a script that wrote nothing is not loaded elsewhere
RewrittenLazily(z) == IF z.run.dirty THEN Feed(CacheAdd(z, z.run.sha), Both, OfScript("eval", z.run.sha)) ELSE CacheAdd(z, z.run.sha)

\* EVALSHA of a script that the others may not know
Rewritten(z) == Feed(CacheAdd(z, z.run.sha), Both, OfScript(IF z.run.dirty THEN "eval" ELSE "load", z.run.sha))

\* evalGenericCommand behind the call, and the propagation by call
Propagated(z) ==
  IF z.run.eff THEN IF z.run.multi THEN Feed(z, Both, Simple("exec")) ELSE z
  ELSE IF z.run.bySha /\ z.run.sha \notin Range(z.fifo) THEN Rewritten(z)
  ELSE IF z.run.dirty THEN Feed(z, Both, OfScript(IF z.run.bySha THEN "evalsha" ELSE "eval", z.run.sha)) ELSE z
Finish == /\ s.run.on /\ s.run.pc > Len(Script[s.run.sha])
          /\ s' = [Closed(Propagated(s), s.run.tx) EXCEPT !.run = NoRun, !.apart = @ \/ (s.run.spared /\ s.run.dirty /\ ~s.run.eff)]

ScriptLoad == Idle /\ \E sha \in s.sc.shas : s' = Feed([Tick(s) EXCEPT !.known = @ \cup {sha}], Both, OfScript("load", sha))
ScriptFlush == Idle /\ s' = Feed([Tick(s) EXCEPT !.known = {}, !.fifo = <<>>], Both, Simple("flush"))

\* Another client writes
OtherWrite == Idle /\ ~s.sc.readonly /\ \E k \in Keys :
                s' = Want(Feed([Tick(s) EXCEPT !.heap[Unused(s)] = 9, !.m[k] = Unused(s)], Both, SetRecord(k, 9)), Both, k, 9)

\* A replica gets a snapshot, which holds the scripts (rdbSaveRio,
\* startBgsaveForReplication)
FullSync == Idle /\ s' = [Tick(s) EXCEPT !.rep = Consumer(Vals(s), s.known, 2), !.want.rep = Vals(s), !.fifo = <<>>]

\* Mutated: the scripts that the old file knows count as known
RewriteForkKeeps(z) == [z EXCEPT !.next = Consumer(Vals(z), {}, 4), !.want.next = Vals(z), !.rewriting = TRUE]

\* rewriteAppendOnlyFileBackground: a new file, which knows no script
RewriteFork(z) == [z EXCEPT !.next = Consumer(Vals(z), {}, 4), !.want.next = Vals(z), !.fifo = <<>>, !.rewriting = TRUE]
RewriteStart == Idle /\ ~s.rewriting /\ s' = RewriteFork(Tick(s))
RewriteDone == Idle /\ s.rewriting /\ s' = [s EXCEPT !.aof = s.next, !.want.aof = s.want.next, !.rewriting = FALSE]

Init == \E sc \in Scenarios :
  LET none == [k \in Keys |-> 0] IN
  s = [sc |-> sc, ops |-> sc.ops, m |-> none, heap |-> [i \in Ids |-> 0], kept |-> 0, known |-> {}, fifo |-> <<>>,
       rep |-> Consumer(none, {}, 2), aof |-> Consumer(none, {}, 3), next |-> Consumer(none, {}, 4), rewriting |-> FALSE,
       want |-> [m |-> none, rep |-> none, aof |-> none, next |-> none], run |-> NoRun, killed |-> FALSE, apart |-> FALSE]
Next ==
  \/ Step \/ Finish \/ Eval \/ EvalSha \/ ScriptLoad \/ ScriptFlush
  \/ OtherWrite \/ FullSync \/ RewriteStart \/ RewriteDone
Spec == Init /\ [][Next]_s

-----------------------------------------------------------------------------
(* Replies, as the protocol and as Lua have them.                           *)

\* Mutated: a null becomes nil, which ends an array
RECURSIVE ToLuaNil(_)
ToLuaNil(r) == CASE r.t = "null" -> [t |-> "nil"]
                 [] r.t = "multi" -> [t |-> "table", q |-> [i \in DOMAIN r.q |-> ToLuaNil(r.q[i])]]
                 [] OTHER -> [t |-> r.t, v |-> r.v]

\* redisProtocolToLuaType: a null, of whichever kind, is false
RECURSIVE ToLua(_)
ToLua(r) == CASE r.t \in {"null", "nullmulti"} -> [t |-> "false"]
              [] r.t = "multi" -> [t |-> "table", q |-> [i \in DOMAIN r.q |-> ToLua(r.q[i])]]
              [] OTHER -> [t |-> r.t, v |-> r.v]

\* luaReplyToRedisReply: a table up to its first nil
RECURSIVE ToReply(_), Items(_)
Items(q) == IF q = <<>> \/ q[1].t = "nil" THEN <<>> ELSE <<ToReply(q[1])>> \o Items(Tail(q))
ToReply(l) == CASE l.t \in {"false", "nil"} -> [t |-> "null"]
                [] l.t = "true" -> [t |-> "int", v |-> 1]
                [] l.t = "table" -> [t |-> "multi", q |-> Items(l.q)]
                [] OTHER -> [t |-> l.t, v |-> l.v]

-----------------------------------------------------------------------------
\* Between two commands, the dataset holds what was written, although objects
\* are kept from one call to the next; the replicas and the file hold it too,
\* but for what a script kept from them, although each runs a script on its own and gets
\* other random values; none of them was sent a script by a digest it does not
\* know or a transaction within another, and no transaction is left open
\* (evalGenericCommand, luaRedisGenericCommand, replicationScriptCacheAdd).  Not
\* once a script went on after pcall had told it of an OOM error, wrote, and was
\* sent as a whole: the others execute the refused call too (s.apart).
StreamsAgree ==
  ~s.run.on =>
    /\ Vals(s) = s.want.m
    /\ \A c \in {"rep", "aof", "next"} : s[c].ok /\ ~s[c].open /\ (s.apart \/ s[c].data = s.want[c])

\* A script that was killed left the dataset as it was (scriptCommand,
\* luaMaskCountHook).
KilledHarmless == ~s.killed

\* A reply comes out of a script as it went in, to any depth and with nulls in
\* it; only a null array becomes a null (redisProtocolToLuaType,
\* luaReplyToRedisReply).
RepliesConvert == \A r \in s.sc.replies : ToReply(ToLua(r)) = r
=============================================================================
