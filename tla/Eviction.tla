------------------------------ MODULE Eviction ------------------------------
(* Keys removed to keep the memory under its limit (evict.c): the pool of    *)
(* candidates, which outlives the keys it names, the memory counted as freed  *)
(* while another thread frees large values (lazyfree.c), and the command that  *)
(* waits for it.                                                              *)
(*                                                                           *)
(* A key is a number; s.keys[x] is [size, idle, vol], of size 0 if there is   *)
(* no such key.                                                               *)
EXTENDS Integers, Sequences, FiniteSets

CONSTANTS Dbs,        \* the keys of each database, a sequence of sets
          PoolSize,   \* EVPOOL_SIZE
          Samples,    \* maxmemory-samples
          MaxIdle,    \* bound on the idle time
          Effort,     \* LAZYFREE_THRESHOLD: larger values are freed elsewhere
          Scenarios

VARIABLE s

Keys == UNION {Dbs[d] : d \in DOMAIN Dbs}
DbOf(x) == CHOOSE d \in DOMAIN Dbs : x \in Dbs[d]
NoKey == [size |-> 0, idle |-> 0, vol |-> FALSE]
Exists(z, x) == z.keys[x].size > 0
AllKeys(p) == p \in {"allkeys-lru", "allkeys-random"}

\* The keys a policy may remove: those of the dictionary, or of the expires
Eligible(z, x) == Exists(z, x) /\ (AllKeys(z.policy) \/ z.keys[x].vol)

RECURSIVE SizeOf(_, _), Queued(_)
SizeOf(z, set) == IF set = {} THEN 0 ELSE LET x == CHOOSE y \in set : TRUE IN z.keys[x].size + SizeOf(z, set \ {x})
Queued(q) == IF q = <<>> THEN 0 ELSE q[1] + Queued(Tail(q))

\* zmalloc_used_memory; getMaxmemoryState leaves the buffers of replicas and of
\* the append only file out
Used(z) == SizeOf(z, Keys) + Queued(z.bio) + z.sc.overhead
Counted(z) == Used(z) - z.sc.overhead
ToFree(z) == IF Used(z) <= z.sc.max \/ Counted(z) <= z.sc.max THEN 0 ELSE Counted(z) - z.sc.max

-----------------------------------------------------------------------------
(* The pool: a sequence of [on, idle, buf], the name of a key in a buffer    *)
(* that each entry owns.                                                     *)

Full(z) == z.pool[PoolSize].on

\* The first place with an entry that is not less idle, or without one
Place(z, idle) == CHOOSE k \in 0..PoolSize : /\ \A i \in 1..k : z.pool[i].on /\ z.pool[i].idle < idle
                                             /\ k < PoolSize => ~(z.pool[k + 1].on /\ z.pool[k + 1].idle < idle)
Put(z, k, x, idle) == [z EXCEPT !.pool[k] = [@ EXCEPT !.on = TRUE, !.idle = idle], !.bufs[z.pool[k].buf] = x]

\* memmove, and the buffer of the entry that was dropped
ShiftRight(z, k) == [z EXCEPT !.pool = [i \in 1..PoolSize |-> IF i > k + 1 THEN @[i - 1]
                                                               ELSE IF i = k + 1 THEN [@[i] EXCEPT !.buf = z.pool[PoolSize].buf] ELSE @[i]]]
\* Mutated: the buffer is not handed on
ShiftLeftShares(z, k) == [z EXCEPT !.pool = [i \in 1..PoolSize |-> IF i < k THEN @[i + 1] ELSE @[i]]]

ShiftLeft(z, k) == [z EXCEPT !.pool = [i \in 1..PoolSize |-> IF i < k THEN @[i + 1]
                                                              ELSE IF i = k THEN [@[i] EXCEPT !.buf = z.pool[1].buf] ELSE @[i]]]

\* evictionPoolPopulate, one key
PopulateOne(z, x, idle, k) ==
  IF k = 0 /\ Full(z) THEN z
  ELSE IF k < PoolSize /\ ~z.pool[k + 1].on THEN Put(z, k + 1, x, idle)
  ELSE IF ~Full(z) THEN Put(ShiftRight(z, k), k + 1, x, idle)
  ELSE Put(ShiftLeft(z, k), k, x, idle)
RECURSIVE Populate(_, _), PopulateDbs(_, _)
Populate(z, q) == IF q = <<>> THEN z
                  ELSE Populate(PopulateOne(z, q[1], z.keys[q[1]].idle, Place(z, z.keys[q[1]].idle)), Tail(q))

\* dictGetSomeKeys for each database with keys: some of them, in some order
SampleOf(z, d) == LET set == {x \in Dbs[d] : Eligible(z, x)}
                  IN IF set = {} THEN {<<>>} ELSE UNION {[1..n -> set] : n \in 1..Samples}
PopulateDbs(zs, d) == IF d > Len(Dbs) THEN zs ELSE PopulateDbs(UNION {{Populate(z, q) : q \in SampleOf(z, d)} : z \in zs}, d + 1)

\* The most idle entry; the ones of keys that are gone are dropped
Last(z) == CHOOSE k \in 0..PoolSize : (k > 0 => z.pool[k].on) /\ \A i \in k + 1..PoolSize : ~z.pool[i].on
Taken(z, k) == [z EXCEPT !.pool[k] = [@ EXCEPT !.on = FALSE, !.idle = 0]]

\* Mutated: the key is looked up among all keys
FoundAny(z, x) == Exists(z, x)

Found(z, x) == Eligible(z, x)
RECURSIVE Best(_)
Best(z) == IF Last(z) = 0 THEN [z |-> z, key |-> 0]
           ELSE LET x == z.bufs[z.pool[Last(z)].buf]
                IN IF Found(z, x) THEN [z |-> Taken(z, Last(z)), key |-> x] ELSE Best(Taken(z, Last(z)))

-----------------------------------------------------------------------------
(* freeMemoryIfNeeded.                                                      *)

Lazily(z, x) == z.sc.lazy /\ z.keys[x].size > Effort

\* Mutated: a value that waits for the other thread counts as freed
FreedAll(z, x) == z.keys[x].size

\* What the removal frees at once
FreedNow(z, x) == IF Lazily(z, x) THEN 0 ELSE z.keys[x].size

\* dbAsyncDelete, dbSyncDelete
Delete(z, x) == [z EXCEPT !.keys[x] = NoKey, !.bio = IF Lazily(z, x) THEN Append(@, z.keys[x].size) ELSE @]
EvictKey(z, x) == [Delete(z, x) EXCEPT !.freed = @ + FreedNow(z, x), !.wrong = @ \/ ~Eligible(z, x)]

\* Its loop ends when as much is freed as was too much.  It does not look at
\* the memory again every sixteen keys: keys_freed begins at 0 for each key.
Continue(z) == IF z.freed < z.tofree THEN z ELSE [z EXCEPT !.phase = "ok"]

PoolRound(z) == LET b == Best(z) IN IF b.key = 0 THEN b.z ELSE Continue(EvictKey(b.z, b.key))
RandomDb(z) == CHOOSE d \in DOMAIN Dbs :
                 \E n \in 1..Len(Dbs) : /\ d = ((z.nextDb + n) % Len(Dbs)) + 1 /\ \E x \in Dbs[d] : Eligible(z, x)
                                        /\ \A m \in 1..n - 1 : \A x \in Dbs[((z.nextDb + m) % Len(Dbs)) + 1] : ~Eligible(z, x)
RandomRound(z) == {Continue(EvictKey([z EXCEPT !.nextDb = RandomDb(z) - 1], x)) : x \in {y \in Dbs[RandomDb(z)] : Eligible(z, y)}}
Round(z) ==
  IF ~\E x \in Keys : Eligible(z, x) THEN {[z EXCEPT !.phase = "wait"]}
  ELSE IF z.policy \in {"allkeys-random", "volatile-random"} THEN RandomRound(z)
  ELSE {PoolRound(y) : y \in PopulateDbs({z}, 1)}

\* A command: first make room; the policy may allow none
Command == /\ s.phase = "idle" /\ s.ops > 0
           /\ s' = IF ToFree(s) = 0 THEN [s EXCEPT !.phase = "ok", !.ops = @ - 1]
                   ELSE [s EXCEPT !.ops = @ - 1, !.tofree = ToFree(s), !.freed = 0, !.before = Used(s),
                                  !.phase = IF s.policy = "noeviction" THEN "wait" ELSE "evict"]
Evict == s.phase = "evict" /\ s' \in Round(s)

\* cant_free: as long as values wait for the other thread and it is too little
Wait == s.phase = "wait" /\ (s.bio = <<>> \/ (s.before - Used(s)) + s.freed >= s.tofree) /\ s' = [s EXCEPT !.phase = "refused"]

\* The other thread
Bio == s.bio # <<>> /\ s' = [s EXCEPT !.bio = Tail(@)]

\* The command itself: a write is refused if there is no room
Write == s.phase = "ok" /\ \E x \in Keys, size \in s.sc.sizes, vol \in BOOLEAN :
           s' = [s EXCEPT !.phase = "idle", !.keys[x] = [size |-> size, idle |-> 0, vol |-> vol]]
Other(z) == {[z EXCEPT !.keys[x] = NoKey] : x \in Keys}
              \cup {[z EXCEPT !.keys[x].vol = FALSE, !.keys[x].idle = 0] : x \in {y \in Keys : Exists(z, y)}}
              \cup {[z EXCEPT !.policy = p] : p \in z.sc.policies}
NoWrite == s.phase \in {"ok", "refused"} /\ s' \in Other([s EXCEPT !.phase = "idle"])
Age == s.phase = "idle" /\ s.ops > 0 /\ (\A x \in Keys : s.keys[x].idle < MaxIdle)
         /\ s' = [s EXCEPT !.keys = [x \in Keys |-> IF Exists(s, x) THEN [@[x] EXCEPT !.idle = @ + 1] ELSE @[x]]]

Init == \E sc \in Scenarios : \E p \in sc.policies :
  s = [sc |-> sc, policy |-> p, phase |-> "idle", ops |-> sc.ops, keys |-> sc.keys, nextDb |-> 0, tofree |-> 0, freed |-> 0,
       before |-> 0, bio |-> <<>>, wrong |-> FALSE, pool |-> [i \in 1..PoolSize |-> [on |-> FALSE, idle |-> 0, buf |-> i]],
       bufs |-> [i \in 1..PoolSize |-> 0]]
Next == Command \/ Evict \/ Wait \/ Bio \/ Write \/ NoWrite \/ Age
Spec == Init /\ [][Next]_s

-----------------------------------------------------------------------------
\* When the command goes on, the memory is under its limit, although large
\* values may be still to be freed; no key is removed that the policy of the
\* moment spares, although the pool names keys that were deleted, made again or
\* lost their expire since (freeMemoryIfNeeded).
EvictionSound ==
  /\ ~s.wrong
  /\ s.phase = "ok" => Counted(s) <= s.sc.max \/ Used(s) <= s.sc.max

\* The entries of the pool are at its front, from the least to the most idle,
\* and each has a buffer of its own for the name (evictionPoolPopulate).
PoolSound ==
  /\ \A i, j \in 1..PoolSize : i < j => /\ s.pool[i].buf # s.pool[j].buf
                                        /\ s.pool[j].on => s.pool[i].on /\ s.pool[i].idle <= s.pool[j].idle
=============================================================================
