------------------------------- MODULE Expiry -------------------------------
(* Keys whose time is over, removed in the background (expire.c): a master    *)
(* samples its databases in rotation, in cycles cut off by a time limit; a    *)
(* writable replica waits for its master to remove keys, except the ones its  *)
(* own clients gave a time, which it keeps a list of.                         *)
(*                                                                           *)
(* s.exp[d][k] is the time of a key, 0 if it has none.                        *)
EXTENDS Integers, Sequences, FiniteSets, SequencesExt

CONSTANTS DbNum,      \* server.dbnum
          Keys,
          DbsPerCall, \* CRON_DBS_PER_CALL
          Lookups,    \* ACTIVE_EXPIRE_CYCLE_LOOKUPS_PER_LOOP
          CheckEvery, \* rounds between two looks at the clock, 16 (64 on a replica)
          FastGap,    \* twice ACTIVE_EXPIRE_CYCLE_FAST_DURATION
          Counter,    \* current_db is a number below this, 2^32
          MaxBit,     \* databases the list has a bit for, 64
          NoExpire,   \* keys still alive that end the replica's cycle, 3
          MaxTime,    \* bound on the clock
          Scenarios

VARIABLE s

Dbs == 0..DbNum - 1
Volatile(z, d) == {k \in Keys : z.exp[d][k] > 0}
Expired(z, d, k, now) == now > z.exp[d][k]
Removed(z, d, k) == [z EXCEPT !.exp[d][k] = 0, !.own = @ \ {<<d, k>>}]

\* activeExpireCycleTryExpire
TryExpire(z, d, k) == IF Expired(z, d, k, z.now) THEN Removed(z, d, k) ELSE z

-----------------------------------------------------------------------------
(* activeExpireCycle: from its start until s.left databases are visited.     *)

Start(fast) ==
  /\ s.sc.role = "master" /\ ~s.inDb /\ s.left = 0 /\ ~s.paused
  /\ fast => s.timeUp /\ s.now >= s.lastFast + FastGap
  /\ s' = [s EXCEPT !.left = IF DbsPerCall > DbNum \/ s.timeUp THEN DbNum ELSE DbsPerCall,
                    !.timeUp = FALSE, !.iter = 0, !.lastFast = IF fast THEN s.now ELSE @]

\* The visits of the rotation under way: current_db, when it wraps, starts one
Rotated == IF s.cur = 0 THEN <<>> ELSE s.visits
Enter == /\ ~s.inDb /\ s.left > 0
         /\ s' = [s EXCEPT !.db = s.cur % DbNum, !.inDb = TRUE, !.left = @ - 1, !.cur = (@ + 1) % Counter,
                           !.visits = Append(IF Len(Rotated) = DbNum - 1 THEN Tail(Rotated) ELSE Rotated, s.cur % DbNum),
                           !.skipped = @ \/ s.cur % DbNum \in ToSet(Rotated)]

\* num picks of a random key, each removed if its time is over
RECURSIVE Sample(_, _, _)
Sample(z, num, gone) ==
  IF num = 0 \/ Volatile(z, z.db) = {} THEN {<<z, gone>>}
  ELSE UNION {Sample(TryExpire(z, z.db, k), num - 1, gone + (IF Expired(z, z.db, k, z.now) THEN 1 ELSE 0)) : k \in Volatile(z, z.db)}
Leave(z) == [z EXCEPT !.inDb = FALSE]

\* Mutated: the database is visited again after the time was up
TimeUpAgain(z) == [Leave(z) EXCEPT !.timeUp = TRUE, !.left = 0, !.cur = z.db]

TimeUp(z) == [Leave(z) EXCEPT !.timeUp = TRUE, !.left = 0]
Look(z) == z.iter % CheckEvery = 0
Round ==
  /\ s.inDb
  /\ LET z == [s EXCEPT !.iter = (@ + 1) % CheckEvery]
         n == Cardinality(Volatile(s, s.db))
     IN IF n = 0 THEN s' = Leave(z)
        ELSE \/ s.sc.sparse /\ s' = Leave(z)
             \/ \E r \in Sample(z, IF n > Lookups THEN Lookups ELSE n, 0) :
                  \/ Look(z) /\ s' = TimeUp(r[1])
                  \/ s' = IF r[2] > Lookups \div 4 THEN r[1] ELSE Leave(r[1])

-----------------------------------------------------------------------------
(* The replica: s.list[k] holds the databases of a key in slaveKeysWithExpire *)

Listed(z) == {k \in Keys : z.list[k] # {}}

\* One name of the list: what stays is still there and not over
Alive(z, k) == {d \in z.list[k] : z.exp[d][k] > 0 /\ ~Expired(z, d, k, z.now)}
Dead(z, k) == {d \in z.list[k] : z.exp[d][k] > 0 /\ Expired(z, d, k, z.now)}

\* Mutated: a name goes from the list with its first key
StillListedFirst(z, k) == IF Dead(z, k) # {} THEN {} ELSE Alive(z, k)

StillListed(z, k) == Alive(z, k)
VisitName(z, k) == [z EXCEPT !.exp = [d \in Dbs |-> IF d \in Dead(z, k) THEN [@[d] EXCEPT ![k] = 0] ELSE @[d]],
                             !.own = @ \ {<<d, k>> : d \in Dead(z, k)},
                             !.list[k] = StillListed(z, k)]
RECURSIVE Names(_, _, _)
Names(z, alive, cycles) ==
  LET After(y, a) == IF a > NoExpire \/ Listed(y) = {} THEN {y}
                     ELSE Names(y, a, cycles + 1) \cup (IF cycles % CheckEvery = 0 THEN {y} ELSE {})
  IN UNION {After(VisitName(z, k), alive + Cardinality(Alive(z, k))) : k \in Listed(z)}
ExpireSlaveKeys == s.sc.role = "replica" /\ Listed(s) # {} /\ s' \in Names(s, 0, 1)

\* rememberSlaveKeyWithExpire
Remember(z, d, k) == IF d >= MaxBit THEN z ELSE [z EXCEPT !.list[k] = @ \cup {d}, !.own = @ \cup {<<d, k>>}]

-----------------------------------------------------------------------------
(* What clients, and the master of a replica, do between cycles.             *)

Idle == ~s.inDb /\ s.left = 0 /\ s.ops > 0 /\ ~s.paused
SetExpire == Idle /\ \E d \in Dbs, k \in Keys, t \in 1..2 :
               LET z == [s EXCEPT !.exp[d][k] = s.now + t, !.ops = @ - 1]
               IN s' = IF s.sc.role = "replica" THEN Remember(z, d, k) ELSE z
FromMaster == Idle /\ s.sc.role = "replica" /\ \E d \in Dbs, k \in Keys, t \in 0..1 :
                s' = [Removed(s, d, k) EXCEPT !.exp[d][k] = IF t = 0 THEN 0 ELSE s.now + t, !.ops = @ - 1]
Persist == Idle /\ \E d \in Dbs, k \in Keys : s.exp[d][k] > 0 /\ s' = [Removed(s, d, k) EXCEPT !.ops = @ - 1]
\* FLUSHALL, or the dataset of the master in place of this one
FlushAll == Idle /\ s' = [s EXCEPT !.exp = [d \in Dbs |-> [k \in Keys |-> 0]], !.own = {}, !.list = [k \in Keys |-> {}], !.ops = @ - 1]
Pause == ~s.inDb /\ s.left = 0 /\ s.sc.pause /\ s' = [s EXCEPT !.paused = ~@]
Tick == s.now < MaxTime /\ s' = [s EXCEPT !.now = @ + 1]

Init == \E sc \in Scenarios :
  s = [sc |-> sc, exp |-> [d \in Dbs |-> [k \in Keys |-> 0]], list |-> [k \in Keys |-> {}], own |-> {}, now |-> 0, ops |-> sc.ops,
       cur |-> 0, db |-> 0, inDb |-> FALSE, left |-> 0, iter |-> 0, timeUp |-> FALSE, lastFast |-> 0, paused |-> FALSE,
       visits |-> <<>>, skipped |-> FALSE]
Next == Start(FALSE) \/ Start(TRUE) \/ Enter \/ Round \/ ExpireSlaveKeys \/ SetExpire \/ FromMaster \/ Persist \/ FlushAll \/ Pause \/ Tick
Spec == Init /\ [][Next]_s

-----------------------------------------------------------------------------
\* However cycles are cut off, no database is visited again before all others
\* were (activeExpireCycle: "Increment the DB now"), but for where current_db, an
\* unsigned int, wraps: there the rotation starts over at the first database.
Rotation == ~s.skipped

\* A key that a client of the writable replica gave a time stays in its list,
\* in each of the databases with a key of that name (expireSlaveKeys,
\* rememberSlaveKeyWithExpire).
OwnKeysListed == \A p \in s.own : p[1] \in s.list[p[2]] /\ s.exp[p[1]][p[2]] > 0
=============================================================================
