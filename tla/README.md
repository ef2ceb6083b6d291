# A verification of Spoiler and of the Redis server beside it

The repository holds two programs. Spoiler is a Laravel application through
which restaurants sell food that would go to waste. `redis-stable/` is the
source tree of Redis 5.0.7. They do not call each other in this repository:
Spoiler broadcasts through Pusher and keeps its data in MySQL.

This directory holds TLA+ models of both, the TLC configurations that check them
on small instances, and theorems whose proofs TLAPS checks for every value of
the constants. The first half of this document is about Spoiler, the second about
Redis; *Proofs* at the end covers both.

| Modules | What they are |
|---|---|
| `Ordering`, `OrderLedger`, `Shop` | Spoiler: handlers, history variables, abstract specification |
| `Dict`, `Cluster`, `Persistence`, `Sentinel`, `Replication` | Redis: parts that must make progress or that exchange messages |
| `Keyspace`, `Scripts`, `Expiry`, `Eviction` | Redis: execution of commands |
| `Strings`, `HyperLogLog`, `SetType`, `HashType`, `Zset`, `Stream`, `Quicklist` | Redis: data types |
| `Ziplist`, `Listpack`, `Rax`, `Rdb` | Redis: encodings |
| `Events`, `Clients`, `Protocol`, `Transfer` | Redis: connections |
| `MC*` | instances for TLC |
| `*_proofs` | theorems |

The map of `PROJECT.json` names, for a definition, the lines it stands for. It
lists 800 definitions, not all that model code: left out are helpers whose lines
lie within those of the ones listed or add few to them.

Definitions commented "Mutant" are wrong variants of the definition that follows
them: plausible mistakes in that code. With the variant in its place a property
of a passing run fails, so each property is one that the code could break.

# Spoiler

## The system

Clients call a JSON API (`routes/api.php`). Each request is served by one PHP
process, which runs one controller method against a MySQL database and may
broadcast an event through Pusher (queue connection `sync`, so inside the
request). There is no state in the processes between requests: what interacts
is the tables, the row locks of open transactions, and the messages sent.

| Part | Source | Modelled |
|---|---|---|
| Orders: place, complete, cancel | `OrderController`, `Order` | `Ordering` |
| Foods: add, update | `FoodController`, `Food` | `Ordering` |
| Bans (`deprivate_lists`) | `OrderController@store`, `DeprivateList` | `Ordering` |
| Events to restaurants and subscribers | `Events/NewOrder`, `Events/FoodAdded` | `Ordering` |
| Restaurants, likes, filter, distance, search | `RestaurantController`, `FoodController@search` | no |
| Accounts, Facebook login, subscriptions, reports | `UserController`, `OwnerController`, `FBController`, `SubscriptController`, `ReportController` | no |
| Routes, middleware | `routes/`, `Http/Kernel` | through the actions only |
| Views, configuration, unrouted `Auth/*` scaffolding | `resources/`, `config/` | no: no state |

The parts left out read, or write a row of their own (`restaurants`, `likes`,
`users`, `owners`, `subscriptions`, `reports`); none writes `foods`, `orders` or
`deprivate_lists`.

## Its modules

**Ordering** is the core: the tables `foods` and `orders` with their
AUTO_INCREMENT counters, and the handlers of `OrderController` and
`FoodController` that change them. A worker has a program counter `pc`, the local
variables of its handler `job`, and the last answer `reply`; `sent` is the set of
messages broadcast. A handler is cut where another worker can see or disturb it:

| Handler | Actions, in order |
|---|---|
| `OrderController@store` | `OrderStore` (snapshot, validation, ban) · `OrderInsert` · `OrderDeduct` (row lock) · `OrderCommit` · `OrderEvent` |
| `OrderController@cancel` | `OrderCancel` (load, check) · `OrderUnsend` · `OrderReload` · `OrderRestore` |
| `OrderController@complete` | `OrderComplete` (load, check) · `OrderFinish` |
| `FoodController@store` | `FoodStore` (validation) · `FoodInsert` · `FoodNotify` · `FoodCommit` |
| `FoodController@update` | `FoodUpdate` (route binding) · `FoodValidate` · `FoodPatch` (row lock) · `FoodNotify` if remaining grew · `FoodCommit` |
| any of them | `Fail` at any point after the first |

What the framework and the database contribute, and the code relies on:

- `store` (orders) and both food handlers run in a transaction at MySQL's default
  level, REPEATABLE READ. All plain reads of the transaction see the snapshot of the first
  one, so `OrderStore` is a single step up to the INSERT. An UPDATE locks the row
  until the transaction ends, and another UPDATE of it waits (`Locks`,
  `MayUpdate`). The written number was computed from the snapshot.
- `cancel` and `complete` open no transaction: each statement commits.
- Eloquent's `save` writes a column only if it differs from the loaded value
  (`Saved`, `SaveFood`): an update that changes nothing takes no lock.
- `catch (Exception $e)` in the controllers names a class of their own namespace
  that does not exist. Nothing is caught; the request ends with an error, the
  connection closes and MySQL rolls back. `Fail` is this, and equally a lock wait
  timeout, a broadcaster that is down or a process that dies.
- In `update` the food is loaded by route binding before the transaction.

Abstracted data: prices, images, phone and order numbers (written, never read), and the
authentication that supplies the user. `DeprivateList` is a constant because no
code writes the table. Attributes of an update request come from the constant
`Updates`.

**OrderLedger** adds history variables to Ordering that no handler reads: per food, the units the
owner put on offer (`supply`), the units in live orders (`live`), the units of
cancelled orders not put back (`owed`), and whether a handler has acted on a
value that had changed since it was loaded (`clash`); and the set `unreturned` of
cancelled orders whose units are still out. An owner's update sets the supply: the new
number counts, however stale the owner's view.

**Shop** is what ordering promises: six indivisible steps (offer, adjust, place,
complete, cancel, give back) on a stock and a book of orders. `OrderLedger` maps
its state to the shop's in `Abstract`; `ImplementsShop` is the shop's
specification under that mapping.

**MCOrdering**, **MCOrderLedger** give the instances for TLC: tables of bans,
sets of updates, worker symmetry.

## Its runs

| Run | Instance | Checks | Shows |
|---|---|---|---|
| `races` | 2 workers, 1 food of 3, orders of 2, restock to 2, 2 orders | `TypeOK`, `NonNegativeStock`, `AnnouncedOrdersExist`, `Conserved`, `LedgerExact`, `OrderHistory` | what survives every interleaving and failure |
| `serial` | 1 worker, 2 foods of 2, 2 names, 2 restaurants, orders of 1 and 2, restocks and renames, 2 orders | `NotOversold`, `ReturnedOnce`, `UniqueNames`, `ImplementsShop` | one request at a time, the handlers implement the shop and the unique rule holds, failures included |
| `progress` | 2 workers, orders, cancellations, restocking | `EveryRequestAnswered` | lock waits end |
| `oversold` | 2 workers, 1 food of 2 | `NotOversold` fails | two orders against the same remaining |
| `returned_twice` | 2 workers | `ReturnedOnce` fails | both cancellations put the units back |
| `phantom_food` | 1 worker | `AnnouncedFoodsExist` fails | FoodAdded sent, transaction rolled back |
| `moved_food` | 1 worker, updates that change the restaurant | `UniqueNames` fails | a moved food meets its namesake |
| `ban_lookup` | 1 worker, a user with four bad records, a free record of another | `BannedHaveNoOrders` fails | `find` is by the row's id |

The last five state what a rule or message of the code says, and the code does
otherwise; `PROJECT.json` quotes the lines. Three more things no run states:

- With two workers `complete` marks an order that was cancelled since it loaded
  the row. No rule forbids it; `OrderHistory` only says that neither mark is taken
  back.
- A user with exactly three bad records is refused although the message says "more
  than three". `BannedHaveNoOrders` is about four and more, where both agree.
- Adding foods with two workers breaks `UniqueNames` without any move: both pass
  the unique rule before either commits, and there is no unique index.

**Bounds.** `MaxFoods` and `MaxOrders` bound the inserts. Every race the handlers
can have is between two requests on one food or one order, so two workers, one food
and two orders reach them: two stores, store and cancel, cancel and cancel,
cancel and complete, each against a restock. Orders of 2 against a stock of 3
make one order fit and the next not; in `serial`, two orders of 1 fit a stock of
2 and an order of 2 leaves nothing. Two foods and two restaurants are what two names need to meet. Workers are
interchangeable and no property names one, so the safety runs with two workers use
symmetry; `serial` does so for users, names and restaurants.

**Fairness** (`progress` only). Each worker's handler keeps running, and a worker
that waits for a row whose lock is released again and again is served: strong
fairness of `Advance(w)`, which InnoDB's queue of lock requests provides (and its lock
wait timeout, `Fail`, would end the wait otherwise). No client is obliged to send
anything. No handler updates two rows of the contended table inside one transaction, which
is why no cycle of waits forms; the mutant `OrderDeductUpgrade` shows
the deadlock that a shared lock taken before the UPDATE would bring.

# Redis

## Its parts

A server is single threaded: an action is one command, one callback or one step
of the event loop, with everything the code does before it returns. Concurrency
comes from elsewhere: child processes that save, the fsync thread, other servers,
clients whose bytes arrive in pieces, and incremental work (rehashing, expiry,
scans) that is interrupted by commands.

| Module | Source | State and actions |
|---|---|---|
| `Dict` | `dict.c` | `d` is the struct with its two tables; add, delete, find, draw, resize, background rehashing, a safe iterator, a SCAN cursor |
| `Cluster` | `cluster.c` | one view of the cluster per node; packets, failure detection, elections, takeovers, restarts from nodes.conf, resharding with redirected clients |
| `Persistence` | `aof.c`, `rdb.c`, `bio.c` | buffers, files, children and the fsync job; flush policies, rewrite with its diff, saves, write errors, kills, power losses, loading |
| `Sentinel` | `sentinel.c` | memory and file of each Sentinel, roles of the instances; timer, is-master-down questions and votes, hello messages, INFO, SLAVEOF, forced failover, restarts |
| `Replication` | `replication.c` | stream, backlog and offsets of each server, both ends of each link; PSYNC, full synchronisation, chains, promotion, restarts, WAIT |
| `Transfer` | `replication.c`, `rdb.c`, `rio.c` | one snapshot on its way, by file or by socket, with the buffers of the replicas |
| `Keyspace` | `server.c`, `db.c`, `multi.c`, `blocked.c`, `expire.c`, `t_list.c` | databases, expires, watched and blocking keys; commands with what they propagate |
| `Scripts` | `scripting.c` | a script and its calls, the scripts that replicas know, SCRIPT KILL |
| `Eviction`, `Expiry` | `evict.c`, `lazyfree.c`, `expire.c` | the pool and the policies; the rotation over databases, keys of writable replicas |
| `Strings`, `HyperLogLog`, `SetType`, `HashType`, `Zset`, `Stream` | `t_*.c`, `bitops.c`, `object.c`, `intset.c`, `hyperloglog.c` | a few keys in every encoding; the commands, their replies, what is propagated |
| `Quicklist`, `Ziplist`, `Listpack`, `Rax` | the files of those names | the structure itself; its operations and iterators |
| `Rdb` | `rdb.c`, `lzf_c.c`, `lzf_d.c` | a file of bytes; save, crash, damage, load |
| `Events`, `Clients`, `Protocol` | `ae.c`, `networking.c`, `sds.c` | registered events and timers; output buffers and lists of clients; the query buffer |

Modules meet at interfaces that are small enough to state. `Stream` uses a
listpack as the sequence of its elements, which is what `Listpack` checks of it;
`Quicklist` uses a ziplist as a sequence with a size; `Replication` loads a
snapshot in one step, which `Transfer` takes apart, and `Rdb` shows that it gives
back what was saved; `Persistence` loads commands, which `Keyspace` shows to
reproduce the data set.

## Its runs

A composed run starts in one `part` and stays in it, so it checks the modules
side by side, not their product.

| Run | Parts | Checks |
|---|---|---|
| `server` | Dict, Cluster, Persistence | `TablesSound`, `TraversalsComplete`, `RehashEnds`; `ElectionsSafe`, `ReshardingSafe`, `ClusterConverges`; `FilesSound`, `AnswersDurable`, `EventuallySynced` |
| `peers` | Sentinel, Replication | `FailoverSafe`, `ConfigMonotone`; `ReplicaConsistent`, `WaitHonest` |
| `torn_tail` | Persistence | `AnswersKept` fails |
| `data` | the other nineteen | `PropagationExact`, `TransactionsSound`, `BlockingSound`, `ZsetExact`, `StreamExact`, `SetsAndHashesExact`, `StringsExact`, `ListSound`, `PackedSound`, `RaxSound`, `SnapshotExact`, `MemorySound`, `ServingSound` |

What they show:

- a dictionary answers exactly at every moment of a rehashing, and neither a
  cursor nor a safe iterator misses a key that is there throughout;
- a cluster node votes once per epoch, restarts included, no two replicas win one
  epoch, no acknowledged write is lost by a resharding, and nodes that keep
  talking agree on the owners of slots;
- the append only file with its buffers gives the data set, across rewrites,
  failed writes and restarts, and with `always` an answered write survives a power
  loss that cuts the file at any byte. Both leave out a file that was truncated
  inside a transaction or right behind the dump it begins with, until a
  rewrite replaces it (`damaged`): there the code loses data, which `torn_tail` shows;
- Sentinels start no failover of their own on the word of a minority, and go back to an older
  configuration only at the end of a failover of their own;
- a connected replica is a copy of its master whichever way it was
  synchronised, and WAIT counts only replicas that have the write;
- every data type, in every encoding, has the content a reference definition
  gives it, and a replica that runs what is propagated has the same, but for the
  expires that INCRBYFLOAT drops there (`floated`) and the scripts that go on
  after an OOM error (`apart`);
- requests and replies keep their order and content however they are cut.

**Bounds.** Every module has scenarios (`MCCluster`, `MCPersistence`,
`MCSentinel`, `MCReplication`, `MCTypes`, `MCServing`), each with budgets for the
things that can go on for ever: writes, faults, restarts, epochs, commands. A
scenario is chosen for one kind of event and has enough budget for it to happen twice
or to meet one other. Widths and limits that are large in the code (a byte, the
listpack size, the backlog, the output buffer) are constants and small, so
that wrapping, splitting and overflowing happen within a few steps. Three keys whose
hashes part at different bits reach every shape of two small tables. Three
Sentinels and three voting masters are the least with a majority that is not
everybody. The mutants show that the cases are reached: each is found within the same bounds.

The Redis runs say `CHECK_DEADLOCK FALSE`: when the budgets of a scenario
are spent nothing more happens.

**Fairness** (`server` only).

- `Dict`: the cron rehashes again and again while nobody iterates (strong
  fairness of `RehashMs`: `databasesCron` calls it on every tick, but an open safe
  iterator pauses it), and whoever iterates goes on and releases the iterator.
- `Cluster`: nodes ping each other for ever, so a packet between any two nodes that would
  change something is processed in the end. The claim is limited to deployments
  in which no further failure happens (`conf.converges`).
- `Persistence`: the event loop, the cron, the clock, the fsync thread and the children
  keep running (weak fairness of each).

`Spec`s of the other modules have no fairness: their properties are invariants
and step properties.

# Proofs

Each theorem holds for all values of the constants that satisfy the named
assumptions. They are assumptions of the module (`ASSUME`), or the predicate
`Deployable` of `Cluster`, `Sentinel`, `Replication` and `Events`; TLC evaluates all of them in the runs.

## Spoiler

The assumptions of `Ordering`: numbers are integers, `None` is not a value of a
column, and updates, ban rows and bounds have their types.

- `Invariance` (OrderLedger_proofs): `Spec => []Inv`. `TypeOK` alone is not inductive: `OrderCommit`
  writes `job[w].row` and needs it to be a row. `Inv` adds, per worker, what the
  handler's variables hold at each point (`JobInv`: a store holds a food that
  exists and the number it computed from the loaded row, a cancel holds an order
  in the table and that order's own food and units), that every order's food exists
  (`OrdersHaveFoods`: rows are never deleted), and that order numbers in
  use are distinct and not in the table (`FreshNumbers`). One lemma per action;
  `OthersKeepJobInv` discharges all other workers at once because every step only
  grows the tables (`Grows`).
- `Typing` (`[]TypeOK`), `OrdersKept` (`OrderHistory`: only three actions write
  orders), `NoPhantomOrders` (`[]AnnouncedOrdersExist`).
- `StockNeverNegative`: `[]NonNegativeStock` if requests carry no
  negative number, a condition the validation rules do not impose. Since workers
  overwrite each other's numbers, no accounting gives this; `StockInv` says that every
  number a handler is going to write was computed from a row it loaded and checked itself.
- `Conservation`: `[]Conserved`, by `LedgerInv` on top of
  `Inv`. `SavedByDifference` is the heart: an update that is not stale changes
  remaining by exactly the difference computed, even when `save` writes nothing.
- Serial_proofs, under `OneWorker` (requests are served one after the other, and
  may fail anywhere): `SerialReturnedOnce`, `SerialNotOversold` and
  `SerialImplementsShop`, the refinement of `Shop`. `SerialInv` says that what the
  handler holds is what the tables hold, so that no value is stale when it is
  written (`NoClash`), and that only cancelled orders have units
  out. `SerialReturnedOnce` and `SerialNotOversold` also assume that requests carry
  no negative number. `OwedInv` then needs no sum over the orders: the units that the one worker
  is about to put back are known to be owed. For the refinement each action maps to
  a step of `Shop` or to a stutter.
- `SerialUniqueNames` (Serial_proofs): `[]UniqueNames` under `OneWorker` if no
  update moves a food to another restaurant (`NoMoves`). Both are needed: two
  workers pass the unique rule together, and the rule looks at the restaurant the
  food leaves. `NamesInv` says that the name a handler is going to write is free
  and that the row it updates is the one it loaded.

## Dict

For every finite set of keys, every hash function, every width and every tuning
constant (`DictAssumption`, `SizesAssumption`: the table sizes are positive
numbers, one of which has room for twice the keys).

- `DictInvariance`: `DictOK(d, keys)` is inductive. The counters alone do not
  determine the state: it needs that each key is in the bucket of its hash, that
  no key is in both tables, that the second table exists only during a rehashing, and that the
  buckets below `rehashidx` are empty. Each C function is shown once to take a dictionary
  that holds `K` to one that holds the expected set; the actions follow.
- `TablesAlwaysSound`: `[]TablesSound`. Lookups, counters and random draws.
- `IterationAlwaysExact`: `[]IterationExact`. `IterInv` describes the iterator by
  what is in front of it (`Front`: later buckets, then the second table): what is
  left is in the rest of the chain or in front, what was seen is in neither. That
  no bucket moves meanwhile is `d.iterators = 1`, which stops the rehashing.

## Cluster

For every set of deployments with finitely many nodes (`Deployable`), any number
of packets, failures, restarts, takeovers and reshardings.

- `VotesRecorded`: for every node, `lastVoteEpoch` is at most the `currentEpoch`
  in nodes.conf, which is at most the one in memory, and no vote of the node is in a
  later epoch than `lastVoteEpoch`. The middle one is needed because a restart
  reads the file: without it a node could come back to an epoch it voted in.
- `VotesOncePerEpoch`: `[]OneVotePerEpoch`, a conjunct of `ElectionsSafe`.

## Sentinel

For every finite set of Sentinels, all instances, quorums, priorities and bounds
(`Deployable`), and any losses, restarts and forced failovers.

- `SentinelInvariance`: the memory of each Sentinel is `Sound` and agrees with
  its file. `Known`: `promoted_slave` is set exactly in the states that use it.
  `Counted`: the votes a Sentinel remembers, its own and its peers', were cast,
  and its own are in epochs up to `leader_epoch`. `Elected`: it leads only what it won, unless an
  operator forces failovers. `FileOK`: the file has the `leader_epoch` of
  memory, so a restart forgets no vote.
- `SentinelMemory_proofs` shows, function by function, what the code does to one
  memory; the lemma `Majority` is about `sentinelGetLeader`: the winner has the
  votes of more than half of all Sentinels, even if the quorum is smaller.
  `Sentinel_proofs` lifts this to steps: a step changes one Sentinel, casts at
  most one vote, later than all others of that Sentinel, and wins at most one election.
- `OneVoteEach`, `LeadersHaveMajorities`, `PromotedAlwaysKnown`,
  `ConfigsFromElections`, and together `FailoverAlwaysSafe`: `[]FailoverSafe`.
- `ConfigsMonotone`: `ConfigMonotone`. A running Sentinel's `config_epoch`
  decreases only when it completes a failover of its own. The stronger claim, that
  it never decreases, is false: see the observations.

`Majority` speaks of votes in the epoch of the failover *or later ones*. The
epochs of the votes counted may differ, as the observations say, so two leaders
of one epoch are not excluded by it and no theorem claims that.

## Replication

For every set of servers and databases, any topology in which no server is its own
master (`Deployable`), any backlog size, and any number of writes, broken
connections, failed saves and loads, changes of role and restarts.

- `ReplicationInvariance`: `Good(node, link)` is inductive. `OffsetsAgree` alone
  is not: that the master client and the server advance together needs that a
  connected replica has a backlog, because only `feedReplicationBacklog` moves
  `master_repl_offset`. `Sound` adds, per server, which of the two master clients
  `repl_state` allows and the backlog of a connected replica. `Linked` adds, per
  connection, that it goes to the configured master and that `+CONTINUE` can only
  reach a replica that still has the cached master it asked with. One
  lemma per C function on a server struct (`DisconnectedSound`, `Resumes`,
  `LoadedSound`, ...), then one per action.
- `OffsetsAlwaysAgree`: `[]OffsetsAgree`, and `SlavesAlwaysHaveBacklog`:
  `[]SlavesHaveBacklog`, two of the three facts the run checks as
  `ReplicaConsistent`. The lemma `Based` is why PSYNC does not break the second:
  the first slave creates the backlog, and only a master without one takes a new id.

## Events

For every number of descriptors, every resolution of the clock (`Deployable`: there
is a descriptor, a second has milliseconds) and every scenario, whatever handlers
add, delete, close, open, make or cancel from inside the loop. The clock is a number
without a bound, and is set back by any amount at the top of the loop or between
two timers.

- `EventsInvariance`: `Inv` is inductive. It is the conjunction of three parts.
  `Files`: a descriptor with events is a connection's, and its events are that
  connection's (`Owned`); the kernel watches what the table says (`Kernel`). It
  holds between any two calls of a handler, because `Close` deletes the events
  before the descriptor can be given away; that is why a stale fired event finds
  no mask. `Loop`: an event taken without a barrier never gets one while it is
  served (`NoNewBarrier`), and one taken with it has its writable handler called
  first. `Clockwork`: timers on the list plus those finalised are those made, the
  numbers in use are distinct and not cancelled, and what the pass has gone over
  is due after the earliest time the clock showed in it, `low` (`Passed`). A timer a handler makes goes before the
  one that runs, so `Passed` needs that its number is above `maxId`.
- Lemmas: `AddToNowIs` and `IsTimeIs` show that seconds and milliseconds kept
  apart add and compare as the time they stand for; `TimeoutIs` that
  `aeSearchNearestTimer` finds a timer.
- `TableAlwaysSound`, `HandlersAlwaysSound`, `TimersAlwaysSound`: `[]TableSound`,
  `[]HandlersSound`, `[]TimersSound`, the three facts the `data` run checks of the
  loop. `TimersSound` says which timers a pass leaves behind: none that was due at
  every time the clock showed during it. It does not say that the poll wakes up in
  time, which a clock set back prevents: see the observations.

## Only model-checked

- Liveness: `EveryRequestAnswered`, `RehashEnds`, `ClusterConverges`,
  `EventuallySynced`. Fairness and ENABLED are beyond the prover.
- `LedgerExact`: a sum over the orders, which needs induction over data.
- `UniqueNames` with several workers: it does not hold of them.
- `ScanComplete`: the reversed cursor is arithmetic on the bits of a number.
- `OneElectedPerEpoch`, `SlotsOwnedByMasters` of `Cluster`: they depend on the
  deployment. Nodes may differ on who has slots and so on the size of the quorum,
  and CLUSTER SETSLOT NODE does not ask whether the node is a master.
- That a replica becomes an exact copy, and `WaitHonest` (`Replication`): what a
  dataset is after a queue of entries is a fold, which needs induction over data.
- `Persistence`, `Expiry`, `Eviction` and the other
  modules of the `data` run. Those with RECURSIVE operators are out of the
  prover's reach; their operators are compared with reference definitions on all
  inputs of a scenario.

# Observations

Read in the code while modelling. Where a property excludes such a case the module says so.

Sentinel
- With two forced failovers a Sentinel can adopt a newer `config_epoch` from a
  hello with the address it already has, without leaving its failover, and then
  install its older `failover_epoch` (`sentinelProcessHelloMessage`,
  `sentinelRefreshInstanceInfo`).
- `sentinelGetLeader` (3839-3902) counts peers' votes of `current_epoch` and its own
  of the epoch it is called with, the failover's; its comment (3833-3838) speaks of one epoch.
- After a timeout in the reconfiguration SLAVEOF is sent to the remaining replicas
  (about 4262-4283), the promoted one not excepted.

Persistence and propagation
- After a failed write `aof_last_write_status` refuses writes until a flush
  succeeds (aof.c:457-477). A rewrite that ends meanwhile empties the buffer
  (1768-1769) and leaves the status, so there is nothing to flush and writes stay refused.
- A command cut inside MULTI makes the load truncate at `valid_up_to` (aof.c:836),
  behind the MULTI, not at `valid_before_multi` (846). The MULTI stays open, and
  the next load drops what was appended since, answered or not (`torn_tail`). The same follows
  when a second MULTI behind it is not closed: it moves `valid_before_multi` (813).
- The RDB preamble does not move `valid_up_to` (aof.c:704, 732-749): a command cut right
  behind it truncates the file to nothing, the dump included.
- `INCRBYFLOAT` is propagated as SET and drops the TTL on replicas, where its
  comment speaks of no differences (t_string.c:423-430).
- AOF rewrite of a stream that is empty with last id 0-0 loses the key
  (aof.c:1188-1200); pending entries of deleted messages are lost too; consumers
  without pending entries, and delivery counts of history reads, are not propagated.
- `HINCRBYFLOAT` by infinity on a missing key leaves an empty hash that is not
  propagated (t_hash.c:603-621). `SINTERSTORE` with a missing source deletes the
  destination without a "del" event (t_set.c:807-818).
- A script that swallows an OOM or MISCONF error and then writes is replicated
  verbatim, while replicas do not make that check (scripting.c:520-530).
- A stored checksum of 0 turns the check of a dump off (rdb.c, about 2105-2112).

Key space and expiry
- MOVE, SWAPDB, PERSIST, eviction and expiry do not touch watched keys. SORT
  STORE over a string does not wake blocked clients.
- SWAPDB does not move the bits of `slaveKeysWithExpire`.
- `current_db` wraps at 2^32 (expire.c:100): unless the number of databases divides
  it, the rotation starts over before it is complete. `Rotation` is about the visits between.
- `keys_freed` is declared inside the loop (evict.c:470), so the re-check
  announced at 588-594 never happens.

Structures
- `__quicklistDecompressNode` does not clear `recompress` (quicklist.c:215-231): a
  marked node that becomes an end of the list is compressed later (333-339).
  `Quicklist` stops such histories (`stale`). The `at_tail` test (857) is never true.
- `raxSeek` with "<" that stops inside a compressed node leaves `it->data`
  as it was (rax.c:1663-1676). A compressed node that stops being a key is not
  joined with its neighbours (1081).
- XREAD after an ID whose sequence number is 2^64-1 wraps to the start of that
  millisecond (t_stream.c:1524).
- NaN of ZINTERSTORE is replaced only for the smallest source (t_zset.c:2285).
- BITFIELD: i64 shifts by 64 (bitops.c:260-261, 316, 359), so that width is left
  out; a signed SET far below the minimum saturates to the maximum (332-341).

Connections
- With CLIENT REPLY OFF, QUIT leaves a client that is never closed. Inline requests
  drop empty quoted arguments (networking.c:1232-1239): `RequestsExact` is about the others.
- A clock set back between `processTimeEvents` and the poll makes the loop
  oversleep (ae.c:375-395). No property speaks of how late a timer runs.

# Not modelled

- Sentinel: TILT, discovery, scripts. Replication: the old SYNC. Cluster:
  handshakes, replica migration, manual failover, RESTORE.
- Dict: `dictGetSomeKeys`, unsafe iterators, statistics. Rax: out of memory,
  random walk. Listpack: the widest integers. Quicklist: dup, rotate.
- Stream: XINFO, parsing of IDs, blocking reads without a group. HyperLogLog: the estimator and the hash.
  Strings: floats are whole numbers, expire times a flag.
- Scripts: Lua debugger and libraries. Rdb: types of older versions, modules.
  Clients: maxclients, protected mode, formatting.
- The modules API (it depends on the code of a module), the stand-alone tools,
  configuration, diagnostics, and the floating-point geometry of geo.
- Spoiler: see the table of its parts.
