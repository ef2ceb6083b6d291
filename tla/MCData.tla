------------------------------- MODULE MCData -------------------------------
(***************************************************************************)
(* The commands of the key space, the data structures behind them, and the *)
(* parts that serve clients and keep the memory and the snapshots.  A      *)
(* behaviour is one of one part: Init chooses which.                       *)
(***************************************************************************)
EXTENDS Integers, Sequences

CONSTANT None

VARIABLES part, s

Types == INSTANCE MCTypes WITH NoKey <- None
Serving == INSTANCE MCServing

K == INSTANCE Keyspace WITH
       Keys <- {"x", "y"}, Dbs <- {0, 1}, Clients <- {"c1", "c2", "c3"},
       Scenarios <- Types!KeyScenarios

Z == INSTANCE Zset WITH
       Members <- Types!ZsetMembers, Long <- {3}, MaxEntries <- 2, MaxLevel <- 2,
       Finite <- Types!ZsetFiniteScores, Levels <- Types!ZsetSomeLevels,
       Sources <- Types!ZsetOtherKeys, Commands <- Types!ZsetCommands

St == INSTANCE Stream WITH
        SeqMax <- 7, MaxEntries <- 2, MaxBytes <- 18, NoKey <- None, Scenarios <- Types!StreamScenarios

L == INSTANCE Quicklist WITH
         Weight <- Types!ListWeights, Shrinks <- {1, 2}, MinCompress <- 16, Optimal <- <<20>>, Safety <- 21,
         Scenarios <- Types!ListScenarios, Commands <- Types!ListCommands

Zl == INSTANCE Ziplist WITH
         Bits <- Types!ZiplistWidths, ImmMax <- Types!ZiplistImmMost, MaxLength <- 5,
         Scenarios <- Types!ZiplistScenarios

Lp == INSTANCE Listpack WITH
         Unknown <- 4, Scenarios <- Types!ListpackScenarios

R == INSTANCE Rax WITH
         NoKey <- 0, Scenarios <- Types!RaxScenarios

Sets == INSTANCE SetType WITH
         Limit <- Types!SetLimits, MaxIntset <- 3, PopMul <- 1, Scenarios <- Types!SetScenarios

Hashes == INSTANCE HashType WITH
         MaxEntries <- 2, MaxValue <- 3, MaxLong <- 7, Scenarios <- Types!HashScenarios

Hll == INSTANCE HyperLogLog WITH
         P <- 3, Q <- 4, ValMax <- 3, ValLen <- 3, ZeroLen <- 2, XZeroLen <- 8, MaxBytes <- 22,
         Scenarios <- Types!HllScenarios

Str == INSTANCE Strings WITH
         W <- 3, Word <- 2, Unroll <- 2, PopAlign <- 2, PopBlock <- 3, Base <- 3, SharedIntegers <- 3, MaxLength <- 3,
         Scenarios <- Types!StringsScenarios

Scr == INSTANCE Scripts WITH
         Keys <- {1, 2}, Script <- Serving!ScriptsScript, CacheSize <- 1, Scenarios <- Serving!ScriptsScenarios

Dump == INSTANCE Rdb WITH
         W <- 5, LitBits <- 2, HashBits <- 3, Unroll <- 2, MinCompress <- 8, MaxIntText <- 8, Base <- 3,
         Scenarios <- Serving!RdbScenarios

Tr == INSTANCE Transfer WITH
         Conns <- 1..2, IoLen <- 3, Chunk <- 2, ReadLen <- 3, Scenarios <- Serving!TransferScenarios

Ev == INSTANCE Eviction WITH
         Dbs <- <<{1, 2}, {3}>>, PoolSize <- 2, Samples <- 2, MaxIdle <- 2, Effort <- 2, Scenarios <- Serving!EvictionScenarios

Ex == INSTANCE Expiry WITH
         DbNum <- 3, Keys <- {1, 2}, DbsPerCall <- 2, Lookups <- 4, CheckEvery <- 2, FastGap <- 1, Counter <- 7,
         MaxBit <- 2, NoExpire <- 3, MaxTime <- 2, Scenarios <- Serving!ExpiryScenarios

El == INSTANCE Events WITH
         SetSize <- 2, Unit <- 2, MaxClients <- 3, MaxTimers <- 3, MaxClock <- 4,
         Scenarios <- {[files |-> TRUE, backs |-> 0, polls |-> 2],
                       [files |-> FALSE, backs |-> 0, polls |-> 3], [files |-> FALSE, backs |-> 2, polls |-> 2]}

\* What the theorems about the event loop assume of it.
ASSUME LoopMakesSense == El!Deployable

Cl == INSTANCE Clients WITH BufSize <- 3, Chunk <- 2, Scenarios <- Serving!ClientsScenarios

Pr == INSTANCE Protocol WITH
         InlineMax <- 8, BigArg <- 3, IoLen <- 8, MaxBulk <- 4, MaxQuery <- 20, MaxCount <- 3,
         Scenarios <- Serving!ProtocolScenarios

PartInit ==
    \/ part = "keyspace" /\ K!Init
    \/ part = "zset" /\ Z!Init
    \/ part = "stream" /\ St!Init
    \/ part = "lists" /\ L!Init
    \/ part = "ziplist" /\ Zl!Init
    \/ part = "listpack" /\ Lp!Init
    \/ part = "rax" /\ R!Init
    \/ part = "sets" /\ Sets!Init
    \/ part = "hashes" /\ Hashes!Init
    \/ part = "hll" /\ Hll!Init
    \/ part = "strings" /\ Str!Init
    \/ part = "scripts" /\ Scr!Init
    \/ part = "dump" /\ Dump!Init
    \/ part = "transfer" /\ Tr!Init
    \/ part = "eviction" /\ Ev!Init
    \/ part = "expiry" /\ Ex!Init
    \/ part = "events" /\ El!Init
    \/ part = "clients" /\ Cl!Init
    \/ part = "protocol" /\ Pr!Init

PartNext ==
    /\ \/ part = "keyspace" /\ K!Next
       \/ part = "zset" /\ Z!Next
       \/ part = "stream" /\ St!Next
       \/ part = "lists" /\ L!Next
       \/ part = "ziplist" /\ Zl!Next
       \/ part = "listpack" /\ Lp!Next
       \/ part = "rax" /\ R!Next
       \/ part = "sets" /\ Sets!Next
       \/ part = "hashes" /\ Hashes!Next
       \/ part = "hll" /\ Hll!Next
       \/ part = "strings" /\ Str!Next
       \/ part = "scripts" /\ Scr!Next
       \/ part = "dump" /\ Dump!Next
       \/ part = "transfer" /\ Tr!Next
       \/ part = "eviction" /\ Ev!Next
       \/ part = "expiry" /\ Ex!Next
       \/ part = "events" /\ El!Next
       \/ part = "clients" /\ Cl!Next
       \/ part = "protocol" /\ Pr!Next
    /\ UNCHANGED part

PartSpec == PartInit /\ [][PartNext]_<<part, s>>

-----------------------------------------------------------------------------
(* Keyspace. *)

\* Loading the append only file gives the data set of the server, expired,
\* evicted and popped keys included, and so do the stream of a script's writes
\* and the scripts that are sent in place of it, unless one of these went on
\* after an OOM error that pcall told it of; a script that was killed wrote
\* nothing; its values survive the way into Lua and back (server.c, call and
\* propagate; scripting.c, luaRedisGenericCommand, evalGenericCommand,
\* replicationScriptCacheAdd).
PropagationExact ==
    /\ part = "keyspace" => K!AofReproduces
    /\ part = "scripts" => Scr!StreamsAgree /\ Scr!KilledHarmless /\ Scr!RepliesConvert

\* A transaction runs only if no watched key was changed, and then runs every
\* command that was queued (multi.c, touchWatchedKey, execCommand and
\* flagTransaction; blocked.c, handleClientsBlockedOnKeys).
TransactionsSound == part = "keyspace" => K!WatchedUnchanged /\ K!TransactionWhole

\* No client stays blocked on a key that could serve it, and the tables of
\* blocked, ready and watched keys agree with what clients remember (blocked.c,
\* handleClientsBlockedOnKeys and unblockClientWaitingData; multi.c,
\* unwatchAllKeys).
BlockingSound == part = "keyspace" => K!BlockedServed /\ K!IndexesAgree

-----------------------------------------------------------------------------
(* Data types. *)

\* Every sorted set command leaves the members and scores it should in both
\* encodings, never a NaN, queries are exact, and the skiplist's links, spans,
\* back pointers and levels and the dictionary's pointers are sound (t_zset.c,
\* zsetAdd, zsetDel, zslInsert, zslDeleteNode, zunionInterGenericCommand).
ZsetExact ==
    part = "zset" => /\ Z!ListSound /\ Z!DictPointsToNodes /\ Z!NeverNaN
                     /\ Z!CommandsExact /\ Z!QueriesExact

\* Ranges, counters and pending entries of a stream are exact, and a replica,
\* a rewritten append only file and a dump have the stream of the master, its
\* groups included (t_stream.c, streamIteratorGetID, streamTrimByLength,
\* streamReplyWithRange, streamPropagateXCLAIM; aof.c, rewriteStreamObject).
StreamExact ==
    part = "stream" => /\ St!RangesExact /\ St!CountersExact /\ St!PendingAgree
                       /\ St!ReplicaSame /\ St!RewriteSame /\ St!DumpSame

\* Sets and hashes: a replica that runs what is propagated has the same
\* content, replies are those of the mathematical set or map whatever the
\* encodings of the operands, every change is signalled to WATCH and the
\* encoding fits the content (t_set.c, sinterGenericCommand, spopWithCount,
\* smoveCommand; intset.c, intsetUpgradeAndAdd; t_hash.c, hashTypeSet,
\* hincrbyCommand).
SetsAndHashesExact ==
    /\ part = "sets" => /\ Sets!ReplicaAgrees /\ Sets!RepliesExact
                        /\ Sets!ChangesSignalled /\ Sets!EncodingSound
    /\ part = "hashes" => Hashes!ReplicaAgrees /\ Hashes!RepliesExact /\ Hashes!EncodingSound

\* Strings: replicas agree after every command, the expires of the keys that
\* INCRBYFLOAT was applied to left out, integers shared by many keys are
\* never written to, bit operations and numbers are exact at the edges of
\* their width; a HyperLogLog, in both encodings and across promotions and
\* merges, has the largest count seen for each register (t_string.c, bitops.c,
\* object.c, dbUnshareStringValue; hyperloglog.c, hllSparseSet, hllDenseSet).
StringsExact ==
    /\ part = "strings" => /\ Str!ReplicaAgrees /\ Str!SharedIntact /\ Str!RepliesExact
                           /\ Str!NumbersExact /\ Str!SearchExact /\ Str!OverflowExact
    /\ part = "hll" => Hll!RegistersExact /\ Hll!CountsExact

-----------------------------------------------------------------------------
(* Encodings. *)

\* A quicklist that is split, merged, compressed and indexed from both ends
\* keeps its elements and its counters, and never reads a compressed node as a
\* ziplist (quicklist.c, _quicklistInsert, _quicklistMergeNodes,
\* __quicklistCompress, quicklistDelRange, quicklistIndex).
ListSound ==
    part = "lists" => L!ContentExact /\ L!CountsExact /\ L!NeverMisread /\ L!IndexExact

\* Ziplists and listpacks can be read in both directions after every change of
\* an entry's size, cascades of such changes included, and give back the values
\* that were stored (ziplist.c, __ziplistCascadeUpdate, __ziplistDelete,
\* zipLoadInteger; listpack.c, lpInsert, lpPrev, lpSeek).
PackedSound ==
    /\ part = "ziplist" => Zl!ValuesKept /\ Zl!LinksExact /\ Zl!QueriesExact
    /\ part = "listpack" => Lp!ValuesKept /\ Lp!BackwardsExact /\ Lp!SeekExact

\* A radix tree is the map its insertions and removals make it, none of its
\* nodes is an empty branch, and an iterator that seeks and steps, and seeks
\* again from the key it stands at when that key is removed, returns the keys
\* in order (rax.c, raxGenericInsert, raxRemove, raxSeek, raxIteratorNextStep;
\* t_stream.c, streamTrimByLength).
RaxSound == part = "rax" => R!MapExact /\ R!TreeSound /\ R!IteratorExact

-----------------------------------------------------------------------------
(* The server around them. *)

\* A snapshot gives back the data it was made of, its strings whatever their
\* encoding, and damage is noticed; a replica that receives one while its
\* master writes goes on with the stream at the place the snapshot ends
\* (rdb.c, rdbSaveRio, rdbLoadRio, rdbEncodeInteger; lzf_c.c; replication.c,
\* sendBulkToSlave, readSyncBulkPayload, putSlaveOnline).
SnapshotExact ==
    /\ part = "dump" => Dump!LoadsWhatWasSaved /\ Dump!DamageDetected /\ Dump!StringsExact
    /\ part = "transfer" => Tr!SnapshotThenStream /\ Tr!OnlineHasAll

\* A command that goes on finds the memory under its limit, keys are removed
\* only if the policy of the moment allows it, and databases are searched for
\* expired keys in rotation, a replica's own keys included (evict.c,
\* freeMemoryIfNeeded; expire.c, activeExpireCycle, expireSlaveKeys).
MemorySound ==
    /\ part = "eviction" => Ev!EvictionSound /\ Ev!PoolSound
    /\ part = "expiry" => Ex!Rotation /\ Ex!OwnKeysListed

\* Requests are those the client sent however they are cut, the empty arguments
\* of inline ones left out; replies come in their order and none is left behind;
\* no handler runs for a connection that is closed; no timer runs early or once
\* deleted, and a pass leaves none that was due throughout (networking.c,
\* readQueryFromClient, addReply, handleClientsWithPendingWrites, freeClient;
\* ae.c, processTimeEvents).
ServingSound ==
    /\ part = "protocol" => Pr!RequestsExact /\ Pr!ErrorsExact /\ Pr!QuotesExact /\ Pr!OffsetsExact
    /\ part = "clients" => Cl!RepliesInOrder /\ Cl!NoneStranded /\ Cl!ListsAgree
    /\ part = "events" => El!TableSound /\ El!HandlersSound /\ El!TimersSound
=============================================================================
