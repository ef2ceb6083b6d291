------------------------------ MODULE MCServer ------------------------------
(***************************************************************************)
(* The parts of a server that must make progress: the incremental          *)
(* rehashing of Dict, the nodes of Cluster, the files of Persistence.  A   *)
(* behaviour is one of one part, while the others rest: Init chooses which. *)
(***************************************************************************)
EXTENDS Dict

VARIABLES part,
    conf, view, saved, held, requests, acks, fails, votes, elected, manager, asking, written, budget,
    s

files == s
nodes == <<conf, view, saved, held, requests, acks, fails, votes, elected, manager, asking, written, budget>>

\* Dict: keys 1 and 2 part at the second bit, 3 parts from them at the first.
ThreeKeys == 1..3
ThreeHashes == [k \in ThreeKeys |-> CASE k = 1 -> 0 [] k = 2 -> 2 [] k = 3 -> 3]

ClusterConfigs == INSTANCE MCCluster
C == INSTANCE Cluster WITH Configs <- ClusterConfigs!Deployments, keys <- held
ASSUME DeploymentsMakeSense == C!Deployable

PersistenceConfigs == INSTANCE MCPersistence
P == INSTANCE Persistence WITH Configs <- PersistenceConfigs!All, Dbs <- {0, 1}

-----------------------------------------------------------------------------
\* A part at rest: no action of it is enabled
FilesRest == s = [up |-> FALSE]
NodesRest ==
    /\ conf = [links |-> {}, nodes |-> {}, converges |-> FALSE]
    /\ view = None /\ saved = None /\ held = None /\ requests = None /\ acks = None
    /\ fails = None /\ votes = None /\ elected = None /\ manager = None /\ asking = None
    /\ written = None /\ budget = None

\* A dictionary without keys rests, unless it is its turn
PartInit ==
    /\ Init
    /\ \/ part = "dict" /\ NodesRest /\ FilesRest
       \/ part = "cluster" /\ C!Init /\ FilesRest
       \/ part = "persistence" /\ P!Init /\ NodesRest

PartNext ==
    \/ part = "dict" /\ Next /\ UNCHANGED <<part, nodes, files>>
    \/ part = "cluster" /\ C!Next /\ UNCHANGED <<part, vars, files>>
    \/ part = "persistence" /\ P!Next /\ UNCHANGED <<part, vars, nodes>>

PartSpec ==
    /\ PartInit /\ [][PartNext]_<<part, vars, nodes, files>>
    /\ Fairness /\ C!Fairness /\ P!Fairness

-----------------------------------------------------------------------------
(* The properties of Cluster and Persistence, for their behaviours. *)

\* No master votes for two replicas in one epoch, even across a crash; two
\* replicas never win one epoch; no node binds a slot to a replica (cluster.c,
\* clusterSendFailoverAuthIfNeeded, clusterHandleSlaveFailover,
\* clusterSetMaster).
ElectionsSafe ==
    part = "cluster" => C!OneVotePerEpoch /\ C!OneElectedPerEpoch /\ C!SlotsOwnedByMasters

\* A node never serves a key of a slot from the side of a resharding that
\* lacks it, and a write that was acknowledged survives the resharding of its
\* slot (cluster.c, getNodeByQuery, clusterUpdateSlotsConfigWith and CLUSTER
\* SETSLOT).
ReshardingSafe == part = "cluster" => C!ReadsFindKey /\ C!WritesKept

\* The nodes of a cluster agree in the end on who owns each slot, and no two
\* masters keep the same epoch (cluster.c, clusterHandleConfigEpochCollision).
ClusterConverges == C!Converges

\* The append only file and its buffer give the data set, wherever a write or
\* the machine stopped; a transaction is loaded as a whole or not at all;
\* server.dirty counts at least the changes the dump lacks (aof.c,
\* backgroundRewriteDoneHandler and loadAppendOnlyFile; rdb.c,
\* backgroundSaveDoneHandlerDisk).  Not claimed of a file that was truncated
\* behind an open MULTI or before its dump, nor of the transaction that was torn.
FilesSound ==
    part = "persistence" => P!AofComplete /\ P!TransactionsWhole /\ P!DirtyBounds

\* With appendfsync always an answered write survives a power loss, and an
\* orderly shutdown loses nothing (aof.c, flushAppendOnlyFile; server.c,
\* prepareForShutdown), with the same exception: see AnswersKept.
AnswersDurable == part = "persistence" => P!AckDurable /\ P!ShutdownKeeps

\* With appendfsync always an answered write is on disk, in a file that gives
\* it back (aof.c, flushAppendOnlyFile: "we have the contract with the user that
\* on acknowledged write data is synced on disk").  Violated: a command torn
\* inside a transaction leaves its MULTI open in the file, and what is appended
\* behind it is queued and dropped by the next load.
AnswersKept == P!AckContract

\* Power is lost while a transaction is written, with appendfsync always
CutSpec ==
    /\ PartInit /\ part = "persistence" /\ s.conf = PersistenceConfigs!Cut
    /\ [][PartNext]_<<part, vars, nodes, files>>

\* With appendfsync everysec what was written reaches the disk (aof.c,
\* flushAppendOnlyFile).
EventuallySynced == P!EventuallySynced
=============================================================================
