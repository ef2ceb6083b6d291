------------------------------ MODULE MCPeers ------------------------------
(***************************************************************************)
(* Sentinels that fail a master over, and replicas that follow a master.   *)
(* A behaviour is one of one of them: Init chooses which.                  *)
(***************************************************************************)
EXTENDS Sentinel

CONSTANTS s1, s2, s3, rm, r1, r2, n1, n2, n3, w1, w2

VARIABLES part, deployment, node, link, ids, woff, budget

servers == <<deployment, node, link, ids, woff, budget>>

SentinelConfigs == INSTANCE MCSentinel
ThreeSentinels == SentinelConfigs!Three
ThreeInstances == SentinelConfigs!Addresses
SentinelDeployments == SentinelConfigs!Deployments

ReplicationConfigs == INSTANCE MCReplication WITH Writes <- {w1, w2}
R == INSTANCE Replication WITH
       Nodes <- {n1, n2, n3}, Dbs <- {0, 1}, Writes <- {w1, w2}, BacklogSize <- 3,
       Configs <- ReplicationConfigs!Deployments, conf <- deployment

ASSUME DeploymentsMakeSense == Deployable /\ R!Deployable

\* The Sentinels rest in one of their initial states while the servers move
PartInit ==
    /\ Init
    /\ \/ /\ part = "sentinel"
          /\ deployment = None /\ node = None /\ link = None /\ ids = None
          /\ woff = None /\ budget = None
       \/ part = "replication" /\ conf = SentinelConfigs!Elections /\ R!Init

PartNext ==
    \/ part = "sentinel" /\ Next /\ UNCHANGED <<part, servers>>
    \/ part = "replication" /\ R!Next /\ UNCHANGED <<part, vars>>

PartSpec == PartInit /\ [][PartNext]_<<part, vars, servers>>

\* s1 and s2 are configured alike, and so are the writes
Interchangeable == SentinelConfigs!Interchangeable \cup ReplicationConfigs!Symmetric

-----------------------------------------------------------------------------
(* The properties of Replication, for its behaviours. *)

\* A connected replica becomes an exact copy of its master, however it was
\* resynchronized; both count the same offset for the same place of the
\* stream; a server with replicas keeps its backlog (replication.c,
\* masterTryPartialResynchronization, readSyncBulkPayload, replicationCron).
ReplicaConsistent ==
    part = "replication" => R!ReplicaConsistent /\ R!OffsetsAgree /\ R!SlavesHaveBacklog

\* WAIT counts only replicas that have the write (replication.c,
\* replicationCountAcksByOffset).
WaitHonest == part = "replication" => R!WaitHonest
=============================================================================
