--------------------------- MODULE MCReplication ---------------------------
(***************************************************************************)
(* Small deployments of Replication: three servers as a star or a chain,   *)
(* and pairs with more happening between them.                             *)
(***************************************************************************)
EXTENDS Naturals, TLC

CONSTANTS n1, n2, n3, Writes, None

Star  == (n1 :> None) @@ (n2 :> n1) @@ (n3 :> n1)
Chain == (n1 :> None) @@ (n2 :> n1) @@ (n3 :> n2)

Pair  == (n1 :> None) @@ (n2 :> n1) @@ (n3 :> None)

Quiet == [writes |-> 0, drops |-> 0, pings |-> 0, saves |-> 0, failures |-> 0,
          roles |-> 0, frees |-> 0, restarts |-> 0, acks |-> 0]

\* One replica is promoted, the old master or the other replica follows it
Failover == [nodes |-> {n1, n2, n3}, hosts |-> Star, synced |-> TRUE,
             budget |-> [Quiet EXCEPT !.writes = 2, !.roles = 2]]

\* A replica of a replica, and the one between them changes masters
Chained == [nodes |-> {n1, n2, n3}, hosts |-> Chain, synced |-> TRUE,
            budget |-> [Quiet EXCEPT !.writes = 2, !.roles = 1]]

\* A server comes back from its RDB file
Restarts == [nodes |-> {n1, n2}, hosts |-> Pair, synced |-> TRUE,
             budget |-> [Quiet EXCEPT !.writes = 2, !.roles = 1, !.saves = 1,
                                      !.restarts = 1, !.drops = 1]]

\* First synchronizations, one attaching to the BGSAVE of the other
Boots == [nodes |-> {n1, n2, n3}, hosts |-> Star, synced |-> FALSE,
          budget |-> [Quiet EXCEPT !.writes = 1, !.saves = 1, !.failures = 1]]

\* The backlog wraps and is outrun
Wraps == [nodes |-> {n1, n2}, hosts |-> Pair, synced |-> TRUE,
          budget |-> [Quiet EXCEPT !.writes = 2, !.drops = 2, !.pings = 3]]

\* The backlog is freed
Idle == [nodes |-> {n1, n2}, hosts |-> Pair, synced |-> TRUE,
         budget |-> [Quiet EXCEPT !.writes = 2, !.drops = 1, !.frees = 1,
                                  !.roles = 2]]

\* Clients wait for acknowledgements
Waits == [nodes |-> {n1, n2}, hosts |-> Pair, synced |-> TRUE,
          budget |-> [Quiet EXCEPT !.writes = 2, !.acks = 2, !.roles = 2,
                                   !.restarts = 1]]

Deployments == {Failover, Chained, Restarts, Boots, Wraps, Idle, Waits}

\* The writes are interchangeable
Symmetric == Permutations(Writes)
=============================================================================
