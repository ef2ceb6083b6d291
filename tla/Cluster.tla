------------------------------ MODULE Cluster ------------------------------
(***************************************************************************)
(* Redis Cluster (redis-stable/src/cluster.c): the packets nodes exchange  *)
(* on the cluster bus, failure detection, replica elections, configuration *)
(* epochs, slot ownership, and the resharding of a slot with redis-cli.    *)
(*                                                                         *)
(* Each node keeps its own view of the whole cluster.  A packet is read    *)
(* from the view its sender has when the packet is processed: nodes repeat *)
(* their packets for ever, so a packet that is lost or overtaken is one    *)
(* that has no step.  Vote requests and votes are messages of their own,   *)
(* because each is sent once and may arrive late.                          *)
(***************************************************************************)
EXTENDS Naturals, FiniteSets, FiniteSetsExt

CONSTANTS
    Configs,    \* the deployments explored, chosen in Init (see MCCluster)
    None        \* no node: a NULL pointer in a node's tables

VARIABLES
    conf,       \* the deployment
    view,       \* view[i]: what node i knows, see InitView
    saved,      \* currentEpoch in nodes.conf; the other saved fields of a
                \* view are written before anything that depends on them
    keys,       \* keys[i]: the keys node i holds; a key is <<slot, name>>
    requests,   \* the last vote request each replica broadcast
    acks,       \* votes under way
    fails,      \* nodes a FAIL message was broadcast about
    votes,      \* history: <<voter, epoch, replica>>
    elected,    \* history: <<epoch, replica>>
    manager,    \* redis-cli moving slot conf.move: its step, nodes told
    asking,     \* ASK redirections clients follow: <<node, key>>
    written,    \* history: keys written with an OK reply
    budget      \* operations and faults still allowed, by kind

vars == <<conf, view, saved, keys, requests, acks, fails, votes, elected,
          manager, asking, written, budget>>

bus   == <<requests, acks, fails>>
reshard == <<manager, asking, written>>
history == <<votes, elected>>

Nodes == conf.nodes

Slots == conf.slots

-----------------------------------------------------------------------------
(* Reading a view. *)

\* nodeIsMaster(n) in view v
IsMaster(v, n) == v.slaveof[n] = None

\* nodeIsMaster(n) ? n : n->slaveof
MasterOf(v, n) == IF IsMaster(v, n) THEN n ELSE v.slaveof[n]

\* The slots bitmap of node n: clusterDelSlot asserts that it and the slots[]
\* table agree, and only clusterAddSlot and clusterDelSlot write them.
SlotsOf(v, n) == {s \in Slots : v.slot[s] = n}

\* server.cluster->size: clusterUpdateState counts the masters with slots
Size(v) == Cardinality({n \in Nodes : IsMaster(v, n) /\ SlotsOf(v, n) # {}})

\* mutant: half of the masters is enough
NeededHalf(v) == Size(v) \div 2

NeededQuorum(v) == Size(v) \div 2 + 1

ClusterGetMaxEpoch(v) ==
    Max({v.cur} \cup {v.cfg[n] : n \in Nodes})

-----------------------------------------------------------------------------
(* Configuration epochs. *)

\* clusterBumpConfigEpochWithoutConsensus
BumpConfigEpoch(i, v) ==
    LET max == ClusterGetMaxEpoch(v)
    IN  IF v.cfg[i] = 0 \/ v.cfg[i] # max
          THEN [v EXCEPT !.cur = @ + 1, !.cfg[i] = v.cur + 1]
          ELSE v

\* mutant: colliding epochs are left alone
EpochCollisionKept(i, v, sender) == v

\* clusterHandleConfigEpochCollision: of two masters with one epoch, the one
\* with the smaller name takes a new epoch
EpochCollision(i, v, sender) ==
    IF /\ v.cfg[sender] = v.cfg[i]
       /\ IsMaster(v, sender) /\ IsMaster(v, i)
       /\ sender > i
      THEN [v EXCEPT !.cur = @ + 1, !.cfg[i] = v.cur + 1]
      ELSE v

-----------------------------------------------------------------------------
(* Slot ownership.  The operators return the view and the keys of node i. *)

\* clusterSetMaster; the new replica will load its master's dataset, so the
\* keys it held are gone.
SetMaster(i, v, n) ==
    LET closed == IF IsMaster(v, i)
                    THEN [v EXCEPT !.mig = [s \in Slots |-> None],
                                   !.imp = [s \in Slots |-> None]]
                    ELSE v
    IN  [closed EXCEPT !.slaveof[i] = n, !.manual = FALSE]

\* clusterUpdateSlotsConfigWith: rebind the claimed slots whose owner has an
\* older epoch; a node whose master lost its last slot follows the claimant
UpdateSlots(i, v, held, sender, epoch, claimed) ==
    LET curmaster == MasterOf(v, i)
        taken == {s \in claimed :
                    /\ v.slot[s] # sender
                    /\ v.imp[s] = None
                    /\ v.slot[s] = None \/ v.cfg[v.slot[s]] < epoch}
        rebound == [v EXCEPT !.slot =
                      [s \in Slots |-> IF s \in taken THEN sender ELSE @[s]]]
        dirty == {k \in held : k[1] \in taken /\ v.slot[k[1]] = i}
    IN  IF sender = i
          THEN [view |-> v, keys |-> held]
          ELSE IF /\ \E s \in taken : v.slot[s] = curmaster
                  /\ SlotsOf(rebound, curmaster) = {}
                 THEN [view |-> SetMaster(i, rebound, sender), keys |-> {}]
                 ELSE [view |-> rebound, keys |-> held \ dirty]

\* clusterSetNodeAsMaster
SetNodeAsMaster(v, n) == [v EXCEPT !.slaveof[n] = None]

\* mutant: a master that became a replica keeps its slots
RoleSwitchKeepsSlots(v, sender, slaveof) == [v EXCEPT !.slaveof[sender] = slaveof]

\* The role change read from a header: a master that became a replica loses
\* its slots in this view (clusterDelNodeSlots)
RoleSwitch(v, sender, slaveof) ==
    IF slaveof = None
      THEN SetNodeAsMaster(v, sender)
      ELSE [v EXCEPT
              !.slaveof[sender] = slaveof,
              !.slot = IF IsMaster(v, sender)
                         THEN [s \in Slots |->
                                 IF @[s] = sender THEN None ELSE @[s]]
                         ELSE @]

-----------------------------------------------------------------------------
(* Failure detection. *)

\* markNodeAsFailingIfNeeded: PFAIL becomes FAIL with the reports of a
\* majority of the masters, this node included if it is one
MarkFailing(i, v, n, reports) ==
    /\ v.fail[n] = "pfail"
    /\ Cardinality(reports) + (IF IsMaster(v, i) THEN 1 ELSE 0)
         >= NeededQuorum(v)

\* clusterNodeAddFailureReport or clusterNodeDelFailureReport: the reports on
\* node n after sender's entry about it
Report(v, sender, n, failing) ==
    IF failing THEN v.reports[n] \cup {sender} ELSE v.reports[n] \ {sender}

\* clusterProcessGossipSection.  Only nodes that can fail are reported on, and
\* only a master's entries count; no entry bears on another node's.
Gossip(i, v, sender, said) ==
    LET heard == IF IsMaster(v, sender) THEN conf.suspects \ {sender, i} ELSE {}
        failing(n) == said[n] # "ok"
        reports == [n \in Nodes |->
                      IF n \in heard THEN Report(v, sender, n, failing(n))
                                     ELSE v.reports[n]]
    IN  [v EXCEPT
           !.reports = reports,
           !.fail = [n \in Nodes |->
                       IF /\ n \in heard /\ failing(n)
                          /\ MarkFailing(i, v, n, reports[n])
                         THEN "fail" ELSE @[n]]]

\* A PONG clears PFAIL; clearNodeFailureIfNeeded clears FAIL at once for a
\* replica or a master without slots, and otherwise when FAIL is old enough.
Reachable(v, n) ==
    CASE v.fail[n] = "ok" -> {v}
      [] v.fail[n] = "pfail" -> {[v EXCEPT !.fail[n] = "ok"]}
      [] v.fail[n] = "fail" ->
           {[v EXCEPT !.fail[n] = "ok"]} \cup
           (IF ~IsMaster(v, n) \/ SlotsOf(v, n) = {} THEN {} ELSE {v})

-----------------------------------------------------------------------------
(* Headers and packets. *)

\* clusterBuildMessageHdr: a replica announces its master's slots and epoch
Header(i, v) ==
    LET master == MasterOf(v, i)
    IN  [cur |-> v.cur, config |-> v.cfg[master],
         slots |-> SlotsOf(v, master), slaveof |-> v.slaveof[i],
         fail |-> v.fail]

\* The epochs of a header, whatever the packet's type
SeeEpochs(v, sender, h) ==
    [v EXCEPT !.cur = Max({@, h.cur}),
              !.cfg[sender] = Max({@, h.config})]

\* The slots of a header whose owner in view v has a newer configuration
\* than the sender's: the first one decides which UPDATE is sent
Outdated(v, sender, h) ==
    {s \in h.slots : /\ v.slot[s] \notin {sender, None}
                     /\ v.cfg[v.slot[s]] > h.config}

\* clusterProcessPacket for a PING or PONG of sender with header h.  Result:
\* the new view and keys, and the node an UPDATE is sent about.
ProcessPacket(i, v, held, sender, h) ==
    LET seen  == SeeEpochs(v, sender, h)
        role  == RoleSwitch(seen, sender, h.slaveof)
        dirty == SlotsOf(role, MasterOf(role, sender)) # h.slots
        upd   == IF IsMaster(role, sender) /\ dirty
                   THEN UpdateSlots(i, role, held, sender, h.config, h.slots)
                   ELSE [view |-> role, keys |-> held]
        stale == IF dirty THEN Outdated(upd.view, sender, h) ELSE {}
        coll  == IF h.config = upd.view.cfg[i]
                   THEN EpochCollision(i, upd.view, sender)
                   ELSE upd.view
    IN  [view |-> Gossip(i, coll, sender, h.fail),
         keys |-> upd.keys,
         update |-> IF stale = {} THEN None ELSE upd.view.slot[Min(stale)]]

\* clusterProcessPacket for an UPDATE about node n from sender, whose view is w
ProcessUpdate(i, v, held, sender, w, n) ==
    LET seen == SeeEpochs(v, sender, Header(sender, w))
        told == [SetNodeAsMaster(seen, n) EXCEPT !.cfg[n] = w.cfg[n]]
    IN  IF seen.cfg[n] >= w.cfg[n]
          THEN [view |-> seen, keys |-> held]
          ELSE UpdateSlots(i, told, held, n, w.cfg[n], SlotsOf(w, n))

\* clusterDoBeforeSleep(SAVE_CONFIG): every change of a view but that of
\* currentEpoch alone, of PFAIL and of the failure reports is saved
Persistent(v) == <<v.vote, v.cfg, v.slot, v.slaveof, v.mig, v.imp,
                   {n \in Nodes : v.fail[n] = "fail"}>>

Views(new) ==
    /\ view' = new
    /\ saved' = [i \in Nodes |->
                   IF Persistent(new[i]) # Persistent(view[i])
                     THEN new[i].cur ELSE saved[i]]

NewView(i, v) == Views([view EXCEPT ![i] = v])

Spend(kind) ==
    /\ budget[kind] > 0
    /\ budget' = [budget EXCEPT ![kind] = @ - 1]

-----------------------------------------------------------------------------
(* The bus. *)

\* Node i processes a PING or PONG of sender, and sender the UPDATE it may
\* get back.  A failure found by a master is broadcast (clusterSendFail).
Packet(sender, i) ==
    /\ <<sender, i>> \in conf.links
    /\ \E v \in {view[i]} \cup Reachable(view[i], sender) :
       LET r == ProcessPacket(i, v, keys[i], sender,
                              Header(sender, view[sender]))
           u == ProcessUpdate(sender, view[sender], keys[sender],
                              i, r.view, r.update)
       IN  /\ \/ /\ Views([view EXCEPT ![i] = r.view])
                 /\ keys' = [keys EXCEPT ![i] = r.keys]
              \/ /\ r.update # None
                 /\ Views([view EXCEPT ![i] = r.view, ![sender] = u.view])
                 /\ keys' = [keys EXCEPT ![i] = r.keys, ![sender] = u.keys]
           /\ fails' = fails \cup
                {n \in Nodes : /\ IsMaster(r.view, i)
                               /\ r.view.fail[n] = "fail"
                               /\ v.fail[n] = "pfail"}
    /\ UNCHANGED <<conf, requests, acks, history, reshard, budget>>

\* clusterCron: no PONG of n within the node timeout
Timeout(i, n) ==
    /\ n \in conf.suspects \ {i}
    /\ view[i].fail[n] = "ok"
    /\ Spend("timeouts")
    /\ NewView(i, [view[i] EXCEPT !.fail[n] = "pfail"])
    /\ UNCHANGED <<conf, keys, bus, history, reshard>>

\* A FAIL message about n reaches node i
ReceiveFail(i, n) ==
    /\ n \in fails \ {i}
    /\ view[i].fail[n] # "fail"
    /\ NewView(i, [view[i] EXCEPT !.fail[n] = "fail"])
    /\ UNCHANGED <<conf, keys, bus, history, reshard, budget>>

-----------------------------------------------------------------------------
(* Elections: clusterHandleSlaveFailover, one action per return. *)

\* The preconditions at the top of clusterHandleSlaveFailover
MayFailover(i, v) ==
    /\ ~IsMaster(v, i)
    /\ v.fail[v.slaveof[i]] = "fail" \/ v.manual
    /\ SlotsOf(v, v.slaveof[i]) # {}

\* A new attempt, when the previous one is older than auth_retry_time.  Unless
\* conf.late, no request or vote of the previous one is still under way then:
\* four node timeouts have passed.
Schedule(i) ==
    /\ MayFailover(i, view[i])
    /\ view[i].auth.phase # "scheduled"
    /\ Spend("attempts")
    /\ NewView(i, [view[i] EXCEPT !.auth.phase = "scheduled",
                                  !.auth.count = 0])
    /\ acks' = IF conf.late THEN acks ELSE {a \in acks : a.to # i}
    /\ requests' = IF conf.late THEN requests
                                ELSE [requests EXCEPT ![i] = {}]
    /\ UNCHANGED <<conf, keys, fails, history, reshard>>

\* clusterRequestFailoverAuth, in a new epoch
AskVotes(i) ==
    /\ MayFailover(i, view[i])
    /\ view[i].auth.phase = "scheduled"
    /\ LET e == view[i].cur + 1
           v == [view[i] EXCEPT !.cur = e, !.auth.epoch = e,
                                !.auth.phase = "sent"]
       IN  /\ view' = [view EXCEPT ![i] = v]
           /\ saved' = [saved EXCEPT ![i] = e]
           /\ requests' = [requests EXCEPT ![i] =
                {[header |-> Header(i, v), force |-> v.manual]}]
    /\ UNCHANGED <<conf, keys, acks, fails, history, reshard, budget>>

\* mutant: lastVoteEpoch is not consulted
MayVoteAgain(i, v, node, r) ==
    /\ IsMaster(v, i) /\ SlotsOf(v, i) # {}
    /\ r.header.cur >= v.cur
    /\ ~IsMaster(v, node)
    /\ v.fail[v.slaveof[node]] = "fail" \/ r.force

\* The conditions of clusterSendFailoverAuthIfNeeded; that on voted_time only
\* delays a vote
MayVote(i, v, node, r) ==
    /\ IsMaster(v, i) /\ SlotsOf(v, i) # {}
    /\ r.header.cur >= v.cur
    /\ v.vote # v.cur
    /\ ~IsMaster(v, node)
    /\ v.fail[v.slaveof[node]] = "fail" \/ r.force
    /\ \A s \in r.header.slots :
          v.slot[s] = None \/ v.cfg[v.slot[s]] <= r.header.config

\* clusterSendFailoverAuthIfNeeded: the vote is in nodes.conf before it leaves
Vote(i, node) ==
    /\ <<node, i>> \in conf.asks
    /\ \E r \in requests[node] :
       LET seen == SeeEpochs(view[i], node, r.header)
       IN  IF MayVote(i, seen, node, r)
             THEN /\ NewView(i, [seen EXCEPT !.vote = seen.cur])
                  /\ acks' = acks \cup {[from |-> i, to |-> node,
                                         header |-> Header(i, seen)]}
                  /\ votes' = votes \cup {<<i, seen.cur, node>>}
             ELSE /\ NewView(i, seen)
                  /\ UNCHANGED <<acks, votes>>
    /\ UNCHANGED <<conf, keys, requests, fails, elected, reshard, budget>>

\* FAILOVER_AUTH_ACK in clusterProcessPacket
ReceiveAck(a) ==
    LET i    == a.to
        seen == SeeEpochs(view[i], a.from, a.header)
        counts == /\ IsMaster(seen, a.from) /\ SlotsOf(seen, a.from) # {}
                  /\ a.header.cur >= seen.auth.epoch
    IN  /\ NewView(i, IF counts THEN [seen EXCEPT !.auth.count = @ + 1]
                                ELSE seen)
        /\ acks' = acks \ {a}
        /\ UNCHANGED <<conf, keys, requests, fails, history, reshard, budget>>

\* clusterFailoverReplaceYourMaster
ReplaceYourMaster(i, v) ==
    LET old == v.slaveof[i]
    IN  [SetNodeAsMaster(v, i) EXCEPT
           !.slot = [s \in Slots |-> IF @[s] = old THEN i ELSE @[s]],
           !.manual = FALSE]

\* The quorum is reached before the attempt expires
Win(i) ==
    LET v == view[i]
    IN  /\ MayFailover(i, v)
        /\ v.auth.phase = "sent"
        /\ v.auth.count >= NeededQuorum(v)
        /\ NewView(i, ReplaceYourMaster(i,
                        [v EXCEPT !.cfg[i] = Max({@, v.auth.epoch})]))
        /\ elected' = elected \cup {<<v.auth.epoch, i>>}
        /\ UNCHANGED <<conf, keys, bus, votes, reshard, budget>>

\* CLUSTER FAILOVER FORCE, and the end of a manual failover by its timeout
ForceFailover(i) ==
    /\ ~IsMaster(view[i], i)
    /\ \/ ~view[i].manual /\ Spend("forced")
       \/ view[i].manual /\ UNCHANGED budget
    /\ NewView(i, [view[i] EXCEPT !.manual = ~@])
    /\ UNCHANGED <<conf, keys, bus, history, reshard>>

\* CLUSTER FAILOVER TAKEOVER
Takeover(i) ==
    /\ ~IsMaster(view[i], i)
    /\ Spend("takeovers")
    /\ NewView(i, ReplaceYourMaster(i, BumpConfigEpoch(i, view[i])))
    /\ UNCHANGED <<conf, keys, bus, history, reshard>>

\* A crash and clusterLoadConfig: the election, the failure reports, PFAIL
\* and an epoch that was not saved are lost
Restart(i) ==
    LET v == view[i]
        loaded == [v EXCEPT !.cur = saved[i]]
    IN  /\ Spend("crashes")
        /\ view' = [view EXCEPT ![i] =
             [loaded EXCEPT !.cur = ClusterGetMaxEpoch(loaded),
                !.reports = [n \in Nodes |-> {}],
                !.fail = [n \in Nodes |->
                            IF v.fail[n] = "fail" THEN "fail" ELSE "ok"],
                !.auth = [phase |-> "idle", epoch |-> 0, count |-> 0],
                !.manual = FALSE]]
        /\ acks' = {a \in acks : a.to # i}
        /\ UNCHANGED <<conf, saved, keys, requests, fails, history, reshard>>

-----------------------------------------------------------------------------
(* Clients.  getNodeByQuery for a command with one key. *)

\* clusterUpdateState: every slot is served by a master that is not failing,
\* and a majority of the masters is reachable
StateOk(v) ==
    /\ \A s \in Slots : v.slot[s] # None /\ v.fail[v.slot[s]] # "fail"
    /\ Cardinality({n \in Nodes : /\ IsMaster(v, n) /\ SlotsOf(v, n) # {}
                                  /\ v.fail[n] = "ok"}) >= NeededQuorum(v)

\* mutant: a migrating slot is served as any other
AsksNever(i, v, held, k) == FALSE

\* CLUSTER_REDIR_ASK: the key is missing here and its slot is leaving
Asks(i, v, held, k) ==
    v.slot[k[1]] = i /\ v.mig[k[1]] # None /\ k \notin held

\* mutant: an importing slot is served without ASKING
ServesUnasked(i, v, held, k, ask) ==
    /\ StateOk(v)
    /\ ~Asks(i, v, held, k)
    /\ v.slot[k[1]] = i \/ v.imp[k[1]] # None

\* The node itself runs the command; ask is the CLIENT_ASKING flag
Serves(i, v, held, k, ask) ==
    /\ StateOk(v)
    /\ ~Asks(i, v, held, k)
    /\ \/ v.slot[k[1]] = i
       \/ ask /\ v.imp[k[1]] # None

\* A client writes key k at a node that serves it
Write(i, k) ==
    /\ k \in conf.keys \ written
    /\ \/ Serves(i, view[i], keys[i], k, FALSE) /\ UNCHANGED asking
       \/ /\ <<i, k>> \in asking
          /\ Serves(i, view[i], keys[i], k, TRUE)
          /\ asking' = asking \ {<<i, k>>}
    /\ keys' = [keys EXCEPT ![i] = @ \cup {k}]
    /\ written' = written \cup {k}
    /\ UNCHANGED <<conf, view, saved, bus, history, manager, budget>>

\* A client gets an ASK redirection and follows it, perhaps much later
Redirected(i, k) ==
    /\ k \in conf.keys \ written
    /\ StateOk(view[i])
    /\ Asks(i, view[i], keys[i], k)
    /\ asking' = asking \cup {<<view[i].mig[k[1]], k>>}
    /\ UNCHANGED <<conf, view, saved, keys, bus, history, manager, written,
                   budget>>

-----------------------------------------------------------------------------
(* redis-cli moves a slot: clusterManagerMoveSlot. *)

Move == conf.move

\* CLUSTER SETSLOT slot IMPORTING from, on the target
SetImporting ==
    LET v == view[Move.to]
    IN  /\ manager.step = "importing"
        /\ IsMaster(v, Move.to) /\ v.slot[Move.slot] # Move.to
        /\ NewView(Move.to, [v EXCEPT !.imp[Move.slot] = Move.from])
        /\ manager' = [manager EXCEPT !.step = "migrating"]
        /\ UNCHANGED <<conf, keys, bus, history, asking, written, budget>>

\* CLUSTER SETSLOT slot MIGRATING to, on the source
SetMigrating ==
    LET v == view[Move.from]
    IN  /\ manager.step = "migrating"
        /\ IsMaster(v, Move.from) /\ v.slot[Move.slot] = Move.from
        /\ NewView(Move.from, [v EXCEPT !.mig[Move.slot] = Move.to])
        /\ manager' = [manager EXCEPT !.step = "keys"]
        /\ UNCHANGED <<conf, keys, bus, history, asking, written, budget>>

\* clusterManagerMigrateKeysInSlot: GETKEYSINSLOT until it is empty, MIGRATE
\* of what it returned.  The source waits for the target and then deletes
\* the key; when the wait times out both keep it, and redis-cli gives up.
MigrateKeys ==
    LET here == {k \in keys[Move.from] : k[1] = Move.slot}
    IN  /\ manager.step = "keys"
        /\ \/ /\ here = {}
              /\ manager' = [manager EXCEPT !.step = "node"]
              /\ UNCHANGED <<keys, budget>>
           \/ \E k \in here :
                /\ Serves(Move.to, view[Move.to], keys[Move.to], k, TRUE)
                /\ k \notin keys[Move.to]
                /\ keys' = [keys EXCEPT ![Move.from] = @ \ {k},
                                        ![Move.to] = @ \cup {k}]
                /\ UNCHANGED <<manager, budget>>
           \/ \E k \in here :
                /\ Serves(Move.to, view[Move.to], keys[Move.to], k, TRUE)
                /\ Spend("lost")
                /\ keys' = [keys EXCEPT ![Move.to] = @ \cup {k}]
                /\ manager' = [manager EXCEPT !.step = "failed"]
        /\ UNCHANGED <<conf, view, saved, bus, history, asking, written>>

\* CLUSTER SETSLOT slot NODE n on node i
SetSlotNode(i, v, held, s, n) ==
    LET empty  == ~\E k \in held : k[1] = s
        closed == IF empty THEN [v EXCEPT !.mig[s] = None] ELSE v
        bumped == IF n = i /\ v.imp[s] # None
                    THEN [BumpConfigEpoch(i, closed) EXCEPT !.imp[s] = None]
                    ELSE closed
    IN  [bumped EXCEPT !.slot[s] = n]

\* The last loop of clusterManagerMoveSlot: the masters are told one by one,
\* in the order redis-cli happens to list them; an error ends it
TellNode(i) ==
    LET v == view[i]
        s == Move.slot
        refused == \/ ~IsMaster(v, i)
                   \/ /\ v.slot[s] = i /\ Move.to # i
                      /\ \E k \in keys[i] : k[1] = s
    IN  /\ manager.step = "node"
        /\ i \in manager.masters
        /\ IF refused
             THEN /\ manager' = [manager EXCEPT !.step = "failed"]
                  /\ UNCHANGED <<view, saved>>
             ELSE /\ NewView(i, SetSlotNode(i, v, keys[i], s, Move.to))
                  /\ manager' = [manager EXCEPT !.masters = @ \ {i}]
        /\ UNCHANGED <<conf, keys, bus, history, asking, written, budget>>

-----------------------------------------------------------------------------
\* The deployments make sense: finitely many nodes, slots are numbers, tables
\* name nodes of the cluster.
Deployable ==
    \A c \in Configs :
        /\ IsFiniteSet(c.nodes) /\ c.slots \subseteq Nat
        /\ c.cur \in Nat /\ c.cfg \in [c.nodes -> Nat]
        /\ c.slot \in [c.slots -> c.nodes \cup {None}]
        /\ c.slaveof \in [c.nodes -> c.nodes \cup {None}]
        /\ c.move # None => c.move \in [slot : c.slots, from : c.nodes, to : c.nodes]

InitView(c) ==
    [cur |-> c.cur, vote |-> 0, cfg |-> c.cfg, slot |-> c.slot,
     slaveof |-> c.slaveof,
     fail |-> [n \in c.nodes |-> IF n \in c.down THEN "fail" ELSE "ok"],
     reports |-> [n \in c.nodes |-> {}],
     mig |-> [s \in c.slots |-> None], imp |-> [s \in c.slots |-> None],
     auth |-> [phase |-> "idle", epoch |-> 0, count |-> 0],
     manual |-> FALSE]

Init ==
    /\ conf \in Configs
    /\ view = [i \in conf.nodes |-> InitView(conf)]
    /\ saved = [i \in conf.nodes |-> conf.cur]
    /\ keys = [i \in conf.nodes |-> {}]
    /\ requests = [i \in conf.nodes |-> {}]
    /\ acks = {} /\ fails = {} /\ votes = {} /\ elected = {}
    /\ asking = {} /\ written = {}
    /\ manager = [step |-> IF conf.move = None THEN "idle" ELSE "importing",
                  masters |-> {n \in conf.nodes : conf.slaveof[n] = None}]
    /\ budget = conf.budget

Next ==
    \/ \E i, j \in Nodes : Packet(i, j) \/ Timeout(i, j) \/ ReceiveFail(i, j)
                           \/ Vote(i, j)
    \/ \E i \in Nodes : \/ Schedule(i) \/ AskVotes(i) \/ Win(i)
                        \/ ForceFailover(i) \/ Takeover(i) \/ Restart(i)
    \/ \E a \in acks : ReceiveAck(a)
    \/ \E i \in Nodes, k \in conf.keys : Write(i, k) \/ Redirected(i, k)
    \/ SetImporting \/ SetMigrating \/ MigrateKeys
    \/ \E i \in Nodes : TellNode(i)

Spec == Init /\ [][Next]_vars

\* No packet has anything to tell: ~ENABLED <<Packet(i, j)>>_vars for all i, j,
\* written out for deployments without failures
Settled ==
    \A p \in conf.links :
        LET r == ProcessPacket(p[2], view[p[2]], keys[p[2]], p[1],
                               Header(p[1], view[p[1]]))
        IN  /\ r.view = view[p[2]]
            /\ r.keys = keys[p[2]]
            /\ r.update # None =>
                 ProcessUpdate(p[1], view[p[1]], keys[p[1]],
                               p[2], r.view, r.update)
                   = [view |-> view[p[1]], keys |-> keys[p[1]]]

\* clusterCron pings every node again and again: packets that have something
\* to tell do not stop being processed (weak fairness of Packet)
Fairness ==
    \/ []<>(~conf.converges \/ Settled)
    \/ []<><<conf.converges /\ \E i, j \in Nodes : Packet(i, j)>>_vars

-----------------------------------------------------------------------------
\* No master votes for two replicas in one epoch, even across a crash
\* (lastVoteEpoch in clusterSendFailoverAuthIfNeeded and in nodes.conf).
OneVotePerEpoch ==
    \A a, b \in votes : a[1] = b[1] /\ a[2] = b[2] => a[3] = b[3]

\* Two replicas never win the election of one epoch (the comment before
\* clusterHandleConfigEpochCollision relies on it).
OneElectedPerEpoch ==
    \A a, b \in elected : a[1] = b[1] => a[2] = b[2]

\* No view binds a slot to a node it takes for a replica: what
\* clusterSetMaster asserts (myself->numslots == 0) and getNodeByQuery needs.
SlotsOwnedByMasters ==
    \A i \in Nodes : \A s \in Slots :
        LET n == view[i].slot[s] IN n # None => IsMaster(view[i], n)

\* A node that runs a command on a written key without a redirection has the
\* key: resharding never serves a key from the side that lacks it.
ReadsFindKey ==
    \A i \in Nodes : \A k \in written :
        Serves(i, view[i], keys[i], k, FALSE) => k \in keys[i]
\* A write that was acknowledged stays somewhere in the cluster while its slot
\* moves: the keys of slots lost to a newer epoch are deleted only where
\* clusterUpdateSlotsConfigWith cannot be the last to hold them.
WritesKept == \A k \in written : \E i \in Nodes : k \in keys[i]

\* Masters' epochs end up different and all nodes agree on who owns each slot,
\* however many unilateral epochs were taken (the promise of the comment on
\* clusterHandleConfigEpochCollision, and of UPDATE messages).
Converges ==
    <>[](conf.converges =>
          /\ \A i, j \in Nodes : view[i].slot = view[j].slot
          /\ \A i, j \in Nodes :
               i # j /\ IsMaster(view[i], i) /\ IsMaster(view[j], j)
                 => view[i].cfg[i] # view[j].cfg[j])
=============================================================================
