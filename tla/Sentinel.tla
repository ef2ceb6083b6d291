------------------------------ MODULE Sentinel ------------------------------
(***************************************************************************)
(* The failover protocol of sentinel.c for one monitored master: down      *)
(* detection, the vote for a leader, the failover state machine, the hello *)
(* messages that spread a new configuration, and the configuration file a  *)
(* restarted Sentinel starts from.                                         *)
(*                                                                         *)
(* Time is abstracted: whether a timeout or a retry delay has elapsed is a *)
(* free choice at every timer tick.  Sentinels reach instances and each    *)
(* other over links that delay and lose messages.                          *)
(***************************************************************************)
EXTENDS Integers, FiniteSets

CONSTANTS
  Sentinels,     \* run ids of the Sentinels
  Instances,     \* addresses of the master and its replicas
  FirstMaster,   \* the address configured by SENTINEL MONITOR
  ParallelSyncs, \* master->parallel_syncs
  Configs,       \* deployments, of which a behaviour starts in one; the fields:
                 \*   quorum    master->quorum
                 \*   priority  slave_priority of each instance, 0 = never promote
                 \*   watchers  Sentinels that may lose contact with a master
                 \*   forced    Sentinels that may be given SENTINEL FAILOVER
                 \*   epochs    bound on the epochs that failovers open
                 \*   faults    bound on lost replies, expired answers, S_DOWN
                 \*             recoveries and restarts
  None

VARIABLES
  conf,      \* the deployment
  st,        \* st[s]: the memory of Sentinel s
  disk,      \* disk[s]: what sentinelFlushConfig last wrote
  asks,      \* asks[s]: last is-master-down-by-addr request of s to the others
  role,      \* role[i]: None when instance i is a master, else its master
  cmds,      \* cmds[i]: SLAVEOF command on its way to instance i
  faults,    \* lost replies, expired answers, S_DOWN recoveries and restarts
  votes,     \* votes cast: history, not in the code
  elected    \* elections won: history, not in the code

vars == <<conf, st, disk, asks, role, cmds, faults, votes, elected>>

\* failover_state, in the order of the SENTINEL_FAILOVER_STATE_ constants.
NoFailover == 0
WaitStart == 1
SelectSlave == 2
SendSlaveofNoone == 3
WaitPromotion == 4
ReconfSlaves == 5
UpdateConfig == 6

Slaves(m) == Instances \ {m.addr}

Voters == Cardinality(Sentinels)

-----------------------------------------------------------------------------
(* The state of one Sentinel.  flag[i] is the SRI_RECONF_ state of replica  *)
(* i; peer[t] is what Sentinel t last said.                                *)

Unasked == [down |-> FALSE, leader |-> None, epoch |-> 0]

\* sentinelResetMaster with SENTINEL_RESET_NO_SENTINELS: leader_epoch,
\* config_epoch and the other Sentinels survive.
ResetMaster(m, addr) ==
  [m EXCEPT !.addr = addr, !.sdown = FALSE, !.leader = None,
            !.state = NoFailover, !.fepoch = 0, !.force = FALSE,
            !.promoted = None, !.flag = [i \in Instances |-> {}]]

Fresh ==
  [epoch |-> 0, addr |-> FirstMaster, config |-> 0, sdown |-> FALSE,
   leader |-> None, lepoch |-> 0, state |-> NoFailover,
   fepoch |-> 0, force |-> FALSE, promoted |-> None,
   flag |-> [i \in Instances |-> {}], peer |-> [t \in Sentinels |-> Unasked]]

\* sentinelGetCurrentMasterAddress
CurrentAddress(m) == IF m.state >= ReconfSlaves THEN m.promoted ELSE m.addr

\* Defect: the epoch of the last vote is not written.
SavedNoVote(m) == [epoch |-> m.epoch, addr |-> CurrentAddress(m),
                   config |-> m.config, lepoch |-> 0]

\* rewriteConfigSentinelOption; the vote itself is not written.
Saved(m) == [epoch |-> m.epoch, addr |-> CurrentAddress(m), config |-> m.config,
             lepoch |-> m.lepoch]

\* The constants make sense: finitely many Sentinels, None is neither a Sentinel
\* nor an address.
Deployable ==
  /\ IsFiniteSet(Sentinels) /\ None \notin Sentinels \cup Instances
  /\ FirstMaster \in Instances
  /\ \A c \in Configs : c.epochs \in Nat /\ c.quorum \in Nat /\ c.faults \in Nat

Init ==
  /\ conf \in Configs
  /\ st = [s \in Sentinels |-> Fresh]
  /\ disk = [s \in Sentinels |-> Saved(Fresh)]
  /\ asks = [s \in Sentinels |-> None]
  /\ role = [i \in Instances |-> IF i = FirstMaster THEN None ELSE FirstMaster]
  /\ cmds = [i \in Instances |-> None]
  /\ faults = 0
  /\ votes = {}
  /\ elected = {}

-----------------------------------------------------------------------------
(* Votes. *)

\* sentinelVoteLeader(master, req_epoch, req_runid): the changed master.
Vote(m, epoch, runid) ==
  LET e == IF epoch > m.epoch THEN epoch ELSE m.epoch
  IN IF m.lepoch < epoch /\ e <= epoch
     THEN [m EXCEPT !.epoch = e, !.leader = runid, !.lepoch = e]
     ELSE [m EXCEPT !.epoch = e]

CastBy(s, m, n) ==
  IF n.lepoch # m.lepoch THEN {<<s, n.lepoch, n.leader>>} ELSE {}

\* Votes of the others that sentinelGetLeader counts: those of the current
\* epoch, whatever the epoch the caller asks about.
Reported(m, s, w) ==
  Cardinality({t \in Sentinels \ {s} :
                 m.peer[t].leader = w /\ m.peer[t].epoch = m.epoch})

\* The runids sentinelGetLeader may find most voted by the others.
Front(m, s) ==
  {w \in Sentinels : /\ Reported(m, s, w) > 0
                     /\ \A v \in Sentinels : Reported(m, s, v) <= Reported(m, s, w)}

\* Defect: the quorum is enough to win.
GetLeaderQuorum(m, s, f) ==
  LET n    == Vote(m, m.fepoch, IF f = None THEN s ELSE f)
      mine == IF n.leader # None /\ n.lepoch = m.fepoch
              THEN Reported(m, s, n.leader) + 1 ELSE 0
  IN [m |-> n, winner |-> IF mine >= conf.quorum THEN n.leader ELSE None]

\* sentinelGetLeader(master, failover_epoch) with front-runner f (or None):
\* the Sentinel votes if it has not, and the winner needs an absolute majority
\* of the known Sentinels and at least the quorum.
GetLeader(m, s, f) ==
  LET n    == Vote(m, m.fepoch, IF f = None THEN s ELSE f)
      max  == IF f = None THEN 0 ELSE Reported(m, s, f)
      mine == IF n.leader # None /\ n.lepoch = m.fepoch
              THEN Reported(m, s, n.leader) + 1 ELSE 0
      best == IF mine > max THEN [runid |-> n.leader, votes |-> mine]
                            ELSE [runid |-> f, votes |-> max]
  IN [m |-> n,
      winner |-> IF best.votes >= (Voters \div 2) + 1 /\ best.votes >= conf.quorum
                 THEN best.runid ELSE None]

-----------------------------------------------------------------------------
(* The timer: sentinelHandleRedisInstance on the master. *)

\* Defect: the promoted replica is not forgotten.
AbortKeeps(m) == [m EXCEPT !.state = NoFailover, !.fepoch = 0, !.force = FALSE]

\* sentinelAbortFailover
Abort(m) ==
  [m EXCEPT !.state = NoFailover, !.fepoch = 0, !.force = FALSE, !.promoted = None]

StartFailover(m) ==
  [m EXCEPT !.state = WaitStart, !.epoch = @ + 1, !.fepoch = m.epoch + 1]

\* sentinelCheckObjectivelyDown
ObjectivelyDown(m, s) ==
  m.sdown /\ 1 + Cardinality({t \in Sentinels \ {s} : m.peer[t].down}) >= conf.quorum

\* sentinelStartFailoverIfNeeded; "waited": 2 * failover_timeout has passed
\* since the last attempt or since the last vote for somebody else.
StartIfNeeded(m, s, waited) ==
  IF ObjectivelyDown(m, s) /\ m.state = NoFailover /\ waited
  THEN StartFailover(m) ELSE m

\* sentinelSelectSlave among the replicas that are up, connected and with fresh
\* INFO: the lowest priority number wins, ties are broken by offset and runid.
Selectable(m, usable) ==
  LET good == {i \in usable : conf.priority[i] # 0}
  IN {i \in good : \A j \in good : conf.priority[i] <= conf.priority[j]}

\* A failover step leads to a new master state and sends SLAVEOF commands.
Step(m, cs) == [m |-> m, cmds |-> cs]

Slaveof(is, of) == {[to |-> i, of |-> of] : i \in is}

MayAbort(m) == {Step(m, {}), Step(Abort(m), {})}

WaitStartSteps(m, s) ==
  UNION {LET g == GetLeader(m, s, f)
         IN IF g.winner = s \/ m.force
            THEN {Step([g.m EXCEPT !.state = SelectSlave], {})}
            ELSE MayAbort(g.m)
           : f \in IF Front(m, s) = {} THEN {None} ELSE Front(m, s)}

SelectSteps(m) ==
  {Step(Abort(m), {})}
    \cup {Step([m EXCEPT !.promoted = i, !.state = SendSlaveofNoone], {})
            : i \in UNION {Selectable(m, u) : u \in SUBSET Slaves(m)}}

\* The link to the chosen replica is up, or it is down and the step waits or
\* gives up.
SlaveofNooneSteps(m) ==
  {Step([m EXCEPT !.state = WaitPromotion], Slaveof({m.promoted}, None))}
    \cup MayAbort(m)

\* sentinelFailoverReconfNextSlave over the replicas "seen" before the limit of
\* parallel syncs stops its loop; "conn" are connected and "stale" were sent
\* SLAVEOF too long ago.  A stale one is marked done and sent SLAVEOF again.
ReconfNext(m, seen, conn, stale) ==
  LET expired == {i \in seen \cap stale : "sent" \in m.flag[i]}
      sends   == {i \in seen \cap conn : i \in expired \/ m.flag[i] = {}}
  IN Step([m EXCEPT !.flag = [i \in Instances |->
             (IF i \in expired THEN (@[i] \ {"sent"}) \cup {"done"} ELSE @[i])
               \cup (IF i \in sends THEN {"sent"} ELSE {})]],
          Slaveof(sends, m.promoted))

\* sentinelFailoverDetectEnd; "down" are the replicas in S_DOWN.  After the
\* failover timeout ("late") every connected replica that was not sent SLAVEOF
\* is sent it, the promoted one included.
DetectEnd(x, conn, down, late) ==
  LET m    == x.m
      open == {i \in Slaves(m) \ (down \cup {m.promoted}) : "done" \notin m.flag[i]}
      last == {i \in Slaves(m) \cap conn : m.flag[i] \cap {"done", "sent"} = {}}
  IN IF m.promoted \in down \/ (open # {} /\ ~late) THEN x
     ELSE Step([m EXCEPT !.state = UpdateConfig,
                         !.flag = [i \in Instances |->
                           IF late /\ i \in last THEN @[i] \cup {"sent"} ELSE @[i]]],
               x.cmds \cup (IF late THEN Slaveof(last, m.promoted) ELSE {}))

\* The replicas that are not reconfigured yet; only those that were sent
\* SLAVEOF can be stale.
Unfinished(m) == {i \in Slaves(m) \ {m.promoted} : "done" \notin m.flag[i]}
WasSent(m) == {i \in Unfinished(m) : "sent" \in m.flag[i]}

\* The sets of replicas that the loop may see before it stops.
ReconfSeen(m, conn, stale) ==
  LET busy == Cardinality({i \in Slaves(m) : m.flag[i] \cap {"sent", "inprog"} # {}})
      Fits(seen, x) == /\ busy >= ParallelSyncs => seen = {}
                       /\ busy + Cardinality(x.cmds) <= ParallelSyncs \/ seen = {}
                       /\ seen = Unfinished(m) \/ busy + Cardinality(x.cmds) >= ParallelSyncs
  IN {z \in SUBSET Unfinished(m) : Fits(z, ReconfNext(m, z, conn, stale))}

ReconfEnds(m, seen, conn, stale) ==
  {DetectEnd(ReconfNext(m, seen, conn, stale), conn, down, late)
     : down \in SUBSET Slaves(m), late \in BOOLEAN}

ReconfSteps(m) ==
  UNION {UNION {ReconfEnds(m, seen, conn, stale) : seen \in ReconfSeen(m, conn, stale)}
           : conn \in SUBSET Slaves(m), stale \in SUBSET WasSent(m)}

\* sentinelFailoverStateMachine
MachineSteps(m, s) ==
  CASE m.state = WaitStart        -> WaitStartSteps(m, s)
    [] m.state = SelectSlave      -> SelectSteps(m)
    [] m.state = SendSlaveofNoone -> SlaveofNooneSteps(m)
    [] m.state = WaitPromotion    -> MayAbort(m)
    [] m.state = ReconfSlaves     -> ReconfSteps(m)
    [] OTHER                      -> {Step(m, {})}

\* sentinelFailoverSwitchToPromotedSlave, at the end of the same timer call.
Switched(m) == IF m.state = UpdateConfig THEN ResetMaster(m, m.promoted) ELSE m

\* sentinelAskMasterStateToOtherSentinels forgets old answers ...
Forget(m, old) ==
  [m EXCEPT !.peer = [t \in Sentinels |-> IF t \in old THEN Unasked ELSE @[t]]]

\* ... and asks again, for a vote once a failover started.
Ask(m, s) == [addr |-> m.addr, epoch |-> m.epoch,
              runid |-> IF m.state # NoFailover THEN s ELSE None]

Flushed(s, m) == disk' = [disk EXCEPT ![s] = Saved(m)]

Sent(cs) ==
  [i \in Instances |->
     IF \E c \in cs : c.to = i THEN CHOOSE c \in cs : c.to = i ELSE cmds[i]]

Timer(s) ==
  \E down \in (IF s \in conf.watchers THEN BOOLEAN ELSE {FALSE}),
     waited \in (IF st[s].state = NoFailover THEN BOOLEAN ELSE {FALSE}),
     old \in SUBSET {t \in Sentinels : st[s].peer[t] # Unasked} :
    LET m0 == [st[s] EXCEPT !.sdown = down]
        m1 == StartIfNeeded(m0, s, waited)
        odd == (st[s].sdown /\ ~down) \/ old # {}
    IN /\ m1.epoch <= conf.epochs
       /\ faults' = faults + IF odd THEN 1 ELSE 0
       /\ faults' <= conf.faults
       /\ \E x \in MachineSteps(m1, s) :
            LET m2 == Forget(x.m, old)
                m3 == Switched(m2)
            IN /\ st' = [st EXCEPT ![s] = m3]
               /\ IF x.m.lepoch # m1.lepoch \/ x.m.state = UpdateConfig
                  THEN Flushed(s, m3) ELSE UNCHANGED disk
               /\ asks' = IF m2.sdown THEN [asks EXCEPT ![s] = Ask(m2, s)] ELSE asks
               /\ cmds' = Sent(x.cmds)
               /\ votes' = votes \cup CastBy(s, m1, x.m)
               /\ elected' = IF m1.state = WaitStart /\ x.m.state = SelectSlave
                               /\ ~m1.force
                             THEN elected \cup {<<s, m1.fepoch>>} ELSE elected
  /\ UNCHANGED <<conf, role>>

-----------------------------------------------------------------------------
(* Messages between Sentinels. *)

\* SENTINEL IS-MASTER-DOWN-BY-ADDR: t says whether the master at that address
\* is subjectively down and votes if asked to.  The reply is lost, or recorded
\* by sentinelReceiveIsMasterDownReply, where one without a vote leaves the
\* recorded vote alone.
IsMasterDownByAddr(s, t) ==
  LET q == asks[s]
      m == st[t]
      voted == q.addr = m.addr /\ q.runid # None
      n == IF voted THEN Vote(m, q.epoch, q.runid) ELSE m
      down == q.addr = m.addr /\ m.sdown
  IN /\ s # t /\ q # None
     /\ \E lost \in BOOLEAN :
          /\ faults' = faults + IF lost THEN 1 ELSE 0
          /\ faults' <= conf.faults
          /\ st' = [st EXCEPT ![t] = n,
                  ![s].peer[t] = IF lost THEN @
                                 ELSE IF voted /\ n.leader # None
                                 THEN [down |-> down, leader |-> n.leader, epoch |-> n.lepoch]
                                 ELSE [@ EXCEPT !.down = down]]
     /\ IF n.epoch # m.epoch \/ n.lepoch # m.lepoch
        THEN Flushed(t, n) ELSE UNCHANGED disk
     /\ votes' = votes \cup CastBy(t, m, n)
     /\ UNCHANGED <<conf, asks, role, cmds, elected>>

\* Defect: any other configuration is adopted.
HelloDiffers(h, m) == h.config # m.config

\* A hello carries a configuration worth adopting.
HelloNewer(h, m) == h.config > m.config

\* Defect: the epoch of the sender is taken for its configuration epoch.
HelloConfigSwapped(h) == h.epoch

\* master_config_epoch of a hello message
HelloConfig(h) == h.config

\* sentinelSendHello of s and sentinelProcessHelloMessage of t: the newer epoch
\* is adopted, and the newer configuration; only a new epoch or a new address is
\* written to disk.
Hello(s, t) ==
  LET h == st[s]
      m == st[t]
      newer == HelloNewer(h, m)
      moved == newer /\ CurrentAddress(h) # m.addr
      n == IF h.epoch > m.epoch THEN [m EXCEPT !.epoch = h.epoch] ELSE m
      c == IF newer THEN [n EXCEPT !.config = HelloConfig(h)] ELSE n
      r == IF moved THEN ResetMaster(c, CurrentAddress(h)) ELSE c
  IN /\ r # m
     /\ st' = [st EXCEPT ![t] = r]
     /\ disk' = [disk EXCEPT ![t] =
          IF moved THEN Saved(r) ELSE IF n # m THEN Saved(n) ELSE @]
     /\ UNCHANGED <<conf, asks, role, cmds, faults, votes, elected>>

-----------------------------------------------------------------------------
(* Instances. *)

\* sentinelRefreshInstanceInfo for the INFO output of replica i.
RefreshInstanceInfo(s, i) ==
  LET m == st[s]
      isMaster == role[i] = None
      promoted == m.promoted = i /\ m.state = WaitPromotion
      f1 == IF ~isMaster /\ "sent" \in m.flag[i] /\ role[i] = m.promoted
            THEN (m.flag[i] \ {"sent"}) \cup {"inprog"} ELSE m.flag[i]
      n == IF isMaster /\ promoted
           THEN [m EXCEPT !.config = m.fepoch, !.state = ReconfSlaves] ELSE m
  IN /\ i \in Slaves(m)
     /\ \E f2 \in {f1} \cup (IF ~isMaster /\ "inprog" \in f1
                             THEN {(f1 \ {"inprog"}) \cup {"done"}} ELSE {}) :
          st' = [st EXCEPT ![s] = [n EXCEPT !.flag[i] = f2]]
     /\ IF n # m THEN Flushed(s, n) ELSE UNCHANGED disk
     /\ \/ UNCHANGED cmds
        \/ /\ ~m.sdown
           /\ (isMaster /\ m.promoted # i) \/ (~isMaster /\ role[i] # m.addr)
           /\ cmds' = Sent(Slaveof({i}, m.addr))
     /\ UNCHANGED <<conf, asks, role, faults, votes, elected>>

\* SLAVEOF reaches the instance.
ExecSlaveof(i) ==
  /\ cmds[i] # None
  /\ role' = [role EXCEPT ![i] = cmds[i].of]
  /\ cmds' = [cmds EXCEPT ![i] = None]
  /\ UNCHANGED <<conf, st, disk, asks, faults, votes, elected>>

-----------------------------------------------------------------------------
(* Operator commands and faults. *)

\* SENTINEL FAILOVER
ForceFailover(s) ==
  /\ s \in conf.forced
  /\ st[s].state = NoFailover /\ st[s].epoch < conf.epochs
  /\ \E i \in Slaves(st[s]) : conf.priority[i] # 0
  /\ st' = [st EXCEPT ![s] = [StartFailover(@) EXCEPT !.force = TRUE]]
  /\ UNCHANGED <<conf, disk, asks, role, cmds, faults, votes, elected>>

\* The process dies and sentinelHandleConfiguration reads its file.
Restart(s) ==
  /\ faults < conf.faults
  /\ faults' = faults + 1
  /\ st' = [st EXCEPT ![s] =
       [Fresh EXCEPT !.epoch = disk[s].epoch, !.addr = disk[s].addr,
                     !.config = disk[s].config, !.lepoch = disk[s].lepoch]]
  /\ UNCHANGED <<conf, disk, asks, role, cmds, votes, elected>>

Next ==
  \/ \E s \in Sentinels : Timer(s) \/ ForceFailover(s) \/ Restart(s)
  \/ \E s, t \in Sentinels : IsMasterDownByAddr(s, t) \/ Hello(s, t)
  \/ \E s \in Sentinels, i \in Instances : RefreshInstanceInfo(s, i)
  \/ \E i \in Instances : ExecSlaveof(i)

Spec == Init /\ [][Next]_vars

-----------------------------------------------------------------------------

\* A Sentinel gives one vote per epoch, whatever it is asked and however often
\* it faults: leader_epoch reaches the configuration file before the reply
\* leaves (sentinelVoteLeader).
OneVotePerEpoch ==
  \A v, w \in votes : v[1] = w[1] /\ v[2] = w[2] => v = w

\* A Sentinel that leads a failover got the votes of a majority of the Sentinels
\* in the epoch of its failover or in later ones: no failover starts by itself
\* on the word of a minority (sentinelGetLeader, sentinelFailoverWaitStart).
LeaderWasVoted ==
  \A e \in elected :
    2 * Cardinality({s \in Sentinels :
                       \E x \in e[2]..conf.epochs : <<s, x, e[1]>> \in votes}) > Voters

\* promoted_slave is set exactly in the states that dereference it, and replicas
\* are marked SENT, INPROG or DONE only while sentinelRefreshInstanceInfo can
\* compare their master with it.
PromotedKnown ==
  \A s \in Sentinels : LET m == st[s] IN
    /\ m.state \in SendSlaveofNoone..ReconfSlaves <=> m.promoted # None
    /\ (\E i \in Instances : m.flag[i] # {}) => m.state = ReconfSlaves

\* A configuration epoch is the epoch of a failover whose leader was elected, as
\* long as no operator forces one.
ConfigFromElection ==
  conf.forced = {} =>
    \A s \in Sentinels : st[s].config = 0 \/ \E e \in elected : e[2] = st[s].config

\* The failover protocol as a whole: one vote per Sentinel and epoch, leaders with
\* a majority, a known promoted replica and configurations that were elected.
FailoverSafe == OneVotePerEpoch /\ LeaderWasVoted /\ PromotedKnown /\ ConfigFromElection

\* A running Sentinel keeps its configuration or adopts a newer one; only the end
\* of its own failover may install an older one: sentinelRefreshInstanceInfo
\* takes failover_epoch without comparing it.
ConfigStep(s) ==
  \/ st'[s].config >= st[s].config
  \/ /\ st[s].state = WaitPromotion /\ st'[s].state = ReconfSlaves
     /\ st'[s].config = st[s].fepoch

\* Whatever the order in which hello messages and promotions reach a Sentinel, its
\* configuration moves as ConfigStep says.
ConfigMonotone ==
  [][\A s \in Sentinels : faults' = faults => ConfigStep(s)]_vars
=============================================================================
