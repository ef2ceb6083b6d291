---------------------------- MODULE Replication ----------------------------
(***************************************************************************)
(* Master-replica replication (redis-stable/src/replication.c): the        *)
(* replication stream and its backlog, PSYNC, full resynchronizations      *)
(* through a background save, chained replicas, promotion and demotion,    *)
(* restarts from an RDB file, and WAIT.                                    *)
(*                                                                         *)
(* One command is one entry of the stream and counts as one byte.  A       *)
(* dataset is the sequence of the writes applied to it, each with the      *)
(* database it went to.  link[r] is the connection of replica r with its   *)
(* master, both ends and what is under way on it.  A connection that       *)
(* breaks is noticed by both ends at once: a half that has not noticed     *)
(* feeds a socket nobody reads.                                            *)
(***************************************************************************)
EXTENDS Naturals, Sequences, FiniteSets, Functions

CONSTANTS
    Nodes,
    Dbs,            \* database numbers
    Writes,         \* the writes clients make, each once
    BacklogSize,    \* repl_backlog_size, in entries
    Configs,        \* deployments: [nodes, hosts, synced, budget]
    None

VARIABLES
    conf,       \* the deployment
    node,       \* node[n]: the server struct, see Fresh
    link,       \* link[r]: connection of r with its master, or None
    ids,        \* replication ids handed out so far: the next random one
    woff,       \* c->woff of the client that made a write
    budget

vars == <<conf, node, link, ids, woff, budget>>

Spend(kind) ==
    /\ budget[kind] > 0
    /\ budget' = [budget EXCEPT ![kind] = @ - 1]

-----------------------------------------------------------------------------
(* The backlog: a circular buffer. *)

NoBacklog == [on |-> FALSE, buf |-> <<>>, idx |-> 0, hist |-> 0, off |-> 0]

\* createReplicationBacklog
CreateBacklog(s) ==
    [s EXCEPT !.backlog = [on |-> TRUE,
        buf |-> [i \in 0..(BacklogSize - 1) |-> None],
        idx |-> 0, hist |-> 0, off |-> s.off + 1]]

\* feedReplicationBacklog, for one entry
FeedOne(s, e) ==
    LET b    == s.backlog
        hist == IF b.hist = BacklogSize THEN b.hist ELSE b.hist + 1
    IN  [s EXCEPT !.off = @ + 1,
           !.backlog = [b EXCEPT !.buf[b.idx] = e,
                                 !.idx = (b.idx + 1) % BacklogSize,
                                 !.hist = hist,
                                 !.off = s.off + 1 - hist + 1]]

\* A command, or a SELECT and a command
FeedBacklog(s, entries) ==
    CASE ~s.backlog.on -> s
      [] s.backlog.on /\ Len(entries) = 1 -> FeedOne(s, entries[1])
      [] OTHER -> FeedOne(FeedOne(s, entries[1]), entries[2])

\* addReplyReplicationBacklog: the entries from offset o to the end
BacklogFrom(b, o) ==
    LET skip == o - b.off
        j    == (b.idx + (BacklogSize - b.hist) + skip) % BacklogSize
    IN  [i \in 1..(b.hist - skip) |-> b.buf[(j + i - 1) % BacklogSize]]

-----------------------------------------------------------------------------
(* The stream. *)

Select(d) == [t |-> "select", db |-> d]
Ping == [t |-> "ping"]
Command(w) == [t |-> "write", w |-> w]

\* The clients in server.slaves of n; a link that has not sent PSYNC yet is
\* an ordinary client
Slaves(l, n) == {r \in Nodes : l[r] # None /\ l[r].to = n /\ l[r].st # "psync"}

\* Entries are queued for every slave but those waiting for a BGSAVE to start
FeedSlaves(l, n, entries) ==
    [r \in Nodes |->
        IF r \in Slaves(l, n) /\ l[r].st # "start"
          THEN [l[r] EXCEPT !.q = @ \o entries]
          ELSE l[r]]

\* replicationFeedSlaves: a SELECT first when the database changes
Stream(s, d, e) == IF s.seldb # d THEN <<Select(d), e>> ELSE <<e>>

\* What one entry does to the dataset of a replica whose master client has
\* database db selected
Applied(x, e) ==
    CASE e.t = "select" -> [x EXCEPT !.db = e.db]
      [] e.t = "write"  -> [x EXCEPT !.data = Append(@, <<x.db, e.w>>)]
      [] e.t = "ping"   -> x

-----------------------------------------------------------------------------
(* Connections that end. *)

\* freeClient(server.master) and replicationCacheMaster, or
\* cancelReplicationHandshake: a replica that loses its connection
Disconnected(s) ==
    IF s.st = "connected"
      THEN [s EXCEPT !.st = "connect", !.cached = s.master, !.master = None]
      ELSE [s EXCEPT !.st = "connect", !.initial = None]

Break(nd, gone) ==
    [r \in Nodes |-> IF r \in gone THEN Disconnected(nd[r]) ELSE nd[r]]

Cut(l, gone) == [r \in Nodes |-> IF r \in gone THEN None ELSE l[r]]

\* disconnectSlaves of node n, and clients of it that are not slaves yet
Followers(l, n) == {r \in Nodes : l[r] # None /\ l[r].to = n}

\* The connection of r breaks, or one end gives it up: a timeout of
\* replicationCron, an error, a full output buffer
Drop(r) ==
    /\ link[r] # None
    /\ Spend("drops")
    /\ node' = Break(node, {r})
    /\ link' = Cut(link, {r})
    /\ UNCHANGED <<conf, ids, woff>>

-----------------------------------------------------------------------------
(* Clients of a master. *)

\* A write; the master's offset moves only when there is a backlog
Write(n, d, w) ==
    /\ node[n].host = None
    /\ woff[w] = None
    /\ Spend("writes")
    /\ LET s  == [node[n] EXCEPT !.data = Append(@, <<d, w>>)]
           es == Stream(s, d, Command(w))
           fed == IF s.backlog.on
                    THEN [FeedBacklog(s, es) EXCEPT !.seldb = d] ELSE s
       IN  /\ node' = [node EXCEPT ![n] = fed]
           /\ link' = IF s.backlog.on THEN FeedSlaves(link, n, es) ELSE link
           /\ woff' = [woff EXCEPT ![w] = [at |-> n, id |-> s.id,
                                           off |-> fed.off]]
    /\ UNCHANGED <<conf, ids>>

\* The PING of replicationCron, in the database already selected
PingSlaves(n) ==
    /\ node[n].host = None
    /\ Slaves(link, n) # {}
    /\ Spend("pings")
    /\ node' = [node EXCEPT ![n] = FeedBacklog(@, <<Ping>>)]
    /\ link' = FeedSlaves(link, n, <<Ping>>)
    /\ UNCHANGED <<conf, ids, woff>>

-----------------------------------------------------------------------------
(* A replica connects and asks to continue. *)

\* connectWithMaster, the handshake of syncWithMaster up to the writing half
\* of slaveTryPartialResynchronization
Connect(r) ==
    LET s == node[r]
    IN  /\ s.st = "connect"
        /\ link' = [link EXCEPT ![r] =
             [to |-> s.host, st |-> "psync", q |-> <<>>, reply |-> None,
              rdb |-> None, init |-> 0, ack |-> 0,
              ask |-> IF s.cached = None THEN None
                      ELSE [id |-> s.cached.id, off |-> s.cached.off + 1]]]
        /\ node' = [node EXCEPT ![r].st = "handshake"]
        /\ UNCHANGED <<conf, ids, woff, budget>>

\* Mutant: the second id is good for any offset
CanContinueAnyOffset(s, ask) ==
    /\ ask # None
    /\ ask.id \in {s.id, s.id2}
    /\ s.backlog.on
    /\ ask.off >= s.backlog.off
    /\ ask.off <= s.backlog.off + s.backlog.hist

\* masterTryPartialResynchronization
CanContinue(s, ask) ==
    /\ ask # None
    /\ ask.id = s.id \/ (ask.id = s.id2 /\ ask.off <= s.off2)
    /\ s.backlog.on
    /\ ask.off >= s.backlog.off
    /\ ask.off <= s.backlog.off + s.backlog.hist

Full(id, off) == [t |-> "full", id |-> id, off |-> off]
Continue(id) == [t |-> "continue", id |-> id]

\* rdbPopulateSaveInfo: the replication fields of an RDB file, or None
SaveInfo(s) ==
    IF s.host = None /\ s.backlog.on
      THEN [id |-> s.id, off |-> s.off,
            db |-> IF s.seldb = None THEN 0 ELSE s.seldb]
      ELSE IF s.master # None
             THEN [id |-> s.id, off |-> s.off, db |-> s.master.db]
             ELSE IF s.cached # None
                    THEN [id |-> s.id, off |-> s.off, db |-> s.cached.db]
                    ELSE None

Snapshot(s) == [data |-> s.data, info |-> SaveInfo(s), broken |-> FALSE]

\* The slaves of n waiting for a BGSAVE to start
Waiting(l, n) == {r \in Slaves(l, n) : l[r].st = "start"}

\* startBgsaveForReplication with a disk target: every waiting slave is told
\* the offset of the snapshot and starts to accumulate; without replication
\* information the waiting slaves are dropped
StartBgsave(nd, l, n) ==
    LET s == nd[n]
    IN  IF SaveInfo(s) = None
          THEN [node |-> Break(nd, Waiting(l, n)), link |-> Cut(l, Waiting(l, n))]
          ELSE [node |-> [nd EXCEPT ![n].child = Snapshot(s), ![n].seldb = None],
                link |-> [r \in Nodes |->
                            IF r \in Waiting(l, n)
                              THEN [l[r] EXCEPT !.st = "end", !.init = s.off,
                                                !.reply = Full(s.id, s.off)]
                              ELSE l[r]]]

\* Node n handles the PSYNC of r: syncCommand
Psync(r) ==
    /\ link[r] # None /\ link[r].st = "psync"
    /\ LET n == link[r].to
           s == node[n]
           refused == s.host # None /\ s.st # "connected"   \* -NOMASTERLINK
           waits == [link EXCEPT ![r].st = "start"]
           first == ~s.backlog.on /\ Slaves(link, n) \cup {r} = {r}
           based == IF first
                      THEN [node EXCEPT ![n] =
                              CreateBacklog([s EXCEPT !.id = ids + 1,
                                                      !.id2 = None, !.off2 = 0])]
                      ELSE node
           saving == {x \in Slaves(link, n) : link[x].st = "end"}
       IN  \/ /\ refused
              /\ node' = Break(node, {r}) /\ link' = Cut(link, {r})
              /\ UNCHANGED ids
           \/ /\ ~refused /\ CanContinue(s, link[r].ask)
              /\ link' = [link EXCEPT ![r].st = "online",
                             ![r].reply = Continue(s.id),
                             ![r].q = BacklogFrom(s.backlog, link[r].ask.off)]
              /\ UNCHANGED <<node, ids>>
           \/ /\ ~refused /\ ~CanContinue(s, link[r].ask)
              /\ ids' = IF first THEN ids + 1 ELSE ids
              /\ IF s.child = None
                   THEN LET b == StartBgsave(based, waits, n)
                        IN  node' = b.node /\ link' = b.link
                   ELSE IF saving = {}
                   THEN node' = based /\ link' = waits
                   ELSE \* attach to the BGSAVE another slave is waiting for
                        \E x \in saving :
                          /\ node' = [based EXCEPT ![n].seldb = None]
                          /\ link' = [link EXCEPT ![r].st = "end",
                               ![r].q = link[x].q, ![r].init = link[x].init,
                               ![r].reply = Full(s.id, link[x].init)]
    /\ UNCHANGED <<conf, woff, budget>>

\* The replica reads the reply: the reading half of
\* slaveTryPartialResynchronization and the end of syncWithMaster.  Unless
\* the master's id did not change its own slaves are disconnected.
ReadReply(r) ==
    /\ link[r] # None /\ node[r].st = "handshake" /\ link[r].reply # None
    /\ LET s     == node[r]
           reply == link[r].reply
           gone  == Followers(link, r)
           shifted == IF reply.id = s.cached.id THEN s
                      ELSE [s EXCEPT !.id2 = s.cached.id, !.off2 = s.off + 1,
                                     !.id = reply.id, !.cached.id = reply.id]
           resumed == [shifted EXCEPT !.st = "connected",
                                      !.master = shifted.cached, !.cached = None]
           follows == IF resumed.backlog.on THEN resumed ELSE CreateBacklog(resumed)
           receives == [s EXCEPT !.st = "transfer", !.cached = None,
                          !.backlog = NoBacklog,
                          !.initial = [id |-> reply.id, off |-> reply.off]]
           read == [link EXCEPT ![r].reply = None]
       IN  IF reply.t = "continue"
             THEN IF reply.id = s.cached.id
                    THEN /\ node' = [node EXCEPT ![r] = follows]
                         /\ link' = read
                    ELSE /\ node' = [Break(node, gone) EXCEPT ![r] = follows]
                         /\ link' = Cut(read, gone)
             ELSE /\ node' = [Break(node, gone) EXCEPT ![r] = receives]
                  /\ link' = Cut(read, gone)
    /\ UNCHANGED <<conf, ids, woff, budget>>

-----------------------------------------------------------------------------
(* Full resynchronization. *)

\* BGSAVE by a client or a save point: the same child process, no slave
\* attached
Bgsave(n) ==
    /\ node[n].child = None
    /\ Spend("saves")
    /\ node' = [node EXCEPT ![n].child = Snapshot(node[n])]
    /\ UNCHANGED <<conf, link, ids, woff>>

\* backgroundSaveDoneHandlerDisk and updateSlavesWaitingBgsave: the file is
\* sent to the slaves waiting for it, and a save starts for those that could
\* not attach
EndBgsave(n, ok) ==
    /\ node[n].child # None
    /\ ok => ~node[n].child.broken
    /\ IF ok \/ node[n].child.broken THEN UNCHANGED budget ELSE Spend("failures")
    /\ LET rdb  == [node[n].child EXCEPT !.broken = FALSE]
           ends == {r \in Slaves(link, n) : link[r].st = "end"}
           gone == IF ok THEN {} ELSE ends
           nd   == [Break(node, gone) EXCEPT
                      ![n].child = None, ![n].dump = IF ok THEN rdb ELSE @]
           l    == [r \in Nodes |->
                      IF r \in ends
                        THEN IF ok THEN [link[r] EXCEPT !.st = "bulk", !.rdb = rdb]
                             ELSE None
                        ELSE link[r]]
       IN  IF Waiting(l, n) = {} THEN node' = nd /\ link' = l
           ELSE LET b == StartBgsave(nd, l, n)
                IN  node' = b.node /\ link' = b.link
    /\ UNCHANGED <<conf, ids, woff>>

\* A child that was running is killed; it is reaped later, by EndBgsave
Kill(s) == IF s.child = None THEN s ELSE [s EXCEPT !.child.broken = TRUE]

\* readSyncBulkPayload when the whole file has arrived
Load(r) ==
    /\ link[r] # None /\ link[r].st = "bulk" /\ node[r].st = "transfer"
    /\ LET s   == node[r]
           rdb == link[r].rdb
           set == [Kill(s) EXCEPT !.dump = rdb, !.data = rdb.data,
                     !.st = "connected", !.initial = None,
                     !.master = [id |-> s.initial.id, off |-> s.initial.off,
                                 db |-> rdb.info.db],
                     !.id = s.initial.id, !.off = s.initial.off,
                     !.id2 = None, !.off2 = 0]
       IN  /\ node' = [node EXCEPT ![r] =
                         IF set.backlog.on THEN set ELSE CreateBacklog(set)]
           /\ link' = [link EXCEPT ![r].st = "online", ![r].rdb = None]
    /\ UNCHANGED <<conf, ids, woff, budget>>

\* The file cannot be loaded: the old dataset is gone and the sync is off
LoadFails(r) ==
    /\ link[r] # None /\ link[r].st = "bulk" /\ node[r].st = "transfer"
    /\ Spend("failures")
    /\ node' = [node EXCEPT ![r] =
                  [Disconnected(Kill(@)) EXCEPT !.data = <<>>,
                     !.dump = [link[r].rdb EXCEPT !.broken = TRUE]]]
    /\ link' = Cut(link, {r})
    /\ UNCHANGED <<conf, ids, woff>>

-----------------------------------------------------------------------------
(* A replica in steady state. *)

\* processInputBufferAndReplicate: what the replica applied it passes on
\* unchanged to its backlog and its own slaves
Apply(r) ==
    /\ link[r] # None /\ node[r].st = "connected" /\ link[r].q # <<>>
    /\ LET e == Head(link[r].q)
           s == node[r]
           x == Applied([data |-> s.data, db |-> s.master.db], e)
           t == [s EXCEPT !.data = x.data, !.master.db = x.db,
                          !.master.off = @ + 1]
       IN  /\ node' = [node EXCEPT ![r] = FeedBacklog(t, <<e>>)]
           /\ link' = [FeedSlaves(link, r, <<e>>) EXCEPT ![r].q = Tail(@)]
    /\ UNCHANGED <<conf, ids, woff, budget>>

\* replicationSendAck, and REPLCONF ACK at the master
Ack(r) ==
    /\ link[r] # None /\ node[r].st = "connected"
    /\ link[r].ack < node[r].master.off
    /\ Spend("acks")
    /\ link' = [link EXCEPT ![r].ack = node[r].master.off]
    /\ UNCHANGED <<conf, node, ids, woff>>

\* Mutant: the offset acknowledged is compared with the first byte of the
\* write, not the last
AcksByOffsetFirst(n, o) ==
    {r \in Slaves(link, n) : link[r].st = "online" /\ link[r].ack + 1 >= o}

\* replicationCountAcksByOffset, which WAIT answers with
AcksByOffset(n, o) ==
    {r \in Slaves(link, n) : link[r].st = "online" /\ link[r].ack >= o}

-----------------------------------------------------------------------------
(* Changes of role. *)

\* The connections that end when n changes its master: those of its slaves,
\* and the one its own repl_state says it has or is making
Abandoned(n) ==
    Followers(link, n) \cup {r \in {n} : node[r].st \notin {"none", "connect"}}

\* replicationSetMaster
SetMaster(n, m) ==
    /\ m # n /\ node[n].host # m
    /\ Spend("roles")
    /\ LET gone == Abandoned(n)
           nd   == Break(node, gone)
           own  == [id |-> node[n].id, off |-> node[n].off, db |-> 0]
       IN  /\ node' = [nd EXCEPT ![n] =
                 [@ EXCEPT !.host = m, !.st = "connect",
                           !.cached = IF node[n].host = None THEN own
                                      ELSE nd[n].cached]]
           /\ link' = Cut(link, gone)
    /\ UNCHANGED <<conf, ids, woff>>

\* replicationUnsetMaster, with shiftReplicationId
UnsetMaster(n) ==
    /\ node[n].host # None
    /\ Spend("roles")
    /\ LET gone == Abandoned(n)
           nd   == Break(node, gone)
       IN  /\ node' = [nd EXCEPT ![n] =
                 [@ EXCEPT !.host = None, !.st = "none", !.cached = None,
                           !.id2 = node[n].id, !.off2 = node[n].off + 1,
                           !.id = ids + 1, !.seldb = None]]
           /\ link' = Cut(link, gone)
    /\ ids' = ids + 1
    /\ UNCHANGED <<conf, woff>>

\* Mutant: the backlog is freed whether or not there are slaves
FreeBacklogAnyway(n) ==
    /\ node[n].host = None /\ node[n].backlog.on
    /\ Spend("frees")
    /\ node' = [node EXCEPT ![n] =
                  [@ EXCEPT !.id = ids + 1, !.id2 = None, !.off2 = 0,
                            !.backlog = NoBacklog]]
    /\ ids' = ids + 1
    /\ UNCHANGED <<conf, link, woff>>

\* replicationCron: a master without slaves for long gives up its backlog
FreeBacklog(n) ==
    /\ node[n].host = None /\ node[n].backlog.on /\ Slaves(link, n) = {}
    /\ Spend("frees")
    /\ node' = [node EXCEPT ![n] =
                  [@ EXCEPT !.id = ids + 1, !.id2 = None, !.off2 = 0,
                            !.backlog = NoBacklog]]
    /\ ids' = ids + 1
    /\ UNCHANGED <<conf, link, woff>>

-----------------------------------------------------------------------------
(* Start and restart. *)

Boot(host, id) ==
    [host |-> host, st |-> IF host = None THEN "none" ELSE "connect",
     id |-> id, id2 |-> None, off2 |-> 0, off |-> 0, data |-> <<>>,
     seldb |-> None, backlog |-> NoBacklog, master |-> None, cached |-> None,
     initial |-> None, dump |-> None, child |-> None]

\* Mutant: master_repl_offset is not restored with the id
LoadedNoOffset(s, dump) ==
    LET t == [s EXCEPT !.dump = dump, !.data = dump.data]
    IN  IF dump = None THEN s
        ELSE IF s.host = None \/ dump.info = None THEN t
        ELSE [t EXCEPT !.id = dump.info.id,
                       !.cached = [id |-> dump.info.id, off |-> dump.info.off,
                                   db |-> dump.info.db]]

\* loadDataFromDisk: a replica resumes from the id and offset of its file
Loaded(s, dump) ==
    LET t == [s EXCEPT !.dump = dump, !.data = dump.data]
    IN  IF dump = None THEN s
        ELSE IF s.host = None \/ dump.info = None THEN t
        ELSE [t EXCEPT !.id = dump.info.id, !.off = dump.info.off,
                       !.cached = [id |-> dump.info.id, off |-> dump.info.off,
                                   db |-> dump.info.db]]

Restart(n) ==
    /\ node[n].dump # None => ~node[n].dump.broken    \* else it exits
    /\ Spend("restarts")
    /\ LET gone == Followers(link, n)
       IN  /\ node' = [Break(node, gone) EXCEPT ![n] =
                         Loaded(Boot(node[n].host, ids + 1), node[n].dump)]
           /\ link' = Cut(link, gone \cup {n})
    /\ ids' = ids + 1
    /\ UNCHANGED <<conf, woff>>

\* A deployment whose replicas have all made their first synchronization
Synced(hosts, n) ==
    LET empty == [data |-> <<>>, info |-> [id |-> 1, off |-> 0, db |-> 0],
                  broken |-> FALSE]
        s == CreateBacklog([Boot(hosts[n], 1) EXCEPT !.dump = empty])
    IN  IF hosts[n] = None THEN s
        ELSE [s EXCEPT !.st = "connected",
                       !.master = [id |-> 1, off |-> 0, db |-> 0]]

Online(n) == [to |-> n, st |-> "online", q |-> <<>>, reply |-> None,
              rdb |-> None, init |-> 0, ack |-> 0, ask |-> None]

Init ==
    /\ conf \in Configs
    /\ LET hosts == conf.hosts
       IN  IF conf.synced
             THEN /\ node = [n \in Nodes |-> Synced(hosts, n)]
                  /\ link = [n \in Nodes |->
                               IF hosts[n] = None THEN None ELSE Online(hosts[n])]
                  /\ ids = 1
             ELSE /\ LET id == CHOOSE f \in Bijection(Nodes, 1..Cardinality(Nodes)) : TRUE
                     IN  node = [n \in Nodes |-> Boot(hosts[n], id[n])]
                  /\ link = [n \in Nodes |-> None]
                  /\ ids = Cardinality(Nodes)
    /\ woff = [w \in Writes |-> None]
    /\ budget = conf.budget

Next ==
    \/ \E n \in conf.nodes, d \in Dbs, w \in Writes : Write(n, d, w)
    \/ \E n \in conf.nodes : PingSlaves(n)
    \/ \E n \in conf.nodes : Bgsave(n)
    \/ \E n \in conf.nodes, ok \in BOOLEAN : EndBgsave(n, ok)
    \/ \E n, m \in conf.nodes : SetMaster(n, m)
    \/ \E n \in conf.nodes : UnsetMaster(n)
    \/ \E n \in conf.nodes : FreeBacklog(n)
    \/ \E n \in conf.nodes : Restart(n)
    \/ \E r \in conf.nodes : Drop(r)
    \/ \E r \in conf.nodes : Connect(r)
    \/ \E r \in conf.nodes : Psync(r)
    \/ \E r \in conf.nodes : ReadReply(r)
    \/ \E r \in conf.nodes : Load(r)
    \/ \E r \in conf.nodes : LoadFails(r)
    \/ \E r \in conf.nodes : Apply(r)
    \/ \E r \in conf.nodes : Ack(r)

Spec == Init /\ [][Next]_vars

-----------------------------------------------------------------------------
(* Properties. *)

\* What a deployment may be: its servers are among Nodes, and none is
\* configured as a replica of itself.
Deployable ==
    /\ None \notin Nodes
    /\ \A c \in Configs :
         /\ c.nodes \subseteq Nodes
         /\ \A n \in Nodes : c.hosts[n] \in (Nodes \cup {None}) \ {n}

\* A connected replica will be an exact copy: its dataset, once it has
\* applied what its connection still carries, is the one of its master, in
\* the same databases, and its offset then is master_repl_offset.  It holds
\* across every PSYNC the code accepts (after a promotion, under the second
\* replication id, from a restarted replica's RDB file, out of a wrapped
\* backlog) and every full resynchronization, attached ones included.
ReplicaConsistent ==
    \A r \in Nodes : node[r].st = "connected" =>
      LET m == node[link[r].to]
          q == link[r].q
          after[i \in 0..Len(q)] ==
            IF i = 0 THEN [data |-> node[r].data, db |-> node[r].master.db]
                     ELSE Applied(after[i - 1], q[i])
          x == after[Len(q)]
      IN  /\ x.data = m.data
          /\ node[r].master.off + Len(q) = m.off

\* What a replica knows of the stream agrees with what it would tell others:
\* the offset of its master client (PSYNC and ACK use it) and its own
\* master_repl_offset (its backlog, its RDB file and its second replication
\* id use it) never part, connected or not.
OffsetsAgree ==
    \A r \in Nodes :
      /\ node[r].master # None =>
           node[r].master.off = node[r].off /\ node[r].master.id = node[r].id
      /\ node[r].cached # None =>
           node[r].cached.off = node[r].off /\ node[r].cached.id = node[r].id

\* WAIT never counts a replica that does not hold the write: a replica whose
\* acknowledged offset reaches the client's woff has applied the write.
WaitHonest ==
    \A w \in Writes : woff[w] # None =>
      LET n == woff[w].at
          holds(x) == \E i \in 1..Len(node[x].data) : node[x].data[i][2] = w
      IN  (node[n].host = None /\ holds(n))
            => \A r \in AcksByOffset(n, woff[w].off) : holds(r)

\* Slaves, whatever stage of their synchronization they are in, never exist
\* without a backlog: what replicationFeedSlaves and freeReplicationBacklog
\* assert.  Role changes, full resynchronizations of the server itself and
\* replicationCron all free or lose the backlog.
SlavesHaveBacklog ==
    \A n \in Nodes : Slaves(link, n) # {} => node[n].backlog.on
=============================================================================
