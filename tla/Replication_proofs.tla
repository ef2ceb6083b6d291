------------------------- MODULE Replication_proofs -------------------------
(***************************************************************************)
(* Proofs about replication.c, for any number of servers and databases,    *)
(* any topology and backlog size, and any number of writes, broken         *)
(* connections, role changes and restarts.                                 *)
(***************************************************************************)
EXTENDS Replication, TLAPS

-----------------------------------------------------------------------------
(* What holds of one server and of its connection with its master. *)

\* s has the fields of the server struct.
Server(s) ==
  s \in [host : {s.host}, st : {s.st}, id : {s.id}, id2 : {s.id2},
         off2 : {s.off2}, off : {s.off}, data : {s.data}, seldb : {s.seldb},
         backlog : {s.backlog}, master : {s.master}, cached : {s.cached},
         initial : {s.initial}, dump : {s.dump}, child : {s.child}]

Buffer(b) ==
  b \in [on : {b.on}, buf : {b.buf}, idx : {b.idx}, hist : {b.hist}, off : {b.off}]

Connection(l) ==
  l \in [to : {l.to}, st : {l.st}, q : {l.q}, reply : {l.reply},
         rdb : {l.rdb}, init : {l.init}, ack : {l.ack}, ask : {l.ask}]

\* The master client c, connected or cached, is where s says it is.
Place(c, s) == c \in [id : {s.id}, off : {s.off}, db : {c.db}]

\* repl_state says which of the master clients there is.  A connected
\* replica has a backlog, so its offset moves with every entry it applies.
Sound(s, r) ==
  /\ Server(s) /\ Buffer(s.backlog)
  /\ s.host \in (Nodes \cup {None}) \ {r}
  /\ s.st \in {"none", "connect", "handshake", "transfer", "connected"}
  /\ s.st = "none" <=> s.host = None
  /\ s.st = "connected" => Place(s.master, s) /\ s.backlog.on
  /\ s.st # "connected" => s.master = None
  /\ s.cached # None => s.st \in {"connect", "handshake"} /\ Place(s.cached, s)

\* A connection goes to the configured master, and a master is asked to
\* continue, and agrees to, only while the asker keeps its cached master.
Linked(l, s) ==
  l # None =>
    /\ Connection(l) /\ l.to = s.host
    /\ s.st \in {"handshake", "transfer", "connected"}
    /\ s.st = "handshake" =>
         /\ l.ask # None => s.cached # None
         /\ l.reply # None /\ l.reply.t = "continue" => s.cached # None

\* The servers nd and their connections l.
Good(nd, l) ==
  /\ nd = [r \in Nodes |-> nd[r]] /\ l = [r \in Nodes |-> l[r]]
  /\ \A r \in Nodes : Sound(nd[r], r) /\ Linked(l[r], nd[r])
  /\ \A n \in Nodes : Slaves(l, n) # {} => nd[n].backlog.on

Inv == conf \in Configs /\ Good(node, link)

-----------------------------------------------------------------------------
(* The operations on one server. *)

\* t differs from s in nothing the invariant is about but the offset.
Fed(s, t) ==
  /\ Server(t) /\ t.host = s.host /\ t.st = s.st /\ t.id = s.id
  /\ t.master = s.master /\ t.cached = s.cached
  /\ Buffer(t.backlog) /\ t.backlog.on = s.backlog.on

Same(s, t) == Fed(s, t) /\ t.off = s.off

LEMMA SameSound ==
  ASSUME NEW r, NEW s, NEW t, Sound(s, r), Same(s, t)
  PROVE  Sound(t, r) /\ t.backlog.on = s.backlog.on
BY DEF Same, Fed, Sound, Place

LEMMA SameLinked ==
  ASSUME NEW s, NEW t, NEW l, Linked(l, s), Same(s, t)
  PROVE  Linked(l, t)
BY DEF Same, Fed, Linked

\* A replica that loses its connection keeps its place as the cached master.
LEMMA DisconnectedSound ==
  ASSUME NEW r, NEW s, Sound(s, r), s.host # None
  PROVE  LET t == Disconnected(s)
         IN  /\ Sound(t, r) /\ t.st = "connect" /\ t.host = s.host
             /\ t.backlog = s.backlog /\ t.id = s.id /\ t.off = s.off
<1>1. CASE s.st = "connected"
  BY <1>1, Zenon DEF Disconnected, Sound, Server, Place
<1>2. CASE s.st # "connected"
  BY <1>2, Zenon DEF Disconnected, Sound, Server, Place
<1> QED BY <1>1, <1>2

LEMMA CreateBacklogKeeps ==
  ASSUME NEW s, Server(s)
  PROVE  LET t == CreateBacklog(s)
         IN  /\ Server(t) /\ Buffer(t.backlog) /\ t.backlog.on
             /\ t.host = s.host /\ t.st = s.st /\ t.id = s.id /\ t.off = s.off
             /\ t.master = s.master /\ t.cached = s.cached
BY Zenon DEF CreateBacklog, Server, Buffer

LEMMA FeedOneKeeps ==
  ASSUME NEW s, NEW e, Server(s), Buffer(s.backlog)
  PROVE  Fed(s, FeedOne(s, e)) /\ FeedOne(s, e).off = s.off + 1
BY ZenonT(30) DEF Fed, FeedOne, Server, Buffer

LEMMA FedTransitive ==
  ASSUME NEW s, NEW t, NEW u, Fed(s, t), Fed(t, u)
  PROVE  Fed(s, u)
BY DEF Fed

\* Only the offset moves, and on a server without a backlog not even that.
LEMMA FeedBacklogKeeps ==
  ASSUME NEW s, NEW es, Server(s), Buffer(s.backlog)
  PROVE  /\ Fed(s, FeedBacklog(s, es))
         /\ s.backlog.on /\ Len(es) = 1 => FeedBacklog(s, es).off = s.off + 1
<1>1. CASE ~s.backlog.on
  BY <1>1 DEF FeedBacklog, Fed
<1>2. CASE s.backlog.on /\ Len(es) = 1
  BY <1>2, FeedOneKeeps DEF FeedBacklog
<1>3. CASE s.backlog.on /\ Len(es) # 1
  <2> DEFINE u == FeedOne(s, es[1])
  <2>1. FeedBacklog(s, es) = FeedOne(u, es[2])
    BY <1>3 DEF FeedBacklog
  <2>2. Fed(s, u)
    BY FeedOneKeeps
  <2> HIDE DEF u
  <2>3. Fed(u, FeedOne(u, es[2]))
    BY <2>2, FeedOneKeeps DEF Fed
  <2> QED BY <1>3, <2>1, <2>2, <2>3, FedTransitive
<1> QED BY <1>1, <1>2, <1>3

\* A master's offset may move: it has no place in another's stream.
LEMMA MasterFed ==
  ASSUME NEW r, NEW s, NEW t, Sound(s, r), s.host = None, Fed(s, t)
  PROVE  Sound(t, r)
BY DEF Fed, Sound

LEMMA FedLinked ==
  ASSUME NEW s, NEW t, NEW l, Linked(l, s), Fed(s, t)
  PROVE  Linked(l, t)
BY DEF Fed, Linked

-----------------------------------------------------------------------------
(* The operations on the servers and their connections. *)

\* One server changes.
LEMMA OneServer ==
  ASSUME NEW nd, NEW l, NEW n \in Nodes, NEW t, Good(nd, l),
         Sound(t, n), Linked(l[n], t), Slaves(l, n) # {} => t.backlog.on
  PROVE  Good([nd EXCEPT ![n] = t], l)
<1> DEFINE u == [nd EXCEPT ![n] = t]
<1>1. /\ u = [r \in Nodes |-> u[r]] /\ u[n] = t
      /\ \A r \in Nodes \ {n} : u[r] = nd[r]
  BY DEF Good
<1> HIDE DEF u
<1>2. \A r \in Nodes : Sound(u[r], r) /\ Linked(l[r], u[r])
  BY <1>1 DEF Good
<1>3. \A m \in Nodes : Slaves(l, m) # {} => u[m].backlog.on
  BY <1>1, ZenonT(30) DEF Good
<1>4. Good(u, l)
  BY <1>1, <1>2, <1>3 DEF Good
<1> QED BY <1>4 DEF u

\* Connections end, and the replicas at their ends notice.
LEMMA BreakCut ==
  ASSUME NEW nd, NEW l, NEW gone, Good(nd, l),
         \A r \in gone : r \in Nodes => nd[r].host # None
  PROVE  Good(Break(nd, gone), Cut(l, gone))
<1> DEFINE u == Break(nd, gone)
           k == Cut(l, gone)
<1>1. /\ u = [r \in Nodes |-> u[r]] /\ k = [r \in Nodes |-> k[r]]
      /\ \A r \in Nodes : r \in gone => u[r] = Disconnected(nd[r]) /\ k[r] = None
      /\ \A r \in Nodes : r \notin gone => u[r] = nd[r] /\ k[r] = l[r]
  BY DEF Break, Cut
<1> HIDE DEF u, k
<1>2. ASSUME NEW r \in Nodes
      PROVE  Sound(u[r], r) /\ Linked(k[r], u[r]) /\ u[r].backlog = nd[r].backlog
  <2>1. CASE r \in gone
    <3>1. u[r] = Disconnected(nd[r]) /\ k[r] = None /\ nd[r].host # None
      BY <2>1, <1>1
    <3>2. Sound(nd[r], r)
      BY DEF Good
    <3>3. Sound(u[r], r) /\ u[r].backlog = nd[r].backlog
      BY <3>1, <3>2, DisconnectedSound
    <3> QED BY <3>1, <3>3 DEF Linked
  <2>2. CASE r \notin gone
    BY <2>2, <1>1 DEF Good
  <2> QED BY <2>1, <2>2
<1>3. ASSUME NEW n \in Nodes, Slaves(k, n) # {}
      PROVE  u[n].backlog.on
  <2>1. Slaves(l, n) # {}
    BY <1>1, <1>3 DEF Slaves
  <2> QED BY <2>1, <1>2, Zenon DEF Good
<1>4. Good(u, k)
  BY <1>1, <1>2, <1>3, Zenon DEF Good
<1> QED BY <1>4 DEF u, k

\* Connections change, and their ends do not.
LEMMA NewLinks ==
  ASSUME NEW nd, NEW l, NEW k, Good(nd, l), k = [r \in Nodes |-> k[r]],
         \A r \in Nodes : Linked(k[r], nd[r]),
         \A n \in Nodes : Slaves(k, n) # {} => nd[n].backlog.on
  PROVE  Good(nd, k)
BY ZenonT(30) DEF Good

\* One connection changes; a connection that becomes a slave's needs a backlog.
LEMMA OneLink ==
  ASSUME NEW nd, NEW l, NEW r \in Nodes, NEW c, Good(nd, l), Linked(c, nd[r]),
         c # None /\ c.st # "psync" => nd[c.to].backlog.on
  PROVE  Good(nd, [l EXCEPT ![r] = c])
<1> DEFINE k == [l EXCEPT ![r] = c]
<1>1. k = [x \in Nodes |-> k[x]] /\ k[r] = c /\ \A x \in Nodes \ {r} : k[x] = l[x]
  BY DEF Good
<1> HIDE DEF k
<1>2. \A x \in Nodes : Linked(k[x], nd[x])
  BY <1>1 DEF Good
<1>3. ASSUME NEW n \in Nodes, Slaves(k, n) # {}
      PROVE  nd[n].backlog.on
  <2>1. PICK x \in Slaves(k, n) : TRUE
    BY <1>3
  <2>2. CASE x = r
    BY <2>1, <2>2, <1>1 DEF Slaves
  <2>3. CASE x # r
    <3>1. x \in Slaves(l, n)
      BY <2>1, <2>3, <1>1 DEF Slaves
    <3> QED BY <3>1 DEF Good
  <2> QED BY <2>2, <2>3
<1>4. Good(nd, k)
  BY <1>1, <1>2, <1>3, NewLinks
<1> QED BY <1>4 DEF k

LEMMA FeedSlavesKeeps ==
  ASSUME NEW nd, NEW l, NEW n, NEW es, Good(nd, l)
  PROVE  Good(nd, FeedSlaves(l, n, es))
<1> DEFINE k == FeedSlaves(l, n, es)
<1>1. k = [r \in Nodes |-> k[r]]
  BY DEF FeedSlaves
<1>2. ASSUME NEW r \in Nodes
      PROVE  /\ Linked(k[r], nd[r])
             /\ k[r] # None => l[r] # None /\ k[r].to = l[r].to /\ k[r].st = l[r].st
  <2>1. CASE r \in Slaves(l, n) /\ l[r].st # "start"
    <3>1. l[r] # None /\ Linked(l[r], nd[r]) /\ k[r] = [l[r] EXCEPT !.q = @ \o es]
      BY <2>1 DEF Slaves, Good, FeedSlaves
    <3> QED BY <3>1 DEF Linked, Connection
  <2>2. CASE ~(r \in Slaves(l, n) /\ l[r].st # "start")
    BY <2>2 DEF Good, FeedSlaves
  <2> QED BY <2>1, <2>2
<1> HIDE DEF k
<1>3. \A m \in Nodes : Slaves(k, m) # {} => nd[m].backlog.on
  BY <1>2 DEF Slaves, Good
<1>4. Good(nd, k)
  BY <1>1, <1>2, <1>3, NewLinks
<1> QED BY <1>4 DEF k

\* A connected slave has a configured master.
LEMMA FollowersHaveHosts ==
  ASSUME NEW nd, NEW l, Good(nd, l), NEW r \in Nodes, l[r] # None
  PROVE  nd[r].host # None /\ nd[r].host = l[r].to /\ nd[r].host # r
BY DEF Good, Sound, Linked

\* SlavesHaveBacklog, for one slave.
LEMMA SlaveBacklog ==
  ASSUME NEW nd, NEW l, Good(nd, l), NEW r \in Nodes, l[r] # None, l[r].st # "psync"
  PROVE  l[r].to \in Nodes /\ nd[l[r].to].backlog.on
<1>1. l[r].to \in Nodes
  BY DEF Good, Sound, Linked
<1>2. r \in Slaves(l, l[r].to)
  BY DEF Slaves
<1> QED BY <1>1, <1>2, Zenon DEF Good

\* startBgsaveForReplication, whether it starts or gives up.
LEMMA StartBgsaveKeeps ==
  ASSUME NEW nd, NEW l, NEW n \in Nodes, Good(nd, l)
  PROVE  Good(StartBgsave(nd, l, n).node, StartBgsave(nd, l, n).link)
<1> DEFINE b == StartBgsave(nd, l, n)
           gone == Waiting(l, n)
<1>1. CASE SaveInfo(nd[n]) = None
  <2>1. b.node = Break(nd, gone) /\ b.link = Cut(l, gone)
    BY <1>1 DEF StartBgsave
  <2>2. \A r \in gone : r \in Nodes => nd[r].host # None
    BY FollowersHaveHosts DEF Waiting, Slaves
  <2> HIDE DEF b, gone
  <2>3. Good(b.node, b.link)
    BY <2>1, <2>2, BreakCut
  <2> QED BY <2>3 DEF b
<1>2. CASE SaveInfo(nd[n]) # None
  <2> DEFINE s == nd[n]
             t == [s EXCEPT !.child = Snapshot(s), !.seldb = None]
             u == [nd EXCEPT ![n].child = Snapshot(s), ![n].seldb = None]
             k == [r \in Nodes |->
                     IF r \in gone
                       THEN [l[r] EXCEPT !.st = "end", !.init = s.off,
                                         !.reply = Full(s.id, s.off)]
                       ELSE l[r]]
  <2>1. b.node = u /\ b.link = k
    BY <1>2 DEF StartBgsave
  <2>2. Sound(s, n) /\ Linked(l[n], s) /\ nd = [r \in Nodes |-> nd[r]]
    BY DEF Good
  <2>3. Same(s, t)
    BY <2>2, Zenon DEF Same, Fed, Sound, Server
  <2>4. u = [nd EXCEPT ![n] = t]
    BY <2>2, Zenon
  <2>5. Good(u, l)
    <3> HIDE DEF t, u, s
    <3>1. Sound(t, n) /\ Linked(l[n], t) /\ t.backlog.on = s.backlog.on
      BY <2>2, <2>3, SameSound, SameLinked
    <3>2. Slaves(l, n) # {} => t.backlog.on
      BY <3>1, Zenon DEF Good, s
    <3> QED BY <2>4, <3>1, <3>2, OneServer, Zenon
  <2>6. ASSUME NEW r \in Nodes
        PROVE  /\ Linked(k[r], u[r])
               /\ k[r] # None => /\ l[r] # None /\ k[r].to = l[r].to
                                 /\ l[r].st = "psync" => k[r].st = "psync"
    <3> HIDE DEF u
    <3>1. Linked(l[r], u[r])
      BY <2>5 DEF Good
    <3>2. CASE r \in gone
      <4>1. /\ l[r] # None /\ l[r].st = "start"
            /\ k[r] = [l[r] EXCEPT !.st = "end", !.init = s.off,
                                   !.reply = Full(s.id, s.off)]
        BY <3>2 DEF Waiting, Slaves
      <4>2. Full(s.id, s.off).t # "continue"
        BY DEF Full
      <4> QED BY <3>1, <4>1, <4>2, ZenonT(30) DEF Linked, Connection
    <3>3. CASE r \notin gone
      BY <3>1, <3>3
    <3> QED BY <3>2, <3>3
  <2>7. k = [r \in Nodes |-> k[r]]
    OBVIOUS
  <2> HIDE DEF k, u
  <2>8. \A m \in Nodes : Slaves(k, m) # {} => u[m].backlog.on
    BY <2>5, <2>6 DEF Slaves, Good
  <2>9. Good(u, k)
    BY <2>5, <2>6, <2>7, <2>8, NewLinks
  <2> QED BY <2>1, <2>9
<1> QED BY <1>1, <1>2

-----------------------------------------------------------------------------
(* Steps. *)

\* The servers of a deployment.
LEMMA NodesOf ==
  ASSUME Deployable, conf \in Configs
  PROVE  conf.nodes \subseteq Nodes /\ None \notin Nodes
BY DEF Deployable

LEMMA WriteKeeps ==
  ASSUME Good(node, link), NEW n \in Nodes, NEW d, NEW w, Write(n, d, w)
  PROVE  Good(node', link')
<1> DEFINE s   == [node[n] EXCEPT !.data = Append(@, <<d, w>>)]
           es  == Stream(s, d, Command(w))
           fed == IF s.backlog.on THEN [FeedBacklog(s, es) EXCEPT !.seldb = d] ELSE s
<1>1. /\ node[n].host = None /\ node' = [node EXCEPT ![n] = fed]
      /\ link' = IF s.backlog.on THEN FeedSlaves(link, n, es) ELSE link
  BY DEF Write
<1>2. Sound(node[n], n) /\ Linked(link[n], node[n])
      /\ (Slaves(link, n) # {} => node[n].backlog.on)
  BY DEF Good
<1>3. Fed(node[n], s)
  BY <1>2 DEF Fed, Sound, Server
<1> HIDE DEF s, es
<1>4. Fed(node[n], fed)
  <2>1. CASE s.backlog.on
    <3> DEFINE t == FeedBacklog(s, es)
    <3>1. Fed(s, t)
      BY <1>3, FeedBacklogKeeps DEF Fed
    <3> HIDE DEF t
    <3>2. Fed(t, [t EXCEPT !.seldb = d])
      BY <3>1 DEF Fed, Server
    <3>3. Fed(node[n], [t EXCEPT !.seldb = d])
      BY <1>3, <3>1, <3>2, FedTransitive
    <3> QED BY <2>1, <3>3 DEF t
  <2>2. CASE ~s.backlog.on
    BY <2>2, <1>3
  <2> QED BY <2>1, <2>2
<1> HIDE DEF fed
<1>5. Sound(fed, n) /\ Linked(link[n], fed)
  BY <1>1, <1>2, <1>4, MasterFed, FedLinked
<1>6. Slaves(link, n) # {} => fed.backlog.on
  BY <1>2, <1>4 DEF Fed
<1>7. Good(node', link)
  BY <1>1, <1>5, <1>6, OneServer, ZenonT(30)
<1>8. Good(node', FeedSlaves(link, n, es))
  BY <1>7, FeedSlavesKeeps
<1> QED BY <1>1, <1>7, <1>8

LEMMA PingKeeps ==
  ASSUME Good(node, link), NEW n \in Nodes, PingSlaves(n)
  PROVE  Good(node', link')
<1> DEFINE t == FeedBacklog(node[n], <<Ping>>)
<1>1. /\ node[n].host = None /\ node' = [node EXCEPT ![n] = t]
      /\ link' = FeedSlaves(link, n, <<Ping>>)
  BY DEF PingSlaves
<1>2. Sound(node[n], n) /\ Linked(link[n], node[n])
      /\ (Slaves(link, n) # {} => node[n].backlog.on)
  BY DEF Good
<1>3. Fed(node[n], t)
  BY <1>2, FeedBacklogKeeps DEF Sound
<1> HIDE DEF t
<1>4. Sound(t, n) /\ Linked(link[n], t)
  BY <1>1, <1>2, <1>3, MasterFed, FedLinked
<1>5. Slaves(link, n) # {} => t.backlog.on
  BY <1>2, <1>3 DEF Fed
<1>6. Good(node', link)
  BY <1>1, <1>4, <1>5, OneServer, Zenon
<1> QED BY <1>1, <1>6, FeedSlavesKeeps

LEMMA BgsaveKeeps ==
  ASSUME Good(node, link), NEW n \in Nodes, Bgsave(n)
  PROVE  Good(node', link')
<1> DEFINE t == [node[n] EXCEPT !.child = Snapshot(node[n])]
<1>1. node' = [node EXCEPT ![n] = t] /\ link' = link
  BY DEF Bgsave
<1>2. Sound(node[n], n) /\ Linked(link[n], node[n])
      /\ (Slaves(link, n) # {} => node[n].backlog.on)
  BY DEF Good
<1>3. Same(node[n], t)
  BY <1>2 DEF Same, Fed, Sound, Server
<1> HIDE DEF t
<1>4. Sound(t, n) /\ Linked(link[n], t) /\ t.backlog.on = node[n].backlog.on
  BY <1>2, <1>3, SameSound, SameLinked
<1> QED BY <1>1, <1>2, <1>4, OneServer, Zenon

LEMMA DropKeeps ==
  ASSUME Good(node, link), NEW r \in Nodes, Drop(r)
  PROVE  Good(node', link')
<1>1. \A x \in {r} : x \in Nodes => node[x].host # None
  BY FollowersHaveHosts DEF Drop
<1> QED BY <1>1, BreakCut DEF Drop

\* A replica asks to continue when it has a cached master.
LEMMA ConnectKeeps ==
  ASSUME Good(node, link), NEW r \in Nodes, Connect(r)
  PROVE  Good(node', link')
<1> DEFINE s == node[r]
           t == [s EXCEPT !.st = "handshake"]
           c == [to |-> s.host, st |-> "psync", q |-> <<>>, reply |-> None,
                 rdb |-> None, init |-> 0, ack |-> 0,
                 ask |-> IF s.cached = None THEN None
                         ELSE [id |-> s.cached.id, off |-> s.cached.off + 1]]
           k == [link EXCEPT ![r] = c]
<1>1. s.st = "connect" /\ link' = k /\ node' = [node EXCEPT ![r] = t]
  BY DEF Connect
<1>2. Sound(s, r) /\ Linked(link[r], s) /\ (Slaves(link, r) # {} => s.backlog.on)
      /\ link = [x \in Nodes |-> link[x]]
  BY DEF Good
<1>3. link[r] = None
  BY <1>1, <1>2 DEF Linked
<1>4. Sound(t, r) /\ t.backlog = s.backlog
  BY <1>1, <1>2 DEF Sound, Server, Place
<1>5. Linked(c, t)
  BY <1>1, <1>2 DEF Sound, Server, Linked, Connection
<1>6. c.st = "psync"
  OBVIOUS
<1> HIDE DEF s, t, c
<1>7. Good(node', link)
  BY <1>1, <1>2, <1>3, <1>4, OneServer, Zenon DEF Linked
<1>8. node'[r] = t
  BY <1>1 DEF Good
<1> QED BY <1>1, <1>5, <1>6, <1>7, <1>8, OneLink, Zenon

LEMMA AckKeeps ==
  ASSUME Good(node, link), NEW r \in Nodes, Ack(r)
  PROVE  Good(node', link')
<1> DEFINE c == [link[r] EXCEPT !.ack = node[r].master.off]
<1>1. link[r] # None /\ node' = node /\ link' = [link EXCEPT ![r] = c]
  BY DEF Ack
<1>2. Linked(link[r], node[r])
  BY DEF Good
<1>3. Linked(c, node[r]) /\ c.to = link[r].to /\ c.st = link[r].st
  BY <1>1, <1>2 DEF Linked, Connection
<1> HIDE DEF c
<1>4. link[r].st # "psync" => node[link[r].to].backlog.on
  BY <1>1, SlaveBacklog
<1> QED BY <1>1, <1>3, <1>4, OneLink, ZenonT(30)

\* The master client and the server move together: a connected replica has a
\* backlog, and what it applies it feeds to it.
LEMMA ApplyKeeps ==
  ASSUME Good(node, link), NEW r \in Nodes, Apply(r)
  PROVE  Good(node', link')
<1> DEFINE e == Head(link[r].q)
           s == node[r]
           x == Applied([data |-> s.data, db |-> s.master.db], e)
           m == [s.master EXCEPT !.db = x.db, !.off = @ + 1]
           t == [s EXCEPT !.data = x.data, !.master.db = x.db,
                          !.master.off = @ + 1]
           u == FeedBacklog(t, <<e>>)
           k == FeedSlaves(link, r, <<e>>)
           c == [k[r] EXCEPT !.q = Tail(@)]
<1>1. /\ link[r] # None /\ s.st = "connected"
      /\ node' = [node EXCEPT ![r] = u] /\ link' = [k EXCEPT ![r] = c]
  <2>1. link[r] # None /\ s.st = "connected" /\ node' = [node EXCEPT ![r] = u]
    BY Zenon DEF Apply
  <2>2. link' = [k EXCEPT ![r].q = Tail(@)]
    BY Zenon DEF Apply
  <2> HIDE DEF k, e, u
  <2> QED BY <2>1, <2>2
<1>2. Sound(s, r) /\ Linked(link[r], s) /\ (Slaves(link, r) # {} => s.backlog.on)
  BY DEF Good
<1>3. m.off = s.off + 1 /\ m.id = s.id /\ m \in [id : {m.id}, off : {m.off}, db : {m.db}]
  BY <1>1, <1>2, Zenon DEF Sound, Place
<1>4. /\ Server(t) /\ t.backlog = s.backlog /\ t.st = s.st /\ t.host = s.host
      /\ t.id = s.id /\ t.off = s.off /\ t.master = m /\ t.cached = s.cached
  <2> HIDE DEF x, s
  <2>1. t = [s EXCEPT !.data = x.data, !.master = m]
    BY ZenonT(30)
  <2> HIDE DEF t, m
  <2> QED BY <1>2, <2>1, Zenon DEF Sound, Server
<1> HIDE DEF m, t
<1>5. Fed(t, u) /\ u.off = s.off + 1
  <2>1. Len(<<e>>) = 1 /\ t.backlog.on /\ Buffer(t.backlog)
    BY <1>1, <1>2, <1>4 DEF Sound
  <2> QED BY <2>1, <1>4, FeedBacklogKeeps
<1> HIDE DEF u, x
<1>6. Sound(u, r)
  BY <1>1, <1>2, <1>3, <1>4, <1>5 DEF Sound, Fed, Place
<1>7. Linked(link[r], u) /\ u.backlog.on = s.backlog.on
  BY <1>2, <1>4, <1>5 DEF Linked, Fed
<1>8. Good(node', link)
  BY <1>1, <1>2, <1>6, <1>7, OneServer, ZenonT(30)
<1>9. Good(node', k)
  BY <1>8, FeedSlavesKeeps
<1> HIDE DEF k
<1>10. k[r] = link[r]
  BY <1>1, FollowersHaveHosts DEF k, FeedSlaves, Slaves
<1>11. Linked(c, node'[r]) /\ c.to = k[r].to /\ c.st = k[r].st
  BY <1>1, <1>9, <1>10 DEF Good, Linked, Connection
<1>12. k[r].st # "psync" => node'[k[r].to].backlog.on
  BY <1>1, <1>9, <1>10, SlaveBacklog, ZenonT(30)
<1> HIDE DEF c
<1> QED BY <1>1, <1>9, <1>11, <1>12, OneLink, ZenonT(30)

\* A child that is killed is nothing the invariant is about.
LEMMA KillSame ==
  ASSUME NEW r, NEW s, Sound(s, r)
  PROVE  Same(s, Kill(s))
<1>1. CASE s.child = None
  BY <1>1 DEF Kill, Same, Fed, Sound
<1>2. CASE s.child # None
  BY <1>2, Zenon DEF Kill, Same, Fed, Sound, Server
<1> QED BY <1>1, <1>2

\* The dataset arrives with the id and the offset of the +FULLRESYNC reply.
LEMMA LoadKeeps ==
  ASSUME Good(node, link), NEW r \in Nodes, Load(r)
  PROVE  Good(node', link')
<1> DEFINE s   == node[r]
           rdb == link[r].rdb
           set == [Kill(s) EXCEPT !.dump = rdb, !.data = rdb.data,
                     !.st = "connected", !.initial = None,
                     !.master = [id |-> s.initial.id, off |-> s.initial.off,
                                 db |-> rdb.info.db],
                     !.id = s.initial.id, !.off = s.initial.off,
                     !.id2 = None, !.off2 = 0]
           t   == IF set.backlog.on THEN set ELSE CreateBacklog(set)
           c   == [link[r] EXCEPT !.st = "online", !.rdb = None]
<1>1. /\ link[r] # None /\ link[r].st = "bulk" /\ s.st = "transfer"
      /\ node' = [node EXCEPT ![r] = t] /\ link' = [link EXCEPT ![r] = c]
  <2>1. /\ link[r] # None /\ link[r].st = "bulk" /\ s.st = "transfer"
        /\ node' = [node EXCEPT ![r] = t]
    BY Zenon DEF Load
  <2>2. link' = [link EXCEPT ![r].st = "online", ![r].rdb = None]
    BY Zenon DEF Load
  <2>3. link = [x \in Nodes |-> link[x]]
    BY DEF Good
  <2> HIDE DEF t
  <2> QED BY <2>1, <2>2, <2>3, Zenon
<1>2. Sound(s, r) /\ Linked(link[r], s)
  BY DEF Good
<1>3. s.cached = None /\ s.host # None
  BY <1>1, <1>2 DEF Sound
<1>4. /\ Server(set) /\ Buffer(set.backlog) /\ set.host = s.host
      /\ set.st = "connected" /\ Place(set.master, set) /\ set.cached = None
  <2>1. Same(s, Kill(s))
    BY <1>2, KillSame
  <2> HIDE DEF s, rdb
  <2> QED BY <2>1, <1>3, ZenonT(30) DEF Same, Fed, Server, Place
<1> HIDE DEF set
<1>5. /\ Server(t) /\ Buffer(t.backlog) /\ t.host = s.host /\ t.backlog.on
      /\ t.st = "connected" /\ Place(t.master, t) /\ t.cached = None
  <2>1. CASE set.backlog.on
    BY <2>1, <1>4
  <2>2. CASE ~set.backlog.on
    BY <2>2, <1>4, CreateBacklogKeeps DEF Place
  <2> QED BY <2>1, <2>2
<1> HIDE DEF t
<1>6. Sound(t, r)
  BY <1>2, <1>3, <1>5 DEF Sound
<1>7. Linked(link[r], t)
  BY <1>2, <1>5 DEF Linked
<1>8. Good(node', link)
  BY <1>1, <1>5, <1>6, <1>7, OneServer, Zenon
<1>9. Linked(c, node'[r]) /\ c.to = link[r].to
  BY <1>1, <1>8, ZenonT(30) DEF Good, Linked, Connection
<1>10. node'[link[r].to].backlog.on
  BY <1>1, <1>8, SlaveBacklog, Zenon
<1> HIDE DEF c
<1> QED BY <1>1, <1>8, <1>9, <1>10, OneLink, Zenon

LEMMA LoadFailsKeeps ==
  ASSUME Good(node, link), NEW r \in Nodes, LoadFails(r)
  PROVE  Good(node', link')
<1> DEFINE s == node[r]
           u == Kill(s)
           t == Disconnected(u)
           e == [t EXCEPT !.data = <<>>, !.dump = [link[r].rdb EXCEPT !.broken = TRUE]]
<1>1. /\ link[r] # None /\ node' = [node EXCEPT ![r] = e]
      /\ link' = Cut(link, {r})
  BY Zenon DEF LoadFails
<1>2. Sound(s, r) /\ s.host # None
  <2>1. Sound(s, r)
    BY DEF Good
  <2>2. s.host # None
    BY <1>1, FollowersHaveHosts
  <2> QED BY <2>1, <2>2
<1>3. Sound(u, r) /\ u.host # None /\ u.backlog.on = s.backlog.on
  BY <1>2, KillSame, SameSound DEF Same, Fed
<1> HIDE DEF u
<1>4. Sound(t, r) /\ t.backlog = u.backlog
  BY <1>3, DisconnectedSound
<1> HIDE DEF t
<1>5. Same(t, e)
  BY <1>4, Zenon DEF Same, Fed, Sound, Server
<1> HIDE DEF e
<1>6. Sound(e, r) /\ e.backlog.on = s.backlog.on
  BY <1>3, <1>4, <1>5, SameSound
<1> DEFINE k == [link EXCEPT ![r] = None]
<1>7. Good(node, k) /\ k[r] = None
  BY OneLink, Zenon DEF Linked, Good
<1>8. Slaves(k, r) # {} => e.backlog.on
  BY <1>6, <1>7, Zenon DEF Good
<1>9. link' = k
  BY <1>1 DEF Cut, Good
<1> HIDE DEF k
<1> QED BY <1>1, <1>6, <1>7, <1>8, <1>9, OneServer, ZenonT(30) DEF Linked

\* The end of a save, and the save that starts for those it came too early for.
LEMMA EndBgsaveKeeps ==
  ASSUME Good(node, link), NEW n \in Nodes, NEW ok \in BOOLEAN, EndBgsave(n, ok)
  PROVE  Good(node', link')
<1> DEFINE rdb  == [node[n].child EXCEPT !.broken = FALSE]
           ends == {r \in Slaves(link, n) : link[r].st = "end"}
           gone == IF ok THEN {} ELSE ends
           nd   == [Break(node, gone) EXCEPT
                      ![n].child = None, ![n].dump = IF ok THEN rdb ELSE @]
           l    == [r \in Nodes |->
                      IF r \in ends
                        THEN IF ok THEN [link[r] EXCEPT !.st = "bulk", !.rdb = rdb]
                             ELSE None
                        ELSE link[r]]
<1>1. \/ node' = nd /\ link' = l
      \/ node' = StartBgsave(nd, l, n).node /\ link' = StartBgsave(nd, l, n).link
  BY Zenon DEF EndBgsave
<1> DEFINE u == Break(node, gone)
           k == Cut(link, gone)
<1>2. Good(u, k)
  <2>1. \A r \in gone : r \in Nodes => node[r].host # None
    BY FollowersHaveHosts DEF Slaves
  <2> HIDE DEF gone
  <2> QED BY <2>1, BreakCut
<1>3. Good(nd, k)
  <2> HIDE DEF u, k, gone, ends, rdb
  <2> DEFINE t == [u[n] EXCEPT !.child = None, !.dump = IF ok THEN rdb ELSE @]
  <2>1. nd = [u EXCEPT ![n] = t]
    BY <1>2, Zenon DEF Good, u
  <2>2. Sound(u[n], n) /\ Linked(k[n], u[n]) /\ (Slaves(k, n) # {} => u[n].backlog.on)
    BY <1>2, Zenon DEF Good
  <2>3. Same(u[n], t)
    BY <2>2, ZenonT(30) DEF Same, Fed, Sound, Server
  <2> HIDE DEF t, nd
  <2>4. Sound(t, n) /\ Linked(k[n], t) /\ t.backlog.on = u[n].backlog.on
    BY <2>2, <2>3, SameSound, SameLinked
  <2> QED BY <1>2, <2>1, <2>2, <2>4, OneServer, Zenon
<1>4. Good(nd, l)
  <2> HIDE DEF nd, rdb
  <2>1. CASE ~ok
    <3>1. l = k
      BY <2>1 DEF Cut
    <3> QED BY <1>3, <3>1, ZenonT(30)
  <2>2. CASE ok
    <3>1. k = link
      BY <2>2 DEF Cut, Good
    <3>2. ASSUME NEW r \in Nodes
          PROVE  /\ Linked(l[r], nd[r])
                 /\ l[r] # None => /\ link[r] # None /\ l[r].to = link[r].to
                                   /\ link[r].st = "psync" => l[r].st = "psync"
      <4>1. Linked(link[r], nd[r])
        BY <1>3, <3>1, Zenon DEF Good
      <4>2. CASE r \in ends
        <5>1. /\ link[r] # None /\ link[r].st = "end"
              /\ l[r] = [link[r] EXCEPT !.st = "bulk", !.rdb = rdb]
          BY <2>2, <4>2 DEF Slaves
        <5> QED BY <4>1, <5>1, Zenon DEF Linked, Connection
      <4>3. CASE r \notin ends
        BY <4>1, <4>3
      <4> QED BY <4>2, <4>3
    <3>3. l = [r \in Nodes |-> l[r]]
      OBVIOUS
    <3>4. Good(nd, link)
      BY <1>3, <3>1
    <3> HIDE DEF l, k, u, ends, gone
    <3>5. \A m \in Nodes : Slaves(l, m) # {} => nd[m].backlog.on
      BY <3>2, <3>4 DEF Slaves, Good
    <3> QED BY <3>2, <3>3, <3>4, <3>5, NewLinks
  <2> QED BY <2>1, <2>2, ZenonT(30)
<1> HIDE DEF nd, l
<1>5. Good(StartBgsave(nd, l, n).node, StartBgsave(nd, l, n).link)
  BY <1>4, StartBgsaveKeeps
<1> QED BY <1>1, <1>4, <1>5

-----------------------------------------------------------------------------
(* Changes of role. *)

\* The slaves of n and its own connection: replicas all.
LEMMA AbandonedHaveHosts ==
  ASSUME Good(node, link), NEW n \in Nodes
  PROVE  /\ \A r \in Abandoned(n) : r \in Nodes => node[r].host # None
         /\ n \in Abandoned(n) \/ node[n].st \in {"none", "connect"}
         /\ Slaves(Cut(link, Abandoned(n)), n) = {}
<1>1. ASSUME NEW r \in Abandoned(n), r \in Nodes
      PROVE  node[r].host # None
  <2>1. CASE r \in Followers(link, n)
    BY <2>1, FollowersHaveHosts DEF Followers
  <2>2. CASE r = n /\ node[n].st \notin {"none", "connect"}
    BY <2>2 DEF Good, Sound
  <2> QED BY <1>1, <2>1, <2>2 DEF Abandoned
<1>2. n \in Abandoned(n) \/ node[n].st \in {"none", "connect"}
  BY DEF Abandoned
<1>3. Slaves(Cut(link, Abandoned(n)), n) = {}
  BY DEF Slaves, Cut, Abandoned, Followers
<1> QED BY <1>1, <1>2, <1>3

\* After that n is on its own: it has neither slaves nor a master client.
LEMMA Alone ==
  ASSUME Good(node, link), NEW n \in Nodes
  PROVE  LET s == Break(node, Abandoned(n))[n]
         IN  /\ Good(Break(node, Abandoned(n)), Cut(link, Abandoned(n)))
             /\ Sound(s, n) /\ s.st \in {"none", "connect"}
             /\ s.id = node[n].id /\ s.off = node[n].off /\ s.host = node[n].host
             /\ Cut(link, Abandoned(n))[n] = None
             /\ Slaves(Cut(link, Abandoned(n)), n) = {}
<1> DEFINE gone == Abandoned(n)
           u == Break(node, gone)
           k == Cut(link, gone)
<1>1. /\ \A r \in gone : r \in Nodes => node[r].host # None
      /\ n \in gone \/ node[n].st \in {"none", "connect"}
      /\ Slaves(k, n) = {}
  BY AbandonedHaveHosts
<1>2. Sound(node[n], n) /\ Linked(link[n], node[n])
  BY DEF Good
<1> HIDE DEF gone
<1>3. Good(u, k)
  BY <1>1, BreakCut
<1>4. CASE n \in gone
  <2>1. u[n] = Disconnected(node[n]) /\ k[n] = None
    BY <1>4 DEF Break, Cut
  <2>2. /\ u[n].st = "connect" /\ u[n].host = node[n].host
        /\ u[n].id = node[n].id /\ u[n].off = node[n].off
    BY <1>1, <1>2, <1>4, <2>1, DisconnectedSound
  <2> HIDE DEF u, k
  <2>3. Sound(u[n], n)
    BY <1>3 DEF Good
  <2> QED BY <1>1, <1>3, <2>1, <2>2, <2>3 DEF u, k, gone
<1>5. CASE n \notin gone
  <2>1. u[n] = node[n] /\ k[n] = link[n]
    BY <1>5 DEF Break, Cut
  <2>2. k[n] = None
    BY <1>1, <1>2, <1>5, <2>1 DEF Linked
  <2> HIDE DEF u, k
  <2> QED BY <1>1, <1>2, <1>3, <1>5, <2>1, <2>2 DEF u, k, gone
<1> QED BY <1>4, <1>5

\* A master that becomes a replica asks for its own place in the stream; a
\* replica that changes masters keeps the place it had.
LEMMA SetMasterKeeps ==
  ASSUME Good(node, link), None \notin Nodes, NEW n \in Nodes, NEW m \in Nodes,
         SetMaster(n, m)
  PROVE  Good(node', link')
<1> DEFINE gone == Abandoned(n)
           nd   == Break(node, gone)
           own  == [id |-> node[n].id, off |-> node[n].off, db |-> 0]
           t    == [nd[n] EXCEPT !.host = m, !.st = "connect",
                          !.cached = IF node[n].host = None THEN own
                                     ELSE nd[n].cached]
           k    == Cut(link, gone)
<1>1. m # n /\ node' = [nd EXCEPT ![n] = t] /\ link' = k
  BY Zenon DEF SetMaster
<1>2. /\ Good(nd, k) /\ Sound(nd[n], n) /\ nd[n].st \in {"none", "connect"}
      /\ nd[n].id = node[n].id /\ nd[n].off = node[n].off
      /\ nd[n].host = node[n].host
      /\ k[n] = None /\ Slaves(k, n) = {}
  BY Alone
<1> HIDE DEF gone, nd, k
<1>3. Sound(t, n)
  BY <1>1, <1>2, Zenon DEF Sound, Server, Place
<1> HIDE DEF t
<1> QED BY <1>1, <1>2, <1>3, OneServer, ZenonT(30) DEF Linked

LEMMA UnsetMasterKeeps ==
  ASSUME Good(node, link), NEW n \in Nodes, None \notin Nodes, UnsetMaster(n)
  PROVE  Good(node', link')
<1> DEFINE gone == Abandoned(n)
           nd   == Break(node, gone)
           t    == [nd[n] EXCEPT !.host = None, !.st = "none", !.cached = None,
                           !.id2 = node[n].id, !.off2 = node[n].off + 1,
                           !.id = ids + 1, !.seldb = None]
           k    == Cut(link, gone)
<1>1. node' = [nd EXCEPT ![n] = t] /\ link' = k
  BY Zenon DEF UnsetMaster
<1>2. /\ Good(nd, k) /\ Sound(nd[n], n) /\ nd[n].st \in {"none", "connect"}
      /\ k[n] = None /\ Slaves(k, n) = {}
  BY Alone
<1> HIDE DEF gone, nd, k
<1>3. Sound(t, n)
  BY <1>2, Zenon DEF Sound, Server
<1> HIDE DEF t
<1> QED BY <1>1, <1>2, <1>3, OneServer, Zenon DEF Linked

LEMMA FreeBacklogKeeps ==
  ASSUME Good(node, link), NEW n \in Nodes, FreeBacklog(n)
  PROVE  Good(node', link')
<1> DEFINE s == node[n]
           t == [s EXCEPT !.id = ids + 1, !.id2 = None, !.off2 = 0,
                          !.backlog = NoBacklog]
<1>1. /\ s.host = None /\ Slaves(link, n) = {}
      /\ node' = [node EXCEPT ![n] = t] /\ link' = link
  BY Zenon DEF FreeBacklog
<1>2. Sound(s, n) /\ Linked(link[n], s)
  BY DEF Good
<1> HIDE DEF s
<1>3. Sound(t, n)
  BY <1>1, <1>2, ZenonT(30) DEF Sound, Server, NoBacklog, Buffer
<1>4. t.host = s.host /\ t.st = s.st /\ t.cached = s.cached
  BY <1>2 DEF Sound, Server
<1> HIDE DEF t
<1>5. Linked(link[n], t)
  BY <1>2, <1>4 DEF Linked
<1> QED BY <1>1, <1>3, <1>5, OneServer, ZenonT(30)

\* A server that starts: with a configured master and a usable RDB file it
\* resumes at the id and the offset of the file.
LEMMA LoadedSound ==
  ASSUME NEW n \in Nodes, None \notin Nodes, NEW host \in (Nodes \cup {None}) \ {n},
         NEW id, NEW dump
  PROVE  Sound(Loaded(Boot(host, id), dump), n)
<1> DEFINE s == Boot(host, id)
           t == [s EXCEPT !.dump = dump, !.data = dump.data]
           u == [t EXCEPT !.id = dump.info.id, !.off = dump.info.off,
                          !.cached = [id |-> dump.info.id, off |-> dump.info.off,
                                      db |-> dump.info.db]]
<1>1. Sound(s, n) /\ s.host = host /\ (host # None => s.st = "connect")
  BY Zenon DEF Boot, Sound, Server, NoBacklog, Buffer
<1> HIDE DEF s
<1>2. Sound(t, n) /\ t.host = host /\ (host # None => t.st = "connect")
  BY <1>1, Zenon DEF Sound, Server, Place
<1> HIDE DEF t
<1>3. host # None => Sound(u, n)
  BY <1>2, Zenon DEF Sound, Server, Place
<1> HIDE DEF u
<1>4. Loaded(s, dump) \in {s, t} \/ (host # None /\ Loaded(s, dump) = u)
  BY <1>1 DEF Loaded, t, u
<1> QED BY <1>1, <1>2, <1>3, <1>4 DEF s

LEMMA RestartKeeps ==
  ASSUME Good(node, link), NEW n \in Nodes, None \notin Nodes, Restart(n)
  PROVE  Good(node', link')
<1> DEFINE gone == Followers(link, n)
           t == Loaded(Boot(node[n].host, ids + 1), node[n].dump)
           u == Break(node, gone)
           k == Cut(link, gone)
           j == [k EXCEPT ![n] = None]
<1>1. node' = [u EXCEPT ![n] = t] /\ link' = Cut(link, gone \cup {n})
  BY Zenon DEF Restart
<1>2. Sound(t, n)
  <2>1. node[n].host \in (Nodes \cup {None}) \ {n}
    BY DEF Good, Sound
  <2> QED BY <2>1, LoadedSound
<1>3. Good(u, k)
  <2>1. \A r \in gone : r \in Nodes => node[r].host # None
    BY FollowersHaveHosts DEF Followers
  <2> HIDE DEF gone
  <2> QED BY <2>1, BreakCut
<1>4. Good(u, j)
  <2> HIDE DEF k, u
  <2> QED BY <1>3, OneLink DEF Linked
<1>5. link' = j /\ j[n] = None /\ Slaves(j, n) = {}
  BY <1>1, ZenonT(30) DEF Cut, Slaves, Followers
<1> HIDE DEF t, u, j
<1> QED BY <1>1, <1>2, <1>4, <1>5, OneServer, ZenonT(30) DEF Linked

\* r has read the reply and is t: it no longer keeps a cached master.
LEMMA ReplyRead ==
  ASSUME NEW nd, NEW l, NEW r \in Nodes, NEW t, Good(nd, l), l[r] # None,
         Sound(t, r), t.host = nd[r].host, t.st \in {"transfer", "connected"},
         Slaves(l, r) # {} => t.backlog.on
  PROVE  Good([nd EXCEPT ![r] = t], [l EXCEPT ![r] = [l[r] EXCEPT !.reply = None]])
<1> DEFINE u == [nd EXCEPT ![r] = t]
           c == [l[r] EXCEPT !.reply = None]
<1>1. Linked(l[r], nd[r]) /\ u[r] = t
  BY DEF Good
<1>2. Linked(l[r], t)
  BY <1>1 DEF Linked
<1>3. Good(u, l)
  BY <1>2, OneServer
<1>4. Linked(c, t) /\ c.to = l[r].to /\ c.st = l[r].st
  BY <1>2 DEF Linked, Connection
<1> HIDE DEF u
<1>5. c.st # "psync" => u[c.to].backlog.on
  BY <1>3, <1>4, SlaveBacklog
<1> HIDE DEF c
<1>6. Good(u, [l EXCEPT ![r] = c])
  BY <1>1, <1>3, <1>4, <1>5, OneLink
<1> QED BY <1>6 DEF u, c

\* A replica told to continue, under the same id or a new one.
Resumed(s, id) ==
  LET shifted == IF id = s.cached.id THEN s
                 ELSE [s EXCEPT !.id2 = s.cached.id, !.off2 = s.off + 1,
                                !.id = id, !.cached.id = id]
      resumed == [shifted EXCEPT !.st = "connected",
                                 !.master = shifted.cached, !.cached = None]
  IN  IF resumed.backlog.on THEN resumed ELSE CreateBacklog(resumed)

\* It goes on at its cached master's place, and has a backlog.
LEMMA Resumes ==
  ASSUME NEW r, NEW s, NEW id, Sound(s, r), s.st = "handshake", s.cached # None
  PROVE  /\ Sound(Resumed(s, id), r) /\ Resumed(s, id).backlog.on
         /\ Resumed(s, id).host = s.host /\ Resumed(s, id).st = "connected"
<1> DEFINE shifted == IF id = s.cached.id THEN s
                      ELSE [s EXCEPT !.id2 = s.cached.id, !.off2 = s.off + 1,
                                     !.id = id, !.cached.id = id]
           resumed == [shifted EXCEPT !.st = "connected",
                                      !.master = shifted.cached, !.cached = None]
           follows == IF resumed.backlog.on THEN resumed ELSE CreateBacklog(resumed)
<1>0. Resumed(s, id) = follows
  BY Zenon DEF Resumed
<1>1. /\ Server(shifted) /\ Buffer(shifted.backlog) /\ shifted.host = s.host
      /\ Place(shifted.cached, shifted)
  <2>1. CASE id = s.cached.id
    BY <2>1 DEF Sound
  <2>2. CASE id # s.cached.id
    BY <2>2, Zenon DEF Sound, Server, Place
  <2> QED BY <2>1, <2>2
<1> HIDE DEF shifted
<1>2. /\ Server(resumed) /\ Buffer(resumed.backlog) /\ resumed.host = s.host
      /\ resumed.st = "connected" /\ resumed.cached = None
      /\ Place(resumed.master, resumed)
  BY <1>1, ZenonT(30) DEF Server, Place
<1> HIDE DEF resumed
<1>3. /\ Server(follows) /\ Buffer(follows.backlog) /\ follows.host = s.host
      /\ follows.st = "connected" /\ follows.cached = None
      /\ Place(follows.master, follows) /\ follows.backlog.on
  <2>1. CASE resumed.backlog.on
    BY <2>1, <1>2
  <2>2. CASE ~resumed.backlog.on
    BY <2>2, <1>2, CreateBacklogKeeps DEF Place
  <2> QED BY <2>1, <2>2
<1> HIDE DEF follows
<1>4. Sound(follows, r)
  BY <1>3 DEF Sound
<1> QED BY <1>0, <1>3, <1>4

\* r reads the reply; unless it continues under the id it knows, its own
\* slaves go first.
LEMMA ReadReplyKeeps ==
  ASSUME Good(node, link), NEW r \in Nodes, ReadReply(r)
  PROVE  Good(node', link')
<1> DEFINE s     == node[r]
           reply == link[r].reply
           gone  == Followers(link, r)
           shifted == IF reply.id = s.cached.id THEN s
                      ELSE [s EXCEPT !.id2 = s.cached.id, !.off2 = s.off + 1,
                                     !.id = reply.id, !.cached.id = reply.id]
           resumed == [shifted EXCEPT !.st = "connected",
                                      !.master = shifted.cached, !.cached = None]
           follows == IF resumed.backlog.on THEN resumed ELSE CreateBacklog(resumed)
           receives == [s EXCEPT !.st = "transfer", !.cached = None,
                          !.backlog = NoBacklog,
                          !.initial = [id |-> reply.id, off |-> reply.off]]
           read == [link EXCEPT ![r].reply = None]
<1>1. link[r] # None /\ s.st = "handshake" /\ reply # None
  BY DEF ReadReply
<1>0. follows = Resumed(s, reply.id)
  BY Zenon DEF Resumed
<1>2. \/ /\ reply.t = "continue"
         /\ node' = [node EXCEPT ![r] = follows] /\ link' = read
      \/ /\ reply.t = "continue"
         /\ node' = [Break(node, gone) EXCEPT ![r] = follows] /\ link' = Cut(read, gone)
      \/ node' = [Break(node, gone) EXCEPT ![r] = receives] /\ link' = Cut(read, gone)
  BY Zenon DEF ReadReply
<1>3. Sound(s, r) /\ Linked(link[r], s) /\ (Slaves(link, r) # {} => s.backlog.on)
      /\ link = [x \in Nodes |-> link[x]]
  BY DEF Good
<1>4. reply.t = "continue" =>
        /\ Sound(follows, r) /\ follows.backlog.on
        /\ follows.host = s.host /\ follows.st = "connected"
  <2> SUFFICES ASSUME reply.t = "continue"
               PROVE  /\ Sound(follows, r) /\ follows.backlog.on
                      /\ follows.host = s.host /\ follows.st = "connected"
    BY ZenonT(30)
  <2>1. s.cached # None
    BY <1>1, <1>3 DEF Linked
  <2> HIDE DEF s, reply, follows
  <2> QED BY <1>0, <1>1, <1>3, <2>1, Resumes
<1>5. Sound(receives, r) /\ receives.host = s.host /\ receives.st = "transfer"
  <2> HIDE DEF s, reply
  <2> QED BY <1>1, <1>3, ZenonT(30) DEF Sound, Server, NoBacklog, Buffer
<1> DEFINE c == [link[r] EXCEPT !.reply = None]
           u == Break(node, gone)
           k == Cut(link, gone)
<1> HIDE DEF follows, receives, resumed, shifted
<1>6. r \notin gone
  BY <1>1, FollowersHaveHosts DEF Followers
<1>7. Good(u, k)
  <2>1. \A x \in gone : x \in Nodes => node[x].host # None
    BY FollowersHaveHosts DEF Followers
  <2> HIDE DEF gone
  <2> QED BY <2>1, BreakCut
<1>8. u[r] = s /\ k[r] = link[r] /\ Slaves(k, r) = {}
  BY <1>6 DEF Break, Cut, Slaves, Followers
<1>9. /\ read = [link EXCEPT ![r] = c] /\ Cut(read, gone) = [k EXCEPT ![r] = c]
      /\ c = [k[r] EXCEPT !.reply = None]
  BY <1>3, <1>6, <1>8, Zenon DEF Cut
<1> HIDE DEF u, k, read, gone, s
<1>10. CASE reply.t = "continue" /\ node' = [node EXCEPT ![r] = follows] /\ link' = read
  BY <1>1, <1>4, <1>9, <1>10, ReplyRead, ZenonT(30) DEF s
<1>11. CASE /\ reply.t = "continue" /\ node' = [u EXCEPT ![r] = follows]
            /\ link' = Cut(read, gone)
  <2>1. Good([u EXCEPT ![r] = follows], [k EXCEPT ![r] = [k[r] EXCEPT !.reply = None]])
    BY <1>1, <1>4, <1>7, <1>8, <1>11, ReplyRead, ZenonT(30)
  <2> HIDE DEF c
  <2> QED BY <1>9, <2>1, <1>11, Zenon
<1>12. CASE node' = [u EXCEPT ![r] = receives] /\ link' = Cut(read, gone)
  <2>1. Good([u EXCEPT ![r] = receives], [k EXCEPT ![r] = [k[r] EXCEPT !.reply = None]])
    BY <1>1, <1>5, <1>7, <1>8, <1>12, ReplyRead, ZenonT(30)
  <2> HIDE DEF c
  <2> QED BY <1>9, <2>1, <1>12, Zenon
<1> QED BY <1>2, <1>10, <1>11, <1>12 DEF u

-----------------------------------------------------------------------------
(* PSYNC at the master. *)

\* The server that handles the PSYNC of r has a backlog before r is a slave
\* of it: a new one for the first slave, with a new id, which only a master
\* takes.
LEMMA Based ==
  ASSUME Good(node, link), NEW r \in Nodes, link[r] # None, link[r].st = "psync",
         NEW n, n = link[r].to, None \notin Nodes,
         ~(node[n].host # None /\ node[n].st # "connected")
  PROVE  LET s     == node[n]
             first == ~s.backlog.on /\ Slaves(link, n) \cup {r} = {r}
             based == IF first
                        THEN [node EXCEPT ![n] =
                                CreateBacklog([s EXCEPT !.id = ids + 1,
                                                        !.id2 = None, !.off2 = 0])]
                        ELSE node
         IN  /\ n \in Nodes /\ n # r /\ Good(based, link)
             /\ based[n].backlog.on /\ based[r] = node[r]
<1> DEFINE s     == node[n]
           first == ~s.backlog.on /\ Slaves(link, n) \cup {r} = {r}
           t     == [s EXCEPT !.id = ids + 1, !.id2 = None, !.off2 = 0]
           b     == CreateBacklog(t)
           based == IF first THEN [node EXCEPT ![n] = b] ELSE node
<1>1. n \in Nodes /\ n # r
  <2>1. node[r].host = n /\ n # None
    BY FollowersHaveHosts
  <2> QED BY <2>1 DEF Good, Sound
<1>2. /\ Sound(s, n) /\ Linked(link[n], s)
      /\ node = [x \in Nodes |-> node[x]] /\ link = [x \in Nodes |-> link[x]]
  BY <1>1 DEF Good
<1>3. CASE first
  <2>1. s.host = None /\ s.st = "none" /\ s.cached = None /\ s.master = None
    BY <1>2, <1>3 DEF Sound
  <2> HIDE DEF s
  <2>2. /\ Server(t) /\ t.host = None /\ t.st = "none" /\ t.cached = None
        /\ t.master = None
    BY <1>2, <2>1, ZenonT(30) DEF Sound, Server
  <2> HIDE DEF t
  <2>3. /\ Server(b) /\ b.host = None /\ b.st = "none" /\ b.cached = None
        /\ b.master = None /\ Buffer(b.backlog) /\ b.backlog.on
    BY <2>2, CreateBacklogKeeps
  <2> HIDE DEF b
  <2>4. Sound(b, n)
    BY <1>1, <2>3 DEF Sound
  <2>5. Linked(link[n], b)
    BY <1>2, <2>1 DEF Linked
  <2>6. based = [node EXCEPT ![n] = b]
    BY <1>3
  <2>7. Good(based, link)
    BY <1>1, <2>3, <2>4, <2>5, <2>6, OneServer
  <2>8. based[n].backlog.on /\ based[r] = node[r]
    BY <1>1, <1>2, <2>3, <2>6
  <2> QED BY <1>1, <2>7, <2>8, ZenonT(30) DEF b, t, s
<1>4. CASE ~first
  <2>1. s.backlog.on
    <3>1. CASE ~s.backlog.on
      <4>1. Slaves(link, n) # {}
        BY <1>4, <3>1
      <4> QED BY <1>1, <3>1, <4>1 DEF Good
    <3> QED BY <3>1
  <2> QED BY <1>1, <1>4, <2>1
<1> QED BY <1>3, <1>4

LEMMA PsyncKeeps ==
  ASSUME Good(node, link), NEW r \in Nodes, None \notin Nodes, Psync(r)
  PROVE  Good(node', link')
<1> DEFINE n == link[r].to
           s == node[n]
           refused == s.host # None /\ s.st # "connected"
           waits == [link EXCEPT ![r].st = "start"]
           first == ~s.backlog.on /\ Slaves(link, n) \cup {r} = {r}
           based == IF first
                      THEN [node EXCEPT ![n] =
                              CreateBacklog([s EXCEPT !.id = ids + 1,
                                                      !.id2 = None, !.off2 = 0])]
                      ELSE node
           saving == {x \in Slaves(link, n) : link[x].st = "end"}
<1>1. link[r] # None /\ link[r].st = "psync"
  BY Zenon DEF Psync
<1>2. \/ node' = Break(node, {r}) /\ link' = Cut(link, {r})
      \/ /\ CanContinue(s, link[r].ask) /\ node' = node
         /\ link' = [link EXCEPT ![r].st = "online",
                        ![r].reply = Continue(s.id),
                        ![r].q = BacklogFrom(s.backlog, link[r].ask.off)]
      \/ /\ ~refused
         /\ node' = StartBgsave(based, waits, n).node
         /\ link' = StartBgsave(based, waits, n).link
      \/ ~refused /\ node' = based /\ link' = waits
      \/ /\ ~refused
         /\ \E x \in saving :
              /\ node' = [based EXCEPT ![n].seldb = None]
              /\ link' = [link EXCEPT ![r].st = "end",
                   ![r].q = link[x].q, ![r].init = link[x].init,
                   ![r].reply = Full(s.id, link[x].init)]
  BY Zenon DEF Psync
<1>3. Linked(link[r], node[r]) /\ link = [x \in Nodes |-> link[x]]
  BY DEF Good
<1>4. ~refused => /\ n \in Nodes /\ n # r /\ Good(based, link)
                  /\ based[n].backlog.on /\ based[r] = node[r]
  BY <1>1, Based, ZenonT(30)
<1>5. CASE node' = Break(node, {r}) /\ link' = Cut(link, {r})
  <2>1. \A x \in {r} : x \in Nodes => node[x].host # None
    BY <1>1, FollowersHaveHosts
  <2> QED BY <1>5, <2>1, BreakCut
<1>6. CASE /\ CanContinue(s, link[r].ask) /\ node' = node
           /\ link' = [link EXCEPT ![r].st = "online",
                          ![r].reply = Continue(s.id),
                          ![r].q = BacklogFrom(s.backlog, link[r].ask.off)]
  <2> DEFINE c == [link[r] EXCEPT !.st = "online", !.reply = Continue(s.id),
                          !.q = BacklogFrom(s.backlog, link[r].ask.off)]
  <2>1. link' = [link EXCEPT ![r] = c]
    BY <1>3, <1>6, ZenonT(30)
  <2>2. link[r].ask # None /\ s.backlog.on
    BY <1>6 DEF CanContinue
  <2>3. Linked(c, node[r]) /\ c.to = n
    BY <1>1, <1>3, <2>2, Zenon DEF Linked, Connection
  <2> HIDE DEF c
  <2>4. Good(node, [link EXCEPT ![r] = c])
    BY <2>2, <2>3, OneLink
  <2> QED BY <1>6, <2>1, <2>4, Zenon
<1> HIDE DEF based
<1>7. ~refused => Good(based, waits)
  <2> SUFFICES ASSUME ~refused PROVE Good(based, waits)
    OBVIOUS
  <2> DEFINE c == [link[r] EXCEPT !.st = "start"]
  <2>1. waits = [link EXCEPT ![r] = c]
    BY <1>3
  <2>2. Linked(c, based[r]) /\ c.to = n
    BY <1>1, <1>3, <1>4 DEF Linked, Connection
  <2> HIDE DEF c, waits, refused
  <2>3. Good(based, [link EXCEPT ![r] = c])
    BY <1>4, <2>2, OneLink
  <2> QED BY <2>1, <2>3
<1>8. ASSUME ~refused, NEW x \in saving,
             node' = [based EXCEPT ![n].seldb = None],
             link' = [link EXCEPT ![r].st = "end",
                   ![r].q = link[x].q, ![r].init = link[x].init,
                   ![r].reply = Full(s.id, link[x].init)]
      PROVE  Good(node', link')
  <2> DEFINE c == [link[r] EXCEPT !.st = "end", !.q = link[x].q,
                      !.init = link[x].init, !.reply = Full(s.id, link[x].init)]
             b == based[n]
             t == [b EXCEPT !.seldb = None]
             u == [based EXCEPT ![n] = t]
  <2>1. node' = u /\ link' = [link EXCEPT ![r] = c]
    BY <1>3, <1>4, <1>8, ZenonT(30)
  <2>2. /\ n \in Nodes /\ n # r /\ Good(based, link)
        /\ b.backlog.on /\ based[r] = node[r]
    BY <1>4, <1>8
  <2>3. Sound(b, n) /\ Linked(link[n], b) /\ (Slaves(link, n) # {} => b.backlog.on)
        /\ based = [y \in Nodes |-> based[y]]
    BY <2>2 DEF Good
  <2>4. Same(b, t)
    <3> HIDE DEF b
    <3> QED BY <2>3 DEF Same, Fed, Sound, Server
  <2>5. u[n] = t /\ u[r] = node[r]
    BY <2>2, <2>3
  <2>6. Full(s.id, link[x].init).t # "continue"
    BY DEF Full
  <2>7. Linked(c, node[r]) /\ c.to = n
    BY <1>1, <1>3, <2>6, ZenonT(30) DEF Linked, Connection
  <2> HIDE DEF b, t, c, n
  <2>8. Sound(t, n) /\ Linked(link[n], t) /\ t.backlog.on = b.backlog.on
    BY <2>3, <2>4, SameSound, SameLinked
  <2>9. Good(u, link)
    BY <2>2, <2>3, <2>8, OneServer, Zenon
  <2> HIDE DEF u
  <2>10. Good(u, [link EXCEPT ![r] = c])
    BY <2>2, <2>5, <2>7, <2>8, <2>9, OneLink, ZenonT(30)
  <2> QED BY <2>1, <2>10
<1>9. CASE /\ ~refused
           /\ node' = StartBgsave(based, waits, n).node
           /\ link' = StartBgsave(based, waits, n).link
  <2> HIDE DEF waits, n, refused
  <2> QED BY <1>4, <1>7, <1>9, StartBgsaveKeeps
<1>10. CASE ~refused /\ node' = based /\ link' = waits
  BY <1>7, <1>10
<1> HIDE DEF refused, waits, saving
<1> QED BY <1>2, <1>5, <1>6, <1>8, <1>9, <1>10, ZenonT(30)

-----------------------------------------------------------------------------
(* The invariant. *)

LEMMA BootSound ==
  ASSUME NEW n \in Nodes, None \notin Nodes, NEW host \in (Nodes \cup {None}) \ {n},
         NEW id
  PROVE  /\ Sound(Boot(host, id), n) /\ Boot(host, id).host = host
         /\ Boot(host, id).id = id /\ Boot(host, id).off = 0
BY Zenon DEF Boot, Sound, Server, NoBacklog, Buffer

LEMMA SyncedSound ==
  ASSUME NEW n \in Nodes, None \notin Nodes, NEW hosts,
         hosts[n] \in (Nodes \cup {None}) \ {n}
  PROVE  LET t == Synced(hosts, n)
         IN  /\ Sound(t, n) /\ t.backlog.on /\ t.host = hosts[n]
             /\ hosts[n] # None => t.st = "connected"
<1> DEFINE empty == [data |-> <<>>, info |-> [id |-> 1, off |-> 0, db |-> 0],
                     broken |-> FALSE]
           a == Boot(hosts[n], 1)
           b == [a EXCEPT !.dump = empty]
           s == CreateBacklog(b)
           t == IF hosts[n] = None THEN s
                ELSE [s EXCEPT !.st = "connected",
                               !.master = [id |-> 1, off |-> 0, db |-> 0]]
<1>1. Synced(hosts, n) = t
  BY Zenon DEF Synced
<1>2. Sound(a, n) /\ a.host = hosts[n] /\ a.id = 1 /\ a.off = 0 /\ a.cached = None
      /\ a.master = None
  BY BootSound DEF Boot
<1> HIDE DEF a, empty
<1>3. /\ Server(b) /\ b.host = hosts[n] /\ b.id = 1 /\ b.off = 0
      /\ b.cached = None /\ b.master = None /\ b.st = a.st
  BY <1>2 DEF Sound, Server
<1> HIDE DEF b
<1>4. /\ Server(s) /\ s.host = hosts[n] /\ s.id = 1 /\ s.off = 0 /\ s.cached = None
      /\ s.master = None /\ s.st = a.st /\ Buffer(s.backlog) /\ s.backlog.on
  BY <1>3, CreateBacklogKeeps
<1> HIDE DEF s
<1>5. CASE hosts[n] = None
  BY <1>1, <1>2, <1>4, <1>5 DEF Sound
<1>6. CASE hosts[n] # None
  <2>1. /\ Server(t) /\ t.host = hosts[n] /\ t.st = "connected" /\ t.cached = None
        /\ Place(t.master, t) /\ Buffer(t.backlog) /\ t.backlog.on
    BY <1>4, <1>6, ZenonT(30) DEF Server, Place
  <2> HIDE DEF t
  <2>2. Sound(t, n)
    BY <1>6, <2>1 DEF Sound
  <2> QED BY <1>1, <2>1, <2>2
<1> QED BY <1>5, <1>6

LEMMA InitGood ==
  ASSUME Deployable, Init
  PROVE  Inv
<1> DEFINE hosts == conf.hosts
<1>1. conf \in Configs /\ None \notin Nodes
      /\ \A n \in Nodes : hosts[n] \in (Nodes \cup {None}) \ {n}
  BY DEF Init, Deployable
<1>2. CASE conf.synced
  <2>1. /\ node = [n \in Nodes |-> Synced(hosts, n)]
        /\ link = [n \in Nodes |-> IF hosts[n] = None THEN None ELSE Online(hosts[n])]
    BY <1>2 DEF Init
  <2> HIDE DEF hosts
  <2>2. ASSUME NEW n \in Nodes
        PROVE  Sound(node[n], n) /\ Linked(link[n], node[n]) /\ node[n].backlog.on
    <3>1. /\ Sound(node[n], n) /\ node[n].backlog.on /\ node[n].host = hosts[n]
          /\ hosts[n] # None => node[n].st = "connected"
      BY <1>1, <2>1, SyncedSound
    <3>2. link[n] = IF hosts[n] = None THEN None ELSE Online(hosts[n])
      BY <2>1
    <3>3. Linked(link[n], node[n])
      BY <3>1, <3>2 DEF Linked, Online, Connection
    <3> QED BY <3>1, <3>3
  <2> QED BY <1>1, <2>1, <2>2 DEF Inv, Good
<1>3. CASE ~conf.synced
  <2> DEFINE id == CHOOSE f \in Bijection(Nodes, 1..Cardinality(Nodes)) : TRUE
  <2>1. node = [n \in Nodes |-> Boot(hosts[n], id[n])] /\ link = [n \in Nodes |-> None]
    BY <1>3 DEF Init
  <2> HIDE DEF id, hosts
  <2>2. \A n \in Nodes : Sound(node[n], n) /\ Linked(link[n], node[n])
    BY <1>1, <2>1, BootSound DEF Linked
  <2>3. \A n \in Nodes : Slaves(link, n) = {}
    BY <2>1 DEF Slaves
  <2> QED BY <1>1, <2>1, <2>2, <2>3 DEF Inv, Good
<1> QED BY <1>2, <1>3

LEMMA NextKeeps ==
  ASSUME Deployable, Inv, [Next]_vars
  PROVE  Inv'
<1>1. conf.nodes \subseteq Nodes /\ None \notin Nodes /\ Good(node, link)
  BY NodesOf DEF Inv
<1>2. conf' = conf
  <2>1. CASE UNCHANGED vars
    BY <2>1 DEF vars
  <2>2. ASSUME NEW n, NEW d, NEW w, Write(n, d, w)
        PROVE  conf' = conf
    BY <2>2, Zenon DEF Write
  <2>3. ASSUME NEW n, NEW ok, EndBgsave(n, ok)
        PROVE  conf' = conf
    BY <2>3, Zenon DEF EndBgsave
  <2>4. ASSUME NEW n, NEW m, SetMaster(n, m) \/ UnsetMaster(n) \/ FreeBacklog(n)
        PROVE  conf' = conf
    BY <2>4, Zenon DEF SetMaster, UnsetMaster, FreeBacklog
  <2>5. ASSUME NEW n, PingSlaves(n) \/ Bgsave(n) \/ Restart(n) \/ Drop(n) \/ Connect(n)
        PROVE  conf' = conf
    BY <2>5, Zenon DEF PingSlaves, Bgsave, Restart, Drop, Connect
  <2>6. ASSUME NEW r, Psync(r) \/ ReadReply(r)
        PROVE  conf' = conf
    BY <2>6, Zenon DEF Psync, ReadReply
  <2>7. ASSUME NEW r, Load(r) \/ LoadFails(r) \/ Apply(r) \/ Ack(r)
        PROVE  conf' = conf
    BY <2>7, Zenon DEF Load, LoadFails, Apply, Ack
  <2>8. CASE Next
    BY <2>2, <2>3, <2>4, <2>5, <2>6, <2>7, <2>8, Zenon DEF Next
  <2> QED BY <2>1, <2>8
<1> SUFFICES Good(node', link')
  BY <1>2, ZenonT(30) DEF Inv, Good, Sound, Linked, Slaves, Server, Buffer, Connection, Place
<1>3. CASE UNCHANGED vars
  BY <1>1, <1>3 DEF vars
<1>4. ASSUME NEW n \in conf.nodes, NEW d \in Dbs, NEW w \in Writes, Write(n, d, w)
      PROVE  Good(node', link')
  BY <1>1, <1>4, WriteKeeps
<1>5. ASSUME NEW n \in conf.nodes, NEW ok \in BOOLEAN, EndBgsave(n, ok)
      PROVE  Good(node', link')
  BY <1>1, <1>5, EndBgsaveKeeps
<1>6. ASSUME NEW n \in conf.nodes, NEW m \in conf.nodes, SetMaster(n, m)
      PROVE  Good(node', link')
  BY <1>1, <1>6, SetMasterKeeps
<1>7. ASSUME NEW n \in conf.nodes,
             PingSlaves(n) \/ Bgsave(n) \/ UnsetMaster(n) \/ FreeBacklog(n) \/ Restart(n)
      PROVE  Good(node', link')
  BY <1>1, <1>7, PingKeeps, BgsaveKeeps, UnsetMasterKeeps, FreeBacklogKeeps, RestartKeeps, ZenonT(30)
<1>8. ASSUME NEW r \in conf.nodes,
             Drop(r) \/ Connect(r) \/ Psync(r) \/ ReadReply(r)
      PROVE  Good(node', link')
  BY <1>1, <1>8, DropKeeps, ConnectKeeps, PsyncKeeps, ReadReplyKeeps
<1>9. ASSUME NEW r \in conf.nodes,
             Load(r) \/ LoadFails(r) \/ Apply(r) \/ Ack(r)
      PROVE  Good(node', link')
  BY <1>1, <1>9, LoadKeeps, LoadFailsKeeps, ApplyKeeps, AckKeeps
<1>10. CASE Next
  BY <1>4, <1>5, <1>6, <1>7, <1>8, <1>9, <1>10 DEF Next
<1> QED BY <1>3, <1>10

\* repl_state, the master clients, the backlogs and the connections of all
\* servers stay in step through every resynchronization and change of role
\* (replication.c).
THEOREM ReplicationInvariance == ASSUME Deployable PROVE Spec => []Inv
<1>1. Init => Inv
  BY InitGood
<1>2. Inv /\ [Next]_vars => Inv'
  BY NextKeeps
<1> QED BY <1>1, <1>2, PTL DEF Spec

\* The offset and the id of a replica's master client, connected or cached,
\* are its own master_repl_offset and replid: what it acknowledges and asks
\* to continue from is what its backlog, its RDB file and its second id say
\* (replication.c, replicationCacheMaster, slaveTryPartialResynchronization,
\* replicationCacheMasterUsingMyself, readSyncBulkPayload).
THEOREM OffsetsAlwaysAgree == ASSUME Deployable PROVE Spec => []OffsetsAgree
<1>1. Inv => OffsetsAgree
  <2> SUFFICES ASSUME Inv, NEW r \in Nodes
               PROVE  /\ node[r].master # None =>
                           /\ node[r].master.off = node[r].off
                           /\ node[r].master.id = node[r].id
                      /\ node[r].cached # None =>
                           /\ node[r].cached.off = node[r].off
                           /\ node[r].cached.id = node[r].id
    BY DEF OffsetsAgree
  <2>1. Sound(node[r], r)
    BY DEF Inv, Good
  <2> QED BY <2>1 DEF Sound, Place
<1> QED BY <1>1, ReplicationInvariance, PTL

\* A server that has slaves, at whatever stage, has a backlog: the assertion
\* of replicationFeedSlaves and freeReplicationBacklog (replication.c).
THEOREM SlavesAlwaysHaveBacklog == ASSUME Deployable PROVE Spec => []SlavesHaveBacklog
<1>1. Inv => SlavesHaveBacklog
  BY DEF Inv, Good, SlavesHaveBacklog
<1> QED BY <1>1, ReplicationInvariance, PTL
=============================================================================
