------------------------------ MODULE Transfer ------------------------------
(* How a master hands its replicas a snapshot: a child that streams it to    *)
(* their sockets and reports which of them got all of it, or a file sent     *)
(* from disk (rdb.c, rio.c), the stream of commands behind it, and how the    *)
(* replica tells where the snapshot ends (replication.c).  A connection is    *)
(* one attempt of a replica; one that lost it comes back on another.  The     *)
(* handshake before it is the matter of Replication.                          *)
(*                                                                           *)
(* Bytes are numbers: 3 the end of a line, 4 and 5 the line that announces a  *)
(* mark or a length, 10 + n the snapshot of the first n writes, 20 + n the    *)
(* n-th write as a command; 1 and 2 are other data.                          *)
EXTENDS Integers, Sequences, FiniteSets

CONSTANTS Conns,      \* connections, at most
          IoLen,      \* PROTO_IOBUF_LEN
          Chunk,      \* 1024, what rioFdsetWrite sends at a time
          ReadLen,    \* the replica's buffer, 4096
          Scenarios   \* [by, conns, writes]: how it is sent, connections and writes, all of a run

VARIABLE s

\* A random mark of CONFIG_RUN_ID_SIZE bytes: as the code does, take it that
\* the snapshot does not hold it.  Its bytes do occur there.
Mark == <<1, 2>>
Payload(n) == <<2, 10 + n, 1>>
Eol == 3

Min(a, b) == IF a < b THEN a ELSE b
Front(q, n) == SubSeq(q, 1, Min(n, Len(q)))
Behind(q, n) == SubSeq(q, n + 1, Len(q))
LastOf(q, n) == Behind(q, Len(q) - n)

\* A connection as the master and as the replica see it.  A closed one carries
\* what was sent, until the replica sees its end.
Fresh == [st |-> "start", onAck |-> FALSE, out |-> <<>>, pipe |-> <<>>, pre |-> <<>>, file |-> <<>>,
          rs |-> "line", len |-> 0, got |-> <<>>, last |-> <<0, 0>>, data |-> 0]
Dead(st) == [Fresh EXCEPT !.st = st, !.rs = "dead"]
Freed(c) == IF c.rs = "dead" THEN Dead("none") ELSE [c EXCEPT !.st = "none", !.out = <<>>, !.pre = <<>>, !.file = <<>>, !.onAck = FALSE]
In(z, sts) == {i \in Conns : z.conns[i].st \in sts}
OnConns(z, set, F(_)) == [z EXCEPT !.conns = [i \in Conns |-> IF i \in set THEN F(@[i]) ELSE @[i]]]
NoChild == [run |-> "none", fds |-> {}, bad |-> {}, buf |-> <<>>, left |-> <<>>, ok |-> FALSE, snap |-> 0]

-----------------------------------------------------------------------------
(* The child.                                                               *)

\* rdbSaveRioWithEOFMark
Streamed(n) == <<4, Eol>> \o Payload(n) \o Mark

\* rioFdsetWrite: what is written is kept until it is more than IoLen
Filled(ch, q) == [ch EXCEPT !.buf = Front(q, IoLen + 1), !.left = Behind(q, IoLen + 1)]

\* startBgsaveForReplication with rdbSaveToSlavesSockets, or with
\* rdbSaveBackground and its replies; the snapshot is taken here
ForkSocket(z) == [OnConns(z, In(z, {"start"}), LAMBDA c : [c EXCEPT !.st = "end"])
                    EXCEPT !.child = Filled([NoChild EXCEPT !.run = "run", !.fds = In(z, {"start"}), !.snap = z.n], Streamed(z.n))]
ForkDisk(z) == [OnConns(z, In(z, {"start"}), LAMBDA c : [c EXCEPT !.st = "end"])
                  EXCEPT !.child = [NoChild EXCEPT !.run = "run", !.snap = z.n]]
\* A failed fork: back to the start, and closed there
ForkFails(z) == OnConns(z, In(z, {"start"}), Freed)
StartBgsave(z) == {ForkFails(z), IF z.sc.by = "socket" THEN ForkSocket(z) ELSE ForkDisk(z)}

\* One round of rioFdsetWrite over the sockets that are not broken; a write
\* fails or times out behind some of the bytes
Written(c, q) == IF c.rs = "dead" THEN c ELSE [c EXCEPT !.pipe = @ \o q]
Exit(ch, ok) == [NoChild EXCEPT !.run = "exit", !.ok = ok, !.snap = ch.snap, !.fds = ch.fds, !.bad = ch.bad]
AfterChunk(ch) ==
  IF Len(ch.buf) > Chunk THEN [ch EXCEPT !.buf = Behind(@, Chunk)]
  ELSE IF ch.left # <<>> THEN Filled(ch, ch.left) ELSE Exit(ch, TRUE)
ChildWrites(ch, failed, part) ==
  [OnConns(OnConns(s, ch.fds \ (ch.bad \cup failed), LAMBDA c : Written(c, Front(ch.buf, Chunk))),
           failed, LAMBDA c : Written(c, Front(ch.buf, part)))
     EXCEPT !.child = IF ch.bad = ch.fds THEN Exit(ch, FALSE) ELSE AfterChunk([ch EXCEPT !.bad = @ \cup failed])]
ChildStep ==
  /\ s.child.run = "run"
  /\ IF s.sc.by = "disk" THEN \E ok \in BOOLEAN : s' = [s EXCEPT !.child = Exit(@, ok)]
     ELSE \E failed \in SUBSET (s.child.fds \ s.child.bad), part \in 0..Chunk - 1 :
            s' = ChildWrites(s.child, failed, part)
\* A signal ends the child (killRDBChild, the system)
ChildKilled == s.child.run = "run" /\ s' = [s EXCEPT !.child = Exit(@, FALSE)]

\* Mutated: a broken socket does not matter when the child ended well
DoneHandlerSocketLax(z, ch) == OnConns(z, In(z, {"end"}), LAMBDA c : IF ch.ok THEN c ELSE Freed(c))

\* backgroundSaveDoneHandlerSocket: only what the child reports as sent stays
DoneHandlerSocket(z, ch) ==
  OnConns(z, In(z, {"end"}) \ (IF ch.ok THEN ch.fds \ ch.bad ELSE {}), Freed)

\* Mutated: the stream of commands goes on at once
PutOnlineNow(c) == [c EXCEPT !.st = "online"]

PutOnlineOnAck(c) == [c EXCEPT !.st = "online", !.onAck = TRUE]

\* updateSlavesWaitingBgsave, then a child for those that came meanwhile
WaitingDone(z, ch) ==
  IF z.sc.by = "socket" THEN OnConns(z, In(z, {"end"}), PutOnlineOnAck)
  ELSE IF ~ch.ok THEN OnConns(z, In(z, {"end"}), Freed)
  ELSE OnConns(z, In(z, {"end"}), LAMBDA c : [c EXCEPT !.st = "bulk", !.pre = <<5, Eol>>, !.file = Payload(ch.snap)])
Restarted(z) == IF In(z, {"start"}) = {} THEN {z} ELSE StartBgsave(z)
Reap ==
  /\ s.child.run = "exit"
  /\ LET z == [s EXCEPT !.child = NoChild]
     IN s' \in Restarted(WaitingDone(IF s.sc.by = "socket" THEN DoneHandlerSocket(z, s.child) ELSE z, s.child))

-----------------------------------------------------------------------------
(* The master.                                                              *)

\* A replica that asks for a full resynchronization, as syncCommand leaves it
Attach == s.next <= s.sc.conns /\ s' = [s EXCEPT !.conns[s.next] = Fresh, !.next = @ + 1]

\* replicationCron: a child for those that wait, a newline to those that may
\* not have a snapshot on its way
Cron == s.child.run = "none" /\ In(s, {"start"}) # {} /\ s' \in StartBgsave(s)

\* Mutated: a newline to every replica that waits for a snapshot
PresyncAll(z) == In(z, {"start", "end"})

Presync(z) == In(z, {"start"}) \cup (IF z.sc.by # "socket" THEN In(z, {"end"}) ELSE {})
Newline == \E i \in Presync(s) : /\ s.conns[i].rs # "dead" /\ LastOf(s.conns[i].pipe, Min(1, Len(s.conns[i].pipe))) # <<Eol>>
                                 /\ s' = [s EXCEPT !.conns[i].pipe = Append(@, Eol)]

\* replicationFeedSlaves
WriteCommand ==
  /\ s.n < s.sc.writes
  /\ s' = OnConns([s EXCEPT !.n = @ + 1], In(s, {"end", "bulk", "online"}), LAMBDA c : [c EXCEPT !.out = Append(@, 21 + s.n)])

\* sendReplyToClient, for a replica that is online
SendCommands ==
  \E i \in In(s, {"online"}) : LET c == s.conns[i] IN
    /\ ~c.onAck /\ c.out # <<>>
    /\ \E k \in 1..Len(c.out) : s' = [s EXCEPT !.conns[i] = Written([c EXCEPT !.out = Behind(@, k)], Front(c.out, k))]

\* putSlaveOnline
PutOnline(c) == [c EXCEPT !.st = "online", !.onAck = FALSE]

\* sendBulkToSlave: the preamble, then the file; a write may take a part
BulkStep(c, k) ==
  IF c.pre # <<>> THEN Written([c EXCEPT !.pre = Behind(@, k)], Front(c.pre, k))
  ELSE LET d == Written([c EXCEPT !.file = Behind(@, k)], Front(c.file, k)) IN IF d.file = <<>> THEN PutOnline(d) ELSE d
SendBulk ==
  \E i \in In(s, {"bulk"}) : LET c == s.conns[i] IN
    \E k \in 1..(IF c.pre # <<>> THEN Len(c.pre) ELSE Min(IoLen, Len(c.file))) : s' = [s EXCEPT !.conns[i] = BulkStep(c, k)]

\* freeClient: limits of the output buffer, timeouts, a lost connection
Free == \E i \in In(s, {"start", "end", "bulk", "online"}) : s' = [s EXCEPT !.conns[i] = Freed(@)]

-----------------------------------------------------------------------------
(* The replica.                                                             *)

Alive == {i \in Conns : s.conns[i].rs # "dead"}

\* The connection breaks; the master learns of it later
Break == \E i \in Alive : s' = [s EXCEPT !.conns[i] = Dead(@.st)]

\* The master closed it, and no child holds it any more
SeeEnd == \E i \in Alive : /\ s.conns[i].st = "none" /\ s.conns[i].pipe = <<>>
                           /\ s.child.run = "run" => i \notin s.child.fds
                           /\ s' = [s EXCEPT !.conns[i] = Dead("none")]

\* readSyncBulkPayload before the length is known: a line
ReadLine(c) ==
  IF c.pipe[1] = Eol THEN [c EXCEPT !.pipe = Tail(@)]
  ELSE [c EXCEPT !.pipe = Behind(@, 2), !.rs = IF c.pipe[1] = 4 THEN "mark" ELSE "len", !.len = Len(Payload(0))]

\* emptyDb, rdbLoad, replicationCreateMasterClient
Loads(c) == [c EXCEPT !.rs = "up", !.data = IF Len(c.got) >= 2 THEN c.got[2] - 10 ELSE -1, !.last = <<0, 0>>]

\* Mutated: a mark that comes in two reads is overlooked
LastBytesWhole(c, k) == IF k >= Len(Mark) THEN LastOf(Front(c.pipe, k), Len(Mark)) ELSE c.last

\* The last bytes read so far
LastBytes(c, k) == IF k >= Len(Mark) THEN LastOf(Front(c.pipe, k), Len(Mark)) ELSE Behind(c.last, k) \o Front(c.pipe, k)

\* readSyncBulkPayload: k bytes are there
ReadMarked(c, k) ==
  LET d == [c EXCEPT !.pipe = Behind(@, k), !.got = @ \o Front(c.pipe, k), !.last = LastBytes(c, k)]
  IN IF d.last = Mark THEN Loads([d EXCEPT !.got = Front(@, Len(@) - Len(Mark))]) ELSE d
ReadSized(c, k) ==
  LET d == [c EXCEPT !.pipe = Behind(@, k), !.got = @ \o Front(c.pipe, k)] IN IF Len(d.got) = d.len THEN Loads(d) ELSE d
ReadBulk(c, k) == IF c.rs = "mark" THEN ReadMarked(c, k) ELSE ReadSized(c, k)

\* A command of the master
Apply(c) == [c EXCEPT !.pipe = Tail(@), !.data = IF @ >= 0 /\ c.pipe[1] = 21 + @ THEN @ + 1 ELSE -1]

Receive ==
  \E i \in Alive : LET c == s.conns[i] IN
    /\ c.pipe # <<>>
    /\ \/ c.rs = "line" /\ Eol \in {c.pipe[k] : k \in DOMAIN c.pipe} /\ s' = [s EXCEPT !.conns[i] = ReadLine(c)]
       \/ c.rs \in {"mark", "len"} /\ \E k \in 1..Min(Len(c.pipe), IF c.rs = "len" THEN Min(ReadLen, c.len - Len(c.got)) ELSE ReadLen) :
            s' = [s EXCEPT !.conns[i] = ReadBulk(c, k)]
       \/ c.rs = "up" /\ s' = [s EXCEPT !.conns[i] = Apply(c)]

\* replicationSendAck and replconfCommand: what waited for it goes out
Ack == \E i \in Alive : LET c == s.conns[i] IN
         c.rs = "up" /\ c.st = "online" /\ c.onAck /\ s' = [s EXCEPT !.conns[i] = PutOnline(c)]

Init == \E sc \in Scenarios : s = [sc |-> sc, n |-> 0, next |-> 1, child |-> NoChild, conns |-> [i \in Conns |-> Dead("none")]]
Next ==
  \/ ChildStep \/ ChildKilled \/ Reap
  \/ Attach \/ Cron \/ Newline \/ WriteCommand \/ SendCommands \/ SendBulk \/ Free
  \/ Break \/ SeeEnd \/ Receive \/ Ack
Spec == Init /\ [][Next]_s

-----------------------------------------------------------------------------
IsPrefix(p, q) == Len(p) <= Len(q) /\ p = Front(q, Len(p))

\* A replica loads exactly a snapshot, neither a newline nor a command nor the
\* mark with it, and from there on applies every write once and in order;
\* while it reads, it holds a part of a snapshot (rdbSaveToSlavesSockets,
\* sendBulkToSlave, readSyncBulkPayload).
SnapshotThenStream ==
  \A i \in Alive : LET c == s.conns[i] IN
    /\ c.rs = "up" => c.data \in 0..s.n /\ \E n \in 0..c.data : c.got = Payload(n)
    /\ c.rs \in {"mark", "len"} => \E n \in 0..s.n : IsPrefix(c.got, Payload(n) \o Mark) /\ c.got # Payload(n) \o Mark

\* A replica whose stream of commands has begun was sent all of the snapshot,
\* whatever broke while it was sent; without a child none waits for its end
\* (backgroundSaveDoneHandlerSocket, updateSlavesWaitingBgsave).
OnlineHasAll ==
  /\ \A i \in In(s, {"online"}) : LET c == s.conns[i] IN
       c.rs # "dead" /\ c.rs # "up" =>
         \E n \in 0..s.n, k \in 0..(IF c.rs = "line" THEN Len(c.pipe) ELSE 0) : IsPrefix(Payload(n), Behind(c.got \o c.pipe, k))
  /\ s.child.run = "none" => In(s, {"end"}) = {}
=============================================================================
