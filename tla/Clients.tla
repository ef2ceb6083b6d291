------------------------------- MODULE Clients -------------------------------
(***************************************************************************)
(* The connections of the server: the output buffers of networking.c (a    *)
(* static buffer, then a list of blocks), the writes that take what the    *)
(* socket accepts, the lists of clients to write to, to close and to go on *)
(* with, the limits, CLIENT, MONITOR and the subscriptions of pubsub.c.    *)
(* The bytes of a client's replies are numbered in the order they are      *)
(* replied in, so that what arrives can be compared with it.               *)
(***************************************************************************)
EXTENDS Integers, Sequences, FiniteSets

CONSTANTS BufSize,   \* PROTO_REPLY_CHUNK_BYTES, the static buffer
          Chunk,     \* PROTO_REPLY_CHUNK_BYTES, the smallest block
          Scenarios  \* [clients, cmds, steps, hard, soft, seconds]

VARIABLE s

Ids == 1..s.sc.clients
RemoveOne(q, x) == SelectSeq(q, LAMBDA y : y # x)
Members(q) == {q[i] : i \in DOMAIN q}

Closed == [open |-> FALSE, flags |-> {}, buf |-> <<>>, reply |-> <<>>, sent |-> 0, bytes |-> 0, handler |-> FALSE,
           said |-> 0, got |-> 0, inOrder |-> TRUE, subs |-> {}, pats |-> <<>>, soft |-> 0]

\* createClient
Fresh == [Closed EXCEPT !.open = TRUE]

HasPendingReplies(c) == c.buf # <<>> \/ c.reply # <<>>

-----------------------------------------------------------------------------
(* Lists of clients.                                                        *)

\* clientInstallWriteHandler
InstallWriteHandler(st, i) ==
  IF "pending" \in st.cl[i].flags THEN st
  ELSE [st EXCEPT !.cl[i].flags = @ \cup {"pending"}, !.pendingWrite = <<i>> \o @]

\* freeClientAsync
FreeAsync(st, i) ==
  IF "asap" \in st.cl[i].flags THEN st
  ELSE [st EXCEPT !.cl[i].flags = @ \cup {"asap"}, !.toClose = Append(@, i)]

\* queueClientForReprocessing; unblockClient
Requeue(st, i) ==
  IF "unblocked" \in st.cl[i].flags THEN st
  ELSE [st EXCEPT !.cl[i].flags = @ \cup {"unblocked"}, !.unblocked = Append(@, i)]
UnblockClient(st, i) == Requeue([st EXCEPT !.cl[i].flags = @ \ {"blocked"}], i)

\* checkClientOutputBufferLimits, asyncCloseClientOnOutputBufferLimitReached
Usage(c) == c.bytes + Len(c.reply)
SoftOver(c) == s.sc.soft # 0 /\ Usage(c) >= s.sc.soft
HardOver(c) == s.sc.hard # 0 /\ Usage(c) >= s.sc.hard
SoftTime(c) == IF ~SoftOver(c) THEN 0 ELSE IF c.soft = 0 THEN s.now ELSE c.soft
CheckLimits(st, i) ==
  LET c == st.cl[i]
  IN IF c.bytes = 0 \/ "asap" \in c.flags THEN st
     ELSE IF HardOver(c) \/ (SoftOver(c) /\ c.soft # 0 /\ s.now - c.soft > s.sc.seconds)
     THEN FreeAsync([st EXCEPT !.cl[i].soft = SoftTime(c)], i)
     ELSE [st EXCEPT !.cl[i].soft = SoftTime(c)]

-----------------------------------------------------------------------------
(* Replies.                                                                 *)

\* prepareClientToWrite
Silent(c) == c.flags \cap {"off", "skip"} # {}
Prepared(st, i) == IF HasPendingReplies(st.cl[i]) THEN st ELSE InstallWriteHandler(st, i)

Bytes(from, n) == [k \in 1..n |-> from + k]

\* _addReplyToBuffer succeeds
FitsBuffer(c, n) == c.reply = <<>> /\ n <= BufSize - Len(c.buf)

\* _addReplyStringToList: what fits goes in the last block, the rest in a new one
Larger(a, b) == IF a > b THEN a ELSE b
Room(c) == IF c.reply = <<>> THEN 0 ELSE c.reply[Len(c.reply)].size - Len(c.reply[Len(c.reply)].data)
Filled(c, data) ==
  IF c.reply = <<>> THEN c.reply
  ELSE [c.reply EXCEPT ![Len(c.reply)].data = @ \o SubSeq(data, 1, IF Room(c) < Len(data) THEN Room(c) ELSE Len(data))]
Listed(c, data) ==
  IF Len(data) <= Room(c) THEN [c EXCEPT !.reply = Filled(c, data)]
  ELSE LET rest == SubSeq(data, Room(c) + 1, Len(data))
           size == Larger(Len(rest), Chunk)
       IN [c EXCEPT !.reply = Append(Filled(c, data), [data |-> rest, size |-> size]), !.bytes = @ + size]

Said(c, n) == [c EXCEPT !.said = @ + n]

\* Mutated: the static buffer is used while blocks are waiting
PutUnordered(st, i, n) ==
  LET c == st.cl[i]
  IN IF "after" \in c.flags THEN st
     ELSE IF n <= BufSize - Len(c.buf) THEN [st EXCEPT !.cl[i] = Said([c EXCEPT !.buf = @ \o Bytes(c.said, n)], n)]
     ELSE CheckLimits([st EXCEPT !.cl[i] = Said(Listed(c, Bytes(c.said, n)), n)], i)

Put(st, i, n) ==
  LET c == st.cl[i]
  IN IF "after" \in c.flags THEN st
     ELSE IF FitsBuffer(c, n) THEN [st EXCEPT !.cl[i] = Said([c EXCEPT !.buf = @ \o Bytes(c.said, n)], n)]
     ELSE CheckLimits([st EXCEPT !.cl[i] = Said(Listed(c, Bytes(c.said, n)), n)], i)

\* addReply, addReplySds, addReplyString: a reply of n bytes
AddReply(st, i, n) == IF Silent(st.cl[i]) THEN st ELSE Put(Prepared(st, i), i, n)

RECURSIVE AddReplies(_, _, _)
AddReplies(st, i, ns) == IF ns = <<>> THEN st ELSE AddReplies(AddReply(st, i, ns[1]), i, Tail(ns))

\* addDeferredMultiBulkLength: a block without a value yet
Deferred(st, i) ==
  LET c == st.cl[i]
  IN [st EXCEPT !.cl[i] = Said([c EXCEPT !.reply = Append(@, [data |-> <<>>, size |-> 0])], 1)]

\* Mutated: the length goes behind what the next block holds
MergedBehind(c, at) ==
  [c EXCEPT !.reply = SubSeq(@, 1, at - 1) \o
     <<[@[at + 1] EXCEPT !.data = @ \o <<c.deferred>>]>> \o SubSeq(@, at + 2, Len(@))]

\* setDeferredMultiBulkLength: in front of the next block if that has room
Merged(c, at) ==
  [c EXCEPT !.reply = SubSeq(@, 1, at - 1) \o
     <<[@[at + 1] EXCEPT !.data = <<c.deferred>> \o @]>> \o SubSeq(@, at + 2, Len(@))]
CanMerge(c, at) ==
  at < Len(c.reply) /\ c.reply[at + 1].size - Len(c.reply[at + 1].data) >= 1 /\ Len(c.reply[at + 1].data) < Chunk * 4
Without(c) == [k \in DOMAIN c \ {"deferred"} |-> c[k]]
Valued(c, at) ==
  IF CanMerge(c, at) THEN Without(Merged(c, at))
  ELSE Without([c EXCEPT !.reply[at] = [data |-> <<c.deferred>>, size |-> Chunk], !.bytes = @ + Chunk])
SetDeferred(st, i, at, byte) ==
  CheckLimits([st EXCEPT !.cl[i] = Valued([k \in DOMAIN st.cl[i] \cup {"deferred"} |->
                                             IF k = "deferred" THEN byte ELSE st.cl[i][k]], at)], i)

\* A reply whose number of elements is known at the end
AddCounted(st, i, ns) ==
  IF Silent(st.cl[i]) THEN st
  ELSE SetDeferred(AddReplies(Deferred(Prepared(st, i), i), i, ns), i, Len(st.cl[i].reply) + 1, st.cl[i].said + 1)

-----------------------------------------------------------------------------
(* Subscriptions.                                                           *)

Matches(pat, ch) == pat = "*" \/ pat = ch

SubscribeTo(st, i, ch) ==
  IF ch \in st.cl[i].subs THEN st
  ELSE [st EXCEPT !.cl[i].subs = @ \cup {ch}, !.channels[ch] = Append(@, i)]

UnsubscribeFrom(st, i, ch) ==
  IF ch \notin st.cl[i].subs THEN st
  ELSE [st EXCEPT !.cl[i].subs = @ \ {ch}, !.channels[ch] = RemoveOne(@, i)]

PSubscribeTo(st, i, pat) ==
  IF pat \in Members(st.cl[i].pats) THEN st
  ELSE [st EXCEPT !.cl[i].pats = Append(@, pat), !.patterns = Append(@, <<i, pat>>)]

PUnsubscribeFrom(st, i, pat) ==
  IF pat \notin Members(st.cl[i].pats) THEN st
  ELSE [st EXCEPT !.cl[i].pats = RemoveOne(@, pat), !.patterns = RemoveOne(@, <<i, pat>>)]

Message == <<1, 1>>

\* pubsubPublishMessage: first the channel's clients, then the patterns
RECURSIVE ToClients(_, _), ToPatterns(_, _, _)
ToClients(st, q) == IF q = <<>> THEN st ELSE ToClients(AddReplies(st, q[1], Message), Tail(q))
ToPatterns(st, q, ch) ==
  IF q = <<>> THEN st
  ELSE ToPatterns(IF Matches(q[1][2], ch) THEN AddReplies(st, q[1][1], Message) ELSE st, Tail(q), ch)
Publish(st, ch) == ToPatterns(ToClients(st, st.channels[ch]), st.patterns, ch)

RECURSIVE Repeat(_, _)
Repeat(x, n) == IF n = 0 THEN <<>> ELSE <<x>> \o Repeat(x, n - 1)

\* subscribeCommand, unsubscribeCommand and their pattern forms
PubSubFlag(st, i) ==
  IF st.cl[i].subs = {} /\ st.cl[i].pats = <<>> THEN [st EXCEPT !.cl[i].flags = @ \ {"pubsub"}] ELSE st
Subscribed(st, i) == [st EXCEPT !.cl[i].flags = @ \cup {"pubsub"}]

RECURSIVE UnsubAll(_, _, _), PUnsubAll(_, _, _)
UnsubAll(st, i, chs) ==
  IF chs = {} THEN st ELSE LET ch == CHOOSE x \in chs : TRUE IN UnsubAll(UnsubscribeFrom(st, i, ch), i, chs \ {ch})
PUnsubAll(st, i, q) == IF q = <<>> THEN st ELSE PUnsubAll(PUnsubscribeFrom(st, i, q[1]), i, Tail(q))

-----------------------------------------------------------------------------
(* Closing.                                                                 *)

\* Mutated: the client is not taken off the list of writes
UnlinkClientKeeps(st, i) ==
  [st EXCEPT !.unblocked = RemoveOne(@, i)]

\* unlinkClient
UnlinkClient(st, i) ==
  [st EXCEPT !.pendingWrite = RemoveOne(@, i), !.unblocked = RemoveOne(@, i)]

\* freeClient; a protected client waits on the list of clients to close
FreeClient(st, i) ==
  IF "protected" \in st.cl[i].flags THEN FreeAsync(st, i)
  ELSE LET u == PUnsubAll(UnsubAll(st, i, st.cl[i].subs), i, st.cl[i].pats)
           v == UnlinkClient(u, i)
       IN [v EXCEPT !.monitors = RemoveOne(@, i), !.toClose = RemoveOne(@, i), !.cl[i] = Closed]

-----------------------------------------------------------------------------
(* Writing.                                                                 *)

\* Bytes that arrive must be the next ones
RECURSIVE Arrived(_, _)
Arrived(c, data) ==
  IF data = <<>> THEN c
  ELSE Arrived([c EXCEPT !.got = @ + 1, !.inOrder = @ /\ data[1] = c.got + 1], Tail(data))

Cut(q, from, n) == SubSeq(q, from + 1, from + n)
Smaller(a, b) == IF a < b THEN a ELSE b

FromBuf(c, n) ==
  LET d == Arrived(c, Cut(c.buf, c.sent, n))
  IN IF c.sent + n = Len(c.buf) THEN [d EXCEPT !.buf = <<>>, !.sent = 0] ELSE [d EXCEPT !.sent = @ + n]

FirstGone(c) == [c EXCEPT !.bytes = @ - c.reply[1].size, !.reply = Tail(@)]
FromBlock(c, n) ==
  LET d == Arrived(c, Cut(c.reply[1].data, c.sent, n))
  IN IF c.sent + n = Len(c.reply[1].data) THEN [FirstGone(d) EXCEPT !.sent = 0] ELSE [d EXCEPT !.sent = @ + n]

\* The loop of writeToClient when the socket takes n bytes in all
RECURSIVE Written(_, _)
Written(c, n) ==
  IF ~HasPendingReplies(c) THEN c
  ELSE IF c.buf = <<>> /\ c.reply[1].data = <<>> THEN Written(FirstGone(c), n)
  ELSE IF n = 0 THEN c
  ELSE LET now == IF c.buf # <<>> THEN Smaller(n, Len(c.buf) - c.sent) ELSE Smaller(n, Len(c.reply[1].data) - c.sent)
       IN Written(IF c.buf # <<>> THEN FromBuf(c, now) ELSE FromBlock(c, now), n - now)

\* What follows it
AfterWrite(st, i, installed) ==
  IF HasPendingReplies(st.cl[i]) THEN st
  ELSE IF "after" \in st.cl[i].flags THEN FreeClient(st, i)
  ELSE [st EXCEPT !.cl[i].sent = 0, !.cl[i].handler = @ /\ ~installed]

WriteToClient(st, i, n, installed) == AfterWrite([st EXCEPT !.cl[i] = Written(@, n)], i, installed)

\* handleClientsWithPendingWrites; amounts[i] is what the socket of i takes, -1 an error
Unflagged(st, i) == [st EXCEPT !.cl[i].flags = @ \ {"pending"}, !.pendingWrite = RemoveOne(@, i)]

\* Mutated: the handler is not installed after a short write
HandlerAfterNone(st, i) == st

HandlerAfter(st, i) ==
  IF st.cl[i].open /\ HasPendingReplies(st.cl[i]) THEN [st EXCEPT !.cl[i].handler = TRUE] ELSE st

WriteOne(st, i, n) ==
  IF "protected" \in st.cl[i].flags THEN st
  ELSE IF n = -1 THEN IF HasPendingReplies(st.cl[i]) THEN FreeClient(st, i) ELSE st
  ELSE HandlerAfter(WriteToClient(st, i, n, FALSE), i)

RECURSIVE WriteAll(_, _, _)
WriteAll(st, q, amounts) ==
  IF q = <<>> THEN st ELSE WriteAll(WriteOne(Unflagged(st, q[1]), q[1], amounts[q[1]]), Tail(q), amounts)

Waiting(c) == c.said - c.got
Amounts == [Ids -> {-1, 0, 1, 3, 9}]
Sensible(amounts) == \A i \in Ids : IF i \in Members(s.pendingWrite) THEN amounts[i] < Larger(Waiting(s.cl[i]), 1) \/ amounts[i] = 9
                                    ELSE amounts[i] = 0

HandlePendingWrites ==
  /\ s.pendingWrite # <<>>
  /\ \E amounts \in Amounts : Sensible(amounts) /\ s' = WriteAll(s, s.pendingWrite, amounts)

\* sendReplyToClient: the socket is writable
SendReply(i) ==
  /\ s.cl[i].open /\ s.cl[i].handler
  /\ \E n \in {1, 2, 9} : s' = WriteToClient(s, i, n, TRUE)

-----------------------------------------------------------------------------
(* Commands.  Each handler ends with what call and resetClient do.          *)

\* resetClient: the reply of the command after CLIENT REPLY SKIP is skipped
ResetClient(st, i) ==
  LET f == st.cl[i].flags \ {"skip"}
  IN IF ~st.cl[i].open THEN st
     ELSE [st EXCEPT !.cl[i].flags = IF "skipnext" \in f THEN (f \ {"skipnext"}) \cup {"skip"} ELSE f]

RECURSIVE FeedMonitors(_, _)
FeedMonitors(st, q) == IF q = <<>> THEN st ELSE FeedMonitors(AddReply(st, q[1], 1), Tail(q))

Kill(st, i, j) ==
  IF i = j THEN [AddReply(st, i, 1) EXCEPT !.cl[i].flags = @ \cup {"after"}]
  ELSE AddReply(IF st.cl[j].open THEN FreeClient(st, j) ELSE st, i, 1)

UnblockOther(st, i, j) ==
  IF "blocked" \in st.cl[j].flags THEN AddReply(UnblockClient(AddReply(st, j, 1), j), i, 1) ELSE AddReply(st, i, 1)

WithFlags(st, i, add, del) == [st EXCEPT !.cl[i].flags = (@ \cup add) \ del]

ClientReply(st, i, mode) ==
  CASE mode = "on" -> AddReply(WithFlags(st, i, {}, {"skip", "off"}), i, 1)
    [] mode = "off" -> WithFlags(st, i, {"off"}, {})
    [] mode = "skip" -> IF "off" \in st.cl[i].flags THEN st ELSE WithFlags(st, i, {"skipnext"}, {})

Monitor(st, i) ==
  IF "monitor" \in st.cl[i].flags THEN st
  ELSE AddReply([WithFlags(st, i, {"monitor"}, {}) EXCEPT !.monitors = Append(@, i)], i, 1)

InPubSub == {"subscribe", "unsubscribe", "psubscribe", "punsubscribe"}
Admin == {"reply", "kill", "monitor"}

Proc(st, i, cmd) ==
  CASE cmd.name = "get" -> AddReplies(st, i, cmd.pieces)
    [] cmd.name = "channels" -> AddCounted(st, i, Repeat(1, cmd.n))
    [] cmd.name = "subscribe" -> Subscribed(AddReplies(SubscribeTo(st, i, cmd.ch), i, Message), i)
    [] cmd.name = "unsubscribe" -> PubSubFlag(AddReplies(UnsubAll(st, i, st.cl[i].subs), i, Message), i)
    [] cmd.name = "psubscribe" -> Subscribed(AddReplies(PSubscribeTo(st, i, cmd.ch), i, Message), i)
    [] cmd.name = "punsubscribe" -> PubSubFlag(AddReplies(PUnsubAll(st, i, st.cl[i].pats), i, Message), i)
    [] cmd.name = "publish" -> AddReply(Publish(st, cmd.ch), i, 1)
    [] cmd.name = "reply" -> ClientReply(st, i, cmd.mode)
    [] cmd.name = "kill" -> Kill(st, i, cmd.who)
    [] cmd.name = "unblock" -> UnblockOther(st, i, cmd.who)
    [] cmd.name = "block" -> WithFlags(st, i, {"blocked"}, {})
    [] cmd.name = "monitor" -> Monitor(st, i)
    [] cmd.name = "slow" -> [WithFlags(st, i, {"protected"}, {}) EXCEPT !.cl[i].handler = FALSE]

\* processCommand: a subscriber may only subscribe, and a script that is too slow
\* makes every other command fail
Process(st, i, cmd) ==
  IF "pubsub" \in st.cl[i].flags /\ cmd.name \notin InPubSub THEN AddReply(st, i, 1)
  ELSE IF \E j \in Ids : "protected" \in st.cl[j].flags THEN AddReply(st, i, 1)
  ELSE Proc(IF cmd.name \in Admin THEN st ELSE FeedMonitors(st, st.monitors), i, cmd)

Readable(i) == s.cl[i].open /\ s.cl[i].flags \cap {"protected", "blocked", "asap", "after"} = {}

Call(i) == Readable(i) /\ \E cmd \in s.sc.cmds :
  /\ s.steps < s.sc.steps
  /\ s' = ResetClient(Process([s EXCEPT !.steps = @ + 1], i, cmd), i)

\* QUIT is no command of the table: no resetClient follows
Quit(i) == Readable(i) /\ s.sc.quit
  /\ s' = LET st == AddReply(s, i, 1) IN [st EXCEPT !.cl[i].flags = @ \cup {"after"}]

-----------------------------------------------------------------------------
(* Events of the loop.                                                      *)

Accept(i) == ~s.cl[i].open /\ s.accepts > 0 /\ s' = [s EXCEPT !.cl[i] = Fresh, !.accepts = @ - 1]

\* The other side is gone, or was silent too long (clientsCronHandleTimeout)
Hangup(i) == s.cl[i].open /\ "protected" \notin s.cl[i].flags /\ s.sc.hangup /\ s' = FreeClient(s, i)

\* clientsCronHandleTimeout for a blocked client
BlockTimeout(i) == "blocked" \in s.cl[i].flags /\ s' = UnblockClient(AddReply(s, i, 1), i)

\* disconnectAllBlockedClients, when the server becomes a replica
DisconnectBlocked(i) == "blocked" \in s.cl[i].flags /\ s.sc.demote
  /\ s' = LET st == UnblockClient(AddReply(s, i, 1), i) IN [st EXCEPT !.cl[i].flags = @ \cup {"after"}]

\* processUnblockedClients
ProcessUnblocked ==
  /\ s.unblocked # <<>>
  /\ s' = [s EXCEPT !.unblocked = <<>>,
                    !.cl = [i \in Ids |-> [s.cl[i] EXCEPT !.flags = @ \ (IF i \in Members(s.unblocked) THEN {"unblocked"} ELSE {})]]]

\* freeClientsInAsyncFreeQueue, from serverCron: not while a client is protected
RECURSIVE FreeQueue(_)
FreeQueue(st) ==
  IF st.toClose = <<>> THEN st
  ELSE LET i == st.toClose[1]
           u == FreeClient([st EXCEPT !.cl[i].flags = @ \ {"asap"}], i)
       IN FreeQueue([u EXCEPT !.toClose = RemoveOne(@, i)])
NoneProtected == \A i \in Ids : "protected" \notin s.cl[i].flags
FreeClientsInAsyncFreeQueue == s.toClose # <<>> /\ NoneProtected /\ s' = FreeQueue(s)

\* Mutated: the replies added meanwhile are not scheduled
UnprotectBare(st, i) == [st EXCEPT !.cl[i].flags = @ \ {"protected"}]

\* unprotectClient, when the script is over
Unprotect(st, i) ==
  LET u == [st EXCEPT !.cl[i].flags = @ \ {"protected"}]
  IN IF HasPendingReplies(u.cl[i]) THEN InstallWriteHandler(u, i) ELSE u
Over(i) == "protected" \in s.cl[i].flags /\ s' = AddReply(Unprotect(s, i), i, 1)

Tick == s.sc.soft # 0 /\ s.now < 4 /\ s' = [s EXCEPT !.now = @ + 1]

Init == \E sc \in Scenarios :
  s = [sc |-> sc, cl |-> [i \in 1..sc.clients |-> Closed], pendingWrite |-> <<>>, toClose |-> <<>>, unblocked |-> <<>>,
       monitors |-> <<>>, channels |-> [ch \in {"a", "b"} |-> <<>>], patterns |-> <<>>, steps |-> 0,
       accepts |-> sc.accepts, now |-> 1]

Next == \/ \E i \in Ids : Call(i) \/ Quit(i) \/ SendReply(i) \/ Accept(i) \/ Hangup(i) \/ BlockTimeout(i)
                          \/ DisconnectBlocked(i) \/ Over(i)
        \/ HandlePendingWrites \/ ProcessUnblocked \/ FreeClientsInAsyncFreeQueue \/ Tick

Spec == Init /\ [][Next]_s

-----------------------------------------------------------------------------
RECURSIVE Stored(_), Sizes(_)
Stored(q) == IF q = <<>> THEN <<>> ELSE q[1].data \o Stored(Tail(q))
Sizes(q) == IF q = <<>> THEN 0 ELSE q[1].size + Sizes(Tail(q))

\* What arrives at a client is what it was replied, in that order: with what is
\* still stored it gives the whole, across short writes, the change from the
\* buffer to the blocks and lengths known late (writeToClient,
\* setDeferredMultiBulkLength); the bytes of the blocks are counted right.
RepliesInOrder == \A i \in Ids : LET c == s.cl[i] IN
  /\ c.inOrder /\ c.bytes = Sizes(c.reply)
  /\ LET all == c.buf \o Stored(c.reply) IN SubSeq(all, c.sent + 1, Len(all)) = Bytes(c.got, c.said - c.got)

\* No reply is stranded: a client with replies to send is on the list of pending
\* writes or waits for its socket, unless it is protected or about to be closed;
\* and a client over its hard limit is about to be closed (prepareClientToWrite,
\* unprotectClient, handleClientsWithPendingWrites).
NoneStranded == \A i \in Ids : LET c == s.cl[i] IN
  /\ c.open /\ HasPendingReplies(c) => c.handler \/ "pending" \in c.flags \/ c.flags \cap {"protected", "asap"} # {}
  /\ c.open /\ HardOver(c) => "asap" \in c.flags

Once(q) == Cardinality(Members(q)) = Len(q)
With(f) == {i \in Ids : s.cl[i].open /\ f \in s.cl[i].flags}

\* The lists of the server and the flags of the clients agree, and no list names
\* a client that was freed (unlinkClient, freeClient, pubsub.c).
ListsAgree ==
  /\ \A p \in {<<s.pendingWrite, "pending">>, <<s.toClose, "asap">>, <<s.unblocked, "unblocked">>, <<s.monitors, "monitor">>} :
       Once(p[1]) /\ Members(p[1]) = With(p[2])
  /\ \A ch \in DOMAIN s.channels : Once(s.channels[ch]) /\ Members(s.channels[ch]) = {i \in Ids : ch \in s.cl[i].subs}
  /\ Once(s.patterns) /\ Members(s.patterns) = UNION {{<<i, p>> : p \in Members(s.cl[i].pats)} : i \in Ids}
  /\ \A i \in Ids : "pubsub" \in s.cl[i].flags <=> s.cl[i].subs # {} \/ s.cl[i].pats # <<>>
=============================================================================
