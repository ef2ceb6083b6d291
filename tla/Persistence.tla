----------------------------- MODULE Persistence -----------------------------
(***************************************************************************)
(* Persistence of a Redis server: the append only file (aof.c) with its    *)
(* buffers, fsync policies and background rewrite, the dump (rdb.c) with   *)
(* its background save, the fsync thread of bio.c, and what serverCron,    *)
(* beforeSleep, prepareForShutdown and loadDataFromDisk do with them.      *)
(*                                                                         *)
(* The data set is the sequence of the writes executed, each with its      *)
(* database.  A file is a sequence of entries: a snapshot, SELECT, a       *)
(* write, MULTI, EXEC; it may end in part of a command.  s.synced entries  *)
(* of the append only file survive a power loss; a process that is killed  *)
(* loses its memory only.                                                  *)
(***************************************************************************)
EXTENDS Integers, Sequences, SequencesExt, FiniteSets

CONSTANTS
    Dbs,
    Configs,    \* [fsync, noFsyncOnRewrite, save, aof, budget]
    None

VARIABLE s

-----------------------------------------------------------------------------
(* Files. *)

Sel(d)  == [op |-> "select", d |-> d]
Wr(n)   == [op |-> "write", n |-> n]
Multi   == [op |-> "multi"]
Exec    == [op |-> "exec"]
Snap(x) == [op |-> "snapshot", data |-> x]

\* The part of a command that a write or a stop of the machine ended in
Torn == [op |-> "torn"]

IsTorn(file) == file # <<>> /\ Last(file) = Torn

\* The commands of a file that are complete
Whole(file) == IF IsTorn(file) THEN Front(file) ELSE file

\* What a command does: a nested MULTI is refused
Run(st, e) ==
    CASE e.op = "snapshot" -> [st EXCEPT !.data = e.data]
      [] e.op = "select" -> [st EXCEPT !.db = e.d]
      [] e.op = "write" -> [st EXCEPT !.data = Append(@, <<st.db, e.n>>)]
      [] e.op = "multi" -> [st EXCEPT !.open = TRUE]
      [] e.op = "exec" -> [st EXCEPT !.open = FALSE]

\* Mutant: the commands of a transaction are executed one by one
ObeyAtOnce(st, e) == Run(st, e)

\* Inside MULTI a command is queued, until EXEC
Obey(st, e) ==
    IF st.open /\ e.op # "exec" THEN [st EXCEPT !.queue = Append(@, e)]
    ELSE Run(FoldLeft(Run, [st EXCEPT !.queue = <<>>], st.queue), e)

\* One command of loadAppendOnlyFile.  valid is valid_up_to, which the dump a
\* rewritten file begins with does not move, before is valid_before_multi.
LoadOne(st, e) ==
    [Obey(st, e) EXCEPT !.n = @ + 1,
                        !.valid = IF e.op = "snapshot" THEN @ ELSE st.n + 1,
                        !.before = IF e.op = "multi" THEN st.valid ELSE @]

Loading(file) ==
    FoldLeft(LoadOne, [db |-> 0, data |-> <<>>, queue |-> <<>>, open |-> FALSE,
                       n |-> 0, valid |-> 0, before |-> 0], Whole(file))

Load(file) == Loading(file).data

\* The offset the file is truncated at: after the last complete command when
\* one is torn, before a transaction that is not closed otherwise
ValidUpTo(file) ==
    LET st == Loading(file) IN
    IF IsTorn(file) THEN st.valid ELSE IF st.open THEN st.before ELSE st.n

Truncated(file) == SubSeq(file, 1, ValidUpTo(file))

\* A command torn inside a transaction leaves the MULTI in the truncated file;
\* there it stays when a later one, which is queued, is not closed either.
LeavesMulti(file) == Loading(Truncated(file)).open

\* A command torn right behind the dump of a rewritten file takes it along.
LosesDump(file) == IsTorn(file) /\ Loading(file).valid = 0 /\ Loading(file).n > 0

-----------------------------------------------------------------------------
(* aof.c, the parent. *)

FsyncInProgress(S) == S.fsyncs # <<>>

HasChild(S) == S.rchild # None \/ S.achild # None

\* The end of flushAppendOnlyFile, from the label try_fsync
TryFsync(S, inProgress) ==
    IF S.conf.noFsyncOnRewrite /\ HasChild(S) THEN S
    ELSE IF S.conf.fsync = "always"
      THEN [S EXCEPT !.synced = Len(S.file), !.unsynced = FALSE, !.second = FALSE]
    ELSE IF S.conf.fsync = "everysec" /\ S.second
      THEN IF inProgress THEN [S EXCEPT !.second = FALSE]
           ELSE [S EXCEPT !.fsyncs = Append(@, "current"), !.unsynced = FALSE,
                          !.second = FALSE]
    ELSE S

\* The commands of S.buf that are written when k of them are, and part of the
\* next one if torn.  What is left of a torn command is still in the buffer.
Appended(S, k, torn) ==
    Whole(S.file) \o SubSeq(S.buf, 1, k) \o (IF torn THEN <<Torn>> ELSE <<>>)

\* aofWrite and what follows.  out.res: "ok", "error" (nothing written, or a
\* short write undone), "short" (ftruncate failed).  With "always" the
\* server exits.
WriteBuf(S, out) ==
    LET always == S.conf.fsync = "always"
        T == [S EXCEPT !.postponed = -1]
    IN  CASE out.res = "ok" ->
               TryFsync([T EXCEPT !.file = Appended(S, Len(S.buf), FALSE), !.buf = <<>>,
                                  !.err = FALSE, !.unsynced = TRUE],
                        S.conf.fsync = "everysec" /\ FsyncInProgress(S))
          [] out.res = "error" -> [T EXCEPT !.err = TRUE, !.up = ~always]
          [] out.res = "short" ->
               [T EXCEPT !.err = TRUE, !.up = ~always, !.unsynced = TRUE,
                         !.file = Appended(S, out.k, out.torn),
                         !.buf = SubSeq(@, out.k + 1, Len(@))]

\* Mutant: an empty buffer is never a reason to fsync
FlushForgets(S, force, out) ==
    LET everysec == S.conf.fsync = "everysec"
        wait     == everysec /\ ~force /\ FsyncInProgress(S)
    IN  IF S.buf = <<>> THEN S
        ELSE IF wait /\ S.postponed = -1 THEN [S EXCEPT !.postponed = 0]
        ELSE IF wait /\ S.postponed < 2 THEN S
        ELSE WriteBuf(S, out)

\* flushAppendOnlyFile
Flush(S, force, out) ==
    LET everysec == S.conf.fsync = "everysec"
        wait     == everysec /\ ~force /\ FsyncInProgress(S)
    IN  IF S.buf = <<>>
          THEN IF everysec /\ S.unsynced /\ S.second /\ ~FsyncInProgress(S)
                 THEN TryFsync(S, FALSE) ELSE S
        ELSE IF wait /\ S.postponed = -1 THEN [S EXCEPT !.postponed = 0]
        ELSE IF wait /\ S.postponed < 2 THEN S
        ELSE WriteBuf(S, out)

Out(res, k, torn) == [res |-> res, k |-> k, torn |-> torn]

\* The outcomes of a write, bounded by the failures left.  There is no
\* descriptor to write to when the file is off.
Outcomes(S) ==
    LET short == {Out("short", k, torn) : k \in 0..(Len(S.buf) - 1), torn \in BOOLEAN}
                   \ {Out("short", 0, FALSE)}
    IN  IF S.buf # <<>> /\ S.state = "off" THEN {Out("error", 0, FALSE)}
        ELSE {Out("ok", 0, FALSE)}
               \cup IF S.buf # <<>> /\ S.budget.fails > 0
                      THEN {Out("error", 0, FALSE)} \cup short ELSE {}

Charge(S, out) ==
    IF out.res = "ok" \/ S.budget.fails = 0 THEN S ELSE [S EXCEPT !.budget.fails = @ - 1]

\* feedAppendOnlyFile, called by propagate unless the file is off
Feed(S, d, entries) ==
    LET e == (IF d = S.sel THEN <<>> ELSE <<Sel(d)>>) \o entries
    IN  IF S.state = "off" THEN S
        ELSE [S EXCEPT !.sel = d,
                       !.buf  = IF S.state = "on" THEN @ \o e ELSE @,
                       !.rbuf = IF S.achild # None THEN @ \o e ELSE @]

\* Mutant: the child's diff starts in the database selected last
RewriteBgKeepsDb(S) ==
    [S EXCEPT !.achild = [file |-> <<Snap(S.data)>>, phase |-> "dump"],
              !.sched = FALSE, !.stop = FALSE]

\* rewriteAppendOnlyFileBackground without a child, fork succeeding
RewriteBg(S) ==
    [S EXCEPT !.achild = [file |-> <<Snap(S.data)>>, phase |-> "dump"],
              !.sched = FALSE, !.stop = FALSE, !.sel = -1]

\* killAppendOnlyChild, and the end of a rewrite
DropChild(S) == [S EXCEPT !.achild = None, !.rbuf = <<>>, !.pipe = <<>>]

\* startAppendOnly: the file counts from the next rewrite that succeeds
StartAppendOnly(S) ==
    [IF S.rchild # None THEN [S EXCEPT !.sched = TRUE] ELSE RewriteBg(DropChild(S))
       EXCEPT !.state = "wait", !.second = FALSE]

\* stopAppendOnly
StopAppendOnly(S, out) ==
    LET T == Flush(S, TRUE, out)
    IN  IF ~T.up THEN T
        ELSE DropChild([T EXCEPT !.synced = Len(Whole(T.file)), !.sel = -1, !.state = "off"])

\* backgroundRewriteDoneHandler when the child and the writes succeed
Switch(S) ==
    LET new == S.achild.file \o S.rbuf
        old == [i \in DOMAIN S.fsyncs |-> "old"]
        T   == [S EXCEPT !.file = new, !.synced = Len(S.achild.file), !.damaged = FALSE]
    IN  IF S.state = "off" THEN T
        ELSE [T EXCEPT !.sel = -1, !.buf = <<>>, !.unsynced = FALSE, !.state = "on",
                       !.synced = IF S.conf.fsync = "always" THEN Len(new) ELSE @,
                       !.fsyncs = IF S.conf.fsync = "everysec"
                                    THEN Append(old, "current") ELSE old]

\* Its cleanup
RewriteDone(S) == DropChild([S EXCEPT !.sched = @ \/ S.state = "wait"])

-----------------------------------------------------------------------------
(* rdb.c. *)

\* rdbSave in the server's process
RdbSave(S, ok) ==
    IF ok THEN [S EXCEPT !.rdb = S.data, !.rdbAt = S.changes, !.dirty = 0, !.bgerr = FALSE]
    ELSE S

\* rdbSaveBackground without a child
RdbSaveBackground(S) ==
    [S EXCEPT !.rchild = [data |-> S.data, at |-> S.changes, phase |-> "run"],
              !.before = S.dirty]

\* SIGUSR1 reaches a child that is still running
KillRdb(S) ==
    IF S.rchild # None /\ S.rchild.phase = "run"
      THEN [S EXCEPT !.rchild.phase = "killed"] ELSE S

KillAof(S) ==
    IF S.achild # None /\ S.achild.phase \notin {"ok", "failed"}
      THEN [S EXCEPT !.achild.phase = "failed"] ELSE S

\* Mutant: a dump covers everything that was written until it is done
SaveDoneForgets(S) ==
    CASE S.rchild.phase = "ok" -> [S EXCEPT !.dirty = 0, !.bgerr = FALSE, !.rchild = None]
      [] S.rchild.phase = "failed" -> [S EXCEPT !.bgerr = TRUE, !.rchild = None]
      [] S.rchild.phase = "killed" -> [S EXCEPT !.rchild = None]

\* backgroundSaveDoneHandlerDisk
SaveDone(S) ==
    CASE S.rchild.phase = "ok" -> [S EXCEPT !.dirty = @ - S.before, !.bgerr = FALSE,
                                            !.rchild = None]
      [] S.rchild.phase = "failed" -> [S EXCEPT !.bgerr = TRUE, !.rchild = None]
      [] S.rchild.phase = "killed" -> [S EXCEPT !.rchild = None]

-----------------------------------------------------------------------------
(* The server. *)

\* writeCommandsDeniedByDiskError
Denied(S) == (S.conf.save /\ S.bgerr) \/ (S.state # "off" /\ S.err)

Spend(what) == s.up /\ s.budget[what] > 0

Spent(S, what) == [S EXCEPT !.budget[what] = @ - 1]

\* A write of one client, or two of them in a transaction
Executed(S, d, n) ==
    [S EXCEPT !.data = @ \o [i \in 1..n |-> <<d, S.changes + i>>],
              !.changes = @ + n, !.dirty = @ + n, !.pending = TRUE]

Write(d) ==
    /\ Spend("writes") /\ ~Denied(s)
    /\ s' = Spent(Feed(Executed(s, d, 1), d, <<Wr(s.changes + 1)>>), "writes")

Transaction(d) ==
    /\ Spend("transactions") /\ ~Denied(s)
    /\ s' = [Spent(Feed(Executed(s, d, 2), d,
                        <<Multi, Wr(s.changes + 1), Wr(s.changes + 2), Exec>>), "transactions")
               EXCEPT !.pairs = @ \cup {<<<<d, s.changes + 1>>, <<d, s.changes + 2>>>>}]

\* flushallCommand.  Only where the append only file is not used: there the
\* data set does not only grow.
FlushAll ==
    /\ Spend("flushes") /\ ~Denied(s)
    /\ \E ok \in BOOLEAN :
         LET T == KillRdb([s EXCEPT !.data = <<>>, !.changes = @ + 1,
                                    !.dirty = @ + Len(s.data)])
             U == IF s.conf.save THEN [RdbSave(T, ok) EXCEPT !.dirty = T.dirty] ELSE T
         IN  s' = Spent([U EXCEPT !.dirty = @ + 1], "flushes")

\* The end of beforeSleep: the buffer is flushed, then the replies leave
BeforeSleep ==
    /\ s.up
    /\ \E out \in Outcomes(s) :
         LET T == Charge(Flush(s, FALSE, out), out)
         IN  s' = IF T.up /\ T.pending
                    THEN [T EXCEPT !.acked = Len(T.data), !.pending = FALSE] ELSE T

\* serverCron: a postponed flush, and a retry after an error
CronFlush ==
    /\ s.up /\ (s.postponed # -1 \/ s.err)
    /\ \E out \in Outcomes(s) : s' = Charge(Flush(s, FALSE, out), out)

\* The clock: a second passes.  Only the policy everysec looks at it.
Tick ==
    /\ s.up /\ s.conf.fsync = "everysec"
    /\ s' = [s EXCEPT !.second = TRUE,
                      !.postponed = IF @ \in {0, 1} THEN @ + 1 ELSE @]

\* bioProcessBackgroundJobs: fsync covers what was written when it starts
BioStart ==
    /\ s.up /\ s.fsyncs # <<>> /\ s.syncing = -1
    /\ s' = [s EXCEPT !.syncing = Len(Whole(s.file))]

BioDone ==
    /\ s.up /\ s.syncing # -1
    /\ s' = [s EXCEPT !.syncing = -1, !.fsyncs = Tail(@),
                      !.synced = IF Head(s.fsyncs) = "current" /\ s.syncing > @
                                   THEN s.syncing ELSE @]

-----------------------------------------------------------------------------
(* Saves and rewrites, and their children. *)

\* bgsaveCommand, and serverCron when a save point is reached
BgSave ==
    /\ Spend("saves") /\ ~HasChild(s)
    /\ s' = Spent(RdbSaveBackground(s), "saves")

\* saveCommand
Save ==
    /\ Spend("saves") /\ s.rchild = None
    /\ \E ok \in BOOLEAN : s' = Spent(RdbSave(s, ok), "saves")

\* The child renames its file over the dump, or fails
RdbChildEnds ==
    /\ s.up /\ s.rchild # None /\ s.rchild.phase = "run"
    /\ \/ s' = [s EXCEPT !.rdb = s.rchild.data, !.rdbAt = s.rchild.at,
                         !.rchild.phase = "ok"]
       \/ s.budget.fails > 0 /\ s' = [s EXCEPT !.rchild.phase = "failed",
                                               !.budget.fails = @ - 1]

RdbChildReaped ==
    /\ s.up /\ s.rchild # None /\ s.rchild.phase # "run"
    /\ s' = SaveDone(s)

\* bgrewriteaofCommand, and the growth of the file noticed by serverCron
BgRewrite ==
    /\ Spend("rewrites") /\ s.achild = None
    /\ s' = Spent(IF s.rchild # None THEN [s EXCEPT !.sched = TRUE] ELSE RewriteBg(s),
                  "rewrites")

\* serverCron starts a scheduled rewrite
CronRewrite ==
    /\ s.up /\ s.sched /\ ~HasChild(s)
    /\ s' = RewriteBg(s)

\* CONFIG SET appendonly
AppendOnlyYes ==
    /\ Spend("toggles") /\ s.state = "off"
    /\ s' = Spent(StartAppendOnly(s), "toggles")

AppendOnlyNo ==
    /\ Spend("toggles") /\ s.state # "off"
    /\ \E out \in Outcomes(s) : s' = Charge(Spent(StopAppendOnly(s, out), "toggles"), out)

\* Mutant: the diff is sent until the child exits
SendDiffAlways ==
    /\ s.up /\ s.achild # None /\ s.rbuf # <<>>
    /\ s' = [s EXCEPT !.pipe = Append(@, Head(s.rbuf)), !.rbuf = Tail(@)]

\* aofChildWriteDiffData
SendDiff ==
    /\ s.up /\ s.achild # None /\ ~s.stop /\ s.rbuf # <<>>
    /\ s' = [s EXCEPT !.pipe = Append(@, Head(s.rbuf)), !.rbuf = Tail(@)]

\* rewriteAppendOnlyFile: the child reads the diff while it writes the data
\* set, asks the parent to stop, and reads the rest when the parent agreed
ReadDiff(S) == [S EXCEPT !.achild.file = @ \o S.pipe, !.pipe = <<>>]

Child(phase) == s.up /\ s.achild # None /\ s.achild.phase = phase

ChildReads == Child("dump") /\ s.pipe # <<>> /\ s' = ReadDiff(s)

ChildAsks == Child("dump") /\ s' = [s EXCEPT !.achild.phase = "asked"]

\* aofChildPipeReadable
ParentAcks == Child("asked") /\ s' = [s EXCEPT !.achild.phase = "acked", !.stop = TRUE]

ChildEnds == Child("acked") /\ s' = [ReadDiff(s) EXCEPT !.achild.phase = "ok"]

\* No answer in time, an I/O error, or a signal
ChildFails ==
    /\ Spend("fails") /\ s.achild # None /\ s.achild.phase \notin {"ok", "failed"}
    /\ s' = Spent([s EXCEPT !.achild.phase = "failed"], "fails")

\* serverCron: backgroundRewriteDoneHandler, whose own write or rename may fail
RewriteReaped ==
    \/ Child("ok") /\ s' = RewriteDone(Switch(s))
    \/ Child("ok") /\ Spend("fails") /\ s' = Spent(RewriteDone(s), "fails")
    \/ Child("failed") /\ s' = RewriteDone(s)

-----------------------------------------------------------------------------
(* Stopping and starting. *)

\* Mutant: an fsync under way postpones the last flush
LastFlushPostponed(S, out) ==
    LET T == Charge(Flush(KillAof(S), FALSE, out), out)
    IN  [T EXCEPT !.synced = Len(Whole(T.file))]

\* The file in prepareForShutdown
LastFlush(S, out) ==
    LET T == Charge(Flush(KillAof(S), TRUE, out), out)
    IN  [T EXCEPT !.synced = Len(Whole(T.file))]

\* prepareForShutdown
Shutdown ==
    /\ Spend("stops")
    /\ \E out \in Outcomes(s), ok \in BOOLEAN :
         LET T == KillRdb(s)
             U == IF T.state = "off" THEN T ELSE LastFlush(T, out)
             R == IF U.conf.save /\ U.up THEN RdbSave(U, ok) ELSE U
         IN  s' = Spent(IF T.state = "wait" /\ T.achild # None THEN T
                        ELSE IF U.conf.save /\ U.up /\ ~ok THEN R
                        ELSE [R EXCEPT !.up = FALSE, !.clean = U.up], "stops")

\* The process is killed: what was written is in the file
Killed == Spend("stops") /\ s' = Spent([s EXCEPT !.up = FALSE], "stops")

\* The machine stops, maybe while the buffer is written: what was not synced
\* may be missing, from any byte on
PowerLoss ==
    /\ Spend("stops")
    /\ LET all == Appended(s, IF s.state = "off" THEN 0 ELSE Len(s.buf), FALSE) IN
       \E n \in s.synced..Len(all), torn \in BOOLEAN :
         /\ torn => n < Len(all) \/ Len(all) < Len(s.file)
         /\ s' = Spent([s EXCEPT !.up = FALSE, !.synced = n,
                          !.file = SubSeq(all, 1, n) \o (IF torn THEN <<Torn>> ELSE <<>>)],
                       "stops")

\* loadAppendOnlyFile.  A transaction whose commands a stop has torn is no
\* longer among those that are promised to be whole.
Reloaded(S) ==
    LET file   == Truncated(S.file)
        queued == Loading(file).queue
        cut    == {p \in S.pairs :
                     Contains(queued, Wr(p[1][2])) /\ ~Contains(queued, Wr(p[2][2]))}
    IN  [S EXCEPT !.data = Load(S.file), !.file = file, !.pairs = @ \ cut,
                  !.damaged = LeavesMulti(S.file) \/ LosesDump(S.file)]

\* loadDataFromDisk, from the file the configuration names
Restart ==
    /\ ~s.up
    /\ LET aof == s.state # "off"
           T   == IF aof THEN Reloaded(s) ELSE [s EXCEPT !.data = s.rdb, !.rdbAt = s.changes]
       IN  s' = [T EXCEPT !.up = TRUE, !.clean = FALSE,
                   !.synced = IF @ > Len(T.file) THEN Len(T.file) ELSE @,
                   !.state = IF aof THEN "on" ELSE "off", !.buf = <<>>, !.sel = -1,
                   !.err = FALSE, !.bgerr = FALSE, !.postponed = -1, !.unsynced = FALSE,
                   !.second = FALSE, !.sched = FALSE, !.rbuf = <<>>, !.pipe = <<>>,
                   !.achild = None, !.rchild = None, !.fsyncs = <<>>, !.syncing = -1,
                   !.pending = FALSE, !.dirty = 0,
                   !.acked = IF @ > Len(T.data) THEN Len(T.data) ELSE @]

Init ==
    \E c \in Configs :
        s = [conf |-> c, up |-> TRUE, clean |-> FALSE, data |-> <<>>, changes |-> 0,
             pending |-> FALSE, acked |-> 0, pairs |-> {}, budget |-> c.budget,
             state |-> IF c.aof THEN "on" ELSE "off", buf |-> <<>>, sel |-> -1,
             err |-> FALSE, postponed |-> -1, unsynced |-> FALSE, second |-> FALSE,
             sched |-> FALSE, rbuf |-> <<>>, pipe |-> <<>>, stop |-> FALSE,
             achild |-> None, file |-> <<>>, synced |-> 0, fsyncs |-> <<>>, syncing |-> -1,
             rdb |-> <<>>, rdbAt |-> 0, dirty |-> 0, before |-> 0, bgerr |-> FALSE,
             rchild |-> None, damaged |-> FALSE]

Next ==
    \/ \E d \in Dbs : Write(d) \/ Transaction(d)
    \/ FlushAll \/ BeforeSleep \/ CronFlush \/ Tick \/ BioStart \/ BioDone
    \/ BgSave \/ Save \/ RdbChildEnds \/ RdbChildReaped
    \/ BgRewrite \/ CronRewrite \/ AppendOnlyYes \/ AppendOnlyNo
    \/ SendDiff \/ ChildReads \/ ChildAsks \/ ParentAcks \/ ChildEnds
    \/ ChildFails \/ RewriteReaped
    \/ Shutdown \/ Killed \/ PowerLoss \/ Restart

Spec == Init /\ [][Next]_s

\* The event loop runs, time passes, the fsync thread runs and children end
Fairness ==
    /\ WF_s(BeforeSleep) /\ WF_s(CronFlush) /\ WF_s(Tick)
    /\ WF_s(BioStart) /\ WF_s(BioDone)
    /\ WF_s(ParentAcks) /\ WF_s(ChildAsks) /\ WF_s(ChildEnds) /\ WF_s(RewriteReaped)
    /\ WF_s(RdbChildEnds) /\ WF_s(RdbChildReaped)

-----------------------------------------------------------------------------
(* Properties. *)

\* While the append only file is on, the file and the buffer not yet written
\* give the data set, each write in its database, whatever rewrite ended
\* before and wherever a write or the machine stopped: the diff collected for
\* the child misses nothing, and a file cut anywhere is truncated to what was
\* loaded (aof.c).  Not after a load that found a torn command inside a
\* transaction, or right behind the dump of a rewritten file, until the next
\* rewrite: valid_up_to is then behind an open MULTI, or before the dump.
AofComplete ==
    s.up /\ s.state = "on" /\ ~s.damaged => Load(Whole(s.file) \o s.buf) = s.data

\* With appendfsync always no write a client was answered is lost by a power
\* loss, rewrites included (aof.c, flushAppendOnlyFile: "we have the contract
\* with the user that on acknowledged write data is synced on disk").
AckContract ==
    s.conf.fsync = "always" /\ ~s.conf.noFsyncOnRewrite /\ s.state = "on" =>
        Len(Load(SubSeq(s.file, 1, s.synced))) >= s.acked

\* The code keeps that contract except with a file that a load has damaged, as
\* in AofComplete: that file loses answered writes at the next load.
AckDurable == ~s.damaged => AckContract

\* A transaction is in the data set as a whole or not at all, also after the
\* end of the file was lost (aof.c, loadAppendOnlyFile), unless a stop tore one
\* of its own commands: the part before it is executed by the EXEC of a later
\* transaction.
TransactionsWhole ==
    s.up => \A p \in s.pairs : Contains(s.data, p[1]) <=> Contains(s.data, p[2])

\* server.dirty counts at least the changes that are not in the dump, so no
\* save point is missed (rdb.c, backgroundSaveDoneHandlerDisk and rdbSave;
\* db.c, flushallCommand).
DirtyBounds == s.up /\ s.state = "off" => s.changes - s.rdbAt <= s.dirty

\* A server that was shut down loses nothing: the file it will load has the
\* whole data set, unless the last write to the file failed or the file was
\* damaged when it was loaded (server.c, prepareForShutdown).
ShutdownKeeps ==
    s.clean /\ ~s.err /\ ~s.damaged => CASE s.state = "on" -> Load(s.file) = s.data
                           [] s.state = "off" -> s.conf.save => s.rdb = s.data
                           [] OTHER -> TRUE

\* With appendfsync everysec what a process wrote reaches the disk, also when
\* no other write follows (aof.c, flushAppendOnlyFile).  What a process that
\* was killed wrote is synced with the next write only.
EventuallySynced ==
    s.up /\ s.conf.fsync = "everysec" /\ s.conf.budget.stops = 0 /\ s.state = "on"
      ~> \/ ~s.up \/ s.state # "on"
         \/ s.buf = <<>> /\ s.synced = Len(s.file)
=============================================================================
