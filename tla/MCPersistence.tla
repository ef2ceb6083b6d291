--------------------------- MODULE MCPersistence ---------------------------
(* The configurations that are checked, each with its own bounds. *)

Budget(w, t, fl, sv, rw, tg, fa, st) ==
    [writes |-> w, transactions |-> t, flushes |-> fl, saves |-> sv, rewrites |-> rw,
     toggles |-> tg, fails |-> fa, stops |-> st]

Config(fsync, no, save, aof, budget) ==
    [fsync |-> fsync, noFsyncOnRewrite |-> no, save |-> save, aof |-> aof, budget |-> budget]

Always   == Config("always", FALSE, FALSE, TRUE, Budget(2, 0, 0, 0, 1, 0, 1, 1))
Cut      == Config("always", FALSE, FALSE, TRUE, Budget(1, 1, 0, 0, 0, 0, 1, 2))
Lost     == Config("no", FALSE, FALSE, TRUE, Budget(0, 2, 0, 0, 0, 0, 0, 2))
Second   == Config("everysec", FALSE, FALSE, TRUE, Budget(2, 0, 0, 0, 1, 0, 0, 0))
Failing  == Config("everysec", FALSE, FALSE, TRUE, Budget(2, 0, 0, 0, 0, 0, 1, 0))
Quiet    == Config("everysec", TRUE, FALSE, TRUE, Budget(2, 0, 0, 1, 0, 0, 0, 0))
Stopped  == Config("everysec", FALSE, FALSE, TRUE, Budget(2, 0, 0, 0, 0, 0, 1, 1))
Dump     == Config("no", FALSE, TRUE, FALSE, Budget(2, 0, 1, 2, 0, 0, 1, 1))
Toggled  == Config("no", FALSE, FALSE, FALSE, Budget(2, 0, 0, 1, 1, 2, 0, 0))

All == {Stopped, Always, Cut, Lost, Second, Failing, Quiet, Dump, Toggled}
=============================================================================
