------------------------------- MODULE Events -------------------------------
(* The event loop (ae.c, ae_epoll.c): file events whose handlers add and      *)
(* delete events, close connections and open others on the same descriptor    *)
(* while a batch of fired events is served, and time events under a clock     *)
(* that may be set back.                                                      *)
(*                                                                           *)
(* s.ev[fd] is [mask, rp, wp, cl]: the events, their handlers, and the client  *)
(* they are for.  s.conn[fd] is the client whose connection fd is now.        *)
EXTENDS Integers, Sequences, FiniteSets, FiniteSetsExt

CONSTANTS SetSize,    \* eventLoop->setsize
          Unit,       \* milliseconds of a second
          MaxClients, \* bound on connections ever made
          MaxTimers,  \* bound on timers ever made
          MaxClock,   \* bound on the clock
          Scenarios

VARIABLE s

Fds == 0..SetSize - 1
NoEvent == [mask |-> {}, rp |-> "none", wp |-> "none", cl |-> 0]

-----------------------------------------------------------------------------
(* File events.                                                              *)

\* epoll_ctl: an event set, or Off for a descriptor the kernel does not watch
Off == {"off"}
Interest(mask) == mask \cap {"r", "w"}
ApiAdd(z, fd, mask) ==
  IF (z.api[fd] = Off) # (z.ev[fd].mask = {}) THEN [z EXCEPT !.ok = FALSE]
  ELSE [z EXCEPT !.api[fd] = Interest(mask \cup z.ev[fd].mask)]
ApiDel(z, fd, mask) == LET rest == z.ev[fd].mask \ mask
                       IN [z EXCEPT !.api[fd] = IF rest # {} THEN Interest(rest) ELSE Off]

CreateFileEvent(z, fd, mask, proc, cl) ==
  LET y == ApiAdd(z, fd, mask)
  IN IF ~y.ok THEN y
     ELSE [y EXCEPT !.maxfd = IF fd > @ THEN fd ELSE @,
                    !.ev[fd] = [mask |-> @.mask \cup mask, cl |-> cl,
                                rp |-> IF "r" \in mask THEN proc ELSE @.rp, wp |-> IF "w" \in mask THEN proc ELSE @.wp]]

\* Mutated: the highest descriptor is taken for the one below
LowerMaxNext(z, fd) == IF fd = z.maxfd /\ z.ev[fd].mask = {} THEN [z EXCEPT !.maxfd = @ - 1] ELSE z

LowerMax(z, fd) == IF fd = z.maxfd /\ z.ev[fd].mask = {}
                   THEN [z EXCEPT !.maxfd = Max({-1} \cup {f \in Fds : f < fd /\ z.ev[f].mask # {}})] ELSE z

\* A barrier goes with the writable event
DeleteFileEvent(z, fd, mask) ==
  LET all == mask \cup (IF "w" \in mask THEN {"b"} ELSE {})
  IN IF z.ev[fd].mask = {} THEN z ELSE LowerMax([ApiDel(z, fd, all) EXCEPT !.ev[fd].mask = @ \ all], fd)

\* What handlers do: close a connection, as freeClient does, open one on the
\* lowest free descriptor, begin and end to wait for a descriptor
Close(z, fd) == [DeleteFileEvent(DeleteFileEvent(z, fd, {"r"}), fd, {"w"}) EXCEPT !.conn[fd] = 0]
Free(z) == {fd \in Fds : z.conn[fd] = 0}
Open(z) == IF Free(z) = {} \/ z.opened = MaxClients THEN z
           ELSE LET fd == Min(Free(z)) IN CreateFileEvent([z EXCEPT !.conn[fd] = z.opened + 1, !.opened = @ + 1], fd, {"r"}, "read", z.opened + 1)
Effects(z, fd) ==
  {z, Open(z)} \cup {Close(z, g) : g \in {f \in Fds : z.conn[f] # 0}}
    \cup (IF z.conn[fd] = 0 THEN {}
          ELSE {DeleteFileEvent(z, fd, {"w"}), DeleteFileEvent(z, fd, {"r"}), Open(Close(z, fd)),
                CreateFileEvent(z, fd, {"w"}, "write", z.conn[fd]), CreateFileEvent(z, fd, {"r"}, "read", z.conn[fd]),
                CreateFileEvent(z, fd, {"r", "w"}, "sync", z.conn[fd])})

\* beforeSleep installs writable events, with a barrier if the file of the
\* data must be synced before the reply
BeforeSleep(z) == {z} \cup {CreateFileEvent(z, fd, mask, "write", z.conn[fd]) :
                              fd \in {f \in Fds : z.conn[f] # 0}, mask \in {{"w"}, {"w", "b"}}}

\* aeApiPoll: what is ready of what the kernel watches, in any order; an error
\* of the connection makes it writable
Ready(z, fd) == IF z.api[fd] = Off THEN {{}} ELSE (SUBSET z.api[fd]) \cup {{"w"}}
Orders(S) == Injection(1..Cardinality(S), S)
Poll == /\ s.sc.files /\ s.phase = "top" /\ s.polls > 0
        /\ \E z \in BeforeSleep(s) : \E f \in [Fds -> SUBSET {"r", "w"}] :
             /\ \A fd \in Fds : f[fd] \in Ready(z, fd)
             /\ \E order \in Orders({fd \in Fds : f[fd] # {}}) :
                  s' = [z EXCEPT !.phase = "batch", !.polls = @ - 1, !.fired = [i \in DOMAIN order |-> [fd |-> order[i], mask |-> f[order[i]]]]]

Take == /\ s.phase = "batch"
        /\ s' = IF s.fired = <<>> THEN [s EXCEPT !.phase = "top"]
                ELSE LET e == s.fired[1] IN [s EXCEPT !.phase = "serve", !.fired = Tail(@), !.at = 1, !.calls = <<>>,
                                                      !.now = [fd |-> e.fd, mask |-> e.mask, invert |-> "b" \in s.ev[e.fd].mask]]

\* Mutated: the writable handler is called if the event was fired
CalledFired(z, kind) == kind \in z.now.mask

\* fe->mask & mask & AE_READABLE (AE_WRITABLE), as it is after the calls before
Called(z, kind) == kind \in z.ev[z.now.fd].mask \cap z.now.mask
SameProc(z) == z.ev[z.now.fd].rp = z.ev[z.now.fd].wp

\* The three calls of a fired event: readable, writable, readable if inverted
Due(z) == CASE z.at = 1 -> ~z.now.invert /\ Called(z, "r")
            [] z.at = 2 -> Called(z, "w") /\ (z.calls = <<>> \/ ~SameProc(z))
            [] z.at = 3 -> z.now.invert /\ Called(z, "r") /\ (z.calls = <<>> \/ ~SameProc(z))
Kind(z) == IF z.at = 2 THEN "w" ELSE "r"
Call(z) == [z EXCEPT !.calls = Append(@, [kind |-> Kind(z), cl |-> z.ev[z.now.fd].cl, barrier |-> "b" \in z.ev[z.now.fd].mask]),
                     !.dead = @ \/ z.conn[z.now.fd] # z.ev[z.now.fd].cl \/ z.conn[z.now.fd] = 0]
Advance(z) == [z EXCEPT !.at = @ + 1, !.phase = IF z.at = 3 THEN "batch" ELSE "serve"]
Serve == s.phase = "serve" /\ IF Due(s) THEN \E z \in Effects(Call(s), s.now.fd) : s' = Advance(z) ELSE s' = Advance(s)

-----------------------------------------------------------------------------
(* Time events: s.timers is the list from its head, of [id, sec, ms].        *)

Deleted == 0
Sec(t) == t \div Unit
Ms(t) == t % Unit

\* aeAddMillisecondsToNow
AddToNow(now, delay) ==
  LET sec == Sec(now) + Sec(delay)  ms == Ms(now) + Ms(delay)
  IN IF ms >= Unit THEN [sec |-> sec + 1, ms |-> ms - Unit] ELSE [sec |-> sec, ms |-> ms]

CreateTimer(z, delay) ==
  IF z.nextId > MaxTimers THEN z
  ELSE LET w == AddToNow(z.clock, delay)
       IN [z EXCEPT !.timers = <<[id |-> z.nextId, sec |-> w.sec, ms |-> w.ms]>> \o @, !.nextId = @ + 1,
                    !.at = IF z.phase = "timers" THEN @ + 1 ELSE @]
DeleteTimer(z, id) == [z EXCEPT !.timers = [i \in DOMAIN @ |-> IF @[i].id = id THEN [@[i] EXCEPT !.id = Deleted] ELSE @[i]],
                                !.cancelled = @ \cup {id}]

\* aeSearchNearestTimer, deleted ones included, and the time to sleep
Earlier(t, u) == t.sec < u.sec \/ (t.sec = u.sec /\ t.ms < u.ms)
Nearest(z) == CHOOSE t \in Range(z.timers) : \A u \in Range(z.timers) : ~Earlier(u, t)
Timeout(z) == IF z.timers = <<>> THEN 1
              ELSE LET ms == (Nearest(z).sec - Sec(z.clock)) * Unit + Nearest(z).ms - Ms(z.clock) IN IF ms > 0 THEN ms ELSE 0

\* processTimeEvents begins: all timers run now if the clock went back
BeginTimers(z) ==
  [z EXCEPT !.phase = "timers", !.at = 1, !.maxId = z.nextId - 1, !.lastTime = Sec(z.clock), !.low = z.clock,
            !.timers = IF Sec(z.clock) < z.lastTime THEN [i \in DOMAIN @ |-> [@[i] EXCEPT !.sec = 0]] ELSE @]
Sleep == /\ ~s.sc.files /\ s.phase = "top" /\ s.polls > 0
         /\ \E d \in 0..Timeout(s) : /\ s.clock + d <= MaxClock
                                     /\ s' = BeginTimers([s EXCEPT !.clock = @ + d, !.polls = @ - 1])

\* Mutated: the milliseconds are compared whatever the seconds are
IsTimeLoose(t, now) == Sec(now) > t.sec \/ Ms(now) >= t.ms

IsTime(t, now) == Sec(now) > t.sec \/ (Sec(now) = t.sec /\ Ms(now) >= t.ms)

\* A handler: makes or deletes a timer, takes some time, and asks to be called
\* again or not
TimerEffects(z) == {z, CreateTimer(z, 1), CreateTimer(z, Unit)} \cup {DeleteTimer(z, id) : id \in {t.id : t \in Range(z.timers)} \ {Deleted}}
After(z, again) == IF again = 0 THEN [z EXCEPT !.timers[z.at].id = Deleted, !.cancelled = @ \cup ({z.timers[z.at].id} \ {Deleted})]
                   ELSE LET w == AddToNow(z.clock, again) IN [z EXCEPT !.timers[z.at].sec = w.sec, !.timers[z.at].ms = w.ms]
Step(z) == [z EXCEPT !.at = @ + 1]
RunTimer(z) ==
  LET t == z.timers[z.at]
      y == [z EXCEPT !.early = @ \/ t.sec * Unit + t.ms > z.clock, !.zombie = @ \/ t.id \in z.cancelled]
  IN \E e \in TimerEffects(y), d \in 0..1, again \in {0, 1, Unit + 1} :
       s' = Step(After([e EXCEPT !.clock = IF @ < MaxClock THEN @ + d ELSE @], again))
Unlinked(q, i) == SubSeq(q, 1, i - 1) \o SubSeq(q, i + 1, Len(q))
Timer ==
  /\ s.phase = "timers"
  /\ IF s.at > Len(s.timers) THEN s' = [s EXCEPT !.phase = "top"]
     ELSE IF s.timers[s.at].id = Deleted THEN s' = [s EXCEPT !.timers = Unlinked(@, s.at), !.finals = @ + 1]
     ELSE IF s.timers[s.at].id > s.maxId THEN s' = Step(s)
     ELSE IF IsTime(s.timers[s.at], s.clock) THEN RunTimer(s)
     ELSE s' = Step(s)

\* The clock is set back, also while timers run: it is read again for each.
\* s.low is the lowest the clock has been since the pass began.
SetBack == /\ s.phase \in {"top", "timers"} /\ s.backs > 0
           /\ \E c \in 0..s.clock - 1 : s' = [s EXCEPT !.clock = c, !.backs = @ - 1, !.low = IF c < @ THEN c ELSE @]

Init == \E sc \in Scenarios :
  LET z == [sc |-> sc, phase |-> "top", polls |-> sc.polls, ev |-> [fd \in Fds |-> NoEvent], api |-> [fd \in Fds |-> Off], maxfd |-> -1,
            conn |-> [fd \in Fds |-> 0], opened |-> 0, ok |-> TRUE, dead |-> FALSE, fired |-> <<>>, at |-> 0, calls |-> <<>>,
            now |-> [fd |-> 0, mask |-> {}, invert |-> FALSE], timers |-> <<>>, nextId |-> 1, maxId |-> 0, clock |-> 0, lastTime |-> 0,
            low |-> 0, backs |-> sc.backs, early |-> FALSE, zombie |-> FALSE, cancelled |-> {}, finals |-> 0]
  IN s = IF sc.files THEN Open(Open(z)) ELSE CreateTimer(CreateTimer(z, 1), Unit)
Next == Poll \/ Take \/ Serve \/ Sleep \/ Timer \/ SetBack
Spec == Init /\ [][Next]_s

-----------------------------------------------------------------------------
\* There is a descriptor, and a second has milliseconds.
Deployable == SetSize \in Nat \ {0} /\ Unit \in Nat \ {0}

\* The kernel watches what the table of events says and aeCreateFileEvent never
\* fails, and maxfd is the highest descriptor with an event
\* (aeCreateFileEvent, aeDeleteFileEvent, aeApiAddEvent, aeApiDelEvent).
TableSound ==
  /\ s.ok /\ s.maxfd = Max({-1} \cup {fd \in Fds : s.ev[fd].mask # {}})
  /\ \A fd \in Fds : s.api[fd] = IF s.ev[fd].mask = {} THEN Off ELSE Interest(s.ev[fd].mask)

\* No handler runs for a connection that an earlier handler of the same batch
\* closed; a barrier puts the reply before the next request (aeProcessEvents).
HandlersSound ==
  /\ ~s.dead
  /\ Len(s.calls) = 2 /\ s.calls[1].cl = s.calls[2].cl => (s.calls[2].barrier => s.calls[1].kind = "w")

\* No timer runs before the time it is set to, which is the epoch for all of
\* them once the clock is found to have gone back, or after it was deleted; it
\* is finalised once; when a pass ends no timer of before it was due throughout,
\* by the lowest time the clock showed since it began (processTimeEvents).
TimersSound ==
  /\ ~s.early /\ ~s.zombie
  /\ s.finals + Len(s.timers) = s.nextId - 1
  /\ s.phase = "timers" /\ s.at > Len(s.timers) =>
       \A i \in DOMAIN s.timers : LET t == s.timers[i] IN t.id # Deleted /\ t.id <= s.maxId => t.sec * Unit + t.ms > s.low
=============================================================================
