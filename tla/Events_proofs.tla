---------------------------- MODULE Events_proofs ----------------------------
(***************************************************************************)
(* Proofs about the event loop (ae.c), for any number of descriptors,      *)
(* connections, timers and rounds of the loop, whatever the handlers do    *)
(* and however the clock is set back.                                      *)
(***************************************************************************)
EXTENDS Events, TLAPS, FiniteSetTheorems, SequenceTheorems

-----------------------------------------------------------------------------
(* What holds of the loop. *)

\* z has the fields of the event loop.
Shaped(z) ==
  z \in [sc : {z.sc}, phase : {z.phase}, polls : {z.polls}, ev : {z.ev}, api : {z.api},
         maxfd : {z.maxfd}, conn : {z.conn}, opened : {z.opened}, ok : {z.ok},
         dead : {z.dead}, fired : {z.fired}, at : {z.at}, calls : {z.calls},
         now : {z.now}, timers : {z.timers}, nextId : {z.nextId}, maxId : {z.maxId},
         clock : {z.clock}, lastTime : {z.lastTime}, low : {z.low},
         backs : {z.backs}, early : {z.early}, zombie : {z.zombie},
         cancelled : {z.cancelled}, finals : {z.finals}]

Event == [mask : SUBSET {"r", "w", "b"}, rp : {"none", "read", "write", "sync"},
          wp : {"none", "read", "write", "sync"}, cl : Nat]

Watched(ev) == {fd \in Fds : ev[fd].mask # {}}

\* An event is for the client whose connection its descriptor is.
Owned(z) ==
  \A fd \in Fds : z.ev[fd].mask # {} => z.conn[fd] # 0 /\ z.ev[fd].cl = z.conn[fd]

Kernel(z) ==
  \A fd \in Fds : z.api[fd] = IF z.ev[fd].mask = {} THEN Off ELSE Interest(z.ev[fd].mask)

Files(z) ==
  /\ Shaped(z)
  /\ z.ev \in [Fds -> Event] /\ z.api \in [Fds -> SUBSET {"off", "r", "w"}]
  /\ z.conn \in [Fds -> Nat] /\ z.opened \in Nat
  /\ z.ok = TRUE /\ z.maxfd = Max({-1} \cup Watched(z.ev))
  /\ Kernel(z) /\ Owned(z)

\* y differs from z in nothing but the table of events.
Rest(z, y) ==
  /\ y.phase = z.phase /\ y.dead = z.dead /\ y.fired = z.fired /\ y.at = z.at
  /\ y.calls = z.calls /\ y.now = z.now /\ y.timers = z.timers /\ y.nextId = z.nextId
  /\ y.maxId = z.maxId /\ y.clock = z.clock /\ y.low = z.low
  /\ y.early = z.early /\ y.zombie = z.zombie
  /\ y.cancelled = z.cancelled /\ y.finals = z.finals

NoNewBarrier(z, y) ==
  \A fd \in Fds : "b" \notin z.ev[fd].mask => "b" \notin y.ev[fd].mask

\* y is z after calls that add and delete events, none with a barrier.
Served(z, y) == Files(y) /\ Rest(z, y) /\ NoNewBarrier(z, y)

-----------------------------------------------------------------------------
(* The highest and the lowest descriptor of a set. *)

LEMMA MaxIs ==
  ASSUME NEW T \in SUBSET Int, NEW m \in T, \A x \in T : x <= m
  PROVE  Max(T) = m
<1>1. \A x \in T : (\A y \in T : x >= y) => x = m
  OBVIOUS
<1>2. \A y \in T : m >= y
  OBVIOUS
<1> QED BY Zenon, <1>1, <1>2 DEF Max

LEMMA LeastExists ==
  ASSUME NEW T \in SUBSET Nat, T # {}
  PROVE  \E u \in T : \A y \in T : u <= y
<1> DEFINE R == {p \in Nat \X Nat : p[1] < p[2]}
<1>1. IsWellFoundedOn(R, Nat)
  BY NatLessThanWellFounded, Zenon DEF OpToRel
<1>2. PICK u \in T : \A y \in T : ~(<<y, u>> \in R)
  BY <1>1, WFMin, Zenon
<1>3. \A x, y \in Nat : x < y => <<x, y>> \in R
  OBVIOUS
<1> HIDE DEF R
<1>4. ASSUME NEW y \in T PROVE u <= y
  <2>1. y \in Nat /\ u \in Nat
    OBVIOUS
  <2>2. ~(y < u)
    BY <1>2, <1>3, <2>1, Zenon
  <2> QED BY <2>1, <2>2
<1> QED BY <1>4

LEMMA MaxExists ==
  ASSUME NEW n \in Nat, NEW T \in SUBSET (-1..n), T # {}
  PROVE  Max(T) \in T /\ \A y \in T : Max(T) >= y
<1> DEFINE U == {n - x : x \in T}
<1>1. \A x \in T : x \in Int /\ n - x \in Nat
  OBVIOUS
<1>2. U \in SUBSET Nat /\ U # {} /\ \A x \in T : n - x \in U
  BY Zenon, <1>1
<1>3. PICK u \in U : \A y \in U : u <= y
  BY Zenon, <1>2, LeastExists
<1>4. PICK m \in T : u = n - m
  BY <1>3
<1> HIDE DEF U
<1>5. \A y \in T : m >= y
  BY <1>1, <1>2, <1>3, <1>4
<1> QED BY Zenon, <1>5 DEF Max

LEMMA MinExists ==
  ASSUME NEW T \in SUBSET Nat, T # {}
  PROVE  Min(T) \in T
BY Zenon, LeastExists DEF Min

IsTop(m, T) == T \in SUBSET Int /\ m \in T /\ \A fd \in T : m >= fd

LEMMA TopExists ==
  ASSUME Deployable, NEW ev
  PROVE  IsTop(Max({-1} \cup Watched(ev)), {-1} \cup Watched(ev))
<1> DEFINE T == {-1} \cup Watched(ev)
<1>1. SetSize - 1 \in Nat /\ T \in SUBSET (-1..SetSize - 1) /\ T # {}
  BY DEF Deployable, Watched, Fds
<1> HIDE DEF T
<1>2. Max(T) \in T /\ \A y \in T : Max(T) >= y
  BY Zenon, <1>1, MaxExists
<1>3. T \in SUBSET Int
  BY <1>1
<1> QED BY <1>2, <1>3 DEF T, IsTop

-----------------------------------------------------------------------------
(* File events. *)

\* The kernel watches a descriptor exactly if it has events, so adding one
\* never fails.
LEMMA CreateKeeps ==
  ASSUME Deployable, NEW z, Files(z), NEW fd \in Fds, NEW cl, cl = z.conn[fd], cl # 0,
         NEW mask \in SUBSET {"r", "w", "b"}, mask # {},
         NEW proc \in {"read", "write", "sync"}
  PROVE  LET y == CreateFileEvent(z, fd, mask, proc, cl)
         IN  /\ Files(y) /\ Rest(z, y) /\ y.conn = z.conn
             /\ "b" \notin mask => NoNewBarrier(z, y)
<1> DEFINE y == CreateFileEvent(z, fd, mask, proc, cl)
           e == [mask |-> z.ev[fd].mask \cup mask, cl |-> cl,
                 rp |-> IF "r" \in mask THEN proc ELSE z.ev[fd].rp,
                 wp |-> IF "w" \in mask THEN proc ELSE z.ev[fd].wp]
<1>1. ApiAdd(z, fd, mask) = [z EXCEPT !.api[fd] = Interest(mask \cup z.ev[fd].mask)]
  <2>1. (z.api[fd] = Off) <=> (z.ev[fd].mask = {})
    BY Zenon DEF Files, Kernel, Off, Interest
  <2> QED BY <2>1 DEF ApiAdd
<1>2. /\ Shaped(y) /\ Rest(z, y) /\ y.conn = z.conn /\ y.opened = z.opened /\ y.ok = TRUE
      /\ y.ev = [z.ev EXCEPT ![fd] = e]
      /\ y.api = [z.api EXCEPT ![fd] = Interest(mask \cup z.ev[fd].mask)]
      /\ y.maxfd = IF fd > z.maxfd THEN fd ELSE z.maxfd
  <2> DEFINE x == ApiAdd(z, fd, mask)
  <2>1. /\ Shaped(x) /\ Rest(z, x) /\ x.conn = z.conn /\ x.opened = z.opened /\ x.ok = TRUE
        /\ x.ev = z.ev /\ x.maxfd = z.maxfd
        /\ x.api = [z.api EXCEPT ![fd] = Interest(mask \cup z.ev[fd].mask)]
    BY <1>1 DEF Files, Shaped, Rest
  <2>2. y = [x EXCEPT !.maxfd = IF fd > x.maxfd THEN fd ELSE x.maxfd,
                      !.ev[fd] = [mask |-> x.ev[fd].mask \cup mask, cl |-> cl,
                                  rp |-> IF "r" \in mask THEN proc ELSE x.ev[fd].rp,
                                  wp |-> IF "w" \in mask THEN proc ELSE x.ev[fd].wp]]
    BY <2>1 DEF CreateFileEvent
  <2> HIDE DEF x, y
  <2>3. y = [x EXCEPT !.maxfd = IF fd > z.maxfd THEN fd ELSE z.maxfd, !.ev[fd] = e]
    BY <2>1, <2>2
  <2> HIDE DEF e
  <2> QED BY Zenon, <2>1, <2>3 DEF Shaped, Rest
<1> HIDE DEF y
<1>3. z.ev[fd] \in Event /\ cl \in Nat
  BY DEF Files
<1>4. e \in Event /\ e.mask # {} /\ e.cl = cl /\ e.mask = z.ev[fd].mask \cup mask
  BY Zenon, <1>3 DEF Event
<1> HIDE DEF e
<1>5. /\ y.ev \in [Fds -> Event] /\ y.ev[fd] = e
      /\ \A f \in Fds \ {fd} : y.ev[f] = z.ev[f]
  BY <1>2, <1>4 DEF Files
<1>6. /\ y.api \in [Fds -> SUBSET {"off", "r", "w"}]
      /\ y.api[fd] = Interest(e.mask) /\ \A f \in Fds \ {fd} : y.api[f] = z.api[f]
  BY <1>2, <1>4 DEF Files, Interest
<1>7. Kernel(y)
  BY ZenonT(30), <1>4, <1>5, <1>6 DEF Files, Kernel
<1>8. Owned(y)
  BY <1>2, <1>4, <1>5 DEF Files, Owned
<1>9. y.maxfd = Max({-1} \cup Watched(y.ev))
  <2> DEFINE T == {-1} \cup Watched(z.ev)
             U == {-1} \cup Watched(y.ev)
  <2>1. IsTop(z.maxfd, T)
    BY TopExists DEF Files
  <2>2. U = T \cup {fd} /\ fd \in Int
    BY <1>4, <1>5 DEF Watched, Fds, Deployable
  <2> HIDE DEF T, U
  <2>3. z.maxfd \in Int /\ y.maxfd \in {fd, z.maxfd} /\ y.maxfd >= fd /\ y.maxfd >= z.maxfd
    <3>1. z.maxfd \in Int
      BY Zenon, <2>1 DEF IsTop
    <3>2. y.maxfd = IF fd > z.maxfd THEN fd ELSE z.maxfd
      BY <1>2
    <3> QED BY <2>2, <3>1, <3>2
  <2>4. U \in SUBSET Int /\ y.maxfd \in U /\ \A f \in U : f <= y.maxfd
    BY <2>1, <2>2, <2>3 DEF IsTop
  <2> QED BY Zenon, <2>4, MaxIs DEF U
<1>10. "b" \notin mask => NoNewBarrier(z, y)
  BY <1>4, <1>5 DEF NoNewBarrier
<1>11. Files(y)
  BY Zenon, <1>2, <1>5, <1>6, <1>7, <1>8, <1>9 DEF Files
<1> QED BY <1>2, <1>10, <1>11 DEF y

\* Deleting events of a descriptor; maxfd goes down to the next that has one.
LEMMA DeleteKeeps ==
  ASSUME Deployable, NEW z, Files(z), NEW fd \in Fds, NEW mask \in SUBSET {"r", "w"}
  PROVE  LET y   == DeleteFileEvent(z, fd, mask)
             all == mask \cup (IF "w" \in mask THEN {"b"} ELSE {})
         IN  Served(z, y) /\ y.conn = z.conn /\ y.ev[fd].mask = z.ev[fd].mask \ all
<1> DEFINE y   == DeleteFileEvent(z, fd, mask)
           all == mask \cup (IF "w" \in mask THEN {"b"} ELSE {})
           rest == z.ev[fd].mask \ all
           x == [ApiDel(z, fd, all) EXCEPT !.ev[fd].mask = @ \ all]
<1>1. CASE z.ev[fd].mask = {}
  <2>1. y = z
    BY <1>1 DEF DeleteFileEvent
  <2> QED BY <1>1, <2>1 DEF Served, Rest, NoNewBarrier
<1>2. CASE z.ev[fd].mask # {}
  <2>1. y = LowerMax(x, fd)
    BY <1>2, Zenon DEF DeleteFileEvent
  <2>2. /\ Shaped(x) /\ Rest(z, x) /\ x.conn = z.conn /\ x.opened = z.opened /\ x.ok = TRUE
        /\ x.maxfd = z.maxfd
        /\ x.ev = [z.ev EXCEPT ![fd].mask = rest]
        /\ x.api = [z.api EXCEPT ![fd] = IF rest # {} THEN Interest(rest) ELSE Off]
    BY ZenonT(30) DEF ApiDel, Files, Shaped, Rest
  <2> HIDE DEF x
  <2>3. /\ x.ev \in [Fds -> Event] /\ x.ev[fd].mask = rest /\ x.ev[fd].cl = z.ev[fd].cl
        /\ \A f \in Fds \ {fd} : x.ev[f] = z.ev[f]
    <3>1. z.ev[fd] \in Event /\ z.ev \in [Fds -> Event]
      BY DEF Files
    <3>2. [z.ev[fd] EXCEPT !.mask = rest] \in Event
      BY <3>1 DEF Event
    <3>3. x.ev = [z.ev EXCEPT ![fd] = [z.ev[fd] EXCEPT !.mask = rest]]
      BY <2>2
    <3>4. /\ [z.ev[fd] EXCEPT !.mask = rest].mask = rest
          /\ [z.ev[fd] EXCEPT !.mask = rest].cl = z.ev[fd].cl
      BY <3>1 DEF Event
    <3> HIDE DEF rest
    <3> QED BY <3>1, <3>2, <3>3, <3>4
  <2>4. /\ x.api \in [Fds -> SUBSET {"off", "r", "w"}]
        /\ x.api[fd] = (IF rest # {} THEN Interest(rest) ELSE Off)
        /\ \A f \in Fds \ {fd} : x.api[f] = z.api[f]
    <3>1. (IF rest # {} THEN Interest(rest) ELSE Off) \in SUBSET {"off", "r", "w"}
      BY DEF Interest, Off
    <3> HIDE DEF rest
    <3> QED BY <2>2, <3>1 DEF Files
  <2>5. y = [x EXCEPT !.maxfd = y.maxfd] /\ y.maxfd = Max({-1} \cup Watched(x.ev))
    <3> DEFINE T == {-1} \cup Watched(z.ev)
               U == {-1} \cup Watched(x.ev)
               V == {-1} \cup {f \in Fds : f < fd /\ x.ev[f].mask # {}}
    <3>1. T \in SUBSET Int /\ z.maxfd \in T /\ \A f \in T : z.maxfd >= f
      <4>1. IsTop(z.maxfd, T)
        BY TopExists DEF Files
      <4> QED BY <4>1 DEF IsTop
    <3>2. fd \in Int /\ fd \in T
      BY <1>2 DEF Watched, Fds, Deployable
    <3>3. CASE fd = z.maxfd /\ rest = {}
      <4>1. fd = x.maxfd /\ x.ev[fd].mask = {}
        BY <2>2, <2>3, <3>3
      <4>2. y = [x EXCEPT !.maxfd = Max(V)]
        BY <2>1, <4>1 DEF LowerMax
      <4>3. y.maxfd = Max(V)
        BY <2>2, <4>2 DEF Shaped
      <4>4. V = U
        <5>1. ASSUME NEW f \in Fds, x.ev[f].mask # {} PROVE f < fd
          <6>1. f # fd /\ f \in T /\ f \in Int
            BY <2>3, <3>3, <5>1 DEF Watched, Fds, Deployable
          <6> QED BY <3>1, <3>2, <3>3, <6>1
        <5> QED BY <5>1 DEF Watched
      <4> QED BY <4>2, <4>3, <4>4
    <3>4. CASE ~(fd = z.maxfd /\ rest = {})
      <4>1. y = x
        BY <2>1, <2>2, <2>3, <3>4 DEF LowerMax
      <4>2. U \in SUBSET Int /\ z.maxfd \in U /\ \A f \in U : f <= z.maxfd
        <5>1. U \subseteq T
          BY <1>2, <2>3 DEF Watched
        <5>2. z.maxfd \in U
          BY <2>3, <3>1, <3>4 DEF Watched
        <5> QED BY <3>1, <5>1, <5>2
      <4> HIDE DEF U
      <4>3. Max(U) = z.maxfd
        BY Zenon, <4>2, MaxIs
      <4> QED BY <2>2, <4>1, <4>3 DEF U, Shaped
    <3> QED BY <3>3, <3>4
  <2>6. /\ Shaped(y) /\ Rest(z, y) /\ y.conn = z.conn /\ y.opened = z.opened /\ y.ok = TRUE
        /\ y.ev = x.ev /\ y.api = x.api
    BY <2>2, <2>5 DEF Shaped, Rest
  <2> HIDE DEF y
  <2>7. Kernel(y)
    <3>1. y.api[fd] = IF y.ev[fd].mask = {} THEN Off ELSE Interest(y.ev[fd].mask)
      BY ZenonT(30), <2>3, <2>4, <2>6
    <3> HIDE DEF rest
    <3>2. \A f \in Fds \ {fd} :
            y.api[f] = IF y.ev[f].mask = {} THEN Off ELSE Interest(y.ev[f].mask)
      BY <2>3, <2>4, <2>6 DEF Files, Kernel
    <3> QED BY <3>1, <3>2 DEF Kernel
  <2>8. Owned(y)
    BY <1>2, <2>3, <2>6 DEF Files, Owned
  <2>9. Files(y)
    BY <2>3, <2>4, <2>5, <2>6, <2>7, <2>8 DEF Files
  <2>10. NoNewBarrier(z, y)
    BY <2>3, <2>6 DEF NoNewBarrier
  <2> QED BY <2>3, <2>6, <2>9, <2>10 DEF Served, y
<1> QED BY <1>1, <1>2

LEMMA ServedTwice ==
  ASSUME NEW x, NEW y, NEW z, Served(z, x), Served(x, y)
  PROVE  Served(z, y)
BY DEF Served, Rest, NoNewBarrier

LEMMA ServedSame ==
  ASSUME NEW z, Files(z)
  PROVE  Served(z, z)
BY DEF Served, Rest, NoNewBarrier

\* freeClient leaves no event on a descriptor that the next connection takes.
LEMMA CloseKeeps ==
  ASSUME Deployable, NEW z, Files(z), NEW fd \in Fds
  PROVE  Served(z, Close(z, fd))
<1> DEFINE x == DeleteFileEvent(z, fd, {"r"})
           w == DeleteFileEvent(x, fd, {"w"})
           y == [w EXCEPT !.conn[fd] = 0]
<1>1. Served(z, x) /\ x.ev[fd].mask = z.ev[fd].mask \ {"r"}
  BY DeleteKeeps
<1> HIDE DEF x
<1>2. Served(x, w) /\ w.ev[fd].mask = x.ev[fd].mask \ {"w", "b"}
  BY <1>1, DeleteKeeps DEF Served
<1> HIDE DEF w
<1>3. Served(z, w)
  BY <1>1, <1>2, ServedTwice
<1>4. w.ev[fd].mask = {}
  <2>1. z.ev[fd].mask \in SUBSET {"r", "w", "b"}
    BY DEF Files, Event
  <2> QED BY <1>1, <1>2, <2>1
<1>5. /\ Shaped(y) /\ Rest(w, y) /\ y.ev = w.ev /\ y.api = w.api /\ y.opened = w.opened
      /\ y.ok = w.ok /\ y.maxfd = w.maxfd /\ y.conn = [w.conn EXCEPT ![fd] = 0]
  BY <1>3 DEF Served, Files, Shaped, Rest
<1> HIDE DEF y
<1>6. y.conn \in [Fds -> Nat] /\ \A f \in Fds \ {fd} : y.conn[f] = w.conn[f]
  BY <1>3, <1>5 DEF Served, Files
<1>7. Kernel(y) /\ Owned(y)
  BY <1>3, <1>4, <1>5, <1>6 DEF Served, Files, Kernel, Owned
<1>8. Files(y)
  BY <1>3, <1>5, <1>6, <1>7 DEF Served, Files
<1>9. Served(w, y)
  BY <1>5, <1>8 DEF Served, NoNewBarrier
<1>10. Close(z, fd) = y
  BY DEF Close, x, w, y
<1> QED BY <1>3, <1>9, <1>10, ServedTwice

\* A new connection, on a descriptor that has no event left.
LEMMA OpenKeeps ==
  ASSUME Deployable, NEW z, Files(z)
  PROVE  Served(z, Open(z))
<1>1. CASE Free(z) = {} \/ z.opened = MaxClients
  BY <1>1, ServedSame DEF Open
<1>2. CASE ~(Free(z) = {} \/ z.opened = MaxClients)
  <2> DEFINE fd == Min(Free(z))
             x  == [z EXCEPT !.conn[fd] = z.opened + 1, !.opened = @ + 1]
             y  == CreateFileEvent(x, fd, {"r"}, "read", z.opened + 1)
  <2>1. Open(z) = y
    BY <1>2 DEF Open
  <2>2. fd \in Free(z)
    <3>1. Free(z) \in SUBSET Nat
      BY DEF Free, Fds, Deployable
    <3> QED BY <1>2, <3>1, MinExists
  <2> HIDE DEF fd
  <2>3. fd \in Fds /\ z.conn[fd] = 0 /\ z.ev[fd].mask = {}
    BY <2>2 DEF Free, Files, Owned
  <2>4. /\ Shaped(x) /\ Rest(z, x) /\ x.ev = z.ev /\ x.api = z.api /\ x.ok = z.ok
        /\ x.maxfd = z.maxfd /\ x.opened = z.opened + 1
        /\ x.conn = [z.conn EXCEPT ![fd] = z.opened + 1]
    BY Zenon DEF Files, Shaped, Rest
  <2> HIDE DEF x
  <2>5. /\ z.opened + 1 \in Nat /\ z.opened + 1 # 0 /\ x.conn \in [Fds -> Nat]
        /\ x.conn[fd] = z.opened + 1 /\ \A f \in Fds \ {fd} : x.conn[f] = z.conn[f]
    BY <2>3, <2>4 DEF Files
  <2>6. Kernel(x) /\ Owned(x)
    BY <2>3, <2>4, <2>5 DEF Files, Kernel, Owned
  <2>7. Files(x)
    BY <2>4, <2>5, <2>6 DEF Files
  <2>8. Served(z, x)
    BY <2>4, <2>7 DEF Served, NoNewBarrier
  <2>9. {"r"} \in SUBSET {"r", "w", "b"} /\ {"r"} # {} /\ "b" \notin {"r"}
    OBVIOUS
  <2>10. Served(x, y)
    BY Zenon, <2>3, <2>5, <2>7, <2>9, CreateKeeps DEF Served
  <2> QED BY <2>1, <2>8, <2>10, ServedTwice
<1> QED BY <1>1, <1>2

\* Whatever a handler does.
LEMMA EffectsKeep ==
  ASSUME Deployable, NEW z, Files(z), NEW fd \in Fds, NEW y \in Effects(z, fd)
  PROVE  Served(z, y)
<1>1. CASE y \in {z, Open(z)}
  BY <1>1, OpenKeeps, ServedSame
<1>2. CASE \E g \in Fds : y = Close(z, g)
  BY <1>2, CloseKeeps
<1>3. CASE y = DeleteFileEvent(z, fd, {"w"}) \/ y = DeleteFileEvent(z, fd, {"r"})
  BY <1>3, DeleteKeeps
<1>4. CASE y = Open(Close(z, fd))
  <2>1. Served(z, Close(z, fd))
    BY CloseKeeps
  <2>2. Served(Close(z, fd), Open(Close(z, fd)))
    BY <2>1, OpenKeeps DEF Served
  <2> QED BY <1>4, <2>1, <2>2, ServedTwice
<1>5. CASE /\ z.conn[fd] # 0
           /\ \E mask \in {{"r"}, {"w"}, {"r", "w"}}, proc \in {"read", "write", "sync"} :
                y = CreateFileEvent(z, fd, mask, proc, z.conn[fd])
  <2>1. PICK mask \in {{"r"}, {"w"}, {"r", "w"}}, proc \in {"read", "write", "sync"} :
          y = CreateFileEvent(z, fd, mask, proc, z.conn[fd])
    BY <1>5
  <2>2. mask \in SUBSET {"r", "w", "b"} /\ mask # {} /\ "b" \notin mask
    OBVIOUS
  <2> QED BY <1>5, <2>1, <2>2, CreateKeeps DEF Served
<1> QED BY <1>1, <1>2, <1>3, <1>4, <1>5 DEF Effects

LEMMA BeforeSleepKeeps ==
  ASSUME Deployable, NEW z, Files(z), NEW y \in BeforeSleep(z)
  PROVE  Files(y) /\ Rest(z, y)
<1>1. CASE y = z
  BY <1>1 DEF Rest
<1>2. CASE \E fd \in Fds, mask \in {{"w"}, {"w", "b"}} :
             z.conn[fd] # 0 /\ y = CreateFileEvent(z, fd, mask, "write", z.conn[fd])
  <2>1. PICK fd \in Fds, mask \in {{"w"}, {"w", "b"}} :
             z.conn[fd] # 0 /\ y = CreateFileEvent(z, fd, mask, "write", z.conn[fd])
    BY <1>2
  <2>2. mask \in SUBSET {"r", "w", "b"} /\ mask # {}
    OBVIOUS
  <2> QED BY <2>1, <2>2, CreateKeeps
<1> QED BY <1>1, <1>2 DEF BeforeSleep

-----------------------------------------------------------------------------
(* Time events. *)

TimeEvent == [id : Nat, sec : Nat, ms : 0..Unit - 1]

Time(t) == t.sec * Unit + t.ms

\* Every timer made is on the list or finalised; those that are on it and not
\* deleted have different numbers, none of them cancelled.
Counted(z) ==
  /\ z.timers \in Seq(TimeEvent) /\ z.nextId \in Nat \ {0} /\ z.finals \in Nat
  /\ z.finals + Len(z.timers) = z.nextId - 1
  /\ z.cancelled \in SUBSET (1..z.nextId - 1)
  /\ \A i \in 1..Len(z.timers) :
       z.timers[i].id < z.nextId /\ z.timers[i].id \notin z.cancelled
  /\ \A i, j \in 1..Len(z.timers) :
       z.timers[i].id = z.timers[j].id /\ z.timers[i].id # Deleted => i = j

\* What the pass has gone over is due after the lowest time it saw.
Passed(z) ==
  \A i \in 1..Len(z.timers) :
    i < z.at /\ z.timers[i].id # Deleted /\ z.timers[i].id <= z.maxId
      => Time(z.timers[i]) > z.low

Clockwork(z) ==
  /\ Counted(z) /\ z.clock \in Nat /\ z.low \in Nat /\ z.maxId \in Nat /\ z.at \in Nat
  /\ z.early = FALSE /\ z.zombie = FALSE
  /\ z.phase = "timers" =>
       z.at # 0 /\ z.maxId < z.nextId /\ z.low <= z.clock /\ Passed(z)

\* y differs from z in nothing but the timers.
SameTable(z, y) ==
  /\ Shaped(y) /\ y.ev = z.ev /\ y.api = z.api /\ y.conn = z.conn /\ y.opened = z.opened
  /\ y.ok = z.ok /\ y.maxfd = z.maxfd

SameFiles(z, y) ==
  /\ SameTable(z, y) /\ y.dead = z.dead /\ y.fired = z.fired
  /\ y.calls = z.calls /\ y.now = z.now

\* The place of the timer that runs.
AtTimer(z) == z.phase = "timers" /\ z.at \in 1..Len(z.timers)

LEMMA SecMs ==
  ASSUME Deployable, NEW t \in Nat
  PROVE  Sec(t) \in Nat /\ Ms(t) \in 0..Unit - 1 /\ t = Sec(t) * Unit + Ms(t)
BY DEF Deployable, Sec, Ms

LEMMA Seconds ==
  ASSUME Deployable, NEW a \in Nat, NEW b \in Nat, a < b
  PROVE  a * Unit \in Nat /\ b * Unit \in Nat /\ a * Unit + Unit <= b * Unit
<1>1. PICK k \in Nat : b = a + 1 + k
  <2>1. b - a - 1 \in Nat /\ b = a + 1 + (b - a - 1)
    OBVIOUS
  <2> QED BY <2>1
<1>2. (a + 1 + k) * Unit = a * Unit + Unit + k * Unit
  BY DEF Deployable
<1>3. a * Unit \in Nat /\ k * Unit \in Nat /\ Unit \in Nat
  BY DEF Deployable
<1> QED BY <1>1, <1>2, <1>3

\* aeAddMillisecondsToNow is exact, and keeps less than a second of
\* milliseconds.
LEMMA AddToNowIs ==
  ASSUME Deployable, NEW now \in Nat, NEW delay \in Nat
  PROVE  LET w == AddToNow(now, delay)
         IN  w.sec \in Nat /\ w.ms \in 0..Unit - 1 /\ Time(w) = now + delay
<1> DEFINE w == AddToNow(now, delay)
           a == Sec(now)
           b == Sec(delay)
           c == Ms(now)
           d == Ms(delay)
<1>1. /\ a \in Nat /\ b \in Nat /\ c \in 0..Unit - 1 /\ d \in 0..Unit - 1
      /\ now = a * Unit + c /\ delay = b * Unit + d /\ Unit \in Nat
  BY SecMs DEF Deployable
<1>2. w = IF c + d >= Unit THEN [sec |-> a + b + 1, ms |-> (c + d) - Unit]
          ELSE [sec |-> a + b, ms |-> c + d]
  BY Zenon DEF AddToNow
<1> HIDE DEF w, a, b, c, d
<1>3. (a + b) * Unit = a * Unit + b * Unit /\ (a + b + 1) * Unit = a * Unit + b * Unit + Unit
  BY <1>1
<1>4. a * Unit \in Nat /\ b * Unit \in Nat
  BY <1>1
<1> QED BY <1>1, <1>2, <1>3, <1>4 DEF Time, w

\* Comparing seconds and then milliseconds compares the times.
LEMMA IsTimeIs ==
  ASSUME Deployable, NEW t \in TimeEvent, NEW now \in Nat
  PROVE  /\ Time(t) \in Nat
         /\ IsTime(t, now) <=> Time(t) <= now
<1> DEFINE a == Sec(now)
           c == Ms(now)
<1>1. /\ a \in Nat /\ c \in 0..Unit - 1 /\ now = a * Unit + c /\ Unit \in Nat
  BY SecMs DEF Deployable
<1>2. t.sec \in Nat /\ t.ms \in 0..Unit - 1
  BY DEF TimeEvent
<1>3. IsTime(t, now) <=> a > t.sec \/ (a = t.sec /\ c >= t.ms)
  BY DEF IsTime
<1> HIDE DEF a, c
<1>4. a * Unit \in Nat /\ t.sec * Unit \in Nat
  BY <1>1, <1>2
<1>5. CASE a > t.sec
  <2>1. t.sec * Unit + Unit <= a * Unit
    BY <1>1, <1>2, <1>5, Seconds
  <2> QED BY <1>1, <1>2, <1>3, <1>4, <1>5, <2>1 DEF Time
<1>6. CASE a < t.sec
  <2>1. a * Unit + Unit <= t.sec * Unit
    BY <1>1, <1>2, <1>6, Seconds
  <2> QED BY <1>1, <1>2, <1>3, <1>4, <1>6, <2>1 DEF Time
<1>7. CASE a = t.sec
  BY <1>1, <1>2, <1>3, <1>4, <1>7 DEF Time
<1> QED BY <1>1, <1>2, <1>5, <1>6, <1>7

LEMMA ListIs ==
  ASSUME NEW z, Clockwork(z)
  PROVE  /\ z.timers \in Seq(TimeEvent) /\ Len(z.timers) \in Nat
         /\ DOMAIN z.timers = 1..Len(z.timers)
         /\ z.nextId \in Nat \ {0} /\ z.finals \in Nat
         /\ z.finals + Len(z.timers) = z.nextId - 1
         /\ z.cancelled \in SUBSET (1..z.nextId - 1)
<1>1. Counted(z)
  BY DEF Clockwork
<1> QED BY <1>1 DEF Counted

LEMMA OnListIs ==
  ASSUME NEW z, Clockwork(z), NEW i \in 1..Len(z.timers)
  PROVE  /\ z.timers[i] \in TimeEvent /\ z.timers[i].id \in Nat
         /\ z.timers[i].id < z.nextId /\ z.timers[i].id \notin z.cancelled
<1>1. Counted(z)
  BY DEF Clockwork
<1>2. z.timers[i] \in TimeEvent
  BY <1>1 DEF Counted
<1>3. z.timers[i].id \in Nat
  BY <1>2 DEF TimeEvent
<1>4. z.timers[i].id < z.nextId /\ z.timers[i].id \notin z.cancelled
  BY <1>1 DEF Counted
<1> QED BY <1>2, <1>3, <1>4

LEMMA OnListOnce ==
  ASSUME NEW z, Clockwork(z), NEW i \in 1..Len(z.timers), NEW j \in 1..Len(z.timers),
         z.timers[i].id = z.timers[j].id, z.timers[i].id # Deleted
  PROVE  i = j
<1>1. Counted(z)
  BY DEF Clockwork
<1> QED BY <1>1 DEF Counted

LEMMA PassedIs ==
  ASSUME NEW z, Clockwork(z), z.phase = "timers"
  PROVE  z.at \in Nat \ {0} /\ z.maxId < z.nextId /\ z.low <= z.clock /\ Passed(z)
BY DEF Clockwork

LEMMA ClocksAre ==
  ASSUME NEW z, Clockwork(z)
  PROVE  /\ z.clock \in Nat /\ z.low \in Nat /\ z.maxId \in Nat /\ z.at \in Nat
         /\ z.early = FALSE /\ z.zombie = FALSE
BY DEF Clockwork

LEMMA OneMore ==
  ASSUME NEW f \in Nat, NEW l \in Nat, NEW n \in Nat \ {0}, f + l = n - 1
  PROVE  f + (l + 1) = (n + 1) - 1 /\ n + 1 \in Nat \ {0}
OBVIOUS

\* A timer made by a handler is put before the one that runs, with a number
\* the pass does not look at.
LEMMA CreateTimerKeeps ==
  ASSUME Deployable, NEW z, Shaped(z), Clockwork(z), NEW delay \in Nat
  PROVE  LET y == CreateTimer(z, delay)
         IN  /\ Clockwork(y) /\ SameFiles(z, y) /\ y.phase = z.phase
             /\ AtTimer(z) => AtTimer(y)
<1>1. CASE z.nextId > MaxTimers
  <2>1. CreateTimer(z, delay) = z
    BY <1>1 DEF CreateTimer
  <2> QED BY <2>1 DEF SameFiles, SameTable
<1>2. CASE ~(z.nextId > MaxTimers)
  <2> DEFINE w == AddToNow(z.clock, delay)
             t == [id |-> z.nextId, sec |-> w.sec, ms |-> w.ms]
             q == <<t>> \o z.timers
             y == CreateTimer(z, delay)
  <2>1. w.sec \in Nat /\ w.ms \in 0..Unit - 1
    BY Zenon, AddToNowIs DEF Clockwork
  <2>2. /\ SameFiles(z, y) /\ y.timers = q /\ y.nextId = z.nextId + 1 /\ y.phase = z.phase
        /\ y.at = (IF z.phase = "timers" THEN z.at + 1 ELSE z.at)
        /\ y.finals = z.finals /\ y.cancelled = z.cancelled /\ y.clock = z.clock
        /\ y.low = z.low /\ y.maxId = z.maxId /\ y.early = z.early /\ y.zombie = z.zombie
    BY Zenon, <1>2 DEF CreateTimer, Shaped, SameFiles, SameTable
  <2> HIDE DEF w, y
  <2>3. t \in TimeEvent /\ t.id = z.nextId
    BY <2>1 DEF TimeEvent, Clockwork, Counted
  <2> HIDE DEF t
  <2>4. z.timers \in Seq(TimeEvent) /\ Len(z.timers) \in Nat
    BY DEF Clockwork, Counted
  <2>5. /\ q \in Seq(TimeEvent) /\ Len(q) = Len(z.timers) + 1 /\ q[1] = t
        /\ \A i \in 2..Len(z.timers) + 1 : q[i] = z.timers[i - 1]
    BY <2>3, <2>4
  <2> HIDE DEF q
  <2>6. \A i \in 1..Len(q) :
          \/ i = 1 /\ q[i] = t
          \/ i - 1 \in 1..Len(z.timers) /\ q[i] = z.timers[i - 1]
    BY <2>4, <2>5
  <2>7. /\ z.nextId \in Nat \ {0} /\ z.finals \in Nat
        /\ z.finals + Len(z.timers) = z.nextId - 1 /\ z.cancelled \in SUBSET (1..z.nextId - 1)
    BY ListIs
  <2>8. Counted(y)
    <3>1. y.finals + Len(q) = y.nextId - 1 /\ y.nextId \in Nat \ {0} /\ y.finals \in Nat
      <4>1. Len(q) = Len(z.timers) + 1 /\ Len(z.timers) \in Nat
        BY <2>4, <2>5
      <4>2. y.nextId = z.nextId + 1 /\ y.finals = z.finals
        BY <2>2
      <4>3. z.finals + (Len(z.timers) + 1) = (z.nextId + 1) - 1 /\ z.nextId + 1 \in Nat \ {0}
        BY <2>7, <4>1, OneMore, ZenonT(30)
      <4> QED BY Zenon, <2>7, <4>1, <4>2, <4>3
    <3>2. y.cancelled \in SUBSET (1..y.nextId - 1)
      BY <2>2, <2>7
    <3>3. ASSUME NEW i \in 1..Len(q) PROVE q[i].id < y.nextId /\ q[i].id \notin y.cancelled
      <4>1. CASE i = 1 /\ q[i] = t
        BY <2>2, <2>3, <2>7, <4>1
      <4>2. CASE i - 1 \in 1..Len(z.timers) /\ q[i] = z.timers[i - 1]
        <5>1. /\ z.timers[i - 1].id \in Nat /\ z.timers[i - 1].id < z.nextId
              /\ z.timers[i - 1].id \notin z.cancelled
          BY <4>2, OnListIs
        <5> QED BY <2>2, <2>7, <4>2, <5>1
      <4> QED BY <2>6, <4>1, <4>2
    <3>4. ASSUME NEW i \in 1..Len(q), i # 1
          PROVE  /\ i - 1 \in 1..Len(z.timers) /\ q[i] = z.timers[i - 1]
                 /\ q[i].id \in Nat /\ q[i].id < z.nextId
      <4>1. i - 1 \in 1..Len(z.timers) /\ q[i] = z.timers[i - 1]
        BY <2>6, <3>4
      <4>2. z.timers[i - 1].id \in Nat /\ z.timers[i - 1].id < z.nextId
        BY <4>1, OnListIs
      <4> QED BY <4>1, <4>2
    <3>5. ASSUME NEW i \in 1..Len(q), NEW j \in 1..Len(q), q[i].id = q[j].id, q[i].id # Deleted
          PROVE  i = j
      <4>1. CASE i = 1 \/ j = 1
        BY <2>3, <2>5, <2>7, <3>4, <3>5, <4>1
      <4>2. CASE i # 1 /\ j # 1
        <5>1. /\ i - 1 \in 1..Len(z.timers) /\ q[i] = z.timers[i - 1]
              /\ j - 1 \in 1..Len(z.timers) /\ q[j] = z.timers[j - 1]
          BY <3>4, <4>2
        <5>2. i - 1 = j - 1
          BY <3>5, <5>1, OnListOnce
        <5> QED BY <2>4, <2>5, <5>2
      <4> QED BY <4>1, <4>2
    <3> QED BY <2>2, <2>5, <3>1, <3>2, <3>3, <3>5 DEF Counted
  <2>9. z.phase = "timers" => Passed(y)
    <3>1. ASSUME z.phase = "timers", NEW i \in 1..Len(q), i < y.at, q[i].id # Deleted, q[i].id <= y.maxId
          PROVE  Time(q[i]) > y.low
      <4>1. z.at \in Nat \ {0} /\ z.maxId \in Nat /\ z.maxId < z.nextId /\ Passed(z)
        BY ZenonT(30), <3>1, PassedIs, ClocksAre
      <4>2. i # 1
        BY <2>2, <2>3, <2>5, <2>7, <3>1, <4>1
      <4>3. i - 1 \in 1..Len(z.timers) /\ q[i] = z.timers[i - 1]
        BY <2>6, <4>2
      <4>4. i - 1 < z.at
        BY <2>2, <3>1, <4>1, <4>3
      <4> QED BY <2>2, <3>1, <4>1, <4>3, <4>4 DEF Passed
    <3> QED BY <2>2, <3>1 DEF Passed
  <2>10. Clockwork(y)
    <3>1. /\ z.clock \in Nat /\ z.low \in Nat /\ z.maxId \in Nat /\ z.at \in Nat
          /\ z.early = FALSE /\ z.zombie = FALSE
      BY Zenon, ClocksAre
    <3>2. y.at \in Nat
      BY <2>2, <3>1
    <3>3. z.phase = "timers" =>
            y.at # 0 /\ y.maxId < y.nextId /\ y.low <= y.clock /\ Passed(y)
      <4>1. ASSUME z.phase = "timers" PROVE z.maxId < z.nextId /\ z.low <= z.clock
        BY <4>1, PassedIs
      <4> QED BY <2>2, <2>7, <2>9, <3>1, <4>1
    <3> QED BY <2>2, <2>8, <3>1, <3>2, <3>3 DEF Clockwork
  <2>11. AtTimer(z) => AtTimer(y)
    BY <2>2, <2>4, <2>5 DEF AtTimer
  <2> QED BY <2>2, <2>10, <2>11 DEF y
<1> QED BY <1>1, <1>2

\* A deleted timer stays on the list without its number.
LEMMA DeleteTimerKeeps ==
  ASSUME NEW z, Shaped(z), Clockwork(z), NEW t \in Range(z.timers), t.id # Deleted
  PROVE  LET y == DeleteTimer(z, t.id)
         IN  /\ Clockwork(y) /\ SameFiles(z, y) /\ y.phase = z.phase
             /\ AtTimer(z) => AtTimer(y)
<1> DEFINE n == Len(z.timers)
           q == [i \in DOMAIN z.timers |->
                   IF z.timers[i].id = t.id THEN [z.timers[i] EXCEPT !.id = Deleted]
                   ELSE z.timers[i]]
           y == DeleteTimer(z, t.id)
<1>1. /\ SameFiles(z, y) /\ y.timers = q /\ y.cancelled = z.cancelled \cup {t.id}
      /\ y.phase = z.phase /\ y.nextId = z.nextId /\ y.at = z.at /\ y.finals = z.finals
      /\ y.clock = z.clock /\ y.low = z.low /\ y.maxId = z.maxId
      /\ y.early = z.early /\ y.zombie = z.zombie
  BY Zenon DEF DeleteTimer, Shaped, SameFiles, SameTable
<1> HIDE DEF y
<1>2. z.timers \in Seq(TimeEvent) /\ n \in Nat /\ DOMAIN z.timers = 1..n
  BY DEF Clockwork, Counted
<1>3. ASSUME NEW i \in 1..n
      PROVE  /\ q[i] \in TimeEvent /\ z.timers[i] \in TimeEvent
             /\ q[i].id = (IF z.timers[i].id = t.id THEN Deleted ELSE z.timers[i].id)
             /\ Time(q[i]) = Time(z.timers[i])
  <2>1. z.timers[i] \in TimeEvent
    BY <1>2
  <2> QED BY Zenon, <1>2, <2>1 DEF TimeEvent, Deleted, Time
<1>4. q \in Seq(TimeEvent) /\ Len(q) = n
  <2>1. q \in [1..n -> TimeEvent]
    BY Zenon, <1>2, <1>3
  <2> HIDE DEF q
  <2> QED BY <1>2, <2>1
<1>5. t.id \in 1..z.nextId - 1
  <2>1. PICK i \in 1..n : t = z.timers[i]
    BY <1>2 DEF Range
  <2>2. t.id \in Nat /\ t.id < z.nextId /\ z.nextId \in Nat
    BY <2>1, OnListIs, ListIs
  <2> QED BY <2>2 DEF Deleted
<1> HIDE DEF q
<1>6. Counted(y)
  <2>1. \A i \in 1..n : q[i].id < y.nextId /\ q[i].id \notin y.cancelled
    <3> SUFFICES ASSUME NEW i \in 1..n
                 PROVE  q[i].id < y.nextId /\ q[i].id \notin y.cancelled
      OBVIOUS
    <3>1. /\ z.timers[i].id < z.nextId /\ z.timers[i].id \notin z.cancelled
          /\ 0 \notin z.cancelled /\ z.nextId \in Nat \ {0}
      BY DEF Clockwork, Counted
    <3> QED BY <1>1, <1>3, <1>5, <3>1 DEF Deleted
  <2>2. \A i, j \in 1..n : q[i].id = q[j].id /\ q[i].id # Deleted => i = j
    BY ZenonT(30), <1>3 DEF Clockwork, Counted, Deleted
  <2> QED BY <1>1, <1>4, <1>5, <2>1, <2>2 DEF Clockwork, Counted
<1>7. z.phase = "timers" => Passed(y)
  BY <1>1, <1>3, <1>4 DEF Clockwork, Passed
<1>8. Clockwork(y)
  BY <1>1, <1>6, <1>7 DEF Clockwork
<1> QED BY <1>1, <1>4, <1>8 DEF AtTimer, y

LEMMA TimerEffectsKeep ==
  ASSUME Deployable, NEW z, Shaped(z), Clockwork(z), NEW y \in TimerEffects(z)
  PROVE  /\ Clockwork(y) /\ SameFiles(z, y) /\ y.phase = z.phase
         /\ AtTimer(z) => AtTimer(y)
<1>1. CASE y = z
  BY <1>1 DEF SameFiles, SameTable
<1>2. CASE y = CreateTimer(z, 1) \/ y = CreateTimer(z, Unit)
  BY <1>2, CreateTimerKeeps DEF Deployable
<1>3. CASE \E t \in Range(z.timers) : t.id # Deleted /\ y = DeleteTimer(z, t.id)
  BY <1>3, DeleteTimerKeeps
<1> QED BY <1>1, <1>2, <1>3 DEF TimerEffects

\* The timer that ran is deleted, or due again after the time it ran at.
LEMMA AfterKeeps ==
  ASSUME Deployable, NEW z, Shaped(z), Clockwork(z), AtTimer(z),
         NEW again \in {0, 1, Unit + 1}
  PROVE  LET y == Step(After(z, again))
         IN  Clockwork(y) /\ SameFiles(z, y) /\ y.phase = z.phase
<1> DEFINE k == z.at
           n == Len(z.timers)
           w == AddToNow(z.clock, again)
           t == IF again = 0 THEN [z.timers[k] EXCEPT !.id = Deleted]
                ELSE [z.timers[k] EXCEPT !.sec = w.sec, !.ms = w.ms]
           q == [z.timers EXCEPT ![k] = t]
           y == Step(After(z, again))
<1>1. /\ z.timers \in Seq(TimeEvent) /\ n \in Nat /\ k \in 1..n /\ z.timers[k] \in TimeEvent
      /\ again \in Nat /\ z.clock \in Nat
  BY DEF Clockwork, Counted, AtTimer, Deployable
<1>2. w.sec \in Nat /\ w.ms \in 0..Unit - 1 /\ Time(w) = z.clock + again
  BY ZenonT(30), <1>1, AddToNowIs
<1>3. /\ SameFiles(z, y) /\ y.timers = q /\ y.phase = z.phase /\ y.nextId = z.nextId
      /\ y.at = k + 1 /\ y.finals = z.finals /\ y.clock = z.clock /\ y.low = z.low
      /\ y.maxId = z.maxId /\ y.early = z.early /\ y.zombie = z.zombie
      /\ y.cancelled = (IF again = 0 THEN z.cancelled \cup ({z.timers[k].id} \ {Deleted})
                        ELSE z.cancelled)
  <2>1. CASE again = 0
    BY ZenonT(30), <1>1, <2>1 DEF Step, After, Shaped, SameFiles, SameTable
  <2>2. CASE again # 0
    <3> DEFINE u == [z.timers[k] EXCEPT !.sec = w.sec]
               x == [z EXCEPT !.timers[z.at].sec = w.sec]
               v == After(z, again)
    <3> HIDE DEF w
    <3>1. v = [x EXCEPT !.timers[z.at].ms = w.ms]
      BY <2>2 DEF After, w
    <3>2. x = [z EXCEPT !.timers = [z.timers EXCEPT ![k] = u]]
      OBVIOUS
    <3> HIDE DEF x, v
    <3>3. x.timers = [z.timers EXCEPT ![k] = u]
      BY <3>2 DEF Shaped
    <3>4. x.timers[k] = u
      BY <1>1, <3>3
    <3>5. v = [x EXCEPT !.timers = [x.timers EXCEPT ![k] = [u EXCEPT !.ms = w.ms]]]
      BY <3>1, <3>4
    <3>6. t = [u EXCEPT !.ms = w.ms]
      BY <2>2
    <3> HIDE DEF t, u
    <3>7. [x.timers EXCEPT ![k] = [u EXCEPT !.ms = w.ms]] = q
      BY <1>1, <3>3, <3>6
    <3> HIDE DEF q
    <3>8. v = [x EXCEPT !.timers = q]
      BY <3>5, <3>7
    <3>9. /\ SameFiles(z, v) /\ v.timers = q /\ v.phase = z.phase /\ v.nextId = z.nextId
          /\ v.at = z.at /\ v.finals = z.finals /\ v.clock = z.clock /\ v.low = z.low
          /\ v.maxId = z.maxId /\ v.early = z.early /\ v.zombie = z.zombie
          /\ v.cancelled = z.cancelled
      <4>1. v = [z EXCEPT !.timers = q]
        BY Zenon, <3>2, <3>8 DEF Shaped
      <4> QED BY <4>1 DEF Shaped, SameFiles, SameTable
    <3>10. y = [v EXCEPT !.at = v.at + 1]
      BY DEF Step, v
    <3> HIDE DEF y
    <3> QED BY <2>2, <3>9, <3>10 DEF Shaped, SameFiles, SameTable
  <2> QED BY <2>1, <2>2
<1> HIDE DEF y, w
<1>4. /\ t \in TimeEvent /\ t.id = (IF again = 0 THEN Deleted ELSE z.timers[k].id)
      /\ again # 0 => Time(t) = z.clock + again
  BY ZenonT(30), <1>1, <1>2 DEF TimeEvent, Deleted, Time
<1> HIDE DEF t
<1>5. q \in Seq(TimeEvent) /\ Len(q) = n /\ q[k] = t /\ \A i \in 1..n : i # k => q[i] = z.timers[i]
  BY <1>1, <1>4
<1> HIDE DEF q
<1>6. Counted(y)
  <2>1. \A i \in 1..n : z.timers[i].id \in Nat /\ z.timers[i].id < z.nextId /\ z.timers[i].id \notin z.cancelled
    BY OnListIs
  <2>2. y.cancelled \in SUBSET (1..y.nextId - 1)
    <3>1. z.cancelled \in SUBSET (1..z.nextId - 1) /\ z.nextId \in Nat
      BY ListIs
    <3>2. {z.timers[k].id} \ {Deleted} \in SUBSET (1..z.nextId - 1)
      BY <1>1, <2>1, <3>1 DEF Deleted
    <3> QED BY <1>3, <3>1, <3>2
  <2>3. \A i, j \in 1..n : q[i].id = q[j].id /\ q[i].id # Deleted => i = j
    BY ZenonT(30), <1>4, <1>5 DEF Clockwork, Counted
  <2>4. ASSUME NEW i \in 1..n PROVE q[i].id < y.nextId /\ q[i].id \notin y.cancelled
    <3>1. CASE i = k
      BY <1>1, <1>3, <1>4, <1>5, <2>1, <2>2, <3>1 DEF Clockwork, Counted, Deleted
    <3>2. CASE i # k
      BY ZenonT(30), <1>1, <1>3, <1>5, <2>1, <3>2 DEF Clockwork, Counted
    <3> QED BY <3>1, <3>2
  <2> QED BY <1>3, <1>5, <2>2, <2>3, <2>4 DEF Clockwork, Counted
<1>7. Passed(y)
  <2>1. ASSUME NEW i \in 1..n, i < k + 1, q[i].id # Deleted, q[i].id <= z.maxId
        PROVE  Time(q[i]) > z.low
    <3>1. CASE i = k
      BY <1>1, <1>4, <1>5, <2>1, <3>1 DEF Clockwork, AtTimer, Deployable
    <3>2. CASE i # k
      <4>1. Passed(z) /\ q[i] = z.timers[i] /\ i < z.at
        BY <1>1, <1>5, <2>1, <3>2, PassedIs DEF AtTimer
      <4> QED BY <2>1, <4>1 DEF Passed
    <3> QED BY <3>1, <3>2
  <2> QED BY <1>3, <1>5, <2>1 DEF Passed
<1>8. Clockwork(y)
  BY <1>1, <1>3, <1>6, <1>7 DEF Clockwork, AtTimer
<1> QED BY <1>3, <1>8 DEF y

\* A handler runs for a timer that is due and was not deleted.
LEMMA RunTimerKeeps ==
  ASSUME Deployable, NEW z, Shaped(z), Clockwork(z), AtTimer(z),
         z.timers[z.at].id # Deleted, IsTime(z.timers[z.at], z.clock), RunTimer(z)
  PROVE  Clockwork(s') /\ SameFiles(z, s') /\ s'.phase = z.phase
<1> DEFINE t == z.timers[z.at]
           x == [z EXCEPT !.early = @ \/ t.sec * Unit + t.ms > z.clock,
                          !.zombie = @ \/ t.id \in z.cancelled]
<1>1. PICK e \in TimerEffects(x), d \in 0..1, again \in {0, 1, Unit + 1} :
        s' = Step(After([e EXCEPT !.clock = IF @ < MaxClock THEN @ + d ELSE @], again))
  BY Zenon DEF RunTimer
<1>2. t \in TimeEvent /\ t.id \notin z.cancelled /\ z.clock \in Nat
  BY DEF Clockwork, Counted, AtTimer
<1>3. Time(t) \in Nat /\ Time(t) <= z.clock
  BY <1>2, IsTimeIs
<1>4. ~(t.sec * Unit + t.ms > z.clock)
  BY <1>2, <1>3 DEF Time
<1>5. /\ Shaped(x) /\ SameFiles(z, x) /\ x.phase = z.phase /\ x.timers = z.timers
      /\ x.nextId = z.nextId /\ x.at = z.at /\ x.finals = z.finals /\ x.clock = z.clock
      /\ x.low = z.low /\ x.maxId = z.maxId /\ x.cancelled = z.cancelled
      /\ x.early = z.early /\ x.zombie = z.zombie
  BY Zenon, <1>2, <1>4 DEF Shaped, SameFiles, SameTable, Clockwork
<1> HIDE DEF x
<1>6. Clockwork(x) /\ AtTimer(x)
  BY <1>5 DEF Clockwork, Counted, Passed, AtTimer
<1>7. Clockwork(e) /\ SameFiles(x, e) /\ AtTimer(e) /\ e.phase = x.phase
  BY <1>1, <1>5, <1>6, TimerEffectsKeep
<1> DEFINE u == [e EXCEPT !.clock = IF @ < MaxClock THEN @ + d ELSE @]
<1>8. /\ Shaped(u) /\ SameFiles(e, u) /\ u.phase = e.phase /\ u.timers = e.timers
      /\ u.nextId = e.nextId /\ u.at = e.at /\ u.finals = e.finals
      /\ u.clock = (IF e.clock < MaxClock THEN e.clock + d ELSE e.clock)
      /\ u.low = e.low /\ u.maxId = e.maxId /\ u.cancelled = e.cancelled
      /\ u.early = e.early /\ u.zombie = e.zombie
  BY <1>7 DEF Shaped, SameFiles, SameTable
<1>9. s' = Step(After(u, again))
  BY <1>1
<1> HIDE DEF u
<1>10. Clockwork(u) /\ AtTimer(u)
  <2>1. Counted(u)
    BY <1>7, <1>8 DEF Clockwork, Counted
  <2>2. /\ e.clock \in Nat /\ e.low \in Nat /\ e.low <= e.clock /\ e.maxId < e.nextId
        /\ e.phase = "timers" /\ e.at # 0 /\ Passed(e)
    BY <1>7 DEF Clockwork, AtTimer
  <2>3. u.clock \in Nat /\ u.low <= u.clock
    BY <1>1, <1>8, <2>2
  <2>4. Passed(u)
    BY <1>8, <2>2 DEF Passed
  <2> QED BY <1>7, <1>8, <2>1, <2>2, <2>3, <2>4 DEF Clockwork, AtTimer
<1>11. Clockwork(s') /\ SameFiles(u, s') /\ s'.phase = u.phase
  BY <1>8, <1>9, <1>10, AfterKeeps
<1> QED BY <1>5, <1>7, <1>8, <1>11 DEF SameFiles, SameTable

\* A deleted timer is taken off the list and finalised.
LEMMA RemoveKeeps ==
  ASSUME NEW z, Shaped(z), Clockwork(z), AtTimer(z)
  PROVE  LET y == [z EXCEPT !.timers = Unlinked(@, z.at), !.finals = @ + 1]
         IN  Clockwork(y) /\ SameFiles(z, y) /\ y.phase = z.phase
<1> DEFINE k == z.at
           n == Len(z.timers)
           q == Unlinked(z.timers, k)
           y == [z EXCEPT !.timers = Unlinked(@, z.at), !.finals = @ + 1]
<1>1. /\ z.timers \in Seq(TimeEvent) /\ n \in Nat /\ k \in 1..n
  BY DEF Clockwork, Counted, AtTimer
<1>2. /\ q \in Seq(TimeEvent) /\ Len(q) = n - 1
      /\ \A i \in 1..n - 1 : q[i] = IF i < k THEN z.timers[i] ELSE z.timers[i + 1]
  <2> DEFINE a == SubSeq(z.timers, 1, k - 1)
             b == SubSeq(z.timers, k + 1, n)
  <2>1. /\ a \in Seq(TimeEvent) /\ Len(a) = k - 1
        /\ \A i \in 1..k - 1 : a[i] = z.timers[i]
    BY <1>1
  <2>2. /\ b \in Seq(TimeEvent) /\ Len(b) = n - k
        /\ \A i \in 1..n - k : b[i] = z.timers[k + i]
    <3>1. \A i \in k + 1..n : z.timers[i] \in TimeEvent
      BY <1>1
    <3>2. /\ b \in Seq(TimeEvent) /\ Len(b) = IF k + 1 <= n THEN n - (k + 1) + 1 ELSE 0
          /\ \A i \in 1..n - (k + 1) + 1 : b[i] = z.timers[k + 1 + i - 1]
      <4>1. k + 1 \in Int /\ n \in Int
        BY <1>1
      <4> HIDE DEF k, n
      <4> QED BY <3>1, <4>1, SubSeqProperties
    <3> HIDE DEF b
    <3>3. Len(b) = n - k
      BY <1>1, <3>2
    <3>4. \A i \in 1..n - k : k + 1 + i - 1 = k + i /\ n - (k + 1) + 1 = n - k
      BY <1>1
    <3> QED BY <1>1, <3>2, <3>3, <3>4
  <2>3. q = a \o b
    BY DEF Unlinked
  <2> HIDE DEF a, b, q
  <2>4. /\ q \in Seq(TimeEvent) /\ Len(q) = n - 1
        /\ \A i \in 1..n - 1 : q[i] = IF i <= k - 1 THEN a[i] ELSE b[i - (k - 1)]
    <3>1. /\ a \o b \in Seq(TimeEvent) /\ Len(a \o b) = Len(a) + Len(b)
          /\ \A i \in 1..Len(a) + Len(b) : (a \o b)[i] = IF i <= Len(a) THEN a[i] ELSE b[i - Len(a)]
      BY ZenonT(30), <2>1, <2>2, ConcatProperties
    <3>2. Len(a) + Len(b) = n - 1 /\ Len(a) = k - 1
      BY <1>1, <2>1, <2>2
    <3> QED BY <2>3, <3>1, <3>2
  <2>5. ASSUME NEW i \in 1..n - 1
        PROVE  q[i] = IF i < k THEN z.timers[i] ELSE z.timers[i + 1]
    <3>1. CASE i < k
      BY <1>1, <2>1, <2>4, <3>1
    <3>2. CASE ~(i < k)
      <4>1. i - (k - 1) \in 1..n - k /\ k + (i - (k - 1)) = i + 1
        BY <1>1, <3>2
      <4>2. q[i] = b[i - (k - 1)]
        BY <1>1, <2>4, <3>2
      <4> QED BY <2>2, <3>2, <4>1, <4>2
    <3> QED BY <3>1, <3>2
  <2> QED BY <2>4, <2>5
<1>3. /\ SameFiles(z, y) /\ y.timers = q /\ y.finals = z.finals + 1
      /\ y.phase = z.phase /\ y.nextId = z.nextId /\ y.at = z.at /\ y.clock = z.clock
      /\ y.low = z.low /\ y.maxId = z.maxId /\ y.cancelled = z.cancelled
      /\ y.early = z.early /\ y.zombie = z.zombie
  BY Zenon DEF Shaped, SameFiles, SameTable
<1> HIDE DEF q, y
<1>4. Counted(y)
  <2>1. ASSUME NEW i \in 1..n - 1
        PROVE  /\ (IF i < k THEN i ELSE i + 1) \in 1..n
               /\ q[i] = z.timers[IF i < k THEN i ELSE i + 1]
    BY <1>1, <1>2
  <2>2. ASSUME NEW i \in 1..n - 1 PROVE q[i].id < z.nextId /\ q[i].id \notin z.cancelled
    BY <2>1, OnListIs
  <2>3. ASSUME NEW i \in 1..n - 1, NEW j \in 1..n - 1, q[i].id = q[j].id, q[i].id # Deleted
        PROVE  i = j
    <3> DEFINE a == IF i < k THEN i ELSE i + 1
               b == IF j < k THEN j ELSE j + 1
    <3>1. a \in 1..n /\ b \in 1..n /\ q[i] = z.timers[a] /\ q[j] = z.timers[b]
      BY <2>1
    <3>2. a = b
      <4> HIDE DEF a, b
      <4> QED BY <2>3, <3>1, OnListOnce
    <3> QED BY <1>1, <3>2
  <2>4. /\ z.nextId \in Nat \ {0} /\ z.finals \in Nat /\ z.finals + n = z.nextId - 1
        /\ z.cancelled \in SUBSET (1..z.nextId - 1)
    BY ListIs
  <2>5. y.finals + Len(q) = y.nextId - 1 /\ y.finals \in Nat
    BY <1>1, <1>2, <1>3, <2>4
  <2> QED BY ZenonT(30), <1>2, <1>3, <2>2, <2>3, <2>4, <2>5 DEF Counted
<1>5. Passed(y)
  <2>1. Passed(z)
    BY PassedIs DEF AtTimer
  <2>2. ASSUME NEW i \in 1..n - 1, i < k PROVE i \in 1..n /\ q[i] = z.timers[i]
    BY <1>1, <1>2, <2>2
  <2>3. ASSUME NEW i \in 1..n - 1, i < k, q[i].id # Deleted, q[i].id <= z.maxId
        PROVE  Time(q[i]) > z.low
    BY <2>1, <2>2, <2>3 DEF Passed
  <2> QED BY <1>2, <1>3, <2>3 DEF Passed
<1>6. Clockwork(y)
  BY <1>3, <1>4, <1>5 DEF Clockwork, AtTimer
<1> QED BY <1>3, <1>6 DEF y

-----------------------------------------------------------------------------
(* The loop. *)

Calls == [kind : {"r", "w"}, cl : Nat, barrier : BOOLEAN]

\* While an event is served: without a barrier when it was taken there is none
\* later; with one the first call is of the writable handler.
Serving(z) ==
  IF z.now.invert
    THEN Len(z.calls) >= 1 => z.calls[1].kind = "w"
    ELSE /\ "b" \notin z.ev[z.now.fd].mask
         /\ \A i \in 1..Len(z.calls) : z.calls[i].barrier = FALSE

Loop(z) ==
  /\ z.phase \in {"top", "batch", "serve", "timers"} /\ z.dead = FALSE
  /\ z.fired \in Seq([fd : Fds, mask : SUBSET {"r", "w"}])
  /\ z.now \in [fd : Fds, mask : SUBSET {"r", "w"}, invert : BOOLEAN]
  /\ z.calls \in Seq(Calls)
  /\ Len(z.calls) = 2 /\ z.calls[2].barrier = TRUE => z.calls[1].kind = "w"
  /\ z.phase = "serve" => z.at \in 1..3 /\ Serving(z)

Inv == Files(s) /\ Clockwork(s) /\ Loop(s)

SameTimers(z, y) ==
  /\ y.timers = z.timers /\ y.nextId = z.nextId /\ y.maxId = z.maxId /\ y.clock = z.clock
  /\ y.low = z.low /\ y.early = z.early /\ y.zombie = z.zombie
  /\ y.cancelled = z.cancelled /\ y.finals = z.finals

LEMMA FilesFrame ==
  ASSUME NEW z, NEW y, Files(z), SameTable(z, y)
  PROVE  Files(y)
BY DEF Files, SameTable, Kernel, Owned

LEMMA ClockworkFrame ==
  ASSUME NEW z, NEW y, Clockwork(z), SameTimers(z, y), y.at \in Nat, y.phase # "timers"
  PROVE  Clockwork(y)
BY DEF Clockwork, SameTimers, Counted

LEMMA RestKeeps ==
  ASSUME NEW z, NEW y, Clockwork(z), Loop(z), Rest(z, y), z.phase # "serve"
  PROVE  Clockwork(y) /\ Loop(y)
<1>1. Clockwork(y)
  BY DEF Clockwork, Counted, Passed, Rest
<1>2. Loop(y)
  BY DEF Loop, Rest
<1> QED BY <1>1, <1>2

LEMMA PollKeeps ==
  ASSUME Deployable, Inv, Poll
  PROVE  Inv'
<1>1. PICK z \in BeforeSleep(s), f \in [Fds -> SUBSET {"r", "w"}] :
        \E order \in Orders({fd \in Fds : f[fd] # {}}) :
          s' = [z EXCEPT !.phase = "batch", !.polls = @ - 1,
                         !.fired = [i \in DOMAIN order |-> [fd |-> order[i], mask |-> f[order[i]]]]]
  BY ZenonT(30) DEF Poll
<1>2. PICK order \in Orders({fd \in Fds : f[fd] # {}}) :
          s' = [z EXCEPT !.phase = "batch", !.polls = @ - 1,
                         !.fired = [i \in DOMAIN order |-> [fd |-> order[i], mask |-> f[order[i]]]]]
  BY Zenon, <1>1
<1>3. s.phase = "top"
  BY DEF Poll
<1>4. Files(z) /\ Rest(s, z)
  BY BeforeSleepKeeps DEF Inv
<1>5. Clockwork(z) /\ Loop(z)
  BY <1>3, <1>4, RestKeeps DEF Inv
<1> DEFINE T == {fd \in Fds : f[fd] # {}}
           q == [i \in DOMAIN order |-> [fd |-> order[i], mask |-> f[order[i]]]]
<1>6. q \in Seq([fd : Fds, mask : SUBSET {"r", "w"}])
  <2>1. Cardinality(T) \in Nat
    <3>1. IsFiniteSet(Fds)
      BY FS_Interval DEF Fds, Deployable
    <3>2. IsFiniteSet(T)
      BY <3>1, FS_Subset
    <3> QED BY <3>2, FS_CardinalityType
  <2>2. order \in [1..Cardinality(T) -> T]
    BY DEF Orders, Injection
  <2>3. q \in [1..Cardinality(T) -> [fd : Fds, mask : SUBSET {"r", "w"}]]
    BY <2>2
  <2> DEFINE m == Cardinality(T)
             F == [fd : Fds, mask : SUBSET {"r", "w"}]
  <2>4. m \in Nat /\ q \in [1..m -> F]
    BY Zenon, <2>1, <2>3
  <2> HIDE DEF q, m, F
  <2>5. q \in Seq(F)
    BY <2>4
  <2> QED BY <2>5 DEF F
<1>7. /\ SameTable(z, s') /\ SameTimers(z, s') /\ s'.phase = "batch" /\ s'.at = z.at
      /\ s'.dead = z.dead /\ s'.calls = z.calls /\ s'.now = z.now /\ s'.fired = q
  <2> HIDE DEF q
  <2>1. s' = [z EXCEPT !.phase = "batch", !.polls = @ - 1, !.fired = q]
    BY <1>2 DEF q
  <2> QED BY Zenon, <1>4, <2>1 DEF Files, Shaped, SameTable, SameTimers
<1> HIDE DEF q
<1>8. Files(s') /\ Clockwork(s')
  BY ZenonT(30), <1>4, <1>5, <1>7, FilesFrame, ClockworkFrame DEF Clockwork
<1>9. Loop(s')
  BY <1>5, <1>6, <1>7 DEF Loop
<1> QED BY <1>8, <1>9 DEF Inv

LEMMA TakeKeeps ==
  ASSUME Deployable, Inv, Take
  PROVE  Inv'
<1>1. CASE s.fired = <<>>
  <2>1. /\ SameTable(s, s') /\ SameTimers(s, s') /\ s'.phase = "top" /\ s'.at = s.at
        /\ s'.dead = s.dead /\ s'.calls = s.calls /\ s'.now = s.now /\ s'.fired = s.fired
    BY <1>1, ZenonT(30) DEF Take, Inv, Files, Shaped, SameTable, SameTimers
  <2>2. Files(s') /\ Clockwork(s')
    BY ZenonT(30), <2>1, FilesFrame, ClockworkFrame DEF Inv, Clockwork
  <2>3. Loop(s')
    BY <2>1 DEF Inv, Loop
  <2> QED BY <2>2, <2>3 DEF Inv
<1>2. CASE s.fired # <<>>
  <2> DEFINE e == s.fired[1]
             n == [fd |-> e.fd, mask |-> e.mask, invert |-> "b" \in s.ev[e.fd].mask]
  <2>1. /\ e \in [fd : Fds, mask : SUBSET {"r", "w"}]
        /\ Tail(s.fired) \in Seq([fd : Fds, mask : SUBSET {"r", "w"}])
    <3> DEFINE F == [fd : Fds, mask : SUBSET {"r", "w"}]
    <3>1. s.fired \in Seq(F)
      BY DEF Inv, Loop
    <3> HIDE DEF F
    <3>2. s.fired[1] \in F /\ Tail(s.fired) \in Seq(F)
      BY <1>2, <3>1
    <3> QED BY <3>2 DEF F
  <2>2. /\ n \in [fd : Fds, mask : SUBSET {"r", "w"}, invert : BOOLEAN]
        /\ n.invert = FALSE => "b" \notin s.ev[n.fd].mask
    <3>1. e.fd \in Fds /\ e.mask \in SUBSET {"r", "w"} /\ ("b" \in s.ev[e.fd].mask) \in BOOLEAN
      BY <2>1
    <3>2. n \in [fd : Fds, mask : SUBSET {"r", "w"}, invert : BOOLEAN]
      BY <3>1, Zenon
    <3>3. n.fd = e.fd /\ n.invert = ("b" \in s.ev[e.fd].mask)
      BY Zenon
    <3> QED BY <3>2, <3>3, Zenon
  <2>3. /\ SameTable(s, s') /\ SameTimers(s, s') /\ s'.phase = "serve" /\ s'.at = 1
        /\ s'.dead = s.dead /\ s'.calls = <<>> /\ s'.now = n /\ s'.fired = Tail(s.fired)
    BY Zenon, <1>2 DEF Take, Inv, Files, Shaped, SameTable, SameTimers
  <2> HIDE DEF n
  <2>4. Files(s') /\ Clockwork(s')
    BY <2>3, FilesFrame, ClockworkFrame DEF Inv
  <2>5. s'.ev = s.ev
    BY <2>3 DEF SameTable
  <2>6. Len(<<>>) = 0 /\ <<>> \in Seq(Calls)
    OBVIOUS
  <2>7. Serving(s')
    BY <2>2, <2>3, <2>5, <2>6 DEF Serving
  <2>8. Loop(s')
    BY <2>1, <2>2, <2>3, <2>6, <2>7 DEF Inv, Loop
  <2> QED BY <2>4, <2>8 DEF Inv
<1> QED BY <1>1, <1>2

\* The next call of a fired event, or none if it is not due.
LEMMA AdvanceKeeps ==
  ASSUME NEW z, Files(z), Clockwork(z), z.phase = "serve", z.at \in 1..3, z.dead = FALSE,
         z.fired \in Seq([fd : Fds, mask : SUBSET {"r", "w"}]),
         z.now \in [fd : Fds, mask : SUBSET {"r", "w"}, invert : BOOLEAN],
         z.calls \in Seq(Calls),
         Len(z.calls) = 2 /\ z.calls[2].barrier = TRUE => z.calls[1].kind = "w",
         z.at < 3 => Serving(z)
  PROVE  LET y == Advance(z) IN Files(y) /\ Clockwork(y) /\ Loop(y)
<1> DEFINE y == Advance(z)
<1>1. /\ SameTable(z, y) /\ SameTimers(z, y) /\ y.at = z.at + 1
      /\ y.phase = (IF z.at = 3 THEN "batch" ELSE "serve")
      /\ y.dead = z.dead /\ y.calls = z.calls /\ y.now = z.now /\ y.fired = z.fired
  BY Zenon DEF Advance, Files, Shaped, SameTable, SameTimers
<1> HIDE DEF y
<1>2. Files(y) /\ Clockwork(y)
  BY <1>1, FilesFrame, ClockworkFrame
<1>3. z.at < 3 => Serving(y)
  BY <1>1 DEF Serving, SameTable
<1>4. Loop(y)
  BY <1>1, <1>3 DEF Loop
<1> QED BY <1>2, <1>4 DEF y

LEMMA ServeKeeps ==
  ASSUME Deployable, Inv, Serve
  PROVE  Inv'
<1> DEFINE n == s.now
<1>1. /\ s.phase = "serve" /\ s.at \in 1..3 /\ Serving(s) /\ s.dead = FALSE
      /\ n \in [fd : Fds, mask : SUBSET {"r", "w"}, invert : BOOLEAN] /\ n.fd \in Fds
      /\ s.calls \in Seq(Calls) /\ Files(s) /\ Clockwork(s)
  BY DEF Serve, Inv, Loop
<1>2. CASE ~Due(s)
  <2>1. s' = Advance(s)
    BY <1>2 DEF Serve
  <2> QED BY Zenon, <1>1, <2>1, AdvanceKeeps DEF Inv, Loop
<1>3. CASE Due(s)
  <2> DEFINE c == [kind |-> Kind(s), cl |-> s.ev[n.fd].cl, barrier |-> "b" \in s.ev[n.fd].mask]
             q == Append(s.calls, c)
             x == Call(s)
  <2>1. /\ s.at = 1 => n.invert = FALSE
        /\ s.at = 3 => n.invert = TRUE
        /\ s.ev[n.fd].mask # {}
    <3>1. n.invert \in BOOLEAN /\ s.at \in {1, 2, 3}
      BY <1>1
    <3>2. CASE s.at = 1
      <4>1. ~n.invert /\ "r" \in s.ev[n.fd].mask
        BY <1>3, <3>2 DEF Due, Called
      <4> QED BY <3>1, <3>2, <4>1
    <3>3. CASE s.at = 2
      BY <1>3, <3>3 DEF Due, Called
    <3>4. CASE s.at = 3
      <4>1. n.invert /\ "r" \in s.ev[n.fd].mask
        BY <1>3, <3>4 DEF Due, Called
      <4> QED BY <3>1, <3>4, <4>1
    <3> QED BY ZenonT(30), <3>1, <3>2, <3>3, <3>4
  <2>2. s.conn[n.fd] = s.ev[n.fd].cl /\ s.conn[n.fd] # 0 /\ s.ev[n.fd] \in Event
    BY <1>1, <2>1 DEF Files, Owned
  <2>3. c \in Calls /\ c.kind = Kind(s) /\ c.barrier = ("b" \in s.ev[n.fd].mask)
    BY <2>2 DEF Calls, Kind, Event
  <2>4. /\ SameTable(s, x) /\ SameTimers(s, x) /\ x.phase = "serve" /\ x.at = s.at
        /\ x.now = n /\ x.fired = s.fired /\ x.calls = q /\ x.dead = FALSE
    BY ZenonT(30), <1>1, <2>2 DEF Call, Files, Shaped, SameTable, SameTimers
  <2> HIDE DEF x, c
  <2>5. /\ q \in Seq(Calls) /\ Len(q) = Len(s.calls) + 1 /\ q[Len(q)] = c
        /\ \A i \in 1..Len(s.calls) : q[i] = s.calls[i]
    BY <1>1, <2>3
  <2> HIDE DEF q
  <2>6. Files(x) /\ Clockwork(x)
    BY <1>1, <2>4, FilesFrame, ClockworkFrame
  <2>7. PICK z \in Effects(x, n.fd) : s' = Advance(z)
    BY <1>3 DEF Serve, x
  <2>8. Served(x, z)
    BY <1>1, <2>6, EffectsKeep
  <2>9. /\ Files(z) /\ SameTimers(x, z) /\ z.phase = "serve" /\ z.at = s.at /\ z.now = n
        /\ z.fired = s.fired /\ z.calls = q /\ z.dead = FALSE
        /\ "b" \notin s.ev[n.fd].mask => "b" \notin z.ev[n.fd].mask
    BY <1>1, <2>4, <2>8 DEF Served, Rest, SameTimers, SameTable, NoNewBarrier
  <2>10. Clockwork(z)
    BY <1>1, <2>6, <2>9, ClockworkFrame
  <2>11. s.calls # <<>> => Len(s.calls) >= 1
    BY <1>1
  <2>12. Len(q) = 2 /\ q[2].barrier = TRUE => q[1].kind = "w"
    <3>1. CASE n.invert = TRUE
      <4>1. Len(s.calls) >= 1 => s.calls[1].kind = "w"
        BY <1>1, <3>1 DEF Serving
      <4>2. Len(s.calls) \in Nat
        BY <1>1
      <4>3. Len(q) = 2 => Len(s.calls) = 1 /\ q[1] = s.calls[1]
        <5> SUFFICES ASSUME Len(q) = 2 PROVE Len(s.calls) = 1 /\ q[1] = s.calls[1]
          OBVIOUS
        <5>1. 2 = Len(s.calls) + 1
          BY ZenonT(30), <2>5
        <5>2. Len(s.calls) = 1 /\ 1 \in 1..Len(s.calls)
          <6> DEFINE m == Len(s.calls)
          <6>1. m \in Nat /\ 2 = m + 1
            BY <4>2, <5>1
          <6> HIDE DEF m
          <6>2. m = 1 /\ 1 \in 1..m
            BY <6>1
          <6> QED BY <6>2 DEF m
        <5> QED BY <2>5, <5>2
      <4> QED BY <4>1, <4>3
    <3>2. CASE n.invert = FALSE
      BY Zenon, <1>1, <2>3, <2>5, <3>2 DEF Serving
    <3> QED BY Zenon, <1>1, <3>1, <3>2
  <2>13. z.at < 3 => Serving(z)
    <3>1. CASE n.invert = TRUE /\ s.at < 3
      <4>1. s.at = 2 /\ Kind(s) = "w"
        BY <1>1, <2>1, <3>1 DEF Kind
      <4>2. q[1].kind = "w"
        BY <1>1, <2>3, <2>5, <3>1, <4>1 DEF Serving
      <4> QED BY <2>9, <3>1, <4>2 DEF Serving
    <3>2. CASE n.invert = FALSE
      <4>1. "b" \notin s.ev[n.fd].mask /\ c.barrier = FALSE
        BY <1>1, <2>3, <3>2 DEF Serving
      <4>2. \A i \in 1..Len(q) : q[i].barrier = FALSE
        BY <1>1, <2>5, <3>2, <4>1 DEF Serving
      <4> QED BY <2>9, <3>2, <4>1, <4>2 DEF Serving
    <3> QED BY Zenon, <1>1, <2>9, <3>1, <3>2
  <2>14. Files(s') /\ Clockwork(s') /\ Loop(s')
    BY ZenonT(30), <1>1, <2>5, <2>7, <2>9, <2>10, <2>12, <2>13, AdvanceKeeps DEF Inv, Loop
  <2> QED BY <2>14 DEF Inv
<1> QED BY <1>2, <1>3

\* aeSearchNearestTimer finds a timer, so the loop sleeps for some time.
LEMMA TimeoutIs ==
  ASSUME Deployable, NEW z, Clockwork(z)
  PROVE  Timeout(z) \in Nat
<1>1. CASE z.timers = <<>>
  BY <1>1 DEF Timeout
<1>2. CASE z.timers # <<>>
  <2> DEFINE S == Range(z.timers)
             U == {Time(t) : t \in S}
  <2>1. S \subseteq TimeEvent /\ S # {}
    <3>1. z.timers \in Seq(TimeEvent) /\ Len(z.timers) \in Nat \ {0}
      BY <1>2 DEF Clockwork, Counted
    <3>2. z.timers[1] \in S
      BY <3>1 DEF Range
    <3>3. \A i \in DOMAIN z.timers : z.timers[i] \in TimeEvent
      BY <3>1
    <3> QED BY <3>2, <3>3 DEF Range
  <2>2. U \in SUBSET Nat /\ U # {}
    BY <2>1, IsTimeIs
  <2>3. PICK u \in U : \A x \in U : u <= x
    BY Zenon, <2>2, LeastExists
  <2>4. PICK t \in S : u = Time(t)
    BY <2>3
  <2>5. \A v \in S : Time(v) >= Time(t)
    BY <2>2, <2>3, <2>4
  <2>6. \A v \in S : ~Earlier(v, t)
    <3> SUFFICES ASSUME NEW v \in S, Earlier(v, t) PROVE FALSE
      OBVIOUS
    <3>1. v.sec \in Nat /\ v.ms \in 0..Unit - 1 /\ t.sec \in Nat /\ t.ms \in 0..Unit - 1 /\ Unit \in Nat
      BY <2>1, <2>4 DEF TimeEvent, Deployable
    <3>2. v.sec * Unit + v.ms >= t.sec * Unit + t.ms
      BY <2>5 DEF Time
    <3>3. CASE v.sec < t.sec
      <4>1. v.sec * Unit \in Nat /\ t.sec * Unit \in Nat /\ v.sec * Unit + Unit <= t.sec * Unit
        BY <3>1, <3>3, Seconds
      <4> QED BY <3>1, <3>2, <4>1
    <3>4. CASE v.sec = t.sec /\ v.ms < t.ms
      <4>1. v.sec * Unit \in Nat
        BY <3>1
      <4> QED BY <3>1, <3>2, <3>4, <4>1
    <3> QED BY <3>3, <3>4 DEF Earlier
  <2>7. Nearest(z) \in S
    BY <2>4, <2>6 DEF Nearest
  <2> HIDE DEF S
  <2>8. Nearest(z).sec \in Nat /\ Nearest(z).ms \in 0..Unit - 1
    BY <2>1, <2>7 DEF TimeEvent
  <2>9. z.clock \in Nat /\ Sec(z.clock) \in Nat /\ Ms(z.clock) \in 0..Unit - 1 /\ Unit \in Nat
    BY SecMs DEF Clockwork, Deployable
  <2>10. (Nearest(z).sec - Sec(z.clock)) * Unit \in Int
    BY <2>8, <2>9
  <2> QED BY <1>2, <2>8, <2>9, <2>10 DEF Timeout
<1> QED BY <1>1, <1>2

\* Timers are made due at once when the clock went back; the pass begins.
LEMMA BeginTimersKeeps ==
  ASSUME Deployable, NEW z, Shaped(z), Clockwork(z)
  PROVE  LET y == BeginTimers(z)
         IN  Clockwork(y) /\ SameFiles(z, y) /\ y.phase = "timers"
<1> DEFINE n == Len(z.timers)
           back == Sec(z.clock) < z.lastTime
           q == IF back THEN [i \in DOMAIN z.timers |-> [z.timers[i] EXCEPT !.sec = 0]]
                ELSE z.timers
           y == BeginTimers(z)
<1>1. /\ SameFiles(z, y) /\ y.timers = q /\ y.phase = "timers" /\ y.at = 1
      /\ y.nextId = z.nextId /\ y.finals = z.finals /\ y.cancelled = z.cancelled
      /\ y.maxId = z.nextId - 1 /\ y.clock = z.clock /\ y.low = z.clock
      /\ y.early = z.early /\ y.zombie = z.zombie
  BY Zenon DEF BeginTimers, Shaped, SameFiles, SameTable
<1> HIDE DEF y
<1>2. z.timers \in Seq(TimeEvent) /\ n \in Nat /\ DOMAIN z.timers = 1..n
  BY DEF Clockwork, Counted
<1>3. ASSUME NEW i \in 1..n
      PROVE  q[i] \in TimeEvent /\ q[i].id = z.timers[i].id
  <2>1. z.timers[i] \in TimeEvent
    BY <1>2
  <2> QED BY Zenon, <1>2, <2>1 DEF TimeEvent
<1>4. q \in Seq(TimeEvent) /\ Len(q) = n
  <2>1. CASE back
    <3>1. q \in [1..n -> TimeEvent]
      BY Zenon, <1>2, <1>3, <2>1
    <3> HIDE DEF q
    <3> QED BY <1>2, <3>1
  <2>2. CASE ~back
    BY <1>2, <2>2
  <2> QED BY <2>1, <2>2
<1> HIDE DEF q
<1>5. Counted(y)
  BY ZenonT(30), <1>1, <1>3, <1>4 DEF Clockwork, Counted
<1>6. Passed(y)
  BY <1>1 DEF Passed
<1>7. Clockwork(y)
  BY <1>1, <1>5, <1>6 DEF Clockwork, Counted
<1> QED BY <1>1, <1>7 DEF y

LEMMA TimersLoop ==
  ASSUME NEW z, NEW y, Loop(z), SameFiles(z, y), y.phase \in {"top", "timers"}
  PROVE  Loop(y)
BY DEF Loop, SameFiles

LEMMA SleepKeeps ==
  ASSUME Deployable, Inv, Sleep
  PROVE  Inv'
<1>1. PICK d \in 0..Timeout(s) : s' = BeginTimers([s EXCEPT !.clock = @ + d, !.polls = @ - 1])
  BY Zenon DEF Sleep
<1> DEFINE z == [s EXCEPT !.clock = @ + d, !.polls = @ - 1]
<1>2. d \in Nat /\ s.phase = "top"
  BY TimeoutIs DEF Inv, Sleep
<1>3. /\ Shaped(z) /\ SameFiles(s, z) /\ z.timers = s.timers /\ z.nextId = s.nextId
      /\ z.maxId = s.maxId /\ z.clock = s.clock + d /\ z.low = s.low /\ z.early = s.early
      /\ z.zombie = s.zombie /\ z.cancelled = s.cancelled /\ z.finals = s.finals
      /\ z.at = s.at /\ z.phase = s.phase
  BY Zenon DEF Inv, Files, Shaped, SameFiles, SameTable
<1>4. s' = BeginTimers(z)
  BY <1>1
<1> HIDE DEF z
<1>5. Clockwork(z)
  BY <1>2, <1>3 DEF Inv, Clockwork, Counted
<1>6. Clockwork(s') /\ SameFiles(z, s') /\ s'.phase = "timers"
  BY <1>3, <1>4, <1>5, BeginTimersKeeps
<1>7. SameFiles(s, s')
  BY <1>3, <1>6 DEF SameFiles, SameTable
<1>8. Files(s') /\ Loop(s')
  BY <1>6, <1>7, FilesFrame, TimersLoop DEF Inv, SameFiles
<1> QED BY <1>6, <1>8 DEF Inv

LEMMA TimerKeeps ==
  ASSUME Deployable, Inv, Timer
  PROVE  Inv'
<1> DEFINE t == s.timers[s.at]
<1>1. s.phase = "timers" /\ Shaped(s) /\ Clockwork(s) /\ s.at \in Nat \ {0}
  BY DEF Timer, Inv, Files, Clockwork
<1>2. Len(s.timers) \in Nat /\ s.timers \in Seq(TimeEvent)
  BY <1>1 DEF Clockwork, Counted
<1>3. Clockwork(s') /\ SameFiles(s, s') /\ s'.phase \in {"top", "timers"}
  <2>1. CASE s.at > Len(s.timers)
    <3>1. s' = [s EXCEPT !.phase = "top"]
      BY <2>1 DEF Timer
    <3>2. /\ SameFiles(s, s') /\ SameTimers(s, s') /\ s'.at = s.at /\ s'.phase = "top"
      BY <1>1, <3>1 DEF Shaped, SameFiles, SameTable, SameTimers
    <3> QED BY <1>1, <3>2, ClockworkFrame
  <2>2. CASE ~(s.at > Len(s.timers)) /\ t.id = Deleted
    <3>1. s' = [s EXCEPT !.timers = Unlinked(@, s.at), !.finals = @ + 1]
      BY <2>2 DEF Timer
    <3>2. AtTimer(s)
      BY <1>1, <1>2, <2>2 DEF AtTimer
    <3> QED BY ZenonT(30), <1>1, <3>1, <3>2, RemoveKeeps
  <2>3. CASE ~(s.at > Len(s.timers)) /\ t.id # Deleted /\ (t.id > s.maxId \/ ~IsTime(t, s.clock)) /\ s' = Step(s)
    <3>1. /\ SameFiles(s, s') /\ SameTimers(s, s') /\ s'.at = s.at + 1 /\ s'.phase = s.phase
      BY <1>1, <2>3 DEF Step, Shaped, SameFiles, SameTable, SameTimers
    <3>2. t \in TimeEvent /\ s.clock \in Nat /\ s.low \in Nat /\ s.low <= s.clock /\ s.maxId \in Nat
      BY <1>1, <1>2, <2>3 DEF Clockwork
    <3>3. Time(t) \in Nat /\ (t.id <= s.maxId => Time(t) > s.clock)
      BY <2>3, <3>2, IsTimeIs DEF TimeEvent
    <3>4. Passed(s')
      <4>1. ASSUME NEW i \in 1..Len(s.timers), i < s.at + 1, s.timers[i].id # Deleted,
                   s.timers[i].id <= s.maxId
            PROVE  Time(s.timers[i]) > s.low
        <5>1. CASE i = s.at
          BY <3>2, <3>3, <4>1, <5>1
        <5>2. CASE i # s.at
          BY <1>1, <4>1, <5>2 DEF Clockwork, Passed
        <5> QED BY <5>1, <5>2
      <4> QED BY <3>1, <4>1 DEF Passed, SameTimers
    <3>5. Clockwork(s')
      BY <1>1, <3>1, <3>4 DEF Clockwork, Counted, SameTimers
    <3> QED BY <1>1, <3>1, <3>5
  <2>4. CASE ~(s.at > Len(s.timers)) /\ t.id # Deleted /\ IsTime(t, s.clock) /\ RunTimer(s)
    <3>1. AtTimer(s)
      BY <1>1, <1>2, <2>4 DEF AtTimer
    <3> QED BY <1>1, <2>4, <3>1, RunTimerKeeps
  <2> QED BY <2>1, <2>2, <2>3, <2>4 DEF Timer
<1>4. Files(s') /\ Loop(s')
  BY <1>3, FilesFrame, TimersLoop DEF Inv, SameFiles
<1> QED BY <1>3, <1>4 DEF Inv

\* The clock goes back, and with it the lowest time it showed in the pass: what
\* was due after the one is due after the other.
LEMMA SetBackKeeps ==
  ASSUME Deployable, Inv, SetBack
  PROVE  Inv'
<1>1. PICK c \in 0..s.clock - 1 :
        s' = [s EXCEPT !.clock = c, !.backs = @ - 1, !.low = IF c < @ THEN c ELSE @]
  BY Zenon DEF SetBack
<1>2. /\ s.clock \in Nat /\ s.low \in Nat /\ s.phase \in {"top", "timers"}
      /\ s.phase = "timers" => s.low <= s.clock
  BY DEF SetBack, Inv, Clockwork
<1>3. /\ SameFiles(s, s') /\ s'.timers = s.timers /\ s'.nextId = s.nextId
      /\ s'.maxId = s.maxId /\ s'.clock = c /\ s'.low = (IF c < s.low THEN c ELSE s.low)
      /\ s'.early = s.early /\ s'.zombie = s.zombie /\ s'.cancelled = s.cancelled
      /\ s'.finals = s.finals /\ s'.at = s.at /\ s'.phase = s.phase
  BY <1>1, Zenon DEF Inv, Files, Shaped, SameFiles, SameTable
<1>4. c \in Nat /\ s'.low \in Nat /\ s'.low <= c /\ s'.low <= s.low
  BY <1>2, <1>3
<1>5. ASSUME Passed(s) PROVE Passed(s')
  <2> SUFFICES ASSUME NEW i \in 1..Len(s.timers), i < s.at,
                      s.timers[i].id # Deleted, s.timers[i].id <= s.maxId
               PROVE  Time(s.timers[i]) > s'.low
    BY <1>3 DEF Passed
  <2>1. Time(s.timers[i]) > s.low
    BY <1>5 DEF Passed
  <2>2. Time(s.timers[i]) \in Int
    <3>1. s.timers[i] \in TimeEvent
      BY DEF Inv, Clockwork, Counted
    <3> QED BY <3>1 DEF TimeEvent, Time, Deployable
  <2> QED BY <1>2, <1>4, <2>1, <2>2
<1>6. Clockwork(s')
  BY <1>3, <1>4, <1>5 DEF Inv, Clockwork, Counted
<1>7. Files(s') /\ Loop(s')
  BY ZenonT(30), <1>2, <1>3, FilesFrame, TimersLoop DEF Inv, SameFiles
<1> QED BY <1>6, <1>7 DEF Inv

LEMMA InitInv ==
  ASSUME Deployable, Init
  PROVE  Inv
<1>1. PICK sc \in Scenarios :
  LET z == [sc |-> sc, phase |-> "top", polls |-> sc.polls, ev |-> [fd \in Fds |-> NoEvent], api |-> [fd \in Fds |-> Off], maxfd |-> -1,
            conn |-> [fd \in Fds |-> 0], opened |-> 0, ok |-> TRUE, dead |-> FALSE, fired |-> <<>>, at |-> 0, calls |-> <<>>,
            now |-> [fd |-> 0, mask |-> {}, invert |-> FALSE], timers |-> <<>>, nextId |-> 1, maxId |-> 0, clock |-> 0, lastTime |-> 0,
            low |-> 0, backs |-> sc.backs, early |-> FALSE, zombie |-> FALSE, cancelled |-> {}, finals |-> 0]
  IN s = IF sc.files THEN Open(Open(z)) ELSE CreateTimer(CreateTimer(z, 1), Unit)
  BY Zenon DEF Init
<1> DEFINE z == [sc |-> sc, phase |-> "top", polls |-> sc.polls, ev |-> [fd \in Fds |-> NoEvent], api |-> [fd \in Fds |-> Off], maxfd |-> -1,
            conn |-> [fd \in Fds |-> 0], opened |-> 0, ok |-> TRUE, dead |-> FALSE, fired |-> <<>>, at |-> 0, calls |-> <<>>,
            now |-> [fd |-> 0, mask |-> {}, invert |-> FALSE], timers |-> <<>>, nextId |-> 1, maxId |-> 0, clock |-> 0, lastTime |-> 0,
            low |-> 0, backs |-> sc.backs, early |-> FALSE, zombie |-> FALSE, cancelled |-> {}, finals |-> 0]
<1>2. /\ Shaped(z) /\ z.phase = "top" /\ z.maxfd = -1 /\ z.opened = 0 /\ z.ok = TRUE
      /\ z.dead = FALSE /\ z.fired = <<>> /\ z.at = 0 /\ z.calls = <<>>
      /\ z.now = [fd |-> 0, mask |-> {}, invert |-> FALSE] /\ z.timers = <<>>
      /\ z.nextId = 1 /\ z.maxId = 0 /\ z.clock = 0 /\ z.low = 0 /\ z.early = FALSE
      /\ z.zombie = FALSE /\ z.cancelled = {} /\ z.finals = 0
      /\ z.ev = [fd \in Fds |-> NoEvent] /\ z.api = [fd \in Fds |-> Off]
      /\ z.conn = [fd \in Fds |-> 0]
  BY ZenonT(30) DEF Shaped
<1>3. s = IF sc.files THEN Open(Open(z)) ELSE CreateTimer(CreateTimer(z, 1), Unit)
  BY ZenonT(30), <1>1
<1> HIDE DEF z
<1>4. Files(z)
  <2>1. Watched(z.ev) = {}
    BY <1>2 DEF Watched, NoEvent
  <2>2. Max({-1}) = -1
    BY MaxIs
  <2>3. Max({-1} \cup Watched(z.ev)) = -1
    BY <2>1, <2>2
  <2>4. z.ev \in [Fds -> Event] /\ z.api \in [Fds -> SUBSET {"off", "r", "w"}] /\ z.conn \in [Fds -> Nat]
    BY <1>2 DEF NoEvent, Event, Off
  <2>5. Kernel(z) /\ Owned(z)
    BY <1>2 DEF Kernel, Owned, NoEvent
  <2>6. Shaped(z) /\ z.opened \in Nat /\ z.ok = TRUE /\ z.maxfd = -1
    BY <1>2
  <2> QED BY Zenon, <2>3, <2>4, <2>5, <2>6 DEF Files
<1>5. Clockwork(z)
  BY <1>2 DEF Clockwork, Counted
<1>6. Loop(z)
  <2>1. z.now \in [fd : Fds, mask : SUBSET {"r", "w"}, invert : BOOLEAN]
    BY <1>2 DEF Fds, Deployable
  <2> QED BY <1>2, <2>1 DEF Loop
<1>7. CASE sc.files
  <2>1. Served(z, Open(z))
    BY <1>4, OpenKeeps
  <2>2. Served(Open(z), Open(Open(z)))
    BY <2>1, OpenKeeps DEF Served
  <2>3. Served(z, s)
    BY <1>3, <1>7, <2>1, <2>2, ServedTwice
  <2> QED BY <1>2, <1>5, <1>6, <2>3, RestKeeps DEF Inv, Served
<1>8. CASE ~sc.files
  <2> DEFINE x == CreateTimer(z, 1)
  <2>1. Clockwork(x) /\ SameFiles(z, x) /\ x.phase = "top"
    BY <1>2, <1>5, CreateTimerKeeps
  <2> HIDE DEF x
  <2>2. s = CreateTimer(x, Unit) /\ Unit \in Nat
    BY <1>3, <1>8 DEF x, Deployable
  <2>3. Clockwork(s) /\ SameFiles(x, s) /\ s.phase = "top"
    BY <2>1, <2>2, CreateTimerKeeps DEF SameFiles, SameTable
  <2>4. SameFiles(z, s)
    BY <2>1, <2>3 DEF SameFiles, SameTable
  <2>5. Files(s) /\ Loop(s)
    BY <1>4, <1>6, <2>3, <2>4, FilesFrame, TimersLoop DEF SameFiles
  <2> QED BY <2>3, <2>5 DEF Inv
<1> QED BY <1>7, <1>8

-----------------------------------------------------------------------------
(* The results. *)

\* The inductive invariant: events belong to the connection their descriptor
\* is, the kernel watches what the table says, calls are ordered by the
\* barrier, and every timer ever made is accounted for (aeProcessEvents,
\* processTimeEvents).
THEOREM EventsInvariance ==
  ASSUME Deployable
  PROVE  Spec => []Inv
<1>1. Init => Inv
  BY InitInv
<1>2. Inv /\ [Next]_s => Inv'
  <2> SUFFICES ASSUME Inv, [Next]_s PROVE Inv'
    OBVIOUS
  <2>1. CASE UNCHANGED s
    BY <2>1 DEF Inv
  <2> QED BY <2>1, PollKeeps, TakeKeeps, ServeKeeps, SleepKeeps, TimerKeeps, SetBackKeeps DEF Next
<1> QED BY <1>1, <1>2, PTL DEF Spec

\* The kernel always watches what the table of events says, adding an event
\* never fails, and maxfd is the highest descriptor with an event, whatever
\* the handlers add, delete, close and open (aeCreateFileEvent,
\* aeDeleteFileEvent).
THEOREM TableAlwaysSound ==
  ASSUME Deployable
  PROVE  Spec => []TableSound
<1>1. Inv => TableSound
  BY DEF Inv, Files, Kernel, Watched, TableSound
<1> QED BY <1>1, EventsInvariance, PTL

\* No handler ever runs for a connection an earlier handler of the batch
\* closed, also when its descriptor was taken by another since, and a barrier
\* puts the reply before the next request (aeProcessEvents).
THEOREM HandlersAlwaysSound ==
  ASSUME Deployable
  PROVE  Spec => []HandlersSound
<1>1. Inv => HandlersSound
  <2> SUFFICES ASSUME Inv PROVE HandlersSound
    OBVIOUS
  <2>1. s.dead = FALSE
    BY DEF Inv, Loop
  <2>2. Len(s.calls) = 2 => s.calls[2] \in Calls
    BY DEF Inv, Loop
  <2>3. Len(s.calls) = 2 /\ s.calls[2].barrier => s.calls[1].kind = "w"
    BY <2>2 DEF Inv, Loop, Calls
  <2> QED BY <2>1, <2>3 DEF HandlersSound
<1> QED BY <1>1, EventsInvariance, PTL

\* No timer runs before the time it is set to or after it was deleted, every
\* timer made is on the list or was finalised, once, and a pass leaves none
\* behind that was due at the lowest time the clock showed in it, whatever
\* timers handlers make and delete, however long they take and however often
\* and far the clock is set back, between passes or inside one
\* (processTimeEvents).
THEOREM TimersAlwaysSound ==
  ASSUME Deployable
  PROVE  Spec => []TimersSound
<1>1. Inv => TimersSound
  <2> SUFFICES ASSUME Inv PROVE TimersSound
    OBVIOUS
  <2>1. /\ s.early = FALSE /\ s.zombie = FALSE /\ s.finals + Len(s.timers) = s.nextId - 1
        /\ DOMAIN s.timers = 1..Len(s.timers) /\ Len(s.timers) \in Nat /\ s.at \in Nat
        /\ s.phase = "timers" => Passed(s)
    BY DEF Inv, Clockwork, Counted
  <2>2. s.phase = "timers" /\ s.at > Len(s.timers) =>
          \A i \in DOMAIN s.timers :
            s.timers[i].id # Deleted /\ s.timers[i].id <= s.maxId
              => s.timers[i].sec * Unit + s.timers[i].ms > s.low
    BY <2>1 DEF Passed, Time
  <2> QED BY <2>1, <2>2 DEF TimersSound
<1> QED BY <1>1, EventsInvariance, PTL

=============================================================================
