-------------------------- MODULE Sentinel_proofs --------------------------
(***************************************************************************)
(* Proofs about sentinel.c, for any number of Sentinels and instances, any *)
(* quorum, and any number of failovers, lost replies and restarts.  A step *)
(* changes one memory, or two for a reply; what it does to them is in      *)
(* SentinelMemory_proofs.                                                  *)
(***************************************************************************)
EXTENDS SentinelMemory_proofs

TypeInv ==
  /\ conf \in Configs
  /\ st \in [Sentinels -> Memory]
  /\ disk \in [Sentinels -> Epochs]
  /\ asks \in [Sentinels -> Requests \cup {None}]
  /\ faults \in Nat
  /\ votes \in SUBSET (Sentinels \X Nat \X Sentinels)
  /\ elected \in SUBSET (Sentinels \X Nat)

Inv ==
  /\ TypeInv
  /\ \A s \in Sentinels : /\ Sound(s, st[s], votes, elected) /\ st[s].state # 6
                          /\ FileOK(disk[s], st[s], elected)
  /\ OneVotePerEpoch /\ LeaderWasVoted

-----------------------------------------------------------------------------
(* Steps.  At most one vote is cast in a step, later than every other of the *)
(* same Sentinel, and at most one election is won, by a majority.           *)

LEMMA BackersGrow ==
  ASSUME Deployable, NEW V, NEW W, V \subseteq W, NEW e,
         2 * Cardinality(Backers(e, V)) > Voters
  PROVE  2 * Cardinality(Backers(e, W)) > Voters
<1> DEFINE A == Backers(e, V)
           B == Backers(e, W)
<1>1. A \subseteq B /\ B \subseteq Sentinels
  BY DEF Backers
<1>2. IsFiniteSet(B) /\ IsFiniteSet(A) /\ IsFiniteSet(Sentinels)
  BY <1>1, FS_Subset DEF Deployable
<1>3. Cardinality(A) <= Cardinality(B)
  BY <1>1, <1>2, FS_Subset
<1>4. Cardinality(A) \in Nat /\ Cardinality(B) \in Nat /\ Voters \in Nat
  BY <1>2, FS_CardinalityType DEF Voters
<1> HIDE DEF A, B
<1>5. 2 * Cardinality(B) > Voters
  BY <1>3, <1>4 DEF A
<1> QED BY <1>5 DEF B

\* s casts a vote, or nobody does.
Casts(s) ==
  \/ votes' = votes
  \/ \E b \in Sentinels \X Nat \X Sentinels :
       votes' = votes \cup {b} /\ b[1] = s /\ b[2] > st[s].lepoch

\* An election is won by a majority, or none is.
Chooses ==
  \/ elected' = elected
  \/ \E e \in Sentinels \X Nat :
       /\ elected' = elected \cup {e}
       /\ 2 * Cardinality(Backers(e, votes')) > Voters

Steady == \A s \in Sentinels : faults' = faults => ConfigStep(s)

LEMMA Keeps ==
  ASSUME Deployable, Inv, conf' = conf, NEW s \in Sentinels, Casts(s), Chooses,
         st' \in [Sentinels -> Memory], disk' \in [Sentinels -> Epochs],
         asks' \in [Sentinels -> Requests \cup {None}], faults' \in Nat,
         \A t \in Sentinels : /\ Sound(t, st'[t], votes', elected') /\ st'[t].state # 6
                              /\ FileOK(disk'[t], st'[t], elected')
  PROVE  Inv'
<1>1. /\ votes \in SUBSET (Sentinels \X Nat \X Sentinels)
      /\ elected \in SUBSET (Sentinels \X Nat) /\ conf \in Configs
  BY DEF Inv, TypeInv
<1>2. votes \subseteq votes' /\ votes' \in SUBSET (Sentinels \X Nat \X Sentinels)
  BY <1>1 DEF Casts
<1>3. elected' \in SUBSET (Sentinels \X Nat)
  BY <1>1 DEF Chooses
<1>4. TypeInv'
  BY <1>1, <1>2, <1>3 DEF TypeInv
<1>5. \A t \in Sentinels : /\ Sound(t, st[t], votes, elected)' /\ st'[t].state # 6
                           /\ FileOK(disk[t], st[t], elected)'
  BY Zenon DEF Sound, Known, Counted, Elected, FromElection, FileOK
<1>6. OneVotePerEpoch'
  <2> SUFFICES ASSUME NEW v \in votes', NEW w \in votes', v[1] = w[1], v[2] = w[2]
               PROVE  v = w
    BY DEF OneVotePerEpoch
  <2>1. CASE v \in votes /\ w \in votes
    BY <2>1 DEF Inv, OneVotePerEpoch
  <2>2. CASE ~(v \in votes /\ w \in votes)
    <3>1. PICK b \in Sentinels \X Nat \X Sentinels :
            votes' = votes \cup {b} /\ b[1] = s /\ b[2] > st[s].lepoch
      BY <2>2 DEF Casts
    <3>2. st[s].lepoch \in Nat
      BY DEF Inv, TypeInv, Memory
    <3>3. \A u \in votes : ~(u[1] = b[1] /\ u[2] = b[2])
      <4> SUFFICES ASSUME NEW u \in votes, u[1] = s, u[2] = b[2] PROVE FALSE
        BY <3>1
      <4>1. u[2] <= st[s].lepoch
        BY Zenon DEF Inv, Sound, Counted
      <4>2. b[2] \in Nat
        OBVIOUS
      <4> QED BY <4>1, <4>2, <3>1, <3>2
    <3> QED BY <2>2, <3>1, <3>3
  <2> QED BY <2>1, <2>2
<1>7. LeaderWasVoted'
  <2>1. \A e \in elected' : 2 * Cardinality(Backers(e, votes')) > Voters
    <3> SUFFICES ASSUME NEW e \in elected'
                 PROVE  2 * Cardinality(Backers(e, votes')) > Voters
      OBVIOUS
    <3>1. CASE e \in elected
      <4>1. 2 * Cardinality(Backers(e, votes)) > Voters
        BY <3>1 DEF Inv, LeaderWasVoted, Backers
      <4> QED BY <4>1, <1>2, BackersGrow
    <3>2. CASE e \notin elected
      BY <3>2 DEF Chooses
    <3> QED BY <3>1, <3>2
  <2> QED BY <2>1 DEF LeaderWasVoted, Backers, Voters
<1> QED BY <1>4, <1>5, <1>6, <1>7 DEF Inv

\* One Sentinel changes its memory to n and its file to d.
LEMMA OneChanges ==
  ASSUME Deployable, Inv, conf' = conf, NEW s \in Sentinels, Casts(s), Chooses,
         NEW n, Sound(s, n, votes', elected'), n.state # 6, st' = [st EXCEPT ![s] = n],
         NEW d, FileOK(d, n, elected'), disk' = [disk EXCEPT ![s] = d],
         asks' \in [Sentinels -> Requests \cup {None}], faults' \in Nat,
         faults' = faults =>
           \/ n.config >= st[s].config
           \/ /\ st[s].state = 4 /\ n.state = 5 /\ n.config = st[s].fepoch
  PROVE  Inv' /\ Steady
<1>1. /\ st \in [Sentinels -> Memory] /\ disk \in [Sentinels -> Epochs]
      /\ n \in Memory /\ d \in Epochs
  BY DEF Inv, TypeInv, Sound, FileOK
<1>2. /\ st'[s] = n /\ disk'[s] = d
      /\ \A t \in Sentinels \ {s} : st'[t] = st[t] /\ disk'[t] = disk[t]
  BY <1>1
<1>3. /\ st' \in [Sentinels -> Memory] /\ disk' \in [Sentinels -> Epochs]
  BY <1>1
<1>4. /\ votes \subseteq votes' /\ elected \subseteq elected'
      /\ \A v \in votes' \ votes : v[1] = s
  BY DEF Casts, Chooses
<1>5. ASSUME NEW t \in Sentinels
      PROVE  /\ Sound(t, st'[t], votes', elected') /\ st'[t].state # 6
             /\ FileOK(disk'[t], st'[t], elected')
  <2>1. CASE t = s
    BY <1>2, <2>1
  <2>2. CASE t # s
    <3>1. /\ Sound(t, st[t], votes, elected) /\ st[t].state # 6
          /\ FileOK(disk[t], st[t], elected)
      BY DEF Inv
    <3>2. Sound(t, st[t], votes', elected')
      BY <3>1, <1>4, <2>2, SoundGrows
    <3>3. FileOK(disk[t], st[t], elected')
      BY <3>1, <1>4 DEF FileOK, FromElection
    <3> QED BY <3>1, <3>2, <3>3, <1>2, <2>2
  <2> QED BY <2>1, <2>2
<1>6. Inv'
  BY <1>3, <1>5, Keeps
<1>7. Steady
  <2> SUFFICES ASSUME NEW t \in Sentinels, faults' = faults PROVE ConfigStep(t)
    BY DEF Steady
  <2>1. CASE t = s
    BY <1>2, <2>1 DEF ConfigStep, WaitPromotion, ReconfSlaves
  <2>2. CASE t # s
    <3>1. st'[t].config = st[t].config /\ st[t].config \in Nat
      BY <1>1, <1>2, <2>2 DEF Memory
    <3> QED BY <3>1 DEF ConfigStep
  <2> QED BY <2>1, <2>2
<1> QED BY <1>6, <1>7

\* No vote is cast and no election is won.
LEMMA OneChangesQuietly ==
  ASSUME Deployable, Inv, UNCHANGED <<conf, asks, votes, elected>>, NEW s \in Sentinels,
         NEW n, Sound(s, n, votes, elected), n.state # 6, st' = [st EXCEPT ![s] = n],
         NEW d, FileOK(d, n, elected), disk' = [disk EXCEPT ![s] = d],
         faults' \in Nat,
         faults' = faults =>
           \/ n.config >= st[s].config
           \/ /\ st[s].state = 4 /\ n.state = 5 /\ n.config = st[s].fepoch
  PROVE  Inv' /\ Steady
<1>1. Casts(s) /\ Chooses
  BY DEF Casts, Chooses
<1>2. asks' \in [Sentinels -> Requests \cup {None}]
  BY DEF Inv, TypeInv
<1>3. Sound(s, n, votes', elected') /\ FileOK(d, n, elected')
  OBVIOUS
<1> QED BY <1>1, <1>2, <1>3, OneChanges, ZenonT(30)

LEMMA SameFile ==
  ASSUME Inv, NEW s \in Sentinels
  PROVE  disk = [disk EXCEPT ![s] = disk[s]] /\ FileOK(disk[s], st[s], elected)
BY DEF Inv, TypeInv

\* sentinelHandleRedisInstance
LEMMA TimerKeeps ==
  ASSUME Deployable, Inv, NEW s \in Sentinels, Timer(s)
  PROVE  Inv' /\ Steady
<1> DEFINE m == st[s]
<1>1. PICK down \in (IF s \in conf.watchers THEN BOOLEAN ELSE {FALSE}),
           waited \in (IF st[s].state = NoFailover THEN BOOLEAN ELSE {FALSE}),
           old \in SUBSET {t \in Sentinels : st[s].peer[t] # Unasked} :
        LET m0 == [st[s] EXCEPT !.sdown = down]
            m1 == StartIfNeeded(m0, s, waited)
            odd == (st[s].sdown /\ ~down) \/ old # {}
        IN /\ m1.epoch <= conf.epochs
           /\ faults' = faults + IF odd THEN 1 ELSE 0
           /\ faults' <= conf.faults
           /\ \E x \in MachineSteps(m1, s) :
                LET m2 == Forget(x.m, old)
                    m3 == Switched(m2)
                IN /\ st' = [st EXCEPT ![s] = m3]
                   /\ IF x.m.lepoch # m1.lepoch \/ x.m.state = UpdateConfig
                      THEN Flushed(s, m3) ELSE UNCHANGED disk
                   /\ asks' = IF m2.sdown THEN [asks EXCEPT ![s] = Ask(m2, s)] ELSE asks
                   /\ cmds' = Sent(x.cmds)
                   /\ votes' = votes \cup CastBy(s, m1, x.m)
                   /\ elected' = IF m1.state = WaitStart /\ x.m.state = SelectSlave
                                   /\ ~m1.force
                                 THEN elected \cup {<<s, m1.fepoch>>} ELSE elected
      /\ UNCHANGED <<conf, role>>
  BY Zenon DEF Timer
<1> DEFINE m1 == StartIfNeeded([m EXCEPT !.sdown = down], s, waited)
<1>2. PICK x \in MachineSteps(m1, s) :
        LET m2 == Forget(x.m, old)
            m3 == Switched(m2)
        IN /\ st' = [st EXCEPT ![s] = m3]
           /\ IF x.m.lepoch # m1.lepoch \/ x.m.state = UpdateConfig
              THEN Flushed(s, m3) ELSE UNCHANGED disk
           /\ asks' = IF m2.sdown THEN [asks EXCEPT ![s] = Ask(m2, s)] ELSE asks
           /\ votes' = votes \cup CastBy(s, m1, x.m)
           /\ elected' = IF m1.state = WaitStart /\ x.m.state = SelectSlave
                           /\ ~m1.force
                         THEN elected \cup {<<s, m1.fepoch>>} ELSE elected
  BY <1>1, Zenon
<1> DEFINE y == x.m
           m2 == Forget(y, old)
           m3 == Switched(m2)
<1>3. m1.epoch <= conf.epochs /\ faults' \in Nat
  BY <1>1 DEF Inv, TypeInv
<1>4. conf' = conf /\ down \in BOOLEAN /\ waited \in BOOLEAN
  BY <1>1, Zenon
<1>5. /\ Sound(s, m, votes, elected) /\ m.state # 6
      /\ FileOK(disk[s], m, elected) /\ conf \in Configs
      /\ votes \in SUBSET (Sentinels \X Nat \X Sentinels)
      /\ asks \in [Sentinels -> Requests \cup {None}]
      /\ m.lepoch \in Nat /\ m.config \in Nat
  BY DEF Inv, TypeInv, Memory
<1>6. /\ st' = [st EXCEPT ![s] = m3]
      /\ IF y.lepoch # m1.lepoch \/ y.state = 6
         THEN disk' = [disk EXCEPT ![s] = Saved(m3)] ELSE disk' = disk
      /\ asks' = IF m2.sdown THEN [asks EXCEPT ![s] = Ask(m2, s)] ELSE asks
      /\ votes' = votes \cup CastBy(s, m1, y)
      /\ elected' = elected \cup Won(s, m1, y)
  BY <1>2 DEF Flushed, UpdateConfig, Won, Wins
<1> HIDE DEF m
<1>7. /\ Sound(s, m1, votes, elected) /\ SameVotes(m, m1) /\ m1.config = m.config
      /\ m1.state # 6
  BY <1>4, <1>5, StartedOK
<1> HIDE DEF m1
<1>8. Moved(s, m1, y, votes, elected)
  BY <1>3, <1>5, <1>7, MachineOK, Zenon
<1> HIDE DEF y
<1>9. Sound(s, y, votes', elected') /\ y.config = m1.config
  BY <1>6, <1>8, Zenon DEF Moved
<1>10. Sound(s, m2, votes', elected') /\ m2.lepoch = y.lepoch /\ m2.config = y.config
  BY <1>9, ForgetOK
<1> HIDE DEF m2
<1>11. /\ Sound(s, m3, votes', elected') /\ m3.state # 6
       /\ m3.lepoch = m2.lepoch /\ m3.config = m2.config
  BY <1>10, SwitchedOK
<1> HIDE DEF m3
<1>12. y.lepoch \in Nat /\ m1.lepoch = m.lepoch
  BY <1>7, <1>9 DEF Sound, Memory, SameVotes
<1>13. Casts(s)
  <2>1. CASE y.lepoch = m1.lepoch
    BY <2>1, <1>6 DEF CastBy, Casts
  <2>2. CASE y.lepoch > m1.lepoch /\ y.leader \in Sentinels
    <3> DEFINE b == <<s, y.lepoch, y.leader>>
    <3>1. b \in Sentinels \X Nat \X Sentinels /\ b[1] = s /\ b[2] > m.lepoch
      BY <1>12, <2>2
    <3>2. votes' = votes \cup {b}
      BY <1>5, <1>6, <1>12, <2>2 DEF CastBy
    <3> HIDE DEF b
    <3> QED BY <3>1, <3>2 DEF Casts, m
  <2> QED BY <2>1, <2>2, <1>8 DEF Moved
<1>14. Chooses
  <2>1. CASE Wins(m1, y)
    <3>1. /\ elected' = elected \cup {<<s, m1.fepoch>>}
          /\ 2 * Cardinality(Backers(<<s, m1.fepoch>>, votes')) > Voters
      BY <2>1, <1>6, <1>8, Zenon DEF Moved, Won
    <3>2. <<s, m1.fepoch>> \in Sentinels \X Nat
      BY <1>7, Zenon DEF Sound, Memory
    <3> QED BY <3>1, <3>2 DEF Chooses
  <2>2. CASE ~Wins(m1, y)
    BY <2>2, <1>6 DEF Won, Chooses
  <2> QED BY <2>1, <2>2
<1>15. asks' \in [Sentinels -> Requests \cup {None}]
  <2>1. Ask(m2, s) \in Requests
    BY <1>10 DEF Sound, Memory, Ask, Requests, RunIds
  <2> QED BY <2>1, <1>5, <1>6, Zenon
<1>16. m3.config = m.config /\ m3.config >= m.config
  BY <1>5, <1>7, <1>9, <1>10, <1>11
<1>17. CASE y.lepoch # m1.lepoch \/ y.state = 6
  <2>1. disk' = [disk EXCEPT ![s] = Saved(m3)]
    BY <1>6, <1>17, Zenon
  <2>2. FileOK(Saved(m3), m3, elected')
    BY <1>11, SavedOK
  <2> QED BY <2>1, <2>2, <1>3, <1>4, <1>6, <1>11, <1>13, <1>14, <1>15, <1>16, OneChanges, ZenonT(30) DEF m
<1>18. CASE ~(y.lepoch # m1.lepoch \/ y.state = 6)
  <2>1. disk' = [disk EXCEPT ![s] = disk[s]]
    BY <1>6, <1>18, SameFile
  <2>2. m3.lepoch = m.lepoch
    BY <1>10, <1>11, <1>12, <1>18
  <2>3. FileOK(disk[s], m3, elected')
    BY <2>2, <1>5, <1>6 DEF FileOK, FromElection
  <2> QED BY <2>1, <2>3, <1>3, <1>4, <1>6, <1>11, <1>13, <1>14, <1>15, <1>16, OneChanges, ZenonT(30) DEF m
<1> QED BY <1>17, <1>18

\* SENTINEL IS-MASTER-DOWN-BY-ADDR and its reply
LEMMA IsMasterDownKeeps ==
  ASSUME Deployable, Inv, NEW s \in Sentinels, NEW t \in Sentinels,
         IsMasterDownByAddr(s, t)
  PROVE  Inv' /\ Steady
<1> DEFINE q == asks[s]
           m == st[t]
           h == st[s]
           voted == q.addr = m.addr /\ q.runid # None
           n == IF voted THEN Vote(m, q.epoch, q.runid) ELSE m
           down == q.addr = m.addr /\ m.sdown
           o == h.peer[t]
<1>1. PICK lost \in BOOLEAN :
        /\ faults' = faults + IF lost THEN 1 ELSE 0
        /\ faults' <= conf.faults
        /\ st' = [st EXCEPT ![t] = n,
                ![s].peer[t] = IF lost THEN @
                               ELSE IF voted /\ n.leader # None
                               THEN [down |-> down, leader |-> n.leader, epoch |-> n.lepoch]
                               ELSE [@ EXCEPT !.down = down]]
  BY Zenon DEF IsMasterDownByAddr
<1> DEFINE p == IF lost THEN o
                ELSE IF voted /\ n.leader # None
                THEN [down |-> down, leader |-> n.leader, epoch |-> n.lepoch]
                ELSE [o EXCEPT !.down = down]
           a == [h EXCEPT !.peer[t] = p]
           d == IF n.epoch # m.epoch \/ n.lepoch # m.lepoch THEN Saved(n) ELSE disk[t]
<1>2. /\ s # t /\ q # None /\ votes' = votes \cup CastBy(t, m, n)
      /\ UNCHANGED <<conf, asks, elected>>
  BY DEF IsMasterDownByAddr
<1>3. /\ Sound(s, h, votes, elected) /\ h.state # 6
      /\ Sound(t, m, votes, elected) /\ m.state # 6
      /\ FileOK(disk[t], m, elected) /\ q \in Requests
      /\ votes \in SUBSET (Sentinels \X Nat \X Sentinels)
      /\ None \notin Sentinels /\ faults' \in Nat
      /\ h.config \in Nat /\ m.config \in Nat
      /\ asks' \in [Sentinels -> Requests \cup {None}]
      /\ st \in [Sentinels -> Memory] /\ disk \in [Sentinels -> Epochs]
  BY <1>1, <1>2 DEF Inv, TypeInv, Deployable, Memory
<1>4. st' = [st EXCEPT ![t] = n, ![s] = a]
  BY <1>1, <1>2, <1>3
<1>5. disk' = [disk EXCEPT ![t] = d]
  BY SameFile DEF IsMasterDownByAddr, Flushed
<1> HIDE DEF q, m, h
<1>6. /\ Sound(t, n, votes', elected) /\ n.config = m.config /\ n.state = m.state
      /\ n.lepoch = m.lepoch \/ (n.lepoch > m.lepoch /\ n.leader \in Sentinels)
  <2>1. CASE voted
    <3>1. q.epoch \in Nat /\ q.runid \in Sentinels
      BY <1>3, <2>1 DEF Requests, RunIds
    <3>2. n = Vote(m, q.epoch, q.runid) /\ m \in Memory
      BY <2>1, <1>3 DEF Sound
    <3>3. Sound(t, n, votes', elected)
      BY <3>1, <3>2, <1>2, <1>3, VoteOK, SMTT(30)
    <3>4. /\ SameStage(m, n) /\ n.config = m.config
          /\ \/ n.leader = m.leader /\ n.lepoch = m.lepoch
             \/ n.leader = q.runid /\ n.lepoch = q.epoch /\ q.epoch > m.lepoch
      BY <3>1, <3>2, VoteFields, ZenonT(30)
    <3> HIDE DEF n
    <3> QED BY <3>1, <3>3, <3>4, Zenon DEF SameStage
  <2>2. CASE ~voted
    <3>1. n = m
      BY <2>2
    <3>2. votes' = votes
      BY <3>1, <1>2 DEF CastBy
    <3> QED BY <3>1, <3>2, <1>3, Zenon
  <2> QED BY <2>1, <2>2, Zenon
<1> HIDE DEF n
<1>7. n \in Memory /\ n.lepoch \in Nat /\ n.leader \in RunIds /\ m.lepoch \in Nat
  BY <1>3, <1>6 DEF Sound, Memory
<1>8. Casts(t)
  <2>1. CASE n.lepoch = m.lepoch
    BY <2>1, <1>2 DEF CastBy, Casts
  <2>2. CASE n.lepoch > m.lepoch /\ n.leader \in Sentinels
    <3> DEFINE b == <<t, n.lepoch, n.leader>>
    <3>1. b \in Sentinels \X Nat \X Sentinels /\ b[1] = t /\ b[2] > m.lepoch
      BY <1>7, <2>2
    <3>2. votes' = votes \cup {b}
      BY <1>2, <1>7, <2>2 DEF CastBy
    <3> HIDE DEF b
    <3> QED BY <3>1, <3>2 DEF Casts, m
  <2> QED BY <2>1, <2>2, <1>6
<1>9. votes \subseteq votes' /\ \A v \in votes' \ votes : v[1] = t
  BY <1>8 DEF Casts
<1>10. p \in Peers /\ (p.leader # None => <<t, p.epoch, p.leader>> \in votes')
  <2>1. o \in Peers /\ (o.leader # None => <<t, o.epoch, o.leader>> \in votes')
    BY <1>3, <1>9, Zenon DEF Sound, Memory, Counted
  <2>2. n.leader # None => <<t, n.lepoch, n.leader>> \in votes'
    BY <1>6 DEF Sound, Counted
  <2>3. down \in BOOLEAN
    BY <1>3 DEF Sound, Memory
  <2> HIDE DEF o, down
  <2>4. CASE p = o
    BY <2>1, <2>4
  <2>5. CASE p = [down |-> down, leader |-> n.leader, epoch |-> n.lepoch]
    BY <2>2, <2>3, <2>5, <1>7 DEF Peers
  <2>6. CASE p = [o EXCEPT !.down = down]
    <3>1. p \in Peers /\ p.leader = o.leader /\ p.epoch = o.epoch
      BY <2>1, <2>3, <2>6 DEF Peers
    <3> HIDE DEF p
    <3> QED BY <2>1, <3>1
  <2> QED BY <2>4, <2>5, <2>6
<1> HIDE DEF p
<1>11. Sound(s, h, votes', elected)
  BY <1>2, <1>3, <1>9, SoundGrows
<1>12. /\ Sound(s, a, votes', elected) /\ a.lepoch = h.lepoch
       /\ a.config = h.config /\ a.state = h.state
  BY <1>10, <1>11, PeerOK DEF SameStage
<1>13. FileOK(d, n, elected)
  BY <1>3, <1>6, FlushedOK
<1> HIDE DEF a, d
<1>14. a \in Memory /\ d \in Epochs
  BY <1>12, <1>13 DEF Sound, FileOK
<1>15. /\ st' \in [Sentinels -> Memory] /\ disk' \in [Sentinels -> Epochs]
       /\ st'[s] = a /\ st'[t] = n /\ disk'[t] = d
       /\ \A u \in Sentinels \ {t} : disk'[u] = disk[u]
       /\ \A u \in Sentinels \ {s, t} : st'[u] = st[u]
  BY <1>2, <1>3, <1>4, <1>5, <1>7, <1>14
<1>16. ASSUME NEW u \in Sentinels
       PROVE  /\ Sound(u, st'[u], votes', elected') /\ st'[u].state # 6
              /\ FileOK(disk'[u], st'[u], elected') /\ st'[u].config = st[u].config
  <2>1. elected' = elected
    BY <1>2
  <2>2. CASE u = t
    BY <2>1, <2>2, <1>3, <1>6, <1>13, <1>15 DEF m
  <2>3. CASE u = s
    <3>1. FileOK(disk[s], a, elected)
      BY <1>12, Zenon DEF Inv, FileOK, h
    <3> QED BY <2>1, <2>3, <3>1, <1>2, <1>3, <1>12, <1>15 DEF h
  <2>4. CASE u \notin {s, t}
    <3>1. /\ Sound(u, st[u], votes, elected) /\ st[u].state # 6
          /\ FileOK(disk[u], st[u], elected)
      BY DEF Inv
    <3>2. Sound(u, st[u], votes', elected)
      BY <3>1, <1>9, <2>4, SoundGrows
    <3> QED BY <2>1, <2>4, <3>1, <3>2, <1>15
  <2> QED BY <2>2, <2>3, <2>4
<1>17. Chooses
  BY <1>2 DEF Chooses
<1>18. Inv'
  BY <1>2, <1>3, <1>8, <1>15, <1>16, <1>17, Keeps, Zenon
<1>19. Steady
  <2> SUFFICES ASSUME NEW u \in Sentinels PROVE ConfigStep(u)
    BY DEF Steady
  <2>1. st'[u].config = st[u].config /\ st[u].config \in Nat
    BY <1>3, <1>16, Zenon DEF Memory
  <2> QED BY <2>1 DEF ConfigStep
<1> QED BY <1>18, <1>19

\* sentinelProcessHelloMessage takes only what another Sentinel holds.
LEMMA HelloKeeps ==
  ASSUME Deployable, Inv, NEW s \in Sentinels, NEW t \in Sentinels, Hello(s, t)
  PROVE  Inv' /\ Steady
<1> DEFINE h == st[s]
           m == st[t]
           newer == h.config > m.config
           moved == newer /\ CurrentAddress(h) # m.addr
           n == IF h.epoch > m.epoch THEN [m EXCEPT !.epoch = h.epoch] ELSE m
           c == IF newer THEN [n EXCEPT !.config = h.config] ELSE n
           r == IF moved THEN ResetMaster(c, CurrentAddress(h)) ELSE c
           d == IF moved THEN Saved(r) ELSE IF n # m THEN Saved(n) ELSE disk[t]
<1>1. /\ st' = [st EXCEPT ![t] = r]
      /\ disk' = [disk EXCEPT ![t] = IF moved THEN Saved(r) ELSE IF n # m THEN Saved(n) ELSE @]
      /\ UNCHANGED <<conf, asks, faults, votes, elected>>
  BY DEF Hello, HelloNewer, HelloConfig
<1>2. /\ Sound(s, h, votes, elected) /\ Sound(t, m, votes, elected) /\ m.state # 6
      /\ FileOK(disk[t], m, elected) /\ h \in Memory /\ m \in Memory
      /\ disk \in [Sentinels -> Epochs] /\ faults \in Nat
  BY DEF Inv, TypeInv
<1>3. disk' = [disk EXCEPT ![t] = d]
  BY <1>1, <1>2
<1>4. CurrentAddress(h) \in Instances
  <2>1. FileOK(Saved(h), h, elected)
    BY <1>2, SavedOK
  <2> QED BY <2>1 DEF FileOK, Epochs, Saved
<1> HIDE DEF h, m
<1>5. /\ n \in Memory /\ SameVotes(m, n) /\ SameStage(m, n)
      /\ n.config = m.config /\ n.addr = m.addr /\ n.epoch >= m.epoch
  BY <1>2 DEF Memory, SameVotes, SameStage
<1>6. Sound(t, n, votes, elected)
  BY <1>2, <1>5, SoundSame, Zenon
<1> HIDE DEF n
<1>7. /\ c \in Memory /\ SameVotes(n, c) /\ SameStage(n, c) /\ c.epoch = n.epoch
      /\ c.epoch >= n.epoch
      /\ c.config = IF newer THEN h.config ELSE n.config
  BY <1>2, <1>5 DEF Memory, SameVotes, SameStage
<1>8. Sound(t, c, votes, elected)
  <2>1. conf.forced = {} /\ FromElection(n.config, elected) => FromElection(c.config, elected)
    BY <1>2, <1>7 DEF Sound, Elected
  <2> QED BY <1>6, <1>7, <2>1, SoundSame, Zenon
<1> HIDE DEF c
<1>9. /\ Sound(t, r, votes, elected) /\ r.lepoch = c.lepoch /\ r.config = c.config
      /\ r.state # 6
  <2>1. CASE moved
    <3>1. r = ResetMaster(c, CurrentAddress(h))
      BY <2>1
    <3> QED BY <3>1, <1>4, <1>8, ResetOK, SMTT(30)
  <2>2. CASE ~moved
    <3>1. r = c
      BY <2>2
    <3> QED BY <3>1, <1>2, <1>5, <1>7, <1>8 DEF SameStage
  <2> QED BY <2>1, <2>2
<1> HIDE DEF r
<1>10. r.lepoch = m.lepoch /\ n.lepoch = m.lepoch
  BY <1>5, <1>7, <1>9 DEF SameVotes
<1>11. FileOK(d, r, elected)
  <2>1. FileOK(Saved(r), r, elected) /\ FileOK(Saved(n), n, elected)
    BY <1>6, <1>9, SavedOK
  <2> QED BY <2>1, <1>2, <1>10 DEF FileOK
<1>12. r.config >= m.config
  BY <1>2, <1>5, <1>7, <1>9 DEF Memory
<1> HIDE DEF d
<1>13. faults' \in Nat
  BY <1>1, <1>2
<1> QED BY <1>1, <1>3, <1>9, <1>11, <1>12, <1>13, OneChangesQuietly, ZenonT(30) DEF m

-----------------------------------------------------------------------------

\* sentinelRefreshInstanceInfo
LEMMA RefreshKeeps ==
  ASSUME Deployable, Inv, NEW s \in Sentinels, NEW i \in Instances,
         RefreshInstanceInfo(s, i)
  PROVE  Inv' /\ Steady
<1> DEFINE m == st[s]
           isMaster == role[i] = None
           promoted == m.promoted = i /\ m.state = 4
           f1 == IF ~isMaster /\ "sent" \in m.flag[i] /\ role[i] = m.promoted
                 THEN (m.flag[i] \ {"sent"}) \cup {"inprog"} ELSE m.flag[i]
           n == IF isMaster /\ promoted
                THEN [m EXCEPT !.config = m.fepoch, !.state = 5] ELSE m
<1>1. PICK f2 \in {f1} \cup (IF ~isMaster /\ "inprog" \in f1
                             THEN {(f1 \ {"inprog"}) \cup {"done"}} ELSE {}) :
        st' = [st EXCEPT ![s] = [n EXCEPT !.flag[i] = f2]]
  BY Zenon DEF RefreshInstanceInfo, WaitPromotion, ReconfSlaves
<1>2. /\ disk' = IF n # m THEN [disk EXCEPT ![s] = Saved(n)] ELSE disk
      /\ UNCHANGED <<conf, asks, faults, votes, elected>>
  BY DEF RefreshInstanceInfo, WaitPromotion, ReconfSlaves, Flushed
<1>3. /\ Sound(s, m, votes, elected) /\ m.state # 6 /\ FileOK(disk[s], m, elected)
      /\ m \in Memory /\ faults' \in Nat /\ m.flag[i] \in Flags
      /\ m.config \in Nat
  BY <1>2 DEF Inv, TypeInv, Memory
<1>4. f2 \in Flags /\ (f2 # {} => m.flag[i] # {})
  BY <1>1, <1>3 DEF Flags
<1> DEFINE y == [n EXCEPT !.flag[i] = f2]
           d == IF n # m THEN Saved(n) ELSE disk[s]
<1>5. disk' = [disk EXCEPT ![s] = d]
  BY <1>2, SameFile, Zenon
<1> HIDE DEF m
<1>6. /\ Sound(s, n, votes, elected) /\ n.flag = m.flag /\ SameVotes(m, n)
      /\ \/ n.config = m.config /\ n.state = m.state
         \/ m.state = 4 /\ n.state = 5 /\ n.config = m.fepoch
  <2>1. CASE isMaster /\ promoted
    <3>1. n = [m EXCEPT !.config = m.fepoch, !.state = 5] /\ m.state = 4
      BY <2>1
    <3> HIDE DEF n
    <3> QED BY <3>1, <1>3, PromotedOK, Zenon
  <2>2. CASE ~(isMaster /\ promoted)
    <3>1. n = m
      BY <2>2
    <3> QED BY <3>1, <1>3 DEF SameVotes
  <2> QED BY <2>1, <2>2
<1> HIDE DEF n
<1>7. /\ Sound(s, y, votes, elected) /\ SameVotes(n, y) /\ y.config = n.config
      /\ y.state = n.state
  BY <1>4, <1>6, FlagOK
<1>8. FileOK(d, y, elected)
  <2>1. FileOK(Saved(n), n, elected)
    BY <1>6, SavedOK, Zenon
  <2>2. y.lepoch = n.lepoch /\ n.lepoch = m.lepoch
    BY <1>6, <1>7 DEF SameVotes
  <2> HIDE DEF y
  <2> QED BY <2>1, <2>2, <1>3, Zenon DEF FileOK
<1>9. st' = [st EXCEPT ![s] = y]
  BY <1>1
<1> HIDE DEF y, d
<1>10. /\ y.state # 6
       /\ \/ y.config >= m.config
          \/ m.state = 4 /\ y.state = 5 /\ y.config = m.fepoch
  BY <1>3, <1>6, <1>7
<1> QED BY <1>2, <1>3, <1>5, <1>7, <1>8, <1>9, <1>10, OneChangesQuietly, ZenonT(30) DEF m

\* SENTINEL FAILOVER
LEMMA ForceKeeps ==
  ASSUME Deployable, Inv, NEW s \in Sentinels, ForceFailover(s)
  PROVE  Inv' /\ Steady
<1> DEFINE m == st[s]
           a == StartFailover(m)
           yes == TRUE
           n == [a EXCEPT !.force = yes]
<1>1. /\ st' = [st EXCEPT ![s] = n] /\ m.state = 0 /\ conf.forced # {}
      /\ UNCHANGED <<conf, disk, asks, faults, votes, elected>>
  BY DEF ForceFailover, NoFailover
<1>2. /\ Sound(s, m, votes, elected) /\ FileOK(disk[s], m, elected)
      /\ faults \in Nat /\ m.config \in Nat
  BY DEF Inv, TypeInv, Memory
<1> HIDE DEF m
<1>3. /\ Sound(s, a, votes, elected) /\ SameVotes(m, a)
      /\ a.config = m.config /\ a.state = 1
  BY <1>1, <1>2, StartOK
<1>4. a \in Memory /\ yes \in BOOLEAN
  BY <1>3 DEF Sound
<1> HIDE DEF a, yes
<1>5. n \in Memory
  BY <1>4 DEF Memory
<1>6. /\ SameVotes(a, n) /\ n.config = a.config /\ n.state = 1 /\ n.epoch = a.epoch
      /\ n.fepoch = a.fepoch /\ n.promoted = a.promoted /\ n.flag = a.flag
  BY <1>3, <1>4 DEF Memory, SameVotes
<1> HIDE DEF n
<1>7. Known(n)
  BY <1>3, <1>6 DEF Sound, Known
<1>8. Elected(s, n, elected)
  BY <1>1 DEF Elected
<1>9. Counted(s, n, votes)
  BY <1>3, <1>6 DEF Sound, SameVotes, Counted
<1>10. Sound(s, n, votes, elected)
  BY <1>3, <1>5, <1>6, <1>7, <1>8, <1>9 DEF Sound
<1>11. FileOK(disk[s], n, elected)
  BY <1>2, <1>3, <1>6 DEF FileOK, SameVotes
<1>12. disk' = [disk EXCEPT ![s] = disk[s]]
  BY <1>1, SameFile
<1>13. n.config >= m.config /\ n.state # 6 /\ faults' \in Nat
  BY <1>1, <1>2, <1>3, <1>6
<1> QED BY <1>1, <1>10, <1>11, <1>12, <1>13, OneChangesQuietly, ZenonT(30) DEF m

\* A restarted Sentinel: the votes it gave are in epochs up to the one its file has.
LEMMA RestartKeeps ==
  ASSUME Deployable, Inv, NEW s \in Sentinels, Restart(s)
  PROVE  Inv' /\ Steady
<1> DEFINE d == disk[s]
           n == [Fresh EXCEPT !.epoch = d.epoch, !.addr = d.addr,
                              !.config = d.config, !.lepoch = d.lepoch]
<1>1. /\ st' = [st EXCEPT ![s] = n] /\ faults' = faults + 1
      /\ UNCHANGED <<conf, disk, asks, votes, elected>>
  BY DEF Restart
<1>2. /\ Sound(s, st[s], votes, elected) /\ FileOK(d, st[s], elected)
      /\ d \in Epochs /\ faults \in Nat
  BY DEF Inv, TypeInv
<1> HIDE DEF d
<1>3. n \in Memory
  BY <1>2, FreshFields, Zenon DEF Memory, Epochs
<1>4. /\ n.epoch = d.epoch /\ n.config = d.config /\ n.lepoch = d.lepoch
      /\ n.leader = None /\ n.state = 0 /\ n.fepoch = 0 /\ n.promoted = None
      /\ n.flag = Fresh.flag /\ n.peer = Fresh.peer /\ n.force = Fresh.force
  BY FreshFields DEF Memory
<1> HIDE DEF n
<1>5. Known(n)
  BY <1>4, FreshFields DEF Known
<1>6. Counted(s, n, votes)
  BY <1>2, <1>4, FreshFields, Zenon DEF Sound, Counted, FileOK
<1>7. Elected(s, n, elected)
  BY <1>2, <1>4, FreshFields DEF Elected, FileOK
<1>8. n.fepoch <= n.epoch
  BY <1>3, <1>4 DEF Memory
<1>9. Sound(s, n, votes, elected)
  BY <1>3, <1>5, <1>6, <1>7, <1>8 DEF Sound
<1>10. FileOK(d, n, elected)
  BY <1>2, <1>4 DEF FileOK
<1>11. disk' = [disk EXCEPT ![s] = d]
  BY <1>1, SameFile DEF d
<1>12. faults' \in Nat /\ faults' # faults /\ n.state # 6
  BY <1>1, <1>2, <1>4
<1> QED BY <1>1, <1>9, <1>10, <1>11, <1>12, OneChangesQuietly, ZenonT(30)

\* SLAVEOF executed by an instance, and stuttering
LEMMA OthersKeep ==
  ASSUME Inv, UNCHANGED <<conf, st, disk, asks, faults, votes, elected>>
  PROVE  Inv' /\ Steady
<1>1. Inv'
  BY Zenon DEF Inv, TypeInv, Sound, Known, Counted, Elected, FromElection, FileOK,
         OneVotePerEpoch, LeaderWasVoted
<1>2. Steady
  BY DEF Inv, TypeInv, Memory, Steady, ConfigStep
<1> QED BY <1>1, <1>2

LEMMA InitInv ==
  ASSUME Deployable, Init
  PROVE  Inv
<1>1. /\ conf \in Configs /\ votes = {} /\ elected = {} /\ faults = 0
      /\ st = [s \in Sentinels |-> Fresh] /\ disk = [s \in Sentinels |-> Saved(Fresh)]
      /\ asks = [s \in Sentinels |-> None]
  BY DEF Init
<1>2. ASSUME NEW s \in Sentinels PROVE Sound(s, Fresh, votes, elected)
  <2>1. Known(Fresh)
    BY FreshFields DEF Known
  <2>2. Counted(s, Fresh, votes)
    BY <1>1, FreshFields DEF Counted
  <2>3. Elected(s, Fresh, elected)
    BY FreshFields DEF Elected, FromElection
  <2>4. Fresh \in Memory /\ Fresh.fepoch <= Fresh.epoch
    BY FreshFields
  <2> QED BY <2>1, <2>2, <2>3, <2>4 DEF Sound
<1>3. ASSUME NEW s \in Sentinels PROVE FileOK(Saved(Fresh), Fresh, elected)
  BY <1>2, SavedOK
<1>4. TypeInv
  <2>1. Fresh \in Memory
    BY FreshFields
  <2>2. \A s \in Sentinels : Saved(Fresh) \in Epochs
    BY <1>3 DEF FileOK
  <2> QED BY <1>1, <2>1, <2>2 DEF TypeInv
<1>5. \A s \in Sentinels : /\ Sound(s, st[s], votes, elected) /\ st[s].state # 6
                           /\ FileOK(disk[s], st[s], elected)
  <2>1. Fresh.state # 6
    BY FreshFields
  <2> QED BY <1>1, <1>2, <1>3, <2>1
<1>6. OneVotePerEpoch /\ LeaderWasVoted
  BY <1>1 DEF OneVotePerEpoch, LeaderWasVoted
<1> QED BY <1>4, <1>5, <1>6, Zenon DEF Inv

LEMMA NextKeeps ==
  ASSUME Deployable, Inv, [Next]_vars
  PROVE  Inv' /\ Steady
<1>1. CASE \E s \in Sentinels : Timer(s)
  BY <1>1, TimerKeeps
<1>2. CASE \E s \in Sentinels : ForceFailover(s)
  BY <1>2, ForceKeeps
<1>3. CASE \E s \in Sentinels : Restart(s)
  BY <1>3, RestartKeeps
<1>4. CASE \E s, t \in Sentinels : IsMasterDownByAddr(s, t)
  BY <1>4, IsMasterDownKeeps
<1>5. CASE \E s, t \in Sentinels : Hello(s, t)
  BY <1>5, HelloKeeps
<1>6. CASE \E s \in Sentinels, i \in Instances : RefreshInstanceInfo(s, i)
  BY <1>6, RefreshKeeps
<1>7. CASE \E i \in Instances : ExecSlaveof(i)
  BY <1>7, OthersKeep DEF ExecSlaveof
<1>8. CASE UNCHANGED vars
  BY <1>8, OthersKeep DEF vars
<1> QED BY <1>1, <1>2, <1>3, <1>4, <1>5, <1>6, <1>7, <1>8 DEF Next

-----------------------------------------------------------------------------
(* Results. *)

\* What every Sentinel remembers of votes was cast, its file has the epoch of its
\* last vote, and it leads a failover only if it won the election or an operator
\* asked for it.
THEOREM SentinelInvariance ==
  ASSUME Deployable
  PROVE  Spec => []Inv
<1>1. Init => Inv
  BY InitInv
<1>2. Inv /\ [Next]_vars => Inv'
  BY NextKeeps
<1> QED BY <1>1, <1>2, PTL DEF Spec

\* A Sentinel gives one vote per epoch, through restarts: sentinelVoteLeader
\* writes leader_epoch to the configuration file before the answer leaves.
THEOREM OneVoteEach ==
  ASSUME Deployable
  PROVE  Spec => []OneVotePerEpoch
<1>1. Inv => OneVotePerEpoch
  BY DEF Inv
<1> QED BY <1>1, SentinelInvariance, PTL

\* A failover that no operator asked for is led by a Sentinel for which a
\* majority voted (sentinelGetLeader).
THEOREM LeadersHaveMajorities ==
  ASSUME Deployable
  PROVE  Spec => []LeaderWasVoted
<1>1. Inv => LeaderWasVoted
  BY DEF Inv
<1> QED BY <1>1, SentinelInvariance, PTL

\* promoted_slave is set whenever the failover dereferences it, and replicas are
\* marked only while it is.
THEOREM PromotedAlwaysKnown ==
  ASSUME Deployable
  PROVE  Spec => []PromotedKnown
<1>1. Inv => PromotedKnown
  <2> SUFFICES ASSUME Inv, NEW s \in Sentinels
               PROVE  LET m == st[s] IN
                      /\ m.state \in SendSlaveofNoone..ReconfSlaves <=> m.promoted # None
                      /\ (\E i \in Instances : m.flag[i] # {}) => m.state = ReconfSlaves
    BY DEF PromotedKnown
  <2>1. Known(st[s]) /\ st[s].state \in 0..5
    BY DEF Inv, Sound, Memory, States
  <2> QED BY <2>1 DEF Known, SendSlaveofNoone, ReconfSlaves
<1> QED BY <1>1, SentinelInvariance, PTL

\* Without forced failovers every configuration a Sentinel holds comes from an
\* election that a majority decided.
THEOREM ConfigsFromElections ==
  ASSUME Deployable
  PROVE  Spec => []ConfigFromElection
<1>1. Inv => ConfigFromElection
  BY Zenon DEF Inv, Sound, Elected, FromElection, ConfigFromElection
<1> QED BY <1>1, SentinelInvariance, PTL

\* The four together, for any number of Sentinels, instances, failovers, lost
\* replies and restarts (sentinelVoteLeader, sentinelGetLeader,
\* sentinelFailoverStateMachine, sentinelProcessHelloMessage).
THEOREM FailoverAlwaysSafe ==
  ASSUME Deployable
  PROVE  Spec => []FailoverSafe
<1>1. OneVotePerEpoch /\ LeaderWasVoted /\ PromotedKnown /\ ConfigFromElection
        => FailoverSafe
  BY DEF FailoverSafe
<1> QED BY <1>1, OneVoteEach, LeadersHaveMajorities, PromotedAlwaysKnown,
           ConfigsFromElections, PTL

\* A running Sentinel never goes back to an older configuration, except to that
\* of the failover it is finishing (sentinelRefreshInstanceInfo).
THEOREM ConfigsMonotone ==
  ASSUME Deployable
  PROVE  Spec => ConfigMonotone
<1>1. Inv /\ [Next]_vars => [\A s \in Sentinels : faults' = faults => ConfigStep(s)]_vars
  BY NextKeeps DEF Steady
<1> QED BY <1>1, SentinelInvariance, PTL DEF Spec, ConfigMonotone
=============================================================================
