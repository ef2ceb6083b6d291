----------------------- MODULE SentinelMemory_proofs -----------------------
(***************************************************************************)
(* What the functions of sentinel.c do to the memory of one Sentinel.      *)
(*                                                                         *)
(* Sound(s, m, V, E) is what the memory m of Sentinel s satisfies when V   *)
(* are the votes cast and E the elections won so far.  Every operator that *)
(* changes a memory is shown to keep it, and a won election is shown to    *)
(* have the votes of a majority.                                           *)
(***************************************************************************)
EXTENDS Sentinel, TLAPS, FiniteSetTheorems

RunIds == Sentinels \cup {None}
Addresses == Instances \cup {None}
States == 0..6
Flags == SUBSET {"sent", "inprog", "done"}
Peers == [down : BOOLEAN, leader : RunIds, epoch : Nat]
Epochs == [epoch : Nat, addr : Instances, config : Nat, lepoch : Nat]
Requests == [addr : Instances, epoch : Nat, runid : RunIds]

Memory ==
  [epoch : Nat, addr : Instances, config : Nat, sdown : BOOLEAN,
   leader : RunIds, lepoch : Nat, state : States, fepoch : Nat, force : BOOLEAN,
   promoted : Addresses, flag : [Instances -> Flags],
   peer : [Sentinels -> Peers]]

\* The promoted replica is known exactly while it is needed, and replicas are
\* marked only then.
Known(m) ==
  /\ m.state \in 3..6 <=> m.promoted # None
  /\ (\E i \in Instances : m.flag[i] # {}) => m.state \in {5, 6}

\* Every vote of s is in an epoch up to leader_epoch; the vote s remembers and
\* those its peers reported were cast.
Counted(s, m, V) ==
  /\ \A v \in V : v[1] = s => v[2] <= m.lepoch
  /\ m.leader # None => <<s, m.lepoch, m.leader>> \in V
  /\ \A t \in Sentinels : m.peer[t].leader # None =>
       <<t, m.peer[t].epoch, m.peer[t].leader>> \in V

FromElection(c, E) == c = 0 \/ \E e \in E : e[2] = c

\* Unless an operator forces failovers, s leads one only after it won it.
Elected(s, m, E) ==
  conf.forced = {} =>
    /\ ~m.force
    /\ FromElection(m.config, E)
    /\ m.state \in 2..6 => <<s, m.fepoch>> \in E

Sound(s, m, V, E) ==
  /\ m \in Memory /\ m.fepoch <= m.epoch
  /\ Known(m) /\ Counted(s, m, V) /\ Elected(s, m, E)

\* The file of a Sentinel has the epoch of its last vote.
FileOK(d, m, E) ==
  /\ d \in Epochs /\ d.lepoch = m.lepoch
  /\ conf.forced = {} => FromElection(d.config, E)

Backers(e, V) ==
  {s \in Sentinels : \E x \in e[2]..conf.epochs : <<s, x, e[1]>> \in V}

-----------------------------------------------------------------------------
(* Updates of a memory. *)

\* What n shares with m as far as the protocol of elections goes
SameVotes(m, n) ==
  n.leader = m.leader /\ n.lepoch = m.lepoch /\ n.peer = m.peer

SameStage(m, n) ==
  /\ n.state = m.state /\ n.fepoch = m.fepoch /\ n.force = m.force
  /\ n.promoted = m.promoted /\ n.flag = m.flag

\* sentinelVoteLeader: a vote is in an epoch later than every earlier one.
LEMMA VoteFields ==
  ASSUME NEW m \in Memory, NEW epoch \in Nat, NEW runid \in Sentinels
  PROVE  LET n == Vote(m, epoch, runid)
         IN  /\ n \in Memory
             /\ SameStage(m, n) /\ n.config = m.config /\ n.peer = m.peer
             /\ n.epoch >= m.epoch /\ n.addr = m.addr /\ n.sdown = m.sdown
             /\ \/ n.leader = m.leader /\ n.lepoch = m.lepoch
                \/ n.leader = runid /\ n.lepoch = epoch /\ epoch > m.lepoch
<1> DEFINE e == IF epoch > m.epoch THEN epoch ELSE m.epoch
           a == [m EXCEPT !.epoch = e, !.leader = runid, !.lepoch = e]
           b == [m EXCEPT !.epoch = e]
           n == Vote(m, epoch, runid)
<1>1. /\ e \in Nat /\ e >= m.epoch /\ m.lepoch \in Nat
      /\ m.lepoch < epoch /\ e <= epoch => e = epoch
      /\ runid \in RunIds
  BY DEF Memory, RunIds
<1>2. \/ m.lepoch < epoch /\ e <= epoch /\ n = a
      \/ n = b
  BY DEF Vote
<1> HIDE DEF e
<1>3. a \in Memory /\ b \in Memory
  BY <1>1, Zenon DEF Memory
<1>4. /\ SameStage(m, a) /\ a.config = m.config /\ a.peer = m.peer
      /\ a.epoch = e /\ a.addr = m.addr /\ a.sdown = m.sdown
      /\ a.leader = runid /\ a.lepoch = e
  BY DEF Memory, SameStage
<1>5. /\ SameStage(m, b) /\ b.config = m.config /\ b.peer = m.peer
      /\ b.epoch = e /\ b.addr = m.addr /\ b.sdown = m.sdown
      /\ b.leader = m.leader /\ b.lepoch = m.lepoch
  BY DEF Memory, SameStage
<1> HIDE DEF a, b, n
<1>6. CASE m.lepoch < epoch /\ e <= epoch /\ n = a
  BY <1>1, <1>3, <1>4, <1>6 DEF n
<1>7. CASE n = b
  BY <1>1, <1>3, <1>5, <1>7 DEF n
<1> QED BY <1>2, <1>6, <1>7

LEMMA VoteOK ==
  ASSUME NEW s \in Sentinels, NEW m, NEW V, NEW E, Sound(s, m, V, E),
         V \in SUBSET (Sentinels \X Nat \X Sentinels),
         NEW epoch \in Nat, NEW runid \in Sentinels, None \notin Sentinels
  PROVE  Sound(s, Vote(m, epoch, runid), V \cup CastBy(s, m, Vote(m, epoch, runid)), E)
<1> DEFINE n == Vote(m, epoch, runid)
           W == V \cup CastBy(s, m, n)
           b == <<s, n.lepoch, n.leader>>
<1>1. m \in Memory
  BY DEF Sound
<1>2. /\ n \in Memory
      /\ SameStage(m, n) /\ n.config = m.config /\ n.peer = m.peer /\ n.epoch >= m.epoch
      /\ \/ n.leader = m.leader /\ n.lepoch = m.lepoch
         \/ n.leader = runid /\ n.lepoch = epoch /\ epoch > m.lepoch
  BY <1>1, VoteFields
<1> HIDE DEF n
<1>3. m.epoch \in Nat /\ n.epoch \in Nat /\ m.fepoch \in Nat /\ m.lepoch \in Nat
  BY <1>1, <1>2 DEF Memory
<1>4. n.fepoch <= n.epoch
  BY <1>2, <1>3 DEF Sound, SameStage
<1>5. Known(n)
  BY <1>2 DEF Sound, SameStage, Known
<1>6. Elected(s, n, E)
  BY <1>2 DEF Sound, SameStage, Elected
<1>7. Counted(s, n, W)
  <2>1. CASE n.leader = m.leader /\ n.lepoch = m.lepoch
    <3>1. W = V
      BY <2>1 DEF CastBy
    <3> QED BY <2>1, <3>1, <1>2 DEF Sound, Counted
  <2>2. CASE n.leader = runid /\ n.lepoch = epoch /\ epoch > m.lepoch
    <3>1. W = V \cup {b}
      BY <2>2, <1>3 DEF CastBy
    <3>2. \A v \in W : v[1] = s => v[2] <= n.lepoch
      <4> SUFFICES ASSUME NEW v \in W, v[1] = s PROVE v[2] <= n.lepoch
        OBVIOUS
      <4>1. CASE v \in V
        <5>1. v[2] <= m.lepoch /\ v[2] \in Nat
          BY <4>1 DEF Sound, Counted
        <5> QED BY <5>1, <2>2, <1>3
      <4>2. CASE v = b
        BY <4>2, <2>2
      <4> QED BY <4>1, <4>2, <3>1
    <3>3. b \in W
      BY <3>1
    <3>4. \A t \in Sentinels : n.peer[t].leader # None =>
            <<t, n.peer[t].epoch, n.peer[t].leader>> \in W
      BY <1>2 DEF Sound, Counted
    <3> QED BY <3>2, <3>3, <3>4 DEF Counted
  <2> QED BY <1>2, <2>1, <2>2
<1>8. Sound(s, n, W, E)
  BY <1>2, <1>4, <1>5, <1>6, <1>7 DEF Sound
<1> QED BY <1>8 DEF n

\* Votes of others and elections won leave a memory sound.
LEMMA SoundGrows ==
  ASSUME NEW s \in Sentinels, NEW m, NEW V, NEW E, NEW W, NEW F, Sound(s, m, V, E),
         V \subseteq W, E \subseteq F, \A v \in W \ V : v[1] # s
  PROVE  Sound(s, m, W, F)
<1>1. Counted(s, m, W)
  BY DEF Sound, Counted
<1>2. Elected(s, m, F)
  BY DEF Sound, Elected, FromElection
<1> QED BY <1>1, <1>2 DEF Sound

LEMMA SoundSame ==
  ASSUME NEW s \in Sentinels, NEW m, NEW V, NEW E, Sound(s, m, V, E),
         NEW n \in Memory, SameVotes(m, n), SameStage(m, n), n.epoch >= m.epoch,
         conf.forced = {} /\ FromElection(m.config, E) => FromElection(n.config, E)
  PROVE  Sound(s, n, V, E)
<1>1. n.fepoch <= n.epoch
  BY DEF Sound, SameStage, Memory
<1>2. Known(n)
  BY DEF Sound, SameStage, Known
<1>3. Elected(s, n, E)
  BY DEF Sound, SameStage, Elected
<1>4. Counted(s, n, V)
  BY DEF Sound, SameVotes, Counted
<1> QED BY <1>1, <1>2, <1>3, <1>4 DEF Sound

LEMMA DownOK ==
  ASSUME NEW s \in Sentinels, NEW m, NEW V, NEW E, Sound(s, m, V, E), NEW d \in BOOLEAN
  PROVE  LET n == [m EXCEPT !.sdown = d]
         IN  /\ Sound(s, n, V, E) /\ SameVotes(m, n) /\ SameStage(m, n)
             /\ n.config = m.config /\ n.epoch = m.epoch
<1> DEFINE n == [m EXCEPT !.sdown = d]
<1>1. m \in Memory
  BY DEF Sound
<1>2. n \in Memory
  BY <1>1 DEF Memory
<1>3. SameVotes(m, n) /\ SameStage(m, n) /\ n.config = m.config /\ n.epoch = m.epoch
  BY <1>1 DEF Memory, SameVotes, SameStage
<1>4. n.epoch >= m.epoch
  BY <1>1, <1>3 DEF Memory
<1> HIDE DEF n
<1>5. Sound(s, n, V, E)
  BY <1>2, <1>3, <1>4, SoundSame
<1> QED BY <1>3, <1>5 DEF n

\* sentinelStartFailover
LEMMA StartOK ==
  ASSUME NEW s \in Sentinels, NEW m, NEW V, NEW E, Sound(s, m, V, E), m.state = 0
  PROVE  LET n == StartFailover(m)
         IN  /\ Sound(s, n, V, E) /\ SameVotes(m, n)
             /\ n.config = m.config /\ n.state = 1 /\ n.force = m.force
<1> DEFINE n == StartFailover(m)
           e == m.epoch + 1
<1>1. m \in Memory /\ e \in Nat /\ 1 \in States
  BY DEF Sound, Memory, States
<1>2. n = [m EXCEPT !.state = 1, !.epoch = e, !.fepoch = e]
  BY DEF StartFailover, WaitStart
<1> HIDE DEF n, e
<1>3. n \in Memory
  BY <1>1, <1>2, Zenon DEF Memory
<1>4. /\ SameVotes(m, n) /\ n.config = m.config /\ n.state = 1 /\ n.force = m.force
      /\ n.epoch = e /\ n.fepoch = e /\ n.promoted = m.promoted /\ n.flag = m.flag
  BY <1>1, <1>2 DEF Memory, SameVotes
<1>5. Known(n)
  BY <1>4 DEF Sound, Known
<1>6. Elected(s, n, E)
  BY <1>4 DEF Sound, Elected
<1>7. Counted(s, n, V)
  BY <1>4 DEF Sound, SameVotes, Counted
<1>8. Sound(s, n, V, E)
  BY <1>1, <1>3, <1>4, <1>5, <1>6, <1>7 DEF Sound
<1> QED BY <1>4, <1>8 DEF n

\* sentinelAbortFailover, which is never called while replicas are reconfigured
LEMMA AbortOK ==
  ASSUME NEW s \in Sentinels, NEW m, NEW V, NEW E, Sound(s, m, V, E),
         m.state \notin {5, 6}
  PROVE  LET n == Abort(m)
         IN  Sound(s, n, V, E) /\ SameVotes(m, n) /\ n.config = m.config /\ n.state = 0
<1> DEFINE n == Abort(m)
           no == FALSE
<1>1. m \in Memory /\ no \in BOOLEAN /\ None \in Addresses /\ 0 \in States
  BY DEF Sound, Addresses, States
<1>2. n = [m EXCEPT !.state = 0, !.fepoch = 0, !.force = no, !.promoted = None]
  BY DEF Abort, NoFailover
<1>3. ~n.force
  BY <1>1, <1>2 DEF Memory
<1> HIDE DEF n, no
<1>4. n \in Memory
  BY <1>1, <1>2, Zenon DEF Memory
<1>5. /\ SameVotes(m, n) /\ n.config = m.config /\ n.state = 0
      /\ n.epoch = m.epoch /\ n.fepoch = 0 /\ n.promoted = None /\ n.flag = m.flag
  BY <1>1, <1>2 DEF Memory, SameVotes
<1>6. Known(n)
  BY <1>5 DEF Sound, Known
<1>7. Elected(s, n, E)
  BY <1>3, <1>5 DEF Sound, Elected
<1>8. Counted(s, n, V)
  BY <1>5 DEF Sound, SameVotes, Counted
<1>9. n.fepoch <= n.epoch
  BY <1>4, <1>5 DEF Memory
<1>10. Sound(s, n, V, E)
  BY <1>4, <1>6, <1>7, <1>8, <1>9 DEF Sound
<1> QED BY <1>5, <1>10 DEF n

\* sentinelResetMaster forgets the failover and whom it voted for.
LEMMA ResetOK ==
  ASSUME NEW s \in Sentinels, NEW m, NEW V, NEW E, Sound(s, m, V, E),
         NEW a \in Instances
  PROVE  LET n == ResetMaster(m, a)
         IN  /\ Sound(s, n, V, E) /\ n.lepoch = m.lepoch /\ n.config = m.config
             /\ n.state = 0 /\ n.addr = a /\ n.epoch = m.epoch
<1> DEFINE n == ResetMaster(m, a)
           no == FALSE
           f == [i \in Instances |-> {}]
<1>1. /\ m \in Memory /\ no \in BOOLEAN /\ None \in Addresses /\ None \in RunIds
      /\ f \in [Instances -> Flags] /\ \A i \in Instances : f[i] = {}
      /\ 0 \in States
  BY DEF Sound, Addresses, RunIds, Flags, States
<1>2. n = [m EXCEPT !.addr = a, !.sdown = no, !.leader = None, !.state = 0, !.fepoch = 0,
                    !.force = no, !.promoted = None, !.flag = f]
  BY DEF ResetMaster, NoFailover
<1>3. ~n.force
  BY <1>1, <1>2 DEF Memory
<1> HIDE DEF n, no, f
<1>4. n \in Memory
  BY <1>1, <1>2, Zenon DEF Memory
<1>5. /\ n.leader = None /\ n.lepoch = m.lepoch /\ n.peer = m.peer
      /\ n.config = m.config /\ n.state = 0 /\ n.addr = a
      /\ n.epoch = m.epoch /\ n.fepoch = 0 /\ n.promoted = None /\ n.flag = f
  BY <1>1, <1>2 DEF Memory
<1>6. Known(n)
  BY <1>1, <1>5 DEF Known
<1>7. Elected(s, n, E)
  BY <1>3, <1>5 DEF Sound, Elected
<1>8. Counted(s, n, V)
  BY <1>5 DEF Sound, Counted
<1>9. n.fepoch <= n.epoch
  BY <1>4, <1>5 DEF Memory
<1>10. Sound(s, n, V, E)
  BY <1>4, <1>6, <1>7, <1>8, <1>9 DEF Sound
<1> QED BY <1>5, <1>10 DEF n

\* Old answers are forgotten.
LEMMA ForgetOK ==
  ASSUME NEW s \in Sentinels, NEW m, NEW V, NEW E, Sound(s, m, V, E), NEW old
  PROVE  LET n == Forget(m, old)
         IN  /\ Sound(s, n, V, E) /\ SameStage(m, n) /\ n.lepoch = m.lepoch
             /\ n.config = m.config /\ n.addr = m.addr /\ n.epoch = m.epoch
<1> DEFINE n == Forget(m, old)
           p == [t \in Sentinels |-> IF t \in old THEN Unasked ELSE m.peer[t]]
<1>1. m \in Memory
  BY DEF Sound
<1>2. Unasked \in Peers /\ Unasked.leader = None
  BY DEF Unasked, Peers, RunIds
<1>3. n = [m EXCEPT !.peer = p]
  BY DEF Forget
<1>4. p \in [Sentinels -> Peers]
  BY <1>1, <1>2 DEF Memory
<1>5. \A t \in Sentinels : p[t].leader # None => p[t] = m.peer[t]
  BY <1>2
<1> HIDE DEF n, p
<1>6. n \in Memory
  BY <1>1, <1>3, <1>4 DEF Memory
<1>7. /\ SameStage(m, n) /\ n.lepoch = m.lepoch /\ n.leader = m.leader /\ n.peer = p
      /\ n.config = m.config /\ n.addr = m.addr /\ n.epoch = m.epoch
  BY <1>1, <1>3 DEF Memory, SameStage
<1>8. Counted(s, n, V)
  BY <1>5, <1>7 DEF Sound, Counted
<1>9. Known(n)
  BY <1>7 DEF Sound, SameStage, Known
<1>10. Elected(s, n, E)
  BY <1>7 DEF Sound, SameStage, Elected
<1>11. n.fepoch <= n.epoch
  BY <1>7 DEF Sound, SameStage
<1>12. Sound(s, n, V, E)
  BY <1>6, <1>8, <1>9, <1>10, <1>11 DEF Sound
<1> QED BY <1>7, <1>12 DEF n

-----------------------------------------------------------------------------
(* The failover state machine. *)

LEMMA Half ==
  ASSUME NEW n \in Nat, NEW k \in Nat, k >= (n \div 2) + 1
  PROVE  2 * k > n
OBVIOUS

\* sentinelGetLeader: the winner has the votes of a majority, each in the epoch
\* of the failover or a later one, its own included.
LEMMA Majority ==
  ASSUME NEW s \in Sentinels, NEW m, NEW V, NEW E, Sound(s, m, V, E),
         V \in SUBSET (Sentinels \X Nat \X Sentinels),
         Deployable, conf \in Configs, m.epoch <= conf.epochs,
         NEW f \in RunIds, GetLeader(m, s, f).winner = s
  PROVE  2 * Cardinality(Backers(<<s, m.fepoch>>,
                                 V \cup CastBy(s, m, GetLeader(m, s, f).m))) > Voters
<1> DEFINE r == IF f = None THEN s ELSE f
           n == Vote(m, m.fepoch, r)
           W == V \cup CastBy(s, m, n)
           R == {t \in Sentinels \ {s} : m.peer[t].leader = s /\ m.peer[t].epoch = m.epoch}
           B == Backers(<<s, m.fepoch>>, W)
           k == Reported(m, s, s)
           max == IF f = None THEN 0 ELSE Reported(m, s, f)
           mine == IF n.leader # None /\ n.lepoch = m.fepoch
                     THEN Reported(m, s, n.leader) + 1 ELSE 0
           best == IF mine > max THEN [runid |-> n.leader, votes |-> mine]
                                 ELSE [runid |-> f, votes |-> max]
<1>1. /\ None \notin Sentinels /\ IsFiniteSet(Sentinels) /\ conf.epochs \in Nat
      /\ conf.quorum \in Nat
      /\ m \in Memory /\ m.fepoch \in Nat /\ m.epoch \in Nat /\ m.fepoch <= m.epoch
      /\ r \in Sentinels
  BY SMTT(30) DEF Deployable, Sound, Memory, RunIds
<1>2. GetLeader(m, s, f).m = n
  BY DEF GetLeader
<1>3. best.votes >= (Voters \div 2) + 1 /\ best.runid = s
  <2>1. GetLeader(m, s, f).winner =
          IF best.votes >= (Voters \div 2) + 1 /\ best.votes >= conf.quorum
            THEN best.runid ELSE None
    BY Zenon DEF GetLeader
  <2> HIDE DEF best
  <2> QED BY <2>1, <1>1, SMTT(30)
<1>4. Sound(s, n, W, E)
  BY <1>1, VoteOK
<1> HIDE DEF n, r
<1>5. /\ IsFiniteSet(R) /\ IsFiniteSet(B) /\ k = Cardinality(R) /\ k \in Nat
      /\ Cardinality(B) \in Nat /\ Voters \in Nat
  <2>1. R \subseteq Sentinels /\ B \subseteq Sentinels
    BY DEF Backers
  <2>2. IsFiniteSet(R) /\ IsFiniteSet(B)
    BY <2>1, <1>1, FS_Subset, Zenon
  <2>3. k = Cardinality(R)
    BY DEF Reported
  <2>4. Cardinality(R) \in Nat /\ Cardinality(B) \in Nat /\ Voters \in Nat
    BY <2>2, <1>1, FS_CardinalityType DEF Voters
  <2> QED BY <2>2, <2>3, <2>4
<1>6. R \subseteq B
  <2> SUFFICES ASSUME NEW t \in R PROVE t \in B
    BY Zenon
  <2>1. <<t, m.epoch, s>> \in V
    BY <1>1 DEF Sound, Counted
  <2>2. m.epoch \in m.fepoch..conf.epochs
    BY <1>1
  <2> QED BY <2>1, <2>2 DEF Backers
<1>7. best.votes = k \/ (best.votes = k + 1 /\ s \in B)
  <2>1. CASE mine > max
    <3>1. best.runid = n.leader /\ best.votes = mine
      BY <2>1
    <3>2. n.leader = s
      BY <3>1, <1>3
    <3>3. CASE n.lepoch = m.fepoch
      <4>1. mine = k + 1
        BY <3>2, <3>3, <1>1
      <4>2. <<s, m.fepoch, s>> \in W
        BY <1>4, <1>1, <3>2, <3>3 DEF Sound, Counted
      <4>3. m.fepoch \in m.fepoch..conf.epochs
        BY <1>1
      <4> QED BY <3>1, <4>1, <4>2, <4>3 DEF Backers
    <3>4. CASE n.lepoch # m.fepoch
      <4>1. mine = 0
        BY <3>4
      <4>2. best.votes = 0
        BY <4>1, <3>1
      <4> HIDE DEF best
      <4> QED BY <4>2, <1>3, <1>5
    <3> QED BY <3>3, <3>4
  <2>2. CASE ~(mine > max)
    <3>1. best.runid = f /\ best.votes = max
      BY <2>2
    <3>2. f = s
      BY <3>1, <1>3
    <3>3. max = k
      BY <3>2, <1>1
    <3> QED BY <3>1, <3>3
  <2> QED BY <2>1, <2>2
<1>8. Cardinality(B) >= best.votes
  <2>1. CASE best.votes = k
    <3>1. Cardinality(R) <= Cardinality(B)
      BY <1>5, <1>6, FS_Subset, Zenon
    <3> QED BY <2>1, <3>1, <1>5
  <2>2. CASE best.votes = k + 1 /\ s \in B
    <3>1. s \notin R
      OBVIOUS
    <3>2. Cardinality(R \cup {s}) = k + 1 /\ IsFiniteSet(R \cup {s})
      BY <3>1, <1>5, FS_AddElement, Zenon
    <3>3. R \cup {s} \subseteq B
      BY <1>6, <2>2, Zenon
    <3>4. Cardinality(R \cup {s}) <= Cardinality(B)
      BY <1>5, <3>3, FS_Subset, Zenon
    <3> QED BY <2>2, <3>2, <3>4, <1>5
  <2> QED BY <1>7, <2>1, <2>2
<1>9. best.votes \in Nat
  BY <1>5, <1>7
<1>10. Cardinality(B) >= (Voters \div 2) + 1
  <2> HIDE DEF best, B
  <2> QED BY <1>3, <1>5, <1>8, <1>9
<1>11. 2 * Cardinality(B) > Voters
  <2> HIDE DEF B
  <2> QED BY <1>5, <1>10, Half
<1> QED BY <1>2, <1>11 DEF n

\* The step wins the election
Wins(m, n) == m.state = WaitStart /\ n.state = SelectSlave /\ ~m.force

Won(s, m, n) == IF Wins(m, n) THEN {<<s, m.fepoch>>} ELSE {}

\* What a step of the machine from m to n establishes
Moved(s, m, n, V, E) ==
  /\ Sound(s, n, V \cup CastBy(s, m, n), E \cup Won(s, m, n))
  /\ n.config = m.config /\ n.addr = m.addr
  /\ \/ n.lepoch = m.lepoch
     \/ n.lepoch > m.lepoch /\ n.leader \in Sentinels
  /\ Wins(m, n) =>
       2 * Cardinality(Backers(<<s, m.fepoch>>, V \cup CastBy(s, m, n))) > Voters

\* A step without a vote or a victory
LEMMA MovedQuietly ==
  ASSUME NEW s \in Sentinels, NEW m, NEW n, NEW V, NEW E, Sound(s, n, V, E),
         SameVotes(m, n), n.config = m.config, n.addr = m.addr, ~Wins(m, n)
  PROVE  Moved(s, m, n, V, E)
<1>1. V \cup CastBy(s, m, n) = V
  BY DEF CastBy, SameVotes
<1>2. E \cup Won(s, m, n) = E
  BY DEF Won
<1> QED BY <1>1, <1>2, SMTT(30) DEF Moved, SameVotes

LEMMA WaitStartOK ==
  ASSUME NEW s \in Sentinels, NEW m, NEW V, NEW E, Sound(s, m, V, E),
         V \in SUBSET (Sentinels \X Nat \X Sentinels),
         Deployable, conf \in Configs, m.epoch <= conf.epochs, m.state = 1,
         NEW x \in WaitStartSteps(m, s)
  PROVE  Moved(s, m, x.m, V, E)
<1>1. PICK f \in (IF Front(m, s) = {} THEN {None} ELSE Front(m, s)) :
        LET g == GetLeader(m, s, f)
        IN  x \in IF g.winner = s \/ m.force
                    THEN {Step([g.m EXCEPT !.state = SelectSlave], {})}
                    ELSE MayAbort(g.m)
  BY DEF WaitStartSteps
<1> DEFINE r == IF f = None THEN s ELSE f
           g == GetLeader(m, s, f)
           n == g.m
           W == V \cup CastBy(s, m, n)
           chosen == [n EXCEPT !.state = 2]
           y == x.m
<1>2. /\ f \in RunIds /\ r \in Sentinels /\ None \notin Sentinels /\ m \in Memory
      /\ m.fepoch \in Nat /\ m.lepoch \in Nat
  BY SMTT(30) DEF Front, RunIds, Deployable, Sound, Memory
<1>3. n = Vote(m, m.fepoch, r)
  BY DEF GetLeader
<1>4. \/ (g.winner = s \/ m.force) /\ y = chosen
      \/ y = n \/ y = Abort(n)
  BY <1>1 DEF Step, MayAbort, SelectSlave
<1> SUFFICES Moved(s, m, y, V, E)
  OBVIOUS
<1> HIDE DEF y
<1>5. /\ SameStage(m, n) /\ n.config = m.config /\ n.addr = m.addr /\ n \in Memory
      /\ \/ n.leader = m.leader /\ n.lepoch = m.lepoch
         \/ n.leader = r /\ n.lepoch = m.fepoch /\ m.fepoch > m.lepoch
  <2> HIDE DEF n, r
  <2> QED BY <1>2, <1>3, VoteFields, Zenon
<1>6. Sound(s, n, W, E)
  <2> HIDE DEF n, r
  <2> QED BY <1>2, <1>3, VoteOK
<1>7. g.winner = s => 2 * Cardinality(Backers(<<s, m.fepoch>>, W)) > Voters
  BY <1>2, Majority
<1> HIDE DEF n, r, g
<1>8. n.state = 1
  BY <1>5 DEF SameStage
<1>9. CASE y = n \/ y = Abort(n)
  <2>1. Sound(s, y, W, E) /\ SameVotes(n, y) /\ y.config = n.config /\ y.state # 2
    <3>1. Sound(s, Abort(n), W, E) /\ SameVotes(n, Abort(n))
          /\ Abort(n).config = n.config /\ Abort(n).state = 0
      BY <1>6, <1>8, AbortOK
    <3> QED BY <3>1, <1>6, <1>8, <1>9 DEF SameVotes
  <2>2. y.addr = m.addr
    BY <1>5, <1>9, Zenon DEF Abort, Memory
  <2>3. ~Wins(m, y)
    BY <2>1 DEF Wins, SelectSlave
  <2>4. CastBy(s, m, y) = CastBy(s, m, n) /\ Won(s, m, y) = {}
    BY <2>1, <2>3 DEF CastBy, SameVotes, Won
  <2>5. E \cup Won(s, m, y) = E
    BY <2>4
  <2> QED BY <2>1, <2>2, <2>3, <2>4, <2>5, <1>2, <1>5 DEF Moved, SameVotes
<1>10. CASE (g.winner = s \/ m.force) /\ y = chosen
  <2>1. 2 \in States
    BY DEF States
  <2>2. y \in Memory
    BY <2>1, <1>5, <1>10 DEF Memory
  <2>3. /\ SameVotes(n, y) /\ y.config = n.config /\ y.state = 2 /\ y.addr = n.addr
        /\ y.fepoch = n.fepoch /\ y.force = n.force /\ y.promoted = n.promoted
        /\ y.flag = n.flag /\ y.epoch = n.epoch
    BY <1>5, <1>10 DEF Memory, SameVotes
  <2>4. CastBy(s, m, y) = CastBy(s, m, n)
    BY <2>3 DEF CastBy, SameVotes
  <2> DEFINE F == E \cup Won(s, m, y)
  <2>5. Known(y)
    BY <2>3, <1>6, <1>8 DEF Sound, Known
  <2>6. Counted(s, y, W)
    BY <2>3, <1>6 DEF Sound, Counted, SameVotes
  <2>7. y.fepoch <= y.epoch
    BY <2>3, <1>6 DEF Sound
  <2>8. y.fepoch = m.fepoch /\ y.force = m.force /\ m.state = WaitStart /\ y.state = SelectSlave
    BY <2>3, <1>5 DEF SameStage, WaitStart, SelectSlave
  <2>9. ~m.force => Wins(m, y) /\ Won(s, m, y) = {<<s, m.fepoch>>}
    BY <2>8 DEF Wins, Won
  <2>10. Elected(s, y, F)
    <3> SUFFICES ASSUME conf.forced = {}
                 PROVE  /\ ~y.force /\ FromElection(y.config, F)
                        /\ <<s, y.fepoch>> \in F
      BY DEF Elected
    <3>1. ~n.force /\ FromElection(n.config, E)
      BY <1>6 DEF Sound, Elected
    <3>2. ~m.force
      BY <3>1, <2>8, <2>3
    <3> QED BY <3>1, <3>2, <2>3, <2>8, <2>9 DEF FromElection
  <2>11. Sound(s, y, W, F)
    BY <2>2, <2>5, <2>6, <2>7, <2>10 DEF Sound
  <2>12. Wins(m, y) => g.winner = s
    BY <1>10 DEF Wins
  <2> QED BY <2>3, <2>4, <2>11, <2>12, <1>2, <1>5, <1>7 DEF Moved, SameVotes
<1> QED BY <1>4, <1>9, <1>10

\* Later stages of a failover
LEMMA StageOK ==
  ASSUME NEW s \in Sentinels, NEW m, NEW V, NEW E, Sound(s, m, V, E),
         m.state \in 2..6, NEW n \in Memory, SameVotes(m, n), n.config = m.config,
         n.epoch = m.epoch, n.fepoch = m.fepoch, n.force = m.force, Known(n)
  PROVE  Sound(s, n, V, E)
<1>1. Elected(s, n, E)
  BY DEF Sound, Elected
<1>2. Counted(s, n, V)
  BY DEF Sound, SameVotes, Counted
<1> QED BY <1>1, <1>2 DEF Sound

LEMMA MayAbortOK ==
  ASSUME NEW s \in Sentinels, NEW m, NEW V, NEW E, Sound(s, m, V, E),
         m.state \in {2, 3, 4}, NEW x \in MayAbort(m)
  PROVE  Moved(s, m, x.m, V, E)
<1> DEFINE y == x.m
<1>1. y = m \/ y = Abort(m)
  BY DEF MayAbort, Step
<1>2. Sound(s, Abort(m), V, E) /\ SameVotes(m, Abort(m)) /\ Abort(m).config = m.config
  BY AbortOK
<1>3. Abort(m).addr = m.addr
  BY DEF Abort, Sound, Memory
<1>4. Sound(s, y, V, E) /\ SameVotes(m, y) /\ y.config = m.config /\ y.addr = m.addr
  BY <1>1, <1>2, <1>3 DEF SameVotes
<1>5. ~Wins(m, y)
  BY DEF Wins, WaitStart
<1> QED BY <1>4, <1>5, MovedQuietly

LEMMA SelectOK ==
  ASSUME NEW s \in Sentinels, NEW m, NEW V, NEW E, Sound(s, m, V, E),
         Deployable, m.state = 2, NEW x \in SelectSteps(m)
  PROVE  Moved(s, m, x.m, V, E)
<1> DEFINE y == x.m
<1>1. m \in Memory
  BY DEF Sound
<1>2. CASE x = Step(Abort(m), {})
  BY <1>2, MayAbortOK DEF MayAbort
<1>3. CASE \E i \in UNION {Selectable(m, u) : u \in SUBSET Slaves(m)} :
             x = Step([m EXCEPT !.promoted = i, !.state = SendSlaveofNoone], {})
  <2>1. PICK i \in UNION {Selectable(m, u) : u \in SUBSET Slaves(m)} :
             x = Step([m EXCEPT !.promoted = i, !.state = SendSlaveofNoone], {})
    BY <1>3, Zenon
  <2>2. i \in Instances /\ i # None /\ i \in Addresses /\ 3 \in States
    BY DEF Selectable, Slaves, Deployable, Addresses, States
  <2>3. y = [m EXCEPT !.promoted = i, !.state = 3]
    BY <2>1 DEF Step, SendSlaveofNoone
  <2> HIDE DEF y
  <2>4. y \in Memory
    BY <1>1, <2>2, <2>3, Zenon DEF Memory
  <2>5. /\ SameVotes(m, y) /\ y.config = m.config /\ y.epoch = m.epoch /\ y.addr = m.addr
        /\ y.fepoch = m.fepoch /\ y.force = m.force /\ y.flag = m.flag
        /\ y.promoted = i /\ y.state = 3
    BY <1>1, <2>3 DEF Memory, SameVotes
  <2>6. Known(y)
    BY <2>2, <2>5 DEF Sound, Known
  <2>7. Sound(s, y, V, E)
    BY <2>4, <2>5, <2>6, StageOK
  <2>8. ~Wins(m, y)
    BY DEF Wins, WaitStart
  <2>9. Moved(s, m, y, V, E)
    BY <2>5, <2>7, <2>8, MovedQuietly
  <2> QED BY <2>9 DEF y
<1> QED BY <1>2, <1>3, Zenon DEF SelectSteps

LEMMA SlaveofNooneOK ==
  ASSUME NEW s \in Sentinels, NEW m, NEW V, NEW E, Sound(s, m, V, E),
         m.state = 3, NEW x \in SlaveofNooneSteps(m)
  PROVE  Moved(s, m, x.m, V, E)
<1> DEFINE y == x.m
<1>1. m \in Memory
  BY DEF Sound
<1>2. CASE x \in MayAbort(m)
  BY <1>2, MayAbortOK
<1>3. CASE x = Step([m EXCEPT !.state = WaitPromotion], Slaveof({m.promoted}, None))
  <2>1. y = [m EXCEPT !.state = 4] /\ 4 \in States
    BY <1>3 DEF Step, WaitPromotion, States
  <2> HIDE DEF y
  <2>2. y \in Memory
    BY <1>1, <2>1 DEF Memory
  <2>3. /\ SameVotes(m, y) /\ y.config = m.config /\ y.epoch = m.epoch /\ y.addr = m.addr
        /\ y.fepoch = m.fepoch /\ y.force = m.force /\ y.flag = m.flag
        /\ y.promoted = m.promoted /\ y.state = 4
    BY <1>1, <2>1 DEF Memory, SameVotes
  <2>4. Known(y)
    BY <2>3 DEF Sound, Known
  <2>5. Sound(s, y, V, E)
    BY <2>2, <2>3, <2>4, StageOK
  <2>6. ~Wins(m, y)
    BY DEF Wins, WaitStart
  <2>7. Moved(s, m, y, V, E)
    BY <2>3, <2>5, <2>6, MovedQuietly
  <2> QED BY <2>7 DEF y
<1> QED BY <1>2, <1>3 DEF SlaveofNooneSteps

\* Marking replicas, and the end of the reconfiguration
Marked(m, p, f) == [m EXCEPT !.state = p, !.flag = f]

Marking(s, m, n, p, V, E) ==
  /\ Sound(s, n, V, E) /\ SameVotes(m, n) /\ n.config = m.config
  /\ n.addr = m.addr /\ n.state = p

LEMMA MarkOK ==
  ASSUME NEW s \in Sentinels, NEW m, NEW V, NEW E, Sound(s, m, V, E), m.state = 5,
         NEW p \in {5, 6}, NEW f \in [Instances -> Flags]
  PROVE  Marking(s, m, Marked(m, p, f), p, V, E)
<1> DEFINE n == Marked(m, p, f)
<1>1. m \in Memory /\ p \in States
  BY DEF Sound, States
<1>2. n \in Memory
  BY <1>1, Zenon DEF Memory, Marked
<1>3. /\ SameVotes(m, n) /\ n.config = m.config /\ n.epoch = m.epoch /\ n.addr = m.addr
      /\ n.fepoch = m.fepoch /\ n.force = m.force /\ n.promoted = m.promoted
      /\ n.state = p
  BY <1>1 DEF Memory, SameVotes, Marked
<1>4. Known(n)
  BY <1>3 DEF Sound, Known
<1>5. m.state \in 2..6
  OBVIOUS
<1>6. Sound(s, n, V, E)
  BY <1>2, <1>3, <1>4, <1>5, StageOK, Zenon
<1> QED BY <1>3, <1>6, Zenon DEF Marking

LEMMA ReconfOK ==
  ASSUME NEW s \in Sentinels, NEW m, NEW V, NEW E, Sound(s, m, V, E),
         m.state = 5, NEW x \in ReconfSteps(m)
  PROVE  Moved(s, m, x.m, V, E)
<1>1. \E seen, conn, stale, down, late :
        x = DetectEnd(ReconfNext(m, seen, conn, stale), conn, down, late)
  <2>1. PICK conn \in SUBSET Slaves(m), stale \in SUBSET WasSent(m) :
          x \in UNION {ReconfEnds(m, seen, conn, stale) : seen \in ReconfSeen(m, conn, stale)}
    BY DEF ReconfSteps
  <2>2. PICK seen : x \in ReconfEnds(m, seen, conn, stale)
    BY <2>1
  <2> QED BY <2>2, SMTT(30) DEF ReconfEnds
<1>2. PICK seen, conn, stale, down, late :
        x = DetectEnd(ReconfNext(m, seen, conn, stale), conn, down, late)
  BY <1>1
<1> DEFINE expired == {i \in seen \cap stale : "sent" \in m.flag[i]}
           sends == {i \in seen \cap conn : i \in expired \/ m.flag[i] = {}}
           f == [i \in Instances |->
                   (IF i \in expired THEN (m.flag[i] \ {"sent"}) \cup {"done"} ELSE m.flag[i])
                     \cup (IF i \in sends THEN {"sent"} ELSE {})]
           r == ReconfNext(m, seen, conn, stale)
           n == r.m
           last == {i \in Slaves(n) \cap conn : n.flag[i] \cap {"done", "sent"} = {}}
           g == [i \in Instances |->
                   IF late /\ i \in last THEN n.flag[i] \cup {"sent"} ELSE n.flag[i]]
           y == x.m
<1>3. m \in Memory /\ m.flag \in [Instances -> Flags]
  BY DEF Sound, Memory
<1>4. n = [m EXCEPT !.flag = f]
  BY DEF ReconfNext, Step
<1>5. y = n \/ y = Marked(n, 6, g)
  BY <1>2 DEF DetectEnd, Step, UpdateConfig, Marked
<1> SUFFICES Moved(s, m, y, V, E)
  OBVIOUS
<1>6. f \in [Instances -> Flags]
  <2> HIDE DEF expired, sends
  <2> QED BY <1>3 DEF Flags
<1> HIDE DEF f, r, y, n
<1>7. n = Marked(m, 5, f)
  BY <1>3, <1>4, Zenon DEF Memory, Marked
<1>8. /\ Sound(s, n, V, E) /\ SameVotes(m, n) /\ n.config = m.config /\ n.addr = m.addr
      /\ n.state = 5
  <2>1. Marking(s, m, Marked(m, 5, f), 5, V, E)
    BY <1>6, MarkOK, 5 \in {5, 6}, Zenon
  <2> QED BY <2>1, <1>7, Zenon DEF Marking
<1>9. g \in [Instances -> Flags]
  <2>1. n.flag \in [Instances -> Flags]
    BY <1>8 DEF Sound, Memory
  <2> HIDE DEF last
  <2> QED BY <2>1 DEF Flags
<1> HIDE DEF g
<1>10. ~Wins(m, y)
  BY DEF Wins, WaitStart
<1>11. CASE y = n
  BY <1>8, <1>10, <1>11, MovedQuietly
<1>12. CASE y = Marked(n, 6, g)
  <2>1. Sound(s, y, V, E) /\ SameVotes(n, y) /\ y.config = n.config /\ y.addr = n.addr
    <3>1. Marking(s, n, Marked(n, 6, g), 6, V, E)
      BY <1>8, <1>9, MarkOK, 6 \in {5, 6}, Zenon
    <3> QED BY <3>1, <1>12, Zenon DEF Marking
  <2> QED BY <2>1, <1>8, <1>10, MovedQuietly DEF SameVotes
<1> QED BY <1>5, <1>11, <1>12

LEMMA MachineOK ==
  ASSUME NEW s \in Sentinels, NEW m, NEW V, NEW E, Sound(s, m, V, E),
         V \in SUBSET (Sentinels \X Nat \X Sentinels),
         Deployable, conf \in Configs, m.epoch <= conf.epochs, m.state # 6,
         NEW x \in MachineSteps(m, s)
  PROVE  Moved(s, m, x.m, V, E)
<1> USE DEF WaitStart, SelectSlave, SendSlaveofNoone, WaitPromotion, ReconfSlaves
<1>1. m.state \in 0..5
  BY DEF Sound, Memory, States
<1>2. CASE m.state = 1
  BY <1>2, WaitStartOK DEF MachineSteps
<1>3. CASE m.state = 2
  BY <1>3, SelectOK DEF MachineSteps
<1>4. CASE m.state = 3
  BY <1>4, SlaveofNooneOK DEF MachineSteps
<1>5. CASE m.state = 4
  BY <1>5, MayAbortOK DEF MachineSteps
<1>6. CASE m.state = 5
  BY <1>6, ReconfOK DEF MachineSteps
<1>7. CASE m.state = 0
  <2>1. x = Step(m, {})
    BY <1>7 DEF MachineSteps
  <2>2. x.m = m
    BY <2>1 DEF Step
  <2>3. ~Wins(m, m) /\ SameVotes(m, m)
    BY <1>7 DEF Wins, SameVotes
  <2> QED BY <2>2, <2>3, MovedQuietly
<1> QED BY <1>1, <1>2, <1>3, <1>4, <1>5, <1>6, <1>7

\* sentinelFailoverSwitchToPromotedSlave resets only to a known replica.
LEMMA SwitchedOK ==
  ASSUME NEW s \in Sentinels, NEW m, NEW V, NEW E, Sound(s, m, V, E)
  PROVE  /\ Sound(s, Switched(m), V, E) /\ Switched(m).state # 6
         /\ Switched(m).lepoch = m.lepoch /\ Switched(m).config = m.config
<1>1. CASE m.state = 6
  <2>1. m.promoted \in Instances
    BY <1>1 DEF Sound, Known, Memory, Addresses
  <2>2. Switched(m) = ResetMaster(m, m.promoted)
    BY <1>1 DEF Switched, UpdateConfig
  <2> QED BY <2>1, <2>2, ResetOK
<1>2. CASE m.state # 6
  BY <1>2 DEF Switched, UpdateConfig
<1> QED BY <1>1, <1>2

\* sentinelFlushConfig after a change of the memory
LEMMA SavedOK ==
  ASSUME NEW s \in Sentinels, NEW m, NEW V, NEW E, Sound(s, m, V, E)
  PROVE  FileOK(Saved(m), m, E)
<1>1. m \in Memory /\ m.state \in 0..6
  BY DEF Sound, Memory, States
<1>2. CurrentAddress(m) \in Instances
  <2>1. CASE m.state >= 5
    <3>1. m.promoted \in Instances
      BY <1>1, <2>1 DEF Sound, Known, Memory, Addresses
    <3> QED BY <2>1, <3>1 DEF CurrentAddress, ReconfSlaves
  <2>2. CASE ~(m.state >= 5)
    BY <2>2, <1>1 DEF CurrentAddress, ReconfSlaves, Memory
  <2> QED BY <2>1, <2>2
<1>3. Saved(m) \in Epochs
  BY <1>1, <1>2 DEF Saved, Epochs, Memory
<1>4. Saved(m).lepoch = m.lepoch /\ Saved(m).config = m.config
  BY DEF Saved
<1> QED BY <1>3, <1>4 DEF FileOK, Sound, Elected

\* Before the state machine: S_DOWN is set or cleared and a failover may start.
LEMMA StartedOK ==
  ASSUME NEW s \in Sentinels, NEW m, NEW V, NEW E, Sound(s, m, V, E), m.state # 6,
         NEW down \in BOOLEAN, NEW waited \in BOOLEAN
  PROVE  LET n == StartIfNeeded([m EXCEPT !.sdown = down], s, waited)
         IN  /\ Sound(s, n, V, E) /\ SameVotes(m, n) /\ n.config = m.config
             /\ n.state # 6
<1> DEFINE m0 == [m EXCEPT !.sdown = down]
           n == StartIfNeeded(m0, s, waited)
<1>1. /\ Sound(s, m0, V, E) /\ SameVotes(m, m0) /\ SameStage(m, m0)
      /\ m0.config = m.config
  BY DownOK
<1> HIDE DEF m0
<1>2. m0.state # 6
  BY <1>1 DEF SameStage
<1>3. CASE n = m0
  BY <1>1, <1>2, <1>3, Zenon DEF m0
<1>4. CASE n = StartFailover(m0) /\ m0.state = 0
  <2>1. /\ Sound(s, n, V, E) /\ SameVotes(m0, n) /\ n.config = m0.config /\ n.state = 1
    BY <1>1, <1>4, StartOK
  <2>2. SameVotes(m, n) /\ n.config = m.config
    BY <1>1, <2>1 DEF SameVotes
  <2> HIDE DEF n
  <2>3. n.state # 6
    BY <2>1
  <2> QED BY <2>1, <2>2, <2>3 DEF n, m0
<1>5. n = m0 \/ (n = StartFailover(m0) /\ m0.state = 0)
  BY DEF StartIfNeeded, NoFailover
<1> QED BY <1>3, <1>4, <1>5

\* sentinelReceiveIsMasterDownReply records a vote that was cast.
LEMMA PeerOK ==
  ASSUME NEW s \in Sentinels, NEW m, NEW V, NEW E, Sound(s, m, V, E),
         NEW t \in Sentinels, NEW p \in Peers,
         p.leader # None => <<t, p.epoch, p.leader>> \in V
  PROVE  LET n == [m EXCEPT !.peer[t] = p]
         IN  /\ Sound(s, n, V, E) /\ SameStage(m, n) /\ n.lepoch = m.lepoch
             /\ n.config = m.config
<1> DEFINE g == [m.peer EXCEPT ![t] = p]
           n == [m EXCEPT !.peer = g]
<1>1. m \in Memory /\ m.peer \in [Sentinels -> Peers]
  BY DEF Sound, Memory
<1>2. /\ g \in [Sentinels -> Peers]
      /\ \A u \in Sentinels : g[u].leader # None => <<u, g[u].epoch, g[u].leader>> \in V
  BY <1>1 DEF Sound, Counted
<1> HIDE DEF g
<1>3. n \in Memory
  BY <1>1, <1>2 DEF Memory
<1>4. /\ SameStage(m, n) /\ n.lepoch = m.lepoch /\ n.leader = m.leader /\ n.peer = g
      /\ n.config = m.config /\ n.epoch = m.epoch
  BY <1>1 DEF Memory, SameStage
<1> HIDE DEF n
<1>5. Counted(s, n, V)
  BY <1>2, <1>4 DEF Sound, Counted
<1>6. Known(n)
  BY <1>4 DEF Sound, SameStage, Known
<1>7. Elected(s, n, E)
  BY <1>4 DEF Sound, SameStage, Elected
<1>8. n.fepoch <= n.epoch
  BY <1>4 DEF Sound, SameStage
<1>9. Sound(s, n, V, E)
  BY <1>3, <1>5, <1>6, <1>7, <1>8 DEF Sound
<1>10. n = [m EXCEPT !.peer[t] = p]
  BY DEF n, g
<1> QED BY <1>4, <1>9, <1>10

\* A memory keeps the epoch of its last vote, or the vote is written.
LEMMA FlushedOK ==
  ASSUME NEW s \in Sentinels, NEW m, NEW n, NEW V, NEW E, NEW d, NEW c,
         Sound(s, n, V, E), FileOK(d, m, E),
         c = Saved(n) \/ (c = d /\ n.lepoch = m.lepoch)
  PROVE  FileOK(c, n, E)
<1>1. CASE c = Saved(n)
  BY <1>1, SavedOK
<1>2. CASE c = d /\ n.lepoch = m.lepoch
  BY <1>2 DEF FileOK
<1> QED BY <1>1, <1>2

LEMMA FlagOK ==
  ASSUME NEW s \in Sentinels, NEW m, NEW V, NEW E, Sound(s, m, V, E),
         NEW i \in Instances, NEW f \in Flags, f # {} => m.flag[i] # {}
  PROVE  LET n == [m EXCEPT !.flag[i] = f]
         IN  /\ Sound(s, n, V, E) /\ SameVotes(m, n) /\ n.config = m.config
             /\ n.state = m.state
<1> DEFINE g == [m.flag EXCEPT ![i] = f]
           n == [m EXCEPT !.flag = g]
<1>1. m \in Memory /\ m.flag \in [Instances -> Flags]
  BY DEF Sound, Memory
<1>2. /\ g \in [Instances -> Flags]
      /\ \A j \in Instances : g[j] # {} => m.flag[j] # {}
  BY <1>1
<1> HIDE DEF g
<1>3. n \in Memory
  BY <1>1, <1>2 DEF Memory
<1>4. /\ SameVotes(m, n) /\ n.config = m.config /\ n.epoch = m.epoch
      /\ n.fepoch = m.fepoch /\ n.force = m.force /\ n.promoted = m.promoted
      /\ n.state = m.state /\ n.flag = g
  BY <1>1 DEF Memory, SameVotes
<1> HIDE DEF n
<1>5. Known(n)
  BY <1>2, <1>4 DEF Sound, Known
<1>6. Elected(s, n, E)
  BY <1>4 DEF Sound, Elected
<1>7. Counted(s, n, V)
  BY <1>4 DEF Sound, SameVotes, Counted
<1>8. Sound(s, n, V, E)
  BY <1>3, <1>4, <1>5, <1>6, <1>7 DEF Sound
<1>9. n = [m EXCEPT !.flag[i] = f]
  BY DEF n, g
<1> QED BY <1>4, <1>8, <1>9

\* The promoted replica has become a master: the failover epoch becomes the
\* configuration epoch.
LEMMA PromotedOK ==
  ASSUME NEW s \in Sentinels, NEW m, NEW V, NEW E, Sound(s, m, V, E), m.state = 4
  PROVE  LET n == [m EXCEPT !.config = m.fepoch, !.state = 5]
         IN  /\ Sound(s, n, V, E) /\ SameVotes(m, n) /\ n.config = m.fepoch
             /\ n.state = 5 /\ n.flag = m.flag
<1> DEFINE n == [m EXCEPT !.config = m.fepoch, !.state = 5]
<1>1. m \in Memory /\ 5 \in States
  BY DEF Sound, States
<1>2. n \in Memory
  BY <1>1, Zenon DEF Memory
<1>3. /\ SameVotes(m, n) /\ n.config = m.fepoch /\ n.epoch = m.epoch
      /\ n.fepoch = m.fepoch /\ n.force = m.force /\ n.promoted = m.promoted
      /\ n.state = 5 /\ n.flag = m.flag
  BY <1>1 DEF Memory, SameVotes
<1> HIDE DEF n
<1>4. Known(n)
  BY <1>3 DEF Sound, Known
<1>5. Elected(s, n, E)
  BY <1>3 DEF Sound, Elected, FromElection
<1>6. Counted(s, n, V)
  BY <1>3 DEF Sound, SameVotes, Counted
<1>7. Sound(s, n, V, E)
  BY <1>2, <1>3, <1>4, <1>5, <1>6 DEF Sound
<1> QED BY <1>3, <1>7 DEF n

\* The state of a Sentinel that has just started
LEMMA FreshFields ==
  ASSUME Deployable
  PROVE  /\ Fresh \in Memory /\ Fresh.state = 0 /\ Fresh.promoted = None
         /\ ~Fresh.force /\ Fresh.leader = None /\ Fresh.fepoch = 0
         /\ Fresh.epoch = 0 /\ Fresh.config = 0 /\ Fresh.lepoch = 0
         /\ \A i \in Instances : Fresh.flag[i] = {}
         /\ \A t \in Sentinels : Fresh.peer[t].leader = None
<1> DEFINE f == [i \in Instances |-> {}]
           p == [t \in Sentinels |-> Unasked]
           no == FALSE
<1>1. /\ f \in [Instances -> Flags] /\ p \in [Sentinels -> Peers] /\ no \in BOOLEAN
      /\ None \in Addresses /\ None \in RunIds /\ FirstMaster \in Instances
      /\ 0 \in States
      /\ \A i \in Instances : f[i] = {}
      /\ \A t \in Sentinels : p[t].leader = None
  BY DEF Flags, Peers, Addresses, RunIds, States, Unasked, Deployable
<1>2. ~Fresh.force
  BY DEF Fresh
<1>3. Fresh = [epoch |-> 0, addr |-> FirstMaster, config |-> 0, sdown |-> no,
               leader |-> None, lepoch |-> 0, state |-> 0,
               fepoch |-> 0, force |-> no, promoted |-> None,
               flag |-> f, peer |-> p]
  BY DEF Fresh, NoFailover
<1> HIDE DEF f, p, no
<1>4. Fresh \in Memory
  BY <1>1, <1>3 DEF Memory
<1> QED BY <1>1, <1>2, <1>3, <1>4
=============================================================================
