--------------------------- MODULE Cluster_proofs ---------------------------
(***************************************************************************)
(* Proofs about cluster.c: the votes of replica elections.  A node's       *)
(* lastVoteEpoch never exceeds the currentEpoch it has in nodes.conf, and  *)
(* that never exceeds the one in memory.  So a vote is always in an epoch  *)
(* later than every earlier vote of the node, a crash in between included. *)
(***************************************************************************)
EXTENDS Cluster, TLAPS, FiniteSetTheorems, WellFoundedInduction, NaturalsInduction

NodeOrNone == Nodes \cup {None}
Health == {"ok", "pfail", "fail"}
Phases == {"idle", "scheduled", "sent"}
Steps == {"idle", "importing", "migrating", "keys", "node", "failed"}

View == [cur : Nat, vote : Nat, cfg : [Nodes -> Nat],
         slot : [Slots -> NodeOrNone], slaveof : [Nodes -> NodeOrNone],
         fail : [Nodes -> Health], reports : [Nodes -> SUBSET Nodes],
         mig : [Slots -> NodeOrNone], imp : [Slots -> NodeOrNone],
         auth : [phase : Phases, epoch : Nat, count : Nat],
         manual : BOOLEAN]

Headers == [cur : Nat, config : Nat, slots : SUBSET Slots,
            slaveof : NodeOrNone, fail : [Nodes -> Health]]

TypeInv ==
  /\ conf \in Configs
  /\ view \in [Nodes -> View]
  /\ saved \in [Nodes -> Nat]
  /\ requests \in [Nodes -> SUBSET [header : Headers, force : BOOLEAN]]
  /\ acks \in SUBSET [from : Nodes, to : Nodes, header : Headers]
  /\ votes \in SUBSET (Nodes \X Nat \X Nodes)
  /\ manager \in [step : Steps, masters : SUBSET Nodes]
  /\ manager.step # "idle" => conf.move # None

\* A vote is saved, and the epoch saved was current.
EpochInv ==
  \A i \in Nodes : view[i].vote <= saved[i] /\ saved[i] <= view[i].cur

\* lastVoteEpoch is the latest epoch a node has voted in.
VoteInv == \A b \in votes : b[2] <= view[b[1]].vote

Inv == TypeInv /\ EpochInv /\ VoteInv /\ OneVotePerEpoch

\* What a node may do to its view without voting
Advances(v, w) == w \in View /\ w.vote = v.vote /\ w.cur >= v.cur

-----------------------------------------------------------------------------
(* Greatest and least elements. *)

\* A non-empty set of numbers has a least element, and Min returns it.
LEMMA MinOK ==
  ASSUME NEW S, S \subseteq Nat, S # {}
  PROVE  Min(S) \in S /\ \A j \in S : Min(S) <= j
<1>1. IsWellFoundedOn(OpToRel(<, Nat), Nat)
  BY NatLessThanWellFounded, Zenon
<1>2. PICK m \in S : \A y \in S : ~(<<y, m>> \in OpToRel(<, Nat))
  BY <1>1, WFMin, Zenon
<1>3. \A y \in S : ~(y < m)
  BY <1>2, Zenon DEF OpToRel
<1>4. \E x \in S : \A y \in S : x =< y
  BY <1>3
<1> QED BY <1>4, Zenon DEF Min

Greatest(S) == \E x \in S : \A y \in S : x >= y

\* A finite, non-empty set of numbers has a greatest element: otherwise a
\* smallest set without one would exist, and removing an element leaves one.
LEMMA MaxExists ==
  ASSUME NEW S, S \in SUBSET Nat, IsFiniteSet(S), S # {}
  PROVE  Greatest(S)
<1> DEFINE Bad == {n \in Nat : \E T \in SUBSET Nat :
                     /\ IsFiniteSet(T) /\ T # {} /\ Cardinality(T) = n
                     /\ ~Greatest(T)}
<1>1. SUFFICES ASSUME ~Greatest(S) PROVE FALSE
  OBVIOUS
<1>2. Cardinality(S) \in Bad
  BY <1>1, FS_CardinalityType
<1>3. PICK m \in Bad : \A j \in Bad : m <= j
  <2> HIDE DEF Bad
  <2>1. Bad \subseteq Nat
    BY DEF Bad
  <2> QED BY <2>1, <1>2, MinOK, Zenon
<1>4. PICK T \in SUBSET Nat : /\ IsFiniteSet(T) /\ T # {} /\ Cardinality(T) = m
                              /\ ~Greatest(T)
  OBVIOUS
<1>5. PICK x \in T : TRUE
  BY <1>4, Zenon
<1> DEFINE R == T \ {x}
<1>6. IsFiniteSet(R) /\ Cardinality(R) = m - 1 /\ R \in SUBSET Nat
  BY <1>4, <1>5, FS_RemoveElement
<1>7. R # {}
  <2>1. R = {} => T = {x}
    BY <1>5, Zenon
  <2>2. T = {x} => Greatest(T)
    BY <1>4 DEF Greatest
  <2> QED BY <2>1, <2>2, <1>4
<1>8. Cardinality(R) \in Nat
  BY <1>6, FS_CardinalityType
<1>9. Greatest(R)
  <2>1. m \in Nat /\ Cardinality(R) < m
    BY <1>6, <1>8
  <2>2. Cardinality(R) \notin Bad
    BY <2>1, <1>3, <1>8
  <2> QED BY <2>2, <1>6, <1>7, <1>8
<1>10. PICK z \in R : \A y \in R : z >= y
  BY <1>9 DEF Greatest
<1>11. Greatest(T)
  <2>1. CASE x >= z
    <3>1. \A y \in T : x >= y
      BY <2>1, <1>10, <1>5, <1>4
    <3> QED BY <3>1, <1>5 DEF Greatest
  <2>2. CASE ~(x >= z)
    <3>1. \A y \in T : z >= y
      BY <2>2, <1>10, <1>5, <1>4
    <3> QED BY <3>1 DEF Greatest
  <2> QED BY <2>1, <2>2
<1> QED BY <1>11, <1>4

LEMMA MaxOK ==
  ASSUME NEW S, S \in SUBSET Nat, IsFiniteSet(S), S # {}
  PROVE  Max(S) \in S /\ \A y \in S : Max(S) >= y
BY MaxExists, Zenon DEF Greatest, Max

LEMMA MaxOfTwo ==
  ASSUME NEW a \in Nat, NEW b \in Nat
  PROVE  Max({a, b}) \in Nat /\ Max({a, b}) >= a /\ Max({a, b}) >= b
<1>1. \E x \in {a, b} : \A y \in {a, b} : x >= y
  <2>1. CASE a >= b
    BY <2>1
  <2>2. CASE ~(a >= b)
    BY <2>2
  <2> QED BY <2>1, <2>2
<1>2. Max({a, b}) \in {a, b} /\ \A y \in {a, b} : Max({a, b}) >= y
  BY <1>1 DEF Max
<1> QED BY <1>2

\* clusterGetMaxEpoch is at least currentEpoch.
LEMMA MaxEpoch ==
  ASSUME NEW v \in View, IsFiniteSet(Nodes)
  PROVE  ClusterGetMaxEpoch(v) \in Nat /\ ClusterGetMaxEpoch(v) >= v.cur
<1> DEFINE T == {v.cfg[n] : n \in Nodes}
<1>1. v.cfg \in [Nodes -> Nat] /\ v.cur \in Nat
  BY DEF View
<1>2. v.cfg \in Surjection(Nodes, T)
  BY <1>1 DEF Surjection
<1>3. IsFiniteSet(T)
  BY <1>2, FS_Surjection
<1>4. IsFiniteSet(T \cup {v.cur}) /\ T \cup {v.cur} \in SUBSET Nat
  BY <1>1, <1>3, FS_AddElement, Zenon
<1>5. {v.cur} \cup T = T \cup {v.cur}
  OBVIOUS
<1> DEFINE U == {v.cur} \cup T
<1>6. U \in SUBSET Nat /\ IsFiniteSet(U) /\ v.cur \in U
  BY <1>4, <1>5
<1>7. ClusterGetMaxEpoch(v) = Max(U)
  BY DEF ClusterGetMaxEpoch
<1> HIDE DEF U
<1> QED BY <1>6, <1>7, MaxOK, Zenon

-----------------------------------------------------------------------------
(* The operations on a view: none votes, none takes currentEpoch back. *)

LEMMA AdvancesTrans ==
  ASSUME NEW u \in View, NEW v, NEW w, Advances(u, v), Advances(v, w)
  PROVE  Advances(u, w)
BY DEF Advances, View

LEMMA MasterType ==
  ASSUME NEW v \in View, NEW n \in Nodes
  PROVE  MasterOf(v, n) \in Nodes
BY DEF MasterOf, IsMaster, View, NodeOrNone

LEMMA HeaderOK ==
  ASSUME NEW v \in View, NEW i \in Nodes
  PROVE  Header(i, v) \in Headers /\ Header(i, v).cur = v.cur
BY MasterType DEF Header, Headers, View, SlotsOf

\* Updates of single fields
LEMMA Same ==
  ASSUME NEW v \in View, NEW w \in View, w.cur = v.cur, w.vote = v.vote
  PROVE  Advances(v, w)
BY DEF Advances, View

LEMMA PutEpochs ==
  ASSUME NEW v \in View, NEW c \in Nat, c >= v.cur, NEW i \in Nodes, NEW e \in Nat
  PROVE  Advances(v, [v EXCEPT !.cur = c, !.cfg[i] = e])
<1>1. [v EXCEPT !.cur = c, !.cfg[i] = e] \in View
  BY Zenon DEF View
<1>2. [v EXCEPT !.cur = c, !.cfg[i] = e].cur = c
  BY DEF View
<1>3. [v EXCEPT !.cur = c, !.cfg[i] = e].vote = v.vote
  BY DEF View
<1> QED BY <1>1, <1>2, <1>3 DEF Advances

LEMMA PutMaster ==
  ASSUME NEW v \in View, NEW i \in Nodes, NEW n \in NodeOrNone
  PROVE  Advances(v, [v EXCEPT !.slaveof[i] = n])
<1>1. [v EXCEPT !.slaveof[i] = n] \in View
  BY Zenon DEF View
<1>2. [v EXCEPT !.slaveof[i] = n].cur = v.cur
  BY DEF View
<1>3. [v EXCEPT !.slaveof[i] = n].vote = v.vote
  BY DEF View
<1> QED BY <1>1, <1>2, <1>3, Same, Zenon

LEMMA PutManual ==
  ASSUME NEW v \in View, NEW b \in BOOLEAN
  PROVE  Advances(v, [v EXCEPT !.manual = b])
<1>1. [v EXCEPT !.manual = b] \in View
  BY DEF View
<1>2. [v EXCEPT !.manual = b].cur = v.cur
  BY DEF View
<1>3. [v EXCEPT !.manual = b].vote = v.vote
  BY DEF View
<1> QED BY <1>1, <1>2, <1>3, Same, Zenon

LEMMA PutSlots ==
  ASSUME NEW v \in View, NEW f \in [Slots -> NodeOrNone]
  PROVE  Advances(v, [v EXCEPT !.slot = f])
<1>1. [v EXCEPT !.slot = f] \in View
  BY DEF View
<1>2. [v EXCEPT !.slot = f].cur = v.cur
  BY DEF View
<1>3. [v EXCEPT !.slot = f].vote = v.vote
  BY DEF View
<1> QED BY <1>1, <1>2, <1>3, Same, Zenon

LEMMA PutSlot ==
  ASSUME NEW v \in View, NEW s \in Slots, NEW n \in NodeOrNone
  PROVE  Advances(v, [v EXCEPT !.slot[s] = n])
<1>1. [v EXCEPT !.slot[s] = n] \in View
  BY Zenon DEF View
<1>2. [v EXCEPT !.slot[s] = n].cur = v.cur
  BY DEF View
<1>3. [v EXCEPT !.slot[s] = n].vote = v.vote
  BY DEF View
<1> QED BY <1>1, <1>2, <1>3, Same, Zenon

LEMMA PutMigrating ==
  ASSUME NEW v \in View, NEW s \in Slots, NEW n \in NodeOrNone
  PROVE  Advances(v, [v EXCEPT !.mig[s] = n])
<1>1. [v EXCEPT !.mig[s] = n] \in View
  BY DEF View
<1>2. [v EXCEPT !.mig[s] = n].cur = v.cur
  BY DEF View
<1>3. [v EXCEPT !.mig[s] = n].vote = v.vote
  BY DEF View
<1> QED BY <1>1, <1>2, <1>3, Same, Zenon

LEMMA PutImporting ==
  ASSUME NEW v \in View, NEW s \in Slots, NEW n \in NodeOrNone
  PROVE  Advances(v, [v EXCEPT !.imp[s] = n])
<1>1. [v EXCEPT !.imp[s] = n] \in View
  BY DEF View
<1>2. [v EXCEPT !.imp[s] = n].cur = v.cur
  BY DEF View
<1>3. [v EXCEPT !.imp[s] = n].vote = v.vote
  BY DEF View
<1> QED BY <1>1, <1>2, <1>3, Same, Zenon

LEMMA PutOpen ==
  ASSUME NEW v \in View, NEW f \in [Slots -> NodeOrNone]
  PROVE  Advances(v, [v EXCEPT !.mig = f, !.imp = f])
<1>1. [v EXCEPT !.mig = f, !.imp = f] \in View
  BY Zenon DEF View
<1>2. [v EXCEPT !.mig = f, !.imp = f].cur = v.cur
  BY DEF View
<1>3. [v EXCEPT !.mig = f, !.imp = f].vote = v.vote
  BY DEF View
<1> QED BY <1>1, <1>2, <1>3, Same, Zenon

LEMMA PutFail ==
  ASSUME NEW v \in View, NEW n \in Nodes, NEW h \in Health
  PROVE  Advances(v, [v EXCEPT !.fail[n] = h])
<1>1. [v EXCEPT !.fail[n] = h] \in View
  BY Zenon DEF View
<1>2. [v EXCEPT !.fail[n] = h].cur = v.cur
  BY DEF View
<1>3. [v EXCEPT !.fail[n] = h].vote = v.vote
  BY DEF View
<1> QED BY <1>1, <1>2, <1>3, Same, Zenon

LEMMA PutDetection ==
  ASSUME NEW v \in View, NEW r \in [Nodes -> SUBSET Nodes], NEW f \in [Nodes -> Health]
  PROVE  Advances(v, [v EXCEPT !.reports = r, !.fail = f])
<1>1. [v EXCEPT !.reports = r, !.fail = f] \in View
  BY Zenon DEF View
<1>2. [v EXCEPT !.reports = r, !.fail = f].cur = v.cur
  BY DEF View
<1>3. [v EXCEPT !.reports = r, !.fail = f].vote = v.vote
  BY DEF View
<1> QED BY <1>1, <1>2, <1>3, Same, Zenon

LEMMA PutConfig ==
  ASSUME NEW v \in View, NEW i \in Nodes, NEW e \in Nat
  PROVE  Advances(v, [v EXCEPT !.cfg[i] = e])
<1>1. [v EXCEPT !.cfg[i] = e] \in View
  BY Zenon DEF View
<1>2. [v EXCEPT !.cfg[i] = e].cur = v.cur
  BY DEF View
<1>3. [v EXCEPT !.cfg[i] = e].vote = v.vote
  BY DEF View
<1> QED BY <1>1, <1>2, <1>3, Same, Zenon

LEMMA PutPhase ==
  ASSUME NEW v \in View, NEW p \in Phases, NEW c \in Nat
  PROVE  Advances(v, [v EXCEPT !.auth.phase = p, !.auth.count = c])
<1>1. [v EXCEPT !.auth.phase = p, !.auth.count = c] \in View
  BY Zenon DEF View
<1>2. [v EXCEPT !.auth.phase = p, !.auth.count = c].cur = v.cur
  BY DEF View
<1>3. [v EXCEPT !.auth.phase = p, !.auth.count = c].vote = v.vote
  BY DEF View
<1> QED BY <1>1, <1>2, <1>3, Same, Zenon

LEMMA PutCount ==
  ASSUME NEW v \in View, NEW c \in Nat
  PROVE  Advances(v, [v EXCEPT !.auth.count = c])
<1>1. [v EXCEPT !.auth.count = c] \in View
  BY Zenon DEF View
<1>2. [v EXCEPT !.auth.count = c].cur = v.cur
  BY DEF View
<1>3. [v EXCEPT !.auth.count = c].vote = v.vote
  BY DEF View
<1> QED BY <1>1, <1>2, <1>3, Same, Zenon

-----------------------------------------------------------------------------
(* The operations on a view: none votes, none takes currentEpoch back. *)

LEMMA SeeEpochsOK ==
  ASSUME NEW v \in View, NEW sender \in Nodes, NEW h \in Headers
  PROVE  Advances(v, SeeEpochs(v, sender, h))
<1> DEFINE c == Max({v.cur, h.cur})
           g == Max({v.cfg[sender], h.config})
<1>1. v.cur \in Nat /\ h.cur \in Nat /\ v.cfg[sender] \in Nat /\ h.config \in Nat
  BY DEF View, Headers
<1>2. c \in Nat /\ c >= v.cur
  BY <1>1, MaxOfTwo
<1>3. g \in Nat
  BY <1>1, MaxOfTwo
<1>4. SeeEpochs(v, sender, h) = [v EXCEPT !.cur = c, !.cfg[sender] = g]
  BY DEF SeeEpochs
<1> HIDE DEF c, g
<1>5. Advances(v, [v EXCEPT !.cur = c, !.cfg[sender] = g])
  BY <1>2, <1>3, PutEpochs, Zenon
<1> QED BY <1>4, <1>5, Zenon

LEMMA CollisionOK ==
  ASSUME NEW v \in View, NEW i \in Nodes, NEW sender
  PROVE  Advances(v, EpochCollision(i, v, sender))
<1> DEFINE e == v.cur + 1
<1>1. e \in Nat /\ e >= v.cur
  BY DEF View
<1>2. EpochCollision(i, v, sender) \in {v, [v EXCEPT !.cur = e, !.cfg[i] = e]}
  BY DEF EpochCollision
<1> HIDE DEF e
<1>3. Advances(v, [v EXCEPT !.cur = e, !.cfg[i] = e])
  BY <1>1, PutEpochs, Zenon
<1>4. Advances(v, v)
  BY Same
<1> QED BY <1>2, <1>3, <1>4, Zenon

LEMMA BumpOK ==
  ASSUME NEW v \in View, NEW i \in Nodes
  PROVE  Advances(v, BumpConfigEpoch(i, v))
<1> DEFINE e == v.cur + 1
<1>1. e \in Nat /\ e >= v.cur
  BY DEF View
<1>2. BumpConfigEpoch(i, v) \in {v, [v EXCEPT !.cur = e, !.cfg[i] = e]}
  BY DEF BumpConfigEpoch
<1> HIDE DEF e
<1>3. Advances(v, [v EXCEPT !.cur = e, !.cfg[i] = e])
  BY <1>1, PutEpochs, Zenon
<1>4. Advances(v, v)
  BY Same
<1> QED BY <1>2, <1>3, <1>4, Zenon

LEMMA SetMasterOK ==
  ASSUME NEW v \in View, NEW i \in Nodes, NEW n \in Nodes
  PROVE  Advances(v, SetMaster(i, v, n))
<1> DEFINE none == [s \in Slots |-> None]
           closed == IF IsMaster(v, i)
                       THEN [v EXCEPT !.mig = none, !.imp = none] ELSE v
           w == [closed EXCEPT !.slaveof[i] = n]
           no == FALSE
<1>1. none \in [Slots -> NodeOrNone] /\ n \in NodeOrNone /\ no \in BOOLEAN
  BY DEF NodeOrNone
<1>2. SetMaster(i, v, n) = [w EXCEPT !.manual = no]
  BY DEF SetMaster
<1> HIDE DEF none, no
<1>3. Advances(v, closed)
  BY <1>1, PutOpen, Same, Zenon
<1> HIDE DEF closed
<1>4. Advances(v, w)
  BY <1>1, <1>3, PutMaster, AdvancesTrans DEF Advances
<1> HIDE DEF w
<1> QED BY <1>1, <1>2, <1>4, PutManual, AdvancesTrans DEF Advances

LEMMA AsMasterOK ==
  ASSUME NEW v \in View, NEW n \in Nodes
  PROVE  Advances(v, SetNodeAsMaster(v, n))
<1>1. None \in NodeOrNone
  BY DEF NodeOrNone
<1> QED BY <1>1, PutMaster DEF SetNodeAsMaster

LEMMA UpdateSlotsOK ==
  ASSUME NEW v \in View, NEW i \in Nodes, NEW held, NEW sender \in Nodes,
         NEW epoch, NEW claimed
  PROVE  Advances(v, UpdateSlots(i, v, held, sender, epoch, claimed).view)
<1> DEFINE taken == {s \in claimed :
                       /\ v.slot[s] # sender
                       /\ v.imp[s] = None
                       /\ v.slot[s] = None \/ v.cfg[v.slot[s]] < epoch}
           slot == [s \in Slots |-> IF s \in taken THEN sender ELSE v.slot[s]]
           rebound == [v EXCEPT !.slot = slot]
           r == UpdateSlots(i, v, held, sender, epoch, claimed)
<1>1. r.view \in {v, SetMaster(i, rebound, sender), rebound}
  BY DEF UpdateSlots
<1>2. slot \in [Slots -> NodeOrNone]
  <2> HIDE DEF taken
  <2> QED BY DEF View, NodeOrNone
<1> HIDE DEF slot
<1>3. Advances(v, rebound)
  BY <1>2, PutSlots
<1>4. Advances(v, v)
  BY Same
<1> HIDE DEF rebound, r
<1>5. Advances(v, SetMaster(i, rebound, sender))
  BY <1>3, SetMasterOK, AdvancesTrans DEF Advances
<1>6. Advances(v, r.view)
  BY <1>1, <1>3, <1>4, <1>5, Zenon
<1> QED BY <1>6 DEF r

LEMMA RoleSwitchOK ==
  ASSUME NEW v \in View, NEW sender \in Nodes, NEW slaveof \in NodeOrNone
  PROVE  Advances(v, RoleSwitch(v, sender, slaveof))
<1> DEFINE slot == IF IsMaster(v, sender)
                     THEN [s \in Slots |->
                             IF v.slot[s] = sender THEN None ELSE v.slot[s]]
                     ELSE v.slot
           w == [v EXCEPT !.slaveof[sender] = slaveof]
<1>1. slot \in [Slots -> NodeOrNone]
  BY DEF View, NodeOrNone
<1>2. RoleSwitch(v, sender, slaveof) \in
        {SetNodeAsMaster(v, sender), [w EXCEPT !.slot = slot]}
  BY DEF RoleSwitch, View
<1> HIDE DEF slot
<1>3. Advances(v, w)
  BY PutMaster
<1> HIDE DEF w
<1>4. Advances(v, [w EXCEPT !.slot = slot])
  BY <1>1, <1>3, PutSlots, AdvancesTrans DEF Advances
<1> QED BY <1>2, <1>4, AsMasterOK

LEMMA GossipOK ==
  ASSUME NEW v \in View, NEW i \in Nodes, NEW sender \in Nodes, NEW said
  PROVE  Advances(v, Gossip(i, v, sender, said))
<1> DEFINE heard == IF IsMaster(v, sender) THEN conf.suspects \ {sender, i} ELSE {}
           reports == [n \in Nodes |->
                         IF n \in heard THEN Report(v, sender, n, said[n] # "ok")
                                        ELSE v.reports[n]]
           fail == [n \in Nodes |->
                      IF /\ n \in heard /\ said[n] # "ok"
                         /\ MarkFailing(i, v, n, reports[n])
                        THEN "fail" ELSE v.fail[n]]
<1>1. Gossip(i, v, sender, said) = [v EXCEPT !.reports = reports, !.fail = fail]
  BY DEF Gossip
<1> HIDE DEF heard
<1>2. reports \in [Nodes -> SUBSET Nodes]
  BY DEF Report, View
<1> HIDE DEF reports
<1>3. fail \in [Nodes -> Health]
  BY DEF View, Health
<1> HIDE DEF fail
<1>4. Advances(v, [v EXCEPT !.reports = reports, !.fail = fail])
  BY <1>2, <1>3, PutDetection, Zenon
<1> QED BY <1>1, <1>4, Zenon

LEMMA ReachableOK ==
  ASSUME NEW v \in View, NEW n \in Nodes, NEW w \in Reachable(v, n)
  PROVE  Advances(v, w)
<1>1. w \in {v, [v EXCEPT !.fail[n] = "ok"]}
  BY DEF Reachable, View, Health
<1>2. "ok" \in Health
  BY DEF Health
<1> QED BY <1>1, <1>2, PutFail, Same

LEMMA ReplaceOK ==
  ASSUME NEW v \in View, NEW i \in Nodes
  PROVE  Advances(v, ReplaceYourMaster(i, v))
<1> DEFINE u == SetNodeAsMaster(v, i)
           slot == [s \in Slots |-> IF u.slot[s] = v.slaveof[i] THEN i ELSE u.slot[s]]
           w == [u EXCEPT !.slot = slot]
           no == FALSE
<1>1. Advances(v, u)
  BY AsMasterOK
<1>2. ReplaceYourMaster(i, v) = [w EXCEPT !.manual = no]
  BY DEF ReplaceYourMaster
<1>3. no \in BOOLEAN
  OBVIOUS
<1> HIDE DEF u, no
<1>4. slot \in [Slots -> NodeOrNone]
  BY <1>1 DEF Advances, View, NodeOrNone
<1> HIDE DEF slot
<1>5. Advances(v, w)
  BY <1>1, <1>4, PutSlots, AdvancesTrans DEF Advances
<1> HIDE DEF w
<1> QED BY <1>2, <1>3, <1>5, PutManual, AdvancesTrans DEF Advances

LEMMA SetSlotNodeOK ==
  ASSUME NEW v \in View, NEW i \in Nodes, NEW held, NEW s \in Slots, NEW n \in Nodes
  PROVE  Advances(v, SetSlotNode(i, v, held, s, n))
<1> DEFINE closed == IF ~\E k \in held : k[1] = s THEN [v EXCEPT !.mig[s] = None] ELSE v
           b == BumpConfigEpoch(i, closed)
           bumped == IF n = i /\ v.imp[s] # None
                       THEN [b EXCEPT !.imp[s] = None] ELSE closed
<1>1. SetSlotNode(i, v, held, s, n) = [bumped EXCEPT !.slot[s] = n]
  BY DEF SetSlotNode
<1>2. None \in NodeOrNone /\ n \in NodeOrNone
  BY DEF NodeOrNone
<1>3. Advances(v, closed)
  BY <1>2, PutMigrating, Same
<1> HIDE DEF closed
<1>4. Advances(v, b)
  BY <1>3, BumpOK, AdvancesTrans DEF Advances
<1> HIDE DEF b
<1>5. Advances(v, bumped)
  BY <1>2, <1>3, <1>4, PutImporting, AdvancesTrans DEF Advances
<1> HIDE DEF bumped
<1> QED BY <1>1, <1>2, <1>5, PutSlot, AdvancesTrans DEF Advances

LEMMA PacketOK ==
  ASSUME NEW v \in View, NEW i \in Nodes, NEW sender \in Nodes, NEW held,
         NEW h \in Headers, Slots \subseteq Nat
  PROVE  /\ Advances(v, ProcessPacket(i, v, held, sender, h).view)
         /\ ProcessPacket(i, v, held, sender, h).update \in NodeOrNone
<1> DEFINE seen  == SeeEpochs(v, sender, h)
           role  == RoleSwitch(seen, sender, h.slaveof)
           dirty == SlotsOf(role, MasterOf(role, sender)) # h.slots
           upd   == IF IsMaster(role, sender) /\ dirty
                      THEN UpdateSlots(i, role, held, sender, h.config, h.slots)
                      ELSE [view |-> role, keys |-> held]
           uv    == upd.view
           stale == IF dirty THEN Outdated(uv, sender, h) ELSE {}
           coll  == IF h.config = uv.cfg[i] THEN EpochCollision(i, uv, sender) ELSE uv
           last  == Gossip(i, coll, sender, h.fail)
           r     == ProcessPacket(i, v, held, sender, h)
<1>1. /\ r.view = last
      /\ r.update = IF stale = {} THEN None ELSE uv.slot[Min(stale)]
  BY Zenon DEF ProcessPacket
<1>2. Advances(v, seen)
  BY SeeEpochsOK
<1>3. h.slaveof \in NodeOrNone /\ h.slots \subseteq Slots
  BY DEF Headers
<1> HIDE DEF seen
<1>4. Advances(v, role)
  BY <1>2, <1>3, RoleSwitchOK, AdvancesTrans DEF Advances
<1> HIDE DEF role
<1>5. Advances(v, uv)
  <2>1. CASE IsMaster(role, sender) /\ dirty
    <3>1. uv = UpdateSlots(i, role, held, sender, h.config, h.slots).view
      BY <2>1
    <3>2. Advances(role, uv)
      BY <3>1, <1>4, UpdateSlotsOK DEF Advances
    <3> HIDE DEF uv
    <3> QED BY <3>2, <1>4, AdvancesTrans
  <2>2. CASE ~(IsMaster(role, sender) /\ dirty)
    <3>1. uv = role
      BY <2>2
    <3> QED BY <3>1, <1>4
  <2> QED BY <2>1, <2>2
<1>6. stale \subseteq Slots
  BY <1>3 DEF Outdated
<1> HIDE DEF upd, uv, stale
<1>7. Advances(v, coll)
  BY <1>5, CollisionOK, AdvancesTrans DEF Advances
<1> HIDE DEF coll
<1>8. Advances(v, last)
  BY <1>7, GossipOK, AdvancesTrans DEF Advances
<1>9. stale # {} => uv.slot[Min(stale)] \in NodeOrNone
  <2>1. stale # {} => Min(stale) \in Slots
    BY <1>6, MinOK, Zenon
  <2> QED BY <2>1, <1>5, Zenon DEF Advances, View
<1>10. r.update \in NodeOrNone
  <2>1. None \in NodeOrNone
    BY DEF NodeOrNone
  <2> QED BY <2>1, <1>1, <1>9
<1>11. Advances(v, r.view)
  BY <1>1, <1>8
<1> QED BY <1>10, <1>11

LEMMA UpdateOK ==
  ASSUME NEW v \in View, NEW w \in View, NEW i \in Nodes, NEW sender \in Nodes,
         NEW held, NEW n \in Nodes
  PROVE  Advances(v, ProcessUpdate(i, v, held, sender, w, n).view)
<1> DEFINE seen == SeeEpochs(v, sender, Header(sender, w))
           as   == SetNodeAsMaster(seen, n)
           e    == w.cfg[n]
           told == [as EXCEPT !.cfg[n] = e]
           upd  == UpdateSlots(i, told, held, n, e, SlotsOf(w, n)).view
           r    == ProcessUpdate(i, v, held, sender, w, n)
<1>1. r.view \in {seen, upd}
  BY DEF ProcessUpdate
<1>2. Advances(v, seen)
  BY HeaderOK, SeeEpochsOK
<1>3. e \in Nat
  BY DEF View
<1> HIDE DEF seen, e
<1>4. Advances(v, as)
  BY <1>2, AsMasterOK, AdvancesTrans DEF Advances
<1> HIDE DEF as
<1>5. Advances(v, told)
  <2>1. as \in View
    BY <1>4, Zenon DEF Advances
  <2>2. Advances(as, told)
    BY <1>3, <2>1, PutConfig, Zenon
  <2> QED BY <2>2, <1>4, AdvancesTrans, Zenon
<1> HIDE DEF told
<1>6. Advances(v, upd)
  BY <1>5, UpdateSlotsOK, AdvancesTrans DEF Advances
<1> HIDE DEF upd, r
<1>7. Advances(v, r.view)
  BY <1>1, <1>2, <1>6, Zenon
<1> QED BY <1>7 DEF r

-----------------------------------------------------------------------------
(* The steps. *)

\* What a step that casts no vote leaves
Unvoted ==
  /\ view' \in [Nodes -> View] /\ saved' \in [Nodes -> Nat]
  /\ \A i \in Nodes : /\ view'[i].vote = view[i].vote
                       /\ view'[i].vote <= saved'[i] /\ saved'[i] <= view'[i].cur

\* The types of what is under way
WireOK(req, ack, man) ==
  /\ req \in [Nodes -> SUBSET [header : Headers, force : BOOLEAN]]
  /\ ack \in SUBSET [from : Nodes, to : Nodes, header : Headers]
  /\ man \in [step : Steps, masters : SUBSET Nodes]
  /\ man.step # "idle" => conf.move # None

LEMMA UnvotedKeeps ==
  ASSUME Inv, Unvoted, WireOK(requests', acks', manager'),
         UNCHANGED <<conf, votes>>
  PROVE  Inv'
<1>1. Nodes' = Nodes /\ Slots' = Slots
  BY DEF Nodes, Slots
<1>2. NodeOrNone' = NodeOrNone
  BY <1>1 DEF NodeOrNone
<1>3. View' = View /\ Headers' = Headers
  BY <1>1, <1>2 DEF View, Headers
<1>4. TypeInv'
  BY <1>1, <1>3 DEF Inv, TypeInv, Unvoted, WireOK
<1>5. EpochInv'
  BY <1>1 DEF EpochInv, Unvoted
<1>6. VoteInv'
  BY <1>1 DEF Inv, TypeInv, VoteInv, Unvoted
<1>7. OneVotePerEpoch'
  BY DEF Inv, OneVotePerEpoch
<1> QED BY <1>4, <1>5, <1>6, <1>7 DEF Inv

LEMMA ViewsUnvoted ==
  ASSUME Inv, NEW new \in [Nodes -> View], Views(new),
         \A i \in Nodes : Advances(view[i], new[i])
  PROVE  Unvoted
<1>1. view' = new /\ view \in [Nodes -> View] /\ saved \in [Nodes -> Nat]
  BY DEF Views, Inv, TypeInv
<1>2. \A i \in Nodes : saved'[i] \in {new[i].cur, saved[i]}
  BY DEF Views
<1>3. saved' = [i \in Nodes |-> saved'[i]]
  BY DEF Views
<1>4. \A i \in Nodes : /\ new[i].cur \in Nat /\ view[i].cur \in Nat /\ view[i].vote \in Nat
                       /\ new[i].cur >= view[i].cur /\ new[i].vote = view[i].vote
                       /\ view[i].vote <= saved[i] /\ saved[i] <= view[i].cur
  BY <1>1 DEF Advances, Inv, EpochInv, View
<1>5. saved' \in [Nodes -> Nat]
  BY <1>1, <1>2, <1>3, <1>4
<1> QED BY <1>1, <1>2, <1>4, <1>5 DEF Unvoted

LEMMA NewViewUnvoted ==
  ASSUME Inv, NEW i \in Nodes, NEW v, Advances(view[i], v), NewView(i, v)
  PROVE  Unvoted
<1> DEFINE new == [view EXCEPT ![i] = v]
<1>1. view \in [Nodes -> View] /\ v \in View
  BY DEF Inv, TypeInv, Advances
<1>2. new \in [Nodes -> View]
  BY <1>1
<1>3. \A j \in Nodes : Advances(view[j], new[j])
  <2> TAKE j \in Nodes
  <2>1. CASE j = i
    BY <2>1, <1>1
  <2>2. CASE j # i
    <3>1. new[j] = view[j] /\ view[j] \in View
      BY <2>2, <1>1
    <3> QED BY <3>1, Same
  <2> QED BY <2>1, <2>2
<1>4. Views(new)
  BY DEF NewView
<1> HIDE DEF new
<1> QED BY <1>2, <1>3, <1>4, ViewsUnvoted

LEMMA Here ==
  ASSUME Inv
  PROVE  /\ \A i \in Nodes : view[i] \in View
         /\ WireOK(requests, acks, manager)
BY DEF Inv, TypeInv, WireOK

LEMMA PacketKeeps ==
  ASSUME Inv, Slots \subseteq Nat, NEW sender \in Nodes, NEW i \in Nodes,
         Packet(sender, i)
  PROVE  Inv'
<1>1. view \in [Nodes -> View]
  BY DEF Inv, TypeInv
<1>2. PICK v \in {view[i]} \cup Reachable(view[i], sender) :
        LET r == ProcessPacket(i, v, keys[i], sender, Header(sender, view[sender]))
            u == ProcessUpdate(sender, view[sender], keys[sender], i, r.view, r.update)
        IN  \/ Views([view EXCEPT ![i] = r.view])
            \/ /\ r.update # None
               /\ Views([view EXCEPT ![i] = r.view, ![sender] = u.view])
  BY Zenon DEF Packet
<1>3. Advances(view[i], v)
  BY <1>1, <1>2, ReachableOK, Same
<1> DEFINE h == Header(sender, view[sender])
           r == ProcessPacket(i, v, keys[i], sender, h)
           x == r.view
           n == r.update
           y == ProcessUpdate(sender, view[sender], keys[sender], i, x, n).view
           one == [view EXCEPT ![i] = x]
           two == [view EXCEPT ![i] = x, ![sender] = y]
<1>4. \/ Views(one)
      \/ n # None /\ Views(two)
  BY <1>2
<1>5. h \in Headers
  BY <1>1, HeaderOK
<1> HIDE DEF h
<1>6. Advances(v, x) /\ n \in NodeOrNone
  BY <1>3, <1>5, PacketOK DEF Advances
<1> HIDE DEF r, x, n
<1>7. Advances(view[i], x) /\ x \in View
  BY <1>1, <1>3, <1>6, AdvancesTrans DEF Advances
<1>8. n # None => Advances(view[sender], y) /\ y \in View
  BY <1>1, <1>6, <1>7, UpdateOK DEF NodeOrNone, Advances
<1> HIDE DEF y
<1>9. \A j \in Nodes : Advances(view[j], view[j])
  BY <1>1, Same
<1>10. Views(one) => Unvoted
  <2>1. one \in [Nodes -> View]
    BY <1>1, <1>7
  <2>2. \A j \in Nodes : Advances(view[j], one[j])
    BY <1>1, <1>7, <1>9
  <2> HIDE DEF one
  <2> QED BY <2>1, <2>2, ViewsUnvoted
<1>11. n # None /\ Views(two) => Unvoted
  <2>1. n # None => two \in [Nodes -> View]
    BY <1>1, <1>7, <1>8
  <2>2. n # None => \A j \in Nodes : Advances(view[j], two[j])
    BY <1>1, <1>7, <1>8, <1>9
  <2> HIDE DEF two
  <2> QED BY <2>1, <2>2, ViewsUnvoted
<1>12. Unvoted
  BY <1>4, <1>10, <1>11
<1>13. /\ WireOK(requests', acks', manager')
       /\ UNCHANGED <<conf, votes>>
  BY Here DEF Packet, reshard, history
<1> QED BY <1>12, <1>13, UnvotedKeeps

LEMMA TimeoutKeeps ==
  ASSUME Inv, NEW i \in Nodes, NEW n \in Nodes, Timeout(i, n)
  PROVE  Inv'
<1>1. "pfail" \in Health
  BY DEF Health
<1>2. Advances(view[i], [view[i] EXCEPT !.fail[n] = "pfail"])
  BY <1>1, Here, PutFail
<1>3. Unvoted
  BY <1>2, NewViewUnvoted DEF Timeout
<1>4. WireOK(requests', acks', manager') /\ UNCHANGED <<conf, votes>>
  BY Here DEF Timeout, bus, reshard, history
<1> QED BY <1>3, <1>4, UnvotedKeeps

LEMMA ReceiveFailKeeps ==
  ASSUME Inv, NEW i \in Nodes, NEW n \in Nodes, ReceiveFail(i, n)
  PROVE  Inv'
<1>1. "fail" \in Health
  BY DEF Health
<1>2. Advances(view[i], [view[i] EXCEPT !.fail[n] = "fail"])
  BY <1>1, Here, PutFail
<1>3. Unvoted
  BY <1>2, NewViewUnvoted DEF ReceiveFail
<1>4. WireOK(requests', acks', manager') /\ UNCHANGED <<conf, votes>>
  BY Here DEF ReceiveFail, bus, reshard, history
<1> QED BY <1>3, <1>4, UnvotedKeeps

LEMMA ScheduleKeeps ==
  ASSUME Inv, NEW i \in Nodes, Schedule(i)
  PROVE  Inv'
<1>1. "scheduled" \in Phases
  BY DEF Phases
<1>2. Advances(view[i], [view[i] EXCEPT !.auth.phase = "scheduled", !.auth.count = 0])
  BY <1>1, Here, PutPhase, Zenon
<1>3. Unvoted
  BY <1>2, NewViewUnvoted DEF Schedule
<1>4. WireOK(requests', acks', manager')
  BY Here DEF Schedule, WireOK, reshard
<1>5. UNCHANGED <<conf, votes>>
  BY DEF Schedule, history
<1> QED BY <1>3, <1>4, <1>5, UnvotedKeeps

\* A replica that asks for votes has its new epoch in nodes.conf.
LEMMA AskVotesKeeps ==
  ASSUME Inv, NEW i \in Nodes, AskVotes(i)
  PROVE  Inv'
<1> DEFINE e == view[i].cur + 1
           sent == "sent"
           v == [view[i] EXCEPT !.cur = e, !.auth.epoch = e, !.auth.phase = sent]
<1>1. /\ view' = [view EXCEPT ![i] = v] /\ saved' = [saved EXCEPT ![i] = e]
      /\ requests' = [requests EXCEPT ![i] =
            {[header |-> Header(i, v), force |-> v.manual]}]
      /\ UNCHANGED <<conf, acks, votes, manager>>
  BY DEF AskVotes, reshard, history
<1>2. /\ e \in Nat /\ view[i].cur \in Nat /\ e >= view[i].cur /\ sent \in Phases
      /\ view[i] \in View
  BY Here DEF View, Phases
<1> HIDE DEF e, sent
<1>3. v \in View
  BY <1>2, Zenon DEF View
<1>4. v.vote = view[i].vote /\ v.cur = e
  BY <1>2 DEF View
<1> HIDE DEF v
<1>5. /\ view \in [Nodes -> View] /\ saved \in [Nodes -> Nat]
      /\ \A j \in Nodes : view[j].vote <= saved[j] /\ saved[j] <= view[j].cur
  BY DEF Inv, TypeInv, EpochInv
<1>6. view[i].vote \in Nat
  BY <1>2 DEF View
<1>7. Unvoted
  <2>1. view' \in [Nodes -> View] /\ saved' \in [Nodes -> Nat]
    BY <1>1, <1>2, <1>3, <1>5
  <2>2. \A j \in Nodes : /\ view'[j].vote = view[j].vote
                         /\ view'[j].vote <= saved'[j] /\ saved'[j] <= view'[j].cur
    <3> TAKE j \in Nodes
    <3>1. CASE j = i
      <4>1. view'[j] = v /\ saved'[j] = e
        BY <3>1, <1>1, <1>5
      <4>2. view[i].vote <= e
        BY <1>2, <1>5, <1>6
      <4> QED BY <4>1, <4>2, <1>2, <1>4, <3>1
    <3>2. CASE j # i
      <4>1. view'[j] = view[j] /\ saved'[j] = saved[j]
        BY <3>2, <1>1, <1>5
      <4> QED BY <4>1, <1>5
    <3> QED BY <3>1, <3>2
  <2> QED BY <2>1, <2>2 DEF Unvoted
<1>8. WireOK(requests', acks', manager')
  <2>1. [header |-> Header(i, v), force |-> v.manual] \in [header : Headers, force : BOOLEAN]
    BY <1>3, HeaderOK DEF View
  <2> QED BY <2>1, <1>1, Here DEF WireOK
<1> QED BY <1>1, <1>7, <1>8, UnvotedKeeps

\* The vote: its epoch is later than that of every vote of the node before,
\* and it is in nodes.conf with that epoch.
LEMMA VoteKeeps ==
  ASSUME Inv, NEW i \in Nodes, NEW node \in Nodes, Vote(i, node)
  PROVE  Inv'
<1>1. PICK r \in requests[node] :
        LET seen == SeeEpochs(view[i], node, r.header)
        IN  IF MayVote(i, seen, node, r)
              THEN /\ NewView(i, [seen EXCEPT !.vote = seen.cur])
                   /\ acks' = acks \cup {[from |-> i, to |-> node,
                                          header |-> Header(i, seen)]}
                   /\ votes' = votes \cup {<<i, seen.cur, node>>}
              ELSE /\ NewView(i, seen)
                   /\ UNCHANGED <<acks, votes>>
  BY Zenon DEF Vote
<1>2. UNCHANGED <<conf, requests, manager>>
  BY DEF Vote, reshard
<1> DEFINE seen == SeeEpochs(view[i], node, r.header)
<1>3. r.header \in Headers
  BY <1>1 DEF Inv, TypeInv
<1>4. view[i] \in View /\ Advances(view[i], seen)
  BY <1>3, Here, SeeEpochsOK
<1>5. CASE ~MayVote(i, seen, node, r)
  <2>1. NewView(i, seen) /\ UNCHANGED <<acks, votes>>
    BY <1>1, <1>5
  <2> HIDE DEF seen
  <2>2. Unvoted
    BY <2>1, <1>4, NewViewUnvoted
  <2>3. WireOK(requests', acks', manager')
    BY <2>1, <1>2, Here
  <2> QED BY <1>2, <2>1, <2>2, <2>3, UnvotedKeeps
<1>6. CASE MayVote(i, seen, node, r)
  <2> DEFINE e == seen.cur
             v == [seen EXCEPT !.vote = e]
             new == [view EXCEPT ![i] = v]
             b == <<i, e, node>>
  <2>1. /\ Views(new)
        /\ acks' = acks \cup {[from |-> i, to |-> node, header |-> Header(i, seen)]}
        /\ votes' = votes \cup {b}
    BY <1>1, <1>6 DEF NewView
  <2>2. seen.vote # e
    BY <1>6 DEF MayVote
  <2> HIDE DEF seen
  <2>3. /\ seen \in View /\ e \in Nat /\ seen.vote = view[i].vote /\ e >= view[i].cur
        /\ view[i].vote \in Nat /\ view[i].cur \in Nat
    BY <1>4 DEF Advances, View
  <2>4. /\ view \in [Nodes -> View] /\ saved \in [Nodes -> Nat]
        /\ \A j \in Nodes : view[j].vote <= saved[j] /\ saved[j] <= view[j].cur
        /\ votes \in SUBSET (Nodes \X Nat \X Nodes)
        /\ \A a \in votes : a[2] <= view[a[1]].vote
    BY DEF Inv, TypeInv, EpochInv, VoteInv
  <2>5. view[i].vote < e
    BY <2>2, <2>3, <2>4
  <2> HIDE DEF e
  <2>6. v \in View
    BY <2>3 DEF View
  <2>7. v.vote = e
    BY <2>3 DEF View
  <2>8. v.cur = e
    BY <2>3 DEF View, e
  <2> HIDE DEF v
  <2>9. view' = new /\ new \in [Nodes -> View]
    BY <2>1, <2>4, <2>6 DEF Views
  <2>10. saved'[i] = e
    <3>1. Persistent(v) # Persistent(view[i])
      BY <2>5, <2>7, <2>3 DEF Persistent
    <3>2. new[i] = v
      BY <2>4
    <3> HIDE DEF new
    <3> QED BY <2>1, <2>8, <3>1, <3>2 DEF Views
  <2>11. \A j \in Nodes : j # i => view'[j] = view[j] /\ saved'[j] = saved[j]
    BY <2>1, <2>4 DEF Views
  <2>12. view'[i] = v
    BY <2>9, <2>4
  <2>13. saved' \in [Nodes -> Nat]
    <3>1. saved' = [j \in Nodes |-> saved'[j]]
      BY <2>1 DEF Views
    <3>2. \A j \in Nodes : saved'[j] \in Nat
      BY <2>10, <2>11, <2>3, <2>4
    <3> QED BY <3>1, <3>2
  <2>14. Nodes' = Nodes /\ Slots' = Slots
    BY <1>2 DEF Nodes, Slots
  <2>15. NodeOrNone' = NodeOrNone
    BY <2>14 DEF NodeOrNone
  <2>16. View' = View /\ Headers' = Headers
    BY <2>14, <2>15 DEF View, Headers
  <2>17. [from |-> i, to |-> node, header |-> Header(i, seen)]
           \in [from : Nodes, to : Nodes, header : Headers]
    BY <2>3, HeaderOK
  <2>18. view' \in [Nodes -> View]
    BY <2>9
  <2> HIDE DEF new
  <2>19. TypeInv'
    <3>1. acks' \in SUBSET [from : Nodes, to : Nodes, header : Headers]
      BY <2>17, <2>1 DEF Inv, TypeInv
    <3>2. votes' \in SUBSET (Nodes \X Nat \X Nodes)
      BY <2>1, <2>3, <2>4
    <3> QED BY <3>1, <3>2, <1>2, <2>13, <2>14, <2>16, <2>18 DEF Inv, TypeInv
  <2>20. EpochInv'
    <3> SUFFICES ASSUME NEW j \in Nodes
                 PROVE  view'[j].vote <= saved'[j] /\ saved'[j] <= view'[j].cur
      BY <2>14 DEF EpochInv
    <3>1. CASE j = i
      BY <3>1, <2>3, <2>7, <2>8, <2>10, <2>12
    <3>2. CASE j # i
      BY <3>2, <2>4, <2>11
    <3> QED BY <3>1, <3>2
  <2>21. \A a \in votes : a[1] \in Nodes /\ a[2] \in Nat /\ (a[1] = i => a[2] < e)
    BY <2>3, <2>4, <2>5
  <2>22. VoteInv'
    <3> SUFFICES ASSUME NEW a \in votes'
                 PROVE  a[2] <= view'[a[1]].vote
      BY DEF VoteInv
    <3>1. CASE a = b
      BY <3>1, <2>3, <2>7, <2>12
    <3>2. CASE a \in votes
      <4>1. CASE a[1] = i
        BY <3>2, <4>1, <2>21, <2>12, <2>7, <2>3
      <4>2. CASE a[1] # i
        BY <3>2, <4>2, <2>21, <2>11, <2>4
      <4> QED BY <4>1, <4>2
    <3> QED BY <3>1, <3>2, <2>1
  <2>23. OneVotePerEpoch'
    <3>1. \A a \in votes : ~(a[1] = i /\ a[2] = e)
      BY <2>21, <2>3
    <3>2. b[1] = i /\ b[2] = e /\ b[3] = node
      OBVIOUS
    <3> HIDE DEF b
    <3>3. \A a, c \in votes : a[1] = c[1] /\ a[2] = c[2] => a[3] = c[3]
      BY DEF Inv, OneVotePerEpoch
    <3> QED BY <3>1, <3>2, <3>3, <2>1, Zenon DEF OneVotePerEpoch
  <2> QED BY <2>19, <2>20, <2>22, <2>23 DEF Inv
<1> QED BY <1>5, <1>6

LEMMA ReceiveAckKeeps ==
  ASSUME Inv, NEW a \in acks, ReceiveAck(a)
  PROVE  Inv'
<1> DEFINE i == a.to
           seen == SeeEpochs(view[i], a.from, a.header)
           c == seen.auth.count + 1
           counted == [seen EXCEPT !.auth.count = c]
<1>1. i \in Nodes /\ a.from \in Nodes /\ a.header \in Headers
  BY DEF Inv, TypeInv
<1>2. NewView(i, seen) \/ NewView(i, counted)
  BY DEF ReceiveAck
<1> HIDE DEF i
<1>3. view[i] \in View /\ Advances(view[i], seen)
  BY <1>1, Here, SeeEpochsOK
<1> HIDE DEF seen
<1>4. c \in Nat
  BY <1>3 DEF Advances, View
<1> HIDE DEF c
<1>5. Advances(view[i], counted)
  BY <1>3, <1>4, PutCount, AdvancesTrans DEF Advances
<1> HIDE DEF counted
<1>6. Unvoted
  BY <1>1, <1>2, <1>3, <1>5, NewViewUnvoted
<1>7. /\ acks' = acks \ {a}
      /\ UNCHANGED <<conf, requests, votes, manager>>
  BY DEF ReceiveAck, reshard, history
<1>8. WireOK(requests', acks', manager')
  BY <1>7, Here DEF WireOK
<1> QED BY <1>6, <1>7, <1>8, UnvotedKeeps

LEMMA WinKeeps ==
  ASSUME Inv, NEW i \in Nodes, Win(i)
  PROVE  Inv'
<1> DEFINE e == Max({view[i].cfg[i], view[i].auth.epoch})
           w == [view[i] EXCEPT !.cfg[i] = e]
<1>1. view[i] \in View
  BY Here
<1>2. view[i].cfg[i] \in Nat /\ view[i].auth.epoch \in Nat
  BY <1>1 DEF View
<1>3. e \in Nat
  BY <1>2, MaxOfTwo
<1>4. NewView(i, ReplaceYourMaster(i, w))
  BY DEF Win
<1> HIDE DEF e
<1>5. Advances(view[i], w)
  BY <1>1, <1>3, PutConfig
<1> HIDE DEF w
<1>6. Advances(view[i], ReplaceYourMaster(i, w))
  BY <1>1, <1>5, ReplaceOK, AdvancesTrans DEF Advances
<1>7. Unvoted
  BY <1>4, <1>6, NewViewUnvoted
<1>8. WireOK(requests', acks', manager') /\ UNCHANGED <<conf, votes>>
  BY Here DEF Win, bus, reshard
<1> QED BY <1>7, <1>8, UnvotedKeeps

LEMMA ForceFailoverKeeps ==
  ASSUME Inv, NEW i \in Nodes, ForceFailover(i)
  PROVE  Inv'
<1> DEFINE b == ~view[i].manual
<1>1. view[i] \in View /\ b \in BOOLEAN
  BY Here
<1>2. NewView(i, [view[i] EXCEPT !.manual = b])
  BY DEF ForceFailover
<1> HIDE DEF b
<1>3. Advances(view[i], [view[i] EXCEPT !.manual = b])
  BY <1>1, PutManual
<1>4. Unvoted
  BY <1>2, <1>3, NewViewUnvoted
<1>5. WireOK(requests', acks', manager') /\ UNCHANGED <<conf, votes>>
  BY Here DEF ForceFailover, bus, reshard, history
<1> QED BY <1>4, <1>5, UnvotedKeeps

LEMMA TakeoverKeeps ==
  ASSUME Inv, NEW i \in Nodes, Takeover(i)
  PROVE  Inv'
<1> DEFINE w == BumpConfigEpoch(i, view[i])
<1>1. view[i] \in View
  BY Here
<1>2. NewView(i, ReplaceYourMaster(i, w))
  BY DEF Takeover
<1>3. Advances(view[i], w)
  BY <1>1, BumpOK
<1> HIDE DEF w
<1>4. Advances(view[i], ReplaceYourMaster(i, w))
  BY <1>1, <1>3, ReplaceOK, AdvancesTrans DEF Advances
<1>5. Unvoted
  BY <1>2, <1>4, NewViewUnvoted
<1>6. WireOK(requests', acks', manager') /\ UNCHANGED <<conf, votes>>
  BY Here DEF Takeover, bus, reshard, history
<1> QED BY <1>5, <1>6, UnvotedKeeps

\* A crash may take currentEpoch back, but not below nodes.conf.
LEMMA RestartKeeps ==
  ASSUME Inv, IsFiniteSet(Nodes), NEW i \in Nodes, Restart(i)
  PROVE  Inv'
<1> DEFINE v == view[i]
           c == saved[i]
           loaded == [v EXCEPT !.cur = c]
           e == ClusterGetMaxEpoch(loaded)
           reports == [n \in Nodes |-> {}]
           fail == [n \in Nodes |-> IF v.fail[n] = "fail" THEN "fail" ELSE "ok"]
           auth == [phase |-> "idle", epoch |-> 0, count |-> 0]
           no == FALSE
           w == [loaded EXCEPT !.cur = e, !.reports = reports, !.fail = fail,
                               !.auth = auth, !.manual = no]
<1>1. v \in View /\ c \in Nat
  BY DEF Inv, TypeInv
<1>2. loaded \in View /\ loaded.cur = c /\ loaded.vote = v.vote /\ loaded.fail = v.fail
  BY <1>1 DEF View
<1>3. /\ view' = [view EXCEPT ![i] = w]
      /\ acks' = {a \in acks : a.to # i}
      /\ UNCHANGED <<conf, saved, requests, votes, manager>>
  BY <1>2 DEF Restart, reshard, history
<1>4. e \in Nat /\ e >= c
  <2> HIDE DEF loaded
  <2> QED BY <1>2, MaxEpoch
<1>5. /\ reports \in [Nodes -> SUBSET Nodes] /\ fail \in [Nodes -> Health]
      /\ auth \in [phase : Phases, epoch : Nat, count : Nat] /\ no \in BOOLEAN
  BY DEF Health, Phases
<1> HIDE DEF v, c, loaded, e, reports, fail, auth, no
<1>6. w \in View
  BY <1>2, <1>4, <1>5, Zenon DEF View
<1>7. w.cur = e
  BY <1>2 DEF View
<1>8. w.vote = v.vote
  BY <1>2 DEF View
<1> HIDE DEF w
<1>9. Unvoted
  <2>1. /\ view \in [Nodes -> View] /\ saved \in [Nodes -> Nat]
        /\ \A j \in Nodes : view[j].vote <= saved[j] /\ saved[j] <= view[j].cur
    BY DEF Inv, TypeInv, EpochInv
  <2>2. view' \in [Nodes -> View] /\ saved' = saved
    BY <1>3, <1>6, <2>1
  <2>3. \A j \in Nodes : /\ view'[j].vote = view[j].vote
                         /\ view'[j].vote <= saved[j] /\ saved[j] <= view'[j].cur
    <3> TAKE j \in Nodes
    <3>1. CASE j = i
      <4>1. view'[j] = w /\ saved[j] = c /\ view[j] = v
        BY <3>1, <1>3, <2>1 DEF v, c
      <4> QED BY <4>1, <1>4, <1>7, <1>8, <2>1
    <3>2. CASE j # i
      <4>1. view'[j] = view[j]
        BY <3>2, <1>3, <2>1
      <4> QED BY <4>1, <2>1
    <3> QED BY <3>1, <3>2
  <2> QED BY <2>1, <2>2, <2>3 DEF Unvoted
<1>10. WireOK(requests', acks', manager')
  BY <1>3, Here DEF WireOK
<1> QED BY <1>3, <1>9, <1>10, UnvotedKeeps

\* Clients leave the views alone.
LEMMA ViewsStay ==
  ASSUME Inv, UNCHANGED <<view, saved>>
  PROVE  Unvoted
BY DEF Inv, TypeInv, EpochInv, Unvoted

LEMMA ClientKeeps ==
  ASSUME Inv, NEW i \in Nodes, NEW k, Write(i, k) \/ Redirected(i, k)
  PROVE  Inv'
<1>1. UNCHANGED <<conf, view, saved, requests, acks, votes, manager>>
  BY Zenon DEF Write, Redirected, bus, history
<1>2. WireOK(requests', acks', manager')
  BY <1>1, Here
<1> QED BY <1>1, <1>2, ViewsStay, UnvotedKeeps

-----------------------------------------------------------------------------
(* redis-cli *)

LEMMA MoveType ==
  ASSUME Inv, Deployable, manager.step # "idle"
  PROVE  Move \in [slot : Slots, from : Nodes, to : Nodes] /\ conf.move # None
BY DEF Inv, TypeInv, Deployable, Move, Slots, Nodes

LEMMA ManagerOK ==
  ASSUME Inv, Deployable, manager.step # "idle",
         \/ manager' = manager
         \/ \E p \in Steps : manager' = [manager EXCEPT !.step = p]
         \/ \E i : manager' = [manager EXCEPT !.masters = @ \ {i}]
  PROVE  WireOK(requests, acks, manager')
BY Here, MoveType DEF WireOK

LEMMA SetImportingKeeps ==
  ASSUME Inv, Deployable, SetImporting
  PROVE  Inv'
<1> DEFINE i == Move.to
           s == Move.slot
           n == Move.from
<1>1. manager.step # "idle"
  BY DEF SetImporting
<1>2. i \in Nodes /\ s \in Slots /\ n \in NodeOrNone
  BY <1>1, MoveType DEF NodeOrNone
<1>3. NewView(i, [view[i] EXCEPT !.imp[s] = n])
  BY DEF SetImporting
<1> HIDE DEF i, s, n
<1>4. Advances(view[i], [view[i] EXCEPT !.imp[s] = n])
  BY <1>2, Here, PutImporting
<1>5. Unvoted
  BY <1>2, <1>3, <1>4, NewViewUnvoted
<1>6. UNCHANGED <<conf, requests, acks, votes>>
  BY DEF SetImporting, bus, history
<1>7. WireOK(requests', acks', manager')
  BY <1>1, <1>6, ManagerOK DEF SetImporting, Steps
<1> QED BY <1>5, <1>6, <1>7, UnvotedKeeps

LEMMA SetMigratingKeeps ==
  ASSUME Inv, Deployable, SetMigrating
  PROVE  Inv'
<1> DEFINE i == Move.from
           s == Move.slot
           n == Move.to
<1>1. manager.step # "idle"
  BY DEF SetMigrating
<1>2. i \in Nodes /\ s \in Slots /\ n \in NodeOrNone
  BY <1>1, MoveType DEF NodeOrNone
<1>3. NewView(i, [view[i] EXCEPT !.mig[s] = n])
  BY DEF SetMigrating
<1> HIDE DEF i, s, n
<1>4. Advances(view[i], [view[i] EXCEPT !.mig[s] = n])
  BY <1>2, Here, PutMigrating
<1>5. Unvoted
  BY <1>2, <1>3, <1>4, NewViewUnvoted
<1>6. UNCHANGED <<conf, requests, acks, votes>>
  BY DEF SetMigrating, bus, history
<1>7. WireOK(requests', acks', manager')
  BY <1>1, <1>6, ManagerOK DEF SetMigrating, Steps
<1> QED BY <1>5, <1>6, <1>7, UnvotedKeeps

LEMMA MigrateKeysKeeps ==
  ASSUME Inv, Deployable, MigrateKeys
  PROVE  Inv'
<1>1. manager.step # "idle"
  BY DEF MigrateKeys
<1>2. UNCHANGED <<conf, view, saved, requests, acks, votes>>
  BY DEF MigrateKeys, bus, history
<1>3. WireOK(requests', acks', manager')
  BY <1>1, <1>2, ManagerOK, Zenon DEF MigrateKeys, Steps
<1> QED BY <1>2, <1>3, ViewsStay, UnvotedKeeps

LEMMA TellNodeKeeps ==
  ASSUME Inv, Deployable, NEW i \in Nodes, TellNode(i)
  PROVE  Inv'
<1> DEFINE s == Move.slot
           n == Move.to
<1>1. manager.step # "idle"
  BY DEF TellNode
<1>2. s \in Slots /\ n \in Nodes
  BY <1>1, MoveType
<1>3. \/ UNCHANGED <<view, saved>>
      \/ NewView(i, SetSlotNode(i, view[i], keys[i], s, n))
  BY DEF TellNode
<1>4. \/ \E p \in Steps : manager' = [manager EXCEPT !.step = p]
      \/ \E j : manager' = [manager EXCEPT !.masters = @ \ {j}]
  BY DEF TellNode, Steps
<1> HIDE DEF s, n
<1>5. Advances(view[i], SetSlotNode(i, view[i], keys[i], s, n))
  BY <1>2, Here, SetSlotNodeOK
<1>6. Unvoted
  BY <1>3, <1>5, NewViewUnvoted, ViewsStay
<1>7. UNCHANGED <<conf, requests, acks, votes>>
  BY DEF TellNode, bus, history
<1>8. WireOK(requests', acks', manager')
  BY <1>1, <1>4, <1>7, ManagerOK, Zenon
<1> QED BY <1>6, <1>7, <1>8, UnvotedKeeps

-----------------------------------------------------------------------------
(* The specification. *)

LEMMA InitInv ==
  ASSUME Deployable, Init
  PROVE  Inv
<1> DEFINE v == InitView(conf)
<1>1. conf \in Configs
  BY DEF Init
<1>2. /\ conf.cur \in Nat /\ conf.cfg \in [Nodes -> Nat]
      /\ conf.slot \in [Slots -> NodeOrNone]
      /\ conf.slaveof \in [Nodes -> NodeOrNone]
  BY <1>1 DEF Deployable, Nodes, Slots, NodeOrNone
<1>3. v \in View
  <2> DEFINE fail == [n \in Nodes |-> IF n \in conf.down THEN "fail" ELSE "ok"]
             none == [s \in Slots |-> None]
             reports == [n \in Nodes |-> {}]
             auth == [phase |-> "idle", epoch |-> 0, count |-> 0]
             no == FALSE
  <2>1. /\ fail \in [Nodes -> Health] /\ none \in [Slots -> NodeOrNone]
        /\ reports \in [Nodes -> SUBSET Nodes] /\ no \in BOOLEAN
        /\ auth \in [phase : Phases, epoch : Nat, count : Nat]
    BY DEF Health, Phases, NodeOrNone
  <2>2. v = [cur |-> conf.cur, vote |-> 0, cfg |-> conf.cfg, slot |-> conf.slot,
             slaveof |-> conf.slaveof, fail |-> fail, reports |-> reports,
             mig |-> none, imp |-> none, auth |-> auth, manual |-> no]
    BY DEF InitView, Nodes, Slots
  <2> HIDE DEF v, fail, none, reports, auth, no
  <2> QED BY <1>2, <2>1, <2>2 DEF View
<1>4. v.vote = 0 /\ v.cur = conf.cur
  BY DEF InitView
<1> HIDE DEF v
<1>5. view = [i \in Nodes |-> v] /\ saved = [i \in Nodes |-> conf.cur]
  BY DEF Init, Nodes, v
<1>6. /\ requests = [i \in Nodes |-> {}] /\ acks = {} /\ votes = {}
      /\ manager \in [step : Steps, masters : SUBSET Nodes]
      /\ manager.step # "idle" => conf.move # None
  BY DEF Init, Nodes, Steps
<1>7. TypeInv
  BY <1>1, <1>2, <1>3, <1>5, <1>6 DEF TypeInv
<1>8. EpochInv
  BY <1>2, <1>4, <1>5 DEF EpochInv
<1>9. VoteInv /\ OneVotePerEpoch
  BY <1>6 DEF VoteInv, OneVotePerEpoch
<1> QED BY <1>7, <1>8, <1>9 DEF Inv

LEMMA NextInv ==
  ASSUME Deployable, Inv, [Next]_vars
  PROVE  Inv'
<1>1. IsFiniteSet(Nodes) /\ Slots \subseteq Nat
  BY DEF Deployable, Inv, TypeInv, Nodes, Slots
<1>2. ASSUME NEW i \in Nodes, NEW j \in Nodes, Packet(i, j) PROVE Inv'
  BY <1>1, <1>2, PacketKeeps
<1>3. ASSUME NEW i \in Nodes, NEW j \in Nodes, Timeout(i, j) PROVE Inv'
  BY <1>3, TimeoutKeeps
<1>4. ASSUME NEW i \in Nodes, NEW j \in Nodes, ReceiveFail(i, j) PROVE Inv'
  BY <1>4, ReceiveFailKeeps
<1>5. ASSUME NEW i \in Nodes, NEW j \in Nodes, Vote(i, j) PROVE Inv'
  BY <1>5, VoteKeeps
<1>6. ASSUME NEW i \in Nodes, Schedule(i) PROVE Inv'
  BY <1>6, ScheduleKeeps
<1>7. ASSUME NEW i \in Nodes, AskVotes(i) PROVE Inv'
  BY <1>7, AskVotesKeeps
<1>8. ASSUME NEW i \in Nodes, Win(i) PROVE Inv'
  BY <1>8, WinKeeps
<1>9. ASSUME NEW i \in Nodes, ForceFailover(i) PROVE Inv'
  BY <1>9, ForceFailoverKeeps
<1>10. ASSUME NEW i \in Nodes, Takeover(i) PROVE Inv'
  BY <1>10, TakeoverKeeps
<1>11. ASSUME NEW i \in Nodes, Restart(i) PROVE Inv'
  BY <1>1, <1>11, RestartKeeps
<1>12. ASSUME NEW a \in acks, ReceiveAck(a) PROVE Inv'
  BY <1>12, ReceiveAckKeeps
<1>13. ASSUME NEW i \in Nodes, NEW k \in conf.keys, Write(i, k) \/ Redirected(i, k)
       PROVE  Inv'
  BY <1>13, ClientKeeps
<1>14. ASSUME SetImporting \/ SetMigrating \/ MigrateKeys PROVE Inv'
  BY <1>14, SetImportingKeeps, SetMigratingKeeps, MigrateKeysKeeps
<1>15. ASSUME NEW i \in Nodes, TellNode(i) PROVE Inv'
  BY <1>15, TellNodeKeeps
<1>16. ASSUME UNCHANGED vars PROVE Inv'
  <2>1. UNCHANGED <<conf, view, saved, requests, acks, votes, manager>>
    BY <1>16 DEF vars
  <2>2. WireOK(requests', acks', manager')
    BY <2>1, Here
  <2> QED BY <2>1, <2>2, ViewsStay, UnvotedKeeps
<1> QED BY <1>2, <1>3, <1>4, <1>5, <1>6, <1>7, <1>8, <1>9, <1>10, <1>11, <1>12, <1>13,
           <1>14, <1>15, <1>16, Zenon DEF Next

\* In every deployment with finitely many nodes, whatever packets, timeouts,
\* crashes, failovers and reshardings happen: a node's lastVoteEpoch is at
\* most the currentEpoch in its nodes.conf, which is at most the one in
\* memory, and its votes are in epochs up to lastVoteEpoch.
THEOREM VotesRecorded ==
  ASSUME Deployable
  PROVE  Spec => []Inv
<1>1. Init => Inv
  BY InitInv
<1>2. Inv /\ [Next]_vars => Inv'
  BY NextInv
<1> QED BY <1>1, <1>2, PTL DEF Spec

\* No master votes for two replicas in one epoch, even across crashes
\* (clusterSendFailoverAuthIfNeeded, clusterSaveConfig, clusterLoadConfig).
THEOREM VotesOncePerEpoch ==
  ASSUME Deployable
  PROVE  Spec => []OneVotePerEpoch
<1>1. Inv => OneVotePerEpoch
  BY DEF Inv
<1> QED BY <1>1, VotesRecorded, PTL
=============================================================================
