----------------------------- MODULE MCSentinel -----------------------------
(* Small deployments of Sentinel for TLC. *)
EXTENDS Naturals, TLC

CONSTANTS s1, s2, s3, rm, r1, r2

Three == {s1, s2, s3}

Addresses == {rm, r1, r2}

\* No replica may be promoted: elections of one epoch, with a fault.
Elections ==
  [quorum |-> 2, priority |-> [i \in Addresses |-> 0], watchers |-> {s1, s2},
   forced |-> {}, epochs |-> 1, faults |-> 1]

\* Two epochs of elections without a fault.
TwoEpochs == [Elections EXCEPT !.epochs = 2, !.faults = 0]

\* r2 is only ever a replica.
Promotable == [i \in Addresses |-> IF i = r2 THEN 0 ELSE 100]

\* A failover with a fault, by the one Sentinel that sees the master down.
Crash ==
  [quorum |-> 1, priority |-> Promotable, watchers |-> {s3},
   forced |-> {}, epochs |-> 1, faults |-> 1]

\* Two failovers in a row.
Twice ==
  [quorum |-> 1, priority |-> Promotable, watchers |-> {s3},
   forced |-> {}, epochs |-> 2, faults |-> 0]

\* A failover that the operator forces, with a fault.
Manual ==
  [quorum |-> 1, priority |-> Promotable, watchers |-> {},
   forced |-> {s3}, epochs |-> 1, faults |-> 1]

Deployments == {Elections, TwoEpochs, Crash, Twice, Manual}

Interchangeable == Permutations({s1, s2})
=============================================================================
