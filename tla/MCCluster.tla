----------------------------- MODULE MCCluster -----------------------------
(* Deployments of Cluster for TLC. *)
EXTENDS Naturals

CONSTANT None

Budget == [timeouts |-> 0, attempts |-> 0, forced |-> 0, takeovers |-> 0,
           crashes |-> 0, lost |-> 0]

\* All ordered pairs of distinct nodes
Full(nodes) == {p \in nodes \X nodes : p[1] # p[2]}

\* A cluster just created: three masters with epoch 0
Fresh ==
    [nodes |-> 1..3, slots |-> 1..3, suspects |-> {}, down |-> {},
     links |-> Full(1..3), asks |-> {}, late |-> FALSE,
     converges |-> TRUE,
     cur |-> 0, cfg |-> [n \in 1..3 |-> 0],
     slot |-> [s \in 1..3 |-> s],
     slaveof |-> [n \in 1..3 |-> None],
     move |-> None, keys |-> {}, budget |-> Budget]

\* Both replicas of the only master take its slot over, without consensus
Takeovers ==
    [Fresh EXCEPT !.slots = {1}, !.cur = 1, !.cfg = [n \in 1..3 |-> 1],
        !.slot = [s \in {1} |-> 1],
        !.slaveof = [n \in 1..3 |-> IF n = 1 THEN None ELSE 1],
        !.budget = [Budget EXCEPT !.takeovers = 2]]

\* Slot 1 moves from master 1 to master 2 while clients write two keys of it
Reshard ==
    [Fresh EXCEPT !.converges = FALSE, !.cur = 3, !.cfg = [n \in 1..3 |-> n],
        !.move = [slot |-> 1, from |-> 1, to |-> 2],
        !.keys = {<<1, 1>>, <<1, 2>>},
        !.budget = [Budget EXCEPT !.lost = 1]]

\* Masters 1, 2, 3 with a slot each; replica 4 of master 1, which may fail
Detect ==
    [nodes |-> 1..4, slots |-> 1..3, suspects |-> {1}, down |-> {},
     links |-> Full(1..4) \ {<<4, 2>>, <<4, 3>>},
     asks |-> {4} \X (2..3), late |-> FALSE,
     converges |-> FALSE,
     cur |-> 3, cfg |-> [n \in 1..4 |-> IF n <= 3 THEN n ELSE 1],
     slot |-> [s \in 1..3 |-> s],
     slaveof |-> [n \in 1..4 |-> IF n <= 3 THEN None ELSE 1],
     move |-> None, keys |-> {},
     budget |-> [Budget EXCEPT !.attempts = 1, !.timeouts = 2]]

\* Master 1 has failed; its replicas 4 and 5 compete, a voter may crash
Election ==
    [nodes |-> 1..5, slots |-> 1..3, suspects |-> {}, down |-> {1},
     links |-> {<<4, 2>>, <<5, 3>>, <<4, 5>>, <<5, 4>>},
     asks |-> (4..5) \X (2..3), late |-> FALSE,
     converges |-> FALSE,
     cur |-> 3, cfg |-> [n \in 1..5 |-> IF n <= 3 THEN n ELSE 1],
     slot |-> [s \in 1..3 |-> s],
     slaveof |-> [n \in 1..5 |-> IF n <= 3 THEN None ELSE 1],
     move |-> None, keys |-> {},
     budget |-> [Budget EXCEPT !.attempts = 2, !.crashes = 1]]

\* As above, with a replica that is told to replace a master that works
Forced ==
    [Election EXCEPT !.down = {}, !.links = {<<4, 1>>, <<1, 4>>, <<4, 2>>},
        !.budget = [Budget EXCEPT !.attempts = 2, !.forced = 2]]

Deployments == {Fresh, Takeovers, Reshard, Detect, Election, Forced}

=============================================================================
