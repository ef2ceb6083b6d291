----------------------------- MODULE MCOrdering -----------------------------
(***************************************************************************)
(* Instances of Ordering for TLC.                                          *)
(***************************************************************************)
EXTENDS Ordering, TLC

NoBans == {}
NoUpdates == {}
Restock == {Remaining(2)}

\* Updates that rename a food, those and restocking, and those and a move to
\* another restaurant.
Rename == {[NoAttrs EXCEPT !.name = n] : n \in Names}
RenameOrRestock == Rename \cup Restock
Move == Rename \cup {[NoAttrs EXCEPT !.restaurant_id = r] : r \in Restaurants}

\* Three bad records of user u, none of them set free.
Three(u) == {[id |-> i, user_id |-> u, is_free |-> FALSE] : i \in 1..3}
OneUser == CHOOSE u \in Users : TRUE

\* One user has three bad records, and nobody has been set free.
ThreeRecords == Three(OneUser)

\* The user has four bad records, and another user's record is set free.
OtherIsFree ==
    Three(OneUser) \cup {[id |-> 4, user_id |-> OneUser, is_free |-> FALSE]}
        \cup {[id |-> 5, user_id |-> u, is_free |-> TRUE] : u \in Users \ {OneUser}}

WorkerSymmetry == Permutations(Workers)

\* No handler tells one name, or one restaurant, from another.
FoodSymmetry == Permutations(Names) \cup Permutations(Restaurants)
=============================================================================
