------------------------------ MODULE Ordering ------------------------------
(***************************************************************************)
(* The orders and foods tables of the shop and the request handlers that   *)
(* change them: OrderController (store, complete, cancel) and              *)
(* FoodController (store, update), with the events they broadcast.         *)
(*                                                                         *)
(* A worker is one PHP process serving one request at a time.  A handler   *)
(* is cut into one action per point at which another worker can see or     *)
(* disturb it: a read, a statement that takes a row lock, a commit, a      *)
(* broadcast.  The handlers that open a transaction run under MySQL's      *)
(* REPEATABLE READ: plain reads come from a snapshot, an UPDATE locks its  *)
(* row until the transaction ends, nothing is visible before the commit.   *)
(* cancel and complete open none, so each of their statements commits.     *)
(***************************************************************************)
EXTENDS Integers, FiniteSets

CONSTANTS
    Workers,        \* the PHP processes that serve requests
    Users,          \* the authenticated users that order
    Restaurants,    \* the rows of the restaurants table
    Names,          \* food names
    Quantities,     \* food_number values that requests carry
    Stocks,         \* remaining values of the foods that owners add
    Updates,        \* attributes that food update requests carry
    DeprivateList,  \* the rows of deprivate_lists (no handler writes them)
    MaxFoods,       \* bound: foods ever inserted
    MaxOrders,      \* bound: orders ever inserted
    None            \* an absent value

ASSUME NumbersAssumption == Quantities \subseteq Int /\ Stocks \subseteq Int
ASSUME NoneAssumption ==
    None \notin Int \cup Names \cup Restaurants \cup BOOLEAN
ASSUME UpdatesAssumption ==
    Updates \subseteq [name : Names \cup {None},
                       restaurant_id : Restaurants \cup {None},
                       remaining : Int \cup {None}]
ASSUME DeprivateAssumption ==
    DeprivateList \subseteq [id : Nat, user_id : Users, is_free : BOOLEAN]
ASSUME BoundsAssumption == MaxFoods \in Nat /\ MaxOrders \in Nat

VARIABLES
    foods,      \* committed rows of foods, by id
    orders,     \* committed rows of orders, by id
    nextFood,   \* AUTO_INCREMENT counter of foods
    nextOrder,  \* AUTO_INCREMENT counter of orders
    pc,         \* where each worker's handler stands
    job,        \* the local variables of each worker's handler
    reply,      \* the last response of each worker
    sent        \* the messages broadcast so far

vars == <<foods, orders, nextFood, nextOrder, pc, job, reply, sent>>
tables == <<foods, orders, nextFood, nextOrder, sent>>

-----------------------------------------------------------------------------
(* Rows, and what Eloquent does with them.                                 *)

FoodRow == [name : Names, restaurant_id : Restaurants, remaining : Int]

OrderRow == [user_id : Users, food_id : Nat, food_number : Int,
             complete : BOOLEAN, send : BOOLEAN]

\* The attributes passed to $food->update; None is an attribute not passed.
Attrs == [name : Names \cup {None}, restaurant_id : Restaurants \cup {None},
          remaining : Int \cup {None}]
Remaining(n) == [name |-> None, restaurant_id |-> None, remaining |-> n]
NoAttrs == Remaining(None)

NoRows == [i \in {} |-> None]

\* The table with row under id: an INSERT, or an UPDATE of the row there.
Put(table, id, row) ==
    [i \in DOMAIN table \cup {id} |-> IF i = id THEN row ELSE table[i]]

\* save() writes a column only when its new value differs from the loaded one.
Saved(current, loaded, new) == IF new \in {None, loaded} THEN current ELSE new

SaveFood(current, loaded, attrs) ==
    [name |-> Saved(current.name, loaded.name, attrs.name),
     restaurant_id |->
         Saved(current.restaurant_id, loaded.restaurant_id, attrs.restaurant_id),
     remaining |-> Saved(current.remaining, loaded.remaining, attrs.remaining)]

\* The model in memory once the attributes are filled in.
Filled(loaded, attrs) == SaveFood(loaded, loaded, attrs)

-----------------------------------------------------------------------------
(* Workers.                                                                *)

Labels == {"idle",
           "insert", "deduct", "commit", "event",     \* OrderController@store
           "unsend", "reload", "restore",             \* OrderController@cancel
           "finish",                                  \* OrderController@complete
           "create",                                  \* FoodController@store
           "validate", "patch",                       \* FoodController@update
           "notify", "save"}                          \* both of FoodController

Replies == {"none", "ok", "refused", "banned", "failed"}

Messages == [event : {"order-event", "food-event"}, id : Nat,
             restaurant : Restaurants]

Jobs == [food : Nat \cup {None}, order : Nat \cup {None},
         loaded : FoodRow \cup {None}, row : OrderRow \cup {None},
         attrs : Attrs]
NoJob == [food |-> None, order |-> None, loaded |-> None, row |-> None,
          attrs |-> NoAttrs]

Goto(w, label, j) ==
    /\ pc' = [pc EXCEPT ![w] = label]
    /\ job' = [job EXCEPT ![w] = j]
    /\ reply' = [reply EXCEPT ![w] = "none"]

Respond(w, r) ==
    /\ pc' = [pc EXCEPT ![w] = "idle"]
    /\ job' = [job EXCEPT ![w] = NoJob]
    /\ reply' = [reply EXCEPT ![w] = r]

\* An UPDATE of the loaded food with these attributes reaches the database.
Dirty(j) == Filled(j.loaded, j.attrs) # j.loaded

\* v's transaction has updated food f and is still open.
Locks(v, f) ==
    pc[v] \in {"commit", "notify", "save"} /\ job[v].food = f /\ Dirty(job[v])

\* The UPDATE of j does not have to wait for another transaction.
MayUpdate(w, j) == Dirty(j) => \A v \in Workers \ {w} : ~Locks(v, j.food)

-----------------------------------------------------------------------------
(* OrderController@store.                                                  *)

BadRecords(u) == {r \in DeprivateList : r.user_id = u}

\* DeprivateList::find($request->user_id): by primary key, at most one row.
Found(id) == {r \in DeprivateList : r.id = id}

MayOrder(u, id) == Cardinality(BadRecords(u)) < 3 \/ \E r \in Found(id) : r.is_free

\* Mutant: one unit more than there is.
ValidOneMore(f, n) == f \in DOMAIN foods /\ n <= foods[f].remaining + 1

\* The food exists and food_number is lte:remaining.
Valid(f, n) == f \in DOMAIN foods /\ n <= foods[f].remaining

OrderRoom ==
    nextOrder + Cardinality({w \in Workers : pc[w] = "insert"}) <= MaxOrders

\* Everything up to the INSERT reads one snapshot, so it is one step.
OrderStore(w, u, f, n, id) ==
    /\ pc[w] = "idle" /\ OrderRoom
    /\ UNCHANGED tables
    /\ IF ~Valid(f, n)
         THEN Respond(w, "refused")
         ELSE \/ /\ MayOrder(u, id)
                 /\ Goto(w, "insert",
                         [NoJob EXCEPT !.food = f, !.loaded = foods[f],
                             !.row = [user_id |-> u, food_id |-> f, food_number |-> n,
                                      complete |-> FALSE, send |-> TRUE]])
              \/ /\ ~MayOrder(u, id) /\ Found(id) # {}
                 /\ Respond(w, "banned")
              \/ /\ ~MayOrder(u, id) /\ Found(id) = {}   \* null->is_free
                 /\ Respond(w, "failed")

\* Mutant: an order takes one unit, whatever its food_number.
OrderInsertOne(w) ==
    /\ pc[w] = "insert"
    /\ nextOrder' = nextOrder + 1
    /\ Goto(w, "deduct", [job[w] EXCEPT !.order = nextOrder,
                              !.attrs = Remaining(job[w].loaded.remaining - 1)])
    /\ UNCHANGED <<foods, orders, nextFood, sent>>

OrderInsert(w) ==
    /\ pc[w] = "insert"
    /\ nextOrder' = nextOrder + 1
    /\ Goto(w, "deduct",
            [job[w] EXCEPT !.order = nextOrder,
                !.attrs = Remaining(job[w].loaded.remaining - job[w].row.food_number)])
    /\ UNCHANGED <<foods, orders, nextFood, sent>>

\* Mutant: the event is broadcast inside the transaction.
OrderDeductAndTell(w) ==
    /\ pc[w] = "deduct"
    /\ MayUpdate(w, job[w])
    /\ sent' = sent \cup {[event |-> "order-event", id |-> job[w].order,
                           restaurant |-> job[w].loaded.restaurant_id]}
    /\ Goto(w, "commit", job[w])
    /\ UNCHANGED <<foods, orders, nextFood, nextOrder>>

\* Mutant: the food was read with a shared lock, which the UPDATE upgrades.
OrderDeductUpgrade(w) ==
    /\ pc[w] = "deduct"
    /\ \A v \in Workers \ {w} : pc[v] \in {"deduct", "commit"} => job[v].food # job[w].food
    /\ MayUpdate(w, job[w])
    /\ Goto(w, "commit", job[w])
    /\ UNCHANGED tables

OrderDeduct(w) ==
    /\ pc[w] = "deduct"
    /\ MayUpdate(w, job[w])
    /\ Goto(w, "commit", job[w])
    /\ UNCHANGED tables

OrderCommit(w) ==
    LET j == job[w] IN
    /\ pc[w] = "commit"
    /\ orders' = Put(orders, j.order, j.row)
    /\ foods' = Put(foods, j.food, SaveFood(foods[j.food], j.loaded, j.attrs))
    /\ Goto(w, "event", j)
    /\ UNCHANGED <<nextFood, nextOrder, sent>>

\* NewOrder reads the food again, after the commit, to find its restaurant.
OrderEvent(w) ==
    /\ pc[w] = "event"
    /\ sent' = sent \cup {[event |-> "order-event", id |-> job[w].order,
                           restaurant |-> foods[job[w].food].restaurant_id]}
    /\ Respond(w, "ok")
    /\ UNCHANGED <<foods, orders, nextFood, nextOrder>>

-----------------------------------------------------------------------------
(* OrderController@cancel.                                                 *)

\* Mutant: an order can be cancelled again.
OrderCancelAgain(w, o) ==
    /\ pc[w] = "idle"
    /\ UNCHANGED tables
    /\ IF o \in DOMAIN orders
         THEN Goto(w, "unsend", [NoJob EXCEPT !.order = o, !.row = orders[o],
                                              !.food = orders[o].food_id])
         ELSE Respond(w, "refused")

OrderCancel(w, o) ==
    /\ pc[w] = "idle"
    /\ UNCHANGED tables
    /\ IF o \in DOMAIN orders /\ orders[o].send
         THEN Goto(w, "unsend", [NoJob EXCEPT !.order = o, !.row = orders[o],
                                              !.food = orders[o].food_id])
         ELSE Respond(w, "refused")

\* Mutant: the units go back and the order stays.
OrderUnsendNothing(w) ==
    /\ pc[w] = "unsend"
    /\ Goto(w, "reload", job[w])
    /\ UNCHANGED tables

OrderUnsend(w) ==
    LET o == job[w].order IN
    /\ pc[w] = "unsend"
    /\ orders' = Put(orders, o, [orders[o] EXCEPT
                                    !.send = Saved(@, job[w].row.send, FALSE)])
    /\ Goto(w, "reload", job[w])
    /\ UNCHANGED <<foods, nextFood, nextOrder, sent>>

\* Mutant: the units of the order are not added.
OrderReloadOnly(w) ==
    LET food == foods[job[w].food] IN
    /\ pc[w] = "reload"
    /\ Goto(w, "restore", [job[w] EXCEPT !.loaded = food,
                               !.attrs = Remaining(food.remaining)])
    /\ UNCHANGED tables

OrderReload(w) ==
    LET food == foods[job[w].food] IN
    /\ pc[w] = "reload"
    /\ Goto(w, "restore",
            [job[w] EXCEPT !.loaded = food,
                !.attrs = Remaining(food.remaining + job[w].row.food_number)])
    /\ UNCHANGED tables

OrderRestore(w) ==
    LET j == job[w] IN
    /\ pc[w] = "restore"
    /\ MayUpdate(w, j)
    /\ foods' = Put(foods, j.food, SaveFood(foods[j.food], j.loaded, j.attrs))
    /\ Respond(w, "ok")
    /\ UNCHANGED <<orders, nextFood, nextOrder, sent>>

-----------------------------------------------------------------------------
(* OrderController@complete.                                               *)

OrderComplete(w, o) ==
    /\ pc[w] = "idle"
    /\ UNCHANGED tables
    /\ IF o \in DOMAIN orders /\ orders[o].send
         THEN Goto(w, "finish", [NoJob EXCEPT !.order = o, !.row = orders[o]])
         ELSE Respond(w, "refused")

\* Mutant: save() writes every column of the row it loaded.
OrderFinishWhole(w) ==
    /\ pc[w] = "finish"
    /\ orders' = Put(orders, job[w].order, [job[w].row EXCEPT !.complete = TRUE])
    /\ Respond(w, "ok")
    /\ UNCHANGED <<foods, nextFood, nextOrder, sent>>

OrderFinish(w) ==
    LET o == job[w].order IN
    /\ pc[w] = "finish"
    /\ orders' = Put(orders, o, [orders[o] EXCEPT
                                    !.complete = Saved(@, job[w].row.complete, TRUE)])
    /\ Respond(w, "ok")
    /\ UNCHANGED <<foods, nextFood, nextOrder, sent>>

-----------------------------------------------------------------------------
(* FoodController@store.                                                   *)

\* Rule::unique('foods') among the foods of a restaurant, food f ignored.
NameTaken(name, r, f) ==
    \E g \in DOMAIN foods \ {f} : foods[g].name = name /\ foods[g].restaurant_id = r

FoodRoom == nextFood + Cardinality({w \in Workers : pc[w] = "create"}) <= MaxFoods

FoodStore(w, name, r, stock) ==
    /\ pc[w] = "idle" /\ FoodRoom
    /\ UNCHANGED tables
    /\ IF NameTaken(name, r, None)
         THEN Respond(w, "refused")
         ELSE Goto(w, "create",
                   [NoJob EXCEPT !.loaded = [name |-> name, restaurant_id |-> r,
                                             remaining |-> stock]])

FoodInsert(w) ==
    /\ pc[w] = "create"
    /\ nextFood' = nextFood + 1
    /\ Goto(w, "notify", [job[w] EXCEPT !.food = nextFood])
    /\ UNCHANGED <<foods, orders, nextOrder, sent>>

\* FoodAdded is broadcast inside the transaction, to the new restaurant.
FoodNotify(w) ==
    LET food == Filled(job[w].loaded, job[w].attrs) IN
    /\ pc[w] = "notify"
    /\ sent' = sent \cup {[event |-> "food-event", id |-> job[w].food,
                           restaurant |-> food.restaurant_id]}
    /\ Goto(w, "save", job[w])
    /\ UNCHANGED <<foods, orders, nextFood, nextOrder>>

FoodCommit(w) ==
    LET j == job[w] IN
    /\ pc[w] = "save"
    /\ foods' = Put(foods, j.food,
                    IF j.food \in DOMAIN foods
                      THEN SaveFood(foods[j.food], j.loaded, j.attrs)
                      ELSE j.loaded)
    /\ Respond(w, "ok")
    /\ UNCHANGED <<orders, nextFood, nextOrder, sent>>

-----------------------------------------------------------------------------
(* FoodController@update.                                                  *)

\* The route binding loads the food before the transaction begins.
FoodUpdate(w, f, attrs) ==
    /\ pc[w] = "idle"
    /\ UNCHANGED tables
    /\ IF f \in DOMAIN foods
         THEN Goto(w, "validate", [NoJob EXCEPT !.food = f, !.loaded = foods[f],
                                                !.attrs = attrs])
         ELSE Respond(w, "refused")

\* Mutant: the new name is not checked.
FoodValidateNothing(w) ==
    /\ pc[w] = "validate"
    /\ UNCHANGED tables
    /\ Goto(w, "patch", job[w])

FoodValidate(w) ==
    LET j == job[w] IN
    /\ pc[w] = "validate"
    /\ UNCHANGED tables
    /\ IF j.attrs.name # None
            /\ NameTaken(j.attrs.name, j.loaded.restaurant_id, j.food)
         THEN Respond(w, "refused")
         ELSE Goto(w, "patch", j)

\* Mutant: every column is filled from the request, those it leaves out with null.
FoodPatchAll(w) ==
    LET j == job[w]
        all == [j.attrs EXCEPT !.name = "", !.restaurant_id = ""] IN
    /\ pc[w] = "patch"
    /\ MayUpdate(w, j)
    /\ Goto(w, "save", [j EXCEPT !.attrs = all])
    /\ UNCHANGED tables

\* The image upload writes the same row first: one lock, one commit.
FoodPatch(w) ==
    LET j == job[w] IN
    /\ pc[w] = "patch"
    /\ MayUpdate(w, j)
    /\ Goto(w, IF Filled(j.loaded, j.attrs).remaining > j.loaded.remaining
                 THEN "notify" ELSE "save", j)
    /\ UNCHANGED tables

-----------------------------------------------------------------------------
(* A statement throws, a lock wait times out, the broadcaster is down, or  *)
(* the process dies.  No catch clause matches (Exception is not imported   *)
(* into the controllers' namespace), and the connection that closes rolls  *)
(* an open transaction back: what was not committed lives in job only.     *)

Fail(w) ==
    /\ pc[w] # "idle"
    /\ Respond(w, "failed")
    /\ UNCHANGED tables

-----------------------------------------------------------------------------

Init ==
    /\ foods = NoRows /\ orders = NoRows
    /\ nextFood = 1 /\ nextOrder = 1
    /\ pc = [w \in Workers |-> "idle"]
    /\ job = [w \in Workers |-> NoJob]
    /\ reply = [w \in Workers |-> "none"]
    /\ sent = {}

Arrive(w) ==
    \/ \E u \in Users, f \in 1..MaxFoods, n \in Quantities,
          id \in {r.id : r \in DeprivateList} \cup {None} : OrderStore(w, u, f, n, id)
    \/ \E o \in 1..MaxOrders : OrderCancel(w, o)
    \/ \E o \in 1..MaxOrders : OrderComplete(w, o)
    \/ \E name \in Names, r \in Restaurants, s \in Stocks : FoodStore(w, name, r, s)
    \/ \E f \in 1..MaxFoods, a \in Updates : FoodUpdate(w, f, a)

Advance(w) ==
    \/ OrderInsert(w) \/ OrderDeduct(w) \/ OrderCommit(w) \/ OrderEvent(w)
    \/ OrderUnsend(w) \/ OrderReload(w) \/ OrderRestore(w)
    \/ OrderFinish(w)
    \/ FoodInsert(w) \/ FoodNotify(w) \/ FoodCommit(w)
    \/ FoodValidate(w) \/ FoodPatch(w)

Next == \E w \in Workers : Arrive(w) \/ Advance(w) \/ Fail(w)

Spec == Init /\ [][Next]_vars

\* A worker goes on with its handler, and a transaction waiting for a row is
\* served by the lock queue.  Nothing obliges clients to send requests.
Fairness == \A w \in Workers : SF_vars(Advance(w))

FairSpec == Spec /\ Fairness

-----------------------------------------------------------------------------
(* Properties.                                                             *)

\* Every variable has its type.
TypeOK ==
    /\ DOMAIN foods \subseteq Nat /\ foods \in [DOMAIN foods -> FoodRow]
    /\ DOMAIN orders \subseteq Nat /\ orders \in [DOMAIN orders -> OrderRow]
    /\ nextFood \in Nat /\ nextOrder \in Nat
    /\ pc \in [Workers -> Labels]
    /\ job \in [Workers -> Jobs]
    /\ reply \in [Workers -> Replies]
    /\ sent \subseteq Messages

\* Whatever requests overlap and fail, orders never drive a food's remaining
\* below zero, as long as clients and owners enter no negative number: the
\* lte rule compares with the same loaded value the new one is computed from.
NonNegativeStock == \A f \in DOMAIN foods : foods[f].remaining >= 0

\* A step keeps every order, what it is for, its cancellation and completion.
KeepsOrders ==
    \A o \in DOMAIN orders :
        /\ o \in DOMAIN orders'
        /\ orders'[o].user_id = orders[o].user_id
        /\ orders'[o].food_id = orders[o].food_id
        /\ orders'[o].food_number = orders[o].food_number
        /\ orders'[o].send => orders[o].send
        /\ orders[o].complete => orders'[o].complete

\* No request, however stale the row it loaded, takes an order back: orders are
\* not lost or reassigned, a cancelled one is not sent again, a completed one
\* is not reopened (save() writes only the columns a handler changed).
OrderHistory == [][KeepsOrders]_orders

\* A restaurant is told only of orders that are in the table: NewOrder is
\* broadcast after the commit.
AnnouncedOrdersExist ==
    \A m \in sent : m.event = "order-event" => m.id \in DOMAIN orders

\* A food that subscribers were told of ('food added') is in the table, or its
\* transaction is about to commit.
AnnouncedFoodsExist ==
    \A m \in sent : m.event = "food-event" =>
        \/ m.id \in DOMAIN foods
        \/ \E w \in Workers : pc[w] = "save" /\ job[w].food = m.id

\* Two foods of one restaurant never have the same name (Rule::unique in
\* FoodController@store and @update).
UniqueNames ==
    \A f, g \in DOMAIN foods :
        /\ foods[f].name = foods[g].name
        /\ foods[f].restaurant_id = foods[g].restaurant_id
        => f = g

\* A user with more than three bad records, none of them set free, has no
\* order, as the message of OrderController@store says.
BannedHaveNoOrders ==
    \A o \in DOMAIN orders :
        LET bad == BadRecords(orders[o].user_id) IN
        Cardinality(bad) > 3 => \E r \in bad : r.is_free

\* Every request is answered: no handler waits for ever for a row another
\* transaction holds.
EveryRequestAnswered ==
    \A w \in Workers : pc[w] # "idle" ~> pc[w] = "idle"
=============================================================================
