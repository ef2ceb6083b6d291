------------------------- MODULE OrderLedger_proofs -------------------------
(***************************************************************************)
(* Theorems about Ordering for every number of workers and every table,    *)
(* and then where the units of a food are and why there are never fewer    *)
(* than none of them.  The ledger adds history to Ordering, so what holds  *)
(* of Ordering's variables holds of them in the ledger's behaviours too.   *)
(***************************************************************************)
EXTENDS OrderLedger, TLAPS

-----------------------------------------------------------------------------
(* The handlers. *)

Deduction(j) == Remaining(j.loaded.remaining - j.row.food_number)
Restoration(j) == Remaining(j.loaded.remaining + j.row.food_number)

\* What the local variables of a worker hold at each point of its handler.
Placing(w) ==
    pc[w] \in {"insert", "deduct", "commit"} =>
        /\ job[w].food \in DOMAIN foods
        /\ job[w].loaded \in FoodRow
        /\ job[w].row \in OrderRow
        /\ job[w].row.food_id = job[w].food

Numbered(w) ==
    pc[w] \in {"deduct", "commit"} =>
        /\ job[w].order \in Nat /\ job[w].order < nextOrder
        /\ job[w].attrs = Deduction(job[w])

Announcing(w) ==
    pc[w] = "event" => job[w].order \in DOMAIN orders /\ job[w].food \in DOMAIN foods

Loaded(w) ==
    pc[w] \in {"unsend", "reload", "restore", "finish"} =>
        /\ job[w].order \in DOMAIN orders
        /\ job[w].row \in OrderRow
        /\ job[w].row.food_id = orders[job[w].order].food_id
        /\ job[w].row.food_number = orders[job[w].order].food_number

Cancelling(w) ==
    pc[w] \in {"unsend", "reload", "restore"} => job[w].food = job[w].row.food_id

Restoring(w) ==
    pc[w] = "restore" => job[w].loaded \in FoodRow /\ job[w].attrs = Restoration(job[w])

Adding(w) ==
    /\ pc[w] \in {"create", "notify", "save", "validate", "patch"} =>
          job[w].loaded \in FoodRow
    /\ pc[w] \in {"notify", "save"} => job[w].food \in Nat
    /\ pc[w] \in {"validate", "patch"} => job[w].food \in DOMAIN foods

JobInv(w) ==
    /\ Placing(w) /\ Numbered(w) /\ Announcing(w)
    /\ Loaded(w) /\ Cancelling(w) /\ Restoring(w)
    /\ Adding(w)

\* Rows are never deleted, so an order's food is there.
OrdersHaveFoods == \A o \in DOMAIN orders : orders[o].food_id \in DOMAIN foods

\* Order numbers are handed out once.
FreshNumbers ==
    /\ \A o \in DOMAIN orders : o < nextOrder
    /\ \A w \in Workers : pc[w] \in {"deduct", "commit"} =>
          job[w].order \notin DOMAIN orders
    /\ \A v, w \in Workers :
          /\ pc[v] \in {"deduct", "commit"} /\ pc[w] \in {"deduct", "commit"}
          /\ job[v].order = job[w].order
          => v = w

Inv ==
    /\ TypeOK
    /\ \A w \in Workers : JobInv(w)
    /\ OrdersHaveFoods
    /\ FreshNumbers

-----------------------------------------------------------------------------
(* Lemmas about rows, tables and moves of a worker.                        *)

\* Saving typed attributes over a typed row gives a typed row.
LEMMA SaveFoodType ==
    ASSUME NEW c \in FoodRow, NEW l \in FoodRow, NEW a \in Attrs
    PROVE  SaveFood(c, l, a) \in FoodRow
  BY DEF SaveFood, Saved, FoodRow, Attrs

\* Put adds or replaces one row and keeps the others.
LEMMA PutRow ==
    ASSUME NEW t, NEW S, NEW i \in Nat, NEW row \in S,
           DOMAIN t \subseteq Nat, t \in [DOMAIN t -> S]
    PROVE  /\ DOMAIN Put(t, i, row) = DOMAIN t \cup {i}
           /\ DOMAIN Put(t, i, row) \subseteq Nat
           /\ Put(t, i, row) \in [DOMAIN Put(t, i, row) -> S]
           /\ Put(t, i, row)[i] = row
           /\ \A k \in DOMAIN t : k # i => Put(t, i, row)[k] = t[k]
  BY DEF Put

\* The other workers stay where they are.
OnlyMoves(w) == \A v \in Workers \ {w} : pc'[v] = pc[v] /\ job'[v] = job[v]

LEMMA GotoMoves ==
    ASSUME TypeOK, NEW w \in Workers, NEW l \in Labels, NEW j \in Jobs, Goto(w, l, j)
    PROVE  /\ pc' \in [Workers -> Labels] /\ job' \in [Workers -> Jobs]
           /\ reply' \in [Workers -> Replies]
           /\ pc'[w] = l /\ job'[w] = j /\ OnlyMoves(w)
  BY DEF TypeOK, Goto, OnlyMoves, Replies

LEMMA RespondMoves ==
    ASSUME TypeOK, NEW w \in Workers, NEW r \in Replies, Respond(w, r)
    PROVE  /\ pc' \in [Workers -> Labels] /\ job' \in [Workers -> Jobs]
           /\ reply' \in [Workers -> Replies]
           /\ pc'[w] = "idle" /\ job'[w] = NoJob /\ OnlyMoves(w)
  <1>1. NoJob \in Jobs
    BY DEF NoJob, Jobs, NoAttrs, Remaining, Attrs
  <1>2. "idle" \in Labels
    BY DEF Labels
  <1>3. QED
    BY <1>1, <1>2 DEF TypeOK, Respond, OnlyMoves

\* No step deletes a row, changes what an order is for, or reuses a number.
Grows ==
    /\ DOMAIN foods \subseteq DOMAIN foods'
    /\ DOMAIN orders \subseteq DOMAIN orders'
    /\ \A o \in DOMAIN orders : /\ orders'[o].food_id = orders[o].food_id
                                /\ orders'[o].food_number = orders[o].food_number
    /\ nextOrder \in Nat /\ nextOrder' \in Nat /\ nextOrder <= nextOrder'

LEMMA OthersKeepJobInv ==
    ASSUME NEW v \in Workers, JobInv(v), Grows, pc'[v] = pc[v], job'[v] = job[v]
    PROVE  JobInv(v)'
  <1>1. Placing(v)'
    BY DEF JobInv, Placing, Grows
  <1>2. Numbered(v)'
    BY DEF JobInv, Numbered, Grows, Deduction
  <1>3. Announcing(v)'
    BY DEF JobInv, Announcing, Grows
  <1>4. Loaded(v)'
    BY DEF JobInv, Loaded, Grows
  <1>5. Cancelling(v)' /\ Restoring(v)'
    BY DEF JobInv, Cancelling, Restoring, Restoration
  <1>6. Adding(v)'
    BY DEF JobInv, Adding, Grows
  <1>7. QED
    BY <1>1, <1>2, <1>3, <1>4, <1>5, <1>6 DEF JobInv

\* Order numbers stay fresh when no order is inserted or numbered.
LEMMA KeepFreshNumbers ==
    ASSUME Inv, NEW w \in Workers, OnlyMoves(w), Grows, DOMAIN orders' = DOMAIN orders,
           \/ pc'[w] \notin {"deduct", "commit"}
           \/ pc[w] = "deduct" /\ job'[w] = job[w]
    PROVE  FreshNumbers'
  <1>1. \A o \in DOMAIN orders' : o < nextOrder'
    BY DEF Inv, FreshNumbers, Grows, TypeOK
  <1>2. \A v \in Workers : pc'[v] \in {"deduct", "commit"} =>
            pc[v] \in {"deduct", "commit"} /\ job'[v] = job[v]
    BY DEF OnlyMoves
  <1>3. QED
    BY <1>1, <1>2 DEF Inv, FreshNumbers

\* Inv follows from what the moving worker does and from the growth of the tables.
LEMMA Assemble ==
    ASSUME Inv, NEW w \in Workers, TypeOK', Grows, OnlyMoves(w), JobInv(w)',
           OrdersHaveFoods', FreshNumbers'
    PROVE  Inv'
  <1>1. ASSUME NEW v \in Workers PROVE JobInv(v)'
    <2>1. CASE v = w
      BY <2>1
    <2>2. CASE v # w
      BY <2>2, OthersKeepJobInv DEF OnlyMoves, Inv
    <2>3. QED
      BY <2>1, <2>2
  <1>2. QED
    BY <1>1 DEF Inv

\* A worker that answers has nothing left to keep.
LEMMA IdleJobInv ==
    ASSUME NEW w \in Workers, pc'[w] = "idle"
    PROVE  JobInv(w)'
  BY DEF JobInv, Placing, Numbered, Announcing, Loaded, Cancelling, Restoring, Adding

\* A step that changes no table, by a worker that answers.
LEMMA AnswerKeepsInv ==
    ASSUME Inv, NEW w \in Workers, NEW r \in Replies, Respond(w, r), UNCHANGED tables
    PROVE  Inv'
  <1>1. /\ TypeOK' /\ pc'[w] = "idle" /\ OnlyMoves(w)
    BY RespondMoves DEF Inv, TypeOK, tables
  <1>2. Grows /\ OrdersHaveFoods'
    BY DEF Inv, TypeOK, Grows, tables, OrdersHaveFoods
  <1>3. FreshNumbers'
    BY <1>1, <1>2, KeepFreshNumbers DEF tables
  <1>4. JobInv(w)'
    BY <1>1, IdleJobInv
  <1>5. QED
    BY <1>1, <1>2, <1>3, <1>4, Assemble

\* A step that changes no table, by a worker that goes on with its handler.
LEMMA MoveKeepsInv ==
    ASSUME Inv, NEW w \in Workers, NEW l \in Labels, NEW j \in Jobs, Goto(w, l, j),
           UNCHANGED tables, JobInv(w)',
           l \in {"deduct", "commit"} => pc[w] = "deduct" /\ j = job[w]
    PROVE  Inv'
  <1>1. TypeOK' /\ pc'[w] = l /\ job'[w] = j /\ OnlyMoves(w)
    BY GotoMoves DEF Inv, TypeOK, tables
  <1>2. Grows /\ OrdersHaveFoods'
    BY DEF Inv, TypeOK, Grows, tables, OrdersHaveFoods
  <1>3. FreshNumbers'
    BY <1>1, <1>2, KeepFreshNumbers DEF tables
  <1>4. QED
    BY <1>1, <1>2, <1>3, Assemble

-----------------------------------------------------------------------------
(* Every action preserves Inv.                                             *)

LEMMA StoreKeepsInv ==
    ASSUME Inv, NEW w \in Workers, NEW u \in Users, NEW f \in Nat,
           NEW n \in Quantities, NEW id, OrderStore(w, u, f, n, id)
    PROVE  Inv'
  <1> DEFINE row == [user_id |-> u, food_id |-> f, food_number |-> n,
                     complete |-> FALSE, send |-> TRUE]
             j == [NoJob EXCEPT !.food = f, !.loaded = foods[f], !.row = row]
  <1>1. UNCHANGED tables
    BY DEF OrderStore
  <1>2. CASE \E r \in {"refused", "banned", "failed"} : Respond(w, r)
    BY <1>1, <1>2, AnswerKeepsInv DEF Replies
  <1>3. CASE f \in DOMAIN foods /\ Goto(w, "insert", j)
    <2>1. foods[f] \in FoodRow /\ row \in OrderRow
      BY <1>3, NumbersAssumption DEF Inv, TypeOK, OrderRow
    <2>2. j \in Jobs
      BY <2>1, Zenon DEF NoJob, NoAttrs, Remaining, Jobs, Attrs
    <2>3. pc'[w] = "insert" /\ job'[w] = j
      BY <1>3, <2>2, GotoMoves DEF Inv, Labels
    <2>4. JobInv(w)'
      BY <1>1, <1>3, <2>1, <2>3 DEF NoJob, tables, JobInv, Placing, Numbered, Announcing,
            Loaded, Cancelling, Restoring, Adding
    <2>5. QED
      BY <1>1, <1>3, <2>2, <2>4, MoveKeepsInv DEF Labels
  <1>4. QED
    BY <1>2, <1>3 DEF OrderStore, Valid

LEMMA InsertKeepsInv ==
    ASSUME Inv, NEW w \in Workers, OrderInsert(w)
    PROVE  Inv'
  <1> DEFINE j == [job[w] EXCEPT !.order = nextOrder, !.attrs = Deduction(job[w])]
  <1>1. /\ pc[w] = "insert" /\ nextOrder' = nextOrder + 1 /\ Goto(w, "deduct", j)
        /\ foods' = foods /\ orders' = orders /\ nextFood' = nextFood /\ sent' = sent
    BY DEF OrderInsert, Deduction
  <1>2. Placing(w) /\ job[w] \in Jobs /\ nextOrder \in Nat
    BY DEF Inv, JobInv, TypeOK
  <1>3. j \in Jobs
    <2>1. job[w].loaded.remaining \in Int /\ job[w].row.food_number \in Int
      BY <1>1, <1>2 DEF Placing, FoodRow, OrderRow
    <2>2. Deduction(job[w]) \in Attrs
      BY <2>1 DEF Deduction, Remaining, Attrs
    <2>3. QED
      BY <1>2, <2>2, Zenon DEF Jobs
  <1>4. TypeOK' /\ pc'[w] = "deduct" /\ job'[w] = j /\ OnlyMoves(w)
    BY <1>1, <1>2, <1>3, GotoMoves DEF Inv, TypeOK, Labels
  <1>5. Grows /\ OrdersHaveFoods'
    BY <1>1, <1>2 DEF Grows, Inv, OrdersHaveFoods
  <1>6. JobInv(w)'
    BY <1>1, <1>2, <1>4 DEF JobInv, Placing, Numbered, Announcing, Loaded, Cancelling,
          Restoring, Adding, Deduction, Jobs
  <1>7. FreshNumbers'
    <2>1. \A o \in DOMAIN orders' : o < nextOrder'
      BY <1>1, <1>2 DEF Inv, FreshNumbers, TypeOK
    <2>2. job'[w].order = nextOrder
      BY <1>2, <1>4 DEF Jobs
    <2>3. \A v \in Workers \ {w} : pc[v] \in {"deduct", "commit"} =>
              job[v].order # nextOrder /\ job[v].order \notin DOMAIN orders
      BY <1>2 DEF Inv, JobInv, Numbered, FreshNumbers
    <2>4. nextOrder \notin DOMAIN orders
      BY <1>2 DEF Inv, FreshNumbers
    <2>5. \A v \in Workers \ {w} : pc'[v] = pc[v] /\ job'[v].order = job[v].order
      BY <1>4 DEF OnlyMoves
    <2>6. \A v \in Workers : pc'[v] \in {"deduct", "commit"} =>
              job'[v].order \notin DOMAIN orders'
      BY <1>1, <2>2, <2>3, <2>4, <2>5
    <2>7. QED
      BY <2>1, <2>2, <2>3, <2>5, <2>6 DEF Inv, FreshNumbers
  <1>8. QED
    BY <1>4, <1>5, <1>6, <1>7, Assemble

LEMMA DeductKeepsInv ==
    ASSUME Inv, NEW w \in Workers, OrderDeduct(w)
    PROVE  Inv'
  <1>1. pc[w] = "deduct" /\ Goto(w, "commit", job[w]) /\ UNCHANGED tables
    BY DEF OrderDeduct
  <1>2. job[w] \in Jobs /\ JobInv(w)
    BY DEF Inv, TypeOK
  <1>3. pc'[w] = "commit" /\ job'[w] = job[w]
    BY <1>1, <1>2, GotoMoves DEF Inv, Labels
  <1>4. JobInv(w)'
    BY <1>1, <1>2, <1>3 DEF tables, JobInv, Placing, Numbered, Announcing, Loaded,
          Cancelling, Restoring, Adding, Deduction
  <1>5. QED
    BY <1>1, <1>2, <1>4, MoveKeepsInv DEF Labels

LEMMA CommitKeepsInv ==
    ASSUME Inv, NEW w \in Workers, OrderCommit(w)
    PROVE  Inv'
  <1> DEFINE j == job[w]
             food == SaveFood(foods[j.food], j.loaded, j.attrs)
  <1>1. /\ pc[w] = "commit" /\ Goto(w, "event", j)
        /\ orders' = Put(orders, j.order, j.row) /\ foods' = Put(foods, j.food, food)
        /\ nextFood' = nextFood /\ nextOrder' = nextOrder /\ sent' = sent
    BY DEF OrderCommit
  <1>2. j \in Jobs /\ Placing(w) /\ Numbered(w)
    BY DEF Inv, TypeOK, JobInv
  <1>3. /\ j.food \in DOMAIN foods /\ j.food \in Nat /\ foods[j.food] \in FoodRow
        /\ j.loaded \in FoodRow /\ j.attrs \in Attrs
        /\ j.order \in Nat /\ j.row \in OrderRow /\ j.row.food_id = j.food
        /\ j.order \notin DOMAIN orders /\ j.order < nextOrder
    BY <1>1, <1>2 DEF Inv, TypeOK, Placing, Numbered, Jobs, FreshNumbers
  <1>4. food \in FoodRow
    BY <1>3, SaveFoodType
  <1>5. /\ DOMAIN foods' = DOMAIN foods /\ DOMAIN foods' \subseteq Nat
        /\ foods' \in [DOMAIN foods' -> FoodRow]
    BY <1>1, <1>3, <1>4 DEF Inv, TypeOK, Put
  <1>6. /\ DOMAIN orders' = DOMAIN orders \cup {j.order} /\ DOMAIN orders' \subseteq Nat
        /\ orders' \in [DOMAIN orders' -> OrderRow] /\ orders'[j.order] = j.row
        /\ \A o \in DOMAIN orders : orders'[o] = orders[o]
    BY <1>1, <1>3 DEF Inv, TypeOK, Put
  <1>7. TypeOK' /\ pc'[w] = "event" /\ job'[w] = j /\ OnlyMoves(w)
    BY <1>1, <1>2, <1>5, <1>6, GotoMoves DEF Inv, TypeOK, Labels
  <1>8. Grows /\ OrdersHaveFoods'
    BY <1>1, <1>3, <1>5, <1>6 DEF Grows, Inv, TypeOK, OrdersHaveFoods
  <1>9. JobInv(w)'
    BY <1>3, <1>5, <1>6, <1>7 DEF JobInv, Placing, Numbered, Announcing, Loaded, Cancelling,
          Restoring, Adding
  <1>10. FreshNumbers'
    <2>1. \A v \in Workers \ {w} : pc[v] \in {"deduct", "commit"} => job[v].order # j.order
      BY <1>1 DEF Inv, FreshNumbers
    <2>2. QED
      BY <1>1, <1>3, <1>6, <1>7, <2>1 DEF Inv, FreshNumbers, OnlyMoves
  <1>11. QED
    BY <1>7, <1>8, <1>9, <1>10, Assemble

LEMMA EventKeepsInv ==
    ASSUME Inv, NEW w \in Workers, OrderEvent(w)
    PROVE  Inv'
  <1> DEFINE m == [event |-> "order-event", id |-> job[w].order,
                   restaurant |-> foods[job[w].food].restaurant_id]
  <1>1. /\ pc[w] = "event" /\ Respond(w, "ok") /\ sent' = sent \cup {m}
        /\ foods' = foods /\ orders' = orders
        /\ nextFood' = nextFood /\ nextOrder' = nextOrder
    BY DEF OrderEvent
  <1>2. job[w].order \in Nat /\ foods[job[w].food] \in FoodRow
    BY <1>1 DEF Inv, TypeOK, JobInv, Announcing
  <1>3. m \in Messages
    BY <1>2 DEF Messages, FoodRow
  <1>4. TypeOK' /\ pc'[w] = "idle" /\ OnlyMoves(w)
    BY <1>1, <1>3, RespondMoves DEF Inv, TypeOK, Replies
  <1>5. Grows /\ OrdersHaveFoods'
    BY <1>1 DEF Grows, Inv, TypeOK, OrdersHaveFoods
  <1>6. QED
    BY <1>1, <1>4, <1>5, KeepFreshNumbers, IdleJobInv, Assemble

LEMMA CancelKeepsInv ==
    ASSUME Inv, NEW w \in Workers, NEW o \in Nat, OrderCancel(w, o)
    PROVE  Inv'
  <1> DEFINE j == [NoJob EXCEPT !.order = o, !.row = orders[o], !.food = orders[o].food_id]
  <1>1. UNCHANGED tables
    BY DEF OrderCancel
  <1>2. CASE Respond(w, "refused")
    BY <1>1, <1>2, AnswerKeepsInv DEF Replies
  <1>3. CASE o \in DOMAIN orders /\ Goto(w, "unsend", j)
    <2>1. orders[o] \in OrderRow /\ orders[o].food_id \in Nat
      BY <1>3 DEF Inv, TypeOK, OrderRow
    <2>2. j \in Jobs
      BY <2>1, Zenon DEF NoJob, NoAttrs, Remaining, Jobs, Attrs
    <2>3. pc'[w] = "unsend" /\ job'[w] = j
      BY <1>3, <2>2, GotoMoves DEF Inv, Labels
    <2>4. JobInv(w)'
      BY <1>1, <1>3, <2>1, <2>3 DEF NoJob, tables, JobInv, Placing, Numbered, Announcing,
            Loaded, Cancelling, Restoring, Adding
    <2>5. QED
      BY <1>1, <1>3, <2>2, <2>4, MoveKeepsInv DEF Labels
  <1>4. QED
    BY <1>2, <1>3, Zenon DEF OrderCancel

\* What an update of send or complete does to the table of orders.
LEMMA FlagKeepsOrders ==
    ASSUME Inv, NEW o \in DOMAIN orders, NEW row \in OrderRow,
           row.food_id = orders[o].food_id, row.food_number = orders[o].food_number,
           orders' = Put(orders, o, row), foods' = foods, nextFood' = nextFood,
           nextOrder' = nextOrder, sent' = sent
    PROVE  /\ DOMAIN orders' = DOMAIN orders /\ orders' \in [DOMAIN orders' -> OrderRow]
           /\ Grows /\ OrdersHaveFoods'
  <1>1. DOMAIN orders' = DOMAIN orders /\ orders' \in [DOMAIN orders' -> OrderRow]
    BY DEF Inv, TypeOK, Put
  <1>2. \A k \in DOMAIN orders : /\ orders'[k].food_id = orders[k].food_id
                                 /\ orders'[k].food_number = orders[k].food_number
    BY DEF Put
  <1>3. QED
    BY <1>1, <1>2 DEF Grows, Inv, TypeOK, OrdersHaveFoods

LEMMA UnsendKeepsInv ==
    ASSUME Inv, NEW w \in Workers, OrderUnsend(w)
    PROVE  Inv'
  <1> DEFINE o == job[w].order
             row == [orders[o] EXCEPT !.send = Saved(@, job[w].row.send, FALSE)]
  <1>1. /\ pc[w] = "unsend" /\ Goto(w, "reload", job[w]) /\ orders' = Put(orders, o, row)
        /\ foods' = foods /\ nextFood' = nextFood /\ nextOrder' = nextOrder /\ sent' = sent
    BY DEF OrderUnsend
  <1>2. job[w] \in Jobs /\ o \in DOMAIN orders /\ JobInv(w)
    BY <1>1 DEF Inv, TypeOK, JobInv, Loaded
  <1>3. orders[o] \in OrderRow
    BY <1>2 DEF Inv, TypeOK
  <1>4. /\ row \in OrderRow /\ row.food_id = orders[o].food_id
        /\ row.food_number = orders[o].food_number
    BY <1>3, Zenon DEF OrderRow, Saved
  <1>5. /\ DOMAIN orders' = DOMAIN orders /\ orders' \in [DOMAIN orders' -> OrderRow]
        /\ Grows /\ OrdersHaveFoods'
    <2> HIDE DEF row, o
    <2> QED
      BY <1>1, <1>2, <1>4, FlagKeepsOrders
  <1>6. TypeOK' /\ pc'[w] = "reload" /\ job'[w] = job[w] /\ OnlyMoves(w)
    BY <1>1, <1>2, <1>5, GotoMoves, Zenon DEF Inv, TypeOK, Labels
  <1>7. JobInv(w)'
    BY <1>1, <1>2, <1>5, <1>6, Zenon DEF Grows, JobInv, Placing, Numbered, Announcing, Loaded,
          Cancelling, Restoring, Adding
  <1>8. QED
    BY <1>5, <1>6, <1>7, KeepFreshNumbers, Assemble

LEMMA ReloadKeepsInv ==
    ASSUME Inv, NEW w \in Workers, OrderReload(w)
    PROVE  Inv'
  <1> DEFINE food == foods[job[w].food]
             j == [job[w] EXCEPT !.loaded = food,
                      !.attrs = Remaining(food.remaining + job[w].row.food_number)]
  <1>1. pc[w] = "reload" /\ Goto(w, "restore", j) /\ UNCHANGED tables
    BY DEF OrderReload
  <1>2. job[w] \in Jobs /\ JobInv(w) /\ job[w].food \in DOMAIN foods /\ job[w].row \in OrderRow
    BY <1>1 DEF Inv, TypeOK, JobInv, Loaded, Cancelling, OrdersHaveFoods
  <1>3. food \in FoodRow /\ food.remaining \in Int /\ job[w].row.food_number \in Int
    BY <1>2 DEF Inv, TypeOK, FoodRow, OrderRow
  <1>4. j \in Jobs
    <2>1. Remaining(food.remaining + job[w].row.food_number) \in Attrs
      BY <1>3 DEF Remaining, Attrs
    <2>2. QED
      BY <1>2, <1>3, <2>1, Zenon DEF Jobs
  <1>5. pc'[w] = "restore" /\ job'[w] = j
    BY <1>1, <1>4, GotoMoves DEF Inv, Labels
  <1>6. /\ job'[w].order = job[w].order /\ job'[w].row = job[w].row
        /\ job'[w].food = job[w].food /\ job'[w].loaded = food
        /\ job'[w].attrs = Remaining(food.remaining + job[w].row.food_number)
    BY <1>2, <1>5 DEF Jobs
  <1>7. JobInv(w)'
    BY <1>1, <1>2, <1>3, <1>5, <1>6 DEF tables, JobInv, Placing, Numbered, Announcing, Loaded,
          Cancelling, Restoring, Restoration, Adding
  <1>8. QED
    BY <1>1, <1>4, <1>7, MoveKeepsInv DEF Labels

\* What an update of an existing food does to the table of foods.
LEMMA SaveKeepsFoods ==
    ASSUME Inv, NEW f \in DOMAIN foods, NEW l \in FoodRow, NEW a \in Attrs,
           foods' = Put(foods, f, SaveFood(foods[f], l, a)), orders' = orders,
           nextOrder' = nextOrder
    PROVE  /\ DOMAIN foods' = DOMAIN foods /\ foods' \in [DOMAIN foods' -> FoodRow]
           /\ Grows /\ OrdersHaveFoods'
  <1>1. SaveFood(foods[f], l, a) \in FoodRow
    BY SaveFoodType DEF Inv, TypeOK
  <1>2. DOMAIN foods' = DOMAIN foods /\ foods' \in [DOMAIN foods' -> FoodRow]
    BY <1>1 DEF Inv, TypeOK, Put
  <1>3. QED
    BY <1>2 DEF Grows, Inv, TypeOK, OrdersHaveFoods

LEMMA RestoreKeepsInv ==
    ASSUME Inv, NEW w \in Workers, OrderRestore(w)
    PROVE  Inv'
  <1> DEFINE j == job[w]
  <1>1. /\ pc[w] = "restore" /\ Respond(w, "ok")
        /\ foods' = Put(foods, j.food, SaveFood(foods[j.food], j.loaded, j.attrs))
        /\ orders' = orders /\ nextFood' = nextFood /\ nextOrder' = nextOrder /\ sent' = sent
    BY DEF OrderRestore
  <1>2. j.food \in DOMAIN foods /\ j.loaded \in FoodRow /\ j.attrs \in Attrs
    BY <1>1 DEF Inv, TypeOK, Jobs, JobInv, Loaded, Cancelling, Restoring, OrdersHaveFoods
  <1>3. /\ DOMAIN foods' = DOMAIN foods /\ foods' \in [DOMAIN foods' -> FoodRow]
        /\ Grows /\ OrdersHaveFoods'
    BY <1>1, <1>2, SaveKeepsFoods
  <1>4. TypeOK' /\ pc'[w] = "idle" /\ OnlyMoves(w)
    BY <1>1, <1>3, RespondMoves DEF Inv, TypeOK, Replies
  <1>5. QED
    BY <1>1, <1>3, <1>4, KeepFreshNumbers, IdleJobInv, Assemble

LEMMA CompleteKeepsInv ==
    ASSUME Inv, NEW w \in Workers, NEW o \in Nat, OrderComplete(w, o)
    PROVE  Inv'
  <1> DEFINE j == [NoJob EXCEPT !.order = o, !.row = orders[o]]
  <1>1. UNCHANGED tables
    BY DEF OrderComplete
  <1>2. CASE Respond(w, "refused")
    BY <1>1, <1>2, AnswerKeepsInv DEF Replies
  <1>3. CASE o \in DOMAIN orders /\ Goto(w, "finish", j)
    <2>1. orders[o] \in OrderRow
      BY <1>3 DEF Inv, TypeOK
    <2>2. j \in Jobs
      BY <2>1, Zenon DEF NoJob, NoAttrs, Remaining, Jobs, Attrs
    <2>3. pc'[w] = "finish" /\ job'[w] = j
      BY <1>3, <2>2, GotoMoves DEF Inv, Labels
    <2>4. JobInv(w)'
      BY <1>1, <1>3, <2>1, <2>3 DEF NoJob, tables, JobInv, Placing, Numbered, Announcing,
            Loaded, Cancelling, Restoring, Adding
    <2>5. QED
      BY <1>1, <1>3, <2>2, <2>4, MoveKeepsInv DEF Labels
  <1>4. QED
    BY <1>2, <1>3, Zenon DEF OrderComplete

LEMMA FinishKeepsInv ==
    ASSUME Inv, NEW w \in Workers, OrderFinish(w)
    PROVE  Inv'
  <1> DEFINE o == job[w].order
             row == [orders[o] EXCEPT !.complete = Saved(@, job[w].row.complete, TRUE)]
  <1>1. /\ pc[w] = "finish" /\ Respond(w, "ok") /\ orders' = Put(orders, o, row)
        /\ foods' = foods /\ nextFood' = nextFood /\ nextOrder' = nextOrder /\ sent' = sent
    BY DEF OrderFinish
  <1>2. o \in DOMAIN orders /\ orders[o] \in OrderRow
    BY <1>1 DEF Inv, TypeOK, JobInv, Loaded
  <1>3. /\ row \in OrderRow /\ row.food_id = orders[o].food_id
        /\ row.food_number = orders[o].food_number
    BY <1>2, Zenon DEF OrderRow, Saved
  <1>4. /\ DOMAIN orders' = DOMAIN orders /\ orders' \in [DOMAIN orders' -> OrderRow]
        /\ Grows /\ OrdersHaveFoods'
    <2> HIDE DEF row, o
    <2> QED
      BY <1>1, <1>2, <1>3, FlagKeepsOrders
  <1>5. TypeOK' /\ pc'[w] = "idle" /\ OnlyMoves(w)
    BY <1>1, <1>4, RespondMoves, Zenon DEF Inv, TypeOK, Replies
  <1>6. QED
    BY <1>4, <1>5, KeepFreshNumbers, IdleJobInv, Assemble

LEMMA FoodStoreKeepsInv ==
    ASSUME Inv, NEW w \in Workers, NEW name \in Names, NEW r \in Restaurants,
           NEW stock \in Stocks, FoodStore(w, name, r, stock)
    PROVE  Inv'
  <1> DEFINE row == [name |-> name, restaurant_id |-> r, remaining |-> stock]
             j == [NoJob EXCEPT !.loaded = row]
  <1>1. UNCHANGED tables
    BY DEF FoodStore
  <1>2. CASE Respond(w, "refused")
    BY <1>1, <1>2, AnswerKeepsInv DEF Replies
  <1>3. CASE Goto(w, "create", j)
    <2>1. row \in FoodRow
      BY NumbersAssumption DEF FoodRow
    <2>2. j \in Jobs
      BY <2>1 DEF NoJob, NoAttrs, Remaining, Jobs, Attrs
    <2>3. pc'[w] = "create" /\ job'[w] = j
      BY <1>3, <2>2, GotoMoves DEF Inv, Labels
    <2>4. JobInv(w)'
      BY <2>1, <2>3 DEF NoJob, JobInv, Placing, Numbered, Announcing, Loaded, Cancelling,
            Restoring, Adding
    <2>5. QED
      BY <1>1, <1>3, <2>2, <2>4, MoveKeepsInv DEF Labels
  <1>4. QED
    BY <1>2, <1>3 DEF FoodStore

LEMMA FoodInsertKeepsInv ==
    ASSUME Inv, NEW w \in Workers, FoodInsert(w)
    PROVE  Inv'
  <1> DEFINE j == [job[w] EXCEPT !.food = nextFood]
  <1>1. /\ pc[w] = "create" /\ nextFood' = nextFood + 1 /\ Goto(w, "notify", j)
        /\ foods' = foods /\ orders' = orders /\ nextOrder' = nextOrder /\ sent' = sent
    BY DEF FoodInsert
  <1>2. job[w] \in Jobs /\ nextFood \in Nat /\ job[w].loaded \in FoodRow
    BY <1>1 DEF Inv, TypeOK, JobInv, Adding
  <1>3. j \in Jobs
    BY <1>2 DEF Jobs
  <1>4. TypeOK' /\ pc'[w] = "notify" /\ job'[w] = j /\ OnlyMoves(w)
    BY <1>1, <1>2, <1>3, GotoMoves DEF Inv, TypeOK, Labels
  <1>5. Grows /\ OrdersHaveFoods'
    BY <1>1 DEF Grows, Inv, TypeOK, OrdersHaveFoods
  <1>6. JobInv(w)'
    BY <1>2, <1>4 DEF JobInv, Placing, Numbered, Announcing, Loaded, Cancelling, Restoring,
          Adding, Jobs
  <1>7. QED
    BY <1>1, <1>4, <1>5, <1>6, KeepFreshNumbers, Assemble

LEMMA NotifyKeepsInv ==
    ASSUME Inv, NEW w \in Workers, FoodNotify(w)
    PROVE  Inv'
  <1> DEFINE j == job[w]
             m == [event |-> "food-event", id |-> j.food,
                   restaurant |-> Filled(j.loaded, j.attrs).restaurant_id]
  <1>1. /\ pc[w] = "notify" /\ Goto(w, "save", j) /\ sent' = sent \cup {m}
        /\ foods' = foods /\ orders' = orders
        /\ nextFood' = nextFood /\ nextOrder' = nextOrder
    BY DEF FoodNotify
  <1>2. j \in Jobs /\ j.loaded \in FoodRow /\ j.food \in Nat /\ j.attrs \in Attrs
    BY <1>1 DEF Inv, TypeOK, Jobs, JobInv, Adding
  <1>3. m \in Messages
    BY <1>2, SaveFoodType DEF Messages, Filled, FoodRow
  <1>4. TypeOK' /\ pc'[w] = "save" /\ job'[w] = j /\ OnlyMoves(w)
    BY <1>1, <1>2, <1>3, GotoMoves DEF Inv, TypeOK, Labels
  <1>5. Grows /\ OrdersHaveFoods'
    BY <1>1 DEF Grows, Inv, TypeOK, OrdersHaveFoods
  <1>6. JobInv(w)'
    BY <1>2, <1>4 DEF JobInv, Placing, Numbered, Announcing, Loaded, Cancelling, Restoring,
          Adding
  <1>7. QED
    BY <1>1, <1>4, <1>5, <1>6, KeepFreshNumbers, Assemble

LEMMA FoodCommitKeepsInv ==
    ASSUME Inv, NEW w \in Workers, FoodCommit(w)
    PROVE  Inv'
  <1> DEFINE j == job[w]
             row == IF j.food \in DOMAIN foods
                      THEN SaveFood(foods[j.food], j.loaded, j.attrs) ELSE j.loaded
  <1>1. /\ pc[w] = "save" /\ Respond(w, "ok") /\ foods' = Put(foods, j.food, row)
        /\ orders' = orders /\ nextFood' = nextFood /\ nextOrder' = nextOrder /\ sent' = sent
    BY DEF FoodCommit
  <1>2. j.loaded \in FoodRow /\ j.food \in Nat /\ j.attrs \in Attrs
    BY <1>1 DEF Inv, TypeOK, Jobs, JobInv, Adding
  <1>3. row \in FoodRow
    BY <1>2, SaveFoodType DEF Inv, TypeOK
  <1>4. /\ DOMAIN foods' = DOMAIN foods \cup {j.food}
        /\ foods' \in [DOMAIN foods' -> FoodRow]
    <2> HIDE DEF row, j
    <2> QED
      BY <1>1, <1>2, <1>3 DEF Inv, TypeOK, Put
  <1>5. DOMAIN foods' \subseteq Nat
    BY <1>2, <1>4 DEF Inv, TypeOK
  <1>6. TypeOK' /\ pc'[w] = "idle" /\ OnlyMoves(w)
    BY <1>1, <1>4, <1>5, RespondMoves DEF Inv, TypeOK, Replies
  <1>7. Grows /\ OrdersHaveFoods'
    BY <1>1, <1>4 DEF Grows, Inv, TypeOK, OrdersHaveFoods
  <1>8. QED
    BY <1>1, <1>6, <1>7, KeepFreshNumbers, IdleJobInv, Assemble

LEMMA FoodUpdateKeepsInv ==
    ASSUME Inv, NEW w \in Workers, NEW f \in Nat, NEW a \in Updates, FoodUpdate(w, f, a)
    PROVE  Inv'
  <1> DEFINE j == [NoJob EXCEPT !.food = f, !.loaded = foods[f], !.attrs = a]
  <1>1. UNCHANGED tables
    BY DEF FoodUpdate
  <1>2. CASE Respond(w, "refused")
    BY <1>1, <1>2, AnswerKeepsInv DEF Replies
  <1>3. CASE f \in DOMAIN foods /\ Goto(w, "validate", j)
    <2>1. foods[f] \in FoodRow /\ a \in Attrs
      BY <1>3, UpdatesAssumption DEF Inv, TypeOK, Attrs
    <2>2. j \in Jobs
      BY <2>1, Zenon DEF NoJob, Jobs
    <2>3. pc'[w] = "validate" /\ job'[w] = j
      BY <1>3, <2>2, GotoMoves DEF Inv, Labels
    <2>4. JobInv(w)'
      BY <1>1, <1>3, <2>1, <2>3 DEF NoJob, tables, JobInv, Placing, Numbered, Announcing,
            Loaded, Cancelling, Restoring, Adding
    <2>5. QED
      BY <1>1, <1>3, <2>2, <2>4, MoveKeepsInv DEF Labels
  <1>4. QED
    BY <1>2, <1>3, Zenon DEF FoodUpdate

LEMMA ValidateKeepsInv ==
    ASSUME Inv, NEW w \in Workers, FoodValidate(w)
    PROVE  Inv'
  <1>1. pc[w] = "validate" /\ UNCHANGED tables
    BY DEF FoodValidate
  <1>2. job[w] \in Jobs /\ JobInv(w)
    BY DEF Inv, TypeOK
  <1>3. CASE Respond(w, "refused")
    BY <1>1, <1>3, AnswerKeepsInv DEF Replies
  <1>4. CASE Goto(w, "patch", job[w])
    <2>1. pc'[w] = "patch" /\ job'[w] = job[w]
      BY <1>2, <1>4, GotoMoves DEF Inv, Labels
    <2>2. JobInv(w)'
      BY <1>1, <1>2, <2>1 DEF tables, JobInv, Placing, Numbered, Announcing, Loaded,
            Cancelling, Restoring, Adding
    <2>3. QED
      BY <1>1, <1>2, <1>4, <2>2, MoveKeepsInv DEF Labels
  <1>5. QED
    BY <1>3, <1>4 DEF FoodValidate

LEMMA PatchKeepsInv ==
    ASSUME Inv, NEW w \in Workers, FoodPatch(w)
    PROVE  Inv'
  <1>1. pc[w] = "patch" /\ UNCHANGED tables
    BY DEF FoodPatch
  <1>2. PICK l \in {"notify", "save"} : Goto(w, l, job[w])
    BY DEF FoodPatch
  <1>3. job[w] \in Jobs /\ JobInv(w) /\ l \in Labels
    BY DEF Inv, TypeOK, Labels
  <1>4. pc'[w] = l /\ job'[w] = job[w]
    BY <1>2, <1>3, GotoMoves DEF Inv
  <1>5. job[w].food \in Nat
    BY <1>1, <1>3 DEF Inv, TypeOK, JobInv, Adding
  <1>6. JobInv(w)'
    BY <1>1, <1>3, <1>4, <1>5 DEF JobInv, Placing, Numbered, Announcing, Loaded,
          Cancelling, Restoring, Adding
  <1>7. QED
    BY <1>1, <1>2, <1>3, <1>6, MoveKeepsInv

-----------------------------------------------------------------------------
(* The invariant, and the theorems that follow from it.                    *)

LEMMA InitInv == Init => Inv
  <1> SUFFICES ASSUME Init PROVE Inv
    OBVIOUS
  <1>1. NoJob \in Jobs
    BY DEF NoJob, Jobs, NoAttrs, Remaining, Attrs
  <1>2. TypeOK
    BY <1>1 DEF Init, TypeOK, NoRows, Labels, Replies
  <1>3. \A w \in Workers : JobInv(w)
    BY DEF Init, JobInv, Placing, Numbered, Announcing, Loaded, Cancelling, Restoring, Adding
  <1>4. OrdersHaveFoods /\ FreshNumbers
    BY DEF Init, OrdersHaveFoods, FreshNumbers, NoRows
  <1>5. QED
    BY <1>2, <1>3, <1>4 DEF Inv

LEMMA StutterKeepsInv == Inv /\ UNCHANGED vars => Inv'
  <1> SUFFICES ASSUME Inv, UNCHANGED vars PROVE Inv'
    OBVIOUS
  <1>1. TypeOK' /\ OrdersHaveFoods' /\ FreshNumbers'
    BY DEF Inv, vars, TypeOK, OrdersHaveFoods, FreshNumbers
  <1>2. \A w \in Workers : JobInv(w)'
    BY OthersKeepJobInv DEF Inv, TypeOK, vars, Grows
  <1>3. QED
    BY <1>1, <1>2 DEF Inv

LEMMA NextKeepsInv == Inv /\ Next => Inv'
  <1> SUFFICES ASSUME Inv, NEW w \in Workers, Arrive(w) \/ Advance(w) \/ Fail(w)
               PROVE  Inv'
    BY DEF Next
  <1>1. CASE Arrive(w)
    <2>1. 1..MaxFoods \subseteq Nat /\ 1..MaxOrders \subseteq Nat
      BY BoundsAssumption
    <2>2. QED
      BY <1>1, <2>1, StoreKeepsInv, CancelKeepsInv, CompleteKeepsInv, FoodStoreKeepsInv,
         FoodUpdateKeepsInv DEF Arrive
  <1>2. CASE Advance(w)
    BY <1>2, InsertKeepsInv, DeductKeepsInv, CommitKeepsInv, EventKeepsInv, UnsendKeepsInv,
       ReloadKeepsInv, RestoreKeepsInv, FinishKeepsInv, FoodInsertKeepsInv, NotifyKeepsInv,
       FoodCommitKeepsInv, ValidateKeepsInv, PatchKeepsInv DEF Advance
  <1>3. CASE Fail(w)
    BY <1>3, AnswerKeepsInv DEF Fail, Replies
  <1>4. QED
    BY <1>1, <1>2, <1>3

\* In every behaviour, for any number of workers: types, what each handler's
\* variables hold, orders that have their food, order numbers used once.
THEOREM Invariance == Spec => []Inv
  <1>1. Inv /\ [Next]_vars => Inv'
    BY NextKeepsInv, StutterKeepsInv
  <1>2. QED
    BY <1>1, InitInv, PTL DEF Spec

\* The handlers keep every row, message and variable well typed.
THEOREM Typing == Spec => []TypeOK
  <1>1. Inv => TypeOK
    BY DEF Inv
  <1>2. QED
    BY <1>1, Invariance, PTL

\* Arriving requests and failures write nothing.
LEMMA ArriveAndFailWriteNothing ==
    ASSUME NEW w \in Workers, Arrive(w) \/ Fail(w)
    PROVE  UNCHANGED tables
  <1>1. CASE Fail(w)
    BY <1>1 DEF Fail
  <1>2. CASE Arrive(w)
    <2>1. ASSUME NEW u, NEW f, NEW n, NEW id, OrderStore(w, u, f, n, id) PROVE UNCHANGED tables
      BY <2>1 DEF OrderStore
    <2>2. ASSUME NEW o, OrderCancel(w, o) \/ OrderComplete(w, o) PROVE UNCHANGED tables
      BY <2>2 DEF OrderCancel, OrderComplete
    <2>3. ASSUME NEW n, NEW r, NEW s, FoodStore(w, n, r, s) PROVE UNCHANGED tables
      BY <2>3 DEF FoodStore
    <2>4. ASSUME NEW f, NEW a, FoodUpdate(w, f, a) PROVE UNCHANGED tables
      BY <2>4 DEF FoodUpdate
    <2>5. QED
      BY <1>2, <2>1, <2>2, <2>3, <2>4 DEF Arrive
  <1>3. QED
    BY <1>1, <1>2

\* The steps that write orders, and those that broadcast.
LEMMA Writers ==
    ASSUME [Next]_vars
    PROVE  /\ \/ orders' = orders
              \/ \E w \in Workers : OrderCommit(w) \/ OrderUnsend(w) \/ OrderFinish(w)
           /\ \/ sent' = sent
              \/ \E w \in Workers : OrderEvent(w) \/ FoodNotify(w)
  <1>1. CASE UNCHANGED vars
    BY <1>1 DEF vars
  <1>2. ASSUME NEW w \in Workers, Arrive(w) \/ Fail(w) PROVE orders' = orders /\ sent' = sent
    BY <1>2, ArriveAndFailWriteNothing DEF tables
  <1>3. ASSUME NEW w \in Workers, Advance(w)
        PROVE  /\ orders' = orders \/ OrderCommit(w) \/ OrderUnsend(w) \/ OrderFinish(w)
               /\ sent' = sent \/ OrderEvent(w) \/ FoodNotify(w)
    <2>1. CASE OrderInsert(w) \/ FoodInsert(w)
      BY <2>1 DEF OrderInsert, FoodInsert
    <2>2. CASE OrderDeduct(w) \/ OrderReload(w) \/ FoodValidate(w) \/ FoodPatch(w)
      BY <2>2 DEF OrderDeduct, OrderReload, FoodValidate, FoodPatch, tables
    <2>3. CASE OrderRestore(w) \/ FoodCommit(w)
      BY <2>3 DEF OrderRestore, FoodCommit
    <2>4. CASE OrderCommit(w) \/ OrderUnsend(w) \/ OrderFinish(w)
      BY <2>4 DEF OrderCommit, OrderUnsend, OrderFinish
    <2>5. CASE OrderEvent(w) \/ FoodNotify(w)
      BY <2>5, Zenon DEF OrderEvent, FoodNotify
    <2>6. QED
      BY <1>3, <2>1, <2>2, <2>3, <2>4, <2>5 DEF Advance
  <1>4. QED
    BY <1>1, <1>2, <1>3 DEF Next

\* Each action keeps what is in the table of orders.
LEMMA NextKeepsOrders == Inv /\ [Next]_vars => KeepsOrders
  <1> SUFFICES ASSUME Inv, [Next]_vars PROVE KeepsOrders
    OBVIOUS
  <1>1. CASE orders' = orders
    BY <1>1 DEF KeepsOrders
  <1>2. ASSUME NEW w \in Workers, OrderCommit(w) PROVE KeepsOrders
    <2>1. pc[w] = "commit" /\ orders' = Put(orders, job[w].order, job[w].row)
      BY <1>2 DEF OrderCommit
    <2>2. job[w].order \notin DOMAIN orders
      BY <2>1 DEF Inv, FreshNumbers
    <2>3. QED
      BY <2>1, <2>2 DEF KeepsOrders, Put
  <1>3. ASSUME NEW w \in Workers, NEW o \in DOMAIN orders, NEW row \in OrderRow,
               \/ row = [orders[o] EXCEPT !.send = row.send] /\ (row.send => orders[o].send)
               \/ row = [orders[o] EXCEPT !.complete = row.complete]
                  /\ (orders[o].complete => row.complete),
               orders' = Put(orders, o, row)
        PROVE  KeepsOrders
    <2>1. orders[o] \in OrderRow
      BY DEF Inv, TypeOK
    <2>2. /\ row.user_id = orders[o].user_id /\ row.food_id = orders[o].food_id
          /\ row.food_number = orders[o].food_number
          /\ row.send => orders[o].send
          /\ orders[o].complete => row.complete
      BY <1>3, <2>1 DEF OrderRow
    <2>3. QED
      BY <1>3, <2>2 DEF KeepsOrders, Put
  <1>4. ASSUME NEW w \in Workers, OrderUnsend(w) PROVE KeepsOrders
    <2> DEFINE o == job[w].order
               row == [orders[o] EXCEPT !.send = Saved(@, job[w].row.send, FALSE)]
    <2>1. pc[w] = "unsend" /\ orders' = Put(orders, o, row)
      BY <1>4 DEF OrderUnsend
    <2>2. o \in DOMAIN orders /\ orders[o] \in OrderRow
      BY <2>1 DEF Inv, TypeOK, JobInv, Loaded
    <2>3. row \in OrderRow /\ (row.send => orders[o].send)
          /\ row = [orders[o] EXCEPT !.send = row.send]
      BY <2>2, Zenon DEF OrderRow, Saved
    <2> HIDE DEF o, row
    <2>4. QED
      BY <1>3, <2>1, <2>2, <2>3
  <1>5. ASSUME NEW w \in Workers, OrderFinish(w) PROVE KeepsOrders
    <2> DEFINE o == job[w].order
               row == [orders[o] EXCEPT !.complete = Saved(@, job[w].row.complete, TRUE)]
    <2>1. pc[w] = "finish" /\ orders' = Put(orders, o, row)
      BY <1>5 DEF OrderFinish
    <2>2. o \in DOMAIN orders /\ orders[o] \in OrderRow
      BY <2>1 DEF Inv, TypeOK, JobInv, Loaded
    <2>3. row \in OrderRow /\ (orders[o].complete => row.complete)
          /\ row = [orders[o] EXCEPT !.complete = row.complete]
      BY <2>2, Zenon DEF OrderRow, Saved
    <2> HIDE DEF o, row
    <2>4. QED
      BY <1>3, <2>1, <2>2, <2>3
  <1>6. QED
    BY <1>1, <1>2, <1>4, <1>5, Writers

\* Cancellation and completion are final and orders are never lost or
\* reassigned, whatever the handlers of other workers do meanwhile.
THEOREM OrdersKept == Spec => OrderHistory
  <1>1. Inv /\ [Next]_vars => [KeepsOrders]_orders
    BY NextKeepsOrders
  <1>2. QED
    BY <1>1, Invariance, PTL DEF Spec, OrderHistory

\* A NewOrder broadcast is always about a committed order.
THEOREM NoPhantomOrders == Spec => []AnnouncedOrdersExist
  <1>1. Init => AnnouncedOrdersExist
    BY DEF Init, AnnouncedOrdersExist
  <1>2. Inv /\ AnnouncedOrdersExist /\ [Next]_vars => AnnouncedOrdersExist'
    <2> SUFFICES ASSUME Inv, AnnouncedOrdersExist, [Next]_vars PROVE AnnouncedOrdersExist'
      OBVIOUS
    <2>1. DOMAIN orders \subseteq DOMAIN orders'
      BY NextKeepsOrders DEF KeepsOrders
    <2>2. CASE sent' = sent
      BY <2>1, <2>2 DEF AnnouncedOrdersExist
    <2>3. ASSUME NEW w \in Workers, OrderEvent(w) PROVE AnnouncedOrdersExist'
      <3>1. job[w].order \in DOMAIN orders
        BY <2>3 DEF OrderEvent, Inv, JobInv, Announcing
      <3>2. QED
        BY <2>1, <2>3, <3>1 DEF OrderEvent, AnnouncedOrdersExist
    <2>4. ASSUME NEW w \in Workers, FoodNotify(w) PROVE AnnouncedOrdersExist'
      BY <2>1, <2>4 DEF FoodNotify, AnnouncedOrdersExist
    <2>5. QED
      BY <2>2, <2>3, <2>4, Writers
  <1>3. QED
    BY <1>1, <1>2, Invariance, PTL DEF Spec

-----------------------------------------------------------------------------
(* The ledger. *)

\* The ledger has an entry for every food.
LedgerType ==
    /\ DOMAIN ledger = DOMAIN foods
    /\ ledger \in [DOMAIN ledger -> Entries]

LedgerInv == LedgerType /\ Conserved

\* The ledger follows the handlers and hinders none of their steps.
LEMMA LedgerStep == [LedgerNext]_ledgerVars => [Next]_vars
  <1> SUFFICES ASSUME [LedgerNext]_ledgerVars PROVE [Next]_vars
    OBVIOUS
  <1>1. CASE UNCHANGED ledgerVars
    BY <1>1 DEF ledgerVars
  <1>2. ASSUME NEW w \in Workers, LedgerOrderCommit(w) \/ LedgerOrderUnsend(w)
               \/ LedgerOrderRestore(w) \/ LedgerFoodCommit(w) \/ LedgerQuiet(w)
        PROVE  Arrive(w) \/ Advance(w) \/ Fail(w)
    BY <1>2 DEF LedgerOrderCommit, LedgerOrderUnsend, LedgerOrderRestore, LedgerFoodCommit,
          LedgerQuiet, Advance
  <1>3. QED
    BY <1>1, <1>2 DEF LedgerNext, Next

LEMMA LedgerInvariance == LedgerSpec => []Inv
  <1>1. LedgerInit => Inv
    BY InitInv DEF LedgerInit
  <1>2. Inv /\ [LedgerNext]_ledgerVars => Inv'
    BY LedgerStep, NextKeepsInv, StutterKeepsInv
  <1>3. QED
    BY <1>1, <1>2, PTL DEF LedgerSpec

\* An update that is not stale changes remaining by the difference the handler
\* computed, even where save() finds nothing to write.
LEMMA SavedByDifference ==
    ASSUME NEW c \in FoodRow, NEW l \in FoodRow, NEW d \in Int,
           ~(l.remaining + d \notin {None, l.remaining} /\ c.remaining # l.remaining)
    PROVE  SaveFood(c, l, Remaining(l.remaining + d)).remaining = c.remaining + d
  <1>1. l.remaining \in Int /\ c.remaining \in Int /\ l.remaining + d \in Int
    BY DEF FoodRow
  <1>2. l.remaining + d # None
    BY <1>1, NoneAssumption
  <1>3. QED
    BY <1>1, <1>2 DEF SaveFood, Saved, Remaining

\* Entries of the ledger after an amount or a mark is changed.
LEMMA EntryType ==
    ASSUME NEW e \in Entries, NEW n \in Int, NEW b \in BOOLEAN
    PROVE  /\ [e EXCEPT !.live = @ + n, !.clash = b] \in Entries
           /\ [e EXCEPT !.owed = @ - n, !.clash = b] \in Entries
           /\ [e EXCEPT !.live = @ - n, !.owed = @ + n] \in Entries
           /\ [e EXCEPT !.clash = TRUE] \in Entries
  <1>1. e.live + n \in Int /\ e.live - n \in Int /\ e.owed - n \in Int /\ e.owed + n \in Int
    BY DEF Entries
  <1>2. QED
    BY <1>1, Zenon DEF Entries

\* The entry of one food changes with its row; the others stay as they are.
LEMMA EntryKeepsLedger ==
    ASSUME LedgerInv, NEW f, NEW row, NEW e \in Entries,
           foods' = Put(foods, f, row), ledger' = Put(ledger, f, e),
           ~e.clash => row.remaining + e.live + e.owed = e.supply
    PROVE  LedgerInv'
  <1>1. LedgerType'
    BY DEF LedgerInv, LedgerType, Put
  <1>2. ASSUME NEW g \in DOMAIN foods', ~ledger'[g].clash
        PROVE  foods'[g].remaining + ledger'[g].live + ledger'[g].owed = ledger'[g].supply
    <2>1. CASE g = f
      BY <1>2, <2>1 DEF Put
    <2>2. CASE g # f
      BY <1>2, <2>2 DEF Put, LedgerInv, LedgerType, Conserved
    <2>3. QED
      BY <2>1, <2>2
  <1>3. QED
    BY <1>1, <1>2 DEF LedgerInv, Conserved

-----------------------------------------------------------------------------
(* The steps that move units.                                              *)

LEMMA CommitKeepsLedger ==
    ASSUME Inv, LedgerInv, NEW w \in Workers, LedgerOrderCommit(w)
    PROVE  LedgerInv'
  <1> DEFINE j == job[w]
             e == ledger[j.food]
             n == j.row.food_number
             c == foods[j.food]
             row == SaveFood(c, j.loaded, j.attrs)
             d == [e EXCEPT !.live = @ + n, !.clash = @ \/ Stale(j)]
  <1>1. /\ pc[w] = "commit" /\ foods' = Put(foods, j.food, row)
        /\ ledger' = Put(ledger, j.food, d)
    BY DEF LedgerOrderCommit, OrderCommit
  <1>2. /\ j.food \in DOMAIN foods /\ c \in FoodRow /\ j.loaded \in FoodRow /\ n \in Int
        /\ j.attrs = Remaining(j.loaded.remaining - n)
    BY <1>1 DEF Inv, TypeOK, JobInv, Placing, Numbered, OrderRow, Deduction
  <1>3. e \in Entries /\ (~e.clash => c.remaining + e.live + e.owed = e.supply)
    BY <1>2 DEF LedgerInv, LedgerType, Conserved
  <1>4. d \in Entries
    <2>1. (e.clash \/ Stale(j)) \in BOOLEAN
      BY DEF Stale
    <2>2. QED
      BY <1>2, <1>3, <2>1, EntryType, Zenon
  <1>5. ~Stale(j) => row.remaining = c.remaining - n
    <2>1. j.loaded.remaining \in Int /\ c.remaining \in Int
      BY <1>2 DEF FoodRow
    <2>2. /\ -n \in Int /\ j.loaded.remaining - n = j.loaded.remaining + (-n)
          /\ c.remaining - n = c.remaining + (-n)
      BY <1>2, <2>1
    <2>3. j.attrs.remaining = j.loaded.remaining + (-n)
      BY <1>2, <2>2 DEF Remaining
    <2>4. QED
      BY <1>2, <2>2, <2>3, SavedByDifference DEF Stale
  <1>6. ~d.clash => row.remaining + d.live + d.owed = d.supply
    <2>1. d.live = e.live + n /\ d.owed = e.owed /\ d.supply = e.supply
          /\ (~d.clash => ~e.clash /\ ~Stale(j))
      BY <1>3, ZenonT(30) DEF Entries
    <2>2. e.live \in Int /\ e.owed \in Int /\ e.supply \in Int /\ c.remaining \in Int
      BY <1>2, <1>3 DEF Entries, FoodRow
    <2> HIDE DEF d, row
    <2>3. QED
      BY <1>2, <1>3, <1>5, <2>1, <2>2
  <1>7. QED
    <2> HIDE DEF d, row, j
    <2> QED
      BY <1>1, <1>4, <1>6, EntryKeepsLedger

LEMMA RestoreKeepsLedger ==
    ASSUME Inv, LedgerInv, NEW w \in Workers, LedgerOrderRestore(w)
    PROVE  LedgerInv'
  <1> DEFINE j == job[w]
             e == ledger[j.food]
             n == j.row.food_number
             c == foods[j.food]
             row == SaveFood(c, j.loaded, j.attrs)
             d == [e EXCEPT !.owed = @ - n, !.clash = @ \/ Stale(j)]
  <1>1. /\ pc[w] = "restore" /\ foods' = Put(foods, j.food, row)
        /\ ledger' = Put(ledger, j.food, d)
    BY DEF LedgerOrderRestore, OrderRestore
  <1>2. /\ j.food \in DOMAIN foods /\ c \in FoodRow /\ j.loaded \in FoodRow /\ n \in Int
        /\ j.attrs = Remaining(j.loaded.remaining + n)
    BY <1>1 DEF Inv, TypeOK, JobInv, Loaded, Cancelling, Restoring, Restoration, OrderRow,
          OrdersHaveFoods
  <1>3. e \in Entries /\ (~e.clash => c.remaining + e.live + e.owed = e.supply)
    BY <1>2 DEF LedgerInv, LedgerType, Conserved
  <1>4. d \in Entries
    <2>1. (e.clash \/ Stale(j)) \in BOOLEAN
      BY DEF Stale
    <2>2. QED
      BY <1>2, <1>3, <2>1, EntryType, ZenonT(30)
  <1>5. ~Stale(j) => row.remaining = c.remaining + n
    <2>1. j.attrs.remaining = j.loaded.remaining + n
      BY <1>2 DEF Remaining
    <2>2. QED
      BY <1>2, <2>1, SavedByDifference DEF Stale
  <1>6. ~d.clash => row.remaining + d.live + d.owed = d.supply
    <2>1. d.owed = e.owed - n /\ d.live = e.live /\ d.supply = e.supply
          /\ (~d.clash => ~e.clash /\ ~Stale(j))
      BY <1>3, Zenon DEF Entries
    <2>2. e.live \in Int /\ e.owed \in Int /\ e.supply \in Int /\ c.remaining \in Int
      BY <1>2, <1>3 DEF Entries, FoodRow
    <2> HIDE DEF d, row
    <2>3. QED
      BY <1>2, <1>3, <1>5, <2>1, <2>2
  <1>7. QED
    <2> HIDE DEF d, row, j
    <2> QED
      BY <1>1, <1>4, <1>6, EntryKeepsLedger

LEMMA UnsendKeepsLedger ==
    ASSUME Inv, LedgerInv, NEW w \in Workers, LedgerOrderUnsend(w)
    PROVE  LedgerInv'
  <1> DEFINE f == job[w].food
             e == ledger[f]
             n == job[w].row.food_number
             d == IF orders[job[w].order].send
                    THEN [e EXCEPT !.live = @ - n, !.owed = @ + n]
                    ELSE [e EXCEPT !.clash = TRUE]
  <1>1. pc[w] = "unsend" /\ foods' = foods /\ ledger' = Put(ledger, f, d)
    BY DEF LedgerOrderUnsend, OrderUnsend
  <1>2. f \in DOMAIN foods /\ n \in Int /\ foods[f].remaining \in Int
    BY <1>1 DEF Inv, TypeOK, JobInv, Loaded, Cancelling, OrderRow, FoodRow, OrdersHaveFoods
  <1>3. e \in Entries /\ (~e.clash => foods[f].remaining + e.live + e.owed = e.supply)
    BY <1>2 DEF LedgerInv, LedgerType, Conserved
  <1>4. d \in Entries
    BY <1>2, <1>3, EntryType, Zenon
  <1>5. ~d.clash => foods[f].remaining + d.live + d.owed = d.supply
    BY <1>2, <1>3 DEF Entries
  <1>6. foods' = Put(foods, f, foods[f])
    BY <1>1, <1>2, Zenon DEF Put, Inv, TypeOK
  <1>7. QED
    <2> HIDE DEF d, f
    <2> QED
      BY <1>1, <1>4, <1>5, <1>6, EntryKeepsLedger

LEMMA FoodCommitKeepsLedger ==
    ASSUME Inv, LedgerInv, NEW w \in Workers, LedgerFoodCommit(w)
    PROVE  LedgerInv'
  <1> DEFINE j == job[w]
             f == j.food
             row == IF f \in DOMAIN foods
                      THEN SaveFood(foods[f], j.loaded, j.attrs) ELSE j.loaded
             d == IF f \in DOMAIN foods
                    THEN [ledger[f] EXCEPT
                             !.supply = @ + foods'[f].remaining - foods[f].remaining]
                    ELSE [supply |-> j.loaded.remaining, live |-> 0,
                          owed |-> 0, clash |-> FALSE]
  <1>1. /\ pc[w] = "save" /\ foods' = Put(foods, f, row) /\ ledger' = Put(ledger, f, d)
    BY DEF LedgerFoodCommit, FoodCommit
  <1>2. j.loaded \in FoodRow /\ j.attrs \in Attrs /\ f \in Nat
    BY <1>1 DEF Inv, TypeOK, Jobs, JobInv, Adding
  <1>3. row \in FoodRow
    BY <1>2, SaveFoodType DEF Inv, TypeOK
  <1>4. row.remaining \in Int /\ j.loaded.remaining \in Int
    BY <1>2, <1>3 DEF FoodRow
  <1>5. foods'[f] = row
    BY <1>1 DEF Put
  <1>6. d \in Entries /\ (~d.clash => row.remaining + d.live + d.owed = d.supply)
    <2>1. CASE f \in DOMAIN foods
      <3>1. /\ ledger[f] \in Entries /\ foods[f].remaining \in Int
            /\ ~ledger[f].clash =>
                  foods[f].remaining + ledger[f].live + ledger[f].owed = ledger[f].supply
        BY <2>1 DEF LedgerInv, LedgerType, Conserved, Inv, TypeOK, FoodRow
      <3>2. d = [ledger[f] EXCEPT !.supply = @ + row.remaining - foods[f].remaining]
        BY <1>5, <2>1
      <3> HIDE DEF d, row, f
      <3>3. QED
        BY <1>4, <3>1, <3>2 DEF Entries
    <2>2. CASE f \notin DOMAIN foods
      BY <1>4, <2>2 DEF Entries
    <2>3. QED
      BY <2>1, <2>2
  <1>7. QED
    <2> HIDE DEF d, row, f
    <2> QED
      BY <1>1, <1>6, EntryKeepsLedger

LEMMA QuietKeepsLedger ==
    ASSUME LedgerInv, NEW w \in Workers, LedgerQuiet(w)
    PROVE  LedgerInv'
  <1>1. ledger' = ledger
    BY DEF LedgerQuiet, history
  <1>2. foods' = foods
    <2>1. CASE Arrive(w) \/ Fail(w)
      BY <2>1, ArriveAndFailWriteNothing DEF tables
    <2>2. CASE OrderInsert(w) \/ OrderEvent(w) \/ OrderFinish(w) \/ FoodInsert(w)
               \/ FoodNotify(w)
      BY <2>2 DEF OrderInsert, OrderEvent, OrderFinish, FoodInsert, FoodNotify
    <2>3. CASE OrderDeduct(w) \/ OrderReload(w) \/ FoodValidate(w) \/ FoodPatch(w)
      BY <2>3 DEF OrderDeduct, OrderReload, FoodValidate, FoodPatch, tables
    <2>4. QED
      BY <2>1, <2>2, <2>3 DEF LedgerQuiet
  <1>3. QED
    BY <1>1, <1>2 DEF LedgerInv, LedgerType, Conserved

-----------------------------------------------------------------------------

LEMMA AccountInvariance == LedgerSpec => []LedgerInv
  <1>1. LedgerInit => LedgerInv
    BY DEF LedgerInit, Init, LedgerInv, LedgerType, Conserved, NoRows
  <1>2. Inv /\ LedgerInv /\ [LedgerNext]_ledgerVars => LedgerInv'
    <2> SUFFICES ASSUME Inv, LedgerInv, [LedgerNext]_ledgerVars PROVE LedgerInv'
      OBVIOUS
    <2>1. CASE UNCHANGED ledgerVars
      BY <2>1 DEF ledgerVars, vars, history, LedgerInv, LedgerType, Conserved
    <2>2. QED
      BY <2>1, CommitKeepsLedger, UnsendKeepsLedger, RestoreKeepsLedger,
         FoodCommitKeepsLedger, QuietKeepsLedger DEF LedgerNext
  <1>3. QED
    BY <1>1, <1>2, LedgerInvariance, PTL DEF LedgerSpec

\* Units are lost or created only by a handler that overwrites a number it had
\* not seen or cancels an order cancelled meanwhile; no failure of a handler,
\* and no other interleaving of orders, cancellations and updates, does so.
THEOREM Conservation == LedgerSpec => []Conserved
  <1>1. LedgerInv => Conserved
    BY DEF LedgerInv
  <1>2. QED
    BY <1>1, AccountInvariance, PTL

-----------------------------------------------------------------------------
(* remaining never becomes negative when no request carries a negative       *)
(* number.  The handlers overwrite each other's numbers, so this is not a    *)
(* consequence of any accounting: it holds because every number a handler    *)
(* writes is one it computed from a row it loaded and checked itself.        *)

\* No request carries a negative number.
NoNegativeInput ==
    /\ Quantities \subseteq Nat /\ Stocks \subseteq Nat
    /\ \A a \in Updates : a.remaining \in Nat \cup {None}

NonNegativeOrders == \A o \in DOMAIN orders : orders[o].food_number >= 0

\* Every number a handler holds, and will write, is not negative.
NonNegativeJob(w) ==
    /\ pc[w] \in {"insert", "deduct", "commit", "unsend", "reload", "restore"} =>
          job[w].row.food_number >= 0
    /\ pc[w] = "insert" => job[w].row.food_number <= job[w].loaded.remaining
    /\ pc[w] = "create" => job[w].attrs = NoAttrs
    /\ pc[w] \in {"create", "notify", "save"} => job[w].loaded.remaining >= 0
    /\ pc[w] \in {"validate", "patch"} => job[w].loaded.remaining >= 0
    /\ pc[w] \in {"deduct", "commit", "restore", "validate", "patch", "notify", "save"} =>
          job[w].attrs.remaining = None \/ job[w].attrs.remaining >= 0

StockInv ==
    /\ NonNegativeStock /\ NonNegativeOrders
    /\ \A w \in Workers : NonNegativeJob(w)

-----------------------------------------------------------------------------

LEMMA SavedRemaining ==
    ASSUME NEW c \in FoodRow, NEW l \in FoodRow, NEW a \in Attrs,
           c.remaining >= 0, a.remaining = None \/ a.remaining >= 0
    PROVE  SaveFood(c, l, a).remaining >= 0
  BY DEF SaveFood, Saved, FoodRow

\* One worker moves, the tables stay non-negative.
LEMMA AssembleStock ==
    ASSUME StockInv, NEW w \in Workers, OnlyMoves(w), NonNegativeJob(w)',
           NonNegativeStock', NonNegativeOrders'
    PROVE  StockInv'
  <1>1. ASSUME NEW v \in Workers PROVE NonNegativeJob(v)'
    <2>1. CASE v = w
      BY <2>1
    <2>2. CASE v # w
      BY <2>2 DEF StockInv, OnlyMoves, NonNegativeJob
    <2>3. QED
      BY <2>1, <2>2
  <1>2. QED
    BY <1>1 DEF StockInv

LEMMA AnswerKeepsStock ==
    ASSUME Inv, StockInv, NEW w \in Workers, NEW r \in Replies, Respond(w, r),
           NonNegativeStock', NonNegativeOrders'
    PROVE  StockInv'
  <1>1. pc'[w] = "idle" /\ OnlyMoves(w)
    BY RespondMoves DEF Inv
  <1>2. NonNegativeJob(w)'
    BY <1>1 DEF NonNegativeJob
  <1>3. QED
    BY <1>1, <1>2, AssembleStock

\* A handler goes on with the variables it has.
LEMMA StepKeepsStock ==
    ASSUME Inv, StockInv, NEW w \in Workers, NEW l \in Labels, Goto(w, l, job[w]),
           \/ pc[w] = "deduct" /\ l = "commit"
           \/ pc[w] = "commit" /\ l = "event"
           \/ pc[w] = "unsend" /\ l = "reload"
           \/ pc[w] = "validate" /\ l = "patch"
           \/ pc[w] = "patch" /\ l \in {"notify", "save"}
           \/ pc[w] = "notify" /\ l = "save"
    PROVE  OnlyMoves(w) /\ NonNegativeJob(w)'
  <1>1. job[w] \in Jobs
    BY DEF Inv, TypeOK
  <1>2. pc'[w] = l /\ job'[w] = job[w] /\ OnlyMoves(w)
    BY <1>1, GotoMoves DEF Inv
  <1>3. NonNegativeJob(w)
    BY DEF StockInv
  <1>4. QED
    BY <1>2, <1>3 DEF NonNegativeJob

\* A save of a loaded food with the attributes of the handler.
LEMMA SaveKeepsStock ==
    ASSUME Inv, StockInv, NEW w \in Workers, pc[w] \in {"commit", "restore", "save"},
           job[w].food \in DOMAIN foods,
           foods' = Put(foods, job[w].food,
                        SaveFood(foods[job[w].food], job[w].loaded, job[w].attrs))
    PROVE  NonNegativeStock'
  <1> DEFINE row == SaveFood(foods[job[w].food], job[w].loaded, job[w].attrs)
  <1>1. /\ foods[job[w].food] \in FoodRow /\ job[w].loaded \in FoodRow
        /\ job[w].attrs \in Attrs
    BY DEF Inv, TypeOK, Jobs, JobInv, Placing, Restoring, Adding
  <1>2. /\ foods[job[w].food].remaining >= 0
        /\ job[w].attrs.remaining = None \/ job[w].attrs.remaining >= 0
    BY DEF StockInv, NonNegativeStock, NonNegativeJob
  <1>3. row.remaining >= 0
    BY <1>1, <1>2, SavedRemaining
  <1> HIDE DEF row
  <1>4. foods' = Put(foods, job[w].food, row)
    BY DEF row
  <1>5. QED
    BY <1>3, <1>4 DEF StockInv, NonNegativeStock, Put

-----------------------------------------------------------------------------

LEMMA ArriveKeepsStock ==
    ASSUME NoNegativeInput, Inv, StockInv, NEW w \in Workers, Arrive(w)
    PROVE  StockInv'
  <1>1. NonNegativeStock' /\ NonNegativeOrders' /\ foods' = foods /\ orders' = orders
    BY ArriveAndFailWriteNothing DEF tables, StockInv, NonNegativeStock, NonNegativeOrders
  <1>2. CASE \E r \in Replies : Respond(w, r)
    BY <1>1, <1>2, AnswerKeepsStock
  <1>3. ASSUME NEW j, NEW l \in Labels, Goto(w, l, j), Inv'
        PROVE  pc'[w] = l /\ job'[w] = j /\ OnlyMoves(w)
    BY <1>3 DEF Inv, TypeOK, Goto, OnlyMoves
  <1>4. Inv'
    BY NextKeepsInv DEF Next
  <1>5. ASSUME NEW u \in Users, NEW f \in 1..MaxFoods, NEW n \in Quantities, NEW id,
               OrderStore(w, u, f, n, id)
        PROVE  StockInv'
    <2> DEFINE row == [user_id |-> u, food_id |-> f, food_number |-> n,
                       complete |-> FALSE, send |-> TRUE]
               j == [NoJob EXCEPT !.food = f, !.loaded = foods[f], !.row = row]
    <2>1. CASE f \in DOMAIN foods /\ n <= foods[f].remaining /\ Goto(w, "insert", j)
      <3>1. foods[f].remaining \in Int /\ n \in Nat
        BY <2>1 DEF NoNegativeInput, Inv, TypeOK, FoodRow
      <3>2. pc'[w] = "insert" /\ job'[w] = j /\ OnlyMoves(w)
        BY <1>3, <1>4, <2>1 DEF Labels
      <3>3. job'[w].row.food_number = n /\ job'[w].loaded.remaining = foods[f].remaining
        BY <3>2 DEF NoJob
      <3>4. NonNegativeJob(w)'
        BY <2>1, <3>1, <3>2, <3>3 DEF NonNegativeJob
      <3>5. QED
        BY <1>1, <3>2, <3>4, AssembleStock
    <2>2. QED
      BY <1>2, <1>5, <2>1 DEF OrderStore, Replies, Valid
  <1>6. ASSUME NEW o \in 1..MaxOrders, OrderCancel(w, o) PROVE StockInv'
    <2> DEFINE j == [NoJob EXCEPT !.order = o, !.row = orders[o], !.food = orders[o].food_id]
    <2>1. CASE o \in DOMAIN orders /\ Goto(w, "unsend", j)
      <3>1. pc'[w] = "unsend" /\ job'[w] = j /\ OnlyMoves(w)
        BY <1>3, <1>4, <2>1 DEF Labels
      <3>2. job'[w].row.food_number = orders[o].food_number
        BY <3>1 DEF NoJob
      <3>3. NonNegativeJob(w)'
        BY <2>1, <3>1, <3>2 DEF NonNegativeJob, StockInv, NonNegativeOrders
      <3>4. QED
        BY <1>1, <3>1, <3>3, AssembleStock
    <2>2. QED
      BY <1>2, <1>6, <2>1, Zenon DEF OrderCancel, Replies
  <1>7. ASSUME NEW o \in 1..MaxOrders, OrderComplete(w, o) PROVE StockInv'
    <2> DEFINE j == [NoJob EXCEPT !.order = o, !.row = orders[o]]
    <2>1. CASE Goto(w, "finish", j)
      <3>1. pc'[w] = "finish" /\ OnlyMoves(w)
        BY <1>3, <1>4, <2>1 DEF Labels
      <3>2. NonNegativeJob(w)'
        BY <3>1 DEF NonNegativeJob
      <3>3. QED
        BY <1>1, <3>1, <3>2, AssembleStock
    <2>2. QED
      BY <1>2, <1>7, <2>1, Zenon DEF OrderComplete, Replies
  <1>8. ASSUME NEW name \in Names, NEW r \in Restaurants, NEW s \in Stocks,
               FoodStore(w, name, r, s)
        PROVE  StockInv'
    <2> DEFINE j == [NoJob EXCEPT !.loaded = [name |-> name, restaurant_id |-> r,
                                              remaining |-> s]]
    <2>1. CASE Goto(w, "create", j)
      <3>1. pc'[w] = "create" /\ job'[w] = j /\ OnlyMoves(w)
        BY <1>3, <1>4, <2>1 DEF Labels
      <3>2. job'[w].loaded.remaining = s /\ job'[w].attrs = NoAttrs /\ s \in Nat
        BY <3>1 DEF NoJob, NoNegativeInput
      <3>3. NonNegativeJob(w)'
        BY <3>1, <3>2 DEF NonNegativeJob
      <3>4. QED
        BY <1>1, <3>1, <3>3, AssembleStock
    <2>2. QED
      BY <1>2, <1>8, <2>1 DEF FoodStore, Replies
  <1>9. ASSUME NEW f \in 1..MaxFoods, NEW a \in Updates, FoodUpdate(w, f, a) PROVE StockInv'
    <2> DEFINE j == [NoJob EXCEPT !.food = f, !.loaded = foods[f], !.attrs = a]
    <2>1. CASE f \in DOMAIN foods /\ Goto(w, "validate", j)
      <3>1. pc'[w] = "validate" /\ job'[w] = j /\ OnlyMoves(w)
        BY <1>3, <1>4, <2>1 DEF Labels
      <3>2. job'[w].loaded = foods[f] /\ job'[w].attrs = a
        BY <3>1 DEF NoJob
      <3>3. foods[f].remaining >= 0 /\ (a.remaining = None \/ a.remaining >= 0)
        BY <2>1 DEF NoNegativeInput, StockInv, NonNegativeStock
      <3>4. NonNegativeJob(w)'
        BY <3>1, <3>2, <3>3 DEF NonNegativeJob
      <3>5. QED
        BY <1>1, <3>1, <3>4, AssembleStock
    <2>2. QED
      BY <1>2, <1>9, <2>1, Zenon DEF FoodUpdate, Replies
  <1>10. QED
    BY <1>5, <1>6, <1>7, <1>8, <1>9 DEF Arrive

LEMMA AdvanceKeepsStock ==
    ASSUME Inv, StockInv, NEW w \in Workers, Advance(w)
    PROVE  StockInv'
  <1> DEFINE j == job[w]
  <1>1. j \in Jobs /\ JobInv(w) /\ NonNegativeJob(w)
    BY DEF Inv, TypeOK, StockInv
  <1>2. ASSUME foods' = foods PROVE NonNegativeStock'
    BY <1>2 DEF StockInv, NonNegativeStock
  <1>3. ASSUME orders' = orders PROVE NonNegativeOrders'
    BY <1>3 DEF StockInv, NonNegativeOrders
  <1>4. ASSUME DOMAIN orders' = DOMAIN orders, KeepsOrders PROVE NonNegativeOrders'
    BY <1>4 DEF StockInv, NonNegativeOrders, KeepsOrders
  <1>5. KeepsOrders
    BY NextKeepsOrders DEF Next
  <1>6. CASE OrderInsert(w)
    <2> DEFINE k == [j EXCEPT !.order = nextOrder, !.attrs = Deduction(j)]
    <2>1. pc[w] = "insert" /\ Goto(w, "deduct", k) /\ foods' = foods /\ orders' = orders
      BY <1>6 DEF OrderInsert, Deduction
    <2>2. j.loaded.remaining \in Int /\ j.row.food_number \in Int
      BY <1>1, <2>1 DEF JobInv, Placing, FoodRow, OrderRow
    <2>3. Deduction(j).remaining >= 0 /\ j.row.food_number >= 0
      BY <1>1, <2>1, <2>2 DEF NonNegativeJob, Deduction, Remaining
    <2>4. pc'[w] = "deduct" /\ job'[w] = k /\ OnlyMoves(w)
      BY <2>1 DEF Inv, TypeOK, Goto, OnlyMoves
    <2>5. job'[w].row = j.row /\ job'[w].attrs = Deduction(j)
      BY <1>1, <2>4 DEF Jobs
    <2>6. NonNegativeJob(w)'
      BY <2>3, <2>4, <2>5 DEF NonNegativeJob
    <2>7. QED
      BY <1>2, <1>3, <2>1, <2>4, <2>6, AssembleStock
  <1>7. CASE OrderReload(w)
    <2> DEFINE food == foods[j.food]
               k == [j EXCEPT !.loaded = food,
                              !.attrs = Remaining(food.remaining + j.row.food_number)]
    <2>1. pc[w] = "reload" /\ Goto(w, "restore", k) /\ foods' = foods /\ orders' = orders
      BY <1>7 DEF OrderReload, tables
    <2>2. j.food \in DOMAIN foods
      BY <1>1, <2>1 DEF Inv, JobInv, Loaded, Cancelling, OrdersHaveFoods
    <2>3. /\ food.remaining \in Int /\ food.remaining >= 0
          /\ j.row.food_number \in Int /\ j.row.food_number >= 0
      BY <1>1, <2>1, <2>2 DEF Inv, TypeOK, FoodRow, OrderRow, JobInv, Loaded, StockInv,
            NonNegativeStock, NonNegativeJob
    <2>4. pc'[w] = "restore" /\ job'[w] = k /\ OnlyMoves(w)
      BY <2>1 DEF Inv, TypeOK, Goto, OnlyMoves
    <2>5. /\ job'[w].row = j.row
          /\ job'[w].attrs.remaining = food.remaining + j.row.food_number
      BY <1>1, <2>4 DEF Jobs, Remaining
    <2>6. NonNegativeJob(w)'
      BY <2>3, <2>4, <2>5 DEF NonNegativeJob
    <2>7. QED
      BY <1>2, <1>3, <2>1, <2>4, <2>6, AssembleStock
  <1>8. CASE FoodInsert(w)
    <2> DEFINE k == [j EXCEPT !.food = nextFood]
    <2>1. pc[w] = "create" /\ Goto(w, "notify", k) /\ foods' = foods /\ orders' = orders
      BY <1>8 DEF FoodInsert
    <2>2. pc'[w] = "notify" /\ job'[w] = k /\ OnlyMoves(w)
      BY <2>1 DEF Inv, TypeOK, Goto, OnlyMoves
    <2>3. job'[w].loaded = j.loaded /\ job'[w].attrs = NoAttrs
      BY <1>1, <2>1, <2>2 DEF Jobs, NonNegativeJob
    <2>4. NonNegativeJob(w)'
      BY <1>1, <2>1, <2>2, <2>3 DEF NonNegativeJob, NoAttrs, Remaining
    <2>5. QED
      BY <1>2, <1>3, <2>1, <2>2, <2>4, AssembleStock
  <1>9. CASE OrderDeduct(w) \/ FoodValidate(w) \/ FoodPatch(w)
    <2>1. foods' = foods /\ orders' = orders
      BY <1>9 DEF OrderDeduct, FoodValidate, FoodPatch, tables
    <2>2. CASE \E r \in Replies : Respond(w, r)
      BY <1>2, <1>3, <2>1, <2>2, AnswerKeepsStock
    <2>3. CASE pc[w] = "deduct" /\ Goto(w, "commit", j)
      BY <1>2, <1>3, <2>1, <2>3, StepKeepsStock, AssembleStock DEF Labels
    <2>4. CASE pc[w] = "validate" /\ Goto(w, "patch", j)
      BY <1>2, <1>3, <2>1, <2>4, StepKeepsStock, AssembleStock DEF Labels
    <2>5. CASE pc[w] = "patch" /\ \E l \in {"notify", "save"} : Goto(w, l, j)
      BY <1>2, <1>3, <2>1, <2>5, StepKeepsStock, AssembleStock DEF Labels
    <2>6. QED
      BY <1>9, <2>2, <2>3, <2>4, <2>5, ZenonT(30) DEF OrderDeduct, FoodValidate, FoodPatch, Replies
  <1>10. CASE OrderEvent(w)
    BY <1>2, <1>3, <1>10, AnswerKeepsStock DEF OrderEvent, Replies
  <1>11. CASE FoodNotify(w)
    <2>1. /\ pc[w] = "notify" /\ Goto(w, "save", j) /\ foods' = foods /\ orders' = orders
      BY <1>11 DEF FoodNotify
    <2>2. QED
      BY <1>2, <1>3, <2>1, StepKeepsStock, AssembleStock DEF Labels
  <1>12. CASE OrderUnsend(w)
    <2>1. pc[w] = "unsend" /\ Goto(w, "reload", j) /\ foods' = foods
      BY <1>12 DEF OrderUnsend
    <2>2. DOMAIN orders' = DOMAIN orders
      BY <1>1, <1>12 DEF OrderUnsend, Put, JobInv, Loaded
    <2>3. QED
      BY <1>2, <1>4, <1>5, <2>1, <2>2, StepKeepsStock, AssembleStock DEF Labels
  <1>13. CASE OrderFinish(w)
    <2>1. Respond(w, "ok") /\ foods' = foods
      BY <1>13 DEF OrderFinish
    <2>2. DOMAIN orders' = DOMAIN orders
      BY <1>1, <1>13 DEF OrderFinish, Put, JobInv, Loaded
    <2>3. QED
      BY <1>2, <1>4, <1>5, <2>1, <2>2, AnswerKeepsStock DEF Replies
  <1>14. CASE OrderCommit(w)
    <2>1. /\ pc[w] = "commit" /\ Goto(w, "event", j)
          /\ orders' = Put(orders, j.order, j.row)
          /\ foods' = Put(foods, j.food, SaveFood(foods[j.food], j.loaded, j.attrs))
      BY <1>14 DEF OrderCommit
    <2>2. j.food \in DOMAIN foods /\ j.row.food_number >= 0
      BY <1>1, <2>1, ZenonT(30) DEF JobInv, Placing, NonNegativeJob
    <2>3. NonNegativeStock'
      BY <2>1, <2>2, SaveKeepsStock
    <2>4. NonNegativeOrders'
      BY <2>1, <2>2 DEF StockInv, NonNegativeOrders, Put
    <2>5. QED
      BY <2>1, <2>3, <2>4, StepKeepsStock, AssembleStock DEF Labels
  <1>15. CASE OrderRestore(w)
    <2>1. /\ pc[w] = "restore" /\ Respond(w, "ok") /\ orders' = orders
          /\ foods' = Put(foods, j.food, SaveFood(foods[j.food], j.loaded, j.attrs))
      BY <1>15 DEF OrderRestore
    <2>2. j.food \in DOMAIN foods
      BY <1>1, <2>1, Zenon DEF Inv, JobInv, Loaded, Cancelling, OrdersHaveFoods
    <2>3. QED
      BY <1>3, <2>1, <2>2, SaveKeepsStock, AnswerKeepsStock DEF Replies
  <1>16. CASE FoodCommit(w)
    <2>1. pc[w] = "save" /\ Respond(w, "ok") /\ orders' = orders
      BY <1>16 DEF FoodCommit
    <2>2. ASSUME j.food \in DOMAIN foods PROVE NonNegativeStock'
      BY <1>16, <2>1, <2>2, SaveKeepsStock DEF FoodCommit
    <2>3. ASSUME j.food \notin DOMAIN foods PROVE NonNegativeStock'
      <3>1. foods' = Put(foods, j.food, j.loaded) /\ j.loaded.remaining >= 0
        BY <1>1, <1>16, <2>1, <2>3 DEF FoodCommit, NonNegativeJob
      <3>2. QED
        BY <3>1 DEF StockInv, NonNegativeStock, Put
    <2>4. NonNegativeStock'
      BY <2>2, <2>3
    <2>5. QED
      BY <1>3, <2>1, <2>4, AnswerKeepsStock DEF Replies
  <1>17. QED
    BY <1>6, <1>7, <1>8, <1>9, <1>10, <1>11, <1>12, <1>13, <1>14, <1>15, <1>16 DEF Advance

-----------------------------------------------------------------------------

LEMMA StockInvariance ==
    ASSUME NoNegativeInput
    PROVE  Spec => []StockInv
  <1>1. Init => StockInv
    BY DEF Init, StockInv, NonNegativeStock, NonNegativeOrders, NonNegativeJob, NoRows
  <1>2. Inv /\ StockInv /\ [Next]_vars => StockInv'
    <2> SUFFICES ASSUME Inv, StockInv, [Next]_vars PROVE StockInv'
      OBVIOUS
    <2>1. CASE UNCHANGED vars
      BY <2>1 DEF vars, StockInv, NonNegativeStock, NonNegativeOrders, NonNegativeJob
    <2>2. ASSUME NEW w \in Workers, Fail(w) PROVE StockInv'
      <3>1. NonNegativeStock' /\ NonNegativeOrders'
        BY <2>2 DEF Fail, tables, StockInv, NonNegativeStock, NonNegativeOrders
      <3>2. QED
        BY <2>2, <3>1, AnswerKeepsStock DEF Fail, Replies
    <2>3. QED
      BY <2>1, <2>2, ArriveKeepsStock, AdvanceKeepsStock DEF Next
  <1>3. QED
    BY <1>1, <1>2, Invariance, PTL DEF Spec

\* However requests overlap and fail, no food's remaining becomes negative if
\* clients and owners send no negative number (no rule of the handlers asks for
\* that: food_number is only checked with lte, remaining with integer).
THEOREM StockNeverNegative ==
    ASSUME NoNegativeInput
    PROVE  Spec => []NonNegativeStock
  <1>1. StockInv => NonNegativeStock
    BY DEF StockInv
  <1>2. QED
    BY <1>1, StockInvariance, PTL
=============================================================================
