---------------------------- MODULE Serial_proofs ---------------------------
(***************************************************************************)
(* What the handlers guarantee when requests do not overlap: one worker,   *)
(* which may still fail at any point of a handler.  Then no handler acts   *)
(* on a value that has changed, and together the handlers implement Shop.  *)
(***************************************************************************)
EXTENDS OrderLedger_proofs

\* Requests are served one after the other.
OneWorker == \A v, w \in Workers : v = w

\* What the handler holds is what the tables hold: it has loaded the row it is
\* going to deduct from or restore, and the order it cancels or completes is
\* still sent; once it has cancelled the order the units are out.
Current(w) ==
    /\ pc[w] \in {"insert", "deduct", "commit"} =>
          /\ job[w].loaded = foods[job[w].food]
          /\ job[w].row.food_number <= job[w].loaded.remaining
          /\ job[w].row.send /\ ~job[w].row.complete
    /\ pc[w] \in {"unsend", "finish"} =>
          job[w].row = orders[job[w].order] /\ job[w].row.send
    /\ pc[w] \in {"reload", "restore"} => job[w].order \in unreturned
    /\ pc[w] = "restore" => job[w].loaded = foods[job[w].food]

\* Only cancelled orders have units out.
OnlyCancelledOut == \A o \in unreturned : o \in DOMAIN orders /\ ~orders[o].send

\* No handler has overwritten a remaining it had not seen, nor cancelled an
\* order cancelled meanwhile.
NoClash == \A f \in DOMAIN foods : ~ledger[f].clash

SerialInv == (\A w \in Workers : Current(w)) /\ OnlyCancelledOut /\ NoClash

-----------------------------------------------------------------------------

\* The one worker there is moves.
LEMMA AssembleSerial ==
    ASSUME OneWorker, NEW w \in Workers, Current(w)', OnlyCancelledOut', NoClash'
    PROVE  SerialInv'
  <1>1. \A v \in Workers : v = w
    BY DEF OneWorker
  <1>2. ASSUME NEW v \in Workers PROVE Current(v)'
    BY <1>1
  <1>3. QED
    BY <1>2 DEF SerialInv

LEMMA IdleCurrent ==
    ASSUME NEW w \in Workers, Inv, NEW r \in Replies, Respond(w, r)
    PROVE  Current(w)'
  <1>1. pc'[w] = "idle"
    BY RespondMoves DEF Inv
  <1>2. QED
    BY <1>1 DEF Current

\* A request that arrives loads what is in the tables.
LEMMA ArriveCurrent ==
    ASSUME Inv, Inv', NEW w \in Workers, Arrive(w), UNCHANGED history
    PROVE  Current(w)'
  <1>1. foods' = foods /\ orders' = orders
    BY ArriveAndFailWriteNothing DEF tables
  <1>2. CASE \E r \in Replies : Respond(w, r)
    BY <1>2, IdleCurrent
  <1>3. ASSUME NEW j, NEW l \in Labels, Goto(w, l, j) PROVE pc'[w] = l /\ job'[w] = j
    BY <1>3 DEF Inv, TypeOK, Goto
  <1>4. ASSUME NEW u \in Users, NEW f \in 1..MaxFoods, NEW n \in Quantities, NEW id,
               OrderStore(w, u, f, n, id)
        PROVE  Current(w)'
    <2> DEFINE row == [user_id |-> u, food_id |-> f, food_number |-> n,
                       complete |-> FALSE, send |-> TRUE]
               j == [NoJob EXCEPT !.food = f, !.loaded = foods[f], !.row = row]
    <2>1. CASE f \in DOMAIN foods /\ n <= foods[f].remaining /\ Goto(w, "insert", j)
      <3>1. pc'[w] = "insert" /\ job'[w] = j
        BY <1>3, <2>1 DEF Labels
      <3>2. job'[w].food = f /\ job'[w].loaded = foods[f] /\ job'[w].row = row
        BY <3>1 DEF NoJob
      <3>3. QED
        BY <1>1, <2>1, <3>1, <3>2 DEF Current
    <2>2. QED
      BY <1>2, <1>4, <2>1 DEF OrderStore, Replies, Valid
  <1>5. ASSUME NEW o \in 1..MaxOrders, OrderCancel(w, o) PROVE Current(w)'
    <2> DEFINE j == [NoJob EXCEPT !.order = o, !.row = orders[o], !.food = orders[o].food_id]
    <2>1. CASE orders[o].send /\ Goto(w, "unsend", j)
      <3>1. pc'[w] = "unsend" /\ job'[w] = j
        BY <1>3, <2>1 DEF Labels
      <3>2. job'[w].order = o /\ job'[w].row = orders[o]
        BY <3>1 DEF NoJob
      <3>3. QED
        BY <1>1, <2>1, <3>1, <3>2 DEF Current
    <2>2. QED
      BY <1>2, <1>5, <2>1, Zenon DEF OrderCancel, Replies
  <1>6. ASSUME NEW o \in 1..MaxOrders, OrderComplete(w, o) PROVE Current(w)'
    <2> DEFINE j == [NoJob EXCEPT !.order = o, !.row = orders[o]]
    <2>1. CASE orders[o].send /\ Goto(w, "finish", j)
      <3>1. pc'[w] = "finish" /\ job'[w] = j
        BY <1>3, <2>1 DEF Labels
      <3>2. job'[w].order = o /\ job'[w].row = orders[o]
        BY <3>1 DEF NoJob
      <3>3. QED
        BY <1>1, <2>1, <3>1, <3>2 DEF Current
    <2>2. QED
      BY <1>2, <1>6, <2>1, Zenon DEF OrderComplete, Replies
  <1>7. ASSUME NEW name, NEW r, NEW s, FoodStore(w, name, r, s) PROVE Current(w)'
    <2>1. CASE \E j : Goto(w, "create", j)
      BY <1>3, <2>1 DEF Labels, Current
    <2>2. QED
      BY <1>2, <1>7, <2>1 DEF FoodStore, Replies
  <1>8. ASSUME NEW f, NEW a, FoodUpdate(w, f, a) PROVE Current(w)'
    <2>1. CASE \E j : Goto(w, "validate", j)
      BY <1>3, <2>1 DEF Labels, Current
    <2>2. QED
      BY <1>2, <1>8, <2>1 DEF FoodUpdate, Replies
  <1>9. QED
    BY <1>4, <1>5, <1>6, <1>7, <1>8 DEF Arrive

\* The steps that move no units keep what the handler holds current.
LEMMA QuietKeepsSerial ==
    ASSUME OneWorker, Inv, Inv', LedgerInv, SerialInv, NEW w \in Workers, LedgerQuiet(w)
    PROVE  SerialInv'
  <1> DEFINE j == job[w]
  <1>1. /\ ledger' = ledger /\ unreturned' = unreturned /\ UNCHANGED history
        /\ j \in Jobs /\ JobInv(w) /\ Current(w)
    BY DEF LedgerQuiet, history, Inv, TypeOK, SerialInv
  <1>2. ASSUME NEW k, NEW l \in Labels, Goto(w, l, k) PROVE pc'[w] = l /\ job'[w] = k
    BY <1>2 DEF Inv, TypeOK, Goto
  <1>3. ASSUME foods' = foods, orders' = orders, Current(w)' PROVE SerialInv'
    <2>1. NoClash' /\ OnlyCancelledOut'
      BY <1>1, <1>3 DEF SerialInv, NoClash, OnlyCancelledOut
    <2>2. QED
      BY <1>3, <2>1, AssembleSerial
  <1>4. CASE Arrive(w)
    BY <1>1, <1>3, <1>4, ArriveCurrent, ArriveAndFailWriteNothing DEF tables
  <1>5. CASE Fail(w)
    BY <1>3, <1>5, IdleCurrent, ArriveAndFailWriteNothing DEF tables, Fail, Replies
  <1>6. CASE OrderInsert(w)
    <2> DEFINE k == [j EXCEPT !.order = nextOrder,
                              !.attrs = Remaining(j.loaded.remaining - j.row.food_number)]
    <2>1. pc[w] = "insert" /\ Goto(w, "deduct", k) /\ foods' = foods /\ orders' = orders
      BY <1>6 DEF OrderInsert
    <2>2. pc'[w] = "deduct" /\ job'[w] = k
      BY <1>2, <2>1 DEF Labels
    <2>3. job'[w].food = j.food /\ job'[w].loaded = j.loaded /\ job'[w].row = j.row
      BY <1>1, <2>2 DEF Jobs
    <2>4. Current(w)'
      BY <1>1, <2>1, <2>2, <2>3 DEF Current
    <2>5. QED
      BY <1>3, <2>1, <2>4
  <1>7. CASE OrderDeduct(w)
    <2>1. pc[w] = "deduct" /\ Goto(w, "commit", j) /\ foods' = foods /\ orders' = orders
      BY <1>7 DEF OrderDeduct, tables
    <2>2. pc'[w] = "commit" /\ job'[w] = j
      BY <1>2, <2>1 DEF Labels
    <2>3. Current(w)'
      BY <1>1, <2>1, <2>2 DEF Current
    <2>4. QED
      BY <1>3, <2>1, <2>3
  <1>8. CASE OrderEvent(w)
    BY <1>3, <1>8, IdleCurrent DEF OrderEvent, Replies
  <1>9. CASE OrderReload(w)
    <2> DEFINE k == [j EXCEPT !.loaded = foods[j.food],
                        !.attrs = Remaining(foods[j.food].remaining + j.row.food_number)]
    <2>1. pc[w] = "reload" /\ Goto(w, "restore", k) /\ foods' = foods /\ orders' = orders
      BY <1>9 DEF OrderReload, tables
    <2>2. pc'[w] = "restore" /\ job'[w] = k
      BY <1>2, <2>1 DEF Labels
    <2>3. job'[w].food = j.food /\ job'[w].loaded = foods[j.food] /\ job'[w].order = j.order
      BY <1>1, <2>2 DEF Jobs
    <2>4. Current(w)'
      BY <1>1, <2>1, <2>2, <2>3 DEF Current
    <2>5. QED
      BY <1>3, <2>1, <2>4
  <1>10. CASE OrderFinish(w)
    <2> DEFINE o == j.order
               row == [orders[o] EXCEPT !.complete = Saved(@, j.row.complete, TRUE)]
    <2>1. pc[w] = "finish" /\ Respond(w, "ok") /\ foods' = foods /\ orders' = Put(orders, o, row)
      BY <1>10 DEF OrderFinish
    <2>2. o \in DOMAIN orders /\ orders[o] \in OrderRow
      BY <1>1, <2>1 DEF JobInv, Loaded, Inv, TypeOK
    <2>3. row.send = orders[o].send
      BY <2>2 DEF OrderRow
    <2> HIDE DEF row
    <2>4. OnlyCancelledOut'
      BY <1>1, <2>1, <2>2, <2>3 DEF SerialInv, OnlyCancelledOut, Put
    <2>5. NoClash'
      BY <1>1, <2>1 DEF SerialInv, NoClash
    <2>6. QED
      BY <2>1, <2>4, <2>5, IdleCurrent, AssembleSerial DEF Replies
  <1>11. CASE FoodInsert(w) \/ FoodNotify(w) \/ FoodValidate(w) \/ FoodPatch(w)
    <2>1. foods' = foods /\ orders' = orders
      BY <1>11 DEF FoodInsert, FoodNotify, FoodValidate, FoodPatch, tables
    <2>2. CASE \E r \in Replies : Respond(w, r)
      BY <1>3, <2>1, <2>2, IdleCurrent
    <2>3. CASE \E l \in {"notify", "save", "patch"} : Goto(w, l, j)
      <3>1. pc'[w] \in {"notify", "save", "patch"}
        BY <1>2, <2>3 DEF Labels
      <3>2. QED
        BY <1>3, <2>1, <3>1 DEF Current
    <2>4. CASE FoodInsert(w)
      <3>1. pc'[w] = "notify"
        BY <1>2, <2>4 DEF FoodInsert, Labels
      <3>2. QED
        BY <1>3, <2>1, <3>1 DEF Current
    <2>5. QED
      BY <1>11, <2>2, <2>3, <2>4 DEF FoodNotify, FoodValidate, FoodPatch, Replies
  <1>12. QED
    BY <1>4, <1>5, <1>6, <1>7, <1>8, <1>9, <1>10, <1>11 DEF LedgerQuiet

LEMMA CommitKeepsSerial ==
    ASSUME OneWorker, Inv, Inv', LedgerInv, SerialInv, NEW w \in Workers, LedgerOrderCommit(w)
    PROVE  SerialInv'
  <1> DEFINE j == job[w]
             e == ledger[j.food]
             d == [e EXCEPT !.live = @ + j.row.food_number, !.clash = @ \/ Stale(j)]
  <1>1. /\ pc[w] = "commit" /\ Goto(w, "event", j) /\ unreturned' = unreturned
        /\ orders' = Put(orders, j.order, j.row) /\ ledger' = Put(ledger, j.food, d)
        /\ foods' = Put(foods, j.food, SaveFood(foods[j.food], j.loaded, j.attrs))
    BY DEF LedgerOrderCommit, OrderCommit
  <1>2. /\ j.food \in DOMAIN foods /\ j.loaded = foods[j.food]
        /\ j.order \notin DOMAIN orders
    BY <1>1 DEF Inv, JobInv, Placing, FreshNumbers, SerialInv, Current
  <1>3. e \in Entries /\ e.clash = FALSE /\ ~Stale(j)
    BY <1>2 DEF LedgerInv, LedgerType, Entries, SerialInv, NoClash, Stale
  <1>4. d.clash = FALSE
    BY <1>3 DEF Entries
  <1> HIDE DEF d
  <1>5. NoClash'
    BY <1>1, <1>2, <1>4 DEF SerialInv, NoClash, LedgerInv, LedgerType, Put
  <1>6. OnlyCancelledOut'
    BY <1>1, <1>2 DEF SerialInv, OnlyCancelledOut, Put
  <1>7. pc'[w] = "event"
    BY <1>1 DEF Inv, TypeOK, Goto
  <1>8. QED
    BY <1>5, <1>6, <1>7, AssembleSerial DEF Current

LEMMA UnsendKeepsSerial ==
    ASSUME OneWorker, Inv, Inv', LedgerInv, SerialInv, NEW w \in Workers, LedgerOrderUnsend(w)
    PROVE  /\ SerialInv' /\ orders[job[w].order].send /\ unreturned' = unreturned \cup {job[w].order}
           /\ orders' = Put(orders, job[w].order, [orders[job[w].order] EXCEPT !.send = FALSE])
  <1> DEFINE j == job[w]
             o == j.order
             e == ledger[j.food]
             n == j.row.food_number
             d == [e EXCEPT !.live = @ - n, !.owed = @ + n]
             row == [orders[o] EXCEPT !.send = FALSE]
  <1>1. pc[w] = "unsend" /\ Goto(w, "reload", j) /\ foods' = foods
    BY DEF LedgerOrderUnsend, OrderUnsend
  <1>2. /\ o \in DOMAIN orders /\ orders[o] \in OrderRow /\ j.row = orders[o] /\ orders[o].send = TRUE
        /\ j.food \in DOMAIN foods
    BY <1>1 DEF Inv, TypeOK, JobInv, Loaded, Cancelling, OrdersHaveFoods, OrderRow, SerialInv, Current
  <1>3. Saved(orders[o].send, j.row.send, FALSE) = FALSE
    BY <1>2, NoneAssumption, Zenon DEF Saved
  <1>4. /\ orders' = Put(orders, o, row) /\ unreturned' = unreturned \cup {o}
        /\ ledger' = Put(ledger, j.food, d)
    BY <1>2, <1>3, Zenon DEF LedgerOrderUnsend, OrderUnsend
  <1>5. d.clash = FALSE
    BY <1>2 DEF LedgerInv, LedgerType, Entries, SerialInv, NoClash
  <1>6. row.send = FALSE
    BY <1>2 DEF OrderRow
  <1> HIDE DEF d, row
  <1>7. NoClash'
    BY <1>1, <1>2, <1>4, <1>5 DEF SerialInv, NoClash, LedgerInv, LedgerType, Put
  <1>8. OnlyCancelledOut'
    BY <1>2, <1>4, <1>6 DEF SerialInv, OnlyCancelledOut, Put
  <1>9. pc'[w] = "reload" /\ job'[w] = j
    BY <1>1 DEF Inv, TypeOK, Goto
  <1>10. Current(w)'
    BY <1>4, <1>9 DEF Current
  <1>11. QED
    BY <1>2, <1>4, <1>7, <1>8, <1>10, AssembleSerial DEF row

LEMMA RestoreKeepsSerial ==
    ASSUME OneWorker, Inv, Inv', LedgerInv, SerialInv, NEW w \in Workers, LedgerOrderRestore(w)
    PROVE  SerialInv'
  <1> DEFINE j == job[w]
             e == ledger[j.food]
             d == [e EXCEPT !.owed = @ - j.row.food_number, !.clash = @ \/ Stale(j)]
  <1>1. /\ pc[w] = "restore" /\ Respond(w, "ok") /\ orders' = orders
        /\ unreturned' = unreturned \ {j.order} /\ ledger' = Put(ledger, j.food, d)
        /\ foods' = Put(foods, j.food, SaveFood(foods[j.food], j.loaded, j.attrs))
    BY DEF LedgerOrderRestore, OrderRestore
  <1>2. j.food \in DOMAIN foods /\ j.loaded = foods[j.food]
    BY <1>1 DEF Inv, JobInv, Loaded, Cancelling, OrdersHaveFoods, SerialInv, Current
  <1>3. e \in Entries /\ e.clash = FALSE /\ ~Stale(j)
    BY <1>2 DEF LedgerInv, LedgerType, Entries, SerialInv, NoClash, Stale
  <1>4. d.clash = FALSE
    BY <1>3 DEF Entries
  <1> HIDE DEF d
  <1>5. NoClash'
    BY <1>1, <1>2, <1>4 DEF SerialInv, NoClash, LedgerInv, LedgerType, Put
  <1>6. OnlyCancelledOut'
    BY <1>1 DEF SerialInv, OnlyCancelledOut
  <1>7. QED
    BY <1>1, <1>5, <1>6, IdleCurrent, AssembleSerial DEF Replies

LEMMA FoodCommitKeepsSerial ==
    ASSUME OneWorker, Inv, Inv', LedgerInv, SerialInv, NEW w \in Workers, LedgerFoodCommit(w)
    PROVE  SerialInv'
  <1> DEFINE j == job[w]
             f == j.food
             d == IF f \in DOMAIN foods
                    THEN [ledger[f] EXCEPT
                             !.supply = @ + foods'[f].remaining - foods[f].remaining]
                    ELSE [supply |-> j.loaded.remaining, live |-> 0,
                          owed |-> 0, clash |-> FALSE]
  <1>1. /\ Respond(w, "ok") /\ orders' = orders /\ unreturned' = unreturned
        /\ ledger' = Put(ledger, f, d) /\ DOMAIN foods' = DOMAIN foods \cup {f}
    BY DEF LedgerFoodCommit, FoodCommit, Put
  <1>2. d.clash = FALSE
    BY DEF LedgerInv, LedgerType, Entries, SerialInv, NoClash
  <1> HIDE DEF d
  <1>3. NoClash'
    BY <1>1, <1>2 DEF SerialInv, NoClash, LedgerInv, LedgerType, Put
  <1>4. OnlyCancelledOut'
    BY <1>1 DEF SerialInv, OnlyCancelledOut
  <1>5. QED
    BY <1>1, <1>3, <1>4, IdleCurrent, AssembleSerial DEF Replies

LEMMA SerialStep ==
    ASSUME OneWorker, Inv, Inv', LedgerInv, SerialInv, [LedgerNext]_ledgerVars
    PROVE  SerialInv'
  <1>1. CASE UNCHANGED ledgerVars
    BY <1>1 DEF ledgerVars, vars, history, SerialInv, Current, OnlyCancelledOut, NoClash
  <1>2. QED
    BY <1>1, CommitKeepsSerial, UnsendKeepsSerial, RestoreKeepsSerial, FoodCommitKeepsSerial,
       QuietKeepsSerial, Zenon DEF LedgerNext

LEMMA SerialInvariance ==
    ASSUME OneWorker
    PROVE  LedgerSpec => []SerialInv
  <1>1. LedgerInit => SerialInv
    BY DEF LedgerInit, Init, SerialInv, Current, OnlyCancelledOut, NoClash, NoRows
  <1>2. Inv /\ Inv' /\ LedgerInv /\ SerialInv /\ [LedgerNext]_ledgerVars => SerialInv'
    BY SerialStep
  <1>3. QED
    BY <1>1, <1>2, LedgerInvariance, AccountInvariance, PTL DEF LedgerSpec

-----------------------------------------------------------------------------
(* Units given back and units sold, for requests without negative numbers. *)

\* While the handler is about to put an order's units back, they are owed.
Owing(w) ==
    pc[w] \in {"reload", "restore"} => ledger[job[w].food].owed >= job[w].row.food_number

OwedInv == ReturnedOnce /\ \A w \in Workers : Owing(w)

LEMMA AssembleOwed ==
    ASSUME OneWorker, NEW w \in Workers, Owing(w)', ReturnedOnce'
    PROVE  OwedInv'
  <1>1. \A v \in Workers : v = w
    BY DEF OneWorker
  <1>2. ASSUME NEW v \in Workers PROVE Owing(v)'
    BY <1>1
  <1>3. QED
    BY <1>2 DEF OwedInv

\* The quiet steps leave the ledger alone; only reload goes on owing.
LEMMA QuietKeepsOwed ==
    ASSUME OneWorker, Inv, OwedInv, NEW w \in Workers, LedgerQuiet(w)
    PROVE  OwedInv'
  <1>1. ledger' = ledger
    BY DEF LedgerQuiet, history
  <1>2. foods' = foods
    <2>1. CASE Arrive(w) \/ Fail(w)
      BY <2>1, ArriveAndFailWriteNothing DEF tables
    <2>2. QED
      BY <2>1 DEF LedgerQuiet, OrderInsert, OrderEvent, OrderFinish, FoodInsert, FoodNotify,
            OrderDeduct, OrderReload, FoodValidate, FoodPatch, tables
  <1>3. Owing(w)'
    <2>1. ASSUME NEW k, NEW l, Goto(w, l, k) PROVE pc'[w] = l /\ job'[w] = k
      BY <2>1 DEF Inv, TypeOK, Goto
    <2>2. ASSUME NEW r, Respond(w, r) PROVE pc'[w] = "idle"
      BY <2>2 DEF Inv, TypeOK, Respond
    <2>3. CASE OrderReload(w)
      <3>1. pc[w] = "reload" /\ pc'[w] = "restore"
            /\ job'[w].food = job[w].food /\ job'[w].row = job[w].row
        BY <2>1, <2>3, Zenon DEF OrderReload, Inv, TypeOK, Jobs
      <3>2. QED
        BY <1>1, <3>1 DEF OwedInv, Owing
    <2>4. CASE pc'[w] \notin {"reload", "restore"}
      BY <2>4 DEF Owing
    <2>5. CASE Arrive(w)
      <3>1. pc'[w] \in {"idle", "insert", "unsend", "finish", "create", "validate"}
        BY <2>1, <2>2, <2>5, Zenon DEF Arrive, OrderStore, OrderCancel, OrderComplete, FoodStore, FoodUpdate
      <3>2. QED
        BY <2>4, <3>1
    <2>6. QED
      BY <2>1, <2>2, <2>3, <2>4, <2>5 DEF LedgerQuiet, Fail, OrderInsert, OrderDeduct,
            OrderEvent, OrderFinish, FoodInsert, FoodNotify, FoodValidate, FoodPatch
  <1>4. ReturnedOnce'
    BY <1>1, <1>2 DEF OwedInv, ReturnedOnce
  <1>5. QED
    BY <1>3, <1>4, AssembleOwed

\* A step that changes the entry of one food.
LEMMA EntryKeepsOwed ==
    ASSUME LedgerInv, OwedInv, NEW f, NEW d, ledger' = Put(ledger, f, d), d.owed >= 0,
           DOMAIN foods' = DOMAIN foods \cup {f}
    PROVE  ReturnedOnce'
  BY DEF LedgerInv, LedgerType, OwedInv, ReturnedOnce, Put

LEMMA OwedStep ==
    ASSUME OneWorker, Inv, Inv', LedgerInv, StockInv, SerialInv, OwedInv, [LedgerNext]_ledgerVars
    PROVE  OwedInv'
  <1>1. CASE UNCHANGED ledgerVars
    BY <1>1 DEF ledgerVars, vars, history, OwedInv, Owing, ReturnedOnce
  <1>2. ASSUME NEW w \in Workers, LedgerQuiet(w) PROVE OwedInv'
    BY <1>2, QuietKeepsOwed
  <1>3. ASSUME NEW w \in Workers, LedgerOrderCommit(w) PROVE OwedInv'
    <2> DEFINE j == job[w]
               e == ledger[j.food]
               d == [e EXCEPT !.live = @ + j.row.food_number, !.clash = @ \/ Stale(j)]
    <2>1. pc[w] = "commit" /\ Goto(w, "event", j) /\ ledger' = Put(ledger, j.food, d)
          /\ DOMAIN foods' = DOMAIN foods \cup {j.food}
      BY <1>3 DEF LedgerOrderCommit, OrderCommit, Put
    <2>2. j.food \in DOMAIN foods
      BY <2>1 DEF Inv, JobInv, Placing
    <2>3. d.owed >= 0
      BY <2>2 DEF LedgerInv, LedgerType, Entries, OwedInv, ReturnedOnce
    <2> HIDE DEF d
    <2>4. ReturnedOnce'
      BY <2>1, <2>3, EntryKeepsOwed
    <2>5. pc'[w] = "event"
      BY <2>1 DEF Inv, TypeOK, Goto
    <2>6. QED
      BY <2>4, <2>5, AssembleOwed DEF Owing
  <1>4. ASSUME NEW w \in Workers, LedgerOrderUnsend(w) PROVE OwedInv'
    <2> DEFINE j == job[w]
               e == ledger[j.food]
               n == j.row.food_number
               d == [e EXCEPT !.live = @ - n, !.owed = @ + n]
    <2>1. pc[w] = "unsend" /\ Goto(w, "reload", j) /\ foods' = foods
      BY <1>4 DEF LedgerOrderUnsend, OrderUnsend
    <2>2. ledger' = Put(ledger, j.food, d)
      BY <1>4, UnsendKeepsSerial, Zenon DEF LedgerOrderUnsend
    <2>3. j.food \in DOMAIN foods /\ n \in Int /\ n >= 0
      BY <2>1 DEF Inv, JobInv, Loaded, Cancelling, OrdersHaveFoods, OrderRow, StockInv, NonNegativeJob
    <2>4. e \in Entries /\ e.owed >= 0 /\ e.owed \in Int
      BY <2>3 DEF LedgerInv, LedgerType, Entries, OwedInv, ReturnedOnce
    <2>5. d.owed = e.owed + n
      BY <2>4 DEF Entries
    <2>6. d.owed >= n /\ d.owed >= 0
      BY <2>3, <2>4, <2>5
    <2> HIDE DEF d
    <2>7. ReturnedOnce'
      BY <2>1, <2>2, <2>3, <2>6, EntryKeepsOwed
    <2>8. pc'[w] = "reload" /\ job'[w] = j
      BY <2>1 DEF Inv, TypeOK, Goto
    <2>9. ledger'[j.food] = d
      BY <2>2 DEF Put
    <2>10. QED
      BY <2>6, <2>7, <2>8, <2>9, AssembleOwed DEF Owing
  <1>5. ASSUME NEW w \in Workers, LedgerOrderRestore(w) PROVE OwedInv'
    <2> DEFINE j == job[w]
               e == ledger[j.food]
               n == j.row.food_number
               d == [e EXCEPT !.owed = @ - n, !.clash = @ \/ Stale(j)]
    <2>1. pc[w] = "restore" /\ Respond(w, "ok") /\ ledger' = Put(ledger, j.food, d)
          /\ DOMAIN foods' = DOMAIN foods \cup {j.food}
      BY <1>5 DEF LedgerOrderRestore, OrderRestore, Put
    <2>2. j.food \in DOMAIN foods /\ n \in Int
      BY <2>1 DEF Inv, JobInv, Loaded, Cancelling, OrdersHaveFoods, OrderRow
    <2>3. e \in Entries /\ e.owed \in Int /\ e.owed >= n
      BY <2>1, <2>2 DEF LedgerInv, LedgerType, Entries, OwedInv, Owing
    <2>4. d.owed = e.owed - n
      BY <2>3 DEF Entries
    <2>5. d.owed >= 0
      BY <2>2, <2>3, <2>4
    <2> HIDE DEF d
    <2>6. ReturnedOnce'
      BY <2>1, <2>5, EntryKeepsOwed
    <2>7. pc'[w] = "idle"
      BY <2>1 DEF Inv, TypeOK, Respond
    <2>8. QED
      BY <2>6, <2>7, AssembleOwed DEF Owing
  <1>6. ASSUME NEW w \in Workers, LedgerFoodCommit(w) PROVE OwedInv'
    <2> DEFINE j == job[w]
               f == j.food
               d == IF f \in DOMAIN foods
                      THEN [ledger[f] EXCEPT
                               !.supply = @ + foods'[f].remaining - foods[f].remaining]
                      ELSE [supply |-> j.loaded.remaining, live |-> 0,
                            owed |-> 0, clash |-> FALSE]
    <2>1. Respond(w, "ok") /\ ledger' = Put(ledger, f, d) /\ DOMAIN foods' = DOMAIN foods \cup {f}
      BY <1>6 DEF LedgerFoodCommit, FoodCommit, Put
    <2>2. d.owed >= 0
      BY DEF LedgerInv, LedgerType, Entries, OwedInv, ReturnedOnce
    <2> HIDE DEF d
    <2>3. ReturnedOnce'
      BY <2>1, <2>2, EntryKeepsOwed
    <2>4. pc'[w] = "idle"
      BY <2>1 DEF Inv, TypeOK, Respond
    <2>5. QED
      BY <2>3, <2>4, AssembleOwed DEF Owing
  <1>7. QED
    BY <1>1, <1>2, <1>3, <1>4, <1>5, <1>6 DEF LedgerNext

LEMMA OwedInvariance ==
    ASSUME OneWorker, NoNegativeInput
    PROVE  LedgerSpec => [](OwedInv /\ StockInv)
  <1>1. LedgerInit => OwedInv
    BY DEF LedgerInit, Init, OwedInv, Owing, ReturnedOnce, NoRows
  <1>2. /\ Inv /\ Inv' /\ LedgerInv /\ StockInv /\ SerialInv /\ OwedInv /\ [LedgerNext]_ledgerVars
        => OwedInv'
    BY OwedStep
  <1>3. LedgerSpec => Spec
    <2>1. LedgerInit => Init
      BY DEF LedgerInit
    <2>2. QED
      BY <2>1, LedgerStep, PTL DEF LedgerSpec, Spec
  <1>4. Spec => []StockInv
    BY StockInvariance
  <1>5. LedgerSpec => []SerialInv
    BY SerialInvariance
  <1>6. QED
    BY <1>1, <1>2, <1>3, <1>4, <1>5, LedgerInvariance, AccountInvariance, PTL DEF LedgerSpec

\* One request at a time, the units of a cancelled order go back at most once,
\* however often its cancellation is asked for and wherever it breaks off.
THEOREM SerialReturnedOnce ==
    ASSUME OneWorker, NoNegativeInput
    PROVE  LedgerSpec => []ReturnedOnce
  <1>1. OwedInv => ReturnedOnce
    BY DEF OwedInv
  <1>2. LedgerSpec => [](OwedInv /\ StockInv)
    BY OwedInvariance
  <1>3. QED
    BY <1>1, <1>2, PTL

\* One request at a time, the live orders of a food never exceed what its owner
\* put on offer.
THEOREM SerialNotOversold ==
    ASSUME OneWorker, NoNegativeInput
    PROVE  LedgerSpec => []NotOversold
  <1>1. Inv /\ LedgerInv /\ SerialInv /\ OwedInv /\ StockInv => NotOversold
    <2> SUFFICES ASSUME Inv, LedgerInv, SerialInv, OwedInv, StockInv, NEW f \in DOMAIN foods
                 PROVE  ledger[f].live <= ledger[f].supply
      BY DEF NotOversold
    <2>1. /\ foods[f].remaining + ledger[f].live + ledger[f].owed = ledger[f].supply
          /\ ledger[f].owed >= 0 /\ foods[f].remaining >= 0
      BY DEF LedgerInv, Conserved, SerialInv, NoClash, OwedInv, ReturnedOnce, StockInv,
            NonNegativeStock
    <2>2. /\ foods[f].remaining \in Int /\ ledger[f].live \in Int
          /\ ledger[f].owed \in Int /\ ledger[f].supply \in Int
      BY DEF Inv, TypeOK, FoodRow, LedgerInv, LedgerType, Entries
    <2>3. QED
      BY <2>1, <2>2
  <1>2. LedgerSpec => [](OwedInv /\ StockInv)
    BY OwedInvariance
  <1>3. LedgerSpec => []SerialInv
    BY SerialInvariance
  <1>4. QED
    BY <1>1, <1>2, <1>3, LedgerInvariance, AccountInvariance, PTL

-----------------------------------------------------------------------------
(* The handlers implement the shop, step by step.                          *)

\* A row written to a table shows as one entry of the shop.
LEMMA StockWritten ==
    ASSUME NEW f, NEW row, foods' = Put(foods, f, row)
    PROVE  StockShown' = Abstract!Set(StockShown, f, row.remaining)
  BY DEF StockShown, Put, Abstract!Set

LEMMA BookWritten ==
    ASSUME NEW o, NEW row, orders' = Put(orders, o, row)
    PROVE  BookShown' = Abstract!Set(BookShown, o, EntryShown(row))
  BY DEF BookShown, Put, Abstract!Set

\* An entry of the shop with one of its marks set.
LEMMA EntryMarked ==
    ASSUME NEW row
    PROVE  /\ [EntryShown(row) EXCEPT !.cancelled = TRUE]
                = [food |-> row.food_id, units |-> row.food_number,
                   cancelled |-> TRUE, completed |-> row.complete]
           /\ [EntryShown(row) EXCEPT !.completed = TRUE]
                = [food |-> row.food_id, units |-> row.food_number,
                   cancelled |-> ~row.send, completed |-> TRUE]
  <1> DEFINE yes == TRUE
             off == ~row.send
             e == [food |-> row.food_id, units |-> row.food_number,
                   cancelled |-> off, completed |-> row.complete]
  <1>1. EntryShown(row) = e
    BY DEF EntryShown
  <1> HIDE DEF yes, off
  <1>2. /\ [e EXCEPT !.cancelled = yes] = [food |-> row.food_id, units |-> row.food_number,
                                           cancelled |-> yes, completed |-> row.complete]
        /\ [e EXCEPT !.completed = yes] = [food |-> row.food_id, units |-> row.food_number,
                                           cancelled |-> off, completed |-> yes]
    OBVIOUS
  <1> HIDE DEF e
  <1>3. QED
    BY <1>1, <1>2, Zenon DEF yes, off

\* The attributes a change of stock assigns.
LEMMA RemainingFields ==
    ASSUME NEW n
    PROVE  /\ Remaining(n).name = None /\ Remaining(n).restaurant_id = None
           /\ Remaining(n).remaining = n
  BY DEF Remaining

LEMMA CommitPlaces ==
    ASSUME Inv, SerialInv, NEW w \in Workers, LedgerOrderCommit(w)
    PROVE  Abstract!ShopNext
  <1> DEFINE j == job[w]
             o == j.order
             n == j.row.food_number
             c == foods[j.food]
             row == SaveFood(c, j.loaded, j.attrs)
  <1>1. /\ pc[w] = "commit" /\ orders' = Put(orders, o, j.row) /\ foods' = Put(foods, j.food, row)
        /\ unreturned' = unreturned
    BY DEF LedgerOrderCommit, OrderCommit
  <1>2. /\ j.food \in DOMAIN foods /\ c \in FoodRow /\ j.loaded = c /\ j.row \in OrderRow
        /\ j.row.food_id = j.food /\ j.attrs = Remaining(j.loaded.remaining - n)
        /\ o \notin DOMAIN orders /\ n <= c.remaining /\ j.row.send = TRUE /\ j.row.complete = FALSE
    BY <1>1 DEF Inv, TypeOK, JobInv, Placing, Numbered, Deduction, FreshNumbers, SerialInv,
          Current, OrderRow
  <1>3. row.remaining = c.remaining - n
    <2>1. c.remaining \in Int /\ n \in Int /\ c.remaining - n \in Int
      BY <1>2 DEF FoodRow, OrderRow
    <2>2. j.attrs.remaining = c.remaining - n
      BY <1>2, RemainingFields
    <2>3. row.remaining = Saved(c.remaining, c.remaining, c.remaining - n)
      BY <1>2, <2>2 DEF SaveFood
    <2> HIDE DEF row, n, c
    <2>4. Saved(c.remaining, c.remaining, c.remaining - n) = c.remaining - n
      BY <2>1, NoneAssumption DEF Saved
    <2>5. QED
      BY <2>3, <2>4
  <1>4. StockShown' = Abstract!Set(StockShown, j.food, c.remaining - n)
    BY <1>1, <1>3, StockWritten
  <1>5. BookShown' = Abstract!Set(BookShown, o, EntryShown(j.row))
    BY <1>1, BookWritten
  <1>6. EntryShown(j.row) = [food |-> j.food, units |-> n, cancelled |-> FALSE, completed |-> FALSE]
    BY <1>2, Zenon DEF EntryShown
  <1>7. /\ j.food \in DOMAIN StockShown /\ StockShown[j.food] = c.remaining
        /\ o \notin DOMAIN BookShown
    BY <1>2 DEF StockShown, BookShown
  <1>8. o \in DOMAIN BookShown' /\ BookShown'[o] = EntryShown(j.row)
    BY <1>5 DEF Abstract!Set
  <1> HIDE DEF o, n, c
  <1>9. Abstract!Place(o, j.food, n)
    BY <1>1, <1>2, <1>4, <1>5, <1>6, <1>7 DEF Abstract!Place
  <1>10. BookShown'[o].food = j.food /\ BookShown'[o].units = n
    BY <1>6, <1>8
  <1>11. QED
    BY <1>8, <1>9, <1>10 DEF Abstract!ShopNext

LEMMA UnsendCancels ==
    ASSUME OneWorker, Inv, Inv', LedgerInv, SerialInv, NEW w \in Workers, LedgerOrderUnsend(w)
    PROVE  Abstract!ShopNext
  <1> DEFINE o == job[w].order
             row == [orders[o] EXCEPT !.send = FALSE]
  <1>1. /\ orders' = Put(orders, o, row) /\ unreturned' = unreturned \cup {o} /\ foods' = foods
        /\ orders[o].send
    BY UnsendKeepsSerial, Zenon DEF LedgerOrderUnsend, OrderUnsend
  <1>2. o \in DOMAIN orders /\ orders[o] \in OrderRow /\ orders[o].send = TRUE
    BY <1>1, Zenon DEF LedgerOrderUnsend, OrderUnsend, Inv, TypeOK, JobInv, Loaded, OrderRow
  <1>3. EntryShown(row) = [EntryShown(orders[o]) EXCEPT !.cancelled = TRUE]
    <2>1. /\ row.food_id = orders[o].food_id /\ row.food_number = orders[o].food_number
          /\ row.send = FALSE /\ row.complete = orders[o].complete
      BY <1>2 DEF OrderRow
    <2> HIDE DEF row
    <2>2. EntryShown(row) = [food |-> orders[o].food_id, units |-> orders[o].food_number,
                             cancelled |-> TRUE, completed |-> orders[o].complete]
      BY <2>1, Zenon DEF EntryShown
    <2>3. QED
      BY <2>2, EntryMarked, Zenon
  <1>4. o \in DOMAIN BookShown /\ BookShown[o] = EntryShown(orders[o])
    BY <1>2 DEF BookShown
  <1>5. ~BookShown[o].cancelled
    <2>1. EntryShown(orders[o]).cancelled = FALSE
      BY <1>2, Zenon DEF EntryShown
    <2>2. QED
      BY <1>4, <2>1, Zenon
  <1> HIDE DEF row
  <1>6. BookShown' = Abstract!Set(BookShown, o, [BookShown[o] EXCEPT !.cancelled = TRUE])
    <2>1. BookShown' = Abstract!Set(BookShown, o, EntryShown(row))
      BY <1>1, BookWritten
    <2>2. QED
      BY <1>3, <1>4, <2>1, Zenon
  <1>7. StockShown' = StockShown
    BY <1>1 DEF StockShown
  <1>8. Abstract!Cancel(o)
    BY <1>1, <1>4, <1>5, <1>6, <1>7 DEF Abstract!Cancel
  <1>9. o \in DOMAIN BookShown'
    BY <1>6 DEF Abstract!Set
  <1>10. QED
    BY <1>8, <1>9 DEF Abstract!ShopNext

LEMMA RestoreGivesBack ==
    ASSUME Inv, SerialInv, NEW w \in Workers, LedgerOrderRestore(w)
    PROVE  Abstract!ShopNext
  <1> DEFINE j == job[w]
             o == j.order
             n == j.row.food_number
             c == foods[j.food]
             row == SaveFood(c, j.loaded, j.attrs)
  <1>1. /\ pc[w] = "restore" /\ orders' = orders /\ foods' = Put(foods, j.food, row)
        /\ unreturned' = unreturned \ {o}
    BY DEF LedgerOrderRestore, OrderRestore
  <1>2. /\ o \in DOMAIN orders /\ orders[o].food_id = j.food /\ orders[o].food_number = n
        /\ n \in Int /\ j.food \in DOMAIN foods /\ c \in FoodRow /\ j.loaded = c
        /\ j.attrs = Remaining(c.remaining + n) /\ o \in unreturned
    BY <1>1 DEF Inv, TypeOK, JobInv, Loaded, Cancelling, Restoring, Restoration, OrdersHaveFoods,
          OrderRow, SerialInv, Current
  <1>3. row.remaining = c.remaining + n
    <2>1. c.remaining \in Int /\ c.remaining + n \in Int
      BY <1>2 DEF FoodRow
    <2>2. QED
      BY <1>2, <2>1, NoneAssumption DEF SaveFood, Saved, Remaining
  <1>4. StockShown' = Abstract!Set(StockShown, j.food, c.remaining + n)
    BY <1>1, <1>3, StockWritten
  <1>5. BookShown[o].food = j.food /\ BookShown[o].units = n /\ StockShown[j.food] = c.remaining
    BY <1>2 DEF BookShown, EntryShown, StockShown
  <1>6. BookShown' = BookShown
    BY <1>1 DEF BookShown
  <1> HIDE DEF o, n, c
  <1>7. Abstract!GiveBack(o)
    BY <1>1, <1>2, <1>4, <1>5, <1>6 DEF Abstract!GiveBack
  <1>8. QED
    BY <1>2, <1>7 DEF Abstract!ShopNext

LEMMA FoodCommitOffers ==
    ASSUME NEW w \in Workers, LedgerFoodCommit(w)
    PROVE  Abstract!ShopNext
  <1> DEFINE f == job[w].food
  <1>1. PICK row : foods' = Put(foods, f, row)
    BY DEF LedgerFoodCommit, FoodCommit
  <1>2. orders' = orders /\ unreturned' = unreturned
    BY DEF LedgerFoodCommit, FoodCommit
  <1>3. StockShown' = Abstract!Set(StockShown, f, row.remaining)
    BY <1>1, StockWritten
  <1>4. f \in DOMAIN StockShown' /\ StockShown'[f] = row.remaining
    BY <1>3 DEF Abstract!Set
  <1>5. BookShown' = BookShown
    BY <1>2 DEF BookShown
  <1> HIDE DEF f
  <1>6. Abstract!Offer(f, StockShown'[f]) \/ Abstract!Adjust(f, StockShown'[f])
    BY <1>2, <1>3, <1>4, <1>5 DEF Abstract!Offer, Abstract!Adjust
  <1>7. QED
    BY <1>4, <1>6 DEF Abstract!ShopNext

\* Completing an order twice changes nothing the second time.
LEMMA FinishCompletes ==
    ASSUME Inv, SerialInv, NEW w \in Workers, OrderFinish(w), UNCHANGED history
    PROVE  Abstract!ShopNext
  <1> DEFINE o == job[w].order
             row == [orders[o] EXCEPT !.complete = Saved(@, job[w].row.complete, TRUE)]
  <1>1. /\ pc[w] = "finish" /\ orders' = Put(orders, o, row) /\ foods' = foods
        /\ unreturned' = unreturned
    BY DEF OrderFinish, history
  <1>2. o \in DOMAIN orders /\ orders[o] \in OrderRow /\ job[w].row = orders[o]
        /\ orders[o].send = TRUE
    BY <1>1 DEF Inv, TypeOK, JobInv, Loaded, SerialInv, Current, OrderRow
  <1>3. row = [orders[o] EXCEPT !.complete = TRUE]
    <2>1. orders[o].complete \in BOOLEAN
      BY <1>2 DEF OrderRow
    <2>2. Saved(orders[o].complete, job[w].row.complete, TRUE) = TRUE
      BY <1>2, <2>1, NoneAssumption, Zenon DEF Saved
    <2>3. QED
      BY <2>2, Zenon
  <1>4. EntryShown(row) = [EntryShown(orders[o]) EXCEPT !.completed = TRUE]
    <2>1. /\ row.food_id = orders[o].food_id /\ row.food_number = orders[o].food_number
          /\ row.complete = TRUE /\ row.send = orders[o].send
      BY <1>2, <1>3, Zenon DEF OrderRow
    <2> HIDE DEF row
    <2>2. EntryShown(row) = [food |-> orders[o].food_id, units |-> orders[o].food_number,
                             cancelled |-> ~orders[o].send, completed |-> TRUE]
      BY <2>1, Zenon DEF EntryShown
    <2>3. QED
      BY <2>2, EntryMarked, Zenon
  <1>5. o \in DOMAIN BookShown /\ BookShown[o] = EntryShown(orders[o])
    BY <1>2 DEF BookShown
  <1>6. ~BookShown[o].cancelled
    <2>1. EntryShown(orders[o]).cancelled = FALSE
      BY <1>2, Zenon DEF EntryShown
    <2>2. QED
      BY <1>5, <2>1, Zenon
  <1> HIDE DEF row
  <1>7. BookShown' = Abstract!Set(BookShown, o, [BookShown[o] EXCEPT !.completed = TRUE])
    <2>1. BookShown' = Abstract!Set(BookShown, o, EntryShown(row))
      BY <1>1, BookWritten
    <2>2. QED
      BY <1>4, <1>5, <2>1, Zenon
  <1>8. StockShown' = StockShown
    BY <1>1 DEF StockShown
  <1>9. Abstract!Complete(o)
    BY <1>1, <1>5, <1>6, <1>7, <1>8 DEF Abstract!Complete
  <1>10. o \in DOMAIN BookShown'
    BY <1>7 DEF Abstract!Set
  <1>11. QED
    BY <1>9, <1>10 DEF Abstract!ShopNext

LEMMA ShopStep ==
    ASSUME OneWorker, Inv, Inv', LedgerInv, SerialInv, [LedgerNext]_ledgerVars
    PROVE  [Abstract!ShopNext]_(Abstract!shopVars)
  <1>1. ASSUME foods' = foods, orders' = orders, unreturned' = unreturned
        PROVE  UNCHANGED Abstract!shopVars
    BY <1>1 DEF Abstract!shopVars, StockShown, BookShown
  <1>2. CASE UNCHANGED ledgerVars
    BY <1>1, <1>2 DEF ledgerVars, vars, history
  <1>3. ASSUME NEW w \in Workers, LedgerQuiet(w), ~OrderFinish(w)
        PROVE  UNCHANGED Abstract!shopVars
    <2>1. unreturned' = unreturned
      BY <1>3 DEF LedgerQuiet, history
    <2>2. foods' = foods /\ orders' = orders
      <3>1. CASE Arrive(w) \/ Fail(w)
        BY <3>1, ArriveAndFailWriteNothing DEF tables
      <3>2. QED
        BY <1>3, <3>1 DEF LedgerQuiet, OrderInsert, OrderEvent, FoodInsert, FoodNotify,
              OrderDeduct, OrderReload, FoodValidate, FoodPatch, tables
    <2>3. QED
      BY <1>1, <2>1, <2>2
  <1>4. ASSUME NEW w \in Workers, LedgerQuiet(w), OrderFinish(w) PROVE Abstract!ShopNext
    BY <1>4, FinishCompletes DEF LedgerQuiet
  <1>5. QED
    BY <1>2, <1>3, <1>4, CommitPlaces, UnsendCancels, RestoreGivesBack, FoodCommitOffers
       DEF LedgerNext

\* One request at a time, the handlers implement the shop: a commit places an
\* order, an unsend cancels one, a restore gives its units back, a finish
\* completes one, a food commit offers or adjusts, and no other step, a failure
\* included, changes anything the shop shows.
THEOREM SerialImplementsShop ==
    ASSUME OneWorker
    PROVE  LedgerSpec => ImplementsShop
  <1>1. LedgerInit => Abstract!ShopInit
    BY DEF LedgerInit, Init, NoRows, Abstract!ShopInit, StockShown, BookShown
  <1>2. Inv /\ Inv' /\ LedgerInv /\ SerialInv /\ [LedgerNext]_ledgerVars
        => [Abstract!ShopNext]_(Abstract!shopVars)
    BY ShopStep
  <1>3. LedgerSpec => []SerialInv
    BY SerialInvariance
  <1>4. QED
    BY <1>1, <1>2, <1>3, LedgerInvariance, AccountInvariance, PTL
       DEF LedgerSpec, ImplementsShop, Abstract!ShopSpec

-----------------------------------------------------------------------------
(* The unique rule of FoodController.                                      *)

\* Updates do not move foods between restaurants.
NoMoves == \A a \in Updates : a.restaurant_id = None

Offered(j) ==
    j.attrs = NoAttrs /\ ~NameTaken(j.loaded.name, j.loaded.restaurant_id, None)

Fetched(j) == j.loaded = foods[j.food] /\ j.attrs.restaurant_id = None

Checked(j) ==
    j.attrs.name # None => ~NameTaken(j.attrs.name, j.loaded.restaurant_id, j.food)

\* The name a handler is going to write is free, and the row it updates is the
\* one it has loaded.
Naming(w) ==
    /\ pc[w] = "create" => Offered(job[w])
    /\ pc[w] \in {"notify", "save"} => job[w].food < nextFood
    /\ pc[w] \in {"notify", "save"} /\ job[w].food \notin DOMAIN foods => Offered(job[w])
    /\ pc[w] \in {"validate", "patch", "notify", "save"} /\ job[w].food \in DOMAIN foods =>
          Fetched(job[w])
    /\ pc[w] \in {"patch", "notify", "save"} /\ job[w].food \in DOMAIN foods =>
          Checked(job[w])

FreshFoods == \A f \in DOMAIN foods : f < nextFood

NamesInv == UniqueNames /\ FreshFoods /\ \A w \in Workers : Naming(w)

\* A step that writes no food, or no name and restaurant of one.
LEMMA NamesStay ==
    ASSUME OneWorker, Inv, Inv', NamesInv, NEW w \in Workers, Naming(w)',
           nextFood <= nextFood', DOMAIN foods' = DOMAIN foods,
           \A f \in DOMAIN foods : /\ foods'[f].name = foods[f].name
                                   /\ foods'[f].restaurant_id = foods[f].restaurant_id
    PROVE  NamesInv'
  <1>1. UniqueNames'
    BY DEF NamesInv, UniqueNames
  <1>2. FreshFoods'
    <2>1. DOMAIN foods \subseteq Nat /\ nextFood \in Nat /\ nextFood' \in Nat
      BY DEF Inv, TypeOK
    <2>2. QED
      BY <2>1 DEF NamesInv, FreshFoods
  <1>3. \A v \in Workers : Naming(v)'
    BY DEF OneWorker
  <1>4. QED
    BY <1>1, <1>2, <1>3 DEF NamesInv

\* The handlers of orders write remaining only.
LEMMA OrdersKeepNames ==
    ASSUME Inv, NEW w \in Workers, OrderCommit(w) \/ OrderRestore(w)
    PROVE  /\ DOMAIN foods' = DOMAIN foods /\ nextFood' = nextFood
           /\ \A f \in DOMAIN foods : /\ foods'[f].name = foods[f].name
                                      /\ foods'[f].restaurant_id = foods[f].restaurant_id
           /\ pc'[w] \in {"event", "idle"}
  <1> DEFINE j == job[w]
             row == SaveFood(foods[j.food], j.loaded, j.attrs)
  <1>1. /\ foods' = Put(foods, j.food, row) /\ nextFood' = nextFood
        /\ pc[w] \in {"commit", "restore"} /\ pc'[w] \in {"event", "idle"}
    BY DEF OrderCommit, OrderRestore, Goto, Respond, Inv, TypeOK
  <1>2. j.food \in DOMAIN foods
    <2>1. Placing(w) /\ Loaded(w) /\ Cancelling(w) /\ OrdersHaveFoods
      BY Zenon DEF Inv, JobInv
    <2>2. pc[w] = "commit" \/ pc[w] = "restore"
      BY <1>1
    <2>3. CASE pc[w] = "commit"
      BY <2>1, <2>3 DEF Placing
    <2>4. CASE pc[w] = "restore"
      BY <2>1, <2>4 DEF Loaded, Cancelling, OrdersHaveFoods
    <2>5. QED
      BY <2>2, <2>3, <2>4
  <1>3. j.attrs.name = None /\ j.attrs.restaurant_id = None
    <2>1. Numbered(w) /\ Restoring(w)
      BY Zenon DEF Inv, JobInv
    <2>2. PICK n : j.attrs = Remaining(n)
      BY <1>1, <2>1 DEF Numbered, Restoring, Deduction, Restoration
    <2>3. QED
      BY <2>2, RemainingFields, Zenon
  <1>4. /\ row.name = foods[j.food].name
        /\ row.restaurant_id = foods[j.food].restaurant_id
    BY <1>3 DEF SaveFood, Saved
  <1> HIDE DEF row, j
  <1>5. QED
    BY <1>1, <1>2, <1>4 DEF Put

\* A request of an owner: the unique rule is checked against the table.
LEMMA FoodRequestNames ==
    ASSUME NoMoves, Inv, NamesInv, NEW w \in Workers,
           \/ \E name \in Names, r \in Restaurants, s \in Stocks : FoodStore(w, name, r, s)
           \/ \E f \in 1..MaxFoods, a \in Updates : FoodUpdate(w, f, a)
    PROVE  Naming(w)'
  <1>1. foods' = foods /\ nextFood' = nextFood
    BY Zenon DEF FoodStore, FoodUpdate, tables
  <1>2. ASSUME NEW r, Respond(w, r) PROVE Naming(w)'
    BY <1>2 DEF Respond, Inv, TypeOK, Naming
  <1>3. ASSUME NEW l, NEW j, Goto(w, l, j) PROVE pc'[w] = l /\ job'[w] = j
    BY <1>3 DEF Goto, Inv, TypeOK
  <1>4. ASSUME NEW name, NEW r, NEW s, FoodStore(w, name, r, s) PROVE Naming(w)'
    <2> DEFINE j == [NoJob EXCEPT !.loaded = [name |-> name, restaurant_id |-> r,
                                              remaining |-> s]]
    <2>1. CASE ~NameTaken(name, r, None) /\ Goto(w, "create", j)
      <3>1. pc'[w] = "create" /\ job'[w] = j
        BY <1>3, <2>1
      <3>2. j.attrs = NoAttrs /\ j.loaded.name = name /\ j.loaded.restaurant_id = r
        BY DEF NoJob
      <3> HIDE DEF j
      <3>3. QED
        BY <1>1, <2>1, <3>1, <3>2, Zenon DEF Naming, Offered, NameTaken
    <2>2. QED
      BY <1>2, <1>4, <2>1 DEF FoodStore
  <1>5. ASSUME NEW f, NEW a \in Updates, FoodUpdate(w, f, a) PROVE Naming(w)'
    <2> DEFINE j == [NoJob EXCEPT !.food = f, !.loaded = foods[f], !.attrs = a]
    <2>1. CASE Goto(w, "validate", j)
      <3>1. pc'[w] = "validate" /\ job'[w] = j
        BY <1>3, <2>1
      <3>2. j.food = f /\ j.loaded = foods[f] /\ j.attrs.restaurant_id = None
        BY DEF NoJob, NoMoves
      <3> HIDE DEF j
      <3>3. QED
        BY <1>1, <3>1, <3>2 DEF Naming, Fetched
    <2>2. QED
      BY <1>2, <1>5, <2>1, ZenonT(30) DEF FoodUpdate
  <1>6. QED
    BY <1>4, <1>5

\* The steps of the owner's handlers before the commit.
LEMMA FoodStepNames ==
    ASSUME Inv, NamesInv, NEW w \in Workers,
           FoodInsert(w) \/ FoodNotify(w) \/ FoodValidate(w) \/ FoodPatch(w)
    PROVE  Naming(w)'
  <1> DEFINE j == job[w]
  <1>1. /\ foods' = foods /\ nextFood \in Nat /\ j \in Jobs /\ DOMAIN foods \subseteq Nat
        /\ Naming(w) /\ JobInv(w) /\ FreshFoods
    BY DEF FoodInsert, FoodNotify, FoodValidate, FoodPatch, tables, NamesInv, Inv, TypeOK
  <1>2. ASSUME NEW l, NEW k, Goto(w, l, k) PROVE pc'[w] = l /\ job'[w] = k
    BY <1>2 DEF Goto, Inv, TypeOK
  <1>3. CASE FoodInsert(w)
    <2> DEFINE k == [j EXCEPT !.food = nextFood]
    <2>1. pc[w] = "create" /\ Goto(w, "notify", k) /\ nextFood' = nextFood + 1
      BY <1>3 DEF FoodInsert
    <2>2. pc'[w] = "notify" /\ job'[w] = k
      BY <1>2, <2>1
    <2>3. k.food = nextFood /\ k.loaded = j.loaded /\ k.attrs = j.attrs
      BY <1>1 DEF Jobs
    <2>4. nextFood \notin DOMAIN foods
      BY <1>1 DEF FreshFoods
    <2>5. nextFood < nextFood'
      BY <1>1, <2>1
    <2>6. Offered(j)
      BY <1>1, <2>1 DEF Naming
    <2> HIDE DEF k
    <2>7. QED
      BY <1>1, <2>2, <2>3, <2>4, <2>5, <2>6, Zenon DEF Naming, Offered, NameTaken
  <1>4. CASE FoodNotify(w)
    <2>1. pc[w] = "notify" /\ Goto(w, "save", j) /\ nextFood' = nextFood
      BY <1>4, ZenonT(30) DEF FoodNotify
    <2>2. pc'[w] = "save" /\ job'[w] = j
      BY <1>2, <2>1, ZenonT(30)
    <2>3. QED
      BY <1>1, <2>1, <2>2, ZenonT(30) DEF Naming, Offered, Fetched, Checked, NameTaken
  <1>5. CASE FoodValidate(w)
    <2>1. pc[w] = "validate" /\ nextFood' = nextFood
      BY <1>5, Zenon DEF FoodValidate, tables
    <2>2. CASE Respond(w, "refused")
      BY <2>2 DEF Respond, Inv, TypeOK, Naming
    <2>3. CASE Checked(j) /\ Goto(w, "patch", j)
      <3>1. pc'[w] = "patch" /\ job'[w] = j
        BY <1>2, <2>3, Zenon
      <3>2. QED
        BY <1>1, <2>1, <2>3, <3>1, ZenonT(30) DEF Naming, Fetched, Checked, NameTaken
    <2>4. QED
      BY <1>5, <2>2, <2>3, ZenonT(30) DEF FoodValidate, Checked
  <1>6. CASE FoodPatch(w)
    <2>1. pc[w] = "patch" /\ nextFood' = nextFood
      BY <1>6, ZenonT(30) DEF FoodPatch, tables
    <2>2. PICK l \in {"notify", "save"} : Goto(w, l, j)
      BY <1>6 DEF FoodPatch
    <2>3. pc'[w] = l /\ job'[w] = j
      BY <1>2, <2>2
    <2>4. j.food \in DOMAIN foods
      BY <1>1, <2>1 DEF JobInv, Adding
    <2>5. j.food < nextFood
      BY <1>1, <2>4 DEF FreshFoods
    <2>6. QED
      BY <1>1, <2>1, <2>3, <2>4, <2>5, ZenonT(30) DEF Naming, Fetched, Checked, NameTaken
  <1>7. QED
    BY <1>3, <1>4, <1>5, <1>6

\* The commit of a food writes a name that is free, or the one that was there.
LEMMA FoodCommitNames ==
    ASSUME OneWorker, Inv, Inv', NamesInv, NEW w \in Workers, FoodCommit(w)
    PROVE  NamesInv'
  <1> DEFINE j == job[w]
             row == IF j.food \in DOMAIN foods
                      THEN SaveFood(foods[j.food], j.loaded, j.attrs) ELSE j.loaded
  <1>1. /\ pc[w] = "save" /\ pc'[w] = "idle" /\ nextFood' = nextFood
        /\ foods' = Put(foods, j.food, row)
    BY DEF FoodCommit, Respond, Inv, TypeOK
  <1>2. j.food < nextFood /\ Naming(w) /\ DOMAIN foods \subseteq Nat
    BY <1>1 DEF NamesInv, Naming, Inv, TypeOK
  <1>3. \A g \in DOMAIN foods : g # j.food =>
           ~(foods[g].name = row.name /\ foods[g].restaurant_id = row.restaurant_id)
    <2>1. CASE j.food \notin DOMAIN foods
      <3>1. ~NameTaken(row.name, row.restaurant_id, None)
        BY <1>1, <1>2, <2>1, ZenonT(30) DEF Naming, Offered
      <3>2. None \notin DOMAIN foods
        BY <1>2, NoneAssumption
      <3> HIDE DEF row, j
      <3>3. QED
        BY <3>1, <3>2 DEF NameTaken
    <2>2. CASE j.food \in DOMAIN foods
      <3>1. Fetched(j) /\ Checked(j)
        BY <1>1, <1>2, <2>2, ZenonT(30) DEF Naming
      <3>2. row.restaurant_id = foods[j.food].restaurant_id
        BY <2>2, <3>1 DEF Fetched, SaveFood, Saved
      <3>3. CASE row.name = foods[j.food].name
        <4> HIDE DEF row, j
        <4> QED
          BY <2>2, <3>2, <3>3 DEF NamesInv, UniqueNames
      <3>4. CASE row.name # foods[j.food].name
        <4>1. row.name = j.attrs.name /\ j.attrs.name # None
          BY <2>2, <3>4 DEF SaveFood, Saved
        <4>2. ~NameTaken(row.name, row.restaurant_id, j.food)
          BY <3>1, <3>2, <4>1 DEF Fetched, Checked
        <4> HIDE DEF row, j
        <4>3. QED
          BY <4>2 DEF NameTaken
      <3>5. QED
        BY <3>3, <3>4, ZenonT(30)
    <2>3. QED
      BY <2>1, <2>2
  <1> HIDE DEF row, j
  <1>4. /\ DOMAIN foods' = DOMAIN foods \cup {j.food} /\ foods'[j.food] = row
        /\ \A g \in DOMAIN foods : g # j.food => foods'[g] = foods[g]
    BY <1>1 DEF Put
  <1>5. UniqueNames'
    BY <1>3, <1>4 DEF NamesInv, UniqueNames
  <1>6. FreshFoods'
    BY <1>1, <1>2, <1>4 DEF NamesInv, FreshFoods
  <1>7. \A v \in Workers : Naming(v)'
    BY <1>1 DEF OneWorker, Naming
  <1>8. QED
    BY <1>5, <1>6, <1>7 DEF NamesInv

LEMMA NamesStep ==
    ASSUME OneWorker, NoMoves, Inv, Inv', NamesInv, [Next]_vars
    PROVE  NamesInv'
  <1>1. CASE UNCHANGED vars
    BY <1>1 DEF vars, NamesInv, UniqueNames, FreshFoods, Naming, Offered, Fetched, Checked,
          NameTaken
  <1>2. ASSUME NEW w \in Workers, Arrive(w) \/ Advance(w) \/ Fail(w) PROVE NamesInv'
    <2>1. ASSUME foods' = foods, nextFood <= nextFood', Naming(w)' PROVE NamesInv'
      BY <2>1, NamesStay
    <2>2. nextFood <= nextFood
      BY DEF Inv, TypeOK
    <2>3. ASSUME pc'[w] \notin {"create", "validate", "patch", "notify", "save"}
          PROVE  Naming(w)'
      BY <2>3 DEF Naming
    <2>4. CASE Fail(w)
      <3>1. pc'[w] = "idle" /\ foods' = foods /\ nextFood' = nextFood
        BY <2>4 DEF Fail, Respond, tables, Inv, TypeOK
      <3>2. QED
        BY <2>1, <2>2, <2>3, <3>1
    <2>5. CASE Arrive(w)
      <3>1. foods' = foods /\ nextFood' = nextFood
        BY <2>5, ArriveAndFailWriteNothing DEF tables
      <3>2. ASSUME NEW u, NEW f, NEW n, NEW id, OrderStore(w, u, f, n, id)
            PROVE  pc'[w] \in {"insert", "idle"}
        BY <3>2 DEF OrderStore, Goto, Respond, Inv, TypeOK
      <3>3. ASSUME NEW o, OrderCancel(w, o) \/ OrderComplete(w, o)
            PROVE  pc'[w] \in {"unsend", "finish", "idle"}
        BY <3>3 DEF OrderCancel, OrderComplete, Goto, Respond, Inv, TypeOK
      <3>4. CASE pc'[w] \in {"insert", "unsend", "finish", "idle"}
        BY <2>1, <2>2, <2>3, <3>1, <3>4
      <3>5. CASE \/ \E name \in Names, r \in Restaurants, s \in Stocks :
                       FoodStore(w, name, r, s)
                 \/ \E f \in 1..MaxFoods, a \in Updates : FoodUpdate(w, f, a)
        <4>1. Naming(w)'
          BY <3>5, FoodRequestNames
        <4>2. QED
          BY <2>1, <2>2, <3>1, <4>1
      <3>6. QED
        BY <2>5, <3>2, <3>3, <3>4, <3>5 DEF Arrive
    <2>6. CASE OrderInsert(w) \/ OrderDeduct(w) \/ OrderEvent(w) \/ OrderUnsend(w)
               \/ OrderReload(w) \/ OrderFinish(w)
      <3>1. /\ foods' = foods /\ nextFood' = nextFood
            /\ pc'[w] \in {"deduct", "commit", "reload", "restore", "idle"}
        BY <2>6 DEF OrderInsert, OrderDeduct, OrderEvent, OrderUnsend, OrderReload,
              OrderFinish, Goto, Respond, tables, Inv, TypeOK
      <3>2. QED
        BY <2>1, <2>2, <2>3, <3>1
    <2>7. CASE OrderCommit(w) \/ OrderRestore(w)
      <3>1. Naming(w)'
        BY <2>3, <2>7, OrdersKeepNames
      <3>2. QED
        BY <2>2, <2>7, <3>1, OrdersKeepNames, NamesStay
    <2>8. CASE FoodInsert(w) \/ FoodNotify(w) \/ FoodValidate(w) \/ FoodPatch(w)
      <3>1. foods' = foods /\ nextFood <= nextFood'
        BY <2>2, <2>8 DEF FoodInsert, FoodNotify, FoodValidate, FoodPatch, tables, Inv, TypeOK
      <3>2. QED
        BY <2>1, <2>8, <3>1, FoodStepNames
    <2>9. CASE FoodCommit(w)
      BY <2>9, FoodCommitNames
    <2>10. QED
      BY <1>2, <2>4, <2>5, <2>6, <2>7, <2>8, <2>9 DEF Advance
  <1>3. QED
    BY <1>1, <1>2 DEF Next

\* One request at a time, and unless an update moves a food to another
\* restaurant, no two foods of a restaurant have the same name: what
\* Rule::unique found free is still free at the commit.
THEOREM SerialUniqueNames ==
    ASSUME OneWorker, NoMoves
    PROVE  Spec => []UniqueNames
  <1>1. Init => NamesInv
    BY DEF Init, NoRows, NamesInv, UniqueNames, FreshFoods, Naming
  <1>2. Inv /\ Inv' /\ NamesInv /\ [Next]_vars => NamesInv'
    BY NamesStep
  <1>3. NamesInv => UniqueNames
    BY DEF NamesInv
  <1>4. QED
    BY <1>1, <1>2, <1>3, Invariance, PTL DEF Spec
=============================================================================
