---------------------------- MODULE OrderLedger -----------------------------
(***************************************************************************)
(* Ordering with an account of where the units of each food are.  The      *)
(* variables added here are history variables: they record what the        *)
(* handlers did and no handler reads them.                                 *)
(***************************************************************************)
EXTENDS Ordering

VARIABLES
    ledger,     \* per food: supply, live, owed, clash (see Entries)
    unreturned  \* cancelled orders whose units are not back in stock

history == <<ledger, unreturned>>
ledgerVars == <<vars, history>>

Entries == [supply : Int,    \* units the owner has put on offer
            live : Int,      \* units in orders that are not cancelled
            owed : Int,      \* units of cancelled orders, not yet put back
            clash : BOOLEAN] \* a handler has acted on a value it no longer held

\* The update of j overwrites a remaining that is not the one j was computed from.
Stale(j) ==
    /\ j.attrs.remaining \notin {None, j.loaded.remaining}
    /\ foods[j.food].remaining # j.loaded.remaining

LedgerInit == Init /\ ledger = NoRows /\ unreturned = {}

LedgerOrderCommit(w) ==
    LET j == job[w] e == ledger[j.food] IN
    /\ OrderCommit(w)
    /\ ledger' = Put(ledger, j.food, [e EXCEPT !.live = @ + j.row.food_number,
                                               !.clash = @ \/ Stale(j)])
    /\ UNCHANGED unreturned

\* A cancellation of an order that was cancelled since it was loaded clashes.
LedgerOrderUnsend(w) ==
    LET j == job[w] e == ledger[j.food] n == j.row.food_number IN
    /\ OrderUnsend(w)
    /\ ledger' = Put(ledger, j.food,
                     IF orders[j.order].send
                       THEN [e EXCEPT !.live = @ - n, !.owed = @ + n]
                       ELSE [e EXCEPT !.clash = TRUE])
    /\ unreturned' = IF orders[j.order].send THEN unreturned \cup {j.order}
                                             ELSE unreturned

LedgerOrderRestore(w) ==
    LET j == job[w] e == ledger[j.food] IN
    /\ OrderRestore(w)
    /\ ledger' = Put(ledger, j.food, [e EXCEPT !.owed = @ - j.row.food_number,
                                               !.clash = @ \/ Stale(j)])
    /\ unreturned' = unreturned \ {j.order}

\* The owner's number is not computed from a loaded one: it sets the supply.
LedgerFoodCommit(w) ==
    LET j == job[w] f == j.food IN
    /\ FoodCommit(w)
    /\ ledger' = Put(ledger, f,
                     IF f \in DOMAIN foods
                       THEN [ledger[f] EXCEPT
                                !.supply = @ + foods'[f].remaining - foods[f].remaining]
                       ELSE [supply |-> j.loaded.remaining, live |-> 0,
                             owed |-> 0, clash |-> FALSE])
    /\ UNCHANGED unreturned

\* The steps that move no units.
LedgerQuiet(w) ==
    /\ \/ Arrive(w) \/ Fail(w)
       \/ OrderInsert(w) \/ OrderDeduct(w) \/ OrderEvent(w)
       \/ OrderReload(w) \/ OrderFinish(w)
       \/ FoodInsert(w) \/ FoodNotify(w) \/ FoodValidate(w) \/ FoodPatch(w)
    /\ UNCHANGED history

LedgerNext ==
    \E w \in Workers :
        \/ LedgerOrderCommit(w) \/ LedgerOrderUnsend(w) \/ LedgerOrderRestore(w)
        \/ LedgerFoodCommit(w) \/ LedgerQuiet(w)

LedgerSpec == LedgerInit /\ [][LedgerNext]_ledgerVars

-----------------------------------------------------------------------------

\* Every unit of a food is on offer, in a live order or owed by a cancelled
\* one, unless a handler overwrote a remaining it had not seen or cancelled an
\* order cancelled meanwhile: nothing else, no failure at any point and no
\* interleaving of orders, cancellations and owner updates, loses a unit.
Conserved ==
    \A f \in DOMAIN foods :
        LET e == ledger[f] IN
        ~e.clash => foods[f].remaining + e.live + e.owed = e.supply

\* The orders that are not cancelled never ask for more than the owner put on
\* offer: food_number is validated with lte:remaining.
NotOversold == \A f \in DOMAIN foods : ledger[f].live <= ledger[f].supply

\* The units of a cancelled order go back into stock at most once: a second
\* cancellation is refused with 'the order has been canceled'.
ReturnedOnce == \A f \in DOMAIN foods : ledger[f].owed >= 0

\* The abstract shop seen through the tables.
StockShown == [f \in DOMAIN foods |-> foods[f].remaining]

EntryShown(row) == [food |-> row.food_id, units |-> row.food_number,
                    cancelled |-> ~row.send, completed |-> row.complete]

BookShown == [o \in DOMAIN orders |-> EntryShown(orders[o])]

Abstract == INSTANCE Shop WITH
    stock <- StockShown, book <- BookShown, owed <- unreturned

\* One request at a time, the handlers implement the shop: every step of a
\* handler is a step of the shop or changes nothing the shop shows.
ImplementsShop == Abstract!ShopSpec
=============================================================================
