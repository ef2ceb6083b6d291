-------------------------------- MODULE Shop --------------------------------
(***************************************************************************)
(* What ordering promises a user and an owner: foods with a stock, and     *)
(* orders that take from it and give it back, each step indivisible.  An   *)
(* order takes what is there; a cancelled order gives its units back once, *)
(* unless the cancellation broke off, in which case they stay owed.        *)
(***************************************************************************)
EXTENDS Integers

VARIABLES
    stock,  \* units on offer, by food
    book,   \* orders, by number: food, units, state
    owed    \* the cancelled orders whose units have not been given back

shopVars == <<stock, book, owed>>

Set(f, x, v) == [y \in DOMAIN f \cup {x} |-> IF y = x THEN v ELSE f[y]]

ShopInit == DOMAIN stock = {} /\ DOMAIN book = {} /\ owed = {}

Offer(f, n) ==
    /\ f \notin DOMAIN stock
    /\ stock' = Set(stock, f, n)
    /\ UNCHANGED <<book, owed>>

Adjust(f, n) ==
    /\ f \in DOMAIN stock
    /\ stock' = Set(stock, f, n)
    /\ UNCHANGED <<book, owed>>

Place(o, f, n) ==
    /\ o \notin DOMAIN book
    /\ f \in DOMAIN stock /\ n <= stock[f]
    /\ stock' = Set(stock, f, stock[f] - n)
    /\ book' = Set(book, o, [food |-> f, units |-> n,
                             cancelled |-> FALSE, completed |-> FALSE])
    /\ UNCHANGED owed

Complete(o) ==
    /\ o \in DOMAIN book /\ ~book[o].cancelled
    /\ book' = Set(book, o, [book[o] EXCEPT !.completed = TRUE])
    /\ UNCHANGED <<stock, owed>>

Cancel(o) ==
    /\ o \in DOMAIN book /\ ~book[o].cancelled
    /\ book' = Set(book, o, [book[o] EXCEPT !.cancelled = TRUE])
    /\ owed' = owed \cup {o}
    /\ UNCHANGED stock

GiveBack(o) ==
    /\ o \in owed
    /\ stock' = Set(stock, book[o].food, stock[book[o].food] + book[o].units)
    /\ owed' = owed \ {o}
    /\ UNCHANGED book

ShopNext ==
    \/ \E f \in DOMAIN stock' : Offer(f, stock'[f]) \/ Adjust(f, stock'[f])
    \/ \E o \in DOMAIN book' :
          Place(o, book'[o].food, book'[o].units) \/ Complete(o) \/ Cancel(o)
    \/ \E o \in owed : GiveBack(o)

ShopSpec == ShopInit /\ [][ShopNext]_shopVars
=============================================================================
