--------------------------- MODULE MCOrderLedger ---------------------------
(***************************************************************************)
(* Instances of OrderLedger for TLC.                                       *)
(***************************************************************************)
EXTENDS OrderLedger, MCOrdering, FiniteSetsExt

\* The ledger agrees with the orders table: live is the sum of food_number over
\* the orders of the food that are not cancelled.
LedgerExact ==
    \A f \in DOMAIN foods :
        LET units(o) == orders[o].food_number
            live == {o \in DOMAIN orders : orders[o].food_id = f /\ orders[o].send}
        IN  ledger[f].live = MapThenSumSet(units, live)
=============================================================================
