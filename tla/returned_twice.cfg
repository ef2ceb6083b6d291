SPECIFICATION LedgerSpec
CONSTANTS
  Workers = {w1, w2}
  Users = {u1}
  Restaurants = {r1}
  Names = {n1}
  Quantities = {1, 2}
  Stocks = {2}
  Updates <- NoUpdates
  DeprivateList <- NoBans
  MaxFoods = 1
  MaxOrders = 2
  None = None
INVARIANTS
  ReturnedOnce
SYMMETRY WorkerSymmetry
