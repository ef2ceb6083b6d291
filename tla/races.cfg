SPECIFICATION LedgerSpec
CONSTANTS
  Workers = {w1, w2}
  Users = {u1}
  Restaurants = {r1}
  Names = {n1}
  Quantities = {2}
  Stocks = {3}
  Updates <- Restock
  DeprivateList <- NoBans
  MaxFoods = 1
  MaxOrders = 2
  None = None
INVARIANTS
  TypeOK
  NonNegativeStock
  AnnouncedOrdersExist
  Conserved
  LedgerExact
PROPERTIES
  OrderHistory
SYMMETRY WorkerSymmetry
