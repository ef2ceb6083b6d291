SPECIFICATION LedgerSpec
CONSTANTS
  Workers = {w1}
  Users = {u1, u2}
  Restaurants = {r1, r2}
  Names = {n1, n2}
  Quantities = {1, 2}
  Stocks = {2}
  Updates <- RenameOrRestock
  DeprivateList <- ThreeRecords
  MaxFoods = 2
  MaxOrders = 2
  None = None
INVARIANTS
  NotOversold
  ReturnedOnce
  UniqueNames
PROPERTIES
  ImplementsShop
SYMMETRY FoodSymmetry
