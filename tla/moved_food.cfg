SPECIFICATION Spec
CONSTANTS
  Workers = {w1}
  Users = {u1}
  Restaurants = {r1, r2}
  Names = {n1}
  Quantities = {1}
  Stocks = {1}
  Updates <- Move
  DeprivateList <- NoBans
  MaxFoods = 2
  MaxOrders = 1
  None = None
INVARIANTS
  UniqueNames
