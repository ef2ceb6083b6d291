SPECIFICATION Spec
CONSTANTS
  Workers = {w1}
  Users = {u1}
  Restaurants = {r1}
  Names = {n1}
  Quantities = {1}
  Stocks = {1}
  Updates <- NoUpdates
  DeprivateList <- NoBans
  MaxFoods = 1
  MaxOrders = 1
  None = None
INVARIANTS
  AnnouncedFoodsExist
