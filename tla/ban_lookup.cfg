SPECIFICATION Spec
CONSTANTS
  Workers = {w1}
  Users = {u1, u2}
  Restaurants = {r1}
  Names = {n1}
  Quantities = {1}
  Stocks = {1}
  Updates <- NoUpdates
  DeprivateList <- OtherIsFree
  MaxFoods = 1
  MaxOrders = 1
  None = None
INVARIANTS
  BannedHaveNoOrders
