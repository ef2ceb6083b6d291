SPECIFICATION FairSpec
CONSTANTS
  Workers = {w1, w2}
  Users = {u1}
  Restaurants = {r1}
  Names = {n1}
  Quantities = {1}
  Stocks = {2}
  Updates <- Restock
  DeprivateList <- NoBans
  MaxFoods = 1
  MaxOrders = 2
  None = None
PROPERTIES
  EveryRequestAnswered
