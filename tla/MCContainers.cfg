SPECIFICATION ContainersSpec
CONSTANTS
  Data = {d1, d2, d3, d4, d5}
  Priorities = {1, 2, 3}
  InitialLength = 2
  Null = null
  Garbage = garbage
  Keys = {"main", "log", "logo", "text"}
  Depths = {1, 2}
  Values <- MCValues
  NoValue = none
  Hash <- MCHash
  InitialSize = 4
INVARIANTS
  ShapeOK
  ChainsOK
  TexturesAgree
PROPERTIES
  NothingLost
  OrderKept
  ActsAsCallQueue
  ImplementsMap
CHECK_DEADLOCK FALSE
