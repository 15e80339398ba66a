SPECIFICATION Spec
CONSTANTS
  Sides = {0, 1}
  Unit = 4000
  Mids <- Around
  Fee = 2
  Bps = {60}
  MinBps = 30
  MaxLoss = 50
  Balances = {900, 3000}
  Ttl = 5
  Horizon = 7
INVARIANTS
  FreshMid
  WorstNet
  Viable
  Covered
CHECK_DEADLOCK FALSE
