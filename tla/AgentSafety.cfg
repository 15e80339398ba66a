\* A watching maker that sells XNO and cron ticks of one that buys it; one death
\* or one operator's command.
SPECIFICATION Spec
CONSTANTS
  t1 = t1
  t2 = t2
  p1 = p1
  p2 = p2
  NoTaker = NoTaker
  Takers <- Two
  Procs <- TwoProcs
  Prices = {"good", "poor", "none"}
  Small <- First
  MaxBlocks = 2
  RvSlots = 2
  MaxEvents = 1
  Watcher = p1
  Makers <- TwoMakers
  Stuck = {}
  AllWindows <- FaultSets
INVARIANTS
  SessionKept
  StakedOnce
CONSTRAINT Bounded
PROPERTIES
  NoOrphan
