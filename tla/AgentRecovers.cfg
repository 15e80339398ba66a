\* Cron ticks of a seller of XNO at a good price, one slot; one death or command.
SPECIFICATION FairSpec
CONSTANTS
  t1 = t1
  t2 = t2
  p1 = p1
  p2 = p2
  NoTaker = NoTaker
  Takers <- Two
  Procs <- OneProc
  Prices = {"good"}
  Small <- First
  MaxBlocks = 2
  RvSlots = 1
  MaxEvents = 1
  Watcher = p1
  Makers <- CronSeller
  Stuck = {}
  AllWindows <- NoWindow
PROPERTIES
  Recovered
