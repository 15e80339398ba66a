\* Two relays, one of which dials the other, and a page; with and without a
\* full book and a spent budget.
SPECIFICATION FairSpec
CONSTANTS
  ra = ra
  rb = rb
  w = w
  o1 = o1
  o2 = o2
  NoOrder = NoOrder
  Relays <- Two
  Browsers <- Page
  Orders <- Both
  Config <- OneDials
  Expiry <- Lives
  MaxBook = 1
  AllWindows <- Rough
  Horizon = 1
  MaxEvents = 1
INVARIANTS
  Dedup
PROPERTIES
  Spread
\* Relays without traffic wait, and time stops at the horizon.
CHECK_DEADLOCK FALSE
