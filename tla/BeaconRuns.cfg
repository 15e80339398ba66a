SPECIFICATION Spec
CONSTANTS
  n1 = n1
  n2 = n2
  liar = liar
  Nodes <- Three
  Liars <- OneLiar
  AllWindows <- Rough
  Total = 2
  Refreshes = 1
  Rounds = 1
  Epoch = 2
  Ttl = 2
  Skew = 1
  Clocks <- Off
  MaxPosts = 2
  Horizon = 2
SYMMETRY Sym
CONSTRAINT Bounded
INVARIANTS
  NoBurn
  Whole
  BookTrue
CHECK_DEADLOCK FALSE
