\* Three uneven chunks, aborts and reorgs at any stage.
SPECIFICATION FairSpec
CONSTANTS
  Chunks <- ThreeChunks
  Aborts = TRUE
  Reorgs = TRUE
INVARIANTS
  TypeOK
  LossBound
  OneInFlight
  ConfirmBeforeReveal
  PresignMature
  SeenLockBacked
PROPERTIES
  Completes
\* Both machines end in a terminal stage.
CHECK_DEADLOCK FALSE
