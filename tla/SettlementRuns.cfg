\* Three faults anywhere anywhere, failed checkpoint writes among them.
SPECIFICATION FairSpec
CONSTANTS
  n1 = n1
  n2 = n2
  n3 = n3
  Nodes <- ThreeNodes
  Liars <- OneLiar
  Quorum = 2
  MaxFaults = 3
INVARIANTS
  TypeOK
  RevealCemented
  Extractable
  CheckpointKept
PROPERTIES
  Implements
  Settles
\* A process that is down without a checkpoint stays down.
CHECK_DEADLOCK FALSE
