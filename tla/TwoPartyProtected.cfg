\* Unattended A, browser B; faults anywhere outside the exposure windows, and
\* nodes that may accept claim and refund both.
SPECIFICATION Spec
CONSTANTS
  Agent <- CliBrowser
  MaxCrashes <- TwoEach
  MaxAttempts = 2
  Timeouts = TRUE
  Market = TRUE
  RpcFails = TRUE
  Forks = TRUE
  Windows = {}
INVARIANTS
  LocksOnce
  RefundInHand
  Extractable
  ClosedA
  ClosedB
\* A finished or stuck pair of sessions takes no further step.
CHECK_DEADLOCK FALSE
