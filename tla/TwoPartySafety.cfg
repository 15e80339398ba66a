\* Two browsers; every fault, every exposure window.
SPECIFICATION Spec
CONSTANTS
  Agent <- BrowserBrowser
  MaxCrashes <- TwoEach
  MaxAttempts = 2
  Timeouts = TRUE
  Market = TRUE
  RpcFails = TRUE
  Forks = FALSE
  Windows = {"unprotected", "presign", "lock", "immature"}
INVARIANTS
  TypeOK
PROPERTIES
  Implements
  FreshNonce
\* A finished or stuck pair of sessions takes no further step.
CHECK_DEADLOCK FALSE
