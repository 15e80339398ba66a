\* Two unattended agents; faults anywhere outside the windows, frontier reads answered.
SPECIFICATION FairSpec
CONSTANTS
  Agent <- CliCli
  MaxCrashes <- TwoEach
  MaxAttempts = 2
  Timeouts = TRUE
  Market = TRUE
  RpcFails = FALSE
  Forks = FALSE
  Windows = {}
PROPERTIES
  Ends
\* A finished or stuck pair of sessions takes no further step.
CHECK_DEADLOCK FALSE
