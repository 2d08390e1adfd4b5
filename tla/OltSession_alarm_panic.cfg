\* One Enable stream, one reboot, one other call.
CONSTANTS
  Pons <- MCPons
  Handlers = {h1, h2}
  MaxSessions = 1
  MaxReboots = 1
  MaxCalls = 1
  NumStats = 2
  AutoPonUp = FALSE
  NoValue = NoValue
SPECIFICATION Spec
INVARIANT NoPanic
CHECK_DEADLOCK FALSE
