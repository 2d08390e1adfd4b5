\* Two Enable streams (a reconnect) and one reboot; no other calls.
CONSTANTS
  Pons <- MCPons
  Handlers = {h1, h2}
  MaxSessions = 2
  MaxReboots = 1
  MaxCalls = 0
  NumStats = 1
  AutoPonUp = FALSE
  NoValue = NoValue
SPECIFICATION Spec

PROPERTY SendsComplete
\* The simulator idles when the controller stops calling, and a panic ends it.
CHECK_DEADLOCK FALSE
