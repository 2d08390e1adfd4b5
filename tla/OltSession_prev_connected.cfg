\* One Enable stream, a GetDeviceInfo on a second goroutine and one reboot:
\* GetDeviceInfo's write of o.PreviouslyConnected lands after RestartOLT's
\* reset of it.
CONSTANTS
  Pons <- MCPons
  Handlers = {h1, h2}
  MaxSessions = 1
  MaxReboots = 1
  MaxCalls = 1
  NumStats = 1
  AutoPonUp = FALSE
  NoValue = NoValue
SPECIFICATION Spec
INVARIANT NotConnectedWhileRestarting
CHECK_DEADLOCK FALSE
