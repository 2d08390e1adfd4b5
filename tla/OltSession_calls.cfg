\* One Enable stream, one reboot, and two other calls from two handler
\* goroutines (DisableOlt, ReenableOlt, EnablePonIf, DisablePonIf, SetAlarm).
CONSTANTS
  Pons <- MCPons
  Handlers = {h1, h2}
  MaxSessions = 1
  MaxReboots = 1
  MaxCalls = 2
  NumStats = 2
  AutoPonUp = TRUE
  NoValue = NoValue
SPECIFICATION Spec
INVARIANT TypeOK

\* The simulator idles when the controller stops calling, and a panic ends it.
CHECK_DEADLOCK FALSE
