\* Two Enable streams on two handler goroutines (a reconnect), no reboot and
\* no other call: the first Enable's loop, started after the second Enable
\* replaced o.enableContext (olt.go:525), still receives from o.channel
\* (olt.go:883) beside the second Enable's loop.
CONSTANTS
  Pons <- MCPons
  Handlers = {h1, h2}
  MaxSessions = 2
  MaxReboots = 0
  MaxCalls = 0
  NumStats = 2
  AutoPonUp = FALSE
  NoValue = NoValue
SPECIFICATION Spec
INVARIANT IndicationOrder
CHECK_DEADLOCK FALSE
