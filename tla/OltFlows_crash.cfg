\* A flow handler, a goroutine taking ActivateOnu calls and a Reboot that may arrive during a call: the process must not stop.
CONSTANTS
  Pons <- MCPons
  OnuIds <- MCOnuIds
  Ids <- MCIds
  FlowReqs <- MCFlowPair
  Handlers = {h1, h2}
  FlowHandlers = {h1}
  PacketHandlers = {}
  ChanCap = 1
  MaxFlowList = 1
  MaxReboots = 1
  ActivateBeforeFlows = TRUE
  RebootWhenIdle = FALSE
  NoValue = NoValue

SPECIFICATION Spec
INVARIANT NoPanic
