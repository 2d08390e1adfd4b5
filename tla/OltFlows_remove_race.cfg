\* A FlowRemove runs between an in-flight FlowAdd's validation and its stores: the stores leave claims of a removed flow.
CONSTANTS
  Pons <- MCPons
  OnuIds <- MCOnuIds
  Ids <- MCIds
  FlowReqs <- MCFlowReqs
  Handlers = {h1, h2}
  FlowHandlers = {h1, h2}
  PacketHandlers = {}
  ChanCap = 1
  MaxFlowList = 1
  MaxReboots = 0
  ActivateBeforeFlows = TRUE
  RebootWhenIdle = TRUE
  NoValue = NoValue

SPECIFICATION Spec
INVARIANT NoLeakedClaims
\* A concurrent map access with ActivateOnu is fatal and stops the process.
CHECK_DEADLOCK FALSE
