\* A FlowRemove arrives before the ONU has applied the FlowAdd: GetOnuByFlowId finds no ONU and the removal is never sent.
CONSTANTS
  Pons <- MCPons
  OnuIds <- MCOnuIds
  Ids <- MCIds
  FlowReqs <- MCFlowReqs
  Handlers = {h1}
  FlowHandlers = {h1}
  PacketHandlers = {}
  ChanCap = 1
  MaxFlowList = 1
  MaxReboots = 0
  ActivateBeforeFlows = TRUE
  RebootWhenIdle = TRUE
  NoValue = NoValue

SPECIFICATION Spec
INVARIANT AppliedFlowsTracked
