\* One call at a time, ONUs activated before their flows: an ONU that is deleted and activated again keeps its installed flows but loses their claims.
CONSTANTS
  Pons <- MCPons
  OnuIds <- MCOnuIds
  Ids <- MCIds
  FlowReqs <- MCFlowReqs
  Handlers = {h1}
  FlowHandlers = {h1}
  PacketHandlers = {}
  ChanCap = 1
  MaxFlowList = 1
  MaxReboots = 0
  ActivateBeforeFlows = TRUE
  RebootWhenIdle = TRUE
  NoValue = NoValue

SPECIFICATION Spec
INVARIANT InstalledFlowsExclusive
