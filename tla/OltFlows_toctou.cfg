\* Two concurrent FlowAdds both pass validateFlow before either stores: an id is claimed by two ONUs.
CONSTANTS
  Pons <- MCPons
  OnuIds <- MCOnuIds
  Ids <- MCIds
  FlowReqs <- MCFlowReqs
  Handlers = {h1, h2}
  FlowHandlers = {h1, h2}
  PacketHandlers = {}
  ChanCap = 1
  MaxFlowList = 1
  MaxReboots = 0
  ActivateBeforeFlows = TRUE
  RebootWhenIdle = TRUE
  NoValue = NoValue

SPECIFICATION Spec
INVARIANT LedgerExclusive
\* A concurrent map access with ActivateOnu is fatal and stops the process.
CHECK_DEADLOCK FALSE
