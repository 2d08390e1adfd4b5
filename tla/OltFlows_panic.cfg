\* A flow goroutine (h1), which also sends OMCI and packet-out messages, and
\* an activation goroutine (h2); Reboot may arrive while a call is in
\* progress.  A FlowAdd validated before the reboot's delete transition
\* panics on the cleared maps, and ActivateOnu's and InitOlt's unlocked map
\* writes can meet a FlowRemove: the process stops, so deadlock is not
\* checked.  Up to the fault no claim outlives its flow in olt.Flows.
CONSTANTS
  Pons <- MCPons
  OnuIds <- MCOnuIds
  Ids <- MCIds
  FlowReqs <- MCFlowPair
  Handlers = {h1, h2}
  FlowHandlers = {h1}
  PacketHandlers = {h1}
  ChanCap = 1
  MaxFlowList = 1
  MaxReboots = 1
  ActivateBeforeFlows = TRUE
  RebootWhenIdle = FALSE
  NoValue = NoValue

SPECIFICATION Spec
CHECK_DEADLOCK FALSE
INVARIANT NoLeakedClaims
