\* One gRPC call at a time, with one reboot while no call is in progress.
\* A call that arrives once InitOlt has restarted the server may race its
\* unlocked ledger-map writes, or activate an ONU before the per-PON maps
\* exist; the process then stops, so deadlock is not checked.  Up to that
\* point the ledger stays exclusive and implements LedgerAbstract.
CONSTANTS
  Pons <- MCPons
  OnuIds <- MCOnuIds
  Ids <- MCIds
  FlowReqs <- MCFlowReqs
  Handlers = {h1}
  FlowHandlers = {h1}
  PacketHandlers = {}
  ChanCap = 1
  MaxFlowList = 2
  MaxReboots = 1
  ActivateBeforeFlows = TRUE
  RebootWhenIdle = TRUE
  NoValue = NoValue

SPECIFICATION Spec
CHECK_DEADLOCK FALSE
INVARIANT LedgerExclusive
PROPERTY LedgerRefinement
