------------------------------ MODULE OltFlows ------------------------------
(***************************************************************************)
(* Flow provisioning of the simulated OLT (internal/bbsim/devices/olt.go). *)
(*                                                                         *)
(* The Alloc-ID and GEM-port ledgers (AllocIDs, GemPortIDs), the FlowAdd   *)
(* and FlowRemove gRPC handlers that validate against and update them,     *)
(* ActivateOnu and DeleteOnu, the ledger side of RestartOLT and of Enable, *)
(* and the ONU's consumption of the flow messages those handlers enqueue.  *)
(*                                                                         *)
(* gRPC handlers run concurrently, one goroutine per call.  A handler is   *)
(* split into steps at the points where it takes or releases a ledger lock *)
(* or sends on a channel; each step is one action.                         *)
(*                                                                         *)
(* A ledger is a four-level Go map pon -> onu -> port -> id -> set of flow *)
(* ids.  It is modelled by which per-PON and per-ONU maps exist (writing   *)
(* into a missing one is a nil-map panic) and by the set of claims         *)
(* <<onu, id, flowId>>; the port level is created on demand by every store *)
(* and never read by validation or free, so it is left out.                *)
(***************************************************************************)
EXTENDS Integers, Sequences, SequencesExt, FiniteSets

CONSTANTS
  Pons,         \* PON port ids
  OnuIds,       \* ONU ids on every PON
  Ids,          \* Alloc-ID / GEM-port id values
  FlowReqs,     \* the flows the controller sends: [id, pon, onu, alloc, gems]
  Handlers,     \* gRPC handler goroutines that may run at once
  FlowHandlers, \* the handlers that take FlowAdd / FlowRemove calls
  PacketHandlers, \* the handlers that take OmciMsgOut / OnuPacketOut calls
  ChanCap,      \* capacity of an ONU's message channel
  MaxFlowList,  \* bound: length of an ONU's Flows list
  MaxReboots,   \* bound: number of OLT reboots
  ActivateBeforeFlows, \* controller sends FlowAdd only to ONUs it activated
  RebootWhenIdle,      \* Reboot arrives only when no handler is running
  NoValue              \* model value: a handler's empty flow / ONU argument

Onus  == Pons \X OnuIds
Kinds == {"alloc", "gem"}
FlowIds == {f.id : f \in FlowReqs}
FlowOf(fid) == CHOOSE f \in FlowReqs : f.id = fid
OnuOf(f) == <<f.pon, f.onu>>

\* "this loop assumes that flow IDs are unique per device" (freeGemPortId)
ASSUME \A f, g \in FlowReqs : f.id = g.id => f = g
ASSUME FlowHandlers \subseteq Handlers /\ PacketHandlers \subseteq Handlers
ASSUME \A f \in FlowReqs : f.pon \in Pons /\ f.onu \in OnuIds
                           /\ f.alloc \in Ids /\ f.gems \subseteq Ids /\ f.gems # {}

NoFlow == NoValue
NoOnu  == NoValue
PCs == {"idle", "add_validate", "add_store_gem", "add_store_alloc", "add_enqueue",
        "rem_free_alloc", "rem_lookup", "rem_find_onu", "rem_enqueue", "activate",
        "activate_enable", "omci_send", "pkt_send"}
Msgs == [type : {"FlowAdd", "FlowRemoved"}, flow : FlowIds]
          \cup [type : {"OMCI", "OnuPacketOut"}, flow : {NoFlow}]
OnuStates == {"created", "enabled", "disabled"}

VARIABLES
  ponMap,     \* [Kinds -> SUBSET Pons]: AllocIDs[pon] / GemPortIDs[pon] exist
  onuMap,     \* [Kinds -> SUBSET Onus]: AllocIDs[pon][onu] / GemPortIDs[pon][onu] exist
  claims,     \* [Kinds -> SUBSET (Onus \X Ids \X FlowIds)]
  flowTable,  \* keys of olt.Flows (sync.Map FlowKey -> Flow)
  onuFlows,   \* onu.Flows: the flow keys FlowAdd appended for each ONU
  onuState,   \* ONU InternalState
  onuChan,    \* onu.Channel
  applied,    \* onu.FlowIds: flows the ONU has applied from its channel
  handler,    \* [Handlers -> [pc, flow, onu]]
  oltState,   \* OLT InternalState
  enabledOnce,\* an enableContext exists (Enable was called before)
  serverUp,   \* the OpenOLT gRPC server accepts calls
  rebootPc,   \* where the RestartOLT goroutine is
  reboots,    \* reboots completed
  ctlActive,  \* ONUs the controller has activated and not deleted
  crashed     \* a goroutine panicked: the process is gone

ledgerVars  == <<ponMap, onuMap, claims>>
onuVars     == <<onuFlows, onuState, onuChan, applied>>
oltVars     == <<oltState, enabledOnce, serverUp, rebootPc, reboots>>
vars == <<ledgerVars, flowTable, onuVars, handler, oltVars, ctlActive, crashed>>

-----------------------------------------------------------------------------
(* Ledger operators                                                        *)

IdsOf(k, f) == IF k = "alloc" THEN {f.alloc} ELSE f.gems
ClaimsOf(k, f) == {<<OnuOf(f), i, f.id>> : i \in IdsOf(k, f)}

\* validateFlow: no other ONU of the flow's PON holds one of its GEM ports
\* or its Alloc-ID.  (Mutant: the Alloc-ID ledger is not consulted.)
ValidFlowGemOnly(f) ==
  \A c \in claims["gem"] :
     (c[1][1] = f.pon /\ c[1] # OnuOf(f)) => c[2] \notin IdsOf("gem", f)

ValidFlow(f) ==
  \A k \in Kinds : \A c \in claims[k] :
     (c[1][1] = f.pon /\ c[1] # OnuOf(f)) => c[2] \notin IdsOf(k, f)

\* Mutant: an id the flow referenced is deleted with every flow on it, as if
\* the len(...) == 0 check were dropped.
FreeWholeId(k, fid) ==
  {c \in claims[k] : ~\E d \in claims[k] : d[3] = fid /\ d[1] = c[1] /\ d[2] = c[2]}

\* freeGemPortId / freeAllocId: drop every claim by the flow id, on any PON
\* and ONU; an id left with no flow disappears with it.
Free(k, fid) == {c \in claims[k] : c[3] # fid}

\* InitOlt, after it has started the server and made the channel: a fresh
\* per-PON map for every PON, no ONU map under them, written with no lock.
InitOlt ==
  /\ ponMap' = [k \in Kinds |-> Pons]
  /\ onuMap' = [k \in Kinds |-> {}]
  /\ claims' = [k \in Kinds |-> {}]

\* clearAllResources: both ledgers become empty top-level maps.
ClearAllResources ==
  /\ ponMap' = [k \in Kinds |-> {}]
  /\ onuMap' = [k \in Kinds |-> {}]
  /\ claims' = [k \in Kinds |-> {}]

Goto(h, pc) == handler' = [handler EXCEPT ![h].pc = pc]
Done(h) == handler' = [handler EXCEPT ![h] = [pc |-> "idle", flow |-> NoFlow, onu |-> NoOnu]]
HFlow(h) == FlowOf(handler[h].flow)

-----------------------------------------------------------------------------
(* FlowAdd                                                                 *)

\* Mutant: olt.Flows.Store is skipped (the enablePerf path) but the ledger is
\* still written.
FlowAddBeginNoStore(h, f) ==
  /\ ~crashed
  /\ handler[h].pc = "idle" /\ serverUp /\ h \in FlowHandlers
  /\ ActivateBeforeFlows => OnuOf(f) \in ctlActive
  /\ Len(onuFlows[OnuOf(f)]) < MaxFlowList
  /\ onuState[OnuOf(f)] # "disabled"
  /\ onuFlows' = [onuFlows EXCEPT ![OnuOf(f)] = Append(@, f.id)]
  /\ handler' = [handler EXCEPT ![h] = [pc |-> "add_validate", flow |-> f.id, onu |-> OnuOf(f)]]
  /\ UNCHANGED <<ledgerVars, flowTable, onuState, onuChan, applied, oltVars, ctlActive, crashed>>

\* The call arrives: the flow is stored in olt.Flows, rejected if its ONU is
\* disabled, otherwise appended to onu.Flows before validation.
FlowAddBegin(h, f) ==
  /\ ~crashed
  /\ handler[h].pc = "idle" /\ serverUp /\ h \in FlowHandlers
  /\ ActivateBeforeFlows => OnuOf(f) \in ctlActive
  /\ Len(onuFlows[OnuOf(f)]) < MaxFlowList
  /\ flowTable' = flowTable \cup {f.id}
  /\ \/ /\ onuState[OnuOf(f)] = "disabled"
        /\ UNCHANGED <<onuFlows, handler>>
     \/ /\ onuState[OnuOf(f)] # "disabled"
        /\ onuFlows' = [onuFlows EXCEPT ![OnuOf(f)] = Append(@, f.id)]
        /\ handler' = [handler EXCEPT ![h] = [pc |-> "add_validate", flow |-> f.id, onu |-> OnuOf(f)]]
  /\ UNCHANGED <<ledgerVars, onuState, onuChan, applied, oltVars, ctlActive, crashed>>

\* validateFlow under both read locks; a conflict returns the error.
FlowAddValidate(h) ==
  /\ ~crashed
  /\ handler[h].pc = "add_validate"
  /\ IF ValidFlow(HFlow(h)) THEN Goto(h, "add_store_gem") ELSE Done(h)
  /\ UNCHANGED <<ledgerVars, flowTable, onuVars, oltVars, ctlActive, crashed>>

\* storeGemPortIdByFlow / storeAllocId under the write lock.  The missing
\* ONU map is only logged; the next write into it panics.
StoreIds(h, k, next) ==
  /\ ~crashed
  /\ handler[h].pc = IF k = "gem" THEN "add_store_gem" ELSE "add_store_alloc"
  /\ \/ /\ handler[h].onu \notin onuMap[k]
        /\ crashed' = TRUE
        /\ UNCHANGED <<claims, handler>>
     \/ /\ handler[h].onu \in onuMap[k]
        /\ claims' = [claims EXCEPT ![k] = @ \cup ClaimsOf(k, HFlow(h))]
        /\ Goto(h, next)
        /\ UNCHANGED crashed
  /\ UNCHANGED <<ponMap, onuMap, flowTable, onuVars, oltVars, ctlActive>>

FlowAddStoreGem(h)   == StoreIds(h, "gem", "add_store_alloc")
FlowAddStoreAlloc(h) == StoreIds(h, "alloc", "add_enqueue")

\* onu.Channel <- FlowAdd: blocks while the channel is full.
FlowAddEnqueue(h) ==
  /\ ~crashed
  /\ handler[h].pc = "add_enqueue"
  /\ Len(onuChan[handler[h].onu]) < ChanCap
  /\ onuChan' = [onuChan EXCEPT ![handler[h].onu] =
                   Append(@, [type |-> "FlowAdd", flow |-> handler[h].flow])]
  /\ Done(h)
  /\ UNCHANGED <<ledgerVars, flowTable, onuFlows, onuState, applied, oltVars, ctlActive, crashed>>

-----------------------------------------------------------------------------
(* FlowRemove                                                              *)

\* The call arrives: freeGemPortId, unconditionally.
FlowRemoveBegin(h, f) ==
  /\ ~crashed
  /\ handler[h].pc = "idle" /\ serverUp /\ h \in FlowHandlers
  /\ claims' = [claims EXCEPT !["gem"] = Free("gem", f.id)]
  /\ handler' = [handler EXCEPT ![h] = [pc |-> "rem_free_alloc", flow |-> f.id, onu |-> NoOnu]]
  /\ UNCHANGED <<ponMap, onuMap, flowTable, onuVars, oltVars, ctlActive, crashed>>

\* freeAllocId.
FlowRemoveFreeAlloc(h) ==
  /\ ~crashed
  /\ handler[h].pc = "rem_free_alloc"
  /\ claims' = [claims EXCEPT !["alloc"] = Free("alloc", handler[h].flow)]
  /\ Goto(h, "rem_lookup")
  /\ UNCHANGED <<ponMap, onuMap, flowTable, onuVars, oltVars, ctlActive, crashed>>

\* olt.Flows.Load: NotFound, or onu.DeleteFlow and olt.Flows.Delete.
FlowRemoveLookup(h) ==
  LET fid == handler[h].flow
      o   == OnuOf(FlowOf(fid))
  IN /\ ~crashed
     /\ handler[h].pc = "rem_lookup"
     /\ \/ /\ fid \notin flowTable
           /\ Done(h)
           /\ UNCHANGED <<flowTable, onuFlows>>
        \/ /\ fid \in flowTable
           /\ onuFlows' = [onuFlows EXCEPT ![o] = RemoveFirst(@, fid)]
           /\ flowTable' = flowTable \ {fid}
           /\ Goto(h, "rem_find_onu")
     /\ UNCHANGED <<ledgerVars, onuState, onuChan, applied, oltVars, ctlActive, crashed>>

\* GetOnuByFlowId: the ONU whose FlowIds holds the flow, or an error.
FlowRemoveFindOnu(h) ==
  LET fid == handler[h].flow
  IN /\ ~crashed
     /\ handler[h].pc = "rem_find_onu"
     /\ \/ /\ \A o \in Onus : fid \notin applied[o]
           /\ Done(h)
        \/ \E o \in Onus :
              /\ fid \in applied[o]
              /\ handler' = [handler EXCEPT ![h].pc = "rem_enqueue", ![h].onu = o]
     /\ UNCHANGED <<ledgerVars, flowTable, onuVars, oltVars, ctlActive, crashed>>

\* onu.Channel <- FlowRemoved.
FlowRemoveEnqueue(h) ==
  /\ ~crashed
  /\ handler[h].pc = "rem_enqueue"
  /\ Len(onuChan[handler[h].onu]) < ChanCap
  /\ onuChan' = [onuChan EXCEPT ![handler[h].onu] =
                   Append(@, [type |-> "FlowRemoved", flow |-> handler[h].flow])]
  /\ Done(h)
  /\ UNCHANGED <<ledgerVars, flowTable, onuFlows, onuState, applied, oltVars, ctlActive, crashed>>

-----------------------------------------------------------------------------
(* ActivateOnu, DeleteOnu                                                  *)

\* The controller calls ActivateOnu for an ONU it saw discovered.
ActivateOnuCall(h, o) ==
  /\ ~crashed
  /\ handler[h].pc = "idle" /\ serverUp
  /\ o \notin ctlActive /\ onuState[o] = "created"
  /\ handler' = [handler EXCEPT ![h] = [pc |-> "activate", flow |-> NoFlow, onu |-> o]]
  /\ UNCHANGED <<ledgerVars, flowTable, onuVars, oltVars, ctlActive, crashed>>

\* ActivateOnu: AllocIDs[pon][onu] and GemPortIDs[pon][onu] are assigned
\* fresh maps, without AllocIDsLock or GemPortIDsLock.  An assignment into a
\* missing per-PON map panics.  The handler then stays in "activate_enable"
\* while the assignment into the per-PON maps is in progress.
ActivateOnu(h) ==
  LET o == handler[h].onu
  IN /\ ~crashed
     /\ handler[h].pc = "activate"
     /\ \/ /\ \E k \in Kinds : o[1] \notin ponMap[k]
           /\ crashed' = TRUE
           /\ UNCHANGED <<onuMap, claims, handler>>
        \/ /\ \A k \in Kinds : o[1] \in ponMap[k]
           /\ onuMap' = [k \in Kinds |-> onuMap[k] \cup {o}]
           /\ claims' = [k \in Kinds |-> {c \in claims[k] : c[1] # o}]
           /\ Goto(h, "activate_enable")
           /\ UNCHANGED crashed
     /\ UNCHANGED <<ponMap, flowTable, onuVars, oltVars, ctlActive>>

\* The assignment completes and the ONU is enabled; an illegal transition is
\* only logged.
ActivateOnuEnable(h) ==
  LET o == handler[h].onu
  IN /\ ~crashed
     /\ handler[h].pc = "activate_enable"
     /\ onuState' = IF onuState[o] = "created"
                     THEN [onuState EXCEPT ![o] = "enabled"] ELSE onuState
     /\ ctlActive' = ctlActive \cup {o}
     /\ Done(h)
     /\ UNCHANGED <<ledgerVars, flowTable, onuFlows, onuChan, applied, oltVars, crashed>>

\* The per-PON ledger maps a handler's next step reads or writes: validateFlow
\* ranges over the flow's PON, the stores index it, the frees range over
\* every PON, and ActivateOnu assigns into its ONU's PON.  An idle flow
\* handler stands for a FlowRemove arriving, whose freeGemPortId ranges over
\* every PON.
MapAccess(h) ==
  CASE handler[h].pc \in {"add_validate", "add_store_gem", "add_store_alloc", "activate"}
          -> {handler[h].onu[1]}
    [] handler[h].pc = "rem_free_alloc" -> Pons
    [] handler[h].pc = "idle" /\ h \in FlowHandlers /\ serverUp -> Pons
    [] OTHER -> {}

\* The per-PON maps being assigned into by another handler's ActivateOnu, or
\* by InitOlt during a reboot.
MapWriting(h) ==
  {handler[w].onu[1] : w \in {w \in Handlers \ {h} : handler[w].pc = "activate_enable"}}
    \cup (IF rebootPc = "init_maps" THEN Pons ELSE {})

\* A map access that overlaps ActivateOnu's or InitOlt's unlocked assignment
\* is a data
\* race on a Go map; the runtime may detect it and stop the process with
\* "concurrent map read and map write" (or "concurrent map writes"), or may
\* not, in which case the handler's own step runs.
ConcurrentMapAccess(h) ==
  /\ ~crashed
  /\ MapAccess(h) \cap MapWriting(h) # {}
  /\ crashed' = TRUE
  /\ UNCHANGED <<ledgerVars, flowTable, onuVars, handler, oltVars, ctlActive>>

\* DeleteOnu: the ONU is disabled and, if the OLT is enabled, re-discovered.
DeleteOnu(o) ==
  /\ ~crashed
  /\ serverUp
  /\ onuState' = [onuState EXCEPT ![o] = IF oltState = "enabled" THEN "created" ELSE "disabled"]
  /\ ctlActive' = ctlActive \ {o}
  /\ UNCHANGED <<ledgerVars, flowTable, onuFlows, onuChan, applied, handler, oltVars, crashed>>

\* The ONU's message loop takes the next message: a flow message updates
\* FlowIds; OMCI and packet-out messages go to the ONU's own OMCI and
\* service state machines (onu.go), which hold no state of this model.
OnuProcessFlow(o) ==
  /\ ~crashed
  /\ onuChan[o] # <<>>
  /\ LET m == Head(onuChan[o])
     IN applied' = [applied EXCEPT ![o] = CASE m.type = "FlowAdd"     -> @ \cup {m.flow}
                                            [] m.type = "FlowRemoved" -> @ \ {m.flow}
                                            [] OTHER                  -> @]
  /\ onuChan' = [onuChan EXCEPT ![o] = Tail(@)]
  /\ UNCHANGED <<ledgerVars, flowTable, onuFlows, onuState, handler, oltVars, ctlActive, crashed>>

-----------------------------------------------------------------------------
(* OmciMsgOut, OnuPacketOut                                                *)

\* The controller addresses OMCI and packets to ONUs it has activated (the
\* ONU id is assigned by ActivateOnu).  A payload the codecs cannot parse is
\* an error return, and OmciMsgOut drops the message of a disabled ONU: both
\* return with no state change.  Otherwise the handler reaches
\* `onu.Channel <- msg`.
OmciMsgOutCall(h, o) ==
  /\ ~crashed
  /\ handler[h].pc = "idle" /\ serverUp /\ h \in PacketHandlers
  /\ o \in ctlActive
  /\ onuState[o] # "disabled"
  /\ handler' = [handler EXCEPT ![h] = [pc |-> "omci_send", flow |-> NoFlow, onu |-> o]]
  /\ UNCHANGED <<ledgerVars, flowTable, onuVars, oltVars, ctlActive, crashed>>

\* OnuPacketOut checks no ONU state.
OnuPacketOutCall(h, o) ==
  /\ ~crashed
  /\ handler[h].pc = "idle" /\ serverUp /\ h \in PacketHandlers
  /\ o \in ctlActive
  /\ handler' = [handler EXCEPT ![h] = [pc |-> "pkt_send", flow |-> NoFlow, onu |-> o]]
  /\ UNCHANGED <<ledgerVars, flowTable, onuVars, oltVars, ctlActive, crashed>>

\* `onu.Channel <- msg` completes when the channel has room; the ONU's
\* state is not looked at again.
OnuChanSend(h, type) ==
  /\ ~crashed
  /\ Len(onuChan[handler[h].onu]) < ChanCap
  /\ onuChan' = [onuChan EXCEPT ![handler[h].onu] = Append(@, [type |-> type, flow |-> NoFlow])]
  /\ Done(h)
  /\ UNCHANGED <<ledgerVars, flowTable, onuFlows, onuState, applied, oltVars, ctlActive, crashed>>

OmciMsgOutSend(h)   == handler[h].pc = "omci_send" /\ OnuChanSend(h, "OMCI")
OnuPacketOutSend(h) == handler[h].pc = "pkt_send" /\ OnuChanSend(h, "OnuPacketOut")

-----------------------------------------------------------------------------
(* RestartOLT and Enable                                                   *)

AllIdle == \A h \in Handlers : handler[h].pc = "idle"

\* Reboot spawns RestartOLT: the delete transition clears both ledgers, then
\* every ONU is disabled.  The gRPC server still serves calls.
RebootDelete ==
  /\ ~crashed
  /\ rebootPc = "idle" /\ serverUp /\ reboots < MaxReboots
  /\ oltState = "enabled"
  /\ RebootWhenIdle => AllIdle
  /\ oltState' = "deleted"
  /\ ClearAllResources
  /\ onuState' = [o \in Onus |-> "disabled"]
  /\ ctlActive' = {}
  /\ rebootPc' = "deleted"
  /\ UNCHANGED <<flowTable, onuFlows, onuChan, applied, handler, enabledOnce, serverUp, reboots, crashed>>

\* StopOltServer: no new call is accepted; calls in progress go on.
RebootStopServer ==
  /\ ~crashed
  /\ rebootPc = "deleted"
  /\ serverUp' = FALSE
  /\ rebootPc' = "stopped"
  /\ UNCHANGED <<ledgerVars, flowTable, onuVars, handler, oltState, enabledOnce, reboots, ctlActive, crashed>>

\* The initialize transition enters InitOlt, which first starts the gRPC
\* server: calls are served again before the ledger maps are made.
RebootInitialize ==
  /\ ~crashed
  /\ rebootPc = "stopped"
  /\ oltState' = "initialized"
  /\ serverUp' = TRUE
  /\ rebootPc' = "init_maps"
  /\ UNCHANGED <<ledgerVars, flowTable, onuVars, handler, enabledOnce, reboots, ctlActive,
                 crashed>>

\* InitOlt's unlocked writes of the per-PON maps complete.
RebootInitMaps ==
  /\ ~crashed
  /\ rebootPc = "init_maps"
  /\ InitOlt
  /\ rebootPc' = "idle"
  /\ reboots' = reboots + 1
  /\ UNCHANGED <<flowTable, onuVars, handler, oltState, enabledOnce, serverUp, ctlActive, crashed>>

\* Enable: the OLT-up message enables the OLT; on a reconnect every ONU is
\* re-discovered.
OltEnable ==
  /\ ~crashed
  /\ serverUp /\ oltState = "initialized"
  /\ oltState' = "enabled"
  /\ onuState' = IF enabledOnce
                  THEN [o \in Onus |-> IF onuState[o] = "disabled" THEN "created" ELSE onuState[o]]
                  ELSE onuState
  /\ enabledOnce' = TRUE
  /\ UNCHANGED <<ledgerVars, flowTable, onuFlows, onuChan, applied, handler, serverUp,
                 rebootPc, reboots, ctlActive, crashed>>

-----------------------------------------------------------------------------
(* Specification                                                           *)

Init ==
  /\ ponMap = [k \in Kinds |-> Pons]
  /\ onuMap = [k \in Kinds |-> {}]
  /\ claims = [k \in Kinds |-> {}]
  /\ flowTable = {}
  /\ onuFlows = [o \in Onus |-> <<>>]
  /\ onuState = [o \in Onus |-> "created"]
  /\ onuChan = [o \in Onus |-> <<>>]
  /\ applied = [o \in Onus |-> {}]
  /\ handler = [h \in Handlers |-> [pc |-> "idle", flow |-> NoFlow, onu |-> NoOnu]]
  /\ oltState = "initialized"
  /\ enabledOnce = FALSE
  /\ serverUp = TRUE
  /\ rebootPc = "idle"
  /\ reboots = 0
  /\ ctlActive = {}
  /\ crashed = FALSE

\* Every action requires ~crashed: a panic ends the process.
Next ==
  \/ \E h \in Handlers :
        \/ \E f \in FlowReqs : FlowAddBegin(h, f) \/ FlowRemoveBegin(h, f)
        \/ \E o \in Onus : ActivateOnuCall(h, o)
        \/ FlowAddValidate(h) \/ FlowAddStoreGem(h) \/ FlowAddStoreAlloc(h)
        \/ FlowAddEnqueue(h)
        \/ FlowRemoveFreeAlloc(h) \/ FlowRemoveLookup(h) \/ FlowRemoveFindOnu(h)
        \/ FlowRemoveEnqueue(h)
        \/ ActivateOnu(h) \/ ActivateOnuEnable(h) \/ ConcurrentMapAccess(h)
        \/ \E o \in Onus : OmciMsgOutCall(h, o) \/ OnuPacketOutCall(h, o)
        \/ OmciMsgOutSend(h) \/ OnuPacketOutSend(h)
  \/ \E o \in Onus : DeleteOnu(o) \/ OnuProcessFlow(o)
  \/ RebootDelete \/ RebootStopServer \/ RebootInitialize \/ RebootInitMaps \/ OltEnable

Spec == Init /\ [][Next]_vars

-----------------------------------------------------------------------------
(* Properties                                                              *)

Claim == Onus \X Ids \X FlowIds

\* No handler writes into a ledger map that does not exist: storeAllocId,
\* storeGemPortId and ActivateOnu never panic on a nil map, and no ledger
\* access overlaps ActivateOnu's or InitOlt's unlocked map assignment: the
\* process never stops with a panic or a fatal concurrent-map error.
NoPanic == ~crashed

\* The ledger's promise: an Alloc-ID or GEM port of a PON is never claimed by
\* two ONUs of that PON at once (what validateFlow is there to enforce).
LedgerExclusive ==
  \A k \in Kinds : \A c, d \in claims[k] :
     (c[1][1] = d[1][1] /\ c[2] = d[2]) => c[1] = d[1]

\* A flow in olt.Flows that an ONU has applied holds its ids alone on its PON:
\* no ONU of the same PON has applied a flow, still in olt.Flows, that uses
\* one of them.  validateFlow is there to promise it; ActivateOnu on an ONU
\* that already has flows makes its maps afresh and drops their claims.
InstalledFlowsExclusive ==
  \A o1, o2 \in Onus : \A fid1 \in applied[o1] \cap flowTable, fid2 \in applied[o2] \cap flowTable :
     (o1[1] = o2[1] /\ o1 # o2) =>
        \A k \in Kinds : IdsOf(k, FlowOf(fid1)) \cap IdsOf(k, FlowOf(fid2)) = {}

\* No leaked claims: every claim in a ledger belongs to a flow that is still in
\* olt.Flows, so the FlowRemove of every stored flow empties the ledger.
NoLeakedClaims ==
  \A k \in Kinds : \A c \in claims[k] : c[3] \in flowTable

\* When no call is in progress and every ONU has drained its channel, an ONU
\* applies only flows the OLT still has: a FlowRemove is never lost.
Quiescent == AllIdle /\ \A o \in Onus : onuChan[o] = <<>>
AppliedFlowsTracked ==
  Quiescent => \A o \in Onus : applied[o] \subseteq flowTable

\* A flow key in an ONU's Flows list stands for a flow the OLT accepted: its
\* FlowAdd is still in progress or its ids are claimed in the ledger.  The
\* design (validate, store, then append to the ONU's list) promises this;
\* FlowAdd appends to onu.Flows before validateFlow can reject the flow.
InFlight(fid) == \E h \in Handlers : handler[h].flow = fid
ListedFlowsClaimed ==
  \A o \in Onus : \A i \in 1..Len(onuFlows[o]) :
     LET fid == onuFlows[o][i]
     IN InFlight(fid) \/ \E k \in Kinds : \E c \in claims[k] : c[3] = fid

-----------------------------------------------------------------------------
(* Refinement of the abstract ledger                                       *)

\* The ids a FlowAdd has validated and will store: both kinds before
\* storeGemPortIdByFlow, the Alloc-ID before storeAllocId, as long as the
\* ONU's map exists (once a reboot has cleared it, the store panics).
Pending(k) ==
  UNION {ClaimsOf(k, HFlow(h)) :
           h \in {h \in Handlers : /\ handler[h].onu \in onuMap[k]
                                   /\ \/ handler[h].pc = "add_store_gem"
                                      \/ k = "alloc" /\ handler[h].pc = "add_store_alloc"}}

AbsLedger == [k \in Kinds |-> claims[k] \cup Pending(k)]

LA == INSTANCE LedgerAbstract WITH ledger <- AbsLedger

\* The ledger, counting a validated FlowAdd as claimed, behaves as spec.md 4.3's
\* atomic ledger: validateFlow and the two stores together are one conflict-
\* free Claim, freeGemPortId and freeAllocId each one Release of the flow id,
\* clearAllResources a Clear and ActivateOnu a ResetOnu.
LedgerRefinement == LA!Spec

=============================================================================
