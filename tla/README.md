# TLA+ models of the 25G-Simulator OLT

These modules model the device simulation engine of the simulator, found in
`src/internal/bbsim/devices/olt.go`. The ONU and PON code (`onu.go`, `pon.go`)
is not in the source tree. Where the OLT depends on it, it is modelled from
`spec.md`, and those definitions are marked `spec_modelled` in `PROJECT.json`.

## 1. Inventory

| Component | State in the code | Operations that change it | Interacts with |
|---|---|---|---|
| Resource ledger | `AllocIDs`, `GemPortIDs` (PON → ONU → port → id → flow ids), two `sync.RWMutex` | `validateFlow`, `storeAllocId`, `storeGemPortId(ByFlow)`, `freeAllocId`, `freeGemPortId`, `clearAllResources`, `InitOlt` (per-PON maps), `ActivateOnu` (per-ONU maps) | flow handlers, reboot, ActivateOnu |
| Flow management | `olt.Flows` (sync.Map), `onu.Flows`, `onu.FlowIds`, ONU channels | `FlowAdd`, `FlowRemove`, `GetOnuByFlowId` | ledger, ONU message loop |
| ONU lifecycle | ONU `InternalState` | `ActivateOnu`, `DeleteOnu` (+ re-discovery), reboot's disable, Enable's re-discovery | ledger, flow handlers |
| OLT lifecycle / reboot | `InternalState` (created, initialized, enabled, disabled, deleted), `OperState`, `OltServer`, `channel`, `signature`, `enableContext` | `Reboot`/`RestartOLT`, `InitOlt`, `StopOltServer`, `Enable`, `DisableOlt`, `ReenableOlt` | every handler (server up or not), dispatch loop |
| Indication dispatch | unbuffered `o.channel`, the stream | `processOltMessages`, and the senders `Enable`, `SetAlarm`, `DisableOlt`, `ReenableOlt`, `EnablePonIf`, `DisablePonIf` | OLT and PON FSMs |
| Telemetry | `OltStats`, the loop's `count` | `periodicPortStats` | session context |
| Packet/OMCI out | ONU channels | `OmciMsgOut`, `OnuPacketOut`, `UplinkPacketOut` | external codecs |

Generated OMCI tables (`src/unnamed/part_001`, `part_002`) and the service YAML
(`part_000`) carry no behaviour.

What makes this code hard:
- gRPC handlers run concurrently, one goroutine per call.
- The ledger is checked under read locks that are released before the write
  locks are taken.
- A reboot clears the ledger while calls are still in progress.
- The ONU applies flow messages asynchronously, yet `FlowRemove` depends on the
  result.
- The one unbuffered OLT channel is closed by the reboot while handlers may
  still send on it.

`PROJECT.json` lists each hazard with the line where it bites.

## 2. Plan

1. **OltFlows** (done): the ledger, `FlowAdd`, `FlowRemove`, `ActivateOnu`,
   `DeleteOnu`, and the ledger side of reboot and Enable. It also includes the
   ONU's consumption of flow messages. This is where the consequences are worst:
   panics, leaks and double claims.
2. **OltSession** (done): the OLT and PON FSMs, `Enable` with its context
   cancel, `processOltMessages` over the unbuffered channel, `RestartOLT`'s
   server stop, channel close and cancel, `DisableOlt`, `ReenableOlt`,
   `EnablePonIf`, `DisablePonIf`, `SetAlarm` and `periodicPortStats`.
3. **LedgerAbstract** (done): the atomic ledger of spec.md 4.3, and a
   refinement mapping from OltFlows, checked with one handler in `flows_seq`.
   With two handlers `flows_toctou` already shows that validate and store are
   not atomic.
4. The order of ONU and PON indications on a stream (done): `DisablePonIf`
   writes the ONU indications itself, before the loop has applied the PON
   message. `IndicationOrder` in `session_stale_loop` covers it.
5. The unlocked map write in `ActivateOnu` (done): a Go map written by one
   goroutine while another ranges over it is a fatal error (`flows_crash`).
   The unlocked `onu.Flows` append, as a torn read-modify-write, is still open.
6. `GetDeviceInfo` and the device identity `RestartOLT` resets (done):
   `PreviouslyConnected` and the signature, with the unlocked write of
   `PreviouslyConnected` racing the reboot (`session_prev_connected`).

## 3. Module OltFlows

`OltFlows.tla` is the specification and `MCOltFlows.tla` gives its constants:
one PON, two ONUs and three flows.
- f1 on ONU 1 uses Alloc-ID 1 and GEM 1.
- f2 on ONU 2 uses Alloc-ID 1 and GEM 2, so it conflicts with f1.
- f3 on ONU 2 uses Alloc-ID 1 and GEMs 2 and 3. It is a replicated flow that
  shares ids with f2 on the same ONU, which is legal.

State:
- `ponMap` and `onuMap` record which per-PON and per-ONU maps exist. Writing
  into a missing map is Go's nil-map panic, which sets `crashed` and stops
  `Next`.
- `claims` holds the ledgers as sets of `<<onu, id, flow>>`. The port level is
  left out: stores create it on demand, and validate and free never read it.
- `flowTable` is `olt.Flows` and `onuFlows` is `onu.Flows`.
- `applied` is the ONU's `FlowIds`, and `onuChan` is each ONU's channel.
- `handler` holds a program counter per gRPC goroutine.

Actions:
- Each handler is split where it releases a lock or sends on a channel:
  - `FlowAddBegin` (the ONU-state check and the early appends), then
    `FlowAddValidate`, `FlowAddStoreGem`, `FlowAddStoreAlloc` and
    `FlowAddEnqueue`.
  - `FlowRemoveBegin` (free GEM), then `FlowRemoveFreeAlloc`,
    `FlowRemoveLookup` (NotFound, or delete from `onu.Flows` and `olt.Flows`),
    `FlowRemoveFindOnu` (`GetOnuByFlowId`) and `FlowRemoveEnqueue`.
  - `ActivateOnuCall`, then `ActivateOnu`, which writes the ONU's fresh maps
    into `AllocIDs[pon]` and `GemPortIDs[pon]` with no lock held (and so drops
    its claims), then `ActivateOnuEnable`, the ONU's enable transition and the
    controller's record that it activated the ONU. `DeleteOnu`.
  - `ConcurrentMapAccess(h)` is the Go runtime's fatal error "concurrent map
    read and map write". It fires when goroutine h reads a PON's per-PON map
    (`MapAccess`: validate, the stores, `freeGemPortId`'s range over every
    PON, or a FlowRemove arriving) while another goroutine sits between
    `ActivateOnu`'s write and its return, or while the reboot is inside
    `InitOlt`'s map writes (`MapWriting`). The write is
    unsynchronised, so the runtime may or may not detect it: both outcomes
    are in the model.
- The reboot goroutine is `RebootDelete` (delete transition with
  `clearAllResources`, then ONU disable), `RebootStopServer`,
  `RebootInitialize` (the initialize transition and the start of `InitOlt`,
  which starts the gRPC server first) and `RebootInitMaps` (`InitOlt`'s
  writes of the per-PON maps, with no lock). Between the last two, calls are
  served again while the maps are being written: `MapWriting` counts the
  reboot as a writer of every PON's map in that window, so a FlowRemove or
  FlowAdd reading the map then may meet the runtime's concurrent-map fault. `OltEnable` stands for the OLT-up indication
  and the re-discovery of a reconnect.
- `OmciMsgOutCall`/`OmciMsgOutSend` and `OnuPacketOutCall`/`OnuPacketOutSend`
  put OMCI and packet-out messages on the same bounded ONU channel as the flow
  messages. OmciMsgOut drops the message of a disabled ONU at the call and
  does not look again before the send. A parse failure returns with no
  state change, so it has no step of its own.
- `OnuProcessFlow` is the ONU loop (spec-modelled). A flow message updates
  `applied`, and the other messages leave it alone.

The controller is an actor too. Two constants say how careful it is:
- `ActivateBeforeFlows`: FlowAdd goes only to ONUs the controller activated.
  Every run sets it, so the nil-map store of a FlowAdd for an ONU never
  activated (olt.go:1851) is in the model but in no run.
- `RebootWhenIdle`: Reboot arrives only when no call is running.

`FlowHandlers` is the set of goroutines that take FlowAdd and FlowRemove;
`PacketHandlers` take OmciMsgOut and OnuPacketOut. The others take only
ActivateOnu, DeleteOnu and Reboot. This keeps a
two-goroutine run within reach of TLC.

## 3a. Module LedgerAbstract and the refinement

`LedgerAbstract.tla` is the ledger as spec.md 4.3 promises it. It has one
variable, `ledger`, which holds the claims of both kinds. Each operation is one
step:
- `Claim(f)` is validate and store with nothing in between. A conflicting flow
  changes nothing, which is a stutter.
- `Release(k, fid)` is `free` on one ledger.
- `Clear` is the deleted transition.
- `ResetOnu(o)` stands for `ActivateOnu`, which makes an ONU's maps afresh even
  when the ONU already had maps. The spec's interface lists no such reset, but
  the code does it. It is kept here so that the refinement checks everything
  else, and `flows_reactivate` shows what the reset costs.

OltFlows instantiates it as `LA == INSTANCE LedgerAbstract WITH ledger <-
AbsLedger`:
- `AbsLedger` is `claims` together with `Pending`, the ids of a FlowAdd that
  has passed `validateFlow` and has not yet stored them. An id counts as
  pending only while the ONU's per-ONU map exists, since a store into a
  missing one panics and claims nothing.
- The abstract `Claim` therefore happens at `FlowAddValidate`, and the two
  stores are stutters.
- `LedgerRefinement == LA!Spec` is a PROPERTY of `flows_seq`.

The property fails if:
- a free removes claims of another flow;
- a validation lets a conflicting flow through;
- a reboot leaves claims behind;
- an activation drops the claims of other ONUs.

## 3b. Reboot: a second RestartOLT

The models run one `RestartOLT` at a time. In the code a second Reboot during
the first one's sleep starts a second goroutine. That goroutine clears
`PreviouslyConnected` and then returns at its delete transition, because the
OLT is already deleted. Every run has `MaxReboots = 1`, so this case does not
arise in them.

## 4. Module OltSession

`OltSession.tla` is the specification and `MCOltSession.tla` gives one PON.
A channel is named by its generation (`InitOlt` makes generation g+1). A
session, its loops and its stream are named by the number of the Enable call
that opened it.

State:
- `oltState`/`operState` and `pon` are the FSMs. `Fire` applies an event from
  the FSM's table. An event from another state fails and changes nothing,
  because the code logs the error and ignores it.
- `chanGen` is the channel `o.channel` refers to, and `closed` holds the
  closed ones.
- `curCtx` is `o.enableContext` and `cancelled` holds the cancelled contexts.
  `lockHeld` is the `o.Mutex` held by `RestartOLT`.
- `loop[s]` and `tele[s]` are the dispatch and statistics goroutines of
  session s. `stream[s]` holds the indications sent on its stream.
  `curStream` is `o.OpenoltStream`.
- `prevConnected` is `o.PreviouslyConnected`. `signature` counts how many
  times `RestartOLT` has set `o.signature`.
- `handler[h]` is a handler goroutine: its program counter and, while it is
  blocked in a send, the message and the channel generation it read.

Actions:
- Enable: `EnableCall`, then `EnableLock` (under `o.Mutex`: cancel the old
  context, make the new one, unlock), `EnableSpawn` (`o.OpenoltStream =
  stream`, start the dispatch loop with `o.enableContext` as it is *now*,
  reach the OLT-up send), `EnableNni`, `EnablePons`, `EnableStats` (start
  `periodicPortStats`, again with the current `o.enableContext`) and
  `EnableWait` (`wg.Wait()`). The code re-reads `o.enableContext` after the
  unlock (olt.go:525 and :596), so each loop and statistics goroutine records
  the context it was given (`ctx`), which need not be its own Enable's.
- Other calls: `DisableOltCall`/`DisableOltPons`,
  `ReenableOltCall`/`ReenableOltPons`, `DisablePonIfCall`, `EnablePonIfCall` and `PonIfOnus` (their
  ONU indications), `SetAlarmCall`, and `GetDeviceInfoCall`/`GetDeviceInfoSet`
  (the read of `PreviouslyConnected` into the reply, then `= true`). Every `o.channel <- m` is a `send`
  program counter.
- `Receive(h, s)` is the rendezvous of sender h with loop s. The channel is
  unbuffered, so the send completes when a loop takes the message. A loop
  whose context is cancelled may still take it, because Go's `select` picks
  at random among the ready cases. `SendPanic` is a pending send on a closed
  channel.
- The dispatch loop: `LoopStart` (`ch := o.channel`), `LoopExit`
  (`ctx.Done()` or a closed channel) and `LoopApply` (the switch on the
  message type, with the `send*Indication` functions).
- Telemetry: `StatsTick` (`OltStats[count]`, `count++` and the wrap) and
  `StatsExit`.
- Reboot: `RebootCall`, then `RestartDelete` (which begins with
  `PreviouslyConnected = false`), `RestartStop`, `RestartClose`,
  `RestartCancel` and `RestartInit` for `RestartOLT`.

## 5. Runs

| Run | Expect | What it shows |
|---|---|---|
| `flows_seq` | pass | One call at a time and a careful controller, with up to two flows listed per ONU, through one reboot (its `InitOlt` window included) and re-enable, over about 2.07M states (about 2 min). No id is claimed by two ONUs of a PON (`LedgerExclusive`), and the ledger implements LedgerAbstract (`LedgerRefinement`). Panics are not checked here: a call served inside the reboot's `InitOlt` window can meet the concurrent-map fault even with one handler, as `flows_crash` shows for the unlocked writes. |
| `flows_panic` | pass | A flow goroutine and an activation goroutine, with flows f1 and f2 (`MCFlowPair`), and a reboot that may come during a call. The flow goroutine also sends OMCI and packet-out messages, which share the ONU channels with flow messages. Whenever no call is in progress, every ledger claim belongs to a flow still in `olt.Flows` (`NoLeakedClaims`), through failed validations, `DeleteOnu` and reboots. The concurrent-map fault is reachable, so the process may stop and deadlock is not checked. About 5.6M states (about 2 min). |
| `flows_toctou` | violation | Two handlers: a validate/store race gives Alloc-ID 1 to ONU 1 and ONU 2. |
| `flows_remove_race` | violation | FlowRemove frees the ledgers before it loads the flow from `olt.Flows`. In the trace the frees run before the FlowAdd has claimed anything, the FlowAdd stores the flow in `olt.Flows`, FlowRemove's Load then finds and deletes it, and the FlowAdd's stores claim ids for a flow nobody will remove (`NoLeakedClaims`). |
| `flows_lost_remove` | violation | A FlowRemove that overtakes the ONU's processing of the FlowAdd is lost, and the ONU keeps a flow the OLT deleted. |
| `flows_crash` | violation | The same two goroutines with a careful controller. `ActivateOnu` on one goroutine writes `GemPortIDs[pon]` while a FlowRemove on the other ranges over it in `freeGemPortId`: a fatal concurrent map access (`NoPanic`). The same state space holds the reboot's nil-map panics and a call served inside `InitOlt`'s unlocked map writes, which take longer traces. |
| `flows_reactivate` | violation | ONU 1 installs f1 and is then deleted. It is re-discovered and activated again, and the second `ActivateOnu` drops f1's claims. f2 on ONU 2 is then accepted with the same Alloc-ID while f1 is still installed (`InstalledFlowsExclusive`). |
| `session_live` | pass | Two Enable streams (a reconnect) and a reboot, with no other calls. A blocked send completes when a live loop reads its channel (`SendsComplete`). About 248k states (under a minute). |
| `session_calls` | pass | One Enable stream, a reboot and two other calls on two goroutines. The statistics index stays in range and every variable keeps its type (`TypeOK`). About 338k states. |
| `session_alarm_panic` | violation | A send still pending when `RestartOLT` closes `o.channel` panics (`NoPanic`). In the trace it is a ReenableOlt send that the loop had not yet taken. |
| `session_prev_connected` | violation | One Enable stream, a GetDeviceInfo on a second goroutine and one reboot. The GetDeviceInfo reads the device, `RestartOLT` resets `o.PreviouslyConnected`, and then the handler sets it to true, before the server has even stopped (`NotConnectedWhileRestarting`). The OLT comes back from the reboot claiming a previous connection. |
| `session_stale_loop` | violation | Two Enable calls overlap, with no other call. Both pass the lock before either starts its loop, so the first Enable's loop runs with the second's context; both loops read `o.channel`, and the first Enable's NNI-up reaches the second stream with no OLT-up before it (`IndicationOrder`). |

Each violation is recorded as a finding in `PROJECT.json`.

Three more defects were found by TLC with properties defined in the modules,
for which the twelve runs leave no slot:
- `SingleLiveLoop` under `session_live`'s cfg, violated in 9 states: two
  Enables pass the lock in turn, then both start their loops, which both get
  the second context (olt.go:525). Two loops are live on one channel.
- `EnableReturns` under the same cfg, violated (a 28-state lasso): in the
  same interleaving the first Enable's context is cancelled, but its loop
  and statistics goroutine hold the second context, which nothing cancels
  while the second session lives. So the first Enable's `wg.Wait()`
  (olt.go:599) does not return although its session was replaced; only a
  later reboot or reconnect, which the lasso never takes, would release it.
- `IndicationOrder` with `session_stale_loop`'s cfg and `MaxCalls = 2`,
  violated in 12 states: an EnablePonIf's PON-up is written by the loop, then
  a DisablePonIf writes its ONU-down straight to the stream (olt.go:1138)
  while the loop still holds its PON-down.

Every property of a passing run has a mutant, an operator defined next to the
code it changes, that TLC catches:
- a validation that skips the Alloc-ID ledger (`LedgerExclusive`);
- a free that deletes an id with every flow on it, not only the removed
  flow's (`LedgerRefinement`);
- a FlowAdd that skips `olt.Flows`, the `enablePerf` path (`NoLeakedClaims`);
- a dispatch loop that leaves while its context is live (`SendsComplete`);
- a statistics index that wraps one sample late (`TypeOK`).

## 6. Bounds

The bounds are named constants:
- `Handlers`: 1 in `flows_seq`, and 2 where the races need two. In
  `flows_panic` and `flows_crash` only one of the two takes flow calls, and
  the flows are f1 and f2 (`MCFlowPair`): the full mix on two goroutines
  exceeds 13M states.
- `PacketHandlers`: empty except in `flows_panic`, where the flow goroutine
  also sends OMCI and packets. One message in a channel of capacity 1 is
  enough to make a FlowAdd wait behind it.
- `ChanCap = 1`: one message may sit between the handler's send and the ONU's
  processing. This stands for the window between an unbuffered send completing
  and the ONU goroutine updating `FlowIds`.
- `MaxFlowList`: flows per ONU list. It is 2 in `flows_seq`, so that f2 and
  f3 can both be claimed on ONU 2 and a free must keep the other flow's claims.
  It is 1 elsewhere.
- `MaxReboots = 1`.

These bounds are enough:
- A conflict needs two ONUs on one PON and two flows with a shared id.
- A replicated flow needs two GEMs.
- A leak or a lost removal needs one add and one remove of a single flow.
- Each race needs at most two concurrent calls.

For OltSession:
- `MaxSessions = 2` in `session_live` gives one reconnect or one re-enable
  after the reboot. `MaxCalls = 2` in `session_calls` lets two calls meet one
  loop.
- `NumStats` is 1 in `session_live`. It is 2 in `session_calls`, where the
  wrap happens.
- `AutoPonUp` is FALSE in `session_live` and TRUE in `session_calls`, so both
  branches of Enable's PON loop run.
- Reboots and calls together (`MaxSessions = 2`, `MaxCalls = 1`) reach 2M
  states and take 12 minutes. That is too many for the liveness check, so two pass runs split
  them.

Larger channel bounds (`ChanCap = 2`, with a list of 2) were checked once. They
took more than 4 minutes (16M states) and showed no new kind of behaviour.

## 7. Fairness

OltFlows checks only safety properties and assumes no fairness.

OltSession's `Spec` assumes the following:
- Weak fairness for each handler goroutine's internal steps, for each
  dispatch loop's start, exit and apply steps, for `StatsExit`, and for the
  steps of `RestartOLT`. A goroutine that has started and is not blocked is
  scheduled eventually.
- Strong fairness for each rendezvous `Receive(h, s)`. The Go runtime queues
  blocked senders in FIFO order, so a loop that keeps coming back to its
  receive cannot pass over a waiting sender for ever.
- No fairness for the calls (`EnableCall`, `RebootCall` and the others), or
  for `StatsTick`. The controller may stop calling, and the statistics timer
  is not needed for progress.

In both modules a panic (`crashed`) disables every action, as the process
exits. The session cfgs turn off the deadlock check for that reason, and
because the simulator rightly idles when the controller stops calling.

## 8. Not modelled

- OLT-scoped and multicast flows. They only touch `olt.Flows`.
- The `enablePerf` mode.
- Logging and the `publishEvent` events.
- The payloads of OMCI and packet messages, and the DHCP path. They go
  through external codecs.
- The Boss RPC stubs, which are stateless.
- The generated tables.
- The delay between `DeleteOnu` and its re-discovery goroutine. It is merged
  into one step.
- `InitOltStats` reads `olt_stats.txt`. Its result is the constant
  `NumStats`, and the statistics payloads are not recorded.
- `CreateTrafficSchedulers` and `RemoveTrafficSchedulers`. They only store
  `onu.TrafficSchedulers`, which nothing under src/ reads.
- The statistics indications that `send25GPortStatsIndication` writes to the
  stream. Recording them makes the stream grow with every timer tick. For the
  same reason the model leaves out their `stream.Send`, which races the
  dispatch loop's sends and the direct sends of `DisablePonIf` and
  `EnablePonIf`. gRPC does not allow concurrent `Send` on one stream. This
  hazard is listed in PROJECT.json without a property.
- `HeartbeatCheck`. It only reads `o.signature`, which OltSession keeps as
  the number of times `RestartOLT` has set it.
- The lookup failures of `OmciMsgOut` and `OnuPacketOut`. What a failed
  `pon.GetOnuById` returns is defined in `pon.go`, which is not in the
  source tree, so the controller addresses only ONUs it activated.
  `UplinkPacketOut` hands the frame to the NNI (`nni.go`, also not there).
- What a disabled ONU does with an OMCI message that passed `OmciMsgOut`'s
  stale state check (onu.go). The model reaches that interleaving, but no
  property states its consequence.
- ONUs per PON are abstracted to one ONU indication per PON and direction.
- The ONU side of a reconnect (ReDiscoverOnu and the per-ONU loops) is in
  OltFlows (`OltEnable`), not in OltSession.
- A FlowAdd that validation rejects stays in `onu.Flows` and `olt.Flows`
  (`ListedFlowsClaimed`, olt.go:1255). One sequential call shows it, and a
  unit test would too, so no run is spent on it.
- `FlowAdd` before `ActivateOnu` panics in `storeGemPortId`. The model has
  that branch, but every run sets `ActivateBeforeFlows`, so no run reaches it.
