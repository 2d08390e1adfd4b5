----------------------------- MODULE OltSession -----------------------------
(***************************************************************************)
(* The OLT's indication session (internal/bbsim/devices/olt.go).           *)
(*                                                                         *)
(* Enable opens a session: a new cancellable context, a processOltMessages *)
(* dispatch loop and a periodicPortStats loop bound to it, and the         *)
(* OLT/NNI/PON up messages sent on the OLT channel.  The channel is        *)
(* unbuffered: a send completes only when a dispatch loop receives it.     *)
(* DisableOlt, ReenableOlt, EnablePonIf, DisablePonIf and SetAlarm send on *)
(* it too.  RestartOLT stops the gRPC server, closes the channel, cancels  *)
(* the session and runs InitOlt, which makes a new channel.                *)
(*                                                                         *)
(* A channel is identified by its generation (InitOlt makes generation     *)
(* g+1), a session by the number of the Enable call that opened it; the   *)
(* session's stream is numbered likewise.  The ledger side of the reboot   *)
(* is modelled in OltFlows.                                                *)
(***************************************************************************)
EXTENDS Integers, Sequences, FiniteSets

CONSTANTS
  Pons,         \* PON port ids
  Handlers,     \* gRPC / BBSim API handler goroutines that may run at once
  MaxSessions,  \* bound: Enable calls
  MaxReboots,   \* bound: Reboot calls
  MaxCalls,     \* bound: other handler calls (DisableOlt, SetAlarm, ...)
  NumStats,     \* len(o.OltStats): samples read from olt_stats.txt
  AutoPonUp,    \* ControlledActivation is Default or only-onu
  NoValue       \* model value: no PON / no message

Sessions == 1..MaxSessions
Gens     == 0..MaxReboots
MsgTypes == {"OltUp", "OltDown", "NniUp", "PonUp", "PonDown", "Alarm"}
Msgs     == [t : MsgTypes, pon : Pons \cup {NoValue}]
Msg(t)        == [t |-> t, pon |-> NoValue]
PonMsg(t, p)  == [t |-> t, pon |-> p]
Inds     == [k : {"olt", "nni", "pon", "onu", "alarm"}, pon : Pons \cup {NoValue},
             st : {"up", "down", "none"}]
Ind(k, p, st) == [k |-> k, pon |-> p, st |-> st]

(* A state machine is a set of events <<name, sources, destination>>; an   *)
(* event from another state fails, is logged, and changes nothing.         *)
Fire(events, s, e) ==
  LET ts == {t \in events : t[1] = e /\ s \in t[2]}
  IN  IF ts = {} THEN s ELSE (CHOOSE t \in ts : TRUE)[3]

OltEvents ==
  { <<"initialize", {"created", "deleted"}, "initialized">>,
    <<"enable", {"initialized", "disabled"}, "enabled">>,
    <<"disable", {"enabled"}, "disabled">>,
    <<"delete", {"disabled", "enabled"}, "deleted">> }
OperEvents == { <<"enable", {"down"}, "up">>, <<"disable", {"up"}, "down">> }
PonEvents  == { <<"enable", {"created", "disabled"}, "enabled">>,
                <<"disable", {"enabled"}, "disabled">> }

HPCs == {"idle", "send", "en_lock", "en_spawn", "en_nni", "en_pons", "en_wait",
         "en_stats", "dolt_pons", "reen_pons", "ponif_onu", "info_set"}
NoHandler == [pc |-> "idle", next |-> "idle", msg |-> NoValue, ch |-> 0,
              sess |-> 0, reboot |-> FALSE, pons |-> {}, dir |-> "none"]

VARIABLES
  oltState,   \* OLT InternalState
  operState,  \* OLT OperState
  pon,        \* [Pons -> [int, oper]]: PON InternalState and OperState
  chanGen,    \* the generation o.channel refers to
  closed,     \* generations that have been closed
  curCtx,     \* the session of o.enableContext (0: none yet)
  cancelled,  \* sessions whose context was cancelled
  lockHeld,   \* o.Mutex is held by RestartOLT
  loop,       \* [Sessions -> [pc, ch, msg]]: processOltMessages goroutines
  tele,       \* [Sessions -> [pc, count]]: periodicPortStats goroutines
  curStream,  \* the session of o.OpenoltStream
  stream,     \* [Sessions -> Seq(Inds)]: indications sent on each stream
  handler,    \* [Handlers -> record]: handler goroutines
  restartPc,  \* where the RestartOLT goroutine is
  serverUp,   \* the OpenOLT gRPC server accepts calls
  budget,     \* [enables, reboots, calls] made so far
  crashed,    \* a goroutine panicked
  prevConnected, \* o.PreviouslyConnected, reported by GetDeviceInfo
  signature   \* o.signature, as the number of times RestartOLT has set it

vars == <<oltState, operState, pon, chanGen, closed, curCtx, cancelled, lockHeld,
          loop, tele, curStream, stream, handler, restartPc, serverUp, budget, crashed,
          prevConnected, signature>>
oltVars    == <<oltState, operState, pon>>
chanVars   == <<chanGen, closed>>
ctxVars    == <<curCtx, cancelled, lockHeld>>
devVars    == <<prevConnected, signature>>

-----------------------------------------------------------------------------
(* Handler steps                                                           *)

SetH(h, r) == handler' = [handler EXCEPT ![h] = r]

\* stream.Send of one indication on stream s.
SendOnStream(s, ind) == stream' = [stream EXCEPT ![s] = Append(@, ind)]

\* The handler reaches `o.channel <- m`: the channel is read now, and the
\* send blocks there until a dispatch loop takes it or the channel closes.
SendRec(r, m, next) == [r EXCEPT !.pc = "send", !.msg = m, !.ch = chanGen, !.next = next]

\* EnableIndication / Enable: the deleted check; a mid-reboot call fails.
EnableCall(h) ==
  /\ ~crashed
  /\ handler[h].pc = "idle" /\ serverUp /\ budget.enables < MaxSessions
  /\ budget' = [budget EXCEPT !.enables = @ + 1]
  /\ IF oltState = "deleted" THEN UNCHANGED handler
                             ELSE SetH(h, [NoHandler EXCEPT !.pc = "en_lock"])
  /\ UNCHANGED <<devVars, oltVars, chanVars, ctxVars, loop, tele, curStream, stream,
                 restartPc, serverUp, crashed>>

\* Under o.Mutex: cancel the previous context if there is one (a reconnect or
\* a reboot), make a new one, o.Unlock().  The context is numbered by the
\* Enable that made it, as is the Enable's stream.
EnableLock(h) ==
  LET s == curCtx + 1
  IN /\ ~crashed
     /\ handler[h].pc = "en_lock" /\ ~lockHeld
     /\ cancelled' = IF curCtx # 0 THEN cancelled \cup {curCtx} ELSE cancelled
     /\ curCtx' = s
     /\ SetH(h, [handler[h] EXCEPT !.pc = "en_spawn", !.sess = s, !.reboot = curCtx # 0])
     /\ UNCHANGED <<devVars, oltVars, chanVars, lockHeld, loop, tele, curStream, stream,
                    restartPc, serverUp, budget, crashed>>

\* Past o.Unlock(): o.OpenoltStream = stream, then
\* `go o.processOltMessages(o.enableContext, stream, &wg)`: the loop gets
\* o.enableContext as it is now, which a later Enable may have replaced.
\* Then the send of the OLT-up message.
EnableSpawn(h) ==
  LET s == handler[h].sess
  IN /\ ~crashed
     /\ handler[h].pc = "en_spawn"
     /\ curStream' = s
     /\ loop' = [loop EXCEPT ![s] = [pc |-> "start", ch |-> 0, ctx |-> curCtx, msg |-> NoValue]]
     /\ SetH(h, SendRec(handler[h], Msg("OltUp"), "en_nni"))
     /\ UNCHANGED <<devVars, oltVars, chanVars, ctxVars, tele, stream, restartPc, serverUp,
                    budget, crashed>>

\* The NNI-up message; then the PONs to announce: on a reconnect the
\* disabled ones, on a first Enable all of them if activation is automatic.
EnableNni(h) ==
  /\ ~crashed
  /\ handler[h].pc = "en_nni"
  /\ SetH(h, SendRec([handler[h] EXCEPT
                        !.pons = IF handler[h].reboot \/ AutoPonUp THEN Pons ELSE {}],
                     Msg("NniUp"), "en_pons"))
  /\ UNCHANGED <<devVars, oltVars, chanVars, ctxVars, loop, tele, curStream, stream,
                 restartPc, serverUp, budget, crashed>>

\* One iteration of `for _, pon := range o.Pons`: the loop ends (pc done),
\* or the next PON p gets message t when it is in the set want.
PonStep(h, want, t, done) ==
  LET r == handler[h]
      p == CHOOSE q \in r.pons : \A q2 \in r.pons : q <= q2
  IN IF r.pons = {} THEN SetH(h, IF done = "idle" THEN NoHandler ELSE [r EXCEPT !.pc = done])
     ELSE IF p \in want THEN SetH(h, SendRec([r EXCEPT !.pons = @ \ {p}], PonMsg(t, p), r.pc))
     ELSE SetH(h, [r EXCEPT !.pons = @ \ {p}])

EnablePons(h) ==
  /\ ~crashed
  /\ handler[h].pc = "en_pons"
  /\ PonStep(h, {p \in Pons : ~handler[h].reboot \/ pon[p].int = "disabled"}, "PonUp", "en_stats")
  /\ UNCHANGED <<devVars, oltVars, chanVars, ctxVars, loop, tele, curStream, stream,
                 restartPc, serverUp, budget, crashed>>

\* After the sends: `go o.periodicPortStats(o.enableContext, &wg, stream)`,
\* again with o.enableContext as it is now.
EnableStats(h) ==
  LET s == handler[h].sess
  IN /\ ~crashed
     /\ handler[h].pc = "en_stats"
     /\ tele' = [tele EXCEPT ![s] = [pc |-> "run", count |-> 0, ctx |-> curCtx]]
     /\ SetH(h, [handler[h] EXCEPT !.pc = "en_wait"])
     /\ UNCHANGED <<devVars, oltVars, chanVars, ctxVars, loop, curStream, stream,
                    restartPc, serverUp, budget, crashed>>

\* wg.Wait(): the call returns once both loops of its session have ended.
EnableWait(h) ==
  LET s == handler[h].sess
  IN /\ ~crashed
     /\ handler[h].pc = "en_wait"
     /\ loop[s].pc = "done" /\ tele[s].pc = "done"
     /\ SetH(h, NoHandler)
     /\ UNCHANGED <<devVars, oltVars, chanVars, ctxVars, loop, tele, curStream, stream,
                    restartPc, serverUp, budget, crashed>>

\* A call other than Enable arrives.  SetAlarm comes from the BBSim API,
\* not from the OpenOLT server, so it is served during a reboot.
OtherCall(h, r) ==
  /\ ~crashed
  /\ handler[h].pc = "idle" /\ budget.calls < MaxCalls
  /\ budget' = [budget EXCEPT !.calls = @ + 1]
  /\ SetH(h, r)
  /\ UNCHANGED <<devVars, oltVars, chanVars, ctxVars, loop, tele, curStream, stream,
                 restartPc, serverUp, crashed>>

DisableOltCall(h) == serverUp /\ OtherCall(h, [NoHandler EXCEPT !.pc = "dolt_pons", !.pons = Pons])

\* DisableOlt: PON-down for every enabled PON, then OLT-down.
DisableOltPons(h) ==
  /\ ~crashed
  /\ handler[h].pc = "dolt_pons"
  /\ IF handler[h].pons = {}
     THEN SetH(h, SendRec(handler[h], Msg("OltDown"), "idle"))
     ELSE PonStep(h, {p \in Pons : pon[p].int = "enabled"}, "PonDown", "dolt_pons")
  /\ UNCHANGED <<devVars, oltVars, chanVars, ctxVars, loop, tele, curStream, stream,
                 restartPc, serverUp, budget, crashed>>

\* ReenableOlt: OLT-up, then PON-up for every disabled PON.
ReenableOltCall(h) ==
  serverUp /\ OtherCall(h, SendRec([NoHandler EXCEPT !.pons = Pons], Msg("OltUp"), "reen_pons"))

ReenableOltPons(h) ==
  /\ ~crashed
  /\ handler[h].pc = "reen_pons"
  /\ PonStep(h, {p \in Pons : pon[p].int = "disabled"}, "PonUp", "idle")
  /\ UNCHANGED <<devVars, oltVars, chanVars, ctxVars, loop, tele, curStream, stream,
                 restartPc, serverUp, budget, crashed>>

\* DisablePonIf / EnablePonIf: the PON message on the channel, then an ONU
\* indication for each ONU of the PON written straight to o.OpenoltStream
\* (PonIfOnus).
DisablePonIfCall(h, p) ==
  serverUp /\ OtherCall(h, SendRec([NoHandler EXCEPT !.pons = {p}, !.dir = "down"],
                                   PonMsg("PonDown", p), "ponif_onu"))

EnablePonIfCall(h, p) ==
  serverUp /\ OtherCall(h, SendRec([NoHandler EXCEPT !.pons = {p}, !.dir = "up"],
                                   PonMsg("PonUp", p), "ponif_onu"))

PonIfOnus(h) ==
  LET p == CHOOSE q \in handler[h].pons : TRUE
  IN /\ ~crashed
     /\ handler[h].pc = "ponif_onu"
     /\ SendOnStream(curStream, Ind("onu", p, handler[h].dir))
     /\ SetH(h, NoHandler)
     /\ UNCHANGED <<devVars, oltVars, chanVars, ctxVars, loop, tele, curStream, restartPc,
                    serverUp, budget, crashed>>

\* SetAlarm: an unknown interface is NotFound; otherwise the alarm is sent.
SetAlarmCall(h) ==
  \/ OtherCall(h, NoHandler)
  \/ OtherCall(h, SendRec(NoHandler, Msg("Alarm"), "idle"))


-----------------------------------------------------------------------------
(* Channel and dispatch loop                                               *)

\* The dispatch goroutine starts: ch := o.channel.
LoopStart(s) ==
  /\ ~crashed
  /\ loop[s].pc = "start"
  /\ loop' = [loop EXCEPT ![s].pc = "select", ![s].ch = chanGen]
  /\ UNCHANGED <<devVars, oltVars, chanVars, ctxVars, tele, curStream, stream, handler,
                 restartPc, serverUp, budget, crashed>>

\* Rendezvous on an open channel: the loop's `case message, ok := <-ch`
\* takes handler h's message.  Go's select picks among ready cases at
\* random, so a loop whose context is already cancelled may still take it.
Receive(h, s) ==
  /\ ~crashed
  /\ handler[h].pc = "send" /\ handler[h].ch \notin closed
  /\ loop[s].pc = "select" /\ loop[s].ch = handler[h].ch
  /\ loop' = [loop EXCEPT ![s].pc = "apply", ![s].msg = handler[h].msg]
  /\ SetH(h, IF handler[h].next = "idle" THEN NoHandler
             ELSE [handler[h] EXCEPT !.pc = handler[h].next, !.msg = NoValue])
  /\ UNCHANGED <<devVars, oltVars, chanVars, ctxVars, tele, curStream, stream, restartPc,
                 serverUp, budget, crashed>>

\* A send on a closed channel, or a blocked send whose channel is closed,
\* panics.
SendPanic(h) ==
  /\ ~crashed
  /\ handler[h].pc = "send" /\ handler[h].ch \in closed
  /\ crashed' = TRUE
  /\ UNCHANGED <<devVars, oltVars, chanVars, ctxVars, loop, tele, curStream, stream, handler,
                 restartPc, serverUp, budget>>

\* Mutant: the loop also leaves while its context is live and its channel open.
LoopExitAlways(s) ==
  /\ ~crashed
  /\ loop[s].pc = "select"
  /\ loop' = [loop EXCEPT ![s].pc = "done"]
  /\ UNCHANGED <<devVars, oltVars, chanVars, ctxVars, tele, curStream, stream, handler,
                 restartPc, serverUp, budget, crashed>>

\* `case <-ctx.Done()` or a closed channel (ok false): wg.Done().
LoopExit(s) ==
  /\ ~crashed
  /\ loop[s].pc = "select"
  /\ loop[s].ctx \in cancelled \/ loop[s].ch \in closed
  /\ loop' = [loop EXCEPT ![s].pc = "done"]
  /\ UNCHANGED <<devVars, oltVars, chanVars, ctxVars, tele, curStream, stream, handler,
                 restartPc, serverUp, budget, crashed>>

\* The OLT, NNI and alarm indications go on the stream the loop was started
\* with, the PON's on o.OpenoltStream.
SendOltIndication(s, st) == SendOnStream(s, Ind("olt", NoValue, st))
SendNniIndication(s) == SendOnStream(s, Ind("nni", NoValue, "up"))
SendAlarmIndication(s) == SendOnStream(s, Ind("alarm", NoValue, "none"))
SendPonIndication(p, st) == SendOnStream(curStream, Ind("pon", p, st))

\* A PON message fires e on the PON's OperState, then on its InternalState;
\* entering enabled or disabled sends the PON's indication.
PonApply(p, e) ==
  LET oper == Fire(OperEvents, pon[p].oper, e)
      int  == Fire(PonEvents, pon[p].int, e)
  IN /\ pon' = [pon EXCEPT ![p] = [int |-> int, oper |-> oper]]
     /\ IF int # pon[p].int THEN SendPonIndication(p, oper) ELSE UNCHANGED stream
     /\ UNCHANGED <<devVars, oltState, operState>>

\* The OLT message fires e on InternalState and OperState, then sends the
\* OLT indication.
OltApply(s, e, st) ==
  /\ oltState' = Fire(OltEvents, oltState, e)
  /\ operState' = Fire(OperEvents, operState, e)
  /\ SendOltIndication(s, st)
  /\ UNCHANGED pon

\* The loop handles the message it took, by type.
LoopApply(s) ==
  LET m == loop[s].msg
  IN /\ ~crashed
     /\ loop[s].pc = "apply"
     /\ CASE m.t = "OltUp"   -> OltApply(s, "enable", "up")
          [] m.t = "OltDown" -> OltApply(s, "disable", "down")
          [] m.t = "PonUp"   -> PonApply(m.pon, "enable")
          [] m.t = "PonDown" -> PonApply(m.pon, "disable")
          [] m.t = "NniUp"   -> SendNniIndication(s) /\ UNCHANGED oltVars
          [] m.t = "Alarm"   -> SendAlarmIndication(s) /\ UNCHANGED oltVars
     /\ loop' = [loop EXCEPT ![s].pc = "select", ![s].msg = NoValue]
     /\ UNCHANGED <<devVars, chanVars, ctxVars, tele, curStream, handler, restartPc, serverUp,
                    budget, crashed>>

-----------------------------------------------------------------------------
(* periodicPortStats                                                       *)

\* Mutant: the index wraps one sample too late.
NextStatLate(c) == IF c + 1 > NumStats THEN 0 ELSE c + 1

\* count++; if len(o.OltStats) == count { count = 0 }
NextStat(c) == IF c + 1 = NumStats THEN 0 ELSE c + 1

\* A tick sends o.OltStats[count] (out of range: a panic) and advances the
\* index.  The timer and ctx.Done() race in the select, so a tick may come
\* after the context is cancelled.
StatsTick(s) ==
  /\ ~crashed
  /\ tele[s].pc = "run"
  /\ crashed' = (tele[s].count >= NumStats)
  /\ tele' = [tele EXCEPT ![s].count = NextStat(@)]
  /\ UNCHANGED <<devVars, oltVars, chanVars, ctxVars, loop, curStream, stream, handler,
                 restartPc, serverUp, budget>>

StatsExit(s) ==
  /\ ~crashed
  /\ tele[s].pc = "run" /\ tele[s].ctx \in cancelled
  /\ tele' = [tele EXCEPT ![s].pc = "done"]
  /\ UNCHANGED <<devVars, oltVars, chanVars, ctxVars, loop, curStream, stream, handler,
                 restartPc, serverUp, budget, crashed>>

\* GetDeviceInfo: the reply is built from the configuration and from
\* o.PreviouslyConnected, read here with no lock held.
GetDeviceInfoCall(h) == serverUp /\ OtherCall(h, [NoHandler EXCEPT !.pc = "info_set"])

\* "once we connect, set the flag": o.PreviouslyConnected = true, and the
\* reply returns.
GetDeviceInfoSet(h) ==
  /\ ~crashed
  /\ handler[h].pc = "info_set"
  /\ prevConnected' = TRUE
  /\ SetH(h, NoHandler)
  /\ UNCHANGED <<signature, oltVars, chanVars, ctxVars, loop, tele, curStream, stream,
                 restartPc, serverUp, budget, crashed>>

-----------------------------------------------------------------------------
(* Reboot and RestartOLT                                                   *)

\* Reboot returns at once and runs RestartOLT in a goroutine.
RebootCall ==
  /\ ~crashed
  /\ serverUp /\ restartPc = "idle" /\ budget.reboots < MaxReboots
  /\ budget' = [budget EXCEPT !.reboots = @ + 1]
  /\ restartPc' = "delete"
  /\ UNCHANGED <<devVars, oltVars, chanVars, ctxVars, loop, tele, curStream, stream, handler,
                 serverUp, crashed>>

\* o.PreviouslyConnected = false; then the delete transition
\* (clearAllResources), or the error return when the OLT is neither enabled
\* nor disabled.
RestartDelete ==
  /\ ~crashed
  /\ restartPc = "delete"
  /\ prevConnected' = FALSE
  /\ IF oltState \in {"enabled", "disabled"}
     THEN oltState' = "deleted" /\ restartPc' = "stop"
     ELSE UNCHANGED oltState /\ restartPc' = "idle"
  /\ UNCHANGED <<signature, operState, pon, chanVars, ctxVars, loop, tele, curStream, stream,
                 handler, serverUp, budget, crashed>>

\* StopOltServer, then close(o.channel).
RestartStop ==
  /\ ~crashed
  /\ restartPc = "stop"
  /\ serverUp' = FALSE
  /\ restartPc' = "close"
  /\ UNCHANGED <<devVars, oltVars, chanVars, ctxVars, loop, tele, curStream, stream, handler,
                 budget, crashed>>

RestartClose ==
  /\ ~crashed
  /\ restartPc = "close"
  /\ closed' = closed \cup {chanGen}
  /\ restartPc' = "cancel"
  /\ UNCHANGED <<devVars, oltVars, chanGen, ctxVars, loop, tele, curStream, stream, handler,
                 serverUp, budget, crashed>>

\* o.Lock(); o.enableContextCancel(); sleep(rebootDelay)
RestartCancel ==
  /\ ~crashed
  /\ restartPc = "cancel" /\ ~lockHeld
  /\ lockHeld' = TRUE
  /\ cancelled' = cancelled \cup {curCtx}
  /\ restartPc' = "init"
  /\ UNCHANGED <<devVars, oltVars, chanVars, curCtx, loop, tele, curStream, stream, handler,
                 serverUp, budget, crashed>>

\* o.Unlock(); o.signature is set anew; the initialize transition runs InitOlt: the server is
\* started and o.channel is a new channel.
RestartInit ==
  /\ ~crashed
  /\ restartPc = "init"
  /\ lockHeld' = FALSE
  /\ signature' = signature + 1
  /\ oltState' = Fire(OltEvents, oltState, "initialize")
  /\ serverUp' = TRUE
  /\ chanGen' = chanGen + 1
  /\ restartPc' = "idle"
  /\ UNCHANGED <<prevConnected, operState, pon, closed, curCtx, cancelled, loop, tele, curStream,
                 stream, handler, budget, crashed>>

-----------------------------------------------------------------------------
(* Specification                                                           *)

\* CreateOLT: the initialize transition has run InitOlt.
Init ==
  /\ oltState = "initialized"
  /\ operState = "down"
  /\ pon = [p \in Pons |-> [int |-> "created", oper |-> "down"]]
  /\ chanGen = 0 /\ closed = {}
  /\ curCtx = 0 /\ cancelled = {} /\ lockHeld = FALSE
  /\ loop = [s \in Sessions |-> [pc |-> "none", ch |-> 0, ctx |-> 0, msg |-> NoValue]]
  /\ tele = [s \in Sessions |-> [pc |-> "none", count |-> 0, ctx |-> 0]]
  /\ curStream = 0
  /\ stream = [s \in Sessions |-> <<>>]
  /\ handler = [h \in Handlers |-> NoHandler]
  /\ restartPc = "idle" /\ serverUp = TRUE
  /\ budget = [enables |-> 0, reboots |-> 0, calls |-> 0]
  /\ crashed = FALSE
  /\ prevConnected = FALSE /\ signature = 0

HandlerStep(h) ==
  \/ EnableLock(h) \/ EnableSpawn(h) \/ EnableNni(h) \/ EnablePons(h) \/ EnableStats(h) \/ EnableWait(h)
  \/ DisableOltPons(h) \/ ReenableOltPons(h) \/ PonIfOnus(h) \/ GetDeviceInfoSet(h)
  \/ \E s \in Sessions : Receive(h, s)
  \/ SendPanic(h)

Calls(h) ==
  \/ EnableCall(h) \/ DisableOltCall(h) \/ ReenableOltCall(h) \/ SetAlarmCall(h)
  \/ GetDeviceInfoCall(h)
  \/ \E p \in Pons : DisablePonIfCall(h, p) \/ EnablePonIfCall(h, p)

LoopStep(s) ==
  LoopStart(s) \/ LoopExit(s) \/ LoopApply(s) \/ StatsTick(s) \/ StatsExit(s)

RestartStep ==
  RestartDelete \/ RestartStop \/ RestartClose \/ RestartCancel \/ RestartInit

\* Every action requires ~crashed: a panic ends the process.
Next ==
  \/ \E h \in Handlers : Calls(h) \/ HandlerStep(h)
  \/ \E s \in Sessions : LoopStep(s)
  \/ RebootCall \/ RestartStep

\* Goroutines that have started run: handler steps, loops and RestartOLT
\* are weakly fair.  A rendezvous is strongly fair: the runtime queues
\* blocked senders in FIFO order, so a sender is not passed over forever by
\* a loop that keeps coming back to its receive.  The controller's calls
\* are not fair: it may stop calling.
Fairness ==
  /\ \A h \in Handlers : WF_vars(HandlerStep(h))
  /\ \A h \in Handlers, s \in Sessions : SF_vars(Receive(h, s))
  /\ \A s \in Sessions : WF_vars(LoopStart(s) \/ LoopExit(s) \/ LoopApply(s))
  /\ \A s \in Sessions : WF_vars(StatsExit(s))
  /\ WF_vars(RestartStep)

Spec == Init /\ [][Next]_vars /\ Fairness

-----------------------------------------------------------------------------
(* Properties                                                              *)

TypeOK ==
  /\ oltState \in {"created", "initialized", "enabled", "disabled", "deleted"}
  /\ operState \in {"up", "down"}
  /\ pon \in [Pons -> [int : {"created", "enabled", "disabled"}, oper : {"up", "down"}]]
  /\ chanGen \in Gens /\ closed \subseteq Gens
  /\ curCtx \in 0..MaxSessions /\ cancelled \subseteq 0..MaxSessions
  /\ lockHeld \in BOOLEAN
  /\ loop \in [Sessions -> [pc : {"none", "start", "select", "apply", "done"},
                            ch : Gens, ctx : 0..MaxSessions, msg : Msgs \cup {NoValue}]]
  \* periodicPortStats indexes o.OltStats with count: it stays in range
  /\ tele \in [Sessions -> [pc : {"none", "run", "done"}, count : 0..NumStats-1,
                            ctx : 0..MaxSessions]]
  /\ curStream \in 0..MaxSessions
  /\ stream \in [Sessions -> Seq(Inds)]
  /\ \A h \in Handlers : handler[h].pc \in HPCs /\ handler[h].pons \subseteq Pons
  /\ restartPc \in {"idle", "delete", "stop", "close", "cancel", "init"}
  /\ serverUp \in BOOLEAN /\ crashed \in BOOLEAN
  /\ prevConnected \in BOOLEAN /\ signature \in 0..MaxReboots

Live(s) == loop[s].pc \in {"select", "apply"} /\ loop[s].ctx \notin cancelled

\* Enable cancels the previous session before it spawns a new dispatch
\* loop: at no time do two loops whose context is live both consume from
\* o.channel (processOltMessages, Enable's o.enableContextCancel()).
SingleLiveLoop ==
  \A s1, s2 \in Sessions : Live(s1) /\ Live(s2) => s1 = s2

\* A handler blocked on `o.channel <- msg` while a live dispatch loop reads
\* that channel eventually completes its send (or the process panics):
\* reconnects and reboots never strand a sender (processOltMessages'
\* select, Enable's cancel, RestartOLT's close).
SendsComplete ==
  \A h \in Handlers :
    (handler[h].pc = "send" /\ \E s \in Sessions : Live(s) /\ loop[s].ch = handler[h].ch)
      ~> (handler[h].pc # "send" \/ crashed)

\* An Enable call whose session has been cancelled eventually returns:
\* both goroutines of its WaitGroup observe ctx.Done() (Enable's
\* wg.Wait(), processOltMessages, periodicPortStats).
EnableReturns ==
  \A h \in Handlers, s \in Sessions :
    (handler[h].pc = "en_wait" /\ handler[h].sess = s /\ s \in cancelled)
      ~> (handler[h].pc = "idle" \/ crashed)

\* No goroutine panics, in particular none sends on the closed o.channel:
\* spec 5 says cancelling a session without closing the channel prevents a
\* send-on-closed-channel fault (RestartOLT's close(o.channel), SetAlarm).
NoPanic == ~crashed

\* Last indication for PON p before position i of a stream: its state.
LastPonSt(seq, i, p) ==
  LET js == {j \in 1..(i-1) : seq[j].k = "pon" /\ seq[j].pon = p}
  IN IF js = {} THEN "none" ELSE seq[CHOOSE j \in js : \A j2 \in js : j2 <= j].st

\* Enable's indications reach its stream in the order they were sent: an
\* NNI indication follows an OLT-up indication on the same stream (spec 8:
\* [OltUp, NniUp, PonUp] are observed in that order).
EnableIndicationOrder ==
  \A s \in Sessions : \A i \in 1..Len(stream[s]) :
    stream[s][i].k = "nni" =>
      \E j \in 1..(i-1) : stream[s][j] = Ind("olt", NoValue, "up")

\* An ONU indication that DisablePonIf / EnablePonIf writes to the stream
\* comes after the PON's own indication of that direction: the loop is the
\* sole writer of stream order (spec 4.5).
OnuAfterPonIndication ==
  \A s \in Sessions : \A i \in 1..Len(stream[s]) :
    stream[s][i].k = "onu" =>
      LastPonSt(stream[s], i, stream[s][i].pon) \in {stream[s][i].st, "none"}

\* Indications reach an Enable stream in the order the OLT enqueued them
\* (spec 4.2: the loop relays o.channel to the stream in order): both
\* orderings above hold on every stream, whichever goroutine wrote it.
IndicationOrder == EnableIndicationOrder /\ OnuAfterPonIndication

\* RestartOLT begins with o.PreviouslyConnected = false so that the
\* controller reconnecting after the reboot is told the OLT is a fresh one;
\* GetDeviceInfo sets it only "once we connect".  From that reset until
\* RestartOLT has run InitOlt, nothing may set it again.
NotConnectedWhileRestarting ==
  restartPc \in {"stop", "close", "cancel", "init"} => ~prevConnected

====
