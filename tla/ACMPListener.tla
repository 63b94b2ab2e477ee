---------------------------- MODULE ACMPListener ----------------------------
(***************************************************************************)
(* The Milan listener of avdecc/: the sinks (STREAM_INPUT descriptors) of  *)
(* one entity with the ACMP sink state machine of acmp_milan.c, the ADP    *)
(* discovery state machine of adp_milan.c, the in-flight commands of       *)
(* acmp.c and avdecc.c, and the exchange with MSRP over the two IPC        *)
(* channels.                                                               *)
(*                                                                         *)
(* Controllers, talkers and the application that saves the bindings are    *)
(* the environment.  A stream is named by the talker stream that sends it: *)
(* its identifier, destination address and VLAN are those of its probe     *)
(* response.  Faults are transmissions that fail and pools that are empty. *)
(***************************************************************************)
EXTENDS Integers, Sequences

CONSTANTS
  NumSinks,    \* acmp->max_listener_streams
  Talkers,     \* talker streams, (talker_entity_id, talker_unique_id)
  Entities,    \* the talker streams of each talker entity
  None,        \* no talker, no stream
  Waits,       \* values of the STREAMING_WAIT flag
  SeqMod,      \* sequence numbers, 2^16: no message outlives its number
  MaxQueue,    \* bound: messages in an IPC channel
  MaxFaults,   \* bound: faults
  LateRestore  \* the application may restore a binding after controllers bind

ASSUME SinksAssumption == NumSinks \in Nat
ASSUME TalkersAssumption == None \notin Talkers /\ Entities \subseteq SUBSET Talkers
ASSUME BoundsAssumption ==
  SeqMod \in Nat \ {0} /\ MaxQueue \in Nat /\ MaxFaults \in Nat
ASSUME FlagsAssumption == LateRestore \in BOOLEAN /\ Waits \subseteq BOOLEAN

VARIABLES
  sink,       \* sink[s]: struct stream_input_dynamic_desc
  sequence,   \* acmp->sequence_id
  inflight,   \* acmp->inflight, every entry with its timer running
  net,        \* probes under way or answered: their responses may arrive
  toSrp,      \* IPC channel from AVDECC to MSRP
  fromSrp,    \* IPC channel from MSRP to AVDECC
  declared,   \* MSRP: streams with a user declared listener
  registered, \* MSRP: streams with a registered talker attribute
  saved,      \* saved[s]: the binding the application was last told to save
  restore,    \* restore[s]: the binding the application sends after start up
  faults,     \* faults so far
  calm        \* the environment has settled

vars == <<sink, sequence, inflight, net, toSrp, fromSrp, declared, registered,
          saved, restore, faults, calm>>

-----------------------------------------------------------------------------
(* Data.                                                                   *)

Sinks == 0 .. NumSinks - 1
Probing == {"PRB_W_DELAY", "PRB_W_RESP", "PRB_W_RESP2", "PRB_W_RETRY"}
AwaitingResponse == {"PRB_W_RESP", "PRB_W_RESP2"}
SettledStates == {"SETTLED_NO_RSV", "SETTLED_RSV_OK"}
States == {"UNBOUND", "PRB_W_AVAIL"} \cup Probing \cup SettledStates
Timers == {"DELAY", "RETRY", "NO_TK", "NO_ADP"}
ProbingStatus == {"DISABLED", "PASSIVE", "ACTIVE", "COMPLETED"}

Binding == [talker : Talkers \cup {None}, wait : BOOLEAN]
NoBinding == [talker |-> None, wait |-> FALSE]
SinkType == [state : States, bind : Binding, stream : Talkers \cup {None},
             registering : BOOLEAN, probing : ProbingStatus,
             seq : 0 .. SeqMod - 1, discovered : BOOLEAN, timers : SUBSET Timers]
MessageType == [seq : 0 .. SeqMod - 1, sink : Sinks, talker : Talkers]
InflightType == [msg : MessageType, retried : BOOLEAN]
RequestType == [op : {"REGISTER", "DEREGISTER"}, stream : Talkers \cup {None}]
StatusType == [stream : Talkers \cup {None}, talker : BOOLEAN]

Bound(r) == r.state # "UNBOUND"
Settled(r) == r.state \in SettledStates

\* The ACMP timer that runs in a state, and that the state machine stops on
\* leaving it.
OwnTimer(st) ==
  CASE st = "PRB_W_DELAY" -> {"DELAY"}
    [] st = "PRB_W_RETRY" -> {"RETRY"}
    [] st = "SETTLED_NO_RSV" -> {"NO_TK"}
    [] OTHER -> {}

-----------------------------------------------------------------------------
(* Steps of the sink state machine on one sink r.                          *)

\* Mutated forms of Leave: the timer of the state left keeps running; the SRP
\* parameters of the stream are kept.
LeaveTimerRunning(r, st) ==
  [r EXCEPT !.state = st,
            !.stream = IF Settled(r) THEN None ELSE @,
            !.registering = @ /\ ~Settled(r)]

LeaveStreamSet(r, st) ==
  [r EXCEPT !.state = st, !.timers = @ \ OwnTimer(r.state), !.registering = @ /\ ~Settled(r)]

\* The state left, its own timer stopped and, if it was settled, the SRP
\* parameters cleared.
Leave(r, st) ==
  [r EXCEPT !.state = st, !.timers = @ \ OwnTimer(r.state),
            !.stream = IF Settled(r) THEN None ELSE @,
            !.registering = @ /\ ~Settled(r)]

\* Mutated form of Reset: the talker state is not reset.
ResetTimerOnly(r) == [r EXCEPT !.timers = @ \ {"NO_ADP"}]

\* adp_milan_listener_sink_discovery_sm, RESET.
Reset(r) ==
  IF r.discovered THEN [r EXCEPT !.discovered = FALSE, !.timers = @ \ {"NO_ADP"}] ELSE r

WaitAvailable(r) == [Leave(r, "PRB_W_AVAIL") EXCEPT !.probing = "PASSIVE"]
WaitDelay(r) == [Leave(r, "PRB_W_DELAY") EXCEPT !.timers = @ \cup {"DELAY"}]
WaitRetry(r) == [Leave(r, "PRB_W_RETRY") EXCEPT !.timers = @ \cup {"RETRY"}]

\* Mutated form of Reprobe: the probing status is not set to active.
ReprobeUnreported(r) == IF r.discovered THEN WaitDelay(r) ELSE WaitAvailable(r)

\* Probe again when the talker is there, wait for it otherwise.
Reprobe(r) ==
  IF r.discovered THEN [WaitDelay(r) EXCEPT !.probing = "ACTIVE"] ELSE WaitAvailable(r)

\* EVT_TK_DISCOVERED and EVT_TK_DEPARTED.
Discovered(r) ==
  IF r.state = "PRB_W_AVAIL" THEN [WaitDelay(r) EXCEPT !.probing = "ACTIVE"] ELSE r
Departed(r) == IF r.state \in Probing THEN WaitAvailable(r) ELSE r

\* Mutated form of NoResponse: the first timeout already ends the probe.
NoResponseOnce(r) == IF r.state \in AwaitingResponse THEN WaitRetry(r) ELSE r

\* TMR_NO_RESP: called for a first and for a second probe without response.
NoResponse(r) ==
  CASE r.state = "PRB_W_RESP" -> [r EXCEPT !.state = "PRB_W_RESP2"]
    [] r.state = "PRB_W_RESP2" -> WaitRetry(r)
    [] OTHER -> r

\* avdecc_inflight_cancel: by sequence number alone.
Cancel(n) == {i \in inflight : i.msg.seq = n}

\* The entries a sink r cancels when it stops waiting for a response.
Abandoned(r) == IF r.state \in AwaitingResponse THEN Cancel(r.seq) ELSE {}

\* RCV_BIND_RX_CMD, its parameters set, and RCV_UNBIND_RX_CMD, in every state;
\* discovery is reset too, except by an unbind of an unbound sink.
Restarted(r) == Reset(Leave(r, "PRB_W_RESP"))
Unbound(r) ==
  LET left == [Leave(r, "UNBOUND") EXCEPT !.bind = NoBinding, !.probing = "DISABLED"]
  IN IF Bound(r) THEN Reset(left) ELSE left

\* RCV_PROBE_TX_RESP, success: acmp_milan_set_stream_input_srp_params and TMR_NO_TK.
SettledOn(r, t) ==
  [r EXCEPT !.state = "SETTLED_NO_RSV", !.stream = t,
            !.timers = @ \cup {"NO_TK"}, !.probing = "COMPLETED"]

\* acmp_listener_stack_disconnect of sink s, if it is connected.
Disconnect(r) ==
  toSrp' = IF Settled(r) THEN Append(toSrp, [op |-> "DEREGISTER", stream |-> r.stream])
           ELSE toSrp

\* Bound: the channel to MSRP has room.  Not asked of ListenerStatus, or the two
\* bounded channels could wait for each other.
Room == Len(toSrp) < MaxQueue

Fault(f) ==
  /\ f # "none" => faults < MaxFaults
  /\ faults' = IF f = "none" THEN faults ELSE faults + 1

\* Mutated form of SendProbe: the sequence number is wider than its field.
SendProbeUnwrapped(s, t, f, gone) ==
  LET msg == [seq |-> sequence, sink |-> s, talker |-> t]
  IN /\ sequence' = sequence + 1
     /\ inflight' = (inflight \ gone) \cup {[msg |-> msg, retried |-> FALSE]}
     /\ net' = net \cup {msg}

\* acmp_milan_send_probe_tx_command and acmp_send_cmd: the in-flight entry is
\* made and the probe is sent; gone are the entries the caller cancels.  Faults:
\* no descriptor, no free in-flight entry, a failed transmission.
SendProbe(s, t, f, gone) ==
  IF f = "desc"
    THEN inflight' = inflight \ gone /\ UNCHANGED <<sequence, net>>
    ELSE LET msg == [seq |-> sequence, sink |-> s, talker |-> t]
         IN /\ Cancel(sequence) = {}
            /\ sequence' = (sequence + 1) % SeqMod
            /\ inflight' = (inflight \ gone) \cup
                 (IF f = "entry" THEN {} ELSE {[msg |-> msg, retried |-> FALSE]})
            /\ net' = {m \in net : m.seq # sequence} \cup (IF f = "tx" THEN {} ELSE {msg})

-----------------------------------------------------------------------------
(* Controllers and the application.                                        *)

\* Mutated form of AlreadyBound: the search ends at the sink itself.
BoundBelow(s, t) == \E u \in 0 .. s - 1 : sink[u].bind.talker = t

\* is_listener_already_bound_to_talker_unique_id.
AlreadyBound(s, t) == \E u \in Sinks \ {s} : sink[u].bind.talker = t

\* acmp_milan_need_binding_restart.
NeedRestart(r, b) == r.bind.talker # b.talker

\* acmp_listener_ipc_send_bind_status, acmp_listener_ipc_send_unbind_status.
Told(s, b) == [saved EXCEPT ![s] = b]

\* acmp_milan_listener_bind and RCV_BIND_RX_CMD in every state.  A talker that
\* another sink is bound to is refused and nothing changes.  On a fault the
\* parameters are set, and the state is kept.
Bind(s, b, f) ==
  LET r == sink[s]
      restart == NeedRestart(r, b)
      failed == f \in {"rsp", "desc", "tx"}
      moves == ~failed /\ (restart \/ ~Bound(r))
      probed == [r EXCEPT !.bind = b,
                          !.probing = IF restart THEN "ACTIVE" ELSE @,
                          !.seq = IF restart /\ f # "desc" THEN sequence ELSE @]
      gone == IF moves THEN Abandoned(r) ELSE {}
  IN /\ ~calm
     /\ LateRestore \/ \A u \in Sinks : restore[u] = NoBinding
     /\ ~AlreadyBound(s, b.talker)
     /\ restart \/ f \in {"none", "rsp"}
     /\ Settled(r) => Room
     /\ Fault(f)
     /\ IF restart THEN SendProbe(s, b.talker, f, gone)
                   ELSE UNCHANGED <<sequence, inflight, net>>
     /\ sink' = [sink EXCEPT ![s] =
                  IF moves THEN Restarted(probed) ELSE probed]
     /\ IF moves THEN Disconnect(r) ELSE UNCHANGED toSrp
     /\ saved' = IF r.bind = b THEN saved ELSE Told(s, b)
     /\ UNCHANGED <<fromSrp, declared, registered, restore, calm>>

\* acmp_milan_listener_unbind and RCV_UNBIND_RX_CMD in every state.
Unbind(s) ==
  /\ ~calm
  /\ LateRestore \/ \A u \in Sinks : restore[u] = NoBinding
  /\ Settled(sink[s]) => Room
  /\ sink' = [sink EXCEPT ![s] = Unbound(@)]
  /\ inflight' = inflight \ Abandoned(sink[s])
  /\ Disconnect(sink[s])
  /\ saved' = Told(s, NoBinding)
  /\ UNCHANGED <<sequence, net, fromSrp, declared, registered, restore, faults, calm>>

\* Mutated form of StartStop: the application is not told.
StartStopUntold(s) ==
  /\ ~calm /\ Bound(sink[s])
  /\ sink' = [sink EXCEPT ![s].bind.wait = ~@]
  /\ UNCHANGED <<sequence, inflight, net, toSrp, fromSrp, declared, registered,
                 saved, restore, faults, calm>>

\* acmp_milan_start_streaming and acmp_milan_stop_streaming.
StartStop(s) ==
  LET b == [sink[s].bind EXCEPT !.wait = ~@]
  IN /\ ~calm /\ Bound(sink[s]) /\ b.wait \in Waits
     /\ sink' = [sink EXCEPT ![s].bind = b]
     /\ saved' = Told(s, b)
     /\ UNCHANGED <<sequence, inflight, net, toSrp, fromSrp, declared, registered,
                    restore, faults, calm>>

\* acmp_milan_listener_sink_rcv_binding_params: the parameters are set in any
\* state, SAVED_BINDING_PARAMS is ignored unless the sink is unbound.
Restore(s) ==
  LET r == [sink[s] EXCEPT !.bind = restore[s]]
  IN /\ restore[s] # NoBinding
     /\ sink' = [sink EXCEPT ![s] = IF Bound(r) THEN r ELSE Reset(WaitAvailable(r))]
     /\ restore' = [restore EXCEPT ![s] = NoBinding]
     /\ UNCHANGED <<sequence, inflight, net, toSrp, fromSrp, declared, registered,
                    saved, faults, calm>>

-----------------------------------------------------------------------------
(* Discovery: adp_milan_listener_sink_discovery_sm.                        *)

\* The sinks become next; of those taken to have departed, the ones that await a
\* response give up their probe.
Discover(next, departed) ==
  /\ sink' = next
  /\ inflight' = inflight \ UNION {Abandoned(sink[s]) : s \in departed}
  /\ UNCHANGED <<sequence, net, toSrp, fromSrp, declared, registered, saved, restore,
                 faults, calm>>

\* adp_milan_listener_rcv: ADP messages reach the sinks bound to a stream of e.
BoundTo(s, e) == Bound(sink[s]) /\ sink[s].bind.talker \in e

\* RCV_ADP_AVAILABLE: newer when available_index has grown, gptp when the
\* grandmaster and domain are ours.
Available(r, newer, gptp) ==
  CASE ~r.discovered /\ gptp ->
         [Discovered(r) EXCEPT !.discovered = TRUE, !.timers = @ \cup {"NO_ADP"}]
    [] r.discovered /\ ~newer /\ gptp -> Discovered(Departed(r))
    [] r.discovered /\ ~newer /\ ~gptp -> Reset(Departed(r))
    [] OTHER -> r

AdpAvailable(e, newer, gptp) ==
  LET hear == {s \in Sinks : BoundTo(s, e)}
  IN /\ calm => newer /\ gptp
     /\ Discover([s \in Sinks |-> IF s \in hear THEN Available(sink[s], newer, gptp)
                                               ELSE sink[s]],
                 {s \in hear : sink[s].discovered /\ ~newer})

\* RCV_ADP_DEPARTING, and TMR_NO_ADP for one sink, when the talker is discovered.
Depart(S) ==
  LET hear == {s \in S : sink[s].discovered}
  IN Discover([s \in Sinks |-> IF s \in hear THEN Reset(Departed(sink[s])) ELSE sink[s]], hear)

AdpDeparting(e) == ~calm /\ Depart({s \in Sinks : BoundTo(s, e)})
TmrNoAdp(s) == ~calm /\ "NO_ADP" \in sink[s].timers /\ Depart({s})

-----------------------------------------------------------------------------
(* Probing.                                                                *)

\* TMR_DELAY.
TmrDelay(s, f) ==
  LET r == sink[s]
  IN /\ r.state = "PRB_W_DELAY" /\ "DELAY" \in r.timers
     /\ f \in {"none", "desc", "entry", "tx"} /\ Fault(f)
     /\ SendProbe(s, r.bind.talker, f, {})
     /\ sink' = [sink EXCEPT ![s] = [Leave(r, "PRB_W_RESP") EXCEPT
                  !.seq = IF f = "desc" THEN @ ELSE sequence]]
     /\ UNCHANGED <<toSrp, fromSrp, declared, registered, saved, restore, calm>>

\* Mutated form of TmrRetry: the sink waits for a discovery that has happened.
TmrRetryPassive(s) ==
  /\ sink[s].state = "PRB_W_RETRY" /\ "RETRY" \in sink[s].timers
  /\ sink' = [sink EXCEPT ![s] = WaitAvailable(@)]
  /\ UNCHANGED <<sequence, inflight, net, toSrp, fromSrp, declared, registered,
                 saved, restore, faults, calm>>

\* TMR_RETRY: the probing status stays active when the talker is there.
TmrRetry(s) ==
  LET r == sink[s]
  IN /\ r.state = "PRB_W_RETRY" /\ "RETRY" \in r.timers
     /\ sink' = [sink EXCEPT ![s] = IF r.discovered THEN WaitDelay(r) ELSE WaitAvailable(r)]
     /\ UNCHANGED <<sequence, inflight, net, toSrp, fromSrp, declared, registered,
                    saved, restore, faults, calm>>

\* acmp_inflight_timeout and avdecc_inflight_timeout, for the probes of a sink (the
\* commands of a controller on the same entity, answered to its application, are
\* left out).  The probe is sent a second time with the same number; when it can
\* not be copied the timer runs once more and the next time-out tries again.
InflightTimeout(i, f) ==
  /\ i \in inflight
  /\ calm => i.msg \notin net
  /\ f \in {"none", "desc"} /\ Fault(f) /\ (i.retried => f = "none")
  /\ sink' = [sink EXCEPT ![i.msg.sink] = NoResponse(@)]
  /\ inflight' = (inflight \ {i}) \cup
       (CASE i.retried -> {}
          [] ~i.retried /\ f = "none" -> {[i EXCEPT !.retried = TRUE]}
          [] OTHER -> {i})
  /\ net' = IF ~i.retried /\ f = "none" THEN net \cup {i.msg} ELSE net
  /\ UNCHANGED <<sequence, toSrp, fromSrp, declared, registered, saved, restore, calm>>

\* RCV_PROBE_TX_RESP for the probe m.  Ignored when the sink does not await one
\* or no entry has its number.
ProbeResponse(m, success, again) ==
  LET r == sink[m.sink]
      taken == r.state \in AwaitingResponse /\ Cancel(m.seq) # {}
  IN /\ m \in net
     /\ calm => success /\ ~again
     /\ taken /\ success => Room
     /\ sink' = [sink EXCEPT ![m.sink] =
          CASE taken /\ success -> SettledOn(r, m.talker)
            [] taken /\ ~success -> WaitRetry(r)
            [] OTHER -> r]
     /\ inflight' = IF taken THEN inflight \ Cancel(m.seq) ELSE inflight
     /\ toSrp' = IF taken /\ success
                   THEN Append(toSrp, [op |-> "REGISTER", stream |-> m.talker]) ELSE toSrp
     /\ net' = IF again THEN net ELSE net \ {m}
     /\ UNCHANGED <<sequence, fromSrp, declared, registered, saved, restore, faults, calm>>

\* The network loses a probe, or its response.
Lose(m) ==
  /\ m \in net /\ ~calm
  /\ net' = net \ {m}
  /\ UNCHANGED <<sink, sequence, inflight, toSrp, fromSrp, declared, registered, saved,
                 restore, faults, calm>>

-----------------------------------------------------------------------------
(* Reservation.                                                            *)

\* TMR_NO_TK.
TmrNoTk(s) ==
  LET r == sink[s]
  IN /\ r.state = "SETTLED_NO_RSV" /\ "NO_TK" \in r.timers /\ Room
     /\ calm => toSrp = <<>> /\ fromSrp = <<>> /\ r.stream \notin registered
     /\ Disconnect(r)
     /\ sink' = [sink EXCEPT ![s] = Reprobe(r)]
     /\ UNCHANGED <<sequence, inflight, net, fromSrp, declared, registered, saved,
                    restore, faults, calm>>

\* acmp_milan_get_listener_unique_id: the first sink of a stream.
SinksOf(stream) == {s \in Sinks : sink[s].stream = stream}
FirstOf(S) == CHOOSE s \in S : \A u \in S : s <= u

\* acmp_milan_listener_srp_state_sm, with EVT_TK_REGISTERED and
\* EVT_TK_UNREGISTERED of the sink state machine.
SrpState(r, talker) ==
  CASE ~r.registering /\ talker ->
         [r EXCEPT !.registering = TRUE,
                   !.state = IF @ = "SETTLED_NO_RSV" THEN "SETTLED_RSV_OK" ELSE @,
                   !.timers = IF r.state = "SETTLED_NO_RSV" THEN @ \ {"NO_TK"} ELSE @]
    [] r.registering /\ ~talker /\ r.state = "SETTLED_RSV_OK" -> Reprobe(r)
    [] r.registering /\ ~talker /\ r.state # "SETTLED_RSV_OK" -> [r EXCEPT !.registering = FALSE]
    [] OTHER -> r

\* avdecc_ipc_rx_srp, GENAVB_MSG_LISTENER_STATUS.
ListenerStatus ==
  /\ fromSrp # <<>>
  /\ fromSrp' = Tail(fromSrp)
  /\ LET m == Head(fromSrp)
         s == FirstOf(SinksOf(m.stream))
         known == SinksOf(m.stream) # {} /\ Settled(sink[s])
         lost == known /\ sink[s].registering /\ ~m.talker /\ sink[s].state = "SETTLED_RSV_OK"
     IN /\ sink' = IF known THEN [sink EXCEPT ![s] = SrpState(@, m.talker)] ELSE sink
        /\ IF lost THEN Disconnect(sink[s]) ELSE UNCHANGED toSrp
  /\ UNCHANGED <<sequence, inflight, net, declared, registered, saved, restore, faults, calm>>

\* msrp_ipc_listener_status: for streams with a user declared listener.
Status(stream, talker, users) ==
  IF stream \in users THEN Append(fromSrp, [stream |-> stream, talker |-> talker]) ELSE fromSrp

\* Mutated form of MsrpRequest: no status is sent for a new listener.
MsrpRequestSilent ==
  /\ toSrp # <<>>
  /\ toSrp' = Tail(toSrp)
  /\ declared' = IF Head(toSrp).op = "REGISTER" THEN declared \cup {Head(toSrp).stream}
                 ELSE declared \ {Head(toSrp).stream}
  /\ UNCHANGED <<sink, sequence, inflight, net, fromSrp, registered, saved, restore,
                 faults, calm>>

\* __msrp_ipc_rx: LISTENER_REGISTER is answered by a status.
MsrpRequest ==
  /\ toSrp # <<>>
  /\ Head(toSrp).op = "REGISTER" => Len(fromSrp) < MaxQueue
  /\ toSrp' = Tail(toSrp)
  /\ LET m == Head(toSrp)
     IN IF m.op = "REGISTER"
          THEN /\ declared' = declared \cup {m.stream}
               /\ fromSrp' = Status(m.stream, m.stream \in registered, declared')
          ELSE declared' = declared \ {m.stream} /\ UNCHANGED fromSrp
  /\ UNCHANGED <<sink, sequence, inflight, net, registered, saved, restore, faults, calm>>

\* msrp_register_stream_indication and msrp_deregister_stream_indication.
TalkerRegistered(t) ==
  /\ t \notin registered /\ Len(fromSrp) < MaxQueue
  /\ registered' = registered \cup {t}
  /\ fromSrp' = Status(t, TRUE, declared)
  /\ UNCHANGED <<sink, sequence, inflight, net, toSrp, declared, saved, restore, faults, calm>>

TalkerDeregistered(t) ==
  /\ ~calm /\ t \in registered /\ Len(fromSrp) < MaxQueue
  /\ registered' = registered \ {t}
  /\ fromSrp' = Status(t, FALSE, declared)
  /\ UNCHANGED <<sink, sequence, inflight, net, toSrp, declared, saved, restore, faults, calm>>

\* The environment settles: no more commands, faults, losses and departures;
\* talkers advertise, answer and declare their stream in time.
Calm ==
  /\ ~calm /\ calm' = TRUE
  /\ \A s \in Sinks : restore[s] = NoBinding
  /\ UNCHANGED <<sink, sequence, inflight, net, toSrp, fromSrp, declared, registered,
                 saved, restore, faults>>

-----------------------------------------------------------------------------

Faults == {"none", "rsp", "desc", "entry", "tx"}

\* acmp_milan_init; the application has saved bindings of an earlier session.
Init ==
  /\ sink = [s \in Sinks |-> [state |-> "UNBOUND", bind |-> NoBinding, stream |-> None,
       registering |-> FALSE, probing |-> "DISABLED", seq |-> 0,
       discovered |-> FALSE, timers |-> {}]]
  /\ sequence = 0 /\ inflight = {} /\ net = {}
  /\ toSrp = <<>> /\ fromSrp = <<>> /\ declared = {} /\ registered = {}
  /\ restore \in [Sinks -> {NoBinding} \cup [talker : Talkers, wait : Waits]]
  /\ \A s, u \in Sinks : s # u => restore[s].talker # restore[u].talker
                                  \/ restore[s] = NoBinding
  /\ saved = restore
  /\ faults = 0 /\ calm = FALSE

Next ==
  \/ \E s \in Sinks :
       \/ \E t \in Talkers, w \in Waits, f \in Faults : Bind(s, [talker |-> t, wait |-> w], f)
       \/ Unbind(s) \/ StartStop(s) \/ Restore(s)
       \/ \E f \in Faults : TmrDelay(s, f)
       \/ TmrRetry(s) \/ TmrNoTk(s) \/ TmrNoAdp(s)
  \/ \E e \in Entities : AdpDeparting(e)
                         \/ \E newer, gptp \in BOOLEAN : AdpAvailable(e, newer, gptp)
  \/ \E i \in inflight, f \in Faults : InflightTimeout(i, f)
  \/ \E m \in net : Lose(m) \/ \E success, again \in BOOLEAN : ProbeResponse(m, success, again)
  \/ ListenerStatus \/ MsrpRequest
  \/ \E t \in Talkers : TalkerRegistered(t) \/ TalkerDeregistered(t)
  \/ Calm

Spec == Init /\ [][Next]_vars

\* Timers expire, queued IPC messages are handled, and once the environment is
\* calm talkers advertise, answer probes and register their stream.
Fairness ==
  /\ \A s \in Sinks : /\ WF_vars(TmrDelay(s, "none")) /\ WF_vars(TmrRetry(s))
                      /\ WF_vars(TmrNoTk(s))
  /\ WF_vars(\E i \in inflight : InflightTimeout(i, "none"))
  /\ WF_vars(ListenerStatus) /\ WF_vars(MsrpRequest)
  /\ WF_vars(calm /\ \E m \in net : ProbeResponse(m, TRUE, FALSE))
  /\ \A e \in Entities : WF_vars(calm /\ AdpAvailable(e, TRUE, TRUE))
  /\ \A t \in Talkers : SF_vars(calm /\ TalkerRegistered(t))

FairSpec == Spec /\ Fairness

-----------------------------------------------------------------------------
(* Properties.                                                             *)

\* Every variable keeps its type: descriptors, in-flight list, channels.
TypeOK ==
  /\ sink \in [Sinks -> SinkType]
  /\ sequence \in 0 .. SeqMod - 1
  /\ inflight \subseteq InflightType
  /\ net \subseteq MessageType
  /\ toSrp \in Seq(RequestType) /\ fromSrp \in Seq(StatusType)
  /\ declared \subseteq Talkers \cup {None} /\ registered \subseteq Talkers
  /\ saved \in [Sinks -> Binding] /\ restore \in [Sinks -> Binding]
  /\ faults \in 0 .. MaxFaults /\ calm \in BOOLEAN

\* Exactly the timer of its state runs for a sink, and TMR_NO_ADP exactly while
\* its talker is discovered: no bind, unbind, departure or response in any state
\* leaves a timer behind that would fire in a later state.
TimersMatchState ==
  \A s \in Sinks : /\ sink[s].timers \ {"NO_ADP"} = OwnTimer(sink[s].state)
                   /\ "NO_ADP" \in sink[s].timers <=> sink[s].discovered

\* A sink that waits for a probe response has an in-flight entry that will time
\* out, a retried one exactly in PRB_W_RESP2; and an entry belongs to a sink
\* that waits for it, for the talker the sink is bound to now.  Otherwise the
\* sink waits for ever, or is driven by a probe of an earlier binding.
ProbeOutstanding ==
  /\ \A s \in Sinks : sink[s].state \in AwaitingResponse =>
       \E i \in inflight : /\ i.msg.sink = s
                           /\ i.retried <=> sink[s].state = "PRB_W_RESP2"
  /\ \A i \in inflight : LET r == sink[i.msg.sink] IN
       /\ r.state \in AwaitingResponse
       /\ r.seq = i.msg.seq /\ r.bind.talker = i.msg.talker

\* A sink receives a stream exactly while it is settled, and it is the stream
\* of the talker it is bound to: no late or duplicated response to a probe of an
\* earlier binding settles it, and no change of binding leaves the old stream.
SettledOnBound ==
  \A s \in Sinks : LET r == sink[s] IN
    /\ Settled(r) <=> r.stream # None
    /\ Settled(r) => r.stream = r.bind.talker

\* A sink waits for the discovery of its talker only while the discovery state
\* machine has not discovered it: EVT_TK_DISCOVERED is sent once.
NoLostWakeup == \A s \in Sinks : sink[s].state = "PRB_W_AVAIL" => ~sink[s].discovered

\* The probing status reported to controllers is what acmp_milan.h says of it:
\* disabled when not bound, passive while the talker is awaited, active while it
\* is queried, completed when settled.
ProbingReported ==
  \A s \in Sinks : LET r == sink[s] IN
    r.probing = CASE r.state = "UNBOUND" -> "DISABLED"
                  [] r.state = "PRB_W_AVAIL" -> "PASSIVE"
                  [] r.state \in Probing -> "ACTIVE"
                  [] OTHER -> "COMPLETED"

\* No two sinks are bound to the same talker stream, which the network layer can
\* not receive twice.
NoSharedTalker ==
  \A s, u \in Sinks : s # u /\ sink[s].bind.talker # None =>
    sink[s].bind.talker # sink[u].bind.talker

\* The application has been told to save the binding the sink has, whatever
\* commands changed it, once its own saved binding is restored.
SavedAgrees == \A s \in Sinks : restore[s] = NoBinding => saved[s] = sink[s].bind

\* When both IPC channels are empty MSRP declares a listener for exactly the
\* streams of the settled sinks, and a sink has a reservation exactly if MSRP
\* has registered its talker: statuses that crossed a disconnect or a new
\* connect on the channels do no lasting harm.
ReservationAgrees ==
  toSrp = <<>> /\ fromSrp = <<>> =>
    /\ declared = {sink[s].stream : s \in Sinks} \ {None}
    /\ \A s \in Sinks : Settled(sink[s]) =>
         /\ sink[s].registering <=> sink[s].stream \in registered
         /\ sink[s].registering <=> sink[s].state = "SETTLED_RSV_OK"

\* Once the environment is calm every bound sink ends up settled with a
\* reservation, from any state of probing, retrying and discovery.
Settles ==
  <>calm => <>[](\A s \in Sinks : Bound(sink[s]) => sink[s].state = "SETTLED_RSV_OK")

=============================================================================
