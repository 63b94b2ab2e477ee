# Verification of the GenAVB/TSN stack

GenAVB/TSN is NXP's implementation of the AVB/TSN control protocols: stream
reservation (SRP: MRP, MSRP, MVRP), multicast address acquisition (MAAP), AVDECC
(ADP, ACMP, AECP), time synchronisation (gPTP), HSR, and AVTP streaming. This
directory holds TLA+ models of its control protocols, TLC configurations that
check them on small instances, and TLAPS proofs for all values of the constants.

| Module | Code | Runs | Proofs |
| --- | --- | --- | --- |
| `MAAP` | `maap/maap.c` | `maap_timely`, `maap_lossy` | `MAAP_proofs` |
| `MRP` | `srp/mrp.c`, and how `msrp.c`, `msrp_map.c`, `mvrp.c` use it | `mrp_stream`, `mrp_timed`, `mrp_lost_change` | `MRP_proofs` |
| `MVRP`, `MSRP` (`MCMSRP`) | `srp/mvrp.c`, `mvrp_map.c`, `msrp.c`, `msrp_map.c`, `common/fqtss.c` | `msrp` | `MSRP_proofs` |
| `ACMPListener` | `avdecc/acmp_milan.c` (listener), `adp_milan.c` (discovery by a sink), in-flight commands of `acmp.c` and `avdecc.c`, MSRP's IPC side | `acmp_pair`, `acmp_live` | `ACMPListener_proofs` |
| `ACMPTalker`, `StreamSource` | `avdecc/acmp_milan.c` (talker), and what a stream output promises | `acmp_talker` | `ACMPTalker_proofs` |
| `ADP` (`MCADP`) | `avdecc/adp.c`, `adp_milan.c`, `adp_ieee.c` and the events of `avdecc.c` | `adp` | `ADP_proofs` |
| `BMCA` (`MCBMCA`) | `gptp/bmca.c`, `site_fsm.c`, announce machines of `port_fsm.c`, `gptp.c` | `bmca` | `BMCA_proofs` |
| `PDelay` | peer delay machines of `gptp/md_fsm_802_3.c`, handlers of `gptp.c` | `pdelay` | `PDelay_proofs` |

To repeat a check: `tlc -workers 2 -config maap_timely.cfg MAAP`, and
`tlapm MAAP_proofs.tla`. `PROJECT.json` lists for each definition the source lines it
stands for, for each property a mutated definition that violates it, and the
hazards the properties aim at. Source paths below are relative to the repository.

## 1. Inventory

The stack is a set of single-threaded tasks (AVDECC, MAAP, SRP, gPTP, HSR, AVTP),
each an event loop over network sockets, IPC channels and software timers. Inside
a task a handler runs to completion. All interleaving is therefore between
handlers (which packet, message or timer comes next), between tasks (over IPC
queues), and between stations (over the network); the models have exactly these
interleavings, and one action is one handler. MRP reception is split vector by
vector, because the handler of one vector calls into MSRP and back.

| Component | State | Operations | Interaction | What is hard | What must hold |
| --- | --- | --- | --- | --- | --- |
| MAAP | per port up to N ranges: state, address, count, probe count, two timers, whether SUCCESS was indicated | create, delete, receive PROBE/DEFEND/ANNOUNCE, probe and announce timers, link up | frames on the LAN, indications to the host | frames crossing, loss, link failure in any state, re-probing | no address owned twice; host view follows; timers follow the state; ranges in the pool |
| MRP | per application and port: attributes with applicant, registrar and leave timer; LeaveAll; join and periodic timers; MRPDU under construction | join, leave, change, enable, disable, timers, receive | MRPDUs with the peer, indications to MSRP/MVRP | shared one-shot timer, LeaveAll in any phase, freeing while walking, loss | declarations survive; what must be sent is scheduled; registrations follow the peer |
| MSRP | streams with talker and listener declarations and registrations per port, bandwidth, domains | register and deregister (IPC), indications, the map between ports, admission | MRP below, IPC to AVDECC and applications, FQTSS | merging of listener states, failure codes, bandwidth, changes of type | one declaration of a stream per port; the reservation is that of the merged registrations |
| MVRP | VLANs with user counts | register, deregister, map | MRP, bridge VLAN table | user counts over several clients | users counted right; the filter follows the registrations |
| MMRP, managed objects | - | stub; accessors | - | - | - |
| ACMP, Milan listener | per sink: state, binding, stream, SRP state, probing status, sequence number, discovery state, four timers; in-flight commands | bind, unbind, start/stop streaming, restore, discovery events, probe timers, probe responses, SRP status | ACMP messages, ADP, IPC to and from MSRP, application that saves bindings | late and duplicated responses, a bind in any state, crossing IPC messages, timers of earlier states | see 3.3 |
| ACMP, Milan talker | per source: state, MAAP address, declaration, two timers | probe reception, listener registration, MAAP indications | MAAP, MSRP | an address lost or gained while the stream is declared | what is sent goes where it is reserved; see 3.5 |
| ACMP, IEEE 1722.1 | connection lists, in-flight commands | connect, disconnect, state queries | ACMP messages | timeouts against late answers | connection counts |
| ADP | advertise state machines with two timers, `available_index`; per port the list of discovered entities | advertise, depart, discover, time out | ADP messages, link and gPTP changes, controller application | restarts, loss, timers stopped and started by any event | the application knows the list; entries expire only on a fault; restarts are noticed |
| AECP, entity model | descriptors, lock, registered controllers | commands, unsolicited notifications, lock timeout | AECP messages, IPC | lock expiry, in-flight list shared with ACMP | one lock owner |
| AVDECC core | in-flight lists, IPC to SRP, MAAP, media stack | start, cancel, time out, IPC reception | all of the above | cancellation by sequence number | an entry is timed |
| gPTP BMCA and ports | priority vectors, port roles, peer delay and sync state machines | announce reception, role selection, timeouts | PTP messages, target clock | role changes between timeouts, old announces and responses that still travel | one grandmaster; roles consistent; a delay from one exchange |
| gPTP clocks, AVTP clock recovery | servo state | floating-point estimates | - | numerical | - |
| HSR | node tables, supervision | receive, age | frames on two ports | duplicate discard | a frame is delivered once |
| AVTP streaming | streams, descriptors | connect, disconnect, receive, transmit | sockets, media queues | data plane | - |
| Software timers | timer wheel | create, start, stop, expire | all tasks | stop or restart in a handler | a stopped timer does not fire |
| MAC service, FQTSS | port status; bandwidth tables | status indications; admission | MAAP, SRP, gPTP | arithmetic | - |
| OS layers, drivers, API, examples | - | I/O | - | - | - |

`PROJECT.json` repeats this with file names, status and the reason why a part is
left out.

## 2. Plan

Done, in this order, because these protocols carry the most distributed state:

1. `MAAP` - the smallest complete protocol.
2. `MRP` - everything in SRP rests on it.
3. `ACMPListener` - four state machines and two tasks that meet in one sink.
4. `MVRP` and `MSRP` - the composition of registrations, map, bandwidth, forwarding
   and VLANs on a bridge and an endpoint.
5. `ACMPTalker` with its abstract specification `StreamSource`, a refinement that is
   model-checked and proved.
6. `BMCA` and `PDelay` - the parts of gPTP that are state machines, not arithmetic.
7. `ADP` - advertisement and discovery between stations that crash and restart.

Left, in this order:

8. `ACMPListener` and `ACMPTalker` composed, with MSRP between them.
9. IEEE 1722.1 ACMP, AECP locks and in-flight commands, HSR node tables, the timer
    list with start and stop in handlers.

## 3. Models

### 3.1 MAAP

A station is a `struct maap_port`, numbered by what `maap_compare_MAC` compares.
`range[s][i]` is a `struct maap_range`, with the value of its probe timer, whether
its announce timer runs, and `send_conflict_indication`. `net` is a bag of frames,
one copy for each receiver. `host[s][i]` is what the indications have told the
application.

One call of `maap_sm` is an operator that returns the new range, the host's view
and the frames to send (`ReserveAddress`, `Restart`, `RProbe`, `RDefendOrAnnounce`,
`ProbeTimerEvent`, `AnnounceTimerEvent`, `PortOperational`). The actions are
`CreateRange`, `DeleteRange`, `ProbeTimer`, `AnnounceTimer`, `Receive` (which runs the
state machine of every range the frame concerns), `MacServiceStatus`, and those of
the network: `Lose`, `LinkDown`, `LinkUp`, `Tick`. Random choices (start address,
timer length) are nondeterministic. Left out: PDU layout, foreign frames outside the
pool, failed allocation of descriptors.

Time: the probe timer counts ticks and a tick happens only when no frame is in
flight, which is "a frame arrives within a tick". With `ProbeTicks = {0}` timers expire
at any moment.

- `NoTwoOwners`: two attached stations never defend overlapping ranges (no loss,
  timely frames). It rests on the longest probe interval being shorter than
  `ProbeRetransmits` times the shortest. The code has 500 to 600 ms and 3, far from the
  boundary; with `ProbeTicks = {1, 3}` or `ProbeRetransmits = 1` TLC finds two owners.
- `ConflictResolved`: with loss and late frames two owners are possible; the
  announcements resolve the conflict.
- `HostView`, `TimersMatchState`; `RangesInPool` is proved only.

The comment at `MAAP_PROBE_RETRANSMITS_VAL` speaks of 3 probes; the code sends a first
one and 3 more. The model follows the code.

### 3.2 MRP

Two participants of a link, with full applicants. `attr[p][x]` is a
`struct mrp_attribute`: applicant, registrar, leave timer. `join[p]`, `lva[p]`,
`pdu[p]` are the shared timers and the MRPDU under construction. `wire[p]` holds PDUs
on their way to p and `rx[p]` the vectors of the one being processed; while it is not
empty p does nothing else. `declared` is what the application asked for, `registered`
what the indications told it.

The applicant tables of `mrp_applicant_sm` are the operators `OnLeave` to `OnTxLa`,
the registrar's `RegJoin` to `RegLeaveImmediate`. `FreeCheck` is the freeing of unused
attributes at the end of each handler. `Requests` is the start of the join timer on
every change to a state that must transmit. Actions: `JoinRequest`, `LeaveRequest`,
`ChangeDeclaration` (`msrp_map.c`, a declaration changed without a leave), `Disable`,
`Enable`, `JoinTimer`, `LeaveAllTimer`, `LeaveTimer`, `PeriodicTimer`, `Receive`,
`ProcessVector`, `Lose`, `Tick`.

`Exclusive` chooses what the attributes are: independent VLANs (MVRP), or the
alternative listener declarations of one stream (MSRP), where the registration of
one makes `msrp.c` leave its rivals at once. One attribute type is modelled, and a
vector has at most one value, as the code packs them. MSRP and MVRP are both
configured as full point-to-point participants (`srp/config.h:27`), so the runs have
`PointToPoint = TRUE`; the proofs hold for both. MSRP's map, which may declare in
answer to a registration, is `MSRP` (3.4).

- `DeclarationKept`, `AnxiousIsScheduled`, `IndicationsAgree`, `LeavingIsTimed`,
  `LeaveAllNeverFrees`: for every phase of the timers (all tick counts 0, so any timer
  may expire at any time). `NoGarbage` is proved only.
- `NoSpuriousTimeout`: on a link without loss the leave timer never expires on a
  standing declaration. It needs a leave timeout of 2 join periods with one declaring
  side and 3 with two; the smallest configured value is 6.
- `Converges`: registrations follow declarations after a loss. One lost PDU on a
  point-to-point link can leave a declared attribute unregistered until the declarer
  sends it again: MVRP with the next periodic event, MSRP, for which `mrp_enable` starts no
  periodic timer (`mrp.c:1840`), only with the next LeaveAll. `Converges` holds without
  any fairness of `PeriodicTimer` and says no more than "until".

### 3.3 The Milan listener

`sink[s]` is a `struct stream_input_dynamic_desc`: the state of the sink state
machine, the binding, the stream it receives, the SRP registration state, the probing
status, the number of its last probe, whether its talker is discovered, and its
running timers. `inflight` is the list of in-flight commands, each with a running
timer. `net` holds the probes whose response may still arrive, once or several times.
`toSrp` and `fromSrp` are the IPC channels, `declared` and `registered` what MSRP
declares and has registered. `saved` is what the application was told to save, and
`restore` what it will send after start-up.

| Action | Code |
| --- | --- |
| `Bind`, `Unbind` | `acmp_milan_listener_bind`, `_unbind`, and `RCV_BIND_RX_CMD`, `RCV_UNBIND_RX_CMD` in each state of `acmp_milan_listener_sink_sm` |
| `StartStop`, `Restore` | `acmp_milan_start_streaming`, `_stop_streaming`, `acmp_milan_listener_sink_rcv_binding_params` |
| `AdpAvailable`, `AdpDeparting`, `TmrNoAdp` | `adp_milan_listener_rcv`, `adp_milan_listener_sink_discovery_sm`, with `EVT_TK_DISCOVERED` and `EVT_TK_DEPARTED` |
| `TmrDelay`, `TmrRetry`, `TmrNoTk` | the timer events of the sink state machine |
| `InflightTimeout` | `acmp_inflight_timeout`, `avdecc_inflight_timeout`, with `TMR_NO_RESP` |
| `ProbeResponse`, `Lose` | `RCV_PROBE_TX_RESP`; the network |
| `ListenerStatus` | `avdecc_ipc_rx_srp`, `acmp_milan_listener_srp_state_sm` |
| `MsrpRequest`, `TalkerRegistered`, `TalkerDeregistered` | `__msrp_ipc_rx`, `msrp_register_stream_indication`, `msrp_deregister_stream_indication` |

`Leave` is what every state does when it is left: stop its own timer and, when
settled, clear the SRP parameters. `Cancel` removes in-flight entries by sequence
number alone, as the code does. `SendProbe` has the faults of the code: no
descriptor, no in-flight entry, failed transmission. `Bind` sets the parameters before
it sends, so that a fault leaves them set and the state as it was.

- `TimersMatchState`, `NoLostWakeup`: timers and discovery.
- `ProbeOutstanding`, `SettledOnBound`, `ProbingReported`, `NoSharedTalker`: probes,
  streams, reported status and talkers belong to the present binding.
- `SavedAgrees`: the application knows the present binding.
- `ReservationAgrees`: with both channels empty, MSRP and ACMP agree.
- `Settles`: with a calm environment every bound sink gets its reservation.

Abstractions. A stream is named by its talker. Left out are the controller's identity
and the entity lock (a refused command changes nothing), ACMP status codes,
notification timers, diagnostic counters, the in-flight commands of a controller on the
same entity (`acmp.c:833` answers their last time-out to its application), the
difference between an active and a failed talker declaration (both are a registration to
the sink), responses whose destination address or VLAN do not match, and further network
interfaces. A sequence number is used again only when its in-flight entry is gone, and a probe with a reused
number takes the place of the old message: `SeqMod` stands for 2^16 and no message
lives that long. A full IPC queue makes the sender wait; the code logs an error and
drops the message, a fault that is not modelled.

### 3.4 MVRP and MSRP

One bridge or endpoint. `MVRP` has the VLAN entries (`vlans`: users, registered and
declared ports) and the filter table of the switch (`table`); its operators are used
by `MSRP`, which adds the stream entries (`streams`, in the order of the map's list),
the operational idle slopes (`bw`), the applicants of the ports (`mad`: attributes
declared, attributes whose leave is not sent yet), the registered domains with the
boundary they make, and `told`, the status the application heard last.

Each action is a whole handler: the indication or request, the merge of the
registrations (`MergeTalker`, `MergeListener`), the map over all streams and ports
(`MapUpdate`, with `MapUpdateTalker` and `MapUpdateListener` in the order of the code),
bandwidth and forwarding with their refusals, VLAN membership, the freeing of idle
entries, and the status message. They are `TalkerJoin`, `TalkerLeave`, `ListenerJoin`,
`ListenerLeave` (indications of MRP), `RegisterStream`, `DeregisterStream`,
`RegisterAttach`, `DeregisterAttach`, `DeregisterAll` (IPC), `DomainJoin`,
`DomainLeave`, `PortStatus`, `PortEnable`, `PortDisable`, `VlanEvent` (`VlanJoin`,
`VlanLeave`, `VlanRegister`, `VlanDeregister`), and of the environment `LeaveSent` (MRP
transmits a leave) and `FdbRoom`.

- `BandwidthAccounted`, `ForwardingReserved`: nothing is forwarded that is not
  reserved, and what is reserved is counted once.
- `DeclarationsAreReal`, `DeclarationsFollow`: the entry's idea of what is declared
  is MRP's, and it is what 802.1Q derives from the registrations.
- `StatusAgrees`: messages sent on changes only add up to the registration.
- `VlanUsersCounted`, `FilterFollows`: user counts and the filter table.

Abstractions: one first value per stream, no failure codes, SR class priorities only,
all links of one speed. `MCMSRP` has four configurations: a three-port bridge whose
talker may move, two streams that compete for a port, an endpoint, a VLAN bridge.
Assumed of the environment: a leave is sent before the next event (`Prompt = TRUE`: the
join time is far below the application's periods); a port is disabled only with its
link down (`DisableUp = FALSE`); without `sendLeave` a neighbour does not register both
directions of a stream on one port (`SeparateAssumption`; section 5 says why). With `Prompt = FALSE` the lost change of
`mrp_lost_change` breaks `DeclarationsFollow` and, because bandwidth is given back only
through a declared entry, `BandwidthAccounted`; with `DisableUp = TRUE`
`DeclarationsAreReal` fails in three steps (`msrp.c:2156`).

### 3.5 The Milan talker

`out` is a `struct stream_output_dynamic_desc`, with the address SRP declares and the
address the media stack sends to. `maap` is the address MAAP defends and `ind` its
indications on their way. `Update` is `acmp_milan_talker_update`: withdraw,
disconnect, declare, connect, each of which may fail for want of a descriptor and
then ends the function. Every action that calls it ends with it: `Probe`,
`ProbeTimer`, `WithdrawTimer`, `ListenerStatus`, `MaapIndication`; the others are
`MaapStart`, `Acquire`, `Lose` (MAAP), `Aged` (two LeaveAll periods have passed) and
`Exit`.

`StreamSource` says what any stream output owes the network: one reservation at a
time, sending only to the reserved address, no other address before the old
reservation has aged. `ImplementsSource` is the refinement, with `reserved` the declared
address, `sent` the media stack's, and `waiting` the last address while it ages. A
refused call suspends the promise until the next declaration. `StreamReserved` relates
media stack, SRP and descriptor in each state. `Declares` is liveness: a stream with an
address that a listener asks for is declared again and again, whichever calls failed.

### 3.6 ADP

`ent[e]` is an advertising entity with its interfaces: process, readiness
(`entity_ready`), index, state machine and timers, in the Milan form (a machine per
interface) or the IEEE 1722.1 form (one for the entity, one per interface).
`disc[p]` is the discovery list of port p of a controller station, `told[p]` what its
application knows. Actions: `Boot`, `Heartbeat`, `GmStatus`, `PortUp`, `PortDown`,
`DiscoverRcv`, `MilanDelayTimeout`, `MilanAdvertiseTimeout`, `IeeeDelayTimeout`,
`IeeeReannounceTimeout`, `Exit`, `Crash` (the entity); `Receive`, `DiscoveryTimeout`,
`DiscoveryInit`, `DiscoveryExit`, `Discover` (the controller); `Lose`, `Tick`. The
grandmaster stands for all the fields whose change is reported. `since`, `boot`,
`missed` and `lossless` are history.

- `ControllerView`: arrival, change, departure, restart and time-out each reach the
  application, so its view is the list.
- `ExpiresOnlyOnFault`: no event keeps an entity from advertising in time. A tick is
  the advertise interval; an entry lives for 5 ticks, which holds two of the longest
  periods, as in the code (9 of 20 s for Milan, 27 of 62 s for IEEE).
- `RebootNoticed`: without loss a restart of a Milan entity with one interface shows
  in the index.
- `Tracks`: when the faults are over the application's view becomes what is there.

Left out: the query for one entity, which changes no state; the connection of IEEE
listeners to a discovered talker (`acmp_ieee.c`); entities that share a station with the
controller (loopback); granularity of the timers, which makes them later.

### 3.7 BMCA

`port[e]` holds infoIs, the port priority vector, the role and whether the receipt
timer runs; `gm`, `path` and `told` are the selected grandmaster, the path trace and the
last indication of each system. Handlers run the state machines until they are stable,
so `Receive`, `AnnounceTimeout`, `SyncTimeout`, `TransmitInterval`, `PortUp` and
`PortDown` each include role selection (`Select`), the announces it triggers and the
indication to the host. `LinkChange` and `Lose` are the network's.

- `SlaveFollowsGm`: a system has a slave port exactly when its grandmaster is another.
- `HostTold`: the indications, sent on changes only, add up.
- `Converges`: when links stop changing all connected systems agree on the best one,
  with one master per link and a path trace that leads to it.

Abstractions: one announce in flight per direction; a receipt timer does not expire
while the neighbour sends acceptable announces; link up and asCapable are one event.
Left out: UTC and leap data, `gmChangeCount`, slow-down, automotive static grandmaster,
external port configuration, management of priority1.

### 3.8 Peer delay

`req` and `resp` are the requester and the responder on one link. A timestamp is
represented by the sequence number of the message it was taken of, so that a delay from
mixed exchanges is visible. Actions: `RequestTimer`, `RequestTimestamp`,
`ReceiveAnswer`, `ReceiveRequest`, `ResponseTimestamp`, `RequesterUp`, `RequesterDown`,
`ResponderChange`; `LinkChange`, `Lose`, `Duplicate`. A delay out of range is a
nondeterministic fault.

- `MeasurementMatches`: the four timestamps are of one exchange.
- `CapableIsRecent`: asCapable outlives at most the allowed number of losses, counted
  outside the state machine, which counts in two places.
- `BecomesCapable`: when faults stop the link becomes and stays capable.

Left out: `multipleResponses` and the five-minute cease, own responses, silent and
static pdelay of the automotive profile, the common mean link delay service.
`LateTimestamps = TRUE` (a transmit timestamp later than the next request) violates
`MeasurementMatches`; the comment at `md_fsm_802_3.c:1069` excludes it.

## 4. Runs

| Run | Distinct states | Shows |
| --- | --- | --- |
| `maap_timely` | 603104 | `NoTwoOwners` |
| `maap_lossy` | 23126 | `HostView`, `TimersMatchState`, `ConflictResolved` |
| `mrp_stream` | 896479 | `DeclarationKept`, `AnxiousIsScheduled`, `IndicationsAgree`, `LeavingIsTimed`, `LeaveAllNeverFrees` |
| `mrp_timed` | 24228 | `NoSpuriousTimeout`, `Converges`, real order of timers |
| `mrp_lost_change` | - | finding: `ChangeKeepsDeclaration` is violated |
| `msrp` | 216900 | the seven invariants of 3.4 in four configurations |
| `acmp_pair` | 915024 | `TimersMatchState`, `ProbeOutstanding`, `SettledOnBound`, `NoLostWakeup`, `ProbingReported`, `NoSharedTalker` |
| `acmp_live` | 220648 | `SavedAgrees`, `ReservationAgrees`, `Settles` |
| `acmp_talker` | 29686 | `StreamReserved`, `ImplementsSource`, `Declares` |
| `adp` | 345902 | `ControllerView`, `ExpiresOnlyOnFault`, `RebootNoticed`, `Tracks` in five configurations |
| `bmca` | 25570 | `SlaveFollowsGm`, `HostTold`, `Converges` on a line and a ring |
| `pdelay` | 286847 | `MeasurementMatches`, `CapableIsRecent`, `BecomesCapable` |

Bounds. Two stations are enough for MAAP because a conflict is between two ranges;
a pool of 3 with ranges of 2 has ranges that overlap in one address, in two, and at
the ends of the pool. One link failure and one delete meet a range in each of its
states. MRP links have two participants by definition; two attributes are the least
with a rival. One leave, one join, two changes and one disabling reach each applicant
and registrar state. A three-port bridge is the least with a port that is neither the
talker's nor the listener's; two streams, of slopes 2 and 3 under a limit of 4, are the
least that compete. Two sinks and two talkers of one entity are the least for shared
talkers, crossed sequence numbers (`SeqMod = 2` wraps at once) and one ADP message for
two sinks; `acmp_live` gives one sink longer channels, so that a status can cross a
disconnect and a new connect. Two addresses, two conflicts and two failing calls let
every call of the talker fail between two addresses. In `adp` one entity meets any two
faults of six kinds, in any phase of link and application start-up; the pairs have two
interfaces that share an index, and two entities compete for a list of one entry;
`IndexMod = 3` lets the index wrap. A line of three systems has a system between two
that hear the grandmaster at different times; its two faults are a loss of the
grandmaster and one more event. Four sequence numbers keep an exchange apart from the
two before it, as long as a frame can be late. Larger instances were run once with the
same results: two sinks with queues of 2 (5.2 million states), one sink with
`SeqMod = 3` (990 000), MRP with two declaring sides and timer lengths (244 000),
`Converges` for exclusive attributes with changes (43 000), independent attributes of a
shared medium (1.3 million).

Deadlock is checked in the runs of MAAP, MRP and `ACMPListener`. The others may stop:
`msrp` and `bmca` when their bounds on changes and faults are used up and nothing is
left to send, `acmp_talker` after `Exit`, `pdelay` with the link down for good, `adp`
with every process stopped.

Fairness. The event loops serve what is queued: weak fairness on reception and on
IPC. A running timer expires: weak fairness on the timer actions. Where a bound on
frames in flight or on a channel can disable an action again and again (MAAP
`AnnounceTimer`, the MRP timers, `TalkerRegistered`), strong fairness makes up for the
bound, which the code does not have. Nothing is assumed of controllers, hosts, losses
and link failures. `Settles` is about executions in which the environment turns calm
(action `Calm`, never forced): no more commands, losses or departures; from then on
talkers advertise, answer their probes before the in-flight timer expires, and declare
their stream before `TMR_NO_TK`. Without these the sink rightly keeps probing.
`Declares` assumes that the withdraw timer expires and that a listener without its
stream keeps probing, which is what `Settles` shows of a sink. `bmca` and `pdelay`
assume that timers, frames, transmit timestamps and port status changes are served.
`adp` assumes the same, that time passes, and that an application that was started
connects; an entity need not boot.

### Finding

| Run | What TLC shows |
| --- | --- |
| `mrp_lost_change` | A declaration is changed back to a value whose attribute still waits to send its leave: `mrp_mad_join_immediate` returns NULL after the previous attribute is freed (`mrp.c:1464`), and the stream is no longer declared. `msrp_map.c:532` says "just remove/free the previous attribute internally and send a join event for the new attribute". |

### Further disagreements

These are reproduced with the constants given; each module has the property.

- `MAAP.NoInternalOverlap` (constants of `maap_timely.cfg` with `RangeIds = {1, 2}`,
  `Counts = {1}`, `MaxRanges = 2`, `ProbeTicks = {1}`, `MaxFlaps = 0`): a range that
  restarts after a conflict picks an address without `check_internal_conflict`
  (`maap.c:371`), so two ranges of one port come to overlap; the comments at
  `maap.c:154` and `1210` say ranges of a port are checked.
- `MRP.FullLeaveTime` (constants of `mrp_timed.cfg` with `Exclusive = TRUE`,
  `Attrs = {x, y}`, `MaxLeaves = 0`, `MaxJoins = 1`, `MaxChanges = 2`): an immediate leave
  in LV does not stop the leave timer (`mrp.c:1097`); the next time the attribute leaves,
  the old timer ends it early, against `srp.h:34` and `timer.c:231`.
- `ACMPListener.NoSharedTalker` with `LateRestore = TRUE`: a restored binding is not
  checked against the other sinks (`acmp_milan.c:1559`), as a bind is (`444`).
- `ACMPTalker.StreamsToReady` under `Spec`: a running stream is stopped only when there
  is no listener (`acmp_milan.c:1714`); when all listeners fail it goes on, against the
  comment above it ("Stream is running when declaring a Talker Advertise attribute and
  receiving a Listener Ready or Listener Ready Failed").
- `BMCA.OneSlave` (constants of `bmca.cfg`, `Spec`): in a ring both ports that receive
  the grandmaster become slaves (`site_fsm.c:270` compares the root only); the comment
  at `site_fsm.c:266` makes a port a slave when the "gmPriorityVector is now derived
  from the portPriorityVector", and passive otherwise. In larger loops a slave may even
  follow a root that is the system itself (5, BMCA).
- `ADP.RebootNoticed` without its condition: a restart goes unnoticed when the entity
  has two interfaces, which share the index, when IEEE machines advance the index
  without sending (a link that comes late), and after losses. `adp.c:471` compares
  unsigned values, so that a wrapped index looks like a restart; `adp_milan.c` uses a
  signed difference. An IEEE entity that ends during its delay sends no DEPARTING.
- Not in a model: the query for one entity (`adp.c:588`) keeps the result of the last
  interface only, so an entity known on the first of two interfaces is answered with
  AVAILABLE and then NOTFOUND.

Two more cases are known from runs with `MaxFaults = 1`, where nothing in the repository
says what should hold: when no in-flight entry is free the sink waits for a response
without a timer (`acmp.c:214`), and a bind whose response or probe could not be sent
leaves the new parameters with the old state, so that the old talker's answer settles
the sink (`acmp_milan.c:492`).

## 5. Proofs

All theorems but the refinement are of the form `Spec => []P`; they hold for any number
of stations, attributes, sinks, talkers and entities, and any timer lengths and bounds
that satisfy the ASSUMEs of the modules. TLC evaluates the ASSUMEs in each run. Each proof shows that
an inductive invariant holds initially and is kept by each action; TLC checked each of
these invariants on the constants of a run before it was proved. A hypothesis that a
theorem states beyond that is listed here with what happens without it.

**MAAP.** `TypeCorrect`, `HostAgrees`, `TimersAgree`, `StaysInPool`. `IInv` is an
invariant of each range with its host view (`RangeOK`) and types. The
properties need each other: that `Restart` indicates CONFLICT exactly when needed
follows from `HostView` before the step, and that a range in DEFEND has an address in
the pool from the same fact while it was probing. No assumption on loss, delay or link.

`AddressesAreOwned` is `NoTwoOwners` for any stations, pool, ranges, link failures and
deletions, from `MaxLoss = 0` and `Regular(m)`: m is a lower bound of the probe
intervals, and all of them are below `ProbeRetransmits * m`. `OwnersInv` says of each
pair of overlapping ranges of attached stations (`PairOK`): a range that probes while the
other defends still needs time (`Left`), and a frame that ends its claim is on its way,
or its own probe that will cause one; of two probing ranges, the one that gives way
needs longer than the other takes to its next probe, or that probe is on its way.
It is an invariant of pairs, so it needs no count of
stations. Without `Regular` a station may finish between two probes of another.

**MRP.** `TypeCorrect`, `DeclarationsKept`, `AlwaysScheduled`, `LeavesAreTimed`,
`LeaveAllKeeps`, `NothingUnused`. `IInv` is `TypeOK`, `AllGood` (per attribute: not
unused, LV is timed, a free attribute is empty), `DeclarationKept`,
`AnxiousIsScheduled`, and `OneDeclared` (with `Exclusive` at most one value is declared).
`OneDeclared` is needed for `ChangeDeclaration`, which frees the declared attribute
without a leave. Lemmas about the tables (`ReceivedKeeps`, `TxKeeps`, ...) say that no
event but the application's own moves an applicant between declaring and observing.

`ViewsAgree` is `IndicationsAgree`, from `OneWay`: when the attributes are the
alternative listener declarations of one stream, not both ends of the link declare them,
as the listeners of a stream are on one side of each link. `ToldInv` adds that an end that does
not declare never sends a Join, so what its peer frees was not registered. The
hypothesis is needed: `ChangeDeclaration` (`mrp_process_attribute_free_immediate`,
`mrp.c:1547`, called in `msrp_map.c:407` and `539`) frees the attribute without a leave
indication even if it is registered too, and TLC shows the application left with a
registration that is gone when both ends declare.

**MSRP.** `BandwidthIsAccounted`, `ForwardingIsReserved`, `DeclarationsHold`,
`DeclarationsFollowRegistrations`, `StatusIsTold`, `FilterIsRegistrations` and
`VlanUsersAreCounted` are the seven invariants of 3.4, for any streams, slopes, VLANs, ports and configurations,
bridges and endpoints. `Inv` has four parts:

- `Good(Ctx)`: `CtxOk`, which holds throughout a handler (per stream and port: nothing
  on a disabled port, bandwidth only with a declaration, the declaration is in MRP;
  per port: the idle slope is that of its `Holders`); `ListOk`, a stream outside the
  map's list is an empty entry; and `Mapped`, the talker declarations and resources
  are those of the registrations.
- `StatusOk` and `FilterOk`, the last two properties with their types; `FilterOk` adds
  that a VLAN without an entry has no registrations.
- `FollowsOk`: a listener is declared as it should be, and (`UsersOk`) each VLAN counts the
  streams that use it (`Counted`, with no users in an entry that is not allocated) and
  they are entitled to it (`Entitled`). It is apart from `Mapped` because it needs
  hypotheses of its own (below).

The map is proved function by function: what it does on a port (`TalkerPortSpec`,
`ListenerPortSpec`), on a stream (`MapTalkerKeeps`, `MapListenerKeeps`, `MapStreamKeeps`),
on the list (`MapUpdateKeeps`). `CtxOk` is kept by each of them, since a link that goes
down, or a boundary, leaves `Mapped` false until the walk has been at the stream
(`WalkOk`). The loops over ports and list are recursive functions of a number; that they
have a value at every number (`IterationExists`), and keep what each step keeps, comes from
`LeastNat`. A sum of slopes is the cardinality of a set of units, so that admitting a
stream adds its slope (`UnitsAdd`) without induction over streams.

Hypotheses, on the configurations and the environment:

- `Orderly(c)`: leaves are sent before the next event (`Prompt`), or the stack sends a
  leave with each change (`sendLeave`). Otherwise the change back of `mrp_lost_change`
  loses a declaration, and with it the bandwidth (3.4).
- `~DisableUp`: a port is disabled with its link down. Then the map has withdrawn the
  declarations before MRP frees them (`DownIsBare`).
- `SeparateAssumption`, an ASSUME of `MSRP`: without `sendLeave`, no neighbour registers a
  stream as talker and as listener on one port. Otherwise the attribute that
  `mrp_process_attribute_free_immediate` frees (`mrp.c:1547`) may be one the neighbour has
  registered: MRP forgets the registration without an indication, and the stream entry
  keeps the freed attribute in its list. The module frees the declaration only and does
  not describe what follows. Within the assumption nothing is left out:
  `FreesUnregistered` proves that the attribute replaced is not registered, from `Apart`,
  which the invariant carries. The attribute to be joined is then not allocated either,
  and `mrp_mad_join_immediate` does not refuse it.
- For `VlanUsersAreCounted` also `OnePort(c)`: a stack that is not a bridge has one port.
  Every endpoint instance is built with one (`CFG_EP_DEFAULT_NUM_PORTS`, `srp/rtos/main.c:51`;
  `CFG_MULTI_EP_MAX_PORTS_PER_INSTANCE`, `linux/tsn_main.c:853`). A stream has one flag for its
  VLAN, not one per port, so the flag does not say on which of several ports it is a user;
  a bridge registers no VLAN for a stream.

**ACMPListener.** Three inductive invariants, each relative to the first:

- `IInv`: types; for each sink the timers of its state, a stream exactly while
  settled, a talker while bound, not waiting for a discovery that has happened. It
  gives `TypeCorrect`, `TimersAgree`, `NeverMissed`, with any faults and with bindings
  restored at any time.
- `SInv`: the saved binding is the sink's or, until it is restored, the one to
  restore, and the sink is unbound until then. It gives `SavedRight` with any faults,
  if `LateRestore` is FALSE.
- `JInv`: the probing status is that of the state, the stream that of the binding,
  `ProbeOutstanding`, `NoSharedTalker`, and two strengthenings. `NumbersApart`: an
  in-flight entry is alone with its number, and every message under way with that
  number is its own. It is what makes a cancellation by number alone cancel the right
  entry, and a response that finds an entry be one for the present talker.
  `RestoresApart`: bindings still to be restored name talkers nobody has. It gives
  `ProbesOwned`, `SettledRight`, `ProbingTold`, `TalkersApart`, assuming
  `MaxFaults = 0` and `LateRestore = FALSE`. Both assumptions are needed (see Further disagreements).
- `RInv`: what SRP still has to be told of a stream, and what it still has to tell, is
  summed up by the last message on the channel. It relates the
  reservations to the sinks with messages in both channels, and gives
  `ReservationAgrees` under the assumptions of `JInv`.

The record lemmas (`LeaveFields`, `WaitDelayOK`, `SettledOK`, ...) state once what a
step of the state machine does to a sink; the `...Facts` lemmas what an action does to
the sink it is about; `GiveUpJInv` and `SendJInv` are the two ways in which probes
change.

**ACMPTalker.** `TalkerTypeOK`, `TalkerStreamReserved`, `TalkerImplementsSource`, for
any addresses, failures and conflicts. The invariant: MAAP's indications alternate and
end with what MAAP has now (`Alternate`); the flags say what SRP and the media stack
were told (`FlagsTell`); what they were told agrees unless a call was refused
(`TellsSame`, `SendsDeclared`); while a withdrawal ages its timer runs for the address
declared last (`Waits`, `Declared`). `Alternate` is needed because an indication of a new
address is taken without comparing it with the declared one. `Update` is proved once
for each way it can end and used by each action. The refinement follows from
the invariant before the step: every action is a step of `StreamSource` or a stutter.

**BMCA.** `BMCATypeCorrect` and `HostIsUpToDate` (`HostTold`) hold in every network, with
any faults. `SlavesFollow` is `SlaveFollowsGm` for networks without loops: `Loopless`
says that each port splits the network, `far[e]` being the systems beyond the port e.
The invariant `Beyond` is that whatever a port received, or is about to receive, names a
grandmaster beyond it, and that a master port announces none that lies beyond it; so a
system never receives itself as a root. The best port vector exists by a least-number
principle for sets of numbers (`LeastNat`), which the library's well-founded relations give
without an operator parameter. Loops are excluded for a reason: with a ring of 1, 2, 3,
the best system 4 attached to 3, and one link failure, TLC reaches a state in which a port of 1
is a slave whose root is 1 itself. The path trace is copied only when the port is a slave
already (`port_fsm.c:870`), an announce from the port's own master is always taken, and
role selection compares clock identities only (`site_fsm.c:270`).

**PDelay.** `PDelayTypeOK`, `PDelayCapableIsRecent`, for any number of sequence numbers,
allowed losses and faults, with late timestamps. The invariant `Counts` relates
`lostResponses` to the exchanges missed, which it leads by one in RESET: the code counts
a loss when it resets, the environment when the next request leaves.

`MeasurementsMatch` is `MeasurementMatches`, from `LateTimestamps = FALSE` and
`MaxFaults < Seqs`. `MatchInv` is about what is on its way: each response and each request
has an age, the number of requests sent since, and ages decrease along the queues
(`Queued`); a request that leaves while something is on its way is one of the faults, so
no age goes round the sequence numbers. Hence what is behind the response to the last
request is a copy of it (`HeadIsOldest`), and a response stored while the requester
waits for the follow-up is never replaced by another. The responder may send a follow-up
with the timestamp of an earlier response (`Stray`: its link came back before that
timestamp, and the next timestamp was lost); the invariant shows that no response
of the same number can follow it. With `Seqs = 2` and `MaxFaults = 4` TLC finds a
measurement of two exchanges; the code has 65536 sequence numbers.

**ADP.** `ADPTypeOK`, `ADPControllerView`, for any entities, ports, list sizes,
intervals and faults, in both modes. The invariant `GoodList`: an unused entry is empty,
a used one names an entity, no entity has two entries; and the application's view is
that of the list (`ViewOf`). That unused entries are empty is needed because a change is
detected against the old contents of the entry: `adp_discovery_put` clears it, so a new
entity always differs. `PutGood` and `RefreshGood` say that the message sent is the whole
difference of the views; `UpdateGood` and `RemoveGood` build on them. `ADPAssumption` says
that the list is an array (each set of its indices has a last element).

`RestartsAreNoticed` is `RebootNoticed` (its condition, a Milan entity with one interface
and no loss, is part of the property). The first advertisement of a start has index
zero, which no entry of an earlier start survives. `InOrder`: advertisements arrive in
the order of the starts, and for each one with another index the zero one is still ahead
of it, or neither the list nor the messages ahead know another start. `OwnTimers` says
that a Milan entity does not use the IEEE machine's timers, `SlotsUsed` that a stopped
station has no entries.

`ExpiryMeansFault` is `ExpiresOnlyOnFault`. The invariant `ExpiryInv` says that an entry
outlasts the advertisement due next, plus one period (interval and longest
delay) for each advertisement that may still be lost, where one on its way counts as
received or as lost, whichever comes. It needs `Sound` (the timers running are those of the
machines' states), `HeardOK` (where losses are still counted, the station is advertising) and
`Confined` (only the stations and interfaces of the configuration run). The bound comes from
`ValidityAssumption`: the validity exceeds the period times one more than the
losses tolerated. TLC checks it on the configurations of `adp.cfg`. Milan stations meet
it for one loss (2 x (5 + 4) s < 20 s), IEEE entities from `valid_time` 6 s on; below, in the
range 2 to 62 that `doc/config.md:136` documents, two periods do not fit, and for 2 or
3 s not even one does.

**Only model-checked:** the liveness properties (`ConflictResolved`, MRP's and BMCA's
`Converges`, `Settles`, `Declares`, `BecomesCapable`, `Tracks`), which are out of the
prover's reach; the timing property `NoSpuriousTimeout` of MRP. `SlaveFollowsGm` is checked in a ring
with the bounds of `bmca.cfg` and proved without loops. The type invariants,
`RangesInPool` and `NoGarbage` are proved and not part of a run.

## 6. Not modelled

- IEEE 1722.1 ACMP (`acmp_ieee.c`): a station uses either it or the Milan machines.
- AECP and the entity model: descriptor access and notifications are marshalling; the
  lock and the in-flight list of AECP commands are on the plan.
- HSR: node tables and supervision, a separate optional task (on the plan). What it
  promises (a frame delivered once) depends on ageing against the traffic of real nodes.
- gPTP sync path, clock slave and master, target clock, AVTP clock recovery: rate
  ratios and servos in floating point.
- AVTP streaming: packet formats, presentation times, queues: data plane.
- The timer list of `common/timer.c`: its contract (a running timer is not restarted, a
  stopped one does not fire) is part of each model.
- MMRP (a stub), managed objects (accessors), drivers, OS layers, the public API and the
  examples: I/O.

Packet formats, logging and statistics are left out throughout. Failure of memory and
descriptor allocation is modelled only for probes, for the calls of the talker and for
the switch's forwarding table.
