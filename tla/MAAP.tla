-------------------------------- MODULE MAAP --------------------------------
(***************************************************************************)
(* The MAC Address Acquisition Protocol of maap/maap.c: stations that      *)
(* share a LAN claim ranges of multicast addresses by probing, announce    *)
(* and defend what they obtained, and report to the host application       *)
(* through IPC indications.                                                *)
(*                                                                         *)
(* A station is one struct maap_port.  Stations are numbered by the value  *)
(* maap_compare_MAC compares (REVERSE_MAC_VALUE of their MAC address).     *)
(* Addresses are offsets into the dynamic pool.                            *)
(***************************************************************************)
EXTENDS Integers, FiniteSets, Bags

CONSTANTS
  Stations,         \* ports on the LAN, as the numbers maap_compare_MAC orders
  RangeIds,         \* range identifiers the host application uses
  PoolSize,         \* MAAP_DYNAMIC_POOL_SIZE
  Counts,           \* values of mac_count the host asks for
  MaxRanges,        \* MAAP_PORT_MAX_RANGES_ALLOCATION
  ProbeRetransmits, \* MAAP_PROBE_RETRANSMITS_VAL
  ProbeTicks,       \* lengths of the probe timer, in units of the network delay
  MaxLoss,          \* bound: frames the LAN may lose
  MaxFlaps,         \* bound: link failures
  MaxInFlight,      \* bound: frames in flight when a timer or the host acts
  MaxDeletes        \* bound: delete requests of the host

ASSUME StationsAssumption == Stations \subseteq Int
ASSUME PoolAssumption == PoolSize \in Nat \ {0} /\ Counts \subseteq 1..PoolSize
ASSUME ProbeAssumption ==
  /\ ProbeRetransmits \in Nat \ {0}
  /\ ProbeTicks \subseteq Nat /\ ProbeTicks # {}
ASSUME BoundsAssumption == MaxLoss \in Nat /\ MaxFlaps \in Nat /\ MaxDeletes \in Nat

VARIABLES
  range,    \* range[s][i]: struct maap_range i of port s
  host,     \* host[s][i]: the address the indications told the host it owns
  net,      \* bag of frames in flight
  link,     \* link[s]: the port's link is up
  status,   \* status[s]: IPC_MAC_SERVICE_STATUS "operational" not yet received
  losses, flaps, deletes    \* how much of the bounds is used

vars == <<range, host, net, link, status, losses, flaps, deletes>>

-----------------------------------------------------------------------------
(* Data.                                                                   *)

Addresses == 0..(PoolSize - 1)
None == -1            \* the host owns no address for this range
Stopped == -1         \* a timer that is not running

FreeRange ==          \* no range with this id in port->range
  [state |-> "FREE", addr |-> 0, count |-> 0, probes |-> 0,
   probeTimer |-> Stopped, announceTimer |-> FALSE, conflictInd |-> FALSE]

RangeType ==
  [state : {"FREE", "PROBE", "DEFEND"}, addr : Addresses, count : Counts \cup {0},
   probes : 0..ProbeRetransmits, probeTimer : Nat \cup {Stopped},
   announceTimer : BOOLEAN, conflictInd : BOOLEAN]

FrameType == [type : {"PROBE", "ANNOUNCE", "DEFEND"}, src : Stations,
              dst : Stations, start : Addresses, count : Counts]

\* Mutant: ranges that share only the first local address do not conflict.
OffByOneConflict(addrLocal, countLocal, addrPdu, countPdu) ==
  LET endLocal == addrLocal + countLocal - 1
      endPdu   == addrPdu + countPdu - 1
  IN  \/ addrPdu < addrLocal /\ endPdu > addrLocal
      \/ addrPdu >= addrLocal /\ addrPdu <= endLocal

\* are_ranges_in_conflict: the range of the PDU starts before the local range
\* and reaches it, or starts inside it.
are_ranges_in_conflict(addrLocal, countLocal, addrPdu, countPdu) ==
  LET endLocal == addrLocal + countLocal - 1
      endPdu   == addrPdu + countPdu - 1
  IN  \/ addrPdu < addrLocal /\ endPdu >= addrLocal
      \/ addrPdu >= addrLocal /\ addrPdu <= endLocal

\* maap_compare_MAC: the local station has the lower address and wins.
maap_compare_MAC(local, received) == local < received

\* Mutant: the size of the range is not subtracted from the pool.
GenerateAnywhere(count) == 0..(PoolSize - 1)

\* maap_generate_address: any start that leaves the range inside the pool.
maap_generate_address(count) == 0..(PoolSize - count)

\* maap_is_in_dynamic_pool
maap_is_in_dynamic_pool(start, count) ==
  start >= 0 /\ start <= PoolSize - 1 /\ start + count - 1 <= PoolSize - 1

Allocated(s) == {i \in RangeIds : range[s][i].state # "FREE"}

\* check_internal_conflict: only maap_range_alloc calls it.
check_internal_conflict(s, start, count) ==
  \E i \in Allocated(s) :
    are_ranges_in_conflict(range[s][i].addr, range[s][i].count, start, count)

-----------------------------------------------------------------------------
(* The state machine of one range.  Every operator returns the outcome of  *)
(* one call of maap_sm: the range, what the host has been told, and the    *)
(* frames to send, each with its destination ("all" for the multicast      *)
(* address of the protocol).                                               *)

Frame(type, dst, start, count) ==
  [type |-> type, dst |-> dst, start |-> start, count |-> count]

All == -1

Outcome(r, h, tx) == [range |-> r, host |-> h, tx |-> tx]

\* Mutant: the probe count is not initialised again.
ReserveKeepingCount(r, h, t) ==
  Outcome([r EXCEPT !.state = "PROBE", !.probeTimer = t,
                    !.probes = IF r.state = "FREE" THEN ProbeRetransmits ELSE @],
          h, {Frame("PROBE", All, r.addr, r.count)})

\* RESERVE_ADDRESS in INITIAL: maap_sprobe and PROBE; t is the timer's length.
ReserveAddress(r, h, t) ==
  Outcome([r EXCEPT !.state = "PROBE", !.probes = ProbeRetransmits,
                    !.probeTimer = t],
          h, {Frame("PROBE", All, r.addr, r.count)})

\* Mutant: the CONFLICT indication is forgotten.
SilentRestart(r, h, a, t) ==
  ReserveAddress([r EXCEPT !.addr = a, !.conflictInd = FALSE,
                           !.probeTimer = Stopped, !.announceTimer = FALSE], h, t)

\* RESTART in INITIAL: the CONFLICT indication if the last one was SUCCESS,
\* then a fresh address and RESERVE_ADDRESS.  The timer of the state left has
\* been stopped by the caller.
Restart(r, h, a, t) ==
  ReserveAddress([r EXCEPT !.addr = a, !.conflictInd = FALSE,
                           !.probeTimer = Stopped, !.announceTimer = FALSE],
                 IF r.conflictInd THEN None ELSE h, t)

Ignore(r, h) == Outcome(r, h, {})

\* RPROBE: yield to a lower station while probing, answer with a DEFEND that
\* repeats the requested range while defending.
RProbe(s, f, r, h, a, t) ==
  CASE r.state = "PROBE" /\ ~maap_compare_MAC(s, f.src) -> Restart(r, h, a, t)
    [] r.state = "DEFEND" -> Outcome(r, h, {Frame("DEFEND", f.src, f.start, f.count)})
    [] OTHER -> Ignore(r, h)

\* Mutant: a defending station never yields.
YieldWhileProbing(s, f, r, h, a, t) ==
  IF r.state = "PROBE" THEN Restart(r, h, a, t) ELSE Ignore(r, h)

\* RDEFEND and RANNOUNCE: always yield while probing, only to a lower station
\* while defending.
RDefendOrAnnounce(s, f, r, h, a, t) ==
  IF r.state = "PROBE" \/ (r.state = "DEFEND" /\ ~maap_compare_MAC(s, f.src))
  THEN Restart(r, h, a, t)
  ELSE Ignore(r, h)

\* PROBE_COUNT: SUCCESS indication, first announce, DEFEND.
ProbeCount(r, tx) ==
  Outcome([r EXCEPT !.state = "DEFEND", !.probeTimer = Stopped,
                    !.conflictInd = TRUE, !.announceTimer = TRUE],
          r.addr, tx \cup {Frame("ANNOUNCE", All, r.addr, r.count)})

\* PROBE_TIMER: one more probe; PROBE_COUNT when the count is used up.
ProbeTimerEvent(r, h, t) ==
  LET q  == [r EXCEPT !.probes = @ - 1, !.probeTimer = t]
      tx == {Frame("PROBE", All, r.addr, r.count)}
  IN  IF q.probes <= 0 THEN ProbeCount(q, tx) ELSE Outcome(q, h, tx)

\* ANNOUNCE_TIMER: announce again and rearm.
AnnounceTimerEvent(r, h) ==
  Outcome(r, h, {Frame("ANNOUNCE", All, r.addr, r.count)})

\* Mutant: only the probe timer is stopped.
ReprobeKeepingAnnounce(r, h, t) ==
  ReserveAddress([r EXCEPT !.probeTimer = Stopped], h, t)

\* PORT_OPERATIONAL: stop the timer of the state left and probe the same
\* address again, without an indication.
PortOperational(r, h, t) ==
  ReserveAddress([r EXCEPT !.probeTimer = Stopped, !.announceTimer = FALSE], h, t)

-----------------------------------------------------------------------------
(* The LAN.                                                                *)

\* The copies of a frame that leave station s: one per station whose link is
\* up, and none when the link of s is down.
Copies(s, fr) ==
  {[type |-> fr.type, src |-> s, dst |-> d, start |-> fr.start, count |-> fr.count] :
     d \in {x \in Stations \ {s} : link[s] /\ link[x] /\ fr.dst \in {All, x}}}

\* maap_net_transmit of a set of outcomes of station s.
Transmit(s, outs) == SetToBag(UNION {Copies(s, fr) : fr \in UNION {o.tx : o \in outs}})

InFlight == BagCardinality(net)

\* Applies outcome out[i] to every range i of ids of station s.
Apply(s, ids, out, rest) ==
  /\ range' = [range EXCEPT ![s] =
                 [i \in RangeIds |-> IF i \in ids THEN out[i].range ELSE @[i]]]
  /\ host' = [host EXCEPT ![s] =
                 [i \in RangeIds |-> IF i \in ids THEN out[i].host ELSE @[i]]]
  /\ net' = rest (+) Transmit(s, {out[i] : i \in ids})

-----------------------------------------------------------------------------
(* Actions.                                                                *)

\* GENAVB_MSG_MAAP_CREATE_RANGE accepted: maap_range_alloc's checks,
\* list_add, then BEGIN.  Without a base address the start is generated.  A
\* refused request only sends an error response.
CreateRange(s, i, start, count, t) ==
  /\ InFlight < MaxInFlight
  /\ maap_is_in_dynamic_pool(start, count)
  /\ Cardinality(Allocated(s)) < MaxRanges
  /\ range[s][i].state = "FREE"
  /\ ~check_internal_conflict(s, start, count)
  /\ LET out == [x \in {i} |-> ReserveAddress(
                   [FreeRange EXCEPT !.addr = start, !.count = count], host[s][i], t)]
     IN  Apply(s, {i}, out, net)
  /\ UNCHANGED <<link, status, losses, flaps, deletes>>

\* GENAVB_MSG_MAAP_DELETE_RANGE: both timers are destroyed with the range and
\* the FREE indication is sent.
DeleteRange(s, i) ==
  /\ deletes < MaxDeletes
  /\ range[s][i].state # "FREE"
  /\ range' = [range EXCEPT ![s][i] = FreeRange]
  /\ host' = [host EXCEPT ![s][i] = None]
  /\ deletes' = deletes + 1
  /\ UNCHANGED <<net, link, status, losses, flaps>>

\* maap_probe_timer_handler
ProbeTimer(s, i, t) ==
  /\ InFlight < MaxInFlight
  /\ range[s][i].probeTimer = 0
  /\ range[s][i].state = "PROBE"
  /\ LET out == [x \in {i} |-> ProbeTimerEvent(range[s][i], host[s][i], t)]
     IN  Apply(s, {i}, out, net)
  /\ UNCHANGED <<link, status, losses, flaps, deletes>>

\* maap_announce_timer_handler.  The announce period is long against the
\* probe timer; the model lets it expire at any moment.
AnnounceTimer(s, i) ==
  /\ InFlight < MaxInFlight
  /\ range[s][i].announceTimer
  /\ range[s][i].state = "DEFEND"
  /\ LET out == [x \in {i} |-> AnnounceTimerEvent(range[s][i], host[s][i])]
     IN  Apply(s, {i}, out, net)
  /\ UNCHANGED <<link, status, losses, flaps, deletes>>

\* maap_handle_probe / announce: the ranges of the port that overlap the PDU;
\* maap_handle_defend: those that are exactly the range the DEFEND answers.
Concerned(s, f) ==
  {i \in Allocated(s) :
     IF f.type = "DEFEND"
     THEN range[s][i].addr = f.start /\ range[s][i].count = f.count
     ELSE are_ranges_in_conflict(range[s][i].addr, range[s][i].count, f.start, f.count)}

\* maap_net_receive: maap_sm runs on each range concerned.  Each may have to
\* draw a fresh address a[i] and a timer length t[i].
Receive(f, a, t) ==
  LET s   == f.dst
      ids == Concerned(s, f)
      out == [i \in ids |->
                IF f.type = "PROBE"
                THEN RProbe(s, f, range[s][i], host[s][i], a[i], t[i])
                ELSE RDefendOrAnnounce(s, f, range[s][i], host[s][i], a[i], t[i])]
  IN  /\ BagIn(f, net)
      /\ \A i \in ids : a[i] \in maap_generate_address(range[s][i].count)
      /\ Apply(s, ids, out, net (-) SetToBag({f}))
      /\ UNCHANGED <<link, status, losses, flaps, deletes>>

\* The LAN loses a frame.
Lose(f) ==
  /\ losses < MaxLoss
  /\ BagIn(f, net)
  /\ net' = net (-) SetToBag({f})
  /\ losses' = losses + 1
  /\ UNCHANGED <<range, host, link, status, flaps, deletes>>

\* The link of a port fails: frames to and from the port are lost.  maap_ipc_rx_mac_service
\* does nothing on operational = false.
LinkDown(s) ==
  /\ flaps < MaxFlaps
  /\ link[s]
  /\ link' = [link EXCEPT ![s] = FALSE]
  /\ net' = [f \in {x \in BagToSet(net) : s \notin {x.src, x.dst}} |-> net[f]]
  /\ flaps' = flaps + 1
  /\ UNCHANGED <<range, host, status, losses, deletes>>

\* The link comes back and mac_service posts IPC_MAC_SERVICE_STATUS.
LinkUp(s) ==
  /\ ~link[s]
  /\ link' = [link EXCEPT ![s] = TRUE]
  /\ status' = [status EXCEPT ![s] = @ + 1]
  /\ UNCHANGED <<range, host, net, losses, flaps, deletes>>

\* maap_ipc_rx_mac_service with operational = true.
MacServiceStatus(s, t) ==
  /\ status[s] > 0
  /\ LET ids == Allocated(s)
         out == [i \in ids |-> PortOperational(range[s][i], host[s][i], t[i])]
     IN  Apply(s, ids, out, net)
  /\ status' = [status EXCEPT ![s] = @ - 1]
  /\ UNCHANGED <<link, losses, flaps, deletes>>

\* One unit of time, long enough for every frame in flight and its answer to
\* arrive: the timers that are due have expired before it passes.
Tick ==
  /\ net = EmptyBag
  /\ \A s \in Stations, i \in RangeIds : range[s][i].probeTimer # 0
  /\ \E s \in Stations, i \in RangeIds : range[s][i].probeTimer > 0
  /\ range' = [s \in Stations |-> [i \in RangeIds |->
                 IF range[s][i].probeTimer > 0
                 THEN [range[s][i] EXCEPT !.probeTimer = @ - 1]
                 ELSE range[s][i]]]
  /\ UNCHANGED <<host, net, link, status, losses, flaps, deletes>>

Init ==
  /\ range = [s \in Stations |-> [i \in RangeIds |-> FreeRange]]
  /\ host = [s \in Stations |-> [i \in RangeIds |-> None]]
  /\ net = EmptyBag
  /\ link = [s \in Stations |-> TRUE]
  /\ status = [s \in Stations |-> 0]
  /\ losses = 0 /\ flaps = 0 /\ deletes = 0

HostStep == \E s \in Stations, i \in RangeIds :
  \/ \E c \in Counts, a \in Addresses, t \in ProbeTicks : CreateRange(s, i, a, c, t)
  \/ DeleteRange(s, i)

TimerStep == \E s \in Stations, i \in RangeIds :
  \/ \E t \in ProbeTicks : ProbeTimer(s, i, t)
  \/ AnnounceTimer(s, i)

Deliver(f) ==
  \E a \in [Concerned(f.dst, f) -> Addresses], t \in [Concerned(f.dst, f) -> ProbeTicks] :
    Receive(f, a, t)

LinkStep == \E s \in Stations :
  \/ LinkDown(s)
  \/ LinkUp(s)
  \/ \E t \in [Allocated(s) -> ProbeTicks] : MacServiceStatus(s, t)

Next ==
  \/ HostStep
  \/ TimerStep
  \/ \E f \in BagToSet(net) : Deliver(f) \/ Lose(f)
  \/ LinkStep
  \/ Tick

Spec == Init /\ [][Next]_vars

\* The event loop delivers what arrived and runs the timers that expired: the
\* announce timer always expires again.  It is strong fairness only because
\* the bound MaxInFlight disables the timer while other frames are in flight.
Fairness ==
  /\ \A f \in FrameType : WF_vars(Deliver(f))
  /\ \A s \in Stations, i \in RangeIds : SF_vars(AnnounceTimer(s, i))

FairSpec == Spec /\ Fairness

-----------------------------------------------------------------------------
(* Properties.                                                             *)

\* Every variable has its type.
TypeOK ==
  /\ range \in [Stations -> [RangeIds -> RangeType]]
  /\ host \in [Stations -> [RangeIds -> Addresses \cup {None}]]
  /\ link \in [Stations -> BOOLEAN]
  /\ status \in [Stations -> Nat]
  /\ losses \in 0..MaxLoss /\ flaps \in 0..MaxFlaps /\ deletes \in 0..MaxDeletes

\* The host and the range never disagree: the host holds an address exactly
\* when the range remembers having indicated SUCCESS (send_conflict_indication),
\* that address is still the range's, and a defended address is one the host
\* was told.  Restarts, re-probing after a link failure and deletion must each
\* keep the indications and the address in step.
HostView ==
  \A s \in Stations, i \in RangeIds :
    LET r == range[s][i] IN
      /\ (host[s][i] # None) <=> r.conflictInd
      /\ host[s][i] # None => r.state # "FREE" /\ host[s][i] = r.addr
      /\ r.state = "DEFEND" => host[s][i] = r.addr

\* The timer that drives a range out of its state runs, and no other: a
\* probing range is never left without its probe timer, and a range that
\* yields or re-probes leaves no announce timer behind.
TimersMatchState ==
  \A s \in Stations, i \in RangeIds :
    LET r == range[s][i] IN
      /\ r.state = "PROBE" <=> r.probeTimer # Stopped
      /\ r.state = "DEFEND" <=> r.announceTimer
      /\ r.state = "PROBE" => r.probes > 0

\* Every range that is claimed lies inside the dynamic pool, after any number
\* of restarts.
RangesInPool ==
  \A s \in Stations : \A i \in Allocated(s) :
    range[s][i].count > 0 /\ maap_is_in_dynamic_pool(range[s][i].addr, range[s][i].count)

Overlap(s, i, t, j) ==
  are_ranges_in_conflict(range[s][i].addr, range[s][i].count,
                         range[t][j].addr, range[t][j].count)

Defends(s, i) == range[s][i].state = "DEFEND"

\* The port has a link and its ranges have been told of it.
Attached(s) == link[s] /\ status[s] = 0

\* What the protocol is for: two attached stations never both hold an address.
\* It rests on frames arriving within a probe interval, on none being lost, and
\* on no probe interval being as long as ProbeRetransmits others.
NoTwoOwners ==
  \A s, t \in Stations : s # t /\ Attached(s) /\ Attached(t) =>
    \A i, j \in RangeIds : Defends(s, i) /\ Defends(t, j) => ~Overlap(s, i, t, j)

\* Frames may be lost and arrive late, so two stations can come to defend the
\* same address; the announces then take it away from one of them, unless a
\* link fails first.
ConflictResolved ==
  \A s, t \in Stations, i, j \in RangeIds, a, b \in Addresses : s < t =>
    LET Conflict == /\ Defends(s, i) /\ range[s][i].addr = a
                    /\ Defends(t, j) /\ range[t][j].addr = b
                    /\ Overlap(s, i, t, j) /\ link[s] /\ link[t]
    IN  Conflict ~> ~Conflict

\* Two ranges of one port never claim the same address; maap_range_alloc
\* refuses a range that would.
NoInternalOverlap ==
  \A s \in Stations : \A i, j \in Allocated(s) : i # j => ~Overlap(s, i, s, j)

=============================================================================
