----------------------------- MODULE MAAP_proofs -----------------------------
(***************************************************************************)
(* Proofs about MAAP: types, the agreement of the host with the range, the *)
(* agreement of the timers with the state, and the bounds of the pool, for *)
(* any number of stations, ranges, losses and link failures; and, without  *)
(* losses, that no address has two owners.                                 *)
(***************************************************************************)
EXTENDS MAAP, TLAPS

\* What the proofs maintain about one range r and what the host knows of it, h.
RangeOK(r, h) ==
  /\ r \in RangeType
  /\ h \in Addresses \cup {None}
  /\ (h # None) <=> r.conflictInd
  /\ h # None => r.state # "FREE" /\ h = r.addr
  /\ r.state = "DEFEND" => h = r.addr
  /\ r.state = "PROBE" <=> r.probeTimer # Stopped
  /\ r.state = "DEFEND" <=> r.announceTimer
  /\ r.state = "PROBE" => r.probes > 0
  /\ r.state # "FREE" => r.count > 0 /\ maap_is_in_dynamic_pool(r.addr, r.count)

RangesOK ==
  /\ range \in [Stations -> [RangeIds -> RangeType]]
  /\ host \in [Stations -> [RangeIds -> Addresses \cup {None}]]
  /\ \A s \in Stations, i \in RangeIds : RangeOK(range[s][i], host[s][i])

\* The inductive invariant: the variables no range depends on keep their types.
IInv ==
  /\ RangesOK
  /\ link \in [Stations -> BOOLEAN]
  /\ status \in [Stations -> Nat]
  /\ losses \in 0..MaxLoss /\ flaps \in 0..MaxFlaps /\ deletes \in 0..MaxDeletes

-----------------------------------------------------------------------------
(* One range: every event of maap_sm keeps RangeOK.                        *)

\* The probe count fits its type.
LEMMA RetransmitsInRange == ProbeRetransmits \in 0..ProbeRetransmits
BY ProbeAssumption

\* The sizes of ranges are natural numbers.
LEMMA CountsAreNaturals == \A c \in Counts \cup {0} : c \in Nat
BY PoolAssumption

\* The state machine's reservation of an address of the pool: PROBE with a
\* running timer, whatever timer of the previous state was stopped.
LEMMA ReserveOK ==
  ASSUME NEW r \in RangeType, NEW h \in Addresses \cup {None}, NEW t \in ProbeTicks,
         (h # None) <=> r.conflictInd, h # None => h = r.addr,
         ~r.announceTimer, r.count > 0, maap_is_in_dynamic_pool(r.addr, r.count)
  PROVE  LET o == ReserveAddress(r, h, t) IN RangeOK(o.range, o.host)
<1> DEFINE q == [r EXCEPT !.state = "PROBE", !.probes = ProbeRetransmits, !.probeTimer = t]
<1>1. ReserveAddress(r, h, t).range = q /\ ReserveAddress(r, h, t).host = h
  BY DEF ReserveAddress, Outcome
<1>2. q \in RangeType
  BY ProbeAssumption, RetransmitsInRange DEF RangeType
<1>3. /\ q.state = "PROBE" /\ q.probeTimer = t /\ q.probes = ProbeRetransmits
      /\ q.addr = r.addr /\ q.count = r.count /\ q.announceTimer = r.announceTimer
      /\ q.conflictInd = r.conflictInd
  BY DEF RangeType
<1>4. RangeOK(q, h)
  BY <1>2, <1>3, ProbeAssumption DEF RangeOK, Stopped
<1> QED  BY <1>1, <1>4

\* A restart draws a fresh address and starts to probe it, with the CONFLICT
\* indication the host needs.
LEMMA RestartOK ==
  ASSUME NEW r, NEW h, RangeOK(r, h), r.state # "FREE",
         NEW a \in maap_generate_address(r.count), NEW t \in ProbeTicks
  PROVE  LET o == Restart(r, h, a, t) IN RangeOK(o.range, o.host)
<1> DEFINE q == [r EXCEPT !.addr = a, !.conflictInd = FALSE,
                          !.probeTimer = Stopped, !.announceTimer = FALSE]
           g == IF r.conflictInd THEN None ELSE h
<1>1. r \in RangeType /\ r.count \in Nat /\ r.count > 0
  BY CountsAreNaturals DEF RangeOK, RangeType
<1>2. a \in Addresses /\ maap_is_in_dynamic_pool(a, r.count)
  BY <1>1, PoolAssumption DEF maap_generate_address, maap_is_in_dynamic_pool, Addresses
<1>3. q \in RangeType
  BY <1>1, <1>2 DEF RangeType
<1>4. ~q.conflictInd /\ ~q.announceTimer /\ q.count = r.count /\ q.addr = a
  BY <1>1 DEF RangeType
<1>5. g = None
  BY DEF RangeOK
<1>6. LET o == ReserveAddress(q, g, t) IN RangeOK(o.range, o.host)
  BY <1>1, <1>2, <1>3, <1>4, <1>5, ReserveOK
<1> QED  BY <1>6 DEF Restart

\* An event that is ignored keeps the range.
LEMMA IgnoreOK ==
  ASSUME NEW r, NEW h, RangeOK(r, h), NEW tx
  PROVE  LET o == Outcome(r, h, tx) IN RangeOK(o.range, o.host)
BY DEF Outcome

\* A received probe: yield, defend or ignore.
LEMMA RProbeOK ==
  ASSUME NEW s, NEW f, NEW r, NEW h, RangeOK(r, h), r.state # "FREE",
         NEW a \in maap_generate_address(r.count), NEW t \in ProbeTicks
  PROVE  LET o == RProbe(s, f, r, h, a, t) IN RangeOK(o.range, o.host)
BY RestartOK, IgnoreOK DEF RProbe, Ignore

\* A received defend or announce: yield or ignore.
LEMMA RDefendOrAnnounceOK ==
  ASSUME NEW s, NEW f, NEW r, NEW h, RangeOK(r, h), r.state # "FREE",
         NEW a \in maap_generate_address(r.count), NEW t \in ProbeTicks
  PROVE  LET o == RDefendOrAnnounce(s, f, r, h, a, t) IN RangeOK(o.range, o.host)
BY RestartOK, IgnoreOK DEF RDefendOrAnnounce, Ignore

\* The end of the probe phase: SUCCESS is indicated for the address defended.
LEMMA ProbeCountOK ==
  ASSUME NEW q \in RangeType, q.state = "PROBE", ~q.announceTimer, NEW tx,
         q.count > 0, maap_is_in_dynamic_pool(q.addr, q.count)
  PROVE  LET o == ProbeCount(q, tx) IN RangeOK(o.range, o.host)
<1> DEFINE d == [q EXCEPT !.state = "DEFEND", !.probeTimer = Stopped,
                          !.conflictInd = TRUE, !.announceTimer = TRUE]
<1>1. ProbeCount(q, tx).range = d /\ ProbeCount(q, tx).host = q.addr
  BY DEF ProbeCount, Outcome
<1>2. d \in RangeType
  BY DEF RangeType
<1>3. /\ d.state = "DEFEND" /\ d.addr = q.addr /\ d.count = q.count
      /\ d.conflictInd /\ d.announceTimer /\ d.probeTimer = Stopped
  BY DEF RangeType
<1>4. q.addr \in Addresses /\ q.addr # None
  BY PoolAssumption DEF RangeType, Addresses, None
<1>5. RangeOK(d, q.addr)
  BY <1>2, <1>3, <1>4 DEF RangeOK
<1> QED  BY <1>1, <1>5

\* The probe timer: another probe, or the address is obtained.
LEMMA ProbeTimerEventOK ==
  ASSUME NEW r, NEW h, RangeOK(r, h), r.state = "PROBE", NEW t \in ProbeTicks
  PROVE  LET o == ProbeTimerEvent(r, h, t) IN RangeOK(o.range, o.host)
<1> DEFINE q  == [r EXCEPT !.probes = @ - 1, !.probeTimer = t]
           tx == {Frame("PROBE", All, r.addr, r.count)}
<1>1. r \in RangeType /\ t \in Nat
  BY ProbeAssumption DEF RangeOK
<1>2. r.probes - 1 \in 0..ProbeRetransmits
  <2>1. r.probes \in 0..ProbeRetransmits /\ r.probes > 0
    BY <1>1 DEF RangeOK, RangeType
  <2> QED  BY <2>1, ProbeAssumption
<1>3. q \in RangeType
  BY <1>1, <1>2 DEF RangeType
<1>4. /\ q.state = "PROBE" /\ q.probes = r.probes - 1 /\ q.probeTimer = t
      /\ q.addr = r.addr /\ q.count = r.count /\ q.conflictInd = r.conflictInd
      /\ q.announceTimer = r.announceTimer
  BY <1>1 DEF RangeType
<1>5. ProbeTimerEvent(r, h, t) = IF q.probes <= 0 THEN ProbeCount(q, tx) ELSE Outcome(q, h, tx)
  BY DEF ProbeTimerEvent
<1> HIDE DEF q, tx
<1>6. CASE q.probes <= 0
  <2>1. LET o == ProbeCount(q, tx) IN RangeOK(o.range, o.host)
    BY <1>3, <1>4, ProbeCountOK DEF RangeOK
  <2> QED  BY <1>5, <1>6, <2>1
<1>7. CASE ~(q.probes <= 0)
  <2>1. RangeOK(q, h)
    BY <1>1, <1>2, <1>3, <1>4, <1>7 DEF RangeOK, Stopped
  <2> QED  BY <1>5, <1>7, <2>1, IgnoreOK
<1> QED  BY <1>6, <1>7

\* Probing again after a link failure keeps the address and the indications.
LEMMA PortOperationalOK ==
  ASSUME NEW r, NEW h, RangeOK(r, h), r.state # "FREE", NEW t \in ProbeTicks
  PROVE  LET o == PortOperational(r, h, t) IN RangeOK(o.range, o.host)
<1> DEFINE q == [r EXCEPT !.probeTimer = Stopped, !.announceTimer = FALSE]
<1>1. r \in RangeType  BY DEF RangeOK
<1>2. q \in RangeType  BY <1>1 DEF RangeType
<1>3. ~q.announceTimer /\ q.count = r.count /\ q.addr = r.addr /\ q.conflictInd = r.conflictInd
  BY <1>1 DEF RangeType
<1>4. LET o == ReserveAddress(q, h, t) IN RangeOK(o.range, o.host)
  BY <1>2, <1>3, ReserveOK DEF RangeOK
<1> QED  BY <1>4 DEF PortOperational

-----------------------------------------------------------------------------
(* All ranges: applying good outcomes to a set of ranges of one station.   *)

\* Good outcomes of some ranges of one station keep all ranges good.
LEMMA ApplyOK ==
  ASSUME RangesOK, NEW s \in Stations, NEW ids \in SUBSET RangeIds, NEW out, NEW rest,
         \A i \in ids : RangeOK(out[i].range, out[i].host),
         Apply(s, ids, out, rest)
  PROVE  RangesOK'
<1> USE DEF Apply, RangesOK
<1>1. \A i \in ids : out[i].range \in RangeType /\ out[i].host \in Addresses \cup {None}
  BY DEF RangeOK
<1>2. range' \in [Stations -> [RangeIds -> RangeType]]
  BY <1>1
<1>3. host' \in [Stations -> [RangeIds -> Addresses \cup {None}]]
  BY <1>1
<1>4. ASSUME NEW x \in Stations, NEW i \in RangeIds
      PROVE  RangeOK(range'[x][i], host'[x][i])
  <2>1. CASE x = s /\ i \in ids
    BY <2>1
  <2>2. CASE ~(x = s /\ i \in ids)
    <3>1. range'[x][i] = range[x][i] /\ host'[x][i] = host[x][i]
      BY <2>2
    <3> QED  BY <3>1
  <2> QED  BY <2>1, <2>2
<1> QED  BY <1>2, <1>3, <1>4 DEF RangesOK

-----------------------------------------------------------------------------
(* The specification.                                                      *)

\* The initial state satisfies the invariant.
LEMMA InitIInv == Init => IInv
<1> SUFFICES ASSUME Init PROVE IInv
  OBVIOUS
<1>1. FreeRange \in RangeType
  <2>1. 0 \in Addresses
    BY PoolAssumption DEF Addresses
  <2>2. 0 \in 0..ProbeRetransmits
    BY ProbeAssumption
  <2> QED  BY <2>1, <2>2 DEF FreeRange, RangeType
<1>2. RangeOK(FreeRange, None)
  BY <1>1 DEF RangeOK, FreeRange, Stopped, None
<1>3. RangesOK
  BY <1>1, <1>2 DEF Init, RangesOK
<1> QED  BY <1>3, BoundsAssumption DEF Init, IInv

\* maap_range_alloc and BEGIN preserve the invariant.
LEMMA CreateRangeOK ==
  ASSUME IInv, NEW s \in Stations, NEW i \in RangeIds, NEW a \in Addresses,
         NEW c \in Counts, NEW t \in ProbeTicks, CreateRange(s, i, a, c, t)
  PROVE  RangesOK'
<1> DEFINE q == [FreeRange EXCEPT !.addr = a, !.count = c]
           out == [x \in {i} |-> ReserveAddress(q, host[s][i], t)]
<1>1. q \in RangeType
  <2>1. 0 \in 0..ProbeRetransmits
    BY ProbeAssumption
  <2> QED  BY <2>1 DEF FreeRange, RangeType
<1>2. ~q.conflictInd /\ ~q.announceTimer /\ q.count = c /\ q.addr = a
  BY DEF FreeRange
<1>3. c > 0
  BY PoolAssumption
<1>4. host[s][i] = None
  BY DEF CreateRange, IInv, RangesOK, RangeOK
<1>5. maap_is_in_dynamic_pool(a, c)
  BY DEF CreateRange
<1>6. LET o == ReserveAddress(q, host[s][i], t) IN RangeOK(o.range, o.host)
  BY <1>1, <1>2, <1>3, <1>4, <1>5, ReserveOK
<1>7. Apply(s, {i}, out, net)
  BY DEF CreateRange
<1>8. \A x \in {i} : RangeOK(out[x].range, out[x].host)
  BY <1>6
<1> HIDE DEF q, out
<1> QED  BY <1>7, <1>8, ApplyOK DEF IInv

\* The deletion of a range preserves the invariant.
LEMMA DeleteRangeOK ==
  ASSUME IInv, NEW s \in Stations, NEW i \in RangeIds, DeleteRange(s, i)
  PROVE  RangesOK'
<1>1. FreeRange \in RangeType /\ RangeOK(FreeRange, None)
  <2>1. 0 \in Addresses /\ 0 \in 0..ProbeRetransmits
    BY PoolAssumption, ProbeAssumption DEF Addresses
  <2>2. FreeRange \in RangeType
    BY <2>1 DEF FreeRange, RangeType
  <2> QED  BY <2>2 DEF RangeOK, FreeRange, Stopped, None
<1>2. /\ range' = [range EXCEPT ![s][i] = FreeRange]
      /\ host' = [host EXCEPT ![s][i] = None]
  BY DEF DeleteRange
<1> QED  BY <1>1, <1>2 DEF IInv, RangesOK

\* maap_probe_timer_handler preserves the invariant.
LEMMA ProbeTimerOK ==
  ASSUME IInv, NEW s \in Stations, NEW i \in RangeIds, NEW t \in ProbeTicks,
         ProbeTimer(s, i, t)
  PROVE  RangesOK'
<1> DEFINE out == [x \in {i} |-> ProbeTimerEvent(range[s][i], host[s][i], t)]
<1>1. LET o == ProbeTimerEvent(range[s][i], host[s][i], t) IN RangeOK(o.range, o.host)
  BY ProbeTimerEventOK DEF ProbeTimer, IInv, RangesOK
<1>2. Apply(s, {i}, out, net)
  BY DEF ProbeTimer
<1>3. \A x \in {i} : RangeOK(out[x].range, out[x].host)
  BY <1>1
<1> HIDE DEF out
<1> QED  BY <1>2, <1>3, ApplyOK DEF IInv

\* maap_announce_timer_handler preserves the invariant.
LEMMA AnnounceTimerOK ==
  ASSUME IInv, NEW s \in Stations, NEW i \in RangeIds, AnnounceTimer(s, i)
  PROVE  RangesOK'
<1> DEFINE out == [x \in {i} |-> AnnounceTimerEvent(range[s][i], host[s][i])]
<1>1. LET o == AnnounceTimerEvent(range[s][i], host[s][i]) IN RangeOK(o.range, o.host)
  BY IgnoreOK DEF AnnounceTimerEvent, IInv, RangesOK
<1>2. Apply(s, {i}, out, net)
  BY DEF AnnounceTimer
<1>3. \A x \in {i} : RangeOK(out[x].range, out[x].host)
  BY <1>1
<1> HIDE DEF out
<1> QED  BY <1>2, <1>3, ApplyOK DEF IInv

\* maap_net_receive preserves the invariant.
LEMMA DeliverOK ==
  ASSUME IInv, NEW f, Deliver(f)
  PROVE  RangesOK'
<1> DEFINE s   == f.dst
           ids == Concerned(s, f)
<1>0. PICK a \in [ids -> Addresses], t \in [ids -> ProbeTicks] : Receive(f, a, t)
  BY DEF Deliver
<1> DEFINE out == [i \in ids |->
                IF f.type = "PROBE"
                THEN RProbe(s, f, range[s][i], host[s][i], a[i], t[i])
                ELSE RDefendOrAnnounce(s, f, range[s][i], host[s][i], a[i], t[i])]
<1>1. /\ Apply(s, ids, out, net (-) SetToBag({f}))
      /\ \A i \in ids : a[i] \in maap_generate_address(range[s][i].count)
  BY <1>0 DEF Receive
<1>2. ids \in SUBSET RangeIds /\ \A i \in ids : range[s][i].state # "FREE"
  BY DEF Concerned, Allocated
<1>3. CASE s \in Stations
  <2>1. ASSUME NEW i \in ids PROVE RangeOK(out[i].range, out[i].host)
    <3>1. /\ RangeOK(range[s][i], host[s][i]) /\ range[s][i].state # "FREE"
          /\ a[i] \in maap_generate_address(range[s][i].count) /\ t[i] \in ProbeTicks
      BY <1>0, <1>1, <1>2, <1>3 DEF IInv, RangesOK
    <3> HIDE DEF ids, s
    <3>2. CASE f.type = "PROBE"
      <4>1. out[i] = RProbe(s, f, range[s][i], host[s][i], a[i], t[i])
        BY <3>2
      <4> QED  BY <3>1, <4>1, RProbeOK
    <3>3. CASE f.type # "PROBE"
      <4>1. out[i] = RDefendOrAnnounce(s, f, range[s][i], host[s][i], a[i], t[i])
        BY <3>3
      <4> QED  BY <3>1, <4>1, RDefendOrAnnounceOK
    <3> QED  BY <3>2, <3>3
  <2> HIDE DEF out, ids, s
  <2> QED  BY <1>1, <1>2, <1>3, <2>1, ApplyOK DEF IInv
<1>4. CASE s \notin Stations
  <2>1. range' = range /\ host' = host
    BY <1>1, <1>4 DEF Apply, IInv, RangesOK
  <2> QED  BY <2>1 DEF IInv, RangesOK
<1> QED  BY <1>3, <1>4

\* maap_ipc_rx_mac_service preserves the invariant.
LEMMA MacServiceStatusOK ==
  ASSUME IInv, NEW s \in Stations, NEW t \in [Allocated(s) -> ProbeTicks],
         MacServiceStatus(s, t)
  PROVE  RangesOK'
<1> DEFINE ids == Allocated(s)
           out == [i \in ids |-> PortOperational(range[s][i], host[s][i], t[i])]
<1>1. Apply(s, ids, out, net)
  BY DEF MacServiceStatus
<1>2. ids \in SUBSET RangeIds /\ \A i \in ids : range[s][i].state # "FREE"
  BY DEF Allocated
<1>3. ASSUME NEW i \in ids PROVE RangeOK(out[i].range, out[i].host)
  <2>1. RangeOK(range[s][i], host[s][i]) /\ t[i] \in ProbeTicks
    BY <1>2 DEF IInv, RangesOK
  <2> QED  BY <1>2, <2>1, PortOperationalOK
<1> HIDE DEF ids, out
<1> QED  BY <1>1, <1>2, <1>3, ApplyOK DEF IInv

\* The passing of time preserves the invariant.
LEMMA TickOK ==
  ASSUME IInv, Tick
  PROVE  RangesOK'
<1>1. ASSUME NEW s \in Stations, NEW i \in RangeIds
      PROVE  /\ range'[s][i] \in RangeType
             /\ RangeOK(range'[s][i], host[s][i])
  <2> DEFINE r == range[s][i]
             q == [r EXCEPT !.probeTimer = @ - 1]
  <2>1. r \in RangeType /\ RangeOK(r, host[s][i])
    BY DEF IInv, RangesOK
  <2>2. CASE r.probeTimer > 0
    <3>1. range'[s][i] = q
      BY <2>2 DEF Tick
    <3>2. r.probeTimer \in Nat \cup {Stopped}
      BY <2>1 DEF RangeType
    <3>3. r.probeTimer - 1 \in Nat /\ r.probeTimer - 1 # Stopped /\ r.probeTimer # Stopped
      BY <2>2, <3>2 DEF Stopped
    <3> HIDE DEF r
    <3>4. q \in RangeType
      BY <2>1, <3>3 DEF RangeType
    <3>5. /\ q.state = r.state /\ q.probes = r.probes /\ q.addr = r.addr /\ q.count = r.count
          /\ q.conflictInd = r.conflictInd /\ q.announceTimer = r.announceTimer
          /\ q.probeTimer = r.probeTimer - 1
      BY <2>1 DEF RangeType
    <3> HIDE DEF q
    <3>6. RangeOK(q, host[s][i])
      BY <2>1, <3>3, <3>4, <3>5 DEF RangeOK
    <3> QED  BY <3>1, <3>4, <3>6
  <2>3. CASE ~(r.probeTimer > 0)
    <3>1. range'[s][i] = r
      BY <2>3 DEF Tick
    <3> QED  BY <2>1, <3>1
  <2> QED  BY <2>2, <2>3
<1>2. range' = [s \in Stations |-> [i \in RangeIds |-> range'[s][i]]]
  BY DEF Tick
<1>3. range' \in [Stations -> [RangeIds -> RangeType]]
  BY <1>1, <1>2
<1>4. host' = host
  BY DEF Tick
<1> QED  BY <1>1, <1>3, <1>4 DEF RangesOK, IInv

\* Every step, and a stuttering step, preserves the invariant.
LEMMA StepIInv == IInv /\ [Next]_vars => IInv'
<1> SUFFICES ASSUME IInv, [Next]_vars PROVE IInv'
  OBVIOUS
<1> USE BoundsAssumption
<1>1. ASSUME NEW s \in Stations, NEW i \in RangeIds, NEW c \in Counts, NEW a \in Addresses,
             NEW t \in ProbeTicks, CreateRange(s, i, a, c, t)
      PROVE  IInv'
  BY <1>1, CreateRangeOK DEF IInv, CreateRange
<1>2. ASSUME NEW s \in Stations, NEW i \in RangeIds, DeleteRange(s, i)
      PROVE  IInv'
  <2>1. deletes' \in 0..MaxDeletes
    BY <1>2 DEF DeleteRange, IInv
  <2>2. RangesOK'
    BY <1>2, DeleteRangeOK
  <2> QED  BY <1>2, <2>1, <2>2 DEF IInv, DeleteRange
<1>3. ASSUME NEW s \in Stations, NEW i \in RangeIds, NEW t \in ProbeTicks, ProbeTimer(s, i, t)
      PROVE  IInv'
  BY <1>3, ProbeTimerOK DEF IInv, ProbeTimer
<1>4. ASSUME NEW s \in Stations, NEW i \in RangeIds, AnnounceTimer(s, i)
      PROVE  IInv'
  BY <1>4, AnnounceTimerOK DEF IInv, AnnounceTimer
<1>5. ASSUME NEW f, Deliver(f)
      PROVE  IInv'
  <2>1. UNCHANGED <<link, status, losses, flaps, deletes>>
    BY <1>5 DEF Deliver, Receive
  <2> QED  BY <1>5, <2>1, DeliverOK DEF IInv
<1>6. ASSUME NEW f, Lose(f)
      PROVE  IInv'
  BY <1>6 DEF Lose, IInv, RangesOK
<1>7. ASSUME NEW s \in Stations, LinkDown(s)
      PROVE  IInv'
  BY <1>7 DEF LinkDown, IInv, RangesOK
<1>8. ASSUME NEW s \in Stations, LinkUp(s)
      PROVE  IInv'
  BY <1>8 DEF LinkUp, IInv, RangesOK
<1>9. ASSUME NEW s \in Stations, NEW t \in [Allocated(s) -> ProbeTicks], MacServiceStatus(s, t)
      PROVE  IInv'
  <2>1. status[s] - 1 \in Nat /\ status' = [status EXCEPT ![s] = @ - 1]
    BY <1>9 DEF MacServiceStatus, IInv
  <2>2. status' \in [Stations -> Nat]
    BY <2>1 DEF IInv
  <2> QED  BY <1>9, <2>2, MacServiceStatusOK DEF IInv, MacServiceStatus
<1>10. CASE Tick
  BY <1>10, TickOK DEF IInv, Tick
<1>11. CASE UNCHANGED vars
  BY <1>11 DEF vars, IInv, RangesOK
<1> QED
  BY <1>1, <1>2, <1>3, <1>4, <1>5, <1>6, <1>7, <1>8, <1>9, <1>10, <1>11
     DEF Next, HostStep, TimerStep, LinkStep

\* The invariant implies the properties the runs check.
LEMMA IInvImplies == IInv => TypeOK /\ HostView /\ TimersMatchState /\ RangesInPool
<1> SUFFICES ASSUME IInv PROVE TypeOK /\ HostView /\ TimersMatchState /\ RangesInPool
  OBVIOUS
<1>1. TypeOK
  BY DEF IInv, RangesOK, TypeOK
<1>2. HostView
  BY DEF IInv, RangesOK, RangeOK, HostView
<1>3. TimersMatchState
  BY DEF IInv, RangesOK, RangeOK, TimersMatchState
<1>4. RangesInPool
  BY DEF IInv, RangesOK, RangeOK, RangesInPool, Allocated
<1> QED  BY <1>1, <1>2, <1>3, <1>4

\* The invariant holds in every reachable state.
LEMMA Invariance == Spec => []IInv
BY InitIInv, StepIInv, PTL DEF Spec

\* Every variable of the protocol keeps its type.
THEOREM TypeCorrect == Spec => []TypeOK
BY Invariance, IInvImplies, PTL

\* The host's view follows the range through restarts, link failures, losses
\* and deletions, for any number of stations and ranges.
THEOREM HostAgrees == Spec => []HostView
BY Invariance, IInvImplies, PTL

\* A range never waits in a state whose timer does not run.
THEOREM TimersAgree == Spec => []TimersMatchState
BY Invariance, IInvImplies, PTL

\* However often a range restarts, what it claims lies in the dynamic pool.
THEOREM StaysInPool == Spec => []RangesInPool
BY Invariance, IInvImplies, PTL

-----------------------------------------------------------------------------
(***************************************************************************)
(* Two attached stations never defend overlapping ranges, when no frame is *)
(* lost and probe intervals are regular: m is at most the shortest, and    *)
(* none is as long as ProbeRetransmits of that.                            *)
(*                                                                         *)
(* The argument is about a pair of overlapping ranges.  One of them has    *)
(* been claimed last, and its station has sent a probe.  A defender        *)
(* answers it, and a prober is told before its time is up: either the      *)
(* frame that makes it yield is on its way, and no time passes before it   *)
(* arrives, or the lower station still has a probe to send before the      *)
(* higher one can be done.                                                 *)
(***************************************************************************)
Regular(m) == \A t \in ProbeTicks : m <= t /\ t < ProbeRetransmits * m

\* The least time a probing range still needs.
Left(r, m) == r.probeTimer + (r.probes - 1) * m

FrameOf(type, s, t, r) ==
  [type |-> type, src |-> s, dst |-> t, start |-> r.addr, count |-> r.count]

Meet(r, q) == are_ranges_in_conflict(r.addr, r.count, q.addr, q.count)

\* Overlapping ranges r of station s and q of station t, with the frames N on
\* their way.
PairOK(m, N, s, t, r, q) ==
  /\ ~(r.state = "DEFEND" /\ q.state = "DEFEND")
  /\ r.state = "DEFEND" /\ q.state = "PROBE" =>
       /\ Left(q, m) > 0
       /\ \/ FrameOf("ANNOUNCE", s, t, r) \in N
          \/ FrameOf("PROBE", t, s, q) \in N
          \/ FrameOf("DEFEND", s, t, q) \in N
  /\ r.state = "PROBE" /\ q.state = "PROBE" /\ s < t =>
       \/ FrameOf("PROBE", s, t, r) \in N /\ Left(r, m) > 0
       \/ Left(q, m) > r.probeTimer

Claimed(r) == r.state # "FREE"

PairsOK(m) ==
  \A s, t \in Stations : s # t /\ Attached(s) /\ Attached(t) =>
    \A i, j \in RangeIds :
      /\ Claimed(range[s][i]) /\ Claimed(range[t][j]) /\ Meet(range[s][i], range[t][j])
      => PairOK(m, BagToSet(net), s, t, range[s][i], range[t][j])

\* A range with sound timers: none longer than the probe phase of another.
Timed(r, m) ==
  r.state = "PROBE" => /\ r.probeTimer \in Nat /\ r.probeTimer < ProbeRetransmits * m
                       /\ r.probes \in Nat \ {0}

OwnersInv(m) ==
  /\ IsABag(net)
  /\ \A s \in Stations, i \in RangeIds : Timed(range[s][i], m)
  /\ PairsOK(m)

-----------------------------------------------------------------------------
(* One pair of ranges.                                                     *)

\* Ranges of the pool that overlap do so both ways.
LEMMA MeetSymmetric ==
  ASSUME NEW r \in RangeType, NEW q \in RangeType, r.count > 0, q.count > 0, Meet(r, q)
  PROVE  Meet(q, r)
<1>1. \A x \in RangeType : x.addr \in Addresses /\ x.count \in Counts \cup {0}
  BY DEF RangeType
<1>2. \A x \in Addresses : x \in Int
  BY PoolAssumption DEF Addresses
<1>3. r.addr \in Int /\ q.addr \in Int /\ r.count \in Int /\ q.count \in Int
  BY <1>1, <1>2, CountsAreNaturals
<1> QED  BY <1>3 DEF Meet, are_ranges_in_conflict

\* The time left to a prober whose timer was started for its n-th last probe.
LEMMA LeftBounds ==
  ASSUME NEW m \in Nat, NEW n \in Nat \ {0}, NEW t \in Nat
  PROVE  /\ (n - 1) * m \in Nat
         /\ t + (n - 1) * m >= t
         /\ n > 1 => (n - 2) * m \in Nat /\ (n - 1) * m = m + (n - 2) * m
         /\ m + (n - 1) * m = n * m
  OBVIOUS

\* A range that starts to probe, r, has told the other station, and has more
\* time left than any running timer.
Fresh(r) ==
  r.state = "PROBE" /\ r.probes = ProbeRetransmits /\ r.probeTimer \in ProbeTicks

\* It needs at least ProbeRetransmits of the shortest intervals.
LEMMA FreshLeft ==
  ASSUME NEW m \in Nat, Regular(m), NEW r, Fresh(r)
  PROVE  Left(r, m) \in Nat /\ Left(r, m) >= ProbeRetransmits * m /\ ProbeRetransmits * m > 0
<1>1. /\ r.probeTimer \in Nat /\ r.probeTimer >= m /\ r.probeTimer < ProbeRetransmits * m
      /\ ProbeRetransmits \in Nat \ {0}
  BY ProbeAssumption DEF Fresh, Regular
<1>2. /\ (ProbeRetransmits - 1) * m \in Nat
      /\ m + (ProbeRetransmits - 1) * m = ProbeRetransmits * m
  BY <1>1, LeftBounds
<1>3. Left(r, m) = r.probeTimer + (ProbeRetransmits - 1) * m
  BY DEF Left, Fresh
<1>4. ProbeRetransmits * m \in Nat
  BY <1>1
<1> QED  BY <1>1, <1>2, <1>3, <1>4

\* So a pair one of whose ranges starts is in order, whatever the other does.
LEMMA FreshPair ==
  ASSUME NEW m \in Nat, Regular(m), NEW N, NEW s \in Stations, NEW t \in Stations, s # t,
         NEW r, NEW q, Fresh(r), Timed(q, m), FrameOf("PROBE", s, t, r) \in N
  PROVE  PairOK(m, N, s, t, r, q) /\ PairOK(m, N, t, s, q, r)
<1>1. Left(r, m) \in Nat /\ Left(r, m) >= ProbeRetransmits * m /\ ProbeRetransmits * m > 0
  BY FreshLeft
<1>2. ProbeRetransmits * m \in Nat
  BY ProbeAssumption
<1>3. Left(r, m) > 0
  BY <1>1, <1>2
<1>4. r.state = "PROBE"
  BY DEF Fresh
<1>5. q.state = "PROBE" => Left(r, m) > q.probeTimer
  BY <1>1, <1>2 DEF Timed
<1> QED  BY <1>3, <1>4, <1>5 DEF PairOK

\* A fresh range has sound timers.
LEMMA FreshTimed ==
  ASSUME NEW m \in Nat, Regular(m), NEW r, Fresh(r)
  PROVE  Timed(r, m)
BY ProbeAssumption DEF Fresh, Timed, Regular

\* Frames that are added do no harm.
LEMMA MoreFrames ==
  ASSUME NEW m, NEW N, NEW P, N \subseteq P, NEW s, NEW t, NEW r, NEW q,
         PairOK(m, N, s, t, r, q)
  PROVE  PairOK(m, P, s, t, r, q)
BY DEF PairOK

\* The probe timer of r expires: r sends another probe, or it has been heard by
\* q, or q has been heard by r.
LEMMA TimerPair ==
  ASSUME NEW m \in Nat, Regular(m), NEW N, NEW P, N \subseteq P,
         NEW s \in Stations, NEW t \in Stations, s # t,
         NEW r, NEW q, NEW u, NEW d \in ProbeTicks,
         r.state = "PROBE", r.probeTimer = 0, Timed(r, m), Timed(q, m),
         PairOK(m, N, s, t, r, q), PairOK(m, N, t, s, q, r),
         u.addr = r.addr, u.count = r.count,
         IF r.probes > 1
         THEN u.state = "PROBE" /\ u.probes = r.probes - 1 /\ u.probeTimer = d
         ELSE u.state = "DEFEND" /\ FrameOf("ANNOUNCE", s, t, r) \in P,
         FrameOf("PROBE", s, t, r) \in P
  PROVE  PairOK(m, P, s, t, u, q) /\ PairOK(m, P, t, s, q, u)
<1>1. /\ r.probes \in Nat \ {0} /\ d \in Nat /\ d >= m /\ ProbeRetransmits \in Nat
      /\ ProbeRetransmits * m \in Nat /\ d < ProbeRetransmits * m /\ m > 0
  BY ProbeAssumption DEF Timed, Regular
<1>2. \A x : FrameOf(x, s, t, u) = FrameOf(x, s, t, r) /\ FrameOf(x, t, s, u) = FrameOf(x, t, s, r)
  BY DEF FrameOf
<1>3. s \in Int /\ t \in Int /\ (s < t \/ t < s)
  BY StationsAssumption
<1>4. CASE r.probes > 1
  <2>1. /\ Left(u, m) \in Nat /\ Left(r, m) \in Nat
        /\ Left(u, m) >= Left(r, m) /\ Left(u, m) > 0
    <3>1. (r.probes - 1) * m = m + (r.probes - 2) * m /\ (r.probes - 2) * m \in Nat
      BY <1>1, <1>4, LeftBounds
    <3>2. Left(r, m) = m + (r.probes - 2) * m
      BY <1>1, <3>1 DEF Left
    <3>3. Left(u, m) = d + (r.probes - 2) * m
      BY <1>1, <1>4 DEF Left
    <3> QED  BY <1>1, <3>1, <3>2, <3>3
  <2>2. PairOK(m, P, s, t, u, q)
    BY <1>2, <1>4, <2>1 DEF PairOK
  <2>3. q.state = "PROBE" /\ t < s => 
           \/ FrameOf("PROBE", t, s, q) \in P /\ Left(q, m) > 0
           \/ Left(u, m) > q.probeTimer
    <3> SUFFICES ASSUME q.state = "PROBE", t < s, 
                        ~(FrameOf("PROBE", t, s, q) \in P /\ Left(q, m) > 0)
                 PROVE  Left(u, m) > q.probeTimer
      OBVIOUS
    <3>1. Left(r, m) > q.probeTimer
      BY DEF PairOK
    <3>2. q.probeTimer \in Nat
      BY DEF Timed
    <3> QED  BY <2>1, <3>1, <3>2
  <2>4. PairOK(m, P, t, s, q, u)
    BY <1>2, <1>4, <2>1, <2>3 DEF PairOK
  <2> QED  BY <2>2, <2>4
<1>5. CASE ~(r.probes > 1)
  <2>1. u.state = "DEFEND" /\ FrameOf("ANNOUNCE", s, t, u) \in P
    BY <1>2, <1>5
  <2>2. Left(r, m) = 0
    <3>1. r.probes = 1
      BY <1>1, <1>5
    <3> QED  BY <1>1, <3>1 DEF Left
  <2>3. q.state # "DEFEND"
    BY <2>2 DEF PairOK
  <2>4. q.state = "PROBE" => Left(q, m) > 0
    <3> SUFFICES ASSUME q.state = "PROBE" PROVE Left(q, m) > 0
      OBVIOUS
    <3>1. q.probeTimer \in Nat
      BY DEF Timed
    <3>2. CASE s < t
      BY <2>2, <3>2 DEF PairOK
    <3>3. CASE t < s
      BY <2>2, <3>1, <3>3 DEF PairOK
    <3> QED  BY <1>3, <3>2, <3>3
  <2> QED  BY <2>1, <2>3, <2>4 DEF PairOK
<1> QED  BY <1>4, <1>5

\* Time passes only when no frame is on its way.
LEMMA TickPair ==
  ASSUME NEW m \in Nat, NEW s, NEW t, NEW r, NEW q, NEW u, NEW v,
         PairOK(m, {}, s, t, r, q), Timed(r, m), Timed(q, m),
         u.state = r.state, v.state = q.state, v.probes = q.probes,
         r.state = "PROBE" => u.probeTimer = r.probeTimer - 1,
         q.state = "PROBE" => v.probeTimer = q.probeTimer - 1
  PROVE  PairOK(m, {}, s, t, u, v)
<1>1. ASSUME r.state = "PROBE", q.state = "PROBE", s < t
      PROVE  Left(v, m) > u.probeTimer
  <2>1. Left(q, m) > r.probeTimer
    BY <1>1 DEF PairOK
  <2>2. /\ q.probeTimer \in Nat /\ r.probeTimer \in Nat /\ (q.probes - 1) * m \in Nat
    BY <1>1, LeftBounds DEF Timed
  <2>3. Left(v, m) = Left(q, m) - 1
    BY <1>1, <2>2 DEF Left
  <2>4. Left(q, m) \in Nat
    BY <2>2 DEF Left
  <2> QED  BY <1>1, <2>1, <2>2, <2>3, <2>4
<1> QED  BY <1>1 DEF PairOK

-----------------------------------------------------------------------------
(* The frames on their way.                                                *)

\* Frames that are sent join those on their way, which stay a bag.
LEMMA BagAdd ==
  ASSUME NEW B, IsABag(B), NEW S
  PROVE  /\ IsABag(B (+) SetToBag(S))
         /\ BagToSet(B (+) SetToBag(S)) = BagToSet(B) \cup S
BY DEF IsABag, SetToBag, BagToSet, (+)

\* A frame that arrives or is lost leaves the others on their way.
LEMMA BagTake ==
  ASSUME NEW B, IsABag(B), NEW f
  PROVE  /\ IsABag(B (-) SetToBag({f}))
         /\ BagToSet(B) \ {f} \subseteq BagToSet(B (-) SetToBag({f}))
<1> DEFINE C == [e \in DOMAIN B |-> IF e \in {f} THEN B[e] - 1 ELSE B[e]]
           D == {d \in DOMAIN B : C[d] > 0}
<1>1. B (-) SetToBag({f}) = [e \in D |-> C[e]]
  BY DEF (-), SetToBag
<1>2. \A e \in DOMAIN B : B[e] \in Nat /\ B[e] > 0
  BY DEF IsABag
<1>3. \A e \in D : C[e] \in Nat /\ C[e] > 0
  BY <1>2
<1>4. DOMAIN B \ {f} \subseteq D
  BY <1>2
<1> QED  BY <1>1, <1>3, <1>4 DEF IsABag, BagToSet

\* The frames of an outcome are sent to the stations they are for.
LEMMA Sends ==
  ASSUME NEW s, NEW ids, NEW out, NEW rest, IsABag(rest), Apply(s, ids, out, rest)
  PROVE  /\ IsABag(net')
         /\ BagToSet(rest) \subseteq BagToSet(net')
         /\ \A i \in ids : \A fr \in out[i].tx : \A t \in Stations \ {s} :
              link[s] /\ link[t] /\ fr.dst \in {All, t} =>
                [type |-> fr.type, src |-> s, dst |-> t, start |-> fr.start, count |-> fr.count]
                  \in BagToSet(net')
<1> DEFINE S == UNION {Copies(s, fr) : fr \in UNION {o.tx : o \in {out[i] : i \in ids}}}
<1>1. net' = rest (+) SetToBag(S)
  BY DEF Apply, Transmit
<1> HIDE DEF S
<1>2. IsABag(net') /\ BagToSet(net') = BagToSet(rest) \cup S
  BY <1>1, BagAdd
<1>3. ASSUME NEW i \in ids, NEW fr \in out[i].tx, NEW t \in Stations \ {s},
             link[s], link[t], fr.dst \in {All, t}
      PROVE  [type |-> fr.type, src |-> s, dst |-> t, start |-> fr.start, count |-> fr.count] \in S
  <2>1. [type |-> fr.type, src |-> s, dst |-> t, start |-> fr.start, count |-> fr.count]
          \in Copies(s, fr)
    BY <1>3 DEF Copies
  <2>2. fr \in UNION {o.tx : o \in {out[x] : x \in ids}}
    BY <1>3
  <2> QED  BY <2>1, <2>2 DEF S
<1> QED  BY <1>2, <1>3

\* What an outcome does to the ranges of one station.
LEMMA Applied ==
  ASSUME RangesOK, NEW s \in Stations, NEW ids \in SUBSET RangeIds, NEW out, NEW rest,
         Apply(s, ids, out, rest), NEW x \in Stations, NEW i \in RangeIds
  PROVE  range'[x][i] = IF x = s /\ i \in ids THEN out[i].range ELSE range[x][i]
BY DEF Apply, RangesOK

\* A range that starts to probe is fresh, and its station has sent a probe.
Started(s, i) ==
  /\ Fresh(range[s][i])
  /\ \A t \in Stations \ {s} : link[s] /\ link[t] =>
       FrameOf("PROBE", s, t, range[s][i]) \in BagToSet(net)

\* Every step that starts some ranges and leaves the others alone, and takes no
\* frame the others need, keeps the pairs.  A station becomes attached by a step
\* that starts all its ranges.
LEMMA StartKeeps ==
  ASSUME NEW m \in Nat, Regular(m), IInv, IInv', OwnersInv(m), link' = link,
         IsABag(net'),
         \A s \in Stations, i \in RangeIds :
            \/ Started(s, i)'
            \/ range'[s][i] = range[s][i] /\ (Claimed(range[s][i]) => status'[s] = status[s])
            \/ ~Claimed(range'[s][i]),
         \A s, t \in Stations : s # t /\ link[s] /\ link[t] =>
           \A i, j \in RangeIds :
             /\ ~Started(s, i)' /\ ~Started(t, j)'
             /\ range'[s][i] = range[s][i] /\ range'[t][j] = range[t][j]
             /\ Claimed(range[s][i]) /\ Claimed(range[t][j]) /\ Meet(range[s][i], range[t][j])
             /\ PairOK(m, BagToSet(net), s, t, range[s][i], range[t][j])
             => PairOK(m, BagToSet(net'), s, t, range[s][i], range[t][j])
  PROVE  OwnersInv(m)'
<1>1. ASSUME NEW s \in Stations, NEW i \in RangeIds
      PROVE  Timed(range'[s][i], m)
  <2>1. CASE Started(s, i)'
    BY <2>1, FreshTimed DEF Started
  <2>2. CASE range'[s][i] = range[s][i]
    BY <2>2 DEF OwnersInv
  <2>3. CASE ~Claimed(range'[s][i])
    BY <2>3 DEF Claimed, Timed
  <2> QED  BY <2>1, <2>2, <2>3
<1>2. ASSUME NEW s \in Stations, NEW t \in Stations, s # t, Attached(s)', Attached(t)',
             NEW i \in RangeIds, NEW j \in RangeIds,
             Claimed(range'[s][i]), Claimed(range'[t][j]), Meet(range'[s][i], range'[t][j])
      PROVE  PairOK(m, BagToSet(net'), s, t, range'[s][i], range'[t][j])
  <2>1. link[s] /\ link[t] /\ Timed(range'[s][i], m) /\ Timed(range'[t][j], m)
    BY <1>1, <1>2 DEF Attached
  <2>2. CASE Started(s, i)'
    <3>1. FrameOf("PROBE", s, t, range'[s][i]) \in BagToSet(net') /\ Fresh(range'[s][i])
      BY <1>2, <2>1, <2>2 DEF Started
    <3> QED  BY <1>2, <2>1, <3>1, FreshPair
  <2>3. CASE Started(t, j)'
    <3>1. FrameOf("PROBE", t, s, range'[t][j]) \in BagToSet(net') /\ Fresh(range'[t][j])
      BY <1>2, <2>1, <2>3 DEF Started
    <3> QED  BY <1>2, <2>1, <3>1, FreshPair
  <2>4. CASE ~Started(s, i)' /\ ~Started(t, j)'
    <3>1. /\ range'[s][i] = range[s][i] /\ range'[t][j] = range[t][j]
          /\ status'[s] = status[s] /\ status'[t] = status[t]
      BY <1>2, <2>4
    <3>2. Attached(s) /\ Attached(t)
      BY <1>2, <3>1 DEF Attached
    <3>3. PairOK(m, BagToSet(net), s, t, range[s][i], range[t][j])
      BY <1>2, <3>1, <3>2 DEF OwnersInv, PairsOK
    <3> QED  BY <1>2, <2>1, <2>4, <3>1, <3>3
  <2> QED  BY <2>2, <2>3, <2>4
<1>3. PairsOK(m)'
  BY <1>2 DEF PairsOK
<1> QED  BY <1>1, <1>3 DEF OwnersInv

-----------------------------------------------------------------------------
(* The steps.                                                              *)

\* An outcome that starts its range.
Starts(o) ==
  Fresh(o.range) /\ Frame("PROBE", All, o.range.addr, o.range.count) \in o.tx

\* RESERVE_ADDRESS starts the range.
LEMMA ReserveStarts ==
  ASSUME NEW r \in RangeType, NEW h, NEW d \in ProbeTicks
  PROVE  Starts(ReserveAddress(r, h, d))
<1> DEFINE q == [r EXCEPT !.state = "PROBE", !.probes = ProbeRetransmits, !.probeTimer = d]
<1>1. ReserveAddress(r, h, d) = [range |-> q, host |-> h, tx |-> {Frame("PROBE", All, r.addr, r.count)}]
  BY DEF ReserveAddress, Outcome
<1>2. q.state = "PROBE" /\ q.probes = ProbeRetransmits /\ q.probeTimer = d
      /\ q.addr = r.addr /\ q.count = r.count
  BY DEF RangeType
<1> HIDE DEF q
<1> QED  BY <1>1, <1>2 DEF Starts, Fresh

\* RESTART does, with its fresh address.
LEMMA RestartStarts ==
  ASSUME NEW r \in RangeType, NEW h, NEW a \in Addresses, NEW d \in ProbeTicks
  PROVE  Starts(Restart(r, h, a, d))
<1> DEFINE q == [r EXCEPT !.addr = a, !.conflictInd = FALSE,
                          !.probeTimer = Stopped, !.announceTimer = FALSE]
<1>1. q \in RangeType
  BY DEF RangeType
<1> HIDE DEF q
<1>2. Starts(ReserveAddress(q, IF r.conflictInd THEN None ELSE h, d))
  BY <1>1, ReserveStarts
<1> QED  BY <1>2 DEF Restart, q

\* PORT_OPERATIONAL does, with the address it has.
LEMMA OperationalStarts ==
  ASSUME NEW r \in RangeType, NEW h, NEW d \in ProbeTicks
  PROVE  Starts(PortOperational(r, h, d))
<1> DEFINE q == [r EXCEPT !.probeTimer = Stopped, !.announceTimer = FALSE]
<1>1. q \in RangeType
  BY DEF RangeType
<1> HIDE DEF q
<1>2. Starts(ReserveAddress(q, h, d))
  BY <1>1, ReserveStarts
<1> QED  BY <1>2 DEF PortOperational, q

\* The probe of an outcome that starts its range is on its way to everyone.
LEMMA ApplyStarts ==
  ASSUME RangesOK, NEW s \in Stations, NEW ids \in SUBSET RangeIds, NEW out, NEW rest,
         IsABag(rest), Apply(s, ids, out, rest), link' = link,
         NEW i \in ids, Starts(out[i])
  PROVE  Started(s, i)'
<1>1. range'[s][i] = out[i].range
  BY Applied
<1>2. ASSUME NEW t \in Stations \ {s}, link[s], link[t]
      PROVE  FrameOf("PROBE", s, t, out[i].range) \in BagToSet(net')
  <2> DEFINE fr == Frame("PROBE", All, out[i].range.addr, out[i].range.count)
  <2>1. fr \in out[i].tx
    BY DEF Starts
  <2>2. fr.dst = All /\ fr.type = "PROBE" /\ fr.start = out[i].range.addr /\ fr.count = out[i].range.count
    BY DEF Frame
  <2> HIDE DEF fr
  <2>3. [type |-> fr.type, src |-> s, dst |-> t, start |-> fr.start, count |-> fr.count] \in BagToSet(net')
    BY <1>2, <2>1, <2>2, Sends
  <2> QED  BY <2>2, <2>3 DEF FrameOf
<1> QED  BY <1>1, <1>2 DEF Started, Starts

\* A new range.
LEMMA CreateKeepsOwners ==
  ASSUME NEW m \in Nat, Regular(m), IInv, IInv', OwnersInv(m),
         NEW s \in Stations, NEW i \in RangeIds, NEW a \in Addresses,
         NEW c \in Counts, NEW d \in ProbeTicks, CreateRange(s, i, a, c, d)
  PROVE  OwnersInv(m)'
<1> DEFINE q == [FreeRange EXCEPT !.addr = a, !.count = c]
           out == [x \in {i} |-> ReserveAddress(q, host[s][i], d)]
<1>1. q \in RangeType
  <2>1. 0 \in 0..ProbeRetransmits
    BY ProbeAssumption
  <2> QED  BY <2>1 DEF FreeRange, RangeType
<1>2. Starts(out[i])
  <2> HIDE DEF q
  <2> QED  BY <1>1, ReserveStarts
<1>3. Apply(s, {i}, out, net) /\ link' = link /\ status' = status
  BY DEF CreateRange
<1> HIDE DEF q, out
<1>4. RangesOK /\ IsABag(net)
  BY DEF IInv, OwnersInv
<1>5. Started(s, i)'
  BY <1>2, <1>3, <1>4, ApplyStarts
<1>6. IsABag(net') /\ BagToSet(net) \subseteq BagToSet(net')
  BY <1>3, <1>4, Sends
<1>7. \A x \in Stations, j \in RangeIds :
        Started(x, j)' \/ (range'[x][j] = range[x][j] /\ status'[x] = status[x])
  BY <1>3, <1>4, <1>5, Applied
<1> QED  BY <1>3, <1>6, <1>7, MoreFrames, StartKeeps

\* The host deletes a range.
LEMMA DeleteKeepsOwners ==
  ASSUME NEW m \in Nat, Regular(m), IInv, IInv', OwnersInv(m),
         NEW s \in Stations, NEW i \in RangeIds, DeleteRange(s, i)
  PROVE  OwnersInv(m)'
<1>1. link' = link /\ status' = status /\ net' = net
  BY DEF DeleteRange
<1>2. \A x \in Stations, j \in RangeIds : range'[x][j] = range[x][j] \/ ~Claimed(range'[x][j])
  BY DEF DeleteRange, IInv, RangesOK, Claimed, FreeRange
<1>3. IsABag(net')
  BY <1>1 DEF OwnersInv
<1> QED  BY <1>1, <1>2, <1>3, StartKeeps

\* The port is operational again: all its ranges start.
LEMMA StatusKeepsOwners ==
  ASSUME NEW m \in Nat, Regular(m), IInv, IInv', OwnersInv(m),
         NEW s \in Stations, NEW d \in [Allocated(s) -> ProbeTicks], MacServiceStatus(s, d)
  PROVE  OwnersInv(m)'
<1> DEFINE ids == Allocated(s)
           out == [i \in ids |-> PortOperational(range[s][i], host[s][i], d[i])]
<1>1. Apply(s, ids, out, net) /\ link' = link /\ status' = [status EXCEPT ![s] = @ - 1]
  BY DEF MacServiceStatus
<1>2. ids \in SUBSET RangeIds
  BY DEF Allocated
<1>3. ASSUME NEW i \in ids PROVE Starts(out[i])
  <2>1. range[s][i] \in RangeType /\ d[i] \in ProbeTicks
    BY <1>2 DEF IInv, RangesOK
  <2> QED  BY <2>1, OperationalStarts
<1> HIDE DEF out
<1>4. RangesOK /\ IsABag(net) /\ status \in [Stations -> Nat]
  BY DEF IInv, OwnersInv
<1>5. \A i \in ids : Started(s, i)'
  BY <1>1, <1>2, <1>3, <1>4, ApplyStarts
<1>6. IsABag(net') /\ BagToSet(net) \subseteq BagToSet(net')
  BY <1>1, <1>4, Sends
<1>7. ASSUME NEW x \in Stations, NEW j \in RangeIds
      PROVE  \/ Started(x, j)'
             \/ range'[x][j] = range[x][j] /\ (Claimed(range[x][j]) => status'[x] = status[x])
  <2>1. CASE x = s /\ j \in ids
    BY <1>5, <2>1
  <2>2. CASE x = s /\ j \notin ids
    <3>1. ~Claimed(range[x][j])
      BY <2>2 DEF Allocated, Claimed
    <3>2. range'[x][j] = range[x][j]
      BY <1>1, <1>2, <1>4, <2>2, Applied
    <3> QED  BY <3>1, <3>2
  <2>3. CASE x # s
    <3>1. range'[x][j] = range[x][j]
      BY <1>1, <1>2, <1>4, <2>3, Applied
    <3>2. status'[x] = status[x]
      BY <1>1, <1>4, <2>3
    <3> QED  BY <3>1, <3>2
  <2> QED  BY <2>1, <2>2, <2>3
<1> QED  BY <1>1, <1>6, <1>7, MoreFrames, StartKeeps

\* A frame arrives.  A pair that is left alone may have needed it: then the
\* defender answers, or the prober yields and is not left alone.
LEMMA DeliverKeepsOwners ==
  ASSUME NEW m \in Nat, Regular(m), IInv, IInv', OwnersInv(m), NEW f, Deliver(f)
  PROVE  OwnersInv(m)'
<1> DEFINE z   == f.dst
           ids == Concerned(z, f)
           rest == net (-) SetToBag({f})
           N == BagToSet(net)
           M == BagToSet(net')
<1>0. PICK a \in [ids -> Addresses], d \in [ids -> ProbeTicks] : Receive(f, a, d)
  BY DEF Deliver
<1> DEFINE out == [i \in ids |->
                IF f.type = "PROBE"
                THEN RProbe(z, f, range[z][i], host[z][i], a[i], d[i])
                ELSE RDefendOrAnnounce(z, f, range[z][i], host[z][i], a[i], d[i])]
<1>1. Apply(z, ids, out, rest) /\ link' = link /\ status' = status
  BY <1>0 DEF Receive
<1>2. ids \in SUBSET RangeIds /\ \A i \in ids : Claimed(range[z][i])
  BY DEF Concerned, Allocated, Claimed
<1>3. RangesOK /\ IsABag(net)
  BY DEF IInv, OwnersInv
<1>4. IsABag(rest) /\ N \ {f} \subseteq BagToSet(rest)
  BY <1>3, BagTake
<1>5. ASSUME NEW i \in ids, z \in Stations
      PROVE  /\ Starts(out[i]) \/ out[i].range = range[z][i]
             /\ /\ range[z][i].state = "PROBE"
                /\ f.type # "PROBE" \/ ~(z < f.src)
                => Starts(out[i])
             /\ f.type = "PROBE" /\ range[z][i].state = "DEFEND" =>
                   Frame("DEFEND", f.src, f.start, f.count) \in out[i].tx
  <2> DEFINE r == range[z][i]
             h == host[z][i]
  <2>1. r \in RangeType /\ a[i] \in Addresses /\ d[i] \in ProbeTicks
    BY <1>2, <1>3, <1>5 DEF RangesOK
  <2>2. Starts(Restart(r, h, a[i], d[i]))
    BY <2>1, RestartStarts
  <2>3. out[i] = IF f.type = "PROBE" THEN RProbe(z, f, r, h, a[i], d[i])
                 ELSE RDefendOrAnnounce(z, f, r, h, a[i], d[i])
    BY <1>5
  <2> HIDE DEF out, r, h, ids, z
  <2>4. CASE f.type = "PROBE"
    BY <2>2, <2>3, <2>4 DEF RProbe, Ignore, Outcome, maap_compare_MAC, r
  <2>5. CASE f.type # "PROBE"
    BY <2>2, <2>3, <2>5 DEF RDefendOrAnnounce, Ignore, Outcome, maap_compare_MAC, r
  <2> QED  BY <2>4, <2>5
<1> HIDE DEF out, rest
<1>6. /\ IsABag(net') /\ BagToSet(rest) \subseteq M
      /\ \A i \in ids : \A fr \in out[i].tx : \A t \in Stations \ {z} :
              link[z] /\ link[t] /\ fr.dst \in {All, t} =>
                [type |-> fr.type, src |-> z, dst |-> t, start |-> fr.start, count |-> fr.count] \in M
  BY <1>1, <1>4, Sends
<1>7. N \ {f} \subseteq M
  BY <1>4, <1>6
<1>8. ASSUME NEW i \in ids, z \in Stations, Starts(out[i]) PROVE Started(z, i)'
  BY <1>1, <1>2, <1>3, <1>4, <1>8, ApplyStarts
<1>9. ASSUME NEW x \in Stations, NEW j \in RangeIds
      PROVE  Started(x, j)' \/ (range'[x][j] = range[x][j] /\ status'[x] = status[x])
  <2>1. CASE x = z /\ j \in ids
    <3>1. range'[x][j] = out[j].range
      <4> HIDE DEF z, ids
      <4> QED  BY <1>1, <1>2, <1>3, <2>1, Applied
    <3> QED  BY <1>1, <1>5, <1>8, <2>1, <3>1
  <2>2. CASE ~(x = z /\ j \in ids)
    <3>1. CASE x = z
      <4> HIDE DEF z, ids
      <4>1. range'[x][j] = range[x][j]
        BY <1>1, <1>2, <1>3, <2>2, <3>1, Applied
      <4> QED  BY <1>1, <4>1
    <3>2. CASE x # z
      <4> HIDE DEF z, ids
      <4>1. range'[x] = range[x]
        BY <1>1, <1>3, <3>2 DEF Apply, RangesOK
      <4> QED  BY <1>1, <4>1
    <3> QED  BY <3>1, <3>2
  <2> QED  BY <2>1, <2>2
<1>10. ASSUME NEW s \in Stations, NEW t \in Stations, s # t, link[s], link[t],
              NEW i \in RangeIds, NEW j \in RangeIds, ~Started(s, i)', ~Started(t, j)',
              Claimed(range[s][i]), Claimed(range[t][j]), Meet(range[s][i], range[t][j]),
              PairOK(m, N, s, t, range[s][i], range[t][j])
       PROVE  PairOK(m, M, s, t, range[s][i], range[t][j])
  <2> DEFINE r == range[s][i]
             q == range[t][j]
  <2>1. /\ r \in RangeType /\ q \in RangeType /\ r.count > 0 /\ q.count > 0
    BY <1>10, <1>3 DEF RangesOK, RangeOK, Claimed
  <2>2. Meet(q, r)
    BY <1>10, <2>1, MeetSymmetric
  <2>3. ASSUME f = FrameOf("ANNOUNCE", s, t, r), q.state = "PROBE" PROVE FALSE
    <3>1. z = t /\ f.type = "ANNOUNCE" /\ f.start = r.addr /\ f.count = r.count
      BY <2>3 DEF FrameOf
    <3>2. j \in ids
      BY <1>10, <2>2, <3>1 DEF Concerned, Allocated, Meet, Claimed
    <3> QED  BY <1>5, <1>8, <1>10, <2>3, <3>1, <3>2
  <2>4. ASSUME f = FrameOf("DEFEND", s, t, q), q.state = "PROBE" PROVE FALSE
    <3>1. z = t /\ f.type = "DEFEND" /\ f.start = q.addr /\ f.count = q.count
      BY <2>4 DEF FrameOf
    <3>2. j \in ids
      BY <1>10, <3>1 DEF Concerned, Allocated, Claimed
    <3> QED  BY <1>5, <1>8, <1>10, <2>4, <3>1, <3>2
  <2>5. ASSUME f = FrameOf("PROBE", s, t, r), q.state = "PROBE", s < t PROVE FALSE
    <3>1. z = t /\ f.type = "PROBE" /\ f.start = r.addr /\ f.count = r.count /\ f.src = s
      BY <2>5 DEF FrameOf
    <3>2. j \in ids
      BY <1>10, <2>2, <3>1 DEF Concerned, Allocated, Meet, Claimed
    <3>3. ~(t < s)
      BY <2>5, StationsAssumption
    <3> QED  BY <1>5, <1>8, <1>10, <2>5, <3>1, <3>2, <3>3
  <2>6. ASSUME f = FrameOf("PROBE", t, s, q), r.state = "DEFEND"
        PROVE  FrameOf("DEFEND", s, t, q) \in M
    <3>1. z = s /\ f.type = "PROBE" /\ f.start = q.addr /\ f.count = q.count /\ f.src = t
      BY <2>6 DEF FrameOf
    <3>2. i \in ids
      BY <1>10, <3>1 DEF Concerned, Allocated, Meet, Claimed
    <3>3. Frame("DEFEND", t, q.addr, q.count) \in out[i].tx
      BY <1>5, <2>6, <3>1, <3>2
    <3> DEFINE fr == Frame("DEFEND", t, q.addr, q.count)
    <3>4. fr.type = "DEFEND" /\ fr.dst = t /\ fr.start = q.addr /\ fr.count = q.count
      BY DEF Frame
    <3>5. [type |-> fr.type, src |-> s, dst |-> t, start |-> fr.start, count |-> fr.count] \in M
      <4> HIDE DEF fr, M
      <4> QED  BY <1>6, <1>10, <3>1, <3>2, <3>3, <3>4 DEF fr
    <3> QED  BY <3>4, <3>5 DEF FrameOf
  <2> HIDE DEF N, M, z, ids, r, q
  <2> QED  BY <1>7, <1>10, <2>3, <2>4, <2>5, <2>6 DEF PairOK, r, q
<1> HIDE DEF N, M
<1> QED  BY <1>1, <1>6, <1>9, <1>10, StartKeeps DEF N, M

\* The probe timer of a range expires.
LEMMA TimerKeepsOwners ==
  ASSUME NEW m \in Nat, Regular(m), IInv, IInv', OwnersInv(m),
         NEW s \in Stations, NEW i \in RangeIds, NEW d \in ProbeTicks, ProbeTimer(s, i, d)
  PROVE  OwnersInv(m)'
<1> DEFINE r == range[s][i]
           o == ProbeTimerEvent(r, host[s][i], d)
           out == [x \in {i} |-> o]
           N == BagToSet(net)
           M == BagToSet(net')
<1>1. /\ Apply(s, {i}, out, net) /\ link' = link /\ status' = status
      /\ r.probeTimer = 0 /\ r.state = "PROBE"
  BY DEF ProbeTimer
<1>2. RangesOK /\ IsABag(net) /\ Timed(r, m) /\ r \in RangeType /\ r.count > 0
  BY <1>1 DEF IInv, OwnersInv, RangesOK, RangeOK
<1>3. r.probes \in Nat \ {0}
  BY <1>1, <1>2 DEF Timed
<1>4. /\ o.range.addr = r.addr /\ o.range.count = r.count
      /\ Frame("PROBE", All, r.addr, r.count) \in o.tx
      /\ IF r.probes > 1
         THEN o.range.state = "PROBE" /\ o.range.probes = r.probes - 1 /\ o.range.probeTimer = d
         ELSE /\ o.range.state = "DEFEND"
              /\ Frame("ANNOUNCE", All, r.addr, r.count) \in o.tx
  <2> DEFINE q == [r EXCEPT !.probes = @ - 1, !.probeTimer = d]
             e == [q EXCEPT !.state = "DEFEND", !.probeTimer = Stopped,
                            !.conflictInd = TRUE, !.announceTimer = TRUE]
             tx == {Frame("PROBE", All, r.addr, r.count)}
  <2>1. /\ q.probes = r.probes - 1 /\ q.probeTimer = d /\ q.state = "PROBE"
        /\ q.addr = r.addr /\ q.count = r.count
        /\ e.state = "DEFEND" /\ e.addr = r.addr /\ e.count = r.count
    BY <1>1, <1>2 DEF RangeType
  <2>2. o = IF q.probes <= 0
            THEN Outcome(e, q.addr, tx \cup {Frame("ANNOUNCE", All, q.addr, q.count)})
            ELSE Outcome(q, host[s][i], tx)
    BY DEF ProbeTimerEvent, ProbeCount
  <2> HIDE DEF q, e, o, r
  <2>3. CASE r.probes > 1
    <3>1. ~(q.probes <= 0)
      BY <1>3, <2>1, <2>3
    <3> QED  BY <2>1, <2>2, <2>3, <3>1 DEF Outcome
  <2>4. CASE ~(r.probes > 1)
    <3>1. q.probes <= 0
      BY <1>3, <2>1, <2>4
    <3> QED  BY <2>1, <2>2, <2>4, <3>1 DEF Outcome
  <2> QED  BY <2>3, <2>4
<1> HIDE DEF o
<1>5. range'[s][i] = o.range
  BY <1>1, <1>2, Applied
<1>6. \A x \in Stations, j \in RangeIds : ~(x = s /\ j = i) => range'[x][j] = range[x][j]
  BY <1>1, <1>2, Applied
<1>7. /\ IsABag(net') /\ N \subseteq M
      /\ \A fr \in out[i].tx : \A t \in Stations \ {s} :
              link[s] /\ link[t] /\ fr.dst \in {All, t} =>
                [type |-> fr.type, src |-> s, dst |-> t, start |-> fr.start, count |-> fr.count] \in M
  BY <1>1, <1>2, Sends
<1>8. ASSUME NEW type \in {"PROBE", "ANNOUNCE"}, Frame(type, All, r.addr, r.count) \in o.tx,
             NEW t \in Stations, s # t, link[s], link[t]
      PROVE  FrameOf(type, s, t, r) \in M
  <2> DEFINE fr == Frame(type, All, r.addr, r.count)
  <2>1. fr.type = type /\ fr.dst = All /\ fr.start = r.addr /\ fr.count = r.count
    BY DEF Frame
  <2>2. [type |-> fr.type, src |-> s, dst |-> t, start |-> fr.start, count |-> fr.count] \in M
    <3> HIDE DEF M
    <3> QED  BY <1>7, <1>8, <2>1
  <2> QED  BY <2>1, <2>2 DEF FrameOf
<1>9. ASSUME NEW x \in Stations, NEW j \in RangeIds
      PROVE  Timed(range'[x][j], m)
  <2>1. CASE x = s /\ j = i
    <3>1. d \in Nat /\ d < ProbeRetransmits * m
      BY ProbeAssumption DEF Regular
    <3> QED  BY <1>3, <1>4, <1>5, <2>1, <3>1 DEF Timed
  <2>2. CASE ~(x = s /\ j = i)
    BY <1>6, <2>2 DEF OwnersInv
  <2> QED  BY <2>1, <2>2
<1>10. ASSUME NEW t \in Stations, s # t, NEW j \in RangeIds, Attached(s)', Attached(t)',
              Claimed(range[t][j]), Meet(r, range[t][j])
       PROVE  /\ PairOK(m, M, s, t, range'[s][i], range[t][j])
              /\ PairOK(m, M, t, s, range[t][j], range'[s][i])
  <2> DEFINE q == range[t][j]
  <2>1. Attached(s) /\ Attached(t) /\ link[s] /\ link[t]
    BY <1>1, <1>10 DEF Attached
  <2>2. q \in RangeType /\ q.count > 0 /\ Timed(q, m)
    BY <1>2, <1>10 DEF RangesOK, RangeOK, Claimed, OwnersInv
  <2>3. Meet(q, r)
    BY <1>2, <1>10, <2>2, MeetSymmetric
  <2>4. PairOK(m, N, s, t, r, q) /\ PairOK(m, N, t, s, q, r)
    BY <1>1, <1>10, <2>1, <2>3 DEF OwnersInv, PairsOK, Claimed
  <2>5. /\ FrameOf("PROBE", s, t, r) \in M
        /\ ~(r.probes > 1) => FrameOf("ANNOUNCE", s, t, r) \in M
    BY <1>4, <1>8, <1>10, <2>1
  <2> HIDE DEF N, M, r, q
  <2> QED  BY <1>1, <1>2, <1>4, <1>5, <1>7, <1>10, <2>2, <2>4, <2>5, TimerPair DEF q
<1>11. ASSUME NEW x \in Stations, NEW t \in Stations, x # t, Attached(x)', Attached(t)',
             NEW j \in RangeIds, NEW k \in RangeIds,
             Claimed(range'[x][j]), Claimed(range'[t][k]), Meet(range'[x][j], range'[t][k])
       PROVE  PairOK(m, M, x, t, range'[x][j], range'[t][k])
  <2>1. \A q : Meet(range'[s][i], q) = Meet(r, q) /\ Meet(q, range'[s][i]) = Meet(q, r)
    BY <1>4, <1>5 DEF Meet
  <2>2. CASE x = s /\ j = i
    <3>1. range'[t][k] = range[t][k]
      BY <1>6, <1>11, <2>2
    <3> QED  BY <1>10, <1>11, <2>1, <2>2, <3>1
  <2>3. CASE t = s /\ k = i
    <3>1. range'[x][j] = range[x][j]
      BY <1>6, <1>11, <2>3
    <3>2. Meet(range[x][j], r)
      BY <1>11, <2>1, <2>3, <3>1
    <3>3. range[x][j] \in RangeType /\ range[x][j].count > 0
      BY <1>2, <1>11, <3>1 DEF RangesOK, RangeOK, Claimed
    <3>4. Meet(r, range[x][j])
      BY <1>2, <3>2, <3>3, MeetSymmetric
    <3> QED  BY <1>10, <1>11, <2>3, <3>1, <3>4
  <2>4. CASE ~(x = s /\ j = i) /\ ~(t = s /\ k = i)
    <3>1. range'[x][j] = range[x][j] /\ range'[t][k] = range[t][k]
      BY <1>6, <2>4
    <3>2. Attached(x) /\ Attached(t)
      BY <1>1, <1>11 DEF Attached
    <3>3. PairOK(m, N, x, t, range[x][j], range[t][k])
      BY <1>11, <3>1, <3>2 DEF OwnersInv, PairsOK
    <3> QED  BY <1>7, <3>1, <3>3, MoreFrames
  <2> QED  BY <2>2, <2>3, <2>4
<1> QED  BY <1>7, <1>9, <1>11 DEF OwnersInv, PairsOK

\* An announcement only adds frames.
LEMMA AnnounceKeepsOwners ==
  ASSUME NEW m \in Nat, Regular(m), IInv, IInv', OwnersInv(m),
         NEW s \in Stations, NEW i \in RangeIds, AnnounceTimer(s, i)
  PROVE  OwnersInv(m)'
<1> DEFINE out == [x \in {i} |-> AnnounceTimerEvent(range[s][i], host[s][i])]
<1>1. Apply(s, {i}, out, net) /\ link' = link /\ status' = status
  BY DEF AnnounceTimer
<1>2. out[i].range = range[s][i]
  BY DEF AnnounceTimerEvent, Outcome
<1> HIDE DEF out
<1>3. RangesOK /\ IsABag(net)
  BY DEF IInv, OwnersInv
<1>4. IsABag(net') /\ BagToSet(net) \subseteq BagToSet(net')
  BY <1>1, <1>3, Sends
<1>5. \A x \in Stations, j \in RangeIds : range'[x][j] = range[x][j]
  BY <1>1, <1>2, <1>3, Applied
<1> QED  BY <1>1, <1>4, <1>5, MoreFrames, StartKeeps

\* A link that fails takes its station out of the pairs, and no frame of others.
LEMMA LinkDownKeepsOwners ==
  ASSUME NEW m \in Nat, IInv, OwnersInv(m), NEW z \in Stations, LinkDown(z)
  PROVE  OwnersInv(m)'
<1> DEFINE N == BagToSet(net)
           M == BagToSet(net')
<1>1. /\ range' = range /\ status' = status /\ link' = [link EXCEPT ![z] = FALSE]
      /\ net' = [f \in {x \in BagToSet(net) : z \notin {x.src, x.dst}} |-> net[f]]
  BY DEF LinkDown
<1>2. IsABag(net') /\ M = {x \in N : z \notin {x.src, x.dst}}
  BY <1>1 DEF OwnersInv, IsABag, BagToSet
<1>3. ASSUME NEW s \in Stations, NEW t \in Stations, s # t, Attached(s)', Attached(t)',
             NEW i \in RangeIds, NEW j \in RangeIds,
             Claimed(range[s][i]), Claimed(range[t][j]), Meet(range[s][i], range[t][j])
      PROVE  PairOK(m, M, s, t, range[s][i], range[t][j])
  <2>1. s # z /\ t # z /\ link[s] /\ link[t]
    BY <1>1, <1>3 DEF Attached, IInv
  <2>2. Attached(s) /\ Attached(t)
    BY <1>1, <1>3, <2>1 DEF Attached
  <2>3. PairOK(m, N, s, t, range[s][i], range[t][j])
    BY <1>3, <2>2 DEF OwnersInv, PairsOK
  <2>4. \A type, r : /\ FrameOf(type, s, t, r) \in N => FrameOf(type, s, t, r) \in M
                     /\ FrameOf(type, t, s, r) \in N => FrameOf(type, t, s, r) \in M
    <3> HIDE DEF N, M
    <3> QED  BY <1>2, <2>1 DEF FrameOf
  <2> HIDE DEF N, M
  <2> QED  BY <2>3, <2>4 DEF PairOK
<1> HIDE DEF N
<1> QED  BY <1>1, <1>2, <1>3 DEF OwnersInv, PairsOK

\* A link that comes back does not attach its station yet.
LEMMA LinkUpKeepsOwners ==
  ASSUME NEW m \in Nat, IInv, OwnersInv(m), NEW z \in Stations, LinkUp(z)
  PROVE  OwnersInv(m)'
<1>1. /\ range' = range /\ net' = net
      /\ link' = [link EXCEPT ![z] = TRUE] /\ status' = [status EXCEPT ![z] = @ + 1]
  BY DEF LinkUp
<1>2. \A s \in Stations : Attached(s)' => Attached(s)
  BY <1>1 DEF Attached, IInv
<1> QED  BY <1>1, <1>2 DEF OwnersInv, PairsOK

\* Time passes when nothing is on its way.
LEMMA TickKeepsOwners ==
  ASSUME NEW m \in Nat, IInv, OwnersInv(m), Tick
  PROVE  OwnersInv(m)'
<1>1. net = EmptyBag /\ net' = net /\ link' = link /\ status' = status
  BY DEF Tick
<1>2. BagToSet(net) = {} /\ BagToSet(net') = {}
  BY <1>1 DEF BagToSet, EmptyBag, SetToBag
<1>3. ASSUME NEW s \in Stations, NEW i \in RangeIds
      PROVE  LET r == range[s][i]
                 u == range'[s][i]
             IN  /\ u.state = r.state /\ u.probes = r.probes
                 /\ u.addr = r.addr /\ u.count = r.count
                 /\ r.state = "PROBE" => u.probeTimer = r.probeTimer - 1
                 /\ Timed(u, m)
  <2> DEFINE r == range[s][i]
             u == range'[s][i]
             q == [r EXCEPT !.probeTimer = @ - 1]
  <2>1. r \in RangeType /\ r.probeTimer # 0 /\ Timed(r, m)
    BY DEF IInv, RangesOK, OwnersInv, Tick
  <2>2. u = IF r.probeTimer > 0 THEN q ELSE r
    BY DEF Tick
  <2>3. /\ q.state = r.state /\ q.probes = r.probes /\ q.addr = r.addr /\ q.count = r.count
        /\ q.probeTimer = r.probeTimer - 1
    BY <2>1 DEF RangeType
  <2> HIDE DEF q, r, u
  <2>4. r.state = "PROBE" => /\ r.probeTimer \in Nat \ {0} /\ r.probes \in Nat \ {0}
                             /\ r.probeTimer < ProbeRetransmits * m
    BY <2>1 DEF Timed
  <2>5. /\ u.state = r.state /\ u.probes = r.probes
        /\ u.addr = r.addr /\ u.count = r.count
        /\ r.state = "PROBE" => u.probeTimer = r.probeTimer - 1
    BY <2>2, <2>3, <2>4
  <2>6. Timed(u, m)
    <3>1. ProbeRetransmits * m \in Nat
      BY ProbeAssumption
    <3> QED  BY <2>4, <2>5, <3>1 DEF Timed
  <2> QED  BY <2>5, <2>6 DEF r, u
<1>4. ASSUME NEW s \in Stations, NEW t \in Stations, s # t, Attached(s)', Attached(t)',
             NEW i \in RangeIds, NEW j \in RangeIds,
             Claimed(range'[s][i]), Claimed(range'[t][j]), Meet(range'[s][i], range'[t][j])
      PROVE  PairOK(m, {}, s, t, range'[s][i], range'[t][j])
  <2>1. Attached(s) /\ Attached(t)
    BY <1>1, <1>4 DEF Attached
  <2>2. Claimed(range[s][i]) /\ Claimed(range[t][j]) /\ Meet(range[s][i], range[t][j])
    BY <1>3, <1>4 DEF Claimed, Meet
  <2>3. PairOK(m, {}, s, t, range[s][i], range[t][j])
    BY <1>2, <1>4, <2>1, <2>2 DEF OwnersInv, PairsOK
  <2>4. Timed(range[s][i], m) /\ Timed(range[t][j], m)
    BY DEF OwnersInv
  <2> QED  BY <1>3, <2>3, <2>4, TickPair
<1>5. IsABag(net')
  BY <1>1 DEF OwnersInv
<1> QED  BY <1>2, <1>3, <1>4, <1>5 DEF OwnersInv, PairsOK

\* Initially no range is claimed.
LEMMA InitOwners ==
  ASSUME NEW m \in Nat, Init
  PROVE  OwnersInv(m)
BY DEF Init, OwnersInv, PairsOK, IsABag, EmptyBag, SetToBag, FreeRange, Claimed, Timed

\* Every step keeps the pairs when no frame may be lost.
LEMMA StepOwners ==
  ASSUME MaxLoss = 0, NEW m \in Nat, Regular(m), IInv, IInv', OwnersInv(m), [Next]_vars
  PROVE  OwnersInv(m)'
<1>1. ASSUME NEW f PROVE ~Lose(f)
  BY DEF Lose, IInv
<1>2. CASE UNCHANGED vars
  BY <1>2 DEF vars, OwnersInv, PairsOK, Attached
<1>3. CASE Next
  BY <1>1, <1>3, CreateKeepsOwners, DeleteKeepsOwners, TimerKeepsOwners, AnnounceKeepsOwners,
     DeliverKeepsOwners, LinkDownKeepsOwners, LinkUpKeepsOwners, StatusKeepsOwners,
     TickKeepsOwners
     DEF Next, HostStep, TimerStep, LinkStep
<1> QED  BY <1>2, <1>3

\* The pairs are in order: no two attached stations defend overlapping ranges.
LEMMA OwnersApart ==
  ASSUME NEW m, OwnersInv(m)
  PROVE  NoTwoOwners
BY DEF OwnersInv, PairsOK, PairOK, NoTwoOwners, Defends, Overlap, Meet, Claimed

\* What the protocol is for, for any number of stations and ranges, any pool,
\* any number of link failures and deletions: when frames are not lost, are
\* delivered within a probe interval, and no probe interval is as long as
\* ProbeRetransmits of the shortest, two attached stations never both hold an
\* address.
THEOREM AddressesAreOwned ==
  ASSUME MaxLoss = 0, NEW m \in Nat, Regular(m)
  PROVE  Spec => []NoTwoOwners
<1>1. Init => OwnersInv(m)
  BY InitOwners
<1>2. IInv /\ IInv' /\ OwnersInv(m) /\ [Next]_vars => OwnersInv(m)'
  BY StepOwners
<1>3. OwnersInv(m) => NoTwoOwners
  BY OwnersApart
<1> QED  BY <1>1, <1>2, <1>3, Invariance, PTL DEF Spec
=============================================================================
