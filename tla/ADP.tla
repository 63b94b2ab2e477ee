-------------------------------- MODULE ADP --------------------------------
(***************************************************************************)
(* Entity discovery: avdecc/adp.c, adp_milan.c, adp_ieee.c and the events  *)
(* avdecc.c feeds them.  Entities advertise themselves on their interfaces *)
(* with the Milan or the IEEE 1722.1 state machines; a controller station  *)
(* keeps on each port a list of the entities it has heard of and tells its *)
(* application.                                                            *)
(*                                                                         *)
(* Interface p of an entity and port p of the controller station are on    *)
(* one network.  Time passes in seconds: a frame arrives and a timer at    *)
(* zero expires before the next tick.  A timer counts down from the value  *)
(* it was started with, Off is a timer that does not run; the granularity  *)
(* of the timers, which only makes them later, is left out.  Of what an    *)
(* advertisement describes the grandmaster stands for all the fields that  *)
(* may change.                                                             *)
(***************************************************************************)
EXTENDS Integers, FiniteSets, Sequences

CONSTANTS
    Entities,       \* advertising entities, one to a station
    Ports,          \* interface indices
    Slots,          \* indices of the discovery list (max_entities_discovery)
    None,           \* the zero entity_id
    IndexMod,       \* the available_index wraps (2^32)
    Configs         \* the configurations of the instance, see Init

ASSUME ADPAssumption ==
    /\ None \notin Entities
    /\ Slots \subseteq Nat
    /\ \A S \in SUBSET Slots : S # {} => \E i \in S : \A j \in S : j <= i
    /\ IndexMod \in Nat \ {0}
    /\ \A c \in Configs :
        /\ c.milan \in BOOLEAN /\ c.ports \subseteq Ports /\ IsFiniteSet(c.ports)
        /\ c.entities \subseteq Entities /\ c.slots \subseteq Slots
        /\ c.delays \subseteq Nat /\ c.delays # {}
        /\ c.interval \in Nat \ {0} /\ c.valid \in Nat \ {0}
        /\ c.gms \subseteq Nat \ {0} /\ c.prompt \in BOOLEAN
        /\ c.tolerates \in Nat /\ c.faults \in Nat

\* The advertisements that may be lost and one more fit into the life of an
\* entry, as they do for Milan (2 * (5 s + 4 s) < 20 s) and for an IEEE
\* valid_time of 6 s or more, a default of 62 s (2 * (15 s + 12 s) < 62 s).
ASSUME ValidityAssumption ==
    \A c \in Configs :
        /\ c.tolerates <= 1
        /\ \A d \in c.delays : c.valid > (c.tolerates + 1) * (c.interval + d)

VARIABLES
    cfg,        \* the configuration
    ent,        \* the advertising entities
    disc,       \* the discovery list of each port of the controller station
    running,    \* the controller station has been started
    host,       \* the controller application is connected
    told,       \* what the application knows: grandmaster per port and entity
    chan,       \* advertisements on their way to each port
    asked,      \* discover messages on their way: <<entity, port>>
    missed,     \* frames missed since the last advertisement, see Missed
    lossless,   \* no advertisement was lost so far
    faults      \* faults that may still happen

vars == <<cfg, ent, disc, running, host, told, chan, asked, missed, lossless, faults>>

-----------------------------------------------------------------------------
(***************************************************************************)
(* Timers: timer_start leaves a running timer alone.                       *)
(***************************************************************************)
Off == -1

Start(t, ticks) == IF t = Off THEN ticks ELSE t

(***************************************************************************)
(* An entity: its process runs, all the channels it waits for are open     *)
(* (entity_ready), available_index, the IEEE entity state machine with its *)
(* two timers, and per interface the state machine, the Milan timers,      *)
(* operational_state and gptp_grandmaster_id.  boot counts its starts.     *)
(***************************************************************************)
NewInterface == [st |-> "NOT_STARTED", delay |-> Off, adv |-> Off, op |-> FALSE, gm |-> 0]

NewEntity(boot, on, ready) ==
    [on |-> on, ready |-> ready, boot |-> boot, index |-> 0, st |-> "NOT_STARTED",
     delay |-> Off, reannounce |-> Off, itf |-> [p \in Ports |-> NewInterface]]

NextIndex(i) == (i + 1) % IndexMod

(***************************************************************************)
(* adp_advertise_send_packet                                               *)
(***************************************************************************)
Packet(type, e, x, p) ==
    [type |-> type, entity |-> e, index |-> x.index, gm |-> x.itf[p].gm, boot |-> x.boot]

SendOn(ports, type, e, x) ==
    [p \in Ports |-> IF p \in ports THEN Append(chan[p], Packet(type, e, x, p))
                     ELSE chan[p]]

-----------------------------------------------------------------------------
(***************************************************************************)
(* adp_milan_advertise_sm on one interface, but for the events that send.  *)
(* d is the random delay.                                                  *)
(***************************************************************************)
MilanDelay(i, d) == [i EXCEPT !.st = "DELAY", !.adv = Off, !.delay = Start(@, d)]

\* Mutant: a link that fails during the delay only stops the timer.
MilanSmStuck(i, event, d) ==
    CASE i.st = "NOT_STARTED" /\ event = "START" ->
            IF i.op THEN MilanDelay(i, d) ELSE [i EXCEPT !.st = "DOWN"]
      [] i.st = "DOWN" /\ event = "LINK_UP" -> MilanDelay(i, d)
      [] i.st = "WAITING" /\ event \in {"DISCOVER", "TMR_ADVERTISE", "GM_CHANGE"} ->
            MilanDelay(i, d)
      [] i.st = "WAITING" /\ event = "LINK_DOWN" -> [i EXCEPT !.st = "DOWN", !.adv = Off]
      [] i.st = "DELAY" /\ event = "LINK_DOWN" -> [i EXCEPT !.delay = Off]
      [] OTHER -> i

MilanSm(i, event, d) ==
    CASE i.st = "NOT_STARTED" /\ event = "START" ->
            IF i.op THEN MilanDelay(i, d) ELSE [i EXCEPT !.st = "DOWN"]
      [] i.st = "DOWN" /\ event = "LINK_UP" -> MilanDelay(i, d)
      [] i.st = "WAITING" /\ event \in {"DISCOVER", "TMR_ADVERTISE", "GM_CHANGE"} ->
            MilanDelay(i, d)
      [] i.st \in {"WAITING", "DELAY"} /\ event = "LINK_DOWN" ->
            [i EXCEPT !.st = "DOWN", !.adv = Off, !.delay = Off]
      [] OTHER -> i

(***************************************************************************)
(* adp_ieee_advertise_entity_sm on ADVERTISE or the reannounce timeout,    *)
(* which waits for the random delay d.                                     *)
(***************************************************************************)
IeeeAdvertise(x, d) ==
    IF x.st # "WAITING" THEN x
    ELSE [x EXCEPT !.st = "DELAY", !.reannounce = Off, !.index = NextIndex(@),
                   !.delay = Start(@, d)]

(***************************************************************************)
(* BEGIN of the entity and of its interfaces.                              *)
(***************************************************************************)
IeeeBegin(x, d) ==
    IF x.st # "NOT_STARTED" THEN x
    ELSE [x EXCEPT !.st = "DELAY", !.index = 0, !.delay = Start(@, d),
                   !.itf = [p \in Ports |->
                      IF p \in cfg.ports
                      THEN [@[p] EXCEPT !.st = IF x.itf[p].op THEN "WAITING" ELSE "LINK_DOWN"]
                      ELSE @[p]]]

(***************************************************************************)
(* adp_ieee_advertise_interface_sm, run until it is stable.                *)
(***************************************************************************)
IeeeSm(x, p, event, d) ==
    CASE x.itf[p].st = "WAITING" /\ event \in {"DISCOVER", "GM_CHANGE"} ->
            IeeeAdvertise(x, d)
      [] x.itf[p].st = "WAITING" /\ event = "LINK_DOWN" ->
            [x EXCEPT !.itf[p].st = "LINK_DOWN"]
      [] x.itf[p].st = "LINK_DOWN" /\ event = "LINK_UP" ->
            [IeeeAdvertise(x, d) EXCEPT !.itf[p].st = "WAITING"]
      [] OTHER -> x

(***************************************************************************)
(* An event of interface p for an entity that is ready, and adp_update.    *)
(***************************************************************************)
InterfaceEvent(x, p, event, d) ==
    IF ~x.ready THEN x
    ELSE IF cfg.milan THEN [x EXCEPT !.itf[p] = MilanSm(@, event, d)]
    ELSE IeeeSm(x, p, event, d)

Updated(x) ==
    IF ~x.ready THEN {x}
    ELSE IF cfg.milan
    THEN {[x EXCEPT !.itf = [p \in Ports |->
              IF p \in cfg.ports THEN MilanSm(@[p], "START", ds[p]) ELSE @[p]]] :
          ds \in [cfg.ports -> cfg.delays]}
    ELSE {IeeeBegin(x, d) : d \in cfg.delays}

-----------------------------------------------------------------------------
(***************************************************************************)
(* The process of an entity starts; its configuration says whether it has  *)
(* to wait for an application.                                             *)
(***************************************************************************)
Boot(e) ==
    /\ ~ent[e].on
    /\ \E ready \in BOOLEAN : ent' = [ent EXCEPT ![e] = NewEntity(@.boot + 1, TRUE, ready)]
    /\ UNCHANGED <<cfg, disc, running, host, told, chan, asked, missed, lossless, faults>>

(***************************************************************************)
(* IPC_HEARTBEAT: an application connects.  Only the first one starts      *)
(* anything.                                                               *)
(***************************************************************************)
Heartbeat(e) ==
    /\ ent[e].on
    /\ \A p \in cfg.ports : ent[e].itf[p].st = "NOT_STARTED"
    /\ \E x \in Updated([ent[e] EXCEPT !.ready = TRUE]) : ent' = [ent EXCEPT ![e] = x]
    /\ UNCHANGED <<cfg, disc, running, host, told, chan, asked, missed, lossless, faults>>

(***************************************************************************)
(* gPTP indicates another grandmaster: the entity is updated, then the     *)
(* interface told.                                                         *)
(***************************************************************************)
GmStatus(e, p, g) ==
    /\ ent[e].on
    /\ g # ent[e].itf[p].gm
    /\ ent[e].itf[p].gm # 0 => faults > 0
    /\ faults' = IF ent[e].itf[p].gm = 0 THEN faults ELSE faults - 1
    /\ \E x \in Updated([ent[e] EXCEPT !.itf[p].gm = g]), d \in cfg.delays :
         ent' = [ent EXCEPT ![e] = InterfaceEvent(x, p, "GM_CHANGE", d)]
    /\ UNCHANGED <<cfg, disc, running, host, told, chan, asked, missed, lossless>>

(***************************************************************************)
(* The MAC service indicates the link.  missed counts the advertisements a *)
(* port has missed since the last one it received, and is Many when the    *)
(* entity itself was away.                                                 *)
(***************************************************************************)
Many == 2

Missed(e, ports) ==
    [missed EXCEPT ![e] = [p \in Ports |-> IF p \in ports THEN Many ELSE @[p]]]

PortUp(e, p) ==
    /\ ent[e].on /\ ~ent[e].itf[p].op
    /\ \E d \in cfg.delays :
         ent' = [ent EXCEPT ![e] =
                    [InterfaceEvent(ent[e], p, "LINK_UP", d) EXCEPT !.itf[p].op = TRUE]]
    /\ UNCHANGED <<cfg, disc, running, host, told, chan, asked, missed, lossless, faults>>

PortDown(e, p) ==
    /\ faults > 0
    /\ ent[e].on /\ ent[e].itf[p].op
    /\ \E d \in cfg.delays :
         ent' = [ent EXCEPT ![e] =
                    [InterfaceEvent(ent[e], p, "LINK_DOWN", d) EXCEPT !.itf[p].op = FALSE]]
    /\ asked' = asked \ {<<e, p>>}
    /\ missed' = Missed(e, {p})
    /\ faults' = faults - 1
    /\ UNCHANGED <<cfg, disc, running, host, told, chan, lossless>>

(***************************************************************************)
(* adp_discover_rcv                                                        *)
(***************************************************************************)
DiscoverRcv(e, p) ==
    /\ <<e, p>> \in asked
    /\ asked' = asked \ {<<e, p>>}
    /\ \E d \in cfg.delays :
         ent' = [ent EXCEPT ![e] = InterfaceEvent(@, p, "DISCOVER", d)]
    /\ UNCHANGED <<cfg, disc, running, host, told, chan, missed, lossless, faults>>

(***************************************************************************)
(* The Milan timers of an interface.  The index is incremented after the   *)
(* packet is made.                                                         *)
(***************************************************************************)
MilanDelayTimeout(e, p) ==
    LET i == ent[e].itf[p]
        x == [ent[e] EXCEPT !.itf[p].delay = Off]
    IN  /\ i.delay = 0
        /\ ent' = [ent EXCEPT ![e] =
                     [x EXCEPT !.index = NextIndex(@), !.itf[p].st = "WAITING",
                               !.itf[p].adv = Start(@, cfg.interval)]]
        /\ chan' = SendOn({p}, "AVAILABLE", e, x)
        /\ UNCHANGED <<cfg, disc, running, host, told, asked, missed, lossless, faults>>

MilanAdvertiseTimeout(e, p) ==
    /\ ent[e].itf[p].adv = 0
    /\ \E d \in cfg.delays :
         ent' = [ent EXCEPT ![e].itf[p] =
                    MilanSm([@ EXCEPT !.adv = Off], "TMR_ADVERTISE", d)]
    /\ UNCHANGED <<cfg, disc, running, host, told, chan, asked, missed, lossless, faults>>

(***************************************************************************)
(* The IEEE timers of an entity, which serve all its interfaces.           *)
(***************************************************************************)
WaitingPorts(x) == {p \in cfg.ports : x.itf[p].st = "WAITING"}

IeeeDelayTimeout(e) ==
    /\ ent[e].delay = 0
    /\ ent' = [ent EXCEPT ![e].delay = Off, ![e].st = "WAITING",
                          ![e].reannounce = Start(@, cfg.interval)]
    /\ chan' = SendOn(WaitingPorts(ent[e]), "AVAILABLE", e, ent[e])
    /\ UNCHANGED <<cfg, disc, running, host, told, asked, missed, lossless, faults>>

IeeeReannounceTimeout(e) ==
    /\ ent[e].reannounce = 0
    /\ \E d \in cfg.delays : ent' = [ent EXCEPT ![e] = IeeeAdvertise(@, d)]
    /\ UNCHANGED <<cfg, disc, running, host, told, chan, asked, missed, lossless, faults>>

(***************************************************************************)
(* The process ends.  adp_milan_advertise_exit takes leave on the          *)
(* interfaces that advertise; adp_ieee_advertise_exit only when it does    *)
(* not wait for its delay.  A crash takes no leave.                        *)
(***************************************************************************)
LeavingPorts(x) ==
    IF ~x.ready THEN {}
    ELSE IF cfg.milan THEN {p \in cfg.ports : x.itf[p].st \in {"WAITING", "DELAY"}}
    ELSE IF x.st = "WAITING" THEN WaitingPorts(x) ELSE {}

Stop(e, leaving) ==
    /\ faults > 0
    /\ ent[e].on
    /\ ent' = [ent EXCEPT ![e] = NewEntity(@.boot, FALSE, FALSE)]
    /\ chan' = SendOn(leaving, "DEPARTING", e, [ent[e] EXCEPT !.index = 0])
    /\ asked' = {a \in asked : a[1] # e}
    /\ missed' = Missed(e, cfg.ports)
    /\ faults' = faults - 1
    /\ UNCHANGED <<cfg, disc, running, host, told, lossless>>

Exit(e) == Stop(e, LeavingPorts(ent[e]))

Crash(e) == Stop(e, {})

-----------------------------------------------------------------------------
(***************************************************************************)
(* The discovery list of a port.  An entry has the information of the last *)
(* advertisement, the timer, and the boot of the entity it was made for.   *)
(***************************************************************************)
NoInfo == [entity |-> None, gm |-> 0, index |-> 0, boot |-> 0]

NoEntry == [used |-> FALSE, info |-> NoInfo, timeout |-> Off, since |-> 0]

Info(m) == [entity |-> m.entity, gm |-> m.gm, index |-> m.index, boot |-> m.boot]

(***************************************************************************)
(* adp_discovery_find and adp_discovery_get, which takes the last one.     *)
(***************************************************************************)
Found(l, e) == {i \in cfg.slots : l[i].used /\ l[i].info.entity = e}

Free(l) == {i \in cfg.slots : ~l[i].used}

LastFree(l) == CHOOSE i \in Free(l) : \A j \in Free(l) : j <= i

(***************************************************************************)
(* adp_discovery_put.                                                      *)
(***************************************************************************)
Put(l, i) == [l EXCEPT ![i] = NoEntry]

(***************************************************************************)
(* The application's view of a port: AVAILABLE and DEPARTING messages      *)
(* reach it when it is connected.                                          *)
(***************************************************************************)
Tell(t, e, gm) == IF host THEN [t EXCEPT ![e] = gm] ELSE t

(***************************************************************************)
(* adp_discovery_update_entity and the timer: the application is told when *)
(* the information differs from that of the entry.                         *)
(***************************************************************************)
\* Mutant: only a new entity is reported.
ChangedEntity(info, m) == info.entity # m.entity

Changed(info, m) == info.entity # m.entity \/ info.gm # m.gm

\* Mutant: the running timer is started without being stopped.
RefreshRunning(l, i, m, t) ==
    [list |-> [l EXCEPT ![i] = [used |-> TRUE, info |-> Info(m),
                                timeout |-> Start(@.timeout, cfg.valid),
                                since |-> IF l[i].used THEN @.since ELSE m.boot]],
     told |-> IF Changed(l[i].info, m) THEN Tell(t, m.entity, m.gm) ELSE t]

Refresh(l, i, m, t) ==
    [list |-> [l EXCEPT ![i] = [used |-> TRUE, info |-> Info(m), timeout |-> cfg.valid,
                                since |-> IF l[i].used THEN @.since ELSE m.boot]],
     told |-> IF Changed(l[i].info, m) THEN Tell(t, m.entity, m.gm) ELSE t]

(***************************************************************************)
(* An index that does not grow shows that the entity was power-cycled.     *)
(***************************************************************************)
\* Mutant: an equal index passes for a repetition.
PowerCycledLess(info, m) == m.index < info.index

PowerCycled(info, m) == m.index <= info.index

DiscoveryUpdate(l, m, t) ==
    LET found == Found(l, m.entity)
        i     == CHOOSE j \in found : TRUE
        gone  == Put(l, i)
    IN  IF found = {}
        THEN IF Free(l) = {} THEN [list |-> l, told |-> t]
             ELSE Refresh(l, LastFree(l), m, t)
        ELSE IF PowerCycled(l[i].info, m)
        THEN Refresh(gone, LastFree(gone), m, Tell(t, m.entity, None))
        ELSE Refresh(l, i, m, t)

DiscoveryRemove(l, m, t) ==
    LET found == Found(l, m.entity)
    IN  IF found = {} THEN [list |-> l, told |-> t]
        ELSE [list |-> Put(l, CHOOSE j \in found : TRUE), told |-> Tell(t, m.entity, None)]

(***************************************************************************)
(* adp_net_rx of the controller station.                                   *)
(***************************************************************************)
Receive(p) ==
    LET m == Head(chan[p])
        r == IF m.type = "AVAILABLE" THEN DiscoveryUpdate(disc[p], m, told[p])
             ELSE DiscoveryRemove(disc[p], m, told[p])
    IN  /\ chan[p] # <<>>
        /\ chan' = [chan EXCEPT ![p] = Tail(@)]
        /\ IF ~running THEN UNCHANGED <<disc, told, missed>>
           ELSE /\ disc' = [disc EXCEPT ![p] = r.list]
                /\ told' = [told EXCEPT ![p] = r.told]
                /\ missed' = IF m.type = "AVAILABLE"
                             THEN [missed EXCEPT ![m.entity][p] =
                                     IF ent[m.entity].boot = m.boot /\ ent[m.entity].itf[p].op
                                     THEN 0 ELSE @]
                             ELSE missed
        /\ UNCHANGED <<cfg, ent, running, host, asked, lossless, faults>>

(***************************************************************************)
(* adp_discovery_timeout                                                   *)
(***************************************************************************)
DiscoveryTimeout(p, i) ==
    /\ disc[p][i].timeout = 0
    /\ disc' = [disc EXCEPT ![p] = Put(@, i)]
    /\ told' = [told EXCEPT ![p] = Tell(@, disc[p][i].info.entity, None)]
    /\ UNCHANGED <<cfg, ent, running, host, chan, asked, missed, lossless, faults>>

(***************************************************************************)
(* adp_discovery_init: empty lists, and a DISCOVER on every port.  The     *)
(* station may stop again, and its application with it.                    *)
(***************************************************************************)
EmptyLists == [p \in Ports |-> [i \in Slots |-> NoEntry]]

NothingTold == [p \in Ports |-> [e \in Entities |-> None]]

DiscoveryInit ==
    /\ ~running
    /\ running' = TRUE
    /\ asked' = {a \in cfg.entities \X cfg.ports : ent[a[1]].on /\ ent[a[1]].itf[a[2]].op}
    /\ UNCHANGED <<cfg, ent, disc, host, told, chan, missed, lossless, faults>>

DiscoveryExit ==
    /\ faults > 0
    /\ running
    /\ running' = FALSE /\ host' = FALSE
    /\ disc' = EmptyLists /\ told' = NothingTold
    /\ faults' = faults - 1
    /\ UNCHANGED <<cfg, ent, chan, asked, missed, lossless>>

(***************************************************************************)
(* The application connects and asks for all entities: adp_ipc_rx answers  *)
(* with every entry in use.                                                *)
(***************************************************************************)
View(l) ==
    [e \in Entities |-> IF Found(l, e) = {} THEN None
                        ELSE l[CHOOSE i \in Found(l, e) : TRUE].info.gm]

Discover ==
    /\ running /\ ~host
    /\ host' = TRUE
    /\ told' = [p \in Ports |-> View(disc[p])]
    /\ UNCHANGED <<cfg, ent, disc, running, chan, asked, missed, lossless, faults>>

-----------------------------------------------------------------------------
(***************************************************************************)
(* The network loses an advertisement.                                     *)
(***************************************************************************)
Lose(p) ==
    /\ faults > 0
    /\ chan[p] # <<>>
    /\ chan' = [chan EXCEPT ![p] = Tail(@)]
    /\ missed' = [missed EXCEPT ![Head(chan[p]).entity][p] = IF @ < Many THEN @ + 1 ELSE @]
    /\ lossless' = FALSE
    /\ faults' = faults - 1
    /\ UNCHANGED <<cfg, ent, disc, running, host, told, asked>>

(***************************************************************************)
(* A second passes.  In a prompt configuration not before all processes    *)
(* that run have their links and applications.                             *)
(***************************************************************************)
Timers ==
    (UNION {{ent[e].delay, ent[e].reannounce} : e \in cfg.entities})
      \cup (UNION {{ent[e].itf[p].delay, ent[e].itf[p].adv} : e \in cfg.entities, p \in cfg.ports})
      \cup {disc[p][i].timeout : p \in cfg.ports, i \in cfg.slots}

Less(t) == IF t = Off THEN Off ELSE t - 1

Connected ==
    /\ running /\ host
    /\ \A e \in cfg.entities : ent[e].on =>
         \A p \in cfg.ports : ent[e].itf[p].op /\ ent[e].itf[p].st # "NOT_STARTED"

Tick ==
    /\ cfg.prompt => Connected
    /\ \A p \in cfg.ports : chan[p] = <<>>
    /\ asked = {} /\ 0 \notin Timers /\ Timers # {Off}
    /\ ent' = [e \in Entities |->
                 [ent[e] EXCEPT !.delay = Less(@), !.reannounce = Less(@),
                                !.itf = [p \in Ports |->
                                   [ent[e].itf[p] EXCEPT !.delay = Less(@), !.adv = Less(@)]]]]
    /\ disc' = [p \in Ports |-> [i \in Slots |-> [disc[p][i] EXCEPT !.timeout = Less(@)]]]
    /\ UNCHANGED <<cfg, running, host, told, chan, asked, missed, lossless, faults>>

-----------------------------------------------------------------------------
Init ==
    /\ cfg \in Configs
    /\ ent = [e \in Entities |-> NewEntity(0, FALSE, FALSE)]
    /\ disc = EmptyLists
    /\ running = FALSE /\ host = FALSE
    /\ told = NothingTold
    /\ chan = [p \in Ports |-> <<>>]
    /\ asked = {}
    /\ missed = [e \in Entities |-> [p \in Ports |-> Many]]
    /\ lossless = TRUE
    /\ faults = cfg.faults

Interface(e, p) ==
    \/ PortUp(e, p) \/ DiscoverRcv(e, p)
    \/ MilanDelayTimeout(e, p) \/ MilanAdvertiseTimeout(e, p)

Entity(e) ==
    Heartbeat(e) \/ IeeeDelayTimeout(e) \/ IeeeReannounceTimeout(e)

Connect == DiscoveryInit \/ Discover

Station ==
    \E p \in cfg.ports : Receive(p) \/ \E i \in cfg.slots : DiscoveryTimeout(p, i)

Fault ==
    \/ DiscoveryExit
    \/ \E e \in cfg.entities : Exit(e) \/ Crash(e) \/ \E p \in cfg.ports : PortDown(e, p)
    \/ \E p \in cfg.ports : Lose(p)

Next ==
    \/ \E e \in cfg.entities : Boot(e) \/ Entity(e)
    \/ \E e \in cfg.entities, p \in cfg.ports :
         Interface(e, p) \/ \E g \in cfg.gms : GmStatus(e, p, g)
    \/ Connect \/ Station \/ Fault \/ Tick

Spec == Init /\ [][Next]_vars

(***************************************************************************)
(* The event loops serve frames, indications and timers; applications      *)
(* connect; time passes.                                                   *)
(***************************************************************************)
Fairness ==
    /\ \A e \in Entities :
         /\ WF_vars(e \in cfg.entities /\ Entity(e))
         /\ \A p \in Ports : WF_vars(e \in cfg.entities /\ p \in cfg.ports /\ Interface(e, p))
    /\ WF_vars(Connect)
    /\ WF_vars(Station)
    /\ WF_vars(Tick)

FairSpec == Spec /\ Fairness

-----------------------------------------------------------------------------
(***************************************************************************)
(* Type correctness.                                                       *)
(***************************************************************************)
TimerValues == Nat \cup {Off}

Messages ==
    [type : {"AVAILABLE", "DEPARTING"}, entity : Entities, index : Nat, gm : Nat, boot : Nat]

InterfaceStates ==
    [st : {"NOT_STARTED", "DOWN", "LINK_DOWN", "DELAY", "WAITING"},
     delay : TimerValues, adv : TimerValues, op : BOOLEAN, gm : Nat]

EntityStates ==
    [on : BOOLEAN, ready : BOOLEAN, boot : Nat, index : Nat,
     st : {"NOT_STARTED", "DELAY", "WAITING"}, delay : TimerValues,
     reannounce : TimerValues, itf : [Ports -> InterfaceStates]]

Infos == [entity : Entities \cup {None}, gm : Nat, index : Nat, boot : Nat]

Entries == [used : BOOLEAN, info : Infos, timeout : TimerValues, since : Nat]

TypeOK ==
    /\ cfg \in Configs
    /\ ent \in [Entities -> EntityStates]
    /\ disc \in [Ports -> [Slots -> Entries]]
    /\ running \in BOOLEAN /\ host \in BOOLEAN
    /\ told \in [Ports -> [Entities -> Nat \cup {None}]]
    /\ chan \in [Ports -> Seq(Messages)]
    /\ asked \subseteq Entities \X Ports
    /\ missed \in [Entities -> [Ports -> 0 .. Many]]
    /\ lossless \in BOOLEAN
    /\ faults \in Nat

(***************************************************************************)
(* The application's view is the discovery list: it is told of every       *)
(* entity that appears, changes or goes, by a message of its own, a time-  *)
(* out or a restart, and no entity has two entries.                        *)
(***************************************************************************)
ControllerView ==
    \A p \in Ports :
        /\ \A e \in Entities : Cardinality(Found(disc[p], e)) <= 1
        /\ host => told[p] = View(disc[p])

(***************************************************************************)
(* An entry expires only when its entity was away or more advertisements   *)
(* were lost than the validity time allows for, whatever discover messages *)
(* and grandmaster changes did to the timers of the entity.                *)
(***************************************************************************)
ExpiresOnlyOnFault ==
    \A p \in Ports, i \in Slots :
        disc[p][i].timeout = 0 => missed[disc[p][i].info.entity][p] > cfg.tolerates

(***************************************************************************)
(* An entity that was started anew is not taken for the old one: without   *)
(* loss the available_index shows it to a controller of a Milan entity     *)
(* with one interface, whose entry is removed and made again.              *)
(***************************************************************************)
RebootNoticed ==
    cfg.milan /\ Cardinality(cfg.ports) = 1 /\ lossless =>
        \A p \in Ports, i \in Slots : disc[p][i].since = disc[p][i].info.boot

(***************************************************************************)
(* When the faults are over, the application's view becomes and stays what *)
(* is there: the entities of a port, if the list has room for them, with   *)
(* their grandmaster, and no others.                                       *)
(***************************************************************************)
Present(p) == {e \in cfg.entities : ent[e].on /\ ent[e].itf[p].op}

Tracks ==
    <>[](\A p \in cfg.ports :
            Cardinality(Present(p)) <= Cardinality(cfg.slots) =>
                \A e \in cfg.entities :
                    told[p][e] = IF e \in Present(p) THEN ent[e].itf[p].gm ELSE None)
=============================================================================
