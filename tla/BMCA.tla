-------------------------------- MODULE BMCA --------------------------------
(***************************************************************************)
(* Best master selection of gPTP: the announce state machines of           *)
(* gptp/port_fsm.c, the port role selection of gptp/site_fsm.c and the     *)
(* vector comparisons of gptp/bmca.c, for several time-aware systems       *)
(* joined by point-to-point links.                                         *)
(*                                                                         *)
(* A handler runs its state machines until they are stable: at rest every  *)
(* PortAnnounceInformation machine is in CURRENT or DISABLED, updtInfo is  *)
(* clear and all ports are selected, so an action is a whole handler and   *)
(* keeps infoIs, the vectors and the roles.  The neighbour is the only     *)
(* sender on a link: messageStepsRemoved is the steps of the vector it     *)
(* came with, and a message of the port's own master is always "superior". *)
(***************************************************************************)
EXTENDS Integers, FiniteSets, Sequences

CONSTANTS
    Systems,        \* clock identities, positive integers
    Ends,           \* ports: pairs <<system, port number>>
    Nets,           \* topologies: from an end to its peer, and the bound on
                    \* faults (links that change, announces lost, sync timeouts)
    Ranks,          \* priority1, clock quality and priority2 of each system
    NotCapable,     \* the rank of a system that is not grandmaster-capable
    MaxSteps,       \* announces with this many steps are not qualified (255)
    MaxPath         \* MAX_PTLV_ENTRIES

ASSUME BMCAAssumption ==
    /\ Systems \subseteq Nat \ {0} /\ Ends \subseteq Systems \X (Nat \ {0})
    /\ NotCapable \in Nat /\ Ranks \in [Systems -> 0 .. NotCapable]
    /\ MaxSteps \in Nat /\ MaxPath \in Nat \ {0}
    /\ \A n \in Nets : DOMAIN n.cable \subseteq Ends /\ n.faults \in Nat
    /\ \A n \in Nets : \A e \in DOMAIN n.cable :
         n.cable[e] \in DOMAIN n.cable /\ n.cable[n.cable[e]] = e

VARIABLES
    net,        \* the topology
    link,       \* ends whose link is physically up
    on,         \* ends that are operational, enabled and asCapable
    port,       \* per end: infoIs, port priority vector, role, receipt timer
    gm,         \* per system: gmPriority
    path,       \* per system: pathTrace, with unused entries 0
    told,       \* per system: the grandmaster last indicated to the host
    chan,       \* announce travelling to each end
    faults      \* faults that may still happen

vars == <<net, link, on, port, gm, path, told, chan, faults>>

-----------------------------------------------------------------------------
(***************************************************************************)
(* Identities and priority vectors are compared byte by byte, the first    *)
(* difference decides: a lower value is better.                            *)
(***************************************************************************)
LexLess(a, b) ==
    \E i \in DOMAIN a : a[i] < b[i] /\ \A j \in 1 .. i - 1 : a[j] = b[j]

SystemIdentity(s) == <<Ranks[s], s>>

Vector(root, steps, src, number) ==
    [root |-> root, steps |-> steps, src |-> src, number |-> number]

Flat(v) == v.root \o <<v.steps>> \o v.src \o <<v.number>>

SystemPriority(s) == Vector(SystemIdentity(s), 0, <<s, 0>>, 0)

(***************************************************************************)
(* compare_msg_priority_vector: better, or from the master of the port.    *)
(* Mutant: better only.                                                    *)
(***************************************************************************)
SuperiorOnly(m, pp) == LexLess(Flat(m), Flat(pp))

Superior(m, pp) == m.src = pp.src \/ LexLess(Flat(m), Flat(pp))

Unset == Vector(<<0, 0>>, 0, <<0, 0>>, 0)

NewPort == [info |-> "DISABLED", pp |-> Unset, role |-> "DISABLED", timed |-> FALSE]

NewPath(s) == [i \in 1 .. MaxPath |-> IF i = 1 THEN s ELSE 0]

EndsOf(s) == {e \in DOMAIN net : e[1] = s}

-----------------------------------------------------------------------------
(***************************************************************************)
(* updt_roles_tree, steps a to c: the grandmaster is this system or the    *)
(* one of the port that received the best root; the first port wins.       *)
(* Mutant: information that has aged is still considered.                  *)
(***************************************************************************)
CandidatesAged(s, ps) ==
    {e \in EndsOf(s) : /\ ps[e].info \in {"RECEIVED", "AGED"}
                       /\ ps[e].pp.root[2] \notin {0, s}
                       /\ LexLess(ps[e].pp.root, SystemIdentity(s))}

Candidates(s, ps) ==
    {e \in EndsOf(s) : /\ ps[e].info = "RECEIVED" /\ ps[e].pp.root[2] # s
                       /\ LexLess(ps[e].pp.root, SystemIdentity(s))}

BestPort(s, ps) ==
    CHOOSE e \in Candidates(s, ps) : \A f \in Candidates(s, ps) :
        \/ LexLess(ps[e].pp.root, ps[f].pp.root)
        \/ ps[e].pp.root = ps[f].pp.root /\ e[2] <= f[2]

GmPriority(s, ps) ==
    IF Candidates(s, ps) = {} THEN SystemPriority(s)
    ELSE LET e == BestPort(s, ps)
         IN  Vector(ps[e].pp.root, ps[e].pp.steps + 1, ps[e].pp.src, e[2])

(***************************************************************************)
(* Step f: the role of a port, and whether its information is replaced by  *)
(* the master vector.                                                      *)
(***************************************************************************)
Role(s, ps, g, e) ==
    CASE ps[e].info = "DISABLED" -> "DISABLED"
      [] ps[e].info \in {"AGED", "MINE"} -> "MASTER"
      [] OTHER -> IF ps[e].pp.root[2] = g.root[2] THEN "SLAVE"
                  ELSE IF LexLess(g.root, ps[e].pp.root) THEN "MASTER"
                  ELSE "PASSIVE"

MasterPriority(g, e) == Vector(g.root, g.steps, e, e[2])

Updated(ps, role, g, e) ==
    /\ role = "MASTER"
    /\ ps[e].info = "MINE" => ps[e].pp # MasterPriority(g, e)

(***************************************************************************)
(* Step g: a grandmaster is present when its priority1 is below 255.       *)
(***************************************************************************)
GmPresent(g) == g.root[1] < NotCapable

IsGrandmaster(s, g) == g.root[2] = s /\ GmPresent(g)

(***************************************************************************)
(* gptp_gm_indication: the host is told when the grandmaster changes.      *)
(* Mutant: only the first one is.                                          *)
(***************************************************************************)
IndicationOnce(s, g) ==
    IF GmPresent(g) /\ told[s].gm = 0
    THEN [gm |-> g.root[2], mine |-> IsGrandmaster(s, g)] ELSE told[s]

Indication(s, g) ==
    IF GmPresent(g) /\ told[s].gm # g.root[2]
    THEN [gm |-> g.root[2], mine |-> IsGrandmaster(s, g)] ELSE told[s]

(***************************************************************************)
(* md_set_announce: what a port sends.  The path trace is cut or filled to *)
(* the number of steps, whatever is in the array.                          *)
(***************************************************************************)
Announce(e, g, pt) ==
    [root |-> g.root, steps |-> g.steps, src |-> e,
     trace |-> SubSeq(pt, 1, IF g.steps + 1 > MaxPath THEN MaxPath ELSE g.steps + 1)]

NoAnnounce == [trace |-> <<>>]

(***************************************************************************)
(* The end e sends m: it reaches the peer while the link is up, and takes  *)
(* the place of an older announce still on its way.                        *)
(***************************************************************************)
Send(ch, senders, g, pt) ==
    [f \in DOMAIN ch |->
        IF net[f] \in senders /\ f \in link THEN Announce(net[f], g, pt) ELSE ch[f]]

(***************************************************************************)
(* port_state_selection_sm of system s over the ports ps: roles, then for  *)
(* every port the information machine (UPDATE sends at once), and the      *)
(* indication to the host.                                                 *)
(***************************************************************************)
SelectFor(s, ps, pt, ch, g) ==
    LET role(e) == Role(s, ps, g, e)
        upd     == {e \in EndsOf(s) : Updated(ps, role(e), g, e)}
        trace   == IF g.root[2] = s THEN NewPath(s) ELSE pt
    IN  /\ port' = [e \in DOMAIN ps |->
                       IF e \in upd
                       THEN [ps[e] EXCEPT !.role = role(e), !.info = "MINE",
                                          !.pp = MasterPriority(g, e)]
                       ELSE IF e[1] = s THEN [ps[e] EXCEPT !.role = role(e)]
                       ELSE ps[e]]
        /\ gm' = [gm EXCEPT ![s] = g]
        /\ path' = [path EXCEPT ![s] = trace]
        /\ told' = [told EXCEPT ![s] = Indication(s, g)]
        /\ chan' = Send(ch, upd, g, trace)

Select(s, ps, pt, ch) ==
    \E g \in {GmPriority(s, ps)} : SelectFor(s, ps, pt, ch, g)

-----------------------------------------------------------------------------
(***************************************************************************)
(* qualify_announce: not from this clock, not too many steps, this clock   *)
(* not in the path trace.  A qualified message of a slave port replaces    *)
(* the path trace of the system.                                           *)
(***************************************************************************)
Qualified(s, m) ==
    /\ m.src[1] # s
    /\ m.steps < MaxSteps
    /\ \A i \in DOMAIN m.trace : i < MaxPath => m.trace[i] # s

PathTrace(e, m) ==
    LET n == IF Len(m.trace) > MaxPath - 1 THEN MaxPath - 1 ELSE Len(m.trace)
    IN  IF port[e].role # "SLAVE" THEN path[e[1]]
        ELSE [i \in 1 .. MaxPath |->
                 IF i <= n THEN m.trace[i]
                 ELSE IF i = n + 1 THEN e[1] ELSE path[e[1]][i]]

(***************************************************************************)
(* An announce arrives: port_announce_rcv_sm, then the information machine *)
(* (SUPERIOR_MASTER_PORT or INFERIOR_MASTER_OR_OTHER).                     *)
(***************************************************************************)
Receive(e) ==
    LET m    == chan[e]
        v    == Vector(m.root, m.steps, m.src, e[2])
        gone == [chan EXCEPT ![e] = NoAnnounce]
    IN  /\ m # NoAnnounce
        /\ IF e \notin on \/ ~Qualified(e[1], m)
           THEN chan' = gone /\ UNCHANGED <<port, gm, path, told>>
           ELSE IF Superior(v, port[e].pp)
           THEN Select(e[1],
                       [port EXCEPT ![e].pp = v, ![e].info = "RECEIVED",
                                    ![e].timed = TRUE],
                       PathTrace(e, m), gone)
           ELSE /\ path' = [path EXCEPT ![e[1]] = PathTrace(e, m)]
                /\ chan' = gone
                /\ UNCHANGED <<port, gm, told>>
        /\ UNCHANGED <<net, link, on, faults>>

(***************************************************************************)
(* The information received on e expires (AGED) and is replaced.           *)
(***************************************************************************)
Aged(e, timed) ==
    Select(e[1], [port EXCEPT ![e].info = "AGED", ![e].timed = timed],
           path[e[1]], chan)

(***************************************************************************)
(* The announce receipt timer of e, three intervals of its master: it does *)
(* not expire while the neighbour sends announces that e accepts.          *)
(***************************************************************************)
Served(e) ==
    \/ chan[e] # NoAnnounce /\ Qualified(e[1], chan[e])
    \/ /\ e \in link /\ net[e] \in on /\ port[net[e]].role = "MASTER"
       /\ Qualified(e[1], Announce(net[e], gm[net[e][1]], path[net[e][1]]))

AnnounceTimeout(e) ==
    /\ port[e].timed /\ ~Served(e)
    /\ IF port[e].info = "RECEIVED" THEN Aged(e, FALSE)
       ELSE /\ port' = [port EXCEPT ![e].timed = FALSE]
            /\ UNCHANGED <<gm, path, told, chan>>
    /\ UNCHANGED <<net, link, on, faults>>

(***************************************************************************)
(* Sync messages stop while announces go on.                               *)
(***************************************************************************)
SyncTimeout(e) ==
    /\ faults > 0
    /\ port[e].info = "RECEIVED" /\ GmPresent(gm[e[1]])
    /\ Aged(e, port[e].timed)
    /\ faults' = faults - 1
    /\ UNCHANGED <<net, link, on>>

(***************************************************************************)
(* The announce interval of a master port elapses (TRANSMIT_PERIODIC).     *)
(***************************************************************************)
TransmitInterval(e) ==
    /\ port[e].role = "MASTER"
    /\ chan' = Send(chan, {e}, gm[e[1]], path[e[1]])
    /\ UNCHANGED <<net, link, on, port, gm, path, told, faults>>

(***************************************************************************)
(* A port becomes, or ceases to be, operational and asCapable.             *)
(***************************************************************************)
PortUp(e) ==
    /\ e \in link /\ e \notin on
    /\ on' = on \cup {e}
    /\ Aged(e, port[e].timed)
    /\ UNCHANGED <<net, link, faults>>

PortDown(e) ==
    /\ e \in on /\ e \notin link
    /\ on' = on \ {e}
    /\ Select(e[1], [port EXCEPT ![e].info = "DISABLED"], path[e[1]], chan)
    /\ UNCHANGED <<net, link, faults>>

(***************************************************************************)
(* The medium: a link fails or recovers, an announce is lost.              *)
(***************************************************************************)
LinkChange(e) ==
    /\ faults > 0
    /\ link' = IF e \in link THEN link \ {e, net[e]} ELSE link \cup {e, net[e]}
    /\ chan' = [chan EXCEPT ![e] = NoAnnounce, ![net[e]] = NoAnnounce]
    /\ faults' = faults - 1
    /\ UNCHANGED <<net, on, port, gm, path, told>>

Lose(e) ==
    /\ faults > 0
    /\ chan[e] # NoAnnounce
    /\ chan' = [chan EXCEPT ![e] = NoAnnounce]
    /\ faults' = faults - 1
    /\ UNCHANGED <<net, link, on, port, gm, path, told>>

-----------------------------------------------------------------------------
Init ==
    /\ \E n \in Nets : net = n.cable /\ faults = n.faults
    /\ link = DOMAIN net
    /\ on = {}
    /\ port = [e \in DOMAIN net |-> NewPort]
    /\ gm = [s \in Systems |-> Unset]
    /\ path = [s \in Systems |-> NewPath(s)]
    /\ told = [s \in Systems |-> [gm |-> 0, mine |-> FALSE]]
    /\ chan = [e \in DOMAIN net |-> NoAnnounce]

Protocol(e) ==
    Receive(e) \/ AnnounceTimeout(e) \/ TransmitInterval(e) \/ PortUp(e) \/ PortDown(e)

Next ==
    \E e \in DOMAIN net : Protocol(e) \/ SyncTimeout(e) \/ LinkChange(e) \/ Lose(e)

Spec == Init /\ [][Next]_vars

(***************************************************************************)
(* Frames are delivered, timers expire, the link and peer delay machines   *)
(* notice a change: each handler runs when its event is there.             *)
(***************************************************************************)
Fairness ==
    \A e \in Ends :
        /\ WF_vars(e \in DOMAIN net /\ Receive(e))
        /\ WF_vars(e \in DOMAIN net /\ AnnounceTimeout(e))
        /\ WF_vars(e \in DOMAIN net /\ TransmitInterval(e))
        /\ WF_vars(e \in DOMAIN net /\ (PortUp(e) \/ PortDown(e)))

FairSpec == Spec /\ Fairness

-----------------------------------------------------------------------------
(***************************************************************************)
(* Type correctness.                                                       *)
(***************************************************************************)
Roots == Nat \X Nat

Vectors == [root : Roots, steps : Nat, src : Nat \X Nat, number : Nat]

PortStates ==
    [info : {"DISABLED", "AGED", "MINE", "RECEIVED"}, pp : Vectors,
     role : {"DISABLED", "MASTER", "SLAVE", "PASSIVE"}, timed : BOOLEAN]

Announces == [root : Roots, steps : Nat, src : Nat \X Nat, trace : Seq(Nat)]

TypeOK ==
    /\ \E n \in Nets : net = n.cable
    /\ link \subseteq DOMAIN net /\ on \subseteq DOMAIN net
    /\ port \in [DOMAIN net -> PortStates]
    /\ gm \in [Systems -> Vectors]
    /\ path \in [Systems -> [1 .. MaxPath -> Nat]]
    /\ told \in [Systems -> [gm : Nat, mine : BOOLEAN]]
    /\ chan \in [DOMAIN net -> Announces \cup {NoAnnounce}]
    /\ faults \in Nat

(***************************************************************************)
(* A system has selected once one of its ports has been up.                *)
(***************************************************************************)
Selected(s) == gm[s] # Unset

(***************************************************************************)
(* The clock slave role of port 0 (step h) agrees with the grandmaster of  *)
(* step i: a system has a slave port exactly when its grandmaster is       *)
(* another system, whatever expired, failed or arrived last.               *)
(***************************************************************************)
SlaveFollowsGm ==
    \A s \in Systems : Selected(s) =>
        (gm[s].root[2] # s <=> \E e \in EndsOf(s) : port[e].role = "SLAVE")

(***************************************************************************)
(* gptp_gm_indication sends only changes: the grandmaster last indicated   *)
(* to the host is the selected one while there is one, and the host knows  *)
(* whether it is this system.                                              *)
(***************************************************************************)
HostTold ==
    \A s \in Systems : Selected(s) /\ GmPresent(gm[s]) =>
        told[s] = [gm |-> gm[s].root[2], mine |-> IsGrandmaster(s, gm[s])]

(***************************************************************************)
(* Systems reachable from s over links that are up.                        *)
(***************************************************************************)
Near(S) == S \cup {net[e][1] : e \in {f \in link : f[1] \in S}}

Reach(s) ==
    LET far[n \in 0 .. Cardinality(Systems)] ==
            IF n = 0 THEN {s} ELSE Near(far[n - 1])
    IN  far[Cardinality(Systems)]

Best(S) == CHOOSE s \in S : \A t \in S \ {s} : LexLess(SystemIdentity(s), SystemIdentity(t))

(***************************************************************************)
(* Once links stop changing, all systems that can reach each other settle  *)
(* on the best of them, however long announces of a lost grandmaster were  *)
(* still travelling; one end of every link is the master, and the path     *)
(* trace leads from the grandmaster to the system.                         *)
(***************************************************************************)
Settled ==
    /\ \A s \in Systems : Reach(s) # {s} => gm[s].root[2] = Best(Reach(s))
    /\ \A e \in link : port[e].role = "MASTER" <=> port[net[e]].role # "MASTER"
    /\ \A s \in Systems : Reach(s) # {s} =>
          path[s][1] = gm[s].root[2] /\ path[s][gm[s].steps + 1] = s

Converges == <>[]Settled

(***************************************************************************)
(* Only the port the grandmaster vector derives from is a slave port.      *)
(***************************************************************************)
OneSlave ==
    \A e, f \in DOMAIN net :
        e[1] = f[1] /\ port[e].role = "SLAVE" /\ port[f].role = "SLAVE" => e = f
=============================================================================
