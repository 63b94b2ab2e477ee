-------------------------------- MODULE MSRP --------------------------------
(***************************************************************************)
(* Stream reservation: srp/msrp.c, srp/msrp_map.c and the bandwidth        *)
(* accounting of common/fqtss.c, on top of the MRP attributes of the ports *)
(* and of MVRP.                                                            *)
(*                                                                         *)
(* Neighbours register talker and listener attributes of a stream on the   *)
(* ports; the application declares streams of its own.  After every change *)
(* the map propagates: talkers to the ports where none is registered,      *)
(* merged listeners to the ports where a talker is.  Bandwidth and a       *)
(* forwarding entry are held on the ports where the talker is advertised   *)
(* and a listener is ready.                                                *)
(*                                                                         *)
(* One first value (TSpec, destination, VLAN) per stream; failure codes    *)
(* are dropped; every stream has an SR class priority.  The registrars are *)
(* those of module MRP: here an indication comes at any time.              *)
(***************************************************************************)
EXTENDS MVRP, Sequences

CONSTANTS
    Streams,        \* stream identifiers
    Vid,            \* the VLAN of each stream
    Slope,          \* the idle slope of each stream (srp_tspec_to_idle_slope)
    Limit,          \* 75 % of the port rate
    MaxStreams,     \* CFG_MSRP_MAX_STREAMS
    Configs,        \* the configurations of the instance, see Init
    Prompt,         \* TRUE: leaves are transmitted before the next event
    DisableUp       \* TRUE: a port may be disabled while its link is up

\* The attributes of a stream: msrp_attribute_type and the listener substates.
TalkerTypes == {"ADV", "FAIL"}
ListenerTypes == {"READY", "ASK", "RF"}

ASSUME MSRPAssumption ==
    /\ Vid \in [Streams -> VIDs]
    /\ Slope \in [Streams -> Nat]
    /\ Limit \in Nat /\ MaxStreams \in Nat
    /\ Prompt \in BOOLEAN /\ DisableUp \in BOOLEAN
    /\ IsFiniteSet(Streams)
    /\ \A c \in Configs :
        /\ c.bridge \in BOOLEAN /\ c.sendLeave \in BOOLEAN
        /\ IsFiniteSet(c.ports) /\ c.ports \subseteq Ports
        /\ c.ports = 1 .. Cardinality(c.ports) /\ c.up \subseteq c.ports
        /\ c.tTypes \subseteq TalkerTypes /\ c.lTypes \subseteq ListenerTypes

(***************************************************************************)
(* A stack that replaces declarations in place (without sendLeave) frees   *)
(* the old attribute even if the neighbour has registered it, while the    *)
(* stream entry keeps it in its list; this module does not describe what   *)
(* follows.  It takes a neighbour that is talker and listener of one       *)
(* stream on one port, which the configurations exclude.                   *)
(***************************************************************************)
Separate(c) == c.sendLeave \/ c.talkers \cap c.listeners = {}

ASSUME SeparateAssumption == \A c \in Configs : Separate(c)

VARIABLES
    enabled,    \* ports MSRP is enabled on
    domains,    \* the SR class domains registered on each port
    boundary,   \* srp_domain_boundary_port of each port
    streams,    \* the stream entries
    order,      \* the stream list of the map, first element first
    bw,         \* fqtss: operational idle slope of each port
    mad,        \* the MRP applicant of each port: attributes declared, leaving
    fdbFull,    \* the switch has no room for another forwarding entry
    told,       \* the last status the application received for each stream, port
    changes     \* bounded changes made so far

vars == <<cfg, up, vlans, table, enabled, domains, boundary, streams, order,
          bw, mad, fdbFull, told, changes>>

-----------------------------------------------------------------------------
(***************************************************************************)
(* Stream entries.  A port holds the lists of registered attributes; the   *)
(* registered bits and the merged types follow from the lists.  "NONE" in  *)
(* decT and decL is a cleared declared bit.                                *)
(***************************************************************************)
NoStream ==
    [tReg |-> [p \in Ports |-> {}], lReg |-> [p \in Ports |-> {}],
     decT |-> [p \in Ports |-> "NONE"], decL |-> [p \in Ports |-> "NONE"],
     userT |-> {}, userL |-> {}, fqtss |-> {}, fdb |-> {}, vlan |-> FALSE]

TalkerPorts(r) == {p \in Ports : r.tReg[p] # {}}
ListenerPorts(r) == {p \in Ports : r.lReg[p] # {}}

(***************************************************************************)
(* msrp_talker_registration_merge: a failed attribute wins.                *)
(***************************************************************************)
TalkerType(r, p) ==
    IF "FAIL" \in r.tReg[p] THEN "FAIL"
    ELSE IF "ADV" \in r.tReg[p] THEN "ADV" ELSE "NONE"

(***************************************************************************)
(* msrp_listener_registration_merge on the attributes of one port.         *)
(***************************************************************************)
ListenerType(r, p) ==
    IF "RF" \in r.lReg[p] THEN "RF"
    ELSE IF "ASK" \in r.lReg[p]
         THEN IF "READY" \in r.lReg[p] THEN "RF" ELSE "ASK"
    ELSE IF "READY" \in r.lReg[p] THEN "READY" ELSE "NONE"

ListenerReady(r, p) == ListenerType(r, p) \in {"READY", "RF"}

(***************************************************************************)
(* map_talker_declaration_type: two registrations of a stream are an       *)
(* error, no registration means that the application is the talker.        *)
(***************************************************************************)
MapTalkerType(r) ==
    IF Cardinality(TalkerPorts(r)) >= 2 THEN "FAIL"
    ELSE IF TalkerPorts(r) = {} THEN "ADV"
    ELSE TalkerType(r, CHOOSE p \in TalkerPorts(r) : TRUE)

(***************************************************************************)
(* map_listener_registration_merge: the loop over the other ports, in      *)
(* order, starting from the application's own declaration.                 *)
(***************************************************************************)
\* Mutant: a ready listener hides one that asks and failed.
MergeFirst(acc, t) == IF acc = "NONE" THEN t ELSE acc

MergeStep(acc, t) ==
    CASE acc = "NONE" -> t
      [] acc = "RF" \/ t = "NONE" -> acc
      [] acc = "ASK" -> IF t \in {"READY", "RF"} THEN "RF" ELSE acc
      [] OTHER -> IF t \in {"RF", "ASK"} THEN "RF" ELSE acc

\* The ports of a stack are numbered from 1.
LastPort == Cardinality(cfg.ports)

MapListenerMerge(r, p) ==
    LET merged[i \in Nat] ==
            IF i = 0 THEN IF r.userL # {} THEN "READY" ELSE "NONE"
            ELSE IF i = p THEN merged[i - 1]
            ELSE MergeStep(merged[i - 1], ListenerType(r, i))
    IN  merged[LastPort]

-----------------------------------------------------------------------------
(***************************************************************************)
(* The MRP applicant of a port, as its state matters here: an attribute is *)
(* declared, or leaving until the leave was transmitted.  A disabled       *)
(* application refuses every request.  mrp_mad_join_immediate also refuses *)
(* an attribute that is already allocated: declared, leaving, or           *)
(* registered by the neighbour.  mrp_process_attribute_free_immediate      *)
(* frees the attribute whatever its registrar: what it frees here is not   *)
(* registered (SeparateAssumption; lemma FreesUnregistered).               *)
(***************************************************************************)
NoMad == [dec |-> {}, lv |-> {}]

LeaveRequest(m, on, a) ==
    IF on THEN [dec |-> m.dec \ {a}, lv |-> m.lv \cup {a}] ELSE m

JoinRequest(m, a) == [dec |-> m.dec \cup {a}, lv |-> m.lv \ {a}]

FreeImmediate(m, a) == [dec |-> m.dec \ {a}, lv |-> m.lv \ {a}]

(***************************************************************************)
(* The tail of talker_update_declaration and listener_update_declaration:  *)
(* replace declaration old of stream s by new, m being the applicant of    *)
(* the port, on whether it is enabled and reg the attributes the neighbour *)
(* registered.  Returns the declaration that results and the applicant.    *)
(***************************************************************************)
ChangeDeclaration(m, on, s, dir, old, new, reg) ==
    LET a == <<s, dir, old>>
        b == <<s, dir, new>>
        f == FreeImmediate(m, a)
        join(n) == IF on THEN [dec |-> new, mad |-> JoinRequest(n, b)]
                   ELSE [dec |-> "NONE", mad |-> n]
    IN  IF old = new THEN [dec |-> old, mad |-> m]
        ELSE IF old = "NONE" THEN join(m)
        ELSE IF cfg.sendLeave THEN join(LeaveRequest(m, on, a))
        ELSE IF b \in f.dec \cup f.lv \/ new \in reg
             THEN [dec |-> "NONE", mad |-> f]
        ELSE join(f)

\* Mutant: the declared bit is cleared, MRP is not told.
RemoveBitOnly(m, on, s, dir, old) == m

RemoveDeclaration(m, on, s, dir, old) ==
    IF old = "NONE" THEN m ELSE LeaveRequest(m, on, <<s, dir, old>>)

-----------------------------------------------------------------------------
(***************************************************************************)
(* Bandwidth: common_fqtss_stream_add admits a stream within the limit,    *)
(* common_fqtss_stream_remove saturates at zero.                           *)
(***************************************************************************)
Admits(b, s) == b + Slope[s] <= Limit

BwAdd(b, s) == b + Slope[s]

BwRemove(b, s) == IF b < Slope[s] THEN 0 ELSE b - Slope[s]

(***************************************************************************)
(* What stream s holds on one port: its declaration, the bandwidth and the *)
(* forwarding entry, with the port's counters.                             *)
(***************************************************************************)
Held(x, s, p) ==
    [dec |-> x.st[s].decT[p], fq |-> p \in x.st[s].fqtss,
     fdb |-> p \in x.st[s].fdb, bw |-> x.bw[p], mad |-> x.mad[p]]

\* Mutant: the forwarding entry stays behind.
ReleaseBandwidth(h, s) ==
    [h EXCEPT !.fq = FALSE, !.bw = IF h.fq THEN BwRemove(@, s) ELSE @]

Release(h, s) ==
    [h EXCEPT !.fdb = @ /\ ~cfg.bridge, !.fq = FALSE,
              !.bw = IF h.fq THEN BwRemove(@, s) ELSE @]

(***************************************************************************)
(* talker_update_declaration on port p.  A boundary port and a refused     *)
(* reservation turn an advertise into a failed; after a refusal the        *)
(* resources are released only when the talker was declared before.        *)
(***************************************************************************)
UpdateTalkerPort(x, s, p, type) ==
    LET r     == x.st[s]
        h     == Held(x, s, p)
        type1 == IF type = "ADV" /\ x.bnd[p] THEN "FAIL" ELSE type
        want  == type1 = "ADV" /\ ListenerReady(r, p)
        added == [h EXCEPT !.fq = TRUE, !.bw = IF h.fq THEN @ ELSE BwAdd(@, s)]
        fqOk  == h.fq \/ Admits(h.bw, s)
        fdbOk == ~cfg.bridge \/ h.fdb \/ ~fdbFull
        free(g) == IF h.dec # "NONE" THEN Release(g, s) ELSE g
        res   == CASE ~want -> [type |-> type1, h |-> free(h)]
                   [] want /\ ~fqOk -> [type |-> "FAIL", h |-> free(h)]
                   [] want /\ fqOk /\ ~fdbOk -> [type |-> "FAIL", h |-> free(added)]
                   [] OTHER -> [type |-> "ADV",
                                h |-> [added EXCEPT !.fdb = cfg.bridge]]
        d     == ChangeDeclaration(h.mad, p \in x.en, s, "T", h.dec, res.type, r.tReg[p])
    IN  [res.h EXCEPT !.dec = d.dec, !.mad = d.mad]

\* Mutant: the reservation is forgotten, its bandwidth is not given back.
RemoveTalkerLeaking(x, s, p) ==
    LET h == Held(x, s, p)
    IN  IF h.dec = "NONE" THEN h
        ELSE [h EXCEPT !.dec = "NONE", !.fq = FALSE, !.fdb = FALSE,
                       !.mad = RemoveDeclaration(@, p \in x.en, s, "T", h.dec)]

RemoveTalkerPort(x, s, p) ==
    LET h == Held(x, s, p)
    IN  IF h.dec = "NONE" THEN h
        ELSE [Release(h, s) EXCEPT !.dec = "NONE",
                                   !.mad = RemoveDeclaration(@, p \in x.en, s, "T", h.dec)]

(***************************************************************************)
(* msrp_map_update_talker_stream: the loop over the ports, which touch     *)
(* disjoint state.                                                         *)
(***************************************************************************)
DeclaresTalker(x, s, p) ==
    LET r == x.st[s]
    IN  /\ TalkerPorts(r) \cap x.up # {} \/ r.userT # {}
        /\ p \notin TalkerPorts(r) /\ p \in x.up

TalkerPort(x, s, p) ==
    IF p \notin cfg.ports THEN Held(x, s, p)
    ELSE IF DeclaresTalker(x, s, p) THEN UpdateTalkerPort(x, s, p, MapTalkerType(x.st[s]))
    ELSE RemoveTalkerPort(x, s, p)

SetTalkers(x, s, h) ==
    LET r == [x.st[s] EXCEPT !.decT  = [p \in Ports |-> h[p].dec],
                             !.fqtss = {p \in Ports : h[p].fq},
                             !.fdb   = {p \in Ports : h[p].fdb}]
    IN  [x EXCEPT !.st[s] = r, !.bw = [p \in Ports |-> h[p].bw],
                  !.mad = [p \in Ports |-> h[p].mad]]

MapUpdateTalker(x, s) ==
    SetTalkers(x, s, [p \in Ports |-> TalkerPort(x, s, p)])

-----------------------------------------------------------------------------
(***************************************************************************)
(* msrp_register_vlan and msrp_deregister_vlan: a stream holds at most one *)
(* user of its VLAN.  w says whether it does, and the VLANs.               *)
(***************************************************************************)
\* Mutant: every declaration of a listener adds a user.
StreamVlanAgain(w, s, p, on) ==
    IF on /\ CanCreate(w.vlans, Vid[s])
    THEN [has |-> TRUE, vlans |-> RegisterMember(w.vlans, Vid[s], p, up)]
    ELSE IF ~on /\ w.has
    THEN [has |-> FALSE, vlans |-> DeregisterMember(w.vlans, Vid[s], p, up)]
    ELSE w

StreamVlan(w, s, p, on) ==
    IF on /\ ~w.has /\ CanCreate(w.vlans, Vid[s])
    THEN [has |-> TRUE, vlans |-> RegisterMember(w.vlans, Vid[s], p, up)]
    ELSE IF ~on /\ w.has
    THEN [has |-> FALSE, vlans |-> DeregisterMember(w.vlans, Vid[s], p, up)]
    ELSE w

VlanOf(x, s) == [has |-> x.st[s].vlan, vlans |-> x.vlans]

SetVlan(x, s, w) == [x EXCEPT !.st[s].vlan = w.has, !.vlans = w.vlans]

EndpointVlan(x, s, p, on) ==
    IF cfg.bridge THEN x ELSE SetVlan(x, s, StreamVlan(VlanOf(x, s), s, p, on))

(***************************************************************************)
(* listener_update_declaration and listener_remove_declaration on port p:  *)
(* the declaration, the applicant and what an endpoint does to the VLAN.   *)
(* Without an advertised talker on the port only Asking Failed may be      *)
(* declared.  An endpoint joins the VLAN before it declares Ready.         *)
(***************************************************************************)
UpdateListenerPort(x, s, p) ==
    LET r    == x.st[s]
        type == IF TalkerType(r, p) # "ADV" THEN "ASK" ELSE MapListenerMerge(r, p)
        d    == ChangeDeclaration(x.mad[p], p \in x.en, s, "L", r.decL[p], type, r.lReg[p])
    IN  [dec |-> d.dec, mad |-> d.mad, vlan |-> IF type # "ASK" THEN "join" ELSE "leave"]

KeepListenerPort(x, s, p) ==
    [dec |-> x.st[s].decL[p], mad |-> x.mad[p], vlan |-> "keep"]

RemoveListenerPort(x, s, p) ==
    LET old == x.st[s].decL[p]
    IN  IF old = "NONE" THEN KeepListenerPort(x, s, p)
        ELSE [dec |-> "NONE", vlan |-> "leave",
              mad |-> RemoveDeclaration(x.mad[p], p \in x.en, s, "L", old)]

(***************************************************************************)
(* msrp_map_update_listener_stream: the loop over the ports.  What the     *)
(* ports share is the VLAN of an endpoint.                                 *)
(***************************************************************************)
DeclaresListener(x, s, p) ==
    LET r == x.st[s]
    IN  /\ ListenerPorts(r) \cap x.up # {} \/ r.userL # {}
        /\ \/ p \in TalkerPorts(r) /\ ListenerPorts(r) \ {p} # {}
           \/ p \in r.userL
        /\ p \in x.up

ListenerPort(x, s, p) ==
    IF p \notin cfg.ports THEN KeepListenerPort(x, s, p)
    ELSE IF DeclaresListener(x, s, p) THEN UpdateListenerPort(x, s, p)
    ELSE RemoveListenerPort(x, s, p)

ActOnVlan(w, s, p, act) ==
    IF act = "keep" THEN w ELSE StreamVlan(w, s, p, act = "join")

ListenerVlan(x, s) ==
    LET walked[i \in Nat] ==
            IF i = 0 THEN VlanOf(x, s)
            ELSE ActOnVlan(walked[i - 1], s, i, ListenerPort(x, s, i).vlan)
    IN  walked[LastPort]

SetListeners(x, s, h, w) ==
    LET r == [x.st[s] EXCEPT !.decL = [p \in Ports |-> h[p].dec], !.vlan = w.has]
    IN  [x EXCEPT !.st[s] = r, !.mad = [p \in Ports |-> h[p].mad], !.vlans = w.vlans]

MapUpdateListener(x, s) ==
    SetListeners(x, s, [p \in Ports |-> ListenerPort(x, s, p)],
                 IF cfg.bridge THEN VlanOf(x, s) ELSE ListenerVlan(x, s))

(***************************************************************************)
(* msrp_map_update_stream: both directions, then an entry nothing is       *)
(* registered, declared or requested for is freed.                         *)
(***************************************************************************)
Idle(r) ==
    /\ TalkerPorts(r) = {} /\ ListenerPorts(r) = {}
    /\ r.userT = {} /\ r.userL = {}
    /\ \A p \in Ports : r.decT[p] = "NONE" /\ r.decL[p] = "NONE"

Unlink(o, s) ==
    LET i == CHOOSE i \in DOMAIN o : o[i] = s
    IN  IF s \notin {o[j] : j \in DOMAIN o} THEN o
        ELSE SubSeq(o, 1, i - 1) \o SubSeq(o, i + 1, Len(o))

FreeIdle(x, s) ==
    IF Idle(x.st[s])
    THEN [x EXCEPT !.st[s] = NoStream, !.order = Unlink(x.order, s)]
    ELSE x

MapUpdateStream(x, s) == FreeIdle(MapUpdateListener(MapUpdateTalker(x, s), s), s)

(***************************************************************************)
(* msrp_map_update walks the stream list.                                  *)
(***************************************************************************)
MapUpdate(x) ==
    LET walked[i \in Nat] ==
            IF i \in DOMAIN x.order THEN MapUpdateStream(walked[i - 1], x.order[i]) ELSE x
    IN  walked[Len(x.order)]

-----------------------------------------------------------------------------
(***************************************************************************)
(* The handlers compute on a context: the stream entries, their list, the  *)
(* ports' state and counters, the applicants and the VLANs.                *)
(***************************************************************************)
Ctx == [st |-> streams, order |-> order, bw |-> bw, mad |-> mad, vlans |-> vlans,
        up |-> up, en |-> enabled, bnd |-> boundary]

Commit(x) ==
    /\ streams' = x.st /\ order' = x.order /\ bw' = x.bw /\ mad' = x.mad
    /\ up' = x.up /\ enabled' = x.en /\ boundary' = x.bnd
    /\ vlans' = x.vlans
    /\ table' = TableFree(table, vlans, x.vlans)

Exists(s) == \E i \in DOMAIN order : order[i] = s

(***************************************************************************)
(* msrp_create_stream: new entries go to the head of the list.             *)
(***************************************************************************)
CanCreateStream(s) == Exists(s) \/ Len(order) < MaxStreams

Create(x, s) == IF Exists(s) THEN x ELSE [x EXCEPT !.order = <<s>> \o @]

(***************************************************************************)
(* The status sent to the application.  An endpoint sends it only for what *)
(* the application declared.                                               *)
(***************************************************************************)
TellListener(t, r, s, p) ==
    IF cfg.bridge \/ p \in r.userL THEN [t EXCEPT ![s][p].talker = TalkerType(r, p)]
    ELSE t

TellTalker(t, r, s, p) ==
    IF cfg.bridge \/ p \in r.userT THEN [t EXCEPT ![s][p].listener = ListenerType(r, p)]
    ELSE t

(***************************************************************************)
(* A merge tells the application when the merged type changed, and always  *)
(* when the last attribute is gone.                                        *)
(***************************************************************************)
\* Mutant: only the first and the last attribute are reported.
MergeTalkerEdges(t, old, r, s, p) ==
    IF r.tReg[p] = {} \/ old.tReg[p] = {} THEN TellListener(t, r, s, p) ELSE t

MergeTalker(t, old, r, s, p) ==
    IF r.tReg[p] = {} \/ TalkerType(r, p) # TalkerType(old, p)
    THEN TellListener(t, r, s, p) ELSE t

MergeListener(t, old, r, s, p) ==
    IF r.lReg[p] = {} \/ ListenerType(r, p) # ListenerType(old, p)
    THEN TellTalker(t, r, s, p) ELSE t

(***************************************************************************)
(* With Prompt the environment waits until the pending leaves were sent.   *)
(***************************************************************************)
Quiet == Prompt => \A p \in Ports : mad[p].lv = {}

Receives(p) == p \in up /\ p \in enabled /\ Quiet

unchangedRest == UNCHANGED <<domains, fdbFull, changes, cfg>>

-----------------------------------------------------------------------------
(***************************************************************************)
(* MAD join and leave indications.  Without new the rival attributes of    *)
(* the stream on the port leave at once (msrp_stream_leave_immediate); an  *)
(* attribute declared new leaves them to the leave timer.                  *)
(***************************************************************************)
TalkerJoin(p, s, t, new) ==
    LET old == streams[s]
        r   == [old EXCEPT !.tReg[p] = IF new THEN @ \cup {t} ELSE {t}]
    IN  /\ Receives(p) /\ <<s, p>> \in cfg.talkers
        /\ new \/ t \notin old.tReg[p]
        /\ CanCreateStream(s)
        /\ Commit(MapUpdateStream([Create(Ctx, s) EXCEPT !.st[s] = r], s))
        /\ told' = MergeTalker(told, old, r, s, p)
        /\ unchangedRest

TalkerLeave(p, s, t) ==
    LET old == streams[s]
        r   == [old EXCEPT !.tReg[p] = @ \ {t}]
    IN  /\ Quiet /\ t \in old.tReg[p]
        /\ Commit(MapUpdateStream([Ctx EXCEPT !.st[s] = r], s))
        /\ told' = MergeTalker(told, old, r, s, p)
        /\ unchangedRest

ListenerJoin(p, s, t, new) ==
    LET old == streams[s]
        r   == [old EXCEPT !.lReg[p] = IF new THEN @ \cup {t} ELSE {t}]
    IN  /\ Receives(p) /\ <<s, p>> \in cfg.listeners
        /\ new \/ t \notin old.lReg[p]
        /\ CanCreateStream(s)
        /\ Commit(MapUpdateStream([Create(Ctx, s) EXCEPT !.st[s] = r], s))
        /\ told' = MergeListener(told, old, r, s, p)
        /\ unchangedRest

ListenerLeave(p, s, t) ==
    LET old == streams[s]
        r   == [old EXCEPT !.lReg[p] = @ \ {t}]
    IN  /\ Quiet /\ t \in old.lReg[p]
        /\ Commit(MapUpdateStream([Ctx EXCEPT !.st[s] = r], s))
        /\ told' = MergeListener(told, old, r, s, p)
        /\ unchangedRest

(***************************************************************************)
(* The application's requests.                                             *)
(***************************************************************************)
RegisterStream(p, s) ==
    LET r == [streams[s] EXCEPT !.userT = @ \cup {p}]
    IN  /\ Quiet /\ <<s, p>> \in cfg.users
        /\ CanCreateStream(s)
        /\ p \notin streams[s].userL
        /\ Commit(EndpointVlan(MapUpdateStream([Create(Ctx, s) EXCEPT !.st[s] = r], s),
                               s, p, TRUE))
        /\ told' = TellTalker(told, r, s, p)
        /\ unchangedRest

DeregisterTalker(x, s, p) ==
    MapUpdateStream(EndpointVlan([x EXCEPT !.st[s].userT = @ \ {p}], s, p, FALSE), s)

DeregisterListener(x, s, p) ==
    MapUpdateStream([x EXCEPT !.st[s].userL = @ \ {p}], s)

DeregisterStream(p, s) ==
    /\ Quiet /\ p \in streams[s].userT
    /\ Commit(DeregisterTalker(Ctx, s, p))
    /\ UNCHANGED told
    /\ unchangedRest

RegisterAttach(p, s) ==
    LET r == [streams[s] EXCEPT !.userL = @ \cup {p}]
    IN  /\ Quiet /\ <<s, p>> \in cfg.users
        /\ CanCreateStream(s)
        /\ p \notin streams[s].userT
        /\ Commit(MapUpdateStream([Create(Ctx, s) EXCEPT !.st[s] = r], s))
        /\ told' = TellListener(told, r, s, p)
        /\ unchangedRest

DeregisterAttach(p, s) ==
    /\ Quiet /\ p \in streams[s].userL
    /\ Commit(DeregisterListener(Ctx, s, p))
    /\ UNCHANGED told
    /\ unchangedRest

(***************************************************************************)
(* msrp_stream_deregister_all, over all streams and ports.  The port loop  *)
(* goes on after a stream was freed; the freed entry reads as it was left, *)
(* without user bits.                                                      *)
(***************************************************************************)
DeregisterPort(x, s, p) ==
    IF p \in x.st[s].userT THEN DeregisterTalker(x, s, p)
    ELSE IF p \in x.st[s].userL THEN DeregisterListener(x, s, p) ELSE x

DeregisterPorts(x, s) ==
    LET walked[i \in Nat] ==
            IF i = 0 THEN x ELSE DeregisterPort(walked[i - 1], s, i)
    IN  walked[LastPort]

DeregisterStreams(x) ==
    LET walked[i \in Nat] ==
            IF i \in DOMAIN x.order THEN DeregisterPorts(walked[i - 1], x.order[i]) ELSE x
    IN  walked[Len(x.order)]

DeregisterAll ==
    /\ Quiet
    /\ \E s \in Streams : streams[s].userT \cup streams[s].userL # {}
    /\ Commit(DeregisterStreams(Ctx))
    /\ UNCHANGED told
    /\ unchangedRest

(***************************************************************************)
(* SR class domains.  A port is a boundary of the class while no domain is *)
(* registered on it or one has another priority.                           *)
(***************************************************************************)
IsBoundary(d) == d = {} \/ "mismatch" \in d

UpdateBoundary(x, p, d) ==
    IF x.bnd[p] = IsBoundary(d) THEN x
    ELSE MapUpdate([x EXCEPT !.bnd[p] = IsBoundary(d)])

Change == changes < cfg.changes /\ changes' = changes + 1

DomainJoin(p, k) ==
    /\ Receives(p) /\ k \in cfg.domains /\ k \notin domains[p]
    /\ Change
    /\ domains' = [domains EXCEPT ![p] = @ \cup {k}]
    /\ Commit(UpdateBoundary(Ctx, p, domains'[p]))
    /\ UNCHANGED <<told, fdbFull, cfg>>

DomainLeave(p, k) ==
    /\ Quiet /\ k \in domains[p]
    /\ domains' = [domains EXCEPT ![p] = @ \ {k}]
    /\ Commit(UpdateBoundary(Ctx, p, domains'[p]))
    /\ UNCHANGED <<told, fdbFull, changes, cfg>>

(***************************************************************************)
(* The MAC service reports a link: MSRP sets its forwarding state and maps *)
(* all streams, then MVRP does the same with the VLANs.                    *)
(***************************************************************************)
PortStatus(p) ==
    LET x == [Ctx EXCEPT !.up = IF p \in up THEN up \ {p} ELSE up \cup {p}]
        y == MapUpdate(x)
    IN  /\ Quiet /\ Change
        /\ Commit([y EXCEPT !.vlans = MapUpdateVlans(@, x.up)])
        /\ UNCHANGED <<domains, told, fdbFull, cfg>>

(***************************************************************************)
(* The managed object msrpPortEnabledStatus.  Disabling clears the         *)
(* registrations of the port, maps the streams, and then frees every       *)
(* attribute of the port's MRP application.                                *)
(***************************************************************************)
PortEnable(p) ==
    LET x == UpdateBoundary([Ctx EXCEPT !.en = @ \cup {p}], p, domains[p])
    IN  /\ Quiet /\ p \notin enabled
        /\ Commit(MapUpdate(x))
        /\ UNCHANGED <<domains, told, fdbFull, changes, cfg>>

Cleared(r, p) == [r EXCEPT !.tReg[p] = {}, !.lReg[p] = {}]

PortDisable(p) ==
    LET x == [Ctx EXCEPT !.st = [s \in Streams |-> Cleared(streams[s], p)]]
        y == MapUpdate(x)
    IN  /\ Quiet /\ p \in enabled /\ (DisableUp \/ p \notin up)
        /\ Change
        /\ domains' = [domains EXCEPT ![p] = {}]
        /\ Commit([y EXCEPT !.en = @ \ {p}, !.mad[p] = NoMad])
        /\ told' = [s \in Streams |->
                       IF ~Exists(s) THEN told[s]
                       ELSE TellTalker(TellListener(told, x.st[s], s, p),
                                       x.st[s], s, p)[s]]
        /\ UNCHANGED <<fdbFull, cfg>>

(***************************************************************************)
(* MRP transmits the leave of an attribute and forgets it.                 *)
(***************************************************************************)
LeaveSent(p, a) ==
    /\ a \in mad[p].lv
    /\ mad' = [mad EXCEPT ![p].lv = @ \ {a}]
    /\ UNCHANGED <<cfg, up, vlans, table, enabled, domains, boundary, streams,
                   order, bw, fdbFull, told, changes>>

(***************************************************************************)
(* The switch (external): its forwarding table fills up or gets room.      *)
(***************************************************************************)
FdbRoom ==
    /\ cfg.bridge /\ Change
    /\ fdbFull' = ~fdbFull
    /\ UNCHANGED <<cfg, up, vlans, table, enabled, domains, boundary, streams,
                   order, bw, mad, told>>

(***************************************************************************)
(* MVRP's own events.                                                      *)
(***************************************************************************)
VlanEvent(v, p) ==
    /\ \/ <<v, p>> \in cfg.vlanPeers /\ (VlanJoin(v, p) \/ VlanLeave(v, p))
       \/ <<v, p>> \in cfg.vlanUsers /\ (VlanRegister(v, p) \/ VlanDeregister(v, p))
    /\ UNCHANGED <<cfg, up, enabled, domains, boundary, streams, order, bw, mad,
                   fdbFull, told, changes>>

Init ==
    /\ cfg \in Configs
    /\ up = cfg.up /\ enabled = cfg.ports
    /\ domains = [p \in Ports |-> cfg.reg[p]]
    /\ boundary = [p \in Ports |-> IsBoundary(cfg.reg[p])]
    /\ streams = [s \in Streams |-> NoStream]
    /\ order = <<>>
    /\ bw = [p \in Ports |-> 0]
    /\ mad = [p \in Ports |-> NoMad]
    /\ fdbFull = FALSE
    /\ told = [s \in Streams |-> [p \in Ports |-> [talker |-> "NONE", listener |-> "NONE"]]]
    /\ changes = 0
    /\ MVRPInit

Next ==
    \/ \E p \in cfg.ports :
        \/ \E s \in Streams :
            \/ \E t \in cfg.tTypes :
                \/ \E new \in BOOLEAN : TalkerJoin(p, s, t, new)
                \/ TalkerLeave(p, s, t)
            \/ \E t \in cfg.lTypes :
                \/ \E new \in BOOLEAN : ListenerJoin(p, s, t, new)
                \/ ListenerLeave(p, s, t)
            \/ RegisterStream(p, s) \/ DeregisterStream(p, s)
            \/ RegisterAttach(p, s) \/ DeregisterAttach(p, s)
        \/ \E k \in {"match", "mismatch"} : DomainJoin(p, k) \/ DomainLeave(p, k)
        \/ PortStatus(p) \/ PortEnable(p) \/ PortDisable(p)
        \/ \E a \in mad[p].lv : LeaveSent(p, a)
        \/ \E v \in VIDs : VlanEvent(v, p)
    \/ DeregisterAll
    \/ FdbRoom

Spec == Init /\ [][Next]_vars

-----------------------------------------------------------------------------
\* The units of bandwidth the streams of S need, each with its owner: their
\* number is the sum of the slopes.
Units(S) == UNION {{<<s, i>> : i \in 1 .. Slope[s]} : s \in S}

(***************************************************************************)
(* Bandwidth is neither lost nor counted twice: the operational idle slope *)
(* of a port is the sum over the streams that hold a reservation on it,    *)
(* and stays within the limit (common_fqtss_stream_add and _remove against *)
(* the fqtss bits of the streams, over every order of registrations,       *)
(* failures, link changes and frees of stream entries).                    *)
(***************************************************************************)
BandwidthAccounted ==
    \A p \in Ports :
        /\ bw[p] = Cardinality(Units({s \in Streams : p \in streams[s].fqtss}))
        /\ bw[p] <= Limit

(***************************************************************************)
(* No frame of a stream is forwarded to a port without a reservation, an   *)
(* advertised talker and a ready listener there; and where the talker is   *)
(* advertised to a ready listener the reservation is in place              *)
(* (talker_update_declaration with its refusals and roll-backs).           *)
(***************************************************************************)
ForwardingReserved ==
    \A s \in Streams, p \in Ports :
        LET r == streams[s]
            flows == r.decT[p] = "ADV" /\ ListenerReady(r, p)
        IN  /\ p \in r.fdb => p \in r.fqtss /\ flows
            /\ flows => p \in r.fqtss /\ (cfg.bridge => p \in r.fdb)

(***************************************************************************)
(* What a stream entry says it declares is declared in MRP, and MRP        *)
(* declares nothing else: no declaration outlives its stream, none is      *)
(* lost in a change (msrp_map.c against the attributes of mrp.c).          *)
(***************************************************************************)
DeclarationsAreReal ==
    \A p \in Ports :
        mad[p].dec = {<<s, "T", streams[s].decT[p]>> :
                          s \in {u \in Streams : streams[u].decT[p] # "NONE"}}
                     \cup {<<s, "L", streams[s].decL[p]>> :
                          s \in {u \in Streams : streams[u].decL[p] # "NONE"}}

(***************************************************************************)
(* The declarations are those of the registrations (802.1Q 35.2.4): on a   *)
(* port that is up and enabled a talker is declared exactly when it comes  *)
(* from elsewhere, as failed when it is failed there or comes from two     *)
(* ports, and a listener is declared toward the talker with the merge of   *)
(* all the other listeners, failed when the talker is.                     *)
(***************************************************************************)
ListenersBehind(r, p) ==
    {ListenerType(r, q) : q \in ListenerPorts(r) \ {p}}
        \cup (IF r.userL # {} THEN {"READY"} ELSE {})

DeclarationsFollow ==
    \A s \in Streams : \A p \in up \cap enabled :
        LET r       == streams[s]
            sources == TalkerPorts(r) \cap up
            behind  == ListenersBehind(r, p)
            toward  == \/ p \in r.userL
                       \/ /\ p \in TalkerPorts(r) /\ ListenerPorts(r) \ {p} # {}
                          /\ (ListenerPorts(r) \cap up # {} \/ r.userL # {})
        IN  /\ r.decT[p] # "NONE" <=>
                  p \notin TalkerPorts(r) /\ (sources # {} \/ r.userT # {})
            /\ (boundary[p] \/ Cardinality(TalkerPorts(r)) >= 2
                   \/ \E q \in sources : TalkerType(r, q) = "FAIL")
                  => r.decT[p] # "ADV"
            /\ r.decL[p] # "NONE" <=> toward
            /\ toward =>
                  r.decL[p] = IF TalkerType(r, p) # "ADV" THEN "ASK"
                              ELSE IF "RF" \in behind \/ {"READY", "ASK"} \subseteq behind
                                   THEN "RF"
                              ELSE CHOOSE t \in behind : TRUE

(***************************************************************************)
(* The application's view is the registration: the status last sent for a  *)
(* stream it declared is the merged type of the port, although it is sent  *)
(* only on a change.                                                       *)
(***************************************************************************)
StatusAgrees ==
    \A s \in Streams, p \in Ports :
        /\ p \in streams[s].userL => told[s][p].talker = TalkerType(streams[s], p)
        /\ p \in streams[s].userT => told[s][p].listener = ListenerType(streams[s], p)

(***************************************************************************)
(* The number of users of a VLAN is the number of streams that use it      *)
(* ("number of streams using this vlan", mvrp.h), and an endpoint's stream *)
(* uses its VLAN only while the application talks or it listens ready, so  *)
(* no member is leaked when a stream changes, fails or is freed.           *)
(***************************************************************************)
VlanUsersCounted ==
    /\ \A v \in VIDs, p \in cfg.ports :
        <<v, p>> \notin cfg.vlanUsers =>
            vlans[v].ref[p] = Cardinality({s \in Streams : streams[s].vlan /\ Vid[s] = v})
    /\ \A s \in Streams :
        streams[s].vlan =>
            \E p \in cfg.ports : \/ p \in streams[s].userT
                                 \/ streams[s].decL[p] \in {"READY", "RF"}

(***************************************************************************)
(* A bridge filters a VLAN by its registrations: the members of the VLAN   *)
(* filter table are the ports on which the VLAN is registered, although    *)
(* the entry is deleted with the last user and created again by the        *)
(* handler that runs on (mvrp_leave_indication).                           *)
(***************************************************************************)
FilterFollows ==
    cfg.bridge => \A v \in VIDs : table[v].members = vlans[v].reg
=============================================================================
