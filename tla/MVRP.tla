-------------------------------- MODULE MVRP --------------------------------
(***************************************************************************)
(* The VLAN registrations of the SRP stack: srp/mvrp.c and srp/mvrp_map.c. *)
(* A VLAN entry counts its users on every port, remembers the ports on     *)
(* which a neighbour registered it, and is declared by the map on every    *)
(* forwarding port that has a user or whose other forwarding ports have a  *)
(* registration.  On a bridge the registrations also program the VLAN      *)
(* filter table of the switch.  MSRP uses this component: on an endpoint   *)
(* every stream holds one user of its VLAN.                                *)
(***************************************************************************)
EXTENDS Integers, FiniteSets

CONSTANTS
    Ports,      \* all port identifiers; cfg.ports is the set of this stack
    VIDs,       \* VLAN identifiers
    MaxVlans,   \* CFG_MVRP_MAX_VLANS
    MaxRef      \* bound of the model: users of a VLAN on a port

ASSUME MVRPAssumption == MaxVlans \in Nat /\ MaxRef \in Nat

VARIABLES
    cfg,        \* the srp_config the stack was started with
    up,         \* ports the MAC service reports operational
    vlans,      \* the MVRP map: VLAN identifier -> entry
    table       \* the VLAN filter table of the switch

(***************************************************************************)
(* An entry that is not allocated is memory of zeroes: list membership is  *)
(* the alloc field.  user_declared is {p : ref[p] > 0}.                    *)
(***************************************************************************)
NoVlan == [alloc |-> FALSE, ref |-> [p \in Ports |-> 0], reg |-> {}, dec |-> {}]

Users(w) == {p \in Ports : w.ref[p] > 0}

(***************************************************************************)
(* The map after a change of the entry w: a port outside the forwarding    *)
(* set f withdraws its declaration, any other declares the VLAN when it    *)
(* has a user or another forwarding port has registered it.  An entry that *)
(* nobody registers and nobody uses is freed.  MVRP is never disabled, so  *)
(* a join request to MRP is not refused.                                   *)
(***************************************************************************)
DeclaredPorts(w, f) ==
    {p \in f : (w.reg \cap f) \ {p} # {} \/ p \in Users(w)}

InUse(w) == w.reg # {} \/ Users(w) # {}

UpdateVlan(w, f) ==
    IF InUse(w) THEN [w EXCEPT !.dec = DeclaredPorts(w, f)] ELSE NoVlan

(***************************************************************************)
(* mvrp_create_vlan fails when the map is full.                            *)
(***************************************************************************)
CanCreate(vs, v) ==
    vs[v].alloc \/ Cardinality({u \in VIDs : vs[u].alloc}) < MaxVlans

(***************************************************************************)
(* A user joins (leaves) VLAN v on port p.  Joining reports success or     *)
(* failure to the caller through CanCreate.  Leaving a VLAN nobody uses on *)
(* the port runs the map once more.                                        *)
(***************************************************************************)
RegisterMember(vs, v, p, f) ==
    LET w == [vs[v] EXCEPT !.alloc = TRUE, !.ref[p] = @ + 1]
    IN  [vs EXCEPT ![v] = IF vs[v].ref[p] = 0 THEN UpdateVlan(w, f) ELSE w]

DeregisterMember(vs, v, p, f) ==
    LET w == [vs[v] EXCEPT !.ref[p] = IF @ > 0 THEN @ - 1 ELSE 0]
    IN  IF ~vs[v].alloc THEN vs
        ELSE [vs EXCEPT ![v] = IF w.ref[p] = 0 THEN UpdateVlan(w, f) ELSE w]

(***************************************************************************)
(* netc_sw_vft_delete removes the entry of the switch's filter             *)
(* table, netc_sw_vft_update creates a missing one and sets or clears the  *)
(* membership of one port.  A free on a bridge deletes the entry.          *)
(***************************************************************************)
NoEntry == [present |-> FALSE, members |-> {}]

TableUpdate(t, v, p, member) ==
    [t EXCEPT ![v] = [present |-> TRUE,
                      members |-> IF member THEN @.members \cup {p}
                                            ELSE @.members \ {p}]]

TableFree(t, old, new) ==
    [v \in VIDs |-> IF cfg.bridge /\ old[v].alloc /\ ~new[v].alloc
                    THEN NoEntry ELSE t[v]]

-----------------------------------------------------------------------------

MVRPInit ==
    /\ vlans = [v \in VIDs |-> NoVlan]
    /\ table = [v \in VIDs |-> NoEntry]

(***************************************************************************)
(* mvrp_join_indication.  MRP runs on an operational port only.            *)
(***************************************************************************)
VlanJoin(v, p) ==
    LET w == UpdateVlan([vlans[v] EXCEPT !.alloc = TRUE, !.reg = @ \cup {p}], up)
    IN  /\ p \in up
        /\ CanCreate(vlans, v)
        /\ vlans' = [vlans EXCEPT ![v] = w]
        /\ table' = IF cfg.bridge THEN TableUpdate(table, v, p, TRUE) ELSE table

(***************************************************************************)
(* mvrp_leave_indication.  The map update frees the entry of the last      *)
(* registration and deletes it from the filter table; the handler then     *)
(* reads the identifier from the freed entry and updates the table with    *)
(* it.  No allocation comes between, and the allocators of the builds keep *)
(* their links in the first words of a freed block, so the identifier read *)
(* is the old one: the table entry is created again, without members.      *)
(***************************************************************************)
\* Mutant: the handler relies on the free to clear the filter entry.
VlanLeaveFreeing(v, p) ==
    LET w == UpdateVlan([vlans[v] EXCEPT !.reg = @ \ {p}], up)
    IN  /\ p \in vlans[v].reg
        /\ vlans' = [vlans EXCEPT ![v] = w]
        /\ table' = TableFree(table, vlans, vlans')

VlanLeave(v, p) ==
    LET w == UpdateVlan([vlans[v] EXCEPT !.reg = @ \ {p}], up)
        t == TableFree(table, vlans, [vlans EXCEPT ![v] = w])
    IN  /\ p \in vlans[v].reg
        /\ vlans' = [vlans EXCEPT ![v] = w]
        /\ table' = IF cfg.bridge THEN TableUpdate(t, v, p, FALSE) ELSE t

(***************************************************************************)
(* The application's requests over the MVRP IPC channel.  The application  *)
(* leaves what it joined.                                                  *)
(***************************************************************************)
VlanRegister(v, p) ==
    /\ CanCreate(vlans, v)
    /\ vlans[v].ref[p] < MaxRef
    /\ vlans' = RegisterMember(vlans, v, p, up)
    /\ UNCHANGED table

VlanDeregister(v, p) ==
    /\ vlans[v].alloc
    /\ vlans' = DeregisterMember(vlans, v, p, up)
    /\ table' = TableFree(table, vlans, vlans')

(***************************************************************************)
(* mvrp_port_status: the forwarding set becomes f, every VLAN is mapped    *)
(* anew.                                                                   *)
(***************************************************************************)
MapUpdateVlans(vs, f) ==
    [v \in VIDs |-> IF vs[v].alloc THEN UpdateVlan(vs[v], f) ELSE vs[v]]
=============================================================================
