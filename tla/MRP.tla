--------------------------------- MODULE MRP ---------------------------------
(***************************************************************************)
(* The Multiple Registration Protocol of srp/mrp.c, as MVRP and MSRP       *)
(* instantiate it (full participants): the applicant, registrar and        *)
(* LeaveAll state machines of the two participants of a link, their        *)
(* timers, the MRPDU under construction and the PDUs on the wire.          *)
(*                                                                         *)
(* One attribute type is modelled; an attribute is one value of it.  The   *)
(* values are independent (the VLANs of MVRP) or the alternative listener  *)
(* declarations of one MSRP stream (Exclusive).  A received PDU is         *)
(* processed vector by vector: rx holds what is left of it, and the        *)
(* participant does nothing else until it is empty, which is the           *)
(* single-threaded handler mrp_process_packet.                             *)
(***************************************************************************)
EXTENDS Integers, Sequences, FiniteSets

CONSTANTS
  Parts,        \* the two participants of the link
  Attrs,        \* attribute values
  Declarers,    \* the participants whose application declares attributes
  Exclusive,    \* the values are listener declarations of one MSRP stream
  PointToPoint, \* MRP_PARTICIPANT_TYPE_POINT_TO_POINT
  JoinTicks,    \* join timer, MRP_JOINTIMER_POINT_TO_POINT_VAL
  LeaveTicks,   \* leave timer, leave_timeout
  LvaTicks,     \* shortest LeaveAll timer, MRP_LVATIMER_VAL_MIN
  MaxInFlight,  \* bound: PDUs on the wire towards one participant
  MaxLoss,      \* bound: PDUs the link loses
  MaxLeaves,    \* bound: leave requests of the application
  MaxJoins,     \* bound: join requests of the application
  MaxChanges,   \* bound: changes of an MSRP declaration
  MaxDisables   \* bound: how often a port is disabled

ASSUME PartsAssumption == \E a, b \in Parts : a # b /\ Parts = {a, b}
ASSUME AttrsAssumption == IsFiniteSet(Attrs)
ASSUME RoleAssumption ==
  PointToPoint \in BOOLEAN /\ Exclusive \in BOOLEAN /\ Declarers \subseteq Parts
ASSUME TicksAssumption == JoinTicks \in Nat /\ LeaveTicks \in Nat /\ LvaTicks \in Nat
ASSUME BoundsAssumption ==
  /\ MaxLoss \in Nat /\ MaxLeaves \in Nat /\ MaxJoins \in Nat
  /\ MaxChanges \in Nat /\ MaxDisables \in Nat

VARIABLES
  attr,      \* attr[p][x]: struct mrp_attribute, NoAttr when not allocated
  enabled,   \* app->enabled
  join,      \* join[p]: the join timer, shared by all attributes
  lva,       \* lva[p]: LeaveAll state machine and its timer
  pdu,       \* pdu[p]: app->mrpdu, the vectors packed so far
  rx,        \* rx[p]: vectors of the PDU being processed
  wire,      \* wire[p]: PDUs on their way to p
  declared,  \* declared[p][x]: the application of p declares x
  registered,\* registered[p][x]: the indications told p that x is registered
  used       \* how much of each bound is used

vars == <<attr, enabled, join, lva, pdu, rx, wire, declared, registered, used>>

-----------------------------------------------------------------------------
(* Data.                                                                   *)

Off == -1                                  \* a timer that does not run
Peer(p) == CHOOSE q \in Parts : q # p

ApplicantStates == {"VO", "VP", "VN", "AN", "AA", "QA", "LA",
                    "AO", "QO", "AP", "QP", "LO"}
RegistrarStates == {"IN", "LV", "MT"}
TxEvents == {"NEW", "JOININ", "IN", "JOINMT", "MT", "LV"}
NoEvent == "none"                          \* mrp_action2event returned -1

NoAttr == [app |-> "none", reg |-> "MT", leave |-> Off]
AttrType == [app : ApplicantStates \cup {"none"}, reg : RegistrarStates,
             leave : Nat \cup {Off}]
\* The code packs at most one value into a vector.
ValueType == [x : Attrs, ev : TxEvents]
VectorType == [lva : BOOLEAN, values : {<<>>} \cup {<<v>> : v \in ValueType}]
UsedType == [losses : 0..MaxLoss, leaves : 0..MaxLeaves, joins : 0..MaxJoins,
             changes : 0..MaxChanges, disables : 0..MaxDisables]

Allocated(a) == a.app # "none"

-----------------------------------------------------------------------------
(* mrp_applicant_sm: Table 10-3 of 802.1Q.  Next state by event.           *)

OnLeave(st) ==                                                   \* LV
  CASE st = "VP" -> "VO"
    [] st \in {"VN", "AN", "AA", "QA"} -> "LA"
    [] st = "AP" -> "AO"
    [] st = "QP" -> "QO"
    [] OTHER -> st

OnJoin(st) ==                                                    \* JOIN
  CASE st \in {"VO", "LO"} -> "VP"
    [] st = "LA" -> "AA"
    [] st = "AO" -> "AP"
    [] st = "QO" -> "QP"
    [] OTHER -> st

OnNew(st) == IF st \in {"VN", "AN"} THEN st ELSE "VN"            \* NEW

OnRJoinIn(st) ==                                                 \* RJOININ
  CASE st = "VO" /\ ~PointToPoint -> "AO"
    [] st = "VP" /\ ~PointToPoint -> "AP"
    [] st = "AA" -> "QA"
    [] st = "AO" -> "QO"
    [] st = "AP" -> "QP"
    [] OTHER -> st

OnREmpty(st) ==                                                  \* RJOINMT, RMT
  CASE st = "QA" -> "AA"
    [] st = "QO" -> "AO"
    [] st = "QP" -> "AP"
    [] st = "LO" -> "VO"
    [] OTHER -> st

\* Mutated forms of OnRLeave: QA and QP treated like QO; QA left out; LO
\* leaves as it does on RMT.
OnRLeaveDropping(st) ==
  CASE st \in {"VO", "AO", "QO", "QA", "QP"} -> "LO"
    [] st = "AN" -> "VN"
    [] st \in {"AA", "AP"} -> "VP"
    [] OTHER -> st

OnRLeaveQuiet(st) ==
  CASE st \in {"VO", "AO", "QO"} -> "LO"
    [] st = "AN" -> "VN"
    [] st \in {"AA", "AP", "QP"} -> "VP"
    [] OTHER -> st

OnRLeaveFreeing(st) ==
  CASE st \in {"VO", "AO", "QO"} -> "LO"
    [] st = "AN" -> "VN"
    [] st \in {"AA", "QA", "AP", "QP"} -> "VP"
    [] st = "LO" -> "VO"
    [] OTHER -> st

OnRLeave(st) ==                                                  \* RLV, RLA
  CASE st \in {"VO", "AO", "QO"} -> "LO"
    [] st = "AN" -> "VN"
    [] st \in {"AA", "QA", "AP", "QP"} -> "VP"
    [] OTHER -> st

OnPeriodic(st) ==                                                \* PERIODIC
  CASE st = "QA" -> "AA"
    [] st = "QP" -> "AP"
    [] OTHER -> st

OnReceived(st, ev) ==
  CASE ev = "JOININ" -> OnRJoinIn(st)
    [] ev = "IN" -> IF st = "AA" THEN "QA" ELSE st
    [] ev \in {"JOINMT", "MT"} -> OnREmpty(st)
    [] ev = "LV" -> OnRLeave(st)
    [] OTHER -> st                                               \* RNEW

OnTx(st, reg) ==                                                 \* TX
  CASE st = "VP" -> "AA"
    [] st = "VN" -> "AN"
    [] st = "AN" -> IF reg = "IN" THEN "QA" ELSE "AA"
    [] st \in {"AP", "AA"} -> "QA"
    [] st \in {"LA", "LO"} -> "VO"
    [] OTHER -> st

OnTxLa(st) ==                                                    \* TXLA
  CASE st = "VP" -> "AA"
    [] st = "VN" -> "AN"
    [] st \in {"AN", "AA", "AP", "QP"} -> "QA"
    [] st \in {"VO", "LA", "AO", "QO"} -> "LO"
    [] st = "LO" -> "VO"
    [] OTHER -> st

\* mrp_action2event of the actions of TX and TXLA: what the attribute packs
\* into the PDU, NoEvent for the optional sends the code leaves out.
TxEvent(st, reg) ==
  CASE st \in {"VN", "AN"} -> "NEW"
    [] st \in {"VP", "AP", "AA"} -> IF reg = "IN" THEN "JOININ" ELSE "JOINMT"
    [] st = "LA" -> "LV"
    [] st = "LO" -> IF reg = "IN" THEN "IN" ELSE "MT"
    [] OTHER -> NoEvent

TxLaEvent(st, reg) ==
  CASE st \in {"VN", "AN"} -> "NEW"
    [] st = "VP" -> IF reg = "IN" THEN "IN" ELSE "MT"
    [] st \in {"AA", "AP", "QP", "QA"} -> IF reg = "IN" THEN "JOININ" ELSE "JOINMT"
    [] OTHER -> NoEvent

\* Note 6: the states whose entry requests a transmission opportunity.
Anxious == {"VN", "AN", "AA", "LA", "VP", "AP", "LO"}

\* mrp_transmit_request, called for every attribute that changed into such a
\* state: old and new are the applicant states before and after.
RequestsButLO(old, new) ==                                       \* mutated form
  \E x \in Attrs : new[x] # old[x] /\ new[x] \in Anxious \ {"LO"}

Requests(old, new) == \E x \in Attrs : new[x] # old[x] /\ new[x] \in Anxious

TransmitRequest(timer, old, new) ==
  IF timer = Off /\ Requests(old, new) THEN JoinTicks ELSE timer

Apps(as) == [x \in Attrs |-> as[x].app]

-----------------------------------------------------------------------------
(* mrp_registrar_sm: Table 10-4.  registered follows the indications.      *)

\* Mutated form of RegJoin: the leave timer is not stopped.
RegJoinTimed(a) == [a EXCEPT !.reg = "IN"]

\* RNEW and RJOIN*: the leave timer is stopped only in LV.
RegJoin(a) == [a EXCEPT !.reg = "IN", !.leave = IF a.reg = "LV" THEN Off ELSE @]

\* RLA: timer_start fails when the timer still runs.
RegLeaveAll(a) ==
  IF a.reg = "IN"
  THEN [a EXCEPT !.reg = "LV", !.leave = IF @ = Off THEN LeaveTicks ELSE @]
  ELSE a

\* Mutated form of RegLeave: LV is entered without its timer.
RegLeaveUntimed(a) == IF a.reg = "IN" THEN [a EXCEPT !.reg = "LV"] ELSE a

\* RLV: immediate from IN (Milan), nothing otherwise.
RegLeave(a) == IF a.reg = "IN" THEN [a EXCEPT !.reg = "MT"] ELSE a

\* LEAVETIMER, and RLV_IMMEDIATE, which leaves the timer as it is.
RegTimeout(a) == IF a.reg = "LV" THEN [a EXCEPT !.reg = "MT"] ELSE a
RegLeaveSlow(a) == [a EXCEPT !.reg = "LV"]                       \* mutated form
RegLeaveImmediate(a) == [a EXCEPT !.reg = "MT"]

RegReceived(a, ev) ==
  CASE ev \in {"NEW", "JOININ", "JOINMT"} -> RegJoin(a)
    [] ev = "LV" -> RegLeave(a)
    [] OTHER -> a

\* The actions NEW, JOIN and LV: what mad_join_indication and
\* mad_leave_indication tell the application, whose view was told.
Joins(reg, ev) == ev \in {"JOININ", "JOINMT"} /\ reg = "MT"

Indicated(reg, ev, told) ==
  CASE ev = "NEW" \/ Joins(reg, ev) -> TRUE
    [] ev = "LV" /\ reg = "IN" -> FALSE
    [] OTHER -> told

\* mrp_free_attribute_check: the timers go with the attribute.
FreeCheck(a) ==
  IF a.app \in {"VO", "AO", "QO"} /\ a.reg = "MT" THEN NoAttr ELSE a

\* mrp_get_attribute: mrp_alloc_attribute runs BEGIN on both state machines.
GetAttr(a) == IF Allocated(a) THEN a ELSE [app |-> "VO", reg |-> "MT", leave |-> Off]

\* __mrp_process_attribute with a LeaveAll event: registrar, applicant,
\* mrp_free_attribute_check.
ProcessLva(a) ==
  IF Allocated(a)
  THEN LET r == RegLeaveAll(a) IN FreeCheck([r EXCEPT !.app = OnRLeave(@)])
  ELSE a

\* mrp_process_attribute
ProcessEvent(a, ev) ==
  LET r == RegReceived(GetAttr(a), ev) IN FreeCheck([r EXCEPT !.app = OnReceived(@, ev)])

-----------------------------------------------------------------------------
(* The MRPDU under construction: mrp_transmit_action.                      *)

\* A LeaveAll vector: a new one, or the flag in the vector being built.
AddLva(vs) ==
  IF vs = <<>> THEN <<[lva |-> TRUE, values |-> <<>>]>>
  ELSE [vs EXCEPT ![Len(vs)].lva = TRUE]

\* The events ev[x] of the attributes x of ord, the order of the list
\* attributes_ordered: the first goes into the vector being built while that
\* has no value, each of the others into a new vector.
Orders(S) == {f \in [1..Cardinality(S) -> S] :
                \A i, j \in 1..Cardinality(S) : f[i] = f[j] => i = j}

AddEvents(vs, ord, ev) ==
  LET values(i) == <<[x |-> ord[i], ev |-> ev[ord[i]]]>>
      fill == vs # <<>> /\ vs[Len(vs)].values = <<>> /\ ord # <<>>
      old  == IF fill THEN [vs EXCEPT ![Len(vs)].values = values(1)] ELSE vs
      n    == IF fill THEN Len(ord) - 1 ELSE Len(ord)
  IN  old \o [i \in 1..n |-> [lva |-> FALSE, values |-> values(Len(ord) - n + i)]]

-----------------------------------------------------------------------------
(* Requests of the application.                                            *)

Idle(p) == enabled[p] /\ rx[p] = <<>>

\* The part of an action that concerns one attribute of p.
SetAttr(p, x, a) == attr' = [attr EXCEPT ![p][x] = a]

Started(p, x, a) ==
  join' = [join EXCEPT ![p] =
             TransmitRequest(@, Apps(attr[p]), Apps([attr[p] EXCEPT ![x] = a]))]

\* mrp_mad_join_request.  MSRP declares one value of a stream at a time.
JoinRequest(p, x, new) ==
  /\ Idle(p) /\ used.joins < MaxJoins /\ p \in Declarers
  /\ Exclusive => \A y \in Attrs \ {x} : ~declared[p][y]
  /\ LET a == GetAttr(attr[p][x])
         b == [a EXCEPT !.app = IF new THEN OnNew(@) ELSE OnJoin(@)]
     IN  SetAttr(p, x, b) /\ Started(p, x, b)
  /\ declared' = [declared EXCEPT ![p][x] = TRUE]
  /\ used' = [used EXCEPT !.joins = @ + 1]
  /\ UNCHANGED <<enabled, lva, pdu, rx, wire, registered>>

\* mrp_mad_leave_request
LeaveRequest(p, x) ==
  /\ Idle(p) /\ used.leaves < MaxLeaves
  /\ Allocated(attr[p][x])
  /\ LET b == FreeCheck([attr[p][x] EXCEPT !.app = OnLeave(@)])
     IN  SetAttr(p, x, b) /\ Started(p, x, b)
  /\ declared' = [declared EXCEPT ![p][x] = FALSE]
  /\ used' = [used EXCEPT !.leaves = @ + 1]
  /\ UNCHANGED <<enabled, lva, pdu, rx, wire, registered>>

\* listener_update_declaration: a declaration of MSRP changes from x to y
\* without a leave: mrp_process_attribute_free_immediate(x), then
\* mrp_mad_join_immediate, which packs the join of a new attribute at once
\* (JOIN and TX take it to AA) and does nothing when y is still allocated.
ChangeDeclaration(p, x, y) ==
  LET fresh == ~Allocated(attr[p][y])
      a == GetAttr(attr[p][y])
      b == [a EXCEPT !.app = OnTx(OnJoin(@), a.reg)]
      ev == [z \in {y} |-> TxEvent(OnJoin(a.app), a.reg)]
      freed == [attr[p] EXCEPT ![x] = NoAttr]
      as == IF fresh THEN [freed EXCEPT ![y] = b] ELSE freed
  IN  /\ Idle(p) /\ used.changes < MaxChanges
      /\ Exclusive /\ declared[p][x] /\ x # y
      /\ attr' = [attr EXCEPT ![p] = as]
      /\ join' = [join EXCEPT ![p] = TransmitRequest(@, Apps(freed), Apps(as))]
      /\ pdu' = [pdu EXCEPT ![p] = IF fresh THEN AddEvents(@, <<y>>, ev) ELSE @]
      /\ declared' = [declared EXCEPT ![p][x] = FALSE, ![p][y] = fresh]
      /\ used' = [used EXCEPT !.changes = @ + 1]
      /\ UNCHANGED <<enabled, lva, rx, wire, registered>>

\* mrp_disable.  The MRPDU under construction is left as it is; the application
\* forgets its registrations and declarations itself.
Disable(p) ==
  /\ Idle(p) /\ used.disables < MaxDisables
  /\ enabled' = [enabled EXCEPT ![p] = FALSE]
  /\ attr' = [attr EXCEPT ![p] = [x \in Attrs |-> NoAttr]]
  /\ join' = [join EXCEPT ![p] = Off]
  /\ lva' = [lva EXCEPT ![p].timer = Off]
  /\ declared' = [declared EXCEPT ![p] = [x \in Attrs |-> FALSE]]
  /\ registered' = [registered EXCEPT ![p] = [x \in Attrs |-> FALSE]]
  /\ used' = [used EXCEPT !.disables = @ + 1]
  /\ UNCHANGED <<pdu, rx, wire>>

\* mrp_enable: BEGIN of the LeaveAll state machine.
Enable(p) ==
  /\ ~enabled[p]
  /\ enabled' = [enabled EXCEPT ![p] = TRUE]
  /\ lva' = [lva EXCEPT ![p] = [active |-> FALSE, timer |-> LvaTicks]]
  /\ UNCHANGED <<attr, join, pdu, rx, wire, declared, registered, used>>

-----------------------------------------------------------------------------
(* Timers.                                                                 *)

\* mrp_join_timer_handler: the LeaveAll state machine first, whose SLA action
\* runs LeaveAll on every own attribute; then TX or TXLA on every attribute,
\* with mrp_free_attribute_check; then the PDU is sent.
JoinTimer(p) ==
  LET sla  == lva[p].active
      as   == IF sla THEN [x \in Attrs |-> ProcessLva(attr[p][x])] ELSE attr[p]
      ev   == [x \in Attrs |-> IF sla THEN TxLaEvent(as[x].app, as[x].reg)
                                      ELSE TxEvent(as[x].app, as[x].reg)]
      bs   == [x \in Attrs |->
                 FreeCheck([as[x] EXCEPT !.app = IF sla THEN OnTxLa(@) ELSE OnTx(@, as[x].reg)])]
      base == IF sla THEN AddLva(pdu[p]) ELSE pdu[p]
      req  == TransmitRequest(TransmitRequest(Off, Apps(attr[p]), Apps(as)), Apps(as), Apps(bs))
  IN  /\ Idle(p) /\ join[p] = 0
      /\ Len(wire[Peer(p)]) < MaxInFlight
      /\ lva' = [lva EXCEPT ![p].active = FALSE]
      /\ attr' = [attr EXCEPT ![p] = bs]
      /\ join' = [join EXCEPT ![p] = req]
      /\ \E ord \in Orders({x \in Attrs : ev[x] # NoEvent}) :
           LET out == AddEvents(base, ord, ev)
           IN  wire' = IF out = <<>> THEN wire
                       ELSE [wire EXCEPT ![Peer(p)] = Append(@, out)]
      /\ pdu' = [pdu EXCEPT ![p] = <<>>]
      /\ UNCHANGED <<enabled, rx, declared, registered, used>>

\* mrp_leaveall_timer_handler
LeaveAllTimer(p) ==
  /\ Idle(p) /\ lva[p].timer = 0
  /\ lva' = [lva EXCEPT ![p] = [active |-> TRUE, timer |-> LvaTicks]]
  /\ join' = [join EXCEPT ![p] = IF @ = Off THEN JoinTicks ELSE @]
  /\ UNCHANGED <<attr, enabled, pdu, rx, wire, declared, registered, used>>

\* Mutated form of LeaveTimer: without mrp_free_attribute_check.
LeaveTimerKeeping(p, x) ==
  /\ Idle(p) /\ attr[p][x].leave = 0
  /\ SetAttr(p, x, [RegTimeout(attr[p][x]) EXCEPT !.leave = Off])
  /\ registered' = [registered EXCEPT ![p][x] = IF attr[p][x].reg = "LV" THEN FALSE ELSE @]
  /\ UNCHANGED <<enabled, join, lva, pdu, rx, wire, declared, used>>

\* mrp_leave_timer_handler: LEAVETIMER matters only in LV.
LeaveTimer(p, x) ==
  /\ Idle(p) /\ attr[p][x].leave = 0
  /\ SetAttr(p, x, FreeCheck([RegTimeout(attr[p][x]) EXCEPT !.leave = Off]))
  /\ registered' = [registered EXCEPT ![p][x] = IF attr[p][x].reg = "LV" THEN FALSE ELSE @]
  /\ UNCHANGED <<enabled, join, lva, pdu, rx, wire, declared, used>>

\* mrp_periodic_timer_handler (MVRP): PERIODIC on every attribute.
PeriodicTimer(p) ==
  /\ Idle(p) /\ ~Exclusive
  /\ LET as == [x \in Attrs |-> [attr[p][x] EXCEPT !.app = OnPeriodic(@)]]
     IN  /\ attr' = [attr EXCEPT ![p] = as]
         /\ join' = [join EXCEPT ![p] = TransmitRequest(@, Apps(attr[p]), Apps(as))]
  /\ UNCHANGED <<enabled, lva, pdu, rx, wire, declared, registered, used>>

-----------------------------------------------------------------------------
(* Reception.                                                              *)

\* mrp_process_packet starts on the first PDU; a disabled port drops it.
Receive(p) ==
  /\ rx[p] = <<>> /\ wire[p] # <<>>
  /\ rx' = [rx EXCEPT ![p] = IF enabled[p] THEN Head(wire[p]) ELSE <<>>]
  /\ wire' = [wire EXCEPT ![p] = Tail(@)]
  /\ UNCHANGED <<attr, enabled, join, lva, pdu, declared, registered, used>>

\* The application's part of a join indication of x: MSRP gives up the other
\* values it has registered, msrp_stream_leave_immediate, unless x is new.
Rivals(as, told, x, ev) ==
  {y \in Attrs \ {x} : Exclusive /\ Joins(as[x].reg, ev) /\ told[y]}

\* mrp_process_attribute_leave_immediate
GiveUp(a) == LET r == RegLeaveImmediate(a) IN FreeCheck([r EXCEPT !.app = OnRLeave(@)])

\* The attribute event of a vector: what becomes of the attributes, and of
\* what the application was told.
HandleEvent(as, told, x, ev) ==
  [y \in Attrs |-> CASE y = x -> ProcessEvent(as[y], ev)
                     [] y \in Rivals(as, told, x, ev) -> GiveUp(as[y])
                     [] OTHER -> as[y]]

HandleIndications(as, told, x, ev) ==
  [y \in Attrs |-> CASE y = x -> Indicated(as[y].reg, ev, told[y])
                     [] y \in Rivals(as, told, x, ev) -> FALSE
                     [] OTHER -> told[y]]

\* One vector: the LeaveAll event on every attribute and on the LeaveAll state
\* machine, then the attribute event, whose attribute is created if needed.
ProcessVector(p) ==
  LET v  == Head(rx[p])
      e  == Head(v.values)
      as == IF v.lva THEN [x \in Attrs |-> ProcessLva(attr[p][x])] ELSE attr[p]
      bs == IF v.values = <<>> THEN as
            ELSE HandleEvent(as, registered[p], e.x, e.ev)
      j  == TransmitRequest(join[p], Apps(attr[p]), Apps(as))
  IN  /\ rx[p] # <<>>
      /\ rx' = [rx EXCEPT ![p] = Tail(@)]
      /\ attr' = [attr EXCEPT ![p] = bs]
      /\ join' = [join EXCEPT ![p] = TransmitRequest(j, Apps(as), Apps(bs))]
      /\ lva' = IF v.lva THEN [lva EXCEPT ![p] = [active |-> FALSE, timer |-> LvaTicks]]
                ELSE lva
      /\ registered' = IF v.values = <<>> THEN registered
                       ELSE [registered EXCEPT ![p] =
                               HandleIndications(as, @, e.x, e.ev)]
      /\ UNCHANGED <<enabled, pdu, wire, declared, used>>

\* The link loses a PDU.
Lose(p) ==
  /\ used.losses < MaxLoss /\ wire[p] # <<>>
  /\ wire' = [wire EXCEPT ![p] = Tail(@)]
  /\ used' = [used EXCEPT !.losses = @ + 1]
  /\ UNCHANGED <<attr, enabled, join, lva, pdu, rx, declared, registered>>

\* One tick of a timer, and its mutated form: a timer that runs on.
CountDownOn(t) == t - 1
CountDown(t) == IF t > 0 THEN t - 1 ELSE t

\* One join period: what was on the wire has been processed and the timers
\* that were due have expired.
Tick ==
  /\ \A p \in Parts : wire[p] = <<>> /\ rx[p] = <<>> /\ join[p] # 0
  /\ \A p \in Parts, x \in Attrs : attr[p][x].leave # 0
  /\ \E p \in Parts : \/ join[p] > 0 \/ lva[p].timer > 0
                      \/ \E x \in Attrs : attr[p][x].leave > 0
  /\ join' = [p \in Parts |-> CountDown(join[p])]
  /\ lva' = [p \in Parts |-> [lva[p] EXCEPT !.timer = CountDown(@)]]
  /\ attr' = [p \in Parts |-> [x \in Attrs |-> [attr[p][x] EXCEPT !.leave = CountDown(@)]]]
  /\ UNCHANGED <<enabled, pdu, rx, wire, declared, registered, used>>

-----------------------------------------------------------------------------
Init ==
  /\ attr = [p \in Parts |-> [x \in Attrs |-> NoAttr]]
  /\ enabled = [p \in Parts |-> TRUE]
  /\ join = [p \in Parts |-> Off]
  /\ lva = [p \in Parts |-> [active |-> FALSE, timer |-> LvaTicks]]
  /\ pdu = [p \in Parts |-> <<>>]
  /\ rx = [p \in Parts |-> <<>>]
  /\ wire = [p \in Parts |-> <<>>]
  /\ declared = [p \in Parts |-> [x \in Attrs |-> FALSE]]
  /\ registered = [p \in Parts |-> [x \in Attrs |-> FALSE]]
  /\ used = [losses |-> 0, leaves |-> 0, joins |-> 0, changes |-> 0, disables |-> 0]

Request(p) ==
  \/ \E x \in Attrs : \/ \E new \in BOOLEAN : JoinRequest(p, x, new)
                      \/ LeaveRequest(p, x)
                      \/ \E y \in Attrs : ChangeDeclaration(p, x, y)
  \/ Disable(p)
  \/ Enable(p)

Timer(p) ==
  \/ JoinTimer(p)
  \/ LeaveAllTimer(p)
  \/ \E x \in Attrs : LeaveTimer(p, x)
  \/ PeriodicTimer(p)

Next ==
  \/ \E p \in Parts : Request(p) \/ Timer(p) \/ Receive(p) \/ ProcessVector(p) \/ Lose(p)
  \/ Tick

Spec == Init /\ [][Next]_vars

\* The stack's event loop serves every PDU and every expired timer; time passes.
Fairness ==
  /\ \A p \in Parts : /\ WF_vars(Receive(p)) /\ WF_vars(ProcessVector(p))
                      /\ SF_vars(JoinTimer(p)) /\ SF_vars(LeaveAllTimer(p))
                      /\ \A x \in Attrs : SF_vars(LeaveTimer(p, x))
  /\ WF_vars(Tick)

FairSpec == Spec /\ Fairness

-----------------------------------------------------------------------------
(* Properties.                                                             *)

\* Every variable has its type.
TypeOK ==
  /\ attr \in [Parts -> [Attrs -> AttrType]]
  /\ enabled \in [Parts -> BOOLEAN]
  /\ join \in [Parts -> Nat \cup {Off}]
  /\ lva \in [Parts -> [active : BOOLEAN, timer : Nat \cup {Off}]]
  /\ pdu \in [Parts -> Seq(VectorType)]
  /\ rx \in [Parts -> Seq(VectorType)]
  /\ wire \in [Parts -> Seq(Seq(VectorType))]
  /\ declared \in [Parts -> [Attrs -> BOOLEAN]]
  /\ registered \in [Parts -> [Attrs -> BOOLEAN]]
  /\ used \in UsedType

\* A declaration can not be lost: through every reception, timer and request,
\* the applicant is in a declaring state exactly while the application
\* declares the attribute, so LeaveAll makes it declare again.
Declaring == {"VP", "VN", "AN", "AA", "QA", "AP", "QP"}
DeclarationKept ==
  \A p \in Parts, x \in Attrs : declared[p][x] <=> attr[p][x].app \in Declaring

\* The application's view of a registration is the registrar's: every JOIN and
\* LV indication is given, and none is given twice or for a freed attribute.
IndicationsAgree ==
  \A p \in Parts, x \in Attrs : registered[p][x] <=> attr[p][x].reg # "MT"

\* An applicant that has something to send has a transmission opportunity: the
\* join timer, shared by all attributes and stopped when it expires, runs
\* whenever some attribute is in a state that must transmit.
AnxiousIsScheduled ==
  \A p \in Parts :
    /\ (\E x \in Attrs : attr[p][x].app \in Anxious) => join[p] # Off
    /\ lva[p].active /\ enabled[p] => join[p] # Off

\* A registration being left has a running leave timer, so it can not stay in
\* LV for ever.
LeavingIsTimed ==
  \A p \in Parts, x \in Attrs : attr[p][x].reg = "LV" => attr[p][x].leave # Off

\* mrp_process_packet walks the attribute list without saving the next entry
\* while LeaveAll is processed: LeaveAll must never free an attribute.
LeaveAllNeverFrees ==
  \A p \in Parts, x \in Attrs :
    Allocated(attr[p][x]) => Allocated(ProcessLva(attr[p][x]))

\* What is neither declared, registered nor waiting to be sent is not kept.
NoGarbage ==
  \A p \in Parts, x \in Attrs :
    Allocated(attr[p][x]) =>
      attr[p][x].app \in Declaring \cup {"LA", "LO"} \/ attr[p][x].reg # "MT"

\* While the link loses nothing, delivers within a join period and stays up,
\* the leave timer never runs out on an attribute the peer declares and never
\* withdrew: after every LeaveAll the declarations come back in time, whatever
\* the phases of the two participants' timers.
NoSpuriousTimeout ==
  [][\A p \in Parts, x \in Attrs :
       /\ used.losses = 0 /\ used.leaves = 0 /\ used.disables = 0
       /\ registered[p][x] /\ attr[p][x].leave = 0 /\ ~registered'[p][x]
       => ~declared[Peer(p)][x]]_vars

\* Once the applications are quiet the registrations of a participant are the
\* declarations of its peer, whatever was lost: leaves are seen or time out,
\* joins are repeated or asked for by LeaveAll.
Converges ==
  \A p \in Parts, x \in Attrs :
    <>[](enabled[p] /\ enabled[Peer(p)] => registered[p][x] = declared[Peer(p)][x])

\* srp.h: leave_timeout is the MRP leave timeout, and timer_start adds its
\* granularity to wait at least that long: a registration that starts to leave
\* has the whole leave timeout for the peer to declare it again.
FullLeaveTime ==
  [][\A p \in Parts, x \in Attrs :
       attr[p][x].reg = "IN" /\ attr'[p][x].reg = "LV" => attr'[p][x].leave = LeaveTicks]_vars

\* msrp_map.c: a change of declaration frees the previous attribute and sends a
\* join for the new one, so a declared stream stays declared across a change.
ChangeKeepsDeclaration ==
  [][used'.changes # used.changes =>
       \A p \in Parts : (\E x \in Attrs : declared[p][x]) => \E y \in Attrs : declared'[p][y]]_vars
=============================================================================
