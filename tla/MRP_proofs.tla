------------------------------ MODULE MRP_proofs ------------------------------
(***************************************************************************)
(* Proofs about the MRP state machines, for any number of attributes, any  *)
(* timer values, both link types and any bounds.  The applicants, their    *)
(* declarations and timers first; then what the applications are told.     *)
(***************************************************************************)
EXTENDS MRP, FiniteSetTheorems, SequenceTheorems, TLAPS

AppStates == ApplicantStates \cup {"none"}

\* An attribute whose freed form carries nothing.
Raw(a) ==
  /\ a \in AttrType
  /\ a.reg = "LV" => a.leave # Off
  /\ a.app = "none" => a.reg = "MT" /\ a.leave = Off

\* The attributes between two handlers: mrp_free_attribute_check has been run.
Good(a) ==
  /\ Raw(a)
  /\ a.app \in {"VO", "AO", "QO"} => a.reg # "MT"

AllGood == \A p \in Parts : \A x \in Attrs : Good(attr[p][x])

\* MSRP keeps one pointer to the declared attribute of a stream and a port.
OneDeclared ==
  Exclusive => \A p \in Parts : \A x, y \in Attrs : declared[p][x] /\ declared[p][y] => x = y

IInv == TypeOK /\ AllGood /\ DeclarationKept /\ AnxiousIsScheduled /\ OneDeclared

-----------------------------------------------------------------------------
(* The applicant state machine.                                            *)

\* No reception, timer or transmission makes an applicant forget or invent a
\* declaration, or frees it.
Keeps(st, new) ==
  /\ new \in AppStates
  /\ new = "none" <=> st = "none"
  /\ new \in Declaring <=> st \in Declaring

\* A received attribute event keeps the declaration.
LEMMA ReceivedKeeps ==
  ASSUME NEW st \in AppStates, NEW ev PROVE Keeps(st, OnReceived(st, ev))
BY RoleAssumption DEF Keeps, AppStates, ApplicantStates, Declaring, OnReceived, OnRJoinIn, OnREmpty, OnRLeave

\* The same for LeaveAll and leave events.
LEMMA LeaveKeeps ==
  ASSUME NEW st \in AppStates
  PROVE  Keeps(st, OnRLeave(st)) /\ OnRLeave(st) \notin {"VO", "AO", "QO"}
BY DEF Keeps, AppStates, ApplicantStates, Declaring, OnRLeave

\* The same for the periodic timer, which never reaches a state to free.
LEMMA PeriodicKeeps ==
  ASSUME NEW st \in AppStates
  PROVE  /\ Keeps(st, OnPeriodic(st))
         /\ OnPeriodic(st) \in {"VO", "AO", "QO"} => OnPeriodic(st) = st
BY DEF Keeps, AppStates, ApplicantStates, Declaring, OnPeriodic

\* A transmission opportunity keeps the declaration, and leaves every anxious
\* state: what is anxious afterwards has just become so.
LEMMA TxKeeps ==
  ASSUME NEW st \in AppStates, NEW reg
  PROVE  /\ Keeps(st, OnTx(st, reg))
         /\ OnTx(st, reg) \in Anxious => OnTx(st, reg) # st
BY DEF Keeps, AppStates, ApplicantStates, Declaring, Anxious, OnTx

\* The same when a LeaveAll is sent.
LEMMA TxLaKeeps ==
  ASSUME NEW st \in AppStates
  PROVE  /\ Keeps(st, OnTxLa(st))
         /\ OnTxLa(st) \in Anxious => OnTxLa(st) # st
BY DEF Keeps, AppStates, ApplicantStates, Declaring, Anxious, OnTxLa

\* Join requests of the application declare, leave requests withdraw.
LEMMA RequestStates ==
  ASSUME NEW st \in ApplicantStates
  PROVE  /\ OnJoin(st) \in ApplicantStates /\ OnJoin(st) \in Declaring
         /\ OnNew(st) \in ApplicantStates /\ OnNew(st) \in Declaring
         /\ OnLeave(st) \in ApplicantStates /\ OnLeave(st) \notin Declaring
BY DEF ApplicantStates, Declaring, OnJoin, OnNew, OnLeave

\* The events that are sent are protocol events.
LEMMA TxEvents_OK ==
  ASSUME NEW st, NEW reg
  PROVE  /\ TxEvent(st, reg) \in TxEvents \cup {NoEvent}
         /\ TxLaEvent(st, reg) \in TxEvents \cup {NoEvent}
BY DEF TxEvent, TxLaEvent, TxEvents, NoEvent

-----------------------------------------------------------------------------
(* The registrar, and the two state machines together.                     *)

\* An application of the applicant state machine keeps the attribute well formed.
LEMMA SetApp ==
  ASSUME NEW a, Raw(a), NEW new, Keeps(a.app, new)
  PROVE  Raw([a EXCEPT !.app = new]) /\ [a EXCEPT !.app = new].app = new
BY DEF Raw, Keeps, AppStates, AttrType

\* mrp_free_attribute_check leaves nothing to free, and frees only what is
\* neither declared nor anxious.
LEMMA FreeCheckGood ==
  ASSUME NEW a, Raw(a)
  PROVE  /\ Good(FreeCheck(a))
         /\ FreeCheck(a).app \in Declaring <=> a.app \in Declaring
         /\ FreeCheck(a).app \in Anxious => FreeCheck(a).app = a.app
BY DEF Raw, Good, FreeCheck, NoAttr, AttrType, ApplicantStates, RegistrarStates, Declaring, Anxious, Off

\* A new attribute is well formed and declares nothing.
LEMMA GetAttrRaw ==
  ASSUME NEW a, Raw(a)
  PROVE  /\ Raw(GetAttr(a)) /\ GetAttr(a).app \in ApplicantStates
         /\ GetAttr(a).app \in Declaring <=> a.app \in Declaring
BY DEF Raw, GetAttr, Allocated, AttrType, ApplicantStates, RegistrarStates, Declaring, Off

\* The registrar events keep an allocated attribute well formed.
LEMMA RegistrarRaw ==
  ASSUME NEW a, Raw(a), a.app # "none", NEW ev
  PROVE  /\ Raw(RegReceived(a, ev)) /\ RegReceived(a, ev).app = a.app
         /\ Raw(RegLeaveAll(a)) /\ RegLeaveAll(a).app = a.app
<1>1. LeaveTicks \in Nat /\ LeaveTicks # Off /\ Off = -1
  BY TicksAssumption DEF Off
<1>2. Raw(RegJoin(a)) /\ RegJoin(a).app = a.app
  BY DEF Raw, RegJoin, AttrType, RegistrarStates
<1>3. Raw(RegLeave(a)) /\ RegLeave(a).app = a.app
  BY DEF Raw, RegLeave, AttrType, RegistrarStates
<1>4. Raw(RegLeaveAll(a)) /\ RegLeaveAll(a).app = a.app
  BY <1>1 DEF Raw, RegLeaveAll, AttrType, RegistrarStates
<1> QED
  BY <1>2, <1>3, <1>4 DEF RegReceived

\* So do an immediate leave and the leave timer, for any attribute.
LEMMA LeaveRaw ==
  ASSUME NEW a, Raw(a)
  PROVE  /\ Raw(RegLeaveImmediate(a)) /\ RegLeaveImmediate(a).app = a.app
         /\ Raw([RegTimeout(a) EXCEPT !.leave = Off])
         /\ [RegTimeout(a) EXCEPT !.leave = Off].app = a.app
<1>1. Raw(RegLeaveImmediate(a)) /\ RegLeaveImmediate(a).app = a.app
  BY DEF Raw, RegLeaveImmediate, AttrType, RegistrarStates
<1>2. Raw([RegTimeout(a) EXCEPT !.leave = Off]) /\ [RegTimeout(a) EXCEPT !.leave = Off].app = a.app
  BY DEF Raw, RegTimeout, AttrType, RegistrarStates
<1> QED
  BY <1>1, <1>2

\* LeaveAll, a received event and an immediate leave: the attribute is good
\* afterwards, and declared if and only if it was before.
LEMMA ProcessLvaGood ==
  ASSUME NEW a, Good(a)
  PROVE  /\ Good(ProcessLva(a))
         /\ ProcessLva(a).app \in Declaring <=> a.app \in Declaring
         /\ Allocated(a) => Allocated(ProcessLva(a))
<1>1. CASE ~Allocated(a)
  BY <1>1 DEF ProcessLva
<1>2. CASE Allocated(a)
  <2> DEFINE r == RegLeaveAll(a)
             b == [r EXCEPT !.app = OnRLeave(r.app)]
  <2>1. Raw(r) /\ r.app = a.app
    BY <1>2, RegistrarRaw DEF Good, Allocated
  <2>2. Keeps(r.app, OnRLeave(r.app)) /\ OnRLeave(r.app) \notin {"VO", "AO", "QO"}
    BY <2>1, LeaveKeeps DEF Raw, AttrType, AppStates
  <2>3. Raw(b) /\ b.app = OnRLeave(r.app)
    BY <2>1, <2>2, SetApp
  <2>4. ProcessLva(a) = FreeCheck(b) /\ FreeCheck(b) = b
    BY <1>2, <2>2, <2>3 DEF ProcessLva, FreeCheck
  <2> HIDE DEF r, b
  <2> QED
    BY <2>1, <2>2, <2>3, <2>4, FreeCheckGood, <1>2 DEF Keeps, Allocated
<1> QED
  BY <1>1, <1>2

\* A received attribute event, on an attribute that is created if needed.
LEMMA ProcessEventGood ==
  ASSUME NEW a, Good(a), NEW ev
  PROVE  /\ Good(ProcessEvent(a, ev))
         /\ ProcessEvent(a, ev).app \in Declaring <=> a.app \in Declaring
<1> DEFINE g == GetAttr(a)
           r == RegReceived(g, ev)
           b == [r EXCEPT !.app = OnReceived(r.app, ev)]
<1>1. Raw(g) /\ g.app \in ApplicantStates /\ (g.app \in Declaring <=> a.app \in Declaring)
  BY GetAttrRaw DEF Good
<1>2. g.app # "none"
  BY <1>1 DEF ApplicantStates
<1>3. Raw(r) /\ r.app = g.app
  BY <1>1, <1>2, RegistrarRaw
<1>4. Keeps(r.app, OnReceived(r.app, ev))
  BY <1>3, ReceivedKeeps DEF Raw, AttrType, AppStates
<1>5. Raw(b) /\ b.app = OnReceived(r.app, ev)
  BY <1>3, <1>4, SetApp
<1>6. ProcessEvent(a, ev) = FreeCheck(b)
  BY DEF ProcessEvent
<1> HIDE DEF g, r, b
<1> QED
  BY <1>1, <1>3, <1>4, <1>5, <1>6, FreeCheckGood DEF Keeps

\* mrp_process_attribute_leave_immediate.
LEMMA GiveUpGood ==
  ASSUME NEW a, Good(a)
  PROVE  Good(GiveUp(a)) /\ (GiveUp(a).app \in Declaring <=> a.app \in Declaring)
<1> DEFINE r == RegLeaveImmediate(a)
           b == [r EXCEPT !.app = OnRLeave(r.app)]
<1>1. Raw(r) /\ r.app = a.app
  BY LeaveRaw DEF Good
<1>2. Keeps(r.app, OnRLeave(r.app))
  BY <1>1, LeaveKeeps DEF Raw, AttrType, AppStates
<1>3. Raw(b) /\ b.app = OnRLeave(r.app)
  BY <1>1, <1>2, SetApp
<1>4. GiveUp(a) = FreeCheck(b)
  BY DEF GiveUp
<1> HIDE DEF r, b
<1> QED
  BY <1>1, <1>2, <1>3, <1>4, FreeCheckGood DEF Keeps

-----------------------------------------------------------------------------
(* The join timer.                                                         *)

\* A request leaves the timer running when something is anxious, provided it
\* ran for what was anxious before, or everything anxious has just become so.
LEMMA TransmitRequestOK ==
  ASSUME NEW timer \in Nat \cup {Off}, NEW old, NEW new,
         \/ (\E x \in Attrs : old[x] \in Anxious) => timer # Off
         \/ \A x \in Attrs : new[x] \in Anxious => new[x] # old[x]
  PROVE  /\ TransmitRequest(timer, old, new) \in Nat \cup {Off}
         /\ timer # Off => TransmitRequest(timer, old, new) # Off
         /\ (\E x \in Attrs : new[x] \in Anxious) => TransmitRequest(timer, old, new) # Off
<1>1. JoinTicks \in Nat /\ JoinTicks # Off
  BY TicksAssumption DEF Off
<1>2. ASSUME NEW x \in Attrs, new[x] \in Anxious, timer = Off
      PROVE  Requests(old, new)
  BY <1>2 DEF Requests
<1> QED
  BY <1>1, <1>2 DEF TransmitRequest

-----------------------------------------------------------------------------
(* The MRPDU under construction.                                           *)

\* The vectors whose events are in E.
VectorsOf(E) == [lva : BOOLEAN, values : {<<>>} \cup {<<v>> : v \in [x : Attrs, ev : E]}]

\* A LeaveAll vector adds no event to the PDU.
LEMMA AddLvaType ==
  ASSUME NEW E, NEW vs \in Seq(VectorsOf(E)) PROVE AddLva(vs) \in Seq(VectorsOf(E))
<1>1. CASE vs = <<>>
  <2>1. [lva |-> TRUE, values |-> <<>>] \in VectorsOf(E)
    BY DEF VectorsOf
  <2> QED
    BY <1>1, <2>1 DEF AddLva
<1>2. CASE vs # <<>>
  <2>1. Len(vs) \in 1..Len(vs) /\ vs[Len(vs)] \in VectorsOf(E)
    BY <1>2
  <2>2. [vs[Len(vs)] EXCEPT !.lva = TRUE] \in VectorsOf(E)
    BY <2>1 DEF VectorsOf
  <2>3. AddLva(vs) = [vs EXCEPT ![Len(vs)] = [vs[Len(vs)] EXCEPT !.lva = TRUE]]
    BY <1>2 DEF AddLva
  <2> QED
    BY <2>1, <2>2, <2>3
<1> QED
  BY <1>1, <1>2

\* Attribute events add only themselves.
LEMMA AddEventsType ==
  ASSUME NEW E, NEW vs \in Seq(VectorsOf(E)), NEW ord \in Seq(Attrs), NEW ev,
         \A i \in 1..Len(ord) : ev[ord[i]] \in E
  PROVE  AddEvents(vs, ord, ev) \in Seq(VectorsOf(E))
<1> DEFINE values(i) == <<[x |-> ord[i], ev |-> ev[ord[i]]]>>
           fill == vs # <<>> /\ vs[Len(vs)].values = <<>> /\ ord # <<>>
           old  == IF fill THEN [vs EXCEPT ![Len(vs)].values = values(1)] ELSE vs
           n    == IF fill THEN Len(ord) - 1 ELSE Len(ord)
           vec(i) == [lva |-> FALSE, values |-> values(Len(ord) - n + i)]
           new  == [i \in 1..n |-> vec(i)]
<1>1. Len(ord) \in Nat /\ (ord # <<>> => Len(ord) # 0) /\ \A i \in 1..Len(ord) : ord[i] \in Attrs
  OBVIOUS
<1>2. \A i \in 1..Len(ord) : values(i) \in {<<>>} \cup {<<v>> : v \in [x : Attrs, ev : E]}
  <2> SUFFICES ASSUME NEW i \in 1..Len(ord) PROVE values(i) \in {<<v>> : v \in [x : Attrs, ev : E]}
    OBVIOUS
  <2>1. [x |-> ord[i], ev |-> ev[ord[i]]] \in [x : Attrs, ev : E]
    BY <1>1
  <2> QED
    BY <2>1
<1>3. n \in Nat /\ \A i \in 1..n : Len(ord) - n + i \in 1..Len(ord)
  BY <1>1
<1>4. \A i \in 1..n : vec(i) \in VectorsOf(E)
  BY <1>2, <1>3 DEF VectorsOf
<1>5. new \in Seq(VectorsOf(E))
  <2> HIDE DEF vec, n
  <2> QED BY <1>3, <1>4, IsASeq
<1>6. old \in Seq(VectorsOf(E))
  <2>1. CASE ~fill
    BY <2>1
  <2>2. CASE fill
    <3>1. Len(vs) \in 1..Len(vs) /\ vs[Len(vs)] \in VectorsOf(E)
      BY <2>2
    <3>2. 1 \in 1..Len(ord)
      BY <2>2, <1>1
    <3>3. values(1) \in {<<>>} \cup {<<v>> : v \in [x : Attrs, ev : E]}
      BY <3>2, <1>2
    <3> HIDE DEF values
    <3>4. [vs[Len(vs)] EXCEPT !.values = values(1)] \in VectorsOf(E)
      BY <3>1, <3>3 DEF VectorsOf
    <3>5. old = [vs EXCEPT ![Len(vs)] = [vs[Len(vs)] EXCEPT !.values = values(1)]]
      BY <2>2
    <3> QED
      BY <3>1, <3>4, <3>5
  <2> QED
    BY <2>1, <2>2
<1>7. AddEvents(vs, ord, ev) = old \o new
  BY DEF AddEvents
<1> HIDE DEF old, new
<1> QED
  BY <1>5, <1>6, <1>7, ConcatProperties

\* The vectors of the model are those with any event.
LEMMA AllVectors == VectorType = VectorsOf(TxEvents)
BY DEF VectorType, ValueType, VectorsOf

\* An order of a set of attributes is a sequence of them.
LEMMA OrdersType ==
  ASSUME NEW S \in SUBSET Attrs, NEW ord \in Orders(S)
  PROVE  ord \in Seq(Attrs) /\ \A i \in 1..Len(ord) : ord[i] \in S
<1>1. Cardinality(S) \in Nat
  BY AttrsAssumption, FS_Subset, FS_CardinalityType
<1>2. ord \in [1..Cardinality(S) -> S]
  BY DEF Orders
<1>3. ord \in Seq(S)
  BY <1>1, <1>2, SeqDef
<1> QED
  BY <1>3, ElementOfSeq

-----------------------------------------------------------------------------
(* The steps.                                                              *)

\* What an action that changes only attributes of p does to the attributes.
Only(p, as) == attr' = [attr EXCEPT ![p] = as]

\* An action that replaces the attributes of p by good ones keeps all good.
LEMMA AttrStep ==
  ASSUME IInv, NEW p \in Parts, NEW as, DOMAIN as = Attrs, as = [x \in Attrs |-> as[x]],
         \A x \in Attrs : Good(as[x]), Only(p, as)
  PROVE  /\ attr' \in [Parts -> [Attrs -> AttrType]] /\ AllGood'
         /\ attr'[p] = as /\ \A q \in Parts \ {p} : attr'[q] = attr[q]
<1>1. as \in [Attrs -> AttrType]
  BY DEF Good, Raw
<1>2. attr \in [Parts -> [Attrs -> AttrType]]
  BY DEF IInv, TypeOK
<1>3. attr' \in [Parts -> [Attrs -> AttrType]] /\ attr'[p] = as /\ \A q \in Parts \ {p} : attr'[q] = attr[q]
  BY <1>1, <1>2 DEF Only
<1>4. AllGood'
  <2> SUFFICES ASSUME NEW q \in Parts, NEW x \in Attrs PROVE Good(attr'[q][x])
    BY DEF AllGood, Good, Raw
  <2> QED
    BY <1>3 DEF IInv, AllGood
<1> QED
  BY <1>3, <1>4

\* The declarations stay those of the applicants when the applicants keep them.
LEMMA DeclarationStep ==
  ASSUME IInv, NEW p \in Parts, \A q \in Parts \ {p} : attr'[q] = attr[q],
         \A x \in Attrs : attr'[p][x].app \in Declaring <=> attr[p][x].app \in Declaring,
         declared' = declared
  PROVE  DeclarationKept'
BY DEF IInv, DeclarationKept

\* The scheduling invariant, when only the join timer of p changes.
LEMMA ScheduleStep ==
  ASSUME IInv, NEW p \in Parts, NEW t \in Nat \cup {Off},
         \A q \in Parts \ {p} : attr'[q] = attr[q],
         join' = [join EXCEPT ![p] = t],
         (\E x \in Attrs : attr'[p][x].app \in Anxious) => t # Off,
         lva'[p].active /\ enabled'[p] => t # Off,
         \A q \in Parts \ {p} : lva'[q] = lva[q] /\ enabled'[q] = enabled[q]
  PROVE  AnxiousIsScheduled' /\ join' \in [Parts -> Nat \cup {Off}]
<1>1. join \in [Parts -> Nat \cup {Off}]
  BY DEF IInv, TypeOK
<1>2. \A q \in Parts : join'[q] = IF q = p THEN t ELSE join[q]
  BY <1>1
<1>3. join' \in [Parts -> Nat \cup {Off}]
  BY <1>1
<1>4. AnxiousIsScheduled'
  <2> SUFFICES ASSUME NEW q \in Parts
               PROVE  /\ (\E x \in Attrs : attr'[q][x].app \in Anxious) => join'[q] # Off
                      /\ lva'[q].active /\ enabled'[q] => join'[q] # Off
    BY DEF AnxiousIsScheduled
  <2>1. CASE q = p
    BY <2>1, <1>2
  <2>2. CASE q # p
    BY <2>2, <1>2 DEF IInv, AnxiousIsScheduled
  <2> QED
    BY <2>1, <2>2
<1> QED
  BY <1>3, <1>4

\* The precondition of TransmitRequestOK in the states between two handlers.
LEMMA Scheduled ==
  ASSUME IInv, NEW p \in Parts
  PROVE  /\ join[p] \in Nat \cup {Off}
         /\ (\E x \in Attrs : Apps(attr[p])[x] \in Anxious) => join[p] # Off
         /\ lva[p].active /\ enabled[p] => join[p] # Off
         /\ attr[p] \in [Attrs -> AttrType] /\ attr[p] = [x \in Attrs |-> attr[p][x]]
         /\ \A x \in Attrs : Good(attr[p][x]) /\ Raw(attr[p][x])
BY DEF IInv, TypeOK, AnxiousIsScheduled, AllGood, Apps, Good

\* One attribute of p becomes b, with the transmission it requests.
LEMMA OneAttr ==
  ASSUME IInv, NEW p \in Parts, NEW x \in Attrs, NEW b, Good(b),
         SetAttr(p, x, b), Started(p, x, b), lva' = lva, enabled' = enabled
  PROVE  /\ attr' \in [Parts -> [Attrs -> AttrType]] /\ AllGood'
         /\ join' \in [Parts -> Nat \cup {Off}] /\ AnxiousIsScheduled'
         /\ attr'[p][x] = b /\ \A y \in Attrs \ {x} : attr'[p][y] = attr[p][y]
         /\ \A q \in Parts \ {p} : attr'[q] = attr[q]
<1> DEFINE as == [attr[p] EXCEPT ![x] = b]
           t  == TransmitRequest(join[p], Apps(attr[p]), Apps(as))
<1>1. attr \in [Parts -> [Attrs -> AttrType]] /\ join \in [Parts -> Nat \cup {Off}]
  BY DEF IInv, TypeOK
<1>2. Only(p, as)
  BY <1>1 DEF Only, SetAttr
<1>3. DOMAIN as = Attrs /\ as = [y \in Attrs |-> as[y]] /\ \A y \in Attrs : as[y] = IF y = x THEN b ELSE attr[p][y]
  BY <1>1, Scheduled
<1>4. \A y \in Attrs : Good(as[y])
  BY <1>3, Scheduled
<1>5. join' = [join EXCEPT ![p] = t]
  BY <1>1 DEF Started
<1>6. t \in Nat \cup {Off} /\ (join[p] # Off => t # Off)
      /\ ((\E y \in Attrs : Apps(as)[y] \in Anxious) => t # Off)
  <2>1. join[p] \in Nat \cup {Off}
        /\ ((\E y \in Attrs : Apps(attr[p])[y] \in Anxious) => join[p] # Off)
    BY Scheduled
  <2> DEFINE new == Apps(as)
             old == Apps(attr[p])
  <2> HIDE DEF as, new, old
  <2>2. /\ TransmitRequest(join[p], old, new) \in Nat \cup {Off}
        /\ join[p] # Off => TransmitRequest(join[p], old, new) # Off
        /\ (\E y \in Attrs : new[y] \in Anxious) => TransmitRequest(join[p], old, new) # Off
    BY <2>1, TransmitRequestOK DEF old
  <2> QED
    BY <2>2 DEF new, old
<1> HIDE DEF as, t
<1>7. attr' \in [Parts -> [Attrs -> AttrType]] /\ AllGood' /\ attr'[p] = as
      /\ \A q \in Parts \ {p} : attr'[q] = attr[q]
  BY <1>2, <1>3, <1>4, AttrStep
<1>8. (\E y \in Attrs : attr'[p][y].app \in Anxious) => t # Off
  BY <1>6, <1>7 DEF Apps
<1>9. lva'[p].active /\ enabled'[p] => t # Off
  BY <1>6, Scheduled
<1>10. join' \in [Parts -> Nat \cup {Off}] /\ AnxiousIsScheduled'
  BY <1>5, <1>6, <1>7, <1>8, <1>9, ScheduleStep
<1> QED
  BY <1>3, <1>7, <1>10

\* The bounds are kept by the guards.
LEMMA CountUsed ==
  ASSUME NEW u \in UsedType
  PROVE  /\ u.losses < MaxLoss => [u EXCEPT !.losses = @ + 1] \in UsedType
         /\ u.leaves < MaxLeaves => [u EXCEPT !.leaves = @ + 1] \in UsedType
         /\ u.joins < MaxJoins => [u EXCEPT !.joins = @ + 1] \in UsedType
         /\ u.changes < MaxChanges => [u EXCEPT !.changes = @ + 1] \in UsedType
         /\ u.disables < MaxDisables => [u EXCEPT !.disables = @ + 1] \in UsedType
<1>1. \A m, n \in Nat : n \in 0..m /\ n < m => n + 1 \in 0..m
  OBVIOUS
<1>2. /\ u.losses \in Nat /\ u.leaves \in Nat /\ u.joins \in Nat
      /\ u.changes \in Nat /\ u.disables \in Nat
  BY DEF UsedType
<1>3. u.losses < MaxLoss => u.losses + 1 \in 0..MaxLoss
  BY <1>1, <1>2, BoundsAssumption DEF UsedType
<1>4. u.leaves < MaxLeaves => u.leaves + 1 \in 0..MaxLeaves
  BY <1>1, <1>2, BoundsAssumption DEF UsedType
<1>5. u.joins < MaxJoins => u.joins + 1 \in 0..MaxJoins
  BY <1>1, <1>2, BoundsAssumption DEF UsedType
<1>6. u.changes < MaxChanges => u.changes + 1 \in 0..MaxChanges
  BY <1>1, <1>2, BoundsAssumption DEF UsedType
<1>7. u.disables < MaxDisables => u.disables + 1 \in 0..MaxDisables
  BY <1>1, <1>2, BoundsAssumption DEF UsedType
<1> QED
  BY <1>3, <1>4, <1>5, <1>6, <1>7 DEF UsedType

\* mrp_mad_join_request preserves the invariant.
LEMMA JoinRequestStep ==
  ASSUME IInv, NEW p \in Parts, NEW x \in Attrs, NEW new \in BOOLEAN, JoinRequest(p, x, new)
  PROVE  IInv'
<1> DEFINE a == GetAttr(attr[p][x])
           st == IF new THEN OnNew(a.app) ELSE OnJoin(a.app)
           b == [a EXCEPT !.app = st]
<1>1. Raw(a) /\ a.app \in ApplicantStates
  BY GetAttrRaw, Scheduled
<1>2. st \in ApplicantStates /\ st \in Declaring
  BY <1>1, RequestStates
<1>3. SetAttr(p, x, b) /\ Started(p, x, b) /\ lva' = lva /\ enabled' = enabled
      /\ declared' = [declared EXCEPT ![p][x] = TRUE]
      /\ (Exclusive => \A y \in Attrs \ {x} : ~declared[p][y])
      /\ used.joins < MaxJoins /\ used' = [used EXCEPT !.joins = @ + 1]
      /\ pdu' = pdu /\ rx' = rx /\ wire' = wire /\ registered' = registered
  BY DEF JoinRequest
<1> HIDE DEF a, st
<1>4. Good(b) /\ b.app = st
  BY <1>1, <1>2 DEF Good, Raw, AttrType, ApplicantStates, Declaring
<1> HIDE DEF b
<1>5. /\ attr' \in [Parts -> [Attrs -> AttrType]] /\ AllGood'
      /\ join' \in [Parts -> Nat \cup {Off}] /\ AnxiousIsScheduled'
      /\ attr'[p][x] = b /\ \A y \in Attrs \ {x} : attr'[p][y] = attr[p][y]
      /\ \A q \in Parts \ {p} : attr'[q] = attr[q]
  BY <1>3, <1>4, OneAttr
<1>6. declared' \in [Parts -> [Attrs -> BOOLEAN]] /\ DeclarationKept'
  BY <1>2, <1>3, <1>4, <1>5 DEF IInv, TypeOK, DeclarationKept
<1>7. used' \in UsedType
  BY <1>3, CountUsed DEF IInv, TypeOK
<1>8. TypeOK'
  BY <1>3, <1>5, <1>6, <1>7 DEF IInv, TypeOK
<1>9. OneDeclared'
  BY <1>3 DEF IInv, TypeOK, OneDeclared
<1> QED
  BY <1>5, <1>6, <1>8, <1>9 DEF IInv

\* mrp_mad_leave_request preserves the invariant.
LEMMA LeaveRequestStep ==
  ASSUME IInv, NEW p \in Parts, NEW x \in Attrs, LeaveRequest(p, x)
  PROVE  IInv'
<1> DEFINE a == attr[p][x]
           c == [a EXCEPT !.app = OnLeave(a.app)]
           b == FreeCheck(c)
<1>1. Raw(a) /\ a.app \in ApplicantStates
  BY Scheduled DEF LeaveRequest, Allocated, Raw, AttrType
<1>2. OnLeave(a.app) \in ApplicantStates /\ OnLeave(a.app) \notin Declaring
  BY <1>1, RequestStates
<1>3. SetAttr(p, x, b) /\ Started(p, x, b) /\ lva' = lva /\ enabled' = enabled
      /\ declared' = [declared EXCEPT ![p][x] = FALSE]
      /\ used.leaves < MaxLeaves /\ used' = [used EXCEPT !.leaves = @ + 1]
      /\ pdu' = pdu /\ rx' = rx /\ wire' = wire /\ registered' = registered
  BY DEF LeaveRequest
<1> HIDE DEF a
<1>4. Raw(c) /\ c.app = OnLeave(a.app)
  BY <1>1, <1>2 DEF Raw, AttrType, ApplicantStates
<1> HIDE DEF c
<1>5. Good(b) /\ b.app \notin Declaring
  BY <1>2, <1>4, FreeCheckGood
<1> HIDE DEF b
<1>6. /\ attr' \in [Parts -> [Attrs -> AttrType]] /\ AllGood'
      /\ join' \in [Parts -> Nat \cup {Off}] /\ AnxiousIsScheduled'
      /\ attr'[p][x] = b /\ \A y \in Attrs \ {x} : attr'[p][y] = attr[p][y]
      /\ \A q \in Parts \ {p} : attr'[q] = attr[q]
  BY <1>3, <1>5, OneAttr
<1>7. declared' \in [Parts -> [Attrs -> BOOLEAN]] /\ DeclarationKept'
  BY <1>3, <1>5, <1>6 DEF IInv, TypeOK, DeclarationKept
<1>8. used' \in UsedType
  BY <1>3, CountUsed DEF IInv, TypeOK
<1>9. TypeOK'
  BY <1>3, <1>6, <1>7, <1>8 DEF IInv, TypeOK
<1>10. OneDeclared'
  BY <1>3 DEF IInv, TypeOK, OneDeclared
<1> QED
  BY <1>6, <1>7, <1>9, <1>10 DEF IInv

\* All attributes of p become bs after as, with the transmissions they request.
LEMMA ManyAttrs ==
  ASSUME IInv, NEW p \in Parts, NEW as, NEW bs,
         bs = [x \in Attrs |-> bs[x]], \A x \in Attrs : Good(bs[x]), Only(p, bs),
         NEW t \in Nat \cup {Off}, join[p] # Off => t # Off,
         (\E x \in Attrs : Apps(as)[x] \in Anxious) => t # Off,
         join' = [join EXCEPT ![p] = TransmitRequest(t, Apps(as), Apps(bs))],
         lva'[p].active /\ enabled'[p] => t # Off,
         \A q \in Parts \ {p} : lva'[q] = lva[q] /\ enabled'[q] = enabled[q]
  PROVE  /\ attr' \in [Parts -> [Attrs -> AttrType]] /\ AllGood'
         /\ join' \in [Parts -> Nat \cup {Off}] /\ AnxiousIsScheduled'
         /\ attr'[p] = bs /\ \A q \in Parts \ {p} : attr'[q] = attr[q]
<1> DEFINE old == Apps(as)
           new == Apps(bs)
           r == TransmitRequest(t, old, new)
<1>1. DOMAIN bs = Attrs /\ \A x \in Attrs : new[x] = bs[x].app
  BY DEF Apps
<1>2. (\E x \in Attrs : old[x] \in Anxious) => t # Off
  OBVIOUS
<1>3. attr' \in [Parts -> [Attrs -> AttrType]] /\ AllGood' /\ attr'[p] = bs
      /\ \A q \in Parts \ {p} : attr'[q] = attr[q]
  BY <1>1, AttrStep
<1> HIDE DEF old, new
<1>4. r \in Nat \cup {Off} /\ (t # Off => r # Off) /\ ((\E x \in Attrs : new[x] \in Anxious) => r # Off)
  BY <1>2, TransmitRequestOK
<1>5. join' = [join EXCEPT ![p] = r]
  BY DEF old, new
<1> HIDE DEF r
<1>6. /\ (\E x \in Attrs : attr'[p][x].app \in Anxious) => r # Off
      /\ lva'[p].active /\ enabled'[p] => r # Off
  BY <1>1, <1>3, <1>4
<1>7. join' \in [Parts -> Nat \cup {Off}] /\ AnxiousIsScheduled'
  BY <1>3, <1>4, <1>5, <1>6, ScheduleStep
<1> QED
  BY <1>3, <1>7

\* A change of declaration preserves the invariant: the new value is declared
\* only when its join has been packed.
LEMMA ChangeDeclarationStep ==
  ASSUME IInv, NEW p \in Parts, NEW x \in Attrs, NEW y \in Attrs, ChangeDeclaration(p, x, y)
  PROVE  IInv'
<1> DEFINE fresh == ~Allocated(attr[p][y])
           a == GetAttr(attr[p][y])
           b == [a EXCEPT !.app = OnTx(OnJoin(a.app), a.reg)]
           ev == [z \in {y} |-> TxEvent(OnJoin(a.app), a.reg)]
           freed == [attr[p] EXCEPT ![x] = NoAttr]
           as == IF fresh THEN [freed EXCEPT ![y] = b] ELSE freed
<1>1. /\ used.changes < MaxChanges /\ used' = [used EXCEPT !.changes = @ + 1]
      /\ declared[p][x] /\ x # y /\ Exclusive
      /\ Only(p, as)
      /\ join' = [join EXCEPT ![p] = TransmitRequest(join[p], Apps(freed), Apps(as))]
      /\ pdu' = [pdu EXCEPT ![p] = IF fresh THEN AddEvents(pdu[p], <<y>>, ev) ELSE pdu[p]]
      /\ declared' = [declared EXCEPT ![p][x] = FALSE, ![p][y] = fresh]
      /\ enabled' = enabled /\ lva' = lva /\ rx' = rx /\ wire' = wire /\ registered' = registered
  <2>1. join \in [Parts -> Nat \cup {Off}] /\ pdu \in [Parts -> Seq(VectorType)]
    BY DEF IInv, TypeOK
  <2> QED
    BY <2>1 DEF ChangeDeclaration, Only
<1>2. attr[p] \in [Attrs -> AttrType] /\ \A z \in Attrs : Good(attr[p][z])
  BY Scheduled
<1>3. fresh => a = [app |-> "VO", reg |-> "MT", leave |-> Off]
  BY DEF GetAttr
<1>4. fresh => OnJoin(a.app) = "VP" /\ OnTx("VP", a.reg) = "AA" /\ TxEvent("VP", a.reg) = "JOINMT"
  BY <1>3 DEF OnJoin, OnTx, TxEvent
<1>5. fresh => b = [app |-> "AA", reg |-> "MT", leave |-> Off]
  BY <1>3, <1>4
<1>6. Good(NoAttr) /\ Good([app |-> "AA", reg |-> "MT", leave |-> Off])
  BY DEF Good, Raw, NoAttr, AttrType, ApplicantStates, RegistrarStates, Off
<1>7. \A z \in Attrs : freed[z] = IF z = x THEN NoAttr ELSE attr[p][z]
  BY <1>2
<1>8. (fresh => as[y] = b) /\ \A z \in Attrs : z # y \/ ~fresh => as[z] = freed[z]
  BY <1>2, <1>7
<1>9. as = [z \in Attrs |-> as[z]]
  BY <1>2, <1>7
<1>10. fresh => <<y>> \in Seq(Attrs) /\ \A i \in 1..Len(<<y>>) : ev[<<y>>[i]] \in TxEvents
  BY <1>4 DEF TxEvents
<1>11. fresh => AddEvents(pdu[p], <<y>>, ev) \in Seq(VectorType)
  <2> HIDE DEF ev
  <2> QED BY <1>10, AddEventsType, AllVectors DEF IInv, TypeOK
<1>12. pdu' \in [Parts -> Seq(VectorType)]
  <2> HIDE DEF ev, fresh
  <2> QED BY <1>1, <1>11 DEF IInv, TypeOK
<1> HIDE DEF fresh, a, b, ev, as
<1>13. \A z \in Attrs : Good(as[z])
  BY <1>2, <1>5, <1>6, <1>7, <1>8
<1>14. (\E z \in Attrs : Apps(freed)[z] \in Anxious) => join[p] # Off
  <2> SUFFICES ASSUME NEW z \in Attrs, Apps(freed)[z] \in Anxious PROVE join[p] # Off
    OBVIOUS
  <2>1. freed[z].app \in Anxious /\ freed[z].app # "none"
    BY DEF Apps, Anxious
  <2>2. freed[z] = attr[p][z]
    BY <2>1, <1>7 DEF NoAttr
  <2> QED
    BY <2>1, <2>2, Scheduled DEF Apps
<1> HIDE DEF freed
<1>15. /\ attr' \in [Parts -> [Attrs -> AttrType]] /\ AllGood'
       /\ join' \in [Parts -> Nat \cup {Off}] /\ AnxiousIsScheduled'
       /\ attr'[p] = as /\ \A q \in Parts \ {p} : attr'[q] = attr[q]
  BY <1>1, <1>9, <1>13, <1>14, Scheduled, ManyAttrs
<1>16. declared' \in [Parts -> [Attrs -> BOOLEAN]] /\ DeclarationKept'
  <2>1. \A z \in Attrs : as[z].app \in Declaring <=> declared'[p][z]
    <3> SUFFICES ASSUME NEW z \in Attrs PROVE as[z].app \in Declaring <=> declared'[p][z]
      OBVIOUS
    <3>1. /\ z = y => declared'[p][z] = fresh
          /\ z = x => declared'[p][z] = FALSE
          /\ z # x /\ z # y => declared'[p][z] = declared[p][z]
      BY <1>1 DEF IInv, TypeOK
    <3>2. CASE z = y /\ fresh
      <4>1. as[z] = [app |-> "AA", reg |-> "MT", leave |-> Off]
        BY <3>2, <1>5, <1>8
      <4>2. as[z].app \in Declaring
        BY <4>1 DEF Declaring
      <4>3. declared'[p][z]
        BY <3>1, <3>2
      <4> QED
        BY <4>2, <4>3
    <3>3. CASE z = y /\ ~fresh
      <4>1. as[z] = attr[p][z] /\ ~declared[p][y]
        BY <3>3, <1>1, <1>7, <1>8 DEF IInv, OneDeclared
      <4>2. attr[p][y].app \notin Declaring
        BY <4>1 DEF IInv, DeclarationKept
      <4> QED
        BY <4>1, <4>2, <3>1, <3>3
    <3>4. CASE z = x /\ z # y
      <4>1. as[z] = NoAttr
        BY <3>4, <1>7, <1>8
      <4> QED
        BY <4>1, <3>1, <3>4 DEF Declaring, NoAttr
    <3>5. CASE z # x /\ z # y
      BY <3>1, <3>5, <1>7, <1>8 DEF IInv, DeclarationKept
    <3> QED
      BY <3>2, <3>3, <3>4, <3>5
  <2>2. declared' \in [Parts -> [Attrs -> BOOLEAN]]
    BY <1>1 DEF IInv, TypeOK, fresh
  <2>3. \A q \in Parts \ {p} : declared'[q] = declared[q]
    BY <1>1 DEF IInv, TypeOK
  <2> QED
    BY <2>1, <2>2, <2>3, <1>15 DEF IInv, DeclarationKept
<1>17. used' \in UsedType
  BY <1>1, CountUsed DEF IInv, TypeOK
<1>18. TypeOK'
  BY <1>1, <1>12, <1>15, <1>16, <1>17 DEF IInv, TypeOK
<1>19. OneDeclared'
  BY <1>1 DEF IInv, TypeOK, OneDeclared
<1> QED
  BY <1>15, <1>16, <1>18, <1>19 DEF IInv

\* mrp_disable preserves the invariant: nothing is left to send.
LEMMA DisableStep ==
  ASSUME IInv, NEW p \in Parts, Disable(p) PROVE IInv'
<1> DEFINE none == [x \in Attrs |-> NoAttr]
<1>1. /\ used.disables < MaxDisables /\ used' = [used EXCEPT !.disables = @ + 1]
      /\ enabled' = [enabled EXCEPT ![p] = FALSE] /\ Only(p, none)
      /\ join' = [join EXCEPT ![p] = Off] /\ lva' = [lva EXCEPT ![p].timer = Off]
      /\ declared' = [declared EXCEPT ![p] = [x \in Attrs |-> FALSE]]
      /\ registered' = [registered EXCEPT ![p] = [x \in Attrs |-> FALSE]]
      /\ pdu' = pdu /\ rx' = rx /\ wire' = wire
  BY DEF Disable, Only
<1>2. Good(NoAttr) /\ NoAttr.app \notin Anxious /\ NoAttr.app \notin Declaring
  BY DEF Good, Raw, NoAttr, AttrType, RegistrarStates, Off, Anxious, Declaring
<1>3. attr' \in [Parts -> [Attrs -> AttrType]] /\ AllGood' /\ attr'[p] = none
      /\ \A q \in Parts \ {p} : attr'[q] = attr[q]
  <2>1. DOMAIN none = Attrs /\ none = [x \in Attrs |-> none[x]] /\ \A x \in Attrs : Good(none[x])
    BY <1>2
  <2> HIDE DEF none
  <2> QED BY <1>1, <2>1, AttrStep
<1>4. enabled' \in [Parts -> BOOLEAN] /\ enabled'[p] = FALSE /\ \A q \in Parts \ {p} : enabled'[q] = enabled[q]
  BY <1>1 DEF IInv, TypeOK
<1>5. lva' \in [Parts -> [active : BOOLEAN, timer : Nat \cup {Off}]]
      /\ \A q \in Parts \ {p} : lva'[q] = lva[q]
  BY <1>1 DEF IInv, TypeOK
<1>6. join' \in [Parts -> Nat \cup {Off}] /\ AnxiousIsScheduled'
  <2>1. ~(\E x \in Attrs : attr'[p][x].app \in Anxious)
    BY <1>2, <1>3
  <2>2. Off \in Nat \cup {Off} /\ join' = [join EXCEPT ![p] = Off]
    BY <1>1
  <2> QED
    BY <1>3, <1>4, <1>5, <2>1, <2>2, ScheduleStep
<1>7. declared' \in [Parts -> [Attrs -> BOOLEAN]] /\ registered' \in [Parts -> [Attrs -> BOOLEAN]]
  BY <1>1 DEF IInv, TypeOK
<1>8. DeclarationKept' /\ OneDeclared'
  <2>1. \A x \in Attrs : declared'[p][x] = FALSE
    BY <1>1 DEF IInv, TypeOK
  <2>2. \A q \in Parts \ {p} : declared'[q] = declared[q]
    BY <1>1 DEF IInv, TypeOK
  <2>3. \A x \in Attrs : attr'[p][x].app \notin Declaring
    BY <1>2, <1>3
  <2> QED
    BY <2>1, <2>2, <2>3, <1>3 DEF IInv, DeclarationKept, OneDeclared
<1>9. used' \in UsedType
  BY <1>1, CountUsed DEF IInv, TypeOK
<1>10. TypeOK'
  BY <1>1, <1>3, <1>4, <1>5, <1>6, <1>7, <1>9 DEF IInv, TypeOK
<1> QED
  BY <1>3, <1>6, <1>8, <1>10 DEF IInv

\* What the LeaveAll state machine does to its own state keeps the types.
LEMMA LvaType ==
  ASSUME IInv, NEW p \in Parts, NEW act \in BOOLEAN
  PROVE  /\ [lva EXCEPT ![p] = [active |-> act, timer |-> LvaTicks]]
              \in [Parts -> [active : BOOLEAN, timer : Nat \cup {Off}]]
         /\ [lva EXCEPT ![p].active = act] \in [Parts -> [active : BOOLEAN, timer : Nat \cup {Off}]]
BY TicksAssumption DEF IInv, TypeOK

\* mrp_enable preserves the invariant.
LEMMA EnableStep ==
  ASSUME IInv, NEW p \in Parts, Enable(p) PROVE IInv'
<1>1. enabled' = [enabled EXCEPT ![p] = TRUE]
      /\ lva' = [lva EXCEPT ![p] = [active |-> FALSE, timer |-> LvaTicks]]
      /\ UNCHANGED <<attr, join, pdu, rx, wire, declared, registered, used>>
  BY DEF Enable
<1>2. TypeOK'
  BY <1>1, LvaType DEF IInv, TypeOK
<1>3. AnxiousIsScheduled'
  BY <1>1 DEF IInv, TypeOK, AnxiousIsScheduled
<1>4. AllGood' /\ DeclarationKept' /\ OneDeclared'
  BY <1>1 DEF IInv, AllGood, DeclarationKept, OneDeclared
<1> QED
  BY <1>2, <1>3, <1>4 DEF IInv

\* mrp_leaveall_timer_handler preserves the invariant.
LEMMA LeaveAllTimerStep ==
  ASSUME IInv, NEW p \in Parts, LeaveAllTimer(p) PROVE IInv'
<1> DEFINE t == IF join[p] = Off THEN JoinTicks ELSE join[p]
<1>1. /\ lva' = [lva EXCEPT ![p] = [active |-> TRUE, timer |-> LvaTicks]]
      /\ join' = [join EXCEPT ![p] = t]
      /\ UNCHANGED <<attr, enabled, pdu, rx, wire, declared, registered, used>>
  BY DEF LeaveAllTimer, IInv, TypeOK
<1>2. t \in Nat \cup {Off} /\ t # Off
  <2>1. JoinTicks \in Nat /\ JoinTicks # Off
    BY TicksAssumption DEF Off
  <2> QED
    BY <2>1, Scheduled
<1>3. \A q \in Parts \ {p} : lva'[q] = lva[q]
  BY <1>1 DEF IInv, TypeOK
<1> HIDE DEF t
<1>4. join' \in [Parts -> Nat \cup {Off}] /\ AnxiousIsScheduled'
  BY <1>1, <1>2, <1>3, ScheduleStep
<1>5. TypeOK'
  BY <1>1, <1>4, LvaType DEF IInv, TypeOK
<1>6. AllGood' /\ DeclarationKept' /\ OneDeclared'
  BY <1>1 DEF IInv, AllGood, DeclarationKept, OneDeclared
<1> QED
  BY <1>4, <1>5, <1>6 DEF IInv

\* mrp_leave_timer_handler preserves the invariant.
LEMMA LeaveTimerStep ==
  ASSUME IInv, NEW p \in Parts, NEW x \in Attrs, LeaveTimer(p, x) PROVE IInv'
<1> DEFINE c == [RegTimeout(attr[p][x]) EXCEPT !.leave = Off]
           b == FreeCheck(c)
           as == [attr[p] EXCEPT ![x] = b]
<1>1. /\ SetAttr(p, x, b)
      /\ registered' = [registered EXCEPT ![p][x] = IF attr[p][x].reg = "LV" THEN FALSE ELSE @]
      /\ UNCHANGED <<enabled, join, lva, pdu, rx, wire, declared, used>>
  BY DEF LeaveTimer
<1>2. Raw(c) /\ c.app = attr[p][x].app
  BY Scheduled, LeaveRaw
<1> HIDE DEF c
<1>3. /\ Good(b) /\ (b.app \in Declaring <=> attr[p][x].app \in Declaring)
      /\ b.app \in Anxious => b.app = attr[p][x].app
  BY <1>2, FreeCheckGood
<1> HIDE DEF b
<1>4. Only(p, as)
  BY <1>1 DEF Only, SetAttr, IInv, TypeOK
<1>5. DOMAIN as = Attrs /\ as = [y \in Attrs |-> as[y]] /\ \A y \in Attrs : as[y] = IF y = x THEN b ELSE attr[p][y]
  BY Scheduled
<1>6. \A y \in Attrs : Good(as[y])
  BY <1>3, <1>5, Scheduled
<1> HIDE DEF as
<1>7. attr' \in [Parts -> [Attrs -> AttrType]] /\ AllGood' /\ attr'[p] = as
      /\ \A q \in Parts \ {p} : attr'[q] = attr[q]
  BY <1>4, <1>5, <1>6, AttrStep
<1>8. \A y \in Attrs : as[y].app \in Declaring <=> attr[p][y].app \in Declaring
  BY <1>3, <1>5
<1>9. DeclarationKept' /\ OneDeclared'
  BY <1>1, <1>7, <1>8, DeclarationStep DEF IInv, OneDeclared
<1>10. \A y \in Attrs : as[y].app \in Anxious => attr[p][y].app \in Anxious
  BY <1>3, <1>5
<1>11. AnxiousIsScheduled'
  BY <1>1, <1>7, <1>10 DEF IInv, AnxiousIsScheduled
<1>12. registered' \in [Parts -> [Attrs -> BOOLEAN]]
  BY <1>1 DEF IInv, TypeOK
<1>13. TypeOK'
  BY <1>1, <1>7, <1>12 DEF IInv, TypeOK
<1> QED
  BY <1>7, <1>9, <1>11, <1>13 DEF IInv

\* mrp_periodic_timer_handler preserves the invariant.
LEMMA PeriodicTimerStep ==
  ASSUME IInv, NEW p \in Parts, PeriodicTimer(p) PROVE IInv'
<1> DEFINE as == [x \in Attrs |-> [attr[p][x] EXCEPT !.app = OnPeriodic(attr[p][x].app)]]
           old == attr[p]
<1>1. /\ Only(p, as)
      /\ join' = [join EXCEPT ![p] = TransmitRequest(join[p], Apps(old), Apps(as))]
      /\ UNCHANGED <<enabled, lva, pdu, rx, wire, declared, registered, used>>
  BY DEF PeriodicTimer, Only, IInv, TypeOK
<1>2. ASSUME NEW x \in Attrs
      PROVE  Good(as[x]) /\ (as[x].app \in Declaring <=> attr[p][x].app \in Declaring)
  <2> DEFINE a == attr[p][x]
             st == OnPeriodic(a.app)
  <2>1. Good(a) /\ Raw(a)
    BY Scheduled
  <2>2. Keeps(a.app, st) /\ (st \in {"VO", "AO", "QO"} => st = a.app)
    BY <2>1, PeriodicKeeps DEF Raw, AttrType, AppStates
  <2>3. as[x] = [a EXCEPT !.app = st]
    OBVIOUS
  <2> HIDE DEF a, st
  <2>4. Raw([a EXCEPT !.app = st]) /\ [a EXCEPT !.app = st].app = st /\ [a EXCEPT !.app = st].reg = a.reg
    BY <2>1, <2>2, SetApp DEF Raw, AttrType
  <2>5. Good(as[x]) /\ (as[x].app \in Declaring <=> a.app \in Declaring)
    BY <2>1, <2>2, <2>3, <2>4 DEF Good, Keeps
  <2> QED
    BY <2>5 DEF a
<1>3. as = [x \in Attrs |-> as[x]]
  OBVIOUS
<1> HIDE DEF as
<1>4. (\E x \in Attrs : Apps(old)[x] \in Anxious) => join[p] # Off
  BY Scheduled
<1>5. join[p] \in Nat \cup {Off} /\ (lva'[p].active /\ enabled'[p] => join[p] # Off)
  BY <1>1, Scheduled
<1> HIDE DEF old
<1>6. /\ attr' \in [Parts -> [Attrs -> AttrType]] /\ AllGood'
      /\ join' \in [Parts -> Nat \cup {Off}] /\ AnxiousIsScheduled'
      /\ attr'[p] = as /\ \A q \in Parts \ {p} : attr'[q] = attr[q]
  BY <1>1, <1>2, <1>3, <1>4, <1>5, ManyAttrs
<1>7. DeclarationKept' /\ OneDeclared'
  BY <1>1, <1>2, <1>6, DeclarationStep DEF IInv, OneDeclared
<1>8. TypeOK'
  BY <1>1, <1>6 DEF IInv, TypeOK
<1> QED
  BY <1>6, <1>7, <1>8 DEF IInv

\* Taking a PDU from the wire, to process it, drop it or lose it, keeps types.
LEMMA ReceiveStep ==
  ASSUME IInv, NEW p \in Parts, Receive(p) \/ Lose(p) PROVE IInv'
<1>1. wire[p] \in Seq(Seq(VectorType)) /\ wire[p] # <<>>
  BY DEF Receive, Lose, IInv, TypeOK
<1>2. Head(wire[p]) \in Seq(VectorType) /\ Tail(wire[p]) \in Seq(Seq(VectorType))
  BY <1>1
<1>3. wire' \in [Parts -> Seq(Seq(VectorType))]
  BY <1>2 DEF Receive, Lose, IInv, TypeOK
<1>4. <<>> \in Seq(VectorType)
  OBVIOUS
<1>5. rx' \in [Parts -> Seq(VectorType)]
  BY <1>2, <1>4 DEF Receive, Lose, IInv, TypeOK
<1>6. used' \in UsedType
  <2>1. CASE Receive(p)
    BY <2>1 DEF Receive, IInv, TypeOK
  <2>2. CASE Lose(p)
    BY <2>2, CountUsed DEF Lose, IInv, TypeOK
  <2> QED
    BY <2>1, <2>2
<1>7. UNCHANGED <<attr, enabled, join, lva, pdu, declared, registered>>
  BY DEF Receive, Lose
<1>8. TypeOK'
  BY <1>3, <1>5, <1>6, <1>7 DEF IInv, TypeOK
<1>9. AllGood' /\ DeclarationKept' /\ AnxiousIsScheduled' /\ OneDeclared'
  BY <1>7 DEF IInv, AllGood, DeclarationKept, AnxiousIsScheduled, OneDeclared
<1> QED
  BY <1>8, <1>9 DEF IInv

\* A tick never stops a timer.
LEMMA CountDownOK ==
  ASSUME NEW t \in Nat \cup {Off}
  PROVE  CountDown(t) \in Nat \cup {Off} /\ (CountDown(t) = Off <=> t = Off)
BY DEF CountDown, Off

\* The passing of time preserves the invariant.
LEMMA TickStep ==
  ASSUME IInv, Tick PROVE IInv'
<1>1. /\ join' = [p \in Parts |-> CountDown(join[p])]
      /\ lva' = [p \in Parts |-> [lva[p] EXCEPT !.timer = CountDown(lva[p].timer)]]
      /\ attr' = [p \in Parts |-> [x \in Attrs |-> [attr[p][x] EXCEPT !.leave = CountDown(attr[p][x].leave)]]]
      /\ UNCHANGED <<enabled, pdu, rx, wire, declared, registered, used>>
  BY DEF Tick
<1>2. ASSUME NEW p \in Parts, NEW x \in Attrs
      PROVE  Good(attr'[p][x]) /\ attr'[p][x].app = attr[p][x].app
  <2> DEFINE a == attr[p][x]
             t == CountDown(a.leave)
  <2>1. Good(a)
    BY Scheduled
  <2>2. t \in Nat \cup {Off} /\ (t = Off <=> a.leave = Off)
    BY <2>1, CountDownOK DEF Good, Raw, AttrType
  <2>3. attr'[p][x] = [a EXCEPT !.leave = t]
    BY <1>1
  <2> HIDE DEF a, t
  <2>4. Good([a EXCEPT !.leave = t]) /\ [a EXCEPT !.leave = t].app = a.app
    BY <2>1, <2>2 DEF Good, Raw, AttrType
  <2> QED
    BY <2>3, <2>4 DEF a
<1>3. attr' \in [Parts -> [Attrs -> AttrType]]
  <2>1. \A p \in Parts, x \in Attrs : attr'[p][x] \in AttrType
    BY <1>2 DEF Good, Raw
  <2> QED
    BY <1>1, <2>1
<1>4. join' \in [Parts -> Nat \cup {Off}] /\ \A p \in Parts : join[p] # Off => join'[p] # Off
  BY <1>1, CountDownOK DEF IInv, TypeOK
<1>5. lva' \in [Parts -> [active : BOOLEAN, timer : Nat \cup {Off}]]
      /\ \A p \in Parts : lva'[p].active = lva[p].active
  <2>1. \A p \in Parts : lva[p] \in [active : BOOLEAN, timer : Nat \cup {Off}]
                         /\ CountDown(lva[p].timer) \in Nat \cup {Off}
    BY CountDownOK DEF IInv, TypeOK
  <2> QED
    BY <1>1, <2>1
<1>6. TypeOK'
  BY <1>1, <1>3, <1>4, <1>5 DEF IInv, TypeOK
<1>7. AllGood'
  BY <1>2 DEF AllGood, Good, Raw
<1>8. DeclarationKept' /\ OneDeclared'
  <2>1. declared' = declared
    BY <1>1
  <2>2. \A p \in Parts, x \in Attrs : attr'[p][x].app = attr[p][x].app
    BY <1>2
  <2>3. DeclarationKept'
    BY <2>1, <2>2 DEF IInv, DeclarationKept
  <2>4. OneDeclared'
    BY <2>1 DEF IInv, OneDeclared
  <2> QED
    BY <2>3, <2>4
<1>9. AnxiousIsScheduled'
  <2> SUFFICES ASSUME NEW p \in Parts
               PROVE  /\ (\E x \in Attrs : attr'[p][x].app \in Anxious) => join'[p] # Off
                      /\ lva'[p].active /\ enabled'[p] => join'[p] # Off
    BY DEF AnxiousIsScheduled
  <2>1. (\E x \in Attrs : attr[p][x].app \in Anxious) => join[p] # Off
    BY DEF IInv, AnxiousIsScheduled
  <2>2. lva[p].active /\ enabled[p] => join[p] # Off
    BY DEF IInv, AnxiousIsScheduled
  <2>3. enabled'[p] = enabled[p]
    BY <1>1
  <2> QED
    BY <2>1, <2>2, <2>3, <1>2, <1>4, <1>5
<1> QED
  BY <1>6, <1>7, <1>8, <1>9 DEF IInv

\* A transmission opportunity of one attribute: TX or TXLA, then
\* mrp_free_attribute_check.  What is anxious afterwards has just become so.
LEMMA OpportunityGood ==
  ASSUME NEW a, Good(a), NEW sla \in BOOLEAN
  PROVE  LET st == IF sla THEN OnTxLa(a.app) ELSE OnTx(a.app, a.reg)
             b  == FreeCheck([a EXCEPT !.app = st])
         IN  /\ Good(b) /\ (b.app \in Declaring <=> a.app \in Declaring)
             /\ b.app \in Anxious => b.app # a.app
<1> DEFINE st == IF sla THEN OnTxLa(a.app) ELSE OnTx(a.app, a.reg)
           c == [a EXCEPT !.app = st]
<1>1. Raw(a) /\ a.app \in AppStates
  BY DEF Good, Raw, AttrType, AppStates
<1>2. Keeps(a.app, st) /\ (st \in Anxious => st # a.app)
  BY <1>1, TxKeeps, TxLaKeeps
<1> HIDE DEF st
<1>3. Raw(c) /\ c.app = st
  BY <1>1, <1>2, SetApp
<1> HIDE DEF c
<1>4. Good(FreeCheck(c)) /\ (FreeCheck(c).app \in Declaring <=> c.app \in Declaring)
      /\ (FreeCheck(c).app \in Anxious => FreeCheck(c).app = c.app)
  BY <1>3, FreeCheckGood
<1>5. Good(FreeCheck(c)) /\ (FreeCheck(c).app \in Declaring <=> a.app \in Declaring)
      /\ (FreeCheck(c).app \in Anxious => FreeCheck(c).app # a.app)
  BY <1>2, <1>3, <1>4 DEF Keeps
<1> QED
  BY <1>5 DEF c, st

\* mrp_join_timer_handler preserves the invariant: the timer that expired is
\* started again for every attribute that is still anxious.
LEMMA JoinTimerStep ==
  ASSUME IInv, NEW p \in Parts, JoinTimer(p) PROVE IInv'
<1> DEFINE sla  == lva[p].active
           as   == IF sla THEN [x \in Attrs |-> ProcessLva(attr[p][x])] ELSE attr[p]
           ev   == [x \in Attrs |-> IF sla THEN TxLaEvent(as[x].app, as[x].reg)
                                           ELSE TxEvent(as[x].app, as[x].reg)]
           opp(a) == FreeCheck([a EXCEPT !.app = IF sla THEN OnTxLa(a.app) ELSE OnTx(a.app, a.reg)])
           bs   == [x \in Attrs |-> opp(as[x])]
           base == IF sla THEN AddLva(pdu[p]) ELSE pdu[p]
           j    == TransmitRequest(Off, Apps(attr[p]), Apps(as))
           req  == TransmitRequest(j, Apps(as), Apps(bs))
           S    == {x \in Attrs : ev[x] # NoEvent}
<1>1. /\ lva' = [lva EXCEPT ![p].active = FALSE]
      /\ Only(p, bs)
      /\ join' = [join EXCEPT ![p] = req]
      /\ pdu' = [pdu EXCEPT ![p] = <<>>]
      /\ UNCHANGED <<enabled, rx, declared, registered, used>>
  BY DEF JoinTimer, Only
<1>2. \E ord \in Orders(S) :
        wire' = IF AddEvents(base, ord, ev) = <<>> THEN wire
                ELSE [wire EXCEPT ![Peer(p)] = Append(wire[Peer(p)], AddEvents(base, ord, ev))]
  <2>1. Peer(p) \in Parts
    BY PartsAssumption DEF Peer
  <2> QED
    BY <2>1 DEF JoinTimer, IInv, TypeOK
<1>3. sla \in BOOLEAN /\ lva \in [Parts -> [active : BOOLEAN, timer : Nat \cup {Off}]]
  BY DEF IInv, TypeOK
<1>4. /\ as = [x \in Attrs |-> as[x]]
      /\ \A x \in Attrs : Good(as[x]) /\ (as[x].app \in Declaring <=> attr[p][x].app \in Declaring)
  BY Scheduled, ProcessLvaGood
<1>5. \A x \in Attrs : ev[x] \in TxEvents \cup {NoEvent}
  BY TxEvents_OK
<1>6. base \in Seq(VectorType)
  BY AddLvaType, AllVectors DEF IInv, TypeOK
<1>7. \A x \in Attrs : bs[x] = opp(as[x])
  OBVIOUS
<1>8. bs = [x \in Attrs |-> bs[x]] /\ DOMAIN bs = Attrs
  OBVIOUS
<1> HIDE DEF ev, base, as, bs
<1>9. ASSUME NEW x \in Attrs
      PROVE  /\ Good(bs[x]) /\ (bs[x].app \in Declaring <=> attr[p][x].app \in Declaring)
             /\ bs[x].app \in Anxious => bs[x].app # as[x].app
  <2>1. Good(opp(as[x])) /\ (opp(as[x]).app \in Declaring <=> as[x].app \in Declaring)
        /\ (opp(as[x]).app \in Anxious => opp(as[x]).app # as[x].app)
    BY <1>3, <1>4, OpportunityGood
  <2> QED
    BY <2>1, <1>4, <1>7
<1> HIDE DEF opp
<1>10. req \in Nat \cup {Off} /\ ((\E x \in Attrs : bs[x].app \in Anxious) => req # Off)
  <2>1. j \in Nat \cup {Off}
    BY TicksAssumption DEF TransmitRequest
  <2> HIDE DEF j
  <2>2. \A x \in Attrs : Apps(bs)[x] \in Anxious => Apps(bs)[x] # Apps(as)[x]
    BY <1>9 DEF Apps
  <2> DEFINE old == Apps(as)
             new == Apps(bs)
  <2>3. \A x \in Attrs : new[x] = bs[x].app
    BY DEF Apps
  <2> HIDE DEF old, new
  <2>4. TransmitRequest(j, old, new) \in Nat \cup {Off}
        /\ ((\E x \in Attrs : new[x] \in Anxious) => TransmitRequest(j, old, new) # Off)
    BY <2>1, <2>2, TransmitRequestOK DEF old, new
  <2> QED
    BY <2>3, <2>4 DEF old, new
<1> HIDE DEF req, j
<1>11. attr' \in [Parts -> [Attrs -> AttrType]] /\ AllGood' /\ attr'[p] = bs
       /\ \A q \in Parts \ {p} : attr'[q] = attr[q]
  BY <1>1, <1>8, <1>9, AttrStep
<1>12. lva' \in [Parts -> [active : BOOLEAN, timer : Nat \cup {Off}]]
       /\ lva'[p].active = FALSE /\ \A q \in Parts \ {p} : lva'[q] = lva[q]
  BY <1>1, <1>3
<1>13. join' \in [Parts -> Nat \cup {Off}] /\ AnxiousIsScheduled'
  BY <1>1, <1>10, <1>11, <1>12, ScheduleStep
<1>14. wire' \in [Parts -> Seq(Seq(VectorType))]
  <2>1. PICK ord \in Orders(S) :
          wire' = IF AddEvents(base, ord, ev) = <<>> THEN wire
                  ELSE [wire EXCEPT ![Peer(p)] = Append(wire[Peer(p)], AddEvents(base, ord, ev))]
    BY <1>2
  <2>2. ord \in Seq(Attrs) /\ \A i \in 1..Len(ord) : ord[i] \in S
    BY OrdersType
  <2>3. \A i \in 1..Len(ord) : ev[ord[i]] \in TxEvents
    BY <2>2, <1>5
  <2> DEFINE out == AddEvents(base, ord, ev)
  <2>4. out \in Seq(VectorType)
    BY <1>6, <2>2, <2>3, AddEventsType, AllVectors
  <2> HIDE DEF out
  <2>5. wire' = IF out = <<>> THEN wire ELSE [wire EXCEPT ![Peer(p)] = Append(wire[Peer(p)], out)]
    BY <2>1 DEF out
  <2>6. wire \in [Parts -> Seq(Seq(VectorType))] /\ Peer(p) \in Parts
    BY PartsAssumption DEF IInv, TypeOK, Peer
  <2>7. Append(wire[Peer(p)], out) \in Seq(Seq(VectorType))
    BY <2>4, <2>6, AppendProperties
  <2> QED
    BY <2>5, <2>6, <2>7
<1>15. pdu' \in [Parts -> Seq(VectorType)]
  BY <1>1 DEF IInv, TypeOK
<1>16. DeclarationKept' /\ OneDeclared'
  BY <1>1, <1>9, <1>11, DeclarationStep DEF IInv, OneDeclared
<1>17. TypeOK'
  BY <1>1, <1>11, <1>12, <1>13, <1>14, <1>15 DEF IInv, TypeOK
<1> QED
  BY <1>11, <1>13, <1>16, <1>17 DEF IInv

\* One vector of a received PDU preserves the invariant: LeaveAll, then the
\* attribute event with the rivals MSRP gives up.
LEMMA ProcessVectorStep ==
  ASSUME IInv, NEW p \in Parts, ProcessVector(p) PROVE IInv'
<1> DEFINE v  == Head(rx[p])
           e  == Head(v.values)
           as == IF v.lva THEN [x \in Attrs |-> ProcessLva(attr[p][x])] ELSE attr[p]
           told == registered[p]
           hs == HandleEvent(as, told, e.x, e.ev)
           bs == IF v.values = <<>> THEN as ELSE hs
           j  == TransmitRequest(join[p], Apps(attr[p]), Apps(as))
           hi == HandleIndications(as, told, e.x, e.ev)
<1>1. /\ rx[p] # <<>> /\ rx' = [rx EXCEPT ![p] = Tail(rx[p])]
      /\ Only(p, bs)
      /\ join' = [join EXCEPT ![p] = TransmitRequest(j, Apps(as), Apps(bs))]
      /\ lva' = IF v.lva THEN [lva EXCEPT ![p] = [active |-> FALSE, timer |-> LvaTicks]] ELSE lva
      /\ registered' = IF v.values = <<>> THEN registered ELSE [registered EXCEPT ![p] = hi]
      /\ UNCHANGED <<enabled, pdu, wire, declared, used>>
  <2>1. join \in [Parts -> Nat \cup {Off}] /\ registered \in [Parts -> [Attrs -> BOOLEAN]]
        /\ rx \in [Parts -> Seq(VectorType)]
    BY DEF IInv, TypeOK
  <2> QED
    BY <2>1 DEF ProcessVector, Only
<1>2. rx[p] \in Seq(VectorType) /\ registered[p] \in [Attrs -> BOOLEAN]
      /\ registered \in [Parts -> [Attrs -> BOOLEAN]]
  BY DEF IInv, TypeOK
<1>3. v \in VectorType /\ Tail(rx[p]) \in Seq(VectorType)
  BY <1>1, <1>2
<1>4. /\ as = [x \in Attrs |-> as[x]]
      /\ \A x \in Attrs : Good(as[x]) /\ (as[x].app \in Declaring <=> attr[p][x].app \in Declaring)
  BY Scheduled, ProcessLvaGood
<1>5. hs = [x \in Attrs |-> hs[x]] /\ hi = [x \in Attrs |-> hi[x]]
  BY DEF HandleEvent, HandleIndications
<1> HIDE DEF as, v, e
<1>6. ASSUME NEW x \in Attrs
      PROVE  Good(hs[x]) /\ (hs[x].app \in Declaring <=> as[x].app \in Declaring)
  <2>1. hs[x] \in {ProcessEvent(as[x], e.ev), GiveUp(as[x]), as[x]}
    BY DEF HandleEvent
  <2> QED
    BY <2>1, <1>4, ProcessEventGood, GiveUpGood
<1>7. ASSUME NEW x \in Attrs PROVE hi[x] \in BOOLEAN
  <2>1. told[x] \in BOOLEAN
    BY <1>2
  <2>2. Indicated(as[x].reg, e.ev, told[x]) \in BOOLEAN
    BY <2>1 DEF Indicated
  <2>3. hi[x] \in {Indicated(as[x].reg, e.ev, told[x]), FALSE, told[x]}
    BY DEF HandleIndications
  <2> QED
    BY <2>1, <2>2, <2>3
<1> HIDE DEF hs, hi, told
<1>8. /\ bs = [x \in Attrs |-> bs[x]]
      /\ \A x \in Attrs : Good(bs[x]) /\ (bs[x].app \in Declaring <=> attr[p][x].app \in Declaring)
  BY <1>4, <1>5, <1>6
<1> HIDE DEF bs
<1>9. /\ j \in Nat \cup {Off} /\ (join[p] # Off => j # Off)
      /\ (\E x \in Attrs : Apps(as)[x] \in Anxious) => j # Off
  <2> DEFINE old == Apps(attr[p])
             new == Apps(as)
  <2>1. join[p] \in Nat \cup {Off} /\ ((\E x \in Attrs : old[x] \in Anxious) => join[p] # Off)
    BY Scheduled
  <2> HIDE DEF old, new
  <2>2. /\ TransmitRequest(join[p], old, new) \in Nat \cup {Off}
        /\ join[p] # Off => TransmitRequest(join[p], old, new) # Off
        /\ (\E x \in Attrs : new[x] \in Anxious) => TransmitRequest(join[p], old, new) # Off
    BY <2>1, TransmitRequestOK
  <2> QED
    BY <2>2 DEF old, new
<1> HIDE DEF j
<1>10. /\ lva' \in [Parts -> [active : BOOLEAN, timer : Nat \cup {Off}]]
       /\ lva'[p].active => lva[p].active
       /\ \A q \in Parts \ {p} : lva'[q] = lva[q]
  BY <1>1, LvaType DEF IInv, TypeOK
<1>11. enabled' = enabled /\ (lva'[p].active /\ enabled'[p] => j # Off)
  BY <1>1, <1>9, <1>10, Scheduled
<1>12. /\ attr' \in [Parts -> [Attrs -> AttrType]] /\ AllGood'
       /\ join' \in [Parts -> Nat \cup {Off}] /\ AnxiousIsScheduled'
       /\ attr'[p] = bs /\ \A q \in Parts \ {p} : attr'[q] = attr[q]
  <2>1. Only(p, bs) /\ join' = [join EXCEPT ![p] = TransmitRequest(j, Apps(as), Apps(bs))]
    BY <1>1
  <2>2. bs = [x \in Attrs |-> bs[x]]
    BY <1>8
  <2>3. \A x \in Attrs : Good(bs[x])
    BY <1>8
  <2>4. \A q \in Parts \ {p} : lva'[q] = lva[q] /\ enabled'[q] = enabled[q]
    BY <1>10, <1>11
  <2>5. lva'[p].active /\ enabled'[p] => j # Off
    BY <1>11
  <2> QED
    BY <1>9, <2>1, <2>2, <2>3, <2>4, <2>5, ManyAttrs
<1>13. registered' \in [Parts -> [Attrs -> BOOLEAN]]
  <2>1. hi \in [Attrs -> BOOLEAN]
    BY <1>5, <1>7
  <2> QED
    BY <1>1, <1>2, <2>1
<1>14. rx' \in [Parts -> Seq(VectorType)]
  BY <1>1, <1>3 DEF IInv, TypeOK
<1>15. DeclarationKept' /\ OneDeclared'
  BY <1>1, <1>8, <1>12, DeclarationStep DEF IInv, OneDeclared
<1>16. TypeOK'
  BY <1>1, <1>10, <1>12, <1>13, <1>14 DEF IInv, TypeOK
<1> QED
  BY <1>12, <1>15, <1>16 DEF IInv

-----------------------------------------------------------------------------
(* The invariant.                                                          *)

\* mrp_init and mrp_enable establish the invariant.
LEMMA InitIInv == Init => IInv
<1> SUFFICES ASSUME Init PROVE IInv
  OBVIOUS
<1>1. Good(NoAttr) /\ NoAttr.app \notin Anxious /\ NoAttr.app \notin Declaring
  BY DEF Good, Raw, NoAttr, AttrType, RegistrarStates, Off, Anxious, Declaring
<1>2. \A p \in Parts : \A x \in Attrs : attr[p][x] = NoAttr
  BY DEF Init
<1>3. attr \in [Parts -> [Attrs -> AttrType]]
  BY <1>1 DEF Init, Good, Raw
<1>4. used \in UsedType
  BY BoundsAssumption DEF Init, UsedType
<1>5. TypeOK
  BY <1>3, <1>4, TicksAssumption DEF Init, TypeOK
<1>6. AllGood /\ DeclarationKept
  <2>1. \A p \in Parts : \A x \in Attrs : declared[p][x] = FALSE
    BY DEF Init
  <2> QED
    BY <1>1, <1>2, <2>1 DEF AllGood, DeclarationKept
<1>7. AnxiousIsScheduled
  <2>1. \A p \in Parts : lva[p].active = FALSE
    BY DEF Init
  <2> QED
    BY <1>1, <1>2, <2>1 DEF AnxiousIsScheduled
<1>8. OneDeclared
  BY DEF Init, OneDeclared
<1> QED
  BY <1>5, <1>6, <1>7, <1>8 DEF IInv

\* Every step preserves the invariant, and so does a stuttering step.
LEMMA NextIInv == IInv /\ [Next]_vars => IInv'
<1> SUFFICES ASSUME IInv, [Next]_vars PROVE IInv'
  OBVIOUS
<1>1. ASSUME NEW p \in Parts, Request(p) PROVE IInv'
  BY <1>1, JoinRequestStep, LeaveRequestStep, ChangeDeclarationStep, DisableStep, EnableStep DEF Request
<1>2. ASSUME NEW p \in Parts, Timer(p) PROVE IInv'
  BY <1>2, JoinTimerStep, LeaveAllTimerStep, LeaveTimerStep, PeriodicTimerStep DEF Timer
<1>3. ASSUME NEW p \in Parts, Receive(p) \/ ProcessVector(p) \/ Lose(p) PROVE IInv'
  BY <1>3, ReceiveStep, ProcessVectorStep
<1>4. CASE UNCHANGED vars
  BY <1>4 DEF vars, IInv, TypeOK, AllGood, DeclarationKept, AnxiousIsScheduled, OneDeclared
<1> QED
  BY <1>1, <1>2, <1>3, <1>4, TickStep DEF Next

\* The invariant holds in every reachable state.
THEOREM Invariance == Spec => []IInv
BY InitIInv, NextIInv, PTL DEF Spec

\* Every variable keeps its type, whatever the PDUs, timers and requests.
THEOREM TypeCorrect == Spec => []TypeOK
<1>1. IInv => TypeOK
  BY DEF IInv
<1> QED
  BY <1>1, Invariance, PTL

\* No reception, timer or change makes an applicant lose or invent a
\* declaration of the application.
THEOREM DeclarationsKept == Spec => []DeclarationKept
<1>1. IInv => DeclarationKept
  BY DEF IInv
<1> QED
  BY <1>1, Invariance, PTL

\* Whatever has to be sent has a running join timer.
THEOREM AlwaysScheduled == Spec => []AnxiousIsScheduled
<1>1. IInv => AnxiousIsScheduled
  BY DEF IInv
<1> QED
  BY <1>1, Invariance, PTL

\* A registration being left has a running leave timer.
THEOREM LeavesAreTimed == Spec => []LeavingIsTimed
<1>1. IInv => LeavingIsTimed
  BY DEF IInv, AllGood, Good, Raw, LeavingIsTimed
<1> QED
  BY <1>1, Invariance, PTL

\* Processing LeaveAll never frees an attribute, so the list walk that
\* processes it never steps on a freed entry.
THEOREM LeaveAllKeeps == Spec => []LeaveAllNeverFrees
<1>1. IInv => LeaveAllNeverFrees
  BY ProcessLvaGood DEF IInv, AllGood, LeaveAllNeverFrees
<1> QED
  BY <1>1, Invariance, PTL

\* An attribute nobody declares, registers or has to send is freed.
THEOREM NothingUnused == Spec => []NoGarbage
<1>1. ASSUME NEW a, Good(a), Allocated(a)
      PROVE  a.app \in Declaring \cup {"LA", "LO"} \/ a.reg # "MT"
  BY <1>1 DEF Good, Raw, Allocated, AttrType, ApplicantStates, Declaring
<1>2. IInv => NoGarbage
  BY <1>1 DEF IInv, AllGood, NoGarbage
<1> QED
  BY <1>2, Invariance, PTL
-----------------------------------------------------------------------------
(* What the application is told.                                           *)

\* The events by which a participant declares an attribute to its peer.
Joining == {"NEW", "JOININ", "JOINMT"}

\* The vectors a participant that declares nothing can send.
QuietVectors == VectorsOf(TxEvents \ Joining)

\* p has never declared anything: nothing p has packed, sent or got through to
\* its peer joins, and the peer has registered nothing.
Silent(p) ==
  /\ \A x \in Attrs : ~declared[p][x] /\ ~registered[Peer(p)][x]
  /\ pdu[p] \in Seq(QuietVectors)
  /\ wire[Peer(p)] \in Seq(Seq(QuietVectors))
  /\ rx[Peer(p)] \in Seq(QuietVectors)

\* The listener declarations of a stream flow one way on a link, from the
\* listeners towards the talker; VLANs are declared by both sides.
OneWay == Exclusive => Declarers # Parts

ToldInv == IndicationsAgree /\ \A p \in Parts \ Declarers : Silent(p)

\* The peer of the peer is the participant itself.
LEMMA PeerOfPeer ==
  ASSUME NEW p \in Parts
  PROVE  Peer(p) \in Parts /\ Peer(p) # p /\ Peer(Peer(p)) = p /\ Parts = {p, Peer(p)}
<1>1. PICK a, b \in Parts : a # b /\ Parts = {a, b}
  BY PartsAssumption
<1>2. \A q \in Parts : Peer(q) \in Parts /\ Peer(q) # q
  BY <1>1 DEF Peer
<1> QED
  BY <1>1, <1>2

\* Only a declaring applicant sends a join.
LEMMA JoinsDeclare ==
  ASSUME NEW st, NEW reg
  PROVE  /\ TxEvent(st, reg) \in Joining => st \in Declaring
         /\ TxLaEvent(st, reg) \in Joining => st \in Declaring
<1>1. TxEvent(st, reg) \in Joining => st \in {"VN", "AN", "VP", "AP", "AA"}
  BY DEF TxEvent, Joining, NoEvent
<1>2. TxLaEvent(st, reg) \in Joining => st \in {"VN", "AN", "AA", "AP", "QP", "QA"}
  BY DEF TxLaEvent, Joining, NoEvent
<1> QED
  BY <1>1, <1>2 DEF Declaring

\* Freeing, allocating and the applicant state machine leave the registrar.
LEMMA RegistrarKept ==
  ASSUME NEW a, Raw(a), NEW st
  PROVE  FreeCheck([a EXCEPT !.app = st]).reg = a.reg /\ GetAttr(a).reg = a.reg
         /\ [a EXCEPT !.app = st].reg = a.reg /\ FreeCheck(a).reg = a.reg
BY DEF Raw, AttrType, FreeCheck, GetAttr, Allocated, NoAttr

\* LeaveAll starts the leave of a registration and does not end it.
LEMMA LvaKeepsRegistration ==
  ASSUME NEW a, Good(a) PROVE ProcessLva(a).reg = "MT" <=> a.reg = "MT"
<1> DEFINE r == RegLeaveAll(a)
<1>1. CASE ~Allocated(a)
  BY <1>1 DEF ProcessLva
<1>2. CASE Allocated(a)
  <2>1. Raw(r) /\ (r.reg = "MT" <=> a.reg = "MT")
    <3>1. Raw(r)
      BY <1>2, RegistrarRaw DEF Good, Allocated
    <3> QED
      BY <3>1 DEF RegLeaveAll, Good, Raw, AttrType
  <2>2. ProcessLva(a) = FreeCheck([r EXCEPT !.app = OnRLeave(r.app)])
    BY <1>2 DEF ProcessLva
  <2> HIDE DEF r
  <2> QED
    BY <2>1, <2>2, RegistrarKept
<1> QED
  BY <1>1, <1>2

\* A received event and the indication it gives agree.
LEMMA EventIndicated ==
  ASSUME NEW a, Good(a), NEW told \in BOOLEAN, told <=> a.reg # "MT", NEW ev \in TxEvents
  PROVE  Indicated(a.reg, ev, told) <=> ProcessEvent(a, ev).reg # "MT"
<1> DEFINE g == GetAttr(a)
           r == RegReceived(g, ev)
<1>1. Raw(g) /\ g.app # "none" /\ g.reg = a.reg
  BY GetAttrRaw, RegistrarKept DEF Good, ApplicantStates
<1>2. Raw(r)
  BY <1>1, RegistrarRaw
<1>3. ProcessEvent(a, ev) = FreeCheck([r EXCEPT !.app = OnReceived(r.app, ev)])
  BY DEF ProcessEvent
<1>4. ProcessEvent(a, ev).reg = r.reg
  <2> HIDE DEF r
  <2> QED BY <1>2, <1>3, RegistrarKept
<1> HIDE DEF g
<1>5. CASE ev \in Joining
  <2>1. r.reg = "IN"
    BY <1>1, <1>5 DEF RegReceived, RegJoin, Joining, Raw, AttrType
  <2>2. Indicated(a.reg, ev, told)
    BY <1>5 DEF Indicated, Joins, Joining
  <2> QED
    BY <1>4, <2>1, <2>2
<1>6. CASE ev = "LV"
  <2>1. r.reg = IF a.reg = "IN" THEN "MT" ELSE a.reg
    BY <1>1, <1>6 DEF RegReceived, RegLeave, Raw, AttrType
  <2>2. Indicated(a.reg, ev, told) = IF a.reg = "IN" THEN FALSE ELSE told
    BY <1>6 DEF Indicated, Joins
  <2> QED
    BY <1>4, <2>1, <2>2
<1>7. CASE ev \in TxEvents \ (Joining \cup {"LV"})
  <2>1. r.reg = a.reg
    BY <1>1, <1>7 DEF RegReceived, Joining
  <2>2. Indicated(a.reg, ev, told) = told
    BY <1>7 DEF Indicated, Joins, Joining
  <2> QED
    BY <1>4, <2>1, <2>2
<1> QED
  BY <1>5, <1>6, <1>7

\* What is given up is no longer registered.
LEMMA GivenUp ==
  ASSUME NEW a, Good(a) PROVE GiveUp(a).reg = "MT"
<1> DEFINE r == RegLeaveImmediate(a)
<1>1. Raw(r) /\ r.reg = "MT"
  BY LeaveRaw DEF Good, RegLeaveImmediate, Raw, AttrType
<1>2. GiveUp(a) = FreeCheck([r EXCEPT !.app = OnRLeave(r.app)])
  BY DEF GiveUp
<1> HIDE DEF r
<1> QED
  BY <1>1, <1>2, RegistrarKept

\* Nothing but a join makes the application hear of a registration.
LEMMA QuietIndication ==
  ASSUME NEW reg, NEW ev, ev \notin Joining PROVE Indicated(reg, ev, FALSE) = FALSE
BY DEF Indicated, Joins, Joining

\* A handler of p that keeps the registrations of p and what p was told alike.
LEMMA ToldStep ==
  ASSUME ToldInv, NEW p \in Parts,
         \A q \in Parts \ {p} : attr'[q] = attr[q] /\ registered'[q] = registered[q],
         \A x \in Attrs : registered'[p][x] <=> attr'[p][x].reg # "MT"
  PROVE  IndicationsAgree'
BY DEF ToldInv, IndicationsAgree

\* A handler that sends and receives nothing keeps a silent participant silent,
\* unless it makes the participant declare or its peer register.
LEMMA SilentStep ==
  ASSUME ToldInv, pdu' = pdu, rx' = rx, wire' = wire,
         \A q \in Parts, x \in Attrs :
           /\ declared'[q][x] => declared[q][x] \/ q \in Declarers
           /\ registered'[q][x] => registered[q][x]
  PROVE  \A p \in Parts \ Declarers : Silent(p)'
BY PeerOfPeer DEF ToldInv, Silent

\* Requests of the application leave the registrar alone.
LEMMA RequestTold ==
  ASSUME IInv, ToldInv, NEW p \in Parts, NEW x \in Attrs,
         (\E new \in BOOLEAN : JoinRequest(p, x, new)) \/ LeaveRequest(p, x)
  PROVE  ToldInv'
<1> DEFINE a == attr[p][x]
           b == attr'[p][x]
<1>1. attr \in [Parts -> [Attrs -> AttrType]] /\ declared \in [Parts -> [Attrs -> BOOLEAN]]
  BY DEF IInv, TypeOK
<1>2. Raw(a) /\ Raw(GetAttr(a)) /\ GetAttr(a).reg = a.reg
  BY Scheduled, GetAttrRaw, RegistrarKept
<1>3. /\ pdu' = pdu /\ rx' = rx /\ wire' = wire /\ registered' = registered
      /\ \E c : SetAttr(p, x, c) /\ c.reg = a.reg
  <2>1. CASE \E new \in BOOLEAN : JoinRequest(p, x, new)
    <3>1. PICK new \in BOOLEAN : JoinRequest(p, x, new)
      BY <2>1
    <3> DEFINE st == IF new THEN OnNew(GetAttr(a).app) ELSE OnJoin(GetAttr(a).app)
    <3>2. SetAttr(p, x, [GetAttr(a) EXCEPT !.app = st])
      BY <3>1 DEF JoinRequest
    <3> HIDE DEF st
    <3>3. [GetAttr(a) EXCEPT !.app = st].reg = a.reg
      BY <1>2, RegistrarKept
    <3> QED
      BY <3>1, <3>2, <3>3 DEF JoinRequest
  <2>2. CASE LeaveRequest(p, x)
    <3>1. SetAttr(p, x, FreeCheck([a EXCEPT !.app = OnLeave(a.app)]))
      BY <2>2 DEF LeaveRequest
    <3>2. FreeCheck([a EXCEPT !.app = OnLeave(a.app)]).reg = a.reg
      BY <1>2, RegistrarKept
    <3> QED
      BY <2>2, <3>1, <3>2 DEF LeaveRequest
  <2> QED
    BY <2>1, <2>2
<1>4. PICK c : SetAttr(p, x, c) /\ c.reg = a.reg
  BY <1>3
<1>5. /\ \A q \in Parts \ {p} : attr'[q] = attr[q] /\ registered'[q] = registered[q]
      /\ \A y \in Attrs : attr'[p][y].reg = attr[p][y].reg
  BY <1>1, <1>3, <1>4 DEF SetAttr
<1>6. \A y \in Attrs : registered'[p][y] <=> attr'[p][y].reg # "MT"
  <2>1. \A y \in Attrs : registered[p][y] <=> attr[p][y].reg # "MT"
    BY DEF ToldInv, IndicationsAgree
  <2> HIDE DEF a, b
  <2> QED
    BY <1>3, <1>5, <2>1
<1>7. IndicationsAgree'
  BY <1>5, <1>6, ToldStep
<1>8. \A q \in Parts, y \in Attrs : declared'[q][y] => declared[q][y] \/ q \in Declarers
  <2>1. \/ declared' = [declared EXCEPT ![p][x] = FALSE]
        \/ p \in Declarers /\ declared' = [declared EXCEPT ![p][x] = TRUE]
    <3>1. CASE LeaveRequest(p, x)
      BY <3>1 DEF LeaveRequest
    <3>2. ASSUME NEW new \in BOOLEAN, JoinRequest(p, x, new)
          PROVE  p \in Declarers /\ declared' = [declared EXCEPT ![p][x] = TRUE]
      BY <3>2 DEF JoinRequest
    <3> QED
      BY <3>1, <3>2
  <2>2. PICK v \in BOOLEAN : declared' = [declared EXCEPT ![p][x] = v] /\ (v => p \in Declarers)
    BY <2>1
  <2> HIDE DEF a, b
  <2>3. \A q \in Parts, y \in Attrs : declared'[q][y] = IF q = p /\ y = x THEN v ELSE declared[q][y]
    BY <1>1, <2>2
  <2> QED
    BY <2>2, <2>3
<1>9. \A q \in Parts \ Declarers : Silent(q)'
  BY <1>3, <1>8, SilentStep
<1> QED
  BY <1>7, <1>9 DEF ToldInv

\* A change of declaration frees the previous attribute without an indication;
\* on a one-way link it is not registered.
LEMMA ChangeTold ==
  ASSUME OneWay, IInv, ToldInv, NEW p \in Parts, NEW x \in Attrs, NEW y \in Attrs,
         ChangeDeclaration(p, x, y)
  PROVE  ToldInv'
<1> DEFINE fresh == ~Allocated(attr[p][y])
           a == GetAttr(attr[p][y])
           b == [a EXCEPT !.app = OnTx(OnJoin(a.app), a.reg)]
           freed == [attr[p] EXCEPT ![x] = NoAttr]
           as == IF fresh THEN [freed EXCEPT ![y] = b] ELSE freed
<1>1. /\ declared[p][x] /\ x # y /\ Exclusive
      /\ attr' = [attr EXCEPT ![p] = as]
      /\ rx' = rx /\ wire' = wire /\ registered' = registered
  BY DEF ChangeDeclaration
<1>2. /\ attr \in [Parts -> [Attrs -> AttrType]] /\ declared \in [Parts -> [Attrs -> BOOLEAN]]
      /\ pdu \in [Parts -> Seq(VectorType)]
  BY DEF IInv, TypeOK
<1>3. p \in Declarers /\ Peer(p) \in Parts \ Declarers
  <2>1. p \in Declarers
    BY <1>1 DEF ToldInv, Silent
  <2> QED
    BY <1>1, <2>1, PeerOfPeer, RoleAssumption DEF OneWay
<1>4. \A z \in Attrs : ~registered[p][z] /\ attr[p][z].reg = "MT"
  BY <1>3, PeerOfPeer DEF ToldInv, Silent, IndicationsAgree
<1>5. b.reg = "MT"
  <2>1. Raw(a) /\ a.reg = "MT"
    BY <1>4, Scheduled, GetAttrRaw, RegistrarKept
  <2> HIDE DEF a
  <2> QED
    BY <2>1, RegistrarKept
<1> HIDE DEF b
<1>6. NoAttr.reg = "MT"
  BY DEF NoAttr
<1>7. \A z \in Attrs : as[z].reg = "MT"
  BY <1>2, <1>4, <1>5, <1>6
<1> HIDE DEF as
<1>8. IndicationsAgree'
  BY <1>1, <1>2, <1>4, <1>7, ToldStep
<1>9. \A q \in Parts \ Declarers : Silent(q)'
  <2> SUFFICES ASSUME NEW q \in Parts \ Declarers PROVE Silent(q)'
    OBVIOUS
  <2>1. pdu'[q] = pdu[q] /\ declared'[q] = declared[q]
    BY <1>2, <1>3 DEF ChangeDeclaration
  <2> QED
    BY <1>1, <2>1 DEF ToldInv, Silent
<1> QED
  BY <1>8, <1>9 DEF ToldInv

\* The handlers that change no registration.
LEMMA StillTold ==
  ASSUME IInv, ToldInv, NEW p \in Parts,
         Disable(p) \/ Enable(p) \/ LeaveAllTimer(p) \/ PeriodicTimer(p) \/ Tick
  PROVE  ToldInv'
<1>1. /\ attr \in [Parts -> [Attrs -> AttrType]] /\ declared \in [Parts -> [Attrs -> BOOLEAN]]
      /\ registered \in [Parts -> [Attrs -> BOOLEAN]]
  BY DEF IInv, TypeOK
<1>2. \A q \in Parts, x \in Attrs :
        /\ declared'[q][x] => declared[q][x] \/ q \in Declarers
        /\ registered'[q][x] => registered[q][x]
  <2>1. CASE Disable(p)
    BY <1>1, <2>1 DEF Disable
  <2>2. CASE ~Disable(p)
    <3>1. declared' = declared /\ registered' = registered
      BY <2>2 DEF Enable, LeaveAllTimer, PeriodicTimer, Tick
    <3> QED
      BY <3>1
  <2> QED
    BY <2>1, <2>2
<1>3. pdu' = pdu /\ rx' = rx /\ wire' = wire
  BY DEF Disable, Enable, LeaveAllTimer, PeriodicTimer, Tick
<1>4. \A q \in Parts \ Declarers : Silent(q)'
  BY <1>2, <1>3, SilentStep
<1>5. IndicationsAgree'
  <2>1. CASE Disable(p)
    BY <1>1, <2>1 DEF Disable, ToldInv, IndicationsAgree, NoAttr
  <2>2. CASE Enable(p) \/ LeaveAllTimer(p)
    BY <2>2 DEF Enable, LeaveAllTimer, ToldInv, IndicationsAgree
  <2>3. CASE PeriodicTimer(p)
    <3>1. ASSUME NEW q \in Parts, NEW x \in Attrs PROVE attr'[q][x].reg = attr[q][x].reg
      <4>1. attr[q][x] \in AttrType /\ attr'[q][x] \in {attr[q][x], [attr[q][x] EXCEPT !.app = OnPeriodic(@)]}
        BY <1>1, <2>3 DEF PeriodicTimer
      <4> QED
        BY <4>1 DEF AttrType
    <3> QED
      BY <2>3, <3>1 DEF PeriodicTimer, ToldInv, IndicationsAgree
  <2>4. CASE Tick
    <3>1. ASSUME NEW q \in Parts, NEW x \in Attrs PROVE attr'[q][x].reg = attr[q][x].reg
      <4>1. attr[q][x] \in AttrType /\ attr'[q][x] = [attr[q][x] EXCEPT !.leave = CountDown(@)]
        BY <1>1, <2>4 DEF Tick
      <4> QED
        BY <4>1 DEF AttrType
    <3>2. registered' = registered
      BY <2>4 DEF Tick
    <3> QED
      BY <3>1, <3>2 DEF ToldInv, IndicationsAgree
  <2> QED
    BY <2>1, <2>2, <2>3, <2>4
<1> QED
  BY <1>4, <1>5 DEF ToldInv

\* mrp_leave_timer_handler: the registration ends with its indication.
LEMMA LeaveTimerTold ==
  ASSUME IInv, ToldInv, NEW p \in Parts, NEW x \in Attrs, LeaveTimer(p, x) PROVE ToldInv'
<1> DEFINE a == attr[p][x]
           c == [RegTimeout(a) EXCEPT !.leave = Off]
           told == IF a.reg = "LV" THEN FALSE ELSE registered[p][x]
<1>1. /\ attr \in [Parts -> [Attrs -> AttrType]] /\ registered \in [Parts -> [Attrs -> BOOLEAN]]
  BY DEF IInv, TypeOK
<1>2. /\ attr' = [attr EXCEPT ![p][x] = FreeCheck(c)]
      /\ registered' = [registered EXCEPT ![p][x] = told]
      /\ pdu' = pdu /\ rx' = rx /\ wire' = wire /\ declared' = declared
  BY <1>1 DEF LeaveTimer, SetAttr
<1>3. Raw(a) /\ Raw(c)
  BY Scheduled, LeaveRaw
<1>4. c.reg = IF a.reg = "LV" THEN "MT" ELSE a.reg
  BY <1>3 DEF RegTimeout, Raw, AttrType
<1>5. FreeCheck(c).reg = c.reg
  BY <1>3, RegistrarKept
<1>6. registered[p][x] <=> a.reg # "MT"
  BY DEF ToldInv, IndicationsAgree
<1>7. told <=> FreeCheck(c).reg # "MT"
  BY <1>4, <1>5, <1>6
<1>8. told \in BOOLEAN /\ (told => registered[p][x])
  BY <1>1
<1> HIDE DEF c, told, a
<1>9. /\ \A q \in Parts \ {p} : attr'[q] = attr[q] /\ registered'[q] = registered[q]
      /\ \A y \in Attrs \ {x} : attr'[p][y] = attr[p][y] /\ registered'[p][y] = registered[p][y]
      /\ attr'[p][x] = FreeCheck(c) /\ registered'[p][x] = told
  BY <1>1, <1>2
<1>10. IndicationsAgree'
  <2>1. \A y \in Attrs : registered'[p][y] <=> attr'[p][y].reg # "MT"
    BY <1>7, <1>9 DEF ToldInv, IndicationsAgree
  <2> QED
    BY <1>9, <2>1, ToldStep
<1>11. \A q \in Parts \ Declarers : Silent(q)'
  <2>1. \A q \in Parts, y \in Attrs : registered'[q][y] => registered[q][y]
    BY <1>8, <1>9
  <2> QED
    BY <1>2, <2>1, SilentStep
<1> QED
  BY <1>10, <1>11 DEF ToldInv

\* Taking a PDU from the wire changes no registration.
LEMMA ReceiveTold ==
  ASSUME IInv, ToldInv, NEW p \in Parts, Receive(p) \/ Lose(p) PROVE ToldInv'
<1>1. attr' = attr /\ pdu' = pdu /\ declared' = declared /\ registered' = registered
  BY DEF Receive, Lose
<1>2. /\ rx \in [Parts -> Seq(VectorType)] /\ wire \in [Parts -> Seq(Seq(VectorType))]
      /\ wire[p] # <<>>
  BY DEF IInv, TypeOK, Receive, Lose
<1>3. \A q \in Parts : wire'[q] = IF q = p THEN Tail(wire[p]) ELSE wire[q]
  BY <1>2 DEF Receive, Lose
<1>4. /\ \A q \in Parts \ {p} : rx'[q] = rx[q]
      /\ rx'[p] \in {rx[p], Head(wire[p]), <<>>}
  <2>1. CASE Receive(p)
    BY <1>2, <2>1 DEF Receive
  <2>2. CASE Lose(p)
    BY <2>2 DEF Lose
  <2> QED
    BY <2>1, <2>2
<1>5. IndicationsAgree'
  BY <1>1 DEF ToldInv, IndicationsAgree
<1>6. ASSUME NEW q \in Parts \ Declarers PROVE Silent(q)'
  <2>1. Silent(q) /\ Peer(q) \in Parts
    BY PeerOfPeer DEF ToldInv
  <2>2. wire'[Peer(q)] \in Seq(Seq(QuietVectors)) /\ rx'[Peer(q)] \in Seq(QuietVectors)
    <3>1. CASE Peer(q) # p
      BY <1>3, <1>4, <2>1, <3>1 DEF Silent
    <3>2. CASE Peer(q) = p
      <4>1. wire[p] \in Seq(Seq(QuietVectors)) /\ rx[p] \in Seq(QuietVectors)
        BY <2>1, <3>2 DEF Silent
      <4>2. Tail(wire[p]) \in Seq(Seq(QuietVectors)) /\ Head(wire[p]) \in Seq(QuietVectors)
        BY <1>2, <4>1
      <4>3. <<>> \in Seq(QuietVectors)
        OBVIOUS
      <4> QED
        BY <1>3, <1>4, <3>2, <4>1, <4>2, <4>3
    <3> QED
      BY <3>1, <3>2
  <2> QED
    BY <1>1, <2>1, <2>2 DEF Silent
<1> QED
  BY <1>5, <1>6 DEF ToldInv

\* mrp_join_timer_handler: LeaveAll starts leaves, and a participant that
\* declares nothing sends no join.
LEMMA JoinTimerTold ==
  ASSUME IInv, ToldInv, NEW p \in Parts, JoinTimer(p) PROVE ToldInv'
<1> DEFINE sla  == lva[p].active
           as   == IF sla THEN [x \in Attrs |-> ProcessLva(attr[p][x])] ELSE attr[p]
           ev   == [x \in Attrs |-> IF sla THEN TxLaEvent(as[x].app, as[x].reg)
                                           ELSE TxEvent(as[x].app, as[x].reg)]
           st(a) == IF sla THEN OnTxLa(a.app) ELSE OnTx(a.app, a.reg)
           bs   == [x \in Attrs |-> FreeCheck([as[x] EXCEPT !.app = st(as[x])])]
           base == IF sla THEN AddLva(pdu[p]) ELSE pdu[p]
           S    == {x \in Attrs : ev[x] # NoEvent}
<1>1. /\ attr' = [attr EXCEPT ![p] = bs]
      /\ pdu' = [pdu EXCEPT ![p] = <<>>]
      /\ rx' = rx /\ declared' = declared /\ registered' = registered
  BY DEF JoinTimer
<1>2. \E ord \in Orders(S) :
        wire' = IF AddEvents(base, ord, ev) = <<>> THEN wire
                ELSE [wire EXCEPT ![Peer(p)] = Append(wire[Peer(p)], AddEvents(base, ord, ev))]
  BY PeerOfPeer DEF JoinTimer, IInv, TypeOK
<1>3. /\ attr \in [Parts -> [Attrs -> AttrType]] /\ pdu \in [Parts -> Seq(VectorType)]
      /\ wire \in [Parts -> Seq(Seq(VectorType))]
  BY DEF IInv, TypeOK
<1>4. \A x \in Attrs : /\ Raw(as[x]) /\ (as[x].reg = "MT" <=> attr[p][x].reg = "MT")
                       /\ as[x].app \in Declaring <=> attr[p][x].app \in Declaring
  BY Scheduled, ProcessLvaGood, LvaKeepsRegistration DEF Good
<1>5. \A x \in Attrs : ev[x] \in TxEvents \cup {NoEvent} /\ (ev[x] \in Joining => as[x].app \in Declaring)
  BY TxEvents_OK, JoinsDeclare
<1>6. \A x \in Attrs : bs[x].reg = "MT" <=> attr[p][x].reg = "MT"
  <2> SUFFICES ASSUME NEW x \in Attrs PROVE bs[x].reg = as[x].reg
    BY <1>4
  <2> DEFINE a == as[x]
             s == st(a)
  <2>1. bs[x] = FreeCheck([a EXCEPT !.app = s]) /\ Raw(a)
    BY <1>4
  <2> HIDE DEF bs, a, s
  <2>2. bs[x].reg = a.reg
    BY <2>1, RegistrarKept
  <2> QED
    BY <2>2 DEF a
<1>7. IndicationsAgree'
  <2> HIDE DEF bs, as
  <2>1. attr'[p] = bs /\ \A q \in Parts \ {p} : attr'[q] = attr[q]
    BY <1>1, <1>3
  <2>2. \A x \in Attrs : registered'[p][x] <=> attr'[p][x].reg # "MT"
    BY <1>1, <1>6, <2>1 DEF ToldInv, IndicationsAgree
  <2> QED
    BY <1>1, <2>1, <2>2, ToldStep
<1> HIDE DEF as, ev, bs
<1>8. ASSUME NEW q \in Parts \ Declarers PROVE Silent(q)'
  <2>1. Silent(q) /\ Peer(q) \in Parts
    BY PeerOfPeer DEF ToldInv
  <2>2. pdu'[q] \in Seq(QuietVectors)
    BY <1>1, <1>3, <2>1 DEF Silent
  <2>3. wire'[Peer(q)] \in Seq(Seq(QuietVectors))
    <3>1. PICK ord \in Orders(S) :
            wire' = IF AddEvents(base, ord, ev) = <<>> THEN wire
                    ELSE [wire EXCEPT ![Peer(p)] = Append(wire[Peer(p)], AddEvents(base, ord, ev))]
      BY <1>2
    <3>2. CASE Peer(q) # Peer(p)
      <4> HIDE DEF base
      <4> QED BY <1>3, <2>1, <3>1, <3>2 DEF Silent
    <3>3. CASE Peer(q) = Peer(p)
      <4>1. q = p
        BY <3>3, PeerOfPeer
      <4>2. ord \in Seq(Attrs) /\ \A i \in 1..Len(ord) : ord[i] \in S
        BY OrdersType
      <4>3. \A x \in Attrs : ev[x] \notin Joining
        BY <1>4, <1>5, <2>1, <4>1 DEF Silent, IInv, DeclarationKept
      <4>4. \A i \in 1..Len(ord) : ev[ord[i]] \in TxEvents \ Joining
        BY <1>5, <4>2, <4>3
      <4>5. base \in Seq(QuietVectors)
        BY <2>1, <4>1, AddLvaType DEF Silent, QuietVectors
      <4> DEFINE out == AddEvents(base, ord, ev)
      <4>6. out \in Seq(QuietVectors)
        BY <4>2, <4>4, <4>5, AddEventsType DEF QuietVectors
      <4> HIDE DEF out
      <4>7. wire' = IF out = <<>> THEN wire ELSE [wire EXCEPT ![Peer(p)] = Append(wire[Peer(p)], out)]
        BY <3>1 DEF out
      <4>8. wire[Peer(p)] \in Seq(Seq(QuietVectors))
        BY <2>1, <4>1 DEF Silent
      <4>9. Append(wire[Peer(p)], out) \in Seq(Seq(QuietVectors))
        BY <4>6, <4>8, AppendProperties
      <4> QED
        BY <1>3, <2>1, <3>3, <4>7, <4>8, <4>9
    <3> QED
      BY <3>2, <3>3
  <2> QED
    BY <1>1, <2>1, <2>2, <2>3 DEF Silent
<1> QED
  BY <1>7, <1>8 DEF ToldInv

\* One vector of a received PDU: LeaveAll, the attribute event, the rivals.
LEMMA ProcessVectorTold ==
  ASSUME IInv, ToldInv, NEW p \in Parts, ProcessVector(p) PROVE ToldInv'
<1> DEFINE v  == Head(rx[p])
           e  == Head(v.values)
           as == IF v.lva THEN [x \in Attrs |-> ProcessLva(attr[p][x])] ELSE attr[p]
           told == registered[p]
           hs == HandleEvent(as, told, e.x, e.ev)
           bs == IF v.values = <<>> THEN as ELSE hs
           hi == HandleIndications(as, told, e.x, e.ev)
           ts == IF v.values = <<>> THEN told ELSE hi
<1>1. /\ rx[p] # <<>> /\ rx' = [rx EXCEPT ![p] = Tail(rx[p])]
      /\ attr' = [attr EXCEPT ![p] = bs]
      /\ registered' = [registered EXCEPT ![p] = ts]
      /\ pdu' = pdu /\ wire' = wire /\ declared' = declared
  <2>1. registered = [registered EXCEPT ![p] = told]
    BY DEF IInv, TypeOK
  <2> QED
    BY <2>1 DEF ProcessVector
<1>2. /\ rx \in [Parts -> Seq(VectorType)] /\ registered \in [Parts -> [Attrs -> BOOLEAN]]
      /\ attr \in [Parts -> [Attrs -> AttrType]]
  BY DEF IInv, TypeOK
<1>3. v \in VectorType /\ (v.values # <<>> => e.x \in Attrs /\ e.ev \in TxEvents)
  <2>1. v \in VectorType
    BY <1>1, <1>2
  <2> HIDE DEF v
  <2>2. ASSUME v.values # <<>> PROVE e \in ValueType
    <3>1. PICK w \in ValueType : v.values = <<w>>
      BY <2>1, <2>2 DEF VectorType
    <3> QED
      BY <3>1
  <2> QED
    BY <2>1, <2>2 DEF ValueType
<1>4. \A x \in Attrs : Good(as[x]) /\ (as[x].reg = "MT" <=> attr[p][x].reg = "MT")
  BY Scheduled, ProcessLvaGood, LvaKeepsRegistration
<1>5. \A x \in Attrs : told[x] \in BOOLEAN /\ (told[x] <=> as[x].reg # "MT")
  BY <1>2, <1>4 DEF ToldInv, IndicationsAgree
<1> HIDE DEF as, v, e
<1>6. ASSUME v.values # <<>>, NEW x \in Attrs PROVE hi[x] <=> hs[x].reg # "MT"
  <2> DEFINE R == Rivals(as, told, e.x, e.ev)
  <2>1. CASE x = e.x
    <3>1. hs[x] = ProcessEvent(as[x], e.ev)
      BY <2>1 DEF HandleEvent, Rivals
    <3>2. hi[x] = Indicated(as[x].reg, e.ev, told[x])
      BY <2>1 DEF HandleIndications, Rivals
    <3>3. told[x] \in BOOLEAN /\ (told[x] <=> as[x].reg # "MT") /\ Good(as[x]) /\ e.ev \in TxEvents
      BY <1>3, <1>4, <1>5, <1>6
    <3> HIDE DEF told, hi, hs
    <3> QED
      BY <3>1, <3>2, <3>3, EventIndicated
  <2>2. CASE x # e.x /\ x \in R
    <3>1. hs[x] = GiveUp(as[x]) /\ hi[x] = FALSE
      BY <2>2 DEF HandleEvent, HandleIndications
    <3> QED
      BY <3>1, <1>4, GivenUp
  <2>3. CASE x # e.x /\ x \notin R
    <3>1. hs[x] = as[x] /\ hi[x] = told[x]
      BY <2>3 DEF HandleEvent, HandleIndications
    <3> QED
      BY <3>1, <1>5
  <2> QED
    BY <2>1, <2>2, <2>3
<1>7. ASSUME v.values # <<>>, NEW x \in Attrs, e.ev \notin Joining, ~told[x] PROVE ~hi[x]
  <2>1. told[x] = FALSE
    BY <1>5, <1>7
  <2>2. hi[x] \in {Indicated(as[x].reg, e.ev, told[x]), FALSE, told[x]}
    BY DEF HandleIndications
  <2> QED
    BY <1>7, <2>1, <2>2, QuietIndication
<1> HIDE DEF hs, hi, told
<1>8. \A x \in Attrs : ts[x] <=> bs[x].reg # "MT"
  BY <1>5, <1>6
<1>9. IndicationsAgree'
  <2> HIDE DEF bs, ts
  <2>1. attr'[p] = bs /\ registered'[p] = ts
        /\ \A q \in Parts \ {p} : attr'[q] = attr[q] /\ registered'[q] = registered[q]
    BY <1>1, <1>2
  <2> QED
    BY <1>8, <2>1, ToldStep
<1>10. ASSUME NEW q \in Parts \ Declarers PROVE Silent(q)'
  <2>1. Silent(q) /\ Peer(q) \in Parts
    BY PeerOfPeer DEF ToldInv
  <2>2. CASE Peer(q) # p
    <3>1. rx'[Peer(q)] = rx[Peer(q)] /\ registered'[Peer(q)] = registered[Peer(q)]
      BY <1>1, <1>2, <2>1, <2>2
    <3> QED
      BY <1>1, <2>1, <3>1 DEF Silent
  <2>3. CASE Peer(q) = p
    <3>1. rx[p] \in Seq(QuietVectors) /\ \A x \in Attrs : ~told[x]
      BY <2>1, <2>3 DEF Silent, told
    <3>2. Head(rx[p]) \in QuietVectors /\ Tail(rx[p]) \in Seq(QuietVectors)
      BY <1>1, <3>1
    <3>3. ASSUME v.values # <<>> PROVE e.ev \notin Joining
      <4>1. v \in QuietVectors
        BY <3>2 DEF v
      <4>2. PICK w \in [x : Attrs, ev : TxEvents \ Joining] : v.values = <<w>>
        BY <3>3, <4>1 DEF QuietVectors, VectorsOf
      <4>3. e = w
        BY <4>2 DEF e
      <4> QED
        BY <4>2, <4>3
    <3>4. \A x \in Attrs : ~ts[x]
      BY <1>7, <3>1, <3>3
    <3> HIDE DEF ts
    <3>5. rx'[p] = Tail(rx[p]) /\ registered'[p] = ts
      BY <1>1, <1>2
    <3> QED
      BY <1>1, <2>1, <2>3, <3>2, <3>4, <3>5 DEF Silent
  <2> QED
    BY <2>2, <2>3
<1> QED
  BY <1>9, <1>10 DEF ToldInv

\* Every step keeps what the applications were told.
LEMMA NextTold ==
  ASSUME OneWay, IInv, ToldInv, [Next]_vars PROVE ToldInv'
<1>1. ASSUME NEW p \in Parts, Request(p) PROVE ToldInv'
  BY <1>1, RequestTold, ChangeTold, StillTold DEF Request
<1>2. ASSUME NEW p \in Parts, Timer(p) PROVE ToldInv'
  BY <1>2, JoinTimerTold, StillTold, LeaveTimerTold DEF Timer
<1>3. ASSUME NEW p \in Parts, Receive(p) \/ ProcessVector(p) \/ Lose(p) PROVE ToldInv'
  BY <1>3, ReceiveTold, ProcessVectorTold
<1>4. CASE Tick
  BY <1>4, StillTold, PartsAssumption
<1>5. CASE UNCHANGED vars
  BY <1>5 DEF vars, ToldInv, IndicationsAgree, Silent
<1> QED
  BY <1>1, <1>2, <1>3, <1>4, <1>5 DEF Next

\* Nothing is registered, declared or sent at first.
LEMMA InitTold == Init => ToldInv
<1> SUFFICES ASSUME Init PROVE ToldInv
  OBVIOUS
<1>1. IndicationsAgree
  BY DEF Init, IndicationsAgree, NoAttr
<1>2. ASSUME NEW p \in Parts PROVE Silent(p)
  <2>1. Peer(p) \in Parts
    BY PeerOfPeer
  <2> QED
    BY <2>1 DEF Init, Silent
<1> QED
  BY <1>1, <1>2 DEF ToldInv

\* The application's view of a registration is the registrar's, on every link
\* on which the listener declarations of a stream flow one way.
THEOREM ViewsAgree == ASSUME OneWay PROVE Spec => []IndicationsAgree
<1>1. ToldInv => IndicationsAgree
  BY DEF ToldInv
<1>2. IInv /\ ToldInv /\ [Next]_vars => ToldInv'
  BY NextTold
<1> QED
  BY <1>1, <1>2, InitTold, Invariance, PTL DEF Spec
===============================================================================
