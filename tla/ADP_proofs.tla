----------------------------- MODULE ADP_proofs -----------------------------
(***************************************************************************)
(* Proofs about ADP: type correctness, ControllerView, RebootNoticed and   *)
(* ExpiresOnlyOnFault, for any set of entities, ports, list sizes and      *)
(* configurations.                                                         *)
(***************************************************************************)
EXTENDS ADP, FiniteSetTheorems, TLAPS

(***************************************************************************)
(* The lists and views, for the slots S of a configuration.  An entry that *)
(* is not in use holds nothing, and no entity has two entries.             *)
(***************************************************************************)
FoundIn(S, l, e) == {i \in S : l[i].used /\ l[i].info.entity = e}

ViewOf(S, l) ==
    [e \in Entities |-> IF FoundIn(S, l, e) = {} THEN None
                        ELSE l[CHOOSE i \in FoundIn(S, l, e) : TRUE].info.gm]

GoodList(S, l) ==
    /\ l \in [Slots -> Entries]
    /\ \A i \in Slots : ~l[i].used => l[i] = NoEntry
    /\ \A i \in Slots : l[i].used => l[i].info.entity \in Entities
    /\ \A i, j \in S :
         l[i].used /\ l[j].used /\ l[i].info.entity = l[j].info.entity => i = j

Views == [Entities -> Nat \cup {None}]

Inv ==
    /\ TypeOK
    /\ \A p \in Ports : /\ GoodList(cfg.slots, disc[p])
                        /\ host => told[p] = ViewOf(cfg.slots, disc[p])

LEMMA SameView == \A l : View(l) = ViewOf(cfg.slots, l)
  BY DEF View, ViewOf, Found, FoundIn

-----------------------------------------------------------------------------
(***************************************************************************)
(* What a view shows of a good list.                                       *)
(***************************************************************************)
LEMMA ViewOfFound ==
    ASSUME NEW S \in SUBSET Slots, NEW l, GoodList(S, l), NEW e \in Entities,
           NEW i \in FoundIn(S, l, e)
    PROVE  FoundIn(S, l, e) = {i} /\ ViewOf(S, l)[e] = l[i].info.gm
  <1>1. FoundIn(S, l, e) = {i}  BY DEF FoundIn, GoodList
  <1>2. (CHOOSE j \in FoundIn(S, l, e) : TRUE) = i  BY <1>1
  <1> QED  BY <1>1, <1>2 DEF ViewOf

LEMMA ViewOfNone ==
    ASSUME NEW S, NEW l, NEW e \in Entities, FoundIn(S, l, e) = {}
    PROVE  ViewOf(S, l)[e] = None
  BY DEF ViewOf

LEMMA ViewType ==
    ASSUME NEW S \in SUBSET Slots, NEW l, GoodList(S, l)
    PROVE  ViewOf(S, l) \in Views
  <1>1. ASSUME NEW e \in Entities  PROVE ViewOf(S, l)[e] \in Nat \cup {None}
    <2>1. CASE FoundIn(S, l, e) = {}  BY <2>1, ViewOfNone
    <2>2. CASE FoundIn(S, l, e) # {}
      <3>1. PICK i \in FoundIn(S, l, e) : TRUE  BY <2>2
      <3>2. l[i].info.gm \in Nat  BY <3>1 DEF FoundIn, GoodList, Entries, Infos
      <3> QED  BY <3>1, <3>2, ViewOfFound
    <2> QED  BY <2>1, <2>2
  <1> QED  BY <1>1 DEF ViewOf, Views

(***************************************************************************)
(* Lists that agree on who is found where show the same.                   *)
(***************************************************************************)
LEMMA ViewAgrees ==
    ASSUME NEW S \in SUBSET Slots, NEW l, NEW k, GoodList(S, l), GoodList(S, k),
           NEW e \in Entities, FoundIn(S, l, e) = FoundIn(S, k, e),
           \A i \in FoundIn(S, l, e) : l[i].info.gm = k[i].info.gm
    PROVE  ViewOf(S, l)[e] = ViewOf(S, k)[e]
  <1>1. CASE FoundIn(S, l, e) = {}  BY <1>1, ViewOfNone
  <1>2. CASE FoundIn(S, l, e) # {}
    <2>1. PICK i \in FoundIn(S, l, e) : TRUE  BY <1>2
    <2>2. ViewOf(S, l)[e] = l[i].info.gm  BY <2>1, ViewOfFound
    <2>3. ViewOf(S, k)[e] = k[i].info.gm  BY <2>1, ViewOfFound
    <2> QED  BY <2>1, <2>2, <2>3
  <1> QED  BY <1>1, <1>2

(***************************************************************************)
(* adp_discovery_put: the list stays good, and the DEPARTING message is    *)
(* the whole difference for the application.                               *)
(***************************************************************************)
LEMMA PutGood ==
    ASSUME NEW S \in SUBSET Slots, NEW l, GoodList(S, l), NEW i \in S, l[i].used
    PROVE  /\ GoodList(S, Put(l, i))
           /\ FoundIn(S, Put(l, i), l[i].info.entity) = {}
           /\ ViewOf(S, Put(l, i)) = [ViewOf(S, l) EXCEPT ![l[i].info.entity] = None]
  <1> DEFINE k == Put(l, i)
             x == l[i].info.entity
  <1>1. k = [l EXCEPT ![i] = NoEntry] /\ i \in Slots /\ x \in Entities
    BY DEF Put, GoodList
  <1>2. NoEntry \in Entries /\ ~NoEntry.used
    BY DEF NoEntry, NoInfo, Entries, Infos, TimerValues, Off
  <1>3. k \in [Slots -> Entries] /\ k[i] = NoEntry /\ \A j \in Slots : j # i => k[j] = l[j]
    BY <1>1, <1>2 DEF GoodList
  <1> HIDE DEF k
  <1>4. GoodList(S, k)  BY <1>2, <1>3 DEF GoodList
  <1>5. FoundIn(S, k, x) = {}  BY <1>1, <1>2, <1>3 DEF FoundIn, GoodList
  <1>6. ASSUME NEW e \in Entities, e # x  PROVE ViewOf(S, k)[e] = ViewOf(S, l)[e]
    <2>1. FoundIn(S, k, e) = FoundIn(S, l, e) /\ i \notin FoundIn(S, l, e)
      BY <1>2, <1>3, <1>6 DEF FoundIn
    <2>2. \A j \in FoundIn(S, l, e) : l[j].info.gm = k[j].info.gm
      BY <1>3, <2>1 DEF FoundIn
    <2> QED  BY <1>4, <2>1, <2>2, ViewAgrees
  <1>7. ViewOf(S, k)[x] = None  BY <1>1, <1>5, ViewOfNone
  <1>8. ViewOf(S, k) = [ViewOf(S, l) EXCEPT ![x] = None]
    <2>1. ViewOf(S, k) \in Views /\ ViewOf(S, l) \in Views  BY <1>4, ViewType
    <2> QED  BY <1>1, <1>6, <1>7, <2>1 DEF Views
  <1> QED  BY <1>4, <1>5, <1>8 DEF k

(***************************************************************************)
(* adp_discovery_update_entity on an entry of the entity, or on a free one *)
(* when it has none: the application misses no difference.                 *)
(***************************************************************************)
LEMMA RefreshGood ==
    ASSUME cfg \in Configs, cfg.slots \in SUBSET Slots, cfg.valid \in Nat,
           NEW l, GoodList(cfg.slots, l), NEW m \in Messages, NEW t \in Views,
           NEW i \in cfg.slots, host => t = ViewOf(cfg.slots, l),
           \/ i \in FoundIn(cfg.slots, l, m.entity)
           \/ ~l[i].used /\ FoundIn(cfg.slots, l, m.entity) = {}
    PROVE  /\ GoodList(cfg.slots, Refresh(l, i, m, t).list)
           /\ Refresh(l, i, m, t).told \in Views
           /\ host => Refresh(l, i, m, t).told = ViewOf(cfg.slots, Refresh(l, i, m, t).list)
  <1> DEFINE S == cfg.slots
             x == m.entity
             n == [used |-> TRUE, info |-> Info(m), timeout |-> cfg.valid,
                   since |-> IF l[i].used THEN l[i].since ELSE m.boot]
             k == [l EXCEPT ![i] = n]
             told1 == IF Changed(l[i].info, m) THEN Tell(t, x, m.gm) ELSE t
  <1>1. Refresh(l, i, m, t).list = k /\ Refresh(l, i, m, t).told = told1
    BY DEF Refresh
  <1>2. i \in Slots /\ x \in Entities /\ m.gm \in Nat /\ l[i] \in Entries
    BY DEF Messages, GoodList
  <1>3. n \in Entries /\ n.used /\ n.info.entity = x /\ n.info.gm = m.gm
    BY <1>2 DEF Info, Messages, Entries, Infos, TimerValues
  <1> HIDE DEF n
  <1>4. k \in [Slots -> Entries] /\ k[i] = n /\ \A j \in Slots : j # i => k[j] = l[j]
    BY <1>2, <1>3 DEF GoodList
  <1> HIDE DEF k
  <1>5. \A j \in S : j # i /\ l[j].used => l[j].info.entity # x
    BY <1>2 DEF FoundIn, GoodList
  <1>6. GoodList(S, k)
    <2>1. \A j \in Slots : ~k[j].used => k[j] = NoEntry  BY <1>3, <1>4 DEF GoodList
    <2>2. \A j \in Slots : k[j].used => k[j].info.entity \in Entities
      BY <1>2, <1>3, <1>4 DEF GoodList
    <2>3. ASSUME NEW a \in S, NEW b \in S, k[a].used, k[b].used,
                 k[a].info.entity = k[b].info.entity
          PROVE  a = b
      <3>1. CASE a = i  BY <1>3, <1>4, <1>5, <2>3, <3>1
      <3>2. CASE b = i  BY <1>3, <1>4, <1>5, <2>3, <3>2
      <3>3. CASE a # i /\ b # i  BY <1>4, <2>3, <3>3 DEF GoodList
      <3> QED  BY <3>1, <3>2, <3>3
    <2> QED  BY <1>4, <2>1, <2>2, <2>3 DEF GoodList
  <1>7. i \in FoundIn(S, k, x)  BY <1>3, <1>4 DEF FoundIn
  <1>8. ViewOf(S, k)[x] = m.gm  BY <1>2, <1>3, <1>4, <1>6, <1>7, ViewOfFound
  <1>9. ASSUME NEW e \in Entities, e # x  PROVE ViewOf(S, k)[e] = ViewOf(S, l)[e]
    <2>1. l[i].used => l[i].info.entity = x  BY DEF FoundIn
    <2>2. FoundIn(S, l, e) = FoundIn(S, k, e) /\ i \notin FoundIn(S, l, e)
      BY <1>3, <1>4, <1>9, <2>1 DEF FoundIn
    <2>3. \A j \in FoundIn(S, l, e) : l[j].info.gm = k[j].info.gm
      BY <1>4, <2>2 DEF FoundIn
    <2> QED  BY <1>6, <2>2, <2>3, ViewAgrees
  <1>10. told1 \in Views  BY <1>2 DEF Tell, Views
  <1>11. ASSUME host  PROVE told1 = ViewOf(S, k)
    <2>1. ViewOf(S, k) \in Views /\ ViewOf(S, l) \in Views  BY <1>6, ViewType
    <2>2. CASE Changed(l[i].info, m)
      <3>1. told1 = [t EXCEPT ![x] = m.gm]  BY <1>11, <2>2 DEF Tell
      <3> QED  BY <1>8, <1>9, <1>11, <2>1, <3>1 DEF Views
    <2>3. CASE ~Changed(l[i].info, m)
      <3>1. l[i].info.entity = x /\ l[i].info.gm = m.gm  BY <2>3 DEF Changed
      <3>2. l[i].used
        <4>1. ~l[i].used => l[i] = NoEntry  BY <1>2 DEF GoodList
        <4>2. NoEntry.info.entity = None  BY DEF NoEntry, NoInfo
        <4>3. None \notin Entities  BY ADPAssumption
        <4> QED  BY <1>2, <3>1, <4>1, <4>2, <4>3
      <3>3. ViewOf(S, l)[x] = m.gm
        <4>1. i \in FoundIn(S, l, x)  BY <3>1, <3>2 DEF FoundIn
        <4> QED  BY <1>2, <3>1, <4>1, ViewOfFound
      <3>4. told1 = t  BY <2>3
      <3> QED  BY <1>8, <1>9, <1>11, <2>1, <3>3, <3>4 DEF Views
    <2> QED  BY <2>2, <2>3
  <1> QED  BY <1>1, <1>6, <1>10, <1>11

(***************************************************************************)
(* adp_discovery_update and adp_discovery_remove.                          *)
(***************************************************************************)
LEMMA FreeSlot ==
    ASSUME cfg.slots \in SUBSET Slots, NEW l, Free(l) # {}
    PROVE  LastFree(l) \in cfg.slots /\ ~l[LastFree(l)].used
  <1>1. Free(l) \in SUBSET Slots  BY DEF Free
  <1>2. \E i \in Free(l) : \A j \in Free(l) : j <= i  BY <1>1, ADPAssumption
  <1>3. LastFree(l) \in Free(l)  BY <1>2 DEF LastFree
  <1> QED  BY <1>3 DEF Free

LEMMA UpdateGood ==
    ASSUME cfg \in Configs, NEW l, GoodList(cfg.slots, l), NEW m \in Messages,
           NEW t \in Views, host => t = ViewOf(cfg.slots, l)
    PROVE  LET r == DiscoveryUpdate(l, m, t)
           IN  /\ GoodList(cfg.slots, r.list)
               /\ r.told \in Views
               /\ host => r.told = ViewOf(cfg.slots, r.list)
  <1> DEFINE S == cfg.slots
             x == m.entity
             i == CHOOSE j \in Found(l, x) : TRUE
             gone == Put(l, i)
             r == DiscoveryUpdate(l, m, t)
             t1 == Tell(t, x, None)
  <1>1. S \in SUBSET Slots /\ cfg.valid \in Nat  BY ADPAssumption
  <1>2. x \in Entities  BY DEF Messages
  <1>3. Found(l, x) = FoundIn(S, l, x)  BY DEF Found, FoundIn
  <1> HIDE DEF i, gone, r, t1
  <1>4. CASE Found(l, x) = {} /\ Free(l) = {}
    <2>1. r = [list |-> l, told |-> t]  BY <1>4 DEF DiscoveryUpdate, r
    <2> QED  BY <2>1 DEF r
  <1>5. CASE Found(l, x) = {} /\ Free(l) # {}
    <2> DEFINE f == LastFree(l)
    <2>1. r = Refresh(l, f, m, t)  BY <1>5 DEF DiscoveryUpdate, r
    <2>2. f \in S /\ ~l[f].used  BY <1>1, <1>5, FreeSlot
    <2>3. FoundIn(S, l, m.entity) = {}  BY <1>3, <1>5
    <2> HIDE DEF f
    <2>4. /\ GoodList(S, Refresh(l, f, m, t).list) /\ Refresh(l, f, m, t).told \in Views
          /\ host => Refresh(l, f, m, t).told = ViewOf(S, Refresh(l, f, m, t).list)
      BY <1>1, <2>2, <2>3, RefreshGood
    <2> QED  BY <2>1, <2>4 DEF r
  <1>6. CASE Found(l, x) # {} /\ ~PowerCycled(l[i].info, m)
    <2>1. r = Refresh(l, i, m, t)  BY <1>6 DEF DiscoveryUpdate, r, i
    <2>2. i \in FoundIn(S, l, x) /\ i \in S  BY <1>3, <1>6 DEF FoundIn, i
    <2>3. /\ GoodList(S, Refresh(l, i, m, t).list) /\ Refresh(l, i, m, t).told \in Views
          /\ host => Refresh(l, i, m, t).told = ViewOf(S, Refresh(l, i, m, t).list)
      BY <1>1, <2>2, RefreshGood
    <2> QED  BY <2>1, <2>3 DEF r
  <1>7. CASE Found(l, x) # {} /\ PowerCycled(l[i].info, m)
    <2> DEFINE f == LastFree(gone)
    <2>1. r = Refresh(gone, f, m, t1)  BY <1>7 DEF DiscoveryUpdate, r, i, gone, t1
    <2>2. i \in S /\ l[i].used /\ l[i].info.entity = x  BY <1>3, <1>7 DEF FoundIn, i
    <2>3. /\ GoodList(S, gone) /\ FoundIn(S, gone, x) = {}
          /\ ViewOf(S, gone) = [ViewOf(S, l) EXCEPT ![x] = None]
      <3>1. /\ GoodList(S, Put(l, i)) /\ FoundIn(S, Put(l, i), l[i].info.entity) = {}
            /\ ViewOf(S, Put(l, i)) = [ViewOf(S, l) EXCEPT ![l[i].info.entity] = None]
        BY <1>1, <2>2, PutGood, Zenon
      <3> QED  BY <2>2, <3>1 DEF gone
    <2>4. t1 \in Views /\ (host => t1 = ViewOf(S, gone))
      BY <1>2, <2>3 DEF Tell, Views, t1
    <2>5. i \in Free(gone)
      BY <1>1, <2>2 DEF Free, Put, NoEntry, GoodList, gone
    <2>6. f \in S /\ ~gone[f].used  BY <1>1, <2>5, FreeSlot
    <2> HIDE DEF f
    <2>7. /\ GoodList(S, Refresh(gone, f, m, t1).list) /\ Refresh(gone, f, m, t1).told \in Views
          /\ host => Refresh(gone, f, m, t1).told = ViewOf(S, Refresh(gone, f, m, t1).list)
      BY <1>1, <2>3, <2>4, <2>6, RefreshGood
    <2> QED  BY <2>1, <2>7 DEF r
  <1> QED  BY <1>4, <1>5, <1>6, <1>7

LEMMA RemoveGood ==
    ASSUME cfg \in Configs, NEW l, GoodList(cfg.slots, l), NEW m \in Messages,
           NEW t \in Views, host => t = ViewOf(cfg.slots, l)
    PROVE  LET r == DiscoveryRemove(l, m, t)
           IN  /\ GoodList(cfg.slots, r.list)
               /\ r.told \in Views
               /\ host => r.told = ViewOf(cfg.slots, r.list)
  <1> DEFINE S == cfg.slots
             x == m.entity
             i == CHOOSE j \in Found(l, x) : TRUE
             r == DiscoveryRemove(l, m, t)
  <1>1. S \in SUBSET Slots  BY ADPAssumption
  <1>2. Found(l, x) = FoundIn(S, l, x) /\ x \in Entities  BY DEF Found, FoundIn, Messages
  <1>3. CASE Found(l, x) = {}
    <2>1. r = [list |-> l, told |-> t]  BY <1>3 DEF DiscoveryRemove
    <2> QED  BY <2>1
  <1>4. CASE Found(l, x) # {}
    <2>1. r = [list |-> Put(l, i), told |-> Tell(t, x, None)]  BY <1>4 DEF DiscoveryRemove
    <2>2. i \in S /\ l[i].used /\ l[i].info.entity = x  BY <1>2, <1>4 DEF FoundIn
    <2>3. GoodList(S, Put(l, i)) /\ ViewOf(S, Put(l, i)) = [ViewOf(S, l) EXCEPT ![x] = None]
      BY <1>1, <2>2, PutGood
    <2>4. Tell(t, x, None) \in Views /\ (host => Tell(t, x, None) = ViewOf(S, Put(l, i)))
      BY <1>2, <2>3 DEF Tell, Views
    <2> QED  BY <2>1, <2>3, <2>4
  <1> QED  BY <1>3, <1>4

-----------------------------------------------------------------------------
(***************************************************************************)
(* The state machines of an entity keep its type.                          *)
(***************************************************************************)
LEMMA ConfigFacts ==
    ASSUME cfg \in Configs
    PROVE  /\ cfg.ports \in SUBSET Ports /\ cfg.entities \in SUBSET Entities
           /\ cfg.slots \in SUBSET Slots /\ cfg.delays \in SUBSET Nat
           /\ cfg.interval \in Nat /\ cfg.valid \in Nat /\ cfg.gms \in SUBSET Nat
           /\ cfg.faults \in Nat
  BY ADPAssumption

LEMMA StartType ==
    ASSUME NEW t \in TimerValues, NEW n \in Nat  PROVE Start(t, n) \in TimerValues
  BY DEF Start, TimerValues

LEMMA OffType == Off \in TimerValues
  BY DEF TimerValues

LEMMA IndexType == ASSUME NEW n \in Nat  PROVE NextIndex(n) \in Nat
  BY ADPAssumption DEF NextIndex

LEMMA NewEntityType ==
    ASSUME NEW b \in Nat, NEW on \in BOOLEAN, NEW ready \in BOOLEAN
    PROVE  NewEntity(b, on, ready) \in EntityStates
  <1>1. NewInterface \in InterfaceStates  BY OffType DEF NewInterface, InterfaceStates
  <1> QED  BY <1>1, OffType DEF NewEntity, EntityStates

LEMMA MilanSmType ==
    ASSUME NEW i \in InterfaceStates, NEW event, NEW d \in Nat
    PROVE  MilanSm(i, event, d) \in InterfaceStates
  <1>1. i.delay \in TimerValues  BY DEF InterfaceStates
  <1>2. MilanDelay(i, d) \in InterfaceStates
    BY <1>1, StartType, OffType DEF MilanDelay, InterfaceStates
  <1>3. [i EXCEPT !.st = "DOWN"] \in InterfaceStates  BY DEF InterfaceStates
  <1>4. [i EXCEPT !.st = "DOWN", !.adv = Off, !.delay = Off] \in InterfaceStates
    BY OffType DEF InterfaceStates
  <1> QED  BY <1>2, <1>3, <1>4 DEF MilanSm

LEMMA IeeeAdvertiseType ==
    ASSUME NEW x \in EntityStates, NEW d \in Nat
    PROVE  IeeeAdvertise(x, d) \in EntityStates
  <1>1. x.delay \in TimerValues /\ x.index \in Nat  BY DEF EntityStates
  <1>2. Start(x.delay, d) \in TimerValues /\ NextIndex(x.index) \in Nat
    BY <1>1, StartType, IndexType
  <1> QED  BY <1>2, OffType DEF IeeeAdvertise, EntityStates

LEMMA SetInterface ==
    ASSUME NEW x \in EntityStates, NEW p \in Ports, NEW i \in InterfaceStates
    PROVE  [x EXCEPT !.itf[p] = i] \in EntityStates
  BY DEF EntityStates

LEMMA SetInterfaceState ==
    ASSUME NEW x \in EntityStates, NEW p \in Ports,
           NEW s \in {"NOT_STARTED", "DOWN", "LINK_DOWN", "DELAY", "WAITING"}
    PROVE  [x EXCEPT !.itf[p].st = s] \in EntityStates
  <1>1. [x.itf[p] EXCEPT !.st = s] \in InterfaceStates  BY DEF EntityStates, InterfaceStates
  <1> QED  BY <1>1 DEF EntityStates

LEMMA IeeeBeginType ==
    ASSUME NEW x \in EntityStates, NEW d \in Nat
    PROVE  IeeeBegin(x, d) \in EntityStates
  <1> DEFINE itf == [p \in Ports |->
                 IF p \in cfg.ports
                 THEN [x.itf[p] EXCEPT !.st = IF x.itf[p].op THEN "WAITING" ELSE "LINK_DOWN"]
                 ELSE x.itf[p]]
  <1>1. Start(x.delay, d) \in TimerValues  BY StartType DEF EntityStates
  <1>2. ASSUME NEW p \in Ports
        PROVE  itf[p] \in InterfaceStates
    <2>1. x.itf[p] \in InterfaceStates  BY DEF EntityStates
    <2> QED  BY <2>1 DEF InterfaceStates
  <1>3. itf \in [Ports -> InterfaceStates]  BY <1>2
  <1>4. IeeeBegin(x, d) = IF x.st # "NOT_STARTED" THEN x
                          ELSE [x EXCEPT !.st = "DELAY", !.index = 0,
                                         !.delay = Start(x.delay, d), !.itf = itf]
    BY DEF IeeeBegin, EntityStates
  <1>5. ASSUME NEW f \in [Ports -> InterfaceStates], NEW t \in TimerValues
        PROVE  [x EXCEPT !.st = "DELAY", !.index = 0, !.delay = t, !.itf = f] \in EntityStates
    BY DEF EntityStates
  <1> HIDE DEF itf
  <1> QED  BY <1>1, <1>3, <1>4, <1>5

LEMMA IeeeSmType ==
    ASSUME NEW x \in EntityStates, NEW p \in Ports, NEW event, NEW d \in Nat
    PROVE  IeeeSm(x, p, event, d) \in EntityStates
  BY IeeeAdvertiseType, SetInterfaceState DEF IeeeSm

LEMMA InterfaceEventType ==
    ASSUME NEW x \in EntityStates, NEW p \in Ports, NEW event, NEW d \in Nat
    PROVE  InterfaceEvent(x, p, event, d) \in EntityStates
  <1>1. x.itf[p] \in InterfaceStates  BY DEF EntityStates
  <1>2. [x EXCEPT !.itf[p] = MilanSm(x.itf[p], event, d)] \in EntityStates
    BY <1>1, MilanSmType, SetInterface
  <1> QED  BY <1>2, IeeeSmType DEF InterfaceEvent

LEMMA UpdatedType ==
    ASSUME cfg \in Configs, NEW x \in EntityStates, NEW y \in Updated(x)
    PROVE  y \in EntityStates
  <1>1. CASE ~x.ready  BY <1>1 DEF Updated
  <1>2. CASE x.ready /\ cfg.milan
    <2>1. PICK ds \in [cfg.ports -> cfg.delays] :
            y = [x EXCEPT !.itf = [p \in Ports |->
                    IF p \in cfg.ports THEN MilanSm(x.itf[p], "START", ds[p]) ELSE x.itf[p]]]
      BY <1>2 DEF Updated
    <2>2. ASSUME NEW p \in Ports
          PROVE  (IF p \in cfg.ports THEN MilanSm(x.itf[p], "START", ds[p]) ELSE x.itf[p])
                   \in InterfaceStates
      BY ConfigFacts, MilanSmType DEF EntityStates
    <2> DEFINE itf == [p \in Ports |->
                 IF p \in cfg.ports THEN MilanSm(x.itf[p], "START", ds[p]) ELSE x.itf[p]]
    <2>3. itf \in [Ports -> InterfaceStates]  BY <2>2
    <2>4. y = [x EXCEPT !.itf = itf]  BY <2>1
    <2> HIDE DEF itf
    <2> QED  BY <2>3, <2>4 DEF EntityStates
  <1>3. CASE x.ready /\ ~cfg.milan
    BY <1>3, IeeeBeginType, ConfigFacts DEF Updated
  <1> QED  BY <1>1, <1>2, <1>3

LEMMA SendOnType ==
    ASSUME chan \in [Ports -> Seq(Messages)], NEW ports, NEW e \in Entities,
           NEW type \in {"AVAILABLE", "DEPARTING"}, NEW x \in EntityStates
    PROVE  SendOn(ports, type, e, x) \in [Ports -> Seq(Messages)]
  <1>1. ASSUME NEW p \in Ports  PROVE Append(chan[p], Packet(type, e, x, p)) \in Seq(Messages)
    <2>1. x.itf[p] \in InterfaceStates  BY DEF EntityStates
    <2>2. Packet(type, e, x, p) \in Messages
      BY <2>1 DEF Packet, Messages, EntityStates, InterfaceStates
    <2> QED  BY <2>2
  <1> QED  BY <1>1 DEF SendOn

-----------------------------------------------------------------------------
(***************************************************************************)
(* The invariant.  A step that leaves the lists and the application alone  *)
(* has only the type to keep.                                              *)
(***************************************************************************)
LEMMA InvInit == Init => Inv
  <1> SUFFICES ASSUME Init  PROVE Inv
    OBVIOUS
  <1>1. NoEntry \in Entries /\ ~NoEntry.used
    BY DEF NoEntry, NoInfo, Entries, Infos, TimerValues, Off
  <1>2. TypeOK
    <2>1. ent \in [Entities -> EntityStates]  BY NewEntityType DEF Init
    <2>2. disc \in [Ports -> [Slots -> Entries]]  BY <1>1 DEF Init, EmptyLists
    <2>3. told \in [Ports -> [Entities -> Nat \cup {None}]]  BY DEF Init, NothingTold
    <2>4. missed \in [Entities -> [Ports -> 0 .. Many]]  BY DEF Init, Many
    <2>5. chan \in [Ports -> Seq(Messages)]  BY DEF Init
    <2> QED  BY <2>1, <2>2, <2>3, <2>4, <2>5, ConfigFacts DEF Init, TypeOK
  <1>3. ASSUME NEW p \in Ports  PROVE GoodList(cfg.slots, disc[p])
    <2>1. disc[p] = [i \in Slots |-> NoEntry]  BY DEF Init, EmptyLists
    <2> QED  BY <1>1, <2>1, ConfigFacts DEF GoodList, Init
  <1> QED  BY <1>2, <1>3 DEF Inv, Init

LEMMA QuietStep ==
    ASSUME Inv, TypeOK', UNCHANGED <<cfg, disc, host, told>>  PROVE Inv'
  <1>1. cfg' = cfg /\ disc' = disc /\ host' = host /\ told' = told  OBVIOUS
  <1>2. ASSUME NEW p \in Ports
        PROVE  /\ GoodList(cfg.slots, disc[p])'
               /\ host' => told'[p] = ViewOf(cfg.slots, disc[p])'
    <2>1. GoodList(cfg.slots, disc[p])' <=> GoodList(cfg.slots, disc[p])
      BY <1>1 DEF GoodList
    <2>2. ViewOf(cfg.slots, disc[p])' = ViewOf(cfg.slots, disc[p])
      BY <1>1 DEF ViewOf, FoundIn
    <2> QED  BY <1>1, <2>1, <2>2 DEF Inv
  <1> QED  BY <1>2 DEF Inv

LEMMA EntityStep ==
    ASSUME Inv, NEW e \in Entities, NEW x \in EntityStates, ent' = [ent EXCEPT ![e] = x],
           chan' \in [Ports -> Seq(Messages)], asked' \subseteq Entities \X Ports,
           missed' \in [Entities -> [Ports -> 0 .. Many]], faults' \in Nat,
           UNCHANGED <<cfg, disc, running, host, told, lossless>>
    PROVE  Inv'
  <1>1. ent' \in [Entities -> EntityStates]  BY DEF Inv, TypeOK
  <1>2. TypeOK'  BY <1>1 DEF Inv, TypeOK
  <1> QED  BY <1>2, QuietStep

LEMMA BootStep ==
    ASSUME Inv, NEW e \in cfg.entities, Boot(e)  PROVE Inv'
  <1>1. cfg \in Configs /\ ent[e] \in EntityStates /\ e \in Entities
    BY ConfigFacts DEF Inv, TypeOK
  <1>2. PICK ready \in BOOLEAN :
          ent' = [ent EXCEPT ![e] = NewEntity(ent[e].boot + 1, TRUE, ready)]
    BY Zenon DEF Boot
  <1>3. NewEntity(ent[e].boot + 1, TRUE, ready) \in EntityStates
    <2>1. ent[e].boot + 1 \in Nat  BY <1>1 DEF EntityStates
    <2>2. TRUE \in BOOLEAN /\ ready \in BOOLEAN  BY <1>2
    <2> QED  BY <2>1, <2>2, NewEntityType, Zenon
  <1> QED  BY <1>1, <1>2, <1>3, EntityStep DEF Boot, Inv, TypeOK

LEMMA HeartbeatStep ==
    ASSUME Inv, NEW e \in cfg.entities, Heartbeat(e)  PROVE Inv'
  <1>1. cfg \in Configs /\ ent[e] \in EntityStates /\ e \in Entities
    BY ConfigFacts DEF Inv, TypeOK
  <1>2. PICK x \in Updated([ent[e] EXCEPT !.ready = TRUE]) : ent' = [ent EXCEPT ![e] = x]
    BY DEF Heartbeat
  <1>3. [ent[e] EXCEPT !.ready = TRUE] \in EntityStates  BY <1>1 DEF EntityStates
  <1>4. x \in EntityStates  BY <1>1, <1>2, <1>3, UpdatedType
  <1> QED  BY <1>1, <1>2, <1>4, EntityStep DEF Heartbeat, Inv, TypeOK

LEMMA GmStatusStep ==
    ASSUME Inv, NEW e \in cfg.entities, NEW p \in cfg.ports, NEW g \in cfg.gms,
           GmStatus(e, p, g)
    PROVE  Inv'
  <1>1. /\ cfg \in Configs /\ ent[e] \in EntityStates /\ e \in Entities /\ p \in Ports
        /\ g \in Nat /\ cfg.delays \subseteq Nat
    BY ConfigFacts DEF Inv, TypeOK
  <1>2. PICK x \in Updated([ent[e] EXCEPT !.itf[p].gm = g]), d \in cfg.delays :
          ent' = [ent EXCEPT ![e] = InterfaceEvent(x, p, "GM_CHANGE", d)]
    BY DEF GmStatus
  <1>3. [ent[e] EXCEPT !.itf[p].gm = g] \in EntityStates
    BY <1>1 DEF EntityStates, InterfaceStates
  <1>4. x \in EntityStates  BY <1>1, <1>2, <1>3, UpdatedType
  <1>5. InterfaceEvent(x, p, "GM_CHANGE", d) \in EntityStates
    BY <1>1, <1>2, <1>4, InterfaceEventType
  <1>6. faults' \in Nat
    <2>1. ent[e].itf[p].gm \in Nat /\ faults \in Nat
      BY <1>1 DEF EntityStates, InterfaceStates, Inv, TypeOK
    <2> QED  BY <2>1 DEF GmStatus
  <1> QED  BY <1>1, <1>2, <1>5, <1>6, EntityStep DEF GmStatus, Inv, TypeOK

LEMMA MissedType ==
    ASSUME TypeOK, NEW e \in Entities, NEW ports
    PROVE  Missed(e, ports) \in [Entities -> [Ports -> 0 .. Many]]
  BY DEF TypeOK, Missed, Many

LEMMA SetLink ==
    ASSUME NEW x \in EntityStates, NEW p \in Ports, NEW up \in BOOLEAN
    PROVE  [x EXCEPT !.itf[p].op = up] \in EntityStates
  <1>1. [x.itf[p] EXCEPT !.op = up] \in InterfaceStates  BY DEF EntityStates, InterfaceStates
  <1> QED  BY <1>1 DEF EntityStates

LEMMA PortUpStep ==
    ASSUME Inv, NEW e \in cfg.entities, NEW p \in cfg.ports, PortUp(e, p)  PROVE Inv'
  <1>1. /\ cfg \in Configs /\ ent[e] \in EntityStates /\ e \in Entities /\ p \in Ports
        /\ cfg.delays \subseteq Nat
    BY ConfigFacts DEF Inv, TypeOK
  <1>2. PICK d \in cfg.delays :
          ent' = [ent EXCEPT ![e] =
                    [InterfaceEvent(ent[e], p, "LINK_UP", d) EXCEPT !.itf[p].op = TRUE]]
    BY DEF PortUp
  <1>3. InterfaceEvent(ent[e], p, "LINK_UP", d) \in EntityStates
    BY <1>1, <1>2, InterfaceEventType
  <1>4. [InterfaceEvent(ent[e], p, "LINK_UP", d) EXCEPT !.itf[p].op = TRUE] \in EntityStates
    BY <1>1, <1>3, SetLink
  <1> QED  BY <1>1, <1>2, <1>4, EntityStep DEF PortUp, Inv, TypeOK

LEMMA PortDownStep ==
    ASSUME Inv, NEW e \in cfg.entities, NEW p \in cfg.ports, PortDown(e, p)  PROVE Inv'
  <1>1. /\ cfg \in Configs /\ ent[e] \in EntityStates /\ e \in Entities /\ p \in Ports
        /\ cfg.delays \subseteq Nat
    BY ConfigFacts DEF Inv, TypeOK
  <1>2. PICK d \in cfg.delays :
          ent' = [ent EXCEPT ![e] =
                    [InterfaceEvent(ent[e], p, "LINK_DOWN", d) EXCEPT !.itf[p].op = FALSE]]
    BY DEF PortDown
  <1>3. InterfaceEvent(ent[e], p, "LINK_DOWN", d) \in EntityStates
    BY <1>1, <1>2, InterfaceEventType
  <1>4. [InterfaceEvent(ent[e], p, "LINK_DOWN", d) EXCEPT !.itf[p].op = FALSE] \in EntityStates
    BY <1>1, <1>3, SetLink
  <1>5. missed' \in [Entities -> [Ports -> 0 .. Many]]
    BY <1>1, MissedType DEF PortDown, Inv
  <1>6. faults' \in Nat /\ asked' \subseteq Entities \X Ports  BY DEF PortDown, Inv, TypeOK
  <1> QED  BY <1>1, <1>2, <1>4, <1>5, <1>6, EntityStep DEF PortDown, Inv, TypeOK

LEMMA DiscoverRcvStep ==
    ASSUME Inv, NEW e \in cfg.entities, NEW p \in cfg.ports, DiscoverRcv(e, p)  PROVE Inv'
  <1>1. /\ cfg \in Configs /\ ent[e] \in EntityStates /\ e \in Entities /\ p \in Ports
        /\ cfg.delays \subseteq Nat
    BY ConfigFacts DEF Inv, TypeOK
  <1>2. PICK d \in cfg.delays :
          ent' = [ent EXCEPT ![e] = InterfaceEvent(ent[e], p, "DISCOVER", d)]
    BY DEF DiscoverRcv, Inv, TypeOK
  <1>3. InterfaceEvent(ent[e], p, "DISCOVER", d) \in EntityStates
    BY <1>1, <1>2, InterfaceEventType
  <1>4. asked' \subseteq Entities \X Ports  BY DEF DiscoverRcv, Inv, TypeOK
  <1> QED  BY <1>1, <1>2, <1>3, <1>4, EntityStep DEF DiscoverRcv, Inv, TypeOK

LEMMA MilanDelayTimeoutStep ==
    ASSUME Inv, NEW e \in cfg.entities, NEW p \in cfg.ports, MilanDelayTimeout(e, p)
    PROVE  Inv'
  <1> DEFINE x == [ent[e] EXCEPT !.itf[p].delay = Off]
             y == [x EXCEPT !.index = NextIndex(x.index), !.itf[p].st = "WAITING",
                            !.itf[p].adv = Start(x.itf[p].adv, cfg.interval)]
  <1>1. /\ cfg \in Configs /\ ent[e] \in EntityStates /\ e \in Entities /\ p \in Ports
        /\ cfg.interval \in Nat
    BY ConfigFacts DEF Inv, TypeOK
  <1>2. x \in EntityStates
    <2>1. [ent[e].itf[p] EXCEPT !.delay = Off] \in InterfaceStates
      BY <1>1, OffType DEF EntityStates, InterfaceStates
    <2> QED  BY <1>1, <2>1 DEF EntityStates
  <1>3. ent' = [ent EXCEPT ![e] = y] /\ chan' = SendOn({p}, "AVAILABLE", e, x)
    BY <1>1, <1>2 DEF MilanDelayTimeout, EntityStates, InterfaceStates
  <1> HIDE DEF x
  <1>4. y \in EntityStates
    <2>1. /\ x.index \in Nat /\ x.itf[p] \in InterfaceStates
          /\ x.itf[p].adv \in TimerValues
      BY <1>1, <1>2 DEF EntityStates, InterfaceStates
    <2>2. NextIndex(x.index) \in Nat /\ Start(x.itf[p].adv, cfg.interval) \in TimerValues
      BY <1>1, <2>1, IndexType, StartType
    <2>3. ASSUME NEW n \in Nat, NEW t \in TimerValues
          PROVE  [x EXCEPT !.index = n, !.itf[p].st = "WAITING", !.itf[p].adv = t] \in EntityStates
      <3>1. [x.itf[p] EXCEPT !.st = "WAITING", !.adv = t] \in InterfaceStates
        BY <2>1 DEF InterfaceStates
      <3>2. [x EXCEPT !.index = n, !.itf[p] = [x.itf[p] EXCEPT !.st = "WAITING", !.adv = t]]
              \in EntityStates
        BY <1>1, <1>2, <3>1 DEF EntityStates
      <3>3. [x EXCEPT !.index = n, !.itf[p].st = "WAITING", !.itf[p].adv = t]
              = [x EXCEPT !.index = n, !.itf[p] = [x.itf[p] EXCEPT !.st = "WAITING", !.adv = t]]
        BY <1>1, <1>2, <2>1 DEF EntityStates, InterfaceStates
      <3> QED  BY <3>2, <3>3
    <2> QED  BY <2>2, <2>3
  <1> HIDE DEF y
  <1>5. chan' \in [Ports -> Seq(Messages)]  BY <1>1, <1>2, <1>3, SendOnType DEF Inv, TypeOK
  <1> QED  BY <1>1, <1>3, <1>4, <1>5, EntityStep DEF MilanDelayTimeout, Inv, TypeOK

LEMMA MilanAdvertiseTimeoutStep ==
    ASSUME Inv, NEW e \in cfg.entities, NEW p \in cfg.ports, MilanAdvertiseTimeout(e, p)
    PROVE  Inv'
  <1>1. /\ cfg \in Configs /\ ent[e] \in EntityStates /\ e \in Entities /\ p \in Ports
        /\ cfg.delays \subseteq Nat
    BY ConfigFacts DEF Inv, TypeOK
  <1> DEFINE i == [ent[e].itf[p] EXCEPT !.adv = Off]
  <1>2. i \in InterfaceStates  BY <1>1, OffType DEF EntityStates, InterfaceStates
  <1>3. PICK d \in cfg.delays :
          ent' = [ent EXCEPT ![e] = [ent[e] EXCEPT !.itf[p] = MilanSm(i, "TMR_ADVERTISE", d)]]
    BY <1>1 DEF MilanAdvertiseTimeout, Inv, TypeOK, EntityStates
  <1> HIDE DEF i
  <1>4. [ent[e] EXCEPT !.itf[p] = MilanSm(i, "TMR_ADVERTISE", d)] \in EntityStates
    BY <1>1, <1>2, <1>3, MilanSmType, SetInterface
  <1> QED  BY <1>1, <1>3, <1>4, EntityStep DEF MilanAdvertiseTimeout, Inv, TypeOK

LEMMA IeeeDelayTimeoutStep ==
    ASSUME Inv, NEW e \in cfg.entities, IeeeDelayTimeout(e)  PROVE Inv'
  <1> DEFINE x == [ent[e] EXCEPT !.delay = Off, !.st = "WAITING",
                                 !.reannounce = Start(ent[e].reannounce, cfg.interval)]
  <1>1. /\ cfg \in Configs /\ ent[e] \in EntityStates /\ e \in Entities
        /\ cfg.interval \in Nat
    BY ConfigFacts DEF Inv, TypeOK
  <1>2. x \in EntityStates
    <2>1. Start(ent[e].reannounce, cfg.interval) \in TimerValues
      BY <1>1, StartType DEF EntityStates
    <2> QED  BY <1>1, <2>1, OffType DEF EntityStates
  <1>3. ent' = [ent EXCEPT ![e] = x]
    BY <1>1 DEF IeeeDelayTimeout, Inv, TypeOK, EntityStates
  <1>4. chan' \in [Ports -> Seq(Messages)]
    BY <1>1, SendOnType DEF IeeeDelayTimeout, Inv, TypeOK
  <1> HIDE DEF x
  <1> QED  BY <1>1, <1>2, <1>3, <1>4, EntityStep DEF IeeeDelayTimeout, Inv, TypeOK

LEMMA IeeeReannounceTimeoutStep ==
    ASSUME Inv, NEW e \in cfg.entities, IeeeReannounceTimeout(e)  PROVE Inv'
  <1>1. /\ cfg \in Configs /\ ent[e] \in EntityStates /\ e \in Entities
        /\ cfg.delays \subseteq Nat
    BY ConfigFacts DEF Inv, TypeOK
  <1>2. PICK d \in cfg.delays : ent' = [ent EXCEPT ![e] = IeeeAdvertise(ent[e], d)]
    BY DEF IeeeReannounceTimeout
  <1>3. IeeeAdvertise(ent[e], d) \in EntityStates  BY <1>1, <1>2, IeeeAdvertiseType
  <1> QED  BY <1>1, <1>2, <1>3, EntityStep DEF IeeeReannounceTimeout, Inv, TypeOK

LEMMA StopStep ==
    ASSUME Inv, NEW e \in cfg.entities, NEW leaving, Stop(e, leaving)  PROVE Inv'
  <1>1. cfg \in Configs /\ ent[e] \in EntityStates /\ e \in Entities
    BY ConfigFacts DEF Inv, TypeOK
  <1>2. ent' = [ent EXCEPT ![e] = NewEntity(ent[e].boot, FALSE, FALSE)]
    BY DEF Stop
  <1>3. NewEntity(ent[e].boot, FALSE, FALSE) \in EntityStates
    BY <1>1, NewEntityType DEF EntityStates
  <1>4. [ent[e] EXCEPT !.index = 0] \in EntityStates  BY <1>1 DEF EntityStates
  <1>5. chan' \in [Ports -> Seq(Messages)]
    BY <1>1, <1>4, SendOnType DEF Stop, Inv, TypeOK
  <1>6. missed' \in [Entities -> [Ports -> 0 .. Many]]
    BY <1>1, MissedType DEF Stop, Inv
  <1>7. faults' \in Nat /\ asked' \subseteq Entities \X Ports  BY DEF Stop, Inv, TypeOK
  <1> QED  BY <1>1, <1>2, <1>3, <1>5, <1>6, <1>7, EntityStep DEF Stop, Inv, TypeOK

-----------------------------------------------------------------------------
(***************************************************************************)
(* The steps of the controller station.                                    *)
(***************************************************************************)
LEMMA ListStep ==
    ASSUME Inv, NEW p \in Ports, NEW l, GoodList(cfg.slots, l), NEW t \in Views,
           host => t = ViewOf(cfg.slots, l),
           disc' = [disc EXCEPT ![p] = l], told' = [told EXCEPT ![p] = t],
           chan' \in [Ports -> Seq(Messages)],
           missed' \in [Entities -> [Ports -> 0 .. Many]],
           UNCHANGED <<cfg, ent, running, host, asked, lossless, faults>>
    PROVE  Inv'
  <1>1. cfg' = cfg /\ host' = host  OBVIOUS
  <1>2. TypeOK'
    <2>1. disc' \in [Ports -> [Slots -> Entries]]  BY DEF Inv, TypeOK, GoodList
    <2>2. told' \in [Ports -> [Entities -> Nat \cup {None}]]  BY DEF Inv, TypeOK, Views
    <2> QED  BY <2>1, <2>2 DEF Inv, TypeOK
  <1>3. ASSUME NEW q \in Ports
        PROVE  /\ GoodList(cfg'.slots, disc'[q])
               /\ host' => told'[q] = ViewOf(cfg'.slots, disc'[q])
    <2>1. CASE q = p
      <3>1. disc'[q] = l /\ told'[q] = t  BY <2>1 DEF Inv, TypeOK
      <3> QED  BY <1>1, <3>1
    <2>2. CASE q # p
      <3>1. disc'[q] = disc[q] /\ told'[q] = told[q]  BY <2>2 DEF Inv, TypeOK
      <3> QED  BY <1>1, <3>1 DEF Inv
    <2> QED  BY <2>1, <2>2
  <1> QED  BY <1>2, <1>3 DEF Inv

LEMMA ReceiveStep ==
    ASSUME Inv, NEW p \in cfg.ports, Receive(p)  PROVE Inv'
  <1> DEFINE m == Head(chan[p])
             r == IF m.type = "AVAILABLE" THEN DiscoveryUpdate(disc[p], m, told[p])
                  ELSE DiscoveryRemove(disc[p], m, told[p])
  <1>1. cfg \in Configs /\ p \in Ports  BY ConfigFacts DEF Inv, TypeOK
  <1>2. chan[p] \in Seq(Messages) /\ chan[p] # <<>>  BY <1>1 DEF Receive, Inv, TypeOK
  <1>3. m \in Messages /\ Tail(chan[p]) \in Seq(Messages)  BY <1>2
  <1>4. chan' \in [Ports -> Seq(Messages)]
    BY <1>1, <1>3 DEF Receive, Inv, TypeOK
  <1>5. CASE ~running
    <2>1. UNCHANGED <<cfg, ent, disc, running, host, told, missed, asked, lossless, faults>>
      BY <1>5 DEF Receive
    <2>2. TypeOK'  BY <1>4, <2>1 DEF Inv, TypeOK
    <2> QED  BY <2>1, <2>2, QuietStep
  <1>6. CASE running
    <2>1. /\ disc' = [disc EXCEPT ![p] = r.list] /\ told' = [told EXCEPT ![p] = r.told]
          /\ UNCHANGED <<cfg, ent, running, host, asked, lossless, faults>>
      BY <1>6 DEF Receive
    <2>2. missed' \in [Entities -> [Ports -> 0 .. Many]]
      <3>1. missed \in [Entities -> [Ports -> 0 .. Many]] /\ m.entity \in Entities
        BY <1>3 DEF Inv, TypeOK, Messages
      <3>2. ASSUME NEW n \in 0 .. Many
            PROVE  [missed EXCEPT ![m.entity][p] = n] \in [Entities -> [Ports -> 0 .. Many]]
        BY <1>1, <3>1
      <3>3. missed[m.entity][p] \in 0 .. Many /\ 0 \in 0 .. Many  BY <1>1, <3>1 DEF Many
      <3>4. \/ missed' = missed
            \/ missed' = [missed EXCEPT ![m.entity][p] = 0]
            \/ missed' = [missed EXCEPT ![m.entity][p] = missed[m.entity][p]]
        BY <1>6 DEF Receive
      <3> HIDE DEF m
      <3> QED  BY <3>1, <3>2, <3>3, <3>4
    <2>3. GoodList(cfg.slots, disc[p]) /\ told[p] \in Views
      BY <1>1 DEF Inv, TypeOK, Views
    <2>4. host => told[p] = ViewOf(cfg.slots, disc[p])  BY <1>1 DEF Inv
    <2> HIDE DEF m
    <2>5. /\ GoodList(cfg.slots, r.list) /\ r.told \in Views
          /\ host => r.told = ViewOf(cfg.slots, r.list)
      <3>1. CASE m.type = "AVAILABLE"
        BY <1>1, <1>3, <2>3, <2>4, <3>1, UpdateGood
      <3>2. CASE m.type # "AVAILABLE"
        BY <1>1, <1>3, <2>3, <2>4, <3>2, RemoveGood
      <3> QED  BY <3>1, <3>2
    <2> HIDE DEF r
    <2> QED  BY <1>1, <1>4, <2>1, <2>2, <2>5, ListStep
  <1> QED  BY <1>5, <1>6 DEF Inv, TypeOK

LEMMA DiscoveryTimeoutStep ==
    ASSUME Inv, NEW p \in cfg.ports, NEW i \in cfg.slots, DiscoveryTimeout(p, i)  PROVE Inv'
  <1> DEFINE l == disc[p]
             x == l[i].info.entity
  <1>1. cfg \in Configs /\ p \in Ports /\ i \in Slots /\ cfg.slots \in SUBSET Slots
    BY ConfigFacts DEF Inv, TypeOK
  <1>2. GoodList(cfg.slots, l) /\ told[p] \in Views
    BY <1>1 DEF Inv, TypeOK, Views
  <1>3. host => told[p] = ViewOf(cfg.slots, l)  BY <1>1 DEF Inv
  <1>4. l[i].used /\ x \in Entities
    BY <1>1, <1>2 DEF DiscoveryTimeout, GoodList, NoEntry, Off
  <1>5. /\ GoodList(cfg.slots, Put(l, i))
        /\ ViewOf(cfg.slots, Put(l, i)) = [ViewOf(cfg.slots, l) EXCEPT ![x] = None]
    BY <1>1, <1>2, <1>4, PutGood
  <1>6. /\ Tell(told[p], x, None) \in Views
        /\ host => Tell(told[p], x, None) = ViewOf(cfg.slots, Put(l, i))
    BY <1>2, <1>3, <1>4, <1>5 DEF Tell, Views
  <1>7. /\ disc' = [disc EXCEPT ![p] = Put(l, i)]
        /\ told' = [told EXCEPT ![p] = Tell(told[p], x, None)]
        /\ UNCHANGED <<cfg, ent, running, host, chan, asked, missed, lossless, faults>>
    BY DEF DiscoveryTimeout
  <1> QED  BY <1>1, <1>5, <1>6, <1>7, ListStep DEF Inv, TypeOK

LEMMA ConnectStep ==
    ASSUME Inv, Connect  PROVE Inv'
  <1>1. CASE DiscoveryInit
    <2>1. asked' \subseteq Entities \X Ports
      BY <1>1, ConfigFacts DEF DiscoveryInit, Inv, TypeOK
    <2>2. TypeOK'  BY <1>1, <2>1 DEF DiscoveryInit, Inv, TypeOK
    <2> QED  BY <1>1, <2>2, QuietStep DEF DiscoveryInit
  <1>2. CASE Discover
    <2>1. /\ cfg' = cfg /\ disc' = disc /\ host' = TRUE
          /\ told' = [p \in Ports |-> ViewOf(cfg.slots, disc[p])]
      BY <1>2, SameView DEF Discover
    <2>2. \A p \in Ports : ViewOf(cfg.slots, disc[p]) \in Views
      BY ConfigFacts, ViewType DEF Inv, TypeOK
    <2>3. TypeOK'
      <3>1. told' \in [Ports -> [Entities -> Nat \cup {None}]]  BY <2>1, <2>2 DEF Views
      <3> QED  BY <1>2, <3>1 DEF Discover, Inv, TypeOK
    <2>4. ASSUME NEW p \in Ports
          PROVE  /\ GoodList(cfg'.slots, disc'[p])
                 /\ host' => told'[p] = ViewOf(cfg'.slots, disc'[p])
      BY <2>1 DEF Inv
    <2> QED  BY <2>3, <2>4 DEF Inv
  <1> QED  BY <1>1, <1>2 DEF Connect

LEMMA DiscoveryExitStep ==
    ASSUME Inv, DiscoveryExit  PROVE Inv'
  <1>1. NoEntry \in Entries /\ ~NoEntry.used
    BY DEF NoEntry, NoInfo, Entries, Infos, TimerValues, Off
  <1>2. cfg' = cfg /\ ~host' /\ disc' = [p \in Ports |-> [i \in Slots |-> NoEntry]]
    BY DEF DiscoveryExit, EmptyLists
  <1>3. TypeOK'
    <2>1. disc' \in [Ports -> [Slots -> Entries]]  BY <1>1, <1>2
    <2>2. told' \in [Ports -> [Entities -> Nat \cup {None}]]
      BY DEF DiscoveryExit, NothingTold
    <2>3. faults' \in Nat  BY DEF DiscoveryExit, Inv, TypeOK
    <2> QED  BY <2>1, <2>2, <2>3 DEF DiscoveryExit, Inv, TypeOK
  <1>4. ASSUME NEW p \in Ports  PROVE GoodList(cfg'.slots, disc'[p])
    <2>1. disc'[p] = [i \in Slots |-> NoEntry]  BY <1>2
    <2> QED  BY <1>1, <1>2, <2>1, ConfigFacts DEF GoodList, Inv, TypeOK
  <1> QED  BY <1>2, <1>3, <1>4 DEF Inv

LEMMA LoseStep ==
    ASSUME Inv, NEW p \in cfg.ports, Lose(p)  PROVE Inv'
  <1> DEFINE x == Head(chan[p]).entity
  <1>1. cfg \in Configs /\ p \in Ports  BY ConfigFacts DEF Inv, TypeOK
  <1>2. chan[p] \in Seq(Messages) /\ chan[p] # <<>>  BY <1>1 DEF Lose, Inv, TypeOK
  <1>3. Head(chan[p]) \in Messages /\ Tail(chan[p]) \in Seq(Messages)  BY <1>2
  <1>4. x \in Entities  BY <1>3 DEF Messages
  <1>5. chan' \in [Ports -> Seq(Messages)]  BY <1>1, <1>3 DEF Lose, Inv, TypeOK
  <1>6. missed' \in [Entities -> [Ports -> 0 .. Many]]
    <2>1. missed \in [Entities -> [Ports -> 0 .. Many]]  BY DEF Inv, TypeOK
    <2>2. missed[x][p] \in 0 .. Many  BY <1>1, <1>4, <2>1
    <2>3. (IF missed[x][p] < Many THEN missed[x][p] + 1 ELSE missed[x][p]) \in 0 .. Many
      BY <2>2 DEF Many
    <2>4. ASSUME NEW n \in 0 .. Many
          PROVE  [missed EXCEPT ![x][p] = n] \in [Entities -> [Ports -> 0 .. Many]]
      BY <1>1, <1>4, <2>1
    <2>5. missed' = [missed EXCEPT ![x][p] =
                       IF missed[x][p] < Many THEN missed[x][p] + 1 ELSE missed[x][p]]
      BY <1>1, <1>4, <2>1 DEF Lose
    <2> HIDE DEF x
    <2> QED  BY <2>3, <2>4, <2>5
  <1>7. faults' \in Nat  BY DEF Lose, Inv, TypeOK
  <1>8. TypeOK'  BY <1>5, <1>6, <1>7 DEF Lose, Inv, TypeOK
  <1> QED  BY <1>8, QuietStep DEF Lose

(***************************************************************************)
(* The lists keep who is found where while their timers run.               *)
(***************************************************************************)
LEMMA LessType == ASSUME NEW t \in TimerValues  PROVE Less(t) \in TimerValues
  BY DEF TimerValues, Less, Off

LEMMA TickStep ==
    ASSUME Inv, Tick  PROVE Inv'
  <1>1. cfg' = cfg /\ host' = host /\ told' = told  BY DEF Tick
  <1>2. ent' \in [Entities -> EntityStates]
    <2>1. ASSUME NEW e \in Entities
          PROVE  [ent[e] EXCEPT !.delay = Less(@), !.reannounce = Less(@),
                                !.itf = [p \in Ports |->
                                   [ent[e].itf[p] EXCEPT !.delay = Less(@), !.adv = Less(@)]]]
                   \in EntityStates
      <3> DEFINE x == ent[e]
                 f == [p \in Ports |-> [x.itf[p] EXCEPT !.delay = Less(@), !.adv = Less(@)]]
      <3>1. x \in EntityStates  BY DEF Inv, TypeOK
      <3>2. ASSUME NEW p \in Ports
            PROVE  [x.itf[p] EXCEPT !.delay = Less(@), !.adv = Less(@)] \in InterfaceStates
        <4>1. x.itf[p] \in InterfaceStates  BY <3>1 DEF EntityStates
        <4>2. Less(x.itf[p].delay) \in TimerValues /\ Less(x.itf[p].adv) \in TimerValues
          BY <4>1, LessType DEF InterfaceStates
        <4> QED  BY <4>1, <4>2 DEF InterfaceStates
      <3>3. f \in [Ports -> InterfaceStates]  BY <3>2
      <3>4. Less(x.delay) \in TimerValues /\ Less(x.reannounce) \in TimerValues
        BY <3>1, LessType DEF EntityStates
      <3>5. ASSUME NEW a \in TimerValues, NEW b \in TimerValues,
                   NEW g \in [Ports -> InterfaceStates]
            PROVE  [x EXCEPT !.delay = a, !.reannounce = b, !.itf = g] \in EntityStates
        BY <3>1 DEF EntityStates
      <3>6. [x EXCEPT !.delay = Less(x.delay), !.reannounce = Less(x.reannounce), !.itf = f]
              \in EntityStates
        <4> HIDE DEF x, f
        <4> QED  BY <3>3, <3>4, <3>5
      <3> QED  BY <3>6
    <2> QED  BY <2>1 DEF Tick
  <1>3. ASSUME NEW p \in Ports
        PROVE  /\ GoodList(cfg.slots, disc'[p])
               /\ ViewOf(cfg.slots, disc'[p]) = ViewOf(cfg.slots, disc[p])
    <2> DEFINE l == disc[p]
               k == disc'[p]
    <2>1. GoodList(cfg.slots, l) /\ cfg.slots \in SUBSET Slots
      BY ConfigFacts DEF Inv, TypeOK
    <2>2. k = [i \in Slots |-> [l[i] EXCEPT !.timeout = Less(l[i].timeout)]]  BY DEF Tick
    <2> HIDE DEF k, l
    <2>3. ASSUME NEW i \in Slots
          PROVE  /\ k[i] \in Entries /\ k[i].used = l[i].used /\ k[i].info = l[i].info
                 /\ ~k[i].used => k[i] = NoEntry
      <3>1. l[i] \in Entries  BY <2>1 DEF GoodList
      <3>2. Less(l[i].timeout) \in TimerValues  BY <3>1, LessType DEF Entries
      <3>3. k[i] = [l[i] EXCEPT !.timeout = Less(l[i].timeout)]  BY <2>2
      <3>4. k[i] \in Entries /\ k[i].used = l[i].used /\ k[i].info = l[i].info
        BY <3>1, <3>2, <3>3 DEF Entries
      <3>5. ~l[i].used => k[i] = NoEntry
        <4>1. Less(NoEntry.timeout) = Off  BY DEF NoEntry, Less
        <4>2. NoEntry.timeout = Off  BY DEF NoEntry
        <4>3. [l[i] EXCEPT !.timeout = l[i].timeout] = l[i]  BY <3>1 DEF Entries
        <4> QED  BY <2>1, <3>3, <4>1, <4>2, <4>3 DEF GoodList
      <3> QED  BY <3>4, <3>5
    <2>4. k \in [Slots -> Entries]  BY <2>2, <2>3
    <2>5. GoodList(cfg.slots, k)  BY <2>1, <2>3, <2>4 DEF GoodList
    <2>6. \A e \in Entities : FoundIn(cfg.slots, l, e) = FoundIn(cfg.slots, k, e)
      BY <2>1, <2>3 DEF FoundIn
    <2>7. \A e \in Entities : ViewOf(cfg.slots, l)[e] = ViewOf(cfg.slots, k)[e]
      <3> SUFFICES ASSUME NEW e \in Entities
                   PROVE  ViewOf(cfg.slots, l)[e] = ViewOf(cfg.slots, k)[e]
        OBVIOUS
      <3>1. \A i \in FoundIn(cfg.slots, l, e) : l[i].info.gm = k[i].info.gm
        BY <2>1, <2>3 DEF FoundIn
      <3> QED  BY <2>1, <2>5, <2>6, <3>1, ViewAgrees
    <2>8. ViewOf(cfg.slots, l) \in Views /\ ViewOf(cfg.slots, k) \in Views
      BY <2>1, <2>5, ViewType
    <2>9. ViewOf(cfg.slots, k) = ViewOf(cfg.slots, l)  BY <2>7, <2>8 DEF Views
    <2> QED  BY <2>5, <2>9 DEF k, l
  <1>4. disc' \in [Ports -> [Slots -> Entries]]
    <2>1. \A p \in Ports : disc'[p] \in [Slots -> Entries]  BY <1>3 DEF GoodList
    <2> QED  BY <2>1 DEF Tick
  <1>5. TypeOK'  BY <1>2, <1>4 DEF Tick, Inv, TypeOK
  <1> QED  BY <1>1, <1>3, <1>5 DEF Inv

-----------------------------------------------------------------------------
LEMMA InvNext == Inv /\ [Next]_vars => Inv'
  <1> SUFFICES ASSUME Inv, [Next]_vars  PROVE Inv'
    OBVIOUS
  <1>1. ASSUME NEW e \in cfg.entities, Boot(e)  PROVE Inv'  BY <1>1, BootStep
  <1>2. ASSUME NEW e \in cfg.entities, Entity(e)  PROVE Inv'
    BY <1>2, HeartbeatStep, IeeeDelayTimeoutStep, IeeeReannounceTimeoutStep DEF Entity
  <1>3. ASSUME NEW e \in cfg.entities, NEW p \in cfg.ports, Interface(e, p)  PROVE Inv'
    BY <1>3, PortUpStep, DiscoverRcvStep, MilanDelayTimeoutStep, MilanAdvertiseTimeoutStep
       DEF Interface
  <1>4. ASSUME NEW e \in cfg.entities, NEW p \in cfg.ports, NEW g \in cfg.gms,
               GmStatus(e, p, g)
        PROVE  Inv'
    BY <1>4, GmStatusStep
  <1>5. CASE Connect  BY <1>5, ConnectStep
  <1>6. CASE Station  BY <1>6, ReceiveStep, DiscoveryTimeoutStep DEF Station
  <1>7. CASE Fault
    BY <1>7, DiscoveryExitStep, StopStep, PortDownStep, LoseStep DEF Fault, Exit, Crash
  <1>8. CASE Tick  BY <1>8, TickStep
  <1>9. CASE UNCHANGED vars
    <2>1. TypeOK'  BY <1>9 DEF vars, Inv, TypeOK
    <2> QED  BY <1>9, <2>1, QuietStep DEF vars
  <1> QED  BY <1>1, <1>2, <1>3, <1>4, <1>5, <1>6, <1>7, <1>8, <1>9 DEF Next

THEOREM Invariance == Spec => []Inv
  <1> QED  BY InvInit, InvNext, PTL DEF Spec

(***************************************************************************)
(* Type correctness of entities, lists and channels, for any number of     *)
(* entities, ports and list entries.                                       *)
(***************************************************************************)
THEOREM ADPTypeOK == Spec => []TypeOK
  <1>1. Inv => TypeOK  BY DEF Inv
  <1> QED  BY <1>1, Invariance, PTL

(***************************************************************************)
(* The controller application's view is the discovery list, and no entity  *)
(* has two entries: adp_discovery_update, adp_discovery_remove, the time-  *)
(* out and adp_ipc_rx miss no difference, whatever is received.            *)
(***************************************************************************)
THEOREM ADPControllerView == Spec => []ControllerView
  <1>1. ASSUME Inv  PROVE ControllerView
    <2>1. cfg.slots \in SUBSET Slots  BY <1>1, ConfigFacts DEF Inv, TypeOK
    <2>2. ASSUME NEW p \in Ports, NEW e \in Entities
          PROVE  Cardinality(Found(disc[p], e)) <= 1
      <3>1. GoodList(cfg.slots, disc[p])  BY <1>1, <2>2 DEF Inv
      <3>2. Found(disc[p], e) = FoundIn(cfg.slots, disc[p], e)  BY DEF Found, FoundIn
      <3>3. CASE Found(disc[p], e) = {}
        <4>1. Cardinality(Found(disc[p], e)) = 0  BY <3>3, FS_EmptySet
        <4> QED  BY <4>1
      <3>4. CASE Found(disc[p], e) # {}
        <4>1. PICK i \in FoundIn(cfg.slots, disc[p], e) : TRUE  BY <3>2, <3>4
        <4>2. FoundIn(cfg.slots, disc[p], e) = {i}
          BY <2>1, <2>2, <3>1, <4>1, ViewOfFound
        <4>3. Cardinality({i}) = 1  BY FS_Singleton
        <4> QED  BY <3>2, <4>2, <4>3
      <3> QED  BY <3>3, <3>4
    <2>3. ASSUME NEW p \in Ports, host  PROVE told[p] = View(disc[p])
      BY <1>1, <2>3, SameView DEF Inv
    <2> QED  BY <2>2, <2>3 DEF ControllerView
  <1>2. Inv => ControllerView  BY <1>1
  <1> QED  BY <1>2, Invariance, PTL

-----------------------------------------------------------------------------
(***************************************************************************)
(* A restart is noticed.  The available_index of a Milan entity is zero in *)
(* the first advertisement of a start and grows with each, so the entry of *)
(* an earlier start meets an index that does not grow.  The entry, though, *)
(* may be made or expire while advertisements of several starts are on     *)
(* their way, and the station may be stopped when the first one arrives.   *)
(***************************************************************************)

\* A message of entity e, and one that shows a restart.
Mine(c, e, j) == j \in 1 .. Len(c) /\ c[j].entity = e

Fresh(c, e, j, b) ==
    Mine(c, e, j) /\ c[j].type = "AVAILABLE" /\ c[j].index = 0 /\ c[j].boot = b

EntryOf(l, e, i) == i \in Slots /\ l[i].used /\ l[i].info.entity = e

\* The controller has noticed the start b of entity e by position k of the
\* channel c, or will: a message with index zero is still ahead of k, or
\* neither the list nor the messages ahead of k know another start.
Noticed(c, l, e, k, b) ==
    \/ \E j \in 1 .. k - 1 : Fresh(c, e, j, b)
    \/ /\ \A j \in 1 .. k - 1 : Mine(c, e, j) => c[j].boot = b
       /\ \A i \in Slots : EntryOf(l, e, i) => l[i].info.boot = b

\* The channel c to the list l, from an entity e in its start b with the
\* index n: starts arrive in order, and each of them is noticed.
InOrder(c, l, e, b, n) ==
    /\ \A j, k \in 1 .. Len(c) : j <= k /\ Mine(c, e, j) /\ Mine(c, e, k) => c[j].boot <= c[k].boot
    /\ \A k \in 1 .. Len(c) : Mine(c, e, k) => c[k].boot <= b
    /\ \A k \in 1 .. Len(c) :
         Mine(c, e, k) /\ c[k].type = "AVAILABLE" /\ c[k].index # 0 => Noticed(c, l, e, k, c[k].boot)
    /\ n # 0 => Noticed(c, l, e, Len(c) + 1, b)

\* A Milan entity does not use the timers of the IEEE machine.
OwnTimers == cfg.milan => \A e \in Entities : ent[e].delay = Off /\ ent[e].reannounce = Off

\* Only slots of the configuration are in use, and none while the station
\* is stopped.
SlotsUsed == \A p \in Ports, i \in Slots : disc[p][i].used => running /\ i \in cfg.slots

Watched == cfg.milan /\ Cardinality(cfg.ports) = 1 /\ lossless

RebootInv ==
    /\ OwnTimers
    /\ Watched => /\ SlotsUsed
                  /\ \A p \in Ports, i \in Slots : disc[p][i].since = disc[p][i].info.boot
                  /\ \A p \in cfg.ports, e \in Entities :
                       InOrder(chan[p], disc[p], e, ent[e].boot, ent[e].index)

-----------------------------------------------------------------------------
(* The channel and the list.                                               *)

\* The head is taken from the channel: positions move by one.
LEMMA TailPositions ==
  ASSUME NEW c \in Seq(Messages), c # <<>>
  PROVE  /\ Head(c) = c[1] /\ Head(c) \in Messages /\ 1 \in 1 .. Len(c)
         /\ Tail(c) \in Seq(Messages) /\ Len(Tail(c)) = Len(c) - 1 /\ Len(c) \in Nat
         /\ \A j \in 1 .. Len(Tail(c)) : j + 1 \in 2 .. Len(c) /\ Tail(c)[j] = c[j + 1]
  OBVIOUS

LEMMA NoticedTail ==
  ASSUME NEW c \in Seq(Messages), c # <<>>, NEW l, NEW l2, NEW e, NEW b \in Nat,
         NEW k \in 1 .. Len(c), Noticed(c, l, e, k + 1, b),
         \A i \in Slots : EntryOf(l2, e, i) =>
            IF Head(c).type = "AVAILABLE" /\ Head(c).entity = e
            THEN l2[i].info.boot = Head(c).boot
            ELSE \E h \in Slots : EntryOf(l, e, h) /\ l[h].info.boot = l2[i].info.boot,
         \A j \in 1 .. k : Mine(c, e, 1) /\ Mine(c, e, j) => c[1].boot <= c[j].boot /\ c[j].boot <= b
  PROVE  Noticed(Tail(c), l2, e, k, b)
<1> DEFINE d == Tail(c)
<1>1. /\ Head(c) = c[1] /\ Head(c) \in Messages /\ 1 \in 1 .. Len(c)
      /\ d \in Seq(Messages) /\ Len(d) = Len(c) - 1 /\ Len(c) \in Nat
      /\ \A j \in 1 .. Len(d) : j + 1 \in 2 .. Len(c) /\ d[j] = c[j + 1]
  BY TailPositions
<1> HIDE DEF d
<1>2. \A j \in 1 .. k - 1 : j + 1 \in 2 .. k /\ j \in 1 .. Len(d) /\ d[j] = c[j + 1]
  BY <1>1
<1>3. CASE \E j \in 1 .. k : Fresh(c, e, j, b)
  <2>1. PICK j \in 1 .. k : Fresh(c, e, j, b)
    BY <1>3
  <2>2. CASE j # 1
    <3>1. j - 1 \in 1 .. k - 1 /\ d[j - 1] = c[j] /\ j - 1 \in 1 .. Len(d)
      BY <1>1, <2>2
    <3>2. Fresh(d, e, j - 1, b)
      BY <2>1, <3>1 DEF Fresh, Mine
    <3> QED
      BY <3>1, <3>2 DEF Noticed, d
  <2>3. CASE j = 1
    <3>1. Mine(c, e, 1) /\ c[1].type = "AVAILABLE" /\ c[1].boot = b /\ c[1].entity = e
      BY <2>1, <2>3 DEF Fresh, Mine
    <3>2. \A i \in Slots : EntryOf(l2, e, i) => l2[i].info.boot = b
      BY <1>1, <3>1
    <3>3. ASSUME NEW h \in 1 .. k - 1, Mine(d, e, h) PROVE d[h].boot = b
      <4>1. h + 1 \in 1 .. k /\ d[h] = c[h + 1] /\ Mine(c, e, h + 1)
        BY <1>1, <1>2, <3>3 DEF Mine
      <4>2. c[1].boot <= c[h + 1].boot /\ c[h + 1].boot <= b
        BY <3>1, <4>1
      <4>3. c[h + 1].boot \in Nat
        <5>1. h + 1 \in 1 .. Len(c)
          BY <4>1 DEF Mine
        <5>2. c[h + 1] \in Messages
          BY <5>1
        <5> QED
          BY <5>2 DEF Messages
      <4> QED
        BY <3>1, <4>1, <4>2, <4>3
    <3> QED
      BY <3>2, <3>3 DEF Noticed, d
  <2> QED
    BY <2>2, <2>3
<1>4. CASE ~\E j \in 1 .. k : Fresh(c, e, j, b)
  <2>1. /\ \A j \in 1 .. k : Mine(c, e, j) => c[j].boot = b
        /\ \A i \in Slots : EntryOf(l, e, i) => l[i].info.boot = b
    BY <1>4 DEF Noticed
  <2>2. \A h \in 1 .. k - 1 : Mine(d, e, h) => d[h].boot = b
    BY <1>1, <1>2, <2>1 DEF Mine
  <2>3. ASSUME NEW i \in Slots, EntryOf(l2, e, i) PROVE l2[i].info.boot = b
    <3>1. CASE Head(c).type = "AVAILABLE" /\ Head(c).entity = e
      <4>1. c[1].boot = b
        BY <1>1, <2>1, <3>1 DEF Mine
      <4> QED
        BY <1>1, <2>3, <3>1, <4>1
    <3>2. CASE ~(Head(c).type = "AVAILABLE" /\ Head(c).entity = e)
      BY <2>1, <2>3, <3>2
    <3> QED
      BY <3>1, <3>2
  <2> QED
    BY <2>2, <2>3 DEF Noticed, d
<1> QED
  BY <1>3, <1>4

\* The head is received, and the list becomes l2.
LEMMA InOrderTail ==
  ASSUME NEW c \in Seq(Messages), c # <<>>, NEW l, NEW l2, NEW e, NEW b \in Nat, NEW n \in Nat,
         InOrder(c, l, e, b, n),
         \A i \in Slots : EntryOf(l2, e, i) =>
            IF Head(c).type = "AVAILABLE" /\ Head(c).entity = e
            THEN l2[i].info.boot = Head(c).boot
            ELSE \E h \in Slots : EntryOf(l, e, h) /\ l[h].info.boot = l2[i].info.boot
  PROVE  InOrder(Tail(c), l2, e, b, n)
<1> DEFINE d == Tail(c)
<1>1. /\ 1 \in 1 .. Len(c) /\ Len(d) = Len(c) - 1 /\ Len(c) \in Nat
      /\ \A j \in 1 .. Len(d) : j + 1 \in 2 .. Len(c) /\ d[j] = c[j + 1]
  BY TailPositions
<1> HIDE DEF d
<1>2. \A j \in 1 .. Len(d) : j + 1 \in 1 .. Len(c) /\ d[j] = c[j + 1] /\ (Mine(d, e, j) <=> Mine(c, e, j + 1))
  BY <1>1 DEF Mine
<1>3. ASSUME NEW j \in 1 .. Len(c) PROVE c[j].boot \in Nat
  <2>1. c[j] \in Messages
    OBVIOUS
  <2> QED
    BY <2>1 DEF Messages
<1>4. /\ \A j, k \in 1 .. Len(c) : j <= k /\ Mine(c, e, j) /\ Mine(c, e, k) => c[j].boot <= c[k].boot
      /\ \A k \in 1 .. Len(c) : Mine(c, e, k) => c[k].boot <= b
      /\ \A k \in 1 .. Len(c) :
           Mine(c, e, k) /\ c[k].type = "AVAILABLE" /\ c[k].index # 0 => Noticed(c, l, e, k, c[k].boot)
      /\ n # 0 => Noticed(c, l, e, Len(c) + 1, b)
  BY DEF InOrder
<1>5. ASSUME NEW j \in 1 .. Len(d), NEW k \in 1 .. Len(d), j <= k, Mine(d, e, j), Mine(d, e, k)
      PROVE  d[j].boot <= d[k].boot
  <2>1. /\ j + 1 \in 1 .. Len(c) /\ k + 1 \in 1 .. Len(c) /\ j + 1 <= k + 1
        /\ Mine(c, e, j + 1) /\ Mine(c, e, k + 1) /\ d[j] = c[j + 1] /\ d[k] = c[k + 1]
    BY <1>2, <1>5
  <2> QED
    BY <1>4, <2>1
<1>6. \A k \in 1 .. Len(d) : Mine(d, e, k) => d[k].boot <= b
  BY <1>2, <1>4
<1>7. ASSUME NEW k \in 1 .. Len(d), Mine(d, e, k), d[k].type = "AVAILABLE", d[k].index # 0
      PROVE  Noticed(d, l2, e, k, d[k].boot)
  <2>1. k \in 1 .. Len(c) /\ k + 1 \in 1 .. Len(c) /\ d[k] = c[k + 1] /\ Mine(c, e, k + 1)
    BY <1>1, <1>2, <1>7
  <2>2. Noticed(c, l, e, k + 1, d[k].boot) /\ d[k].boot \in Nat
    BY <1>3, <1>4, <1>7, <2>1
  <2>3. \A j \in 1 .. k : Mine(c, e, 1) /\ Mine(c, e, j) => c[1].boot <= c[j].boot /\ c[j].boot <= d[k].boot
    BY <1>1, <1>4, <2>1
  <2> QED
    BY <2>1, <2>2, <2>3, NoticedTail DEF d
<1>8. ASSUME n # 0 PROVE Noticed(d, l2, e, Len(d) + 1, b)
  <2>1. Len(c) \in 1 .. Len(c) /\ Len(d) + 1 = Len(c)
    BY <1>1
  <2>2. Noticed(c, l, e, Len(c) + 1, b)
    BY <1>4, <1>8
  <2>3. \A j \in 1 .. Len(c) : Mine(c, e, 1) /\ Mine(c, e, j) => c[1].boot <= c[j].boot /\ c[j].boot <= b
    BY <1>1, <1>4
  <2>4. Noticed(d, l2, e, Len(c), b)
    BY <2>1, <2>2, <2>3, NoticedTail DEF d
  <2> QED
    BY <2>1, <2>4
<1> QED
  BY <1>5, <1>6, <1>7, <1>8 DEF InOrder, d

\* Entries go, or are touched in other ways than by their information.
LEMMA InOrderList ==
  ASSUME NEW c, NEW l, NEW l2, NEW e, NEW b, NEW n, InOrder(c, l, e, b, n),
         \A i \in Slots : EntryOf(l2, e, i) => EntryOf(l, e, i) /\ l2[i].info.boot = l[i].info.boot
  PROVE  InOrder(c, l2, e, b, n)
<1>1. \A k, a : Noticed(c, l, e, k, a) => Noticed(c, l2, e, k, a)
  BY DEF Noticed
<1> QED
  BY <1>1 DEF InOrder

\* A message of the entity is added; an advertisement has the present index,
\* which grows after it; the index of an entity that takes leave is zero.
LEMMA InOrderAppend ==
  ASSUME NEW c \in Seq(Messages), NEW l, NEW e, NEW b \in Nat, NEW n \in Nat, NEW n2,
         InOrder(c, l, e, b, n), NEW m \in Messages, m.entity = e, m.boot = b,
         IF m.type = "AVAILABLE" THEN m.index = n ELSE n2 = 0
  PROVE  InOrder(Append(c, m), l, e, b, n2)
<1> DEFINE d == Append(c, m)
<1>1. /\ Len(c) \in Nat /\ Len(d) = Len(c) + 1 /\ d[Len(c) + 1] = m
      /\ \A j \in 1 .. Len(c) : j \in 1 .. Len(d) /\ d[j] = c[j]
      /\ \A j \in 1 .. Len(d) : j \in 1 .. Len(c) \/ j = Len(c) + 1
  OBVIOUS
<1> HIDE DEF d
<1>2. \A j \in 1 .. Len(c) : Mine(d, e, j) <=> Mine(c, e, j)
  BY <1>1 DEF Mine
<1>3. /\ \A j, k \in 1 .. Len(c) : j <= k /\ Mine(c, e, j) /\ Mine(c, e, k) => c[j].boot <= c[k].boot
      /\ \A k \in 1 .. Len(c) : Mine(c, e, k) => c[k].boot <= b
      /\ \A k \in 1 .. Len(c) :
           Mine(c, e, k) /\ c[k].type = "AVAILABLE" /\ c[k].index # 0 => Noticed(c, l, e, k, c[k].boot)
      /\ n # 0 => Noticed(c, l, e, Len(c) + 1, b)
  BY DEF InOrder
<1>4. ASSUME NEW k \in 1 .. Len(c) + 1, NEW a, Noticed(c, l, e, k, a) PROVE Noticed(d, l, e, k, a)
  <2>1. \A j \in 1 .. k - 1 : j \in 1 .. Len(c) /\ d[j] = c[j] /\ (Mine(d, e, j) <=> Mine(c, e, j))
    BY <1>1, <1>2
  <2>2. \A j \in 1 .. k - 1 : Fresh(c, e, j, a) => Fresh(d, e, j, a)
    BY <2>1 DEF Fresh
  <2> QED
    BY <1>4, <2>1, <2>2 DEF Noticed
<1>5. \A j, k \in 1 .. Len(d) : j <= k /\ Mine(d, e, j) /\ Mine(d, e, k) => d[j].boot <= d[k].boot
  <2>1. ASSUME NEW j \in 1 .. Len(d), NEW k \in 1 .. Len(d), j <= k, Mine(d, e, j), Mine(d, e, k)
        PROVE  d[j].boot <= d[k].boot
    <3>1. CASE k \in 1 .. Len(c)
      <4>1. j \in 1 .. Len(c)
        BY <2>1, <3>1
      <4> QED
        BY <1>1, <1>2, <1>3, <2>1, <3>1, <4>1
    <3>2. CASE k = Len(c) + 1
      BY <1>1, <1>2, <1>3, <2>1, <3>2
    <3> QED
      BY <1>1, <3>1, <3>2
  <2> QED
    BY <2>1
<1>6. \A k \in 1 .. Len(d) : Mine(d, e, k) => d[k].boot <= b
  BY <1>1, <1>2, <1>3
<1>7. ASSUME NEW k \in 1 .. Len(d), Mine(d, e, k), d[k].type = "AVAILABLE", d[k].index # 0
      PROVE  Noticed(d, l, e, k, d[k].boot)
  <2>1. CASE k \in 1 .. Len(c)
    <3>1. d[k] = c[k] /\ Mine(c, e, k) /\ k \in 1 .. Len(c) + 1
      BY <1>1, <1>2, <1>7, <2>1
    <3>2. Noticed(c, l, e, k, d[k].boot)
      BY <1>3, <1>7, <2>1, <3>1
    <3> QED
      BY <1>4, <3>1, <3>2
  <2>2. CASE k = Len(c) + 1
    <3>1. d[k] = m /\ n # 0 /\ k \in 1 .. Len(c) + 1
      BY <1>1, <1>7, <2>2
    <3> QED
      BY <1>3, <1>4, <2>2, <3>1
  <2> QED
    BY <1>1, <2>1, <2>2
<1>8. ASSUME n2 # 0 PROVE Noticed(d, l, e, Len(d) + 1, b)
  <2>1. Mine(d, e, Len(c) + 1) /\ Len(c) + 1 \in 1 .. Len(d)
    BY <1>1 DEF Mine
  <2>2. CASE n = 0
    <3>1. m.type = "AVAILABLE" /\ m.index = 0
      BY <1>8, <2>2
    <3>2. Fresh(d, e, Len(c) + 1, b)
      BY <1>1, <2>1, <3>1 DEF Fresh
    <3>3. Len(c) + 1 \in 1 .. Len(d) + 1 - 1
      BY <1>1
    <3> QED
      BY <3>2, <3>3 DEF Noticed
  <2>3. CASE n # 0
    <3>1. Noticed(d, l, e, Len(c) + 1, b)
      BY <1>1, <1>3, <1>4, <2>3
    <3>2. CASE \E j \in 1 .. Len(c) + 1 - 1 : Fresh(d, e, j, b)
      <4>1. \A j \in 1 .. Len(c) + 1 - 1 : j \in 1 .. Len(d) + 1 - 1
        BY <1>1
      <4> QED
        BY <3>2, <4>1 DEF Noticed
    <3>3. CASE ~\E j \in 1 .. Len(c) + 1 - 1 : Fresh(d, e, j, b)
      <4>1. /\ \A j \in 1 .. Len(c) + 1 - 1 : Mine(d, e, j) => d[j].boot = b
            /\ \A i \in Slots : EntryOf(l, e, i) => l[i].info.boot = b
        BY <3>1, <3>3 DEF Noticed
      <4>2. \A j \in 1 .. Len(d) + 1 - 1 : Mine(d, e, j) => d[j].boot = b
        BY <1>1, <4>1
      <4> QED
        BY <4>1, <4>2 DEF Noticed
    <3> QED
      BY <3>2, <3>3
  <2> QED
    BY <2>2, <2>3
<1> QED
  BY <1>5, <1>6, <1>7, <1>8 DEF InOrder, d

\* A message of another entity is added.
LEMMA InOrderOther ==
  ASSUME NEW c \in Seq(Messages), NEW l, NEW e, NEW b \in Nat, NEW n \in Nat,
         InOrder(c, l, e, b, n), NEW m \in Messages, m.entity # e
  PROVE  InOrder(Append(c, m), l, e, b, n)
<1> DEFINE d == Append(c, m)
<1>1. /\ Len(c) \in Nat /\ Len(d) = Len(c) + 1 /\ d[Len(c) + 1] = m
      /\ \A j \in 1 .. Len(c) : j \in 1 .. Len(d) /\ d[j] = c[j]
      /\ \A j \in 1 .. Len(d) : j \in 1 .. Len(c) \/ j = Len(c) + 1
  OBVIOUS
<1> HIDE DEF d
<1>2. /\ \A j \in 1 .. Len(c) : Mine(d, e, j) <=> Mine(c, e, j)
      /\ \A j \in 1 .. Len(d) : Mine(d, e, j) => j \in 1 .. Len(c)
  BY <1>1 DEF Mine
<1>3. ASSUME NEW k \in 1 .. Len(c) + 1, NEW a, Noticed(c, l, e, k, a) PROVE Noticed(d, l, e, k, a)
  <2>1. \A j \in 1 .. k - 1 : j \in 1 .. Len(c) /\ d[j] = c[j] /\ (Mine(d, e, j) <=> Mine(c, e, j))
    BY <1>1, <1>2
  <2>2. \A j \in 1 .. k - 1 : Fresh(c, e, j, a) => Fresh(d, e, j, a)
    BY <2>1 DEF Fresh
  <2> QED
    BY <1>3, <2>1, <2>2 DEF Noticed
<1>4. \A a : Noticed(d, l, e, Len(c) + 1, a) => Noticed(d, l, e, Len(d) + 1, a)
  <2>1. \A j \in 1 .. Len(c) + 1 - 1 : j \in 1 .. Len(d) + 1 - 1
    BY <1>1
  <2>2. \A j \in 1 .. Len(d) + 1 - 1 : Mine(d, e, j) => j \in 1 .. Len(c) + 1 - 1
    BY <1>1, <1>2
  <2> QED
    BY <2>1, <2>2 DEF Noticed
<1>5. \A k \in 1 .. Len(c) : k \in 1 .. Len(c) + 1
  BY <1>1
<1>6. Len(c) + 1 \in 1 .. Len(c) + 1
  BY <1>1
<1> QED
  BY <1>1, <1>2, <1>3, <1>4, <1>5, <1>6 DEF InOrder, d

\* The entity starts again.
LEMMA InOrderBoot ==
  ASSUME NEW c \in Seq(Messages), NEW l, NEW e, NEW b \in Nat, NEW n, InOrder(c, l, e, b, n),
         NEW b2 \in Nat, b <= b2
  PROVE  InOrder(c, l, e, b2, 0)
<1>1. ASSUME NEW k \in 1 .. Len(c), Mine(c, e, k) PROVE c[k].boot <= b2
  <2>1. c[k] \in Messages
    OBVIOUS
  <2>2. c[k].boot <= b /\ c[k].boot \in Nat
    BY <1>1, <2>1 DEF InOrder, Messages
  <2> QED
    BY <2>2
<1> QED
  BY <1>1 DEF InOrder

\* What a refresh leaves in a list.
LEMMA RefreshEntry ==
  ASSUME NEW l \in [Slots -> Entries], NEW i \in Slots, NEW m, NEW t
  PROVE  LET n == Refresh(l, i, m, t).list
         IN  /\ n[i].used /\ n[i].info.entity = m.entity /\ n[i].info.boot = m.boot
             /\ n[i].since = IF l[i].used THEN l[i].since ELSE m.boot
             /\ \A j \in Slots : j # i => n[j] = l[j]
  BY DEF Refresh, Info

LEMMA UpdateBoots ==
  ASSUME cfg \in Configs, NEW l, GoodList(cfg.slots, l), NEW m \in Messages, NEW t,
         \A i \in Slots : l[i].since = l[i].info.boot,
         \A i \in Slots : l[i].used => i \in cfg.slots,
         m.index # 0 => \A i \in Slots : EntryOf(l, m.entity, i) => l[i].info.boot = m.boot
  PROVE  LET n == DiscoveryUpdate(l, m, t).list
         IN  /\ \A i \in Slots : n[i].since = n[i].info.boot
             /\ \A i \in Slots : n[i].used => i \in cfg.slots
             /\ \A i \in Slots : EntryOf(n, m.entity, i) => n[i].info.boot = m.boot
             /\ \A i \in Slots : n[i].used /\ n[i].info.entity # m.entity => n[i] = l[i]
<1> DEFINE S == cfg.slots
           x == m.entity
           i == CHOOSE j \in Found(l, x) : TRUE
           gone == Put(l, i)
           r == DiscoveryUpdate(l, m, t)
           t1 == Tell(t, x, None)
<1>1. S \in SUBSET Slots
  BY ADPAssumption
<1>2. l \in [Slots -> Entries] /\ m.index \in Nat
  BY DEF GoodList, Messages
<1>3. \A j \in Slots : EntryOf(l, x, j) => j \in Found(l, x)
  BY DEF EntryOf, Found
<1> HIDE DEF i, gone, r, t1
<1>4. CASE Found(l, x) = {} /\ Free(l) = {}
  <2>1. r = [list |-> l, told |-> t]
    BY <1>4 DEF DiscoveryUpdate, r
  <2>2. r.list = l
    BY <2>1
  <2> QED
    BY <1>3, <1>4, <2>2 DEF r
<1>5. CASE Found(l, x) = {} /\ Free(l) # {}
  <2> DEFINE f == LastFree(l)
             n == Refresh(l, f, m, t).list
  <2>1. r = Refresh(l, f, m, t)
    BY <1>5 DEF DiscoveryUpdate, r
  <2>2. f \in S /\ ~l[f].used
    BY <1>1, <1>5, FreeSlot
  <2> HIDE DEF f
  <2>3. /\ n[f].used /\ n[f].info.entity = x /\ n[f].info.boot = m.boot
        /\ n[f].since = IF l[f].used THEN l[f].since ELSE m.boot
        /\ \A j \in Slots : j # f => n[j] = l[j]
    BY <1>1, <1>2, <2>2, RefreshEntry
  <2> HIDE DEF n
  <2>4. \A j \in Slots : n[j].since = n[j].info.boot /\ (n[j].used => j \in S)
    BY <2>2, <2>3
  <2>5. \A j \in Slots : EntryOf(n, x, j) => n[j].info.boot = m.boot
    BY <1>3, <1>5, <2>3 DEF EntryOf
  <2>6. \A j \in Slots : n[j].used /\ n[j].info.entity # x => n[j] = l[j]
    BY <2>3
  <2> QED
    BY <2>1, <2>4, <2>5, <2>6 DEF r, n
<1>6. ASSUME Found(l, x) # {}
      PROVE  /\ i \in S /\ i \in Slots /\ EntryOf(l, x, i)
             /\ \A j \in Slots : EntryOf(l, x, j) => j = i
  <2>1. i \in Found(l, x)
    BY <1>6 DEF i
  <2>2. i \in S /\ l[i].used /\ l[i].info.entity = x
    BY <2>1 DEF Found
  <2> QED
    BY <1>1, <1>3, <2>2 DEF Found, EntryOf, GoodList
<1>7. CASE Found(l, x) # {} /\ ~PowerCycled(l[i].info, m)
  <2> DEFINE n == Refresh(l, i, m, t).list
  <2>1. r = Refresh(l, i, m, t)
    BY <1>7 DEF DiscoveryUpdate, r, i
  <2>2. l[i].info.boot = m.boot /\ l[i].used
    <3>1. EntryOf(l, x, i) /\ i \in Slots
      BY <1>6, <1>7
    <3>2. l[i].info.index \in Nat
      BY <1>2, <3>1 DEF Entries, Infos
    <3>3. m.index # 0
      BY <1>2, <1>7, <3>2 DEF PowerCycled
    <3> QED
      BY <3>1, <3>3 DEF EntryOf
  <2>3. /\ n[i].used /\ n[i].info.entity = x /\ n[i].info.boot = m.boot
        /\ n[i].since = IF l[i].used THEN l[i].since ELSE m.boot
        /\ \A j \in Slots : j # i => n[j] = l[j]
    BY <1>2, <1>6, <1>7, RefreshEntry
  <2> HIDE DEF n
  <2>4. i \in Slots /\ i \in S
    BY <1>6, <1>7
  <2>5. \A j \in Slots : n[j].since = n[j].info.boot /\ (n[j].used => j \in S)
    BY <2>2, <2>3, <2>4
  <2>6. \A j \in Slots : EntryOf(n, x, j) => n[j].info.boot = m.boot
    <3>1. \A j \in Slots : EntryOf(n, x, j) => j = i
      BY <1>6, <1>7, <2>3 DEF EntryOf
    <3> QED
      BY <2>3, <3>1
  <2>7. \A j \in Slots : n[j].used /\ n[j].info.entity # x => n[j] = l[j]
    BY <2>3
  <2> QED
    BY <2>1, <2>5, <2>6, <2>7 DEF r, n
<1>8. CASE Found(l, x) # {} /\ PowerCycled(l[i].info, m)
  <2> DEFINE f == LastFree(gone)
             n == Refresh(gone, f, m, t1).list
  <2>1. r = Refresh(gone, f, m, t1)
    BY <1>8 DEF DiscoveryUpdate, r, i, gone, t1
  <2>2. i \in Slots /\ i \in S
    BY <1>6, <1>8
  <2>3. /\ gone \in [Slots -> Entries] /\ gone[i] = NoEntry
        /\ \A j \in Slots : j # i => gone[j] = l[j]
    <3>1. NoEntry \in Entries
      BY DEF NoEntry, NoInfo, Entries, Infos, TimerValues, Off
    <3> QED
      BY <1>2, <2>2, <3>1 DEF gone, Put
  <2>4. i \in Free(gone)
    BY <2>2, <2>3 DEF Free, NoEntry
  <2>5. f \in S /\ ~gone[f].used
    BY <1>1, <2>4, FreeSlot
  <2> HIDE DEF f
  <2>6. /\ n[f].used /\ n[f].info.entity = x /\ n[f].info.boot = m.boot
        /\ n[f].since = IF gone[f].used THEN gone[f].since ELSE m.boot
        /\ \A j \in Slots : j # f => n[j] = gone[j]
    BY <1>1, <2>3, <2>5, RefreshEntry
  <2> HIDE DEF n
  <2>7. \A j \in Slots : gone[j].since = gone[j].info.boot /\ (gone[j].used => l[j] = gone[j])
    BY <2>2, <2>3 DEF NoEntry, NoInfo
  <2>8. \A j \in Slots : n[j].since = n[j].info.boot /\ (n[j].used => j \in S)
    BY <2>5, <2>6, <2>7
  <2>9. \A j \in Slots : EntryOf(n, x, j) => n[j].info.boot = m.boot
    <3>1. \A j \in Slots : EntryOf(gone, x, j) => FALSE
      BY <1>6, <1>8, <2>3, <2>7 DEF EntryOf, NoEntry
    <3>2. \A j \in Slots : EntryOf(n, x, j) => j = f
      BY <2>6, <3>1 DEF EntryOf
    <3> QED
      BY <2>6, <3>2
  <2>10. \A j \in Slots : n[j].used /\ n[j].info.entity # x => n[j] = l[j]
    BY <2>6, <2>7
  <2> QED
    BY <2>1, <2>8, <2>9, <2>10 DEF r, n
<1> QED
  BY <1>4, <1>5, <1>7, <1>8

\* Entries that are put back.
LEMMA PutBoots ==
  ASSUME NEW l \in [Slots -> Entries], NEW i,
         \A j \in Slots : l[j].since = l[j].info.boot
  PROVE  LET n == Put(l, i)
         IN  /\ \A j \in Slots : n[j].since = n[j].info.boot
             /\ \A j \in Slots : n[j].used => n[j] = l[j]
<1> DEFINE n == Put(l, i)
<1>1. \A j \in Slots : n[j] = l[j] \/ n[j] = NoEntry
  BY DEF Put
<1> HIDE DEF n
<1>2. \A j \in Slots : n[j].since = n[j].info.boot /\ (n[j].used => n[j] = l[j])
  BY <1>1 DEF NoEntry, NoInfo
<1> QED
  BY <1>2 DEF n

LEMMA RemoveBoots ==
  ASSUME NEW l \in [Slots -> Entries], NEW m, NEW t,
         \A j \in Slots : l[j].since = l[j].info.boot
  PROVE  LET n == DiscoveryRemove(l, m, t).list
         IN  /\ \A j \in Slots : n[j].since = n[j].info.boot
             /\ \A j \in Slots : n[j].used => n[j] = l[j]
<1> DEFINE n == DiscoveryRemove(l, m, t).list
           i == CHOOSE j \in Found(l, m.entity) : TRUE
<1>1. n = l \/ n = Put(l, i)
  BY DEF DiscoveryRemove
<1> HIDE DEF i
<1>2. CASE n = l
  <2> HIDE DEF n
  <2>1. \A j \in Slots : n[j].since = n[j].info.boot /\ (n[j].used => n[j] = l[j])
    BY <1>2
  <2> QED
    BY <2>1 DEF n
<1>3. CASE n = Put(l, i)
  BY <1>3, PutBoots
<1> QED
  BY <1>1, <1>2, <1>3

-----------------------------------------------------------------------------
(* The steps of the entities.                                              *)

\* Nothing changes that the argument looks at.
Calm(x, y) ==
    y.boot = x.boot /\ y.index = x.index /\ y.delay = x.delay /\ y.reannounce = x.reannounce

LEMMA UpdatedCalm ==
  ASSUME NEW x \in EntityStates, cfg.milan, NEW y \in Updated(x)
  PROVE  Calm(x, y)
  BY DEF Updated, Calm, EntityStates

LEMMA EventCalm ==
  ASSUME NEW x \in EntityStates, cfg.milan, NEW p, NEW event, NEW d
  PROVE  Calm(x, InterfaceEvent(x, p, event, d))
  BY DEF InterfaceEvent, Calm, EntityStates

\* A step that leaves the lists alone has the channels to account for.
LEMMA ChannelStep ==
  ASSUME RebootInv, UNCHANGED <<cfg, disc, running>>, lossless' => lossless,
         cfg.milan => OwnTimers',
         Watched /\ lossless' =>
            \A p \in cfg.ports, e \in Entities :
               InOrder(chan'[p], disc[p], e, ent'[e].boot, ent'[e].index)
  PROVE  RebootInv'
<1>1. cfg' = cfg /\ disc' = disc /\ running' = running
  OBVIOUS
<1>2. OwnTimers'
  <2>1. CASE cfg.milan
    BY <2>1
  <2>2. CASE ~cfg.milan
    BY <1>1, <2>2 DEF OwnTimers
  <2> QED
    BY <2>1, <2>2
<1>3. Watched' => Watched /\ lossless'
  BY <1>1 DEF Watched
<1>4. SlotsUsed => SlotsUsed'
  BY <1>1 DEF SlotsUsed
<1>5. ASSUME Watched'
      PROVE  /\ SlotsUsed'
             /\ \A p \in Ports, i \in Slots : disc'[p][i].since = disc'[p][i].info.boot
             /\ \A p \in cfg'.ports, e \in Entities :
                  InOrder(chan'[p], disc'[p], e, ent'[e].boot, ent'[e].index)
  BY <1>1, <1>3, <1>4, <1>5 DEF RebootInv
<1> QED
  BY <1>2, <1>5 DEF RebootInv

\* One entity changes, its channels do not.
LEMMA CalmStep ==
  ASSUME Inv, RebootInv, NEW e \in Entities, NEW y,
         ent' = [ent EXCEPT ![e] = y], cfg.milan => Calm(ent[e], y),
         UNCHANGED <<cfg, disc, running, chan, lossless>>
  PROVE  RebootInv'
<1>1. chan' = chan /\ lossless' = lossless /\ cfg' = cfg
  OBVIOUS
<1>2. ent'[e] = y /\ \A f \in Entities : f # e => ent'[f] = ent[f]
  BY DEF Inv, TypeOK
<1>3. cfg.milan => \A f \in Entities : Calm(ent[f], ent'[f])
  BY <1>2 DEF Calm
<1>4. cfg.milan => OwnTimers'
  BY <1>1, <1>3 DEF OwnTimers, RebootInv, Calm
<1>5. Watched => \A p \in cfg.ports, f \in Entities :
         InOrder(chan'[p], disc[p], f, ent'[f].boot, ent'[f].index)
  BY <1>1, <1>3 DEF RebootInv, Watched, Calm
<1> QED
  BY <1>1, <1>4, <1>5, ChannelStep

LEMMA BootReboot ==
  ASSUME Inv, RebootInv, NEW e \in cfg.entities, Boot(e)  PROVE RebootInv'
<1>1. e \in Entities /\ ent \in [Entities -> EntityStates] /\ chan \in [Ports -> Seq(Messages)]
      /\ cfg.ports \subseteq Ports
  BY ConfigFacts DEF Inv, TypeOK
<1>2. PICK ready \in BOOLEAN : ent' = [ent EXCEPT ![e] = NewEntity(ent[e].boot + 1, TRUE, ready)]
  BY Zenon DEF Boot
<1>3. /\ ent'[e].boot = ent[e].boot + 1 /\ ent'[e].index = 0 /\ ent'[e].delay = Off /\ ent'[e].reannounce = Off
      /\ \A f \in Entities : f # e => ent'[f] = ent[f]
  BY <1>1, <1>2 DEF NewEntity
<1>4. /\ cfg' = cfg /\ disc' = disc /\ running' = running /\ chan' = chan /\ lossless' = lossless
  BY DEF Boot
<1>5. cfg.milan => OwnTimers'
  BY <1>3, <1>4 DEF OwnTimers, RebootInv
<1>6. ASSUME Watched, NEW p \in cfg.ports, NEW f \in Entities
      PROVE  InOrder(chan'[p], disc[p], f, ent'[f].boot, ent'[f].index)
  <2>1. InOrder(chan[p], disc[p], f, ent[f].boot, ent[f].index)
    BY <1>6 DEF RebootInv
  <2>2. CASE f # e
    BY <1>3, <1>4, <2>1, <2>2
  <2>3. CASE f = e
    <3>1. ent[e].boot \in Nat /\ ent[e].boot + 1 \in Nat /\ ent[e].boot <= ent[e].boot + 1
      BY <1>1 DEF EntityStates
    <3>2. chan[p] \in Seq(Messages)
      BY <1>1, <1>6
    <3> QED
      BY <1>3, <1>4, <2>1, <2>3, <3>1, <3>2, InOrderBoot
  <2> QED
    BY <2>2, <2>3
<1> QED
  BY <1>4, <1>5, <1>6, ChannelStep

LEMMA HeartbeatReboot ==
  ASSUME Inv, RebootInv, NEW e \in cfg.entities, Heartbeat(e)  PROVE RebootInv'
<1> DEFINE x == [ent[e] EXCEPT !.ready = TRUE]
<1>1. e \in Entities /\ ent[e] \in EntityStates
  BY ConfigFacts DEF Inv, TypeOK
<1>2. x \in EntityStates /\ Calm(ent[e], x)
  BY <1>1 DEF EntityStates, Calm
<1>3. PICK y \in Updated(x) : ent' = [ent EXCEPT ![e] = y]
  BY DEF Heartbeat
<1> HIDE DEF x
<1>4. cfg.milan => Calm(ent[e], y)
  BY <1>2, <1>3, UpdatedCalm DEF Calm
<1> QED
  BY <1>1, <1>3, <1>4, CalmStep DEF Heartbeat

LEMMA EventReboot ==
  ASSUME Inv, RebootInv, NEW e \in cfg.entities, NEW p \in cfg.ports,
         \/ PortUp(e, p) \/ PortDown(e, p) \/ DiscoverRcv(e, p)
         \/ MilanAdvertiseTimeout(e, p) \/ \E g \in cfg.gms : GmStatus(e, p, g)
  PROVE  RebootInv'
<1>1. e \in Entities /\ ent[e] \in EntityStates /\ p \in Ports /\ cfg.gms \subseteq Nat
  BY ConfigFacts DEF Inv, TypeOK
<1>2. CASE PortUp(e, p)
  <2>1. PICK d \in cfg.delays :
          ent' = [ent EXCEPT ![e] = [InterfaceEvent(ent[e], p, "LINK_UP", d) EXCEPT !.itf[p].op = TRUE]]
    BY <1>2 DEF PortUp
  <2> DEFINE x == InterfaceEvent(ent[e], p, "LINK_UP", d)
             y == [x EXCEPT !.itf[p].op = TRUE]
  <2>2. x \in EntityStates /\ (cfg.milan => Calm(ent[e], x))
    BY <1>1, EventCalm, InterfaceEventType, ConfigFacts DEF Inv, TypeOK
  <2> HIDE DEF x
  <2>3. Calm(x, y)
    BY <2>2 DEF Calm, EntityStates
  <2>4. cfg.milan => Calm(ent[e], y)
    BY <2>2, <2>3 DEF Calm
  <2>5. ent' = [ent EXCEPT ![e] = y]
    BY <2>1 DEF x
  <2> HIDE DEF y
  <2> QED
    BY <1>1, <1>2, <2>4, <2>5, CalmStep DEF PortUp
<1>3. CASE PortDown(e, p)
  <2>1. PICK d \in cfg.delays :
          ent' = [ent EXCEPT ![e] = [InterfaceEvent(ent[e], p, "LINK_DOWN", d) EXCEPT !.itf[p].op = FALSE]]
    BY <1>3 DEF PortDown
  <2> DEFINE x == InterfaceEvent(ent[e], p, "LINK_DOWN", d)
             y == [x EXCEPT !.itf[p].op = FALSE]
  <2>2. x \in EntityStates /\ (cfg.milan => Calm(ent[e], x))
    BY <1>1, EventCalm, InterfaceEventType, ConfigFacts DEF Inv, TypeOK
  <2> HIDE DEF x
  <2>3. Calm(x, y)
    BY <2>2 DEF Calm, EntityStates
  <2>4. cfg.milan => Calm(ent[e], y)
    BY <2>2, <2>3 DEF Calm
  <2>5. ent' = [ent EXCEPT ![e] = y]
    BY <2>1 DEF x
  <2> HIDE DEF y
  <2> QED
    BY <1>1, <1>3, <2>4, <2>5, CalmStep DEF PortDown
<1>4. CASE DiscoverRcv(e, p)
  <2>1. PICK d \in cfg.delays : ent' = [ent EXCEPT ![e] = InterfaceEvent(ent[e], p, "DISCOVER", d)]
    BY <1>4 DEF DiscoverRcv
  <2>2. cfg.milan => Calm(ent[e], InterfaceEvent(ent[e], p, "DISCOVER", d))
    BY <1>1, EventCalm
  <2> QED
    BY <1>1, <1>4, <2>1, <2>2, CalmStep DEF DiscoverRcv
<1>5. CASE MilanAdvertiseTimeout(e, p)
  <2>1. PICK d \in cfg.delays :
          ent' = [ent EXCEPT ![e].itf[p] = MilanSm([ent[e].itf[p] EXCEPT !.adv = Off], "TMR_ADVERTISE", d)]
    BY <1>5 DEF MilanAdvertiseTimeout
  <2> DEFINE i == MilanSm([ent[e].itf[p] EXCEPT !.adv = Off], "TMR_ADVERTISE", d)
             y == [ent[e] EXCEPT !.itf[p] = i]
  <2>2. ent' = [ent EXCEPT ![e] = y]
    <3> HIDE DEF i
    <3> QED BY <1>1, <2>1 DEF i
  <2> HIDE DEF i
  <2>3. Calm(ent[e], y)
    BY <1>1 DEF Calm, EntityStates
  <2> HIDE DEF y
  <2> QED
    BY <1>1, <1>5, <2>2, <2>3, CalmStep DEF MilanAdvertiseTimeout
<1>6. CASE \E g \in cfg.gms : GmStatus(e, p, g)
  <2>1. PICK g \in cfg.gms : GmStatus(e, p, g)
    BY <1>6
  <2> DEFINE x == [ent[e] EXCEPT !.itf[p].gm = g]
  <2>2. x \in EntityStates /\ Calm(ent[e], x)
    <3>1. [ent[e].itf[p] EXCEPT !.gm = g] \in InterfaceStates
      BY <1>1 DEF EntityStates, InterfaceStates
    <3>2. x = [ent[e] EXCEPT !.itf[p] = [ent[e].itf[p] EXCEPT !.gm = g]]
      BY <1>1 DEF EntityStates
    <3> HIDE DEF x
    <3> QED
      BY <1>1, <3>1, <3>2 DEF EntityStates, Calm
  <2>3. PICK y \in Updated(x), d \in cfg.delays :
          ent' = [ent EXCEPT ![e] = InterfaceEvent(y, p, "GM_CHANGE", d)]
    BY <2>1 DEF GmStatus
  <2> HIDE DEF x
  <2>4. y \in EntityStates
    BY <2>2, <2>3, UpdatedType DEF Inv, TypeOK
  <2>5. cfg.milan => Calm(ent[e], InterfaceEvent(y, p, "GM_CHANGE", d))
    <3>1. cfg.milan => Calm(x, y) /\ Calm(y, InterfaceEvent(y, p, "GM_CHANGE", d))
      BY <2>2, <2>3, <2>4, UpdatedCalm, EventCalm
    <3> QED
      BY <2>2, <3>1 DEF Calm
  <2> QED
    BY <1>1, <2>1, <2>3, <2>5, CalmStep DEF GmStatus
<1> QED
  BY <1>2, <1>3, <1>4, <1>5, <1>6

\* With one interface all of them are the same.
LEMMA OnePort ==
  ASSUME TypeOK, Watched, NEW p \in cfg.ports, NEW q \in cfg.ports  PROVE p = q
<1>1. IsFiniteSet(cfg.ports)
  BY ADPAssumption DEF TypeOK
<1>2. \E x : cfg.ports = {x}
  BY <1>1, FS_Singleton DEF Watched
<1> QED
  BY <1>2

LEMMA MilanDelayReboot ==
  ASSUME Inv, RebootInv, NEW e \in cfg.entities, NEW p \in cfg.ports, MilanDelayTimeout(e, p)
  PROVE  RebootInv'
<1> DEFINE x == [ent[e] EXCEPT !.itf[p].delay = Off]
           m == Packet("AVAILABLE", e, x, p)
<1>1. /\ e \in Entities /\ ent \in [Entities -> EntityStates] /\ ent[e] \in EntityStates /\ p \in Ports
      /\ chan \in [Ports -> Seq(Messages)] /\ cfg \in Configs
  BY ConfigFacts DEF Inv, TypeOK
<1>2. x \in EntityStates /\ Calm(ent[e], x)
  <2>1. ent[e] \in EntityStates /\ p \in Ports
    BY <1>1
  <2>2. [ent[e].itf[p] EXCEPT !.delay = Off] \in InterfaceStates
    BY <2>1, OffType DEF EntityStates, InterfaceStates
  <2>3. x \in EntityStates
    BY <2>1, <2>2 DEF EntityStates
  <2>4. Calm(ent[e], x)
    BY <2>1 DEF EntityStates, Calm
  <2> QED
    BY <2>3, <2>4
<1>3. /\ ent' = [ent EXCEPT ![e] = [x EXCEPT !.index = NextIndex(x.index), !.itf[p].st = "WAITING",
                                              !.itf[p].adv = Start(x.itf[p].adv, cfg.interval)]]
      /\ chan' = SendOn({p}, "AVAILABLE", e, x)
  BY <1>1, <1>2 DEF MilanDelayTimeout, EntityStates, InterfaceStates
<1> HIDE DEF x
<1>4. /\ ent'[e].boot = ent[e].boot /\ ent'[e].delay = ent[e].delay /\ ent'[e].reannounce = ent[e].reannounce
      /\ \A f \in Entities : f # e => ent'[f] = ent[f]
  BY <1>1, <1>2, <1>3 DEF Calm, EntityStates
<1>5. chan'[p] = Append(chan[p], m)
  BY <1>1, <1>3 DEF SendOn
<1>6. /\ m \in Messages /\ m.entity = e /\ m.type = "AVAILABLE" /\ m.boot = ent[e].boot
      /\ m.index = ent[e].index
  <2>1. x.itf[p] \in InterfaceStates
    BY <1>1, <1>2 DEF EntityStates
  <2> QED
    BY <1>1, <1>2, <2>1 DEF Packet, Calm, Messages, EntityStates, InterfaceStates
<1> HIDE DEF m
<1>7. cfg' = cfg /\ disc' = disc /\ running' = running /\ lossless' = lossless
  BY DEF MilanDelayTimeout
<1>8. cfg.milan => OwnTimers'
  BY <1>4, <1>7 DEF OwnTimers, RebootInv
<1>9. ASSUME Watched, NEW q \in cfg.ports, NEW f \in Entities
      PROVE  InOrder(chan'[q], disc[q], f, ent'[f].boot, ent'[f].index)
  <2>1. q = p
    BY <1>9, OnePort DEF Inv
  <2>2. InOrder(chan[p], disc[p], f, ent[f].boot, ent[f].index)
    BY <1>9 DEF RebootInv
  <2>3. chan[p] \in Seq(Messages) /\ ent[f].boot \in Nat /\ ent[f].index \in Nat
    BY <1>1 DEF EntityStates
  <2>4. CASE f = e
    <3>1. InOrder(Append(chan[p], m), disc[p], e, ent[e].boot, ent'[e].index)
      BY <1>6, <2>2, <2>3, <2>4, InOrderAppend
    <3> QED
      BY <1>4, <1>5, <2>1, <2>4, <3>1
  <2>5. CASE f # e
    <3>1. InOrder(Append(chan[p], m), disc[p], f, ent[f].boot, ent[f].index)
      BY <1>6, <2>2, <2>3, <2>5, InOrderOther
    <3> QED
      BY <1>4, <1>5, <2>1, <2>5, <3>1
  <2> QED
    BY <2>4, <2>5
<1> QED
  BY <1>7, <1>8, <1>9, ChannelStep

LEMMA StopReboot ==
  ASSUME Inv, RebootInv, NEW e \in cfg.entities, NEW leaving, Stop(e, leaving)
  PROVE  RebootInv'
<1> DEFINE x == [ent[e] EXCEPT !.index = 0]
           m(p) == Packet("DEPARTING", e, x, p)
<1>1. /\ e \in Entities /\ ent \in [Entities -> EntityStates] /\ ent[e] \in EntityStates
      /\ chan \in [Ports -> Seq(Messages)] /\ cfg.ports \subseteq Ports
  BY ConfigFacts DEF Inv, TypeOK
<1>2. x \in EntityStates /\ x.boot = ent[e].boot /\ x.index = 0
  BY <1>1 DEF EntityStates
<1>3. /\ ent' = [ent EXCEPT ![e] = NewEntity(ent[e].boot, FALSE, FALSE)]
      /\ chan' = SendOn(leaving, "DEPARTING", e, x)
      /\ cfg' = cfg /\ disc' = disc /\ running' = running /\ lossless' = lossless
  BY DEF Stop
<1> HIDE DEF x
<1>4. /\ ent'[e].boot = ent[e].boot /\ ent'[e].index = 0 /\ ent'[e].delay = Off /\ ent'[e].reannounce = Off
      /\ \A f \in Entities : f # e => ent'[f] = ent[f]
  BY <1>1, <1>3 DEF NewEntity
<1>5. \A p \in Ports : chan'[p] = IF p \in leaving THEN Append(chan[p], m(p)) ELSE chan[p]
  BY <1>3 DEF SendOn
<1>6. ASSUME NEW p \in Ports
      PROVE  m(p) \in Messages /\ m(p).entity = e /\ m(p).type = "DEPARTING" /\ m(p).boot = ent[e].boot
  <2>1. x.itf[p] \in InterfaceStates
    BY <1>2 DEF EntityStates
  <2> QED
    BY <1>1, <1>2, <2>1 DEF Packet, Messages, EntityStates, InterfaceStates
<1> HIDE DEF m
<1>7. cfg.milan => OwnTimers'
  BY <1>3, <1>4 DEF OwnTimers, RebootInv
<1>8. ASSUME Watched, NEW p \in cfg.ports, NEW f \in Entities
      PROVE  InOrder(chan'[p], disc[p], f, ent'[f].boot, ent'[f].index)
  <2>1. InOrder(chan[p], disc[p], f, ent[f].boot, ent[f].index)
    BY <1>8 DEF RebootInv
  <2>2. chan[p] \in Seq(Messages) /\ ent[f].boot \in Nat /\ ent[f].index \in Nat /\ p \in Ports
    BY <1>1 DEF EntityStates
  <2>3. CASE p \notin leaving
    <3>1. ent[f].boot <= ent[f].boot
      BY <2>2
    <3>2. InOrder(chan[p], disc[p], f, ent[f].boot, 0)
      BY <2>1, <2>2, <3>1, InOrderBoot
    <3> QED
      BY <1>4, <1>5, <2>1, <2>2, <2>3, <3>2
  <2>4. CASE p \in leaving /\ f = e
    <3>1. InOrder(Append(chan[p], m(p)), disc[p], e, ent[e].boot, 0)
      BY <1>6, <2>1, <2>2, <2>4, InOrderAppend
    <3> QED
      BY <1>4, <1>5, <2>2, <2>4, <3>1
  <2>5. CASE p \in leaving /\ f # e
    <3>1. InOrder(Append(chan[p], m(p)), disc[p], f, ent[f].boot, ent[f].index)
      BY <1>6, <2>1, <2>2, <2>5, InOrderOther
    <3> QED
      BY <1>4, <1>5, <2>2, <2>5, <3>1
  <2> QED
    BY <2>3, <2>4, <2>5
<1> QED
  BY <1>3, <1>7, <1>8, ChannelStep

LEMMA IeeeReboot ==
  ASSUME Inv, RebootInv, NEW e \in cfg.entities, IeeeDelayTimeout(e) \/ IeeeReannounceTimeout(e)
  PROVE  RebootInv'
<1>1. e \in Entities
  BY ConfigFacts DEF Inv, TypeOK
<1>2. ~cfg.milan
  BY <1>1 DEF IeeeDelayTimeout, IeeeReannounceTimeout, RebootInv, OwnTimers, Off
<1>3. UNCHANGED <<cfg, disc, running>> /\ lossless' = lossless
  BY DEF IeeeDelayTimeout, IeeeReannounceTimeout
<1> QED
  BY <1>2, <1>3, ChannelStep DEF Watched

-----------------------------------------------------------------------------
(* The steps of the controller station and of the medium.                  *)

\* The list of one port changes, and perhaps the channel to it.
LEMMA ListReboot ==
  ASSUME Inv, RebootInv, NEW p \in Ports, NEW l, disc' = [disc EXCEPT ![p] = l],
         UNCHANGED <<cfg, ent, lossless, running>>,
         \A q \in Ports : q # p => chan'[q] = chan[q],
         Watched => /\ \A i \in Slots : l[i].used => running /\ i \in cfg.slots
                    /\ \A i \in Slots : l[i].since = l[i].info.boot
                    /\ p \in cfg.ports => \A e \in Entities : InOrder(chan'[p], l, e, ent[e].boot, ent[e].index)
  PROVE  RebootInv'
<1>1. cfg' = cfg /\ ent' = ent /\ lossless' = lossless /\ running' = running
  OBVIOUS
<1>2. disc'[p] = l /\ \A q \in Ports : q # p => disc'[q] = disc[q]
  BY DEF Inv, TypeOK
<1>3. OwnTimers'
  BY <1>1 DEF OwnTimers, RebootInv
<1>4. Watched' <=> Watched
  BY <1>1 DEF Watched
<1>5. Watched => SlotsUsed'
  BY <1>1, <1>2 DEF SlotsUsed, RebootInv
<1>6. cfg.ports \subseteq Ports
  BY ConfigFacts DEF Inv, TypeOK
<1>7. ASSUME Watched
      PROVE  /\ \A q \in Ports, i \in Slots : disc'[q][i].since = disc'[q][i].info.boot
             /\ \A q \in cfg.ports, e \in Entities : InOrder(chan'[q], disc'[q], e, ent[e].boot, ent[e].index)
  BY <1>2, <1>6, <1>7 DEF RebootInv
<1> QED
  BY <1>1, <1>3, <1>4, <1>5, <1>7 DEF RebootInv

LEMMA ReceiveReboot ==
  ASSUME Inv, RebootInv, NEW p \in cfg.ports, Receive(p)  PROVE RebootInv'
<1> DEFINE m == Head(chan[p])
           r == IF m.type = "AVAILABLE" THEN DiscoveryUpdate(disc[p], m, told[p])
                ELSE DiscoveryRemove(disc[p], m, told[p])
           c == chan[p]
           l == disc[p]
           n == IF running THEN r.list ELSE l
<1>1. /\ cfg \in Configs /\ p \in Ports /\ disc \in [Ports -> [Slots -> Entries]]
      /\ ent \in [Entities -> EntityStates] /\ chan \in [Ports -> Seq(Messages)]
      /\ c \in Seq(Messages) /\ c # <<>> /\ GoodList(cfg.slots, l)
  BY ConfigFacts DEF Receive, Inv, TypeOK
<1>2. m \in Messages /\ m = c[1] /\ 1 \in 1 .. Len(c) /\ m.entity \in Entities
      /\ m.type \in {"AVAILABLE", "DEPARTING"}
  BY <1>1, TailPositions DEF Messages
<1>3. chan'[p] = Tail(c) /\ \A q \in Ports : q # p => chan'[q] = chan[q]
  BY <1>1 DEF Receive
<1>4. UNCHANGED <<cfg, ent, lossless, running>>
  BY DEF Receive
<1>5. disc' = [disc EXCEPT ![p] = n]
  <2>1. CASE running
    BY <2>1 DEF Receive
  <2>2. CASE ~running
    BY <1>1, <2>2 DEF Receive
  <2> QED
    BY <2>1, <2>2 DEF Inv, TypeOK
<1>6. \A e \in Entities : ent[e].boot \in Nat /\ ent[e].index \in Nat
  BY <1>1 DEF EntityStates
<1>7. ASSUME Watched
      PROVE  /\ \A i \in Slots : n[i].used => running /\ i \in cfg.slots
             /\ \A i \in Slots : n[i].since = n[i].info.boot
             /\ \A e \in Entities : InOrder(Tail(c), n, e, ent[e].boot, ent[e].index)
  <2>1. /\ \A i \in Slots : l[i].used => running /\ i \in cfg.slots
        /\ \A i \in Slots : l[i].since = l[i].info.boot
        /\ \A e \in Entities : InOrder(c, l, e, ent[e].boot, ent[e].index)
    BY <1>1, <1>7 DEF RebootInv, SlotsUsed
  <2>2. l \in [Slots -> Entries]
    BY <1>1
  \* An advertisement whose index is not zero is of the start of the entry.
  <2>3. m.type = "AVAILABLE" /\ m.index # 0 =>
           \A i \in Slots : EntryOf(l, m.entity, i) => l[i].info.boot = m.boot
    <3>1. InOrder(c, l, m.entity, ent[m.entity].boot, ent[m.entity].index) /\ Mine(c, m.entity, 1)
      BY <1>2, <2>1 DEF Mine
    <3> HIDE DEF c, m, l
    <3>2. m.type = "AVAILABLE" /\ m.index # 0 => Noticed(c, l, m.entity, 1, m.boot)
      BY <1>2, <3>1 DEF InOrder
    <3> QED
      BY <3>2 DEF Noticed
  <2>4. /\ \A i \in Slots : n[i].used => running /\ i \in cfg.slots
        /\ \A i \in Slots : n[i].since = n[i].info.boot
        /\ \A e, i : i \in Slots /\ EntryOf(n, e, i) =>
             IF m.type = "AVAILABLE" /\ m.entity = e
             THEN n[i].info.boot = m.boot
             ELSE \E h \in Slots : EntryOf(l, e, h) /\ l[h].info.boot = n[i].info.boot
    <3>1. CASE ~running
      <4>1. n = l
        BY <3>1
      <4> HIDE DEF n, l, m
      <4>2. \A e, i : i \in Slots => ~EntryOf(n, e, i)
        BY <2>1, <3>1, <4>1 DEF EntryOf
      <4> QED
        BY <2>1, <4>1, <4>2
    <3>2. CASE running /\ m.type = "AVAILABLE"
      <4> DEFINE k == DiscoveryUpdate(l, m, told[p]).list
      <4>1. n = k
        BY <3>2
      <4> HIDE DEF n, l, m
      <4>2. /\ cfg \in Configs /\ GoodList(cfg.slots, l) /\ m \in Messages
            /\ \A i \in Slots : l[i].since = l[i].info.boot
            /\ \A i \in Slots : l[i].used => i \in cfg.slots
            /\ m.index # 0 => \A i \in Slots : EntryOf(l, m.entity, i) => l[i].info.boot = m.boot
        BY <1>1, <1>2, <2>1, <2>3, <3>2
      <4>3. /\ \A i \in Slots : k[i].since = k[i].info.boot
            /\ \A i \in Slots : k[i].used => i \in cfg.slots
            /\ \A i \in Slots : EntryOf(k, m.entity, i) => k[i].info.boot = m.boot
            /\ \A i \in Slots : k[i].used /\ k[i].info.entity # m.entity => k[i] = l[i]
        BY <4>2, UpdateBoots
      <4> HIDE DEF k
      <4> QED
        BY <3>2, <4>1, <4>3 DEF EntryOf
    <3>3. CASE running /\ m.type # "AVAILABLE"
      <4> DEFINE k == DiscoveryRemove(l, m, told[p]).list
      <4>1. n = k
        BY <3>3
      <4> HIDE DEF n, l, m
      <4>2. /\ \A i \in Slots : k[i].since = k[i].info.boot
            /\ \A i \in Slots : k[i].used => k[i] = l[i]
        BY <2>1, <2>2, RemoveBoots
      <4> HIDE DEF k
      <4> QED
        BY <2>1, <3>3, <4>1, <4>2 DEF EntryOf
    <3> QED
      BY <3>1, <3>2, <3>3 DEF Inv, TypeOK
  <2>5. ASSUME NEW e \in Entities PROVE InOrder(Tail(c), n, e, ent[e].boot, ent[e].index)
    <3>1. \A i \in Slots : EntryOf(n, e, i) =>
             IF Head(c).type = "AVAILABLE" /\ Head(c).entity = e
             THEN n[i].info.boot = Head(c).boot
             ELSE \E h \in Slots : EntryOf(l, e, h) /\ l[h].info.boot = n[i].info.boot
      BY <2>4
    <3> HIDE DEF n, l, m, c
    <3> QED
      BY <1>1, <1>6, <2>1, <3>1, InOrderTail
  <2> QED
    BY <2>4, <2>5
<1> HIDE DEF n, c
<1> QED
  BY <1>1, <1>3, <1>4, <1>5, <1>7, ListReboot

LEMMA TimeoutReboot ==
  ASSUME Inv, RebootInv, NEW p \in cfg.ports, NEW i \in cfg.slots, DiscoveryTimeout(p, i)
  PROVE  RebootInv'
<1> DEFINE l == disc[p]
           n == Put(l, i)
<1>1. p \in Ports /\ l \in [Slots -> Entries]
  BY ConfigFacts DEF Inv, TypeOK
<1>2. disc' = [disc EXCEPT ![p] = n] /\ UNCHANGED <<cfg, ent, lossless, running, chan>>
  BY DEF DiscoveryTimeout
<1>3. ASSUME Watched
      PROVE  /\ \A j \in Slots : n[j].used => running /\ j \in cfg.slots
             /\ \A j \in Slots : n[j].since = n[j].info.boot
             /\ \A e \in Entities : InOrder(chan[p], n, e, ent[e].boot, ent[e].index)
  <2>1. /\ \A j \in Slots : l[j].used => running /\ j \in cfg.slots
        /\ \A j \in Slots : l[j].since = l[j].info.boot
        /\ \A e \in Entities : InOrder(chan[p], l, e, ent[e].boot, ent[e].index)
    BY <1>1, <1>3 DEF RebootInv, SlotsUsed
  <2>2. /\ \A j \in Slots : n[j].since = n[j].info.boot
        /\ \A j \in Slots : n[j].used => n[j] = l[j]
    <3> HIDE DEF l
    <3> QED BY <1>1, <2>1, PutBoots
  <2> HIDE DEF n, l
  <2>3. \A e, j : EntryOf(n, e, j) => EntryOf(l, e, j) /\ n[j].info.boot = l[j].info.boot
    BY <2>2 DEF EntryOf
  <2> QED
    BY <2>1, <2>2, <2>3, InOrderList
<1> HIDE DEF n
<1> QED
  BY <1>1, <1>2, <1>3, ListReboot

\* All lists change, and their entries only in ways that do not matter, or go.
LEMMA ListsReboot ==
  ASSUME RebootInv, UNCHANGED <<cfg, chan, lossless>>,
         \A e \in Entities : ent'[e].boot = ent[e].boot /\ ent'[e].index = ent[e].index,
         OwnTimers',
         \A p \in Ports, i \in Slots :
            /\ disc[p][i].since = disc[p][i].info.boot => disc'[p][i].since = disc'[p][i].info.boot
            /\ disc'[p][i].used => running' /\ disc[p][i].used /\ disc'[p][i].info = disc[p][i].info,
         cfg.ports \subseteq Ports
  PROVE  RebootInv'
<1>1. cfg' = cfg /\ chan' = chan /\ lossless' = lossless
  OBVIOUS
<1>2. Watched' <=> Watched
  BY <1>1 DEF Watched
<1>3. ASSUME Watched, NEW p \in cfg.ports, NEW e \in Entities
      PROVE  InOrder(chan'[p], disc'[p], e, ent'[e].boot, ent'[e].index)
  <2> DEFINE l == disc[p]
             n == disc'[p]
  <2>1. InOrder(chan[p], l, e, ent[e].boot, ent[e].index)
    BY <1>3 DEF RebootInv
  <2>2. \A i \in Slots : EntryOf(n, e, i) => EntryOf(l, e, i) /\ n[i].info.boot = l[i].info.boot
    BY <1>3 DEF EntryOf
  <2> HIDE DEF l, n
  <2>3. InOrder(chan[p], n, e, ent[e].boot, ent[e].index)
    BY <2>1, <2>2, InOrderList
  <2> QED
    BY <1>1, <2>3 DEF n
<1>4. ASSUME Watched PROVE \A p \in Ports, i \in Slots : disc'[p][i].since = disc'[p][i].info.boot
  BY <1>4 DEF RebootInv
<1>5. Watched => SlotsUsed'
  BY <1>1 DEF RebootInv, SlotsUsed
<1> QED
  BY <1>1, <1>2, <1>3, <1>4, <1>5 DEF RebootInv

LEMMA ConnectReboot ==
  ASSUME Inv, RebootInv, Connect \/ DiscoveryExit  PROVE RebootInv'
<1>1. cfg.ports \subseteq Ports /\ disc \in [Ports -> [Slots -> Entries]]
  BY ConfigFacts DEF Inv, TypeOK
<1>2. ent' = ent /\ UNCHANGED <<cfg, chan, lossless>>
  BY DEF Connect, DiscoveryInit, Discover, DiscoveryExit
<1>3. OwnTimers'
  BY <1>2 DEF OwnTimers, RebootInv
<1>4. CASE Connect
  <2>1. disc' = disc /\ (running => running') /\ running' = TRUE
    BY <1>4 DEF Connect, DiscoveryInit, Discover, Inv, TypeOK
  <2> QED
    BY <1>1, <1>2, <1>3, <2>1, ListsReboot
<1>5. CASE DiscoveryExit
  <2>1. \A p \in Ports, i \in Slots : disc'[p][i] = NoEntry
    BY <1>5 DEF DiscoveryExit, EmptyLists
  <2>2. \A p \in Ports, i \in Slots : ~disc'[p][i].used /\ disc'[p][i].since = disc'[p][i].info.boot
    BY <2>1 DEF NoEntry, NoInfo
  <2> QED
    BY <1>1, <1>2, <1>3, <2>2, ListsReboot
<1> QED
  BY <1>4, <1>5

LEMMA TickReboot ==
  ASSUME Inv, RebootInv, Tick  PROVE RebootInv'
<1>1. cfg.ports \subseteq Ports /\ disc \in [Ports -> [Slots -> Entries]] /\ ent \in [Entities -> EntityStates]
  BY ConfigFacts DEF Inv, TypeOK
<1>2. UNCHANGED <<cfg, chan, lossless>> /\ running' = running
  BY DEF Tick
<1>3. ASSUME NEW e \in Entities
      PROVE  /\ ent'[e].boot = ent[e].boot /\ ent'[e].index = ent[e].index
             /\ ent'[e].delay = Less(ent[e].delay) /\ ent'[e].reannounce = Less(ent[e].reannounce)
  <2>1. ent'[e] = [ent[e] EXCEPT !.delay = Less(ent[e].delay), !.reannounce = Less(ent[e].reannounce),
                                 !.itf = [p \in Ports |->
                                   [ent[e].itf[p] EXCEPT !.delay = Less(ent[e].itf[p].delay),
                                                         !.adv = Less(ent[e].itf[p].adv)]]]
    BY DEF Tick
  <2>2. ent[e] \in EntityStates
    BY <1>1
  <2> QED
    BY <2>1, <2>2 DEF EntityStates
<1>4. OwnTimers'
  BY <1>2, <1>3 DEF OwnTimers, RebootInv, Less
<1>5. ASSUME NEW p \in Ports, NEW i \in Slots
      PROVE  /\ disc'[p][i].since = disc[p][i].since /\ disc'[p][i].info = disc[p][i].info
             /\ disc'[p][i].used = disc[p][i].used
  <2>1. disc'[p][i] = [disc[p][i] EXCEPT !.timeout = Less(disc[p][i].timeout)]
    BY DEF Tick
  <2>2. disc[p][i] \in Entries
    BY <1>1
  <2> QED
    BY <2>1, <2>2 DEF Entries
<1>6. CASE ~Watched
  BY <1>2, <1>4, <1>6 DEF RebootInv, Watched
<1>7. CASE Watched
  <2>1. \A p \in Ports, i \in Slots : disc[p][i].used => running
    BY <1>7 DEF RebootInv, SlotsUsed
  <2> QED
    BY <1>1, <1>2, <1>3, <1>4, <1>5, <2>1, ListsReboot
<1> QED
  BY <1>6, <1>7

LEMMA LoseReboot ==
  ASSUME RebootInv, NEW p, Lose(p)  PROVE RebootInv'
  BY DEF Lose, RebootInv, OwnTimers, Watched

LEMMA InitReboot == Init => RebootInv
<1> SUFFICES ASSUME Init PROVE RebootInv
  OBVIOUS
<1>1. cfg \in Configs /\ cfg.ports \subseteq Ports
  BY ADPAssumption DEF Init
<1>2. \A e \in Entities : ent[e].delay = Off /\ ent[e].reannounce = Off /\ ent[e].index = 0 /\ ent[e].boot = 0
  BY DEF Init, NewEntity
<1>3. \A p \in Ports, i \in Slots : ~disc[p][i].used /\ disc[p][i].since = disc[p][i].info.boot
  BY DEF Init, EmptyLists, NoEntry, NoInfo
<1>4. \A p \in Ports : chan[p] = <<>>
  BY DEF Init
<1>5. \A l, e : InOrder(<<>>, l, e, 0, 0)
  BY DEF InOrder
<1>6. \A p \in cfg.ports, e \in Entities : InOrder(chan[p], disc[p], e, ent[e].boot, ent[e].index)
  BY <1>1, <1>2, <1>4, <1>5
<1> QED
  BY <1>2, <1>3, <1>6 DEF RebootInv, OwnTimers, SlotsUsed

LEMMA NextReboot == Inv /\ RebootInv /\ [Next]_vars => RebootInv'
<1> SUFFICES ASSUME Inv, RebootInv, [Next]_vars PROVE RebootInv'
  OBVIOUS
<1>1. CASE UNCHANGED vars
  <2>1. /\ cfg' = cfg /\ ent' = ent /\ disc' = disc /\ running' = running /\ chan' = chan
        /\ lossless' = lossless
    BY <1>1 DEF vars
  <2> QED
    BY <2>1 DEF RebootInv, OwnTimers, SlotsUsed, Watched
<1>2. CASE Next
  <2>1. CASE \E e \in cfg.entities : Boot(e) \/ Entity(e)
    BY <2>1, BootReboot, HeartbeatReboot, IeeeReboot DEF Entity
  <2>2. CASE \E e \in cfg.entities, p \in cfg.ports :
               Interface(e, p) \/ \E g \in cfg.gms : GmStatus(e, p, g)
    BY <2>2, EventReboot, MilanDelayReboot DEF Interface
  <2>3. CASE Connect \/ DiscoveryExit
    BY <2>3, ConnectReboot
  <2>4. CASE Station
    BY <2>4, ReceiveReboot, TimeoutReboot DEF Station
  <2>5. CASE Fault
    BY <2>3, <2>5, StopReboot, EventReboot, LoseReboot DEF Fault, Exit, Crash
  <2>6. CASE Tick
    BY <2>6, TickReboot
  <2> QED
    BY <1>2, <2>1, <2>2, <2>3, <2>4, <2>5, <2>6 DEF Next
<1> QED
  BY <1>1, <1>2

(***************************************************************************)
(* A Milan entity that was started anew is never taken for the old one by  *)
(* a controller that loses no advertisement (adp_discovery_update): with   *)
(* one interface every entry belongs to the start it was made for, for any *)
(* number of entities and slots, restarts of either side, advertisements   *)
(* in flight and a wrap of the available_index.                            *)
(***************************************************************************)
THEOREM RestartsAreNoticed == Spec => []RebootNoticed
<1>1. Init => Inv /\ RebootInv
  BY InvInit, InitReboot
<1>2. Inv /\ RebootInv /\ [Next]_vars => (Inv /\ RebootInv)'
  BY InvNext, NextReboot
<1>3. RebootInv => RebootNoticed
  BY DEF RebootInv, RebootNoticed, Watched
<1> QED
  BY <1>1, <1>2, <1>3, PTL DEF Spec
-----------------------------------------------------------------------------
(***************************************************************************)
(* An entry outlives its entity's silence.  The entry has to outlast the   *)
(* next advertisement, and one more period for each that may still be      *)
(* lost; an advertisement on its way to the port counts as received or     *)
(* lost.  Discover messages, grandmaster changes and links of other ports  *)
(* change the timers of the entity, but never put the next advertisement   *)
(* off.                                                                    *)
(***************************************************************************)

\* With delays up to D the advertisements that may be lost and one more fit
\* into the life of an entry.
Suits(c, D) ==
    /\ c.tolerates < Many
    /\ \A d \in c.delays : d <= D
    /\ c.valid > (c.tolerates + 1) * (c.interval + D)

Started(m) == m.st # "NOT_STARTED"

\* The timers of a machine that waits for its delay or for the interval.
Counting(st, delay, wait, D) ==
    /\ delay # Off => st = "DELAY"
    /\ wait # Off => st = "WAITING"
    /\ st = "DELAY" => delay \in 0 .. D
    /\ st = "WAITING" => wait \in 0 .. cfg.interval

\* An interface of either kind has the state of its link.
MilanSound(i, D) ==
    /\ Counting(i.st, i.delay, i.adv, D)
    /\ Started(i) => i.st \in IF i.op THEN {"DELAY", "WAITING"} ELSE {"DOWN"}

IeeeSound(i) ==
    /\ i.delay = Off /\ i.adv = Off
    /\ Started(i) => i.st = IF i.op THEN "WAITING" ELSE "LINK_DOWN"

Sound(x, D) ==
    /\ ~x.on => x = NewEntity(x.boot, FALSE, FALSE)
    /\ \A p \in Ports : Started(x.itf[p]) => x.ready
    /\ cfg.milan => /\ x.delay = Off /\ x.reannounce = Off
                    /\ \A p \in Ports : MilanSound(x.itf[p], D)
    /\ ~cfg.milan => /\ Counting(x.st, x.delay, x.reannounce, D)
                     /\ \A p \in Ports : IeeeSound(x.itf[p])
                     /\ \A p \in Ports : Started(x.itf[p]) => Started(x)

\* When at the latest the next advertisement is sent on interface p.
DueOf(st, delay, wait, D) == IF st = "DELAY" THEN delay ELSE wait + D

Due(x, p, D) ==
    IF cfg.milan THEN DueOf(x.itf[p].st, x.itf[p].delay, x.itf[p].adv, D)
    ELSE DueOf(x.st, x.delay, x.reannounce, D)

\* An advertisement of the present start b of an entity.
Current(c, e, b, j) ==
    j \in 1 .. Len(c) /\ c[j].type = "AVAILABLE" /\ c[j].entity = e /\ c[j].boot = b

NoCurrent(c, e, b) == \A j \in 1 .. Len(c) : ~Current(c, e, b, j)

OneCurrent(c, e, b) ==
    \A j, k \in 1 .. Len(c) : Current(c, e, b, j) /\ Current(c, e, b, k) => j = k

\* An entry with t seconds to live, of an entity e in the state x on port p of
\* which n advertisements were missed and c is on its way.
Outlives(t, c, e, x, p, n, D) ==
    n <= cfg.tolerates =>
        /\ t > 0
        /\ NoCurrent(c, e, x.boot) =>
             t > Due(x, p, D) + (IF n < cfg.tolerates THEN cfg.interval + D ELSE 0)
        /\ n < cfg.tolerates /\ OneCurrent(c, e, x.boot) => t > Due(x, p, D)

SentOK(m, p) ==
    /\ m.entity \in cfg.entities
    /\ m.boot <= ent[m.entity].boot
    /\ m.type = "AVAILABLE" /\ m.boot = ent[m.entity].boot /\ ent[m.entity].on =>
         Started(ent[m.entity].itf[p])

HeardOK(e, p) ==
    missed[e][p] < Many =>
        e \in cfg.entities /\ p \in cfg.ports /\ ent[e].itf[p].op /\ Started(ent[e].itf[p])

Lives(p, i, D) ==
    LET e == disc[p][i].info.entity
    IN  disc[p][i].used => Outlives(disc[p][i].timeout, chan[p], e, ent[e], p, missed[e][p], D)

ExpiryInv(D) ==
    /\ SlotsUsed
    /\ \A e \in Entities : Sound(ent[e], D)
    /\ \A p \in Ports : \A j \in 1 .. Len(chan[p]) : SentOK(chan[p][j], p)
    /\ \A e \in Entities, p \in Ports : HeardOK(e, p)
    /\ \A p \in Ports, i \in Slots : Lives(p, i, D)

-----------------------------------------------------------------------------
(* The machines of an entity: no event puts the next advertisement off.    *)

\* Interface q goes on, and its next advertisement is not later.
EasedAt(x, y, q, D) ==
    /\ Started(x.itf[q]) => Started(y.itf[q])
    /\ Started(x.itf[q]) /\ x.itf[q].op => y.itf[q].op /\ Due(y, q, D) <= Due(x, q, D)

Eased(x, y, D) == y.on = x.on /\ y.boot = x.boot /\ \A q \in Ports : EasedAt(x, y, q, D)

LEMMA MilanDelayed ==
  ASSUME NEW i \in InterfaceStates, NEW D \in Nat, NEW d \in Nat, d <= D,
         MilanSound(i, D), i.st # "DELAY"
  PROVE  LET k == MilanDelay(i, d)
         IN  k.st = "DELAY" /\ k.adv = Off /\ k.delay = d /\ k.op = i.op /\ k.gm = i.gm
  BY DEF MilanDelay, MilanSound, Counting, Start, InterfaceStates

\* Events other than those of the link.
LEMMA MilanEvent ==
  ASSUME cfg \in Configs, NEW i \in InterfaceStates, NEW D \in Nat, NEW d \in Nat, d <= D,
         MilanSound(i, D), NEW event \in {"START", "DISCOVER", "GM_CHANGE"}
  PROVE  LET k == MilanSm(i, event, d)
         IN  /\ MilanSound(k, D) /\ k.op = i.op
             /\ Started(i) => /\ Started(k)
                              /\ i.op => DueOf(k.st, k.delay, k.adv, D)
                                           <= DueOf(i.st, i.delay, i.adv, D)
<1> DEFINE k == MilanSm(i, event, d)
           m == MilanDelay(i, d)
<1>1. i.st # "DELAY" => m.st = "DELAY" /\ m.adv = Off /\ m.delay = d /\ m.op = i.op
  BY MilanDelayed
<1>2. i.op \in BOOLEAN /\ cfg.interval \in Nat
  BY ConfigFacts DEF InterfaceStates
<1>3. CASE i.st = "NOT_STARTED" /\ event = "START" /\ i.op
  <2>1. k = m
    BY <1>3 DEF MilanSm
  <2> HIDE DEF m, k
  <2>2. k.st = "DELAY" /\ k.adv = Off /\ k.delay = d
    BY <1>1, <1>3, <2>1
  <2>3. k.op = i.op
    BY <1>1, <1>3, <2>1
  <2>4. MilanSound(k, D)
    <3>1. Counting(k.st, k.delay, k.adv, D)
      BY <2>2 DEF Counting, Off
    <3>2. k.st \in IF k.op THEN {"DELAY", "WAITING"} ELSE {"DOWN"}
      BY <1>3, <2>2, <2>3
    <3> QED BY <3>1, <3>2 DEF MilanSound
  <2> QED BY <1>3, <2>3, <2>4 DEF Started, k
<1>4. CASE i.st = "NOT_STARTED" /\ event = "START" /\ ~i.op
  <2>1. k = [i EXCEPT !.st = "DOWN"]
    BY <1>4 DEF MilanSm
  <2>2. k.st = "DOWN" /\ k.delay = i.delay /\ k.adv = i.adv /\ k.op = i.op
    BY <2>1 DEF InterfaceStates
  <2> HIDE DEF k
  <2> QED BY <1>2, <1>4, <2>2 DEF MilanSound, Counting, Started, k
<1>5. CASE i.st = "WAITING" /\ event # "START"
  <2>1. k = m
    BY <1>5 DEF MilanSm
  <2> HIDE DEF m, k
  <2>2. i.op /\ i.adv \in Nat
    BY <1>2, <1>5 DEF MilanSound, Counting, Started
  <2>3. MilanSound(k, D) /\ k.op = i.op /\ Started(k)
    <3>1. k.st = "DELAY" /\ k.adv = Off /\ k.delay = d
      BY <1>1, <1>5, <2>1
    <3>2. k.op = i.op
      BY <1>1, <1>5, <2>1
    <3>3. Counting(k.st, k.delay, k.adv, D)
      BY <3>1 DEF Counting, Off
    <3>4. k.st \in IF k.op THEN {"DELAY", "WAITING"} ELSE {"DOWN"}
      BY <2>2, <3>1, <3>2
    <3> QED BY <3>1, <3>2, <3>3, <3>4 DEF MilanSound, Started
  <2>4. DueOf(k.st, k.delay, k.adv, D) <= DueOf(i.st, i.delay, i.adv, D)
    BY <1>1, <1>5, <2>1, <2>2 DEF DueOf
  <2> QED BY <2>3, <2>4 DEF k
<1>6. CASE /\ ~(i.st = "NOT_STARTED" /\ event = "START")
           /\ ~(i.st = "WAITING" /\ event # "START")
  <2>1. k = i
    BY <1>6 DEF MilanSm
  <2>2. Started(i) /\ i.op => DueOf(i.st, i.delay, i.adv, D) \in Int
    BY <1>2 DEF DueOf, MilanSound, Counting, Started
  <2> HIDE DEF k
  <2>3. Started(i) /\ i.op => DueOf(k.st, k.delay, k.adv, D) <= DueOf(i.st, i.delay, i.adv, D)
    BY <2>1, <2>2
  <2> QED BY <2>1, <2>3 DEF k
<1> QED BY <1>2, <1>3, <1>4, <1>5, <1>6

LEMMA MilanUp ==
  ASSUME cfg \in Configs, NEW i \in InterfaceStates, NEW D \in Nat, NEW d \in Nat, d <= D,
         MilanSound(i, D), ~i.op
  PROVE  LET k == [MilanSm(i, "LINK_UP", d) EXCEPT !.op = TRUE]
         IN  MilanSound(k, D) /\ (Started(i) => Started(k))
<1> DEFINE k == [MilanSm(i, "LINK_UP", d) EXCEPT !.op = TRUE]
           m == MilanDelay(i, d)
<1>1. i.st = "DOWN" => m.st = "DELAY" /\ m.adv = Off /\ m.delay = d
  BY MilanDelayed
<1>2. CASE i.st = "DOWN"
  <2>1. k = [m EXCEPT !.op = TRUE]
    BY <1>2 DEF MilanSm
  <2>2. k.st = m.st /\ k.adv = m.adv /\ k.delay = m.delay /\ k.op
    BY <2>1 DEF MilanDelay, InterfaceStates
  <2> HIDE DEF k, m
  <2> QED BY <1>1, <1>2, <2>2 DEF MilanSound, Counting, Started, Off, k
<1>3. CASE i.st # "DOWN"
  <2>1. k = [i EXCEPT !.op = TRUE] /\ i.st = "NOT_STARTED"
    BY <1>3 DEF MilanSm, MilanSound, Started
  <2>2. k.st = i.st /\ k.adv = i.adv /\ k.delay = i.delay
    BY <2>1 DEF InterfaceStates
  <2> HIDE DEF k
  <2> QED BY <2>1, <2>2 DEF MilanSound, Counting, Started, k
<1> QED BY <1>2, <1>3

LEMMA MilanDown ==
  ASSUME NEW i \in InterfaceStates, NEW D \in Nat, NEW d, MilanSound(i, D), i.op
  PROVE  LET k == [MilanSm(i, "LINK_DOWN", d) EXCEPT !.op = FALSE]
         IN  MilanSound(k, D) /\ (Started(i) => Started(k))
<1> DEFINE k == [MilanSm(i, "LINK_DOWN", d) EXCEPT !.op = FALSE]
<1>1. CASE Started(i)
  <2>1. i.st \in {"DELAY", "WAITING"}
    BY <1>1 DEF MilanSound
  <2>2. k = [[i EXCEPT !.st = "DOWN", !.adv = Off, !.delay = Off] EXCEPT !.op = FALSE]
    BY <2>1 DEF MilanSm
  <2>3. k.st = "DOWN" /\ k.adv = Off /\ k.delay = Off /\ ~k.op
    BY <2>2 DEF InterfaceStates
  <2> HIDE DEF k
  <2> QED BY <2>3 DEF MilanSound, Counting, Started, k
<1>2. CASE ~Started(i)
  <2>1. k = [i EXCEPT !.op = FALSE]
    BY <1>2 DEF MilanSm, Started
  <2>2. k.st = i.st /\ k.adv = i.adv /\ k.delay = i.delay
    BY <2>1 DEF InterfaceStates
  <2> HIDE DEF k
  <2> QED BY <1>2, <2>2 DEF MilanSound, Counting, Started, k
<1> QED BY <1>1, <1>2

\* The IEEE entity machine.
LEMMA IeeeAdvertised ==
  ASSUME cfg \in Configs, NEW x \in EntityStates, NEW D \in Nat, NEW d \in Nat, d <= D,
         Counting(x.st, x.delay, x.reannounce, D)
  PROVE  LET y == IeeeAdvertise(x, d)
         IN  /\ y.itf = x.itf /\ y.on = x.on /\ y.ready = x.ready /\ y.boot = x.boot
             /\ Counting(y.st, y.delay, y.reannounce, D)
             /\ Started(x) => /\ Started(y)
                              /\ DueOf(y.st, y.delay, y.reannounce, D)
                                   <= DueOf(x.st, x.delay, x.reannounce, D)
<1> DEFINE y == IeeeAdvertise(x, d)
<1>0. cfg.interval \in Nat
  BY ConfigFacts
<1>1. CASE x.st = "WAITING"
  <2>1. x.delay = Off /\ x.reannounce \in Nat
    BY <1>0, <1>1 DEF Counting
  <2>2. /\ y.itf = x.itf /\ y.on = x.on /\ y.ready = x.ready /\ y.boot = x.boot
        /\ y.st = "DELAY" /\ y.reannounce = Off /\ y.delay = d
    BY <1>1, <2>1 DEF IeeeAdvertise, Start, EntityStates
  <2> HIDE DEF y
  <2>3. Counting(y.st, y.delay, y.reannounce, D) /\ Started(y)
    BY <2>2 DEF Counting, Started, Off
  <2>4. DueOf(y.st, y.delay, y.reannounce, D) <= DueOf(x.st, x.delay, x.reannounce, D)
    BY <1>1, <2>1, <2>2 DEF DueOf
  <2> QED BY <2>2, <2>3, <2>4 DEF y
<1>2. CASE x.st # "WAITING"
  <2>1. y = x
    BY <1>2 DEF IeeeAdvertise
  <2>2. Started(x) => DueOf(x.st, x.delay, x.reannounce, D) \in Int
    BY <1>2 DEF DueOf, Counting, Started, EntityStates
  <2> HIDE DEF y
  <2>3. Started(x) => DueOf(y.st, y.delay, y.reannounce, D)
                        <= DueOf(x.st, x.delay, x.reannounce, D)
    BY <2>1, <2>2
  <2> QED BY <2>1, <2>3 DEF y
<1> QED BY <1>1, <1>2


LEMMA DelayFacts ==
  ASSUME cfg \in Configs, NEW D \in Nat, Suits(cfg, D), NEW d \in cfg.delays
  PROVE  d \in Nat /\ d <= D
  BY ConfigFacts DEF Suits

\* An interface that advertises sends within a period.
LEMMA DueFacts ==
  ASSUME cfg \in Configs, NEW x \in EntityStates, NEW D \in Nat, Sound(x, D), NEW p \in Ports,
         Started(x.itf[p]), x.itf[p].op
  PROVE  Due(x, p, D) \in Nat /\ Due(x, p, D) <= cfg.interval + D
<1>1. cfg.interval \in Nat
  BY ConfigFacts
<1>2. CASE cfg.milan
  <2>1. x.itf[p].st \in {"DELAY", "WAITING"}
        /\ Counting(x.itf[p].st, x.itf[p].delay, x.itf[p].adv, D)
    BY <1>2 DEF Sound, MilanSound
  <2> QED BY <1>1, <1>2, <2>1 DEF Counting, Due, DueOf
<1>3. CASE ~cfg.milan
  <2>1. x.st \in {"DELAY", "WAITING"} /\ Counting(x.st, x.delay, x.reannounce, D)
    BY <1>3 DEF Sound, Started, EntityStates
  <2> QED BY <1>1, <1>3, <2>1 DEF Counting, Due, DueOf
<1> QED BY <1>2, <1>3

LEMMA EasedSame ==
  ASSUME cfg \in Configs, NEW x \in EntityStates, NEW D \in Nat, Sound(x, D)
  PROVE  Eased(x, x, D)
<1>1. ASSUME NEW q \in Ports PROVE EasedAt(x, x, q, D)
  <2>1. Started(x.itf[q]) /\ x.itf[q].op => Due(x, q, D) <= Due(x, q, D)
    BY DueFacts
  <2> QED BY <2>1 DEF EasedAt
<1> QED BY <1>1 DEF Eased

LEMMA EasedTwice ==
  ASSUME cfg \in Configs, NEW x \in EntityStates, NEW y \in EntityStates, NEW z \in EntityStates,
         NEW D \in Nat, Sound(x, D), Sound(y, D), Sound(z, D), Eased(x, y, D), Eased(y, z, D)
  PROVE  Eased(x, z, D)
<1>1. ASSUME NEW q \in Ports PROVE EasedAt(x, z, q, D)
  <2>1. EasedAt(x, y, q, D) /\ EasedAt(y, z, q, D)
    BY DEF Eased
  <2>2. ASSUME Started(x.itf[q]), x.itf[q].op
        PROVE  z.itf[q].op /\ Due(z, q, D) <= Due(x, q, D)
    <3>1. Started(y.itf[q]) /\ y.itf[q].op /\ Started(z.itf[q]) /\ z.itf[q].op
      BY <2>1, <2>2 DEF EasedAt
    <3>2. Due(x, q, D) \in Nat /\ Due(y, q, D) \in Nat /\ Due(z, q, D) \in Nat
      BY <2>2, <3>1, DueFacts
    <3>3. Due(z, q, D) <= Due(y, q, D) /\ Due(y, q, D) <= Due(x, q, D)
      BY <2>1, <2>2, <3>1 DEF EasedAt
    <3> QED BY <3>1, <3>2, <3>3
  <2> QED BY <2>1, <2>2 DEF EasedAt
<1> QED BY <1>1 DEF Eased

\* A Milan entity, interface by interface.
LEMMA MilanEntity ==
  ASSUME cfg.milan, NEW x, NEW y, NEW D, Sound(x, D), x.on, y.on = x.on, y.boot = x.boot,
         y.ready, y.delay = x.delay, y.reannounce = x.reannounce,
         \A q \in Ports : MilanSound(y.itf[q], D)
  PROVE  Sound(y, D)
  BY DEF Sound

LEMMA MilanEased ==
  ASSUME cfg.milan, NEW x, NEW y, NEW D, NEW q,
         LET i == x.itf[q]
             k == y.itf[q]
         IN  /\ k.op = i.op
             /\ Started(i) => /\ Started(k)
                              /\ i.op => DueOf(k.st, k.delay, k.adv, D)
                                           <= DueOf(i.st, i.delay, i.adv, D)
  PROVE  EasedAt(x, y, q, D)
  BY DEF EasedAt, Due

LEMMA UpdatedSound ==
  ASSUME cfg \in Configs, NEW x \in EntityStates, NEW D \in Nat, Suits(cfg, D), Sound(x, D),
         x.on, NEW y \in Updated(x)
  PROVE  Sound(y, D) /\ Eased(x, y, D)
<1>1. CASE ~x.ready
  <2>1. y = x
    BY <1>1 DEF Updated
  <2> QED BY <2>1, EasedSame
<1>2. CASE x.ready /\ cfg.milan
  <2> DEFINE new(q, d) == IF q \in cfg.ports THEN MilanSm(x.itf[q], "START", d) ELSE x.itf[q]
  <2>1. PICK ds \in [cfg.ports -> cfg.delays] :
          y = [x EXCEPT !.itf = [q \in Ports |-> new(q, ds[q])]]
    BY <1>2 DEF Updated
  <2>2. /\ y.on = x.on /\ y.boot = x.boot /\ y.ready = x.ready
        /\ y.delay = x.delay /\ y.reannounce = x.reannounce
        /\ \A q \in Ports : y.itf[q] = new(q, ds[q])
    BY <2>1 DEF EntityStates
  <2>3. ASSUME NEW q \in Ports
        PROVE  MilanSound(y.itf[q], D) /\ EasedAt(x, y, q, D)
    <3> DEFINE i == x.itf[q]
               k == y.itf[q]
    <3>1. i \in InterfaceStates /\ MilanSound(i, D)
      BY <1>2 DEF Sound, EntityStates
    <3>2. CASE q \in cfg.ports
      <4>1. ds[q] \in Nat /\ ds[q] <= D
        BY <3>2, DelayFacts
      <4>2. k = MilanSm(i, "START", ds[q])
        BY <2>2, <3>2
      <4> HIDE DEF i, k
      <4>3. /\ MilanSound(k, D) /\ k.op = i.op
            /\ Started(i) => /\ Started(k)
                             /\ i.op => DueOf(k.st, k.delay, k.adv, D)
                                          <= DueOf(i.st, i.delay, i.adv, D)
        BY <3>1, <4>1, <4>2, MilanEvent
      <4> QED BY <1>2, <4>3, MilanEased DEF i, k
    <3>3. CASE q \notin cfg.ports
      <4>1. k = i
        BY <2>2, <3>3
      <4>2. EasedAt(x, x, q, D)
        BY EasedSame DEF Eased
      <4> QED BY <1>2, <3>1, <4>1, <4>2 DEF EasedAt, Due
    <3> QED BY <3>2, <3>3
  <2>4. Sound(y, D)
    BY <1>2, <2>2, <2>3, MilanEntity
  <2> QED BY <2>2, <2>3, <2>4 DEF Eased
<1>3. CASE x.ready /\ ~cfg.milan /\ x.st # "NOT_STARTED"
  <2>1. y = x
    BY <1>3 DEF Updated, IeeeBegin
  <2> QED BY <2>1, EasedSame
<1>4. CASE x.ready /\ ~cfg.milan /\ x.st = "NOT_STARTED"
  <2>1. PICK d \in cfg.delays : y = IeeeBegin(x, d)
    BY <1>4 DEF Updated
  <2>2. x.delay = Off /\ x.reannounce = Off
    BY <1>4 DEF Sound, Counting
  <2> DEFINE new(q) == IF q \in cfg.ports
                       THEN [x.itf[q] EXCEPT !.st = IF x.itf[q].op THEN "WAITING" ELSE "LINK_DOWN"]
                       ELSE x.itf[q]
  <2>3. /\ y.on = x.on /\ y.boot = x.boot /\ y.ready = x.ready
        /\ y.st = "DELAY" /\ y.delay = d /\ y.reannounce = Off
        /\ \A q \in Ports : y.itf[q] = new(q)
    BY <1>4, <2>1, <2>2 DEF IeeeBegin, Start, EntityStates
  <2>4. ASSUME NEW q \in Ports PROVE IeeeSound(y.itf[q]) /\ ~Started(x.itf[q])
    <3>1. x.itf[q] \in InterfaceStates /\ IeeeSound(x.itf[q]) /\ ~Started(x.itf[q])
      BY <1>4 DEF Sound, Started, EntityStates
    <3>2. CASE q \notin cfg.ports
      BY <2>3, <3>1, <3>2
    <3>3. CASE q \in cfg.ports
      <4> DEFINE k == y.itf[q]
      <4>1. k = [x.itf[q] EXCEPT !.st = IF x.itf[q].op THEN "WAITING" ELSE "LINK_DOWN"]
        BY <2>3, <3>3
      <4>2. k.delay = Off /\ k.adv = Off /\ k.op = x.itf[q].op
            /\ k.st = IF x.itf[q].op THEN "WAITING" ELSE "LINK_DOWN"
        BY <3>1, <4>1 DEF InterfaceStates, IeeeSound
      <4> HIDE DEF k
      <4>3. IeeeSound(k)
        BY <4>2 DEF IeeeSound
      <4> QED BY <3>1, <4>3 DEF k
    <3> QED BY <3>2, <3>3
  <2>5. Counting(y.st, y.delay, y.reannounce, D) /\ Started(y)
    BY <2>3, DelayFacts DEF Counting, Started, Off
  <2>6. Sound(y, D)
    BY <1>4, <2>3, <2>4, <2>5 DEF Sound
  <2> QED BY <2>3, <2>4, <2>6 DEF Eased, EasedAt
<1> QED BY <1>1, <1>2, <1>3, <1>4


\* Interface p changes; it goes on, and the other ones are eased.
ChangeAt(x, y, p, D) ==
    /\ Sound(y, D) /\ y.on = x.on /\ y.boot = x.boot
    /\ \A q \in Ports : q # p => EasedAt(x, y, q, D)
    /\ Started(x.itf[p]) => Started(y.itf[p])

\* One interface of a Milan entity changes.
LEMMA MilanOne ==
  ASSUME cfg \in Configs, cfg.milan, NEW x \in EntityStates, NEW D \in Nat, Sound(x, D), x.on,
         x.ready, NEW p \in Ports, NEW k, MilanSound(k, D), Started(x.itf[p]) => Started(k)
  PROVE  ChangeAt(x, [x EXCEPT !.itf[p] = k], p, D)
<1> DEFINE y == [x EXCEPT !.itf[p] = k]
<1>1. /\ y.on = x.on /\ y.boot = x.boot /\ y.ready = x.ready
      /\ y.delay = x.delay /\ y.reannounce = x.reannounce
      /\ y.itf[p] = k /\ \A q \in Ports : q # p => y.itf[q] = x.itf[q]
  BY DEF EntityStates
<1> HIDE DEF y
<1>2. \A q \in Ports : MilanSound(y.itf[q], D)
  BY <1>1 DEF Sound
<1>3. Sound(y, D)
  BY <1>1, <1>2, MilanEntity
<1>4. ASSUME NEW q \in Ports, q # p PROVE EasedAt(x, y, q, D)
  <2>1. EasedAt(x, x, q, D)
    BY EasedSame DEF Eased
  <2> QED BY <1>1, <1>4, <2>1 DEF EasedAt, Due
<1> QED BY <1>1, <1>3, <1>4 DEF ChangeAt, y

\* Interface p of an IEEE entity changes, and the entity may advertise.
LEMMA IeeeOne ==
  ASSUME cfg \in Configs, ~cfg.milan, NEW x \in EntityStates, NEW y \in EntityStates,
         NEW D \in Nat, Sound(x, D), x.on, NEW p \in Ports,
         y.on = x.on, y.boot = x.boot, y.ready = x.ready,
         Counting(y.st, y.delay, y.reannounce, D),
         Started(x) => /\ Started(y)
                       /\ DueOf(y.st, y.delay, y.reannounce, D)
                            <= DueOf(x.st, x.delay, x.reannounce, D),
         IeeeSound(y.itf[p]), Started(y.itf[p]) <=> Started(x.itf[p]),
         \A q \in Ports : q # p => y.itf[q] = x.itf[q]
  PROVE  /\ ChangeAt(x, y, p, D)
         /\ (x.itf[p].op => y.itf[p].op) => EasedAt(x, y, p, D)
<1>1. \A q \in Ports : IeeeSound(y.itf[q])
  BY DEF Sound
<1>2. \A q \in Ports : Started(y.itf[q]) => Started(x.itf[q]) /\ Started(x) /\ x.ready
  BY DEF Sound
<1>3. Sound(y, D)
  <2>1. \A q \in Ports : Started(y.itf[q]) => y.ready /\ Started(y)
    BY <1>2
  <2> QED BY <1>1, <2>1 DEF Sound
<1>4. \A q \in Ports : Started(x.itf[q]) => Due(y, q, D) <= Due(x, q, D)
  BY DEF Due, Sound
<1>5. ASSUME NEW q \in Ports, q # p PROVE EasedAt(x, y, q, D)
  BY <1>4, <1>5 DEF EasedAt
<1>6. ASSUME x.itf[p].op => y.itf[p].op PROVE EasedAt(x, y, p, D)
  BY <1>4, <1>6 DEF EasedAt
<1> QED BY <1>3, <1>5, <1>6 DEF ChangeAt

LEMMA EventSound ==
  ASSUME cfg \in Configs, NEW x \in EntityStates, NEW D \in Nat, Suits(cfg, D), Sound(x, D),
         x.on, NEW p \in Ports, NEW d \in cfg.delays, NEW event \in {"DISCOVER", "GM_CHANGE"}
  PROVE  LET y == InterfaceEvent(x, p, event, d) IN Sound(y, D) /\ Eased(x, y, D)
<1> DEFINE y == InterfaceEvent(x, p, event, d)
<1>0. d \in Nat /\ d <= D /\ x.itf[p] \in InterfaceStates
  BY DelayFacts DEF EntityStates
<1>1. CASE ~x.ready
  <2>1. y = x
    BY <1>1 DEF InterfaceEvent
  <2> HIDE DEF y
  <2>2. Sound(y, D) /\ Eased(x, y, D)
    BY <2>1, EasedSame
  <2> QED BY <2>2 DEF y
<1>2. CASE x.ready /\ cfg.milan
  <2> DEFINE k == MilanSm(x.itf[p], event, d)
  <2>1. y = [x EXCEPT !.itf[p] = k]
    BY <1>2 DEF InterfaceEvent
  <2>2. MilanSound(x.itf[p], D)
    BY <1>2 DEF Sound
  <2>3. /\ MilanSound(k, D) /\ k.op = x.itf[p].op
        /\ Started(x.itf[p]) =>
             /\ Started(k)
             /\ x.itf[p].op => DueOf(k.st, k.delay, k.adv, D)
                                 <= DueOf(x.itf[p].st, x.itf[p].delay, x.itf[p].adv, D)
    BY <1>0, <2>2, MilanEvent
  <2> HIDE DEF k, y
  <2>4. ChangeAt(x, y, p, D)
    BY <1>2, <2>1, <2>3, MilanOne
  <2>5. EasedAt(x, y, p, D)
    <3>1. y.itf[p] = k
      BY <2>1 DEF EntityStates
    <3> QED BY <1>2, <2>3, <3>1, MilanEased
  <2>6. Eased(x, y, D)
    BY <2>4, <2>5 DEF ChangeAt, Eased
  <2> QED BY <2>4, <2>6 DEF ChangeAt, y
<1>3. CASE x.ready /\ ~cfg.milan
  <2>1. y = IeeeSm(x, p, event, d)
    BY <1>3 DEF InterfaceEvent
  <2>2. CASE x.itf[p].st = "WAITING"
    <3>1. y = IeeeAdvertise(x, d)
      BY <2>1, <2>2 DEF IeeeSm
    <3>2. y \in EntityStates
      BY <1>0, <3>1, IeeeAdvertiseType
    <3>3. Counting(x.st, x.delay, x.reannounce, D) /\ IeeeSound(x.itf[p])
      BY <1>3 DEF Sound
    <3> HIDE DEF y
    <3>4. /\ y.itf = x.itf /\ y.on = x.on /\ y.ready = x.ready /\ y.boot = x.boot
          /\ Counting(y.st, y.delay, y.reannounce, D)
          /\ Started(x) => /\ Started(y)
                           /\ DueOf(y.st, y.delay, y.reannounce, D)
                                <= DueOf(x.st, x.delay, x.reannounce, D)
      BY <1>0, <3>1, <3>3, IeeeAdvertised
    <3>5. ChangeAt(x, y, p, D) /\ EasedAt(x, y, p, D)
      BY <1>3, <3>2, <3>3, <3>4, IeeeOne
    <3>6. Eased(x, y, D)
      BY <3>5 DEF ChangeAt, Eased
    <3> QED BY <3>5, <3>6 DEF ChangeAt, y
  <2>3. CASE x.itf[p].st # "WAITING"
    <3>1. y = x
      BY <2>1, <2>3 DEF IeeeSm
    <3> HIDE DEF y
    <3>2. Sound(y, D) /\ Eased(x, y, D)
      BY <3>1, EasedSame
    <3> QED BY <3>2 DEF y
  <2> QED BY <2>2, <2>3
<1> QED BY <1>1, <1>2, <1>3

\* A link of an interface that is not started only has its state noted.
LEMMA LinkNoted ==
  ASSUME cfg \in Configs, NEW x \in EntityStates, NEW D \in Nat, Sound(x, D), x.on,
         NEW p \in Ports, ~Started(x.itf[p]), NEW up \in BOOLEAN
  PROVE  ChangeAt(x, [x EXCEPT !.itf[p].op = up], p, D)
<1> DEFINE y == [x EXCEPT !.itf[p].op = up]
           k == [x.itf[p] EXCEPT !.op = up]
<1>1. /\ y.on = x.on /\ y.boot = x.boot /\ y.ready = x.ready /\ y.st = x.st
      /\ y.delay = x.delay /\ y.reannounce = x.reannounce
      /\ y.itf[p] = k /\ \A q \in Ports : q # p => y.itf[q] = x.itf[q]
  BY DEF EntityStates
<1>2. k.st = x.itf[p].st /\ k.delay = x.itf[p].delay /\ k.adv = x.itf[p].adv
  BY DEF EntityStates, InterfaceStates
<1> HIDE DEF k, y
<1>3. /\ cfg.milan => MilanSound(k, D)
      /\ ~cfg.milan => IeeeSound(k)
  BY <1>2 DEF Sound, MilanSound, IeeeSound, Started
<1>4. ~Started(y.itf[p])
  BY <1>1, <1>2 DEF Started
<1>5. Started(x) <=> Started(y)
  BY <1>1 DEF Started
<1>6. Sound(y, D)
  BY <1>1, <1>3, <1>4, <1>5 DEF Sound
<1>7. ASSUME NEW q \in Ports, q # p PROVE EasedAt(x, y, q, D)
  <2>1. EasedAt(x, x, q, D)
    BY EasedSame DEF Eased
  <2> QED BY <1>1, <1>7, <2>1 DEF EasedAt, Due
<1> QED BY <1>1, <1>6, <1>7 DEF ChangeAt, y

\* The link of an interface comes up or goes down: the event, then the note.
LEMMA LinkMilan ==
  ASSUME cfg \in Configs, cfg.milan, NEW x \in EntityStates, NEW D \in Nat, Sound(x, D), x.on,
         x.ready, NEW p \in Ports, NEW k \in InterfaceStates, NEW up \in BOOLEAN,
         MilanSound([k EXCEPT !.op = up], D),
         Started(x.itf[p]) => Started([k EXCEPT !.op = up])
  PROVE  ChangeAt(x, [[x EXCEPT !.itf[p] = k] EXCEPT !.itf[p].op = up], p, D)
<1>1. [[x EXCEPT !.itf[p] = k] EXCEPT !.itf[p].op = up]
        = [x EXCEPT !.itf[p] = [k EXCEPT !.op = up]]
  BY DEF EntityStates
<1> DEFINE n == [k EXCEPT !.op = up]
<1>2. MilanSound(n, D) /\ (Started(x.itf[p]) => Started(n))
  OBVIOUS
<1> HIDE DEF n
<1>3. ChangeAt(x, [x EXCEPT !.itf[p] = n], p, D)
  BY <1>2, MilanOne
<1> QED BY <1>1, <1>3 DEF n

LEMMA LinkIeee ==
  ASSUME cfg \in Configs, ~cfg.milan, NEW x \in EntityStates, NEW z \in EntityStates,
         NEW D \in Nat, Sound(x, D), x.on, NEW p \in Ports, NEW up \in BOOLEAN,
         NEW s \in {"WAITING", "LINK_DOWN"}, Started(x.itf[p]),
         s = IF up THEN "WAITING" ELSE "LINK_DOWN",
         z.itf = x.itf, z.on = x.on, z.ready = x.ready, z.boot = x.boot,
         Counting(z.st, z.delay, z.reannounce, D),
         Started(x) => /\ Started(z)
                       /\ DueOf(z.st, z.delay, z.reannounce, D)
                            <= DueOf(x.st, x.delay, x.reannounce, D)
  PROVE  ChangeAt(x, [[z EXCEPT !.itf[p].st = s] EXCEPT !.itf[p].op = up], p, D)
<1> DEFINE y == [[z EXCEPT !.itf[p].st = s] EXCEPT !.itf[p].op = up]
<1>1. y \in EntityStates
  <2>1. [z EXCEPT !.itf[p].st = s] \in EntityStates
    BY SetInterfaceState
  <2> QED BY <2>1, SetLink
<1>2. /\ y.on = x.on /\ y.boot = x.boot /\ y.ready = x.ready
      /\ y.st = z.st /\ y.delay = z.delay /\ y.reannounce = z.reannounce
  BY DEF EntityStates
<1>3. \A q \in Ports : q # p => y.itf[q] = x.itf[q]
  BY DEF EntityStates
<1>4. /\ y.itf[p].st = s /\ y.itf[p].delay = x.itf[p].delay /\ y.itf[p].adv = x.itf[p].adv
  BY DEF EntityStates, InterfaceStates
<1>5. y.itf[p].op = up
  BY DEF EntityStates, InterfaceStates
<1> HIDE DEF y
<1>6. IeeeSound(x.itf[p])
  BY DEF Sound
<1>7. IeeeSound(y.itf[p])
  BY <1>4, <1>5, <1>6 DEF IeeeSound
<1>8. Started(y.itf[p])
  BY <1>4 DEF Started
<1>9. Started(x) => /\ Started(y)
                    /\ DueOf(y.st, y.delay, y.reannounce, D)
                         <= DueOf(x.st, x.delay, x.reannounce, D)
  BY <1>2 DEF Started
<1>10. Counting(y.st, y.delay, y.reannounce, D)
  BY <1>2
<1>11. ChangeAt(x, y, p, D)
  BY <1>1, <1>2, <1>3, <1>7, <1>8, <1>9, <1>10, IeeeOne
<1> QED BY <1>11 DEF y

LEMMA LinkUpSound ==
  ASSUME cfg \in Configs, NEW x \in EntityStates, NEW D \in Nat, Suits(cfg, D), Sound(x, D),
         x.on, NEW p \in Ports, ~x.itf[p].op, NEW d \in cfg.delays
  PROVE  ChangeAt(x, [InterfaceEvent(x, p, "LINK_UP", d) EXCEPT !.itf[p].op = TRUE], p, D)
<1>0. d \in Nat /\ d <= D /\ x.itf[p] \in InterfaceStates
  BY DelayFacts DEF EntityStates
<1>1. CASE InterfaceEvent(x, p, "LINK_UP", d) = x /\ ~Started(x.itf[p])
  BY <1>1, LinkNoted
<1>2. CASE ~x.ready
  BY <1>1, <1>2 DEF InterfaceEvent, Sound
<1>3. CASE x.ready /\ cfg.milan
  <2> DEFINE k == MilanSm(x.itf[p], "LINK_UP", d)
  <2>1. InterfaceEvent(x, p, "LINK_UP", d) = [x EXCEPT !.itf[p] = k]
    BY <1>3 DEF InterfaceEvent
  <2>2. k \in InterfaceStates
    BY <1>0, MilanSmType
  <2>3. MilanSound(x.itf[p], D)
    BY <1>3 DEF Sound
  <2>4. MilanSound([k EXCEPT !.op = TRUE], D)
        /\ (Started(x.itf[p]) => Started([k EXCEPT !.op = TRUE]))
    BY <1>0, <2>3, MilanUp
  <2> HIDE DEF k
  <2> QED BY <1>3, <2>1, <2>2, <2>4, LinkMilan
<1>4. CASE x.ready /\ ~cfg.milan
  <2>1. InterfaceEvent(x, p, "LINK_UP", d) = IeeeSm(x, p, "LINK_UP", d)
    BY <1>4 DEF InterfaceEvent
  <2>2. CASE ~Started(x.itf[p])
    <3>1. IeeeSm(x, p, "LINK_UP", d) = x
      BY <2>2 DEF IeeeSm, Started
    <3> QED BY <1>1, <2>1, <2>2, <3>1
  <2>3. CASE Started(x.itf[p])
    <3> DEFINE z == IeeeAdvertise(x, d)
    <3>1. x.itf[p].st = "LINK_DOWN" /\ Counting(x.st, x.delay, x.reannounce, D)
      BY <1>4, <2>3 DEF Sound, IeeeSound
    <3>2. IeeeSm(x, p, "LINK_UP", d) = [z EXCEPT !.itf[p].st = "WAITING"]
      BY <3>1 DEF IeeeSm
    <3>3. z \in EntityStates
      BY <1>0, IeeeAdvertiseType
    <3>4. /\ z.itf = x.itf /\ z.on = x.on /\ z.ready = x.ready /\ z.boot = x.boot
          /\ Counting(z.st, z.delay, z.reannounce, D)
          /\ Started(x) => /\ Started(z)
                           /\ DueOf(z.st, z.delay, z.reannounce, D)
                                <= DueOf(x.st, x.delay, x.reannounce, D)
      BY <1>0, <3>1, IeeeAdvertised
    <3> HIDE DEF z
    <3>5. TRUE \in BOOLEAN /\ "WAITING" = IF TRUE THEN "WAITING" ELSE "LINK_DOWN"
      OBVIOUS
    <3>6. ChangeAt(x, [[z EXCEPT !.itf[p].st = "WAITING"] EXCEPT !.itf[p].op = TRUE], p, D)
      BY <1>4, <2>3, <3>3, <3>4, <3>5, LinkIeee
    <3> QED BY <2>1, <3>2, <3>6
  <2> QED BY <2>2, <2>3
<1> QED BY <1>2, <1>3, <1>4

LEMMA LinkDownSound ==
  ASSUME cfg \in Configs, NEW x \in EntityStates, NEW D \in Nat, Suits(cfg, D), Sound(x, D),
         x.on, NEW p \in Ports, x.itf[p].op, NEW d \in cfg.delays
  PROVE  ChangeAt(x, [InterfaceEvent(x, p, "LINK_DOWN", d) EXCEPT !.itf[p].op = FALSE], p, D)
<1>0. d \in Nat /\ d <= D /\ x.itf[p] \in InterfaceStates
  BY DelayFacts DEF EntityStates
<1>1. CASE InterfaceEvent(x, p, "LINK_DOWN", d) = x /\ ~Started(x.itf[p])
  BY <1>1, LinkNoted
<1>2. CASE ~x.ready
  BY <1>1, <1>2 DEF InterfaceEvent, Sound
<1>3. CASE x.ready /\ cfg.milan
  <2> DEFINE k == MilanSm(x.itf[p], "LINK_DOWN", d)
  <2>1. InterfaceEvent(x, p, "LINK_DOWN", d) = [x EXCEPT !.itf[p] = k]
    BY <1>3 DEF InterfaceEvent
  <2>2. k \in InterfaceStates
    BY <1>0, MilanSmType
  <2>3. MilanSound(x.itf[p], D)
    BY <1>3 DEF Sound
  <2>4. MilanSound([k EXCEPT !.op = FALSE], D)
        /\ (Started(x.itf[p]) => Started([k EXCEPT !.op = FALSE]))
    BY <1>0, <2>3, MilanDown
  <2> HIDE DEF k
  <2> QED BY <1>3, <2>1, <2>2, <2>4, LinkMilan
<1>4. CASE x.ready /\ ~cfg.milan
  <2>1. InterfaceEvent(x, p, "LINK_DOWN", d) = IeeeSm(x, p, "LINK_DOWN", d)
    BY <1>4 DEF InterfaceEvent
  <2>2. CASE ~Started(x.itf[p])
    <3>1. IeeeSm(x, p, "LINK_DOWN", d) = x
      BY <2>2 DEF IeeeSm, Started
    <3> QED BY <1>1, <2>1, <2>2, <3>1
  <2>3. CASE Started(x.itf[p])
    <3>1. x.itf[p].st = "WAITING" /\ Counting(x.st, x.delay, x.reannounce, D)
      BY <1>4, <2>3 DEF Sound, IeeeSound
    <3>2. IeeeSm(x, p, "LINK_DOWN", d) = [x EXCEPT !.itf[p].st = "LINK_DOWN"]
      BY <3>1 DEF IeeeSm
    <3>3. Started(x) => DueOf(x.st, x.delay, x.reannounce, D)
                          <= DueOf(x.st, x.delay, x.reannounce, D)
      <4>1. Due(x, p, D) \in Nat /\ Due(x, p, D) = DueOf(x.st, x.delay, x.reannounce, D)
        BY <1>4, <2>3, DueFacts DEF Due
      <4> QED BY <4>1
    <3>4. FALSE \in BOOLEAN /\ "LINK_DOWN" = IF FALSE THEN "WAITING" ELSE "LINK_DOWN"
      OBVIOUS
    <3>5. ChangeAt(x, [[x EXCEPT !.itf[p].st = "LINK_DOWN"] EXCEPT !.itf[p].op = FALSE], p, D)
      BY <1>4, <2>3, <3>1, <3>3, <3>4, LinkIeee
    <3> QED BY <2>1, <3>2, <3>5
  <2> QED BY <2>2, <2>3
<1> QED BY <1>2, <1>3, <1>4


\* Another grandmaster by itself changes no timer.
LEMMA GmSound ==
  ASSUME cfg \in Configs, NEW x \in EntityStates, NEW D \in Nat, Sound(x, D), x.on,
         NEW p \in Ports, NEW g
  PROVE  LET y == [x EXCEPT !.itf[p].gm = g] IN Sound(y, D) /\ Eased(x, y, D)
<1> DEFINE y == [x EXCEPT !.itf[p].gm = g]
<1>1. /\ y.on = x.on /\ y.boot = x.boot /\ y.ready = x.ready /\ y.st = x.st
      /\ y.delay = x.delay /\ y.reannounce = x.reannounce
  BY DEF EntityStates
<1>2. \A q \in Ports : /\ y.itf[q].st = x.itf[q].st /\ y.itf[q].delay = x.itf[q].delay
                       /\ y.itf[q].adv = x.itf[q].adv
  BY DEF EntityStates, InterfaceStates
<1>3. \A q \in Ports : y.itf[q].op = x.itf[q].op
  BY DEF EntityStates, InterfaceStates
<1> HIDE DEF y
<1>4. Sound(y, D)
  <2>1. \A q \in Ports : /\ MilanSound(y.itf[q], D) <=> MilanSound(x.itf[q], D)
                         /\ IeeeSound(y.itf[q]) <=> IeeeSound(x.itf[q])
                         /\ Started(y.itf[q]) <=> Started(x.itf[q])
    BY <1>2, <1>3 DEF MilanSound, IeeeSound, Started
  <2> QED BY <1>1, <2>1 DEF Sound, Started
<1>5. ASSUME NEW q \in Ports PROVE EasedAt(x, y, q, D)
  <2>1. EasedAt(x, x, q, D)
    BY EasedSame DEF Eased
  <2> QED BY <1>1, <1>2, <1>3, <2>1 DEF EasedAt, Due, Started
<1> QED BY <1>1, <1>4, <1>5 DEF Eased, y

\* An application connects.
LEMMA ReadySound ==
  ASSUME cfg \in Configs, NEW x \in EntityStates, NEW D \in Nat, Sound(x, D), x.on
  PROVE  LET y == [x EXCEPT !.ready = TRUE] IN Sound(y, D) /\ Eased(x, y, D)
<1> DEFINE y == [x EXCEPT !.ready = TRUE]
<1>1. /\ y.on = x.on /\ y.boot = x.boot /\ y.ready /\ y.st = x.st
      /\ y.delay = x.delay /\ y.reannounce = x.reannounce /\ y.itf = x.itf
  BY DEF EntityStates
<1> HIDE DEF y
<1>4. Sound(y, D)
  BY <1>1 DEF Sound, Started
<1>5. ASSUME NEW q \in Ports PROVE EasedAt(x, y, q, D)
  <2>1. EasedAt(x, x, q, D)
    BY EasedSame DEF Eased
  <2> QED BY <1>1, <2>1 DEF EasedAt, Due, Started
<1> QED BY <1>1, <1>4, <1>5 DEF Eased, y

\* The interval is over: the delay follows, which the time due allows for.
LEMMA MilanIntervalSound ==
  ASSUME cfg \in Configs, NEW x \in EntityStates, NEW D \in Nat, Suits(cfg, D), Sound(x, D),
         x.on, NEW p \in Ports, x.itf[p].adv = 0, NEW d \in cfg.delays
  PROVE  LET y == [x EXCEPT !.itf[p] = MilanSm([@ EXCEPT !.adv = Off], "TMR_ADVERTISE", d)]
         IN  Sound(y, D) /\ Eased(x, y, D)
<1> DEFINE i == x.itf[p]
           k == MilanSm([x.itf[p] EXCEPT !.adv = Off], "TMR_ADVERTISE", d)
           y == [x EXCEPT !.itf[p] = k]
<1>0. d \in Nat /\ d <= D /\ i \in InterfaceStates
  BY DelayFacts DEF EntityStates
<1>1. cfg.milan
  BY DEF Sound, IeeeSound, Off
<1>2. MilanSound(i, D) /\ i.st = "WAITING" /\ i.delay = Off /\ x.ready
  BY <1>1 DEF Sound, MilanSound, Counting, Off, Started
<1>3. k = MilanDelay([i EXCEPT !.adv = Off], d)
  BY <1>0, <1>2 DEF MilanSm, InterfaceStates
<1>4. k.st = "DELAY" /\ k.adv = Off /\ k.delay = d
  BY <1>0, <1>2, <1>3 DEF MilanDelay, Start, InterfaceStates
<1>5. k.op = i.op
  BY <1>0, <1>2, <1>3 DEF MilanDelay, Start, InterfaceStates
<1>6. y = [x EXCEPT !.itf[p] = MilanSm([@ EXCEPT !.adv = Off], "TMR_ADVERTISE", d)]
  BY DEF EntityStates
<1>7. y.itf[p] = k
  BY DEF EntityStates
<1> HIDE DEF k
<1>8. MilanSound(k, D) /\ Started(k)
  <2>1. Counting(k.st, k.delay, k.adv, D)
    BY <1>0, <1>4 DEF Counting, Off
  <2>2. i.op
    BY <1>2 DEF MilanSound, Started
  <2> QED BY <1>4, <1>5, <2>1, <2>2 DEF MilanSound, Started
<1>9. ChangeAt(x, y, p, D)
  BY <1>1, <1>2, <1>8, MilanOne
<1>10. DueOf(k.st, k.delay, k.adv, D) <= DueOf(i.st, i.delay, i.adv, D)
  BY <1>0, <1>2, <1>4 DEF DueOf
<1> HIDE DEF y
<1>11. EasedAt(x, y, p, D)
  BY <1>1, <1>5, <1>7, <1>8, <1>10, MilanEased
<1>12. Sound(y, D) /\ Eased(x, y, D)
  BY <1>9, <1>11 DEF ChangeAt, Eased
<1> QED BY <1>6, <1>12

LEMMA IeeeIntervalSound ==
  ASSUME cfg \in Configs, NEW x \in EntityStates, NEW D \in Nat, Suits(cfg, D), Sound(x, D),
         x.on, x.reannounce = 0, NEW d \in cfg.delays
  PROVE  LET y == IeeeAdvertise(x, d) IN Sound(y, D) /\ Eased(x, y, D)
<1> DEFINE y == IeeeAdvertise(x, d)
<1>0. d \in Nat /\ d <= D
  BY DelayFacts
<1>1. ~cfg.milan
  BY DEF Sound, Off
<1>2. Counting(x.st, x.delay, x.reannounce, D)
  BY <1>1 DEF Sound
<1>3. y \in EntityStates
  BY <1>0, IeeeAdvertiseType
<1>4. /\ y.itf = x.itf /\ y.on = x.on /\ y.ready = x.ready /\ y.boot = x.boot
      /\ Counting(y.st, y.delay, y.reannounce, D)
      /\ Started(x) => /\ Started(y)
                       /\ DueOf(y.st, y.delay, y.reannounce, D)
                            <= DueOf(x.st, x.delay, x.reannounce, D)
  BY <1>0, <1>2, IeeeAdvertised
<1> HIDE DEF y
<1>5. ASSUME NEW q \in Ports PROVE ChangeAt(x, y, q, D) /\ EasedAt(x, y, q, D)
  <2>1. IeeeSound(y.itf[q])
    BY <1>1, <1>4 DEF Sound
  <2> QED BY <1>1, <1>3, <1>4, <2>1, IeeeOne
<1>6. Eased(x, y, D)
  BY <1>4, <1>5 DEF Eased
<1>7. Sound(y, D)
  BY <1>1, <1>4 DEF Sound
<1> QED BY <1>6, <1>7 DEF y


-----------------------------------------------------------------------------
(* The invariant, from its parts and step by step.                         *)

LEMMA ToleranceFacts ==
  ASSUME cfg \in Configs, NEW D \in Nat, Suits(cfg, D)
  PROVE  /\ cfg.tolerates \in {0, 1} /\ cfg.interval \in Nat \ {0} /\ cfg.valid \in Nat
         /\ cfg.valid > cfg.interval + D
         /\ cfg.tolerates = 1 => cfg.valid > (cfg.interval + D) + (cfg.interval + D)
<1>1. cfg.tolerates \in Nat /\ cfg.interval \in Nat \ {0} /\ cfg.valid \in Nat
  BY ADPAssumption
<1>2. cfg.tolerates \in {0, 1}
  BY <1>1 DEF Suits, Many
<1>3. CASE cfg.tolerates = 0
  <2>1. (cfg.tolerates + 1) * (cfg.interval + D) = cfg.interval + D
    BY <1>1, <1>3
  <2> QED BY <1>1, <1>2, <1>3, <2>1 DEF Suits
<1>4. CASE cfg.tolerates = 1
  <2>1. (cfg.tolerates + 1) * (cfg.interval + D) = (cfg.interval + D) + (cfg.interval + D)
    BY <1>1, <1>4
  <2> QED BY <1>1, <1>2, <1>4, <2>1 DEF Suits
<1> QED BY <1>2, <1>3, <1>4

\* What the entry in slot i of port p has to be after a step.
LivesNext(p, i, D) ==
    LET e == disc'[p][i].info.entity
    IN  disc'[p][i].used =>
          Outlives(disc'[p][i].timeout, chan'[p], e, ent'[e], p, missed'[e][p], D)

LEMMA ExpiryFrom ==
  ASSUME NEW D \in Nat, cfg' = cfg, SlotsUsed', \A e \in Entities : Sound(ent'[e], D),
         \A p \in Ports : \A j \in 1 .. Len(chan'[p]) : SentOK(chan[p][j], p)',
         \A e \in Entities, p \in Ports : HeardOK(e, p)',
         \A p \in Ports, i \in Slots : LivesNext(p, i, D)
  PROVE  ExpiryInv(D)'
<1>1. \A e \in Entities : Sound(ent[e], D)'
  BY DEF Sound, Counting, MilanSound, IeeeSound, Started
<1>2. ASSUME NEW p \in Ports, NEW i \in Slots PROVE Lives(p, i, D)'
  <2>1. LivesNext(p, i, D)
    OBVIOUS
  <2> QED BY <2>1 DEF LivesNext, Lives, Outlives, Due, DueOf, NoCurrent, OneCurrent, Current
<1> QED BY <1>1, <1>2 DEF ExpiryInv

\* An advertisement that is due earlier does an entry no harm.
LEMMA OutlivesEased ==
  ASSUME cfg \in Configs, NEW D \in Nat, Suits(cfg, D), NEW x \in EntityStates,
         NEW y \in EntityStates, Sound(x, D), Sound(y, D), y.boot = x.boot, NEW p \in Ports,
         Started(x.itf[p]), x.itf[p].op, EasedAt(x, y, p, D),
         NEW t \in TimerValues, NEW n, NEW c, NEW e, Outlives(t, c, e, x, p, n, D)
  PROVE  Outlives(t, c, e, y, p, n, D)
<1>1. Due(x, p, D) \in Nat /\ Due(y, p, D) \in Nat /\ Due(y, p, D) <= Due(x, p, D)
  BY DueFacts DEF EasedAt
<1>2. t \in Int /\ cfg.interval \in Nat
  BY ToleranceFacts DEF TimerValues, Off
<1> QED BY <1>1, <1>2 DEF Outlives

\* What an invariant state says of an entry in use that may not expire.
LEMMA EntryFacts ==
  ASSUME Inv, NEW D \in Nat, Suits(cfg, D), ExpiryInv(D), NEW p \in Ports, NEW i \in Slots,
         disc[p][i].used
  PROVE  LET e == disc[p][i].info.entity
         IN  /\ e \in Entities /\ disc[p][i].timeout \in TimerValues
             /\ ent[e] \in EntityStates /\ Sound(ent[e], D)
             /\ chan[p] \in Seq(Messages) /\ missed[e][p] \in 0 .. Many
             /\ running /\ i \in cfg.slots
             /\ Outlives(disc[p][i].timeout, chan[p], e, ent[e], p, missed[e][p], D)
             /\ missed[e][p] <= cfg.tolerates =>
                  /\ e \in cfg.entities /\ p \in cfg.ports
                  /\ ent[e].itf[p].op /\ Started(ent[e].itf[p])
<1> DEFINE e == disc[p][i].info.entity
<1>1. cfg \in Configs /\ disc[p] \in [Slots -> Entries]
  BY DEF Inv, TypeOK
<1>2. running /\ i \in cfg.slots
  BY DEF ExpiryInv, SlotsUsed
<1>3. e \in Entities
  BY <1>2 DEF Inv, GoodList
<1>4. disc[p][i].timeout \in TimerValues
  BY <1>1 DEF Entries
<1>5. ent[e] \in EntityStates /\ chan[p] \in Seq(Messages) /\ missed[e][p] \in 0 .. Many
  BY <1>3 DEF Inv, TypeOK
<1>6. Sound(ent[e], D) /\ HeardOK(e, p) /\ Lives(p, i, D)
  BY <1>3 DEF ExpiryInv
<1>7. Outlives(disc[p][i].timeout, chan[p], e, ent[e], p, missed[e][p], D)
  BY <1>6 DEF Lives
<1> HIDE DEF e
<1>8. missed[e][p] <= cfg.tolerates => missed[e][p] < Many
  BY <1>1, <1>5, ToleranceFacts DEF Many
<1>9. missed[e][p] <= cfg.tolerates => /\ e \in cfg.entities /\ p \in cfg.ports
                                       /\ ent[e].itf[p].op /\ Started(ent[e].itf[p])
  BY <1>6, <1>8 DEF HeardOK
<1> QED BY <1>2, <1>3, <1>4, <1>5, <1>6, <1>7, <1>9 DEF e


\* One entity changes, and nothing was sent.
LEMMA EntityExpiry ==
  ASSUME Inv, NEW D \in Nat, Suits(cfg, D), ExpiryInv(D), NEW e \in Entities,
         NEW y \in EntityStates, ent' = [ent EXCEPT ![e] = y],
         Sound(y, D), y.on = ent[e].on, y.boot = ent[e].boot,
         \A q \in Ports : Started(ent[e].itf[q]) => Started(y.itf[q]),
         \A f \in Entities, q \in Ports :
            missed'[f][q] = missed[f][q] \/ missed'[f][q] = Many,
         \A q \in Ports : missed'[e][q] < Many => EasedAt(ent[e], y, q, D),
         UNCHANGED <<cfg, disc, chan, running>>
  PROVE  ExpiryInv(D)'
<1>1. cfg' = cfg /\ disc' = disc /\ chan' = chan /\ running' = running
  OBVIOUS
<1>2. cfg \in Configs /\ ent[e] \in EntityStates /\ Sound(ent[e], D)
  BY DEF Inv, TypeOK, ExpiryInv
<1>3. ent'[e] = y /\ \A f \in Entities : f # e => ent'[f] = ent[f]
  BY DEF Inv, TypeOK
<1>4. \A f \in Entities : Sound(ent'[f], D)
  BY <1>3 DEF ExpiryInv
<1>5. SlotsUsed'
  BY <1>1 DEF SlotsUsed, ExpiryInv
<1>6. \A f \in Entities : /\ ent'[f].on = ent[f].on /\ ent'[f].boot = ent[f].boot
                          /\ \A q \in Ports : Started(ent[f].itf[q]) => Started(ent'[f].itf[q])
  BY <1>3
<1>7. ASSUME NEW p \in Ports, NEW j \in 1 .. Len(chan'[p]) PROVE SentOK(chan[p][j], p)'
  <2>1. SentOK(chan[p][j], p) /\ chan[p] \in Seq(Messages)
    BY <1>1, <1>7 DEF ExpiryInv, Inv, TypeOK
  <2>2. chan[p][j] \in Messages /\ chan'[p] = chan[p]
    BY <1>1, <1>7, <2>1
  <2>3. PICK m \in Messages : m = chan[p][j]
    BY <2>2
  <2>4. SentOK(m, p) /\ m.entity \in Entities /\ chan'[p][j] = m
    BY <2>1, <2>2, <2>3 DEF Messages
  <2> QED BY <1>1, <1>6, <2>4 DEF SentOK, Started
<1>8. ASSUME NEW f \in Entities, NEW q \in Ports PROVE HeardOK(f, q)'
  <2>1. HeardOK(f, q)
    BY DEF ExpiryInv
  <2>2. SUFFICES ASSUME missed'[f][q] < Many
                 PROVE  /\ f \in cfg.entities /\ q \in cfg.ports
                        /\ ent'[f].itf[q].op /\ Started(ent'[f].itf[q])
    BY <1>1 DEF HeardOK, Started
  <2>3. missed[f][q] < Many
    BY <2>2 DEF Many
  <2>4. /\ f \in cfg.entities /\ q \in cfg.ports
        /\ ent[f].itf[q].op /\ Started(ent[f].itf[q])
    BY <2>1, <2>3 DEF HeardOK
  <2>5. CASE f = e
    BY <1>3, <2>2, <2>4, <2>5 DEF EasedAt
  <2>6. CASE f # e
    BY <1>3, <2>4, <2>6
  <2> QED BY <2>5, <2>6
<1>9. ASSUME NEW p \in Ports, NEW i \in Slots PROVE LivesNext(p, i, D)
  <2>1. SUFFICES ASSUME disc[p][i].used
                 PROVE  LET f == disc[p][i].info.entity
                        IN  Outlives(disc[p][i].timeout, chan[p], f, ent'[f], p, missed'[f][p], D)
    BY <1>1 DEF LivesNext
  <2>2. PICK f \in Entities, t \in TimerValues, n \in 0 .. Many :
           /\ f = disc[p][i].info.entity /\ t = disc[p][i].timeout /\ n = missed[f][p]
           /\ Outlives(t, chan[p], f, ent[f], p, n, D)
           /\ n <= cfg.tolerates => ent[f].itf[p].op /\ Started(ent[f].itf[p])
    BY <2>1, EntryFacts
  <2>3. CASE missed'[f][p] = Many
    <3>1. ~(missed'[f][p] <= cfg.tolerates)
      BY <1>2, <2>3, ToleranceFacts DEF Many
    <3> QED BY <2>2, <3>1 DEF Outlives
  <2>4. CASE missed'[f][p] = n /\ n < Many
    <3>1. CASE ~(n <= cfg.tolerates)
      BY <2>2, <2>4, <3>1 DEF Outlives
    <3>2. CASE n <= cfg.tolerates /\ f # e
      BY <1>3, <2>2, <2>4, <3>2
    <3>3. CASE n <= cfg.tolerates /\ f = e
      <4>1. EasedAt(ent[e], y, p, D)
        BY <2>4, <3>3
      <4>2. Outlives(t, chan[p], e, y, p, n, D)
        BY <1>2, <2>2, <3>3, <4>1, OutlivesEased
      <4> QED BY <1>3, <2>2, <2>4, <3>3, <4>2
    <3> QED BY <3>1, <3>2, <3>3
  <2>5. missed'[f][p] = Many \/ (missed'[f][p] = n /\ n < Many)
    <3>1. n = Many \/ n < Many
      BY DEF Many
    <3>2. missed'[f][p] = Many \/ missed'[f][p] = n
      BY <2>2
    <3> QED BY <3>1, <3>2
  <2> QED BY <2>3, <2>4, <2>5
<1> QED BY <1>1, <1>4, <1>5, <1>7, <1>8, <1>9, ExpiryFrom

LEMMA EasedExpiry ==
  ASSUME Inv, NEW D \in Nat, Suits(cfg, D), ExpiryInv(D), NEW e \in Entities,
         NEW y \in EntityStates, ent' = [ent EXCEPT ![e] = y], Sound(y, D), Eased(ent[e], y, D),
         UNCHANGED <<cfg, disc, chan, running, missed>>
  PROVE  ExpiryInv(D)'
<1>1. \A q \in Ports : EasedAt(ent[e], y, q, D)
  BY DEF Eased
<1>2. \A q \in Ports : Started(ent[e].itf[q]) => Started(y.itf[q])
  BY <1>1 DEF EasedAt
<1> QED BY <1>1, <1>2, EntityExpiry DEF Eased


LEMMA HeartbeatExpiry ==
  ASSUME Inv, NEW D \in Nat, Suits(cfg, D), ExpiryInv(D), NEW e \in cfg.entities, Heartbeat(e)
  PROVE  ExpiryInv(D)'
<1>1. /\ cfg \in Configs /\ ent[e] \in EntityStates /\ e \in Entities /\ Sound(ent[e], D)
      /\ ent[e].on
  BY ConfigFacts DEF Inv, TypeOK, ExpiryInv, Heartbeat
<1>2. PICK y \in Updated([ent[e] EXCEPT !.ready = TRUE]) : ent' = [ent EXCEPT ![e] = y]
  BY DEF Heartbeat
<1>3. PICK x : x = [ent[e] EXCEPT !.ready = TRUE]
  OBVIOUS
<1>4. x \in EntityStates /\ x.on = ent[e].on
  BY <1>1, <1>3 DEF EntityStates
<1>5. Sound(x, D) /\ Eased(ent[e], x, D)
  BY <1>1, <1>3, ReadySound
<1>6. y \in EntityStates
  BY <1>1, <1>2, <1>3, <1>4, UpdatedType
<1>7. Sound(y, D) /\ Eased(x, y, D)
  BY <1>1, <1>2, <1>3, <1>4, <1>5, UpdatedSound
<1>8. Eased(ent[e], y, D)
  BY <1>1, <1>4, <1>5, <1>6, <1>7, EasedTwice
<1>9. UNCHANGED <<cfg, disc, chan, running, missed>>
  BY DEF Heartbeat
<1> QED BY <1>1, <1>2, <1>6, <1>7, <1>8, <1>9, EasedExpiry

LEMMA GmStatusExpiry ==
  ASSUME Inv, NEW D \in Nat, Suits(cfg, D), ExpiryInv(D), NEW e \in cfg.entities,
         NEW p \in cfg.ports, NEW g \in cfg.gms, GmStatus(e, p, g)
  PROVE  ExpiryInv(D)'
<1>1. /\ cfg \in Configs /\ ent[e] \in EntityStates /\ e \in Entities /\ p \in Ports
      /\ Sound(ent[e], D) /\ g \in Nat
  BY ConfigFacts DEF Inv, TypeOK, ExpiryInv
<1>2. ent[e].on /\ UNCHANGED <<cfg, disc, chan, running, missed>>
  BY DEF GmStatus
<1>3. PICK y \in Updated([ent[e] EXCEPT !.itf[p].gm = g]), d \in cfg.delays :
        ent' = [ent EXCEPT ![e] = InterfaceEvent(y, p, "GM_CHANGE", d)]
  BY DEF GmStatus
<1>4. PICK x : x = [ent[e] EXCEPT !.itf[p].gm = g]
  OBVIOUS
<1>5. x \in EntityStates /\ x.on = ent[e].on
  BY <1>1, <1>4 DEF EntityStates, InterfaceStates
<1>6. Sound(x, D) /\ Eased(ent[e], x, D)
  BY <1>1, <1>2, <1>4, GmSound
<1>7. y \in EntityStates
  BY <1>1, <1>3, <1>4, <1>5, UpdatedType
<1>8. Sound(y, D) /\ Eased(x, y, D)
  BY <1>1, <1>2, <1>3, <1>4, <1>5, <1>6, UpdatedSound
<1>9. y.on
  BY <1>2, <1>5, <1>8 DEF Eased
<1>10. PICK z : z = InterfaceEvent(y, p, "GM_CHANGE", d)
  OBVIOUS
<1>11. d \in Nat
  BY <1>1, <1>3, ConfigFacts
<1>12. z \in EntityStates
  BY <1>1, <1>7, <1>10, <1>11, InterfaceEventType
<1>13. Sound(z, D) /\ Eased(y, z, D)
  BY <1>1, <1>3, <1>7, <1>8, <1>9, <1>10, EventSound
<1>14. Eased(ent[e], y, D)
  BY <1>1, <1>5, <1>6, <1>7, <1>8, EasedTwice
<1>15. Eased(ent[e], z, D)
  BY <1>1, <1>7, <1>8, <1>12, <1>13, <1>14, EasedTwice
<1>16. ent' = [ent EXCEPT ![e] = z]
  BY <1>3, <1>10
<1> QED BY <1>1, <1>2, <1>12, <1>13, <1>15, <1>16, EasedExpiry

LEMMA DiscoverRcvExpiry ==
  ASSUME Inv, NEW D \in Nat, Suits(cfg, D), ExpiryInv(D), NEW e \in cfg.entities,
         NEW p \in cfg.ports, DiscoverRcv(e, p)
  PROVE  ExpiryInv(D)'
<1>1. /\ cfg \in Configs /\ ent[e] \in EntityStates /\ e \in Entities /\ p \in Ports
      /\ Sound(ent[e], D) /\ ent \in [Entities -> EntityStates]
  BY ConfigFacts DEF Inv, TypeOK, ExpiryInv
<1>2. UNCHANGED <<cfg, disc, chan, running, missed>>
  BY DEF DiscoverRcv
<1>3. PICK d \in cfg.delays : ent' = [ent EXCEPT ![e] = InterfaceEvent(ent[e], p, "DISCOVER", d)]
  BY <1>1 DEF DiscoverRcv
<1>4. PICK z : z = InterfaceEvent(ent[e], p, "DISCOVER", d)
  OBVIOUS
<1>5. d \in Nat
  BY <1>1, <1>3, ConfigFacts
<1>6. z \in EntityStates
  BY <1>1, <1>4, <1>5, InterfaceEventType
<1>7. Sound(z, D) /\ Eased(ent[e], z, D)
  <2>1. CASE ent[e].on
    BY <1>1, <1>3, <1>4, <2>1, EventSound
  <2>2. CASE ~ent[e].on
    <3>1. ~ent[e].ready
      BY <1>1, <2>2 DEF Sound, NewEntity
    <3>2. z = ent[e]
      BY <1>4, <3>1 DEF InterfaceEvent
    <3> QED BY <1>1, <3>2, EasedSame
  <2> QED BY <2>1, <2>2
<1>8. ent' = [ent EXCEPT ![e] = z]
  BY <1>3, <1>4
<1> QED BY <1>1, <1>2, <1>6, <1>7, <1>8, EasedExpiry

LEMMA IntervalExpiry ==
  ASSUME Inv, NEW D \in Nat, Suits(cfg, D), ExpiryInv(D), NEW e \in cfg.entities
  PROVE  /\ IeeeReannounceTimeout(e) => ExpiryInv(D)'
         /\ \A p \in cfg.ports : MilanAdvertiseTimeout(e, p) => ExpiryInv(D)'
<1>1. /\ cfg \in Configs /\ ent[e] \in EntityStates /\ e \in Entities
      /\ Sound(ent[e], D) /\ ent \in [Entities -> EntityStates]
  BY ConfigFacts DEF Inv, TypeOK, ExpiryInv
<1>2. ASSUME IeeeReannounceTimeout(e) PROVE ExpiryInv(D)'
  <2>1. PICK d \in cfg.delays : ent' = [ent EXCEPT ![e] = IeeeAdvertise(ent[e], d)]
    BY <1>1, <1>2 DEF IeeeReannounceTimeout
  <2>2. ent[e].reannounce = 0 /\ UNCHANGED <<cfg, disc, chan, running, missed>>
    BY <1>2 DEF IeeeReannounceTimeout
  <2>3. ent[e].on
    BY <1>1, <2>2 DEF Sound, NewEntity, Off
  <2>4. PICK z : z = IeeeAdvertise(ent[e], d)
    OBVIOUS
  <2>5. z \in EntityStates
    BY <1>1, <2>1, <2>4, ConfigFacts, IeeeAdvertiseType
  <2>6. Sound(z, D) /\ Eased(ent[e], z, D)
    BY <1>1, <2>1, <2>2, <2>3, <2>4, IeeeIntervalSound
  <2>7. ent' = [ent EXCEPT ![e] = z]
    BY <2>1, <2>4
  <2> QED BY <1>1, <2>2, <2>5, <2>6, <2>7, EasedExpiry
<1>3. ASSUME NEW p \in cfg.ports, MilanAdvertiseTimeout(e, p) PROVE ExpiryInv(D)'
  <2>0. p \in Ports
    BY <1>1, ConfigFacts
  <2>1. PICK d \in cfg.delays :
           ent' = [ent EXCEPT ![e].itf[p] =
                      MilanSm([@ EXCEPT !.adv = Off], "TMR_ADVERTISE", d)]
    BY <1>3 DEF MilanAdvertiseTimeout
  <2>2. ent[e].itf[p].adv = 0 /\ UNCHANGED <<cfg, disc, chan, running, missed>>
    BY <1>3 DEF MilanAdvertiseTimeout
  <2>3. ent[e].on
    BY <1>1, <2>0, <2>2 DEF Sound, NewEntity, NewInterface, Off
  <2>4. PICK z : z = [ent[e] EXCEPT !.itf[p] =
                        MilanSm([@ EXCEPT !.adv = Off], "TMR_ADVERTISE", d)]
    OBVIOUS
  <2>5. z \in EntityStates
    <3>1. ent[e].itf[p] \in InterfaceStates
      BY <1>1, <2>0 DEF EntityStates
    <3>2. [ent[e].itf[p] EXCEPT !.adv = Off] \in InterfaceStates
      BY <3>1, OffType DEF InterfaceStates
    <3>3. d \in Nat
      BY <1>1, <2>1, ConfigFacts
    <3>4. MilanSm([ent[e].itf[p] EXCEPT !.adv = Off], "TMR_ADVERTISE", d) \in InterfaceStates
      BY <3>2, <3>3, MilanSmType
    <3> QED BY <1>1, <2>0, <2>4, <3>4, SetInterface
  <2>6. Sound(z, D) /\ Eased(ent[e], z, D)
    BY <1>1, <2>0, <2>1, <2>2, <2>3, <2>4, MilanIntervalSound
  <2>7. ent' = [ent EXCEPT ![e] = z]
    BY <1>1, <2>1, <2>4
  <2> QED BY <1>1, <2>2, <2>5, <2>6, <2>7, EasedExpiry
<1> QED BY <1>2, <1>3

\* A link changes; when it goes down the frames of the interface are missed.
LEMMA LinkExpiry ==
  ASSUME Inv, NEW D \in Nat, Suits(cfg, D), ExpiryInv(D), NEW e \in cfg.entities,
         NEW p \in cfg.ports
  PROVE  (PortUp(e, p) => ExpiryInv(D)') /\ (PortDown(e, p) => ExpiryInv(D)')
<1>1. /\ cfg \in Configs /\ ent[e] \in EntityStates /\ e \in Entities /\ p \in Ports
      /\ Sound(ent[e], D) /\ missed \in [Entities -> [Ports -> 0 .. Many]]
  BY ConfigFacts DEF Inv, TypeOK, ExpiryInv
<1>2. ASSUME PortUp(e, p) PROVE ExpiryInv(D)'
  <2>1. ent[e].on /\ ~ent[e].itf[p].op /\ UNCHANGED <<cfg, disc, chan, running>>
    BY <1>2 DEF PortUp
  <2>2. PICK d \in cfg.delays :
          ent' = [ent EXCEPT ![e] =
                    [InterfaceEvent(ent[e], p, "LINK_UP", d) EXCEPT !.itf[p].op = TRUE]]
    BY <1>2 DEF PortUp
  <2>3. PICK z : z = [InterfaceEvent(ent[e], p, "LINK_UP", d) EXCEPT !.itf[p].op = TRUE]
    OBVIOUS
  <2>4. z \in EntityStates
    <3>1. d \in Nat
      BY <1>1, <2>2, ConfigFacts
    <3>2. InterfaceEvent(ent[e], p, "LINK_UP", d) \in EntityStates
      BY <1>1, <3>1, InterfaceEventType
    <3> QED BY <1>1, <2>3, <3>2, SetLink
  <2>5. ChangeAt(ent[e], z, p, D)
    BY <1>1, <2>1, <2>2, <2>3, LinkUpSound
  <2>6. EasedAt(ent[e], z, p, D)
    BY <2>1, <2>5 DEF ChangeAt, EasedAt
  <2>7. Eased(ent[e], z, D) /\ Sound(z, D)
    BY <2>5, <2>6 DEF ChangeAt, Eased
  <2>8. ent' = [ent EXCEPT ![e] = z] /\ missed' = missed
    BY <1>2, <2>2, <2>3 DEF PortUp
  <2> QED BY <1>1, <2>1, <2>4, <2>7, <2>8, EasedExpiry
<1>3. ASSUME PortDown(e, p) PROVE ExpiryInv(D)'
  <2>1. ent[e].on /\ ent[e].itf[p].op /\ UNCHANGED <<cfg, disc, chan, running>>
    BY <1>3 DEF PortDown
  <2>2. PICK d \in cfg.delays :
          ent' = [ent EXCEPT ![e] =
                    [InterfaceEvent(ent[e], p, "LINK_DOWN", d) EXCEPT !.itf[p].op = FALSE]]
    BY <1>3 DEF PortDown
  <2>3. PICK z : z = [InterfaceEvent(ent[e], p, "LINK_DOWN", d) EXCEPT !.itf[p].op = FALSE]
    OBVIOUS
  <2>4. z \in EntityStates
    <3>1. d \in Nat
      BY <1>1, <2>2, ConfigFacts
    <3>2. InterfaceEvent(ent[e], p, "LINK_DOWN", d) \in EntityStates
      BY <1>1, <3>1, InterfaceEventType
    <3> QED BY <1>1, <2>3, <3>2, SetLink
  <2>5. ChangeAt(ent[e], z, p, D)
    BY <1>1, <2>1, <2>2, <2>3, LinkDownSound
  <2>6. ent' = [ent EXCEPT ![e] = z]
    BY <2>2, <2>3
  <2>7. missed' = [missed EXCEPT ![e] = [q \in Ports |-> IF q = p THEN Many ELSE missed[e][q]]]
    BY <1>1, <1>3 DEF PortDown, Missed
  <2>8. /\ \A f \in Entities, q \in Ports : missed'[f][q] = missed[f][q] \/ missed'[f][q] = Many
        /\ missed'[e][p] = Many
    BY <1>1, <2>7
  <2>9. \A q \in Ports : missed'[e][q] < Many => q # p
    BY <2>8 DEF Many
  <2>10. \A q \in Ports : missed'[e][q] < Many => EasedAt(ent[e], z, q, D)
    BY <2>5, <2>9 DEF ChangeAt
  <2>11. \A q \in Ports : Started(ent[e].itf[q]) => Started(z.itf[q])
    BY <2>5 DEF ChangeAt, EasedAt
  <2>12. Sound(z, D) /\ z.on = ent[e].on /\ z.boot = ent[e].boot
    BY <2>5 DEF ChangeAt
  <2> QED BY <1>1, <2>1, <2>4, <2>6, <2>8, <2>10, <2>11, <2>12, EntityExpiry
<1> QED BY <1>2, <1>3


\* A message joins the channel.
LEMMA AppendPositions ==
  ASSUME NEW c \in Seq(Messages), NEW m \in Messages
  PROVE  /\ Append(c, m) \in Seq(Messages) /\ Len(Append(c, m)) = Len(c) + 1 /\ Len(c) \in Nat
         /\ Append(c, m)[Len(c) + 1] = m
         /\ \A j \in 1 .. Len(c) : j \in 1 .. Len(c) + 1 /\ Append(c, m)[j] = c[j]
  OBVIOUS

LEMMA AppendCurrent ==
  ASSUME NEW c \in Seq(Messages), NEW m \in Messages, NEW e, NEW b
  PROVE  LET n == Append(c, m)
         IN  /\ NoCurrent(n, e, b) => NoCurrent(c, e, b)
             /\ OneCurrent(n, e, b) => OneCurrent(c, e, b)
             /\ m.type = "AVAILABLE" /\ m.entity = e /\ m.boot = b =>
                  /\ ~NoCurrent(n, e, b)
                  /\ OneCurrent(n, e, b) => NoCurrent(c, e, b)
<1> DEFINE n == Append(c, m)
<1>1. /\ Len(n) = Len(c) + 1 /\ Len(c) \in Nat /\ n[Len(c) + 1] = m
      /\ \A j \in 1 .. Len(c) : j \in 1 .. Len(n) /\ n[j] = c[j]
  BY AppendPositions
<1> HIDE DEF n
<1>2. \A j \in 1 .. Len(c) : Current(c, e, b, j) => j \in 1 .. Len(n) /\ Current(n, e, b, j)
  BY <1>1 DEF Current
<1>3. NoCurrent(n, e, b) => NoCurrent(c, e, b)
  BY <1>2 DEF NoCurrent
<1>4. OneCurrent(n, e, b) => OneCurrent(c, e, b)
  BY <1>2 DEF OneCurrent
<1>5. ASSUME m.type = "AVAILABLE", m.entity = e, m.boot = b
      PROVE  ~NoCurrent(n, e, b) /\ (OneCurrent(n, e, b) => NoCurrent(c, e, b))
  <2>1. Len(c) + 1 \in 1 .. Len(n) /\ Current(n, e, b, Len(c) + 1)
    BY <1>1, <1>5 DEF Current
  <2>2. ~NoCurrent(n, e, b)
    BY <2>1 DEF NoCurrent
  <2>3. ASSUME OneCurrent(n, e, b), NEW j \in 1 .. Len(c), Current(c, e, b, j) PROVE FALSE
    <3>1. j = Len(c) + 1
      BY <1>2, <2>1, <2>3 DEF OneCurrent
    <3> QED BY <1>1, <3>1
  <2> QED BY <2>2, <2>3 DEF NoCurrent
<1> QED BY <1>3, <1>4, <1>5 DEF n

LEMMA OutlivesAppend ==
  ASSUME NEW c \in Seq(Messages), NEW m \in Messages, NEW D, NEW t, NEW e, NEW x, NEW p, NEW n,
         Outlives(t, c, e, x, p, n, D)
  PROVE  Outlives(t, Append(c, m), e, x, p, n, D)
  BY AppendCurrent DEF Outlives

\* The advertisement that was due is sent.
LEMMA OutlivesSent ==
  ASSUME cfg \in Configs, NEW D \in Nat, Suits(cfg, D), NEW x \in EntityStates,
         NEW y \in EntityStates, Sound(x, D), Sound(y, D), y.boot = x.boot, NEW p \in Ports,
         Due(x, p, D) = 0, y.itf[p].op, Started(y.itf[p]),
         NEW t \in TimerValues, NEW n, NEW c \in Seq(Messages), NEW e,
         Outlives(t, c, e, x, p, n, D), NEW m \in Messages,
         m.type = "AVAILABLE", m.entity = e, m.boot = x.boot
  PROVE  Outlives(t, Append(c, m), e, y, p, n, D)
<1>1. Due(y, p, D) \in Nat /\ Due(y, p, D) <= cfg.interval + D
  BY DueFacts
<1>2. t \in Int /\ cfg.interval \in Nat
  BY ToleranceFacts DEF TimerValues, Off
<1>3. /\ ~NoCurrent(Append(c, m), e, x.boot)
      /\ OneCurrent(Append(c, m), e, x.boot) => NoCurrent(c, e, x.boot)
  BY AppendCurrent
<1> QED BY <1>1, <1>2, <1>3 DEF Outlives

\* One entity changes and sends on the interfaces S.
LEMMA SendExpiry ==
  ASSUME Inv, NEW D \in Nat, Suits(cfg, D), ExpiryInv(D), NEW e \in cfg.entities,
         NEW y \in EntityStates, ent' = [ent EXCEPT ![e] = y], ent[e].on,
         Sound(y, D), y.boot = ent[e].boot, NEW S, NEW type \in {"AVAILABLE", "DEPARTING"},
         NEW w \in EntityStates, w.boot = ent[e].boot, chan' = SendOn(S, type, e, w),
         y.on => \A q \in Ports : Started(ent[e].itf[q]) => Started(y.itf[q]),
         type = "AVAILABLE" /\ y.on => \A q \in Ports : q \in S => Started(y.itf[q]),
         \A f \in Entities, q \in Ports :
            missed'[f][q] = missed[f][q] \/ missed'[f][q] = Many,
         \A q \in Ports : missed'[e][q] < Many =>
            /\ y.on /\ y.itf[q].op
            /\ q \in S => type = "AVAILABLE" /\ Due(ent[e], q, D) = 0
            /\ q \notin S => EasedAt(ent[e], y, q, D),
         UNCHANGED <<cfg, disc, running>>
  PROVE  ExpiryInv(D)'
<1>1. cfg' = cfg /\ disc' = disc /\ running' = running
  OBVIOUS
<1>2. /\ cfg \in Configs /\ ent[e] \in EntityStates /\ Sound(ent[e], D) /\ e \in Entities
      /\ chan \in [Ports -> Seq(Messages)]
  BY ConfigFacts DEF Inv, TypeOK, ExpiryInv
<1>3. ent'[e] = y /\ \A f \in Entities : f # e => ent'[f] = ent[f]
  BY <1>2 DEF Inv, TypeOK
<1>4. \A f \in Entities : Sound(ent'[f], D)
  BY <1>3 DEF ExpiryInv
<1>5. SlotsUsed'
  BY <1>1 DEF SlotsUsed, ExpiryInv
<1>6. ASSUME NEW p \in Ports
      PROVE  /\ Packet(type, e, w, p) \in Messages
             /\ Packet(type, e, w, p).entity = e /\ Packet(type, e, w, p).type = type
             /\ Packet(type, e, w, p).boot = ent[e].boot
             /\ p \in S => chan'[p] = Append(chan[p], Packet(type, e, w, p))
             /\ p \notin S => chan'[p] = chan[p]
  <2>1. w.itf[p] \in InterfaceStates
    BY DEF EntityStates
  <2>2. Packet(type, e, w, p) \in Messages
    BY <1>2, <2>1 DEF Packet, Messages, EntityStates, InterfaceStates
  <2>3. /\ Packet(type, e, w, p).entity = e /\ Packet(type, e, w, p).type = type
        /\ Packet(type, e, w, p).boot = ent[e].boot
    BY DEF Packet
  <2>4. /\ p \in S => chan'[p] = Append(chan[p], Packet(type, e, w, p))
        /\ p \notin S => chan'[p] = chan[p]
    BY DEF SendOn
  <2> QED BY <2>2, <2>3, <2>4
<1>7. \A f \in Entities :
         /\ ent'[f].boot = ent[f].boot /\ (ent'[f].on => ent[f].on)
         /\ ent'[f].on => \A q \in Ports : Started(ent[f].itf[q]) => Started(ent'[f].itf[q])
  BY <1>3
<1>8. ASSUME NEW p \in Ports, NEW j \in 1 .. Len(chan'[p]) PROVE SentOK(chan[p][j], p)'
  <2>1. PICK m : m = chan'[p][j]
    OBVIOUS
  <2>2. SUFFICES /\ m.entity \in cfg.entities
                 /\ m.boot <= ent'[m.entity].boot
                 /\ m.type = "AVAILABLE" /\ m.boot = ent'[m.entity].boot /\ ent'[m.entity].on =>
                      Started(ent'[m.entity].itf[p])
    BY <1>1, <2>1 DEF SentOK, Started
  <2>3. CASE m = Packet(type, e, w, p) /\ p \in S
    <3>1. ent[e].boot \in Nat
      BY <1>2 DEF EntityStates
    <3> QED BY <1>3, <1>6, <2>3, <3>1
  <2>4. CASE j \in 1 .. Len(chan[p]) /\ m = chan[p][j]
    <3>1. SentOK(m, p)
      BY <2>4 DEF ExpiryInv
    <3>2. m.entity \in Entities
      BY <1>2, <3>1, ConfigFacts DEF SentOK
    <3> QED BY <1>7, <3>1, <3>2 DEF SentOK
  <2>5. CASE p \in S
    <3>1. PICK k \in Messages : k = Packet(type, e, w, p)
      BY <1>6
    <3>2. chan'[p] = Append(chan[p], k) /\ chan[p] \in Seq(Messages)
      BY <1>2, <1>6, <2>5, <3>1
    <3>3. j \in 1 .. Len(chan[p]) \/ j = Len(chan[p]) + 1
      BY <1>8, <3>2, AppendPositions
    <3>4. (j \in 1 .. Len(chan[p]) /\ m = chan[p][j]) \/ m = k
      BY <2>1, <3>2, <3>3, AppendPositions
    <3> QED BY <2>3, <2>4, <2>5, <3>1, <3>4
  <2>6. CASE p \notin S
    BY <1>6, <1>8, <2>1, <2>4, <2>6
  <2> QED BY <2>5, <2>6
<1>9. ASSUME NEW f \in Entities, NEW q \in Ports PROVE HeardOK(f, q)'
  <2>1. HeardOK(f, q)
    BY DEF ExpiryInv
  <2>2. SUFFICES ASSUME missed'[f][q] < Many
                 PROVE  /\ f \in cfg.entities /\ q \in cfg.ports
                        /\ ent'[f].itf[q].op /\ Started(ent'[f].itf[q])
    BY <1>1 DEF HeardOK, Started
  <2>3. missed[f][q] < Many
    BY <2>2 DEF Many
  <2>4. /\ f \in cfg.entities /\ q \in cfg.ports
        /\ ent[f].itf[q].op /\ Started(ent[f].itf[q])
    BY <2>1, <2>3 DEF HeardOK
  <2>5. CASE f = e
    BY <1>3, <2>2, <2>4, <2>5
  <2>6. CASE f # e
    BY <1>3, <2>4, <2>6
  <2> QED BY <2>5, <2>6
<1>10. ASSUME NEW p \in Ports, NEW i \in Slots PROVE LivesNext(p, i, D)
  <2>1. SUFFICES ASSUME disc[p][i].used
                 PROVE  LET f == disc[p][i].info.entity
                        IN  Outlives(disc[p][i].timeout, chan'[p], f, ent'[f], p, missed'[f][p], D)
    BY <1>1 DEF LivesNext
  <2>2. PICK f \in Entities, t \in TimerValues, n \in 0 .. Many :
           /\ f = disc[p][i].info.entity /\ t = disc[p][i].timeout /\ n = missed[f][p]
           /\ Outlives(t, chan[p], f, ent[f], p, n, D)
           /\ n <= cfg.tolerates => ent[f].itf[p].op /\ Started(ent[f].itf[p])
    BY <2>1, EntryFacts
  <2>3. chan[p] \in Seq(Messages)
    BY <1>2
  <2>4. PICK m \in Messages : m = Packet(type, e, w, p)
    BY <1>6
  <2>5. CASE ~(missed'[f][p] <= cfg.tolerates)
    BY <2>2, <2>5 DEF Outlives
  <2>6. CASE missed'[f][p] <= cfg.tolerates
    <3>1. missed'[f][p] = n /\ n <= cfg.tolerates /\ missed'[f][p] < Many
      <4>1. Many = 2 /\ cfg.tolerates \in {0, 1}
        BY <1>2, ToleranceFacts DEF Many
      <4>2. missed'[f][p] = n \/ missed'[f][p] = Many
        BY <2>2
      <4>3. missed'[f][p] # Many
        BY <2>6, <4>1
      <4>4. missed'[f][p] = n
        BY <4>2, <4>3
      <4>5. n <= cfg.tolerates
        BY <2>6, <4>4
      <4>6. n < Many
        BY <4>1, <4>5
      <4> QED BY <4>4, <4>5, <4>6
    <3>2. Outlives(t, chan'[p], f, ent'[f], p, n, D)
      <4>1. CASE f # e
        <5>1. Outlives(t, Append(chan[p], m), f, ent[f], p, n, D)
          BY <2>2, <2>3, <2>4, OutlivesAppend
        <5> QED BY <1>3, <1>6, <2>2, <2>4, <4>1, <5>1
      <4>2. CASE f = e /\ p \in S
        <5>1. /\ type = "AVAILABLE" /\ Due(ent[e], p, D) = 0 /\ y.itf[p].op
              /\ Started(y.itf[p])
          BY <2>2, <3>1, <4>2
        <5>2. m.type = "AVAILABLE" /\ m.entity = e /\ m.boot = ent[e].boot
          BY <1>6, <2>4, <5>1
        <5>3. Outlives(t, Append(chan[p], m), e, y, p, n, D)
          BY <1>2, <2>2, <2>3, <4>2, <5>1, <5>2, OutlivesSent
        <5> QED BY <1>3, <1>6, <2>4, <4>2, <5>3
      <4>3. CASE f = e /\ p \notin S
        <5>1. EasedAt(ent[e], y, p, D)
          BY <3>1, <4>3
        <5>2. Outlives(t, chan[p], e, y, p, n, D)
          BY <1>2, <2>2, <3>1, <4>3, <5>1, OutlivesEased
        <5> QED BY <1>3, <1>6, <4>3, <5>2
      <4> QED BY <4>1, <4>2, <4>3
    <3> QED BY <2>2, <3>1, <3>2
  <2> QED BY <2>5, <2>6
<1> QED BY <1>1, <1>4, <1>5, <1>8, <1>9, <1>10, ExpiryFrom


\* The index is no part of it.
LEMMA IndexSound ==
  ASSUME NEW x, NEW y \in EntityStates, NEW D, NEW p, NEW n, ChangeAt(x, y, p, D), y.on
  PROVE  ChangeAt(x, [y EXCEPT !.index = n], p, D)
<1> DEFINE z == [y EXCEPT !.index = n]
<1>1. /\ z.on = y.on /\ z.boot = y.boot /\ z.ready = y.ready /\ z.st = y.st
      /\ z.delay = y.delay /\ z.reannounce = y.reannounce /\ z.itf = y.itf
  BY DEF EntityStates
<1> HIDE DEF z
<1>2. Sound(z, D)
  BY <1>1 DEF Sound, Started, ChangeAt
<1>3. \A q \in Ports : EasedAt(x, y, q, D) => EasedAt(x, z, q, D)
  BY <1>1 DEF EasedAt, Due
<1> QED BY <1>1, <1>2, <1>3 DEF ChangeAt, z

LEMMA MilanDelayExpiry ==
  ASSUME Inv, NEW D \in Nat, Suits(cfg, D), ExpiryInv(D), NEW e \in cfg.entities,
         NEW p \in cfg.ports, MilanDelayTimeout(e, p)
  PROVE  ExpiryInv(D)'
<1>1. /\ cfg \in Configs /\ ent[e] \in EntityStates /\ e \in Entities /\ p \in Ports
      /\ Sound(ent[e], D) /\ ent[e].itf[p] \in InterfaceStates /\ cfg.interval \in Nat
  BY ConfigFacts DEF Inv, TypeOK, ExpiryInv, EntityStates
<1>2. PICK x : x = ent[e]
  OBVIOUS
<1>3. PICK i : i = ent[e].itf[p]
  OBVIOUS
<1>4. x \in EntityStates /\ Sound(x, D) /\ i = x.itf[p] /\ i \in InterfaceStates /\ i.delay = 0
  BY <1>1, <1>2, <1>3 DEF MilanDelayTimeout
<1>5. cfg.milan
  BY <1>1, <1>4 DEF Sound, IeeeSound, Off
<1>6. x.on
  BY <1>1, <1>4 DEF Sound, NewEntity, NewInterface, Off
<1>7. MilanSound(i, D)
  BY <1>1, <1>4, <1>5 DEF Sound
<1>8. i.st = "DELAY" /\ i.adv = Off
  BY <1>4, <1>7 DEF MilanSound, Counting, Off
<1>9. i.op /\ Started(i)
  BY <1>7, <1>8 DEF MilanSound, Started
<1>10. x.ready
  BY <1>1, <1>4, <1>9 DEF Sound
<1> DEFINE k == [i EXCEPT !.delay = Off, !.st = "WAITING", !.adv = cfg.interval]
           w == [x EXCEPT !.itf[p].delay = Off]
           z == [x EXCEPT !.itf[p] = k]
           y == [z EXCEPT !.index = NextIndex(x.index)]
<1>11. k.st = "WAITING" /\ k.delay = Off /\ k.adv = cfg.interval
  BY <1>4 DEF InterfaceStates
<1>12. k.op
  BY <1>4, <1>9 DEF InterfaceStates
<1>13. k \in InterfaceStates
  BY <1>1, <1>4 DEF InterfaceStates, TimerValues, Off
<1>14. w \in EntityStates /\ w.boot = x.boot
  <2>1. [i EXCEPT !.delay = Off] \in InterfaceStates
    BY <1>4, OffType DEF InterfaceStates
  <2> QED BY <1>1, <1>4, <2>1 DEF EntityStates
<1>15. ent' = [ent EXCEPT ![e] = y]
  <2>1. ent' = [ent EXCEPT ![e] =
                  [[ent[e] EXCEPT !.itf[p].delay = Off] EXCEPT
                      !.index = NextIndex(@), !.itf[p].st = "WAITING",
                      !.itf[p].adv = Start(@, cfg.interval)]]
    BY DEF MilanDelayTimeout
  <2>2. Start(Off, cfg.interval) = cfg.interval
    BY DEF Start
  <2>3. y = [w EXCEPT !.index = NextIndex(@), !.itf[p].st = "WAITING",
                      !.itf[p].adv = Start(@, cfg.interval)]
    <3>1. w.itf[p] = [i EXCEPT !.delay = Off] /\ w.index = x.index
      BY <1>1, <1>4 DEF EntityStates
    <3>2. w.itf[p].adv = Off
      BY <1>4, <1>8, <3>1 DEF InterfaceStates
    <3>3. k = [w.itf[p] EXCEPT !.st = "WAITING", !.adv = Start(w.itf[p].adv, cfg.interval)]
      BY <1>4, <2>2, <3>1, <3>2 DEF InterfaceStates
    <3>4. y = [w EXCEPT !.index = NextIndex(w.index), !.itf[p] = k]
      BY <1>1, <1>4, <3>1 DEF EntityStates
    <3> HIDE DEF k, y
    <3>5. ASSUME NEW v \in EntityStates
          PROVE  [v EXCEPT !.index = NextIndex(@), !.itf[p].st = "WAITING",
                           !.itf[p].adv = Start(@, cfg.interval)]
                   = [v EXCEPT !.index = NextIndex(v.index),
                               !.itf[p] = [v.itf[p] EXCEPT !.st = "WAITING",
                                             !.adv = Start(v.itf[p].adv, cfg.interval)]]
      BY <1>1 DEF EntityStates, InterfaceStates
    <3> QED BY <1>14, <3>3, <3>4, <3>5
  <2> QED BY <1>2, <2>1, <2>3
<1>16. chan' = SendOn({p}, "AVAILABLE", e, w)
  BY <1>2 DEF MilanDelayTimeout
<1>17. y.itf[p] = k /\ y.on = x.on /\ y.boot = x.boot
  BY <1>1, <1>4 DEF EntityStates
<1> HIDE DEF k, w
<1>18. z \in EntityStates
  BY <1>1, <1>4, <1>13, SetInterface
<1>19. MilanSound(k, D) /\ Started(k)
  BY <1>1, <1>11, <1>12 DEF MilanSound, Counting, Started, Off
<1>20. ChangeAt(x, z, p, D)
  BY <1>1, <1>4, <1>5, <1>6, <1>10, <1>19, MilanOne
<1> HIDE DEF z
<1>21. y \in EntityStates
  <2>1. NextIndex(x.index) \in Nat
    BY <1>4, IndexType DEF EntityStates
  <2> QED BY <1>18, <2>1 DEF EntityStates
<1>22. ChangeAt(x, y, p, D)
  <2>1. z.on
    BY <1>6, <1>20 DEF ChangeAt
  <2> QED BY <1>18, <1>20, <2>1, IndexSound
<1> HIDE DEF y
<1>23. Due(x, p, D) = 0
  BY <1>4, <1>5, <1>8 DEF Due, DueOf
<1>24. \A q \in Ports : Started(x.itf[q]) => Started(y.itf[q])
  BY <1>22 DEF ChangeAt, EasedAt
<1>25. \A q \in Ports : q \in {p} => Started(y.itf[q])
  BY <1>17, <1>19
<1>26. UNCHANGED <<cfg, disc, running>> /\ missed' = missed
  BY DEF MilanDelayTimeout
<1>27. ASSUME NEW q \in Ports, missed'[e][q] < Many
       PROVE  /\ y.on /\ y.itf[q].op
              /\ q \in {p} => "AVAILABLE" = "AVAILABLE" /\ Due(x, q, D) = 0
              /\ q \notin {p} => EasedAt(x, y, q, D)
  <2>1. HeardOK(e, q)
    BY <1>1 DEF ExpiryInv
  <2>2. x.itf[q].op /\ Started(x.itf[q])
    BY <1>2, <1>26, <1>27, <2>1 DEF HeardOK
  <2>3. CASE q = p
    BY <1>6, <1>12, <1>17, <1>23, <2>3
  <2>4. CASE q # p
    BY <1>6, <1>17, <1>22, <2>2, <2>4 DEF ChangeAt, EasedAt
  <2> QED BY <2>3, <2>4
<1>28. Sound(y, D)
  BY <1>22 DEF ChangeAt
<1> QED BY <1>2, <1>6, <1>14, <1>15, <1>16, <1>17, <1>21, <1>24, <1>25, <1>26, <1>27, <1>28, SendExpiry

LEMMA IeeeDelayExpiry ==
  ASSUME Inv, NEW D \in Nat, Suits(cfg, D), ExpiryInv(D), NEW e \in cfg.entities,
         IeeeDelayTimeout(e)
  PROVE  ExpiryInv(D)'
<1>1. /\ cfg \in Configs /\ ent[e] \in EntityStates /\ e \in Entities /\ cfg.ports \subseteq Ports
      /\ Sound(ent[e], D) /\ cfg.interval \in Nat /\ ent \in [Entities -> EntityStates]
  BY ConfigFacts DEF Inv, TypeOK, ExpiryInv
<1>2. PICK x : x = ent[e]
  OBVIOUS
<1>3. x \in EntityStates /\ Sound(x, D) /\ x.delay = 0
  BY <1>1, <1>2 DEF IeeeDelayTimeout
<1>4. ~cfg.milan /\ x.on
  BY <1>1, <1>3 DEF Sound, NewEntity, Off
<1>5. Counting(x.st, x.delay, x.reannounce, D) /\ \A q \in Ports : IeeeSound(x.itf[q])
  BY <1>3, <1>4 DEF Sound
<1>6. x.st = "DELAY" /\ x.reannounce = Off
  BY <1>3, <1>5 DEF Counting, Off
<1> DEFINE y == [x EXCEPT !.delay = Off, !.st = "WAITING", !.reannounce = cfg.interval]
           S == WaitingPorts(x)
<1>7. ent' = [ent EXCEPT ![e] = y]
  <2>1. ent' = [ent EXCEPT ![e].delay = Off, ![e].st = "WAITING",
                           ![e].reannounce = Start(@, cfg.interval)]
    BY DEF IeeeDelayTimeout
  <2>2. Start(Off, cfg.interval) = cfg.interval
    BY DEF Start
  <2> QED BY <1>1, <1>2, <1>6, <2>1, <2>2 DEF EntityStates
<1>8. chan' = SendOn(S, "AVAILABLE", e, x)
  BY <1>2 DEF IeeeDelayTimeout
<1>9. /\ y.on = x.on /\ y.boot = x.boot /\ y.ready = x.ready /\ y.itf = x.itf
      /\ y.st = "WAITING" /\ y.delay = Off /\ y.reannounce = cfg.interval
  BY <1>3 DEF EntityStates
<1>10. y \in EntityStates
  BY <1>1, <1>3 DEF EntityStates, TimerValues, Off
<1> HIDE DEF y
<1>11. Sound(y, D)
  <2>1. Counting(y.st, y.delay, y.reannounce, D) /\ Started(y)
    BY <1>1, <1>9 DEF Counting, Started, Off
  <2>2. \A q \in Ports : IeeeSound(y.itf[q]) /\ (Started(y.itf[q]) => y.ready)
    BY <1>3, <1>5, <1>9 DEF Sound
  <2> QED BY <1>4, <1>9, <2>1, <2>2 DEF Sound
<1>12. \A q \in Ports : Started(x.itf[q]) => Started(y.itf[q])
  BY <1>9
<1>13. \A q \in Ports : q \in S => Started(y.itf[q])
  BY <1>9 DEF WaitingPorts, Started
<1>14. UNCHANGED <<cfg, disc, running>> /\ missed' = missed
  BY DEF IeeeDelayTimeout
<1>15. ASSUME NEW q \in Ports, missed'[e][q] < Many
       PROVE  /\ y.on /\ y.itf[q].op
              /\ q \in S => "AVAILABLE" = "AVAILABLE" /\ Due(x, q, D) = 0
              /\ q \notin S => EasedAt(x, y, q, D)
  <2>1. HeardOK(e, q)
    BY <1>1 DEF ExpiryInv
  <2>2. x.itf[q].op /\ Started(x.itf[q]) /\ q \in cfg.ports
    BY <1>2, <1>14, <1>15, <2>1 DEF HeardOK
  <2>3. q \in S
    BY <1>5, <2>2 DEF WaitingPorts, IeeeSound
  <2>4. Due(x, q, D) = 0
    BY <1>3, <1>4, <1>6 DEF Due, DueOf
  <2> QED BY <1>4, <1>9, <2>2, <2>3, <2>4
<1> HIDE DEF S
<1>16. /\ ent[e].on /\ y.boot = ent[e].boot /\ y.on
       /\ \A q \in Ports : Started(ent[e].itf[q]) => Started(y.itf[q])
       /\ chan' = SendOn(S, "AVAILABLE", e, ent[e])
  BY <1>2, <1>4, <1>8, <1>9, <1>12
<1>17. \A q \in Ports : missed'[e][q] < Many =>
          /\ y.on /\ y.itf[q].op
          /\ q \in S => "AVAILABLE" = "AVAILABLE" /\ Due(ent[e], q, D) = 0
          /\ q \notin S => EasedAt(ent[e], y, q, D)
  BY <1>2, <1>15
<1> QED BY <1>1, <1>7, <1>10, <1>11, <1>13, <1>14, <1>16, <1>17, SendExpiry


LEMMA NewSound ==
  ASSUME NEW b, NEW on \in BOOLEAN, NEW ready \in BOOLEAN, NEW D \in Nat, ready => on
  PROVE  LET y == NewEntity(b, on, ready)
         IN  /\ Sound(y, D) /\ y.boot = b
             /\ \A q \in Ports : ~y.itf[q].op /\ ~Started(y.itf[q])
<1> DEFINE y == NewEntity(b, on, ready)
<1>1. y.boot = b /\ y.st = "NOT_STARTED" /\ y.delay = Off /\ y.reannounce = Off
  BY DEF NewEntity
<1>2. y.on = on
  BY DEF NewEntity
<1>3. y.ready = ready
  BY DEF NewEntity
<1>4. \A q \in Ports : y.itf[q] = NewInterface
  BY DEF NewEntity
<1>5. ~NewInterface.op /\ ~Started(NewInterface) /\ MilanSound(NewInterface, D)
      /\ IeeeSound(NewInterface)
  BY DEF NewInterface, Started, MilanSound, IeeeSound, Counting, Off
<1>6. ~on => y = NewEntity(b, FALSE, FALSE)
  <2>1. ~on => on = FALSE /\ ready = FALSE
    OBVIOUS
  <2> QED BY <2>1
<1> HIDE DEF y
<1>7. Counting(y.st, y.delay, y.reannounce, D)
  BY <1>1 DEF Counting
<1>8. \A q \in Ports : /\ ~y.itf[q].op /\ ~Started(y.itf[q])
                       /\ MilanSound(y.itf[q], D) /\ IeeeSound(y.itf[q])
  BY <1>4, <1>5
<1>9. Sound(y, D)
  <2>1. ~y.on => y = NewEntity(y.boot, FALSE, FALSE)
    BY <1>1, <1>2, <1>6
  <2> QED BY <1>1, <1>7, <1>8, <2>1 DEF Sound
<1> QED BY <1>1, <1>8, <1>9 DEF y

\* A process that ends: its entries may expire.
LEMMA StopExpiry ==
  ASSUME Inv, NEW D \in Nat, Suits(cfg, D), ExpiryInv(D), NEW e \in cfg.entities, NEW S,
         Stop(e, S)
  PROVE  ExpiryInv(D)'
<1>1. /\ cfg \in Configs /\ ent[e] \in EntityStates /\ e \in Entities
      /\ ent \in [Entities -> EntityStates] /\ missed \in [Entities -> [Ports -> 0 .. Many]]
  BY ConfigFacts DEF Inv, TypeOK
<1>2. PICK y : y = NewEntity(ent[e].boot, FALSE, FALSE)
  OBVIOUS
<1>3. y \in EntityStates /\ y.boot = ent[e].boot /\ Sound(y, D)
  <2>1. ent[e].boot \in Nat
    BY <1>1 DEF EntityStates
  <2> QED BY <1>2, <2>1, NewEntityType, NewSound
<1>4. ~y.on
  BY <1>2 DEF NewEntity
<1>5. ent[e].on /\ ent' = [ent EXCEPT ![e] = y] /\ UNCHANGED <<cfg, disc, running>>
  BY <1>1, <1>2 DEF Stop
<1>6. PICK w : w = [ent[e] EXCEPT !.index = 0]
  OBVIOUS
<1>7. w \in EntityStates /\ w.boot = ent[e].boot
  BY <1>1, <1>6 DEF EntityStates
<1>8. chan' = SendOn(S, "DEPARTING", e, w)
  BY <1>6 DEF Stop
<1>9. missed' = [missed EXCEPT ![e] =
                   [q \in Ports |-> IF q \in cfg.ports THEN Many ELSE missed[e][q]]]
  BY <1>1 DEF Stop, Missed
<1>10. \A f \in Entities, q \in Ports : missed'[f][q] = missed[f][q] \/ missed'[f][q] = Many
  BY <1>1, <1>9
<1>11. ASSUME NEW q \in Ports PROVE ~(missed'[e][q] < Many)
  <2>1. HeardOK(e, q)
    BY <1>1 DEF ExpiryInv
  <2>2. CASE q \in cfg.ports
    <3>1. missed'[e][q] = Many
      BY <1>1, <1>9, <2>2
    <3> QED BY <3>1 DEF Many
  <2>3. CASE q \notin cfg.ports
    <3>1. missed'[e][q] = missed[e][q]
      BY <1>1, <1>9, <2>3
    <3> QED BY <2>1, <2>3, <3>1 DEF HeardOK
  <2> QED BY <2>2, <2>3
<1> QED BY <1>3, <1>4, <1>5, <1>7, <1>8, <1>10, <1>11, SendExpiry

\* A process that starts: what is on its way is of an earlier start.
LEMMA BootExpiry ==
  ASSUME Inv, NEW D \in Nat, Suits(cfg, D), ExpiryInv(D), NEW e \in cfg.entities, Boot(e)
  PROVE  ExpiryInv(D)'
<1>1. /\ cfg \in Configs /\ ent[e] \in EntityStates /\ e \in Entities
      /\ ent \in [Entities -> EntityStates] /\ Sound(ent[e], D) /\ ent[e].boot \in Nat
      /\ chan \in [Ports -> Seq(Messages)]
  BY ConfigFacts DEF Inv, TypeOK, ExpiryInv, EntityStates
<1>2. PICK ready \in BOOLEAN : ent' = [ent EXCEPT ![e] = NewEntity(ent[e].boot + 1, TRUE, ready)]
  BY Zenon DEF Boot
<1>3. /\ cfg' = cfg /\ disc' = disc /\ running' = running /\ chan' = chan /\ missed' = missed
      /\ ~ent[e].on
  BY DEF Boot
<1>4. PICK y : y = NewEntity(ent[e].boot + 1, TRUE, ready)
  OBVIOUS
<1>5. Sound(y, D) /\ y.boot = ent[e].boot + 1
  BY <1>2, <1>4, NewSound
<1>6. ent'[e] = y /\ \A f \in Entities : f # e => ent'[f] = ent[f]
  BY <1>1, <1>2, <1>4
<1>7. \A f \in Entities : Sound(ent'[f], D)
  BY <1>5, <1>6 DEF ExpiryInv
<1>8. \A q \in Ports : ~ent[e].itf[q].op
  BY <1>1, <1>3 DEF Sound, NewEntity, NewInterface
<1>9. SlotsUsed'
  BY <1>3 DEF SlotsUsed, ExpiryInv
<1>10. ASSUME NEW p \in Ports, NEW j \in 1 .. Len(chan'[p]) PROVE SentOK(chan[p][j], p)'
  <2>1. PICK m : m = chan[p][j]
    OBVIOUS
  <2>2. SentOK(m, p)
    BY <1>3, <1>10, <2>1 DEF ExpiryInv
  <2>3. m \in Messages
    BY <1>1, <1>3, <1>10, <2>1
  <2>4. m.entity \in Entities /\ m.boot \in Nat
    BY <2>3 DEF Messages
  <2>5. /\ m.entity \in cfg.entities
        /\ m.boot <= ent'[m.entity].boot
        /\ m.type = "AVAILABLE" /\ m.boot = ent'[m.entity].boot /\ ent'[m.entity].on =>
             Started(ent'[m.entity].itf[p])
    <3>1. CASE m.entity = e
      BY <1>1, <1>5, <1>6, <2>2, <2>4, <3>1 DEF SentOK
    <3>2. CASE m.entity # e
      BY <1>6, <2>2, <2>4, <3>2 DEF SentOK
    <3> QED BY <3>1, <3>2
  <2> QED BY <1>3, <2>1, <2>5 DEF SentOK, Started
<1>11. ASSUME NEW f \in Entities, NEW q \in Ports PROVE HeardOK(f, q)'
  <2>1. HeardOK(f, q)
    BY DEF ExpiryInv
  <2>2. CASE f = e
    BY <1>3, <1>8, <2>1, <2>2 DEF HeardOK
  <2>3. CASE f # e
    BY <1>3, <1>6, <2>1, <2>3 DEF HeardOK, Started
  <2> QED BY <2>2, <2>3
<1>12. ASSUME NEW p \in Ports, NEW i \in Slots PROVE LivesNext(p, i, D)
  <2>1. SUFFICES ASSUME disc[p][i].used
                 PROVE  LET f == disc[p][i].info.entity
                        IN  Outlives(disc[p][i].timeout, chan[p], f, ent'[f], p, missed[f][p], D)
    BY <1>3 DEF LivesNext
  <2>2. PICK f \in Entities :
           /\ f = disc[p][i].info.entity
           /\ Outlives(disc[p][i].timeout, chan[p], f, ent[f], p, missed[f][p], D)
           /\ missed[f][p] <= cfg.tolerates => ent[f].itf[p].op
    BY <2>1, EntryFacts
  <2>3. CASE f = e
    BY <1>8, <2>2, <2>3 DEF Outlives
  <2>4. CASE f # e
    BY <1>6, <2>2, <2>4
  <2> QED BY <2>3, <2>4
<1> QED BY <1>3, <1>7, <1>9, <1>10, <1>11, <1>12, ExpiryFrom


-----------------------------------------------------------------------------
(* The controller station and the network.                                 *)

LEMMA RefreshLife ==
  ASSUME NEW l \in [Slots -> Entries], NEW i \in Slots, NEW m, NEW t
  PROVE  LET n == Refresh(l, i, m, t).list
         IN  /\ n[i].info.entity = m.entity /\ n[i].timeout = cfg.valid
             /\ \A j \in Slots : j # i => n[j] = l[j]
  BY DEF Refresh, Info

\* Every entry is an old one of another entity or has its full life.
Renewed(n, l, m) ==
    \A j \in Slots : n[j].used =>
        /\ j \in cfg.slots
        /\ \/ n[j] = l[j] /\ n[j].info.entity # m.entity
           \/ n[j].info.entity = m.entity /\ n[j].timeout = cfg.valid

LEMMA UpdateLife ==
  ASSUME cfg \in Configs, NEW l, GoodList(cfg.slots, l), NEW m \in Messages, NEW t,
         \A i \in Slots : l[i].used => i \in cfg.slots
  PROVE  Renewed(DiscoveryUpdate(l, m, t).list, l, m)
<1> DEFINE S == cfg.slots
           x == m.entity
           i == CHOOSE j \in Found(l, x) : TRUE
           gone == Put(l, i)
           r == DiscoveryUpdate(l, m, t)
           t1 == Tell(t, x, None)
<1>1. S \in SUBSET Slots
  BY ADPAssumption
<1>2. l \in [Slots -> Entries]
  BY DEF GoodList
<1>3. \A j \in Slots : l[j].used /\ l[j].info.entity = x => j \in Found(l, x)
  BY DEF Found
<1> HIDE DEF i, gone, r, t1
<1>4. CASE Found(l, x) = {} /\ Free(l) = {}
  <2>1. r = [list |-> l, told |-> t]
    BY <1>4 DEF DiscoveryUpdate, r
  <2>2. r.list = l
    BY <2>1
  <2> QED
    BY <1>3, <1>4, <2>2 DEF r, Renewed
<1>5. CASE Found(l, x) = {} /\ Free(l) # {}
  <2> DEFINE f == LastFree(l)
             n == Refresh(l, f, m, t).list
  <2>1. r = Refresh(l, f, m, t)
    BY <1>5 DEF DiscoveryUpdate, r
  <2>2. f \in S /\ ~l[f].used
    BY <1>1, <1>5, FreeSlot
  <2> HIDE DEF f
  <2>3. /\ n[f].info.entity = x /\ n[f].timeout = cfg.valid
        /\ \A j \in Slots : j # f => n[j] = l[j]
    BY <1>1, <1>2, <2>2, RefreshLife
  <2> HIDE DEF n
  <2>4. Renewed(n, l, m)
    BY <1>3, <1>5, <2>2, <2>3 DEF Renewed
  <2> QED
    BY <2>1, <2>4 DEF r, n
<1>6. ASSUME Found(l, x) # {}
      PROVE  /\ i \in S /\ i \in Slots
             /\ \A j \in Slots : l[j].used /\ l[j].info.entity = x => j = i
  <2>1. i \in Found(l, x)
    BY <1>6 DEF i
  <2>2. i \in S /\ l[i].used /\ l[i].info.entity = x
    BY <2>1 DEF Found
  <2> QED
    BY <1>1, <1>3, <2>2 DEF Found, GoodList
<1>7. CASE Found(l, x) # {} /\ ~PowerCycled(l[i].info, m)
  <2> DEFINE n == Refresh(l, i, m, t).list
  <2>1. r = Refresh(l, i, m, t)
    BY <1>7 DEF DiscoveryUpdate, r, i
  <2>2. /\ n[i].info.entity = x /\ n[i].timeout = cfg.valid
        /\ \A j \in Slots : j # i => n[j] = l[j]
    BY <1>2, <1>6, <1>7, RefreshLife
  <2> HIDE DEF n
  <2>3. Renewed(n, l, m)
    BY <1>6, <1>7, <2>2 DEF Renewed
  <2> QED
    BY <2>1, <2>3 DEF r, n
<1>8. CASE Found(l, x) # {} /\ PowerCycled(l[i].info, m)
  <2> DEFINE f == LastFree(gone)
             n == Refresh(gone, f, m, t1).list
  <2>1. r = Refresh(gone, f, m, t1)
    BY <1>8 DEF DiscoveryUpdate, r, i, gone, t1
  <2>2. i \in Slots /\ i \in S
    BY <1>6, <1>8
  <2>3. /\ gone \in [Slots -> Entries] /\ gone[i] = NoEntry
        /\ \A j \in Slots : j # i => gone[j] = l[j]
    <3>1. NoEntry \in Entries
      BY DEF NoEntry, NoInfo, Entries, Infos, TimerValues, Off
    <3> QED
      BY <1>2, <2>2, <3>1 DEF gone, Put
  <2>4. i \in Free(gone) /\ ~gone[i].used
    BY <2>2, <2>3 DEF Free, NoEntry
  <2>5. f \in S /\ ~gone[f].used
    BY <1>1, <2>4, FreeSlot
  <2> HIDE DEF f
  <2>6. /\ n[f].info.entity = x /\ n[f].timeout = cfg.valid
        /\ \A j \in Slots : j # f => n[j] = gone[j]
    BY <1>1, <2>3, <2>5, RefreshLife
  <2> HIDE DEF n
  <2>7. \A j \in Slots : gone[j].used => gone[j] = l[j] /\ gone[j].info.entity # x
    BY <1>6, <1>8, <2>3, <2>4
  <2>8. Renewed(n, l, m)
    BY <2>5, <2>6, <2>7 DEF Renewed
  <2> QED
    BY <2>1, <2>8 DEF r, n
<1> QED
  BY <1>4, <1>5, <1>7, <1>8

LEMMA PutLife ==
  ASSUME NEW l \in [Slots -> Entries], NEW i
  PROVE  \A j \in Slots : Put(l, i)[j].used => Put(l, i)[j] = l[j] /\ j # i
<1>1. \A j \in Slots : Put(l, i)[j] = IF j = i THEN NoEntry ELSE l[j]
  BY DEF Put
<1> QED BY <1>1 DEF NoEntry

LEMMA RemoveLife ==
  ASSUME NEW l \in [Slots -> Entries], NEW m, NEW t
  PROVE  LET n == DiscoveryRemove(l, m, t).list
         IN  \A j \in Slots : n[j].used => n[j] = l[j]
<1> DEFINE n == DiscoveryRemove(l, m, t).list
           i == CHOOSE j \in Found(l, m.entity) : TRUE
<1>1. n = l \/ n = Put(l, i)
  BY DEF DiscoveryRemove
<1> HIDE DEF n, i
<1>2. \A j \in Slots : n[j].used => n[j] = l[j]
  BY <1>1, PutLife
<1> QED BY <1>2 DEF n

\* A message leaves the channel.
LEMMA TailCurrent ==
  ASSUME NEW c \in Seq(Messages), c # <<>>, NEW e, NEW b
  PROVE  /\ NoCurrent(Tail(c), e, b) => OneCurrent(c, e, b)
         /\ ~Current(c, e, b, 1) =>
              /\ NoCurrent(Tail(c), e, b) => NoCurrent(c, e, b)
              /\ OneCurrent(Tail(c), e, b) => OneCurrent(c, e, b)
<1> DEFINE n == Tail(c)
<1>1. /\ Len(n) = Len(c) - 1 /\ Len(c) \in Nat
      /\ \A j \in 1 .. Len(n) : n[j] = c[j + 1]
  BY TailPositions
<1> HIDE DEF n
<1>2. ASSUME NEW j \in 1 .. Len(c), j # 1, Current(c, e, b, j)
      PROVE  j - 1 \in 1 .. Len(n) /\ Current(n, e, b, j - 1)
  <2>1. j - 1 \in 1 .. Len(n) /\ (j - 1) + 1 = j
    BY <1>1, <1>2
  <2>2. n[j - 1] = c[j]
    BY <1>1, <2>1
  <2> QED BY <1>2, <2>1, <2>2 DEF Current
<1>3. NoCurrent(n, e, b) => OneCurrent(c, e, b)
  BY <1>2 DEF NoCurrent, OneCurrent
<1>4. ASSUME ~Current(c, e, b, 1), NoCurrent(n, e, b) PROVE NoCurrent(c, e, b)
  BY <1>2, <1>4 DEF NoCurrent
<1>5. ASSUME ~Current(c, e, b, 1), OneCurrent(n, e, b) PROVE OneCurrent(c, e, b)
  <2>1. SUFFICES ASSUME NEW j \in 1 .. Len(c), NEW k \in 1 .. Len(c),
                        Current(c, e, b, j), Current(c, e, b, k)
                 PROVE  j = k
    BY DEF OneCurrent
  <2>2. j # 1 /\ k # 1
    BY <1>5, <2>1
  <2>3. j - 1 = k - 1
    BY <1>2, <1>5, <2>1, <2>2 DEF OneCurrent
  <2> QED BY <1>1, <2>3
<1> QED BY <1>3, <1>4, <1>5 DEF n

LEMMA OutlivesTail ==
  ASSUME NEW c \in Seq(Messages), c # <<>>, NEW D, NEW t, NEW e, NEW x, NEW p, NEW n,
         ~Current(c, e, x.boot, 1), Outlives(t, c, e, x, p, n, D)
  PROVE  Outlives(t, Tail(c), e, x, p, n, D)
  BY TailCurrent DEF Outlives

\* An advertisement is lost: the entry has a period less to live on.
LEMMA OutlivesLost ==
  ASSUME cfg \in Configs, NEW D \in Nat, Suits(cfg, D), NEW c \in Seq(Messages), c # <<>>,
         NEW t, NEW e, NEW x \in EntityStates, Sound(x, D), NEW p \in Ports, NEW n \in Nat,
         n <= cfg.tolerates => Started(x.itf[p]) /\ x.itf[p].op,
         Outlives(t, c, e, x, p, n, D)
  PROVE  Outlives(t, Tail(c), e, x, p, n + 1, D)
<1>1. SUFFICES ASSUME n + 1 <= cfg.tolerates PROVE Outlives(t, Tail(c), e, x, p, n + 1, D)
  BY DEF Outlives
<1>2. n < cfg.tolerates /\ n <= cfg.tolerates /\ ~(n + 1 < cfg.tolerates)
  BY <1>1, ToleranceFacts
<1>3. Due(x, p, D) \in Nat
  BY <1>2, DueFacts
<1>4. t > 0 /\ (NoCurrent(Tail(c), e, x.boot) => t > Due(x, p, D))
  BY <1>2, TailCurrent DEF Outlives
<1>5. Due(x, p, D) + 0 = Due(x, p, D)
  BY <1>3
<1> QED BY <1>2, <1>4, <1>5 DEF Outlives

\* An advertisement is received: the entry outlasts all that may be lost.
LEMMA OutlivesFresh ==
  ASSUME cfg \in Configs, NEW D \in Nat, Suits(cfg, D), NEW c, NEW e, NEW x \in EntityStates,
         Sound(x, D), NEW p \in Ports, NEW n \in Nat,
         n <= cfg.tolerates => Started(x.itf[p]) /\ x.itf[p].op
  PROVE  Outlives(cfg.valid, c, e, x, p, n, D)
<1>1. SUFFICES ASSUME n <= cfg.tolerates PROVE Outlives(cfg.valid, c, e, x, p, n, D)
  BY DEF Outlives
<1>2. Due(x, p, D) \in Nat /\ Due(x, p, D) <= cfg.interval + D
  BY <1>1, DueFacts
<1>3. /\ cfg.tolerates \in {0, 1} /\ cfg.interval \in Nat /\ cfg.valid \in Nat
      /\ cfg.valid > cfg.interval + D
      /\ cfg.tolerates = 1 => cfg.valid > (cfg.interval + D) + (cfg.interval + D)
  BY ToleranceFacts
<1>4. n < cfg.tolerates => cfg.tolerates = 1
  BY <1>3
<1> QED BY <1>2, <1>3, <1>4 DEF Outlives


\* The first message of a channel is taken; entities do not change.
LEMMA HeadExpiry ==
  ASSUME Inv, NEW D \in Nat, Suits(cfg, D), ExpiryInv(D), NEW p \in cfg.ports, chan[p] # <<>>,
         chan' = [chan EXCEPT ![p] = Tail(@)], UNCHANGED <<cfg, ent, running>>,
         \A q \in Ports : q # p =>
            disc'[q] = disc[q] /\ \A e \in Entities : missed'[e][q] = missed[e][q],
         \A e \in Entities : missed'[e][p] < Many =>
            \/ missed[e][p] < Many
            \/ e \in cfg.entities /\ ent[e].itf[p].op /\ Started(ent[e].itf[p]),
         \A i \in Slots : disc'[p][i].used => running /\ i \in cfg.slots,
         \A i \in Slots : LivesNext(p, i, D)
  PROVE  ExpiryInv(D)'
<1>1. cfg' = cfg /\ ent' = ent /\ running' = running
  OBVIOUS
<1>2. /\ cfg \in Configs /\ p \in Ports /\ chan \in [Ports -> Seq(Messages)]
      /\ chan[p] \in Seq(Messages)
  BY ConfigFacts DEF Inv, TypeOK
<1>3. chan'[p] = Tail(chan[p]) /\ \A q \in Ports : q # p => chan'[q] = chan[q]
  BY <1>2
<1>4. \A e \in Entities : Sound(ent'[e], D)
  BY <1>1 DEF ExpiryInv
<1>5. SlotsUsed'
  BY <1>1 DEF SlotsUsed, ExpiryInv
<1>6. ASSUME NEW q \in Ports, NEW j \in 1 .. Len(chan'[q]) PROVE SentOK(chan[q][j], q)'
  <2>1. PICK m : m = chan'[q][j]
    OBVIOUS
  <2>2. SentOK(m, q)
    <3>1. CASE q = p
      <4>1. j + 1 \in 2 .. Len(chan[p]) /\ Tail(chan[p])[j] = chan[p][j + 1] /\ Len(chan[p]) \in Nat
        BY <1>2, <1>3, <1>6, <3>1, TailPositions
      <4>2. j + 1 \in 1 .. Len(chan[p])
        BY <4>1
      <4>3. m = chan[p][j + 1]
        BY <1>3, <2>1, <3>1, <4>1
      <4> QED BY <1>2, <3>1, <4>2, <4>3 DEF ExpiryInv
    <3>2. CASE q # p
      BY <1>3, <1>6, <2>1, <3>2 DEF ExpiryInv
    <3> QED BY <3>1, <3>2
  <2> QED BY <1>1, <2>1, <2>2 DEF SentOK, Started
<1>7. ASSUME NEW f \in Entities, NEW q \in Ports PROVE HeardOK(f, q)'
  <2>1. HeardOK(f, q)
    BY DEF ExpiryInv
  <2>2. missed'[f][q] < Many =>
          /\ f \in cfg.entities /\ q \in cfg.ports
          /\ ent[f].itf[q].op /\ Started(ent[f].itf[q])
    BY <2>1 DEF HeardOK
  <2> QED BY <1>1, <2>2 DEF HeardOK, Started
<1>8. ASSUME NEW q \in Ports, NEW i \in Slots PROVE LivesNext(q, i, D)
  <2>1. CASE q = p
    BY <2>1
  <2>2. CASE q # p
    <3>1. SUFFICES ASSUME disc[q][i].used
                   PROVE  LET f == disc[q][i].info.entity
                          IN  Outlives(disc[q][i].timeout, chan[q], f, ent[f], q, missed'[f][q], D)
      BY <1>1, <1>3, <2>2 DEF LivesNext
    <3>2. PICK f \in Entities :
             /\ f = disc[q][i].info.entity
             /\ Outlives(disc[q][i].timeout, chan[q], f, ent[f], q, missed[f][q], D)
      BY <3>1, EntryFacts
    <3>3. missed'[f][q] = missed[f][q]
      BY <2>2
    <3> QED BY <3>2, <3>3
  <2> QED BY <2>1, <2>2
<1> QED BY <1>1, <1>4, <1>5, <1>6, <1>7, <1>8, ExpiryFrom

LEMMA LoseExpiry ==
  ASSUME Inv, NEW D \in Nat, Suits(cfg, D), ExpiryInv(D), NEW p \in cfg.ports, Lose(p)
  PROVE  ExpiryInv(D)'
<1>1. /\ cfg \in Configs /\ p \in Ports /\ chan[p] \in Seq(Messages)
      /\ missed \in [Entities -> [Ports -> 0 .. Many]]
  BY ConfigFacts DEF Inv, TypeOK
<1>2. /\ chan[p] # <<>> /\ chan' = [chan EXCEPT ![p] = Tail(@)]
      /\ UNCHANGED <<cfg, ent, running>> /\ disc' = disc
  BY DEF Lose
<1>3. PICK m \in Messages : m = Head(chan[p])
  BY <1>1, <1>2, TailPositions
<1>4. m.entity \in Entities /\ m = chan[p][1]
  BY <1>1, <1>2, <1>3, TailPositions DEF Messages
<1>5. missed' = [missed EXCEPT ![m.entity][p] = IF @ < Many THEN @ + 1 ELSE @]
  BY <1>3 DEF Lose
<1>6. /\ \A e \in Entities, q \in Ports :
           ~(e = m.entity /\ q = p) => missed'[e][q] = missed[e][q]
      /\ missed'[m.entity][p] = IF missed[m.entity][p] < Many THEN missed[m.entity][p] + 1
                                ELSE missed[m.entity][p]
  BY <1>1, <1>4, <1>5
<1>7. missed[m.entity][p] \in 0 .. Many
  BY <1>1, <1>4
<1>8. \A e \in Entities : missed'[e][p] < Many => missed[e][p] < Many
  BY <1>1, <1>6, <1>7
<1>9. \A i \in Slots : disc[p][i].used => running /\ i \in cfg.slots
  BY <1>1 DEF ExpiryInv, SlotsUsed
<1>10. chan'[p] = Tail(chan[p])
  BY <1>1, <1>2 DEF Inv, TypeOK
<1>11. ASSUME NEW i \in Slots PROVE LivesNext(p, i, D)
  <2>1. SUFFICES ASSUME disc[p][i].used
                 PROVE  LET f == disc[p][i].info.entity
                        IN  Outlives(disc[p][i].timeout, Tail(chan[p]), f, ent[f], p, missed'[f][p], D)
    BY <1>2, <1>10 DEF LivesNext
  <2>2. PICK f \in Entities, n \in 0 .. Many :
           /\ f = disc[p][i].info.entity /\ n = missed[f][p]
           /\ ent[f] \in EntityStates /\ Sound(ent[f], D)
           /\ Outlives(disc[p][i].timeout, chan[p], f, ent[f], p, n, D)
           /\ n <= cfg.tolerates => ent[f].itf[p].op /\ Started(ent[f].itf[p])
    BY <1>1, <2>1, EntryFacts
  <2>3. n \in Nat
    BY DEF Many
  <2>4. CASE f # m.entity
    <3>1. ~Current(chan[p], f, ent[f].boot, 1)
      BY <1>4, <2>4 DEF Current
    <3>2. missed'[f][p] = n
      BY <1>1, <1>6, <2>2, <2>4
    <3> QED BY <1>1, <1>2, <2>2, <3>1, <3>2, OutlivesTail
  <2>5. CASE f = m.entity /\ n < Many
    <3>1. missed'[f][p] = n + 1
      BY <1>6, <2>2, <2>5
    <3>2. Outlives(disc[p][i].timeout, Tail(chan[p]), f, ent[f], p, n + 1, D)
      BY <1>1, <1>2, <2>2, <2>3, OutlivesLost
    <3> QED BY <2>2, <3>1, <3>2
  <2>6. CASE f = m.entity /\ ~(n < Many)
    <3>1. missed'[f][p] = n
      BY <1>6, <2>2, <2>6
    <3>2. ~(n <= cfg.tolerates)
      BY <1>1, <2>3, <2>6, ToleranceFacts DEF Many
    <3> QED BY <2>2, <3>1, <3>2 DEF Outlives
  <2> QED BY <2>4, <2>5, <2>6
<1> QED BY <1>1, <1>2, <1>6, <1>8, <1>9, <1>11, HeadExpiry

LEMMA ReceiveExpiry ==
  ASSUME Inv, NEW D \in Nat, Suits(cfg, D), ExpiryInv(D), NEW p \in cfg.ports, Receive(p)
  PROVE  ExpiryInv(D)'
<1>1. /\ cfg \in Configs /\ p \in Ports /\ chan[p] \in Seq(Messages)
      /\ missed \in [Entities -> [Ports -> 0 .. Many]] /\ GoodList(cfg.slots, disc[p])
      /\ disc \in [Ports -> [Slots -> Entries]] /\ ent \in [Entities -> EntityStates]
  BY ConfigFacts DEF Inv, TypeOK
<1>2. /\ chan[p] # <<>> /\ chan' = [chan EXCEPT ![p] = Tail(@)] /\ UNCHANGED <<cfg, ent, running>>
  BY DEF Receive
<1>3. PICK m \in Messages : m = Head(chan[p])
  BY <1>1, <1>2, TailPositions
<1>4. m.entity \in Entities /\ m = chan[p][1] /\ 1 \in 1 .. Len(chan[p])
  BY <1>1, <1>2, <1>3, TailPositions DEF Messages
<1>5. \A i \in Slots : disc[p][i].used => running /\ i \in cfg.slots
  BY <1>1 DEF ExpiryInv, SlotsUsed
<1>6. chan'[p] = Tail(chan[p])
  BY <1>1, <1>2 DEF Inv, TypeOK
\* An entry of another entity, or of one that takes leave, does not notice.
<1>7. ASSUME NEW i \in Slots, disc[p][i].used, disc'[p][i] = disc[p][i],
             m.type # "AVAILABLE" \/ disc[p][i].info.entity # m.entity,
             missed'[disc[p][i].info.entity][p] = missed[disc[p][i].info.entity][p]
      PROVE  LivesNext(p, i, D)
  <2>1. PICK f \in Entities :
           /\ f = disc[p][i].info.entity
           /\ Outlives(disc[p][i].timeout, chan[p], f, ent[f], p, missed[f][p], D)
    BY <1>1, <1>7, EntryFacts
  <2>2. ~Current(chan[p], f, ent[f].boot, 1)
    BY <1>4, <1>7, <2>1 DEF Current
  <2>3. Outlives(disc[p][i].timeout, Tail(chan[p]), f, ent[f], p, missed[f][p], D)
    BY <1>1, <1>2, <2>1, <2>2, OutlivesTail
  <2> QED BY <1>2, <1>6, <1>7, <2>1, <2>3 DEF LivesNext
<1>8. CASE ~running
  <2>1. disc' = disc /\ missed' = missed
    BY <1>8 DEF Receive
  <2>2. \A i \in Slots : LivesNext(p, i, D)
    BY <1>5, <1>8, <2>1 DEF LivesNext
  <2> QED BY <1>1, <1>2, <1>5, <2>1, <2>2, HeadExpiry
<1>9. CASE running /\ m.type # "AVAILABLE"
  <2>1. PICK n : n = DiscoveryRemove(disc[p], m, told[p]).list
    OBVIOUS
  <2>2. disc' = [disc EXCEPT ![p] = n] /\ missed' = missed
    BY <1>3, <1>9, <2>1 DEF Receive
  <2>3. \A i \in Slots : n[i].used => n[i] = disc[p][i]
    <3>1. PICK l \in [Slots -> Entries] : l = disc[p]
      BY <1>1
    <3>2. n = DiscoveryRemove(l, m, told[p]).list
      BY <2>1, <3>1
    <3> QED BY <3>1, <3>2, RemoveLife
  <2>4. disc'[p] = n /\ \A q \in Ports : q # p => disc'[q] = disc[q]
    BY <1>1, <2>2
  <2>5. \A i \in Slots : disc'[p][i].used => running /\ i \in cfg.slots
    BY <1>5, <2>3, <2>4
  <2>6. ASSUME NEW i \in Slots PROVE LivesNext(p, i, D)
    <3>1. CASE n[i].used
      BY <1>7, <1>9, <2>2, <2>3, <2>4, <3>1
    <3>2. CASE ~n[i].used
      BY <2>4, <3>2 DEF LivesNext
    <3> QED BY <3>1, <3>2
  <2> QED BY <1>1, <1>2, <2>2, <2>4, <2>5, <2>6, HeadExpiry
<1>10. CASE running /\ m.type = "AVAILABLE"
  <2>1. PICK n : n = DiscoveryUpdate(disc[p], m, told[p]).list
    OBVIOUS
  <2>2. /\ disc' = [disc EXCEPT ![p] = n]
        /\ missed' = [missed EXCEPT ![m.entity][p] =
                        IF ent[m.entity].boot = m.boot /\ ent[m.entity].itf[p].op THEN 0 ELSE @]
    BY <1>3, <1>10, <2>1 DEF Receive
  <2>3. Renewed(n, disc[p], m)
    BY <1>1, <1>5, <2>1, UpdateLife
  <2>4. disc'[p] = n /\ \A q \in Ports : q # p => disc'[q] = disc[q]
    BY <1>1, <2>2
  <2>5. \A i \in Slots : disc'[p][i].used => running /\ i \in cfg.slots
    BY <1>10, <2>3, <2>4 DEF Renewed
  <2>6. /\ \A e \in Entities, q \in Ports :
             ~(e = m.entity /\ q = p) => missed'[e][q] = missed[e][q]
        /\ missed'[m.entity][p] = IF ent[m.entity].boot = m.boot /\ ent[m.entity].itf[p].op
                                  THEN 0 ELSE missed[m.entity][p]
    BY <1>1, <1>4, <2>2
  <2>7. SentOK(m, p) /\ Sound(ent[m.entity], D) /\ HeardOK(m.entity, p)
        /\ ent[m.entity] \in EntityStates
    BY <1>1, <1>4 DEF ExpiryInv
  <2>8. ent[m.entity].itf[p].op => ent[m.entity].on
    BY <1>1, <2>7 DEF Sound, NewEntity, NewInterface
  <2>9. ent[m.entity].boot = m.boot /\ ent[m.entity].itf[p].op =>
          m.entity \in cfg.entities /\ ent[m.entity].itf[p].op /\ Started(ent[m.entity].itf[p])
    BY <1>10, <2>7, <2>8 DEF SentOK
  <2>10. missed'[m.entity][p] < Many =>
           m.entity \in cfg.entities /\ ent[m.entity].itf[p].op /\ Started(ent[m.entity].itf[p])
    BY <2>6, <2>7, <2>9 DEF HeardOK
  <2>11. \A e \in Entities : missed'[e][p] < Many =>
            \/ missed[e][p] < Many
            \/ e \in cfg.entities /\ ent[e].itf[p].op /\ Started(ent[e].itf[p])
    BY <1>1, <2>6, <2>10
  <2>12. ASSUME NEW i \in Slots PROVE LivesNext(p, i, D)
    <3>1. CASE ~n[i].used
      BY <2>4, <3>1 DEF LivesNext
    <3>2. CASE n[i].used /\ n[i] = disc[p][i] /\ n[i].info.entity # m.entity
      <4>1. disc[p][i].used /\ disc'[p][i] = disc[p][i] /\ disc[p][i].info.entity # m.entity
        BY <2>4, <3>2
      <4>2. disc[p][i].info.entity \in Entities
        BY <1>1, <4>1 DEF GoodList
      <4>3. missed'[disc[p][i].info.entity][p] = missed[disc[p][i].info.entity][p]
        BY <1>1, <2>6, <4>1, <4>2
      <4> QED BY <1>7, <4>1, <4>3
    <3>3. CASE n[i].info.entity = m.entity /\ n[i].timeout = cfg.valid
      <4>1. PICK k \in Nat : k = missed'[m.entity][p]
        <5>1. missed[m.entity][p] \in 0 .. Many
          BY <1>1, <1>4
        <5>2. missed[m.entity][p] \in Nat
          BY <5>1 DEF Many
        <5> QED BY <2>6, <5>2
      <4>2. k <= cfg.tolerates => k < Many
        BY <1>1, ToleranceFacts DEF Many
      <4>3. k <= cfg.tolerates =>
              Started(ent[m.entity].itf[p]) /\ ent[m.entity].itf[p].op
        BY <2>10, <4>1, <4>2
      <4>4. Outlives(cfg.valid, Tail(chan[p]), m.entity, ent[m.entity], p, k, D)
        BY <1>1, <2>7, <4>3, OutlivesFresh
      <4> QED BY <1>2, <1>6, <2>4, <3>3, <4>1, <4>4 DEF LivesNext
    <3> QED BY <2>3, <3>1, <3>2, <3>3 DEF Renewed
  <2> QED BY <1>1, <1>2, <2>4, <2>5, <2>6, <2>11, <2>12, HeadExpiry
<1> QED BY <1>8, <1>9, <1>10 DEF Inv, TypeOK


\* The lists lose entries; nothing else changes that matters to them.
LEMMA ListsExpiry ==
  ASSUME Inv, NEW D \in Nat, Suits(cfg, D), ExpiryInv(D), UNCHANGED <<cfg, ent, chan, missed>>,
         \A p \in Ports, i \in Slots :
            disc'[p][i].used => running' /\ disc'[p][i] = disc[p][i]
  PROVE  ExpiryInv(D)'
<1>1. cfg' = cfg /\ ent' = ent /\ chan' = chan /\ missed' = missed
  OBVIOUS
<1>2. \A e \in Entities : Sound(ent'[e], D)
  BY <1>1 DEF ExpiryInv
<1>3. SlotsUsed'
  BY <1>1 DEF SlotsUsed, ExpiryInv
<1>4. ASSUME NEW q \in Ports, NEW j \in 1 .. Len(chan'[q]) PROVE SentOK(chan[q][j], q)'
  <2>1. SentOK(chan[q][j], q)
    BY <1>1, <1>4 DEF ExpiryInv
  <2> QED BY <1>1, <2>1 DEF SentOK, Started
<1>5. ASSUME NEW f \in Entities, NEW q \in Ports PROVE HeardOK(f, q)'
  <2>1. HeardOK(f, q)
    BY DEF ExpiryInv
  <2> QED BY <1>1, <2>1 DEF HeardOK, Started
<1>6. ASSUME NEW q \in Ports, NEW i \in Slots PROVE LivesNext(q, i, D)
  <2>1. CASE ~disc'[q][i].used
    BY <2>1 DEF LivesNext
  <2>2. CASE disc'[q][i].used
    <3>1. disc'[q][i] = disc[q][i] /\ disc[q][i].used
      BY <2>2
    <3>2. Lives(q, i, D)
      BY DEF ExpiryInv
    <3> QED BY <1>1, <3>1, <3>2 DEF LivesNext, Lives
  <2> QED BY <2>1, <2>2
<1> QED BY <1>1, <1>2, <1>3, <1>4, <1>5, <1>6, ExpiryFrom

LEMMA TimeoutExpiry ==
  ASSUME Inv, NEW D \in Nat, Suits(cfg, D), ExpiryInv(D), NEW p \in cfg.ports,
         NEW i \in cfg.slots, DiscoveryTimeout(p, i)
  PROVE  ExpiryInv(D)'
<1>1. p \in Ports /\ disc \in [Ports -> [Slots -> Entries]]
  BY ConfigFacts DEF Inv, TypeOK
<1>2. disc' = [disc EXCEPT ![p] = Put(disc[p], i)] /\ UNCHANGED <<cfg, ent, chan, missed>>
      /\ running' = running
  BY <1>1 DEF DiscoveryTimeout
<1>3. disc'[p] = Put(disc[p], i) /\ \A q \in Ports : q # p => disc'[q] = disc[q]
  BY <1>1, <1>2
<1>4. \A j \in Slots : disc'[p][j].used => disc'[p][j] = disc[p][j]
  <2>1. PICK l \in [Slots -> Entries] : l = disc[p]
    BY <1>1
  <2> QED BY <1>3, <2>1, PutLife
<1>5. \A q \in Ports, j \in Slots : disc[q][j].used => running
  BY DEF ExpiryInv, SlotsUsed
<1>6. \A q \in Ports, j \in Slots : disc'[q][j].used => running' /\ disc'[q][j] = disc[q][j]
  BY <1>2, <1>3, <1>4, <1>5
<1> QED BY <1>2, <1>6, ListsExpiry

LEMMA ConnectExpiry ==
  ASSUME Inv, NEW D \in Nat, Suits(cfg, D), ExpiryInv(D), Connect \/ DiscoveryExit
  PROVE  ExpiryInv(D)'
<1>1. UNCHANGED <<cfg, ent, chan, missed>>
  BY DEF Connect, DiscoveryInit, Discover, DiscoveryExit
<1>2. CASE Connect
  <2>1. disc' = disc /\ (running => running')
    BY <1>2 DEF Connect, DiscoveryInit, Discover
  <2>2. \A q \in Ports, j \in Slots : disc[q][j].used => running
    BY DEF ExpiryInv, SlotsUsed
  <2> QED BY <1>1, <2>1, <2>2, ListsExpiry
<1>3. CASE DiscoveryExit
  <2>1. \A q \in Ports, j \in Slots : disc'[q][j] = NoEntry
    BY <1>3 DEF DiscoveryExit, EmptyLists
  <2>2. \A q \in Ports, j \in Slots : ~disc'[q][j].used
    BY <2>1 DEF NoEntry
  <2> QED BY <1>1, <2>2, ListsExpiry
<1> QED BY <1>2, <1>3

-----------------------------------------------------------------------------
(* Only the entities and ports of the configuration do anything.           *)

Confined ==
    \A e \in Entities :
        /\ e \notin cfg.entities => ~ent[e].on
        /\ \A q \in Ports : q \notin cfg.ports => ~Started(ent[e].itf[q])

Outside(x, y) ==
    \A q \in Ports : q \notin cfg.ports => (Started(y.itf[q]) => Started(x.itf[q]))

LEMMA UpdatedOutside ==
  ASSUME cfg \in Configs, NEW x \in EntityStates, NEW y \in Updated(x)
  PROVE  Outside(x, y)
<1>1. CASE ~x.ready
  BY <1>1 DEF Updated, Outside
<1>2. CASE x.ready /\ cfg.milan
  <2>1. PICK ds \in [cfg.ports -> cfg.delays] :
          y = [x EXCEPT !.itf = [p \in Ports |->
                  IF p \in cfg.ports THEN MilanSm(x.itf[p], "START", ds[p]) ELSE x.itf[p]]]
    BY <1>2 DEF Updated, EntityStates
  <2>2. y.on = x.on /\ \A q \in Ports : q \notin cfg.ports => y.itf[q] = x.itf[q]
    BY <2>1 DEF EntityStates
  <2> QED BY <2>2 DEF Outside
<1>3. CASE x.ready /\ ~cfg.milan
  <2>1. PICK d \in cfg.delays : y = IeeeBegin(x, d)
    BY <1>3 DEF Updated
  <2>2. y.on = x.on /\ \A q \in Ports : q \notin cfg.ports => y.itf[q] = x.itf[q]
    BY <2>1 DEF IeeeBegin, EntityStates
  <2> QED BY <2>2 DEF Outside
<1> QED BY <1>1, <1>2, <1>3

LEMMA EventOutside ==
  ASSUME cfg \in Configs, NEW x \in EntityStates, NEW p \in cfg.ports, NEW event, NEW d
  PROVE  Outside(x, InterfaceEvent(x, p, event, d))
<1> DEFINE y == InterfaceEvent(x, p, event, d)
<1>0. p \in Ports
  BY ConfigFacts
<1>1. y.on = x.on /\ \A q \in Ports : q # p => y.itf[q] = x.itf[q]
  <2>1. CASE y = [x EXCEPT !.itf[p] = MilanSm(x.itf[p], event, d)]
    BY <2>1 DEF EntityStates
  <2>2. CASE y = IeeeSm(x, p, event, d)
    <3>1. IeeeAdvertise(x, d).on = x.on /\ IeeeAdvertise(x, d).itf = x.itf
      BY DEF IeeeAdvertise, EntityStates
    <3>2. PICK z : z = IeeeAdvertise(x, d)
      OBVIOUS
    <3>3. [z EXCEPT !.itf[p].st = "WAITING"].on = x.on
          /\ \A q \in Ports : q # p => [z EXCEPT !.itf[p].st = "WAITING"].itf[q] = x.itf[q]
      <4>1. z = x \/ z = [x EXCEPT !.st = "DELAY", !.reannounce = Off,
                                   !.index = NextIndex(x.index), !.delay = Start(x.delay, d)]
        BY <3>2 DEF IeeeAdvertise, EntityStates
      <4> QED BY <4>1 DEF EntityStates
    <3>4. [x EXCEPT !.itf[p].st = "LINK_DOWN"].on = x.on
          /\ \A q \in Ports : q # p => [x EXCEPT !.itf[p].st = "LINK_DOWN"].itf[q] = x.itf[q]
      BY DEF EntityStates
    <3>5. y \in {x, z, [z EXCEPT !.itf[p].st = "WAITING"], [x EXCEPT !.itf[p].st = "LINK_DOWN"]}
      BY <2>2, <3>2 DEF IeeeSm
    <3> HIDE DEF y
    <3> QED BY <3>1, <3>2, <3>3, <3>4, <3>5
  <2>3. CASE y = x
    BY <2>3
  <2> QED BY <2>1, <2>2, <2>3 DEF InterfaceEvent
<1> HIDE DEF y
<1>2. Outside(x, y)
  BY <1>0, <1>1 DEF Outside
<1> QED BY <1>2 DEF y


LEMMA ConfinedStep ==
  ASSUME Inv, Confined, cfg' = cfg, NEW e \in cfg.entities, NEW y,
         ent' = [ent EXCEPT ![e] = y], Outside(ent[e], y)
  PROVE  Confined'
<1>1. e \in Entities /\ ent \in [Entities -> EntityStates]
  BY ConfigFacts DEF Inv, TypeOK
<1>2. ent'[e] = y /\ \A f \in Entities : f # e => ent'[f] = ent[f]
  BY <1>1
<1>3. ASSUME NEW f \in Entities
      PROVE  /\ f \notin cfg.entities => ~ent'[f].on
             /\ \A q \in Ports : q \notin cfg.ports => ~Started(ent'[f].itf[q])
  <2>1. CASE f = e
    BY <1>1, <1>2, <2>1 DEF Confined, Outside
  <2>2. CASE f # e
    BY <1>2, <2>2 DEF Confined
  <2> QED BY <2>1, <2>2
<1> QED BY <1>3 DEF Confined, Started

LEMMA ConfinedNext == Inv /\ Confined /\ [Next]_vars => Confined'
<1> SUFFICES ASSUME Inv, Confined, [Next]_vars PROVE Confined'
  OBVIOUS
<1>1. /\ cfg \in Configs /\ ent \in [Entities -> EntityStates] /\ cfg.delays \subseteq Nat
      /\ cfg.ports \subseteq Ports /\ cfg.entities \subseteq Entities /\ cfg.gms \subseteq Nat
  BY ConfigFacts DEF Inv, TypeOK
<1>2. ASSUME UNCHANGED <<cfg, ent>> PROVE Confined'
  BY <1>2 DEF Confined, Started
<1>3. ASSUME NEW e \in cfg.entities, Boot(e) \/ \E S : Stop(e, S) PROVE Confined'
  <2>1. PICK b, on, ready : ent' = [ent EXCEPT ![e] = NewEntity(b, on, ready)]
    BY <1>1, <1>3 DEF Boot, Stop
  <2>2. \A q \in Ports : ~Started(NewEntity(b, on, ready).itf[q])
    BY DEF NewEntity, NewInterface, Started
  <2>3. Outside(ent[e], NewEntity(b, on, ready)) /\ cfg' = cfg
    BY <1>3, <2>2 DEF Outside, Boot, Stop
  <2> QED BY <2>1, <2>3, ConfinedStep
<1>4. ASSUME NEW e \in cfg.entities, Heartbeat(e) PROVE Confined'
  <2>1. PICK y \in Updated([ent[e] EXCEPT !.ready = TRUE]) : ent' = [ent EXCEPT ![e] = y]
    BY <1>4 DEF Heartbeat
  <2>2. PICK x : x = [ent[e] EXCEPT !.ready = TRUE]
    OBVIOUS
  <2>3. x \in EntityStates /\ x.itf = ent[e].itf
    BY <1>1, <2>2 DEF EntityStates
  <2>4. Outside(x, y)
    BY <1>1, <2>1, <2>2, <2>3, UpdatedOutside
  <2>5. Outside(ent[e], y) /\ cfg' = cfg
    BY <1>4, <2>3, <2>4 DEF Outside, Heartbeat
  <2> QED BY <2>1, <2>5, ConfinedStep
<1>5. ASSUME NEW e \in cfg.entities, NEW p \in cfg.ports, NEW g \in cfg.gms, GmStatus(e, p, g)
      PROVE  Confined'
  <2>1. PICK y \in Updated([ent[e] EXCEPT !.itf[p].gm = g]), d \in cfg.delays :
          ent' = [ent EXCEPT ![e] = InterfaceEvent(y, p, "GM_CHANGE", d)]
    BY <1>5 DEF GmStatus
  <2>2. PICK x : x = [ent[e] EXCEPT !.itf[p].gm = g]
    OBVIOUS
  <2>3. x \in EntityStates
    <3>1. ent[e] \in EntityStates /\ p \in Ports /\ g \in Nat
      BY <1>1
    <3> QED BY <2>2, <3>1 DEF EntityStates, InterfaceStates
  <2>4. \A q \in Ports : q # p => x.itf[q] = ent[e].itf[q]
    BY <1>1, <2>2 DEF EntityStates
  <2>5. Outside(x, y) /\ y \in EntityStates
    BY <1>1, <2>1, <2>2, <2>3, UpdatedOutside, UpdatedType
  <2>6. PICK z : z = InterfaceEvent(y, p, "GM_CHANGE", d)
    OBVIOUS
  <2>7. Outside(y, z)
    BY <1>1, <2>5, <2>6, EventOutside
  <2>8. Outside(ent[e], z) /\ cfg' = cfg
    BY <1>5, <2>4, <2>5, <2>7 DEF Outside, GmStatus
  <2> QED BY <2>1, <2>6, <2>8, ConfinedStep
<1>6. ASSUME NEW e \in cfg.entities, NEW p \in cfg.ports, PortUp(e, p) \/ PortDown(e, p)
      PROVE  Confined'
  <2>1. PICK d \in cfg.delays, event \in {"LINK_UP", "LINK_DOWN"}, up \in BOOLEAN :
          ent' = [ent EXCEPT ![e] = [InterfaceEvent(ent[e], p, event, d) EXCEPT !.itf[p].op = up]]
    BY <1>6 DEF PortUp, PortDown
  <2>2. PICK z : z = InterfaceEvent(ent[e], p, event, d)
    OBVIOUS
  <2>3. ent[e] \in EntityStates /\ p \in Ports /\ d \in Nat
    BY <1>1, <2>1
  <2>4. z \in EntityStates
    BY <2>2, <2>3, InterfaceEventType
  <2>5. Outside(ent[e], z)
    BY <1>1, <2>2, <2>3, EventOutside
  <2>6. PICK y : y = [z EXCEPT !.itf[p].op = up]
    OBVIOUS
  <2>7. \A q \in Ports : q # p => y.itf[q] = z.itf[q]
    BY <2>4, <2>6 DEF EntityStates
  <2>8. Outside(ent[e], y) /\ cfg' = cfg
    BY <1>6, <2>5, <2>7 DEF Outside, PortUp, PortDown
  <2> QED BY <2>1, <2>2, <2>6, <2>8, ConfinedStep
<1>7. ASSUME NEW e \in cfg.entities, NEW p \in cfg.ports, DiscoverRcv(e, p) PROVE Confined'
  <2>1. PICK d \in cfg.delays : ent' = [ent EXCEPT ![e] = InterfaceEvent(ent[e], p, "DISCOVER", d)]
    BY <1>1, <1>7 DEF DiscoverRcv
  <2>2. Outside(ent[e], InterfaceEvent(ent[e], p, "DISCOVER", d)) /\ cfg' = cfg
    BY <1>1, <1>7, EventOutside DEF DiscoverRcv
  <2> QED BY <2>1, <2>2, ConfinedStep
<1>8. ASSUME NEW e \in cfg.entities, NEW p \in cfg.ports,
             MilanDelayTimeout(e, p) \/ MilanAdvertiseTimeout(e, p)
      PROVE  Confined'
  <2>1. cfg' = cfg /\ p \in Ports /\ e \in Entities
    BY <1>1, <1>8 DEF MilanDelayTimeout, MilanAdvertiseTimeout
  <2>2. \A f \in Entities : f # e => ent'[f] = ent[f]
    BY <1>1, <1>8 DEF MilanDelayTimeout, MilanAdvertiseTimeout
  <2>3. \A q \in Ports : q # p => ent'[e].itf[q] = ent[e].itf[q]
    <3>1. ent[e] \in EntityStates
      BY <1>1
    <3>2. CASE MilanDelayTimeout(e, p)
      <4>1. PICK x : x = [ent[e] EXCEPT !.itf[p].delay = Off]
        OBVIOUS
      <4>2. ent'[e] = [x EXCEPT !.index = NextIndex(@), !.itf[p].st = "WAITING",
                                !.itf[p].adv = Start(@, cfg.interval)]
        BY <1>1, <2>1, <3>2, <4>1 DEF MilanDelayTimeout
      <4>3. \A q \in Ports : q # p => x.itf[q] = ent[e].itf[q]
        BY <3>1, <4>1 DEF EntityStates
      <4>4. \A q \in Ports : q # p => ent'[e].itf[q] = x.itf[q]
        <5>1. x \in EntityStates
          <6>1. ent[e].itf[p] \in InterfaceStates
            BY <2>1, <3>1 DEF EntityStates
          <6>2. [ent[e].itf[p] EXCEPT !.delay = Off] \in InterfaceStates
            BY <6>1, OffType DEF InterfaceStates
          <6> QED BY <2>1, <3>1, <4>1, <6>2 DEF EntityStates
        <5> QED BY <4>2, <5>1 DEF EntityStates
      <4> QED BY <4>3, <4>4
    <3>3. CASE MilanAdvertiseTimeout(e, p)
      <4>1. PICK k : ent' = [ent EXCEPT ![e].itf[p] = k]
        BY <1>1, <3>3 DEF MilanAdvertiseTimeout
      <4> QED BY <1>1, <2>1, <3>1, <4>1 DEF EntityStates
    <3> QED BY <1>8, <3>2, <3>3
  <2>4. ASSUME NEW f \in Entities
        PROVE  /\ f \notin cfg.entities => ~ent'[f].on
               /\ \A q \in Ports : q \notin cfg.ports => ~Started(ent'[f].itf[q])
    <3>1. CASE f = e
      BY <1>1, <2>3, <3>1 DEF Confined
    <3>2. CASE f # e
      BY <2>2, <3>2 DEF Confined
    <3> QED BY <3>1, <3>2
  <2> QED BY <2>1, <2>4 DEF Confined, Started
<1>9. ASSUME NEW e \in cfg.entities, IeeeDelayTimeout(e) \/ IeeeReannounceTimeout(e)
      PROVE  Confined'
  <2>1. cfg' = cfg /\ e \in Entities /\ ent[e] \in EntityStates
    BY <1>1, <1>9 DEF IeeeDelayTimeout, IeeeReannounceTimeout
  <2>2. \A f \in Entities : f # e => ent'[f] = ent[f]
    BY <1>1, <1>9 DEF IeeeDelayTimeout, IeeeReannounceTimeout
  <2>3. ent'[e].itf = ent[e].itf
    <3>1. CASE IeeeDelayTimeout(e)
      BY <1>1, <2>1, <3>1 DEF IeeeDelayTimeout, EntityStates
    <3>2. CASE IeeeReannounceTimeout(e)
      <4>1. PICK d : ent' = [ent EXCEPT ![e] = IeeeAdvertise(ent[e], d)]
        BY <1>1, <3>2 DEF IeeeReannounceTimeout
      <4>2. IeeeAdvertise(ent[e], d).itf = ent[e].itf
        BY <2>1 DEF IeeeAdvertise, EntityStates
      <4> QED BY <1>1, <2>1, <4>1, <4>2
    <3> QED BY <1>9, <3>1, <3>2
  <2>4. ASSUME NEW f \in Entities
        PROVE  /\ f \notin cfg.entities => ~ent'[f].on
               /\ \A q \in Ports : q \notin cfg.ports => ~Started(ent'[f].itf[q])
    <3>1. CASE f = e
      BY <1>1, <2>3, <3>1 DEF Confined
    <3>2. CASE f # e
      BY <2>2, <3>2 DEF Confined
    <3> QED BY <3>1, <3>2
  <2> QED BY <2>1, <2>4 DEF Confined, Started
<1>10. ASSUME Tick PROVE Confined'
  <2>1. cfg' = cfg
    BY <1>10 DEF Tick
  <2>2. ASSUME NEW f \in Entities
        PROVE  ent'[f].on = ent[f].on /\ \A q \in Ports : ent'[f].itf[q].st = ent[f].itf[q].st
    <3>1. ent'[f] = [ent[f] EXCEPT !.delay = Less(@), !.reannounce = Less(@),
                       !.itf = [p \in Ports |->
                          [ent[f].itf[p] EXCEPT !.delay = Less(@), !.adv = Less(@)]]]
      BY <1>10 DEF Tick
    <3>2. ent[f] \in EntityStates
      BY <1>1
    <3>3. ent'[f].on = ent[f].on
      BY <3>1, <3>2 DEF EntityStates
    <3>4. ASSUME NEW q \in Ports PROVE ent'[f].itf[q].st = ent[f].itf[q].st
      <4>1. ent'[f].itf[q] = [ent[f].itf[q] EXCEPT !.delay = Less(@), !.adv = Less(@)]
        BY <3>1, <3>2 DEF EntityStates
      <4>2. ent[f].itf[q] \in InterfaceStates
        BY <3>2 DEF EntityStates
      <4> QED BY <4>1, <4>2 DEF InterfaceStates
    <3> QED BY <3>3, <3>4
  <2> QED BY <2>1, <2>2 DEF Confined, Started
<1>11. CASE UNCHANGED vars
  BY <1>2, <1>11 DEF vars
<1>12. CASE Next
  <2>1. CASE \E e \in cfg.entities : Boot(e) \/ Entity(e)
    BY <1>3, <1>4, <1>9, <2>1 DEF Entity
  <2>2. CASE \E e \in cfg.entities, p \in cfg.ports :
               Interface(e, p) \/ \E g \in cfg.gms : GmStatus(e, p, g)
    BY <1>5, <1>6, <1>7, <1>8, <2>2 DEF Interface
  <2>3. CASE Connect \/ Station \/ DiscoveryExit \/ \E p \in cfg.ports : Lose(p)
    <3>1. UNCHANGED <<cfg, ent>>
      BY <2>3 DEF Connect, DiscoveryInit, Discover, Station, Receive, DiscoveryTimeout,
                  DiscoveryExit, Lose
    <3> QED BY <1>2, <3>1
  <2>4. CASE Fault
    BY <1>3, <1>6, <2>3, <2>4 DEF Fault, Exit, Crash
  <2> QED BY <1>10, <1>12, <2>1, <2>2, <2>3, <2>4 DEF Next
<1> QED BY <1>11, <1>12


-----------------------------------------------------------------------------
(* A second passes.                                                        *)

LEMMA LessFacts ==
  ASSUME NEW t \in TimerValues, t # 0
  PROVE  /\ Less(t) = Off <=> t = Off
         /\ t \in Nat => Less(t) = t - 1 /\ Less(t) \in Nat
  BY DEF TimerValues, Less, Off

\* The timers of a machine a second later.
Later(st, delay, wait, delay2, wait2, D) ==
    /\ Counting(st, delay2, wait2, D)
    /\ st \in {"DELAY", "WAITING"} =>
         DueOf(st, delay2, wait2, D) = DueOf(st, delay, wait, D) - 1

\* A machine none of whose timers has expired.
LEMMA CountingLess ==
  ASSUME cfg \in Configs, NEW D \in Nat, NEW st, NEW delay \in TimerValues,
         NEW wait \in TimerValues, delay # 0, wait # 0, Counting(st, delay, wait, D)
  PROVE  Later(st, delay, wait, Less(delay), Less(wait), D)
<1>1. cfg.interval \in Nat
  BY ConfigFacts
<1>2. /\ Less(delay) = Off <=> delay = Off
      /\ delay \in Nat => Less(delay) = delay - 1 /\ Less(delay) \in Nat
  BY LessFacts
<1>3. /\ Less(wait) = Off <=> wait = Off
      /\ wait \in Nat => Less(wait) = wait - 1 /\ Less(wait) \in Nat
  BY LessFacts
<1>4. CASE st = "DELAY"
  <2>1. delay \in 0 .. D /\ wait = Off
    BY <1>4 DEF Counting
  <2>2. Less(delay) = delay - 1 /\ Less(delay) \in Nat /\ Less(wait) = Off
    BY <1>2, <1>3, <2>1
  <2> QED BY <1>4, <2>1, <2>2 DEF Counting, DueOf, Later
<1>5. CASE st = "WAITING"
  <2>1. wait \in 0 .. cfg.interval /\ delay = Off
    BY <1>5 DEF Counting
  <2>2. Less(wait) = wait - 1 /\ Less(wait) \in Nat /\ Less(delay) = Off
    BY <1>1, <1>2, <1>3, <2>1
  <2> QED BY <1>1, <1>5, <2>1, <2>2 DEF Counting, DueOf, Later
<1>6. CASE st \notin {"DELAY", "WAITING"}
  BY <1>2, <1>3, <1>6 DEF Counting, Later
<1> QED BY <1>4, <1>5, <1>6

\* What a second does to an entity.
TickOf(x, y) ==
    /\ y.on = x.on /\ y.ready = x.ready /\ y.boot = x.boot /\ y.st = x.st
    /\ y.delay = Less(x.delay) /\ y.reannounce = Less(x.reannounce)
    /\ \A q \in Ports : y.itf[q] = [x.itf[q] EXCEPT !.delay = Less(@), !.adv = Less(@)]

TickedAt(x, y, q, D) ==
    /\ Started(y.itf[q]) <=> Started(x.itf[q])
    /\ y.itf[q].op = x.itf[q].op
    /\ Started(x.itf[q]) /\ x.itf[q].op => Due(y, q, D) = Due(x, q, D) - 1

\* An entity none of whose timers has expired.
LEMMA TickSound ==
  ASSUME cfg \in Configs, NEW D \in Nat, NEW x \in EntityStates, Sound(x, D), x.on,
         x.delay # 0, x.reannounce # 0,
         \A q \in Ports : x.itf[q].delay # 0 /\ x.itf[q].adv # 0,
         NEW y, TickOf(x, y)
  PROVE  Sound(y, D) /\ \A q \in Ports : TickedAt(x, y, q, D)
<1>0. /\ y.on = x.on /\ y.ready = x.ready /\ y.boot = x.boot /\ y.st = x.st
      /\ y.delay = Less(x.delay) /\ y.reannounce = Less(x.reannounce)
      /\ \A q \in Ports : y.itf[q] = [x.itf[q] EXCEPT !.delay = Less(@), !.adv = Less(@)]
  BY DEF TickOf
<1>1. ASSUME NEW q \in Ports
      PROVE  /\ y.itf[q].st = x.itf[q].st /\ y.itf[q].delay = Less(x.itf[q].delay)
             /\ y.itf[q].adv = Less(x.itf[q].adv)
             /\ x.itf[q].delay \in TimerValues /\ x.itf[q].adv \in TimerValues
  <2>1. x.itf[q] \in InterfaceStates
    BY DEF EntityStates
  <2> QED BY <1>0, <2>1 DEF InterfaceStates
<1>2. ASSUME NEW q \in Ports PROVE y.itf[q].op = x.itf[q].op
  <2>1. x.itf[q] \in InterfaceStates
    BY DEF EntityStates
  <2> QED BY <1>0, <2>1 DEF InterfaceStates
<1>3. \A q \in Ports : Started(y.itf[q]) <=> Started(x.itf[q])
  BY <1>1 DEF Started
<1>4. CASE cfg.milan
  <2>1. x.delay = Off /\ x.reannounce = Off /\ y.delay = Off /\ y.reannounce = Off
    BY <1>0, <1>4 DEF Sound, Less
  <2>2. ASSUME NEW q \in Ports
        PROVE  /\ MilanSound(y.itf[q], D)
               /\ Started(x.itf[q]) /\ x.itf[q].op => Due(y, q, D) = Due(x, q, D) - 1
    <3>1. MilanSound(x.itf[q], D)
      BY <1>4 DEF Sound
    <3>2. Counting(x.itf[q].st, x.itf[q].delay, x.itf[q].adv, D)
      BY <3>1 DEF MilanSound
    <3>3. Later(x.itf[q].st, x.itf[q].delay, x.itf[q].adv, y.itf[q].delay, y.itf[q].adv, D)
      <4>1. x.itf[q].delay # 0 /\ x.itf[q].adv # 0
        OBVIOUS
      <4>2. Later(x.itf[q].st, x.itf[q].delay, x.itf[q].adv,
                  Less(x.itf[q].delay), Less(x.itf[q].adv), D)
        BY <1>1, <3>2, <4>1, CountingLess
      <4> QED BY <1>1, <4>2
    <3>4. MilanSound(y.itf[q], D)
      BY <1>1, <1>2, <1>3, <3>1, <3>3 DEF MilanSound, Later
    <3>5. Started(x.itf[q]) /\ x.itf[q].op => x.itf[q].st \in {"DELAY", "WAITING"}
      BY <3>1 DEF MilanSound
    <3> QED BY <1>1, <1>4, <3>3, <3>4, <3>5 DEF Due, Later
  <2>3. Sound(y, D)
    BY <1>0, <1>3, <1>4, <2>1, <2>2 DEF Sound
  <2> QED BY <1>2, <1>3, <2>2, <2>3 DEF TickedAt
<1>5. CASE ~cfg.milan
  <2>1. x.delay \in TimerValues /\ x.reannounce \in TimerValues
        /\ Counting(x.st, x.delay, x.reannounce, D)
    BY <1>5 DEF Sound, EntityStates
  <2>2. Later(x.st, x.delay, x.reannounce, y.delay, y.reannounce, D)
    <3>1. Later(x.st, x.delay, x.reannounce, Less(x.delay), Less(x.reannounce), D)
      BY <2>1, CountingLess
    <3> QED BY <1>0, <3>1
  <2>3. ASSUME NEW q \in Ports
        PROVE  /\ IeeeSound(y.itf[q]) /\ (Started(y.itf[q]) => Started(y))
               /\ Started(x.itf[q]) /\ x.itf[q].op => Due(y, q, D) = Due(x, q, D) - 1
    <3>1. IeeeSound(x.itf[q]) /\ (Started(x.itf[q]) => Started(x))
      BY <1>5 DEF Sound
    <3>2. IeeeSound(y.itf[q])
      BY <1>1, <1>2, <1>3, <3>1 DEF IeeeSound, Less
    <3>3. Started(x) => x.st \in {"DELAY", "WAITING"}
      BY DEF Started, EntityStates
    <3>4. Started(x) <=> Started(y)
      BY <1>0 DEF Started
    <3> QED BY <1>0, <1>3, <1>5, <2>2, <3>1, <3>2, <3>3, <3>4 DEF Due, Later
  <2>4. Sound(y, D)
    BY <1>0, <1>3, <1>5, <2>2, <2>3 DEF Sound, Later
  <2> QED BY <1>2, <1>3, <2>3, <2>4 DEF TickedAt
<1> QED BY <1>4, <1>5

LEMMA TickExpiry ==
  ASSUME Inv, Confined, NEW D \in Nat, Suits(cfg, D), ExpiryInv(D), Tick
  PROVE  ExpiryInv(D)'
<1>1. /\ cfg \in Configs /\ ent \in [Entities -> EntityStates]
      /\ disc \in [Ports -> [Slots -> Entries]]
  BY DEF Inv, TypeOK
<1>2. cfg' = cfg /\ chan' = chan /\ missed' = missed /\ running' = running
  BY DEF Tick
<1>3. /\ \A p \in cfg.ports : chan[p] = <<>>
      /\ \A e \in cfg.entities : ent[e].delay # 0 /\ ent[e].reannounce # 0
      /\ \A e \in cfg.entities, p \in cfg.ports : ent[e].itf[p].delay # 0 /\ ent[e].itf[p].adv # 0
      /\ \A p \in cfg.ports, i \in cfg.slots : disc[p][i].timeout # 0
  <2>1. 0 \notin Timers /\ \A p \in cfg.ports : chan[p] = <<>>
    BY DEF Tick
  <2>2. ASSUME NEW e \in cfg.entities PROVE ent[e].delay # 0 /\ ent[e].reannounce # 0
    <3>1. ent[e].delay \in Timers /\ ent[e].reannounce \in Timers
      BY SMT DEF Timers
    <3> QED BY <2>1, <3>1
  <2>3. ASSUME NEW e \in cfg.entities, NEW p \in cfg.ports
        PROVE  ent[e].itf[p].delay # 0 /\ ent[e].itf[p].adv # 0
    <3>0. PICK s : s = {ent[e].itf[p].delay, ent[e].itf[p].adv}
      OBVIOUS
    <3>1. s \in {{ent[g].itf[q].delay, ent[g].itf[q].adv} : g \in cfg.entities, q \in cfg.ports}
      BY <3>0
    <3>2. s \subseteq Timers
      BY <3>1 DEF Timers
    <3>3. ent[e].itf[p].delay \in s /\ ent[e].itf[p].adv \in s
      BY <3>0
    <3> QED BY <2>1, <3>2, <3>3
  <2>4. ASSUME NEW p \in cfg.ports, NEW i \in cfg.slots PROVE disc[p][i].timeout # 0
    <3>1. disc[p][i].timeout \in Timers
      BY SMT DEF Timers
    <3> QED BY <2>1, <3>1
  <2> QED BY <2>1, <2>2, <2>3, <2>4
<1>4. ASSUME NEW e \in Entities PROVE TickOf(ent[e], ent'[e])
  <2>1. ent'[e] = [ent[e] EXCEPT !.delay = Less(@), !.reannounce = Less(@),
                     !.itf = [p \in Ports |->
                        [ent[e].itf[p] EXCEPT !.delay = Less(@), !.adv = Less(@)]]]
    BY DEF Tick
  <2>2. ent[e] \in EntityStates
    BY <1>1
  <2> QED BY <2>1, <2>2 DEF EntityStates, TickOf
<1>5. ASSUME NEW e \in Entities, ~ent[e].on PROVE ent'[e] = ent[e]
  <2>1. PICK x : x = ent[e]
    OBVIOUS
  <2>2. x = NewEntity(x.boot, FALSE, FALSE)
    BY <1>5, <2>1 DEF ExpiryInv, Sound
  <2>3. ent'[e] = [x EXCEPT !.delay = Less(@), !.reannounce = Less(@),
                     !.itf = [p \in Ports |->
                        [x.itf[p] EXCEPT !.delay = Less(@), !.adv = Less(@)]]]
    BY <2>1 DEF Tick
  <2>4. Less(Off) = Off
    BY DEF Less
  <2>5. x.delay = Off /\ x.reannounce = Off /\ x.itf = [p \in Ports |-> NewInterface]
    BY <2>2 DEF NewEntity
  <2>6. [NewInterface EXCEPT !.delay = Less(@), !.adv = Less(@)] = NewInterface
    <3>1. PICK i : i = NewInterface
      OBVIOUS
    <3>2. i \in InterfaceStates /\ i.delay = Off /\ i.adv = Off
      BY <3>1, OffType DEF NewInterface, InterfaceStates
    <3>3. [i EXCEPT !.delay = Off, !.adv = Off] = i
      BY <3>2 DEF InterfaceStates
    <3>4. [i EXCEPT !.delay = Less(i.delay), !.adv = Less(i.adv)] = i
      BY <2>4, <3>2, <3>3
    <3> QED BY <3>1, <3>4
  <2>7. [p \in Ports |-> [x.itf[p] EXCEPT !.delay = Less(@), !.adv = Less(@)]] = x.itf
    BY <2>5, <2>6
  <2>8. x \in EntityStates
    BY <1>1, <2>1
  <2>9. [x EXCEPT !.delay = x.delay, !.reannounce = x.reannounce, !.itf = x.itf] = x
    BY <2>8 DEF EntityStates
  <2>10. Less(x.delay) = x.delay /\ Less(x.reannounce) = x.reannounce
    BY <2>4, <2>5
  <2>11. ent'[e] = [x EXCEPT !.delay = x.delay, !.reannounce = x.reannounce, !.itf = x.itf]
    BY <2>3, <2>7, <2>10
  <2> QED BY <2>1, <2>9, <2>11
<1>6. ASSUME NEW e \in Entities, ent[e].on
      PROVE  Sound(ent'[e], D) /\ \A q \in Ports : TickedAt(ent[e], ent'[e], q, D)
  <2>1. e \in cfg.entities
    BY <1>6 DEF Confined
  <2>2. PICK x \in EntityStates : x = ent[e]
    BY <1>1
  <2>3. Sound(x, D)
    BY <2>2 DEF ExpiryInv
  <2>4. ASSUME NEW q \in Ports PROVE x.itf[q].delay # 0 /\ x.itf[q].adv # 0
    <3>1. CASE q \in cfg.ports
      BY <1>3, <2>1, <2>2, <3>1
    <3>2. CASE q \notin cfg.ports
      <4>1. ~Started(x.itf[q])
        BY <2>2, <3>2 DEF Confined
      <4>2. x.itf[q].delay = Off /\ x.itf[q].adv = Off
        <5>1. CASE cfg.milan
          BY <2>3, <4>1, <5>1 DEF Sound, MilanSound, Counting, Started
        <5>2. CASE ~cfg.milan
          BY <2>3, <5>2 DEF Sound, IeeeSound
        <5> QED BY <5>1, <5>2
      <4> QED BY <4>2 DEF Off
    <3> QED BY <3>1, <3>2
  <2>5. PICK y : y = ent'[e]
    OBVIOUS
  <2>6. TickOf(x, y)
    BY <1>4, <2>2, <2>5
  <2>7. x.on /\ x.delay # 0 /\ x.reannounce # 0
    BY <1>3, <1>6, <2>1, <2>2
  <2>8. Sound(y, D) /\ \A q \in Ports : TickedAt(x, y, q, D)
    BY <1>1, <2>3, <2>4, <2>6, <2>7, TickSound
  <2> QED BY <2>2, <2>5, <2>8
<1>7. ASSUME NEW e \in Entities
      PROVE  /\ Sound(ent'[e], D)
             /\ \A q \in Ports : /\ Started(ent'[e].itf[q]) <=> Started(ent[e].itf[q])
                                 /\ ent'[e].itf[q].op = ent[e].itf[q].op
  <2>1. CASE ent[e].on
    BY <1>6, <2>1 DEF TickedAt
  <2>2. CASE ~ent[e].on
    BY <1>5, <2>2 DEF ExpiryInv
  <2> QED BY <2>1, <2>2
<1>8. ASSUME NEW p \in Ports, NEW i \in Slots
      PROVE  /\ disc'[p][i].info = disc[p][i].info
             /\ disc'[p][i].used <=> disc[p][i].used
             /\ disc'[p][i].timeout = Less(disc[p][i].timeout)
  <2>1. disc'[p][i] = [disc[p][i] EXCEPT !.timeout = Less(@)]
    BY DEF Tick
  <2>2. disc[p][i] \in Entries
    BY <1>1
  <2> QED BY <2>1, <2>2 DEF Entries
<1>9. SlotsUsed'
  BY <1>2, <1>8 DEF SlotsUsed, ExpiryInv
<1>10. ASSUME NEW q \in Ports, NEW j \in 1 .. Len(chan'[q]) PROVE SentOK(chan[q][j], q)'
  <2>1. PICK m : m = chan[q][j]
    OBVIOUS
  <2>2. SentOK(m, q)
    BY <1>2, <1>10, <2>1 DEF ExpiryInv
  <2>3. m.entity \in Entities
    BY <1>1, <2>2, ConfigFacts DEF SentOK
  <2>4. ent'[m.entity].boot = ent[m.entity].boot /\ ent'[m.entity].on = ent[m.entity].on
    BY <1>4, <2>3 DEF TickOf
  <2> QED BY <1>2, <1>7, <2>1, <2>2, <2>3, <2>4 DEF SentOK, Started
<1>11. ASSUME NEW f \in Entities, NEW q \in Ports PROVE HeardOK(f, q)'
  <2>1. HeardOK(f, q)
    BY DEF ExpiryInv
  <2> QED BY <1>2, <1>7, <2>1 DEF HeardOK, Started
<1>12. ASSUME NEW p \in Ports, NEW i \in Slots PROVE LivesNext(p, i, D)
  <2>1. SUFFICES ASSUME disc[p][i].used
                 PROVE  LET f == disc[p][i].info.entity
                        IN  Outlives(Less(disc[p][i].timeout), chan[p], f, ent'[f], p, missed[f][p], D)
    BY <1>2, <1>8 DEF LivesNext
  <2>2. PICK f \in Entities, t \in TimerValues, n \in 0 .. Many :
           /\ f = disc[p][i].info.entity /\ t = disc[p][i].timeout /\ n = missed[f][p]
           /\ ent[f] \in EntityStates /\ Sound(ent[f], D) /\ i \in cfg.slots
           /\ Outlives(t, chan[p], f, ent[f], p, n, D)
           /\ n <= cfg.tolerates => /\ f \in cfg.entities /\ p \in cfg.ports
                                    /\ ent[f].itf[p].op /\ Started(ent[f].itf[p])
    BY <2>1, EntryFacts
  <2>3. CASE ~(n <= cfg.tolerates)
    BY <2>2, <2>3 DEF Outlives
  <2>4. CASE n <= cfg.tolerates
    <3>1. ent[f].itf[p].op /\ Started(ent[f].itf[p]) /\ chan[p] = <<>> /\ t # 0
      <4>1. ent[f].itf[p].op /\ Started(ent[f].itf[p])
        BY <2>2, <2>4
      <4>2. p \in cfg.ports /\ i \in cfg.slots
        BY <2>2, <2>4
      <4>3. chan[p] = <<>>
        BY <1>3, <4>2
      <4>4. t # 0
        BY <1>3, <2>2, <4>2
      <4> QED BY <4>1, <4>3, <4>4
    <3>2. ent[f].on
      <4>1. PICK x : x = ent[f]
        OBVIOUS
      <4>2. Sound(x, D)
        BY <2>2, <4>1
      <4>3. x.itf[p].op
        BY <3>1, <4>1
      <4>4. ASSUME x = NewEntity(x.boot, FALSE, FALSE) PROVE FALSE
        <5>1. x.itf = [q \in Ports |-> NewInterface]
          BY <4>4 DEF NewEntity
        <5>2. x.itf[p] = NewInterface
          BY <5>1
        <5>3. ~NewInterface.op
          BY DEF NewInterface
        <5> QED BY <4>3, <5>2, <5>3
      <4>5. x.on
        BY <4>2, <4>4 DEF Sound
      <4> QED BY <4>1, <4>5
    <3>3. PICK u \in Nat : u = Due(ent[f], p, D)
      BY <1>1, <2>2, <3>1, DueFacts
    <3>4. Due(ent'[f], p, D) = u - 1
      BY <1>6, <3>1, <3>2, <3>3 DEF TickedAt
    <3>5. PICK s \in Nat : s = IF n < cfg.tolerates THEN cfg.interval + D ELSE 0
      BY <1>1, ToleranceFacts
    <3>6. NoCurrent(chan[p], f, ent[f].boot)
      BY <3>1 DEF NoCurrent
    <3>7. t > 0 /\ t > u + s
      BY <2>2, <2>4, <3>3, <3>5, <3>6 DEF Outlives
    <3>8. t \in Nat
      BY <3>7 DEF TimerValues, Off
    <3>9. Less(t) = t - 1
      BY <3>1, <3>8, LessFacts
    <3>10. 0 <= u - 1
      <4>1. Started(ent'[f].itf[p]) /\ ent'[f].itf[p].op /\ Sound(ent'[f], D)
        BY <1>7, <3>1
      <4>2. ent'[f] \in EntityStates
        <5>1. Inv'
          BY TickStep
        <5> QED BY <5>1 DEF Inv, TypeOK
      <4>3. Due(ent'[f], p, D) \in Nat
        BY <1>1, <4>1, <4>2, DueFacts
      <4> QED BY <3>4, <4>3
    <3>11. t - 1 > 0 /\ t - 1 > (u - 1) + s /\ t - 1 > u - 1
      BY <3>7, <3>8, <3>10
    <3> QED BY <2>2, <3>4, <3>5, <3>9, <3>11 DEF Outlives
  <2> QED BY <2>3, <2>4
<1> QED BY <1>2, <1>7, <1>9, <1>10, <1>11, <1>12, ExpiryFrom

-----------------------------------------------------------------------------
(* All steps, whatever bound of the delays suits the configuration.        *)

LEMMA NextExpiry ==
  ASSUME Inv, Confined, NEW D \in Nat, Suits(cfg, D), ExpiryInv(D), [Next]_vars
  PROVE  ExpiryInv(D)'
<1>1. CASE UNCHANGED vars
  <2>1. /\ UNCHANGED <<cfg, ent, chan, missed>>
        /\ disc' = disc /\ running' = running
    BY <1>1 DEF vars
  <2>2. \A p \in Ports, i \in Slots : disc[p][i].used => running
    BY DEF ExpiryInv, SlotsUsed
  <2> QED BY <2>1, <2>2, ListsExpiry
<1>2. CASE Next
  <2>1. CASE \E e \in cfg.entities : Boot(e) \/ Entity(e)
    BY <2>1, BootExpiry, HeartbeatExpiry, IeeeDelayExpiry, IntervalExpiry DEF Entity
  <2>2. CASE \E e \in cfg.entities, p \in cfg.ports :
               Interface(e, p) \/ \E g \in cfg.gms : GmStatus(e, p, g)
    BY <2>2, LinkExpiry, DiscoverRcvExpiry, MilanDelayExpiry, IntervalExpiry, GmStatusExpiry
       DEF Interface
  <2>3. CASE Connect \/ DiscoveryExit
    BY <2>3, ConnectExpiry
  <2>4. CASE Station
    BY <2>4, ReceiveExpiry, TimeoutExpiry DEF Station
  <2>5. CASE Fault
    <3>1. CASE \E e \in cfg.entities : Exit(e) \/ Crash(e)
      BY <3>1, StopExpiry DEF Exit, Crash
    <3>2. CASE \E e \in cfg.entities, p \in cfg.ports : PortDown(e, p)
      BY <3>2, LinkExpiry
    <3>3. CASE \E p \in cfg.ports : Lose(p)
      BY <3>3, LoseExpiry
    <3> QED BY <2>3, <2>5, <3>1, <3>2, <3>3 DEF Fault
  <2>6. CASE Tick
    BY <2>6, TickExpiry
  <2> QED BY <1>2, <2>1, <2>2, <2>3, <2>4, <2>5, <2>6 DEF Next
<1> QED BY <1>1, <1>2

LEMMA SameConfig ==
  ASSUME [Next]_vars PROVE cfg' = cfg
<1>1. CASE UNCHANGED vars
  BY <1>1 DEF vars
<1>2. CASE \E e \in cfg.entities : Boot(e) \/ Entity(e)
  BY <1>2 DEF Boot, Entity, Heartbeat, IeeeDelayTimeout, IeeeReannounceTimeout
<1>3. CASE \E e \in cfg.entities, p \in cfg.ports :
             Interface(e, p) \/ \E g \in cfg.gms : GmStatus(e, p, g)
  <2>1. ASSUME NEW e, NEW p, PortUp(e, p) PROVE cfg' = cfg
    BY <2>1 DEF PortUp
  <2>2. ASSUME NEW e, NEW p, DiscoverRcv(e, p) PROVE cfg' = cfg
    BY <2>2 DEF DiscoverRcv
  <2>3. ASSUME NEW e, NEW p, MilanDelayTimeout(e, p) PROVE cfg' = cfg
    BY <2>3 DEF MilanDelayTimeout
  <2>4. ASSUME NEW e, NEW p, MilanAdvertiseTimeout(e, p) PROVE cfg' = cfg
    BY <2>4 DEF MilanAdvertiseTimeout
  <2>5. ASSUME NEW e, NEW p, NEW g, GmStatus(e, p, g) PROVE cfg' = cfg
    BY <2>5 DEF GmStatus
  <2> QED BY <1>3, <2>1, <2>2, <2>3, <2>4, <2>5 DEF Interface
<1>4. CASE Connect
  BY <1>4 DEF Connect, DiscoveryInit, Discover
<1>5. CASE Station
  BY <1>5 DEF Station, Receive, DiscoveryTimeout
<1>6. CASE Fault
  BY <1>6 DEF Fault, DiscoveryExit, Exit, Crash, Stop, PortDown, Lose
<1>7. CASE Tick
  BY <1>7 DEF Tick
<1> QED BY <1>1, <1>2, <1>3, <1>4, <1>5, <1>6, <1>7 DEF Next

LEMMA InitExpiry ==
  ASSUME Init, NEW D \in Nat, Suits(cfg, D) PROVE ExpiryInv(D) /\ Confined
<1>1. ASSUME NEW e \in Entities
      PROVE  /\ Sound(ent[e], D) /\ ~ent[e].on
             /\ \A q \in Ports : ~Started(ent[e].itf[q])
  <2>1. ent[e] = NewEntity(0, FALSE, FALSE)
    BY DEF Init
  <2>2. ~NewEntity(0, FALSE, FALSE).on
    BY DEF NewEntity
  <2> QED BY <2>1, <2>2, NewSound
<1>2. \A p \in Ports, i \in Slots : ~disc[p][i].used
  BY DEF Init, EmptyLists, NoEntry
<1>3. \A p \in Ports : Len(chan[p]) = 0
  BY DEF Init
<1>4. \A e \in Entities, p \in Ports : ~(missed[e][p] < Many)
  BY DEF Init, Many
<1>5. SlotsUsed
  BY <1>2 DEF SlotsUsed
<1>6. \A p \in Ports : \A j \in 1 .. Len(chan[p]) : SentOK(chan[p][j], p)
  BY <1>3
<1>7. \A e \in Entities, p \in Ports : HeardOK(e, p)
  BY <1>4 DEF HeardOK
<1>8. \A p \in Ports, i \in Slots : Lives(p, i, D)
  BY <1>2 DEF Lives
<1> QED BY <1>1, <1>5, <1>6, <1>7, <1>8 DEF ExpiryInv, Confined

LEMMA InitConfined ==
  ASSUME Init PROVE Confined
<1>1. ASSUME NEW e \in Entities
      PROVE  ~ent[e].on /\ \A q \in Ports : ~Started(ent[e].itf[q])
  <2>1. ent[e] = NewEntity(0, FALSE, FALSE)
    BY DEF Init
  <2>2. ~NewEntity(0, FALSE, FALSE).on
    BY DEF NewEntity
  <2> QED BY <2>1, <2>2, NewSound
<1> QED BY <1>1 DEF Confined

LEMMA ExpiredAway ==
  ASSUME Inv, NEW D \in Nat, Suits(cfg, D), ExpiryInv(D), NEW p \in Ports, NEW i \in Slots,
         disc[p][i].timeout = 0
  PROVE  missed[disc[p][i].info.entity][p] > cfg.tolerates
<1>1. disc[p][i].used
  <2>1. ~disc[p][i].used => disc[p][i] = NoEntry
    BY DEF Inv, GoodList
  <2>2. NoEntry.timeout # 0
    BY DEF NoEntry, Off
  <2> QED BY <2>1, <2>2
<1>2. PICK e \in Entities, n \in 0 .. Many :
         /\ e = disc[p][i].info.entity /\ n = missed[e][p]
         /\ Outlives(disc[p][i].timeout, chan[p], e, ent[e], p, n, D)
  BY <1>1, EntryFacts
<1>3. ~(n <= cfg.tolerates)
  BY <1>2 DEF Outlives
<1>4. cfg.tolerates \in {0, 1}
  BY ToleranceFacts DEF Inv, TypeOK
<1> QED BY <1>2, <1>3, <1>4 DEF Many

LEMMA SomeBound ==
  ASSUME NEW c \in Configs PROVE \E D \in Nat : Suits(c, D)
<1>1. PICK v \in Nat, n \in Nat, l \in Nat :
         v = c.valid /\ n = c.interval /\ l = c.tolerates
  BY ADPAssumption
<1>2. c.delays \subseteq Nat /\ c.delays # {}
  BY ADPAssumption
<1>3. l \in {0, 1} /\ \A d \in c.delays : v > (l + 1) * (n + d)
  BY <1>1, ValidityAssumption
<1>4. CASE l = 0
  <2>1. \A d \in c.delays : v > n + d
    <3>1. ASSUME NEW d \in c.delays PROVE v > n + d
      <4>1. d \in Nat
        BY <1>2
      <4>2. (l + 1) * (n + d) = n + d
        BY <1>4, <4>1
      <4> QED BY <1>3, <4>2
    <3> QED BY <3>1
  <2>2. PICK D \in Nat : v = n + D + 1
    <3>1. PICK d \in c.delays : d \in Nat /\ v > n + d
      BY <1>2, <2>1
    <3>2. v - n - 1 \in Nat /\ v = n + (v - n - 1) + 1
      BY <3>1
    <3> QED BY <3>2
  <2>3. \A d \in c.delays : d <= D
    BY <1>2, <2>1, <2>2
  <2>4. (l + 1) * (n + D) = n + D
    BY <1>4
  <2>5. v > (l + 1) * (n + D)
    BY <2>2, <2>4
  <2> QED BY <1>1, <1>4, <2>3, <2>5 DEF Suits, Many
<1>5. CASE l = 1
  <2>1. \A d \in c.delays : v > 2 * (n + d)
    BY <1>3, <1>5
  <2>2. PICK h \in Nat : v = 2 * h + 1 \/ v = 2 * h + 2
    <3>1. v > 0
      <4>1. PICK d \in c.delays : d \in Nat /\ v > 2 * (n + d)
        BY <1>2, <2>1
      <4> QED BY <4>1
    <3>2. PICK h \in Nat : h = (v - 1) \div 2
      BY <3>1
    <3>3. v - 1 = 2 * h \/ v - 1 = 2 * h + 1
      BY <3>1, <3>2
    <3> QED BY <3>2, <3>3
  <2>3. PICK D \in Nat : h = n + D
    <3>1. PICK d \in c.delays : d \in Nat /\ v > 2 * (n + d)
      BY <1>2, <2>1
    <3>2. h - n \in Nat /\ h = n + (h - n)
      BY <2>2, <3>1
    <3> QED BY <3>2
  <2>4. \A d \in c.delays : d <= D
    BY <1>2, <2>1, <2>2, <2>3
  <2>5. (l + 1) * (n + D) = 2 * h
    BY <1>5, <2>3
  <2>6. v > (l + 1) * (n + D)
    BY <2>2, <2>5
  <2> QED BY <1>1, <1>5, <2>4, <2>6 DEF Suits, Many
<1> QED BY <1>3, <1>4, <1>5

\* The invariant for every bound that suits the configuration.
LongLived == \A D \in Nat : Suits(cfg, D) => ExpiryInv(D)

(***************************************************************************)
(* An entry never expires (adp_discovery_timeout) while its entity         *)
(* advertises and no more advertisements are lost than the validity time   *)
(* allows for, for any number of entities, ports and slots, whatever       *)
(* discover messages, grandmaster changes, links and restarts do to the    *)
(* delay and advertise timers of the entity.  ValidityAssumption bounds    *)
(* the intervals and delays of adp_milan.c and adp_ieee.c.                 *)
(***************************************************************************)
THEOREM ExpiryMeansFault == Spec => []ExpiresOnlyOnFault
<1>1. Init => Inv /\ Confined /\ LongLived
  BY InvInit, InitConfined, InitExpiry DEF LongLived
<1>2. Inv /\ Confined /\ LongLived /\ [Next]_vars => (Inv /\ Confined /\ LongLived)'
  <2> SUFFICES ASSUME Inv, Confined, LongLived, [Next]_vars PROVE (Inv /\ Confined /\ LongLived)'
    OBVIOUS
  <2>1. Inv' /\ Confined'
    BY InvNext, ConfinedNext
  <2>2. ASSUME NEW D \in Nat, Suits(cfg, D)' PROVE ExpiryInv(D)'
    <3>1. Suits(cfg, D)
      BY <2>2, SameConfig DEF Suits
    <3>2. ExpiryInv(D)
      BY <3>1 DEF LongLived
    <3> QED BY <3>1, <3>2, NextExpiry
  <2>3. LongLived'
    BY <2>2 DEF LongLived
  <2> QED BY <2>1, <2>3
<1>3. Inv /\ LongLived => ExpiresOnlyOnFault
  <2> SUFFICES ASSUME Inv, LongLived PROVE ExpiresOnlyOnFault
    OBVIOUS
  <2>1. PICK D \in Nat : Suits(cfg, D)
    BY SomeBound DEF Inv, TypeOK
  <2>2. ExpiryInv(D)
    BY <2>1 DEF LongLived
  <2> QED BY <2>1, <2>2, ExpiredAway DEF ExpiresOnlyOnFault
<1> QED BY <1>1, <1>2, <1>3, PTL DEF Spec

=============================================================================
