---------------------------- MODULE MSRP_proofs ----------------------------
(***************************************************************************)
(* Proofs about module MSRP.  The handlers compute on a context; what is   *)
(* proved of the map is proved of contexts: CtxOk holds throughout a       *)
(* handler, Mapped of every stream the map has been at, Good between two   *)
(* events.  One lemma per function of msrp_map.c says what it does to a    *)
(* context (TalkerPortSpec, MapTalkerKeeps, ListenerPortSpec,              *)
(* MapListenerKeeps, FreeIdleKeeps, MapStreamKeeps, MapUpdateKeeps), one   *)
(* lemma per action that it keeps the inductive invariant Inv, and the     *)
(* theorems at the end follow from Inv.                                    *)
(***************************************************************************)
EXTENDS MSRP, FiniteSetTheorems, SequenceTheorems, WellFoundedInduction, TLAPS

-----------------------------------------------------------------------------
(***************************************************************************)
(* Induction, from the well-foundedness of the natural numbers.            *)
(***************************************************************************)


\* A set of natural numbers has a least element.
LEMMA LeastNat ==
  ASSUME NEW S \in SUBSET Nat, S # {}
  PROVE  \E n \in S : \A m \in S : n <= m
<1> DEFINE R == OpToRel(<, Nat)
<1>1. IsWellFoundedOn(R, Nat)
  BY NatLessThanWellFounded
<1>2. \A m, n \in S : <<m, n>> \in R <=> m < n
  BY DEF OpToRel
<1> HIDE DEF R
<1>3. PICK n \in S : \A m \in S : ~(<<m, n>> \in R)
  BY <1>1, WFMin
<1>4. ASSUME NEW m \in S PROVE ~(m < n)
  BY <1>2, <1>3, Zenon
<1>5. ASSUME NEW m \in S PROVE n <= m
  BY <1>4
<1> QED BY <1>5

\* Induction over a set of numbers.
LEMMA SetInduction ==
  ASSUME NEW S \in SUBSET Nat, 0 \in S, \A n \in S : n + 1 \in S
  PROVE  S = Nat
<1> DEFINE T == Nat \ S
<1>1. SUFFICES ASSUME T # {} PROVE FALSE
  OBVIOUS
<1>2. PICK n \in T : \A m \in T : n <= m
  <2>1. T \in SUBSET Nat
    OBVIOUS
  <2> HIDE DEF T
  <2> QED BY <1>1, <2>1, LeastNat
<1>3. n \in Nat /\ n # 0
  OBVIOUS
<1>4. n - 1 \in Nat /\ n - 1 \notin T
  BY <1>2, <1>3
<1>5. n - 1 \in S
  BY <1>4
<1>6. (n - 1) + 1 \in S
  BY <1>5
<1> QED BY <1>3, <1>6

\* f iterates the steps of G from a.
Iterates(f, V, a, G) == f \in [Nat -> V] /\ f[0] = a /\ \A i \in Nat : f[i + 1] = G[i + 1][f[i]]

\* An iteration of typed steps is a function.
LEMMA IterationExists ==
  ASSUME NEW V, NEW a \in V, NEW G \in [Nat -> [V -> V]]
  PROVE  \E f : Iterates(f, V, a, G)
<1> DEFINE Ok(g, n) == /\ g \in [0 .. n -> V] /\ g[0] = a
                       /\ \A i \in 0 .. n : i < n => g[i + 1] = G[i + 1][g[i]]
<1>1. ASSUME NEW n \in Nat, NEW g, Ok(g, n)
      PROVE  LET h == [i \in 0 .. n + 1 |-> IF i = n + 1 THEN G[n + 1][g[n]] ELSE g[i]]
             IN  Ok(h, n + 1)
  <2> DEFINE h == [i \in 0 .. n + 1 |-> IF i = n + 1 THEN G[n + 1][g[n]] ELSE g[i]]
  <2>1. g[n] \in V /\ G[n + 1] \in [V -> V]
    BY <1>1
  <2>2. \A i \in 0 .. n + 1 : h[i] \in V
    BY <1>1, <2>1
  <2>3. h \in [0 .. n + 1 -> V] /\ h[0] = a
    BY <1>1, <2>2
  <2>4. ASSUME NEW i \in 0 .. n + 1, i < n + 1 PROVE h[i + 1] = G[i + 1][h[i]]
    <3>1. CASE i = n
      BY <3>1
    <3>2. CASE i < n
      BY <3>2, <1>1
    <3> QED BY <2>4, <3>1, <3>2
  <2> QED BY <2>3, <2>4
<1>2. \A n \in Nat : \E g : Ok(g, n)
  <2> DEFINE S == {n \in Nat : \E g : Ok(g, n)}
  <2>1. 0 \in S
    <3>1. Ok([i \in 0 .. 0 |-> a], 0)
      OBVIOUS
    <3> QED BY <3>1
  <2>2. ASSUME NEW n \in S PROVE n + 1 \in S
    <3>1. PICK g : Ok(g, n)
      OBVIOUS
    <3> DEFINE h == [i \in 0 .. n + 1 |-> IF i = n + 1 THEN G[n + 1][g[n]] ELSE g[i]]
    <3>2. n \in Nat /\ Ok(h, n + 1)
      BY <3>1, <1>1
    <3> HIDE DEF h, Ok
    <3> QED BY <3>2
  <2>3. S \in SUBSET Nat
    OBVIOUS
  <2> HIDE DEF S
  <2>4. S = Nat
    BY <2>1, <2>2, <2>3, SetInduction
  <2> QED BY <2>4 DEF S
<1>3. ASSUME NEW m \in Nat, NEW g, Ok(g, m), NEW n \in Nat, n >= m, NEW h, Ok(h, n)
      PROVE  \A i \in 0 .. m : g[i] = h[i]
  <2> DEFINE S == {i \in Nat : i <= m => g[i] = h[i]}
  <2>1. 0 \in S
    BY <1>3
  <2>2. ASSUME NEW i \in S PROVE i + 1 \in S
    <3>1. CASE i + 1 <= m
      <4>1. i < m /\ i \in 0 .. m /\ i \in 0 .. n /\ i < n
        BY <1>3, <3>1
      <4>2. g[i + 1] = G[i + 1][g[i]] /\ h[i + 1] = G[i + 1][h[i]]
        BY <1>3, <4>1
      <4> QED BY <4>1, <4>2
    <3> QED BY <3>1
  <2>3. S \in SUBSET Nat
    OBVIOUS
  <2> HIDE DEF S
  <2>4. S = Nat
    BY <2>1, <2>2, <2>3, SetInduction
  <2> QED BY <2>4 DEF S
<1> DEFINE F(n) == CHOOSE g : Ok(g, n)
<1>4. \A n \in Nat : Ok(F(n), n)
  BY <1>2
<1> DEFINE f == [n \in Nat |-> F(n)[n]]
<1> HIDE DEF F
<1>5. f \in [Nat -> V]
  BY <1>4
<1>6. f[0] = a
  BY <1>4
<1>7. ASSUME NEW i \in Nat PROVE f[i + 1] = G[i + 1][f[i]]
  <2>1. Ok(F(i), i) /\ Ok(F(i + 1), i + 1)
    BY <1>4
  <2> HIDE DEF Ok
  <2>2. F(i)[i] = F(i + 1)[i]
    BY <2>1, <1>3
  <2>3. F(i + 1)[i + 1] = G[i + 1][F(i + 1)[i]]
    BY <2>1 DEF Ok
  <2> QED BY <2>2, <2>3
<1>8. Iterates(f, V, a, G)
  BY <1>5, <1>6, <1>7 DEF Iterates
<1> HIDE DEF f
<1> QED BY <1>8

\* What every step of an iteration keeps holds at the end.
LEMMA IterationKeeps ==
  ASSUME NEW f, NEW K, f[0] \in K[0], \A i \in Nat : f[i] \in K[i] => f[i + 1] \in K[i + 1]
  PROVE  \A n \in Nat : f[n] \in K[n]
<1> DEFINE S == {n \in Nat : f[n] \in K[n]}
<1>1. 0 \in S /\ (\A n \in S : n + 1 \in S) /\ S \in SUBSET Nat
  OBVIOUS
<1> HIDE DEF S
<1>2. S = Nat
  BY <1>1, SetInduction
<1> QED BY <1>2 DEF S


-----------------------------------------------------------------------------
(***************************************************************************)
(* Types.                                                                  *)
(***************************************************************************)
AllTypes == TalkerTypes \cup ListenerTypes \cup {"NONE"}
Attributes == Streams \X {"T", "L"} \X AllTypes

StreamType ==
    [tReg : [Ports -> SUBSET TalkerTypes], lReg : [Ports -> SUBSET ListenerTypes],
     decT : [Ports -> TalkerTypes \cup {"NONE"}],
     decL : [Ports -> ListenerTypes \cup {"NONE"}],
     userT : SUBSET Ports, userL : SUBSET Ports,
     fqtss : SUBSET Ports, fdb : SUBSET Ports, vlan : BOOLEAN]

VlanType == [alloc : BOOLEAN, ref : [Ports -> Nat], reg : SUBSET Ports, dec : SUBSET Ports]

MadType == [dec : SUBSET Attributes, lv : SUBSET Attributes]

CtxType ==
    [st : [Streams -> StreamType], order : Seq(Streams), bw : [Ports -> Nat],
     mad : [Ports -> MadType], vlans : [VIDs -> VlanType],
     up : SUBSET Ports, en : SUBSET Ports, bnd : [Ports -> BOOLEAN]]

HeldType ==
    [dec : TalkerTypes \cup {"NONE"}, fq : BOOLEAN, fdb : BOOLEAN, bw : Nat, mad : MadType]

-----------------------------------------------------------------------------
(***************************************************************************)
(* One declaration in the applicant of a port.                             *)
(***************************************************************************)

\* The applicant declares attribute d of stream s in direction dir, and no other.
Real(m, s, dir, d) == \A t \in AllTypes : <<s, dir, t>> \in m.dec <=> t = d /\ t # "NONE"

\* Two applicants differ in attributes of stream s in direction dir only.
SameBut(m, n, s, dir) ==
    \A u \in Streams, e \in {"T", "L"}, t \in AllTypes :
        u # s \/ e # dir =>
            /\ <<u, e, t>> \in m.dec <=> <<u, e, t>> \in n.dec
            /\ <<u, e, t>> \in m.lv <=> <<u, e, t>> \in n.lv

\* No attribute of stream s in direction dir is leaving.
NotLeaving(m, s, dir) == \A t \in AllTypes : <<s, dir, t>> \notin m.lv

LEMMA ChangeTyped ==
  ASSUME NEW m \in MadType, NEW p, NEW E, NEW s \in Streams, NEW dir \in {"T", "L"},
         NEW old \in AllTypes, NEW new \in AllTypes, NEW reg
  PROVE  /\ ChangeDeclaration(m, p \in E, s, dir, old, new, reg).mad \in MadType
         /\ ChangeDeclaration(m, p \in E, s, dir, old, new, reg).dec \in {"NONE", new}
<1>1. <<s, dir, old>> \in Attributes /\ <<s, dir, new>> \in Attributes
  BY DEF Attributes
<1> QED
  BY <1>1 DEF ChangeDeclaration, JoinRequest, LeaveRequest, FreeImmediate, MadType

LEMMA RemoveTyped ==
  ASSUME NEW m \in MadType, NEW p, NEW E, NEW s \in Streams, NEW dir \in {"T", "L"},
         NEW old \in AllTypes
  PROVE  RemoveDeclaration(m, p \in E, s, dir, old) \in MadType
<1>1. <<s, dir, old>> \in Attributes
  BY DEF Attributes
<1> QED
  BY <1>1 DEF RemoveDeclaration, LeaveRequest, MadType

LEMMA JoinIsReal ==
  ASSUME NEW m \in MadType, NEW s \in Streams, NEW dir \in {"T", "L"},
         NEW new \in AllTypes, new # "NONE", Real(m, s, dir, "NONE"),
         NEW n, n = JoinRequest(m, <<s, dir, new>>)
  PROVE  /\ Real(n, s, dir, new) /\ SameBut(m, n, s, dir)
         /\ NotLeaving(m, s, dir) => NotLeaving(n, s, dir)
<1>1. n.dec = m.dec \cup {<<s, dir, new>>} /\ n.lv = m.lv \ {<<s, dir, new>>}
  BY DEF JoinRequest
<1> QED BY <1>1 DEF Real, SameBut, NotLeaving

LEMMA LeaveIsReal ==
  ASSUME NEW m \in MadType, NEW s \in Streams, NEW dir \in {"T", "L"},
         NEW old \in AllTypes, old # "NONE", Real(m, s, dir, old),
         NEW n, n = LeaveRequest(m, TRUE, <<s, dir, old>>)
  PROVE  n \in MadType /\ Real(n, s, dir, "NONE") /\ SameBut(m, n, s, dir)
<1>1. n.dec = m.dec \ {<<s, dir, old>>} /\ n.lv = m.lv \cup {<<s, dir, old>>}
  BY DEF LeaveRequest
<1>2. n \in MadType
  BY DEF LeaveRequest, MadType, Attributes
<1> QED BY <1>1, <1>2 DEF Real, SameBut

LEMMA FreeIsReal ==
  ASSUME NEW m \in MadType, NEW s \in Streams, NEW dir \in {"T", "L"},
         NEW old \in AllTypes, old # "NONE", Real(m, s, dir, old),
         NEW n, n = FreeImmediate(m, <<s, dir, old>>)
  PROVE  /\ n \in MadType /\ Real(n, s, dir, "NONE") /\ SameBut(m, n, s, dir)
         /\ NotLeaving(m, s, dir) => NotLeaving(n, s, dir)
<1>1. n.dec = m.dec \ {<<s, dir, old>>} /\ n.lv = m.lv \ {<<s, dir, old>>}
  BY DEF FreeImmediate
<1>2. n \in MadType
  BY DEF FreeImmediate, MadType
<1> QED BY <1>1, <1>2 DEF Real, SameBut, NotLeaving

LEMMA SameButTransitive ==
  ASSUME NEW k, NEW m, NEW n, NEW s \in Streams, NEW dir \in {"T", "L"},
         SameBut(k, m, s, dir), SameBut(m, n, s, dir)
  PROVE  SameBut(k, n, s, dir)
  BY DEF SameBut

\* Replacing a declaration leaves MRP with the one the entry then holds.
LEMMA ChangeIsReal ==
  ASSUME NEW m \in MadType, NEW p, NEW E, NEW s \in Streams, NEW dir \in {"T", "L"},
         NEW old \in AllTypes, NEW new \in AllTypes, NEW reg,
         new # "NONE", Real(m, s, dir, old), p \notin E => old = "NONE",
         NEW d, d = ChangeDeclaration(m, p \in E, s, dir, old, new, reg)
  PROVE  /\ Real(d.mad, s, dir, d.dec)
         /\ SameBut(m, d.mad, s, dir)
         /\ p \notin E => d.dec = "NONE"
         /\ ~cfg.sendLeave /\ NotLeaving(m, s, dir) => NotLeaving(d.mad, s, dir)
         /\ p \in E /\ (cfg.sendLeave \/ (NotLeaving(m, s, dir) /\ new \notin reg))
              => d.dec = new
<1> DEFINE a == <<s, dir, old>>
           b == <<s, dir, new>>
<1>0. a \in Attributes /\ b \in Attributes
  BY DEF Attributes
<1>1. CASE old = new
  <2>1. d.dec = old /\ d.mad = m
    BY <1>1 DEF ChangeDeclaration
  <2>2. SameBut(m, m, s, dir)
    BY DEF SameBut
  <2> QED BY <1>1, <2>1, <2>2
<1>2. CASE old # new /\ old = "NONE"
  <2>1. CASE p \in E
    <3>1. d.dec = new /\ d.mad = JoinRequest(m, b)
      BY <1>2, <2>1 DEF ChangeDeclaration
    <3> HIDE DEF a, b
    <3>2. /\ Real(d.mad, s, dir, new) /\ SameBut(m, d.mad, s, dir)
          /\ NotLeaving(m, s, dir) => NotLeaving(d.mad, s, dir)
      BY <1>2, <3>1, JoinIsReal DEF b
    <3> QED BY <2>1, <3>1, <3>2
  <2>2. CASE p \notin E
    <3>1. d.dec = "NONE" /\ d.mad = m
      BY <1>2, <2>2 DEF ChangeDeclaration
    <3>2. SameBut(m, m, s, dir)
      BY DEF SameBut
    <3> QED BY <1>2, <2>2, <3>1, <3>2
  <2> QED BY <2>1, <2>2
<1>3. CASE old # new /\ old # "NONE" /\ cfg.sendLeave
  <2> DEFINE l == LeaveRequest(m, TRUE, a)
  <2>1. d.dec = new /\ d.mad = JoinRequest(l, b) /\ p \in E
    BY <1>3 DEF ChangeDeclaration
  <2>2. l \in MadType /\ Real(l, s, dir, "NONE") /\ SameBut(m, l, s, dir)
    BY <1>3, LeaveIsReal
  <2> HIDE DEF l
  <2>3. Real(d.mad, s, dir, new) /\ SameBut(l, d.mad, s, dir)
    BY <2>1, <2>2, JoinIsReal
  <2>4. SameBut(m, d.mad, s, dir)
    BY <2>2, <2>3, SameButTransitive
  <2> QED BY <1>3, <2>1, <2>3, <2>4
<1>4. CASE old # new /\ old # "NONE" /\ ~cfg.sendLeave
  <2> DEFINE f == FreeImmediate(m, a)
  <2>1. /\ f \in MadType /\ Real(f, s, dir, "NONE") /\ SameBut(m, f, s, dir)
        /\ NotLeaving(m, s, dir) => NotLeaving(f, s, dir)
    BY <1>4, FreeIsReal
  <2>2. CASE b \in f.dec \cup f.lv \/ new \in reg
    <3>1. d.dec = "NONE" /\ d.mad = f
      BY <1>4, <2>2 DEF ChangeDeclaration
    <3> HIDE DEF f
    <3>2. b \notin f.dec
      BY <2>1 DEF Real
    <3>3. NotLeaving(m, s, dir) => b \notin f.lv
      BY <2>1 DEF NotLeaving
    <3> HIDE DEF b
    <3> QED BY <1>4, <2>1, <2>2, <3>1, <3>2, <3>3
  <2>3. CASE ~(b \in f.dec \cup f.lv \/ new \in reg)
    <3>1. d.dec = new /\ d.mad = JoinRequest(f, b) /\ p \in E
      BY <1>4, <2>3 DEF ChangeDeclaration
    <3> HIDE DEF f
    <3>2. /\ Real(d.mad, s, dir, new) /\ SameBut(f, d.mad, s, dir)
          /\ NotLeaving(f, s, dir) => NotLeaving(d.mad, s, dir)
      BY <2>1, <3>1, JoinIsReal
    <3>3. SameBut(m, d.mad, s, dir)
      BY <2>1, <3>2, SameButTransitive
    <3> QED BY <1>4, <2>1, <3>1, <3>2, <3>3
  <2> QED BY <2>2, <2>3
<1> QED BY <1>1, <1>2, <1>3, <1>4

\* Withdrawing a declaration leaves MRP with none.
LEMMA RemoveIsReal ==
  ASSUME NEW m \in MadType, NEW p, NEW E, NEW s \in Streams, NEW dir \in {"T", "L"},
         NEW old \in AllTypes, Real(m, s, dir, old), p \notin E => old = "NONE",
         NEW n, n = RemoveDeclaration(m, p \in E, s, dir, old)
  PROVE  Real(n, s, dir, "NONE") /\ SameBut(m, n, s, dir)
  BY DEF RemoveDeclaration, LeaveRequest, Real, SameBut, MadType

-----------------------------------------------------------------------------
(***************************************************************************)
(* The talker declaration of one port.                                     *)
(***************************************************************************)

\* What a stream holds on a port before its talker declaration is mapped.
HeldOk(h, s, on) ==
    /\ h.fdb => h.fq /\ cfg.bridge
    /\ h.fq => h.dec # "NONE" /\ Slope[s] <= h.bw
    /\ h.bw <= Limit
    /\ ~on => h.dec = "NONE"
    /\ Real(h.mad, s, "T", h.dec)

\* The bandwidth changes by what the stream reserves or gives back.
Accounted(h, y, s) ==
    /\ (h.fq <=> y.fq) => y.bw = h.bw
    /\ h.fq /\ ~y.fq => y.bw = h.bw - Slope[s]
    /\ ~h.fq /\ y.fq => y.bw = h.bw + Slope[s]
    /\ y.bw <= Limit

LEMMA HeldTyped ==
  ASSUME NEW x \in CtxType, NEW s \in Streams, NEW p \in Ports
  PROVE  Held(x, s, p) \in HeldType
<1>1. x.st[s] \in StreamType /\ x.bw[p] \in Nat /\ x.mad[p] \in MadType
  BY DEF CtxType
<1> QED BY <1>1 DEF Held, HeldType, StreamType

LEMMA MapTalkerTyped ==
  ASSUME NEW r \in StreamType
  PROVE  MapTalkerType(r) \in TalkerTypes
<1>1. CASE TalkerPorts(r) # {}
  <2>1. PICK p \in TalkerPorts(r) : p = CHOOSE q \in TalkerPorts(r) : TRUE
    BY <1>1
  <2>2. r.tReg[p] # {} /\ r.tReg[p] \subseteq {"ADV", "FAIL"}
    BY DEF TalkerPorts, StreamType, TalkerTypes
  <2>3. TalkerType(r, p) \in TalkerTypes
    BY <2>2 DEF TalkerType, TalkerTypes
  <2> QED BY <2>1, <2>3, <1>1 DEF MapTalkerType, TalkerTypes
<1> QED BY <1>1 DEF MapTalkerType, TalkerTypes

\* Releasing gives the bandwidth back once.
LEMMA ReleaseSpec ==
  ASSUME NEW h \in HeldType, NEW s \in Streams, h.fq => Slope[s] <= h.bw,
         h.fdb => h.fq /\ cfg.bridge, h.bw <= Limit
  PROVE  /\ Release(h, s) \in HeldType
         /\ Release(h, s).fdb = FALSE /\ Release(h, s).fq = FALSE
         /\ Release(h, s).dec = h.dec /\ Release(h, s).mad = h.mad
         /\ Accounted(h, Release(h, s), s)
<1>1. Slope[s] \in Nat /\ Limit \in Nat
  BY MSRPAssumption
<1>2. (h.fdb /\ ~cfg.bridge) = FALSE
  OBVIOUS
<1>3. /\ Release(h, s).fdb = FALSE /\ Release(h, s).fq = FALSE
      /\ Release(h, s).dec = h.dec /\ Release(h, s).mad = h.mad
  BY <1>2 DEF Release, HeldType
<1>4. Release(h, s).bw = IF h.fq THEN BwRemove(h.bw, s) ELSE h.bw
  BY DEF Release, HeldType
<1>5. h.bw \in Nat /\ BwRemove(h.bw, s) \in Nat
  BY <1>1 DEF HeldType, BwRemove
<1>6. Release(h, s) \in HeldType
  <2>1. (IF h.fq THEN BwRemove(h.bw, s) ELSE h.bw) \in Nat
    BY <1>5
  <2> QED BY <1>2, <2>1 DEF Release, HeldType
<1>7. Accounted(h, Release(h, s), s)
  BY <1>1, <1>3, <1>4, <1>5 DEF Accounted, BwRemove
<1> QED BY <1>3, <1>6, <1>7

\* What mapping the talker of stream s does to what it holds on a port.
TalkerMapped(h, y, s, on) ==
    /\ y \in HeldType /\ HeldOk(y, s, on) /\ Accounted(h, y, s)
    /\ SameBut(h.mad, y.mad, s, "T")

\* talker_remove_declaration.
LEMMA RemoveTalkerSpec ==
  ASSUME NEW x \in CtxType, NEW s \in Streams, NEW p \in Ports,
         NEW h, h = Held(x, s, p), HeldOk(h, s, p \in x.en),
         NEW y, y = RemoveTalkerPort(x, s, p)
  PROVE  /\ TalkerMapped(h, y, s, p \in x.en)
         /\ y.dec = "NONE"
<1>0. h \in HeldType /\ Slope[s] \in Nat /\ Limit \in Nat
  BY HeldTyped, MSRPAssumption
<1>1. CASE h.dec = "NONE"
  <2>1. y = h
    BY <1>1 DEF RemoveTalkerPort
  <2>2. SameBut(h.mad, h.mad, s, "T") /\ Accounted(h, h, s)
    BY <1>0 DEF SameBut, Accounted, HeldOk
  <2> QED BY <1>0, <1>1, <2>1, <2>2 DEF TalkerMapped
<1>2. CASE h.dec # "NONE"
  <2> DEFINE g == Release(h, s)
             m == RemoveDeclaration(g.mad, p \in x.en, s, "T", h.dec)
  <2>1. /\ g \in HeldType /\ g.fdb = FALSE /\ g.fq = FALSE
        /\ g.dec = h.dec /\ g.mad = h.mad /\ Accounted(h, g, s)
    BY <1>0, ReleaseSpec DEF HeldOk
  <2>2. y = [g EXCEPT !.dec = "NONE", !.mad = m]
    BY <1>2 DEF RemoveTalkerPort
  <2>3. h.mad \in MadType /\ h.dec \in AllTypes
    BY <1>0 DEF HeldType, AllTypes
  <2>4. m \in MadType /\ Real(m, s, "T", "NONE") /\ SameBut(h.mad, m, s, "T")
    <3>1. /\ Real(g.mad, s, "T", h.dec) /\ (p \notin x.en => h.dec = "NONE")
          /\ g.mad \in MadType
      BY <2>1, <2>3 DEF HeldOk
    <3>2. (p \in x.en) \in BOOLEAN
      OBVIOUS
    <3> HIDE DEF g
    <3> QED BY <2>1, <2>3, <3>1, <3>2, RemoveIsReal, RemoveTyped
  <2> HIDE DEF g, m
  <2>5. y.dec = "NONE" /\ y.mad = m /\ y.fq = FALSE /\ y.fdb = FALSE /\ y.bw = g.bw
    BY <2>1, <2>2 DEF HeldType
  <2>6. y \in HeldType
    BY <2>1, <2>2, <2>4 DEF HeldType
  <2>7. Accounted(h, y, s)
    BY <2>1, <2>5 DEF Accounted
  <2>8. HeldOk(y, s, p \in x.en)
    BY <2>4, <2>5, <2>7 DEF HeldOk, Accounted
  <2> QED BY <2>4, <2>5, <2>6, <2>7, <2>8 DEF TalkerMapped
<1> QED BY <1>1, <1>2

\* talker_update_declaration, with its refusals and roll-backs.
LEMMA UpdateTalkerSpec ==
  ASSUME NEW x \in CtxType, NEW s \in Streams, NEW p \in Ports, NEW type \in TalkerTypes,
         NEW h, h = Held(x, s, p), HeldOk(h, s, p \in x.en),
         NEW r, r = x.st[s],
         cfg.bridge \in BOOLEAN,
         p \notin x.en => r.lReg[p] = {},
         r.tReg[p] = {},
         ~cfg.sendLeave => NotLeaving(h.mad, s, "T"),
         NEW y, y = UpdateTalkerPort(x, s, p, type)
  PROVE  /\ TalkerMapped(h, y, s, p \in x.en)
         /\ ~cfg.sendLeave => NotLeaving(y.mad, s, "T")
         /\ y.dec # "NONE" <=> p \in x.en
         /\ y.dec = "ADV" => type = "ADV" /\ ~x.bnd[p]
         /\ y.dec = "ADV" /\ ListenerReady(r, p) => y.fq /\ (cfg.bridge => y.fdb)
         /\ y.fdb => y.dec = "ADV" /\ ListenerReady(r, p)
<1>0. h \in HeldType /\ Slope[s] \in Nat /\ Limit \in Nat
  BY HeldTyped, MSRPAssumption
<1> DEFINE type1 == IF type = "ADV" /\ x.bnd[p] THEN "FAIL" ELSE type
           want  == type1 = "ADV" /\ ListenerReady(r, p)
           added == [h EXCEPT !.fq = TRUE, !.bw = IF h.fq THEN @ ELSE BwAdd(@, s)]
           fqOk  == h.fq \/ Admits(h.bw, s)
           fdbOk == ~cfg.bridge \/ h.fdb \/ ~fdbFull
           free(g) == IF h.dec # "NONE" THEN Release(g, s) ELSE g
           res   == CASE ~want -> [type |-> type1, h |-> free(h)]
                      [] want /\ ~fqOk -> [type |-> "FAIL", h |-> free(h)]
                      [] want /\ fqOk /\ ~fdbOk -> [type |-> "FAIL", h |-> free(added)]
                      [] OTHER -> [type |-> "ADV",
                                   h |-> [added EXCEPT !.fdb = cfg.bridge]]
           d     == ChangeDeclaration(h.mad, p \in x.en, s, "T", h.dec, res.type, r.tReg[p])
<1>1. y = [res.h EXCEPT !.dec = d.dec, !.mad = d.mad]
  BY DEF UpdateTalkerPort
\* What is reserved, whatever the declaration becomes.
<1> DEFINE Reserved(t, g) ==
             /\ g \in HeldType /\ g.bw <= Limit /\ t \in TalkerTypes
             /\ Accounted(h, g, s) /\ (g.fq => Slope[s] <= g.bw)
             /\ g.fdb => g.fq /\ cfg.bridge /\ t = "ADV" /\ want
             /\ g.fq => p \in x.en
             /\ t = "ADV" => type1 = "ADV" /\ (ListenerReady(r, p) => g.fq /\ (cfg.bridge => g.fdb))
<1>2. type1 \in TalkerTypes /\ (type1 = "ADV" => type = "ADV" /\ ~x.bnd[p])
  BY DEF TalkerTypes
<1>3. want => p \in x.en
  BY DEF ListenerReady, ListenerType
<1>4. Accounted(h, h, s)
  BY <1>0 DEF Accounted, HeldOk
<1>5. /\ free(h) \in HeldType /\ free(h).fdb = FALSE /\ free(h).fq = FALSE
      /\ Accounted(h, free(h), s)
  <2>1. CASE h.dec # "NONE"
    BY <1>0, <2>1, ReleaseSpec DEF HeldOk
  <2>2. CASE h.dec = "NONE"
    <3>1. h.fq = FALSE /\ h.fdb = FALSE
      BY <1>0, <2>2 DEF HeldOk, HeldType
    <3> QED BY <1>0, <1>4, <2>2, <3>1
  <2> QED BY <2>1, <2>2
<1>6. ASSUME want, fqOk
      PROVE  /\ added \in HeldType /\ added.fq = TRUE /\ added.fdb = h.fdb
             /\ Accounted(h, added, s) /\ Slope[s] <= added.bw
  <2>1. h.bw \in Nat /\ BwAdd(h.bw, s) = h.bw + Slope[s]
    BY <1>0 DEF BwAdd, HeldType
  <2>2. (IF h.fq THEN h.bw ELSE BwAdd(h.bw, s)) \in Nat
    BY <1>0, <2>1
  <2>3. added.fq = TRUE /\ added.fdb = h.fdb
        /\ added.bw = IF h.fq THEN h.bw ELSE BwAdd(h.bw, s)
    BY <1>0 DEF HeldType
  <2>4. added \in HeldType
    BY <1>0, <2>2 DEF HeldType
  <2> HIDE DEF added
  <2>5. Accounted(h, added, s) /\ Slope[s] <= added.bw
    BY <1>0, <1>6, <2>1, <2>3 DEF Accounted, HeldOk, Admits
  <2> QED BY <2>3, <2>4, <2>5
<1>7. Reserved(res.type, res.h)
  <2>1. CASE ~want
    <3>1. res.type = type1 /\ res.h = free(h)
      BY <2>1
    <3> HIDE DEF res, free, type1
    <3>2. want = (type1 = "ADV" /\ ListenerReady(r, p))
      OBVIOUS
    <3> HIDE DEF want
    <3> QED BY <2>1, <3>1, <3>2, <1>2, <1>5 DEF Accounted
  <2>2. CASE want /\ ~fqOk
    <3>1. res.type = "FAIL" /\ res.h = free(h)
      BY <2>2
    <3> HIDE DEF res, free, type1, want
    <3> QED BY <3>1, <1>5 DEF Accounted, TalkerTypes
  <2>3. CASE want /\ fqOk /\ ~fdbOk
    <3>1. res.type = "FAIL" /\ res.h = free(added)
      BY <2>3
    <3>2. h.fdb = FALSE
      BY <1>0, <2>3 DEF HeldType
    <3>3. CASE h.dec = "NONE"
      <4>1. res.h = added
        BY <3>1, <3>3
      <4> HIDE DEF res, free, type1, want, added, fqOk
      <4> QED BY <2>3, <3>1, <3>2, <4>1, <1>3, <1>6 DEF Accounted, TalkerTypes
    <3>4. CASE h.dec # "NONE"
      <4>1. res.h = Release(added, s)
        BY <3>1, <3>4
      <4> HIDE DEF res, free, type1, want, added, fqOk
      <4>2. added.bw <= Limit
        BY <2>3, <1>6 DEF Accounted
      <4>3. /\ Release(added, s) \in HeldType
            /\ Release(added, s).fdb = FALSE /\ Release(added, s).fq = FALSE
            /\ Accounted(added, Release(added, s), s)
        BY <2>3, <3>2, <4>2, <1>6, ReleaseSpec
      <4>4. Accounted(h, Release(added, s), s)
        <5>1. h.bw \in Nat /\ added.bw \in Nat
          BY <1>0, <1>6, <2>3 DEF HeldType
        <5> QED BY <1>0, <1>6, <2>3, <4>3, <5>1 DEF Accounted
      <4> QED BY <3>1, <4>1, <4>3, <4>4 DEF Accounted, TalkerTypes
    <3> QED BY <3>3, <3>4
  <2>4. CASE want /\ fqOk /\ fdbOk
    <3>1. res.type = "ADV" /\ res.h = [added EXCEPT !.fdb = cfg.bridge]
      BY <2>4
    <3>2. want => type1 = "ADV"
      OBVIOUS
    <3> HIDE DEF res, free, type1, want, added, fqOk
    <3>3. res.h.fq = TRUE /\ res.h.fdb = cfg.bridge /\ res.h.bw = added.bw /\ res.h \in HeldType
      BY <2>4, <3>1, <1>6 DEF HeldType
    <3>4. Accounted(h, res.h, s) /\ Slope[s] <= res.h.bw
      BY <2>4, <3>3, <1>6 DEF Accounted
    <3> QED BY <2>4, <3>1, <3>2, <3>3, <3>4, <1>3 DEF Accounted, TalkerTypes
  <2> QED BY <2>1, <2>2, <2>3, <2>4
<1> HIDE DEF res, free, want, added, fqOk, fdbOk, type1
<1>8. /\ d.mad \in MadType /\ d.dec \in TalkerTypes \cup {"NONE"}
      /\ Real(d.mad, s, "T", d.dec) /\ SameBut(h.mad, d.mad, s, "T")
      /\ ~cfg.sendLeave => NotLeaving(d.mad, s, "T")
      /\ p \in x.en => d.dec = res.type
      /\ p \notin x.en => d.dec = "NONE"
  <2>1. /\ h.mad \in MadType /\ h.dec \in AllTypes /\ res.type \in AllTypes
        /\ res.type # "NONE" /\ (p \in x.en) \in BOOLEAN
        /\ Real(h.mad, s, "T", h.dec) /\ (p \notin x.en => h.dec = "NONE")
        /\ res.type \notin r.tReg[p]
    BY <1>0, <1>7 DEF HeldType, HeldOk, AllTypes, TalkerTypes
  <2>2. "T" \in {"T", "L"}
    OBVIOUS
  <2>3. d.mad \in MadType /\ d.dec \in {"NONE", res.type}
    BY <2>1, <2>2, ChangeTyped
  <2>4. /\ Real(d.mad, s, "T", d.dec) /\ SameBut(h.mad, d.mad, s, "T")
        /\ p \notin x.en => d.dec = "NONE"
        /\ ~cfg.sendLeave /\ NotLeaving(h.mad, s, "T") => NotLeaving(d.mad, s, "T")
        /\ p \in x.en /\ (cfg.sendLeave \/ (NotLeaving(h.mad, s, "T") /\ res.type \notin r.tReg[p]))
             => d.dec = res.type
    <3> DEFINE t == res.type
               reg == r.tReg[p]
               m == h.mad
               old == h.dec
    <3>1. d = ChangeDeclaration(m, p \in x.en, s, "T", old, t, reg)
      OBVIOUS
    <3>2. /\ m \in MadType /\ old \in AllTypes /\ t \in AllTypes /\ t # "NONE"
          /\ Real(m, s, "T", old) /\ (p \notin x.en => old = "NONE")
      BY <2>1
    <3> HIDE DEF d, t, reg, m, old
    <3>3. /\ Real(d.mad, s, "T", d.dec) /\ SameBut(m, d.mad, s, "T")
          /\ p \notin x.en => d.dec = "NONE"
          /\ ~cfg.sendLeave /\ NotLeaving(m, s, "T") => NotLeaving(d.mad, s, "T")
          /\ p \in x.en /\ (cfg.sendLeave \/ (NotLeaving(m, s, "T") /\ t \notin reg))
               => d.dec = t
      BY <2>2, <3>1, <3>2, ChangeIsReal
    <3> QED BY <3>3 DEF t, reg, m
  <2> HIDE DEF d
  <2>5. res.type \in TalkerTypes
    BY <1>7
  <2> HIDE DEF Reserved
  <2> QED BY <2>1, <2>3, <2>4, <2>5
<1> HIDE DEF d
<1>9. /\ y.dec = d.dec /\ y.mad = d.mad /\ y.fq = res.h.fq /\ y.fdb = res.h.fdb
      /\ y.bw = res.h.bw /\ y \in HeldType
  BY <1>1, <1>7, <1>8 DEF HeldType
<1>10. Accounted(h, y, s)
  BY <1>7, <1>9 DEF Accounted
<1>11. y.fdb => y.fq /\ cfg.bridge /\ y.dec = "ADV" /\ ListenerReady(r, p)
  BY <1>7, <1>8, <1>9, <1>3 DEF want
<1>12. y.fq => y.dec # "NONE" /\ Slope[s] <= y.bw
  BY <1>7, <1>8, <1>9 DEF TalkerTypes
<1>13. TalkerMapped(h, y, s, p \in x.en)
  BY <1>8, <1>9, <1>10, <1>11, <1>12 DEF TalkerMapped, HeldOk, Accounted
<1>14. y.dec # "NONE" <=> p \in x.en
  BY <1>7, <1>8, <1>9 DEF TalkerTypes
<1>15. y.dec = "ADV" => type = "ADV" /\ ~x.bnd[p]
  BY <1>2, <1>7, <1>8, <1>9
<1>16. y.dec = "ADV" /\ ListenerReady(r, p) => y.fq /\ (cfg.bridge => y.fdb)
  BY <1>7, <1>8, <1>9
<1> QED BY <1>8, <1>9, <1>11, <1>13, <1>14, <1>15, <1>16

-----------------------------------------------------------------------------
(***************************************************************************)
(* Sums of slopes.                                                         *)
(***************************************************************************)
LEMMA OwnUnits ==
  ASSUME NEW s \in Streams, NEW U, U = {<<s, i>> : i \in 1 .. Slope[s]}
  PROVE  IsFiniteSet(U) /\ Cardinality(U) = Slope[s]
<1>1. Slope[s] \in Nat
  BY MSRPAssumption
<1>2. IsFiniteSet(1 .. Slope[s]) /\ Cardinality(1 .. Slope[s]) = Slope[s]
  BY <1>1, FS_Interval
<1> DEFINE f == [i \in 1 .. Slope[s] |-> <<s, i>>]
<1>3. f \in Bijection(1 .. Slope[s], U)
  <2>1. f \in [1 .. Slope[s] -> U] /\ \A i, j \in 1 .. Slope[s] : f[i] = f[j] => i = j
    OBVIOUS
  <2>2. \A u \in U : \E i \in 1 .. Slope[s] : f[i] = u
    OBVIOUS
  <2> HIDE DEF f
  <2> QED BY <2>1, <2>2 DEF Bijection, Injection, Surjection, IsInjective
<1>4. ExistsBijection(1 .. Slope[s], U)
  BY <1>3 DEF ExistsBijection
<1> QED BY <1>2, <1>4, FS_Bijection

\* The streams need finitely many units.
LEMMA UnitsFinite ==
  ASSUME NEW S \in SUBSET Streams
  PROVE  IsFiniteSet(Units(S)) /\ Cardinality(Units(S)) \in Nat
<1>1. IsFiniteSet(S)
  BY MSRPAssumption, FS_Subset
<1> DEFINE own(s) == {<<s, i>> : i \in 1 .. Slope[s]}
           T == {own(s) : s \in S}
           f == [s \in S |-> own(s)]
<1>2. IsFiniteSet(T)
  <2>1. f \in Surjection(S, T)
    BY DEF Surjection
  <2> HIDE DEF f, T
  <2> QED BY <1>1, <2>1, FS_Surjection
<1>3. \A V \in T : IsFiniteSet(V)
  BY OwnUnits
<1>4. Units(S) = UNION T
  BY DEF Units
<1> HIDE DEF T
<1>5. IsFiniteSet(Units(S))
  BY <1>2, <1>3, <1>4, FS_UNION
<1> QED BY <1>5, FS_CardinalityType

\* One more stream needs its slope more.
LEMMA UnitsAdd ==
  ASSUME NEW S \in SUBSET Streams, NEW s \in Streams, s \notin S
  PROVE  Cardinality(Units(S \cup {s})) = Cardinality(Units(S)) + Slope[s]
<1> DEFINE U == {<<s, i>> : i \in 1 .. Slope[s]}
<1>1. IsFiniteSet(U) /\ Cardinality(U) = Slope[s]
  BY OwnUnits
<1>2. IsFiniteSet(Units(S)) /\ Cardinality(Units(S)) \in Nat
  BY UnitsFinite
<1>3. Units(S \cup {s}) = Units(S) \cup U
  BY DEF Units
<1>4. Units(S) \cap U = {}
  BY DEF Units
<1>5. Slope[s] \in Nat /\ Cardinality({}) = 0
  BY MSRPAssumption, FS_EmptySet
<1> HIDE DEF U
<1>6. Cardinality(Units(S) \cup U)
        = Cardinality(Units(S)) + Cardinality(U) - Cardinality(Units(S) \cap U)
  BY <1>1, <1>2, FS_Union
<1>7. Cardinality(Units(S \cup {s})) = Cardinality(Units(S)) + Slope[s] - 0
  BY <1>1, <1>3, <1>4, <1>5, <1>6
<1>8. \A m, n \in Nat : m + n - 0 = m + n
  OBVIOUS
<1> QED BY <1>2, <1>5, <1>7, <1>8

-----------------------------------------------------------------------------
(***************************************************************************)
(* What holds of a context while a handler runs.                           *)
(***************************************************************************)

\* The state of stream s on port p: nothing on a disabled port, a reservation
\* only with a declaration, the declarations are in MRP, and no attribute that
\* is leaving is about to be declared.
PortOk(x, s, p) ==
    /\ p \notin x.en => /\ x.st[s].tReg[p] = {} /\ x.st[s].lReg[p] = {}
                        /\ x.st[s].decT[p] = "NONE" /\ x.st[s].decL[p] = "NONE"
    /\ p \in x.st[s].fdb => p \in x.st[s].fqtss /\ cfg.bridge
    /\ p \in x.st[s].fqtss => x.st[s].decT[p] # "NONE"
    /\ Real(x.mad[p], s, "T", x.st[s].decT[p])
    /\ Real(x.mad[p], s, "L", x.st[s].decL[p])
    /\ ~cfg.sendLeave /\ DeclaresTalker(x, s, p) => NotLeaving(x.mad[p], s, "T")
    /\ ~cfg.sendLeave /\ DeclaresListener(x, s, p) => NotLeaving(x.mad[p], s, "L")

Holders(x, p) == {s \in Streams : p \in x.st[s].fqtss}

BandwidthOk(x, p) == x.bw[p] = Cardinality(Units(Holders(x, p))) /\ x.bw[p] <= Limit

\* A stream that is not in the list of the map has an empty entry.
ListOk(x) == \A s \in Streams : s \notin {x.order[j] : j \in DOMAIN x.order} => x.st[s] = NoStream

CtxOk(x) ==
    /\ x \in CtxType /\ x.en \subseteq cfg.ports
    /\ \A s \in Streams, p \in Ports : PortOk(x, s, p)
    /\ \A p \in Ports : BandwidthOk(x, p)

\* The map changes declarations, never a registration or a request.
SameRegs(x, y) ==
    /\ y.up = x.up /\ y.en = x.en /\ y.bnd = x.bnd
    /\ \A u \in Streams : /\ y.st[u].tReg = x.st[u].tReg /\ y.st[u].lReg = x.st[u].lReg
                          /\ y.st[u].userT = x.st[u].userT /\ y.st[u].userL = x.st[u].userL

\* What the map decides depends on registrations and requests only.
LEMMA SameMeaning ==
  ASSUME NEW x, NEW y, SameRegs(x, y), NEW u \in Streams, NEW p \in Ports
  PROVE  /\ DeclaresTalker(y, u, p) <=> DeclaresTalker(x, u, p)
         /\ DeclaresListener(y, u, p) <=> DeclaresListener(x, u, p)
         /\ MapTalkerType(y.st[u]) = MapTalkerType(x.st[u])
         /\ ListenerReady(y.st[u], p) <=> ListenerReady(x.st[u], p)
         /\ TalkerType(y.st[u], p) = TalkerType(x.st[u], p)
         /\ ListenersBehind(y.st[u], p) = ListenersBehind(x.st[u], p)
<1>1. TalkerPorts(y.st[u]) = TalkerPorts(x.st[u]) /\ ListenerPorts(y.st[u]) = ListenerPorts(x.st[u])
  BY DEF SameRegs, TalkerPorts, ListenerPorts
<1>2. \A q : TalkerType(y.st[u], q) = TalkerType(x.st[u], q)
  BY DEF SameRegs, TalkerType
<1>3. \A q : ListenerType(y.st[u], q) = ListenerType(x.st[u], q)
  BY DEF SameRegs, ListenerType
<1>4. ListenerReady(y.st[u], p) <=> ListenerReady(x.st[u], p)
  BY <1>3 DEF ListenerReady
<1>5. MapTalkerType(y.st[u]) = MapTalkerType(x.st[u])
  BY <1>1, <1>2 DEF MapTalkerType
<1>6. ListenersBehind(y.st[u], p) = ListenersBehind(x.st[u], p)
  BY <1>1, <1>3 DEF ListenersBehind, SameRegs
<1> QED BY <1>1, <1>2, <1>4, <1>5, <1>6 DEF DeclaresTalker, DeclaresListener, SameRegs

-----------------------------------------------------------------------------
(***************************************************************************)
(* The talker half of the map.                                             *)
(***************************************************************************)

\* On every port of the stack the talker is declared as it should be, with the
\* resources that go with it.
TalkerRight(x, s, p) ==
    /\ x.st[s].decT[p] # "NONE" <=> DeclaresTalker(x, s, p) /\ p \in x.en /\ p \in cfg.ports
    /\ x.st[s].decT[p] = "ADV" => MapTalkerType(x.st[s]) = "ADV" /\ ~x.bnd[p]
    /\ x.st[s].decT[p] = "ADV" /\ ListenerReady(x.st[s], p)
          => p \in x.st[s].fqtss /\ (cfg.bridge => p \in x.st[s].fdb)
    /\ p \in x.st[s].fdb => x.st[s].decT[p] = "ADV" /\ ListenerReady(x.st[s], p)

\* What a stream holds on a port, in a context that is in order.
LEMMA HeldIsOk ==
  ASSUME NEW x, CtxOk(x), NEW s \in Streams, NEW p \in Ports
  PROVE  HeldOk(Held(x, s, p), s, p \in x.en)
<1> DEFINE h == Held(x, s, p)
<1>1. /\ h.dec = x.st[s].decT[p] /\ h.bw = x.bw[p] /\ h.mad = x.mad[p]
      /\ h.fq = (p \in x.st[s].fqtss) /\ h.fdb = (p \in x.st[s].fdb)
  BY DEF Held
<1>2. PortOk(x, s, p) /\ BandwidthOk(x, p)
  BY DEF CtxOk
<1>3. p \in x.st[s].fqtss => Slope[s] <= x.bw[p]
  <2> SUFFICES ASSUME p \in x.st[s].fqtss PROVE Slope[s] <= x.bw[p]
    OBVIOUS
  <2> DEFINE S == Holders(x, p) \ {s}
  <2>1. S \in SUBSET Streams /\ s \notin S /\ S \cup {s} = Holders(x, p)
    BY DEF Holders
  <2> HIDE DEF S
  <2>2. Cardinality(Units(Holders(x, p))) = Cardinality(Units(S)) + Slope[s]
    BY <2>1, UnitsAdd
  <2>3. Cardinality(Units(S)) \in Nat /\ Slope[s] \in Nat
    BY <2>1, UnitsFinite, MSRPAssumption
  <2> QED BY <1>2, <2>2, <2>3 DEF BandwidthOk
<1> HIDE DEF h
<1>4. HeldOk(h, s, p \in x.en)
  BY <1>1, <1>2, <1>3 DEF HeldOk, PortOk, BandwidthOk
<1> QED BY <1>4 DEF h

\* The talker half of the map on one port.
LEMMA TalkerPortSpec ==
  ASSUME NEW x, CtxOk(x), cfg \in Configs, NEW s \in Streams, NEW p \in Ports,
         NEW h, h = Held(x, s, p), NEW y, y = TalkerPort(x, s, p)
  PROVE  /\ TalkerMapped(h, y, s, p \in x.en)
         /\ ~cfg.sendLeave /\ DeclaresTalker(x, s, p) => NotLeaving(y.mad, s, "T")
         /\ y.dec # "NONE" <=> DeclaresTalker(x, s, p) /\ p \in x.en /\ p \in cfg.ports
         /\ y.dec = "ADV" => MapTalkerType(x.st[s]) = "ADV" /\ ~x.bnd[p]
         /\ y.dec = "ADV" /\ ListenerReady(x.st[s], p) => y.fq /\ (cfg.bridge => y.fdb)
         /\ y.fdb => y.dec = "ADV" /\ ListenerReady(x.st[s], p)
<1>1. HeldOk(h, s, p \in x.en) /\ x \in CtxType /\ PortOk(x, s, p) /\ x.en \subseteq cfg.ports
  BY HeldIsOk DEF CtxOk
<1>2. h \in HeldType /\ Slope[s] \in Nat
  BY <1>1, HeldTyped, MSRPAssumption
<1>3. h.dec = x.st[s].decT[p] /\ h.mad = x.mad[p]
  BY DEF Held
<1>4. x.st[s] \in StreamType
  BY <1>1 DEF CtxType
<1>5. CASE p \notin cfg.ports
  <2>1. y = h
    BY <1>5 DEF TalkerPort
  <2>2. SameBut(h.mad, h.mad, s, "T") /\ Accounted(h, h, s)
    BY <1>1, <1>2 DEF SameBut, Accounted, HeldOk
  <2>3. y.dec = "NONE" /\ ~y.fdb
    BY <1>1, <1>5, <2>1 DEF HeldOk
  <2>4. TalkerMapped(h, y, s, p \in x.en)
    BY <1>1, <1>2, <2>1, <2>2 DEF TalkerMapped
  <2>5. ~cfg.sendLeave /\ DeclaresTalker(x, s, p) => NotLeaving(y.mad, s, "T")
    BY <1>1, <1>3, <2>1 DEF PortOk
  <2> QED BY <1>5, <2>3, <2>4, <2>5
<1>6. CASE p \in cfg.ports /\ ~DeclaresTalker(x, s, p)
  <2>1. y = RemoveTalkerPort(x, s, p)
    BY <1>6 DEF TalkerPort
  <2>2. TalkerMapped(h, y, s, p \in x.en) /\ y.dec = "NONE"
    BY <1>1, <2>1, RemoveTalkerSpec
  <2>3. ~y.fdb
    BY <2>2 DEF TalkerMapped, HeldOk
  <2> QED BY <1>6, <2>2, <2>3
<1>7. CASE p \in cfg.ports /\ DeclaresTalker(x, s, p)
  <2>1. y = UpdateTalkerPort(x, s, p, MapTalkerType(x.st[s]))
    BY <1>7 DEF TalkerPort
  <2>2. MapTalkerType(x.st[s]) \in TalkerTypes
    BY <1>4, MapTalkerTyped
  <2>3. x.st[s].tReg[p] = {} /\ cfg.bridge \in BOOLEAN
    BY <1>7, MSRPAssumption DEF DeclaresTalker, TalkerPorts
  <2>4. p \notin x.en => x.st[s].lReg[p] = {}
    BY <1>1 DEF PortOk
  <2>5. ~cfg.sendLeave => NotLeaving(h.mad, s, "T")
    BY <1>1, <1>3, <1>7 DEF PortOk
  <2> DEFINE r == x.st[s]
             type == MapTalkerType(r)
  <2>6. r = x.st[s] /\ type \in TalkerTypes /\ y = UpdateTalkerPort(x, s, p, type)
    BY <2>1, <2>2
  <2>7. (p \notin x.en => r.lReg[p] = {}) /\ r.tReg[p] = {}
    BY <2>3, <2>4
  <2> HIDE DEF r, type
  <2>8. /\ TalkerMapped(h, y, s, p \in x.en)
        /\ ~cfg.sendLeave => NotLeaving(y.mad, s, "T")
        /\ y.dec # "NONE" <=> p \in x.en
        /\ y.dec = "ADV" => type = "ADV" /\ ~x.bnd[p]
        /\ y.dec = "ADV" /\ ListenerReady(r, p) => y.fq /\ (cfg.bridge => y.fdb)
        /\ y.fdb => y.dec = "ADV" /\ ListenerReady(r, p)
    BY <1>1, <2>3, <2>5, <2>6, <2>7, UpdateTalkerSpec
  <2> QED BY <1>7, <2>8 DEF r, type
<1> QED BY <1>5, <1>6, <1>7

LEMMA MapTalkerFields ==
  ASSUME NEW x \in CtxType, NEW s \in Streams,
         \A p \in Ports : TalkerPort(x, s, p) \in HeldType,
         NEW y, y = MapUpdateTalker(x, s)
  PROVE  /\ y \in CtxType
         /\ y.order = x.order /\ y.up = x.up /\ y.en = x.en /\ y.bnd = x.bnd /\ y.vlans = x.vlans
         /\ \A u \in Streams : u # s => y.st[u] = x.st[u]
         /\ y.st[s].tReg = x.st[s].tReg /\ y.st[s].lReg = x.st[s].lReg
         /\ y.st[s].userT = x.st[s].userT /\ y.st[s].userL = x.st[s].userL
         /\ y.st[s].decL = x.st[s].decL /\ y.st[s].vlan = x.st[s].vlan
         /\ \A p \in Ports : /\ y.st[s].decT[p] = TalkerPort(x, s, p).dec
                             /\ p \in y.st[s].fqtss <=> TalkerPort(x, s, p).fq
                             /\ p \in y.st[s].fdb <=> TalkerPort(x, s, p).fdb
                             /\ y.bw[p] = TalkerPort(x, s, p).bw
                             /\ y.mad[p] = TalkerPort(x, s, p).mad
<1> DEFINE h == [p \in Ports |-> TalkerPort(x, s, p)]
           decT == [p \in Ports |-> h[p].dec]
           fq == {p \in Ports : h[p].fq}
           fdb == {p \in Ports : h[p].fdb}
           bw1 == [p \in Ports |-> h[p].bw]
           mad1 == [p \in Ports |-> h[p].mad]
<1>1. /\ decT \in [Ports -> TalkerTypes \cup {"NONE"}] /\ fq \in SUBSET Ports
      /\ fdb \in SUBSET Ports /\ bw1 \in [Ports -> Nat] /\ mad1 \in [Ports -> MadType]
  BY DEF HeldType
<1> DEFINE r == [x.st[s] EXCEPT !.decT = decT, !.fqtss = fq, !.fdb = fdb]
           st1 == [x.st EXCEPT ![s] = r]
<1>2. y = [x EXCEPT !.st[s] = r, !.bw = bw1, !.mad = mad1]
  BY DEF MapUpdateTalker, SetTalkers
<1>3. \A p \in Ports : /\ decT[p] = TalkerPort(x, s, p).dec
                       /\ p \in fq <=> TalkerPort(x, s, p).fq
                       /\ p \in fdb <=> TalkerPort(x, s, p).fdb
                       /\ bw1[p] = TalkerPort(x, s, p).bw
                       /\ mad1[p] = TalkerPort(x, s, p).mad
  OBVIOUS
<1> HIDE DEF h, decT, fq, fdb, bw1, mad1
<1>4. y = [x EXCEPT !.st = st1, !.bw = bw1, !.mad = mad1]
  <2> HIDE DEF r
  <2> QED BY <1>2 DEF CtxType
<1>5. x.st[s] \in StreamType
  BY DEF CtxType
<1>6. /\ r \in StreamType /\ r.decT = decT /\ r.fqtss = fq /\ r.fdb = fdb
      /\ r.tReg = x.st[s].tReg /\ r.lReg = x.st[s].lReg
      /\ r.userT = x.st[s].userT /\ r.userL = x.st[s].userL
      /\ r.decL = x.st[s].decL /\ r.vlan = x.st[s].vlan
  BY <1>1, <1>5 DEF StreamType
<1> HIDE DEF r
<1>7. /\ st1[s] = r /\ \A u \in Streams : u # s => st1[u] = x.st[u]
      /\ st1 \in [Streams -> StreamType]
  BY <1>6 DEF CtxType
<1> HIDE DEF st1
<1>8. /\ y.order = x.order /\ y.up = x.up /\ y.en = x.en /\ y.bnd = x.bnd /\ y.vlans = x.vlans
      /\ y.bw = bw1 /\ y.mad = mad1 /\ y.st = st1
  BY <1>4 DEF CtxType
<1>9. y \in CtxType
  BY <1>1, <1>4, <1>7 DEF CtxType
<1> QED BY <1>3, <1>6, <1>7, <1>8, <1>9

\* The talker half of the map on one stream.
LEMMA MapTalkerKeeps ==
  ASSUME NEW x, CtxOk(x), cfg \in Configs, NEW s \in Streams,
         NEW y, y = MapUpdateTalker(x, s)
  PROVE  /\ CtxOk(y) /\ SameRegs(x, y) /\ y.order = x.order /\ y.vlans = x.vlans
         /\ \A u \in Streams : u # s => y.st[u] = x.st[u]
         /\ y.st[s].decL = x.st[s].decL /\ y.st[s].vlan = x.st[s].vlan
         /\ \A p \in Ports : TalkerRight(y, s, p)
<1>1. ASSUME NEW p \in Ports
      PROVE  /\ TalkerMapped(Held(x, s, p), TalkerPort(x, s, p), s, p \in x.en)
             /\ ~cfg.sendLeave /\ DeclaresTalker(x, s, p) => NotLeaving(TalkerPort(x, s, p).mad, s, "T")
             /\ TalkerPort(x, s, p).dec # "NONE"
                  <=> DeclaresTalker(x, s, p) /\ p \in x.en /\ p \in cfg.ports
             /\ TalkerPort(x, s, p).dec = "ADV" => MapTalkerType(x.st[s]) = "ADV" /\ ~x.bnd[p]
             /\ TalkerPort(x, s, p).dec = "ADV" /\ ListenerReady(x.st[s], p)
                  => TalkerPort(x, s, p).fq /\ (cfg.bridge => TalkerPort(x, s, p).fdb)
             /\ TalkerPort(x, s, p).fdb => TalkerPort(x, s, p).dec = "ADV" /\ ListenerReady(x.st[s], p)
  <2> DEFINE h == Held(x, s, p)
             z == TalkerPort(x, s, p)
  <2>1. h = Held(x, s, p) /\ z = TalkerPort(x, s, p)
    OBVIOUS
  <2> HIDE DEF h, z
  <2>2. /\ TalkerMapped(h, z, s, p \in x.en)
        /\ ~cfg.sendLeave /\ DeclaresTalker(x, s, p) => NotLeaving(z.mad, s, "T")
        /\ z.dec # "NONE" <=> DeclaresTalker(x, s, p) /\ p \in x.en /\ p \in cfg.ports
        /\ z.dec = "ADV" => MapTalkerType(x.st[s]) = "ADV" /\ ~x.bnd[p]
        /\ z.dec = "ADV" /\ ListenerReady(x.st[s], p) => z.fq /\ (cfg.bridge => z.fdb)
        /\ z.fdb => z.dec = "ADV" /\ ListenerReady(x.st[s], p)
    BY <2>1, TalkerPortSpec
  <2> QED BY <2>1, <2>2
<1>2. x \in CtxType /\ \A p \in Ports : TalkerPort(x, s, p) \in HeldType
  BY <1>1 DEF TalkerMapped, CtxOk
<1>3. /\ y \in CtxType
      /\ y.order = x.order /\ y.up = x.up /\ y.en = x.en /\ y.bnd = x.bnd /\ y.vlans = x.vlans
      /\ \A u \in Streams : u # s => y.st[u] = x.st[u]
      /\ y.st[s].tReg = x.st[s].tReg /\ y.st[s].lReg = x.st[s].lReg
      /\ y.st[s].userT = x.st[s].userT /\ y.st[s].userL = x.st[s].userL
      /\ y.st[s].decL = x.st[s].decL /\ y.st[s].vlan = x.st[s].vlan
      /\ \A p \in Ports : /\ y.st[s].decT[p] = TalkerPort(x, s, p).dec
                          /\ p \in y.st[s].fqtss <=> TalkerPort(x, s, p).fq
                          /\ p \in y.st[s].fdb <=> TalkerPort(x, s, p).fdb
                          /\ y.bw[p] = TalkerPort(x, s, p).bw
                          /\ y.mad[p] = TalkerPort(x, s, p).mad
  BY <1>2, MapTalkerFields
<1>4. SameRegs(x, y)
  BY <1>3 DEF SameRegs
<1>5. ASSUME NEW p \in Ports PROVE TalkerRight(y, s, p)
  <2>1. /\ DeclaresTalker(y, s, p) <=> DeclaresTalker(x, s, p)
        /\ MapTalkerType(y.st[s]) = MapTalkerType(x.st[s])
        /\ ListenerReady(y.st[s], p) <=> ListenerReady(x.st[s], p)
    BY <1>4, SameMeaning
  <2> QED BY <1>1, <1>3, <2>1 DEF TalkerRight
<1>6. ASSUME NEW p \in Ports PROVE SameBut(x.mad[p], y.mad[p], s, "T")
  BY <1>1, <1>3 DEF TalkerMapped, Held
<1>7. ASSUME NEW u \in Streams, NEW p \in Ports PROVE PortOk(y, u, p)
  <2>1. PortOk(x, u, p)
    BY DEF CtxOk
  <2>2. /\ DeclaresTalker(y, u, p) <=> DeclaresTalker(x, u, p)
        /\ DeclaresListener(y, u, p) <=> DeclaresListener(x, u, p)
    BY <1>4, SameMeaning
  <2>3. CASE u # s
    <3>1. y.st[u] = x.st[u] /\ y.en = x.en
      BY <1>3, <2>3
    <3>2. /\ Real(y.mad[p], u, "T", x.st[u].decT[p])
          /\ Real(y.mad[p], u, "L", x.st[u].decL[p])
      BY <1>6, <2>1, <2>3 DEF SameBut, Real, PortOk
    <3>3. /\ NotLeaving(x.mad[p], u, "T") => NotLeaving(y.mad[p], u, "T")
          /\ NotLeaving(x.mad[p], u, "L") => NotLeaving(y.mad[p], u, "L")
      BY <1>6, <2>3 DEF SameBut, NotLeaving
    <3> QED BY <2>1, <2>2, <3>1, <3>2, <3>3 DEF PortOk
  <2>4. CASE u = s
    <3>1. Real(y.mad[p], s, "L", x.st[s].decL[p])
      BY <1>6, <2>1, <2>4 DEF SameBut, Real, PortOk
    <3>2. NotLeaving(x.mad[p], s, "L") => NotLeaving(y.mad[p], s, "L")
      BY <1>6 DEF SameBut, NotLeaving
    <3>3. HeldOk(TalkerPort(x, s, p), s, p \in x.en)
      BY <1>1 DEF TalkerMapped
    <3>4. ~cfg.sendLeave /\ DeclaresTalker(x, s, p) => NotLeaving(y.mad[p], s, "T")
      BY <1>1, <1>3
    <3>5. Real(y.mad[p], s, "T", y.st[s].decT[p])
      BY <1>3, <3>3 DEF HeldOk
    <3>6. /\ p \in y.st[s].fdb => p \in y.st[s].fqtss /\ cfg.bridge
          /\ p \in y.st[s].fqtss => y.st[s].decT[p] # "NONE"
          /\ p \notin y.en => y.st[s].decT[p] = "NONE"
      BY <1>3, <3>3 DEF HeldOk
    <3> QED BY <1>3, <2>1, <2>2, <2>4, <3>1, <3>2, <3>4, <3>5, <3>6 DEF PortOk
  <2> QED BY <2>3, <2>4
<1>8. ASSUME NEW p \in Ports PROVE BandwidthOk(y, p)
  <2>1. BandwidthOk(x, p)
    BY DEF CtxOk
  <2>2. Accounted(Held(x, s, p), TalkerPort(x, s, p), s)
    BY <1>1 DEF TalkerMapped
  <2>3. /\ Held(x, s, p).bw = x.bw[p] /\ (Held(x, s, p).fq <=> p \in x.st[s].fqtss)
    BY DEF Held
  <2>4. /\ (p \in x.st[s].fqtss <=> p \in y.st[s].fqtss) => y.bw[p] = x.bw[p]
        /\ p \in x.st[s].fqtss /\ p \notin y.st[s].fqtss => y.bw[p] = x.bw[p] - Slope[s]
        /\ p \notin x.st[s].fqtss /\ p \in y.st[s].fqtss => y.bw[p] = x.bw[p] + Slope[s]
        /\ y.bw[p] <= Limit
    BY <1>3, <2>2, <2>3 DEF Accounted
  <2> DEFINE S == Holders(x, p) \ {s}
  <2>5. S \in SUBSET Streams /\ s \notin S
    BY DEF Holders
  <2>6. Holders(x, p) = IF p \in x.st[s].fqtss THEN S \cup {s} ELSE S
    BY DEF Holders
  <2>7. Holders(y, p) = IF p \in y.st[s].fqtss THEN S \cup {s} ELSE S
    BY <1>3 DEF Holders
  <2> HIDE DEF S
  <2>8. Cardinality(Units(S \cup {s})) = Cardinality(Units(S)) + Slope[s]
    BY <2>5, UnitsAdd
  <2>9. Cardinality(Units(S)) \in Nat /\ Slope[s] \in Nat
    BY <2>5, UnitsFinite, MSRPAssumption
  <2>10. y.bw[p] = Cardinality(Units(Holders(y, p)))
    BY <2>1, <2>4, <2>6, <2>7, <2>8, <2>9 DEF BandwidthOk
  <2> QED BY <2>4, <2>10 DEF BandwidthOk
<1>9. CtxOk(y)
  BY <1>3, <1>7, <1>8 DEF CtxOk
<1> QED BY <1>3, <1>4, <1>5, <1>9

-----------------------------------------------------------------------------
(***************************************************************************)
(* The merge of the listeners of the other ports.                          *)
(***************************************************************************)

\* What the merge of a set of listener declarations is.
Merged(B, m) ==
    /\ m \in ListenerTypes \cup {"NONE"}
    /\ m = "NONE" <=> B = {}
    /\ m = "RF" <=> "RF" \in B \/ {"READY", "ASK"} \subseteq B
    /\ m \in {"READY", "ASK"} => B = {m}

\* One step of the listener merge.
LEMMA MergeStepSpec ==
  ASSUME NEW B \in SUBSET ListenerTypes, NEW m, Merged(B, m), NEW t \in ListenerTypes
  PROVE  Merged(B \cup {t}, MergeStep(m, t))
<1>1. t \in {"READY", "ASK", "RF"} /\ m \in {"NONE", "READY", "ASK", "RF"} /\ B \subseteq {"READY", "ASK", "RF"}
  BY DEF Merged, ListenerTypes
<1>2. CASE m = "NONE"
  <2>1. MergeStep(m, t) = t /\ B = {}
    BY <1>2 DEF MergeStep, Merged
  <2> QED BY <1>1, <2>1 DEF Merged, ListenerTypes
<1>3. CASE m = "RF"
  <2>1. MergeStep(m, t) = "RF"
    BY <1>1, <1>3 DEF MergeStep
  <2> QED BY <1>1, <1>3, <2>1 DEF Merged, ListenerTypes
<1>4. CASE m = "ASK"
  <2>1. MergeStep(m, t) = (IF t \in {"READY", "RF"} THEN "RF" ELSE m) /\ B = {"ASK"}
    BY <1>1, <1>4 DEF MergeStep, Merged
  <2> QED BY <1>1, <1>4, <2>1 DEF Merged, ListenerTypes
<1>5. CASE m = "READY"
  <2>1. MergeStep(m, t) = (IF t \in {"RF", "ASK"} THEN "RF" ELSE m) /\ B = {"READY"}
    BY <1>1, <1>5 DEF MergeStep, Merged
  <2> QED BY <1>1, <1>5, <2>1 DEF Merged, ListenerTypes
<1> QED BY <1>1, <1>2, <1>3, <1>4, <1>5

LEMMA ListenerTypeSpec ==
  ASSUME NEW r, NEW p
  PROVE  /\ ListenerType(r, p) \in ListenerTypes \cup {"NONE"}
         /\ r \in StreamType /\ p \in Ports =>
              (ListenerType(r, p) = "NONE" <=> r.lReg[p] = {})
<1>1. ListenerType(r, p) \in ListenerTypes \cup {"NONE"}
  BY DEF ListenerType, ListenerTypes
<1>2. ASSUME r \in StreamType, p \in Ports
      PROVE  ListenerType(r, p) = "NONE" <=> r.lReg[p] = {}
  <2>1. r.lReg[p] \subseteq {"READY", "ASK", "RF"}
    BY <1>2 DEF StreamType, ListenerTypes
  <2> QED BY <2>1 DEF ListenerType
<1> QED BY <1>1, <1>2

LEMMA MergeTyped ==
  ASSUME NEW m \in ListenerTypes \cup {"NONE"}, NEW t \in ListenerTypes \cup {"NONE"}
  PROVE  MergeStep(m, t) \in ListenerTypes \cup {"NONE"} /\ MergeStep(m, "NONE") = m
  BY DEF MergeStep, ListenerTypes

LEMMA PortsNumbered ==
  ASSUME cfg \in Configs
  PROVE  LastPort \in Nat /\ cfg.ports = 1 .. LastPort /\ cfg.ports \subseteq Ports
  BY MSRPAssumption, FS_CardinalityType DEF LastPort

\* The loop over the ports merges the listeners behind the port.
LEMMA MergeSpec ==
  ASSUME cfg \in Configs, NEW r \in StreamType, NEW p, ListenerPorts(r) \subseteq cfg.ports
  PROVE  Merged(ListenersBehind(r, p), MapListenerMerge(r, p))
<1> DEFINE V == ListenerTypes \cup {"NONE"}
           a == IF r.userL # {} THEN "READY" ELSE "NONE"
           G == [i \in Nat |-> [v \in V |-> IF i = p THEN v ELSE MergeStep(v, ListenerType(r, i))]]
           merged[i \in Nat] == IF i = 0 THEN IF r.userL # {} THEN "READY" ELSE "NONE"
                                ELSE IF i = p THEN merged[i - 1]
                                ELSE MergeStep(merged[i - 1], ListenerType(r, i))
<1>1. a \in V /\ G \in [Nat -> [V -> V]]
  BY MergeTyped, ListenerTypeSpec DEF ListenerTypes
<1>2. PICK f \in [Nat -> V] : f[0] = a /\ \A i \in Nat : f[i + 1] = G[i + 1][f[i]]
  <2> HIDE DEF V, a, G, merged
  <2>1. PICK f : Iterates(f, V, a, G)
    BY <1>1, IterationExists
  <2> QED BY <2>1 DEF Iterates
<1>3. f = [i \in Nat |-> IF i = 0 THEN IF r.userL # {} THEN "READY" ELSE "NONE"
                         ELSE IF i = p THEN f[i - 1]
                         ELSE MergeStep(f[i - 1], ListenerType(r, i))]
  <2>1. ASSUME NEW i \in Nat, i # 0
        PROVE  f[i] = IF i = p THEN f[i - 1] ELSE MergeStep(f[i - 1], ListenerType(r, i))
    <3>1. i - 1 \in Nat /\ (i - 1) + 1 = i /\ f[i - 1] \in V
      BY <2>1
    <3>2. f[(i - 1) + 1] = G[(i - 1) + 1][f[i - 1]]
      BY <1>2, <3>1
    <3>3. f[i] = G[i][f[i - 1]]
      BY <3>1, <3>2
    <3> QED BY <3>1, <3>3
  <2> QED BY <1>2, <2>1
<1>4. merged = [i \in Nat |-> IF i = 0 THEN IF r.userL # {} THEN "READY" ELSE "NONE"
                         ELSE IF i = p THEN merged[i - 1]
                         ELSE MergeStep(merged[i - 1], ListenerType(r, i))]
  BY <1>3
<1>5. MapListenerMerge(r, p) = merged[LastPort]
  BY DEF MapListenerMerge
<1> HIDE DEF merged
<1> DEFINE behind(i) == {ListenerType(r, q) : q \in {q \in ListenerPorts(r) \ {p} : q <= i}}
                          \cup (IF r.userL # {} THEN {"READY"} ELSE {})
           K == [i \in Nat |-> {m \in V : i <= LastPort => Merged(behind(i), m)}]
<1>6. LastPort \in Nat /\ cfg.ports = 1 .. LastPort /\ cfg.ports \subseteq Ports
  BY PortsNumbered
<1>7. merged[0] \in K[0]
  <2>1. behind(0) = IF r.userL # {} THEN {"READY"} ELSE {}
    BY <1>6
  <2>2. merged[0] = IF r.userL # {} THEN "READY" ELSE "NONE"
    BY <1>4
  <2> HIDE DEF behind
  <2>3. Merged(behind(0), merged[0]) /\ merged[0] \in V
    BY <2>1, <2>2 DEF Merged, ListenerTypes
  <2> HIDE DEF V
  <2> QED BY <2>3
<1>8. ASSUME NEW i \in Nat, merged[i] \in K[i] PROVE merged[i + 1] \in K[i + 1]
  <2>1. merged[i + 1] = IF i + 1 = p THEN merged[i] ELSE MergeStep(merged[i], ListenerType(r, i + 1))
    <3>1. i + 1 \in Nat /\ i + 1 # 0 /\ (i + 1) - 1 = i
      OBVIOUS
    <3> QED BY <1>4, <3>1
  <2>2. merged[i] \in V
    BY <1>8
  <2>3. merged[i + 1] \in V
    BY <2>1, <2>2, MergeTyped, ListenerTypeSpec
  <2>4. ASSUME i + 1 <= LastPort PROVE Merged(behind(i + 1), merged[i + 1])
    <3>1. Merged(behind(i), merged[i])
      BY <1>6, <1>8, <2>4
    <3>2. i + 1 \in Ports
      BY <1>6, <2>4
    <3>3. ListenerPorts(r) \subseteq Int
      BY <1>6
    <3>4. CASE i + 1 \in ListenerPorts(r) \ {p}
      <4>1. behind(i + 1) = behind(i) \cup {ListenerType(r, i + 1)}
        <5>1. {q \in ListenerPorts(r) \ {p} : q <= i + 1}
                = {q \in ListenerPorts(r) \ {p} : q <= i} \cup {i + 1}
          BY <3>3, <3>4
        <5> QED BY <5>1
      <4>2. ListenerType(r, i + 1) \in ListenerTypes
        <5>1. r.lReg[i + 1] # {}
          BY <3>4 DEF ListenerPorts
        <5> QED BY <3>2, <5>1, ListenerTypeSpec
      <4>3. behind(i) \in SUBSET ListenerTypes
        <5>1. \A q \in ListenerPorts(r) : ListenerType(r, q) \in ListenerTypes
          <6> TAKE q \in ListenerPorts(r)
          <6>1. q \in Ports /\ r.lReg[q] # {}
            BY DEF ListenerPorts
          <6> QED BY <6>1, ListenerTypeSpec
        <5> QED BY <5>1 DEF ListenerTypes
      <4>4. merged[i + 1] = MergeStep(merged[i], ListenerType(r, i + 1))
        BY <2>1, <3>4
      <4> HIDE DEF behind
      <4> QED BY <3>1, <4>1, <4>2, <4>3, <4>4, MergeStepSpec
    <3>5. CASE i + 1 \notin ListenerPorts(r) \ {p}
      <4>1. behind(i + 1) = behind(i)
        <5>1. {q \in ListenerPorts(r) \ {p} : q <= i + 1}
                = {q \in ListenerPorts(r) \ {p} : q <= i}
          BY <3>3, <3>5
        <5> QED BY <5>1
      <4>2. merged[i + 1] = merged[i]
        <5>1. CASE i + 1 = p
          BY <2>1, <5>1
        <5>2. CASE i + 1 # p
          <6>1. r.lReg[i + 1] = {}
            BY <3>2, <3>5, <5>2 DEF ListenerPorts
          <6>2. ListenerType(r, i + 1) = "NONE"
            BY <3>2, <6>1, ListenerTypeSpec
          <6> QED BY <2>1, <2>2, <5>2, <6>2, MergeTyped
        <5> QED BY <5>1, <5>2
      <4> HIDE DEF behind
      <4> QED BY <3>1, <4>1, <4>2
    <3> QED BY <3>4, <3>5
  <2> HIDE DEF behind, V
  <2> QED BY <2>3, <2>4
<1>9. merged[LastPort] \in K[LastPort]
  <2> HIDE DEF K
  <2> QED BY <1>6, <1>7, <1>8, IterationKeeps
<1>10. behind(LastPort) = ListenersBehind(r, p)
  <2>1. {q \in ListenerPorts(r) \ {p} : q <= LastPort} = ListenerPorts(r) \ {p}
    BY <1>6
  <2> QED BY <2>1 DEF ListenersBehind
<1> HIDE DEF behind
<1> QED BY <1>5, <1>6, <1>9, <1>10

-----------------------------------------------------------------------------
(***************************************************************************)
(* The VLANs of an endpoint.                                               *)
(***************************************************************************)
HasVlanType == [has : BOOLEAN, vlans : [VIDs -> VlanType]]

LEMMA UpdateVlanTyped ==
  ASSUME NEW w \in VlanType, NEW f \in SUBSET Ports
  PROVE  UpdateVlan(w, f) \in VlanType
<1>1. DeclaredPorts(w, f) \in SUBSET Ports
  BY DEF DeclaredPorts
<1>2. NoVlan \in VlanType
  BY DEF NoVlan, VlanType
<1> QED BY <1>1, <1>2 DEF UpdateVlan, VlanType

LEMMA MembersTyped ==
  ASSUME NEW vs \in [VIDs -> VlanType], NEW v \in VIDs, NEW p \in Ports, NEW f \in SUBSET Ports
  PROVE  /\ RegisterMember(vs, v, p, f) \in [VIDs -> VlanType]
         /\ DeregisterMember(vs, v, p, f) \in [VIDs -> VlanType]
<1>1. vs[v] \in VlanType /\ vs[v].ref[p] \in Nat
  BY DEF VlanType
<1>2. [vs[v] EXCEPT !.alloc = TRUE, !.ref[p] = @ + 1] \in VlanType
  <2> DEFINE w == [vs[v] EXCEPT !.alloc = TRUE]
  <2>1. w \in VlanType /\ w.ref[p] \in Nat
    BY <1>1 DEF VlanType
  <2> DEFINE n == w.ref[p] + 1
  <2>2. n \in Nat
    BY <2>1
  <2> HIDE DEF w, n
  <2>3. [w EXCEPT !.ref[p] = n] \in VlanType
    BY <2>1, <2>2 DEF VlanType
  <2> QED BY <2>3 DEF w, n
<1>3. [vs[v] EXCEPT !.ref[p] = IF @ > 0 THEN @ - 1 ELSE 0] \in VlanType
  BY <1>1 DEF VlanType
<1>4. RegisterMember(vs, v, p, f) \in [VIDs -> VlanType]
  <2> DEFINE w == [vs[v] EXCEPT !.alloc = TRUE, !.ref[p] = @ + 1]
  <2>1. w \in VlanType /\ UpdateVlan(w, f) \in VlanType
    BY <1>2, UpdateVlanTyped
  <2>2. RegisterMember(vs, v, p, f) = [vs EXCEPT ![v] = IF vs[v].ref[p] = 0 THEN UpdateVlan(w, f) ELSE w]
    BY DEF RegisterMember
  <2> HIDE DEF w
  <2> QED BY <2>1, <2>2
<1>5. DeregisterMember(vs, v, p, f) \in [VIDs -> VlanType]
  <2> DEFINE w == [vs[v] EXCEPT !.ref[p] = IF @ > 0 THEN @ - 1 ELSE 0]
  <2>1. w \in VlanType /\ UpdateVlan(w, f) \in VlanType
    BY <1>3, UpdateVlanTyped
  <2>2. DeregisterMember(vs, v, p, f)
          = IF ~vs[v].alloc THEN vs
            ELSE [vs EXCEPT ![v] = IF w.ref[p] = 0 THEN UpdateVlan(w, f) ELSE w]
    BY DEF DeregisterMember
  <2> HIDE DEF w
  <2> QED BY <2>1, <2>2
<1> QED BY <1>4, <1>5

LEMMA StreamVlanTyped ==
  ASSUME NEW w \in HasVlanType, NEW s \in Streams, NEW p \in Ports, up \in SUBSET Ports, NEW on
  PROVE  StreamVlan(w, s, p, on) \in HasVlanType
<1>1. Vid[s] \in VIDs /\ w.vlans \in [VIDs -> VlanType]
  BY MSRPAssumption DEF HasVlanType
<1>2. /\ RegisterMember(w.vlans, Vid[s], p, up) \in [VIDs -> VlanType]
      /\ DeregisterMember(w.vlans, Vid[s], p, up) \in [VIDs -> VlanType]
  BY <1>1, MembersTyped
<1> QED BY <1>2 DEF StreamVlan, HasVlanType

\* The walk over the ports, step by step.
LEMMA ListenerVlanWalk ==
  ASSUME NEW x \in CtxType, NEW s \in Streams, cfg \in Configs, up \in SUBSET Ports
  PROVE  \E f \in [Nat -> HasVlanType] :
            /\ f[0] = VlanOf(x, s) /\ ListenerVlan(x, s) = f[LastPort]
            /\ \A i \in Nat : f[i + 1] =
                 IF ListenerPort(x, s, i + 1).vlan = "keep" THEN f[i]
                 ELSE StreamVlan(f[i], s, i + 1, ListenerPort(x, s, i + 1).vlan = "join")
<1> DEFINE V == HasVlanType
           a == VlanOf(x, s)
           step(w, i) == IF ListenerPort(x, s, i).vlan = "keep" THEN w
                         ELSE StreamVlan(w, s, i, ListenerPort(x, s, i).vlan = "join")
           G == [i \in Nat |-> [w \in V |-> step(w, i)]]
           walked[i \in Nat] ==
             IF i = 0 THEN VlanOf(x, s)
             ELSE LET act == ListenerPort(x, s, i).vlan
                  IN  IF act = "keep" THEN walked[i - 1]
                      ELSE StreamVlan(walked[i - 1], s, i, act = "join")
<1>1. a \in V
  <2>1. x.st[s] \in StreamType /\ x.vlans \in [VIDs -> VlanType]
    BY DEF CtxType
  <2> QED BY <2>1 DEF VlanOf, HasVlanType, StreamType
<1>2. ASSUME NEW i \in Nat, NEW w \in V PROVE step(w, i) \in V
  <2>1. CASE i \notin cfg.ports
    <3>1. ListenerPort(x, s, i).vlan = "keep"
      BY <2>1 DEF ListenerPort, KeepListenerPort
    <3> QED BY <3>1
  <2>2. CASE i \in cfg.ports
    <3>1. i \in Ports
      BY <2>2, PortsNumbered
    <3>2. StreamVlan(w, s, i, ListenerPort(x, s, i).vlan = "join") \in V
      BY <3>1, StreamVlanTyped
    <3> QED BY <3>2
  <2> QED BY <2>1, <2>2
<1>3. G \in [Nat -> [V -> V]]
  <2> HIDE DEF step, V
  <2> QED BY <1>2
<1>4. PICK f \in [Nat -> V] : f[0] = a /\ \A i \in Nat : f[i + 1] = G[i + 1][f[i]]
  <2> HIDE DEF V, a, G, step, walked
  <2>1. PICK f : Iterates(f, V, a, G)
    BY <1>1, <1>3, IterationExists
  <2> QED BY <2>1 DEF Iterates
<1>5. \A i \in Nat : f[i + 1] = step(f[i], i + 1)
  <2> TAKE i \in Nat
  <2>1. i + 1 \in Nat /\ f[i] \in V
    OBVIOUS
  <2> HIDE DEF step, V
  <2> QED BY <1>4, <2>1
<1>6. f = [i \in Nat |-> IF i = 0 THEN a ELSE step(f[i - 1], i)]
  <2>1. ASSUME NEW i \in Nat, i # 0 PROVE f[i] = step(f[i - 1], i)
    <3>1. i - 1 \in Nat /\ (i - 1) + 1 = i
      BY <2>1
    <3>2. f[(i - 1) + 1] = step(f[i - 1], (i - 1) + 1)
      BY <1>5, <3>1
    <3> HIDE DEF step
    <3> QED BY <3>1, <3>2
  <2> HIDE DEF step, V, a
  <2> QED BY <1>4, <2>1
<1>7. walked = [i \in Nat |-> IF i = 0 THEN a ELSE step(walked[i - 1], i)]
  BY <1>6
<1>8. ListenerVlan(x, s) = walked[LastPort]
  BY DEF ListenerVlan, ActOnVlan
<1> HIDE DEF walked
<1>9. walked[0] = a /\ \A i \in Nat : walked[i + 1] = step(walked[i], i + 1)
  <2>1. walked[0] = a
    BY <1>7
  <2>2. ASSUME NEW i \in Nat PROVE walked[i + 1] = step(walked[i], i + 1)
    <3>1. i + 1 \in Nat /\ i + 1 # 0 /\ (i + 1) - 1 = i
      OBVIOUS
    <3> HIDE DEF step, a
    <3> QED BY <1>7, <3>1
  <2> QED BY <2>1, <2>2
<1>10. \A i \in Nat : walked[i] \in V
  <2> DEFINE K == [i \in Nat |-> V]
  <2>1. walked[0] \in K[0] /\ \A i \in Nat : walked[i] \in K[i] => walked[i + 1] \in K[i + 1]
    <3> HIDE DEF step, V, a
    <3> QED BY <1>1, <1>2, <1>9
  <2>2. \A i \in Nat : walked[i] \in K[i]
    <3> HIDE DEF K
    <3> QED BY <2>1, IterationKeeps
  <2> QED BY <2>2
<1>11. walked \in [Nat -> V]
  <2> HIDE DEF step, V, a
  <2> QED BY <1>7, <1>10
<1> QED
  BY <1>8, <1>9, <1>11

-----------------------------------------------------------------------------
(***************************************************************************)
(* The listener half of the map.                                           *)
(***************************************************************************)

\* What is declared on a port toward the talker.
ListenerDeclaration(r, p, d) ==
    IF TalkerType(r, p) # "ADV" THEN d = "ASK"
    ELSE d # "NONE" /\ Merged(ListenersBehind(r, p), d)

ListenerRight(x, s, p) ==
    /\ x.st[s].decL[p] # "NONE" <=> DeclaresListener(x, s, p) /\ p \in x.en /\ p \in cfg.ports
    /\ x.st[s].decL[p] # "NONE" => ListenerDeclaration(x.st[s], p, x.st[s].decL[p])

\* A listener declaration is replaced by one the neighbour has not registered.
Apart(r, p) ==
    \/ cfg.sendLeave \/ r.lReg[p] = {}
    \/ r.tReg[p] = {} /\ r.decL[p] \in {"NONE", "ASK"}

\* A declaration replaced in place is not registered by the neighbour, so that
\* freeing its attribute frees no registration.
LEMMA FreesUnregistered ==
  ASSUME NEW x, NEW s \in Streams, NEW p \in Ports, ~cfg.sendLeave, Apart(x.st[s], p)
  PROVE  LET r    == x.st[s]
             type == IF TalkerType(r, p) # "ADV" THEN "ASK" ELSE MapListenerMerge(r, p)
         IN  /\ DeclaresTalker(x, s, p) => r.tReg[p] = {}
             /\ r.decL[p] \notin {"NONE", type} => r.decL[p] \notin r.lReg[p]
<1> DEFINE r == x.st[s]
           type == IF TalkerType(r, p) # "ADV" THEN "ASK" ELSE MapListenerMerge(r, p)
<1>1. DeclaresTalker(x, s, p) => r.tReg[p] = {}
  BY DEF DeclaresTalker, TalkerPorts
<1>2. CASE r.lReg[p] = {}
  BY <1>1, <1>2
<1>3. CASE r.tReg[p] = {} /\ r.decL[p] \in {"NONE", "ASK"}
  <2>1. type = "ASK"
    BY <1>3 DEF TalkerType
  <2> HIDE DEF type
  <2> QED BY <1>1, <1>3, <2>1 DEF type
<1> QED BY <1>2, <1>3 DEF Apart

\* What is known of the listener declaration of a port before it is mapped.
DecOk(m, s, d, on) ==
    m \in MadType /\ d \in ListenerTypes \cup {"NONE"} /\ Real(m, s, "L", d) /\ (~on => d = "NONE")

\* listener_update_declaration.
LEMMA UpdateListenerSpec ==
  ASSUME NEW x, CtxOk(x), cfg \in Configs, NEW s \in Streams, NEW p \in Ports,
         DeclaresListener(x, s, p),
         NEW y, y = UpdateListenerPort(x, s, p)
  PROVE  /\ DecOk(y.mad, s, y.dec, p \in x.en) /\ SameBut(x.mad[p], y.mad, s, "L")
         /\ ~cfg.sendLeave => NotLeaving(y.mad, s, "L")
         /\ y.dec # "NONE" => p \in x.en /\ ListenerDeclaration(x.st[s], p, y.dec)
         /\ Apart(x.st[s], p) /\ p \in x.en => y.dec # "NONE"
         /\ y.vlan \in {"join", "leave"}
         /\ Apart(x.st[s], p) => (y.vlan = "join" <=> y.dec \in {"READY", "RF"})
<1> DEFINE r == x.st[s]
           type == IF TalkerType(r, p) # "ADV" THEN "ASK" ELSE MapListenerMerge(r, p)
           reg == r.lReg[p]
           old == r.decL[p]
           m == x.mad[p]
           d == ChangeDeclaration(m, p \in x.en, s, "L", old, type, reg)
<1>1. y = [dec |-> d.dec, mad |-> d.mad, vlan |-> IF type # "ASK" THEN "join" ELSE "leave"]
  BY DEF UpdateListenerPort
<1>2. r \in StreamType /\ m \in MadType /\ x.en \subseteq cfg.ports /\ PortOk(x, s, p)
  BY DEF CtxOk, CtxType
<1>3. ListenerPorts(r) \subseteq cfg.ports
  <2>1. \A q \in Ports : q \notin x.en => r.lReg[q] = {}
    BY DEF CtxOk, PortOk
  <2> QED BY <1>2, <2>1 DEF ListenerPorts
<1>4. type \in ListenerTypes /\ ListenerDeclaration(r, p, type)
  <2>1. Merged(ListenersBehind(r, p), MapListenerMerge(r, p))
    BY <1>2, <1>3, MergeSpec
  <2>2. ListenersBehind(r, p) # {}
    BY DEF ListenersBehind, DeclaresListener
  <2> QED BY <2>1, <2>2 DEF Merged, ListenerDeclaration, ListenerTypes
<1>5. /\ m \in MadType /\ old \in AllTypes /\ type \in AllTypes /\ type # "NONE"
      /\ Real(m, s, "L", old) /\ (p \notin x.en => old = "NONE") /\ "L" \in {"T", "L"}
  BY <1>2, <1>4 DEF StreamType, AllTypes, ListenerTypes, PortOk
<1>6. ~cfg.sendLeave => NotLeaving(m, s, "L")
  BY <1>2 DEF PortOk
<1>7. Apart(r, p) /\ old # "NONE" /\ old # type => cfg.sendLeave \/ type \notin reg
  <2>1. r.tReg[p] = {} => TalkerType(r, p) # "ADV"
    BY DEF TalkerType
  <2> QED BY <2>1 DEF Apart
<1> HIDE DEF type, reg, old, m
<1>8. d.mad \in MadType /\ d.dec \in {"NONE", type}
  BY <1>5, ChangeTyped
<1>9. d = ChangeDeclaration(m, p \in x.en, s, "L", old, type, reg)
  OBVIOUS
<1> HIDE DEF d
<1>10. /\ Real(d.mad, s, "L", d.dec) /\ SameBut(m, d.mad, s, "L")
       /\ p \notin x.en => d.dec = "NONE"
       /\ ~cfg.sendLeave /\ NotLeaving(m, s, "L") => NotLeaving(d.mad, s, "L")
       /\ p \in x.en /\ (cfg.sendLeave \/ (NotLeaving(m, s, "L") /\ type \notin reg))
            => d.dec = type
  BY <1>5, <1>9, ChangeIsReal
<1>11. Apart(r, p) /\ p \in x.en => d.dec = type
  <2>1. CASE old = type
    BY <1>9, <2>1 DEF ChangeDeclaration
  <2>2. CASE old # type /\ old = "NONE" /\ p \in x.en
    BY <1>9, <2>2 DEF ChangeDeclaration
  <2>3. CASE old # type /\ old # "NONE"
    BY <1>6, <1>7, <1>10, <2>3
  <2> QED BY <2>1, <2>2, <2>3
<1>12. y.dec = d.dec /\ y.mad = d.mad /\ y.vlan = IF type # "ASK" THEN "join" ELSE "leave"
  BY <1>1
<1>13. DecOk(y.mad, s, y.dec, p \in x.en)
  BY <1>4, <1>8, <1>10, <1>12 DEF DecOk
<1>14. y.dec # "NONE" => p \in x.en /\ ListenerDeclaration(x.st[s], p, y.dec)
  BY <1>4, <1>8, <1>10, <1>12
<1>15. Apart(x.st[s], p) /\ p \in x.en => y.dec = type /\ y.dec # "NONE"
  BY <1>5, <1>11, <1>12
<1>16. type \in {"READY", "ASK", "RF"}
  BY <1>4 DEF ListenerTypes
<1>17. p \notin x.en => type = "ASK"
  BY <1>2 DEF PortOk, TalkerType, type
<1> QED BY <1>6, <1>10, <1>12, <1>13, <1>14, <1>15, <1>16, <1>17 DEF m

\* listener_remove_declaration.
LEMMA RemoveListenerSpec ==
  ASSUME NEW x, CtxOk(x), NEW s \in Streams, NEW p \in Ports,
         NEW y, y = RemoveListenerPort(x, s, p)
  PROVE  /\ DecOk(y.mad, s, y.dec, p \in x.en) /\ SameBut(x.mad[p], y.mad, s, "L")
         /\ y.dec = "NONE"
         /\ y.vlan = IF x.st[s].decL[p] = "NONE" THEN "keep" ELSE "leave"
<1> DEFINE old == x.st[s].decL[p]
           m == x.mad[p]
<1>1. m \in MadType /\ PortOk(x, s, p) /\ x.st[s] \in StreamType
  BY DEF CtxOk, CtxType
<1>2. old \in ListenerTypes \cup {"NONE"} /\ Real(m, s, "L", old) /\ (p \notin x.en => old = "NONE")
  BY <1>1 DEF StreamType, PortOk
<1>3. CASE old = "NONE"
  <2>1. y.dec = "NONE" /\ y.mad = m /\ y.vlan = "keep"
    BY <1>3 DEF RemoveListenerPort, KeepListenerPort
  <2>2. SameBut(m, m, s, "L")
    BY DEF SameBut
  <2> QED BY <1>1, <1>2, <1>3, <2>1, <2>2 DEF DecOk
<1>4. CASE old # "NONE"
  <2>1. y.dec = "NONE" /\ y.mad = RemoveDeclaration(m, p \in x.en, s, "L", old) /\ y.vlan = "leave"
    BY <1>4 DEF RemoveListenerPort
  <2>2. old \in AllTypes /\ "L" \in {"T", "L"}
    BY <1>2 DEF AllTypes
  <2> HIDE DEF old, m
  <2>3. y.mad \in MadType
    BY <1>1, <2>1, <2>2, RemoveTyped
  <2>4. Real(y.mad, s, "L", "NONE") /\ SameBut(m, y.mad, s, "L")
    BY <1>1, <1>2, <2>1, <2>2, RemoveIsReal
  <2> QED BY <1>4, <2>1, <2>3, <2>4 DEF DecOk, old, m
<1> QED BY <1>3, <1>4

\* The listener half of the map on one port.
LEMMA ListenerPortSpec ==
  ASSUME NEW x, CtxOk(x), cfg \in Configs, NEW s \in Streams, NEW p \in Ports,
         NEW y, y = ListenerPort(x, s, p)
  PROVE  /\ DecOk(y.mad, s, y.dec, p \in x.en) /\ SameBut(x.mad[p], y.mad, s, "L")
         /\ ~cfg.sendLeave /\ DeclaresListener(x, s, p) => NotLeaving(y.mad, s, "L")
         /\ y.dec # "NONE" => /\ DeclaresListener(x, s, p) /\ p \in x.en /\ p \in cfg.ports
                              /\ ListenerDeclaration(x.st[s], p, y.dec)
         /\ Apart(x.st[s], p) /\ DeclaresListener(x, s, p) /\ p \in x.en /\ p \in cfg.ports
              => y.dec # "NONE"
<1>1. PortOk(x, s, p) /\ x.en \subseteq cfg.ports /\ x.mad[p] \in MadType /\ x.st[s] \in StreamType
  BY DEF CtxOk, CtxType
<1>2. CASE p \notin cfg.ports
  <2>1. y.dec = x.st[s].decL[p] /\ y.mad = x.mad[p]
    BY <1>2 DEF ListenerPort, KeepListenerPort
  <2>2. x.st[s].decL[p] = "NONE" /\ Real(x.mad[p], s, "L", x.st[s].decL[p])
    BY <1>1, <1>2 DEF PortOk
  <2>3. SameBut(x.mad[p], x.mad[p], s, "L")
    BY DEF SameBut
  <2>4. ~cfg.sendLeave /\ DeclaresListener(x, s, p) => NotLeaving(x.mad[p], s, "L")
    BY <1>1 DEF PortOk
  <2> QED BY <1>1, <1>2, <2>1, <2>2, <2>3, <2>4 DEF DecOk
<1>3. CASE p \in cfg.ports /\ ~DeclaresListener(x, s, p)
  <2>1. y = RemoveListenerPort(x, s, p)
    BY <1>3 DEF ListenerPort
  <2>2. /\ DecOk(y.mad, s, y.dec, p \in x.en) /\ SameBut(x.mad[p], y.mad, s, "L")
        /\ y.dec = "NONE"
    BY <2>1, RemoveListenerSpec
  <2> QED BY <1>3, <2>2
<1>4. CASE p \in cfg.ports /\ DeclaresListener(x, s, p)
  <2>1. y = UpdateListenerPort(x, s, p)
    BY <1>4 DEF ListenerPort
  <2>2. /\ DecOk(y.mad, s, y.dec, p \in x.en) /\ SameBut(x.mad[p], y.mad, s, "L")
        /\ ~cfg.sendLeave => NotLeaving(y.mad, s, "L")
        /\ y.dec # "NONE" => p \in x.en /\ ListenerDeclaration(x.st[s], p, y.dec)
        /\ Apart(x.st[s], p) /\ p \in x.en => y.dec # "NONE"
    BY <1>4, <2>1, UpdateListenerSpec
  <2> QED BY <1>4, <2>2
<1> QED BY <1>2, <1>3, <1>4

LEMMA MapListenerFields ==
  ASSUME NEW x \in CtxType, NEW s \in Streams, cfg \in Configs, up \in SUBSET Ports,
         \A p \in Ports : /\ ListenerPort(x, s, p).dec \in ListenerTypes \cup {"NONE"}
                          /\ ListenerPort(x, s, p).mad \in MadType,
         NEW w, w = IF cfg.bridge THEN VlanOf(x, s) ELSE ListenerVlan(x, s),
         NEW y, y = MapUpdateListener(x, s)
  PROVE  /\ y \in CtxType
         /\ y.order = x.order /\ y.up = x.up /\ y.en = x.en /\ y.bnd = x.bnd /\ y.bw = x.bw
         /\ \A u \in Streams : u # s => y.st[u] = x.st[u]
         /\ y.st[s].tReg = x.st[s].tReg /\ y.st[s].lReg = x.st[s].lReg
         /\ y.st[s].userT = x.st[s].userT /\ y.st[s].userL = x.st[s].userL
         /\ y.st[s].decT = x.st[s].decT /\ y.st[s].fqtss = x.st[s].fqtss /\ y.st[s].fdb = x.st[s].fdb
         /\ y.st[s].vlan = w.has /\ y.vlans = w.vlans
         /\ \A p \in Ports : /\ y.st[s].decL[p] = ListenerPort(x, s, p).dec
                             /\ y.mad[p] = ListenerPort(x, s, p).mad
<1> DEFINE h == [p \in Ports |-> ListenerPort(x, s, p)]
           decL == [p \in Ports |-> h[p].dec]
           mad1 == [p \in Ports |-> h[p].mad]
           r == [x.st[s] EXCEPT !.decL = decL, !.vlan = w.has]
           st1 == [x.st EXCEPT ![s] = r]
<1>1. decL \in [Ports -> ListenerTypes \cup {"NONE"}] /\ mad1 \in [Ports -> MadType]
  OBVIOUS
<1>2. y = [x EXCEPT !.st[s] = r, !.mad = mad1, !.vlans = w.vlans]
  BY DEF MapUpdateListener, SetListeners
<1>3. \A p \in Ports : decL[p] = ListenerPort(x, s, p).dec /\ mad1[p] = ListenerPort(x, s, p).mad
  OBVIOUS
<1>4. x.st[s] \in StreamType
  BY DEF CtxType
<1>5. w.has \in BOOLEAN /\ w.vlans \in [VIDs -> VlanType]
  <2>1. VlanOf(x, s) \in HasVlanType
    BY <1>4 DEF VlanOf, HasVlanType, CtxType, StreamType
  <2>2. ListenerVlan(x, s) \in HasVlanType
    <3>1. PICK f \in [Nat -> HasVlanType] : ListenerVlan(x, s) = f[LastPort]
      BY ListenerVlanWalk
    <3> QED BY <3>1, PortsNumbered
  <2> QED BY <2>1, <2>2 DEF HasVlanType
<1> HIDE DEF h, decL, mad1
<1>6. y = [x EXCEPT !.st = st1, !.mad = mad1, !.vlans = w.vlans]
  <2> HIDE DEF r
  <2> QED BY <1>2 DEF CtxType
<1>7. /\ r \in StreamType /\ r.decL = decL /\ r.vlan = w.has
      /\ r.tReg = x.st[s].tReg /\ r.lReg = x.st[s].lReg
      /\ r.userT = x.st[s].userT /\ r.userL = x.st[s].userL
      /\ r.decT = x.st[s].decT /\ r.fqtss = x.st[s].fqtss /\ r.fdb = x.st[s].fdb
  BY <1>1, <1>4, <1>5 DEF StreamType
<1> HIDE DEF r
<1>8. /\ st1[s] = r /\ \A u \in Streams : u # s => st1[u] = x.st[u]
      /\ st1 \in [Streams -> StreamType]
  BY <1>7 DEF CtxType
<1> HIDE DEF st1
<1>9. /\ y.order = x.order /\ y.up = x.up /\ y.en = x.en /\ y.bnd = x.bnd /\ y.bw = x.bw
      /\ y.mad = mad1 /\ y.st = st1 /\ y.vlans = w.vlans
  BY <1>6 DEF CtxType
<1>10. y \in CtxType
  BY <1>1, <1>5, <1>6, <1>8 DEF CtxType
<1> QED BY <1>3, <1>7, <1>8, <1>9, <1>10

\* The listener half of the map on one stream.
LEMMA MapListenerKeeps ==
  ASSUME NEW x, CtxOk(x), cfg \in Configs, up \in SUBSET Ports, NEW s \in Streams,
         NEW y, y = MapUpdateListener(x, s)
  PROVE  /\ CtxOk(y) /\ SameRegs(x, y) /\ y.order = x.order
         /\ \A u \in Streams : u # s => y.st[u] = x.st[u]
         /\ y.st[s].decT = x.st[s].decT /\ y.st[s].fqtss = x.st[s].fqtss /\ y.st[s].fdb = x.st[s].fdb
         /\ \A p \in Ports : y.st[s].decL[p] # "NONE" => DeclaresListener(x, s, p)
         /\ \A p \in Ports : Apart(x.st[s], p) => ListenerRight(y, s, p)
         /\ \A p \in Ports : y.st[s].decL[p] = ListenerPort(x, s, p).dec
         /\ cfg.bridge => y.vlans = x.vlans /\ y.st[s].vlan = x.st[s].vlan
         /\ ~cfg.bridge => y.vlans = ListenerVlan(x, s).vlans /\ y.st[s].vlan = ListenerVlan(x, s).has
<1>1. ASSUME NEW p \in Ports
      PROVE  /\ DecOk(ListenerPort(x, s, p).mad, s, ListenerPort(x, s, p).dec, p \in x.en)
             /\ SameBut(x.mad[p], ListenerPort(x, s, p).mad, s, "L")
             /\ ~cfg.sendLeave /\ DeclaresListener(x, s, p)
                  => NotLeaving(ListenerPort(x, s, p).mad, s, "L")
             /\ ListenerPort(x, s, p).dec # "NONE" =>
                  /\ DeclaresListener(x, s, p) /\ p \in x.en /\ p \in cfg.ports
                  /\ ListenerDeclaration(x.st[s], p, ListenerPort(x, s, p).dec)
             /\ Apart(x.st[s], p) /\ DeclaresListener(x, s, p) /\ p \in x.en /\ p \in cfg.ports
                  => ListenerPort(x, s, p).dec # "NONE"
  <2> DEFINE z == ListenerPort(x, s, p)
  <2>1. z = ListenerPort(x, s, p)
    OBVIOUS
  <2> HIDE DEF z
  <2>2. /\ DecOk(z.mad, s, z.dec, p \in x.en) /\ SameBut(x.mad[p], z.mad, s, "L")
        /\ ~cfg.sendLeave /\ DeclaresListener(x, s, p) => NotLeaving(z.mad, s, "L")
        /\ z.dec # "NONE" => /\ DeclaresListener(x, s, p) /\ p \in x.en /\ p \in cfg.ports
                             /\ ListenerDeclaration(x.st[s], p, z.dec)
        /\ Apart(x.st[s], p) /\ DeclaresListener(x, s, p) /\ p \in x.en /\ p \in cfg.ports
             => z.dec # "NONE"
    BY <2>1, ListenerPortSpec
  <2> QED BY <2>1, <2>2
<1>2. /\ x \in CtxType
      /\ \A p \in Ports : /\ ListenerPort(x, s, p).dec \in ListenerTypes \cup {"NONE"}
                          /\ ListenerPort(x, s, p).mad \in MadType
  BY <1>1 DEF DecOk, CtxOk
<1> DEFINE w == IF cfg.bridge THEN VlanOf(x, s) ELSE ListenerVlan(x, s)
<1>3. /\ y \in CtxType
      /\ y.order = x.order /\ y.up = x.up /\ y.en = x.en /\ y.bnd = x.bnd /\ y.bw = x.bw
      /\ \A u \in Streams : u # s => y.st[u] = x.st[u]
      /\ y.st[s].tReg = x.st[s].tReg /\ y.st[s].lReg = x.st[s].lReg
      /\ y.st[s].userT = x.st[s].userT /\ y.st[s].userL = x.st[s].userL
      /\ y.st[s].decT = x.st[s].decT /\ y.st[s].fqtss = x.st[s].fqtss /\ y.st[s].fdb = x.st[s].fdb
      /\ y.st[s].vlan = w.has /\ y.vlans = w.vlans
      /\ \A p \in Ports : /\ y.st[s].decL[p] = ListenerPort(x, s, p).dec
                          /\ y.mad[p] = ListenerPort(x, s, p).mad
  BY <1>2, MapListenerFields
<1>4. /\ cfg.bridge => y.vlans = x.vlans /\ y.st[s].vlan = x.st[s].vlan
      /\ ~cfg.bridge => y.vlans = ListenerVlan(x, s).vlans /\ y.st[s].vlan = ListenerVlan(x, s).has
  BY <1>3 DEF VlanOf
<1> HIDE DEF w
<1>5. SameRegs(x, y)
  BY <1>3 DEF SameRegs
<1>6. ASSUME NEW p \in Ports, Apart(x.st[s], p) PROVE ListenerRight(y, s, p)
  <2>1. /\ DeclaresListener(y, s, p) <=> DeclaresListener(x, s, p)
        /\ TalkerType(y.st[s], p) = TalkerType(x.st[s], p)
        /\ ListenersBehind(y.st[s], p) = ListenersBehind(x.st[s], p)
    BY <1>5, SameMeaning
  <2>2. ListenerDeclaration(y.st[s], p, y.st[s].decL[p])
          <=> ListenerDeclaration(x.st[s], p, ListenerPort(x, s, p).dec)
    BY <1>3, <2>1 DEF ListenerDeclaration
  <2> QED BY <1>1, <1>3, <1>6, <2>1, <2>2 DEF ListenerRight
<1>7. ASSUME NEW p \in Ports PROVE SameBut(x.mad[p], y.mad[p], s, "L")
  BY <1>1, <1>3
<1>8. ASSUME NEW u \in Streams, NEW p \in Ports PROVE PortOk(y, u, p)
  <2>1. PortOk(x, u, p)
    BY DEF CtxOk
  <2>2. /\ DeclaresTalker(y, u, p) <=> DeclaresTalker(x, u, p)
        /\ DeclaresListener(y, u, p) <=> DeclaresListener(x, u, p)
    BY <1>5, SameMeaning
  <2>3. CASE u # s
    <3>1. y.st[u] = x.st[u] /\ y.en = x.en
      BY <1>3, <2>3
    <3>2. /\ Real(y.mad[p], u, "T", x.st[u].decT[p])
          /\ Real(y.mad[p], u, "L", x.st[u].decL[p])
      BY <1>7, <2>1, <2>3 DEF SameBut, Real, PortOk
    <3>3. /\ NotLeaving(x.mad[p], u, "T") => NotLeaving(y.mad[p], u, "T")
          /\ NotLeaving(x.mad[p], u, "L") => NotLeaving(y.mad[p], u, "L")
      BY <1>7, <2>3 DEF SameBut, NotLeaving
    <3> QED BY <2>1, <2>2, <3>1, <3>2, <3>3 DEF PortOk
  <2>4. CASE u = s
    <3>1. Real(y.mad[p], s, "T", x.st[s].decT[p])
      BY <1>7, <2>1, <2>4 DEF SameBut, Real, PortOk
    <3>2. NotLeaving(x.mad[p], s, "T") => NotLeaving(y.mad[p], s, "T")
      BY <1>7 DEF SameBut, NotLeaving
    <3>3. ~cfg.sendLeave /\ DeclaresListener(x, s, p) => NotLeaving(y.mad[p], s, "L")
      BY <1>1, <1>3
    <3>4. Real(y.mad[p], s, "L", y.st[s].decL[p]) /\ (p \notin x.en => y.st[s].decL[p] = "NONE")
      BY <1>1, <1>3 DEF DecOk
    <3> QED BY <1>3, <2>1, <2>2, <2>4, <3>1, <3>2, <3>3, <3>4 DEF PortOk
  <2> QED BY <2>3, <2>4
<1>9. ASSUME NEW p \in Ports PROVE BandwidthOk(y, p)
  <2>1. BandwidthOk(x, p)
    BY DEF CtxOk
  <2>2. \A u \in Streams : y.st[u].fqtss = x.st[u].fqtss
    BY <1>3
  <2>3. Holders(y, p) = Holders(x, p)
    BY <2>2 DEF Holders
  <2> QED BY <1>3, <2>1, <2>3 DEF BandwidthOk
<1>10. CtxOk(y)
  BY <1>3, <1>8, <1>9 DEF CtxOk
<1> QED BY <1>1, <1>3, <1>4, <1>5, <1>6, <1>10

-----------------------------------------------------------------------------
(***************************************************************************)
(* The map of one stream.                                                  *)
(***************************************************************************)
Listed(x, s) == \E j \in DOMAIN x.order : x.order[j] = s

\* The declarations of a stream are those the map gives it.
Mapped(x, s) ==
    \A p \in Ports : /\ TalkerRight(x, s, p)
                     /\ x.st[s].decL[p] # "NONE" => DeclaresListener(x, s, p)

LEMMA NoStreamTyped == NoStream \in StreamType
BY DEF NoStream, StreamType

\* Freeing a stream takes it, and no other, from the list.
LEMMA UnlinkSpec ==
  ASSUME NEW o \in Seq(Streams), NEW s \in Streams
  PROVE  /\ Unlink(o, s) \in Seq(Streams)
         /\ \A u \in Streams : u # s /\ (\E j \in DOMAIN o : o[j] = u)
               => \E j \in DOMAIN Unlink(o, s) : Unlink(o, s)[j] = u
<1>1. CASE s \notin {o[j] : j \in DOMAIN o}
  <2>1. Unlink(o, s) = o
    BY <1>1 DEF Unlink
  <2> QED BY <2>1
<1>2. CASE s \in {o[j] : j \in DOMAIN o}
  <2> DEFINE i == CHOOSE i \in DOMAIN o : o[i] = s
             a == SubSeq(o, 1, i - 1)
             b == SubSeq(o, i + 1, Len(o))
  <2>1. i \in DOMAIN o /\ o[i] = s
    BY <1>2
  <2>2. Unlink(o, s) = a \o b
    BY <1>2 DEF Unlink
  <2>3. i \in 1 .. Len(o) /\ Len(o) \in Nat /\ DOMAIN o = 1 .. Len(o)
    BY <2>1
  <2> HIDE DEF i
  <2>4. /\ a \in Seq(Streams) /\ Len(a) = i - 1 /\ \A j \in 1 .. i - 1 : a[j] = o[j]
    BY <2>3
  <2>5. /\ b \in Seq(Streams) /\ Len(b) = Len(o) - i /\ \A j \in 1 .. Len(o) - i : b[j] = o[i + j]
    <3>1. i + 1 \in Int /\ Len(o) \in Int /\ \A j \in i + 1 .. Len(o) : o[j] \in Streams
      BY <2>3
    <3>2. /\ b \in Seq(Streams)
          /\ Len(b) = IF i + 1 <= Len(o) THEN Len(o) - (i + 1) + 1 ELSE 0
          /\ \A j \in 1 .. Len(o) - (i + 1) + 1 : b[j] = o[(i + 1) + j - 1]
      <4> HIDE DEF b
      <4>1. b = SubSeq(o, i + 1, Len(o))
        BY DEF b
      <4> QED BY <3>1, <4>1, SubSeqProperties
    <3> HIDE DEF b
    <3>3. Len(b) = Len(o) - i /\ Len(o) - (i + 1) + 1 = Len(o) - i
      <4>1. \A n, k \in Nat : k \in 1 .. n =>
              /\ n - (k + 1) + 1 = n - k
              /\ (IF k + 1 <= n THEN n - (k + 1) + 1 ELSE 0) = n - k
        OBVIOUS
      <4>2. Len(o) \in Nat /\ i \in Nat
        BY <2>3
      <4>3. /\ Len(o) - (i + 1) + 1 = Len(o) - i
            /\ (IF i + 1 <= Len(o) THEN Len(o) - (i + 1) + 1 ELSE 0) = Len(o) - i
        BY <2>3, <4>1, <4>2
      <4> QED BY <3>2, <4>3
    <3>4. ASSUME NEW j \in 1 .. Len(o) - i PROVE b[j] = o[i + j]
      <4>1. j \in 1 .. Len(o) - (i + 1) + 1 /\ (i + 1) + j - 1 = i + j
        BY <2>3
      <4> QED BY <3>2, <4>1
    <3> QED BY <3>2, <3>3, <3>4
  <2> HIDE DEF a, b
  <2>6. ASSUME NEW u \in Streams, u # s, NEW j \in DOMAIN o, o[j] = u
        PROVE  \E k \in DOMAIN (a \o b) : (a \o b)[k] = u
    <3>1. CASE j < i
      <4>1. j \in 1 .. Len(a) /\ j \in DOMAIN (a \o b) /\ (a \o b)[j] = a[j]
        BY <2>3, <2>4, <2>5, <3>1
      <4> QED BY <2>4, <2>6, <4>1
    <3>2. CASE j > i
      <4>1. j - i \in 1 .. Len(b) /\ Len(a) + (j - i) = j - 1 /\ i + (j - i) = j
        BY <2>3, <2>4, <2>5, <3>2
      <4>2. j - 1 \in 1 .. Len(a) + Len(b) /\ ~(j - 1 <= Len(a)) /\ (j - 1) - Len(a) = j - i
        BY <2>3, <2>4, <2>5, <3>2
      <4>3. a \o b \in Seq(Streams) /\ Len(a \o b) = Len(a) + Len(b) /\ (a \o b)[j - 1] = b[j - i]
        <5> DEFINE c == a \o b
        <5>1. /\ c \in Seq(Streams) /\ Len(c) = Len(a) + Len(b)
              /\ \A k \in 1 .. Len(a) + Len(b) : c[k] = IF k <= Len(a) THEN a[k] ELSE b[k - Len(a)]
          BY <2>4, <2>5, ConcatProperties
        <5> HIDE DEF c
        <5>2. c[j - 1] = b[j - i]
          BY <4>2, <5>1
        <5> QED BY <5>1, <5>2 DEF c
      <4> QED BY <2>5, <2>6, <4>1, <4>2, <4>3
    <3>3. j # i /\ j \in Int /\ i \in Int
      BY <2>1, <2>3, <2>6
    <3> QED BY <3>1, <3>2, <3>3
  <2> QED BY <2>2, <2>4, <2>5, <2>6
<1> QED BY <1>1, <1>2
LEMMA SameRegsTransitive ==
  ASSUME NEW x, NEW y, NEW z, SameRegs(x, y), SameRegs(y, z)
  PROVE  SameRegs(x, z)
BY DEF SameRegs

\* An entry nothing is registered, declared or requested for holds no resources.
LEMMA IdleIsEmpty ==
  ASSUME NEW x, CtxOk(x), NEW s \in Streams, Idle(x.st[s])
  PROVE  /\ x.st[s].tReg = NoStream.tReg /\ x.st[s].lReg = NoStream.lReg
         /\ x.st[s].decT = NoStream.decT /\ x.st[s].decL = NoStream.decL
         /\ x.st[s].userT = NoStream.userT /\ x.st[s].userL = NoStream.userL
         /\ x.st[s].fqtss = NoStream.fqtss /\ x.st[s].fdb = NoStream.fdb
<1> DEFINE r == x.st[s]
<1>1. r \in StreamType /\ \A p \in Ports : PortOk(x, s, p)
  BY DEF CtxOk, CtxType
<1>2. \A p \in Ports : /\ r.tReg[p] = {} /\ r.lReg[p] = {}
                       /\ r.decT[p] = "NONE" /\ r.decL[p] = "NONE"
  BY DEF Idle, TalkerPorts, ListenerPorts
<1>3. r.fqtss = {} /\ r.fdb = {}
  BY <1>1, <1>2 DEF PortOk, StreamType
<1>4. r.userT = {} /\ r.userL = {}
  BY DEF Idle
<1> HIDE DEF r
<1>5. /\ r.tReg = [p \in Ports |-> {}] /\ r.lReg = [p \in Ports |-> {}]
      /\ r.decT = [p \in Ports |-> "NONE"] /\ r.decL = [p \in Ports |-> "NONE"]
  BY <1>1, <1>2 DEF StreamType
<1> QED BY <1>3, <1>4, <1>5 DEF NoStream, r

\* msrp_map_update_stream frees idle entries.
LEMMA FreeIdleKeeps ==
  ASSUME NEW x, CtxOk(x), NEW s \in Streams, Mapped(x, s),
         NEW y, y = FreeIdle(x, s)
  PROVE  /\ CtxOk(y) /\ SameRegs(x, y) /\ Mapped(y, s) /\ y.vlans = x.vlans
         /\ \A u \in Streams : u # s => y.st[u] = x.st[u]
         /\ y.st[s].decL = x.st[s].decL
         /\ \A u \in Streams : u # s /\ Listed(x, u) => Listed(y, u)
         /\ Idle(x.st[s]) => y.st[s] = NoStream
         /\ Listed(x, s) => Listed(y, s) \/ y.st[s] = NoStream
<1>1. CASE ~Idle(x.st[s])
  <2>1. y = x
    BY <1>1 DEF FreeIdle
  <2>2. SameRegs(x, x)
    BY DEF SameRegs
  <2> QED BY <1>1, <2>1, <2>2
<1>2. CASE Idle(x.st[s])
  <2> DEFINE st1 == [x.st EXCEPT ![s] = NoStream]
             o == Unlink(x.order, s)
  <2>1. y = [x EXCEPT !.st = st1, !.order = o]
    <3> HIDE DEF o
    <3>1. y = [x EXCEPT !.st[s] = NoStream, !.order = o]
      BY <1>2 DEF FreeIdle, o
    <3>2. x \in CtxType
      BY DEF CtxOk
    <3> QED BY <3>1, <3>2 DEF CtxType
  <2>2. x \in CtxType /\ x.st \in [Streams -> StreamType] /\ x.order \in Seq(Streams)
    BY DEF CtxOk, CtxType
  <2>3. /\ o \in Seq(Streams)
        /\ \A u \in Streams : u # s /\ (\E j \in DOMAIN x.order : x.order[j] = u)
              => \E j \in DOMAIN o : o[j] = u
    BY <2>2, UnlinkSpec
  <2>4. /\ st1[s] = NoStream /\ (\A u \in Streams : u # s => st1[u] = x.st[u])
        /\ st1 \in [Streams -> StreamType]
    BY <2>2, NoStreamTyped
  <2> HIDE DEF st1, o
  <2>5. /\ y.st = st1 /\ y.order = o /\ y.up = x.up /\ y.en = x.en /\ y.bnd = x.bnd
        /\ y.bw = x.bw /\ y.mad = x.mad /\ y.vlans = x.vlans
    BY <2>1, <2>2 DEF CtxType
  <2>6. y \in CtxType
    BY <2>1, <2>2, <2>3, <2>4 DEF CtxType
  <2>7. \A u \in Streams :
           /\ y.st[u].tReg = x.st[u].tReg /\ y.st[u].lReg = x.st[u].lReg
           /\ y.st[u].decT = x.st[u].decT /\ y.st[u].decL = x.st[u].decL
           /\ y.st[u].userT = x.st[u].userT /\ y.st[u].userL = x.st[u].userL
           /\ y.st[u].fqtss = x.st[u].fqtss /\ y.st[u].fdb = x.st[u].fdb
    BY <1>2, <2>4, <2>5, IdleIsEmpty
  <2>8. SameRegs(x, y)
    BY <2>5, <2>7 DEF SameRegs
  <2>9. ASSUME NEW u \in Streams, NEW p \in Ports PROVE PortOk(y, u, p)
    <3>1. PortOk(x, u, p)
      BY DEF CtxOk
    <3>2. /\ DeclaresTalker(y, u, p) <=> DeclaresTalker(x, u, p)
          /\ DeclaresListener(y, u, p) <=> DeclaresListener(x, u, p)
      BY <2>8, SameMeaning
    <3> QED BY <2>5, <2>7, <3>1, <3>2 DEF PortOk
  <2>10. ASSUME NEW p \in Ports PROVE BandwidthOk(y, p)
    <3>1. BandwidthOk(x, p) /\ Holders(y, p) = Holders(x, p)
      BY <2>7 DEF CtxOk, Holders
    <3> QED BY <2>5, <3>1 DEF BandwidthOk
  <2>11. CtxOk(y)
    BY <2>5, <2>6, <2>9, <2>10 DEF CtxOk
  <2>12. Mapped(y, s)
    <3> SUFFICES ASSUME NEW p \in Ports
                 PROVE  TalkerRight(y, s, p) /\ (y.st[s].decL[p] # "NONE" => DeclaresListener(y, s, p))
      BY DEF Mapped
    <3>1. TalkerRight(x, s, p) /\ (x.st[s].decL[p] # "NONE" => DeclaresListener(x, s, p))
      BY DEF Mapped
    <3>2. /\ DeclaresTalker(y, s, p) <=> DeclaresTalker(x, s, p)
          /\ DeclaresListener(y, s, p) <=> DeclaresListener(x, s, p)
          /\ MapTalkerType(y.st[s]) = MapTalkerType(x.st[s])
          /\ ListenerReady(y.st[s], p) <=> ListenerReady(x.st[s], p)
      BY <2>8, SameMeaning
    <3> QED BY <2>5, <2>7, <3>1, <3>2 DEF TalkerRight
  <2>13. \A u \in Streams : u # s /\ Listed(x, u) => Listed(y, u)
    BY <2>3, <2>5 DEF Listed
  <2> QED BY <2>4, <2>5, <2>7, <2>8, <2>11, <2>12, <2>13
<1> QED BY <1>1, <1>2

-----------------------------------------------------------------------------
(***************************************************************************)
(* The users of the VLANs.                                                 *)
(***************************************************************************)

\* Every endpoint instance of the stack has one port.
OnePort(c) == c.bridge \/ Cardinality(c.ports) = 1

\* An entry that is not allocated has no users.
VlanOk(w) == ~w.alloc => \A p \in Ports : w.ref[p] = 0

UsersOf(x, v) == {s \in Streams : x.st[s].vlan /\ Vid[s] = v}

\* The users of a VLAN are the streams that use it.
Counted(x) ==
    /\ \A v \in VIDs : VlanOk(x.vlans[v])
    /\ \A v \in VIDs, p \in cfg.ports :
          <<v, p>> \notin cfg.vlanUsers => x.vlans[v].ref[p] = Cardinality(UsersOf(x, v))
    /\ cfg.bridge => \A s \in Streams : ~x.st[s].vlan

\* A stream uses its VLAN for a talker of the application or a ready listener.
Entitled(x, s) ==
    x.st[s].vlan => \E p \in cfg.ports : \/ p \in x.st[s].userT
                                         \/ x.st[s].decL[p] \in {"READY", "RF"}

UsersOk(x) == OnePort(cfg) => Counted(x) /\ \A s \in Streams : Entitled(x, s)

\* An update of a VLAN entry never changes its users.
LEMMA UpdateKeepsRef ==
  ASSUME NEW w \in VlanType, NEW f, NEW n, n = UpdateVlan(w, f)
  PROVE  /\ \A p \in Ports : n.ref[p] = w.ref[p]
         /\ VlanOk(w) => VlanOk(n)
<1>1. CASE InUse(w)
  <2>1. n = [w EXCEPT !.dec = DeclaredPorts(w, f)]
    BY <1>1 DEF UpdateVlan
  <2>2. n.ref = w.ref /\ n.alloc = w.alloc
    BY <2>1 DEF VlanType
  <2> QED BY <2>2 DEF VlanOk
<1>2. CASE ~InUse(w)
  <2>1. n = NoVlan /\ Users(w) = {}
    BY <1>2 DEF UpdateVlan, InUse
  <2>2. \A p \in Ports : w.ref[p] \in Nat /\ ~(w.ref[p] > 0)
    BY <2>1 DEF Users, VlanType
  <2>3. \A p \in Ports : n.ref[p] = 0
    BY <2>1 DEF NoVlan
  <2> QED BY <2>2, <2>3 DEF VlanOk
<1> QED BY <1>1, <1>2

\* mvrp_register_vlan_member adds one user on the port.
LEMMA RegisterMemberRef ==
  ASSUME NEW vs \in [VIDs -> VlanType], NEW v \in VIDs, NEW p \in Ports, NEW f,
         NEW n, n = RegisterMember(vs, v, p, f)
  PROVE  /\ \A u \in VIDs : u # v => n[u] = vs[u]
         /\ n[v].ref[p] = vs[v].ref[p] + 1
         /\ \A q \in Ports : q # p => n[v].ref[q] = vs[v].ref[q]
         /\ VlanOk(n[v])
<1> DEFINE w == [vs[v] EXCEPT !.alloc = TRUE, !.ref[p] = @ + 1]
<1>1. vs[v] \in VlanType
  OBVIOUS
<1>2. /\ w \in VlanType /\ w.alloc /\ w.ref[p] = vs[v].ref[p] + 1
      /\ \A q \in Ports : q # p => w.ref[q] = vs[v].ref[q]
  <2> DEFINE k == [vs[v] EXCEPT !.alloc = TRUE]
             i == k.ref[p] + 1
  <2>1. k \in VlanType /\ k.ref = vs[v].ref /\ k.ref[p] \in Nat /\ k.alloc
    BY <1>1 DEF VlanType
  <2>2. i \in Nat /\ i = vs[v].ref[p] + 1
    BY <2>1
  <2> HIDE DEF k, i
  <2> DEFINE z == [k EXCEPT !.ref[p] = i]
  <2>3. /\ z \in VlanType /\ z.ref[p] = i /\ z.alloc = k.alloc
        /\ \A q \in Ports : q # p => z.ref[q] = k.ref[q]
    BY <2>1, <2>2 DEF VlanType
  <2>4. w = z
    BY DEF k, i
  <2> HIDE DEF z, w
  <2> QED BY <2>1, <2>2, <2>3, <2>4
<1>3. n = [vs EXCEPT ![v] = IF vs[v].ref[p] = 0 THEN UpdateVlan(w, f) ELSE w]
  BY DEF RegisterMember
<1> HIDE DEF w
<1> DEFINE k == UpdateVlan(w, f)
<1>4. (\A q \in Ports : k.ref[q] = w.ref[q]) /\ (VlanOk(w) => VlanOk(k))
  <2>1. k = UpdateVlan(w, f)
    OBVIOUS
  <2> HIDE DEF k
  <2> QED BY <1>2, <2>1, UpdateKeepsRef
<1> HIDE DEF k
<1>5. VlanOk(w)
  BY <1>2 DEF VlanOk
<1>6. n[v] \in {k, w} /\ \A u \in VIDs : u # v => n[u] = vs[u]
  BY <1>3 DEF k
<1> QED BY <1>2, <1>4, <1>5, <1>6

\* mvrp_deregister_vlan_member takes one user of the port.
LEMMA DeregisterMemberRef ==
  ASSUME NEW vs \in [VIDs -> VlanType], NEW v \in VIDs, NEW p \in Ports, NEW f, VlanOk(vs[v]),
         NEW n, n = DeregisterMember(vs, v, p, f)
  PROVE  /\ \A u \in VIDs : u # v => n[u] = vs[u]
         /\ n[v].ref[p] = IF vs[v].ref[p] > 0 THEN vs[v].ref[p] - 1 ELSE 0
         /\ \A q \in Ports : q # p => n[v].ref[q] = vs[v].ref[q]
         /\ VlanOk(n[v])
<1> DEFINE i == IF vs[v].ref[p] > 0 THEN vs[v].ref[p] - 1 ELSE 0
           w == [vs[v] EXCEPT !.ref[p] = i]
<1>1. vs[v] \in VlanType /\ vs[v].ref[p] \in Nat
  BY DEF VlanType
<1>2. n = IF ~vs[v].alloc THEN vs
          ELSE [vs EXCEPT ![v] = IF w.ref[p] = 0 THEN UpdateVlan(w, f) ELSE w]
  BY DEF DeregisterMember
<1>3. i \in Nat
  BY <1>1
<1>4. CASE ~vs[v].alloc
  <2>1. n = vs /\ vs[v].ref[p] = 0
    BY <1>2, <1>4 DEF VlanOk
  <2> QED BY <2>1
<1>5. CASE vs[v].alloc
  <2>1. i = IF vs[v].ref[p] > 0 THEN vs[v].ref[p] - 1 ELSE 0
    OBVIOUS
  <2> HIDE DEF i
  <2>2. /\ w \in VlanType /\ w.ref[p] = i /\ w.alloc
        /\ \A q \in Ports : q # p => w.ref[q] = vs[v].ref[q]
    BY <1>1, <1>3, <1>5 DEF VlanType
  <2> HIDE DEF w
  <2> DEFINE k == UpdateVlan(w, f)
  <2>3. (\A q \in Ports : k.ref[q] = w.ref[q]) /\ (VlanOk(w) => VlanOk(k))
    <3>1. k = UpdateVlan(w, f)
      OBVIOUS
    <3> HIDE DEF k
    <3> QED BY <2>2, <3>1, UpdateKeepsRef
  <2> HIDE DEF k
  <2>4. VlanOk(w)
    BY <2>2 DEF VlanOk
  <2>5. n[v] \in {k, w} /\ \A u \in VIDs : u # v => n[u] = vs[u]
    BY <1>2, <1>5 DEF k
  <2> QED BY <2>1, <2>2, <2>3, <2>4, <2>5
<1> QED BY <1>4, <1>5

LEMMA UsersFinite ==
  ASSUME NEW x, NEW v
  PROVE  IsFiniteSet(UsersOf(x, v)) /\ Cardinality(UsersOf(x, v)) \in Nat
<1>1. UsersOf(x, v) \in SUBSET Streams
  BY DEF UsersOf
<1>2. IsFiniteSet(UsersOf(x, v))
  BY <1>1, MSRPAssumption, FS_Subset
<1> QED BY <1>2, FS_CardinalityType

\* msrp_register_vlan and msrp_deregister_vlan on the port of an endpoint.
LEMMA StreamVlanUsers ==
  ASSUME NEW x \in CtxType, cfg \in Configs, ~cfg.bridge, OnePort(cfg), Counted(x),
         NEW s \in Streams, NEW p \in cfg.ports, NEW on \in BOOLEAN,
         NEW w, w = StreamVlan(VlanOf(x, s), s, p, on),
         NEW y, y.vlans = w.vlans, y.st[s].vlan = w.has,
         \A u \in Streams : u # s => y.st[u].vlan = x.st[u].vlan
  PROVE  Counted(y) /\ (~on => ~y.st[s].vlan)
<1> DEFINE v == Vid[s]
           f == up
<1>1. /\ v \in VIDs /\ p \in Ports /\ x.vlans \in [VIDs -> VlanType]
      /\ \A u \in Streams : x.st[u].vlan \in BOOLEAN
  BY MSRPAssumption, PortsNumbered DEF CtxType, StreamType
<1>2. \A q \in cfg.ports : q = p
  BY PortsNumbered DEF OnePort, LastPort
<1>3. VlanOf(x, s) = [has |-> x.st[s].vlan, vlans |-> x.vlans]
  BY DEF VlanOf
<1>4. ASSUME \A u \in VIDs : VlanOk(y.vlans[u]),
             \A u \in VIDs : <<u, p>> \notin cfg.vlanUsers
                                => y.vlans[u].ref[p] = Cardinality(UsersOf(y, u))
      PROVE  Counted(y)
  BY <1>2, <1>4 DEF Counted
<1>5. /\ \A u \in VIDs : VlanOk(x.vlans[u])
      /\ \A u \in VIDs : <<u, p>> \notin cfg.vlanUsers
                            => x.vlans[u].ref[p] = Cardinality(UsersOf(x, u))
  BY DEF Counted
<1>6. CASE w = VlanOf(x, s) /\ (~on => ~x.st[s].vlan)
  <2>1. y.vlans = x.vlans /\ \A u \in Streams : y.st[u].vlan = x.st[u].vlan
    BY <1>3, <1>6
  <2>2. \A u \in VIDs : UsersOf(y, u) = UsersOf(x, u)
    BY <2>1 DEF UsersOf
  <2> QED BY <1>4, <1>5, <1>6, <2>1, <2>2
<1>7. CASE on /\ ~x.st[s].vlan /\ w # VlanOf(x, s)
  <2>1. w = [has |-> TRUE, vlans |-> RegisterMember(x.vlans, v, p, f)]
    BY <1>3, <1>7 DEF StreamVlan
  <2>2. y.st[s].vlan /\ y.vlans = RegisterMember(x.vlans, v, p, f)
    BY <2>1
  <2> HIDE DEF f
  <2>3. /\ \A u \in VIDs : u # v => y.vlans[u] = x.vlans[u]
        /\ y.vlans[v].ref[p] = x.vlans[v].ref[p] + 1 /\ VlanOk(y.vlans[v])
    <3> HIDE DEF v
    <3> QED BY <1>1, <2>2, RegisterMemberRef
  <2>4. \A u \in VIDs : u # v => UsersOf(y, u) = UsersOf(x, u)
    BY DEF UsersOf
  <2>5. UsersOf(y, v) = UsersOf(x, v) \cup {s} /\ s \notin UsersOf(x, v)
    BY <1>7, <2>2 DEF UsersOf
  <2>6. Cardinality(UsersOf(y, v)) = Cardinality(UsersOf(x, v)) + 1
    BY <2>5, UsersFinite, FS_AddElement
  <2> HIDE DEF v
  <2> QED BY <1>1, <1>4, <1>5, <1>7, <2>3, <2>4, <2>6
<1>8. CASE ~on /\ x.st[s].vlan
  <2>1. w = [has |-> FALSE, vlans |-> DeregisterMember(x.vlans, v, p, f)]
    BY <1>3, <1>8 DEF StreamVlan
  <2>2. ~y.st[s].vlan /\ y.vlans = DeregisterMember(x.vlans, v, p, f)
    BY <2>1
  <2> HIDE DEF f
  <2>3. /\ \A u \in VIDs : u # v => y.vlans[u] = x.vlans[u]
        /\ y.vlans[v].ref[p] = IF x.vlans[v].ref[p] > 0 THEN x.vlans[v].ref[p] - 1 ELSE 0
        /\ VlanOk(y.vlans[v])
    <3> HIDE DEF v
    <3> QED BY <1>1, <1>5, <2>2, DeregisterMemberRef
  <2>4. \A u \in VIDs : u # v => UsersOf(y, u) = UsersOf(x, u)
    BY DEF UsersOf
  <2>5. UsersOf(y, v) = UsersOf(x, v) \ {s} /\ s \in UsersOf(x, v)
    BY <1>8, <2>2 DEF UsersOf
  <2>6. /\ Cardinality(UsersOf(y, v)) = Cardinality(UsersOf(x, v)) - 1
        /\ Cardinality(UsersOf(x, v)) \in Nat /\ Cardinality(UsersOf(y, v)) \in Nat
    BY <2>5, UsersFinite, FS_RemoveElement
  <2>7. Cardinality(UsersOf(x, v)) > 0
    BY <2>6
  <2> HIDE DEF v
  <2> QED BY <1>1, <1>4, <1>5, <2>2, <2>3, <2>4, <2>6, <2>7
<1>9. w = VlanOf(x, s) \/ (on /\ ~x.st[s].vlan) \/ (~on /\ x.st[s].vlan)
  BY <1>3 DEF StreamVlan
<1> QED BY <1>6, <1>7, <1>8, <1>9

\* What only adds requests of talkers keeps the users.
LEMMA SimilarUsers ==
  ASSUME NEW x, NEW y, y.vlans = x.vlans, UsersOk(x),
         \A u \in Streams : /\ y.st[u].vlan = x.st[u].vlan /\ y.st[u].decL = x.st[u].decL
                            /\ x.st[u].userT \subseteq y.st[u].userT
  PROVE  UsersOk(y)
<1> SUFFICES ASSUME OnePort(cfg)
             PROVE  Counted(y) /\ \A s \in Streams : Entitled(y, s)
  BY DEF UsersOk
<1>1. Counted(x) /\ \A s \in Streams : Entitled(x, s)
  BY DEF UsersOk
<1>2. \A v \in VIDs : UsersOf(y, v) = UsersOf(x, v)
  BY DEF UsersOf
<1>3. Counted(y)
  BY <1>1, <1>2 DEF Counted
<1>4. ASSUME NEW s \in Streams PROVE Entitled(y, s)
  <2>1. Entitled(x, s)
    BY <1>1
  <2> QED BY <2>1 DEF Entitled
<1> QED BY <1>3, <1>4

\* The listener half of the map.
LEMMA MapListenerUsers ==
  ASSUME NEW x, CtxOk(x), cfg \in Configs, up \in SUBSET Ports, NEW s \in Streams,
         UsersOk(x), \A p \in Ports : Apart(x.st[s], p),
         NEW y, y = MapUpdateListener(x, s)
  PROVE  UsersOk(y)
<1> SUFFICES ASSUME OnePort(cfg)
             PROVE  Counted(y) /\ \A u \in Streams : Entitled(y, u)
  BY DEF UsersOk
<1>1. Counted(x) /\ \A u \in Streams : Entitled(x, u)
  BY DEF UsersOk
<1>2. /\ SameRegs(x, y)
      /\ \A u \in Streams : u # s => y.st[u] = x.st[u]
      /\ \A p \in Ports : y.st[s].decL[p] = ListenerPort(x, s, p).dec
      /\ cfg.bridge => y.vlans = x.vlans /\ y.st[s].vlan = x.st[s].vlan
      /\ ~cfg.bridge => y.vlans = ListenerVlan(x, s).vlans /\ y.st[s].vlan = ListenerVlan(x, s).has
  BY MapListenerKeeps
<1>3. \A u \in Streams : u # s => Entitled(y, u)
  BY <1>1, <1>2 DEF Entitled
<1>4. x \in CtxType /\ x.st[s] \in StreamType
  BY DEF CtxOk, CtxType
<1>5. CASE cfg.bridge
  <2>1. y.vlans = x.vlans /\ \A u \in Streams : y.st[u].vlan = x.st[u].vlan
    BY <1>2, <1>5
  <2>2. \A v \in VIDs : UsersOf(y, v) = UsersOf(x, v)
    BY <2>1 DEF UsersOf
  <2>3. Counted(y)
    BY <1>1, <2>1, <2>2 DEF Counted
  <2>4. Entitled(y, s)
    BY <1>5, <2>3 DEF Counted, Entitled
  <2> QED BY <1>3, <2>3, <2>4
<1>6. CASE ~cfg.bridge
  <2>1. LastPort = 1 /\ cfg.ports = 1 .. 1 /\ 1 \in Ports /\ 1 \in cfg.ports
    BY <1>6, PortsNumbered DEF OnePort, LastPort
  <2> DEFINE l == ListenerPort(x, s, 1)
             w == ListenerVlan(x, s)
  <2>2. w = IF l.vlan = "keep" THEN VlanOf(x, s)
            ELSE StreamVlan(VlanOf(x, s), s, 1, l.vlan = "join")
    <3>1. PICK f \in [Nat -> HasVlanType] :
            /\ f[0] = VlanOf(x, s) /\ ListenerVlan(x, s) = f[LastPort]
            /\ \A i \in Nat : f[i + 1] =
                 IF ListenerPort(x, s, i + 1).vlan = "keep" THEN f[i]
                 ELSE StreamVlan(f[i], s, i + 1, ListenerPort(x, s, i + 1).vlan = "join")
      BY <1>4, ListenerVlanWalk
    <3>2. f[0 + 1] = IF ListenerPort(x, s, 0 + 1).vlan = "keep" THEN f[0]
                     ELSE StreamVlan(f[0], s, 0 + 1, ListenerPort(x, s, 0 + 1).vlan = "join")
      BY <3>1
    <3>3. 0 + 1 = 1
      OBVIOUS
    <3> QED BY <2>1, <3>1, <3>2, <3>3
  <2>3. /\ l.vlan = "keep" => x.st[s].decL[1] = "NONE"
        /\ l.vlan = "join" => l.dec \in {"READY", "RF"}
    <3>1. CASE DeclaresListener(x, s, 1)
      <4>1. l = UpdateListenerPort(x, s, 1)
        BY <2>1, <3>1 DEF ListenerPort
      <4> HIDE DEF l
      <4>2. /\ l.vlan \in {"join", "leave"}
            /\ Apart(x.st[s], 1) => (l.vlan = "join" <=> l.dec \in {"READY", "RF"})
        BY <2>1, <3>1, <4>1, UpdateListenerSpec
      <4> QED BY <2>1, <4>2
    <3>2. CASE ~DeclaresListener(x, s, 1)
      <4>1. l = RemoveListenerPort(x, s, 1)
        BY <2>1, <3>2 DEF ListenerPort
      <4> HIDE DEF l
      <4>2. l.vlan = IF x.st[s].decL[1] = "NONE" THEN "keep" ELSE "leave"
        BY <2>1, <4>1, RemoveListenerSpec
      <4> QED BY <4>2
    <3> QED BY <3>1, <3>2
  <2>4. y.vlans = w.vlans /\ y.st[s].vlan = w.has /\ y.st[s].decL[1] = l.dec
    BY <1>2, <1>6, <2>1
  <2>5. CASE l.vlan = "keep"
    <3>1. y.vlans = x.vlans /\ \A u \in Streams : y.st[u].vlan = x.st[u].vlan
      BY <1>2, <2>2, <2>4, <2>5 DEF VlanOf
    <3>2. \A v \in VIDs : UsersOf(y, v) = UsersOf(x, v)
      BY <3>1 DEF UsersOf
    <3>3. Counted(y)
      BY <1>1, <3>1, <3>2 DEF Counted
    <3>4. y.st[s].vlan => 1 \in x.st[s].userT
      <4>1. \A p \in cfg.ports : p = 1
        BY <2>1
      <4> QED BY <1>1, <2>3, <2>5, <3>1, <4>1 DEF Entitled
    <3>5. Entitled(y, s)
      BY <1>2, <2>1, <3>4 DEF Entitled, SameRegs
    <3> QED BY <1>3, <3>3, <3>5
  <2>6. CASE l.vlan # "keep"
    <3> DEFINE on == l.vlan = "join"
    <3>1. on \in BOOLEAN /\ w = StreamVlan(VlanOf(x, s), s, 1, on)
      BY <2>2, <2>6
    <3>2. y.st[s].decL[1] = l.dec /\ (on => l.dec \in {"READY", "RF"})
      BY <2>3, <2>4
    <3> HIDE DEF on, w, l
    <3>3. Counted(y) /\ (~on => ~y.st[s].vlan)
      BY <1>1, <1>2, <1>4, <1>6, <2>1, <2>4, <3>1, StreamVlanUsers
    <3>4. Entitled(y, s)
      BY <2>1, <3>2, <3>3 DEF Entitled
    <3> QED BY <1>3, <3>3, <3>4
  <2> QED BY <2>5, <2>6
<1> QED BY <1>5, <1>6
\* The map of a stream keeps what holds of the context and makes the
\* declarations of the stream right.
LEMMA MapStreamKeeps ==
  ASSUME NEW x, CtxOk(x), cfg \in Configs, up \in SUBSET Ports, NEW s \in Streams,
         NEW y, y = MapUpdateStream(x, s)
  PROVE  /\ CtxOk(y) /\ SameRegs(x, y) /\ Mapped(y, s)
         /\ \A u \in Streams : u # s => y.st[u] = x.st[u]
         /\ \A p \in Ports : Apart(x.st[s], p) => ListenerRight(y, s, p)
         /\ cfg.bridge => y.vlans = x.vlans
         /\ ListOk(x) => ListOk(y)
         /\ UsersOk(x) /\ (\A p \in Ports : Apart(x.st[s], p)) => UsersOk(y)
<1> DEFINE w == MapUpdateTalker(x, s)
           z == MapUpdateListener(w, s)
<1>1. y = FreeIdle(z, s)
  BY DEF MapUpdateStream
<1>2. w = MapUpdateTalker(x, s) /\ z = MapUpdateListener(w, s)
  OBVIOUS
<1> HIDE DEF w, z
<1>3. /\ CtxOk(w) /\ SameRegs(x, w) /\ w.order = x.order /\ w.vlans = x.vlans
      /\ \A u \in Streams : u # s => w.st[u] = x.st[u]
      /\ w.st[s].decL = x.st[s].decL /\ w.st[s].vlan = x.st[s].vlan
      /\ \A p \in Ports : TalkerRight(w, s, p)
  BY <1>2, MapTalkerKeeps
<1>4. /\ CtxOk(z) /\ SameRegs(w, z) /\ z.order = w.order
      /\ \A u \in Streams : u # s => z.st[u] = w.st[u]
      /\ z.st[s].decT = w.st[s].decT /\ z.st[s].fqtss = w.st[s].fqtss /\ z.st[s].fdb = w.st[s].fdb
      /\ \A p \in Ports : z.st[s].decL[p] # "NONE" => DeclaresListener(w, s, p)
      /\ \A p \in Ports : Apart(w.st[s], p) => ListenerRight(z, s, p)
      /\ cfg.bridge => z.vlans = w.vlans
  BY <1>2, <1>3, MapListenerKeeps
<1>5. Mapped(z, s)
  <2> SUFFICES ASSUME NEW p \in Ports
               PROVE  TalkerRight(z, s, p) /\ (z.st[s].decL[p] # "NONE" => DeclaresListener(z, s, p))
    BY DEF Mapped
  <2>1. /\ DeclaresTalker(z, s, p) <=> DeclaresTalker(w, s, p)
        /\ DeclaresListener(z, s, p) <=> DeclaresListener(w, s, p)
        /\ MapTalkerType(z.st[s]) = MapTalkerType(w.st[s])
        /\ ListenerReady(z.st[s], p) <=> ListenerReady(w.st[s], p)
    BY <1>4, SameMeaning
  <2>2. z.en = w.en /\ z.bnd = w.bnd /\ TalkerRight(w, s, p)
    BY <1>3, <1>4 DEF SameRegs
  <2> QED BY <1>4, <2>1, <2>2 DEF TalkerRight
<1>6. /\ CtxOk(y) /\ SameRegs(z, y) /\ Mapped(y, s) /\ y.vlans = z.vlans
      /\ \A u \in Streams : u # s => y.st[u] = z.st[u]
      /\ y.st[s].decL = z.st[s].decL
      /\ \A u \in Streams : u # s /\ Listed(z, u) => Listed(y, u)
      /\ Idle(z.st[s]) => y.st[s] = NoStream
      /\ Listed(z, s) => Listed(y, s) \/ y.st[s] = NoStream
  BY <1>1, <1>4, <1>5, FreeIdleKeeps
<1>7. SameRegs(x, z) /\ SameRegs(x, y)
  BY <1>3, <1>4, <1>6, SameRegsTransitive
<1>8. ASSUME NEW p \in Ports, Apart(x.st[s], p) PROVE ListenerRight(y, s, p)
  <2>1. Apart(w.st[s], p)
    BY <1>3, <1>8 DEF Apart, SameRegs
  <2>2. ListenerRight(z, s, p)
    BY <1>4, <2>1
  <2>3. /\ DeclaresListener(y, s, p) <=> DeclaresListener(z, s, p)
        /\ TalkerType(y.st[s], p) = TalkerType(z.st[s], p)
        /\ ListenersBehind(y.st[s], p) = ListenersBehind(z.st[s], p)
    BY <1>6, SameMeaning
  <2>4. ListenerDeclaration(y.st[s], p, y.st[s].decL[p])
          <=> ListenerDeclaration(z.st[s], p, z.st[s].decL[p])
    BY <1>6, <2>3 DEF ListenerDeclaration
  <2> QED BY <1>6, <2>2, <2>3, <2>4 DEF ListenerRight, SameRegs
<1>9. ASSUME ListOk(x) PROVE ListOk(y)
  <2>1. \A u \in Streams : Listed(z, u) <=> Listed(x, u)
    BY <1>3, <1>4 DEF Listed
  <2>2. ASSUME NEW u \in Streams, ~Listed(y, u) PROVE y.st[u] = NoStream
    <3>1. CASE u # s
      <4>1. ~Listed(x, u)
        BY <1>6, <2>1, <2>2, <3>1
      <4>2. x.st[u] = NoStream
        BY <1>9, <4>1 DEF ListOk, Listed
      <4> QED BY <1>3, <1>4, <1>6, <3>1, <4>2
    <3>2. CASE u = s /\ Listed(x, s)
      BY <1>6, <2>1, <2>2, <3>2
    <3>3. CASE u = s /\ ~Listed(x, s)
      <4>1. x.st[s] = NoStream
        BY <1>9, <3>3 DEF ListOk, Listed
      <4>2. /\ z.st[s].tReg = NoStream.tReg /\ z.st[s].lReg = NoStream.lReg
            /\ z.st[s].userT = NoStream.userT /\ z.st[s].userL = NoStream.userL
        BY <1>7, <4>1 DEF SameRegs
      <4>3. TalkerPorts(z.st[s]) = {} /\ ListenerPorts(z.st[s]) = {}
            /\ z.st[s].userT = {} /\ z.st[s].userL = {}
        BY <4>2 DEF NoStream, TalkerPorts, ListenerPorts
      <4>4. \A p \in Ports : ~DeclaresTalker(z, s, p) /\ ~DeclaresListener(z, s, p)
        BY <4>3 DEF DeclaresTalker, DeclaresListener
      <4>5. \A p \in Ports : z.st[s].decT[p] = "NONE" /\ z.st[s].decL[p] = "NONE"
        BY <1>5, <4>4 DEF Mapped, TalkerRight
      <4> QED BY <1>6, <3>3, <4>3, <4>5 DEF Idle
    <3> QED BY <3>1, <3>2, <3>3
  <2> QED BY <2>2 DEF ListOk, Listed
<1>10. ASSUME UsersOk(x), \A p \in Ports : Apart(x.st[s], p) PROVE UsersOk(y)
  <2>1. UsersOk(w)
    BY <1>3, <1>10, SimilarUsers DEF SameRegs
  <2>2. \A p \in Ports : Apart(w.st[s], p)
    BY <1>3, <1>10 DEF Apart, SameRegs
  <2>3. UsersOk(z)
    BY <1>2, <1>3, <2>1, <2>2, MapListenerUsers
  <2>4. CASE ~Idle(z.st[s])
    BY <1>1, <2>3, <2>4 DEF FreeIdle
  <2>5. CASE Idle(z.st[s]) /\ OnePort(cfg)
    <3>1. ~z.st[s].vlan
      <4>1. Entitled(z, s) /\ cfg.ports \subseteq Ports
        BY <2>3, <2>5, PortsNumbered DEF UsersOk
      <4> QED BY <2>5, <4>1 DEF Entitled, Idle
    <3>2. ~y.st[s].vlan
      BY <1>6, <2>5 DEF NoStream
    <3>3. z.st[s].vlan \in BOOLEAN /\ y.st[s].vlan \in BOOLEAN
      BY <1>4, <1>6 DEF CtxOk, CtxType, StreamType
    <3>4. \A u \in Streams : /\ y.st[u].vlan = z.st[u].vlan /\ y.st[u].decL = z.st[u].decL
                            /\ z.st[u].userT \subseteq y.st[u].userT
      BY <1>6, <3>1, <3>2, <3>3 DEF SameRegs
    <3> QED BY <1>6, <2>3, <3>4, SimilarUsers
  <2>6. CASE ~OnePort(cfg)
    BY <2>6 DEF UsersOk
  <2> QED BY <2>4, <2>5, <2>6
<1> QED BY <1>3, <1>4, <1>6, <1>7, <1>8, <1>9, <1>10
-----------------------------------------------------------------------------
(***************************************************************************)
(* The map of all streams.                                                 *)
(***************************************************************************)

\* What is right of a stream stays right while other streams are mapped.
LEMMA RightOfOthers ==
  ASSUME NEW x, NEW y, y.up = x.up, y.en = x.en, y.bnd = x.bnd,
         NEW u \in Streams, y.st[u] = x.st[u]
  PROVE  /\ Mapped(x, u) => Mapped(y, u)
         /\ \A p \in Ports : ListenerRight(x, u, p) => ListenerRight(y, u, p)
<1>1. \A p \in Ports : /\ DeclaresTalker(y, u, p) <=> DeclaresTalker(x, u, p)
                       /\ DeclaresListener(y, u, p) <=> DeclaresListener(x, u, p)
  BY DEF DeclaresTalker, DeclaresListener
<1> QED BY <1>1 DEF Mapped, TalkerRight, ListenerRight

\* There is nothing to declare for an empty entry.
LEMMA EmptyIsRight ==
  ASSUME NEW x, NEW s \in Streams, x.st[s] = NoStream
  PROVE  Mapped(x, s) /\ \A p \in Ports : ListenerRight(x, s, p) /\ Apart(x.st[s], p)
<1>1. /\ TalkerPorts(x.st[s]) = {} /\ ListenerPorts(x.st[s]) = {}
      /\ x.st[s].userT = {} /\ x.st[s].userL = {} /\ x.st[s].fdb = {}
  BY DEF NoStream, TalkerPorts, ListenerPorts
<1>2. \A p \in Ports : /\ x.st[s].decT[p] = "NONE" /\ x.st[s].decL[p] = "NONE"
                       /\ x.st[s].lReg[p] = {}
  BY DEF NoStream
<1>3. \A p \in Ports : ~DeclaresTalker(x, s, p) /\ ~DeclaresListener(x, s, p)
  BY <1>1 DEF DeclaresTalker, DeclaresListener
<1> QED BY <1>1, <1>2, <1>3 DEF Mapped, TalkerRight, ListenerRight, Apart

LEMMA ApartStays ==
  ASSUME NEW x, NEW y, SameRegs(x, y), NEW s \in Streams, NEW p \in Ports,
         Apart(x.st[s], p), ListenerRight(y, s, p)
  PROVE  Apart(y.st[s], p)
<1>1. y.st[s].tReg = x.st[s].tReg /\ y.st[s].lReg = x.st[s].lReg
  BY DEF SameRegs
<1>2. y.st[s].tReg[p] = {} => TalkerType(y.st[s], p) # "ADV"
  BY DEF TalkerType
<1>3. y.st[s].tReg[p] = {} => y.st[s].decL[p] \in {"NONE", "ASK"}
  BY <1>2 DEF ListenerRight, ListenerDeclaration
<1> QED BY <1>1, <1>3 DEF Apart

\* The map makes the declarations and the users right.
Prepared(x) == UsersOk(x) /\ \A u \in Streams, p \in Ports : Apart(x.st[u], p)

\* From x the map has come to y and has been at the streams of S.
WalkOk(x, y, S) ==
    /\ CtxOk(y) /\ ListOk(y) /\ SameRegs(x, y)
    /\ cfg.bridge => y.vlans = x.vlans
    /\ \A u \in Streams : u \notin S => y.st[u] = x.st[u]
    /\ \A u \in Streams : u \in S => Mapped(y, u)
    /\ \A u \in Streams, p \in Ports :
          u \in S /\ Apart(x.st[u], p) => ListenerRight(y, u, p) /\ Apart(y.st[u], p)
    /\ Prepared(x) => UsersOk(y)

LEMMA WalkStep ==
  ASSUME NEW x, NEW y, NEW S, WalkOk(x, y, S), cfg \in Configs, up \in SUBSET Ports,
         NEW s \in Streams, NEW z, z = MapUpdateStream(y, s)
  PROVE  WalkOk(x, z, S \cup {s})
<1>1. /\ CtxOk(y) /\ ListOk(y) /\ SameRegs(x, y)
      /\ cfg.bridge => y.vlans = x.vlans
  BY DEF WalkOk
<1>2. /\ CtxOk(z) /\ SameRegs(y, z) /\ Mapped(z, s)
      /\ \A u \in Streams : u # s => z.st[u] = y.st[u]
      /\ \A p \in Ports : Apart(y.st[s], p) => ListenerRight(z, s, p)
      /\ cfg.bridge => z.vlans = y.vlans
      /\ ListOk(z)
      /\ UsersOk(y) /\ (\A p \in Ports : Apart(y.st[s], p)) => UsersOk(z)
  BY <1>1, MapStreamKeeps
<1>3. SameRegs(x, z)
  BY <1>1, <1>2, SameRegsTransitive
<1>4. ASSUME NEW u \in Streams, u \notin S \cup {s} PROVE z.st[u] = x.st[u]
  BY <1>2, <1>4 DEF WalkOk
<1>5. ASSUME NEW u \in Streams, u \in S \cup {s} PROVE Mapped(z, u)
  <2>1. CASE u # s
    <3>1. Mapped(y, u) /\ z.st[u] = y.st[u]
      BY <1>2, <1>5, <2>1 DEF WalkOk
    <3> QED BY <1>2, <3>1, RightOfOthers DEF SameRegs
  <2> QED BY <1>2, <2>1
<1>6. ASSUME NEW u \in Streams, NEW p \in Ports, u \in S \cup {s}, Apart(x.st[u], p)
      PROVE  ListenerRight(z, u, p) /\ Apart(z.st[u], p)
  <2>1. CASE u # s
    <3>1. ListenerRight(y, u, p) /\ z.st[u] = y.st[u] /\ Apart(y.st[u], p)
      BY <1>2, <1>6, <2>1 DEF WalkOk
    <3> QED BY <1>2, <3>1, RightOfOthers DEF SameRegs
  <2>2. CASE u = s
    <3>1. Apart(y.st[s], p)
      BY <1>6, <2>2 DEF WalkOk
    <3>2. ListenerRight(z, s, p)
      BY <1>2, <3>1
    <3> QED BY <1>2, <2>2, <3>1, <3>2, ApartStays
  <2> QED BY <2>1, <2>2
<1>7. ASSUME Prepared(x) PROVE UsersOk(z)
  <2>1. UsersOk(y)
    BY <1>7 DEF WalkOk
  <2>2. \A p \in Ports : Apart(y.st[s], p)
    BY <1>7 DEF WalkOk, Prepared
  <2> QED BY <1>2, <2>1, <2>2
<1> QED BY <1>1, <1>2, <1>3, <1>4, <1>5, <1>6, <1>7 DEF WalkOk

\* msrp_map_update has been at every stream.
LEMMA MapUpdateKeeps ==
  ASSUME NEW x, CtxOk(x), ListOk(x), cfg \in Configs, up \in SUBSET Ports,
         NEW y, y = MapUpdate(x)
  PROVE  WalkOk(x, y, Streams)
<1> DEFINE V == {z \in CtxType : CtxOk(z)}
           step(z, i) == IF i \in DOMAIN x.order THEN MapUpdateStream(z, x.order[i]) ELSE x
           G == [i \in Nat |-> [z \in V |-> step(z, i)]]
           walked[i \in Nat] ==
             IF i \in DOMAIN x.order THEN MapUpdateStream(walked[i - 1], x.order[i]) ELSE x
<1>1. x \in V /\ x.order \in Seq(Streams) /\ DOMAIN x.order = 1 .. Len(x.order) /\ Len(x.order) \in Nat
  BY DEF CtxOk, CtxType
<1>2. ASSUME NEW i \in Nat, NEW z \in V PROVE step(z, i) \in V
  <2>1. CASE i \in DOMAIN x.order
    <3>1. x.order[i] \in Streams /\ CtxOk(z)
      BY <1>1, <2>1
    <3> DEFINE z1 == MapUpdateStream(z, x.order[i])
    <3>2. z1 = MapUpdateStream(z, x.order[i])
      OBVIOUS
    <3> HIDE DEF z1
    <3>3. CtxOk(z1)
      BY <3>1, <3>2, MapStreamKeeps
    <3> QED BY <2>1, <3>3 DEF CtxOk, z1
  <2> QED BY <1>1, <2>1
<1>3. G \in [Nat -> [V -> V]]
  <2> HIDE DEF step, V
  <2> QED BY <1>2
<1>4. PICK f \in [Nat -> V] : f[0] = x /\ \A i \in Nat : f[i + 1] = G[i + 1][f[i]]
  <2> HIDE DEF V, G, step, walked
  <2>1. PICK f : Iterates(f, V, x, G)
    BY <1>1, <1>3, IterationExists
  <2> QED BY <2>1 DEF Iterates
<1>5. \A i \in Nat : f[i + 1] = step(f[i], i + 1)
  <2> TAKE i \in Nat
  <2>1. i + 1 \in Nat /\ f[i] \in V
    OBVIOUS
  <2> HIDE DEF step, V
  <2> QED BY <1>4, <2>1
<1>6. f = [i \in Nat |-> step(f[i - 1], i)]
  <2>1. ASSUME NEW i \in Nat, i # 0 PROVE f[i] = step(f[i - 1], i)
    <3>1. i - 1 \in Nat /\ (i - 1) + 1 = i
      BY <2>1
    <3>2. f[(i - 1) + 1] = step(f[i - 1], (i - 1) + 1)
      BY <1>5, <3>1
    <3> HIDE DEF step
    <3> QED BY <3>1, <3>2
  <2>2. step(f[0 - 1], 0) = x
    BY <1>1
  <2> HIDE DEF step, V
  <2> QED BY <1>4, <2>1, <2>2
<1>7. walked = [i \in Nat |-> step(walked[i - 1], i)]
  BY <1>6
<1>8. y = walked[Len(x.order)]
  BY DEF MapUpdate
<1> HIDE DEF walked
<1>9. walked[0] = x /\ \A i \in Nat : walked[i + 1] = step(walked[i], i + 1)
  <2>1. walked[0] = step(walked[0 - 1], 0)
    <3> HIDE DEF step
    <3> QED BY <1>7
  <2>2. step(walked[0 - 1], 0) = x
    BY <1>1
  <2>3. ASSUME NEW i \in Nat PROVE walked[i + 1] = step(walked[i], i + 1)
    <3>1. i + 1 \in Nat /\ (i + 1) - 1 = i
      OBVIOUS
    <3> HIDE DEF step
    <3> QED BY <1>7, <3>1
  <2> QED BY <2>1, <2>2, <2>3
<1> DEFINE done(i) == {x.order[j] : j \in 1 .. i}
           K == [i \in Nat |-> {z \in CtxType : i <= Len(x.order) => WalkOk(x, z, done(i))}]
<1>10. walked[0] \in K[0]
  <2>1. SameRegs(x, x) /\ done(0) = {}
    BY DEF SameRegs
  <2>2. WalkOk(x, x, done(0))
    BY <2>1 DEF WalkOk, Prepared
  <2> HIDE DEF done
  <2> QED BY <1>1, <1>9, <2>2
<1>11. ASSUME NEW i \in Nat, walked[i] \in K[i] PROVE walked[i + 1] \in K[i + 1]
  <2>1. CASE i + 1 \in DOMAIN x.order
    <3> DEFINE z == walked[i]
               z1 == walked[i + 1]
    <3>1. i + 1 <= Len(x.order) /\ i <= Len(x.order) /\ x.order[i + 1] \in Streams
      BY <1>1, <2>1
    <3>2. WalkOk(x, z, done(i))
      <4> HIDE DEF done
      <4> QED BY <1>11, <3>1
    <3>3. z1 = MapUpdateStream(z, x.order[i + 1])
      BY <1>9, <2>1
    <3>4. done(i + 1) = done(i) \cup {x.order[i + 1]}
      OBVIOUS
    <3> HIDE DEF z, z1, done
    <3>5. WalkOk(x, z1, done(i + 1))
      BY <3>1, <3>2, <3>3, <3>4, WalkStep
    <3>6. z1 \in CtxType
      BY <3>5 DEF WalkOk, CtxOk
    <3> QED BY <3>5, <3>6 DEF z1
  <2>2. CASE i + 1 \notin DOMAIN x.order
    <3>1. walked[i + 1] = x /\ ~(i + 1 <= Len(x.order))
      BY <1>1, <1>9, <2>2
    <3> HIDE DEF done
    <3> QED BY <1>1, <3>1
  <2> QED BY <2>1, <2>2
<1>12. y \in K[Len(x.order)]
  <2> HIDE DEF K
  <2> QED BY <1>1, <1>8, <1>10, <1>11, IterationKeeps
<1>13. WalkOk(x, y, done(Len(x.order)))
  <2> HIDE DEF done
  <2> QED BY <1>1, <1>12
<1>14. ASSUME NEW u \in Streams, u \notin done(Len(x.order)) PROVE x.st[u] = NoStream
  BY <1>1, <1>14 DEF ListOk
<1> HIDE DEF done
<1>15. ASSUME NEW u \in Streams, u \notin done(Len(x.order))
       PROVE  Mapped(y, u) /\ \A p \in Ports : ListenerRight(y, u, p) /\ Apart(y.st[u], p)
  <2>1. y.st[u] = NoStream
    BY <1>13, <1>14, <1>15 DEF WalkOk
  <2> QED BY <2>1, EmptyIsRight
<1> QED BY <1>13, <1>15 DEF WalkOk
-----------------------------------------------------------------------------
(***************************************************************************)
(* What holds between two events.                                          *)
(***************************************************************************)
Good(x) == CtxOk(x) /\ ListOk(x) /\ \A s \in Streams : Mapped(x, s)

Follows(x) ==
    /\ \A s \in Streams, p \in Ports : ListenerRight(x, s, p) /\ Apart(x.st[s], p)
    /\ UsersOk(x)

\* A registration or a request changed; the declarations are as before.
LEMMA ChangeKeeps ==
  ASSUME NEW x, CtxOk(x), NEW y, y \in CtxType, y.mad = x.mad, y.bw = x.bw,
         x.en \subseteq y.en, y.en \subseteq cfg.ports,
         \A u \in Streams : /\ y.st[u].decT = x.st[u].decT /\ y.st[u].decL = x.st[u].decL
                            /\ y.st[u].fqtss = x.st[u].fqtss /\ y.st[u].fdb = x.st[u].fdb,
         \A u \in Streams, p \in Ports :
            p \notin y.en => y.st[u].tReg[p] = {} /\ y.st[u].lReg[p] = {},
         \A u \in Streams, p \in Ports :
            ~cfg.sendLeave => /\ DeclaresTalker(y, u, p) => NotLeaving(x.mad[p], u, "T")
                              /\ DeclaresListener(y, u, p) => NotLeaving(x.mad[p], u, "L")
  PROVE  CtxOk(y)
<1>1. ASSUME NEW u \in Streams, NEW p \in Ports PROVE PortOk(y, u, p)
  <2>1. PortOk(x, u, p)
    BY DEF CtxOk
  <2> QED BY <2>1 DEF PortOk
<1>2. ASSUME NEW p \in Ports PROVE BandwidthOk(y, p)
  <2>1. BandwidthOk(x, p) /\ Holders(y, p) = Holders(x, p)
    BY DEF CtxOk, Holders
  <2> QED BY <2>1 DEF BandwidthOk
<1> QED BY <1>1, <1>2 DEF CtxOk

\* A stream changed and was mapped.
LEMMA MapAfterChange ==
  ASSUME NEW x, Good(x), cfg \in Configs, up \in SUBSET Ports, NEW s \in Streams,
         NEW z, CtxOk(z), ListOk(z), z.up = x.up, z.en = x.en, z.bnd = x.bnd,
         \A u \in Streams : u # s => z.st[u] = x.st[u],
         NEW y, y = MapUpdateStream(z, s)
  PROVE  /\ Good(y) /\ SameRegs(z, y) /\ (cfg.bridge => y.vlans = z.vlans)
         /\ Follows(x) /\ UsersOk(z) /\ (\A p \in Ports : Apart(z.st[s], p)) => Follows(y)
<1>1. /\ CtxOk(y) /\ SameRegs(z, y) /\ Mapped(y, s)
      /\ \A u \in Streams : u # s => y.st[u] = z.st[u]
      /\ \A p \in Ports : Apart(z.st[s], p) => ListenerRight(y, s, p)
      /\ cfg.bridge => y.vlans = z.vlans
      /\ ListOk(y)
      /\ UsersOk(z) /\ (\A p \in Ports : Apart(z.st[s], p)) => UsersOk(y)
  BY MapStreamKeeps
<1>2. y.up = x.up /\ y.en = x.en /\ y.bnd = x.bnd
  BY <1>1 DEF SameRegs
<1>3. ASSUME NEW u \in Streams, u # s
      PROVE  /\ Mapped(y, u) /\ y.st[u] = x.st[u]
             /\ \A p \in Ports : ListenerRight(x, u, p) => ListenerRight(y, u, p)
  <2>1. y.st[u] = x.st[u] /\ Mapped(x, u)
    BY <1>1, <1>3 DEF Good
  <2> QED BY <1>2, <2>1, RightOfOthers
<1>4. Good(y)
  BY <1>1, <1>3 DEF Good
<1>5. ASSUME Follows(x), UsersOk(z), \A p \in Ports : Apart(z.st[s], p) PROVE Follows(y)
  <2> SUFFICES ASSUME NEW u \in Streams, NEW p \in Ports
               PROVE  ListenerRight(y, u, p) /\ Apart(y.st[u], p)
    BY <1>1, <1>5 DEF Follows
  <2>1. CASE u # s
    BY <1>3, <1>5, <2>1 DEF Follows
  <2>2. CASE u = s
    <3>1. ListenerRight(y, s, p)
      BY <1>1, <1>5
    <3> QED BY <1>1, <1>5, <2>2, <3>1, ApartStays
  <2> QED BY <2>1, <2>2
<1> QED BY <1>1, <1>4, <1>5

LEMMA ListStays ==
  ASSUME NEW x, ListOk(x), NEW y, NEW s \in Streams, Listed(y, s),
         \A u \in Streams : u # s => y.st[u] = x.st[u] /\ (Listed(x, u) => Listed(y, u))
  PROVE  ListOk(y)
BY DEF ListOk, Listed

\* A stream with a request or a registration is in the list.
LEMMA UsedIsListed ==
  ASSUME NEW x, ListOk(x), NEW s \in Streams,
         NEW p \in Ports,
         \/ p \in x.st[s].userT \/ p \in x.st[s].userL
         \/ x.st[s].tReg[p] # {} \/ x.st[s].lReg[p] # {}
  PROVE  Listed(x, s)
<1>1. x.st[s] # NoStream
  BY DEF NoStream
<1> QED BY <1>1 DEF ListOk, Listed

LEMMA SetVlanFields ==
  ASSUME NEW x, x \in CtxType, NEW s \in Streams, NEW w \in HasVlanType, NEW y, y = SetVlan(x, s, w)
  PROVE  /\ y \in CtxType /\ y.vlans = w.vlans
         /\ y.order = x.order /\ y.up = x.up /\ y.en = x.en /\ y.bnd = x.bnd /\ y.bw = x.bw
         /\ y.mad = x.mad
         /\ \A u \in Streams : u # s => y.st[u] = x.st[u]
         /\ y.st[s].vlan = w.has
         /\ \A u \in Streams :
              /\ y.st[u].tReg = x.st[u].tReg /\ y.st[u].lReg = x.st[u].lReg
              /\ y.st[u].decT = x.st[u].decT /\ y.st[u].decL = x.st[u].decL
              /\ y.st[u].userT = x.st[u].userT /\ y.st[u].userL = x.st[u].userL
              /\ y.st[u].fqtss = x.st[u].fqtss /\ y.st[u].fdb = x.st[u].fdb
<1> DEFINE b == w.has
           vs == w.vlans
           r == [x.st[s] EXCEPT !.vlan = b]
           st1 == [x.st EXCEPT ![s] = r]
<1>1. b \in BOOLEAN /\ vs \in [VIDs -> VlanType]
  BY DEF HasVlanType
<1>2. y = [x EXCEPT !.st[s].vlan = b, !.vlans = vs]
  BY DEF SetVlan
<1> HIDE DEF b, vs
<1>3. y = [x EXCEPT !.st = st1, !.vlans = vs]
  BY <1>2 DEF CtxType
<1>4. x.st[s] \in StreamType
  BY DEF CtxType
<1>5. /\ r \in StreamType /\ r.decL = x.st[s].decL /\ r.vlan = b
      /\ r.tReg = x.st[s].tReg /\ r.lReg = x.st[s].lReg
      /\ r.userT = x.st[s].userT /\ r.userL = x.st[s].userL
      /\ r.decT = x.st[s].decT /\ r.fqtss = x.st[s].fqtss /\ r.fdb = x.st[s].fdb
  BY <1>1, <1>4 DEF StreamType
<1> HIDE DEF r
<1>6. /\ st1[s] = r /\ \A u \in Streams : u # s => st1[u] = x.st[u]
      /\ st1 \in [Streams -> StreamType]
  BY <1>5 DEF CtxType
<1> HIDE DEF st1
<1>7. /\ y.order = x.order /\ y.up = x.up /\ y.en = x.en /\ y.bnd = x.bnd /\ y.bw = x.bw
      /\ y.mad = x.mad /\ y.st = st1 /\ y.vlans = vs
  BY <1>3 DEF CtxType
<1>8. y \in CtxType
  BY <1>1, <1>3, <1>6 DEF CtxType
<1> QED BY <1>5, <1>6, <1>7, <1>8 DEF b, vs
LEMMA EndpointVlanFields ==
  ASSUME NEW x, x \in CtxType, NEW s \in Streams, NEW p \in Ports, up \in SUBSET Ports,
         NEW on, NEW y, y = EndpointVlan(x, s, p, on)
  PROVE  /\ y \in CtxType /\ (cfg.bridge => y = x)
         /\ y.order = x.order /\ y.up = x.up /\ y.en = x.en /\ y.bnd = x.bnd /\ y.bw = x.bw
         /\ y.mad = x.mad
         /\ \A u \in Streams : u # s => y.st[u] = x.st[u]
         /\ \A u \in Streams :
              /\ y.st[u].tReg = x.st[u].tReg /\ y.st[u].lReg = x.st[u].lReg
              /\ y.st[u].decT = x.st[u].decT /\ y.st[u].decL = x.st[u].decL
              /\ y.st[u].userT = x.st[u].userT /\ y.st[u].userL = x.st[u].userL
              /\ y.st[u].fqtss = x.st[u].fqtss /\ y.st[u].fdb = x.st[u].fdb
<1>1. CASE cfg.bridge
  BY <1>1 DEF EndpointVlan
<1>2. CASE ~cfg.bridge
  <2> DEFINE w == StreamVlan(VlanOf(x, s), s, p, on)
  <2>1. VlanOf(x, s) \in HasVlanType
    <3>1. x.st[s] \in StreamType /\ x.vlans \in [VIDs -> VlanType]
      BY DEF CtxType
    <3> QED BY <3>1 DEF VlanOf, HasVlanType, StreamType
  <2>2. w \in HasVlanType
    BY <2>1, StreamVlanTyped
  <2>3. y = SetVlan(x, s, w)
    BY <1>2 DEF EndpointVlan
  <2> HIDE DEF w
  <2> QED BY <1>2, <2>2, <2>3, SetVlanFields
<1> QED BY <1>1, <1>2

\* A request of the application, or its end, on an endpoint.
LEMMA EndpointVlanUsers ==
  ASSUME NEW x, x \in CtxType, cfg \in Configs, up \in SUBSET Ports, OnePort(cfg),
         Counted(x), NEW s \in Streams, \A u \in Streams : u # s => Entitled(x, u),
         NEW p \in cfg.ports, NEW on \in BOOLEAN, on => p \in x.st[s].userT,
         NEW y, y = EndpointVlan(x, s, p, on)
  PROVE  UsersOk(y)
<1>1. p \in Ports
  BY PortsNumbered
<1>2. /\ \A u \in Streams : u # s => y.st[u] = x.st[u]
      /\ y.st[s].userT = x.st[s].userT
  BY <1>1, EndpointVlanFields
<1>3. \A u \in Streams : u # s => Entitled(y, u)
  BY <1>2 DEF Entitled
<1>4. CASE cfg.bridge
  <2>1. y = x
    BY <1>1, <1>4, EndpointVlanFields
  <2>2. ~x.st[s].vlan
    BY <1>4 DEF Counted
  <2>3. Entitled(y, s)
    BY <2>1, <2>2 DEF Entitled
  <2> QED BY <1>3, <2>1, <2>3 DEF UsersOk
<1>5. CASE ~cfg.bridge
  <2> DEFINE w == StreamVlan(VlanOf(x, s), s, p, on)
  <2>1. y = SetVlan(x, s, w)
    BY <1>5 DEF EndpointVlan
  <2>2. VlanOf(x, s) \in HasVlanType
    <3>1. x.st[s] \in StreamType /\ x.vlans \in [VIDs -> VlanType]
      BY DEF CtxType
    <3> QED BY <3>1 DEF VlanOf, HasVlanType, StreamType
  <2>3. w \in HasVlanType
    BY <1>1, <2>2, StreamVlanTyped
  <2>4. w = StreamVlan(VlanOf(x, s), s, p, on)
    OBVIOUS
  <2> HIDE DEF w
  <2>5. y.vlans = w.vlans /\ y.st[s].vlan = w.has
    BY <2>1, <2>3, SetVlanFields
  <2>6. Counted(y) /\ (~on => ~y.st[s].vlan)
    BY <1>2, <1>5, <2>4, <2>5, StreamVlanUsers
  <2>7. Entitled(y, s)
    BY <1>2, <2>6 DEF Entitled
  <2> QED BY <1>3, <2>6, <2>7 DEF UsersOk
<1> QED BY <1>4, <1>5
\* The VLAN of a stream is no part of what the map does.
LEMMA EndpointVlanKeeps ==
  ASSUME NEW x, CtxOk(x), NEW s \in Streams, NEW p \in Ports, up \in SUBSET Ports,
         NEW on, NEW y, y = EndpointVlan(x, s, p, on)
  PROVE  /\ CtxOk(y) /\ SameRegs(x, y) /\ (cfg.bridge => y = x)
         /\ y.order = x.order
         /\ \A u \in Streams : u # s => y.st[u] = x.st[u]
         /\ ListOk(x) /\ Listed(x, s) => ListOk(y)
         /\ \A u \in Streams, q \in Ports : Apart(x.st[u], q) => Apart(y.st[u], q)
         /\ Good(x) /\ Listed(x, s) => Good(y)
         /\ Follows(x) /\ UsersOk(y) => Follows(y)
<1>1. /\ y \in CtxType /\ (cfg.bridge => y = x)
      /\ y.order = x.order /\ y.up = x.up /\ y.en = x.en /\ y.bnd = x.bnd /\ y.bw = x.bw
      /\ y.mad = x.mad
      /\ \A u \in Streams : u # s => y.st[u] = x.st[u]
      /\ \A u \in Streams :
           /\ y.st[u].tReg = x.st[u].tReg /\ y.st[u].lReg = x.st[u].lReg
           /\ y.st[u].decT = x.st[u].decT /\ y.st[u].decL = x.st[u].decL
           /\ y.st[u].userT = x.st[u].userT /\ y.st[u].userL = x.st[u].userL
           /\ y.st[u].fqtss = x.st[u].fqtss /\ y.st[u].fdb = x.st[u].fdb
  <2>1. x \in CtxType
    BY DEF CtxOk
  <2> QED BY <2>1, EndpointVlanFields
<1>2. SameRegs(x, y)
  BY <1>1 DEF SameRegs
<1>3. \A u \in Streams, q \in Ports :
         /\ DeclaresTalker(y, u, q) <=> DeclaresTalker(x, u, q)
         /\ DeclaresListener(y, u, q) <=> DeclaresListener(x, u, q)
         /\ MapTalkerType(y.st[u]) = MapTalkerType(x.st[u])
         /\ ListenerReady(y.st[u], q) <=> ListenerReady(x.st[u], q)
         /\ TalkerType(y.st[u], q) = TalkerType(x.st[u], q)
         /\ ListenersBehind(y.st[u], q) = ListenersBehind(x.st[u], q)
  BY <1>2, SameMeaning
<1>4. CtxOk(y)
  <2>1. x.en \subseteq y.en /\ y.en \subseteq cfg.ports
    BY <1>1 DEF CtxOk
  <2>2. \A u \in Streams, q \in Ports :
            q \notin y.en => y.st[u].tReg[q] = {} /\ y.st[u].lReg[q] = {}
    BY <1>1 DEF CtxOk, PortOk
  <2>3. \A u \in Streams, q \in Ports :
            ~cfg.sendLeave => /\ DeclaresTalker(y, u, q) => NotLeaving(x.mad[q], u, "T")
                              /\ DeclaresListener(y, u, q) => NotLeaving(x.mad[q], u, "L")
    BY <1>3 DEF CtxOk, PortOk
  <2> QED BY <1>1, <2>1, <2>2, <2>3, ChangeKeeps
<1>5. ASSUME ListOk(x), Listed(x, s) PROVE ListOk(y)
  <2>1. \A u \in Streams : Listed(y, u) <=> Listed(x, u)
    BY <1>1 DEF Listed
  <2> QED BY <1>1, <1>5, <2>1, ListStays
<1>6. \A u \in Streams, q \in Ports : Apart(x.st[u], q) => Apart(y.st[u], q)
  BY <1>1 DEF Apart
<1>7. ASSUME NEW u \in Streams, Mapped(x, u) PROVE Mapped(y, u)
  BY <1>1, <1>3, <1>7 DEF Mapped, TalkerRight
<1>8. ASSUME NEW u \in Streams, NEW q \in Ports, ListenerRight(x, u, q) PROVE ListenerRight(y, u, q)
  <2>1. ListenerDeclaration(y.st[u], q, y.st[u].decL[q])
          <=> ListenerDeclaration(x.st[u], q, x.st[u].decL[q])
    BY <1>1, <1>3 DEF ListenerDeclaration
  <2> QED BY <1>1, <1>3, <1>8, <2>1 DEF ListenerRight
<1> QED BY <1>1, <1>2, <1>4, <1>5, <1>6, <1>7, <1>8 DEF Good, Follows

\* The entry of one stream changed, not the VLAN it uses.
LEMMA OtherUsers ==
  ASSUME NEW x, UsersOk(x), OnePort(cfg), NEW s \in Streams,
         NEW y, y.vlans = x.vlans, y.st[s].vlan = x.st[s].vlan,
         \A u \in Streams : u # s => y.st[u] = x.st[u]
  PROVE  Counted(y) /\ \A u \in Streams : u # s => Entitled(y, u)
<1>1. Counted(x) /\ \A u \in Streams : Entitled(x, u)
  BY DEF UsersOk
<1>2. \A u \in Streams : y.st[u].vlan = x.st[u].vlan
  OBVIOUS
<1>3. \A v \in VIDs : UsersOf(y, v) = UsersOf(x, v)
  BY <1>2 DEF UsersOf
<1>4. Counted(y)
  BY <1>1, <1>2, <1>3 DEF Counted
<1>5. \A u \in Streams : u # s => Entitled(y, u)
  BY <1>1 DEF Entitled
<1> QED BY <1>4, <1>5

\* The users other than those of the streams may change.
LEMMA UsersWithVlans ==
  ASSUME NEW x, UsersOk(x), NEW y, y.st = x.st,
         \A v \in VIDs : VlanOk(x.vlans[v]) => VlanOk(y.vlans[v]),
         \A v \in VIDs, p \in cfg.ports :
            <<v, p>> \notin cfg.vlanUsers => y.vlans[v].ref[p] = x.vlans[v].ref[p]
  PROVE  UsersOk(y)
<1>1. \A v \in VIDs : UsersOf(y, v) = UsersOf(x, v)
  BY DEF UsersOf
<1>2. Counted(x) => Counted(y)
  BY <1>1 DEF Counted
<1>3. \A s \in Streams : Entitled(x, s) => Entitled(y, s)
  BY DEF Entitled
<1> QED BY <1>2, <1>3 DEF UsersOk

LEMMA UsersSame ==
  ASSUME NEW x, UsersOk(x), NEW y, y.st = x.st, y.vlans = x.vlans
  PROVE  UsersOk(y)
BY UsersWithVlans

WithStream(x, s, r) == [x EXCEPT !.st[s] = r]

LEMMA SetStreamFields ==
  ASSUME NEW x, x \in CtxType, NEW s \in Streams, NEW r \in StreamType,
         NEW y, y = WithStream(x, s, r)
  PROVE  /\ y \in CtxType
         /\ y.order = x.order /\ y.up = x.up /\ y.en = x.en /\ y.bnd = x.bnd /\ y.bw = x.bw
         /\ y.mad = x.mad /\ y.vlans = x.vlans
         /\ \A u \in Streams : u # s => y.st[u] = x.st[u]
         /\ y.st[s] = r
<1> DEFINE st1 == [x.st EXCEPT ![s] = r]
<1>1. y = [x EXCEPT !.st = st1]
  BY DEF CtxType, WithStream
<1>2. /\ st1[s] = r /\ \A u \in Streams : u # s => st1[u] = x.st[u]
      /\ st1 \in [Streams -> StreamType]
  BY DEF CtxType
<1> HIDE DEF st1
<1>3. /\ y.order = x.order /\ y.up = x.up /\ y.en = x.en /\ y.bnd = x.bnd /\ y.bw = x.bw
      /\ y.mad = x.mad /\ y.st = st1 /\ y.vlans = x.vlans
  BY <1>1 DEF CtxType
<1>4. y \in CtxType
  BY <1>1, <1>2 DEF CtxType
<1> QED BY <1>2, <1>3, <1>4

-----------------------------------------------------------------------------
(***************************************************************************)
(* The application withdraws its requests.                                 *)
(***************************************************************************)
FewerUsers(x, y) ==
    /\ y.up = x.up /\ y.en = x.en /\ y.bnd = x.bnd
    /\ cfg.bridge => y.vlans = x.vlans
    /\ \A u \in Streams :
         /\ y.st[u].tReg = x.st[u].tReg /\ y.st[u].lReg = x.st[u].lReg
         /\ y.st[u].userT \subseteq x.st[u].userT /\ y.st[u].userL \subseteq x.st[u].userL

Reduced(x, y) == Good(y) /\ FewerUsers(x, y) /\ (Follows(x) => Follows(y))

LEMMA ReducedTransitive ==
  ASSUME NEW x, NEW y, NEW z, Reduced(x, y), Reduced(y, z)
  PROVE  Reduced(x, z)
BY DEF Reduced, FewerUsers

\* A request less.
LEMMA LessKeeps ==
  ASSUME NEW x, Good(x), NEW s \in Streams, Listed(x, s),
         NEW r \in StreamType,
         r.tReg = x.st[s].tReg, r.lReg = x.st[s].lReg,
         r.userT \subseteq x.st[s].userT, r.userL \subseteq x.st[s].userL,
         r.decT = x.st[s].decT, r.decL = x.st[s].decL,
         r.fqtss = x.st[s].fqtss, r.fdb = x.st[s].fdb, r.vlan = x.st[s].vlan,
         NEW y, y = WithStream(x, s, r)
  PROVE  /\ CtxOk(y) /\ ListOk(y) /\ FewerUsers(x, y) /\ y.order = x.order
         /\ y.vlans = x.vlans /\ y.st[s].vlan = x.st[s].vlan
         /\ y.st[s] = r
         /\ \A u \in Streams : u # s => y.st[u] = x.st[u]
         /\ \A u \in Streams, p \in Ports : Apart(x.st[u], p) => Apart(y.st[u], p)
<1>1. CtxOk(x) /\ ListOk(x) /\ x \in CtxType
  BY DEF Good, CtxOk
<1>2. /\ y \in CtxType
      /\ y.order = x.order /\ y.up = x.up /\ y.en = x.en /\ y.bnd = x.bnd /\ y.bw = x.bw
      /\ y.mad = x.mad /\ y.vlans = x.vlans
      /\ \A u \in Streams : u # s => y.st[u] = x.st[u]
      /\ y.st[s] = r
  BY <1>1, SetStreamFields
<1>3. ASSUME NEW u \in Streams
      PROVE  /\ y.st[u].tReg = x.st[u].tReg /\ y.st[u].lReg = x.st[u].lReg
             /\ y.st[u].decT = x.st[u].decT /\ y.st[u].decL = x.st[u].decL
             /\ y.st[u].userT \subseteq x.st[u].userT /\ y.st[u].userL \subseteq x.st[u].userL
             /\ y.st[u].fqtss = x.st[u].fqtss /\ y.st[u].fdb = x.st[u].fdb
  BY <1>2
<1>4. ASSUME NEW u \in Streams, NEW p \in Ports
      PROVE  /\ DeclaresTalker(y, u, p) => DeclaresTalker(x, u, p)
             /\ DeclaresListener(y, u, p) => DeclaresListener(x, u, p)
  BY <1>2, <1>3 DEF DeclaresTalker, DeclaresListener, TalkerPorts, ListenerPorts
<1>5. CtxOk(y)
  <2>1. x.en \subseteq y.en /\ y.en \subseteq cfg.ports
    BY <1>1, <1>2 DEF CtxOk
  <2>2. \A u \in Streams, q \in Ports :
            q \notin y.en => y.st[u].tReg[q] = {} /\ y.st[u].lReg[q] = {}
    BY <1>1, <1>2, <1>3 DEF CtxOk, PortOk
  <2>3. \A u \in Streams, q \in Ports :
            ~cfg.sendLeave => /\ DeclaresTalker(y, u, q) => NotLeaving(x.mad[q], u, "T")
                              /\ DeclaresListener(y, u, q) => NotLeaving(x.mad[q], u, "L")
    BY <1>1, <1>4 DEF CtxOk, PortOk
  <2>4. \A u \in Streams : /\ y.st[u].decT = x.st[u].decT /\ y.st[u].decL = x.st[u].decL
                            /\ y.st[u].fqtss = x.st[u].fqtss /\ y.st[u].fdb = x.st[u].fdb
    BY <1>3
  <2>5. y \in CtxType /\ y.mad = x.mad /\ y.bw = x.bw
    BY <1>2
  <2> QED BY <1>1, <2>1, <2>2, <2>3, <2>4, <2>5, ChangeKeeps
<1>6. ListOk(y)
  <2>1. \A u \in Streams : Listed(y, u) <=> Listed(x, u)
    BY <1>2 DEF Listed
  <2> QED BY <1>1, <1>2, <2>1, ListStays
<1>7. \A u \in Streams, p \in Ports : Apart(x.st[u], p) => Apart(y.st[u], p)
  BY <1>3 DEF Apart
<1> QED BY <1>2, <1>3, <1>5, <1>6, <1>7 DEF FewerUsers
\* The application withdraws a talker.
LEMMA DeregisterTalkerKeeps ==
  ASSUME NEW x, Good(x), cfg \in Configs, up \in SUBSET Ports, NEW s \in Streams, NEW p \in Ports,
         p \in x.st[s].userT, NEW y, y = DeregisterTalker(x, s, p)
  PROVE  Good(y) /\ FewerUsers(x, y) /\ (p \in cfg.ports => Reduced(x, y))
<1> DEFINE r == [x.st[s] EXCEPT !.userT = @ \ {p}]
           z == WithStream(x, s, r)
           w == EndpointVlan(z, s, p, FALSE)
<1>1. x \in CtxType /\ ListOk(x) /\ x.st[s] \in StreamType
  BY DEF Good, CtxOk, CtxType
<1>2. /\ r \in StreamType /\ r.tReg = x.st[s].tReg /\ r.lReg = x.st[s].lReg
      /\ r.userT \subseteq x.st[s].userT /\ r.userL \subseteq x.st[s].userL
      /\ r.decT = x.st[s].decT /\ r.decL = x.st[s].decL
      /\ r.fqtss = x.st[s].fqtss /\ r.fdb = x.st[s].fdb /\ r.vlan = x.st[s].vlan
  BY <1>1 DEF StreamType
<1>3. [x EXCEPT !.st[s].userT = @ \ {p}] = z
  BY <1>1 DEF CtxType, StreamType, WithStream
<1>4. y = MapUpdateStream(w, s)
  BY <1>3 DEF DeregisterTalker
<1>5. z = WithStream(x, s, r) /\ w = EndpointVlan(z, s, p, FALSE)
  OBVIOUS
<1> HIDE DEF r, z, w
<1>6. Listed(x, s)
  BY <1>1, UsedIsListed
<1>7. /\ CtxOk(z) /\ ListOk(z) /\ FewerUsers(x, z) /\ z.order = x.order
      /\ z.vlans = x.vlans /\ z.st[s].vlan = x.st[s].vlan
      /\ \A u \in Streams : u # s => z.st[u] = x.st[u]
      /\ \A u \in Streams, q \in Ports : Apart(x.st[u], q) => Apart(z.st[u], q)
  BY <1>2, <1>5, <1>6, LessKeeps
<1>8. Listed(z, s)
  BY <1>6, <1>7 DEF Listed
<1>9. /\ CtxOk(w) /\ SameRegs(z, w) /\ (cfg.bridge => w = z)
      /\ \A u \in Streams : u # s => w.st[u] = z.st[u]
      /\ ListOk(w)
      /\ \A u \in Streams, q \in Ports : Apart(z.st[u], q) => Apart(w.st[u], q)
  <2> DEFINE on == FALSE
  <2>1. w = EndpointVlan(z, s, p, on)
    BY <1>5
  <2> HIDE DEF on
  <2> QED BY <1>7, <1>8, <2>1, EndpointVlanKeeps
<1>10. w.up = x.up /\ w.en = x.en /\ w.bnd = x.bnd /\ (cfg.bridge => w.vlans = x.vlans)
  BY <1>7, <1>9 DEF SameRegs, FewerUsers
<1>11. /\ Good(y) /\ SameRegs(w, y) /\ (cfg.bridge => y.vlans = w.vlans)
       /\ Follows(x) /\ UsersOk(w) /\ (\A q \in Ports : Apart(w.st[s], q)) => Follows(y)
  BY <1>4, <1>7, <1>9, <1>10, MapAfterChange
<1>12. FewerUsers(x, y)
  BY <1>7, <1>9, <1>10, <1>11 DEF SameRegs, FewerUsers
<1>13. Follows(x) => \A q \in Ports : Apart(w.st[s], q)
  BY <1>7, <1>9 DEF Follows
<1>14. ASSUME Follows(x), p \in cfg.ports PROVE UsersOk(w)
  <2> SUFFICES ASSUME OnePort(cfg) PROVE UsersOk(w)
    BY DEF UsersOk
  <2>1. Counted(z) /\ \A u \in Streams : u # s => Entitled(z, u)
    BY <1>7, <1>14, OtherUsers DEF Follows
  <2> DEFINE on == FALSE
  <2>2. w = EndpointVlan(z, s, p, on) /\ on \in BOOLEAN /\ (on => p \in z.st[s].userT) /\ z \in CtxType
    BY <1>5, <1>7 DEF CtxOk
  <2> HIDE DEF on
  <2> QED BY <1>14, <2>1, <2>2, EndpointVlanUsers
<1> QED BY <1>11, <1>12, <1>13, <1>14 DEF Reduced

\* The application withdraws a listener.
LEMMA DeregisterListenerKeeps ==
  ASSUME NEW x, Good(x), cfg \in Configs, up \in SUBSET Ports, NEW s \in Streams, NEW p \in Ports,
         p \in x.st[s].userL, NEW y, y = DeregisterListener(x, s, p)
  PROVE  Reduced(x, y)
<1> DEFINE r == [x.st[s] EXCEPT !.userL = @ \ {p}]
           z == WithStream(x, s, r)
<1>1. x \in CtxType /\ ListOk(x) /\ x.st[s] \in StreamType
  BY DEF Good, CtxOk, CtxType
<1>2. /\ r \in StreamType /\ r.tReg = x.st[s].tReg /\ r.lReg = x.st[s].lReg
      /\ r.userT \subseteq x.st[s].userT /\ r.userL \subseteq x.st[s].userL
      /\ r.decT = x.st[s].decT /\ r.decL = x.st[s].decL
      /\ r.fqtss = x.st[s].fqtss /\ r.fdb = x.st[s].fdb
      /\ r.vlan = x.st[s].vlan /\ r.userT = x.st[s].userT
  BY <1>1 DEF StreamType
<1>3. [x EXCEPT !.st[s].userL = @ \ {p}] = z
  BY <1>1 DEF CtxType, StreamType, WithStream
<1>4. y = MapUpdateStream(z, s)
  BY <1>3 DEF DeregisterListener
<1>5. z = WithStream(x, s, r)
  OBVIOUS
<1> HIDE DEF r, z
<1>6. Listed(x, s)
  BY <1>1, UsedIsListed
<1>7. /\ CtxOk(z) /\ ListOk(z) /\ FewerUsers(x, z) /\ z.order = x.order
      /\ z.vlans = x.vlans /\ z.st[s] = r
      /\ \A u \in Streams : u # s => z.st[u] = x.st[u]
      /\ \A u \in Streams, q \in Ports : Apart(x.st[u], q) => Apart(z.st[u], q)
  BY <1>2, <1>5, <1>6, LessKeeps
<1>8. z.up = x.up /\ z.en = x.en /\ z.bnd = x.bnd
  BY <1>7 DEF FewerUsers
<1>9. /\ Good(y) /\ SameRegs(z, y) /\ (cfg.bridge => y.vlans = z.vlans)
      /\ Follows(x) /\ UsersOk(z) /\ (\A q \in Ports : Apart(z.st[s], q)) => Follows(y)
  BY <1>4, <1>7, <1>8, MapAfterChange
<1>10. FewerUsers(x, y)
  BY <1>7, <1>9 DEF SameRegs, FewerUsers
<1>11. Follows(x) => \A q \in Ports : Apart(z.st[s], q)
  BY <1>7 DEF Follows
<1>12. Follows(x) => UsersOk(z)
  <2>1. \A u \in Streams : /\ z.st[u].vlan = x.st[u].vlan /\ z.st[u].decL = x.st[u].decL
                          /\ x.st[u].userT \subseteq z.st[u].userT
    BY <1>2, <1>7
  <2> QED BY <1>7, <2>1, SimilarUsers DEF Follows
<1> QED BY <1>9, <1>10, <1>11, <1>12 DEF Reduced

LEMMA ReducedReflexive ==
  ASSUME NEW x, Good(x)
  PROVE  Reduced(x, x)
BY DEF Reduced, FewerUsers

LEMMA DeregisterPortKeeps ==
  ASSUME NEW x, Good(x), cfg \in Configs, up \in SUBSET Ports, NEW s \in Streams, NEW p,
         NEW y, y = DeregisterPort(x, s, p)
  PROVE  Good(y) /\ (p \in cfg.ports => Reduced(x, y))
<1>1. x.st[s] \in StreamType
  BY DEF Good, CtxOk, CtxType
<1>2. CASE p \in x.st[s].userT
  <2>1. p \in Ports /\ y = DeregisterTalker(x, s, p)
    BY <1>1, <1>2 DEF StreamType, DeregisterPort
  <2> QED BY <1>2, <2>1, DeregisterTalkerKeeps
<1>3. CASE p \notin x.st[s].userT /\ p \in x.st[s].userL
  <2>1. p \in Ports /\ y = DeregisterListener(x, s, p)
    BY <1>1, <1>3 DEF StreamType, DeregisterPort
  <2> QED BY <1>3, <2>1, DeregisterListenerKeeps DEF Reduced
<1>4. CASE p \notin x.st[s].userT /\ p \notin x.st[s].userL
  <2>1. y = x
    BY <1>4 DEF DeregisterPort
  <2> QED BY <2>1, ReducedReflexive
<1> QED BY <1>2, <1>3, <1>4

LEMMA DeregisterPortsKeeps ==
  ASSUME NEW x, Good(x), cfg \in Configs, up \in SUBSET Ports, NEW s \in Streams,
         NEW y, y = DeregisterPorts(x, s)
  PROVE  Reduced(x, y)
<1> DEFINE V == {z \in CtxType : Good(z)}
           step(z, i) == IF i = 0 THEN x ELSE DeregisterPort(z, s, i)
           G == [i \in Nat |-> [z \in V |-> step(z, i)]]
           walked[i \in Nat] == IF i = 0 THEN x ELSE DeregisterPort(walked[i - 1], s, i)
<1>1. x \in V /\ LastPort \in Nat /\ cfg.ports = 1 .. LastPort
  BY PortsNumbered DEF Good, CtxOk
<1>2. ASSUME NEW i \in Nat, NEW z \in V
      PROVE  step(z, i) \in V /\ (i \in cfg.ports => Reduced(z, step(z, i)))
  <2>1. CASE i = 0
    BY <1>1, <2>1
  <2>2. CASE i # 0
    <3> DEFINE z1 == DeregisterPort(z, s, i)
    <3>1. z1 = DeregisterPort(z, s, i) /\ Good(z)
      OBVIOUS
    <3> HIDE DEF z1
    <3>2. Good(z1) /\ (i \in cfg.ports => Reduced(z, z1))
      BY <3>1, DeregisterPortKeeps
    <3>3. z1 \in V
      BY <3>2 DEF Good, CtxOk
    <3> QED BY <2>2, <3>2, <3>3 DEF z1
  <2> QED BY <2>1, <2>2
<1>3. G \in [Nat -> [V -> V]]
  <2> HIDE DEF step, V
  <2> QED BY <1>2
<1>4. PICK f \in [Nat -> V] : f[0] = x /\ \A i \in Nat : f[i + 1] = G[i + 1][f[i]]
  <2> HIDE DEF V, G, step, walked
  <2>1. PICK f : Iterates(f, V, x, G)
    BY <1>1, <1>3, IterationExists
  <2> QED BY <2>1 DEF Iterates
<1>5. \A i \in Nat : f[i + 1] = step(f[i], i + 1)
  <2> TAKE i \in Nat
  <2>1. i + 1 \in Nat /\ f[i] \in V
    OBVIOUS
  <2> HIDE DEF step, V
  <2> QED BY <1>4, <2>1
<1>6. f = [i \in Nat |-> step(f[i - 1], i)]
  <2>1. ASSUME NEW i \in Nat, i # 0 PROVE f[i] = step(f[i - 1], i)
    <3>1. i - 1 \in Nat /\ (i - 1) + 1 = i
      BY <2>1
    <3>2. f[(i - 1) + 1] = step(f[i - 1], (i - 1) + 1)
      BY <1>5, <3>1
    <3> HIDE DEF step
    <3> QED BY <3>1, <3>2
  <2>2. step(f[0 - 1], 0) = x
    OBVIOUS
  <2> HIDE DEF step, V
  <2> QED BY <1>4, <2>1, <2>2
<1>7. walked = [i \in Nat |-> step(walked[i - 1], i)]
  BY <1>6
<1>8. y = walked[LastPort]
  BY DEF DeregisterPorts
<1> HIDE DEF walked
<1>9. walked[0] = x /\ \A i \in Nat : walked[i + 1] = step(walked[i], i + 1)
  <2>1. walked[0] = x
    BY <1>7
  <2>2. ASSUME NEW i \in Nat PROVE walked[i + 1] = step(walked[i], i + 1)
    <3>1. i + 1 \in Nat /\ (i + 1) - 1 = i
      OBVIOUS
    <3> HIDE DEF step
    <3> QED BY <1>7, <3>1
  <2> QED BY <2>1, <2>2
<1> DEFINE K == [i \in Nat |-> {z \in V : i <= LastPort => Reduced(x, z)}]
<1>10. walked[0] \in K[0]
  BY <1>1, <1>9, ReducedReflexive
<1>11. ASSUME NEW i \in Nat, walked[i] \in K[i] PROVE walked[i + 1] \in K[i + 1]
  <2> HIDE DEF step, V
  <2>1. walked[i] \in V /\ (i <= LastPort => Reduced(x, walked[i])) /\ i + 1 \in Nat
    BY <1>11
  <2>2. walked[i + 1] \in V /\ (i + 1 \in cfg.ports => Reduced(walked[i], walked[i + 1]))
    BY <1>2, <1>9, <2>1
  <2>3. i + 1 <= LastPort => Reduced(x, walked[i + 1])
    <3>1. i + 1 <= LastPort => i <= LastPort /\ i + 1 \in cfg.ports
      BY <1>1
    <3> QED BY <2>1, <2>2, <3>1, ReducedTransitive
  <2> QED BY <2>2, <2>3
<1>12. y \in K[LastPort]
  <2> HIDE DEF K
  <2> QED BY <1>1, <1>8, <1>10, <1>11, IterationKeeps
<1> QED BY <1>1, <1>12

\* The application withdraws everything.
LEMMA DeregisterStreamsKeeps ==
  ASSUME NEW x, Good(x), cfg \in Configs, up \in SUBSET Ports,
         NEW y, y = DeregisterStreams(x)
  PROVE  Reduced(x, y)
<1> DEFINE V == {z \in CtxType : Good(z)}
           step(z, i) == IF i \in DOMAIN x.order THEN DeregisterPorts(z, x.order[i]) ELSE x
           G == [i \in Nat |-> [z \in V |-> step(z, i)]]
           walked[i \in Nat] ==
             IF i \in DOMAIN x.order THEN DeregisterPorts(walked[i - 1], x.order[i]) ELSE x
<1>1. x \in V /\ x.order \in Seq(Streams) /\ DOMAIN x.order = 1 .. Len(x.order) /\ Len(x.order) \in Nat
  BY DEF Good, CtxOk, CtxType
<1>2. ASSUME NEW i \in Nat, NEW z \in V
      PROVE  /\ step(z, i) \in V
             /\ IF i \in DOMAIN x.order THEN Reduced(z, step(z, i)) ELSE step(z, i) = x
  <2>1. CASE i \notin DOMAIN x.order
    BY <1>1, <2>1
  <2>2. CASE i \in DOMAIN x.order
    <3> DEFINE z1 == DeregisterPorts(z, x.order[i])
    <3>1. z1 = DeregisterPorts(z, x.order[i]) /\ Good(z) /\ x.order[i] \in Streams
      BY <1>1, <2>2
    <3> HIDE DEF z1
    <3>2. Reduced(z, z1)
      BY <3>1, DeregisterPortsKeeps
    <3>3. z1 \in V
      BY <3>2 DEF Reduced, Good, CtxOk
    <3> QED BY <2>2, <3>2, <3>3 DEF z1
  <2> QED BY <2>1, <2>2
<1>3. G \in [Nat -> [V -> V]]
  <2> HIDE DEF step, V
  <2> QED BY <1>2
<1>4. PICK f \in [Nat -> V] : f[0] = x /\ \A i \in Nat : f[i + 1] = G[i + 1][f[i]]
  <2> HIDE DEF V, G, step, walked
  <2>1. PICK f : Iterates(f, V, x, G)
    BY <1>1, <1>3, IterationExists
  <2> QED BY <2>1 DEF Iterates
<1>5. \A i \in Nat : f[i + 1] = step(f[i], i + 1)
  <2> TAKE i \in Nat
  <2>1. i + 1 \in Nat /\ f[i] \in V
    OBVIOUS
  <2> HIDE DEF step, V
  <2> QED BY <1>4, <2>1
<1>6. f = [i \in Nat |-> step(f[i - 1], i)]
  <2>1. ASSUME NEW i \in Nat, i # 0 PROVE f[i] = step(f[i - 1], i)
    <3>1. i - 1 \in Nat /\ (i - 1) + 1 = i
      BY <2>1
    <3>2. f[(i - 1) + 1] = step(f[i - 1], (i - 1) + 1)
      BY <1>5, <3>1
    <3> HIDE DEF step
    <3> QED BY <3>1, <3>2
  <2>2. step(f[0 - 1], 0) = x
    BY <1>1
  <2> HIDE DEF step, V
  <2> QED BY <1>4, <2>1, <2>2
<1>7. walked = [i \in Nat |-> step(walked[i - 1], i)]
  BY <1>6
<1>8. y = walked[Len(x.order)]
  BY DEF DeregisterStreams
<1> HIDE DEF walked
<1>9. walked[0] = x /\ \A i \in Nat : walked[i + 1] = step(walked[i], i + 1)
  <2>1. walked[0] = step(walked[0 - 1], 0)
    <3> HIDE DEF step
    <3> QED BY <1>7
  <2>2. step(walked[0 - 1], 0) = x
    BY <1>1
  <2>3. ASSUME NEW i \in Nat PROVE walked[i + 1] = step(walked[i], i + 1)
    <3>1. i + 1 \in Nat /\ (i + 1) - 1 = i
      OBVIOUS
    <3> HIDE DEF step
    <3> QED BY <1>7, <3>1
  <2> QED BY <2>1, <2>2, <2>3
<1> DEFINE K == [i \in Nat |-> {z \in V : Reduced(x, z)}]
<1>10. Reduced(x, x)
  BY ReducedReflexive
<1>11. walked[0] \in K[0]
  BY <1>1, <1>9, <1>10
<1>12. ASSUME NEW i \in Nat, walked[i] \in K[i] PROVE walked[i + 1] \in K[i + 1]
  <2> HIDE DEF step, V
  <2>1. walked[i] \in V /\ Reduced(x, walked[i]) /\ i + 1 \in Nat
    BY <1>12
  <2>2. /\ walked[i + 1] \in V
        /\ IF i + 1 \in DOMAIN x.order THEN Reduced(walked[i], walked[i + 1]) ELSE walked[i + 1] = x
    BY <1>2, <1>9, <2>1
  <2>3. Reduced(x, walked[i + 1])
    BY <1>10, <2>1, <2>2, ReducedTransitive
  <2> QED BY <2>2, <2>3
<1>13. y \in K[Len(x.order)]
  <2> HIDE DEF K
  <2> QED BY <1>1, <1>8, <1>11, <1>12, IterationKeeps
<1> QED BY <1>1, <1>13
-----------------------------------------------------------------------------
(***************************************************************************)
(* From contexts to states.                                                *)
(***************************************************************************)
LEMMA GoodPrime ==
  ASSUME cfg' = cfg, NEW y, Good(y)
  PROVE  Good(y)'
<1>1. ASSUME NEW s, NEW p, PortOk(y, s, p) PROVE PortOk(y, s, p)'
  BY <1>1 DEF PortOk
<1>2. ASSUME NEW p, BandwidthOk(y, p) PROVE BandwidthOk(y, p)'
  BY <1>2 DEF BandwidthOk
<1>3. CtxOk(y)'
  BY <1>1, <1>2 DEF Good, CtxOk
<1>4. ListOk(y)'
  BY DEF Good, ListOk
<1>5. ASSUME NEW s, Mapped(y, s) PROVE Mapped(y, s)'
  <2>1. ASSUME NEW p, TalkerRight(y, s, p) PROVE TalkerRight(y, s, p)'
    BY <2>1 DEF TalkerRight
  <2> QED BY <1>5, <2>1 DEF Mapped
<1> QED BY <1>3, <1>4, <1>5 DEF Good

LEMMA FollowsPrime ==
  ASSUME cfg' = cfg, NEW y, Follows(y)
  PROVE  Follows(y)'
<1>1. ASSUME NEW s, NEW p, ListenerRight(y, s, p) PROVE ListenerRight(y, s, p)'
  BY <1>1 DEF ListenerRight
<1>2. ASSUME NEW s, NEW p, Apart(y.st[s], p) PROVE Apart(y.st[s], p)'
  BY <1>2 DEF Apart
<1>3. UsersOk(y)'
  <2>1. UsersOk(y)
    BY DEF Follows
  <2> QED BY <2>1 DEF UsersOk, OnePort, Counted, Entitled, VlanOk, UsersOf
<1> QED BY <1>1, <1>2, <1>3 DEF Follows

\* A committed context is the next state.
LEMMA CommitIsNext ==
  ASSUME NEW y, y \in CtxType, Commit(y)
  PROVE  Ctx' = y
<1>1. y = [st |-> y.st, order |-> y.order, bw |-> y.bw, mad |-> y.mad, vlans |-> y.vlans,
           up |-> y.up, en |-> y.en, bnd |-> y.bnd]
  BY DEF CtxType
<1>2. Ctx' = [st |-> y.st, order |-> y.order, bw |-> y.bw, mad |-> y.mad, vlans |-> y.vlans,
           up |-> y.up, en |-> y.en, bnd |-> y.bnd]
  BY DEF Ctx, Commit
<1> QED BY <1>1, <1>2

LEMMA CommitKeeps ==
  ASSUME cfg' = cfg, NEW y, Good(y), Commit(y)
  PROVE  Good(Ctx)' /\ (Follows(y) => Follows(Ctx)')
<1>1. y \in CtxType
  BY DEF Good, CtxOk
<1>2. Ctx' = y
  BY <1>1, CommitIsNext
<1>3. Good(y)' /\ (Follows(y) => Follows(y)')
  BY GoodPrime, FollowsPrime
<1> QED BY <1>2, <1>3

\* The context of a state.
LEMMA CtxFields ==
  /\ Ctx.st = streams /\ Ctx.order = order /\ Ctx.bw = bw /\ Ctx.mad = mad
  /\ Ctx.vlans = vlans /\ Ctx.up = up /\ Ctx.en = enabled /\ Ctx.bnd = boundary
BY DEF Ctx

LEMMA GoodTypes ==
  ASSUME Good(Ctx)
  PROVE  /\ streams \in [Streams -> StreamType] /\ order \in Seq(Streams)
         /\ bw \in [Ports -> Nat] /\ mad \in [Ports -> MadType]
         /\ vlans \in [VIDs -> VlanType] /\ up \in SUBSET Ports
         /\ enabled \in SUBSET Ports /\ boundary \in [Ports -> BOOLEAN]
         /\ enabled \subseteq cfg.ports /\ Ctx \in CtxType
         /\ \A s \in Streams : ~Exists(s) => streams[s] = NoStream
<1>1. Ctx \in CtxType /\ Ctx.en \subseteq cfg.ports /\ ListOk(Ctx)
  BY DEF Good, CtxOk
<1>2. /\ Ctx.st \in [Streams -> StreamType] /\ Ctx.order \in Seq(Streams)
      /\ Ctx.bw \in [Ports -> Nat] /\ Ctx.mad \in [Ports -> MadType]
      /\ Ctx.vlans \in [VIDs -> VlanType] /\ Ctx.up \in SUBSET Ports
      /\ Ctx.en \in SUBSET Ports /\ Ctx.bnd \in [Ports -> BOOLEAN]
  BY <1>1 DEF CtxType
<1>3. \A s \in Streams : ~Exists(s) => streams[s] = NoStream
  BY <1>1, CtxFields DEF ListOk, Exists
<1> QED BY <1>1, <1>2, <1>3, CtxFields

\* What is asked of the order of events: a leave is sent before the next event,
\* or the stack sends a leave whenever it replaces a declaration.
Orderly(c) == Prompt \/ c.sendLeave

\* With nothing leaving, every change of registrations keeps what holds.
LEMMA QuietSpec ==
  ASSUME Orderly(cfg), Quiet, NEW u \in Streams, NEW p \in Ports, NEW dir
  PROVE  ~cfg.sendLeave => NotLeaving(Ctx.mad[p], u, dir)
BY CtxFields DEF Quiet, NotLeaving, Orderly

\* The contexts the handlers of one stream start from: the entry of the stream
\* exists.
Entered(c, s) ==
    /\ c \in CtxType /\ Listed(c, s)
    /\ c.st = streams /\ c.bw = bw /\ c.mad = mad /\ c.vlans = vlans
    /\ c.up = up /\ c.en = enabled /\ c.bnd = boundary
    /\ \A u \in Streams : Listed(Ctx, u) => Listed(c, u)

LEMMA ExistingEntered ==
  ASSUME Good(Ctx), NEW s \in Streams, Exists(s)
  PROVE  Entered(Ctx, s)
<1>1. Listed(Ctx, s)
  BY CtxFields DEF Listed, Exists
<1> QED BY <1>1, GoodTypes, CtxFields DEF Entered

LEMMA CreateEntered ==
  ASSUME Good(Ctx), NEW s \in Streams
  PROVE  Entered(Create(Ctx, s), s)
<1>1. CASE Exists(s)
  BY <1>1, ExistingEntered DEF Create
<1>2. CASE ~Exists(s)
  <2> DEFINE o == <<s>> \o order
             c == [Ctx EXCEPT !.order = o]
  <2>1. Create(Ctx, s) = c
    BY <1>2, CtxFields DEF Create, Ctx
  <2>2. order \in Seq(Streams) /\ Ctx \in CtxType
    BY GoodTypes
  <2>3. o \in Seq(Streams) /\ Len(o) = 1 + Len(order) /\ o[1] = s
        /\ \A j \in 1 .. Len(order) : o[j + 1] = order[j]
    <3>1. <<s>> \in Seq(Streams) /\ Len(<<s>>) = 1 /\ <<s>>[1] = s
      OBVIOUS
    <3> DEFINE a == <<s>>
    <3> HIDE DEF a
    <3>2. o = a \o order /\ a \in Seq(Streams) /\ Len(a) = 1 /\ a[1] = s
      BY <3>1 DEF a
    <3>3. /\ o \in Seq(Streams) /\ Len(o) = Len(a) + Len(order)
          /\ \A i \in 1 .. Len(a) + Len(order) : o[i] = IF i <= Len(a) THEN a[i] ELSE order[i - Len(a)]
      <4> HIDE DEF o
      <4> QED BY <2>2, <3>2, ConcatProperties
    <3> HIDE DEF o
    <3>4. Len(order) \in Nat
      BY <2>2
    <3>5. Len(o) = 1 + Len(order) /\ o[1] = s
      BY <3>2, <3>3, <3>4
    <3>6. ASSUME NEW j \in 1 .. Len(order) PROVE o[j + 1] = order[j]
      <4>1. j + 1 \in 1 .. 1 + Len(order) /\ ~(j + 1 <= 1) /\ (j + 1) - 1 = j
        BY <3>4
      <4> QED BY <3>2, <3>3, <4>1
    <3> QED BY <3>3, <3>5, <3>6
  <2> HIDE DEF o
  <2>4. /\ c.order = o /\ c.st = streams /\ c.bw = bw /\ c.mad = mad /\ c.vlans = vlans
        /\ c.up = up /\ c.en = enabled /\ c.bnd = boundary
    BY DEF Ctx
  <2>5. c \in CtxType
    BY <2>2, <2>3 DEF CtxType
  <2> HIDE DEF c
  <2>6. Listed(c, s)
    <3>1. 1 \in DOMAIN o
      BY <2>2, <2>3
    <3> QED BY <2>3, <2>4, <3>1 DEF Listed
  <2>7. ASSUME NEW u \in Streams, Listed(Ctx, u) PROVE Listed(c, u)
    <3>1. PICK j \in DOMAIN order : order[j] = u
      BY <2>7, CtxFields DEF Listed
    <3>2. j \in 1 .. Len(order) /\ j + 1 \in DOMAIN o
      BY <2>2, <2>3
    <3>3. o[j + 1] = u
      BY <2>3, <3>1, <3>2
    <3> QED BY <2>4, <3>2, <3>3 DEF Listed
  <2> QED BY <2>1, <2>4, <2>5, <2>6, <2>7 DEF Entered
<1> QED BY <1>1, <1>2

\* Registrations or requests of one stream changed and the stream was mapped.
LEMMA StreamChanged ==
  ASSUME Good(Ctx), cfg \in Configs, Orderly(cfg), Quiet, NEW s \in Streams,
         NEW c, Entered(c, s), NEW r \in StreamType,
         r.decT = streams[s].decT, r.decL = streams[s].decL,
         r.fqtss = streams[s].fqtss, r.fdb = streams[s].fdb,
         r.vlan = streams[s].vlan, streams[s].userT \subseteq r.userT,
         \A p \in Ports : p \notin enabled => r.tReg[p] = {} /\ r.lReg[p] = {},
         NEW z, z = WithStream(c, s, r),
         NEW y, y = MapUpdateStream(z, s)
  PROVE  /\ Good(y) /\ SameRegs(z, y) /\ (cfg.bridge => y.vlans = vlans)
         /\ z.st[s] = r /\ (\A u \in Streams : u # s => z.st[u] = streams[u])
         /\ Follows(Ctx) /\ (\A p \in Ports : Apart(r, p)) => Follows(y)
<1>1. c \in CtxType
  BY DEF Entered
<1>2. /\ z \in CtxType
      /\ z.order = c.order /\ z.up = c.up /\ z.en = c.en /\ z.bnd = c.bnd /\ z.bw = c.bw
      /\ z.mad = c.mad /\ z.vlans = c.vlans
      /\ \A u \in Streams : u # s => z.st[u] = c.st[u]
      /\ z.st[s] = r
  BY <1>1, SetStreamFields
<1>3. /\ z.up = Ctx.up /\ z.en = Ctx.en /\ z.bnd = Ctx.bnd /\ z.bw = Ctx.bw
      /\ z.mad = Ctx.mad /\ z.vlans = vlans
      /\ \A u \in Streams : u # s => z.st[u] = Ctx.st[u]
  BY <1>2, CtxFields DEF Entered
<1>4. CtxOk(Ctx) /\ ListOk(Ctx) /\ up \in SUBSET Ports
  BY GoodTypes DEF Good
<1>5. CtxOk(z)
  <2>1. Ctx.en \subseteq z.en /\ z.en \subseteq cfg.ports
    BY <1>3, <1>4 DEF CtxOk
  <2>2. \A u \in Streams, q \in Ports :
            q \notin z.en => z.st[u].tReg[q] = {} /\ z.st[u].lReg[q] = {}
    BY <1>2, <1>3, <1>4, CtxFields DEF CtxOk, PortOk
  <2>3. \A u \in Streams, q \in Ports :
            ~cfg.sendLeave => /\ DeclaresTalker(z, u, q) => NotLeaving(Ctx.mad[q], u, "T")
                              /\ DeclaresListener(z, u, q) => NotLeaving(Ctx.mad[q], u, "L")
    BY QuietSpec
  <2>4. \A u \in Streams : /\ z.st[u].decT = Ctx.st[u].decT /\ z.st[u].decL = Ctx.st[u].decL
                           /\ z.st[u].fqtss = Ctx.st[u].fqtss /\ z.st[u].fdb = Ctx.st[u].fdb
    BY <1>2, <1>3, CtxFields
  <2>5. z \in CtxType /\ z.mad = Ctx.mad /\ z.bw = Ctx.bw
    BY <1>2, <1>3
  <2> QED BY <1>4, <2>1, <2>2, <2>3, <2>4, <2>5, ChangeKeeps
<1>6. ListOk(z)
  <2>1. \A u \in Streams : Listed(z, u) <=> Listed(c, u)
    BY <1>2 DEF Listed
  <2> QED BY <1>3, <1>4, <2>1, ListStays DEF Entered
<1>7. /\ Good(y) /\ SameRegs(z, y) /\ (cfg.bridge => y.vlans = z.vlans)
      /\ Follows(Ctx) /\ UsersOk(z) /\ (\A p \in Ports : Apart(z.st[s], p)) => Follows(y)
  BY <1>3, <1>4, <1>5, <1>6, MapAfterChange
<1>8. ASSUME Follows(Ctx) PROVE UsersOk(z)
  <2>1. \A u \in Streams : /\ z.st[u].vlan = Ctx.st[u].vlan /\ z.st[u].decL = Ctx.st[u].decL
                          /\ Ctx.st[u].userT \subseteq z.st[u].userT
    BY <1>2, <1>3, CtxFields
  <2>2. z.vlans = Ctx.vlans /\ UsersOk(Ctx)
    BY <1>3, <1>8, CtxFields DEF Follows
  <2> HIDE DEF Ctx
  <2> QED BY <2>1, <2>2, SimilarUsers
<1> QED BY <1>2, <1>3, <1>7, <1>8, CtxFields
-----------------------------------------------------------------------------
(***************************************************************************)
(* The inductive invariant.  Good(Ctx) is about the declarations and the   *)
(* reservations; the other parts are the status sent to the application,   *)
(* the filter table of a bridge, and the listener declarations and the     *)
(* users of the VLANs, where neighbours do not talk and listen to a stream *)
(* on the same port.                                                       *)
(***************************************************************************)
ToldType == [Streams -> [Ports -> [talker : AllTypes, listener : AllTypes]]]

StatusOf(r, t) ==
    \A p \in Ports : /\ p \in r.userL => t[p].talker = TalkerType(r, p)
                     /\ p \in r.userT => t[p].listener = ListenerType(r, p)

StatusOk == told \in ToldType /\ \A s \in Streams : StatusOf(streams[s], told[s])

TableType == [VIDs -> [present : BOOLEAN, members : SUBSET Ports]]

FilterOk ==
    cfg.bridge => /\ table \in TableType
                  /\ \A v \in VIDs : /\ table[v].members = vlans[v].reg
                                     /\ ~vlans[v].alloc => vlans[v].reg = {}

SidesOf(r, s) ==
    \A p \in Ports : /\ r.tReg[p] # {} => <<s, p>> \in cfg.talkers
                     /\ r.lReg[p] # {} => <<s, p>> \in cfg.listeners

FollowsOk ==
    /\ \A s \in Streams : SidesOf(streams[s], s)
    /\ Separate(cfg) => Follows(Ctx)

Inv == cfg \in Configs /\ Good(Ctx) /\ StatusOk /\ FilterOk /\ FollowsOk

\* Neighbours that keep talkers and listeners apart keep the attributes apart.
LEMMA SidesApart ==
  ASSUME Follows(Ctx), Separate(cfg), NEW s \in Streams, SidesOf(streams[s], s),
         NEW r, SidesOf(r, s), r.decL = streams[s].decL, NEW p \in Ports
  PROVE  Apart(r, p)
<1>1. CASE cfg.sendLeave \/ r.lReg[p] = {}
  BY <1>1 DEF Apart
<1>2. CASE ~cfg.sendLeave /\ r.lReg[p] # {}
  <2>1. <<s, p>> \in cfg.listeners /\ <<s, p>> \notin cfg.talkers
    BY <1>2 DEF SidesOf, Separate
  <2>2. r.tReg[p] = {} /\ streams[s].tReg[p] = {}
    BY <2>1 DEF SidesOf
  <2>3. ListenerRight(Ctx, s, p)
    BY DEF Follows
  <2>4. TalkerType(streams[s], p) # "ADV"
    BY <2>2 DEF TalkerType
  <2>5. streams[s].decL[p] \in {"NONE", "ASK"}
    BY <2>3, <2>4, CtxFields DEF ListenerRight, ListenerDeclaration
  <2> QED BY <2>2, <2>5 DEF Apart
<1> QED BY <1>1, <1>2

LEMMA TypesTyped ==
  ASSUME NEW r, NEW p
  PROVE  TalkerType(r, p) \in AllTypes /\ ListenerType(r, p) \in AllTypes
BY DEF TalkerType, ListenerType, AllTypes, TalkerTypes, ListenerTypes

LEMMA StatusSame ==
  ASSUME NEW r, NEW q, NEW t, StatusOf(r, t), q.tReg = r.tReg, q.lReg = r.lReg,
         q.userT \subseteq r.userT, q.userL \subseteq r.userL
  PROVE  StatusOf(q, t)
<1>1. \A p \in Ports : TalkerType(q, p) = TalkerType(r, p) /\ ListenerType(q, p) = ListenerType(r, p)
  BY DEF TalkerType, ListenerType
<1> QED BY <1>1 DEF StatusOf

LEMMA FilterUnchanged ==
  ASSUME FilterOk, cfg' = cfg, cfg.bridge => vlans' = vlans, table' = TableFree(table, vlans, vlans')
  PROVE  FilterOk'
<1>1. ASSUME cfg.bridge PROVE table' = table
  <2>1. TableFree(table, vlans, vlans') = [v \in VIDs |-> table[v]]
    BY <1>1 DEF TableFree
  <2>2. table \in TableType
    BY <1>1 DEF FilterOk
  <2> QED BY <2>1, <2>2 DEF TableType
<1> QED BY <1>1 DEF FilterOk, TableType

\* What a handler commits.
LEMMA CommitAction ==
  ASSUME Inv, NEW y, Good(y), Commit(y), cfg' = cfg, FilterOk', told' \in ToldType,
         \A u \in Streams : StatusOf(y.st[u], told'[u]) /\ SidesOf(y.st[u], u),
         Separate(cfg) => Follows(y)
  PROVE  Inv'
<1>1. streams' = y.st
  BY DEF Commit
<1>2. Good(Ctx)' /\ (Follows(y) => Follows(Ctx)')
  BY CommitKeeps
<1>3. StatusOk'
  BY <1>1 DEF StatusOk
<1>4. FollowsOk'
  <2>1. \A u \in Streams : SidesOf(y.st[u], u)'
    BY DEF SidesOf
  <2>2. Separate(cfg)' => Follows(Ctx)'
    BY <1>2
  <2> QED BY <1>1, <2>1, <2>2 DEF FollowsOk
<1> QED BY <1>2, <1>3, <1>4 DEF Inv

\* Registrations or requests of one stream changed.
LEMMA StreamAction ==
  ASSUME Inv, Orderly(cfg), Quiet, NEW s \in Streams, NEW c, Entered(c, s), NEW r \in StreamType,
         r.decT = streams[s].decT, r.decL = streams[s].decL,
         r.fqtss = streams[s].fqtss, r.fdb = streams[s].fdb,
         r.vlan = streams[s].vlan, streams[s].userT \subseteq r.userT,
         \A p \in Ports : p \notin enabled => r.tReg[p] = {} /\ r.lReg[p] = {},
         SidesOf(r, s),
         NEW z, z = WithStream(c, s, r),
         NEW x, x = MapUpdateStream(z, s),
         NEW y, Good(x) => Good(y), SameRegs(x, y), cfg.bridge => y.vlans = x.vlans,
         Follows(x) => Follows(y),
         Commit(y), cfg' = cfg,
         told' \in ToldType, StatusOf(r, told'[s]),
         \A u \in Streams : u # s => told'[u] = told[u]
  PROVE  Inv'
<1>1. Good(Ctx) /\ cfg \in Configs /\ StatusOk /\ FilterOk /\ FollowsOk
  BY DEF Inv
<1>2. /\ Good(x) /\ SameRegs(z, x) /\ (cfg.bridge => x.vlans = vlans)
      /\ z.st[s] = r /\ (\A u \in Streams : u # s => z.st[u] = streams[u])
      /\ Follows(Ctx) /\ (\A p \in Ports : Apart(r, p)) => Follows(x)
  BY <1>1, StreamChanged
<1>3. SameRegs(z, y) /\ Good(y)
  BY <1>2, SameRegsTransitive
<1>4. ASSUME NEW u \in Streams PROVE StatusOf(y.st[u], told'[u])
  <2>1. StatusOf(z.st[u], told'[u])
    BY <1>1, <1>2 DEF StatusOk
  <2> QED BY <1>3, <2>1, StatusSame DEF SameRegs
<1>5. FilterOk'
  <2>1. vlans' = y.vlans /\ table' = TableFree(table, vlans, vlans')
    BY DEF Commit
  <2> QED BY <1>1, <1>2, <2>1, FilterUnchanged
<1>6. ASSUME NEW u \in Streams PROVE SidesOf(y.st[u], u)
  <2>1. SidesOf(z.st[u], u)
    BY <1>1, <1>2 DEF FollowsOk
  <2> QED BY <1>3, <2>1 DEF SidesOf, SameRegs
<1>7. Separate(cfg) => Follows(y)
  <2>1. SidesOf(streams[s], s) /\ (Separate(cfg) => Follows(Ctx))
    BY <1>1 DEF FollowsOk
  <2> QED BY <1>2, <2>1, SidesApart
<1> QED BY <1>3, <1>4, <1>5, <1>6, <1>7, CommitAction

\* The application withdrew requests.
LEMMA ReducedAction ==
  ASSUME Inv, NEW y, Reduced(Ctx, y), Commit(y), cfg' = cfg, told' = told
  PROVE  Inv'
<1>1. Good(Ctx) /\ cfg \in Configs /\ StatusOk /\ FilterOk /\ FollowsOk
  BY DEF Inv
<1>2. /\ Good(y) /\ (Follows(Ctx) => Follows(y)) /\ (cfg.bridge => y.vlans = vlans)
      /\ \A u \in Streams :
         /\ y.st[u].tReg = streams[u].tReg /\ y.st[u].lReg = streams[u].lReg
         /\ y.st[u].userT \subseteq streams[u].userT /\ y.st[u].userL \subseteq streams[u].userL
  BY CtxFields DEF Reduced, FewerUsers
<1>3. told' \in ToldType /\ \A u \in Streams : StatusOf(y.st[u], told'[u])
  <2>1. ASSUME NEW u \in Streams PROVE StatusOf(y.st[u], told[u])
    <3>1. StatusOf(streams[u], told[u])
      BY <1>1 DEF StatusOk
    <3> QED BY <1>2, <3>1, StatusSame
  <2> QED BY <1>1, <2>1 DEF StatusOk
<1>4. FilterOk'
  <2>1. vlans' = y.vlans /\ table' = TableFree(table, vlans, vlans')
    BY DEF Commit
  <2> QED BY <1>1, <1>2, <2>1, FilterUnchanged
<1>5. \A u \in Streams : SidesOf(y.st[u], u)
  BY <1>1, <1>2 DEF SidesOf, FollowsOk
<1>6. Separate(cfg) => Follows(y)
  BY <1>1, <1>2 DEF FollowsOk
<1> QED BY <1>2, <1>3, <1>4, <1>5, <1>6, CommitAction

ListenerTold(y, t, r, s, p) ==
    /\ y \in ToldType /\ \A u \in Streams : u # s => y[u] = t[u]
    /\ \A q \in Ports : q # p => y[s][q] = t[s][q]
    /\ y[s][p].listener = t[s][p].listener
    /\ p \in r.userL => y[s][p].talker = TalkerType(r, p)

TalkerTold(y, t, r, s, p) ==
    /\ y \in ToldType /\ \A u \in Streams : u # s => y[u] = t[u]
    /\ \A q \in Ports : q # p => y[s][q] = t[s][q]
    /\ y[s][p].talker = t[s][p].talker
    /\ p \in r.userT => y[s][p].listener = ListenerType(r, p)

LEMMA TellListenerSpec ==
  ASSUME NEW t \in ToldType, NEW r, NEW s \in Streams, NEW p \in Ports,
         NEW y, y = TellListener(t, r, s, p)
  PROVE  ListenerTold(y, t, r, s, p)
<1> DEFINE k == TalkerType(r, p)
           e == [t[s][p] EXCEPT !.talker = k]
           m == [t[s] EXCEPT ![p] = e]
<1>1. k \in AllTypes
  BY TypesTyped
<1>2. CASE cfg.bridge \/ p \in r.userL
  <2> HIDE DEF k
  <2>1. t[s] \in [Ports -> [talker : AllTypes, listener : AllTypes]]
        /\ t[s][p] \in [talker : AllTypes, listener : AllTypes]
    BY DEF ToldType
  <2>2. e \in [talker : AllTypes, listener : AllTypes] /\ e.talker = k /\ e.listener = t[s][p].listener
    BY <1>1, <2>1
  <2>3. y = [t EXCEPT ![s][p].talker = k]
    BY <1>2 DEF TellListener, k
  <2>4. y = [t EXCEPT ![s] = m]
    BY <2>1, <2>3 DEF ToldType
  <2> HIDE DEF e
  <2>5. m \in [Ports -> [talker : AllTypes, listener : AllTypes]] /\ m[p] = e
        /\ \A q \in Ports : q # p => m[q] = t[s][q]
    BY <2>1, <2>2
  <2> HIDE DEF m
  <2>6. y \in ToldType /\ y[s] = m /\ \A u \in Streams : u # s => y[u] = t[u]
    BY <2>4, <2>5 DEF ToldType
  <2> QED BY <2>2, <2>5, <2>6 DEF k, ListenerTold, TalkerTold
<1>3. CASE ~(cfg.bridge \/ p \in r.userL)
  BY <1>3 DEF TellListener, ListenerTold
<1> QED BY <1>2, <1>3

LEMMA TellTalkerSpec ==
  ASSUME NEW t \in ToldType, NEW r, NEW s \in Streams, NEW p \in Ports,
         NEW y, y = TellTalker(t, r, s, p)
  PROVE  TalkerTold(y, t, r, s, p)
<1> DEFINE k == ListenerType(r, p)
           e == [t[s][p] EXCEPT !.listener = k]
           m == [t[s] EXCEPT ![p] = e]
<1>1. k \in AllTypes
  BY TypesTyped
<1>2. CASE cfg.bridge \/ p \in r.userT
  <2> HIDE DEF k
  <2>1. t[s] \in [Ports -> [talker : AllTypes, listener : AllTypes]]
        /\ t[s][p] \in [talker : AllTypes, listener : AllTypes]
    BY DEF ToldType
  <2>2. e \in [talker : AllTypes, listener : AllTypes] /\ e.listener = k /\ e.talker = t[s][p].talker
    BY <1>1, <2>1
  <2>3. y = [t EXCEPT ![s][p].listener = k]
    BY <1>2 DEF TellTalker, k
  <2>4. y = [t EXCEPT ![s] = m]
    BY <2>1, <2>3 DEF ToldType
  <2> HIDE DEF e
  <2>5. m \in [Ports -> [talker : AllTypes, listener : AllTypes]] /\ m[p] = e
        /\ \A q \in Ports : q # p => m[q] = t[s][q]
    BY <2>1, <2>2
  <2> HIDE DEF m
  <2>6. y \in ToldType /\ y[s] = m /\ \A u \in Streams : u # s => y[u] = t[u]
    BY <2>4, <2>5 DEF ToldType
  <2> QED BY <2>2, <2>5, <2>6 DEF k, ListenerTold, TalkerTold
<1>3. CASE ~(cfg.bridge \/ p \in r.userT)
  BY <1>3 DEF TellTalker, TalkerTold
<1> QED BY <1>2, <1>3

\* The talker attributes of stream s on port p became A.
WithTalker(old, p, A) == [old EXCEPT !.tReg[p] = A]
WithListener(old, p, A) == [old EXCEPT !.lReg[p] = A]

LEMMA WithTalkerFields ==
  ASSUME NEW old \in StreamType, NEW p \in Ports, NEW A \in SUBSET TalkerTypes,
         NEW r, r = WithTalker(old, p, A)
  PROVE  /\ r \in StreamType
         /\ r.decT = old.decT /\ r.decL = old.decL /\ r.fqtss = old.fqtss /\ r.fdb = old.fdb
         /\ r.userT = old.userT /\ r.userL = old.userL /\ r.vlan = old.vlan /\ r.lReg = old.lReg
         /\ r.tReg[p] = A /\ \A q \in Ports : q # p => r.tReg[q] = old.tReg[q]
<1> DEFINE f == [old.tReg EXCEPT ![p] = A]
<1>1. old.tReg \in [Ports -> SUBSET TalkerTypes]
  BY DEF StreamType
<1>2. f \in [Ports -> SUBSET TalkerTypes] /\ f[p] = A /\ \A q \in Ports : q # p => f[q] = old.tReg[q]
  BY <1>1
<1>3. r = [old EXCEPT !.tReg = f]
  BY DEF WithTalker, StreamType
<1> HIDE DEF f
<1> QED BY <1>2, <1>3 DEF StreamType

LEMMA WithListenerFields ==
  ASSUME NEW old \in StreamType, NEW p \in Ports, NEW A \in SUBSET ListenerTypes,
         NEW r, r = WithListener(old, p, A)
  PROVE  /\ r \in StreamType
         /\ r.decT = old.decT /\ r.decL = old.decL /\ r.fqtss = old.fqtss /\ r.fdb = old.fdb
         /\ r.userT = old.userT /\ r.userL = old.userL /\ r.vlan = old.vlan /\ r.tReg = old.tReg
         /\ r.lReg[p] = A /\ \A q \in Ports : q # p => r.lReg[q] = old.lReg[q]
<1> DEFINE f == [old.lReg EXCEPT ![p] = A]
<1>1. old.lReg \in [Ports -> SUBSET ListenerTypes]
  BY DEF StreamType
<1>2. f \in [Ports -> SUBSET ListenerTypes] /\ f[p] = A /\ \A q \in Ports : q # p => f[q] = old.lReg[q]
  BY <1>1
<1>3. r = [old EXCEPT !.lReg = f]
  BY DEF WithListener, StreamType
<1> HIDE DEF f
<1> QED BY <1>2, <1>3 DEF StreamType

LEMMA MergeTalkerSpec ==
  ASSUME NEW t \in ToldType, NEW old, NEW r, NEW s \in Streams, NEW p \in Ports,
         StatusOf(old, t[s]), r.userT = old.userT, r.userL = old.userL, r.lReg = old.lReg,
         \A q \in Ports : q # p => r.tReg[q] = old.tReg[q],
         NEW y, y = MergeTalker(t, old, r, s, p)
  PROVE  y \in ToldType /\ StatusOf(r, y[s]) /\ \A u \in Streams : u # s => y[u] = t[u]
<1>1. \A q \in Ports : ListenerType(r, q) = ListenerType(old, q)
  BY DEF ListenerType
<1>2. \A q \in Ports : q # p => TalkerType(r, q) = TalkerType(old, q)
  BY DEF TalkerType
<1>3. CASE r.tReg[p] = {} \/ TalkerType(r, p) # TalkerType(old, p)
  <2>1. y = TellListener(t, r, s, p)
    BY <1>3 DEF MergeTalker
  <2>2. ListenerTold(y, t, r, s, p)
    BY <2>1, TellListenerSpec
  <2> QED BY <1>1, <1>2, <2>2 DEF StatusOf, ListenerTold, TalkerTold
<1>4. CASE ~(r.tReg[p] = {} \/ TalkerType(r, p) # TalkerType(old, p))
  <2>1. y = t
    BY <1>4 DEF MergeTalker
  <2> QED BY <1>1, <1>2, <1>4, <2>1 DEF StatusOf
<1> QED BY <1>3, <1>4

LEMMA MergeListenerSpec ==
  ASSUME NEW t \in ToldType, NEW old, NEW r, NEW s \in Streams, NEW p \in Ports,
         StatusOf(old, t[s]), r.userT = old.userT, r.userL = old.userL, r.tReg = old.tReg,
         \A q \in Ports : q # p => r.lReg[q] = old.lReg[q],
         NEW y, y = MergeListener(t, old, r, s, p)
  PROVE  y \in ToldType /\ StatusOf(r, y[s]) /\ \A u \in Streams : u # s => y[u] = t[u]
<1>1. \A q \in Ports : TalkerType(r, q) = TalkerType(old, q)
  BY DEF TalkerType
<1>2. \A q \in Ports : q # p => ListenerType(r, q) = ListenerType(old, q)
  BY DEF ListenerType
<1>3. CASE r.lReg[p] = {} \/ ListenerType(r, p) # ListenerType(old, p)
  <2>1. y = TellTalker(t, r, s, p)
    BY <1>3 DEF MergeListener
  <2>2. TalkerTold(y, t, r, s, p)
    BY <2>1, TellTalkerSpec
  <2> QED BY <1>1, <1>2, <2>2 DEF StatusOf, ListenerTold, TalkerTold
<1>4. CASE ~(r.lReg[p] = {} \/ ListenerType(r, p) # ListenerType(old, p))
  <2>1. y = t
    BY <1>4 DEF MergeListener
  <2> QED BY <1>1, <1>2, <1>4, <2>1 DEF StatusOf
<1> QED BY <1>3, <1>4
LEMMA InvParts ==
  ASSUME Inv
  PROVE  /\ cfg \in Configs /\ Good(Ctx) /\ told \in ToldType /\ cfg.ports \subseteq Ports
         /\ cfg.tTypes \subseteq TalkerTypes /\ cfg.lTypes \subseteq ListenerTypes
         /\ \A s \in Streams : /\ StatusOf(streams[s], told[s]) /\ SidesOf(streams[s], s)
                               /\ streams[s] \in StreamType
                               /\ \A p \in Ports : p \notin enabled =>
                                     streams[s].tReg[p] = {} /\ streams[s].lReg[p] = {}
<1>1. cfg \in Configs /\ Good(Ctx) /\ told \in ToldType
  BY DEF Inv, StatusOk
<1>2. /\ cfg.ports \subseteq Ports
      /\ cfg.tTypes \subseteq TalkerTypes /\ cfg.lTypes \subseteq ListenerTypes
  BY <1>1, MSRPAssumption
<1>3. \A s \in Streams, p \in Ports : PortOk(Ctx, s, p)
  BY <1>1 DEF Good, CtxOk
<1>4. \A s \in Streams, p \in Ports :
        p \notin enabled => streams[s].tReg[p] = {} /\ streams[s].lReg[p] = {}
  BY <1>3, CtxFields DEF PortOk
<1>5. \A s \in Streams : /\ StatusOf(streams[s], told[s]) /\ SidesOf(streams[s], s)
                         /\ streams[s] \in StreamType
  BY <1>1, GoodTypes DEF Inv, StatusOk, FollowsOk
<1> QED BY <1>1, <1>2, <1>4, <1>5

\* The talker attributes of a port changed.
LEMMA TalkerChange ==
  ASSUME Inv, Orderly(cfg), Quiet, NEW s \in Streams, NEW p \in Ports, NEW c, Entered(c, s),
         NEW A \in SUBSET TalkerTypes, A # {} => p \in enabled /\ <<s, p>> \in cfg.talkers,
         NEW r, r = WithTalker(streams[s], p, A),
         NEW z, z = WithStream(c, s, r),
         NEW y, y = MapUpdateStream(z, s), Commit(y), cfg' = cfg,
         told' = MergeTalker(told, streams[s], r, s, p)
  PROVE  Inv'
<1> DEFINE old == streams[s]
<1>1. /\ old \in StreamType /\ told \in ToldType /\ StatusOf(old, told[s]) /\ SidesOf(old, s)
      /\ \A q \in Ports : q \notin enabled => old.tReg[q] = {} /\ old.lReg[q] = {}
  BY InvParts
<1>2. /\ r \in StreamType
      /\ r.decT = old.decT /\ r.decL = old.decL /\ r.fqtss = old.fqtss /\ r.fdb = old.fdb
      /\ r.userT = old.userT /\ r.userL = old.userL /\ r.vlan = old.vlan /\ r.lReg = old.lReg
      /\ r.tReg[p] = A /\ \A q \in Ports : q # p => r.tReg[q] = old.tReg[q]
  BY <1>1, WithTalkerFields
<1> HIDE DEF old
<1>3. \A q \in Ports : q \notin enabled => r.tReg[q] = {} /\ r.lReg[q] = {}
  BY <1>1, <1>2
<1>4. SidesOf(r, s)
  BY <1>1, <1>2 DEF SidesOf
<1>5. told' \in ToldType /\ StatusOf(r, told'[s]) /\ \A u \in Streams : u # s => told'[u] = told[u]
  <2> DEFINE t == told'
  <2>1. t = MergeTalker(told, old, r, s, p)
    BY DEF old
  <2>2. /\ r.userT = old.userT /\ r.userL = old.userL /\ r.lReg = old.lReg
        /\ told \in ToldType /\ StatusOf(old, told[s])
    BY <1>1, <1>2
  <2>3. \A q \in Ports : q # p => r.tReg[q] = old.tReg[q]
    BY <1>2
  <2> HIDE DEF t
  <2>4. t \in ToldType /\ StatusOf(r, t[s]) /\ \A u \in Streams : u # s => t[u] = told[u]
    BY <2>1, <2>2, <2>3, MergeTalkerSpec
  <2> QED BY <2>4 DEF t
<1>6. SameRegs(y, y) /\ old.userT \subseteq r.userT
  BY <1>2 DEF SameRegs
<1> QED BY <1>2, <1>3, <1>4, <1>5, <1>6, StreamAction DEF old

LEMMA ListenerChange ==
  ASSUME Inv, Orderly(cfg), Quiet, NEW s \in Streams, NEW p \in Ports, NEW c, Entered(c, s),
         NEW A \in SUBSET ListenerTypes, A # {} => p \in enabled /\ <<s, p>> \in cfg.listeners,
         NEW r, r = WithListener(streams[s], p, A),
         NEW z, z = WithStream(c, s, r),
         NEW y, y = MapUpdateStream(z, s), Commit(y), cfg' = cfg,
         told' = MergeListener(told, streams[s], r, s, p)
  PROVE  Inv'
<1> DEFINE old == streams[s]
<1>1. /\ old \in StreamType /\ told \in ToldType /\ StatusOf(old, told[s]) /\ SidesOf(old, s)
      /\ \A q \in Ports : q \notin enabled => old.tReg[q] = {} /\ old.lReg[q] = {}
  BY InvParts
<1>2. /\ r \in StreamType
      /\ r.decT = old.decT /\ r.decL = old.decL /\ r.fqtss = old.fqtss /\ r.fdb = old.fdb
      /\ r.userT = old.userT /\ r.userL = old.userL /\ r.vlan = old.vlan /\ r.tReg = old.tReg
      /\ r.lReg[p] = A /\ \A q \in Ports : q # p => r.lReg[q] = old.lReg[q]
  BY <1>1, WithListenerFields
<1> HIDE DEF old
<1>3. \A q \in Ports : q \notin enabled => r.tReg[q] = {} /\ r.lReg[q] = {}
  BY <1>1, <1>2
<1>4. SidesOf(r, s)
  BY <1>1, <1>2 DEF SidesOf
<1>5. told' \in ToldType /\ StatusOf(r, told'[s]) /\ \A u \in Streams : u # s => told'[u] = told[u]
  <2> DEFINE t == told'
  <2>1. t = MergeListener(told, old, r, s, p)
    BY DEF old
  <2>2. /\ r.userT = old.userT /\ r.userL = old.userL /\ r.tReg = old.tReg
        /\ told \in ToldType /\ StatusOf(old, told[s])
    BY <1>1, <1>2
  <2>3. \A q \in Ports : q # p => r.lReg[q] = old.lReg[q]
    BY <1>2
  <2> HIDE DEF t
  <2>4. t \in ToldType /\ StatusOf(r, t[s]) /\ \A u \in Streams : u # s => t[u] = told[u]
    BY <2>1, <2>2, <2>3, MergeListenerSpec
  <2> QED BY <2>4 DEF t
<1>6. SameRegs(y, y) /\ old.userT \subseteq r.userT
  BY <1>2 DEF SameRegs
<1> QED BY <1>2, <1>3, <1>4, <1>5, <1>6, StreamAction DEF old

LEMMA TalkerJoinStep ==
  ASSUME Inv, Orderly(cfg), NEW p \in cfg.ports, NEW s \in Streams, NEW t \in cfg.tTypes, NEW new \in BOOLEAN,
         TalkerJoin(p, s, t, new)
  PROVE  Inv'
<1> DEFINE A == IF new THEN streams[s].tReg[p] \cup {t} ELSE {t}
           r == WithTalker(streams[s], p, A)
           c == Create(Ctx, s)
           z == WithStream(c, s, r)
           y == MapUpdateStream(z, s)
<1>1. p \in Ports /\ t \in TalkerTypes /\ streams[s] \in StreamType /\ Good(Ctx)
  BY InvParts
<1>2. A \in SUBSET TalkerTypes
  BY <1>1 DEF StreamType
<1>3. r = [streams[s] EXCEPT !.tReg[p] = IF new THEN @ \cup {t} ELSE {t}]
  BY <1>1 DEF WithTalker, StreamType
<1>4. /\ Quiet /\ p \in enabled /\ <<s, p>> \in cfg.talkers
      /\ Commit(MapUpdateStream([Create(Ctx, s) EXCEPT !.st[s] = r], s))
      /\ told' = MergeTalker(told, streams[s], r, s, p) /\ cfg' = cfg
  BY <1>3 DEF TalkerJoin, Receives, unchangedRest
<1>5. Commit(y)
  BY <1>4 DEF WithStream
<1>6. Entered(c, s)
  BY <1>1, CreateEntered
<1>7. r = WithTalker(streams[s], p, A) /\ z = WithStream(c, s, r) /\ y = MapUpdateStream(z, s)
  OBVIOUS
<1> HIDE DEF A, r, c, z, y
<1> QED BY <1>1, <1>2, <1>4, <1>5, <1>6, <1>7, TalkerChange

LEMMA TalkerLeaveStep ==
  ASSUME Inv, Orderly(cfg), NEW p \in cfg.ports, NEW s \in Streams, NEW t \in cfg.tTypes,
         TalkerLeave(p, s, t)
  PROVE  Inv'
<1> DEFINE A == streams[s].tReg[p] \ {t}
           r == WithTalker(streams[s], p, A)
           c == Ctx
           z == WithStream(c, s, r)
           y == MapUpdateStream(z, s)
<1>1. /\ p \in Ports /\ streams[s] \in StreamType /\ Good(Ctx)
      /\ SidesOf(streams[s], s)
      /\ \A q \in Ports : q \notin enabled => streams[s].tReg[q] = {} /\ streams[s].lReg[q] = {}
  BY InvParts
<1>2. A \in SUBSET TalkerTypes
  BY <1>1 DEF StreamType
<1>3. r = [streams[s] EXCEPT !.tReg[p] = @ \ {t}]
  BY <1>1 DEF WithTalker, StreamType
<1>4. /\ Quiet /\ t \in streams[s].tReg[p]
      /\ Commit(MapUpdateStream([Ctx EXCEPT !.st[s] = r], s))
      /\ told' = MergeTalker(told, streams[s], r, s, p) /\ cfg' = cfg
  BY <1>3 DEF TalkerLeave, unchangedRest
<1>5. Commit(y)
  BY <1>4 DEF WithStream
<1>6. p \in enabled /\ <<s, p>> \in cfg.talkers /\ Exists(s)
  <2>1. streams[s] # NoStream
    BY <1>1, <1>4 DEF NoStream
  <2> QED BY <1>1, <1>4, <2>1, GoodTypes DEF SidesOf
<1>7. Entered(c, s)
  BY <1>1, <1>6, ExistingEntered
<1>8. r = WithTalker(streams[s], p, A) /\ z = WithStream(c, s, r) /\ y = MapUpdateStream(z, s)
  OBVIOUS
<1> HIDE DEF A, r, c, z, y
<1> QED BY <1>1, <1>2, <1>4, <1>5, <1>6, <1>7, <1>8, TalkerChange

LEMMA ListenerJoinStep ==
  ASSUME Inv, Orderly(cfg), NEW p \in cfg.ports, NEW s \in Streams, NEW t \in cfg.lTypes, NEW new \in BOOLEAN,
         ListenerJoin(p, s, t, new)
  PROVE  Inv'
<1> DEFINE A == IF new THEN streams[s].lReg[p] \cup {t} ELSE {t}
           r == WithListener(streams[s], p, A)
           c == Create(Ctx, s)
           z == WithStream(c, s, r)
           y == MapUpdateStream(z, s)
<1>1. p \in Ports /\ t \in ListenerTypes /\ streams[s] \in StreamType /\ Good(Ctx)
  BY InvParts
<1>2. A \in SUBSET ListenerTypes
  BY <1>1 DEF StreamType
<1>3. r = [streams[s] EXCEPT !.lReg[p] = IF new THEN @ \cup {t} ELSE {t}]
  BY <1>1 DEF WithListener, StreamType
<1>4. /\ Quiet /\ p \in enabled /\ <<s, p>> \in cfg.listeners
      /\ Commit(MapUpdateStream([Create(Ctx, s) EXCEPT !.st[s] = r], s))
      /\ told' = MergeListener(told, streams[s], r, s, p) /\ cfg' = cfg
  BY <1>3 DEF ListenerJoin, Receives, unchangedRest
<1>5. Commit(y)
  BY <1>4 DEF WithStream
<1>6. Entered(c, s)
  BY <1>1, CreateEntered
<1>7. r = WithListener(streams[s], p, A) /\ z = WithStream(c, s, r) /\ y = MapUpdateStream(z, s)
  OBVIOUS
<1> HIDE DEF A, r, c, z, y
<1> QED BY <1>1, <1>2, <1>4, <1>5, <1>6, <1>7, ListenerChange

LEMMA ListenerLeaveStep ==
  ASSUME Inv, Orderly(cfg), NEW p \in cfg.ports, NEW s \in Streams, NEW t \in cfg.lTypes,
         ListenerLeave(p, s, t)
  PROVE  Inv'
<1> DEFINE A == streams[s].lReg[p] \ {t}
           r == WithListener(streams[s], p, A)
           c == Ctx
           z == WithStream(c, s, r)
           y == MapUpdateStream(z, s)
<1>1. /\ p \in Ports /\ streams[s] \in StreamType /\ Good(Ctx)
      /\ SidesOf(streams[s], s)
      /\ \A q \in Ports : q \notin enabled => streams[s].tReg[q] = {} /\ streams[s].lReg[q] = {}
  BY InvParts
<1>2. A \in SUBSET ListenerTypes
  BY <1>1 DEF StreamType
<1>3. r = [streams[s] EXCEPT !.lReg[p] = @ \ {t}]
  BY <1>1 DEF WithListener, StreamType
<1>4. /\ Quiet /\ t \in streams[s].lReg[p]
      /\ Commit(MapUpdateStream([Ctx EXCEPT !.st[s] = r], s))
      /\ told' = MergeListener(told, streams[s], r, s, p) /\ cfg' = cfg
  BY <1>3 DEF ListenerLeave, unchangedRest
<1>5. Commit(y)
  BY <1>4 DEF WithStream
<1>6. p \in enabled /\ <<s, p>> \in cfg.listeners /\ Exists(s)
  <2>1. streams[s] # NoStream
    BY <1>1, <1>4 DEF NoStream
  <2> QED BY <1>1, <1>4, <2>1, GoodTypes DEF SidesOf
<1>7. Entered(c, s)
  BY <1>1, <1>6, ExistingEntered
<1>8. r = WithListener(streams[s], p, A) /\ z = WithStream(c, s, r) /\ y = MapUpdateStream(z, s)
  OBVIOUS
<1> HIDE DEF A, r, c, z, y
<1> QED BY <1>1, <1>2, <1>4, <1>5, <1>6, <1>7, <1>8, ListenerChange
\* The application requests a stream.
LEMMA RegisterAttachStep ==
  ASSUME Inv, Orderly(cfg), NEW p \in cfg.ports, NEW s \in Streams, RegisterAttach(p, s)
  PROVE  Inv'
<1> DEFINE old == streams[s]
           r == [old EXCEPT !.userL = @ \cup {p}]
           c == Create(Ctx, s)
           z == WithStream(c, s, r)
           y == MapUpdateStream(z, s)
<1>1. /\ p \in Ports /\ old \in StreamType /\ Good(Ctx) /\ told \in ToldType
      /\ StatusOf(old, told[s]) /\ SidesOf(old, s)
      /\ \A q \in Ports : q \notin enabled => old.tReg[q] = {} /\ old.lReg[q] = {}
  BY InvParts
<1>2. /\ r \in StreamType
      /\ r.decT = old.decT /\ r.decL = old.decL /\ r.fqtss = old.fqtss /\ r.fdb = old.fdb
      /\ r.userT = old.userT /\ r.userL = old.userL \cup {p}
      /\ r.tReg = old.tReg /\ r.lReg = old.lReg /\ r.vlan = old.vlan
  BY <1>1 DEF StreamType
<1>3. /\ Quiet /\ told' = TellListener(told, r, s, p) /\ cfg' = cfg
      /\ Commit(MapUpdateStream([Create(Ctx, s) EXCEPT !.st[s] = r], s))
  BY DEF RegisterAttach, unchangedRest
<1>4. Commit(y)
  BY <1>3 DEF WithStream
<1>5. Entered(c, s)
  BY <1>1, CreateEntered
<1>6. z = WithStream(c, s, r) /\ y = MapUpdateStream(z, s) /\ old = streams[s]
  OBVIOUS
<1> HIDE DEF old, r, c, z, y
<1>7. \A q \in Ports : TalkerType(r, q) = TalkerType(old, q) /\ ListenerType(r, q) = ListenerType(old, q)
  BY <1>2 DEF TalkerType, ListenerType
<1>8. told' \in ToldType /\ StatusOf(r, told'[s]) /\ \A u \in Streams : u # s => told'[u] = told[u]
  <2> DEFINE t == told'
  <2>1. t = TellListener(told, r, s, p)
    BY <1>3
  <2> HIDE DEF t
  <2>2. ListenerTold(t, told, r, s, p)
    BY <1>1, <2>1, TellListenerSpec
  <2>3. StatusOf(r, t[s])
    BY <1>1, <1>2, <1>7, <2>2 DEF StatusOf, ListenerTold
  <2> QED BY <2>2, <2>3 DEF t, ListenerTold
<1>9. SidesOf(r, s) /\ SameRegs(y, y) /\ old.userT \subseteq r.userT
  BY <1>1, <1>2 DEF SidesOf, SameRegs
<1>10. \A q \in Ports : q \notin enabled => r.tReg[q] = {} /\ r.lReg[q] = {}
  BY <1>1, <1>2
<1> QED BY <1>2, <1>3, <1>4, <1>5, <1>6, <1>8, <1>9, <1>10, StreamAction

LEMMA RegisterStreamStep ==
  ASSUME Inv, Orderly(cfg), NEW p \in cfg.ports, NEW s \in Streams, RegisterStream(p, s)
  PROVE  Inv'
<1> DEFINE old == streams[s]
           r == [old EXCEPT !.userT = @ \cup {p}]
           c == Create(Ctx, s)
           z == WithStream(c, s, r)
           x == MapUpdateStream(z, s)
           on == TRUE
           y == EndpointVlan(x, s, p, on)
<1>1. /\ p \in Ports /\ old \in StreamType /\ Good(Ctx) /\ told \in ToldType /\ cfg \in Configs
      /\ StatusOf(old, told[s]) /\ SidesOf(old, s)
      /\ \A q \in Ports : q \notin enabled => old.tReg[q] = {} /\ old.lReg[q] = {}
  BY InvParts
<1>2. /\ r \in StreamType
      /\ r.decT = old.decT /\ r.decL = old.decL /\ r.fqtss = old.fqtss /\ r.fdb = old.fdb
      /\ r.userL = old.userL /\ r.userT = old.userT \cup {p}
      /\ r.tReg = old.tReg /\ r.lReg = old.lReg /\ r.vlan = old.vlan
  BY <1>1 DEF StreamType
<1>3. /\ Quiet /\ told' = TellTalker(told, r, s, p) /\ cfg' = cfg
      /\ Commit(EndpointVlan(MapUpdateStream([Create(Ctx, s) EXCEPT !.st[s] = r], s), s, p, TRUE))
  BY DEF RegisterStream, unchangedRest
<1>4. Commit(y)
  BY <1>3 DEF WithStream
<1>5. Entered(c, s)
  BY <1>1, CreateEntered
<1>6. /\ z = WithStream(c, s, r) /\ x = MapUpdateStream(z, s) /\ old = streams[s]
      /\ y = EndpointVlan(x, s, p, on)
  OBVIOUS
<1> HIDE DEF old, r, c, z, x, y, on
<1>7. \A q \in Ports : TalkerType(r, q) = TalkerType(old, q) /\ ListenerType(r, q) = ListenerType(old, q)
  BY <1>2 DEF TalkerType, ListenerType
<1>8. told' \in ToldType /\ StatusOf(r, told'[s]) /\ \A u \in Streams : u # s => told'[u] = told[u]
  <2> DEFINE t == told'
  <2>1. t = TellTalker(told, r, s, p)
    BY <1>3
  <2> HIDE DEF t
  <2>2. TalkerTold(t, told, r, s, p)
    BY <1>1, <2>1, TellTalkerSpec
  <2>3. StatusOf(r, t[s])
    BY <1>1, <1>2, <1>7, <2>2 DEF StatusOf, TalkerTold
  <2> QED BY <2>2, <2>3 DEF t, TalkerTold
<1>9. SidesOf(r, s) /\ old.userT \subseteq r.userT
  BY <1>1, <1>2 DEF SidesOf
<1>10. \A q \in Ports : q \notin enabled => r.tReg[q] = {} /\ r.lReg[q] = {}
  BY <1>1, <1>2
<1>11. Good(x) /\ SameRegs(z, x) /\ z.st[s] = r
  BY <1>1, <1>2, <1>3, <1>5, <1>6, <1>9, <1>10, StreamChanged
<1>12. Listed(x, s)
  <2>1. p \in x.st[s].userT /\ ListOk(x)
    BY <1>2, <1>11 DEF SameRegs, Good
  <2> QED BY <1>1, <2>1, UsedIsListed
<1>13. up \in SUBSET Ports /\ CtxOk(x)
  BY <1>1, <1>11, GoodTypes DEF Good
<1>14. /\ SameRegs(x, y) /\ (cfg.bridge => y = x) /\ Good(y) /\ (Follows(x) /\ UsersOk(y) => Follows(y))
  BY <1>1, <1>6, <1>11, <1>12, <1>13, EndpointVlanKeeps
<1>15. ASSUME Follows(x) PROVE UsersOk(y)
  <2> SUFFICES ASSUME OnePort(cfg) PROVE UsersOk(y)
    BY DEF UsersOk
  <2>1. Counted(x) /\ \A u \in Streams : u # s => Entitled(x, u)
    BY <1>15 DEF Follows, UsersOk
  <2>2. x \in CtxType /\ on \in BOOLEAN /\ (on => p \in x.st[s].userT)
    BY <1>2, <1>11, <1>13 DEF SameRegs, CtxOk, on
  <2> QED BY <1>1, <1>6, <1>13, <2>1, <2>2, EndpointVlanUsers
<1> QED BY <1>2, <1>3, <1>4, <1>5, <1>6, <1>8, <1>9, <1>10, <1>14, <1>15, StreamAction

LEMMA DeregisterSteps ==
  ASSUME Inv, NEW p \in cfg.ports, NEW s \in Streams,
         DeregisterStream(p, s) \/ DeregisterAttach(p, s)
  PROVE  Inv'
<1>1. p \in Ports /\ Good(Ctx) /\ cfg \in Configs /\ up \in SUBSET Ports /\ Ctx.st = streams
  BY InvParts, GoodTypes, CtxFields
<1>2. CASE DeregisterStream(p, s)
  <2> DEFINE y == DeregisterTalker(Ctx, s, p)
  <2>1. Commit(y) /\ told' = told /\ cfg' = cfg /\ p \in Ctx.st[s].userT
    BY <1>1, <1>2 DEF DeregisterStream, unchangedRest
  <2>2. y = DeregisterTalker(Ctx, s, p)
    OBVIOUS
  <2> HIDE DEF y
  <2>3. Reduced(Ctx, y)
    BY <1>1, <2>1, <2>2, DeregisterTalkerKeeps
  <2> QED BY <2>1, <2>3, ReducedAction
<1>3. CASE DeregisterAttach(p, s)
  <2> DEFINE y == DeregisterListener(Ctx, s, p)
  <2>1. Commit(y) /\ told' = told /\ cfg' = cfg /\ p \in Ctx.st[s].userL
    BY <1>1, <1>3 DEF DeregisterAttach, unchangedRest
  <2>2. y = DeregisterListener(Ctx, s, p)
    OBVIOUS
  <2> HIDE DEF y
  <2>3. Reduced(Ctx, y)
    BY <1>1, <2>1, <2>2, DeregisterListenerKeeps
  <2> QED BY <2>1, <2>3, ReducedAction
<1> QED BY <1>2, <1>3

LEMMA DeregisterAllStep ==
  ASSUME Inv, DeregisterAll
  PROVE  Inv'
<1> DEFINE y == DeregisterStreams(Ctx)
<1>1. Good(Ctx) /\ cfg \in Configs /\ up \in SUBSET Ports
  BY InvParts, GoodTypes
<1>2. Commit(y) /\ told' = told /\ cfg' = cfg /\ y = DeregisterStreams(Ctx)
  BY DEF DeregisterAll, unchangedRest
<1> HIDE DEF y
<1>3. Reduced(Ctx, y)
  BY <1>1, <1>2, DeregisterStreamsKeeps
<1> QED BY <1>2, <1>3, ReducedAction
-----------------------------------------------------------------------------
(***************************************************************************)
(* The actions that map every stream.                                      *)
(***************************************************************************)
SameEntries(x, y) ==
    \A u \in Streams : /\ y.st[u].tReg = x.st[u].tReg /\ y.st[u].lReg = x.st[u].lReg
                       /\ y.st[u].userT = x.st[u].userT /\ y.st[u].userL = x.st[u].userL

\* msrp_map_update, from any context that is in order.
LEMMA MapAll ==
  ASSUME NEW x, CtxOk(x), ListOk(x), cfg \in Configs, up \in SUBSET Ports, NEW y, y = MapUpdate(x)
  PROVE  /\ Good(y) /\ SameEntries(x, y) /\ y.up = x.up /\ y.en = x.en /\ y.bnd = x.bnd
         /\ cfg.bridge => y.vlans = x.vlans
         /\ Prepared(x) => Prepared(y) /\ Follows(y)
<1>1. WalkOk(x, y, Streams)
  BY MapUpdateKeeps
<1>2. Good(y) /\ SameRegs(x, y) /\ (cfg.bridge => y.vlans = x.vlans)
  BY <1>1 DEF WalkOk, Good
<1>3. Prepared(x) => Prepared(y) /\ Follows(y)
  BY <1>1 DEF WalkOk, Prepared, Follows
<1> QED BY <1>2, <1>3 DEF SameRegs, SameEntries

WithBoundary(x, p, b) == [x EXCEPT !.bnd[p] = b]

LEMMA BoundaryFields ==
  ASSUME NEW x, CtxOk(x), NEW p \in Ports, NEW b \in BOOLEAN, NEW y, y = WithBoundary(x, p, b)
  PROVE  /\ CtxOk(y) /\ (ListOk(x) => ListOk(y)) /\ y.st = x.st /\ y.up = x.up /\ y.en = x.en
         /\ y.vlans = x.vlans
<1> DEFINE f == [x.bnd EXCEPT ![p] = b]
<1>1. x \in CtxType /\ x.bnd \in [Ports -> BOOLEAN] /\ x.en \subseteq cfg.ports
  BY DEF CtxOk, CtxType
<1>2. f \in [Ports -> BOOLEAN]
  BY <1>1
<1>3. y = [x EXCEPT !.bnd = f]
  BY <1>1 DEF WithBoundary, CtxType
<1> HIDE DEF f
<1>4. /\ y \in CtxType /\ y.st = x.st /\ y.order = x.order /\ y.up = x.up /\ y.en = x.en
      /\ y.bw = x.bw /\ y.mad = x.mad /\ y.vlans = x.vlans
  BY <1>1, <1>2, <1>3 DEF CtxType
<1>5. ASSUME NEW u \in Streams, NEW q \in Ports PROVE PortOk(y, u, q)
  <2>1. PortOk(x, u, q)
    BY DEF CtxOk
  <2>2. /\ DeclaresTalker(y, u, q) <=> DeclaresTalker(x, u, q)
        /\ DeclaresListener(y, u, q) <=> DeclaresListener(x, u, q)
    BY <1>4 DEF DeclaresTalker, DeclaresListener
  <2> QED BY <1>4, <2>1, <2>2 DEF PortOk
<1>6. ASSUME NEW q \in Ports PROVE BandwidthOk(y, q)
  <2>1. BandwidthOk(x, q) /\ Holders(y, q) = Holders(x, q)
    BY <1>4 DEF CtxOk, Holders
  <2> QED BY <1>4, <2>1 DEF BandwidthOk
<1>7. CtxOk(y)
  BY <1>1, <1>4, <1>5, <1>6 DEF CtxOk
<1>8. ListOk(x) => ListOk(y)
  BY <1>4 DEF ListOk
<1> QED BY <1>4, <1>7, <1>8

\* A port becomes an SR domain boundary, or ceases to be one.
LEMMA BoundaryKeeps ==
  ASSUME NEW x, CtxOk(x), ListOk(x), cfg \in Configs, up \in SUBSET Ports, NEW p \in Ports, NEW d,
         NEW y, y = UpdateBoundary(x, p, d)
  PROVE  /\ CtxOk(y) /\ ListOk(y) /\ SameEntries(x, y) /\ y.up = x.up /\ y.en = x.en
         /\ cfg.bridge => y.vlans = x.vlans
         /\ Prepared(x) => Prepared(y)
         /\ Good(x) => Good(y)
         /\ Prepared(x) /\ Follows(x) => Follows(y)
<1> DEFINE b == IsBoundary(d)
<1>1. b \in BOOLEAN
  BY DEF IsBoundary
<1>2. CASE x.bnd[p] = b
  <2>1. y = x
    BY <1>2 DEF UpdateBoundary
  <2> QED BY <2>1 DEF SameEntries
<1>3. CASE x.bnd[p] # b
  <2> DEFINE z == WithBoundary(x, p, b)
  <2>1. y = MapUpdate(z)
    BY <1>3 DEF UpdateBoundary, WithBoundary
  <2>2. z = WithBoundary(x, p, b)
    OBVIOUS
  <2> HIDE DEF b, z
  <2>3. /\ CtxOk(z) /\ ListOk(z) /\ z.st = x.st /\ z.up = x.up /\ z.en = x.en /\ z.vlans = x.vlans
    BY <1>1, <2>2, BoundaryFields
  <2>4. /\ Good(y) /\ SameEntries(z, y) /\ y.up = z.up /\ y.en = z.en
        /\ cfg.bridge => y.vlans = z.vlans
        /\ Prepared(z) => Prepared(y) /\ Follows(y)
    BY <2>1, <2>3, MapAll
  <2>5. Prepared(x) => Prepared(z)
    BY <2>3, UsersSame DEF Prepared
  <2> QED BY <2>3, <2>4, <2>5 DEF SameEntries, Good
<1> QED BY <1>2, <1>3

LEMMA FollowsApart ==
  ASSUME NEW x, Follows(x)
  PROVE  Prepared(x)
BY DEF Follows, Prepared

\* Nothing of the streams changed but what the map gives them.
LEMMA RemapAction ==
  ASSUME Inv, NEW y, Good(y), SameEntries(Ctx, y), Commit(y), cfg' = cfg, FilterOk', told' = told,
         Separate(cfg) => Follows(y)
  PROVE  Inv'
<1>1. told \in ToldType /\ \A u \in Streams : StatusOf(streams[u], told[u]) /\ SidesOf(streams[u], u)
  BY InvParts
<1>2. ASSUME NEW u \in Streams PROVE StatusOf(y.st[u], told[u]) /\ SidesOf(y.st[u], u)
  <2>1. /\ y.st[u].tReg = streams[u].tReg /\ y.st[u].lReg = streams[u].lReg
        /\ y.st[u].userT = streams[u].userT /\ y.st[u].userL = streams[u].userL
    BY CtxFields DEF SameEntries
  <2>2. StatusOf(y.st[u], told[u])
    BY <1>1, <2>1, StatusSame
  <2> QED BY <1>1, <2>1, <2>2 DEF SidesOf
<1> QED BY <1>1, <1>2, CommitAction

LEMMA DomainSteps ==
  ASSUME Inv, NEW p \in cfg.ports, NEW k, DomainJoin(p, k) \/ DomainLeave(p, k)
  PROVE  Inv'
<1> DEFINE d == domains'[p]
           y == UpdateBoundary(Ctx, p, d)
<1>1. Commit(y) /\ told' = told /\ cfg' = cfg
  BY DEF DomainJoin, DomainLeave
<1>2. /\ p \in Ports /\ Good(Ctx) /\ cfg \in Configs /\ up \in SUBSET Ports
      /\ CtxOk(Ctx) /\ ListOk(Ctx)
  BY InvParts, GoodTypes DEF Good
<1>3. y = UpdateBoundary(Ctx, p, d)
  OBVIOUS
<1> HIDE DEF d, y
<1>4. /\ CtxOk(y) /\ ListOk(y) /\ SameEntries(Ctx, y)
      /\ cfg.bridge => y.vlans = Ctx.vlans
      /\ Good(y)
      /\ Prepared(Ctx) /\ Follows(Ctx) => Follows(y)
  BY <1>2, <1>3, BoundaryKeeps
<1>5. Separate(cfg) => Follows(y)
  BY <1>4, FollowsApart DEF Inv, FollowsOk
<1>6. FilterOk'
  <2>1. vlans' = y.vlans /\ table' = TableFree(table, vlans, vlans') /\ FilterOk
    BY <1>1 DEF Commit, Inv
  <2> QED BY <1>1, <1>4, <2>1, CtxFields, FilterUnchanged
<1> QED BY <1>1, <1>4, <1>5, <1>6, RemapAction

LEMMA PortEnableStep ==
  ASSUME Inv, Orderly(cfg), NEW p \in cfg.ports, PortEnable(p)
  PROVE  Inv'
<1> DEFINE e == enabled \cup {p}
           z == [Ctx EXCEPT !.en = e]
           d == domains[p]
           x == UpdateBoundary(z, p, d)
           y == MapUpdate(x)
<1>1. z = [Ctx EXCEPT !.en = @ \cup {p}]
  BY DEF Ctx
<1>2. Commit(y) /\ told' = told /\ cfg' = cfg
  BY <1>1 DEF PortEnable
<1>3. /\ p \in Ports /\ Good(Ctx) /\ cfg \in Configs /\ up \in SUBSET Ports
      /\ CtxOk(Ctx) /\ ListOk(Ctx) /\ enabled \subseteq cfg.ports /\ enabled \in SUBSET Ports
      /\ Ctx \in CtxType
  BY InvParts, GoodTypes DEF Good
<1>4. e \in SUBSET Ports /\ enabled \subseteq e /\ e \subseteq cfg.ports
  BY <1>3
<1> HIDE DEF e
<1>5. /\ z \in CtxType /\ z.en = e /\ z.st = streams /\ z.order = order /\ z.bw = bw
      /\ z.mad = mad /\ z.vlans = vlans /\ z.up = up /\ z.bnd = boundary
  <2>1. z \in CtxType
    BY <1>3, <1>4 DEF CtxType
  <2> QED BY <2>1 DEF Ctx
<1>6. x = UpdateBoundary(z, p, d) /\ y = MapUpdate(x)
  OBVIOUS
<1> HIDE DEF z, d, x, y
<1>7. CtxOk(z)
  <2>1. Ctx.en \subseteq z.en /\ z.en \subseteq cfg.ports /\ z.mad = Ctx.mad /\ z.bw = Ctx.bw
    BY <1>4, <1>5, CtxFields
  <2>2. \A u \in Streams, q \in Ports :
            q \notin z.en => z.st[u].tReg[q] = {} /\ z.st[u].lReg[q] = {}
    BY <1>4, <1>5, InvParts
  <2>3. \A u \in Streams, q \in Ports :
            ~cfg.sendLeave => /\ DeclaresTalker(z, u, q) => NotLeaving(Ctx.mad[q], u, "T")
                              /\ DeclaresListener(z, u, q) => NotLeaving(Ctx.mad[q], u, "L")
    BY QuietSpec DEF PortEnable
  <2>4. \A u \in Streams : /\ z.st[u].decT = Ctx.st[u].decT /\ z.st[u].decL = Ctx.st[u].decL
                           /\ z.st[u].fqtss = Ctx.st[u].fqtss /\ z.st[u].fdb = Ctx.st[u].fdb
    BY <1>5, CtxFields
  <2> QED BY <1>3, <1>5, <2>1, <2>2, <2>3, <2>4, ChangeKeeps
<1>8. ListOk(z)
  BY <1>3, <1>5, CtxFields DEF ListOk
<1>9. /\ CtxOk(x) /\ ListOk(x) /\ SameEntries(z, x)
      /\ cfg.bridge => x.vlans = z.vlans
      /\ Prepared(z) => Prepared(x)
  BY <1>3, <1>6, <1>7, <1>8, BoundaryKeeps
<1>10. /\ Good(y) /\ SameEntries(x, y)
       /\ cfg.bridge => y.vlans = x.vlans
       /\ Prepared(x) => Follows(y)
  BY <1>3, <1>6, <1>9, MapAll
<1>11. SameEntries(Ctx, y)
  BY <1>5, <1>9, <1>10, CtxFields DEF SameEntries
<1>12. Separate(cfg) => Follows(y)
  <2>1. Separate(cfg) => Prepared(Ctx)
    BY FollowsApart DEF Inv, FollowsOk
  <2>2. Prepared(Ctx) => Prepared(z)
    BY <1>5, CtxFields, UsersSame DEF Prepared
  <2> QED BY <1>9, <1>10, <2>1, <2>2
<1>13. FilterOk'
  <2>1. vlans' = y.vlans /\ table' = TableFree(table, vlans, vlans') /\ FilterOk
    BY <1>2 DEF Commit, Inv
  <2> QED BY <1>2, <1>5, <1>9, <1>10, <2>1, FilterUnchanged
<1> QED BY <1>2, <1>10, <1>11, <1>12, <1>13, RemapAction
-----------------------------------------------------------------------------
(***************************************************************************)
(* The VLANs are no part of what holds of the streams.                     *)
(***************************************************************************)
WithVlans(x, vs) == [x EXCEPT !.vlans = vs]

LEMMA WithVlansKeeps ==
  ASSUME NEW x, Good(x), NEW vs \in [VIDs -> VlanType], NEW y, y = WithVlans(x, vs)
  PROVE  /\ Good(y) /\ y.vlans = vs /\ y.st = x.st /\ y.order = x.order /\ y.bw = x.bw /\ y.mad = x.mad
         /\ y.up = x.up /\ y.en = x.en /\ y.bnd = x.bnd
         /\ Follows(x) /\ UsersOk(y) => Follows(y)
<1>1. x \in CtxType /\ CtxOk(x) /\ ListOk(x)
  BY DEF Good, CtxOk
<1>2. /\ y \in CtxType /\ y.vlans = vs /\ y.st = x.st /\ y.order = x.order /\ y.bw = x.bw
      /\ y.mad = x.mad /\ y.up = x.up /\ y.en = x.en /\ y.bnd = x.bnd
  BY <1>1 DEF WithVlans, CtxType
<1>3. CtxOk(y)
  <2>1. x.en \subseteq y.en /\ y.en \subseteq cfg.ports
    BY <1>1, <1>2 DEF CtxOk
  <2>2. \A u \in Streams, q \in Ports :
            q \notin y.en => y.st[u].tReg[q] = {} /\ y.st[u].lReg[q] = {}
    BY <1>1, <1>2 DEF CtxOk, PortOk
  <2>3. \A u \in Streams, q \in Ports :
            ~cfg.sendLeave => /\ DeclaresTalker(y, u, q) => NotLeaving(x.mad[q], u, "T")
                              /\ DeclaresListener(y, u, q) => NotLeaving(x.mad[q], u, "L")
    BY <1>1, <1>2 DEF CtxOk, PortOk, DeclaresTalker, DeclaresListener
  <2>4. \A u \in Streams : /\ y.st[u].decT = x.st[u].decT /\ y.st[u].decL = x.st[u].decL
                           /\ y.st[u].fqtss = x.st[u].fqtss /\ y.st[u].fdb = x.st[u].fdb
    BY <1>2
  <2> QED BY <1>1, <1>2, <2>1, <2>2, <2>3, <2>4, ChangeKeeps
<1>4. ListOk(y)
  BY <1>1, <1>2 DEF ListOk
<1>5. ASSUME NEW u \in Streams
      PROVE  /\ Mapped(x, u) => Mapped(y, u)
             /\ \A q \in Ports : ListenerRight(x, u, q) => ListenerRight(y, u, q)
  BY <1>2, RightOfOthers
<1> QED BY <1>2, <1>3, <1>4, <1>5 DEF Good, Follows

LEMMA MapVlansTyped ==
  ASSUME NEW vs \in [VIDs -> VlanType], NEW f \in SUBSET Ports
  PROVE  MapUpdateVlans(vs, f) \in [VIDs -> VlanType]
<1>1. \A v \in VIDs : vs[v] \in VlanType /\ UpdateVlan(vs[v], f) \in VlanType
  BY UpdateVlanTyped
<1> QED BY <1>1 DEF MapUpdateVlans

\* An update of a VLAN entry never changes its registrations.
LEMMA UpdateKeepsReg ==
  ASSUME NEW w \in VlanType, NEW f
  PROVE  /\ UpdateVlan(w, f).reg = w.reg
         /\ w.alloc => UpdateVlan(w, f).alloc \/ (UpdateVlan(w, f).reg = {} /\ w.reg = {})
         /\ ~UpdateVlan(w, f).alloc /\ w.alloc => UpdateVlan(w, f) = NoVlan
<1>1. CASE InUse(w)
  <2>1. UpdateVlan(w, f) = [w EXCEPT !.dec = DeclaredPorts(w, f)]
    BY <1>1 DEF UpdateVlan
  <2> QED BY <2>1 DEF VlanType
<1>2. CASE ~InUse(w)
  <2>1. UpdateVlan(w, f) = NoVlan /\ w.reg = {}
    BY <1>2 DEF UpdateVlan, InUse
  <2> QED BY <2>1 DEF NoVlan
<1> QED BY <1>1, <1>2

\* The entries of the filter table after VLANs were freed.
LEMMA FilterAfterFree ==
  ASSUME FilterOk, cfg' = cfg, table' = TableFree(table, vlans, vlans'),
         \A v \in VIDs : /\ vlans'[v].reg = vlans[v].reg
                         /\ ~vlans'[v].alloc => vlans'[v].reg = {}
  PROVE  FilterOk'
<1> SUFFICES ASSUME cfg.bridge
             PROVE  /\ table' \in TableType
                    /\ \A v \in VIDs : /\ table'[v].members = vlans'[v].reg
                                       /\ ~vlans'[v].alloc => vlans'[v].reg = {}
  BY DEF FilterOk, TableType
<1>1. table \in TableType /\ \A v \in VIDs : table[v].members = vlans[v].reg
  BY DEF FilterOk
<1>2. table' = [v \in VIDs |-> IF vlans[v].alloc /\ ~vlans'[v].alloc THEN NoEntry ELSE table[v]]
  BY DEF TableFree
<1>3. NoEntry \in [present : BOOLEAN, members : SUBSET Ports] /\ NoEntry.members = {}
  BY DEF NoEntry
<1>4. table' \in TableType
  BY <1>1, <1>2, <1>3 DEF TableType
<1>5. ASSUME NEW v \in VIDs PROVE table'[v].members = vlans'[v].reg
  <2>1. table'[v] = IF vlans[v].alloc /\ ~vlans'[v].alloc THEN NoEntry ELSE table[v]
    BY <1>2
  <2>2. CASE vlans[v].alloc /\ ~vlans'[v].alloc
    BY <1>3, <2>1, <2>2
  <2>3. CASE ~(vlans[v].alloc /\ ~vlans'[v].alloc)
    BY <1>1, <2>1, <2>3
  <2> QED BY <2>2, <2>3
<1> QED BY <1>4, <1>5

\* The map of the VLANs keeps their users.
LEMMA MapVlansUsers ==
  ASSUME NEW x, UsersOk(x), x.vlans \in [VIDs -> VlanType], cfg \in Configs,
         NEW f, NEW y, y.st = x.st, y.vlans = MapUpdateVlans(x.vlans, f)
  PROVE  UsersOk(y)
<1>1. ASSUME NEW v \in VIDs
      PROVE  /\ \A p \in Ports : y.vlans[v].ref[p] = x.vlans[v].ref[p]
             /\ VlanOk(x.vlans[v]) => VlanOk(y.vlans[v])
  <2> DEFINE w == x.vlans[v]
             n == UpdateVlan(w, f)
  <2>1. w \in VlanType /\ n = UpdateVlan(w, f) /\ y.vlans[v] = IF w.alloc THEN n ELSE w
    BY DEF MapUpdateVlans
  <2> HIDE DEF n
  <2>2. (\A p \in Ports : n.ref[p] = w.ref[p]) /\ (VlanOk(w) => VlanOk(n))
    <3> HIDE DEF w
    <3> QED BY <2>1, UpdateKeepsRef
  <2> QED BY <2>1, <2>2
<1>2. cfg.ports \subseteq Ports
  BY PortsNumbered
<1> QED BY <1>1, <1>2, UsersWithVlans

LEMMA PortStatusStep ==
  ASSUME Inv, Orderly(cfg), NEW p \in cfg.ports, PortStatus(p)
  PROVE  Inv'
<1> DEFINE f == IF p \in up THEN up \ {p} ELSE up \cup {p}
           x == [Ctx EXCEPT !.up = f]
           y == MapUpdate(x)
           vs == MapUpdateVlans(y.vlans, f)
           z == WithVlans(y, vs)
<1>1. /\ p \in Ports /\ Good(Ctx) /\ cfg \in Configs /\ up \in SUBSET Ports
      /\ CtxOk(Ctx) /\ ListOk(Ctx) /\ enabled \subseteq cfg.ports /\ Ctx \in CtxType
      /\ vlans \in [VIDs -> VlanType]
  BY InvParts, GoodTypes DEF Good
<1>2. f \in SUBSET Ports
  BY <1>1
<1>3. x.up = f /\ Quiet /\ told' = told /\ cfg' = cfg
      /\ Commit([y EXCEPT !.vlans = MapUpdateVlans(@, x.up)])
  <2>1. x.up = f
    BY DEF Ctx
  <2> QED BY <2>1 DEF PortStatus
<1> HIDE DEF f
<1>4. /\ x \in CtxType /\ x.en = enabled /\ x.st = streams /\ x.order = order /\ x.bw = bw
      /\ x.mad = mad /\ x.vlans = vlans /\ x.bnd = boundary
  <2>1. x \in CtxType
    BY <1>1, <1>2 DEF CtxType
  <2> QED BY <2>1 DEF Ctx
<1> HIDE DEF x
<1>5. CtxOk(x)
  <2>1. Ctx.en \subseteq x.en /\ x.en \subseteq cfg.ports /\ x.mad = Ctx.mad /\ x.bw = Ctx.bw
    BY <1>1, <1>4, CtxFields
  <2>2. \A u \in Streams, q \in Ports :
            q \notin x.en => x.st[u].tReg[q] = {} /\ x.st[u].lReg[q] = {}
    BY <1>4, InvParts
  <2>3. \A u \in Streams, q \in Ports :
            ~cfg.sendLeave => /\ DeclaresTalker(x, u, q) => NotLeaving(Ctx.mad[q], u, "T")
                              /\ DeclaresListener(x, u, q) => NotLeaving(Ctx.mad[q], u, "L")
    BY <1>3, QuietSpec
  <2>4. \A u \in Streams : /\ x.st[u].decT = Ctx.st[u].decT /\ x.st[u].decL = Ctx.st[u].decL
                           /\ x.st[u].fqtss = Ctx.st[u].fqtss /\ x.st[u].fdb = Ctx.st[u].fdb
    BY <1>4, CtxFields
  <2> QED BY <1>1, <1>4, <2>1, <2>2, <2>3, <2>4, ChangeKeeps
<1>6. ListOk(x)
  BY <1>1, <1>4, CtxFields DEF ListOk
<1>7. y = MapUpdate(x)
  OBVIOUS
<1> HIDE DEF y
<1>8. /\ Good(y) /\ SameEntries(x, y) /\ y.up = x.up
      /\ cfg.bridge => y.vlans = x.vlans
      /\ Prepared(x) => Follows(y)
  BY <1>1, <1>5, <1>6, <1>7, MapAll
<1>9. y.vlans \in [VIDs -> VlanType] /\ vs \in [VIDs -> VlanType]
  <2>1. y.vlans \in [VIDs -> VlanType]
    BY <1>8 DEF Good, CtxOk, CtxType
  <2> QED BY <1>2, <2>1, MapVlansTyped
<1>10. Commit(z)
  BY <1>3 DEF WithVlans
<1>11. z = WithVlans(y, vs) /\ vs = MapUpdateVlans(y.vlans, f)
  OBVIOUS
<1> HIDE DEF vs, z
<1>12. Good(z) /\ z.vlans = vs /\ z.st = y.st /\ (Follows(y) /\ UsersOk(z) => Follows(z))
  BY <1>8, <1>9, <1>11, WithVlansKeeps
<1>13. SameEntries(Ctx, z)
  BY <1>4, <1>8, <1>12, CtxFields DEF SameEntries
<1>14. Separate(cfg) => Follows(z)
  <2>1. Separate(cfg) => Prepared(Ctx)
    BY FollowsApart DEF Inv, FollowsOk
  <2>2. Prepared(Ctx) => Prepared(x)
    BY <1>4, CtxFields, UsersSame DEF Prepared
  <2>3. Follows(y) => UsersOk(z)
    BY <1>1, <1>9, <1>11, <1>12, MapVlansUsers DEF Follows
  <2> QED BY <1>8, <1>12, <2>1, <2>2, <2>3
<1>15. FilterOk'
  <2>1. vlans' = vs /\ table' = TableFree(table, vlans, vlans') /\ FilterOk
    BY <1>10, <1>12 DEF Commit, Inv
  <2>2. CASE ~cfg.bridge
    BY <1>3, <2>2 DEF FilterOk
  <2>3. CASE cfg.bridge
    <3>1. vs = MapUpdateVlans(vlans, f)
      BY <1>4, <1>8, <1>11, <2>3
    <3>2. ASSUME NEW v \in VIDs PROVE vs[v].reg = vlans[v].reg /\ (~vs[v].alloc => vs[v].reg = {})
      <4>1. vs[v] = IF vlans[v].alloc THEN UpdateVlan(vlans[v], f) ELSE vlans[v]
        BY <3>1 DEF MapUpdateVlans
      <4>2. vlans[v] \in VlanType
        BY <1>1
      <4>3. ~vlans[v].alloc => vlans[v].reg = {}
        BY <2>1, <2>3 DEF FilterOk
      <4>4. /\ UpdateVlan(vlans[v], f).reg = vlans[v].reg
            /\ vlans[v].alloc => UpdateVlan(vlans[v], f).alloc \/ UpdateVlan(vlans[v], f).reg = {}
        BY <4>2, UpdateKeepsReg
      <4> QED BY <4>1, <4>3, <4>4
    <3> QED BY <1>3, <2>1, <3>2, FilterAfterFree
  <2> QED BY <2>2, <2>3
<1> QED BY <1>3, <1>10, <1>12, <1>13, <1>14, <1>15, RemapAction
-----------------------------------------------------------------------------
(***************************************************************************)
(* A port is disabled while its link is down.                              *)
(***************************************************************************)
WithoutPort(x, p) == [x EXCEPT !.en = @ \ {p}, !.mad[p] = NoMad]

\* Nothing of a port whose link is down is declared or reserved.
LEMMA DownIsBare ==
  ASSUME NEW y, Good(y), NEW p \in Ports, p \notin y.up, NEW s \in Streams
  PROVE  /\ y.st[s].decT[p] = "NONE" /\ y.st[s].decL[p] = "NONE"
         /\ ~DeclaresTalker(y, s, p) /\ ~DeclaresListener(y, s, p)
<1>1. ~DeclaresTalker(y, s, p) /\ ~DeclaresListener(y, s, p)
  BY DEF DeclaresTalker, DeclaresListener
<1>2. TalkerRight(y, s, p) /\ (y.st[s].decL[p] # "NONE" => DeclaresListener(y, s, p))
  BY DEF Good, Mapped
<1> QED BY <1>1, <1>2 DEF TalkerRight

LEMMA WithoutPortKeeps ==
  ASSUME NEW y, Good(y), NEW p \in Ports, p \notin y.up,
         \A s \in Streams : y.st[s].tReg[p] = {} /\ y.st[s].lReg[p] = {},
         NEW z, z = WithoutPort(y, p)
  PROVE  Good(z) /\ (Follows(y) => Follows(z)) /\ z.st = y.st /\ z.vlans = y.vlans
<1> DEFINE e == y.en \ {p}
           m == [y.mad EXCEPT ![p] = NoMad]
<1>1. y \in CtxType /\ y.en \subseteq cfg.ports /\ ListOk(y) /\ CtxOk(y)
  BY DEF Good, CtxOk
<1>2. y.mad \in [Ports -> MadType] /\ y.en \in SUBSET Ports
  BY <1>1 DEF CtxType
<1>3. NoMad \in MadType
  BY DEF NoMad, MadType
<1>4. z = [y EXCEPT !.en = e, !.mad = m]
  BY <1>1 DEF WithoutPort, CtxType
<1>5. /\ m \in [Ports -> MadType] /\ m[p] = NoMad /\ e \in SUBSET Ports /\ e \subseteq cfg.ports
      /\ \A q \in Ports : q # p => m[q] = y.mad[q] /\ (q \in e <=> q \in y.en)
      /\ p \notin e
  BY <1>1, <1>2, <1>3
<1> HIDE DEF m, e
<1>6. /\ z \in CtxType /\ z.st = y.st /\ z.order = y.order /\ z.bw = y.bw /\ z.vlans = y.vlans
      /\ z.up = y.up /\ z.bnd = y.bnd /\ z.en = e /\ z.mad = m
  BY <1>1, <1>4, <1>5 DEF CtxType
<1>7. ASSUME NEW s \in Streams, NEW q \in Ports
      PROVE  /\ DeclaresTalker(z, s, q) <=> DeclaresTalker(y, s, q)
             /\ DeclaresListener(z, s, q) <=> DeclaresListener(y, s, q)
  BY <1>6 DEF DeclaresTalker, DeclaresListener
<1>8. ASSUME NEW s \in Streams
      PROVE  /\ y.st[s].decT[p] = "NONE" /\ y.st[s].decL[p] = "NONE"
             /\ ~DeclaresTalker(y, s, p) /\ ~DeclaresListener(y, s, p)
  BY DownIsBare
<1>9. ASSUME NEW s \in Streams, NEW q \in Ports PROVE PortOk(z, s, q)
  <2>1. PortOk(y, s, q)
    BY <1>1 DEF CtxOk
  <2>2. CASE q = p
    <3>1. Real(NoMad, s, "T", "NONE") /\ Real(NoMad, s, "L", "NONE")
      BY DEF Real, NoMad
    <3> QED BY <1>5, <1>6, <1>7, <1>8, <2>1, <2>2, <3>1 DEF PortOk
  <2>3. CASE q # p
    <3>1. z.mad[q] = y.mad[q] /\ (q \in z.en <=> q \in y.en)
      BY <1>5, <1>6, <2>3
    <3> QED BY <1>6, <1>7, <2>1, <3>1 DEF PortOk
  <2> QED BY <2>2, <2>3
<1>10. ASSUME NEW q \in Ports PROVE BandwidthOk(z, q)
  <2>1. BandwidthOk(y, q) /\ Holders(z, q) = Holders(y, q)
    BY <1>1, <1>6 DEF CtxOk, Holders
  <2> QED BY <1>6, <2>1 DEF BandwidthOk
<1>11. CtxOk(z)
  BY <1>5, <1>6, <1>9, <1>10 DEF CtxOk
<1>12. ListOk(z)
  BY <1>1, <1>6 DEF ListOk
<1>13. ASSUME NEW s \in Streams, NEW q \in Ports
       PROVE  /\ TalkerRight(y, s, q) => TalkerRight(z, s, q)
              /\ ListenerRight(y, s, q) => ListenerRight(z, s, q)
  <2>1. q \in z.en <=> q \in y.en \ {p}
    BY <1>5, <1>6
  <2> QED BY <1>6, <1>7, <1>8, <2>1 DEF TalkerRight, ListenerRight
<1>14. \A s \in Streams : Mapped(z, s)
  BY <1>6, <1>7, <1>13 DEF Mapped, Good
<1>15. Follows(y) => Follows(z)
  BY <1>6, <1>13, UsersSame DEF Follows
<1> QED BY <1>6, <1>11, <1>12, <1>14, <1>15 DEF Good

\* The registrations of a port are cleared.
LEMMA ClearedFields ==
  ASSUME NEW r \in StreamType, NEW p \in Ports, NEW q, q = Cleared(r, p)
  PROVE  /\ q \in StreamType /\ q.decT = r.decT /\ q.decL = r.decL
         /\ q.fqtss = r.fqtss /\ q.fdb = r.fdb /\ q.userT = r.userT /\ q.userL = r.userL
         /\ q.vlan = r.vlan
         /\ q.tReg[p] = {} /\ q.lReg[p] = {}
         /\ \A o \in Ports : o # p => q.tReg[o] = r.tReg[o] /\ q.lReg[o] = r.lReg[o]
         /\ r = NoStream => q = NoStream
<1> DEFINE a == [r.tReg EXCEPT ![p] = {}]
           b == [r.lReg EXCEPT ![p] = {}]
<1>1. q = [r EXCEPT !.tReg = a, !.lReg = b]
  BY DEF Cleared, StreamType
<1>2. r.tReg \in [Ports -> SUBSET TalkerTypes] /\ r.lReg \in [Ports -> SUBSET ListenerTypes]
  BY DEF StreamType
<1>3. /\ a \in [Ports -> SUBSET TalkerTypes] /\ b \in [Ports -> SUBSET ListenerTypes]
      /\ a[p] = {} /\ b[p] = {}
      /\ \A o \in Ports : o # p => a[o] = r.tReg[o] /\ b[o] = r.lReg[o]
  BY <1>2
<1>4. r = NoStream => a = r.tReg /\ b = r.lReg
  <2> SUFFICES ASSUME r = NoStream PROVE a = r.tReg /\ b = r.lReg
    OBVIOUS
  <2>1. r.tReg = [o \in Ports |-> {}] /\ r.lReg = [o \in Ports |-> {}]
    BY DEF NoStream
  <2> QED BY <2>1
<1> HIDE DEF a, b
<1>5. /\ q \in StreamType /\ q.decT = r.decT /\ q.decL = r.decL /\ q.tReg = a /\ q.lReg = b
      /\ q.fqtss = r.fqtss /\ q.fdb = r.fdb /\ q.userT = r.userT /\ q.userL = r.userL
      /\ q.vlan = r.vlan
  BY <1>1, <1>3 DEF StreamType
<1>6. r = NoStream => q = r
  BY <1>1, <1>4 DEF StreamType
<1> QED BY <1>3, <1>5, <1>6

\* The application is told of both sides of a port.
LEMMA BothTold ==
  ASSUME NEW t \in ToldType, NEW s \in Streams, NEW p \in Ports, NEW r, StatusOf(r, t[s]),
         NEW q, q.userT = r.userT, q.userL = r.userL,
         \A o \in Ports : o # p => q.tReg[o] = r.tReg[o] /\ q.lReg[o] = r.lReg[o],
         NEW n, n = TellTalker(TellListener(t, q, s, p), q, s, p)[s]
  PROVE  n \in [Ports -> [talker : AllTypes, listener : AllTypes]] /\ StatusOf(q, n)
<1> DEFINE y == TellListener(t, q, s, p)
           z == TellTalker(y, q, s, p)
<1>1. n = z[s] /\ y = TellListener(t, q, s, p) /\ z = TellTalker(y, q, s, p)
  OBVIOUS
<1> HIDE DEF y, z
<1>2. ListenerTold(y, t, q, s, p)
  BY <1>1, TellListenerSpec
<1>3. y \in ToldType
  BY <1>2 DEF ListenerTold
<1>4. TalkerTold(z, y, q, s, p)
  BY <1>1, <1>3, TellTalkerSpec
<1>5. n \in [Ports -> [talker : AllTypes, listener : AllTypes]]
  BY <1>1, <1>4 DEF TalkerTold, ToldType
<1>6. ASSUME NEW o \in Ports
      PROVE  /\ o \in q.userL => n[o].talker = TalkerType(q, o)
             /\ o \in q.userT => n[o].listener = ListenerType(q, o)
  <2>1. CASE o = p
    BY <1>1, <1>2, <1>4, <2>1 DEF ListenerTold, TalkerTold
  <2>2. CASE o # p
    <3>1. n[o] = t[s][o]
      BY <1>1, <1>2, <1>4, <2>2 DEF ListenerTold, TalkerTold
    <3>2. TalkerType(q, o) = TalkerType(r, o) /\ ListenerType(q, o) = ListenerType(r, o)
      BY <2>2 DEF TalkerType, ListenerType
    <3> QED BY <3>1, <3>2 DEF StatusOf
  <2> QED BY <2>1, <2>2
<1> QED BY <1>5, <1>6 DEF StatusOf

\* The link is down: what MRP frees was withdrawn by the map before.
LEMMA PortDisableStep ==
  ASSUME Inv, Orderly(cfg), ~DisableUp, NEW p \in cfg.ports, PortDisable(p)
  PROVE  Inv'
<1> DEFINE st == [s \in Streams |-> Cleared(streams[s], p)]
           x == [Ctx EXCEPT !.st = st]
           y == MapUpdate(x)
           z == WithoutPort(y, p)
<1>1. /\ p \in Ports /\ Good(Ctx) /\ cfg \in Configs /\ up \in SUBSET Ports
      /\ CtxOk(Ctx) /\ ListOk(Ctx) /\ enabled \subseteq cfg.ports /\ Ctx \in CtxType
      /\ streams \in [Streams -> StreamType] /\ told \in ToldType
      /\ \A s \in Streams : ~Exists(s) => streams[s] = NoStream
      /\ \A s \in Streams : StatusOf(streams[s], told[s]) /\ SidesOf(streams[s], s)
  BY InvParts, GoodTypes DEF Good
<1>2. Quiet /\ p \notin up /\ cfg' = cfg
  BY DEF PortDisable
<1>3. Commit(z)
  BY DEF PortDisable, WithoutPort
<1>4. told' = [s \in Streams |->
                 IF ~Exists(s) THEN told[s]
                 ELSE TellTalker(TellListener(told, x.st[s], s, p), x.st[s], s, p)[s]]
  BY DEF PortDisable
<1>5. ASSUME NEW s \in Streams
      PROVE  /\ st[s] \in StreamType /\ st[s].decT = streams[s].decT /\ st[s].decL = streams[s].decL
             /\ st[s].fqtss = streams[s].fqtss /\ st[s].fdb = streams[s].fdb
             /\ st[s].userT = streams[s].userT /\ st[s].userL = streams[s].userL
             /\ st[s].vlan = streams[s].vlan
             /\ st[s].tReg[p] = {} /\ st[s].lReg[p] = {}
             /\ \A o \in Ports : o # p => /\ st[s].tReg[o] = streams[s].tReg[o]
                                          /\ st[s].lReg[o] = streams[s].lReg[o]
             /\ streams[s] = NoStream => st[s] = NoStream
  <2> DEFINE r == streams[s]
             q == st[s]
  <2>1. r \in StreamType /\ q = Cleared(r, p)
    BY <1>1
  <2> HIDE DEF r, q
  <2>2. /\ q \in StreamType /\ q.decT = r.decT /\ q.decL = r.decL
        /\ q.fqtss = r.fqtss /\ q.fdb = r.fdb /\ q.userT = r.userT /\ q.userL = r.userL
        /\ q.tReg[p] = {} /\ q.lReg[p] = {} /\ q.vlan = r.vlan
        /\ \A o \in Ports : o # p => q.tReg[o] = r.tReg[o] /\ q.lReg[o] = r.lReg[o]
        /\ r = NoStream => q = NoStream
    BY <1>1, <2>1, ClearedFields
  <2> QED BY <2>2 DEF r, q
<1>6. st \in [Streams -> StreamType]
  BY <1>5
<1> HIDE DEF st
<1>7. /\ x \in CtxType /\ x.st = st /\ x.en = enabled /\ x.order = order /\ x.bw = bw
      /\ x.mad = mad /\ x.vlans = vlans /\ x.bnd = boundary /\ x.up = up
  <2>1. x \in CtxType
    BY <1>1, <1>6 DEF CtxType
  <2> QED BY <2>1 DEF Ctx
<1> HIDE DEF x
<1>8. CtxOk(x)
  <2>1. Ctx.en \subseteq x.en /\ x.en \subseteq cfg.ports /\ x.mad = Ctx.mad /\ x.bw = Ctx.bw
    BY <1>1, <1>7, CtxFields
  <2>2. \A u \in Streams, q \in Ports :
            q \notin x.en => x.st[u].tReg[q] = {} /\ x.st[u].lReg[q] = {}
    BY <1>5, <1>7, InvParts
  <2>3. \A u \in Streams, q \in Ports :
            ~cfg.sendLeave => /\ DeclaresTalker(x, u, q) => NotLeaving(Ctx.mad[q], u, "T")
                              /\ DeclaresListener(x, u, q) => NotLeaving(Ctx.mad[q], u, "L")
    BY <1>2, QuietSpec
  <2>4. \A u \in Streams : /\ x.st[u].decT = Ctx.st[u].decT /\ x.st[u].decL = Ctx.st[u].decL
                           /\ x.st[u].fqtss = Ctx.st[u].fqtss /\ x.st[u].fdb = Ctx.st[u].fdb
    BY <1>5, <1>7, CtxFields
  <2> QED BY <1>1, <1>7, <2>1, <2>2, <2>3, <2>4, ChangeKeeps
<1>9. ListOk(x)
  BY <1>1, <1>5, <1>7, CtxFields DEF ListOk
<1>10. y = MapUpdate(x)
  OBVIOUS
<1> HIDE DEF y
<1>11. /\ Good(y) /\ SameEntries(x, y) /\ y.up = x.up
       /\ cfg.bridge => y.vlans = x.vlans
       /\ Prepared(x) => Follows(y)
  BY <1>1, <1>8, <1>9, <1>10, MapAll
<1>12. z = WithoutPort(y, p)
  OBVIOUS
<1> HIDE DEF z
<1>13. \A s \in Streams : y.st[s].tReg[p] = {} /\ y.st[s].lReg[p] = {}
  BY <1>5, <1>7, <1>11 DEF SameEntries
<1>14. Good(z) /\ (Follows(y) => Follows(z)) /\ z.st = y.st /\ z.vlans = y.vlans
  <2>1. p \notin y.up
    BY <1>2, <1>7, <1>11
  <2> QED BY <1>1, <1>11, <1>12, <1>13, <2>1, WithoutPortKeeps
<1> DEFINE t == told'
<1>15. ASSUME NEW s \in Streams
       PROVE  t[s] \in [Ports -> [talker : AllTypes, listener : AllTypes]] /\ StatusOf(st[s], t[s])
  <2>1. CASE ~Exists(s)
    <3>1. t[s] = told[s] /\ streams[s] = NoStream /\ st[s] = NoStream
      BY <1>1, <1>4, <1>5, <2>1
    <3> QED BY <1>1, <3>1 DEF ToldType
  <2>2. CASE Exists(s)
    <3> DEFINE q == st[s]
               n == t[s]
               r == streams[s]
    <3>1. n = TellTalker(TellListener(told, q, s, p), q, s, p)[s]
      BY <1>4, <1>7, <2>2
    <3>2. q.userT = r.userT /\ q.userL = r.userL /\ StatusOf(r, told[s])
      BY <1>1, <1>5
    <3>3. \A o \in Ports : o # p => q.tReg[o] = r.tReg[o] /\ q.lReg[o] = r.lReg[o]
      BY <1>5
    <3> HIDE DEF q, n, r
    <3>4. n \in [Ports -> [talker : AllTypes, listener : AllTypes]] /\ StatusOf(q, n)
      BY <1>1, <3>1, <3>2, <3>3, BothTold
    <3> QED BY <3>4 DEF q, n
  <2> QED BY <2>1, <2>2
<1>16. t \in ToldType
  BY <1>4, <1>15 DEF ToldType
<1> HIDE DEF t
<1>17. ASSUME NEW s \in Streams PROVE SidesOf(st[s], s)
  BY <1>1, <1>5 DEF SidesOf
<1>18. ASSUME NEW s \in Streams PROVE StatusOf(z.st[s], t[s]) /\ SidesOf(z.st[s], s)
  <2>1. /\ z.st[s].tReg = st[s].tReg /\ z.st[s].lReg = st[s].lReg
        /\ z.st[s].userT = st[s].userT /\ z.st[s].userL = st[s].userL
    BY <1>7, <1>11, <1>14 DEF SameEntries
  <2>2. StatusOf(z.st[s], t[s])
    BY <1>15, <2>1, StatusSame
  <2> QED BY <1>17, <2>1, <2>2 DEF SidesOf
<1>19. Separate(cfg) => Follows(z)
  <2>1. ASSUME Separate(cfg) PROVE Prepared(x)
    <3>1. Follows(Ctx)
      BY <2>1 DEF Inv, FollowsOk
    <3>2. ASSUME NEW s \in Streams, NEW q \in Ports PROVE Apart(st[s], q)
      <4> DEFINE r == st[s]
      <4>1. r.decL = streams[s].decL /\ SidesOf(r, s) /\ SidesOf(streams[s], s)
        BY <1>1, <1>5, <1>17
      <4> HIDE DEF r
      <4>2. Apart(r, q)
        BY <2>1, <3>1, <4>1, SidesApart
      <4> QED BY <4>2 DEF r
    <3>3. UsersOk(x)
      <4>1. UsersOk(Ctx) /\ x.vlans = Ctx.vlans
        BY <1>7, <3>1, CtxFields DEF Follows
      <4>2. \A u \in Streams : /\ x.st[u].vlan = Ctx.st[u].vlan /\ x.st[u].decL = Ctx.st[u].decL
                              /\ Ctx.st[u].userT \subseteq x.st[u].userT
        BY <1>5, <1>7, CtxFields
      <4> HIDE DEF Ctx
      <4> QED BY <4>1, <4>2, SimilarUsers
    <3> QED BY <1>7, <3>2, <3>3 DEF Prepared
  <2> QED BY <1>11, <1>14, <2>1
<1>20. FilterOk'
  <2>1. vlans' = z.vlans /\ table' = TableFree(table, vlans, vlans') /\ FilterOk
    BY <1>3 DEF Commit, Inv
  <2> QED BY <1>2, <1>7, <1>11, <1>14, <2>1, FilterUnchanged
<1>21. told' \in ToldType /\ \A u \in Streams : StatusOf(z.st[u], told'[u]) /\ SidesOf(z.st[u], u)
  BY <1>16, <1>18 DEF t
<1> QED BY <1>2, <1>3, <1>14, <1>19, <1>20, <1>21, CommitAction
-----------------------------------------------------------------------------
(***************************************************************************)
(* The actions that leave the streams as they are.                         *)
(***************************************************************************)
LEMMA RestAction ==
  ASSUME Inv, NEW y, Good(y), Follows(Ctx) => Follows(y), Ctx' = y, cfg' = cfg,
         told' = told, streams' = streams, FilterOk'
  PROVE  Inv'
<1>1. Good(Ctx)' /\ (Follows(Ctx) => Follows(Ctx)')
  <2>1. Good(y)' /\ (Follows(y) => Follows(y)')
    BY GoodPrime, FollowsPrime
  <2> QED BY <2>1
<1>2. StatusOk'
  BY DEF Inv, StatusOk
<1>3. FollowsOk'
  <2>1. \A u \in Streams : SidesOf(streams[u], u)'
    BY DEF Inv, FollowsOk, SidesOf
  <2>2. Separate(cfg)' => Follows(Ctx)'
    BY <1>1 DEF Inv, FollowsOk
  <2> QED BY <2>1, <2>2 DEF FollowsOk
<1> QED BY <1>1, <1>2, <1>3 DEF Inv

WithMad(x, m) == [x EXCEPT !.mad = m]

\* A leave that was sent takes nothing from what is declared.
LEMMA SentKeeps ==
  ASSUME NEW x, Good(x), NEW m \in [Ports -> MadType],
         \A q \in Ports : m[q].dec = x.mad[q].dec /\ m[q].lv \subseteq x.mad[q].lv,
         NEW y, y = WithMad(x, m)
  PROVE  Good(y) /\ (Follows(x) => Follows(y))
<1>1. x \in CtxType /\ CtxOk(x) /\ ListOk(x) /\ x.en \subseteq cfg.ports
  BY DEF Good, CtxOk
<1>2. /\ y \in CtxType /\ y.mad = m /\ y.st = x.st /\ y.order = x.order /\ y.bw = x.bw
      /\ y.vlans = x.vlans /\ y.up = x.up /\ y.en = x.en /\ y.bnd = x.bnd
  BY <1>1 DEF WithMad, CtxType
<1>3. ASSUME NEW u \in Streams, NEW q \in Ports PROVE PortOk(y, u, q)
  <2>1. PortOk(x, u, q)
    BY <1>1 DEF CtxOk
  <2>2. /\ DeclaresTalker(y, u, q) <=> DeclaresTalker(x, u, q)
        /\ DeclaresListener(y, u, q) <=> DeclaresListener(x, u, q)
    BY <1>2 DEF DeclaresTalker, DeclaresListener
  <2>3. ASSUME NEW dir, NEW d, Real(x.mad[q], u, dir, d) PROVE Real(y.mad[q], u, dir, d)
    BY <1>2, <2>3 DEF Real
  <2>4. ASSUME NEW dir, NotLeaving(x.mad[q], u, dir) PROVE NotLeaving(y.mad[q], u, dir)
    BY <1>2, <2>4 DEF NotLeaving
  <2> QED BY <1>2, <2>1, <2>2, <2>3, <2>4 DEF PortOk
<1>4. ASSUME NEW q \in Ports PROVE BandwidthOk(y, q)
  <2>1. BandwidthOk(x, q) /\ Holders(y, q) = Holders(x, q)
    BY <1>1, <1>2 DEF CtxOk, Holders
  <2> QED BY <1>2, <2>1 DEF BandwidthOk
<1>5. CtxOk(y)
  BY <1>1, <1>2, <1>3, <1>4 DEF CtxOk
<1>6. ListOk(y)
  BY <1>1, <1>2 DEF ListOk
<1>7. ASSUME NEW u \in Streams
      PROVE  /\ Mapped(x, u) => Mapped(y, u)
             /\ \A q \in Ports : ListenerRight(x, u, q) => ListenerRight(y, u, q)
  BY <1>2, RightOfOthers
<1>8. UsersOk(x) => UsersOk(y)
  BY <1>2, UsersSame
<1> QED BY <1>2, <1>5, <1>6, <1>7, <1>8 DEF Good, Follows

LEMMA LeaveSentStep ==
  ASSUME Inv, NEW p \in cfg.ports, NEW a, LeaveSent(p, a)
  PROVE  Inv'
<1>1. /\ cfg' = cfg /\ up' = up /\ vlans' = vlans /\ table' = table /\ enabled' = enabled
      /\ boundary' = boundary /\ streams' = streams /\ order' = order /\ bw' = bw
      /\ told' = told /\ mad' = [mad EXCEPT ![p].lv = @ \ {a}]
  BY DEF LeaveSent
<1>2. p \in Ports /\ Good(Ctx) /\ mad \in [Ports -> MadType]
  BY InvParts, GoodTypes
<1> DEFINE m == mad'
           y == WithMad(Ctx, m)
<1>3. /\ m \in [Ports -> MadType]
      /\ \A q \in Ports : m[q].dec = Ctx.mad[q].dec /\ m[q].lv \subseteq Ctx.mad[q].lv
  <2> DEFINE l == mad[p].lv \ {a}
             e == [mad[p] EXCEPT !.lv = l]
  <2>1. m = [mad EXCEPT ![p] = e]
    BY <1>1, <1>2
  <2>2. mad[p] \in MadType
    BY <1>2
  <2>3. e \in MadType /\ e.dec = mad[p].dec /\ e.lv \subseteq mad[p].lv
    BY <2>2 DEF MadType
  <2> HIDE DEF e
  <2>4. m \in [Ports -> MadType] /\ m[p] = e /\ \A q \in Ports : q # p => m[q] = mad[q]
    BY <1>2, <2>1, <2>3
  <2> HIDE DEF m
  <2> QED BY <2>3, <2>4, CtxFields
<1>4. Ctx' = y
  BY <1>1 DEF Ctx, WithMad
<1>5. FilterOk'
  BY <1>1 DEF Inv, FilterOk, TableType
<1>6. y = WithMad(Ctx, m)
  OBVIOUS
<1> HIDE DEF m, y
<1>7. Good(y) /\ (Follows(Ctx) => Follows(y))
  BY <1>2, <1>3, <1>6, SentKeeps
<1> QED BY <1>1, <1>4, <1>5, <1>7, RestAction

\* The switch gets room or fills up; or nothing of the stack changes.
LEMMA IdleStep ==
  ASSUME Inv, cfg' = cfg, up' = up, vlans' = vlans, table' = table, enabled' = enabled,
         boundary' = boundary, streams' = streams, order' = order, bw' = bw, mad' = mad,
         told' = told
  PROVE  Inv'
<1> DEFINE y == Ctx
<1>1. Ctx' = y
  BY DEF Ctx
<1>2. FilterOk'
  BY DEF Inv, FilterOk, TableType
<1>3. Good(y) /\ (Follows(Ctx) => Follows(y))
  BY DEF Inv
<1> HIDE DEF y
<1> QED BY <1>1, <1>2, <1>3, RestAction
-----------------------------------------------------------------------------
(***************************************************************************)
(* MVRP's own events.                                                      *)
(***************************************************************************)
EntryType == [present : BOOLEAN, members : SUBSET Ports]

LEMMA TableUpdateSpec ==
  ASSUME NEW t \in TableType, NEW v \in VIDs, NEW p \in Ports, NEW member \in BOOLEAN,
         NEW n, n = TableUpdate(t, v, p, member)
  PROVE  /\ n \in TableType /\ \A u \in VIDs : u # v => n[u] = t[u]
         /\ member => n[v].members = t[v].members \cup {p}
         /\ ~member => n[v].members = t[v].members \ {p}
<1> DEFINE A == IF member THEN t[v].members \cup {p} ELSE t[v].members \ {p}
           e == [present |-> TRUE, members |-> A]
<1>1. t \in [VIDs -> EntryType] /\ t[v].members \in SUBSET Ports
  BY DEF TableType, EntryType
<1>2. A \in SUBSET Ports
  BY <1>1
<1>3. n = [t EXCEPT ![v] = e]
  BY <1>1 DEF TableUpdate
<1> HIDE DEF A
<1>4. e \in EntryType /\ e.members = A
  BY <1>2 DEF EntryType
<1> HIDE DEF e
<1>5. n \in [VIDs -> EntryType] /\ n[v] = e /\ \A u \in VIDs : u # v => n[u] = t[u]
  BY <1>1, <1>3, <1>4
<1> QED BY <1>4, <1>5 DEF TableType, EntryType, A

LEMMA TableFreeSpec ==
  ASSUME NEW t \in TableType, NEW old, NEW new, cfg.bridge, NEW n, n = TableFree(t, old, new)
  PROVE  /\ n \in TableType
         /\ \A v \in VIDs : n[v] = IF old[v].alloc /\ ~new[v].alloc THEN NoEntry ELSE t[v]
<1>1. NoEntry \in EntryType
  BY DEF NoEntry, EntryType
<1>2. n = [v \in VIDs |-> IF old[v].alloc /\ ~new[v].alloc THEN NoEntry ELSE t[v]]
  BY DEF TableFree
<1>3. t \in [VIDs -> EntryType]
  BY DEF TableType, EntryType
<1>4. n \in [VIDs -> EntryType]
  BY <1>1, <1>2, <1>3
<1> QED BY <1>2, <1>4 DEF TableType, EntryType

\* An entry with registrations A.
Registering(w, A) == [w EXCEPT !.alloc = TRUE, !.reg = A]

LEMMA RegisteringSpec ==
  ASSUME NEW w \in VlanType, NEW A \in SUBSET Ports, NEW f \in SUBSET Ports,
         NEW n, n = UpdateVlan(Registering(w, A), f)
  PROVE  n \in VlanType /\ n.reg = A /\ (n.alloc \/ A = {})
<1> DEFINE z == Registering(w, A)
<1>1. z \in VlanType /\ z.reg = A /\ z.alloc
  BY DEF VlanType, Registering
<1>2. n = UpdateVlan(z, f)
  OBVIOUS
<1> HIDE DEF z
<1>3. UpdateVlan(z, f) \in VlanType
  BY <1>1, UpdateVlanTyped
<1>4. UpdateVlan(z, f).reg = z.reg /\ (UpdateVlan(z, f).alloc \/ z.reg = {})
  BY <1>1, UpdateKeepsReg
<1> QED BY <1>1, <1>2, <1>3, <1>4

LEMMA RegisterMemberReg ==
  ASSUME NEW vs \in [VIDs -> VlanType], NEW v \in VIDs, NEW p \in Ports, NEW f \in SUBSET Ports,
         NEW n, n = RegisterMember(vs, v, p, f)
  PROVE  /\ \A u \in VIDs : n[u].reg = vs[u].reg
         /\ \A u \in VIDs : n[u].alloc \/ n[u] = vs[u] \/ n[u].reg = {}
<1> DEFINE w == [vs[v] EXCEPT !.alloc = TRUE, !.ref[p] = @ + 1]
<1>1. vs[v] \in VlanType
  OBVIOUS
<1>2. w \in VlanType /\ w.reg = vs[v].reg /\ w.alloc
  <2> DEFINE k == [vs[v] EXCEPT !.alloc = TRUE]
             i == k.ref[p] + 1
  <2>1. k \in VlanType /\ k.ref[p] \in Nat /\ k.reg = vs[v].reg /\ k.alloc
    BY <1>1 DEF VlanType
  <2>2. i \in Nat
    BY <2>1
  <2> HIDE DEF k, i
  <2>3. /\ [k EXCEPT !.ref[p] = i] \in VlanType /\ [k EXCEPT !.ref[p] = i].reg = k.reg
        /\ [k EXCEPT !.ref[p] = i].alloc = k.alloc
    BY <2>1, <2>2 DEF VlanType
  <2> QED BY <2>1, <2>3 DEF k, i
<1>3. n = [vs EXCEPT ![v] = IF vs[v].ref[p] = 0 THEN UpdateVlan(w, f) ELSE w]
  BY DEF RegisterMember
<1> HIDE DEF w
<1>4. UpdateVlan(w, f).reg = w.reg /\ (UpdateVlan(w, f).alloc \/ UpdateVlan(w, f).reg = {})
  BY <1>2, UpdateKeepsReg
<1> QED BY <1>2, <1>3, <1>4

LEMMA DeregisterMemberReg ==
  ASSUME NEW vs \in [VIDs -> VlanType], NEW v \in VIDs, NEW p \in Ports, NEW f \in SUBSET Ports,
         NEW n, n = DeregisterMember(vs, v, p, f)
  PROVE  /\ \A u \in VIDs : n[u].reg = vs[u].reg
         /\ \A u \in VIDs : n[u].alloc \/ n[u] = vs[u] \/ n[u].reg = {}
<1> DEFINE w == [vs[v] EXCEPT !.ref[p] = IF @ > 0 THEN @ - 1 ELSE 0]
<1>1. vs[v] \in VlanType /\ vs[v].ref[p] \in Nat
  BY DEF VlanType
<1>2. w \in VlanType /\ w.reg = vs[v].reg /\ w.alloc = vs[v].alloc
  BY <1>1 DEF VlanType
<1>3. n = IF ~vs[v].alloc THEN vs
          ELSE [vs EXCEPT ![v] = IF w.ref[p] = 0 THEN UpdateVlan(w, f) ELSE w]
  BY DEF DeregisterMember
<1> HIDE DEF w
<1>4. /\ UpdateVlan(w, f).reg = w.reg
      /\ w.alloc => UpdateVlan(w, f).alloc \/ UpdateVlan(w, f).reg = {}
  BY <1>2, UpdateKeepsReg
<1> QED BY <1>2, <1>3, <1>4

LEMMA VlanAction ==
  ASSUME Inv, cfg' = cfg, up' = up, enabled' = enabled,
         boundary' = boundary, streams' = streams, order' = order, bw' = bw, mad' = mad,
         told' = told, vlans' \in [VIDs -> VlanType], FilterOk',
         \A v \in VIDs : VlanOk(vlans[v]) => VlanOk(vlans'[v]),
         \A v \in VIDs, p \in cfg.ports :
            <<v, p>> \notin cfg.vlanUsers => vlans'[v].ref[p] = vlans[v].ref[p]
  PROVE  Inv'
<1> DEFINE vs == vlans'
           y == WithVlans(Ctx, vs)
<1>1. Ctx' = y /\ y = WithVlans(Ctx, vs) /\ Good(Ctx) /\ vs \in [VIDs -> VlanType]
  BY DEF Ctx, WithVlans, Inv
<1>2. /\ \A v \in VIDs : VlanOk(Ctx.vlans[v]) => VlanOk(vs[v])
      /\ \A v \in VIDs, p \in cfg.ports :
            <<v, p>> \notin cfg.vlanUsers => vs[v].ref[p] = Ctx.vlans[v].ref[p]
  BY CtxFields
<1> HIDE DEF vs, y
<1>3. Good(y) /\ y.st = Ctx.st /\ y.vlans = vs /\ (Follows(Ctx) /\ UsersOk(y) => Follows(y))
  BY <1>1, WithVlansKeeps
<1>4. Follows(Ctx) => UsersOk(y)
  <2> DEFINE x == Ctx
  <2>1. /\ y.st = x.st /\ y.vlans = vs
        /\ \A v \in VIDs : VlanOk(x.vlans[v]) => VlanOk(vs[v])
        /\ \A v \in VIDs, p \in cfg.ports :
              <<v, p>> \notin cfg.vlanUsers => vs[v].ref[p] = x.vlans[v].ref[p]
    BY <1>2, <1>3
  <2> HIDE DEF x
  <2>2. UsersOk(x) => UsersOk(y)
    BY <2>1, UsersWithVlans
  <2> QED BY <2>2 DEF x, Follows
<1>5. Good(y) /\ (Follows(Ctx) => Follows(y))
  BY <1>3, <1>4
<1> QED BY <1>1, <1>5, RestAction

LEMMA VlanJoinStep ==
  ASSUME vlans \in [VIDs -> VlanType], FilterOk, cfg' = cfg, up \in SUBSET Ports,
         NEW v \in VIDs, NEW p \in Ports, VlanJoin(v, p)
  PROVE  vlans' \in [VIDs -> VlanType] /\ FilterOk'
<1> DEFINE A == vlans[v].reg \cup {p}
           w == UpdateVlan(Registering(vlans[v], A), up)
           n == vlans'
           member == TRUE
           t == TableUpdate(table, v, p, member)
<1>1. vlans[v] \in VlanType /\ A \in SUBSET Ports /\ A # {}
  BY DEF VlanType
<1>2. n = [vlans EXCEPT ![v] = w] /\ table' = IF cfg.bridge THEN t ELSE table
  BY DEF VlanJoin, Registering
<1>3. w = UpdateVlan(Registering(vlans[v], A), up) /\ t = TableUpdate(table, v, p, member)
      /\ member \in BOOLEAN
  OBVIOUS
<1>4. member
  OBVIOUS
<1> HIDE DEF w, t, member
<1>5. w \in VlanType /\ w.reg = A /\ w.alloc
  <2> HIDE DEF A
  <2> QED BY <1>1, <1>3, RegisteringSpec
<1>6. n \in [VIDs -> VlanType] /\ n[v] = w /\ \A u \in VIDs : u # v => n[u] = vlans[u]
  BY <1>2, <1>5
<1> HIDE DEF n
<1>7. ASSUME cfg.bridge
      PROVE  /\ table' \in TableType
             /\ \A u \in VIDs : /\ table'[u].members = n[u].reg
                                /\ ~n[u].alloc => n[u].reg = {}
  <2>1. /\ table \in TableType
        /\ \A u \in VIDs : /\ table[u].members = vlans[u].reg
                           /\ ~vlans[u].alloc => vlans[u].reg = {}
    BY <1>7 DEF FilterOk
  <2>2. /\ t \in TableType /\ \A u \in VIDs : u # v => t[u] = table[u]
        /\ member => t[v].members = table[v].members \cup {p}
        /\ ~member => t[v].members = table[v].members \ {p}
    BY <1>3, <2>1, TableUpdateSpec
  <2>3. table' = t
    BY <1>2, <1>7
  <2>4. t[v].members = A
    BY <1>4, <2>1, <2>2
  <2> QED BY <1>5, <1>6, <2>1, <2>2, <2>3, <2>4
<1> QED BY <1>6, <1>7 DEF n, FilterOk, TableType

\* The entry freed with the last registration is created again, empty.
LEMMA VlanLeaveStep ==
  ASSUME vlans \in [VIDs -> VlanType], FilterOk, cfg' = cfg, up \in SUBSET Ports,
         NEW v \in VIDs, NEW p \in Ports, VlanLeave(v, p)
  PROVE  vlans' \in [VIDs -> VlanType] /\ FilterOk'
<1> DEFINE A == vlans[v].reg \ {p}
           z == [vlans[v] EXCEPT !.reg = A]
           w == UpdateVlan(z, up)
           n == vlans'
           f == TableFree(table, vlans, n)
           member == FALSE
           t == TableUpdate(f, v, p, member)
<1>1. vlans[v] \in VlanType /\ A \in SUBSET Ports /\ p \in vlans[v].reg
  BY DEF VlanType, VlanLeave
<1>2. n = [vlans EXCEPT ![v] = w] /\ table' = IF cfg.bridge THEN t ELSE f
  BY DEF VlanLeave
<1>3. z \in VlanType /\ z.reg = A /\ z.alloc = vlans[v].alloc
  BY <1>1 DEF VlanType
<1>4. w = UpdateVlan(z, up) /\ t = TableUpdate(f, v, p, member) /\ f = TableFree(table, vlans, n)
      /\ member \in BOOLEAN
  OBVIOUS
<1>5. ~member
  OBVIOUS
<1> HIDE DEF z, w, t, f, member
<1>6. w \in VlanType /\ w.reg = A /\ (vlans[v].alloc => w.alloc \/ A = {})
  <2>1. UpdateVlan(z, up) \in VlanType
    BY <1>3, UpdateVlanTyped
  <2>2. UpdateVlan(z, up).reg = z.reg /\ (z.alloc => UpdateVlan(z, up).alloc \/ z.reg = {})
    BY <1>3, UpdateKeepsReg
  <2> QED BY <1>3, <1>4, <2>1, <2>2
<1>7. n \in [VIDs -> VlanType] /\ n[v] = w /\ \A u \in VIDs : u # v => n[u] = vlans[u]
  BY <1>2, <1>6
<1> HIDE DEF n
<1>8. ASSUME cfg.bridge
      PROVE  /\ table' \in TableType
             /\ \A u \in VIDs : /\ table'[u].members = n[u].reg
                                /\ ~n[u].alloc => n[u].reg = {}
  <2>1. /\ table \in TableType
        /\ \A u \in VIDs : /\ table[u].members = vlans[u].reg
                           /\ ~vlans[u].alloc => vlans[u].reg = {}
    BY <1>8 DEF FilterOk
  <2>2. vlans[v].alloc
    BY <1>1, <2>1
  <2>3. /\ f \in TableType
        /\ \A u \in VIDs : f[u] = IF vlans[u].alloc /\ ~n[u].alloc THEN NoEntry ELSE table[u]
    BY <1>4, <1>8, <2>1, TableFreeSpec
  <2>4. /\ t \in TableType /\ \A u \in VIDs : u # v => t[u] = f[u]
        /\ member => t[v].members = f[v].members \cup {p}
        /\ ~member => t[v].members = f[v].members \ {p}
    BY <1>4, <2>3, TableUpdateSpec
  <2>5. table' = t
    BY <1>2, <1>8
  <2>6. t[v].members = w.reg
    <3>1. CASE w.alloc
      BY <1>5, <1>6, <1>7, <2>1, <2>3, <2>4, <3>1
    <3>2. CASE ~w.alloc
      <4>1. f[v].members = {} /\ A = {}
        BY <1>6, <1>7, <2>2, <2>3, <3>2 DEF NoEntry
      <4> HIDE DEF A
      <4> QED BY <1>5, <1>6, <2>4, <4>1
    <3> QED BY <3>1, <3>2
  <2>7. \A u \in VIDs : u # v => t[u] = table[u]
    BY <1>7, <2>3, <2>4
  <2> HIDE DEF A
  <2> QED BY <1>6, <1>7, <2>1, <2>2, <2>4, <2>5, <2>6, <2>7
<1> QED BY <1>7, <1>8 DEF n, FilterOk, TableType

LEMMA VlanRegisterStep ==
  ASSUME vlans \in [VIDs -> VlanType], FilterOk, cfg' = cfg, up \in SUBSET Ports,
         NEW v \in VIDs, NEW p \in Ports, VlanRegister(v, p) \/ VlanDeregister(v, p)
  PROVE  vlans' \in [VIDs -> VlanType] /\ FilterOk'
<1> DEFINE n == vlans'
<1>1. CASE VlanRegister(v, p)
  <2>1. n = RegisterMember(vlans, v, p, up) /\ table' = table
    BY <1>1 DEF VlanRegister
  <2> HIDE DEF n
  <2>2. n \in [VIDs -> VlanType]
    BY <2>1, MembersTyped
  <2>3. /\ \A u \in VIDs : n[u].reg = vlans[u].reg
        /\ \A u \in VIDs : n[u].alloc \/ n[u] = vlans[u] \/ n[u].reg = {}
    BY <2>1, RegisterMemberReg
  <2> QED BY <2>1, <2>2, <2>3 DEF n, FilterOk, TableType
<1>2. CASE VlanDeregister(v, p)
  <2>1. n = DeregisterMember(vlans, v, p, up) /\ table' = TableFree(table, vlans, n)
    BY <1>2 DEF VlanDeregister
  <2> HIDE DEF n
  <2>2. n \in [VIDs -> VlanType]
    BY <2>1, MembersTyped
  <2>3. /\ \A u \in VIDs : n[u].reg = vlans[u].reg
        /\ \A u \in VIDs : n[u].alloc \/ n[u] = vlans[u] \/ n[u].reg = {}
    BY <2>1, DeregisterMemberReg
  <2>4. CASE ~cfg.bridge
    BY <2>2, <2>4 DEF n, FilterOk
  <2>5. CASE cfg.bridge
    <3>1. \A u \in VIDs : n[u].reg = vlans[u].reg /\ (~n[u].alloc => n[u].reg = {})
      BY <2>3, <2>5 DEF FilterOk
    <3> QED BY <2>1, <2>2, <3>1, FilterAfterFree DEF n
  <2> QED BY <2>4, <2>5
<1> QED BY <1>1, <1>2

\* No event of MVRP changes the users but the application's own request.
LEMMA VlanEventUsers ==
  ASSUME vlans \in [VIDs -> VlanType], NEW v \in VIDs, NEW p \in Ports,
         \/ VlanJoin(v, p) \/ VlanLeave(v, p)
         \/ <<v, p>> \in cfg.vlanUsers /\ (VlanRegister(v, p) \/ VlanDeregister(v, p))
  PROVE  \A u \in VIDs : /\ VlanOk(vlans[u]) => VlanOk(vlans'[u])
                         /\ \A q \in Ports : <<u, q>> \notin cfg.vlanUsers
                                                => vlans'[u].ref[q] = vlans[u].ref[q]
<1> DEFINE n == vlans'
<1>0. n = vlans'
  OBVIOUS
<1> HIDE DEF n
<1>1. ASSUME NEW z, z.ref = vlans[v].ref, VlanOk(vlans[v]) => VlanOk(z), z \in VlanType,
             n = [vlans EXCEPT ![v] = UpdateVlan(z, up)]
      PROVE  \A u \in VIDs : /\ VlanOk(vlans[u]) => VlanOk(n[u])
                             /\ \A q \in Ports : n[u].ref[q] = vlans[u].ref[q]
  <2> DEFINE w == UpdateVlan(z, up)
             f == up
  <2>1. w = UpdateVlan(z, f) /\ n = [vlans EXCEPT ![v] = w]
    BY <1>1
  <2> HIDE DEF w, f
  <2>2. (\A q \in Ports : w.ref[q] = z.ref[q]) /\ (VlanOk(z) => VlanOk(w))
    BY <1>1, <2>1, UpdateKeepsRef
  <2>3. n[v] = w /\ \A u \in VIDs : u # v => n[u] = vlans[u]
    BY <2>1
  <2> QED BY <1>1, <2>2, <2>3
<1>2. CASE VlanJoin(v, p)
  <2> DEFINE A == vlans[v].reg \cup {p}
             z == [vlans[v] EXCEPT !.alloc = TRUE, !.reg = A]
  <2>1. n = [vlans EXCEPT ![v] = UpdateVlan(z, up)]
    BY <1>0, <1>2 DEF VlanJoin
  <2>2. z \in VlanType /\ z.ref = vlans[v].ref /\ z.alloc
    BY DEF VlanType
  <2>3. VlanOk(z)
    BY <2>2 DEF VlanOk
  <2> HIDE DEF z
  <2>4. \A u \in VIDs : /\ VlanOk(vlans[u]) => VlanOk(n[u])
                       /\ \A q \in Ports : n[u].ref[q] = vlans[u].ref[q]
    BY <1>1, <2>1, <2>2, <2>3
  <2> QED BY <1>0, <2>4
<1>3. CASE VlanLeave(v, p)
  <2> DEFINE A == vlans[v].reg \ {p}
             z == [vlans[v] EXCEPT !.reg = A]
  <2>1. n = [vlans EXCEPT ![v] = UpdateVlan(z, up)]
    BY <1>0, <1>3 DEF VlanLeave
  <2>2. z \in VlanType /\ z.ref = vlans[v].ref /\ z.alloc = vlans[v].alloc
    BY DEF VlanType
  <2>3. VlanOk(vlans[v]) => VlanOk(z)
    BY <2>2 DEF VlanOk
  <2> HIDE DEF z
  <2>4. \A u \in VIDs : /\ VlanOk(vlans[u]) => VlanOk(n[u])
                       /\ \A q \in Ports : n[u].ref[q] = vlans[u].ref[q]
    BY <1>1, <2>1, <2>2, <2>3
  <2> QED BY <1>0, <2>4
<1> DEFINE vs == vlans
           f == up
<1>4. CASE <<v, p>> \in cfg.vlanUsers /\ VlanRegister(v, p)
  <2>1. n = RegisterMember(vs, v, p, f)
    BY <1>0, <1>4 DEF VlanRegister
  <2> HIDE DEF f
  <2>2. /\ \A u \in VIDs : u # v => n[u] = vs[u]
        /\ \A q \in Ports : q # p => n[v].ref[q] = vs[v].ref[q]
        /\ VlanOk(n[v])
    BY <2>1, RegisterMemberRef
  <2> QED BY <1>0, <1>4, <2>2
<1>5. CASE <<v, p>> \in cfg.vlanUsers /\ VlanDeregister(v, p)
  <2>1. n = DeregisterMember(vs, v, p, f) /\ VlanOk(vs[v])
    BY <1>0, <1>5 DEF VlanDeregister, VlanOk
  <2> HIDE DEF f
  <2>2. /\ \A u \in VIDs : u # v => n[u] = vs[u]
        /\ \A q \in Ports : q # p => n[v].ref[q] = vs[v].ref[q]
        /\ VlanOk(n[v])
    BY <2>1, DeregisterMemberRef
  <2> QED BY <1>0, <1>5, <2>2
<1> QED BY <1>2, <1>3, <1>4, <1>5

LEMMA VlanEventStep ==
  ASSUME Inv, NEW p \in cfg.ports, NEW v \in VIDs, VlanEvent(v, p)
  PROVE  Inv'
<1>1. p \in Ports /\ up \in SUBSET Ports /\ vlans \in [VIDs -> VlanType] /\ FilterOk
  BY InvParts, GoodTypes DEF Inv
<1>2. /\ cfg' = cfg /\ up' = up /\ enabled' = enabled /\ boundary' = boundary
      /\ streams' = streams /\ order' = order /\ bw' = bw /\ mad' = mad /\ told' = told
      /\ VlanJoin(v, p) \/ VlanLeave(v, p) \/ VlanRegister(v, p) \/ VlanDeregister(v, p)
  BY DEF VlanEvent
<1>3. vlans' \in [VIDs -> VlanType] /\ FilterOk'
  BY <1>1, <1>2, VlanJoinStep, VlanLeaveStep, VlanRegisterStep
<1>4. \/ VlanJoin(v, p) \/ VlanLeave(v, p)
      \/ <<v, p>> \in cfg.vlanUsers /\ (VlanRegister(v, p) \/ VlanDeregister(v, p))
  BY DEF VlanEvent
<1> DEFINE n == vlans'
<1>5. n = vlans' /\ cfg.ports \subseteq Ports
  BY InvParts
<1> HIDE DEF n
<1>6. \A u \in VIDs : /\ VlanOk(vlans[u]) => VlanOk(n[u])
                     /\ \A q \in Ports : <<u, q>> \notin cfg.vlanUsers
                                            => n[u].ref[q] = vlans[u].ref[q]
  BY <1>1, <1>4, <1>5, VlanEventUsers
<1> QED BY <1>2, <1>3, <1>5, <1>6, VlanAction
-----------------------------------------------------------------------------
(***************************************************************************)
(* The invariant.                                                          *)
(***************************************************************************)
LEMMA InitInv ==
  ASSUME Init
  PROVE  Inv
<1>1. cfg \in Configs /\ cfg.ports \subseteq Ports /\ up \in SUBSET Ports /\ enabled = cfg.ports
  BY MSRPAssumption DEF Init
<1>2. /\ streams = [s \in Streams |-> NoStream] /\ order = <<>> /\ bw = [p \in Ports |-> 0]
      /\ mad = [p \in Ports |-> NoMad] /\ boundary = [p \in Ports |-> IsBoundary(cfg.reg[p])]
      /\ told = [s \in Streams |-> [p \in Ports |-> [talker |-> "NONE", listener |-> "NONE"]]]
      /\ vlans = [v \in VIDs |-> NoVlan] /\ table = [v \in VIDs |-> NoEntry]
  BY DEF Init, MVRPInit
<1>3. Ctx \in CtxType
  <2>1. NoStream \in StreamType /\ NoMad \in MadType /\ NoVlan \in VlanType
    BY NoStreamTyped DEF NoMad, MadType, NoVlan, VlanType
  <2>2. \A p \in Ports : IsBoundary(cfg.reg[p]) \in BOOLEAN
    BY DEF IsBoundary
  <2>3. /\ streams \in [Streams -> StreamType] /\ order \in Seq(Streams) /\ bw \in [Ports -> Nat]
        /\ mad \in [Ports -> MadType] /\ vlans \in [VIDs -> VlanType]
        /\ boundary \in [Ports -> BOOLEAN]
    BY <1>2, <2>1, <2>2
  <2> QED BY <1>1, <2>3 DEF Ctx, CtxType
<1>4. ASSUME NEW s \in Streams
      PROVE  Ctx.st[s] = NoStream /\ Mapped(Ctx, s)
             /\ \A p \in Ports : ListenerRight(Ctx, s, p) /\ Apart(Ctx.st[s], p)
  <2>1. Ctx.st[s] = NoStream
    BY <1>2, CtxFields
  <2> QED BY <2>1, EmptyIsRight
<1>5. ASSUME NEW s \in Streams, NEW p \in Ports PROVE PortOk(Ctx, s, p)
  <2>1. /\ Ctx.st[s].tReg[p] = {} /\ Ctx.st[s].lReg[p] = {} /\ Ctx.st[s].decT[p] = "NONE"
        /\ Ctx.st[s].decL[p] = "NONE" /\ Ctx.st[s].fqtss = {} /\ Ctx.st[s].fdb = {}
    BY <1>4 DEF NoStream
  <2>2. Ctx.mad[p] = NoMad
    BY <1>2, CtxFields
  <2>3. /\ Real(NoMad, s, "T", "NONE") /\ Real(NoMad, s, "L", "NONE")
        /\ NotLeaving(NoMad, s, "T") /\ NotLeaving(NoMad, s, "L")
    BY DEF Real, NotLeaving, NoMad
  <2> QED BY <2>1, <2>2, <2>3 DEF PortOk
<1>6. ASSUME NEW p \in Ports PROVE BandwidthOk(Ctx, p)
  <2>1. Holders(Ctx, p) = {}
    BY <1>4 DEF Holders, NoStream
  <2>2. Units({}) = {}
    BY DEF Units
  <2>3. Cardinality({}) = 0 /\ Limit \in Nat
    BY FS_EmptySet, MSRPAssumption
  <2>4. Ctx.bw[p] = 0
    BY <1>2, CtxFields
  <2> QED BY <2>1, <2>2, <2>3, <2>4 DEF BandwidthOk
<1>7. Good(Ctx)
  <2>1. CtxOk(Ctx)
    BY <1>1, <1>3, <1>5, <1>6, CtxFields DEF CtxOk
  <2>2. ListOk(Ctx)
    BY <1>4 DEF ListOk
  <2> QED BY <1>4, <2>1, <2>2 DEF Good
<1>8. StatusOk
  <2>1. [talker |-> "NONE", listener |-> "NONE"] \in [talker : AllTypes, listener : AllTypes]
    BY DEF AllTypes
  <2>2. told \in ToldType
    BY <1>2, <2>1 DEF ToldType
  <2>3. \A s \in Streams : streams[s].userT = {} /\ streams[s].userL = {}
    BY <1>2 DEF NoStream
  <2> QED BY <2>2, <2>3 DEF StatusOk, StatusOf
<1>9. FilterOk
  <2>1. NoEntry \in [present : BOOLEAN, members : SUBSET Ports] /\ NoEntry.members = {}
    BY DEF NoEntry
  <2>2. NoVlan.reg = {}
    BY DEF NoVlan
  <2> QED BY <1>2, <2>1, <2>2 DEF FilterOk, TableType
<1>10. FollowsOk
  <2>1. \A s \in Streams : SidesOf(streams[s], s)
    BY <1>2 DEF SidesOf, NoStream
  <2>2. UsersOk(Ctx)
    <3>1. \A u \in Streams : ~Ctx.st[u].vlan
      BY <1>4 DEF NoStream
    <3>2. ASSUME NEW v \in VIDs PROVE UsersOf(Ctx, v) = {} /\ Cardinality(UsersOf(Ctx, v)) = 0
      BY <3>1, FS_EmptySet DEF UsersOf
    <3>3. ASSUME NEW v \in VIDs
          PROVE  VlanOk(Ctx.vlans[v]) /\ \A p \in Ports : Ctx.vlans[v].ref[p] = 0
      BY <1>2, CtxFields DEF NoVlan, VlanOk
    <3>4. Counted(Ctx)
      BY <1>1, <3>1, <3>2, <3>3 DEF Counted
    <3> QED BY <3>1, <3>4 DEF UsersOk, Entitled
  <2>3. Follows(Ctx)
    BY <1>4, <2>2 DEF Follows
  <2> QED BY <2>1, <2>3 DEF FollowsOk
<1> QED BY <1>1, <1>7, <1>8, <1>9, <1>10 DEF Inv

\* Every step keeps the invariant.
LEMMA NextInv ==
  ASSUME Orderly(cfg), ~DisableUp, Inv, [Next]_vars
  PROVE  Inv'
<1>1. CASE UNCHANGED vars
  <2>1. /\ cfg' = cfg /\ up' = up /\ vlans' = vlans /\ table' = table /\ enabled' = enabled
        /\ boundary' = boundary /\ streams' = streams /\ order' = order /\ bw' = bw /\ mad' = mad
        /\ told' = told
    BY <1>1 DEF vars
  <2> QED BY <2>1, IdleStep
<1>2. CASE FdbRoom
  <2>1. /\ cfg' = cfg /\ up' = up /\ vlans' = vlans /\ table' = table /\ enabled' = enabled
        /\ boundary' = boundary /\ streams' = streams /\ order' = order /\ bw' = bw /\ mad' = mad
        /\ told' = told
    BY <1>2 DEF FdbRoom
  <2> QED BY <2>1, IdleStep
<1>3. CASE DeregisterAll
  BY <1>3, DeregisterAllStep
<1>4. ASSUME NEW p \in cfg.ports, NEW s \in Streams, NEW t \in cfg.tTypes,
             \/ \E new \in BOOLEAN : TalkerJoin(p, s, t, new)
             \/ TalkerLeave(p, s, t)
      PROVE  Inv'
  BY <1>4, TalkerJoinStep, TalkerLeaveStep
<1>5. ASSUME NEW p \in cfg.ports, NEW s \in Streams, NEW t \in cfg.lTypes,
             \/ \E new \in BOOLEAN : ListenerJoin(p, s, t, new)
             \/ ListenerLeave(p, s, t)
      PROVE  Inv'
  BY <1>5, ListenerJoinStep, ListenerLeaveStep
<1>6. ASSUME NEW p \in cfg.ports, NEW s \in Streams,
             \/ RegisterStream(p, s) \/ DeregisterStream(p, s)
             \/ RegisterAttach(p, s) \/ DeregisterAttach(p, s)
      PROVE  Inv'
  BY <1>6, RegisterStreamStep, RegisterAttachStep, DeregisterSteps
<1>7. ASSUME NEW p \in cfg.ports, NEW k, DomainJoin(p, k) \/ DomainLeave(p, k)
      PROVE  Inv'
  BY <1>7, DomainSteps
<1>8. ASSUME NEW p \in cfg.ports, PortStatus(p) \/ PortEnable(p) \/ PortDisable(p)
      PROVE  Inv'
  BY <1>8, PortStatusStep, PortEnableStep, PortDisableStep
<1>9. ASSUME NEW p \in cfg.ports, NEW a, LeaveSent(p, a)
      PROVE  Inv'
  BY <1>9, LeaveSentStep
<1>10. ASSUME NEW p \in cfg.ports, NEW v \in VIDs, VlanEvent(v, p)
       PROVE  Inv'
  BY <1>10, VlanEventStep
<1> QED BY <1>1, <1>2, <1>3, <1>4, <1>5, <1>6, <1>7, <1>8, <1>9, <1>10 DEF Next

\* The invariant holds in every state, if the events are orderly and a port is
\* disabled only while its link is down.
LEMMA AlwaysInv ==
  ASSUME \A c \in Configs : Orderly(c), ~DisableUp
  PROVE  Spec => []Inv
<1>1. Init => Inv
  BY InitInv
<1>2. Inv /\ [Next]_vars => Inv'
  <2> SUFFICES ASSUME Inv, [Next]_vars PROVE Inv'
    OBVIOUS
  <2>1. Orderly(cfg)
    BY DEF Inv
  <2> QED BY <2>1, NextInv
<1> QED BY <1>1, <1>2, PTL DEF Spec
-----------------------------------------------------------------------------
(***************************************************************************)
(* The properties the invariant gives.                                     *)
(***************************************************************************)
LEMMA InvBandwidth ==
  ASSUME Inv
  PROVE  BandwidthAccounted
<1> SUFFICES ASSUME NEW p \in Ports
             PROVE  /\ bw[p] = Cardinality(Units({s \in Streams : p \in streams[s].fqtss}))
                    /\ bw[p] <= Limit
  BY DEF BandwidthAccounted
<1>1. BandwidthOk(Ctx, p)
  BY DEF Inv, Good, CtxOk
<1>2. Holders(Ctx, p) = {s \in Streams : p \in streams[s].fqtss}
  BY CtxFields DEF Holders
<1> QED BY <1>1, <1>2, CtxFields DEF BandwidthOk

LEMMA InvForwarding ==
  ASSUME Inv
  PROVE  ForwardingReserved
<1>1. ASSUME NEW s \in Streams, NEW p \in Ports
      PROVE  TalkerRight(Ctx, s, p) /\ PortOk(Ctx, s, p)
  BY DEF Inv, Good, CtxOk, Mapped
<1> QED BY <1>1, CtxFields DEF ForwardingReserved, TalkerRight, PortOk

\* Real of every stream and direction is equality of the sets.
LEMMA InvReal ==
  ASSUME Inv
  PROVE  DeclarationsAreReal
<1> SUFFICES ASSUME NEW p \in Ports
             PROVE  mad[p].dec = {<<s, "T", streams[s].decT[p]>> :
                                      s \in {u \in Streams : streams[u].decT[p] # "NONE"}}
                                 \cup {<<s, "L", streams[s].decL[p]>> :
                                      s \in {u \in Streams : streams[u].decL[p] # "NONE"}}
  BY DEF DeclarationsAreReal
<1> DEFINE m == mad[p]
           T == {<<s, "T", streams[s].decT[p]>> : s \in {u \in Streams : streams[u].decT[p] # "NONE"}}
           L == {<<s, "L", streams[s].decL[p]>> : s \in {u \in Streams : streams[u].decL[p] # "NONE"}}
<1>1. Good(Ctx) /\ m.dec \in SUBSET Attributes
  BY GoodTypes DEF Inv, MadType
<1>2. ASSUME NEW s \in Streams
      PROVE  /\ Real(m, s, "T", streams[s].decT[p]) /\ Real(m, s, "L", streams[s].decL[p])
             /\ streams[s].decT[p] \in AllTypes /\ streams[s].decL[p] \in AllTypes
  <2>1. PortOk(Ctx, s, p) /\ streams[s] \in StreamType
    BY <1>1, GoodTypes DEF Good, CtxOk
  <2> QED BY <2>1, CtxFields DEF PortOk, StreamType, AllTypes
<1> HIDE DEF m
<1>3. ASSUME NEW s \in Streams, NEW t \in AllTypes
      PROVE  /\ <<s, "T", t>> \in m.dec <=> t = streams[s].decT[p] /\ t # "NONE"
             /\ <<s, "L", t>> \in m.dec <=> t = streams[s].decL[p] /\ t # "NONE"
  BY <1>2 DEF Real
<1>4. m.dec \subseteq T \cup L
  <2> SUFFICES ASSUME NEW a \in m.dec PROVE a \in T \cup L
    OBVIOUS
  <2>1. PICK s \in Streams, dir \in {"T", "L"}, t \in AllTypes : a = <<s, dir, t>>
    BY <1>1 DEF Attributes
  <2>2. CASE dir = "T"
    BY <1>3, <2>1, <2>2
  <2>3. CASE dir = "L"
    BY <1>3, <2>1, <2>3
  <2> QED BY <2>2, <2>3
<1>5. T \subseteq m.dec /\ L \subseteq m.dec
  BY <1>2, <1>3
<1> QED BY <1>4, <1>5 DEF m

LEMMA InvStatus ==
  ASSUME Inv
  PROVE  StatusAgrees
BY DEF Inv, StatusOk, StatusOf, StatusAgrees

LEMMA InvFilter ==
  ASSUME Inv
  PROVE  FilterFollows
BY DEF Inv, FilterOk, FilterFollows

\* Two members make two.
LEMMA TwoMembers ==
  ASSUME NEW T, IsFiniteSet(T), NEW a \in T, NEW b \in T, a # b
  PROVE  Cardinality(T) >= 2
<1>1. IsFiniteSet({a}) /\ Cardinality({a}) = 1
  BY FS_Singleton
<1> DEFINE A == {a}
<1>2. b \notin A /\ A \cup {b} = {a, b} /\ IsFiniteSet(A) /\ Cardinality(A) = 1
  BY <1>1
<1> HIDE DEF A
<1>3. IsFiniteSet(A \cup {b}) /\ Cardinality(A \cup {b}) = 2
  BY <1>2, FS_AddElement
<1>4. A \cup {b} \in SUBSET T
  BY <1>2
<1>5. Cardinality(A \cup {b}) <= Cardinality(T) /\ Cardinality(T) \in Nat
  BY <1>4, FS_Subset, FS_CardinalityType
<1> QED BY <1>3, <1>5

\* An advertised talker is the only one, and is advertised there.
LEMMA OneSource ==
  ASSUME NEW r, IsFiniteSet(TalkerPorts(r)), MapTalkerType(r) = "ADV"
  PROVE  /\ ~(Cardinality(TalkerPorts(r)) >= 2)
         /\ \A q \in TalkerPorts(r) : TalkerType(r, q) # "FAIL"
<1> DEFINE T == TalkerPorts(r)
           c == CHOOSE p \in T : TRUE
<1>1. ~(Cardinality(T) >= 2)
  BY DEF MapTalkerType
<1>2. ASSUME NEW q \in T PROVE TalkerType(r, q) # "FAIL"
  <2>1. c \in T
    BY <1>2
  <2>2. TalkerType(r, c) = "ADV"
    BY <1>1, <1>2 DEF MapTalkerType
  <2> HIDE DEF c, T
  <2>3. IsFiniteSet(T)
    BY DEF T
  <2>4. c = q
    BY <1>1, <1>2, <2>1, <2>3, TwoMembers
  <2> QED BY <2>2, <2>4
<1> QED BY <1>1, <1>2

\* The listener declared is the merge of those behind the port.
LEMMA InvFollow ==
  ASSUME Inv, Separate(cfg)
  PROVE  DeclarationsFollow
<1> SUFFICES ASSUME NEW s \in Streams, NEW p \in up \cap enabled
             PROVE
        LET r       == streams[s]
            sources == TalkerPorts(r) \cap up
            behind  == ListenersBehind(r, p)
            toward  == \/ p \in r.userL
                       \/ /\ p \in TalkerPorts(r) /\ ListenerPorts(r) \ {p} # {}
                          /\ (ListenerPorts(r) \cap up # {} \/ r.userL # {})
        IN  /\ r.decT[p] # "NONE" <=>
                  p \notin TalkerPorts(r) /\ (sources # {} \/ r.userT # {})
            /\ (boundary[p] \/ Cardinality(TalkerPorts(r)) >= 2
                   \/ \E q \in sources : TalkerType(r, q) = "FAIL")
                  => r.decT[p] # "ADV"
            /\ r.decL[p] # "NONE" <=> toward
            /\ toward =>
                  r.decL[p] = IF TalkerType(r, p) # "ADV" THEN "ASK"
                              ELSE IF "RF" \in behind \/ {"READY", "ASK"} \subseteq behind
                                   THEN "RF"
                              ELSE CHOOSE t \in behind : TRUE
  BY DEF DeclarationsFollow
<1> DEFINE r == streams[s]
           behind == ListenersBehind(r, p)
           toward == \/ p \in r.userL
                     \/ /\ p \in TalkerPorts(r) /\ ListenerPorts(r) \ {p} # {}
                        /\ (ListenerPorts(r) \cap up # {} \/ r.userL # {})
<1>1. /\ cfg \in Configs /\ Good(Ctx) /\ up \in SUBSET Ports /\ p \in Ports
      /\ p \in cfg.ports /\ p \in enabled /\ p \in up /\ IsFiniteSet(cfg.ports)
      /\ enabled \subseteq cfg.ports
  BY GoodTypes, MSRPAssumption DEF Inv
<1>2. TalkerRight(Ctx, s, p) /\ ListenerRight(Ctx, s, p)
  BY <1>1 DEF Inv, FollowsOk, Follows, Good, Mapped
<1>3. /\ DeclaresTalker(Ctx, s, p) <=> p \notin TalkerPorts(r) /\ (TalkerPorts(r) \cap up # {} \/ r.userT # {})
      /\ DeclaresListener(Ctx, s, p) <=> toward
  BY <1>1, CtxFields DEF DeclaresTalker, DeclaresListener
<1>4. /\ r.decT[p] # "NONE" <=> DeclaresTalker(Ctx, s, p)
      /\ r.decT[p] = "ADV" => MapTalkerType(r) = "ADV" /\ ~boundary[p]
      /\ r.decL[p] # "NONE" <=> DeclaresListener(Ctx, s, p)
      /\ r.decL[p] # "NONE" => ListenerDeclaration(r, p, r.decL[p])
  BY <1>1, <1>2, CtxFields DEF TalkerRight, ListenerRight
<1>5. IsFiniteSet(TalkerPorts(r))
  <2>1. TalkerPorts(r) \in SUBSET cfg.ports
    BY <1>1, InvParts DEF TalkerPorts
  <2> QED BY <1>1, <2>1, FS_Subset
<1>6. (boundary[p] \/ Cardinality(TalkerPorts(r)) >= 2
         \/ \E q \in TalkerPorts(r) \cap up : TalkerType(r, q) = "FAIL") => r.decT[p] # "ADV"
  <2> HIDE DEF r
  <2> QED BY <1>4, <1>5, OneSource
<1>7. ASSUME toward
      PROVE  r.decL[p] = IF TalkerType(r, p) # "ADV" THEN "ASK"
                         ELSE IF "RF" \in behind \/ {"READY", "ASK"} \subseteq behind
                              THEN "RF"
                         ELSE CHOOSE t \in behind : TRUE
  <2> DEFINE d == r.decL[p]
  <2>1. d # "NONE" /\ ListenerDeclaration(r, p, d)
    BY <1>3, <1>4, <1>7
  <2>2. CASE TalkerType(r, p) # "ADV"
    BY <2>1, <2>2 DEF ListenerDeclaration
  <2>3. CASE TalkerType(r, p) = "ADV"
    <3>1. Merged(behind, d)
      BY <2>1, <2>3 DEF ListenerDeclaration
    <3> HIDE DEF behind, d
    <3>2. CASE "RF" \in behind \/ {"READY", "ASK"} \subseteq behind
      <4>1. d = "RF"
        BY <3>1, <3>2 DEF Merged
      <4> QED BY <2>3, <3>2, <4>1 DEF d
    <3>3. CASE ~("RF" \in behind \/ {"READY", "ASK"} \subseteq behind)
      <4>1. d \in {"READY", "ASK"}
        BY <2>1, <3>1, <3>3 DEF Merged, ListenerTypes
      <4>2. behind = {d}
        BY <3>1, <4>1 DEF Merged
      <4>3. (CHOOSE t \in behind : TRUE) = d
        BY <4>2
      <4> QED BY <2>3, <3>3, <4>3 DEF d
    <3> QED BY <3>2, <3>3
  <2> QED BY <2>2, <2>3
<1> QED BY <1>3, <1>4, <1>6, <1>7

LEMMA InvVlans ==
  ASSUME Inv, Separate(cfg), OnePort(cfg)
  PROVE  VlanUsersCounted
<1>1. Counted(Ctx) /\ \A s \in Streams : Entitled(Ctx, s)
  BY DEF Inv, FollowsOk, Follows, UsersOk
<1>2. \A v \in VIDs : UsersOf(Ctx, v) = {s \in Streams : streams[s].vlan /\ Vid[s] = v}
  BY CtxFields DEF UsersOf
<1>3. \A v \in VIDs, p \in cfg.ports :
        <<v, p>> \notin cfg.vlanUsers =>
            vlans[v].ref[p] = Cardinality({s \in Streams : streams[s].vlan /\ Vid[s] = v})
  BY <1>1, <1>2, CtxFields DEF Counted
<1>4. \A s \in Streams :
        streams[s].vlan =>
            \E p \in cfg.ports : \/ p \in streams[s].userT
                                 \/ streams[s].decL[p] \in {"READY", "RF"}
  BY <1>1, CtxFields DEF Entitled
<1> QED BY <1>3, <1>4 DEF VlanUsersCounted

-----------------------------------------------------------------------------
(***************************************************************************)
(* Bandwidth is neither lost nor counted twice: the idle slope of a port   *)
(* is the sum of the slopes of the streams with a reservation there and    *)
(* within the limit, after any sequence of registrations, refusals, link   *)
(* changes and frees (common_fqtss_stream_add and _remove as msrp_map.c    *)
(* calls them), for any number of streams and ports.                       *)
(***************************************************************************)
THEOREM BandwidthIsAccounted ==
  ASSUME \A c \in Configs : Orderly(c), ~DisableUp
  PROVE  Spec => []BandwidthAccounted
<1>1. Spec => []Inv
  BY AlwaysInv
<1>2. Inv => BandwidthAccounted
  BY InvBandwidth
<1> QED BY <1>1, <1>2, PTL

(***************************************************************************)
(* A stream is forwarded to a port exactly when its talker is advertised   *)
(* there to a ready listener, and never without the reservation            *)
(* (talker_update_declaration with its refusals and roll-backs).           *)
(***************************************************************************)
THEOREM ForwardingIsReserved ==
  ASSUME \A c \in Configs : Orderly(c), ~DisableUp
  PROVE  Spec => []ForwardingReserved
<1>1. Spec => []Inv
  BY AlwaysInv
<1>2. Inv => ForwardingReserved
  BY InvForwarding
<1> QED BY <1>1, <1>2, PTL

(***************************************************************************)
(* The declared bits of the stream entries and the attributes declared in  *)
(* MRP are the same: none outlives its stream, none is lost when a         *)
(* declaration is replaced (msrp_map.c against mrp.c).                     *)
(***************************************************************************)
THEOREM DeclarationsHold ==
  ASSUME \A c \in Configs : Orderly(c), ~DisableUp
  PROVE  Spec => []DeclarationsAreReal
<1>1. Spec => []Inv
  BY AlwaysInv
<1>2. Inv => DeclarationsAreReal
  BY InvReal
<1> QED BY <1>1, <1>2, PTL

(***************************************************************************)
(* On a port that is up and enabled the declarations of a stream are those *)
(* its registrations call for (802.1Q 35.2.4; msrp_map.c,                  *)
(* msrp_map_update_talker_stream and msrp_map_update_listener_stream).     *)
(***************************************************************************)
THEOREM DeclarationsFollowRegistrations ==
  ASSUME \A c \in Configs : Orderly(c), ~DisableUp
  PROVE  Spec => []DeclarationsFollow
<1>1. Spec => []Inv
  BY AlwaysInv
<1>2. Inv => DeclarationsFollow
  <2> SUFFICES ASSUME Inv PROVE DeclarationsFollow
    OBVIOUS
  <2>1. Separate(cfg)
    BY SeparateAssumption DEF Inv
  <2> QED BY <2>1, InvFollow
<1> QED BY <1>1, <1>2, PTL

(***************************************************************************)
(* The status the application was last sent for a stream it declared is    *)
(* the merged registration of the port, although it is sent on changes     *)
(* only (msrp_talker_registration_merge, msrp_listener_registration_merge  *)
(* and the registration requests).                                         *)
(***************************************************************************)
THEOREM StatusIsTold ==
  ASSUME \A c \in Configs : Orderly(c), ~DisableUp
  PROVE  Spec => []StatusAgrees
<1>1. Spec => []Inv
  BY AlwaysInv
<1>2. Inv => StatusAgrees
  BY InvStatus
<1> QED BY <1>1, <1>2, PTL

(***************************************************************************)
(* The VLAN filter table of a bridge has the registrations as its members, *)
(* although an entry is deleted with the last user of the VLAN and created *)
(* again by the leave handler that runs on (mvrp_leave_indication).        *)
(***************************************************************************)
THEOREM FilterIsRegistrations ==
  ASSUME \A c \in Configs : Orderly(c), ~DisableUp
  PROVE  Spec => []FilterFollows
<1>1. Spec => []Inv
  BY AlwaysInv
<1>2. Inv => FilterFollows
  BY InvFilter
<1> QED BY <1>1, <1>2, PTL

(***************************************************************************)
(* No user of a VLAN is lost or leaked: each entry counts the streams that *)
(* use it, and a stream uses its VLAN only while the application talks or  *)
(* it listens ready (msrp_register_vlan and msrp_deregister_vlan, called   *)
(* by the requests, the maps and the frees), when an endpoint instance has *)
(* one port, as the code builds every one of them; a bridge registers no   *)
(* VLAN for a stream.                                                      *)
(***************************************************************************)
THEOREM VlanUsersAreCounted ==
  ASSUME \A c \in Configs : Orderly(c) /\ OnePort(c), ~DisableUp
  PROVE  Spec => []VlanUsersCounted
<1>1. Spec => []Inv
  BY AlwaysInv
<1>2. Inv => VlanUsersCounted
  <2> SUFFICES ASSUME Inv PROVE VlanUsersCounted
    OBVIOUS
  <2>1. Separate(cfg) /\ OnePort(cfg)
    BY SeparateAssumption DEF Inv
  <2> QED BY <2>1, InvVlans
<1> QED BY <1>1, <1>2, PTL
=============================================================================
