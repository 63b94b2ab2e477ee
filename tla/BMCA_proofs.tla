----------------------------- MODULE BMCA_proofs -----------------------------
(***************************************************************************)
(* Proofs about the best master selection, for any number of systems and   *)
(* ports, any ranks, links and faults: type correctness, what the host is  *)
(* told, and, on a network without loops, that a system has a slave port   *)
(* exactly when its grandmaster is another system.                         *)
(***************************************************************************)
EXTENDS BMCA, SequenceTheorems, WellFoundedInduction, TLAPS

-----------------------------------------------------------------------------
(* The best port.                                                          *)

\* A set of natural numbers has a least one.
LEMMA LeastNat ==
  ASSUME NEW S \in SUBSET Nat, S # {}
  PROVE  \E n \in S : \A m \in S : n <= m
<1> DEFINE R == OpToRel(<, Nat)
<1>1. IsWellFoundedOn(R, Nat)
  BY NatLessThanWellFounded
<1>2. \A m, n \in S : <<m, n>> \in R <=> m < n
  BY DEF OpToRel
<1> HIDE DEF R
<1>3. PICK n \in S : \A m \in S : ~(<<m, n>> \in R)
  BY <1>1, WFMin
<1>4. ASSUME NEW m \in S PROVE ~(m < n)
  BY <1>2, <1>3, Zenon
<1>5. ASSUME NEW m \in S PROVE n <= m
  <2>1. m \in Nat /\ n \in Nat
    OBVIOUS
  <2> QED
    BY <1>4, <2>1
<1> QED
  BY <1>5

\* Of the members of a set one has the least measure.
LEMMA LeastOf ==
  ASSUME NEW C, C # {}, NEW k, \A e \in C : k[e] \in Nat
  PROVE  \E e \in C : \A f \in C : k[e] <= k[f]
<1> DEFINE S == {k[e] : e \in C}
<1>1. S \in SUBSET Nat /\ S # {}
  OBVIOUS
<1>2. PICK n \in S : \A m \in S : n <= m
  <2> HIDE DEF S
  <2> QED BY <1>1, LeastNat
<1> QED
  BY <1>2

\* What comparing two root identities byte by byte means.
LEMMA RootLess ==
  ASSUME NEW a \in Roots, NEW b \in Roots
  PROVE  /\ a[1] \in Nat /\ a[2] \in Nat /\ b[1] \in Nat /\ b[2] \in Nat
         /\ a[1] < b[1] => LexLess(a, b)
         /\ a[1] = b[1] /\ a[2] < b[2] => LexLess(a, b)
         /\ a[1] = b[1] /\ a[2] = b[2] => a = b
<1>1. /\ a[1] \in Nat /\ a[2] \in Nat /\ b[1] \in Nat /\ b[2] \in Nat
      /\ DOMAIN a = 1 .. 2 /\ a = <<a[1], a[2]>> /\ b = <<b[1], b[2]>>
  BY DEF Roots
<1>2. ASSUME a[1] < b[1] PROVE LexLess(a, b)
  <2>1. \A j \in 1 .. 1 - 1 : a[j] = b[j]
    OBVIOUS
  <2>2. 1 \in DOMAIN a
    BY <1>1
  <2> QED
    BY <1>2, <2>1, <2>2 DEF LexLess
<1>3. ASSUME a[1] = b[1], a[2] < b[2] PROVE LexLess(a, b)
  <2>1. \A j \in 1 .. 2 - 1 : a[j] = b[j]
    BY <1>3
  <2>2. 2 \in DOMAIN a
    BY <1>1
  <2> QED
    BY <1>3, <2>1, <2>2 DEF LexLess
<1> QED
  BY <1>1, <1>2, <1>3

\* Among ports that received a root there is a best one.
LEMMA BestExists ==
  ASSUME NEW C, C # {}, NEW r, NEW k, \A e \in C : r[e] \in Roots /\ k[e] \in Nat
  PROVE  \E e \in C : \A f \in C : LexLess(r[e], r[f]) \/ (r[e] = r[f] /\ k[e] <= k[f])
<1> DEFINE r1 == [e \in C |-> r[e][1]]
           r2 == [e \in C |-> r[e][2]]
<1>1. \A e \in C : r1[e] = r[e][1] /\ r2[e] = r[e][2] /\ r1[e] \in Nat /\ r2[e] \in Nat
  BY RootLess
<1> HIDE DEF r1, r2
<1>2. PICK a \in C : \A f \in C : r1[a] <= r1[f]
  BY <1>1, LeastOf
<1> DEFINE D == {e \in C : r1[e] = r1[a]}
<1>3. PICK b \in D : \A f \in D : r2[b] <= r2[f]
  <2>1. D # {} /\ \A e \in D : r2[e] \in Nat
    BY <1>1
  <2> HIDE DEF D
  <2> QED BY <2>1, LeastOf
<1> DEFINE E == {e \in D : r2[e] = r2[b]}
<1>4. PICK c \in E : \A f \in E : k[c] <= k[f]
  <2>1. E # {} /\ \A e \in E : k[e] \in Nat
    BY <1>1
  <2> HIDE DEF E
  <2> QED BY <2>1, LeastOf
<1>5. c \in C /\ r1[c] = r1[a] /\ r2[c] = r2[b]
  OBVIOUS
<1>6. ASSUME NEW f \in C PROVE LexLess(r[c], r[f]) \/ (r[c] = r[f] /\ k[c] <= k[f])
  <2>1. r1[f] \in Nat /\ r2[f] \in Nat /\ r1[c] \in Nat /\ r2[c] \in Nat /\ r1[c] <= r1[f]
    BY <1>1, <1>2, <1>5
  <2>2. CASE r1[c] < r1[f]
    BY <1>1, <1>5, <2>2, RootLess
  <2>3. CASE r1[c] = r1[f]
    <3>1. f \in D /\ r2[c] <= r2[f]
      BY <1>3, <1>5, <2>3
    <3>2. CASE r2[c] < r2[f]
      BY <1>1, <1>5, <2>3, <3>2, RootLess
    <3>3. CASE r2[c] = r2[f]
      <4>1. f \in E
        BY <1>5, <3>1, <3>3
      <4>2. r[c] = r[f]
        BY <1>1, <1>5, <2>3, <3>3, RootLess
      <4> QED
        BY <1>4, <4>1, <4>2
    <3> QED
      BY <2>1, <3>1, <3>2, <3>3
  <2> QED
    BY <2>1, <2>2, <2>3
<1> QED
  BY <1>5, <1>6

-----------------------------------------------------------------------------
(* The selection.                                                          *)

\* A pair has two parts.
LEMMA PairParts ==
  ASSUME NEW S, NEW T, NEW e \in S \X T
  PROVE  e = <<e[1], e[2]>> /\ e[1] \in S /\ e[2] \in T
OBVIOUS

\* A system is not zero, and its identity is a root; an end has a system and
\* a port number; every cable has two ends.
LEMMA Identities ==
  ASSUME TypeOK
  PROVE  /\ \A s \in Systems : s \in Nat /\ s # 0 /\ SystemIdentity(s) \in Roots
                               /\ SystemIdentity(s)[2] = s /\ SystemPriority(s) \in Vectors
                               /\ SystemPriority(s).root = SystemIdentity(s)
         /\ \A e \in DOMAIN net : /\ e = <<e[1], e[2]>> /\ e[1] \in Systems /\ e[2] \in Nat
                                  /\ e \in Nat \X Nat
                                  /\ net[e] \in DOMAIN net /\ net[net[e]] = e
<1>1. ASSUME NEW s \in Systems
      PROVE  /\ s \in Nat /\ s # 0 /\ SystemIdentity(s) \in Roots
             /\ SystemIdentity(s)[2] = s
             /\ SystemPriority(s) = [root |-> SystemIdentity(s), steps |-> 0, src |-> <<s, 0>>, number |-> 0]
  <2>1. s \in Nat /\ s # 0 /\ Ranks[s] \in Nat
    BY BMCAAssumption
  <2> QED
    BY <2>1 DEF SystemIdentity, Roots, SystemPriority, Vector
<1>2. \A s \in Systems : SystemPriority(s) \in Vectors /\ SystemPriority(s).root = SystemIdentity(s)
  BY <1>1 DEF Vectors
<1>3. PICK n \in Nets : net = n.cable
  BY DEF TypeOK
<1>4. DOMAIN net \subseteq Ends /\ \A e \in DOMAIN net : net[e] \in DOMAIN net /\ net[net[e]] = e
  BY <1>3, BMCAAssumption
<1>5. ASSUME NEW e \in Ends
      PROVE  e = <<e[1], e[2]>> /\ e[1] \in Systems /\ e[2] \in Nat /\ e[1] \in Nat
  <2>1. e \in Systems \X (Nat \ {0}) /\ Systems \subseteq Nat
    BY BMCAAssumption
  <2>2. e = <<e[1], e[2]>> /\ e[1] \in Systems /\ e[2] \in Nat \ {0}
    BY <2>1, PairParts
  <2> QED
    BY <2>1, <2>2
<1> QED
  BY <1>1, <1>2, <1>4, <1>5

\* The grandmaster vector of a system is its own, or that of a candidate.
LEMMA GmPriorityFrom ==
  ASSUME TypeOK, NEW s \in Systems, NEW ps \in [DOMAIN net -> PortStates]
  PROVE  /\ GmPriority(s, ps) \in Vectors
         /\ \/ GmPriority(s, ps) = SystemPriority(s)
            \/ \E e \in Candidates(s, ps) : GmPriority(s, ps).root = ps[e].pp.root
<1> DEFINE C == Candidates(s, ps)
<1>1. C \subseteq DOMAIN net /\ \A e \in C : e[1] = s /\ e[2] \in Nat
  BY Identities DEF Candidates, EndsOf
<1>2. CASE C = {}
  BY <1>2, Identities DEF GmPriority
<1>3. CASE C # {}
  <2> DEFINE r == [e \in C |-> ps[e].pp.root]
             k == [e \in C |-> e[2]]
             b == BestPort(s, ps)
  <2>1. \A e \in C : r[e] = ps[e].pp.root /\ k[e] = e[2] /\ r[e] \in Roots /\ k[e] \in Nat
    BY <1>1 DEF PortStates, Vectors
  <2> HIDE DEF r, k
  <2>2. \E e \in C : \A f \in C : LexLess(r[e], r[f]) \/ (r[e] = r[f] /\ k[e] <= k[f])
    <3> HIDE DEF C
    <3> QED BY <1>3, <2>1, BestExists
  <2>3. \E e \in C : \A f \in C : \/ LexLess(ps[e].pp.root, ps[f].pp.root)
                                  \/ ps[e].pp.root = ps[f].pp.root /\ e[2] <= f[2]
    BY <2>1, <2>2
  <2>4. b \in C
    BY <2>3 DEF BestPort
  <2>5. GmPriority(s, ps) = Vector(ps[b].pp.root, ps[b].pp.steps + 1, ps[b].pp.src, b[2])
    BY <1>3 DEF GmPriority
  <2>6. ps[b].pp \in Vectors /\ b[2] \in Nat
    BY <1>1, <2>4 DEF PortStates
  <2> HIDE DEF b
  <2>7. GmPriority(s, ps) = [root |-> ps[b].pp.root, steps |-> ps[b].pp.steps + 1,
                             src |-> ps[b].pp.src, number |-> b[2]]
    BY <2>5 DEF Vector
  <2>8. GmPriority(s, ps) \in Vectors /\ GmPriority(s, ps).root = ps[b].pp.root
    BY <2>6, <2>7 DEF Vectors
  <2> QED
    BY <2>4, <2>8
<1> QED
  BY <1>2, <1>3

\* The trace an announce carries is a sequence of identities.
LEMMA AnnounceType ==
  ASSUME NEW e \in Nat \X Nat, NEW g \in Vectors, NEW pt \in [1 .. MaxPath -> Nat]
  PROVE  Announce(e, g, pt) \in Announces /\ Announce(e, g, pt).root = g.root
<1> DEFINE n == IF g.steps + 1 > MaxPath THEN MaxPath ELSE g.steps + 1
           tr == SubSeq(pt, 1, n)
<1>1. g.root \in Roots /\ g.steps \in Nat /\ MaxPath \in Nat
  BY BMCAAssumption DEF Vectors
<1>2. n \in 0 .. MaxPath
  BY <1>1
<1>3. pt \in Seq(Nat) /\ Len(pt) = MaxPath
  BY <1>1
<1> HIDE DEF n
<1>4. tr \in Seq(Nat)
  BY <1>1, <1>2, <1>3, SubSeqProperties
<1>5. Announce(e, g, pt) = [root |-> g.root, steps |-> g.steps, src |-> e, trace |-> tr]
  BY DEF Announce, n
<1> HIDE DEF tr
<1> QED
  BY <1>1, <1>4, <1>5 DEF Announces

\* A new path trace.
LEMMA NewPathType ==
  ASSUME NEW s \in Systems PROVE NewPath(s) \in [1 .. MaxPath -> Nat]
<1>1. s \in Nat
  BY BMCAAssumption
<1> QED
  BY <1>1 DEF NewPath

\* The roles of ports that are disabled, own, and received.
LEMMA RoleCases ==
  ASSUME NEW s, NEW ps, NEW g, NEW e, ps[e].info \in {"DISABLED", "AGED", "MINE", "RECEIVED"}
  PROVE  /\ Role(s, ps, g, e) \in {"DISABLED", "MASTER", "SLAVE", "PASSIVE"}
         /\ Role(s, ps, g, e) = "SLAVE" <=>
              ps[e].info = "RECEIVED" /\ ps[e].pp.root[2] = g.root[2]
<1>1. CASE ps[e].info = "DISABLED"
  BY <1>1 DEF Role
<1>2. CASE ps[e].info \in {"AGED", "MINE"}
  BY <1>2 DEF Role
<1>3. CASE ps[e].info = "RECEIVED"
  <2>1. Role(s, ps, g, e) = IF ps[e].pp.root[2] = g.root[2] THEN "SLAVE"
                            ELSE IF LexLess(g.root, ps[e].pp.root) THEN "MASTER" ELSE "PASSIVE"
    BY <1>3 DEF Role
  <2> QED
    BY <1>3, <2>1
<1> QED
  BY <1>1, <1>2, <1>3

\* What port_state_selection_sm does to the ports of the system and to the
\* others, to the vectors that were received, and what it sends.
LEMMA SelectPorts ==
  ASSUME TypeOK, NEW s \in Systems, NEW ps \in [DOMAIN net -> PortStates],
         NEW pt \in [1 .. MaxPath -> Nat], NEW ch \in [DOMAIN net -> Announces \cup {NoAnnounce}],
         Select(s, ps, pt, ch)
  PROVE  LET g == GmPriority(s, ps)
         IN  /\ gm' = [gm EXCEPT ![s] = g]
             /\ told' = [told EXCEPT ![s] = Indication(s, g)]
             /\ path' \in [Systems -> [1 .. MaxPath -> Nat]]
             /\ port' \in [DOMAIN net -> PortStates]
             /\ chan' \in [DOMAIN net -> Announces \cup {NoAnnounce}]
             /\ \A e \in DOMAIN net :
                  /\ e[1] = s => port'[e].role = Role(s, ps, g, e)
                  /\ e[1] # s => port'[e] = ps[e]
                  /\ port'[e].info = "RECEIVED" => ps[e].info = "RECEIVED" /\ port'[e].pp = ps[e].pp
                  /\ \/ chan'[e] = ch[e]
                     \/ /\ chan'[e].root = g.root /\ net[e][1] = s
                        /\ Role(s, ps, g, net[e]) = "MASTER"
<1> DEFINE g == GmPriority(s, ps)
           upd == {e \in EndsOf(s) : Updated(ps, Role(s, ps, g, e), g, e)}
           trace == IF g.root[2] = s THEN NewPath(s) ELSE pt
           np(e) == IF e \in upd
                    THEN [ps[e] EXCEPT !.role = Role(s, ps, g, e), !.info = "MINE",
                                       !.pp = MasterPriority(g, e)]
                    ELSE IF e[1] = s THEN [ps[e] EXCEPT !.role = Role(s, ps, g, e)]
                    ELSE ps[e]
<1>1. /\ port' = [e \in DOMAIN ps |-> np(e)]
      /\ gm' = [gm EXCEPT ![s] = g]
      /\ path' = [path EXCEPT ![s] = trace]
      /\ told' = [told EXCEPT ![s] = Indication(s, g)]
      /\ chan' = Send(ch, upd, g, trace)
  <2>1. SelectFor(s, ps, pt, ch, g)
    BY DEF Select
  <2> HIDE DEF g
  <2> QED
    BY <2>1 DEF SelectFor
<1>2. g \in Vectors
  BY GmPriorityFrom
<1>3. trace \in [1 .. MaxPath -> Nat]
  BY NewPathType
<1>4. path' \in [Systems -> [1 .. MaxPath -> Nat]]
  <2> HIDE DEF trace
  <2> QED BY <1>1, <1>3 DEF TypeOK
<1>5. \A e \in upd : e \in DOMAIN net /\ e[1] = s /\ Role(s, ps, g, e) = "MASTER"
  BY DEF EndsOf, Updated
<1> HIDE DEF g, upd, trace
<1>6. ASSUME NEW e \in DOMAIN net
      PROVE  /\ np(e) \in PortStates
             /\ e[1] = s => np(e).role = Role(s, ps, g, e)
             /\ e[1] # s => np(e) = ps[e]
             /\ np(e).info = "RECEIVED" => ps[e].info = "RECEIVED" /\ np(e).pp = ps[e].pp
  <2> DEFINE a == ps[e]
             ro == Role(s, ps, g, e)
             mp == MasterPriority(g, e)
  <2>1. a \in PortStates
    OBVIOUS
  <2>2. ro \in {"DISABLED", "MASTER", "SLAVE", "PASSIVE"}
    BY <2>1, RoleCases DEF PortStates
  <2>3. mp \in Vectors
    <3>1. e \in Nat \X Nat /\ e[2] \in Nat
      BY Identities
    <3> QED
      BY <1>2, <3>1 DEF MasterPriority, Vector, Vectors
  <2>4. np(e) = IF e \in upd THEN [a EXCEPT !.role = ro, !.info = "MINE", !.pp = mp]
                ELSE IF e[1] = s THEN [a EXCEPT !.role = ro] ELSE a
    OBVIOUS
  <2> HIDE DEF np, a, ro, mp
  <2>5. CASE e \in upd
    <3>1. np(e) = [a EXCEPT !.role = ro, !.info = "MINE", !.pp = mp]
      BY <2>4, <2>5
    <3>2. np(e) \in PortStates /\ np(e).role = ro /\ np(e).info = "MINE"
      BY <2>1, <2>2, <2>3, <3>1 DEF PortStates
    <3> QED
      BY <3>2, <1>5, <2>5 DEF ro
  <2>6. CASE e \notin upd /\ e[1] = s
    <3>1. np(e) = [a EXCEPT !.role = ro]
      BY <2>4, <2>6
    <3>2. np(e) \in PortStates /\ np(e).role = ro /\ np(e).info = a.info /\ np(e).pp = a.pp
      BY <2>1, <2>2, <3>1 DEF PortStates
    <3> QED
      BY <3>2, <2>6 DEF ro, a
  <2>7. CASE e \notin upd /\ e[1] # s
    BY <2>1, <2>4, <2>7 DEF a
  <2> QED
    BY <2>5, <2>6, <2>7
<1>7. port' \in [DOMAIN net -> PortStates] /\ \A e \in DOMAIN net : port'[e] = np(e)
  <2> HIDE DEF np
  <2> QED BY <1>1, <1>6
<1>8. ASSUME NEW f \in DOMAIN net
      PROVE  /\ chan'[f] \in Announces \cup {NoAnnounce}
             /\ \/ chan'[f] = ch[f]
                \/ chan'[f].root = g.root /\ net[f][1] = s /\ Role(s, ps, g, net[f]) = "MASTER"
  <2>1. chan'[f] = IF net[f] \in upd /\ f \in link THEN Announce(net[f], g, trace) ELSE ch[f]
    BY <1>1 DEF Send
  <2>2. CASE net[f] \in upd /\ f \in link
    <3>1. net[f] \in Nat \X Nat
      BY Identities
    <3>2. Announce(net[f], g, trace) \in Announces /\ Announce(net[f], g, trace).root = g.root
      BY <1>2, <1>3, <3>1, AnnounceType
    <3> QED
      BY <1>5, <2>1, <2>2, <3>2
  <2>3. CASE ~(net[f] \in upd /\ f \in link)
    BY <2>1, <2>3
  <2> QED
    BY <2>2, <2>3
<1>9. chan' \in [DOMAIN net -> Announces \cup {NoAnnounce}]
  <2>1. chan' = [f \in DOMAIN net |-> chan'[f]]
    BY <1>1 DEF Send
  <2> QED
    BY <1>8, <2>1
<1> HIDE DEF np
<1>10. /\ gm' = [gm EXCEPT ![s] = g]
       /\ told' = [told EXCEPT ![s] = Indication(s, g)]
       /\ \A e \in DOMAIN net :
            /\ e[1] = s => port'[e].role = Role(s, ps, g, e)
            /\ e[1] # s => port'[e] = ps[e]
            /\ port'[e].info = "RECEIVED" => ps[e].info = "RECEIVED" /\ port'[e].pp = ps[e].pp
  BY <1>1, <1>6, <1>7
<1> QED
  BY <1>4, <1>7, <1>8, <1>9, <1>10 DEF g

-----------------------------------------------------------------------------
(* What a step does.                                                       *)

\* The ports a handler gives to port_state_selection_sm: those of other
\* systems are as they were, and what a port has received it had, or has
\* from the announce that arrives.
Heard(s, ps) ==
    \A e \in DOMAIN net :
        /\ e[1] # s => ps[e] = port[e]
        /\ ps[e].info = "RECEIVED" =>
              \/ port[e].info = "RECEIVED" /\ ps[e].pp = port[e].pp
              \/ chan[e] # NoAnnounce /\ ps[e].pp.root = chan[e].root

\* A handler that selects the grandmaster and the roles again.
Reselects(s, ps, pt, ch) ==
    /\ s \in Systems /\ ps \in [DOMAIN net -> PortStates]
    /\ pt \in [1 .. MaxPath -> Nat] /\ ch \in [DOMAIN net -> Announces \cup {NoAnnounce}]
    /\ Heard(s, ps)
    /\ \A e \in DOMAIN net : ch[e] \in {chan[e], NoAnnounce}
    /\ Select(s, ps, pt, ch)

\* A step that selects nothing: an announce is sent, lost or not qualified,
\* a link changes, a timer stops.
Keeps ==
    /\ gm' = gm /\ told' = told
    /\ path' \in [Systems -> [1 .. MaxPath -> Nat]]
    /\ port' \in [DOMAIN net -> PortStates]
    /\ chan' \in [DOMAIN net -> Announces \cup {NoAnnounce}]
    /\ \A e \in DOMAIN net :
          /\ port'[e].info = port[e].info /\ port'[e].pp = port[e].pp /\ port'[e].role = port[e].role
          /\ \/ chan'[e] \in {chan[e], NoAnnounce}
             \/ port[net[e]].role = "MASTER" /\ chan'[e].root = gm[net[e][1]].root

\* The ports when one of them has new information.
LEMMA PortsWith ==
  ASSUME TypeOK, NEW e \in DOMAIN net, NEW r \in PortStates,
         \/ r.info # "RECEIVED"
         \/ chan[e] # NoAnnounce /\ r.pp.root = chan[e].root
  PROVE  LET ps == [port EXCEPT ![e] = r]
         IN  ps \in [DOMAIN net -> PortStates] /\ Heard(e[1], ps)
<1> DEFINE ps == [port EXCEPT ![e] = r]
<1>1. port \in [DOMAIN net -> PortStates]
  BY DEF TypeOK
<1>2. ps \in [DOMAIN net -> PortStates] /\ ps[e] = r /\ \A f \in DOMAIN net : f # e => ps[f] = port[f]
  BY <1>1
<1> HIDE DEF ps
<1>3. Heard(e[1], ps)
  BY <1>2 DEF Heard
<1> QED
  BY <1>2, <1>3 DEF ps

\* A port whose information changes.
LEMMA OnePort ==
  ASSUME NEW p \in PortStates, NEW i \in {"DISABLED", "AGED", "MINE", "RECEIVED"}, NEW t \in BOOLEAN,
         NEW v \in Vectors
  PROVE  /\ [p EXCEPT !.info = i] \in PortStates /\ [p EXCEPT !.info = i].info = i
         /\ [p EXCEPT !.info = i, !.timed = t] \in PortStates
         /\ [p EXCEPT !.info = i, !.timed = t].info = i
         /\ [p EXCEPT !.timed = t] \in PortStates /\ [p EXCEPT !.timed = t].info = p.info
         /\ [p EXCEPT !.timed = t].pp = p.pp /\ [p EXCEPT !.timed = t].role = p.role
         /\ [p EXCEPT !.pp = v, !.info = i, !.timed = t] \in PortStates
         /\ [p EXCEPT !.pp = v, !.info = i, !.timed = t].pp = v
BY DEF PortStates

\* The trace kept of an announce.
LEMMA PathTraceType ==
  ASSUME TypeOK, NEW e \in DOMAIN net, NEW m \in Announces
  PROVE  PathTrace(e, m) \in [1 .. MaxPath -> Nat]
<1>1. /\ path[e[1]] \in [1 .. MaxPath -> Nat] /\ e[1] \in Nat /\ MaxPath \in Nat /\ m.trace \in Seq(Nat)
  BY Identities, BMCAAssumption DEF TypeOK, Announces
<1> DEFINE tr == m.trace
           old == path[e[1]]
           n == IF Len(tr) > MaxPath - 1 THEN MaxPath - 1 ELSE Len(tr)
           x == e[1]
           new == [i \in 1 .. MaxPath |-> IF i <= n THEN tr[i] ELSE IF i = n + 1 THEN x ELSE old[i]]
<1>2. Len(tr) \in Nat /\ \A i \in 1 .. Len(tr) : tr[i] \in Nat
  BY <1>1
<1>3. n <= Len(tr) /\ n \in Int
  BY <1>1, <1>2
<1>4. PathTrace(e, m) = IF port[e].role # "SLAVE" THEN old ELSE new
  BY DEF PathTrace
<1>5. old \in [1 .. MaxPath -> Nat] /\ x \in Nat
  BY <1>1
<1> HIDE DEF tr, n, old, x
<1>6. new \in [1 .. MaxPath -> Nat]
  BY <1>1, <1>2, <1>3, <1>5
<1> HIDE DEF new
<1> QED
  BY <1>4, <1>5, <1>6

\* The same channels with nothing on the way to one end.
LEMMA ChanWithout ==
  ASSUME TypeOK, NEW e \in DOMAIN net
  PROVE  /\ [chan EXCEPT ![e] = NoAnnounce] \in [DOMAIN net -> Announces \cup {NoAnnounce}]
         /\ \A f \in DOMAIN net : [chan EXCEPT ![e] = NoAnnounce][f] \in {chan[f], NoAnnounce}
BY DEF TypeOK

\* An end that ages.
LEMMA AgedStep ==
  ASSUME TypeOK, NEW e \in DOMAIN net, NEW t \in BOOLEAN, Aged(e, t)
  PROVE  \E s, ps, pt, ch : Reselects(s, ps, pt, ch)
<1> DEFINE r == [port[e] EXCEPT !.info = "AGED", !.timed = t]
           ps == [port EXCEPT ![e] = r]
<1>1. port[e] \in PortStates /\ port \in [DOMAIN net -> PortStates] /\ path[e[1]] \in [1 .. MaxPath -> Nat]
      /\ chan \in [DOMAIN net -> Announces \cup {NoAnnounce}] /\ e[1] \in Systems
  BY Identities DEF TypeOK
<1>2. r \in PortStates /\ r.info = "AGED"
  BY <1>1 DEF PortStates
<1>3. [port EXCEPT ![e].info = "AGED", ![e].timed = t] = ps
  BY <1>1
<1>4. Select(e[1], ps, path[e[1]], chan)
  BY <1>3 DEF Aged
<1> HIDE DEF r
<1>5. ps \in [DOMAIN net -> PortStates] /\ Heard(e[1], ps)
  BY <1>2, PortsWith
<1> HIDE DEF ps
<1>6. Reselects(e[1], ps, path[e[1]], chan)
  BY <1>1, <1>4, <1>5 DEF Reselects
<1> QED
  BY <1>6

\* A step keeps the cables; it selects again, or keeps what is selected.
LEMMA ReceiveStep ==
  ASSUME TypeOK, NEW e \in DOMAIN net, Receive(e)
  PROVE  Keeps \/ \E s, ps, pt, ch : Reselects(s, ps, pt, ch)
<1> DEFINE m == chan[e]
           v == Vector(m.root, m.steps, m.src, e[2])
           gone == [chan EXCEPT ![e] = NoAnnounce]
           r == [port[e] EXCEPT !.pp = v, !.info = "RECEIVED", !.timed = TRUE]
           ps == [port EXCEPT ![e] = r]
           pt == PathTrace(e, m)
<1>1. /\ port[e] \in PortStates /\ port \in [DOMAIN net -> PortStates] /\ e[1] \in Systems /\ e[2] \in Nat
      /\ path \in [Systems -> [1 .. MaxPath -> Nat]]
      /\ chan \in [DOMAIN net -> Announces \cup {NoAnnounce}]
  BY Identities DEF TypeOK
<1>2. m # NoAnnounce /\ m \in Announces
  BY <1>1 DEF Receive
<1>3. pt \in [1 .. MaxPath -> Nat]
  BY <1>2, PathTraceType
<1>4. gone \in [DOMAIN net -> Announces \cup {NoAnnounce}] /\ \A f \in DOMAIN net : gone[f] \in {chan[f], NoAnnounce}
  BY ChanWithout
<1>5. v \in Vectors /\ v.root = m.root
  BY <1>1, <1>2 DEF Vector, Vectors, Announces
<1>6. \/ chan' = gone /\ UNCHANGED <<port, gm, path, told>>
      \/ Select(e[1], ps, pt, gone)
      \/ path' = [path EXCEPT ![e[1]] = pt] /\ chan' = gone /\ UNCHANGED <<port, gm, told>>
  <2>1. [port EXCEPT ![e].pp = v, ![e].info = "RECEIVED", ![e].timed = TRUE] = ps
    BY <1>1
  <2> QED
    BY <2>1 DEF Receive
<1> HIDE DEF v
<1>7. r \in PortStates /\ r.pp = v
  BY <1>1, <1>5 DEF PortStates
<1> HIDE DEF gone, pt, r
<1>8. CASE chan' = gone /\ UNCHANGED <<port, gm, path, told>>
  BY <1>1, <1>4, <1>8 DEF Keeps
<1>9. CASE Select(e[1], ps, pt, gone)
  <2>1. ps \in [DOMAIN net -> PortStates] /\ Heard(e[1], ps)
    BY <1>2, <1>5, <1>7, PortsWith
  <2> HIDE DEF ps
  <2>2. Reselects(e[1], ps, pt, gone)
    BY <1>1, <1>3, <1>4, <1>9, <2>1 DEF Reselects
  <2> QED
    BY <2>2
<1>10. CASE path' = [path EXCEPT ![e[1]] = pt] /\ chan' = gone /\ UNCHANGED <<port, gm, told>>
  <2>1. path' \in [Systems -> [1 .. MaxPath -> Nat]]
    BY <1>1, <1>3, <1>10
  <2> QED
    BY <1>1, <1>4, <1>10, <2>1 DEF Keeps
<1> QED
  BY <1>6, <1>8, <1>9, <1>10

LEMMA TimeoutStep ==
  ASSUME TypeOK, NEW e \in DOMAIN net, AnnounceTimeout(e)
  PROVE  Keeps \/ \E s, ps, pt, ch : Reselects(s, ps, pt, ch)
<1>1. /\ port[e] \in PortStates /\ port \in [DOMAIN net -> PortStates]
      /\ path \in [Systems -> [1 .. MaxPath -> Nat]]
      /\ chan \in [DOMAIN net -> Announces \cup {NoAnnounce}]
  BY DEF TypeOK
<1>2. CASE port[e].info = "RECEIVED"
  BY <1>2, AgedStep DEF AnnounceTimeout
<1>3. CASE port[e].info # "RECEIVED"
  <2> DEFINE r == [port[e] EXCEPT !.timed = FALSE]
  <2>1. port' = [port EXCEPT ![e] = r] /\ UNCHANGED <<gm, path, told, chan>>
    BY <1>1, <1>3 DEF AnnounceTimeout
  <2>2. r \in PortStates /\ r.info = port[e].info /\ r.pp = port[e].pp /\ r.role = port[e].role
    BY <1>1 DEF PortStates
  <2> HIDE DEF r
  <2>3. port' \in [DOMAIN net -> PortStates] /\ port'[e] = r /\ \A f \in DOMAIN net : f # e => port'[f] = port[f]
    BY <1>1, <2>1, <2>2
  <2> QED
    BY <1>1, <2>1, <2>2, <2>3 DEF Keeps
<1> QED
  BY <1>2, <1>3

LEMMA TransmitStep ==
  ASSUME TypeOK, NEW e \in DOMAIN net, TransmitInterval(e)
  PROVE  Keeps
<1> DEFINE g == gm[e[1]]
           pt == path[e[1]]
<1>1. /\ port \in [DOMAIN net -> PortStates] /\ e \in Nat \X Nat
      /\ g \in Vectors /\ pt \in [1 .. MaxPath -> Nat]
      /\ path \in [Systems -> [1 .. MaxPath -> Nat]]
      /\ chan \in [DOMAIN net -> Announces \cup {NoAnnounce}]
  BY Identities DEF TypeOK
<1>2. Announce(e, g, pt) \in Announces /\ Announce(e, g, pt).root = g.root
  BY <1>1, AnnounceType
<1>3. /\ chan' = [f \in DOMAIN net |-> IF net[f] \in {e} /\ f \in link THEN Announce(net[f], g, pt) ELSE chan[f]]
      /\ UNCHANGED <<port, gm, path, told>> /\ port[e].role = "MASTER"
  BY <1>1 DEF TransmitInterval, Send
<1>4. \A f \in DOMAIN net : IF net[f] = e /\ f \in link THEN chan'[f] = Announce(e, g, pt) ELSE chan'[f] = chan[f]
  BY <1>3
<1>5. \A f \in DOMAIN net : chan'[f] \in Announces \cup {NoAnnounce}
  BY <1>1, <1>2, <1>4
<1>6. chan' \in [DOMAIN net -> Announces \cup {NoAnnounce}]
  BY <1>3, <1>5
<1>7. \A f \in DOMAIN net : \/ chan'[f] = chan[f]
                            \/ net[f] = e /\ chan'[f].root = gm[net[f][1]].root
  BY <1>2, <1>4
<1> QED
  BY <1>1, <1>3, <1>6, <1>7 DEF Keeps

LEMMA DownStep ==
  ASSUME TypeOK, NEW e \in DOMAIN net, PortDown(e)
  PROVE  \E s, ps, pt, ch : Reselects(s, ps, pt, ch)
<1> DEFINE r == [port[e] EXCEPT !.info = "DISABLED"]
           ps == [port EXCEPT ![e] = r]
<1>1. port[e] \in PortStates /\ port \in [DOMAIN net -> PortStates] /\ path[e[1]] \in [1 .. MaxPath -> Nat]
      /\ chan \in [DOMAIN net -> Announces \cup {NoAnnounce}] /\ e[1] \in Systems
  BY Identities DEF TypeOK
<1>2. r \in PortStates /\ r.info = "DISABLED"
  BY <1>1 DEF PortStates
<1>3. [port EXCEPT ![e].info = "DISABLED"] = ps
  BY <1>1
<1>4. Select(e[1], ps, path[e[1]], chan)
  BY <1>3 DEF PortDown
<1> HIDE DEF r
<1>5. ps \in [DOMAIN net -> PortStates] /\ Heard(e[1], ps)
  BY <1>2, PortsWith
<1> HIDE DEF ps
<1>6. Reselects(e[1], ps, path[e[1]], chan)
  BY <1>1, <1>4, <1>5 DEF Reselects
<1> QED
  BY <1>6

LEMMA MediumStep ==
  ASSUME TypeOK, NEW e \in DOMAIN net, LinkChange(e) \/ Lose(e)
  PROVE  Keeps
<1>1. /\ port \in [DOMAIN net -> PortStates] /\ path \in [Systems -> [1 .. MaxPath -> Nat]]
      /\ chan \in [DOMAIN net -> Announces \cup {NoAnnounce}] /\ net[e] \in DOMAIN net
  BY Identities DEF TypeOK
<1>2. UNCHANGED <<port, gm, path, told>>
  BY DEF LinkChange, Lose
<1>3. \/ chan' = [chan EXCEPT ![e] = NoAnnounce, ![net[e]] = NoAnnounce]
      \/ chan' = [chan EXCEPT ![e] = NoAnnounce]
  BY DEF LinkChange, Lose
<1>4. /\ chan' \in [DOMAIN net -> Announces \cup {NoAnnounce}]
      /\ \A f \in DOMAIN net : chan'[f] \in {chan[f], NoAnnounce}
  BY <1>1, <1>3
<1> QED
  BY <1>1, <1>2, <1>4 DEF Keeps

LEMMA StepCases ==
  ASSUME TypeOK, Next
  PROVE  /\ net' = net /\ link' \subseteq DOMAIN net /\ on' \subseteq DOMAIN net /\ faults' \in Nat
         /\ Keeps \/ \E s, ps, pt, ch : Reselects(s, ps, pt, ch)
<1>1. PICK e \in DOMAIN net : Protocol(e) \/ SyncTimeout(e) \/ LinkChange(e) \/ Lose(e)
  BY DEF Next
<1>2. /\ port[e].timed \in BOOLEAN /\ link \subseteq DOMAIN net /\ on \subseteq DOMAIN net
      /\ faults \in Nat /\ net[e] \in DOMAIN net
  BY Identities DEF TypeOK, PortStates
<1>3. net' = net /\ link' \subseteq DOMAIN net /\ on' \subseteq DOMAIN net /\ faults' \in Nat
  <2>1. CASE Receive(e) \/ AnnounceTimeout(e) \/ TransmitInterval(e)
    BY <1>2, <2>1 DEF Receive, AnnounceTimeout, TransmitInterval
  <2>2. CASE PortUp(e) \/ PortDown(e)
    BY <1>2, <2>2 DEF PortUp, PortDown
  <2>3. CASE SyncTimeout(e) \/ Lose(e)
    BY <1>2, <2>3 DEF SyncTimeout, Lose
  <2>4. CASE LinkChange(e)
    <3>1. net' = net /\ on' = on /\ faults' = faults - 1 /\ faults > 0
          /\ link' = IF e \in link THEN link \ {e, net[e]} ELSE link \cup {e, net[e]}
      BY <2>4 DEF LinkChange
    <3> QED
      BY <1>2, <3>1
  <2> QED
    BY <1>1, <2>1, <2>2, <2>3, <2>4 DEF Protocol
<1>4. Keeps \/ \E s, ps, pt, ch : Reselects(s, ps, pt, ch)
  <2>1. CASE Receive(e)
    BY <2>1, ReceiveStep
  <2>2. CASE AnnounceTimeout(e)
    BY <2>2, TimeoutStep
  <2>3. CASE TransmitInterval(e)
    BY <2>3, TransmitStep
  <2>4. CASE PortUp(e)
    <3>1. Aged(e, port[e].timed)
      BY <2>4 DEF PortUp
    <3> QED
      BY <1>2, <3>1, AgedStep
  <2>5. CASE PortDown(e)
    BY <2>5, DownStep
  <2>6. CASE SyncTimeout(e)
    <3>1. Aged(e, port[e].timed)
      BY <2>6 DEF SyncTimeout
    <3> QED
      BY <1>2, <3>1, AgedStep
  <2>7. CASE LinkChange(e) \/ Lose(e)
    BY <2>7, MediumStep
  <2> QED
    BY <1>1, <2>1, <2>2, <2>3, <2>4, <2>5, <2>6, <2>7 DEF Protocol
<1> QED
  BY <1>3, <1>4

\* What a new selection leaves behind, as far as the proofs below go.
LEMMA Reselected ==
  ASSUME TypeOK, NEW s, NEW ps, NEW pt, NEW ch, Reselects(s, ps, pt, ch)
  PROVE  LET g == GmPriority(s, ps)
         IN  /\ g \in Vectors
             /\ gm' = [gm EXCEPT ![s] = g] /\ gm'[s] = g
             /\ \A t \in Systems : t # s => gm'[t] = gm[t] /\ told'[t] = told[t]
             /\ told'[s] = Indication(s, g)
             /\ Indication(s, g) \in [gm : Nat, mine : BOOLEAN]
             /\ gm' \in [Systems -> Vectors]
             /\ told' \in [Systems -> [gm : Nat, mine : BOOLEAN]]
             /\ path' \in [Systems -> [1 .. MaxPath -> Nat]]
             /\ port' \in [DOMAIN net -> PortStates]
             /\ chan' \in [DOMAIN net -> Announces \cup {NoAnnounce}]
<1> DEFINE g == GmPriority(s, ps)
<1>1. /\ s \in Systems /\ ps \in [DOMAIN net -> PortStates]
      /\ pt \in [1 .. MaxPath -> Nat] /\ ch \in [DOMAIN net -> Announces \cup {NoAnnounce}]
      /\ Select(s, ps, pt, ch)
  BY DEF Reselects
<1>2. g \in Vectors
  BY <1>1, GmPriorityFrom
<1>3. /\ gm' = [gm EXCEPT ![s] = g]
      /\ told' = [told EXCEPT ![s] = Indication(s, g)]
      /\ path' \in [Systems -> [1 .. MaxPath -> Nat]]
      /\ port' \in [DOMAIN net -> PortStates]
      /\ chan' \in [DOMAIN net -> Announces \cup {NoAnnounce}]
  BY <1>1, SelectPorts
<1> HIDE DEF g
<1>4. Indication(s, g) \in [gm : Nat, mine : BOOLEAN]
  <2>1. told[s] \in [gm : Nat, mine : BOOLEAN] /\ g.root[2] \in Nat
    BY <1>1, <1>2 DEF TypeOK, Vectors, Roots
  <2>2. IsGrandmaster(s, g) \in BOOLEAN
    BY DEF IsGrandmaster
  <2> QED
    BY <2>1, <2>2 DEF Indication
<1> DEFINE i == Indication(s, g)
<1> HIDE DEF i
<1>5. told' = [told EXCEPT ![s] = i] /\ i \in [gm : Nat, mine : BOOLEAN]
  BY <1>3, <1>4 DEF i
<1>6. /\ gm' \in [Systems -> Vectors] /\ gm'[s] = g
      /\ told' \in [Systems -> [gm : Nat, mine : BOOLEAN]] /\ told'[s] = i
      /\ \A t \in Systems : t # s => gm'[t] = gm[t] /\ told'[t] = told[t]
  BY <1>1, <1>2, <1>3, <1>5 DEF TypeOK
<1> QED
  BY <1>2, <1>3, <1>5, <1>6 DEF g, i

-----------------------------------------------------------------------------
(* Type correctness and the indications to the host.                       *)

LEMMA InitType == Init => TypeOK
<1> SUFFICES ASSUME Init PROVE TypeOK
  OBVIOUS
<1>1. PICK n \in Nets : net = n.cable /\ faults = n.faults
  BY DEF Init
<1>2. Unset \in Vectors
  BY DEF Unset, Vector, Vectors, Roots
<1>3. NewPort \in PortStates
  BY <1>2 DEF NewPort, PortStates
<1>4. \A s \in Systems : NewPath(s) \in [1 .. MaxPath -> Nat]
  BY NewPathType
<1>5. /\ link = DOMAIN net /\ on = {} /\ port = [e \in DOMAIN net |-> NewPort]
      /\ gm = [s \in Systems |-> Unset] /\ path = [s \in Systems |-> NewPath(s)]
      /\ told = [s \in Systems |-> [gm |-> 0, mine |-> FALSE]]
      /\ chan = [e \in DOMAIN net |-> NoAnnounce]
  BY DEF Init
<1>6. port \in [DOMAIN net -> PortStates] /\ gm \in [Systems -> Vectors]
  BY <1>2, <1>3, <1>5
<1>7. path \in [Systems -> [1 .. MaxPath -> Nat]]
  BY <1>4, <1>5
<1>8. faults \in Nat
  BY <1>1, BMCAAssumption
<1>9. told \in [Systems -> [gm : Nat, mine : BOOLEAN]] /\ chan \in [DOMAIN net -> Announces \cup {NoAnnounce}]
  BY <1>5
<1> QED
  BY <1>1, <1>5, <1>6, <1>7, <1>8, <1>9 DEF TypeOK

LEMMA StepType == TypeOK /\ [Next]_vars => TypeOK'
<1> SUFFICES ASSUME TypeOK, [Next]_vars PROVE TypeOK'
  OBVIOUS
<1>1. CASE UNCHANGED vars
  BY <1>1 DEF vars, TypeOK, PortStates, Vectors, Roots, Announces, NoAnnounce
<1>2. CASE Next
  <2>1. /\ net' = net /\ link' \subseteq DOMAIN net /\ on' \subseteq DOMAIN net /\ faults' \in Nat
        /\ Keeps \/ \E s, ps, pt, ch : Reselects(s, ps, pt, ch)
    BY <1>2, StepCases
  <2>2. /\ gm' \in [Systems -> Vectors]
        /\ told' \in [Systems -> [gm : Nat, mine : BOOLEAN]]
        /\ path' \in [Systems -> [1 .. MaxPath -> Nat]]
        /\ port' \in [DOMAIN net -> PortStates]
        /\ chan' \in [DOMAIN net -> Announces \cup {NoAnnounce}]
    <3>1. CASE Keeps
      BY <3>1 DEF Keeps, TypeOK
    <3>2. CASE \E s, ps, pt, ch : Reselects(s, ps, pt, ch)
      BY <3>2, Reselected
    <3> QED
      BY <2>1, <3>1, <3>2
  <2> QED
    BY <2>1, <2>2 DEF TypeOK
<1> QED
  BY <1>1, <1>2

(***************************************************************************)
(* Every announce, vector, path trace and role is well formed, in networks *)
(* of any size, with any faults.                                           *)
(***************************************************************************)
THEOREM BMCATypeCorrect == Spec => []TypeOK
<1>1. Init => TypeOK
  BY InitType
<1>2. TypeOK /\ [Next]_vars => TypeOK'
  BY StepType
<1> QED
  BY <1>1, <1>2, PTL DEF Spec

\* What the host was told is consistent in itself: the system is the
\* grandmaster exactly when its own identity was indicated.
ToldMine == \A s \in Systems : told[s].mine = (told[s].gm = s)

ToldInv == TypeOK /\ ToldMine /\ HostTold

LEMMA InitTold == Init => ToldInv
<1> SUFFICES ASSUME Init PROVE ToldInv
  OBVIOUS
<1>1. TypeOK
  BY InitType
<1>2. ToldMine
  <2>1. \A s \in Systems : s # 0
    BY <1>1, Identities
  <2> QED
    BY <2>1 DEF Init, ToldMine
<1>3. HostTold
  BY DEF HostTold, Selected, Init
<1> QED
  BY <1>1, <1>2, <1>3 DEF ToldInv

LEMMA StepTold == ToldInv /\ [Next]_vars => ToldInv'
<1> SUFFICES ASSUME ToldInv, [Next]_vars PROVE ToldInv'
  OBVIOUS
<1>1. TypeOK /\ TypeOK'
  BY StepType DEF ToldInv
<1>2. CASE gm' = gm /\ told' = told
  BY <1>1, <1>2 DEF ToldInv, ToldMine, HostTold, Selected, GmPresent, IsGrandmaster
<1>3. CASE \E s, ps, pt, ch : Reselects(s, ps, pt, ch)
  <2>1. PICK s, ps, pt, ch : Reselects(s, ps, pt, ch)
    BY <1>3
  <2> DEFINE g == GmPriority(s, ps)
  <2>2. /\ s \in Systems /\ g \in Vectors /\ gm'[s] = g /\ told'[s] = Indication(s, g)
        /\ \A t \in Systems : t # s => gm'[t] = gm[t] /\ told'[t] = told[t]
    BY <1>1, <2>1, Reselected DEF Reselects
  <2> HIDE DEF g
  <2>3. told[s] \in [gm : Nat, mine : BOOLEAN] /\ told[s].mine = (told[s].gm = s)
    BY <2>2 DEF ToldInv, ToldMine, TypeOK
  <2>4. CASE GmPresent(g) /\ told[s].gm # g.root[2]
    <3>1. told'[s] = [gm |-> g.root[2], mine |-> IsGrandmaster(s, g)]
      BY <2>2, <2>4 DEF Indication
    <3>2. IsGrandmaster(s, g) = (g.root[2] = s)
      BY <2>4 DEF IsGrandmaster
    <3>3. told'[s].mine = (told'[s].gm = s)
      BY <3>1, <3>2
    <3>4. ToldMine'
      BY <2>2, <3>3 DEF ToldMine, ToldInv
    <3>5. HostTold'
      BY <2>2, <3>1 DEF HostTold, ToldInv, Selected, GmPresent, IsGrandmaster
    <3> QED
      BY <1>1, <3>4, <3>5 DEF ToldInv
  <2>5. CASE ~(GmPresent(g) /\ told[s].gm # g.root[2])
    <3>1. told'[s] = told[s]
      BY <2>2, <2>5 DEF Indication
    <3>2. ToldMine'
      BY <2>2, <3>1 DEF ToldMine, ToldInv
    <3>3. ASSUME GmPresent(g) PROVE told[s] = [gm |-> g.root[2], mine |-> IsGrandmaster(s, g)]
      <4>1. told[s].gm = g.root[2]
        BY <2>5, <3>3
      <4>2. IsGrandmaster(s, g) = (g.root[2] = s)
        BY <3>3 DEF IsGrandmaster
      <4>3. told[s].mine = IsGrandmaster(s, g)
        BY <2>3, <4>1, <4>2
      <4>4. told[s] = [gm |-> told[s].gm, mine |-> told[s].mine]
        BY <2>3
      <4> QED
        BY <4>1, <4>3, <4>4
    <3>4. HostTold'
      BY <2>2, <3>1, <3>3 DEF HostTold, ToldInv, Selected, GmPresent, IsGrandmaster
    <3> QED
      BY <1>1, <3>2, <3>4 DEF ToldInv
  <2> QED
    BY <2>4, <2>5
<1>4. CASE UNCHANGED vars
  BY <1>2, <1>4 DEF vars
<1>5. CASE Next
  BY <1>1, <1>2, <1>3, <1>5, StepCases DEF Keeps
<1> QED
  BY <1>4, <1>5

(***************************************************************************)
(* gptp_gm_indication sends only changes, and the host is up to date all   *)
(* the same: while there is a grandmaster, the one last indicated is the   *)
(* selected one and the host knows whether it is this system.              *)
(***************************************************************************)
THEOREM HostIsUpToDate == Spec => []HostTold
<1>1. Init => ToldInv
  BY InitTold
<1>2. ToldInv /\ [Next]_vars => ToldInv'
  BY StepTold
<1>3. ToldInv => HostTold
  BY DEF ToldInv
<1> QED
  BY <1>1, <1>2, <1>3, PTL DEF Spec

-----------------------------------------------------------------------------
(* Slave ports and the grandmaster in a network without loops.             *)

\* Removing a cable of a network without loops splits it in two: far[e] holds
\* the systems beyond the end e.  Whatever lies beyond another port of the
\* neighbour lies beyond e as well.
Splits(c, far) ==
    /\ far \in [DOMAIN c -> SUBSET Systems]
    /\ \A e \in DOMAIN c :
          /\ e[1] \notin far[e] /\ c[e][1] \in far[e]
          /\ \A f \in DOMAIN c : f[1] = c[e][1] /\ f # c[e] => far[f] \subseteq far[e]

Loopless(c) == \E far : Splits(c, far)

\* Everything a port has received or is about to receive names a grandmaster
\* beyond it, and a master port does not announce one that lies beyond it.
Beyond(far) ==
    \A e \in DOMAIN net :
        /\ port[e].info = "RECEIVED" => port[e].pp.root[2] \in far[e]
        /\ chan[e] # NoAnnounce => chan[e].root[2] \in far[e]
        /\ port[e].role = "MASTER" => gm[e[1]].root[2] \in far[net[e]]

SlaveInv ==
    /\ TypeOK /\ SlaveFollowsGm
    /\ \E far : Splits(net, far) /\ Beyond(far)

LEMMA InitSlave ==
  ASSUME Init, Loopless(net) PROVE SlaveInv
<1>1. TypeOK
  BY InitType
<1>2. SlaveFollowsGm
  BY DEF SlaveFollowsGm, Selected, Init
<1>3. PICK far : Splits(net, far)
  BY DEF Loopless
<1>4. Beyond(far)
  BY DEF Beyond, Init, NewPort
<1> QED
  BY <1>1, <1>2, <1>3, <1>4 DEF SlaveInv

\* The grandmaster a system selects lies beyond one of its ports, which
\* becomes a slave port, or is the system itself.
LEMMA SelectedRoot ==
  ASSUME TypeOK, NEW far, Splits(net, far), Beyond(far), NEW s, NEW ps, NEW pt, NEW ch,
         Reselects(s, ps, pt, ch)
  PROVE  LET g == GmPriority(s, ps)
         IN  /\ \A e \in DOMAIN net : ps[e].info = "RECEIVED" => ps[e].pp.root[2] \in far[e]
             /\ \/ g.root[2] = s
                \/ \E b \in DOMAIN net : b[1] = s /\ ps[b].info = "RECEIVED" /\ ps[b].pp.root = g.root
<1> DEFINE g == GmPriority(s, ps)
<1>1. s \in Systems /\ ps \in [DOMAIN net -> PortStates] /\ Heard(s, ps)
  BY DEF Reselects
<1>2. \A e \in DOMAIN net : ps[e].info = "RECEIVED" => ps[e].pp.root[2] \in far[e]
  BY <1>1 DEF Heard, Beyond
<1>3. \/ g = SystemPriority(s)
      \/ \E e \in Candidates(s, ps) : g.root = ps[e].pp.root
  BY <1>1, GmPriorityFrom
<1>4. SystemPriority(s).root[2] = s
  BY <1>1, Identities
<1>5. \A e \in Candidates(s, ps) : e \in DOMAIN net /\ e[1] = s /\ ps[e].info = "RECEIVED"
  BY DEF Candidates, EndsOf
<1> QED
  BY <1>2, <1>3, <1>4, <1>5

LEMMA ReselectSlave ==
  ASSUME TypeOK, SlaveFollowsGm, NEW far, Splits(net, far), Beyond(far), net' = net,
         NEW s, NEW ps, NEW pt, NEW ch, Reselects(s, ps, pt, ch)
  PROVE  SlaveFollowsGm' /\ Beyond(far)'
<1> DEFINE g == GmPriority(s, ps)
           ro(e) == Role(s, ps, g, e)
<1>1. /\ s \in Systems /\ ps \in [DOMAIN net -> PortStates] /\ Heard(s, ps)
      /\ pt \in [1 .. MaxPath -> Nat] /\ ch \in [DOMAIN net -> Announces \cup {NoAnnounce}]
      /\ Select(s, ps, pt, ch) /\ \A e \in DOMAIN net : ch[e] \in {chan[e], NoAnnounce}
  BY DEF Reselects
<1>2. gm'[s] = g /\ \A t \in Systems : t # s => gm'[t] = gm[t]
  BY Reselected
<1>3. \A e \in DOMAIN net :
        /\ e[1] = s => port'[e].role = ro(e)
        /\ e[1] # s => port'[e] = ps[e]
        /\ port'[e].info = "RECEIVED" => ps[e].info = "RECEIVED" /\ port'[e].pp = ps[e].pp
        /\ \/ chan'[e] = ch[e]
           \/ chan'[e].root = g.root /\ net[e][1] = s /\ ro(net[e]) = "MASTER"
  BY <1>1, SelectPorts
<1>4. /\ \A e \in DOMAIN net : ps[e].info = "RECEIVED" => ps[e].pp.root[2] \in far[e]
      /\ \/ g.root[2] = s
         \/ \E b \in DOMAIN net : b[1] = s /\ ps[b].info = "RECEIVED" /\ ps[b].pp.root = g.root
  BY SelectedRoot
<1>5. \A e \in DOMAIN net : ro(e) = "SLAVE" <=> ps[e].info = "RECEIVED" /\ ps[e].pp.root[2] = g.root[2]
  BY <1>1, RoleCases DEF PortStates
<1>6. \A e \in DOMAIN net : net[e] \in DOMAIN net /\ net[net[e]] = e /\ e[1] \in Systems
  BY Identities
<1> HIDE DEF g, ro
\* A master port announces nothing that lies beyond it.
<1>7. ASSUME NEW e \in DOMAIN net, e[1] = s, ro(e) = "MASTER"
      PROVE  g.root[2] \in far[net[e]]
  <2> DEFINE p == net[e]
  <2>1. p \in DOMAIN net /\ net[p] = e
    BY <1>6
  <2> HIDE DEF p
  <2>2. CASE g.root[2] = s
    BY <1>7, <2>1, <2>2 DEF Splits, p
  <2>3. CASE g.root[2] # s
    <3>1. PICK b \in DOMAIN net : b[1] = s /\ ps[b].info = "RECEIVED" /\ ps[b].pp.root = g.root
      BY <1>4, <2>3
    <3>2. ro(b) = "SLAVE"
      BY <1>5, <3>1
    <3>3. b # e
      BY <1>7, <3>2
    <3>4. far[b] \subseteq far[p]
      BY <1>7, <2>1, <3>1, <3>3 DEF Splits
    <3>5. g.root[2] \in far[b]
      BY <1>4, <3>1
    <3> QED
      BY <3>4, <3>5 DEF p
  <2> QED
    BY <2>2, <2>3
<1>8. ASSUME NEW e \in DOMAIN net
      PROVE  /\ port'[e].info = "RECEIVED" => port'[e].pp.root[2] \in far[e]
             /\ chan'[e] # NoAnnounce => chan'[e].root[2] \in far[e]
             /\ port'[e].role = "MASTER" => gm'[e[1]].root[2] \in far[net[e]]
  <2>1. port'[e].info = "RECEIVED" => port'[e].pp.root[2] \in far[e]
    BY <1>3, <1>4
  <2>2. chan'[e] # NoAnnounce => chan'[e].root[2] \in far[e]
    <3>1. CASE chan'[e] = ch[e]
      BY <1>1, <3>1 DEF Beyond
    <3>2. CASE chan'[e].root = g.root /\ net[e][1] = s /\ ro(net[e]) = "MASTER"
      <4>1. g.root[2] \in far[net[net[e]]]
        BY <1>6, <1>7, <3>2
      <4> QED
        BY <1>6, <3>2, <4>1
    <3> QED
      BY <1>3, <3>1, <3>2
  <2>3. port'[e].role = "MASTER" => gm'[e[1]].root[2] \in far[net[e]]
    <3>1. CASE e[1] = s
      BY <1>2, <1>3, <1>7, <3>1
    <3>2. CASE e[1] # s
      <4>1. port'[e] = port[e] /\ gm'[e[1]] = gm[e[1]]
        BY <1>1, <1>2, <1>3, <1>6, <3>2 DEF Heard
      <4> QED
        BY <4>1 DEF Beyond
    <3> QED
      BY <3>1, <3>2
  <2> QED
    BY <2>1, <2>2, <2>3
<1>9. Beyond(far)'
  BY <1>8 DEF Beyond, NoAnnounce
<1>10. ASSUME NEW t \in Systems, t # s, Selected(t)'
       PROVE  gm'[t].root[2] # t <=> \E e \in EndsOf(t)' : port'[e].role = "SLAVE"
  <2>1. gm'[t] = gm[t] /\ Selected(t)
    BY <1>2, <1>10 DEF Selected, Unset, Vector
  <2>2. \A e \in DOMAIN net : e[1] = t => port'[e] = port[e]
    BY <1>1, <1>3, <1>10 DEF Heard
  <2>3. EndsOf(t)' = EndsOf(t)
    BY DEF EndsOf
  <2> QED
    BY <2>1, <2>2, <2>3 DEF SlaveFollowsGm, EndsOf
<1>11. g.root[2] # s <=> \E e \in EndsOf(s)' : port'[e].role = "SLAVE"
  <2>1. EndsOf(s)' = {e \in DOMAIN net : e[1] = s}
    BY DEF EndsOf
  <2>2. ASSUME g.root[2] # s PROVE \E e \in EndsOf(s)' : port'[e].role = "SLAVE"
    BY <1>3, <1>4, <1>5, <2>1, <2>2
  <2>3. ASSUME NEW e \in EndsOf(s)', port'[e].role = "SLAVE" PROVE g.root[2] # s
    <3>1. e \in DOMAIN net /\ e[1] = s /\ ps[e].info = "RECEIVED" /\ ps[e].pp.root[2] = g.root[2]
      BY <1>3, <1>5, <2>1, <2>3
    <3> QED
      BY <1>4, <3>1 DEF Splits
  <2> QED
    BY <2>2, <2>3
<1>12. SlaveFollowsGm'
  BY <1>2, <1>10, <1>11 DEF SlaveFollowsGm
<1> QED
  BY <1>9, <1>12

LEMMA KeepSlave ==
  ASSUME TypeOK, SlaveFollowsGm, NEW far, Splits(net, far), Beyond(far), net' = net, Keeps
  PROVE  SlaveFollowsGm' /\ Beyond(far)'
<1>1. /\ gm' = gm
      /\ \A e \in DOMAIN net :
           /\ port'[e].info = port[e].info /\ port'[e].pp = port[e].pp /\ port'[e].role = port[e].role
           /\ \/ chan'[e] \in {chan[e], NoAnnounce}
              \/ port[net[e]].role = "MASTER" /\ chan'[e].root = gm[net[e][1]].root
  BY DEF Keeps
<1>2. \A e \in DOMAIN net : net[e] \in DOMAIN net /\ net[net[e]] = e
  BY Identities
<1>3. ASSUME NEW e \in DOMAIN net
      PROVE  /\ port'[e].info = "RECEIVED" => port'[e].pp.root[2] \in far[e]
             /\ chan'[e] # NoAnnounce => chan'[e].root[2] \in far[e]
             /\ port'[e].role = "MASTER" => gm'[e[1]].root[2] \in far[net[e]]
  <2>1. /\ port'[e].info = "RECEIVED" => port'[e].pp.root[2] \in far[e]
        /\ port'[e].role = "MASTER" => gm'[e[1]].root[2] \in far[net[e]]
    BY <1>1 DEF Beyond
  <2>2. CASE chan'[e] \in {chan[e], NoAnnounce}
    BY <2>1, <2>2 DEF Beyond
  <2>3. CASE port[net[e]].role = "MASTER" /\ chan'[e].root = gm[net[e][1]].root
    <3>1. gm[net[e][1]].root[2] \in far[e]
      BY <1>2, <2>3 DEF Beyond
    <3> QED
      BY <2>1, <2>3, <3>1
  <2> QED
    BY <1>1, <2>2, <2>3
<1>4. Beyond(far)'
  BY <1>3 DEF Beyond, NoAnnounce
<1>5. SlaveFollowsGm'
  BY <1>1 DEF SlaveFollowsGm, Selected, EndsOf, Unset, Vector
<1> QED
  BY <1>4, <1>5

(***************************************************************************)
(* In a network without loops, of any size, with any ranks and faults, a   *)
(* system that has selected has a slave port exactly when its grandmaster  *)
(* is another system (updt_roles_tree, steps f, h and i), whatever         *)
(* announces of an earlier grandmaster are still on their way.             *)
(***************************************************************************)
THEOREM SlavesFollow == Spec /\ Loopless(net) => []SlaveFollowsGm
<1>1. Init /\ Loopless(net) => SlaveInv
  BY InitSlave
<1>2. SlaveInv /\ [Next]_vars => SlaveInv'
  <2> SUFFICES ASSUME SlaveInv, [Next]_vars PROVE SlaveInv'
    OBVIOUS
  <2>1. TypeOK /\ TypeOK'
    BY StepType DEF SlaveInv
  <2>2. PICK far : Splits(net, far) /\ Beyond(far)
    BY DEF SlaveInv
  <2>3. CASE Next
    <3>1. net' = net /\ (Keeps \/ \E s, ps, pt, ch : Reselects(s, ps, pt, ch))
      BY <2>1, <2>3, StepCases
    <3>2. SlaveFollowsGm' /\ Beyond(far)'
      BY <2>1, <2>2, <3>1, KeepSlave, ReselectSlave DEF SlaveInv
    <3> QED
      BY <2>1, <2>2, <3>1, <3>2 DEF SlaveInv
  <2>4. CASE UNCHANGED vars
    <3>1. net' = net /\ Beyond(far)' /\ SlaveFollowsGm'
      BY <2>2, <2>4 DEF vars, Beyond, NoAnnounce, SlaveFollowsGm, Selected, EndsOf, SlaveInv, Unset, Vector
    <3> QED
      BY <2>1, <2>2, <3>1 DEF SlaveInv
  <2> QED
    BY <2>3, <2>4
<1>3. SlaveInv => SlaveFollowsGm
  BY DEF SlaveInv
<1> QED
  BY <1>1, <1>2, <1>3, PTL DEF Spec
=============================================================================
