------------------------- MODULE ACMPListener_proofs -------------------------
(***************************************************************************)
(* Proofs about ACMPListener, for any number of sinks, talkers, sequence   *)
(* numbers and queue lengths.                                              *)
(*                                                                         *)
(* IInv holds whatever faults happen and whenever bindings are restored:   *)
(* types, timers and discovery.  SInv, about what is saved, holds with it  *)
(* when LateRestore is FALSE; JInv, about probes, streams and talkers, and *)
(* RInv, about the channels and the reservations, if MaxFaults = 0 too.    *)
(***************************************************************************)
EXTENDS ACMPListener, WellFoundedInduction, TLAPS

\* What every step preserves of one sink: its type, the timers of its state,
\* a stream exactly while settled, a talker while bound.
Core(r) ==
  /\ r \in SinkType
  /\ r.timers \ {"NO_ADP"} = OwnTimer(r.state)
  /\ "NO_ADP" \in r.timers <=> r.discovered
  /\ Settled(r) <=> r.stream # None
  /\ Bound(r) => r.bind.talker \in Talkers

\* The sink does not wait for a discovery that has happened.
Awake(r) == r.state = "PRB_W_AVAIL" => ~r.discovered

RestoreType == {NoBinding} \cup [talker : Talkers, wait : Waits]

IInv ==
  /\ TypeOK
  /\ \A s \in Sinks : Core(sink[s]) /\ Awake(sink[s])
  /\ restore \in [Sinks -> RestoreType]

\* The probing status of a state.
StatusOf(st) ==
  CASE st = "UNBOUND" -> "DISABLED"
    [] st = "PRB_W_AVAIL" -> "PASSIVE"
    [] st \in Probing -> "ACTIVE"
    [] OTHER -> "COMPLETED"

\* What holds of one sink as long as nothing fails.
Calmly(r) ==
  /\ r.probing = StatusOf(r.state)
  /\ ~Bound(r) => r.bind = NoBinding
  /\ Settled(r) => r.stream = r.bind.talker

\* An in-flight entry is the only one with its number, and the messages under
\* way with its number are its own.
NumbersApart ==
  /\ \A i, j \in inflight : i.msg.seq = j.msg.seq => i = j
  /\ \A i \in inflight, m \in net : i.msg.seq = m.seq => m = i.msg

\* A sink whose binding is still to be restored is not bound, and the talker of
\* that binding is neither bound nor to be restored elsewhere.
RestoresApart ==
  \A s, u \in Sinks : restore[s] # NoBinding =>
    /\ ~Bound(sink[s])
    /\ s # u => restore[s].talker # restore[u].talker
                /\ restore[s].talker # sink[u].bind.talker

JInv ==
  /\ \A s \in Sinks : Calmly(sink[s])
  /\ ProbeOutstanding
  /\ NumbersApart
  /\ NoSharedTalker
  /\ RestoresApart

-----------------------------------------------------------------------------
(* The steps of the sink state machine on one sink.                        *)

\* A sink may change its state to st with the timers of st.
LEMMA MoveCore ==
  ASSUME NEW r, Core(r), NEW q, q \in SinkType,
         q.timers = (r.timers \ OwnTimer(r.state)) \cup OwnTimer(q.state),
         q.discovered = r.discovered,
         Settled(q) <=> q.stream # None,
         Bound(q) => q.bind.talker \in Talkers
  PROVE  Core(q)
BY DEF Core, OwnTimer, SinkType, States, Probing, SettledStates, Timers

LEMMA LeaveFields ==
  ASSUME NEW r, Core(r), NEW st \in States
  PROVE  LET q == Leave(r, st)
         IN /\ q \in SinkType
            /\ q.state = st /\ q.timers = r.timers \ OwnTimer(r.state)
            /\ q.bind = r.bind /\ q.stream = None
            /\ q.probing = r.probing /\ q.discovered = r.discovered /\ q.seq = r.seq
BY DEF Core, Leave, SinkType, Settled, SettledStates

LEMMA WaitAvailableOK ==
  ASSUME NEW r, Core(r), r.bind.talker \in Talkers
  PROVE  LET q == WaitAvailable(r)
         IN /\ Core(q)
            /\ q.state = "PRB_W_AVAIL" /\ q.probing = "PASSIVE" /\ q.bind = r.bind
            /\ q.discovered = r.discovered /\ q.seq = r.seq
<1> DEFINE l == Leave(r, "PRB_W_AVAIL")
           q == WaitAvailable(r)
<1>1. /\ l \in SinkType /\ l.state = "PRB_W_AVAIL" /\ l.timers = r.timers \ OwnTimer(r.state)
      /\ l.bind = r.bind /\ l.stream = None /\ l.discovered = r.discovered /\ l.seq = r.seq
  BY LeaveFields DEF States
<1>2. q = [l EXCEPT !.probing = "PASSIVE"]
  BY DEF WaitAvailable
<1> HIDE DEF l, q
<1>3. /\ q \in SinkType /\ q.state = l.state /\ q.timers = l.timers /\ q.bind = l.bind
      /\ q.stream = l.stream /\ q.probing = "PASSIVE" /\ q.discovered = l.discovered
      /\ q.seq = l.seq
  BY <1>1, <1>2 DEF SinkType, ProbingStatus
<1>4. OwnTimer("PRB_W_AVAIL") = {}
  BY DEF OwnTimer
<1>5. Core(q)
  BY <1>1, <1>3, <1>4, MoveCore DEF Settled, SettledStates
<1> QED
  BY <1>1, <1>3, <1>5 DEF q

LEMMA WaitDelayOK ==
  ASSUME NEW r, Core(r), r.bind.talker \in Talkers
  PROVE  LET q == WaitDelay(r)
         IN /\ Core(q)
            /\ q.state = "PRB_W_DELAY" /\ q.probing = r.probing /\ q.bind = r.bind
            /\ q.discovered = r.discovered /\ q.seq = r.seq /\ q.stream = None
<1> DEFINE l == Leave(r, "PRB_W_DELAY")
           q == WaitDelay(r)
<1>1. /\ l \in SinkType /\ l.state = "PRB_W_DELAY" /\ l.timers = r.timers \ OwnTimer(r.state)
      /\ l.bind = r.bind /\ l.stream = None /\ l.probing = r.probing
      /\ l.discovered = r.discovered /\ l.seq = r.seq
  BY LeaveFields DEF States, Probing
<1>2. q = [l EXCEPT !.timers = @ \cup {"DELAY"}]
  BY DEF WaitDelay
<1> HIDE DEF l, q
<1>3. /\ q \in SinkType /\ q.state = l.state /\ q.timers = l.timers \cup {"DELAY"}
      /\ q.bind = l.bind /\ q.stream = l.stream /\ q.probing = l.probing
      /\ q.discovered = l.discovered /\ q.seq = l.seq
  BY <1>1, <1>2 DEF SinkType, Timers
<1>4. OwnTimer("PRB_W_DELAY") = {"DELAY"}
  BY DEF OwnTimer
<1>5. Core(q)
  BY <1>1, <1>3, <1>4, MoveCore DEF Settled, SettledStates
<1> QED
  BY <1>1, <1>3, <1>5 DEF q

LEMMA WaitRetryOK ==
  ASSUME NEW r, Core(r), r.bind.talker \in Talkers
  PROVE  LET q == WaitRetry(r)
         IN /\ Core(q)
            /\ q.state = "PRB_W_RETRY" /\ q.probing = r.probing /\ q.bind = r.bind
            /\ q.discovered = r.discovered /\ q.seq = r.seq
<1> DEFINE l == Leave(r, "PRB_W_RETRY")
           q == WaitRetry(r)
<1>1. /\ l \in SinkType /\ l.state = "PRB_W_RETRY" /\ l.timers = r.timers \ OwnTimer(r.state)
      /\ l.bind = r.bind /\ l.stream = None /\ l.probing = r.probing
      /\ l.discovered = r.discovered /\ l.seq = r.seq
  BY LeaveFields DEF States, Probing
<1>2. q = [l EXCEPT !.timers = @ \cup {"RETRY"}]
  BY DEF WaitRetry
<1> HIDE DEF l, q
<1>3. /\ q \in SinkType /\ q.state = l.state /\ q.timers = l.timers \cup {"RETRY"}
      /\ q.bind = l.bind /\ q.stream = l.stream /\ q.probing = l.probing
      /\ q.discovered = l.discovered /\ q.seq = l.seq
  BY <1>1, <1>2 DEF SinkType, Timers
<1>4. OwnTimer("PRB_W_RETRY") = {"RETRY"}
  BY DEF OwnTimer
<1>5. Core(q)
  BY <1>1, <1>3, <1>4, MoveCore DEF Settled, SettledStates
<1> QED
  BY <1>1, <1>3, <1>5 DEF q

LEMMA ResetOK ==
  ASSUME NEW r, Core(r)
  PROVE  LET q == Reset(r)
         IN /\ Core(q) /\ ~q.discovered
            /\ q.state = r.state /\ q.bind = r.bind /\ q.probing = r.probing
            /\ q.stream = r.stream /\ q.seq = r.seq
<1>1. CASE ~r.discovered
  BY <1>1 DEF Reset
<1>2. CASE r.discovered
  <2> DEFINE q == Reset(r)
  <2>1. q = [r EXCEPT !.discovered = FALSE, !.timers = @ \ {"NO_ADP"}]
    BY <1>2 DEF Reset
  <2> HIDE DEF q
  <2>2. /\ q \in SinkType /\ q.state = r.state /\ q.timers = r.timers \ {"NO_ADP"}
        /\ q.bind = r.bind /\ q.stream = r.stream /\ q.probing = r.probing
        /\ ~q.discovered /\ q.seq = r.seq
    BY <2>1 DEF Core, SinkType
  <2>3. Core(q)
    BY <2>2 DEF Core, Settled, Bound
  <2> QED
    BY <2>2, <2>3 DEF q
<1> QED
  BY <1>1, <1>2 DEF Core, SinkType

\* A sink that is in order keeps its binding and its place in a step.
Fine(r) == Core(r) /\ Awake(r)
Same(r, q) == q.bind = r.bind /\ q.seq = r.seq /\ (Bound(q) <=> Bound(r))

LEMMA StatusOfStates ==
  /\ StatusOf("UNBOUND") = "DISABLED" /\ StatusOf("PRB_W_AVAIL") = "PASSIVE"
  /\ \A st \in Probing : StatusOf(st) = "ACTIVE"
  /\ \A st \in SettledStates : StatusOf(st) = "COMPLETED"
BY DEF StatusOf, Probing, SettledStates

LEMMA ActiveDelayOK ==
  ASSUME NEW r, Core(r), r.bind.talker \in Talkers
  PROVE  LET q == [WaitDelay(r) EXCEPT !.probing = "ACTIVE"]
         IN /\ Core(q) /\ Awake(q)
            /\ q.state = "PRB_W_DELAY" /\ q.probing = "ACTIVE" /\ q.bind = r.bind
            /\ q.discovered = r.discovered /\ q.seq = r.seq
<1> DEFINE d == WaitDelay(r)
           q == [d EXCEPT !.probing = "ACTIVE"]
<1>1. /\ Core(d) /\ d.state = "PRB_W_DELAY" /\ d.bind = r.bind
      /\ d.discovered = r.discovered /\ d.seq = r.seq /\ d.stream = None
  BY WaitDelayOK
<1> HIDE DEF d
<1>2. /\ q \in SinkType /\ q.state = d.state /\ q.timers = d.timers /\ q.bind = d.bind
      /\ q.stream = d.stream /\ q.probing = "ACTIVE" /\ q.discovered = d.discovered
      /\ q.seq = d.seq
  BY <1>1 DEF Core, SinkType, ProbingStatus
<1> HIDE DEF q
<1>3. Core(q) /\ Awake(q)
  BY <1>1, <1>2 DEF Core, Awake, Settled, Bound
<1> QED
  BY <1>1, <1>2, <1>3 DEF q, d

LEMMA ReprobeOK ==
  ASSUME NEW r, Core(r), r.bind.talker \in Talkers
  PROVE  LET q == Reprobe(r)
         IN /\ Fine(q) /\ Calmly(q) /\ Bound(q)
            /\ q.bind = r.bind /\ q.seq = r.seq
            /\ q.state \notin AwaitingResponse
<1>1. CASE r.discovered
  BY <1>1, ActiveDelayOK, StatusOfStates
     DEF Reprobe, Fine, Calmly, Bound, Settled, SettledStates, Probing, AwaitingResponse
<1>2. CASE ~r.discovered
  BY <1>2, WaitAvailableOK, StatusOfStates
     DEF Reprobe, Fine, Awake, Calmly, Bound, Settled, SettledStates, AwaitingResponse
<1> QED
  BY <1>1, <1>2 DEF Core, SinkType

LEMMA DiscoveredOK ==
  ASSUME NEW r, Core(r)
  PROVE  LET q == Discovered(r)
         IN /\ Core(q) /\ Same(r, q) /\ q.state # "PRB_W_AVAIL"
            /\ Calmly(r) => Calmly(q)
            /\ q.discovered = r.discovered
            /\ q.state # r.state => r.state = "PRB_W_AVAIL" /\ q.state = "PRB_W_DELAY"
<1>1. CASE r.state = "PRB_W_AVAIL"
  <2>1. r.bind.talker \in Talkers
    BY <1>1 DEF Core, Bound
  <2> QED
    BY <1>1, <2>1, ActiveDelayOK, StatusOfStates
       DEF Discovered, Same, Calmly, Bound, Settled, SettledStates, Probing
<1>2. CASE r.state # "PRB_W_AVAIL"
  BY <1>2 DEF Discovered, Same
<1> QED
  BY <1>1, <1>2

LEMMA DepartedOK ==
  ASSUME NEW r, Core(r)
  PROVE  LET q == Departed(r)
         IN /\ Core(q) /\ Same(r, q) /\ q.state \notin Probing
            /\ Calmly(r) => Calmly(q)
            /\ q.discovered = r.discovered
<1>1. CASE r.state \in Probing
  <2>1. r.bind.talker \in Talkers
    BY <1>1 DEF Core, Bound, Probing
  <2> QED
    BY <1>1, <2>1, WaitAvailableOK, StatusOfStates
       DEF Departed, Same, Calmly, Bound, Settled, SettledStates, Probing
<1>2. CASE r.state \notin Probing
  BY <1>2 DEF Departed, Same
<1> QED
  BY <1>1, <1>2

LEMMA ResetCalmly ==
  ASSUME NEW r, Core(r)
  PROVE  /\ Fine(Reset(r)) /\ Same(r, Reset(r)) /\ Reset(r).state = r.state
         /\ Calmly(r) => Calmly(Reset(r))
BY ResetOK DEF Fine, Awake, Same, Calmly, Bound, Settled

LEMMA DepartOK ==
  ASSUME NEW r, Fine(r)
  PROVE  LET q == Reset(Departed(r))
         IN /\ Fine(q) /\ Same(r, q) /\ q.state \notin AwaitingResponse
            /\ Calmly(r) => Calmly(q)
<1> DEFINE d == Departed(r)
<1>1. Core(d) /\ Same(r, d) /\ d.state \notin Probing /\ (Calmly(r) => Calmly(d))
  BY DepartedOK DEF Fine
<1> HIDE DEF d
<1> QED
  BY <1>1, ResetCalmly DEF Same, Probing, AwaitingResponse, d

LEMMA AvailableOK ==
  ASSUME NEW r, Fine(r), Bound(r), NEW newer \in BOOLEAN, NEW gptp \in BOOLEAN
  PROVE  LET q == Available(r, newer, gptp)
         IN /\ Fine(q) /\ Same(r, q)
            /\ Calmly(r) => Calmly(q)
            /\ r.discovered /\ ~newer => q.state \notin AwaitingResponse
            /\ ~(r.discovered /\ ~newer) /\ (q.state \in AwaitingResponse \/ r.state \in AwaitingResponse)
                 => q.state = r.state
<1> DEFINE q == Available(r, newer, gptp)
<1>0. Core(r) /\ r.discovered \in BOOLEAN
  BY DEF Fine, Core, SinkType
<1>1. CASE ~r.discovered /\ gptp
  <2> DEFINE d == Discovered(r)
             a == [d EXCEPT !.discovered = TRUE, !.timers = @ \cup {"NO_ADP"}]
  <2>1. q = a
    BY <1>1 DEF Available
  <2>2. /\ Core(d) /\ Same(r, d) /\ d.state # "PRB_W_AVAIL" /\ (Calmly(r) => Calmly(d))
        /\ d.state # r.state => r.state = "PRB_W_AVAIL" /\ d.state = "PRB_W_DELAY"
    BY <1>0, DiscoveredOK
  <2> HIDE DEF d, q
  <2>3. /\ a \in SinkType /\ a.state = d.state /\ a.timers = d.timers \cup {"NO_ADP"}
        /\ a.bind = d.bind /\ a.stream = d.stream /\ a.probing = d.probing
        /\ a.discovered /\ a.seq = d.seq
    BY <2>2 DEF Core, SinkType, Timers
  <2> HIDE DEF a
  <2>4. Core(a) /\ Awake(a)
    BY <2>2, <2>3 DEF Core, Awake, Settled, Bound
  <2>5. Same(r, a) /\ (Calmly(r) => Calmly(a))
    BY <2>2, <2>3 DEF Same, Calmly, Settled, Bound
  <2> QED
    BY <1>1, <2>1, <2>2, <2>3, <2>4, <2>5 DEF q, Fine, AwaitingResponse
<1>2. CASE r.discovered /\ ~newer /\ gptp
  <2> DEFINE d == Departed(r)
  <2>1. q = Discovered(d)
    BY <1>2 DEF Available
  <2>2. Core(d) /\ Same(r, d) /\ d.state \notin Probing /\ (Calmly(r) => Calmly(d))
    BY <1>0, DepartedOK
  <2> HIDE DEF d, q
  <2>3. /\ Core(q) /\ Same(d, q) /\ q.state # "PRB_W_AVAIL" /\ (Calmly(d) => Calmly(q))
        /\ q.state # d.state => q.state = "PRB_W_DELAY"
    BY <2>1, <2>2, DiscoveredOK
  <2> QED
    BY <1>2, <2>2, <2>3 DEF q, Fine, Awake, Same, Probing, AwaitingResponse
<1>3. CASE r.discovered /\ ~newer /\ ~gptp
  BY <1>3, DepartOK DEF Available
<1>4. CASE (~r.discovered /\ ~gptp) \/ (r.discovered /\ newer)
  <2>1. q = r
    BY <1>4 DEF Available
  <2> QED
    BY <1>4, <2>1 DEF Same
<1> QED
  BY <1>0, <1>1, <1>2, <1>3, <1>4

\* Bound to a talker that has been sent a probe.
LEMMA ProbeSentOK ==
  ASSUME NEW r, Core(r), r.bind.talker \in Talkers
  PROVE  LET q == Leave(r, "PRB_W_RESP")
         IN /\ Core(q) /\ Awake(q)
            /\ q.state = "PRB_W_RESP" /\ q.probing = r.probing /\ q.bind = r.bind
            /\ q.seq = r.seq
<1> DEFINE q == Leave(r, "PRB_W_RESP")
<1>1. /\ q \in SinkType /\ q.state = "PRB_W_RESP" /\ q.timers = r.timers \ OwnTimer(r.state)
      /\ q.bind = r.bind /\ q.stream = None /\ q.probing = r.probing
      /\ q.discovered = r.discovered /\ q.seq = r.seq
  BY LeaveFields DEF States, Probing
<1> HIDE DEF q
<1>2. OwnTimer("PRB_W_RESP") = {}
  BY DEF OwnTimer
<1>3. Core(q)
  BY <1>1, <1>2, MoveCore DEF Settled, SettledStates
<1> QED
  BY <1>1, <1>3 DEF q, Awake

\* The binding, the probing status and the number of the last probe do not
\* matter to the timers.
Parameters(r, b, p, n) == [r EXCEPT !.bind = b, !.probing = p, !.seq = n]

LEMMA ParametersOK ==
  ASSUME NEW r, Core(r), NEW b \in Binding, NEW p \in ProbingStatus, NEW n \in 0 .. SeqMod - 1,
         Bound(r) => b.talker \in Talkers
  PROVE  LET q == Parameters(r, b, p, n)
         IN /\ Core(q) /\ (Awake(r) => Awake(q))
            /\ q.bind = b /\ q.probing = p /\ q.seq = n
            /\ q.state = r.state /\ q.stream = r.stream /\ q.discovered = r.discovered
<1> DEFINE q == Parameters(r, b, p, n)
<1>1. /\ q \in SinkType /\ q.state = r.state /\ q.timers = r.timers /\ q.bind = b
      /\ q.stream = r.stream /\ q.probing = p /\ q.discovered = r.discovered /\ q.seq = n
  BY DEF Core, SinkType, Parameters
<1> HIDE DEF q
<1>2. Core(q) /\ (Awake(r) => Awake(q))
  BY <1>1 DEF Core, Awake, Settled, Bound
<1> QED
  BY <1>1, <1>2 DEF q

LEMMA UnboundOK ==
  ASSUME NEW r, Core(r)
  PROVE  LET q == [Leave(r, "UNBOUND") EXCEPT !.bind = NoBinding, !.probing = "DISABLED"]
         IN /\ Fine(q) /\ Calmly(q) /\ ~Bound(q) /\ q.bind = NoBinding
            /\ q.state = "UNBOUND"
<1> DEFINE l == Leave(r, "UNBOUND")
           q == [l EXCEPT !.bind = NoBinding, !.probing = "DISABLED"]
<1>1. /\ l \in SinkType /\ l.state = "UNBOUND" /\ l.timers = r.timers \ OwnTimer(r.state)
      /\ l.stream = None /\ l.discovered = r.discovered
  BY LeaveFields DEF States
<1> HIDE DEF l
<1>2. NoBinding \in Binding
  BY DEF NoBinding, Binding
<1>3. /\ q \in SinkType /\ q.state = "UNBOUND" /\ q.timers = l.timers
      /\ q.bind = NoBinding /\ q.stream = None /\ q.probing = "DISABLED"
      /\ q.discovered = l.discovered
  BY <1>1, <1>2 DEF SinkType, ProbingStatus
<1> HIDE DEF q
<1>4. OwnTimer("UNBOUND") = {}
  BY DEF OwnTimer
<1>5. Core(q)
  BY <1>1, <1>3, <1>4, MoveCore DEF Settled, SettledStates, Bound
<1> QED
  BY <1>3, <1>5, StatusOfStates
     DEF q, l, Fine, Awake, Calmly, Bound, Settled, SettledStates

LEMMA NoResponseOK ==
  ASSUME NEW r, Fine(r)
  PROVE  LET q == NoResponse(r)
         IN /\ Fine(q) /\ Same(r, q) /\ (Calmly(r) => Calmly(q))
            /\ r.state = "PRB_W_RESP" => q.state = "PRB_W_RESP2"
            /\ r.state = "PRB_W_RESP2" => q.state = "PRB_W_RETRY"
<1> DEFINE q == NoResponse(r)
<1>1. CASE r.state = "PRB_W_RESP"
  <2>1. q = [r EXCEPT !.state = "PRB_W_RESP2"]
    BY <1>1 DEF NoResponse
  <2> HIDE DEF q
  <2>2. /\ q \in SinkType /\ q.state = "PRB_W_RESP2" /\ q.timers = r.timers /\ q.bind = r.bind
        /\ q.stream = r.stream /\ q.probing = r.probing /\ q.discovered = r.discovered
        /\ q.seq = r.seq
    BY <2>1 DEF Fine, Core, SinkType, States, Probing
  <2>3. OwnTimer("PRB_W_RESP") = {} /\ OwnTimer("PRB_W_RESP2") = {}
    BY DEF OwnTimer
  <2>4. Core(q)
    BY <1>1, <2>2, <2>3 DEF Fine, Core, Settled, SettledStates, Bound
  <2> QED
    BY <1>1, <2>2, <2>4, StatusOfStates
       DEF q, Fine, Awake, Same, Calmly, Bound, Settled, SettledStates, Probing
<1>2. CASE r.state = "PRB_W_RESP2"
  <2>1. Core(r) /\ r.bind.talker \in Talkers
    BY <1>2 DEF Fine, Core, Bound
  <2>2. q = WaitRetry(r)
    BY <1>2 DEF NoResponse
  <2> QED
    BY <1>2, <2>1, <2>2, WaitRetryOK, StatusOfStates
       DEF Fine, Awake, Same, Calmly, Bound, Settled, SettledStates, Probing
<1>3. CASE r.state \notin AwaitingResponse
  <2>1. q = r
    BY <1>3 DEF NoResponse, AwaitingResponse
  <2> QED
    BY <1>3, <2>1 DEF Same, AwaitingResponse
<1> QED
  BY <1>1, <1>2, <1>3 DEF AwaitingResponse

LEMMA SettledOK ==
  ASSUME NEW r, Fine(r), r.state \in AwaitingResponse, NEW t \in Talkers
  PROVE  LET q == [r EXCEPT !.state = "SETTLED_NO_RSV", !.stream = t,
                            !.timers = @ \cup {"NO_TK"}, !.probing = "COMPLETED"]
         IN /\ Fine(q) /\ Same(r, q) /\ q.state = "SETTLED_NO_RSV"
            /\ r.bind.talker = t => Calmly(q)
<1> DEFINE q == [r EXCEPT !.state = "SETTLED_NO_RSV", !.stream = t,
                          !.timers = @ \cup {"NO_TK"}, !.probing = "COMPLETED"]
<1>1. /\ q \in SinkType /\ q.state = "SETTLED_NO_RSV" /\ q.timers = r.timers \cup {"NO_TK"}
      /\ q.bind = r.bind /\ q.stream = t /\ q.probing = "COMPLETED"
      /\ q.discovered = r.discovered /\ q.seq = r.seq
  BY DEF Fine, Core, SinkType, States, SettledStates, Timers, ProbingStatus
<1> HIDE DEF q
<1>2. OwnTimer(r.state) = {} /\ OwnTimer("SETTLED_NO_RSV") = {"NO_TK"}
  BY DEF OwnTimer, AwaitingResponse
<1>3. Core(q)
  <2>1. q.timers = (r.timers \ OwnTimer(r.state)) \cup OwnTimer(q.state)
    BY <1>1, <1>2
  <2>2. Bound(r) /\ Settled(q) /\ q.stream # None
    BY <1>1, TalkersAssumption DEF AwaitingResponse, Bound, Settled, SettledStates
  <2> QED
    BY <1>1, <2>1, <2>2, MoveCore DEF Fine, Core
<1> QED
  BY <1>1, <1>3, StatusOfStates
     DEF q, Fine, Awake, Same, Calmly, Bound, Settled, SettledStates, AwaitingResponse

LEMMA SrpStateOK ==
  ASSUME NEW r, Fine(r), Settled(r), NEW talker \in BOOLEAN
  PROVE  LET q == SrpState(r, talker)
         IN /\ Fine(q) /\ (Calmly(r) => Calmly(q)) /\ Bound(q)
            /\ q.bind = r.bind /\ q.seq = r.seq /\ q.state \notin AwaitingResponse
<1> DEFINE q == SrpState(r, talker)
<1>0. /\ Core(r) /\ r.registering \in BOOLEAN /\ r.bind.talker \in Talkers
      /\ r.state \in SettledStates /\ Bound(r)
  BY DEF Fine, Core, SinkType, Settled, SettledStates, Bound
<1>1. CASE ~r.registering /\ talker
  <2> DEFINE st == IF r.state = "SETTLED_NO_RSV" THEN "SETTLED_RSV_OK" ELSE r.state
             tm == IF r.state = "SETTLED_NO_RSV" THEN r.timers \ {"NO_TK"} ELSE r.timers
  <2>1. q = [r EXCEPT !.registering = TRUE, !.state = st, !.timers = tm]
    BY <1>1 DEF SrpState
  <2>2. st = "SETTLED_RSV_OK" /\ tm = r.timers \ OwnTimer(r.state) /\ tm \in SUBSET Timers
        /\ OwnTimer(st) = {}
    BY <1>0 DEF SettledStates, OwnTimer, Core, SinkType
  <2> HIDE DEF st, tm, q
  <2>3. /\ q \in SinkType /\ q.state = st /\ q.timers = tm /\ q.bind = r.bind
        /\ q.stream = r.stream /\ q.probing = r.probing /\ q.discovered = r.discovered
        /\ q.seq = r.seq
    BY <1>0, <2>1, <2>2 DEF Core, SinkType, States, SettledStates
  <2>4. Core(q)
    BY <1>0, <2>2, <2>3, MoveCore DEF Core, Settled, SettledStates
  <2> QED
    BY <1>0, <2>2, <2>3, <2>4, StatusOfStates
       DEF q, Fine, Awake, Calmly, Bound, Settled, SettledStates, AwaitingResponse
<1>2. CASE r.registering /\ ~talker /\ r.state = "SETTLED_RSV_OK"
  <2>1. q = Reprobe(r)
    BY <1>2 DEF SrpState
  <2> QED
    BY <1>0, <2>1, ReprobeOK
<1>3. CASE r.registering /\ ~talker /\ r.state # "SETTLED_RSV_OK"
  <2>1. q = [r EXCEPT !.registering = FALSE]
    BY <1>3 DEF SrpState
  <2> HIDE DEF q
  <2>2. /\ q \in SinkType /\ q.state = r.state /\ q.timers = r.timers /\ q.bind = r.bind
        /\ q.stream = r.stream /\ q.probing = r.probing /\ q.discovered = r.discovered
        /\ q.seq = r.seq
    BY <1>0, <2>1 DEF Core, SinkType
  <2> QED
    BY <1>0, <2>2 DEF q, Fine, Core, Awake, Calmly, Bound, Settled, SettledStates, AwaitingResponse
<1>4. CASE r.registering <=> talker
  <2>1. q = r
    BY <1>4, <1>0 DEF SrpState
  <2> QED
    BY <1>0, <2>1 DEF SettledStates, AwaitingResponse
<1> QED
  BY <1>0, <1>1, <1>2, <1>3, <1>4

-----------------------------------------------------------------------------
(* IInv: types, timers and discovery.                                      *)

LEMMA OneSink ==
  ASSUME IInv, NEW s \in Sinks, NEW q, Fine(q), sink' = [sink EXCEPT ![s] = q]
  PROVE  /\ sink' \in [Sinks -> SinkType]
         /\ \A u \in Sinks : Core(sink'[u]) /\ Awake(sink'[u])
         /\ sink'[s] = q /\ \A u \in Sinks \ {s} : sink'[u] = sink[u]
BY DEF IInv, TypeOK, Fine, Core

LEMMA SinkFine ==
  ASSUME IInv, NEW s \in Sinks
  PROVE  Fine(sink[s]) /\ Core(sink[s]) /\ sink[s] \in SinkType
BY DEF IInv, Fine, Core

LEMMA FaultType ==
  ASSUME TypeOK, NEW f, Fault(f) PROVE faults' \in 0 .. MaxFaults
BY BoundsAssumption DEF TypeOK, Fault

LEMMA DisconnectType ==
  ASSUME TypeOK, NEW r \in SinkType, Disconnect(r) PROVE toSrp' \in Seq(RequestType)
<1>1. [op |-> "DEREGISTER", stream |-> r.stream] \in RequestType
  BY DEF RequestType, SinkType
<1> QED
  BY <1>1 DEF TypeOK, Disconnect

LEMMA SendProbeType ==
  ASSUME TypeOK, NEW s \in Sinks, NEW t \in Talkers, NEW f, NEW gone, SendProbe(s, t, f, gone)
  PROVE  /\ sequence' \in 0 .. SeqMod - 1
         /\ inflight' \subseteq InflightType
         /\ net' \subseteq MessageType
<1> DEFINE msg == [seq |-> sequence, sink |-> s, talker |-> t]
<1>1. msg \in MessageType
  BY DEF TypeOK, MessageType
<1>2. [msg |-> msg, retried |-> FALSE] \in InflightType
  BY <1>1 DEF InflightType
<1>3. (sequence + 1) % SeqMod \in 0 .. SeqMod - 1
  BY BoundsAssumption DEF TypeOK
<1> QED
  BY <1>1, <1>2, <1>3 DEF TypeOK, SendProbe

\* What becomes of the sink in a bind.
LEMMA BindFacts ==
  ASSUME IInv, NEW s \in Sinks, NEW t \in Talkers, NEW w \in Waits, NEW f,
         Bind(s, [talker |-> t, wait |-> w], f)
  PROVE  LET r == sink[s]
             q == sink'[s]
             restart == r.bind.talker # t
             moves == f \notin {"rsp", "desc", "tx"} /\ (restart \/ ~Bound(r))
         IN /\ Fine(q) /\ sink' = [sink EXCEPT ![s] = q]
            /\ q.bind = [talker |-> t, wait |-> w]
            /\ q.probing = IF restart THEN "ACTIVE" ELSE r.probing
            /\ q.seq = IF restart /\ f # "desc" THEN sequence ELSE r.seq
            /\ moves => q.state = "PRB_W_RESP"
            /\ ~moves => q.state = r.state /\ q.stream = r.stream
<1> DEFINE b == [talker |-> t, wait |-> w]
           r == sink[s]
           restart == r.bind.talker # t
           moves == f \notin {"rsp", "desc", "tx"} /\ (restart \/ ~Bound(r))
           p == IF restart THEN "ACTIVE" ELSE r.probing
           n == IF restart /\ f # "desc" THEN sequence ELSE r.seq
           probed == Parameters(r, b, p, n)
           q == IF moves THEN Reset(Leave(probed, "PRB_W_RESP")) ELSE probed
<1>1. Core(r) /\ Awake(r) /\ r \in SinkType /\ s \in DOMAIN sink
  BY SinkFine DEF Fine, IInv, TypeOK
<1>2. b \in Binding /\ b.talker = t /\ p \in ProbingStatus /\ n \in 0 .. SeqMod - 1
  BY <1>1, FlagsAssumption DEF Binding, ProbingStatus, SinkType, IInv, TypeOK
<1>3. sink' = [sink EXCEPT ![s] = q]
  BY <1>2 DEF Bind, NeedRestart, Restarted, Parameters
<1> HIDE DEF b, r, p, n
<1>4. /\ Core(probed) /\ Awake(probed) /\ probed.bind = b /\ probed.probing = p
      /\ probed.seq = n /\ probed.state = r.state /\ probed.stream = r.stream
  <2>1. Core(r) /\ b \in Binding /\ p \in ProbingStatus /\ n \in 0 .. SeqMod - 1
        /\ (Bound(r) => b.talker \in Talkers)
    BY <1>1, <1>2
  <2> QED
    BY <1>1, <2>1, ParametersOK
<1> HIDE DEF probed
<1>5. CASE moves
  <2> DEFINE l == Leave(probed, "PRB_W_RESP")
  <2>1. /\ Core(l) /\ l.state = "PRB_W_RESP" /\ l.probing = p /\ l.bind = b /\ l.seq = n
    BY <1>2, <1>4, ProbeSentOK
  <2> HIDE DEF l
  <2>2. /\ Fine(Reset(l)) /\ Reset(l).state = "PRB_W_RESP" /\ Reset(l).probing = p
        /\ Reset(l).bind = b /\ Reset(l).seq = n
    BY <2>1, ResetOK DEF Fine, Awake
  <2>3. q = Reset(l)
    BY <1>5 DEF l
  <2> HIDE DEF q
  <2>4. sink'[s] = q
    BY <1>1, <1>3
  <2> QED
    BY <1>3, <1>5, <2>2, <2>3, <2>4 DEF b, r, p, n
<1>6. CASE ~moves
  <2>1. q = probed
    BY <1>6
  <2> HIDE DEF q, moves
  <2>2. sink'[s] = q
    BY <1>1, <1>3
  <2> QED
    BY <1>3, <1>4, <1>6, <2>1, <2>2 DEF b, r, p, n, Fine, moves
<1> QED
  BY <1>5, <1>6

LEMMA BindIInv ==
  ASSUME IInv, NEW s \in Sinks, NEW t \in Talkers, NEW w \in Waits, NEW f,
         Bind(s, [talker |-> t, wait |-> w], f)
  PROVE  IInv'
<1> DEFINE b == [talker |-> t, wait |-> w]
<1>1. Fine(sink'[s]) /\ sink' = [sink EXCEPT ![s] = sink'[s]]
  BY BindFacts
<1>2. b \in Binding /\ b.talker = t
  BY FlagsAssumption DEF Binding
<1>3. sequence' \in 0 .. SeqMod - 1 /\ inflight' \subseteq InflightType
      /\ net' \subseteq MessageType
  BY <1>2, SendProbeType DEF Bind, IInv, TypeOK
<1>4. toSrp' \in Seq(RequestType)
  BY SinkFine, DisconnectType DEF Bind, IInv, TypeOK
<1>5. faults' \in 0 .. MaxFaults
  BY FaultType DEF Bind, IInv
<1>6. saved' \in [Sinks -> Binding]
  BY <1>2 DEF Bind, Told, IInv, TypeOK
<1>7. UNCHANGED <<fromSrp, declared, registered, restore, calm>>
  BY DEF Bind
<1>8. sink' \in [Sinks -> SinkType] /\ \A u \in Sinks : Core(sink'[u]) /\ Awake(sink'[u])
  BY <1>1, OneSink
<1> QED
  BY <1>3, <1>4, <1>5, <1>6, <1>7, <1>8 DEF IInv, TypeOK

LEMMA UnbindFacts ==
  ASSUME IInv, NEW s \in Sinks, Unbind(s)
  PROVE  LET q == sink'[s]
         IN /\ Fine(q) /\ sink' = [sink EXCEPT ![s] = q]
            /\ Calmly(q) /\ q.bind = NoBinding /\ ~Bound(q)
<1> DEFINE r == sink[s]
           left == [Leave(r, "UNBOUND") EXCEPT !.bind = NoBinding, !.probing = "DISABLED"]
           q == IF Bound(r) THEN Reset(left) ELSE left
<1>1. Fine(left) /\ Calmly(left) /\ ~Bound(left) /\ left.bind = NoBinding
  BY SinkFine, UnboundOK
<1>2. sink' = [sink EXCEPT ![s] = q]
  BY DEF Unbind, Unbound
<1> HIDE DEF left
<1>3. Fine(q) /\ Calmly(q) /\ ~Bound(q) /\ q.bind = NoBinding
  BY <1>1, ResetCalmly DEF Fine, Same
<1> HIDE DEF q
<1>4. sink'[s] = q
  BY <1>2 DEF IInv, TypeOK
<1> QED
  BY <1>2, <1>3, <1>4

LEMMA UnbindIInv ==
  ASSUME IInv, NEW s \in Sinks, Unbind(s) PROVE IInv'
<1>1. sink' \in [Sinks -> SinkType] /\ \A u \in Sinks : Core(sink'[u]) /\ Awake(sink'[u])
  BY UnbindFacts, OneSink
<1>2. toSrp' \in Seq(RequestType)
  BY SinkFine, DisconnectType DEF Unbind, IInv
<1>3. saved' \in [Sinks -> Binding] /\ inflight' \subseteq InflightType
  BY DEF Unbind, Told, Abandoned, IInv, TypeOK, Binding, NoBinding
<1>4. UNCHANGED <<sequence, net, fromSrp, declared, registered, restore, faults, calm>>
  BY DEF Unbind
<1> QED
  BY <1>1, <1>2, <1>3, <1>4 DEF IInv, TypeOK

\* A change of the streaming flag or a restored binding of a bound sink.
LEMMA RebindOK ==
  ASSUME NEW r, Fine(r), NEW b \in Binding, b.talker \in Talkers
  PROVE  LET q == [r EXCEPT !.bind = b]
         IN /\ Fine(q) /\ q.bind = b /\ q.seq = r.seq /\ q.state = r.state
            /\ q.probing = r.probing /\ q.stream = r.stream
<1> DEFINE q == [r EXCEPT !.bind = b]
<1>1. /\ q \in SinkType /\ q.state = r.state /\ q.timers = r.timers /\ q.bind = b
      /\ q.stream = r.stream /\ q.probing = r.probing /\ q.discovered = r.discovered
      /\ q.seq = r.seq
  BY DEF Fine, Core, SinkType
<1> HIDE DEF q
<1>2. Fine(q)
  BY <1>1 DEF Fine, Core, Awake, Settled, Bound
<1> QED
  BY <1>1, <1>2 DEF q

LEMMA StartStopFacts ==
  ASSUME IInv, NEW s \in Sinks, StartStop(s)
  PROVE  LET r == sink[s]
             q == sink'[s]
         IN /\ Fine(q) /\ sink' = [sink EXCEPT ![s] = q]
            /\ q.bind.talker = r.bind.talker /\ q.bind \in Binding
            /\ q.seq = r.seq /\ q.state = r.state /\ Bound(r)
            /\ q.probing = r.probing /\ q.stream = r.stream
            /\ saved' = [saved EXCEPT ![s] = q.bind]
<1> DEFINE r == sink[s]
           b == [r.bind EXCEPT !.wait = ~@]
           q == [r EXCEPT !.bind = b]
<1>1. Fine(r) /\ Core(r) /\ Bound(r) /\ r.bind \in Binding
  BY SinkFine DEF StartStop, SinkType
<1>2. b \in Binding /\ b.talker = r.bind.talker /\ b.talker \in Talkers
  BY <1>1 DEF Binding, Core
<1>3. sink' = [sink EXCEPT ![s].bind = b] /\ saved' = [saved EXCEPT ![s] = b]
  BY DEF StartStop, Told
<1>4. sink' = [sink EXCEPT ![s] = q]
  BY <1>3
<1> HIDE DEF b
<1>5. /\ Fine(q) /\ q.bind = b /\ q.seq = r.seq /\ q.state = r.state
      /\ q.probing = r.probing /\ q.stream = r.stream
  BY <1>1, <1>2, RebindOK
<1> HIDE DEF q
<1>6. sink'[s] = q
  BY <1>4 DEF IInv, TypeOK
<1> QED
  BY <1>1, <1>2, <1>3, <1>4, <1>5, <1>6

LEMMA StartStopIInv ==
  ASSUME IInv, NEW s \in Sinks, StartStop(s) PROVE IInv'
<1>1. sink' \in [Sinks -> SinkType] /\ \A u \in Sinks : Core(sink'[u]) /\ Awake(sink'[u])
  BY StartStopFacts, OneSink
<1>2. saved' \in [Sinks -> Binding]
  BY StartStopFacts DEF IInv, TypeOK
<1>3. UNCHANGED <<sequence, inflight, net, toSrp, fromSrp, declared, registered, restore,
                  faults, calm>>
  BY DEF StartStop
<1> QED
  BY <1>1, <1>2, <1>3 DEF IInv, TypeOK

LEMMA RestoreFacts ==
  ASSUME IInv, NEW s \in Sinks, Restore(s)
  PROVE  LET r == sink[s]
             q == sink'[s]
         IN /\ Fine(q) /\ sink' = [sink EXCEPT ![s] = q]
            /\ q.bind = restore[s] /\ restore[s].talker \in Talkers
            /\ ~Bound(r) => q.state = "PRB_W_AVAIL" /\ q.probing = "PASSIVE"
<1> DEFINE b == restore[s]
           r == [sink[s] EXCEPT !.bind = b]
           q == IF Bound(r) THEN r ELSE Reset(WaitAvailable(r))
<1>1. b \in Binding /\ b.talker \in Talkers
  BY FlagsAssumption DEF Restore, IInv, RestoreType, Binding
<1>2. sink' = [sink EXCEPT ![s] = q]
  BY DEF Restore
<1> HIDE DEF b
<1>3. Fine(r) /\ r.bind = b /\ r.state = sink[s].state
  BY <1>1, SinkFine, RebindOK
<1> HIDE DEF r
<1>4. Core(WaitAvailable(r)) /\ WaitAvailable(r).state = "PRB_W_AVAIL"
      /\ WaitAvailable(r).probing = "PASSIVE" /\ WaitAvailable(r).bind = b
  BY <1>1, <1>3, WaitAvailableOK DEF Fine
<1>5. Fine(q) /\ q.bind = b /\ (~Bound(r) => q.state = "PRB_W_AVAIL" /\ q.probing = "PASSIVE")
  BY <1>3, <1>4, ResetOK DEF Fine, Awake
<1> HIDE DEF q
<1>6. sink'[s] = q
  BY <1>2 DEF IInv, TypeOK
<1> QED
  BY <1>1, <1>2, <1>3, <1>5, <1>6 DEF b, Bound

LEMMA RestoreIInv ==
  ASSUME IInv, NEW s \in Sinks, Restore(s) PROVE IInv'
<1>1. sink' \in [Sinks -> SinkType] /\ \A u \in Sinks : Core(sink'[u]) /\ Awake(sink'[u])
  BY RestoreFacts, OneSink
<1>2. restore' \in [Sinks -> RestoreType] /\ restore' \in [Sinks -> Binding]
  BY DEF Restore, IInv, TypeOK, RestoreType, Binding, NoBinding
<1>3. UNCHANGED <<sequence, inflight, net, toSrp, fromSrp, declared, registered, saved,
                  faults, calm>>
  BY DEF Restore
<1> QED
  BY <1>1, <1>2, <1>3 DEF IInv, TypeOK

\* Discovery changes any number of sinks.
LEMMA DiscoverIInv ==
  ASSUME IInv, NEW next, DOMAIN next = Sinks, next = [s \in Sinks |-> next[s]],
         \A s \in Sinks : Fine(next[s]),
         NEW departed, Discover(next, departed)
  PROVE  IInv'
<1>1. sink' \in [Sinks -> SinkType] /\ \A s \in Sinks : Core(sink'[s]) /\ Awake(sink'[s])
  BY DEF Discover, Fine, Core
<1>2. inflight' \subseteq InflightType
  BY DEF Discover, IInv, TypeOK
<1>3. UNCHANGED <<sequence, net, toSrp, fromSrp, declared, registered, saved, restore,
                  faults, calm>>
  BY DEF Discover
<1> QED
  BY <1>1, <1>2, <1>3 DEF IInv, TypeOK

LEMMA AdpAvailableIInv ==
  ASSUME IInv, NEW e, NEW newer \in BOOLEAN, NEW gptp \in BOOLEAN, AdpAvailable(e, newer, gptp)
  PROVE  IInv'
<1> DEFINE hear == {s \in Sinks : BoundTo(s, e)}
           next == [s \in Sinks |-> IF s \in hear THEN Available(sink[s], newer, gptp)
                                                  ELSE sink[s]]
<1>1. Discover(next, {s \in hear : sink[s].discovered /\ ~newer})
  BY DEF AdpAvailable
<1>2. \A s \in Sinks : Fine(next[s])
  BY SinkFine, AvailableOK DEF BoundTo
<1>3. DOMAIN next = Sinks /\ next = [s \in Sinks |-> next[s]]
  OBVIOUS
<1> HIDE DEF next
<1> QED
  BY <1>1, <1>2, <1>3, DiscoverIInv

LEMMA DepartIInv ==
  ASSUME IInv, NEW S, Depart(S) PROVE IInv'
<1> DEFINE hear == {s \in S : sink[s].discovered}
           next == [s \in Sinks |-> IF s \in hear THEN Reset(Departed(sink[s])) ELSE sink[s]]
<1>1. Discover(next, hear)
  BY DEF Depart
<1>2. \A s \in Sinks : Fine(next[s])
  BY SinkFine, DepartOK
<1>3. DOMAIN next = Sinks /\ next = [s \in Sinks |-> next[s]]
  OBVIOUS
<1> HIDE DEF next
<1> QED
  BY <1>1, <1>2, <1>3, DiscoverIInv

LEMMA TmrDelayFacts ==
  ASSUME IInv, NEW s \in Sinks, NEW f, TmrDelay(s, f)
  PROVE  LET r == sink[s]
             q == sink'[s]
         IN /\ Fine(q) /\ sink' = [sink EXCEPT ![s] = q]
            /\ q.state = "PRB_W_RESP" /\ q.bind = r.bind /\ r.bind.talker \in Talkers
            /\ q.probing = r.probing
            /\ q.seq = IF f = "desc" THEN r.seq ELSE sequence
<1> DEFINE r == sink[s]
           l == Leave(r, "PRB_W_RESP")
           n == IF f = "desc" THEN l.seq ELSE sequence
           q == [l EXCEPT !.seq = n]
<1>1. Core(r) /\ r.state = "PRB_W_DELAY" /\ r.bind.talker \in Talkers
  BY SinkFine DEF TmrDelay, Core, Bound
<1>2. /\ Core(l) /\ Awake(l) /\ l.state = "PRB_W_RESP" /\ l.probing = r.probing
      /\ l.bind = r.bind /\ l.seq = r.seq
  BY <1>1, ProbeSentOK
<1>3. sink' = [sink EXCEPT ![s] = q]
  BY DEF TmrDelay
<1> HIDE DEF l
<1>4. n \in 0 .. SeqMod - 1
  BY <1>2 DEF Core, SinkType, IInv, TypeOK
<1> HIDE DEF n
<1>5. /\ q \in SinkType /\ q.state = l.state /\ q.timers = l.timers /\ q.bind = l.bind
      /\ q.stream = l.stream /\ q.probing = l.probing /\ q.discovered = l.discovered
      /\ q.seq = n
  BY <1>2, <1>4 DEF Core, SinkType
<1> HIDE DEF q
<1>6. Fine(q)
  BY <1>2, <1>5 DEF Fine, Core, Awake, Settled, Bound
<1>7. sink'[s] = q
  BY <1>3 DEF IInv, TypeOK
<1> QED
  BY <1>1, <1>2, <1>3, <1>5, <1>6, <1>7 DEF n

LEMMA TmrDelayIInv ==
  ASSUME IInv, NEW s \in Sinks, NEW f, TmrDelay(s, f) PROVE IInv'
<1>1. sink' \in [Sinks -> SinkType] /\ \A u \in Sinks : Core(sink'[u]) /\ Awake(sink'[u])
  BY TmrDelayFacts, OneSink
<1>2. sequence' \in 0 .. SeqMod - 1 /\ inflight' \subseteq InflightType
      /\ net' \subseteq MessageType
  BY TmrDelayFacts, SendProbeType DEF TmrDelay, IInv
<1>3. faults' \in 0 .. MaxFaults
  BY FaultType DEF TmrDelay, IInv
<1>4. UNCHANGED <<toSrp, fromSrp, declared, registered, saved, restore, calm>>
  BY DEF TmrDelay
<1> QED
  BY <1>1, <1>2, <1>3, <1>4 DEF IInv, TypeOK

LEMMA TmrRetryFacts ==
  ASSUME IInv, NEW s \in Sinks, TmrRetry(s)
  PROVE  LET r == sink[s]
             q == sink'[s]
         IN /\ Fine(q) /\ sink' = [sink EXCEPT ![s] = q]
            /\ Same(r, q) /\ (Calmly(r) => Calmly(q))
            /\ q.state \notin AwaitingResponse /\ r.state \notin AwaitingResponse
<1> DEFINE r == sink[s]
           q == IF r.discovered THEN WaitDelay(r) ELSE WaitAvailable(r)
<1>1. Core(r) /\ r.state = "PRB_W_RETRY" /\ r.bind.talker \in Talkers
  BY SinkFine DEF TmrRetry, Core, Bound
<1>2. sink' = [sink EXCEPT ![s] = q]
  BY DEF TmrRetry
<1>3. /\ Core(q) /\ Awake(q) /\ q.bind = r.bind /\ q.seq = r.seq
      /\ \/ q.state = "PRB_W_DELAY" /\ q.probing = r.probing
         \/ q.state = "PRB_W_AVAIL" /\ q.probing = "PASSIVE"
  BY <1>1, WaitDelayOK, WaitAvailableOK DEF Awake
<1> HIDE DEF q
<1>4. sink'[s] = q
  BY <1>2 DEF IInv, TypeOK
<1> QED
  BY <1>1, <1>2, <1>3, <1>4, StatusOfStates
     DEF Fine, Same, Calmly, Bound, Settled, SettledStates, Probing, AwaitingResponse

LEMMA TmrRetryIInv ==
  ASSUME IInv, NEW s \in Sinks, TmrRetry(s) PROVE IInv'
<1>1. sink' \in [Sinks -> SinkType] /\ \A u \in Sinks : Core(sink'[u]) /\ Awake(sink'[u])
  BY TmrRetryFacts, OneSink
<1>2. UNCHANGED <<sequence, inflight, net, toSrp, fromSrp, declared, registered, saved,
                  restore, faults, calm>>
  BY DEF TmrRetry
<1> QED
  BY <1>1, <1>2 DEF IInv, TypeOK

LEMMA TmrNoTkFacts ==
  ASSUME IInv, NEW s \in Sinks, TmrNoTk(s)
  PROVE  LET r == sink[s]
             q == sink'[s]
         IN /\ Fine(q) /\ sink' = [sink EXCEPT ![s] = q]
            /\ Same(r, q) /\ Calmly(q)
            /\ q.state \notin AwaitingResponse /\ r.state \notin AwaitingResponse
<1> DEFINE r == sink[s]
           q == Reprobe(r)
<1>1. Core(r) /\ r.state = "SETTLED_NO_RSV" /\ r.bind.talker \in Talkers
  BY SinkFine DEF TmrNoTk, Core, Bound
<1>2. sink' = [sink EXCEPT ![s] = q]
  BY DEF TmrNoTk
<1>3. Fine(q) /\ Calmly(q) /\ Bound(q) /\ q.bind = r.bind /\ q.seq = r.seq
      /\ q.state \notin AwaitingResponse
  BY <1>1, ReprobeOK
<1> HIDE DEF q
<1>4. sink'[s] = q
  BY <1>2 DEF IInv, TypeOK
<1> QED
  BY <1>1, <1>2, <1>3, <1>4 DEF Same, Bound, AwaitingResponse

LEMMA TmrNoTkIInv ==
  ASSUME IInv, NEW s \in Sinks, TmrNoTk(s) PROVE IInv'
<1>1. sink' \in [Sinks -> SinkType] /\ \A u \in Sinks : Core(sink'[u]) /\ Awake(sink'[u])
  BY TmrNoTkFacts, OneSink
<1>2. toSrp' \in Seq(RequestType)
  BY SinkFine, DisconnectType DEF TmrNoTk, IInv
<1>3. UNCHANGED <<sequence, inflight, net, fromSrp, declared, registered, saved,
                  restore, faults, calm>>
  BY DEF TmrNoTk
<1> QED
  BY <1>1, <1>2, <1>3 DEF IInv, TypeOK

LEMMA InflightTimeoutFacts ==
  ASSUME IInv, NEW i, NEW f, InflightTimeout(i, f)
  PROVE  LET s == i.msg.sink
             r == sink[s]
             q == sink'[s]
         IN /\ s \in Sinks /\ i \in InflightType /\ i.msg \in MessageType
            /\ Fine(q) /\ sink' = [sink EXCEPT ![s] = q]
            /\ Same(r, q) /\ (Calmly(r) => Calmly(q))
            /\ r.state = "PRB_W_RESP" => q.state = "PRB_W_RESP2"
            /\ r.state = "PRB_W_RESP2" => q.state = "PRB_W_RETRY"
<1> DEFINE s == i.msg.sink
           r == sink[s]
           q == NoResponse(r)
<1>1. i \in InflightType /\ i.msg \in MessageType /\ s \in Sinks
  BY DEF InflightTimeout, IInv, TypeOK, InflightType, MessageType
<1> HIDE DEF s
<1>2. sink' = [sink EXCEPT ![s] = q]
  BY DEF InflightTimeout, s
<1>3. /\ Fine(q) /\ Same(r, q) /\ (Calmly(r) => Calmly(q))
      /\ r.state = "PRB_W_RESP" => q.state = "PRB_W_RESP2"
      /\ r.state = "PRB_W_RESP2" => q.state = "PRB_W_RETRY"
  BY <1>1, SinkFine, NoResponseOK
<1> HIDE DEF q
<1>4. sink'[s] = q
  BY <1>1, <1>2 DEF IInv, TypeOK
<1> QED
  BY <1>1, <1>2, <1>3, <1>4 DEF s

LEMMA InflightTimeoutIInv ==
  ASSUME IInv, NEW i, NEW f, InflightTimeout(i, f) PROVE IInv'
<1>1. sink' \in [Sinks -> SinkType] /\ \A u \in Sinks : Core(sink'[u]) /\ Awake(sink'[u])
  BY InflightTimeoutFacts, OneSink
<1>2. i \in InflightType /\ i.msg \in MessageType
  BY InflightTimeoutFacts
<1>3. [i EXCEPT !.retried = TRUE] \in InflightType
  BY <1>2 DEF InflightType
<1>4. inflight' \subseteq InflightType
  <2>1. i.retried \in BOOLEAN
    BY <1>2 DEF InflightType
  <2>2. CASE i.retried
    BY <2>2 DEF InflightTimeout, IInv, TypeOK
  <2>3. CASE ~i.retried /\ f = "none"
    <3>1. inflight' = (inflight \ {i}) \cup {[i EXCEPT !.retried = TRUE]}
      BY <2>3 DEF InflightTimeout
    <3> QED
      BY <1>3, <3>1 DEF IInv, TypeOK
  <2>4. CASE ~i.retried /\ f # "none"
    BY <2>4 DEF InflightTimeout, IInv, TypeOK
  <2> QED
    BY <2>1, <2>2, <2>3, <2>4
<1>5. net' \subseteq MessageType
  BY <1>2 DEF InflightTimeout, IInv, TypeOK
<1>6. faults' \in 0 .. MaxFaults
  BY FaultType DEF InflightTimeout, IInv
<1>7. UNCHANGED <<sequence, toSrp, fromSrp, declared, registered, saved, restore, calm>>
  BY DEF InflightTimeout
<1> QED
  BY <1>1, <1>4, <1>5, <1>6, <1>7 DEF IInv, TypeOK

\* A response that is taken settles the sink, or lets it retry.
LEMMA ProbeResponseFacts ==
  ASSUME IInv, NEW m, NEW success \in BOOLEAN, NEW again, ProbeResponse(m, success, again)
  PROVE  LET s == m.sink
             r == sink[s]
             q == sink'[s]
             taken == r.state \in AwaitingResponse /\ Cancel(m.seq) # {}
         IN /\ s \in Sinks /\ m \in MessageType
            /\ Fine(q) /\ sink' = [sink EXCEPT ![s] = q] /\ Same(r, q)
            /\ ~taken => q = r
            /\ taken => q.state \notin AwaitingResponse
            /\ taken /\ r.bind.talker = m.talker /\ Calmly(r) => Calmly(q)
            /\ inflight' = IF taken THEN inflight \ Cancel(m.seq) ELSE inflight
<1> DEFINE s == m.sink
           r == sink[s]
           taken == r.state \in AwaitingResponse /\ Cancel(m.seq) # {}
           settled == [r EXCEPT !.state = "SETTLED_NO_RSV", !.stream = m.talker,
                                !.timers = @ \cup {"NO_TK"}, !.probing = "COMPLETED"]
           q == CASE taken /\ success -> settled
                  [] taken /\ ~success -> WaitRetry(r)
                  [] OTHER -> r
<1>1. m \in MessageType /\ s \in Sinks /\ m.talker \in Talkers
  BY DEF ProbeResponse, IInv, TypeOK, MessageType
<1> HIDE DEF s
<1>2. sink' = [sink EXCEPT ![s] = q]
  BY DEF ProbeResponse, SettledOn, s
<1>3. inflight' = IF taken THEN inflight \ Cancel(m.seq) ELSE inflight
  BY DEF ProbeResponse, s
<1>4. Fine(r) /\ Core(r)
  BY <1>1, SinkFine
<1> HIDE DEF r
<1>5. CASE taken /\ success
  <2>1. q = settled
    BY <1>5
  <2>2. /\ Fine(settled) /\ Same(r, settled) /\ settled.state = "SETTLED_NO_RSV"
        /\ r.bind.talker = m.talker => Calmly(settled)
    BY <1>1, <1>4, <1>5, SettledOK
  <2> HIDE DEF settled, q
  <2>3. sink'[s] = q
    BY <1>1, <1>2 DEF IInv, TypeOK
  <2> QED
    BY <1>1, <1>2, <1>3, <1>5, <2>1, <2>2, <2>3 DEF s, r, AwaitingResponse
<1>6. CASE taken /\ ~success
  <2>1. q = WaitRetry(r)
    BY <1>6
  <2>2. r.bind.talker \in Talkers
    BY <1>4, <1>6 DEF Core, Bound, AwaitingResponse
  <2>3. /\ Fine(q) /\ q.state = "PRB_W_RETRY" /\ q.probing = r.probing /\ q.bind = r.bind
        /\ q.seq = r.seq
    BY <1>4, <2>1, <2>2, WaitRetryOK DEF Fine, Awake
  <2> HIDE DEF q
  <2>4. Same(r, q) /\ (Calmly(r) => Calmly(q))
    BY <1>6, <2>3, StatusOfStates
       DEF Same, Calmly, Bound, Settled, SettledStates, Probing, AwaitingResponse
  <2>5. sink'[s] = q
    BY <1>1, <1>2 DEF IInv, TypeOK
  <2> QED
    BY <1>1, <1>2, <1>3, <1>6, <2>3, <2>4, <2>5 DEF s, r, AwaitingResponse
<1>7. CASE ~taken
  <2>1. q = r
    BY <1>7
  <2> HIDE DEF q, taken
  <2>2. sink'[s] = q
    BY <1>1, <1>2 DEF IInv, TypeOK
  <2> QED
    BY <1>1, <1>2, <1>3, <1>4, <1>7, <2>1, <2>2 DEF s, r, taken, Same
<1> QED
  BY <1>5, <1>6, <1>7

LEMMA ProbeResponseIInv ==
  ASSUME IInv, NEW m, NEW success \in BOOLEAN, NEW again, ProbeResponse(m, success, again)
  PROVE  IInv'
<1>1. sink' \in [Sinks -> SinkType] /\ \A u \in Sinks : Core(sink'[u]) /\ Awake(sink'[u])
  BY ProbeResponseFacts, OneSink
<1>2. [op |-> "REGISTER", stream |-> m.talker] \in RequestType
  <2>1. m \in MessageType
    BY ProbeResponseFacts
  <2> QED
    BY <2>1 DEF MessageType, RequestType
<1>3. toSrp' \in Seq(RequestType)
  BY <1>2 DEF ProbeResponse, IInv, TypeOK
<1>4. inflight' \subseteq InflightType /\ net' \subseteq MessageType
  BY ProbeResponseFacts DEF ProbeResponse, IInv, TypeOK
<1>5. UNCHANGED <<sequence, fromSrp, declared, registered, saved, restore, faults, calm>>
  BY DEF ProbeResponse
<1> QED
  BY <1>1, <1>3, <1>4, <1>5 DEF IInv, TypeOK

\* A set of sinks has a first one.
LEMMA LeastExists ==
  ASSUME NEW S, S \subseteq Nat, S # {}
  PROVE  \E x \in S : \A y \in S : x <= y
<1>1. PICK x \in S : \A y \in S : ~(<<y, x>> \in OpToRel(<, Nat))
  BY NatLessThanWellFounded, WFMin
<1>2. ASSUME NEW y \in S PROVE x <= y
  <2>1. <<y, x>> \in OpToRel(<, Nat) <=> y < x
    BY DEF OpToRel
  <2>2. ~(y < x)
    BY <1>1, <2>1, Zenon
  <2>3. x \in Nat /\ y \in Nat
    OBVIOUS
  <2> QED
    BY <2>2, <2>3
<1> QED
  BY <1>2

\* A status changes at most one sink, and only a settled one.
LEMMA ListenerStatusFacts ==
  ASSUME IInv, ListenerStatus
  PROVE  \/ sink' = sink /\ toSrp' = toSrp
         \/ \E s \in Sinks :
              LET r == sink[s]
                  q == sink'[s]
              IN /\ Fine(q) /\ sink' = [sink EXCEPT ![s] = q] /\ Same(r, q)
                 /\ (Calmly(r) => Calmly(q))
                 /\ q.state \notin AwaitingResponse /\ r.state \notin AwaitingResponse
                 /\ toSrp' = toSrp \/ Disconnect(r)
<1> DEFINE m == Head(fromSrp)
           s == FirstOf(SinksOf(m.stream))
           known == SinksOf(m.stream) # {} /\ Settled(sink[s])
           lost == known /\ sink[s].registering /\ ~m.talker /\ sink[s].state = "SETTLED_RSV_OK"
<1>1. /\ sink' = IF known THEN [sink EXCEPT ![s] = SrpState(@, m.talker)] ELSE sink
      /\ IF lost THEN Disconnect(sink[s]) ELSE UNCHANGED toSrp
  BY DEF ListenerStatus
<1>2. m \in StatusType /\ m.talker \in BOOLEAN
  <2>1. fromSrp \in Seq(StatusType) /\ fromSrp # <<>>
    BY DEF ListenerStatus, IInv, TypeOK
  <2>2. m \in StatusType
    BY <2>1
  <2> QED
    BY <2>2 DEF StatusType
<1> HIDE DEF m
<1>3. CASE ~known
  BY <1>1, <1>3
<1>4. CASE known
  <2>1. s \in Sinks
    <3>1. SinksOf(m.stream) \subseteq Sinks /\ SinksOf(m.stream) # {}
      BY <1>4 DEF SinksOf
    <3>2. \E x \in SinksOf(m.stream) : \A u \in SinksOf(m.stream) : x <= u
      BY <3>1, SinksAssumption, LeastExists DEF Sinks
    <3>3. s \in SinksOf(m.stream)
      BY <3>2 DEF FirstOf
    <3> QED
      BY <3>1, <3>3
  <2> HIDE DEF s
  <2> DEFINE r == sink[s]
             q == SrpState(r, m.talker)
  <2>2. sink' = [sink EXCEPT ![s] = q]
    BY <1>1, <1>4
  <2>3. Fine(r) /\ Settled(r)
    BY <1>4, <2>1, SinkFine
  <2>4. /\ Fine(q) /\ (Calmly(r) => Calmly(q)) /\ Bound(q)
        /\ q.bind = r.bind /\ q.seq = r.seq /\ q.state \notin AwaitingResponse
    BY <1>2, <2>3, SrpStateOK
  <2> HIDE DEF q
  <2>5. sink'[s] = q
    BY <2>1, <2>2 DEF IInv, TypeOK
  <2>6. Bound(r) /\ r.state \notin AwaitingResponse
    BY <2>3 DEF Bound, Settled, SettledStates, AwaitingResponse
  <2>7. toSrp' = toSrp \/ Disconnect(r)
    BY <1>1
  <2> QED
    BY <2>1, <2>2, <2>4, <2>5, <2>6, <2>7 DEF Same
<1> QED
  BY <1>3, <1>4

LEMMA ListenerStatusIInv ==
  ASSUME IInv, ListenerStatus PROVE IInv'
<1>1. sink' \in [Sinks -> SinkType] /\ \A u \in Sinks : Core(sink'[u]) /\ Awake(sink'[u])
  <2>1. CASE sink' = sink
    BY <2>1 DEF IInv, TypeOK
  <2>2. ASSUME NEW s \in Sinks, Fine(sink'[s]), sink' = [sink EXCEPT ![s] = sink'[s]]
        PROVE  sink' \in [Sinks -> SinkType]
               /\ \A u \in Sinks : Core(sink'[u]) /\ Awake(sink'[u])
    BY <2>2, OneSink
  <2> QED
    BY <2>1, <2>2, ListenerStatusFacts
<1>2. toSrp' \in Seq(RequestType)
  BY ListenerStatusFacts, SinkFine, DisconnectType DEF IInv, TypeOK
<1>3. fromSrp' \in Seq(StatusType)
  BY DEF ListenerStatus, IInv, TypeOK
<1>4. UNCHANGED <<sequence, inflight, net, declared, registered, saved, restore, faults, calm>>
  BY DEF ListenerStatus
<1> QED
  BY <1>1, <1>2, <1>3, <1>4 DEF IInv, TypeOK

LEMMA StatusOK ==
  ASSUME TypeOK, NEW t \in Talkers \cup {None}, NEW talker \in BOOLEAN, NEW users
  PROVE  Status(t, talker, users) \in Seq(StatusType)
<1>1. [stream |-> t, talker |-> talker] \in StatusType
  BY DEF StatusType
<1> QED
  BY <1>1 DEF Status, TypeOK

LEMMA MsrpIInv ==
  ASSUME IInv, \/ MsrpRequest \/ \E t \in Talkers : TalkerRegistered(t) \/ TalkerDeregistered(t)
  PROVE  IInv'
<1>1. CASE MsrpRequest
  <2> DEFINE m == Head(toSrp)
  <2>1. m \in RequestType /\ toSrp' \in Seq(RequestType)
    BY <1>1 DEF MsrpRequest, IInv, TypeOK
  <2>2. m.stream \in Talkers \cup {None}
    BY <2>1 DEF RequestType
  <2>3. declared' \subseteq Talkers \cup {None} /\ fromSrp' \in Seq(StatusType)
    <3>1. CASE m.op = "REGISTER"
      <4>1. declared' = declared \cup {m.stream}
            /\ fromSrp' = Status(m.stream, m.stream \in registered, declared')
        BY <1>1, <3>1 DEF MsrpRequest
      <4>2. (m.stream \in registered) \in BOOLEAN
        OBVIOUS
      <4> HIDE DEF m
      <4>3. Status(m.stream, m.stream \in registered, declared') \in Seq(StatusType)
        BY <2>2, <4>2, StatusOK DEF IInv
      <4> QED
        BY <2>2, <4>1, <4>3 DEF IInv, TypeOK
    <3>2. CASE m.op # "REGISTER"
      BY <1>1, <3>2 DEF MsrpRequest, IInv, TypeOK
    <3> QED
      BY <3>1, <3>2
  <2>4. UNCHANGED <<sink, sequence, inflight, net, registered, saved, restore, faults, calm>>
    BY <1>1 DEF MsrpRequest
  <2> QED
    BY <2>1, <2>3, <2>4 DEF IInv, TypeOK
<1>2. ASSUME NEW t \in Talkers, TalkerRegistered(t) PROVE IInv'
  <2>1. registered' \subseteq Talkers /\ fromSrp' \in Seq(StatusType)
    BY <1>2, StatusOK DEF TalkerRegistered, IInv, TypeOK
  <2>2. UNCHANGED <<sink, sequence, inflight, net, toSrp, declared, saved, restore, faults, calm>>
    BY <1>2 DEF TalkerRegistered
  <2> QED
    BY <2>1, <2>2 DEF IInv, TypeOK
<1>3. ASSUME NEW t \in Talkers, TalkerDeregistered(t) PROVE IInv'
  <2>1. registered' \subseteq Talkers /\ fromSrp' \in Seq(StatusType)
    BY <1>3, StatusOK DEF TalkerDeregistered, IInv, TypeOK
  <2>2. UNCHANGED <<sink, sequence, inflight, net, toSrp, declared, saved, restore, faults, calm>>
    BY <1>3 DEF TalkerDeregistered
  <2> QED
    BY <2>1, <2>2 DEF IInv, TypeOK
<1> QED
  BY <1>1, <1>2, <1>3

LEMMA OtherIInv ==
  ASSUME IInv, Calm \/ (\E m \in net : Lose(m)) \/ UNCHANGED vars
  PROVE  IInv'
<1>1. CASE Calm
  BY <1>1 DEF Calm, IInv, TypeOK
<1>2. CASE \E m \in net : Lose(m)
  BY <1>2 DEF Lose, IInv, TypeOK
<1>3. CASE UNCHANGED vars
  BY <1>3 DEF vars, IInv, TypeOK
<1> QED
  BY <1>1, <1>2, <1>3

LEMMA InitIInv == Init => IInv
<1> SUFFICES ASSUME Init PROVE IInv
  OBVIOUS
<1> DEFINE r == [state |-> "UNBOUND", bind |-> NoBinding, stream |-> None,
                 registering |-> FALSE, probing |-> "DISABLED", seq |-> 0,
                 discovered |-> FALSE, timers |-> {}]
<1>1. sink = [s \in Sinks |-> r]
  BY DEF Init
<1>2. NoBinding \in Binding /\ 0 \in 0 .. SeqMod - 1 /\ OwnTimer("UNBOUND") = {}
  BY BoundsAssumption DEF NoBinding, Binding, OwnTimer
<1>3. r \in SinkType /\ r.state = "UNBOUND" /\ r.timers = {} /\ ~r.discovered /\ r.stream = None
  BY <1>2 DEF SinkType, States, ProbingStatus
<1> HIDE DEF r
<1>4. Core(r) /\ Awake(r)
  BY <1>2, <1>3 DEF Core, Awake, Settled, SettledStates, Bound
<1>5. sink \in [Sinks -> SinkType] /\ \A s \in Sinks : Core(sink[s]) /\ Awake(sink[s])
  BY <1>1, <1>3, <1>4
<1>6. restore \in [Sinks -> RestoreType] /\ restore \in [Sinks -> Binding]
  <2>1. restore \in [Sinks -> RestoreType]
    BY DEF Init, RestoreType
  <2>2. RestoreType \subseteq Binding
    BY <1>2, FlagsAssumption DEF RestoreType, Binding
  <2> QED
    BY <2>1, <2>2
<1>7. /\ sequence \in 0 .. SeqMod - 1 /\ faults \in 0 .. MaxFaults
      /\ inflight = {} /\ net = {} /\ toSrp = <<>> /\ fromSrp = <<>>
      /\ declared = {} /\ registered = {} /\ saved = restore /\ calm = FALSE
  BY <1>2, BoundsAssumption DEF Init
<1>8. toSrp \in Seq(RequestType) /\ fromSrp \in Seq(StatusType)
  BY <1>7
<1>9. inflight \subseteq InflightType /\ net \subseteq MessageType
      /\ declared \subseteq Talkers \cup {None} /\ registered \subseteq Talkers
  BY <1>7
<1>10. calm \in BOOLEAN /\ saved \in [Sinks -> Binding]
  BY <1>6, <1>7, Zenon
<1> QED
  BY <1>5, <1>6, <1>7, <1>8, <1>9, <1>10, Zenon DEF IInv, TypeOK

LEMMA NextIInv == IInv /\ [Next]_vars => IInv'
<1> SUFFICES ASSUME IInv, [Next]_vars PROVE IInv'
  OBVIOUS
<1>1. ASSUME NEW s \in Sinks, NEW t \in Talkers, NEW w \in Waits, NEW f \in Faults,
             Bind(s, [talker |-> t, wait |-> w], f)
      PROVE  IInv'
  BY <1>1, BindIInv
<1>2. ASSUME NEW s \in Sinks, Unbind(s) \/ StartStop(s) \/ Restore(s) PROVE IInv'
  BY <1>2, UnbindIInv, StartStopIInv, RestoreIInv
<1>3. ASSUME NEW s \in Sinks, (\E f \in Faults : TmrDelay(s, f)) \/ TmrRetry(s) \/ TmrNoTk(s)
      PROVE  IInv'
  BY <1>3, TmrDelayIInv, TmrRetryIInv, TmrNoTkIInv
<1>4. ASSUME NEW s \in Sinks, TmrNoAdp(s) PROVE IInv'
  BY <1>4, DepartIInv DEF TmrNoAdp
<1>5. ASSUME NEW e \in Entities, AdpDeparting(e) PROVE IInv'
  BY <1>5, DepartIInv DEF AdpDeparting
<1>6. ASSUME NEW e \in Entities, NEW newer \in BOOLEAN, NEW gptp \in BOOLEAN,
             AdpAvailable(e, newer, gptp)
      PROVE  IInv'
  BY <1>6, AdpAvailableIInv
<1>7. ASSUME NEW i \in inflight, NEW f \in Faults, InflightTimeout(i, f) PROVE IInv'
  BY <1>7, InflightTimeoutIInv
<1>8. ASSUME NEW m \in net, NEW success \in BOOLEAN, NEW again \in BOOLEAN,
             ProbeResponse(m, success, again)
      PROVE  IInv'
  BY <1>8, ProbeResponseIInv
<1>9. CASE ListenerStatus
  BY <1>9, ListenerStatusIInv
<1>10. CASE MsrpRequest \/ \E t \in Talkers : TalkerRegistered(t) \/ TalkerDeregistered(t)
  BY <1>10, MsrpIInv
<1>11. CASE Calm \/ (\E m \in net : Lose(m)) \/ UNCHANGED vars
  BY <1>11, OtherIInv
<1> QED
  BY <1>1, <1>2, <1>3, <1>4, <1>5, <1>6, <1>7, <1>8, <1>9, <1>10, <1>11 DEF Next

\* IInv is an invariant, whatever fails and whenever bindings are restored.
LEMMA AlwaysIInv == Spec => []IInv
BY InitIInv, NextIInv, PTL DEF Spec

\* The descriptors, the in-flight list and the channels keep their types, for
\* any number of sinks and talkers, with faults and late restores.
THEOREM TypeCorrect == Spec => []TypeOK
<1>1. IInv => TypeOK
  BY DEF IInv
<1> QED
  BY <1>1, AlwaysIInv, PTL

\* Exactly the timer of its state runs for a sink, and TMR_NO_ADP exactly while
\* its talker is discovered, with faults and late restores.
THEOREM TimersAgree == Spec => []TimersMatchState
<1>1. IInv => TimersMatchState
  BY DEF IInv, Core, TimersMatchState
<1> QED
  BY <1>1, AlwaysIInv, PTL

\* No sink waits for the discovery of a talker that is already discovered, with
\* faults and late restores.
THEOREM NeverMissed == Spec => []NoLostWakeup
<1>1. IInv => NoLostWakeup
  BY DEF IInv, Awake, NoLostWakeup
<1> QED
  BY <1>1, AlwaysIInv, PTL

-----------------------------------------------------------------------------
(* JInv: probes, streams and talkers, when nothing fails and bindings are  *)
(* restored before controllers bind.                                       *)

\* The two halves of ProbeOutstanding.
HasEntry(s) ==
  \E i \in inflight : i.msg.sink = s /\ (i.retried <=> sink[s].state = "PRB_W_RESP2")
Owned(i) ==
  /\ sink[i.msg.sink].state \in AwaitingResponse
  /\ sink[i.msg.sink].seq = i.msg.seq
  /\ sink[i.msg.sink].bind.talker = i.msg.talker

\* The entry of a sink that waits is the one with its number.
LEMMA CancelOwn ==
  ASSUME IInv, JInv, NEW s \in Sinks, sink[s].state \in AwaitingResponse
  PROVE  Cancel(sink[s].seq) = {i \in inflight : i.msg.sink = s}
<1>1. PICK j \in inflight : j.msg.sink = s
  BY DEF JInv, ProbeOutstanding
<1>2. j.msg.seq = sink[s].seq
  BY <1>1 DEF JInv, ProbeOutstanding
<1>3. ASSUME NEW i \in inflight, i.msg.seq = sink[s].seq PROVE i.msg.sink = s
  <2>1. i = j
    BY <1>2, <1>3 DEF JInv, NumbersApart
  <2> QED
    BY <1>1, <2>1
<1>4. ASSUME NEW i \in inflight, i.msg.sink = s PROVE i.msg.seq = sink[s].seq
  BY <1>4 DEF JInv, ProbeOutstanding
<1> QED
  BY <1>3, <1>4 DEF Cancel

\* A sink that does not wait has no entry.
LEMMA NoEntry ==
  ASSUME IInv, JInv, NEW s \in Sinks, sink[s].state \notin AwaitingResponse
  PROVE  {i \in inflight : i.msg.sink = s} = {}
BY DEF JInv, ProbeOutstanding

LEMMA EntrySink ==
  ASSUME IInv, NEW i \in inflight
  PROVE  i.msg.sink \in Sinks /\ i.msg \in MessageType
BY DEF IInv, TypeOK, InflightType, MessageType

\* Bindings that name the same talkers as before stay apart.
LEMMA TalkersKept ==
  ASSUME JInv, UNCHANGED restore,
         \A u \in Sinks : /\ sink'[u].bind.talker = sink[u].bind.talker
                          /\ Bound(sink'[u]) <=> Bound(sink[u])
  PROVE  NoSharedTalker' /\ RestoresApart'
BY DEF JInv, NoSharedTalker, RestoresApart

\* A step in which the sinks of D give up their probes and the other sinks that
\* wait go on waiting.
LEMMA GiveUpJInv ==
  ASSUME IInv, JInv, NEW D,
         inflight' = {i \in inflight : i.msg.sink \notin D},
         net' \subseteq net,
         \A u \in Sinks : Calmly(sink'[u]),
         \A u \in Sinks \cap D : sink'[u].state \notin AwaitingResponse,
         \A u \in Sinks \ D :
           sink'[u].state \in AwaitingResponse \/ sink[u].state \in AwaitingResponse =>
             /\ sink'[u].state = sink[u].state /\ sink'[u].seq = sink[u].seq
             /\ sink'[u].bind.talker = sink[u].bind.talker,
         NoSharedTalker', RestoresApart'
  PROVE  JInv'
<1>1. NumbersApart'
  BY DEF JInv, NumbersApart
<1>2. ASSUME NEW s \in Sinks, sink'[s].state \in AwaitingResponse
      PROVE  HasEntry(s)'
  <2>1. s \notin D /\ sink'[s].state = sink[s].state
    BY <1>2
  <2>2. PICK i \in inflight : i.msg.sink = s /\ (i.retried <=> sink[s].state = "PRB_W_RESP2")
    BY <1>2, <2>1 DEF JInv, ProbeOutstanding
  <2>3. i \in inflight'
    BY <2>1, <2>2
  <2> QED
    BY <2>1, <2>2, <2>3 DEF HasEntry
<1>3. ASSUME NEW i \in inflight'
      PROVE  Owned(i)'
  <2>1. i \in inflight /\ i.msg.sink \in Sinks /\ i.msg.sink \notin D
    BY EntrySink
  <2>2. /\ sink[i.msg.sink].state \in AwaitingResponse
        /\ sink[i.msg.sink].seq = i.msg.seq
        /\ sink[i.msg.sink].bind.talker = i.msg.talker
    BY <2>1 DEF JInv, ProbeOutstanding
  <2> QED
    BY <2>1, <2>2 DEF Owned
<1>4. ProbeOutstanding'
  BY <1>2, <1>3 DEF ProbeOutstanding, HasEntry, Owned
<1> QED
  BY <1>1, <1>4 DEF JInv

\* A step that leaves the in-flight list and the sinks that wait alone.
LEMMA QuietJInv ==
  ASSUME IInv, JInv, inflight' = inflight, net' \subseteq net,
         \A u \in Sinks : Calmly(sink'[u]),
         \A u \in Sinks :
           sink'[u].state \in AwaitingResponse \/ sink[u].state \in AwaitingResponse =>
             /\ sink'[u].state = sink[u].state /\ sink'[u].seq = sink[u].seq
             /\ sink'[u].bind.talker = sink[u].bind.talker,
         NoSharedTalker', RestoresApart'
  PROVE  JInv'
<1> DEFINE D == {}
<1>1. /\ inflight' = {i \in inflight : i.msg.sink \notin D}
      /\ Sinks \cap D = {} /\ Sinks \ D = Sinks
  OBVIOUS
<1> HIDE DEF D
<1>2. \A u \in Sinks \ D :
        sink'[u].state \in AwaitingResponse \/ sink[u].state \in AwaitingResponse =>
          /\ sink'[u].state = sink[u].state /\ sink'[u].seq = sink[u].seq
          /\ sink'[u].bind.talker = sink[u].bind.talker
  BY <1>1
<1>3. \A u \in Sinks \cap D : sink'[u].state \notin AwaitingResponse
  BY <1>1
<1> QED
  BY <1>1, <1>2, <1>3, GiveUpJInv

\* A step in which sink s sends a first probe for its talker t, with the next
\* number, and gives up the probe it may have sent before.
LEMMA SendJInv ==
  ASSUME IInv, JInv, NEW s \in Sinks, NEW t \in Talkers, NEW gone,
         gone = {i \in inflight : i.msg.sink = s},
         SendProbe(s, t, "none", gone),
         \A u \in Sinks : Calmly(sink'[u]),
         sink'[s].state = "PRB_W_RESP", sink'[s].seq = sequence,
         sink'[s].bind.talker = t,
         \A u \in Sinks \ {s} : sink'[u] = sink[u],
         NoSharedTalker', RestoresApart'
  PROVE  JInv'
<1> DEFINE msg == [seq |-> sequence, sink |-> s, talker |-> t]
           new == [msg |-> msg, retried |-> FALSE]
<1>1. /\ \A i \in inflight : i.msg.seq # sequence
      /\ inflight' = (inflight \ gone) \cup {new}
      /\ net' = {m \in net : m.seq # sequence} \cup {msg}
  BY DEF SendProbe, Cancel
<1>2. /\ new.msg = msg /\ new.retried = FALSE
      /\ msg.seq = sequence /\ msg.sink = s /\ msg.talker = t
  OBVIOUS
<1> HIDE DEF msg, new
<1>3. NumbersApart'
  <2>1. ASSUME NEW i \in inflight', NEW j \in inflight', i.msg.seq = j.msg.seq
        PROVE  i = j
    BY <1>1, <1>2, <2>1 DEF JInv, NumbersApart
  <2>2. ASSUME NEW i \in inflight', NEW m \in net', i.msg.seq = m.seq
        PROVE  m = i.msg
    BY <1>1, <1>2, <2>2 DEF JInv, NumbersApart
  <2> QED
    BY <2>1, <2>2 DEF NumbersApart
<1>4. ASSUME NEW u \in Sinks, sink'[u].state \in AwaitingResponse
      PROVE  HasEntry(u)'
  <2>1. CASE u = s
    <3>1. new \in inflight' /\ new.msg.sink = u /\ (new.retried <=> sink'[u].state = "PRB_W_RESP2")
      BY <1>1, <1>2, <2>1
    <3> QED
      BY <3>1 DEF HasEntry
  <2>2. CASE u # s
    <3>1. PICK i \in inflight : i.msg.sink = u /\ (i.retried <=> sink[u].state = "PRB_W_RESP2")
      BY <1>4, <2>2 DEF JInv, ProbeOutstanding
    <3>2. i \in inflight' /\ sink'[u] = sink[u]
      BY <1>1, <2>2, <3>1
    <3> QED
      BY <3>1, <3>2 DEF HasEntry
  <2> QED
    BY <2>1, <2>2
<1>5. ASSUME NEW i \in inflight' PROVE Owned(i)'
  <2>1. CASE i = new
    BY <1>2, <2>1 DEF Owned, AwaitingResponse
  <2>2. CASE i # new
    <3>1. i \in inflight /\ i.msg.sink \in Sinks /\ i.msg.sink # s
      BY <1>1, <2>2, EntrySink
    <3>2. Owned(i)
      BY <3>1 DEF JInv, ProbeOutstanding, Owned
    <3> QED
      BY <3>1, <3>2 DEF Owned
  <2> QED
    BY <2>1, <2>2
<1>6. ProbeOutstanding'
  BY <1>4, <1>5 DEF ProbeOutstanding, HasEntry, Owned
<1> QED
  BY <1>3, <1>6 DEF JInv

-----------------------------------------------------------------------------
(* JInv is preserved by every action.                                      *)

\* A step of one sink that waits neither before nor after, or waits as before.
LEMMA OneSinkQuiet ==
  ASSUME IInv, JInv, NEW s \in Sinks, NEW q, Calmly(q),
         sink' = [sink EXCEPT ![s] = q],
         q.bind.talker = sink[s].bind.talker, q.seq = sink[s].seq, Bound(q) <=> Bound(sink[s]),
         \/ q.state = sink[s].state
         \/ q.state \notin AwaitingResponse /\ sink[s].state \notin AwaitingResponse,
         inflight' = inflight, net' \subseteq net, restore' = restore
  PROVE  JInv'
<1>1. sink'[s] = q /\ \A u \in Sinks \ {s} : sink'[u] = sink[u]
  BY DEF IInv, TypeOK
<1>2. \A u \in Sinks : Calmly(sink'[u])
  BY <1>1 DEF JInv
<1>3. \A u \in Sinks : /\ sink'[u].bind.talker = sink[u].bind.talker
                       /\ Bound(sink'[u]) <=> Bound(sink[u])
  BY <1>1
<1>4. NoSharedTalker' /\ RestoresApart'
  BY <1>3, TalkersKept
<1>5. \A u \in Sinks :
        sink'[u].state \in AwaitingResponse \/ sink[u].state \in AwaitingResponse =>
          /\ sink'[u].state = sink[u].state /\ sink'[u].seq = sink[u].seq
          /\ sink'[u].bind.talker = sink[u].bind.talker
  BY <1>1
<1> QED
  BY <1>2, <1>4, <1>5, QuietJInv

\* A sink bound to another talker, with no binding left to be restored.
LEMMA NewTalker ==
  ASSUME JInv, NEW s \in Sinks, NEW t \in Talkers, ~AlreadyBound(s, t),
         sink'[s].bind.talker = t, \A u \in Sinks \ {s} : sink'[u] = sink[u],
         \A u \in Sinks : restore[u] = NoBinding, restore' = restore
  PROVE  NoSharedTalker' /\ RestoresApart'
<1>1. \A u \in Sinks \ {s} : sink[u].bind.talker # t
  BY DEF AlreadyBound
<1>2. NoSharedTalker'
  BY <1>1 DEF JInv, NoSharedTalker
<1> QED
  BY <1>2 DEF RestoresApart

LEMMA BindJInv ==
  ASSUME IInv, JInv, LateRestore = FALSE, NEW s \in Sinks, NEW t \in Talkers, NEW w \in Waits,
         Bind(s, [talker |-> t, wait |-> w], "none")
  PROVE  JInv'
<1> DEFINE b == [talker |-> t, wait |-> w]
           r == sink[s]
           q == sink'[s]
           restart == r.bind.talker # t
<1>1. /\ Fine(q) /\ sink' = [sink EXCEPT ![s] = q] /\ q.bind = b
      /\ q.probing = IF restart THEN "ACTIVE" ELSE r.probing
      /\ q.seq = IF restart THEN sequence ELSE r.seq
      /\ restart \/ ~Bound(r) => q.state = "PRB_W_RESP"
      /\ ~(restart \/ ~Bound(r)) => q.state = r.state /\ q.stream = r.stream
  BY BindFacts
<1>2. b.talker = t
  OBVIOUS
<1>3. ~AlreadyBound(s, t) /\ (\A u \in Sinks : restore[u] = NoBinding) /\ restore' = restore
  BY <1>2 DEF Bind
<1>4. Calmly(r) /\ s \in DOMAIN sink
  BY DEF JInv, IInv, TypeOK
<1>5. \A u \in Sinks \ {s} : sink'[u] = sink[u]
  BY <1>1, OneSink
<1>6. CASE restart
  <2> DEFINE gone == IF r.state \in AwaitingResponse THEN Cancel(r.seq) ELSE {}
  <2>1. SendProbe(s, t, "none", gone)
    BY <1>2, <1>6 DEF Bind, NeedRestart, Abandoned
  <2>2. gone = {i \in inflight : i.msg.sink = s}
    BY CancelOwn, NoEntry
  <2> HIDE DEF gone
  <2>3. q.state = "PRB_W_RESP" /\ q.seq = sequence /\ q.bind.talker = t /\ q.probing = "ACTIVE"
    BY <1>1, <1>2, <1>6
  <2>4. Calmly(q)
    BY <2>3, StatusOfStates DEF Calmly, Bound, Settled, SettledStates, Probing
  <2>5. NoSharedTalker' /\ RestoresApart'
    BY <1>3, <1>5, <2>3, NewTalker
  <2>6. \A u \in Sinks : Calmly(sink'[u])
    BY <1>5, <2>4 DEF JInv
  <2> QED
    BY <1>5, <2>1, <2>2, <2>3, <2>5, <2>6, SendJInv
<1>7. CASE ~restart
  <2>1. Bound(r)
    BY <1>4, <1>7, TalkersAssumption DEF Calmly, NoBinding
  <2>2. q.state = r.state /\ q.stream = r.stream /\ q.probing = r.probing /\ q.seq = r.seq
        /\ q.bind.talker = r.bind.talker
    BY <1>1, <1>2, <1>7, <2>1
  <2>3. Calmly(q)
    BY <1>4, <2>1, <2>2 DEF Calmly, Bound, Settled
  <2>4. inflight' = inflight /\ net' = net
    BY <1>2, <1>7 DEF Bind, NeedRestart
  <2> QED
    BY <1>1, <1>3, <2>2, <2>3, <2>4, OneSinkQuiet DEF Bound
<1> QED
  BY <1>6, <1>7

LEMMA UnbindJInv ==
  ASSUME IInv, JInv, LateRestore = FALSE, NEW s \in Sinks, Unbind(s) PROVE JInv'
<1> DEFINE r == sink[s]
           q == sink'[s]
           gone == IF r.state \in AwaitingResponse THEN Cancel(r.seq) ELSE {}
           D == {s}
<1>1. Fine(q) /\ sink' = [sink EXCEPT ![s] = q] /\ Calmly(q) /\ q.bind = NoBinding /\ ~Bound(q)
  BY UnbindFacts
<1>2. \A u \in Sinks \ {s} : sink'[u] = sink[u]
  BY <1>1, OneSink
<1>3. gone = {i \in inflight : i.msg.sink = s}
  BY CancelOwn, NoEntry
<1>4. inflight' = inflight \ gone /\ net' = net /\ restore' = restore
      /\ \A u \in Sinks : restore[u] = NoBinding
  BY DEF Unbind, Abandoned
<1> HIDE DEF gone
<1>5. inflight' = {i \in inflight : i.msg.sink \notin D}
  BY <1>3, <1>4
<1>6. NoSharedTalker'
  BY <1>1, <1>2 DEF JInv, NoSharedTalker, NoBinding
<1>7. RestoresApart'
  BY <1>4 DEF RestoresApart
<1>8. \A u \in Sinks : Calmly(sink'[u])
  BY <1>1, <1>2 DEF JInv
<1>9. \A u \in Sinks \cap D : sink'[u].state \notin AwaitingResponse
  BY <1>1 DEF Bound, AwaitingResponse
<1>10. \A u \in Sinks \ D : sink'[u] = sink[u]
  BY <1>2
<1> HIDE DEF D
<1> QED
  BY <1>4, <1>5, <1>6, <1>7, <1>8, <1>9, <1>10, GiveUpJInv

LEMMA StartStopJInv ==
  ASSUME IInv, JInv, NEW s \in Sinks, StartStop(s) PROVE JInv'
<1> DEFINE r == sink[s]
           q == sink'[s]
<1>1. /\ sink' = [sink EXCEPT ![s] = q] /\ q.bind.talker = r.bind.talker
      /\ q.seq = r.seq /\ q.state = r.state /\ Bound(r)
      /\ q.probing = r.probing /\ q.stream = r.stream
  BY StartStopFacts
<1>2. Calmly(q)
  BY <1>1 DEF JInv, Calmly, Bound, Settled
<1>3. inflight' = inflight /\ net' = net /\ restore' = restore
  BY DEF StartStop
<1> QED
  BY <1>1, <1>2, <1>3, OneSinkQuiet DEF Bound

LEMMA RestoreJInv ==
  ASSUME IInv, JInv, NEW s \in Sinks, Restore(s) PROVE JInv'
<1> DEFINE r == sink[s]
           q == sink'[s]
<1>1. ~Bound(r) /\ restore[s] # NoBinding
  BY DEF Restore, JInv, RestoresApart
<1>2. /\ Fine(q) /\ sink' = [sink EXCEPT ![s] = q] /\ q.bind = restore[s]
      /\ restore[s].talker \in Talkers /\ q.state = "PRB_W_AVAIL" /\ q.probing = "PASSIVE"
  BY <1>1, RestoreFacts
<1>3. \A u \in Sinks \ {s} : sink'[u] = sink[u]
  BY <1>2, OneSink
<1>4. Calmly(q)
  BY <1>2, StatusOfStates DEF Calmly, Bound, Settled, SettledStates
<1>5. \A u \in Sinks : Calmly(sink'[u])
  BY <1>3, <1>4 DEF JInv
<1>6. inflight' = inflight /\ net' = net /\ restore'[s] = NoBinding
      /\ \A u \in Sinks \ {s} : restore'[u] = restore[u]
  BY DEF Restore, IInv
<1>7. \A u \in Sinks \ {s} : sink[u].bind.talker # restore[s].talker
  BY <1>1 DEF JInv, RestoresApart
<1>8. NoSharedTalker'
  BY <1>2, <1>3, <1>7 DEF JInv, NoSharedTalker
<1>9. \A u \in Sinks \ {s} : restore[u] # NoBinding => restore[u].talker # restore[s].talker
  BY DEF JInv, RestoresApart
<1>10. RestoresApart'
  <2> SUFFICES ASSUME NEW v \in Sinks, NEW u \in Sinks, restore'[v] # NoBinding
               PROVE  /\ ~Bound(sink'[v])
                      /\ v # u => restore'[v].talker # restore'[u].talker
                                  /\ restore'[v].talker # sink'[u].bind.talker
    BY DEF RestoresApart
  <2>1. v # s /\ restore'[v] = restore[v] /\ sink'[v] = sink[v]
    BY <1>3, <1>6
  <2>2. ~Bound(sink'[v])
    BY <1>6, <2>1 DEF JInv, RestoresApart
  <2>3. CASE u = s
    <3>1. restore[v].talker \in Talkers
      BY <1>6, <2>1 DEF IInv, RestoreType
    <3>2. restore'[u].talker = None
      BY <1>6, <2>3 DEF NoBinding
    <3> QED
      BY <1>2, <1>9, <2>1, <2>2, <2>3, <3>1, <3>2, TalkersAssumption
  <2>4. CASE u # s
    BY <1>3, <1>6, <2>1, <2>2, <2>4 DEF JInv, RestoresApart
  <2> QED
    BY <2>3, <2>4
<1>11. \A u \in Sinks :
        sink'[u].state \in AwaitingResponse \/ sink[u].state \in AwaitingResponse =>
          /\ sink'[u].state = sink[u].state /\ sink'[u].seq = sink[u].seq
          /\ sink'[u].bind.talker = sink[u].bind.talker
  BY <1>1, <1>2, <1>3 DEF Bound, AwaitingResponse
<1> QED
  BY <1>5, <1>6, <1>8, <1>10, <1>11, QuietJInv

LEMMA DiscoverJInv ==
  ASSUME IInv, JInv, NEW next, NEW departed \in SUBSET Sinks, Discover(next, departed),
         \A s \in Sinks : Calmly(next[s]) /\ Same(sink[s], next[s]),
         \A s \in departed : next[s].state \notin AwaitingResponse,
         \A s \in Sinks \ departed :
           next[s].state \in AwaitingResponse \/ sink[s].state \in AwaitingResponse =>
             next[s].state = sink[s].state
  PROVE  JInv'
<1> DEFINE D == {u \in departed : sink[u].state \in AwaitingResponse}
<1>1. /\ sink' = next /\ net' = net /\ restore' = restore
      /\ inflight' = inflight \ UNION {Cancel(sink[s].seq) : s \in D}
  BY DEF Discover, Abandoned
<1>2. \A s \in D : Cancel(sink[s].seq) = {i \in inflight : i.msg.sink = s}
  BY CancelOwn
<1>3. inflight' = {i \in inflight : i.msg.sink \notin D}
  BY <1>1, <1>2
<1>4. NoSharedTalker' /\ RestoresApart'
  BY <1>1, TalkersKept DEF Same
<1>5. \A u \in Sinks \cap D : sink'[u].state \notin AwaitingResponse
  BY <1>1
<1>6. \A u \in Sinks \ D :
        sink'[u].state \in AwaitingResponse \/ sink[u].state \in AwaitingResponse =>
          /\ sink'[u].state = sink[u].state /\ sink'[u].seq = sink[u].seq
          /\ sink'[u].bind.talker = sink[u].bind.talker
  BY <1>1 DEF Same
<1> HIDE DEF D
<1> QED
  BY <1>1, <1>3, <1>4, <1>5, <1>6, GiveUpJInv

LEMMA AdpAvailableJInv ==
  ASSUME IInv, JInv, NEW e, NEW newer \in BOOLEAN, NEW gptp \in BOOLEAN,
         AdpAvailable(e, newer, gptp)
  PROVE  JInv'
<1> DEFINE hear == {s \in Sinks : BoundTo(s, e)}
           departed == {s \in hear : sink[s].discovered /\ ~newer}
           next == [s \in Sinks |-> IF s \in hear THEN Available(sink[s], newer, gptp)
                                                  ELSE sink[s]]
<1>1. Discover(next, departed)
  BY DEF AdpAvailable
<1>2. ASSUME NEW s \in Sinks
      PROVE  /\ Calmly(next[s]) /\ Same(sink[s], next[s])
             /\ s \in departed => next[s].state \notin AwaitingResponse
             /\ s \notin departed /\ (next[s].state \in AwaitingResponse
                                      \/ sink[s].state \in AwaitingResponse) =>
                  next[s].state = sink[s].state
  <2>1. Fine(sink[s]) /\ Calmly(sink[s])
    BY SinkFine DEF JInv
  <2>2. CASE s \in hear
    <3>1. Bound(sink[s]) /\ next[s] = Available(sink[s], newer, gptp)
      BY <2>2 DEF BoundTo
    <3>2. s \in departed <=> sink[s].discovered /\ ~newer
      BY <2>2
    <3> HIDE DEF next, departed, hear
    <3> QED
      BY <2>1, <3>1, <3>2, AvailableOK
  <2>3. CASE s \notin hear
    BY <2>1, <2>3 DEF Same
  <2> QED
    BY <2>2, <2>3
<1>3. departed \in SUBSET Sinks
  OBVIOUS
<1> HIDE DEF next, departed
<1> QED
  BY <1>1, <1>2, <1>3, DiscoverJInv

LEMMA DepartJInv ==
  ASSUME IInv, JInv, NEW S \in SUBSET Sinks, Depart(S) PROVE JInv'
<1> DEFINE hear == {s \in S : sink[s].discovered}
           next == [s \in Sinks |-> IF s \in hear THEN Reset(Departed(sink[s])) ELSE sink[s]]
<1>1. Discover(next, hear) /\ hear \in SUBSET Sinks
  BY DEF Depart
<1>2. ASSUME NEW s \in Sinks
      PROVE  /\ Calmly(next[s]) /\ Same(sink[s], next[s])
             /\ s \in hear => next[s].state \notin AwaitingResponse
             /\ s \notin hear => next[s] = sink[s]
  BY SinkFine, DepartOK DEF JInv, Same
<1> HIDE DEF next, hear
<1> QED
  BY <1>1, <1>2, DiscoverJInv

LEMMA TmrDelayJInv ==
  ASSUME IInv, JInv, NEW s \in Sinks, TmrDelay(s, "none") PROVE JInv'
<1> DEFINE r == sink[s]
           q == sink'[s]
           t == r.bind.talker
           gone == {}
<1>1. /\ Fine(q) /\ sink' = [sink EXCEPT ![s] = q] /\ q.state = "PRB_W_RESP"
      /\ q.bind = r.bind /\ t \in Talkers /\ q.probing = r.probing /\ q.seq = sequence
  BY TmrDelayFacts
<1>2. \A u \in Sinks \ {s} : sink'[u] = sink[u]
  BY <1>1, OneSink
<1>3. SendProbe(s, t, "none", gone) /\ restore' = restore /\ r.state = "PRB_W_DELAY"
  BY DEF TmrDelay
<1>4. gone = {i \in inflight : i.msg.sink = s}
  BY <1>3, NoEntry DEF AwaitingResponse
<1> HIDE DEF gone
<1>5. Calmly(q)
  BY <1>1, <1>3, StatusOfStates DEF JInv, Calmly, Bound, Settled, SettledStates, Probing
<1>6. \A u \in Sinks : Calmly(sink'[u])
  BY <1>2, <1>5 DEF JInv
<1>7. \A u \in Sinks : /\ sink'[u].bind.talker = sink[u].bind.talker
                       /\ Bound(sink'[u]) <=> Bound(sink[u])
  BY <1>1, <1>2, <1>3 DEF Bound
<1>8. NoSharedTalker' /\ RestoresApart'
  BY <1>3, <1>7, TalkersKept
<1>9. q.bind.talker = t
  BY <1>1
<1> QED
  BY <1>1, <1>2, <1>3, <1>4, <1>6, <1>8, <1>9, SendJInv

LEMMA TimerJInv ==
  ASSUME IInv, JInv, NEW s \in Sinks, TmrRetry(s) \/ TmrNoTk(s) PROVE JInv'
<1>1. inflight' = inflight /\ net' = net /\ restore' = restore
  BY DEF TmrRetry, TmrNoTk
<1>2. Calmly(sink[s])
  BY DEF JInv
<1>3. CASE TmrRetry(s)
  BY <1>1, <1>2, <1>3, TmrRetryFacts, OneSinkQuiet DEF Same
<1>4. CASE TmrNoTk(s)
  BY <1>1, <1>4, TmrNoTkFacts, OneSinkQuiet DEF Same
<1> QED
  BY <1>3, <1>4

LEMMA InflightTimeoutJInv ==
  ASSUME IInv, JInv, NEW i, InflightTimeout(i, "none") PROVE JInv'
<1> DEFINE s == i.msg.sink
           r == sink[s]
           q == sink'[s]
<1>0. i \in inflight /\ restore' = restore
  BY DEF InflightTimeout
<1>1. /\ s \in Sinks /\ i \in InflightType /\ Fine(q) /\ sink' = [sink EXCEPT ![s] = q]
      /\ Same(r, q) /\ (Calmly(r) => Calmly(q))
      /\ r.state = "PRB_W_RESP" => q.state = "PRB_W_RESP2"
      /\ r.state = "PRB_W_RESP2" => q.state = "PRB_W_RETRY"
  BY InflightTimeoutFacts
<1>2. i.retried \in BOOLEAN
  BY <1>1 DEF InflightType
<1>3. r.state \in AwaitingResponse /\ r.seq = i.msg.seq /\ r.bind.talker = i.msg.talker
  BY <1>0 DEF JInv, ProbeOutstanding
<1>4. \A j \in inflight : j.msg.sink = s => j = i
  <2>1. \A j \in inflight : j.msg.sink = s => j.msg.seq = i.msg.seq
    BY <1>3 DEF JInv, ProbeOutstanding
  <2> QED
    BY <1>0, <2>1 DEF JInv, NumbersApart
<1>5. i.retried <=> r.state = "PRB_W_RESP2"
  BY <1>1, <1>3, <1>4 DEF JInv, ProbeOutstanding
<1>6. \A u \in Sinks \ {s} : sink'[u] = sink[u]
  BY <1>1, OneSink
<1>7. \A u \in Sinks : Calmly(sink'[u])
  BY <1>1, <1>6 DEF JInv
<1>8. NoSharedTalker' /\ RestoresApart'
  <2>1. \A u \in Sinks : /\ sink'[u].bind.talker = sink[u].bind.talker
                         /\ Bound(sink'[u]) <=> Bound(sink[u])
    BY <1>1, <1>6 DEF Same
  <2> QED
    BY <1>0, <2>1, TalkersKept
<1>9. CASE i.retried
  <2> DEFINE D == {s}
  <2>1. inflight' = inflight \ {i} /\ net' = net
    BY <1>9 DEF InflightTimeout
  <2>2. inflight' = {j \in inflight : j.msg.sink \notin D}
    BY <1>0, <1>4, <2>1
  <2>3. \A u \in Sinks \cap D : sink'[u].state \notin AwaitingResponse
    BY <1>1, <1>5, <1>9 DEF AwaitingResponse
  <2>4. \A u \in Sinks \ D : sink'[u] = sink[u]
    BY <1>6
  <2> HIDE DEF D
  <2> QED
    BY <1>7, <1>8, <2>1, <2>2, <2>3, <2>4, GiveUpJInv
<1>10. CASE ~i.retried
  <2> DEFINE new == [i EXCEPT !.retried = TRUE]
  <2>1. inflight' = (inflight \ {i}) \cup {new} /\ net' = net \cup {i.msg}
    BY <1>10 DEF InflightTimeout
  <2>2. new.msg = i.msg /\ new.retried = TRUE
    BY <1>1 DEF InflightType
  <2> HIDE DEF new
  <2>3. r.state = "PRB_W_RESP" /\ q.state = "PRB_W_RESP2" /\ q.seq = r.seq /\ q.bind = r.bind
    BY <1>1, <1>3, <1>5, <1>10 DEF AwaitingResponse, Same
  <2>4. NumbersApart'
    <3>1. ASSUME NEW j \in inflight', NEW k \in inflight', j.msg.seq = k.msg.seq PROVE j = k
      BY <1>0, <2>1, <2>2, <3>1 DEF JInv, NumbersApart
    <3>2. ASSUME NEW j \in inflight', NEW m \in net', j.msg.seq = m.seq PROVE m = j.msg
      BY <1>0, <2>1, <2>2, <3>2 DEF JInv, NumbersApart
    <3> QED
      BY <3>1, <3>2 DEF NumbersApart
  <2>5. ASSUME NEW u \in Sinks, sink'[u].state \in AwaitingResponse PROVE HasEntry(u)'
    <3>1. CASE u = s
      <4>1. new \in inflight' /\ new.msg.sink = u
            /\ (new.retried <=> sink'[u].state = "PRB_W_RESP2")
        BY <2>1, <2>2, <2>3, <3>1
      <4> QED
        BY <4>1 DEF HasEntry
    <3>2. CASE u # s
      <4>1. PICK j \in inflight : j.msg.sink = u /\ (j.retried <=> sink[u].state = "PRB_W_RESP2")
        BY <1>6, <2>5, <3>2 DEF JInv, ProbeOutstanding
      <4>2. j \in inflight' /\ sink'[u] = sink[u]
        BY <1>6, <2>1, <3>2, <4>1
      <4> QED
        BY <4>1, <4>2 DEF HasEntry
    <3> QED
      BY <3>1, <3>2
  <2>6. ASSUME NEW j \in inflight' PROVE Owned(j)'
    <3>1. CASE j = new
      BY <1>3, <2>2, <2>3, <3>1 DEF Owned, AwaitingResponse
    <3>2. CASE j # new
      <4>1. j \in inflight /\ j.msg.sink \in Sinks /\ j.msg.sink # s
        BY <1>4, <2>1, <3>2, EntrySink
      <4>2. Owned(j)
        BY <4>1 DEF JInv, ProbeOutstanding, Owned
      <4> QED
        BY <1>6, <4>1, <4>2 DEF Owned
    <3> QED
      BY <3>1, <3>2
  <2>7. ProbeOutstanding'
    BY <2>5, <2>6 DEF ProbeOutstanding, HasEntry, Owned
  <2> QED
    BY <1>7, <1>8, <2>4, <2>7 DEF JInv
<1> QED
  BY <1>2, <1>9, <1>10

LEMMA ProbeResponseJInv ==
  ASSUME IInv, JInv, NEW m, NEW success \in BOOLEAN, NEW again \in BOOLEAN,
         ProbeResponse(m, success, again)
  PROVE  JInv'
<1> DEFINE s == m.sink
           r == sink[s]
           q == sink'[s]
           taken == r.state \in AwaitingResponse /\ Cancel(m.seq) # {}
<1>1. /\ s \in Sinks /\ Fine(q) /\ sink' = [sink EXCEPT ![s] = q] /\ Same(r, q)
      /\ ~taken => q = r
      /\ taken => q.state \notin AwaitingResponse
      /\ taken /\ r.bind.talker = m.talker /\ Calmly(r) => Calmly(q)
      /\ inflight' = IF taken THEN inflight \ Cancel(m.seq) ELSE inflight
  BY ProbeResponseFacts
<1>2. m \in net /\ net' \subseteq net /\ restore' = restore
  BY DEF ProbeResponse
<1>3. Calmly(r)
  BY <1>1 DEF JInv
<1>4. CASE taken
  <2> DEFINE D == {s}
  <2>1. PICK i \in inflight : i.msg.seq = m.seq
    BY <1>4 DEF Cancel
  <2>2. i.msg = m
    BY <1>2, <2>1 DEF JInv, NumbersApart
  <2>3. r.seq = m.seq /\ r.bind.talker = m.talker
    BY <2>2 DEF JInv, ProbeOutstanding
  <2>4. Cancel(m.seq) = {j \in inflight : j.msg.sink = s}
    BY <1>1, <1>4, <2>3, CancelOwn
  <2>5. inflight' = {j \in inflight : j.msg.sink \notin D}
    BY <1>1, <1>4, <2>4
  <2>6. \A u \in Sinks \ D : sink'[u] = sink[u]
    BY <1>1, OneSink
  <2>7. \A u \in Sinks \cap D : sink'[u].state \notin AwaitingResponse
    BY <1>1, <1>4
  <2>8. \A u \in Sinks : Calmly(sink'[u])
    BY <1>1, <1>3, <1>4, <2>3, <2>6 DEF JInv
  <2>9. \A u \in Sinks : /\ sink'[u].bind.talker = sink[u].bind.talker
                         /\ Bound(sink'[u]) <=> Bound(sink[u])
    BY <1>1, <2>6 DEF Same
  <2>10. NoSharedTalker' /\ RestoresApart'
    BY <1>2, <2>9, TalkersKept
  <2> HIDE DEF D
  <2> QED
    BY <1>2, <2>5, <2>6, <2>7, <2>8, <2>10, GiveUpJInv
<1>5. CASE ~taken
  BY <1>1, <1>2, <1>3, <1>5, OneSinkQuiet
<1> QED
  BY <1>4, <1>5

\* A step that leaves sinks, in-flight list and bindings to be restored alone.
LEMMA ElsewhereJInv ==
  ASSUME IInv, JInv, UNCHANGED <<sink, inflight, restore>>, net' \subseteq net PROVE JInv'
<1>1. NoSharedTalker' /\ RestoresApart'
  BY TalkersKept
<1>2. \A u \in Sinks : Calmly(sink'[u])
  BY DEF JInv
<1> QED
  BY <1>1, <1>2, QuietJInv

LEMMA ListenerStatusJInv ==
  ASSUME IInv, JInv, ListenerStatus PROVE JInv'
<1>1. inflight' = inflight /\ net' = net /\ restore' = restore
  BY DEF ListenerStatus
<1>2. CASE sink' = sink
  BY <1>1, <1>2, ElsewhereJInv
<1>3. CASE sink' # sink
  <2>1. PICK s \in Sinks :
          /\ sink' = [sink EXCEPT ![s] = sink'[s]] /\ Same(sink[s], sink'[s])
          /\ (Calmly(sink[s]) => Calmly(sink'[s]))
          /\ sink'[s].state \notin AwaitingResponse /\ sink[s].state \notin AwaitingResponse
    BY <1>3, ListenerStatusFacts
  <2>2. Calmly(sink'[s])
    BY <2>1 DEF JInv
  <2> DEFINE q == sink'[s]
  <2>3. sink' = [sink EXCEPT ![s] = q] /\ Calmly(q) /\ Same(sink[s], q)
        /\ q.state \notin AwaitingResponse
    BY <2>1, <2>2
  <2> HIDE DEF q
  <2> QED
    BY <1>1, <2>1, <2>3, OneSinkQuiet DEF Same
<1> QED
  BY <1>2, <1>3

LEMMA InitJInv == Init => JInv
<1> SUFFICES ASSUME Init PROVE JInv
  OBVIOUS
<1>1. \A s \in Sinks : /\ sink[s].state = "UNBOUND" /\ sink[s].bind = NoBinding
                       /\ sink[s].probing = "DISABLED"
  BY DEF Init
<1>2. \A s \in Sinks : Calmly(sink[s]) /\ ~Bound(sink[s])
  BY <1>1, StatusOfStates DEF Calmly, Bound, Settled, SettledStates
<1>3. inflight = {} /\ NumbersApart
  BY DEF Init, NumbersApart
<1>4. ProbeOutstanding
  BY <1>1, <1>3 DEF ProbeOutstanding, AwaitingResponse
<1>5. NoSharedTalker
  BY <1>1 DEF NoSharedTalker, NoBinding
<1>6. \A s, u \in Sinks : s # u => restore[s].talker # restore[u].talker
                                   \/ restore[s] = NoBinding
  BY DEF Init
<1>7. \A s \in Sinks : restore[s] # NoBinding => restore[s].talker \in Talkers
  BY DEF Init
<1>8. RestoresApart
  <2>1. \A s \in Sinks : sink[s].bind.talker = None
    BY <1>1 DEF NoBinding
  <2> QED
    BY <1>2, <1>6, <1>7, <2>1, TalkersAssumption DEF RestoresApart
<1> QED
  BY <1>2, <1>3, <1>4, <1>5, <1>8 DEF JInv

LEMMA NoFault ==
  ASSUME MaxFaults = 0, IInv, NEW f, Fault(f) PROVE f = "none"
BY DEF Fault, IInv, TypeOK

LEMMA NextJInv ==
  ASSUME MaxFaults = 0, LateRestore = FALSE
  PROVE  IInv /\ JInv /\ [Next]_vars => JInv'
<1> SUFFICES ASSUME IInv, JInv, [Next]_vars PROVE JInv'
  OBVIOUS
<1>1. ASSUME NEW s \in Sinks, NEW t \in Talkers, NEW w \in Waits, NEW f \in Faults,
             Bind(s, [talker |-> t, wait |-> w], f)
      PROVE  JInv'
  <2>1. f = "none"
    BY <1>1, NoFault DEF Bind
  <2> QED
    BY <1>1, <2>1, BindJInv
<1>2. ASSUME NEW s \in Sinks, Unbind(s) \/ StartStop(s) \/ Restore(s) PROVE JInv'
  BY <1>2, UnbindJInv, StartStopJInv, RestoreJInv
<1>3. ASSUME NEW s \in Sinks, NEW f \in Faults, TmrDelay(s, f) PROVE JInv'
  <2>1. f = "none"
    BY <1>3, NoFault DEF TmrDelay
  <2> QED
    BY <1>3, <2>1, TmrDelayJInv
<1>4. ASSUME NEW s \in Sinks, TmrRetry(s) \/ TmrNoTk(s) PROVE JInv'
  BY <1>4, TimerJInv
<1>5. ASSUME NEW s \in Sinks, TmrNoAdp(s) PROVE JInv'
  BY <1>5, DepartJInv DEF TmrNoAdp
<1>6. ASSUME NEW e \in Entities, AdpDeparting(e) PROVE JInv'
  BY <1>6, DepartJInv DEF AdpDeparting
<1>7. ASSUME NEW e \in Entities, NEW newer \in BOOLEAN, NEW gptp \in BOOLEAN,
             AdpAvailable(e, newer, gptp)
      PROVE  JInv'
  BY <1>7, AdpAvailableJInv
<1>8. ASSUME NEW i \in inflight, NEW f \in Faults, InflightTimeout(i, f) PROVE JInv'
  <2>1. f = "none"
    BY <1>8, NoFault DEF InflightTimeout
  <2> QED
    BY <1>8, <2>1, InflightTimeoutJInv
<1>9. ASSUME NEW m \in net, NEW success \in BOOLEAN, NEW again \in BOOLEAN,
             ProbeResponse(m, success, again)
      PROVE  JInv'
  BY <1>9, ProbeResponseJInv
<1>10. CASE ListenerStatus
  BY <1>10, ListenerStatusJInv
<1>11. CASE MsrpRequest \/ \E t \in Talkers : TalkerRegistered(t) \/ TalkerDeregistered(t)
  BY <1>11, ElsewhereJInv DEF MsrpRequest, TalkerRegistered, TalkerDeregistered
<1>12. CASE Calm \/ (\E m \in net : Lose(m)) \/ UNCHANGED vars
  BY <1>12, ElsewhereJInv DEF Calm, Lose, vars
<1> QED
  BY <1>1, <1>2, <1>3, <1>4, <1>5, <1>6, <1>7, <1>8, <1>9, <1>10, <1>11, <1>12 DEF Next

\* JInv is an invariant when nothing fails and bindings are restored first.
LEMMA AlwaysJInv ==
  ASSUME MaxFaults = 0, LateRestore = FALSE PROVE Spec => []JInv
BY InitIInv, NextIInv, InitJInv, NextJInv, PTL DEF Spec

\* A sink that waits for a probe response has an in-flight entry that will time
\* out, and every entry belongs to a sink that waits for it, for its present
\* talker: when nothing fails and bindings are restored before controllers bind.
THEOREM ProbesOwned ==
  ASSUME MaxFaults = 0, LateRestore = FALSE PROVE Spec => []ProbeOutstanding
<1>1. JInv => ProbeOutstanding
  BY DEF JInv
<1> QED
  BY <1>1, AlwaysJInv, PTL

\* A sink receives a stream exactly while it is settled, and it is the stream of
\* the talker it is bound to, under the same conditions.
THEOREM SettledRight ==
  ASSUME MaxFaults = 0, LateRestore = FALSE PROVE Spec => []SettledOnBound
<1>1. IInv /\ JInv => SettledOnBound
  BY DEF IInv, JInv, Core, Calmly, SettledOnBound
<1> QED
  BY <1>1, AlwaysIInv, AlwaysJInv, PTL

\* The probing status reported to controllers is the one of the sink's state,
\* under the same conditions.
THEOREM ProbingTold ==
  ASSUME MaxFaults = 0, LateRestore = FALSE PROVE Spec => []ProbingReported
<1>1. JInv => ProbingReported
  BY DEF JInv, Calmly, StatusOf, ProbingReported
<1> QED
  BY <1>1, AlwaysJInv, PTL

\* No two sinks are bound to the same talker stream, under the same conditions.
THEOREM TalkersApart ==
  ASSUME MaxFaults = 0, LateRestore = FALSE PROVE Spec => []NoSharedTalker
<1>1. JInv => NoSharedTalker
  BY DEF JInv
<1> QED
  BY <1>1, AlwaysJInv, PTL

-----------------------------------------------------------------------------
(* SInv: what the application was told to save, whatever fails, when       *)
(* bindings are restored before controllers bind.                          *)

\* The saved binding is the one the sink has or, before it is restored, the one
\* to restore; until then the sink is not bound.
SInv ==
  \A s \in Sinks : IF restore[s] = NoBinding THEN saved[s] = sink[s].bind
                   ELSE saved[s] = restore[s] /\ ~Bound(sink[s])

LEMMA KeptSInv ==
  ASSUME SInv, UNCHANGED <<saved, restore>>,
         \A s \in Sinks : sink'[s].bind = sink[s].bind /\ (Bound(sink'[s]) <=> Bound(sink[s]))
  PROVE  SInv'
BY DEF SInv

\* A step of one sink that keeps its binding.
LEMMA OneSinkSInv ==
  ASSUME IInv, SInv, UNCHANGED <<saved, restore>>, NEW s \in Sinks,
         sink' = [sink EXCEPT ![s] = sink'[s]],
         sink'[s].bind = sink[s].bind, Bound(sink'[s]) <=> Bound(sink[s])
  PROVE  SInv'
<1>1. \A u \in Sinks \ {s} : sink'[u] = sink[u]
  BY DEF IInv, TypeOK
<1> QED
  BY <1>1, KeptSInv

LEMMA BindSInv ==
  ASSUME IInv, SInv, LateRestore = FALSE, NEW s \in Sinks, NEW t \in Talkers, NEW w \in Waits,
         NEW f, Bind(s, [talker |-> t, wait |-> w], f)
  PROVE  SInv'
<1> DEFINE b == [talker |-> t, wait |-> w]
<1>1. /\ \A u \in Sinks : restore[u] = NoBinding
      /\ restore' = restore
      /\ saved' = IF sink[s].bind = b THEN saved ELSE [saved EXCEPT ![s] = b]
  BY DEF Bind, Told
<1>2. sink'[s].bind = b /\ \A u \in Sinks \ {s} : sink'[u] = sink[u]
  BY BindFacts, OneSink
<1> HIDE DEF b
<1>3. saved'[s] = b /\ \A u \in Sinks \ {s} : saved'[u] = saved[u]
  BY <1>1 DEF SInv, IInv, TypeOK
<1> QED
  BY <1>1, <1>2, <1>3 DEF SInv

LEMMA UnbindSInv ==
  ASSUME IInv, SInv, LateRestore = FALSE, NEW s \in Sinks, Unbind(s) PROVE SInv'
<1>1. /\ \A u \in Sinks : restore[u] = NoBinding
      /\ restore' = restore /\ saved' = [saved EXCEPT ![s] = NoBinding]
  BY DEF Unbind, Told
<1>2. sink'[s].bind = NoBinding /\ \A u \in Sinks \ {s} : sink'[u] = sink[u]
  BY UnbindFacts, OneSink
<1> QED
  BY <1>1, <1>2 DEF SInv, IInv, TypeOK

LEMMA StartStopSInv ==
  ASSUME IInv, SInv, NEW s \in Sinks, StartStop(s) PROVE SInv'
<1>1. /\ sink'[s].bind = saved'[s] /\ Bound(sink[s])
      /\ \A u \in Sinks \ {s} : sink'[u] = sink[u] /\ saved'[u] = saved[u]
  BY StartStopFacts, OneSink DEF IInv, TypeOK
<1>2. restore' = restore /\ restore[s] = NoBinding
  BY <1>1 DEF StartStop, SInv
<1> QED
  BY <1>1, <1>2 DEF SInv

LEMMA RestoreSInv ==
  ASSUME IInv, SInv, NEW s \in Sinks, Restore(s) PROVE SInv'
<1>1. /\ sink'[s].bind = restore[s]
      /\ \A u \in Sinks \ {s} : sink'[u] = sink[u] /\ restore'[u] = restore[u]
  BY RestoreFacts, OneSink DEF Restore, IInv
<1>2. restore'[s] = NoBinding /\ saved' = saved /\ saved[s] = restore[s]
  BY DEF Restore, SInv, IInv
<1> QED
  BY <1>1, <1>2 DEF SInv

LEMMA DiscoverSInv ==
  ASSUME IInv, SInv,
         \/ \E S \in SUBSET Sinks : Depart(S)
         \/ \E e \in Entities, newer, gptp \in BOOLEAN : AdpAvailable(e, newer, gptp)
  PROVE  SInv'
<1>1. ASSUME NEW S \in SUBSET Sinks, Depart(S) PROVE SInv'
  <2> DEFINE hear == {s \in S : sink[s].discovered}
             next == [s \in Sinks |-> IF s \in hear THEN Reset(Departed(sink[s])) ELSE sink[s]]
  <2>1. sink' = next /\ UNCHANGED <<saved, restore>>
    BY <1>1 DEF Depart, Discover
  <2>2. \A s \in Sinks : Same(sink[s], next[s])
    BY SinkFine, DepartOK DEF Same
  <2> HIDE DEF next
  <2> QED
    BY <2>1, <2>2, KeptSInv DEF Same
<1>2. ASSUME NEW e \in Entities, NEW newer \in BOOLEAN, NEW gptp \in BOOLEAN,
             AdpAvailable(e, newer, gptp)
      PROVE  SInv'
  <2> DEFINE hear == {s \in Sinks : BoundTo(s, e)}
             next == [s \in Sinks |-> IF s \in hear THEN Available(sink[s], newer, gptp)
                                                    ELSE sink[s]]
  <2>1. sink' = next /\ UNCHANGED <<saved, restore>>
    BY <1>2 DEF AdpAvailable, Discover
  <2>2. \A s \in Sinks : Same(sink[s], next[s])
    BY SinkFine, AvailableOK DEF BoundTo, Same
  <2> HIDE DEF next
  <2> QED
    BY <2>1, <2>2, KeptSInv DEF Same
<1> QED
  BY <1>1, <1>2

LEMMA TimerSInv ==
  ASSUME IInv, SInv, NEW s \in Sinks,
         TmrRetry(s) \/ TmrNoTk(s) \/ \E f \in Faults : TmrDelay(s, f)
  PROVE  SInv'
<1>1. UNCHANGED <<saved, restore>>
  BY DEF TmrRetry, TmrNoTk, TmrDelay
<1>2. CASE TmrRetry(s)
  BY <1>1, <1>2, TmrRetryFacts, OneSinkSInv DEF Same
<1>3. CASE TmrNoTk(s)
  BY <1>1, <1>3, TmrNoTkFacts, OneSinkSInv DEF Same
<1>4. ASSUME NEW f \in Faults, TmrDelay(s, f) PROVE SInv'
  <2>1. sink[s].state = "PRB_W_DELAY"
    BY <1>4 DEF TmrDelay
  <2> QED
    BY <1>1, <1>4, <2>1, TmrDelayFacts, OneSinkSInv DEF Bound
<1> QED
  BY <1>2, <1>3, <1>4

LEMMA ArrivalSInv ==
  ASSUME IInv, SInv,
         \/ \E i \in inflight, f \in Faults : InflightTimeout(i, f)
         \/ \E m \in net, success, again \in BOOLEAN : ProbeResponse(m, success, again)
         \/ ListenerStatus
  PROVE  SInv'
<1>1. UNCHANGED <<saved, restore>>
  BY DEF InflightTimeout, ProbeResponse, ListenerStatus
<1>2. ASSUME NEW i \in inflight, NEW f \in Faults, InflightTimeout(i, f) PROVE SInv'
  BY <1>1, <1>2, InflightTimeoutFacts, OneSinkSInv DEF Same
<1>3. ASSUME NEW m \in net, NEW success \in BOOLEAN, NEW again \in BOOLEAN,
             ProbeResponse(m, success, again)
      PROVE  SInv'
  BY <1>1, <1>3, ProbeResponseFacts, OneSinkSInv DEF Same
<1>4. CASE ListenerStatus
  <2>1. CASE sink' = sink
    BY <1>1, <2>1, KeptSInv
  <2>2. CASE sink' # sink
    BY <1>1, <1>4, <2>2, ListenerStatusFacts, OneSinkSInv DEF Same
  <2> QED
    BY <2>1, <2>2
<1> QED
  BY <1>2, <1>3, <1>4

LEMMA NextSInv ==
  ASSUME LateRestore = FALSE PROVE IInv /\ SInv /\ [Next]_vars => SInv'
<1> SUFFICES ASSUME IInv, SInv, [Next]_vars PROVE SInv'
  OBVIOUS
<1>1. ASSUME NEW s \in Sinks, NEW t \in Talkers, NEW w \in Waits, NEW f \in Faults,
             Bind(s, [talker |-> t, wait |-> w], f)
      PROVE  SInv'
  BY <1>1, BindSInv
<1>2. ASSUME NEW s \in Sinks, Unbind(s) \/ StartStop(s) \/ Restore(s) PROVE SInv'
  BY <1>2, UnbindSInv, StartStopSInv, RestoreSInv
<1>3. ASSUME NEW s \in Sinks, (\E f \in Faults : TmrDelay(s, f)) \/ TmrRetry(s) \/ TmrNoTk(s)
      PROVE  SInv'
  BY <1>3, TimerSInv
<1>4. ASSUME NEW s \in Sinks, TmrNoAdp(s) PROVE SInv'
  BY <1>4, DiscoverSInv DEF TmrNoAdp
<1>5. ASSUME NEW e \in Entities,
             AdpDeparting(e) \/ \E newer, gptp \in BOOLEAN : AdpAvailable(e, newer, gptp)
      PROVE  SInv'
  BY <1>5, DiscoverSInv DEF AdpDeparting
<1>6. CASE \/ \E i \in inflight, f \in Faults : InflightTimeout(i, f)
           \/ \E m \in net, success, again \in BOOLEAN : ProbeResponse(m, success, again)
           \/ ListenerStatus
  BY <1>6, ArrivalSInv
<1>7. CASE MsrpRequest \/ \E t \in Talkers : TalkerRegistered(t) \/ TalkerDeregistered(t)
  BY <1>7, KeptSInv DEF MsrpRequest, TalkerRegistered, TalkerDeregistered
<1>8. CASE Calm \/ (\E m \in net : Lose(m)) \/ UNCHANGED vars
  BY <1>8, KeptSInv DEF Calm, Lose, vars
<1> QED
  BY <1>1, <1>2, <1>3, <1>4, <1>5, <1>6, <1>7, <1>8 DEF Next

\* The application has been told to save the binding each sink has, whatever
\* transmissions and pools fail, when bindings are restored before controllers
\* bind.
THEOREM SavedRight ==
  ASSUME LateRestore = FALSE PROVE Spec => []SavedAgrees
<1>1. Init => SInv
  BY DEF Init, SInv, Bound
<1>2. SInv => SavedAgrees
  BY DEF SInv, SavedAgrees
<1> QED
  BY <1>1, <1>2, InitIInv, NextIInv, NextSInv, PTL DEF Spec

-----------------------------------------------------------------------------
(* RInv: what MSRP declares and what the sinks know of it, when nothing    *)
(* fails and bindings are restored before controllers bind.  A channel is  *)
(* summed up by its last message for each stream: once it is handled, the  *)
(* earlier ones have been overruled.                                       *)

Mentions(q, t) == \E i \in DOMAIN q : q[i].stream = t

LastAt(q, t, i) ==
  /\ i \in DOMAIN q /\ q[i].stream = t
  /\ \A j \in DOMAIN q : j > i => q[j].stream # t

Streamed(t) == \E s \in Sinks : sink[s].stream = t

\* A sink is registering exactly while it is settled with a reservation.
Reg(r) == r.registering <=> r.state = "SETTLED_RSV_OK"

\* The last request for a stream asks for what the sinks need now; without a
\* request it is what MSRP declares.
RequestsRight(t) ==
  /\ ~Mentions(toSrp, t) => (t \in declared <=> Streamed(t))
  /\ \A i \in DOMAIN toSrp : LastAt(toSrp, t, i) => (toSrp[i].op = "REGISTER" <=> Streamed(t))

\* When MSRP has seen the requests for a stream, the last status on its way says
\* what is registered; without a status the sink knows it.
StatusesRight(s, t) ==
  /\ ~Mentions(fromSrp, t) => (sink[s].registering <=> t \in registered)
  /\ \A i \in DOMAIN fromSrp : LastAt(fromSrp, t, i) => (fromSrp[i].talker <=> t \in registered)

Requests ==
  /\ declared \subseteq Talkers /\ \A i \in DOMAIN toSrp : toSrp[i].stream \in Talkers
  /\ \A t \in Talkers : RequestsRight(t)

Statuses ==
  \A s \in Sinks : sink[s].stream \in Talkers /\ ~Mentions(toSrp, sink[s].stream)
                     => StatusesRight(s, sink[s].stream)

RInv == (\A s \in Sinks : Reg(sink[s])) /\ Requests /\ Statuses

\* Channel a is q with m at its end: m is the last message for its stream, and
\* changes nothing for the others.
Added(q, a, m, t) ==
  /\ m.stream = t => /\ Mentions(a, t)
                     /\ \A i \in DOMAIN a : LastAt(a, t, i) => a[i] = m
  /\ m.stream # t => /\ Mentions(a, t) <=> Mentions(q, t)
                     /\ \A i \in DOMAIN a : LastAt(a, t, i) =>
                          i \in DOMAIN q /\ LastAt(q, t, i) /\ a[i] = q[i]

LEMMA AppendLast ==
  ASSUME NEW S, NEW q \in Seq(S), NEW m \in S PROVE \A t : Added(q, Append(q, m), m, t)
<1> TAKE t
<1> DEFINE a == Append(q, m)
           n == Len(q)
<1>1. /\ n \in Nat /\ DOMAIN q = 1 .. n /\ DOMAIN a = 1 .. n + 1
      /\ a[n + 1] = m /\ \A i \in 1 .. n : a[i] = q[i]
  OBVIOUS
<1> HIDE DEF a, n
<1>2. ASSUME m.stream = t
      PROVE  Mentions(a, t) /\ \A i \in DOMAIN a : LastAt(a, t, i) => a[i] = m
  <2>1. n + 1 \in DOMAIN a /\ a[n + 1].stream = t
    BY <1>1, <1>2
  <2>2. ASSUME NEW i \in DOMAIN a, LastAt(a, t, i) PROVE i = n + 1
    <3>1. ~(n + 1 > i)
      BY <2>1, <2>2 DEF LastAt
    <3> QED BY <1>1, <3>1
  <2> QED BY <1>1, <2>1, <2>2 DEF Mentions
<1>3. ASSUME m.stream # t
      PROVE  /\ Mentions(a, t) <=> Mentions(q, t)
             /\ \A i \in DOMAIN a : LastAt(a, t, i) =>
                  i \in DOMAIN q /\ LastAt(q, t, i) /\ a[i] = q[i]
  <2>1. \A i \in DOMAIN a : a[i].stream = t => i \in 1 .. n
    BY <1>1, <1>3
  <2>2. \A i \in 1 .. n : i \in DOMAIN a /\ a[i] = q[i]
    BY <1>1
  <2>3. Mentions(a, t) <=> Mentions(q, t)
    BY <1>1, <2>1, <2>2 DEF Mentions
  <2>4. ASSUME NEW i \in DOMAIN a, LastAt(a, t, i)
        PROVE  i \in DOMAIN q /\ LastAt(q, t, i) /\ a[i] = q[i]
    <3>1. i \in 1 .. n /\ a[i] = q[i]
      BY <2>1, <2>2, <2>4 DEF LastAt
    <3>2. \A j \in 1 .. n : j > i => q[j].stream # t
      BY <2>2, <2>4 DEF LastAt
    <3> QED BY <1>1, <2>4, <3>1, <3>2 DEF LastAt
  <2> QED BY <2>3, <2>4
<1> QED BY <1>2, <1>3 DEF Added, a

\* Channel a is q without its head m: the last message for a stream stays the
\* last one, unless it was the head.
Taken(q, a, m, t) ==
  /\ m.stream # t => (Mentions(a, t) <=> Mentions(q, t))
  /\ Mentions(a, t) => Mentions(q, t)
  /\ m.stream = t => Mentions(q, t)
  /\ m.stream = t /\ ~Mentions(a, t) => 1 \in DOMAIN q /\ LastAt(q, t, 1) /\ q[1] = m
  /\ \A i \in DOMAIN a : LastAt(a, t, i) =>
       i + 1 \in DOMAIN q /\ LastAt(q, t, i + 1) /\ a[i] = q[i + 1]

LEMMA TailLast ==
  ASSUME NEW S, NEW q \in Seq(S), q # <<>> PROVE \A t : Taken(q, Tail(q), Head(q), t)
<1> TAKE t
<1> DEFINE a == Tail(q)
           m == Head(q)
           n == Len(q)
<1>1. /\ n \in Nat /\ n > 0 /\ DOMAIN q = 1 .. n /\ DOMAIN a = 1 .. n - 1
      /\ q[1] = m /\ \A i \in 1 .. n - 1 : a[i] = q[i + 1]
  OBVIOUS
<1> HIDE DEF a, m, n
<1>2. \A i \in 1 .. n - 1 : i + 1 \in 1 .. n
  BY <1>1
<1>3. \A j \in 1 .. n : j # 1 => j - 1 \in 1 .. n - 1 /\ a[j - 1] = q[j]
  <2> TAKE j \in 1 .. n
  <2> HAVE j # 1
  <2>1. j - 1 \in 1 .. n - 1 /\ (j - 1) + 1 = j
    BY <1>1
  <2> QED BY <1>1, <2>1
<1>4. Mentions(a, t) => Mentions(q, t)
  BY <1>1, <1>2 DEF Mentions
<1>5. m.stream # t => (Mentions(a, t) <=> Mentions(q, t))
  BY <1>1, <1>3, <1>4 DEF Mentions
<1>6. m.stream = t => Mentions(q, t)
  BY <1>1 DEF Mentions
<1>7. ASSUME m.stream = t, ~Mentions(a, t)
      PROVE  1 \in DOMAIN q /\ LastAt(q, t, 1) /\ q[1] = m
  <2>1. \A j \in 1 .. n : j > 1 => q[j].stream # t
    BY <1>1, <1>3, <1>7 DEF Mentions
  <2> QED BY <1>1, <1>7, <2>1 DEF LastAt
<1>8. ASSUME NEW i \in DOMAIN a, LastAt(a, t, i)
      PROVE  i + 1 \in DOMAIN q /\ LastAt(q, t, i + 1) /\ a[i] = q[i + 1]
  <2>1. i + 1 \in 1 .. n /\ a[i] = q[i + 1] /\ q[i + 1].stream = t
    BY <1>1, <1>2, <1>8 DEF LastAt
  <2>2. ASSUME NEW j \in 1 .. n, j > i + 1 PROVE q[j].stream # t
    <3>1. j # 1 /\ j - 1 > i
      BY <1>1, <2>2
    <3> QED BY <1>1, <1>3, <1>8, <3>1 DEF LastAt
  <2> QED BY <1>1, <2>1, <2>2 DEF LastAt
<1> QED BY <1>4, <1>5, <1>6, <1>7, <1>8 DEF Taken, a, m

\* A sink without a stream, and a step in which a sink keeps its stream.
Out(r) == r.stream = None /\ ~r.registering /\ r.state # "SETTLED_RSV_OK"
View(r, q) == q.stream = r.stream /\ (q.registering <=> r.registering) /\ Reg(q)

LEMMA OutView ==
  ASSUME NEW r, NEW q, Core(r), Reg(r), ~Settled(r), Out(q) PROVE View(r, q)
BY DEF Core, Reg, Settled, SettledStates, Out, View

LEMMA LeaveOut ==
  ASSUME NEW r, Core(r), Reg(r), NEW st \in States \ SettledStates
  PROVE  LET q == Leave(r, st) IN Out(q) /\ q \in SinkType /\ q.state = st
<1> DEFINE q == Leave(r, st)
<1>1. q \in SinkType /\ q.state = st /\ q.stream = None
  BY LeaveFields
<1>2. q.registering <=> r.registering /\ ~Settled(r)
  BY DEF Leave, Core, SinkType
<1>3. ~q.registering
  BY <1>2 DEF Reg, Settled, SettledStates
<1> QED BY <1>1, <1>3 DEF Out, SettledStates

\* Neither timers nor the probing status show.
LEMMA ActiveOut ==
  ASSUME NEW r, Core(r), Reg(r) PROVE Out([WaitDelay(r) EXCEPT !.probing = "ACTIVE"])
<1>1. "PRB_W_DELAY" \in States \ SettledStates
  BY DEF States, Probing, SettledStates
<1> DEFINE l == Leave(r, "PRB_W_DELAY")
<1>2. Out(l) /\ l \in SinkType
  BY <1>1, LeaveOut
<1> HIDE DEF l
<1>3. Out([[l EXCEPT !.timers = @ \cup {"DELAY"}] EXCEPT !.probing = "ACTIVE"])
  BY <1>2 DEF Out, SinkType
<1> QED BY <1>3 DEF WaitDelay, l

LEMMA WaitsOut ==
  ASSUME NEW r, Core(r), Reg(r)
  PROVE  Out(WaitAvailable(r)) /\ Out(WaitDelay(r)) /\ Out(WaitRetry(r)) /\ Out(Reprobe(r))
<1>1. {"PRB_W_AVAIL", "PRB_W_DELAY", "PRB_W_RETRY"} \subseteq States \ SettledStates
  BY DEF States, Probing, SettledStates
<1>2. Out(WaitAvailable(r))
  <2> DEFINE l == Leave(r, "PRB_W_AVAIL")
  <2>1. Out(l) /\ l \in SinkType
    BY <1>1, LeaveOut
  <2> HIDE DEF l
  <2>2. Out([l EXCEPT !.probing = "PASSIVE"])
    BY <2>1 DEF Out, SinkType
  <2> QED BY <2>2 DEF WaitAvailable, l
<1>3. Out(WaitDelay(r))
  <2> DEFINE l == Leave(r, "PRB_W_DELAY")
  <2>1. Out(l) /\ l \in SinkType
    BY <1>1, LeaveOut
  <2> HIDE DEF l
  <2>2. Out([l EXCEPT !.timers = @ \cup {"DELAY"}])
    BY <2>1 DEF Out, SinkType
  <2> QED BY <2>2 DEF WaitDelay, l
<1>4. Out(WaitRetry(r))
  <2> DEFINE l == Leave(r, "PRB_W_RETRY")
  <2>1. Out(l) /\ l \in SinkType
    BY <1>1, LeaveOut
  <2> HIDE DEF l
  <2>2. Out([l EXCEPT !.timers = @ \cup {"RETRY"}])
    BY <2>1 DEF Out, SinkType
  <2> QED BY <2>2 DEF WaitRetry, l
<1> QED BY <1>2, <1>3, <1>4, ActiveOut DEF Reprobe

LEMMA ResetView ==
  ASSUME NEW r, r \in SinkType
  PROVE  LET q == Reset(r)
         IN q.stream = r.stream /\ (q.registering <=> r.registering) /\ q.state = r.state
BY DEF Reset, SinkType

LEMMA DiscoveredView ==
  ASSUME NEW r, Core(r), Reg(r) PROVE View(r, Discovered(r))
<1>1. CASE r.state = "PRB_W_AVAIL"
  BY <1>1, ActiveOut, OutView DEF Discovered, Settled, SettledStates
<1>2. CASE r.state # "PRB_W_AVAIL"
  BY <1>2 DEF Discovered, View
<1> QED BY <1>1, <1>2

LEMMA DepartedView ==
  ASSUME NEW r, Core(r), Reg(r) PROVE View(r, Departed(r))
<1>1. CASE r.state \in Probing
  BY <1>1, WaitsOut, OutView DEF Departed, Settled, SettledStates, Probing
<1>2. CASE r.state \notin Probing
  BY <1>2 DEF Departed, View
<1> QED BY <1>1, <1>2

LEMMA DepartView ==
  ASSUME NEW r, Fine(r), Reg(r) PROVE View(r, Reset(Departed(r)))
<1>1. Core(Departed(r)) /\ View(r, Departed(r))
  BY DepartedOK, DepartedView DEF Fine
<1> DEFINE d == Departed(r)
<1> HIDE DEF d
<1>2. d \in SinkType /\ View(r, d)
  BY <1>1 DEF Core, d
<1>3. View(r, Reset(d))
  BY <1>2, ResetView DEF View, Reg
<1> QED BY <1>3 DEF d

LEMMA AvailableView ==
  ASSUME NEW r, Fine(r), Reg(r), NEW newer \in BOOLEAN, NEW gptp \in BOOLEAN
  PROVE  View(r, Available(r, newer, gptp))
<1>0. Core(r) /\ r.discovered \in BOOLEAN
  BY DEF Fine, Core, SinkType
<1>1. CASE ~r.discovered /\ gptp
  <2> DEFINE d == Discovered(r)
  <2>1. Core(d) /\ View(r, d)
    BY <1>0, DiscoveredOK, DiscoveredView
  <2>2. Available(r, newer, gptp) =
          [d EXCEPT !.discovered = TRUE, !.timers = @ \cup {"NO_ADP"}]
    BY <1>1 DEF Available
  <2> HIDE DEF d
  <2>3. View(r, [d EXCEPT !.discovered = TRUE, !.timers = @ \cup {"NO_ADP"}])
    BY <2>1 DEF View, Reg, Core, SinkType
  <2> QED BY <2>2, <2>3
<1>2. CASE r.discovered /\ ~newer /\ gptp
  <2> DEFINE d == Departed(r)
  <2>1. Core(d) /\ View(r, d)
    BY <1>0, DepartedOK, DepartedView
  <2>2. Available(r, newer, gptp) = Discovered(d)
    BY <1>2 DEF Available
  <2> HIDE DEF d
  <2>3. View(d, Discovered(d))
    BY <2>1, DiscoveredView DEF View
  <2> QED BY <2>1, <2>2, <2>3 DEF View
<1>3. CASE r.discovered /\ ~newer /\ ~gptp
  BY <1>3, DepartView DEF Available
<1>4. CASE (~r.discovered /\ ~gptp) \/ (r.discovered /\ newer)
  <2>1. Available(r, newer, gptp) = r
    BY <1>4 DEF Available
  <2> QED BY <2>1 DEF View
<1> QED BY <1>0, <1>1, <1>2, <1>3, <1>4

LEMMA NoResponseView ==
  ASSUME NEW r, Core(r), Reg(r) PROVE View(r, NoResponse(r))
<1>1. CASE r.state = "PRB_W_RESP"
  <2>1. NoResponse(r) = [r EXCEPT !.state = "PRB_W_RESP2"]
    BY <1>1 DEF NoResponse
  <2>2. View(r, [r EXCEPT !.state = "PRB_W_RESP2"])
    BY <1>1 DEF View, Reg, Core, SinkType
  <2> QED BY <2>1, <2>2
<1>2. CASE r.state = "PRB_W_RESP2"
  <2>1. NoResponse(r) = WaitRetry(r)
    BY <1>2 DEF NoResponse
  <2> QED BY <1>2, <2>1, WaitsOut, OutView DEF Settled, SettledStates
<1>3. CASE r.state \notin {"PRB_W_RESP", "PRB_W_RESP2"}
  <2>1. NoResponse(r) = r
    BY <1>3 DEF NoResponse
  <2> QED BY <2>1 DEF View
<1> QED BY <1>1, <1>2, <1>3

\* A status that is not the loss of a reservation leaves the sink with what it
\* says.
LEMMA SrpStateView ==
  ASSUME NEW r, Core(r), Reg(r), Settled(r), NEW talker \in BOOLEAN
  PROVE  LET q == SrpState(r, talker)
         IN /\ r.registering /\ ~talker => Out(q) /\ r.state = "SETTLED_RSV_OK"
            /\ ~(r.registering /\ ~talker) =>
                 q.stream = r.stream /\ (q.registering <=> talker) /\ Reg(q)
<1>0. r.registering \in BOOLEAN
  BY DEF Core, SinkType
<1>1. CASE r.registering /\ ~talker
  <2>1. r.state = "SETTLED_RSV_OK"
    BY <1>1 DEF Reg
  <2>2. SrpState(r, talker) = Reprobe(r)
    BY <1>1, <2>1 DEF SrpState
  <2> QED BY <1>1, <2>1, <2>2, WaitsOut
<1>2. CASE ~r.registering /\ talker
  <2>1. r.state = "SETTLED_NO_RSV"
    BY <1>2 DEF Reg, Settled, SettledStates
  <2> DEFINE q == [r EXCEPT !.registering = TRUE, !.state = "SETTLED_RSV_OK",
                            !.timers = @ \ {"NO_TK"}]
  <2>2. SrpState(r, talker) = q
    BY <1>2, <2>1 DEF SrpState, Core, SinkType
  <2>3. q.stream = r.stream /\ q.registering /\ Reg(q)
    BY DEF Core, SinkType, Reg
  <2> QED BY <1>2, <2>2, <2>3
<1>3. CASE r.registering <=> talker
  <2>1. SrpState(r, talker) = r
    BY <1>0, <1>3 DEF SrpState
  <2> QED BY <1>3, <2>1
<1> QED BY <1>0, <1>1, <1>2, <1>3

-----------------------------------------------------------------------------
(* The steps as MSRP and the channels see them.                            *)

LEMMA StreamsApart ==
  ASSUME IInv, JInv, NEW s \in Sinks, NEW u \in Sinks, s # u, sink[s].stream \in Talkers
  PROVE  sink[u].stream # sink[s].stream
<1>1. /\ Settled(sink[s]) /\ sink[s].stream = sink[s].bind.talker
      /\ sink[s].bind.talker # None
  BY TalkersAssumption DEF IInv, JInv, Core, Calmly
<1>2. sink[u].bind.talker # sink[s].bind.talker
  BY <1>1 DEF JInv, NoSharedTalker
<1>3. sink[u].stream = None \/ sink[u].stream = sink[u].bind.talker
  BY DEF IInv, JInv, Core, Calmly
<1> QED BY <1>1, <1>2, <1>3

\* Every sink keeps its stream.
LEMMA KeptRInv ==
  ASSUME RInv, UNCHANGED <<toSrp, fromSrp, declared, registered>>,
         \A s \in Sinks : View(sink[s], sink'[s])
  PROVE  RInv'
<1>1. \A s \in Sinks : /\ sink'[s].stream = sink[s].stream /\ Reg(sink'[s])
                       /\ sink'[s].registering <=> sink[s].registering
  BY DEF View
<1>2. \A t : Streamed(t)' <=> Streamed(t)
  BY <1>1 DEF Streamed
<1>3. \A t : RequestsRight(t) => RequestsRight(t)'
  BY <1>2 DEF RequestsRight
<1>4. \A s \in Sinks : \A t : StatusesRight(s, t) => StatusesRight(s, t)'
  BY <1>1 DEF StatusesRight
<1>5. \A s \in Sinks : Reg(sink[s])'
  BY <1>1
<1>6. Requests'
  BY <1>3 DEF RInv, Requests
<1>7. Statuses'
  BY <1>1, <1>4 DEF RInv, Statuses
<1> QED BY <1>5, <1>6, <1>7 DEF RInv

\* Nothing comes from MSRP; the sinks that change their stream have a request on
\* its way.
LEMMA StatusesKept ==
  ASSUME RInv, UNCHANGED <<fromSrp, registered>>,
         \A t : Mentions(toSrp, t) => Mentions(toSrp', t),
         \A s \in Sinks : \/ sink'[s] = sink[s]
                          \/ sink'[s].stream \notin Talkers
                          \/ Mentions(toSrp', sink'[s].stream)
  PROVE  Statuses'
<1> SUFFICES ASSUME NEW s \in Sinks, sink'[s].stream \in Talkers,
                    ~Mentions(toSrp', sink'[s].stream)
             PROVE  StatusesRight(s, sink[s].stream)'
  BY DEF Statuses
<1>1. sink'[s] = sink[s]
  OBVIOUS
<1>2. StatusesRight(s, sink[s].stream)
  BY <1>1 DEF RInv, Statuses
<1> QED BY <1>1, <1>2 DEF StatusesRight

\* A settled sink is disconnected: the last request is now the one to leave.
LEMMA DisconnectRequests ==
  ASSUME IInv, JInv, RInv, NEW s \in Sinks, Settled(sink[s]), Disconnect(sink[s]),
         UNCHANGED declared, sink'[s].stream = None,
         \A u \in Sinks \ {s} : sink'[u] = sink[u]
  PROVE  Requests' /\ \A t : Mentions(toSrp, t) => Mentions(toSrp', t)
<1>1. PICK x \in Talkers : x = sink[s].stream
  BY DEF IInv, Core, SinkType
<1> DEFINE m == [op |-> "DEREGISTER", stream |-> x]
<1>2. m \in RequestType /\ m.stream = x /\ m.op # "REGISTER" /\ toSrp \in Seq(RequestType)
  BY <1>1 DEF RequestType, IInv, TypeOK
<1>3. toSrp' = Append(toSrp, m)
  BY <1>1 DEF Disconnect
<1>4. /\ ~Streamed(x)' /\ Streamed(x)
      /\ \A t \in Talkers : t # x => (Streamed(t)' <=> Streamed(t))
  <2>1. \A u \in Sinks \ {s} : sink'[u].stream = sink[u].stream /\ sink[u].stream # x
    BY <1>1, StreamsApart
  <2> QED BY <1>1, <2>1, TalkersAssumption DEF Streamed
<1> HIDE DEF m
<1>5. \A t : Added(toSrp, toSrp', m, t)
  BY <1>2, <1>3, AppendLast
<1>6. \A i \in DOMAIN toSrp' : toSrp'[i].stream \in Talkers
  BY <1>1, <1>2, <1>3 DEF RInv, Requests
<1>7. ASSUME NEW t \in Talkers PROVE RequestsRight(t)'
  <2>1. CASE t = x
    BY <1>2, <1>4, <1>5, <2>1 DEF Added, RequestsRight
  <2>2. CASE t # x
    <3>1. RequestsRight(t) /\ m.stream # t
      BY <1>2, <2>2 DEF RInv, Requests
    <3> QED BY <1>4, <1>5, <2>2, <3>1 DEF Added, RequestsRight
  <2> QED BY <2>1, <2>2
<1> QED BY <1>5, <1>6, <1>7 DEF Added, RInv, Requests

\* The loss of a stream, with its request, by a sink that nothing else happens to.
LEMMA DisconnectRInv ==
  ASSUME IInv, JInv, RInv, NEW s \in Sinks, Settled(sink[s]), Disconnect(sink[s]),
         UNCHANGED <<fromSrp, declared, registered>>,
         sink' = [sink EXCEPT ![s] = sink'[s]], Out(sink'[s])
  PROVE  RInv'
<1>1. \A u \in Sinks \ {s} : sink'[u] = sink[u]
  BY DEF IInv, TypeOK
<1>2. sink'[s].stream = None
  BY DEF Out
<1>3. Requests' /\ \A t : Mentions(toSrp, t) => Mentions(toSrp', t)
  BY <1>1, <1>2, DisconnectRequests
<1>4. Statuses'
  BY <1>1, <1>2, <1>3, TalkersAssumption, StatusesKept
<1>5. \A u \in Sinks : Reg(sink[u])'
  BY <1>1 DEF Out, Reg, RInv
<1> QED BY <1>3, <1>4, <1>5 DEF RInv

\* A sink settles on a stream that no sink has.
LEMMA ConnectRInv ==
  ASSUME IInv, JInv, RInv, NEW s \in Sinks, NEW x \in Talkers,
         toSrp' = Append(toSrp, [op |-> "REGISTER", stream |-> x]),
         UNCHANGED <<fromSrp, declared, registered>>,
         sink' = [sink EXCEPT ![s] = sink'[s]],
         sink[s].stream = None, sink'[s].stream = x, Reg(sink'[s])
  PROVE  RInv'
<1> DEFINE m == [op |-> "REGISTER", stream |-> x]
<1>1. \A u \in Sinks \ {s} : sink'[u] = sink[u]
  BY DEF IInv, TypeOK
<1>2. m \in RequestType /\ m.stream = x /\ m.op = "REGISTER" /\ toSrp \in Seq(RequestType)
  BY DEF RequestType, IInv, TypeOK
<1>4. toSrp' = Append(toSrp, m)
  OBVIOUS
<1>3. Streamed(x)' /\ \A t \in Talkers : t # x => (Streamed(t)' <=> Streamed(t))
  <2>1. \A u \in Sinks \ {s} : sink'[u].stream = sink[u].stream
    BY <1>1
  <2> QED BY <2>1, TalkersAssumption DEF Streamed
<1> HIDE DEF m
<1>5. \A t : Added(toSrp, toSrp', m, t)
  BY <1>2, <1>4, AppendLast
<1>6. \A i \in DOMAIN toSrp' : toSrp'[i].stream \in Talkers
  BY <1>2, <1>4 DEF RInv, Requests
<1>7. ASSUME NEW t \in Talkers PROVE RequestsRight(t)'
  <2>1. CASE t = x
    BY <1>2, <1>3, <1>5, <2>1 DEF Added, RequestsRight
  <2>2. CASE t # x
    <3>1. RequestsRight(t) /\ m.stream # t
      BY <1>2, <2>2 DEF RInv, Requests
    <3> QED BY <1>3, <1>5, <2>2, <3>1 DEF Added, RequestsRight
  <2> QED BY <2>1, <2>2
<1>8. Requests'
  BY <1>6, <1>7 DEF RInv, Requests
<1>9. Statuses'
  <2>1. \A t : Mentions(toSrp, t) => Mentions(toSrp', t)
    BY <1>5 DEF Added
  <2>2. Mentions(toSrp', sink'[s].stream)
    BY <1>2, <1>5 DEF Added
  <2> QED BY <1>1, <2>1, <2>2, StatusesKept
<1>10. \A u \in Sinks : Reg(sink[u])'
  BY <1>1 DEF RInv
<1> QED BY <1>8, <1>9, <1>10 DEF RInv

\* MSRP handles a request: it declares what the request said, and answers a
\* REGISTER with what is registered.
LEMMA MsrpRequestRInv ==
  ASSUME IInv, JInv, RInv, MsrpRequest PROVE RInv'
<1>1. PICK m : m = Head(toSrp)
  OBVIOUS
<1>2. /\ toSrp \in Seq(RequestType) /\ toSrp # <<>> /\ toSrp' = Tail(toSrp)
      /\ fromSrp \in Seq(StatusType) /\ sink' = sink /\ registered' = registered
  BY DEF MsrpRequest, IInv, TypeOK
<1>3. \A t : Taken(toSrp, toSrp', m, t)
  BY <1>1, <1>2, TailLast
<1>4. m \in RequestType /\ m.stream \in Talkers
  <2>1. 1 \in DOMAIN toSrp /\ m = toSrp[1] /\ m \in RequestType
    BY <1>1, <1>2
  <2> QED BY <2>1 DEF RInv, Requests
<1>5. /\ m.op = "REGISTER" => /\ declared' = declared \cup {m.stream}
                              /\ fromSrp' = Append(fromSrp, [stream |-> m.stream,
                                                   talker |-> m.stream \in registered])
      /\ m.op # "REGISTER" => declared' = declared \ {m.stream} /\ fromSrp' = fromSrp
  BY <1>1 DEF MsrpRequest, Status
<1>6. \A t : Streamed(t)' <=> Streamed(t)
  BY <1>2 DEF Streamed
<1>7. ASSUME NEW t \in Talkers PROVE RequestsRight(t)'
  <2>1. RequestsRight(t) /\ Taken(toSrp, toSrp', m, t)
    BY <1>3 DEF RInv, Requests
  <2>2. ASSUME NEW i \in DOMAIN toSrp', LastAt(toSrp', t, i)
        PROVE  toSrp'[i].op = "REGISTER" <=> Streamed(t)
    BY <2>1, <2>2 DEF Taken, RequestsRight
  <2>3. ASSUME ~Mentions(toSrp', t) PROVE t \in declared' <=> Streamed(t)
    <3>1. CASE m.stream = t
      <4>1. m.op = "REGISTER" <=> Streamed(t)
        BY <2>1, <2>3, <3>1 DEF Taken, RequestsRight
      <4> QED BY <1>5, <3>1, <4>1
    <3>2. CASE m.stream # t
      <4>1. t \in declared <=> Streamed(t)
        BY <2>1, <2>3, <3>2 DEF Taken, RequestsRight
      <4> QED BY <1>5, <3>2, <4>1
    <3> QED BY <3>1, <3>2
  <2> QED BY <1>6, <2>2, <2>3 DEF RequestsRight
<1>8. Requests'
  <2>1. \A i \in DOMAIN toSrp' : toSrp'[i].stream \in Talkers
    BY <1>2 DEF RInv, Requests
  <2>2. declared' \subseteq declared \cup {m.stream}
    BY <1>5
  <2>3. declared' \subseteq Talkers
    BY <1>4, <2>2 DEF RInv, Requests
  <2> QED BY <1>7, <2>1, <2>3 DEF Requests
<1>9. Statuses'
  <2> SUFFICES ASSUME NEW s \in Sinks, NEW x \in Talkers, sink[s].stream = x,
                      ~Mentions(toSrp', x)
               PROVE  StatusesRight(s, x)'
    BY <1>2 DEF Statuses, StatusesRight
  <2>1. Taken(toSrp, toSrp', m, x) /\ RequestsRight(x) /\ Streamed(x)
    BY <1>3 DEF RInv, Requests, Streamed
  <2> DEFINE a == [stream |-> m.stream, talker |-> m.stream \in registered]
  <2>2. a \in StatusType /\ a.stream = m.stream /\ (a.talker <=> m.stream \in registered)
    <3>1. m.stream \in Talkers \cup {None} /\ (m.stream \in registered) \in BOOLEAN
      BY <1>4
    <3>2. a \in StatusType
      BY <3>1, Zenon DEF StatusType
    <3> QED BY <3>2
  <2>3. m.op = "REGISTER" => fromSrp' = Append(fromSrp, a)
    BY <1>5
  <2> HIDE DEF a
  <2>4. m.op = "REGISTER" => Added(fromSrp, fromSrp', a, x)
    BY <1>2, <2>2, <2>3, AppendLast
  <2>5. CASE m.stream = x
    <3>1. m.op = "REGISTER"
      BY <2>1, <2>5 DEF Taken, RequestsRight
    <3> QED BY <1>2, <2>2, <2>4, <2>5, <3>1 DEF Added, StatusesRight
  <2>6. CASE m.stream # x
    <3>1. StatusesRight(s, x)
      BY <2>1, <2>6 DEF Taken, RInv, Statuses
    <3>2. CASE m.op = "REGISTER"
      BY <1>2, <2>2, <2>4, <2>6, <3>1, <3>2 DEF Added, StatusesRight
    <3>3. CASE m.op # "REGISTER"
      <4>1. fromSrp' = fromSrp
        BY <1>5, <3>3
      <4> QED BY <1>2, <3>1, <4>1 DEF StatusesRight
    <3> QED BY <3>2, <3>3
  <2> QED BY <2>5, <2>6
<1>10. \A s \in Sinks : Reg(sink[s])'
  BY <1>2 DEF RInv
<1> QED BY <1>8, <1>9, <1>10 DEF RInv

\* A talker registration that changes is reported when a listener is declared, and
\* a sink with the stream and no request under way is one.
LEMMA TalkerRInv ==
  ASSUME IInv, RInv, NEW t \in Talkers, TalkerRegistered(t) \/ TalkerDeregistered(t)
  PROVE  RInv'
<1> DEFINE on == t \notin registered
           a == [stream |-> t, talker |-> on]
<1>1. /\ UNCHANGED <<sink, toSrp, declared>> /\ fromSrp \in Seq(StatusType)
      /\ t \in registered' <=> on
      /\ \A x : x # t => (x \in registered' <=> x \in registered)
  BY DEF TalkerRegistered, TalkerDeregistered, IInv, TypeOK
<1>2. a \in StatusType /\ a.stream = t /\ (a.talker <=> on)
  BY DEF StatusType
<1>3. fromSrp' = IF t \in declared THEN Append(fromSrp, a) ELSE fromSrp
  BY DEF TalkerRegistered, TalkerDeregistered, Status
<1> HIDE DEF a
<1>4. t \in declared => \A x : Added(fromSrp, fromSrp', a, x)
  BY <1>1, <1>2, <1>3, AppendLast
<1> HIDE DEF on
<1>5. Statuses'
  <2> SUFFICES ASSUME NEW s \in Sinks, NEW x \in Talkers, sink[s].stream = x,
                      ~Mentions(toSrp, x)
               PROVE  StatusesRight(s, x)'
    BY <1>1 DEF Statuses, StatusesRight
  <2>1. StatusesRight(s, x) /\ x \in declared
    BY DEF RInv, Statuses, Requests, RequestsRight, Streamed
  <2>2. CASE x = t
    BY <1>1, <1>2, <1>4, <2>1, <2>2 DEF Added, StatusesRight
  <2>3. CASE x # t /\ t \in declared
    BY <1>1, <1>2, <1>4, <2>1, <2>3 DEF Added, StatusesRight
  <2>4. CASE x # t /\ t \notin declared
    <3>1. fromSrp' = fromSrp
      BY <1>3, <2>4
    <3> QED BY <1>1, <2>1, <2>4, <3>1 DEF StatusesRight
  <2> QED BY <2>2, <2>3, <2>4
<1>6. Requests'
  <2>1. \A x : Streamed(x)' <=> Streamed(x)
    BY <1>1 DEF Streamed
  <2>2. \A x : RequestsRight(x) => RequestsRight(x)'
    BY <1>1, <2>1 DEF RequestsRight
  <2> QED BY <1>1, <2>2 DEF RInv, Requests
<1>7. \A s \in Sinks : Reg(sink[s])'
  BY <1>1 DEF RInv
<1> QED BY <1>5, <1>6, <1>7 DEF RInv

\* A sink handles a status.  The one with the stream is found, since no other has
\* it; a loss disconnects it, any other status leaves it with what it says.
LEMMA ListenerStatusRInv ==
  ASSUME IInv, JInv, RInv, ListenerStatus PROVE RInv'
<1>1. PICK m : m = Head(fromSrp)
  OBVIOUS
<1>2. /\ fromSrp \in Seq(StatusType) /\ fromSrp # <<>> /\ fromSrp' = Tail(fromSrp)
      /\ UNCHANGED <<declared, registered>>
  BY DEF ListenerStatus, IInv, TypeOK
<1>3. \A t : Taken(fromSrp, fromSrp', m, t)
  BY <1>1, <1>2, TailLast
<1>4. m \in StatusType /\ m.talker \in BOOLEAN
  <2>1. m \in StatusType
    BY <1>1, <1>2
  <2> QED BY <2>1 DEF StatusType
<1>5. ASSUME NEW s \in Sinks, sink[s].stream = m.stream, m.stream \in Talkers
      PROVE  FirstOf(SinksOf(m.stream)) = s /\ SinksOf(m.stream) # {}
  <2>1. SinksOf(m.stream) = {s}
    BY <1>5, StreamsApart DEF SinksOf
  <2>2. s <= s
    BY SinksAssumption DEF Sinks
  <2> QED BY <2>1, <2>2 DEF FirstOf
<1>6. CASE \A s \in Sinks : sink[s].stream = m.stream => m.stream \notin Talkers
  <2>1. sink' = sink /\ toSrp' = toSrp
    <3> DEFINE s == FirstOf(SinksOf(m.stream))
    <3>1. ASSUME SinksOf(m.stream) # {} PROVE ~Settled(sink[s])
      <4>1. SinksOf(m.stream) \subseteq Sinks
        BY DEF SinksOf
      <4>2. \E x \in SinksOf(m.stream) : \A u \in SinksOf(m.stream) : x <= u
        BY <3>1, <4>1, SinksAssumption, LeastExists DEF Sinks
      <4>3. s \in SinksOf(m.stream)
        BY <4>2 DEF FirstOf
      <4> HIDE DEF s
      <4>4. s \in Sinks /\ sink[s].stream = m.stream
        BY <4>3 DEF SinksOf
      <4>5. sink[s].stream \notin Talkers
        BY <1>6, <4>4
      <4> QED BY <4>4, <4>5 DEF IInv, Core, SinkType
    <3> QED BY <1>1, <3>1 DEF ListenerStatus
  <2>2. Requests'
    <3>1. \A x : Streamed(x)' <=> Streamed(x)
      BY <2>1 DEF Streamed
    <3>2. \A x : RequestsRight(x) => RequestsRight(x)'
      BY <1>2, <2>1, <3>1 DEF RequestsRight
    <3> QED BY <1>2, <2>1, <3>2 DEF RInv, Requests
  <2>3. Statuses'
    <3> SUFFICES ASSUME NEW s \in Sinks, NEW x \in Talkers, sink[s].stream = x,
                        ~Mentions(toSrp, x)
                 PROVE  StatusesRight(s, x)'
      BY <2>1 DEF Statuses, StatusesRight
    <3>1. StatusesRight(s, x) /\ Taken(fromSrp, fromSrp', m, x) /\ m.stream # x
      BY <1>3, <1>6 DEF RInv, Statuses
    <3> QED BY <1>2, <2>1, <3>1 DEF Taken, StatusesRight
  <2> QED BY <2>1, <2>2, <2>3 DEF RInv
<1>7. ASSUME NEW s \in Sinks, sink[s].stream = m.stream, m.stream \in Talkers
      PROVE  RInv'
  <2> DEFINE r == sink[s]
             q == SrpState(r, m.talker)
             lost == r.registering /\ ~m.talker
  <2>1. Core(r) /\ Reg(r) /\ Settled(r)
    BY <1>7, TalkersAssumption DEF IInv, RInv, Core
  <2>2. /\ lost => Out(q) /\ r.state = "SETTLED_RSV_OK"
        /\ ~lost => q.stream = r.stream /\ (q.registering <=> m.talker) /\ Reg(q)
    BY <1>4, <2>1, SrpStateView
  <2>3. /\ sink' = [sink EXCEPT ![s] = q]
        /\ IF lost /\ r.state = "SETTLED_RSV_OK" THEN Disconnect(r) ELSE UNCHANGED toSrp
    BY <1>1, <1>5, <1>7, <2>1 DEF ListenerStatus
  <2>4. sink'[s] = q /\ \A u \in Sinks \ {s} : sink'[u] = sink[u]
    BY <2>3 DEF IInv, TypeOK
  <2>5. \A u \in Sinks \ {s} : sink[u].stream # m.stream
    BY <1>7, StreamsApart
  <2> HIDE DEF q
  <2>6. \A u \in Sinks : Reg(sink[u])'
    BY <2>2, <2>4 DEF RInv, Out, Reg
  <2>7. ASSUME NEW u \in Sinks \ {s}, NEW x \in Talkers, sink[u].stream = x, ~Mentions(toSrp, x)
        PROVE  StatusesRight(u, x)'
    <3>1. StatusesRight(u, x) /\ Taken(fromSrp, fromSrp', m, x) /\ m.stream # x
      BY <1>3, <2>5, <2>7 DEF RInv, Statuses
    <3> QED BY <1>2, <2>4, <3>1 DEF Taken, StatusesRight
  <2>8. CASE lost
    <3>1. Disconnect(r) /\ sink'[s].stream = None
      BY <2>2, <2>3, <2>4, <2>8 DEF Out
    <3>2. Requests' /\ \A t : Mentions(toSrp, t) => Mentions(toSrp', t)
      BY <1>2, <2>1, <2>4, <3>1, DisconnectRequests
    <3>3. Statuses'
      <4> SUFFICES ASSUME NEW u \in Sinks, NEW x \in Talkers, sink'[u].stream = x,
                          ~Mentions(toSrp', x)
                   PROVE  StatusesRight(u, x)'
        BY DEF Statuses, StatusesRight
      <4>1. u # s /\ sink[u].stream = x /\ ~Mentions(toSrp, x)
        BY <2>4, <3>1, <3>2, TalkersAssumption
      <4> QED BY <2>7, <4>1
    <3> QED BY <2>6, <3>2, <3>3 DEF RInv
  <2>9. CASE ~lost
    <3>1. toSrp' = toSrp /\ sink'[s].stream = sink[s].stream
          /\ (sink'[s].registering <=> m.talker)
      BY <2>2, <2>3, <2>4, <2>9
    <3>2. Requests'
      <4>1. \A x : Streamed(x)' <=> Streamed(x)
        BY <2>4, <3>1 DEF Streamed
      <4>2. \A x : RequestsRight(x) => RequestsRight(x)'
        BY <1>2, <3>1, <4>1 DEF RequestsRight
      <4> QED BY <1>2, <3>1, <4>2 DEF RInv, Requests
    <3>3. Statuses'
      <4> SUFFICES ASSUME NEW u \in Sinks, NEW x \in Talkers, sink'[u].stream = x,
                          ~Mentions(toSrp', x)
                   PROVE  StatusesRight(u, x)'
        BY DEF Statuses, StatusesRight
      <4>1. CASE u # s
        BY <2>4, <2>7, <3>1, <4>1
      <4>2. CASE u = s
        <5>1. m.stream = x /\ sink[s].stream = x /\ ~Mentions(toSrp, x)
          BY <1>7, <3>1, <4>2
        <5>2. StatusesRight(s, x) /\ Taken(fromSrp, fromSrp', m, x)
          BY <1>3, <5>1 DEF RInv, Statuses
        <5> QED BY <1>2, <3>1, <4>2, <5>1, <5>2 DEF Taken, StatusesRight
      <4> QED BY <4>1, <4>2
    <3> QED BY <2>6, <3>2, <3>3 DEF RInv
  <2> QED BY <2>8, <2>9
<1> QED BY <1>6, <1>7

LEMMA ResetOut ==
  ASSUME NEW r, r \in SinkType, Out(r) PROVE Out(Reset(r))
BY ResetView DEF Out

\* A sink that ends without a stream is disconnected if it had one.
LEMMA OutRInv ==
  ASSUME IInv, JInv, RInv, NEW s \in Sinks, Disconnect(sink[s]),
         UNCHANGED <<fromSrp, declared, registered>>,
         sink' = [sink EXCEPT ![s] = sink'[s]], Out(sink'[s])
  PROVE  RInv'
<1>1. CASE Settled(sink[s])
  BY <1>1, DisconnectRInv
<1>2. CASE ~Settled(sink[s])
  <2>1. toSrp' = toSrp
    BY <1>2 DEF Disconnect
  <2>2. View(sink[s], sink'[s])
    BY <1>2, OutView DEF IInv, RInv
  <2>3. \A u \in Sinks \ {s} : sink'[u] = sink[u]
    BY DEF IInv, TypeOK
  <2>4. \A u \in Sinks : View(sink[u], sink'[u])
    BY <2>2, <2>3 DEF RInv, View
  <2> QED BY <2>1, <2>4, KeptRInv
<1> QED BY <1>1, <1>2

LEMMA ViewRInv ==
  ASSUME IInv, RInv, NEW s \in Sinks, UNCHANGED <<toSrp, fromSrp, declared, registered>>,
         sink' = [sink EXCEPT ![s] = sink'[s]], View(sink[s], sink'[s])
  PROVE  RInv'
<1>1. \A u \in Sinks \ {s} : sink'[u] = sink[u]
  BY DEF IInv, TypeOK
<1>2. \A u \in Sinks : View(sink[u], sink'[u])
  BY <1>1 DEF RInv, View
<1> QED BY <1>2, KeptRInv

-----------------------------------------------------------------------------
(* RInv is preserved by every action.                                      *)

LEMMA BindRInv ==
  ASSUME IInv, JInv, RInv, NEW s \in Sinks, NEW t \in Talkers, NEW w \in Waits,
         Bind(s, [talker |-> t, wait |-> w], "none")
  PROVE  RInv'
<1> DEFINE b == [talker |-> t, wait |-> w]
           r == sink[s]
           restart == r.bind.talker # t
           moves == restart \/ ~Bound(r)
           p == IF restart THEN "ACTIVE" ELSE r.probing
           n == IF restart THEN sequence ELSE r.seq
           probed == Parameters(r, b, p, n)
           q == IF moves THEN Reset(Leave(probed, "PRB_W_RESP")) ELSE probed
<1>1. Core(r) /\ Awake(r) /\ Reg(r) /\ r \in SinkType
  BY SinkFine DEF Fine, IInv, TypeOK, RInv
<1>2. b \in Binding /\ b.talker = t /\ p \in ProbingStatus /\ n \in 0 .. SeqMod - 1
  BY <1>1, FlagsAssumption DEF Binding, ProbingStatus, SinkType, IInv, TypeOK
<1>3. /\ sink' = [sink EXCEPT ![s] = q] /\ UNCHANGED <<fromSrp, declared, registered>>
      /\ IF moves THEN Disconnect(r) ELSE UNCHANGED toSrp
  BY <1>2 DEF Bind, NeedRestart, Restarted, Parameters
<1> HIDE DEF b, p, n
<1>4. Core(probed) /\ View(r, probed)
  <2>1. Core(r) /\ b \in Binding /\ p \in ProbingStatus /\ n \in 0 .. SeqMod - 1
        /\ (Bound(r) => b.talker \in Talkers)
    BY <1>1, <1>2
  <2>2. Core(probed)
    BY <1>1, <2>1, ParametersOK
  <2>3. View(r, probed)
    BY <1>1 DEF Parameters, View, Reg, SinkType
  <2> QED BY <2>2, <2>3
<1> HIDE DEF probed
<1>5. sink'[s] = q
  BY <1>3 DEF IInv, TypeOK
<1>6. CASE moves
  <2> DEFINE l == Leave(probed, "PRB_W_RESP")
  <2>1. l \in SinkType /\ Out(l)
    BY <1>4, LeaveOut DEF View, States, Probing, SettledStates
  <2>2. Out(q)
    BY <1>6, <2>1, ResetOut
  <2> HIDE DEF q
  <2> QED BY <1>3, <1>5, <1>6, <2>2, OutRInv
<1>7. CASE ~moves
  <2>1. q = probed
    BY <1>7
  <2> HIDE DEF q
  <2> QED BY <1>3, <1>4, <1>5, <1>7, <2>1, ViewRInv
<1> QED BY <1>6, <1>7

LEMMA UnbindRInv ==
  ASSUME IInv, JInv, RInv, NEW s \in Sinks, Unbind(s) PROVE RInv'
<1> DEFINE r == sink[s]
           l == Leave(r, "UNBOUND")
           left == [l EXCEPT !.bind = NoBinding, !.probing = "DISABLED"]
<1>1. sink' = [sink EXCEPT ![s] = IF Bound(r) THEN Reset(left) ELSE left]
  BY DEF Unbind, Unbound
<1>2. l \in SinkType /\ Out(l)
  BY LeaveOut DEF IInv, RInv, States, SettledStates
<1> HIDE DEF l
<1>3. left \in SinkType /\ Out(left)
  BY <1>2 DEF Out, SinkType, Binding, NoBinding, ProbingStatus
<1> HIDE DEF left
<1>4. Out(IF Bound(r) THEN Reset(left) ELSE left)
  BY <1>3, ResetOut
<1>5. Out(sink'[s]) /\ sink' = [sink EXCEPT ![s] = sink'[s]]
  BY <1>1, <1>4 DEF IInv, TypeOK
<1>6. Disconnect(r) /\ UNCHANGED <<fromSrp, declared, registered>>
  BY DEF Unbind
<1> QED BY <1>5, <1>6, OutRInv

LEMMA StartStopRInv ==
  ASSUME IInv, RInv, NEW s \in Sinks, StartStop(s) PROVE RInv'
<1> DEFINE r == sink[s]
           b == [r.bind EXCEPT !.wait = ~@]
<1>1. sink' = [sink EXCEPT ![s].bind = b] /\ UNCHANGED <<toSrp, fromSrp, declared, registered>>
  BY DEF StartStop
<1> HIDE DEF b
<1>2. sink'[s] = [r EXCEPT !.bind = b] /\ r \in SinkType /\ sink' = [sink EXCEPT ![s] = sink'[s]]
  BY <1>1 DEF IInv, TypeOK
<1>3. View(r, sink'[s])
  BY <1>2 DEF View, Reg, RInv, SinkType
<1> QED BY <1>1, <1>2, <1>3, ViewRInv

LEMMA RestoreRInv ==
  ASSUME IInv, JInv, RInv, NEW s \in Sinks, Restore(s) PROVE RInv'
<1> DEFINE b == restore[s]
           r == [sink[s] EXCEPT !.bind = b]
           a == WaitAvailable(r)
<1>1. ~Bound(sink[s]) /\ Fine(sink[s])
  BY SinkFine DEF Restore, JInv, RestoresApart
<1>2. b \in Binding /\ b.talker \in Talkers
  BY FlagsAssumption DEF Restore, IInv, RestoreType, Binding
<1>3. Fine(r) /\ r.state = sink[s].state
  BY <1>1, <1>2, RebindOK
<1>4. Reg(r)
  BY DEF Reg, RInv, IInv, TypeOK, SinkType
<1>5. sink' = [sink EXCEPT ![s] = Reset(a)]
  BY <1>1, <1>3 DEF Restore, Bound
<1>6. r.bind.talker \in Talkers
  BY <1>1, <1>2 DEF Fine, Core, SinkType
<1> HIDE DEF r
<1>7. a \in SinkType /\ Out(a)
  BY <1>3, <1>4, <1>6, WaitAvailableOK, WaitsOut DEF Fine, Core
<1> HIDE DEF a
<1>8. Out(sink'[s]) /\ sink' = [sink EXCEPT ![s] = sink'[s]]
  BY <1>5, <1>7, ResetOut DEF IInv, TypeOK
<1>9. Disconnect(sink[s]) /\ UNCHANGED <<fromSrp, declared, registered>>
  BY <1>1 DEF Restore, Disconnect, Bound, Settled, SettledStates
<1> QED BY <1>8, <1>9, OutRInv

LEMMA TmrDelayRInv ==
  ASSUME IInv, JInv, RInv, NEW s \in Sinks, NEW f, TmrDelay(s, f) PROVE RInv'
<1> DEFINE r == sink[s]
           l == Leave(r, "PRB_W_RESP")
           n == IF f = "desc" THEN l.seq ELSE sequence
<1>1. sink' = [sink EXCEPT ![s] = [l EXCEPT !.seq = n]] /\ r.state = "PRB_W_DELAY"
      /\ UNCHANGED <<toSrp, fromSrp, declared, registered>>
  BY DEF TmrDelay
<1>2. l \in SinkType /\ Out(l)
  BY LeaveOut DEF IInv, RInv, States, Probing, SettledStates
<1> HIDE DEF l, n
<1>3. Out([l EXCEPT !.seq = n])
  BY <1>2 DEF Out, SinkType
<1>4. Out(sink'[s]) /\ sink' = [sink EXCEPT ![s] = sink'[s]]
  BY <1>1, <1>3 DEF IInv, TypeOK
<1>5. Disconnect(r)
  BY <1>1 DEF Disconnect, Settled, SettledStates
<1> QED BY <1>1, <1>4, <1>5, OutRInv

LEMMA TimerRInv ==
  ASSUME IInv, JInv, RInv, NEW s \in Sinks, TmrRetry(s) \/ TmrNoTk(s) PROVE RInv'
<1> DEFINE r == sink[s]
<1>1. Core(r) /\ Reg(r)
  BY DEF IInv, RInv
<1>2. PICK q : sink' = [sink EXCEPT ![s] = q] /\ Out(q)
  BY <1>1, WaitsOut DEF TmrRetry, TmrNoTk
<1>3. Out(sink'[s]) /\ sink' = [sink EXCEPT ![s] = sink'[s]]
  BY <1>2 DEF IInv, TypeOK
<1>4. Disconnect(r) /\ UNCHANGED <<fromSrp, declared, registered>>
  BY DEF TmrRetry, TmrNoTk, Disconnect, Settled, SettledStates
<1> QED BY <1>3, <1>4, OutRInv

LEMMA DepartRInv ==
  ASSUME IInv, RInv, NEW S, Depart(S) PROVE RInv'
<1>1. \A s \in Sinks : sink'[s] = sink[s] \/ sink'[s] = Reset(Departed(sink[s]))
  BY DEF Depart, Discover
<1>2. \A s \in Sinks : View(sink[s], sink'[s])
  BY <1>1, SinkFine, DepartView DEF RInv, View
<1>3. UNCHANGED <<toSrp, fromSrp, declared, registered>>
  BY DEF Depart, Discover
<1> QED BY <1>2, <1>3, KeptRInv

LEMMA AdpAvailableRInv ==
  ASSUME IInv, RInv, NEW e \in Entities, NEW newer \in BOOLEAN, NEW gptp \in BOOLEAN,
         AdpAvailable(e, newer, gptp)
  PROVE  RInv'
<1>1. \A s \in Sinks : sink'[s] = sink[s] \/ sink'[s] = Available(sink[s], newer, gptp)
  BY DEF AdpAvailable, Discover
<1>2. \A s \in Sinks : View(sink[s], sink'[s])
  BY <1>1, SinkFine, AvailableView DEF RInv, View
<1>3. UNCHANGED <<toSrp, fromSrp, declared, registered>>
  BY DEF AdpAvailable, Discover
<1> QED BY <1>2, <1>3, KeptRInv

LEMMA InflightTimeoutRInv ==
  ASSUME IInv, RInv, NEW i \in inflight, NEW f, InflightTimeout(i, f) PROVE RInv'
<1>1. PICK s \in Sinks : s = i.msg.sink
  BY EntrySink
<1>2. sink' = [sink EXCEPT ![s] = NoResponse(sink[s])]
      /\ UNCHANGED <<toSrp, fromSrp, declared, registered>>
  BY <1>1 DEF InflightTimeout
<1>3. View(sink[s], NoResponse(sink[s]))
  BY NoResponseView DEF IInv, RInv
<1>4. View(sink[s], sink'[s]) /\ sink' = [sink EXCEPT ![s] = sink'[s]]
  BY <1>2, <1>3 DEF IInv, TypeOK
<1> QED BY <1>2, <1>4, ViewRInv

\* The stream of a response that settles a sink is asked for with it.
LEMMA ProbeResponseRInv ==
  ASSUME IInv, JInv, RInv, NEW m \in net, NEW success \in BOOLEAN, NEW again,
         ProbeResponse(m, success, again)
  PROVE  RInv'
<1>1. PICK s \in Sinks, x \in Talkers : s = m.sink /\ x = m.talker
  BY DEF IInv, TypeOK, MessageType
<1> DEFINE r == sink[s]
           taken == r.state \in AwaitingResponse /\ Cancel(m.seq) # {}
<1>2. Core(r) /\ Reg(r) /\ r \in SinkType /\ UNCHANGED <<fromSrp, declared, registered>>
  BY DEF IInv, RInv, Core, ProbeResponse
<1>3. CASE taken /\ success
  <2>1. /\ sink' = [sink EXCEPT ![s] = SettledOn(r, x)]
        /\ toSrp' = Append(toSrp, [op |-> "REGISTER", stream |-> x])
    BY <1>1, <1>3 DEF ProbeResponse
  <2>2. r.stream = None /\ ~r.registering
    BY <1>2, <1>3 DEF Core, Reg, Settled, SettledStates, AwaitingResponse
  <2>3. SettledOn(r, x).stream = x /\ Reg(SettledOn(r, x))
    BY <1>2, <2>2 DEF SettledOn, SinkType, Reg
  <2>4. sink'[s].stream = x /\ Reg(sink'[s]) /\ sink' = [sink EXCEPT ![s] = sink'[s]]
    BY <2>1, <2>3 DEF IInv, TypeOK
  <2> QED BY <1>2, <2>1, <2>2, <2>4, ConnectRInv
<1>4. CASE taken /\ ~success
  <2>1. sink' = [sink EXCEPT ![s] = WaitRetry(r)] /\ toSrp' = toSrp
    BY <1>1, <1>4 DEF ProbeResponse
  <2>2. Out(WaitRetry(r))
    BY <1>2, WaitsOut
  <2>3. Out(sink'[s]) /\ sink' = [sink EXCEPT ![s] = sink'[s]]
    BY <2>1, <2>2 DEF IInv, TypeOK
  <2>4. Disconnect(r)
    BY <1>4, <2>1 DEF Disconnect, Settled, SettledStates, AwaitingResponse
  <2> QED BY <1>2, <2>3, <2>4, OutRInv
<1>5. CASE ~taken
  <2>1. sink' = [sink EXCEPT ![s] = r] /\ toSrp' = toSrp
    BY <1>1, <1>5 DEF ProbeResponse
  <2>2. sink'[s] = r /\ sink' = [sink EXCEPT ![s] = sink'[s]] /\ View(r, r)
    BY <1>2, <2>1 DEF IInv, TypeOK, View
  <2> QED BY <1>2, <2>1, <2>2, ViewRInv
<1> QED BY <1>3, <1>4, <1>5

LEMMA OtherRInv ==
  ASSUME RInv, UNCHANGED <<sink, toSrp, fromSrp, declared, registered>> PROVE RInv'
<1>1. \A s \in Sinks : View(sink[s], sink'[s])
  BY DEF RInv, View
<1> QED BY <1>1, KeptRInv

LEMMA InitRInv ==
  Init => RInv
<1> SUFFICES ASSUME Init PROVE RInv
  OBVIOUS
<1>1. toSrp = <<>> /\ fromSrp = <<>> /\ declared = {}
      /\ \A s \in Sinks : sink[s].stream = None /\ ~sink[s].registering /\ ~Bound(sink[s])
  BY DEF Init, Bound
<1>2. \A t : ~Mentions(toSrp, t)
  BY <1>1 DEF Mentions
<1>3. \A s \in Sinks : Reg(sink[s])
  BY <1>1 DEF Reg, Bound
<1>4. \A t \in Talkers : ~Streamed(t)
  BY <1>1, TalkersAssumption DEF Streamed
<1>5. DOMAIN toSrp = {}
  BY <1>1
<1>6. Requests
  BY <1>1, <1>4, <1>5 DEF Requests, RequestsRight
<1>7. Statuses
  BY <1>1, TalkersAssumption DEF Statuses
<1> QED BY <1>3, <1>6, <1>7 DEF RInv

LEMMA NextRInv ==
  ASSUME MaxFaults = 0
  PROVE  IInv /\ JInv /\ RInv /\ [Next]_vars => RInv'
<1> SUFFICES ASSUME IInv, JInv, RInv, [Next]_vars PROVE RInv'
  OBVIOUS
<1>1. ASSUME NEW s \in Sinks, NEW t \in Talkers, NEW w \in Waits, NEW f \in Faults,
             Bind(s, [talker |-> t, wait |-> w], f)
      PROVE  RInv'
  <2>1. f = "none"
    BY <1>1, NoFault DEF Bind
  <2> QED BY <1>1, <2>1, BindRInv
<1>2. ASSUME NEW s \in Sinks, Unbind(s) \/ StartStop(s) \/ Restore(s) PROVE RInv'
  BY <1>2, UnbindRInv, StartStopRInv, RestoreRInv
<1>3. ASSUME NEW s \in Sinks, NEW f \in Faults, TmrDelay(s, f) PROVE RInv'
  BY <1>3, TmrDelayRInv
<1>4. ASSUME NEW s \in Sinks, TmrRetry(s) \/ TmrNoTk(s) PROVE RInv'
  BY <1>4, TimerRInv
<1>5. ASSUME NEW s \in Sinks, TmrNoAdp(s) PROVE RInv'
  BY <1>5, DepartRInv DEF TmrNoAdp
<1>6. ASSUME NEW e \in Entities, AdpDeparting(e) PROVE RInv'
  BY <1>6, DepartRInv DEF AdpDeparting
<1>7. ASSUME NEW e \in Entities, NEW newer \in BOOLEAN, NEW gptp \in BOOLEAN,
             AdpAvailable(e, newer, gptp)
      PROVE  RInv'
  BY <1>7, AdpAvailableRInv
<1>8. ASSUME NEW i \in inflight, NEW f \in Faults, InflightTimeout(i, f) PROVE RInv'
  BY <1>8, InflightTimeoutRInv
<1>9. ASSUME NEW m \in net, NEW success \in BOOLEAN, NEW again \in BOOLEAN,
             ProbeResponse(m, success, again)
      PROVE  RInv'
  BY <1>9, ProbeResponseRInv
<1>10. CASE ListenerStatus
  BY <1>10, ListenerStatusRInv
<1>11. CASE MsrpRequest
  BY <1>11, MsrpRequestRInv
<1>12. ASSUME NEW t \in Talkers, TalkerRegistered(t) \/ TalkerDeregistered(t) PROVE RInv'
  BY <1>12, TalkerRInv
<1>13. CASE Calm \/ (\E m \in net : Lose(m)) \/ UNCHANGED vars
  BY <1>13, OtherRInv DEF Calm, Lose, vars
<1> QED
  BY <1>1, <1>2, <1>3, <1>4, <1>5, <1>6, <1>7, <1>8, <1>9, <1>10, <1>11, <1>12, <1>13
     DEF Next

\* When both IPC channels between AVDECC and MSRP are empty, MSRP declares a
\* listener for exactly the streams of the settled sinks, and each of these has a
\* reservation exactly if MSRP has registered its talker, for queues of any length
\* and any crossing of requests and statuses in them: when nothing fails and
\* bindings are restored before controllers bind.
THEOREM ReservationHolds ==
  ASSUME MaxFaults = 0, LateRestore = FALSE PROVE Spec => []ReservationAgrees
<1>1. IInv /\ RInv => ReservationAgrees
  <2> SUFFICES ASSUME IInv, RInv, toSrp = <<>>, fromSrp = <<>>
               PROVE  /\ declared = {sink[s].stream : s \in Sinks} \ {None}
                      /\ \A s \in Sinks : Settled(sink[s]) =>
                           /\ sink[s].registering <=> sink[s].stream \in registered
                           /\ sink[s].registering <=> sink[s].state = "SETTLED_RSV_OK"
    BY DEF ReservationAgrees
  <2>1. \A t : ~Mentions(toSrp, t) /\ ~Mentions(fromSrp, t)
    BY DEF Mentions
  <2>2. \A t \in Talkers : t \in declared <=> Streamed(t)
    BY <2>1 DEF RInv, Requests, RequestsRight
  <2>3. \A s \in Sinks : sink[s].stream \in Talkers \cup {None}
    BY DEF IInv, Core, SinkType
  <2>4. declared = {sink[s].stream : s \in Sinks} \ {None}
    <3>1. declared \subseteq Talkers
      BY DEF RInv, Requests
    <3> QED BY <2>2, <2>3, <3>1, TalkersAssumption DEF Streamed
  <2>5. ASSUME NEW s \in Sinks, Settled(sink[s])
        PROVE  /\ sink[s].registering <=> sink[s].stream \in registered
               /\ sink[s].registering <=> sink[s].state = "SETTLED_RSV_OK"
    <3>1. sink[s].stream \in Talkers
      BY <2>3, <2>5 DEF IInv, Core
    <3>2. sink[s].registering <=> sink[s].stream \in registered
      BY <2>1, <3>1 DEF RInv, Statuses, StatusesRight
    <3> QED BY <3>2 DEF RInv, Reg
  <2> QED BY <2>4, <2>5
<1> QED
  BY <1>1, InitIInv, NextIInv, InitJInv, NextJInv, InitRInv, NextRInv, PTL DEF Spec

=============================================================================
