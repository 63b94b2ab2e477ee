---------------------------- MODULE PDelay_proofs ----------------------------
(***************************************************************************)
(* Proofs about PDelay: type correctness and CapableIsRecent, for every    *)
(* number of allowed losses, of sequence numbers and of faults, and        *)
(* MeasurementMatches where timestamps are in time and the faults are      *)
(* fewer than the sequence numbers.                                        *)
(***************************************************************************)
EXTENDS PDelay, SequenceTheorems, TLAPS

(***************************************************************************)
(* lostResponses counts every exchange that was missed since the last      *)
(* measurement; in RESET it is one ahead of what is counted outside, which *)
(* counts a request when the next one leaves.                              *)
(***************************************************************************)
Counts(r, n) ==
    /\ r.st # "NOT_ENABLED"
    /\ r.capable => /\ r.st = "RESET" => n + 1 <= r.lost
                    /\ r.st # "RESET" => n <= r.lost
                    /\ r.st = "W_INTERVAL" => n = 0

Inv ==
    /\ TypeOK
    /\ oper["req"] => Counts(req, missed)

-----------------------------------------------------------------------------
(***************************************************************************)
(* What the state machine's functions return.                              *)
(***************************************************************************)
LEMMA ResetFacts ==
    ASSUME NEW r \in Requesters
    PROVE  /\ Reset(r) \in Requesters /\ Reset(r).st = "RESET" /\ ~Reset(r).rcvd
           /\ Reset(r).seq = r.seq
           /\ Reset(r).capable => r.capable /\ Reset(r).lost = r.lost + 1
  <1>1. r.lost \in 0 .. AllowedLost /\ AllowedLost \in Nat
    BY PDelayAssumption DEF Requesters
  <1>2. CASE r.lost < AllowedLost
    <2>1. r.lost + 1 \in 0 .. AllowedLost  BY <1>1, <1>2
    <2>2. Reset(r) = [r EXCEPT !.st = "RESET", !.rcvd = FALSE, !.lost = r.lost + 1]
      BY <1>2 DEF Reset
    <2>3. /\ Reset(r).st = "RESET" /\ Reset(r).rcvd = FALSE /\ Reset(r).seq = r.seq
          /\ Reset(r).capable = r.capable /\ Reset(r).lost = r.lost + 1
      BY <2>2 DEF Requesters
    <2>4. Reset(r) \in Requesters  BY <2>1, <2>2 DEF Requesters
    <2> QED  BY <2>3, <2>4
  <1>3. CASE ~(r.lost < AllowedLost)
    <2>1. Reset(r) = [r EXCEPT !.st = "RESET", !.rcvd = FALSE, !.capable = FALSE,
                               !.prev = FALSE, !.valid = FALSE]
      BY <1>3 DEF Reset
    <2> QED  BY <2>1 DEF Requesters
  <1> QED  BY <1>2, <1>3

LEMMA StampedFacts ==
    ASSUME NEW r \in Requesters
    PROVE  /\ Stamped(r) \in Requesters /\ Stamped(r).rcvd = r.rcvd
           /\ Stamped(r).lost = r.lost /\ Stamped(r).capable = r.capable
           /\ Stamped(r) = r \/ (r.st = "SEND" /\ Stamped(r).st = "W_RESP")
  BY DEF Stamped, Requesters

LEMMA AnsweredFacts ==
    ASSUME NEW r \in Requesters
    PROVE  /\ Answered(r) \in Requesters
           /\ \/ Answered(r) = r /\ ~(r.st = "W_RESP" /\ r.rcvd)
              \/ /\ r.st = "W_RESP" /\ r.rcvd
                 /\ \/ /\ Answered(r).st = "W_FUP" /\ Answered(r).lost = r.lost
                       /\ Answered(r).capable = r.capable
                    \/ Answered(r) = Reset(r)
  <1>1. CASE ~(r.st = "W_RESP" /\ r.rcvd)  BY <1>1 DEF Answered
  <1>2. CASE r.st = "W_RESP" /\ r.rcvd
    <2>1. CASE r.rsp.seq = r.seq  BY <1>2, <2>1 DEF Answered, Requesters
    <2>2. CASE r.rsp.seq # r.seq
      BY <1>2, <2>2, ResetFacts DEF Answered
    <2> QED  BY <2>1, <2>2
  <1> QED  BY <1>1, <1>2

LEMMA MeasureFacts ==
    ASSUME NEW r \in Requesters, NEW good \in BOOLEAN
    PROVE  /\ Measure(r, good) \in Requesters
           /\ Measure(r, good).st = "W_INTERVAL" /\ Measure(r, good).lost = 0
  <1>1. {r.t1, r.rsp.t2, r.rsp.seq, r.fup.t3, r.seq} \in SUBSET Numbers
    BY DEF Requesters
  <1>2. 0 \in 0 .. AllowedLost  BY PDelayAssumption
  <1> QED  BY <1>1, <1>2 DEF Measure, Requesters

LEMMA FollowedFacts ==
    ASSUME NEW r \in Requesters, NEW good \in BOOLEAN
    PROVE  /\ Followed(r, good) \in Requesters
           /\ \/ Followed(r, good) = r
              \/ /\ r.st = "W_FUP" /\ Followed(r, good).st = "RESET"
                 /\ ~Followed(r, good).capable
              \/ /\ r.st = "W_FUP" /\ Followed(r, good).st = "W_INTERVAL"
                 /\ Followed(r, good).lost = 0
  <1> DEFINE s == [r EXCEPT !.capable = FALSE]
  <1>1. s \in Requesters /\ s.capable = FALSE  BY DEF Requesters
  <1> HIDE DEF s
  <1>2. Reset(s) \in Requesters /\ Reset(s).st = "RESET" /\ ~Reset(s).capable
    BY <1>1, ResetFacts
  <1>3. CASE r.st # "W_FUP"  BY <1>3 DEF Followed
  <1>4. CASE r.st = "W_FUP" /\ r.rcvd /\ r.rsp.seq = r.seq
    BY <1>2, <1>4 DEF Followed, s
  <1>5. CASE r.st = "W_FUP" /\ ~(r.rcvd /\ r.rsp.seq = r.seq)
    BY <1>5, MeasureFacts DEF Followed
  <1> QED  BY <1>3, <1>4, <1>5

(* Whether a run ends in a measurement does not depend on its result. *)
LEMMA FollowedEnds ==
    ASSUME NEW r \in Requesters, NEW good \in BOOLEAN
    PROVE  (Followed(r, good).st = "W_INTERVAL") = (Followed(r, TRUE).st = "W_INTERVAL")
  <1>1. CASE r.st # "W_FUP"  BY <1>1 DEF Followed
  <1>2. CASE r.st = "W_FUP" /\ r.rcvd /\ r.rsp.seq = r.seq  BY <1>2 DEF Followed
  <1>3. CASE r.st = "W_FUP" /\ ~(r.rcvd /\ r.rsp.seq = r.seq)
    <2>1. TRUE \in BOOLEAN  OBVIOUS
    <2> QED  BY <1>3, <2>1, MeasureFacts DEF Followed
  <1> QED  BY <1>1, <1>2, <1>3

(* A run of the state machine keeps the count, and a measurement resets it. *)
LEMMA RunCounts ==
    ASSUME NEW r \in Requesters, NEW good \in BOOLEAN, NEW n \in Nat, Counts(r, n)
    PROVE  /\ Run(r, good) \in Requesters
           /\ Counts(Run(r, good), IF Measures(r) THEN 0 ELSE n)
  <1> DEFINE a == Stamped(r)
             b == Answered(a)
             c == Followed(b, good)
  <1>1. a \in Requesters /\ Counts(a, n) /\ (r.st = "W_INTERVAL" => a = r)
    BY StampedFacts DEF Counts
  <1> HIDE DEF a
  <1>2. /\ b \in Requesters /\ Counts(b, n)
        /\ r.st = "W_INTERVAL" => b = r
    <2>1. b \in Requesters  BY <1>1, AnsweredFacts
    <2>2. CASE b = a  BY <1>1, <2>1, <2>2
    <2>3. CASE /\ a.st = "W_RESP" /\ b.st = "W_FUP" /\ b.lost = a.lost
               /\ b.capable = a.capable
      BY <1>1, <2>1, <2>3 DEF Counts
    <2>4. CASE a.st = "W_RESP" /\ b = Reset(a)
      <3>1. /\ Reset(a).st = "RESET"
            /\ Reset(a).capable => a.capable /\ Reset(a).lost = a.lost + 1
        BY <1>1, ResetFacts
      <3> QED  BY <1>1, <2>1, <2>4, <3>1 DEF Counts, Requesters
    <2> QED  BY <1>1, <2>2, <2>3, <2>4, AnsweredFacts
  <1> HIDE DEF b
  <1>3. c \in Requesters  BY <1>2, FollowedFacts
  <1>4. Measures(r) = (c.st = "W_INTERVAL" /\ r.st # "W_INTERVAL")
    BY <1>2, FollowedEnds DEF Measures, Run, a, b
  <1>5. CASE c = b
    <2>1. b.st = "W_INTERVAL" /\ b.capable => n = 0  BY <1>2 DEF Counts
    <2>2. CASE Measures(r)
      BY <1>2, <1>4, <1>5, <2>1, <2>2 DEF Counts, Requesters, Run, a, b
    <2>3. CASE ~Measures(r)
      BY <1>2, <1>5, <2>3 DEF Run, a, b
    <2> QED  BY <1>3, <2>2, <2>3 DEF Run, a, b
  <1>6. CASE b.st = "W_FUP" /\ c.st = "RESET" /\ ~c.capable
    BY <1>3, <1>6 DEF Counts, Run, a, b
  <1>7. CASE b.st = "W_FUP" /\ c.st = "W_INTERVAL" /\ c.lost = 0
    <2>1. r.st # "W_INTERVAL"  BY <1>2, <1>7
    <2>2. Measures(r)  BY <1>4, <1>7, <2>1
    <2> QED  BY <1>3, <1>7, <2>2 DEF Counts, Run, a, b
  <1> QED  BY <1>2, <1>5, <1>6, <1>7, FollowedFacts

LEMMA ResentFacts ==
    ASSUME NEW r \in Requesters, NEW n \in Nat, Counts(r, n)
    PROVE  /\ Resent(r) \in Requesters /\ Resent(r).st = "SEND"
           /\ Counts(Resent(r), IF r.st = "W_INTERVAL" THEN 0 ELSE n + 1)
           /\ r.st # "W_INTERVAL" => ~Resent(r).rcvd
  <1> DEFINE s == IF Unfinished(r) THEN Cleared(Reset(r))
                  ELSE IF r.st = "RESET" THEN Cleared(r) ELSE r
  <1>1. Next1(r.seq) \in Numbers
    BY PDelayAssumption DEF Next1, Numbers, Requesters
  <1>2. ASSUME NEW x \in Requesters
        PROVE  /\ Cleared(x) \in Requesters /\ ~Cleared(x).rcvd
               /\ Cleared(x).lost = x.lost /\ Cleared(x).capable = x.capable
               /\ Cleared(x).st = x.st /\ Cleared(x).seq = x.seq
    BY DEF Cleared, Requesters
  <1>3. /\ Reset(r) \in Requesters /\ Reset(r).st = "RESET" /\ Reset(r).seq = r.seq
        /\ Reset(r).capable => r.capable /\ Reset(r).lost = r.lost + 1
    BY ResetFacts
  <1>4. /\ s \in Requesters /\ s.seq = r.seq
        /\ r.st # "W_INTERVAL" => ~s.rcvd
        /\ s.capable => IF r.st = "W_INTERVAL" THEN 0 <= s.lost ELSE n + 1 <= s.lost
    <2>1. CASE Unfinished(r)
      BY <1>2, <1>3, <2>1 DEF Unfinished, Counts, Requesters
    <2>2. CASE r.st = "RESET"
      BY <1>2, <2>2 DEF Unfinished, Counts
    <2>3. CASE r.st = "W_INTERVAL"
      BY <2>3 DEF Unfinished, Counts, Requesters
    <2> QED  BY <2>1, <2>2, <2>3 DEF Unfinished, Requesters, Counts
  <1> HIDE DEF s
  <1>5. Resent(r) = [s EXCEPT !.st = "SEND", !.seq = Next1(s.seq)]
    BY DEF Resent, s
  <1>6. /\ Resent(r) \in Requesters /\ Resent(r).st = "SEND" /\ Resent(r).rcvd = s.rcvd
        /\ Resent(r).lost = s.lost /\ Resent(r).capable = s.capable
    <2>1. Resent(r) \in Requesters
      <3>1. Next1(s.seq) \in Numbers /\ s \in Requesters  BY <1>1, <1>4
      <3> QED  BY <1>5, <3>1 DEF Requesters
    <2>2. /\ Resent(r).st = "SEND" /\ Resent(r).rcvd = s.rcvd
          /\ Resent(r).lost = s.lost /\ Resent(r).capable = s.capable
      BY <1>4, <1>5 DEF Requesters
    <2> QED  BY <2>1, <2>2
  <1>7. Counts(Resent(r), IF r.st = "W_INTERVAL" THEN 0 ELSE n + 1)
    BY <1>4, <1>6 DEF Counts
  <1> QED  BY <1>4, <1>6, <1>7

(* A request that follows a lost one measures nothing before its answer. *)
LEMMA RunIdle ==
    ASSUME NEW r \in Requesters, r.st = "SEND", ~r.rcvd, NEW good \in BOOLEAN
    PROVE  ~Measures(r)
  <1>1. /\ Stamped(r) \in Requesters /\ ~Stamped(r).rcvd
        /\ Stamped(r).st \in {"SEND", "W_RESP"}
    BY StampedFacts
  <1>2. Answered(Stamped(r)) = Stamped(r)  BY <1>1 DEF Answered
  <1>3. Followed(Stamped(r), TRUE) = Stamped(r)  BY <1>1 DEF Followed
  <1> QED  BY <1>1, <1>2, <1>3 DEF Measures, Run

-----------------------------------------------------------------------------
(***************************************************************************)
(* The actions.                                                            *)
(***************************************************************************)
LEMMA InitInv == Init => Inv
  <1> SUFFICES ASSUME Init PROVE Inv  OBVIOUS
  <1>1. 0 \in Numbers /\ 0 \in 0 .. AllowedLost
    BY PDelayAssumption DEF Numbers
  <1>2. req \in Requesters /\ resp \in Responders
    BY <1>1 DEF Init, NewReq, NewResp, Requesters, Responders
  <1>3. /\ toResp \in Seq(Numbers) /\ toReq \in Seq(Answers)
        /\ reqTs \in Seq(Numbers) /\ respTs \in Seq(Numbers)
    BY DEF Init
  <1>4. missed \in 0 .. AllowedLost + 1 /\ faults \in 0 .. MaxFaults
    BY PDelayAssumption DEF Init
  <1>5. oper \in [{"req", "resp"} -> BOOLEAN] /\ link \in BOOLEAN /\ ~oper["req"]
    BY DEF Init
  <1> QED  BY <1>2, <1>3, <1>4, <1>5 DEF Inv, TypeOK

(* Steps that leave the requester and its count alone. *)
LEMMA OthersInv ==
    ASSUME Inv, UNCHANGED <<req, missed>>, oper'["req"] = oper["req"],
           oper' \in [{"req", "resp"} -> BOOLEAN], link' \in BOOLEAN,
           resp' \in Responders, toResp' \in Seq(Numbers), toReq' \in Seq(Answers),
           reqTs' \in Seq(Numbers), respTs' \in Seq(Numbers), faults' \in 0 .. MaxFaults
    PROVE  Inv'
  BY DEF Inv, TypeOK, Counts

(* The requester takes an event in r. *)
LEMMA TakeInv ==
    ASSUME Inv, NEW r \in Requesters, Counts(r, missed), Take(r)
    PROVE  /\ req' \in Requesters /\ Counts(req', missed')
           /\ missed' \in 0 .. AllowedLost + 1 /\ faults' \in 0 .. MaxFaults
  <1>1. PICK good \in BOOLEAN :
          /\ ~good => Measures(r) /\ faults < MaxFaults
          /\ req' = Run(r, good)
          /\ missed' = IF Measures(r) THEN 0 ELSE missed
          /\ faults' = IF good THEN faults ELSE faults + 1
    BY DEF Take
  <1>2. /\ missed \in Nat /\ missed \in 0 .. AllowedLost + 1 /\ AllowedLost \in Nat
        /\ faults \in 0 .. MaxFaults /\ MaxFaults \in Nat
    BY PDelayAssumption DEF Inv, TypeOK
  <1>3. Run(r, good) \in Requesters /\ Counts(Run(r, good), IF Measures(r) THEN 0 ELSE missed)
    BY <1>2, RunCounts
  <1> QED  BY <1>1, <1>2, <1>3

LEMMA RequestTimestampInv == Inv /\ RequestTimestamp => Inv'
  <1> SUFFICES ASSUME Inv, RequestTimestamp PROVE Inv'  OBVIOUS
  <1> DEFINE r == [req EXCEPT !.t1 = Head(reqTs), !.stamped = TRUE]
  <1>1. /\ req \in Requesters /\ reqTs \in Seq(Numbers) /\ reqTs # <<>>
        /\ Head(reqTs) \in Numbers /\ Tail(reqTs) \in Seq(Numbers)
    BY DEF Inv, TypeOK, RequestTimestamp
  <1>2. /\ r \in Requesters /\ r.st = req.st /\ r.lost = req.lost
        /\ r.capable = req.capable
    BY <1>1 DEF Requesters
  <1>3. /\ reqTs' = Tail(reqTs) /\ UNCHANGED <<resp, oper, link, toResp, toReq, respTs>>
        /\ \/ ~oper["req"] /\ req' = r /\ UNCHANGED <<missed, faults>>
           \/ oper["req"] /\ Take(r)
    BY DEF RequestTimestamp
  <1> HIDE DEF r
  <1>4. /\ req' \in Requesters /\ (oper["req"] => Counts(req', missed'))
        /\ missed' \in 0 .. AllowedLost + 1 /\ faults' \in 0 .. MaxFaults
    <2>1. CASE ~oper["req"]  BY <1>2, <1>3, <2>1 DEF Inv, TypeOK
    <2>2. CASE oper["req"]
      <3>1. Counts(r, missed)  BY <1>2, <2>2 DEF Inv, Counts
      <3> QED  BY <1>2, <1>3, <2>2, <3>1, TakeInv
    <2> QED  BY <2>1, <2>2
  <1> QED  BY <1>1, <1>3, <1>4 DEF Inv, TypeOK, Counts

LEMMA ReceiveAnswerInv == Inv /\ ReceiveAnswer => Inv'
  <1> SUFFICES ASSUME Inv, ReceiveAnswer PROVE Inv'  OBVIOUS
  <1> DEFINE m == Head(toReq)
             r == Stored(req, m)
  <1>1. /\ req \in Requesters /\ toReq \in Seq(Answers) /\ toReq # <<>>
        /\ m \in Answers /\ Tail(toReq) \in Seq(Answers)
    BY DEF Inv, TypeOK, ReceiveAnswer
  <1>2. /\ r \in Requesters /\ r.st = req.st /\ r.lost = req.lost
        /\ r.capable = req.capable
    <2> HIDE DEF m
    <2>1. m.seq \in Numbers /\ m.t \in Numbers  BY <1>1 DEF Answers
    <2>2. CASE m.kind = "resp"  BY <1>1, <2>1, <2>2 DEF Stored, Requesters
    <2>3. CASE m.kind # "resp"  BY <1>1, <2>1, <2>3 DEF Stored, Requesters
    <2> QED  BY <2>2, <2>3
  <1>3. /\ toReq' = Tail(toReq) /\ UNCHANGED <<resp, oper, link, toResp, reqTs, respTs>>
        /\ \/ ~oper["req"] /\ req' = r /\ UNCHANGED <<missed, faults>>
           \/ oper["req"] /\ Take(r)
    BY DEF ReceiveAnswer
  <1> HIDE DEF r
  <1>4. /\ req' \in Requesters /\ (oper["req"] => Counts(req', missed'))
        /\ missed' \in 0 .. AllowedLost + 1 /\ faults' \in 0 .. MaxFaults
    <2>1. CASE ~oper["req"]  BY <1>2, <1>3, <2>1 DEF Inv, TypeOK
    <2>2. CASE oper["req"]
      <3>1. Counts(r, missed)  BY <1>2, <2>2 DEF Inv, Counts
      <3> QED  BY <1>2, <1>3, <2>2, <3>1, TakeInv
    <2> QED  BY <2>1, <2>2
  <1> QED  BY <1>1, <1>3, <1>4 DEF Inv, TypeOK, Counts

LEMMA RequestTimerInv == Inv /\ RequestTimer => Inv'
  <1> SUFFICES ASSUME Inv, RequestTimer PROVE Inv'  OBVIOUS
  <1>1. /\ req \in Requesters /\ toResp \in Seq(Numbers) /\ reqTs \in Seq(Numbers)
        /\ missed \in 0 .. AllowedLost + 1 /\ faults \in 0 .. MaxFaults
        /\ AllowedLost \in Nat /\ MaxFaults \in Nat /\ missed \in Nat
    BY PDelayAssumption DEF Inv, TypeOK
  <1>2. UNCHANGED <<resp, oper, link, toReq, respTs>>  BY DEF RequestTimer
  <1>3. CASE ~oper["req"]
    <2>1. req' = [req EXCEPT !.timer = FALSE] /\ UNCHANGED <<toResp, reqTs, missed, faults>>
      BY <1>3 DEF RequestTimer
    <2>2. req' \in Requesters  BY <1>1, <2>1 DEF Requesters
    <2> QED  BY <1>2, <1>3, <2>1, <2>2 DEF Inv, TypeOK
  <1>4. CASE oper["req"]
    <2> DEFINE r == Resent(req)
               n == IF req.st = "W_INTERVAL" THEN 0 ELSE missed + 1
    <2>1. /\ req' = Run(r, TRUE)
          /\ toResp' \in {toResp, Append(toResp, Next1(req.seq))}
          /\ reqTs' = Append(reqTs, Next1(req.seq))
          /\ missed' = IF req.st = "W_INTERVAL" THEN 0 ELSE Missed(missed + 1)
          /\ faults' \in 0 .. MaxFaults
      BY <1>1, <1>4 DEF RequestTimer
    <2>2. Next1(req.seq) \in Numbers
      BY <1>1, PDelayAssumption DEF Next1, Numbers, Requesters
    <2>3. toResp' \in Seq(Numbers) /\ reqTs' \in Seq(Numbers)
      BY <1>1, <2>1, <2>2
    <2>4. missed' \in 0 .. AllowedLost + 1 /\ missed' <= n /\ (n = 0 => missed' = 0)
      BY <1>1, <2>1 DEF Missed
    <2>5. /\ r \in Requesters /\ r.st = "SEND" /\ Counts(r, n)
          /\ req.st # "W_INTERVAL" => ~r.rcvd
      BY <1>1, <1>4, ResentFacts DEF Inv
    <2>6. n \in Nat  BY <1>1
    <2> HIDE DEF r
    <2>7. TRUE \in BOOLEAN  OBVIOUS
    <2>8. CASE req.st = "W_INTERVAL"
      <3>1. n = 0 /\ missed' = 0  BY <2>4, <2>8
      <3>2. Run(r, TRUE) \in Requesters /\ Counts(Run(r, TRUE), IF Measures(r) THEN 0 ELSE n)
        <4> HIDE DEF n
        <4> QED  BY <2>5, <2>6, <2>7, RunCounts
      <3>3. Counts(req', missed') /\ req' \in Requesters
        BY <2>1, <3>1, <3>2
      <3> QED  BY <1>1, <1>2, <2>1, <2>3, <2>4, <3>3 DEF Inv, TypeOK, Counts
    <2>9. CASE req.st # "W_INTERVAL"
      <3>1. ~Measures(r)  BY <2>5, <2>7, <2>9, RunIdle
      <3>2. Run(r, TRUE) \in Requesters /\ Counts(Run(r, TRUE), IF Measures(r) THEN 0 ELSE n)
        <4> HIDE DEF n
        <4> QED  BY <2>5, <2>6, <2>7, RunCounts
      <3>3. Counts(req', n) /\ req' \in Requesters  BY <2>1, <3>1, <3>2
      <3>4. n > 0  BY <1>1, <2>9
      <3> HIDE DEF n
      <3>5. Counts(req', missed')
        <4>1. req'.lost \in Int /\ missed' \in Int  BY <1>1, <2>4, <3>3 DEF Requesters
        <4> QED  BY <2>4, <2>6, <3>3, <3>4, <4>1 DEF Counts
      <3> QED  BY <1>1, <1>2, <2>1, <2>3, <2>4, <3>3, <3>5 DEF Inv, TypeOK, Counts
    <2> QED  BY <2>8, <2>9
  <1> QED  BY <1>3, <1>4

LEMMA RespondTypes ==
    ASSUME Inv, NEW s \in Responders, NEW isRequest \in BOOLEAN,
           isRequest \/ respTs # <<>>, Respond(s, isRequest)
    PROVE  resp' \in Responders /\ toReq' \in Seq(Answers) /\ respTs' \in Seq(Numbers)
  <1> DEFINE left == IF isRequest THEN respTs ELSE Tail(respTs)
  <1>1. left \in Seq(Numbers) /\ toReq \in Seq(Answers)  BY DEF Inv, TypeOK
  <1>2. s.seq \in Numbers /\ s.t3 \in Numbers  BY DEF Responders
  <1>3. ASSUME NEW kind \in {"resp", "fup"}, NEW t \in Numbers, Answer(s, kind, t)
        PROVE  toReq' \in Seq(Answers)
    <2>1. [kind |-> kind, seq |-> s.seq, t |-> t] \in Answers  BY <1>2 DEF Answers
    <2> QED  BY <1>1, <1>3, <2>1 DEF Answer
  <1>4. CASE s.st = "W_REQ" /\ s.rcvd
    <2>1. /\ resp' = [s EXCEPT !.st = "W_TS", !.rcvd = FALSE]
          /\ Answer(s, "resp", s.seq) /\ respTs' = Append(left, s.seq)
      BY <1>4 DEF Respond
    <2>2. resp' \in Responders  BY <2>1 DEF Responders
    <2>3. toReq' \in Seq(Answers)  BY <1>2, <1>3, <2>1
    <2> HIDE DEF left
    <2>4. respTs' \in Seq(Numbers)  BY <1>1, <1>2, <2>1
    <2> QED  BY <2>2, <2>3, <2>4
  <1>5. CASE s.st = "W_TS" /\ s.stamped
    <2>1. /\ resp' = [s EXCEPT !.st = "W_REQ", !.stamped = FALSE]
          /\ Answer(s, "fup", s.t3) /\ respTs' = left
      BY <1>5 DEF Respond
    <2> QED  BY <1>1, <1>2, <1>3, <2>1 DEF Responders
  <1>6. CASE ~(s.st = "W_REQ" /\ s.rcvd) /\ ~(s.st = "W_TS" /\ s.stamped)
    <2>1. /\ resp' \in {s, [s EXCEPT !.st = "W_REQ", !.rcvd = FALSE]}
          /\ respTs' = left /\ toReq' = toReq
      BY <1>6 DEF Respond
    <2> QED  BY <1>1, <2>1 DEF Responders
  <1> QED  BY <1>4, <1>5, <1>6

LEMMA ReceiveRequestInv == Inv /\ ReceiveRequest => Inv'
  <1> SUFFICES ASSUME Inv, ReceiveRequest PROVE Inv'  OBVIOUS
  <1> DEFINE s == [resp EXCEPT !.seq = Head(toResp), !.rcvd = TRUE]
  <1>1. s \in Responders /\ Tail(toResp) \in Seq(Numbers)
    <2>1. Head(toResp) \in Numbers /\ Tail(toResp) \in Seq(Numbers)
      BY DEF ReceiveRequest, Inv, TypeOK
    <2> QED  BY <2>1 DEF Inv, TypeOK, Responders
  <1>2. Respond(s, TRUE) /\ toResp' = Tail(toResp)  BY DEF ReceiveRequest
  <1> HIDE DEF s
  <1>3. resp' \in Responders /\ toReq' \in Seq(Answers) /\ respTs' \in Seq(Numbers)
    BY <1>1, <1>2, RespondTypes
  <1> QED  BY <1>1, <1>2, <1>3, OthersInv DEF ReceiveRequest, Inv, TypeOK

LEMMA ResponseTimestampInv == Inv /\ ResponseTimestamp => Inv'
  <1> SUFFICES ASSUME Inv, ResponseTimestamp PROVE Inv'  OBVIOUS
  <1> DEFINE s == [resp EXCEPT !.t3 = Head(respTs), !.stamped = TRUE]
  <1>1. s \in Responders
    <2>1. Head(respTs) \in Numbers  BY DEF ResponseTimestamp, Inv, TypeOK
    <2> QED  BY <2>1 DEF Inv, TypeOK, Responders
  <1>2. Respond(s, FALSE) /\ respTs # <<>>  BY DEF ResponseTimestamp
  <1> HIDE DEF s
  <1>3. resp' \in Responders /\ toReq' \in Seq(Answers) /\ respTs' \in Seq(Numbers)
    BY <1>1, <1>2, RespondTypes
  <1> QED  BY <1>3, OthersInv DEF ResponseTimestamp, Inv, TypeOK

LEMMA RequesterUpInv == Inv /\ RequesterUp => Inv'
  <1> SUFFICES ASSUME Inv, RequesterUp PROVE Inv'  OBVIOUS
  <1>1. PICK q \in Numbers : /\ req' = InitialSend(req, q)
                             /\ toResp' = Append(toResp, q)
                             /\ reqTs' = Append(reqTs, q)
    BY DEF RequesterUp, Numbers
  <1>2. 0 \in 0 .. AllowedLost /\ 0 \in 0 .. AllowedLost + 1  BY PDelayAssumption
  <1>3. req' \in Requesters  BY <1>1, <1>2 DEF InitialSend, Inv, TypeOK, Requesters
  <1>4. req'.capable = FALSE /\ req'.st = "SEND"
    BY <1>1 DEF InitialSend, Inv, TypeOK, Requesters
  <1>5. /\ missed' = 0 /\ UNCHANGED <<resp, link, toReq, respTs, faults>>
        /\ oper' = [oper EXCEPT !["req"] = TRUE]
    BY DEF RequesterUp
  <1>6. oper' \in [{"req", "resp"} -> BOOLEAN]  BY <1>5 DEF Inv, TypeOK
  <1>7. toResp' \in Seq(Numbers) /\ reqTs' \in Seq(Numbers)
    BY <1>1 DEF Inv, TypeOK
  <1> QED  BY <1>2, <1>3, <1>4, <1>5, <1>6, <1>7 DEF Inv, TypeOK, Counts

LEMMA RequesterDownInv == Inv /\ RequesterDown => Inv'
  <1> SUFFICES ASSUME Inv, RequesterDown PROVE Inv'  OBVIOUS
  <1>1. /\ req' \in Requesters /\ oper' \in [{"req", "resp"} -> BOOLEAN]
        /\ ~oper'["req"]
    BY DEF RequesterDown, Inv, TypeOK, Requesters
  <1> QED  BY <1>1 DEF RequesterDown, Inv, TypeOK

LEMMA ResponderChangeInv == Inv /\ ResponderChange => Inv'
  <1> SUFFICES ASSUME Inv, ResponderChange PROVE Inv'  OBVIOUS
  <1>1. /\ oper' \in [{"req", "resp"} -> BOOLEAN] /\ oper'["req"] = oper["req"]
    BY DEF ResponderChange, Inv, TypeOK
  <1>2. resp' \in Responders  BY DEF ResponderChange, Inv, TypeOK, Responders
  <1> QED  BY <1>1, <1>2, OthersInv DEF ResponderChange, Inv, TypeOK

LEMMA FaultsInv == Inv /\ (LinkChange \/ Lose \/ Duplicate) => Inv'
  <1> SUFFICES ASSUME Inv, LinkChange \/ Lose \/ Duplicate PROVE Inv'  OBVIOUS
  <1>1. faults' \in 0 .. MaxFaults
    BY PDelayAssumption DEF LinkChange, Lose, Duplicate, Fault, Inv, TypeOK
  <1>2. /\ UNCHANGED <<req, resp, oper, missed>> /\ link' \in BOOLEAN
    BY DEF LinkChange, Lose, Duplicate, Inv, TypeOK
  <1>3. /\ toResp' \in Seq(Numbers) /\ toReq' \in Seq(Answers)
        /\ reqTs' \in Seq(Numbers) /\ respTs' \in Seq(Numbers)
    <2>1. CASE LinkChange  BY <2>1 DEF LinkChange, Inv, TypeOK
    <2>2. CASE Lose
      <3>1. /\ toResp # <<>> => Tail(toResp) \in Seq(Numbers)
            /\ toReq # <<>> => Tail(toReq) \in Seq(Answers)
            /\ reqTs # <<>> => Tail(reqTs) \in Seq(Numbers)
            /\ respTs # <<>> => Tail(respTs) \in Seq(Numbers)
        BY DEF Inv, TypeOK
      <3>2. /\ toResp' = toResp \/ (toResp # <<>> /\ toResp' = Tail(toResp))
            /\ toReq' = toReq \/ (toReq # <<>> /\ toReq' = Tail(toReq))
            /\ reqTs' = reqTs \/ (reqTs # <<>> /\ reqTs' = Tail(reqTs))
            /\ respTs' = respTs \/ (respTs # <<>> /\ respTs' = Tail(respTs))
        BY <2>2 DEF Lose
      <3>3. /\ toResp \in Seq(Numbers) /\ toReq \in Seq(Answers)
            /\ reqTs \in Seq(Numbers) /\ respTs \in Seq(Numbers)
        BY DEF Inv, TypeOK
      <3> HIDE DEF Numbers, Answers
      <3> QED  BY <3>1, <3>2, <3>3
    <2>3. CASE Duplicate
      <3>1. toReq \in Seq(Answers) /\ toReq # <<>>  BY <2>3 DEF Duplicate, Inv, TypeOK
      <3>2. <<Head(toReq)>> \in Seq(Answers)  BY <3>1
      <3>3. toReq' \in Seq(Answers)  BY <2>3, <3>1, <3>2 DEF Duplicate
      <3> QED  BY <2>3, <3>3 DEF Duplicate, Inv, TypeOK
    <2> QED  BY <2>1, <2>2, <2>3
  <1> QED  BY <1>1, <1>2, <1>3, OthersInv DEF Inv, TypeOK

LEMMA StepInv == Inv /\ [Next]_vars => Inv'
  <1> SUFFICES ASSUME Inv, [Next]_vars PROVE Inv'  OBVIOUS
  <1>1. CASE UNCHANGED vars  BY <1>1 DEF vars, Inv, TypeOK, Counts
  <1> QED
    BY <1>1, RequestTimerInv, RequestTimestampInv, ReceiveAnswerInv, ReceiveRequestInv,
       ResponseTimestampInv, RequesterUpInv, RequesterDownInv, ResponderChangeInv, FaultsInv
    DEF Next, Station

-----------------------------------------------------------------------------
LEMMA Invariance == Spec => []Inv
  BY InitInv, StepInv, PTL DEF Spec

(***************************************************************************)
(* The variables of requester, responder and link have their types; in     *)
(* particular lostResponses never passes allowedLostResponses.             *)
(***************************************************************************)
THEOREM PDelayTypeOK == Spec => []TypeOK
  <1>1. Inv => TypeOK  BY DEF Inv
  <1> QED  BY <1>1, Invariance, PTL

(***************************************************************************)
(* A port stays capable through at most AllowedLost consecutive exchanges  *)
(* without a measurement, whatever is lost, late, duplicated or answered   *)
(* out of turn.                                                            *)
(***************************************************************************)
THEOREM PDelayCapableIsRecent == Spec => []CapableIsRecent
  <1>1. Inv => CapableIsRecent
    <2> SUFFICES ASSUME Inv, req.capable, oper["req"] PROVE missed <= AllowedLost
      BY DEF CapableIsRecent
    <2>1. /\ req.lost \in 0 .. AllowedLost /\ missed \in 0 .. AllowedLost + 1
          /\ AllowedLost \in Nat
      BY PDelayAssumption DEF Inv, TypeOK, Requesters
    <2> QED  BY <2>1 DEF Inv, Counts
  <1> QED  BY <1>1, Invariance, PTL

-----------------------------------------------------------------------------
(***************************************************************************)
(* A measurement is of one exchange.                                       *)
(*                                                                         *)
(* Frames stay in order, so what is on its way is as old as its place in   *)
(* the queues says: an answer is older than the answers behind it and than *)
(* every request not yet answered.  Its age is the number of requests sent *)
(* since the one it answers, counted round the sequence numbers.           *)
(***************************************************************************)
Age(s, x) == IF x <= s THEN s - x ELSE s - x + Seqs

(* A follow-up whose timestamp is of another response than its number      *)
(* says: the responder sends one when the timestamp of an earlier response *)
(* reaches it after its link came back.                                    *)
Stray(m) == m.kind = "fup" /\ m.t # m.seq

Tracked(m) == m.kind = "resp" \/ Stray(m)

RespondsTo(m) == m.kind = "resp" => m.t = m.seq

(* No answer and no request on its way can still lead to a response. *)
Quiet(q, p) == p = <<>> /\ \A i \in 1 .. Len(q) : ~Tracked(q[i])

(* Only copies of the response to the request s are on their way. *)
Current(s, q, p) ==
    p = <<>> /\ \A i \in 1 .. Len(q) : Tracked(q[i]) => q[i].kind = "resp" /\ q[i].seq = s

Aged(s, q, p, f) ==
    /\ \A i \in 1 .. Len(q) : RespondsTo(q[i]) /\ (Tracked(q[i]) => Age(s, q[i].seq) <= f)
    /\ \A i \in 1 .. Len(p) : Age(s, p[i]) <= f

Older(s, m, n) ==
    /\ Age(s, m.seq) >= Age(s, n.seq)
    /\ Stray(m) \/ Stray(n) => Age(s, m.seq) > Age(s, n.seq)

InOrder(s, q, p) ==
    /\ \A i, j \in 1 .. Len(q) :
         i < j /\ Tracked(q[i]) /\ Tracked(q[j]) => Older(s, q[i], q[j])
    /\ \A i \in 1 .. Len(q), j \in 1 .. Len(p) :
         Tracked(q[i]) => Age(s, q[i].seq) > Age(s, p[j])
    /\ \A i, j \in 1 .. Len(p) : i < j => Age(s, p[i]) > Age(s, p[j])

Queued(s, q, p, f) == Aged(s, q, p, f) /\ InOrder(s, q, p)

-----------------------------------------------------------------------------
(***************************************************************************)
(* Ages.                                                                   *)
(***************************************************************************)
LEMMA AgeFacts ==
    ASSUME NEW s \in Numbers, NEW x \in Numbers
    PROVE  /\ Age(s, x) \in Nat /\ Age(s, x) < Seqs
           /\ (Age(s, x) = 0) <=> (x = s)
  BY PDelayAssumption DEF Age, Numbers

LEMMA Next1Facts ==
    ASSUME NEW s \in Numbers
    PROVE  /\ Next1(s) \in Numbers
           /\ Next1(s) = IF s + 1 < Seqs THEN s + 1 ELSE 0
           /\ Seqs > 1 => Next1(s) # s
  <1>1. Seqs \in Nat /\ Seqs > 0 /\ s \in 0 .. Seqs - 1
    BY PDelayAssumption DEF Numbers
  <1>2. CASE s + 1 < Seqs
    <2>1. (s + 1) % Seqs = s + 1  BY <1>1, <1>2
    <2> QED  BY <1>1, <1>2, <2>1 DEF Next1, Numbers
  <1>3. CASE ~(s + 1 < Seqs)
    <2>1. s + 1 = Seqs  BY <1>1, <1>3
    <2>2. Seqs % Seqs = 0  BY <1>1
    <2> QED  BY <1>1, <1>3, <2>1, <2>2 DEF Next1, Numbers
  <1> QED  BY <1>2, <1>3

LEMMA AgeNext ==
    ASSUME NEW s \in Numbers, NEW x \in Numbers, Age(s, x) + 1 < Seqs
    PROVE  Age(Next1(s), x) = Age(s, x) + 1
  <1>1. Seqs \in Nat /\ Seqs > 0 /\ s \in 0 .. Seqs - 1 /\ x \in 0 .. Seqs - 1
    BY PDelayAssumption DEF Numbers
  <1>2. Next1(s) = IF s + 1 < Seqs THEN s + 1 ELSE 0  BY Next1Facts
  <1> QED  BY <1>1, <1>2 DEF Age

-----------------------------------------------------------------------------
(***************************************************************************)
(* What a step does to the queues.                                         *)
(***************************************************************************)
LEMMA TailIs ==
    ASSUME NEW S, NEW q \in Seq(S), q # <<>>
    PROVE  /\ Tail(q) \in Seq(S) /\ Len(Tail(q)) = Len(q) - 1 /\ Len(q) \in Nat
           /\ 1 \in 1 .. Len(q) /\ Head(q) = q[1]
           /\ \A i \in 1 .. Len(Tail(q)) : i + 1 \in 1 .. Len(q) /\ Tail(q)[i] = q[i + 1]
  OBVIOUS

LEMMA AppendIs ==
    ASSUME NEW S, NEW q \in Seq(S), NEW m \in S
    PROVE  /\ Append(q, m) \in Seq(S) /\ Len(Append(q, m)) = Len(q) + 1 /\ Len(q) \in Nat
           /\ \A i \in 1 .. Len(Append(q, m)) :
                \/ i \in 1 .. Len(q) /\ Append(q, m)[i] = q[i]
                \/ i = Len(q) + 1 /\ Append(q, m)[i] = m
  OBVIOUS

LEMMA TwiceIs ==
    ASSUME NEW S, NEW q \in Seq(S), q # <<>>
    PROVE  /\ (<<Head(q)>> \o q) \in Seq(S)
           /\ Len(<<Head(q)>> \o q) = Len(q) + 1 /\ Len(q) \in Nat
           /\ \A i \in 1 .. Len(<<Head(q)>> \o q) :
                \/ i = 1 /\ (<<Head(q)>> \o q)[i] = q[1] /\ 1 \in 1 .. Len(q)
                \/ i - 1 \in 1 .. Len(q) /\ (<<Head(q)>> \o q)[i] = q[i - 1]
  <1>1. Head(q) = q[1] /\ 1 \in 1 .. Len(q) /\ Len(q) \in Nat /\ Head(q) \in S  OBVIOUS
  <1> DEFINE h == <<Head(q)>>
  <1>2. h \in Seq(S) /\ Len(h) = 1 /\ h[1] = q[1]  BY <1>1
  <1> HIDE DEF h
  <1>3. (h \o q) \in Seq(S) /\ Len(h \o q) = Len(q) + 1
    <2>1. (h \o q) \in Seq(S) /\ Len(h \o q) = Len(h) + Len(q)
      BY <1>2, ConcatProperties
    <2> QED  BY <1>1, <1>2, <2>1
  <1>4. ASSUME NEW i \in 1 .. Len(h \o q)
        PROVE  \/ i = 1 /\ (h \o q)[i] = q[1] /\ 1 \in 1 .. Len(q)
               \/ i - 1 \in 1 .. Len(q) /\ (h \o q)[i] = q[i - 1]
    BY <1>1, <1>2, <1>3
  <1> QED  BY <1>1, <1>3, <1>4 DEF h

LEMMA InFlightTypes ==
    ASSUME NEW q \in Seq(Answers), NEW p \in Seq(Numbers)
    PROVE  /\ \A i \in 1 .. Len(q) : q[i] \in Answers /\ q[i].seq \in Numbers
           /\ \A i \in 1 .. Len(p) : p[i] \in Numbers
           /\ Len(q) \in Nat /\ Len(p) \in Nat
  <1>1. \A m \in Answers : m.seq \in Numbers  BY DEF Answers
  <1>2. \A i \in 1 .. Len(q) : q[i] \in Answers  OBVIOUS
  <1>3. \A i \in 1 .. Len(p) : p[i] \in Numbers  OBVIOUS
  <1> QED  BY <1>1, <1>2, <1>3

(* More faults allow greater ages. *)
LEMMA QueuedMore ==
    ASSUME NEW s \in Numbers, NEW q \in Seq(Answers), NEW p \in Seq(Numbers),
           NEW f \in Nat, NEW g \in Nat, f <= g, Queued(s, q, p, f)
    PROVE  Queued(s, q, p, g)
  <1>1. /\ \A i \in 1 .. Len(q) : Age(s, q[i].seq) \in Nat
        /\ \A i \in 1 .. Len(p) : Age(s, p[i]) \in Nat
    BY InFlightTypes, AgeFacts
  <1>2. Aged(s, q, p, g)  BY <1>1 DEF Queued, Aged
  <1> QED  BY <1>2 DEF Queued

(* An answer is taken from its queue. *)
LEMMA QueuedTail ==
    ASSUME NEW s \in Numbers, NEW q \in Seq(Answers), NEW p \in Seq(Numbers),
           NEW f \in Nat, q # <<>>, Queued(s, q, p, f)
    PROVE  Queued(s, Tail(q), p, f)
  <1> DEFINE t == Tail(q)
  <1>1. /\ Len(t) \in Nat
        /\ \A i \in 1 .. Len(t) : i + 1 \in 1 .. Len(q) /\ t[i] = q[i + 1]
    BY TailIs
  <1> HIDE DEF t
  <1>2. Aged(s, t, p, f)  BY <1>1 DEF Queued, Aged
  <1>3. \A i, j \in 1 .. Len(t) :
          i < j /\ Tracked(t[i]) /\ Tracked(t[j]) => Older(s, t[i], t[j])
    <2> SUFFICES ASSUME NEW i \in 1 .. Len(t), NEW j \in 1 .. Len(t), i < j,
                        Tracked(t[i]), Tracked(t[j])
                 PROVE  Older(s, t[i], t[j])
      OBVIOUS
    <2>1. i + 1 \in 1 .. Len(q) /\ j + 1 \in 1 .. Len(q) /\ i + 1 < j + 1  BY <1>1
    <2> QED  BY <1>1, <2>1 DEF Queued, InOrder
  <1>4. \A i \in 1 .. Len(t), j \in 1 .. Len(p) :
          Tracked(t[i]) => Age(s, t[i].seq) > Age(s, p[j])
    BY <1>1 DEF Queued, InOrder
  <1> QED  BY <1>2, <1>3, <1>4 DEF Queued, InOrder, t

(* A request is taken from its queue. *)
LEMMA QueuedDrop ==
    ASSUME NEW s \in Numbers, NEW q \in Seq(Answers), NEW p \in Seq(Numbers),
           NEW f \in Nat, p # <<>>, Queued(s, q, p, f)
    PROVE  Queued(s, q, Tail(p), f)
  <1> DEFINE t == Tail(p)
  <1>1. /\ Len(t) \in Nat
        /\ \A i \in 1 .. Len(t) : i + 1 \in 1 .. Len(p) /\ t[i] = p[i + 1]
    BY TailIs
  <1> HIDE DEF t
  <1>2. Aged(s, q, t, f)  BY <1>1 DEF Queued, Aged
  <1>3. \A i, j \in 1 .. Len(t) : i < j => Age(s, t[i]) > Age(s, t[j])
    <2> SUFFICES ASSUME NEW i \in 1 .. Len(t), NEW j \in 1 .. Len(t), i < j
                 PROVE  Age(s, t[i]) > Age(s, t[j])
      OBVIOUS
    <2>1. i + 1 \in 1 .. Len(p) /\ j + 1 \in 1 .. Len(p) /\ i + 1 < j + 1  BY <1>1
    <2> QED  BY <1>1, <2>1 DEF Queued, InOrder
  <1>4. \A i \in 1 .. Len(q), j \in 1 .. Len(t) :
          Tracked(q[i]) => Age(s, q[i].seq) > Age(s, t[j])
    BY <1>1 DEF Queued, InOrder
  <1> QED  BY <1>2, <1>3, <1>4 DEF Queued, InOrder, t

(* An answer that is not tracked is queued. *)
LEMMA QueuedGood ==
    ASSUME NEW s \in Numbers, NEW q \in Seq(Answers), NEW p \in Seq(Numbers),
           NEW f \in Nat, NEW m \in Answers, ~Tracked(m), Queued(s, q, p, f)
    PROVE  Queued(s, Append(q, m), p, f)
  <1> DEFINE t == Append(q, m)
  <1>1. \A i \in 1 .. Len(t) : \/ i \in 1 .. Len(q) /\ t[i] = q[i]
                               \/ ~Tracked(t[i])
    BY AppendIs
  <1> HIDE DEF t
  <1>2. Aged(s, t, p, f)
    <2>1. \A i \in 1 .. Len(t) : RespondsTo(t[i]) /\ (Tracked(t[i]) => Age(s, t[i].seq) <= f)
      BY <1>1 DEF Queued, Aged, RespondsTo, Tracked
    <2> QED  BY <2>1 DEF Queued, Aged
  <1>3. InOrder(s, t, p)  BY <1>1 DEF Queued, InOrder
  <1> QED  BY <1>2, <1>3 DEF Queued, t

(* The oldest request is answered. *)
LEMMA QueuedAnswer ==
    ASSUME NEW s \in Numbers, NEW q \in Seq(Answers), NEW p \in Seq(Numbers),
           NEW f \in Nat, p # <<>>, NEW m \in Answers, m.seq = Head(p),
           RespondsTo(m), Queued(s, q, p, f)
    PROVE  Queued(s, Append(q, m), Tail(p), f)
  <1> DEFINE t == Append(q, m)
             u == Tail(p)
  <1>1. \A i \in 1 .. Len(t) : \/ i \in 1 .. Len(q) /\ t[i] = q[i]
                               \/ i = Len(q) + 1 /\ t[i] = m
    BY AppendIs
  <1>2. /\ Len(q) \in Nat
        /\ 1 \in 1 .. Len(p) /\ m.seq = p[1]
        /\ \A i \in 1 .. Len(u) : i + 1 \in 1 .. Len(p) /\ u[i] = p[i + 1] /\ 1 < i + 1
    BY TailIs, InFlightTypes
  <1>3. Queued(s, q, u, f)  BY QueuedDrop
  <1> HIDE DEF t, u
  <1>4. Age(s, m.seq) <= f  BY <1>2 DEF Queued, Aged
  <1>5. \A i \in 1 .. Len(q) : Tracked(q[i]) => Age(s, q[i].seq) > Age(s, m.seq)
    BY <1>2 DEF Queued, InOrder
  <1>6. \A j \in 1 .. Len(u) : Age(s, m.seq) > Age(s, u[j])
    BY <1>2 DEF Queued, InOrder
  <1>7. Aged(s, t, u, f)  BY <1>1, <1>3, <1>4 DEF Queued, Aged
  <1>8. \A i, j \in 1 .. Len(t) :
          i < j /\ Tracked(t[i]) /\ Tracked(t[j]) => Older(s, t[i], t[j])
    <2> SUFFICES ASSUME NEW i \in 1 .. Len(t), NEW j \in 1 .. Len(t), i < j,
                        Tracked(t[i]), Tracked(t[j])
                 PROVE  Older(s, t[i], t[j])
      OBVIOUS
    <2>1. CASE j \in 1 .. Len(q) /\ t[j] = q[j]
      <3>1. i \in 1 .. Len(q) /\ t[i] = q[i]  BY <1>1, <1>2, <2>1
      <3> QED  BY <2>1, <3>1, <1>3 DEF Queued, InOrder
    <2>2. CASE j = Len(q) + 1 /\ t[j] = m
      <3>1. i \in 1 .. Len(q) /\ t[i] = q[i]  BY <1>1, <1>2, <2>2
      <3>2. Age(s, t[i].seq) > Age(s, t[j].seq)  BY <1>5, <2>2, <3>1
      <3>3. Age(s, t[i].seq) \in Nat /\ Age(s, t[j].seq) \in Nat
        <4>1. t[i].seq \in Numbers  BY <3>1, InFlightTypes
        <4>2. t[j].seq \in Numbers  BY <2>2 DEF Answers
        <4> QED  BY <4>1, <4>2, AgeFacts
      <3> QED  BY <3>2, <3>3 DEF Older
    <2> QED  BY <1>1, <2>1, <2>2
  <1>9. \A i \in 1 .. Len(t), j \in 1 .. Len(u) :
          Tracked(t[i]) => Age(s, t[i].seq) > Age(s, u[j])
    BY <1>1, <1>3, <1>6 DEF Queued, InOrder
  <1> QED  BY <1>3, <1>7, <1>8, <1>9 DEF Queued, InOrder, t, u

(* A response is delivered twice. *)
LEMMA QueuedTwice ==
    ASSUME NEW s \in Numbers, NEW q \in Seq(Answers), NEW p \in Seq(Numbers),
           NEW f \in Nat, q # <<>>, Head(q).kind = "resp", Queued(s, q, p, f)
    PROVE  Queued(s, <<Head(q)>> \o q, p, f)
  <1> DEFINE t == <<Head(q)>> \o q
  <1>1. /\ Len(q) \in Nat /\ Len(t) = Len(q) + 1 /\ Head(q) = q[1]
        /\ \A i \in 1 .. Len(t) :
             \/ i = 1 /\ t[i] = q[1] /\ 1 \in 1 .. Len(q)
             \/ i - 1 \in 1 .. Len(q) /\ t[i] = q[i - 1]
    BY TwiceIs
  <1> HIDE DEF t
  <1>2. Aged(s, t, p, f)
    <2>1. \A i \in 1 .. Len(t) : RespondsTo(t[i]) /\ (Tracked(t[i]) => Age(s, t[i].seq) <= f)
      <3> TAKE i \in 1 .. Len(t)
      <3>1. CASE i = 1 /\ t[i] = q[1] /\ 1 \in 1 .. Len(q)  BY <3>1 DEF Queued, Aged
      <3>2. CASE i - 1 \in 1 .. Len(q) /\ t[i] = q[i - 1]  BY <3>2 DEF Queued, Aged
      <3> QED  BY <1>1, <3>1, <3>2
    <2> QED  BY <2>1 DEF Queued, Aged
  <1>3. \A i, j \in 1 .. Len(t) :
          i < j /\ Tracked(t[i]) /\ Tracked(t[j]) => Older(s, t[i], t[j])
    <2> SUFFICES ASSUME NEW i \in 1 .. Len(t), NEW j \in 1 .. Len(t), i < j,
                        Tracked(t[i]), Tracked(t[j])
                 PROVE  Older(s, t[i], t[j])
      OBVIOUS
    <2>1. j - 1 \in 1 .. Len(q) /\ t[j] = q[j - 1]  BY <1>1
    <2>2. CASE i = 1 /\ t[i] = q[1] /\ 1 \in 1 .. Len(q)
      <3>1. CASE j - 1 = 1
        <4>1. t[i] = t[j] /\ t[i].kind = "resp"  BY <1>1, <2>1, <2>2, <3>1
        <4>2. Age(s, t[i].seq) \in Nat  BY <2>2, InFlightTypes, AgeFacts
        <4> QED  BY <4>1, <4>2 DEF Older, Stray
      <3>2. CASE 1 < j - 1  BY <2>1, <2>2, <3>2 DEF Queued, InOrder
      <3> QED  BY <2>1, <3>1, <3>2
    <2>3. CASE i - 1 \in 1 .. Len(q) /\ t[i] = q[i - 1]
      <3>1. i - 1 < j - 1  BY <1>1
      <3> QED  BY <2>1, <2>3, <3>1 DEF Queued, InOrder
    <2> QED  BY <1>1, <2>2, <2>3
  <1>4. \A i \in 1 .. Len(t), j \in 1 .. Len(p) :
          Tracked(t[i]) => Age(s, t[i].seq) > Age(s, p[j])
    <2> SUFFICES ASSUME NEW i \in 1 .. Len(t), NEW j \in 1 .. Len(p), Tracked(t[i])
                 PROVE  Age(s, t[i].seq) > Age(s, p[j])
      OBVIOUS
    <2>1. CASE i = 1 /\ t[i] = q[1] /\ 1 \in 1 .. Len(q)  BY <2>1 DEF Queued, InOrder
    <2>2. CASE i - 1 \in 1 .. Len(q) /\ t[i] = q[i - 1]  BY <2>2 DEF Queued, InOrder
    <2> QED  BY <1>1, <2>1, <2>2
  <1> QED  BY <1>2, <1>3, <1>4 DEF Queued, InOrder, t

(* A request leaves while others, or answers, are on their way: a fault. *)
LEMMA QueuedNext ==
    ASSUME NEW s \in Numbers, NEW q \in Seq(Answers), NEW p \in Seq(Numbers),
           NEW f \in Nat, f + 1 < Seqs, Queued(s, q, p, f)
    PROVE  /\ Queued(Next1(s), q, p, f + 1)
           /\ Queued(Next1(s), q, Append(p, Next1(s)), f + 1)
  <1> DEFINE n == Next1(s)
             t == Append(p, n)
  <1>1. n \in Numbers  BY Next1Facts
  <1>2. \A i \in 1 .. Len(t) : \/ i \in 1 .. Len(p) /\ t[i] = p[i]
                               \/ i = Len(p) + 1 /\ t[i] = n
    BY <1>1, AppendIs
  <1>3. ASSUME NEW x \in Numbers, Age(s, x) <= f
        PROVE  Age(n, x) = Age(s, x) + 1 /\ Age(s, x) \in Nat
    <2>1. Age(s, x) \in Nat /\ Age(s, x) + 1 < Seqs
      BY <1>3, AgeFacts, PDelayAssumption
    <2> QED  BY <2>1, AgeNext
  <1>4. Age(n, n) = 0  BY <1>1, AgeFacts
  <1> HIDE DEF n, t
  <1>5. \A i \in 1 .. Len(q) : Tracked(q[i]) =>
          /\ Age(n, q[i].seq) = Age(s, q[i].seq) + 1 /\ Age(s, q[i].seq) \in Nat
          /\ Age(s, q[i].seq) <= f
    BY <1>3, InFlightTypes DEF Queued, Aged
  <1>6. \A i \in 1 .. Len(p) :
          /\ Age(n, p[i]) = Age(s, p[i]) + 1 /\ Age(s, p[i]) \in Nat /\ Age(s, p[i]) <= f
    BY <1>3, InFlightTypes DEF Queued, Aged
  <1>7. \A i \in 1 .. Len(q) :
          RespondsTo(q[i]) /\ (Tracked(q[i]) => Age(n, q[i].seq) <= f + 1)
    <2> TAKE i \in 1 .. Len(q)
    <2>1. RespondsTo(q[i])  BY DEF Queued, Aged
    <2> QED  BY <1>5, <2>1
  <1>8. \A i, j \in 1 .. Len(q) :
          i < j /\ Tracked(q[i]) /\ Tracked(q[j]) => Older(n, q[i], q[j])
    <2> SUFFICES ASSUME NEW i \in 1 .. Len(q), NEW j \in 1 .. Len(q), i < j,
                        Tracked(q[i]), Tracked(q[j])
                 PROVE  Older(n, q[i], q[j])
      OBVIOUS
    <2>1. Older(s, q[i], q[j])  BY DEF Queued, InOrder
    <2> QED  BY <1>5, <2>1 DEF Older
  <1>9. \A i \in 1 .. Len(q), j \in 1 .. Len(p) :
          Tracked(q[i]) => Age(n, q[i].seq) > Age(n, p[j])
    <2> SUFFICES ASSUME NEW i \in 1 .. Len(q), NEW j \in 1 .. Len(p), Tracked(q[i])
                 PROVE  Age(n, q[i].seq) > Age(n, p[j])
      OBVIOUS
    <2>1. Age(s, q[i].seq) > Age(s, p[j])  BY DEF Queued, InOrder
    <2> QED  BY <1>5, <1>6, <2>1
  <1>10. \A i, j \in 1 .. Len(p) : i < j => Age(n, p[i]) > Age(n, p[j])
    <2> SUFFICES ASSUME NEW i \in 1 .. Len(p), NEW j \in 1 .. Len(p), i < j
                 PROVE  Age(n, p[i]) > Age(n, p[j])
      OBVIOUS
    <2>1. Age(s, p[i]) > Age(s, p[j])  BY DEF Queued, InOrder
    <2> QED  BY <1>6, <2>1
  <1>11. Queued(n, q, p, f + 1)
    <2>1. \A i \in 1 .. Len(p) : Age(n, p[i]) <= f + 1  BY <1>6
    <2> QED  BY <1>7, <1>8, <1>9, <1>10, <2>1 DEF Queued, Aged, InOrder
  <1>12. Queued(n, q, t, f + 1)
    <2>1. \A i \in 1 .. Len(t) : Age(n, t[i]) <= f + 1  BY <1>2, <1>4, <1>6
    <2>2. \A i \in 1 .. Len(q), j \in 1 .. Len(t) :
            Tracked(q[i]) => Age(n, q[i].seq) > Age(n, t[j])
      <3> SUFFICES ASSUME NEW i \in 1 .. Len(q), NEW j \in 1 .. Len(t), Tracked(q[i])
                   PROVE  Age(n, q[i].seq) > Age(n, t[j])
        OBVIOUS
      <3>1. CASE j \in 1 .. Len(p) /\ t[j] = p[j]  BY <1>9, <3>1
      <3>2. CASE t[j] = n  BY <1>4, <1>5, <3>2
      <3> QED  BY <1>2, <3>1, <3>2
    <2>3. \A i, j \in 1 .. Len(t) : i < j => Age(n, t[i]) > Age(n, t[j])
      <3> SUFFICES ASSUME NEW i \in 1 .. Len(t), NEW j \in 1 .. Len(t), i < j
                   PROVE  Age(n, t[i]) > Age(n, t[j])
        OBVIOUS
      <3>1. i \in 1 .. Len(p) /\ t[i] = p[i]
        <4>1. Len(p) \in Nat /\ Len(t) = Len(p) + 1  BY <1>1, AppendIs DEF t
        <4> QED  BY <1>2, <4>1
      <3>2. CASE j \in 1 .. Len(p) /\ t[j] = p[j]  BY <1>10, <3>1, <3>2
      <3>3. CASE t[j] = n  BY <1>4, <1>6, <3>1, <3>3
      <3> QED  BY <1>2, <3>2, <3>3
    <2> QED  BY <1>7, <1>8, <2>1, <2>2, <2>3 DEF Queued, Aged, InOrder
  <1> QED  BY <1>11, <1>12 DEF n, t

(* The first request sent when no tracked answer is on its way. *)
LEMMA QueuedFirst ==
    ASSUME NEW s \in Numbers, NEW q \in Seq(Answers), NEW f \in Nat,
           \A i \in 1 .. Len(q) : ~Tracked(q[i])
    PROVE  Queued(s, q, <<>>, f) /\ Queued(s, q, Append(<<>>, s), f)
  <1>1. Len(<<>>) = 0  OBVIOUS
  <1>2. \A i \in 1 .. Len(Append(<<>>, s)) : i = 1 /\ Append(<<>>, s)[i] = s
    OBVIOUS
  <1>3. Age(s, s) = 0  BY AgeFacts
  <1>4. \A i \in 1 .. Len(q) : RespondsTo(q[i])  BY DEF Tracked, RespondsTo
  <1>5. Aged(s, q, <<>>, f) /\ InOrder(s, q, <<>>)  BY <1>1, <1>4 DEF Aged, InOrder
  <1> DEFINE t == Append(<<>>, s)
  <1> HIDE DEF t
  <1>6. \A i \in 1 .. Len(t) : i = 1 /\ t[i] = s  BY <1>2 DEF t
  <1>7. Aged(s, q, t, f)  BY <1>3, <1>4, <1>6 DEF Aged
  <1>8. InOrder(s, q, t)
    <2>1. \A i, j \in 1 .. Len(t) : ~(i < j)  BY <1>6
    <2> QED  BY <2>1 DEF InOrder
  <1> QED  BY <1>5, <1>7, <1>8 DEF Queued, t

(***************************************************************************)
(* What comes first is the oldest: behind the response to the last request *)
(* are only copies of it, behind a stray follow-up of it there is nothing. *)
(***************************************************************************)
LEMMA HeadIsOldest ==
    ASSUME NEW s \in Numbers, NEW q \in Seq(Answers), NEW p \in Seq(Numbers),
           NEW f \in Nat, q # <<>>, Queued(s, q, p, f),
           Tracked(Head(q)), Head(q).seq = s
    PROVE  /\ Current(s, Tail(q), p)
           /\ Stray(Head(q)) => Quiet(Tail(q), p)
  <1> DEFINE t == Tail(q)
             h == Head(q)
  <1>1. /\ 1 \in 1 .. Len(q) /\ h = q[1]
        /\ \A i \in 1 .. Len(t) : i + 1 \in 1 .. Len(q) /\ t[i] = q[i + 1] /\ 1 < i + 1
    BY TailIs
  <1>2. Age(s, h.seq) = 0  BY AgeFacts
  <1>3. Tracked(h)  OBVIOUS
  <1> HIDE DEF t, h
  <1>4. p = <<>>
    <2>1. \A j \in 1 .. Len(p) : FALSE
      <3> TAKE j \in 1 .. Len(p)
      <3>1. Age(s, h.seq) > Age(s, p[j])  BY <1>1, <1>3 DEF Queued, InOrder
      <3>2. Age(s, p[j]) \in Nat  BY InFlightTypes, AgeFacts
      <3> QED  BY <1>2, <3>1, <3>2
    <2> QED  BY <2>1
  <1>5. \A i \in 1 .. Len(t) : Tracked(t[i]) =>
          /\ Age(s, t[i].seq) = 0 /\ ~Stray(h) /\ ~Stray(t[i]) /\ t[i].seq = s
    <2> SUFFICES ASSUME NEW i \in 1 .. Len(t), Tracked(t[i])
                 PROVE  /\ Age(s, t[i].seq) = 0 /\ ~Stray(h) /\ ~Stray(t[i])
                        /\ t[i].seq = s
      OBVIOUS
    <2>1. Older(s, h, t[i])  BY <1>1, <1>3 DEF Queued, InOrder
    <2>2. t[i].seq \in Numbers  BY <1>1, InFlightTypes
    <2>3. Age(s, t[i].seq) \in Nat /\ (Age(s, t[i].seq) = 0 <=> t[i].seq = s)
      BY <2>2, AgeFacts
    <2> QED  BY <1>2, <2>1, <2>3 DEF Older
  <1>6. Current(s, t, p)  BY <1>4, <1>5 DEF Current, Tracked
  <1>7. Stray(h) => Quiet(t, p)  BY <1>4, <1>5 DEF Quiet
  <1> QED  BY <1>6, <1>7 DEF t, h

LEMMA TailKeeps ==
    ASSUME NEW s, NEW q \in Seq(Answers), NEW p, q # <<>>
    PROVE  /\ Quiet(q, p) => Quiet(Tail(q), p) /\ ~Tracked(Head(q))
           /\ Current(s, q, p) =>
                /\ Current(s, Tail(q), p)
                /\ Tracked(Head(q)) => Head(q).kind = "resp" /\ Head(q).seq = s
  <1> DEFINE t == Tail(q)
  <1>1. /\ 1 \in 1 .. Len(q) /\ Head(q) = q[1]
        /\ \A i \in 1 .. Len(t) : i + 1 \in 1 .. Len(q) /\ t[i] = q[i + 1]
    BY TailIs
  <1> HIDE DEF t
  <1>2. Quiet(q, p) => Quiet(t, p) /\ ~Tracked(Head(q))  BY <1>1 DEF Quiet
  <1>3. Current(s, q, p) => Current(s, t, p)  BY <1>1 DEF Current
  <1>4. Current(s, q, p) /\ Tracked(Head(q)) => Head(q).kind = "resp" /\ Head(q).seq = s
    BY <1>1 DEF Current
  <1> QED  BY <1>2, <1>3, <1>4 DEF t

LEMMA GoodKeeps ==
    ASSUME NEW s, NEW q \in Seq(Answers), NEW p, NEW m \in Answers, ~Tracked(m)
    PROVE  /\ Quiet(q, p) => Quiet(Append(q, m), p)
           /\ Current(s, q, p) => Current(s, Append(q, m), p)
  <1> DEFINE t == Append(q, m)
  <1>1. \A i \in 1 .. Len(t) : \/ i \in 1 .. Len(q) /\ t[i] = q[i]
                               \/ ~Tracked(t[i])
    BY AppendIs
  <1> HIDE DEF t
  <1>2. Quiet(q, p) => Quiet(t, p)  BY <1>1 DEF Quiet
  <1>3. Current(s, q, p) => Current(s, t, p)  BY <1>1 DEF Current
  <1> QED  BY <1>2, <1>3 DEF t

LEMMA TwiceKeeps ==
    ASSUME NEW s, NEW q \in Seq(Answers), NEW p, q # <<>>, Head(q).kind = "resp"
    PROVE  /\ ~Quiet(q, p)
           /\ Current(s, q, p) => Current(s, <<Head(q)>> \o q, p)
  <1> DEFINE t == <<Head(q)>> \o q
  <1>1. /\ 1 \in 1 .. Len(q) /\ Head(q) = q[1]  BY TailIs
  <1>2. \A i \in 1 .. Len(t) : \E j \in 1 .. Len(q) : t[i] = q[j]
    <2> TAKE i \in 1 .. Len(t)
    <2>1. \/ i = 1 /\ t[i] = q[1] /\ 1 \in 1 .. Len(q)
          \/ i - 1 \in 1 .. Len(q) /\ t[i] = q[i - 1]
      BY TwiceIs
    <2> QED  BY <2>1
  <1> HIDE DEF t
  <1>3. Current(s, q, p) => Current(s, t, p)  BY <1>2 DEF Current
  <1> QED  BY <1>1, <1>3 DEF t, Quiet, Tracked

-----------------------------------------------------------------------------
(***************************************************************************)
(* The requester.  Between events it has used its flags up; while it waits *)
(* for the follow-up it holds the response to its last request, and no     *)
(* other response can reach it any more.  A stray follow-up is never       *)
(* followed by the response that would let it be used.                     *)
(***************************************************************************)
StrayStored(r) == r.followed /\ r.fup.seq = r.seq /\ r.fup.t3 # r.seq

Holds(r) == r.rcvd /\ r.rsp.seq = r.seq

(* What the requester is in when its state machine runs on an event. *)
Ready(r, q, p) ==
    /\ r.stamped => r.st = "SEND" /\ r.t1 = r.seq
    /\ r.st \in {"W_RESP", "W_FUP"} => r.t1 = r.seq
    /\ r.st \in {"W_FUP", "W_INTERVAL"} => r.rsp.seq = r.seq /\ Current(r.seq, q, p)
    /\ r.st = "W_FUP" => ~StrayStored(r)
    /\ r.st = "W_INTERVAL" /\ r.followed => r.fup.t3 = r.fup.seq
    /\ r.st \in {"SEND", "W_RESP"} /\ Holds(r) => Current(r.seq, q, p)
    /\ r.st \in {"SEND", "W_RESP"} /\ StrayStored(r) => Quiet(q, p) /\ ~Holds(r)

Exchange(r, q, p) ==
    /\ Ready(r, q, p)
    /\ ~r.stamped
    /\ r.st \in {"W_RESP", "W_FUP"} => ~r.rcvd

OneExchange(r) == r.rsp.t2 = r.rsp.seq /\ (\A a, b \in r.meas : a = b)

LEMMA StampedReady ==
    ASSUME NEW r \in Requesters, NEW q, NEW p, Ready(r, q, p), OneExchange(r)
    PROVE  LET x == Stamped(r)
           IN  /\ x \in Requesters /\ Ready(x, q, p) /\ OneExchange(x) /\ ~x.stamped
               /\ x.seq = r.seq
               /\ r.st = "SEND" /\ ~r.stamped => x = r
               /\ x.st = "SEND" => x = r
  <1>1. CASE ~(r.st = "SEND" /\ r.stamped)
    <2>1. Stamped(r) = r  BY <1>1 DEF Stamped
    <2>2. ~r.stamped  BY <1>1 DEF Ready, Requesters
    <2> QED  BY <2>1, <2>2
  <1>2. CASE r.st = "SEND" /\ r.stamped
    <2> DEFINE x == [r EXCEPT !.st = "W_RESP", !.stamped = FALSE]
    <2>1. Stamped(r) = x  BY <1>2 DEF Stamped
    <2>2. /\ x \in Requesters /\ x.st = "W_RESP" /\ x.stamped = FALSE /\ x.seq = r.seq
          /\ x.t1 = r.t1 /\ x.rsp = r.rsp /\ x.rcvd = r.rcvd /\ x.fup = r.fup
          /\ x.followed = r.followed /\ x.meas = r.meas
      BY DEF Requesters
    <2> HIDE DEF x
    <2>3. (Holds(x) <=> Holds(r)) /\ (StrayStored(x) <=> StrayStored(r))
      BY <2>2 DEF Holds, StrayStored
    <2>4. Ready(x, q, p)
      <3>1. r.t1 = r.seq  BY <1>2 DEF Ready
      <3> QED  BY <1>2, <2>2, <2>3, <3>1 DEF Ready
    <2>5. OneExchange(x)  BY <2>2 DEF OneExchange
    <2> QED  BY <1>2, <2>1, <2>2, <2>4, <2>5
  <1> QED  BY <1>1, <1>2

(* A machine in RESET promises nothing. *)
LEMMA ResetReady ==
    ASSUME NEW r \in Requesters, NEW q, NEW p, ~r.stamped, OneExchange(r)
    PROVE  LET x == Reset(r)
           IN  /\ x \in Requesters /\ x.st = "RESET" /\ Exchange(x, q, p)
               /\ OneExchange(x) /\ ~x.stamped /\ x.seq = r.seq
  <1> DEFINE x == Reset(r)
  <1>1. x \in Requesters /\ x.st = "RESET" /\ x.seq = r.seq  BY ResetFacts
  <1>2. x.stamped = r.stamped /\ x.rsp = r.rsp /\ x.meas = r.meas
    <2>1. CASE r.lost < AllowedLost  BY <2>1 DEF Reset, Requesters
    <2>2. CASE ~(r.lost < AllowedLost)  BY <2>2 DEF Reset, Requesters
    <2> QED  BY <2>1, <2>2
  <1> HIDE DEF x
  <1>3. Exchange(x, q, p)  BY <1>1, <1>2 DEF Exchange, Ready
  <1>4. OneExchange(x)  BY <1>2 DEF OneExchange
  <1> QED  BY <1>1, <1>2, <1>3, <1>4 DEF x

LEMMA AnsweredReady ==
    ASSUME NEW r \in Requesters, NEW q, NEW p, Ready(r, q, p), OneExchange(r), ~r.stamped
    PROVE  LET x == Answered(r)
           IN  /\ x \in Requesters /\ Ready(x, q, p) /\ OneExchange(x) /\ ~x.stamped
               /\ x.seq = r.seq /\ ~(x.st = "W_RESP" /\ x.rcvd)
               /\ r.st = "SEND" => x = r
               /\ x.st = "SEND" => x = r
  <1>1. CASE ~(r.st = "W_RESP" /\ r.rcvd)  BY <1>1 DEF Answered
  <1>2. CASE r.st = "W_RESP" /\ r.rcvd /\ r.rsp.seq = r.seq
    <2> DEFINE x == [r EXCEPT !.st = "W_FUP", !.rcvd = FALSE]
    <2>1. Answered(r) = x  BY <1>2 DEF Answered
    <2>2. /\ x \in Requesters /\ x.st = "W_FUP" /\ x.stamped = r.stamped /\ x.seq = r.seq
          /\ x.t1 = r.t1 /\ x.rsp = r.rsp /\ x.rcvd = FALSE /\ x.fup = r.fup
          /\ x.followed = r.followed /\ x.meas = r.meas
      BY DEF Requesters
    <2> HIDE DEF x
    <2>3. Holds(r) /\ (StrayStored(x) <=> StrayStored(r))
      BY <1>2, <2>2 DEF Holds, StrayStored
    <2>4. r.t1 = r.seq /\ Current(r.seq, q, p) /\ ~StrayStored(r)
      BY <1>2, <2>3 DEF Ready
    <2>5. Ready(x, q, p)  BY <1>2, <2>2, <2>3, <2>4 DEF Ready
    <2>6. OneExchange(x)  BY <2>2 DEF OneExchange
    <2> QED  BY <1>2, <2>1, <2>2, <2>5, <2>6
  <1>3. CASE r.st = "W_RESP" /\ r.rcvd /\ r.rsp.seq # r.seq
    <2>1. Answered(r) = Reset(r)  BY <1>3 DEF Answered
    <2> QED  BY <1>3, <2>1, ResetReady DEF Exchange
  <1> QED  BY <1>1, <1>2, <1>3

LEMMA FollowedExchange ==
    ASSUME NEW r \in Requesters, NEW q, NEW p, Ready(r, q, p), OneExchange(r), ~r.stamped,
           ~(r.st = "W_RESP" /\ r.rcvd), NEW good \in BOOLEAN
    PROVE  LET x == Followed(r, good)
           IN  /\ Exchange(x, q, p) /\ OneExchange(x) /\ x.seq = r.seq
               /\ r.st = "SEND" => x = r
               /\ x.st = "SEND" => x = r
  <1>1. CASE r.st # "W_FUP"
    <2>1. Followed(r, good) = r  BY <1>1 DEF Followed
    <2>2. Exchange(r, q, p)  BY <1>1 DEF Exchange
    <2> QED  BY <2>1, <2>2
  <1>2. CASE r.st = "W_FUP" /\ r.rcvd
    <2> DEFINE y == [r EXCEPT !.capable = FALSE]
    <2>1. /\ y \in Requesters /\ y.stamped = r.stamped /\ y.rsp = r.rsp /\ y.meas = r.meas
          /\ y.seq = r.seq
      BY DEF Requesters
    <2>2. r.rsp.seq = r.seq  BY <1>2 DEF Ready
    <2>3. Followed(r, good) = Reset(y)  BY <1>2, <2>2 DEF Followed
    <2> HIDE DEF y
    <2>4. OneExchange(y) /\ ~y.stamped  BY <2>1 DEF OneExchange
    <2> QED  BY <1>2, <2>1, <2>3, <2>4, ResetReady
  <1>3. CASE r.st = "W_FUP" /\ ~r.rcvd /\ ~(r.followed /\ r.fup.seq = r.seq)
    <2>1. Followed(r, good) = r  BY <1>3 DEF Followed
    <2>2. Exchange(r, q, p)  BY <1>3 DEF Exchange
    <2> QED  BY <2>1, <2>2
  <1>4. CASE r.st = "W_FUP" /\ ~r.rcvd /\ r.followed /\ r.fup.seq = r.seq
    <2> DEFINE x == Measure(r, good)
    <2>1. Followed(r, good) = x  BY <1>4 DEF Followed
    <2>2. /\ x.st = "W_INTERVAL" /\ x.stamped = r.stamped /\ x.seq = r.seq
          /\ x.rsp = r.rsp /\ x.followed = FALSE
          /\ x.meas = {r.t1, r.rsp.t2, r.rsp.seq, r.fup.t3, r.seq}
      BY DEF Measure, Requesters
    <2>3. /\ r.t1 = r.seq /\ r.rsp.seq = r.seq /\ Current(r.seq, q, p) /\ ~StrayStored(r)
      BY <1>4 DEF Ready
    <2>4. r.rsp.t2 = r.seq /\ r.fup.t3 = r.seq
      BY <1>4, <2>3 DEF OneExchange, StrayStored
    <2> HIDE DEF x
    <2>5. \A a, b \in x.meas : a = b  BY <2>2, <2>3, <2>4
    <2>6. OneExchange(x)  BY <2>2, <2>5 DEF OneExchange
    <2>7. Exchange(x, q, p)  BY <2>2, <2>3 DEF Exchange, Ready
    <2> QED  BY <1>4, <2>1, <2>2, <2>6, <2>7
  <1> QED  BY <1>1, <1>2, <1>3, <1>4

LEMMA RunExchange ==
    ASSUME NEW r \in Requesters, NEW q, NEW p, Ready(r, q, p), OneExchange(r),
           NEW good \in BOOLEAN
    PROVE  /\ Exchange(Run(r, good), q, p) /\ OneExchange(Run(r, good))
           /\ Run(r, good).seq = r.seq
           /\ r.st = "SEND" /\ ~r.stamped => Run(r, good) = r
  <1> DEFINE a == Stamped(r)
             b == Answered(a)
             c == Followed(b, good)
  <1>1. /\ a \in Requesters /\ Ready(a, q, p) /\ OneExchange(a) /\ ~a.stamped
        /\ a.seq = r.seq /\ (r.st = "SEND" /\ ~r.stamped => a = r)
    BY StampedReady
  <1> HIDE DEF a
  <1>2. /\ b \in Requesters /\ Ready(b, q, p) /\ OneExchange(b) /\ ~b.stamped
        /\ b.seq = a.seq /\ ~(b.st = "W_RESP" /\ b.rcvd) /\ (a.st = "SEND" => b = a)
    BY <1>1, AnsweredReady
  <1> HIDE DEF b
  <1>3. /\ Exchange(c, q, p) /\ OneExchange(c) /\ c.seq = b.seq
        /\ b.st = "SEND" => c = b
    BY <1>2, FollowedExchange
  <1>4. Run(r, good) = c  BY DEF Run, a, b
  <1> HIDE DEF c
  <1> QED  BY <1>1, <1>2, <1>3, <1>4

-----------------------------------------------------------------------------
(***************************************************************************)
(* The invariant: the queues are in order; with the link or the requester  *)
(* down nothing that counts is on its way; a transmit timestamp to come is *)
(* that of the last request, or of the last response.                      *)
(***************************************************************************)
Responder(s, ts) ==
    /\ ts # <<>> => ts = <<s.seq>> /\ (s.st = "W_REQ" => ~s.rcvd)
    /\ s.st = "W_TS" => ~s.rcvd

MatchInv ==
    /\ Queued(req.seq, toReq, toResp, faults)
    /\ ~link \/ ~oper["req"] => Quiet(toReq, toResp)
    /\ reqTs # <<>> => reqTs = <<req.seq>> /\ (oper["req"] => req.st = "SEND")
    /\ Responder(resp, respTs)
    /\ OneExchange(req)
    /\ oper["req"] => Exchange(req, toReq, toResp)

LEMMA InitMatch == Init => MatchInv
  <1> SUFFICES ASSUME Init PROVE MatchInv  OBVIOUS
  <1>1. /\ toReq = <<>> /\ toResp = <<>> /\ reqTs = <<>> /\ respTs = <<>>
        /\ ~oper["req"] /\ faults = 0
    BY DEF Init
  <1>2. req.rsp.t2 = req.rsp.seq /\ req.meas = {} /\ resp.st = "NOT_ENABLED"
    BY DEF Init, NewReq, NewResp
  <1>3. Queued(req.seq, toReq, toResp, faults) /\ Quiet(toReq, toResp)
    BY <1>1 DEF Queued, Aged, InOrder, Quiet
  <1> QED  BY <1>1, <1>2, <1>3 DEF MatchInv, Responder, OneExchange

LEMMA Types ==
    ASSUME Inv
    PROVE  /\ req \in Requesters /\ req.seq \in Numbers /\ resp \in Responders
           /\ toReq \in Seq(Answers) /\ toResp \in Seq(Numbers) /\ reqTs \in Seq(Numbers)
           /\ respTs \in Seq(Numbers) /\ faults \in Nat /\ faults <= MaxFaults
           /\ oper \in [{"req", "resp"} -> BOOLEAN]
           /\ oper["req"] => req.st # "NOT_ENABLED"
  BY PDelayAssumption DEF Inv, TypeOK, Requesters, Counts

(* An event that sets the requester to r before its machine runs. *)
LEMMA TakeMatch ==
    ASSUME NEW r \in Requesters, NEW q, NEW p, Ready(r, q, p), OneExchange(r), Take(r),
           faults \in Nat
    PROVE  /\ Exchange(req', q, p) /\ OneExchange(req') /\ req'.seq = r.seq
           /\ r.st = "SEND" /\ ~r.stamped => req' = r
           /\ faults' \in Nat /\ faults <= faults'
  <1>1. PICK good \in BOOLEAN : /\ req' = Run(r, good)
                                /\ faults' = IF good THEN faults ELSE faults + 1
    BY DEF Take
  <1>2. faults' \in Nat /\ faults <= faults'  BY <1>1
  <1> QED  BY <1>1, <1>2, RunExchange

LEMMA RequestTimestampMatch == Inv /\ MatchInv /\ RequestTimestamp => MatchInv'
  <1> SUFFICES ASSUME Inv, MatchInv, RequestTimestamp PROVE MatchInv'  OBVIOUS
  <1> DEFINE r == [req EXCEPT !.t1 = Head(reqTs), !.stamped = TRUE]
  <1>1. /\ reqTs # <<>> /\ reqTs' = Tail(reqTs)
        /\ UNCHANGED <<resp, oper, link, toResp, toReq, respTs>>
        /\ \/ ~oper["req"] /\ req' = r /\ UNCHANGED <<missed, faults>>
           \/ oper["req"] /\ Take(r)
    BY DEF RequestTimestamp
  <1>2. reqTs = <<req.seq>> /\ (oper["req"] => req.st = "SEND")
    BY <1>1 DEF MatchInv
  <1>3. Head(reqTs) = req.seq /\ reqTs' = <<>>  BY <1>1, <1>2
  <1>4. /\ r \in Requesters /\ r.st = req.st /\ r.seq = req.seq /\ r.t1 = req.seq
        /\ r.stamped = TRUE /\ r.rsp = req.rsp /\ r.rcvd = req.rcvd /\ r.fup = req.fup
        /\ r.followed = req.followed /\ r.meas = req.meas
    BY <1>3, Types DEF Requesters
  <1> HIDE DEF r
  <1>5. (Holds(r) <=> Holds(req)) /\ (StrayStored(r) <=> StrayStored(req)) /\ OneExchange(r)
    BY <1>4 DEF Holds, StrayStored, OneExchange, MatchInv
  <1>6. CASE ~oper["req"]
    <2>1. req' = r /\ faults' = faults  BY <1>1, <1>6
    <2> QED  BY <1>1, <1>3, <1>4, <1>5, <1>6, <2>1 DEF MatchInv
  <1>7. CASE oper["req"]
    <2>1. Exchange(req, toReq, toResp)  BY <1>7 DEF MatchInv
    <2>2. Ready(r, toReq, toResp)
      BY <1>2, <1>4, <1>5, <1>7, <2>1 DEF Exchange, Ready
    <2>3. /\ Exchange(req', toReq, toResp) /\ OneExchange(req') /\ req'.seq = r.seq
          /\ faults' \in Nat /\ faults <= faults'
      BY <1>1, <1>4, <1>5, <1>7, <2>2, Types, TakeMatch
    <2>4. Queued(req.seq, toReq, toResp, faults')
      BY <2>3, Types, QueuedMore DEF MatchInv
    <2> QED  BY <1>1, <1>3, <1>4, <1>7, <2>3, <2>4 DEF MatchInv
  <1> QED  BY <1>6, <1>7

LEMMA ReceiveAnswerMatch == Inv /\ MatchInv /\ ReceiveAnswer => MatchInv'
  <1> SUFFICES ASSUME Inv, MatchInv, ReceiveAnswer PROVE MatchInv'  OBVIOUS
  <1> DEFINE m == Head(toReq)
             q == Tail(toReq)
             r == Stored(req, m)
  <1>1. /\ toReq # <<>> /\ toReq' = q
        /\ UNCHANGED <<resp, oper, link, toResp, reqTs, respTs>>
        /\ \/ ~oper["req"] /\ req' = r /\ UNCHANGED <<missed, faults>>
           \/ oper["req"] /\ Take(r)
    BY DEF ReceiveAnswer
  <1>2. /\ toReq \in Seq(Answers) /\ toResp \in Seq(Numbers) /\ req.seq \in Numbers
        /\ req \in Requesters /\ faults \in Nat /\ m \in Answers
    BY <1>1, Types
  <1>3. Queued(req.seq, toReq, toResp, faults)  BY DEF MatchInv
  <1>4. Queued(req.seq, q, toResp, faults)  BY <1>1, <1>2, <1>3, QueuedTail
  <1>5. RespondsTo(m)
    <2>1. 1 \in 1 .. Len(toReq) /\ m = toReq[1]  BY <1>1, <1>2, TailIs
    <2> QED  BY <1>3, <2>1 DEF Queued, Aged
  <1>6. /\ Quiet(toReq, toResp) => Quiet(q, toResp) /\ ~Tracked(m)
        /\ Current(req.seq, toReq, toResp) =>
             /\ Current(req.seq, q, toResp)
             /\ Tracked(m) => m.kind = "resp" /\ m.seq = req.seq
    BY <1>1, <1>2, TailKeeps
  <1>7. Tracked(m) /\ m.seq = req.seq =>
          Current(req.seq, q, toResp) /\ (Stray(m) => Quiet(q, toResp))
    BY <1>1, <1>2, <1>3, HeadIsOldest
  <1>8. m.seq \in Numbers /\ m.t \in Numbers /\ m.kind \in {"resp", "fup"}
    BY <1>2 DEF Answers
  <1> HIDE DEF m, q
  <1>9. /\ r \in Requesters /\ r.st = req.st /\ r.seq = req.seq /\ r.t1 = req.t1
        /\ r.stamped = req.stamped /\ r.meas = req.meas
        /\ m.kind = "resp" => /\ r.rsp = [seq |-> m.seq, t2 |-> m.t] /\ r.rcvd = TRUE
                              /\ r.fup = req.fup /\ r.followed = req.followed
        /\ m.kind = "fup" => /\ r.fup = [seq |-> m.seq, t3 |-> m.t] /\ r.followed = TRUE
                             /\ r.rsp = req.rsp /\ r.rcvd = req.rcvd
    <2>1. CASE m.kind = "resp"  BY <1>2, <1>8, <2>1 DEF Stored, Requesters
    <2>2. CASE m.kind = "fup"  BY <1>2, <1>8, <2>2 DEF Stored, Requesters
    <2> QED  BY <1>8, <2>1, <2>2
  <1> HIDE DEF r
  <1>10. OneExchange(r)
    <2>1. OneExchange(req)  BY DEF MatchInv
    <2>2. CASE m.kind = "resp"
      <3>1. r.rsp.t2 = m.t /\ r.rsp.seq = m.seq  BY <1>9, <2>2
      <3> QED  BY <1>5, <1>9, <2>1, <2>2, <3>1 DEF OneExchange, RespondsTo
    <2>3. CASE m.kind = "fup"  BY <1>9, <2>1, <2>3 DEF OneExchange
    <2> QED  BY <1>8, <2>2, <2>3
  <1>11. CASE ~oper["req"]
    <2>1. req' = r /\ faults' = faults  BY <1>1, <1>11
    <2>2. Quiet(q, toResp)  BY <1>6, <1>11 DEF MatchInv
    <2> QED  BY <1>1, <1>4, <1>9, <1>10, <1>11, <2>1, <2>2 DEF MatchInv
  <1>12. CASE oper["req"]
    <2>1. Exchange(req, toReq, toResp)  BY <1>12 DEF MatchInv
    <2>2. Ready(r, q, toResp)
      <3>1. CASE m.kind = "resp"
        <4>1. r.rsp.seq = m.seq /\ Tracked(m)  BY <1>9, <3>1 DEF Tracked
        <4>2. StrayStored(r) <=> StrayStored(req)  BY <1>9, <3>1 DEF StrayStored
        <4>3. Holds(r) <=> m.seq = req.seq  BY <1>9, <3>1, <4>1 DEF Holds
        <4> QED  BY <1>6, <1>7, <1>9, <2>1, <3>1, <4>1, <4>2, <4>3 DEF Exchange, Ready
      <3>2. CASE m.kind = "fup"
        <4>1. r.fup.seq = m.seq /\ r.fup.t3 = m.t  BY <1>9, <3>2
        <4>2. StrayStored(r) <=> Stray(m) /\ m.seq = req.seq
          BY <1>9, <3>2, <4>1 DEF StrayStored, Stray
        <4>3. Holds(r) <=> Holds(req)  BY <1>9, <3>2 DEF Holds
        <4>4. Current(req.seq, toReq, toResp) => ~Stray(m)
          BY <1>6, <3>2 DEF Tracked
        <4>5. ~Stray(m) => r.fup.t3 = r.fup.seq  BY <3>2, <4>1 DEF Stray
        <4>6. Stray(m) => Tracked(m)  BY DEF Tracked
        <4>7. req.st \in {"SEND", "W_RESP"} /\ Holds(req) => Current(req.seq, toReq, toResp)
          BY <2>1 DEF Exchange, Ready
        <4>8. r.st \in {"SEND", "W_RESP"} /\ StrayStored(r) => Quiet(q, toResp) /\ ~Holds(r)
          BY <1>7, <1>9, <4>2, <4>3, <4>4, <4>6, <4>7
        <4>9. r.st \in {"SEND", "W_RESP"} /\ Holds(r) => Current(r.seq, q, toResp)
          BY <1>6, <1>9, <4>3, <4>7
        <4>10. /\ r.st \in {"W_FUP", "W_INTERVAL"} =>
                    /\ r.rsp.seq = r.seq /\ Current(r.seq, q, toResp) /\ ~Stray(m)
          BY <1>6, <1>9, <2>1, <3>2, <4>4 DEF Exchange, Ready
        <4>11. /\ r.stamped => r.st = "SEND" /\ r.t1 = r.seq
               /\ r.st \in {"W_RESP", "W_FUP"} => r.t1 = r.seq
          BY <1>9, <2>1 DEF Exchange, Ready
        <4> QED  BY <4>2, <4>5, <4>8, <4>9, <4>10, <4>11 DEF Ready
      <3> QED  BY <1>8, <3>1, <3>2
    <2>3. /\ Exchange(req', q, toResp) /\ OneExchange(req') /\ req'.seq = r.seq
          /\ r.st = "SEND" /\ ~r.stamped => req' = r
          /\ faults' \in Nat /\ faults <= faults'
      BY <1>1, <1>2, <1>9, <1>10, <1>12, <2>2, TakeMatch
    <2>4. Queued(req.seq, q, toResp, faults')
      <3>1. q \in Seq(Answers)  BY <1>1, <1>2, TailIs DEF q
      <3> QED  BY <1>2, <1>4, <2>3, <3>1, QueuedMore
    <2>5. reqTs # <<>> => reqTs = <<req'.seq>> /\ req'.st = "SEND"
      <3>1. ~req.stamped  BY <2>1 DEF Exchange
      <3> QED  BY <1>9, <1>12, <2>3, <3>1 DEF MatchInv
    <2>6. ~link => Quiet(q, toResp)  BY <1>6 DEF MatchInv
    <2> QED  BY <1>1, <1>9, <1>12, <2>3, <2>4, <2>5, <2>6 DEF MatchInv
  <1> QED  BY <1>11, <1>12

(* A new request: what the last exchange left can not be taken for its own. *)
LEMMA ResentExchange ==
    ASSUME NEW r \in Requesters, NEW q, NEW p, NEW u, NEW v, Exchange(r, q, p),
           OneExchange(r), r.st # "NOT_ENABLED", Seqs > 1
    PROVE  /\ Resent(r) \in Requesters /\ Exchange(Resent(r), u, v)
           /\ OneExchange(Resent(r)) /\ Resent(r).st = "SEND"
           /\ Resent(r).seq = Next1(r.seq)
  <1> DEFINE s == IF Unfinished(r) THEN Cleared(Reset(r))
                  ELSE IF r.st = "RESET" THEN Cleared(r) ELSE r
             x == [s EXCEPT !.st = "SEND", !.seq = Next1(s.seq)]
  <1>1. r.seq \in Numbers /\ Next1(r.seq) \in Numbers /\ Next1(r.seq) # r.seq
    <2>1. r.seq \in Numbers  BY DEF Requesters
    <2> QED  BY <2>1, Next1Facts
  <1>2. ASSUME NEW y \in Requesters
        PROVE  /\ Cleared(y) \in Requesters /\ ~Cleared(y).rcvd /\ ~Cleared(y).followed
               /\ Cleared(y).stamped = y.stamped /\ Cleared(y).rsp = y.rsp
               /\ Cleared(y).meas = y.meas /\ Cleared(y).seq = y.seq
               /\ Cleared(y).fup = y.fup
    BY DEF Cleared, Requesters
  <1>3. ~r.stamped  BY DEF Exchange
  <1>4. /\ Reset(r) \in Requesters /\ Reset(r).seq = r.seq /\ ~Reset(r).stamped
        /\ OneExchange(Reset(r))
    BY <1>3, ResetReady
  <1>5. /\ s \in Requesters /\ s.seq = r.seq /\ ~s.stamped /\ OneExchange(s)
        /\ s.rcvd => s.rsp.seq = r.seq
        /\ s.followed => s.fup.t3 = s.fup.seq
    <2>1. CASE Unfinished(r)
      BY <1>2, <1>4, <2>1 DEF OneExchange
    <2>2. CASE r.st = "RESET"
      BY <1>2, <1>3, <2>2 DEF Unfinished, OneExchange
    <2>3. CASE r.st = "W_INTERVAL"
      <3>1. s = r  BY <2>3 DEF Unfinished
      <3>2. r.rsp.seq = r.seq /\ (r.followed => r.fup.t3 = r.fup.seq)
        BY <2>3 DEF Exchange, Ready
      <3> QED  BY <1>3, <3>1, <3>2
    <2> QED  BY <2>1, <2>2, <2>3 DEF Unfinished, Requesters
  <1>6. Resent(r) = x  BY DEF Resent
  <1> HIDE DEF s
  <1>7. /\ x \in Requesters /\ x.st = "SEND" /\ x.seq = Next1(r.seq) /\ x.rsp = s.rsp
        /\ x.stamped = s.stamped /\ x.rcvd = s.rcvd /\ x.followed = s.followed
        /\ x.fup = s.fup /\ x.meas = s.meas
    <2>1. Next1(s.seq) \in Numbers  BY <1>1, <1>5
    <2> QED  BY <1>5, <2>1 DEF Requesters
  <1> HIDE DEF x
  <1>8. ~Holds(x) /\ ~StrayStored(x)
    BY <1>1, <1>5, <1>7 DEF Holds, StrayStored
  <1>9. Exchange(x, u, v)  BY <1>5, <1>7, <1>8 DEF Exchange, Ready
  <1>10. OneExchange(x)  BY <1>5, <1>7 DEF OneExchange
  <1> QED  BY <1>6, <1>7, <1>9, <1>10

LEMMA RequestTimerMatch ==
    ASSUME ~LateTimestamps, Seqs > 1, MaxFaults < Seqs, Inv, Inv', MatchInv, RequestTimer
    PROVE  MatchInv'
  <1>1. /\ reqTs = <<>> /\ respTs = <<>>
        /\ UNCHANGED <<resp, oper, link, toReq, respTs>>
    BY DEF RequestTimer
  <1>2. CASE ~oper["req"]
    <2>1. req' = [req EXCEPT !.timer = FALSE] /\ UNCHANGED <<toResp, reqTs, faults>>
      BY <1>2 DEF RequestTimer
    <2>2. req'.seq = req.seq /\ req'.rsp = req.rsp /\ req'.meas = req.meas
      BY <2>1, Types DEF Requesters
    <2> QED  BY <1>1, <1>2, <2>1, <2>2 DEF MatchInv, OneExchange
  <1>3. CASE oper["req"]
    <2> DEFINE n == Next1(req.seq)
               r == Resent(req)
    <2>1. /\ req \in Requesters /\ req.seq \in Numbers /\ req.st # "NOT_ENABLED"
          /\ toReq \in Seq(Answers) /\ toResp \in Seq(Numbers) /\ faults \in Nat
      BY <1>3, Types
    <2>2. /\ req' = Run(r, TRUE)
          /\ faults' = IF toResp # <<>> \/ toReq # <<>> THEN faults + 1 ELSE faults
          /\ toResp' = IF link THEN Append(toResp, n) ELSE toResp
          /\ reqTs' = Append(reqTs, n)
      BY <1>1, <1>3 DEF RequestTimer, InFlight
    <2>3. Exchange(req, toReq, toResp) /\ OneExchange(req)  BY <1>3 DEF MatchInv
    <2>4. /\ r \in Requesters /\ Exchange(r, toReq, toResp') /\ OneExchange(r)
          /\ r.st = "SEND" /\ r.seq = n
      BY <2>1, <2>3, ResentExchange
    <2> HIDE DEF r
    <2>5. Ready(r, toReq, toResp') /\ ~r.stamped  BY <2>4 DEF Exchange
    <2>6. TRUE \in BOOLEAN  OBVIOUS
    <2>7. req' = r  BY <2>2, <2>4, <2>5, <2>6, RunExchange
    <2>8. n \in Numbers  BY <2>1, Next1Facts
    <2>9. Queued(n, toReq, toResp', faults')
      <3>1. CASE toResp # <<>> \/ toReq # <<>>
        <4>1. faults' = faults + 1  BY <2>2, <3>1
        <4>2. faults + 1 < Seqs
          <5>1. faults' <= MaxFaults  BY PDelayAssumption DEF Inv, TypeOK
          <5> QED  BY <2>1, <4>1, <5>1, PDelayAssumption
        <4>3. Queued(req.seq, toReq, toResp, faults)  BY DEF MatchInv
        <4>4. /\ Queued(n, toReq, toResp, faults + 1)
              /\ Queued(n, toReq, Append(toResp, n), faults + 1)
          BY <2>1, <4>2, <4>3, QueuedNext
        <4> QED  BY <2>2, <4>1, <4>4
      <3>2. CASE toResp = <<>> /\ toReq = <<>>
        <4>1. \A i \in 1 .. Len(toReq) : ~Tracked(toReq[i])  BY <3>2
        <4>2. Queued(n, toReq, <<>>, faults) /\ Queued(n, toReq, Append(<<>>, n), faults)
          BY <2>1, <2>8, <4>1, QueuedFirst
        <4> QED  BY <2>2, <3>2, <4>2
      <3> QED  BY <3>1, <3>2
    <2>10. reqTs' = <<n>>  BY <1>1, <2>2
    <2>11. ~link => Quiet(toReq, toResp')  BY <2>2 DEF MatchInv
    <2> HIDE DEF n
    <2> QED  BY <1>1, <1>3, <2>4, <2>7, <2>9, <2>10, <2>11 DEF MatchInv
  <1> QED  BY <1>2, <1>3

(* The queues grow at their end by a good follow-up. *)
LEMMA GoodMatch ==
    ASSUME Inv, MatchInv, NEW m \in Answers, ~Tracked(m),
           toReq' \in {toReq, Append(toReq, m)},
           UNCHANGED <<req, oper, link, toResp, reqTs, faults>>,
           Responder(resp', respTs')
    PROVE  MatchInv'
  <1>1. CASE toReq' = toReq  BY <1>1 DEF MatchInv
  <1>2. CASE toReq' = Append(toReq, m)
    <2>1. Queued(req.seq, toReq', toResp, faults)
      BY <1>2, Types, QueuedGood DEF MatchInv
    <2>2. /\ Quiet(toReq, toResp) => Quiet(toReq', toResp)
          /\ Current(req.seq, toReq, toResp) => Current(req.seq, toReq', toResp)
      BY <1>2, Types, GoodKeeps
    <2>3. Exchange(req, toReq, toResp) => Exchange(req, toReq', toResp)
      BY <2>2 DEF Exchange, Ready
    <2> QED  BY <2>1, <2>2, <2>3 DEF MatchInv
  <1> QED  BY <1>1, <1>2

LEMMA ResponseTimestampMatch == Inv /\ MatchInv /\ ResponseTimestamp => MatchInv'
  <1> SUFFICES ASSUME Inv, MatchInv, ResponseTimestamp PROVE MatchInv'  OBVIOUS
  <1> DEFINE s == [resp EXCEPT !.t3 = Head(respTs), !.stamped = TRUE]
             m == [kind |-> "fup", seq |-> s.seq, t |-> s.t3]
  <1>1. /\ respTs # <<>> /\ Respond(s, FALSE)
        /\ UNCHANGED <<req, oper, link, toResp, reqTs, faults>>
    BY DEF ResponseTimestamp
  <1>2. respTs = <<resp.seq>> /\ (resp.st = "W_REQ" => ~resp.rcvd) /\ (resp.st = "W_TS" => ~resp.rcvd)
    BY <1>1 DEF MatchInv, Responder
  <1>3. Head(respTs) = resp.seq /\ Tail(respTs) = <<>>  BY <1>2
  <1>4. /\ s.st = resp.st /\ s.seq = resp.seq /\ s.t3 = resp.seq /\ s.rcvd = resp.rcvd
        /\ s.stamped = TRUE /\ s \in Responders
    BY <1>3, Types DEF Responders
  <1>5. m \in Answers /\ ~Tracked(m)
    BY <1>4 DEF Responders, Answers, Tracked, Stray
  <1> HIDE DEF s, m
  <1>6. CASE s.st = "W_TS"
    <2>1. /\ resp' = [s EXCEPT !.st = "W_REQ", !.stamped = FALSE]
          /\ Answer(s, "fup", s.t3) /\ respTs' = Tail(respTs)
      BY <1>4, <1>6, <1>1 DEF Respond
    <2>2. toReq' \in {toReq, Append(toReq, m)}  BY <2>1 DEF Answer, m
    <2>3. respTs' = <<>> /\ resp'.st = "W_REQ"  BY <1>3, <1>4, <2>1 DEF Responders
    <2>4. Responder(resp', respTs')  BY <2>3 DEF Responder
    <2> QED  BY <1>1, <1>5, <2>2, <2>4, GoodMatch
  <1>7. CASE s.st # "W_TS"
    <2>1. resp' = s /\ respTs' = Tail(respTs) /\ toReq' = toReq
      BY <1>1, <1>2, <1>4, <1>7 DEF Respond
    <2>2. Responder(resp', respTs')  BY <1>3, <1>7, <2>1 DEF Responder
    <2> QED  BY <1>1, <1>5, <2>1, <2>2, GoodMatch
  <1> QED  BY <1>6, <1>7

(* As long as a request waits for its answer the requester is bound by nothing. *)
LEMMA WaitingExchange ==
    ASSUME NEW r, NEW q, NEW p, p # <<>>, NEW u, NEW v, Exchange(r, q, p)
    PROVE  Exchange(r, u, v)
  <1>1. ~Quiet(q, p) /\ ~Current(r.seq, q, p)  BY DEF Quiet, Current
  <1> QED  BY <1>1 DEF Exchange, Ready

LEMMA ReceiveRequestMatch ==
    ASSUME ~LateTimestamps, Inv, MatchInv, ReceiveRequest
    PROVE  MatchInv'
  <1> DEFINE s == [resp EXCEPT !.seq = Head(toResp), !.rcvd = TRUE]
  <1>1. /\ toResp # <<>> /\ respTs = <<>> /\ toResp' = Tail(toResp) /\ Respond(s, TRUE)
        /\ UNCHANGED <<req, oper, link, reqTs, faults>>
    BY DEF ReceiveRequest
  <1>2. /\ toReq \in Seq(Answers) /\ toResp \in Seq(Numbers) /\ req.seq \in Numbers
        /\ faults \in Nat /\ resp \in Responders /\ Head(toResp) \in Numbers
    BY <1>1, Types
  <1>3. /\ s.st = resp.st /\ s.seq = Head(toResp) /\ s.t3 = resp.t3 /\ s.rcvd = TRUE
        /\ s.stamped = resp.stamped /\ s \in Responders
    BY <1>2 DEF Responders
  <1>4. link /\ oper["req"]  BY <1>1 DEF MatchInv, Quiet
  <1>5. Exchange(req, toReq', toResp')
    <2>1. Exchange(req, toReq, toResp)  BY <1>4 DEF MatchInv
    <2> QED  BY <1>1, <2>1, WaitingExchange
  <1>6. Queued(req.seq, toReq, toResp, faults)  BY DEF MatchInv
  <1> HIDE DEF s
  <1>7. Queued(req.seq, toReq', toResp', faults) /\ Responder(resp', respTs')
    <2>1. CASE s.st = "W_REQ"
      <3> DEFINE m == [kind |-> "resp", seq |-> s.seq, t |-> s.seq]
      <3>1. /\ resp' = [s EXCEPT !.st = "W_TS", !.rcvd = FALSE]
            /\ Answer(s, "resp", s.seq) /\ respTs' = Append(respTs, s.seq)
        BY <1>1, <1>3, <2>1 DEF Respond
      <3>2. toReq' = Append(toReq, m)  BY <1>4, <3>1 DEF Answer
      <3>3. m \in Answers /\ m.seq = Head(toResp) /\ RespondsTo(m)
        BY <1>2, <1>3 DEF Answers, RespondsTo
      <3> HIDE DEF m
      <3>4. Queued(req.seq, toReq', toResp', faults)
        BY <1>1, <1>2, <1>6, <3>2, <3>3, QueuedAnswer
      <3>5. resp'.st = "W_TS" /\ resp'.rcvd = FALSE /\ resp'.seq = s.seq
        BY <1>3, <3>1 DEF Responders
      <3>6. respTs' = <<s.seq>>  BY <1>1, <3>1
      <3>7. Responder(resp', respTs')  BY <3>5, <3>6 DEF Responder
      <3> QED  BY <3>4, <3>7
    <2>2. CASE s.st = "W_TS" /\ s.stamped
      <3> DEFINE m == [kind |-> "fup", seq |-> s.seq, t |-> s.t3]
      <3>1. /\ resp' = [s EXCEPT !.st = "W_REQ", !.stamped = FALSE]
            /\ Answer(s, "fup", s.t3) /\ respTs' = respTs
        BY <1>1, <1>3, <2>2 DEF Respond
      <3>2. toReq' = Append(toReq, m)  BY <1>4, <3>1 DEF Answer
      <3>3. m \in Answers /\ m.seq = Head(toResp) /\ RespondsTo(m)
        BY <1>2, <1>3 DEF Answers, RespondsTo, Responders
      <3> HIDE DEF m
      <3>4. Queued(req.seq, toReq', toResp', faults)
        BY <1>1, <1>2, <1>6, <3>2, <3>3, QueuedAnswer
      <3>5. resp'.st = "W_REQ"  BY <1>3, <3>1 DEF Responders
      <3>6. Responder(resp', respTs')  BY <1>1, <3>1, <3>5 DEF Responder
      <3> QED  BY <3>4, <3>6
    <2>3. CASE s.st = "NOT_ENABLED" \/ (s.st = "W_TS" /\ ~s.stamped)
      <3>1. /\ toReq' = toReq /\ respTs' = respTs
            /\ \/ resp' = s /\ s.st = "NOT_ENABLED"
               \/ resp' = [s EXCEPT !.st = "W_REQ", !.rcvd = FALSE]
        BY <1>1, <1>3, <2>3 DEF Respond
      <3>2. Queued(req.seq, toReq', toResp', faults)
        BY <1>1, <1>2, <1>6, <3>1, QueuedDrop
      <3>3. resp'.st # "W_TS"  BY <1>3, <3>1 DEF Responders
      <3>4. Responder(resp', respTs')  BY <1>1, <3>1, <3>3 DEF Responder
      <3> QED  BY <3>2, <3>4
    <2>4. s.st \in {"NOT_ENABLED", "W_REQ", "W_TS"}  BY <1>3 DEF Responders
    <2> QED  BY <2>1, <2>2, <2>3, <2>4
  <1> QED  BY <1>1, <1>4, <1>5, <1>7 DEF MatchInv

LEMMA RequesterUpMatch ==
    ASSUME ~LateTimestamps, Inv, MatchInv, RequesterUp
    PROVE  MatchInv'
  <1>1. PICK q \in Numbers : /\ req' = InitialSend(req, q)
                             /\ toResp' = Append(toResp, q)
                             /\ reqTs' = Append(reqTs, q)
    BY DEF RequesterUp, Numbers
  <1>2. /\ link /\ ~oper["req"] /\ reqTs = <<>>
        /\ UNCHANGED <<resp, link, toReq, respTs, faults>>
    BY DEF RequesterUp
  <1>3. toResp = <<>> /\ \A i \in 1 .. Len(toReq) : ~Tracked(toReq[i])
    BY <1>2 DEF MatchInv, Quiet
  <1>4. /\ req'.st = "SEND" /\ req'.seq = q /\ ~req'.rcvd /\ ~req'.followed
        /\ ~req'.stamped /\ req'.rsp = req.rsp /\ req'.meas = req.meas
    BY <1>1, Types DEF InitialSend, Requesters
  <1>5. Exchange(req', toReq', toResp')
    BY <1>4 DEF Exchange, Ready, Holds, StrayStored
  <1>6. OneExchange(req')  BY <1>4 DEF MatchInv, OneExchange
  <1>7. Queued(q, toReq, toResp', faults)
    <2>1. Queued(q, toReq, Append(<<>>, q), faults)  BY <1>3, Types, QueuedFirst
    <2> QED  BY <1>1, <1>3, <2>1
  <1>8. reqTs' = <<q>>  BY <1>1, <1>2
  <1>9. oper'["req"]
    <2>1. oper' = [oper EXCEPT !["req"] = TRUE]  BY DEF RequesterUp
    <2> QED  BY <2>1, Types
  <1> QED  BY <1>2, <1>4, <1>5, <1>6, <1>7, <1>8, <1>9 DEF MatchInv

LEMMA RequesterDownMatch == Inv /\ MatchInv /\ RequesterDown => MatchInv'
  <1> SUFFICES ASSUME Inv, MatchInv, RequesterDown PROVE MatchInv'  OBVIOUS
  <1>1. /\ ~link /\ UNCHANGED <<resp, link, toResp, toReq, reqTs, respTs, faults>>
        /\ req' = [req EXCEPT !.st = "NOT_ENABLED"]
        /\ oper' = [oper EXCEPT !["req"] = FALSE]
    BY DEF RequesterDown
  <1>2. ~oper'["req"]  BY <1>1, Types
  <1>3. req'.seq = req.seq /\ req'.rsp = req.rsp /\ req'.meas = req.meas
    BY <1>1, Types DEF Requesters
  <1> QED  BY <1>1, <1>2, <1>3 DEF MatchInv, OneExchange

LEMMA ResponderChangeMatch == Inv /\ MatchInv /\ ResponderChange => MatchInv'
  <1> SUFFICES ASSUME Inv, MatchInv, ResponderChange PROVE MatchInv'  OBVIOUS
  <1>1. /\ UNCHANGED <<req, link, toResp, toReq, reqTs, respTs, faults>>
        /\ oper' = [oper EXCEPT !["resp"] = link]
    BY DEF ResponderChange
  <1>2. oper'["req"] = oper["req"]  BY <1>1, Types
  <1>3. /\ resp'.seq = resp.seq
        /\ \/ resp'.st = "W_REQ" /\ ~resp'.rcvd
           \/ resp'.st = "NOT_ENABLED"
    BY Types DEF ResponderChange, Responders
  <1>4. Responder(resp', respTs')  BY <1>1, <1>3 DEF MatchInv, Responder
  <1> QED  BY <1>1, <1>2, <1>4 DEF MatchInv

LEMMA LinkChangeMatch == Inv /\ MatchInv /\ LinkChange => MatchInv'
  <1> SUFFICES ASSUME Inv, MatchInv, LinkChange PROVE MatchInv'  OBVIOUS
  <1>1. toResp' = <<>> /\ toReq' = <<>> /\ UNCHANGED <<req, resp, oper, reqTs, respTs>>
    BY DEF LinkChange
  <1>2. Quiet(<<>>, <<>>) /\ Current(req.seq, <<>>, <<>>)  BY DEF Quiet, Current
  <1>3. Queued(req.seq, <<>>, <<>>, faults')  BY DEF Queued, Aged, InOrder
  <1>4. Exchange(req, toReq, toResp) => Exchange(req, <<>>, <<>>)
    BY <1>2 DEF Exchange, Ready
  <1> QED  BY <1>1, <1>2, <1>3, <1>4 DEF MatchInv

LEMMA FaultCounts == Inv /\ Fault => faults' \in Nat /\ faults <= faults'
  BY Types DEF Fault

LEMMA LoseMatch == Inv /\ MatchInv /\ Lose => MatchInv'
  <1> SUFFICES ASSUME Inv, MatchInv, Lose PROVE MatchInv'  OBVIOUS
  <1>1. /\ UNCHANGED <<req, resp, oper, link>> /\ faults' \in Nat /\ faults <= faults'
    BY FaultCounts DEF Lose
  <1>2. /\ toReq \in Seq(Answers) /\ toResp \in Seq(Numbers) /\ req.seq \in Numbers
        /\ faults \in Nat
    BY Types
  <1>3. Queued(req.seq, toReq, toResp, faults')
    BY <1>1, <1>2, QueuedMore DEF MatchInv
  <1>4. CASE toResp # <<>> /\ toResp' = Tail(toResp) /\ UNCHANGED <<toReq, reqTs, respTs>>
    <2>1. Queued(req.seq, toReq, toResp', faults')
      BY <1>1, <1>2, <1>3, <1>4, QueuedDrop
    <2>2. link /\ oper["req"]  BY <1>4 DEF MatchInv, Quiet
    <2>3. Exchange(req, toReq, toResp')
      <3>1. Exchange(req, toReq, toResp)  BY <2>2 DEF MatchInv
      <3> QED  BY <1>4, <3>1, WaitingExchange
    <2> QED  BY <1>1, <1>4, <2>1, <2>2, <2>3 DEF MatchInv
  <1>5. CASE toReq # <<>> /\ toReq' = Tail(toReq) /\ UNCHANGED <<toResp, reqTs, respTs>>
    <2>1. Queued(req.seq, toReq', toResp, faults')
      BY <1>1, <1>2, <1>3, <1>5, QueuedTail
    <2>2. /\ Quiet(toReq, toResp) => Quiet(toReq', toResp)
          /\ Current(req.seq, toReq, toResp) => Current(req.seq, toReq', toResp)
      BY <1>2, <1>5, TailKeeps
    <2>3. Exchange(req, toReq, toResp) => Exchange(req, toReq', toResp)
      BY <2>2 DEF Exchange, Ready
    <2> QED  BY <1>1, <1>5, <2>1, <2>2, <2>3 DEF MatchInv
  <1>6. CASE reqTs # <<>> /\ reqTs' = Tail(reqTs) /\ UNCHANGED <<toResp, toReq, respTs>>
    <2>1. reqTs = <<req.seq>>  BY <1>6 DEF MatchInv
    <2>2. Tail(reqTs) = <<>>  BY <2>1
    <2> QED  BY <1>1, <1>3, <1>6, <2>2 DEF MatchInv
  <1>7. CASE respTs # <<>> /\ respTs' = Tail(respTs) /\ UNCHANGED <<toResp, toReq, reqTs>>
    <2>1. respTs = <<resp.seq>>  BY <1>7 DEF MatchInv, Responder
    <2>2. respTs' = <<>>  BY <1>7, <2>1
    <2>3. Responder(resp', respTs')  BY <1>1, <2>2 DEF MatchInv, Responder
    <2> QED  BY <1>1, <1>3, <1>7, <2>3 DEF MatchInv
  <1> QED  BY <1>4, <1>5, <1>6, <1>7 DEF Lose

LEMMA DuplicateMatch == Inv /\ MatchInv /\ Duplicate => MatchInv'
  <1> SUFFICES ASSUME Inv, MatchInv, Duplicate PROVE MatchInv'  OBVIOUS
  <1>1. /\ UNCHANGED <<req, resp, oper, link, toResp, reqTs, respTs>>
        /\ toReq # <<>> /\ Head(toReq).kind = "resp" /\ toReq' = <<Head(toReq)>> \o toReq
        /\ faults' \in Nat /\ faults <= faults'
    BY FaultCounts DEF Duplicate
  <1>2. /\ toReq \in Seq(Answers) /\ toResp \in Seq(Numbers) /\ req.seq \in Numbers
        /\ faults \in Nat
    BY Types
  <1>3. Queued(req.seq, toReq, toResp, faults')
    BY <1>1, <1>2, QueuedMore DEF MatchInv
  <1>4. Queued(req.seq, toReq', toResp, faults')  BY <1>1, <1>2, <1>3, QueuedTwice
  <1>5. /\ ~Quiet(toReq, toResp)
        /\ Current(req.seq, toReq, toResp) => Current(req.seq, toReq', toResp)
    BY <1>1, <1>2, TwiceKeeps
  <1>6. Exchange(req, toReq, toResp) => Exchange(req, toReq', toResp)
    BY <1>5 DEF Exchange, Ready
  <1> QED  BY <1>1, <1>4, <1>5, <1>6 DEF MatchInv

LEMMA StepMatch ==
    ASSUME ~LateTimestamps, Seqs > 1, MaxFaults < Seqs, Inv, Inv', MatchInv, [Next]_vars
    PROVE  MatchInv'
  <1>1. CASE UNCHANGED vars  BY <1>1 DEF vars, MatchInv
  <1> QED
    BY <1>1, RequestTimerMatch, RequestTimestampMatch, ReceiveAnswerMatch,
       ReceiveRequestMatch, ResponseTimestampMatch, RequesterUpMatch, RequesterDownMatch,
       ResponderChangeMatch, LinkChangeMatch, LoseMatch, DuplicateMatch
    DEF Next, Station

(***************************************************************************)
(* The four timestamps of a measurement are of one exchange, whatever was  *)
(* lost, delayed or answered twice and however often the link changed,     *)
(* when timestamps are not later than the next request and fewer things go *)
(* wrong than there are sequence numbers (65536 in the code).  With more,  *)
(* an answer may be delayed once round the sequence numbers.               *)
(***************************************************************************)
THEOREM MeasurementsMatch ==
    ASSUME ~LateTimestamps, MaxFaults < Seqs
    PROVE  Spec => []MeasurementMatches
  <1>1. CASE Seqs > 1
    <2>1. Inv /\ Inv' /\ MatchInv /\ [Next]_vars => MatchInv'  BY <1>1, StepMatch
    <2>2. MatchInv => MeasurementMatches  BY DEF MatchInv, OneExchange, MeasurementMatches
    <2> QED  BY <2>1, <2>2, InitMatch, Invariance, PTL DEF Spec
  <1>2. CASE ~(Seqs > 1)
    <2>1. Inv => MeasurementMatches
      <3> SUFFICES ASSUME Inv, NEW a \in req.meas, NEW b \in req.meas PROVE a = b
        BY DEF MeasurementMatches
      <3>1. a \in 0 .. Seqs - 1 /\ b \in 0 .. Seqs - 1  BY Types DEF Requesters, Numbers
      <3> QED  BY <1>2, <3>1, PDelayAssumption
    <2> QED  BY <2>1, Invariance, PTL
  <1> QED  BY <1>1, <1>2
=============================================================================
