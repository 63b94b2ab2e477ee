------------------------------- MODULE PDelay -------------------------------
(***************************************************************************)
(* Peer delay measurement on one link: the requester (MDPdelayReq) and the *)
(* responder (MDPdelayResp) of gptp/md_fsm_802_3.c, the receive and        *)
(* timestamp handlers of gptp/gptp.c, and asCapableAcrossDomains.          *)
(*                                                                         *)
(* The requester sends a request and needs four timestamps: when the       *)
(* request left (t1, from its own hardware, some time after the send),     *)
(* when it arrived (t2, in the response), when the response left (t3, in   *)
(* the follow-up) and when it arrived (t4).  A timestamp is modelled by    *)
(* the sequence number of the request or response it was taken of.         *)
(* Sequence numbers are 16 bits wide in the code, modulo Seqs here.        *)
(***************************************************************************)
EXTENDS Integers, Sequences

CONSTANTS
    Seqs,           \* sequence numbers
    AllowedLost,    \* allowedLostResponses
    LateTimestamps, \* a transmit timestamp may be later than the next interval
    MaxFaults       \* bound of the model: frames or timestamps lost, frames
                    \* late or duplicated, bad delays, link changes

ASSUME PDelayAssumption ==
    /\ Seqs \in Nat \ {0} /\ AllowedLost \in Nat /\ MaxFaults \in Nat
    /\ LateTimestamps \in BOOLEAN

VARIABLES
    req,        \* the requester
    resp,       \* the responder
    oper,       \* port_oper of "req" and of "resp"
    link,       \* the link is up
    toResp,     \* requests on their way
    toReq,      \* responses and follow-ups on their way
    reqTs,      \* requests whose transmit timestamp is still to come
    respTs,     \* responses whose transmit timestamp is still to come
    missed,     \* consecutive requests that led to no measurement
    faults

vars == <<req, resp, oper, link, toResp, toReq, reqTs, respTs, missed, faults>>

-----------------------------------------------------------------------------
(***************************************************************************)
(* The requester: state, sequence number of the last request, t1 and       *)
(* rcvdMDTimestampReceive, the response stored (sequence, t2, t4) and its  *)
(* flag, the follow-up stored (sequence, t3) and its flag, lostResponses,  *)
(* whether there is a previous measurement and the rate ratio is valid,    *)
(* asCapableAcrossDomains, the request timer, and the last measurement.    *)
(* The stored messages are kept when their flags are cleared.              *)
(***************************************************************************)
NewReq ==
    [st |-> "NOT_ENABLED", seq |-> 0, t1 |-> 0, stamped |-> FALSE,
     rsp |-> [seq |-> 0, t2 |-> 0], rcvd |-> FALSE,
     fup |-> [seq |-> 0, t3 |-> 0], followed |-> FALSE,
     lost |-> 0, prev |-> FALSE, valid |-> FALSE, capable |-> FALSE,
     timer |-> FALSE, meas |-> {}]

NewResp ==
    [st |-> "NOT_ENABLED", seq |-> 0, rcvd |-> FALSE, t3 |-> 0, stamped |-> FALSE]

(***************************************************************************)
(* md_pdelay_req_sm_reset: too many losses end the capability and the      *)
(* measurement.                                                            *)
(***************************************************************************)
(* Mutant: one loss more is tolerated. *)
ResetForgiving(r) ==
    IF r.lost <= AllowedLost
    THEN [r EXCEPT !.st = "RESET", !.rcvd = FALSE, !.lost = @ + 1]
    ELSE [r EXCEPT !.st = "RESET", !.rcvd = FALSE, !.capable = FALSE,
                   !.prev = FALSE, !.valid = FALSE]

Reset(r) ==
    IF r.lost < AllowedLost
    THEN [r EXCEPT !.st = "RESET", !.rcvd = FALSE, !.lost = @ + 1]
    ELSE [r EXCEPT !.st = "RESET", !.rcvd = FALSE, !.capable = FALSE,
                   !.prev = FALSE, !.valid = FALSE]

(***************************************************************************)
(* md_pdelay_req_sm_waiting_interval: a first measurement gives no rate    *)
(* ratio; good says whether the delay is within the threshold.  A station  *)
(* does not hear its own requests on a point-to-point link.                *)
(***************************************************************************)
Measure(r, good) ==
    [r EXCEPT !.st = "W_INTERVAL", !.followed = FALSE, !.lost = 0,
              !.prev = TRUE, !.valid = r.prev \/ @,
              !.capable = good /\ (r.prev \/ r.valid),
              !.meas = {r.t1, r.rsp.t2, r.rsp.seq, r.fup.t3, r.seq}]

(***************************************************************************)
(* md_pdelay_req_sm on a RUN event goes as far as the flags allow.         *)
(***************************************************************************)
Stamped(r) ==
    IF r.st = "SEND" /\ r.stamped
    THEN [r EXCEPT !.st = "W_RESP", !.stamped = FALSE] ELSE r

Answered(r) ==
    IF ~(r.st = "W_RESP" /\ r.rcvd) THEN r
    ELSE IF r.rsp.seq = r.seq THEN [r EXCEPT !.st = "W_FUP", !.rcvd = FALSE]
    ELSE Reset(r)

(* Mutant: any follow-up will do. *)
FollowedAny(r, good) ==
    IF r.st # "W_FUP" THEN r
    ELSE IF r.rcvd /\ r.rsp.seq = r.seq THEN Reset([r EXCEPT !.capable = FALSE])
    ELSE IF r.followed THEN Measure(r, good) ELSE r

Followed(r, good) ==
    IF r.st # "W_FUP" THEN r
    ELSE IF r.rcvd /\ r.rsp.seq = r.seq THEN Reset([r EXCEPT !.capable = FALSE])
    ELSE IF r.followed /\ r.fup.seq = r.seq THEN Measure(r, good) ELSE r

Run(r, good) == Followed(Answered(Stamped(r)), good)

Measures(r) == Run(r, TRUE).st = "W_INTERVAL" /\ r.st # "W_INTERVAL"

(***************************************************************************)
(* The requester takes an event: a measurement may exceed the threshold.   *)
(***************************************************************************)
Take(r) ==
    \E good \in BOOLEAN :
        /\ ~good => Measures(r) /\ faults < MaxFaults
        /\ req' = Run(r, good)
        /\ missed' = IF Measures(r) THEN 0 ELSE missed
        /\ faults' = IF good THEN faults ELSE faults + 1

-----------------------------------------------------------------------------
(***************************************************************************)
(* md_pdelay_req_sm_send: the request timer expires.  In any state but     *)
(* W_INTERVAL and RESET the request was lost.  The timestamp flag is not   *)
(* cleared.                                                                *)
(***************************************************************************)
Next1(q) == (q + 1) % Seqs

Unfinished(r) == r.st \in {"SEND", "W_RESP", "W_FUP"}

Cleared(r) == [r EXCEPT !.rcvd = FALSE, !.followed = FALSE]

Resent(r) ==
    LET s == IF Unfinished(r) THEN Cleared(Reset(r))
             ELSE IF r.st = "RESET" THEN Cleared(r) ELSE r
    IN  [s EXCEPT !.st = "SEND", !.seq = Next1(@)]

(* Bound of the model: missed counts as far as CapableIsRecent reads it. *)
Missed(n) == IF n > AllowedLost + 1 THEN AllowedLost + 1 ELSE n

InFlight == toResp # <<>> \/ toReq # <<>>

RequestTimer ==
    LET late == InFlight \/ reqTs # <<>> \/ respTs # <<>>
    IN  /\ req.timer
        /\ (reqTs # <<>> \/ respTs # <<>>) => LateTimestamps
        /\ IF ~oper["req"]
           THEN /\ req' = [req EXCEPT !.timer = FALSE]
                /\ UNCHANGED <<toResp, reqTs, missed, faults>>
           ELSE /\ late => faults < MaxFaults
                /\ faults' = IF late THEN faults + 1 ELSE faults
                /\ req' = Run(Resent(req), TRUE)
                /\ toResp' = IF link THEN Append(toResp, Next1(req.seq)) ELSE toResp
                /\ reqTs' = Append(reqTs, Next1(req.seq))
                /\ missed' = IF req.st = "W_INTERVAL" THEN 0 ELSE Missed(missed + 1)
        /\ UNCHANGED <<resp, oper, link, toReq, respTs>>

(***************************************************************************)
(* The transmit timestamp of a request: stored whatever the state.         *)
(***************************************************************************)
RequestTimestamp ==
    /\ reqTs # <<>>
    /\ reqTs' = Tail(reqTs)
    /\ IF ~oper["req"]
       THEN /\ req' = [req EXCEPT !.t1 = Head(reqTs), !.stamped = TRUE]
            /\ UNCHANGED <<missed, faults>>
       ELSE Take([req EXCEPT !.t1 = Head(reqTs), !.stamped = TRUE])
    /\ UNCHANGED <<resp, oper, link, toResp, toReq, respTs>>

(***************************************************************************)
(* gptp_handle_pdelay_resp, gptp_handle_pdelay_resp_fup: the message       *)
(* replaces the one stored, whatever the state.                            *)
(***************************************************************************)
Stored(r, m) ==
    IF m.kind = "resp"
    THEN [r EXCEPT !.rsp = [seq |-> m.seq, t2 |-> m.t], !.rcvd = TRUE]
    ELSE [r EXCEPT !.fup = [seq |-> m.seq, t3 |-> m.t], !.followed = TRUE]

ReceiveAnswer ==
    /\ toReq # <<>>
    /\ toReq' = Tail(toReq)
    /\ IF ~oper["req"]
       THEN req' = Stored(req, Head(toReq)) /\ UNCHANGED <<missed, faults>>
       ELSE Take(Stored(req, Head(toReq)))
    /\ UNCHANGED <<resp, oper, link, toResp, reqTs, respTs>>

-----------------------------------------------------------------------------
(***************************************************************************)
(* The responder.  md_pdelay_resp_sm makes one transition per event: the   *)
(* response to a request, the follow-up once the response has its          *)
(* timestamp.  A request that comes while the timestamp is awaited ends    *)
(* the exchange and is itself dropped.  Both answers carry the sequence    *)
(* number of the request stored last.                                      *)
(***************************************************************************)
Answer(s, kind, t) ==
    toReq' = IF link THEN Append(toReq, [kind |-> kind, seq |-> s.seq, t |-> t]) ELSE toReq

(* Mutant: a lost timestamp is waited for for ever. *)
RespondPatient(s, isRequest) ==
    CASE s.st = "W_REQ" /\ s.rcvd ->
           /\ resp' = [s EXCEPT !.st = "W_TS", !.rcvd = FALSE]
           /\ Answer(s, "resp", s.seq)
           /\ respTs' = Append(IF isRequest THEN respTs ELSE Tail(respTs), s.seq)
      [] s.st = "W_TS" /\ s.stamped ->
           /\ resp' = [s EXCEPT !.st = "W_REQ", !.stamped = FALSE]
           /\ Answer(s, "fup", s.t3)
           /\ respTs' = IF isRequest THEN respTs ELSE Tail(respTs)
      [] OTHER ->
           /\ resp' = s
           /\ respTs' = IF isRequest THEN respTs ELSE Tail(respTs)
           /\ UNCHANGED toReq

Respond(s, isRequest) ==
    LET left == IF isRequest THEN respTs ELSE Tail(respTs)
    IN  \/ /\ s.st = "W_REQ" /\ s.rcvd
           /\ resp' = [s EXCEPT !.st = "W_TS", !.rcvd = FALSE]
           /\ Answer(s, "resp", s.seq)
           /\ respTs' = Append(left, s.seq)
        \/ /\ s.st = "W_TS" /\ s.stamped
           /\ resp' = [s EXCEPT !.st = "W_REQ", !.stamped = FALSE]
           /\ Answer(s, "fup", s.t3)
           /\ respTs' = left
        \/ /\ s.st = "W_TS" /\ ~s.stamped /\ isRequest
           /\ resp' = [s EXCEPT !.st = "W_REQ", !.rcvd = FALSE]
           /\ respTs' = left /\ UNCHANGED toReq
        \/ /\ s.st = "NOT_ENABLED" \/ (s.st = "W_REQ" /\ ~s.rcvd)
           /\ resp' = s
           /\ respTs' = left /\ UNCHANGED toReq

(***************************************************************************)
(* gptp_handle_pdelay_req, and the transmit timestamp of a response: each  *)
(* is stored whatever the state.                                           *)
(***************************************************************************)
ReceiveRequest ==
    /\ toResp # <<>>
    /\ respTs # <<>> => LateTimestamps
    /\ toResp' = Tail(toResp)
    /\ Respond([resp EXCEPT !.seq = Head(toResp), !.rcvd = TRUE], TRUE)
    /\ UNCHANGED <<req, oper, link, reqTs, missed, faults>>

ResponseTimestamp ==
    /\ respTs # <<>>
    /\ Respond([resp EXCEPT !.t3 = Head(respTs), !.stamped = TRUE], FALSE)
    /\ UNCHANGED <<req, oper, link, toResp, reqTs, missed, faults>>

-----------------------------------------------------------------------------
(***************************************************************************)
(* The MAC service tells a station that its link changed.  The requester   *)
(* starts again with a random sequence number and without capability.      *)
(***************************************************************************)
InitialSend(r, q) ==
    [r EXCEPT !.st = "SEND", !.seq = q, !.rcvd = FALSE, !.followed = FALSE,
              !.stamped = FALSE, !.lost = 0, !.capable = FALSE, !.prev = FALSE,
              !.valid = FALSE, !.timer = TRUE]

RequesterUp ==
    /\ link /\ ~oper["req"]
    /\ oper' = [oper EXCEPT !["req"] = TRUE]
    /\ reqTs = <<>> \/ LateTimestamps
    /\ \E q \in 0 .. Seqs - 1 :
         /\ req' = InitialSend(req, q)
         /\ toResp' = Append(toResp, q)
         /\ reqTs' = Append(reqTs, q)
    /\ missed' = 0
    /\ UNCHANGED <<resp, link, toReq, respTs, faults>>

RequesterDown ==
    /\ ~link /\ oper["req"]
    /\ oper' = [oper EXCEPT !["req"] = FALSE]
    /\ req' = [req EXCEPT !.st = "NOT_ENABLED"]
    /\ UNCHANGED <<resp, link, toResp, toReq, reqTs, respTs, missed, faults>>

ResponderChange ==
    /\ oper["resp"] # link
    /\ oper' = [oper EXCEPT !["resp"] = link]
    /\ resp' = IF link THEN [resp EXCEPT !.st = "W_REQ", !.rcvd = FALSE, !.stamped = FALSE]
               ELSE [resp EXCEPT !.st = "NOT_ENABLED"]
    /\ UNCHANGED <<req, link, toResp, toReq, reqTs, respTs, missed, faults>>

(***************************************************************************)
(* Faults: a link change, which loses what is on its way; the loss of a    *)
(* frame or of a timestamp; a response answered twice.                     *)
(***************************************************************************)
Fault == faults < MaxFaults /\ faults' = faults + 1

LinkChange ==
    /\ Fault
    /\ link' = ~link
    /\ toResp' = <<>> /\ toReq' = <<>>
    /\ UNCHANGED <<req, resp, oper, reqTs, respTs, missed>>

Lose ==
    /\ Fault
    /\ \/ toResp # <<>> /\ toResp' = Tail(toResp) /\ UNCHANGED <<toReq, reqTs, respTs>>
       \/ toReq # <<>> /\ toReq' = Tail(toReq) /\ UNCHANGED <<toResp, reqTs, respTs>>
       \/ reqTs # <<>> /\ reqTs' = Tail(reqTs) /\ UNCHANGED <<toResp, toReq, respTs>>
       \/ respTs # <<>> /\ respTs' = Tail(respTs) /\ UNCHANGED <<toResp, toReq, reqTs>>
    /\ UNCHANGED <<req, resp, oper, link, missed>>

Duplicate ==
    /\ Fault
    /\ toReq # <<>> /\ Head(toReq).kind = "resp"
    /\ toReq' = <<Head(toReq)>> \o toReq
    /\ UNCHANGED <<req, resp, oper, link, toResp, reqTs, respTs, missed>>

-----------------------------------------------------------------------------
Init ==
    /\ req = NewReq /\ resp = NewResp
    /\ oper = [p \in {"req", "resp"} |-> FALSE]
    /\ link = TRUE
    /\ toResp = <<>> /\ toReq = <<>> /\ reqTs = <<>> /\ respTs = <<>>
    /\ missed = 0 /\ faults = 0

Station ==
    \/ RequestTimer \/ RequestTimestamp \/ ReceiveAnswer
    \/ ReceiveRequest \/ ResponseTimestamp
    \/ RequesterUp \/ RequesterDown \/ ResponderChange

Next == Station \/ LinkChange \/ Lose \/ Duplicate

Spec == Init /\ [][Next]_vars

(***************************************************************************)
(* Timers, frames, timestamps and link notifications are served.           *)
(***************************************************************************)
Fairness ==
    /\ WF_vars(RequestTimer) /\ WF_vars(RequestTimestamp) /\ WF_vars(ReceiveAnswer)
    /\ WF_vars(ReceiveRequest) /\ WF_vars(ResponseTimestamp)
    /\ WF_vars(RequesterUp \/ RequesterDown) /\ WF_vars(ResponderChange)

FairSpec == Spec /\ Fairness

-----------------------------------------------------------------------------
Numbers == 0 .. Seqs - 1

Answers == [kind : {"resp", "fup"}, seq : Numbers, t : Numbers]

Requesters ==
    [st : {"NOT_ENABLED", "RESET", "SEND", "W_RESP", "W_FUP", "W_INTERVAL"},
     seq : Numbers, t1 : Numbers, stamped : BOOLEAN,
     rsp : [seq : Numbers, t2 : Numbers], rcvd : BOOLEAN,
     fup : [seq : Numbers, t3 : Numbers], followed : BOOLEAN,
     lost : 0 .. AllowedLost, prev : BOOLEAN, valid : BOOLEAN, capable : BOOLEAN,
     timer : BOOLEAN, meas : SUBSET Numbers]

Responders ==
    [st : {"NOT_ENABLED", "W_REQ", "W_TS"}, seq : Numbers, rcvd : BOOLEAN,
     t3 : Numbers, stamped : BOOLEAN]

(* Types: lost never exceeds AllowedLost. *)
TypeOK ==
    /\ req \in Requesters /\ resp \in Responders
    /\ oper \in [{"req", "resp"} -> BOOLEAN] /\ link \in BOOLEAN
    /\ toResp \in Seq(Numbers) /\ toReq \in Seq(Answers)
    /\ reqTs \in Seq(Numbers) /\ respTs \in Seq(Numbers)
    /\ missed \in 0 .. AllowedLost + 1 /\ faults \in 0 .. MaxFaults

(***************************************************************************)
(* The four timestamps a delay is computed from belong to one exchange,    *)
(* whatever was lost, late or answered twice before.                       *)
(***************************************************************************)
MeasurementMatches == \A a, b \in req.meas : a = b

(***************************************************************************)
(* The capability outlives at most AllowedLost consecutive exchanges       *)
(* without a measurement, counted from the outside, and a link that comes  *)
(* back starts without it.                                                 *)
(***************************************************************************)
CapableIsRecent ==
    req.capable /\ oper["req"] => missed <= AllowedLost

(***************************************************************************)
(* Once faults stop, a link that is up becomes and stays capable.          *)
(***************************************************************************)
BecomesCapable == <>[](link => req.capable)
=============================================================================
