----------------------------- MODULE ACMPTalker -----------------------------
(***************************************************************************)
(* A Milan stream output (avdecc/acmp_milan.c, talker part) between its    *)
(* three neighbours: MAAP, which gives and takes away the destination      *)
(* address, SRP, which declares the stream and reports listeners, and the  *)
(* media stack, which sends it.                                            *)
(*                                                                         *)
(* acmp_milan_talker_update makes up to four calls, each of which may fail *)
(* for want of an IPC descriptor and then ends the function.  The stream   *)
(* identifier and the VLAN never change: SRP parameters are the address.   *)
(* The wait after a withdrawal is two LeaveAll periods.                    *)
(***************************************************************************)
EXTENDS Integers, Sequences

CONSTANTS
    Addresses,      \* multicast addresses MAAP may give
    NoAddress,      \* the all-zero address
    MaxFailures,    \* bound of the model: calls that fail
    MaxConflicts    \* bound of the model: addresses MAAP loses

ASSUME TalkerAssumption ==
    /\ NoAddress \notin Addresses
    /\ MaxFailures \in Nat /\ MaxConflicts \in Nat

VARIABLES
    out,        \* the stream output descriptor, and what it told its neighbours
    maap,       \* the address MAAP defends
    ind,        \* MAAP indications on their way
    aging,      \* two LeaveAll periods have not passed since the withdrawal
    last,       \* the address last declared
    running,    \* the entity is not being torn down
    refused,    \* a declaration or withdrawal failed since the last declaration
    failures,   \* calls that have failed
    conflicts   \* addresses lost

vars == <<out, maap, ind, aging, last, running, refused, failures, conflicts>>

-----------------------------------------------------------------------------
(***************************************************************************)
(* The descriptor: address, probe_tx_valid (its timer runs while it is     *)
(* set), srp_listener_status, maap_started, talker_declared,               *)
(* avtp_connected, srp_talker_withdraw_in_progress (its timer runs while   *)
(* it is set), the withdrawn parameters; then the address SRP declares and *)
(* the address the media stack sends to.                                   *)
(***************************************************************************)
Listeners == {"NO", "FAILED", "ACTIVE", "ACTIVE_AND_FAILED"}

Outputs ==
    [mac : Addresses \cup {NoAddress}, probed : BOOLEAN, listener : Listeners,
     maap : BOOLEAN, declared : BOOLEAN, connected : BOOLEAN,
     withdrawing : BOOLEAN, withdrawn : Addresses \cup {NoAddress},
     srp : Addresses \cup {NoAddress}, media : Addresses \cup {NoAddress}]

NewOutput ==
    [mac |-> NoAddress, probed |-> FALSE, listener |-> "NO", maap |-> FALSE,
     declared |-> FALSE, connected |-> FALSE, withdrawing |-> FALSE,
     withdrawn |-> NoAddress, srp |-> NoAddress, media |-> NoAddress]

(***************************************************************************)
(* acmp_milan_talker_has_valid_srp_params                                  *)
(***************************************************************************)
Valid(o) == o.mac # NoAddress /\ (o.probed \/ o.listener # "NO")

Active(o) == o.listener \in {"ACTIVE", "ACTIVE_AND_FAILED"}

(***************************************************************************)
(* acmp_milan_talker_update, one call at a time: what is withdrawn is      *)
(* remembered with the address of now.                                     *)
(***************************************************************************)
MustWithdraw(o) == ~Valid(o) /\ o.declared

Withdraw(o) ==
    IF MustWithdraw(o)
    THEN [o EXCEPT !.declared = FALSE, !.srp = NoAddress,
                   !.withdrawn = o.mac, !.withdrawing = TRUE]
    ELSE o

(* Mutant: the stream goes on when its declaration is withdrawn. *)
MustDisconnectSilent(o) == o.listener = "NO" /\ o.connected

MustDisconnect(o) == (~o.declared \/ o.listener = "NO") /\ o.connected

Disconnect(o) ==
    IF MustDisconnect(o) THEN [o EXCEPT !.connected = FALSE, !.media = NoAddress]
    ELSE o

(* Mutant: another address does not wait. *)
MustDeclareNow(o) == Valid(o) /\ ~o.declared

MustDeclare(o) ==
    Valid(o) /\ ~o.declared /\ (o.withdrawing => o.withdrawn = o.mac)

Undelayed(o) == IF MustDeclare(o) THEN [o EXCEPT !.withdrawing = FALSE] ELSE o

Declare(o) ==
    IF MustDeclare(o)
    THEN [o EXCEPT !.declared = TRUE, !.srp = o.mac, !.withdrawing = FALSE,
                   !.withdrawn = NoAddress]
    ELSE o

MustConnect(o) == Valid(o) /\ Active(o) /\ ~o.connected /\ o.declared

Connect(o) ==
    IF MustConnect(o) THEN [o EXCEPT !.connected = TRUE, !.media = o.mac] ELSE o

(***************************************************************************)
(* The outcomes: all calls succeed, or one is made, fails and is the last. *)
(***************************************************************************)
Outcome(o, fail) ==
    CASE fail = "withdraw"   -> o
      [] fail = "disconnect" -> Withdraw(o)
      [] fail = "declare"    -> Undelayed(Disconnect(Withdraw(o)))
      [] fail = "connect"    -> Declare(Disconnect(Withdraw(o)))
      [] fail = "none"       -> Connect(Declare(Disconnect(Withdraw(o))))

Fails(o, fail) ==
    CASE fail = "withdraw"   -> MustWithdraw(o)
      [] fail = "disconnect" -> MustDisconnect(Withdraw(o))
      [] fail = "declare"    -> MustDeclare(Disconnect(Withdraw(o)))
      [] fail = "connect"    -> MustConnect(Declare(Disconnect(Withdraw(o))))
      [] fail = "none"       -> TRUE

(* old: whether the wait after the last withdrawal is still going on. *)
Update(o, old) ==
    \E fail \in {"none", "withdraw", "disconnect", "declare", "connect"} :
        /\ Fails(o, fail)
        /\ fail # "none" => failures < MaxFailures
        /\ failures' = IF fail = "none" THEN failures ELSE failures + 1
        /\ out' = Outcome(o, fail)
        /\ aging' = (old \/ (out.srp # NoAddress /\ out'.srp = NoAddress))
        /\ last' = IF out'.srp # NoAddress THEN out'.srp ELSE last
        /\ refused' = \/ fail \in {"withdraw", "declare"}
                      \/ refused /\ (out'.declared => out.declared)

-----------------------------------------------------------------------------
(***************************************************************************)
(* acmp_milan_talker_rcv, PROBE_TX_COMMAND: without an address the probe   *)
(* is refused, but it counts.                                              *)
(***************************************************************************)
(* Mutant: only the first probe of a series has an effect. *)
ProbeFirst ==
    LET o == [out EXCEPT !.probed = TRUE]
    IN  /\ running
        /\ IF Valid(o) /\ ~out.probed THEN Update(o, aging)
           ELSE out' = o /\ UNCHANGED <<aging, last, refused, failures>>
        /\ UNCHANGED <<maap, ind, running, conflicts>>

Probe ==
    LET o == [out EXCEPT !.probed = TRUE]
    IN  /\ running
        /\ IF Valid(o) THEN Update(o, aging)
           ELSE out' = o /\ UNCHANGED <<aging, last, refused, failures>>
        /\ UNCHANGED <<maap, ind, running, conflicts>>

(***************************************************************************)
(* No probe for 15 seconds.                                                *)
(***************************************************************************)
ProbeTimer ==
    /\ running /\ out.probed
    /\ Update([out EXCEPT !.probed = FALSE], aging)
    /\ UNCHANGED <<maap, ind, running, conflicts>>

(***************************************************************************)
(* Two LeaveAll periods pass: the withdraw timer, if it was not stopped.   *)
(***************************************************************************)
WithdrawTimer ==
    /\ running /\ out.withdrawing
    /\ Update([out EXCEPT !.withdrawing = FALSE], FALSE)
    /\ UNCHANGED <<maap, ind, running, conflicts>>

Aged ==
    /\ aging /\ ~out.withdrawing
    /\ aging' = FALSE
    /\ UNCHANGED <<out, maap, ind, last, running, refused, failures, conflicts>>

(***************************************************************************)
(* acmp_milan_talker_update_status                                         *)
(***************************************************************************)
ListenerStatus(status) ==
    /\ running
    /\ Update([out EXCEPT !.listener = status], aging)
    /\ UNCHANGED <<maap, ind, running, conflicts>>

(***************************************************************************)
(* acmp_milan_talkers_maap_start, whenever the local entity is updated.    *)
(***************************************************************************)
MaapStart ==
    /\ running /\ ~out.maap
    /\ \/ out' = [out EXCEPT !.maap = TRUE] /\ UNCHANGED failures
       \/ failures < MaxFailures /\ failures' = failures + 1 /\ UNCHANGED out
    /\ UNCHANGED <<maap, ind, aging, last, running, refused, conflicts>>

(***************************************************************************)
(* MAAP: it acquires an address once asked, and may lose it to another     *)
(* station; its indications arrive in order.                               *)
(***************************************************************************)
Acquire(a) ==
    /\ out.maap /\ maap = NoAddress
    /\ maap' = a
    /\ ind' = Append(ind, [valid |-> TRUE, mac |-> a])
    /\ UNCHANGED <<out, aging, last, running, refused, failures, conflicts>>

Lose ==
    /\ maap # NoAddress /\ conflicts < MaxConflicts
    /\ conflicts' = conflicts + 1
    /\ maap' = NoAddress
    /\ ind' = Append(ind, [valid |-> FALSE, mac |-> maap])
    /\ UNCHANGED <<out, aging, last, running, refused, failures>>

(***************************************************************************)
(* acmp_milan_talker_maap_valid and acmp_milan_talker_maap_conflict        *)
(***************************************************************************)
MaapIndication ==
    /\ running /\ ind # <<>>
    /\ ind' = Tail(ind)
    /\ Update([out EXCEPT !.mac = IF Head(ind).valid THEN Head(ind).mac ELSE NoAddress],
              aging)
    /\ UNCHANGED <<maap, running, conflicts>>

(***************************************************************************)
(* acmp_milan_exit: what was declared or connected is undone, once; a call *)
(* that fails is not repeated, but the flags are cleared.                  *)
(***************************************************************************)
Exit ==
    /\ running
    /\ running' = FALSE
    /\ \E srpFails, mediaFails, maapFails \in BOOLEAN :
         /\ srpFails => out.declared
         /\ mediaFails => out.connected
         /\ maapFails => out.maap
         /\ srpFails \/ mediaFails \/ maapFails => failures < MaxFailures
         /\ failures' = IF srpFails \/ mediaFails \/ maapFails
                        THEN failures + 1 ELSE failures
         /\ out' = [out EXCEPT !.declared = FALSE, !.connected = FALSE,
                               !.probed = FALSE, !.withdrawing = FALSE,
                               !.maap = maapFails,
                               !.srp = IF srpFails THEN out.srp ELSE NoAddress,
                               !.media = IF mediaFails THEN out.media ELSE NoAddress]
         /\ refused' = (refused \/ srpFails \/ mediaFails)
         /\ aging' = (aging \/ (out.srp # NoAddress /\ ~srpFails))
    /\ UNCHANGED <<maap, ind, last, conflicts>>

-----------------------------------------------------------------------------
Init ==
    /\ out = NewOutput
    /\ maap = NoAddress
    /\ ind = <<>>
    /\ aging = FALSE
    /\ last = NoAddress
    /\ running = TRUE
    /\ refused = FALSE
    /\ failures = 0
    /\ conflicts = 0

Next ==
    \/ Probe \/ ProbeTimer \/ WithdrawTimer \/ Aged
    \/ \E status \in Listeners : ListenerStatus(status)
    \/ MaapStart \/ (\E a \in Addresses : Acquire(a)) \/ Lose \/ MaapIndication
    \/ Exit

Spec == Init /\ [][Next]_vars

(***************************************************************************)
(* Timers expire, and a listener that sees no talker keeps probing (its    *)
(* sink, ACMPListener, never stays stuck).                                 *)
(***************************************************************************)
FairSpec == Spec /\ WF_vars(WithdrawTimer) /\ WF_vars(Probe)

-----------------------------------------------------------------------------
TypeOK ==
    /\ out \in Outputs
    /\ maap \in Addresses \cup {NoAddress} /\ last \in Addresses \cup {NoAddress}
    /\ ind \in Seq([valid : BOOLEAN, mac : Addresses])
    /\ {aging, running, refused} \subseteq BOOLEAN
    /\ failures \in 0 .. MaxFailures /\ conflicts \in 0 .. MaxConflicts

(***************************************************************************)
(* What is sent is what SRP reserved: the media stack sends to the address *)
(* SRP declares, and that is the address of the stream, through conflicts, *)
(* withdrawals and late indications, unless a withdrawal was refused for   *)
(* want of a descriptor; without failures nothing is sent undeclared.      *)
(***************************************************************************)
StreamReserved ==
    /\ out.media # NoAddress /\ out.srp # NoAddress /\ ~refused =>
         out.media = out.srp /\ out.srp = out.mac
    /\ out.media # NoAddress /\ failures = 0 => out.srp = out.media

(***************************************************************************)
(* Seen from the network the output is a stream source: the reservation    *)
(* never changes from one address to another, what is sent while it lasts  *)
(* goes where it was made, and within two LeaveAll periods of a withdrawal *)
(* only the same address is declared again, so that no bridge still holds  *)
(* the old attribute (a refused declaration has stopped the timer that     *)
(* ensures it).                                                            *)
(***************************************************************************)
Source == INSTANCE StreamSource WITH
    reserved <- out.srp, sent <- out.media,
    waiting <- IF aging THEN {last} ELSE {}

ImplementsSource == Source!Spec

(***************************************************************************)
(* A stream with an address that someone asks for is eventually declared,  *)
(* or no longer asked for, whichever calls failed before.                  *)
(***************************************************************************)
Declares == []<>(running /\ Valid(out) => out.declared)

(***************************************************************************)
(* The stream runs only while a listener is ready.                         *)
(***************************************************************************)
StreamsToReady == failures = 0 /\ out.media # NoAddress => Active(out)
=============================================================================
