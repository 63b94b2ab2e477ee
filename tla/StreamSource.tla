---------------------------- MODULE StreamSource ----------------------------
(***************************************************************************)
(* What a stream output promises the network, whatever its control         *)
(* protocol does: the bridges reserve one destination address at a time,   *)
(* what is sent while it is reserved is sent there, and after a release    *)
(* another address is reserved only once the old reservation has aged.     *)
(*                                                                         *)
(* A reservation or a release that was refused suspends the promise until  *)
(* the next reservation.                                                   *)
(***************************************************************************)
CONSTANTS Addresses, NoAddress

VARIABLES
    reserved,   \* the address reserved, or NoAddress
    sent,       \* the address sent to, or NoAddress
    waiting,    \* the address that has been released and has not aged, if any
    refused     \* a reservation or release was refused since the last reservation

vars == <<reserved, sent, waiting, refused>>

Init ==
    /\ reserved = NoAddress /\ sent = NoAddress
    /\ waiting = {}
    /\ refused = FALSE

(***************************************************************************)
(* Sending starts and stops at will, and may stop late.                    *)
(***************************************************************************)
Matches ==
    reserved' # NoAddress /\ ~refused' => sent' \in {reserved', NoAddress}

Keep ==
    /\ reserved' = reserved
    /\ waiting' \in {waiting, {}}
    /\ refused => refused'
    /\ Matches

Release ==
    /\ reserved # NoAddress
    /\ reserved' = NoAddress
    /\ waiting' = {reserved}
    /\ refused => refused'
    /\ Matches

Reserve ==
    /\ reserved = NoAddress
    /\ reserved' \in Addresses
    /\ \/ waiting' = {}
       \/ waiting' = {reserved'} /\ (waiting = waiting' \/ refused)
    /\ Matches

Next == Keep \/ Release \/ Reserve

Spec == Init /\ [][Next]_vars
=============================================================================
