------------------------------- MODULE MCADP -------------------------------
(***************************************************************************)
(* Instances of ADP: a Milan and an IEEE entity, each with one interface   *)
(* and with two, and two entities for a list of one entry.                 *)
(*                                                                         *)
(* A tick is the advertise interval, 5 s for Milan and a quarter of        *)
(* valid_time for IEEE.  The random delay is at most 4 s, or a fifth of    *)
(* valid_time: one tick at most.  An entry lives for 20 s, or valid_time;  *)
(* with 5 ticks two advertisements fit as they do in the code, where the   *)
(* longest period is 0.45 of the life of an entry.                         *)
(***************************************************************************)
EXTENDS ADP

CONSTANTS e1, e2

\* Links, applications and the grandmaster come at any time.
Milan == [milan |-> TRUE, entities |-> {e1}, ports |-> {1}, slots |-> {1, 2},
          delays |-> {0, 1}, interval |-> 1, valid |-> 5, tolerates |-> 1,
          gms |-> {1}, prompt |-> FALSE, faults |-> 2]

Ieee == [Milan EXCEPT !.milan = FALSE, !.faults = 1]

MilanPair == [Milan EXCEPT !.ports = {1, 2}, !.slots = {1}, !.gms = {},
                           !.prompt = TRUE, !.faults = 1]

IeeePair == [MilanPair EXCEPT !.milan = FALSE, !.delays = {1}]

FullList == [IeeePair EXCEPT !.entities = {e1, e2}, !.ports = {1}]

MCConfigs == {Milan, Ieee, MilanPair, IeeePair, FullList}
=============================================================================
