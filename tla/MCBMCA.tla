------------------------------- MODULE MCBMCA -------------------------------
(***************************************************************************)
(* Instances of BMCA: a line of three systems and a ring of three.         *)
(***************************************************************************)
EXTENDS BMCA, TLC

Cable(e, f) == e :> f @@ f :> e

Line == Cable(<<1, 1>>, <<2, 1>>) @@ Cable(<<2, 2>>, <<3, 1>>)

Ring == Line @@ Cable(<<3, 2>>, <<1, 2>>)

MCNets == {[cable |-> Line, faults |-> 2], [cable |-> Ring, faults |-> 0]}

MCEnds == {1, 2, 3} \X {1, 2}

(* System 3 is the best, system 2 can not be grandmaster. *)
MCRanks == 1 :> 2 @@ 2 :> 3 @@ 3 :> 1
=============================================================================
