---------------------------- MODULE MCGotoAngles ----------------------------
(* Instances of GotoAngles for TLC: a turn of 20 units, increments of 3.   *)
(* -8 and 29 are within a turn of some reported positions only.            *)
EXTENDS GotoAngles

MCTurn       == 20
MCStep       == 3
MCAngles     == {-8, 0, 9, 20, 29}
MCReports    == {0, 19}
MCVelocities == {2, 40}
MCJunk       == {-1, 5}
=============================================================================
