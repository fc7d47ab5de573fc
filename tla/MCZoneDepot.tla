---------------------------- MODULE MCZoneDepot ----------------------------
(* An instance of ZoneDepot for TLC: files that are empty at first, or     *)
(* hold one robot.                                                         *)
EXTENDS ZoneDepot

CONSTANTS ip1, ip2, body1, body2, w1, w2

MCDeposits == {Empty, Whole(<<[ip |-> ip1, body |-> body1]>>)}
=============================================================================
