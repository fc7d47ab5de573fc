--------------------------- MODULE MCDrawingSystem ---------------------------
(* Instances of DrawingSystem for TLC: no robot in the files at first, or  *)
(* two, of which the daemon starts both.                                   *)
EXTENDS DrawingSystem

CONSTANTS ip1, ip2, ip3, body1, w1, w2

MCNone == {Whole(<<>>)}
MCTwo == {Whole(<<[ip |-> ip1, body |-> body1], [ip |-> ip2, body |-> body1]>>)}
=============================================================================
