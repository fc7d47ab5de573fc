----------------------------- MODULE MCGotoMain -----------------------------
(* An instance of GotoMain for TLC: angles of two to six characters, one   *)
(* above 360 and one below 0, in lists of up to four for an arm of two     *)
(* joints.                                                                 *)
EXTENDS GotoMain

CONSTANTS vibrate, goto

A90   == <<9, 0>>
A9_25 == <<9, Point, 2, 5>>
A360  == <<3, 6, 0, Point, 0>>
A110  == <<1, 1, 0, Point, 5, 7>>
A361  == <<3, 6, 1>>
M5    == <<Minus, 5>>
M0    == <<Minus, 0, Point, 0>>

MCTyped ==
    {<<A90>>, <<A361, A90>>, <<A110, A90, A360>>,
     <<A360, A9_25, A90, A360>>, <<M0, A110, A360, A9_25>>, <<A90, M5, A90>>}
MCBeyond == {<<>>, <<9>>}
=============================================================================
