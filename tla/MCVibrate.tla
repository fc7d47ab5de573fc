----------------------------- MODULE MCVibrate -----------------------------
(* An instance of VibrateArm for TLC: 12 ticks to the second, work shorter *)
(* than an interval, as long, and longer; readings that come in time and   *)
(* late; a turn of 3 units, ranges within a turn and beyond it.            *)
EXTENDS VibrateArm

MCTimers      == {-1, 2}
MCFrequencies == {-2, 0, 3, 5}
MCWorks       == {0, 1, 4, 7}
MCReads       == {2, 3}
MCRanges      == {-2, 3, 7}
=============================================================================
