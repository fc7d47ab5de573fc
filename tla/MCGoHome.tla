------------------------------ MODULE MCGoHome ------------------------------
(* An instance of GoHome for TLC, in units of half a degree.               *)
EXTENDS GoHome

MCReports == {0, 100, 300, 719}
=============================================================================
