----------------------------- MODULE MCWebPage -----------------------------
(* An instance of WebPage for TLC: nothing in zoneDepot at first; besides  *)
(* addresses, the operator may leave the input empty.                      *)
EXTENDS WebPage

CONSTANTS ip1, ip2, zeros, body1, w1, w2, blank

MCDeposits == {Empty}
=============================================================================
