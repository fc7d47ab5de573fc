------------------------------ MODULE MCDaemon ------------------------------
(* An instance of Daemon for TLC: files that do not parse, that hold none, *)
(* one or more robots, and, written by hand, the same robot twice.         *)
EXTENDS Daemon

CONSTANTS ip1, ip2, body1

MCEntry(ip) == [ip |-> ip, body |-> body1]
MCHandMade ==
    {Empty, Torn} \cup
    {Whole(list) : list \in {
        <<>>, <<MCEntry(ip1)>>, <<MCEntry(ip2), MCEntry(ip1)>>,
        <<MCEntry(ip1), MCEntry(ip1)>>,
        <<MCEntry(ip1), MCEntry(ip2), MCEntry(ip2)>>}}
=============================================================================
