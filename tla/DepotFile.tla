------------------------------- MODULE DepotFile -------------------------------
(***************************************************************************)
(* A json file of zoneDepot, as a process that reads it whole finds it: a  *)
(* document with a list of robots, nothing at all, or text that does not   *)
(* parse.                                                                  *)
(***************************************************************************)
EXTENDS Naturals, Sequences

Files == {"commands", "parameters"}

Empty == [state |-> "empty", robots |-> <<>>]
Torn  == [state |-> "torn", robots |-> <<>>]
Whole(robots) == [state |-> "whole", robots |-> robots]
Contents(Entry) == [state : {"whole", "empty", "torn"}, robots : Seq(Entry)]

Stored(content) == {content.robots[k] : k \in 1 .. Len(content.robots)}

\* No robot is there twice.
Distinct(robots) ==
    \A j, k \in 1 .. Len(robots) : robots[j].ip = robots[k].ip => j = k
===============================================================================
