----------------------------- MODULE RobotRegistry -----------------------------
(***************************************************************************)
(* What the web service promises of its zoneDepot: two maps from the       *)
(* address of a robot to what was asked of it.  A robot is created once    *)
(* and then stays, its parameters are replaced, and each request is one    *)
(* step, until the map lapses: then nothing is promised of it any more,    *)
(* and it counts as empty.  ZoneDepot is how controller.LMG.php does it.   *)
(***************************************************************************)
CONSTANTS
    Ips,     \* addresses a request may name
    Bodies,  \* request bodies that decode to an array
    NoBody,  \* null: a body that does not
    Absent   \* the robot is not in the map

VARIABLES
    registry,  \* "commands" and "parameters", each a map from Ips
    lapsed     \* those that nothing is promised of

Maps == {"commands", "parameters"}
Entries == Bodies \cup {NoBody, Absent}
NoEntries == [ip \in Ips |-> Absent]

Init ==
    /\ registry \in [Maps -> [Ips -> Entries]] /\ lapsed \subseteq Maps
    /\ \A map \in lapsed : registry[map] = NoEntries

Create(ip, body) ==
    /\ "commands" \notin lapsed /\ registry["commands"][ip] = Absent
    /\ registry' = [registry EXCEPT !["commands"][ip] = body]
    /\ UNCHANGED lapsed

\* Only a robot that has parameters can lose them to null.
Update(ip, body) ==
    /\ "parameters" \notin lapsed
    /\ body = NoBody => registry["parameters"][ip] # Absent
    /\ registry' = [registry EXCEPT !["parameters"][ip] = body]
    /\ UNCHANGED lapsed

Lapse(map) ==
    /\ lapsed' = lapsed \cup {map}
    /\ registry' = [registry EXCEPT ![map] = NoEntries]

Next ==
    \/ \E ip \in Ips :
          \/ \E body \in Bodies : Create(ip, body)
          \/ \E body \in Bodies \cup {NoBody} : Update(ip, body)
    \/ \E map \in Maps : Lapse(map)

Spec == Init /\ [][Next]_<<registry, lapsed>>
===============================================================================
