----------------------------- MODULE DrawingSystem -----------------------------
(***************************************************************************)
(* The web service and the daemon on one zoneDepot: PHP workers write the  *)
(* files, the daemon polls them.  Nothing but the files connects the two.  *)
(***************************************************************************)
EXTENDS ZoneDepot

CONSTANT NoAngles

VARIABLES at, jsonCommands, i, robots

\* To the daemon the workers are one more hand in the files.
Daemon == INSTANCE Daemon WITH HandMade <- Contents(Entry)

daemonVars == <<at, jsonCommands, i, robots>>

SystemInit == Init /\ Daemon!DaemonInit

Web == Next /\ UNCHANGED daemonVars
Poll ==
    /\ Daemon!DaemonNext
    /\ UNCHANGED <<pc, request, array, requests, faults, posted, accepted, disturbed>>

SystemNext == Web \/ Poll

System == SystemInit /\ [][SystemNext]_<<vars, daemonVars>>

\* The workers serve the requests they have, and the daemon's thread runs.
FairSystem ==
    /\ System
    /\ \A w \in Workers : WF_<<vars, daemonVars>>(Serve(w) /\ UNCHANGED daemonVars)
    /\ WF_<<vars, daemonVars>>(Poll)

-------------------------------------------------------------------------------
Running(ip) == Daemon!EnAction(ip)

\* The daemon starts robots that were posted, never one that only has
\* parameters, whatever it catches of a file being written.
StartedWasPosted ==
    \A k \in 1 .. Len(robots) : \E entry \in posted["commands"] : entry.ip = robots[k].ip

\* A robot that was started is still listed, except while the file is being
\* written, so a daemon that is run again finds it: as long as commands.json was
\* not disturbed.
StartedStaysListed ==
    "commands" \in disturbed \/ Writing("commands") \/
        \A k \in 1 .. Len(robots) :
            \E entry \in Stored(depot["commands"]) : entry.ip = robots[k].ip

\* controller.LMG.php:97, "Le robot a ete starter", answered with 201: the
\* daemon starts it, or has aborted.
Started ==
    \A ip \in Ips : ip \in accepted["commands"] ~> Running(ip) \/ at = "aborted"
===============================================================================
