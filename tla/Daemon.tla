-------------------------------- MODULE Daemon --------------------------------
(***************************************************************************)
(* main of daemon.cpp: once a second it reads both files of zoneDepot and  *)
(* starts a Robot for every entry of commands.json that has none.  The     *)
(* source never gives filePath a value, so it opens /commands.json: the    *)
(* model takes zoneDepot to be mounted there.                              *)
(* An exception nobody catches, and undefined behaviour when it ends the   *)
(* program, both lead to "aborted".                                        *)
(***************************************************************************)
EXTENDS DepotFile

CONSTANTS
    NoAngles,  \* an empty commands.angles
    HandMade   \* what anyone may put into the files while the daemon runs

ASSUME DaemonAssumption == \A content \in HandMade : content \in Contents(Stored(content))

VARIABLES
    depot,         \* the two files
    at,            \* "poll", "parameters", "scan", "wait" or "aborted"
    jsonCommands,  \* jsonCommands["robots"] of this poll
    i,             \* index of the scan, from 1
    robots         \* the Robots started: address and angles, in order

daemonVars == <<at, jsonCommands, i, robots>>

\* ParsingJson(filePath+"/commands.json").  The mutant reads the other file.
OtherFile == "parameters"
CommandsFile == "commands"

\* json::parse throws on an empty or torn file, and nobody catches.
Parses(file) == depot[file].state = "whole"

\* enAction.  The mutant compares with the first robot only.
EnActionFirst(ip) == Len(robots) > 0 /\ robots[1].ip = ip
EnAction(ip) == \E k \in 1 .. Len(robots) : robots[k].ip = ip

\* The angles are read under "commands" of the entry, where there is nothing:
\* ModelCommands and the template put them under "infoDessin".
Angles(entry) == IF "commands" \in DOMAIN entry THEN entry.commands ELSE NoAngles

\* for (...; 1 < size; ...): the condition does not look at i.
Scanning == at = "scan" /\ 1 < Len(jsonCommands)

\* i++.  The mutant skips every second robot.
NextIndexTwice == i + 2
NextIndex == i + 1

DaemonInit ==
    /\ at = "poll" /\ jsonCommands = <<>> /\ i = 1 /\ robots = <<>>

ReadCommands ==
    /\ at = "poll"
    /\ IF Parses(CommandsFile)
       THEN at' = "parameters" /\ jsonCommands' = depot[CommandsFile].robots
       ELSE at' = "aborted" /\ UNCHANGED jsonCommands
    /\ i' = 1
    /\ UNCHANGED <<depot, robots>>

ReadParameters ==
    /\ at = "parameters"
    /\ at' = IF Parses("parameters") THEN "scan" ELSE "aborted"
    /\ UNCHANGED <<depot, jsonCommands, i, robots>>

SkipRobot ==
    /\ Scanning /\ i =< Len(jsonCommands)
    /\ EnAction(jsonCommands[i].ip)
    /\ i' = NextIndex
    /\ UNCHANGED <<depot, at, jsonCommands, robots>>

\* The local robot is copied into the vector and then destroyed: it deletes
\* what the copy points to, and its own session_manager was never set.
StartRobot ==
    /\ Scanning /\ i =< Len(jsonCommands)
    /\ LET entry == jsonCommands[i]
       IN /\ ~EnAction(entry.ip)
          /\ robots' = Append(robots, [ip |-> entry.ip, angles |-> Angles(entry)])
    /\ at' \in {"scan", "aborted"}
    /\ i' = NextIndex
    /\ UNCHANGED <<depot, jsonCommands>>

\* operator[] grows the array by a null entry, whose address get<std::string>
\* then throws on.
PastTheEnd ==
    /\ Scanning /\ i > Len(jsonCommands)
    /\ at' = "aborted"
    /\ UNCHANGED <<depot, jsonCommands, i, robots>>

ScanDone ==
    /\ at = "scan" /\ Len(jsonCommands) =< 1
    /\ at' = "wait"
    /\ UNCHANGED <<depot, jsonCommands, i, robots>>

\* The rest of the second has passed.
Wait ==
    /\ at = "wait"
    /\ at' = "poll"
    /\ UNCHANGED <<depot, jsonCommands, i, robots>>

DaemonNext ==
    \/ ReadCommands \/ ReadParameters
    \/ SkipRobot \/ StartRobot \/ PastTheEnd \/ ScanDone
    \/ Wait

\* The daemon over files that change under it as they like.
Rewrite ==
    /\ \E file \in Files, content \in HandMade : depot' = [depot EXCEPT ![file] = content]
    /\ UNCHANGED daemonVars

Init == depot \in [Files -> HandMade] /\ DaemonInit

Next == DaemonNext \/ Rewrite

Spec == Init /\ [][Next]_<<depot, daemonVars>>

-------------------------------------------------------------------------------
\* What may be started: the Robot of an entry that was in a file.
Startable ==
    LET entries == UNION {Stored(content) : content \in HandMade}
    IN {[ip |-> entry.ip, angles |-> Angles(entry)] : entry \in entries}

TypeOK ==
    /\ depot \in [Files -> HandMade]
    /\ at \in {"poll", "parameters", "scan", "wait", "aborted"}
    /\ jsonCommands \in {<<>>} \cup {content.robots : content \in HandMade}
    /\ i \in 1 .. Len(jsonCommands) + 1
    /\ robots \in Seq(Startable)

\* The first entry of its address.
FirstEntry(k) == \A j \in 1 .. k - 1 : jsonCommands[j].ip # jsonCommands[k].ip

\* Robot k is that of entry j.
StartedFrom(k, j) ==
    /\ FirstEntry(j)
    /\ robots[k] = [ip |-> jsonCommands[j].ip, angles |-> Angles(jsonCommands[j])]
    /\ {robots[l].ip : l \in 1 .. k - 1} = {jsonCommands[l].ip : l \in 1 .. j - 1}

\* The Robots are those of one reading of the file, however often it was polled
\* before and whatever became of it since: each is that of the first entry with
\* its address, with the angles of that entry, after those of the entries before
\* it.  So none is started twice, and none out of turn (daemon.cpp:36-74).
StartedInOrder == \A k \in 1 .. Len(robots) : \E j \in 1 .. i - 1 : StartedFrom(k, j)

\* A scan works on what one poll read: the robots it has passed are started,
\* in the order of that reading, even when the file is rewritten meanwhile.
ScanIsComplete ==
    at = "scan" => \A k \in 1 .. i - 1 : EnAction(jsonCommands[k].ip)
===============================================================================
