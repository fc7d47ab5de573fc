-------------------------- MODULE DrawingSystem_proofs --------------------------
(* Proofs about DrawingSystem: the daemon changes nothing for the web      *)
(* service, the web service is to the daemon files that change, and the    *)
(* daemon starts only what the web service was asked for.                  *)
EXTENDS DrawingSystem, ZoneDepot_proofs

\* An entry of the web service has no "commands", so a Robot has no angles.
Robots == [ip : Ips, angles : {NoAngles}]

DaemonTyped ==
    jsonCommands \in Seq(Entry) /\ i \in Nat \ {0} /\ robots \in Seq(Robots)

ReadWasPosted ==
    \A k \in 1 .. Len(jsonCommands) :
        \E entry \in posted["commands"] : entry.ip = jsonCommands[k].ip

SystemInv == Inv /\ DaemonTyped /\ ReadWasPosted /\ StartedWasPosted

\* What the daemon has read, and has started, stays registered.
ReadHeld ==
    /\ \A k \in 1 .. Len(jsonCommands) : Held["commands"][jsonCommands[k].ip] # Absent
    /\ \A k \in 1 .. Len(robots) : Held["commands"][robots[k].ip] # Absent

SystemKeptInv == SystemInv /\ KeptInv /\ ("commands" \notin disturbed => ReadHeld)

-------------------------------------------------------------------------------
\* What a step of the daemon does with its variables.
LEMMA PollStep ==
    ASSUME Inv, DaemonTyped, Daemon!DaemonNext
    PROVE  /\ DaemonTyped' /\ depot' = depot
           /\ \/ jsonCommands' = jsonCommands
              \/ /\ jsonCommands' = depot["commands"].robots
                 /\ depot["commands"].state = "whole"
           /\ \/ robots' = robots
              \/ /\ jsonCommands' = jsonCommands
                 /\ \E k \in 1 .. Len(jsonCommands) :
                       robots' = Append(robots, [ip |-> jsonCommands[k].ip, angles |-> NoAngles])
  <1>1. CASE Daemon!ReadCommands
    <2>1. depot["commands"].robots \in Seq(Entry)
      BY DEF Inv, TypeOK, Files, Contents
    <2> QED
      BY <1>1, <2>1 DEF Daemon!ReadCommands, Daemon!CommandsFile, Daemon!Parses, DaemonTyped
  <1>2. CASE Daemon!StartRobot
    <2>1. /\ i =< Len(jsonCommands) /\ i' = i + 1
          /\ robots' = Append(robots, [ip |-> jsonCommands[i].ip,
                                       angles |-> Daemon!Angles(jsonCommands[i])])
          /\ depot' = depot /\ jsonCommands' = jsonCommands
      BY <1>2 DEF Daemon!StartRobot, Daemon!NextIndex
    <2>2. i \in 1 .. Len(jsonCommands) /\ jsonCommands[i] \in Entry
      BY <2>1, SMT DEF DaemonTyped
    <2>3. Daemon!Angles(jsonCommands[i]) = NoAngles /\ jsonCommands[i].ip \in Ips
      BY <2>2 DEF Daemon!Angles, Entry
    <2>4. [ip |-> jsonCommands[i].ip, angles |-> NoAngles] \in Robots
      BY <2>3 DEF Robots
    <2>5. DaemonTyped'
      BY <2>1, <2>3, <2>4, SMT DEF DaemonTyped
    <2> QED
      BY <2>1, <2>2, <2>3, <2>5
  <1>3. CASE Daemon!SkipRobot
    BY <1>3 DEF Daemon!SkipRobot, Daemon!NextIndex, DaemonTyped
  <1>4. CASE Daemon!ReadParameters \/ Daemon!PastTheEnd \/ Daemon!ScanDone \/ Daemon!Wait
    BY <1>4 DEF Daemon!ReadParameters, Daemon!PastTheEnd, Daemon!ScanDone, Daemon!Wait, DaemonTyped
  <1> QED
    BY <1>1, <1>2, <1>3, <1>4 DEF Daemon!DaemonNext

\* To the web service a step of the system is its own, or none.
LEMMA SystemStep ==
    ASSUME Inv, DaemonTyped, [SystemNext]_<<vars, daemonVars>>
    PROVE  [Next]_vars
  <1>1. CASE Poll
    <2>1. depot' = depot
      BY <1>1, PollStep DEF Poll
    <2> QED
      BY <1>1, <2>1 DEF Poll, vars
  <1> QED
    BY <1>1 DEF SystemNext, Web, vars

\* What was posted stays posted.
LEMMA PostedGrows ==
    ASSUME TypeOK, [Next]_vars
    PROVE  \A f \in Files : posted[f] \subseteq posted'[f]
  <1>1. ASSUME NEW w \in Workers, NEW r \in Requests, Receive(w, r)
        PROVE  \A f \in Files : posted[f] \subseteq posted'[f]
    BY <1>1 DEF Receive, TypeOK
  <1>2. ASSUME NEW w \in Workers, Serve(w) \/ Die(w) PROVE posted' = posted
    BY <1>2 DEF Serve, Die, Refuse, Fail, Prepare, Truncate, Write, WriteFails, Answer
  <1> QED
    BY <1>1, <1>2 DEF Next, vars

LEMMA SystemInvInit == SystemInit => SystemInv
  <1> SUFFICES ASSUME SystemInit PROVE SystemInv
    OBVIOUS
  <1>1. Inv
    BY InitInv DEF SystemInit
  <1>2. jsonCommands = <<>> /\ i = 1 /\ robots = <<>>
    BY DEF SystemInit, Daemon!DaemonInit
  <1>3. DaemonTyped
    BY <1>2, SMT DEF DaemonTyped
  <1>4. 1 .. Len(jsonCommands) = {} /\ 1 .. Len(robots) = {}
    BY <1>2, SMT
  <1> QED
    BY <1>1, <1>3, <1>4 DEF SystemInv, StartedWasPosted, ReadWasPosted

LEMMA SystemInvStep ==
    ASSUME SystemInv, [SystemNext]_<<vars, daemonVars>> PROVE SystemInv'
  <1>1. Inv /\ DaemonTyped /\ TypeOK
    BY DEF SystemInv, Inv
  <1>2. [Next]_vars /\ Inv'
    BY <1>1, SystemStep, StepInv
  <1>3. "commands" \in Files
    BY DEF Files
  <1>4. posted["commands"] \subseteq posted'["commands"]
    BY <1>1, <1>2, <1>3, PostedGrows
  <1>5. CASE UNCHANGED daemonVars
    <2>1. DaemonTyped'
      BY <1>1, <1>5 DEF DaemonTyped, daemonVars
    <2>2. ReadWasPosted' /\ StartedWasPosted'
      BY <1>4, <1>5 DEF SystemInv, ReadWasPosted, StartedWasPosted, daemonVars
    <2> QED
      BY <1>2, <2>1, <2>2 DEF SystemInv
  <1>6. CASE Poll
    <2>1. posted' = posted
      BY <1>6 DEF Poll
    <2>2. ReadWasPosted'
      <3>1. CASE jsonCommands' = jsonCommands
        BY <2>1, <3>1 DEF SystemInv, ReadWasPosted
      <3>2. CASE jsonCommands' = depot["commands"].robots
        BY <1>1, <1>3, <2>1, <3>2 DEF Inv, FilesClean, Clean, ReadWasPosted
      <3> QED
        BY <1>1, <1>6, <3>1, <3>2, PollStep DEF Poll
    <2>3. StartedWasPosted'
      <3>1. CASE robots' = robots
        BY <2>1, <3>1 DEF SystemInv, StartedWasPosted
      <3>2. CASE robots' # robots
        <4>1. PICK k \in 1 .. Len(jsonCommands) :
                 robots' = Append(robots, [ip |-> jsonCommands[k].ip, angles |-> NoAngles])
          BY <1>1, <1>6, <3>2, PollStep DEF Poll
        <4>2. \A n \in 1 .. Len(robots') :
                 (n \in 1 .. Len(robots) /\ robots'[n] = robots[n])
                 \/ robots'[n] = [ip |-> jsonCommands[k].ip, angles |-> NoAngles]
          BY <1>1, <4>1, SMT DEF DaemonTyped
        <4> QED
          BY <2>1, <4>2 DEF SystemInv, StartedWasPosted, ReadWasPosted
      <3> QED
        BY <3>1, <3>2
    <2>4. DaemonTyped'
      BY <1>1, <1>6, PollStep DEF Poll
    <2> QED
      BY <1>2, <2>2, <2>3, <2>4 DEF SystemInv
  <1> QED
    BY <1>5, <1>6 DEF SystemNext, Web, daemonVars

-------------------------------------------------------------------------------
LEMMA SystemInvHolds == System => []SystemInv
  BY SystemInvInit, SystemInvStep, PTL DEF System

\* The daemon, whatever it does, leaves the web service what ZoneDepot says it
\* is (daemon.cpp:13-21 only reads the files).
THEOREM DaemonOnlyReads == System => Spec
  <1>1. SystemInit => Init
    BY DEF SystemInit
  <1>2. SystemInv /\ [SystemNext]_<<vars, daemonVars>> => [Next]_vars
    BY SystemStep DEF SystemInv
  <1> QED
    BY <1>1, <1>2, SystemInvHolds, PTL DEF System, Spec

\* The daemon starts robots that were posted, for any number of workers and
\* whatever they lose or tear (daemon.cpp:36-73).
THEOREM StartsWhatWasPosted == System => []StartedWasPosted
  <1>1. SystemInv => StartedWasPosted
    BY DEF SystemInv
  <1> QED
    BY <1>1, SystemInvHolds, PTL

-------------------------------------------------------------------------------
(* What Daemon_proofs says of the daemon.                                  *)

Polled == INSTANCE Daemon_proofs WITH HandMade <- Contents(Entry)

\* The daemon is the same in both instances.
LEMMA SameDaemon == Daemon!DaemonNext => Polled!DaemonNext
  <1> USE DEF Daemon!CommandsFile, Polled!CommandsFile, Daemon!Parses, Polled!Parses,
              Daemon!EnAction, Polled!EnAction, Daemon!Angles, Polled!Angles,
              Daemon!Scanning, Polled!Scanning, Daemon!NextIndex, Polled!NextIndex
  <1>1. Daemon!ReadCommands => Polled!ReadCommands
    BY DEF Daemon!ReadCommands, Polled!ReadCommands
  <1>2. Daemon!ReadParameters => Polled!ReadParameters
    BY DEF Daemon!ReadParameters, Polled!ReadParameters
  <1>3. Daemon!SkipRobot => Polled!SkipRobot
    BY DEF Daemon!SkipRobot, Polled!SkipRobot
  <1>4. Daemon!StartRobot => Polled!StartRobot
    BY DEF Daemon!StartRobot, Polled!StartRobot
  <1>5. Daemon!PastTheEnd => Polled!PastTheEnd
    BY DEF Daemon!PastTheEnd, Polled!PastTheEnd
  <1>6. Daemon!ScanDone => Polled!ScanDone
    BY DEF Daemon!ScanDone, Polled!ScanDone
  <1>7. Daemon!Wait => Polled!Wait
    BY DEF Daemon!Wait, Polled!Wait
  <1> QED
    BY <1>1, <1>2, <1>3, <1>4, <1>5, <1>6, <1>7 DEF Daemon!DaemonNext, Polled!DaemonNext

\* A step of the web service gives at most one file a new content.
LEMMA OneFileChanges ==
    ASSUME Inv, [Next]_vars
    PROVE  \E f \in Files, content \in Contents(Entry) : depot' = [depot EXCEPT ![f] = content]
  <1>1. depot \in [Files -> Contents(Entry)] /\ depot' \in [Files -> Contents(Entry)]
    BY StepInv DEF Inv, TypeOK
  <1>2. \E f \in Files : \E content : depot' = [depot EXCEPT ![f] = content]
    <2>1. CASE depot' = depot
      <3>1. "commands" \in Files /\ depot' = [depot EXCEPT !["commands"] = depot["commands"]]
        BY <1>1, <2>1 DEF Files
      <3> QED
        BY <3>1
    <2>2. ASSUME NEW w \in Workers, Truncate(w) \/ Write(w) \/ WriteFails(w) \/ Die(w)
          PROVE  \E f \in Files : \E content : depot' = [depot EXCEPT ![f] = content]
      <3>1. File(w) \in Files
        BY DEF File, Files
      <3> QED
        BY <2>2, <3>1 DEF Truncate, Write, WriteFails, Die, Fault
    <2>3. ASSUME NEW w \in Workers, Refuse(w) \/ Fail(w) \/ Prepare(w)
          PROVE  depot' = depot
      BY <2>3 DEF Refuse, Fail, Prepare
    <2>4. ASSUME NEW w \in Workers, NEW r \in Requests, Receive(w, r)
          PROVE  depot' = depot
      BY <2>4 DEF Receive
    <2>5. CASE UNCHANGED vars
      BY <2>1, <2>5 DEF vars
    <2> QED
      BY <2>1, <2>2, <2>3, <2>4, <2>5 DEF Next, Serve
  <1>3. PICK f \in Files : \E content : depot' = [depot EXCEPT ![f] = content]
    BY <1>2
  <1>4. PICK content : depot' = [depot EXCEPT ![f] = content]
    BY <1>3
  <1>5. content = depot'[f] /\ depot'[f] \in Contents(Entry)
    BY <1>1, <1>4
  <1> QED
    BY <1>4, <1>5

\* To the daemon a step of the system is its own, or a rewritten file.
LEMMA DaemonStep ==
    ASSUME Inv, [SystemNext]_<<vars, daemonVars>>
    PROVE  [Polled!Next]_<<depot, Polled!daemonVars>>
  <1>1. CASE Web
    <2>1. \E f \in Files, content \in Contents(Entry) : depot' = [depot EXCEPT ![f] = content]
      BY <1>1, OneFileChanges DEF Web
    <2>2. Polled!Rewrite
      BY <1>1, <2>1 DEF Web, daemonVars, Polled!Rewrite, Polled!daemonVars, Files, Polled!Files
    <2> QED
      BY <2>2 DEF Polled!Next
  <1>2. CASE Poll
    <2>1. Polled!DaemonNext
      BY <1>2, SameDaemon DEF Poll
    <2> QED
      BY <2>1 DEF Polled!Next
  <1>3. CASE UNCHANGED <<vars, daemonVars>>
    BY <1>3 DEF vars, daemonVars, Polled!daemonVars
  <1> QED
    BY <1>1, <1>2, <1>3 DEF SystemNext

\* The daemon behind the web service is the daemon over files that change as
\* they like (daemon.cpp:31-85, controller.LMG.php:59-148).
THEOREM WebOnlyRewrites == System => Polled!Spec
  <1>1. SystemInit => Polled!Init
    <2> SUFFICES ASSUME SystemInit PROVE Polled!Init
      OBVIOUS
    <2>1. depot \in [Files -> Contents(Entry)]
      BY ZoneDepotAssumption DEF SystemInit, Init
    <2> QED
      BY <2>1 DEF SystemInit, Daemon!DaemonInit, Polled!Init, Polled!DaemonInit,
         Files, Polled!Files
  <1>2. SystemInv /\ [SystemNext]_<<vars, daemonVars>> => [Polled!Next]_<<depot, Polled!daemonVars>>
    BY DaemonStep DEF SystemInv
  <1> QED
    BY <1>1, <1>2, SystemInvHolds, PTL DEF System, Polled!Spec

\* What a worker writes are contents in the sense of DaemonAssumption.
LEMMA WrittenStands ==
    \A content \in Contents(Entry) : content \in Polled!Contents(Polled!Stored(content))
  <1> SUFFICES ASSUME NEW content \in Contents(Entry)
               PROVE  content \in Polled!Contents(Polled!Stored(content))
    OBVIOUS
  <1>1. content.robots \in Seq(Entry)
    BY DEF Contents
  <1>2. content.robots \in Seq(Polled!Stored(content))
    BY <1>1, SMT DEF Polled!Stored
  <1> QED
    BY <1>2 DEF Contents, Polled!Contents

\* Whatever the workers do to the files, the Robots are those of one reading of
\* commands.json, in its order, and none is started twice (daemon.cpp:36-74).
THEOREM StartsInOrderEach == System => []Daemon!StartedInOrder
  <1>1. Polled!StartedInOrder => Daemon!StartedInOrder
    BY DEF Polled!StartedInOrder, Daemon!StartedInOrder, Polled!StartedFrom, Daemon!StartedFrom,
           Polled!FirstEntry, Daemon!FirstEntry, Polled!Angles, Daemon!Angles
  <1>2. Polled!Spec => []Polled!StartedInOrder
    BY WrittenStands, Polled!StartsInOrder
  <1> QED
    BY <1>1, <1>2, WebOnlyRewrites, PTL

\* Whatever the workers do to the files, a scan has started every robot it has
\* passed (daemon.cpp:39-75).
THEOREM EveryScanIsComplete == System => []Daemon!ScanIsComplete
  <1>1. Polled!ScanIsComplete => Daemon!ScanIsComplete
    BY DEF Polled!ScanIsComplete, Daemon!ScanIsComplete, Polled!EnAction, Daemon!EnAction
  <1>2. Polled!Spec => []Polled!ScanIsComplete
    BY WrittenStands, Polled!CompleteScan
  <1> QED
    BY <1>1, <1>2, WebOnlyRewrites, PTL

\* A daemon behind the web service that has started a Robot never polls again:
\* robots posted later are not started by it, whatever the answer said
\* (daemon.cpp:39, controller.LMG.php:97).
THEOREM PollsEndWithAStart == System => [](robots # <<>> => at \in {"scan", "aborted"})
  <1>1. Polled!StillScanning => (robots # <<>> => at \in {"scan", "aborted"})
    BY DEF Polled!StillScanning
  <1>2. Polled!Spec => []Polled!StillScanning
    BY WrittenStands, Polled!NoPollAfterStart
  <1> QED
    BY <1>1, <1>2, WebOnlyRewrites, PTL

-------------------------------------------------------------------------------
(* What the daemon has read, until commands.json is disturbed.             *)

\* RobotRegistry takes no robot away before the map lapses.
LEMMA HeldStays ==
    ASSUME KeptInv, [Next]_vars, "commands" \notin disturbed',
           NEW ip \in Ips, Held["commands"][ip] # Absent
    PROVE  Held'["commands"][ip] # Absent
  <1>1. [Registry!Next]_<<Held, disturbed>>
    BY HeldStep
  <1>2. "commands" \in DOMAIN Held /\ DOMAIN Held["commands"] = Ips
    BY DEF Held, Files, Registered
  <1>3. ASSUME NEW other \in Ips, NEW body \in Bodies, Registry!Create(other, body)
        PROVE  Held'["commands"][ip] # Absent
    <2>1. other # ip /\ Held' = [Held EXCEPT !["commands"][other] = body]
      BY <1>3 DEF Registry!Create
    <2> QED
      BY <1>2, <2>1
  <1>4. ASSUME NEW other \in Ips, NEW body \in Bodies \cup {NoBody}, Registry!Update(other, body)
        PROVE  Held'["commands"][ip] # Absent
    <2>1. Held' = [Held EXCEPT !["parameters"][other] = body]
      BY <1>4 DEF Registry!Update
    <2> QED
      BY <1>2, <2>1
  <1>5. ASSUME NEW map \in Registry!Maps, Registry!Lapse(map)
        PROVE  Held'["commands"][ip] # Absent
    <2>1. map # "commands" /\ Held' = [Held EXCEPT ![map] = Registry!NoEntries]
      BY <1>5 DEF Registry!Lapse
    <2> QED
      BY <1>2, <2>1
  <1> QED
    BY <1>1, <1>3, <1>4, <1>5 DEF Registry!Next

\* What a file that parses lists is registered.
LEMMA ListedHeld ==
    ASSUME KeptInv, "commands" \notin disturbed, depot["commands"].state = "whole",
           NEW k \in 1 .. Len(depot["commands"].robots)
    PROVE  Held["commands"][depot["commands"].robots[k].ip] # Absent
  <1> DEFINE list == depot["commands"].robots
  <1>1. list \in Seq(Entry) /\ Distinct(list)
    BY DEF KeptInv, Inv, TypeOK, FilesClean, Clean, Files, Contents
  <1>2. ~Writing("commands")
    <2>1. depot["commands"] # Empty
      BY DEF Empty
    <2>2. Kept("commands")
      BY DEF KeptInv, Files
    <2> QED
      BY <2>1, <2>2 DEF Kept, Copying, Copied, Writing
  <1>3. Held["commands"] = Registered(list)
    BY <1>2 DEF Held, Files
  <1>4. list[k] \in Entry
    BY <1>1, SMT
  <1>5. Registered(list)[list[k].ip] = list[k].body
    BY <1>1, RegisteredAt
  <1>6. list[k].body # Absent
    BY <1>4, ZoneDepotAssumption DEF Entry
  <1> QED
    BY <1>3, <1>5, <1>6

LEMMA SystemKeptInit == SystemInit => SystemKeptInv
  <1> SUFFICES ASSUME SystemInit PROVE SystemKeptInv
    OBVIOUS
  <1>1. SystemInv
    BY SystemInvInit
  <1>2. KeptInv
    BY KeptInit DEF SystemInit
  <1>3. jsonCommands = <<>> /\ robots = <<>>
    BY DEF SystemInit, Daemon!DaemonInit
  <1>4. 1 .. Len(jsonCommands) = {} /\ 1 .. Len(robots) = {}
    BY <1>3, SMT
  <1>5. ReadHeld
    BY <1>4 DEF ReadHeld
  <1> QED
    BY <1>1, <1>2, <1>5 DEF SystemKeptInv

\* The daemon reads a file that parses, or goes on with what it has read.
LEMMA PollKeeps ==
    ASSUME SystemKeptInv, Poll, "commands" \notin disturbed'
    PROVE  ReadHeld'
  <1>1. Inv /\ DaemonTyped /\ KeptInv /\ disturbed' = disturbed /\ ReadHeld
    BY DEF SystemKeptInv, SystemInv, Poll
  <1>2. Held' = Held
    <2>1. depot' = depot /\ pc' = pc /\ request' = request /\ array' = array
      BY <1>1, PollStep DEF Poll
    <2>2. \A f \in Files : (Writing(f)' <=> Writing(f)) /\ Writer(f)' = Writer(f)
      BY <2>1 DEF Writing, Writer, File
    <2>3. ASSUME NEW f \in Files PROVE Held'[f] = Held[f]
      BY <1>1, <2>1, <2>2 DEF Held
    <2> QED
      BY <2>3, HeldSame
  <1>3. \A k \in 1 .. Len(jsonCommands') : Held["commands"][jsonCommands'[k].ip] # Absent
    <2>1. CASE jsonCommands' = jsonCommands
      BY <1>1, <2>1 DEF ReadHeld
    <2>2. CASE /\ jsonCommands' = depot["commands"].robots
               /\ depot["commands"].state = "whole"
      BY <1>1, <2>2, ListedHeld
    <2> QED
      BY <1>1, <2>1, <2>2, PollStep DEF Poll
  <1>4. \A k \in 1 .. Len(robots') : Held["commands"][robots'[k].ip] # Absent
    <2>1. CASE robots' = robots
      BY <1>1, <2>1 DEF ReadHeld
    <2>2. CASE robots' # robots
      <3>1. PICK k \in 1 .. Len(jsonCommands) :
               robots' = Append(robots, [ip |-> jsonCommands[k].ip, angles |-> NoAngles])
        BY <1>1, <2>2, PollStep DEF Poll
      <3>2. \A n \in 1 .. Len(robots') :
               (n \in 1 .. Len(robots) /\ robots'[n] = robots[n])
               \/ robots'[n] = [ip |-> jsonCommands[k].ip, angles |-> NoAngles]
        BY <1>1, <3>1, SMT DEF DaemonTyped
      <3> QED
        BY <1>1, <3>2 DEF ReadHeld
    <2> QED
      BY <2>1, <2>2
  <1> QED
    BY <1>2, <1>3, <1>4 DEF ReadHeld

LEMMA SystemKeptStep ==
    ASSUME SystemKeptInv, [SystemNext]_<<vars, daemonVars>>
    PROVE  SystemKeptInv'
  <1>1. SystemInv /\ KeptInv /\ Inv /\ DaemonTyped
    BY DEF SystemKeptInv, SystemInv
  <1>2. SystemInv' /\ [Next]_vars
    BY <1>1, SystemInvStep, SystemStep
  <1>3. KeptInv'
    BY <1>1, <1>2, KeptStep
  <1>4. SUFFICES ASSUME "commands" \notin disturbed' PROVE ReadHeld'
    BY <1>2, <1>3 DEF SystemKeptInv
  <1>5. CASE UNCHANGED daemonVars
    <2>1. /\ \A k \in 1 .. Len(jsonCommands) : jsonCommands[k] \in Entry
          /\ \A k \in 1 .. Len(robots) : robots[k] \in Robots
      BY <1>1, SMT DEF DaemonTyped
    <2>2. /\ \A k \in 1 .. Len(jsonCommands) : jsonCommands[k].ip \in Ips
          /\ \A k \in 1 .. Len(robots) : robots[k].ip \in Ips
      BY <2>1 DEF Entry, Robots
    <2>3. ReadHeld
      <3>1. disturbed \subseteq disturbed'
        BY <1>1, <1>2, OneSteps DEF Next, vars
      <3> QED
        BY <1>4, <3>1 DEF SystemKeptInv
    <2>4. /\ \A k \in 1 .. Len(jsonCommands) : Held'["commands"][jsonCommands[k].ip] # Absent
          /\ \A k \in 1 .. Len(robots) : Held'["commands"][robots[k].ip] # Absent
      BY <1>1, <1>2, <1>4, <2>2, <2>3, HeldStays DEF ReadHeld
    <2> QED
      BY <1>5, <2>4 DEF ReadHeld, daemonVars
  <1>6. CASE Poll
    BY <1>4, <1>6, PollKeeps
  <1> QED
    BY <1>5, <1>6 DEF SystemNext, Web, daemonVars

\* A robot the daemon has started stays listed, for any number of workers, so
\* that a daemon that is run again finds it: until two copies of commands.json
\* are out at once, or a worker fails on it
\* (controller.LMG.php:78-97, daemon.cpp:36-50).
THEOREM StartedIsKept == System => []StartedStaysListed
  <1>1. SystemKeptInv /\ [SystemNext]_<<vars, daemonVars>> => SystemKeptInv'
    BY SystemKeptStep
  <1>2. SystemKeptInv => StartedStaysListed
    <2> SUFFICES ASSUME SystemKeptInv, "commands" \notin disturbed, ~Writing("commands"),
                        NEW k \in 1 .. Len(robots)
                 PROVE  \E entry \in Stored(depot["commands"]) : entry.ip = robots[k].ip
      BY DEF StartedStaysListed
    <2>1. robots[k].ip \in Ips
      <3>1. robots[k] \in Robots
        BY SMT DEF SystemKeptInv, SystemInv, DaemonTyped
      <3> QED
        BY <3>1 DEF Robots
    <2>2. Held["commands"] = Registered(depot["commands"].robots)
      BY DEF Held, Files
    <2>3. Contains(depot["commands"].robots, robots[k].ip)
      BY <2>1, <2>2 DEF SystemKeptInv, ReadHeld, Registered
    <2> QED
      BY <2>3 DEF Contains, Stored
  <1> QED
    BY <1>1, <1>2, SystemKeptInit, PTL DEF System

\* Under the daemon's eyes, and for any number of workers and faults, a file
\* that is not disturbed is the atomic registry, keeps every robot it accepted
\* and does not tear (controller.LMG.php:59-148, daemon.cpp:36-37).
THEOREM ServesAtomically ==
    System => Atomic /\ []UndisturbedKeeps /\ []TornWasDisturbed
  BY DaemonOnlyReads, UndisturbedIsAtomic, UndisturbedForgetsNothing, TearingDisturbs, PTL
===============================================================================
