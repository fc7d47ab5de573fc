----------------------------- MODULE Daemon_proofs -----------------------------
(* Proofs about Daemon, for every content of the files and every moment at *)
(* which they change.                                                      *)
EXTENDS Daemon, TLAPS

\* A scan that begins has passed nothing yet.
ScanBegins == at = "parameters" => i = 1

\* Once a Robot is started the daemon is in the scan that started it, until it
\* aborts.
StillScanning ==
    robots # <<>> => at = "aborted" \/ (at = "scan" /\ 1 < Len(jsonCommands))

Inv == TypeOK /\ StartedInOrder /\ ScanIsComplete /\ ScanBegins /\ StillScanning

-------------------------------------------------------------------------------
\* What a poll reads is a list of entries that stood in a file.
LEMMA ReadType ==
    ASSUME NEW list \in {<<>>} \cup {content.robots : content \in HandMade}
    PROVE  /\ Len(list) \in Nat
           /\ \A k \in 1 .. Len(list) :
                 [ip |-> list[k].ip, angles |-> Angles(list[k])] \in Startable
  <1>1. CASE list = <<>>
    BY <1>1, SMT
  <1>2. CASE list # <<>>
    <2>1. PICK content \in HandMade : list = content.robots
      BY <1>2
    <2>2. list \in Seq(Stored(content))
      BY <2>1, DaemonAssumption DEF Contents
    <2>3. Len(list) \in Nat
      BY <2>2, SMT
    <2>4. \A k \in 1 .. Len(list) : list[k] \in Stored(content)
      BY <2>1 DEF Stored
    <2> QED
      BY <2>3, <2>4 DEF Startable
  <1> QED
    BY <1>1, <1>2

LEMMA InitInv == Init => Inv
  <1> SUFFICES ASSUME Init PROVE Inv
    OBVIOUS
  <1>1. /\ depot \in [Files -> HandMade] /\ at = "poll" /\ jsonCommands = <<>>
        /\ i = 1 /\ robots = <<>>
    BY DEF Init, DaemonInit
  <1>2. i \in 1 .. Len(jsonCommands) + 1 /\ robots \in Seq(Startable)
    BY <1>1, SMT
  <1>3. StartedInOrder
    BY <1>1, SMT DEF StartedInOrder
  <1> QED
    BY <1>1, <1>2, <1>3 DEF Inv, TypeOK, ScanIsComplete, ScanBegins, StillScanning

\* The scan that started a Robot never ends but by aborting.
LEMMA StillScanningStep ==
    ASSUME StillScanning, [Next]_<<depot, daemonVars>>
    PROVE  StillScanning'
  <1> USE DEF StillScanning
  <1>1. CASE ReadCommands \/ ReadParameters
    BY <1>1 DEF ReadCommands, ReadParameters
  <1>2. CASE SkipRobot \/ StartRobot \/ PastTheEnd
    BY <1>2 DEF SkipRobot, StartRobot, PastTheEnd, Scanning
  <1>3. CASE ScanDone
    BY <1>3 DEF ScanDone
  <1>4. CASE Wait
    BY <1>4 DEF Wait
  <1>5. CASE Rewrite \/ UNCHANGED <<depot, daemonVars>>
    BY <1>5 DEF Rewrite, daemonVars
  <1> QED
    BY <1>1, <1>2, <1>3, <1>4, <1>5 DEF Next, DaemonNext

LEMMA ReadCommandsInv == ASSUME Inv, ReadCommands, StillScanning' PROVE Inv'
  <1>1. /\ at' \in {"parameters", "aborted"} /\ i' = 1 /\ depot' = depot /\ robots' = robots
        /\ jsonCommands' = jsonCommands \/ jsonCommands' = depot["commands"].robots
    BY DEF ReadCommands, CommandsFile
  <1>2. jsonCommands' \in {<<>>} \cup {content.robots : content \in HandMade}
    BY <1>1 DEF Inv, TypeOK, Files
  <1>3. i' \in 1 .. Len(jsonCommands') + 1
    BY <1>1, <1>2, ReadType, SMT
  <1>4. StartedInOrder'
    <2>1. robots' = <<>>
      BY <1>1 DEF ReadCommands, Inv, StillScanning
    <2>2. \A k \in 1 .. Len(robots') : FALSE
      BY <2>1, SMT
    <2> QED
      BY <2>2 DEF StartedInOrder
  <1> QED
    BY <1>1, <1>2, <1>3, <1>4 DEF Inv, TypeOK, ScanIsComplete, ScanBegins

\* Passing entries, or none, keeps the order of the Robots.
LEMMA StartedSame ==
    ASSUME StartedInOrder, robots' = robots, jsonCommands' = jsonCommands,
           i \in Nat, i' = i \/ i' = i + 1
    PROVE  StartedInOrder'
  <1>1. \A j \in 1 .. i - 1 : j \in 1 .. i' - 1
    BY SMT
  <1> SUFFICES ASSUME NEW k \in 1 .. Len(robots') PROVE \E j \in 1 .. i' - 1 : StartedFrom(k, j)'
    BY DEF StartedInOrder
  <1>2. PICK j \in 1 .. i - 1 : StartedFrom(k, j)
    BY DEF StartedInOrder
  <1>3. StartedFrom(k, j)'
    BY <1>2 DEF StartedFrom, FirstEntry, Angles
  <1> QED
    BY <1>1, <1>3

\* The next robot of the scan is started already.
LEMMA SkipRobotInv == ASSUME Inv, SkipRobot, StillScanning' PROVE Inv'
  <1>1. /\ at = "scan" /\ at' = at /\ i =< Len(jsonCommands) /\ i' = i + 1
        /\ EnAction(jsonCommands[i].ip)
        /\ depot' = depot /\ jsonCommands' = jsonCommands /\ robots' = robots
    BY DEF SkipRobot, Scanning, NextIndex
  <1>2. Len(jsonCommands) \in Nat
    BY ReadType DEF Inv, TypeOK
  <1>3. i' \in 1 .. Len(jsonCommands') + 1 /\ i \in Nat
    BY <1>1, <1>2, SMT DEF Inv, TypeOK
  <1>4. \A k \in 1 .. i' - 1 : k \in 1 .. i - 1 \/ k = i
    BY <1>1, <1>3, SMT
  <1>5. ScanIsComplete'
    BY <1>1, <1>4 DEF Inv, ScanIsComplete, EnAction
  <1>7. StartedInOrder'
    BY <1>1, <1>3, StartedSame DEF Inv
  <1> QED
    BY <1>1, <1>3, <1>5, <1>7 DEF Inv, TypeOK, ScanBegins

\* A Robot is appended for an address that had none.
LEMMA StartRobotInv == ASSUME Inv, StartRobot, StillScanning' PROVE Inv'
  <1> DEFINE entry == jsonCommands[i]
             robot == [ip |-> entry.ip, angles |-> Angles(entry)]
             n == Len(robots)
  <1>1. /\ at = "scan" /\ at' \in {"scan", "aborted"} /\ i =< Len(jsonCommands)
        /\ i' = i + 1 /\ ~EnAction(entry.ip) /\ robots' = Append(robots, robot)
        /\ depot' = depot /\ jsonCommands' = jsonCommands
    BY DEF StartRobot, Scanning, NextIndex
  <1>2. Len(jsonCommands) \in Nat
    BY ReadType DEF Inv, TypeOK
  <1>3. i' \in 1 .. Len(jsonCommands') + 1 /\ i \in 1 .. Len(jsonCommands)
    BY <1>1, <1>2, SMT DEF Inv, TypeOK
  <1>4. robot \in Startable
    BY <1>3, ReadType DEF Inv, TypeOK
  <1>5. /\ n \in Nat /\ robots' \in Seq(Startable) /\ Len(robots') = n + 1
        /\ robots'[n + 1] = robot /\ \A k \in 1 .. n : robots'[k] = robots[k]
    <2> HIDE DEF robot
    <2>1. robots \in Seq(Startable)
      BY DEF Inv, TypeOK
    <2> QED
      BY <1>1, <1>4, <2>1, SMT
  <1>6. \A k \in 1 .. n + 1 : k \in 1 .. n \/ k = n + 1
    BY <1>5, SMT
  <1>7. /\ \A k \in 1 .. n : robots[k].ip # entry.ip
        /\ \A j \in 1 .. i - 1 : \E k \in 1 .. n : robots[k].ip = jsonCommands[j].ip
    BY <1>1 DEF Inv, EnAction, ScanIsComplete
  <1>8. StartedInOrder'
    <2>1. \A j \in 1 .. i - 1 : j \in 1 .. i' - 1
      BY <1>1, <1>3, SMT
    <2>2. i \in 1 .. i' - 1
      BY <1>1, <1>3, SMT
    <2>3. \A k \in 1 .. n : \A l \in 1 .. k - 1 : l \in 1 .. n
      BY <1>5, SMT
    <2>4. (n + 1) - 1 = n
      BY <1>5, SMT
    <2> SUFFICES ASSUME NEW k \in 1 .. n + 1 PROVE \E j \in 1 .. i' - 1 : StartedFrom(k, j)'
      BY <1>5 DEF StartedInOrder
    <2>5. CASE k \in 1 .. n
      <3>1. PICK j \in 1 .. i - 1 : StartedFrom(k, j)
        BY <2>5 DEF Inv, StartedInOrder
      <3>2. {robots'[l].ip : l \in 1 .. k - 1} = {robots[l].ip : l \in 1 .. k - 1}
        BY <1>5, <2>3, <2>5
      <3>3. robots'[k] = robots[k]
        BY <1>5, <2>5
      <3>4. StartedFrom(k, j)'
        BY <1>1, <3>1, <3>2, <3>3 DEF StartedFrom, FirstEntry, Angles
      <3> QED
        BY <2>1, <3>4
    <2>6. CASE k = n + 1
      <3>1. FirstEntry(i)
        <4> SUFFICES ASSUME NEW j \in 1 .. i - 1 PROVE jsonCommands[j].ip # entry.ip
          BY DEF FirstEntry
        <4>1. PICK l \in 1 .. n : robots[l].ip = jsonCommands[j].ip
          BY <1>7
        <4> QED
          BY <1>7, <4>1
      <3>2. {robots'[l].ip : l \in 1 .. n} = {robots[l].ip : l \in 1 .. n}
        BY <1>5
      <3>3. {robots[l].ip : l \in 1 .. n} = {jsonCommands[l].ip : l \in 1 .. i - 1}
        <4>1. ASSUME NEW l \in 1 .. n
              PROVE  \E j \in 1 .. i - 1 : robots[l].ip = jsonCommands[j].ip
          <5>1. PICK j \in 1 .. i - 1 : StartedFrom(l, j)
            BY DEF Inv, StartedInOrder
          <5>2. robots[l] = [ip |-> jsonCommands[j].ip, angles |-> Angles(jsonCommands[j])]
            BY <5>1 DEF StartedFrom
          <5>3. robots[l].ip = jsonCommands[j].ip
            BY <5>2
          <5> QED
            BY <5>3
        <4>2. \A j \in 1 .. i - 1 : \E l \in 1 .. n : robots[l].ip = jsonCommands[j].ip
          BY <1>7
        <4>3. ASSUME NEW x \in {robots[l].ip : l \in 1 .. n}
              PROVE  x \in {jsonCommands[l].ip : l \in 1 .. i - 1}
          <5>1. PICK l \in 1 .. n : x = robots[l].ip
            OBVIOUS
          <5> QED
            BY <4>1, <5>1
        <4>4. ASSUME NEW x \in {jsonCommands[l].ip : l \in 1 .. i - 1}
              PROVE  x \in {robots[l].ip : l \in 1 .. n}
          <5>1. PICK j \in 1 .. i - 1 : x = jsonCommands[j].ip
            OBVIOUS
          <5> QED
            BY <4>2, <5>1
        <4> QED
          BY <4>3, <4>4, Zenon
      <3> SUFFICES ASSUME NEW j \in 1 .. i' - 1, j = i PROVE StartedFrom(k, j)'
        BY <2>2
      <3>4. FirstEntry(j)' /\ k - 1 = n /\ robots'[k] = robot
        BY <1>1, <1>5, <2>4, <2>6, <3>1 DEF FirstEntry
      <3>5. {jsonCommands'[l].ip : l \in 1 .. i - 1} = {jsonCommands[l].ip : l \in 1 .. i - 1}
        BY <1>1
      <3>6. robots'[k] = [ip |-> jsonCommands'[j].ip, angles |-> Angles(jsonCommands'[j])]
        BY <1>1, <3>4
      <3>7. {robots'[l].ip : l \in 1 .. k - 1} = {jsonCommands'[l].ip : l \in 1 .. j - 1}
        BY <3>2, <3>3, <3>4, <3>5
      <3> QED
        BY <3>4, <3>6, <3>7 DEF StartedFrom, Angles
    <2> QED
      BY <1>6, <2>5, <2>6
  <1>9. ScanIsComplete'
    <2> SUFFICES ASSUME NEW k \in 1 .. i' - 1
                 PROVE  \E l \in 1 .. n + 1 : robots'[l].ip = jsonCommands[k].ip
      BY <1>1, <1>5 DEF ScanIsComplete, EnAction
    <2>1. k \in 1 .. i - 1 \/ k = i
      BY <1>1, <1>3, SMT
    <2>2. CASE k = i
      <3>1. n + 1 \in 1 .. n + 1
        BY <1>5, SMT
      <3> QED
        BY <1>5, <2>2, <3>1
    <2>3. CASE k \in 1 .. i - 1
      <3>1. PICK l \in 1 .. n : robots[l].ip = jsonCommands[k].ip
        BY <1>1, <2>3 DEF Inv, ScanIsComplete, EnAction
      <3>2. l \in 1 .. n + 1
        BY <1>5, SMT
      <3> QED
        BY <1>5, <3>1, <3>2
    <2> QED
      BY <2>1, <2>2, <2>3
  <1> QED
    BY <1>1, <1>3, <1>5, <1>8, <1>9 DEF Inv, TypeOK, ScanBegins

LEMMA StepInv == Inv /\ [Next]_<<depot, daemonVars>> => Inv'
  <1> SUFFICES ASSUME Inv, [Next]_<<depot, daemonVars>> PROVE Inv'
    OBVIOUS
  <1> USE DEF Inv, TypeOK, ScanIsComplete, ScanBegins, EnAction
  <1>0. StillScanning'
    BY StillScanningStep
  <1>1. CASE ReadParameters
    <2>1. /\ at = "parameters" /\ at' \in {"scan", "aborted"} /\ depot' = depot
          /\ jsonCommands' = jsonCommands /\ i' = i /\ robots' = robots
      BY <1>1 DEF ReadParameters
    <2>2. \A k \in 1 .. i' - 1 : FALSE
      BY <2>1, SMT
    <2> QED
      BY <1>0, <2>1, <2>2, StartedSame
  <1>2. CASE PastTheEnd
    BY <1>0, <1>2, StartedSame DEF PastTheEnd
  <1>3. CASE ScanDone
    BY <1>0, <1>3, StartedSame DEF ScanDone
  <1>4. CASE Wait
    BY <1>0, <1>4, StartedSame DEF Wait
  <1>5. CASE Rewrite
    <2>1. /\ depot' \in [Files -> HandMade] /\ at' = at /\ jsonCommands' = jsonCommands
          /\ i' = i /\ robots' = robots
      BY <1>5 DEF Rewrite, daemonVars
    <2> QED
      BY <1>0, <2>1, StartedSame
  <1>6. CASE UNCHANGED <<depot, daemonVars>>
    BY <1>0, <1>6, StartedSame DEF daemonVars
  <1> QED
    BY <1>0, <1>1, <1>2, <1>3, <1>4, <1>5, <1>6, ReadCommandsInv, SkipRobotInv, StartRobotInv
       DEF Next, DaemonNext

-------------------------------------------------------------------------------
(* The theorems.                                                           *)

\* Every step of the daemon, and every change of the files, keeps the invariant
\* (daemon.cpp:31-85).
THEOREM InvHolds == Spec => []Inv
  BY InitInv, StepInv, PTL DEF Spec

\* Every variable keeps its type, and every Robot is that of an entry.
THEOREM TypeCorrect == Spec => []TypeOK
  BY InvHolds, PTL DEF Inv

\* The Robots are those of one reading of commands.json, each of the first entry
\* of its address, in their order (daemon.cpp:36-74).
THEOREM StartsInOrder == Spec => []StartedInOrder
  BY InvHolds, PTL DEF Inv

\* A scan has started every robot it has passed (daemon.cpp:39-75).
THEOREM CompleteScan == Spec => []ScanIsComplete
  BY InvHolds, PTL DEF Inv

-------------------------------------------------------------------------------
(* What the condition of the scan's loop comes to.                         *)

\* A daemon that has started a Robot never polls again: the scan that started
\* it runs past the last robot and aborts, so whoever is added later needs a
\* daemon that is run anew (daemon.cpp:39, 41-45).
THEOREM NoPollAfterStart == Spec => []StillScanning
  BY InvHolds, PTL DEF Inv

\* As long as no file holds two robots, none is ever started (daemon.cpp:39).
THEOREM LoneRobotWaits ==
    ASSUME \A content \in HandMade : Len(content.robots) =< 1
    PROVE  Spec => [](robots = <<>>)
  <1> DEFINE Waits == robots = <<>> /\ Len(jsonCommands) =< 1
  <1>1. Init => Waits
    BY SMT DEF Init, DaemonInit
  <1>2. Inv /\ Waits /\ [Next]_<<depot, daemonVars>> => Waits'
    <2> SUFFICES ASSUME Inv, Waits, [Next]_<<depot, daemonVars>> PROVE Waits'
      OBVIOUS
    <2>1. Len(jsonCommands) \in Nat
      BY ReadType DEF Inv, TypeOK
    <2>2. ~Scanning
      BY <2>1, SMT DEF Scanning
    <2>3. CASE ReadCommands
      <3>1. depot["commands"] \in HandMade
        BY DEF Inv, TypeOK, Files
      <3> QED
        BY <2>3, <3>1 DEF ReadCommands, CommandsFile
    <2>4. CASE ReadParameters \/ ScanDone \/ Wait
      BY <2>4 DEF ReadParameters, ScanDone, Wait
    <2>5. CASE Rewrite \/ UNCHANGED <<depot, daemonVars>>
      BY <2>5 DEF Rewrite, daemonVars
    <2> QED
      BY <2>2, <2>3, <2>4, <2>5 DEF Next, DaemonNext, SkipRobot, StartRobot, PastTheEnd
  <1> QED
    BY <1>1, <1>2, InvHolds, PTL DEF Spec
===============================================================================
