# KinovaDessin, specified

KinovaDessin makes Kinova arms draw: a web page collects angles, a PHP service
keeps them in json files, a daemon polls the files and starts one robot per
address, and three command line programs (`goto`, `gotohome`, `vibrate`) drive an
arm directly.  Its own code is about 1150 lines; the rest of the repository is
the Kinova SDK with its documentation, nlohmann json, cxxopts and build output.

This directory holds TLA+ modules translated from that code, the TLC runs that
check them on small instances, and theorems that TLAPS checks for all instances.
`PROJECT.json` lists the runs, the lines every definition stands for, the
mutants (a plausible bug for each property that a run has to notice), the
findings and the hazards.

## 1. Inventory

| Component | State it keeps | Operations | Interacts with |
|---|---|---|---|
| `goto_angles` (goto.cpp:93-168) | commanded position and `servo_done` of each joint (both outlive a call), planned counts and directions, `i` | plan a waypoint, one increment of every joint not done | arm: feedback once per call, asynchronous commands |
| `goto` main (goto.cpp:189-249) | angles parsed from one argument, waypoint index | parse, start, exit | `goto_angles`, session |
| `vibrate` (vibrate.cpp:82-131) | commanded positions, sign of `range`, `i` | one stroke | arm |
| timed loop (clockexample.cpp; also vibrate, goto, gotohome, daemon) | `t_first`, `t_last`, `i` | work, spin until the interval has passed | monotonic clock |
| `gotohome` (gotohome.cpp:83-171) | positions, thresholds, stage | one iteration towards home, then back | arm |
| Kortex session (`example_api_creation`, `prepare`, `destroy_API`; robot.cpp) | two connections and sessions (TCP, UDP), servoing mode of the arm | create, prepare, close | arm, every program |
| zoneDepot (controller.LMG.php) | commands.json, parameters.json | POST: add a robot; PUT: set its parameters; GET: read a fixed file | page (HTTP), daemon (files) |
| daemon (daemon.cpp) | its copy of the files, the Robots started | poll, scan, start | files, `Robot` |
| `Robot` (robot.cpp) | pointers to commands, parameters and API objects | construct with a detached thread, copy, destroy, `Process` | daemon, session |
| web page (gestionKinova.js) | cards, disabled controls | add a card, Finis | web service |
| routing, answer codes (API.php, controllerGestionCode.php) | none | match, format | web service |

What is hard, and what correct means:

* **goto_angles.**  The way round a joint takes, its count and its sign are
  decided in different branches; all joints share one loop; state of one
  waypoint is used by the next; two array accesses read what was never written
  there; the last target was never checked.  Correct: it arrives, by the short
  way, and ends whatever the target is.
* **vibrate, timed loop.**  Wrapping at one end at a time, three roundings, late
  turns.  Correct: back to the start after every second stroke, never out of the
  turn, never faster than the interval, and behind it by no more than reading the
  clock costs.
* **zoneDepot.**  PHP runs requests in parallel and the code reads, changes and
  rewrites whole files without a lock; `file_put_contents` truncates, then
  writes.  Correct: no robot twice, nothing made up, nothing accepted is lost.
* **daemon and web service.**  They share nothing but the files, and the daemon
  may read at any moment.  Correct: what is accepted is started, once, with its
  angles.
* **sessions and datagrams.**  Three programs may run on one arm, each may be
  stopped between any two calls, `exit(1)` and faults skip `destroy_API`, which
  itself closes one session of two and leaves the servoing mode; commands are
  datagrams without identifiers.  Correct: a command never meets an arm in
  another mode, nobody loses a session to another program, and the arm stands
  where some stroke put it.
* **web page.**  Posts are in flight together and nobody waits for their answers;
  Finis disables every card there is, and cards may be added later; every card
  has elements of the same id.  Correct: one post per card, and what the service
  lists is what the page shows.
* **goto main.**  One argument is split by hand through a buffer of six bytes that
  is half cleared, and the last angle is read after the loop that checks.  Correct:
  the angles are read as typed, the waypoints filled, the rest discarded.
* **gotohome.**  Uninitialised loop variables, thresholds that one of three loops
  overwrites, `continue` before `i++`, positions that are iterated and never sent.
  Correct: home, then back, then done.
* **Robot.**  A shallow copy whose original is destroyed while a detached thread
  uses it; see "Not modelled".

## 2. Modules

| Module | Models | State and actions |
|---|---|---|
| `GotoAngles` | `goto_angles` called once per waypoint | `Call` is everything before the loop, `Tick` one turn of it, `Return` the end, `DivideByZero` the SIGFPE of `1000000000 / frequency`; `Targets` are the waypoints that pass the checks of `main` |
| `Pacer` | the timed loop | `Top`, `Work`, `Spin`, `Repeat`, `End`, one per part of the loop body; a division by a frequency of zero ends in "fault" |
| `Vibrate` | `vibrate`, extending `Pacer` | `Shake` is `Work` with a stroke in it; the other actions of the loop leave the joints alone (`Pace`) |
| `VibrateArm` | `vibrate`, the datagrams under way and the arm, extending `Vibrate` | `Refresh` is `Shake` with its `Refresh_async`; `Deliver` and `Lose` are the network's |
| `ArmSession` | the programs that share an arm: `example_api_creation`, `prepare`, `Refresh_async`, `destroy_API`, every way out | per program: `Main`, `Create` (TCP), `CreateRT` (UDP), `Prepare`, `Wake`, `Refresh_async`, `Destroy_API`, `Die` wherever it is; the arm: `Deliver`, `Expire` |
| `GotoMain` | `main` of goto.cpp on that arm, extending `ArmSession` | `TooFew` when there is no whole waypoint; else `Split`, then one `ReadAngle` for each angle, through `temp` into the next cell, and out at an invalid angle or after the last; `Others` is any step of the other programs, of the arm, or of goto outside that loop |
| `GoHome` | `homeandback`, `iteratetotarget` | `GoThere` and `ComeBack`, one iteration of each stage, `Wait` |
| `DepotFile` | a json file as a reader finds it | values only |
| `RobotRegistry` | abstract: what the web service promises | `Create`, `Update`, each atomic, until a map `Lapse`s: nothing is promised of it from then on |
| `ZoneDepot` | `CreationRobot`, `UpdateParametresRobot` in parallel PHP workers | per worker: `Receive`, then `Refuse`, `Fail` or `Prepare` (the read), `Truncate`, `Write` or `WriteFails`; `Die` wherever it is; `disturbed` records the files of which two copies were out at once (`Contended`), on which a worker failed, or which were torn at first |
| `WebPage` | gestionKinova.js in front of `ZoneDepot`, and the routing of API.php | `sent` is every fetch in order, `calls` those under way; `AjoutRobot`, `Type`, `Finis` (the click up to its fetch), `Arrive` and `Lose` of a fetch, `Work` and `Crash` of a worker |
| `Daemon` | `main` of daemon.cpp | `ReadCommands`, `ReadParameters`, `SkipRobot`, `StartRobot`, `PastTheEnd`, `ScanDone`, `Wait` |
| `DrawingSystem` | `ZoneDepot` and `Daemon` on the same files | the actions of both, interleaved; to the daemon the workers are the hand in the files that `Daemon` leaves open (`HandMade`) |
| `MC...` | instances for TLC | constants only |
| `..._proofs` | theorems and proofs | |

### How the models read the code

* **Angles** are exact integers in a unit finer than `OPERATION_ANGLE`: the
  truncations of the code are kept, rounding of floats is not.  `abs` is the
  overload for `float`, since goto.cpp includes `<stdlib.h>`.
* **Unwritten memory.**  `operations[2x]` of a close joint and `operations[-1]`
  (the direction of joint 0) may hold anything: the model draws from the constant
  `Junk`, the first once per call, the second at every increment.  Where joint 0 goes is
  therefore anything: properties of directions and arrival are about the joints
  inside the array (`Indexed`), those of counts and of the loop about all.
* **The last angle of the argument** is read after the loop that compares the
  others with 0 and 360 (goto.cpp:218-234), so the last joint of the last waypoint
  may have any target (`Targets`).  The four cases of goto.cpp:122-141 are meant for
  differences of at most a turn; beyond, the count may be negative or the way wrong.
  `Arrived` and `NeverTheLongWay` are about the targets at most a turn away
  (`InReach`), which every checked angle is; `LockStep`, `LeftUndone` and
  `Completes` are about all of them.
* **Measured positions.**  Each call starts from what the arm reports
  (goto.cpp:105-109), any of `Reports`, and not from where the last call sent it:
  commands are asynchronous, may be lost, and the arm may lag.
* **The clock.**  From one reading to the next any of `Reads` ticks pass, so the
  last reading of a turn may come any of them too late, and as much again passes
  before the reading that begins the next turn, or nothing (`Top`).  `late` records
  that some turn's work took longer than the interval, or that two readings were more
  than `Slack` apart.
* **Unwritten loop variables.**  `int x;` of gotohome.cpp starts from any member of
  `Starts`, in each of its four loops and anew in each call; unwritten thresholds
  are drawn from `Junk`.  `home_stages` takes both to be zero, the kindest values.
  Positions saturate at `Far`, as floats stop growing when the increment is below
  their resolution.
* **GotoAngles models the function under its own contract**: a `servos_manager`
  with arrays.  `main` of goto.cpp never allocates them (`servos_manager
  servos{}`), so as it stands the program faults before its first call: that is
  how `GotoMain` ends when there is a waypoint, and why the unwritten `x` of the
  loop over the waypoints (goto.cpp:241) is in no model.
* **An angle of `GotoMain`** is a sequence of digits, the point and the minus, at
  most six long, as `temp` is: more would leave the buffer.  Texts that sscanf cannot
  take for a number are left out (`Numeric`): it would leave the cell unwritten.
  What follows `temp` in memory is `Beyond`.  `ReadAsTyped` says that what is read
  always begins with what was typed, and is no more than that for angles of up to
  four characters, and for those of five with none of six before them.  It says no
  more of an angle of six, such as the "110.50" of the usage text (goto.cpp:190): no
  Nul follows it in `temp`.  Its sixth byte stays, too, and an angle of five
  characters is later read with it: harmless after a 0, otherwise it adds less than
  a tenth of a degree, which is enough to refuse "360.0".
* **The arm** is external: sessions at the arm, its servoing mode and its inactivity
  timeout are taken from how the programs use the SDK.  The SDK keeps
  a session alive from a thread of the process (include/SessionManager.h:31-36), so
  an idle session of a running program does not expire, and that of a process that
  has ended is no longer kept; that they then expire is what
  `set_session_inactivity_timeout(60000)` asks for.  Nothing is assumed to reset
  the servoing mode, and a session is never refused.
* **The page.**  Angles typed into a card are one value, an address is one or is
  not (the pattern of API.php decides).  `getElementById` finds the first of equal
  ids.  A page that is reloaded is a new behaviour.
* **Differences that were read, not run.**  A joint that stops before the longest
  one makes one increment more than its count, as the test at goto.cpp:155 comes
  after the increment; joint 0 takes its sign from `operations[-1]`
  (goto.cpp:124), so it may turn either way; the daemon looks for the angles of a
  robot under "commands" (daemon.cpp:54) while the file has them under
  "infoDessin" (src/jsonTemplate/commands.json:5), so a Robot has none.  The models
  have all three as the code does.
* **Files.**  A file is a list of entries, empty, or torn.  Empty stands for a
  missing file, a truncated one and one without text, which `json_decode` turns
  into null alike.  Two overlapping writes, both from offset 0, leave either the
  last document or one with a tail of the longer; lengths are not modelled, so
  both happen.
* **The path.**  `filePath` of daemon.cpp is never given a value, so it opens
  `/commands.json`, while the service writes `Web/zoneDepot/`.  The model takes
  the two to be mounted on each other; without that the daemon aborts at its
  first poll.
* **daemon.cpp does not compile as it stands** (address of a temporary,
  `std::thread(Process)` of a member function).  The model takes the evident
  meaning of these two lines.
* **operator[] of nlohmann json** on a missing key inserts null, on the index
  after the last appends null.  So reading `"commands"` of an entry gives no
  angles, and `get<std::string>()` on the null entry past the end throws.
* **Undefined behaviour at the end of `StartRobot`** (the local `Robot` is
  destroyed after a shallow copy, with API pointers that may never have been set)
  either ends the daemon or does not: `at' \in {"scan", "aborted"}`.

## 3. Runs

| Run | Shows | Bounds |
|---|---|---|
| `goto_motion` | every planned joint inside the array whose target is at most a turn away arrives within one increment and never goes the long way; unchecked targets included, all joints keep the lock step (`LockStep` is the inductive invariant), a call leaves only the joints with the greatest or a negative count for the next (`LeftUndone`), and every call completes | two joints (one inside, one outside the array), turn 20, increment 3 (does not divide the turn), targets -8, 0, 9, 20, 29 (both sides of half a turn, the full turn `main` lets pass, and on either side of it angles only the last place admits, some of them within a turn of the report), reported positions 0 and 19, two waypoints, a zero and a normal frequency, a negative and a positive unwritten value |
| `goto_stale_done` | violation: a joint counts as done although its target is far, because an earlier waypoint left `servo_done` set | the same |
| `vibrate_loop` | the loop is never ahead of `i` intervals, behind by at most what the two unpunctual readings of each turn lose until a turn is late, and ends; an even number of strokes ends where it began and within the turn, for strokes of any size; strokes of at most a turn never leave it; with commands lost, overtaken and repeated, and after the program's end, all joints of the arm stand at the same end of a stroke | two joints, turn 3, all starts, strokes -2, 3, 7; 12 ticks to the second, frequencies that divide it and do not, negative, zero; work shorter than, equal to and longer than the interval; readings 2 ticks apart (in time) and 3 (late); up to five turns of the loop |
| `home_stages` | violation: the loop of gotohome never leaves its first stage | two joints, four reported positions, every unwritten variable zero |
| `depot_lost` | violation: an accepted robot is forgotten | two workers, two requests |
| `daemon_files` | the Robots are those of one reading of the file, each of the first entry of its address and in their order, so none twice; scans are complete; however files change | files unparsable, with none, one, two, three robots, with duplicates |
| `system_serves` | two PHP workers under the daemon's eyes: no robot twice and no entry nobody asked for, under every interleaving, with a write that fails or a worker that dies, in the middle of its write too; a file that was not disturbed is the atomic `RobotRegistry` (refinement), keeps what it accepted, and does not tear; what the daemon started was posted and stays listed | two workers, three requests, one fault, three addresses, a body and an undecodable one, two robots in each file at first |
| `system_started` | violation: a lone robot accepted with 201 is never started | one worker, one request |
| `arm_session` | commands find low level servoing, nobody loses a session to another program; goto's angles are read as typed as far as `temp` allows, and go into the cells of its waypoints in order | two programs (one that streams, and goto), each run twice and stopped anywhere; six arguments of one to four angles of two to six characters, one above 360 and one below 0, for two joints |
| `goto_rest` | violation: goto.cpp:206 says that angles beyond the last whole waypoint are discarded; they are written behind the array | goto alone, the same arguments |
| `web_page` | one post per card; what the service lists is what the press on a card posted that shows its address, greyed; a finished card is listed, unless a post is lost or commands.json is disturbed | three cards, two addresses and an empty input, two lists of angles, two workers, one fetch that fails and one fault (a write or a worker) |
| `page_angles` | violation: the second card posts the angles of the first | two cards, no fault |

The refinement (`Atomic`) maps the registry to the file, except that from the
truncation to the write the worker's `$array` stands for it: a request takes effect
when the file is truncated.  It holds for any number of workers and faults, because
a file is disturbed, and its map lapses and counts as empty, at the first moment a
worker takes its copy while another's copy is not written yet, or a worker fails
between the two.  That is exactly where the code has no lock.  Before that moment
nothing is lost and nothing tears, workers in parallel or not (`UndisturbedKeeps`,
`TornWasDisturbed`); `depot_lost` shows what a disturbed file loses.  No duplicates
and nothing made up are promised of a disturbed file, too.

Three cards are what it takes to have one that was there at the first Finis, and
was disabled by it, and one that was added after it.  Two runs of each program
are enough for a session of an earlier run to meet a later one, and two programs
for each to act between any two calls of the other.

Two or three requests are enough for every race of the controller: each involves
two requests on one file, the third finds what they left.  The counters `call`, `requests`, `faults`, `runs`, the cards, the failed fetches and the
clock are bounded by `Waypoints`, `MaxRequests`, `MaxFaults`, `MaxRuns`, `MaxCards`,
`MaxLost` and `Horizon`; the last is larger than any
behaviour of the instance needs, which `Ends` would show otherwise.

**Fairness.**  `goto_motion` and `home_stages` assume weak fairness of the whole
next-state relation, `vibrate_loop` of the program's steps and not of the
network's: one thread, nothing blocks, the clock advances.  `web_page` assumes that fetches go on
arriving while one can and that workers serve what they have; nobody has to press
Finis, and faults are bounded.
`system_started` assumes it of every worker that has a request and of the daemon,
so that its counterexample is not a system that merely stopped.  Nothing makes
requests arrive: `Receive` is never fair.  The other runs check safety only.

## 4. Proofs

* `GotoAngles_proofs`: type correctness, `LockStep`, `LeftUndone`, and, for
  every joint but joint 0 whose target is at most a turn away, `Arrived` and
  `NeverTheLongWay`; for every number of joints, turn, increment smaller than half a
  turn, set of integer angles, reported positions within the turn, and unwritten
  values.  The inductive invariant is `TypeOK /\ LockStep`: a moving joint has made
  one increment per turn of the loop and has not passed its count, unless that is
  negative; a stopped one has made its count and one more; where a joint inside the
  array stands is its start plus or minus its increments.  `Arrived` alone is not
  inductive, since it says nothing while the loop runs.  The argument then is
  arithmetic: truncation leaves less than an increment, and `Travel` and `Direction`
  together meet the target modulo a turn (`Plan`, the one place that needs
  `InReach`).
* `Pacer_proofs`: type correctness, `NeverTooFast`, `DriftsSlowly`, for every clock
  resolution, timer, frequency, choice of work and of readings.  Neither property is
  inductive: the invariant compares `i` intervals with the moment the turn under way
  began, from both sides, and knows at each place of the loop which reading of the
  clock is the current time (`Readings`).  A turn in time takes less than its
  interval and one `Slack`, as the reading before its last was too early; the next
  begins at most one `Slack` later.
* `Vibrate_proofs`: `vibrate` implements the timed loop (`Paced`: every step is a
  step of `Pacer` or leaves its variables alone), so what is proved of `Pacer`
  holds of it; type correctness, `BackAndForth`, `InTurn`, for every number of
  joints, turn, range and timing.  The invariant adds the sign of the range to come
  (`Alternates`) and, for a range beyond a turn, that a joint that is out came from
  within the turn (`WentOut`), without which one correction would not be enough on
  the way back.
* `ZoneDepot_proofs`: type correctness, `NoDuplicateIp`, `EntriesWerePosted`,
  for any number of workers, requests and faults.  The files are clean at every
  moment because the copies the workers are about to write are; a copy is clean
  because it revises a clean file with a request that was posted
  (`RevisedClean`), and a write leaves the copy or nothing (`OverwrittenClean`).
  No step looks at what the other workers do in between, which is why no lock is
  needed for these two properties, and why nothing similar holds for
  `AcceptedStays`.  Its last part has `UndisturbedKeeps`, `TornWasDisturbed` and
  `Atomic`, the refinement of `RobotRegistry`, for any number of workers and faults.
  The invariant (`KeptInv`) says of a file that is not disturbed that at most one
  copy of it is out and what that copy is worth at each place: at "open" it is the
  file with the request in it, at "write" the file is empty and its robots are in
  the copy.  So no worker needs to look at the others: where two copies would meet,
  the file is disturbed in that step.  The step that counts is
  `Truncate`: what `Revised` registers is the old map with one address replaced
  (`RevisedRegistered`), where it matters that no address is in the file twice,
  so the invariant of `ZoneDepot_proofs` is part of this one.
* `WebPage_proofs`: the page is a client of `ZoneDepot` (`PageServes`: a fetch
  that arrives is one of its requests or goes nowhere), so every theorem about
  `ZoneDepot` holds behind the page, `Atomic` among them
  (`PageIsAtomic`); type correctness, `OnePostPerCard` and `ListedAsShown` for
  any number of cards, workers, faults and failed fetches.  Neither is
  inductive.  The invariant says of every fetch ever begun that its card and the
  first card are grey and still show what was sent (`Shown`): a second click
  finds the card grey, and the inputs of a grey card cannot change.
  `ListedAsShown` then needs the invariant of the service too: what the file
  lists was posted, and what was posted was there before or was sent by the page
  (`PostedByPage`), before the worker that holds it began.  It compares an entry
  with what the press on its card posted; whose angles that press took is another
  question, and `page_angles` answers it.
* `Daemon_proofs`: type correctness, `StartedInOrder`, `ScanIsComplete`, for
  every content of the files, changing at any time.  `StartedInOrder` speaks of the
  whole list of Robots and of one reading of the file, although the file is polled
  any number of times: what makes it inductive is that a scan that started one
  never leaves "scan" but to abort (`StillScanning`).  Two more theorems are what
  the loop condition `1 < size` of daemon.cpp:39 comes to: a daemon that has
  started a Robot never polls again, since the scan that started it runs past
  its end and aborts (`NoPollAfterStart`); and as long as no file holds two
  robots, no Robot is ever started (`LoneRobotWaits`), which is `system_started`
  for every instance.
* `DrawingSystem_proofs`: to the web service the daemon is not there
  (`DaemonOnlyReads`), and to the daemon the web service is only files that
  change, at most one at a step and to contents it must expect anyway
  (`WebOnlyRewrites`).  So the theorems of both hold of the system, for
  any number of workers and faults: an undisturbed file is atomic, keeps what it
  accepted and does not tear (`ServesAtomically`), the Robots are those of one
  reading, in order and none twice (`StartsInOrderEach`), scans are complete
  (`EveryScanIsComplete`) and polls end with a start (`PollsEndWithAStart`).  What
  takes both: `StartedWasPosted`, because what was posted stays posted; and
  `StartedStaysListed` until commands.json is disturbed, because what a poll can
  parse is registered (a file that is being written does not parse) and the registry
  takes no robot away before it lapses (`HeldStays`).
* `ArmSession_proofs`: `CommandsFindLowLevel` and `SessionsKept` for any set of
  programs, any number of runs and any moment of death, by the invariant that a
  program past `Prepare` has made the mode low and nobody puts it back, and that
  a program has its sessions from their creation on (`SessionsHeld`); `main` of
  goto is such a program (`GotoShares`).  Its second part is about goto's
  argument, for any list of angles of up to six characters that sscanf takes for
  numbers, any number of joints and any memory behind `temp`: `ReadAsTyped` and
  `CellsInOrder`.  The loop invariant (`InLoop`) is that the first five bytes of
  `temp` are blank before each angle (`Wiped`), that the sixth is blank as long as no
  angle had six characters, and that the cell, counted joint by joint, is the number
  of angles read.  A buffer filled with fewer characters than it has blank bytes ends
  in a Nul where the text ends (`WipedIsEnough`), so neither the sixth byte nor what
  follows `temp` is read; in any case it begins with the text (`WipedIsBegun`).
  `CellsInOrder` does not say that the cells are inside the array: those of an
  incomplete last waypoint lie behind it, as `goto_rest` finds.
  The argument is one action for each angle, so that this is an invariant of
  steps; as one fold it would take an induction over the list.
* `Vibrate_proofs` also has `ArmBackOrForth`: every command under way has all
  joints at one end of a stroke, so it does not matter which of them arrive.

The assumptions are the named ASSUMEs of the modules, which TLC evaluates in the
runs.  Every invariant and action property of the passing runs is a theorem.
Only model-checked are the liveness properties (`Completes`, `Ends`,
`FinishedIsListed`), which are out of TLAPS's reach, and what the
runs with a violation refute.  `GoHome` has no theorem: the code does not do
what it is for, and `home_stages` says so.

## 5. Not modelled

* **Robot's lifetimes** (robot.cpp:7-36, daemon.cpp:66-73): a detached thread, a
  shallow copy and a destructor.  `std::thread(Process)` of a member function and
  `&...get<std::string>()` do not compile, and what they were meant to do (which
  of the two Robots the thread uses) cannot be read off them.  `StartRobot` has the
  two outcomes the daemon can see; the calls of `CreateAPI` and `Prepare` are those
  of `ArmSession`.  `Process` ends without a command to the arm, and
  `UpdateParameters` has no caller.
* **The answers** of the service (`GererCode`, `LireInformation`): no state, and
  nothing in the repository reads them; `accepted` records the 201.
* **degriserStats** of the page: its controls call nothing.
* **Vendored and generated code**: more than 99 % of the lines under src/ are the
  headers of the Kinova SDK, twice, with those of protobuf and nlohmann json, its
  documentation, cxxopts, and build output.  It is not the program's logic; what the
  programs call in it is modelled as external, from how they call it.

* **The expiry of sessions** nobody keeps alive (60 seconds, by the arm) is an
  action that nothing is claimed of: that it happens is the arm's doing.
* **Angles sscanf cannot read**, angles of more than six characters, and the
  rounding of floats.

## 6. What could come next

`WebPage` with the daemon behind it; a `Robot` once it compiles.
