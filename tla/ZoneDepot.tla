------------------------------- MODULE ZoneDepot -------------------------------
(***************************************************************************)
(* CreationRobot and UpdateParametresRobot of controller.LMG.php, run by   *)
(* any number of PHP workers at once.  Each reads a json file of zoneDepot *)
(* whole, changes its copy and writes that back whole, without a lock:     *)
(* file_put_contents first truncates the file, then writes from its start. *)
(* A file is its entries, or empty (missing, or truncated), or torn: the   *)
(* shorter of two overlapping writes leaves the tail of the longer, which  *)
(* no longer parses.  Lengths are not kept: either order is possible.      *)
(***************************************************************************)
EXTENDS DepotFile

CONSTANTS
    Workers,      \* PHP processes
    Ips,          \* addresses a request may name
    Bodies,       \* request bodies that decode to an array
    NoBody,       \* null: a body that does not
    NoRequest,    \* a worker that serves nothing
    Absent,       \* for RobotRegistry: no entry
    Deposits,     \* what a file may hold before the first request
    MaxRequests,  \* bound: requests made in all
    MaxFaults     \* bound: writes that fail (disk full, no permission), workers that die

Entry == [ip : Ips, body : Bodies \cup {NoBody}]
Requests == [method : {"POST", "PUT"}, ip : Ips, body : Bodies \cup {NoBody}]

ASSUME ZoneDepotAssumption ==
    /\ NoBody \notin Bodies /\ Absent \notin Bodies \cup {NoBody}
    /\ NoRequest \notin Requests
    /\ Deposits \subseteq Contents(Entry)
    /\ \A deposit \in Deposits : Distinct(deposit.robots)
    /\ MaxRequests \in Nat /\ MaxFaults \in Nat

VARIABLES
    depot,     \* the two files
    pc,        \* of each worker: "idle", "read", "open" or "write"
    request,   \* of each worker: method, ip and decoded body, or NoRequest
    array,     \* of each worker: $array
    requests,  \* requests made so far
    faults,    \* faults so far
    posted,    \* history: every entry asked for, or there at first, by file
    accepted,  \* history: the addresses answered 201, by file
    disturbed  \* history: files of which one worker took its copy while another
               \* had one to write, or that a fault has met, or torn at first

vars == <<depot, pc, request, array, requests, faults, posted, accepted, disturbed>>

\* The file a worker's request is about.
File(w) == IF request[w].method = "POST" THEN "commands" ELSE "parameters"

\* json_decode, and the loop that copies ["robots"]: null for anything that
\* does not parse, which counts as no robot.  The mutant loses the last one.
DecodedButLast(content) ==
    SubSeq(content.robots, 1, Len(content.robots) - 1)
Decoded(content) == content.robots

\* $estDansJson.  The mutant lets the last entry decide alone.
ContainsLast(robots, ip) == Len(robots) > 0 /\ robots[Len(robots)].ip = ip
Contains(robots, ip) == \E k \in 1 .. Len(robots) : robots[k].ip = ip

\* The copy with the request in it: every entry of the robot replaced, or one
\* appended.  The mutants replace without comparing addresses, and append the
\* request as it came.
RevisedAll(robots, r) ==
    IF Contains(robots, r.ip)
    THEN [k \in 1 .. Len(robots) |-> [ip |-> robots[k].ip, body |-> r.body]]
    ELSE Append(robots, [ip |-> r.ip, body |-> r.body])
RevisedRaw(robots, r) == IF Contains(robots, r.ip) THEN robots ELSE Append(robots, r)
Revised(robots, r) ==
    IF Contains(robots, r.ip)
    THEN [k \in 1 .. Len(robots) |->
            IF robots[k].ip = r.ip THEN [ip |-> r.ip, body |-> r.body] ELSE robots[k]]
    ELSE Append(robots, [ip |-> r.ip, body |-> r.body])

\* fopen(..., "w").  The mutant opens without truncating.
NotTruncated(content) == content
Truncated(content) == Empty

\* What a write from the start of the file can leave there.
Overwritten(content, robots) ==
    IF content \in {Empty, Whole(robots)} THEN {Whole(robots)}
    ELSE {Whole(robots), Torn}

-------------------------------------------------------------------------------
Init ==
    /\ depot \in [Files -> Deposits]
    /\ pc = [w \in Workers |-> "idle"]
    /\ request = [w \in Workers |-> NoRequest]
    /\ array = [w \in Workers |-> <<>>]
    /\ requests = 0 /\ faults = 0
    /\ posted = [f \in Files |-> Stored(depot[f])]
    /\ accepted = [f \in Files |-> {}]
    /\ disturbed = {f \in Files : depot[f].state = "torn"}

\* A request that the routing of API.php lets through reaches a worker.
Receive(w, r) ==
    /\ pc[w] = "idle" /\ requests < MaxRequests
    /\ request' = [request EXCEPT ![w] = r]
    /\ pc' = [pc EXCEPT ![w] = "read"]
    /\ requests' = requests + 1
    /\ posted' = LET f == IF r.method = "POST" THEN "commands" ELSE "parameters"
                 IN [posted EXCEPT ![f] = @ \cup {[ip |-> r.ip, body |-> r.body]}]
    /\ UNCHANGED <<depot, array, faults, accepted, disturbed>>

\* The worker is done with its request.
Answer(w) ==
    /\ pc' = [pc EXCEPT ![w] = "idle"]
    /\ request' = [request EXCEPT ![w] = NoRequest]
    /\ array' = [array EXCEPT ![w] = <<>>]
    /\ UNCHANGED <<requests, posted>>

\* file_get_contents: what the worker sees of its file.
Seen(w) == Decoded(depot[File(w)])
Present(w) == Contains(Seen(w), request[w].ip)

\* 400, "Le robot est deja en fonction".
Refuse(w) ==
    /\ pc[w] = "read" /\ request[w].method = "POST" /\ Present(w)
    /\ Answer(w)
    /\ UNCHANGED <<depot, faults, accepted, disturbed>>

\* TypeError: null is not the array the model of an entry takes.
Fail(w) ==
    /\ pc[w] = "read" /\ request[w].body = NoBody /\ ~Present(w)
    /\ Answer(w)
    /\ UNCHANGED <<depot, faults, accepted, disturbed>>

\* Another worker has a copy of the same file, which it has still to write.
Contended(w) ==
    \E v \in Workers \ {w} : pc[v] \in {"open", "write"} /\ File(v) = File(w)

Prepare(w) ==
    /\ pc[w] = "read"
    /\ IF Present(w) THEN request[w].method = "PUT" ELSE request[w].body # NoBody
    /\ array' = [array EXCEPT ![w] = Revised(Seen(w), request[w])]
    /\ pc' = [pc EXCEPT ![w] = "open"]
    /\ disturbed' = disturbed \cup (IF Contended(w) THEN {File(w)} ELSE {})
    /\ UNCHANGED <<depot, request, requests, faults, posted, accepted>>

\* file_put_contents opens the file.
Truncate(w) ==
    /\ pc[w] = "open"
    /\ depot' = [depot EXCEPT ![File(w)] = Truncated(@)]
    /\ pc' = [pc EXCEPT ![w] = "write"]
    /\ UNCHANGED <<request, array, requests, faults, posted, accepted, disturbed>>

Accept(w) ==
    accepted' = [accepted EXCEPT ![File(w)] = @ \cup {request[w].ip}]

\* It writes; 201.
Write(w) ==
    /\ pc[w] = "write"
    /\ \E content \in Overwritten(depot[File(w)], array[w]) :
          depot' = [depot EXCEPT ![File(w)] = content]
    /\ Accept(w) /\ Answer(w)
    /\ UNCHANGED <<faults, disturbed>>

\* A fault leaves the file as it is, or with part of what was being written.
Fault(w) ==
    /\ faults < MaxFaults /\ faults' = faults + 1
    /\ \E content \in {depot[File(w)]} \cup (IF pc[w] = "write" THEN {Torn} ELSE {}) :
          depot' = [depot EXCEPT ![File(w)] = content]
    /\ disturbed' = disturbed \cup {File(w)}

\* It cannot open, or cannot write; nobody looks at what it returns; 201.
WriteFails(w) == pc[w] \in {"open", "write"} /\ Fault(w) /\ Accept(w) /\ Answer(w)

Serve(w) ==
    Refuse(w) \/ Fail(w) \/ Prepare(w) \/ Truncate(w) \/ Write(w) \/ WriteFails(w)

\* The PHP process ends where it is (a limit, a restart of the server) and
\* answers nothing.
Die(w) == pc[w] # "idle" /\ Fault(w) /\ Answer(w) /\ UNCHANGED accepted

Next == \E w \in Workers : Serve(w) \/ Die(w) \/ \E r \in Requests : Receive(w, r)

Spec == Init /\ [][Next]_vars

-------------------------------------------------------------------------------
TypeOK ==
    /\ depot \in [Files -> Contents(Entry)]
    /\ pc \in [Workers -> {"idle", "read", "open", "write"}]
    /\ request \in [Workers -> Requests \cup {NoRequest}]
    /\ \A w \in Workers : request[w] = NoRequest <=> pc[w] = "idle"
    /\ array \in [Workers -> Seq(Entry)]
    /\ \A w \in Workers : pc[w] \in {"idle", "read"} => array[w] = <<>>
    /\ requests \in 0 .. MaxRequests /\ faults \in 0 .. MaxFaults
    /\ posted \in [Files -> SUBSET Entry] /\ accepted \in [Files -> SUBSET Ips]
    /\ disturbed \subseteq Files

\* However the reads and writes of the workers interleave, and whatever is
\* lost, no file ever holds a robot twice (controller.LMG.php:81-95, 127-143).
NoDuplicateIp == \A f \in Files : Distinct(depot[f].robots)

\* Nor an entry nobody asked for: a body never ends up under the address of
\* another robot, and none is made up from two requests.
EntriesWerePosted == \A f \in Files : Stored(depot[f]) \subseteq posted[f]

\* controller.LMG.php:97, 201 and "Le robot a ete starter": once every worker
\* is idle, a robot that was accepted is in the file.
AcceptedStays ==
    (\A w \in Workers : pc[w] = "idle") =>
        \A f \in Files : \A ip \in accepted[f] :
            \E entry \in Stored(depot[f]) : entry.ip = ip

Writing(f) == \E w \in Workers : pc[w] = "write" /\ File(w) = f

\* What it takes to lose a robot that was accepted: whatever the workers do with
\* the other file, and however they take turns, this one keeps its robots until
\* two copies of it are out at once, or a worker fails on it
\* (controller.LMG.php:78-97, 124-146).
UndisturbedKeeps ==
    \A f \in Files \ disturbed :
        Writing(f) \/ \A ip \in accepted[f] : \E entry \in Stored(depot[f]) : entry.ip = ip

\* Nor does a file tear before that: the json the next reader finds does not
\* parse only after two copies were out at once, or a fault
\* (controller.LMG.php:95, 143).
TornWasDisturbed == \A f \in Files : depot[f].state = "torn" => f \in disturbed

-------------------------------------------------------------------------------
\* What the workers make of the promise: a request takes effect when its file
\* is truncated, and the copy of the worker stands for the file until it is
\* written.  A file that was disturbed counts for nothing.
Registered(robots) ==
    [ip \in Ips |->
        IF Contains(robots, ip)
        THEN robots[CHOOSE k \in 1 .. Len(robots) : robots[k].ip = ip].body
        ELSE Absent]

Writer(f) == CHOOSE w \in Workers : pc[w] = "write" /\ File(w) = f

Held ==
    [f \in Files |->
        IF f \in disturbed THEN Registered(<<>>)
        ELSE IF Writing(f)
             THEN Registered(array[Writer(f)])
             ELSE Registered(depot[f].robots)]

Registry == INSTANCE RobotRegistry WITH registry <- Held, lapsed <- disturbed

\* The requests for a file are atomic until it is disturbed, for any number of
\* workers (controller.LMG.php:59-148).
Atomic == Registry!Spec
===============================================================================
