--------------------------- MODULE ZoneDepot_proofs ---------------------------
(* Proofs about ZoneDepot, for any number of PHP workers, addresses,       *)
(* bodies, first contents, requests and faults.                            *)
EXTENDS ZoneDepot, TLAPS

\* A list a file holds, or is about to: no robot twice, no entry unasked for.
Clean(robots, f) ==
    /\ Distinct(robots)
    /\ {robots[k] : k \in 1 .. Len(robots)} \subseteq posted[f]

FilesClean == \A f \in Files : Clean(depot[f].robots, f)

\* What a busy worker was asked is among the posted, and its copy is clean.
WorkerClean(w) ==
    pc[w] # "idle" =>
        /\ [ip |-> request[w].ip, body |-> request[w].body] \in posted[File(w)]
        /\ Clean(array[w], File(w))

\* The files are clean at every step of every write because the copies of the
\* workers are.
Inv == TypeOK /\ FilesClean /\ \A w \in Workers : WorkerClean(w)

-------------------------------------------------------------------------------
(* The operators on lists.                                                 *)

\* The revised copy is a list of entries.
LEMMA RevisedType ==
    ASSUME NEW robots \in Seq(Entry), NEW r \in Requests
    PROVE  Revised(robots, r) \in Seq(Entry)
  <1>1. r.ip \in Ips /\ r.body \in Bodies \cup {NoBody}
    BY DEF Requests
  <1>2. [ip |-> r.ip, body |-> r.body] \in Entry
    BY <1>1 DEF Entry
  <1>3. CASE Contains(robots, r.ip)
    <2> DEFINE new == [k \in 1 .. Len(robots) |->
                  IF robots[k].ip = r.ip THEN [ip |-> r.ip, body |-> r.body] ELSE robots[k]]
    <2>1. Len(robots) \in Nat /\ \A k \in 1 .. Len(robots) : robots[k] \in Entry
      BY SMT
    <2>2. new \in [1 .. Len(robots) -> Entry]
      BY <1>2, <2>1
    <2>3. new \in Seq(Entry)
      BY <2>1, <2>2, SMT
    <2> QED
      BY <1>3, <2>3 DEF Revised
  <1>4. CASE ~Contains(robots, r.ip)
    BY <1>2, <1>4, SMT DEF Revised
  <1> QED
    BY <1>3, <1>4

\* Revising a list does not put a robot in it twice, and adds no entry but the
\* one of the request.
LEMMA RevisedClean ==
    ASSUME NEW robots \in Seq(Entry), NEW r \in Requests, NEW S,
           Distinct(robots), {robots[k] : k \in 1 .. Len(robots)} \subseteq S,
           [ip |-> r.ip, body |-> r.body] \in S
    PROVE  /\ Distinct(Revised(robots, r))
           /\ {Revised(robots, r)[k] : k \in 1 .. Len(Revised(robots, r))} \subseteq S
  <1> DEFINE entry == [ip |-> r.ip, body |-> r.body]
             new == Revised(robots, r)
             n == Len(robots)
  <1>1. n \in Nat /\ entry.ip = r.ip
    BY SMT
  <1>2. CASE Contains(robots, r.ip)
    <2>1. new = [k \in 1 .. n |-> IF robots[k].ip = r.ip THEN entry ELSE robots[k]]
      BY <1>2 DEF Revised
    <2>2. Len(new) = n
      BY <1>1, <2>1, SMT
    <2>3. \A k \in 1 .. n : /\ new[k] = IF robots[k].ip = r.ip THEN entry ELSE robots[k]
                            /\ new[k].ip = robots[k].ip
      BY <2>1
    <2>4. Distinct(new)
      BY <2>2, <2>3 DEF Distinct
    <2> QED
      BY <2>2, <2>3, <2>4
  <1>3. CASE ~Contains(robots, r.ip)
    <2>1. new = Append(robots, entry)
      BY <1>3 DEF Revised
    <2>2. /\ Len(new) = n + 1 /\ new[n + 1] = entry
          /\ \A k \in 1 .. n : new[k] = robots[k]
      BY <1>1, <2>1, SMT
    <2>3. \A k \in 1 .. n + 1 : k \in 1 .. n \/ k = n + 1
      BY <1>1, SMT
    <2>4. \A k \in 1 .. n : new[k].ip # r.ip
      BY <1>3, <2>2 DEF Contains
    <2>5. Distinct(new)
      BY <1>1, <2>2, <2>3, <2>4 DEF Distinct
    <2> QED
      BY <2>2, <2>3, <2>5
  <1> QED
    BY <1>2, <1>3

\* Whatever a write leaves in a file is clean if what it writes is.
LEMMA OverwrittenClean ==
    ASSUME NEW content, NEW robots \in Seq(Entry), NEW new \in Overwritten(content, robots)
    PROVE  /\ new \in Contents(Entry)
           /\ new.robots = robots \/ new.robots = <<>>
  <1>1. new = Whole(robots) \/ new = Torn
    BY DEF Overwritten
  <1>2. Whole(robots) \in Contents(Entry) /\ Whole(robots).robots = robots
    BY DEF Whole, Contents
  <1>3. Torn \in Contents(Entry) /\ Torn.robots = <<>>
    BY SMT DEF Torn, Contents
  <1> QED
    BY <1>1, <1>2, <1>3

\* Nothing is in the empty list.
LEMMA EmptyClean ==
    ASSUME NEW f
    PROVE  Clean(<<>>, f) /\ Empty \in Contents(Entry) /\ Empty.robots = <<>>
  BY SMT DEF Clean, Distinct, Empty, Contents

-------------------------------------------------------------------------------
(* Inv holds at first, and every step keeps it.                            *)

LEMMA InitInv == Init => Inv
  <1> SUFFICES ASSUME Init PROVE Inv
    OBVIOUS
  <1>1. depot \in [Files -> Contents(Entry)]
    BY ZoneDepotAssumption DEF Init
  <1>2. \A f \in Files : Distinct(depot[f].robots) /\ posted[f] = Stored(depot[f])
    BY ZoneDepotAssumption DEF Init
  <1>3. posted \in [Files -> SUBSET Entry]
    <2>1. \A f \in Files : Stored(depot[f]) \subseteq Entry
      <3> SUFFICES ASSUME NEW f \in Files, NEW k \in 1 .. Len(depot[f].robots)
                   PROVE  depot[f].robots[k] \in Entry
        BY DEF Stored
      <3>1. depot[f].robots \in Seq(Entry)
        BY <1>1 DEF Contents
      <3> QED
        BY <3>1, SMT
    <2> QED
      BY <2>1 DEF Init
  <1>4. TypeOK
    <2>1. array \in [Workers -> Seq(Entry)]
      BY SMT DEF Init
    <2> QED
      BY <1>1, <1>3, <2>1, ZoneDepotAssumption, SMT DEF Init, TypeOK
  <1>5. FilesClean
    BY <1>2 DEF FilesClean, Clean, Stored
  <1>6. \A w \in Workers : WorkerClean(w)
    BY DEF Init, WorkerClean
  <1> QED
    BY <1>4, <1>5, <1>6 DEF Inv

\* A worker that is done keeps nothing to be clean.
LEMMA AnswerInv ==
    ASSUME Inv, NEW w \in Workers, Answer(w),
           accepted' \in [Files -> SUBSET Ips], faults' \in 0 .. MaxFaults,
           depot' \in [Files -> Contents(Entry)], disturbed' \subseteq Files, FilesClean'
    PROVE  Inv'
  <1>1. /\ pc' = [pc EXCEPT ![w] = "idle"] /\ request' = [request EXCEPT ![w] = NoRequest]
        /\ array' = [array EXCEPT ![w] = <<>>]
        /\ requests' = requests /\ posted' = posted
    BY DEF Answer
  <1>2. TypeOK
    BY DEF Inv
  <1>3. TypeOK'
    <2>1. array' \in [Workers -> Seq(Entry)]
      BY <1>1, <1>2, SMT DEF TypeOK
    <2>2. \A v \in Workers : request'[v] = NoRequest <=> pc'[v] = "idle"
      BY <1>1, <1>2 DEF TypeOK
    <2> QED
      BY <1>1, <1>2, <2>1, <2>2 DEF TypeOK
  <1>4. ASSUME NEW v \in Workers
        PROVE  WorkerClean(v)'
    <2>1. CASE v = w
      BY <1>1, <1>2, <2>1 DEF TypeOK, WorkerClean
    <2>2. CASE v # w
      <3>1. WorkerClean(v)
        BY DEF Inv
      <3>2. pc'[v] = pc[v] /\ request'[v] = request[v] /\ array'[v] = array[v]
        BY <1>1, <1>2, <2>2 DEF TypeOK
      <3> QED
        BY <1>1, <3>1, <3>2 DEF WorkerClean, Clean, File
    <2> QED
      BY <2>1, <2>2
  <1> QED
    BY <1>3, <1>4 DEF Inv

\* A request is among the posted from the moment it reaches a worker.
LEMMA ReceiveInv ==
    ASSUME Inv, NEW w \in Workers, NEW r \in Requests, Receive(w, r)
    PROVE  Inv'
  <1> DEFINE f == IF r.method = "POST" THEN "commands" ELSE "parameters"
             entry == [ip |-> r.ip, body |-> r.body]
  <1>1. /\ pc[w] = "idle" /\ requests < MaxRequests
        /\ request' = [request EXCEPT ![w] = r] /\ pc' = [pc EXCEPT ![w] = "read"]
        /\ requests' = requests + 1
        /\ posted' = [posted EXCEPT ![f] = @ \cup {entry}]
        /\ depot' = depot /\ array' = array /\ faults' = faults /\ accepted' = accepted
        /\ disturbed' = disturbed
    BY DEF Receive
  <1>2. TypeOK
    BY DEF Inv
  <1>3. f \in Files /\ entry \in Entry
    BY DEF Files, Entry, Requests
  <1>4. r # NoRequest
    BY ZoneDepotAssumption
  <1>5. /\ posted' \in [Files -> SUBSET Entry] /\ entry \in posted'[f]
        /\ \A g \in Files : posted[g] \subseteq posted'[g]
    BY <1>1, <1>2, <1>3 DEF TypeOK
  <1>6. TypeOK'
    <2>1. requests' \in 0 .. MaxRequests
      BY <1>1, <1>2, ZoneDepotAssumption, SMT DEF TypeOK
    <2>2. \A v \in Workers : request'[v] = NoRequest <=> pc'[v] = "idle"
      BY <1>1, <1>2, <1>4 DEF TypeOK
    <2> QED
      BY <1>1, <1>2, <1>5, <2>1, <2>2 DEF TypeOK
  <1>7. FilesClean'
    BY <1>1, <1>5 DEF Inv, FilesClean, Clean
  <1>8. ASSUME NEW v \in Workers
        PROVE  WorkerClean(v)'
    <2>1. CASE v = w
      <3>1. request'[v] = r /\ array'[v] = array[v] /\ File(v)' = f
        BY <1>1, <1>2, <2>1 DEF TypeOK, File
      <3>2. array[v] = <<>>
        BY <1>1, <1>2, <2>1 DEF TypeOK
      <3> QED
        BY <1>5, <3>1, <3>2, EmptyClean DEF WorkerClean, Clean
    <2>2. CASE v # w
      <3>1. WorkerClean(v) /\ File(v) \in Files
        BY DEF Inv, File, Files
      <3>2. pc'[v] = pc[v] /\ request'[v] = request[v] /\ array'[v] = array[v]
        BY <1>1, <1>2, <2>2 DEF TypeOK
      <3> QED
        BY <1>5, <3>1, <3>2 DEF WorkerClean, Clean, File
    <2> QED
      BY <2>1, <2>2
  <1> QED
    BY <1>6, <1>7, <1>8 DEF Inv

\* The copy of a file that is clean, with a request that was posted, is clean.
LEMMA PrepareInv ==
    ASSUME Inv, NEW w \in Workers, Prepare(w)
    PROVE  Inv'
  <1>1. /\ pc[w] = "read" /\ pc' = [pc EXCEPT ![w] = "open"]
        /\ array' = [array EXCEPT ![w] = Revised(Seen(w), request[w])]
        /\ depot' = depot /\ request' = request /\ requests' = requests
        /\ faults' = faults /\ posted' = posted /\ accepted' = accepted
        /\ disturbed' \in {disturbed, disturbed \cup {File(w)}}
    BY DEF Prepare
  <1>2. TypeOK
    BY DEF Inv
  <1>3. request[w] \in Requests /\ File(w) \in Files
    <2>1. request[w] # NoRequest /\ request[w] \in Requests \cup {NoRequest}
      BY <1>1, <1>2 DEF TypeOK
    <2> QED
      BY <2>1 DEF File, Files
  <1>4. Seen(w) = depot[File(w)].robots /\ Seen(w) \in Seq(Entry)
    BY <1>2, <1>3 DEF Seen, Decoded, TypeOK, Contents
  <1>5. Clean(Seen(w), File(w))
    BY <1>3, <1>4 DEF Inv, FilesClean
  <1>6. [ip |-> request[w].ip, body |-> request[w].body] \in posted[File(w)]
    BY <1>1 DEF Inv, WorkerClean
  <1>7. /\ Revised(Seen(w), request[w]) \in Seq(Entry)
        /\ Clean(Revised(Seen(w), request[w]), File(w))
    BY <1>3, <1>4, <1>5, <1>6, RevisedType, RevisedClean DEF Clean
  <1>8. TypeOK'
    <2>1. array' \in [Workers -> Seq(Entry)]
      BY <1>1, <1>2, <1>7 DEF TypeOK
    <2>2. \A v \in Workers : request'[v] = NoRequest <=> pc'[v] = "idle"
      BY <1>1, <1>2 DEF TypeOK
    <2> QED
      BY <1>1, <1>2, <1>3, <2>1, <2>2 DEF TypeOK
  <1>9. FilesClean'
    BY <1>1 DEF Inv, FilesClean, Clean
  <1>10. ASSUME NEW v \in Workers
         PROVE  WorkerClean(v)'
    <2>1. WorkerClean(v)
      BY DEF Inv
    <2>2. CASE v = w
      <3>1. array'[v] = Revised(Seen(w), request[w])
        BY <1>1, <1>2, <2>2 DEF TypeOK
      <3> QED
        BY <1>1, <1>6, <1>7, <2>2, <3>1 DEF WorkerClean, Clean, File
    <2>3. CASE v # w
      <3>1. pc'[v] = pc[v] /\ array'[v] = array[v]
        BY <1>1, <1>2, <2>3 DEF TypeOK
      <3> QED
        BY <1>1, <2>1, <3>1 DEF WorkerClean, Clean, File
    <2> QED
      BY <2>2, <2>3
  <1> QED
    BY <1>8, <1>9, <1>10 DEF Inv

LEMMA TruncateInv ==
    ASSUME Inv, NEW w \in Workers, Truncate(w)
    PROVE  Inv'
  <1>1. /\ pc[w] = "open" /\ pc' = [pc EXCEPT ![w] = "write"]
        /\ depot' = [depot EXCEPT ![File(w)] = Empty]
        /\ request' = request /\ array' = array /\ requests' = requests
        /\ faults' = faults /\ posted' = posted /\ accepted' = accepted
        /\ disturbed' = disturbed
    BY DEF Truncate, Truncated
  <1>2. TypeOK
    BY DEF Inv
  <1>3. TypeOK'
    <2>1. depot' \in [Files -> Contents(Entry)]
      BY <1>1, <1>2, EmptyClean DEF TypeOK
    <2>2. \A v \in Workers : request'[v] = NoRequest <=> pc'[v] = "idle"
      BY <1>1, <1>2 DEF TypeOK
    <2> QED
      BY <1>1, <1>2, <2>1, <2>2 DEF TypeOK
  <1>4. FilesClean'
    <2> SUFFICES ASSUME NEW f \in Files PROVE Clean(depot'[f].robots, f)
      BY <1>1 DEF FilesClean, Clean
    <2>1. depot'[f] = Empty \/ depot'[f] = depot[f]
      BY <1>1, <1>2 DEF TypeOK
    <2> QED
      BY <2>1, EmptyClean DEF Inv, FilesClean
  <1>5. ASSUME NEW v \in Workers
        PROVE  WorkerClean(v)'
    <2>1. WorkerClean(v)
      BY DEF Inv
    <2>2. pc'[v] # "idle" => pc[v] # "idle"
      BY <1>1, <1>2 DEF TypeOK
    <2> QED
      BY <1>1, <2>1, <2>2 DEF WorkerClean, Clean, File
  <1> QED
    BY <1>3, <1>4, <1>5 DEF Inv

\* A write leaves the worker's copy in the file, or nothing that parses.
LEMMA WriteInv ==
    ASSUME Inv, NEW w \in Workers, Write(w)
    PROVE  Inv'
  <1>1. PICK new \in Overwritten(depot[File(w)], array[w]) :
            depot' = [depot EXCEPT ![File(w)] = new]
    BY DEF Write
  <1>2. /\ pc[w] = "write" /\ Answer(w) /\ faults' = faults /\ posted' = posted
        /\ disturbed' = disturbed
        /\ accepted' = [accepted EXCEPT ![File(w)] = @ \cup {request[w].ip}]
    BY DEF Write, Accept, Answer
  <1>3. TypeOK
    BY DEF Inv
  <1>4. /\ File(w) \in Files /\ array[w] \in Seq(Entry) /\ request[w].ip \in Ips
    <2>1. request[w] \in Requests
      BY <1>2, <1>3 DEF TypeOK
    <2> QED
      BY <1>3, <2>1 DEF TypeOK, File, Files, Requests
  <1>5. new \in Contents(Entry) /\ (new.robots = array[w] \/ new.robots = <<>>)
    BY <1>4, OverwrittenClean
  <1>6. Clean(new.robots, File(w))
    BY <1>2, <1>5, EmptyClean DEF Inv, WorkerClean
  <1>7. /\ depot' \in [Files -> Contents(Entry)]
        /\ accepted' \in [Files -> SUBSET Ips] /\ faults' \in 0 .. MaxFaults
        /\ disturbed' \subseteq Files
    BY <1>1, <1>2, <1>3, <1>4, <1>5 DEF TypeOK
  <1>8. FilesClean'
    <2> SUFFICES ASSUME NEW f \in Files PROVE Clean(depot'[f].robots, f)
      BY <1>2 DEF FilesClean, Clean
    <2>1. depot'[f] = IF f = File(w) THEN new ELSE depot[f]
      BY <1>1, <1>3 DEF TypeOK
    <2> QED
      BY <1>6, <2>1 DEF Inv, FilesClean
  <1> QED
    BY <1>2, <1>7, <1>8, AnswerInv

\* A fault leaves the file as it is, or nothing that parses.
LEMMA FaultInv ==
    ASSUME Inv, NEW w \in Workers, WriteFails(w) \/ Die(w)
    PROVE  Inv'
  <1>1. /\ pc[w] # "idle" /\ Fault(w) /\ Answer(w) /\ posted' = posted
        /\ \/ accepted' = accepted
           \/ accepted' = [accepted EXCEPT ![File(w)] = @ \cup {request[w].ip}]
    BY DEF WriteFails, Die, Accept, Answer
  <1>2. PICK new \in {depot[File(w)], Torn} : depot' = [depot EXCEPT ![File(w)] = new]
    BY <1>1 DEF Fault
  <1>3. TypeOK
    BY DEF Inv
  <1>4. File(w) \in Files /\ request[w].ip \in Ips
    BY <1>1, <1>3 DEF TypeOK, Requests, File, Files
  <1>5. faults' \in 0 .. MaxFaults
    BY <1>1, <1>3, ZoneDepotAssumption, SMT DEF TypeOK, Fault
  <1>6. Torn \in Contents(Entry) /\ Torn.robots = <<>>
    BY SMT DEF Torn, Contents
  <1>7. new \in Contents(Entry) /\ Clean(new.robots, File(w))
    BY <1>3, <1>4, <1>6, EmptyClean DEF Inv, TypeOK, FilesClean
  <1>8. /\ depot' \in [Files -> Contents(Entry)] /\ accepted' \in [Files -> SUBSET Ips]
        /\ disturbed' \subseteq Files
    BY <1>1, <1>2, <1>3, <1>4, <1>7 DEF TypeOK, Fault
  <1>9. FilesClean'
    <2> SUFFICES ASSUME NEW f \in Files PROVE Clean(depot'[f].robots, f)
      BY <1>1 DEF FilesClean, Clean
    <2>1. depot'[f] = IF f = File(w) THEN new ELSE depot[f]
      BY <1>2, <1>3 DEF TypeOK
    <2> QED
      BY <1>7, <2>1 DEF Inv, FilesClean
  <1> QED
    BY <1>1, <1>5, <1>8, <1>9, AnswerInv

LEMMA StepInv == Inv /\ [Next]_vars => Inv'
  <1> SUFFICES ASSUME Inv, [Next]_vars PROVE Inv'
    OBVIOUS
  <1>1. ASSUME NEW w \in Workers, Refuse(w) \/ Fail(w) PROVE Inv'
    <2>1. /\ Answer(w) /\ depot' = depot /\ faults' = faults /\ accepted' = accepted
          /\ disturbed' = disturbed
      BY <1>1 DEF Refuse, Fail
    <2>2. FilesClean'
      BY <2>1 DEF Answer, Inv, FilesClean, Clean
    <2> QED
      BY <2>1, <2>2, AnswerInv DEF Inv, TypeOK
  <1>2. ASSUME NEW w \in Workers, Prepare(w) PROVE Inv'
    BY <1>2, PrepareInv
  <1>3. ASSUME NEW w \in Workers, Truncate(w) PROVE Inv'
    BY <1>3, TruncateInv
  <1>4. ASSUME NEW w \in Workers, Write(w) PROVE Inv'
    BY <1>4, WriteInv
  <1>5. ASSUME NEW w \in Workers, WriteFails(w) \/ Die(w) PROVE Inv'
    BY <1>5, FaultInv
  <1>6. ASSUME NEW w \in Workers, NEW r \in Requests, Receive(w, r) PROVE Inv'
    BY <1>6, ReceiveInv
  <1>7. CASE UNCHANGED vars
    <2>1. TypeOK' /\ FilesClean'
      BY <1>7 DEF vars, Inv, TypeOK, FilesClean, Clean
    <2>2. \A w \in Workers : WorkerClean(w)'
      BY <1>7 DEF vars, Inv, WorkerClean, Clean, File
    <2> QED
      BY <2>1, <2>2 DEF Inv
  <1> QED
    BY <1>1, <1>2, <1>3, <1>4, <1>5, <1>6, <1>7 DEF Next, Serve

-------------------------------------------------------------------------------
(* The theorems.                                                           *)

\* However the workers interleave, files and copies stay clean
\* (controller.LMG.php:59-148).
THEOREM InvHolds == Spec => []Inv
  BY InitInv, StepInv, PTL DEF Spec

\* Every variable keeps its type.
THEOREM TypeCorrect == Spec => []TypeOK
  BY InvHolds, PTL DEF Inv

\* However the workers interleave and whatever is lost, no file holds a robot
\* twice (controller.LMG.php:81-95, 127-143).
THEOREM NoDuplicates == Spec => []NoDuplicateIp
  <1>1. Inv => NoDuplicateIp
    BY DEF Inv, FilesClean, Clean, NoDuplicateIp
  <1> QED
    BY <1>1, InvHolds, PTL

\* Nor an entry nobody asked for (controller.LMG.php:87-94, 133-142).
THEOREM NothingMadeUp == Spec => []EntriesWerePosted
  <1>1. Inv => EntriesWerePosted
    BY DEF Inv, FilesClean, Clean, EntriesWerePosted, Stored
  <1> QED
    BY <1>1, InvHolds, PTL

-------------------------------------------------------------------------------
(* What a file keeps until it is disturbed, for any number of workers.     *)

Listed(robots, ips) == \A ip \in ips : Contains(robots, ip)

Copying(w, f) == pc[w] \in {"open", "write"} /\ File(w) = f

\* The copy is the file with the request in it, and Prepare let it pass.
Prepared(w) ==
    /\ array[w] = Revised(depot[File(w)].robots, request[w])
    /\ IF Contains(depot[File(w)].robots, request[w].ip)
       THEN request[w].method = "PUT" ELSE request[w].body # NoBody

\* While the file is empty its robots are in the copy.
Copied(w) ==
    /\ pc[w] = "open" => Prepared(w)
    /\ pc[w] = "write" => /\ depot[File(w)] = Empty
                          /\ Listed(array[w], accepted[File(w)] \cup {request[w].ip})

\* One copy of the file is out at most, and what it is of is still there.
Kept(f) ==
    /\ \A v, w \in Workers : Copying(v, f) /\ Copying(w, f) => v = w
    /\ \A w \in Workers : Copying(w, f) => Copied(w)
    /\ depot[f].state # "torn"
    /\ Writing(f) \/ Listed(depot[f].robots, accepted[f])

KeptInv == Inv /\ \A f \in Files \ disturbed : Kept(f)

-------------------------------------------------------------------------------
\* Revising a list loses no robot, and lists the one of the request.
LEMMA RevisedListed ==
    ASSUME NEW robots \in Seq(Entry), NEW r \in Requests, NEW ips, Listed(robots, ips)
    PROVE  Listed(Revised(robots, r), ips \cup {r.ip})
  <1> DEFINE entry == [ip |-> r.ip, body |-> r.body]
             new == Revised(robots, r)
             n == Len(robots)
  <1>1. n \in Nat /\ entry.ip = r.ip
    BY SMT
  <1>2. CASE Contains(robots, r.ip)
    <2>1. new = [k \in 1 .. n |-> IF robots[k].ip = r.ip THEN entry ELSE robots[k]]
      BY <1>2 DEF Revised
    <2>2. Len(new) = n
      BY <1>1, <2>1, SMT
    <2>3. \A k \in 1 .. n : new[k].ip = robots[k].ip
      BY <2>1
    <2> QED
      BY <1>2, <2>2, <2>3 DEF Listed, Contains
  <1>3. CASE ~Contains(robots, r.ip)
    <2>1. new = Append(robots, entry)
      BY <1>3 DEF Revised
    <2>2. /\ Len(new) = n + 1 /\ new[n + 1] = entry
          /\ \A k \in 1 .. n : new[k] = robots[k]
      BY <1>1, <2>1, SMT
    <2>3. \A k \in 1 .. n : k \in 1 .. n + 1
      BY <1>1, SMT
    <2>4. n + 1 \in 1 .. n + 1
      BY <1>1, SMT
    <2> QED
      BY <1>1, <2>2, <2>3, <2>4 DEF Listed, Contains
  <1> QED
    BY <1>2, <1>3

\* A busy worker has a request, about a file.
LEMMA Busy ==
    ASSUME TypeOK, NEW w \in Workers, pc[w] # "idle"
    PROVE  /\ request[w] \in Requests /\ File(w) \in Files
           /\ depot[File(w)].robots \in Seq(Entry)
  <1>1. request[w] \in Requests
    BY DEF TypeOK
  <1>2. File(w) \in Files
    BY DEF File, Files
  <1> QED
    BY <1>1, <1>2 DEF TypeOK, Contents

LEMMA KeptInit == Init => KeptInv
  <1> SUFFICES ASSUME Init PROVE KeptInv
    OBVIOUS
  <1>1. Inv
    BY InitInv
  <1>2. ASSUME NEW f \in Files \ disturbed PROVE Kept(f)
    <2>1. \A w \in Workers : ~Copying(w, f)
      BY DEF Init, Copying
    <2>2. depot[f].state # "torn"
      BY DEF Init
    <2>3. Listed(depot[f].robots, accepted[f])
      BY DEF Init, Listed
    <2> QED
      BY <2>1, <2>2, <2>3 DEF Kept
  <1> QED
    BY <1>1, <1>2 DEF KeptInv

\* A step of a worker that has no copy of the file out, before it or after.
LEMMA KeptElsewhere ==
    ASSUME NEW f \in Files, Kept(f), NEW w \in Workers,
           ~Copying(w, f), ~Copying(w, f)',
           depot'[f] = depot[f], accepted'[f] = accepted[f],
           \A v \in Workers \ {w} :
               pc'[v] = pc[v] /\ request'[v] = request[v] /\ array'[v] = array[v]
    PROVE  Kept(f)'
  <1>1. ASSUME NEW v \in Workers \ {w} PROVE Copying(v, f)' <=> Copying(v, f)
    BY DEF Copying, File
  <1>2. \A v, u \in Workers : Copying(v, f)' /\ Copying(u, f)' => v = u
    BY <1>1 DEF Kept
  <1>3. ASSUME NEW v \in Workers, Copying(v, f)' PROVE Copied(v)'
    <2>1. v # w /\ Copying(v, f) /\ File(v) = f
      BY <1>1, <1>3 DEF Copying
    <2>2. Copied(v)
      BY <2>1 DEF Kept
    <2> QED
      BY <2>1, <2>2 DEF Copied, Prepared, Listed, File
  <1>4. Writing(f)' \/ Listed(depot[f].robots, accepted[f])'
    <2>1. CASE Writing(f)
      <3>1. PICK v \in Workers : pc[v] = "write" /\ File(v) = f
        BY <2>1 DEF Writing
      <3>2. v # w
        BY <3>1 DEF Copying
      <3> QED
        BY <3>1, <3>2 DEF Writing, File
    <2>2. CASE ~Writing(f)
      BY <2>2 DEF Kept, Listed
    <2> QED
      BY <2>1, <2>2
  <1> QED
    BY <1>2, <1>3, <1>4 DEF Kept

LEMMA KeptPrepare ==
    ASSUME Inv, NEW w \in Workers, Prepare(w), NEW f \in Files, f = File(w),
           Kept(f), f \notin disturbed'
    PROVE  Kept(f)'
  <1>1. TypeOK
    BY DEF Inv
  <1>2. /\ pc[w] = "read" /\ pc' = [pc EXCEPT ![w] = "open"] /\ pc'[w] = "open"
        /\ depot' = depot /\ accepted' = accepted /\ request' = request
        /\ array' = [array EXCEPT ![w] = Revised(Seen(w), request[w])]
        /\ array'[w] = Revised(Seen(w), request[w])
        /\ IF Present(w) THEN request[w].method = "PUT" ELSE request[w].body # NoBody
        /\ ~Contended(w)
    BY <1>1 DEF Prepare, TypeOK
  <1>3. \A v \in Workers : ~Copying(v, f)
    BY <1>2 DEF Contended, Copying
  <1>4. \A v \in Workers : File(v)' = File(v)
    BY <1>2 DEF File
  <1>5. \A v \in Workers : Copying(v, f)' => v = w
    <2>1. \A v \in Workers : v # w => pc'[v] = pc[v]
      BY <1>1, <1>2 DEF TypeOK
    <2> QED
      BY <1>3, <1>4, <2>1 DEF Copying
  <1>6. Copied(w)'
    BY <1>2 DEF Copied, Prepared, Seen, Present, Decoded, File
  <1>7. Listed(depot[f].robots, accepted[f])
    BY <1>3 DEF Kept, Writing, Copying
  <1>8. Listed(depot[f].robots, accepted[f])'
    BY <1>2, <1>7 DEF Listed
  <1>9. depot'[f].state # "torn"
    BY <1>2 DEF Kept
  <1> QED
    BY <1>5, <1>6, <1>8, <1>9 DEF Kept

LEMMA KeptTruncate ==
    ASSUME Inv, NEW w \in Workers, Truncate(w), NEW f \in Files, f = File(w), Kept(f)
    PROVE  Kept(f)'
  <1>1. TypeOK
    BY DEF Inv
  <1>2. /\ pc[w] = "open" /\ pc' = [pc EXCEPT ![w] = "write"] /\ pc'[w] = "write"
        /\ array' = array /\ depot' = [depot EXCEPT ![f] = Empty] /\ depot'[f] = Empty
        /\ accepted' = accepted /\ request' = request
    BY <1>1 DEF Truncate, Truncated, TypeOK
  <1>3. request[w] \in Requests /\ depot[f].robots \in Seq(Entry)
    BY <1>1, <1>2, Busy
  <1>4. Copying(w, f)
    BY <1>2 DEF Copying
  <1>5. \A v \in Workers : File(v)' = File(v)
    BY <1>2 DEF File
  <1>6. \A v \in Workers : Copying(v, f)' => v = w
    <2>1. \A v \in Workers : v # w => pc'[v] = pc[v]
      BY <1>1, <1>2 DEF TypeOK
    <2> QED
      BY <1>4, <1>5, <2>1 DEF Copying, Kept
  <1>7. Prepared(w)
    BY <1>2, <1>4 DEF Kept, Copied
  <1>8. Listed(depot[f].robots, accepted[f])
    <2>1. ~Writing(f)
      BY <1>2, <1>4 DEF Kept, Writing, Copying
    <2> QED
      BY <2>1 DEF Kept
  <1>9. Listed(array[w], accepted[f] \cup {request[w].ip})
    BY <1>3, <1>7, <1>8, RevisedListed DEF Prepared
  <1>10. Copied(w)'
    BY <1>2, <1>5, <1>9 DEF Copied, Listed
  <1>11. Writing(f)'
    BY <1>2, <1>5 DEF Writing
  <1>12. depot'[f].state # "torn"
    BY <1>2 DEF Empty
  <1> QED
    BY <1>6, <1>10, <1>11, <1>12 DEF Kept

LEMMA KeptWrite ==
    ASSUME Inv, NEW w \in Workers, Write(w), NEW f \in Files, f = File(w), Kept(f)
    PROVE  Kept(f)'
  <1>1. TypeOK
    BY DEF Inv
  <1>2. /\ pc[w] = "write" /\ pc' = [pc EXCEPT ![w] = "idle"] /\ pc'[w] = "idle"
        /\ request' = [request EXCEPT ![w] = NoRequest]
        /\ accepted' = [accepted EXCEPT ![f] = @ \cup {request[w].ip}]
        /\ accepted'[f] = accepted[f] \cup {request[w].ip}
    BY <1>1 DEF Write, Answer, Accept, TypeOK
  <1>3. Copying(w, f)
    BY <1>2 DEF Copying
  <1>4. depot[f] = Empty /\ Listed(array[w], accepted[f] \cup {request[w].ip})
    BY <1>2, <1>3 DEF Kept, Copied
  <1>5. depot'[f] = Whole(array[w])
    BY <1>1, <1>4 DEF Write, Overwritten, TypeOK
  <1>6. \A v \in Workers : ~Copying(v, f)'
    <2>1. \A v \in Workers : v # w => pc'[v] = pc[v] /\ request'[v] = request[v]
      BY <1>1, <1>2 DEF TypeOK
    <2>2. \A v \in Workers : v # w => ~Copying(v, f)
      BY <1>3 DEF Kept
    <2> QED
      BY <1>2, <2>1, <2>2 DEF Copying, File
  <1>7. Listed(depot[f].robots, accepted[f])'
    BY <1>2, <1>4, <1>5 DEF Whole, Listed
  <1>8. depot'[f].state # "torn"
    BY <1>5 DEF Whole
  <1> QED
    BY <1>6, <1>7, <1>8 DEF Kept

\* A step of one worker leaves the others alone, and a file stays disturbed.
LEMMA OneSteps ==
    ASSUME Inv, NEW w \in Workers, Serve(w) \/ Die(w) \/ \E r \in Requests : Receive(w, r)
    PROVE  /\ \A v \in Workers \ {w} :
                 pc'[v] = pc[v] /\ request'[v] = request[v] /\ array'[v] = array[v]
           /\ disturbed \subseteq disturbed'
  <1>1. TypeOK
    BY DEF Inv
  <1>2. CASE Refuse(w) \/ Fail(w) \/ Write(w)
    BY <1>1, <1>2 DEF Refuse, Fail, Write, Answer, TypeOK
  <1>3. CASE Prepare(w) \/ Truncate(w)
    BY <1>1, <1>3 DEF Prepare, Truncate, TypeOK
  <1>4. CASE WriteFails(w) \/ Die(w)
    BY <1>1, <1>4 DEF WriteFails, Die, Fault, Answer, TypeOK
  <1>5. CASE \E r \in Requests : Receive(w, r)
    BY <1>1, <1>5 DEF Receive, TypeOK
  <1> QED
    BY <1>2, <1>3, <1>4, <1>5 DEF Serve

LEMMA KeptStep == KeptInv /\ [Next]_vars => KeptInv'
  <1> SUFFICES ASSUME KeptInv, [Next]_vars PROVE KeptInv'
    OBVIOUS
  <1>1. Inv /\ Inv' /\ TypeOK
    BY StepInv DEF KeptInv, Inv
  <1>2. SUFFICES ASSUME NEW f \in Files, f \notin disturbed' PROVE Kept(f)'
    BY <1>1 DEF KeptInv
  <1>3. CASE UNCHANGED vars
    BY <1>2, <1>3 DEF vars, KeptInv, Kept, Copying, Copied, Prepared, Writing, Listed, File
  <1>4. ASSUME NEW w \in Workers,
               Serve(w) \/ Die(w) \/ \E r \in Requests : Receive(w, r)
        PROVE  Kept(f)'
    <2>1. Kept(f) /\ \A v \in Workers \ {w} :
              pc'[v] = pc[v] /\ request'[v] = request[v] /\ array'[v] = array[v]
      BY <1>1, <1>2, <1>4, OneSteps DEF KeptInv
    <2>2. CASE Refuse(w) \/ Fail(w)
      <3>1. pc[w] = "read" /\ pc'[w] = "idle" /\ depot' = depot /\ accepted' = accepted
        BY <1>1, <2>2 DEF Refuse, Fail, Answer, TypeOK
      <3>2. ~Copying(w, f) /\ ~Copying(w, f)'
        BY <3>1 DEF Copying
      <3> QED
        BY <2>1, <3>1, <3>2, KeptElsewhere
    <2>3. CASE \E r \in Requests : Receive(w, r)
      <3>1. pc[w] = "idle" /\ pc'[w] = "read" /\ depot' = depot /\ accepted' = accepted
        BY <1>1, <2>3 DEF Receive, TypeOK
      <3>2. ~Copying(w, f) /\ ~Copying(w, f)'
        BY <3>1 DEF Copying
      <3> QED
        BY <2>1, <3>1, <3>2, KeptElsewhere
    <2>4. CASE (Prepare(w) \/ Truncate(w)) /\ f # File(w)
      <3>1. depot'[f] = depot[f] /\ accepted' = accepted /\ request' = request
        BY <1>1, <2>4 DEF Prepare, Truncate, TypeOK
      <3>2. ~Copying(w, f) /\ ~Copying(w, f)'
        BY <2>4, <3>1 DEF Copying, File
      <3> QED
        BY <2>1, <3>1, <3>2, KeptElsewhere
    <2>5. CASE (Write(w) \/ WriteFails(w) \/ Die(w)) /\ f # File(w)
      <3>1. depot'[f] = depot[f]
        BY <1>1, <2>5 DEF Write, WriteFails, Die, Fault, TypeOK
      <3>2. accepted'[f] = accepted[f] /\ pc'[w] = "idle"
        BY <1>1, <2>5 DEF Write, WriteFails, Die, Accept, Answer, TypeOK
      <3>3. ~Copying(w, f) /\ ~Copying(w, f)'
        BY <2>5, <3>2 DEF Copying
      <3> QED
        BY <2>1, <3>1, <3>2, <3>3, KeptElsewhere
    <2>6. CASE (WriteFails(w) \/ Die(w)) /\ f = File(w)
      BY <1>2, <2>6 DEF WriteFails, Die, Fault
    <2> QED
      BY <1>1, <1>2, <1>4, <2>1, <2>2, <2>3, <2>4, <2>5, <2>6, KeptPrepare, KeptTruncate,
         KeptWrite DEF Serve
  <1> QED
    BY <1>3, <1>4 DEF Next

LEMMA KeptInvHolds == Spec => []KeptInv
  BY KeptInit, KeptStep, PTL DEF Spec

-------------------------------------------------------------------------------
\* Any number of workers: whatever they do with the other file, a file keeps
\* every robot it accepted until two copies of it are out at once or a worker
\* fails on it (controller.LMG.php:78-97, 124-146).
THEOREM UndisturbedForgetsNothing == Spec => []UndisturbedKeeps
  <1>1. KeptInv => UndisturbedKeeps
    <2> SUFFICES ASSUME KeptInv, NEW f \in Files \ disturbed, ~Writing(f), NEW ip \in accepted[f]
                 PROVE  \E entry \in Stored(depot[f]) : entry.ip = ip
      BY DEF UndisturbedKeeps
    <2>1. Contains(depot[f].robots, ip)
      BY DEF KeptInv, Kept, Listed
    <2> QED
      BY <2>1 DEF Contains, Stored
  <1> QED
    BY <1>1, KeptInvHolds, PTL

\* Nor does it tear before that (controller.LMG.php:95, 143).
THEOREM TearingDisturbs == Spec => []TornWasDisturbed
  <1>1. KeptInv => TornWasDisturbed
    BY DEF KeptInv, Kept, TornWasDisturbed
  <1> QED
    BY <1>1, KeptInvHolds, PTL

-------------------------------------------------------------------------------
(* The refinement: a request is one step of RobotRegistry, taken when its  *)
(* file is truncated, and a file that is disturbed lapses.                 *)

\* An entry of the revised list is that of the request, or was there.
LEMMA RevisedShape ==
    ASSUME NEW robots \in Seq(Entry), NEW r \in Requests
    PROVE  \A k \in 1 .. Len(Revised(robots, r)) :
              \/ Revised(robots, r)[k] = [ip |-> r.ip, body |-> r.body]
              \/ /\ k \in 1 .. Len(robots) /\ Revised(robots, r)[k] = robots[k]
                 /\ robots[k].ip # r.ip
  <1> DEFINE entry == [ip |-> r.ip, body |-> r.body]
             new == Revised(robots, r)
             n == Len(robots)
  <1>1. n \in Nat
    BY SMT
  <1>2. CASE Contains(robots, r.ip)
    <2>1. new = [k \in 1 .. n |-> IF robots[k].ip = r.ip THEN entry ELSE robots[k]]
      BY <1>2 DEF Revised
    <2>2. Len(new) = n
      BY <1>1, <2>1, SMT
    <2> QED
      BY <2>1, <2>2
  <1>3. CASE ~Contains(robots, r.ip)
    <2>1. new = Append(robots, entry)
      BY <1>3 DEF Revised
    <2>2. /\ Len(new) = n + 1 /\ new[n + 1] = entry
          /\ \A k \in 1 .. n : new[k] = robots[k]
      BY <1>1, <2>1, SMT
    <2>3. \A k \in 1 .. n + 1 : k \in 1 .. n \/ k = n + 1
      BY <1>1, SMT
    <2> QED
      BY <1>3, <2>2, <2>3 DEF Contains
  <1> QED
    BY <1>2, <1>3

LEMMA RegisteredType ==
    ASSUME NEW robots \in Seq(Entry)
    PROVE  Registered(robots) \in [Ips -> Bodies \cup {NoBody, Absent}]
  <1> SUFFICES ASSUME NEW ip \in Ips, Contains(robots, ip)
               PROVE  robots[CHOOSE k \in 1 .. Len(robots) : robots[k].ip = ip].body
                          \in Bodies \cup {NoBody}
    BY DEF Registered
  <1>1. PICK k \in 1 .. Len(robots) : robots[k].ip = ip
    BY DEF Contains
  <1>2. (CHOOSE j \in 1 .. Len(robots) : robots[j].ip = ip) \in 1 .. Len(robots)
    BY <1>1
  <1>3. \A j \in 1 .. Len(robots) : robots[j] \in Entry
    BY SMT
  <1> QED
    BY <1>2, <1>3 DEF Entry

\* In a list without duplicates an address has one body.
LEMMA RegisteredAt ==
    ASSUME NEW robots \in Seq(Entry), Distinct(robots), NEW k \in 1 .. Len(robots)
    PROVE  Registered(robots)[robots[k].ip] = robots[k].body
  <1> DEFINE ip == robots[k].ip
             j == CHOOSE l \in 1 .. Len(robots) : robots[l].ip = ip
  <1>1. ip \in Ips
    <2>1. robots[k] \in Entry
      BY SMT
    <2> QED
      BY <2>1 DEF Entry
  <1>2. j \in 1 .. Len(robots) /\ robots[j].ip = ip
    OBVIOUS
  <1>3. j = k
    BY <1>2 DEF Distinct
  <1>4. Contains(robots, ip)
    BY DEF Contains
  <1> QED
    BY <1>1, <1>3, <1>4 DEF Registered

\* What the revised list registers.
LEMMA RevisedRegistered ==
    ASSUME NEW robots \in Seq(Entry), Distinct(robots), NEW r \in Requests
    PROVE  Registered(Revised(robots, r)) = [Registered(robots) EXCEPT ![r.ip] = r.body]
  <1> DEFINE new == Revised(robots, r)
             S == {robots[k] : k \in 1 .. Len(robots)} \cup {[ip |-> r.ip, body |-> r.body]}
  <1>1. new \in Seq(Entry)
    BY RevisedType
  <1>2. Distinct(new)
    BY RevisedClean, {robots[k] : k \in 1 .. Len(robots)} \subseteq S,
       [ip |-> r.ip, body |-> r.body] \in S
  <1>3. ASSUME NEW ip \in Ips
        PROVE  Registered(new)[ip] = IF ip = r.ip THEN r.body ELSE Registered(robots)[ip]
    <2>1. CASE Contains(new, ip)
      <3>1. PICK k \in 1 .. Len(new) : new[k].ip = ip
        BY <2>1 DEF Contains
      <3>2. Registered(new)[ip] = new[k].body
        BY <1>1, <1>2, <3>1, RegisteredAt
      <3>3. CASE new[k] = [ip |-> r.ip, body |-> r.body]
        BY <3>1, <3>2, <3>3
      <3>4. CASE k \in 1 .. Len(robots) /\ new[k] = robots[k] /\ robots[k].ip # r.ip
        BY <3>1, <3>2, <3>4, RegisteredAt
      <3> QED
        BY <3>3, <3>4, RevisedShape
    <2>2. CASE ~Contains(new, ip)
      <3>1. Listed(new, {} \cup {r.ip})
        BY RevisedListed DEF Listed
      <3>2. ip # r.ip
        BY <2>2, <3>1 DEF Listed
      <3>3. ~Contains(robots, ip)
        <4>1. SUFFICES ASSUME Contains(robots, ip) PROVE FALSE
          OBVIOUS
        <4>2. Listed(robots, {ip})
          BY <4>1 DEF Listed
        <4>3. Listed(new, {ip} \cup {r.ip})
          BY <4>2, RevisedListed
        <4> QED
          BY <2>2, <4>3 DEF Listed
      <3> QED
        BY <2>2, <3>2, <3>3 DEF Registered
    <2> QED
      BY <2>1, <2>2
  <1>4. Registered(new) = [ip \in Ips |-> Registered(new)[ip]]
    BY DEF Registered
  <1>5. Registered(robots) = [ip \in Ips |-> Registered(robots)[ip]]
    BY DEF Registered
  <1> QED
    BY <1>3, <1>4, <1>5

\* The copy of the one worker that writes a file stands for the file.
LEMMA HeldCopy ==
    ASSUME NEW f \in Files, f \notin disturbed, Kept(f),
           NEW w \in Workers, pc[w] = "write", File(w) = f
    PROVE  Held[f] = Registered(array[w])
  <1>1. Writer(f) \in Workers /\ pc[Writer(f)] = "write" /\ File(Writer(f)) = f
    BY DEF Writer
  <1>2. Writer(f) = w
    BY <1>1 DEF Kept, Copying
  <1>3. Writing(f)
    BY DEF Writing
  <1> QED
    BY <1>2, <1>3 DEF Held

\* A step of a worker that does not write the file, before it or after.
LEMMA HeldElsewhere ==
    ASSUME NEW f \in Files, NEW w \in Workers, f \in disturbed <=> f \in disturbed',
           ~(pc[w] = "write" /\ File(w) = f), ~(pc'[w] = "write" /\ File(w)' = f),
           depot'[f] = depot[f],
           \A v \in Workers \ {w} :
               pc'[v] = pc[v] /\ request'[v] = request[v] /\ array'[v] = array[v]
    PROVE  Held'[f] = Held[f]
  <1>1. ASSUME NEW v \in Workers
        PROVE  (pc'[v] = "write" /\ File(v)' = f) <=> (pc[v] = "write" /\ File(v) = f)
    BY DEF File
  <1>2. Writing(f)' <=> Writing(f)
    BY <1>1 DEF Writing
  <1>3. CASE f \in disturbed
    BY <1>3 DEF Held
  <1>4. CASE f \notin disturbed /\ ~Writing(f)
    BY <1>2, <1>4 DEF Held
  <1>5. CASE f \notin disturbed /\ Writing(f)
    <2>1. Writer(f) \in Workers /\ pc[Writer(f)] = "write" /\ File(Writer(f)) = f
      BY <1>5 DEF Writing, Writer
    <2>2. Writer(f)' = Writer(f)
      BY <1>1 DEF Writer, File
    <2>3. array'[Writer(f)] = array[Writer(f)]
      BY <2>1
    <2> QED
      BY <1>2, <1>5, <2>2, <2>3 DEF Held
  <1> QED
    BY <1>3, <1>4, <1>5

\* A step that leaves what every file holds leaves the map.
LEMMA HeldSame ==
    ASSUME \A f \in Files : Held'[f] = Held[f]
    PROVE  Held' = Held
  <1>1. Held = [f \in Files |-> Held[f]] /\ Held' = [f \in Files |-> Held'[f]]
    BY DEF Held
  <1> QED
    BY <1>1

\* Truncating a file that is not disturbed is the request's step.
LEMMA HeldTruncate ==
    ASSUME KeptInv, KeptInv', NEW w \in Workers, Truncate(w), NEW f \in Files, f = File(w),
           f \notin disturbed
    PROVE  Registry!Next
  <1> DEFINE r == request[w]
             robots == depot[f].robots
  <1>1. TypeOK /\ Inv /\ Kept(f)
    BY DEF KeptInv, Inv
  <1>2. /\ pc[w] = "open" /\ pc' = [pc EXCEPT ![w] = "write"] /\ pc'[w] = "write"
        /\ depot' = [depot EXCEPT ![f] = Empty] /\ array' = array /\ request' = request
        /\ disturbed' = disturbed
    BY <1>1 DEF Truncate, Truncated, TypeOK
  <1>3. r \in Requests /\ robots \in Seq(Entry)
    BY <1>1, <1>2, Busy
  <1>4. Prepared(w) /\ ~Writing(f)
    <2>1. Copying(w, f)
      BY <1>2 DEF Copying
    <2> QED
      BY <1>1, <1>2, <2>1 DEF Kept, Copied, Writing, Copying
  <1>5. Held[f] = Registered(robots)
    BY <1>4 DEF Held
  <1>6. Held'[f] = Registered(array[w])
    <2>1. File(w)' = f /\ Kept(f)' /\ f \notin disturbed'
      BY <1>2 DEF File, KeptInv
    <2>2. Held'[f] = Registered(array'[w])
      <3>1. \A v \in Workers : pc'[v] = "write" /\ File(v)' = f => v = w
        BY <1>2, <2>1 DEF Kept, Copying, File
      <3>2. Writer(f)' = w
        BY <1>2, <2>1, <3>1 DEF Writer, File
      <3>3. Writing(f)'
        BY <1>2, <2>1 DEF Writing
      <3> QED
        BY <2>1, <3>2, <3>3 DEF Held
    <2> QED
      BY <1>2, <2>2
  <1>7. ASSUME NEW g \in Files, g # f PROVE Held'[g] = Held[g]
    <2>1. depot'[g] = depot[g]
      BY <1>1, <1>2, <1>7 DEF TypeOK
    <2>2. File(w)' = f
      BY <1>2 DEF File
    <2>3. \A v \in Workers \ {w} :
              pc'[v] = pc[v] /\ request'[v] = request[v] /\ array'[v] = array[v]
      BY <1>1, OneSteps DEF Serve
    <2> QED
      BY <1>2, <1>7, <2>1, <2>2, <2>3, HeldElsewhere
  <1>8. Registered(array[w]) = [Held[f] EXCEPT ![r.ip] = r.body]
    <2>1. Distinct(robots)
      BY <1>1 DEF Inv, FilesClean, Clean
    <2> QED
      BY <1>3, <1>4, <1>5, <2>1, RevisedRegistered DEF Prepared
  <1>9. Held' = [Held EXCEPT ![f][r.ip] = r.body]
    <2>1. Held = [g \in Files |-> Held[g]] /\ Held' = [g \in Files |-> Held'[g]]
      BY DEF Held
    <2>2. Held' = [Held EXCEPT ![f] = [Held[f] EXCEPT ![r.ip] = r.body]]
      BY <1>6, <1>7, <1>8, <2>1
    <2> QED
      BY <2>2
  <1>10. r.ip \in Ips /\ r.body \in Bodies \cup {NoBody}
    BY <1>3 DEF Requests
  <1>11. CASE r.method = "POST"
    <2>1. f = "commands" /\ ~Contains(robots, r.ip) /\ r.body \in Bodies
      BY <1>4, <1>10, <1>11 DEF Prepared, File
    <2>2. Held["commands"][r.ip] = Absent
      BY <1>5, <1>10, <2>1 DEF Registered, Files
    <2>3. Registry!Create(r.ip, r.body)
      BY <1>2, <1>9, <2>1, <2>2 DEF Registry!Create
    <2> QED
      BY <1>10, <2>1, <2>3 DEF Registry!Next
  <1>12. CASE r.method # "POST"
    <2>1. f = "parameters"
      BY <1>12 DEF File
    <2>2. r.body = NoBody => Held["parameters"][r.ip] # Absent
      <3>1. SUFFICES ASSUME r.body = NoBody PROVE Held["parameters"][r.ip] # Absent
        OBVIOUS
      <3>2. PICK k \in 1 .. Len(robots) : robots[k].ip = r.ip
        BY <1>4, <3>1 DEF Prepared, Contains
      <3>3. Distinct(robots)
        BY <1>1 DEF Inv, FilesClean, Clean
      <3>4. Held["parameters"][r.ip] = robots[k].body
        BY <1>3, <1>5, <2>1, <3>2, <3>3, RegisteredAt
      <3>5. robots[k] \in Entry
        BY <1>3, SMT
      <3> QED
        BY <3>4, <3>5, ZoneDepotAssumption DEF Entry
    <2>3. Registry!Update(r.ip, r.body)
      BY <1>2, <1>9, <2>1, <2>2 DEF Registry!Update
    <2> QED
      BY <1>10, <2>3 DEF Registry!Next
  <1> QED
    BY <1>11, <1>12

\* A write leaves in its file what the copy stood for.
LEMMA HeldWrite ==
    ASSUME KeptInv, KeptInv', NEW w \in Workers, Write(w)
    PROVE  Held' = Held
  <1>1. TypeOK /\ Inv
    BY DEF KeptInv, Inv
  <1>2. pc[w] = "write" /\ pc'[w] = "idle" /\ disturbed' = disturbed
    BY <1>1 DEF Write, Answer, TypeOK
  <1>3. \A v \in Workers \ {w} :
            pc'[v] = pc[v] /\ request'[v] = request[v] /\ array'[v] = array[v]
    BY <1>1, OneSteps DEF Serve
  <1>4. ASSUME NEW f \in Files PROVE Held'[f] = Held[f]
    <2>1. CASE f # File(w)
      <3>1. depot'[f] = depot[f]
        BY <1>1, <2>1 DEF Write, TypeOK
      <3> QED
        BY <1>2, <1>3, <2>1, <3>1, HeldElsewhere
    <2>2. CASE f \in disturbed
      BY <1>2, <2>2 DEF Held
    <2>3. CASE f = File(w) /\ f \notin disturbed
      <3>1. Kept(f) /\ Copying(w, f)
        BY <1>2, <2>3 DEF KeptInv, Copying
      <3>2. depot[f] = Empty
        BY <1>2, <2>3, <3>1 DEF Kept, Copied
      <3>3. depot'[f] = Whole(array[w])
        BY <1>1, <2>3, <3>2 DEF Write, Overwritten, TypeOK
      <3>4. ~Writing(f)'
        <4>1. \A v \in Workers : v # w => ~Copying(v, f)
          BY <3>1 DEF Kept
        <4> QED
          BY <1>2, <1>3, <4>1 DEF Writing, Copying, File
      <3>5. Held'[f] = Registered(array[w])
        BY <1>2, <2>3, <3>3, <3>4 DEF Held, Whole
      <3> QED
        BY <1>2, <2>3, <3>1, <3>5, HeldCopy
    <2> QED
      BY <2>1, <2>2, <2>3
  <1> QED
    BY <1>4, HeldSame

\* A second copy that is out, or a fault, lapses the file.
LEMMA HeldLapse ==
    ASSUME Inv, NEW w \in Workers, Prepare(w) \/ WriteFails(w) \/ Die(w),
           NEW f \in Files, f = File(w), disturbed' = disturbed \cup {f}
    PROVE  Registry!Next
  <1>1. TypeOK
    BY DEF Inv
  <1>2. Held'[f] = Registered(<<>>)
    BY DEF Held
  <1>3. ASSUME NEW g \in Files, g # f PROVE Held'[g] = Held[g]
    <2>1. depot'[g] = depot[g]
      BY <1>1, <1>3 DEF Prepare, WriteFails, Die, Fault, TypeOK
    <2>2. pc'[w] = "idle" \/ File(w)' = f
      BY <1>1 DEF Prepare, WriteFails, Die, Answer, File, TypeOK
    <2>3. \A v \in Workers \ {w} :
              pc'[v] = pc[v] /\ request'[v] = request[v] /\ array'[v] = array[v]
      BY OneSteps DEF Serve
    <2> QED
      BY <1>3, <2>1, <2>2, <2>3, HeldElsewhere
  <1>4. Registered(<<>>) = Registry!NoEntries
    BY SMT DEF Registered, Contains, Registry!NoEntries
  <1>5. Held' = [Held EXCEPT ![f] = Registered(<<>>)]
    <2>1. Held = [g \in Files |-> Held[g]] /\ Held' = [g \in Files |-> Held'[g]]
      BY DEF Held
    <2> QED
      BY <1>2, <1>3, <2>1
  <1>6. Registry!Lapse(f)
    BY <1>4, <1>5 DEF Registry!Lapse
  <1>7. f \in Registry!Maps
    BY DEF Registry!Maps, Files
  <1> QED
    BY <1>6, <1>7 DEF Registry!Next

LEMMA HeldStep ==
    ASSUME KeptInv, [Next]_vars
    PROVE  [Registry!Next]_<<Held, disturbed>>
  <1>1. KeptInv' /\ Inv /\ TypeOK
    BY KeptStep DEF KeptInv, Inv
  <1>2. ASSUME NEW w \in Workers, pc[w] \in {"idle", "read"}, pc'[w] # "write",
               depot' = depot, disturbed' = disturbed,
               Serve(w) \/ \E r \in Requests : Receive(w, r)
        PROVE  UNCHANGED <<Held, disturbed>>
    <2>1. \A v \in Workers \ {w} :
              pc'[v] = pc[v] /\ request'[v] = request[v] /\ array'[v] = array[v]
      BY <1>1, <1>2, OneSteps
    <2>2. \A f \in Files : Held'[f] = Held[f]
      BY <1>2, <2>1, HeldElsewhere
    <2> QED
      BY <1>2, <2>2, HeldSame
  <1>3. ASSUME NEW w \in Workers, Refuse(w) \/ Fail(w) PROVE UNCHANGED <<Held, disturbed>>
    <2>1. pc[w] = "read" /\ pc'[w] = "idle" /\ depot' = depot /\ disturbed' = disturbed
      BY <1>1, <1>3 DEF Refuse, Fail, Answer, TypeOK
    <2> QED
      BY <1>2, <1>3, <2>1 DEF Serve
  <1>4. ASSUME NEW w \in Workers, NEW r \in Requests, Receive(w, r)
        PROVE  UNCHANGED <<Held, disturbed>>
    <2>1. pc[w] = "idle" /\ pc'[w] = "read" /\ depot' = depot /\ disturbed' = disturbed
      BY <1>1, <1>4 DEF Receive, TypeOK
    <2> QED
      BY <1>2, <1>4, <2>1
  <1>5. ASSUME NEW w \in Workers, pc[w] # "idle" PROVE File(w) \in Files
    BY <1>1, <1>5, Busy
  <1>6. ASSUME NEW w \in Workers, Prepare(w) PROVE [Registry!Next]_<<Held, disturbed>>
    <2>1. /\ pc[w] = "read" /\ pc'[w] = "open" /\ depot' = depot
          /\ disturbed' = disturbed \/ disturbed' = disturbed \cup {File(w)}
      BY <1>1, <1>6 DEF Prepare, TypeOK
    <2>2. CASE disturbed' = disturbed
      BY <1>2, <1>6, <2>1, <2>2 DEF Serve
    <2>3. CASE disturbed' = disturbed \cup {File(w)}
      BY <1>1, <1>5, <1>6, <2>1, <2>3, HeldLapse
    <2> QED
      BY <2>1, <2>2, <2>3
  <1>7. ASSUME NEW w \in Workers, WriteFails(w) \/ Die(w)
        PROVE  [Registry!Next]_<<Held, disturbed>>
    <2>1. pc[w] # "idle" /\ disturbed' = disturbed \cup {File(w)}
      BY <1>7 DEF WriteFails, Die, Fault
    <2> QED
      BY <1>1, <1>5, <1>7, <2>1, HeldLapse
  <1>8. ASSUME NEW w \in Workers, Truncate(w) PROVE [Registry!Next]_<<Held, disturbed>>
    <2>1. pc[w] = "open" /\ disturbed' = disturbed
      BY <1>8 DEF Truncate
    <2>2. PICK f \in Files : f = File(w)
      BY <1>5, <2>1
    <2>3. CASE f \notin disturbed
      BY <1>1, <1>8, <2>2, <2>3, HeldTruncate
    <2>4. CASE f \in disturbed
      <3>1. ASSUME NEW g \in Files PROVE Held'[g] = Held[g]
        <4>1. CASE g = f
          BY <2>1, <2>4, <4>1 DEF Held
        <4>2. CASE g # f
          <5>1. depot'[g] = depot[g] /\ File(w)' = f
            BY <1>1, <1>8, <2>2, <4>2 DEF Truncate, TypeOK, File
          <5>2. \A v \in Workers \ {w} :
                    pc'[v] = pc[v] /\ request'[v] = request[v] /\ array'[v] = array[v]
            BY <1>1, <1>8, OneSteps DEF Serve
          <5> QED
            BY <2>1, <2>2, <4>2, <5>1, <5>2, HeldElsewhere
        <4> QED
          BY <4>1, <4>2
      <3> QED
        BY <2>1, <3>1, HeldSame
    <2> QED
      BY <2>3, <2>4
  <1>9. ASSUME NEW w \in Workers, Write(w) PROVE UNCHANGED <<Held, disturbed>>
    BY <1>1, <1>9, HeldWrite DEF Write
  <1>10. CASE UNCHANGED vars
    <2>1. \A f \in Files : (Writing(f)' <=> Writing(f)) /\ Writer(f)' = Writer(f)
      BY <1>10 DEF vars, Writing, Writer, File
    <2>2. ASSUME NEW f \in Files PROVE Held'[f] = Held[f]
      BY <1>10, <2>1 DEF vars, Held
    <2> QED
      BY <1>10, <2>2, HeldSame DEF vars
  <1> QED
    BY <1>3, <1>4, <1>6, <1>7, <1>8, <1>9, <1>10 DEF Next, Serve

LEMMA HeldInit == Init => Registry!Init
  <1> SUFFICES ASSUME Init PROVE Registry!Init
    OBVIOUS
  <1>1. KeptInv
    BY KeptInit
  <1>2. \A f \in Files : ~Writing(f)
    BY DEF Init, Writing
  <1>3. <<>> \in Seq(Entry) /\ \A f \in Files : depot[f].robots \in Seq(Entry)
    BY <1>1, SMT DEF KeptInv, Inv, TypeOK, Contents
  <1>4. \A f \in Files : Held[f] \in [Ips -> Bodies \cup {NoBody, Absent}]
    BY <1>2, <1>3, RegisteredType DEF Held
  <1>5. Held \in [Files -> [Ips -> Bodies \cup {NoBody, Absent}]]
    BY <1>4 DEF Held
  <1>6. Registered(<<>>) = Registry!NoEntries
    BY SMT DEF Registered, Contains, Registry!NoEntries
  <1>7. \A f \in disturbed : Held[f] = Registry!NoEntries
    BY <1>6 DEF Held, Init
  <1>8. disturbed \subseteq Files
    BY DEF Init
  <1> QED
    BY <1>5, <1>7, <1>8 DEF Registry!Init, Registry!Maps, Registry!Entries, Files

\* Until a file is disturbed, the requests for it are atomic, for any number of
\* workers: to a client it is a map of RobotRegistry, although it is read,
\* truncated and written in steps (controller.LMG.php:59-148).
THEOREM UndisturbedIsAtomic == Spec => Atomic
  <1>1. KeptInv /\ [Next]_vars => [Registry!Next]_<<Held, disturbed>>
    BY HeldStep
  <1> QED
    BY <1>1, HeldInit, KeptInvHolds, PTL DEF Spec, Atomic, Registry!Spec
===============================================================================
