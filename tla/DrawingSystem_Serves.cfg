\* Two PHP workers and the daemon; a write may fail, or a worker die.
CONSTANTS
    ip1 = ip1
    ip2 = ip2
    ip3 = ip3
    body1 = body1
    w1 = w1
    w2 = w2
    NoBody = NoBody
    NoRequest = NoRequest
    NoAngles = NoAngles
    Absent = Absent
    Workers = {w1, w2}
    Ips = {ip1, ip2, ip3}
    Bodies = {body1}
    Deposits <- MCTwo
    MaxRequests = 3
    MaxFaults = 1
SPECIFICATION System
INVARIANTS TypeOK NoDuplicateIp EntriesWerePosted UndisturbedKeeps TornWasDisturbed
           StartedWasPosted StartedStaysListed
PROPERTY Atomic
\* The daemon may abort, and the requests run out.
CHECK_DEADLOCK FALSE
