\* One PHP worker and the daemon.
CONSTANTS
    ip1 = ip1
    ip2 = ip2
    ip3 = ip3
    body1 = body1
    w1 = w1
    w2 = w2
    NoBody = NoBody
    NoRequest = NoRequest
    NoAngles = NoAngles
    Absent = Absent
    Workers = {w1}
    Ips = {ip1, ip2, ip3}
    Bodies = {body1}
    Deposits <- MCNone
    MaxRequests = 1
    MaxFaults = 0
SPECIFICATION FairSystem
PROPERTY Started
\* The daemon may abort, and the requests run out.
CHECK_DEADLOCK FALSE
