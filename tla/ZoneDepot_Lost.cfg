CONSTANTS
    ip1 = ip1
    ip2 = ip2
    body1 = body1
    body2 = body2
    w1 = w1
    w2 = w2
    NoBody = NoBody
    NoRequest = NoRequest
    Absent = Absent
    Workers = {w1, w2}
    Ips = {ip1, ip2}
    Bodies = {body1, body2}
    Deposits <- MCDeposits
    MaxRequests = 2
    MaxFaults = 0
SPECIFICATION Spec
INVARIANT AcceptedStays
\* The requests run out.
CHECK_DEADLOCK FALSE
