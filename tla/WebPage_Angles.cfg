\* Two cards, no failure.
CONSTANTS
    ip1 = ip1
    ip2 = ip2
    zeros = zeros
    body1 = body1
    w1 = w1
    w2 = w2
    blank = blank
    NoBody = NoBody
    NoRequest = NoRequest
    Absent = Absent
    Workers = {w1}
    Ips = {ip1, ip2}
    Bodies = {zeros, body1}
    Deposits <- MCDeposits
    MaxRequests = 3
    MaxFaults = 0
    NotAddresses = {blank}
    BlankIp = blank
    BlankAngles = zeros
    MaxCards = 2
    MaxLost = 0
SPECIFICATION Page
INVARIANT AnglesOfTheCard
\* The cards run out.
CHECK_DEADLOCK FALSE
