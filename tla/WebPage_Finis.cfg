\* Three cards: two before the first Finis and one after it, or each after the
\* Finis of the one before; one fetch may fail, and one write
\* or worker.
CONSTANTS
    ip1 = ip1
    ip2 = ip2
    zeros = zeros
    body1 = body1
    w1 = w1
    w2 = w2
    blank = blank
    NoBody = NoBody
    NoRequest = NoRequest
    Absent = Absent
    Workers = {w1, w2}
    Ips = {ip1, ip2}
    Bodies = {zeros, body1}
    Deposits <- MCDeposits
    MaxRequests = 3
    MaxFaults = 1
    NotAddresses = {blank}
    BlankIp = blank
    BlankAngles = zeros
    MaxCards = 3
    MaxLost = 1
SPECIFICATION FairPage
INVARIANTS PageTypeOK OnePostPerCard ListedAsShown
PROPERTY FinishedIsListed
\* The cards run out.
CHECK_DEADLOCK FALSE
