\* Every interleaving of a poll with rewrites of both files.
CONSTANTS
    ip1 = ip1
    ip2 = ip2
    body1 = body1
    NoAngles = NoAngles
    HandMade <- MCHandMade
SPECIFICATION Spec
INVARIANTS TypeOK StartedInOrder ScanIsComplete
