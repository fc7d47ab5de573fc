\* One joint inside the operations array and joint 0 outside it, two waypoints.
CONSTANTS
    Count = 2
    Turn <- MCTurn
    Step <- MCStep
    Angles <- MCAngles
    Reports <- MCReports
    Velocities <- MCVelocities
    Junk <- MCJunk
    Waypoints = 2
SPECIFICATION FairSpec
INVARIANTS TypeOK LockStep Arrived NeverTheLongWay LeftUndone
PROPERTY Completes
\* main ends after its last waypoint.
CHECK_DEADLOCK FALSE
