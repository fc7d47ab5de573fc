CONSTANTS
    Count = 2
    Turn <- MCTurn
    Step <- MCStep
    Angles <- MCAngles
    Reports <- MCReports
    Velocities <- MCVelocities
    Junk <- MCJunk
    Waypoints = 2
SPECIFICATION Spec
INVARIANT DoneOnlyWhenClose
\* main ends after its last waypoint.
CHECK_DEADLOCK FALSE
