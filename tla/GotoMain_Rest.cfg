\* goto with an arm of its own; MCTyped has lists that do not fill their last waypoint.
CONSTANTS
    vibrate = vibrate
    goto = goto
    Programs = {goto}
    Streams = {}
    MaxRuns = 1
    Goto = goto
    ServosCount = 2
    Full = 360
    Point = Point
    Minus = Minus
    Nul = Nul
    Typed <- MCTyped
    Beyond <- MCBeyond
SPECIFICATION MainSpec
INVARIANT RestDiscarded
\* The runs are used up.
CHECK_DEADLOCK FALSE
