\* vibrate (or gotohome) and goto on one arm, each run up to twice.
CONSTANTS
    vibrate = vibrate
    goto = goto
    Programs = {vibrate, goto}
    Streams = {vibrate}
    MaxRuns = 2
    Goto = goto
    ServosCount = 2
    Full = 360
    Point = Point
    Minus = Minus
    Nul = Nul
    Typed <- MCTyped
    Beyond <- MCBeyond
SPECIFICATION MainSpec
INVARIANTS TypeOK CommandsFindLowLevel SessionsKept ReadAsTyped CellsInOrder
\* The runs are used up.
CHECK_DEADLOCK FALSE
