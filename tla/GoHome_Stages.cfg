\* Two joints, 20 degrees an iteration; every unwritten variable happens to
\* be zero.
CONSTANTS
    Count = 2
    Turn = 720
    Thresh = 1
    Far = 1000
    Reports <- MCReports
    Velocities = {40}
    Frequencies = {0, 200}
    Junk = {0}
    Starts = {0}
SPECIFICATION FairSpec
PROPERTY HomeIsReached
\* A fault ends the program.
CHECK_DEADLOCK FALSE
