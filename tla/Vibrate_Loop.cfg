\* Two joints; up to five turns of the loop, and the clock goes further than
\* they ever take.
CONSTANTS
    Nanos = 12
    Millis = 2
    Timers <- MCTimers
    Frequencies <- MCFrequencies
    Works <- MCWorks
    Reads <- MCReads
    Slack = 2
    Horizon = 60
    ServosCount = 2
    Turn = 3
    Ranges <- MCRanges
SPECIFICATION FairWire
INVARIANTS TypeOK NeverTooFast DriftsSlowly ArmTypeOK BackAndForth InTurn ArmBackOrForth
PROPERTY Ends
\* vibrate ends.
CHECK_DEADLOCK FALSE
