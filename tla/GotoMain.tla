------------------------------- MODULE GotoMain -------------------------------
(***************************************************************************)
(* main of goto.cpp on a shared arm.  Once the arm is prepared it copies   *)
(* one angle of its argument after the other into temp, has sscanf read it *)
(* from there into the next cell of angles, and compares all but the last  *)
(* with 0 and 360.  Then it writes into the arrays of servos, which nobody *)
(* allocated: that is as far as it gets.                                   *)
(***************************************************************************)
EXTENDS ArmSession, Integers, Sequences, SequencesExt

CONSTANTS
    Goto,         \* the program that is goto
    ServosCount,  \* servos.count
    Full,         \* 360
    Point, Minus, Nul,  \* the characters besides the digits 0 to 9
    Typed,        \* arguments: lists of angles, each of at most 6 characters
    Beyond        \* what may follow temp in memory, as far as sscanf would read it

Characters == 0 .. 9 \cup {Point, Minus}

\* What sscanf takes for the beginning of a number; of another text it would
\* leave the cell unwritten.
Numeric(text) ==
    \/ text[1] \in 0 .. 9
    \/ text[1] \in {Point, Minus} /\ Len(text) > 1 /\ text[2] \in 0 .. 9

ASSUME GotoMainAssumption ==
    /\ Goto \in Programs \ Streams
    /\ ServosCount \in Nat \ {0} /\ Full \in Nat
    /\ Nul \notin Characters
    /\ Typed \subseteq Seq(Seq(Characters)) /\ Beyond \subseteq Seq(Characters)
    /\ \A list \in Typed :
          Len(list) > 0 /\ \A k \in 1 .. Len(list) : Len(list[k]) \in 1 .. 6 /\ Numeric(list[k])

VARIABLES
    splitting,  \* goto is in the loop over its argument
    typed,      \* that argument, the last one
    read,       \* the characters sscanf has found for each of its angles
    temp,       \* the buffer, when the next angle is copied into it
    cell        \* <<z, y>>, where that angle goes

mainVars == <<splitting, typed, read, temp, cell>>

Blank == [n \in 1 .. 6 |-> Nul]

\* memset(&temp, 0, 5).  The mutant clears one byte less.
ClearedShort(buffer) == [n \in 1 .. 6 |-> IF n =< 4 THEN Nul ELSE buffer[n]]
Cleared(buffer) == [n \in 1 .. 6 |-> IF n =< 5 THEN Nul ELSE buffer[n]]

Filled(buffer, text) == [n \in 1 .. 6 |-> IF n =< Len(text) THEN text[n] ELSE buffer[n]]

\* What sscanf finds there: it stops at a Nul, in temp or after it.
Found(buffer, beyond) ==
    IF \E n \in 1 .. 6 : buffer[n] = Nul
    THEN SubSeq(buffer, 1, (CHOOSE n \in 1 .. 6 :
                              buffer[n] = Nul /\ \A j \in 1 .. n - 1 : buffer[j] # Nul) - 1)
    ELSE buffer \o beyond

\* angles[z][y] > 360 || angles[z][y] < 0, as number > 360 * scale or, after a
\* minus, number > 0.  sscanf stops before a second point or a minus further on.
Outside(text) ==
    LET negative == text[1] = Minus
        Digit(acc, c) ==
            IF acc.over \/ c = Minus \/ (c = Point /\ acc.decimals) THEN [acc EXCEPT !.over = TRUE]
            ELSE IF c = Point THEN [acc EXCEPT !.decimals = TRUE]
            ELSE [acc EXCEPT !.number = 10 * @ + c,
                             !.scale = IF acc.decimals THEN 10 * @ ELSE @]
        value == FoldLeft(Digit, [number |-> 0, scale |-> 1, decimals |-> FALSE, over |-> FALSE],
                          IF negative THEN Tail(text) ELSE text)
    IN IF negative THEN value.number > 0 ELSE value.number > Full * value.scale

\* Where the angle after that of cell <<z, y>> goes.  The mutant turns over one
\* joint too late.
NextCellLate(c) == IF c[2] = ServosCount THEN <<c[1] + 1, 0>> ELSE <<c[1], c[2] + 1>>
NextCell(c) == IF c[2] = ServosCount - 1 THEN <<c[1] + 1, 0>> ELSE <<c[1], c[2] + 1>>

Pairs(list) == Len(list) \div ServosCount

-------------------------------------------------------------------------------
MainInit ==
    Init /\ splitting = FALSE /\ typed = <<>> /\ read = <<>> /\ temp = Blank /\ cell = <<0, 0>>

\* The program has left its loop: its locals are as before it.
Leave == splitting' = FALSE /\ temp' = Blank /\ cell' = <<0, 0>>

\* Less than one waypoint.
TooFew ==
    /\ at[Goto] = "work" /\ ~splitting
    /\ \E list \in Typed : Pairs(list) = 0
    /\ Destroy_API(Goto) /\ UNCHANGED mainVars

Split ==
    /\ at[Goto] = "work" /\ ~splitting
    /\ \E list \in Typed : Pairs(list) > 0 /\ typed' = list
    /\ splitting' = TRUE /\ read' = <<>>
    /\ UNCHANGED <<temp, cell, sessionVars>>

\* The next angle is copied, read, and checked unless it is the last.  exit(1)
\* and the null pointers after the last both leave without destroy_API.
ReadAngle ==
    /\ splitting
    /\ LET buffer == Filled(temp, typed[Len(read) + 1])
           last == Len(read) + 1 = Len(typed)
       IN \E beyond \in Beyond :
            LET found == Found(buffer, beyond)
            IN /\ read' = Append(read, found)
               /\ \/ /\ ~last /\ ~Outside(found)
                     /\ temp' = Cleared(buffer) /\ cell' = NextCell(cell)
                     /\ UNCHANGED <<splitting, sessionVars>>
                  \/ /\ last \/ Outside(found)
                     /\ Die(Goto) /\ Leave
    /\ UNCHANGED typed

\* goto may be stopped in its loop, too.
Others ==
    /\ Arm \/ Operate
    /\ IF at'[Goto] = "work" THEN UNCHANGED mainVars
       ELSE Leave /\ typed' = <<>> /\ read' = <<>>

MainNext == TooFew \/ Split \/ ReadAngle \/ Others

MainSpec == MainInit /\ [][MainNext]_<<sessionVars, mainVars>>

-------------------------------------------------------------------------------
\* What sscanf reads for an angle begins with the angle as it was typed, whatever
\* was read before it, and ends there if the angle has at most four characters,
\* or five and none had six before it.  The sixth byte of temp is never cleared,
\* so after an angle of six characters an angle of five is followed by that last
\* character, and six, or such five, by what lies behind temp (goto.cpp:206-225).
ReadAsTyped ==
    \A k \in 1 .. Len(read) :
        /\ Len(typed[k]) =< Len(read[k])
        /\ \A n \in 1 .. Len(typed[k]) : read[k][n] = typed[k][n]
        /\ Len(typed[k]) =< 4 \/ (\A j \in 1 .. k : Len(typed[j]) =< 5) => read[k] = typed[k]

\* The angles go into the waypoints one after the other, joint by joint; those
\* beyond the last whole waypoint, which the array has no room for, go on in the
\* same order behind its end (goto.cpp:204-234).
CellsInOrder == splitting => cell = <<Len(read) \div ServosCount, Len(read) % ServosCount>>

\* goto.cpp:206: "discard tout ce qui est pas en pair de servos.count", that is,
\* no angle beyond the last whole waypoint is written anywhere.
RestDiscarded == splitting => cell[1] < Pairs(typed)
===============================================================================
