-------------------------------- MODULE Vibrate --------------------------------
(***************************************************************************)
(* vibrate (vibrate.cpp): shakes every joint of the arm by range degrees,  *)
(* forth and back, as the work of the timed loop that Pacer models.        *)
(* Angles are exact integers, as in GotoAngles.                            *)
(***************************************************************************)
EXTENDS Pacer

CONSTANTS
    ServosCount,  \* servoscount
    Turn,         \* 360 degrees
    Ranges        \* range the operator may pass, any number of turns

ASSUME VibrateAssumption ==
    /\ ServosCount \in Nat \ {0} /\ Turn \in Nat \ {0} /\ Ranges \subseteq Int

VARIABLES
    range,
    servos,     \* servos, which base_command always repeats
    start,      \* history: what the first feedback reported
    stroke      \* history: range as passed

armVars == <<range, servos, start, stroke>>

Servos == 0 .. ServosCount - 1
Abs(n) == IF n < 0 THEN -n ELSE n

\* One correction at most: a position two turns away stays out of the turn.
\* The mutant forgets the lower side.
WrapAbove(p) == IF p > Turn THEN p - Turn ELSE p
Wrap(p) == IF p > Turn THEN p - Turn ELSE IF p < 0 THEN p + Turn ELSE p

\* range = -range.  The mutant forgets to turn back.
BackForgotten(r) == r
Back(r) == -r

-------------------------------------------------------------------------------
VibrateInit ==
    /\ Init
    /\ range \in Ranges /\ stroke = range
    /\ start \in [Servos -> 0 .. Turn - 1] /\ servos = start

\* The work of one turn of the loop, up to the clock reading after it.
Shake(d) ==
    /\ Work(d)
    /\ servos' = [x \in Servos |-> Wrap(servos[x] + range)]
    /\ range' = Back(range)
    /\ UNCHANGED <<start, stroke>>

Pace == Wait /\ UNCHANGED armVars

VibrateNext == Pace \/ \E d \in Works : Shake(d)

VibrateSpec == VibrateInit /\ [][VibrateNext]_<<vars, armVars>>

-------------------------------------------------------------------------------
\* Strokes commanded so far.
Strokes == IF pc = "wait" THEN i + 1 ELSE i

\* A position is never further out of the turn than one stroke.
ArmTypeOK ==
    /\ stroke \in Ranges /\ range \in {stroke, -stroke}
    /\ servos \in [Servos -> -Abs(stroke) .. Turn + Abs(stroke)]
    /\ start \in [Servos -> 0 .. Turn - 1]

\* After an even number of strokes every joint has the heading it started
\* from, after an odd number that heading plus range, however often the
\* position was corrected by a turn on the way and however large range is
\* (vibrate.cpp:110-120).
BackAndForth ==
    LET away == IF Strokes % 2 = 1 THEN stroke ELSE 0
    IN \A x \in Servos : (servos[x] - start[x] - away) % Turn = 0

\* One correction is enough on the way back, however large range is, and on
\* the way out too if range is at most a turn: no joint is sent out of the turn
\* then (vibrate.cpp:111-116).
InTurn ==
    Strokes % 2 = 0 \/ Abs(stroke) =< Turn => \A x \in Servos : servos[x] \in 0 .. Turn
===============================================================================
