------------------------------ MODULE GotoAngles ------------------------------
(***************************************************************************)
(* goto_angles (goto.cpp): drives every joint of the arm to one waypoint   *)
(* by small position increments, all joints in lock step.  main calls it   *)
(* once per waypoint with the same servos_manager, so servo_done lives     *)
(* across calls.                                                           *)
(*                                                                         *)
(* Angles are exact integers in a unit finer than OPERATION_ANGLE, so the  *)
(* truncation of diff/OPERATION_ANGLE is kept and float rounding is not.   *)
(* In the source operations[2x] is a count and operations[2x-1] its        *)
(* direction; they are the functions operations and direction here.  For   *)
(* joint 0 the direction is operations[-1], outside the array and below    *)
(* the stack pointer: what is read back is whatever the calls in between   *)
(* left there, any value of Junk.                                          *)
(***************************************************************************)
EXTENDS Integers

CONSTANTS
    Count,      \* servos->count
    Turn,       \* 360 degrees
    Step,       \* OPERATION_ANGLE
    Angles,     \* the angles that may stand in the argument
    Reports,    \* the positions the arm may report, within one turn
    Velocities, \* the velocities main may pass
    Junk,       \* values an int that was never written may hold
    Waypoints   \* bound: calls main makes

ASSUME GotoAssumption ==
    /\ Count \in Nat \ {0}
    /\ Step \in Nat \ {0}
    /\ Turn \in Nat /\ Turn > 2 * Step
    /\ Angles \subseteq Int
    /\ Reports \subseteq 0 .. Turn - 1
    /\ Velocities \subseteq Int
    /\ Junk \subseteq Int
    /\ Waypoints \in Nat \ {0}

VARIABLES
    pc,           \* "main": between calls, "loop": in goto_angles, "fault": SIGFPE
    call,         \* waypoints handed to goto_angles so far
    velocity,     \* argument of the program
    angles,       \* target of the call
    servos,       \* servos->servos, which base_command always repeats
    servo_done,   \* servos->servo_done
    direction,    \* operations[2x - 1]
    operations,   \* operations[2x]
    operationmax,
    i,
    start,        \* history: position of each joint when the call began
    made,         \* history: increments each joint made in this call
    carried       \* history: servo_done when the call began

vars == <<pc, call, velocity, angles, servos, servo_done, direction,
          operations, operationmax, i, start, made, carried>>

Servos == 0 .. Count - 1
Abs(n) == IF n < 0 THEN -n ELSE n

\* The angles that pass main's check, and the waypoints it can make of them:
\* the last angle of the argument is read after the loop that checks.
Checked == Angles \cap 0 .. Turn
Targets ==
    {t \in [Servos -> Angles] :
        \A x \in Servos : t[x] \in Checked \/ (call + 1 = Waypoints /\ x = Count - 1)}

\* The four possibilities of the source: the short way round, and its sign.
TravelUnwrapped(diff) == Abs(diff)  \* mutant: always the direct way
Travel(diff)    == IF 2 * Abs(diff) < Turn THEN Abs(diff) ELSE Turn - Abs(diff)
DirectionSign(diff) == IF diff > 0 THEN 1 ELSE IF diff < 0 THEN -1 ELSE 0  \* mutant
Direction(diff) == IF (diff > 0) <=> (2 * Abs(diff) < Turn) THEN 1 ELSE -1
IsClose(diff)   == Abs(diff) < Step

\* operations[x*2] = ... / OPERATION_ANGLE, an int: the part after the point is
\* dropped on either side of zero.
Truncated(n) == IF n >= 0 THEN n \div Step ELSE -((-n) \div Step)

\* int frequency = velocity/OPERATION_ANGLE, which then divides.
FrequencyIsZero == Abs(velocity) < Step

-------------------------------------------------------------------------------
Init ==
    /\ pc = "main" /\ call = 0
    /\ velocity \in Velocities
    /\ servos = [x \in Servos |-> 0] /\ angles = servos /\ start = servos
    /\ servo_done = [x \in Servos |-> 0] /\ carried = servo_done
    /\ direction = [x \in Servos |-> 1]
    /\ operations = [x \in Servos |-> 0] /\ made = operations
    /\ operationmax = 0 /\ i = 0

\* 1000000000 / frequency with frequency = 0.
DivideByZero ==
    /\ pc = "main" /\ call < Waypoints
    /\ FrequencyIsZero
    /\ pc' = "fault"
    /\ UNCHANGED <<call, velocity, angles, servos, servo_done, direction,
                   operations, operationmax, i, start, made, carried>>

\* A call up to its loop: the measured positions, wherever the arm has got to,
\* then the plan of every joint.  A joint that is close keeps the unwritten
\* operations[2x], which still feeds operationmax; no joint has its servo_done
\* reset.
Call(target, feedback, junk) ==
    /\ pc = "main" /\ call < Waypoints
    /\ ~FrequencyIsZero
    /\ LET diff(x) == target[x] - feedback[x]
       IN /\ servos' = feedback /\ start' = feedback
          /\ servo_done' =
                [x \in Servos |-> IF IsClose(diff(x)) THEN 1 ELSE servo_done[x]]
          /\ direction' = [x \in Servos |-> Direction(diff(x))]
          /\ operations' =
                [x \in Servos |->
                    IF IsClose(diff(x)) THEN junk[x] ELSE Truncated(Travel(diff(x)))]
    /\ operationmax' \in {0} \cup {operations'[x] : x \in Servos}
    /\ operationmax' >= 0 /\ \A x \in Servos : operationmax' >= operations'[x]
    /\ angles' = target /\ i' = 0 /\ pc' = "loop" /\ call' = call + 1
    /\ made' = [x \in Servos |-> 0] /\ carried' = servo_done
    /\ UNCHANGED velocity

\* if (!servos->servo_done[x]).  The mutant forgets the test.
MovingAlways(x) == TRUE
Moving(x) == servo_done[x] = 0

\* while (i<operationmax) ends.  The mutant waits for every joint to be done.
LoopOverAllDone == \A x \in Servos : servo_done[x] = 1
LoopOver == i >= operationmax

\* if(i==operations[x*2]).  The mutant counts from one.
LastIncrementEarly(x) == i + 1 = operations[x]
LastIncrement(x) == i = operations[x]

\* One turn of the loop: every joint not done makes one increment, then is
\* done if this was the turn its count names; the command is sent.
Tick(junk) ==
    /\ pc = "loop" /\ i < operationmax
    /\ LET sign(x) == IF x = 0 THEN junk ELSE direction[x]
       IN servos' = [x \in Servos |-> IF Moving(x) THEN servos[x] + Step * sign(x)
                                      ELSE servos[x]]
    /\ made' = [x \in Servos |-> IF Moving(x) THEN made[x] + 1 ELSE made[x]]
    /\ servo_done' = [x \in Servos |-> IF Moving(x) /\ LastIncrement(x) THEN 1
                                       ELSE servo_done[x]]
    /\ i' = i + 1
    /\ UNCHANGED <<pc, call, velocity, angles, direction, operations,
                   operationmax, start, carried>>

Return ==
    /\ pc = "loop" /\ LoopOver
    /\ pc' = "main"
    /\ UNCHANGED <<call, velocity, angles, servos, servo_done, direction,
                   operations, operationmax, i, start, made, carried>>

Next ==
    \/ DivideByZero
    \/ \E target \in Targets, feedback \in [Servos -> Reports], junk \in [Servos -> Junk] :
          Call(target, feedback, junk)
    \/ \E junk \in Junk : Tick(junk)
    \/ Return

Spec == Init /\ [][Next]_vars

\* The program is one thread that nothing blocks.
FairSpec == Spec /\ WF_vars(Next)

-------------------------------------------------------------------------------
TypeOK ==
    /\ pc \in {"main", "loop", "fault"}
    /\ call \in 0 .. Waypoints
    /\ velocity \in Velocities
    /\ angles \in [Servos -> Int]
    /\ servos \in [Servos -> Int] /\ start \in [Servos -> Int]
    /\ servo_done \in [Servos -> {0, 1}] /\ carried \in [Servos -> {0, 1}]
    /\ direction \in [Servos -> {-1, 1}]
    /\ operations \in [Servos -> Int] /\ made \in [Servos -> Nat]
    /\ operationmax \in Nat /\ i \in Nat

\* The joints whose direction is inside the operations array, and those of
\* them that this call really plans (not done since an earlier call).
Indexed == Servos \ {0}
Planned == {x \in Indexed : carried[x] = 0}

Diff(x) == angles[x] - start[x]

\* The four possibilities are meant for differences of at most a turn.  Every
\* checked angle is that near, the last one of the argument may not be.
InReach(x) == Abs(Diff(x)) =< Turn

\* p and q are the same heading up to d.
Within(p, q, d) == \E k \in -1 .. 1 : Abs(p - q + k * Turn) =< d

\* What each turn of the loop keeps true of the increments of joint x, the first
\* joint and unchecked targets included: a joint still moving has made exactly
\* one per turn of the loop and has not passed its count, unless that is
\* negative; a joint that stopped made its count and one more (goto.cpp:148-157).
Counted(x) ==
    /\ direction[x] = Direction(Diff(x))
    /\ made[x] =< i
    /\ IF carried[x] = 1 \/ IsClose(Diff(x))
       THEN made[x] = 0 /\ servo_done[x] = 1
       ELSE /\ operations[x] = Truncated(Travel(Diff(x)))
            /\ operations[x] =< operationmax
            /\ IF servo_done[x] = 1 THEN operations[x] >= 0 /\ made[x] = operations[x] + 1
               ELSE made[x] = i /\ (i =< operations[x] \/ operations[x] < 0)

\* Where joint x stands is where the call found it plus its increments.  Not so
\* for the first joint, whose direction is anything.
Placed(x) ==
    /\ start[x] \in 0 .. Turn - 1
    /\ servos[x] = IF direction[x] = 1 THEN start[x] + Step * made[x]
                   ELSE start[x] - Step * made[x]

LockStep ==
    /\ pc = "loop" => call > 0
    /\ pc = "main" /\ call > 0 => i >= operationmax
    /\ i =< operationmax
    /\ call = 0 => servos = start /\ pc \in {"main", "fault"}
    /\ call > 0 => \A x \in Servos : Counted(x)
    /\ call > 0 => \A x \in Indexed : Placed(x)

\* When a call is over, every joint but the first that it planned and whose
\* target is at most a turn away, as every checked angle is, stands within one
\* OPERATION_ANGLE of the target, whichever way round it went, whatever the
\* unwritten counts and the direction of the first joint were, and although some
\* joints make one increment more than their count (goto.cpp:115-168).
Arrived ==
    pc = "main" /\ call > 0 =>
        \A x \in Planned : InReach(x) => Within(servos[x], angles[x], Step)

\* No joint but the first is driven the long way to a target at most a turn
\* away: it stays within half a turn, plus the one increment it may overshoot,
\* of where the call found it (goto.cpp:122-141).
NeverTheLongWay ==
    \A x \in Indexed :
        InReach(x) => 2 * Abs(servos[x] - start[x]) =< Turn + 2 * Step

\* What one waypoint leaves to the next (goto.cpp:118-119, 142-157): when a call
\* is over, the joints that are still not done, the only ones that any later
\* call can move, are those it planned whose count is the greatest of all, which
\* the loop never meets, or negative.  An unwritten count can be the greatest,
\* and then no joint is left.
LeftUndone ==
    pc = "main" /\ call > 0 =>
        \A x \in Servos :
            servo_done[x] = 0 <=>
                /\ carried[x] = 0 /\ ~IsClose(Diff(x))
                /\ operations[x] = operationmax \/ operations[x] < 0

\* A velocity of at least one OPERATION_ANGLE per second, of either sign, works
\* through every waypoint; a slower one divides by zero before the first
\* (goto.cpp:98-99, 148-168, 241-244).
Completes ==
    <>(IF Abs(velocity) >= Step THEN pc = "main" /\ call = Waypoints
       ELSE pc = "fault" /\ call = 0)

\* goto.cpp:119, on setting servo_done: "will not operate on difference smaller
\* than operation angle" -- so a joint that starts a call done is that close.
DoneOnlyWhenClose ==
    pc = "loop" /\ i = 0 =>
        \A x \in Servos : servo_done[x] = 1 => IsClose(angles[x] - servos[x])
===============================================================================
