-------------------------------- MODULE GoHome --------------------------------
(***************************************************************************)
(* homeandback and iteratetotarget of gotohome.cpp: in stage 0 the joints  *)
(* go home, in stage 1 back to where they were.  Angles are exact          *)
(* integers.  Variables the code reads before it writes them hold any      *)
(* value: Junk for floats, Starts for the loop variables x.                *)
(***************************************************************************)
EXTENDS Integers

CONSTANTS
    Count,        \* servoscount, at least 1
    Turn,         \* 360 degrees, an even number of units
    Thresh,       \* 0.5 degrees
    Far,          \* where a position is so large that adding to it is lost
    Reports,      \* positions the arm may report, in 0 .. Turn - 1
    Velocities,   \* velocity the operator may pass, in units per iteration
    Frequencies,  \* frequency the operator may pass, in Hertz
    Junk,         \* floats that nobody wrote
    Starts        \* ints that nobody wrote

VARIABLES
    pc,        \* "iterate", "wait", "end", or "fault" (SIGFPE, memory fault)
    stage,
    velocity,
    servos,
    home,      \* homethreshbot, homethreshtop, homemidpoints, as one record
    origin,    \* servosoriginthreshbot, -top and -midpoint
    command    \* base_command

vars == <<pc, stage, velocity, servos, home, origin, command>>

Servos == 0 .. Count - 1

\* for (int x; x<servoscount; x++) array[x] = value, from an x that is not set.
Filled(array, from, value) == [x \in Servos |-> IF x >= from THEN value ELSE array[x]]

Above(p) == IF p > Turn THEN p - Turn ELSE p
Below(p) == IF p < 0 THEN p + Turn ELSE p

\* Lines 128-146.
Around(p) ==
    LET bot == [x \in Servos |-> Below(p[x] - Thresh)]
    IN [bot |-> bot,
        top |-> [x \in Servos |-> Above(p[x] + Thresh)],
        mid |-> [x \in Servos |-> Above(bot[x] + Turn \div 2)]]

There(x, target) == servos[x] > target.bot[x] \/ servos[x] < target.top[x]

\* A float that far out stays where it is.
Moved(p) == IF p > Far THEN Far ELSE IF p < -Far THEN -Far ELSE p

\* The joints of iteratetotarget, from an x that is not set.
Iterated(target, from) ==
    [x \in Servos |->
        IF x < from \/ There(x, target) THEN servos[x]
        ELSE IF servos[x] < target.mid[x] THEN Moved(servos[x] - velocity)
        ELSE Moved(servos[x] + velocity)]

\* What iteratetotarget returns: continue comes before i++, so no joint counts.
Reached == 0 = Count - 1

-------------------------------------------------------------------------------
\* The third loop writes homethreshbot where homemidpoints is meant.
Init ==
    /\ servos \in [Servos -> Reports] /\ command = servos
    /\ velocity \in Velocities
    /\ \E bot, top, mid \in [Servos -> Junk], first, second, third \in Starts,
          frequency \in Frequencies :
          /\ home = [bot |-> Filled(Filled(bot, first, Turn - Thresh), third, Turn \div 2),
                     top |-> Filled(top, second, Thresh),
                     mid |-> mid]
          /\ \/ pc = "iterate" /\ frequency # 0
             \/ pc = "fault" /\ (frequency = 0 \/ \E from \in {first, second, third} : from < 0)
    /\ origin = Around(servos)
    /\ stage = 0

\* An x below zero reads and writes outside the arrays, which may end the
\* program.
OutOfBounds(from) == from < 0 /\ pc' = "fault" /\ UNCHANGED <<stage, servos>>

GoThere(from) ==
    /\ pc = "iterate" /\ stage = 0
    /\ \/ OutOfBounds(from)
       \/ /\ servos' = Iterated(home, from)
          /\ stage' = IF Reached THEN 1 ELSE 0
          /\ pc' = "wait"
    /\ UNCHANGED <<velocity, home, origin, command>>

ComeBack(from) ==
    /\ pc = "iterate" /\ stage = 1
    /\ \/ OutOfBounds(from)
       \/ /\ servos' = Iterated(origin, from)
          /\ pc' = IF Reached THEN "end" ELSE "wait"
          /\ stage' = stage
    /\ UNCHANGED <<velocity, home, origin, command>>

\* The rest of the interval has passed.
Wait ==
    /\ pc = "wait"
    /\ pc' = "iterate"
    /\ UNCHANGED <<stage, velocity, servos, home, origin, command>>

Next == Wait \/ \E from \in Starts : GoThere(from) \/ ComeBack(from)

Spec == Init /\ [][Next]_vars

\* One thread in a loop that nothing blocks, on a clock that advances.
FairSpec == Spec /\ WF_vars(Next)

-------------------------------------------------------------------------------
\* gotohome.cpp:156, of the stages: "on se rend a un point"; the loop gets to
\* the first of its points, home, and goes on to the second stage.
HomeIsReached == <>(stage = 1 \/ pc = "fault")
===============================================================================
