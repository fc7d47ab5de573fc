------------------------------ MODULE VibrateArm ------------------------------
(***************************************************************************)
(* vibrate and the arm it shakes.  Every stroke is one datagram, sent by   *)
(* Refresh_async without an identifier: on its way it may be lost,         *)
(* overtaken or delivered twice, and the arm takes what arrives, also      *)
(* after vibrate has ended.                                                *)
(***************************************************************************)
EXTENDS Vibrate

VARIABLES
    wire,  \* external: the commands under way
    arm    \* external: the positions the arm was last told

wireVars == <<vars, armVars, wire, arm>>

\* base_command holds a position for every joint.  The mutant sends it as the
\* feedback filled it, but for the first joint.
FirstJoint(position) == [x \in Servos |-> IF x = 0 THEN position[x] ELSE start[x]]
BaseCommand(position) == position

-------------------------------------------------------------------------------
WireInit == VibrateInit /\ wire = {} /\ arm = start

Refresh(d) ==
    /\ Shake(d)
    /\ wire' = wire \cup {BaseCommand(servos')}
    /\ UNCHANGED arm

Deliver ==
    /\ \E command \in wire :
          arm' = command /\ wire' \in {wire, wire \ {command}}
    /\ UNCHANGED <<vars, armVars>>

Lose ==
    /\ \E command \in wire : wire' = wire \ {command}
    /\ UNCHANGED <<vars, armVars, arm>>

Run == (\E d \in Works : Refresh(d)) \/ (Pace /\ UNCHANGED <<wire, arm>>)

WireNext == Run \/ Deliver \/ Lose

WireSpec == WireInit /\ [][WireNext]_wireVars

\* One thread, nothing blocks, and the monotonic clock advances; nothing is
\* asked of the network.
FairWire == WireSpec /\ WF_wireVars(Run)

-------------------------------------------------------------------------------
\* Whatever is lost, late or doubled, the whole arm stands where it started or
\* one stroke away from there, never with one joint there and another here, and
\* turned by any number of turns (vibrate.cpp:106-120).
ArmBackOrForth ==
    \E away \in {0, stroke} : \A x \in Servos : (arm[x] - start[x] - away) % Turn = 0
===============================================================================
