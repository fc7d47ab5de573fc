---------------------------- MODULE Vibrate_proofs ----------------------------
(* Proofs about Vibrate and VibrateArm, for every number of joints, turn,  *)
(* range, clock and duration of the work.                                  *)
EXTENDS VibrateArm, Pacer_proofs

\* What the strokes keep true of the range to come.
Alternates == range = IF Strokes % 2 = 1 THEN -stroke ELSE stroke

\* A joint that is out was in the turn before its last stroke.
WentOut ==
    Strokes % 2 = 1 =>
        \A x \in Servos : \E p \in 0 .. Turn : servos[x] = Wrap(p + stroke)

ArmInv == ArmTypeOK /\ Alternates /\ BackAndForth /\ InTurn /\ WentOut

-------------------------------------------------------------------------------
(* vibrate is a timed loop, whatever its work does.                        *)

LEMMA VibrateStep == [VibrateNext]_<<vars, armVars>> => [Next]_vars
  BY DEF VibrateNext, Pace, Wait, Shake, Next, vars

\* vibrate implements the timed loop, so what is proved of Pacer holds of it
\* (vibrate.cpp:103-128).
THEOREM Paced == VibrateSpec => Spec
  <1>1. VibrateInit => Init
    BY DEF VibrateInit
  <1> QED
    BY <1>1, VibrateStep, PTL DEF VibrateSpec, Spec

-------------------------------------------------------------------------------
\* A turn more or less is the same heading.
LEMMA SameHeading ==
    ASSUME NEW a \in Int, NEW b \in Int, a % Turn = 0,
           b = a \/ b = a + Turn \/ b = a - Turn
    PROVE  b % Turn = 0
  <1>1. Turn \in Nat \ {0}
    BY VibrateAssumption
  <1>2. PICK q \in Int : a = q * Turn
    BY <1>1, SMT
  <1>3. b = q * Turn \/ b = (q + 1) * Turn \/ b = (q - 1) * Turn
    BY <1>1, <1>2, SMT
  <1>4. \A r \in Int : (r * Turn) % Turn = 0
    BY <1>1, SMT
  <1> QED
    BY <1>3, <1>4, SMT

\* Where one stroke and its correction take a position.
LEMMA WrapRange ==
    ASSUME NEW p \in Int
    PROVE  /\ Wrap(p) \in Int
           /\ Wrap(p) = p \/ Wrap(p) = p + Turn \/ Wrap(p) = p - Turn
           /\ -Turn =< p /\ p =< 2 * Turn => Wrap(p) \in 0 .. Turn
  BY VibrateAssumption, SMT DEF Wrap

LEMMA StrokeOut ==
    ASSUME NEW p \in 0 .. Turn, NEW r \in Int
    PROVE  /\ Wrap(p + r) \in -Abs(r) .. Turn + Abs(r)
           /\ Abs(r) =< Turn => Wrap(p + r) \in 0 .. Turn
  BY VibrateAssumption, SMT DEF Wrap, Abs

LEMMA StrokeBack ==
    ASSUME NEW p \in 0 .. Turn, NEW r \in Int
    PROVE  Wrap(Wrap(p + r) - r) \in 0 .. Turn
  <1>1. Wrap(p + r) = p + r \/ Wrap(p + r) = p + r + Turn \/ Wrap(p + r) = p + r - Turn
    BY VibrateAssumption, SMT DEF Wrap
  <1>2. PICK q \in Int : q = Wrap(p + r) - r /\ (q = p \/ q = p + Turn \/ q = p - Turn)
    BY <1>1, VibrateAssumption, SMT
  <1>3. -Turn =< q /\ q =< 2 * Turn
    BY <1>2, VibrateAssumption, SMT
  <1> QED
    BY <1>2, <1>3, WrapRange

LEMMA Parity ==
    ASSUME NEW n \in Nat
    PROVE  \/ n % 2 = 0 /\ (n + 1) % 2 = 1
           \/ n % 2 = 1 /\ (n + 1) % 2 = 0
  BY SMT

\* Ending a turn counts the stroke that was made in it.
LEMMA StrokesStep ==
    ASSUME Inv, VibrateNext
    PROVE  /\ Strokes \in Nat
           /\ Strokes' = IF \E d \in Works : Shake(d) THEN Strokes + 1 ELSE Strokes
  <1>1. i \in Nat
    BY DEF Inv, TypeOK
  <1>2. Strokes \in Nat
    BY <1>1, SMT DEF Strokes
  <1>3. CASE \E d \in Works : Shake(d)
    <2>1. pc = "work" /\ pc' = "wait" /\ i' = i
      BY <1>3 DEF Shake, Work
    <2>2. Strokes = i /\ Strokes' = i + 1
      BY <2>1 DEF Strokes
    <2> QED
      BY <1>2, <1>3, <2>2
  <1>4. CASE ~(\E d \in Works : Shake(d))
    <2>1. \/ pc # "wait" /\ pc' # "wait" /\ i' = i
          \/ pc = "wait" /\ pc' = "wait" /\ i' = i
          \/ pc = "wait" /\ pc' # "wait" /\ i' = i + 1
      BY <1>4 DEF VibrateNext, Pace, Wait, Top, Spin, Repeat, Count, End
    <2>2. Strokes' = Strokes
      BY <2>1 DEF Strokes
    <2> QED
      BY <1>2, <1>4, <2>2
  <1> QED
    BY <1>2, <1>3, <1>4

LEMMA ArmInit == VibrateInit => ArmInv
  <1> SUFFICES ASSUME VibrateInit PROVE ArmInv
    OBVIOUS
  <1>1. Turn \in Nat \ {0} /\ Ranges \subseteq Int
    BY VibrateAssumption
  <1>2. /\ range \in Ranges /\ stroke = range /\ servos = start
        /\ start \in [Servos -> 0 .. Turn - 1]
    BY DEF VibrateInit
  <1>3. Strokes = 0
    <2>1. i = 0 /\ pc # "wait"
      BY DEF VibrateInit, Init
    <2> QED
      BY <2>1 DEF Strokes
  <1>4. ArmTypeOK
    <2>1. stroke \in Int
      BY <1>1, <1>2
    <2>2. 0 .. Turn - 1 \subseteq -Abs(stroke) .. Turn + Abs(stroke)
      BY <1>1, <2>1, SMT DEF Abs
    <2> QED
      BY <1>2, <2>2 DEF ArmTypeOK
  <1>5. Alternates
    BY <1>1, <1>2, <1>3, SMT DEF Alternates
  <1>6. BackAndForth
    <2> SUFFICES ASSUME NEW x \in Servos
                 PROVE  (servos[x] - start[x] - 0) % Turn = 0
      BY <1>3, SMT DEF BackAndForth
    <2>1. servos[x] \in Int /\ servos[x] = start[x]
      <3>1. start[x] \in 0 .. Turn - 1
        BY <1>2
      <3> QED
        BY <1>1, <1>2, <3>1, SMT
    <2>2. 0 % Turn = 0
      BY <1>1, SMT
    <2> QED
      BY <2>1, <2>2, SMT
  <1>7. InTurn
    <2> SUFFICES ASSUME NEW x \in Servos PROVE servos[x] \in 0 .. Turn
      BY DEF InTurn
    <2>1. servos[x] \in 0 .. Turn - 1
      BY <1>2
    <2> QED
      BY <1>1, <2>1, SMT
  <1>8. WentOut
    BY <1>3, SMT DEF WentOut
  <1> QED
    BY <1>4, <1>5, <1>6, <1>7, <1>8 DEF ArmInv

\* One stroke, corrected by a turn or not.
LEMMA ShakeInv ==
    ASSUME Inv, ArmInv, NEW d \in Works, Shake(d)
    PROVE  ArmInv'
  <1> DEFINE n == Strokes
             n2 == Strokes + 1
  <1>1. /\ range' = -range /\ start' = start /\ stroke' = stroke
        /\ servos' = [x \in Servos |-> Wrap(servos[x] + range)]
        /\ Strokes \in Nat /\ Strokes' = n2
    BY StrokesStep DEF VibrateNext, Shake, Back
  <1>2. /\ Turn \in Nat \ {0} /\ range \in Int /\ stroke \in Int
        /\ servos \in [Servos -> Int] /\ start \in [Servos -> 0 .. Turn - 1]
        /\ ArmTypeOK
    <2>1. /\ Turn \in Nat \ {0} /\ stroke \in Int /\ ArmTypeOK
      BY VibrateAssumption DEF ArmInv, ArmTypeOK
    <2>2. range \in Int
      BY <2>1, SMT DEF ArmTypeOK
    <2>3. -Abs(stroke) .. Turn + Abs(stroke) \subseteq Int
      BY <2>1, SMT DEF Abs
    <2> QED
      BY <2>1, <2>2, <2>3 DEF ArmTypeOK
  <1>3. \A p \in Int : /\ Wrap(p) \in Int
                       /\ Wrap(p) = p \/ Wrap(p) = p + Turn \/ Wrap(p) = p - Turn
    BY WrapRange
  <1>5. \/ n % 2 = 0 /\ n2 % 2 = 1 /\ range = stroke /\ range' = -stroke
        \/ n % 2 = 1 /\ n2 % 2 = 0 /\ range = -stroke /\ range' = stroke
    <2>1. \/ n % 2 = 0 /\ n2 % 2 = 1
          \/ n % 2 = 1 /\ n2 % 2 = 0
      BY <1>1, <1>2, Parity
    <2>2. range = IF n % 2 = 1 THEN -stroke ELSE stroke
      BY DEF ArmInv, Alternates
    <2> QED
      BY <1>1, <1>2, <2>1, <2>2, SMT
  <1>6. Alternates'
    BY <1>1, <1>5, SMT DEF Alternates
  <1>7. BackAndForth'
    <2> DEFINE away == IF n % 2 = 1 THEN stroke ELSE 0
               away2 == IF n2 % 2 = 1 THEN stroke ELSE 0
    <2> SUFFICES ASSUME NEW x \in Servos
                 PROVE  (servos'[x] - start[x] - away2) % Turn = 0
      BY <1>1 DEF BackAndForth
    <2>1. servos[x] \in Int /\ start[x] \in Int /\ away \in Int /\ away2 \in Int
      BY <1>2, SMT
    <2>2. servos[x] + range - start[x] - away2 = servos[x] - start[x] - away
      BY <1>2, <1>5, <2>1, SMT
    <2> DEFINE a == servos[x] - start[x] - away
               b == servos'[x] - start[x] - away2
    <2>3. a % Turn = 0
      BY DEF ArmInv, BackAndForth
    <2>4. a \in Int /\ b \in Int /\ (b = a \/ b = a + Turn \/ b = a - Turn)
      <3> HIDE DEF away, away2
      <3>1. /\ servos'[x] = Wrap(servos[x] + range) /\ servos[x] + range \in Int
        BY <1>1, <1>2, <2>1, SMT
      <3>2. \/ servos'[x] = servos[x] + range
            \/ servos'[x] = servos[x] + range + Turn
            \/ servos'[x] = servos[x] + range - Turn
        <4>1. PICK p \in Int : p = servos[x] + range /\ servos'[x] = Wrap(p)
          BY <3>1
        <4>2. servos'[x] = p \/ servos'[x] = p + Turn \/ servos'[x] = p - Turn
          BY <1>3, <4>1
        <4> QED
          BY <1>2, <2>1, <4>1, <4>2, SMT
      <3> QED
        BY <1>2, <2>1, <2>2, <3>2, SMT
    <2> HIDE DEF a, b
    <2>5. b % Turn = 0
      BY <2>3, <2>4, SameHeading
    <2> QED
      BY <2>5 DEF b
  <1>8. /\ \A x \in Servos : servos'[x] \in -Abs(stroke) .. Turn + Abs(stroke)
        /\ n2 % 2 = 0 \/ Abs(stroke) =< Turn => \A x \in Servos : servos'[x] \in 0 .. Turn
        /\ n2 % 2 = 1 =>
              \A x \in Servos : \E p \in 0 .. Turn : servos'[x] = Wrap(p + stroke)
    <2>1. CASE n2 % 2 = 1
      <3>1. n % 2 = 0 /\ range = stroke /\ n2 % 2 # 0
        BY <1>5, <2>1, SMT
      <3>2. \A x \in Servos : servos[x] \in 0 .. Turn
        BY <3>1 DEF ArmInv, InTurn
      <3>3. \A x \in Servos : /\ servos'[x] = Wrap(servos[x] + stroke)
                              /\ servos'[x] \in -Abs(stroke) .. Turn + Abs(stroke)
                              /\ Abs(stroke) =< Turn => servos'[x] \in 0 .. Turn
        BY <1>1, <1>2, <3>1, <3>2, StrokeOut
      <3> QED
        BY <3>1, <3>2, <3>3
    <2>2. CASE n2 % 2 = 0
      <3>1. n % 2 = 1 /\ range = -stroke /\ n2 % 2 # 1
        BY <1>5, <2>2, SMT
      <3>2. \A x \in Servos : servos'[x] \in 0 .. Turn
        <4> SUFFICES ASSUME NEW x \in Servos PROVE servos'[x] \in 0 .. Turn
          OBVIOUS
        <4>1. PICK p \in 0 .. Turn : servos[x] = Wrap(p + stroke)
          BY <3>1 DEF ArmInv, WentOut
        <4>2. servos[x] + range = Wrap(p + stroke) - stroke
          BY <1>2, <3>1, <4>1, SMT
        <4> QED
          BY <1>1, <1>2, <4>2, StrokeBack
      <3>3. 0 .. Turn \subseteq -Abs(stroke) .. Turn + Abs(stroke)
        BY <1>2, SMT DEF Abs
      <3> QED
        BY <3>1, <3>2, <3>3
    <2> QED
      BY <1>5, <2>1, <2>2
  <1>9. ArmTypeOK'
    <2>1. range' \in {stroke', -stroke'}
      BY <1>1, <1>2, SMT DEF ArmTypeOK
    <2>2. servos' \in [Servos -> -Abs(stroke') .. Turn + Abs(stroke')]
      BY <1>1, <1>8
    <2> QED
      BY <1>1, <1>2, <2>1, <2>2 DEF ArmTypeOK
  <1>10. InTurn' /\ WentOut'
    BY <1>1, <1>8 DEF InTurn, WentOut
  <1> QED
    BY <1>6, <1>7, <1>9, <1>10 DEF ArmInv

LEMMA ArmStep == Inv /\ ArmInv /\ [VibrateNext]_<<vars, armVars>> => ArmInv'
  <1> SUFFICES ASSUME Inv, ArmInv, [VibrateNext]_<<vars, armVars>> PROVE ArmInv'
    OBVIOUS
  <1>1. CASE \E d \in Works : Shake(d)
    BY <1>1, ShakeInv
  <1>2. CASE VibrateNext /\ ~(\E d \in Works : Shake(d))
    <2>1. Strokes' = Strokes
      BY <1>2, StrokesStep
    <2>2. /\ range' = range /\ servos' = servos /\ start' = start /\ stroke' = stroke
      BY <1>2 DEF VibrateNext, Pace, armVars
    <2> QED
      BY <2>1, <2>2 DEF ArmInv, ArmTypeOK, Alternates, BackAndForth, InTurn, WentOut
  <1>3. CASE UNCHANGED <<vars, armVars>>
    BY <1>3 DEF vars, armVars, ArmInv, ArmTypeOK, Alternates, BackAndForth, InTurn,
                WentOut, Strokes
  <1> QED
    BY <1>1, <1>2, <1>3

-------------------------------------------------------------------------------
(* The theorems.                                                           *)

\* Every stroke keeps the joints where the range to come finds them
\* (vibrate.cpp:103-128).
THEOREM ArmInvHolds == VibrateSpec => []ArmInv
  BY Paced, InvHolds, ArmInit, ArmStep, PTL DEF VibrateSpec

\* Every variable of vibrate keeps its type.
THEOREM ArmTypeCorrect == VibrateSpec => []ArmTypeOK
  BY ArmInvHolds, PTL DEF ArmInv

\* Whatever range is and however the wrap corrected it, an even number of
\* strokes ends at the heading vibrate started from (vibrate.cpp:110-120).
THEOREM ReturnsHome == VibrateSpec => []BackAndForth
  BY ArmInvHolds, PTL DEF ArmInv

\* The correction of a stroke back always ends in the turn, that of a stroke
\* out when range is at most a turn (vibrate.cpp:111-116).
THEOREM StaysInTurn == VibrateSpec => []InTurn
  BY ArmInvHolds, PTL DEF ArmInv

\* vibrate never makes strokes faster than one an interval
\* (vibrate.cpp:107-127).
THEOREM VibrateNotTooFast == VibrateSpec => []NeverTooFast
  BY Paced, NotTooFast, PTL

-------------------------------------------------------------------------------
(* The arm at the other end of the network.                                *)

\* The positions that are one of the two poses vibrate commands.
Poses ==
    {p \in [Servos -> Int] :
        \E away \in {0, stroke} : \A x \in Servos : (p[x] - start[x] - away) % Turn = 0}

ServosInPose == servos \in Poses

WireInv == wire \subseteq Poses /\ arm \in Poses

\* vibrate does not know its network: it shakes as it does without one, so what
\* is proved of Vibrate holds of it (vibrate.cpp:119).
THEOREM SameVibrate == WireSpec => VibrateSpec
  <1>1. WireInit => VibrateInit
    BY DEF WireInit
  <1>2. [WireNext]_wireVars => [VibrateNext]_<<vars, armVars>>
    BY DEF WireNext, Run, Refresh, Deliver, Lose, VibrateNext, wireVars
  <1> QED
    BY <1>1, <1>2, PTL DEF WireSpec, VibrateSpec

\* A stroke more, and all joints together are in one of the two poses.
LEMMA ServosPose == ArmInv => ServosInPose
  <1> SUFFICES ASSUME ArmInv PROVE servos \in Poses
    BY DEF ServosInPose
  <1>1. stroke \in Int /\ Turn \in Nat
    BY VibrateAssumption DEF ArmInv, ArmTypeOK
  <1>2. -Abs(stroke) .. Turn + Abs(stroke) \subseteq Int
    BY <1>1, SMT DEF Abs
  <1>3. servos \in [Servos -> Int]
    BY <1>2 DEF ArmInv, ArmTypeOK
  <1>4. PICK away \in {0, stroke} : \A x \in Servos : (servos[x] - start[x] - away) % Turn = 0
    <2>1. CASE Strokes % 2 = 1
      BY <2>1 DEF ArmInv, BackAndForth
    <2>2. CASE Strokes % 2 # 1
      BY <2>2 DEF ArmInv, BackAndForth
    <2> QED
      BY <2>1, <2>2
  <1> QED
    BY <1>3, <1>4 DEF Poses

LEMMA WireStart == WireInit /\ ArmInv => WireInv
  <1> SUFFICES ASSUME WireInit, ArmInv PROVE WireInv
    OBVIOUS
  <1>1. wire = {} /\ arm = servos
    BY DEF WireInit, VibrateInit
  <1> QED
    BY <1>1, ServosPose DEF WireInv, ServosInPose

LEMMA WireStep == WireInv /\ ServosInPose' /\ [WireNext]_wireVars => WireInv'
  <1> SUFFICES ASSUME WireInv, ServosInPose', [WireNext]_wireVars PROVE WireInv'
    OBVIOUS
  <1>1. start' = start /\ stroke' = stroke
    BY DEF WireNext, Run, Refresh, Shake, Pace, Deliver, Lose, wireVars, armVars
  <1>2. Poses' = Poses
    BY <1>1 DEF Poses
  <1>3. servos' \in Poses
    BY <1>2 DEF ServosInPose
  <1>4. CASE \E d \in Works : Refresh(d)
    BY <1>2, <1>3, <1>4 DEF WireInv, Refresh, BaseCommand
  <1>5. CASE Deliver
    BY <1>2, <1>5 DEF WireInv, Deliver
  <1>6. CASE Lose
    BY <1>2, <1>6 DEF WireInv, Lose
  <1>7. CASE (Pace /\ UNCHANGED <<wire, arm>>) \/ UNCHANGED wireVars
    BY <1>2, <1>7 DEF WireInv, wireVars
  <1> QED
    BY <1>4, <1>5, <1>6, <1>7 DEF WireNext, Run

\* Whatever the network loses, reorders or repeats, the arm stands in one of
\* the two poses, all its joints in the same (vibrate.cpp:106-120).
THEOREM ArmInPose == WireSpec => []ArmBackOrForth
  <1>1. WireInv => ArmBackOrForth
    BY DEF WireInv, Poses, ArmBackOrForth
  <1>2. WireSpec => []ArmInv
    BY SameVibrate, ArmInvHolds, PTL
  <1> QED
    BY <1>1, <1>2, ServosPose, WireStart, WireStep, PTL DEF WireSpec
===============================================================================
