-------------------------- MODULE GotoAngles_proofs --------------------------
(* Proofs about GotoAngles, for every number of joints, turn, increment,   *)
(* set of angles, measured position and unwritten value.                   *)
EXTENDS GotoAngles, TLAPS

Inv == TypeOK /\ LockStep

-------------------------------------------------------------------------------
(* Arithmetic of the plan.                                                 *)

\* Truncating division keeps the remainder below the increment.
LEMMA Truncation ==
    ASSUME NEW t \in Nat
    PROVE  /\ Truncated(t) \in Nat
           /\ Step * Truncated(t) =< t
           /\ t < Step * Truncated(t) + Step
  BY GotoAssumption, SMT DEF Truncated

\* A count is an integer, positive or not.
LEMMA CountIsInt ==
    ASSUME NEW t \in Int
    PROVE  Truncated(t) \in Int
  BY GotoAssumption, SMT DEF Truncated

\* What is planned for any difference is a count and a direction.
LEMMA AnyPlan ==
    ASSUME NEW diff \in Int
    PROVE  Travel(diff) \in Int /\ Direction(diff) \in {-1, 1}
  <1>1. Travel(diff) \in Int
    BY GotoAssumption, SMT DEF Travel, Abs
  <1>2. Direction(diff) \in {-1, 1}
    BY DEF Direction
  <1> QED
    BY <1>1, <1>2

\* What is planned for a difference of at most a turn: at most half a turn, one
\* way or the other, that ends at the target.
LEMMA Plan ==
    ASSUME NEW diff \in Int, Abs(diff) =< Turn
    PROVE  /\ Travel(diff) \in Nat
           /\ 2 * Travel(diff) =< Turn
           /\ Direction(diff) \in {-1, 1}
           /\ \E k \in -1 .. 1 :
                 diff + k * Turn = IF Direction(diff) = 1 THEN Travel(diff)
                                   ELSE -Travel(diff)
  <1> DEFINE Meets(k) == diff + k * Turn = IF Direction(diff) = 1 THEN Travel(diff)
                                           ELSE -Travel(diff)
  <1>1. Turn \in Nat /\ Turn > 0
    BY GotoAssumption, SMT
  <1>2. Travel(diff) \in Nat /\ 2 * Travel(diff) =< Turn
    BY <1>1, SMT DEF Travel, Abs
  <1>3. Direction(diff) \in {-1, 1}
    BY DEF Direction
  <1>4. Meets(-1) \/ Meets(0) \/ Meets(1)
    BY <1>1, SMT DEF Travel, Abs, Direction
  <1> QED
    BY <1>2, <1>3, <1>4, SMT

\* More increments go further.
LEMMA Further ==
    ASSUME NEW m \in Nat, NEW n \in Nat, m =< n
    PROVE  Step * m \in Nat /\ Step * m =< Step * n
  BY GotoAssumption, SMT

-------------------------------------------------------------------------------
(* Inv holds at first, and every step keeps it.                            *)

LEMMA InitInv == Init => Inv
  <1> SUFFICES ASSUME Init PROVE Inv
    OBVIOUS
  <1>2. TypeOK
    BY GotoAssumption, SMT DEF Init, TypeOK
  <1>3. LockStep
    BY SMT DEF Init, LockStep
  <1> QED
    BY <1>2, <1>3 DEF Inv

\* A call plans every joint from the measured positions.
LEMMA CallInv ==
    ASSUME Inv, NEW target \in Targets, NEW feedback \in [Servos -> Reports],
           NEW junk \in [Servos -> Junk], Call(target, feedback, junk)
    PROVE  Inv'
  <1> DEFINE Apart(x) == target[x] - feedback[x]
             CountOf(x) == IF IsClose(Apart(x)) THEN junk[x] ELSE Truncated(Travel(Apart(x)))
  <1>1. /\ pc = "main" /\ pc' = "loop" /\ call' = call + 1 /\ call < Waypoints
        /\ i' = 0 /\ angles' = target /\ servos' = feedback /\ start' = feedback
        /\ servo_done' = [x \in Servos |-> IF IsClose(Apart(x)) THEN 1 ELSE servo_done[x]]
        /\ direction' = [x \in Servos |-> Direction(Apart(x))]
        /\ operations' = [x \in Servos |-> CountOf(x)]
        /\ operationmax' \in {0} \cup {operations'[x] : x \in Servos}
        /\ operationmax' >= 0 /\ \A x \in Servos : operationmax' >= operations'[x]
        /\ made' = [x \in Servos |-> 0] /\ carried' = servo_done
        /\ velocity' = velocity
    BY DEF Call
  <1>2. TypeOK
    BY DEF Inv
  <1>3. /\ target \in [Servos -> Int] /\ feedback \in [Servos -> Int]
        /\ \A x \in Servos : feedback[x] \in 0 .. Turn - 1 /\ Apart(x) \in Int
    <2>1. target \in [Servos -> Int]
      BY GotoAssumption DEF Targets
    <2>2. \A x \in Servos : feedback[x] \in 0 .. Turn - 1
      BY GotoAssumption
    <2>3. feedback \in [Servos -> Int]
      BY <2>2, GotoAssumption, SMT
    <2> QED
      BY <2>1, <2>2, <2>3, SMT
  <1>4. \A x \in Servos : /\ Direction(Apart(x)) \in {-1, 1}
                          /\ Truncated(Travel(Apart(x))) \in Int
                          /\ CountOf(x) \in Int
    <2> SUFFICES ASSUME NEW x \in Servos
                 PROVE  /\ Direction(Apart(x)) \in {-1, 1}
                        /\ Truncated(Travel(Apart(x))) \in Int
                        /\ CountOf(x) \in Int
      OBVIOUS
    <2>1. Direction(Apart(x)) \in {-1, 1} /\ Travel(Apart(x)) \in Int
      BY <1>3, AnyPlan
    <2>2. Truncated(Travel(Apart(x))) \in Int
      BY <2>1, CountIsInt
    <2>3. junk[x] \in Int
      BY GotoAssumption
    <2> QED
      BY <2>1, <2>2, <2>3
  <1>5. TypeOK'
    <2>1. /\ angles' \in [Servos -> Int] /\ servos' \in [Servos -> Int]
          /\ start' \in [Servos -> Int] /\ direction' \in [Servos -> {-1, 1}]
          /\ operations' \in [Servos -> Int] /\ made' \in [Servos -> Nat]
      BY <1>1, <1>3, <1>4
    <2>2. servo_done' \in [Servos -> {0, 1}] /\ carried' \in [Servos -> {0, 1}]
      BY <1>1, <1>2 DEF TypeOK
    <2>3. operationmax' \in Nat
      BY <1>1, <2>1, SMT
    <2>4. call' \in 0 .. Waypoints
      BY <1>1, <1>2, GotoAssumption, SMT DEF TypeOK
    <2>5. velocity' \in Velocities /\ pc' \in {"main", "loop", "fault"} /\ i' \in Nat
      BY <1>1, <1>2 DEF TypeOK
    <2> QED
      BY <2>1, <2>2, <2>3, <2>4, <2>5 DEF TypeOK
  <1>6. ASSUME NEW x \in Servos
        PROVE  Counted(x)' /\ Placed(x)'
    <2>1. /\ start'[x] = feedback[x] /\ angles'[x] = target[x] /\ made'[x] = 0
          /\ servos'[x] = feedback[x] /\ direction'[x] = Direction(Apart(x))
          /\ angles'[x] - start'[x] = Apart(x) /\ carried'[x] = servo_done[x]
          /\ servo_done'[x] = IF IsClose(Apart(x)) THEN 1 ELSE servo_done[x]
          /\ operations'[x] = CountOf(x)
      BY <1>1
    <2>2. Placed(x)'
      <3>1. Step * 0 = 0
        BY GotoAssumption, SMT
      <3>2. feedback[x] + 0 = feedback[x] /\ feedback[x] - 0 = feedback[x]
        BY <1>3, SMT
      <3> QED
        BY <1>3, <2>1, <3>1, <3>2 DEF Placed
    <2>3. made'[x] =< i'
      BY <1>1, <2>1, SMT
    <2>4. CASE servo_done[x] = 1 \/ IsClose(Apart(x))
      BY <2>1, <2>2, <2>3, <2>4 DEF Counted, Diff
    <2>5. CASE ~(servo_done[x] = 1 \/ IsClose(Apart(x)))
      <3>1. servo_done[x] = 0
        BY <1>2, <2>5 DEF TypeOK
      <3>2. /\ operations'[x] = Truncated(Travel(angles'[x] - start'[x]))
            /\ ~IsClose(angles'[x] - start'[x])
        BY <2>1, <2>5
      <3>3. operations'[x] =< operationmax'
        BY <1>1, <1>5, SMT DEF TypeOK
      <3>4. i' =< operations'[x] \/ operations'[x] < 0
        BY <1>1, <1>5, SMT DEF TypeOK
      <3> QED
        BY <1>1, <2>1, <2>2, <2>3, <2>5, <3>1, <3>2, <3>3, <3>4 DEF Counted, Diff
    <2> QED
      BY <2>2, <2>4, <2>5
  <1>7. call' > 0 /\ call' # 0
    BY <1>1, <1>2, GotoAssumption, SMT DEF TypeOK
  <1>8. i' =< operationmax'
    BY <1>1, <1>5, SMT DEF TypeOK
  <1>9. LockStep'
    BY <1>1, <1>6, <1>7, <1>8 DEF LockStep, Indexed, Servos
  <1> QED
    BY <1>5, <1>9 DEF Inv

\* A turn of the loop moves the joints that are not done, by one increment each.
LEMMA TickInv ==
    ASSUME Inv, NEW junk \in Junk, Tick(junk)
    PROVE  Inv'
  <1> DEFINE Sign(x) == IF x = 0 THEN junk ELSE direction[x]
  <1>1. /\ pc = "loop" /\ i < operationmax /\ i' = i + 1
        /\ servos' = [x \in Servos |-> IF Moving(x) THEN servos[x] + Step * Sign(x)
                                       ELSE servos[x]]
        /\ made' = [x \in Servos |-> IF Moving(x) THEN made[x] + 1 ELSE made[x]]
        /\ servo_done' = [x \in Servos |-> IF Moving(x) /\ LastIncrement(x) THEN 1
                                           ELSE servo_done[x]]
        /\ pc' = pc /\ call' = call /\ velocity' = velocity /\ angles' = angles
        /\ direction' = direction /\ operations' = operations
        /\ operationmax' = operationmax /\ start' = start /\ carried' = carried
    BY DEF Tick
  <1>2. TypeOK
    BY DEF Inv
  <1>3. TypeOK'
    <2>1. junk \in Int /\ Step \in Int
      BY GotoAssumption
    <2>2. \A x \in Servos : servos[x] + Step * Sign(x) \in Int /\ servos[x] \in Int
      <3> SUFFICES ASSUME NEW x \in Servos
                   PROVE  servos[x] + Step * Sign(x) \in Int /\ servos[x] \in Int
        OBVIOUS
      <3>1. Sign(x) \in Int /\ servos[x] \in Int
        BY <1>2, <2>1 DEF TypeOK
      <3> QED
        BY <2>1, <3>1, SMT
    <2>3. servos' \in [Servos -> Int]
      BY <1>1, <2>2
    <2>4. made' \in [Servos -> Nat] /\ servo_done' \in [Servos -> {0, 1}] /\ i' \in Nat
      BY <1>1, <1>2, SMT DEF TypeOK
    <2> QED
      BY <1>1, <1>2, <2>3, <2>4 DEF TypeOK
  <1>4. call > 0
    BY <1>1 DEF Inv, LockStep
  <1>5. ASSUME NEW x \in Servos
        PROVE  Counted(x)'
    <2>1. Counted(x) /\ Diff(x)' = Diff(x)
      BY <1>1, <1>4 DEF Inv, LockStep, Diff
    <2>2. /\ made[x] \in Nat /\ servo_done[x] \in {0, 1} /\ operations[x] \in Int
          /\ i \in Nat /\ operationmax \in Nat
      BY <1>2 DEF TypeOK
    <2>3. CASE servo_done[x] = 1
      <3>1. ~Moving(x)
        BY <2>3 DEF Moving
      <3>2. made'[x] = made[x] /\ servo_done'[x] = servo_done[x]
        BY <1>1, <3>1
      <3>3. made'[x] =< i'
        BY <1>1, <2>1, <2>2, <3>2, SMT DEF Counted
      <3> QED
        BY <1>1, <2>1, <2>3, <3>2, <3>3 DEF Counted
    <2>4. CASE servo_done[x] = 0
      <3>1. Moving(x)
        BY <2>4 DEF Moving
      <3>2. /\ made'[x] = made[x] + 1
            /\ servo_done'[x] = IF i = operations[x] THEN 1 ELSE 0
        BY <1>1, <2>4, <3>1 DEF LastIncrement
      <3>3. /\ ~(carried[x] = 1 \/ IsClose(Diff(x)))
            /\ made[x] = i /\ (i =< operations[x] \/ operations[x] < 0)
            /\ operations[x] = Truncated(Travel(Diff(x)))
            /\ operations[x] =< operationmax
        BY <2>1, <2>4 DEF Counted
      <3>4. /\ made'[x] =< i'
            /\ IF servo_done'[x] = 1 THEN operations[x] >= 0 /\ made'[x] = operations[x] + 1
               ELSE made'[x] = i' /\ (i' =< operations[x] \/ operations[x] < 0)
        <4>1. i' = i + 1
          BY <1>1
        <4>2. CASE i = operations[x]
          BY <2>2, <3>2, <3>3, <4>1, <4>2, SMT
        <4>3. CASE i # operations[x]
          <5>1. servo_done'[x] = 0 /\ made'[x] = i'
            BY <3>2, <3>3, <4>1, <4>3
          <5>2. i + 1 =< operations[x] \/ operations[x] < 0
            BY <2>2, <3>3, <4>3, SMT
          <5>3. made'[x] =< i'
            BY <2>2, <4>1, <5>1, SMT
          <5> QED
            BY <4>1, <5>1, <5>2, <5>3
        <4> QED
          BY <4>2, <4>3
      <3> QED
        BY <1>1, <2>1, <3>3, <3>4 DEF Counted
    <2> QED
      BY <2>2, <2>3, <2>4
  <1>6. ASSUME NEW x \in Indexed
        PROVE  Placed(x)'
    <2>1. x \in Servos /\ x # 0 /\ Placed(x)
      BY <1>4 DEF Inv, LockStep, Indexed
    <2>2. /\ servos[x] \in Int /\ start[x] \in Int /\ made[x] \in Nat
          /\ direction[x] \in {-1, 1} /\ Step \in Nat
      BY <1>2, <2>1, GotoAssumption DEF TypeOK
    <2>3. CASE ~Moving(x)
      BY <1>1, <2>1, <2>3 DEF Placed
    <2>4. CASE Moving(x)
      <3>1. servos'[x] = servos[x] + Step * direction[x] /\ made'[x] = made[x] + 1
        BY <1>1, <2>1, <2>4
      <3>2. CASE direction[x] = 1
        <4>1. servos[x] = start[x] + Step * made[x]
          BY <2>1, <3>2 DEF Placed
        <4>2. servos'[x] = start[x] + Step * made'[x]
          BY <2>2, <3>1, <3>2, <4>1, SMT
        <4> QED
          BY <1>1, <2>1, <3>2, <4>2 DEF Placed
      <3>3. CASE direction[x] = -1
        <4>1. servos[x] = start[x] - Step * made[x]
          BY <2>1, <3>3 DEF Placed
        <4>2. servos'[x] = start[x] - Step * made'[x]
          BY <2>2, <3>1, <3>3, <4>1, SMT
        <4> QED
          BY <1>1, <2>1, <3>3, <4>2 DEF Placed
      <3> QED
        BY <2>2, <3>2, <3>3
    <2> QED
      BY <2>3, <2>4
  <1>7. i' =< operationmax'
    BY <1>1, <1>2, SMT DEF TypeOK
  <1>8. call' > 0 /\ call' # 0
    BY <1>1, <1>2, <1>4, GotoAssumption, SMT DEF TypeOK
  <1>9. LockStep'
    BY <1>1, <1>5, <1>6, <1>7, <1>8 DEF LockStep, Indexed, Servos
  <1> QED
    BY <1>3, <1>9 DEF Inv

LEMMA StepInv == Inv /\ [Next]_vars => Inv'
  <1> SUFFICES ASSUME Inv, [Next]_vars PROVE Inv'
    OBVIOUS
  <1>1. CASE DivideByZero
    <2>1. pc' = "fault" /\ pc = "main"
      BY <1>1 DEF DivideByZero
    <2> QED
      BY <1>1, <2>1 DEF DivideByZero, Inv, TypeOK, LockStep, Counted, Placed, Diff, Indexed, Servos
  <1>2. CASE \E target \in Targets, feedback \in [Servos -> Reports],
               junk \in [Servos -> Junk] : Call(target, feedback, junk)
    BY <1>2, CallInv
  <1>3. CASE \E junk \in Junk : Tick(junk)
    BY <1>3, TickInv
  <1>4. CASE Return
    <2>1. i >= operationmax
      BY <1>4 DEF Return, LoopOver
    <2> QED
      BY <1>4, <2>1 DEF Return, Inv, TypeOK, LockStep, Counted, Placed, Diff, Indexed, Servos
  <1>5. CASE UNCHANGED vars
    BY <1>5 DEF vars, Inv, TypeOK, LockStep, Counted, Placed, Diff, Indexed, Servos
  <1> QED
    BY <1>1, <1>2, <1>3, <1>4, <1>5 DEF Next

-------------------------------------------------------------------------------
(* What follows from Inv.                                                  *)

\* A joint whose target is at most a turn away made at most one increment more
\* than its count.
LEMMA Increments ==
    ASSUME Inv, call > 0, NEW x \in Servos, InReach(x)
    PROVE  made[x] = 0 \/ made[x] =< Truncated(Travel(Diff(x))) + 1
  <1>1. /\ made[x] \in Nat /\ i \in Nat /\ carried[x] \in {0, 1}
        /\ servo_done[x] \in {0, 1} /\ operations[x] \in Int /\ Diff(x) \in Int
    BY DEF Inv, TypeOK, Diff
  <1>2. Counted(x)
    BY DEF Inv, LockStep
  <1>3. CASE carried[x] = 1 \/ IsClose(Diff(x))
    BY <1>2, <1>3 DEF Counted
  <1>4. CASE ~(carried[x] = 1 \/ IsClose(Diff(x)))
    <2>1. operations[x] \in Nat
      BY <1>1, <1>2, <1>4, Plan, Truncation DEF Counted, InReach
    <2>2. /\ operations[x] = Truncated(Travel(Diff(x)))
          /\ IF servo_done[x] = 1 THEN operations[x] >= 0 /\ made[x] = operations[x] + 1
             ELSE made[x] = i /\ (i =< operations[x] \/ operations[x] < 0)
      BY <1>2, <1>4 DEF Counted
    <2>3. made[x] =< operations[x] + 1
      BY <1>1, <2>1, <2>2, SMT
    <2> QED
      BY <2>2, <2>3
  <1> QED
    BY <1>3, <1>4

LEMMA InvShortWay == Inv => NeverTheLongWay
  <1> SUFFICES ASSUME Inv, NEW x \in Indexed, InReach(x)
               PROVE  2 * Abs(servos[x] - start[x]) =< Turn + 2 * Step
    BY DEF NeverTheLongWay
  <1>1. /\ x \in Servos /\ servos[x] \in Int /\ start[x] \in Int /\ Diff(x) \in Int
        /\ made[x] \in Nat /\ call \in Nat
        /\ Step \in Nat \ {0} /\ Turn \in Nat
    BY GotoAssumption DEF Inv, TypeOK, Indexed, Diff
  <1>2. CASE call = 0
    <2>1. servos[x] = start[x]
      BY <1>2 DEF Inv, LockStep
    <2> QED
      BY <1>1, <2>1, SMT DEF Abs
  <1>3. CASE call > 0
    <2>1. servos[x] = IF direction[x] = 1 THEN start[x] + Step * made[x]
                      ELSE start[x] - Step * made[x]
      BY <1>3 DEF Inv, LockStep, Placed
    <2>2. Abs(servos[x] - start[x]) = Step * made[x]
      <3>1. Step * made[x] \in Nat
        BY <1>1, Further
      <3>2. servos[x] - start[x] = Step * made[x] \/ servos[x] - start[x] = -(Step * made[x])
        BY <1>1, <2>1, <3>1, SMT
      <3> QED
        BY <1>1, <3>1, <3>2, SMT DEF Abs
    <2>3. CASE made[x] = 0
      BY <1>1, <2>2, <2>3, SMT
    <2>4. CASE made[x] =< Truncated(Travel(Diff(x))) + 1
      <3>1. Travel(Diff(x)) \in Nat /\ 2 * Travel(Diff(x)) =< Turn
        BY <1>1, Plan DEF InReach
      <3>2. /\ Truncated(Travel(Diff(x))) \in Nat
            /\ Step * Truncated(Travel(Diff(x))) =< Travel(Diff(x))
        BY <3>1, Truncation
      <3>3. Step * made[x] =< Step * (Truncated(Travel(Diff(x))) + 1)
        BY <1>1, <2>4, <3>2, Further
      <3>4. Step * (Truncated(Travel(Diff(x))) + 1) = Step * Truncated(Travel(Diff(x))) + Step
        BY <1>1, <3>2, SMT
      <3>5. Step * made[x] \in Nat /\ Step * Truncated(Travel(Diff(x))) \in Nat
        BY <1>1, <3>2, Further
      <3> QED
        BY <1>1, <2>2, <3>1, <3>2, <3>3, <3>4, <3>5, SMT
    <2> QED
      BY <1>1, <1>3, <2>3, <2>4, Increments
  <1> QED
    BY <1>1, <1>2, <1>3, SMT

LEMMA InvArrived == Inv => Arrived
  <1> SUFFICES ASSUME Inv, pc = "main", call > 0, NEW x \in Planned, InReach(x)
               PROVE  Within(servos[x], angles[x], Step)
    BY DEF Arrived
  <1> DEFINE travel == Travel(Diff(x))
             count == Truncated(travel)
  <1>1. x \in Servos /\ x \in Indexed /\ carried[x] = 0
    BY DEF Planned, Indexed
  <1>2. /\ servos[x] \in Int /\ start[x] \in Int /\ angles[x] \in Int
        /\ made[x] \in Nat /\ servo_done[x] \in {0, 1} /\ i \in Nat
        /\ operationmax \in Nat /\ Step \in Nat \ {0} /\ Turn \in Nat
        /\ Diff(x) \in Int /\ Diff(x) = angles[x] - start[x]
    BY <1>1, GotoAssumption DEF Inv, TypeOK, Diff
  <1>3. /\ Counted(x) /\ direction[x] = Direction(Diff(x))
        /\ servos[x] = IF direction[x] = 1 THEN start[x] + Step * made[x]
                       ELSE start[x] - Step * made[x]
    BY <1>1 DEF Inv, LockStep, Counted, Placed
  <1>4. CASE IsClose(Diff(x))
    <2>1. made[x] = 0
      BY <1>3, <1>4 DEF Counted
    <2>2. servos[x] = start[x]
      BY <1>2, <1>3, <2>1, SMT
    <2>3. Abs(servos[x] - angles[x] + 0 * Turn) =< Step
      BY <1>2, <1>4, <2>2, SMT DEF IsClose, Abs
    <2> QED
      BY <2>3, SMT DEF Within
  <1>5. CASE ~IsClose(Diff(x))
    <2>1. /\ travel \in Nat /\ Direction(Diff(x)) \in {-1, 1}
          /\ \E k \in -1 .. 1 :
                Diff(x) + k * Turn = IF Direction(Diff(x)) = 1 THEN travel ELSE -travel
      BY <1>2, Plan DEF InReach
    <2>2. count \in Nat
      BY <2>1, Truncation
    <2>3. made[x] = count \/ made[x] = count + 1
      <3>1. /\ operations[x] = count /\ count =< operationmax
            /\ IF servo_done[x] = 1 THEN made[x] = count + 1
               ELSE made[x] = i /\ (i =< count \/ count < 0)
        BY <1>1, <1>3, <1>5 DEF Counted
      <3>2. i >= operationmax
        BY DEF Inv, LockStep
      <3>3. CASE servo_done[x] = 1
        BY <3>1, <3>3
      <3>4. CASE servo_done[x] = 0
        <4>1. i = count
          <5> HIDE DEF count
          <5> QED
            BY <1>2, <2>2, <3>1, <3>2, <3>4, SMT
        <4> QED
          BY <3>1, <3>4, <4>1
      <3> QED
        BY <1>2, <3>3, <3>4
    <2>4. PICK k \in -1 .. 1 :
            Diff(x) + k * Turn = IF Direction(Diff(x)) = 1 THEN travel ELSE -travel
      BY <2>1
    <2>5. /\ Step * count =< travel /\ travel < Step * count + Step
          /\ Step * count \in Nat
      BY <2>1, <2>2, Truncation, Further, <1>2
    <2>6. Step * made[x] = Step * count \/ Step * made[x] = Step * count + Step
      <3>1. Step * (count + 1) = Step * count + Step
        BY <1>2, <2>2, SMT
      <3> QED
        BY <2>3, <3>1
    <2> DEFINE moved == Step * made[x]
    <2>7. moved \in Nat /\ moved - travel =< Step /\ travel - moved =< Step
      <3> HIDE DEF travel, count
      <3>1. Step * made[x] \in Nat
        BY <1>2, Further
      <3> QED
        BY <1>2, <2>1, <2>5, <2>6, <3>1, SMT
    <2>11. travel \in Nat
      BY <2>1
    <2>8. servos[x] - angles[x] + (-k) * Turn = moved - travel
          \/ servos[x] - angles[x] + (-k) * Turn = travel - moved
      <3> HIDE DEF travel, moved
      <3>1. servos[x] = IF direction[x] = 1 THEN start[x] + moved ELSE start[x] - moved
        BY <1>3 DEF moved
      <3> DEFINE shift == k * Turn
                 back == (-k) * Turn
      <3>4. back = -shift /\ shift \in Int
        BY <1>2, SMT
      <3>2. CASE direction[x] = 1
        <4>1. Diff(x) + shift = travel /\ servos[x] = start[x] + moved
          BY <1>3, <2>4, <3>1, <3>2
        <4>2. servos[x] - angles[x] + back = moved - travel
          <5> HIDE DEF shift, back
          <5> QED
            BY <1>2, <2>1, <2>7, <3>4, <4>1, SMT
        <4> QED
          BY <4>2
      <3>3. CASE direction[x] # 1
        <4>1. Diff(x) + shift = -travel /\ servos[x] = start[x] - moved
          BY <1>3, <2>4, <3>1, <3>3
        <4>2. servos[x] - angles[x] + back = travel - moved
          <5> HIDE DEF shift, back
          <5>1. Diff(x) + shift = 0 - travel
            BY <4>1, <2>11, SMT
          <5>2. servos[x] = start[x] - moved
            BY <4>1
          <5> QED
            BY <1>2, <2>7, <2>11, <3>4, <5>1, <5>2, SMT
        <4> QED
          BY <4>2
      <3> QED
        BY <3>2, <3>3
    <2>9. Abs(servos[x] - angles[x] + (-k) * Turn) =< Step
      <3> HIDE DEF travel, moved
      <3> QED
        BY <1>2, <2>1, <2>7, <2>8, SMT DEF Abs
    <2>10. -k \in -1 .. 1
      BY SMT
    <2> QED
      BY <2>9, <2>10 DEF Within
  <1> QED
    BY <1>4, <1>5

\* A count is met while the loop runs exactly if it is neither negative nor the
\* number of turns.
LEMMA InvLeftUndone == Inv => LeftUndone
  <1> SUFFICES ASSUME Inv, pc = "main", call > 0, NEW x \in Servos
               PROVE  servo_done[x] = 0 <=>
                         /\ carried[x] = 0 /\ ~IsClose(Diff(x))
                         /\ operations[x] = operationmax \/ operations[x] < 0
    BY DEF LeftUndone
  <1>1. /\ made[x] \in Nat /\ servo_done[x] \in {0, 1} /\ carried[x] \in {0, 1}
        /\ operations[x] \in Int /\ operationmax \in Nat /\ i \in Nat
    BY DEF Inv, TypeOK
  <1>2. Counted(x) /\ i >= operationmax /\ i =< operationmax
    BY DEF Inv, LockStep
  <1>3. CASE carried[x] = 1 \/ IsClose(Diff(x))
    BY <1>2, <1>3 DEF Counted
  <1>4. CASE ~(carried[x] = 1 \/ IsClose(Diff(x)))
    <2>1. /\ operations[x] =< operationmax /\ made[x] =< i
          /\ IF servo_done[x] = 1 THEN operations[x] >= 0 /\ made[x] = operations[x] + 1
             ELSE made[x] = i /\ (i =< operations[x] \/ operations[x] < 0)
      BY <1>2, <1>4 DEF Counted
    <2>2. servo_done[x] = 0 <=> operations[x] = operationmax \/ operations[x] < 0
      BY <1>1, <1>2, <2>1, SMT
    <2> QED
      BY <1>1, <1>4, <2>2
  <1> QED
    BY <1>3, <1>4

-------------------------------------------------------------------------------
(* The theorems.                                                           *)

\* Calls and turns of the loop keep the joints in lock step (goto.cpp:93-168).
THEOREM InvHolds == Spec => []Inv
  BY InitInv, StepInv, PTL DEF Spec

\* Every variable keeps its type, whatever the unwritten ints hold.
THEOREM TypeCorrect == Spec => []TypeOK
  BY InvHolds, PTL DEF Inv

\* goto_angles ends with every joint but the first that it planned within one
\* OPERATION_ANGLE of its target, if that is at most a turn away, as the angles
\* main has checked are (goto.cpp:115-168).
THEOREM Arrival == Spec => []Arrived
  BY InvHolds, InvArrived, PTL

\* goto_angles never drives a joint but the first further than half a turn and
\* one increment from where it found it, to a target at most a turn away
\* (goto.cpp:122-141).
THEOREM ShortWay == Spec => []NeverTheLongWay
  BY InvHolds, InvShortWay, PTL

\* As long as a joint moves, the first one too and to any target, it makes one
\* increment per turn of the loop, and none after its count and one
\* (goto.cpp:147-167).
THEOREM JointsInLockStep == Spec => []LockStep
  BY InvHolds, PTL DEF Inv

\* The joints that a waypoint leaves to later ones are those it planned whose
\* count is the greatest, or negative (goto.cpp:118-119, 142-157).
THEOREM OnlyTheLongestLeft == Spec => []LeftUndone
  BY InvHolds, InvLeftUndone, PTL
===============================================================================
