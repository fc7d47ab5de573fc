----------------------------- MODULE Pacer_proofs -----------------------------
(* Proofs about Pacer, for every timer, frequency, choice of work per turn *)
(* and of the time between two readings of the clock.                      *)
EXTENDS Pacer, TLAPS

\* When the turn under way began, or else when the next one could.
Begun == IF pc \in {"work", "wait"} THEN t_first ELSE now

\* What each place of the loop knows: the readings of the clock, that a turn is
\* left, and how the time that passed compares with the turns made.
Readings ==
    /\ pc = "work" => t_first = now
    /\ pc = "wait" => t_last = now
    /\ pc \in {"work", "wait"} => i < max
NotAhead == interval > 0 => Begun >= i * interval

\* The most a turn in time may take, and where its readings may be by then.
PerTurn == interval + 2 * Slack - 1
OnPace ==
    ~late /\ interval >= 0 =>
        /\ pc \in {"work", "wait"} => t_first =< i * PerTurn + Slack
        /\ pc \notin {"work", "wait"} => now =< i * PerTurn
        /\ pc = "wait" => now - t_first =< interval + Slack - 1

Inv == TypeOK /\ Readings /\ NotAhead /\ OnPace

-------------------------------------------------------------------------------
LEMMA DivideType ==
    ASSUME NEW a \in Int, NEW b \in Int, b # 0
    PROVE  Divide(a, b) \in Int
  <1> DEFINE absA == IF a < 0 THEN -a ELSE a
             absB == IF b < 0 THEN -b ELSE b
  <1>1. absA \in Int /\ absB \in Int /\ absB > 0
    BY SMT
  <1>2. absA \div absB \in Int
    <2> HIDE DEF absA, absB
    <2> QED
      BY <1>1, SMT
  <1>3. Divide(a, b) = IF (a < 0) <=> (b < 0) THEN absA \div absB ELSE -(absA \div absB)
    BY DEF Divide
  <1> HIDE DEF absA, absB
  <1>4. Divide(a, b) = absA \div absB \/ Divide(a, b) = -(absA \div absB)
    BY <1>3, Zenon
  <1> QED
    BY <1>2, <1>4, SMT

\* One turn more is one interval more.
LEMMA NextTurn ==
    ASSUME NEW n \in Nat, NEW t \in Int
    PROVE  n * t \in Int /\ (n + 1) * t = n * t + t /\ 0 * t = 0
  BY SMT

-------------------------------------------------------------------------------
LEMMA PerTurnType == ASSUME interval \in Int PROVE PerTurn \in Int
  BY PacerAssumption, SMT DEF PerTurn

LEMMA InitInv == Init => Inv
  <1> SUFFICES ASSUME Init PROVE Inv
    OBVIOUS
  <1>1. PICK timer_max \in Timers, frequency \in Frequencies :
          /\ max = Divide(timer_max * frequency, Millis)
          /\ interval = IF frequency = 0 THEN 0 ELSE Divide(Nanos, frequency)
          /\ pc = IF frequency = 0 THEN "fault" ELSE "top"
    BY DEF Init
  <1>2. timer_max \in Int /\ frequency \in Int
    BY PacerAssumption
  <1>3. timer_max * frequency \in Int /\ Nanos \in Int /\ Millis \in Int /\ Millis # 0
    BY <1>2, PacerAssumption, SMT
  <1>4. max \in Int /\ interval \in Int
    <2>1. frequency # 0 => Divide(Nanos, frequency) \in Int
      BY <1>2, <1>3, DivideType
    <2> QED
      BY <1>1, <1>3, <2>1, DivideType
  <1>5. /\ pc \in {"top", "fault"} /\ i = 0 /\ now = 0 /\ t_first = 0 /\ t_last = 0
        /\ late = FALSE
    BY <1>1 DEF Init
  <1>6. TypeOK
    <2>1. now \in 0 .. Horizon /\ t_first \in 0 .. now /\ t_last \in 0 .. now /\ i \in Nat
      BY <1>5, PacerAssumption, SMT
    <2> QED
      BY <1>4, <1>5, <2>1 DEF TypeOK
  <1>7. Begun = 0 /\ i * interval = 0 /\ PerTurn \in Int /\ i * PerTurn = 0
    <2>1. PerTurn \in Int
      BY <1>4, PacerAssumption, SMT DEF PerTurn
    <2> QED
      BY <1>4, <1>5, <2>1, NextTurn DEF Begun
  <1>8. Readings
    BY <1>5 DEF Readings
  <1>9. NotAhead /\ OnPace
    BY <1>5, <1>7, SMT DEF NotAhead, OnPace
  <1> QED
    BY <1>6, <1>8, <1>9 DEF Inv

\* A turn begins at most Slack after the one before it ended, unless it is late.
LEMMA TopInv == ASSUME Inv, NEW d \in {0} \cup Reads, Top(d) PROVE Inv'
  <1>1. /\ pc = "top" /\ i < max /\ pc' = "work" /\ now' = now + d /\ t_first' = now'
        /\ now + d =< Horizon /\ max' = max /\ interval' = interval /\ i' = i
        /\ t_last' = t_last /\ late' = (late \/ d > Slack)
    BY DEF Top, Another, FirstRead
  <1>2. /\ d \in Nat /\ now \in Nat /\ interval \in Int /\ i \in Nat /\ Slack \in Nat
        /\ Horizon \in Nat /\ t_last \in 0 .. now
    BY PacerAssumption, SMT DEF Inv, TypeOK
  <1>3. TypeOK'
    <2>1. now' \in 0 .. Horizon /\ t_first' \in 0 .. now' /\ t_last' \in 0 .. now'
      BY <1>1, <1>2, SMT
    <2>2. late' \in BOOLEAN
      BY <1>1 DEF Inv, TypeOK
    <2> QED
      BY <1>1, <2>1, <2>2 DEF Inv, TypeOK
  <1>4. Readings'
    BY <1>1 DEF Readings
  <1>5. NotAhead'
    <2> SUFFICES ASSUME interval > 0 PROVE now + d >= i * interval
      BY <1>1 DEF NotAhead, Begun
    <2>1. now >= i * interval
      BY <1>1 DEF Inv, NotAhead, Begun
    <2>2. i * interval \in Int
      BY <1>2, NextTurn
    <2> QED
      BY <1>2, <2>1, <2>2, SMT
  <1>6. OnPace'
    <2> SUFFICES ASSUME ~late', interval >= 0
                 PROVE  now + d =< i * PerTurn + Slack
      BY <1>1 DEF OnPace, PerTurn
    <2>1. ~late /\ ~(d > Slack)
      BY <1>1
    <2>2. now =< i * PerTurn
      BY <1>1, <2>1 DEF Inv, OnPace
    <2>3. i * PerTurn \in Int
      BY <1>2, PerTurnType, NextTurn
    <2> QED
      BY <1>2, <2>1, <2>2, <2>3, SMT
  <1> QED
    BY <1>3, <1>4, <1>5, <1>6 DEF Inv

\* The work of a turn that is not late takes no longer than interval.
LEMMA WorkInv == ASSUME Inv, NEW d \in Works, Work(d) PROVE Inv'
  <1>1. /\ pc = "work" /\ pc' = "wait" /\ now + d =< Horizon
        /\ now' = now + d /\ t_last' = now' /\ late' = (late \/ d > interval)
        /\ max' = max /\ interval' = interval /\ i' = i /\ t_first' = t_first
    BY DEF Work
  <1>2. /\ d \in Nat /\ now \in Nat /\ t_first = now /\ i < max /\ interval \in Int
        /\ Slack \in Nat \ {0}
    BY <1>1, PacerAssumption, SMT DEF Inv, TypeOK, Readings
  <1>3. Begun' = Begun /\ PerTurn' = PerTurn
    BY <1>1 DEF Begun, PerTurn
  <1>4. TypeOK'
    <2>1. now' \in 0 .. Horizon /\ t_first' \in 0 .. now' /\ t_last' \in 0 .. now'
      BY <1>1, <1>2, PacerAssumption, SMT DEF Inv, TypeOK
    <2>2. late' \in BOOLEAN
      BY <1>1 DEF Inv, TypeOK
    <2> QED
      BY <1>1, <2>1, <2>2 DEF Inv, TypeOK
  <1>5. Readings' /\ NotAhead'
    BY <1>1, <1>2, <1>3 DEF Inv, Readings, NotAhead
  <1>6. OnPace'
    <2> SUFFICES ASSUME ~late', interval >= 0
                 PROVE  t_first =< i * PerTurn + Slack /\ now' - t_first =< interval + Slack - 1
      BY <1>1, <1>3 DEF OnPace
    <2>1. ~late /\ ~(d > interval)
      BY <1>1
    <2>2. now' - t_first =< interval + Slack - 1
      BY <1>1, <1>2, <2>1, SMT
    <2> QED
      BY <1>1, <2>1, <2>2 DEF Inv, OnPace
  <1> QED
    BY <1>4, <1>5, <1>6 DEF Inv

\* The clock is read again only while it is too early, so the last reading is
\* no later than an interval and Slack, unless it is late.
LEMMA SpinInv == ASSUME Inv, NEW d \in Reads, Spin(d) PROVE Inv'
  <1>1. /\ pc = "wait" /\ pc' = pc /\ t_last - t_first < interval /\ now + d =< Horizon
        /\ now' = now + d /\ t_last' = now' /\ late' = (late \/ d > Slack)
        /\ max' = max /\ interval' = interval /\ i' = i /\ t_first' = t_first
    BY DEF Spin, TooEarly
  <1>2. /\ t_last = now /\ i < max /\ d \in Nat /\ now \in Nat /\ interval \in Int
        /\ t_first \in 0 .. now /\ Slack \in Nat
    BY <1>1, PacerAssumption, SMT DEF Inv, TypeOK, Readings
  <1>3. Begun' = Begun /\ PerTurn' = PerTurn
    BY <1>1 DEF Begun, PerTurn
  <1>4. TypeOK'
    <2>1. now' \in 0 .. Horizon /\ t_first' \in 0 .. now' /\ t_last' \in 0 .. now'
      BY <1>1, <1>2, PacerAssumption, SMT
    <2>2. late' \in BOOLEAN
      BY <1>1 DEF Inv, TypeOK
    <2> QED
      BY <1>1, <2>1, <2>2 DEF Inv, TypeOK
  <1>5. OnPace'
    <2> SUFFICES ASSUME ~late', interval >= 0
                 PROVE  t_first =< i * PerTurn + Slack /\ now' - t_first =< interval + Slack - 1
      BY <1>1, <1>3 DEF OnPace
    <2>1. ~late /\ ~(d > Slack)
      BY <1>1
    <2>2. now' - t_first =< interval + Slack - 1
      BY <1>1, <1>2, <2>1, SMT
    <2> QED
      BY <1>1, <2>1, <2>2 DEF Inv, OnPace
  <1> QED
    BY <1>1, <1>2, <1>3, <1>4, <1>5 DEF Inv, Readings, NotAhead

\* A turn ends at least an interval after it began, and at most PerTurn after
\* the one before it ended if it was not late.
LEMMA RepeatInv == ASSUME Inv, Repeat PROVE Inv'
  <1>1. /\ pc = "wait" /\ pc' = "top" /\ ~(t_last - t_first < interval) /\ i' = i + 1
        /\ max' = max /\ interval' = interval /\ t_first' = t_first /\ t_last' = t_last
        /\ now' = now /\ late' = late
    BY DEF Repeat, TooEarly, Count
  <1>2. t_last = now /\ i < max
    BY <1>1 DEF Inv, Readings
  <1>3. /\ i \in Nat /\ interval \in Int /\ max \in Int /\ now \in Int /\ t_first \in Int
        /\ Slack \in Nat
    BY PacerAssumption, SMT DEF Inv, TypeOK
  <1>4. Begun = t_first /\ Begun' = now /\ PerTurn' = PerTurn
    BY <1>1 DEF Begun, PerTurn
  <1>5. i' * interval' = i * interval + interval /\ i * interval \in Int
    BY <1>1, <1>3, NextTurn
  <1>6. TypeOK'
    BY <1>1, <1>2, <1>3, SMT DEF Inv, TypeOK
  <1>7. Readings'
    BY <1>1 DEF Readings
  <1>8. NotAhead'
    <2> DEFINE past == i * interval
    <2> HIDE DEF past
    <2> SUFFICES ASSUME interval > 0 PROVE now >= past + interval
      BY <1>1, <1>4, <1>5 DEF NotAhead, past
    <2>1. t_first >= past
      BY <1>4 DEF Inv, NotAhead, past
    <2> QED
      BY <1>1, <1>2, <1>3, <1>5, <2>1, SMT DEF past
  <1>9. OnPace'
    <2> DEFINE most == i * PerTurn
    <2>1. PerTurn \in Int
      BY <1>3, PerTurnType
    <2>2. (i + 1) * PerTurn = most + PerTurn /\ most \in Int
      BY <1>3, <2>1, NextTurn
    <2> HIDE DEF most
    <2> SUFFICES ASSUME ~late, interval >= 0 PROVE now =< most + PerTurn
      BY <1>1, <1>4, <2>2 DEF OnPace
    <2>3. t_first =< most + Slack /\ now - t_first =< interval + Slack - 1
      BY <1>1 DEF Inv, OnPace, most
    <2> QED
      BY <1>3, <2>2, <2>3, SMT DEF PerTurn
  <1> QED
    BY <1>6, <1>7, <1>8, <1>9 DEF Inv

LEMMA StepInv == Inv /\ [Next]_vars => Inv'
  <1> SUFFICES ASSUME Inv, [Next]_vars PROVE Inv'
    OBVIOUS
  <1>1. CASE End
    BY <1>1 DEF End, Inv, TypeOK, Readings, NotAhead, OnPace, Begun, PerTurn
  <1>2. CASE UNCHANGED vars
    BY <1>2 DEF vars, Inv, TypeOK, Readings, NotAhead, OnPace, Begun, PerTurn
  <1> QED
    BY <1>1, <1>2, TopInv, WorkInv, SpinInv, RepeatInv DEF Next, Wait

-------------------------------------------------------------------------------
(* The theorems.                                                           *)

\* Every part of the loop keeps the clock and the counter in relation
\* (clockexample.cpp:14-26).
THEOREM InvHolds == Spec => []Inv
  BY InitInv, StepInv, PTL DEF Spec

\* Every variable keeps its type; i never passes max.
THEOREM TypeCorrect == Spec => []TypeOK
  BY InvHolds, PTL DEF Inv

\* i turns take at least i intervals, whatever each turn's work takes
\* (clockexample.cpp:14-26).
THEOREM NotTooFast == Spec => []NeverTooFast
  <1>1. Inv => NeverTooFast
    <2> SUFFICES ASSUME Inv, interval > 0 PROVE now >= i * interval
      BY DEF NeverTooFast
    <2>1. Begun >= i * interval /\ now \in Int /\ t_first \in 0 .. now
      BY PacerAssumption, SMT DEF Inv, NotAhead, TypeOK
    <2>2. Begun \in Int /\ Begun =< now
      BY <2>1, SMT DEF Begun
    <2>3. i * interval \in Int
      BY NextTurn DEF Inv, TypeOK
    <2> DEFINE past == i * interval
    <2> HIDE DEF past
    <2>4. Begun >= past /\ past \in Int
      BY <2>1, <2>3 DEF past
    <2>5. now >= past
      BY <2>1, <2>2, <2>4, SMT
    <2> QED
      BY <2>5 DEF past
  <1> QED
    BY <1>1, InvHolds, PTL

\* Until a turn is late, i turns take at most i times an interval and what the
\* readings of one turn can lose (clockexample.cpp:15, 21-26).
THEOREM SlowDrift == Spec => []DriftsSlowly
  <1>1. Inv => DriftsSlowly
    BY DEF Inv, OnPace, PerTurn, DriftsSlowly
  <1> QED
    BY <1>1, InvHolds, PTL
===============================================================================
