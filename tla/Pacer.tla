--------------------------------- MODULE Pacer ---------------------------------
(***************************************************************************)
(* The timed loop that clockexample.cpp is the example of and that         *)
(* vibrate, goto_angles, homeandback and the daemon repeat: each turn reads *)
(* the clock, works, then reads the clock again and again until interval   *)
(* has passed since the turn began.  How long the work takes, and how long *)
(* it is from one reading of the clock to the next, is the machine's       *)
(* choice.                                                                 *)
(***************************************************************************)
EXTENDS Integers

CONSTANTS
    Nanos,        \* 1000000000, the clock ticks of a second
    Millis,       \* 1000, the milliseconds of a second
    Timers,       \* timer_max the operator may pass, in milliseconds
    Frequencies,  \* frequency the operator may pass, in Hertz
    Works,        \* ticks the work of one turn may take
    Reads,        \* ticks from one reading of the clock to the next
    Slack,        \* the most of them that count as in time
    Horizon       \* bound: the clock stops there

ASSUME PacerAssumption ==
    /\ Nanos \in Nat \ {0} /\ Millis \in Nat \ {0}
    /\ Timers \subseteq Int /\ Frequencies \subseteq Int /\ Works \subseteq Nat
    /\ Reads \subseteq Nat \ {0} /\ Slack \in Nat \ {0}
    /\ Horizon \in Nat

VARIABLES
    pc,         \* "top", "work", "wait", "end", or "fault" (SIGFPE)
    max,
    interval,   \* the variable frequency once it is an interval
    i,
    t_first,
    t_last,
    now,        \* external: CLOCK_MONOTONIC
    late        \* history: some turn's work took longer than interval, or some
                \* reading of the clock came more than Slack after the last one

vars == <<pc, max, interval, i, t_first, t_last, now, late>>

\* Division of C: truncated toward zero.
Divide(a, b) ==
    LET Abs(n) == IF n < 0 THEN -n ELSE n
        q == Abs(a) \div Abs(b)
    IN IF (a < 0) <=> (b < 0) THEN q ELSE -q

\* clock_gettime at the top of each turn.  The mutant reads it only once.
FirstReadOnce(t) == IF i = 0 THEN t ELSE t_first
FirstRead(t) == t

\* while (elapsed < interval).  The mutant waits one tick more.
TooEarlyInclusive == t_last - t_first =< interval
TooEarly == t_last - t_first < interval

\* while (i<max).  The mutant is off by one.
AnotherInclusive == i =< max
Another == i < max

\* i++.  The mutant skips it, as a continue does.
CountSkipped(n) == n
Count(n) == n + 1

-------------------------------------------------------------------------------
Init ==
    /\ \E timer_max \in Timers, frequency \in Frequencies :
          /\ max = Divide(timer_max * frequency, Millis)
          /\ interval = IF frequency = 0 THEN 0 ELSE Divide(Nanos, frequency)
          /\ pc = IF frequency = 0 THEN "fault" ELSE "top"
    /\ i = 0 /\ now = 0 /\ t_first = 0 /\ t_last = 0 /\ late = FALSE

\* A new turn; the reading that ended the last one was d ticks ago.
Top(d) ==
    /\ pc = "top" /\ Another /\ now + d =< Horizon
    /\ now' = now + d /\ t_first' = FirstRead(now')
    /\ late' = (late \/ d > Slack)
    /\ pc' = "work"
    /\ UNCHANGED <<max, interval, i, t_last>>

\* The body of the loop, up to the clock reading that follows it.
Work(d) ==
    /\ pc = "work" /\ now + d =< Horizon
    /\ now' = now + d /\ t_last' = now'
    /\ late' = (late \/ d > interval)
    /\ pc' = "wait"
    /\ UNCHANGED <<max, interval, i, t_first>>

\* The clock is read again, d ticks after it was read last.
Spin(d) ==
    /\ pc = "wait" /\ TooEarly /\ now + d =< Horizon
    /\ now' = now + d /\ t_last' = now'
    /\ late' = (late \/ d > Slack)
    /\ UNCHANGED <<pc, max, interval, i, t_first>>

Repeat ==
    /\ pc = "wait" /\ ~TooEarly
    /\ i' = Count(i)
    /\ pc' = "top"
    /\ UNCHANGED <<max, interval, t_first, t_last, now, late>>

End ==
    /\ pc = "top" /\ ~Another
    /\ pc' = "end"
    /\ UNCHANGED <<max, interval, i, t_first, t_last, now, late>>

\* Everything but the work.
Wait == (\E d \in {0} \cup Reads : Top(d)) \/ (\E d \in Reads : Spin(d)) \/ Repeat \/ End

Next == Wait \/ \E d \in Works : Work(d)

Spec == Init /\ [][Next]_vars

\* One thread, nothing blocks, and the monotonic clock advances.
FairSpec == Spec /\ WF_vars(Next)
-------------------------------------------------------------------------------
TypeOK ==
    /\ pc \in {"top", "work", "wait", "end", "fault"}
    /\ max \in Int /\ interval \in Int
    /\ i \in Nat /\ (i = 0 \/ i =< max)
    /\ now \in 0 .. Horizon /\ t_first \in 0 .. now /\ t_last \in 0 .. now
    /\ late \in BOOLEAN

\* The loop never runs ahead: i turns have taken at least i intervals, however
\* the work of the turns varies (clockexample.cpp:14-26).
NeverTooFast == interval > 0 => now >= i * interval

\* It falls behind, but by no more than what the readings of a turn can lose:
\* each turn begins with a new reading and ends with the first one that is not
\* too early, so until some turn is late i turns take at most i intervals and
\* twice the time between two readings (clockexample.cpp:15, 21-26).
DriftsSlowly ==
    ~late /\ interval >= 0 /\ pc = "top" => now =< i * (interval + 2 * Slack - 1)

\* It ends.
Ends == <>(pc \in {"end", "fault"})
===============================================================================
