--------------------------- MODULE ArmSession_proofs ---------------------------
(* Proofs about ArmSession and GotoMain, for every set of programs and any *)
(* number of runs.                                                         *)
EXTENDS GotoMain, TLAPS

\* From prepare on the arm is in low level servoing.
Prepared == \A p \in Programs : at[p] \in {"sleep", "work"} => mode = "low"

\* A session is there from its creation until its own program ends.
SessionsHeld ==
    \A p \in Programs :
        /\ at[p] \in {"createRT", "prepare", "sleep", "work"} => Own(p, "tcp") \in sessions
        /\ at[p] \in {"prepare", "sleep", "work"} => Own(p, "rt") \in sessions

SessionInv == TypeOK /\ Prepared /\ CommandsFindLowLevel /\ SessionsHeld

-------------------------------------------------------------------------------
LEMMA SessionInit == Init => SessionInv
  BY ArmSessionAssumption DEF Init, SessionInv, TypeOK, Prepared, CommandsFindLowLevel, SessionsHeld

LEMMA StreamsArePrograms == Streams \subseteq Programs /\ MaxRuns \in Nat
  BY ArmSessionAssumption DEF ArmSessionAssumption

LEMMA OwnIsSession ==
    ASSUME TypeOK, NEW p \in Programs, at[p] # "off", NEW link \in {"tcp", "rt"}
    PROVE  Own(p, link) \in Sessions
  <1>1. runs[p] \in 1 .. MaxRuns
    BY StreamsArePrograms, SMT DEF TypeOK
  <1> QED
    BY <1>1 DEF Own, Sessions

\* Two programs never have the same session.
LEMMA OwnDiffers ==
    ASSUME NEW p, NEW q, NEW one \in {"tcp", "rt"}, NEW other \in {"tcp", "rt"},
           Own(p, one) = Own(q, other)
    PROVE  p = q /\ one = other
  <1>1. Own(p, one).program = Own(q, other).program /\ Own(p, one).link = Own(q, other).link
    OBVIOUS
  <1> QED
    BY <1>1 DEF Own

LEMMA BeginStep ==
    ASSUME SessionInv, NEW p \in Programs, Begin(p)
    PROVE  SessionInv'
  <1>t. at \in [Programs -> {"off", "create", "createRT", "prepare", "sleep", "work"}]
        /\ runs \in [Programs -> 0 .. MaxRuns] /\ sessions \subseteq Sessions
    BY DEF SessionInv, TypeOK
  <1>m. MaxRuns \in Nat
    BY StreamsArePrograms
  <1>1. CASE Main(p)
    <2>1. /\ at[p] = "off" /\ at' = [at EXCEPT ![p] = "create"] /\ runs[p] < MaxRuns
          /\ runs' = [runs EXCEPT ![p] = runs[p] + 1]
          /\ sessions' = sessions /\ mode' = mode /\ wire' = wire
      BY <1>1 DEF Main, Goes
    <2>2. runs' \in [Programs -> 0 .. MaxRuns] /\ runs'[p] > 0
      BY <1>t, <1>m, <2>1, SMT
    <2>3. TypeOK'
      BY <1>t, <2>1, <2>2 DEF SessionInv, TypeOK
    <2>4. \A q \in Programs : at'[q] \in {"createRT", "prepare", "sleep", "work"} =>
              q # p /\ at'[q] = at[q] /\ runs'[q] = runs[q]
      BY <1>t, <2>1
    <2>5. SessionsHeld'
      BY <2>1, <2>4 DEF SessionInv, SessionsHeld, Own
    <2> QED
      BY <2>1, <2>3, <2>4, <2>5 DEF SessionInv, Prepared, CommandsFindLowLevel
  <1>2. CASE Create(p)
    <2>1. /\ at[p] = "create" /\ at' = [at EXCEPT ![p] = "createRT"]
          /\ sessions' = sessions \cup {Own(p, "tcp")}
          /\ runs' = runs /\ mode' = mode /\ wire' = wire
      BY <1>2 DEF Create, Goes
    <2>2. Own(p, "tcp") \in Sessions
      BY <2>1, OwnIsSession DEF SessionInv
    <2>3. \A q \in Programs : q = p \/ at'[q] = at[q]
      BY <1>t, <2>1
    <2>4. at'[p] = "createRT"
      BY <1>t, <2>1
    <2>5. TypeOK'
      BY <1>t, <2>1, <2>2, <2>3 DEF SessionInv, TypeOK
    <2>6. SessionsHeld'
      BY <2>1, <2>3, <2>4 DEF SessionInv, SessionsHeld, Own
    <2> QED
      BY <2>1, <2>3, <2>4, <2>5, <2>6 DEF SessionInv, Prepared, CommandsFindLowLevel
  <1>3. CASE CreateRT(p)
    <2>1. /\ at[p] = "createRT" /\ at' = [at EXCEPT ![p] = "prepare"]
          /\ sessions' = sessions \cup {Own(p, "rt")}
          /\ runs' = runs /\ mode' = mode /\ wire' = wire
      BY <1>3 DEF CreateRT, Goes
    <2>2. Own(p, "rt") \in Sessions
      BY <2>1, OwnIsSession DEF SessionInv
    <2>3. \A q \in Programs : q = p \/ at'[q] = at[q]
      BY <1>t, <2>1
    <2>4. at'[p] = "prepare"
      BY <1>t, <2>1
    <2>5. TypeOK'
      BY <1>t, <2>1, <2>2, <2>3 DEF SessionInv, TypeOK
    <2>6. SessionsHeld'
      BY <2>1, <2>3, <2>4 DEF SessionInv, SessionsHeld, Own
    <2> QED
      BY <2>1, <2>3, <2>4, <2>5, <2>6 DEF SessionInv, Prepared, CommandsFindLowLevel
  <1>4. CASE Prepare(p) \/ Wake(p)
    <2>1. /\ \/ at[p] = "prepare" /\ at' = [at EXCEPT ![p] = "sleep"]
             \/ at[p] = "sleep" /\ at' = [at EXCEPT ![p] = "work"]
          /\ mode' = "low"
          /\ sessions' = sessions /\ runs' = runs /\ wire' = wire
      BY <1>4 DEF Prepare, Wake, Goes, SessionInv, Prepared
    <2>2. \A q \in Programs :
              at'[q] = at[q] \/ (at[q] \in {"prepare", "sleep"} /\ at'[q] \in {"sleep", "work"})
      <3>1. CASE at[p] = "prepare" /\ at' = [at EXCEPT ![p] = "sleep"]
        BY <1>t, <3>1
      <3>2. CASE at[p] = "sleep" /\ at' = [at EXCEPT ![p] = "work"]
        BY <1>t, <3>2
      <3> QED
        BY <2>1, <3>1, <3>2
    <2>3. TypeOK'
      <3>1. at' \in [Programs -> {"off", "create", "createRT", "prepare", "sleep", "work"}]
        BY <1>t, <2>1
      <3>2. \A q \in Programs : at'[q] # "off" => runs'[q] > 0
        <4>1. \A q \in Programs : at'[q] # "off" => at[q] # "off"
          BY <2>2
        <4> QED
          BY <2>1, <4>1 DEF SessionInv, TypeOK
      <3> QED
        BY <2>1, <3>1, <3>2 DEF SessionInv, TypeOK
    <2>4. SessionsHeld'
      BY <2>1, <2>2 DEF SessionInv, SessionsHeld, Own
    <2> QED
      BY <2>1, <2>3, <2>4 DEF SessionInv, Prepared, CommandsFindLowLevel
  <1> QED
    BY <1>1, <1>2, <1>3, <1>4 DEF Begin

\* A program that ends, with or without closing its session.
LEMMA EndStep ==
    ASSUME SessionInv, NEW p \in Programs, Destroy_API(p) \/ Die(p)
    PROVE  SessionInv'
  <1>t. at \in [Programs -> {"off", "create", "createRT", "prepare", "sleep", "work"}]
    BY DEF SessionInv, TypeOK
  <1>1. /\ at' = [at EXCEPT ![p] = "off"]
        /\ sessions' = sessions \/ sessions' = sessions \ {Own(p, "tcp")}
        /\ runs' = runs /\ mode' = mode /\ wire' = wire
    BY DEF Destroy_API, Die, Goes, Closed, ModeLeft
  <1>2. \A q \in Programs : at'[q] # "off" => q # p /\ at'[q] = at[q]
    BY <1>t, <1>1
  <1>3. TypeOK'
    BY <1>t, <1>1, <1>2 DEF SessionInv, TypeOK
  <1>4. SessionsHeld'
    <2> SUFFICES ASSUME NEW q \in Programs, at'[q] # "off"
                 PROVE  \A link \in {"tcp", "rt"} : Own(q, link) \in sessions => Own(q, link) \in sessions'
      BY <1>1, <1>2 DEF SessionInv, SessionsHeld, Own
    <2> QED
      BY <1>1, <1>2, OwnDiffers
  <1> QED
    BY <1>1, <1>2, <1>3, <1>4 DEF SessionInv, Prepared, CommandsFindLowLevel

LEMMA RefreshStep ==
    ASSUME SessionInv, NEW p \in Streams, Refresh_async(p)
    PROVE  SessionInv'
  <1>1. /\ at[p] = "work" /\ wire' = wire \cup {p} /\ p \in Programs
        /\ at' = at /\ runs' = runs /\ sessions' = sessions /\ mode' = mode
    BY StreamsArePrograms DEF Refresh_async
  <1>2. mode = "low"
    BY <1>1 DEF SessionInv, Prepared
  <1> QED
    BY <1>1, <1>2 DEF SessionInv, TypeOK, Prepared, CommandsFindLowLevel, SessionsHeld, Own

LEMMA ArmStep ==
    ASSUME SessionInv, Arm
    PROVE  SessionInv'
  <1>1. CASE \E p \in wire : Deliver(p)
    <2>1. /\ wire' \subseteq wire
          /\ at' = at /\ runs' = runs /\ sessions' = sessions /\ mode' = mode
      BY <1>1 DEF Deliver
    <2> QED
      BY <2>1 DEF SessionInv, TypeOK, Prepared, CommandsFindLowLevel, SessionsHeld, Own
  <1>2. CASE \E s \in sessions : Expire(s)
    <2>1. PICK s \in sessions : Orphan(s) /\ sessions' = sessions \ {s}
      BY <1>2 DEF Expire
    <2>2. at' = at /\ runs' = runs /\ mode' = mode /\ wire' = wire
      BY <1>2 DEF Expire
    <2>3. \A q \in Programs, link \in {"tcp", "rt"} : at[q] # "off" => Own(q, link) # s
      BY <2>1 DEF Own, Orphan
    <2>4. SessionsHeld'
      BY <2>1, <2>2, <2>3 DEF SessionInv, SessionsHeld, Own
    <2> QED
      BY <2>1, <2>2, <2>4 DEF SessionInv, TypeOK, Prepared, CommandsFindLowLevel
  <1> QED
    BY <1>1, <1>2 DEF Arm

LEMMA SessionStep == SessionInv /\ [Next]_sessionVars => SessionInv'
  <1> SUFFICES ASSUME SessionInv, [Next]_sessionVars PROVE SessionInv'
    OBVIOUS
  <1>1. CASE Next
    BY <1>1, StreamsArePrograms, BeginStep, EndStep, RefreshStep, ArmStep DEF Next, Operate, Stream
  <1>2. CASE UNCHANGED sessionVars
    BY <1>2 DEF sessionVars, SessionInv, TypeOK, Prepared, CommandsFindLowLevel, SessionsHeld, Own
  <1> QED
    BY <1>1, <1>2

-------------------------------------------------------------------------------
(* The theorems.                                                           *)

\* goto is one of the programs that share the arm: splitting its argument is
\* something it does between two steps of ArmSession (goto.cpp:189-249).
THEOREM GotoShares == MainSpec => Spec
  <1>1. MainInit => Init
    BY DEF MainInit
  <1>2. [MainNext]_<<sessionVars, mainVars>> => [Next]_sessionVars
    <2>1. Goto \in Programs \ Streams
      BY GotoMainAssumption DEF GotoMainAssumption
    <2>2. ASSUME TooFew PROVE Next
      BY <2>1, <2>2 DEF TooFew, Next
    <2>3. ASSUME Split PROVE UNCHANGED sessionVars
      BY <2>3 DEF Split
    <2>4. ASSUME ReadAngle PROVE Next \/ UNCHANGED sessionVars
      BY <2>1, <2>4 DEF ReadAngle, Next, Operate
    <2>5. ASSUME Others PROVE Next
      BY <2>5 DEF Others, Next
    <2> QED
      BY <2>2, <2>3, <2>4, <2>5 DEF MainNext
  <1> QED
    BY <1>1, <1>2, PTL DEF MainSpec, Spec

\* Every step of every program, goto's loop included, and of the arm keeps the
\* invariant of the sessions (vibrate.cpp:42-148).
THEOREM SessionInvHolds == MainSpec => []SessionInv
  BY GotoShares, SessionInit, SessionStep, PTL DEF Spec

\* Every variable of the arm and its programs keeps its type.
THEOREM SessionTypeCorrect == MainSpec => []TypeOK
  BY SessionInvHolds, PTL DEF SessionInv

\* Whatever the programs do to each other, no command finds the arm in another
\* mode than low level servoing, however late it comes (vibrate.cpp:73-79, 119).
THEOREM LowLevelWhenCommanded == MainSpec => []CommandsFindLowLevel
  BY SessionInvHolds, PTL DEF SessionInv

\* No program loses a session to the end of another (vibrate.cpp:133-148).
THEOREM NobodyElseCloses == MainSpec => []SessionsKept
  <1>1. SessionInv => SessionsKept
    BY DEF SessionInv, SessionsHeld, SessionsKept
  <1> QED
    BY <1>1, SessionInvHolds, PTL

-------------------------------------------------------------------------------
(* The angles of goto, for any arguments, arm and memory behind temp.      *)

MainTyped ==
    /\ splitting \in BOOLEAN
    /\ typed \in Typed \cup {<<>>} /\ read \in Seq(Seq(Characters)) /\ Len(read) =< Len(typed)
    /\ temp \in [1 .. 6 -> Characters \cup {Nul}] /\ cell \in Nat \X (0 .. ServosCount - 1)

\* Nothing is left of the angles before but the sixth character of one.
Wiped(buffer) == \A n \in 1 .. 5 : buffer[n] = Nul

\* In the loop temp is as the angles so far leave it, and the cell counts them;
\* outside it the locals are as the next run finds them.
InLoop ==
    IF splitting
    THEN /\ typed \in Typed /\ Len(read) < Len(typed)
         /\ Wiped(temp)
         /\ (\A j \in 1 .. Len(read) : Len(typed[j]) =< 5) => temp[6] = Nul
         /\ cell[1] * ServosCount + cell[2] = Len(read)
    ELSE temp = Blank /\ cell = <<0, 0>>

MainInv == MainTyped /\ InLoop /\ ReadAsTyped

LEMMA ArgumentType ==
    ASSUME NEW list \in Typed, NEW k \in 1 .. Len(list)
    PROVE  Len(list) \in Nat /\ list[k] \in Seq(Characters) /\ Len(list[k]) \in 1 .. 6
  <1>1. list \in Seq(Seq(Characters)) /\ Len(list[k]) \in 1 .. 6
    BY GotoMainAssumption DEF GotoMainAssumption
  <1> HIDE DEF Characters
  <1> QED
    BY <1>1, SMT

LEMMA FilledType ==
    ASSUME NEW buffer \in [1 .. 6 -> Characters \cup {Nul}], NEW text \in Seq(Characters)
    PROVE  /\ Filled(buffer, text) \in [1 .. 6 -> Characters \cup {Nul}]
           /\ Cleared(buffer) \in [1 .. 6 -> Characters \cup {Nul}]
  <1>1. \A n \in 1 .. 6 : n =< Len(text) => text[n] \in Characters
    <2> HIDE DEF Characters
    <2> QED
      BY SMT
  <1> QED
    BY <1>1 DEF Filled, Cleared

\* sscanf stops at the first Nul.
LEMMA FoundUpToNul ==
    ASSUME NEW buffer \in [1 .. 6 -> Characters \cup {Nul}], NEW beyond \in Beyond,
           NEW n \in 1 .. 6, buffer[n] = Nul, \A j \in 1 .. n - 1 : buffer[j] # Nul
    PROVE  Found(buffer, beyond) = [j \in 1 .. n - 1 |-> buffer[j]]
  <1> DEFINE First(m) == buffer[m] = Nul /\ \A j \in 1 .. m - 1 : buffer[j] # Nul
             first == CHOOSE m \in 1 .. 6 : First(m)
  <1>1. first \in 1 .. 6 /\ First(first)
    BY DEF First
  <1>2. first = n
    BY <1>1, SMT DEF First
  <1>3. Found(buffer, beyond) = SubSeq(buffer, 1, n - 1)
    BY <1>2 DEF Found
  <1>4. SubSeq(buffer, 1, n - 1) = [j \in 1 .. n - 1 |-> buffer[j]]
    BY SMT
  <1> QED
    BY <1>3, <1>4

LEMMA FoundType ==
    ASSUME NEW buffer \in [1 .. 6 -> Characters \cup {Nul}], NEW beyond \in Beyond
    PROVE  Found(buffer, beyond) \in Seq(Characters)
  <1>1. CASE \E n \in 1 .. 6 : buffer[n] = Nul
    <2>1. PICK n \in 1 .. 6 : buffer[n] = Nul /\ \A j \in 1 .. n - 1 : buffer[j] # Nul
      BY <1>1, SMT
    <2>2. Found(buffer, beyond) = [j \in 1 .. n - 1 |-> buffer[j]]
      BY <2>1, FoundUpToNul
    <2>3. \A j \in 1 .. n - 1 : buffer[j] \in Characters
      BY <2>1
    <2> HIDE DEF Characters
    <2> QED
      BY <2>2, <2>3, SMT
  <1>2. CASE ~\E n \in 1 .. 6 : buffer[n] = Nul
    <2>1. buffer \in [1 .. 6 -> Characters] /\ beyond \in Seq(Characters)
      BY <1>2, GotoMainAssumption DEF GotoMainAssumption
    <2>2. Found(buffer, beyond) = buffer \o beyond
      BY <1>2 DEF Found
    <2> HIDE DEF Characters
    <2>3. buffer \in Seq(Characters)
      <3>1. buffer = [n \in 1 .. 6 |-> buffer[n]] /\ \A n \in 1 .. 6 : buffer[n] \in Characters
        BY <2>1
      <3>2. [n \in 1 .. 6 |-> buffer[n]] \in Seq(Characters)
        BY <3>1, SMT
      <3> QED
        BY <3>1, <3>2
    <2>4. buffer \o beyond \in Seq(Characters)
      BY <2>1, <2>3, SMT
    <2> QED
      BY <2>2, <2>4
  <1> QED
    BY <1>1, <1>2

\* What copying an angle into a wiped buffer makes of it.
LEMMA FilledBytes ==
    ASSUME NEW buffer \in [1 .. 6 -> Characters \cup {Nul}], Wiped(buffer),
           NEW text \in Seq(Characters), Len(text) \in 1 .. 6
    PROVE  /\ \A n \in 1 .. 6 : n =< Len(text) => Filled(buffer, text)[n] = text[n]
           /\ \A n \in 1 .. 5 : ~(n =< Len(text)) => Filled(buffer, text)[n] = Nul
           /\ Len(text) =< 5 => Filled(buffer, text)[6] = buffer[6]
           /\ \A n \in 1 .. Len(text) : text[n] \in Characters /\ text[n] # Nul
  <1>1. \A n \in 1 .. 6 : Filled(buffer, text)[n] = IF n =< Len(text) THEN text[n] ELSE buffer[n]
    BY DEF Filled
  <1>2. \A n \in 1 .. 5 : n \in 1 .. 6
    BY SMT
  <1>3. Len(text) =< 5 => ~(6 =< Len(text))
    BY SMT
  <1>4. \A n \in 1 .. Len(text) : text[n] \in Characters
    <2> HIDE DEF Characters
    <2> QED
      BY SMT
  <1>5. \A n \in 1 .. Len(text) : text[n] # Nul
    BY <1>4, GotoMainAssumption DEF GotoMainAssumption
  <1>6. 6 \in 1 .. 6
    BY SMT
  <1> QED
    BY <1>1, <1>2, <1>3, <1>4, <1>5, <1>6 DEF Wiped

\* From a wiped buffer sscanf reads an angle of at most four characters as it was
\* typed, and one of five if the sixth byte is clear, too.
LEMMA WipedIsEnough ==
    ASSUME NEW buffer \in [1 .. 6 -> Characters \cup {Nul}], Wiped(buffer),
           NEW text \in Seq(Characters), Len(text) \in 1 .. 5,
           Len(text) =< 4 \/ buffer[6] = Nul, NEW beyond \in Beyond
    PROVE  Found(Filled(buffer, text), beyond) = text
  <1> DEFINE filled == Filled(buffer, text)
             n == Len(text) + 1
  <1>1. filled \in [1 .. 6 -> Characters \cup {Nul}]
    BY FilledType
  <1>2. Len(text) \in 1 .. 6
    BY SMT
  <1>3. /\ \A j \in 1 .. 6 : j =< Len(text) => filled[j] = text[j]
        /\ \A j \in 1 .. 5 : ~(j =< Len(text)) => filled[j] = Nul
        /\ Len(text) =< 5 => filled[6] = buffer[6]
        /\ \A j \in 1 .. Len(text) : text[j] # Nul
    BY <1>2, FilledBytes
  <1>4. n \in 1 .. 6 /\ \A j \in 1 .. n - 1 : j \in 1 .. 6 /\ j =< Len(text) /\ j \in 1 .. Len(text)
    <2>1. \A m \in 1 .. 5 : m + 1 \in 1 .. 6 /\ \A j \in 1 .. (m + 1) - 1 : j \in 1 .. 6 /\ j =< m /\ j \in 1 .. m
      BY SMT
    <2> QED
      BY <2>1, Zenon
  <1>5. filled[n] = Nul
    <2>1. CASE Len(text) =< 4
      <3>1. n \in 1 .. 5 /\ ~(n =< Len(text))
        <4>1. \A m \in 1 .. 5 : m =< 4 => m + 1 \in 1 .. 5 /\ ~(m + 1 =< m)
          BY SMT
        <4> QED
          BY <2>1, <4>1
      <3> QED
        BY <1>3, <3>1
    <2>2. CASE ~(Len(text) =< 4)
      <3>1. n = 6 /\ Len(text) =< 5
        <4>1. \A m \in 1 .. 5 : ~(m =< 4) => m + 1 = 6 /\ m =< 5
          BY SMT
        <4> QED
          BY <2>2, <4>1
      <3> QED
        BY <1>3, <2>2, <3>1
    <2> QED
      BY <2>1, <2>2
  <1>6. \A j \in 1 .. n - 1 : filled[j] = text[j] /\ filled[j] # Nul
    BY <1>3, <1>4
  <1>7. Found(filled, beyond) = [j \in 1 .. n - 1 |-> filled[j]]
    <2> HIDE DEF filled, n
    <2>1. \A j \in 1 .. n - 1 : filled[j] # Nul
      BY <1>6
    <2>2. n \in 1 .. 6
      BY <1>4
    <2> QED
      BY <1>1, <1>5, <2>1, <2>2, FoundUpToNul, Zenon
  <1>8. [j \in 1 .. n - 1 |-> filled[j]] = [j \in 1 .. n - 1 |-> text[j]]
    BY <1>6
  <1>9. [j \in 1 .. n - 1 |-> text[j]] = text
    <2> HIDE DEF Characters
    <2> QED
      BY SMT
  <1> QED
    BY <1>7, <1>8, <1>9

LEMMA ConcatBegins ==
    ASSUME NEW S, NEW s \in Seq(S), NEW t \in Seq(S)
    PROVE  /\ Len(s \o t) = Len(s) + Len(t) /\ Len(t) \in Nat
           /\ \A n \in 1 .. Len(s) : (s \o t)[n] = s[n]
  BY SMT

\* What sscanf reads from a wiped buffer begins with the angle as it was typed.
LEMMA WipedIsBegun ==
    ASSUME NEW buffer \in [1 .. 6 -> Characters \cup {Nul}], Wiped(buffer),
           NEW text \in Seq(Characters), Len(text) \in 1 .. 6, NEW beyond \in Beyond
    PROVE  /\ Len(text) =< Len(Found(Filled(buffer, text), beyond))
           /\ \A n \in 1 .. Len(text) : Found(Filled(buffer, text), beyond)[n] = text[n]
  <1> DEFINE filled == Filled(buffer, text)
             found == Found(filled, beyond)
  <1>1. CASE Len(text) \in 1 .. 5 /\ (Len(text) =< 4 \/ buffer[6] = Nul)
    <2>1. found = text
      BY <1>1, WipedIsEnough
    <2>2. Len(text) =< Len(text)
      BY SMT
    <2> QED
      BY <2>1, <2>2
  <1>2. CASE ~(Len(text) \in 1 .. 5 /\ (Len(text) =< 4 \/ buffer[6] = Nul))
    <2>1. /\ \A n \in 1 .. 6 : n =< Len(text) => filled[n] = text[n]
          /\ Len(text) =< 5 => filled[6] = buffer[6]
          /\ \A n \in 1 .. Len(text) : text[n] \in Characters /\ text[n] # Nul
      BY FilledBytes
    <2>2. (Len(text) = 5 /\ buffer[6] # Nul) \/ Len(text) = 6
      <3>1. \A m \in 1 .. 6 : m \in 1 .. 5 \/ m = 6
        BY SMT
      <3>2. \A m \in 1 .. 5 : m =< 4 \/ m = 5
        BY SMT
      <3> QED
        BY <1>2, <3>1, <3>2
    <2>3. \A n \in 1 .. 6 : n =< Len(text) \/ (n = 6 /\ Len(text) = 5 /\ buffer[6] # Nul)
      <3>1. \A n \in 1 .. 6 : n =< 6 /\ (n =< 5 \/ n = 6)
        BY SMT
      <3> QED
        BY <2>2, <3>1
    <2>4. \A n \in 1 .. 6 : n =< Len(text) => n \in 1 .. Len(text)
      BY SMT
    <2>5. \A n \in 1 .. 6 : filled[n] # Nul
      <3> SUFFICES ASSUME NEW n \in 1 .. 6 PROVE filled[n] # Nul
        OBVIOUS
      <3>1. CASE n =< Len(text)
        BY <2>1, <2>4, <3>1
      <3>2. CASE n = 6 /\ Len(text) = 5 /\ buffer[6] # Nul
        <4>1. Len(text) =< 5
          BY <3>2, SMT
        <4> QED
          BY <2>1, <3>2, <4>1
      <3> QED
        BY <2>3, <3>1, <3>2
    <2>6. found = filled \o beyond
      BY <2>5 DEF Found
    <2>7. filled \in [1 .. 6 -> Characters] /\ beyond \in Seq(Characters)
      <3>1. filled \in [1 .. 6 -> Characters \cup {Nul}]
        BY FilledType
      <3> QED
        BY <2>5, <3>1, GotoMainAssumption DEF GotoMainAssumption
    <2> HIDE DEF Characters, filled, found
    <2>8. filled \in Seq(Characters) /\ Len(filled) = 6
      <3>1. filled = [n \in 1 .. 6 |-> filled[n]] /\ \A n \in 1 .. 6 : filled[n] \in Characters
        BY <2>7
      <3>2. [n \in 1 .. 6 |-> filled[n]] \in Seq(Characters) /\ Len([n \in 1 .. 6 |-> filled[n]]) = 6
        BY <3>1, SMT
      <3> QED
        BY <3>1, <3>2
    <2>9. 6 =< Len(found) /\ \A n \in 1 .. 6 : found[n] = filled[n]
      <3>1. beyond \in Seq(Characters)
        BY <2>7
      <3>2. \A s, t \in Seq(Characters) :
               Len(s) = 6 => 6 =< Len(s \o t) /\ \A n \in 1 .. 6 : (s \o t)[n] = s[n]
        <4> SUFFICES ASSUME NEW s \in Seq(Characters), NEW t \in Seq(Characters), Len(s) = 6
                     PROVE  6 =< Len(s \o t) /\ \A n \in 1 .. 6 : (s \o t)[n] = s[n]
          OBVIOUS
        <4>1. Len(s \o t) = 6 + Len(t) /\ Len(t) \in Nat /\ \A n \in 1 .. 6 : (s \o t)[n] = s[n]
          <5>1. /\ Len(s \o t) = Len(s) + Len(t) /\ Len(t) \in Nat
                /\ \A n \in 1 .. Len(s) : (s \o t)[n] = s[n]
            BY ConcatBegins
          <5> QED
            BY <5>1, Zenon
        <4> QED
          BY <4>1, SMT
      <3> QED
        BY <2>6, <2>8, <3>1, <3>2, Zenon
    <2>10. Len(text) =< Len(found) /\ \A n \in 1 .. Len(text) : n \in 1 .. 6 /\ n =< Len(text)
      <3>1. Len(found) \in Nat
        <4>1. \A s, t \in Seq(Characters) : Len(s \o t) \in Nat
          BY SMT
        <4> QED
          BY <2>6, <2>7, <2>8, <4>1, Zenon
      <3>2. \A l \in 1 .. 6, m \in Nat : 6 =< m => l =< m /\ \A n \in 1 .. l : n \in 1 .. 6 /\ n =< l
        BY SMT
      <3> QED
        BY <2>9, <3>1, <3>2, Zenon
    <2> QED
      BY <2>1, <2>9, <2>10 DEF found, filled
  <1> QED
    BY <1>1, <1>2

\* Clearing wipes the buffer, and does not touch its last byte.
LEMMA ClearedWipes ==
    ASSUME NEW buffer
    PROVE  Wiped(Cleared(buffer)) /\ Cleared(buffer)[6] = buffer[6]
  <1>1. \A n \in 1 .. 5 : n \in 1 .. 6 /\ n =< 5
    BY SMT
  <1>2. 6 \in 1 .. 6 /\ ~(6 =< 5)
    BY SMT
  <1> QED
    BY <1>1, <1>2 DEF Cleared, Wiped

LEMMA BlankIsWiped == Wiped(Blank) /\ Blank[6] = Nul
  <1>1. 6 \in 1 .. 6 /\ \A n \in 1 .. 5 : n \in 1 .. 6
    BY SMT
  <1> QED
    BY <1>1 DEF Wiped, Blank

\* Row by row.
LEMMA NextCellCounts ==
    ASSUME NEW c \in Nat \X (0 .. ServosCount - 1)
    PROVE  /\ NextCell(c) \in Nat \X (0 .. ServosCount - 1)
           /\ NextCell(c)[1] * ServosCount + NextCell(c)[2] = c[1] * ServosCount + c[2] + 1
  <1>1. ServosCount \in Nat /\ ServosCount > 0
    BY GotoMainAssumption DEF GotoMainAssumption
  <1>2. PICK z \in Nat, y \in 0 .. ServosCount - 1 : c = <<z, y>>
    OBVIOUS
  <1>3. CASE y = ServosCount - 1
    <2>1. NextCell(c) = <<z + 1, 0>>
      BY <1>2, <1>3 DEF NextCell
    <2>2. (z + 1) * ServosCount = z * ServosCount + ServosCount
      BY <1>1, SMT
    <2>3. z * ServosCount \in Nat
      BY <1>1, SMT
    <2>4. (z + 1) * ServosCount + 0 = z * ServosCount + y + 1
      BY <1>1, <1>3, <2>2, <2>3, SMT
    <2>5. 0 \in 0 .. ServosCount - 1 /\ z + 1 \in Nat
      BY <1>1, SMT
    <2> QED
      BY <1>2, <2>1, <2>4, <2>5
  <1>4. CASE y # ServosCount - 1
    <2>1. NextCell(c) = <<z, y + 1>>
      BY <1>2, <1>4 DEF NextCell
    <2>2. z * ServosCount \in Nat
      BY <1>1, SMT
    <2>3. z * ServosCount + (y + 1) = z * ServosCount + y + 1 /\ y + 1 \in 0 .. ServosCount - 1
      BY <1>1, <1>4, <2>2, SMT
    <2> QED
      BY <1>2, <2>1, <2>3
  <1> QED
    BY <1>3, <1>4

LEMMA MainInitInv == MainInit => MainInv
  <1> SUFFICES ASSUME MainInit PROVE MainInv
    OBVIOUS
  <1>1. splitting = FALSE /\ typed = <<>> /\ read = <<>> /\ temp = Blank /\ cell = <<0, 0>>
    BY DEF MainInit
  <1>2. read \in Seq(Seq(Characters)) /\ Len(read) = 0 /\ Len(typed) = 0
    BY <1>1, SMT
  <1>3. cell \in Nat \X (0 .. ServosCount - 1)
    BY <1>1, GotoMainAssumption, SMT DEF GotoMainAssumption
  <1>4. temp \in [1 .. 6 -> Characters \cup {Nul}]
    BY <1>1 DEF Blank
  <1>5. ReadAsTyped
    BY <1>2, SMT DEF ReadAsTyped
  <1>6. Len(read) =< Len(typed)
    BY <1>2, SMT
  <1> QED
    BY <1>1, <1>2, <1>3, <1>4, <1>5, <1>6 DEF MainInv, MainTyped, InLoop

LEMMA ReadAngleInv ==
    ASSUME MainInv, ReadAngle
    PROVE  MainInv'
  <1> DEFINE N == Len(read)
             text == typed[N + 1]
             buffer == Filled(temp, text)
  <1>1. /\ typed \in Typed /\ N < Len(typed) /\ N \in Nat /\ splitting
        /\ read \in Seq(Seq(Characters)) /\ temp \in [1 .. 6 -> Characters \cup {Nul}]
        /\ cell \in Nat \X (0 .. ServosCount - 1)
        /\ Wiped(temp) /\ ((\A j \in 1 .. N : Len(typed[j]) =< 5) => temp[6] = Nul)
        /\ cell[1] * ServosCount + cell[2] = N
    <2>1. splitting /\ read \in Seq(Seq(Characters))
      BY DEF ReadAngle, MainInv, MainTyped
    <2>2. N \in Nat
      BY <2>1, SMT
    <2> QED
      BY <2>1, <2>2 DEF MainInv, MainTyped, InLoop
  <1>2. Len(typed) \in Nat
    <2>1. typed \in Seq(Seq(Characters))
      BY <1>1, GotoMainAssumption DEF GotoMainAssumption
    <2> QED
      BY <2>1, SMT
  <1>3. N + 1 \in 1 .. Len(typed)
    BY <1>1, <1>2, SMT
  <1>4. text \in Seq(Characters) /\ Len(text) \in 1 .. 6
    BY <1>1, <1>3, ArgumentType
  <1>5. PICK beyond \in Beyond :
            /\ read' = Append(read, Found(buffer, beyond))
            /\ \/ /\ N + 1 # Len(typed) /\ splitting' = splitting
                  /\ temp' = Cleared(buffer) /\ cell' = NextCell(cell)
               \/ splitting' = FALSE /\ temp' = Blank /\ cell' = <<0, 0>>
    BY DEF ReadAngle, Leave
  <1>6. typed' = typed
    BY DEF ReadAngle
  <1>7. buffer \in [1 .. 6 -> Characters \cup {Nul}]
    BY <1>1, <1>4, FilledType
  <1>8. /\ Len(read') = N + 1 /\ read' \in Seq(Seq(Characters))
        /\ read'[N + 1] = Found(buffer, beyond) /\ \A k \in 1 .. N : read'[k] = read[k]
    <2>1. Found(buffer, beyond) \in Seq(Characters)
      BY <1>7, FoundType
    <2> HIDE DEF Characters, buffer
    <2> QED
      BY <1>1, <1>5, <2>1, SMT
  <1>9. \A k \in 1 .. N + 1 : k \in 1 .. N \/ k = N + 1
    BY <1>1, SMT
  <1>10. (\A j \in 1 .. N + 1 : Len(typed[j]) =< 5) => Len(text) =< 5 /\ temp[6] = Nul
    <2>1. N + 1 \in 1 .. N + 1 /\ \A j \in 1 .. N : j \in 1 .. N + 1
      BY <1>1, SMT
    <2> QED
      BY <1>1, <2>1
  <1>11. ReadAsTyped'
    <2> SUFFICES ASSUME NEW k \in 1 .. N + 1
                 PROVE  /\ Len(typed[k]) =< Len(read'[k])
                        /\ \A n \in 1 .. Len(typed[k]) : read'[k][n] = typed[k][n]
                        /\ Len(typed[k]) =< 4 \/ (\A j \in 1 .. k : Len(typed[j]) =< 5)
                              => read'[k] = typed[k]
      BY <1>6, <1>8 DEF ReadAsTyped
    <2>1. CASE k = N + 1
      <3>1. /\ Len(text) =< Len(Found(buffer, beyond))
            /\ \A n \in 1 .. Len(text) : Found(buffer, beyond)[n] = text[n]
        BY <1>1, <1>4, WipedIsBegun
      <3>2. Len(text) =< 4 \/ (\A j \in 1 .. k : Len(typed[j]) =< 5)
                => Found(buffer, beyond) = text
        <4> SUFFICES ASSUME Len(text) =< 4 \/ (\A j \in 1 .. N + 1 : Len(typed[j]) =< 5)
                     PROVE  Found(buffer, beyond) = text
          BY <2>1
        <4>1. Len(text) \in 1 .. 5 /\ (Len(text) =< 4 \/ temp[6] = Nul)
          <5>1. \A m \in 1 .. 6 : m =< 4 \/ m =< 5 => m \in 1 .. 5
            BY SMT
          <5> QED
            BY <1>4, <1>10, <5>1
        <4> QED
          BY <1>1, <1>4, <4>1, WipedIsEnough
      <3> QED
        BY <1>8, <2>1, <3>1, <3>2
    <2>2. CASE k \in 1 .. N
      BY <1>8, <2>2 DEF MainInv, ReadAsTyped
    <2> QED
      BY <1>9, <2>1, <2>2
  <1>14. Wiped(Cleared(buffer)) /\
         ((\A j \in 1 .. N + 1 : Len(typed[j]) =< 5) => Cleared(buffer)[6] = Nul)
    <2>1. Len(text) =< 5 => buffer[6] = temp[6]
      BY <1>1, <1>4, FilledBytes
    <2> QED
      BY <1>10, <2>1, ClearedWipes
  <1>12. CASE /\ N + 1 # Len(typed) /\ splitting' = splitting
              /\ temp' = Cleared(buffer) /\ cell' = NextCell(cell)
    <2>1. temp' \in [1 .. 6 -> Characters \cup {Nul}]
      BY <1>4, <1>7, <1>12, FilledType
    <2>2. cell' \in Nat \X (0 .. ServosCount - 1) /\ cell'[1] * ServosCount + cell'[2] = N + 1
      BY <1>1, <1>12, NextCellCounts
    <2>3. Len(read') < Len(typed) /\ Len(read') =< Len(typed)
      BY <1>1, <1>2, <1>8, <1>12, SMT
    <2>4. MainTyped'
      BY <1>1, <1>6, <1>8, <1>12, <2>1, <2>2, <2>3 DEF MainTyped
    <2>5. InLoop'
      BY <1>1, <1>6, <1>8, <1>12, <1>14, <2>2, <2>3 DEF InLoop, Wiped
    <2> QED
      BY <1>11, <2>4, <2>5 DEF MainInv
  <1>13. CASE splitting' = FALSE /\ temp' = Blank /\ cell' = <<0, 0>>
    <2>1. temp' \in [1 .. 6 -> Characters \cup {Nul}]
      BY <1>13 DEF Blank
    <2>2. cell' \in Nat \X (0 .. ServosCount - 1)
      BY <1>13, GotoMainAssumption, SMT DEF GotoMainAssumption
    <2>3. Len(read') =< Len(typed)
      BY <1>1, <1>2, <1>8, SMT
    <2>4. MainTyped' /\ InLoop'
      BY <1>1, <1>6, <1>8, <1>13, <2>1, <2>2, <2>3 DEF MainTyped, InLoop, Blank
    <2> QED
      BY <1>11, <2>4 DEF MainInv
  <1> QED
    BY <1>5, <1>12, <1>13

LEMMA MainStep == MainInv /\ [MainNext]_<<sessionVars, mainVars>> => MainInv'
  <1> SUFFICES ASSUME MainInv, [MainNext]_<<sessionVars, mainVars>> PROVE MainInv'
    OBVIOUS
  <1>1. CASE UNCHANGED mainVars
    BY <1>1 DEF mainVars, MainInv, MainTyped, InLoop, ReadAsTyped, Blank, Wiped
  <1>2. CASE Split
    <2>1. /\ typed' \in Typed /\ splitting' = TRUE /\ read' = <<>> /\ temp' = temp /\ cell' = cell
          /\ temp = Blank /\ cell = <<0, 0>>
      BY <1>2 DEF Split, MainInv, InLoop
    <2>2. read' \in Seq(Seq(Characters)) /\ Len(read') = 0
      BY <2>1, SMT
    <2>3. Len(typed') \in Nat /\ Len(typed') > 0
      <3>1. typed' \in Seq(Seq(Characters)) /\ Len(typed') > 0
        BY <2>1, GotoMainAssumption DEF GotoMainAssumption
      <3> QED
        BY <3>1, SMT
    <2>4. cell'[1] * ServosCount + cell'[2] = 0
      BY <2>1, GotoMainAssumption, SMT DEF GotoMainAssumption
    <2>5. MainTyped' /\ InLoop'
      BY <2>1, <2>2, <2>3, <2>4, BlankIsWiped, SMT DEF MainInv, MainTyped, InLoop
    <2>6. ReadAsTyped'
      BY <2>2, SMT DEF ReadAsTyped
    <2> QED
      BY <2>5, <2>6 DEF MainInv
  <1>3. CASE Leave /\ typed' = <<>> /\ read' = <<>>
    <2>1. splitting' = FALSE /\ temp' = Blank /\ cell' = <<0, 0>>
      BY <1>3 DEF Leave
    <2>2. read' \in Seq(Seq(Characters)) /\ Len(read') = 0 /\ Len(typed') = 0
      BY <1>3, SMT
    <2>3. temp' \in [1 .. 6 -> Characters \cup {Nul}]
      BY <2>1 DEF Blank
    <2>4. cell' \in Nat \X (0 .. ServosCount - 1)
      BY <2>1, GotoMainAssumption, SMT DEF GotoMainAssumption
    <2>0. Len(read') =< Len(typed')
      BY <2>2, SMT
    <2>5. MainTyped' /\ InLoop'
      BY <1>3, <2>0, <2>1, <2>2, <2>3, <2>4 DEF MainTyped, InLoop, Blank
    <2>6. ReadAsTyped'
      BY <2>2, SMT DEF ReadAsTyped
    <2> QED
      BY <2>5, <2>6 DEF MainInv
  <1> QED
    BY <1>1, <1>2, <1>3, ReadAngleInv DEF MainNext, TooFew, Others

\* Every angle leaves goto's buffer and its place as the next one needs them
\* (goto.cpp:211-233).
THEOREM MainInvHolds == MainSpec => []MainInv
  BY MainInitInv, MainStep, PTL DEF MainSpec

\* What is read for an angle begins with it, and is no more than it, for up to
\* four characters always, for five until an angle of six has been read
\* (goto.cpp:206-225).
THEOREM AnglesReadAsTyped == MainSpec => []ReadAsTyped
  BY MainInvHolds, PTL DEF MainInv

\* Row by row is the division by the number of joints.
LEMMA CellOfCount ==
    ASSUME NEW z \in Nat, NEW y \in 0 .. ServosCount - 1
    PROVE  /\ (z * ServosCount + y) \div ServosCount = z
           /\ (z * ServosCount + y) % ServosCount = y
  <1>1. ServosCount \in Nat /\ ServosCount > 0
    BY GotoMainAssumption DEF GotoMainAssumption
  <1> DEFINE n == z * ServosCount + y
             q == n \div ServosCount
             r == n % ServosCount
  <1>2. n \in Nat
    BY <1>1, SMT
  <1>3. q \in Nat /\ r \in 0 .. ServosCount - 1 /\ n = q * ServosCount + r
    <2> HIDE DEF n
    <2> QED
      BY <1>1, <1>2, SMT
  <1> HIDE DEF q, r
  <1>4. z * ServosCount + y = q * ServosCount + r
    BY <1>3
  <1>5. q = z
    <2>1. CASE q < z
      <3>1. (q + 1) * ServosCount =< z * ServosCount
        BY <1>1, <1>3, <2>1, SMT
      <3>2. (q + 1) * ServosCount = q * ServosCount + ServosCount
        BY <1>1, <1>3, SMT
      <3> QED
        BY <1>1, <1>3, <1>4, <3>1, <3>2, SMT
    <2>2. CASE z < q
      <3>1. (z + 1) * ServosCount =< q * ServosCount
        BY <1>1, <1>3, <2>2, SMT
      <3>2. (z + 1) * ServosCount = z * ServosCount + ServosCount
        BY <1>1, SMT
      <3> QED
        BY <1>1, <1>3, <1>4, <3>1, <3>2, SMT
    <2> QED
      BY <1>3, <2>1, <2>2, SMT
  <1>6. r = y
    BY <1>1, <1>3, <1>4, <1>5, SMT
  <1> QED
    BY <1>5, <1>6 DEF q, r

\* Angle after angle goes into the next cell of the waypoints, row by row, the
\* ones beyond the last whole waypoint included (goto.cpp:204-234).
THEOREM WaypointsFilled == MainSpec => []CellsInOrder
  <1>1. MainInv => CellsInOrder
    <2> SUFFICES ASSUME MainInv, splitting
                 PROVE  cell = <<Len(read) \div ServosCount, Len(read) % ServosCount>>
      BY DEF CellsInOrder
    <2>1. PICK z \in Nat, y \in 0 .. ServosCount - 1 : cell = <<z, y>>
      BY DEF MainInv, MainTyped
    <2>2. z * ServosCount + y = Len(read)
      BY <2>1 DEF MainInv, InLoop
    <2> QED
      BY <2>1, <2>2, CellOfCount
  <1> QED
    BY <1>1, MainInvHolds, PTL
===============================================================================
