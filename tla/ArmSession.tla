------------------------------ MODULE ArmSession ------------------------------
(***************************************************************************)
(* The arm as vibrate, gotohome and goto share it.  A program opens a      *)
(* session over TCP and one over UDP, puts the arm into low level servoing *)
(* and streams commands as datagrams; destroy_API closes the first session *)
(* only.  Nothing keeps an operator from running two programs on one arm,  *)
(* or from stopping one anywhere.                                          *)
(***************************************************************************)
EXTENDS Naturals

CONSTANTS
    Programs,  \* processes the operator may run, each several times
    Streams,   \* those of vibrate and gotohome: goto faults before a command
    MaxRuns    \* bound: runs of each

ASSUME ArmSessionAssumption == Streams \subseteq Programs /\ MaxRuns \in Nat

VARIABLES
    at,        \* of each program: "off", or the next call of main
    runs,      \* of each program
    sessions,  \* external: open at the arm
    mode,      \* external: the servoing mode of the arm
    wire       \* external: programs whose commands are under way

sessionVars == <<at, runs, sessions, mode, wire>>

Sessions == [program : Programs, run : 1 .. MaxRuns, link : {"tcp", "rt"}]

\* The session a run of a program creates.  The mutant gives it to the run
\* after that.
OwnLater(p, link) == [program |-> p, run |-> runs[p] + 1, link |-> link]
Own(p, link) == [program |-> p, run |-> runs[p], link |-> link]

\* Its program has ended without closing it.
Orphan(s) == at[s.program] = "off" \/ runs[s.program] # s.run

\* What destroy_API makes of the arm's mode.  The mutant puts it back.
ModeRestored == "single"
ModeLeft == mode

\* session_manager->CloseSession().  The mutant closes whatever is open.
AllClosed(p) == {}
Closed(p) == sessions \ {Own(p, "tcp")}

-------------------------------------------------------------------------------
Init ==
    /\ at = [p \in Programs |-> "off"]
    /\ runs = [p \in Programs |-> 0]
    /\ sessions = {} /\ mode \in {"single", "low"} /\ wire = {}

Goes(p, from, to) == at[p] = from /\ at' = [at EXCEPT ![p] = to]

Main(p) ==
    /\ Goes(p, "off", "create") /\ runs[p] < MaxRuns
    /\ runs' = [runs EXCEPT ![p] = @ + 1]
    /\ UNCHANGED <<sessions, mode, wire>>

Create(p) ==
    /\ Goes(p, "create", "createRT")
    /\ sessions' = sessions \cup {Own(p, "tcp")}
    /\ UNCHANGED <<runs, mode, wire>>

CreateRT(p) ==
    /\ Goes(p, "createRT", "prepare")
    /\ sessions' = sessions \cup {Own(p, "rt")}
    /\ UNCHANGED <<runs, mode, wire>>

Prepare(p) ==
    /\ Goes(p, "prepare", "sleep")
    /\ mode' = "low"
    /\ UNCHANGED <<runs, sessions, wire>>

\* The 500 ms, and the calls that ask for the feedback and the joint count.
Wake(p) == Goes(p, "sleep", "work") /\ UNCHANGED <<runs, sessions, mode, wire>>

Refresh_async(p) ==
    /\ at[p] = "work"
    /\ wire' = wire \cup {p}
    /\ UNCHANGED <<at, runs, sessions, mode>>

Destroy_API(p) ==
    /\ Goes(p, "work", "off")
    /\ sessions' = Closed(p) /\ mode' = ModeLeft
    /\ UNCHANGED <<runs, wire>>

\* A call that throws, and nobody catches; a signal, SIGFPE among them; the
\* operator.
Die(p) ==
    /\ at[p] # "off" /\ Goes(p, at[p], "off")
    /\ UNCHANGED <<runs, sessions, mode, wire>>

\* A command arrives, and may arrive again, or is lost.
Deliver(p) == p \in wire /\ wire' \in {wire, wire \ {p}} /\ UNCHANGED <<at, runs, sessions, mode>>

\* set_session_inactivity_timeout.
Expire(s) ==
    /\ s \in sessions /\ Orphan(s)
    /\ sessions' = sessions \ {s}
    /\ UNCHANGED <<at, runs, mode, wire>>

Arm == (\E p \in wire : Deliver(p)) \/ (\E s \in sessions : Expire(s))

Begin(p) == Main(p) \/ Create(p) \/ CreateRT(p) \/ Prepare(p) \/ Wake(p)

Stream(p) == Refresh_async(p) \/ Destroy_API(p)

Operate == \E p \in Programs : Begin(p) \/ Die(p) \/ (p \in Streams /\ Stream(p))

Next == Arm \/ Operate \/ \E p \in Programs \ Streams : Destroy_API(p)

Spec == Init /\ [][Next]_sessionVars

-------------------------------------------------------------------------------
TypeOK ==
    /\ at \in [Programs -> {"off", "create", "createRT", "prepare", "sleep", "work"}]
    /\ runs \in [Programs -> 0 .. MaxRuns]
    /\ \A p \in Programs : at[p] # "off" => runs[p] > 0
    /\ sessions \subseteq Sessions
    /\ mode \in {"single", "low"}
    /\ wire \subseteq Streams

\* Every command the arm gets, however late, and from a program that may have
\* died or ended meanwhile, finds it in low level servoing, whatever the other
\* programs do (vibrate.cpp:73-79, 119, 133-148).
CommandsFindLowLevel == wire # {} => mode = "low"

\* A program that streams has both its sessions, whatever other programs close
\* on their way out (vibrate.cpp:133-136).
SessionsKept ==
    \A p \in Programs :
        at[p] = "work" => Own(p, "tcp") \in sessions /\ Own(p, "rt") \in sessions
===============================================================================
