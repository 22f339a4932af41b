----------------------------- MODULE Gate0Clocks -----------------------------
(***************************************************************************)
(* What the processes of a Gate 0 ceremony share: two roles, and two       *)
(* clocks.  The monotonic clock only advances; the wall clock may also be  *)
(* stepped by an operator or NTP, in either direction.                     *)
(***************************************************************************)
EXTENDS Integers

CONSTANTS Life,     \* lifetime of the issuer process, in ticks (<= 300 s)
          MaxSteps  \* bound: how often the wall clock is stepped

ASSUME ClocksAssumption == Life \in Nat \ {0} /\ MaxSteps \in Nat

VARIABLES wall,     \* the wall clock
          mono,     \* the monotonic clock, 0 at start up
          stepped   \* how often the wall clock was stepped

clockVars == <<wall, mono, stepped>>

Roles == {"issuer", "attester"}
Least(a, b) == IF a < b THEN a ELSE b

\* The wall clock at start up, and the wall instant the process must end.
Started == 1
Expires == Started + Life

ClocksStart == wall = Started /\ mono = 0 /\ stepped = 0

\* A tick moves both clocks.
ClocksTick == /\ mono < Life + 1
              /\ mono' = mono + 1
              /\ wall' = wall + 1
              /\ UNCHANGED stepped

\* The wall clock is stepped by one tick either way.
ClockStep == /\ stepped < MaxSteps
             /\ \E d \in {-1, 1} : wall' = wall + d
             /\ stepped' = stepped + 1
             /\ UNCHANGED mono
=============================================================================
