--------------------------- MODULE SignalProgram ---------------------------
(***************************************************************************)
(* The fixed-time signal programs of engine/signal.go, compiled onto the   *)
(* tick grid.  A program is data: phases cycled for ever, each showing one *)
(* light per controlled link.  The phase in force is a pure function of    *)
(* the tick; the commanded overrides of SignalOverride are laid over it.   *)
(***************************************************************************)
EXTENDS Naturals, Sequences

CONSTANTS
  Program,      \* the signal programs of the network
  Link,         \* the controlled links of a program
  PhaseOnset,   \* [Program -> Seq(Nat)]: onset of each phase in the cycle, then the cycle
  OffsetTicks,  \* [Program -> Nat]: the program's phase 0 begins at this tick
  Clearance,    \* [Program -> Nat]: the red-clearance window in ticks
  Light         \* [Program -> [phase -> [Link -> SigState]]]: the state strings

SigState == {"off", "green", "amber", "red"}

\* Phases are numbered from 0, as in the code.
Phases(p) == 0 .. (Len(PhaseOnset[p]) - 2)
Cycle(p)  == PhaseOnset[p][Len(PhaseOnset[p])]

\* compileTicks refuses a phase that rounds to zero ticks, so the onsets
\* increase strictly and the cycle is positive; newSignalProgram refuses a
\* program without phases.
ASSUME ProgramAssumption ==
  /\ PhaseOnset \in [Program -> Seq(Nat)]
  /\ \A p \in Program :
       /\ Len(PhaseOnset[p]) >= 2
       /\ PhaseOnset[p][1] = 0
       /\ \A i \in 1 .. (Len(PhaseOnset[p]) - 1) :
            PhaseOnset[p][i] < PhaseOnset[p][i + 1]
       /\ Cycle(p) > 0
  /\ OffsetTicks \in [Program -> Nat]
  /\ Clearance \in [Program -> Nat]
  /\ \A p \in Program : \A i \in Phases(p) : Light[p][i] \in [Link -> SigState]

(***************************************************************************)
(* phaseAtElapsed: the fixed-time phase at a tick and how many ticks ago   *)
(* it began.  Before OffsetTicks the cycle wraps.  The last branch is the  *)
(* code's own unreachable one, kept so that the operator is total.         *)
(***************************************************************************)
InCycle(p, t) ==
  (((t % Cycle(p)) + Cycle(p)) - (OffsetTicks[p] % Cycle(p))) % Cycle(p)

PhaseAtElapsed(p, t) ==
  LET x == InCycle(p, t)
      here == {i \in Phases(p) : PhaseOnset[p][i + 1] <= x /\ x < PhaseOnset[p][i + 2]}
  IN  IF here # {}
      THEN LET i == CHOOSE i \in here : TRUE
           IN  [phase |-> i, elapsed |-> x - PhaseOnset[p][i + 1]]
      ELSE [phase |-> Len(PhaseOnset[p]) - 2, elapsed |-> 0]

FixedPhase(p, t) == PhaseAtElapsed(p, t).phase
=============================================================================
