------------------------------- MODULE MCLive -------------------------------
(***************************************************************************)
(* What must eventually happen around a live run: the run gets its ticks   *)
(* (Contract) and the calls of the demo server return (Supervisor).  The   *)
(* two share no state, so a run checks them side by side: a behaviour is a *)
(* behaviour of one of them, the other at its initial state.               *)
(***************************************************************************)
EXTENDS MCContract

CONSTANTS Start, Stop, Autostart, Replay, Final, Stray, none

VARIABLES
  part,   \* which of the two the behaviour is of
  mu, active, statusSnap, closed, stopEpoch, stopPending, child, done, reaper,
  at, epoch, epoch0, victim, then, landed, overCorpse

S == INSTANCE Supervisor WITH pc <- at

supervisorVars ==
  <<mu, active, statusSnap, closed, stopEpoch, stopPending, child, done, reaper,
    at, epoch, epoch0, victim, then, landed, overCorpse>>

LiveInit == part \in {"run", "calls"} /\ Init /\ S!Init

LiveNext ==
  /\ UNCHANGED part
  /\ \/ part = "run" /\ Next /\ UNCHANGED supervisorVars
     \/ part = "calls" /\ S!Next /\ UNCHANGED vars

\* Of a part that stays at its initial state nothing is asked: no call has
\* begun in the one, and in the other the loop is bound to the part.
LiveSpec ==
  /\ LiveInit /\ [][LiveNext]_<<part, vars, supervisorVars>>
  /\ WF_vars(part = "run" /\ RunLoop) /\ WF_vars(part = "run" /\ Dwell)
  /\ S!Fairness

\* The pause gate never wedges the run (Contract, RunEnds): with any clients,
\* none of which need ever act, the run gets all its ticks.
RunGetsItsTicks == part = "run" => RunEnds

\* A stop returns although a start may hold the mutex when it comes
\* (Supervisor, StopsReturn), with no help from a deadline, a port or a child.
EveryStopReturns == S!StopsReturn
=============================================================================
