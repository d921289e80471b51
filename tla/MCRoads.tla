------------------------------ MODULE MCRoads -------------------------------
(***************************************************************************)
(* The roads as the kernel and the router see them: vehicles that meet at  *)
(* junctions, and a vehicle that follows its route tables.  The two models *)
(* share no state, so a run checks them side by side: a behaviour is a     *)
(* behaviour of one of them, the other at an initial state.                *)
(***************************************************************************)
EXTENDS MCJunction, MCRouting

VARIABLE part

RoadsInit ==
  /\ part \in {"junctions", "routes"}
  /\ KernelInit /\ RoutingInit
  /\ part = "junctions" => net = Loop /\ dest = 6 /\ now = Loop.free
  /\ part = "routes" => road = Funnel /\ \A o \in DOMAIN until : until[o] = 1

RoadsNext ==
  /\ UNCHANGED part
  /\ \/ part = "junctions" /\ KernelNext /\ UNCHANGED routingVars
     \/ part = "routes" /\ RoutingNext /\ UNCHANGED kernelVars

\* The fairness of KernelSpec: a behaviour of the routes alone never moves the
\* kernel's clock, so it is not a fair one, and nothing is promised of its end.
RoadsSpec ==
  RoadsInit /\ [][RoadsNext]_<<part, kernelVars, routingVars>> /\ WF_clock(Passes)
=============================================================================
