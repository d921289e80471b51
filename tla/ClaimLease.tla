----------------------------- MODULE ClaimLease -----------------------------
(***************************************************************************)
(* What the claim registry of the controller contract promises (ADR-0008   *)
(* section 4, "exclusive per-vehicle claim, engine-arbitrated"): a vehicle *)
(* has at most one owner, an owner is attached, ownership never passes     *)
(* from one controller to another without being given up first, and a      *)
(* controller that has left never comes back under the same identity.      *)
(***************************************************************************)
CONSTANTS Vehicle, Controller, nobody

VARIABLES
  owner,    \* [Vehicle -> Controller, or nobody]
  attached, \* the controllers that may own
  retired   \* those that have left

vars == <<owner, attached, retired>>

Free(V) == \A v \in V : owner[v] = nobody

Init ==
  /\ owner = [v \in Vehicle |-> nobody]
  /\ attached = {}
  /\ retired = {}

\* A new controller joins, taking any free vehicles.
Attach(c, V) ==
  /\ c \notin attached \union retired
  /\ Free(V)
  /\ attached' = attached \union {c}
  /\ owner' = [v \in Vehicle |-> IF v \in V THEN c ELSE owner[v]]
  /\ UNCHANGED retired

\* An attached controller takes free vehicles.
Take(c, V) ==
  /\ c \in attached
  /\ Free(V)
  /\ owner' = [v \in Vehicle |-> IF v \in V THEN c ELSE owner[v]]
  /\ UNCHANGED <<attached, retired>>

\* Vehicles become free: given up, or gone.
Yield(V) ==
  /\ owner' = [v \in Vehicle |-> IF v \in V THEN nobody ELSE owner[v]]
  /\ UNCHANGED <<attached, retired>>

\* Controllers leave, and all they own becomes free in the same step.
Leave(C) ==
  /\ attached' = attached \ C
  /\ retired' = retired \union C
  /\ owner' = [v \in Vehicle |-> IF owner[v] \in C THEN nobody ELSE owner[v]]

Next ==
  \/ \E c \in Controller, V \in SUBSET Vehicle : Attach(c, V) \/ Take(c, V)
  \/ \E V \in SUBSET Vehicle : Yield(V)
  \/ \E C \in SUBSET attached : Leave(C)

Spec == Init /\ [][Next]_vars
=============================================================================
