----------------------------- MODULE MCContract -----------------------------
(***************************************************************************)
(* Small fleets for Contract: a driver of each cadence, an idle driver     *)
(* with director rights, a signal controller, and two handshakes that are  *)
(* refused (no capacity, cadence at the silence budget).                   *)
(***************************************************************************)
EXTENDS Contract, TLC

CONSTANTS v1, v2

TwoVehicles == {v1, v2}
VehicleSymmetry == Permutations(TwoVehicles)

Hello(grants, cadence, capacity) ==
  [grants |-> grants, cadence |-> cadence, capacity |-> capacity]

Driver   == Hello({"drive"}, 1, 1)
SlowDriver == Hello({"drive"}, 2, 1)
Refused  == {Hello({"drive"}, 1, 0), Hello({"drive"}, DetachAfter, 1)}

Mixed == {Driver, SlowDriver, Hello({"drive", "director"}, 0, 1), Hello({"signal"}, 0, 0)} \union Refused
=============================================================================
