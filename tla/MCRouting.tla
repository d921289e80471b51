----------------------------- MODULE MCRouting ------------------------------
(***************************************************************************)
(* Networks for RouteFollowing and RouteTable.  MCRouteNets have six lanes *)
(* each: every one has cycles, lanes with no way to some destinations, and *)
(* neighbours.                                                             *)
(***************************************************************************)
EXTENDS RouteFollowing

\* A diamond with a way back: from 1 by 3 or by 2 and 4, and from 2 back to 1.
\* Lane 6 is the exit, lane 5 a cul-de-sac beside 4.
Loop == [succ |-> <<{2, 3}, {1, 4, 5}, {6, 2}, {6}, {}, {}>>,
         free |-> <<1, 2, 3, 6, 1, 1>>]

\* Two rings that share lane 3.
Rings == [succ |-> <<{2, 5}, {3}, {1, 4}, {3, 6}, {4, 5}, {1}>>,
          free |-> <<2, 1, 2, 1, 6, 1>>]

\* A three-lane arterial 1, 2, 3 that goes on as 4, 5; lane 6 is the exit ramp
\* at its right.
Arterial == [succ |-> <<{4}, {5}, {6}, {}, {1, 2}, {}>>,
             free |-> <<1, 2, 1, 2, 1, 1>>]

\* Two carriageways of two lanes with a ramp between them, and an island.
Ramp == [succ |-> <<{3}, {4, 5}, {1}, {2}, {3}, {}>>,
         free |-> <<1, 2, 2, 1, 3, 1>>]

MCRouteNets == {Loop, Rings, Arterial, Ramp}

MCBeside(n) ==
    CASE n = Loop     -> <<{}, {3}, {2}, {5}, {4}, {}>>
      [] n = Arterial -> <<{2}, {1, 3}, {2}, {5}, {4}, {}>>
      [] n = Ramp     -> <<{2}, {1}, {4}, {3}, {}, {}>>
      [] OTHER        -> [i \in Lane |-> {}]

MCExits(n) == IF n \in {Loop, Arterial} THEN {6} ELSE {}

\* Every lane of the first two networks is free or jammed; the others never jam.
Congested == 9
MCEpochs(n) ==
    {[i \in Lane |-> IF i \in J THEN n.free[i] + Congested ELSE n.free[i]] :
        J \in IF n \in {Loop, Rings} THEN SUBSET Lane ELSE {{}}}

MCDests == Lane

\* Nine lanes on which a later splice lengthens the chain of an earlier one.
\* Lane 1 may go by 5 or 6, lane 2 by 5 or 7, lane 4 by 1 or 2, and lane 3 by 8
\* or 4; lane 9 is the exit.
Detour == [succ |-> <<{5, 6}, {5, 7}, {4, 8}, {1, 2}, {9}, {9}, {9}, {9}, {}>>,
           free |-> <<1, 2, 1, 15, 10, 20, 20, 20, 1>>]
DetourNets == {Detour}
DetourDests == {9}
DetourEpochs(n) == {<<36, 2, 1, 15, 100, 50, 75, 140, 1>>}
=============================================================================
