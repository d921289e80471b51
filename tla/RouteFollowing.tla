--------------------------- MODULE RouteFollowing ---------------------------
(***************************************************************************)
(* A routed vehicle on a network whose route tables are rebuilt under it   *)
(* (engine/routing.go, engine/mobil.go): RouteTable with the lateral half  *)
(* of route following.  The depth of a lane is the number of lane changes  *)
(* a vehicle on it still needs before it can drive to the destination.     *)
(* The depths are found once, by a layered search backwards from the       *)
(* destination: first everything that can drive into the layer joins it,   *)
(* then the neighbours of the layer begin the next one.                    *)
(*                                                                         *)
(* The vehicle crosses into the successor the served table or a held turn  *)
(* picks, makes the hops the guardrail lets through, and is steered back   *)
(* down the depths when it is off its route, while epochs put other tables *)
(* under it.  A table is rebuilt within the lookup that finds it stale, so *)
(* the vehicle moves by served tables only.  The gate that decides whether *)
(* a hop is safe in traffic is open or shut as it likes.                   *)
(***************************************************************************)
EXTENDS RouteTable

CONSTANTS
    Beside(_),     \* network -> lane -> its lateral neighbours
    ExitLanes(_)   \* network -> the lanes whose end leaves the network

\* Lateral links are mutual at every construction site.
ASSUME BesideAssumption ==
    \A n \in RouteNets :
        /\ Beside(n) \in [Lane -> SUBSET Lane] /\ ExitLanes(n) \subseteq Lane
        /\ \A i, j \in Lane : j \in Beside(n)[i] <=> i \in Beside(n)[j]

VARIABLES
    stage,    \* "drive" or "side" while the depths are searched, then "done"
    depth,    \* the depths found; a lane not in the domain has depth -1
    d,        \* the depth of the current layer
    layer,    \* the lanes of the layer
    open,     \* those not expanded yet
    sown,     \* lanes of the next layer
    pos,      \* the vehicle's lane, OffRoad when it is not on the network
    move      \* how it got there

depthVars == <<stage, depth, d, layer, open, sown>>
routingVars == <<vars, depthVars, pos, move>>

OffRoad == 0

Unseen == Lane \ DOMAIN depth

-----------------------------------------------------------------------------
(* The depth search. *)

\* Everything that can drive into u is at u's depth, and in the layer.
Drive(u) ==
    /\ stage = "drive" /\ u \in open
    /\ LET found == {p \in Unseen : u \in net.succ[p]} IN
           /\ depth' = Setting(depth, found, d)
           /\ layer' = layer \cup found
           /\ open' = (open \ {u}) \cup found
    /\ UNCHANGED <<vars, stage, d, sown, pos, move>>

\* The layer is closed: it is walked again for its neighbours.
Turn ==
    /\ stage = "drive" /\ open = {}
    /\ stage' = "side"
    /\ open' = layer
    /\ UNCHANGED <<vars, depth, d, layer, sown, pos, move>>

\* The neighbours of u given the depth of its own layer.
SideAtSameDepth(u) ==
    /\ stage = "side" /\ u \in open
    /\ LET found == Beside(net)[u] \cap Unseen IN
           /\ depth' = Setting(depth, found, d)
           /\ sown' = sown \cup found
    /\ open' = open \ {u}
    /\ UNCHANGED <<vars, stage, d, layer, pos, move>>

\* The neighbours of u are one lane change further out.
Side(u) ==
    /\ stage = "side" /\ u \in open
    /\ LET found == Beside(net)[u] \cap Unseen IN
           /\ depth' = Setting(depth, found, d + 1)
           /\ sown' = sown \cup found
    /\ open' = open \ {u}
    /\ UNCHANGED <<vars, stage, d, layer, pos, move>>

NextLayer ==
    /\ stage = "side" /\ open = {}
    /\ stage' = IF sown = {} THEN "done" ELSE "drive"
    /\ d' = d + 1
    /\ layer' = sown /\ open' = sown
    /\ sown' = {}
    /\ UNCHANGED <<vars, depth, pos, move>>

-----------------------------------------------------------------------------
(* The vehicle. *)

\* The code's depth, with -1 for "unreachable at any depth".
LatDist(i) == IF i \in DOMAIN depth THEN depth[i] ELSE -1

\* routeNextHop: the served table's hop; none on the destination itself.
RouteHops(i) == IF i \in DOMAIN mixed THEN {mixed[i]} ELSE {}

Enter(i, how) ==
    /\ stage = "done" /\ pc = "served"
    /\ pos' = i
    /\ move' = how
    /\ UNCHANGED <<vars, depthVars>>

\* The vehicle enters the world with its route, on any lane.
Spawn(i) == pos = OffRoad /\ Enter(i, "spawn")

\* boundaries: an exit lane's end and the route's end take the vehicle away.
Leave ==
    /\ pos # OffRoad
    /\ pos \in ExitLanes(net) \cup {dest}
    /\ Enter(OffRoad, "leave")

\* pickSuccessor: the table's choice; when the table has none, the lane's first
\* successor, for which any successor stands.
Cross(u) ==
    /\ pos # OffRoad /\ pos \notin ExitLanes(net) \cup {dest}
    /\ u \in net.succ[pos]
    /\ RouteHops(pos) # {} => u \in RouteHops(pos)
    /\ Enter(u, "cross")

\* pickSuccessor: a held turn, to the lane's first successor or to its last, wins
\* over the route.
HeldTurn(u) ==
    /\ pos # OffRoad /\ pos \notin ExitLanes(net) \cup {dest}
    /\ u \in net.succ[pos]
    /\ Enter(u, "turn")

\* The guardrail as it first was: only leaving depth 0 is denied.
HopLeavesNoRoute(i, j) == LatDist(i) = 0 => LatDist(j) = 0

\* routeHopOK: not further from the route, anything when there is none.
RouteHopOK(i, j) == LatDist(i) < 0 \/ (LatDist(j) >= 0 /\ LatDist(j) <= LatDist(i))

\* A hop a controller or MOBIL asked for.
Hop(j) ==
    /\ pos # OffRoad
    /\ j \in Beside(net)[pos]
    /\ RouteHopOK(pos, j)
    /\ Enter(j, "hop")

\* tryRouteRecovery: the neighbour with the smallest depth, the lower lane on a
\* tie, provided it is nearer than this lane.
Recover(j) ==
    /\ pos # OffRoad
    /\ j \in Beside(net)[pos]
    /\ LatDist(pos) > 0
    /\ LatDist(j) >= 0 /\ LatDist(j) < LatDist(pos)
    /\ \A k \in Beside(net)[pos] :
           LatDist(k) >= 0 => LatDist(j) < LatDist(k) \/ (LatDist(j) = LatDist(k) /\ j <= k)
    /\ Enter(j, "recover")

-----------------------------------------------------------------------------
RoutingInit ==
    /\ Init
    /\ stage = "drive"
    /\ depth = [i \in {dest} |-> 0]
    /\ d = 0
    /\ layer = {dest} /\ open = {dest} /\ sown = {}
    /\ pos = OffRoad /\ move = "none"

\* The depths of a destination are found before the first table towards it is:
\* neither search reads what the other writes.
RoutingNext ==
    \/ stage = "done" /\ Next /\ UNCHANGED <<depthVars, pos, move>>
    \/ Turn
    \/ NextLayer
    \/ Leave
    \/ \E u \in Lane :
           \/ Drive(u)
           \/ Side(u)
           \/ Spawn(u)
           \/ Cross(u)
           \/ HeldTurn(u)
           \/ Hop(u)
           \/ Recover(u)

RoutingSpec == RoutingInit /\ [][RoutingNext]_routingVars

-----------------------------------------------------------------------------
(* What the depths promise, and what the guardrail makes of them. *)

\* The lanes of the same depth a vehicle on i can drive to.
AtDepthAhead(i) ==
    {j \in DOMAIN depth : \A S \in SUBSET DOMAIN depth :
        i \in S /\ (\A x \in S : \A u \in net.succ[x] :
                      (u \in DOMAIN depth /\ depth[u] = depth[i]) => u \in S) => j \in S}

\* routeLatDist, "a gradient walks it across one lane per hop": when the search
\* ends, depth 0 is exactly the lanes with a way to the destination, and from a
\* lane of depth k there is a drive at that depth to a lane with a neighbour at
\* k - 1, or to the destination when k is 0.
GradientLeadsHome ==
    (stage = "done" /\ pc = "fresh" /\ done = {}) =>
        /\ {i \in Lane : LatDist(i) = 0} = CanReach
        /\ \A i \in DOMAIN depth : \E j \in AtDepthAhead(i) :
               \/ j = dest
               \/ \E k \in Beside(net)[j] : k \in DOMAIN depth /\ depth[k] = depth[i] - 1

\* ADR-0021's guardrail, over every table an epoch puts under the vehicle: without
\* a held turn a vehicle on its route stays on it whatever move it makes, a lane
\* change never takes one off its route further from it, and a recovery hop takes
\* it exactly one layer nearer.  (Off its route a crossing takes whatever successor
\* comes first, nearer or further.)
StaysOnRoute ==
    [][pos # OffRoad /\ pos' # OffRoad /\ LatDist(pos) >= 0 =>
        /\ LatDist(pos) = 0 /\ move' # "turn" => LatDist(pos') = 0
        /\ move' = "hop" => LatDist(pos') \in 0..LatDist(pos)
        /\ move' = "recover" /\ pos' # pos => LatDist(pos') = LatDist(pos) - 1]_routingVars
=============================================================================
