----------------------------- MODULE RouteTable -----------------------------
(***************************************************************************)
(* Route tables under adaptive routing (engine/routing.go).  A table gives *)
(* each lane the next lane on the way to one destination.  Every epoch     *)
(* the table is rebuilt in three parts:                                    *)
(*                                                                         *)
(*  - a reverse Dijkstra over the frozen travel times, the fresh table;    *)
(*  - the same search over the free-flow times, the static table, which is *)
(*    searched for once and remembered;                                    *)
(*  - the splices: in lane order, a lane takes its fresh hop when the      *)
(*    mixed chain from it still arrives and beats its static chain by a    *)
(*    margin, and keeps its static hop otherwise.                          *)
(*                                                                         *)
(* A table is a function whose domain is the lanes that have a hop (the    *)
(* code's -1 is "not in the domain"); travel times are integers.  A walk   *)
(* of at most one hop per lane, as the code takes, arrives exactly when    *)
(* the destination is in every set of lanes that contains the first lane   *)
(* and is closed under the hops: RoadAhead says it that way, and needs no  *)
(* recursion.                                                              *)
(***************************************************************************)
EXTENDS Integers, FiniteSets, FiniteSetsExt

CONSTANTS
    NumLanes,      \* lanes are numbered in network order, from 1
    RouteNets,     \* networks: [succ |-> ..., free |-> ...]
    Dests,         \* the lanes somebody has routed a vehicle to
    Epochs(_),     \* the travel times an epoch may freeze on a network
    MarginFloor,   \* seconds a diversion must save at least (30)
    MarginShare    \* per cent of the static cost it must save (15)

Lane == 1..NumLanes

ASSUME LanesAssumption == NumLanes \in Nat \ {0} /\ Dests \subseteq Lane

\* Travel times are positive: no lane has length zero.
Times == [Lane -> Nat \ {0}]

ASSUME NetsAssumption ==
    /\ RouteNets \subseteq [succ : [Lane -> SUBSET Lane], free : Times]
    /\ \A n \in RouteNets : Epochs(n) \subseteq Times

ASSUME MarginAssumption == MarginFloor \in Nat /\ MarginShare \in Nat

VARIABLES
    net,      \* the network
    dest,     \* the destination the table is for
    now,      \* ttSnap: the travel times frozen at the last rollover
    pc,       \* "fresh", "static", "splice" or "served"
    hop, dist, done,   \* the search under way
    fresh,    \* the table over the frozen times
    static,   \* the table over the free-flow times, once memoized
    memoized, \* whether staticTabs has this destination
    mixed,    \* the table being spliced, then served
    cand      \* the lane whose candidate is judged next

vars == <<net, dest, now, pc, hop, dist, done, fresh, static, memoized, mixed, cand>>

NoHops == [i \in {} |-> i]

\* f with the value v at every element of S.
Setting(f, S, v) == [x \in S \cup DOMAIN f |-> IF x \in S THEN v ELSE f[x]]

\* A table's domain is the lanes that have a hop.
IsTable(table) == DOMAIN table \subseteq Lane /\ table \in [DOMAIN table -> Lane]

-----------------------------------------------------------------------------
(* Chains. *)

\* Driving on from a lane of S other than the destination stays in S.
Closed(S, table) ==
    \A i \in S \ {dest} : i \in DOMAIN table => table[i] \in S

\* The lanes a vehicle on lane i passes on its way, i and the destination
\* included.
RoadAhead(table, i) ==
    {j \in Lane : \A S \in SUBSET Lane : i \in S /\ Closed(S, table) => j \in S}

Arrives(table, i) == dest \in RoadAhead(table, i)

\* The frozen time of the chain from lane i: every lane entered after i.
ChainCost(table, i) == MapThenSumSet(LAMBDA j : now[j], RoadAhead(table, table[i]))

-----------------------------------------------------------------------------
(* The search. *)

Weight(u) == IF pc = "fresh" THEN now[u] ELSE net.free[u]

Frontier == DOMAIN dist \ done

\* The heap's order: the nearest lane, the lower index on a tie.
Nearest(u) ==
    /\ u \in Frontier
    /\ \A v \in Frontier : dist[u] < dist[v] \/ (dist[u] = dist[v] /\ u <= v)

\* The distance by way of u: entering a lane costs that lane's time.
Through(u) == dist[u] + Weight(u)

\* Only the predecessors no lane has touched yet.
FirstTouch(u) == {p \in Lane \ (done \cup {u}) : u \in net.succ[p] /\ p \notin DOMAIN dist}

\* The predecessors of u that are nearer by way of u.
Nearer(u) ==
    {p \in Lane \ (done \cup {u}) :
        /\ u \in net.succ[p]
        /\ p \in DOMAIN dist => Through(u) < dist[p]}

StartSearch ==
    /\ hop' = NoHops
    /\ dist' = [i \in {dest} |-> 0]
    /\ done' = {}

Pop(u) ==
    /\ pc \in {"fresh", "static"}
    /\ Nearest(u)
    /\ done' = done \cup {u}
    /\ dist' = Setting(dist, Nearer(u), Through(u))
    /\ hop' = Setting(hop, Nearer(u), u)
    /\ UNCHANGED <<net, dest, now, pc, fresh, static, memoized, mixed, cand>>

-----------------------------------------------------------------------------
(* The splices. *)

StartSplices(table) ==
    /\ pc' = "splice"
    /\ mixed' = table
    /\ cand' = 1

\* The fresh search is over: the static table comes from the memo, or from a
\* search of its own.
FreshReady ==
    /\ pc = "fresh"
    /\ Frontier = {}
    /\ fresh' = hop
    /\ IF memoized THEN StartSplices(static) /\ UNCHANGED <<hop, dist, done>>
                   ELSE pc' = "static" /\ StartSearch /\ UNCHANGED <<mixed, cand>>
    /\ UNCHANGED <<net, dest, now, static, memoized>>

StaticReady ==
    /\ pc = "static"
    /\ Frontier = {}
    /\ static' = hop
    /\ memoized' = TRUE
    /\ StartSplices(hop)
    /\ UNCHANGED <<net, dest, now, hop, dist, done, fresh>>

\* The mixed table with the candidate of lane i put in.
With(i) == Setting(mixed, {i}, fresh[i])

\* "Clearly better": below the old cost by more than the margin.
Clears(new, old) == 100 * new < 100 * old - Max({100 * MarginFloor, MarginShare * old})

IsCandidate(i) == i \in DOMAIN fresh /\ ~(i \in DOMAIN static /\ static[i] = fresh[i])

\* The candidate judged with lane i's old hop in place, and at the cost the
\* fresh search promises.
JudgedOnPaper(i) ==
    /\ Arrives(mixed, fresh[i])
    /\ i \in DOMAIN static => Clears(ChainCost(fresh, i), ChainCost(static, i))

\* The static chain's cost counts only when that chain arrives.
Accepted(i) ==
    /\ Arrives(With(i), fresh[i])
    /\ (i \in DOMAIN static /\ Arrives(static, static[i])) =>
           Clears(ChainCost(With(i), i), ChainCost(static, i))

Splice ==
    /\ pc = "splice"
    /\ cand \in Lane
    /\ IsCandidate(cand) /\ Accepted(cand)
    /\ mixed' = With(cand)
    /\ cand' = cand + 1
    /\ UNCHANGED <<net, dest, now, pc, hop, dist, done, fresh, static, memoized>>

Keep ==
    /\ pc = "splice"
    /\ cand \in Lane
    /\ ~(IsCandidate(cand) /\ Accepted(cand))
    /\ cand' = cand + 1
    /\ UNCHANGED <<net, dest, now, pc, hop, dist, done, fresh, static, memoized, mixed>>

Serve ==
    /\ pc = "splice"
    /\ cand > NumLanes
    /\ pc' = "served"
    /\ UNCHANGED <<net, dest, now, hop, dist, done, fresh, static, memoized, mixed, cand>>

\* The next epoch froze other times; the stale table is asked for.
NewEpoch ==
    /\ pc = "served"
    /\ now' \in Epochs(net)
    /\ pc' = "fresh"
    /\ StartSearch
    /\ fresh' = NoHops /\ mixed' = NoHops /\ cand' = 1
    /\ UNCHANGED <<net, dest, static, memoized>>

-----------------------------------------------------------------------------
Init ==
    /\ net \in RouteNets
    /\ dest \in Dests
    /\ now \in Epochs(net)
    /\ pc = "fresh"
    /\ hop = NoHops /\ dist = [i \in {dest} |-> 0] /\ done = {}
    /\ fresh = NoHops /\ static = NoHops /\ mixed = NoHops
    /\ memoized = FALSE
    /\ cand = 1

Next ==
    \/ \E u \in Lane : Pop(u)
    \/ FreshReady
    \/ StaticReady
    \/ Splice
    \/ Keep
    \/ Serve
    \/ NewEpoch

Spec == Init /\ [][Next]_vars

-----------------------------------------------------------------------------
(* What the tables promise. *)

\* Every variable has its type; what a search has found or finished are lanes.
TypeOK ==
    /\ net \in RouteNets
    /\ dest \in Lane
    /\ now \in Times
    /\ pc \in {"fresh", "static", "splice", "served"}
    /\ IsTable(hop) /\ IsTable(fresh) /\ IsTable(static) /\ IsTable(mixed)
    /\ DOMAIN dist \subseteq Lane /\ dist \in [DOMAIN dist -> Nat]
    /\ done \subseteq DOMAIN dist
    /\ memoized \in BOOLEAN
    /\ cand \in 1..(NumLanes + 1)

\* The lanes from which some drive along the network ends at the destination.
CanReach ==
    {i \in Lane : \A S \in SUBSET Lane :
        dest \in S /\ (\A p \in Lane : net.succ[p] \cap S # {} => p \in S) => i \in S}

\* routeDijkstra: a finished search has a distance for exactly the lanes that
\* can reach the destination, each hop is a successor that accounts for the
\* distance, and no other successor would be nearer.
SearchIsExact ==
    (pc \in {"fresh", "static"} /\ Frontier = {}) =>
        /\ DOMAIN dist = CanReach
        /\ DOMAIN hop = CanReach \ {dest}
        /\ \A i \in DOMAIN hop :
               /\ hop[i] \in net.succ[i]
               /\ dist[i] = Through(hop[i])
               /\ \A u \in net.succ[i] \cap CanReach : dist[i] <= Through(u)

\* rerouteTable, "acyclicity is constructed": at every moment of the splicing
\* and in the table that is served, the lanes that have a hop are those that can
\* reach the destination, and from each of them the chain ends there.
EveryChainArrives ==
    pc \in {"splice", "served"} =>
        /\ DOMAIN mixed = CanReach \ {dest}
        /\ \A i \in DOMAIN mixed : Arrives(mixed, i)

\* rerouteTable, "the margin is earned by the mixed chain the vehicle will
\* actually drive": in the table that is served, the chain from a diverted lane
\* is clearly better than its static chain.
MarginIsEarned ==
    pc = "served" =>
        \A i \in DOMAIN mixed :
            mixed[i] # static[i] =>
                Clears(ChainCost(mixed, i), ChainCost(static, i))
=============================================================================
