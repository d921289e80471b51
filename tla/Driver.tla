------------------------------- MODULE Driver -------------------------------
(* The default driver (natsio/driver): replicas that claim vehicles from a  *)
(* run and drive them from observations.  A replica hears snapshots, orphan *)
(* events, claim replies and observations on subscriptions that each have a *)
(* goroutine of their own, so a reply and an observation sent after it can  *)
(* be handled in either order; publishes are at most once.                  *)
(* The engine is the part of the contract (natsio/contract.go, intent.go)   *)
(* that the replicas race with: exclusive claims, detach, the drain with    *)
(* its hold-last bridge, and first-intent-wins arbitration.  Of an intent   *)
(* only the route axis is kept: it is the axis that persists.               *)
EXTENDS Naturals, Sequences, SequencesExt, FiniteSets

CONSTANTS
  Drivers,        \* the replicas, by their controller ids
  Fleet,          \* vehicle ids
  Sources,        \* the subscriptions that name vehicles: "snap", "event"
  Capacity,       \* Config.Capacity
  Destination,    \* Config.Destination, or NoRoute
  RouteBudget,    \* Config.RouteBudgetPerTick
  Successors,     \* lane -> its successor lanes
  Entry,          \* the lane vehicles enter on
  ExitLanes,      \* exit lanes of at least minExitLen
  Draws,          \* vehicle -> its exit stream, exitAttempts values
  HoldWindow,     \* ticks the hold-last bridge lasts
  Populations,    \* the replicas and the vehicles a run starts with
  MaxQueue,       \* bound on every queue
  MaxDrives,      \* bound on the ticks
  MaxFaults,      \* bound on lost intents, claims that time out and silent replicas
  NoOne, NoRoute, Gone

ASSUME DriverAssumption ==
  /\ Fleet \subseteq Nat /\ Drivers \subseteq Nat
  /\ RouteBudget \in Nat \ {0} /\ Capacity \in Nat \ {0}

Lanes == DOMAIN Successors
Nothing == [granted |-> {}, sent |-> FALSE]

VARIABLES
  owner,      \* byVehicle: the claim holder of each vehicle
  attached,   \* ctrls
  lane, route,
  hold,       \* hold: the last fresh intent of each vehicle and its age
  control,    \* claim and release requests on their way to the engine
  intents,    \* intents on their way to the engine
  obs,        \* observations on their way to each replica
  replies,    \* claim replies on their way to each replica
  booting, up, fleet, asked, routed, wantRoute, wantLane,
  budget      \* the bounds' counters

engineVars == <<owner, attached, lane, route, hold>>
wireVars == <<control, intents, obs, replies>>
replicaVars == <<booting, up, fleet, asked, routed, wantRoute, wantLane>>
driverVars == <<engineVars, wireVars, replicaVars, budget>>

Live == {v \in Fleet : lane[v] # Gone}
-----------------------------------------------------------------------------
(* The exit draw (destinations.go).                                          *)

ReachableLanes(from) ==
  LET Grown(ls, i) == ls \cup UNION {Successors[l] : l \in ls}
  IN  FoldLeft(Grown, {from}, [i \in 1..Cardinality(Lanes) |-> i])

\* The candidates in lane order; each draw picks one, and a draw of the
\* vehicle's own lane is drawn again while attempts last.
PickExit(v, from) ==
  LET cands == SetToSortSeq(ExitLanes \cap ReachableLanes(from), <)
      picks == IF cands = <<>> THEN <<>>
               ELSE [i \in 1..Len(Draws[v]) |-> cands[1 + (Draws[v][i] % Len(cands))]]
      other == SelectSeq(picks, LAMBDA l : l # from)
  IN  IF other = <<>> THEN NoRoute ELSE Head(other)

Exit == [v \in Fleet |-> [l \in Lanes |-> PickExit(v, l)]]
-----------------------------------------------------------------------------
(* One ego's routing axis (routeStep), over the record                       *)
(* [routed, want, first, left, out] of one replica and one observation.      *)

\* As Wanted, but a vehicle that comes with a route is drawn for again.
Redrawn(ego, drawn) == IF Destination # NoRoute THEN Destination ELSE drawn

\* As Confirmed, but the route counts as sent once it is published.
FireAndForget(ego, want) == TRUE

\* The destination wanted for an ego seen for the first time.
Wanted(ego, drawn) ==
  IF Destination # NoRoute THEN Destination ELSE IF ego.route # NoRoute THEN ego.route ELSE drawn

Confirmed(ego, want) == want = NoRoute \/ ego.route = want

NeedsDraw(ego) == Destination = NoRoute /\ ego.route = NoRoute

Forget(f, vs) == [v \in DOMAIN f \ vs |-> f[v]]

\* s.want and s.first are partial functions on the fleet; s.out the intents.
RouteStep(s, ego) ==
  LET v     == ego.id
      first == IF v \in DOMAIN s.first THEN s.first[v] ELSE ego.lane
      want  == IF v \in DOMAIN s.want THEN s.want[v] ELSE Wanted(ego, Exit[v][first])
      draws == v \notin DOMAIN s.want /\ NeedsDraw(ego)
      seen  == IF draws THEN (v :> first) @@ s.first ELSE s.first
      plain == [id |-> v, route |-> NoRoute]
  IN  CASE v \in s.routed -> [s EXCEPT !.out = Append(@, plain)]
        [] v \notin s.routed /\ draws /\ s.left = 0 ->
             [s EXCEPT !.first = seen, !.out = Append(@, plain)]
        [] OTHER ->
             [s EXCEPT
               !.left   = IF draws THEN @ - 1 ELSE @,
               !.routed = IF Confirmed(ego, want) THEN @ \cup {v} ELSE @,
               !.want   = IF Confirmed(ego, want) THEN Forget(@, {v}) ELSE (v :> want) @@ @,
               !.first  = IF Confirmed(ego, want) THEN Forget(@, {v}) ELSE seen,
               !.out    = Append(@, IF want = NoRoute \/ ego.route = want THEN plain
                                    ELSE [id |-> v, route |-> want])]
-----------------------------------------------------------------------------
(* The replica's handlers.                                                   *)

Quiet == UNCHANGED <<engineVars, booting>>

\* New: the handshake, then the subscriptions.  A hello that times out is not
\* sent again: the engine may have made a controller of it already.
Attach(d) ==
  /\ d \in booting /\ booting' = booting \ {d}
  /\ attached' = attached \cup {d}
  /\ up' = [up EXCEPT ![d] = TRUE]
  /\ UNCHANGED <<owner, lane, route, hold, wireVars, fleet, asked, routed, wantRoute, wantLane, budget>>

HelloTimesOut(d) ==
  /\ d \in booting /\ booting' = booting \ {d}
  /\ budget.faults < MaxFaults /\ budget' = [budget EXCEPT !.faults = @ + 1]
  /\ attached' = attached \cup {d}
  /\ UNCHANGED <<owner, lane, route, hold, wireVars, up, fleet, asked, routed, wantRoute, wantLane>>

PendingOf(d) == UNION {asked[d][s] : s \in Sources}

\* onSnap and onUnclaimed: ask for what is neither held nor pending, in the
\* order listed, while held and pending leave room.
Discover(d, src, ids) ==
  LET wanted == SetToSortSeq(ids \ (fleet[d] \cup PendingOf(d)), <)
      room   == Capacity - Cardinality(fleet[d]) - Cardinality(PendingOf(d))
      ask    == ToSet(SubSeq(wanted, 1, IF room < Len(wanted) THEN room ELSE Len(wanted)))
  IN  /\ up[d] /\ asked[d][src] = {} /\ ask # {} /\ Len(control[d]) < MaxQueue
      /\ Capacity > Cardinality(fleet[d]) + Cardinality(PendingOf(d))
      /\ asked' = [asked EXCEPT ![d][src] = ask]
      /\ control' = [control EXCEPT ![d] = Append(@, [kind |-> "claim", ids |-> ask, reply |-> src])]
      /\ UNCHANGED <<intents, obs, replies, up, fleet, routed, wantRoute, wantLane, budget>> /\ Quiet

\* A snapshot lists every vehicle, an orphan event some unclaimed one.
Listings(src) == IF src = "snap" THEN {Live} ELSE {{v} : v \in {x \in Live : owner[x] = NoOne}}

OnClaimReply(d, src) ==
  /\ up[d] /\ replies[d][src].sent
  /\ asked' = [asked EXCEPT ![d][src] = {}]
  /\ fleet' = [fleet EXCEPT ![d] = @ \cup replies[d][src].granted]
  /\ replies' = [replies EXCEPT ![d][src] = Nothing]
  /\ UNCHANGED <<control, intents, obs, up, routed, wantRoute, wantLane, budget>> /\ Quiet

\* The request's 2 s pass: the vehicles are no longer pending, and a reply
\* that comes later has nobody to go to.
ClaimTimesOut(d, src) ==
  /\ up[d] /\ asked[d][src] # {} /\ budget.faults < MaxFaults
  /\ asked' = [asked EXCEPT ![d][src] = {}]
  /\ replies' = [replies EXCEPT ![d][src] = Nothing]
  /\ control' = [control EXCEPT ![d] =
       [i \in DOMAIN @ |-> IF @[i].kind = "claim" /\ @[i].reply = src
                           THEN [@[i] EXCEPT !.reply = "none"] ELSE @[i]]]
  /\ budget' = [budget EXCEPT !.faults = @ + 1]
  /\ UNCHANGED <<intents, obs, up, fleet, routed, wantRoute, wantLane>> /\ Quiet

\* onObs: one intent per ego in order, then the members of the fleet the
\* observation does not list are forgotten.
OnObs(d) ==
  /\ up[d] /\ obs[d] # <<>> /\ Len(intents[d]) + Len(Head(obs[d])) <= 2 * MaxQueue
  /\ LET egos == Head(obs[d])
         done == FoldLeft(RouteStep,
                          [routed |-> routed[d], want |-> wantRoute[d], first |-> wantLane[d],
                           left |-> RouteBudget, out |-> <<>>], egos)
         lost == fleet[d] \ {egos[i].id : i \in DOMAIN egos}
     IN  /\ intents' = [intents EXCEPT ![d] = @ \o done.out]
         /\ fleet' = [fleet EXCEPT ![d] = @ \ lost]
         /\ routed' = [routed EXCEPT ![d] = done.routed \ lost]
         /\ wantRoute' = [wantRoute EXCEPT ![d] = Forget(done.want, lost)]
         /\ wantLane' = [wantLane EXCEPT ![d] = Forget(done.first, lost)]
  /\ obs' = [obs EXCEPT ![d] = Tail(@)]
  /\ UNCHANGED <<control, replies, up, asked, budget>> /\ Quiet

\* Close releases everything with its last message; Kill says nothing.
Stopped(d) ==
  /\ up[d] /\ up' = [up EXCEPT ![d] = FALSE]
  /\ obs' = [obs EXCEPT ![d] = <<>>]
  /\ replies' = [replies EXCEPT ![d] = [s \in Sources |-> Nothing]]
  /\ asked' = [asked EXCEPT ![d] = [s \in Sources |-> {}]]
  /\ fleet' = [fleet EXCEPT ![d] = {}] /\ routed' = [routed EXCEPT ![d] = {}]
  /\ wantRoute' = [wantRoute EXCEPT ![d] = <<>>] /\ wantLane' = [wantLane EXCEPT ![d] = <<>>]
  /\ UNCHANGED <<intents, budget>> /\ Quiet

Close(d) ==
  /\ Stopped(d)
  /\ control' = [control EXCEPT ![d] = Append(@, [kind |-> "detach", ids |-> {}, reply |-> "none"])]

Kill(d) == Stopped(d) /\ UNCHANGED control
-----------------------------------------------------------------------------
(* The engine.                                                               *)

\* tryClaim: live, and unclaimed or already the asker's.
Grantable(d, ids) == {v \in ids : lane[v] # Gone /\ owner[v] \in {NoOne, d}}

HandleClaim(d) ==
  /\ control[d] # <<>> /\ Head(control[d]).kind = "claim"
  /\ LET req     == Head(control[d])
         granted == IF d \in attached THEN Grantable(d, req.ids) ELSE {}
     IN  /\ owner' = [v \in Fleet |-> IF v \in granted THEN d ELSE owner[v]]
         /\ replies' = IF req.reply = "none" THEN replies
                       ELSE [replies EXCEPT ![d][req.reply] = [granted |-> granted, sent |-> TRUE]]
  /\ control' = [control EXCEPT ![d] = Tail(@)]
  /\ UNCHANGED <<attached, lane, route, hold, intents, obs, replicaVars, budget>>

\* detach: every claim is released; the hold-last bridge stays.
Detached(d) ==
  /\ attached' = attached \ {d}
  /\ owner' = [v \in Fleet |-> IF owner[v] = d THEN NoOne ELSE owner[v]]
  /\ UNCHANGED <<lane, route, hold, intents, obs, replies, replicaVars>>

HandleDetach(d) ==
  /\ control[d] # <<>> /\ Head(control[d]).kind = "detach"
  /\ control' = [control EXCEPT ![d] = Tail(@)]
  /\ Detached(d) /\ UNCHANGED budget

\* The liveness sweep: a dead replica, or one that is only slow.
Silent(d) ==
  /\ d \in attached /\ budget.faults < MaxFaults
  /\ budget' = [budget EXCEPT !.faults = @ + 1]
  /\ Detached(d) /\ UNCHANGED control

NoHold == [route |-> NoRoute, age |-> HoldWindow + 1]

IntentsOf(in, v) == SelectSeq(in, LAMBDA x : x.id = v)

\* The intents for one vehicle the drain lets through: its holder's; while it
\* is unclaimed, those of publishers that are not attached.
Through(in, v) ==
  IF owner[v] # NoOne THEN IntentsOf(in[owner[v]], v)
  ELSE FlattenSeq([i \in 1..Cardinality(Drivers \ attached) |->
                     IntentsOf(in[SetToSortSeq(Drivers \ attached, <)[i]], v)])

Fresh(in, v) == owner[v] # NoOne /\ Through(in, v) # <<>>

\* The hold after the drain: the newest fresh intent, or one more tick of the
\* old one until the window has passed.
Holding(in, v) ==
  IF Fresh(in, v) THEN [route |-> Last(Through(in, v)).route, age |-> 0]
  ELSE IF hold[v].age < HoldWindow THEN [hold[v] EXCEPT !.age = @ + 1] ELSE NoHold

\* First wins; a held intent outranks a publisher without a grant.
Winner(in, v) ==
  IF Fresh(in, v) THEN Head(Through(in, v)).route
  ELSE IF Holding(in, v).age <= HoldWindow THEN hold[v].route
  ELSE IF Through(in, v) # <<>> THEN Head(Through(in, v)).route
  ELSE NoRoute

Egos(d, own, at, to) ==
  LET ids == SetToSortSeq({v \in Fleet : own[v] = d /\ at[v] # Gone}, <)
  IN  [i \in DOMAIN ids |-> [id |-> ids[i], lane |-> at[ids[i]], route |-> to[ids[i]]]]

\* One tick: the drain, the step, the observations.
Boundary(cut, v, to) ==
  LET in == [d \in Drivers |-> SubSeq(intents[d], 1, cut[d])]
  IN  /\ lane' = [lane EXCEPT ![v] = to]
      /\ route' = [x \in Fleet |-> IF Winner(in, x) # NoRoute THEN Winner(in, x) ELSE route[x]]
      /\ hold' = [x \in Fleet |-> IF x = v /\ to = Gone THEN NoHold ELSE Holding(in, x)]
      /\ owner' = IF to = Gone THEN [owner EXCEPT ![v] = NoOne] ELSE owner
      /\ intents' = [d \in Drivers |-> SubSeq(intents[d], cut[d] + 1, Len(intents[d]))]
      /\ obs' = [d \in Drivers |-> IF d \in attached /\ up[d] /\ Len(obs[d]) < MaxQueue
                                   THEN Append(obs[d], Egos(d, owner', lane', route')) ELSE obs[d]]
      /\ budget.ticks < MaxDrives /\ budget' = [budget EXCEPT !.ticks = @ + 1]
      /\ UNCHANGED <<attached, control, replies, replicaVars>>

\* Core publishes have no acknowledgement.
LoseIntent(d) ==
  /\ intents[d] # <<>> /\ budget.faults < MaxFaults
  /\ intents' = [intents EXCEPT ![d] = Tail(@)]
  /\ budget' = [budget EXCEPT !.faults = @ + 1]
  /\ UNCHANGED <<engineVars, control, obs, replies, replicaVars>>
-----------------------------------------------------------------------------
DriverInit ==
  /\ owner = [v \in Fleet |-> NoOne] /\ attached = {}
  /\ up = [d \in Drivers |-> FALSE]
  /\ \E p \in Populations :
       /\ booting = p.drivers
       /\ lane = [v \in Fleet |-> IF v \in p.fleet THEN Entry ELSE Gone]
  /\ route = [v \in Fleet |-> NoRoute]
  /\ hold = [v \in Fleet |-> NoHold]
  /\ control = [d \in Drivers |-> <<>>] /\ intents = [d \in Drivers |-> <<>>]
  /\ obs = [d \in Drivers |-> <<>>]
  /\ replies = [d \in Drivers |-> [s \in Sources |-> Nothing]]
  /\ fleet = [d \in Drivers |-> {}]
  /\ asked = [d \in Drivers |-> [s \in Sources |-> {}]]
  /\ routed = [d \in Drivers |-> {}]
  /\ wantRoute = [d \in Drivers |-> <<>>] /\ wantLane = [d \in Drivers |-> <<>>]
  /\ budget = [faults |-> 0, ticks |-> 0]

ReplicaStep(d) ==
  \/ \E s \in Sources : (\E ids \in Listings(s) : Discover(d, s, ids)) \/ OnClaimReply(d, s) \/ ClaimTimesOut(d, s)
  \/ Attach(d) \/ HelloTimesOut(d) \/ OnObs(d) \/ Close(d) \/ Kill(d)

EngineStep(d) == HandleClaim(d) \/ HandleDetach(d) \/ Silent(d) \/ LoseIntent(d)

\* A replica's publishing has reached the engine, or is still on its way.
Cuts == {c \in [Drivers -> 0..2 * MaxQueue] : \A d \in Drivers : c[d] \in {0, Len(intents[d])}}

Ahead(v) == IF Successors[lane[v]] = {} THEN {Gone} ELSE Successors[lane[v]]

DriverNext ==
  \/ \E d \in Drivers : ReplicaStep(d) \/ EngineStep(d)
  \/ \E c \in Cuts, v \in Live : \E to \in {lane[v]} \cup Ahead(v) : Boundary(c, v, to)

DriverSpec == DriverInit /\ [][DriverNext]_driverVars
-----------------------------------------------------------------------------
\* While one replica holds a vehicle, the destination the vehicle follows does
\* not change: failover, a late intent of the previous holder and the bridge
\* of its last one included ("failover is behaviorally invisible", routeStep).
OneDestination ==
  [][\A v \in Fleet :
       (owner[v] # NoOne /\ owner'[v] = owner[v] /\ route[v] # NoRoute) => route'[v] = route[v]]_driverVars

\* A replica that counts a vehicle of its own as routed is right: no vehicle
\* is left on default routing by a lost intent or a spent budget.
RoutedIsTrue ==
  \A d \in Drivers, v \in Fleet :
    (v \in routed[d] /\ owner[v] = d /\ lane[v] \notin ExitLanes) => route[v] # NoRoute
=============================================================================
