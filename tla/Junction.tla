------------------------------ MODULE Junction ------------------------------
(***************************************************************************)
(* The kernel's tick on a network of lanes and junction boxes: the         *)
(* spawner, the right-of-way and signal gates, car-following motion, lane  *)
(* boundaries and the gridlock escape (src/engine/engine.go, spawn.go,     *)
(* rightofway.go, signal.go, gridlock.go).                                 *)
(*                                                                         *)
(* Lengths and positions are in slots of one vehicle length, a speed is    *)
(* one slot per tick or none.  A vehicle at position p of a lane has its   *)
(* front bumper at the end of slot p; position 0 is the injection point.   *)
(* In these units a moving vehicle can stop anywhere but on the slot it    *)
(* is in, so "cannot stop before the line" (v^2 > 2*d*B) means: moving and *)
(* at the line; "stopped at the line" (d <= S0 + 1) means: stopped in the  *)
(* last slot.  All vehicles decide from one snapshot and move together, as *)
(* in computeAccels and integrate.                                         *)
(*                                                                         *)
(* The network is chosen once, from Nets; a network is a record with       *)
(*   lanes, len, box, exit       the lanes, their lengths and kinds        *)
(*   succ, prevs                 the lanes after and before a lane         *)
(*   row, cross, merge           its right-of-way class and foes           *)
(*   light                       per lane the displayed state per tick of  *)
(*                               the cycle, << >> without a signal         *)
(*   origins, demand             entry lanes in order, and the ids of the  *)
(*                               vehicles scheduled on each                *)
(*   via, dest                   per vehicle its route: the branch lanes   *)
(*                               it takes and the lane its trip ends at    *)
(*   cap                         the spawner's density target, in vehicles *)
(*   cycle                       the length of the signals' cycle, in ticks *)
(*   bleed                       how many vehicles the escape may take, for *)
(*                               the properties only                       *)
(***************************************************************************)
EXTENDS Integers, Sequences, FiniteSets

CONSTANTS
    Nets,           \* the networks to run
    Need,           \* slots a vehicle needs beyond a box: its length and its jam gap
    MaxLaneHops,    \* bound of the walks along lanes
    StrandAfter,    \* ticks at a standstill before the escape looks at a vehicle
    MaxInterval,    \* longest interval between two scheduled spawns of one origin
    MaxLag,         \* bound: how far a schedule is remembered to be behind
    MaxDawdles      \* bound: ticks in which a controller holds one vehicle back

Away == {"pending", "left", "stranded"}
IdsOf(n) == UNION {{n.demand[o][i] : i \in DOMAIN n.demand[o]} : o \in DOMAIN n.demand}
FoesOf(n, l) == n.cross[l] \cup n.merge[l]

\* What a network file has to satisfy before it becomes a road network: lanes
\* with a length, links known at both ends, foes among the boxes, signal displays
\* for every tick, and vehicles that enter on roads.
Network(n) ==
    /\ n.lanes \cap (Away \cup {"none"}) = {}
    /\ n.len \in [n.lanes -> Nat \ {0}]
    /\ n.succ \in [n.lanes -> Seq(n.lanes)]
    /\ {n.prevs, n.cross, n.merge} \subseteq [n.lanes -> SUBSET n.lanes]
    /\ \A l \in n.lanes : \A i \in DOMAIN n.succ[l] : l \in n.prevs[n.succ[l][i]]
    /\ \A l \in n.lanes : \A f \in FoesOf(n, l) : n.box[l] /\ n.box[f]
    /\ n.cycle \in Nat \ {0, 1}
    /\ DOMAIN n.demand \subseteq {o \in n.lanes : ~n.box[o]}
    /\ n.demand \in [DOMAIN n.demand -> Seq(Int)]
    /\ n.origins \in Seq(DOMAIN n.demand)

\* The import finds foes pair by pair and tells each of the other.
MutualFoes(n) ==
    \A l \in n.lanes : \A f \in FoesOf(n, l) :
        f # l /\ (f \in n.cross[l] <=> l \in n.cross[f]) /\ (f \in n.merge[l] <=> l \in n.merge[f])

ASSUME JunctionAssumption ==
    /\ {Need, MaxLaneHops, StrandAfter, MaxInterval} \subseteq Nat \ {0}
    /\ {MaxLag, MaxDawdles} \subseteq Nat
    /\ \A n \in Nets : Network(n) /\ MutualFoes(n)

VARIABLES
    road,       \* the network
    veh,        \* id -> the vehicle's kinematic state and timers
    place,      \* id -> the lane it is on, or "pending", "left", "stranded"
    order,      \* the live vehicles in the order they were registered
    clock,      \* the tick, modulo the signals' cycle
    queue,      \* origin -> ids still scheduled there, the first one pending
    until,      \* origin -> ticks until the pending spawn is due; negative: overdue
    dawdles     \* bound counter of MaxDawdles

kernelVars == <<road, veh, place, order, clock, queue, until, dawdles>>

Ids == IdsOf(road)
Still == [pos |-> 0, moving |-> FALSE, stopDone |-> FALSE, stuck |-> 0]

----------------------------------------------------------------------------
(* What a step reads.  A traffic state is [veh, place]; the operators take *)
(* it as an argument because the tick passes through several of them.      *)

On(s, l) == {v \in DOMAIN s.place : s.place[v] = l}
Live(s) == {v \in DOMAIN s.place : s.place[v] \notin Away}
Prevs(l) == road.prevs[l]

\* The vehicle closest to the end, and to the start, of an occupied lane.
Foremost(s, l) == CHOOSE v \in On(s, l) : \A w \in On(s, l) : s.veh[w].pos <= s.veh[v].pos
Rearmost(s, l) == CHOOSE v \in On(s, l) : \A w \in On(s, l) : s.veh[w].pos >= s.veh[v].pos

\* The branch a vehicle takes at the end of a lane: its route's, else the first.
Picked(l, v) ==
    LET options == {road.succ[l][i] : i \in DOMAIN road.succ[l]}
    IN  IF options \cap road.via[v] # {}
        THEN CHOOSE n \in options \cap road.via[v] : TRUE
        ELSE road.succ[l][1]

Light(l) == IF road.light[l] = << >> THEN "off" ELSE road.light[l][clock + 1]
Permissive(l) == Light(l) = "permissive"
Controlled(l) == Light(l) # "off" \/ road.row[l] # "none"

\* The distance to the end of the vehicle's lane.
ToEnd(s, v) == road.len[s.place[v]] - s.veh[v].pos

----------------------------------------------------------------------------
(* Right of way.                                                           *)

Nowhere == [lane |-> "none", dist |-> 0]

\* The walk to the gate, one lane on; at: the lane and the distance reached.
GateStep(at, next) ==
    IF road.box[next] /\ Controlled(next) THEN [at EXCEPT !.lane = next, !.found = TRUE]
    ELSE [at EXCEPT !.lane = next, !.dist = @ + road.len[next]]

GateOf(end) == IF end.found THEN [lane |-> end.lane, dist |-> end.dist] ELSE Nowhere

\* The controlled box a vehicle on a road is approaching, through stubs and
\* uncontrolled boxes, and the distance to its line.
GateTarget(s, v) ==
    LET Further(at) == IF at.found \/ road.succ[at.lane] = << >> THEN at
                       ELSE GateStep(at, Picked(at.lane, v))
        walk[hops \in 0..MaxLaneHops] ==
            IF hops = 0 THEN [lane |-> s.place[v], dist |-> ToEnd(s, v), found |-> FALSE]
            ELSE Further(walk[hops - 1])
    IN  GateOf(walk[MaxLaneHops])

\* A conflicting vehicle is inside the box of lane l.
FoeInside(s, l) == \E f \in road.cross[l] \cup road.merge[l] : On(s, f) # {}

\* As below, but a shared exit arbitrates nothing.
NoThreat(s, v, cur, exit, distV) == FALSE

\* A vehicle on a sibling branch reaches the merge into `exit' before v does:
\* branches are followed backwards while they are empty.
MergeThreat(s, v, cur, exit, distV) ==
    LET first == {[lane |-> p, dist |-> 0] : p \in Prevs(exit) \ {cur}}
        Upstream(at) == {[lane |-> p, dist |-> at.dist + road.len[at.lane]] : p \in Prevs(at.lane)}
        reach[n \in 0..MaxLaneHops] ==
            IF n = 0 THEN first
            ELSE LET near == reach[n - 1]
                 IN  near \cup UNION {{b \in Upstream(at) : b.dist < distV} :
                                       at \in {a \in near : On(s, a.lane) = {}}}
    IN  \E at \in reach[MaxLaneHops] :
            /\ On(s, at.lane) # {}
            /\ LET w == Foremost(s, at.lane)
                   d == at.dist + road.len[at.lane] - s.veh[w].pos
               IN  d < distV \/ (d = distV /\ w < v)

\* The walk to the exits, one lane on.
ExitStep(s, v, at, exit, inBox) ==
    LET stop == [at EXCEPT !.end = TRUE]
    IN  IF inBox /\ MergeThreat(s, v, at.lane, exit, at.dist) THEN [stop EXCEPT !.foe = TRUE]
        ELSE IF On(s, exit) # {}
        THEN IF inBox THEN [stop EXCEPT !.pass = TRUE]
             ELSE [stop EXCEPT !.free = @ + s.veh[Rearmost(s, exit)].pos - 1]
        ELSE IF road.box[exit]
        THEN IF FoeInside(s, exit) THEN [stop EXCEPT !.foe = TRUE]
             ELSE IF Light(exit) \in {"red", "amber"} THEN [stop EXCEPT !.seal = TRUE]
             ELSE [stop EXCEPT !.pass = TRUE]
        ELSE IF road.exit[exit] THEN [stop EXCEPT !.pass = TRUE]
        ELSE [at EXCEPT !.lane = exit, !.dist = @ + road.len[exit], !.free = @ + road.len[exit],
                        !.end = at.free + road.len[exit] >= Need]

RoomOf(end) == [blocked |-> ~end.pass /\ (end.foe \/ end.free < Need), seal |-> end.seal]

\* The room behind lane l for vehicle v.  blocked: it does not fit; seal:
\* because of a red or amber line, not of capacity.  In the box the vehicle's
\* own leader is car-following's business, and sibling branches compete.
ExitWalk(s, v, l, inBox) ==
    LET Further(at) == IF at.end \/ road.succ[at.lane] = << >> THEN at
                       ELSE ExitStep(s, v, at, Picked(at.lane, v), inBox)
        walk[hops \in 0..MaxLaneHops] ==
            IF hops = 0
            THEN [lane |-> l, free |-> 0, dist |-> road.len[l] - s.veh[v].pos,
                  end |-> FALSE, pass |-> FALSE, foe |-> FALSE, seal |-> FALSE]
            ELSE Further(walk[hops - 1])
    IN  RoomOf(walk[MaxLaneHops])

BoxWalk(s, v, l) ==
    IF FoeInside(s, l) THEN [blocked |-> TRUE, seal |-> FALSE] ELSE ExitWalk(s, v, l, FALSE)

\* As below, but every vehicle waits for every other.
AllPrecede(w, v) == TRUE

\* Two yielding vehicles at their lines: the lower id goes first.
Precedes(w, v) == w < v

\* As below, but only a foe standing at its line is yielded to.
OnlyStanding(s, v, foe, minor) ==
    \E p \in Prevs(foe) :
        /\ On(s, p) # {}
        /\ ToEnd(s, Foremost(s, p)) = 0 /\ ~s.veh[Foremost(s, p)].moving
        /\ ~minor \/ Precedes(Foremost(s, p), v)

\* The foremost vehicle on an approach of the foe lane forbids v to enter.
FoeApproachBlocks(s, v, foe, minor) ==
    \E p \in Prevs(foe) :
        /\ On(s, p) # {}
        /\ LET w == Foremost(s, p)
               foeYields == road.row[foe] \in {"minor", "stop"} \/ Permissive(foe)
           IN  /\ ToEnd(s, w) = 0
               /\ \/ s.veh[w].moving
                  \/ /\ ~s.veh[w].moving /\ Light(foe) # "red"
                     /\ IF minor THEN ~foeYields \/ Precedes(w, v)
                        ELSE ~foeYields /\ Precedes(w, v)

\* Minor approaches yield to every foe, major ones to merging foes only.
FoeApproachConflict(s, v, l) ==
    LET minor == road.row[l] # "major"
    IN  \E f \in road.merge[l] \cup (IF minor THEN road.cross[l] ELSE {}) :
            FoeApproachBlocks(s, v, f, minor)

RowConflict(s, v, l) == BoxWalk(s, v, l).blocked \/ FoeApproachConflict(s, v, l)

\* Red and amber hold what can still stop; otherwise the box must be enterable.
SigGate(s, v, l, dist) ==
    \/ Light(l) \in {"red", "amber"} /\ ~(s.veh[v].moving /\ dist = 0)
    \/ Light(l) # "off" /\ BoxWalk(s, v, l).blocked

\* The stop-sign duty is still owed.
OwesStop(s, v, l) == road.row[l] = "stop" /\ ~s.veh[v].stopDone

\* The gate on a road approach.
RoadGate(s, v, t) ==
    \/ SigGate(s, v, t.lane, t.dist)
    \/ /\ road.row[t.lane] # "none" \/ Permissive(t.lane)
       /\ OwesStop(s, v, t.lane) \/ RowConflict(s, v, t.lane)

\* The gate at the end of a box: the seam to a further box, and the exit room.
SeamGate(s, v, l) ==
    LET next == Picked(l, v)
    IN  \/ /\ road.box[next] /\ Controlled(next)
           /\ \/ SigGate(s, v, next, ToEnd(s, v))
              \/ OwesStop(s, v, next)
              \/ /\ road.row[next] # "none" \/ Permissive(next)
                 /\ FoeApproachConflict(s, v, next)
        \/ ExitWalk(s, v, l, TRUE).blocked

\* Where the gate holds v: the distance to the line it may not cross, or none.
Unheld == -1
LineOf(s, v, t) == IF t # Nowhere /\ RoadGate(s, v, t) THEN t.dist ELSE Unheld
RowGate(s, v) ==
    LET l == s.place[v]
    IN  IF road.succ[l] = << >> THEN Unheld
        ELSE IF road.box[l] THEN IF SeamGate(s, v, l) THEN ToEnd(s, v) ELSE Unheld
        ELSE LineOf(s, v, GateTarget(s, v))

\* v is stopped at the line of a stop-class box t, which serves its duty.
ServesStop(s, v, t) ==
    /\ t # Nowhere /\ t.dist = 0 /\ road.row[t.lane] = "stop"
    /\ ~s.veh[v].moving /\ ~SigGate(s, v, t.lane, 0)

StopsAtLine(s, v) ==
    LET l == s.place[v]
        seam == IF road.box[Picked(l, v)] /\ Controlled(Picked(l, v))
                THEN [lane |-> Picked(l, v), dist |-> ToEnd(s, v)] ELSE Nowhere
    IN  road.succ[l] # << >> /\ ServesStop(s, v, IF road.box[l] THEN seam ELSE GateTarget(s, v))

----------------------------------------------------------------------------
(* The spawner: per origin, in lane order, the due pending vehicle enters  *)
(* if the density target and the entry plan allow it; a refused entry is   *)
(* held and retried, and the schedule runs on from the tick it was due.    *)

\* The stop line ahead would hold an entering vehicle.
JunctionHold(s, v, l) ==
    \/ Light(l) \in {"red", "amber"}
    \/ Light(l) # "off" /\ BoxWalk(s, v, l).blocked
    \/ road.row[l] # "none" /\ (OwesStop(s, v, l) \/ RowConflict(s, v, l))

\* The walk to the leader, one lane on; seen: who else is on the lane reached.
EntryStep(s, v, at, seen) ==
    LET last == CHOOSE x \in seen : \A y \in seen : s.veh[y].pos >= s.veh[x].pos
        GapTo(pos) == IF pos = 0 THEN 0 ELSE at.dist + pos - 1
    IN  IF seen # {} THEN [at EXCEPT !.gap = GapTo(s.veh[last].pos)]
        ELSE IF road.succ[at.lane] = << >> THEN [at EXCEPT !.lane = "none"]
        ELSE [lane |-> Picked(at.lane, v), gap |-> -1, dist |-> at.dist + road.len[at.lane]]

\* The gap to the leader ahead of an origin's start, seen through empty lanes.
EntryGap(s, v) ==
    LET Further(at) == IF at.gap >= 0 \/ at.lane = "none" THEN at
                       ELSE EntryStep(s, v, at, On(s, at.lane) \ {v})
        walk[hops \in 0..MaxLaneHops] ==
            IF hops = 0 THEN [lane |-> s.place[v], dist |-> 0, gap |-> -1]
            ELSE Further(walk[hops - 1])
    IN  walk[MaxLaneHops].gap

\* There is room for a vehicle that can still stop before the nearer constraint.
RoomToEnter(s, v, gap, t) ==
    IF t # Nowhere /\ (gap < 0 \/ t.dist < gap) /\ JunctionHold(s, v, t.lane)
    THEN t.dist > 0 ELSE gap # 0
InjectionPlan(s, v) == RoomToEnter(s, v, EntryGap(s, v), GateTarget(s, v))

\* One origin of the spawner's step; intervals: the jitter drawn per origin.
SpawnAt(o, st, interval) ==
    LET v == st.queue[o][1]
        try == [veh |-> [st.veh EXCEPT ![v] = [Still EXCEPT !.moving = TRUE]],
                place |-> [st.place EXCEPT ![v] = o]]
    IN  IF st.queue[o] = << >> \/ st.until[o] > 0
             \/ Cardinality(Live([veh |-> st.veh, place |-> st.place])) >= road.cap
             \/ ~InjectionPlan(try, v)
        THEN st
        ELSE [veh |-> try.veh, place |-> try.place, order |-> Append(st.order, v),
              queue |-> [st.queue EXCEPT ![o] = SubSeq(@, 2, Len(@))],
              until |-> [st.until EXCEPT ![o] = @ + interval]]

Spawned(st, intervals) ==
    LET after[i \in 0..Len(road.origins)] ==
            IF i = 0 THEN st
            ELSE SpawnAt(road.origins[i], after[i - 1], intervals[road.origins[i]])
    IN  after[Len(road.origins)]

----------------------------------------------------------------------------
(* Motion and lane boundaries.                                             *)

\* The slot in front of the vehicle is free on the branch it takes; the end
\* of a road that leads nowhere is a wall unless the trip ends there.
RoomAhead(s, v) ==
    LET l == s.place[v]
    IN  IF ToEnd(s, v) > 0 THEN ~\E w \in On(s, l) : s.veh[w].pos = s.veh[v].pos + 1
        ELSE \/ road.exit[l] \/ road.dest[v] = l
             \/ /\ road.succ[l] # << >>
                /\ ~\E w \in On(s, Picked(l, v)) : s.veh[w].pos <= 1

\* One vehicle after its motion and the boundary it crossed.  It moves one slot
\* unless there is no room, a controller keeps it back, or a gate holds it at
\* its line; one held further back rolls up to the line and stops there.  A slot
\* takes the kernel many ticks above stuckSpeed, so a move restarts the timer.
MovedFrom(s, v, kept, line, here) ==
    LET l == s.place[v]
        n == Picked(l, v)
    IN  IF kept \/ line = 0 \/ ~RoomAhead(s, v)
        THEN [veh |-> [here EXCEPT !.moving = FALSE], place |-> l]
        ELSE IF ToEnd(s, v) > 0
        THEN [veh |-> [here EXCEPT !.pos = @ + 1, !.moving = line # 1, !.stuck = 0],
              place |-> l]
        ELSE IF road.exit[l] \/ road.dest[v] = l THEN [veh |-> Still, place |-> "left"]
        ELSE [veh |-> [here EXCEPT !.pos = 1, !.moving = TRUE, !.stopDone = @ /\ ~road.box[n]],
              place |-> n]

MovedOne(s, v, kept) ==
    MovedFrom(s, v, kept, RowGate(s, v), [s.veh[v] EXCEPT !.stopDone = @ \/ StopsAtLine(s, v)])

\* Every vehicle decides from the same snapshot; `held' are kept back by a controller.
Together(one) ==
    [veh |-> [v \in DOMAIN one |-> one[v].veh], place |-> [v \in DOMAIN one |-> one[v].place]]
Moved(s, held) ==
    Together([v \in DOMAIN s.place |->
        IF v \in Live(s) THEN MovedOne(s, v, v \in held)
        ELSE [veh |-> s.veh[v], place |-> s.place[v]]])

----------------------------------------------------------------------------
(* The gridlock escape.                                                    *)

\* v is at the head of its lane and waits on a junction for want of room or
\* because of a foe inside it, not for a light.
Sealed(room) == room.blocked /\ ~room.seal
Jammed(s, v) ==
    LET l == s.place[v]
    IN  /\ Foremost(s, l) = v /\ road.succ[l] # << >>
        /\ road.box[Picked(l, v)] \/ road.box[l]
        /\ Sealed(IF road.box[Picked(l, v)] THEN BoxWalk(s, v, Picked(l, v))
                  ELSE ExitWalk(s, v, l, FALSE))

\* The lanes whose vehicles were waiting on one stranded on lane l.
Behind(l) ==
    LET back[n \in 0..MaxLaneHops - 1] ==
            IF n = 0 THEN {l}
            ELSE LET near == back[n - 1] IN near \cup UNION {Prevs(m) : m \in near}
    IN  back[MaxLaneHops - 1]

\* As below, but the timers of the others run on.
NotExcused(s, l) == s.veh

\* The timers of those vehicles start again.
Excused(s, l) ==
    [v \in Ids |-> IF s.place[v] \in Behind(l) THEN [s.veh[v] EXCEPT !.stuck = 0] ELSE s.veh[v]]

\* One vehicle of the sweep, which sees the removals before it.
StrandOne(s, v) ==
    LET stuck == IF s.veh[v].moving THEN 0
                 ELSE IF s.veh[v].stuck < StrandAfter THEN s.veh[v].stuck + 1 ELSE StrandAfter
        timed == [s EXCEPT !.veh[v].stuck = stuck]
        gone == [veh |-> [timed.veh EXCEPT ![v] = Still],
                 place |-> [s.place EXCEPT ![v] = "stranded"]]
    IN  IF s.place[v] \in Away THEN s
        ELSE IF stuck >= StrandAfter /\ Jammed(timed, v)
        THEN [gone EXCEPT !.veh = Excused(gone, s.place[v])]
        ELSE timed

\* The sweep runs in registration order.
Stranded(s, registered) ==
    LET after[i \in 0..Len(registered)] ==
            IF i = 0 THEN s ELSE StrandOne(after[i - 1], registered[i])
    IN  after[Len(registered)]

\* The registry without those that are away: despawned, or taken by the escape.
Remaining(registered, where) ==
    LET after[i \in 0..Len(registered)] ==
            IF i = 0 THEN << >>
            ELSE IF where[registered[i]] \in Away THEN after[i - 1]
            ELSE Append(after[i - 1], registered[i])
    IN  after[Len(registered)]

----------------------------------------------------------------------------

KernelInit ==
    /\ road \in Nets
    /\ veh = [v \in IdsOf(road) |-> Still]
    /\ place = [v \in IdsOf(road) |-> "pending"]
    /\ order = << >>
    /\ clock = 0
    /\ queue = road.demand
    /\ until \in [DOMAIN road.demand -> 1..MaxInterval]
    /\ dawdles = 0

\* One tick: schedule, spawner, decisions, motion, boundaries, escape.
Settles(spawned, after) ==
    /\ clock' = (clock + 1) % road.cycle
    /\ veh' = after.veh
    /\ place' = after.place
    /\ order' = Remaining(spawned.order, after.place)
    /\ queue' = spawned.queue
    /\ until' = [o \in DOMAIN until |-> IF spawned.queue[o] = << >> THEN 0 ELSE spawned.until[o]]

StepsOn(spawned, held) ==
    Settles(spawned, Stranded(Moved([veh |-> spawned.veh, place |-> spawned.place], held), spawned.order))

Tick(intervals, held) ==
    LET due == [o \in DOMAIN until |-> IF until[o] > -MaxLag THEN until[o] - 1 ELSE -MaxLag]
    IN  StepsOn(Spawned([veh |-> veh, place |-> place, order |-> order, queue |-> queue,
                        until |-> due], intervals), held)

\* Vehicles under no command but the reference policy's.
FreeTick ==
    /\ \E intervals \in [DOMAIN road.demand -> 1..MaxInterval] : Tick(intervals, {})
    /\ UNCHANGED <<road, dawdles>>

\* A controller brakes one vehicle for a tick.
DawdleTick ==
    /\ dawdles < MaxDawdles
    /\ \E v \in Ids :
        /\ place[v] \notin Away
        /\ Tick([o \in DOMAIN road.demand |-> 1], {v})
    /\ dawdles' = dawdles + 1
    /\ UNCHANGED road

KernelNext == FreeTick \/ DawdleTick

\* The loop that runs the engine goes on ticking; every tick moves the clock.
Passes == clock' = (clock + 1) % road.cycle

KernelSpec == KernelInit /\ [][KernelNext]_kernelVars /\ WF_clock(Passes)
----------------------------------------------------------------------------
(* Properties.                                                             *)

Traffic == [veh |-> veh, place |-> place]

\* What the light of lane l shows in tick t of the cycle.
Shown(n, l, t) == IF n.light[l] = << >> THEN "off" ELSE n.light[l][t + 1]
Before(n, t) == IF t = 0 THEN n.cycle - 1 ELSE t - 1

\* The light lets a vehicle into lane l in tick t: it does not hold it, or did
\* not when the vehicle could still stop, or there is no road to stop on.
Enterable(n, l, t) ==
    \/ Shown(n, l, t) \notin {"red", "amber"}
    \/ Shown(n, l, Before(n, t)) \notin {"red", "amber"}
    \/ \E p \in n.prevs[l] : n.len[p] = 1
Yields(n, l, t) == n.row[l] # "none" \/ Shown(n, l, t) = "permissive"

\* Somebody decides between any two foes at any time: a light that separates
\* them, or a duty to yield ("crossing foes of a major approach are minor
\* themselves and do the yielding"; signalised lanes have no other class).
Arbitrated(n) ==
    \A l \in n.lanes : \A f \in FoesOf(n, l) :
        /\ n.row[l] # "none" <=> n.light[l] = << >>
        /\ n.row[l] = "major" =>
               n.row[f] \in {"minor", "stop"} \cup (IF f \in n.cross[l] THEN {} ELSE {"major"})
        /\ \A t \in 0..n.cycle - 1 :
               /\ n.light[l] # << >> => Shown(n, l, t) # "off"
               /\ Enterable(n, l, t) /\ Enterable(n, f, t) => Yields(n, l, t) \/ Yields(n, f, t)

\* Where several lanes lead into one, they come out of junctions.
MergesInJunctions(n) ==
    \A l \in n.lanes : \A p, q \in n.prevs[l] : p # q => n.box[p] /\ n.box[q]

(***************************************************************************)
(* Vehicles on crossing or merging paths are never inside a junction       *)
(* together: what the box walk, the yield rules and the lights are for     *)
(* (rightofway.go, rowConflict and boxWalk; signal.go, sigGate).           *)
(***************************************************************************)
SafeBox == \A l \in road.lanes : On(Traffic, l) # {} => ~FoeInside(Traffic, l)

(***************************************************************************)
(* No crossing of a lane boundary lands on another vehicle: the kernel     *)
(* counts such landings in CrossOverlaps, and only the gates of shared     *)
(* exits prevent them (engine.go, boundaries; rightofway.go, mergeThreat). *)
(***************************************************************************)
NoCrossOverlap ==
    \A v, w \in Live(Traffic) :
        v # w /\ place[v] = place[w] => veh[v].pos # veh[w].pos

(***************************************************************************)
(* The escape takes no more vehicles than the jam needs: one to open a     *)
(* closed ring, and none on a network without a ring on which no foe is in *)
(* the box before a red that has lasted StrandAfter (gridlock.go,          *)
(* jammedAtJunction and resetStuckBehind).  Where one is, the escape takes *)
(* a vehicle without any ring: that is RedIsNoTrigger, which fails.        *)
(***************************************************************************)
MinimalEscape == Cardinality({v \in Ids : place[v] = "stranded"}) <= road.bleed

(***************************************************************************)
(* Everybody gets through: neither mutual yielding nor a closed ring of    *)
(* full junctions holds a vehicle for ever (rightofway.go,                 *)
(* foeApproachBlocks; gridlock.go, strandStuck).                           *)
(***************************************************************************)
EveryoneLeaves == <>(\A v \in Ids : place[v] \in {"left", "stranded"})

(***************************************************************************)
(* "A red light is deliberately NOT a trigger ... A signal queue, however  *)
(* punishing the cycle, never reaches the escape" (gridlock.go,            *)
(* jammedAtJunction): nobody is stranded while its own light is red.  The  *)
(* code does not keep this: the run long_red shows a vehicle taken at its  *)
(* red in the tick in which crossing traffic is in the box.                *)
(***************************************************************************)
RedIsNoTrigger ==
    [][\A v \in Ids :
          place[v] \notin Away /\ place'[v] = "stranded" => Light(Picked(place[v], v)) # "red"
      ]_kernelVars
=============================================================================
