------------------------------ MODULE Metrics -------------------------------
(***************************************************************************)
(* The metric kernel (src/engine/metrics.go): an observer that sees every  *)
(* vehicle's lane and position once per tick, after the tick, and rebuilds *)
(* from those samples where the vehicle has driven.  Its records are the   *)
(* run's results: trips, per-lane interval sums and run totals.            *)
(*                                                                         *)
(* What makes it hard is what the samples hide.  A vehicle may cross       *)
(* several short lanes within a tick; the boundary sweep runs over the     *)
(* lanes in descending index, so a vehicle that crosses into a lane of a   *)
(* higher index is not moved on and is seen past the end of that lane; it  *)
(* may hop sideways after crossing; and it may enter and leave between two *)
(* samples.  The traffic is therefore modelled with the kernel's own       *)
(* boundary sweep (engine.go) and free speeds out of a few slots per tick,  *)
(* and `driven' keeps the distance really driven.  Of the quantities       *)
(* split over lanes only distance is modelled: time, occupancy and time    *)
(* loss are booked along the same shares.  A lane that succeeds itself     *)
(* (Observe's wrap case) is left out.                                      *)
(***************************************************************************)
EXTENDS Integers, Sequences, FiniteSets, SequencesExt

CONSTANTS
    LaneOrder,      \* the lanes, a sequence in the engine's index order
    LaneLen,        \* lane -> its length in slots
    LaneNext,       \* lane -> its successors, a sequence
    ExitLanes,      \* the lanes that lead out of the network
    OriginLanes,    \* the lanes the spawner feeds
    Sideways,       \* lane -> the lane beside it, or "none"
    Route,          \* destination -> lane -> the successor on the way there
    Gardens,        \* <<lane, slot>>: the places for injections inside a lane
    Moves,          \* the distances a vehicle may move in a tick, in slots
    Sets,           \* name -> the measurement set: begin, period and last tick (0: none)
    MaxCrossDepth,  \* bound of the chain searches, as in the code
    MaxTick,        \* bound: ticks in a run
    MaxId           \* bound: vehicle ids issued

ASSUME MetricsAssumption ==
    /\ {MaxCrossDepth, MaxTick, MaxId} \subseteq Nat
    /\ Moves \subseteq Nat
    /\ \A s \in DOMAIN Sets :
        /\ Sets[s].begin \in Nat /\ Sets[s].period \in Nat \ {0}
        /\ Sets[s].last = 0 \/ Sets[s].last > Sets[s].begin

VARIABLES
    now,        \* engine tick
    at,         \* id -> the vehicle's lane, position, destination
    nextId,     \* the next id to issue
    pend,       \* origin -> the id and due tick of its pending spawn
    seen,       \* id -> the kernel's previous observation of it
    trip,       \* id -> distance of the open trip
    trips,      \* the trip records
    vmt,        \* run total distance
    dropped,    \* droppedCrossings
    gaps,       \* pendingGaps
    met,        \* ids ever observed (seenIDs)
    acc,        \* set -> lane -> distance in the open interval
    open,       \* set -> first and last observation tick of the open interval
    records,    \* the interval records
    final,      \* Finalize has run
    driven      \* id -> distance really driven in the network (history)

trafficVars == <<now, at, nextId, pend, driven>>
observerVars == <<seen, trip, trips, vmt, dropped, gaps, met, acc, open, records, final>>
metricVars == <<trafficVars, observerVars>>

LaneSet == {LaneOrder[i] : i \in DOMAIN LaneOrder}
Index(l) == CHOOSE i \in DOMAIN LaneOrder : LaneOrder[i] = l
Nexts(l) == {LaneNext[l][i] : i \in DOMAIN LaneNext[l]}
Total(f, S) == FoldSet(LAMBDA x, sum : f[x] + sum, 0, S)

----------------------------------------------------------------------------
(* The traffic.                                                            *)

\* The branch taken at the end of a lane: the route's, else the turn held.
Branch(l, dest, turn) ==
    IF dest \in DOMAIN Route THEN Route[dest][l]
    ELSE LaneNext[l][IF turn = "left" THEN 1 ELSE Len(LaneNext[l])]

\* Where a vehicle that stands at slot s of lane l after its motion is after
\* the boundary sweep, and the distance it drove beyond the network's edge.
Swept(l, s, dest, turn) ==
    LET walk[hops \in 0..Len(LaneOrder)] ==
            IF hops = 0 THEN [lane |-> l, s |-> s, beyond |-> 0, visited |-> FALSE]
            ELSE LET v == walk[hops - 1]
                 IN  IF v.visited \/ v.s <= LaneLen[v.lane] THEN v
                     ELSE IF v.lane \in ExitLanes \/ v.lane = dest
                     THEN [v EXCEPT !.lane = "away", !.beyond = v.s - LaneLen[v.lane],
                                    !.visited = TRUE]
                     ELSE LET n == Branch(v.lane, dest, turn)
                          IN  [v EXCEPT !.lane = n, !.s = v.s - LaneLen[v.lane],
                                        !.visited = Index(n) > Index(v.lane)]
    IN  walk[Len(LaneOrder)]

\* A vehicle after a tick in which it moved d slots, and hopped if it could.
After(v, d, turn, hop) ==
    LET w == Swept(v.lane, v.s + d, v.dest, turn)
        aside == IF w.lane = "away" THEN "none" ELSE Sideways[w.lane]
    IN  [lane |-> IF hop /\ aside # "none" THEN aside ELSE w.lane,
         s |-> w.s, dest |-> v.dest, beyond |-> w.beyond]

----------------------------------------------------------------------------
(* Where a vehicle drove between two observations.                         *)

\* The successor chains from a lane to the first lanes of a set, each lane
\* once; and whether the depth bound cut the search.
FindChains(from, targets) ==
    LET \* the simple paths of n hops that have not met a target yet
        paths[n \in 0..MaxCrossDepth] ==
            IF n = 0 THEN {<<from>>}
            ELSE UNION {{Append(p, l) : l \in Nexts(Last(p)) \ ToSet(p)} :
                            p \in {q \in paths[n - 1] : n = 1 \/ Last(q) \notin targets}}
        all == UNION {{p \in paths[n] : Last(p) \in targets} : n \in 1..MaxCrossDepth}
    IN  [chains |-> all,
         cut |-> \E p \in paths[MaxCrossDepth] :
                     Last(p) \notin targets /\ Nexts(Last(p)) \ ToSet(p) # {}]

Shortest(chains) == CHOOSE c \in chains : \A d \in chains : Len(c) <= Len(d)

\* The lanes of a chain after the first, in full.
InFull(lanes) == [i \in DOMAIN lanes |-> [lane |-> lanes[i], d |-> LaneLen[lanes[i]]]]
Share(l, d) == <<[lane |-> l, d |-> d]>>

\* As below, but the distance past the old lane's end is not given back.
SplitKeepsOvershoot(prev, lane, s) ==
    LET chain == Shortest(FindChains(prev.lane, {lane}).chains \cup {<<prev.lane, lane>>})
        rest == LaneLen[prev.lane] - prev.s
    IN  [shares |-> Share(prev.lane, IF rest < 0 THEN 0 ELSE rest) \o Share(Last(chain), s),
         dropped |-> 0]

\* At least one boundary was crossed: the rest of the old lane (negative if
\* the vehicle had been seen past its end), the lanes between in full, and
\* the position on the lane of arrival.
SplitTick(prev, lane, s) ==
    LET found == FindChains(prev.lane, {l \in LaneSet : l = lane \/ Sideways[l] = lane})
        chain == IF found.chains = {} THEN <<prev.lane, lane>> ELSE Shortest(found.chains)
    IN  [shares |-> Share(prev.lane, LaneLen[prev.lane] - prev.s)
                    \o InFull(SubSeq(chain, 2, Len(chain) - 1))
                    \o Share(Last(chain), s),
         dropped |-> IF Cardinality(found.chains) # 1 \/ found.cut THEN 1 ELSE 0]

\* What one vehicle-tick books; entry: the slot it was injected at, -1 for
\* a vehicle that came from the spawner.
Booked(prev, lane, s, entry) ==
    IF prev.lane = "none"
    THEN [shares |-> Share(lane, IF entry < 0 THEN s ELSE IF s < entry THEN 0 ELSE s - entry),
          dropped |-> IF entry < 0 /\ lane \notin OriginLanes THEN 1 ELSE 0]
    ELSE IF prev.lane = lane
    THEN [shares |-> Share(lane, s - prev.s), dropped |-> 0]
    ELSE IF Sideways[prev.lane] = lane
    THEN [shares |-> Share(prev.lane, IF s < prev.s THEN 0 ELSE s - prev.s), dropped |-> 0]
    ELSE SplitTick(prev, lane, s)

\* The last tick of a vehicle that is gone: to the end of an exit lane, or of
\* its destination; of a lane before it only if the way out is the only one.
ExitShares(prev) ==
    LET rest == Share(prev.lane, LaneLen[prev.lane] - prev.s)
        toDest == IF prev.dest \in LaneSet THEN FindChains(prev.lane, {prev.dest})
                  ELSE [chains |-> {}, cut |-> FALSE]
        way == IF toDest.chains # {} THEN toDest ELSE FindChains(prev.lane, ExitLanes)
        ends == {Last(c) : c \in way.chains}
    IN  IF prev.lane \in ExitLanes \/ prev.lane = prev.dest
        THEN [shares |-> rest, dropped |-> 0]
        ELSE IF Cardinality(ends) # 1 \/ Cardinality(way.chains) > 1 \/ way.cut
        THEN [shares |-> rest, dropped |-> 1]
        ELSE [shares |-> rest \o InFull(Tail(Shortest(way.chains))), dropped |-> 0]

Distance(shares) == FoldLeft(LAMBDA sum, x : sum + x.d, 0, shares)
OnLane(shares, l) == Distance(SelectSeq(shares, LAMBDA x : x.lane = l))

----------------------------------------------------------------------------
(* Measurement sets.                                                       *)

\* The observation tick lies in the set's window.
InWindow(set, t) == t > Sets[set].begin /\ (Sets[set].last = 0 \/ t <= Sets[set].last)

\* The records of one closed interval.
Closing(set, a, first, last, partial) ==
    {[set |-> set, lane |-> l, begin |-> first - 1, end |-> last, partial |-> partial,
      dist |-> a[l]] : l \in LaneSet}

Zero == [l \in LaneSet |-> 0]

\* As below, but a set that ends within an interval never closes it.
DueForgetsLast(set, o, t) ==
    IF o.last <= t THEN "whole" ELSE "no"

\* Whether the open interval ends with observation t, whole or cut by the set's end.
Due(set, o, t) ==
    LET last == Sets[set].last
    IN  IF o.last <= t /\ (last = 0 \/ o.last <= last) THEN "whole"
        ELSE IF last > 0 /\ t >= last /\ o.first <= last THEN "cut"
        ELSE "no"

----------------------------------------------------------------------------

\* A run: possibly a vehicle placed before the kernel attaches.
MetricsInit ==
    /\ now = 0
    /\ at = << >>
    /\ pend \in [OriginLanes -> [id : 1..Cardinality(OriginLanes), due : 1..2]]
    /\ \A o, p \in OriginLanes : o # p => pend[o].id # pend[p].id
    /\ nextId = Cardinality(OriginLanes) + 1
    /\ seen = << >> /\ trip = << >> /\ trips = {} /\ vmt = 0 /\ dropped = 0
    /\ gaps = {} /\ met = {} /\ records = {} /\ final = FALSE
    /\ acc = [s \in DOMAIN Sets |-> Zero]
    /\ open = [s \in DOMAIN Sets |-> [first |-> Sets[s].begin + 1,
                                      last |-> Sets[s].begin + Sets[s].period]]
    /\ driven = << >>

Unseen == [lane |-> "none", s |-> 0, dest |-> "none"]
Prev(v) == IF v \in DOMAIN seen THEN seen[v] ELSE Unseen

\* Observe, given the traffic after the tick, the slots of this tick's
\* injections and the ids the escape removed.
Observe(after, injected, stranded) ==
    LET t == now'
        gone == DOMAIN seen \ DOMAIN after
        out == gone \ stranded
        \* a vehicle's booking, and its despawn's
        book == [v \in DOMAIN after \cup gone |->
                    IF v \in DOMAIN after
                    THEN Booked(Prev(v), after[v].lane, after[v].s,
                                IF v \in DOMAIN injected THEN injected[v] ELSE -1)
                    ELSE IF v \in out THEN ExitShares(seen[v])
                    ELSE [shares |-> << >>, dropped |-> 0]]
        dist == [v \in DOMAIN book |->
                    (IF v \in DOMAIN trip THEN trip[v] ELSE 0) + Distance(book[v].shares)]
        new == DOMAIN after \ met
        top == IF met = {} THEN 0 ELSE Max(met)
        skipped == {i \in 1..MaxId : i > top /\ new # {} /\ i < Max(new)} \ new
        sum == [set \in DOMAIN Sets |->
                   [l \in LaneSet |->
                       acc[set][l] + IF InWindow(set, t)
                                     THEN Total([v \in DOMAIN book |-> OnLane(book[v].shares, l)],
                                                DOMAIN book)
                                     ELSE 0]]
        due == [set \in DOMAIN Sets |-> Due(set, open[set], t)]
        over == [set \in DOMAIN Sets |-> IF due[set] = "cut" THEN Sets[set].last
                                         ELSE open[set].last]
    IN  /\ seen' = [v \in DOMAIN after |->
                       [lane |-> after[v].lane, s |-> after[v].s, dest |-> after[v].dest]]
        /\ trip' = [v \in DOMAIN after |-> dist[v]]
        /\ trips' = trips \cup
             {[id |-> v, dist |-> dist[v], end |-> IF v \in out THEN "left" ELSE "stranded"] :
                  v \in gone}
        /\ vmt' = vmt + Total([v \in DOMAIN book |-> Distance(book[v].shares)], DOMAIN book)
        /\ dropped' = dropped + Total([v \in DOMAIN book |-> book[v].dropped], DOMAIN book)
        /\ gaps' = (gaps \cup skipped) \ new
        /\ met' = met \cup new
        /\ records' = records \cup
             UNION {Closing(set, sum[set], open[set].first, over[set], due[set] = "cut") :
                        set \in {x \in DOMAIN Sets : due[x] # "no"}}
        /\ acc' = [set \in DOMAIN Sets |-> IF due[set] = "no" THEN sum[set] ELSE Zero]
        /\ open' = [set \in DOMAIN Sets |->
                       IF due[set] = "no" THEN open[set]
                       ELSE [first |-> over[set] + 1,
                             last |-> open[set].last
                                      + IF due[set] = "whole" THEN Sets[set].period ELSE 0]]
        /\ UNCHANGED final

\* One tick of the traffic and its observation: at most one vehicle enters, by
\* the spawner or inside a lane; every vehicle moves; at most one hops, or is
\* removed by the escape.
Vehicles(enter) == DOMAIN at \cup DOMAIN enter

Move(enter, injected, pendAfter, issued) ==
    \E moves \in [Vehicles(enter) -> Moves], turn \in {"left", "right"},
       hops \in SUBSET Vehicles(enter), stranded \in SUBSET DOMAIN at :
        LET from == [v \in Vehicles(enter) |-> IF v \in DOMAIN at THEN at[v] ELSE enter[v]]
            to == [v \in Vehicles(enter) |-> After(from[v], moves[v], turn, v \in hops)]
            stay == {v \in Vehicles(enter) \ stranded : to[v].lane # "away"}
            after == [v \in stay |-> [lane |-> to[v].lane, s |-> to[v].s, dest |-> to[v].dest]]
        IN  /\ Cardinality(hops) + Cardinality(stranded) <= 1
            /\ \A v \in hops : to[v].lane # Swept(from[v].lane, from[v].s + moves[v],
                                                  from[v].dest, turn).lane
            /\ \A v \in stranded : moves[v] = 0 /\ at[v].s <= LaneLen[at[v].lane]
            /\ at' = after
            /\ driven' = [v \in DOMAIN driven \cup Vehicles(enter) |->
                             IF v \notin Vehicles(enter) THEN driven[v]
                             ELSE (IF v \in DOMAIN driven THEN driven[v] ELSE 0)
                                  + moves[v] - to[v].beyond]
            /\ pend' = pendAfter
            /\ nextId' = issued
            /\ Observe(after, injected, stranded)

Running == ~final /\ now < MaxTick

\* Nobody enters.
QuietTick ==
    /\ Running
    /\ now' = now + 1
    /\ Move(<< >>, << >>, pend, nextId)

\* The due pending spawn of an origin enters and the next one is scheduled; an
\* id is issued for it while the bound allows one.
SpawnTick ==
    /\ Running
    /\ now' = now + 1
    /\ \E o \in OriginLanes, dest \in DOMAIN Route \cup {"none"}, interval \in 1..2 :
        /\ pend[o].id # 0 /\ pend[o].due <= now + 1
        /\ LET more == nextId <= MaxId
           IN  Move([v \in {pend[o].id} |-> [lane |-> o, s |-> 0, dest |-> dest]], << >>,
                    [pend EXCEPT ![o] = [id |-> IF more THEN nextId ELSE 0,
                                         due |-> @.due + interval]],
                    IF more THEN nextId + 1 ELSE nextId)

\* A director's vehicle enters inside a lane.
InjectTick ==
    /\ Running /\ nextId <= MaxId
    /\ now' = now + 1
    /\ \E g \in Gardens, dest \in DOMAIN Route \cup {"none"} :
        Move([v \in {nextId} |-> [lane |-> g[1], s |-> g[2], dest |-> dest]],
             [v \in {nextId} |-> g[2]], pend, nextId + 1)

\* The vehicles that came and went between two observations.
Invisible(pending) == Cardinality((1..nextId - 1) \ (met \cup pending))

\* What the horizon books for a vehicle seen past the end of its lane: the
\* excess is taken back, and given to the next lane if there is only one.
Excess(v) == LET over == seen[v].s - LaneLen[seen[v].lane] IN IF over > 0 THEN over ELSE 0
Sole(v) == Len(LaneNext[seen[v].lane]) = 1
PastEnd(v) == IF Excess(v) = 0 THEN << >>
              ELSE Share(seen[v].lane, -Excess(v))
                   \o IF Sole(v) THEN Share(LaneNext[seen[v].lane][1], Excess(v)) ELSE << >>

\* The run is cut at this tick: open trips and intervals are closed as partial.
Finalize ==
    /\ ~final
    /\ final' = TRUE
    /\ LET pending == {pend[o].id : o \in OriginLanes}
           back == [v \in DOMAIN seen |-> Distance(PastEnd(v))]
           sum == [set \in DOMAIN Sets |->
                      [l \in LaneSet |->
                          acc[set][l] + IF InWindow(set, now)
                                        THEN Total([v \in DOMAIN seen |-> OnLane(PastEnd(v), l)],
                                                   DOMAIN seen)
                                        ELSE 0]]
           end == [set \in DOMAIN Sets |-> IF Sets[set].last > 0 /\ Sets[set].last < now
                                           THEN Sets[set].last ELSE now]
           left == {set \in DOMAIN Sets : open[set].first <= end[set]}
       IN  /\ vmt' = vmt + Total(back, DOMAIN seen)
           /\ dropped' = dropped + Invisible(pending)
                         + Cardinality({v \in DOMAIN seen : Excess(v) > 0 /\ ~Sole(v)})
           /\ gaps' = {}
           /\ trips' = trips \cup {[id |-> v, dist |-> trip[v] + back[v], end |-> "horizon"] :
                                       v \in DOMAIN trip}
           /\ trip' = << >>
           /\ records' = records \cup
                UNION {Closing(set, sum[set], open[set].first, end[set], TRUE) : set \in left}
           /\ acc' = [set \in DOMAIN Sets |-> IF set \in left THEN Zero ELSE sum[set]]
           /\ open' = [set \in DOMAIN Sets |-> IF set \in left
                                               THEN [open[set] EXCEPT !.first = end[set] + 1]
                                               ELSE open[set]]
    /\ UNCHANGED <<trafficVars, seen, met>>

MetricsNext == QuietTick \/ SpawnTick \/ InjectTick \/ Finalize
MetricsSpec == MetricsInit /\ [][MetricsNext]_metricVars

----------------------------------------------------------------------------
(* Properties.                                                             *)

(***************************************************************************)
(* The results are exact or they say that they are not: if the run counts  *)
(* no dropped crossing, the total and every trip hold the distance really  *)
(* driven, and every vehicle has one trip (metrics.go, Totals: "the        *)
(* undercount risk is surfaced here, never silent").  It holds of vehicles *)
(* that enter at a lane's start, or inside a lane so far from its end that *)
(* the first tick does not lead out.  Nearer to the end the first distance *)
(* is clamped to 0 and nothing is counted (metrics.go, Observe): the       *)
(* property fails with Gardens <- MCCorner of MCRecords.                   *)
(***************************************************************************)
LoudOrExact ==
    final /\ dropped = 0 =>
        /\ vmt = Total(driven, DOMAIN driven)
        /\ \A r \in trips : r.dist = driven[r.id]
        /\ \A v \in DOMAIN driven : Cardinality({r \in trips : r.id = v}) = 1

(***************************************************************************)
(* The interval records of a set tile its window: they meet without gap or *)
(* overlap up to the horizon or the set's last tick, only the last may be  *)
(* partial, and those of a set over the whole run add up to its total      *)
(* (metrics.go, closeDue, Finalize).                                       *)
(***************************************************************************)
IntervalsAddUp ==
    final => \A set \in DOMAIN Sets :
        LET mine == {r \in records : r.set = set}
            spans == {<<r.begin, r.end>> : r \in mine}
            last == IF Sets[set].last > 0 /\ Sets[set].last < now THEN Sets[set].last ELSE now
        IN  /\ \A t \in Sets[set].begin .. last - 1 :
                  Cardinality({x \in spans : x[1] <= t /\ t < x[2]}) = 1
            /\ \A r \in mine :
                  /\ r.begin >= Sets[set].begin
                  /\ r.end <= last
                  /\ r.partial <=> (r.end - r.begin < Sets[set].period)
            /\ Sets[set].begin = 0 /\ Sets[set].last = 0 =>
                  vmt = Total([r \in mine |-> r.dist], mine)
=============================================================================
