--------------------------- MODULE Junction_proofs ---------------------------
(***************************************************************************)
(* Theorems about Junction, for every network and every traffic.           *)
(***************************************************************************)
EXTENDS Junction, TLAPS, WellFoundedInduction

----------------------------------------------------------------------------
(* Recursion: a walk of N steps exists, and stays in what its steps keep.  *)

\* A walk that leaves a set it starts in leaves it at a step.
LEMMA KeptByWalk ==
    ASSUME NEW N \in Nat, NEW f, NEW S, f[0] \in S,
           \A i \in 1..N : f[i - 1] \in S => f[i] \in S
    PROVE  \A i \in 0..N : f[i] \in S
<1> DEFINE B == {i \in 0..N : f[i] \notin S}
<1> SUFFICES ASSUME B # {} PROVE FALSE
    OBVIOUS
<1>1. B \subseteq Nat
    OBVIOUS
<1>2. PICK b \in B : \A y \in B : ~ (<<y, b>> \in OpToRel(<, Nat))
    BY <1>1, WFMin, NatLessThanWellFounded
<1>3. \A y \in B : b <= y
    <2> TAKE y \in B
    <2>1. y \in Nat /\ b \in Nat
        BY <1>1
    <2>2. ~ (y < b)
        BY <1>2, <2>1 DEF OpToRel
    <2> QED BY <2>1, <2>2
<1>4. b # 0 /\ b \in 1..N
    OBVIOUS
<1>5. b - 1 \notin B
    BY <1>3, <1>4
<1>6. f[b - 1] \in S
    BY <1>4, <1>5
<1> QED BY <1>4, <1>6

\* From where a walk rests it goes no further.
LEMMA RestingWalk ==
    ASSUME NEW N \in Nat \ {0}, NEW f, NEW rest, f[1] = rest,
           \A i \in 2..N : f[i - 1] = rest => f[i] = rest
    PROVE  f[N] = rest
<1> DEFINE g == [i \in 0..N - 1 |-> f[i + 1]]
<1>1. g[0] \in {rest} /\ N - 1 \in Nat
    OBVIOUS
<1>2. \A i \in 1..N - 1 : g[i - 1] \in {rest} => g[i] \in {rest}
    <2> TAKE i \in 1..N - 1
    <2>1. i + 1 \in 2..N /\ g[i - 1] = f[i] /\ g[i] = f[i + 1]
        OBVIOUS
    <2> QED BY <2>1
<1>3. \A i \in 0..N - 1 : g[i] \in {rest}
    <2> HIDE DEF g
    <2> QED BY <1>1, <1>2, KeptByWalk
<1> QED BY <1>3

\* f is the walk of N steps in S from a whose i-th step is F[i].
IsWalk(N, S, a, F, f) ==
    f \in [0..N -> S] /\ f[0] = a /\ \A i \in 1..N : f[i] = F[i][f[i - 1]]

\* There is such a walk.
LEMMA WalkExists ==
    ASSUME NEW N \in Nat, NEW S, NEW a \in S, NEW F, F \in [1..N -> [S -> S]]
    PROVE  \E f : IsWalk(N, S, a, F, f)
<1> DEFINE P(n) == \E f \in [0..n -> S] : f[0] = a /\ \A i \in 1..n : f[i] = F[i][f[i - 1]]
<1> DEFINE h == [n \in 0..N |-> IF P(n) THEN 1 ELSE 0]
<1>1. P(0)
    <2> DEFINE f == [i \in 0..0 |-> a]
    <2>1. f \in [0..0 -> S] /\ f[0] = a /\ \A i \in 1..0 : f[i] = F[i][f[i - 1]]
        OBVIOUS
    <2> QED BY <2>1
<1>2. ASSUME NEW n \in 1..N, P(n - 1) PROVE P(n)
    <2>1. PICK f \in [0..n - 1 -> S] : f[0] = a /\ \A i \in 1..n - 1 : f[i] = F[i][f[i - 1]]
        BY <1>2
    <2> DEFINE g == [i \in 0..n |-> IF i = n THEN F[n][f[n - 1]] ELSE f[i]]
    <2>2. F[n][f[n - 1]] \in S
        <3>1. f[n - 1] \in S
            BY <2>1
        <3> QED BY <3>1
    <2>3. g \in [0..n -> S]
        BY <2>1, <2>2
    <2>4. g[0] = a
        BY <2>1
    <2>5. ASSUME NEW i \in 1..n PROVE g[i] = F[i][g[i - 1]]
        <3>1. g[i - 1] = f[i - 1]
            OBVIOUS
        <3>2. CASE i = n
            <4>1. g[n] = F[n][f[n - 1]]
                OBVIOUS
            <4> HIDE DEF g
            <4> QED BY <4>1, <3>1, <3>2
        <3>3. CASE i # n
            <4>1. i \in 1..n - 1 /\ g[i] = f[i]
                BY <3>3
            <4> QED BY <4>1, <3>1, <2>1
        <3> QED BY <3>2, <3>3
    <2> HIDE DEF g
    <2> QED BY <2>3, <2>4, <2>5
<1> HIDE DEF P
<1>3. h[0] \in {1} /\ \A i \in 1..N : h[i - 1] \in {1} => h[i] \in {1}
    <2>1. h[0] \in {1}
        BY <1>1
    <2>2. ASSUME NEW i \in 1..N, h[i - 1] \in {1} PROVE h[i] \in {1}
        <3>1. i - 1 \in 0..N /\ i \in 0..N
            OBVIOUS
        <3>2. P(i - 1)
            BY <3>1, <2>2
        <3>3. P(i)
            BY <3>2, <1>2
        <3> QED BY <3>1, <3>3
    <2> QED BY <2>1, <2>2
<1>4. h[N] \in {1} /\ N \in 0..N
    <2> HIDE DEF h
    <2>1. \A i \in 0..N : h[i] \in {1}
        BY <1>3, KeptByWalk
    <2>2. N \in 0..N
        OBVIOUS
    <2> QED BY <2>1, <2>2
<1>5. P(N)
    BY <1>4
<1> QED BY <1>5 DEF P, IsWalk

----------------------------------------------------------------------------
(* Types.                                                                  *)

VehType == [pos : Nat, moving : BOOLEAN, stopDone : BOOLEAN, stuck : Nat]
SceneType == [veh : [Ids -> VehType], place : [Ids -> road.lanes \cup Away]]

\* Nobody is past the end of its lane.
Inside(s) == \A v \in Ids : s.place[v] \in road.lanes => s.veh[v].pos <= road.len[s.place[v]]
Scene(s) == s \in SceneType /\ Inside(s)

\* The network is one of those the model assumes.
LEMMA RoadIsNetwork ==
    ASSUME road \in Nets
    PROVE  Network(road) /\ MutualFoes(road)
BY JunctionAssumption

\* The branch a vehicle takes is one of the successors.
LEMMA PickedIsSuccessor ==
    ASSUME road \in Nets, NEW l \in road.lanes, road.succ[l] # << >>, NEW v
    PROVE  Picked(l, v) \in road.lanes /\ l \in Prevs(Picked(l, v))
<1>1. road.succ[l] \in Seq(road.lanes)
    BY RoadIsNetwork DEF Network
<1>2. \E i \in DOMAIN road.succ[l] : Picked(l, v) = road.succ[l][i]
    <2>1. 1 \in DOMAIN road.succ[l]
        BY <1>1
    <2> QED BY <2>1 DEF Picked
<1>3. PICK i \in DOMAIN road.succ[l] : Picked(l, v) = road.succ[l][i]
    BY <1>2
<1>4. road.succ[l][i] \in road.lanes
    BY <1>1, <1>3
<1>5. l \in road.prevs[road.succ[l][i]]
    BY RoadIsNetwork, <1>3 DEF Network
<1> QED BY <1>3, <1>4, <1>5 DEF Prevs

----------------------------------------------------------------------------
(* What the walks return.                                                  *)

\* X is the walk that GateTarget looks at the end of, and so on for the others.
IsGateWalk(s, v, X) ==
    X = [hops \in 0..MaxLaneHops |->
            IF hops = 0 THEN [lane |-> s.place[v], dist |-> ToEnd(s, v), found |-> FALSE]
            ELSE IF X[hops - 1].found \/ road.succ[X[hops - 1].lane] = << >> THEN X[hops - 1]
                 ELSE GateStep(X[hops - 1], Picked(X[hops - 1].lane, v))]

ExitStart(s, v, l) == [lane |-> l, free |-> 0, dist |-> road.len[l] - s.veh[v].pos,
                       end |-> FALSE, pass |-> FALSE, foe |-> FALSE, seal |-> FALSE]
IsExitWalk(s, v, l, inBox, X) ==
    X = [hops \in 0..MaxLaneHops |->
            IF hops = 0 THEN ExitStart(s, v, l)
            ELSE IF X[hops - 1].end \/ road.succ[X[hops - 1].lane] = << >> THEN X[hops - 1]
                 ELSE ExitStep(s, v, X[hops - 1], Picked(X[hops - 1].lane, v), inBox)]

IsEntryWalk(s, v, X) ==
    X = [hops \in 0..MaxLaneHops |->
            IF hops = 0 THEN [lane |-> s.place[v], dist |-> 0, gap |-> -1]
            ELSE IF X[hops - 1].gap >= 0 \/ X[hops - 1].lane = "none" THEN X[hops - 1]
                 ELSE EntryStep(s, v, X[hops - 1], On(s, X[hops - 1].lane) \ {v})]

Siblings(cur, exit) == {[lane |-> p, dist |-> 0] : p \in Prevs(exit) \ {cur}}
Upstream(at) == {[lane |-> p, dist |-> at.dist + road.len[at.lane]] : p \in Prevs(at.lane)}
Farther(s, near, distV) ==
    near \cup UNION {{b \in Upstream(at) : b.dist < distV} : at \in {a \in near : On(s, a.lane) = {}}}
IsReach(s, cur, exit, distV, X) ==
    X = [n \in 0..MaxLaneHops |->
            IF n = 0 THEN Siblings(cur, exit) ELSE Farther(s, X[n - 1], distV)]
Beats(s, v, distV, at) ==
    /\ On(s, at.lane) # {}
    /\ LET w == Foremost(s, at.lane)
           d == at.dist + road.len[at.lane] - s.veh[w].pos
       IN  d < distV \/ (d = distV /\ w < v)

IsSpawns(st, intervals, X) ==
    X = [i \in 0..Len(road.origins) |->
            IF i = 0 THEN st
            ELSE SpawnAt(road.origins[i], X[i - 1], intervals[road.origins[i]])]

IsSweep(s, registered, X) ==
    X = [i \in 0..Len(registered) |->
            IF i = 0 THEN s ELSE StrandOne(X[i - 1], registered[i])]

IsRegistry(registered, where, X) ==
    X = [i \in 0..Len(registered) |->
            IF i = 0 THEN << >>
            ELSE IF where[registered[i]] \in Away THEN X[i - 1]
            ELSE Append(X[i - 1], registered[i])]

\* Each operator returns the end of a walk, once there is one.
LEMMA GateTargetIsWalk ==
    ASSUME NEW s, NEW v, \E W : IsGateWalk(s, v, W)
    PROVE  \E X : IsGateWalk(s, v, X) /\ GateTarget(s, v) = GateOf(X[MaxLaneHops])
BY Zenon DEF GateTarget, IsGateWalk

LEMMA ExitWalkIsWalk ==
    ASSUME NEW s, NEW v, NEW l, NEW inBox, \E W : IsExitWalk(s, v, l, inBox, W)
    PROVE  \E X : IsExitWalk(s, v, l, inBox, X) /\ ExitWalk(s, v, l, inBox) = RoomOf(X[MaxLaneHops])
BY Zenon DEF ExitWalk, IsExitWalk, ExitStart

LEMMA EntryGapIsWalk ==
    ASSUME NEW s, NEW v, \E W : IsEntryWalk(s, v, W)
    PROVE  \E X : IsEntryWalk(s, v, X) /\ EntryGap(s, v) = X[MaxLaneHops].gap
BY Zenon DEF EntryGap, IsEntryWalk

LEMMA MergeThreatIsWalk ==
    ASSUME NEW s, NEW v, NEW cur, NEW exit, NEW distV, \E W : IsReach(s, cur, exit, distV, W)
    PROVE  \E X : /\ IsReach(s, cur, exit, distV, X)
                  /\ MergeThreat(s, v, cur, exit, distV)
                         <=> \E at \in X[MaxLaneHops] : Beats(s, v, distV, at)
BY Zenon DEF MergeThreat, IsReach, Siblings, Farther, Upstream, Beats

LEMMA SpawnedIsWalk ==
    ASSUME NEW st, NEW intervals, \E W : IsSpawns(st, intervals, W)
    PROVE  \E X : IsSpawns(st, intervals, X) /\ Spawned(st, intervals) = X[Len(road.origins)]
BY Zenon DEF Spawned, IsSpawns

LEMMA StrandedIsWalk ==
    ASSUME NEW s, NEW registered, \E W : IsSweep(s, registered, W)
    PROVE  \E X : IsSweep(s, registered, X) /\ Stranded(s, registered) = X[Len(registered)]
BY Zenon DEF Stranded, IsSweep

LEMMA RemainingIsWalk ==
    ASSUME NEW registered, NEW where, \E W : IsRegistry(registered, where, W)
    PROVE  \E X : /\ IsRegistry(registered, where, X)
                  /\ Remaining(registered, where) = X[Len(registered)]
BY Zenon DEF Remaining, IsRegistry

\* A vehicle on a road whose branch is a controlled box has its gate there.
LEMMA GateAhead ==
    ASSUME JunctionAssumption, NEW s, NEW v, NEW n, road.succ[s.place[v]] # << >>,
           n = Picked(s.place[v], v), road.box[n], Controlled(n)
    PROVE  GateTarget(s, v) = [lane |-> n, dist |-> ToEnd(s, v)]
<1> DEFINE start == [lane |-> s.place[v], dist |-> ToEnd(s, v), found |-> FALSE]
           found == [lane |-> n, dist |-> ToEnd(s, v), found |-> TRUE]
           W == [hops \in 0..MaxLaneHops |-> IF hops = 0 THEN start ELSE found]
           Next1(at) == IF at.found \/ road.succ[at.lane] = << >> THEN at
                        ELSE GateStep(at, Picked(at.lane, v))
<1>1. MaxLaneHops \in Nat \ {0}
    BY DEF JunctionAssumption
<1>2. Next1(start) = found
    BY DEF GateStep
<1>3. Next1(found) = found
    OBVIOUS
<1>4. IsGateWalk(s, v, W)
    <2>1. \A hops \in 0..MaxLaneHops : W[hops] = IF hops = 0 THEN start ELSE Next1(W[hops - 1])
        <3> SUFFICES ASSUME NEW hops \in 0..MaxLaneHops
                     PROVE  W[hops] = IF hops = 0 THEN start ELSE Next1(W[hops - 1])
            OBVIOUS
        <3> HIDE DEF Next1, start, found
        <3>1. CASE hops = 0
            BY <3>1
        <3>2. CASE hops = 1
            <4>1. W[hops - 1] = start /\ W[hops] = found
                BY <3>2, <1>1
            <4> QED BY <4>1, <3>2, <1>2
        <3>3. CASE hops > 1
            <4>1. W[hops - 1] = found /\ W[hops] = found
                BY <3>3, <1>1
            <4> QED BY <4>1, <3>3, <1>3
        <3> QED BY <3>1, <3>2, <3>3, <1>1
    <2>2. W = [hops \in 0..MaxLaneHops |-> IF hops = 0 THEN start ELSE Next1(W[hops - 1])]
        <3> HIDE DEF Next1
        <3> QED BY <2>1
    <2> QED BY <2>2 DEF IsGateWalk
<1>5. PICK X : IsGateWalk(s, v, X) /\ GateTarget(s, v) = GateOf(X[MaxLaneHops])
    BY <1>4, GateTargetIsWalk
<1>6. \A hops \in 0..MaxLaneHops : X[hops] = IF hops = 0 THEN start ELSE Next1(X[hops - 1])
    BY <1>5 DEF IsGateWalk
<1>7. X[MaxLaneHops] = found
    <2> HIDE DEF Next1, start, found
    <2>1. X[1] = found
        <3>1. 0 \in 0..MaxLaneHops /\ 1 \in 0..MaxLaneHops
            BY <1>1
        <3>2. X[0] = start
            BY <3>1, <1>6
        <3>3. X[1] = Next1(X[0])
            BY <3>1, <1>6
        <3> QED BY <3>2, <3>3, <1>2
    <2>2. \A i \in 2..MaxLaneHops : X[i - 1] = found => X[i] = found
        BY <1>1, <1>3, <1>6
    <2> QED BY ONLY <2>1, <2>2, <1>1, RestingWalk
<1> QED BY <1>5, <1>7 DEF GateOf

\* What ends the walk to the exits at its first lane is what it returns.
LEMMA ExitEnds ==
    ASSUME JunctionAssumption, NEW s, NEW v, NEW l, NEW inBox, NEW rest, road.succ[l] # << >>,
           rest = ExitStep(s, v, ExitStart(s, v, l), Picked(l, v), inBox), rest.end
    PROVE  ExitWalk(s, v, l, inBox) = RoomOf(rest)
<1> DEFINE start == ExitStart(s, v, l)
           W == [hops \in 0..MaxLaneHops |-> IF hops = 0 THEN start ELSE rest]
           Next1(at) == IF at.end \/ road.succ[at.lane] = << >> THEN at
                        ELSE ExitStep(s, v, at, Picked(at.lane, v), inBox)
<1>1. MaxLaneHops \in Nat \ {0}
    BY DEF JunctionAssumption
<1>2. Next1(start) = rest
    BY DEF ExitStart
<1>3. Next1(rest) = rest
    OBVIOUS
<1>4. IsExitWalk(s, v, l, inBox, W)
    <2>1. \A hops \in 0..MaxLaneHops : W[hops] = IF hops = 0 THEN start ELSE Next1(W[hops - 1])
        <3> SUFFICES ASSUME NEW hops \in 0..MaxLaneHops
                     PROVE  W[hops] = IF hops = 0 THEN start ELSE Next1(W[hops - 1])
            OBVIOUS
        <3> HIDE DEF Next1, start
        <3>1. CASE hops = 0
            BY <3>1
        <3>2. CASE hops = 1
            <4>1. W[hops - 1] = start /\ W[hops] = rest
                BY <3>2, <1>1
            <4> QED BY <4>1, <3>2, <1>2
        <3>3. CASE hops > 1
            <4>1. W[hops - 1] = rest /\ W[hops] = rest
                BY <3>3, <1>1
            <4> QED BY <4>1, <3>3, <1>3
        <3> QED BY <3>1, <3>2, <3>3, <1>1
    <2>2. W = [hops \in 0..MaxLaneHops |-> IF hops = 0 THEN start ELSE Next1(W[hops - 1])]
        <3> HIDE DEF Next1
        <3> QED BY <2>1
    <2> QED BY <2>2 DEF IsExitWalk
<1>5. PICK X : IsExitWalk(s, v, l, inBox, X) /\ ExitWalk(s, v, l, inBox) = RoomOf(X[MaxLaneHops])
    BY <1>4, ExitWalkIsWalk
<1>6. \A hops \in 0..MaxLaneHops : X[hops] = IF hops = 0 THEN start ELSE Next1(X[hops - 1])
    BY <1>5 DEF IsExitWalk
<1>7. X[MaxLaneHops] = rest
    <2> HIDE DEF Next1, start
    <2>1. X[1] = rest
        <3>1. 0 \in 0..MaxLaneHops /\ 1 \in 0..MaxLaneHops
            BY <1>1
        <3>2. X[0] = start
            BY <3>1, <1>6
        <3>3. X[1] = Next1(X[0])
            BY <3>1, <1>6
        <3> QED BY <3>2, <3>3, <1>2
    <2>2. \A i \in 2..MaxLaneHops : X[i - 1] = rest => X[i] = rest
        BY <1>1, <1>3, <1>6
    <2> QED BY ONLY <2>1, <2>2, <1>1, RestingWalk
<1> QED BY <1>5, <1>7

\* The gap to a leader on the entering vehicle's own lane.
LEMMA EntryGapOnLane ==
    ASSUME JunctionAssumption, NEW s, NEW v, NEW rest,
           rest = EntryStep(s, v, [lane |-> s.place[v], dist |-> 0, gap |-> -1],
                            On(s, s.place[v]) \ {v}),
           rest.gap \in Nat, s.place[v] # "none"
    PROVE  EntryGap(s, v) = rest.gap
<1> DEFINE start == [lane |-> s.place[v], dist |-> 0, gap |-> -1]
           W == [hops \in 0..MaxLaneHops |-> IF hops = 0 THEN start ELSE rest]
           Next1(at) == IF at.gap >= 0 \/ at.lane = "none" THEN at
                        ELSE EntryStep(s, v, at, On(s, at.lane) \ {v})
<1>1. MaxLaneHops \in Nat \ {0}
    BY DEF JunctionAssumption
<1>2. Next1(start) = rest
    <2>1. start.gap = -1 /\ start.lane = s.place[v]
        OBVIOUS
    <2> QED BY <2>1
<1>3. Next1(rest) = rest
    OBVIOUS
<1>4. IsEntryWalk(s, v, W)
    <2>1. \A hops \in 0..MaxLaneHops : W[hops] = IF hops = 0 THEN start ELSE Next1(W[hops - 1])
        <3> SUFFICES ASSUME NEW hops \in 0..MaxLaneHops
                     PROVE  W[hops] = IF hops = 0 THEN start ELSE Next1(W[hops - 1])
            OBVIOUS
        <3> HIDE DEF Next1, start
        <3>1. CASE hops = 0
            BY <3>1
        <3>2. CASE hops = 1
            <4>1. W[hops - 1] = start /\ W[hops] = rest
                BY <3>2, <1>1
            <4> QED BY <4>1, <3>2, <1>2
        <3>3. CASE hops > 1
            <4>1. W[hops - 1] = rest /\ W[hops] = rest
                BY <3>3, <1>1
            <4> QED BY <4>1, <3>3, <1>3
        <3> QED BY <3>1, <3>2, <3>3, <1>1
    <2>2. W = [hops \in 0..MaxLaneHops |-> IF hops = 0 THEN start ELSE Next1(W[hops - 1])]
        <3> HIDE DEF Next1
        <3> QED BY <2>1
    <2> QED BY <2>2 DEF IsEntryWalk
<1>5. PICK X : IsEntryWalk(s, v, X) /\ EntryGap(s, v) = X[MaxLaneHops].gap
    BY <1>4, EntryGapIsWalk
<1>6. \A hops \in 0..MaxLaneHops : X[hops] = IF hops = 0 THEN start ELSE Next1(X[hops - 1])
    BY <1>5 DEF IsEntryWalk
<1>7. X[MaxLaneHops] = rest
    <2> HIDE DEF Next1, start
    <2>1. X[1] = rest
        <3>1. 0 \in 0..MaxLaneHops /\ 1 \in 0..MaxLaneHops
            BY <1>1
        <3>2. X[0] = start
            BY <3>1, <1>6
        <3>3. X[1] = Next1(X[0])
            BY <3>1, <1>6
        <3> QED BY <3>2, <3>3, <1>2
    <2>2. \A i \in 2..MaxLaneHops : X[i - 1] = rest => X[i] = rest
        BY <1>1, <1>3, <1>6
    <2> QED BY ONLY <2>1, <2>2, <1>1, RestingWalk
<1> QED BY <1>5, <1>7

\* A gate, if there is one, is on a lane and not behind the vehicle.
LEMMA GateIsAhead ==
    ASSUME road \in Nets, NEW s, NEW v, s.place[v] \in road.lanes, ToEnd(s, v) \in Nat
    PROVE  GateTarget(s, v) \in [lane : road.lanes, dist : Nat] \cup {Nowhere}
<1> DEFINE start == [lane |-> s.place[v], dist |-> ToEnd(s, v), found |-> FALSE]
           A == [lane : road.lanes, dist : Nat, found : BOOLEAN]
           Next1(at) == IF at.found \/ road.succ[at.lane] = << >> THEN at
                        ELSE GateStep(at, Picked(at.lane, v))
           F == [i \in 1..MaxLaneHops |-> [at \in A |-> Next1(at)]]
<1>1. MaxLaneHops \in Nat \ {0} /\ Network(road)
    BY JunctionAssumption, RoadIsNetwork
<1>2. start \in A
    OBVIOUS
<1>3. ASSUME NEW at \in A PROVE Next1(at) \in A
    <2>1. CASE at.found \/ road.succ[at.lane] = << >>
        BY <2>1
    <2>2. CASE ~at.found /\ road.succ[at.lane] # << >>
        <3>1. Picked(at.lane, v) \in road.lanes
            BY <2>2, PickedIsSuccessor
        <3>2. road.len[Picked(at.lane, v)] \in Nat
            BY <3>1, <1>1 DEF Network
        <3>3. GateStep(at, Picked(at.lane, v)) \in A
            <4> DEFINE n == Picked(at.lane, v)
            <4>1. n \in road.lanes /\ road.len[n] \in Nat
                BY <3>1, <3>2
            <4>2. [at EXCEPT !.lane = n, !.found = TRUE] \in A
                <5> HIDE DEF n
                <5> QED BY <4>1
            <4>3. [at EXCEPT !.lane = n, !.dist = @ + road.len[n]] \in A
                <5>1. at.dist + road.len[n] \in Nat
                    BY <4>1
                <5> HIDE DEF n
                <5> QED BY <4>1, <5>1
            <4>4. GateStep(at, n) \in A
                <5> HIDE DEF n, A
                <5> QED BY <4>2, <4>3 DEF GateStep
            <4> QED BY <4>4
        <3>4. Next1(at) = GateStep(at, Picked(at.lane, v))
            BY <2>2
        <3> HIDE DEF Next1, A
        <3> QED BY <3>3, <3>4
    <2> QED BY <2>1, <2>2
<1>4. F \in [1..MaxLaneHops -> [A -> A]]
    <2> HIDE DEF Next1, A
    <2> QED BY <1>3
<1>5. PICK W : IsWalk(MaxLaneHops, A, start, F, W)
    <2> HIDE DEF F, A, start
    <2>1. MaxLaneHops \in Nat
        BY <1>1
    <2> QED BY ONLY <2>1, <1>2, <1>4, WalkExists
<1>6. \A i \in 0..MaxLaneHops : W[i] = IF i = 0 THEN start ELSE Next1(W[i - 1])
    <2> HIDE DEF Next1, A, start
    <2>1. ASSUME NEW i \in 1..MaxLaneHops PROVE W[i] = Next1(W[i - 1])
        <3>1. W[i - 1] \in A
            BY <1>1, <1>5 DEF IsWalk
        <3> QED BY <3>1, <1>5 DEF IsWalk
    <2> QED BY <2>1, <1>1, <1>5 DEF IsWalk
<1>7. IsGateWalk(s, v, W)
    <2>1. W = [hops \in 0..MaxLaneHops |-> IF hops = 0 THEN start ELSE Next1(W[hops - 1])]
        <3> HIDE DEF Next1, start
        <3> QED BY <1>5, <1>6 DEF IsWalk
    <2> QED BY <2>1 DEF IsGateWalk
<1>8. PICK X : IsGateWalk(s, v, X) /\ GateTarget(s, v) = GateOf(X[MaxLaneHops])
    BY <1>7, GateTargetIsWalk
<1>9. \A i \in 0..MaxLaneHops : X[i] = IF i = 0 THEN start ELSE Next1(X[i - 1])
    BY <1>8 DEF IsGateWalk
<1>10. X[MaxLaneHops] \in A
    <2> HIDE DEF Next1, start, A
    <2>1. X[0] \in A
        BY <1>1, <1>2, <1>9
    <2>2. \A i \in 1..MaxLaneHops : X[i - 1] \in A => X[i] \in A
        BY <1>1, <1>3, <1>9
    <2>3. \A i \in 0..MaxLaneHops : X[i] \in A
        BY ONLY <2>1, <2>2, <1>1, KeptByWalk
    <2> QED BY <2>3, <1>1
<1> QED BY <1>8, <1>10 DEF GateOf

\* A vehicle at the end of a sibling branch, with the lower id, reaches a merge
\* no later than one that is there.
LEMMA SiblingThreatens ==
    ASSUME road \in Nets, NEW s, NEW v, NEW cur, NEW exit \in road.lanes,
           NEW p \in Prevs(exit) \ {cur}, Beats(s, v, 0, [lane |-> p, dist |-> 0])
    PROVE  MergeThreat(s, v, cur, exit, 0)
<1> DEFINE start == Siblings(cur, exit)
           T == [lane : road.lanes, dist : Nat]
           A == {X \in SUBSET T : start \subseteq X}
           Next1(near) == Farther(s, near, 0)
           F == [i \in 1..MaxLaneHops |-> [near \in A |-> Next1(near)]]
<1>1. MaxLaneHops \in Nat \ {0} /\ Network(road)
    BY JunctionAssumption, RoadIsNetwork
<1>2. start \in A
    <2>1. Prevs(exit) \subseteq road.lanes
        BY <1>1 DEF Network, Prevs
    <2>2. start \subseteq T
        BY <2>1 DEF Siblings
    <2> QED BY <2>2
<1>3. ASSUME NEW near \in A PROVE Next1(near) \in A
    <2>1. near \subseteq Next1(near)
        BY DEF Farther
    <2>2. ASSUME NEW at \in near, NEW b \in Upstream(at) PROVE b \in T
        <3>1. at \in T
            OBVIOUS
        <3>2. Prevs(at.lane) \subseteq road.lanes /\ road.len[at.lane] \in Nat
            BY <3>1, <1>1 DEF Network, Prevs
        <3> QED BY <3>1, <3>2 DEF Upstream
    <2>3. Next1(near) \subseteq T
        <3> HIDE DEF T
        <3> QED BY <2>2 DEF Farther
    <2> QED BY <2>1, <2>3
<1>4. F \in [1..MaxLaneHops -> [A -> A]]
    <2> HIDE DEF Next1, A
    <2> QED BY <1>3
<1>5. PICK W : IsWalk(MaxLaneHops, A, start, F, W)
    <2> HIDE DEF F, A, start
    <2>1. MaxLaneHops \in Nat
        BY <1>1
    <2> QED BY ONLY <2>1, <1>2, <1>4, WalkExists
<1>6. \A i \in 0..MaxLaneHops : W[i] = IF i = 0 THEN start ELSE Next1(W[i - 1])
    <2> HIDE DEF Next1, A, start
    <2>1. ASSUME NEW i \in 1..MaxLaneHops PROVE W[i] = Next1(W[i - 1])
        <3>1. W[i - 1] \in A
            BY <1>1, <1>5 DEF IsWalk
        <3> QED BY <3>1, <1>5 DEF IsWalk
    <2> QED BY <2>1, <1>1, <1>5 DEF IsWalk
<1>7. IsReach(s, cur, exit, 0, W)
    <2>1. W = [hops \in 0..MaxLaneHops |-> IF hops = 0 THEN start ELSE Next1(W[hops - 1])]
        <3> HIDE DEF Next1, start
        <3> QED BY <1>5, <1>6 DEF IsWalk
    <2> QED BY <2>1 DEF IsReach
<1>8. PICK X : /\ IsReach(s, cur, exit, 0, X)
               /\ MergeThreat(s, v, cur, exit, 0) <=> \E at \in X[MaxLaneHops] : Beats(s, v, 0, at)
    BY <1>7, MergeThreatIsWalk
<1>9. \A i \in 0..MaxLaneHops : X[i] = IF i = 0 THEN start ELSE Next1(X[i - 1])
    BY <1>8 DEF IsReach
<1>10. X[MaxLaneHops] \in A
    <2> HIDE DEF Next1, start, A
    <2>1. X[0] \in A
        BY <1>1, <1>2, <1>9
    <2>2. \A i \in 1..MaxLaneHops : X[i - 1] \in A => X[i] \in A
        BY <1>1, <1>3, <1>9
    <2>3. \A i \in 0..MaxLaneHops : X[i] \in A
        BY ONLY <2>1, <2>2, <1>1, KeptByWalk
    <2> QED BY <2>3, <1>1
<1>11. [lane |-> p, dist |-> 0] \in X[MaxLaneHops]
    BY <1>10 DEF Siblings
<1> QED BY <1>8, <1>11

----------------------------------------------------------------------------
(* What must hold of a traffic state s between two stages of a tick.       *)

\* Nobody is where somebody else is.
Apart(s) ==
    \A v, w \in Ids : /\ s.place[v] \in road.lanes /\ s.place[w] = s.place[v]
                      /\ s.veh[v].pos = s.veh[w].pos
                      => v = w

\* Nobody is in the box of a foe.
Clear(s) ==
    \A v, w \in Ids : s.place[v] \in road.lanes => s.place[w] \notin FoesOf(road, s.place[v])

\* Who rolls at the line of a light came to it under a light that does not hold.
Committed(s, t) ==
    \A v \in Ids : /\ s.place[v] \in road.lanes
                   /\ road.succ[s.place[v]] # << >> /\ road.len[s.place[v]] # 1
                   /\ road.box[Picked(s.place[v], v)]
                   /\ s.veh[v].moving /\ s.veh[v].pos = road.len[s.place[v]]
                   => Shown(road, Picked(s.place[v], v), t) \notin {"red", "amber"}

\* A stage that only adds vehicles at rest of all this, or takes some away.
Keeps(s, r) ==
    /\ Scene(r)
    /\ Apart(s) => Apart(r)
    /\ Clear(s) => Clear(r)
    /\ \A t : Committed(s, t) => Committed(r, t)

LEMMA KeepsIsTransitive ==
    ASSUME NEW s, NEW r, NEW q, Keeps(s, r), Keeps(r, q)
    PROVE  Keeps(s, q)
BY DEF Keeps

LEMMA KeepsItself ==
    ASSUME NEW s, Scene(s)
    PROVE  Keeps(s, s)
BY DEF Keeps

\* Whoever is not taken away is where it was, and moves as it did.
Thinned(s, r) ==
    \A v \in Ids : \/ r.place[v] \in Away
                   \/ /\ r.place[v] = s.place[v] /\ r.veh[v].pos = s.veh[v].pos
                      /\ r.veh[v].moving = s.veh[v].moving

LEMMA ThinnedKeeps ==
    ASSUME road \in Nets, NEW s, NEW r, Scene(s), r \in SceneType, Thinned(s, r)
    PROVE  Keeps(s, r)
<1>1. \A v \in Ids : r.place[v] \in road.lanes =>
          /\ r.place[v] = s.place[v] /\ r.veh[v].pos = s.veh[v].pos
          /\ r.veh[v].moving = s.veh[v].moving
    BY RoadIsNetwork DEF Thinned, Network
<1>2. Scene(r)
    BY <1>1 DEF Scene, Inside
<1>3. Apart(s) => Apart(r)
    BY <1>1 DEF Apart
<1>4. Clear(s) => Clear(r)
    <2> SUFFICES ASSUME Clear(s), NEW v \in Ids, NEW w \in Ids, r.place[v] \in road.lanes,
                        r.place[w] \in FoesOf(road, r.place[v])
                 PROVE  FALSE
        BY DEF Clear
    <2>1. r.place[w] \in road.lanes
        BY RoadIsNetwork DEF Network, FoesOf
    <2> QED BY <1>1, <2>1 DEF Clear
<1>5. ASSUME NEW t, Committed(s, t) PROVE Committed(r, t)
    BY <1>1, <1>5 DEF Committed
<1> QED BY <1>2, <1>3, <1>4, <1>5 DEF Keeps

----------------------------------------------------------------------------
(* The escape takes vehicles away, and touches timers only.                *)

LEMMA ExcusedTouchesTimers ==
    ASSUME NEW s \in SceneType, NEW l
    PROVE  /\ Excused(s, l) \in [Ids -> VehType]
           /\ \A v \in Ids : /\ Excused(s, l)[v].pos = s.veh[v].pos
                             /\ Excused(s, l)[v].moving = s.veh[v].moving
<1>1. ASSUME NEW v \in Ids
      PROVE  /\ Excused(s, l)[v] \in VehType
             /\ Excused(s, l)[v].pos = s.veh[v].pos /\ Excused(s, l)[v].moving = s.veh[v].moving
    <2>1. s.veh[v] \in VehType
        BY DEF SceneType
    <2>2. Excused(s, l)[v] = IF s.place[v] \in Behind(l) THEN [s.veh[v] EXCEPT !.stuck = 0]
                             ELSE s.veh[v]
        BY DEF Excused
    <2> HIDE DEF Excused
    <2> QED BY <2>1, <2>2 DEF VehType
<1>2. Excused(s, l) = [v \in Ids |-> Excused(s, l)[v]]
    BY DEF Excused
<1> HIDE DEF Excused
<1> QED BY <1>1, <1>2

LEMMA StrandOneThins ==
    ASSUME JunctionAssumption, NEW s \in SceneType, NEW v
    PROVE  StrandOne(s, v) \in SceneType /\ Thinned(s, StrandOne(s, v))
<1> DEFINE stuck == IF s.veh[v].moving THEN 0
                    ELSE IF s.veh[v].stuck < StrandAfter THEN s.veh[v].stuck + 1 ELSE StrandAfter
           timed == [s EXCEPT !.veh[v].stuck = stuck]
           gone == [veh |-> [timed.veh EXCEPT ![v] = Still],
                    place |-> [s.place EXCEPT ![v] = "stranded"]]
<1>1. CASE v \notin Ids \/ s.place[v] \in Away
    <2>1. CASE s.place[v] \in Away
        BY <2>1 DEF StrandOne, Thinned
    <2>2. CASE v \notin Ids /\ s.place[v] \notin Away
        <3>1. timed = s /\ gone = s
            BY <2>2 DEF SceneType
        <3>2. StrandOne(s, v) = s \/ StrandOne(s, v) = [s EXCEPT !.veh = Excused(s, s.place[v])]
            <4>1. StrandOne(s, v) \in {timed, [gone EXCEPT !.veh = Excused(gone, s.place[v])]}
                BY <2>2 DEF StrandOne
            <4> HIDE DEF timed, gone
            <4> QED BY <3>1, <4>1
        <3> QED BY <3>2, ExcusedTouchesTimers DEF SceneType, Thinned
    <2> QED BY <1>1, <2>1, <2>2
<1>2. CASE v \in Ids /\ s.place[v] \notin Away
    <2>1. stuck \in Nat /\ s.veh[v] \in VehType
        <3>1. StrandAfter \in Nat /\ s.veh[v] \in VehType
            BY <1>2 DEF JunctionAssumption, SceneType
        <3> QED BY <3>1 DEF VehType
    <2>2. timed \in SceneType /\ timed.place = s.place
          /\ \A w \in Ids : timed.veh[w].pos = s.veh[w].pos /\ timed.veh[w].moving = s.veh[w].moving
        <3> HIDE DEF stuck
        <3> QED BY <2>1, <1>2 DEF SceneType, VehType
    <2>3. gone \in SceneType /\ gone.place[v] = "stranded"
          /\ \A w \in Ids \ {v} : gone.place[w] = s.place[w] /\ gone.veh[w] = timed.veh[w]
        <3> HIDE DEF timed
        <3>1. Still \in VehType
            BY DEF Still, VehType
        <3> QED BY <3>1, <2>2, <1>2 DEF SceneType, Away
    <2>4. StrandOne(s, v) \in {timed, [gone EXCEPT !.veh = Excused(gone, s.place[v])]}
        BY <1>2 DEF StrandOne
    <2>5. timed \in SceneType /\ Thinned(s, timed)
        <3> HIDE DEF timed
        <3> QED BY <2>2 DEF Thinned
    <2>6. /\ [gone EXCEPT !.veh = Excused(gone, s.place[v])] \in SceneType
          /\ Thinned(s, [gone EXCEPT !.veh = Excused(gone, s.place[v])])
        <3> HIDE DEF timed, gone
        <3> QED BY <2>2, <2>3, <1>2, ExcusedTouchesTimers DEF SceneType, Thinned, Away
    <2> HIDE DEF timed, gone
    <2> QED BY <2>4, <2>5, <2>6
<1> QED BY <1>1, <1>2

LEMMA StrandedKeeps ==
    ASSUME road \in Nets, NEW s, Scene(s), NEW registered, Len(registered) \in Nat
    PROVE  Keeps(s, Stranded(s, registered))
<1> DEFINE N == Len(registered)
           A == {r \in SceneType : Thinned(s, r)}
           F == [i \in 1..N |-> [r \in A |-> StrandOne(r, registered[i])]]
<1>1. s \in A
    BY DEF Scene, Thinned
<1>2. ASSUME NEW r \in A, NEW v PROVE StrandOne(r, v) \in A
    <2>1. StrandOne(r, v) \in SceneType /\ Thinned(r, StrandOne(r, v))
        BY JunctionAssumption, StrandOneThins
    <2>2. Thinned(s, StrandOne(r, v))
        BY <2>1 DEF Thinned
    <2> QED BY <2>1, <2>2
<1>3. F \in [1..N -> [A -> A]]
    <2> HIDE DEF A
    <2> QED BY <1>2
<1>4. PICK W : IsWalk(N, A, s, F, W)
    <2>1. N \in Nat
        OBVIOUS
    <2> HIDE DEF F, A, N
    <2> QED BY ONLY <2>1, <1>1, <1>3, WalkExists
<1>5. \A i \in 0..N : W[i] = IF i = 0 THEN s ELSE StrandOne(W[i - 1], registered[i])
    <2> HIDE DEF A
    <2>1. ASSUME NEW i \in 1..N PROVE W[i] = StrandOne(W[i - 1], registered[i])
        <3>1. W[i - 1] \in A
            BY <1>4 DEF IsWalk
        <3> QED BY <3>1, <1>4 DEF IsWalk
    <2> QED BY <2>1, <1>4 DEF IsWalk
<1>6. IsSweep(s, registered, W)
    BY <1>4, <1>5 DEF IsSweep, IsWalk
<1>7. PICK X : IsSweep(s, registered, X) /\ Stranded(s, registered) = X[N]
    BY <1>6, StrandedIsWalk
<1>8. \A i \in 0..N : X[i] = IF i = 0 THEN s ELSE StrandOne(X[i - 1], registered[i])
    BY <1>7 DEF IsSweep
<1>9. X[N] \in A
    <2> HIDE DEF A
    <2>1. X[0] \in A
        BY <1>1, <1>8
    <2>2. \A i \in 1..N : X[i - 1] \in A => X[i] \in A
        BY <1>2, <1>8
    <2>3. N \in Nat
        OBVIOUS
    <2> HIDE DEF N
    <2>4. \A i \in 0..N : X[i] \in A
        BY ONLY <2>1, <2>2, <2>3, KeptByWalk
    <2> QED BY <2>3, <2>4
<1> QED BY <1>7, <1>9, ThinnedKeeps

----------------------------------------------------------------------------
(* The spawner puts a vehicle where nobody is.                             *)

Origins == DOMAIN road.demand
SpawnType == [veh : [Ids -> VehType], place : [Ids -> road.lanes \cup Away], order : Seq(Ids),
              queue : [Origins -> Seq(Ids)], until : [Origins -> Int]]
SceneOf(st) == [veh |-> st.veh, place |-> st.place]

LEMMA SceneOfIsScene ==
    ASSUME NEW st \in SpawnType
    PROVE  SceneOf(st) \in SceneType
BY DEF SpawnType, SceneType, SceneOf

\* The injection plan refuses an entry onto an occupied start.
LEMMA PlanLeavesRoom ==
    ASSUME road \in Nets, NEW s, Scene(s), NEW v \in Ids, s.place[v] \in road.lanes,
           s.veh[v].pos = 0, InjectionPlan(s, v),
           NEW w \in Ids, w # v, s.place[w] = s.place[v]
    PROVE  s.veh[w].pos # 0
<1> SUFFICES ASSUME s.veh[w].pos = 0 PROVE FALSE
    OBVIOUS
<1> DEFINE o == s.place[v]
           seen == On(s, o) \ {v}
           start == [lane |-> o, dist |-> 0, gap |-> -1]
           last == CHOOSE x \in seen : \A y \in seen : s.veh[y].pos >= s.veh[x].pos
           t == GateTarget(s, v)
<1>1. seen \subseteq Ids /\ w \in seen /\ \A x \in seen : s.veh[x].pos \in Nat
    BY DEF On, Scene, SceneType, VehType
<1>2. \A y \in seen : s.veh[y].pos >= s.veh[w].pos
    BY <1>1
<1>3. last \in seen /\ s.veh[w].pos >= s.veh[last].pos
    <2> HIDE DEF seen
    <2> QED BY <1>1, <1>2
<1>4. s.veh[last].pos = 0
    <2> HIDE DEF last, seen
    <2> QED BY <1>1, <1>3
<1>5. EntryStep(s, v, start, seen) = [start EXCEPT !.gap = 0]
    <2>1. seen # {}
        BY <1>1
    <2> HIDE DEF seen
    <2> QED BY <2>1, <1>4 DEF EntryStep
<1>6. EntryGap(s, v) = 0
    <2>1. o # "none"
        BY RoadIsNetwork DEF Network
    <2>2. [start EXCEPT !.gap = 0].gap = 0
        OBVIOUS
    <2> HIDE DEF seen
    <2> QED BY <1>5, <2>1, <2>2, EntryGapOnLane, JunctionAssumption DEF seen
<1>7. t \in [lane : road.lanes, dist : Nat] \cup {Nowhere}
    <2>1. ToEnd(s, v) \in Nat
        BY RoadIsNetwork DEF ToEnd, Network
    <2> QED BY <2>1, GateIsAhead
<1>8. ~RoomToEnter(s, v, 0, t)
    <2> HIDE DEF t
    <2> QED BY <1>7 DEF RoomToEnter
<1> QED BY <1>6, <1>8 DEF InjectionPlan

\* A lane with foes is a box, and foes know one another.
LEMMA FoesAreMutual ==
    ASSUME road \in Nets, NEW l \in road.lanes, NEW f \in FoesOf(road, l)
    PROVE  /\ f \in road.lanes /\ f # l /\ road.box[l] /\ road.box[f] /\ l \in FoesOf(road, f)
           /\ f \in road.cross[l] <=> l \in road.cross[f]
           /\ f \in road.merge[l] <=> l \in road.merge[f]
<1>1. f \in road.lanes
    BY RoadIsNetwork DEF Network, FoesOf
<1>2. road.box[l] /\ road.box[f]
    BY RoadIsNetwork DEF Network
<1>3. /\ f # l
      /\ f \in road.cross[l] <=> l \in road.cross[f]
      /\ f \in road.merge[l] <=> l \in road.merge[f]
    BY RoadIsNetwork DEF MutualFoes
<1>4. l \in FoesOf(road, f)
    BY <1>3 DEF FoesOf
<1> QED BY <1>1, <1>2, <1>3, <1>4

LEMMA SpawnAtKeeps ==
    ASSUME road \in Nets, NEW st \in SpawnType, Inside(SceneOf(st)), NEW o \in Origins,
           NEW interval \in Nat
    PROVE  /\ SpawnAt(o, st, interval) \in SpawnType
           /\ Keeps(SceneOf(st), SceneOf(SpawnAt(o, st, interval)))
<1> DEFINE v == st.queue[o][1]
           try == [veh |-> [st.veh EXCEPT ![v] = [Still EXCEPT !.moving = TRUE]],
                   place |-> [st.place EXCEPT ![v] = o]]
           entered == [veh |-> try.veh, place |-> try.place, order |-> Append(st.order, v),
                       queue |-> [st.queue EXCEPT ![o] = SubSeq(@, 2, Len(@))],
                       until |-> [st.until EXCEPT ![o] = @ + interval]]
           s == SceneOf(st)
<1>1. s \in SceneType /\ Scene(s) /\ s.veh = st.veh /\ s.place = st.place
    BY SceneOfIsScene DEF Scene, SceneOf
<1>2. CASE SpawnAt(o, st, interval) = st
    BY <1>1, <1>2, KeepsItself
<1>3. CASE SpawnAt(o, st, interval) # st
    <2>1. /\ st.queue[o] # << >> /\ InjectionPlan(try, v)
          /\ SpawnAt(o, st, interval) = entered
        BY <1>3 DEF SpawnAt
    <2>2. st.queue[o] \in Seq(Ids) /\ v \in Ids
        BY <2>1 DEF SpawnType
    <2>3. o \in road.lanes /\ ~road.box[o] /\ road.len[o] \in Nat \ {0}
        BY RoadIsNetwork DEF Network, Origins
    <2>4. /\ try \in SceneType
          /\ try.place[v] = o /\ try.veh[v].pos = 0 /\ try.veh[v].moving
          /\ \A w \in Ids \ {v} : try.place[w] = s.place[w] /\ try.veh[w] = s.veh[w]
        <3>1. [Still EXCEPT !.moving = TRUE] \in VehType /\ [Still EXCEPT !.moving = TRUE].pos = 0
              /\ [Still EXCEPT !.moving = TRUE].moving
            BY DEF Still, VehType
        <3>2. st.veh \in [Ids -> VehType] /\ st.place \in [Ids -> road.lanes \cup Away]
            BY DEF SpawnType
        <3> DEFINE fresh == [Still EXCEPT !.moving = TRUE]
        <3> HIDE DEF v, fresh
        <3>3. try.veh \in [Ids -> VehType] /\ try.place \in [Ids -> road.lanes \cup Away]
            BY <3>1, <3>2, <2>2, <2>3 DEF fresh
        <3>4. try.place[v] = o /\ try.veh[v] = fresh
            BY <3>2, <2>2 DEF fresh
        <3>5. \A w \in Ids \ {v} : try.place[w] = s.place[w] /\ try.veh[w] = s.veh[w]
            BY <3>2, <1>1
        <3>6. fresh.pos = 0 /\ fresh.moving
            BY <3>1 DEF fresh
        <3> QED BY <3>3, <3>4, <3>5, <3>6 DEF SceneType
    <2>5. entered \in SpawnType /\ SceneOf(entered) = try
        <3>1. try.veh \in [Ids -> VehType] /\ try.place \in [Ids -> road.lanes \cup Away]
            BY <2>4 DEF SceneType
        <3>2. Append(st.order, v) \in Seq(Ids)
            BY <2>2 DEF SpawnType
        <3>3. SubSeq(st.queue[o], 2, Len(st.queue[o])) \in Seq(Ids)
            BY <2>1, <2>2
        <3>4. [st.queue EXCEPT ![o] = SubSeq(@, 2, Len(@))] \in [Origins -> Seq(Ids)]
            BY <3>3 DEF SpawnType
        <3>5. [st.until EXCEPT ![o] = @ + interval] \in [Origins -> Int]
            BY DEF SpawnType
        <3>6. SceneOf(entered) = try
            BY DEF SceneOf
        <3> HIDE DEF try, v
        <3> QED BY <3>1, <3>2, <3>4, <3>5, <3>6 DEF SpawnType
    <2> HIDE DEF try, v, entered, s
    <2>6. Scene(try)
        BY <1>1, <2>2, <2>3, <2>4 DEF Scene, Inside
    <2>7. ASSUME Apart(s) PROVE Apart(try)
        <3>1. \A w \in Ids : w # v /\ try.place[w] = o => try.veh[w].pos # 0
            BY <2>1, <2>2, <2>3, <2>4, <2>6, PlanLeavesRoom
        <3> QED BY <3>1, <2>4, <2>7 DEF Apart
    <2>8. ASSUME Clear(s) PROVE Clear(try)
        <3>1. \A l \in road.lanes : o \notin FoesOf(road, l)
            BY <2>3, FoesAreMutual
        <3>2. FoesOf(road, o) = {}
            BY <2>3, FoesAreMutual
        <3> QED BY <3>1, <3>2, <2>4, <2>8 DEF Clear
    <2>9. ASSUME NEW u, Committed(s, u) PROVE Committed(try, u)
        BY <2>3, <2>4, <2>9 DEF Committed
    <2> QED BY <2>1, <2>5, <2>6, <2>7, <2>8, <2>9 DEF Keeps, s
<1> QED BY <1>2, <1>3

LEMMA SpawnedKeeps ==
    ASSUME road \in Nets, NEW st \in SpawnType, Inside(SceneOf(st)),
           NEW intervals \in [Origins -> Nat]
    PROVE  Spawned(st, intervals) \in SpawnType /\ Keeps(SceneOf(st), SceneOf(Spawned(st, intervals)))
<1> DEFINE N == Len(road.origins)
           A == {r \in SpawnType : Keeps(SceneOf(st), SceneOf(r))}
           At(i, r) == SpawnAt(road.origins[i], r, intervals[road.origins[i]])
           F == [i \in 1..N |-> [r \in A |-> At(i, r)]]
<1>1. N \in Nat /\ road.origins \in Seq(Origins)
    BY RoadIsNetwork DEF Network, Origins
<1>2. st \in A
    BY SceneOfIsScene, KeepsItself DEF Scene
<1>3. ASSUME NEW i \in 1..N, NEW r \in A PROVE At(i, r) \in A
    <2>1. road.origins[i] \in Origins
        BY <1>1
    <2>2. Inside(SceneOf(r))
        BY DEF Keeps, Scene
    <2>3. intervals[road.origins[i]] \in Nat
        BY <2>1
    <2>4. At(i, r) \in SpawnType /\ Keeps(SceneOf(r), SceneOf(At(i, r)))
        BY <2>1, <2>2, <2>3, SpawnAtKeeps
    <2> HIDE DEF At
    <2> QED BY <2>4, KeepsIsTransitive
<1>4. F \in [1..N -> [A -> A]]
    <2> HIDE DEF A, At
    <2> QED BY <1>3
<1>5. PICK W : IsWalk(N, A, st, F, W)
    <2> HIDE DEF F, A, N
    <2> QED BY ONLY <1>1, <1>2, <1>4, WalkExists
<1>6. \A i \in 0..N : W[i] = IF i = 0 THEN st ELSE At(i, W[i - 1])
    <2> HIDE DEF A, At
    <2>1. ASSUME NEW i \in 1..N PROVE W[i] = At(i, W[i - 1])
        <3>1. W[i - 1] \in A
            BY <1>1, <1>5 DEF IsWalk
        <3> QED BY <3>1, <1>5 DEF IsWalk
    <2> QED BY <2>1, <1>1, <1>5 DEF IsWalk
<1>7. IsSpawns(st, intervals, W)
    BY <1>5, <1>6 DEF IsSpawns, IsWalk
<1>8. PICK X : IsSpawns(st, intervals, X) /\ Spawned(st, intervals) = X[N]
    BY <1>7, SpawnedIsWalk
<1>9. \A i \in 0..N : X[i] = IF i = 0 THEN st ELSE At(i, X[i - 1])
    BY <1>8 DEF IsSpawns
<1>10. X[N] \in A
    <2> HIDE DEF A, At
    <2>1. X[0] \in A
        BY <1>1, <1>2, <1>9
    <2>2. \A i \in 1..N : X[i - 1] \in A => X[i] \in A
        BY <1>1, <1>3, <1>9
    <2> HIDE DEF N
    <2>3. \A i \in 0..N : X[i] \in A
        BY ONLY <2>1, <2>2, <1>1, KeptByWalk
    <2> QED BY <2>3, <1>1
<1> QED BY <1>8, <1>10

----------------------------------------------------------------------------
(* Motion.  A vehicle stays, advances in its lane, crosses into the next    *)
(* lane, or leaves.                                                        *)

Stays(s, v, m) == m.place = s.place[v] /\ m.veh.pos = s.veh[v].pos /\ ~m.veh.moving
Advances(s, v, m) ==
    /\ ToEnd(s, v) > 0
    /\ ~\E w \in On(s, s.place[v]) : s.veh[w].pos = s.veh[v].pos + 1
    /\ m.place = s.place[v] /\ m.veh.pos = s.veh[v].pos + 1
    /\ m.veh.moving => RowGate(s, v) # 1
Crosses(s, v, m) ==
    /\ s.veh[v].pos = road.len[s.place[v]] /\ RowGate(s, v) # 0
    /\ road.succ[s.place[v]] # << >>
    /\ ~\E w \in On(s, Picked(s.place[v], v)) : s.veh[w].pos <= 1
    /\ m.place = Picked(s.place[v], v) /\ m.veh.pos = 1

LEMMA MoveCases ==
    ASSUME road \in Nets, NEW s, Scene(s), NEW v \in Ids, s.place[v] \in road.lanes,
           NEW kept \in BOOLEAN, NEW m, m = MovedOne(s, v, kept)
    PROVE  /\ m.veh \in VehType /\ m.place \in road.lanes \cup Away
           /\ Stays(s, v, m) \/ Advances(s, v, m) \/ Crosses(s, v, m) \/ m.place = "left"
<1> DEFINE l == s.place[v]
           n == Picked(l, v)
           line == RowGate(s, v)
           here == [s.veh[v] EXCEPT !.stopDone = @ \/ StopsAtLine(s, v)]
<1>1. /\ s.veh[v] \in VehType /\ road.len[l] \in Nat \ {0} /\ s.veh[v].pos <= road.len[l]
      /\ DOMAIN s.place = Ids
    BY RoadIsNetwork DEF Scene, SceneType, Inside, Network
<1>2. here \in VehType /\ here.pos = s.veh[v].pos
    <2> DEFINE sd == s.veh[v].stopDone \/ StopsAtLine(s, v)
    <2>1. sd \in BOOLEAN
        OBVIOUS
    <2>2. here = [s.veh[v] EXCEPT !.stopDone = sd]
        OBVIOUS
    <2> HIDE DEF sd
    <2> QED BY <1>1, <2>1, <2>2 DEF VehType
<1>3. m = MovedFrom(s, v, kept, line, here)
    BY DEF MovedOne
<1> HIDE DEF here, line
<1>4. CASE kept \/ line = 0 \/ ~RoomAhead(s, v)
    <2>1. m = [veh |-> [here EXCEPT !.moving = FALSE], place |-> l]
        BY <1>3, <1>4 DEF MovedFrom
    <2>2. /\ [here EXCEPT !.moving = FALSE] \in VehType
          /\ [here EXCEPT !.moving = FALSE].pos = here.pos
          /\ ~[here EXCEPT !.moving = FALSE].moving
        BY <1>2 DEF VehType
    <2>3. m.veh = [here EXCEPT !.moving = FALSE] /\ m.place = l
        BY <2>1
    <2>4. l \in road.lanes \cup Away
        OBVIOUS
    <2> QED BY <2>2, <2>3, <2>4, <1>2 DEF Stays
<1>5. CASE ~(kept \/ line = 0 \/ ~RoomAhead(s, v)) /\ ToEnd(s, v) > 0
    <2>1. m = [veh |-> [here EXCEPT !.pos = @ + 1, !.moving = line # 1, !.stuck = 0], place |-> l]
        BY <1>3, <1>5 DEF MovedFrom
    <2>2. ~\E w \in On(s, l) : s.veh[w].pos = s.veh[v].pos + 1
        BY <1>5 DEF RoomAhead
    <2>3. m.veh \in VehType /\ m.veh.pos = s.veh[v].pos + 1 /\ (m.veh.moving <=> line # 1)
        <3> DEFINE go == line # 1
        <3>1. go \in BOOLEAN
            OBVIOUS
        <3>2. m.veh = [here EXCEPT !.pos = @ + 1, !.moving = go, !.stuck = 0]
            BY <2>1
        <3>3. m.veh \in VehType /\ m.veh.pos = s.veh[v].pos + 1 /\ m.veh.moving = go
            <4>1. here.pos \in Nat /\ here.pos + 1 \in Nat
                BY <1>2 DEF VehType
            <4>2. m.veh.pos = here.pos + 1 /\ m.veh.moving = go
                BY <3>2, <1>2 DEF VehType
            <4>3. [here EXCEPT !.pos = @ + 1, !.moving = go, !.stuck = 0] \in VehType
                <5> DEFINE p == here.pos + 1
                <5>1. [here EXCEPT !.pos = @ + 1, !.moving = go, !.stuck = 0] =
                          [here EXCEPT !.pos = p, !.moving = go, !.stuck = 0]
                    OBVIOUS
                <5>2. p \in Nat
                    BY <4>1
                <5> HIDE DEF p, go
                <5> QED BY <5>1, <5>2, <3>1, <1>2 DEF VehType
            <4> HIDE DEF go
            <4> QED BY <3>2, <4>2, <4>3, <1>2
        <3> QED BY <3>3
    <2> QED BY <2>1, <2>2, <2>3, <1>5 DEF Advances, line
<1>6. CASE ~(kept \/ line = 0 \/ ~RoomAhead(s, v)) /\ ~(ToEnd(s, v) > 0)
    <2>1. CASE road.exit[l] \/ road.dest[v] = l
        <3>1. m = [veh |-> Still, place |-> "left"]
            BY <1>3, <1>6, <2>1 DEF MovedFrom
        <3> QED BY <3>1 DEF Still, VehType, Away
    <2>2. CASE ~(road.exit[l] \/ road.dest[v] = l)
        <3> DEFINE done == here.stopDone /\ ~road.box[n]
                   new == [here EXCEPT !.pos = 1, !.moving = TRUE, !.stopDone = done]
        <3>1. m = [veh |-> new, place |-> n]
            BY <1>3, <1>6, <2>2 DEF MovedFrom
        <3>2. road.succ[l] # << >> /\ ~\E w \in On(s, n) : s.veh[w].pos <= 1
            BY <1>6, <2>2 DEF RoomAhead
        <3>3. n \in road.lanes
            BY <3>2, PickedIsSuccessor
        <3>4. new \in VehType /\ new.pos = 1
            <4>1. done \in BOOLEAN
                OBVIOUS
            <4> HIDE DEF done
            <4> QED BY <4>1, <1>2 DEF VehType
        <3>5. s.veh[v].pos = road.len[l]
            BY <1>1, <1>6 DEF ToEnd, VehType
        <3> HIDE DEF new
        <3> QED BY <3>1, <3>2, <3>3, <3>4, <3>5, <1>6 DEF Crosses, line
    <2> QED BY <2>1, <2>2
<1> QED BY <1>4, <1>5, <1>6

\* Every live vehicle moves, and nobody else.
LEMMA MovedEach ==
    ASSUME road \in Nets, NEW s, Scene(s), NEW held, NEW v \in Ids
    PROVE  LET r == Moved(s, held)
           IN  /\ s.place[v] \in road.lanes =>
                      /\ r.veh[v] = MovedOne(s, v, v \in held).veh
                      /\ r.place[v] = MovedOne(s, v, v \in held).place
               /\ s.place[v] \in Away => r.veh[v] = s.veh[v] /\ r.place[v] = s.place[v]
<1>1. DOMAIN s.place = Ids
    BY DEF Scene, SceneType
<1>2. v \in Live(s) <=> s.place[v] \notin Away
    BY <1>1 DEF Live
<1>3. s.place[v] \in road.lanes => s.place[v] \notin Away
    BY RoadIsNetwork DEF Network
<1> DEFINE one == [u \in Ids |-> IF u \in Live(s) THEN MovedOne(s, u, u \in held)
                                  ELSE [veh |-> s.veh[u], place |-> s.place[u]]]
<1>4. Moved(s, held) = Together(one)
    BY <1>1 DEF Moved
<1>5. Together(one).veh[v] = one[v].veh /\ Together(one).place[v] = one[v].place
    <2> HIDE DEF one
    <2>1. DOMAIN one = Ids
        BY DEF one
    <2> QED BY <2>1 DEF Together
<1> QED BY <1>2, <1>3, <1>4, <1>5

LEMMA MovedIsScene ==
    ASSUME road \in Nets, NEW s, Scene(s), NEW held
    PROVE  Scene(Moved(s, held))
<1> DEFINE r == Moved(s, held)
<1>1. ASSUME NEW v \in Ids
      PROVE  /\ r.veh[v] \in VehType /\ r.place[v] \in road.lanes \cup Away
             /\ r.place[v] \in road.lanes => r.veh[v].pos <= road.len[r.place[v]]
    <2>1. CASE s.place[v] \in Away
        <3>1. r.veh[v] = s.veh[v] /\ r.place[v] = s.place[v]
            BY <2>1, MovedEach
        <3> HIDE DEF r
        <3> QED BY <3>1, <2>1 DEF Scene, SceneType, Inside
    <2>2. CASE s.place[v] \in road.lanes
        <3> DEFINE m == MovedOne(s, v, v \in held)
        <3>1. r.veh[v] = m.veh /\ r.place[v] = m.place
            BY <2>2, MovedEach
        <3>2. /\ m.veh \in VehType /\ m.place \in road.lanes \cup Away
              /\ Stays(s, v, m) \/ Advances(s, v, m) \/ Crosses(s, v, m) \/ m.place = "left"
            <4>1. (v \in held) \in BOOLEAN
                OBVIOUS
            <4> QED BY <2>2, <4>1, MoveCases
        <3>3. s.veh[v].pos \in Nat /\ s.veh[v].pos <= road.len[s.place[v]]
              /\ \A l \in road.lanes : road.len[l] \in Nat \ {0}
            BY <2>2, RoadIsNetwork DEF Scene, SceneType, VehType, Inside, Network
        <3>4. "left" \notin road.lanes
            BY RoadIsNetwork DEF Network, Away
        <3> HIDE DEF m, r
        <3>5. m.place \in road.lanes => m.veh.pos <= road.len[m.place]
            BY <2>2, <3>2, <3>3, <3>4 DEF Stays, Advances, Crosses, ToEnd
        <3> QED BY <3>1, <3>2, <3>5
    <2>3. s.place[v] \in road.lanes \cup Away
        BY DEF Scene, SceneType
    <2> QED BY <2>1, <2>2, <2>3
<1>2. /\ r = [veh |-> [v \in Ids |-> r.veh[v]], place |-> [v \in Ids |-> r.place[v]]]
    <2>1. DOMAIN s.place = Ids
        BY DEF Scene, SceneType
    <2> DEFINE one == [u \in Ids |-> IF u \in Live(s) THEN MovedOne(s, u, u \in held)
                                      ELSE [veh |-> s.veh[u], place |-> s.place[u]]]
    <2>2. r = Together(one)
        BY <2>1 DEF Moved
    <2> HIDE DEF r
    <2>3. DOMAIN one = Ids
        OBVIOUS
    <2> HIDE DEF one
    <2> QED BY <2>2, <2>3 DEF Together
<1> HIDE DEF r
<1>3. r \in SceneType
    BY <1>1, <1>2 DEF SceneType
<1> QED BY <1>1, <1>3 DEF Scene, Inside, r

\* How a vehicle came to where it is after the motion.
After(r, v) == [veh |-> r.veh[v], place |-> r.place[v]]
Came(s, v, r) == Stays(s, v, After(r, v)) \/ Advances(s, v, After(r, v)) \/ Crosses(s, v, After(r, v))

LEMMA MovedCame ==
    ASSUME road \in Nets, NEW s, Scene(s), NEW held, NEW v \in Ids,
           Moved(s, held).place[v] \in road.lanes
    PROVE  s.place[v] \in road.lanes /\ Came(s, v, Moved(s, held))
<1> DEFINE r == Moved(s, held)
           m == MovedOne(s, v, v \in held)
<1>1. s.place[v] \in road.lanes
    <2>1. s.place[v] \in road.lanes \cup Away
        BY DEF Scene, SceneType
    <2>2. s.place[v] \in Away => r.place[v] \in Away
        BY MovedEach
    <2> QED BY <2>1, <2>2, RoadIsNetwork DEF Network
<1>2. r.veh[v] = m.veh /\ r.place[v] = m.place
    BY <1>1, MovedEach
<1>3. Stays(s, v, m) \/ Advances(s, v, m) \/ Crosses(s, v, m) \/ m.place = "left"
    <2>1. (v \in held) \in BOOLEAN
        OBVIOUS
    <2> QED BY <1>1, <2>1, MoveCases
<1>4. "left" \notin road.lanes
    BY RoadIsNetwork DEF Network, Away
<1> HIDE DEF r, m
<1>5. Stays(s, v, m) \/ Advances(s, v, m) \/ Crosses(s, v, m)
    BY <1>2, <1>3, <1>4 DEF r
<1>6. Came(s, v, r)
    BY <1>2, <1>5 DEF Came, Stays, Advances, Crosses, After
<1> QED BY <1>1, <1>6 DEF r

\* The vehicle at the end of a lane is its foremost one.
LEMMA FrontIsForemost ==
    ASSUME road \in Nets, NEW s, Scene(s), Apart(s), NEW w \in Ids, s.place[w] \in road.lanes,
           s.veh[w].pos = road.len[s.place[w]]
    PROVE  On(s, s.place[w]) # {} /\ Foremost(s, s.place[w]) = w
<1> DEFINE l == s.place[w]
           first == Foremost(s, l)
<1>1. w \in On(s, l) /\ On(s, l) = {x \in Ids : s.place[x] = l}
    BY DEF On, Scene, SceneType
<1>2. \A x \in On(s, l) : s.veh[x].pos \in Nat /\ s.veh[x].pos <= road.len[l]
    BY <1>1 DEF Scene, SceneType, VehType, Inside
<1>3. \A x \in On(s, l) : s.veh[x].pos <= s.veh[w].pos
    BY <1>2
<1>4. first \in On(s, l) /\ \A x \in On(s, l) : s.veh[x].pos <= s.veh[first].pos
    BY <1>1, <1>3 DEF Foremost
<1> HIDE DEF first
<1>5. s.veh[first].pos = s.veh[w].pos
    BY <1>1, <1>2, <1>3, <1>4
<1>6. first = w
    BY <1>1, <1>4, <1>5 DEF Apart
<1> QED BY <1>1, <1>6 DEF first

\* A box is left only if nobody on a sibling branch comes first.
LEMMA CrossesUnthreatened ==
    ASSUME road \in Nets, NEW s, Scene(s), NEW v \in Ids, NEW m, Crosses(s, v, m),
           s.place[v] \in road.lanes, road.box[s.place[v]]
    PROVE  ~ExitWalk(s, v, s.place[v], TRUE).blocked
           /\ ~SeamGate(s, v, s.place[v])
           /\ ~MergeThreat(s, v, s.place[v], Picked(s.place[v], v), 0)
<1> DEFINE l == s.place[v]
           n == Picked(l, v)
           start == ExitStart(s, v, l)
           rest == [start EXCEPT !.end = TRUE, !.foe = TRUE]
<1>1. ToEnd(s, v) = 0 /\ start.dist = 0 /\ start.lane = l
    BY RoadIsNetwork DEF Crosses, ToEnd, ExitStart, Network
<1>2. ~SeamGate(s, v, l)
    BY <1>1 DEF Crosses, RowGate
<1>3. ~ExitWalk(s, v, l, TRUE).blocked
    BY <1>2 DEF SeamGate
<1>4. ASSUME MergeThreat(s, v, l, n, 0) PROVE FALSE
    <2>1. ExitStep(s, v, start, n, TRUE) = rest
        <3> HIDE DEF n, l
        <3>1. MergeThreat(s, v, start.lane, n, start.dist)
            BY <1>1, <1>4
        <3>2. ExitStep(s, v, start, n, TRUE) = [[start EXCEPT !.end = TRUE] EXCEPT !.foe = TRUE]
            <4> HIDE DEF start
            <4> QED BY <3>1 DEF ExitStep
        <3>3. [[start EXCEPT !.end = TRUE] EXCEPT !.foe = TRUE] = rest
            BY DEF ExitStart
        <3> QED BY <3>2, <3>3
    <2>2. rest.end /\ rest.foe /\ ~rest.pass
        BY DEF ExitStart
    <2>3. RoomOf(rest).blocked
        <3> HIDE DEF rest
        <3> QED BY <2>2 DEF RoomOf
    <2>4. road.succ[l] # << >>
        BY DEF Crosses
    <2> HIDE DEF rest, start
    <2>5. ExitWalk(s, v, l, TRUE) = RoomOf(rest)
        BY <2>1, <2>2, <2>4, ExitEnds, JunctionAssumption DEF start
    <2> QED BY <2>3, <2>5, <1>3
<1> QED BY <1>2, <1>3, <1>4

\* Ids are numbers: of two the lower one goes first.
LEMMA IdsAreIntegers ==
    ASSUME road \in Nets
    PROVE  Ids \subseteq Int
<1>1. road.demand \in [DOMAIN road.demand -> Seq(Int)]
    BY RoadIsNetwork DEF Network
<1>2. ASSUME NEW o \in DOMAIN road.demand, NEW i \in DOMAIN road.demand[o] PROVE road.demand[o][i] \in Int
    <2>1. road.demand[o] \in Seq(Int)
        BY <1>1
    <2> QED BY <2>1
<1> QED BY <1>2 DEF Ids, IdsOf

\* Nobody lands on anybody.
LEMMA MovedKeepsApart ==
    ASSUME road \in Nets, MergesInJunctions(road), NEW s, Scene(s), Apart(s), NEW held
    PROVE  Apart(Moved(s, held))
<1> DEFINE r == Moved(s, held)
<1> SUFFICES ASSUME NEW v \in Ids, NEW w \in Ids, r.place[v] \in road.lanes,
                    r.place[w] = r.place[v], r.veh[v].pos = r.veh[w].pos, v # w
             PROVE  FALSE
    BY DEF Apart
<1> DEFINE l == s.place[v]
           k == s.place[w]
           n == r.place[v]
<1>1. l \in road.lanes /\ k \in road.lanes /\ Came(s, v, r) /\ Came(s, w, r)
    BY MovedCame
<1>2. /\ \A x \in Ids : s.veh[x].pos \in Nat
      /\ \A x \in Ids, y \in road.lanes : s.place[x] = y => x \in On(s, y)
    BY DEF Scene, SceneType, VehType, On
<1> HIDE DEF r
<1>3. CASE ~Crosses(s, v, After(r, v)) /\ ~Crosses(s, w, After(r, w))
    <2>1. l = n /\ k = n
        BY <1>1, <1>3 DEF Came, Stays, Advances, After
    <2>2. CASE Stays(s, v, After(r, v)) /\ Stays(s, w, After(r, w))
        BY <2>1, <2>2, <1>1 DEF Stays, After, Apart
    <2>3. CASE Advances(s, v, After(r, v)) /\ Advances(s, w, After(r, w))
        BY <2>1, <2>3, <1>1, <1>2 DEF Advances, After, Apart
    <2>4. CASE Stays(s, v, After(r, v)) /\ Advances(s, w, After(r, w))
        BY <2>1, <2>4, <1>1, <1>2 DEF Stays, Advances, After
    <2>5. CASE Advances(s, v, After(r, v)) /\ Stays(s, w, After(r, w))
        BY <2>1, <2>5, <1>1, <1>2 DEF Stays, Advances, After
    <2> QED BY <2>2, <2>3, <2>4, <2>5, <1>1, <1>3 DEF Came
<1>4. ASSUME NEW x \in {v, w}, NEW y \in {v, w}, x # y, Crosses(s, x, After(r, x)),
             ~Crosses(s, y, After(r, y))
      PROVE  FALSE
    <2>1. Came(s, y, r) /\ s.place[y] = n /\ r.place[x] = n /\ r.veh[x].pos = r.veh[y].pos
        BY <1>1, <1>4 DEF Came, Stays, Advances, After
    <2>2. r.veh[y].pos = 1
        BY <2>1, <1>4 DEF Crosses, After
    <2>3. s.veh[y].pos <= 1
        BY <2>1, <2>2, <1>2, <1>4 DEF Came, Stays, Advances, After
    <2>4. Picked(s.place[x], x) = n
        BY <2>1, <1>4 DEF Crosses, After
    <2>5. y \in On(s, n)
        BY <2>1, <1>1, <1>2
    <2> QED BY <2>3, <2>4, <2>5, <1>4 DEF Crosses
<1>5. CASE Crosses(s, v, After(r, v)) /\ Crosses(s, w, After(r, w))
    <2>1. /\ s.veh[v].pos = road.len[l] /\ s.veh[w].pos = road.len[k]
          /\ Picked(l, v) = n /\ Picked(k, w) = n
          /\ road.succ[l] # << >> /\ road.succ[k] # << >>
        BY <1>5 DEF Crosses, After
    <2>2. l # k
        BY <2>1, <1>1 DEF Apart
    <2>3. n \in road.lanes /\ l \in Prevs(n) /\ k \in Prevs(n)
        BY <2>1, <1>1, PickedIsSuccessor
    <2>4. road.box[l] /\ road.box[k]
        BY <2>2, <2>3 DEF MergesInJunctions, Prevs
    <2>5. On(s, l) # {} /\ Foremost(s, l) = v /\ On(s, k) # {} /\ Foremost(s, k) = w
        BY <2>1, <1>1, FrontIsForemost
    <2>6. ~MergeThreat(s, v, l, n, 0) /\ ~MergeThreat(s, w, k, n, 0)
        BY <2>1, <2>4, <1>1, <1>5, CrossesUnthreatened
    <2>7. road.len[l] \in Nat /\ road.len[k] \in Nat
        BY <1>1, RoadIsNetwork DEF Network
    <2>8. w < v => Beats(s, v, 0, [lane |-> k, dist |-> 0])
        BY <2>1, <2>5, <2>7 DEF Beats
    <2>9. v < w => Beats(s, w, 0, [lane |-> l, dist |-> 0])
        BY <2>1, <2>5, <2>7 DEF Beats
    <2>10. ~(w < v)
        BY <2>2, <2>3, <2>6, <2>8, SiblingThreatens
    <2>11. ~(v < w)
        BY <2>2, <2>3, <2>6, <2>9, SiblingThreatens
    <2>12. v \in Int /\ w \in Int
        BY IdsAreIntegers
    <2> QED BY <2>10, <2>11, <2>12
<1> QED BY <1>3, <1>4, <1>5

\* Who rolls up to a line did so under a light that does not hold.
LEMMA MovedIsCommitted ==
    ASSUME road \in Nets, clock \in 0..road.cycle - 1, NEW s, Scene(s), NEW held
    PROVE  Committed(Moved(s, held), clock)
<1> DEFINE r == Moved(s, held)
<1> SUFFICES ASSUME NEW v \in Ids, r.place[v] \in road.lanes, road.succ[r.place[v]] # << >>,
                    road.len[r.place[v]] # 1, road.box[Picked(r.place[v], v)],
                    r.veh[v].moving, r.veh[v].pos = road.len[r.place[v]],
                    Shown(road, Picked(r.place[v], v), clock) \in {"red", "amber"}
             PROVE  FALSE
    BY DEF Committed
<1> DEFINE l == s.place[v]
           n == Picked(l, v)
<1>1. l \in road.lanes /\ Came(s, v, r)
    BY MovedCame
<1>2. s.veh[v].pos \in Nat /\ \A x \in road.lanes : road.len[x] \in Nat
    BY RoadIsNetwork DEF Scene, SceneType, VehType, Network
<1> HIDE DEF r
<1>3. Advances(s, v, After(r, v))
    BY <1>1 DEF Came, Stays, Crosses, After
<1>4. r.place[v] = l /\ ToEnd(s, v) = 1 /\ RowGate(s, v) # 1
    BY <1>1, <1>2, <1>3 DEF Advances, After, ToEnd
<1>5. Light(n) \in {"red", "amber"} /\ Controlled(n) /\ n \in road.lanes /\ road.succ[l] # << >>
    BY <1>1, <1>4, PickedIsSuccessor DEF Light, Shown, Controlled
<1>6. SigGate(s, v, n, 1)
    BY <1>5 DEF SigGate
<1>7. CASE road.box[l]
    BY <1>4, <1>5, <1>6, <1>7 DEF RowGate, SeamGate
<1>8. CASE ~road.box[l]
    <2> DEFINE t == [lane |-> n, dist |-> 1]
    <2>1. GateTarget(s, v) = t
        BY <1>4, <1>5, GateAhead, JunctionAssumption
    <2>2. t # Nowhere
        BY <1>5, RoadIsNetwork DEF Nowhere, Network
    <2>3. RoadGate(s, v, t)
        BY <1>6 DEF RoadGate
    <2>4. RowGate(s, v) = t.dist
        <3> HIDE DEF t
        <3> QED BY <2>1, <2>2, <2>3, <1>5, <1>8 DEF RowGate, LineOf
    <2> QED BY <2>4, <1>4
<1> QED BY <1>7, <1>8

----------------------------------------------------------------------------
(* Foes do not enter together.                                             *)

\* A box with foes is controlled where somebody arbitrates.
LEMMA FoesAreControlled ==
    ASSUME road \in Nets, Arbitrated(road), clock \in 0..road.cycle - 1,
           NEW l \in road.lanes, FoesOf(road, l) # {}
    PROVE  /\ Controlled(l) /\ road.box[l]
           /\ road.row[l] # "none" <=> road.light[l] = << >>
           /\ road.row[l] # "none" <=> Light(l) = "off"
<1>1. PICK f \in FoesOf(road, l) : TRUE
    OBVIOUS
<1>2. /\ road.row[l] # "none" <=> road.light[l] = << >>
      /\ road.light[l] # << >> => Shown(road, l, clock) # "off"
    BY <1>1 DEF Arbitrated
<1>3. road.box[l]
    BY <1>1, FoesAreMutual
<1> QED BY <1>2, <1>3 DEF Controlled, Light, Shown

\* What the gates make sure of when a vehicle enters a box with foes.
LEMMA EntersUnderGate ==
    ASSUME road \in Nets, Arbitrated(road), clock \in 0..road.cycle - 1,
           NEW s, Scene(s), Clear(s), NEW v \in Ids, s.place[v] \in road.lanes,
           NEW m, Crosses(s, v, m), FoesOf(road, m.place) # {}
    PROVE  /\ ~FoeInside(s, m.place)
           /\ Light(m.place) \in {"red", "amber"} => s.veh[v].moving
           /\ Yields(road, m.place, clock) => ~FoeApproachConflict(s, v, m.place)
<1> DEFINE l == s.place[v]
           n == m.place
<1>1. /\ n = Picked(l, v) /\ n \in road.lanes /\ road.succ[l] # << >>
      /\ ToEnd(s, v) = 0 /\ RowGate(s, v) # 0
    <2>1. road.len[l] \in Nat
        BY RoadIsNetwork DEF Network
    <2> QED BY <2>1, PickedIsSuccessor DEF Crosses, ToEnd
<1>2. Controlled(n) /\ road.box[n] /\ (road.row[n] # "none" <=> Light(n) = "off")
    BY <1>1, FoesAreControlled
<1>3. Yields(road, n, clock) <=> road.row[n] # "none" \/ Permissive(n)
    BY DEF Yields, Permissive, Light, Shown
<1>4. CASE road.box[l]
    <2>1. ~SeamGate(s, v, l) /\ ~ExitWalk(s, v, l, TRUE).blocked /\ ~MergeThreat(s, v, l, n, 0)
        BY <1>1, <1>4, CrossesUnthreatened
    <2>2. ~SigGate(s, v, n, 0)
        BY <1>1, <1>2, <2>1 DEF SeamGate
    <2>3. Light(n) \in {"red", "amber"} => s.veh[v].moving
        BY <2>2 DEF SigGate
    <2>4. Yields(road, n, clock) => ~FoeApproachConflict(s, v, n)
        BY <1>1, <1>2, <1>3, <2>1 DEF SeamGate
    <2>5. ASSUME FoeInside(s, n) PROVE FALSE
        <3> DEFINE start == ExitStart(s, v, l)
                   rest == [[start EXCEPT !.end = TRUE] EXCEPT !.foe = TRUE]
        <3>1. start.dist = 0 /\ start.lane = l
            BY <1>1 DEF ExitStart, ToEnd
        <3>2. On(s, n) = {}
            <4>1. PICK f \in FoesOf(road, n) : On(s, f) # {}
                BY <2>5 DEF FoeInside, FoesOf
            <4>2. f \in road.lanes /\ n \in FoesOf(road, f)
                BY <1>1, FoesAreMutual
            <4>3. \A x : \A u \in On(s, x) : u \in Ids /\ s.place[u] = x
                BY DEF On, Scene, SceneType
            <4> QED BY <4>1, <4>2, <4>3 DEF Clear
        <3>3. ExitStep(s, v, start, n, TRUE) = rest
            <4> HIDE DEF start, n
            <4> QED BY <2>1, <2>5, <3>1, <3>2, <1>2 DEF ExitStep
        <3>4. rest.end /\ rest.foe /\ ~rest.pass
            BY DEF ExitStart
        <3>5. RoomOf(rest).blocked
            <4> HIDE DEF rest
            <4> QED BY <3>4 DEF RoomOf
        <3> HIDE DEF rest, start
        <3>6. ExitWalk(s, v, l, TRUE) = RoomOf(rest)
            BY <1>1, <3>3, <3>4, ExitEnds, JunctionAssumption, ZenonT(40) DEF start
        <3> QED BY <2>1, <3>5, <3>6
    <2> QED BY <2>3, <2>4, <2>5
<1>5. CASE ~road.box[l]
    <2> DEFINE t == [lane |-> n, dist |-> 0]
    <2>1. GateTarget(s, v) = t
        BY <1>1, <1>2, GateAhead, JunctionAssumption
    <2>2. t # Nowhere
        BY <1>1, RoadIsNetwork DEF Nowhere, Network
    <2>3. ~RoadGate(s, v, t)
        <3>1. RowGate(s, v) = LineOf(s, v, t)
            BY <1>1, <1>5, <2>1 DEF RowGate
        <3>2. t.dist = 0
            OBVIOUS
        <3> HIDE DEF t
        <3> QED BY <1>1, <2>2, <3>1, <3>2 DEF LineOf
    <2>4. ~SigGate(s, v, n, 0) /\ (road.row[n] # "none" \/ Permissive(n) => ~RowConflict(s, v, n))
        BY <2>3 DEF RoadGate
    <2>5. Light(n) \in {"red", "amber"} => s.veh[v].moving
        BY <2>4 DEF SigGate
    <2>6. Yields(road, n, clock) => ~FoeApproachConflict(s, v, n)
        BY <1>3, <2>4 DEF RowConflict
    <2>7. ~BoxWalk(s, v, n).blocked
        BY <1>2, <2>4 DEF SigGate, RowConflict
    <2>8. ~FoeInside(s, n)
        BY <2>7 DEF BoxWalk
    <2> QED BY <2>5, <2>6, <2>8
<1> QED BY <1>4, <1>5

\* Whoever has to yield enters only beside a standing foe that has to yield too,
\* and comes after it, or has priority and goes first.
LEMMA YieldsTo ==
    ASSUME road \in Nets, Arbitrated(road), clock \in 0..road.cycle - 1,
           NEW s, Scene(s), Clear(s), Apart(s),
           NEW v \in Ids, NEW w \in Ids, s.place[v] \in road.lanes, s.place[w] \in road.lanes,
           NEW m, NEW k, Crosses(s, v, m), Crosses(s, w, k), k.place \in FoesOf(road, m.place),
           Yields(road, m.place, clock),
           k.place \in road.merge[m.place] \/ road.row[m.place] # "major"
    PROVE  LET foeYields == road.row[k.place] \in {"minor", "stop"} \/ Permissive(k.place)
           IN  IF road.row[m.place] # "major" THEN foeYields /\ ~(w < v) ELSE foeYields \/ ~(w < v)
<1> DEFINE l == m.place
           f == k.place
           p == s.place[w]
           minor == road.row[l] # "major"
<1>1. l \in road.lanes /\ f \in road.lanes /\ p \in Prevs(f)
    BY PickedIsSuccessor DEF Crosses
<1>2. FoesOf(road, l) # {} /\ FoesOf(road, f) # {}
    BY <1>1, FoesAreMutual
<1>3. ~FoeApproachConflict(s, v, l)
    BY <1>2, EntersUnderGate
<1>4. ~FoeApproachBlocks(s, v, f, minor)
    <2>1. f \in road.merge[l] \cup (IF minor THEN road.cross[l] ELSE {})
        BY DEF FoesOf
    <2> QED BY <1>3, <2>1 DEF FoeApproachConflict
<1>5. On(s, p) # {} /\ Foremost(s, p) = w /\ ToEnd(s, w) = 0
    <2>1. road.len[p] \in Nat
        BY RoadIsNetwork DEF Network
    <2> QED BY <2>1, FrontIsForemost DEF Crosses, ToEnd
<1>6. Light(f) \in {"red", "amber"} => s.veh[w].moving
    BY <1>2, EntersUnderGate
<1> QED BY <1>1, <1>4, <1>5, <1>6 DEF FoeApproachBlocks, Precedes

\* A vehicle that enters a box does so while the light may let it.
LEMMA EntersWhileEnterable ==
    ASSUME road \in Nets, Arbitrated(road), clock \in 0..road.cycle - 1,
           NEW s, Scene(s), Clear(s), Committed(s, Before(road, clock)),
           NEW v \in Ids, s.place[v] \in road.lanes,
           NEW m, Crosses(s, v, m), FoesOf(road, m.place) # {}
    PROVE  Enterable(road, m.place, clock)
<1> DEFINE l == s.place[v]
           n == m.place
<1>1. n = Picked(l, v) /\ n \in road.lanes /\ l \in Prevs(n) /\ road.box[n]
    BY PickedIsSuccessor, FoesAreControlled DEF Crosses
<1>2. CASE Light(n) \notin {"red", "amber"}
    BY <1>2 DEF Light, Shown, Enterable
<1>3. CASE Light(n) \in {"red", "amber"}
    <2>1. s.veh[v].moving
        BY <1>3, EntersUnderGate
    <2>2. CASE road.len[l] = 1
        BY <1>1, <2>2 DEF Enterable, Prevs
    <2>3. CASE road.len[l] # 1
        <3>1. Shown(road, n, Before(road, clock)) \notin {"red", "amber"}
            BY <1>1, <2>1, <2>3 DEF Committed, Crosses
        <3> QED BY <3>1 DEF Enterable
    <2> QED BY <2>2, <2>3
<1> QED BY <1>2, <1>3

\* Where one of two foes has to yield, they do not both enter.
LEMMA YieldersStayApart ==
    ASSUME road \in Nets, Arbitrated(road), clock \in 0..road.cycle - 1,
           NEW s, Scene(s), Clear(s), Apart(s),
           NEW v \in Ids, NEW w \in Ids, s.place[v] \in road.lanes, s.place[w] \in road.lanes,
           NEW m, NEW k, Crosses(s, v, m), Crosses(s, w, k), k.place \in FoesOf(road, m.place),
           v # w, Yields(road, m.place, clock)
    PROVE  FALSE
<1>1. m.place \in road.lanes /\ k.place \in road.lanes /\ m.place \in FoesOf(road, k.place)
    <2>1. m.place \in road.lanes
        BY PickedIsSuccessor DEF Crosses
    <2> QED BY <2>1, FoesAreMutual
<1>2. /\ road.row[m.place] # "none" => Light(m.place) = "off"
      /\ road.row[k.place] # "none" => Light(k.place) = "off"
    BY <1>1, FoesAreControlled
<1>3. /\ ~ (Permissive(m.place) /\ road.row[m.place] # "none")
      /\ ~ (Permissive(k.place) /\ road.row[k.place] # "none")
    BY <1>2 DEF Permissive
<1>4. v \in Int /\ w \in Int
    BY IdsAreIntegers
<1>5. CASE road.row[m.place] # "major"
    <2>1. (road.row[k.place] \in {"minor", "stop"} \/ Permissive(k.place)) /\ ~(w < v)
        BY <1>5, YieldsTo
    <2>2. road.row[k.place] # "major" /\ Yields(road, k.place, clock)
        BY <2>1, <1>3 DEF Yields, Permissive, Light, Shown
    <2>3. ~(v < w)
        BY <1>1, <2>2, YieldsTo
    <2> QED BY <2>1, <2>3, <1>4
<1>6. CASE road.row[m.place] = "major"
    <2>1. road.row[k.place] \in {"minor", "stop"} \cup
              (IF k.place \in road.cross[m.place] THEN {} ELSE {"major"})
        BY <1>1, <1>6 DEF Arbitrated
    <2>2. Yields(road, k.place, clock)
        BY <2>1 DEF Yields
    <2>3. CASE road.row[k.place] \in {"minor", "stop"}
        <3>1. road.row[m.place] \in {"minor", "stop"} \/ Permissive(m.place)
            BY <1>1, <2>2, <2>3, YieldsTo
        <3> QED BY <3>1, <1>3, <1>6
    <2>4. CASE road.row[k.place] = "major" /\ k.place \notin road.cross[m.place]
        <3>1. k.place \in road.merge[m.place] /\ m.place \in road.merge[k.place]
            BY <2>4, <1>1, FoesAreMutual DEF FoesOf
        <3>2. ~(w < v)
            BY <1>3, <1>6, <2>4, <3>1, YieldsTo
        <3>3. ~(v < w)
            BY <1>1, <1>3, <1>6, <2>2, <2>4, <3>1, YieldsTo
        <3> QED BY <3>2, <3>3, <1>4
    <2> QED BY <2>1, <2>3, <2>4
<1> QED BY <1>5, <1>6

\* Of two foes that may both enter one has to yield.
LEMMA FoesStayApart ==
    ASSUME road \in Nets, Arbitrated(road), clock \in 0..road.cycle - 1,
           NEW s, Scene(s), Clear(s), Apart(s), Committed(s, Before(road, clock)),
           NEW v \in Ids, NEW w \in Ids, s.place[v] \in road.lanes, s.place[w] \in road.lanes,
           NEW m, NEW k, Crosses(s, v, m), Crosses(s, w, k), k.place \in FoesOf(road, m.place),
           v # w
    PROVE  FALSE
<1>1. m.place \in road.lanes /\ k.place \in road.lanes /\ m.place \in FoesOf(road, k.place)
    <2>1. m.place \in road.lanes
        BY PickedIsSuccessor DEF Crosses
    <2> QED BY <2>1, FoesAreMutual
<1>2. Enterable(road, m.place, clock) /\ Enterable(road, k.place, clock)
    BY <1>1, EntersWhileEnterable
<1>3. Yields(road, m.place, clock) \/ Yields(road, k.place, clock)
    BY <1>1, <1>2 DEF Arbitrated
<1> QED BY <1>1, <1>3, YieldersStayApart

\* No two foes are in their boxes after the motion.
LEMMA MovedKeepsClear ==
    ASSUME road \in Nets, Arbitrated(road), clock \in 0..road.cycle - 1,
           NEW s, Scene(s), Clear(s), Apart(s), Committed(s, Before(road, clock)), NEW held
    PROVE  Clear(Moved(s, held))
<1> DEFINE r == Moved(s, held)
<1> SUFFICES ASSUME NEW v \in Ids, NEW w \in Ids, r.place[v] \in road.lanes,
                    r.place[w] \in FoesOf(road, r.place[v])
             PROVE  FALSE
    BY DEF Clear
<1>1. /\ r.place[w] \in road.lanes /\ r.place[v] # r.place[w]
      /\ r.place[v] \in FoesOf(road, r.place[w])
    BY FoesAreMutual
<1>2. /\ s.place[v] \in road.lanes /\ s.place[w] \in road.lanes
      /\ Came(s, v, r) /\ Came(s, w, r)
    BY <1>1, MovedCame
<1>3. v # w
    BY <1>1
<1> HIDE DEF r
<1>4. CASE Crosses(s, v, After(r, v)) /\ Crosses(s, w, After(r, w))
    <2>1. After(r, v).place = r.place[v] /\ After(r, w).place = r.place[w]
        BY DEF After
    <2> QED BY <1>2, <1>3, <1>4, <2>1, FoesStayApart
<1>5. ASSUME NEW x \in {v, w}, NEW y \in {v, w}, r.place[y] \in FoesOf(road, r.place[x]),
             Crosses(s, x, After(r, x)), ~Crosses(s, y, After(r, y))
      PROVE  FALSE
    <2>1. s.place[y] = r.place[y] /\ y \in Ids /\ x \in Ids /\ s.place[x] \in road.lanes
        BY <1>2, <1>5 DEF Came, Stays, Advances, After
    <2>2. ~FoeInside(s, r.place[x])
        <3>1. After(r, x).place = r.place[x]
            BY DEF After
        <3> QED BY <2>1, <3>1, <1>5, EntersUnderGate
    <2>3. y \in On(s, r.place[y])
        BY <2>1 DEF On, Scene, SceneType
    <2> QED BY <2>2, <2>3, <1>5 DEF FoeInside, FoesOf
<1>6. CASE ~Crosses(s, v, After(r, v)) /\ ~Crosses(s, w, After(r, w))
    <2>1. s.place[v] = r.place[v] /\ s.place[w] = r.place[w]
        BY <1>2, <1>6 DEF Came, Stays, Advances, After
    <2> QED BY <2>1, <1>1 DEF Clear
<1> QED BY <1>1, <1>4, <1>5, <1>6

----------------------------------------------------------------------------
(* The tick.                                                               *)

LEMMA RemainingIsRegistry ==
    ASSUME NEW registered \in Seq(Ids), NEW where
    PROVE  Remaining(registered, where) \in Seq(Ids)
<1> DEFINE N == Len(registered)
           A == Seq(Ids)
           At(i, q) == IF where[registered[i]] \in Away THEN q ELSE Append(q, registered[i])
           F == [i \in 1..N |-> [q \in A |-> At(i, q)]]
<1>1. N \in Nat /\ << >> \in A
    OBVIOUS
<1>2. ASSUME NEW i \in 1..N, NEW q \in A PROVE At(i, q) \in A
    OBVIOUS
<1>3. F \in [1..N -> [A -> A]]
    <2> HIDE DEF A, At
    <2> QED BY <1>2
<1>4. PICK W : IsWalk(N, A, << >>, F, W)
    <2> HIDE DEF F, A, N
    <2> QED BY ONLY <1>1, <1>3, WalkExists
<1>5. \A i \in 0..N : W[i] = IF i = 0 THEN << >> ELSE At(i, W[i - 1])
    <2> HIDE DEF A, At
    <2>1. ASSUME NEW i \in 1..N PROVE W[i] = At(i, W[i - 1])
        <3>1. W[i - 1] \in A
            BY <1>1, <1>4 DEF IsWalk
        <3> QED BY <3>1, <1>4 DEF IsWalk
    <2> QED BY <2>1, <1>1, <1>4 DEF IsWalk
<1>6. IsRegistry(registered, where, W)
    BY <1>4, <1>5 DEF IsRegistry, IsWalk
<1>7. PICK X : IsRegistry(registered, where, X) /\ Remaining(registered, where) = X[N]
    BY <1>6, RemainingIsWalk
<1>8. \A i \in 0..N : X[i] = IF i = 0 THEN << >> ELSE At(i, X[i - 1])
    BY <1>7 DEF IsRegistry
<1>9. X[N] \in A
    <2> HIDE DEF A, At
    <2>1. X[0] \in A
        BY <1>1, <1>8
    <2>2. \A i \in 1..N : X[i - 1] \in A => X[i] \in A
        BY <1>1, <1>2, <1>8
    <2> HIDE DEF N
    <2>3. \A i \in 0..N : X[i] \in A
        BY ONLY <2>1, <2>2, <1>1, KeptByWalk
    <2> QED BY <2>3, <1>1
<1> QED BY <1>7, <1>9

\* What holds between two ticks, on every network.
Typed ==
    /\ road \in Nets
    /\ clock \in 0..road.cycle - 1
    /\ Scene(Traffic)
    /\ order \in Seq(Ids)
    /\ queue \in [Origins -> Seq(Ids)]
    /\ until \in [Origins -> Int]

\* Who rolls at a line came to it a tick ago.
Rolling == Committed(Traffic, Before(road, clock))

\* What a traffic state after a tick has to be.
Follows(after) ==
    /\ Scene(after) /\ Committed(after, clock)
    /\ MergesInJunctions(road) /\ Apart(Traffic) => Apart(after)
    /\ Arbitrated(road) /\ MergesInJunctions(road) /\ Rolling /\ Apart(Traffic) /\ Clear(Traffic)
           => Clear(after)

LEMMA StageKeeps ==
    ASSUME Typed, NEW spawned \in SpawnType, Keeps(Traffic, SceneOf(spawned)), NEW held
    PROVE  Follows(Stranded(Moved(SceneOf(spawned), held), spawned.order))
<1> DEFINE s == SceneOf(spawned)
           r == Moved(s, held)
           q == Stranded(r, spawned.order)
<1>1. road \in Nets /\ clock \in 0..road.cycle - 1 /\ Scene(s)
    BY DEF Typed, Keeps
<1>2. Scene(r) /\ Committed(r, clock)
    BY <1>1, MovedIsScene, MovedIsCommitted
<1>3. Len(spawned.order) \in Nat
    BY DEF SpawnType
<1> HIDE DEF r, s
<1>4. Keeps(r, q)
    BY <1>1, <1>2, <1>3, StrandedKeeps
<1> HIDE DEF q
<1>5. Scene(q) /\ Committed(q, clock)
    BY <1>2, <1>4 DEF Keeps
<1>6. ASSUME MergesInJunctions(road), Apart(Traffic) PROVE Apart(q)
    <2>1. Apart(s)
        BY <1>6 DEF Keeps, s
    <2>2. Apart(r)
        BY <1>1, <1>6, <2>1, MovedKeepsApart DEF r
    <2> QED BY <1>4, <2>2 DEF Keeps
<1>7. ASSUME Arbitrated(road), Rolling, Apart(Traffic), Clear(Traffic) PROVE Clear(q)
    <2>1. Apart(s) /\ Clear(s) /\ Committed(s, Before(road, clock))
        BY <1>7 DEF Keeps, Rolling, s
    <2>2. Clear(r)
        BY <1>1, <1>7, <2>1, MovedKeepsClear DEF r
    <2> QED BY <1>4, <2>2 DEF Keeps
<1> QED BY <1>5, <1>6, <1>7 DEF Follows, q, r, s

LEMMA TickFollows ==
    ASSUME Typed, NEW intervals \in [Origins -> Nat], NEW held, Tick(intervals, held), road' = road
    PROVE  /\ Follows(Traffic') /\ clock' \in 0..road.cycle - 1 /\ Before(road, clock') = clock
           /\ order' \in Seq(Ids) /\ queue' \in [Origins -> Seq(Ids)] /\ until' \in [Origins -> Int]
<1> DEFINE due == [o \in DOMAIN until |-> IF until[o] > -MaxLag THEN until[o] - 1 ELSE -MaxLag]
           st == [veh |-> veh, place |-> place, order |-> order, queue |-> queue, until |-> due]
           spawned == Spawned(st, intervals)
           after == Stranded(Moved(SceneOf(spawned), held), spawned.order)
<1>1. Settles(spawned, after)
    BY DEF Tick, StepsOn, SceneOf
<1>2. st \in SpawnType /\ SceneOf(st) = Traffic
    <2>1. due \in [Origins -> Int]
        BY JunctionAssumption DEF JunctionAssumption, Typed
    <2> HIDE DEF due
    <2>2. SceneOf(st) = Traffic
        BY DEF SceneOf, Traffic
    <2> QED BY <2>1, <2>2 DEF SpawnType, Typed, Scene, SceneType, Traffic
<1> HIDE DEF st
<1>3. spawned \in SpawnType /\ Keeps(Traffic, SceneOf(spawned))
    BY <1>2, SpawnedKeeps DEF Typed, Scene
<1> HIDE DEF spawned
<1>4. Follows(after)
    BY <1>3, StageKeeps
<1> HIDE DEF after
<1>5. Traffic' = after
    <2>1. veh' = after.veh /\ place' = after.place
        BY <1>1 DEF Settles
    <2>2. after \in SceneType
        BY <1>4 DEF Follows, Scene
    <2> QED BY <2>1, <2>2 DEF Traffic, SceneType
<1>6. clock' \in 0..road.cycle - 1 /\ Before(road, clock') = clock
    <2>1. road.cycle \in Nat \ {0, 1} /\ clock \in 0..road.cycle - 1
        BY RoadIsNetwork DEF Typed, Network
    <2>2. clock' = (clock + 1) % road.cycle
        BY <1>1 DEF Settles
    <2> DEFINE c == road.cycle
    <2> HIDE DEF c
    <2>3. c \in Nat \ {0, 1} /\ clock \in 0..c - 1 /\ clock' = (clock + 1) % c
        BY <2>1, <2>2 DEF c
    <2>4. CASE clock + 1 = c
        <3>1. c % c = 0
            BY <2>3
        <3>2. clock' = 0
            BY <2>3, <2>4, <3>1
        <3> QED BY <2>3, <2>4, <3>2 DEF Before, c
    <2>5. CASE clock + 1 # c
        <3>1. clock + 1 \in 0..c - 1
            BY <2>3, <2>5
        <3>2. clock' = clock + 1
            BY <2>3, <3>1
        <3> QED BY <2>3, <3>1, <3>2 DEF Before, c
    <2> QED BY <2>4, <2>5
<1>7. order' \in Seq(Ids) /\ queue' \in [Origins -> Seq(Ids)] /\ until' \in [Origins -> Int]
    <2>1. spawned.order \in Seq(Ids) /\ spawned.queue \in [Origins -> Seq(Ids)]
          /\ spawned.until \in [Origins -> Int] /\ DOMAIN until = Origins
        BY <1>3 DEF SpawnType, Typed
    <2>2. order' = Remaining(spawned.order, after.place) /\ queue' = spawned.queue
          /\ until' = [o \in DOMAIN until |-> IF spawned.queue[o] = << >> THEN 0 ELSE spawned.until[o]]
        BY <1>1 DEF Settles
    <2> QED BY <2>1, <2>2, RemainingIsRegistry
<1> QED BY <1>4, <1>5, <1>6, <1>7

LEMMA KernelInitHolds ==
    ASSUME KernelInit
    PROVE  Typed /\ Rolling /\ Apart(Traffic) /\ Clear(Traffic)
<1>1. road \in Nets /\ Network(road)
    BY JunctionAssumption DEF KernelInit
<1>2. \A v \in Ids : veh[v] = Still /\ place[v] = "pending"
    BY DEF KernelInit, Ids
<1>3. \A v \in Ids : place[v] \notin road.lanes
    BY <1>1, <1>2 DEF Network, Away
<1>4. Scene(Traffic)
    <2>1. Still \in VehType
        BY DEF Still, VehType
    <2>2. Traffic \in SceneType
        BY <2>1 DEF KernelInit, Traffic, SceneType, Ids, Away
    <2> QED BY <1>3, <2>2 DEF Scene, Inside, Traffic
<1>5. queue \in [Origins -> Seq(Ids)]
    <2>1. \A o \in Origins : road.demand[o] \in Seq(Int)
        BY <1>1 DEF Network, Origins
    <2>2. \A o \in Origins : \A i \in DOMAIN road.demand[o] : road.demand[o][i] \in Ids
        BY DEF Ids, IdsOf, Origins
    <2>3. ASSUME NEW o \in Origins PROVE road.demand[o] \in Seq(Ids)
        <3> DEFINE d == road.demand[o]
        <3>1. d \in Seq(Int) /\ \A i \in DOMAIN d : d[i] \in Ids
            BY <2>1, <2>2
        <3>2. d \in [1..Len(d) -> Ids] /\ Len(d) \in Nat
            <4> HIDE DEF d
            <4>1. DOMAIN d = 1..Len(d) /\ d = [i \in 1..Len(d) |-> d[i]] /\ Len(d) \in Nat
                BY <3>1
            <4> QED BY <3>1, <4>1
        <3> HIDE DEF d
        <3>3. d \in Seq(Ids)
            BY <3>2
        <3> QED BY <3>3 DEF d
    <2>4. road.demand = [o \in Origins |-> road.demand[o]]
        BY <1>1 DEF Network, Origins
    <2> QED BY <2>3, <2>4 DEF KernelInit
<1>6. until \in [Origins -> Int] /\ order \in Seq(Ids)
    BY JunctionAssumption DEF KernelInit, Origins, JunctionAssumption
<1>7. clock \in 0..road.cycle - 1
    BY <1>1 DEF KernelInit, Network
<1>8. Rolling /\ Apart(Traffic) /\ Clear(Traffic)
    BY <1>3 DEF Rolling, Committed, Apart, Clear, Traffic
<1> QED BY <1>1, <1>4, <1>5, <1>6, <1>7, <1>8 DEF Typed

LEMMA KernelNextFollows ==
    ASSUME Typed, [KernelNext]_kernelVars
    PROVE  /\ road' = road /\ Typed' /\ (Rolling => Rolling')
           /\ MergesInJunctions(road) /\ Apart(Traffic) => Apart(Traffic)'
           /\ /\ Arbitrated(road) /\ MergesInJunctions(road)
              /\ Rolling /\ Apart(Traffic) /\ Clear(Traffic)
              => Clear(Traffic)'
<1>1. CASE UNCHANGED kernelVars
    <2>1. /\ road' = road /\ clock' = clock /\ order' = order /\ queue' = queue /\ until' = until
          /\ Traffic' = Traffic
        BY <1>1 DEF kernelVars, Traffic
    <2>2. Ids' = Ids /\ Origins' = Origins
        BY <2>1 DEF Ids, Origins
    <2>3. Scene(Traffic)' <=> Scene(Traffic)
        BY <2>1, <2>2 DEF Scene, SceneType, Inside
    <2>4. Rolling' <=> Rolling
        BY <2>1, <2>2 DEF Rolling, Committed, Picked
    <2>5. Apart(Traffic)' <=> Apart(Traffic)
        BY <2>1, <2>2 DEF Apart
    <2>6. Clear(Traffic)' <=> Clear(Traffic)
        BY <2>1, <2>2 DEF Clear
    <2>7. Typed'
        BY <2>1, <2>2, <2>3 DEF Typed
    <2> QED BY <2>1, <2>4, <2>5, <2>6, <2>7
<1>2. ASSUME NEW intervals \in [Origins -> Nat], NEW held, Tick(intervals, held), road' = road
      PROVE  /\ Typed' /\ Rolling'
             /\ MergesInJunctions(road) /\ Apart(Traffic) => Apart(Traffic)'
             /\ /\ Arbitrated(road) /\ MergesInJunctions(road)
                /\ Rolling /\ Apart(Traffic) /\ Clear(Traffic)
                => Clear(Traffic)'
    <2>1. /\ Follows(Traffic') /\ clock' \in 0..road.cycle - 1 /\ Before(road, clock') = clock
          /\ order' \in Seq(Ids) /\ queue' \in [Origins -> Seq(Ids)] /\ until' \in [Origins -> Int]
        BY <1>2, TickFollows
    <2>2. Ids' = Ids /\ Origins' = Origins
        BY <1>2 DEF Ids, Origins
    <2>3. Scene(Traffic)' <=> Scene(Traffic')
        BY <1>2, <2>2 DEF Scene, SceneType, Inside
    <2>4. Committed(Traffic, Before(road, clock))' <=> Committed(Traffic', Before(road, clock'))
        BY <1>2, <2>2 DEF Committed, Picked
    <2>5. Apart(Traffic)' <=> Apart(Traffic')
        BY <1>2, <2>2 DEF Apart
    <2>6. Clear(Traffic)' <=> Clear(Traffic')
        BY <1>2, <2>2 DEF Clear
    <2>7. Typed'
        BY <1>2, <2>1, <2>2, <2>3 DEF Typed, Follows
    <2> QED BY <2>1, <2>4, <2>5, <2>6, <2>7 DEF Follows, Rolling
<1>3. CASE FreeTick
    <2>1. PICK intervals \in [DOMAIN road.demand -> 1..MaxInterval] : Tick(intervals, {})
        BY <1>3 DEF FreeTick
    <2>2. intervals \in [Origins -> Nat]
        BY <2>1, JunctionAssumption DEF Origins, JunctionAssumption
    <2> QED BY <1>2, <1>3, <2>1, <2>2 DEF FreeTick
<1>4. CASE DawdleTick
    <2>1. PICK v \in Ids : Tick([o \in DOMAIN road.demand |-> 1], {v})
        BY <1>4 DEF DawdleTick
    <2>2. [o \in DOMAIN road.demand |-> 1] \in [Origins -> Nat]
        BY DEF Origins
    <2> QED BY <1>2, <1>4, <2>1, <2>2 DEF DawdleTick
<1> QED BY <1>1, <1>3, <1>4 DEF KernelNext

----------------------------------------------------------------------------
(* Theorems.                                                               *)

\* On every network the kernel's tables keep their shapes and no vehicle is
\* past the end of its lane (engine.go, integrate and boundaries).
THEOREM TypeCorrect == KernelSpec => []Typed
<1>1. KernelInit => Typed
    BY KernelInitHolds
<1>2. Typed /\ [KernelNext]_kernelVars => Typed'
    BY KernelNextFollows
<1> QED BY <1>1, <1>2, PTL DEF KernelSpec

\* Where lanes merge only inside junctions, nobody lands on anybody: of two
\* vehicles at a shared exit one is always held back (rightofway.go,
\* mergeThreat; engine.go, boundaries).
THEOREM NobodyLandsOnAnybody ==
    ASSUME \A n \in Nets : MergesInJunctions(n)
    PROVE  KernelSpec => []NoCrossOverlap
<1> DEFINE Inv == Typed /\ Apart(Traffic)
<1>1. KernelInit => Inv
    BY KernelInitHolds
<1>2. Inv /\ [KernelNext]_kernelVars => Inv'
    <2> SUFFICES ASSUME Inv, [KernelNext]_kernelVars PROVE Inv'
        OBVIOUS
    <2>1. MergesInJunctions(road)
        BY DEF Typed
    <2> QED BY <2>1, KernelNextFollows
<1>3. Inv => NoCrossOverlap
    <2> SUFFICES ASSUME Inv, NEW v \in Live(Traffic), NEW w \in Live(Traffic),
                        v # w, place[v] = place[w]
                 PROVE  veh[v].pos # veh[w].pos
        BY DEF NoCrossOverlap
    <2>1. v \in Ids /\ w \in Ids /\ place[v] \in road.lanes
        BY DEF Live, Typed, Scene, SceneType, Traffic
    <2> QED BY <2>1 DEF Apart, Traffic
<1> QED BY <1>1, <1>2, <1>3, PTL DEF KernelSpec

\* Where somebody decides between any two foes at any time, vehicles on
\* crossing or merging paths are never inside a junction together
\* (rightofway.go, rowGate, rowConflict and boxWalk; signal.go, sigGate).
THEOREM FoesNeverMeet ==
    ASSUME \A n \in Nets : Arbitrated(n) /\ MergesInJunctions(n)
    PROVE  KernelSpec => []SafeBox
<1> DEFINE Inv == Typed /\ Rolling /\ Apart(Traffic) /\ Clear(Traffic)
<1>1. KernelInit => Inv
    BY KernelInitHolds
<1>2. Inv /\ [KernelNext]_kernelVars => Inv'
    <2> SUFFICES ASSUME Inv, [KernelNext]_kernelVars PROVE Inv'
        OBVIOUS
    <2>1. Arbitrated(road) /\ MergesInJunctions(road)
        BY DEF Typed
    <2> QED BY <2>1, KernelNextFollows
<1>3. Inv => SafeBox
    <2> SUFFICES ASSUME Inv, NEW l \in road.lanes, On(Traffic, l) # {}, FoeInside(Traffic, l)
                 PROVE  FALSE
        BY DEF SafeBox
    <2>1. PICK f \in FoesOf(road, l) : On(Traffic, f) # {}
        BY DEF FoeInside, FoesOf
    <2>2. \A x : \A u \in On(Traffic, x) : u \in Ids /\ Traffic.place[u] = x
        BY DEF On, Typed, Scene, SceneType
    <2> QED BY <2>1, <2>2 DEF Clear
<1> QED BY <1>1, <1>2, <1>3, PTL DEF KernelSpec

=============================================================================
