------------------------------ MODULE Keyframe ------------------------------
(***************************************************************************)
(* Saving and restoring an engine in the middle of a run                   *)
(* (src/engine/keyframe.go) and the adaptive route choice whose tables are *)
(* not saved but rebuilt (engine.go, routing.go).                          *)
(*                                                                         *)
(* A restored engine must go on exactly as the one that was saved.  The    *)
(* engine here has one state of every kind that decides what vehicles do:  *)
(* the spawner's schedule, queued directives, a commanded signal hold and  *)
(* its clearance, stop duties, stuck timers, routes, and the travel times  *)
(* adaptive routing measures, freezes per epoch and builds its tables on.  *)
(* Its road is one fork with a fast and a slow branch to the destination.  *)
(* The format's version is the lowest that can hold the state, so which    *)
(* parts a payload has depends on the state; a reader that expects other   *)
(* parts than were written reads garbage.                                  *)
(***************************************************************************)
EXTENDS Integers, Sequences, FiniteSets

CONSTANTS
    FreeFlow,       \* lane -> ticks to cross it when empty; "fork", "fast", "slow"
    RelaxTicks,     \* ticks in which a travel time falls by one towards free flow
    EpochTicks,     \* ticks between two freezes of the travel times
    Margin,         \* what a detour must save before it is taken
    StrandAfter,    \* ticks at a standstill before a vehicle is removed
    HoldTicks,      \* length of a commanded hold
    Clearance,      \* how many ticks after the one a hold ends at the fork stays closed
    MaxVehicles,    \* bound: vehicle ids issued
    MaxTick         \* bound: ticks in a run

ASSUME KeyframeAssumption ==
    /\ {RelaxTicks, EpochTicks, StrandAfter, HoldTicks} \subseteq Nat \ {0}
    /\ {Margin, Clearance, MaxVehicles, MaxTick} \subseteq Nat
    /\ FreeFlow \in [{"fork", "fast", "slow"} -> Nat \ {0}]

VARIABLES
    adaptive,       \* Params.AdaptiveRouting of the run
    live,           \* the engine of the run
    twin            \* an engine restored from it that got the same inputs since, or NoEngine

keyframeVars == <<adaptive, live, twin>>

Lanes == DOMAIN FreeFlow
NoEngine == [tick |-> -1]
NoTable == [epoch |-> -1, hop |-> "none"]

\* What NewEngine builds: nothing has happened yet.
NewEngine == [tick |-> 0, next |-> 2, pend |-> 1, due |-> 1, cars |-> << >>, queue |-> << >>,
              holds |-> << >>, ema |-> FreeFlow, snap |-> FreeFlow, table |-> NoTable]

NewCar(e, routed) == [lane |-> "fork", routed |-> routed, since |-> e.tick,
                      stopDone |-> FALSE, stuck |-> 0]

----------------------------------------------------------------------------
(* Adaptive routing.                                                       *)

\* The hop at the fork: the free-flow one unless a detour saves more than the margin.
Rerouted(snap) == IF snap["fast"] > snap["slow"] + Margin THEN "slow" ELSE "fast"

Epoch(e) == e.tick \div EpochTicks

\* As below, but a table lasts for the run once it is built.
AskOnce(e) ==
    IF e.table # NoTable THEN e
    ELSE [e EXCEPT !.table = [epoch |-> 0, hop |-> IF adaptive THEN Rerouted(e.snap) ELSE "fast"]]

\* The table is built when it is first asked for, and again in a later epoch.
AskTable(e) ==
    IF ~adaptive
    THEN IF e.table = NoTable THEN [e EXCEPT !.table = [epoch |-> -1, hop |-> "fast"]] ELSE e
    ELSE IF e.table.epoch >= Epoch(e) THEN e
    ELSE [e EXCEPT !.table = [epoch |-> Epoch(e), hop |-> Rerouted(e.snap)]]

\* One vehicle has left its lane: its dwell, at least the free-flow time and at
\* most the escape's horizon, moves the lane's travel time.
NoteLaneLeave(e, v) ==
    LET l == e.cars[v].lane
        dwell == e.tick - e.cars[v].since
        capped == IF dwell > StrandAfter THEN StrandAfter ELSE dwell
        sample == IF capped < FreeFlow[l] THEN FreeFlow[l] ELSE capped
    IN  IF ~adaptive THEN e
        ELSE [e EXCEPT !.ema[l] = (@ + sample + 1) \div 2, !.cars[v].since = e.tick]

\* Travel times fall back towards free flow, and are frozen at a rollover.
Relaxed(e) ==
    LET ema == [l \in Lanes |-> IF e.ema[l] > FreeFlow[l] /\ e.tick % RelaxTicks = 0 THEN e.ema[l] - 1
                                ELSE e.ema[l]]
    IN  IF ~adaptive THEN e
        ELSE [e EXCEPT !.ema = ema, !.snap = IF e.tick % EpochTicks = 0 THEN ema ELSE @]

----------------------------------------------------------------------------
(* The tick.                                                               *)

\* The interval to the next spawn is drawn from the vehicle's own stream.
Drawn(id) == 1 + (id % 2)

\* A vehicle takes its place in the table of vehicles.
Entered(cars, v, car) == [w \in DOMAIN cars \cup {v} |-> IF w = v THEN car ELSE cars[w]]

Spawned(e) ==
    IF e.due > e.tick \/ e.pend > MaxVehicles THEN e
    ELSE [e EXCEPT !.cars = Entered(@, e.pend, NewCar(e, TRUE)), !.pend = e.next,
                   !.next = @ + 1, !.due = @ + Drawn(e.next)]

\* A directive enters at its tick.
Directed(e) ==
    IF e.queue = << >> \/ Head(e.queue).earliest > e.tick \/ e.next > MaxVehicles THEN e
    ELSE [e EXCEPT !.cars = Entered(@, e.next, NewCar(e, Head(e.queue).routed)),
                   !.next = @ + 1, !.queue = Tail(@)]

\* Holds are kept until the clearance after them can no longer be asked for.
Unswept(holds, tick) == SelectSeq(holds, LAMBDA h : tick <= h.until + Clearance)
Signalled(e, hold) ==
    LET all == IF hold THEN Append(e.holds, [since |-> e.tick, until |-> e.tick + HoldTicks])
               ELSE e.holds
    IN  [e EXCEPT !.holds = Unswept(all, e.tick)]

Closed(e) == \E i \in DOMAIN e.holds :
                 e.holds[i].since <= e.tick /\ e.tick <= e.holds[i].until + Clearance

\* One vehicle's motion: off a branch it leaves the network; over the fork it
\* goes when the light lets it and its stop is done; standing, it times out.
MoveOne(e, v, go) ==
    LET c == e.cars[v]
        asked == IF c.routed THEN AskTable(e) ELSE e
        hop == IF c.routed THEN asked.table.hop ELSE "fast"
        crossed == NoteLaneLeave(asked, v)
        gone == [NoteLaneLeave(e, v) EXCEPT !.cars = [w \in DOMAIN @ \ {v} |-> @[w]]]
    IN  IF v \notin DOMAIN e.cars THEN e
        ELSE IF v \in go /\ c.lane # "fork" THEN gone
        ELSE IF v \in go /\ c.stopDone /\ ~Closed(e)
        THEN [crossed EXCEPT !.cars[v].lane = hop, !.cars[v].stopDone = FALSE,
                             !.cars[v].stuck = 0]
        ELSE IF c.stuck + 1 >= StrandAfter THEN gone
        ELSE [e EXCEPT !.cars[v].stuck = @ + 1, !.cars[v].stopDone = c.lane = "fork"]

\* What the run hands the engine for a tick: who finds room to move (a vehicle
\* that enters in the tick has still to stop), a director's vehicle, a signal verb.
Inputs(e) == [go : SUBSET DOMAIN e.cars, verb : {"none", "plain", "routed"}, hold : BOOLEAN]

Step(e, in) ==
    LET ticked == Relaxed([e EXCEPT
                      !.tick = @ + 1,
                      !.queue = IF in.verb = "none" THEN @
                                ELSE Append(@, [earliest |-> e.tick + 2,
                                                routed |-> in.verb = "routed"])])
        after[v \in 0..MaxVehicles] ==
            IF v = 0 THEN Signalled(Directed(Spawned(ticked)), in.hold)
            ELSE MoveOne(after[v - 1], v, in.go)
    IN  after[MaxVehicles]

----------------------------------------------------------------------------
(* The payload.                                                            *)

MinVersion == 2

\* The lowest version that can hold the state.
Version(e) ==
    IF e.holds # << >> THEN 7
    ELSE IF adaptive THEN 6
    ELSE IF \E v \in DOMAIN e.cars : e.cars[v].stuck > 0 \/ e.cars[v].stopDone THEN 5
    ELSE IF \E i \in DOMAIN e.queue : e.queue[i].routed THEN 4
    ELSE IF e.queue # << >> THEN 3
    ELSE MinVersion

\* The parts in the order they are written.
Parts(timers, lanes, queue, dests, holds) ==
    <<"core">> \o (IF timers THEN <<"timers">> ELSE << >>) \o (IF lanes THEN <<"lanes">> ELSE << >>)
    \o (IF queue THEN <<"queue">> ELSE << >>) \o (IF dests THEN <<"dests">> ELSE << >>)
    \o (IF holds THEN <<"holds">> ELSE << >>)

MarshalState(e) ==
    LET version == Version(e)
        lanes == version >= 6 /\ adaptive
    IN  [version |-> version,
         lanesFlag |-> version >= 7 /\ adaptive,
         parts |-> Parts(version >= 5, lanes, version >= 3, version >= 4, version >= 7),
         engine |-> e]

\* What a reader expects from the header alone.
LaneSection(p) == p.version = 6 \/ (p.version >= 7 /\ p.lanesFlag)
Expected(p) == Parts(p.version >= 5, LaneSection(p), p.version >= 3, p.version >= 4,
                     p.version >= 7)

\* The engine read from a payload into a spec: what is not in the payload is as
\* NewEngine made it, a dwell clock that is missing starts now.
RestoreState(p) ==
    LET e == p.engine
        Car(c) == [c EXCEPT !.stuck = IF p.version >= 5 THEN @ ELSE 0,
                            !.stopDone = p.version >= 5 /\ @,
                            !.since = IF LaneSection(p) THEN @ ELSE e.tick]
        Directive(d) == [d EXCEPT !.routed = p.version >= 4 /\ @]
    IN  [tick |-> e.tick, next |-> e.next, pend |-> e.pend, due |-> e.due,
         cars |-> [v \in DOMAIN e.cars |-> Car(e.cars[v])],
         queue |-> IF p.version >= 3 THEN [i \in DOMAIN e.queue |-> Directive(e.queue[i])]
                   ELSE << >>,
         holds |-> IF p.version >= 7 THEN e.holds ELSE << >>,
         ema |-> IF LaneSection(p) THEN e.ema ELSE FreeFlow,
         snap |-> IF LaneSection(p) THEN e.snap ELSE FreeFlow,
         table |-> NoTable]

\* A payload with travel times is refused by a spec that has no use for them.
Readable(p, on) == p.parts = Expected(p) /\ (LaneSection(p) => on)

----------------------------------------------------------------------------

KeyframeInit ==
    /\ adaptive \in BOOLEAN
    /\ live = NewEngine
    /\ twin = NoEngine

\* Both engines take the tick.
StepBoth ==
    /\ live.tick < MaxTick
    /\ \E in \in Inputs(live) :
        /\ in.verb # "none" => live.queue = << >>
        /\ in.hold => live.holds = << >>
        /\ live' = Step(live, in)
        /\ twin' = IF twin = NoEngine THEN twin ELSE Step(twin, in)
    /\ UNCHANGED adaptive

\* An engine is restored from the state between two ticks.
Restore ==
    /\ twin = NoEngine
    /\ Readable(MarshalState(live), adaptive)
    /\ twin' = RestoreState(MarshalState(live))
    /\ UNCHANGED <<adaptive, live>>

KeyframeNext == StepBoth \/ Restore
KeyframeSpec == KeyframeInit /\ [][KeyframeNext]_keyframeVars

----------------------------------------------------------------------------
(* Properties.                                                             *)

\* What decides an engine's future, and nothing that can be rebuilt.
Essence(e, on) ==
    [tick |-> e.tick, next |-> e.next, pend |-> e.pend, due |-> e.due,
     queue |-> e.queue, holds |-> e.holds,
     cars |-> [v \in DOMAIN e.cars |->
                  IF on THEN e.cars[v] ELSE [e.cars[v] EXCEPT !.since = 0]],
     times |-> IF on THEN <<e.ema, e.snap>> ELSE << >>]

(***************************************************************************)
(* An engine restored between any two ticks goes on as the run it was      *)
(* saved from, tick for tick, with the caches of its route tables cold:    *)
(* "a mid-epoch restore recomputes exactly the table the live engine was   *)
(* serving"; and every state the engine can be in can be saved for it: the *)
(* writer, which looks at the state, and the reader, which looks at the    *)
(* header, agree on the parts of a payload (routing.go, routeWeight,       *)
(* routeTable; keyframe.go, MarshalState, restoreState).                   *)
(***************************************************************************)
RestoreIsExact ==
    /\ Readable(MarshalState(live), adaptive)
    /\ twin # NoEngine => Essence(twin, adaptive) = Essence(live, adaptive)
=============================================================================
