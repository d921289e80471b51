-------------------------- MODULE WarmStart_proofs --------------------------
(***************************************************************************)
(* Proofs about Keyframe and WarmStart, for every table of free-flow times *)
(* and every period, horizon and bound: an engine restored at any tick     *)
(* goes on as the one it was saved from, and a pair of state files that    *)
(* loads was saved by a run of the same network and types.                 *)
(*                                                                         *)
(* The two engines differ in what is not saved: the route table, which is  *)
(* built when it is first asked for, and the dwell clocks of a run that    *)
(* does not measure travel times.  The invariant is a simulation (Alike),  *)
(* with what makes the first difference harmless: a table that is still of *)
(* the present epoch has the hop that would be computed now (Coherent).    *)
(***************************************************************************)
EXTENDS WarmStart, TLAPS, WellFoundedInduction

LaneNames == {"fork", "fast", "slow"}
Cars == [lane : LaneNames, routed : BOOLEAN, since : Nat, stopDone : BOOLEAN, stuck : Nat]
Directives == [earliest : Nat, routed : BOOLEAN]
CarTables == UNION {[D -> Cars] : D \in SUBSET Nat}
Tables == [epoch : Int, hop : LaneNames \cup {"none"}]

\* An engine with all its parts; holds and travel times are compared, not looked into.
Whole(e) == e \in [tick : Nat, next : Nat, pend : Nat, due : Nat, cars : CarTables,
                   queue : Seq(Directives), holds : {e.holds}, ema : {e.ema}, snap : {e.snap},
                   table : Tables]

\* The hop a table of now has.
HopNow(e) == IF adaptive THEN Rerouted(e.snap) ELSE "fast"
Coherent(e) ==
    /\ e.table.epoch <= Epoch(e)
    /\ adaptive => (e.table.epoch = Epoch(e) => e.table.hop = HopNow(e))
    /\ ~adaptive => (e.table # NoTable => e.table.hop = HopNow(e))

SameCar(c, d) ==
    /\ c.lane = d.lane /\ c.routed = d.routed /\ c.stopDone = d.stopDone /\ c.stuck = d.stuck
    /\ adaptive => c.since = d.since
SameCars(f, g) == DOMAIN f = DOMAIN g /\ \A v \in DOMAIN f : SameCar(f[v], g[v])

\* Two engines that nothing can tell apart.
Alike(r, e) ==
    /\ Whole(r) /\ Whole(e) /\ Coherent(r) /\ Coherent(e)
    /\ r.tick = e.tick /\ r.next = e.next /\ r.pend = e.pend /\ r.due = e.due
    /\ r.queue = e.queue /\ r.holds = e.holds
    /\ SameCars(r.cars, e.cars)
    /\ adaptive => r.ema = e.ema /\ r.snap = e.snap

----------------------------------------------------------------------------
(* The parts of a tick. *)

LEMMA EpochFacts ==
    ASSUME KeyframeAssumption, NEW t \in Nat
    PROVE  /\ t \div EpochTicks \in Nat
           /\ (t + 1) \div EpochTicks >= t \div EpochTicks
           /\ (t + 1) % EpochTicks = 0 => (t + 1) \div EpochTicks > t \div EpochTicks
<1> DEFINE q == t \div EpochTicks
           p == (t + 1) \div EpochTicks
           r == t % EpochTicks
           s == (t + 1) % EpochTicks
<1>1. EpochTicks \in Nat \ {0}
    BY DEF KeyframeAssumption
<1>2. /\ q \in Int /\ r \in 0..EpochTicks - 1 /\ t = EpochTicks * q + r
      /\ p \in Int /\ s \in 0..EpochTicks - 1 /\ t + 1 = EpochTicks * p + s
    BY <1>1
<1> HIDE DEF q, p, r, s
<1>3. q \in Nat
    BY <1>1, <1>2
<1>4. p >= q
    <2> SUFFICES ASSUME q >= p + 1 PROVE FALSE
        BY <1>2
    <2>1. EpochTicks * q >= EpochTicks * (p + 1)
        BY <1>1, <1>2
    <2>2. EpochTicks * (p + 1) = EpochTicks * p + EpochTicks
        BY <1>1, <1>2
    <2> QED BY <1>1, <1>2, <2>1, <2>2
<1>5. ASSUME s = 0 PROVE p > q
    <2> SUFFICES ASSUME p = q PROVE FALSE
        BY <1>2, <1>4
    <2> QED BY <1>1, <1>2, <1>5
<1> QED BY <1>3, <1>4, <1>5 DEF p, q, s

\* Travel times relax, and are frozen at a rollover only.
RelaxedTimes(times, tick) ==
    [l \in Lanes |-> IF times[l] > FreeFlow[l] /\ tick % RelaxTicks = 0 THEN times[l] - 1
                     ELSE times[l]]
Frozen(snap, times, tick) == IF tick % EpochTicks = 0 THEN times ELSE snap

LEMMA RelaxedParts ==
    ASSUME adaptive \in BOOLEAN, NEW m, Whole(m)
    PROVE  LET x == Relaxed(m)
           IN  /\ Whole(x)
               /\ x.tick = m.tick /\ x.next = m.next /\ x.pend = m.pend /\ x.due = m.due
               /\ x.cars = m.cars /\ x.queue = m.queue /\ x.holds = m.holds /\ x.table = m.table
               /\ adaptive => /\ x.ema = RelaxedTimes(m.ema, m.tick)
                              /\ x.snap = Frozen(m.snap, RelaxedTimes(m.ema, m.tick), m.tick)
<1> DEFINE ema == RelaxedTimes(m.ema, m.tick)
           snap == Frozen(m.snap, ema, m.tick)
           x == [m EXCEPT !.ema = ema, !.snap = snap]
<1>1. /\ adaptive => Relaxed(m) = x
      /\ ~adaptive => Relaxed(m) = m
    BY DEF Relaxed, RelaxedTimes, Frozen, Whole
<1> HIDE DEF ema, snap
<1>2. Whole(x) /\ x.tick = m.tick /\ x.next = m.next /\ x.pend = m.pend /\ x.due = m.due
      /\ x.cars = m.cars /\ x.queue = m.queue /\ x.holds = m.holds /\ x.table = m.table
      /\ x.ema = ema /\ x.snap = snap
    BY DEF Whole
<1> HIDE DEF x
<1> QED BY <1>1, <1>2 DEF ema, snap

Begun(e, in) ==
    [e EXCEPT !.tick = @ + 1,
              !.queue = IF in.verb = "none" THEN @
                        ELSE Append(@, [earliest |-> e.tick + 2, routed |-> in.verb = "routed"])]

\* The start of a tick keeps engines alike.
LEMMA BegunAlike ==
    ASSUME KeyframeAssumption, adaptive \in BOOLEAN, NEW r, NEW e, Alike(r, e), NEW in
    PROVE  Alike(Relaxed(Begun(r, in)), Relaxed(Begun(e, in)))
<1> DEFINE Queue(q, t) == IF in.verb = "none" THEN q
                          ELSE Append(q, [earliest |-> t + 2, routed |-> in.verb = "routed"])
<1>1. ASSUME NEW m, Whole(m)
      PROVE  LET x == Begun(m, in)
             IN  /\ Whole(x) /\ x.tick = m.tick + 1 /\ x.next = m.next /\ x.pend = m.pend
                 /\ x.due = m.due /\ x.cars = m.cars /\ x.queue = Queue(m.queue, m.tick)
                 /\ x.holds = m.holds /\ x.table = m.table /\ x.ema = m.ema /\ x.snap = m.snap
    <2> DEFINE q == Queue(m.queue, m.tick)
    <2>1. m.tick + 1 \in Nat /\ m.tick + 2 \in Nat /\ m.queue \in Seq(Directives)
        BY <1>1, SMTT(40) DEF Whole
    <2>2. q \in Seq(Directives)
        <3> DEFINE b == in.verb = "routed"
        <3>1. b \in BOOLEAN
            OBVIOUS
        <3> HIDE DEF b
        <3>2. [earliest |-> m.tick + 2, routed |-> b] \in Directives
            BY <2>1, <3>1 DEF Directives
        <3> QED BY <2>1, <3>2 DEF b
    <2>3. Begun(m, in) = [m EXCEPT !.tick = m.tick + 1, !.queue = q]
        BY <1>1 DEF Begun, Whole
    <2> HIDE DEF q
    <2> QED BY <1>1, <2>1, <2>2, <2>3 DEF Whole, q
<1>2. ASSUME NEW m, Whole(m), Coherent(m)
      PROVE  Coherent(Relaxed(Begun(m, in)))
    <2> DEFINE x == Begun(m, in)
               y == Relaxed(x)
    <2>1. y.table = m.table /\ y.tick = m.tick + 1
          /\ (adaptive => y.snap = Frozen(m.snap, RelaxedTimes(x.ema, x.tick), m.tick + 1))
        <3>1. Whole(x) /\ x.table = m.table /\ x.tick = m.tick + 1 /\ x.snap = m.snap
            BY <1>1, <1>2
        <3> HIDE DEF x
        <3> QED BY <3>1, RelaxedParts
    <2>2. /\ m.tick \in Nat /\ m.table.epoch \in Int
        BY <1>2 DEF Whole, Tables
    <2> HIDE DEF x, y
    <2>3. m.tick \div EpochTicks \in Nat
          /\ (m.tick + 1) \div EpochTicks >= m.tick \div EpochTicks
          /\ (m.tick + 1) % EpochTicks = 0 => (m.tick + 1) \div EpochTicks > m.tick \div EpochTicks
        BY <2>2, EpochFacts
    <2>4. m.tick \div EpochTicks \in Int /\ (m.tick + 1) \div EpochTicks \in Int
        BY <2>2 DEF KeyframeAssumption
    <2>5. y.table.epoch <= Epoch(y)
        BY <1>2, <2>1, <2>2, <2>3, <2>4 DEF Coherent, Epoch
    <2>6. ASSUME adaptive, y.table.epoch = Epoch(y) PROVE y.table.hop = HopNow(y)
        <3>1. (m.tick + 1) % EpochTicks # 0 /\ m.table.epoch = Epoch(m)
            BY <1>2, <2>1, <2>2, <2>3, <2>4, <2>6 DEF Coherent, Epoch
        <3>2. y.snap = m.snap
            BY <2>1, <2>6, <3>1 DEF Frozen
        <3> QED BY <1>2, <2>1, <2>6, <3>1, <3>2 DEF Coherent, HopNow
    <2>7. ASSUME ~adaptive, y.table # NoTable PROVE y.table.hop = HopNow(y)
        <3>1. m.table.hop = HopNow(m)
            BY <1>2, <2>1, <2>7 DEF Coherent
        <3> QED BY <2>1, <2>7, <3>1 DEF HopNow
    <2>8. Coherent(y)
        BY Zenon, <2>5, <2>6, <2>7 DEF Coherent
    <2> QED BY <2>8 DEF y, x
<1> DEFINE x == Begun(e, in)
           y == Begun(r, in)
<1>3. /\ Whole(x) /\ Whole(y) /\ x.tick = y.tick /\ x.next = y.next /\ x.pend = y.pend
      /\ x.due = y.due /\ x.queue = y.queue /\ x.holds = y.holds
      /\ x.cars = e.cars /\ y.cars = r.cars
      /\ adaptive => x.ema = y.ema /\ x.snap = y.snap
    <2> HIDE DEF Queue
    <2> QED BY <1>1 DEF Alike
<1>4. Coherent(Relaxed(x)) /\ Coherent(Relaxed(y))
    BY <1>2 DEF Alike
<1> HIDE DEF x, y
<1> QED BY <1>3, <1>4, RelaxedParts DEF Alike, x, y

\* A vehicle enters.
LEMMA EnteredCars ==
    ASSUME NEW f \in CarTables, NEW g \in CarTables, SameCars(f, g), NEW v \in Nat, NEW c \in Cars
    PROVE  /\ Entered(f, v, c) \in CarTables
           /\ SameCars(Entered(f, v, c), Entered(g, v, c))
<1> DEFINE F == Entered(f, v, c)
           G == Entered(g, v, c)
<1>1. /\ F = [w \in DOMAIN f \cup {v} |-> IF w = v THEN c ELSE f[w]]
      /\ G = [w \in DOMAIN g \cup {v} |-> IF w = v THEN c ELSE g[w]]
    BY DEF Entered
<1> HIDE DEF F, G
<1>2. DOMAIN f \subseteq Nat /\ \A w \in DOMAIN f : f[w] \in Cars
    BY DEF CarTables
<1>3. F \in [DOMAIN f \cup {v} -> Cars] /\ DOMAIN f \cup {v} \in SUBSET Nat
    BY <1>1, <1>2
<1>4. F \in CarTables
    BY <1>3 DEF CarTables
<1>5. SameCars(F, G)
    BY <1>1 DEF SameCars, SameCar
<1> QED BY <1>4, <1>5 DEF F, G

\* Engines that are alike stay so when the same is changed in both.
Put(e, cars, pend, next, due, queue, holds) ==
    [e EXCEPT !.cars = cars, !.pend = pend, !.next = next, !.due = due, !.queue = queue,
              !.holds = holds]

LEMMA PutAlike ==
    ASSUME NEW r, NEW e, Alike(r, e), NEW f \in CarTables, NEW g \in CarTables, SameCars(f, g),
           NEW pend \in Nat, NEW next \in Nat, NEW due \in Nat, NEW queue \in Seq(Directives),
           NEW holds
    PROVE  Alike(Put(r, f, pend, next, due, queue, holds), Put(e, g, pend, next, due, queue, holds))
<1>1. ASSUME NEW m, NEW cars \in CarTables, Whole(m), Coherent(m)
      PROVE  LET x == Put(m, cars, pend, next, due, queue, holds)
             IN  /\ Whole(x) /\ Coherent(x) /\ x.tick = m.tick /\ x.next = next /\ x.pend = pend
                 /\ x.due = due /\ x.cars = cars /\ x.queue = queue /\ x.holds = holds
                 /\ x.ema = m.ema /\ x.snap = m.snap
    <2> DEFINE x == Put(m, cars, pend, next, due, queue, holds)
    <2>1. /\ Whole(x) /\ x.tick = m.tick /\ x.next = next /\ x.pend = pend
          /\ x.due = due /\ x.cars = cars /\ x.queue = queue /\ x.holds = holds
          /\ x.ema = m.ema /\ x.snap = m.snap /\ x.table = m.table
        BY <1>1 DEF Whole, Put
    <2> HIDE DEF x
    <2>2. Epoch(x) = Epoch(m) /\ HopNow(x) = HopNow(m)
        BY <2>1 DEF Epoch, HopNow
    <2>3. Coherent(x)
        BY <1>1, <2>1, <2>2 DEF Coherent
    <2> QED BY <2>1, <2>3 DEF x
<1> DEFINE x == Put(r, f, pend, next, due, queue, holds)
           y == Put(e, g, pend, next, due, queue, holds)
<1>2. /\ Whole(x) /\ Coherent(x) /\ x.tick = r.tick /\ x.next = next /\ x.pend = pend
      /\ x.due = due /\ x.cars = f /\ x.queue = queue /\ x.holds = holds
      /\ x.ema = r.ema /\ x.snap = r.snap
    BY <1>1 DEF Alike
<1>3. /\ Whole(y) /\ Coherent(y) /\ y.tick = e.tick /\ y.next = next /\ y.pend = pend
      /\ y.due = due /\ y.cars = g /\ y.queue = queue /\ y.holds = holds
      /\ y.ema = e.ema /\ y.snap = e.snap
    BY <1>1 DEF Alike
<1> HIDE DEF x, y
<1>4. Alike(x, y)
    BY <1>2, <1>3 DEF Alike
<1> QED BY <1>4 DEF x, y

LEMMA AlikeTypes ==
    ASSUME NEW r, NEW e, Alike(r, e)
    PROVE  /\ r.tick \in Nat /\ r.next \in Nat /\ r.pend \in Nat /\ r.due \in Nat
           /\ r.cars \in CarTables /\ e.cars \in CarTables /\ SameCars(r.cars, e.cars)
           /\ r.queue \in Seq(Directives)
BY DEF Alike, Whole

LEMMA NewCarIsCar ==
    ASSUME NEW e, NEW r, e.tick \in Nat, r.tick = e.tick, NEW routed \in BOOLEAN
    PROVE  NewCar(e, routed) \in Cars /\ NewCar(r, routed) = NewCar(e, routed)
BY DEF NewCar, Cars, LaneNames

LEMMA SpawnedAlike ==
    ASSUME NEW r, NEW e, Alike(r, e)
    PROVE  Alike(Spawned(r), Spawned(e))
<1> DEFINE due == e.due + Drawn(e.next)
           Next(x) == Put(x, Entered(x.cars, e.pend, NewCar(e, TRUE)), e.next, e.next + 1, due,
                          e.queue, e.holds)
<1>1. /\ e.tick \in Nat /\ e.next \in Nat /\ e.pend \in Nat /\ e.due \in Nat
      /\ r.cars \in CarTables /\ e.cars \in CarTables /\ SameCars(r.cars, e.cars)
      /\ e.queue \in Seq(Directives)
    BY AlikeTypes DEF Alike
<1>2. due \in Nat
    BY <1>1 DEF Drawn
<1>3. NewCar(e, TRUE) \in Cars /\ NewCar(r, TRUE) = NewCar(e, TRUE)
    BY <1>1, NewCarIsCar DEF Alike
<1>4. CASE e.due > e.tick \/ e.pend > MaxVehicles
    BY <1>4 DEF Spawned, Alike
<1>5. CASE ~(e.due > e.tick \/ e.pend > MaxVehicles)
    <2>1. Spawned(e) = Next(e)
        <3> DEFINE car == NewCar(e, TRUE)
        <3> HIDE DEF car
        <3> QED BY <1>5 DEF Spawned, Alike, Whole, Put, car
    <2>2. Spawned(r) = Next(r)
        <3> DEFINE car == NewCar(e, TRUE)
        <3>1. Spawned(r) = [r EXCEPT !.cars = Entered(@, r.pend, car), !.pend = r.next,
                                     !.next = @ + 1, !.due = @ + Drawn(r.next)]
            BY <1>3, <1>5 DEF Spawned, Alike
        <3>2. /\ Whole(r) /\ r.next = e.next /\ r.pend = e.pend /\ r.due = e.due
              /\ r.queue = e.queue /\ r.holds = e.holds
            BY DEF Alike
        <3> DEFINE cars == Entered(r.cars, e.pend, car)
        <3>3. Spawned(r) = [r EXCEPT !.cars = cars, !.pend = e.next, !.next = e.next + 1, !.due = due]
            BY <3>1, <3>2
        <3>4. Next(r) = Put(r, cars, e.next, e.next + 1, due, r.queue, r.holds)
            BY <3>2 DEF car
        <3> DEFINE more == e.next + 1
        <3> HIDE DEF car, cars, due, Next, more
        <3>5. [r EXCEPT !.cars = cars, !.pend = e.next, !.next = more, !.due = due]
              = Put(r, cars, e.next, more, due, r.queue, r.holds)
            BY <3>2 DEF Whole, Put
        <3> QED BY <3>3, <3>4, <3>5 DEF more
    <2> DEFINE f == Entered(r.cars, e.pend, NewCar(e, TRUE))
               g == Entered(e.cars, e.pend, NewCar(e, TRUE))
    <2>3. f \in CarTables /\ g \in CarTables /\ SameCars(f, g)
        <3>1. SameCars(e.cars, r.cars) /\ SameCars(e.cars, e.cars)
            BY <1>1 DEF SameCars, SameCar
        <3> QED BY <1>1, <1>3, <3>1, EnteredCars
    <2>4. e.next + 1 \in Nat
        BY <1>1
    <2> HIDE DEF f, g, due
    <2>5. Alike(Put(r, f, e.next, e.next + 1, due, e.queue, e.holds),
                Put(e, g, e.next, e.next + 1, due, e.queue, e.holds))
        BY <1>1, <1>2, <2>3, <2>4, PutAlike
    <2> QED BY <2>1, <2>2, <2>5 DEF f, g
<1> QED BY <1>4, <1>5

LEMMA DirectedAlike ==
    ASSUME NEW r, NEW e, Alike(r, e)
    PROVE  Alike(Directed(r), Directed(e))
<1> DEFINE car(x) == NewCar(x, Head(e.queue).routed)
           Next(x) == Put(x, Entered(x.cars, e.next, car(e)), x.pend, e.next + 1, x.due,
                          Tail(e.queue), x.holds)
           idle == e.queue = << >> \/ Head(e.queue).earliest > e.tick \/ e.next > MaxVehicles
<1>1. /\ e.tick \in Nat /\ e.next \in Nat /\ e.pend \in Nat /\ e.due \in Nat
      /\ r.cars \in CarTables /\ e.cars \in CarTables /\ SameCars(r.cars, e.cars)
      /\ e.queue \in Seq(Directives)
    BY AlikeTypes DEF Alike
<1>2. /\ Whole(r) /\ Whole(e) /\ r.tick = e.tick /\ r.next = e.next /\ r.pend = e.pend
      /\ r.due = e.due /\ r.queue = e.queue /\ r.holds = e.holds
    BY DEF Alike
<1>3. CASE idle
    BY <1>2, <1>3 DEF Directed
<1>4. CASE ~idle
    <2>1. Head(e.queue) \in Directives /\ Tail(e.queue) \in Seq(Directives) /\ e.next + 1 \in Nat
        BY <1>1, <1>4
    <2>2. car(e) \in Cars /\ car(r) = car(e)
        <3>1. Head(e.queue).routed \in BOOLEAN
            BY <2>1 DEF Directives
        <3> QED BY <1>1, <1>2, <3>1, NewCarIsCar
    <2>3. ASSUME NEW x, Whole(x), x.tick = e.tick, x.next = e.next, x.queue = e.queue, car(x) = car(e)
          PROVE  Directed(x) = Next(x)
        <3> DEFINE cars == Entered(x.cars, e.next, car(e))
                   rest == Tail(e.queue)
                   more == e.next + 1
        <3>1. Directed(x) = [x EXCEPT !.cars = cars, !.next = more, !.queue = rest]
            BY <1>4, <2>3 DEF Directed
        <3>2. Next(x) = Put(x, cars, x.pend, more, x.due, rest, x.holds)
            OBVIOUS
        <3> HIDE DEF cars, rest, more, Next
        <3>3. [x EXCEPT !.cars = cars, !.next = more, !.queue = rest]
              = Put(x, cars, x.pend, more, x.due, rest, x.holds)
            BY <2>3 DEF Whole, Put
        <3> QED BY <3>1, <3>2, <3>3
    <2>4. Directed(r) = Next(r) /\ Directed(e) = Next(e)
        <3> HIDE DEF Next, car
        <3> QED BY <1>2, <2>2, <2>3
    <2> DEFINE f == Entered(r.cars, e.next, car(e))
               g == Entered(e.cars, e.next, car(e))
               rest == Tail(e.queue)
    <2>5. f \in CarTables /\ g \in CarTables /\ SameCars(f, g)
        <3>1. SameCars(e.cars, e.cars)
            BY <1>1 DEF SameCars, SameCar
        <3> HIDE DEF car
        <3> QED BY <1>1, <2>2, <3>1, EnteredCars
    <2>6. /\ Next(r) = Put(r, f, e.pend, e.next + 1, e.due, rest, e.holds)
          /\ Next(e) = Put(e, g, e.pend, e.next + 1, e.due, rest, e.holds)
        BY <1>2
    <2> HIDE DEF f, g, Next, rest
    <2>7. rest \in Seq(Directives)
        BY <2>1 DEF rest
    <2>8. Alike(Put(r, f, e.pend, e.next + 1, e.due, rest, e.holds),
                Put(e, g, e.pend, e.next + 1, e.due, rest, e.holds))
        BY <1>1, <2>1, <2>5, <2>7, PutAlike
    <2> QED BY <2>4, <2>6, <2>8
<1> QED BY <1>3, <1>4

LEMMA SignalledAlike ==
    ASSUME NEW r, NEW e, Alike(r, e), NEW hold
    PROVE  Alike(Signalled(r, hold), Signalled(e, hold))
<1> DEFINE all == IF hold THEN Append(e.holds, [since |-> e.tick, until |-> e.tick + HoldTicks])
                  ELSE e.holds
           holds == Unswept(all, e.tick)
<1>1. /\ e.tick \in Nat /\ e.next \in Nat /\ e.pend \in Nat /\ e.due \in Nat
      /\ r.cars \in CarTables /\ e.cars \in CarTables /\ SameCars(r.cars, e.cars)
      /\ e.queue \in Seq(Directives)
    BY AlikeTypes DEF Alike
<1>2. /\ Whole(r) /\ Whole(e) /\ r.tick = e.tick /\ r.next = e.next /\ r.pend = e.pend
      /\ r.due = e.due /\ r.queue = e.queue /\ r.holds = e.holds
    BY DEF Alike
<1>3. Signalled(r, hold) = [r EXCEPT !.holds = holds] /\ Signalled(e, hold) = [e EXCEPT !.holds = holds]
    BY <1>2 DEF Signalled
<1> HIDE DEF all, holds
<1>4. ASSUME NEW x, Whole(x)
      PROVE  [x EXCEPT !.holds = holds] = Put(x, x.cars, x.pend, x.next, x.due, x.queue, holds)
    BY <1>4 DEF Whole, Put
<1>5. Alike(Put(r, r.cars, e.pend, e.next, e.due, e.queue, holds),
            Put(e, e.cars, e.pend, e.next, e.due, e.queue, holds))
    BY <1>1, PutAlike
<1> QED BY <1>2, <1>3, <1>4, <1>5

----------------------------------------------------------------------------
(* One vehicle's motion.                                                   *)

\* Vehicles change, or go, alike.
LEMMA ChangedCars ==
    ASSUME NEW f \in CarTables, NEW g \in CarTables, SameCars(f, g), NEW v \in DOMAIN f,
           NEW c \in Cars, NEW d \in Cars, SameCar(c, d)
    PROVE  /\ [f EXCEPT ![v] = c] \in CarTables /\ [g EXCEPT ![v] = d] \in CarTables
           /\ SameCars([f EXCEPT ![v] = c], [g EXCEPT ![v] = d])
<1>1. /\ DOMAIN f = DOMAIN g /\ DOMAIN f \in SUBSET Nat
      /\ f \in [DOMAIN f -> Cars] /\ g \in [DOMAIN f -> Cars]
    BY DEF CarTables, SameCars
<1> DEFINE F == [f EXCEPT ![v] = c]
           G == [g EXCEPT ![v] = d]
<1>2. F \in [DOMAIN f -> Cars] /\ G \in [DOMAIN f -> Cars]
    BY <1>1
<1>3. \A w \in DOMAIN f : F[w] = (IF w = v THEN c ELSE f[w]) /\ G[w] = (IF w = v THEN d ELSE g[w])
    BY <1>1
<1> HIDE DEF F, G
<1>4. F \in CarTables /\ G \in CarTables
    BY <1>1, <1>2 DEF CarTables
<1>5. \A w \in DOMAIN f : SameCar(F[w], G[w])
    BY <1>3 DEF SameCars
<1>6. SameCars(F, G)
    BY <1>2, <1>5 DEF SameCars
<1> QED BY <1>4, <1>6 DEF F, G

Without(f, v) == [w \in DOMAIN f \ {v} |-> f[w]]
LEMMA RemovedCars ==
    ASSUME NEW f \in CarTables, NEW g \in CarTables, SameCars(f, g), NEW v
    PROVE  /\ Without(f, v) \in CarTables /\ Without(g, v) \in CarTables
           /\ SameCars(Without(f, v), Without(g, v))
<1>1. /\ DOMAIN f = DOMAIN g /\ DOMAIN f \in SUBSET Nat
      /\ f \in [DOMAIN f -> Cars] /\ g \in [DOMAIN f -> Cars]
    BY DEF CarTables, SameCars
<1>2. /\ DOMAIN f \ {v} \in SUBSET Nat
      /\ Without(f, v) \in [DOMAIN f \ {v} -> Cars] /\ Without(g, v) \in [DOMAIN f \ {v} -> Cars]
    BY <1>1 DEF Without
<1>3. Without(f, v) \in CarTables /\ Without(g, v) \in CarTables
    BY <1>2 DEF CarTables
<1>4. SameCars(Without(f, v), Without(g, v))
    BY <1>1 DEF SameCars, Without
<1> QED BY <1>3, <1>4

\* Asked for its table, each of the two has the same hop.
LEMMA AskedTable ==
    ASSUME KeyframeAssumption, adaptive \in BOOLEAN, NEW x, Whole(x), Coherent(x)
    PROVE  LET a == AskTable(x)
           IN  /\ Whole(a) /\ Coherent(a) /\ a.table.hop = HopNow(x)
               /\ a.tick = x.tick /\ a.next = x.next /\ a.pend = x.pend /\ a.due = x.due
               /\ a.cars = x.cars /\ a.queue = x.queue /\ a.holds = x.holds
               /\ a.ema = x.ema /\ a.snap = x.snap
<1> DEFINE a == AskTable(x)
           fresh == [epoch |-> IF adaptive THEN Epoch(x) ELSE -1, hop |-> HopNow(x)]
           b == [x EXCEPT !.table = fresh]
<1>1. x.tick \in Nat /\ Epoch(x) \in Nat /\ x.table \in Tables /\ x.table.epoch \in Int
    <2>1. x.tick \in Nat /\ x.table \in Tables
        BY DEF Whole
    <2> QED BY <2>1, EpochFacts DEF Epoch, Tables
<1>2. CASE a = x
    <2>1. x.table.hop = HopNow(x)
        <3>1. CASE adaptive
            <4>1. x.table.epoch >= Epoch(x)
                <5>1. CASE ~ (x.table.epoch >= Epoch(x))
                    <6>1. a = [x EXCEPT !.table = [epoch |-> Epoch(x), hop |-> Rerouted(x.snap)]]
                        BY <3>1, <5>1 DEF AskTable
                    <6>2. a.table.epoch = Epoch(x)
                        BY <6>1 DEF Whole
                    <6> QED BY <1>1, <1>2, <5>1, <6>2
                <5> QED BY <5>1
            <4> QED BY <1>1, <3>1, <4>1 DEF Coherent
        <3>2. CASE ~adaptive
            <4>1. CASE x.table = NoTable
                <5>1. a = [x EXCEPT !.table = [epoch |-> -1, hop |-> "fast"]]
                    BY <3>2, <4>1 DEF AskTable
                <5>2. a.table.hop = "fast"
                    BY <5>1 DEF Whole
                <5> QED BY <1>2, <3>2, <5>2 DEF HopNow
            <4>2. CASE x.table # NoTable
                BY <3>2, <4>2 DEF Coherent
            <4> QED BY <4>1, <4>2
        <3> QED BY <3>1, <3>2
    <2> QED BY <1>2, <2>1
<1>3. CASE a # x
    <2>1. a = b
        BY <1>3 DEF AskTable, HopNow
    <2>2. fresh \in Tables /\ fresh.epoch = (IF adaptive THEN Epoch(x) ELSE -1) /\ fresh.hop = HopNow(x)
        BY <1>1 DEF Tables, HopNow, Rerouted, LaneNames
    <2> HIDE DEF fresh
    <2>3. /\ Whole(b) /\ b.tick = x.tick /\ b.next = x.next /\ b.pend = x.pend /\ b.due = x.due
          /\ b.cars = x.cars /\ b.queue = x.queue /\ b.holds = x.holds
          /\ b.ema = x.ema /\ b.snap = x.snap /\ b.table = fresh
        BY <2>2 DEF Whole
    <2> HIDE DEF b
    <2>4. Epoch(b) = Epoch(x) /\ HopNow(b) = HopNow(x)
        BY <2>3 DEF Epoch, HopNow
    <2>5. Coherent(b)
        BY <1>1, <2>2, <2>3, <2>4 DEF Coherent
    <2> HIDE DEF a
    <2> QED BY <2>1, <2>2, <2>3, <2>5 DEF a
<1> QED BY <1>2, <1>3

LEMMA AskedAlike ==
    ASSUME KeyframeAssumption, adaptive \in BOOLEAN, NEW r, NEW e, Alike(r, e)
    PROVE  /\ Alike(AskTable(r), AskTable(e))
           /\ AskTable(r).cars = r.cars /\ AskTable(e).cars = e.cars
           /\ AskTable(r).table.hop = AskTable(e).table.hop
           /\ AskTable(e).table.hop \in {"fast", "slow"}
<1> DEFINE x == AskTable(r)
           y == AskTable(e)
<1>1. /\ Whole(x) /\ Coherent(x) /\ x.table.hop = HopNow(r)
      /\ x.tick = r.tick /\ x.next = r.next /\ x.pend = r.pend /\ x.due = r.due
      /\ x.cars = r.cars /\ x.queue = r.queue /\ x.holds = r.holds
      /\ x.ema = r.ema /\ x.snap = r.snap
    BY AskedTable DEF Alike
<1>2. /\ Whole(y) /\ Coherent(y) /\ y.table.hop = HopNow(e)
      /\ y.tick = e.tick /\ y.next = e.next /\ y.pend = e.pend /\ y.due = e.due
      /\ y.cars = e.cars /\ y.queue = e.queue /\ y.holds = e.holds
      /\ y.ema = e.ema /\ y.snap = e.snap
    BY AskedTable DEF Alike
<1>3. HopNow(r) = HopNow(e) /\ HopNow(e) \in {"fast", "slow"}
    BY DEF HopNow, Alike, Rerouted
<1> HIDE DEF x, y
<1>4. Alike(x, y)
    BY <1>1, <1>2 DEF Alike
<1> QED BY <1>1, <1>2, <1>3, <1>4 DEF x, y

\* Vehicles and travel times change alike.
Moved(e, cars, ema) == [e EXCEPT !.cars = cars, !.ema = ema]

LEMMA MovedParts ==
    ASSUME NEW m, Whole(m), Coherent(m), NEW cars \in CarTables, NEW ema
    PROVE  LET x == Moved(m, cars, ema)
           IN  /\ Whole(x) /\ Coherent(x) /\ x.tick = m.tick /\ x.next = m.next
               /\ x.pend = m.pend /\ x.due = m.due /\ x.cars = cars /\ x.queue = m.queue
               /\ x.holds = m.holds /\ x.ema = ema /\ x.snap = m.snap
<1> DEFINE x == Moved(m, cars, ema)
<1>1. /\ Whole(x) /\ x.tick = m.tick /\ x.next = m.next /\ x.pend = m.pend
      /\ x.due = m.due /\ x.cars = cars /\ x.queue = m.queue /\ x.holds = m.holds
      /\ x.ema = ema /\ x.snap = m.snap /\ x.table = m.table
    BY DEF Whole, Moved
<1> HIDE DEF x
<1>2. Epoch(x) = Epoch(m) /\ HopNow(x) = HopNow(m)
    BY <1>1 DEF Epoch, HopNow
<1>3. Coherent(x)
    BY <1>1, <1>2 DEF Coherent
<1> QED BY <1>1, <1>3 DEF x

LEMMA MovedAlike ==
    ASSUME NEW r, NEW e, Alike(r, e), NEW f \in CarTables, NEW g \in CarTables, SameCars(f, g),
           NEW a, NEW b, adaptive => a = b
    PROVE  Alike(Moved(r, f, a), Moved(e, g, b))
<1> DEFINE x == Moved(r, f, a)
           y == Moved(e, g, b)
<1>1. /\ Whole(x) /\ Coherent(x) /\ x.tick = r.tick /\ x.next = r.next /\ x.pend = r.pend
      /\ x.due = r.due /\ x.cars = f /\ x.queue = r.queue /\ x.holds = r.holds
      /\ x.ema = a /\ x.snap = r.snap
    BY MovedParts DEF Alike
<1>2. /\ Whole(y) /\ Coherent(y) /\ y.tick = e.tick /\ y.next = e.next /\ y.pend = e.pend
      /\ y.due = e.due /\ y.cars = g /\ y.queue = e.queue /\ y.holds = e.holds
      /\ y.ema = b /\ y.snap = e.snap
    BY MovedParts DEF Alike
<1> HIDE DEF x, y
<1>3. Alike(x, y)
    BY <1>1, <1>2 DEF Alike
<1> QED BY <1>3 DEF x, y

\* What leaving its lane does to a vehicle and to the travel times.
Clocked(e, v) == IF adaptive THEN [e.cars[v] EXCEPT !.since = e.tick] ELSE e.cars[v]
Measured(e, v) ==
    LET l == e.cars[v].lane
        dwell == e.tick - e.cars[v].since
        capped == IF dwell > StrandAfter THEN StrandAfter ELSE dwell
        sample == IF capped < FreeFlow[l] THEN FreeFlow[l] ELSE capped
    IN  IF adaptive THEN [e.ema EXCEPT ![l] = (@ + sample + 1) \div 2] ELSE e.ema

LEMMA LeftParts ==
    ASSUME adaptive \in BOOLEAN, NEW m, Whole(m), NEW v \in DOMAIN m.cars
    PROVE  NoteLaneLeave(m, v) = Moved(m, [m.cars EXCEPT ![v] = Clocked(m, v)], Measured(m, v))
<1>1. m.cars \in CarTables
    BY DEF Whole
<1>2. CASE adaptive
    <2> DEFINE l == m.cars[v].lane
               dwell == m.tick - m.cars[v].since
               capped == IF dwell > StrandAfter THEN StrandAfter ELSE dwell
               sample == IF capped < FreeFlow[l] THEN FreeFlow[l] ELSE capped
    <2>1. NoteLaneLeave(m, v) = [m EXCEPT !.ema[l] = (@ + sample + 1) \div 2, !.cars[v].since = m.tick]
        BY <1>2 DEF NoteLaneLeave
    <2>2. Measured(m, v) = [m.ema EXCEPT ![l] = (@ + sample + 1) \div 2]
        BY <1>2 DEF Measured
    <2>3. Clocked(m, v) = [m.cars[v] EXCEPT !.since = m.tick]
        BY <1>2 DEF Clocked
    <2> HIDE DEF l, sample
    <2> QED BY <2>1, <2>2, <2>3 DEF Moved, Whole
<1>3. CASE ~adaptive
    <2>1. NoteLaneLeave(m, v) = m /\ Measured(m, v) = m.ema /\ Clocked(m, v) = m.cars[v]
        BY <1>3 DEF NoteLaneLeave, Measured, Clocked
    <2>2. [m.cars EXCEPT ![v] = m.cars[v]] = m.cars
        BY <1>1 DEF CarTables
    <2>3. Moved(m, m.cars, m.ema) = m
        BY DEF Moved, Whole
    <2> QED BY <2>1, <2>2, <2>3
<1> QED BY <1>2, <1>3

LEMMA ClockedAlike ==
    ASSUME adaptive \in BOOLEAN, NEW r, NEW e, Alike(r, e), NEW v \in DOMAIN e.cars
    PROVE  /\ Clocked(r, v) \in Cars /\ Clocked(e, v) \in Cars /\ SameCar(Clocked(r, v), Clocked(e, v))
           /\ adaptive => Measured(r, v) = Measured(e, v)
<1>1. /\ e.tick \in Nat /\ r.tick = e.tick /\ (adaptive => r.ema = e.ema)
      /\ r.cars \in CarTables /\ e.cars \in CarTables /\ SameCars(r.cars, e.cars)
    BY AlikeTypes DEF Alike
<1>2. r.cars[v] \in Cars /\ e.cars[v] \in Cars /\ SameCar(r.cars[v], e.cars[v])
    BY <1>1 DEF CarTables, SameCars
<1> DEFINE c == r.cars[v]
           d == e.cars[v]
<1> HIDE DEF c, d
<1>3. c \in Cars /\ d \in Cars /\ SameCar(c, d)
    BY <1>2 DEF c, d
<1>4. [c EXCEPT !.since = e.tick] \in Cars /\ [d EXCEPT !.since = e.tick] \in Cars
      /\ SameCar([c EXCEPT !.since = e.tick], [d EXCEPT !.since = e.tick])
    BY <1>1, <1>3 DEF Cars, SameCar
<1>5. /\ Clocked(r, v) = IF adaptive THEN [c EXCEPT !.since = e.tick] ELSE c
      /\ Clocked(e, v) = IF adaptive THEN [d EXCEPT !.since = e.tick] ELSE d
    BY <1>1 DEF Clocked, c, d
<1>6. ASSUME adaptive PROVE Measured(r, v) = Measured(e, v)
    <2>1. r.tick = e.tick /\ r.ema = e.ema /\ r.cars[v].lane = e.cars[v].lane
          /\ r.cars[v].since = e.cars[v].since
        BY <1>1, <1>2, <1>6 DEF SameCar
    <2> QED BY <2>1 DEF Measured
<1> QED BY <1>3, <1>4, <1>5, <1>6

\* What becomes of a vehicle that leaves the network, crosses the fork or stands.
Crossed(c, hop) == [c EXCEPT !.lane = hop, !.stopDone = FALSE, !.stuck = 0]
Stood(c) == [c EXCEPT !.stuck = @ + 1, !.stopDone = c.lane = "fork"]

LEMMA CarsChange ==
    ASSUME NEW c \in Cars, NEW d \in Cars, SameCar(c, d)
    PROVE  /\ Stood(c) \in Cars /\ Stood(d) \in Cars /\ SameCar(Stood(c), Stood(d))
           /\ \A hop \in LaneNames : /\ Crossed(c, hop) \in Cars /\ Crossed(d, hop) \in Cars
                                     /\ SameCar(Crossed(c, hop), Crossed(d, hop))
<1>1. ASSUME NEW x \in Cars
      PROVE  LET s == Stood(x)
             IN  /\ s \in Cars /\ s.lane = x.lane /\ s.routed = x.routed /\ s.since = x.since
                 /\ s.stopDone = (x.lane = "fork") /\ s.stuck = x.stuck + 1
    <2> DEFINE stop == x.lane = "fork"
    <2>1. stop \in BOOLEAN
        OBVIOUS
    <2>2. Stood(x) = [x EXCEPT !.stuck = @ + 1, !.stopDone = stop]
        BY DEF Stood
    <2> HIDE DEF stop
    <2> DEFINE s == [x EXCEPT !.stuck = @ + 1, !.stopDone = stop]
    <2>3. s \in Cars
        <3> DEFINE y == [x EXCEPT !.stuck = @ + 1]
        <3>1. y \in Cars /\ s = [y EXCEPT !.stopDone = stop]
            BY <1>1 DEF Cars
        <3> HIDE DEF y, s
        <3>2. [y EXCEPT !.stopDone = stop] \in Cars
            BY <2>1, <3>1 DEF Cars
        <3> QED BY <3>1, <3>2
    <2>4. s.lane = x.lane /\ s.routed = x.routed /\ s.since = x.since /\ s.stuck = x.stuck + 1
        BY DEF Cars
    <2>5. s.stopDone = stop
        BY Zenon DEF Cars
    <2> HIDE DEF s
    <2> QED BY <2>2, <2>3, <2>4, <2>5 DEF stop, s
<1>2. ASSUME NEW x \in Cars, NEW hop \in LaneNames
      PROVE  LET s == Crossed(x, hop)
             IN  /\ s \in Cars /\ s.lane = hop /\ s.routed = x.routed /\ s.since = x.since
                 /\ s.stopDone = FALSE /\ s.stuck = 0
    BY <1>2 DEF Crossed, Cars
<1>3. Stood(c) \in Cars /\ Stood(d) \in Cars /\ SameCar(Stood(c), Stood(d))
    <2> DEFINE s == Stood(c)
               t == Stood(d)
    <2>1. /\ s \in Cars /\ s.lane = c.lane /\ s.routed = c.routed /\ s.since = c.since
          /\ s.stopDone = (c.lane = "fork") /\ s.stuck = c.stuck + 1
        BY <1>1
    <2>2. /\ t \in Cars /\ t.lane = d.lane /\ t.routed = d.routed /\ t.since = d.since
          /\ t.stopDone = (d.lane = "fork") /\ t.stuck = d.stuck + 1
        BY <1>1
    <2> HIDE DEF s, t
    <2>3. SameCar(s, t)
        BY <2>1, <2>2 DEF SameCar
    <2> QED BY <2>1, <2>2, <2>3 DEF s, t
<1>4. ASSUME NEW hop \in LaneNames
      PROVE  /\ Crossed(c, hop) \in Cars /\ Crossed(d, hop) \in Cars
             /\ SameCar(Crossed(c, hop), Crossed(d, hop))
    BY <1>2, ZenonT(40) DEF SameCar
<1> QED BY <1>3, <1>4

LEMMA MoveOneParts ==
    ASSUME KeyframeAssumption, adaptive \in BOOLEAN, NEW m, Whole(m), Coherent(m),
           NEW v \in DOMAIN m.cars, NEW go
    PROVE  LET c == m.cars[v]
               a == IF c.routed THEN AskTable(m) ELSE m
               hop == IF c.routed THEN a.table.hop ELSE "fast"
               left == Moved(m, Without(m.cars, v), Measured(m, v))
           IN  /\ v \in go /\ c.lane # "fork" => MoveOne(m, v, go) = left
               /\ ~ (v \in go /\ c.lane # "fork") =>
                  /\ v \in go /\ c.stopDone /\ ~Closed(m) =>
                     MoveOne(m, v, go) = Moved(a, [m.cars EXCEPT ![v] = Crossed(Clocked(m, v), hop)],
                                               Measured(m, v))
                  /\ ~ (v \in go /\ c.stopDone /\ ~Closed(m)) =>
                     /\ c.stuck + 1 >= StrandAfter => MoveOne(m, v, go) = left
                     /\ ~ (c.stuck + 1 >= StrandAfter) =>
                        MoveOne(m, v, go) = Moved(m, [m.cars EXCEPT ![v] = Stood(c)], m.ema)
<1> DEFINE c == m.cars[v]
           a == IF c.routed THEN AskTable(m) ELSE m
           hop == IF c.routed THEN a.table.hop ELSE "fast"
           left == Moved(m, Without(m.cars, v), Measured(m, v))
           gone == [NoteLaneLeave(m, v) EXCEPT !.cars = [w \in DOMAIN @ \ {v} |-> @[w]]]
           crossed == NoteLaneLeave(a, v)
           over == [crossed EXCEPT !.cars[v].lane = hop, !.cars[v].stopDone = FALSE,
                                   !.cars[v].stuck = 0]
           stood == [m EXCEPT !.cars[v].stuck = @ + 1, !.cars[v].stopDone = c.lane = "fork"]
<1>1. m.cars \in CarTables /\ c \in Cars
    <2>1. m.cars \in CarTables
        BY DEF Whole
    <2> QED BY <2>1 DEF CarTables
<1>2. gone = left
    <2> DEFINE f == [m.cars EXCEPT ![v] = Clocked(m, v)]
               times == Measured(m, v)
    <2>1. NoteLaneLeave(m, v) = Moved(m, f, times)
        BY LeftParts
    <2>2. Without(f, v) = Without(m.cars, v)
        BY <1>1 DEF Without, CarTables
    <2> HIDE DEF f, times
    <2>3. [Moved(m, f, times) EXCEPT !.cars = [w \in DOMAIN @ \ {v} |-> @[w]]]
          = Moved(m, Without(f, v), times)
        BY DEF Moved, Without, Whole
    <2> QED BY <2>1, <2>2, <2>3 DEF times
<1>3. over = Moved(a, [m.cars EXCEPT ![v] = Crossed(Clocked(m, v), hop)], Measured(m, v))
    <2>1. Whole(a) /\ a.cars = m.cars /\ a.tick = m.tick /\ a.ema = m.ema
        BY AskedTable
    <2> HIDE DEF a, hop
    <2>2. crossed = Moved(a, [a.cars EXCEPT ![v] = Clocked(a, v)], Measured(a, v))
        BY <2>1, LeftParts
    <2>3. Clocked(a, v) = Clocked(m, v) /\ Measured(a, v) = Measured(m, v)
        BY <2>1 DEF Clocked, Measured
    <2> DEFINE d == Clocked(m, v)
               times == Measured(m, v)
    <2>4. d \in Cars
        BY <1>1 DEF Clocked, Cars, Whole
    <2>5. crossed = Moved(a, [a.cars EXCEPT ![v] = d], times)
        BY <2>2, <2>3
    <2> HIDE DEF d, times, crossed
    <2>6. Whole(crossed) /\ crossed.cars = [m.cars EXCEPT ![v] = d]
        <3>1. [a.cars EXCEPT ![v] = d] \in CarTables
            <4> DEFINE f == [a.cars EXCEPT ![v] = d]
            <4>1. f \in [DOMAIN m.cars -> Cars] /\ DOMAIN m.cars \in SUBSET Nat
                BY <1>1, <2>1, <2>4 DEF CarTables
            <4> QED BY <4>1 DEF CarTables
        <3> DEFINE f == [a.cars EXCEPT ![v] = d]
        <3> HIDE DEF f
        <3>2. Whole(Moved(a, f, times)) /\ Moved(a, f, times).cars = f
            BY <2>1, <3>1 DEF Whole, Moved, f
        <3> QED BY <2>1, <2>5, <3>2 DEF f
    <2>7. crossed.cars[v] = d
        BY <1>1, <2>6 DEF CarTables
    <2>8. over = [crossed EXCEPT !.cars = [crossed.cars EXCEPT ![v] =
                     [crossed.cars[v] EXCEPT !.lane = hop, !.stopDone = FALSE, !.stuck = 0]]]
        BY <2>6 DEF Whole
    <2>9. over = [crossed EXCEPT !.cars = [[m.cars EXCEPT ![v] = d] EXCEPT ![v] = Crossed(d, hop)]]
        BY <2>6, <2>7, <2>8 DEF Crossed
    <2>10. [[m.cars EXCEPT ![v] = d] EXCEPT ![v] = Crossed(d, hop)]
           = [m.cars EXCEPT ![v] = Crossed(d, hop)]
        OBVIOUS
    <2> DEFINE g == [m.cars EXCEPT ![v] = Crossed(d, hop)]
               f == [a.cars EXCEPT ![v] = d]
    <2>11. over = [crossed EXCEPT !.cars = g]
        BY <2>9, <2>10
    <2> HIDE DEF g, f, over
    <2>12. [Moved(a, f, times) EXCEPT !.cars = g] = Moved(a, g, times)
        BY <2>1 DEF Moved, Whole
    <2> QED BY <2>5, <2>11, <2>12 DEF g, f, d, times
<1>4. stood = Moved(m, [m.cars EXCEPT ![v] = Stood(c)], m.ema)
    <2>1. stood = [m EXCEPT !.cars = [m.cars EXCEPT ![v] = Stood(c)]]
        BY <1>1 DEF Stood, Whole, CarTables
    <2> DEFINE f == [m.cars EXCEPT ![v] = Stood(c)]
    <2> HIDE DEF f
    <2>2. [m EXCEPT !.cars = f] = Moved(m, f, m.ema)
        BY DEF Moved, Whole
    <2> QED BY <2>1, <2>2 DEF f
<1>5. MoveOne(m, v, go) =
         IF v \in go /\ c.lane # "fork" THEN gone
         ELSE IF v \in go /\ c.stopDone /\ ~Closed(m) THEN over
         ELSE IF c.stuck + 1 >= StrandAfter THEN gone
         ELSE stood
    BY Zenon DEF MoveOne
<1> HIDE DEF gone, over, stood, left, a, c, hop
<1>6. /\ v \in go /\ c.lane # "fork" => MoveOne(m, v, go) = gone
      /\ ~ (v \in go /\ c.lane # "fork") =>
         /\ v \in go /\ c.stopDone /\ ~Closed(m) => MoveOne(m, v, go) = over
         /\ ~ (v \in go /\ c.stopDone /\ ~Closed(m)) =>
            /\ c.stuck + 1 >= StrandAfter => MoveOne(m, v, go) = gone
            /\ ~ (c.stuck + 1 >= StrandAfter) => MoveOne(m, v, go) = stood
    BY Zenon, <1>5
<1> QED BY <1>2, <1>3, <1>4, <1>6 DEF left, a, c, hop

LEMMA MoveOneAlike ==
    ASSUME KeyframeAssumption, adaptive \in BOOLEAN, NEW r, NEW e, Alike(r, e), NEW v, NEW go
    PROVE  Alike(MoveOne(r, v, go), MoveOne(e, v, go))
<1>1. /\ Whole(r) /\ Coherent(r) /\ Whole(e) /\ Coherent(e)
      /\ r.cars \in CarTables /\ e.cars \in CarTables /\ SameCars(r.cars, e.cars)
      /\ DOMAIN r.cars = DOMAIN e.cars
    BY AlikeTypes DEF Alike, SameCars
<1>2. CASE v \notin DOMAIN e.cars
    <2>1. MoveOne(r, v, go) = r /\ MoveOne(e, v, go) = e
        BY Zenon, <1>1, <1>2 DEF MoveOne
    <2> QED BY <2>1
<1>3. CASE v \in DOMAIN e.cars
    <2> DEFINE c == r.cars[v]
               d == e.cars[v]
               a == IF c.routed THEN AskTable(r) ELSE r
               b == IF d.routed THEN AskTable(e) ELSE e
               hop == IF c.routed THEN a.table.hop ELSE "fast"
               skip == IF d.routed THEN b.table.hop ELSE "fast"
               p == v \in go /\ c.lane # "fork"
               q == v \in go /\ c.stopDone /\ ~Closed(r)
               s == c.stuck + 1 >= StrandAfter
               x1 == Moved(r, Without(r.cars, v), Measured(r, v))
               x2 == Moved(a, [r.cars EXCEPT ![v] = Crossed(Clocked(r, v), hop)], Measured(r, v))
               x3 == Moved(r, [r.cars EXCEPT ![v] = Stood(c)], r.ema)
               y1 == Moved(e, Without(e.cars, v), Measured(e, v))
               y2 == Moved(b, [e.cars EXCEPT ![v] = Crossed(Clocked(e, v), skip)], Measured(e, v))
               y3 == Moved(e, [e.cars EXCEPT ![v] = Stood(d)], e.ema)
    <2>1. c \in Cars /\ d \in Cars /\ SameCar(c, d) /\ v \in DOMAIN r.cars
        <3>1. v \in DOMAIN r.cars /\ SameCar(c, d)
            BY <1>1, <1>3 DEF SameCars
        <3>2. \A f \in CarTables : \A w \in DOMAIN f : f[w] \in Cars
            BY DEF CarTables
        <3> QED BY <1>1, <1>3, <3>1, <3>2
    <2>2. /\ Clocked(r, v) \in Cars /\ Clocked(e, v) \in Cars /\ SameCar(Clocked(r, v), Clocked(e, v))
          /\ adaptive => Measured(r, v) = Measured(e, v)
        BY <1>3, ClockedAlike
    <2>3. Closed(r) = Closed(e)
        BY DEF Closed, Alike
    <2>4. /\ p => MoveOne(r, v, go) = x1
          /\ ~p => /\ q => MoveOne(r, v, go) = x2
                   /\ ~q => (s => MoveOne(r, v, go) = x1) /\ (~s => MoveOne(r, v, go) = x3)
        <3> HIDE DEF x1, x2, x3
        <3> QED BY <1>1, <2>1, MoveOneParts DEF x1, x2, x3
    <2>5. /\ p = (v \in go /\ d.lane # "fork") /\ q = (v \in go /\ d.stopDone /\ ~Closed(e))
          /\ s = (d.stuck + 1 >= StrandAfter)
        BY <2>1, <2>3 DEF SameCar, Cars
    <2>6. /\ v \in go /\ d.lane # "fork" => MoveOne(e, v, go) = y1
          /\ ~ (v \in go /\ d.lane # "fork") =>
             /\ v \in go /\ d.stopDone /\ ~Closed(e) => MoveOne(e, v, go) = y2
             /\ ~ (v \in go /\ d.stopDone /\ ~Closed(e)) =>
                /\ d.stuck + 1 >= StrandAfter => MoveOne(e, v, go) = y1
                /\ ~ (d.stuck + 1 >= StrandAfter) => MoveOne(e, v, go) = y3
        BY <1>1, <1>3, MoveOneParts
    <2> HIDE DEF x1, x2, x3, y1, y2, y3, p, q, s
    <2>7. Alike(x1, y1)
        <3> DEFINE f == Without(r.cars, v)
                   g == Without(e.cars, v)
                   m == Measured(r, v)
                   n == Measured(e, v)
        <3>1. f \in CarTables /\ g \in CarTables /\ SameCars(f, g)
            BY <1>1, RemovedCars
        <3>2. adaptive => m = n
            BY <2>2
        <3>3. x1 = Moved(r, f, m) /\ y1 = Moved(e, g, n)
            BY DEF x1, y1
        <3> HIDE DEF f, g, m, n
        <3> QED BY <3>1, <3>2, <3>3, MovedAlike
    <2>8. Alike(x2, y2)
        <3> DEFINE k == Crossed(Clocked(r, v), hop)
                   l == Crossed(Clocked(e, v), skip)
                   m == Measured(r, v)
                   n == Measured(e, v)
                   f == [r.cars EXCEPT ![v] = k]
                   g == [e.cars EXCEPT ![v] = l]
        <3>1. Alike(a, b) /\ hop = skip /\ hop \in LaneNames
            <4>1. c.routed = d.routed
                BY <2>1 DEF SameCar
            <4>2. CASE c.routed
                <5>1. a = AskTable(r) /\ b = AskTable(e) /\ hop = AskTable(r).table.hop
                      /\ skip = AskTable(e).table.hop
                    BY Zenon, <4>1, <4>2
                <5> HIDE DEF a, b, hop, skip
                <5> QED BY <5>1, AskedAlike DEF LaneNames
            <4>3. CASE ~c.routed
                BY <4>1, <4>3 DEF LaneNames
            <4> QED BY <4>2, <4>3
        <3>2. k \in Cars /\ l \in Cars /\ SameCar(k, l)
            <4> HIDE DEF hop, skip
            <4> QED BY ONLY <2>2, <3>1, CarsChange
        <3>3. f \in CarTables /\ g \in CarTables /\ SameCars(f, g)
            <4> HIDE DEF k, l
            <4> QED BY <1>1, <2>1, <3>2, ChangedCars
        <3>4. adaptive => m = n
            BY <2>2
        <3>5. x2 = Moved(a, f, m) /\ y2 = Moved(b, g, n)
            BY DEF x2, y2
        <3> HIDE DEF f, g, m, n, a, b
        <3> QED BY <3>1, <3>3, <3>4, <3>5, MovedAlike
    <2>9. Alike(x3, y3)
        <3> DEFINE f == [r.cars EXCEPT ![v] = Stood(c)]
                   g == [e.cars EXCEPT ![v] = Stood(d)]
        <3> HIDE DEF c, d
        <3>1. Stood(c) \in Cars /\ Stood(d) \in Cars /\ SameCar(Stood(c), Stood(d))
            BY <2>1, CarsChange
        <3>2. f \in CarTables /\ g \in CarTables /\ SameCars(f, g)
            BY <1>1, <2>1, <3>1, ChangedCars
        <3>3. adaptive => r.ema = e.ema
            BY DEF Alike
        <3>4. x3 = Moved(r, f, r.ema) /\ y3 = Moved(e, g, e.ema)
            BY DEF x3, y3, c, d
        <3> HIDE DEF f, g
        <3> QED BY <3>2, <3>3, <3>4, MovedAlike
    <2> DEFINE x == MoveOne(r, v, go)
               y == MoveOne(e, v, go)
    <2>10. /\ p => x = x1 /\ y = y1
           /\ ~p => /\ q => x = x2 /\ y = y2
                    /\ ~q => (s => x = x1 /\ y = y1) /\ (~s => x = x3 /\ y = y3)
        BY Zenon, <2>4, <2>5, <2>6
    <2> HIDE DEF x, y
    <2>11. Alike(x, y)
        BY Zenon, <2>7, <2>8, <2>9, <2>10
    <2> QED BY <2>11 DEF x, y
<1> QED BY <1>2, <1>3

----------------------------------------------------------------------------
(* A tick as a walk over the vehicles.                                     *)

\* What holds of a walk's first place, and of every next one, holds of all.
LEMMA KeptByWalk ==
    ASSUME NEW N \in Nat, NEW f, NEW S, f[0] \in S,
           \A i \in 1..N : f[i - 1] \in S => f[i] \in S
    PROVE  \A i \in 0..N : f[i] \in S
<1> DEFINE B == {i \in 0..N : f[i] \notin S}
<1> SUFFICES ASSUME B # {} PROVE FALSE
    OBVIOUS
<1>1. B \subseteq Nat
    OBVIOUS
<1>2. PICK b \in B : \A y \in B : ~ (<<y, b>> \in OpToRel(<, Nat))
    BY <1>1, WFMin, NatLessThanWellFounded
<1>3. \A y \in B : b <= y
    <2> TAKE y \in B
    <2>1. y \in Nat /\ b \in Nat
        BY <1>1
    <2>2. ~ (y < b)
        BY <1>2, <2>1 DEF OpToRel
    <2> QED BY <2>1, <2>2
<1>4. b # 0 /\ b \in 1..N
    OBVIOUS
<1>5. b - 1 \notin B
    BY <1>3, <1>4
<1>6. f[b - 1] \in S
    BY <1>4, <1>5
<1> QED BY <1>4, <1>6

\* The engine after each vehicle's motion.
IsMoves(n, first, go, X) ==
    X = [v \in 0..n |-> IF v = 0 THEN first ELSE MoveOne(X[v - 1], v, go)]

LEMMA MovesExist ==
    ASSUME NEW N \in Nat, NEW first, NEW go
    PROVE  \E X : IsMoves(N, first, go, X)
<1> DEFINE P(n) == \E X : IsMoves(n, first, go, X)
           h == [n \in 0..N |-> IF P(n) THEN 1 ELSE 0]
<1>1. P(0)
    <2> DEFINE X == [v \in 0..0 |-> first]
    <2>1. \A v \in 0..0 : v = 0
        OBVIOUS
    <2>2. IsMoves(0, first, go, X)
        BY <2>1 DEF IsMoves
    <2> QED BY <2>2
<1>2. ASSUME NEW n \in 1..N, P(n - 1) PROVE P(n)
    <2>1. PICK X : IsMoves(n - 1, first, go, X)
        BY <1>2
    <2> DEFINE Y == [v \in 0..n |-> IF v = n THEN MoveOne(X[n - 1], n, go) ELSE X[v]]
    <2>2. ASSUME NEW v \in 0..n
          PROVE  Y[v] = IF v = 0 THEN first ELSE MoveOne(Y[v - 1], v, go)
        <3>1. CASE v = n
            <4>1. Y[v] = MoveOne(X[n - 1], n, go) /\ Y[n - 1] = X[n - 1] /\ v # 0
                BY <3>1
            <4> HIDE DEF Y
            <4> QED BY <3>1, <4>1
        <3>2. CASE v # n
            <4>1. v \in 0..n - 1 /\ Y[v] = X[v]
                BY <3>2
            <4>2. X[v] = IF v = 0 THEN first ELSE MoveOne(X[v - 1], v, go)
                <5> DEFINE Z == [w \in 0..n - 1 |-> IF w = 0 THEN first ELSE MoveOne(X[w - 1], w, go)]
                <5>1. Z[v] = IF v = 0 THEN first ELSE MoveOne(X[v - 1], v, go)
                    BY <4>1
                <5>2. X = Z
                    BY <2>1 DEF IsMoves
                <5> HIDE DEF Z
                <5> QED BY <5>1, <5>2
            <4>3. v # 0 => Y[v - 1] = X[v - 1]
                BY <4>1
            <4> HIDE DEF Y
            <4> QED BY <4>1, <4>2, <4>3
        <3> QED BY <3>1, <3>2
    <2>3. Y = [v \in 0..n |-> Y[v]]
        OBVIOUS
    <2> HIDE DEF Y
    <2>4. IsMoves(n, first, go, Y)
        BY <2>2, <2>3 DEF IsMoves
    <2> QED BY <2>4
<1> HIDE DEF P
<1>3. h[0] \in {1} /\ \A i \in 1..N : h[i - 1] \in {1} => h[i] \in {1}
    <2>1. h[0] = 1
        BY <1>1
    <2>2. ASSUME NEW i \in 1..N, h[i - 1] = 1 PROVE h[i] = 1
        <3>1. P(i - 1)
            BY <2>2
        <3>2. P(i)
            BY <1>2, <3>1
        <3> QED BY <3>2
    <2> QED BY <2>1, <2>2
<1>4. P(N)
    <2> HIDE DEF h
    <2>1. \A i \in 0..N : h[i] \in {1}
        BY ONLY <1>3, KeptByWalk, N \in Nat
    <2>2. h[N] = 1
        BY <2>1
    <2> QED BY <2>2 DEF h
<1> QED BY <1>4 DEF P

\* The tick before anyone moves.
Readied(e, in) == Signalled(Directed(Spawned(Relaxed(Begun(e, in)))), in.hold)

LEMMA StepMoves ==
    ASSUME KeyframeAssumption, NEW e, NEW in
    PROVE  \E X : IsMoves(MaxVehicles, Readied(e, in), in.go, X) /\ Step(e, in) = X[MaxVehicles]
<1>1. \E W : IsMoves(MaxVehicles, Readied(e, in), in.go, W)
    BY MovesExist DEF KeyframeAssumption
<1>2. (\E W : IsMoves(MaxVehicles, Readied(e, in), in.go, W)) =>
          \E X : IsMoves(MaxVehicles, Readied(e, in), in.go, X) /\ Step(e, in) = X[MaxVehicles]
    BY Zenon DEF Step, IsMoves, Readied, Begun
<1> QED BY <1>1, <1>2

LEMMA ReadiedAlike ==
    ASSUME KeyframeAssumption, adaptive \in BOOLEAN, NEW r, NEW e, Alike(r, e), NEW in
    PROVE  Alike(Readied(r, in), Readied(e, in))
BY BegunAlike, SpawnedAlike, DirectedAlike, SignalledAlike DEF Readied

\* Engines that are alike are alike after a tick with the same inputs.
LEMMA StepAlike ==
    ASSUME KeyframeAssumption, adaptive \in BOOLEAN, NEW r, NEW e, Alike(r, e), NEW in
    PROVE  Alike(Step(r, in), Step(e, in))
<1> DEFINE N == MaxVehicles
<1>1. N \in Nat
    BY DEF KeyframeAssumption
<1>2. PICK X : IsMoves(N, Readied(r, in), in.go, X) /\ Step(r, in) = X[N]
    BY StepMoves
<1>3. PICK Y : IsMoves(N, Readied(e, in), in.go, Y) /\ Step(e, in) = Y[N]
    BY StepMoves
<1> HIDE DEF N
<1>4. ASSUME NEW Z, NEW first, IsMoves(N, first, in.go, Z)
      PROVE  Z[0] = first /\ \A v \in 1..N : Z[v] = MoveOne(Z[v - 1], v, in.go)
    <2> DEFINE W == [v \in 0..N |-> IF v = 0 THEN first ELSE MoveOne(Z[v - 1], v, in.go)]
    <2>1. W[0] = first /\ \A v \in 1..N : W[v] = MoveOne(Z[v - 1], v, in.go)
        BY <1>1
    <2>2. Z = W
        BY <1>4 DEF IsMoves
    <2> HIDE DEF W
    <2> QED BY <2>1, <2>2
<1> DEFINE h == [v \in 0..N |-> IF Alike(X[v], Y[v]) THEN 1 ELSE 0]
<1>5. Alike(X[0], Y[0])
    <2>1. X[0] = Readied(r, in) /\ Y[0] = Readied(e, in)
        BY <1>2, <1>3, <1>4
    <2> QED BY <2>1, ReadiedAlike
<1>6. ASSUME NEW v \in 1..N, Alike(X[v - 1], Y[v - 1]) PROVE Alike(X[v], Y[v])
    <2>1. X[v] = MoveOne(X[v - 1], v, in.go) /\ Y[v] = MoveOne(Y[v - 1], v, in.go)
        BY <1>2, <1>3, <1>4
    <2> QED BY <1>6, <2>1, MoveOneAlike
<1>7. h[0] \in {1} /\ \A i \in 1..N : h[i - 1] \in {1} => h[i] \in {1}
    <2>1. h[0] = 1
        BY <1>1, <1>5
    <2>2. ASSUME NEW i \in 1..N, h[i - 1] = 1 PROVE h[i] = 1
        <3>0. i - 1 \in 0..N
            BY <1>1
        <3>1. Alike(X[i - 1], Y[i - 1])
            BY <2>2, <3>0
        <3>2. Alike(X[i], Y[i])
            BY <1>6, <3>1
        <3> QED BY <3>2
    <2> QED BY <2>1, <2>2
<1>8. Alike(X[N], Y[N])
    <2> HIDE DEF h
    <2>1. \A i \in 0..N : h[i] \in {1}
        BY ONLY <1>1, <1>7, KeptByWalk
    <2>2. h[N] = 1
        BY <1>1, <2>1
    <2> QED BY <1>1, <2>2 DEF h
<1> QED BY <1>2, <1>3, <1>8

----------------------------------------------------------------------------
(* The payload.                                                            *)

\* The payload of an engine whose run measures travel times, or does not.
VersionOf(e, on) ==
    IF e.holds # << >> THEN 7
    ELSE IF on THEN 6
    ELSE IF \E v \in DOMAIN e.cars : e.cars[v].stuck > 0 \/ e.cars[v].stopDone THEN 5
    ELSE IF \E i \in DOMAIN e.queue : e.queue[i].routed THEN 4
    ELSE IF e.queue # << >> THEN 3
    ELSE MinVersion

PayloadOf(e, on) ==
    LET version == VersionOf(e, on)
        lanes == version >= 6 /\ on
    IN  [version |-> version,
         lanesFlag |-> version >= 7 /\ on,
         parts |-> Parts(version >= 5, lanes, version >= 3, version >= 4, version >= 7),
         engine |-> e]

LEMMA MarshalIsPayload ==
    ASSUME NEW e
    PROVE  MarshalState(e) = PayloadOf(e, adaptive)
BY Zenon DEF MarshalState, PayloadOf, Version, VersionOf

\* Two engines nothing tells apart in a run that measures travel times, or does not.
SameUpTo(r, e, on) ==
    /\ r.tick = e.tick /\ r.next = e.next /\ r.pend = e.pend /\ r.due = e.due
    /\ r.queue = e.queue /\ r.holds = e.holds
    /\ DOMAIN r.cars = DOMAIN e.cars
    /\ \A v \in DOMAIN e.cars :
          /\ r.cars[v].lane = e.cars[v].lane /\ r.cars[v].routed = e.cars[v].routed
          /\ r.cars[v].stopDone = e.cars[v].stopDone /\ r.cars[v].stuck = e.cars[v].stuck
          /\ on => r.cars[v].since = e.cars[v].since
    /\ on => r.ema = e.ema /\ r.snap = e.snap

LEMMA EssenceSame ==
    ASSUME NEW r, NEW e, NEW on \in BOOLEAN, Whole(r), Whole(e), SameUpTo(r, e, on)
    PROVE  Essence(r, on) = Essence(e, on)
<1> DEFINE Shown(x) == [v \in DOMAIN x.cars |->
                           IF on THEN x.cars[v] ELSE [x.cars[v] EXCEPT !.since = 0]]
           Times(x) == IF on THEN <<x.ema, x.snap>> ELSE << >>
<1>1. /\ r.tick = e.tick /\ r.next = e.next /\ r.pend = e.pend /\ r.due = e.due
      /\ r.queue = e.queue /\ r.holds = e.holds /\ DOMAIN r.cars = DOMAIN e.cars
    BY DEF SameUpTo
<1>2. Times(r) = Times(e)
    BY DEF SameUpTo
<1>3. ASSUME NEW v \in DOMAIN e.cars PROVE Shown(r)[v] = Shown(e)[v]
    <2> DEFINE c == r.cars[v]
               d == e.cars[v]
    <2>1. c \in Cars /\ d \in Cars
        <3>1. \A f \in CarTables : \A w \in DOMAIN f : f[w] \in Cars
            BY DEF CarTables
        <3>2. r.cars \in CarTables /\ e.cars \in CarTables
            BY DEF Whole
        <3> QED BY <1>1, <1>3, <3>1, <3>2
    <2>2. /\ c.lane = d.lane /\ c.routed = d.routed /\ c.stopDone = d.stopDone /\ c.stuck = d.stuck
          /\ on => c.since = d.since
        BY <1>3 DEF SameUpTo
    <2>3. /\ Shown(r)[v] = IF on THEN c ELSE [c EXCEPT !.since = 0]
          /\ Shown(e)[v] = IF on THEN d ELSE [d EXCEPT !.since = 0]
        BY <1>1, <1>3
    <2> HIDE DEF c, d, Shown
    <2>4. on => c = d
        BY <2>1, <2>2 DEF Cars
    <2>5. [c EXCEPT !.since = 0] = [d EXCEPT !.since = 0]
        BY <2>1, <2>2 DEF Cars
    <2> QED BY <2>3, <2>4, <2>5
<1>4. Shown(r) = Shown(e)
    <2>1. DOMAIN Shown(r) = DOMAIN e.cars /\ DOMAIN Shown(e) = DOMAIN e.cars
        BY <1>1
    <2>2. /\ Shown(r) = [v \in DOMAIN Shown(r) |-> Shown(r)[v]]
          /\ Shown(e) = [v \in DOMAIN Shown(e) |-> Shown(e)[v]]
        OBVIOUS
    <2> HIDE DEF Shown
    <2> QED BY <1>3, <2>1, <2>2
<1> QED BY Zenon, <1>1, <1>2, <1>4 DEF Essence

LEMMA VersionFacts ==
    ASSUME NEW e, Whole(e), NEW on \in BOOLEAN
    PROVE  LET n == VersionOf(e, on)
           IN  /\ n \in 2..7
               /\ n < 7 => e.holds = << >>
               /\ on => n >= 6
               /\ ~on => n # 6
               /\ n < 5 => \A v \in DOMAIN e.cars : e.cars[v].stuck = 0 /\ e.cars[v].stopDone = FALSE
               /\ n < 4 => \A i \in DOMAIN e.queue : e.queue[i].routed = FALSE
               /\ n < 3 => e.queue = << >>
<1> DEFINE n == VersionOf(e, on)
           moved == \E v \in DOMAIN e.cars : e.cars[v].stuck > 0 \/ e.cars[v].stopDone
           bound == \E i \in DOMAIN e.queue : e.queue[i].routed
<1>1. n = IF e.holds # << >> THEN 7 ELSE IF on THEN 6 ELSE IF moved THEN 5 ELSE IF bound THEN 4
          ELSE IF e.queue # << >> THEN 3 ELSE 2
    BY DEF VersionOf, MinVersion
<1>2. ASSUME ~moved PROVE \A v \in DOMAIN e.cars : e.cars[v].stuck = 0 /\ e.cars[v].stopDone = FALSE
    <2> TAKE v \in DOMAIN e.cars
    <2>1. e.cars[v] \in Cars
        <3>1. \A f \in CarTables : \A w \in DOMAIN f : f[w] \in Cars
            BY DEF CarTables
        <3> QED BY <3>1 DEF Whole
    <2>2. e.cars[v].stuck \in Nat /\ e.cars[v].stopDone \in BOOLEAN
        BY <2>1 DEF Cars
    <2> QED BY <1>2, <2>2
<1>3. ASSUME ~bound PROVE \A i \in DOMAIN e.queue : e.queue[i].routed = FALSE
    <2> TAKE i \in DOMAIN e.queue
    <2>1. e.queue \in Seq(Directives)
        BY DEF Whole
    <2>2. e.queue[i] \in Directives
        BY <2>1
    <2>3. e.queue[i].routed \in BOOLEAN
        BY <2>2 DEF Directives
    <2> QED BY <1>3, <2>3
<1> HIDE DEF n, moved, bound
<1>4. /\ n \in 2..7 /\ (n < 7 => e.holds = << >>) /\ (on => n >= 6) /\ (~on => n # 6)
      /\ (n < 5 => ~moved) /\ (n < 4 => ~bound) /\ (n < 3 => e.queue = << >>)
    BY <1>1
<1> QED BY <1>2, <1>3, <1>4 DEF n

\* What is restored is what was saved, and the reader finds the parts that were written.
LEMMA RestoredSame ==
    ASSUME KeyframeAssumption, NEW e, Whole(e), NEW on \in BOOLEAN
    PROVE  LET p == PayloadOf(e, on)
               r == RestoreState(p)
           IN  /\ Whole(r) /\ SameUpTo(r, e, on) /\ r.table = NoTable
               /\ p.parts = Expected(p) /\ LaneSection(p) = on
<1> DEFINE p == PayloadOf(e, on)
           n == VersionOf(e, on)
           Car(c) == [c EXCEPT !.stuck = IF p.version >= 5 THEN @ ELSE 0,
                               !.stopDone = p.version >= 5 /\ @,
                               !.since = IF LaneSection(p) THEN @ ELSE e.tick]
           Directive(d) == [d EXCEPT !.routed = p.version >= 4 /\ @]
           cars == [v \in DOMAIN e.cars |-> Car(e.cars[v])]
           queue == IF p.version >= 3 THEN [i \in DOMAIN e.queue |-> Directive(e.queue[i])] ELSE << >>
           holds == IF p.version >= 7 THEN e.holds ELSE << >>
           ema == IF LaneSection(p) THEN e.ema ELSE FreeFlow
           snap == IF LaneSection(p) THEN e.snap ELSE FreeFlow
           r == RestoreState(p)
<1>1. /\ n \in 2..7 /\ (n < 7 => e.holds = << >>) /\ (on => n >= 6) /\ (~on => n # 6)
      /\ n < 5 => \A v \in DOMAIN e.cars : e.cars[v].stuck = 0 /\ e.cars[v].stopDone = FALSE
      /\ n < 4 => \A i \in DOMAIN e.queue : e.queue[i].routed = FALSE
      /\ n < 3 => e.queue = << >>
    BY VersionFacts
<1>2. /\ p.version = n /\ p.lanesFlag = (n >= 7 /\ on) /\ p.engine = e
      /\ p.parts = Parts(n >= 5, n >= 6 /\ on, n >= 3, n >= 4, n >= 7)
    BY DEF PayloadOf
<1>3. /\ e.tick \in Nat /\ e.next \in Nat /\ e.pend \in Nat /\ e.due \in Nat
      /\ e.cars \in CarTables /\ e.queue \in Seq(Directives)
    BY DEF Whole
<1>4. r = [tick |-> e.tick, next |-> e.next, pend |-> e.pend, due |-> e.due, cars |-> cars,
           queue |-> queue, holds |-> holds, ema |-> ema, snap |-> snap, table |-> NoTable]
    BY Zenon, <1>2 DEF RestoreState
<1> HIDE DEF p, n, cars, queue, holds, ema, snap, r
<1>5. LaneSection(p) = on
    BY <1>1, <1>2 DEF LaneSection
<1>6. p.parts = Expected(p)
    <2>1. (n >= 6 /\ on) = on
        BY <1>1
    <2> QED BY Zenon, <1>2, <1>5, <2>1 DEF Expected
<1>7. ASSUME NEW v \in DOMAIN e.cars
      PROVE  /\ cars[v] \in Cars
             /\ cars[v].lane = e.cars[v].lane /\ cars[v].routed = e.cars[v].routed
             /\ cars[v].stopDone = e.cars[v].stopDone /\ cars[v].stuck = e.cars[v].stuck
             /\ on => cars[v].since = e.cars[v].since
    <2> DEFINE c == e.cars[v]
               stuck == IF n >= 5 THEN c.stuck ELSE 0
               stop == n >= 5 /\ c.stopDone
               since == IF on THEN c.since ELSE e.tick
    <2>1. c \in Cars
        <3>1. \A f \in CarTables : \A w \in DOMAIN f : f[w] \in Cars
            BY DEF CarTables
        <3> QED BY <1>3, <1>7, <3>1
    <2>2. c.stuck \in Nat /\ c.since \in Nat /\ c.stopDone \in BOOLEAN
        BY <2>1 DEF Cars
    <2>3. stuck = c.stuck /\ since \in Nat /\ (on => since = c.since)
        BY <1>1, <1>3, <1>7, <2>2, SMTT(40)
    <2>4. stop = c.stopDone
        BY <1>1, <1>7, <2>2, SMTT(40)
    <2>5. cars[v] = [c EXCEPT !.stuck = stuck, !.stopDone = stop, !.since = since]
        BY <1>2, <1>5, <1>7 DEF cars
    <2>6. cars[v] = [c EXCEPT !.stuck = c.stuck, !.stopDone = c.stopDone, !.since = since]
        BY <2>3, <2>4, <2>5
    <2> HIDE DEF c, since, stuck, stop
    <2>7. [c EXCEPT !.stuck = c.stuck, !.stopDone = c.stopDone, !.since = since]
          = [c EXCEPT !.since = since]
        BY <2>1 DEF Cars
    <2>8. LET d == [c EXCEPT !.since = since]
          IN  d \in Cars /\ d.lane = c.lane /\ d.routed = c.routed /\ d.stopDone = c.stopDone
              /\ d.stuck = c.stuck /\ d.since = since
        BY <2>1, <2>3 DEF Cars
    <2> QED BY <2>3, <2>6, <2>7, <2>8 DEF c
<1>8. DOMAIN cars = DOMAIN e.cars /\ cars \in CarTables
    <2>1. DOMAIN cars = DOMAIN e.cars
        BY DEF cars
    <2>2. DOMAIN e.cars \in SUBSET Nat
        BY <1>3 DEF CarTables
    <2>3. cars = [v \in DOMAIN e.cars |-> cars[v]]
        BY DEF cars
    <2>4. cars \in [DOMAIN e.cars -> Cars]
        BY <1>7, <2>3
    <2> QED BY <2>1, <2>2, <2>4 DEF CarTables
<1>9. queue = e.queue
    <2>1. CASE n >= 3
        <3>1. ASSUME NEW i \in DOMAIN e.queue PROVE Directive(e.queue[i]) = e.queue[i]
            <4> DEFINE d == e.queue[i]
                       routed == n >= 4 /\ d.routed
            <4>1. d \in Directives
                BY <1>3, <3>1
            <4>2. d.routed \in BOOLEAN
                BY <4>1 DEF Directives
            <4>3. routed = d.routed
                BY <1>1, <3>1, <4>2
            <4>4. Directive(d) = [d EXCEPT !.routed = routed]
                BY <1>2
            <4> HIDE DEF d, Directive, routed
            <4>5. [d EXCEPT !.routed = d.routed] = d
                BY <4>1 DEF Directives
            <4> QED BY <4>3, <4>4, <4>5 DEF d
        <3>2. queue = [i \in DOMAIN e.queue |-> Directive(e.queue[i])]
            BY <1>2, <2>1 DEF queue
        <3>3. e.queue = [i \in DOMAIN e.queue |-> e.queue[i]]
            BY <1>3
        <3> HIDE DEF Directive
        <3> QED BY <3>1, <3>2, <3>3
    <2>2. CASE ~ (n >= 3)
        BY <1>1, <1>2, <2>2, SMTT(40) DEF queue
    <2> QED BY <2>1, <2>2
<1>10. holds = e.holds
    BY <1>1, <1>2 DEF holds
<1>11. on => ema = e.ema /\ snap = e.snap
    BY <1>5 DEF ema, snap
<1>12. NoTable \in Tables
    BY DEF NoTable, Tables
<1>13. /\ Whole(r) /\ r.table = NoTable /\ r.tick = e.tick /\ r.next = e.next /\ r.pend = e.pend
       /\ r.due = e.due /\ r.cars = cars /\ r.queue = queue /\ r.holds = holds /\ r.ema = ema
       /\ r.snap = snap
    BY <1>3, <1>4, <1>8, <1>9, <1>12 DEF Whole
<1>14. SameUpTo(r, e, on)
    BY <1>7, <1>8, <1>9, <1>10, <1>11, <1>13 DEF SameUpTo
<1> QED BY <1>5, <1>6, <1>13, <1>14 DEF p, r

----------------------------------------------------------------------------
(* The runs of the engines.                                                *)

LEMMA NewEngineFine ==
    ASSUME KeyframeAssumption
    PROVE  Alike(NewEngine, NewEngine) /\ Alike(NewEngine, NewEngine)'
<1>1. << >> \in CarTables
    <2>1. << >> \in [{} -> Cars]
        OBVIOUS
    <2> QED BY <2>1 DEF CarTables
<1>2. << >> \in Seq(Directives)
    OBVIOUS
<1>3. NoTable \in Tables /\ NoTable.epoch = -1
    BY DEF NoTable, Tables
<1> DEFINE e == NewEngine
<1>4. /\ Whole(e) /\ e.tick = 0 /\ e.table = NoTable
    BY <1>1, <1>2, <1>3 DEF NewEngine, Whole
<1> HIDE DEF e
<1>5. Epoch(e) \in Nat
    BY <1>4, EpochFacts DEF Epoch
<1>6. Coherent(e)
    BY <1>3, <1>4, <1>5 DEF Coherent
<1>7. Coherent(e)'
    BY <1>3, <1>4, <1>5 DEF Coherent
<1>8. SameCars(e.cars, e.cars) /\ SameCars(e.cars, e.cars)'
    BY DEF SameCars, SameCar
<1>9. Alike(e, e)
    BY <1>4, <1>6, <1>8 DEF Alike
<1>10. Alike(e, e)'
    BY <1>4, <1>7, <1>8 DEF Alike
<1> QED BY <1>9, <1>10 DEF e

LEMMA AlikeIsSame ==
    ASSUME NEW r, NEW e, Alike(r, e)
    PROVE  Whole(r) /\ Whole(e) /\ SameUpTo(r, e, adaptive)
BY DEF Alike, SameUpTo, SameCars, SameCar

\* What is restored is like what it was saved from.
LEMMA RestoredAlike ==
    ASSUME KeyframeAssumption, adaptive \in BOOLEAN, NEW e, Alike(e, e)
    PROVE  /\ Alike(RestoreState(MarshalState(e)), e)
           /\ Readable(MarshalState(e), adaptive)
<1> DEFINE p == MarshalState(e)
           r == RestoreState(p)
<1>1. p = PayloadOf(e, adaptive)
    BY MarshalIsPayload
<1>2. Whole(e) /\ Coherent(e)
    BY DEF Alike
<1> HIDE DEF p
<1>3. /\ Whole(r) /\ SameUpTo(r, e, adaptive) /\ r.table = NoTable
      /\ p.parts = Expected(p) /\ LaneSection(p) = adaptive
    BY <1>1, <1>2, RestoredSame
<1> HIDE DEF r
<1>4. Coherent(r)
    <2>1. r.tick \in Nat
        BY <1>3 DEF Whole
    <2>2. Epoch(r) \in Nat
        BY <2>1, EpochFacts DEF Epoch
    <2> QED BY <1>3, <2>2 DEF Coherent, NoTable
<1>5. Alike(r, e)
    BY <1>2, <1>3, <1>4 DEF Alike, SameUpTo, SameCars, SameCar
<1>6. Readable(p, adaptive)
    BY Zenon, <1>3 DEF Readable
<1> QED BY <1>5, <1>6 DEF r, p

\* The invariant of the two engines.
Twinned ==
    /\ adaptive \in BOOLEAN
    /\ Alike(live, live)
    /\ twin # NoEngine => Alike(twin, live)

LEMMA TwinnedInit ==
    ASSUME KeyframeAssumption
    PROVE  KeyframeInit => Twinned
BY NewEngineFine DEF KeyframeInit, Twinned

LEMMA AlikeLater ==
    ASSUME adaptive' = adaptive
    PROVE  /\ Alike(live', live') => Alike(live, live)'
           /\ Alike(twin', live') => Alike(twin, live)'
BY DEF Alike, SameCars, SameCar, Coherent, HopNow, Whole, Epoch

LEMMA TwinnedStep ==
    ASSUME KeyframeAssumption, Twinned, KeyframeNext \/ UNCHANGED keyframeVars
    PROVE  Twinned'
<1>1. CASE StepBoth
    <2>1. PICK in : /\ live' = Step(live, in)
                    /\ twin' = IF twin = NoEngine THEN twin ELSE Step(twin, in)
                    /\ adaptive' = adaptive
        BY <1>1 DEF StepBoth
    <2>2. Alike(live', live')
        BY <2>1, StepAlike DEF Twinned
    <2>3. twin' # NoEngine => Alike(twin', live')
        <3>1. CASE twin = NoEngine
            BY <2>1, <3>1
        <3>2. CASE twin # NoEngine
            BY <2>1, <3>2, StepAlike DEF Twinned
        <3> QED BY <3>1, <3>2
    <2>4. NoEngine' = NoEngine
        BY DEF NoEngine
    <2> QED BY <2>1, <2>2, <2>3, <2>4, AlikeLater DEF Twinned
<1>2. CASE Restore
    <2>1. adaptive' = adaptive /\ live' = live /\ twin' = RestoreState(MarshalState(live))
        BY <1>2 DEF Restore
    <2>2. Alike(twin', live') /\ Alike(live', live')
        BY <2>1, RestoredAlike DEF Twinned
    <2> QED BY <2>1, <2>2, AlikeLater DEF Twinned
<1>3. CASE UNCHANGED keyframeVars
    <2>1. adaptive' = adaptive /\ live' = live /\ twin' = twin
        BY <1>3 DEF keyframeVars
    <2> QED BY <2>1, AlikeLater DEF Twinned, NoEngine
<1> QED BY <1>1, <1>2, <1>3 DEF KeyframeNext

LEMMA TwinnedIsExact ==
    ASSUME KeyframeAssumption, Twinned
    PROVE  RestoreIsExact
<1>1. Readable(MarshalState(live), adaptive)
    BY RestoredAlike DEF Twinned
<1>2. ASSUME twin # NoEngine PROVE Essence(twin, adaptive) = Essence(live, adaptive)
    BY <1>2, AlikeIsSame, EssenceSame DEF Twinned
<1> QED BY <1>1, <1>2 DEF RestoreIsExact

(***************************************************************************)
(* An engine restored between two ticks goes on as the run it was saved    *)
(* from, tick for tick, and every state of an engine can be saved for it,  *)
(* for every table of free-flow times and every bound (keyframe.go,        *)
(* MarshalState, restoreState; routing.go, routeWeight, routeTable).       *)
(***************************************************************************)
THEOREM KeyframesAreExact == KeyframeSpec => []RestoreIsExact
<1>1. KeyframeInit => Twinned
    BY TwinnedInit, KeyframeAssumption
<1>2. Twinned /\ [KeyframeNext]_keyframeVars => Twinned'
    BY TwinnedStep, KeyframeAssumption
<1>3. Twinned => RestoreIsExact
    BY TwinnedIsExact, KeyframeAssumption
<1> QED BY <1>1, <1>2, <1>3, PTL DEF KeyframeSpec

----------------------------------------------------------------------------
(* The files.                                                              *)

MetaOf(s) == [tick |-> s.engine.tick, net |-> s.net, types |-> s.types,
              digest |-> PayloadOf(s.engine, s.on)]

\* What is on disk, or about to be, was saved; so was what is loaded.
SavesWhole == \A s \in saves : Whole(s.engine) /\ s.on \in BOOLEAN
SidecarsSaved ==
    /\ toWrite # Nothing => \E s \in saves : toWrite = MetaOf(s)
    /\ sidecar # Nothing => \E s \in saves : sidecar = MetaOf(s)
Kept == Twinned /\ SavesWhole /\ SidecarsSaved /\ LoadedWasSaved

LEMMA KeptInit ==
    ASSUME KeyframeAssumption
    PROVE  WarmInit => Kept
BY TwinnedInit DEF WarmInit, Kept, SavesWhole, SidecarsSaved, LoadedWasSaved

LEMMA KeptByDisk ==
    ASSUME Kept, Twinned', saves \subseteq saves', UNCHANGED <<sidecar, loaded>>,
           SavesWhole', toWrite' # Nothing => \E s \in saves' : toWrite' = MetaOf(s)
    PROVE  Kept'
<1>1. Nothing' = Nothing
    BY DEF Nothing, NoEngine
<1>2. SidecarsSaved'
    BY <1>1 DEF Kept, SidecarsSaved
<1>3. LoadedWasSaved'
    BY <1>1 DEF Kept, LoadedWasSaved
<1> QED BY <1>2, <1>3 DEF Kept

LEMMA KeptStep ==
    ASSUME KeyframeAssumption, Kept, WarmNext \/ UNCHANGED warmVars
    PROVE  Kept'
<1>1. ASSUME KeyframeNext \/ UNCHANGED keyframeVars PROVE Twinned'
    BY <1>1, TwinnedStep DEF Kept
<1>2. ASSUME KeyframeNext \/ UNCHANGED keyframeVars, UNCHANGED diskVars
      PROVE  Kept'
    <2>1. UNCHANGED <<saves, sidecar, toWrite, loaded>>
        BY <1>2 DEF diskVars
    <2>2. SavesWhole' /\ (toWrite' # Nothing => \E s \in saves' : toWrite' = MetaOf(s))
        BY <2>1 DEF Kept, SavesWhole, SidecarsSaved
    <2> QED BY <1>1, <1>2, <2>1, <2>2, KeptByDisk
<1>3. CASE StepToSave
    BY <1>2, <1>3 DEF StepToSave, KeyframeNext
<1>4. CASE SaveBytes
    <2> DEFINE s == [engine |-> live, net |-> net, types |-> types, on |-> adaptive]
    <2>1. /\ UNCHANGED keyframeVars /\ UNCHANGED <<sidecar, loaded>>
          /\ saves' = saves \cup {s} /\ toWrite' = Meta
        BY <1>4 DEF SaveBytes
    <2>2. Whole(s.engine) /\ s.on \in BOOLEAN
        BY DEF Kept, Twinned, Alike
    <2>3. Meta = MetaOf(s)
        BY MarshalIsPayload DEF Meta, MetaOf
    <2> HIDE DEF s
    <2>4. SavesWhole'
        BY <2>1, <2>2 DEF Kept, SavesWhole
    <2> QED BY <1>1, <2>1, <2>3, <2>4, KeptByDisk
<1>5. CASE SaveSidecar
    <2>1. /\ UNCHANGED keyframeVars /\ UNCHANGED <<saves, loaded>>
          /\ sidecar' = toWrite /\ toWrite' = Nothing /\ toWrite # Nothing
        BY <1>5 DEF SaveSidecar
    <2>2. Twinned'
        BY <1>1, <2>1
    <2>3. SavesWhole' /\ LoadedWasSaved'
        BY <2>1 DEF Kept, SavesWhole, LoadedWasSaved, Nothing, NoEngine
    <2>4. SidecarsSaved'
        BY <2>1 DEF Kept, SidecarsSaved, Nothing, NoEngine
    <2> QED BY <2>2, <2>3, <2>4 DEF Kept
<1>6. CASE NextRun
    <2>1. /\ UNCHANGED <<saves, sidecar, loaded, twin>> /\ toWrite' = Nothing
          /\ adaptive' \in BOOLEAN /\ live' = NewEngine /\ twin = NoEngine
        BY <1>6 DEF NextRun
    <2>2. Twinned'
        BY <2>1, NewEngineFine DEF Twinned, NoEngine
    <2>3. SavesWhole'
        BY <2>1 DEF Kept, SavesWhole
    <2> QED BY <2>1, <2>2, <2>3, KeptByDisk
<1>7. CASE ReadBytes
    <2>1. UNCHANGED keyframeVars /\ UNCHANGED <<saves, sidecar, toWrite, loaded>>
        BY <1>7 DEF ReadBytes
    <2>2. SavesWhole' /\ (toWrite' # Nothing => \E s \in saves' : toWrite' = MetaOf(s))
        BY <2>1 DEF Kept, SavesWhole, SidecarsSaved
    <2> QED BY <1>1, <2>1, <2>2, KeptByDisk
<1>8. CASE ReadSidecar
    <2>1. UNCHANGED keyframeVars /\ UNCHANGED <<saves, sidecar, toWrite>>
        BY <1>8 DEF ReadSidecar
    <2>2. PICK n \in Networks, t \in TypeTables, on \in BOOLEAN :
              loaded' = IF /\ sidecar # Nothing
                           /\ Paired(sidecar, read) /\ Guarded(sidecar, n, t)
                           /\ Readable(read, on)
                        THEN [engine |-> RestoreState(read), net |-> n, types |-> t, on |-> on]
                        ELSE Nothing
        BY <1>8 DEF ReadSidecar
    <2>3. Twinned'
        BY <1>1, <2>1
    <2>4. SavesWhole' /\ SidecarsSaved'
        BY <2>1 DEF Kept, SavesWhole, SidecarsSaved, Nothing, NoEngine
    <2>5. LoadedWasSaved'
        <3>1. CASE loaded' = Nothing
            BY <3>1 DEF LoadedWasSaved, Nothing, NoEngine
        <3>2. CASE loaded' # Nothing
            <4>1. /\ sidecar # Nothing /\ Paired(sidecar, read) /\ Guarded(sidecar, n, t)
                  /\ Readable(read, on)
                  /\ loaded' = [engine |-> RestoreState(read), net |-> n, types |-> t, on |-> on]
                BY <2>2, <3>2
            <4>2. PICK s \in saves : sidecar = MetaOf(s)
                BY <4>1 DEF Kept, SidecarsSaved
            <4>3. read = PayloadOf(s.engine, s.on) /\ s.net = n /\ s.types = t
                BY <4>1, <4>2 DEF Paired, Guarded, MetaOf
            <4>4. Whole(s.engine) /\ s.on \in BOOLEAN
                BY DEF Kept, SavesWhole
            <4>5. /\ Whole(RestoreState(read)) /\ SameUpTo(RestoreState(read), s.engine, s.on)
                  /\ LaneSection(read) = s.on
                BY <4>3, <4>4, RestoredSame
            <4>6. s.on => on
                BY <4>1, <4>5 DEF Readable
            <4>7. Essence(RestoreState(read), s.on) = Essence(s.engine, s.on)
                BY <4>4, <4>5, EssenceSame
            <4>8. /\ loaded'.engine = RestoreState(read) /\ loaded'.net = n /\ loaded'.types = t
                  /\ loaded'.on = on
                BY <4>1
            <4> QED BY <2>1, <4>3, <4>6, <4>7, <4>8 DEF LoadedWasSaved
        <3> QED BY <3>1, <3>2
    <2> QED BY <2>3, <2>4, <2>5 DEF Kept
<1>9. CASE UNCHANGED warmVars
    BY <1>2, <1>9 DEF warmVars
<1> QED BY <1>2, <1>3, <1>4, <1>5, <1>6, <1>7, <1>8, <1>9 DEF WarmNext

(***************************************************************************)
(* With runs that save, die and are followed by others, restored engines   *)
(* are exact as well (keyframe.go, MarshalState, restoreState;             *)
(* warmstart.go, SaveState).                                               *)
(***************************************************************************)
THEOREM SavingRunsAreExact == WarmSpec => []RestoreIsExact
<1>1. WarmInit => Kept
    BY KeptInit, KeyframeAssumption
<1>2. Kept /\ [WarmNext]_warmVars => Kept'
    BY KeptStep, KeyframeAssumption
<1>3. Kept => RestoreIsExact
    BY TwinnedIsExact, KeyframeAssumption DEF Kept
<1> QED BY <1>1, <1>2, <1>3, PTL DEF WarmSpec

(***************************************************************************)
(* What a load gives was saved whole by a run of the same network and type *)
(* table, although a save is two writes and a load two reads, between      *)
(* which other runs save and die, for any number of runs and saves         *)
(* (warmstart.go, SaveState, LoadState).                                   *)
(***************************************************************************)
THEOREM LoadsWereSaved == WarmSpec => []LoadedWasSaved
<1>1. WarmInit => Kept
    BY KeptInit, KeyframeAssumption
<1>2. Kept /\ [WarmNext]_warmVars => Kept'
    BY KeptStep, KeyframeAssumption
<1>3. Kept => LoadedWasSaved
    BY DEF Kept
<1> QED BY <1>1, <1>2, <1>3, PTL DEF WarmSpec

=============================================================================
