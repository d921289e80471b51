----------------------------- MODULE Signal_proofs -----------------------------
(***************************************************************************)
(* Proofs about the override plane, for every set of programs, every bound *)
(* and every number of buffered verbs, and about the plane and the         *)
(* actuated controller together, for any traffic, any mix of table chunks  *)
(* and any knobs.                                                          *)
(*                                                                         *)
(* The controller hears nothing back.  What it believes is the newest      *)
(* entry of the history (Told), or will be once the one verb that is under *)
(* way has been installed (Pending); a decision turns the first into the   *)
(* second, and the boundary turns it back, as long as none is missed.      *)
(***************************************************************************)
EXTENDS SignalAgent, TLAPS, WellFoundedInduction, SequenceTheorems, FiniteSetTheorems

-----------------------------------------------------------------------------
(* Part one: the override plane. *)

\* A bounded non-empty set of naturals has a greatest element.
LEMMA GreatestExists ==
  ASSUME NEW b \in Nat, NEW T \in SUBSET (0 .. b), T # {}
  PROVE  \E m \in T : \A x \in T : x <= m
<1> DEFINE U == {b - x : x \in T}
<1>1. U \subseteq Nat /\ U # {}
  <2>1. \A x \in T : x \in Nat /\ x <= b
    OBVIOUS
  <2>2. \A x \in T : b - x \in Nat
    BY <2>1
  <2>3. PICK x \in T : TRUE
    OBVIOUS
  <2>4. b - x \in U
    BY <2>3
  <2> QED BY <2>2, <2>4
<1>2. \E u \in U : \A y \in U : ~ (<<y, u>> \in OpToRel(<, Nat))
  <2> HIDE DEF U
  <2> QED BY <1>1, WFMin, NatLessThanWellFounded
<1>3. PICK u \in U : \A y \in U : ~ (<<y, u>> \in OpToRel(<, Nat))
  BY <1>2
<1>4. \A y \in U : u <= y
  <2> TAKE y \in U
  <2>1. y \in Nat /\ u \in Nat
    BY <1>1
  <2>2. ~ (y < u)
    BY <1>3, <2>1 DEF OpToRel
  <2> QED BY <2>1, <2>2
<1>5. PICK m \in T : u = b - m
  BY <1>3
<1>6. \A x \in T : x <= m
  <2> TAKE x \in T
  <2>1. u <= b - x
    BY <1>4
  <2> QED BY <2>1, <1>5
<1> QED BY <1>6

-----------------------------------------------------------------------------
(***************************************************************************)
(* One program's history: what HistoryWellFormed says of it, at tick t.    *)
(***************************************************************************)
EntryOK(ov, t) ==
  /\ ov.chainStart <= ov.since
  /\ ov.since < ov.until
  /\ ov.since <= t
  /\ ov.until <= ov.chainStart + HoldMax

Disjoint(a, b) == a.until <= b.since \/ b.until <= a.since

HistoryOK(p, h, t) ==
  /\ h \subseteq Override(p)
  /\ \A ov \in h : EntryOK(ov, t)
  /\ \A a, b \in h : a # b => Disjoint(a, b)

\* A well-formed history that is not empty has a newest entry, and every
\* other entry ended before it began.
LEMMA NewestExists ==
  ASSUME NEW p \in Program, NEW t \in Nat, NEW h, HistoryOK(p, h, t), h # {}
  PROVE  /\ Newest(h) \in h
         /\ \A o \in h : o # Newest(h) => o.until <= Newest(h).since
<1>1. \A ov \in h : ov.since \in 0 .. t /\ ov.until \in Nat /\ ov.since < ov.until
  BY DEF HistoryOK, EntryOK, Override
<1> DEFINE S == {ov.since : ov \in h}
<1>2. S \in SUBSET (0 .. t) /\ S # {}
  BY <1>1
<1>3. \E m \in S : \A x \in S : x <= m
  <2> HIDE DEF S
  <2> QED BY <1>2, GreatestExists
<1>4. \E ov \in h : \A o \in h : o.since <= ov.since
  BY <1>3
<1>5. Newest(h) \in h /\ \A o \in h : o.since <= Newest(h).since
  BY <1>4 DEF Newest
<1>6. ASSUME NEW o \in h, o # Newest(h) PROVE o.until <= Newest(h).since
  <2>1. Disjoint(o, Newest(h))
    BY <1>5, <1>6 DEF HistoryOK
  <2>2. o.since <= Newest(h).since
    BY <1>5
  <2> HIDE DEF Newest
  <2> QED BY <2>1, <2>2, <1>1, <1>5 DEF Disjoint
<1> QED BY <1>5, <1>6

\* The outgoing entry, truncated, is the newest one with an end no later than t.
LEMMA OutgoingShape ==
  ASSUME NEW p \in Program, NEW t \in Nat, NEW h, HistoryOK(p, h, t), h # {}
  PROVE  LET n == Newest(h)
             o == Outgoing(h, t) IN
         /\ n \in h /\ n \in Override(p) /\ EntryOK(n, t)
         /\ o \in Override(p)
         /\ o.phase = n.phase /\ o.since = n.since /\ o.chainStart = n.chainStart /\ o.id = n.id
         /\ o.until <= n.until /\ o.until <= t
         /\ o.until = n.until \/ o.until = t
<1>1. Newest(h) \in h
  BY NewestExists
<1>2. Newest(h) \in Override(p) /\ EntryOK(Newest(h), t)
  BY <1>1 DEF HistoryOK
<1> HIDE DEF Newest
<1> QED BY <1>1, <1>2 DEF Outgoing, Override, EntryOK, Smaller

\* What remains of the history when a directive supersedes it is well formed
\* and ended by t.
LEMMA SupersedeOK ==
  ASSUME NEW p \in Program, NEW t \in Nat, NEW h, HistoryOK(p, h, t)
  PROVE  /\ HistoryOK(p, Supersede(h, t), t)
         /\ \A ov \in Supersede(h, t) : ov.until <= t
<1>1. CASE h = {}
  BY <1>1 DEF Supersede, Empties, Truncated, HistoryOK
<1>2. CASE h # {}
  <2> DEFINE n == Newest(h)
             o == Outgoing(h, t)
  <2>1. /\ n \in h /\ n \in Override(p) /\ EntryOK(n, t) /\ o \in Override(p)
        /\ o.since = n.since /\ o.chainStart = n.chainStart
        /\ o.until <= n.until /\ o.until <= t
    BY <1>2, OutgoingShape
  <2>2. \A a \in h \ {n} : /\ a.until <= n.since /\ a \in Override(p) /\ EntryOK(a, t)
                           /\ a.until <= t
    <3>1. \A a \in h \ {n} : a.until <= n.since
      BY <1>2, NewestExists
    <3>2. \A a \in h \ {n} : a \in Override(p) /\ EntryOK(a, t)
      BY DEF HistoryOK
    <3> HIDE DEF n
    <3> QED BY <3>1, <3>2, <2>1 DEF EntryOK, Override
  <2>3. \A a, b \in h \ {n} : a # b => Disjoint(a, b)
    BY DEF HistoryOK
  <2>4. CASE Empties(h, t)
    <3>1. Supersede(h, t) = h \ {n}
      BY <2>4 DEF Supersede
    <3> HIDE DEF n
    <3> QED BY <3>1, <2>2, <2>3 DEF HistoryOK
  <2>5. CASE ~Empties(h, t)
    <3>1. Supersede(h, t) = (h \ {n}) \union {o}
      BY <2>5, <1>2 DEF Supersede, Truncated
    <3>2. o.since < o.until
      <4>1. ~(o.until <= n.since)
        BY <2>5, <1>2 DEF Empties
      <4> HIDE DEF n, o
      <4> QED BY <4>1, <2>1 DEF Override
    <3>3. EntryOK(o, t)
      <4> HIDE DEF n, o
      <4> QED BY <3>2, <2>1, OverrideAssumption DEF EntryOK, Override
    <3>4. \A a \in h \ {n} : Disjoint(a, o) /\ Disjoint(o, a)
      <4> HIDE DEF n, o
      <4> QED BY <2>1, <2>2 DEF Disjoint
    <3> HIDE DEF n, o
    <3> QED BY <3>1, <3>3, <3>4, <2>1, <2>2, <2>3 DEF HistoryOK
  <2> QED BY <2>4, <2>5
<1> QED BY <1>1, <1>2

-----------------------------------------------------------------------------
\* The default and the clamp of EnqueueSignal leave a hold within the bound.
LEMMA EffectiveHoldBounded ==
  ASSUME NEW p \in Program, NEW hold \in Nat
  PROVE  EffectiveHold(p, hold) \in 1 .. HoldMax
<1>1. Cycle(p) \in Nat /\ Cycle(p) > 0
  <2>1. PhaseOnset[p] \in Seq(Nat) /\ Len(PhaseOnset[p]) >= 2 /\ Cycle(p) > 0
    BY ProgramAssumption
  <2> QED BY <2>1 DEF Cycle
<1> QED BY <1>1, OverrideAssumption DEF EffectiveHold, Smaller

\* Where the chain of a directive starts, and where its hold ends.
LEMMA HoldEndBounded ==
  ASSUME NEW p \in Program, NEW t \in Nat, NEW h, HistoryOK(p, h, t),
         NEW d \in Directive(1 .. HoldMax), d.signal = p
  PROVE  /\ ChainStart(h, d, t) \in 0 .. t
         /\ HoldEnd(h, d, t) \in Nat
         /\ HoldEnd(h, d, t) <= ChainStart(h, d, t) + HoldMax
         /\ HoldEnd(h, d, t) <= t + HoldMax
         /\ HoldEnd(h, d, t) <= t =>
              /\ Renews(h, d, t)
              /\ Newest(h).until = t
<1>1. d.hold \in 1 .. HoldMax /\ HoldMax \in Nat
  BY OverrideAssumption DEF Directive
<1>2. CASE Renews(h, d, t)
  <2>1. /\ h # {} /\ ChainStart(h, d, t) = Newest(h).chainStart
        /\ Newest(h).until >= t
    BY <1>2 DEF Renews, ChainStart
  <2>2. Newest(h) \in Override(p) /\ EntryOK(Newest(h), t)
    BY <2>1, NewestExists DEF HistoryOK
  <2> HIDE DEF Newest
  <2> QED BY <2>1, <2>2, <1>1, <1>2 DEF EntryOK, Override, HoldEnd, Smaller
<1>3. CASE ~Renews(h, d, t)
  <2>1. ChainStart(h, d, t) = t
    BY <1>3 DEF ChainStart
  <2> QED BY <2>1, <1>1 DEF HoldEnd, Smaller
<1> QED BY <1>2, <1>3

\* A directive installed, or declined at its chain's bound, leaves the
\* history well formed.
LEMMA InstalledOK ==
  ASSUME NEW p \in Program, NEW t \in Nat, NEW h, HistoryOK(p, h, t),
         NEW d \in Directive(1 .. HoldMax), d.signal = p
  PROVE  HistoryOK(p, Installed(h, d, t), t)
<1>1. CASE HoldEnd(h, d, t) > t
  <2> DEFINE e == [phase |-> d.phase, since |-> t, until |-> HoldEnd(h, d, t),
                   chainStart |-> ChainStart(h, d, t), id |-> d.id]
  <2>1. Installed(h, d, t) = Supersede(h, t) \union {e}
    BY <1>1 DEF Installed
  <2>2. e \in Override(p) /\ EntryOK(e, t)
    <3>1. d.phase \in Phases(p) /\ d.id \in RequestId
      BY DEF Directive
    <3> QED BY <3>1, <1>1, HoldEndBounded DEF Override, EntryOK
  <2>3. \A a \in Supersede(h, t) : Disjoint(a, e) /\ Disjoint(e, a)
    BY SupersedeOK DEF Disjoint
  <2>4. HistoryOK(p, Supersede(h, t), t)
    BY SupersedeOK
  <2> HIDE DEF e
  <2> QED BY <2>1, <2>2, <2>3, <2>4 DEF HistoryOK
<1>2. CASE ~(HoldEnd(h, d, t) > t)
  <2>1. Installed(h, d, t) = Truncated(h, t) /\ h # {} /\ Newest(h).until = t
    BY <1>2, HoldEndBounded DEF Installed, Renews
  <2>2. Newest(h) \in h /\ Newest(h) \in Override(p)
    BY <2>1, NewestExists DEF HistoryOK
  <2>3. Outgoing(h, t) = Newest(h)
    <3> HIDE DEF Newest
    <3> QED BY <2>1, <2>2 DEF Outgoing, Smaller, Override
  <2>4. Truncated(h, t) = h
    BY <2>1, <2>2, <2>3 DEF Truncated
  <2> QED BY <2>1, <2>4
<1> QED BY <1>1, <1>2

\* The record of a tick stays a sequence of directives.
LEMMA RecordedType ==
  ASSUME NEW p \in Program, NEW t \in Nat, NEW h, HistoryOK(p, h, t),
         NEW d \in Directive(1 .. HoldMax), d.signal = p,
         NEW rec \in Seq(Directive(0 .. HoldMax))
  PROVE  Recorded(rec, h, d, t) \in Seq(Directive(0 .. HoldMax))
<1> DEFINE D == Directive(0 .. HoldMax)
           dropped == {i \in DOMAIN rec : Empties(h, t) /\ rec[i].id = Newest(h).id}
           newest  == {i \in dropped : \A j \in dropped : j <= i}
           stamped == [i \in DOMAIN rec |->
                         IF i \in newest THEN [rec[i] EXCEPT !.hold = 0] ELSE rec[i]]
           hold    == IF HoldEnd(h, d, t) > t THEN HoldEnd(h, d, t) - t ELSE 0
<1>0. HoldMax \in Nat
  BY OverrideAssumption
<1>1. \A i \in DOMAIN rec : rec[i] \in D /\ [rec[i] EXCEPT !.hold = 0] \in D
  <2> TAKE i \in DOMAIN rec
  <2>1. rec[i] \in D
    OBVIOUS
  <2>2. 0 \in 0 .. HoldMax
    BY <1>0
  <2> QED BY <2>1, <2>2 DEF Directive
<1>2. stamped \in Seq(D)
  <2>1. stamped \in [1 .. Len(rec) -> D]
    <3> HIDE DEF D, newest
    <3> QED BY <1>1
  <2> HIDE DEF D, stamped
  <2> QED BY <2>1
<1>3. hold \in 0 .. HoldMax
  BY <1>0, HoldEndBounded
<1>4. [d EXCEPT !.hold = hold] \in D
  <2> HIDE DEF hold
  <2> QED BY <1>3 DEF Directive
<1>5. Recorded(rec, h, d, t) = Append(stamped, [d EXCEPT !.hold = hold])
  BY DEF Recorded
<1>6. Append(stamped, [d EXCEPT !.hold = hold]) \in Seq(D)
  <2> HIDE DEF D, stamped, hold
  <2> QED BY <1>2, <1>4
<1> QED BY <1>5, <1>6

-----------------------------------------------------------------------------
(***************************************************************************)
(* What a well-formed history displays.                                    *)
(***************************************************************************)
DisplayIn(p, h, x) ==
  [phase |-> IF Held(h, x) THEN Newest(Covering(h, x)).phase ELSE FixedPhase(p, x),
   held  |-> Held(h, x)]

Shows(h, x, ph) == \E ov \in h : Covers(ov, x) /\ ov.phase = ph

\* The fixed program always has a phase: PhaseAtElapsed answers with the last
\* one off the end of its ramp.
LEMMA FixedPhaseType ==
  ASSUME NEW p \in Program, NEW x \in Nat
  PROVE  FixedPhase(p, x) \in Phases(p)
<1> DEFINE c == InCycle(p, x)
           here == {i \in Phases(p) : PhaseOnset[p][i + 1] <= c /\ c < PhaseOnset[p][i + 2]}
<1>1. CASE here # {}
  <2> DEFINE i == CHOOSE i \in here : TRUE
  <2>1. i \in Phases(p)
    BY <1>1
  <2>2. FixedPhase(p, x) = i
    <3>1. PhaseAtElapsed(p, x) = [phase |-> i, elapsed |-> c - PhaseOnset[p][i + 1]]
      BY <1>1 DEF PhaseAtElapsed
    <3> HIDE DEF i, c
    <3> QED BY <3>1 DEF FixedPhase
  <2> QED BY <2>1, <2>2
<1>2. CASE here = {}
  <2>1. PhaseAtElapsed(p, x) = [phase |-> Len(PhaseOnset[p]) - 2, elapsed |-> 0]
    BY <1>2 DEF PhaseAtElapsed
  <2>2. Len(PhaseOnset[p]) - 2 \in Phases(p)
    <3>1. PhaseOnset[p] \in Seq(Nat) /\ Len(PhaseOnset[p]) >= 2
      BY ProgramAssumption
    <3>2. Len(PhaseOnset[p]) \in Nat
      BY <3>1
    <3> HIDE DEF here
    <3> QED BY <3>1, <3>2 DEF Phases
  <2> QED BY <2>1, <2>2 DEF FixedPhase
<1> QED BY <1>1, <1>2

\* At most one entry covers a tick, and that entry is what the tick displays.
LEMMA DisplayOfEntry ==
  ASSUME NEW p \in Program, NEW t \in Nat, NEW h, HistoryOK(p, h, t),
         NEW x \in Nat, NEW ov \in h, Covers(ov, x)
  PROVE  DisplayIn(p, h, x) = [phase |-> ov.phase, held |-> TRUE]
<1>1. \A o \in h : o.since \in Nat /\ o.until \in Nat
  BY DEF HistoryOK, Override
<1>2. ASSUME NEW o \in h, Covers(o, x) PROVE o = ov
  <2>1. o # ov => Disjoint(o, ov)
    BY DEF HistoryOK
  <2>2. ~ Disjoint(o, ov)
    BY <1>1, <1>2 DEF Disjoint, Covers
  <2> QED BY <2>1, <2>2
<1>3. Covering(h, x) = {ov}
  BY <1>2 DEF Covering
<1>4. Newest({ov}) = ov
  BY <1>1 DEF Newest
<1> HIDE DEF Newest
<1> QED BY <1>3, <1>4 DEF DisplayIn, Held

\* No entry, no override state: the lookup falls back to the fixed program.
LEMMA DisplayOfNone ==
  ASSUME NEW p \in Program, NEW h, NEW x \in Nat, \A ov \in h : ~Covers(ov, x)
  PROVE  DisplayIn(p, h, x) = [phase |-> FixedPhase(p, x), held |-> FALSE]
<1>1. Covering(h, x) = {}
  BY DEF Covering
<1> QED BY <1>1 DEF DisplayIn, Held

\* Whatever is in the stack, a junction displays one of the phases.
LEMMA DisplayType ==
  ASSUME NEW p \in Program, NEW t \in Nat, NEW h, HistoryOK(p, h, t), NEW x \in Nat
  PROVE  DisplayIn(p, h, x) \in [phase : Phases(p), held : BOOLEAN]
<1>1. CASE \E ov \in h : Covers(ov, x)
  <2>1. PICK ov \in h : Covers(ov, x)
    BY <1>1
  <2>2. ov.phase \in Phases(p)
    BY DEF HistoryOK, Override
  <2>3. DisplayIn(p, h, x) = [phase |-> ov.phase, held |-> TRUE]
    BY <2>1, DisplayOfEntry
  <2> QED BY <2>2, <2>3
<1>2. CASE \A ov \in h : ~Covers(ov, x)
  <2>1. DisplayIn(p, h, x) = [phase |-> FixedPhase(p, x), held |-> FALSE]
    BY <1>2, DisplayOfNone
  <2> QED BY <2>1, FixedPhaseType
<1> QED BY <1>1, <1>2

\* Two well-formed histories that show the same phases at a tick display the same.
LEMMA SameDisplay ==
  ASSUME NEW p \in Program, NEW t \in Nat, NEW x \in Nat,
         NEW h, HistoryOK(p, h, t), NEW g, HistoryOK(p, g, t),
         \A ph \in Phases(p) : Shows(h, x, ph) <=> Shows(g, x, ph)
  PROVE  DisplayIn(p, h, x) = DisplayIn(p, g, x)
<1>0. \A ov \in h \union g : ov.phase \in Phases(p)
  BY DEF HistoryOK, Override
<1>1. CASE \E ov \in h : Covers(ov, x)
  <2>1. PICK a \in h : Covers(a, x)
    BY <1>1
  <2>2. Shows(g, x, a.phase)
    BY <2>1, <1>0 DEF Shows
  <2>3. PICK b \in g : Covers(b, x) /\ b.phase = a.phase
    BY <2>2 DEF Shows
  <2>4. DisplayIn(p, h, x) = [phase |-> a.phase, held |-> TRUE]
    BY <2>1, DisplayOfEntry
  <2>5. DisplayIn(p, g, x) = [phase |-> b.phase, held |-> TRUE]
    BY <2>3, DisplayOfEntry
  <2> QED BY <2>3, <2>4, <2>5
<1>2. CASE \A ov \in h : ~Covers(ov, x)
  <2>1. \A ov \in g : ~Covers(ov, x)
    BY <1>2, <1>0 DEF Shows
  <2> QED BY <1>2, <2>1, DisplayOfNone
<1> QED BY <1>1, <1>2

\* Installing a directive at t changes nothing of what was displayed before t.
LEMMA InstalledKeepsThePast ==
  ASSUME NEW p \in Program, NEW t \in Nat, NEW h, HistoryOK(p, h, t),
         NEW d \in Directive(1 .. HoldMax), d.signal = p,
         NEW x \in Nat, x < t
  PROVE  DisplayIn(p, Installed(h, d, t), x) = DisplayIn(p, h, x)
<1> DEFINE g == Installed(h, d, t)
           n == Newest(h)
           o == Outgoing(h, t)
           e == [phase |-> d.phase, since |-> t, until |-> HoldEnd(h, d, t),
                 chainStart |-> ChainStart(h, d, t), id |-> d.id]
<1>1. ~Covers(e, x)
  <2>1. e.since = t
    OBVIOUS
  <2> HIDE DEF e
  <2> QED BY <2>1 DEF Covers
<1>2. h # {} => /\ n \in h /\ n \in Override(p) /\ EntryOK(n, t) /\ o \in Override(p)
                /\ o.phase = n.phase /\ o.since = n.since
                /\ o.until <= n.until /\ o.until <= t /\ (o.until = n.until \/ o.until = t)
  BY OutgoingShape
<1>3. h # {} => (Covers(o, x) <=> Covers(n, x))
  <2> HIDE DEF n, o
  <2> QED BY <1>2 DEF Covers, EntryOK, Override
<1>4. Empties(h, t) => ~Covers(n, x)
  <2>1. Empties(h, t) => h # {} /\ o.until <= n.since
    BY DEF Empties
  <2>2. Empties(h, t) => ~Covers(o, x)
    <3> HIDE DEF n, o
    <3> QED BY <2>1, <1>2 DEF Covers, Override
  <2> QED BY <2>1, <2>2, <1>3
<1>5. \/ g \in {h \ {n}, (h \ {n}) \union {e}} /\ Empties(h, t)
      \/ g \in {(h \ {n}) \union {o}, ((h \ {n}) \union {o}) \union {e}} /\ h # {}
      \/ g \in {{}, {e}} /\ h = {}
  <2>1. g \in {Truncated(h, t), Supersede(h, t) \union {e}}
    BY DEF Installed
  <2>2. h = {} => Truncated(h, t) = {} /\ Supersede(h, t) = {}
    BY DEF Truncated, Supersede, Empties
  <2>3. h # {} => Truncated(h, t) = (h \ {n}) \union {o}
    BY DEF Truncated
  <2>4. Supersede(h, t) = IF Empties(h, t) THEN h \ {n} ELSE Truncated(h, t)
    BY DEF Supersede
  <2>5. Empties(h, t) => h # {}
    BY DEF Empties
  <2> HIDE DEF g, n, o, e
  <2> QED BY <2>1, <2>2, <2>3, <2>4, <2>5
<1>6. \A ph \in Phases(p) : Shows(g, x, ph) <=> Shows(h, x, ph)
  <2> TAKE ph \in Phases(p)
  <2>1. CASE g \in {h \ {n}, (h \ {n}) \union {e}} /\ Empties(h, t)
    <3> HIDE DEF g, n, o, e
    <3> QED BY <2>1, <1>1, <1>4 DEF Shows
  <2>2. CASE g \in {(h \ {n}) \union {o}, ((h \ {n}) \union {o}) \union {e}} /\ h # {}
    <3>1. Covers(o, x) <=> Covers(n, x)
      BY <2>2, <1>3
    <3>2. o.phase = n.phase /\ n \in h
      BY <2>2, <1>2
    <3> HIDE DEF g, n, o, e
    <3> QED BY <2>2, <1>1, <3>1, <3>2 DEF Shows
  <2>3. CASE g \in {{}, {e}} /\ h = {}
    <3> HIDE DEF g, n, o, e
    <3> QED BY <2>3, <1>1 DEF Shows
  <2> HIDE DEF g, n, o, e
  <2> QED BY <1>5, <2>1, <2>2, <2>3
<1>7. HistoryOK(p, g, t)
  BY InstalledOK
<1>8. DisplayIn(p, g, x) = DisplayIn(p, h, x)
  <2> HIDE DEF g
  <2> QED BY <1>6, <1>7, SameDisplay
<1> QED BY <1>8

\* The sweep keeps a history well formed, and every entry the clearance
\* lookback can reach.
LEMMA SweptKeepsTheWindow ==
  ASSUME NEW p \in Program, NEW t \in Nat, NEW h, HistoryOK(p, h, t)
  PROVE  /\ HistoryOK(p, Swept(p, h, t), t)
         /\ \A x \in Nat : x + Clearance[p] + 1 >= t =>
              DisplayIn(p, Swept(p, h, t), x) = DisplayIn(p, h, x)
<1> DEFINE g == Swept(p, h, t)
<1>1. g \subseteq h
  BY DEF Swept
<1>2. HistoryOK(p, g, t)
  BY <1>1 DEF HistoryOK
<1>3. ASSUME NEW x \in Nat, x + Clearance[p] + 1 >= t
      PROVE  DisplayIn(p, g, x) = DisplayIn(p, h, x)
  <2>1. \A ov \in h : Covers(ov, x) => ov \in g
    <3>1. Clearance[p] \in Nat
      BY ProgramAssumption
    <3>2. \A ov \in h : ov.until \in Nat
      BY DEF HistoryOK, Override
    <3> QED BY <1>3, <3>1, <3>2 DEF Swept, Retained, Covers
  <2>2. \A ph \in Phases(p) : Shows(g, x, ph) <=> Shows(h, x, ph)
    BY <1>1, <2>1 DEF Shows
  <2> HIDE DEF g
  <2> QED BY <1>2, <2>2, SameDisplay
<1> QED BY <1>2, <1>3

-----------------------------------------------------------------------------
(***************************************************************************)
(* The inductive invariant.  HistoryWellFormed and LookbackAnswered are    *)
(* not inductive by themselves: between Steps the table has to answer for  *)
(* the tick just driven as well, and while directives are installed for    *)
(* the ticks before the current one.                                       *)
(***************************************************************************)
TableAnswers ==
  \A p \in Program : \A k \in 0 .. Clearance[p] :
    /\ pc = "between" /\ k <= tick => DisplayIn(p, sigOv[p], tick - k) = shown[p][k]
    /\ pc # "between" /\ k < tick => DisplayIn(p, sigOv[p], tick - 1 - k) = shown[p][k]

IInv ==
  /\ TypeOK
  /\ HistoryWellFormed
  /\ pc # "between" => tick > 0
  /\ TableAnswers
  /\ NoSilentFallback

\* HistoryWellFormed, one program at a time.
LEMMA Histories ==
  ASSUME TypeOK
  PROVE  HistoryWellFormed <=> \A p \in Program : HistoryOK(p, sigOv[p], tick)
BY DEF TypeOK, HistoryWellFormed, HistoryOK, EntryOK, Disjoint

\* The same after a step.
LEMMA HistoriesPrime ==
  ASSUME TypeOK'
  PROVE  HistoryWellFormed' <=> \A p \in Program : HistoryOK(p, sigOv'[p], tick')
BY DEF TypeOK, HistoryWellFormed, HistoryOK, EntryOK, Disjoint

\* Before the first tick nothing is commanded, displayed or recorded.
LEMMA InitIInv == Init => IInv
<1> SUFFICES ASSUME Init PROVE IInv
  OBVIOUS
<1> USE DEF Init
<1>1. TypeOK
  <2>1. \A p \in Program : Clearance[p] \in Nat /\ 0 \in Phases(p)
    <3> TAKE p \in Program
    <3>1. PhaseOnset[p] \in Seq(Nat) /\ Len(PhaseOnset[p]) >= 2 /\ Clearance[p] \in Nat
      BY ProgramAssumption
    <3>2. Len(PhaseOnset[p]) \in Nat
      BY <3>1
    <3> QED BY <3>1, <3>2 DEF Phases
  <2>2. \A p \in Program : FixedPhase(p, 0) \in Phases(p)
    BY FixedPhaseType
  <2>3. \A p \in Program :
          shown[p] \in [0 .. Clearance[p] -> [phase : Phases(p), held : BOOLEAN]]
    BY <2>1, <2>2 DEF NothingShown
  <2>4. sigNew \in Seq(Directive(1 .. HoldMax)) /\ appliedSig \in Seq(Directive(0 .. HoldMax))
    OBVIOUS
  <2> QED BY <2>3, <2>4 DEF TypeOK
<1>2. HistoryWellFormed
  BY DEF HistoryWellFormed
<1>3. TableAnswers
  <2> SUFFICES ASSUME NEW p \in Program, NEW k \in 0 .. Clearance[p], k <= tick
               PROVE  DisplayIn(p, sigOv[p], tick - k) = shown[p][k]
    BY DEF TableAnswers
  <2>1. k = 0 /\ Clearance[p] \in Nat
    BY ProgramAssumption
  <2>2. DisplayIn(p, {}, 0) = [phase |-> FixedPhase(p, 0), held |-> FALSE]
    BY DisplayOfNone
  <2> QED BY <2>1, <2>2
<1>4. NoSilentFallback
  BY DEF NoSilentFallback
<1> QED BY <1>1, <1>2, <1>3, <1>4 DEF IInv

\* EnqueueSignal touches the pending commands and the live ids only.
LEMMA EnqueueIInv ==
  ASSUME IInv, NEW id \in RequestId, NEW p \in Program, NEW hold \in Nat,
         NEW ph \in Phases(p), EnqueueSignal(id, p, ph, hold)
  PROVE  IInv'
<1> USE DEF IInv
<1>1. TypeOK'
  <2> DEFINE d == [id |-> id, signal |-> p, phase |-> ph, hold |-> EffectiveHold(p, hold)]
  <2>1. ph \in Nat /\ EffectiveHold(p, hold) \in 1 .. HoldMax
    BY EffectiveHoldBounded DEF Phases
  <2>2. d \in Directive(1 .. HoldMax)
    BY <2>1 DEF Directive
  <2>3. sigNew' = Append(sigNew, d)
    BY DEF EnqueueSignal
  <2>4. sigNew' \in Seq(Directive(1 .. HoldMax))
    <3> HIDE DEF d
    <3> QED BY <2>2, <2>3 DEF TypeOK
  <2> QED BY <2>4 DEF TypeOK, EnqueueSignal
<1>2. HistoryWellFormed'
  BY DEF HistoryWellFormed, EnqueueSignal
<1>3. TableAnswers'
  BY DEF TableAnswers, EnqueueSignal
<1>4. NoSilentFallback'
  BY DEF NoSilentFallback, EnqueueSignal
<1> QED BY <1>1, <1>2, <1>3, <1>4 DEF EnqueueSignal

\* Step advances the tick before it looks at any command.
LEMMA BeginStepIInv ==
  ASSUME IInv, BeginStep
  PROVE  IInv'
<1> USE DEF IInv, BeginStep
<1>1. TypeOK' /\ tick \in Nat /\ tick' = tick + 1
  BY DEF TypeOK
<1>2. HistoryWellFormed'
  <2>1. \A p \in Program : \A ov \in sigOv[p] : ov.since \in Nat
    BY DEF TypeOK, Override
  <2> QED BY <1>1, <2>1 DEF HistoryWellFormed
<1>3. TableAnswers'
  <2> SUFFICES ASSUME NEW p \in Program, NEW k \in 0 .. Clearance[p], k < tick'
               PROVE  DisplayIn(p, sigOv[p], tick' - 1 - k) = shown[p][k]
    BY DEF TableAnswers
  <2>1. k \in Nat /\ k <= tick /\ tick' - 1 - k = tick - k
    BY <1>1, ProgramAssumption
  <2> QED BY <2>1 DEF TableAnswers
<1>4. NoSilentFallback'
  BY DEF NoSilentFallback
<1> QED BY <1>1, <1>2, <1>3, <1>4

\* Applying a command keeps every stack ordered and the enforced past intact.
LEMMA InstallIInv ==
  ASSUME IInv, Install
  PROVE  IInv'
<1> USE DEF IInv
<1> DEFINE d == Head(sigNew)
           p == d.signal
           h == sigOv[p]
<1>1. d \in Directive(1 .. HoldMax) /\ Tail(sigNew) \in Seq(Directive(1 .. HoldMax))
  BY HeadTailProperties DEF TypeOK, Install
<1>2. p \in Program /\ tick \in Nat
  BY <1>1 DEF Directive, TypeOK
<1>3. HistoryOK(p, h, tick)
  BY <1>2, Histories
<1>4. HistoryOK(p, Installed(h, d, tick), tick)
  <2> HIDE DEF d, h
  <2> QED BY <1>1, <1>2, <1>3, InstalledOK
<1>5. /\ sigOv' = [sigOv EXCEPT ![p] = Installed(h, d, tick)]
      /\ appliedSig' = Recorded(appliedSig, h, d, tick)
      /\ sigNew' = Tail(sigNew)
      /\ UNCHANGED <<tick, pc, sigLapses, shown, heldFor, ovBefore>>
  BY DEF Install
<1>6. TypeOK'
  <2>1. appliedSig' \in Seq(Directive(0 .. HoldMax))
    <3>1. appliedSig \in Seq(Directive(0 .. HoldMax))
      BY DEF TypeOK
    <3> HIDE DEF d, h
    <3> QED BY <1>1, <1>2, <1>3, <1>5, <3>1, RecordedType
  <2>2. DOMAIN sigOv' = Program /\ \A q \in Program : sigOv'[q] \subseteq Override(q)
    <3>1. Installed(h, d, tick) \subseteq Override(p)
      BY <1>4 DEF HistoryOK
    <3> HIDE DEF d, h, p
    <3> QED BY <1>2, <1>5, <3>1 DEF TypeOK
  <2>3. sigNew' \in Seq(Directive(1 .. HoldMax))
    BY <1>1, <1>5
  <2> HIDE DEF d, h, p
  <2> QED BY <1>5, <2>1, <2>2, <2>3 DEF TypeOK
<1>7. \A q \in Program : HistoryOK(q, sigOv'[q], tick')
  <2> TAKE q \in Program
  <2>1. HistoryOK(q, sigOv[q], tick)
    BY Histories
  <2>2. DOMAIN sigOv = Program
    BY DEF TypeOK
  <2>3. q = p => sigOv'[q] = Installed(h, d, tick)
    BY <1>5, <2>2
  <2>4. q # p => sigOv'[q] = sigOv[q]
    BY <1>5, <2>2
  <2>5. tick' = tick
    BY <1>5
  <2> HIDE DEF d, h, p
  <2> QED BY <1>4, <2>1, <2>3, <2>4, <2>5
<1>8. HistoryWellFormed'
  BY <1>6, <1>7, HistoriesPrime
<1>9. TableAnswers'
  <2> SUFFICES ASSUME NEW q \in Program, NEW k \in 0 .. Clearance[q], k < tick
               PROVE  DisplayIn(q, sigOv'[q], tick - 1 - k) = shown[q][k]
    BY <1>5 DEF TableAnswers, Install
  <2>1. DisplayIn(q, sigOv[q], tick - 1 - k) = shown[q][k]
    BY DEF TableAnswers, Install
  <2>2. tick - 1 - k \in Nat /\ tick - 1 - k < tick
    BY <1>2, ProgramAssumption
  <2>3. DOMAIN sigOv = Program
    BY DEF TypeOK
  <2>4. CASE q = p
    <3>1. sigOv'[q] = Installed(h, d, tick)
      BY <1>5, <2>3, <2>4
    <3>2. DisplayIn(p, Installed(h, d, tick), tick - 1 - k) = DisplayIn(p, h, tick - 1 - k)
      <4> HIDE DEF d, h
      <4> QED BY <1>1, <1>2, <1>3, <2>2, InstalledKeepsThePast
    <3> QED BY <2>1, <2>4, <3>1, <3>2
  <2>5. CASE q # p
    BY <1>5, <2>1, <2>3, <2>5
  <2> QED BY <2>4, <2>5
<1>10. NoSilentFallback'
  BY <1>5 DEF NoSilentFallback, Install
<1> HIDE DEF d, h, p
<1> QED BY <1>5, <1>6, <1>8, <1>9, <1>10

\* At the sweep, control is handed back exactly when the newest entry ends now.
LEMMA HandBack ==
  ASSUME NEW p \in Program, NEW t \in Nat, t > 0, NEW h, HistoryOK(p, h, t)
  PROVE  LET before == DisplayIn(p, h, t - 1)
             lapsed == {o \in h : o = Newest(h) /\ o.until = t}
         IN  /\ (before.held /\ ~Held(h, t)) <=> lapsed # {}
             /\ \A o \in lapsed : lapsed = {o} /\ before.phase = o.phase
<1> DEFINE before == DisplayIn(p, h, t - 1)
           lapsed == {o \in h : o = Newest(h) /\ o.until = t}
<1>0. \A o \in h : /\ o.since \in Nat /\ o.until \in Nat /\ o.since < o.until /\ o.since <= t
  BY DEF HistoryOK, Override, EntryOK
<1>1. ASSUME before.held, ~Held(h, t)
      PROVE  lapsed # {}
  <2>1. PICK o \in h : Covers(o, t - 1)
    BY <1>1, DisplayOfNone
  <2>2. ~Covers(o, t)
    BY <1>1 DEF Held, Covering
  <2>3. o.until = t
    BY <1>0, <2>1, <2>2 DEF Covers
  <2>4. o = Newest(h)
    <3>1. Newest(h) \in h /\ (o # Newest(h) => o.until <= Newest(h).since)
      BY NewestExists
    <3>2. ~Covers(Newest(h), t)
      BY <1>1, <3>1 DEF Held, Covering
    <3> HIDE DEF Newest
    <3> QED BY <1>0, <2>3, <3>1, <3>2 DEF Covers
  <2> QED BY <2>3, <2>4
<1>2. ASSUME NEW o \in lapsed
      PROVE  /\ before = [phase |-> o.phase, held |-> TRUE]
             /\ ~Held(h, t)
  <2>1. o \in h /\ o = Newest(h) /\ o.until = t
    BY <1>2
  <2>2. Covers(o, t - 1)
    BY <1>0, <2>1 DEF Covers
  <2>3. before = [phase |-> o.phase, held |-> TRUE]
    <3> DEFINE x == t - 1
    <3>1. x \in Nat /\ o \in h /\ Covers(o, x)
      BY <2>1, <2>2
    <3>2. DisplayIn(p, h, x) = [phase |-> o.phase, held |-> TRUE]
      <4> HIDE DEF lapsed, before, x
      <4> QED BY <3>1, DisplayOfEntry
    <3> QED BY <3>2
  <2>4. \A q \in h : ~Covers(q, t)
    <3> TAKE q \in h
    <3>1. q # o => q.until <= o.since
      BY <2>1, NewestExists
    <3> QED BY <1>0, <2>1, <3>1 DEF Covers
  <2> QED BY <2>3, <2>4 DEF Held, Covering
<1>3. \A o, q \in lapsed : o = q
  OBVIOUS
<1>4. before.held \in BOOLEAN
  BY DEF DisplayIn, Held
<1>5. (before.held /\ ~Held(h, t)) <=> lapsed # {}
  <2>1. ASSUME lapsed # {} PROVE before.held /\ ~Held(h, t)
    <3>1. PICK o \in lapsed : TRUE
      BY <2>1
    <3>2. before = [phase |-> o.phase, held |-> TRUE] /\ ~Held(h, t)
      BY <1>2
    <3> HIDE DEF before
    <3> QED BY <3>2
  <2> HIDE DEF before, lapsed
  <2> QED BY <1>1, <2>1
<1>6. ASSUME NEW o \in lapsed PROVE lapsed = {o} /\ before.phase = o.phase
  <2>1. before = [phase |-> o.phase, held |-> TRUE]
    BY <1>2
  <2> HIDE DEF before, lapsed
  <2> QED BY <1>3, <1>6, <2>1
<1> QED BY <1>5, <1>6

\* The expiry sweep drops only entries no retained lookback can ask for.
LEMMA SweepIInv ==
  ASSUME IInv, Sweep
  PROVE  IInv'
<1> USE DEF IInv
<1>1. /\ tick \in Nat /\ tick > 0
      /\ pc = "install" /\ pc' = "drive"
      /\ sigLapses' = UNION {LapseOf(p, sigOv[p], tick) : p \in Program}
      /\ sigOv' = [p \in Program |-> Swept(p, sigOv[p], tick)]
      /\ UNCHANGED <<tick, sigNew, appliedSig, shown, heldFor, ovBefore>>
  BY DEF Sweep, TypeOK
<1>2. \A p \in Program : HistoryOK(p, sigOv[p], tick)
  BY Histories
<1>3. \A p \in Program : /\ HistoryOK(p, sigOv'[p], tick)
                         /\ \A x \in Nat : x + Clearance[p] + 1 >= tick =>
                              DisplayIn(p, sigOv'[p], x) = DisplayIn(p, sigOv[p], x)
  BY <1>1, <1>2, SweptKeepsTheWindow
<1>4. TypeOK'
  <2>1. \A p \in Program : sigOv'[p] \subseteq Override(p)
    BY <1>3 DEF HistoryOK
  <2>2. sigLapses' \subseteq Lapse
    <3>1. \A p \in Program : LapseOf(p, sigOv[p], tick) \subseteq Lapse
      <4> TAKE p \in Program
      <4>1. \A ov \in sigOv[p] : ov \in Override(p) /\ ov.phase \in Nat
        BY <1>2 DEF HistoryOK, Override, Phases
      <4> QED BY <4>1 DEF LapseOf, Lapse, Override
    <3> QED BY <1>1, <3>1
  <2> QED BY <1>1, <2>1, <2>2 DEF TypeOK
<1>5. HistoryWellFormed'
  BY <1>1, <1>3, <1>4, HistoriesPrime
<1>6. \A p \in Program : \A k \in 0 .. Clearance[p] :
        k < tick => DisplayIn(p, sigOv[p], tick - 1 - k) = shown[p][k]
  BY <1>1 DEF TableAnswers
<1>7. TableAnswers'
  <2> SUFFICES ASSUME NEW p \in Program, NEW k \in 0 .. Clearance[p], k < tick
               PROVE  DisplayIn(p, sigOv'[p], tick - 1 - k) = shown[p][k]
    BY <1>1 DEF TableAnswers
  <2>1. tick - 1 - k \in Nat /\ (tick - 1 - k) + Clearance[p] + 1 >= tick
    BY <1>1, ProgramAssumption
  <2> QED BY <1>3, <1>6, <2>1
<1>8. NoSilentFallback'
  <2> SUFFICES ASSUME NEW p \in Program
               PROVE  LET mine == {e \in sigLapses' : e.signal = p}
                          handedBack == shown[p][0].held /\ ~Held(sigOv'[p], tick)
                      IN  /\ handedBack <=> mine # {}
                          /\ \A e \in mine : /\ mine = {e}
                                             /\ e.until = tick
                                             /\ e.phase = shown[p][0].phase
    BY <1>1 DEF NoSilentFallback
  <2> DEFINE h == sigOv[p]
             lapsed == {o \in h : o = Newest(h) /\ o.until = tick}
             event(o) == [signal |-> p, phase |-> o.phase, since |-> o.chainStart,
                          until |-> o.until, id |-> o.id]
             mine == {e \in sigLapses' : e.signal = p}
  <2>1. mine = {event(o) : o \in lapsed}
    <3>1. \A q \in Program : \A e \in LapseOf(q, sigOv[q], tick) : e.signal = q
      BY DEF LapseOf
    <3>2. mine = LapseOf(p, h, tick)
      BY <1>1, <3>1
    <3> QED BY <3>2 DEF LapseOf
  <2>2. shown[p][0] = DisplayIn(p, h, tick - 1)
    <3>1. 0 \in 0 .. Clearance[p]
      BY ProgramAssumption
    <3> QED BY <1>1, <1>6, <3>1
  <2>3. Held(sigOv'[p], tick) <=> Held(h, tick)
    <3>1. DisplayIn(p, sigOv'[p], tick) = DisplayIn(p, h, tick)
      BY <1>1, <1>3, ProgramAssumption
    <3> QED BY <3>1 DEF DisplayIn
  <2>4. /\ (shown[p][0].held /\ ~Held(h, tick)) <=> lapsed # {}
        /\ \A o \in lapsed : lapsed = {o} /\ shown[p][0].phase = o.phase
    <3>1. HistoryOK(p, h, tick)
      BY <1>2
    <3> HIDE DEF h
    <3> QED BY <1>1, <2>2, <3>1, HandBack
  <2>5. mine # {} <=> lapsed # {}
    BY <2>1
  <2>6. ASSUME NEW e \in mine
        PROVE  mine = {e} /\ e.until = tick /\ e.phase = shown[p][0].phase
    <3>1. PICK o \in lapsed : e = event(o)
      BY <2>1, <2>6
    <3>2. lapsed = {o} /\ o.until = tick /\ o.phase = shown[p][0].phase
      BY <2>4, <3>1
    <3>3. mine = {event(o)}
      <4> HIDE DEF lapsed, mine
      <4> QED BY <2>1, <3>2
    <3> QED BY <3>1, <3>2, <3>3
  <2> HIDE DEF mine, lapsed, h
  <2> QED BY <2>3, <2>4, <2>5, <2>6 DEF mine, h
<1> QED BY <1>1, <1>4, <1>5, <1>7, <1>8

\* Driving the vehicles appends the display of this tick to the histories.
LEMMA DriveIInv ==
  ASSUME IInv, Drive
  PROVE  IInv'
<1> USE DEF IInv
<1>1. /\ tick \in Nat /\ tick > 0 /\ pc = "drive" /\ pc' = "between"
      /\ UNCHANGED <<tick, sigNew, sigOv>>
  BY DEF Drive, TypeOK
<1>2. \A p \in Program : HistoryOK(p, sigOv[p], tick)
  BY Histories
<1>3. \A p \in Program : Displayed(p, tick) = DisplayIn(p, sigOv[p], tick)
  BY DEF Displayed, DisplayIn, SigPhaseAt
<1>4. \A p \in Program : Displayed(p, tick) \in [phase : Phases(p), held : BOOLEAN]
  BY <1>1, <1>2, <1>3, DisplayType
<1>5. shown' = [p \in Program |-> [k \in 0 .. Clearance[p] |->
                  IF k = 0 THEN Displayed(p, tick) ELSE shown[p][k - 1]]]
  BY DEF Drive
<1>6. TypeOK'
  <2>1. \A p \in Program :
          shown'[p] \in [0 .. Clearance[p] -> [phase : Phases(p), held : BOOLEAN]]
    <3> TAKE p \in Program
    <3>1. shown[p] \in [0 .. Clearance[p] -> [phase : Phases(p), held : BOOLEAN]]
          /\ Clearance[p] \in Nat
      BY ProgramAssumption DEF TypeOK
    <3>2. \A k \in 0 .. Clearance[p] : k # 0 => k - 1 \in 0 .. Clearance[p]
      BY <3>1
    <3> QED BY <1>4, <1>5, <3>1, <3>2
  <2>2. heldFor' \in [Program -> Nat]
    BY DEF Drive, TypeOK
  <2>3. DOMAIN shown' = Program
    BY <1>5
  <2>4. /\ appliedSig' = <<>> /\ sigLapses' = {} /\ ovBefore' = [p \in Program |-> {}]
    BY DEF Drive
  <2>5. appliedSig' \in Seq(Directive(0 .. HoldMax))
    BY <2>4
  <2> QED BY <1>1, <2>1, <2>2, <2>3, <2>4, <2>5 DEF TypeOK
<1>7. HistoryWellFormed'
  BY <1>1 DEF HistoryWellFormed
<1>8. TableAnswers'
  <2> SUFFICES ASSUME NEW p \in Program, NEW k \in 0 .. Clearance[p], k <= tick
               PROVE  DisplayIn(p, sigOv[p], tick - k) = shown'[p][k]
    BY <1>1 DEF TableAnswers
  <2>1. Clearance[p] \in Nat
    BY ProgramAssumption
  <2>2. CASE k = 0
    BY <1>1, <1>3, <1>5, <2>1, <2>2
  <2>3. CASE k # 0
    <3>1. k - 1 \in 0 .. Clearance[p] /\ k - 1 < tick /\ tick - 1 - (k - 1) = tick - k
      BY <1>1, <2>1, <2>3
    <3>2. DisplayIn(p, sigOv[p], tick - 1 - (k - 1)) = shown[p][k - 1]
      BY <1>1, <3>1 DEF TableAnswers
    <3> QED BY <1>5, <2>3, <3>1, <3>2
  <2> QED BY <2>2, <2>3
<1>9. NoSilentFallback'
  BY <1>1 DEF NoSilentFallback
<1> QED BY <1>1, <1>6, <1>7, <1>8, <1>9

\* What the kernel does, whatever holds its clients ask for.
KernelNext ==
  \/ \E id \in RequestId, p \in Program, hold \in Nat :
       \E ph \in Phases(p) : EnqueueSignal(id, p, ph, hold)
  \/ BeginStep \/ Install \/ Sweep \/ Drive
  \/ UNCHANGED vars

LEMMA KernelSteps == [Next]_vars => KernelNext
BY OverrideAssumption DEF Next, KernelNext, Finished

\* Every step keeps the inductive invariant.
LEMMA NextIInv == IInv /\ KernelNext => IInv'
<1> SUFFICES ASSUME IInv, KernelNext PROVE IInv'
  OBVIOUS
<1>1. CASE UNCHANGED vars
  BY <1>1 DEF IInv, TypeOK, HistoryWellFormed, TableAnswers, NoSilentFallback, vars, kernel
<1>2. ASSUME NEW id \in RequestId, NEW p \in Program, NEW hold \in Nat,
             NEW ph \in Phases(p), EnqueueSignal(id, p, ph, hold)
      PROVE  IInv'
  BY <1>2, EnqueueIInv
<1> QED BY <1>1, <1>2, BeginStepIInv, InstallIInv, SweepIInv, DriveIInv DEF KernelNext

\* The inductive invariant holds of every reachable state.
LEMMA Invariance == Spec => []IInv
BY InitIInv, NextIInv, KernelSteps, PTL DEF Spec

\* The kernel's signal state is always of its type; in particular every verb
\* waiting for a boundary already carries a hold within the starvation bound
\* (EnqueueSignal).
THEOREM TypeCorrect == Spec => []TypeOK
<1>1. IInv => TypeOK
  BY DEF IInv
<1> QED BY <1>1, Invariance, PTL

\* stepSignalOverrides keeps every program's override history a chronology of
\* disjoint holds, each ending within the bound of its chain.
THEOREM HistoriesStayWellFormed == Spec => []HistoryWellFormed
<1>1. IInv => HistoryWellFormed
  BY DEF IInv
<1> QED BY <1>1, Invariance, PTL

\* Truncation, drops and the retention sweep never lose a tick the clearance
\* lookback reads: sigPhaseAt answers with what was displayed.
THEOREM LookbackIsAnswered == Spec => []LookbackAnswered
<1>1. IInv => LookbackAnswered
  <2> SUFFICES ASSUME IInv, pc = "drive", NEW p \in Program, NEW k \in 0 .. Clearance[p],
                      k < tick
               PROVE  Displayed(p, tick - 1 - k) = shown[p][k]
    BY DEF LookbackAnswered
  <2>1. DisplayIn(p, sigOv[p], tick - 1 - k) = shown[p][k]
    BY DEF IInv, TableAnswers
  <2> QED BY <2>1 DEF Displayed, DisplayIn, SigPhaseAt
<1> QED BY <1>1, Invariance, PTL

\* The fixed-time program resumes at a tick if and only if that Step reports
\* the lapse of the hold that was shown: the starvation rail is never silent.
THEOREM FallbackIsNeverSilent == Spec => []NoSilentFallback
<1>1. IInv => NoSilentFallback
  BY DEF IInv
<1> QED BY <1>1, Invariance, PTL

-----------------------------------------------------------------------------
(***************************************************************************)
(* A chain of renewals really is one uninterrupted hold.                   *)
(***************************************************************************)

\* A history h whose newest entry reaches the tick t, for what was shown last and
\* for how long: the whole chain of that entry was shown.
ChainOK(h, last, length, t) ==
  h # {} /\ Newest(h).chainStart < t /\ t <= Newest(h).until =>
    /\ last = [phase |-> Newest(h).phase, held |-> TRUE]
    /\ length >= t - Newest(h).chainStart

\* Between Steps the entry is to reach the next tick, within one the present.
Chains ==
  \A p \in Program :
    /\ pc = "between" => ChainOK(sigOv[p], shown[p][0], heldFor[p], tick + 1)
    /\ pc # "between" => ChainOK(sigOv[p], shown[p][0], heldFor[p], tick)

\* An entry that begins where all others have ended is the newest.
LEMMA NewestIs ==
  ASSUME NEW p \in Program, NEW t \in Nat, NEW h, HistoryOK(p, h, t),
         NEW n \in h, \A o \in h : o # n => o.until <= n.since
  PROVE  Newest(h) = n
<1>1. Newest(h) \in h /\ \A o \in h : o # Newest(h) => o.until <= Newest(h).since
  BY NewestExists
<1>2. \A o \in h : o.since \in Nat /\ o.until \in Nat /\ o.since < o.until
  BY DEF HistoryOK, EntryOK, Override
<1> HIDE DEF Newest
<1> QED BY <1>1, <1>2

\* A directive starts a chain now or continues the one that is shown.
LEMMA InstalledChain ==
  ASSUME NEW p \in Program, NEW t \in Nat, NEW h, HistoryOK(p, h, t),
         NEW d \in Directive(1 .. HoldMax), d.signal = p, NEW last, NEW length,
         ChainOK(h, last, length, t)
  PROVE  ChainOK(Installed(h, d, t), last, length, t)
<1>1. CASE HoldEnd(h, d, t) > t
  <2> DEFINE e == [phase |-> d.phase, since |-> t, until |-> HoldEnd(h, d, t),
                   chainStart |-> ChainStart(h, d, t), id |-> d.id]
             g == Installed(h, d, t)
  <2>1. g = Supersede(h, t) \union {e}
    BY <1>1 DEF Installed
  <2>2. HistoryOK(p, g, t) /\ \A o \in g : o # e => o.until <= e.since
    BY <2>1, InstalledOK, SupersedeOK
  <2>3. /\ e.phase = d.phase
        /\ e.chainStart = IF Renews(h, d, t) THEN Newest(h).chainStart ELSE t
    BY DEF ChainStart
  <2>4. Renews(h, d, t) => h # {} /\ Newest(h).phase = d.phase /\ t <= Newest(h).until
    <3>1. h # {} => Newest(h).until \in Nat
      <4>1. h # {} => Newest(h) \in h
        BY NewestExists
      <4> QED BY <4>1 DEF HistoryOK, Override
    <3> QED BY <3>1 DEF Renews
  <2> HIDE DEF e, g
  <2>5. Newest(g) = e
    BY <2>1, <2>2, NewestIs
  <2>6. CASE Renews(h, d, t)
    <3> HIDE DEF Newest
    <3> QED BY <2>3, <2>4, <2>5, <2>6 DEF ChainOK, g
  <2>7. CASE ~Renews(h, d, t)
    <3> HIDE DEF Newest
    <3> QED BY <2>3, <2>5, <2>7 DEF ChainOK, g
  <2> QED BY <2>6, <2>7
<1>2. CASE ~(HoldEnd(h, d, t) > t)
  <2>1. Installed(h, d, t) = Truncated(h, t) /\ h # {} /\ Newest(h).until = t
    BY <1>2, HoldEndBounded DEF Installed, Renews
  <2>2. Newest(h) \in h /\ Newest(h) \in Override(p)
    BY <2>1, NewestExists DEF HistoryOK
  <2>3. Outgoing(h, t) = Newest(h)
    <3> HIDE DEF Newest
    <3> QED BY <2>1, <2>2 DEF Outgoing, Smaller, Override
  <2>4. Truncated(h, t) = h
    BY <2>1, <2>2, <2>3 DEF Truncated
  <2> QED BY <2>1, <2>4
<1> QED BY <1>1, <1>2

\* The newest entry is the last to leave the history.
LEMMA SweptChain ==
  ASSUME NEW p \in Program, NEW t \in Nat, NEW h, HistoryOK(p, h, t), NEW last, NEW length,
         ChainOK(h, last, length, t)
  PROVE  ChainOK(Swept(p, h, t), last, length, t)
<1> DEFINE g == Swept(p, h, t)
<1>1. CASE g = {}
  BY <1>1 DEF ChainOK
<1>2. CASE g # {}
  <2>1. h # {} /\ g \subseteq h
    BY <1>2 DEF Swept
  <2>2. Newest(h) \in h /\ \A o \in h : o # Newest(h) => o.until <= Newest(h).since
    BY <2>1, NewestExists
  <2>3. \A o \in h : o.since \in Nat /\ o.until \in Nat /\ o.since < o.until
    BY DEF HistoryOK, EntryOK, Override
  <2>4. Newest(h) \in g
    <3>1. PICK o \in h : Retained(p, o, t)
      BY <1>2 DEF Swept
    <3>2. Clearance[p] \in Nat
      BY ProgramAssumption
    <3>3. o.until <= Newest(h).until
      <4> HIDE DEF Newest
      <4> QED BY <2>2, <2>3
    <3>4. Newest(h).until \in Nat
      BY <2>2, <2>3
    <3> HIDE DEF Newest
    <3>5. Retained(p, Newest(h), t)
      BY <2>3, <3>1, <3>2, <3>3, <3>4 DEF Retained
    <3> QED BY <2>2, <3>5 DEF Swept
  <2>5. HistoryOK(p, g, t)
    BY <2>1 DEF HistoryOK
  <2> DEFINE n == Newest(h)
  <2>6. n \in g /\ \A o \in g : o # n => o.until <= n.since
    BY <2>1, <2>2, <2>4
  <2> HIDE DEF g, n
  <2>7. Newest(g) = n
    BY <2>5, <2>6, NewestIs
  <2> QED BY <2>1, <2>7 DEF ChainOK, g, n
<1> QED BY <1>1, <1>2

\* The tick that is driven shows the newest entry once more.
LEMMA DriveChain ==
  ASSUME IInv, Chains, Drive, NEW p \in Program
  PROVE  ChainOK(sigOv'[p], shown'[p][0], heldFor'[p], tick' + 1)
<1> DEFINE h == sigOv[p]
           now == Displayed(p, tick)
<1>0. TypeOK
  BY DEF IInv
<1>1. /\ tick \in Nat /\ pc = "drive" /\ tick' = tick /\ sigOv' = sigOv /\ heldFor[p] \in Nat
      /\ 0 \in 0 .. Clearance[p]
  BY <1>0, ProgramAssumption DEF Drive, TypeOK
<1>2. /\ shown'[p][0] = now
      /\ heldFor'[p] = IF ~Held(h, tick) THEN 0
                       ELSE IF shown[p][0] = now THEN heldFor[p] + 1 ELSE 1
  BY <1>1 DEF Drive
<1>3. HistoryOK(p, h, tick)
  BY <1>0, Histories DEF IInv
<1>4. now = DisplayIn(p, h, tick)
  BY DEF Displayed, DisplayIn, SigPhaseAt
<1> DEFINE n == Newest(h)
           length == heldFor'[p]
<1>5. ASSUME h # {}, n.chainStart < tick + 1, tick + 1 <= n.until
      PROVE  now = [phase |-> n.phase, held |-> TRUE] /\ length >= (tick + 1) - n.chainStart
  <2>1. n \in h
    BY <1>1, <1>3, <1>5, NewestExists
  <2>2. /\ n.since \in Nat /\ n.until \in Nat /\ n.chainStart \in Nat
        /\ n.chainStart <= n.since /\ n.since <= tick
    BY <1>3, <2>1 DEF HistoryOK, EntryOK, Override
  <2>3. ChainOK(h, shown[p][0], heldFor[p], tick)
    BY <1>1 DEF Chains
  <2>4. n.chainStart < tick =>
          shown[p][0] = [phase |-> n.phase, held |-> TRUE] /\ heldFor[p] >= tick - n.chainStart
    BY <1>1, <1>5, <2>2, <2>3 DEF ChainOK
  <2> HIDE DEF n, h, now
  <2>5. Covers(n, tick)
    BY <1>1, <1>5, <2>2 DEF Covers
  <2>6. now = [phase |-> n.phase, held |-> TRUE]
    BY <1>1, <1>3, <1>4, <2>1, <2>5, DisplayOfEntry
  <2>7. Held(h, tick)
    BY <2>1, <2>5 DEF Held, Covering
  <2>8. CASE n.chainStart < tick
    BY <1>1, <1>2, <2>2, <2>4, <2>6, <2>7, <2>8
  <2>9. CASE n.chainStart = tick
    BY <1>1, <1>2, <2>6, <2>7, <2>9
  <2> QED BY <1>1, <1>5, <2>2, <2>8, <2>9
<1> HIDE DEF now, h, length
<1>6. ChainOK(h, now, length, tick + 1)
  BY <1>5 DEF ChainOK
<1> QED BY <1>1, <1>2, <1>6 DEF h, length

LEMMA NextChains == IInv /\ Chains /\ KernelNext => Chains'
<1> SUFFICES ASSUME IInv, Chains, KernelNext PROVE Chains'
  OBVIOUS
<1>0. TypeOK
  BY DEF IInv
<1>1. CASE UNCHANGED vars
  BY <1>1 DEF Chains, ChainOK, vars, kernel
<1>2. ASSUME NEW id \in RequestId, NEW p \in Program, NEW hold \in Nat,
             NEW ph \in Phases(p), EnqueueSignal(id, p, ph, hold)
      PROVE  Chains'
  BY <1>2 DEF EnqueueSignal, Chains, ChainOK
<1>3. CASE BeginStep
  BY <1>3 DEF BeginStep, Chains, ChainOK
<1>4. CASE Install
  <2> DEFINE d == Head(sigNew)
             q == d.signal
  <2>1. d \in Directive(1 .. HoldMax)
    BY <1>0, <1>4, HeadTailProperties DEF TypeOK, Install
  <2>2. q \in Program /\ tick \in Nat
    BY <1>0, <2>1 DEF Directive, TypeOK
  <2>3. /\ sigOv' = [sigOv EXCEPT ![q] = Installed(sigOv[q], d, tick)]
        /\ UNCHANGED <<tick, pc, shown, heldFor>> /\ pc = "install"
    BY <1>4 DEF Install
  <2>4. DOMAIN sigOv = Program
    BY <1>0 DEF TypeOK
  <2> HIDE DEF d
  <2> SUFFICES ASSUME NEW p \in Program
               PROVE  ChainOK(sigOv'[p], shown[p][0], heldFor[p], tick)
    BY <2>3 DEF Chains
  <2>5. ChainOK(sigOv[p], shown[p][0], heldFor[p], tick)
    BY <2>3 DEF Chains
  <2>6. CASE p = q
    <3>1. sigOv'[p] = Installed(sigOv[p], d, tick)
      BY <2>3, <2>4, <2>6
    <3>2. HistoryOK(p, sigOv[p], tick)
      BY <1>0, Histories DEF IInv
    <3> QED BY <2>1, <2>2, <2>5, <2>6, <3>1, <3>2, InstalledChain
  <2>7. CASE p # q
    BY <2>3, <2>4, <2>5, <2>7
  <2> QED BY <2>6, <2>7
<1>5. CASE Sweep
  <2>1. /\ sigOv' = [p \in Program |-> Swept(p, sigOv[p], tick)]
        /\ UNCHANGED <<tick, shown, heldFor>> /\ pc = "install" /\ pc' = "drive"
    BY <1>5 DEF Sweep
  <2> SUFFICES ASSUME NEW p \in Program
               PROVE  ChainOK(Swept(p, sigOv[p], tick), shown[p][0], heldFor[p], tick)
    BY <2>1 DEF Chains
  <2>2. ChainOK(sigOv[p], shown[p][0], heldFor[p], tick)
    BY <2>1 DEF Chains
  <2>3. HistoryOK(p, sigOv[p], tick) /\ tick \in Nat
    BY <1>0, Histories DEF IInv, TypeOK
  <2> QED BY <2>2, <2>3, SweptChain
<1>6. CASE Drive
  <2>1. pc' = "between"
    BY <1>6 DEF Drive
  <2> QED BY <1>6, <2>1, DriveChain DEF Chains
<1> QED BY <1>1, <1>2, <1>3, <1>4, <1>5, <1>6 DEF KernelNext

\* stepSignalOverrides: since the chainStart of the newest hold its phase was shown
\* at every tick, so that a reported lapse is the length of an actual starvation.
THEOREM ChainsAreUninterrupted == Spec => []ChainIsUninterrupted
<1>1. Init => Chains
  BY DEF Init, Chains, ChainOK
<1>2. Chains => ChainIsUninterrupted
  <2> SUFFICES ASSUME Chains, pc = "drive", NEW p \in Program, sigOv[p] # {},
                      Newest(sigOv[p]).chainStart < tick, tick <= Newest(sigOv[p]).until
               PROVE  /\ shown[p][0] = [phase |-> Newest(sigOv[p]).phase, held |-> TRUE]
                      /\ heldFor[p] >= tick - Newest(sigOv[p]).chainStart
    BY DEF ChainIsUninterrupted
  <2>1. ChainOK(sigOv[p], shown[p][0], heldFor[p], tick)
    BY DEF Chains
  <2> HIDE DEF Newest
  <2> QED BY <2>1 DEF ChainOK
<1> QED BY <1>1, <1>2, Invariance, NextChains, KernelSteps, PTL DEF Spec

-----------------------------------------------------------------------------
(***************************************************************************)
(* Replaying the record of a tick.  The replay is a walk over the verbs    *)
(* (a recursive function); its steps are those of the run except that a    *)
(* verb recorded with hold 0 asks for the default hold.                    *)
(***************************************************************************)

\* A walk that leaves a set it starts in leaves it at a step.
LEMMA KeptByWalk ==
  ASSUME NEW N \in Nat, NEW f, NEW S, f[0] \in S,
         \A i \in 1 .. N : f[i - 1] \in S => f[i] \in S
  PROVE  \A i \in 0 .. N : f[i] \in S
<1> DEFINE B == {i \in 0 .. N : f[i] \notin S}
<1> SUFFICES ASSUME B # {} PROVE FALSE
  OBVIOUS
<1>1. B \subseteq Nat
  OBVIOUS
<1>2. PICK b \in B : \A y \in B : ~ (<<y, b>> \in OpToRel(<, Nat))
  BY <1>1, WFMin, NatLessThanWellFounded
<1>3. \A y \in B : b <= y
  <2> TAKE y \in B
  <2>1. y \in Nat /\ b \in Nat
    BY <1>1
  <2>2. ~ (y < b)
    BY <1>2, <2>1 DEF OpToRel
  <2> QED BY <2>1, <2>2
<1>4. b # 0 /\ b \in 1 .. N
  OBVIOUS
<1>5. b - 1 \notin B
  BY <1>3, <1>4
<1>6. f[b - 1] \in S
  BY <1>4, <1>5
<1> QED BY <1>4, <1>6

\* X is the walk whose end Replay looks at.
Started(before) == [ov |-> before, rec |-> <<>>]
IsReplay(t, before, recs, X) ==
  X = [n \in 0 .. Len(recs) |->
         IF n = 0 THEN [ov |-> before, rec |-> <<>>] ELSE ReplayVerb(t, X[n - 1], recs[n])]

\* What the walk is, one step at a time.
LEMMA ReplaySteps ==
  ASSUME NEW t, NEW before, NEW recs, Len(recs) \in Nat, NEW X, IsReplay(t, before, recs, X)
  PROVE  /\ X[0] = Started(before)
         /\ \A i \in 1 .. Len(recs) : X[i] = ReplayVerb(t, X[i - 1], recs[i])
<1> DEFINE Z == [n \in 0 .. Len(recs) |->
                   IF n = 0 THEN [ov |-> before, rec |-> <<>>] ELSE ReplayVerb(t, X[n - 1], recs[n])]
<1>1. X = Z
  BY DEF IsReplay
<1>2. Z[0] = Started(before)
  BY DEF Started
<1>3. \A i \in 1 .. Len(recs) : Z[i] = ReplayVerb(t, X[i - 1], recs[i])
  OBVIOUS
<1> HIDE DEF Z
<1> QED BY <1>1, <1>2, <1>3

\* The first n verbs have a walk.
WalkTo(t, before, recs, n, X) ==
  X = [i \in 0 .. n |->
         IF i = 0 THEN [ov |-> before, rec |-> <<>>] ELSE ReplayVerb(t, X[i - 1], recs[i])]

LEMMA ReplayExists ==
  ASSUME NEW t, NEW before, NEW recs, NEW N \in Nat
  PROVE  \E X : WalkTo(t, before, recs, N, X)
<1> DEFINE P(n) == \E X : WalkTo(t, before, recs, n, X)
           h == [n \in 0 .. N |-> IF P(n) THEN 1 ELSE 0]
           first == [ov |-> before, rec |-> <<>>]
<1>1. P(0)
  <2> DEFINE X == [v \in 0 .. 0 |-> first]
  <2>1. \A v \in 0 .. 0 : v = 0
    OBVIOUS
  <2>2. WalkTo(t, before, recs, 0, X)
    BY <2>1 DEF WalkTo
  <2> QED BY <2>2
<1>2. ASSUME NEW n \in 1 .. N, P(n - 1) PROVE P(n)
  <2>1. PICK X : WalkTo(t, before, recs, n - 1, X)
    BY <1>2
  <2> DEFINE Y == [v \in 0 .. n |-> IF v = n THEN ReplayVerb(t, X[n - 1], recs[n]) ELSE X[v]]
  <2>2. ASSUME NEW v \in 0 .. n
        PROVE  Y[v] = IF v = 0 THEN first ELSE ReplayVerb(t, Y[v - 1], recs[v])
    <3> HIDE DEF first
    <3>1. CASE v = n
      <4>1. Y[v] = ReplayVerb(t, X[n - 1], recs[n]) /\ Y[n - 1] = X[n - 1] /\ v # 0
        BY <3>1
      <4> HIDE DEF Y
      <4> QED BY <3>1, <4>1
    <3>2. CASE v # n
      <4>1. v \in 0 .. n - 1 /\ Y[v] = X[v]
        BY <3>2
      <4>2. X[v] = IF v = 0 THEN first ELSE ReplayVerb(t, X[v - 1], recs[v])
        <5> DEFINE Z == [w \in 0 .. n - 1 |->
                           IF w = 0 THEN first ELSE ReplayVerb(t, X[w - 1], recs[w])]
        <5>1. Z[v] = IF v = 0 THEN first ELSE ReplayVerb(t, X[v - 1], recs[v])
          BY <4>1
        <5>2. X = Z
          BY <2>1 DEF WalkTo, first
        <5> HIDE DEF Z
        <5> QED BY <5>1, <5>2
      <4>3. v # 0 => Y[v - 1] = X[v - 1]
        BY <4>1
      <4> HIDE DEF Y
      <4> QED BY <4>1, <4>2, <4>3
    <3> QED BY <3>1, <3>2
  <2>3. Y = [v \in 0 .. n |-> Y[v]]
    OBVIOUS
  <2> HIDE DEF Y
  <2>4. WalkTo(t, before, recs, n, Y)
    BY <2>2, <2>3 DEF WalkTo
  <2> QED BY <2>4
<1> HIDE DEF P
<1>3. h[0] \in {1} /\ \A i \in 1 .. N : h[i - 1] \in {1} => h[i] \in {1}
  <2>1. h[0] = 1
    BY <1>1
  <2>2. ASSUME NEW i \in 1 .. N, h[i - 1] = 1 PROVE h[i] = 1
    <3>1. P(i - 1)
      BY <2>2
    <3>2. P(i)
      BY <1>2, <3>1
    <3> QED BY <3>2
  <2> QED BY <2>1, <2>2
<1>4. P(N)
  <2> HIDE DEF h
  <2>1. \A i \in 0 .. N : h[i] \in {1}
    BY ONLY <1>3, KeptByWalk, N \in Nat
  <2>2. h[N] = 1
    BY <2>1
  <2> QED BY <2>2 DEF h
<1> QED BY <1>4 DEF P

\* Replay returns the end of such a walk.
LEMMA ReplayIsWalk ==
  ASSUME NEW t, NEW before, NEW recs, Len(recs) \in Nat
  PROVE  \E X : IsReplay(t, before, recs, X) /\ Replay(t, before, recs) = X[Len(recs)]
<1>1. \E W : IsReplay(t, before, recs, W)
  <2>1. PICK W : WalkTo(t, before, recs, Len(recs), W)
    BY ReplayExists
  <2>2. IsReplay(t, before, recs, W)
    BY <2>1 DEF IsReplay, WalkTo
  <2> QED BY <2>2
<1>2. (\E W : IsReplay(t, before, recs, W)) =>
        \E X : IsReplay(t, before, recs, X) /\ Replay(t, before, recs) = X[Len(recs)]
  BY Zenon DEF Replay, IsReplay
<1> QED BY <1>1, <1>2

\* There is only one walk.
LEMMA ReplaysEndAlike ==
  ASSUME NEW t, NEW before, NEW recs, Len(recs) \in Nat, NEW X, NEW Z,
         IsReplay(t, before, recs, X), IsReplay(t, before, recs, Z)
  PROVE  X[Len(recs)] = Z[Len(recs)]
<1> DEFINE N == Len(recs)
           h == [n \in 0 .. N |-> IF X[n] = Z[n] THEN 1 ELSE 0]
<1>1. /\ X[0] = Z[0]
      /\ \A i \in 1 .. N : /\ X[i] = ReplayVerb(t, X[i - 1], recs[i])
                           /\ Z[i] = ReplayVerb(t, Z[i - 1], recs[i])
  BY ReplaySteps, SMTT(40)
<1>2. h[0] \in {1} /\ \A i \in 1 .. N : h[i - 1] \in {1} => h[i] \in {1}
  <2>1. h[0] = 1
    BY <1>1
  <2>2. ASSUME NEW i \in 1 .. N, h[i - 1] = 1 PROVE h[i] = 1
    <3>1. i - 1 \in 0 .. N
      OBVIOUS
    <3>2. X[i - 1] = Z[i - 1]
      BY <2>2, <3>1
    <3>3. X[i] = Z[i]
      BY <1>1, <3>2
    <3> QED BY <3>3
  <2> QED BY <2>1, <2>2
<1> HIDE DEF N
<1>3. N \in Nat
  BY DEF N
<1>4. h[N] = 1
  <2> HIDE DEF h
  <2>1. \A i \in 0 .. N : h[i] \in {1}
    BY ONLY <1>2, <1>3, KeptByWalk
  <2> QED BY <2>1, <1>3
<1> QED BY <1>3, <1>4 DEF N

\* The n-th state of a replay: a table of well-formed histories, and n verbs on the record.
Records == Seq(Directive(0 .. HoldMax))
Good(t, n, acc) ==
  /\ acc = [ov |-> acc.ov, rec |-> acc.rec]
  /\ DOMAIN acc.ov = Program
  /\ \A p \in Program : HistoryOK(p, acc.ov[p], t)
  /\ acc.rec \in Records /\ Len(acc.rec) = n

\* The verb a recorded directive becomes.
Again(d) == [d EXCEPT !.hold = EffectiveHold(d.signal, d.hold)]

LEMMA AgainIsVerb ==
  ASSUME NEW d \in Directive(0 .. HoldMax)
  PROVE  /\ Again(d) \in Directive(1 .. HoldMax)
         /\ Again(d).id = d.id /\ Again(d).signal = d.signal /\ Again(d).phase = d.phase
         /\ d.signal \in Program
<1>1. d.signal \in Program /\ d.hold \in Nat
  BY OverrideAssumption DEF Directive
<1>2. EffectiveHold(d.signal, d.hold) \in 1 .. HoldMax
  BY <1>1, EffectiveHoldBounded
<1> QED BY <1>1, <1>2 DEF Again, Directive

LEMMA RecordedLength ==
  ASSUME NEW rec \in Records, NEW h, NEW d, NEW t
  PROVE  Len(Recorded(rec, h, d, t)) = Len(rec) + 1
<1> DEFINE dropped == {i \in DOMAIN rec : Empties(h, t) /\ rec[i].id = Newest(h).id}
           newest  == {i \in dropped : \A j \in dropped : j <= i}
           stamped == [i \in DOMAIN rec |->
                         IF i \in newest THEN [rec[i] EXCEPT !.hold = 0] ELSE rec[i]]
           hold    == IF HoldEnd(h, d, t) > t THEN HoldEnd(h, d, t) - t ELSE 0
<1>1. Recorded(rec, h, d, t) = Append(stamped, [d EXCEPT !.hold = hold])
  BY DEF Recorded
<1>2. DOMAIN stamped = 1 .. Len(rec) /\ Len(rec) \in Nat
  BY DEF Records
<1>3. \E S : stamped \in Seq(S)
  <2> DEFINE S == {stamped[i] : i \in 1 .. Len(rec)}
  <2>1. stamped \in [1 .. Len(rec) -> S]
    <3>1. stamped = [i \in 1 .. Len(rec) |-> stamped[i]]
      BY <1>2
    <3> HIDE DEF stamped
    <3> QED BY <3>1
  <2> HIDE DEF stamped, S
  <2>2. stamped \in Seq(S)
    BY <2>1, <1>2
  <2> QED BY <2>2
<1> HIDE DEF stamped, hold
<1> QED BY <1>1, <1>2, <1>3

LEMMA VerbKeepsGood ==
  ASSUME NEW t \in Nat, NEW n \in Nat, NEW acc, Good(t, n, acc),
         NEW d \in Directive(0 .. HoldMax)
  PROVE  Good(t, n + 1, ReplayVerb(t, acc, d))
<1> DEFINE p == d.signal
           h == acc.ov[p]
           a == Again(d)
           ov == [acc.ov EXCEPT ![p] = Installed(h, a, t)]
           rec == Recorded(acc.rec, h, a, t)
<1>1. ReplayVerb(t, acc, d) = [ov |-> ov, rec |-> rec]
  BY DEF ReplayVerb, Again
<1>2. a \in Directive(1 .. HoldMax) /\ a.signal = p /\ p \in Program
  BY AgainIsVerb
<1>3. HistoryOK(p, h, t) /\ acc.rec \in Records /\ Len(acc.rec) = n
  BY <1>2 DEF Good
<1> HIDE DEF a, h
<1>4. HistoryOK(p, Installed(h, a, t), t)
  BY <1>2, <1>3, InstalledOK
<1>5. rec \in Records /\ Len(rec) = n + 1
  BY <1>2, <1>3, RecordedType, RecordedLength DEF Records
<1>6. DOMAIN ov = Program /\ \A q \in Program : HistoryOK(q, ov[q], t)
  <2>1. DOMAIN acc.ov = Program /\ \A q \in Program : HistoryOK(q, acc.ov[q], t)
    BY DEF Good
  <2> QED BY <1>2, <1>4, <2>1
<1> HIDE DEF ov, rec
<1>7. ReplayVerb(t, acc, d).ov = ov /\ ReplayVerb(t, acc, d).rec = rec
  BY <1>1
<1> QED BY <1>1, <1>5, <1>6, <1>7 DEF Good

\* Every state of a replay is such a state.
LEMMA ReplayIsGood ==
  ASSUME NEW t \in Nat, NEW before, DOMAIN before = Program,
         \A p \in Program : HistoryOK(p, before[p], t),
         NEW recs \in Records, NEW X, IsReplay(t, before, recs, X)
  PROVE  \A i \in 0 .. Len(recs) : Good(t, i, X[i])
<1> DEFINE N == Len(recs)
           h == [n \in 0 .. N |-> IF Good(t, n, X[n]) THEN 1 ELSE 0]
<1>0. N \in Nat /\ \A i \in 1 .. N : recs[i] \in Directive(0 .. HoldMax)
  BY DEF Records
<1>1. X[0] = Started(before) /\ \A i \in 1 .. N : X[i] = ReplayVerb(t, X[i - 1], recs[i])
  BY <1>0, ReplaySteps
<1> HIDE DEF N
<1>2. h[0] \in {1} /\ \A i \in 1 .. N : h[i - 1] \in {1} => h[i] \in {1}
  <2>1. Good(t, 0, X[0])
    BY <1>1 DEF Good, Started, Records
  <2>2. ASSUME NEW i \in 1 .. N, h[i - 1] = 1 PROVE h[i] = 1
    <3>1. i - 1 \in 0 .. N /\ i - 1 \in Nat /\ i = (i - 1) + 1
      BY <1>0
    <3>2. Good(t, i - 1, X[i - 1])
      BY <2>2, <3>1
    <3>3. Good(t, i, X[i])
      BY <1>0, <1>1, <3>1, <3>2, VerbKeepsGood
    <3> QED BY <3>3
  <2>3. h[0] = 1
    BY <2>1, <1>0
  <2> QED BY <2>2, <2>3
<1>4. \A i \in 0 .. N : h[i] \in {1}
  <2> HIDE DEF h
  <2> QED BY ONLY <1>0, <1>2, KeptByWalk
<1> QED BY <1>4 DEF N

\* The hold a verb is recorded with.
Enforced(h, d, t) == IF HoldEnd(h, d, t) > t THEN HoldEnd(h, d, t) - t ELSE 0
OnRecord(h, d, t) == [d EXCEPT !.hold = Enforced(h, d, t)]

\* A recorded verb does what the verb did: a declined one is declined again,
\* whatever hold it asks for.
LEMMA AgainSame ==
  ASSUME NEW p \in Program, NEW t \in Nat, NEW h, HistoryOK(p, h, t),
         NEW d \in Directive(1 .. HoldMax), d.signal = p
  PROVE  LET a == Again(OnRecord(h, d, t)) IN
         /\ OnRecord(h, d, t) \in Directive(0 .. HoldMax)
         /\ Installed(h, a, t) = Installed(h, d, t)
         /\ \A rec : Recorded(rec, h, a, t) = Recorded(rec, h, d, t)
<1> DEFINE r == OnRecord(h, d, t)
           a == Again(r)
           start == ChainStart(h, d, t)
<1>0. HoldMax \in Nat \ {0} /\ d.hold \in 1 .. HoldMax
  BY OverrideAssumption DEF Directive
<1>1. /\ start \in 0 .. t
      /\ HoldEnd(h, d, t) \in Nat /\ HoldEnd(h, d, t) <= start + HoldMax
      /\ HoldEnd(h, d, t) <= t + HoldMax
  BY HoldEndBounded
<1>2. Enforced(h, d, t) \in 0 .. HoldMax
  BY <1>0, <1>1 DEF Enforced
<1>3. r \in Directive(0 .. HoldMax) /\ r.id = d.id /\ r.signal = p /\ r.phase = d.phase
      /\ r.hold = Enforced(h, d, t)
  BY <1>2 DEF OnRecord, Directive
<1>4. a \in Directive(1 .. HoldMax) /\ a.id = d.id /\ a.signal = p /\ a.phase = d.phase
      /\ a.hold = EffectiveHold(p, Enforced(h, d, t))
  <2> HIDE DEF r
  <2>1. a.hold = EffectiveHold(r.signal, r.hold)
    BY <1>3 DEF Again, Directive
  <2> QED BY <1>3, <2>1, AgainIsVerb
<1>5. ChainStart(h, a, t) = start
  BY <1>4 DEF ChainStart, Renews
<1>6. a.hold \in 1 .. HoldMax
  BY <1>4 DEF Directive
<1>7. HoldEnd(h, a, t) = HoldEnd(h, d, t)
  <2>1. HoldEnd(h, a, t) = Smaller(t + a.hold, start + HoldMax)
    BY <1>5 DEF HoldEnd
  <2>2. HoldEnd(h, d, t) = Smaller(t + d.hold, start + HoldMax)
    BY DEF HoldEnd
  <2>3. CASE HoldEnd(h, d, t) > t
    <3>1. Enforced(h, d, t) = HoldEnd(h, d, t) - t
      BY <2>3 DEF Enforced
    <3>2. a.hold = HoldEnd(h, d, t) - t
      <4>1. Enforced(h, d, t) # 0 /\ Enforced(h, d, t) <= HoldMax
        BY <1>1, <1>2, <2>3, <3>1
      <4> QED BY <1>4, <3>1, <4>1 DEF EffectiveHold, Smaller
    <3> HIDE DEF a, start
    <3> QED BY <1>0, <1>1, <2>1, <3>2 DEF Smaller
  <2>4. CASE ~(HoldEnd(h, d, t) > t)
    <3> HIDE DEF a, start
    <3> QED BY <1>0, <1>1, <1>6, <2>1, <2>2, <2>4 DEF Smaller
  <2> QED BY <2>3, <2>4
<1>8. Installed(h, a, t) = Installed(h, d, t)
  <2> HIDE DEF a
  <2> QED BY <1>4, <1>5, <1>7 DEF Installed
<1>9. ASSUME NEW rec PROVE Recorded(rec, h, a, t) = Recorded(rec, h, d, t)
  <2> DEFINE e == IF HoldEnd(h, d, t) > t THEN HoldEnd(h, d, t) - t ELSE 0
  <2>1. [a EXCEPT !.hold = e] = [d EXCEPT !.hold = e]
    <3> HIDE DEF a, e
    <3> QED BY <1>4 DEF Directive
  <2> HIDE DEF a
  <2> QED BY <1>7, <2>1 DEF Recorded
<1> QED BY <1>3, <1>8, <1>9

\* Two records of a tick that differ in one verb's hold.
Blank(r) == [r EXCEPT !.hold = 0]
SameButHold(i, r, s) ==
  /\ r \in Records /\ s \in Records /\ Len(r) = Len(s)
  /\ \A j \in 1 .. Len(s) : /\ j # i => r[j] = s[j]
                            /\ r[j].id = s[j].id /\ Blank(r[j]) = Blank(s[j])

\* The parts of a record after a verb.
Dropped(rec, h, t) == {i \in DOMAIN rec : Empties(h, t) /\ rec[i].id = Newest(h).id}
Stamp(rec, h, t) == {i \in Dropped(rec, h, t) : \A j \in Dropped(rec, h, t) : j <= i}
Stamped(rec, h, t) ==
  [i \in DOMAIN rec |-> IF i \in Stamp(rec, h, t) THEN Blank(rec[i]) ELSE rec[i]]

LEMMA RecordedParts ==
  ASSUME NEW rec, NEW h, NEW d, NEW t
  PROVE  Recorded(rec, h, d, t) = Append(Stamped(rec, h, t), OnRecord(h, d, t))
BY DEF Recorded, Stamped, Stamp, Dropped, Blank, OnRecord, Enforced

LEMMA StampedType ==
  ASSUME NEW rec \in Records, NEW h, NEW t
  PROVE  Stamped(rec, h, t) \in Records /\ Len(Stamped(rec, h, t)) = Len(rec)
<1>1. \A i \in 1 .. Len(rec) : rec[i] \in Directive(0 .. HoldMax) /\ Blank(rec[i]) \in Directive(0 .. HoldMax)
  <2> TAKE i \in 1 .. Len(rec)
  <2>1. rec[i] \in Directive(0 .. HoldMax)
    BY DEF Records
  <2>2. 0 \in 0 .. HoldMax
    BY OverrideAssumption
  <2> QED BY <2>1, <2>2 DEF Blank, Directive
<1>2. DOMAIN rec = 1 .. Len(rec) /\ Len(rec) \in Nat
  BY DEF Records
<1>3. Stamped(rec, h, t) \in [1 .. Len(rec) -> Directive(0 .. HoldMax)]
  <2> DEFINE S == Stamp(rec, h, t)
             D == Directive(0 .. HoldMax)
  <2>1. Stamped(rec, h, t) = [i \in 1 .. Len(rec) |-> IF i \in S THEN Blank(rec[i]) ELSE rec[i]]
    BY <1>2 DEF Stamped
  <2>2. \A i \in 1 .. Len(rec) : (IF i \in S THEN Blank(rec[i]) ELSE rec[i]) \in D
    BY <1>1
  <2> HIDE DEF S, D
  <2>3. Stamped(rec, h, t) \in [1 .. Len(rec) -> D]
    BY <2>1, <2>2
  <2> QED BY <2>3 DEF D
<1> HIDE DEF Stamped
<1> QED BY <1>2, <1>3 DEF Records

\* A record with another hold at i is stamped in the same places.
LEMMA StampsAlike ==
  ASSUME NEW i, NEW r, NEW s, SameButHold(i, r, s), NEW h, NEW g, NEW t,
         Empties(g, t) <=> Empties(h, t), Newest(g).id = Newest(h).id
  PROVE  /\ Dropped(r, g, t) = Dropped(s, h, t) /\ Stamp(r, g, t) = Stamp(s, h, t)
         /\ SameButHold(i, Stamped(r, g, t), Stamped(s, h, t))
         /\ i \in Stamp(s, h, t) => Stamped(r, g, t) = Stamped(s, h, t)
<1>1. DOMAIN r = 1 .. Len(s) /\ DOMAIN s = 1 .. Len(s) /\ Len(s) \in Nat
  BY DEF SameButHold, Records
<1>2. \A j \in 1 .. Len(s) : /\ j # i => r[j] = s[j]
                             /\ r[j].id = s[j].id /\ Blank(r[j]) = Blank(s[j])
  BY DEF SameButHold
<1>3. Dropped(r, g, t) = Dropped(s, h, t)
  BY <1>1, <1>2 DEF Dropped
<1> DEFINE S == Stamp(s, h, t)
           u == Stamped(r, g, t)
           v == Stamped(s, h, t)
<1>4. Stamp(r, g, t) = S
  BY <1>3 DEF Stamp
<1>5. /\ u = [j \in 1 .. Len(s) |-> IF j \in S THEN Blank(r[j]) ELSE r[j]]
      /\ v = [j \in 1 .. Len(s) |-> IF j \in S THEN Blank(s[j]) ELSE s[j]]
  BY <1>1, <1>4 DEF Stamped
<1>6. u \in Records /\ v \in Records /\ Len(u) = Len(s) /\ Len(v) = Len(s)
  BY StampedType DEF SameButHold
<1> HIDE DEF S, u, v
<1>7. \A j \in 1 .. Len(s) : /\ u[j] = IF j \in S THEN Blank(r[j]) ELSE r[j]
                             /\ v[j] = IF j \in S THEN Blank(s[j]) ELSE s[j]
  BY <1>5
<1>8. \A j \in 1 .. Len(s) : /\ j # i => u[j] = v[j]
                             /\ u[j].id = v[j].id /\ Blank(u[j]) = Blank(v[j])
  <2> TAKE j \in 1 .. Len(s)
  <2>1. CASE j \in S
    BY <2>1, <1>2, <1>7
  <2>2. CASE j \notin S
    BY <2>2, <1>2, <1>7
  <2> QED BY <2>1, <2>2
<1>9. SameButHold(i, u, v)
  BY <1>6, <1>8 DEF SameButHold
<1>10. ASSUME i \in S PROVE u = v
  <2>1. \A j \in 1 .. Len(s) :
          (IF j \in S THEN Blank(r[j]) ELSE r[j]) = (IF j \in S THEN Blank(s[j]) ELSE s[j])
    BY <1>10, <1>2
  <2> QED BY <1>5, <2>1
<1> QED BY <1>3, <1>4, <1>9, <1>10 DEF S, u, v

\* A verb appended to two such records, with the same hold or at i with any.
LEMMA AppendsAlike ==
  ASSUME NEW i, NEW r, NEW s, SameButHold(i, r, s),
         NEW x \in Directive(0 .. HoldMax), NEW y \in Directive(0 .. HoldMax),
         Len(s) + 1 # i => x = y, x.id = y.id, Blank(x) = Blank(y)
  PROVE  SameButHold(i, Append(r, x), Append(s, y))
<1> DEFINE u == Append(r, x)
           v == Append(s, y)
<1>1. r \in Records /\ s \in Records /\ Len(r) = Len(s) /\ Len(s) \in Nat
  BY DEF SameButHold, Records
<1>2. u \in Records /\ v \in Records /\ Len(u) = Len(s) + 1 /\ Len(v) = Len(s) + 1
  BY <1>1 DEF Records
<1>3. \A j \in 1 .. Len(s) : u[j] = r[j] /\ v[j] = s[j]
  BY <1>1 DEF Records
<1>4. u[Len(s) + 1] = x /\ v[Len(s) + 1] = y
  BY <1>1 DEF Records
<1> HIDE DEF u, v
<1>5. ASSUME NEW j \in 1 .. Len(s) + 1
      PROVE  /\ j # i => u[j] = v[j]
             /\ u[j].id = v[j].id /\ Blank(u[j]) = Blank(v[j])
  <2>1. CASE j = Len(s) + 1
    BY <2>1, <1>4
  <2>2. CASE j # Len(s) + 1
    <3>1. j \in 1 .. Len(s)
      BY <1>1, <2>2
    <3> QED BY <3>1, <1>3 DEF SameButHold
  <2> QED BY <2>1, <2>2
<1>6. SameButHold(i, u, v)
  BY <1>2, <1>5 DEF SameButHold
<1> QED BY <1>6 DEF u, v

\* A verb that drops the newest entry finds one installed in this tick.
LEMMA DroppedIsFresh ==
  ASSUME NEW p \in Program, NEW t \in Nat, NEW h, HistoryOK(p, h, t), Empties(h, t)
  PROVE  /\ h # {} /\ Newest(h) \in h /\ Newest(h) \in Override(p)
         /\ Newest(h).since = t /\ Newest(h).until > t
<1>1. h # {} /\ Outgoing(h, t).until <= Newest(h).since
  BY DEF Empties
<1>2. Newest(h) \in h /\ Newest(h) \in Override(p) /\ EntryOK(Newest(h), t)
  BY <1>1, NewestExists DEF HistoryOK
<1>3. Outgoing(h, t).until = Smaller(Newest(h).until, t)
  BY <1>2 DEF Outgoing, Override
<1> HIDE DEF Newest
<1> QED BY <1>1, <1>2, <1>3 DEF EntryOK, Override, Smaller

\* Whoever installed the entry that is dropped was not declined.
LEMMA DroppedWasInstalled ==
  ASSUME NEW p \in Program, NEW t \in Nat, NEW h, HistoryOK(p, h, t),
         NEW a \in Directive(1 .. HoldMax), a.signal = p, Empties(Installed(h, a, t), t)
  PROVE  HoldEnd(h, a, t) > t
<1> SUFFICES ASSUME ~(HoldEnd(h, a, t) > t) PROVE FALSE
  OBVIOUS
<1>1. h # {} /\ Newest(h).until = t /\ Installed(h, a, t) = Truncated(h, t)
  <2>1. HoldEnd(h, a, t) \in Nat
    BY HoldEndBounded
  <2>2. Renews(h, a, t) /\ Newest(h).until = t
    BY <2>1, HoldEndBounded
  <2> QED BY <2>2 DEF Renews, Installed
<1>2. Newest(h) \in h /\ Newest(h) \in Override(p)
  BY <1>1, NewestExists DEF HistoryOK
<1>3. Outgoing(h, t) = Newest(h)
  <2> HIDE DEF Newest
  <2> QED BY <1>1, <1>2 DEF Outgoing, Smaller, Override
<1>4. Truncated(h, t) = h
  BY <1>1, <1>2, <1>3 DEF Truncated
<1>5. Newest(h).until > t
  BY <1>1, <1>4, DroppedIsFresh
<1> QED BY <1>1, <1>5, <1>2 DEF Override

\* The history after a verb that was not declined.
LEMMA InstalledParts ==
  ASSUME NEW p \in Program, NEW t \in Nat, NEW h, HistoryOK(p, h, t),
         NEW a \in Directive(1 .. HoldMax), a.signal = p, HoldEnd(h, a, t) > t
  PROVE  LET g == Installed(h, a, t)
             n == Newest(g)
         IN  /\ HistoryOK(p, g, t) /\ g # {}
             /\ g \ {n} = Supersede(h, t)
             /\ n.phase = a.phase /\ n.since = t /\ n.until > t /\ n.id = a.id
             /\ n.chainStart = ChainStart(h, a, t)
             /\ Empties(g, t)
<1> DEFINE g == Installed(h, a, t)
           x == [phase |-> a.phase, since |-> t, until |-> HoldEnd(h, a, t),
                 chainStart |-> ChainStart(h, a, t), id |-> a.id]
<1>1. g = Supersede(h, t) \union {x}
  BY DEF Installed
<1>2. HistoryOK(p, g, t)
  BY InstalledOK
<1>3. \A o \in Supersede(h, t) : o.until <= t /\ o.until \in Nat
  BY SupersedeOK DEF HistoryOK, Override
<1>4. HoldEnd(h, a, t) \in Nat
  BY HoldEndBounded
<1>5. x \in g /\ \A o \in g : o # x => o.until <= x.since
  BY <1>1, <1>3
<1>6. x.since = t /\ x.until = HoldEnd(h, a, t)
  OBVIOUS
<1> HIDE DEF g
<1>7. Newest(g) = x
  <2> HIDE DEF x
  <2> QED BY <1>2, <1>5, NewestIs
<1>8. x \notin Supersede(h, t)
  BY <1>3, <1>4
<1>9. Empties(g, t)
  <2>1. Outgoing(g, t).until = Smaller(x.until, t)
    BY <1>7 DEF Outgoing
  <2> HIDE DEF x
  <2> QED BY <1>4, <1>5, <1>6, <1>7, <2>1 DEF Empties, Smaller
<1>10. g \ {x} = Supersede(h, t)
  <2> HIDE DEF x
  <2> QED BY <1>1, <1>8
<1>11. /\ x.phase = a.phase /\ x.since = t /\ x.until > t /\ x.id = a.id
       /\ x.chainStart = ChainStart(h, a, t)
  OBVIOUS
<1> HIDE DEF x
<1> QED BY <1>2, <1>5, <1>7, <1>9, <1>10, <1>11 DEF g

\* What is left of a verb that a later one of the same tick drops does not
\* depend on the hold it had.
LEMMA DroppedAlike ==
  ASSUME NEW p \in Program, NEW t \in Nat, NEW h, HistoryOK(p, h, t),
         NEW a \in Directive(1 .. HoldMax), a.signal = p,
         NEW b \in Directive(1 .. HoldMax), b.signal = p, b.id = a.id, b.phase = a.phase,
         Empties(Installed(h, a, t), t), NEW d \in Directive(1 .. HoldMax), d.signal = p
  PROVE  LET g == Installed(h, a, t)
             k == Installed(h, b, t)
         IN  /\ HistoryOK(p, g, t) /\ HistoryOK(p, k, t)
             /\ Empties(g, t) /\ Empties(k, t) /\ Newest(k).id = Newest(g).id
             /\ Installed(k, d, t) = Installed(g, d, t)
             /\ OnRecord(k, d, t) = OnRecord(g, d, t)
<1> DEFINE g == Installed(h, a, t)
           k == Installed(h, b, t)
           start == ChainStart(h, a, t)
<1>1. HoldEnd(h, a, t) > t
  BY DroppedWasInstalled
<1>2. ChainStart(h, b, t) = start
  BY DEF ChainStart, Renews
<1>3. HoldEnd(h, b, t) > t
  <2>1. HoldEnd(h, a, t) = Smaller(t + a.hold, start + HoldMax)
    BY DEF HoldEnd
  <2>2. HoldEnd(h, b, t) = Smaller(t + b.hold, start + HoldMax)
    BY <1>2 DEF HoldEnd
  <2>3. start \in 0 .. t
    BY HoldEndBounded
  <2>4. a.hold \in 1 .. HoldMax /\ b.hold \in 1 .. HoldMax /\ HoldMax \in Nat
    BY OverrideAssumption DEF Directive
  <2> HIDE DEF start
  <2> QED BY <1>1, <2>1, <2>2, <2>3, <2>4 DEF Smaller
<1>4. /\ HistoryOK(p, g, t) /\ g # {} /\ g \ {Newest(g)} = Supersede(h, t)
      /\ Newest(g).phase = a.phase /\ Newest(g).until > t /\ Newest(g).id = a.id
      /\ Newest(g).chainStart = start /\ Empties(g, t)
  BY <1>1, InstalledParts
<1>5. /\ HistoryOK(p, k, t) /\ k # {} /\ k \ {Newest(k)} = Supersede(h, t)
      /\ Newest(k).phase = a.phase /\ Newest(k).until > t /\ Newest(k).id = a.id
      /\ Newest(k).chainStart = start /\ Empties(k, t)
  BY <1>2, <1>3, InstalledParts
<1> HIDE DEF g, k, start
<1>6. Newest(g).until \in Nat /\ Newest(k).until \in Nat
  BY <1>4, <1>5, DroppedIsFresh DEF Override
<1>7. ChainStart(k, d, t) = ChainStart(g, d, t)
  <2>1. Newest(g).until >= t /\ Newest(k).until >= t
    BY <1>4, <1>5, <1>6
  <2> HIDE DEF Newest
  <2> QED BY <1>4, <1>5, <2>1 DEF ChainStart, Renews
<1>8. HoldEnd(k, d, t) = HoldEnd(g, d, t)
  BY <1>7 DEF HoldEnd
<1>9. HoldEnd(g, d, t) > t
  <2>1. HoldEnd(g, d, t) \in Nat /\ (HoldEnd(g, d, t) <= t => Newest(g).until = t)
    BY <1>4, HoldEndBounded
  <2> QED BY <2>1, <1>4, <1>6
<1>10. Supersede(k, t) = Supersede(g, t)
  BY <1>4, <1>5 DEF Supersede
<1>11. Installed(k, d, t) = Installed(g, d, t)
  BY <1>7, <1>8, <1>9, <1>10 DEF Installed
<1>12. OnRecord(k, d, t) = OnRecord(g, d, t)
  BY <1>8 DEF OnRecord, Enforced
<1> QED BY <1>4, <1>5, <1>11, <1>12 DEF g, k

\* The two parts of a state of a replay after a verb.
LEMMA VerbParts ==
  ASSUME NEW t \in Nat, NEW n \in Nat, NEW acc, Good(t, n, acc),
         NEW d \in Directive(0 .. HoldMax)
  PROVE  LET h == acc.ov[d.signal]
             after == ReplayVerb(t, acc, d)
         IN  /\ d.signal \in Program /\ HistoryOK(d.signal, h, t)
             /\ after.ov = [acc.ov EXCEPT ![d.signal] = Installed(h, Again(d), t)]
             /\ after.rec = Append(Stamped(acc.rec, h, t), OnRecord(h, Again(d), t))
             /\ OnRecord(h, Again(d), t) \in Directive(0 .. HoldMax)
<1> DEFINE h == acc.ov[d.signal]
<1>1. d.signal \in Program /\ Again(d) \in Directive(1 .. HoldMax) /\ Again(d).signal = d.signal
  BY AgainIsVerb
<1>2. HistoryOK(d.signal, h, t)
  BY <1>1 DEF Good
<1>3. OnRecord(h, Again(d), t) \in Directive(0 .. HoldMax)
  <2> HIDE DEF h
  <2> QED BY <1>1, <1>2, AgainSame
<1>4. Recorded(acc.rec, h, Again(d), t) = Append(Stamped(acc.rec, h, t), OnRecord(h, Again(d), t))
  BY RecordedParts
<1> QED BY <1>1, <1>2, <1>3, <1>4 DEF ReplayVerb, Again

\* Two states of replays that differ in the history of p, and in the hold of
\* the verb that did it.
Astray(i, p, b, a) ==
  /\ \A q \in Program : q # p => b.ov[q] = a.ov[q]
  /\ SameButHold(i, b.rec, a.rec)

\* Verbs for others change nothing about that.
LEMMA OthersKeepAstray ==
  ASSUME NEW t \in Nat, NEW n \in Nat, NEW i \in 1 .. n, NEW p \in Program,
         NEW a, NEW b, Good(t, n, a), Good(t, n, b), Astray(i, p, b, a),
         NEW d \in Directive(0 .. HoldMax), d.signal # p
  PROVE  /\ Astray(i, p, ReplayVerb(t, b, d), ReplayVerb(t, a, d))
         /\ ReplayVerb(t, a, d).ov[p] = a.ov[p] /\ ReplayVerb(t, b, d).ov[p] = b.ov[p]
<1> DEFINE s == d.signal
           h == a.ov[s]
           v == Again(d)
           u == ReplayVerb(t, a, d)
           w == ReplayVerb(t, b, d)
<1>1. s \in Program /\ b.ov[s] = h /\ DOMAIN a.ov = Program /\ DOMAIN b.ov = Program
  BY AgainIsVerb DEF Astray, Good
<1>2. /\ u.ov = [a.ov EXCEPT ![s] = Installed(h, v, t)]
      /\ u.rec = Append(Stamped(a.rec, h, t), OnRecord(h, v, t))
      /\ OnRecord(h, v, t) \in Directive(0 .. HoldMax)
  BY VerbParts, SMTT(40)
<1>3. /\ w.ov = [b.ov EXCEPT ![s] = Installed(h, v, t)]
      /\ w.rec = Append(Stamped(b.rec, h, t), OnRecord(h, v, t))
  BY <1>1, VerbParts
<1> HIDE DEF h, v, u, w, s
<1>4. SameButHold(i, Stamped(b.rec, h, t), Stamped(a.rec, h, t))
  BY StampsAlike DEF Astray
<1>5. SameButHold(i, w.rec, u.rec)
  BY <1>2, <1>3, <1>4, AppendsAlike
<1>6. \A q \in Program : q # p => w.ov[q] = u.ov[q]
  <2>1. \A q \in Program : q # p => b.ov[q] = a.ov[q]
    BY DEF Astray
  <2> QED BY <1>1, <1>2, <1>3, <2>1
<1>7. u.ov[p] = a.ov[p] /\ w.ov[p] = b.ov[p]
  BY <1>1, <1>2, <1>3 DEF s
<1> QED BY <1>5, <1>6, <1>7 DEF Astray, u, w

\* A verb with another hold leads astray.
LEMMA OtherHoldLeadsAstray ==
  ASSUME NEW t \in Nat, NEW n \in Nat, NEW a, Good(t, n, a),
         NEW d \in Directive(0 .. HoldMax), NEW p, d.signal = p
  PROVE  LET e == Blank(d)
             h == a.ov[p]
         IN  /\ Astray(n + 1, p, ReplayVerb(t, a, e), ReplayVerb(t, a, d))
             /\ ReplayVerb(t, a, d).ov[p] = Installed(h, Again(d), t)
             /\ ReplayVerb(t, a, e).ov[p] = Installed(h, Again(e), t)
<1> DEFINE e == Blank(d)
           h == a.ov[p]
           u == ReplayVerb(t, a, d)
           w == ReplayVerb(t, a, e)
<1>1. e \in Directive(0 .. HoldMax) /\ e.signal = p /\ e.id = d.id /\ e.phase = d.phase
  <2>1. 0 \in 0 .. HoldMax
    BY OverrideAssumption
  <2> QED BY <2>1 DEF Blank, Directive
<1>2. p \in Program /\ HistoryOK(p, h, t) /\ DOMAIN a.ov = Program
  BY AgainIsVerb DEF Good
<1>3. /\ u.ov = [a.ov EXCEPT ![p] = Installed(h, Again(d), t)]
      /\ u.rec = Append(Stamped(a.rec, h, t), OnRecord(h, Again(d), t))
      /\ OnRecord(h, Again(d), t) \in Directive(0 .. HoldMax)
  <2>1. LET g == a.ov[d.signal]
            after == ReplayVerb(t, a, d)
        IN  /\ after.ov = [a.ov EXCEPT ![d.signal] = Installed(g, Again(d), t)]
            /\ after.rec = Append(Stamped(a.rec, g, t), OnRecord(g, Again(d), t))
            /\ OnRecord(g, Again(d), t) \in Directive(0 .. HoldMax)
    BY VerbParts, SMTT(40)
  <2> QED BY <2>1
<1> HIDE DEF e
<1>4. /\ w.ov = [a.ov EXCEPT ![p] = Installed(h, Again(e), t)]
      /\ w.rec = Append(Stamped(a.rec, h, t), OnRecord(h, Again(e), t))
      /\ OnRecord(h, Again(e), t) \in Directive(0 .. HoldMax)
  BY <1>1, VerbParts, SMTT(40)
<1> HIDE DEF h, u, w
<1>5. SameButHold(n + 1, Stamped(a.rec, h, t), Stamped(a.rec, h, t))
  BY StampedType DEF SameButHold, Good
<1>6. OnRecord(h, Again(e), t).id = OnRecord(h, Again(d), t).id
      /\ Blank(OnRecord(h, Again(e), t)) = Blank(OnRecord(h, Again(d), t))
  <2> DEFINE x == Again(e)
             y == Again(d)
  <2>1. x \in Directive(1 .. HoldMax) /\ y \in Directive(1 .. HoldMax)
        /\ x.id = y.id /\ x.signal = y.signal /\ x.phase = y.phase
    BY <1>1, AgainIsVerb
  <2> HIDE DEF x, y
  <2>2. \A k, m : [[x EXCEPT !.hold = k] EXCEPT !.hold = 0] = [[y EXCEPT !.hold = m] EXCEPT !.hold = 0]
    BY <2>1 DEF Directive
  <2>3. \A k, m : [x EXCEPT !.hold = k].id = [y EXCEPT !.hold = m].id
    BY <2>1 DEF Directive
  <2> QED BY <2>2, <2>3 DEF Blank, OnRecord, x, y
<1>7. Len(Stamped(a.rec, h, t)) = n
  BY StampedType DEF Good
<1>8. SameButHold(n + 1, w.rec, u.rec)
  BY <1>3, <1>4, <1>5, <1>6, <1>7, AppendsAlike
<1>9. /\ \A q \in Program : q # p => w.ov[q] = u.ov[q]
      /\ u.ov[p] = Installed(h, Again(d), t) /\ w.ov[p] = Installed(h, Again(e), t)
  BY <1>2, <1>3, <1>4
<1> QED BY <1>8, <1>9 DEF Astray, e, h, u, w

\* Two replays of records that begin with the same m verbs.
LEMMA SameToThere ==
  ASSUME NEW t, NEW before, NEW r, NEW s, Len(r) \in Nat, Len(s) \in Nat,
         NEW X, IsReplay(t, before, r, X), NEW Y, IsReplay(t, before, s, Y),
         NEW m \in Nat, m <= Len(r), m <= Len(s), \A j \in 1 .. m : s[j] = r[j]
  PROVE  \A j \in 0 .. m : Y[j] = X[j]
<1> DEFINE f == [j \in 0 .. m |-> IF Y[j] = X[j] THEN 1 ELSE 0]
<1>1. X[0] = Y[0]
  <2>1. X[0] = Started(before)
    BY ReplaySteps
  <2>2. Y[0] = Started(before)
    BY ReplaySteps
  <2> QED BY <2>1, <2>2
<1>2. \A j \in 1 .. m : /\ X[j] = ReplayVerb(t, X[j - 1], r[j])
                        /\ Y[j] = ReplayVerb(t, Y[j - 1], s[j])
  <2> TAKE j \in 1 .. m
  <2>1. j \in 1 .. Len(r) /\ j \in 1 .. Len(s)
    OBVIOUS
  <2> QED BY <2>1, ReplaySteps
<1>3. f[0] \in {1} /\ \A j \in 1 .. m : f[j - 1] \in {1} => f[j] \in {1}
  <2>1. f[0] = 1
    BY <1>1
  <2>2. ASSUME NEW j \in 1 .. m, f[j - 1] = 1 PROVE f[j] = 1
    <3>1. j - 1 \in 0 .. m
      OBVIOUS
    <3>2. Y[j - 1] = X[j - 1]
      BY <2>2, <3>1
    <3>3. Y[j] = X[j]
      BY <1>2, <3>2
    <3> QED BY <3>3
  <2> QED BY <2>1, <2>2
<1>4. \A j \in 0 .. m : f[j] \in {1}
  <2> HIDE DEF f
  <2> QED BY ONLY <1>3, KeptByWalk, m \in Nat
<1> QED BY <1>4

\* Where the verb at i has lost its hold and no later one is for its program,
\* the replay differs from i on in that program and that hold only.
LEMMA AstrayToTheEnd ==
  ASSUME NEW t \in Nat, NEW before, DOMAIN before = Program,
         \A q \in Program : HistoryOK(q, before[q], t),
         NEW r \in Records, NEW s \in Records, Len(s) = Len(r) + 1,
         NEW X, IsReplay(t, before, r, X), NEW Y, IsReplay(t, before, s, Y),
         NEW i \in 1 .. Len(r), s[i] = Blank(r[i]),
         \A j \in 1 .. Len(r) : j # i => s[j] = r[j],
         \A j \in 1 .. Len(r) : j > i => r[j].signal # r[i].signal
  PROVE  LET p == r[i].signal
             N == Len(r)
             h == X[i - 1].ov[p]
         IN  /\ Astray(i, p, Y[N], X[N])
             /\ HistoryOK(p, h, t)
             /\ X[N].ov[p] = Installed(h, Again(r[i]), t)
             /\ Y[N].ov[p] = Installed(h, Again(s[i]), t)
<1> DEFINE p == r[i].signal
           N == Len(r)
           h == X[i - 1].ov[p]
           Same(j) == /\ Astray(i, p, Y[j], X[j])
                      /\ X[j].ov[p] = Installed(h, Again(r[i]), t)
                      /\ Y[j].ov[p] = Installed(h, Again(s[i]), t)
           f == [j \in 0 .. N |-> IF j < i \/ Same(j) THEN 1 ELSE 0]
<1>0. N \in Nat /\ Len(s) \in Nat /\ i \in 1 .. N
      /\ \A j \in 1 .. N : r[j] \in Directive(0 .. HoldMax) /\ s[j] \in Directive(0 .. HoldMax)
  BY DEF Records
<1>1. \A j \in 0 .. N : Good(t, j, X[j]) /\ Good(t, j, Y[j])
  <2>1. \A j \in 0 .. Len(r) : Good(t, j, X[j])
    BY ReplayIsGood
  <2>2. \A j \in 0 .. Len(s) : Good(t, j, Y[j])
    BY ReplayIsGood
  <2> QED BY <1>0, <2>1, <2>2
<1>2. \A j \in 1 .. N : /\ X[j] = ReplayVerb(t, X[j - 1], r[j])
                        /\ Y[j] = ReplayVerb(t, Y[j - 1], s[j])
  <2> TAKE j \in 1 .. N
  <2>1. j \in 1 .. Len(r) /\ j \in 1 .. Len(s)
    BY <1>0
  <2> QED BY <1>0, <2>1, ReplaySteps
<1>3. i - 1 \in 0 .. N /\ i - 1 \in Nat /\ (i - 1) + 1 = i
  BY <1>0
<1>4. Y[i - 1] = X[i - 1]
  <2>1. \A j \in 1 .. i - 1 : s[j] = r[j]
    BY <1>0
  <2>2. i - 1 <= Len(r) /\ i - 1 <= Len(s)
    BY <1>0
  <2>3. \A j \in 0 .. i - 1 : Y[j] = X[j]
    <3> DEFINE m == i - 1
    <3>1. /\ m \in Nat /\ m <= Len(r) /\ m <= Len(s) /\ Len(r) \in Nat /\ Len(s) \in Nat
          /\ \A j \in 1 .. m : s[j] = r[j]
      BY <1>0, <1>3, <2>1, <2>2
    <3> HIDE DEF m, p, h, f, Same
    <3>2. \A j \in 0 .. m : Y[j] = X[j]
      BY <3>1, SameToThere, SMTT(40)
    <3> QED BY <3>2 DEF m
  <2> QED BY <1>3, <2>3
<1>5. p \in Program /\ HistoryOK(p, h, t)
  <2>1. p \in Program
    BY <1>0, AgainIsVerb
  <2> QED BY <1>1, <1>3, <2>1 DEF Good
<1>6. Same(i)
  <2> DEFINE a == X[i - 1]
             d == r[i]
  <2>1. Good(t, i - 1, a) /\ d \in Directive(0 .. HoldMax)
    BY <1>0, <1>1, <1>3
  <2>2. X[i] = ReplayVerb(t, a, d) /\ Y[i] = ReplayVerb(t, a, Blank(d))
    BY <1>0, <1>2, <1>4
  <2> HIDE DEF a, d
  <2>3. d.signal = p
    BY DEF d
  <2> HIDE DEF p
  <2>4. /\ Astray((i - 1) + 1, p, ReplayVerb(t, a, Blank(d)), ReplayVerb(t, a, d))
        /\ ReplayVerb(t, a, d).ov[p] = Installed(a.ov[p], Again(d), t)
        /\ ReplayVerb(t, a, Blank(d)).ov[p] = Installed(a.ov[p], Again(Blank(d)), t)
    BY <1>3, <2>1, <2>3, OtherHoldLeadsAstray
  <2> QED BY <1>3, <2>2, <2>4 DEF a, d
<1>7. ASSUME NEW j \in 1 .. N, j > i, Same(j - 1) PROVE Same(j)
  <2> DEFINE a == X[j - 1]
             b == Y[j - 1]
             d == r[j]
             n == j - 1
  <2>1. n \in Nat /\ i \in 1 .. n /\ n \in 0 .. N
    BY <1>0, <1>7
  <2>2. Good(t, n, a) /\ Good(t, n, b) /\ d \in Directive(0 .. HoldMax) /\ d.signal # p
    BY <1>0, <1>1, <1>7, <2>1
  <2>3. X[j] = ReplayVerb(t, a, d) /\ Y[j] = ReplayVerb(t, b, d)
    BY <1>0, <1>2, <1>7
  <2>4. Astray(i, p, b, a) /\ a.ov[p] = Installed(h, Again(r[i]), t)
        /\ b.ov[p] = Installed(h, Again(s[i]), t)
    BY <1>7
  <2> HIDE DEF a, b, d, n, p, h
  <2>5. /\ Astray(i, p, ReplayVerb(t, b, d), ReplayVerb(t, a, d))
        /\ ReplayVerb(t, a, d).ov[p] = a.ov[p] /\ ReplayVerb(t, b, d).ov[p] = b.ov[p]
    BY <1>5, <2>1, <2>2, <2>4, OthersKeepAstray
  <2> QED BY <2>3, <2>4, <2>5
<1> HIDE DEF Same
<1>8. f[0] \in {1} /\ \A j \in 1 .. N : f[j - 1] \in {1} => f[j] \in {1}
  <2>1. f[0] = 1
    BY <1>0
  <2>2. ASSUME NEW j \in 1 .. N, f[j - 1] = 1 PROVE f[j] = 1
    <3>1. j - 1 \in 0 .. N /\ j \in 0 .. N
      BY <1>0
    <3>2. j - 1 < i \/ Same(j - 1)
      BY <2>2, <3>1
    <3>3. CASE j < i
      BY <3>1, <3>3
    <3>4. CASE j = i
      BY <3>1, <3>4, <1>6
    <3>5. CASE j > i
      <4>1. Same(j)
        BY <1>0, <1>7, <3>2, <3>5
      <4> QED BY <3>1, <4>1
    <3> QED BY <1>0, <3>3, <3>4, <3>5
  <2> QED BY <2>1, <2>2
<1> HIDE DEF N
<1>9. \A j \in 0 .. N : f[j] \in {1}
  <2> HIDE DEF f
  <2> QED BY ONLY <1>0, <1>8, KeptByWalk
<1>10. Same(N)
  <2>1. N \in 0 .. N /\ ~(N < i)
    BY <1>0
  <2>2. f[N] = 1
    BY <1>9, <2>1
  <2> QED BY <2>1, <2>2
<1> QED BY <1>5, <1>10 DEF Same, N

\* The verb that installed an entry of this tick is the last one for its program.
LastVerb(t, ov, recs) ==
  \A p \in Program : \A o \in ov[p] : \A i \in DOMAIN recs :
    o.since = t /\ recs[i].id = o.id =>
      /\ recs[i].signal = p
      /\ \A j \in DOMAIN recs : j > i => recs[j].signal # p

\* Replaying the verbs of a tick so far leads where the run is.
Replays(t, before, recs, ov) ==
  \E X : IsReplay(t, before, recs, X) /\ X[Len(recs)] = [ov |-> ov, rec |-> recs]

LEMMA InstallReplays ==
  ASSUME NEW t \in Nat, NEW before, DOMAIN before = Program,
         \A q \in Program : HistoryOK(q, before[q], t),
         NEW ov, NEW recs \in Records, Replays(t, before, recs, ov),
         DOMAIN ov = Program, \A q \in Program : HistoryOK(q, ov[q], t),
         LastVerb(t, ov, recs), NEW d \in Directive(1 .. HoldMax)
  PROVE  LET p == d.signal
             h == ov[p]
         IN  Replays(t, before, Recorded(recs, h, d, t), [ov EXCEPT ![p] = Installed(h, d, t)])
<1> DEFINE p == d.signal
           h == ov[p]
           r == OnRecord(h, d, t)
           u == Stamped(recs, h, t)
           s == Recorded(recs, h, d, t)
           N == Len(recs)
           next == [ov |-> [ov EXCEPT ![p] = Installed(h, d, t)], rec |-> s]
<1>0. p \in Program /\ HistoryOK(p, h, t) /\ N \in Nat
  BY DEF Directive, Records
<1>1. PICK X : IsReplay(t, before, recs, X) /\ X[N] = [ov |-> ov, rec |-> recs]
  BY DEF Replays
<1>2. /\ r \in Directive(0 .. HoldMax)
      /\ Installed(h, Again(r), t) = Installed(h, d, t)
      /\ \A rec : Recorded(rec, h, Again(r), t) = Recorded(rec, h, d, t)
  <2> HIDE DEF h, p
  <2>1. d.signal = p
    BY DEF p
  <2> QED BY <1>0, <2>1, AgainSame
<1>3. r.signal = p
  BY DEF OnRecord, Directive
<1>4. u \in Records /\ Len(u) = N /\ s = Append(u, r)
  <2> HIDE DEF h
  <2> QED BY StampedType, RecordedParts
<1>5. s \in Records /\ Len(s) = N + 1 /\ s[N + 1] = r /\ \A j \in 1 .. N : s[j] = u[j]
  <2> HIDE DEF u, r, s, N
  <2> QED BY <1>0, <1>2, <1>4 DEF Records
<1>6. PICK Y : IsReplay(t, before, s, Y)
  <2>1. Len(s) \in Nat
    BY <1>0, <1>5
  <2> HIDE DEF s
  <2> QED BY <2>1, ReplayIsWalk
<1>7. Y[N + 1] = ReplayVerb(t, Y[N], r) /\ N + 1 \in Nat
  <2> HIDE DEF s, r, N
  <2>1. Len(s) \in Nat /\ N + 1 \in 1 .. Len(s) /\ (N + 1) - 1 = N
    BY <1>0, <1>5
  <2>2. Y[N + 1] = ReplayVerb(t, Y[(N + 1) - 1], s[N + 1])
    BY <1>6, <2>1, ReplaySteps
  <2> QED BY <1>0, <1>5, <2>1, <2>2
<1> DEFINE g == Y[N].ov[p]
<1>8. Y[N + 1] = [ov |-> [Y[N].ov EXCEPT ![p] = Installed(g, Again(r), t)],
                  rec |-> Recorded(Y[N].rec, g, Again(r), t)]
  <2> HIDE DEF r, N
  <2> QED BY <1>3, <1>7 DEF ReplayVerb, Again
<1>9. SUFFICES Y[N + 1] = next
  <2>1. IsReplay(t, before, s, Y) /\ Y[Len(s)] = next
    BY <1>5, <1>6, <1>9
  <2> DEFINE after == [ov EXCEPT ![p] = Installed(h, d, t)]
  <2>2. next = [ov |-> after, rec |-> s]
    OBVIOUS
  <2> HIDE DEF s, next, after
  <2>3. Replays(t, before, s, after)
    BY <2>1, <2>2 DEF Replays
  <2> QED BY <2>3 DEF s, after
<1>10. CASE Stamp(recs, h, t) = {}
  <2>1. \A j \in 1 .. N : s[j] = recs[j]
    <3>1. DOMAIN recs = 1 .. N
      BY DEF Records
    <3>2. \A j \in 1 .. N : u[j] = recs[j]
      BY <1>10, <3>1 DEF Stamped
    <3> HIDE DEF u, s
    <3> QED BY <1>5, <3>2
  <2>2. Y[N] = X[N]
    <3> HIDE DEF s
    <3>1. Len(s) \in Nat /\ N <= Len(recs) /\ N <= Len(s)
      BY <1>0, <1>5
    <3> HIDE DEF N, next, u, r, h, p, g
    <3>2. \A j \in 0 .. N : Y[j] = X[j]
      <4>1. Len(recs) \in Nat
        BY <1>0 DEF N
      <4>2. IsReplay(t, before, recs, X) /\ IsReplay(t, before, s, Y) /\ N \in Nat
        BY <1>0, <1>1, <1>6
      <4> QED BY ONLY <2>1, <3>1, <4>1, <4>2, SameToThere, SMTT(120)
    <3> QED BY <1>0, <3>2
  <2>3. Y[N].ov = ov /\ Y[N].rec = recs /\ g = h
    BY <1>1, <2>2
  <2> HIDE DEF r, N
  <2> QED BY <1>2, <1>8, <2>3
<1>11. CASE Stamp(recs, h, t) # {}
  <2>1. PICK i \in Stamp(recs, h, t) : TRUE
    BY <1>11
  <2>2. /\ i \in 1 .. N /\ Empties(h, t) /\ recs[i].id = Newest(h).id
        /\ \A j \in Stamp(recs, h, t) : j = i
    BY <2>1 DEF Stamp, Dropped, Records
  <2>3. recs[i].signal = p /\ \A j \in 1 .. N : j > i => recs[j].signal # p
    <3>1. Newest(h) \in h /\ Newest(h).since = t
      BY <1>0, <2>2, DroppedIsFresh
    <3>2. DOMAIN recs = 1 .. N
      BY DEF Records
    <3> QED BY <1>0, <2>2, <3>1, <3>2 DEF LastVerb
  <2>4. s[i] = Blank(recs[i]) /\ \A j \in 1 .. N : j # i => s[j] = recs[j]
    <3>1. DOMAIN recs = 1 .. N
      BY DEF Records
    <3>2. \A j \in 1 .. N : u[j] = IF j = i THEN Blank(recs[j]) ELSE recs[j]
      BY <2>1, <2>2, <3>1 DEF Stamped
    <3> HIDE DEF u, s
    <3> QED BY <1>5, <2>2, <3>2
  <2> DEFINE k == X[i - 1].ov[p]
             a == Again(recs[i])
             b == Again(s[i])
  <2>5. /\ Astray(i, p, Y[N], X[N]) /\ HistoryOK(p, k, t)
        /\ X[N].ov[p] = Installed(k, a, t)
        /\ Y[N].ov[p] = Installed(k, b, t)
    <3> HIDE DEF s, p
    <3> QED BY <1>1, <1>5, <1>6, <2>2, <2>3, <2>4, AstrayToTheEnd, SMTT(40)
  <2>6. h = Installed(k, a, t) /\ g = Installed(k, b, t)
    BY <1>1, <2>5
  <2>7. /\ a \in Directive(1 .. HoldMax) /\ a.signal = p
        /\ b \in Directive(1 .. HoldMax) /\ b.signal = p /\ b.id = a.id /\ b.phase = a.phase
    <3>1. recs[i] \in Directive(0 .. HoldMax) /\ s[i] \in Directive(0 .. HoldMax)
      <4> HIDE DEF s
      <4>1. i \in 1 .. Len(recs) /\ i \in 1 .. Len(s)
        BY <1>0, <1>5, <2>2
      <4> QED BY <1>5, <4>1 DEF Records
    <3>2. s[i].id = recs[i].id /\ s[i].signal = recs[i].signal /\ s[i].phase = recs[i].phase
      <4> HIDE DEF s
      <4> QED BY <2>4, <3>1 DEF Blank, Directive
    <3> HIDE DEF s
    <3> QED BY <2>3, <3>1, <3>2, AgainIsVerb
  <2> HIDE DEF a, b, k
  <2>8. /\ Empties(h, t) /\ Empties(g, t) /\ Newest(g).id = Newest(h).id
        /\ HistoryOK(p, g, t)
        /\ Installed(g, d, t) = Installed(h, d, t)
        /\ OnRecord(g, d, t) = OnRecord(h, d, t)
    <3> HIDE DEF h, g
    <3> QED BY <1>0, <2>2, <2>5, <2>6, <2>7, DroppedAlike
  <2>9. r = OnRecord(g, d, t)
    BY <2>8
  <2>10. /\ Installed(g, Again(r), t) = Installed(h, d, t)
         /\ \A rec : Recorded(rec, g, Again(r), t) = Recorded(rec, g, d, t)
    <3>1. d.signal = p
      OBVIOUS
    <3> HIDE DEF g, h, r, p
    <3>2. /\ Installed(g, Again(OnRecord(g, d, t)), t) = Installed(g, d, t)
          /\ \A rec : Recorded(rec, g, Again(OnRecord(g, d, t)), t) = Recorded(rec, g, d, t)
      BY <1>0, <2>8, <3>1, AgainSame
    <3> QED BY <2>8, <2>9, <3>2
  <2>11. Recorded(Y[N].rec, g, d, t) = s
    <3>1. SameButHold(i, Y[N].rec, recs)
      BY <1>1, <2>5 DEF Astray
    <3>2. Stamped(Y[N].rec, g, t) = Stamped(recs, h, t)
      <4> HIDE DEF g, h
      <4> QED BY <2>1, <2>8, <3>1, StampsAlike
    <3>3. Recorded(Y[N].rec, g, d, t) = Append(Stamped(Y[N].rec, g, t), OnRecord(g, d, t))
      BY RecordedParts
    <3> HIDE DEF g, s
    <3> QED BY <1>4, <2>9, <3>2, <3>3 DEF s
  <2>12. [Y[N].ov EXCEPT ![p] = Installed(h, d, t)] = [ov EXCEPT ![p] = Installed(h, d, t)]
    <3>1. DOMAIN Y[N].ov = Program
      <4>1. N \in 0 .. Len(s)
        BY <1>0, <1>5
      <4>2. Good(t, N, Y[N])
        <5> HIDE DEF s
        <5> QED BY <1>5, <1>6, <4>1, ReplayIsGood
      <4> QED BY <4>2 DEF Good
    <3>2. \A q \in Program : q # p => Y[N].ov[q] = ov[q]
      BY <1>1, <2>5 DEF Astray
    <3> DEFINE z == Installed(h, d, t)
               y == Y[N].ov
    <3> HIDE DEF h, z, p, y
    <3>3. [y EXCEPT ![p] = z] = [ov EXCEPT ![p] = z]
      BY <3>1, <3>2 DEF y
    <3> QED BY <3>3 DEF y, z, p, h
  <2> HIDE DEF r, N, g, h, p, s
  <2> QED BY <1>8, <2>10, <2>11, <2>12
<1> QED BY <1>10, <1>11

\* The ids of a history after a verb, and which entry began with it.
LEMMA InstalledIds ==
  ASSUME NEW p \in Program, NEW t \in Nat, NEW h, HistoryOK(p, h, t),
         NEW d \in Directive(1 .. HoldMax), d.signal = p
  PROVE  \A o \in Installed(h, d, t) : /\ o.id = d.id \/ \E q \in h : q.id = o.id
                                       /\ o.since = t => o.id = d.id
<1> DEFINE n == Newest(h)
           x == Outgoing(h, t)
           e == [phase |-> d.phase, since |-> t, until |-> HoldEnd(h, d, t),
                 chainStart |-> ChainStart(h, d, t), id |-> d.id]
<1>1. h # {} => n \in h /\ x.id = n.id
  BY OutgoingShape
<1>2. \A o \in Truncated(h, t) : \E q \in h : q.id = o.id
  <2> HIDE DEF n, x
  <2> QED BY <1>1 DEF Truncated, n, x
<1>3. \A o \in Supersede(h, t) : (\E q \in h : q.id = o.id) /\ o.since # t
  <2>1. \A o \in Supersede(h, t) : \E q \in h : q.id = o.id
    BY <1>2 DEF Supersede
  <2>2. \A o \in Supersede(h, t) : o.since < o.until /\ o.until <= t /\ o.since \in Nat /\ o.until \in Nat
    BY SupersedeOK DEF HistoryOK, EntryOK, Override
  <2> QED BY <2>1, <2>2
<1>4. CASE HoldEnd(h, d, t) > t
  <2>1. Installed(h, d, t) = Supersede(h, t) \union {e} /\ e.id = d.id
    BY <1>4 DEF Installed
  <2> HIDE DEF e
  <2> QED BY <1>3, <2>1
<1>5. CASE ~(HoldEnd(h, d, t) > t)
  <2>1. Renews(h, d, t) /\ n.until = t /\ Installed(h, d, t) = Truncated(h, t)
    <3>1. HoldEnd(h, d, t) \in Nat
      BY HoldEndBounded
    <3> QED BY <1>5, <3>1, HoldEndBounded DEF Installed
  <2>2. h # {} /\ n \in h /\ n \in Override(p) /\ EntryOK(n, t)
        /\ \A o \in h : o # n => o.until <= n.since
    BY <2>1, NewestExists DEF Renews, HistoryOK
  <2>3. x = n
    <3> HIDE DEF n
    <3> QED BY <2>1, <2>2 DEF Outgoing, Smaller, Override, n
  <2>4. Truncated(h, t) = h
    <3> HIDE DEF n, x
    <3> QED BY <2>2, <2>3 DEF Truncated, n, x
  <2>5. \A o \in h : o.since # t
    <3> TAKE o \in h
    <3>1. o \in Override(p) /\ EntryOK(o, t)
      BY DEF HistoryOK
    <3> HIDE DEF n
    <3> QED BY <2>1, <2>2, <3>1 DEF EntryOK, Override
  <2> QED BY <1>2, <2>1, <2>4, <2>5
<1> QED BY <1>4, <1>5

\* The ids on the record after a verb.
LEMMA RecordedIds ==
  ASSUME NEW p \in Program, NEW t \in Nat, NEW h, HistoryOK(p, h, t),
         NEW d \in Directive(1 .. HoldMax), d.signal = p, NEW recs \in Records
  PROVE  LET s == Recorded(recs, h, d, t)
             N == Len(recs)
         IN  /\ s \in Records /\ Len(s) = N + 1 /\ N \in Nat
             /\ s[N + 1].id = d.id /\ s[N + 1].signal = p
             /\ \A j \in 1 .. N : s[j].id = recs[j].id /\ s[j].signal = recs[j].signal
<1> DEFINE r == OnRecord(h, d, t)
           u == Stamped(recs, h, t)
           s == Recorded(recs, h, d, t)
           N == Len(recs)
<1>1. N \in Nat /\ DOMAIN recs = 1 .. N /\ \A j \in 1 .. N : recs[j] \in Directive(0 .. HoldMax)
  BY DEF Records
<1>2. r \in Directive(0 .. HoldMax)
  BY AgainSame
<1>3. u \in Records /\ Len(u) = N /\ s = Append(u, r)
  BY StampedType, RecordedParts
<1>4. s \in Records /\ Len(s) = N + 1 /\ s[N + 1] = r /\ \A j \in 1 .. N : s[j] = u[j]
  <2> HIDE DEF u, r, s, N
  <2> QED BY <1>1, <1>2, <1>3 DEF Records
<1>5. r.id = d.id /\ r.signal = p
  BY DEF OnRecord, Directive
<1>6. ASSUME NEW j \in 1 .. N PROVE u[j].id = recs[j].id /\ u[j].signal = recs[j].signal
  <2>1. u[j] = recs[j] \/ u[j] = Blank(recs[j])
    BY <1>1 DEF Stamped
  <2>2. Blank(recs[j]).id = recs[j].id /\ Blank(recs[j]).signal = recs[j].signal
    BY <1>1 DEF Blank, Directive
  <2> HIDE DEF u
  <2> QED BY <2>1, <2>2
<1> HIDE DEF s, u, r
<1> QED BY <1>1, <1>4, <1>5, <1>6 DEF s

\* The verb just installed is the last one for its program.
LEMMA LastVerbInstalled ==
  ASSUME NEW t \in Nat, NEW ov, DOMAIN ov = Program,
         \A q \in Program : HistoryOK(q, ov[q], t),
         NEW recs \in Records, LastVerb(t, ov, recs),
         NEW d \in Directive(1 .. HoldMax),
         \A q \in Program : \A o \in ov[q] : o.id # d.id,
         \A i \in 1 .. Len(recs) : recs[i].id # d.id
  PROVE  LET p == d.signal
             h == ov[p]
         IN  LastVerb(t, [ov EXCEPT ![p] = Installed(h, d, t)], Recorded(recs, h, d, t))
<1> DEFINE p == d.signal
           h == ov[p]
           g == Installed(h, d, t)
           after == [ov EXCEPT ![p] = g]
           s == Recorded(recs, h, d, t)
           N == Len(recs)
<1>1. p \in Program /\ HistoryOK(p, h, t)
  BY DEF Directive
<1>2. /\ s \in Records /\ Len(s) = N + 1 /\ N \in Nat
      /\ s[N + 1].id = d.id /\ s[N + 1].signal = p
      /\ \A j \in 1 .. N : s[j].id = recs[j].id /\ s[j].signal = recs[j].signal
  <2> HIDE DEF h
  <2> QED BY <1>1, RecordedIds
<1>3. \A o \in g : o.since = t => o.id = d.id
  <2> HIDE DEF h
  <2> QED BY <1>1, InstalledIds
<1>4. after[p] = g /\ \A q \in Program : q # p => after[q] = ov[q]
  BY <1>1
<1>5. DOMAIN s = 1 .. N + 1 /\ DOMAIN recs = 1 .. N
  BY <1>2 DEF Records
<1> HIDE DEF s, g, N, after, p, h
<1>6. ASSUME NEW q \in Program, NEW o \in after[q], NEW i \in 1 .. N + 1,
             o.since = t, s[i].id = o.id
      PROVE  s[i].signal = q /\ \A j \in 1 .. N + 1 : j > i => s[j].signal # q
  <2>1. CASE q = p
    <3>1. o.id = d.id
      BY <1>3, <1>4, <1>6, <2>1
    <3>2. i = N + 1
      <4>1. i \notin 1 .. N
        BY <1>2, <1>6, <3>1 DEF N
      <4> QED BY <1>2, <4>1
    <3> QED BY <1>2, <2>1, <3>2
  <2>2. CASE q # p
    <3>1. o \in ov[q]
      BY <1>4, <2>2
    <3>2. i # N + 1
      BY <1>2, <1>6, <3>1
    <3>3. i \in 1 .. N
      BY <1>2, <3>2
    <3>4. recs[i].signal = q /\ \A j \in 1 .. N : j > i => recs[j].signal # q
      <4>1. recs[i].id = o.id
        BY <1>2, <1>6, <3>3
      <4> QED BY <1>5, <1>6, <3>1, <3>3, <4>1 DEF LastVerb
    <3>5. ASSUME NEW j \in 1 .. N + 1, j > i PROVE s[j].signal # q
      <4>1. CASE j = N + 1
        BY <4>1, <1>2, <2>2
      <4>2. CASE j # N + 1
        <5>1. j \in 1 .. N
          BY <1>2, <4>2
        <5> QED BY <5>1, <1>2, <3>4, <3>5
      <4> QED BY <4>1, <4>2
    <3> QED BY <1>2, <3>3, <3>4, <3>5
  <2> QED BY <2>1, <2>2
<1>7. LastVerb(t, after, s)
  BY <1>5, <1>6 DEF LastVerb
<1> QED BY <1>7 DEF after, s, g, h, p

\* No id is used twice while anything still goes by it.
Fresh ==
  \A a \in DOMAIN sigNew :
    /\ \A b \in DOMAIN sigNew : a # b => sigNew[a].id # sigNew[b].id
    /\ \A p \in Program : \A o \in sigOv[p] : o.id # sigNew[a].id
    /\ \A i \in DOMAIN appliedSig : appliedSig[i].id # sigNew[a].id

\* Within a Step a replay of the verbs applied so far is where the run is.
Replayable ==
  /\ Fresh
  /\ pc = "between" => appliedSig = <<>>
  /\ pc = "install" =>
       /\ \A p \in Program : HistoryOK(p, ovBefore[p], tick)
       /\ LastVerb(tick, sigOv, appliedSig)
       /\ Replays(tick, ovBefore, appliedSig, sigOv)
  /\ ReplayReproduces

LEMMA InitReplayable == Init => Replayable
BY DEF Init, Replayable, Fresh, ReplayReproduces

LEMMA EnqueueReplayable ==
  ASSUME IInv, Replayable, NEW id \in RequestId, NEW p \in Program, NEW hold \in Nat,
         NEW ph \in Phases(p), EnqueueSignal(id, p, ph, hold)
  PROVE  Replayable'
<1> DEFINE d == [id |-> id, signal |-> p, phase |-> ph, hold |-> EffectiveHold(p, hold)]
           N == Len(sigNew)
<1>1. /\ pc = "between" /\ id \notin LiveIds /\ sigNew' = Append(sigNew, d)
      /\ UNCHANGED <<tick, pc, sigOv, appliedSig, sigLapses, shown, heldFor, ovBefore>>
  BY DEF EnqueueSignal
<1>2. appliedSig = <<>> /\ sigNew \in Seq(Directive(1 .. HoldMax))
  BY <1>1 DEF Replayable, IInv, TypeOK
<1>3. \A a \in 1 .. N : sigNew[a].id # id
  BY <1>1, <1>2 DEF LiveIds, ToSet
<1>4. \A q \in Program : \A o \in sigOv[q] : o.id # id
  BY <1>1 DEF LiveIds
<1>5. DOMAIN sigNew = 1 .. N /\ N \in Nat
  BY <1>2
<1>6. /\ DOMAIN sigNew' = 1 .. N + 1 /\ sigNew'[N + 1].id = id
      /\ \A a \in 1 .. N : sigNew'[a] = sigNew[a]
  <2>1. d.id = id
    OBVIOUS
  <2>2. d \in Directive(1 .. HoldMax)
    <3>1. ph \in Nat /\ EffectiveHold(p, hold) \in 1 .. HoldMax
      BY EffectiveHoldBounded DEF Phases
    <3> QED BY <3>1 DEF Directive
  <2> HIDE DEF d, N
  <2>3. DOMAIN sigNew' = 1 .. N + 1 /\ sigNew'[N + 1] = d
        /\ \A a \in 1 .. N : sigNew'[a] = sigNew[a]
    BY <1>1, <1>2, <2>2 DEF N
  <2> QED BY <2>1, <2>3
<1> HIDE DEF N, d
<1>7. Fresh'
  <2> SUFFICES ASSUME NEW a \in 1 .. N + 1
               PROVE  /\ \A b \in 1 .. N + 1 : a # b => sigNew'[a].id # sigNew'[b].id
                      /\ \A q \in Program : \A o \in sigOv[q] : o.id # sigNew'[a].id
    <3>1. sigOv' = sigOv /\ appliedSig' = <<>> /\ DOMAIN sigNew' = 1 .. N + 1
      BY <1>1, <1>2, <1>6
    <3>2. \A i \in DOMAIN <<>> : FALSE
      OBVIOUS
    <3> QED BY Zenon, <3>1, <3>2 DEF Fresh
  <2>1. \A b \in 1 .. N : /\ \A c \in 1 .. N : b # c => sigNew[b].id # sigNew[c].id
                          /\ \A q \in Program : \A o \in sigOv[q] : o.id # sigNew[b].id
    BY <1>5 DEF Replayable, Fresh
  <2>2. CASE a = N + 1
    <3>1. \A b \in 1 .. N + 1 : a # b => b \in 1 .. N
      BY <1>5, <2>2
    <3> QED BY <1>3, <1>4, <1>6, <2>2, <3>1
  <2>3. CASE a # N + 1
    <3>1. a \in 1 .. N
      BY <1>5, <2>3
    <3>2. ASSUME NEW b \in 1 .. N + 1, a # b PROVE sigNew'[a].id # sigNew'[b].id
      <4>1. CASE b = N + 1
        BY <1>3, <1>6, <3>1, <4>1
      <4>2. CASE b # N + 1
        <5>1. b \in 1 .. N
          BY <1>5, <4>2
        <5> QED BY <1>6, <2>1, <3>1, <3>2, <5>1
      <4> QED BY <4>1, <4>2
    <3> QED BY <1>6, <2>1, <3>1, <3>2
  <2> QED BY <2>2, <2>3
<1> QED BY <1>1, <1>2, <1>7 DEF Replayable, ReplayReproduces

LEMMA BeginStepReplayable ==
  ASSUME IInv, Replayable, BeginStep
  PROVE  Replayable'
<1>1. /\ pc = "between" /\ pc' = "install" /\ tick' = tick + 1 /\ ovBefore' = sigOv
      /\ UNCHANGED <<sigNew, sigOv, appliedSig, sigLapses, shown, heldFor>>
  BY DEF BeginStep
<1>2. appliedSig = <<>> /\ appliedSig' = <<>>
  BY <1>1 DEF Replayable
<1>3. IInv'
  BY BeginStepIInv
<1>4. \A p \in Program : HistoryOK(p, sigOv[p], tick')
  <2>1. \A p \in Program : HistoryOK(p, sigOv'[p], tick')
    BY <1>3, HistoriesPrime DEF IInv
  <2> QED BY <1>1, <2>1
<1>5. LastVerb(tick', sigOv, <<>>)
  BY DEF LastVerb
<1>6. Replays(tick', sigOv, <<>>, sigOv)
  <2>1. PICK X : IsReplay(tick', sigOv, <<>>, X)
    BY ReplayIsWalk
  <2>2. X[Len(<<>>)] = [ov |-> sigOv, rec |-> <<>>]
    <3>1. Len(<<>>) \in Nat /\ Len(<<>>) = 0
      OBVIOUS
    <3>2. X[0] = Started(sigOv)
      BY <2>1, <3>1, ReplaySteps, ZenonT(40)
    <3> QED BY <3>1, <3>2 DEF Started
  <2> QED BY <2>1, <2>2 DEF Replays
<1>7. Fresh'
  BY <1>1 DEF Replayable, Fresh
<1>8. ReplayReproduces'
  BY <1>1 DEF ReplayReproduces
<1> QED BY <1>1, <1>2, <1>4, <1>5, <1>6, <1>7, <1>8 DEF Replayable

LEMMA InstallReplayable ==
  ASSUME IInv, Replayable, Install
  PROVE  Replayable'
<1> DEFINE d == Head(sigNew)
           p == d.signal
           h == sigOv[p]
           s == Recorded(appliedSig, h, d, tick)
           after == [sigOv EXCEPT ![p] = Installed(h, d, tick)]
<1>1. /\ pc = "install" /\ sigNew # <<>>
      /\ sigOv' = after /\ appliedSig' = s /\ sigNew' = Tail(sigNew)
      /\ UNCHANGED <<tick, pc, sigLapses, shown, heldFor, ovBefore>>
  BY DEF Install
<1>2. /\ sigNew \in Seq(Directive(1 .. HoldMax)) /\ tick \in Nat /\ appliedSig \in Records
      /\ DOMAIN sigOv = Program /\ DOMAIN ovBefore = Program
  BY DEF IInv, TypeOK, Records
<1>3. d \in Directive(1 .. HoldMax) /\ p \in Program /\ d = sigNew[1] /\ 1 \in DOMAIN sigNew
      /\ DOMAIN sigNew' = 1 .. Len(sigNew) - 1
      /\ \A a \in DOMAIN sigNew' : sigNew'[a] = sigNew[a + 1] /\ a + 1 \in DOMAIN sigNew
  <2>1. d \in Directive(1 .. HoldMax) /\ d = sigNew[1] /\ Len(sigNew) \in Nat \ {0}
    BY <1>1, <1>2
  <2>2. p \in Program
    BY <2>1 DEF Directive
  <2>3. DOMAIN Tail(sigNew) = 1 .. Len(sigNew) - 1 /\ DOMAIN sigNew = 1 .. Len(sigNew)
        /\ \A a \in 1 .. Len(sigNew) - 1 : Tail(sigNew)[a] = sigNew[a + 1]
    BY <1>1, <1>2
  <2> HIDE DEF d, p
  <2> QED BY <1>1, <2>1, <2>2, <2>3
<1>4. \A q \in Program : HistoryOK(q, sigOv[q], tick)
  BY Histories DEF IInv
<1>5. /\ \A q \in Program : HistoryOK(q, ovBefore[q], tick)
      /\ LastVerb(tick, sigOv, appliedSig) /\ Replays(tick, ovBefore, appliedSig, sigOv)
  BY <1>1 DEF Replayable
<1>6. /\ \A q \in Program : \A o \in sigOv[q] : o.id # d.id
      /\ \A i \in DOMAIN appliedSig : appliedSig[i].id # d.id
  BY <1>3 DEF Replayable, Fresh
<1> HIDE DEF d
<1>7. Replays(tick, ovBefore, s, after)
  BY <1>2, <1>3, <1>4, <1>5, InstallReplays
<1>8. LastVerb(tick, after, s)
  <2>1. \A i \in 1 .. Len(appliedSig) : appliedSig[i].id # d.id
    BY <1>2, <1>6 DEF Records
  <2> QED BY <1>2, <1>3, <1>4, <1>5, <1>6, <2>1, LastVerbInstalled
<1>9. Fresh'
  <2>1. /\ s \in Records /\ Len(s) = Len(appliedSig) + 1 /\ Len(appliedSig) \in Nat
        /\ s[Len(appliedSig) + 1].id = d.id
        /\ \A j \in 1 .. Len(appliedSig) : s[j].id = appliedSig[j].id
    <3> HIDE DEF h
    <3>1. HistoryOK(p, h, tick) /\ d.signal = p
      BY <1>3, <1>4 DEF h
    <3> HIDE DEF p
    <3> QED BY <1>2, <1>3, <3>1, RecordedIds
  <2>2. \A o \in Installed(h, d, tick) : o.id = d.id \/ \E q \in h : q.id = o.id
    <3> HIDE DEF h
    <3>1. HistoryOK(p, h, tick) /\ d.signal = p
      BY <1>3, <1>4 DEF h
    <3> HIDE DEF p
    <3>2. \A o \in Installed(h, d, tick) : /\ o.id = d.id \/ \E q \in h : q.id = o.id
                                           /\ o.since = tick => o.id = d.id
      BY ONLY <1>2, <1>3, <3>1, InstalledIds, SMTT(40)
    <3> QED BY <3>2
  <2>3. DOMAIN s = 1 .. Len(appliedSig) + 1 /\ DOMAIN appliedSig = 1 .. Len(appliedSig)
    BY <1>2, <2>1 DEF Records
  <2>4. after[p] = Installed(h, d, tick) /\ \A q \in Program : q # p => after[q] = sigOv[q]
    BY <1>2, <1>3
  <2> HIDE DEF s, after
  <2>5. ASSUME NEW a \in DOMAIN sigNew'
        PROVE  /\ \A b \in DOMAIN sigNew' : a # b => sigNew'[a].id # sigNew'[b].id
               /\ \A q \in Program : \A o \in after[q] : o.id # sigNew'[a].id
               /\ \A i \in DOMAIN s : s[i].id # sigNew'[a].id
    <3> DEFINE id == sigNew'[a].id
    <3>1. sigNew'[a] = sigNew[a + 1] /\ a + 1 \in DOMAIN sigNew /\ a \in Nat \ {0}
      BY <1>3, <2>5
    <3>2. /\ \A b \in DOMAIN sigNew : a + 1 # b => id # sigNew[b].id
          /\ \A q \in Program : \A o \in sigOv[q] : o.id # id
          /\ \A i \in DOMAIN appliedSig : appliedSig[i].id # id
      BY <3>1 DEF Replayable, Fresh
    <3>3. id # d.id
      BY <1>3, <3>1, <3>2
    <3> HIDE DEF id
    <3>4. ASSUME NEW b \in DOMAIN sigNew', a # b PROVE id # sigNew'[b].id
      <4>1. sigNew'[b] = sigNew[b + 1] /\ b + 1 \in DOMAIN sigNew /\ a + 1 # b + 1
        BY <1>3, <3>1, <3>4
      <4> QED BY <3>2, <4>1
    <3>5. ASSUME NEW q \in Program, NEW o \in after[q] PROVE o.id # id
      <4>1. CASE q # p
        BY <2>4, <3>2, <3>5, <4>1
      <4>2. CASE q = p
        <5> HIDE DEF p
        <5>1. o \in Installed(h, d, tick)
          BY <2>4, <3>5, <4>2
        <5> QED BY <1>3, <2>2, <3>2, <3>3, <5>1
      <4> QED BY <4>1, <4>2
    <3>6. ASSUME NEW i \in DOMAIN s PROVE s[i].id # id
      <4>1. CASE i = Len(appliedSig) + 1
        BY <2>1, <3>3, <4>1
      <4>2. CASE i # Len(appliedSig) + 1
        <5>1. i \in 1 .. Len(appliedSig)
          BY <2>1, <2>3, <3>6, <4>2
        <5> QED BY <2>1, <2>3, <3>2, <5>1
      <4> QED BY <4>1, <4>2
    <3> QED BY <3>4, <3>5, <3>6 DEF id
  <2> QED BY <1>1, <2>5 DEF Fresh
<1>10. ReplayReproduces'
  BY <1>1 DEF ReplayReproduces
<1> HIDE DEF s, after, h, p
<1> QED BY <1>1, <1>5, <1>7, <1>8, <1>9, <1>10 DEF Replayable

LEMMA SweepReplayable ==
  ASSUME IInv, Replayable, Sweep
  PROVE  Replayable'
<1>1. /\ pc = "install" /\ sigNew = <<>> /\ pc' = "drive"
      /\ sigOv' = [p \in Program |-> Swept(p, sigOv[p], tick)]
      /\ UNCHANGED <<tick, sigNew, appliedSig, shown, heldFor, ovBefore>>
  BY DEF Sweep
<1>2. Replays(tick, ovBefore, appliedSig, sigOv)
  BY <1>1 DEF Replayable
<1>3. Len(appliedSig) \in Nat
  BY DEF IInv, TypeOK
<1>4. PICK X : /\ IsReplay(tick, ovBefore, appliedSig, X)
               /\ X[Len(appliedSig)] = [ov |-> sigOv, rec |-> appliedSig]
  BY <1>2 DEF Replays
<1>5. PICK Z : /\ IsReplay(tick, ovBefore, appliedSig, Z)
               /\ Replay(tick, ovBefore, appliedSig) = Z[Len(appliedSig)]
  BY <1>3, ReplayIsWalk
<1>6. Z[Len(appliedSig)] = X[Len(appliedSig)]
  BY <1>3, <1>4, <1>5, ReplaysEndAlike
<1> DEFINE again == Replay(tick, ovBefore, appliedSig)
<1>7. again.ov = sigOv /\ again.rec = appliedSig
  BY <1>4, <1>5, <1>6
<1>8. ReplayReproduces'
  <2> HIDE DEF again
  <2>1. [p \in Program |-> Swept(p, again.ov[p], tick)] = sigOv' /\ again.rec = appliedSig
    BY <1>1, <1>7
  <2>2. Replay(tick', ovBefore', appliedSig') = again /\ tick' = tick /\ appliedSig' = appliedSig
    BY <1>1 DEF again
  <2> QED BY <2>1, <2>2 DEF ReplayReproduces
<1>9. Fresh'
  BY <1>1 DEF Fresh
<1> QED BY <1>1, <1>8, <1>9 DEF Replayable

LEMMA DriveReplayable ==
  ASSUME IInv, Replayable, Drive
  PROVE  Replayable'
<1>1. pc' = "between" /\ appliedSig' = <<>> /\ sigNew' = sigNew /\ sigOv' = sigOv
  BY DEF Drive
<1>2. Fresh'
  BY <1>1 DEF Replayable, Fresh
<1> QED BY <1>1, <1>2 DEF Replayable, ReplayReproduces

LEMMA NextReplayable == IInv /\ Replayable /\ KernelNext => Replayable'
<1> SUFFICES ASSUME IInv, Replayable, KernelNext PROVE Replayable'
  OBVIOUS
<1>1. CASE UNCHANGED vars
  BY <1>1 DEF Replayable, Fresh, ReplayReproduces, vars, kernel
<1>2. ASSUME NEW id \in RequestId, NEW p \in Program, NEW hold \in Nat,
             NEW ph \in Phases(p), EnqueueSignal(id, p, ph, hold)
      PROVE  Replayable'
  BY <1>2, EnqueueReplayable
<1> QED BY <1>1, <1>2, BeginStepReplayable, InstallReplayable, SweepReplayable,
          DriveReplayable DEF KernelNext

\* Replaying the verbs that a tick recorded, with their effective holds and
\* the zeros of declined and dropped verbs, ends with the table and the record
\* of the run (stepSignalOverrides, markSignalVerbUnenforced, EnqueueSignal).
THEOREM RecordsReplay == Spec => []ReplayReproduces
<1>1. IInv /\ Replayable /\ [Next]_vars => Replayable'
  BY NextReplayable, KernelSteps
<1>2. Replayable => ReplayReproduces
  BY DEF Replayable
<1> QED BY <1>1, <1>2, InitReplayable, Invariance, PTL DEF Spec

-----------------------------------------------------------------------------
(***************************************************************************)
(* Red clearance.  Every span that sigSpanOnset returns shows one phase,   *)
(* has no change of the schedule inside, and begins with one exactly when  *)
(* it does not begin at the boundary of an override (SpanOK).  The walk of *)
(* sigDisplayedOnset, a recursive function, extends an interval of red to  *)
(* the past across such boundaries; wherever it stops, the window is open  *)
(* if and only if the red turned from amber there.                         *)
(***************************************************************************)

\* What is left over, k steps earlier.
LEMMA ModBack ==
  ASSUME NEW c \in Nat \ {0}, NEW x \in Nat, NEW k \in 0 .. x, k < c
  PROVE  (x - k) % c = IF k <= x % c THEN (x % c) - k ELSE ((x % c) - k) + c
<1>1. x % c \in 0 .. (c - 1) /\ (x - k) % c \in 0 .. (c - 1)
  OBVIOUS
<1>2. x = c * (x \div c) + (x % c) /\ x - k = c * ((x - k) \div c) + ((x - k) % c)
  OBVIOUS
<1>3. x \div c \in Int /\ (x - k) \div c \in Int
  OBVIOUS
<1> DEFINE q == x \div c
           r == x % c
           u == (x - k) \div c
           v == (x - k) % c
<1> HIDE DEF q, r, u, v
<1>4. c * (q - u) = (v - r) + k
  BY <1>1, <1>2, <1>3 DEF q, r, u, v
<1>5. r \in 0 .. (c - 1) /\ v \in 0 .. (c - 1) /\ q - u \in Int
  BY <1>1, <1>3 DEF q, r, u, v
<1>6. q - u = 0 \/ q - u = 1
  <2> DEFINE d == q - u
  <2>1. \A m, n \in Nat : m * n \in Nat
    OBVIOUS
  <2>2. d >= 2 => c * (d - 2) \in Nat
    BY <1>5, <2>1
  <2>3. d <= 0 - 1 => c * ((0 - 1) - d) \in Nat
    BY <1>5, <2>1
  <2>4. c * (d - 2) = c * d - 2 * c /\ c * ((0 - 1) - d) = (0 - c) - c * d
    BY <1>5
  <2>5. d >= 2 => c * d >= 2 * c
    BY <1>5, <2>2, <2>4
  <2>6. d <= 0 - 1 => c * d <= 0 - c
    BY <1>5, <2>3, <2>4
  <2> QED BY <1>4, <1>5, <2>5, <2>6
<1>7. v = r - k \/ v = (r - k) + c
  BY <1>4, <1>5, <1>6
<1>8. v = IF k <= r THEN r - k ELSE (r - k) + c
  BY <1>5, <1>7
<1> QED BY <1>8 DEF r, v

LEMMA ModBelowTwice ==
  ASSUME NEW c \in Nat \ {0}, NEW x \in 0 .. (2 * c - 1)
  PROVE  x % c = IF x < c THEN x ELSE x - c
OBVIOUS

\* A program has phases, and its cycle a length.
LEMMA ProgramFacts ==
  ASSUME NEW p \in Program
  PROVE  /\ PhaseOnset[p] \in Seq(Nat)
         /\ Len(PhaseOnset[p]) \in Nat /\ Len(PhaseOnset[p]) >= 2
         /\ \A i \in 1 .. Len(PhaseOnset[p]) : PhaseOnset[p][i] \in Nat
         /\ Cycle(p) \in Nat \ {0}
         /\ OffsetTicks[p] \in Nat
<1>1. PhaseOnset[p] \in Seq(Nat) /\ Len(PhaseOnset[p]) >= 2 /\ Cycle(p) > 0 /\ OffsetTicks[p] \in Nat
  BY ProgramAssumption
<1>2. Len(PhaseOnset[p]) \in Nat /\ \A i \in 1 .. Len(PhaseOnset[p]) : PhaseOnset[p][i] \in Nat
  BY <1>1
<1>3. Cycle(p) \in Nat
  BY <1>1, <1>2 DEF Cycle
<1> QED BY <1>1, <1>2, <1>3

\* Onsets increase from any phase to any later one.
LEMMA OnsetsIncrease ==
  ASSUME NEW p \in Program, NEW i \in 1 .. Len(PhaseOnset[p]), NEW j \in 1 .. Len(PhaseOnset[p]), i < j
  PROVE  PhaseOnset[p][i] < PhaseOnset[p][j]
<1> DEFINE N == j - i - 1
           f == [n \in 0 .. N |-> PhaseOnset[p][i + 1 + n]]
           S == {v \in Nat : PhaseOnset[p][i] < v}
<1>1. Len(PhaseOnset[p]) \in Nat /\ \A n \in 1 .. Len(PhaseOnset[p]) : PhaseOnset[p][n] \in Nat
  BY ProgramFacts
<1>2. \A n \in 1 .. (Len(PhaseOnset[p]) - 1) : PhaseOnset[p][n] < PhaseOnset[p][n + 1]
  BY ProgramAssumption
<1>3. N \in Nat
  OBVIOUS
<1>4. f[0] \in S
  <2>1. f[0] = PhaseOnset[p][i + 1]
    BY <1>3
  <2>2. i + 1 \in 1 .. Len(PhaseOnset[p])
    BY <1>1
  <2> HIDE DEF f
  <2> QED BY <1>1, <1>2, <2>1, <2>2
<1>5. ASSUME NEW n \in 1 .. N, f[n - 1] \in S PROVE f[n] \in S
  <2>1. f[n - 1] = PhaseOnset[p][i + n] /\ f[n] = PhaseOnset[p][i + 1 + n]
    BY <1>3, <1>5
  <2>2. i + n \in 1 .. (Len(PhaseOnset[p]) - 1) /\ i + 1 + n = (i + n) + 1 /\ (i + n) + 1 \in 1 .. Len(PhaseOnset[p])
    BY <1>1, <1>3, <1>5, SMTT(40)
  <2>3. PhaseOnset[p][i + n] < PhaseOnset[p][i + 1 + n]
    BY <1>2, <2>2
  <2> HIDE DEF f, N
  <2> QED BY <1>1, <1>5, <2>1, <2>2, <2>3, SMTT(40)
<1>6. f[N] = PhaseOnset[p][j]
  <2>1. i + 1 + N = j
    OBVIOUS
  <2> HIDE DEF N
  <2> QED BY <1>3, <2>1
<1> HIDE DEF f, S, N
<1>7. \A n \in 0 .. N : f[n] \in S
  BY ONLY <1>3, <1>4, <1>5, KeptByWalk
<1>8. f[N] \in S
  BY <1>3, <1>7
<1> QED BY <1>6, <1>8 DEF S

\* The cycle position, k ticks before.
LEMMA InCycleBack ==
  ASSUME NEW p \in Program, NEW x \in Nat, NEW k \in 0 .. x
  PROVE  /\ InCycle(p, x) \in 0 .. (Cycle(p) - 1)
         /\ k <= InCycle(p, x) => InCycle(p, x - k) = InCycle(p, x) - k
<1> DEFINE c == Cycle(p)
           r == x % c
           s == (x - k) % c
           y == OffsetTicks[p] % c
<1>1. c \in Nat \ {0} /\ OffsetTicks[p] \in Nat
  BY ProgramFacts
<1>2. InCycle(p, x) = ((r + c) - y) % c /\ InCycle(p, x - k) = ((s + c) - y) % c
  BY DEF InCycle
<1>3. r \in 0 .. (c - 1) /\ s \in 0 .. (c - 1) /\ y \in 0 .. (c - 1)
  BY <1>1
<1>4. k < c => s = IF k <= r THEN r - k ELSE (r - k) + c
  BY <1>1, ModBack
<1> HIDE DEF c, r, s, y
<1>5. (r + c) - y \in 0 .. (2 * c - 1) /\ (s + c) - y \in 0 .. (2 * c - 1)
  BY <1>1, <1>3
<1>6. InCycle(p, x) = IF (r + c) - y < c THEN (r + c) - y ELSE ((r + c) - y) - c
  BY <1>1, <1>2, <1>5, ModBelowTwice
<1>7. InCycle(p, x - k) = IF (s + c) - y < c THEN (s + c) - y ELSE ((s + c) - y) - c
  BY <1>1, <1>2, <1>5, ModBelowTwice
<1>8. InCycle(p, x) \in 0 .. (c - 1)
  BY <1>1, <1>3, <1>6
<1>9. k <= InCycle(p, x) => InCycle(p, x - k) = InCycle(p, x) - k
  <2> HAVE k <= InCycle(p, x)
  <2> DEFINE a == InCycle(p, x)
             b == InCycle(p, x - k)
  <2>1. k < c
    BY <1>1, <1>8
  <2>2. s = IF k <= r THEN r - k ELSE (r - k) + c
    BY <1>4, <2>1
  <2> HIDE DEF a, b
  <2> QED BY <1>1, <1>3, <1>6, <1>7, <2>1, <2>2
<1> QED BY <1>8, <1>9 DEF c

\* phaseAtElapsed counts the age of a phase tick by tick: k ticks before it was the
\* same phase, k ticks younger, unless it had not begun.
LEMMA FixedBack ==
  ASSUME NEW p \in Program, NEW x \in Nat
  PROVE  /\ PhaseAtElapsed(p, x).elapsed \in Nat
         /\ \A k \in 0 .. x : k <= PhaseAtElapsed(p, x).elapsed =>
              PhaseAtElapsed(p, x - k) =
                [phase |-> PhaseAtElapsed(p, x).phase, elapsed |-> PhaseAtElapsed(p, x).elapsed - k]
<1> DEFINE H(c) == {i \in Phases(p) : PhaseOnset[p][i + 1] <= c /\ c < PhaseOnset[p][i + 2]}
           At(c) == [phase |-> CHOOSE i \in H(c) : TRUE,
                     elapsed |-> c - PhaseOnset[p][(CHOOSE i \in H(c) : TRUE) + 1]]
           off == [phase |-> Len(PhaseOnset[p]) - 2, elapsed |-> 0]
           c == InCycle(p, x)
<1>1. \A y : PhaseAtElapsed(p, y) = IF H(InCycle(p, y)) # {} THEN At(InCycle(p, y)) ELSE off
  BY DEF PhaseAtElapsed
<1>2. /\ Len(PhaseOnset[p]) \in Nat /\ Len(PhaseOnset[p]) >= 2
      /\ \A n \in 1 .. Len(PhaseOnset[p]) : PhaseOnset[p][n] \in Nat
  BY ProgramFacts
<1>3. c \in Nat
  <2>1. 0 \in 0 .. x
    OBVIOUS
  <2>2. c \in 0 .. (Cycle(p) - 1)
    BY <2>1, InCycleBack
  <2> HIDE DEF c
  <2> QED BY <2>2
<1>4. \A i \in Phases(p) : /\ i \in Nat /\ i + 1 \in 1 .. Len(PhaseOnset[p]) /\ i + 2 \in 1 .. Len(PhaseOnset[p])
                           /\ PhaseOnset[p][i + 1] \in Nat /\ PhaseOnset[p][i + 2] \in Nat
  <2> TAKE i \in Phases(p)
  <2>1. i \in Nat /\ i + 1 \in 1 .. Len(PhaseOnset[p]) /\ i + 2 \in 1 .. Len(PhaseOnset[p])
    BY <1>2 DEF Phases
  <2> QED BY <1>2, <2>1
<1>5. ASSUME NEW d \in Nat, NEW i \in H(d), NEW j \in H(d) PROVE i = j
  <2>0. /\ i \in Phases(p) /\ j \in Phases(p)
        /\ PhaseOnset[p][i + 1] <= d /\ d < PhaseOnset[p][i + 2]
        /\ PhaseOnset[p][j + 1] <= d /\ d < PhaseOnset[p][j + 2]
    OBVIOUS
  <2>a. /\ i \in Nat /\ i + 1 \in 1 .. Len(PhaseOnset[p]) /\ i + 2 \in 1 .. Len(PhaseOnset[p])
        /\ j \in Nat /\ j + 1 \in 1 .. Len(PhaseOnset[p]) /\ j + 2 \in 1 .. Len(PhaseOnset[p])
        /\ PhaseOnset[p][i + 1] \in Nat /\ PhaseOnset[p][i + 2] \in Nat
        /\ PhaseOnset[p][j + 1] \in Nat /\ PhaseOnset[p][j + 2] \in Nat
    BY <1>4, <2>0
  <2>1. CASE i < j
    <3>1. i + 2 = j + 1 \/ i + 2 < j + 1
      BY <2>1, <2>a
    <3>2. i + 2 < j + 1 => PhaseOnset[p][i + 2] < PhaseOnset[p][j + 1]
      BY <2>a, OnsetsIncrease
    <3>3. PhaseOnset[p][i + 2] <= PhaseOnset[p][j + 1]
      BY <3>1, <3>2, <2>a, SMTT(40)
    <3> QED BY <2>0, <2>a, <3>3, SMTT(40)
  <2>2. CASE j < i
    <3>1. j + 2 = i + 1 \/ j + 2 < i + 1
      BY <2>2, <2>a
    <3>2. j + 2 < i + 1 => PhaseOnset[p][j + 2] < PhaseOnset[p][i + 1]
      BY <2>a, OnsetsIncrease
    <3>3. PhaseOnset[p][j + 2] <= PhaseOnset[p][i + 1]
      BY <3>1, <3>2, <2>a, SMTT(40)
    <3> QED BY <2>0, <2>a, <3>3
  <2> QED BY <2>1, <2>2, <2>a
<1>6. CASE H(c) # {}
  <2> DEFINE i == CHOOSE i \in H(c) : TRUE
             e == c - PhaseOnset[p][i + 1]
  <2>1. i \in H(c)
    BY <1>6
  <2>2. PhaseAtElapsed(p, x) = [phase |-> i, elapsed |-> e]
    BY <1>1, <1>6
  <2>3. i \in Phases(p) /\ PhaseOnset[p][i + 1] <= c /\ c < PhaseOnset[p][i + 2]
    BY <2>1
  <2>4. PhaseOnset[p][i + 1] \in Nat /\ PhaseOnset[p][i + 2] \in Nat
    <3> HIDE DEF i, c
    <3> QED BY <1>4, <2>3
  <2> HIDE DEF i
  <2>5. e \in Nat
    <3> HIDE DEF c
    <3> QED BY <1>3, <2>3, <2>4
  <2>6. ASSUME NEW k \in 0 .. x, k <= e
        PROVE  PhaseAtElapsed(p, x - k) = [phase |-> i, elapsed |-> e - k]
    <3>1. InCycle(p, x - k) = c - k
      <4>1. k <= InCycle(p, x) => InCycle(p, x - k) = InCycle(p, x) - k
        BY InCycleBack
      <4> HIDE DEF c
      <4>2. k <= c
        BY <1>3, <2>4, <2>6
      <4> QED BY <4>1, <4>2 DEF c
    <3> HIDE DEF c
    <3>2. i \in H(c - k) /\ c - k \in Nat
      BY <1>3, <2>3, <2>4, <2>6
    <3>3. (CHOOSE j \in H(c - k) : TRUE) \in H(c - k)
      BY <3>2
    <3> HIDE DEF H
    <3>4. (CHOOSE j \in H(c - k) : TRUE) = i
      BY <1>5, <3>2, <3>3
    <3>5. At(c - k) = [phase |-> i, elapsed |-> (c - k) - PhaseOnset[p][i + 1]]
      BY <3>4
    <3>6. (c - k) - PhaseOnset[p][i + 1] = e - k
      BY <1>3, <2>4
    <3>7. H(c - k) # {}
      BY <3>2
    <3> HIDE DEF At, e
    <3>8. PhaseAtElapsed(p, x - k) = At(c - k)
      BY <1>1, <3>1, <3>7
    <3> QED BY <3>5, <3>6, <3>8
  <2> HIDE DEF e
  <2>7. PhaseAtElapsed(p, x).phase = i /\ PhaseAtElapsed(p, x).elapsed = e
    BY <2>2
  <2> QED BY <2>2, <2>5, <2>6, <2>7
<1>7. CASE H(c) = {}
  <2>1. PhaseAtElapsed(p, x) = off
    BY <1>1, <1>7
  <2>2. PhaseAtElapsed(p, x).elapsed = 0 /\ PhaseAtElapsed(p, x).phase = Len(PhaseOnset[p]) - 2
    BY <2>1
  <2>3. ASSUME NEW k \in 0 .. x, k <= 0 PROVE k = 0 /\ x - k = x /\ 0 - k = 0
    BY <2>3
  <2> QED BY <2>1, <2>2, <2>3
<1> QED BY <1>6, <1>7

\* The schedule changes the phase at a tick, with no hold on either side of it.
Changes(p, h, y) ==
  /\ ~DisplayIn(p, h, y).held /\ ~DisplayIn(p, h, y - 1).held
  /\ PhaseAtElapsed(p, y).elapsed = 0

\* Where no entry covers it, a phase of the schedule is shown from its onset on.
LEMMA UncoveredSpan ==
  ASSUME NEW p \in Program, NEW h, NEW x \in Nat, NEW m \in 0 .. x,
         x <= m + PhaseAtElapsed(p, x).elapsed,
         \A y \in m .. x : \A ov \in h : ~Covers(ov, y)
  PROVE  /\ \A y \in m .. x : /\ DisplayIn(p, h, y).phase = PhaseAtElapsed(p, x).phase
                              /\ ~DisplayIn(p, h, y).held
                              /\ PhaseAtElapsed(p, y).elapsed = PhaseAtElapsed(p, x).elapsed - (x - y)
         /\ \A y \in (m + 1) .. x : ~Changes(p, h, y)
<1> DEFINE e == PhaseAtElapsed(p, x).elapsed
<1>1. e \in Nat
  BY FixedBack
<1>2. ASSUME NEW y \in m .. x
      PROVE  /\ DisplayIn(p, h, y).phase = PhaseAtElapsed(p, x).phase
             /\ ~DisplayIn(p, h, y).held
             /\ PhaseAtElapsed(p, y).elapsed = e - (x - y)
  <2>1. y \in Nat /\ x - y \in 0 .. x /\ x - (x - y) = y
    OBVIOUS
  <2>2. x - y <= e
    BY <1>1
  <2>3. PhaseAtElapsed(p, x - (x - y)) = [phase |-> PhaseAtElapsed(p, x).phase, elapsed |-> e - (x - y)]
    BY <2>1, <2>2, FixedBack
  <2>4. PhaseAtElapsed(p, y) = [phase |-> PhaseAtElapsed(p, x).phase, elapsed |-> e - (x - y)]
    BY <2>1, <2>3
  <2>5. DisplayIn(p, h, y) = [phase |-> FixedPhase(p, y), held |-> FALSE]
    BY <2>1, DisplayOfNone
  <2>6. FixedPhase(p, y) = PhaseAtElapsed(p, x).phase
    BY <2>4 DEF FixedPhase
  <2> HIDE DEF e
  <2> QED BY <2>4, <2>5, <2>6
<1>3. ASSUME NEW y \in (m + 1) .. x PROVE ~Changes(p, h, y)
  <2>1. y \in m .. x
    OBVIOUS
  <2>2. PhaseAtElapsed(p, y).elapsed = e - (x - y)
    BY <1>2, <2>1
  <2>3. e - (x - y) # 0
    BY <1>1
  <2> QED BY <2>2, <2>3 DEF Changes
<1> QED BY <1>2, <1>3

\* sigSpanOnset: since the onset the same phase is shown, without a change of the
\* schedule in between, and there is one at the onset unless an override ends or
\* begins there.
SpanOK(p, h, x, s) ==
  /\ s.onset \in 0 .. x
  /\ s.boundary \in BOOLEAN
  /\ \A y \in s.onset .. x : DisplayIn(p, h, y).phase = s.phase
  /\ \A y \in (s.onset + 1) .. x : ~Changes(p, h, y)
  /\ s.onset > 0 => (Changes(p, h, s.onset) <=> ~s.boundary)

LEMMA SpanFacts ==
  ASSUME NEW p \in Program, NEW t \in Nat, HistoryOK(p, sigOv[p], t), NEW x \in Nat
  PROVE  SpanOK(p, sigOv[p], x, SigSpanOnset(p, x))
<1> DEFINE h == sigOv[p]
           decides == {ov \in h : Covers(ov, x) \/ ov.until <= x}
           ov == Newest(decides)
           e == PhaseAtElapsed(p, x).elapsed
           ph == PhaseAtElapsed(p, x).phase
           Span(o, b) == [phase |-> ph, onset |-> o, boundary |-> b]
           s == SigSpanOnset(p, x)
<1>0. s = CASE decides = {} -> Span(IF e > x THEN 0 ELSE x - e, FALSE)
            [] decides # {} /\ Covers(ov, x) ->
                 [phase |-> ov.phase, onset |-> ov.since, boundary |-> TRUE]
            [] decides # {} /\ ~Covers(ov, x) /\ e > x -> Span(ov.until, ov.until > 0)
            [] decides # {} /\ ~Covers(ov, x) /\ ~(e > x) ->
                 Span(IF ov.until > x - e THEN ov.until ELSE x - e, ov.until >= x - e)
  BY DEF SigSpanOnset
<1> HIDE DEF s
<1>1. e \in Nat
  BY FixedBack
<1>2. \A o \in h : o.since \in Nat /\ o.until \in Nat /\ o.since < o.until
  BY DEF HistoryOK, Override, EntryOK
<1>3. \A o \in h : \A y \in 0 .. x : Covers(o, y) => o \in decides
  BY <1>2 DEF Covers
<1>a. HistoryOK(p, h, t)
  OBVIOUS
<1> HIDE DEF e, ph
\* The span of the schedule, from m on.
<1>4. ASSUME NEW m \in 0 .. x, x <= m + e, \A y \in m .. x : \A o \in h : ~Covers(o, y)
      PROVE  /\ \A y \in m .. x : DisplayIn(p, h, y).phase = ph /\ ~DisplayIn(p, h, y).held
             /\ \A y \in (m + 1) .. x : ~Changes(p, h, y)
             /\ x = m + e => PhaseAtElapsed(p, m).elapsed = 0
  <2>1. /\ \A y \in m .. x : /\ DisplayIn(p, h, y).phase = ph
                             /\ ~DisplayIn(p, h, y).held
                             /\ PhaseAtElapsed(p, y).elapsed = e - (x - y)
        /\ \A y \in (m + 1) .. x : ~Changes(p, h, y)
    <3> HIDE DEF h, decides, ov
    <3>1. x <= m + PhaseAtElapsed(p, x).elapsed
      BY <1>4 DEF e
    <3>2. /\ \A y \in m .. x : /\ DisplayIn(p, h, y).phase = PhaseAtElapsed(p, x).phase
                              /\ ~DisplayIn(p, h, y).held
                              /\ PhaseAtElapsed(p, y).elapsed = PhaseAtElapsed(p, x).elapsed - (x - y)
          /\ \A y \in (m + 1) .. x : ~Changes(p, h, y)
      BY <1>4, <3>1, UncoveredSpan
    <3> QED BY ONLY <3>2 DEF e, ph
  <2>2. m \in m .. x /\ (x = m + e => e - (x - m) = 0)
    BY <1>1
  <2> HIDE DEF h
  <2> QED BY <2>1, <2>2
<1>5. CASE decides = {}
  <2>1. s = Span(IF e > x THEN 0 ELSE x - e, FALSE)
    BY <1>0, <1>5
  <2>2. \A y \in 0 .. x : \A o \in h : ~Covers(o, y)
    BY <1>3, <1>5
  <2> DEFINE m == IF e > x THEN 0 ELSE x - e
  <2>3. m \in 0 .. x /\ x <= m + e /\ (m > 0 => x = m + e)
    BY <1>1
  <2>4. s.phase = ph /\ s.onset = m /\ s.boundary = FALSE
    BY <2>1
  <2> HIDE DEF m, h
  <2>5. \A y \in m .. x : \A o \in h : ~Covers(o, y)
    BY <2>2, <2>3
  <2>6. /\ \A y \in m .. x : DisplayIn(p, h, y).phase = ph /\ ~DisplayIn(p, h, y).held
        /\ \A y \in (m + 1) .. x : ~Changes(p, h, y)
        /\ x = m + e => PhaseAtElapsed(p, m).elapsed = 0
    BY <1>4, <2>3, <2>5
  <2>7. m > 0 => Changes(p, h, m)
    <3> HAVE m > 0
    <3>1. m \in m .. x /\ m - 1 \in Nat /\ m - 1 \in 0 .. x
      BY <2>3
    <3>2. \A o \in h : ~Covers(o, m - 1)
      BY <2>2, <3>1
    <3>3. DisplayIn(p, h, m - 1) = [phase |-> FixedPhase(p, m - 1), held |-> FALSE]
      BY <3>1, <3>2, DisplayOfNone
    <3>4. ~DisplayIn(p, h, m - 1).held
      BY <3>3
    <3>5. ~DisplayIn(p, h, m).held /\ PhaseAtElapsed(p, m).elapsed = 0
      BY <2>3, <2>6, <3>1
    <3> QED BY <3>4, <3>5 DEF Changes
  <2>8. SpanOK(p, h, x, s)
    BY <2>3, <2>4, <2>6, <2>7 DEF SpanOK
  <2> QED BY <2>8 DEF h, s
<1>6. ASSUME decides # {}
      PROVE  /\ ov \in h /\ ov.since \in Nat /\ ov.until \in Nat /\ ov.since < ov.until
             /\ Covers(ov, x) \/ ov.until <= x
             /\ \A o \in decides : o.since <= ov.since
  <2>1. HistoryOK(p, decides, t)
    BY DEF HistoryOK
  <2> HIDE DEF decides
  <2>2. ov \in decides /\ \A o \in decides : o # ov => o.until <= ov.since
    BY <1>6, <2>1, NewestExists
  <2>3. \A o \in decides : o \in h /\ (Covers(o, x) \/ o.until <= x)
    BY DEF decides
  <2> HIDE DEF ov, h
  <2>4. \A o \in decides : o.since <= ov.since
    <3> TAKE o \in decides
    <3>1. o # ov => o.until <= ov.since
      BY <2>2
    <3>2. o \in h /\ ov \in h
      BY <2>2, <2>3
    <3> QED BY <1>2, <3>1, <3>2
  <2> QED BY <1>2, <2>2, <2>3, <2>4
<1>7. CASE decides # {} /\ Covers(ov, x)
  <2>1. s = [phase |-> ov.phase, onset |-> ov.since, boundary |-> TRUE]
    BY <1>0, <1>7
  <2>2. ov \in h /\ ov.since \in Nat /\ ov.until \in Nat /\ ov.since <= x /\ x < ov.until
    BY <1>6, <1>7 DEF Covers
  <2> HIDE DEF ov, h
  <2>3. ASSUME NEW y \in ov.since .. x
        PROVE  DisplayIn(p, h, y).phase = ov.phase /\ DisplayIn(p, h, y).held
    <3>1. y \in Nat /\ Covers(ov, y)
      BY <2>2 DEF Covers
    <3>2. DisplayIn(p, h, y) = [phase |-> ov.phase, held |-> TRUE]
      BY <1>a, <2>2, <3>1, DisplayOfEntry
    <3> QED BY <3>2
  <2>4. \A y \in ov.since .. x : ~Changes(p, h, y)
    BY <2>3 DEF Changes
  <2>5. s.phase = ov.phase /\ s.onset = ov.since /\ s.boundary = TRUE
    BY <2>1
  <2>6. ov.since \in ov.since .. x /\ ov.since \in 0 .. x /\ \A y \in (ov.since + 1) .. x : y \in ov.since .. x
    BY <2>2
  <2>7. /\ \A y \in s.onset .. x : DisplayIn(p, h, y).phase = s.phase
        /\ \A y \in (s.onset + 1) .. x : ~Changes(p, h, y)
        /\ ~Changes(p, h, s.onset)
    BY <2>3, <2>4, <2>5, <2>6
  <2>8. SpanOK(p, h, x, s)
    BY <2>5, <2>6, <2>7 DEF SpanOK
  <2> QED BY <2>8 DEF h, s
<1>8. CASE decides # {} /\ ~Covers(ov, x)
  <2> DEFINE u == ov.until
             m == IF e > x \/ u > x - e THEN u ELSE x - e
             b == e > x \/ u >= x - e
  <2>1. ov \in h /\ ov.since \in Nat /\ u \in Nat /\ ov.since < u /\ u <= x
        /\ \A o \in decides : o.since <= ov.since
    BY <1>6, <1>8
  <2>2. s = Span(m, b)
    BY <1>0, <1>8, <2>1
  <2>3. s.phase = ph /\ s.onset = m /\ s.boundary = b
    BY <2>2
  <2>4. \A y \in u .. x : \A o \in h : ~Covers(o, y)
    <3> SUFFICES ASSUME NEW y \in u .. x, NEW o \in h, Covers(o, y) PROVE FALSE
      OBVIOUS
    <3>1. y \in 0 .. x
      BY <2>1
    <3>2. o \in decides
      BY <1>3, <3>1
    <3>3. o.since <= ov.since
      BY <2>1, <3>2
    <3>4. o.since \in Nat /\ o.until \in Nat /\ o.since <= y /\ y < o.until
      BY <1>2 DEF Covers
    <3>5. o # ov
      BY <3>4, <2>1
    <3>6. o.until <= ov.since \/ ov.until <= o.since
      BY <2>1, <3>5 DEF HistoryOK, Disjoint
    <3> HIDE DEF ov, h, decides
    <3> QED BY <2>1, <3>1, <3>3, <3>4, <3>6
  <2> HIDE DEF ov, h, decides
  <2>5. /\ m \in 0 .. x /\ x <= m + e /\ m \in u .. x /\ u > 0
        /\ b => m = u
        /\ ~b => m > u /\ x = m + e
    BY <1>1, <2>1
  <2> HIDE DEF m, b
  <2>6. \A y \in m .. x : \A o \in h : ~Covers(o, y)
    BY <2>1, <2>4, <2>5
  <2>7. /\ \A y \in m .. x : DisplayIn(p, h, y).phase = ph /\ ~DisplayIn(p, h, y).held
        /\ \A y \in (m + 1) .. x : ~Changes(p, h, y)
        /\ x = m + e => PhaseAtElapsed(p, m).elapsed = 0
    BY <1>4, <2>5, <2>6
  <2>8. b => ~Changes(p, h, m)
    <3> HAVE b
    <3>1. m - 1 \in Nat /\ Covers(ov, m - 1)
      BY <2>1, <2>5 DEF Covers
    <3> DEFINE z == m - 1
    <3>0. ov \in h /\ z \in Nat /\ Covers(ov, z)
      BY <2>1, <3>1
    <3> HIDE DEF z
    <3>2. DisplayIn(p, h, z) = [phase |-> ov.phase, held |-> TRUE]
      BY <1>a, <3>0, DisplayOfEntry
    <3>3. DisplayIn(p, h, m - 1).held
      BY <3>2 DEF z
    <3> QED BY <3>3 DEF Changes
  <2>9. ~b => Changes(p, h, m)
    <3> HAVE ~b
    <3>1. m \in m .. x /\ m - 1 \in Nat /\ m - 1 \in u .. x
      BY <2>1, <2>5
    <3>2. \A o \in h : ~Covers(o, m - 1)
      BY <2>4, <3>1
    <3>3. DisplayIn(p, h, m - 1) = [phase |-> FixedPhase(p, m - 1), held |-> FALSE]
      BY <3>1, <3>2, DisplayOfNone
    <3>4. ~DisplayIn(p, h, m - 1).held
      BY <3>3
    <3>5. ~DisplayIn(p, h, m).held /\ PhaseAtElapsed(p, m).elapsed = 0
      BY <2>5, <2>7, <3>1
    <3> QED BY <3>4, <3>5 DEF Changes
  <2>10. b \in BOOLEAN
    BY DEF b
  <2>11. /\ \A y \in s.onset .. x : DisplayIn(p, h, y).phase = s.phase
         /\ \A y \in (s.onset + 1) .. x : ~Changes(p, h, y)
         /\ Changes(p, h, s.onset) <=> ~s.boundary
    BY <2>3, <2>7, <2>8, <2>9
  <2>12. SpanOK(p, h, x, s)
    BY <2>3, <2>5, <2>10, <2>11 DEF SpanOK
  <2> QED BY <2>12 DEF h, s
<1> QED BY <1>5, <1>7, <1>8

\* The light of a link, and the interval up to t in which it has been red without
\* a change of the schedule.
LightIn(p, h, l, y) == Light[p][DisplayIn(p, h, y).phase][l]
RedFrom(p, h, l, o, t) ==
  /\ \A y \in o .. t : LightIn(p, h, l, y) = "red"
  /\ \A y \in (o + 1) .. t : ~Changes(p, h, y)

\* AmberTurnedRed and the answer of sigInClearance for an onset, read from a history.
TurnedRed(p, h, l, t) ==
  \E b \in 1 .. t :
    /\ t - b <= Clearance[p]
    /\ LightIn(p, h, l, b - 1) = "amber"
    /\ RedFrom(p, h, l, b, t)
Opens(p, h, l, t, o) ==
  /\ o # 0
  /\ t - o <= Clearance[p]
  /\ LightIn(p, h, l, o - 1) = "amber"

\* Where the red began, the window opens or not.
LEMMA EndsHere ==
  ASSUME NEW p \in Program, NEW h, NEW l \in Link, NEW t \in Nat, NEW o \in 1 .. t,
         RedFrom(p, h, l, o, t), LightIn(p, h, l, o - 1) # "red" \/ Changes(p, h, o)
  PROVE  Opens(p, h, l, t, o) <=> TurnedRed(p, h, l, t)
<1>1. ASSUME NEW b \in 1 .. t, LightIn(p, h, l, b - 1) = "amber", RedFrom(p, h, l, b, t)
      PROVE  b = o
  <2>1. CASE b < o
    <3>1. o - 1 \in b .. t /\ o \in (b + 1) .. t
      BY <2>1
    <3>2. LightIn(p, h, l, o - 1) = "red" /\ ~Changes(p, h, o)
      BY <1>1, <3>1 DEF RedFrom
    <3> QED BY <3>2
  <2>2. CASE o < b
    <3>1. b - 1 \in o .. t
      BY <2>2
    <3>2. LightIn(p, h, l, b - 1) = "red"
      BY <3>1 DEF RedFrom
    <3> QED BY <1>1, <3>2
  <2> QED BY <2>1, <2>2
<1>2. Opens(p, h, l, t, o) => TurnedRed(p, h, l, t)
  BY DEF Opens, TurnedRed
<1>3. TurnedRed(p, h, l, t) => Opens(p, h, l, t, o)
  <2> HAVE TurnedRed(p, h, l, t)
  <2>1. PICK b \in 1 .. t : /\ t - b <= Clearance[p]
                            /\ LightIn(p, h, l, b - 1) = "amber"
                            /\ RedFrom(p, h, l, b, t)
    BY DEF TurnedRed
  <2>2. b = o
    BY <1>1, <2>1
  <2> QED BY <2>1, <2>2 DEF Opens
<1> QED BY <1>2, <1>3

\* Red since the first tick or for longer than the window, it does not open.
LEMMA EndsOutside ==
  ASSUME NEW p \in Program, NEW h, NEW l \in Link, NEW t \in Nat, NEW o \in 0 .. t,
         RedFrom(p, h, l, o, t), o = 0 \/ t - o > Clearance[p]
  PROVE  ~Opens(p, h, l, t, o) /\ ~TurnedRed(p, h, l, t)
<1>0. Clearance[p] \in Nat
  BY ProgramAssumption
<1>1. ~Opens(p, h, l, t, o)
  BY <1>0 DEF Opens
<1>2. ASSUME NEW b \in 1 .. t, t - b <= Clearance[p], LightIn(p, h, l, b - 1) = "amber"
      PROVE  FALSE
  <2>1. b - 1 \in o .. t
    BY <1>0, <1>2
  <2>2. LightIn(p, h, l, b - 1) = "red"
    BY <2>1 DEF RedFrom
  <2> QED BY <1>2, <2>2
<1> QED BY <1>1, <1>2 DEF TurnedRed

\* A span of red extends the interval across the boundary of an override.
LEMMA RedExtends ==
  ASSUME NEW p \in Program, NEW h, NEW l \in Link, NEW t \in Nat, NEW o \in 1 .. t,
         RedFrom(p, h, l, o, t), ~Changes(p, h, o),
         NEW s, SpanOK(p, h, o - 1, s), Light[p][s.phase][l] = "red"
  PROVE  s.onset \in 0 .. (o - 1) /\ RedFrom(p, h, l, s.onset, t)
<1>1. s.onset \in 0 .. (o - 1)
  BY DEF SpanOK
<1>2. ASSUME NEW y \in s.onset .. t PROVE LightIn(p, h, l, y) = "red"
  <2>1. CASE y < o
    <3>1. y \in s.onset .. (o - 1)
      BY <1>1, <2>1
    <3>2. DisplayIn(p, h, y).phase = s.phase
      BY <3>1 DEF SpanOK
    <3> QED BY <3>2 DEF LightIn
  <2>2. CASE o <= y
    <3>1. y \in o .. t
      BY <1>1, <2>2
    <3> QED BY <3>1 DEF RedFrom
  <2> QED BY <1>1, <2>1, <2>2
<1>3. ASSUME NEW y \in (s.onset + 1) .. t PROVE ~Changes(p, h, y)
  <2>1. CASE y < o
    <3>1. y \in (s.onset + 1) .. (o - 1)
      BY <1>1, <2>1
    <3> QED BY <3>1 DEF SpanOK
  <2>2. CASE y = o
    BY <2>2
  <2>3. CASE o < y
    <3>1. y \in (o + 1) .. t
      BY <1>1, <2>3
    <3> QED BY <3>1 DEF RedFrom
  <2> QED BY <1>1, <2>1, <2>2, <2>3
<1> QED BY <1>1, <1>2, <1>3 DEF RedFrom

\* The walk of sigDisplayedOnset: where it goes from the boundary o, given its
\* answers further back.
Back(p, l, t, o, W) ==
  LET state == Light[p][SigSpanOnset(p, t).phase][l] IN
  IF o = 0 \/ t - o > Clearance[p] THEN o
  ELSE LET prev == SigSpanOnset(p, o - 1) IN
       CASE Light[p][prev.phase][l] = state /\ prev.boundary -> W[prev.onset]
         [] Light[p][prev.phase][l] # state -> o
         [] OTHER -> prev.onset

\* A step of the walk answers for the window when the steps before it do.
LEMMA BackStep ==
  ASSUME NEW p \in Program, NEW l \in Link, NEW t \in Nat, HistoryOK(p, sigOv[p], t),
         Light[p][SigSpanOnset(p, t).phase][l] = "red",
         NEW o \in 0 .. t, NEW W,
         RedFrom(p, sigOv[p], l, o, t), o > 0 => ~Changes(p, sigOv[p], o),
         \A q \in 0 .. (o - 1) :
           RedFrom(p, sigOv[p], l, q, t) /\ (q > 0 => ~Changes(p, sigOv[p], q)) =>
             (Opens(p, sigOv[p], l, t, W[q]) <=> TurnedRed(p, sigOv[p], l, t))
  PROVE  Opens(p, sigOv[p], l, t, Back(p, l, t, o, W)) <=> TurnedRed(p, sigOv[p], l, t)
<1> DEFINE h == sigOv[p]
           s == SigSpanOnset(p, o - 1)
<1>1. CASE o = 0 \/ t - o > Clearance[p]
  <2>1. Back(p, l, t, o, W) = o
    BY <1>1 DEF Back
  <2> QED BY <1>1, <2>1, EndsOutside
<1>2. CASE ~(o = 0 \/ t - o > Clearance[p])
  <2>1. o \in 1 .. t /\ o - 1 \in Nat
    BY <1>2
  <2>2. SpanOK(p, h, o - 1, s)
    BY <2>1, SpanFacts
  <2>3. Back(p, l, t, o, W) =
          CASE Light[p][s.phase][l] = "red" /\ s.boundary -> W[s.onset]
            [] Light[p][s.phase][l] # "red" -> o
            [] OTHER -> s.onset
    BY <1>2 DEF Back
  <2>4. LightIn(p, h, l, o - 1) = Light[p][s.phase][l]
    <3>1. o - 1 \in s.onset .. (o - 1)
      BY <2>1, <2>2 DEF SpanOK
    <3>2. DisplayIn(p, h, o - 1).phase = s.phase
      BY <2>2, <3>1 DEF SpanOK
    <3> QED BY <3>2 DEF LightIn
  <2> HIDE DEF s
  <2>5. CASE Light[p][s.phase][l] # "red"
    <3>1. Back(p, l, t, o, W) = o
      BY <2>3, <2>5
    <3> QED BY <2>1, <2>4, <2>5, <3>1, EndsHere
  <2>6. CASE Light[p][s.phase][l] = "red"
    <3>1. s.onset \in 0 .. (o - 1) /\ RedFrom(p, h, l, s.onset, t)
      <4>1. ~Changes(p, h, o)
        BY <2>1
      <4> QED BY <2>1, <2>2, <2>6, <4>1, RedExtends
    <3>2. s.onset > 0 => (Changes(p, h, s.onset) <=> ~s.boundary)
      BY <2>2 DEF SpanOK
    <3>3. CASE s.boundary
      <4>1. Back(p, l, t, o, W) = W[s.onset]
        BY <2>3, <2>6, <3>3
      <4> QED BY <3>1, <3>2, <3>3, <4>1
    <3>4. CASE ~s.boundary
      <4>1. Back(p, l, t, o, W) = s.onset
        BY <2>3, <2>6, <3>4
      <4>2. CASE s.onset = 0
        <5>1. s.onset \in 0 .. t
          BY <2>1, <3>1
        <5> QED BY <3>1, <4>1, <4>2, <5>1, EndsOutside
      <4>3. CASE s.onset # 0
        <5>1. s.onset \in 1 .. t /\ Changes(p, h, s.onset)
          BY <2>1, <3>1, <3>2, <3>4, <4>3
        <5> QED BY <3>1, <4>1, <5>1, EndsHere
      <4> QED BY <4>2, <4>3
    <3> QED BY <3>3, <3>4
  <2> QED BY <2>5, <2>6
<1> QED BY <1>1, <1>2

\* A step reads the answers further back only.
LEMMA BackAlike ==
  ASSUME NEW p \in Program, NEW l \in Link, NEW t \in Nat, HistoryOK(p, sigOv[p], t),
         NEW o \in 0 .. t, NEW W, NEW V, \A q \in 0 .. (o - 1) : W[q] = V[q]
  PROVE  Back(p, l, t, o, W) = Back(p, l, t, o, V)
<1> DEFINE s == SigSpanOnset(p, o - 1)
<1>1. CASE o = 0 \/ t - o > Clearance[p]
  BY <1>1 DEF Back
<1>2. CASE o # 0
  <2>1. o - 1 \in Nat
    BY <1>2
  <2>2. SpanOK(p, sigOv[p], o - 1, s)
    BY <2>1, SpanFacts
  <2>3. s.onset \in 0 .. (o - 1)
    BY <2>2 DEF SpanOK
  <2>4. W[s.onset] = V[s.onset]
    BY <2>3
  <2> QED BY <2>4 DEF Back
<1> QED BY <1>1, <1>2

\* The walk exists.
BackTo(p, l, t, n, W) == W = [o \in 0 .. n |-> Back(p, l, t, o, W)]

LEMMA BackExists ==
  ASSUME NEW p \in Program, NEW l \in Link, NEW t \in Nat, HistoryOK(p, sigOv[p], t)
  PROVE  \E W : BackTo(p, l, t, t, W)
<1> DEFINE P(n) == \E W : BackTo(p, l, t, n, W)
           h == [n \in 0 .. t |-> IF P(n) THEN 1 ELSE 0]
<1>1. P(0)
  <2> DEFINE X == [v \in 0 .. 0 |-> 0]
  <2>1. \A v \in 0 .. 0 : Back(p, l, t, v, X) = 0
    BY DEF Back
  <2>2. BackTo(p, l, t, 0, X)
    BY <2>1 DEF BackTo
  <2> QED BY <2>2
<1>2. ASSUME NEW n \in 1 .. t, P(n - 1) PROVE P(n)
  <2>1. PICK X : BackTo(p, l, t, n - 1, X)
    BY <1>2
  <2> DEFINE Y == [v \in 0 .. n |-> IF v = n THEN Back(p, l, t, n, X) ELSE X[v]]
  <2>2. ASSUME NEW v \in 0 .. n PROVE Y[v] = Back(p, l, t, v, Y)
    <3>1. v \in 0 .. t
      BY <1>2
    <3>2. \A q \in 0 .. (v - 1) : X[q] = Y[q]
      BY <1>2
    <3>3. Back(p, l, t, v, X) = Back(p, l, t, v, Y)
      <4> HIDE DEF Y
      <4> QED BY <3>1, <3>2, BackAlike
    <3>4. CASE v = n
      <4>1. Y[v] = Back(p, l, t, n, X)
        BY <3>4
      <4> HIDE DEF Y
      <4> QED BY <3>3, <3>4, <4>1
    <3>5. CASE v # n
      <4>1. v \in 0 .. n - 1 /\ Y[v] = X[v]
        BY <3>5
      <4>2. X[v] = Back(p, l, t, v, X)
        <5> DEFINE Z == [w \in 0 .. n - 1 |-> Back(p, l, t, w, X)]
        <5>1. Z[v] = Back(p, l, t, v, X)
          BY <4>1
        <5>2. X = Z
          BY <2>1 DEF BackTo
        <5> HIDE DEF Z
        <5> QED BY <5>1, <5>2
      <4> HIDE DEF Y
      <4> QED BY <3>3, <4>1, <4>2
    <3> QED BY <3>4, <3>5
  <2>3. Y = [v \in 0 .. n |-> Y[v]]
    OBVIOUS
  <2> HIDE DEF Y
  <2>4. BackTo(p, l, t, n, Y)
    BY <2>2, <2>3 DEF BackTo
  <2> QED BY <2>4
<1> HIDE DEF P
<1>3. h[0] \in {1} /\ \A i \in 1 .. t : h[i - 1] \in {1} => h[i] \in {1}
  <2>1. h[0] = 1
    BY <1>1
  <2>2. ASSUME NEW i \in 1 .. t, h[i - 1] = 1 PROVE h[i] = 1
    <3>1. P(i - 1)
      BY <2>2
    <3>2. P(i)
      BY <1>2, <3>1
    <3> QED BY <3>2
  <2> QED BY <2>1, <2>2
<1>4. P(t)
  <2> HIDE DEF h
  <2>1. \A i \in 0 .. t : h[i] \in {1}
    BY ONLY <1>3, KeptByWalk, t \in Nat
  <2>2. h[t] = 1
    BY <2>1
  <2> QED BY <2>2 DEF h
<1> QED BY <1>4 DEF P

\* sigDisplayedOnset is where it ends.
Onset(p, t, W) ==
  LET first == SigSpanOnset(p, t) IN IF first.boundary THEN W[first.onset] ELSE first.onset

LEMMA OnsetIsWalk ==
  ASSUME NEW p \in Program, NEW l \in Link, NEW t \in Nat, HistoryOK(p, sigOv[p], t)
  PROVE  \E W : BackTo(p, l, t, t, W) /\ SigDisplayedOnset(p, l, t) = Onset(p, t, W)
<1>1. \E W : BackTo(p, l, t, t, W)
  BY BackExists
<1>2. (\E W : BackTo(p, l, t, t, W)) =>
        \E W : BackTo(p, l, t, t, W) /\ SigDisplayedOnset(p, l, t) = Onset(p, t, W)
  BY Zenon DEF SigDisplayedOnset, BackTo, Back, Onset
<1> QED BY <1>1, <1>2

\* Every answer of the walk is right about the window.
LEMMA WalkAnswers ==
  ASSUME NEW p \in Program, NEW l \in Link, NEW t \in Nat, HistoryOK(p, sigOv[p], t),
         Light[p][SigSpanOnset(p, t).phase][l] = "red",
         NEW W, BackTo(p, l, t, t, W)
  PROVE  \A o \in 0 .. t :
           RedFrom(p, sigOv[p], l, o, t) /\ (o > 0 => ~Changes(p, sigOv[p], o)) =>
             (Opens(p, sigOv[p], l, t, W[o]) <=> TurnedRed(p, sigOv[p], l, t))
<1> DEFINE P(o) == RedFrom(p, sigOv[p], l, o, t) /\ (o > 0 => ~Changes(p, sigOv[p], o)) =>
                     (Opens(p, sigOv[p], l, t, W[o]) <=> TurnedRed(p, sigOv[p], l, t))
           Q(n) == \A o \in 0 .. n : P(o)
           h == [n \in 0 .. t |-> IF Q(n) THEN 1 ELSE 0]
<1>1. ASSUME NEW o \in 0 .. t, \A q \in 0 .. (o - 1) : P(q) PROVE P(o)
  <2> DEFINE Z == [w \in 0 .. t |-> Back(p, l, t, w, W)]
  <2>1. Z[o] = Back(p, l, t, o, W)
    OBVIOUS
  <2>2. W = Z
    BY DEF BackTo
  <2> HIDE DEF Z
  <2>3. W[o] = Back(p, l, t, o, W)
    BY <2>1, <2>2
  <2>4. ASSUME RedFrom(p, sigOv[p], l, o, t), o > 0 => ~Changes(p, sigOv[p], o)
        PROVE  Opens(p, sigOv[p], l, t, Back(p, l, t, o, W)) <=> TurnedRed(p, sigOv[p], l, t)
    BY <1>1, <2>4, BackStep
  <2> QED BY <2>3, <2>4
<1> HIDE DEF P
<1>2. Q(0)
  <2>1. \A q \in 0 .. (0 - 1) : P(q)
    OBVIOUS
  <2>2. P(0)
    BY <1>1, <2>1
  <2> QED BY <2>2
<1>3. ASSUME NEW n \in 1 .. t, Q(n - 1) PROVE Q(n)
  <2>1. P(n)
    BY <1>1, <1>3
  <2>2. \A o \in 0 .. n : o = n \/ o \in 0 .. (n - 1)
    OBVIOUS
  <2> QED BY <1>3, <2>1, <2>2
<1> HIDE DEF Q
<1>4. h[0] \in {1} /\ \A i \in 1 .. t : h[i - 1] \in {1} => h[i] \in {1}
  <2>1. h[0] = 1
    BY <1>2
  <2>2. ASSUME NEW i \in 1 .. t, h[i - 1] = 1 PROVE h[i] = 1
    <3>1. Q(i - 1)
      BY <2>2
    <3>2. Q(i)
      BY <1>3, <3>1
    <3> QED BY <3>2
  <2> QED BY <2>1, <2>2
<1>5. Q(t)
  <2> HIDE DEF h
  <2>1. \A i \in 0 .. t : h[i] \in {1}
    BY ONLY <1>4, KeptByWalk, t \in Nat
  <2>2. h[t] = 1
    BY <2>1
  <2> QED BY <2>2 DEF h
<1> QED BY <1>5 DEF Q, P

\* sigInClearance, for any well-formed history: the window is open when the red
\* shown turned red from amber within it.
LEMMA OnsetAnswers ==
  ASSUME NEW p \in Program, NEW l \in Link, NEW t \in Nat, HistoryOK(p, sigOv[p], t),
         LightIn(p, sigOv[p], l, t) = "red"
  PROVE  Opens(p, sigOv[p], l, t, SigDisplayedOnset(p, l, t)) <=> TurnedRed(p, sigOv[p], l, t)
<1> DEFINE h == sigOv[p]
           s == SigSpanOnset(p, t)
<1>1. SpanOK(p, h, t, s)
  BY SpanFacts
<1>2. PICK W : BackTo(p, l, t, t, W) /\ SigDisplayedOnset(p, l, t) = Onset(p, t, W)
  BY OnsetIsWalk
<1>3. SigDisplayedOnset(p, l, t) = IF s.boundary THEN W[s.onset] ELSE s.onset
  BY <1>2 DEF Onset
<1>4. Light[p][s.phase][l] = "red"
  <2>1. t \in s.onset .. t
    BY <1>1 DEF SpanOK
  <2> QED BY <1>1, <2>1 DEF SpanOK, LightIn
<1>5. \A o \in 0 .. t :
        RedFrom(p, h, l, o, t) /\ (o > 0 => ~Changes(p, h, o)) =>
          (Opens(p, h, l, t, W[o]) <=> TurnedRed(p, h, l, t))
  BY <1>2, <1>4, WalkAnswers
<1> HIDE DEF s
<1>6. s.onset \in 0 .. t /\ RedFrom(p, h, l, s.onset, t)
      /\ (s.onset > 0 => (Changes(p, h, s.onset) <=> ~s.boundary))
  BY <1>1, <1>4 DEF SpanOK, RedFrom, LightIn
<1> HIDE DEF h
<1>7. CASE s.boundary
  BY <1>3, <1>5, <1>6, <1>7 DEF h
<1>8. CASE ~s.boundary
  <2>1. SigDisplayedOnset(p, l, t) = s.onset
    BY <1>3, <1>8
  <2>2. CASE s.onset = 0
    BY <1>6, <2>1, <2>2, EndsOutside DEF h
  <2>3. CASE s.onset # 0
    <3>1. s.onset \in 1 .. t /\ Changes(p, h, s.onset)
      BY <1>6, <1>8, <2>3
    <3> QED BY <1>6, <2>1, <3>1, EndsHere DEF h
  <2> QED BY <2>2, <2>3
<1> QED BY <1>7, <1>8

\* What was shown and what the table answers are one and the same within the
\* window.
LEMMA DisplaysAnswered ==
  ASSUME IInv, pc = "drive", NEW p \in Program, NEW x \in 0 .. tick, tick - x <= Clearance[p] + 1
  PROVE  Display(p, x) = DisplayIn(p, sigOv[p], x)
<1>0. Clearance[p] \in Nat /\ tick \in Nat
  BY ProgramAssumption DEF IInv, TypeOK
<1>1. CASE x = tick
  BY <1>1 DEF Display, Displayed, DisplayIn, SigPhaseAt
<1>2. CASE x # tick
  <2> DEFINE k == tick - 1 - x
  <2>1. k \in 0 .. Clearance[p] /\ k < tick /\ tick - 1 - k = x
    BY <1>0, <1>2
  <2>2. \A i \in 0 .. Clearance[p] : i < tick => DisplayIn(p, sigOv[p], tick - 1 - i) = shown[p][i]
    BY DEF IInv, TableAnswers
  <2> HIDE DEF k
  <2>3. DisplayIn(p, sigOv[p], x) = shown[p][k]
    BY <2>1, <2>2
  <2> QED BY <1>2, <2>3 DEF Display, k
<1> QED BY <1>1, <1>2

\* AmberTurnedRed, read from the table instead of from what was shown.
LEMMA TurnedRedAlike ==
  ASSUME IInv, pc = "drive", NEW p \in Program, NEW l \in Link
  PROVE  AmberTurnedRed(p, l) <=> TurnedRed(p, sigOv[p], l, tick)
<1> DEFINE h == sigOv[p]
<1>0. Clearance[p] \in Nat /\ tick \in Nat
  BY ProgramAssumption DEF IInv, TypeOK
<1>1. ASSUME NEW b \in 1 .. tick, tick - b <= Clearance[p]
      PROVE  /\ LightAt(p, l, b - 1) = LightIn(p, h, l, b - 1)
             /\ \A y \in b .. tick : LightAt(p, l, y) = LightIn(p, h, l, y)
             /\ \A y \in (b + 1) .. tick : ScheduleChange(p, y) <=> Changes(p, h, y)
  <2>1. ASSUME NEW y \in (b - 1) .. tick PROVE Display(p, y) = DisplayIn(p, h, y)
    <3>1. y \in 0 .. tick /\ tick - y <= Clearance[p] + 1
      BY <1>0, <1>1
    <3> QED BY <3>1, DisplaysAnswered
  <2>2. /\ b - 1 \in (b - 1) .. tick
        /\ \A y \in b .. tick : y \in (b - 1) .. tick
        /\ \A y \in (b + 1) .. tick : y \in (b - 1) .. tick /\ y - 1 \in (b - 1) .. tick
    BY <1>0
  <2> HIDE DEF h
  <2>3. LightAt(p, l, b - 1) = LightIn(p, h, l, b - 1)
    BY <2>1, <2>2 DEF LightAt, LightIn
  <2>4. \A y \in b .. tick : LightAt(p, l, y) = LightIn(p, h, l, y)
    BY <2>1, <2>2 DEF LightAt, LightIn
  <2>5. \A y \in (b + 1) .. tick : ScheduleChange(p, y) <=> Changes(p, h, y)
    BY <2>1, <2>2 DEF ScheduleChange, Changes
  <2> QED BY <2>3, <2>4, <2>5
<1> HIDE DEF h
<1> QED BY <1>1 DEF AmberTurnedRed, TurnedRed, RedFrom, h

\* sigInClearance walks overrides that were truncated, superseded and partly swept,
\* and opens the clearance window exactly on a displayed amber-to-red transition.
THEOREM ClearanceIsDisplayed == Spec => []ClearanceFollowsDisplay
<1>1. IInv => ClearanceFollowsDisplay
  <2> SUFFICES ASSUME IInv, pc = "drive", NEW p \in Program, NEW l \in Link,
                      Light[p][SigPhaseAt(p, tick)][l] = "red"
               PROVE  SigInClearance(p, l) <=> AmberTurnedRed(p, l)
    BY DEF ClearanceFollowsDisplay
  <2>1. tick \in Nat /\ HistoryOK(p, sigOv[p], tick)
    BY Histories DEF IInv, TypeOK
  <2>2. \A x : SigPhaseAt(p, x) = DisplayIn(p, sigOv[p], x).phase
    BY DEF SigPhaseAt, DisplayIn
  <2>3. LightIn(p, sigOv[p], l, tick) = "red"
    BY <2>2 DEF LightIn
  <2>4. SigInClearance(p, l) <=> Opens(p, sigOv[p], l, tick, SigDisplayedOnset(p, l, tick))
    BY <2>2 DEF SigInClearance, Opens, LightIn
  <2>5. Opens(p, sigOv[p], l, tick, SigDisplayedOnset(p, l, tick)) <=> TurnedRed(p, sigOv[p], l, tick)
    BY <2>1, <2>3, OnsetAnswers
  <2> QED BY <2>4, <2>5, TurnedRedAlike
<1> QED BY <1>1, Invariance, PTL

-----------------------------------------------------------------------------
(* Part two: the controller.                                                 *)

-----------------------------------------------------------------------------
(* The program. *)

\* Phases are numbered without a gap, and each has a length.
LEMMA PhaseFacts ==
  /\ Len(PhaseOnset[J]) \in Nat /\ Len(PhaseOnset[J]) >= 2
  /\ Phases(J) = 0 .. (Len(PhaseOnset[J]) - 2)
  /\ Cardinality(Phases(J)) = Len(PhaseOnset[J]) - 1
  /\ \A i \in Phases(J) : NaturalDuration(i) \in Nat \ {0}
<1>1. J \in Program /\ PhaseOnset[J] \in Seq(Nat) /\ Len(PhaseOnset[J]) >= 2
      /\ \A i \in 1 .. (Len(PhaseOnset[J]) - 1) : PhaseOnset[J][i] < PhaseOnset[J][i + 1]
  BY ProgramAssumption, AgentAssumption
<1>2. Len(PhaseOnset[J]) \in Nat BY <1>1
<1>3. Phases(J) = 0 .. (Len(PhaseOnset[J]) - 2) BY DEF Phases
<1>4. Cardinality(Phases(J)) = Len(PhaseOnset[J]) - 1
  BY <1>1, <1>2, <1>3, FS_Interval
<1>5. ASSUME NEW i \in Phases(J) PROVE NaturalDuration(i) \in Nat \ {0}
  <2>1. i + 1 \in 1 .. (Len(PhaseOnset[J]) - 1) /\ i + 2 \in 1 .. Len(PhaseOnset[J])
    BY <1>2, <1>3, <1>5
  <2>2. PhaseOnset[J][i + 1] \in Nat /\ PhaseOnset[J][i + 2] \in Nat
    BY <1>1, <1>2, <2>1, SMTT(40)
  <2>3. PhaseOnset[J][i + 1] < PhaseOnset[J][i + 2]
    <3>1. PhaseOnset[J][i + 1] < PhaseOnset[J][(i + 1) + 1] BY <1>1, <2>1
    <3>2. (i + 1) + 1 = i + 2 BY <1>3
    <3> QED BY <3>1, <3>2
  <2> QED BY <2>2, <2>3 DEF NaturalDuration
<1> QED BY <1>1, <1>2, <1>3, <1>4, <1>5

\* The next phase in table order is another one, unless there is only one.
LEMMA NextPhaseFacts ==
  ASSUME NEW i \in Phases(J)
  PROVE  /\ NextPhase(i) \in Phases(J)
         /\ NextPhase(i) = i => Phases(J) = {i}
<1> DEFINE n == Len(PhaseOnset[J]) - 1
<1>1. n \in Nat \ {0} /\ Phases(J) = 0 .. (n - 1) /\ Cardinality(Phases(J)) = n
  <2> DEFINE len == Len(PhaseOnset[J])
  <2>1. /\ len \in Nat /\ len >= 2 /\ Phases(J) = 0 .. (len - 2)
        /\ Cardinality(Phases(J)) = len - 1
    BY PhaseFacts
  <2> HIDE DEF len
  <2>2. len - 1 \in Nat \ {0} /\ len - 2 = (len - 1) - 1 BY <2>1
  <2> QED BY <2>1, <2>2 DEF len
<1>2. NextPhase(i) = (i + 1) % n BY <1>1 DEF NextPhase
<1>3. i \in Nat /\ i + 1 <= n BY <1>1
<1> HIDE DEF n
<1>4. CASE i + 1 < n
  <2>1. (i + 1) % n = i + 1 BY <1>1, <1>3, <1>4
  <2> QED BY <1>1, <1>2, <1>3, <1>4, <2>1
<1>5. CASE i + 1 = n
  <2>1. (i + 1) % n = 0 BY <1>1, <1>5
  <2> QED BY <1>1, <1>2, <1>3, <1>5, <2>1
<1> QED BY <1>1, <1>3, <1>4, <1>5

\* The fixed phase has begun some natural number of ticks ago.
LEMMA FixedPhaseAge ==
  ASSUME NEW t \in Nat
  PROVE  PhaseAtElapsed(J, t).elapsed \in Nat /\ PhaseAtElapsed(J, t).phase \in Phases(J)
<1>1. J \in Program
  BY AgentAssumption
<1>2. PhaseAtElapsed(J, t).elapsed \in Nat
  BY <1>1, FixedBack
<1>3. PhaseAtElapsed(J, t).phase \in Phases(J)
  BY <1>1, FixedPhaseType DEF FixedPhase
<1> QED BY <1>2, <1>3

\* The candidates are phases.
LEMMA CandidatesArePhases == Candidates \subseteq Phases(J) /\ \A c \in Candidates : Movement(c)
BY DEF Candidates
-----------------------------------------------------------------------------
(* The strongest approach. *)

\* Counts are natural numbers below one bound.
LEMMA CountBounded ==
  ASSUME NEW count, NEW links, links \subseteq Link
  PROVE  CountOn(count, links) \in 0 .. Cardinality(Link \X (1..MaxCount))
<1> DEFINE All == Link \X (1..MaxCount)
           S == {v \in links \X (1..MaxCount) : v[2] <= count[v[1]]}
<1>1. IsFiniteSet(All)
  <2>1. IsFiniteSet(1..MaxCount) BY AgentAssumption, FS_Interval
  <2> QED BY <2>1, AgentAssumption, FS_Product
<1>2. S \subseteq All OBVIOUS
<1>3. CountOn(count, links) = Cardinality(S) BY DEF CountOn
<1> HIDE DEF S, All
<1>4. IsFiniteSet(S) /\ Cardinality(S) <= Cardinality(All) BY <1>1, <1>2, FS_Subset
<1>5. Cardinality(S) \in Nat /\ Cardinality(All) \in Nat BY <1>1, <1>4, FS_CardinalityType
<1> QED BY <1>3, <1>4, <1>5 DEF All

\* Phases have a least one.
LEMMA LeastPhase ==
  ASSUME NEW S, S \subseteq Phases(J), S # {}
  PROVE  \E c \in S : \A o \in S : c <= o
<1> DEFINE n == Len(PhaseOnset[J]) - 2
           T == {n - c : c \in S}
<1>1. n \in Nat /\ S \subseteq 0 .. n BY PhaseFacts
<1> HIDE DEF n
<1>2. T \in SUBSET (0 .. n) /\ T # {}
  <2>1. \A c \in S : n - c \in 0 .. n BY <1>1
  <2> QED BY <2>1
<1>3. \E m \in T : \A x \in T : x <= m
  <2> HIDE DEF T
  <2> QED BY <1>1, <1>2, GreatestExists
<1>4. PICK c \in S : \A x \in T : x <= n - c BY <1>3
<1>5. \A o \in S : n - o <= n - c BY <1>4
<1> QED BY <1>1, <1>5

\* best is an approach with somebody on it, other than the one in force.
LEMMA BestIsCandidate ==
  ASSUME NEW count, NEW enforced
  PROVE  Best(count, enforced) = None \/ Best(count, enforced) \in Candidates \ {enforced}
<1> DEFINE others == {c \in Candidates \ {enforced} : CountOn(count, Green(c)) > 0}
           strong == {c \in others : \A o \in others :
                                       CountOn(count, Green(o)) <= CountOn(count, Green(c))}
<1>1. CASE others = {} BY <1>1 DEF Best
<1>2. CASE others # {}
  <2>1. strong # {}
    <3> DEFINE N == Cardinality(Link \X (1..MaxCount))
               C == {CountOn(count, Green(c)) : c \in others}
    <3>1. C \in SUBSET (0 .. N)
      <4>1. \A c \in others : Green(c) \subseteq Link BY DEF Green
      <4> QED BY <4>1, CountBounded
    <3>2. C # {} BY <1>2
    <3>3. N \in Nat
      <4>1. IsFiniteSet(1..MaxCount) BY AgentAssumption, FS_Interval
      <4>2. IsFiniteSet(Link \X (1..MaxCount)) BY <4>1, AgentAssumption, FS_Product
      <4> QED BY <4>2, FS_CardinalityType
    <3>4. \E m \in C : \A x \in C : x <= m
      <4> HIDE DEF C, N
      <4> QED BY <3>1, <3>2, <3>3, GreatestExists
    <3> QED BY <3>4
  <2>2. strong \subseteq Phases(J) BY CandidatesArePhases
  <2>3. \E c \in strong : \A o \in strong : c <= o
    <3> HIDE DEF strong
    <3> QED BY <2>1, <2>2, LeastPhase
  <2>4. Best(count, enforced) = CHOOSE c \in strong : \A o \in strong : c <= o
    BY <1>2 DEF Best
  <2>5. Best(count, enforced) \in strong
    <3> HIDE DEF strong, others
    <3> QED BY <2>3, <2>4
  <2> QED BY <2>5
<1> QED BY <1>1, <1>2

-----------------------------------------------------------------------------
(***************************************************************************)
(* The decision.                                                           *)
(***************************************************************************)
Belief ==
  [myPhase : Phases(J) \cup {None}, phaseSince : Nat, holdUntil : Nat, chainStart : Nat,
   callSince : Nat, target : Candidates \cup {None}, lastDecide : Nat, seq : Nat]

\* A transition is shown only on the way to a target, for its natural duration;
\* a walk has begun.
Sound(s) ==
  /\ s \in Belief
  /\ s.target # None => s.myPhase # None
  /\ s.myPhase # None /\ ~Movement(s.myPhase) =>
       s.target # None /\ s.holdUntil = s.chainStart + NaturalDuration(s.myPhase)

\* The same command in force.
SameHold(s, r) ==
  /\ r.myPhase = s.myPhase /\ r.holdUntil = s.holdUntil /\ r.chainStart = s.chainStart
  /\ r.phaseSince = s.phaseSince /\ r.seq = s.seq

\* What makes a command at tick t safe to send: it starts a chain of its own or
\* its chain has ticks left; it changes the phase to the next one only, and ends
\* a transition no earlier than planned.
Sendable(s, phase, t) ==
  /\ phase = s.myPhase /\ t + 1 <= s.holdUntil => s.chainStart + HoldMax > t + 1
  /\ InHold(s, t) /\ phase # s.myPhase =>
       /\ phase = NextPhase(s.myPhase)
       /\ Movement(s.myPhase) \/ t + 1 >= s.holdUntil

\* A decision without a verb leaves the command in force, one with a verb sends
\* a sound and safe one.
Decided(s, did, t) ==
  \/ did.verb = <<>> /\ Sound(did.belief) /\ SameHold(s, did.belief)
  \/ \E r, phase, hold :
       /\ r \in Belief /\ SameHold(s, r) /\ did = Command(r, phase, hold, t)
       /\ phase \in Phases(J) /\ hold \in Nat \ {0}
       /\ Sendable(s, phase, t)
       /\ Sound(did.belief)

\* The phase the controller takes for the one in force.
LEMMA EstimatedPhase ==
  ASSUME NEW s, Sound(s), NEW t \in Nat
  PROVE  /\ Estimated(s, t).phase \in Phases(J)
         /\ InHold(s, t) => Estimated(s, t).phase = s.myPhase
<1>1. CASE InHold(s, t)
  <2>1. s.myPhase \in Phases(J) BY <1>1 DEF InHold, Sound, Belief
  <2> QED BY <1>1, <2>1 DEF Estimated
<1>2. CASE ~InHold(s, t)
  <2>1. Estimated(s, t).phase = PhaseAtElapsed(J, t).phase BY <1>2 DEF Estimated
  <2> QED BY <1>2, <2>1, FixedPhaseAge
<1> QED BY <1>1, <1>2

\* What the belief is after a command.
LEMMA SentBelief ==
  ASSUME NEW r \in Belief, NEW phase \in Phases(J), NEW hold \in Nat, NEW t \in Nat
  PROVE  /\ Command(r, phase, hold, t).belief \in Belief
         /\ Command(r, phase, hold, t).belief.myPhase = phase
         /\ Command(r, phase, hold, t).belief.holdUntil = t + 1 + hold
         /\ Command(r, phase, hold, t).belief.target = r.target
         /\ Command(r, phase, hold, t).belief.chainStart =
              IF NewChain(r, phase, t + 1) THEN t + 1 ELSE r.chainStart
<1> DEFINE b == Sent(r, phase, hold, t)
           fresh == NewChain(r, phase, t + 1)
           calls == IF phase # r.myPhase THEN 0 ELSE r.callSince
           chain == IF fresh THEN t + 1 ELSE r.chainStart
           since == IF fresh THEN t + 1 ELSE r.phaseSince
<1>1. b = [myPhase |-> phase, phaseSince |-> since, holdUntil |-> t + 1 + hold,
           chainStart |-> chain, callSince |-> calls, target |-> r.target,
           lastDecide |-> r.lastDecide, seq |-> r.seq + 1]
  <2>1. b = [r EXCEPT !.chainStart = chain, !.phaseSince = since, !.callSince = calls,
                      !.myPhase = phase, !.holdUntil = t + 1 + hold, !.seq = @ + 1]
    BY DEF Sent
  <2> HIDE DEF chain, since, calls, b
  <2> QED BY <2>1 DEF Belief
<1>2. chain \in Nat /\ since \in Nat /\ calls \in Nat BY DEF Belief
<1>3. Command(r, phase, hold, t).belief = b BY DEF Command
<1> HIDE DEF calls, chain, since, b
<1>4. b \in Belief BY <1>1, <1>2 DEF Belief
<1> QED BY <1>1, <1>3, <1>4 DEF chain

\* A decision is about the command in force, whatever else is noted.
LEMMA DecidedSame ==
  ASSUME NEW s, NEW r, SameHold(s, r), NEW did, NEW t, Decided(r, did, t)
  PROVE  Decided(s, did, t)
<1>1. \A x : SameHold(r, x) => SameHold(s, x) BY DEF SameHold
<1>2. \A phase : Sendable(r, phase, t) => Sendable(s, phase, t)
  BY DEF SameHold, Sendable, InHold
<1> QED BY <1>1, <1>2 DEF Decided

LEMMA NoVerbDecided ==
  ASSUME NEW s, NEW r, Sound(r), SameHold(s, r), NEW t
  PROVE  Decided(s, NoVerb(r), t)
BY DEF NoVerb, Decided

\* walkStep sends a sound command when it is safe to.
LEMMA WalkStepDecided ==
  ASSUME NEW s, NEW r \in Belief, SameHold(s, r), r.target # None, NEW from \in Phases(J),
         NEW t \in Nat, Sendable(s, NextPhase(from), t),
         NewChain(s, NextPhase(from), t + 1) \/ Movement(NextPhase(from))
  PROVE  Decided(s, WalkStep(r, from, t), t)
<1> DEFINE next == NextPhase(from)
           hold == IF next = r.target THEN HoldTicks ELSE NaturalDuration(next)
           did == Command(r, next, hold, t)
<1>1. next \in Phases(J) BY NextPhaseFacts
<1>2. hold \in Nat \ {0}
  <2>1. HoldTicks \in Nat \ {0} BY AgentAssumption
  <2> QED BY <1>1, <2>1, PhaseFacts
<1>3. WalkStep(r, from, t) = did BY DEF WalkStep
<1>4. r.target \in Candidates /\ Movement(r.target) BY CandidatesArePhases DEF Belief
<1>5. Sound(did.belief)
  <2> DEFINE b == did.belief
  <2>1. /\ b \in Belief /\ b.myPhase = next /\ b.holdUntil = t + 1 + hold /\ b.target = r.target
        /\ b.chainStart = IF NewChain(r, next, t + 1) THEN t + 1 ELSE r.chainStart
    <3>1. hold \in Nat BY <1>2
    <3>2. b = Command(r, next, hold, t).belief OBVIOUS
    <3> HIDE DEF hold, next, b, did
    <3>3. b \in Belief
      BY <1>1, <3>1, <3>2, SentBelief
    <3>6. b.myPhase = next
      BY <1>1, <3>1, <3>2, SentBelief, ZenonT(40)
    <3>7. b.target = r.target
      BY <1>1, <3>1, <3>2, SentBelief
    <3>5. b.holdUntil = t + 1 + hold
      BY <1>1, <3>1, <3>2, SentBelief
    <3>4. b.chainStart = IF NewChain(r, next, t + 1) THEN t + 1 ELSE r.chainStart
      BY <1>1, <3>1, <3>2, SentBelief
    <3> QED BY <3>3, <3>4, <3>5, <3>6, <3>7
  <2>2. next # None BY <1>1, PhaseFacts DEF None
  <2>3. ASSUME ~Movement(next) PROVE b.holdUntil = b.chainStart + NaturalDuration(next)
    <3>1. hold = NaturalDuration(next) BY <1>4, <2>3
    <3>2. NewChain(r, next, t + 1) BY <2>3 DEF NewChain, SameHold
    <3> QED BY <2>1, <3>1, <3>2
  <2> HIDE DEF b, next, hold
  <2>4. Sound(b) BY <2>1, <2>2, <2>3 DEF Sound
  <2> QED BY <2>4 DEF b
<1> HIDE DEF hold
<1> QED BY <1>1, <1>2, <1>3, <1>5 DEF Decided

\* Leaving a served approach for another one is the first step of a walk.
LEMMA BeginWalkDecided ==
  ASSUME NEW s, Sound(s), NEW t \in Nat, NEW from, from = Estimated(s, t).phase,
         Movement(from), NEW best \in Candidates \ {from}
  PROVE  Decided(s, BeginWalk(s, best, from, t), t)
<1> DEFINE r == [s EXCEPT !.target = best]
           next == NextPhase(from)
<1>1. s \in Belief BY DEF Sound
<1>2. r \in Belief /\ SameHold(s, r) /\ r.target = best BY <1>1 DEF Belief, SameHold
<1>3. from \in Phases(J) /\ (InHold(s, t) => from = s.myPhase) BY EstimatedPhase
<1>4. next \in Phases(J) /\ next # from BY <1>3, NextPhaseFacts, CandidatesArePhases
<1>5. best # None /\ next # None BY <1>4, CandidatesArePhases, PhaseFacts DEF None
<1>6. s.holdUntil \in Nat BY <1>1 DEF Belief
<1>7. CASE InHold(s, t)
  <2>1. NewChain(s, next, t + 1) /\ Sendable(s, next, t)
    BY <1>3, <1>4, <1>7 DEF NewChain, Sendable
  <2> HIDE DEF r
  <2> QED BY <1>2, <1>3, <1>5, <2>1, WalkStepDecided DEF BeginWalk, r
<1>8. CASE ~InHold(s, t)
  <2>1. next = s.myPhase => t + 1 > s.holdUntil BY <1>5, <1>6, <1>8 DEF InHold
  <2>2. NewChain(s, next, t + 1) /\ Sendable(s, next, t)
    <3> HIDE DEF next
    <3> QED BY <1>6, <1>8, <2>1 DEF NewChain, Sendable
  <2> HIDE DEF r
  <2> QED BY <1>2, <1>3, <1>5, <2>2, WalkStepDecided DEF BeginWalk, r
<1> QED BY <1>7, <1>8

\* A renewal, or taking over from the table, is safe while the chain can be
\* extended.
LEMMA HoldOnDecided ==
  ASSUME NEW s, Sound(s), NEW t \in Nat, NEW phase, phase = Estimated(s, t).phase,
         Movement(phase), InHold(s, t) => CanExtend(s, t)
  PROVE  Decided(s, Command(s, phase, HoldTicks, t), t)
<1>1. s \in Belief BY DEF Sound
<1>2. phase \in Phases(J) /\ (InHold(s, t) => phase = s.myPhase) BY EstimatedPhase
<1>3. HoldTicks \in Nat \ {0} BY AgentAssumption
<1>4. phase # None BY <1>2, PhaseFacts DEF None
<1>5. Sendable(s, phase, t)
  <2>1. s.holdUntil \in Nat BY <1>1 DEF Belief
  <2> QED BY <1>2, <1>4, <2>1 DEF Sendable, CanExtend, InHold
<1>6. Sound(Command(s, phase, HoldTicks, t).belief)
  <2> DEFINE b == Command(s, phase, HoldTicks, t).belief
  <2>1. b \in Belief /\ b.myPhase = phase
    <3>1. HoldTicks \in Nat BY <1>3
    <3> QED BY <1>1, <1>2, <3>1, SentBelief, ZenonT(40)
  <2> HIDE DEF b
  <2>2. Sound(b) BY <1>4, <2>1 DEF Sound
  <2> QED BY <2>2 DEF b
<1>7. SameHold(s, s) BY DEF SameHold
<1> QED BY <1>1, <1>2, <1>3, <1>5, <1>6, <1>7 DEF Decided

\* A served approach nobody else calls away from is held on to.
LEMMA UncontestedDecided ==
  ASSUME NEW s, Sound(s), NEW t \in Nat, NEW phase, phase = Estimated(s, t).phase,
         Movement(phase)
  PROVE  Decided(s, Uncontested(s, phase, t), t)
<1>1. CASE ~InHold(s, t) \/ (s.holdUntil - t < RenewBelow /\ CanExtend(s, t))
  <2>1. InHold(s, t) => CanExtend(s, t) BY <1>1
  <2>2. Uncontested(s, phase, t) = Command(s, phase, HoldTicks, t) BY <1>1 DEF Uncontested
  <2> QED BY <2>1, <2>2, HoldOnDecided
<1>2. CASE ~(~InHold(s, t) \/ (s.holdUntil - t < RenewBelow /\ CanExtend(s, t)))
  <2>1. Uncontested(s, phase, t) = NoVerb(s) BY <1>2 DEF Uncontested
  <2> QED BY <2>1, NoVerbDecided DEF SameHold
<1> QED BY <1>1, <1>2

\* Against a call it is renewed while it may be, then left.
LEMMA ContestedDecided ==
  ASSUME NEW s, Sound(s), NEW t \in Nat, NEW now, now = Estimated(s, t),
         Movement(now.phase), NEW best \in Candidates \ {now.phase}
  PROVE  Decided(s, Contested(s, now, best, t), t)
<1> DEFINE railCapped == InHold(s, t) /\ ~CanExtend(s, t)
           inBudget   == t < s.callSince + MaxGreenOnCallTicks /\ ~railCapped
           renew      == inBudget /\ InHold(s, t) /\ s.holdUntil - t < RenewBelow
           leave      == ~inBudget /\ t >= now.since + MinGreenTicks
<1>1. CASE renew
  <2>1. Contested(s, now, best, t) = Command(s, now.phase, HoldTicks, t)
    BY <1>1 DEF Contested
  <2>2. InHold(s, t) => CanExtend(s, t) BY <1>1
  <2> QED BY <2>1, <2>2, HoldOnDecided
<1>2. CASE ~renew /\ leave
  <2>1. Contested(s, now, best, t) = BeginWalk(s, best, now.phase, t)
    BY <1>2 DEF Contested
  <2> QED BY <2>1, BeginWalkDecided
<1>3. CASE ~renew /\ ~leave
  <2>1. Contested(s, now, best, t) = NoVerb(s) BY <1>3 DEF Contested
  <2> QED BY <2>1, NoVerbDecided DEF SameHold
<1> QED BY <1>1, <1>2, <1>3

\* An empty approach is left for one that calls.
LEMMA GapOutDecided ==
  ASSUME NEW s, Sound(s), NEW t \in Nat, NEW now, now = Estimated(s, t), Movement(now.phase),
         NEW best, NEW call \in BOOLEAN, call => best \in Candidates \ {now.phase}
  PROVE  Decided(s, GapOut(s, now, best, call, t), t)
<1>1. CASE call /\ t >= now.since + MinGreenTicks
  <2>1. GapOut(s, now, best, call, t) = BeginWalk(s, best, now.phase, t) BY <1>1 DEF GapOut
  <2> QED BY <1>1, <2>1, BeginWalkDecided
<1>2. CASE ~(call /\ t >= now.since + MinGreenTicks)
  <2>1. GapOut(s, now, best, call, t) = NoVerb(s) BY <1>2 DEF GapOut
  <2> QED BY <2>1, NoVerbDecided DEF SameHold
<1> QED BY <1>1, <1>2

\* The call is noted, whatever is done about it.
LEMMA ServeDecided ==
  ASSUME NEW s, Sound(s), NEW t \in Nat, NEW count
  PROVE  Decided(s, Serve(s, count, t), t)
<1> DEFINE now    == Estimated(s, t)
           best   == Best(count, now.phase)
           call   == best # None /\ CountOn(count, Green(best)) >= SwitchMinQueue
           since  == IF ~call THEN 0 ELSE IF s.callSince = 0 THEN t ELSE s.callSince
           called == [s EXCEPT !.callSince = since]
           served == CountOn(count, Green(now.phase)) > 0
           idle   == \A l \in Link : count[l] = 0
<1>1. s \in Belief BY DEF Sound
<1>2. ASSUME NEW c \in Nat
      PROVE  /\ Sound([s EXCEPT !.callSince = c]) /\ SameHold(s, [s EXCEPT !.callSince = c])
             /\ Estimated([s EXCEPT !.callSince = c], t) = Estimated(s, t)
  <2> DEFINE r == [s EXCEPT !.callSince = c]
  <2>1. r \in Belief /\ SameHold(s, r) /\ r.target = s.target BY <1>1 DEF Belief, SameHold
  <2> HIDE DEF r
  <2>2. Sound(r) BY <2>1 DEF Sound, SameHold
  <2>3. Estimated(r, t) = Estimated(s, t) BY <2>1 DEF Estimated, InHold, SameHold
  <2> QED BY <2>1, <2>2, <2>3 DEF r
<1>3. since \in Nat BY <1>1 DEF Belief
<1>4. Sound(called) /\ SameHold(s, called) /\ now = Estimated(called, t)
  <2> HIDE DEF since
  <2> QED BY <1>2, <1>3
<1>5. call \in BOOLEAN /\ (call => best \in Candidates \ {now.phase}) BY BestIsCandidate
<1>6. Serve(s, count, t) =
        CASE ~Movement(now.phase) -> NoVerb(s)
          [] Movement(now.phase) /\ idle -> NoVerb([s EXCEPT !.callSince = 0])
          [] OTHER -> IF served /\ ~call THEN Uncontested(called, now.phase, t)
                      ELSE IF served THEN Contested(called, now, best, t)
                      ELSE GapOut(called, now, best, call, t)
  BY DEF Serve
<1>7. CASE ~Movement(now.phase)
  <2>1. Serve(s, count, t) = NoVerb(s) BY <1>6, <1>7
  <2> QED BY <2>1, NoVerbDecided DEF SameHold
<1>8. CASE Movement(now.phase) /\ idle
  <2>1. Serve(s, count, t) = NoVerb([s EXCEPT !.callSince = 0]) BY <1>6, <1>8
  <2>2. Sound([s EXCEPT !.callSince = 0]) /\ SameHold(s, [s EXCEPT !.callSince = 0]) BY <1>2
  <2> QED BY <2>1, <2>2, NoVerbDecided
<1>9. CASE Movement(now.phase) /\ ~idle
  <2> HIDE DEF now, best, call, called, served, idle
  <2>1. CASE served /\ ~call
    <3>1. Serve(s, count, t) = Uncontested(called, now.phase, t) BY <1>6, <1>9, <2>1
    <3>2. Decided(called, Uncontested(called, now.phase, t), t)
      BY <1>4, <1>9, UncontestedDecided
    <3> QED BY <1>4, <3>1, <3>2, DecidedSame
  <2>2. CASE served /\ call
    <3>1. Serve(s, count, t) = Contested(called, now, best, t) BY <1>6, <1>9, <2>2
    <3>2. Decided(called, Contested(called, now, best, t), t)
      BY <1>4, <1>5, <1>9, <2>2, ContestedDecided
    <3> QED BY <1>4, <3>1, <3>2, DecidedSame
  <2>3. CASE ~served
    <3>1. Serve(s, count, t) = GapOut(called, now, best, call, t) BY <1>6, <1>9, <2>3
    <3>2. Decided(called, GapOut(called, now, best, call, t), t)
      BY <1>4, <1>5, <1>9, GapOutDecided
    <3> QED BY <1>4, <3>1, <3>2, DecidedSame
  <2> QED BY <2>1, <2>2, <2>3
<1> QED BY <1>7, <1>8, <1>9

\* decideProgram: a walk goes on when its hold runs out, a finished walk and an
\* idle controller serve what waits.
LEMMA ProgramDecided ==
  ASSUME NEW s, Sound(s), NEW t \in Nat, NEW count
  PROVE  Decided(s, DecideProgram(s, count, t), t)
<1>1. s \in Belief BY DEF Sound
<1>2. s.holdUntil \in Nat BY <1>1 DEF Belief
<1>3. CASE Walking(s) /\ ~Arrived(s, t) /\ s.myPhase # None /\ t + 1 < s.holdUntil
  <2>1. DecideProgram(s, count, t) = NoVerb(s) BY <1>3 DEF DecideProgram
  <2> QED BY <2>1, NoVerbDecided DEF SameHold
<1>4. CASE Walking(s) /\ ~Arrived(s, t) /\ ~(s.myPhase # None /\ t + 1 < s.holdUntil)
  <2> DEFINE next == NextPhase(s.myPhase)
  <2>1. DecideProgram(s, count, t) = WalkStep(s, s.myPhase, t) BY <1>4 DEF DecideProgram
  <2>2. s.target # None /\ s.myPhase # None /\ s.myPhase \in Phases(J) /\ s.target \in Phases(J)
    BY <1>1, <1>4, CandidatesArePhases DEF Walking, Sound, Belief
  <2>3. t + 1 >= s.holdUntil BY <1>2, <1>4, <2>2
  <2>4. ASSUME next = s.myPhase PROVE t + 1 > s.holdUntil
    <3>1. s.target = s.myPhase BY <2>2, <2>4, NextPhaseFacts
    <3>2. ~(t < s.holdUntil) BY <1>4, <3>1 DEF Arrived
    <3> QED BY <1>2, <3>2
  <2>5. NewChain(s, next, t + 1)
    <3> HIDE DEF next
    <3> QED BY <1>2, <2>4 DEF NewChain
  <2>6. Sendable(s, next, t)
    <3>1. next = s.myPhase /\ t + 1 <= s.holdUntil => FALSE
      <4> HIDE DEF next
      <4> QED BY <1>2, <2>4
    <3> QED BY <2>3, <3>1 DEF Sendable
  <2>7. SameHold(s, s) BY DEF SameHold
  <2> QED BY <1>1, <2>1, <2>2, <2>5, <2>6, <2>7, WalkStepDecided
<1>5. CASE Walking(s) /\ Arrived(s, t)
  <2> DEFINE r == [s EXCEPT !.target = None]
  <2>1. DecideProgram(s, count, t) = Serve(r, count, t) BY <1>5 DEF DecideProgram
  <2>2. r \in Belief /\ SameHold(s, r) /\ r.target = None BY <1>1 DEF Belief, SameHold
  <2>3. s.myPhase \in Candidates BY <1>1, <1>5 DEF Walking, Arrived, Belief
  <2> HIDE DEF r
  <2>4. r.myPhase = s.myPhase BY <2>2 DEF SameHold
  <2>5. Sound(r) BY <2>2, <2>3, <2>4, CandidatesArePhases DEF Sound
  <2> QED BY <2>1, <2>2, <2>5, ServeDecided, DecidedSame
<1>6. CASE ~Walking(s)
  <2>1. DecideProgram(s, count, t) = Serve(s, count, t) BY <1>6 DEF DecideProgram
  <2> QED BY <2>1, ServeDecided
<1> QED BY <1>3, <1>4, <1>5, <1>6

-----------------------------------------------------------------------------
(***************************************************************************)
(* What the controller and the kernel know of each other.                  *)
(***************************************************************************)

\* Where the kernel will have ended the hold the controller believes in.
End(s) == Smaller(s.holdUntil, s.chainStart + HoldMax)

\* The belief is the newest entry, or that entry has ended and been swept.
Told(s, h, t) ==
  /\ h = {} => s.myPhase = None \/ End(s) <= t
  /\ h # {} => /\ Newest(h).phase = s.myPhase
               /\ Newest(h).chainStart = s.chainStart
               /\ Newest(h).until = End(s)

\* The belief is what the directive will install at boundary b.
Pending(s, d, h, b) ==
  /\ d.phase = s.myPhase
  /\ ChainStart(h, d, b) = s.chainStart
  /\ HoldEnd(h, d, b) = End(s) /\ End(s) > b

\* What EnqueueSignal makes of a verb.
AsDirective(v) ==
  [id |-> v.id, signal |-> J, phase |-> v.phase, hold |-> EffectiveHold(J, v.hold)]

Verb == [id : Nat, phase : Phases(J), hold : Nat \ {0}]
Boundary == IF pc = "between" THEN tick + 1 ELSE tick
Quiet == verbs = <<>> /\ sigNew = <<>>

\* One thing is under way at a time: a snapshot, a verb, its directive.
OneAtATime ==
  /\ pc # "between" => ~snapshot /\ verbs = <<>>
  /\ pc = "drive" => sigNew = <<>>
  /\ snapshot => Quiet

Known ==
  \/ Quiet /\ Told(ps, sigOv[J], tick)
  \/ \E v \in Verb : /\ verbs = <<v>> /\ sigNew = <<>>
                     /\ Pending(ps, AsDirective(v), sigOv[J], tick + 1)
  \/ \E d \in Directive(1 .. HoldMax) :
        /\ verbs = <<>> /\ sigNew = <<d>> /\ d.signal = J
        /\ Pending(ps, d, sigOv[J], Boundary)

\* Every verb that was applied has a hold of its own.
Effective ==
  /\ pc = "between" \/ sigNew # <<>> => appliedSig = <<>>
  /\ \A i \in DOMAIN appliedSig : appliedSig[i].hold > 0

\* From the phase shown last to this one is a step of a walk.
StepTo(phase) ==
  LET from == shown[J][0].phase
  IN  shown[J][0].held /\ phase # from =>
        /\ phase = NextPhase(from)
        /\ Movement(from) \/ heldFor[J] >= NaturalDuration(from)

InOrder ==
  /\ ~Quiet => StepTo(ps.myPhase)
  /\ pc # "between" /\ Quiet /\ Held(sigOv[J], tick) => StepTo(SigPhaseAt(J, tick))

AgentTypes ==
  /\ Sound(ps)
  /\ verbs \in Seq(Verb)
  /\ snapshot \in BOOLEAN /\ late \in Nat

\* A generation under construction is a prefix of the table, an installed one
\* the whole of it.
Prefix(n) == [i \in 1 .. n |-> i]
Tables ==
  {tb \in [acc : Seq(Nat), installed : {{}, 1 .. Chunk}] :
     \E len \in 0 .. (Chunk - 1) : tb.acc = Prefix(len)}

TableOK == table \in Tables /\ \A to \in DOMAIN streams : streams[to].wire \in Seq(1 .. Chunk)

\* Nothing was missed: the controller and the kernel are in step.
InStep == OneAtATime /\ Known /\ Effective /\ InOrder

AgentInv == IInv /\ Chains /\ AgentTypes /\ TableOK /\ (late = 0 => InStep)

\* The newest entry alone decides what a program shows now.
LEMMA NewestDecides ==
  ASSUME NEW p \in Program, NEW t \in Nat, NEW h, HistoryOK(p, h, t)
  PROVE  /\ h = {} => DisplayIn(p, h, t) = [phase |-> FixedPhase(p, t), held |-> FALSE]
         /\ h # {} => /\ Newest(h).since \in 0 .. t /\ Newest(h).until \in Nat
                      /\ Newest(h).chainStart \in 0 .. Newest(h).since
                      /\ Newest(h).phase \in Phases(p)
                      /\ DisplayIn(p, h, t) = IF Newest(h).until > t
                                              THEN [phase |-> Newest(h).phase, held |-> TRUE]
                                              ELSE [phase |-> FixedPhase(p, t), held |-> FALSE]
<1>1. h = {} => DisplayIn(p, h, t) = [phase |-> FixedPhase(p, t), held |-> FALSE]
  BY DisplayOfNone
<1>2. ASSUME h # {}
      PROVE  /\ Newest(h).since \in 0 .. t /\ Newest(h).until \in Nat
             /\ Newest(h).chainStart \in 0 .. Newest(h).since
             /\ Newest(h).phase \in Phases(p)
             /\ DisplayIn(p, h, t) = IF Newest(h).until > t
                                     THEN [phase |-> Newest(h).phase, held |-> TRUE]
                                     ELSE [phase |-> FixedPhase(p, t), held |-> FALSE]
  <2> DEFINE n == Newest(h)
  <2>1. n \in h /\ \A o \in h : o # n => o.until <= n.since
    BY <1>2, NewestExists
  <2>2. /\ n.since \in 0 .. t /\ n.until \in Nat /\ n.chainStart \in 0 .. n.since
        /\ n.phase \in Phases(p) /\ \A o \in h : o.until \in Nat
    <3> HIDE DEF n
    <3> QED BY <2>1 DEF HistoryOK, EntryOK, Override
  <2>3. CASE n.until > t
    <3>1. Covers(n, t)
      <4> HIDE DEF n
      <4> QED BY <2>2, <2>3 DEF Covers
    <3> HIDE DEF n
    <3>2. DisplayIn(p, h, t) = [phase |-> n.phase, held |-> TRUE]
      BY <2>1, <3>1, DisplayOfEntry
    <3> QED BY <2>2, <2>3, <3>2 DEF n
  <2>4. CASE ~(n.until > t)
    <3>1. \A o \in h : ~Covers(o, t)
      <4> HIDE DEF n
      <4>1. \A o \in h : o.until <= t BY <2>1, <2>2, <2>4
      <4> QED BY <2>2, <4>1 DEF Covers
    <3>2. DisplayIn(p, h, t) = [phase |-> FixedPhase(p, t), held |-> FALSE]
      BY <3>1, DisplayOfNone
    <3> HIDE DEF n
    <3> QED BY <2>2, <2>4, <3>2 DEF n
  <2> QED BY <2>3, <2>4
<1> QED BY <1>1, <1>2

LEMMA DisplayedIs ==
  ASSUME NEW p, NEW t
  PROVE  /\ Displayed(p, t) = DisplayIn(p, sigOv[p], t)
         /\ SigPhaseAt(p, t) = DisplayIn(p, sigOv[p], t).phase
         /\ Held(sigOv[p], t) = DisplayIn(p, sigOv[p], t).held
BY DEF Displayed, DisplayIn, SigPhaseAt

\* Between Steps a safe command is a step from what the junction shows.
LEMMA CommandSteps ==
  ASSUME IInv, Chains, pc = "between", Sound(ps), Told(ps, sigOv[J], tick),
         NEW phase, Sendable(ps, phase, tick)
  PROVE  StepTo(phase)
<1> DEFINE h == sigOv[J]
           n == Newest(h)
           from == shown[J][0].phase
<1>1. J \in Program /\ tick \in Nat /\ HistoryOK(J, h, tick) /\ TypeOK
  BY AgentAssumption, Histories DEF IInv, TypeOK
<1> SUFFICES ASSUME shown[J][0].held, phase # from
             PROVE  /\ phase = NextPhase(from)
                    /\ Movement(from) \/ heldFor[J] >= NaturalDuration(from)
  BY DEF StepTo
<1>2. DisplayIn(J, h, tick) = shown[J][0]
  <2>1. 0 \in 0 .. Clearance[J] BY <1>1, ProgramAssumption
  <2>2. DisplayIn(J, h, tick - 0) = shown[J][0] BY <1>1, <2>1 DEF IInv, TableAnswers
  <2> QED BY <1>1, <2>2
<1>3. /\ h # {} /\ n.until \in Nat /\ n.until > tick /\ from = n.phase /\ n.phase \in Phases(J)
      /\ n.chainStart \in Nat /\ n.chainStart <= tick
  <2>1. h # {}
    BY <1>1, <1>2, NewestDecides
  <2>2. /\ n.since \in 0 .. tick /\ n.until \in Nat /\ n.chainStart \in 0 .. n.since
        /\ n.phase \in Phases(J)
        /\ shown[J][0] = IF n.until > tick THEN [phase |-> n.phase, held |-> TRUE]
                         ELSE [phase |-> FixedPhase(J, tick), held |-> FALSE]
    BY <1>1, <1>2, <2>1, NewestDecides
  <2> HIDE DEF h, n
  <2>3. n.until > tick BY <2>2
  <2>4. from = n.phase BY <2>2, <2>3
  <2> QED BY <1>1, <2>1, <2>2, <2>3, <2>4
<1> HIDE DEF n
<1>4. n.phase = ps.myPhase /\ n.chainStart = ps.chainStart /\ n.until = End(ps)
  BY <1>3 DEF Told, n
<1>5. ps.holdUntil \in Nat /\ ps.chainStart \in Nat /\ HoldMax \in Nat
  BY OverrideAssumption DEF Sound, Belief
<1>6. ps.holdUntil > tick BY <1>1, <1>3, <1>4, <1>5 DEF End, Smaller
<1>7. InHold(ps, tick)
  <2>1. ps.myPhase # None BY <1>3, <1>4, PhaseFacts DEF None
  <2> QED BY <1>1, <1>5, <1>6, <2>1 DEF InHold
<1>8. phase = NextPhase(from) /\ (Movement(from) \/ tick + 1 >= ps.holdUntil)
  BY <1>3, <1>4, <1>7 DEF Sendable
<1>9. ASSUME ~Movement(from) PROVE heldFor[J] >= NaturalDuration(from)
  <2>1. ps.holdUntil = ps.chainStart + NaturalDuration(from)
    BY <1>3, <1>4, <1>9, PhaseFacts DEF Sound, None
  <2>2. heldFor[J] >= (tick + 1) - n.chainStart
    <3>1. ChainOK(h, shown[J][0], heldFor[J], tick + 1) BY <1>1 DEF Chains
    <3> QED BY <1>1, <1>3, <3>1 DEF ChainOK, n
  <2>3. NaturalDuration(from) \in Nat /\ heldFor[J] \in Nat
    BY <1>1, <1>3, PhaseFacts DEF TypeOK
  <2> QED BY <1>1, <1>3, <1>4, <1>5, <1>8, <1>9, <2>1, <2>2, <2>3
<1> QED BY <1>8, <1>9

\* The kernel will make of a safe command what the controller notes of it: both
\* start a chain, or both continue one, and both bound its hold.
LEMMA SentIsPending ==
  ASSUME NEW t \in Nat, NEW h, HistoryOK(J, h, t), NEW s, Sound(s), Told(s, h, t),
         NEW r \in Belief, SameHold(s, r), NEW phase \in Phases(J), NEW hold \in Nat \ {0},
         Sendable(s, phase, t), NEW id
  PROVE  Pending(Command(r, phase, hold, t).belief,
                 AsDirective([id |-> id, phase |-> phase, hold |-> hold]), h, t + 1)
<1> DEFINE b == Command(r, phase, hold, t).belief
           d == AsDirective([id |-> id, phase |-> phase, hold |-> hold])
           n == Newest(h)
           fresh == NewChain(s, phase, t + 1)
<1>1. /\ b.myPhase = phase /\ b.holdUntil = t + 1 + hold
      /\ b.chainStart = IF fresh THEN t + 1 ELSE s.chainStart
  <2>1. hold \in Nat /\ NewChain(r, phase, t + 1) = fresh /\ r.chainStart = s.chainStart
    BY DEF SameHold, NewChain
  <2>2. b = Sent(r, phase, hold, t) BY DEF Command
  <2> HIDE DEF b, fresh
  <2>3. b.myPhase = phase /\ b.holdUntil = t + 1 + hold BY <2>2 DEF Sent, Belief
  <2>4. b.chainStart = IF NewChain(r, phase, t + 1) THEN t + 1 ELSE r.chainStart
    BY <2>2 DEF Sent, Belief
  <2> QED BY <2>1, <2>3, <2>4
<1>2. d.phase = phase /\ d.hold = Smaller(hold, HoldMax)
  BY DEF AsDirective, EffectiveHold
<1>3. /\ HoldMax \in Nat \ {0} /\ s.holdUntil \in Nat /\ s.chainStart \in Nat /\ J \in Program
      /\ phase # None
  BY OverrideAssumption, AgentAssumption, PhaseFacts DEF Sound, Belief, None
<1>4. h # {} => /\ n.phase = s.myPhase /\ n.chainStart = s.chainStart /\ n.until = End(s)
                /\ n.until \in Nat /\ n.chainStart <= t
  <2>1. h # {} => n.phase = s.myPhase /\ n.chainStart = s.chainStart /\ n.until = End(s)
    BY DEF Told
  <2>2. h # {} => n.since \in 0 .. t /\ n.until \in Nat /\ n.chainStart \in 0 .. n.since
    BY <1>3, NewestDecides
  <2> HIDE DEF n
  <2> QED BY <2>1, <2>2
<1>5. h = {} => s.myPhase = None \/ End(s) <= t BY DEF Told
<1>6. Renews(h, d, t + 1) <=> h # {} /\ n.phase = phase /\ n.until >= t + 1
  BY <1>2 DEF Renews
<1>7. ChainStart(h, d, t + 1) = IF Renews(h, d, t + 1) THEN n.chainStart ELSE t + 1
  BY DEF ChainStart
<1>8. HoldEnd(h, d, t + 1) = Smaller((t + 1) + d.hold, ChainStart(h, d, t + 1) + HoldMax)
  BY DEF HoldEnd
<1> HIDE DEF b, d, n
<1>9. ChainStart(h, d, t + 1) = b.chainStart /\ b.chainStart \in Nat /\ b.chainStart <= t + 1
      /\ b.chainStart + HoldMax > t + 1
  <2>1. CASE fresh
    <3>1. ~Renews(h, d, t + 1)
      BY <1>3, <1>4, <1>6, <2>1 DEF NewChain, End, Smaller
    <3>2. ChainStart(h, d, t + 1) = t + 1 /\ b.chainStart = t + 1
      <4> HIDE DEF fresh
      <4> QED BY <1>1, <1>7, <2>1, <3>1
    <3> QED BY <1>3, <3>2
  <2>2. CASE ~fresh
    <3>1. phase = s.myPhase /\ t + 1 <= s.holdUntil BY <1>3, <2>2 DEF NewChain
    <3>2. s.chainStart + HoldMax > t + 1 BY <3>1 DEF Sendable
    <3>3. End(s) >= t + 1 BY <1>3, <3>1, <3>2 DEF End, Smaller
    <3>4. h # {}
      <4>1. End(s) \in Nat BY <1>3 DEF End, Smaller
      <4> QED BY <1>3, <1>5, <3>1, <3>3, <4>1
    <3>5. Renews(h, d, t + 1) BY <1>4, <1>6, <3>1, <3>3, <3>4
    <3>6. b.chainStart = s.chainStart
      <4> HIDE DEF fresh
      <4> QED BY <1>1, <2>2
    <3> QED BY <1>3, <1>4, <1>7, <3>2, <3>4, <3>5, <3>6
  <2> QED BY <2>1, <2>2
<1>10. HoldEnd(h, d, t + 1) = End(b) /\ End(b) > t + 1
  BY <1>1, <1>2, <1>3, <1>8, <1>9 DEF End, Smaller
<1> QED BY <1>1, <1>2, <1>9, <1>10 DEF Pending, b, d

-----------------------------------------------------------------------------
(***************************************************************************)
(* The steps.                                                              *)
(***************************************************************************)

\* Every step of the junction is one of the kernel's, whatever the verbs ask for.
LEMMA JunctionKernel == AgentTypes /\ [JunctionNext]_junctionVars => KernelNext
<1> SUFFICES ASSUME AgentTypes, [JunctionNext]_junctionVars PROVE KernelNext
  OBVIOUS
<1>1. CASE Deliver
  <2> DEFINE v == Head(verbs)
  <2>1. v \in Verb BY <1>1, HeadTailProperties DEF Deliver, AgentTypes
  <2>2. v.id \in RequestId /\ EnqueueSignal(v.id, J, v.phase, v.hold) BY <1>1 DEF Deliver
  <2> HIDE DEF v
  <2>3. v.phase \in Phases(J) /\ v.hold \in Nat BY <2>1 DEF Verb
  <2> QED BY <2>2, <2>3, AgentAssumption DEF KernelNext
<1>2. CASE NextBoundary BY <1>2 DEF NextBoundary, KernelNext
<1>3. CASE StepOn BY <1>3 DEF StepOn, KernelNext
<1>4. CASE Publish BY <1>4 DEF Publish, KernelNext
<1>5. CASE UNCHANGED vars BY <1>5 DEF KernelNext
<1>6. ASSUME NEW count \in [Link -> 0..MaxCount], OnSnapshot(count) PROVE UNCHANGED vars
  BY <1>6 DEF OnSnapshot
<1>7. ASSUME NEW to, PublishTable(to) \/ OnSigTable(to) \/ LoseChunk(to) PROVE UNCHANGED vars
  BY <1>7 DEF PublishTable, OnSigTable, LoseChunk
<1>8. CASE JunctionOver \/ UNCHANGED junctionVars
  BY <1>8, <1>5 DEF JunctionOver, junctionVars
<1> QED BY <1>1, <1>2, <1>3, <1>4, <1>5, <1>6, <1>7, <1>8 DEF JunctionNext

\* Whatever chunk comes, a generation is a prefix of the table until it is whole.
LEMMA AccumulatedOK ==
  ASSUME NEW tb \in Tables, NEW i \in 1 .. Chunk
  PROVE  Accumulated(tb, i) \in Tables
<1> DEFINE acc == IF i = Len(tb.acc) + 1 THEN Append(tb.acc, i) ELSE IF i = 1 THEN <<1>> ELSE <<>>
           whole == i = Chunk /\ Len(acc) = Chunk
           new == Accumulated(tb, i)
<1>0. Chunk \in Nat \ {0} BY AgentAssumption
<1>1. PICK n \in 0 .. (Chunk - 1) : tb.acc = Prefix(n)
  BY DEF Tables
<1>2. ASSUME NEW m \in Nat PROVE Prefix(m) \in Seq(Nat) /\ Len(Prefix(m)) = m
  BY DEF Prefix
<1>3. n \in Nat /\ Len(tb.acc) = n /\ tb.installed \in {{}, 1 .. Chunk}
  BY <1>0, <1>1, <1>2 DEF Tables
<1>4. \E m \in 0 .. Chunk : acc = Prefix(m) /\ (m = Chunk => i = Chunk)
  <2>1. CASE i = n + 1
    <3>1. acc = Append(Prefix(n), i) BY <1>1, <1>3, <2>1
    <3>2. /\ Append(Prefix(n), i) = [k \in 1 .. (n + 1) |-> IF k <= n THEN Prefix(n)[k] ELSE i]
      BY <1>2, <1>3, <2>1, AppendProperties
    <3>3. Append(Prefix(n), i) = Prefix(i) BY <1>3, <2>1, <3>2 DEF Prefix
    <3> HIDE DEF acc
    <3> QED BY <3>1, <3>3
  <2>2. CASE i # n + 1 /\ i = 1
    <3>1. acc = <<1>> BY <1>3, <2>2
    <3> HIDE DEF acc
    <3>2. acc = Prefix(1) BY <3>1 DEF Prefix
    <3> QED BY <1>0, <2>2, <3>2
  <2>3. CASE i # n + 1 /\ i # 1
    <3>1. acc = <<>> BY <1>3, <2>3
    <3> HIDE DEF acc
    <3>2. acc = Prefix(0) BY <3>1 DEF Prefix
    <3> QED BY <1>0, <3>2
  <2> QED BY <2>1, <2>2, <2>3
<1>5. PICK m \in 0 .. Chunk : acc = Prefix(m) /\ (m = Chunk => i = Chunk) BY <1>4
<1> HIDE DEF acc
<1>6. Len(acc) = m BY <1>0, <1>2, <1>5
<1>7. CASE whole
  <2>1. new = [acc |-> <<>>, installed |-> tb.installed \cup ToSet(acc)]
    BY <1>7 DEF Accumulated, acc
  <2>2. ToSet(acc) = 1 .. Chunk BY <1>5, <1>6, <1>7 DEF ToSet, Prefix
  <2>3. <<>> = Prefix(0) /\ <<>> \in Seq(Nat) BY DEF Prefix
  <2>4. tb.installed \cup ToSet(acc) = 1 .. Chunk BY <1>3, <2>2
  <2> HIDE DEF new
  <2>5. new = [acc |-> <<>>, installed |-> 1 .. Chunk] BY <2>1, <2>4
  <2>6. 0 \in 0 .. (Chunk - 1) BY <1>0
  <2>7. new \in Tables BY <2>3, <2>5, <2>6 DEF Tables
  <2> QED BY <2>7 DEF new
<1>8. CASE ~whole
  <2>1. new = [tb EXCEPT !.acc = acc] BY <1>8 DEF Accumulated, acc
  <2>2. m \in 0 .. (Chunk - 1) BY <1>0, <1>5, <1>6, <1>8
  <2> HIDE DEF new
  <2>3. /\ new \in [acc : Seq(Nat), installed : {{}, 1 .. Chunk}]
        /\ new.acc = Prefix(m)
    <3>1. acc \in Seq(Nat) BY <1>0, <1>2, <1>5
    <3> QED BY <1>5, <2>1, <3>1 DEF Tables
  <2>4. new \in Tables BY <2>2, <2>3 DEF Tables
  <2> QED BY <2>4 DEF new
<1> QED BY <1>7, <1>8

LEMMA TableNext ==
  ASSUME TableOK, [JunctionNext]_junctionVars
  PROVE  TableOK'
<1>0. Chunk \in Nat \ {0} BY AgentAssumption
<1>1. ASSUME NEW to \in DOMAIN streams, PublishTable(to) PROVE TableOK'
  <2> DEFINE wire == [i \in 1..Chunk |-> i]
  <2>1. wire \in Seq(1..Chunk) BY <1>0
  <2>2. /\ streams' = [streams EXCEPT ![to] = [sent |-> streams[to].sent + 1, wire |-> wire]]
        /\ table' = table
    BY <1>1 DEF PublishTable
  <2> HIDE DEF wire
  <2> QED BY <2>1, <2>2 DEF TableOK
<1>2. ASSUME NEW to \in DOMAIN streams, OnSigTable(to) PROVE TableOK'
  <2> DEFINE wire == streams[to].wire
  <2>1. wire \in Seq(1..Chunk) /\ wire # <<>> BY <1>2 DEF TableOK, OnSigTable
  <2>2. Head(wire) \in 1..Chunk /\ Tail(wire) \in Seq(1..Chunk) BY <2>1, HeadTailProperties
  <2>3. table' = Accumulated(table, Head(wire)) BY <1>2 DEF OnSigTable
  <2>4. table' \in Tables BY <2>2, <2>3, AccumulatedOK DEF TableOK
  <2>5. \A x \in DOMAIN streams' : streams'[x].wire \in Seq(1..Chunk)
    <3>1. streams' = [streams EXCEPT ![to].wire = Tail(wire)] BY <1>2 DEF OnSigTable
    <3>2. \A x \in DOMAIN streams : x # to => streams'[x] = streams[x] BY <3>1
    <3>3. streams'[to] = [streams[to] EXCEPT !.wire = Tail(wire)] BY <3>1
    <3>4. streams'[to].wire = Tail(wire) \/ streams'[to].wire = streams[to].wire BY <3>3
    <3>5. DOMAIN streams' = DOMAIN streams BY <3>1
    <3> QED BY <2>1, <2>2, <3>2, <3>4, <3>5 DEF TableOK
  <2> QED BY <2>4, <2>5 DEF TableOK
<1>3. ASSUME NEW to \in DOMAIN streams, LoseChunk(to) PROVE TableOK'
  <2> DEFINE wire == streams[to].wire
  <2>1. wire \in Seq(1..Chunk) /\ wire # <<>> BY <1>3 DEF TableOK, LoseChunk
  <2>2. Tail(wire) \in Seq(1..Chunk) BY <2>1, HeadTailProperties
  <2>3. streams' = [streams EXCEPT ![to].wire = Tail(wire)] /\ table' = table
    BY <1>3 DEF LoseChunk
  <2>4. \A x \in DOMAIN streams : x # to => streams'[x] = streams[x] BY <2>3
  <2>5. streams'[to] = [streams[to] EXCEPT !.wire = Tail(wire)] BY <2>3
  <2>6. streams'[to].wire = Tail(wire) \/ streams'[to].wire = streams[to].wire BY <2>5
  <2>7. DOMAIN streams' = DOMAIN streams BY <2>3
  <2> QED BY <2>1, <2>2, <2>3, <2>4, <2>6, <2>7 DEF TableOK
<1>4. ASSUME UNCHANGED <<table, streams>> PROVE TableOK'
  BY <1>4 DEF TableOK
<1> QED
  BY <1>1, <1>2, <1>3, <1>4
  DEF JunctionNext, OnSnapshot, Deliver, NextBoundary, StepOn, Publish, JunctionOver,
      agentVars, junctionVars

\* The belief stays sound, the verbs stay verbs.
LEMMA TypesNext ==
  ASSUME IInv, AgentTypes, [JunctionNext]_junctionVars
  PROVE  AgentTypes'
<1>0. tick \in Nat BY DEF IInv, TypeOK
<1>1. ASSUME NEW count, OnSnapshot(count) PROVE AgentTypes'
  <2> DEFINE s   == [ps EXCEPT !.lastDecide = tick]
             did == DecideProgram(s, count, tick)
  <2>1. Sound(s)
    <3>1. s \in Belief /\ SameHold(ps, s) /\ s.target = ps.target
      BY <1>0 DEF AgentTypes, Sound, Belief, SameHold
    <3> HIDE DEF s
    <3> QED BY <3>1 DEF AgentTypes, Sound, SameHold
  <2>2. /\ \/ ps' = did.belief /\ verbs' = verbs \o did.verb
           \/ UNCHANGED <<ps, verbs>>
        /\ snapshot' = FALSE /\ late' = late
    BY <1>1 DEF OnSnapshot
  <2> HIDE DEF s
  <2>3. Decided(s, did, tick) BY <1>0, <2>1, ProgramDecided
  <2>4. Sound(did.belief) BY <2>3 DEF Decided
  <2>5. did.verb \in Seq(Verb)
    <3>1. CASE did.verb = <<>> BY <3>1
    <3>2. CASE did.verb # <<>>
      <4>1. PICK r, phase, hold : /\ SameHold(s, r) /\ did = Command(r, phase, hold, tick)
                                  /\ phase \in Phases(J) /\ hold \in Nat \ {0}
        BY <2>3, <3>2 DEF Decided
      <4> HIDE DEF did
      <4>2. did.verb = <<[id |-> r.seq, phase |-> phase, hold |-> hold]>> BY <4>1 DEF Command
      <4>3. r.seq \in Nat BY <2>1, <4>1 DEF SameHold, Sound, Belief
      <4>4. [id |-> r.seq, phase |-> phase, hold |-> hold] \in Verb BY <4>1, <4>3 DEF Verb
      <4> QED BY <4>2, <4>4
    <3> QED BY <3>1, <3>2
  <2> HIDE DEF did
  <2>6. verbs \o did.verb \in Seq(Verb) BY <2>5, ConcatProperties DEF AgentTypes
  <2> QED BY <2>2, <2>4, <2>6 DEF AgentTypes
<1>2. CASE Deliver
  <2>1. verbs' \in Seq(Verb) BY <1>2, HeadTailProperties DEF Deliver, AgentTypes
  <2> QED BY <1>2, <2>1 DEF Deliver, AgentTypes
<1>3. CASE NextBoundary
  <2>1. /\ late' = late \/ late' = late + 1
        /\ ps' = ps /\ verbs' = verbs /\ snapshot' = FALSE
    BY <1>3 DEF NextBoundary
  <2>2. late' \in Nat BY <2>1 DEF AgentTypes
  <2>3. snapshot' \in BOOLEAN BY <2>1
  <2>4. Sound(ps') /\ verbs' \in Seq(Verb) BY <2>1 DEF AgentTypes
  <2> QED BY <2>2, <2>3, <2>4 DEF AgentTypes
<1>4. CASE StepOn BY <1>4 DEF StepOn, agentVars, AgentTypes
<1>5. CASE Publish BY <1>5 DEF Publish, AgentTypes
<1>6. ASSUME UNCHANGED <<ps, snapshot, verbs, late>> PROVE AgentTypes'
  BY <1>6 DEF AgentTypes
<1> QED
  BY <1>1, <1>2, <1>3, <1>4, <1>5, <1>6
  DEF JunctionNext, PublishTable, OnSigTable, LoseChunk, JunctionOver, agentVars, junctionVars

\* A snapshot comes when nothing is under way, and its decision sends one verb at
\* most.
LEMMA SnapshotInStep ==
  ASSUME IInv, Chains, AgentTypes, InStep, NEW count, OnSnapshot(count)
  PROVE  InStep'
<1> DEFINE s   == [ps EXCEPT !.lastDecide = tick]
           did == DecideProgram(s, count, tick)
           h   == sigOv[J]
<1>1. /\ snapshot /\ ~snapshot'
      /\ \/ ps' = did.belief /\ verbs' = verbs \o did.verb
         \/ UNCHANGED <<ps, verbs>>
      /\ UNCHANGED <<tick, pc, sigNew, sigOv, appliedSig, shown, heldFor>>
  BY DEF OnSnapshot, vars, kernel
<1>2. verbs = <<>> /\ sigNew = <<>> /\ pc = "between"
  BY <1>1 DEF InStep, OneAtATime, Quiet
<1>3. Told(ps, h, tick) BY <1>2 DEF InStep, Known
<1>4. tick \in Nat /\ J \in Program /\ HistoryOK(J, h, tick)
  BY AgentAssumption, Histories DEF IInv, TypeOK
<1>5. Sound(s) /\ SameHold(ps, s) /\ Told(s, h, tick)
  <2>1. s \in Belief /\ SameHold(ps, s) /\ s.target = ps.target
    BY <1>4 DEF AgentTypes, Sound, Belief, SameHold
  <2> HIDE DEF s
  <2> QED BY <1>3, <2>1 DEF AgentTypes, Sound, SameHold, Told, End
<1>6. Decided(s, did, tick)
  <2> HIDE DEF s
  <2> QED BY <1>4, <1>5, ProgramDecided
<1> HIDE DEF s, did, h
<1>7. Effective' /\ OneAtATime'
  BY <1>1, <1>2 DEF InStep, Effective, OneAtATime, Quiet
<1>8. ASSUME verbs' = verbs, SameHold(ps, ps') PROVE InStep'
  <2>1. Told(ps', h, tick) BY <1>3, <1>8 DEF SameHold, Told, End
  <2>2. Quiet' BY <1>1, <1>2, <1>8 DEF Quiet
  <2>3. Known' BY <1>1, <2>1, <2>2 DEF Known, h
  <2>4. InOrder' BY <1>1, <1>2, <2>2 DEF InOrder
  <2> QED BY <1>7, <2>3, <2>4 DEF InStep
<1>9. CASE UNCHANGED <<ps, verbs>>
  BY <1>8, <1>9 DEF SameHold
<1>10. CASE ps' = did.belief /\ verbs' = verbs \o did.verb /\ did.verb = <<>>
  <2>1. verbs' = verbs BY <1>2, <1>10
  <2>2. SameHold(s, did.belief)
    <3>1. \A r, phase, hold : did = Command(r, phase, hold, tick) => did.verb # <<>>
      BY DEF Command
    <3> QED BY <1>6, <1>10, <3>1 DEF Decided
  <2>3. SameHold(ps, ps') BY <1>5, <1>10, <2>2 DEF SameHold
  <2> QED BY <1>8, <2>1, <2>3
<1>11. CASE ps' = did.belief /\ verbs' = verbs \o did.verb /\ did.verb # <<>>
  <2>1. PICK r, phase, hold :
          /\ r \in Belief /\ SameHold(s, r) /\ did = Command(r, phase, hold, tick)
          /\ phase \in Phases(J) /\ hold \in Nat \ {0}
          /\ Sendable(s, phase, tick) /\ Sound(did.belief)
    BY <1>6, <1>11 DEF Decided
  <2> DEFINE v == [id |-> r.seq, phase |-> phase, hold |-> hold]
  <2>2. did.verb = <<v>> /\ did.belief = Sent(r, phase, hold, tick) BY <2>1 DEF Command
  <2>3. r.seq \in Nat BY <1>5, <2>1 DEF SameHold, Sound, Belief
  <2>4. v \in Verb BY <2>1, <2>3 DEF Verb
  <2>5. verbs' = <<v>>
    <3> HIDE DEF v
    <3> QED BY <1>2, <1>11, <2>2, <2>4
  <2>6. Pending(did.belief, AsDirective(v), h, tick + 1)
    BY <1>4, <1>5, <2>1, SentIsPending
  <2>7. StepTo(phase)
    <3>1. Sendable(ps, phase, tick) BY <1>5, <2>1 DEF SameHold, Sendable, InHold
    <3> QED BY <1>2, <1>3, <3>1, CommandSteps DEF AgentTypes, h
  <2>8. ps'.myPhase = phase
    BY <2>6, <1>11 DEF Pending, AsDirective
  <2> HIDE DEF v
  <2>9. Known' BY <1>1, <1>2, <1>11, <2>4, <2>5, <2>6 DEF Known, h
  <2>10. StepTo(ps.myPhase)' BY <1>1, <2>7, <2>8 DEF StepTo
  <2>11. InOrder' BY <1>1, <1>2, <2>10 DEF InOrder
  <2> QED BY <1>7, <2>9, <2>11 DEF InStep
<1> QED BY <1>1, <1>9, <1>10, <1>11

\* The verb becomes the directive it stands for.
LEMMA DeliverInStep ==
  ASSUME IInv, AgentTypes, InStep, Deliver
  PROVE  InStep'
<1>1. /\ verbs # <<>> /\ verbs' = Tail(verbs) /\ pc = "between"
      /\ Head(verbs).id \in RequestId
      /\ sigNew' = Append(sigNew, AsDirective(Head(verbs)))
      /\ UNCHANGED <<ps, snapshot, tick, pc, sigOv, appliedSig, shown, heldFor>>
  BY DEF Deliver, EnqueueSignal, AsDirective
<1>2. PICK v \in Verb : /\ verbs = <<v>> /\ sigNew = <<>>
                        /\ Pending(ps, AsDirective(v), sigOv[J], tick + 1)
  BY <1>1 DEF InStep, Known, Quiet
<1> DEFINE d == AsDirective(v)
<1>3. verbs' = <<>> /\ Head(verbs) = v BY <1>1, <1>2
<1>4. d \in Directive(1 .. HoldMax) /\ d.signal = J
  <2>1. v.id \in RequestId /\ v.phase \in Phases(J) /\ v.hold \in Nat
    BY <1>1, <1>2, <1>3 DEF Verb
  <2>2. v.phase \in Nat BY <2>1, PhaseFacts
  <2>3. EffectiveHold(J, v.hold) \in 1 .. HoldMax
    BY <2>1, AgentAssumption, EffectiveHoldBounded
  <2> QED BY <2>1, <2>2, <2>3, AgentAssumption DEF AsDirective, Directive
<1>5. sigNew' = <<d>> BY <1>1, <1>2, <1>3
<1> HIDE DEF d
<1>6. Boundary' = tick + 1 BY <1>1 DEF Boundary
<1>7. Known'
  <2>1. Pending(ps', d, sigOv'[J], Boundary') BY <1>1, <1>2, <1>6 DEF d
  <2> QED BY <1>3, <1>4, <1>5, <2>1 DEF Known
<1>8. ~Quiet /\ ~snapshot BY <1>1 DEF InStep, OneAtATime, Quiet
<1>9. OneAtATime' /\ Effective'
  BY <1>1, <1>3, <1>8 DEF InStep, OneAtATime, Effective
<1>10. InOrder'
  <2>1. StepTo(ps.myPhase)' BY <1>1, <1>8 DEF InStep, InOrder, StepTo
  <2> QED BY <1>1, <2>1 DEF InOrder
<1> QED BY <1>7, <1>9, <1>10 DEF InStep

\* A boundary that passes nothing by changes the tick only; what is held over it
\* is the phase shown before it.
LEMMA BoundaryInStep ==
  ASSUME IInv, IInv', Chains, AgentTypes, InStep, NextBoundary, late' = 0
  PROVE  InStep'
<1> DEFINE h == sigOv[J]
           n == Newest(h)
<1>1. /\ pc = "between" /\ pc' = "install" /\ tick' = tick + 1 /\ ~snapshot'
      /\ UNCHANGED <<ps, verbs, sigNew, sigOv, appliedSig, shown, heldFor>>
  BY DEF NextBoundary, BeginStep
<1>2. ~snapshot /\ verbs = <<>>
  <2>1. late' = IF snapshot \/ verbs # <<>> THEN late + 1 ELSE late BY DEF NextBoundary
  <2>2. late + 1 # 0 BY DEF AgentTypes
  <2> QED BY <2>1, <2>2
<1>3. /\ tick \in Nat /\ J \in Program /\ tick + 1 \in Nat
      /\ HistoryOK(J, h, tick) /\ HistoryOK(J, h, tick + 1)
  <2>1. J \in Program /\ HistoryOK(J, h, tick) /\ tick \in Nat
    BY AgentAssumption, Histories DEF IInv, TypeOK
  <2>2. HistoryOK(J, sigOv'[J], tick') BY <2>1, HistoriesPrime DEF IInv
  <2> QED BY <1>1, <2>1, <2>2
<1>4. OneAtATime' /\ Effective'
  BY <1>1, <1>2 DEF InStep, OneAtATime, Effective
<1>5. Known'
  <2>1. CASE Quiet /\ Told(ps, h, tick)
    <3>1. End(ps) \in Nat BY OverrideAssumption DEF AgentTypes, Sound, Belief, End, Smaller
    <3> HIDE DEF h
    <3>2. Told(ps, h, tick + 1) BY <1>3, <2>1, <3>1 DEF Told
    <3> QED BY <1>1, <2>1, <3>2 DEF Known, Quiet, h
  <2>2. ASSUME NEW d \in Directive(1 .. HoldMax), verbs = <<>>, sigNew = <<d>>, d.signal = J,
               Pending(ps, d, h, Boundary)
        PROVE  Known'
    <3>1. Boundary' = Boundary BY <1>1 DEF Boundary
    <3>2. Pending(ps', d, sigOv'[J], Boundary') BY <1>1, <2>2, <3>1
    <3> QED BY <1>1, <2>2, <3>2 DEF Known
  <2> QED BY <1>2, <2>1, <2>2 DEF InStep, Known
<1>6. InOrder'
  <2>1. ASSUME ~Quiet' PROVE StepTo(ps.myPhase)'
    BY <1>1, <2>1 DEF InStep, InOrder, Quiet, StepTo
  <2>2. ASSUME Held(sigOv'[J], tick') PROVE StepTo(SigPhaseAt(J, tick))'
    <3>1. DisplayIn(J, h, tick + 1).held BY <1>1, <2>2 DEF DisplayIn
    <3>2. h # {} BY <1>3, <3>1, NewestDecides
    <3>3. /\ n.until \in Nat /\ n.since \in 0 .. (tick + 1) /\ n.chainStart \in 0 .. n.since
          /\ DisplayIn(J, h, tick + 1) = IF n.until > tick + 1
                                         THEN [phase |-> n.phase, held |-> TRUE]
                                         ELSE [phase |-> FixedPhase(J, tick + 1), held |-> FALSE]
      BY <1>3, <3>2, NewestDecides
    <3>4. n.since \in 0 .. tick BY <1>3, <3>2, NewestDecides
    <3> HIDE DEF n
    <3>5. n.until > tick + 1 /\ DisplayIn(J, h, tick + 1).phase = n.phase
      <4>1. n.until > tick + 1 BY <3>1, <3>3
      <4> QED BY <3>3, <4>1
    <3>6. ChainOK(h, shown[J][0], heldFor[J], tick + 1) BY <1>1, <1>3 DEF Chains
    <3>7. shown[J][0].phase = n.phase
      BY <1>3, <3>2, <3>3, <3>4, <3>5, <3>6 DEF ChainOK, n
    <3>8. SigPhaseAt(J, tick)' = n.phase
      <4>1. SigPhaseAt(J, tick)' = DisplayIn(J, h, tick + 1).phase
        BY <1>1 DEF SigPhaseAt, DisplayIn
      <4> QED BY <3>5, <4>1
    <3> QED BY <1>1, <3>7, <3>8 DEF StepTo
  <2> QED BY <2>1, <2>2 DEF InOrder
<1> QED BY <1>4, <1>5, <1>6 DEF InStep

\* The directive is installed as the controller notes it.
LEMMA InstallInStep ==
  ASSUME IInv, AgentTypes, InStep, Install, UNCHANGED agentVars
  PROVE  InStep'
<1> DEFINE h == sigOv[J]
<1>1. /\ pc = "install" /\ sigNew # <<>> /\ sigNew' = Tail(sigNew)
      /\ sigOv' = [sigOv EXCEPT ![Head(sigNew).signal] =
                     Installed(sigOv[Head(sigNew).signal], Head(sigNew), tick)]
      /\ appliedSig' = Recorded(appliedSig, sigOv[Head(sigNew).signal], Head(sigNew), tick)
      /\ UNCHANGED <<tick, pc, shown, heldFor>>
  BY DEF Install
<1>2. PICK d \in Directive(1 .. HoldMax) :
        verbs = <<>> /\ sigNew = <<d>> /\ d.signal = J /\ Pending(ps, d, h, tick)
  <2>1. verbs = <<>> BY <1>1 DEF InStep, OneAtATime
  <2>2. Boundary = tick BY <1>1 DEF Boundary
  <2> QED BY <1>1, <2>1, <2>2 DEF InStep, Known, Quiet
<1>3. Head(sigNew) = d /\ sigNew' = <<>> BY <1>1, <1>2
<1>4. /\ tick \in Nat /\ J \in Program /\ HistoryOK(J, h, tick) /\ DOMAIN sigOv = Program
      /\ appliedSig = <<>>
  BY <1>1, AgentAssumption, Histories DEF IInv, TypeOK, InStep, Effective
<1> DEFINE g == Installed(h, d, tick)
           e == [phase |-> d.phase, since |-> tick, until |-> HoldEnd(h, d, tick),
                 chainStart |-> ChainStart(h, d, tick), id |-> d.id]
<1>5. sigOv'[J] = g /\ appliedSig' = Recorded(<<>>, h, d, tick)
  BY <1>1, <1>2, <1>3, <1>4
<1>6. /\ d.phase = ps.myPhase /\ ChainStart(h, d, tick) = ps.chainStart
      /\ HoldEnd(h, d, tick) = End(ps) /\ End(ps) > tick /\ HoldEnd(h, d, tick) \in Nat
  BY <1>2, <1>4, HoldEndBounded DEF Pending
<1>7. HistoryOK(J, g, tick) /\ g # {} /\ Newest(g) = e
  <2>1. g = Supersede(h, tick) \union {e} BY <1>6 DEF Installed
  <2>2. HistoryOK(J, g, tick) BY <1>2, <1>4, InstalledOK
  <2>3. \A o \in g : o # e => o.until <= e.since BY <1>4, <2>1, SupersedeOK
  <2> HIDE DEF g, e
  <2> QED BY <1>4, <2>1, <2>2, <2>3, NewestIs
<1>8. e.phase = ps.myPhase /\ e.chainStart = ps.chainStart /\ e.until = End(ps) BY <1>6
<1> HIDE DEF g, e
<1>9. Told(ps, g, tick) BY <1>7, <1>8 DEF Told
<1>10. ps' = ps /\ verbs' = <<>> /\ ~snapshot'
  BY <1>1, <1>2 DEF InStep, OneAtATime, agentVars
<1>11. Known' /\ OneAtATime' /\ Quiet'
  <2>1. Quiet' BY <1>3, <1>10 DEF Quiet
  <2>2. Told(ps', sigOv'[J], tick') BY <1>1, <1>5, <1>9, <1>10
  <2> QED BY <1>1, <1>3, <1>10, <2>1, <2>2 DEF Known, OneAtATime
<1>12. Effective'
  <2> DEFINE r == [d EXCEPT !.hold = HoldEnd(h, d, tick) - tick]
  <2>1. HoldEnd(h, d, tick) > tick BY <1>6
  <2>2. Recorded(<<>>, h, d, tick) = <<r>>
    <3>1. Recorded(<<>>, h, d, tick) = Append(<<>>, r)
      <4>1. \A f : [i \in DOMAIN <<>> |-> f[i]] = <<>> OBVIOUS
      <4> QED BY <2>1 DEF Recorded
    <3> QED BY <3>1
  <2>3. r.hold > 0
    <3>1. r.hold = HoldEnd(h, d, tick) - tick BY DEF Directive
    <3> QED BY <1>4, <1>6, <2>1, <3>1
  <2> HIDE DEF r
  <2>4. appliedSig' = <<r>> BY <1>5, <2>2
  <2> QED BY <1>1, <1>3, <2>3, <2>4 DEF Effective
<1>13. InOrder'
  <2>1. StepTo(ps.myPhase) BY <1>1 DEF InStep, InOrder, Quiet
  <2>2. SigPhaseAt(J, tick)' = ps.myPhase
    <3>1. Newest(g).until > tick /\ Newest(g).phase = ps.myPhase BY <1>6, <1>7, <1>8
    <3>2. DisplayIn(J, g, tick) = [phase |-> Newest(g).phase, held |-> TRUE]
      BY <1>4, <1>7, <3>1, NewestDecides
    <3>3. SigPhaseAt(J, tick)' = DisplayIn(J, g, tick).phase
      BY <1>1, <1>5 DEF SigPhaseAt, DisplayIn
    <3> QED BY <3>1, <3>2, <3>3
  <2>3. StepTo(SigPhaseAt(J, tick))' BY <1>1, <2>1, <2>2 DEF StepTo
  <2> QED BY <1>11, <2>3 DEF InOrder
<1> QED BY <1>11, <1>12, <1>13 DEF InStep

\* What the sweep takes away no longer decides anything.
LEMMA SweepInStep ==
  ASSUME IInv, AgentTypes, InStep, Sweep, UNCHANGED agentVars
  PROVE  InStep'
<1> DEFINE h == sigOv[J]
           g == Swept(J, h, tick)
<1>1. /\ pc = "install" /\ pc' = "drive" /\ sigNew = <<>>
      /\ sigOv' = [p \in Program |-> Swept(p, sigOv[p], tick)]
      /\ UNCHANGED <<tick, sigNew, appliedSig, shown, heldFor, ps, verbs, snapshot>>
  BY DEF Sweep, agentVars
<1>2. tick \in Nat /\ J \in Program /\ HistoryOK(J, h, tick)
  BY AgentAssumption, Histories DEF IInv, TypeOK
<1>3. sigOv'[J] = g BY <1>1, <1>2
<1>4. verbs = <<>> /\ ~snapshot /\ Told(ps, h, tick) /\ Quiet
  BY <1>1 DEF InStep, OneAtATime, Known, Quiet
<1>5. OneAtATime' /\ Effective' /\ Quiet'
  BY <1>1, <1>4 DEF InStep, OneAtATime, Effective, Quiet
<1>6. Told(ps, g, tick)
  <2>1. Clearance[J] \in Nat BY <1>2, ProgramAssumption
  <2>2. CASE h = {}
    <3>1. g = {} BY <2>2 DEF Swept
    <3> HIDE DEF g, h
    <3> QED BY <1>4, <2>2, <3>1 DEF Told
  <2>3. CASE h # {}
    <3> DEFINE n == Newest(h)
    <3>1. n \in h /\ \A o \in h : o # n => o.until <= n.since
      BY <1>2, <2>3, NewestExists
    <3>2. \A o \in h : o.since \in Nat /\ o.until \in Nat /\ o.since < o.until
      BY <1>2 DEF HistoryOK, EntryOK, Override
    <3>3. /\ n.phase = ps.myPhase /\ n.chainStart = ps.chainStart /\ n.until = End(ps)
      BY <1>4, <2>3 DEF Told
    <3> HIDE DEF n, h
    <3>4. \A o \in h : o.until <= n.until BY <3>1, <3>2
    <3>5. CASE n \in g
      <4>1. HistoryOK(J, g, tick) BY <1>2, SweptKeepsTheWindow
      <4>2. \A o \in g : o # n => o.until <= n.since BY <3>1 DEF Swept
      <4> HIDE DEF g
      <4>3. Newest(g) = n /\ g # {} BY <1>2, <3>5, <4>1, <4>2, NewestIs
      <4> QED BY <3>3, <4>3 DEF Told
    <3>6. CASE n \notin g
      <4>1. ~(tick <= n.until + Clearance[J]) BY <3>1, <3>6 DEF Swept, Retained
      <4>2. \A o \in h : ~(tick <= o.until + Clearance[J])
        BY <1>2, <2>1, <3>1, <3>2, <3>4, <4>1
      <4>3. g = {} BY <4>2 DEF Swept, Retained
      <4>4. n.until <= tick BY <1>2, <2>1, <3>1, <3>2, <4>1
      <4> HIDE DEF g
      <4> QED BY <3>3, <4>3, <4>4 DEF Told
    <3> QED BY <3>5, <3>6
  <2> QED BY <2>2, <2>3
<1>7. Known' BY <1>1, <1>3, <1>5, <1>6 DEF Known
<1>8. InOrder'
  <2>1. DisplayIn(J, g, tick) = DisplayIn(J, h, tick)
    <3>1. Clearance[J] \in Nat BY <1>2, ProgramAssumption
    <3>2. tick + Clearance[J] + 1 >= tick BY <1>2, <3>1
    <3> HIDE DEF h
    <3> QED BY <1>2, <3>2, SweptKeepsTheWindow
  <2> HIDE DEF g
  <2>2. /\ SigPhaseAt(J, tick)' = DisplayIn(J, g, tick).phase
        /\ (Held(sigOv[J], tick))' = DisplayIn(J, g, tick).held
    BY <1>1, <1>3 DEF SigPhaseAt, DisplayIn
  <2>3. /\ SigPhaseAt(J, tick) = DisplayIn(J, h, tick).phase
        /\ Held(h, tick) = DisplayIn(J, h, tick).held
    BY DisplayedIs
  <2>4. ASSUME (Held(sigOv[J], tick))' PROVE StepTo(SigPhaseAt(J, tick))'
    <3>1. Held(h, tick) BY <2>1, <2>2, <2>3, <2>4
    <3>2. StepTo(SigPhaseAt(J, tick)) BY <1>1, <1>4, <3>1 DEF InStep, InOrder
    <3>3. SigPhaseAt(J, tick)' = SigPhaseAt(J, tick) BY <2>1, <2>2, <2>3
    <3> QED BY <1>1, <3>2, <3>3 DEF StepTo
  <2> QED BY <1>5, <2>4 DEF InOrder
<1> QED BY <1>5, <1>7, <1>8 DEF InStep

\* The Step ends with nothing under way but the snapshot it publishes.
LEMMA PublishInStep ==
  ASSUME InStep, Publish
  PROVE  InStep'
<1>1. /\ pc = "drive" /\ pc' = "between" /\ appliedSig' = <<>>
      /\ UNCHANGED <<tick, sigNew, sigOv, ps, verbs>>
  BY DEF Publish, Drive
<1>2. verbs = <<>> /\ sigNew = <<>> /\ Told(ps, sigOv[J], tick)
  BY <1>1 DEF InStep, OneAtATime, Known
<1>3. Quiet' BY <1>1, <1>2 DEF Quiet
<1>4. Told(ps', sigOv'[J], tick') BY <1>1, <1>2
<1>5. OneAtATime' /\ Known' BY <1>1, <1>2, <1>3, <1>4 DEF OneAtATime, Known
<1>6. Effective' BY <1>1 DEF Effective
<1>7. InOrder' BY <1>1, <1>3 DEF InOrder
<1> QED BY <1>5, <1>6, <1>7 DEF InStep

\* The chunks of the table, and a run that is over, concern nobody.
LEMMA StillInStep ==
  ASSUME InStep, UNCHANGED <<vars, ps, snapshot, verbs>>
  PROVE  InStep'
<1>1. UNCHANGED <<tick, pc, sigNew, sigOv, appliedSig, shown, heldFor>> BY DEF vars, kernel
<1>2. Quiet' = Quiet /\ Boundary' = Boundary BY <1>1 DEF Quiet, Boundary
<1>3. OneAtATime' /\ Effective' BY <1>1, <1>2 DEF InStep, OneAtATime, Effective
<1>4. Known' BY <1>1, <1>2 DEF InStep, Known
<1>5. InOrder' BY <1>1, <1>2 DEF InStep, InOrder, StepTo, SigPhaseAt
<1> QED BY <1>3, <1>4, <1>5 DEF InStep

-----------------------------------------------------------------------------
\* Before the run nothing is believed and nothing is under way.
LEMMA InitAgentInv == JunctionInit => AgentInv
<1> SUFFICES ASSUME JunctionInit PROVE AgentInv
  OBVIOUS
<1>0. /\ Init
      /\ ps = [myPhase |-> None, phaseSince |-> 0, holdUntil |-> 0, chainStart |-> 0,
               callSince |-> 0, target |-> None, lastDecide |-> 0, seq |-> 0]
      /\ table = [acc |-> <<>>, installed |-> {}]
      /\ streams = [to \in {"published", "requested"} |-> [sent |-> 0, wire |-> <<>>]]
      /\ snapshot = FALSE /\ verbs = <<>> /\ late = 0
  BY DEF JunctionInit
<1>1. IInv BY <1>0, InitIInv
<1>2. Chains BY <1>0 DEF Init, Chains, ChainOK
<1>3. AgentTypes
  <2>1. ps \in Belief BY <1>0 DEF Belief
  <2>2. Sound(ps) BY <1>0, <2>1 DEF Sound
  <2>3. verbs \in Seq(Verb) BY <1>0
  <2>4. snapshot \in BOOLEAN BY <1>0
  <2>5. late \in Nat BY <1>0
  <2> QED BY <2>2, <2>3, <2>4, <2>5 DEF AgentTypes
<1>4. TableOK
  <2>1. Chunk \in Nat \ {0} BY AgentAssumption
  <2>2. table \in Tables
    <3>1. <<>> = Prefix(0) BY DEF Prefix
    <3>2. 0 \in 0 .. (Chunk - 1) BY <2>1
    <3> QED BY <1>0, <3>1, <3>2 DEF Tables
  <2>3. \A to \in DOMAIN streams : streams[to].wire \in Seq(1 .. Chunk)
    <3>1. \A to \in DOMAIN streams : streams[to].wire = <<>> BY <1>0
    <3>2. <<>> \in Seq(1 .. Chunk) OBVIOUS
    <3> QED BY <3>1, <3>2
  <2> QED BY <2>2, <2>3 DEF TableOK
<1>5. InStep
  <2>1. Quiet /\ pc = "between" /\ appliedSig = <<>> BY <1>0 DEF Init, Quiet
  <2>2. sigOv[J] = {} BY <1>0, AgentAssumption DEF Init
  <2>3. Told(ps, sigOv[J], tick) BY <1>0, <2>2 DEF Told
  <2>4. OneAtATime /\ Known /\ Effective /\ InOrder
    BY <1>0, <2>1, <2>3 DEF OneAtATime, Known, Effective, InOrder
  <2> QED BY <2>4 DEF InStep
<1> QED BY <1>1, <1>2, <1>3, <1>4, <1>5 DEF AgentInv

LEMMA NextAgentInv == AgentInv /\ [JunctionNext]_junctionVars => AgentInv'
<1> SUFFICES ASSUME AgentInv, [JunctionNext]_junctionVars PROVE AgentInv'
  OBVIOUS
<1>1. IInv /\ Chains /\ AgentTypes /\ TableOK /\ (late = 0 => InStep)
  BY DEF AgentInv
<1>2. KernelNext BY <1>1, JunctionKernel
<1>3. IInv' /\ Chains' BY <1>1, <1>2, NextIInv, NextChains
<1>4. AgentTypes' /\ TableOK' BY <1>1, TypesNext, TableNext
<1>5. ASSUME late' = 0 PROVE InStep'
  <2>1. CASE late # 0
    <3>1. late' = late \/ late' = late + 1
      BY DEF JunctionNext, PublishTable, OnSigTable, LoseChunk, OnSnapshot, Deliver,
             NextBoundary, StepOn, Publish, JunctionOver, agentVars, junctionVars
    <3>2. late \in Nat BY <1>1 DEF AgentTypes
    <3> QED BY <1>5, <2>1, <3>1, <3>2
  <2>2. CASE late = 0
    <3>1. InStep BY <1>1, <2>2
    <3>2. ASSUME NEW count, OnSnapshot(count) PROVE InStep'
      BY <1>1, <3>1, <3>2, SnapshotInStep
    <3>3. CASE Deliver BY <1>1, <3>1, <3>3, DeliverInStep
    <3>4. CASE NextBoundary BY <1>1, <1>3, <1>5, <3>1, <3>4, BoundaryInStep
    <3>5. CASE StepOn BY <1>1, <3>1, <3>5, InstallInStep, SweepInStep DEF StepOn
    <3>6. CASE Publish BY <3>1, <3>6, PublishInStep
    <3>7. CASE UNCHANGED <<vars, ps, snapshot, verbs>> BY <3>1, <3>7, StillInStep
    <3> QED
      BY <3>2, <3>3, <3>4, <3>5, <3>6, <3>7
      DEF JunctionNext, PublishTable, OnSigTable, LoseChunk, JunctionOver, agentVars, junctionVars
  <2> QED BY <2>1, <2>2
<1> QED BY <1>3, <1>4, <1>5 DEF AgentInv

LEMMA AgentInvariance == JunctionSpec => []AgentInv
BY InitAgentInv, NextAgentInv, PTL DEF JunctionSpec

\* sigctl predicts by its own commands what runs: while verbs apply at the next
\* boundary the controller knows the phase in force up to the bound of its chain,
\* none of its verbs is declined by the rail, and the table it decides from is
\* whole, however the chunks of the publications mix.
THEOREM PredictionsAreExact == JunctionSpec => []PredictionIsExact
<1>1. AgentInv => PredictionIsExact
  <2> SUFFICES ASSUME AgentInv PROVE PredictionIsExact
    OBVIOUS
  <2>1. IInv /\ AgentTypes /\ TableOK /\ (late = 0 => InStep)
    BY DEF AgentInv
  <2>2. \A i \in table.installed : table.installed = 1..Chunk
    BY <2>1 DEF TableOK, Tables
  <2>3. ASSUME pc = "drive", late = 0
        PROVE  \A i \in DOMAIN appliedSig : appliedSig[i].hold > 0
    BY <2>1, <2>3 DEF InStep, Effective
  <2>4. ASSUME pc = "drive", late = 0, ~(InHold(ps, tick) /\ tick >= ps.chainStart + HoldMax)
        PROVE  Estimated(ps, tick).phase = SigPhaseAt(J, tick)
    <3> DEFINE h == sigOv[J]
               n == Newest(h)
    <3>1. Told(ps, h, tick)
      BY <2>1, <2>4 DEF InStep, OneAtATime, Known
    <3>2. tick \in Nat /\ J \in Program /\ HistoryOK(J, h, tick)
      BY <2>1, AgentAssumption, Histories DEF IInv, TypeOK
    <3>3. SigPhaseAt(J, tick) = DisplayIn(J, h, tick).phase BY DisplayedIs
    <3>4. /\ ps.holdUntil \in Nat /\ ps.chainStart \in Nat /\ HoldMax \in Nat
      BY <2>1, OverrideAssumption DEF AgentTypes, Sound, Belief
    <3>5. h # {} => /\ n.until \in Nat /\ n.phase \in Phases(J)
                    /\ n.phase = ps.myPhase /\ n.until = End(ps)
                    /\ DisplayIn(J, h, tick) = IF n.until > tick
                                               THEN [phase |-> n.phase, held |-> TRUE]
                                               ELSE [phase |-> FixedPhase(J, tick), held |-> FALSE]
      <4>1. h # {} => n.phase = ps.myPhase /\ n.until = End(ps) BY <3>1 DEF Told
      <4>2. h # {} => /\ n.until \in Nat /\ n.phase \in Phases(J)
                      /\ DisplayIn(J, h, tick) = IF n.until > tick
                                               THEN [phase |-> n.phase, held |-> TRUE]
                                               ELSE [phase |-> FixedPhase(J, tick), held |-> FALSE]
        BY <3>2, NewestDecides
      <4> HIDE DEF n, h
      <4> QED BY <4>1, <4>2
    <3>6. h = {} => /\ DisplayIn(J, h, tick).phase = FixedPhase(J, tick)
                    /\ ps.myPhase = None \/ End(ps) <= tick
      BY <3>1, <3>2, NewestDecides DEF Told
    <3> HIDE DEF n, h
    <3>7. CASE InHold(ps, tick)
      <4>1. End(ps) > tick /\ ps.myPhase # None
        BY <2>4, <3>2, <3>4, <3>7 DEF InHold, End, Smaller
      <4>2. h # {} /\ n.until > tick BY <3>2, <3>4, <3>5, <3>6, <4>1 DEF End, Smaller
      <4>3. DisplayIn(J, h, tick).phase = ps.myPhase BY <3>5, <4>2
      <4> QED BY <3>3, <3>7, <4>3 DEF Estimated
    <3>8. CASE ~InHold(ps, tick)
      <4>1. Estimated(ps, tick).phase = FixedPhase(J, tick)
        BY <3>8 DEF Estimated, FixedPhase
      <4>2. h # {} => ~(n.until > tick)
        <5>1. h # {} => ps.myPhase # None BY <3>5, PhaseFacts DEF None
        <5>2. h # {} => ps.holdUntil <= tick BY <3>2, <3>4, <3>8, <5>1 DEF InHold
        <5> QED BY <3>2, <3>4, <3>5, <5>2 DEF End, Smaller
      <4>3. DisplayIn(J, h, tick).phase = FixedPhase(J, tick) BY <3>5, <3>6, <4>2
      <4> QED BY <3>3, <4>1, <4>3
    <3> QED BY <3>7, <3>8
  <2> QED BY <2>2, <2>3, <2>4 DEF PredictionIsExact
<1> QED BY <1>1, AgentInvariance, PTL

\* walkStep: between two commanded phases the junction shows every phase of the
\* program in table order, each transition for its natural duration, so that no
\* amber or all-red is skipped or cut short.
THEOREM WalksGoInOrder == JunctionSpec => []WalksInOrder
<1>1. AgentInv => WalksInOrder
  <2> SUFFICES ASSUME AgentInv, pc = "drive", late = 0, shown[J][0].held, Held(sigOv[J], tick)
               PROVE  LET from == shown[J][0].phase
                          to   == SigPhaseAt(J, tick)
                      IN  from # to => /\ to = NextPhase(from)
                                       /\ Movement(from) \/ heldFor[J] >= NaturalDuration(from)
    BY DEF WalksInOrder
  <2>1. OneAtATime /\ InOrder BY DEF AgentInv, InStep
  <2>2. Quiet BY <2>1 DEF OneAtATime, Quiet
  <2>3. StepTo(SigPhaseAt(J, tick)) BY <2>1, <2>2 DEF InOrder
  <2> QED BY <2>3 DEF StepTo
<1> QED BY <1>1, AgentInvariance, PTL
==============================================================================
