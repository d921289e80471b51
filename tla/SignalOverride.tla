--------------------------- MODULE SignalOverride ---------------------------
(***************************************************************************)
(* Runtime signal control in the engine kernel (engine/sigctl.go and the   *)
(* derivations of engine/signal.go): signal_set directives are buffered    *)
(* between Steps, installed at the next tick boundary as bounded holds,    *)
(* and lapse back to the fixed-time program.                               *)
(*                                                                         *)
(* One Step of the kernel is a fixed run of actions of this module, in     *)
(* this order, during which nothing else is enabled (the kernel is owned   *)
(* by one goroutine): BeginStep, one Install per buffered directive (the   *)
(* body of the loop of stepSignalOverrides), Sweep, and Drive, the rest of *)
(* the Step, which reads the lights.                                       *)
(***************************************************************************)
EXTENDS SignalProgram, Integers, FiniteSets, SequencesExt

CONSTANTS
  RequestId,    \* director-assigned idempotency keys
  HoldMax,      \* signalHoldMaxTicks: the starvation bound in ticks
  HoldRequests, \* hold_ticks a directive may carry, 0 asks for the default
  MaxBuffered,  \* bound of the model: directives buffered for one boundary
  MaxTick       \* bound of the model: ticks run

ASSUME OverrideAssumption ==
  /\ HoldMax \in Nat \ {0}
  /\ HoldRequests \subseteq Nat
  /\ MaxBuffered \in Nat
  /\ MaxTick \in Nat

VARIABLES
  tick,       \* Engine.Tick
  pc,         \* "between" Steps, or where in the Step the kernel is
  sigNew,     \* directives buffered for the next boundary
  sigOv,      \* [Program -> its overrides]: the held one and ended ones, ordered by since
  appliedSig, \* the verbs the last Step applied, with the hold recorded for each
  sigLapses   \* the holds that reached their bound in the last Step

\* History variables, read by the properties only.
VARIABLES
  shown,      \* [Program -> [age -> what the program displayed that many ticks before the last Drive]]
  heldFor,    \* [Program -> ticks the commanded phase now shown has been shown without a gap]
  ovBefore    \* the override table when the last Step began

kernel == <<tick, pc, sigNew, sigOv, appliedSig, sigLapses>>
vars   == <<kernel, shown, heldFor, ovBefore>>

\* A directive names one of its program's phases; holds are the given ticks.
Directive(holds) ==
  {d \in [id : RequestId, signal : Program, phase : Nat, hold : holds] :
     d.phase \in Phases(d.signal)}
Override(p) ==
  [phase : Phases(p), since : Nat, until : Nat, chainStart : Nat, id : RequestId]
Lapse == [signal : Program, phase : Nat, since : Nat, until : Nat, id : RequestId]

Smaller(a, b) == IF a <= b THEN a ELSE b

-----------------------------------------------------------------------------
(***************************************************************************)
(* Reading the table: what the lights show (engine/signal.go).             *)
(***************************************************************************)
Covers(ov, t) == ov.since <= t /\ t < ov.until

\* The history is a slice in the code, oldest first; entries start at
\* different ticks, so a set with the newest one named says the same.
Newest(h) == CHOOSE ov \in h : \A o \in h : o.since <= ov.since

\* sigPhaseAt: the newest entry covering the tick decides, else the schedule.
Covering(h, t) == {ov \in h : Covers(ov, t)}
Held(h, t) == Covering(h, t) # {}

SigPhaseAt(p, t) ==
  IF Held(sigOv[p], t) THEN Newest(Covering(sigOv[p], t)).phase ELSE FixedPhase(p, t)

\* sigSpanOnset: the phase shown at x, the onset of its span, and whether that
\* onset is the boundary of an override.  The scan is newest first and stops
\* at the first entry that covers x or has ended by x.
SigSpanOnset(p, x) ==
  LET decides == {ov \in sigOv[p] : Covers(ov, x) \/ ov.until <= x}
      ov      == Newest(decides)
      fixed   == PhaseAtElapsed(p, x)
      wraps   == fixed.elapsed > x
      onset   == x - fixed.elapsed
      span(o, b) == [phase |-> fixed.phase, onset |-> o, boundary |-> b]
  IN  CASE decides = {} -> span(IF wraps THEN 0 ELSE onset, FALSE)
        [] decides # {} /\ Covers(ov, x) ->
             [phase |-> ov.phase, onset |-> ov.since, boundary |-> TRUE]
        [] decides # {} /\ ~Covers(ov, x) /\ wraps -> span(ov.until, ov.until > 0)
        [] decides # {} /\ ~Covers(ov, x) /\ ~wraps ->
             span(IF ov.until > onset THEN ov.until ELSE onset, ov.until >= onset)

\* A boundary of an override counts as a change of the light.
UnmergedOnset(p, l, t) == SigSpanOnset(p, t).onset

\* sigDisplayedOnset: spans that show link l the same state merge across the
\* boundaries of overrides, as far back as the clearance window reaches.
SigDisplayedOnset(p, l, t) ==
  LET state == Light[p][SigSpanOnset(p, t).phase][l]
      walk[o \in 0 .. t] ==
        \* the displayed onset, once the span under inspection begins at an override boundary o
        IF o = 0 \/ t - o > Clearance[p] THEN o
        ELSE LET prev == SigSpanOnset(p, o - 1) IN
             CASE Light[p][prev.phase][l] = state /\ prev.boundary -> walk[prev.onset]
               [] Light[p][prev.phase][l] # state -> o
               [] OTHER -> prev.onset
      first == SigSpanOnset(p, t)
  IN  IF first.boundary THEN walk[first.onset] ELSE first.onset

\* sigInClearance: the red now shown began within the clearance window,
\* directly after an amber.
SigInClearance(p, l) ==
  LET onset == SigDisplayedOnset(p, l, tick)
  IN  /\ onset # 0
      /\ tick - onset <= Clearance[p]
      /\ Light[p][SigPhaseAt(p, onset - 1)][l] = "amber"

-----------------------------------------------------------------------------
(***************************************************************************)
(* The bookkeeping of one directive and of the sweep, as functions of the  *)
(* program's history, so that the replay of a record uses the same ones.   *)
(***************************************************************************)

\* Default and clamp of EnqueueSignal.
EffectiveHold(p, hold) == Smaller(IF hold = 0 THEN Cycle(p) ELSE hold, HoldMax)

\* The chain the directive continues, or the tick it starts one at.
RenewsAcrossGaps(h, d, t) == h # {} /\ Newest(h).phase = d.phase
Renews(h, d, t) == h # {} /\ Newest(h).phase = d.phase /\ Newest(h).until >= t
ChainStart(h, d, t) == IF Renews(h, d, t) THEN Newest(h).chainStart ELSE t

\* The outgoing entry gives way at t; one that governed no tick is dropped.
Outgoing(h, t) == [Newest(h) EXCEPT !.until = Smaller(@, t)]
Empties(h, t)  == h # {} /\ Outgoing(h, t).until <= Newest(h).since

Truncated(h, t) == IF h = {} THEN {} ELSE (h \ {Newest(h)}) \union {Outgoing(h, t)}
Supersede(h, t) == IF Empties(h, t) THEN h \ {Newest(h)} ELSE Truncated(h, t)

HoldEnd(h, d, t) == Smaller(t + d.hold, ChainStart(h, d, t) + HoldMax)

\* The history after the directive: a renewal at the chain's bound installs nothing.
Installed(h, d, t) ==
  IF HoldEnd(h, d, t) > t
  THEN Supersede(h, t) \union
         {[phase |-> d.phase, since |-> t, until |-> HoldEnd(h, d, t),
           chainStart |-> ChainStart(h, d, t), id |-> d.id]}
  ELSE Truncated(h, t)

\* The record copies of the tick: the newest copy of an entry that was
\* dropped is stamped 0 (markSignalVerbUnenforced), then the directive
\* follows with the hold it was given.
RecordedIfEnforced(rec, h, d, t) ==
  LET kept == SelectSeq(rec, LAMBDA r : ~(Empties(h, t) /\ r.id = Newest(h).id))
  IN  IF HoldEnd(h, d, t) > t THEN Append(kept, [d EXCEPT !.hold = HoldEnd(h, d, t) - t]) ELSE kept
Recorded(rec, h, d, t) ==
  LET dropped == {i \in DOMAIN rec : Empties(h, t) /\ rec[i].id = Newest(h).id}
      newest  == {i \in dropped : \A j \in dropped : j <= i}
      enforced == IF HoldEnd(h, d, t) > t THEN HoldEnd(h, d, t) - t ELSE 0
  IN  Append([i \in DOMAIN rec |-> IF i \in newest THEN [rec[i] EXCEPT !.hold = 0] ELSE rec[i]],
             [d EXCEPT !.hold = enforced])

\* Retention: an entry answers for the clearance lookback, then leaves.
RetainedWhileHeld(p, ov, t) == t <= ov.until
Retained(p, ov, t) == t <= ov.until + Clearance[p]
Swept(p, h, t) == {ov \in h : Retained(p, ov, t)}

\* Only the newest entry lapses; a superseded one ended by replacement.
LapseOfAnyEnd(p, h, t) ==
  {[signal |-> p, phase |-> ov.phase, since |-> ov.chainStart, until |-> ov.until, id |-> ov.id] :
     ov \in {o \in h : o.until = t}}
LapseOf(p, h, t) ==
  {[signal |-> p, phase |-> ov.phase, since |-> ov.chainStart, until |-> ov.until, id |-> ov.id] :
     ov \in {o \in h : o = Newest(h) /\ o.until = t}}
-----------------------------------------------------------------------------
\* Ids a directive may not reuse: those buffered and those still in the table.
LiveIds ==
  {d.id : d \in ToSet(sigNew)} \union UNION {{ov.id : ov \in sigOv[p]} : p \in Program}

Displayed(p, t) == [phase |-> SigPhaseAt(p, t), held |-> Held(sigOv[p], t)]

NothingShown == [phase |-> 0, held |-> FALSE]

Init ==
  /\ tick = 0
  /\ pc = "between"
  /\ sigNew = <<>>
  /\ sigOv = [p \in Program |-> {}]
  /\ appliedSig = <<>>
  /\ sigLapses = {}
  /\ shown = [p \in Program |-> [k \in 0 .. Clearance[p] |->
                IF k = 0 THEN [phase |-> FixedPhase(p, 0), held |-> FALSE] ELSE NothingShown]]
  /\ heldFor = [p \in Program |-> 0]
  /\ ovBefore = sigOv

\* EnqueueSignal: the directive is validated, defaulted and clamped, and
\* buffered.  A rejection changes nothing.
EnqueueSignal(id, p, ph, hold) ==
  /\ pc = "between"
  /\ Len(sigNew) < MaxBuffered
  /\ id \notin LiveIds
  /\ sigNew' = Append(sigNew, [id |-> id, signal |-> p, phase |-> ph,
                               hold |-> EffectiveHold(p, hold)])
  /\ UNCHANGED <<tick, pc, sigOv, appliedSig, sigLapses, shown, heldFor, ovBefore>>

\* Step begins: the tick advances.
BeginStep ==
  /\ pc = "between"
  /\ tick < MaxTick
  /\ tick' = tick + 1
  /\ pc' = "install"
  /\ ovBefore' = sigOv
  /\ UNCHANGED <<sigNew, sigOv, appliedSig, sigLapses, shown, heldFor>>

\* One iteration of stepSignalOverrides over the buffered directives.
Install ==
  /\ pc = "install"
  /\ sigNew # <<>>
  /\ LET d == Head(sigNew)
         h == sigOv[d.signal]
     IN  /\ sigOv' = [sigOv EXCEPT ![d.signal] = Installed(h, d, tick)]
         /\ appliedSig' = Recorded(appliedSig, h, d, tick)
  /\ sigNew' = Tail(sigNew)
  /\ UNCHANGED <<tick, pc, sigLapses, shown, heldFor, ovBefore>>

\* The pass over the network's programs: lapse events, then retention.
Sweep ==
  /\ pc = "install"
  /\ sigNew = <<>>
  /\ pc' = "drive"
  /\ sigLapses' = UNION {LapseOf(p, sigOv[p], tick) : p \in Program}
  /\ sigOv' = [p \in Program |-> Swept(p, sigOv[p], tick)]
  /\ UNCHANGED <<tick, sigNew, appliedSig, shown, heldFor, ovBefore>>

\* The rest of the Step reads the lights through sigState, sigPermissive and
\* sigInClearance, and the record plane the verbs and lapses of the tick; no
\* one reads these again, and the next Step empties them.  The history
\* variables note what the lights showed.
Drive ==
  /\ pc = "drive"
  /\ pc' = "between"
  /\ shown' = [p \in Program |-> [k \in 0 .. Clearance[p] |->
                 IF k = 0 THEN Displayed(p, tick) ELSE shown[p][k - 1]]]
  /\ heldFor' = [p \in Program |->
                   IF ~Held(sigOv[p], tick) THEN 0
                   ELSE IF shown[p][0] = Displayed(p, tick) THEN heldFor[p] + 1 ELSE 1]
  /\ appliedSig' = <<>>
  /\ sigLapses' = {}
  /\ ovBefore' = [p \in Program |-> {}]
  /\ UNCHANGED <<tick, sigNew, sigOv>>

\* The bounded run is over.
Finished ==
  /\ pc = "between"
  /\ tick = MaxTick
  /\ UNCHANGED vars

Next ==
  \/ \E id \in RequestId, p \in Program, hold \in HoldRequests :
       \E ph \in Phases(p) : EnqueueSignal(id, p, ph, hold)
  \/ BeginStep
  \/ Install
  \/ Sweep
  \/ Drive
  \/ Finished

Spec == Init /\ [][Next]_vars
-----------------------------------------------------------------------------

\* The type invariant.  The holds that wait for the next boundary are already
\* the bounded command (EnqueueSignal); a recorded hold may be the 0 of a verb
\* that enforced nothing.
TypeOK ==
  /\ tick \in Nat
  /\ pc \in {"between", "install", "drive"}
  /\ sigNew \in Seq(Directive(1 .. HoldMax))
  /\ appliedSig \in Seq(Directive(0 .. HoldMax))
  /\ sigLapses \subseteq Lapse
  /\ DOMAIN sigOv = Program /\ DOMAIN ovBefore = Program /\ DOMAIN shown = Program
  /\ \A p \in Program :
       /\ sigOv[p] \subseteq Override(p)
       /\ ovBefore[p] \subseteq Override(p)
       /\ shown[p] \in [0 .. Clearance[p] -> [phase : Phases(p), held : BOOLEAN]]
  /\ heldFor \in [Program -> Nat]

\* Every hold in a program's history governed at least one tick, began by
\* now, ends within the starvation bound of its chain, and ends before the
\* next one begins, whatever truncations, drops and renewals made it
\* (stepSignalOverrides).
HistoryWellFormed ==
  \A p \in Program :
    /\ \A ov \in sigOv[p] :
         /\ ov.chainStart <= ov.since
         /\ ov.since < ov.until
         /\ ov.since <= tick
         /\ ov.until <= ov.chainStart + HoldMax
    /\ \A a, b \in sigOv[p] : a # b => a.until <= b.since \/ b.until <= a.since

\* "Never a silent fallback": control returns to the fixed-time program at a
\* tick exactly when that Step reports one lapse of that program, for the
\* phase that was shown and at that tick; a supersession reports none.
NoSilentFallback ==
  pc = "drive" =>
    \A p \in Program :
      LET mine == {e \in sigLapses : e.signal = p}
          handedBack == shown[p][0].held /\ ~Held(sigOv[p], tick)
      IN  /\ handedBack <=> mine # {}
          /\ \A e \in mine : /\ mine = {e}
                             /\ e.until = tick
                             /\ e.phase = shown[p][0].phase

\* A chain really is one uninterrupted hold: since the chainStart of the
\* newest entry the program has shown that entry's phase at every tick, so
\* the interval a lapse event reports is one of actual starvation.
ChainIsUninterrupted ==
  pc = "drive" =>
    \A p \in Program : sigOv[p] # {} =>
      LET last == Newest(sigOv[p]) IN
      last.chainStart < tick /\ tick <= last.until =>
        /\ shown[p][0] = [phase |-> last.phase, held |-> TRUE]
        /\ heldFor[p] >= tick - last.chainStart

\* The table, truncated and swept, still answers for what was displayed: at
\* every tick the clearance lookback can reach (tick - clearance - 1 at the
\* deepest) sigPhaseAt returns the phase that was in force then.
LookbackAnswered ==
  pc = "drive" =>
    \A p \in Program : \A k \in 0 .. Clearance[p] :
      k < tick => Displayed(p, tick - 1 - k) = shown[p][k]

\* The displays of the ticks the window reaches: now, and what was shown.
Display(p, t) == IF t = tick THEN Displayed(p, t) ELSE shown[p][tick - 1 - t]
LightAt(p, l, t) == Light[p][Display(p, t).phase][l]

\* A phase change of the schedule with no hold on either side of it.
ScheduleChange(p, t) ==
  /\ ~Display(p, t).held /\ ~Display(p, t - 1).held
  /\ PhaseAtElapsed(p, t).elapsed = 0

\* What red clearance means for a link: the displayed light turned from amber
\* to red within the window and has been red since (a change of the schedule
\* between two red phases ends the window, as it did before holds existed).
AmberTurnedRed(p, l) ==
  \E b \in 1 .. tick :
    /\ tick - b <= Clearance[p]
    /\ LightAt(p, l, b - 1) = "amber"
    /\ \A t \in b .. tick : LightAt(p, l, t) = "red"
    /\ \A t \in (b + 1) .. tick : ~ScheduleChange(p, t)

\* sigInClearance, which walks truncated and partly swept override spans,
\* opens the window exactly on a displayed amber-to-red transition, whether
\* the schedule, a hold, a supersession or a lapse made it.
ClearanceFollowsDisplay ==
  pc = "drive" =>
    \A p \in Program, l \in Link :
      Light[p][SigPhaseAt(p, tick)][l] = "red" =>
        (SigInClearance(p, l) <=> AmberTurnedRed(p, l))

\* Replay of one tick: the recorded verbs go through EnqueueSignal again, and
\* a recorded 0 asks for the default hold there.
ReplayVerb(t, acc, d) ==
  LET again == [d EXCEPT !.hold = EffectiveHold(d.signal, d.hold)]
      h == acc.ov[d.signal]
  IN  [ov |-> [acc.ov EXCEPT ![d.signal] = Installed(h, again, t)],
       rec |-> Recorded(acc.rec, h, again, t)]

Replay(t, before, recs) ==
  LET acc[n \in 0 .. Len(recs)] ==
        IF n = 0 THEN [ov |-> before, rec |-> <<>>] ELSE ReplayVerb(t, acc[n - 1], recs[n])
  IN  acc[Len(recs)]

\* Replaying the record of a tick from the table the tick began with ends
\* with the same table and the same record, although the record carries the
\* effective holds and the zeros of declined and dropped verbs.
ReplayReproduces ==
  pc = "drive" =>
    LET again == Replay(tick, ovBefore, appliedSig)
    IN  /\ [p \in Program |-> Swept(p, again.ov[p], tick)] = sigOv
        /\ again.rec = appliedSig

\* The advertised rail: no client, however it repeats its commands, keeps one
\* phase shown for longer than the bound without a gap.
StarvationBound == \A p \in Program : heldFor[p] <= HoldMax
=============================================================================
