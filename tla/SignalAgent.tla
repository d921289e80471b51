---------------------------- MODULE SignalAgent ----------------------------
(* The actuated signal controller (natsio/sigctl) against the kernel it     *)
(* commands (SignalOverride): it reads the snapshots of the run, decides    *)
(* per program from the vehicles at the stop lines, and publishes           *)
(* signal_set verbs.  Nothing on the wire tells it which phase is in force: *)
(* it predicts that from its own commands.  One program is controlled; the  *)
(* detector counts are whatever the traffic makes them.                     *)
EXTENDS SignalOverride

CONSTANTS
  J,                    \* the controlled program
  CadenceTicks, HoldTicks, RenewBelow, MinGreenTicks,
  SwitchMinQueue, MaxGreenOnCallTicks,   \* the fields of Config
  MaxCount,             \* bound on a detector's count
  Chunk,                \* the chunks of the signal table are 1..Chunk
  MaxTables,            \* bound on the tables published
  MaxLate               \* bound on boundaries that pass a verb or a snapshot by

ASSUME AgentAssumption ==
  /\ J \in Program /\ IsFiniteSet(Link)
  /\ {CadenceTicks, RenewBelow, HoldTicks, MinGreenTicks} \subseteq Nat
  /\ HoldTicks > CadenceTicks + RenewBelow
  /\ MaxCount \in Nat /\ Chunk \in Nat \ {0}

VARIABLES
  ps,       \* progState of J
  table,    \* the chunk accumulator: acc and the programs installed
  streams,  \* chunks on their way: to the publication's and the reply's subscription
  snapshot, \* a snapshot waits to be handled
  verbs,    \* verbs on their way to the run
  late      \* boundaries that passed something by

agentVars == <<ps, table, streams, snapshot, verbs, late>>
junctionVars == <<vars, agentVars>>

None == -1
NextPhase(i) == (i + 1) % Cardinality(Phases(J))
NaturalDuration(i) == PhaseOnset[J][i + 2] - PhaseOnset[J][i + 1]
Green(i) == {l \in Link : Light[J][i][l] = "green"}

\* newProgState: a movement phase shows a green and no amber.
Movement(i) == Green(i) # {} /\ \A l \in Link : Light[J][i][l] # "amber"
Candidates == {i \in Phases(J) : Movement(i)}
-----------------------------------------------------------------------------
(* What the controller believes.                                             *)

InHold(s, t) == s.myPhase # None /\ t < s.holdUntil

\* estimated: its own command while the hold covers the tick, else the table.
Estimated(s, t) ==
  IF InHold(s, t) THEN [phase |-> s.myPhase, since |-> s.phaseSince]
  ELSE LET fixed == PhaseAtElapsed(J, t)
       IN  [phase |-> fixed.phase, since |-> IF fixed.elapsed < t THEN t - fixed.elapsed ELSE 0]

\* The rail declines a renewal applied when the chain has reached its bound.
CanExtend(s, t) == InHold(s, t) /\ s.chainStart + HoldMax > t + 1

NewChainOnExpiry(s, phase, applied) == phase # s.myPhase \/ applied >= s.holdUntil
NewChain(s, phase, applied) == phase # s.myPhase \/ applied > s.holdUntil

\* send: the belief moves when the verb is published.
Sent(s, phase, hold, t) ==
  LET fresh == NewChain(s, phase, t + 1)
  IN  [s EXCEPT
        !.chainStart = IF fresh THEN t + 1 ELSE @,
        !.phaseSince = IF fresh THEN t + 1 ELSE @,
        !.callSince  = IF phase # s.myPhase THEN 0 ELSE @,
        !.myPhase    = phase,
        !.holdUntil  = t + 1 + hold,
        !.seq        = @ + 1]
-----------------------------------------------------------------------------
(* The decision (decideProgram): the belief after it, and the verb if any.   *)

NoVerb(s) == [belief |-> s, verb |-> <<>>]
Command(s, phase, hold, t) ==
  [belief |-> Sent(s, phase, hold, t), verb |-> <<[id |-> s.seq, phase |-> phase, hold |-> hold]>>]

JumpStep(s, from, t) == Command(s, s.target, HoldTicks, t)

\* walkStep: one phase on in table order, the target held, any other phase at
\* its natural duration.
WalkStep(s, from, t) ==
  LET next == NextPhase(from)
  IN  Command(s, next, IF next = s.target THEN HoldTicks ELSE NaturalDuration(next), t)

BeginWalk(s, target, from, t) == WalkStep([s EXCEPT !.target = target], from, t)

\* The vehicles counted on some links.
CountOn(count, links) == Cardinality({v \in links \X (1..MaxCount) : v[2] <= count[v[1]]})

\* The candidate with the strongest presence among those not in force.
Best(count, enforced) ==
  LET others == {c \in Candidates \ {enforced} : CountOn(count, Green(c)) > 0}
      strong == {c \in others : \A o \in others : CountOn(count, Green(o)) <= CountOn(count, Green(c))}
  IN  IF others = {} THEN None ELSE CHOOSE c \in strong : \A o \in strong : c <= o

\* A served approach with nobody waiting elsewhere.
Uncontested(s, enforced, t) ==
  IF ~InHold(s, t) \/ (s.holdUntil - t < RenewBelow /\ CanExtend(s, t))
  THEN Command(s, enforced, HoldTicks, t) ELSE NoVerb(s)

\* A served approach and a waiting call: renewals until the call is too old or
\* the chain is spent, then a switch, but not of a green that is too young.
Contested(s, now, best, t) ==
  LET railCapped == InHold(s, t) /\ ~CanExtend(s, t)
      inBudget   == t < s.callSince + MaxGreenOnCallTicks /\ ~railCapped
  IN  CASE inBudget /\ InHold(s, t) /\ s.holdUntil - t < RenewBelow -> Command(s, now.phase, HoldTicks, t)
        [] ~inBudget /\ t >= now.since + MinGreenTicks -> BeginWalk(s, best, now.phase, t)
        [] OTHER -> NoVerb(s)

GapOut(s, now, best, call, t) ==
  IF call /\ t >= now.since + MinGreenTicks THEN BeginWalk(s, best, now.phase, t) ELSE NoVerb(s)

Serve(s, count, t) ==
  LET now    == Estimated(s, t)
      best   == Best(count, now.phase)
      call   == best # None /\ CountOn(count, Green(best)) >= SwitchMinQueue
      called == [s EXCEPT !.callSince = IF ~call THEN 0 ELSE IF @ = 0 THEN t ELSE @]
      served == CountOn(count, Green(now.phase)) > 0
  IN  CASE ~Movement(now.phase) -> NoVerb(s)
        [] Movement(now.phase) /\ \A l \in Link : count[l] = 0 -> NoVerb([s EXCEPT !.callSince = 0])
        [] OTHER -> IF served /\ ~call THEN Uncontested(called, now.phase, t)
                    ELSE IF served THEN Contested(called, now, best, t)
                    ELSE GapOut(called, now, best, call, t)

Walking(s) == s.target # None
Arrived(s, t) == s.myPhase = s.target /\ t < s.holdUntil

DecideProgram(s, count, t) ==
  CASE Walking(s) /\ ~Arrived(s, t) ->
         IF s.myPhase # None /\ t + 1 < s.holdUntil THEN NoVerb(s) ELSE WalkStep(s, s.myPhase, t)
    [] Walking(s) /\ Arrived(s, t) -> Serve([s EXCEPT !.target = None], count, t)
    [] OTHER -> Serve(s, count, t)

DueNow(s, t) == Walking(s) \/ s.lastDecide = 0 \/ t - s.lastDecide >= CadenceTicks
-----------------------------------------------------------------------------
(* The signal table arrives in chunks, as a publication and as the reply to  *)
(* the controller's own request, on two subscriptions.                       *)

Ready == table.installed = 1..Chunk

\* As Accumulated, without the order of the chunks.
AccumulatedAnyhow(tb, i) ==
  LET acc == Append(tb.acc, i)
  IN  IF Len(acc) >= Chunk THEN [acc |-> <<>>, installed |-> tb.installed \cup ToSet(acc)]
      ELSE [tb EXCEPT !.acc = acc]

\* onSigTable: chunk i is next, or opens a generation, or drops the open one;
\* a complete generation is installed.
Accumulated(tb, i) ==
  LET acc == IF i = Len(tb.acc) + 1 THEN Append(tb.acc, i) ELSE IF i = 1 THEN <<1>> ELSE <<>>
  IN  IF i = Chunk /\ Len(acc) = Chunk
      THEN [acc |-> <<>>, installed |-> tb.installed \cup ToSet(acc)]
      ELSE [tb EXCEPT !.acc = acc]

PublishTable(to) ==
  /\ streams[to].sent < MaxTables /\ streams[to].wire = <<>>
  /\ streams' = [streams EXCEPT ![to] = [sent |-> @.sent + 1, wire |-> [i \in 1..Chunk |-> i]]]
  /\ UNCHANGED <<vars, ps, table, snapshot, verbs, late>>

OnSigTable(to) ==
  /\ streams[to].wire # <<>>
  /\ table' = Accumulated(table, Head(streams[to].wire))
  /\ streams' = [streams EXCEPT ![to].wire = Tail(@)]
  /\ UNCHANGED <<vars, ps, snapshot, verbs, late>>

LoseChunk(to) ==
  /\ streams[to].wire # <<>>
  /\ streams' = [streams EXCEPT ![to].wire = Tail(@)]
  /\ UNCHANGED <<vars, ps, table, snapshot, verbs, late>>

\* Ready releases the start gate: the run steps only once the table is whole.
TableSettled == Ready /\ \A to \in DOMAIN streams : streams[to].wire = <<>>
-----------------------------------------------------------------------------
(* The control loop and the run.                                             *)

OnSnapshot(count) ==
  /\ snapshot /\ snapshot' = FALSE
  /\ LET s   == [ps EXCEPT !.lastDecide = tick]
         did == DecideProgram(s, count, tick)
     IN  IF DueNow(ps, tick)
         THEN ps' = did.belief /\ verbs' = verbs \o did.verb
         ELSE count = [l \in Link |-> 0] /\ UNCHANGED <<ps, verbs>>
  /\ UNCHANGED <<vars, table, streams, late>>

\* The verb reaches the engine between two Steps.
Deliver ==
  /\ verbs # <<>>
  /\ Head(verbs).id \in RequestId   \* bounds the verbs of one run
  /\ EnqueueSignal(Head(verbs).id, J, Head(verbs).phase, Head(verbs).hold)
  /\ verbs' = Tail(verbs)
  /\ UNCHANGED <<ps, table, streams, snapshot, late>>

\* The next boundary; a run that is not paced does not wait for the verbs.
NextBoundary ==
  /\ TableSettled /\ BeginStep
  /\ LET passed == snapshot \/ verbs # <<>>
     IN  /\ late' = IF passed THEN late + 1 ELSE late
         /\ late' <= MaxLate
  /\ snapshot' = FALSE
  /\ UNCHANGED <<ps, table, streams, verbs>>

StepOn ==
  /\ Install \/ Sweep
  /\ UNCHANGED agentVars

\* AfterStep publishes the snapshot.
Publish ==
  /\ Drive /\ snapshot' = TRUE
  /\ UNCHANGED <<ps, table, streams, verbs, late>>

\* The run ends, or Ready gives up on the table.
TableNeverCame == ~Ready /\ \A to \in DOMAIN streams : streams[to] = [sent |-> MaxTables, wire |-> <<>>]
JunctionOver ==
  /\ TableNeverCame \/ (tick = MaxTick /\ pc = "between")
  /\ UNCHANGED junctionVars

JunctionInit ==
  /\ Init
  /\ ps = [myPhase |-> None, phaseSince |-> 0, holdUntil |-> 0, chainStart |-> 0,
           callSince |-> 0, target |-> None, lastDecide |-> 0, seq |-> 0]
  /\ table = [acc |-> <<>>, installed |-> {}]
  /\ streams = [to \in {"published", "requested"} |-> [sent |-> 0, wire |-> <<>>]]
  /\ snapshot = FALSE /\ verbs = <<>> /\ late = 0

JunctionNext ==
  \/ \E to \in DOMAIN streams : ~TableSettled /\ (PublishTable(to) \/ OnSigTable(to) \/ LoseChunk(to))
  \/ \E count \in [Link -> 0..MaxCount] : OnSnapshot(count)
  \/ Deliver \/ NextBoundary \/ StepOn \/ Publish \/ JunctionOver

JunctionSpec == JunctionInit /\ [][JunctionNext]_junctionVars
-----------------------------------------------------------------------------
\* From one commanded phase to another the junction shows every phase between
\* them in table order, each transition for its natural duration.
WalksInOrder ==
  (pc = "drive" /\ late = 0 /\ shown[J][0].held /\ Held(sigOv[J], tick)) =>
    LET from == shown[J][0].phase
        to   == SigPhaseAt(J, tick)
    IN  from # to => /\ to = NextPhase(from)
                     /\ Movement(from) \/ heldFor[J] >= NaturalDuration(from)

\* "Exact as long as it is the only controller", and "never a doomed renewal":
\* the table it predicts with is whole, however the chunks of two publications
\* mix; while verbs apply at the next boundary the controller knows the phase in
\* force, up to the tick at which its chain reaches the starvation bound; and every
\* verb it sends is in force for at least one tick.
PredictionIsExact ==
  /\ \A i \in table.installed : table.installed = 1..Chunk
  /\ (pc = "drive" /\ late = 0) =>
       /\ ~(InHold(ps, tick) /\ tick >= ps.chainStart + HoldMax) =>
            Estimated(ps, tick).phase = SigPhaseAt(J, tick)
       /\ \A i \in DOMAIN appliedSig : appliedSig[i].hold > 0
=============================================================================
