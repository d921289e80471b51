-------------------------------- MODULE Replay --------------------------------
(***************************************************************************)
(* Reading a recorded run back (engine/natsio/replay.go): where a seek may *)
(* start and what the strict audit makes of the log.                       *)
(*                                                                         *)
(* A log is the stream's messages in stream order.  A message carries the  *)
(* tick in its header; "input" messages are the arbitrated intents, spawn  *)
(* verbs and signal verbs of a tick, "key" messages are the chunks of a    *)
(* keyframe (part i of n, an unchunked keyframe is part 1 of 1), "crc" is  *)
(* the rolling checksum and "event" the pause and lapse notices.           *)
(*                                                                         *)
(* The engine is deterministic, so its state at a tick is the inputs it    *)
(* has stepped with: one sequence of inputs per tick.  A keyframe restores *)
(* exactly that, and two checksums agree exactly when the states do.       *)
(***************************************************************************)
EXTENDS Integers, Sequences, FiniteSets

\* The messages: what is in one is an input, the world, or nothing.
Bare(kind, tick) ==
    [kind |-> kind, tick |-> tick, input |-> "", world |-> <<>>, part |-> 1, of |-> 1]
InputMessage(tick, input) == [Bare("input", tick) EXCEPT !.input = input]
WorldMessage(kind, e) == [Bare(kind, e.tick) EXCEPT !.world = e.world]

\* An engine.
Engine(tick, world) == [tick |-> tick, world |-> world]

\* Step, after the inputs of the tick were enqueued.
Stepped(e, inputs) == Engine(e.tick + 1, Append(e.world, inputs))

\* The inputs of a tick, in stream order: the application order.
InputsOf(msgs, tick) ==
    LET mine(m) == m.kind = "input" /\ m.tick = tick
        inputs == SelectSeq(msgs, mine) IN
    [i \in DOMAIN inputs |-> inputs[i].input]

\* The index keeps the last checksum logged for a tick.
CRCs(msgs, tick) == {i \in DOMAIN msgs : msgs[i].kind = "crc" /\ msgs[i].tick = tick}
Disagrees(msgs, e) ==
    \E i \in CRCs(msgs, e.tick) :
        (\A j \in CRCs(msgs, e.tick) : j <= i) /\ msgs[i].world # e.world

Highest(S) == CHOOSE x \in S : \A y \in S : y <= x
Lowest(S) == CHOOSE x \in S : \A y \in S : x <= y

\* lastTick: the highest tick on any message.
LastTick(msgs) == Highest({0} \cup {msgs[i].tick : i \in DOMAIN msgs})

-----------------------------------------------------------------------------
(* findKeyframe: chunk groups. *)

Chunks(log) == {i \in DOMAIN log : log[i].kind = "key"}

\* The chunks of one keyframe are consecutive in stream order.
GroupAt(log, p) ==
    /\ p \in Chunks(log) /\ log[p].part = 1
    /\ \A j \in 0..log[p].of - 1 :
          /\ p + j \in Chunks(log)
          /\ log[p + j] = [log[p] EXCEPT !.part = j + 1]

\* A chunk outside a complete group fails the whole scan, wherever it is.
Torn(log) ==
    \E i \in Chunks(log) :
        LET p == i - log[i].part + 1 IN
        ~GroupAt(log, p) \/ log[i].of # log[p].of

NoKeyframe == [tick |-> -1, seq |-> 0, world |-> <<>>]

\* The nearest keyframe at or before the target, the first of equals; seq is
\* the stream sequence of its last chunk.
FindKeyframe(log, target) ==
    LET at == {p \in Chunks(log) : GroupAt(log, p) /\ log[p].tick <= target}
        near == {p \in at : \A q \in at : log[q].tick <= log[p].tick}
        p == Lowest(near) IN
    IF Torn(log) \/ at = {} THEN NoKeyframe
    ELSE [tick |-> log[p].tick, seq |-> p + log[p].of - 1, world |-> log[p].world]

-----------------------------------------------------------------------------
(* ReplayFromStream: the strict audit. *)

Failed == [tick |-> -1, world |-> <<>>]

\* The inputs of a tick enqueued one step late.
ResimulatedLate(e, msgs, target) ==
    Engine(target, e.world \o [i \in 1..target - e.tick |-> InputsOf(msgs, e.tick + i - 1)])

\* Ticks e.tick + 1 .. target from the messages behind the keyframe.
Resimulated(e, msgs, target) ==
    Engine(target, e.world \o [i \in 1..target - e.tick |-> InputsOf(msgs, e.tick + i)])

\* Every logged checksum on the way must agree.
Verified(e, msgs, target) ==
    \A t \in e.tick + 1..target : ~Disagrees(msgs, Resimulated(e, msgs, t))

ReplayFromStream(log, target) ==
    LET kf == FindKeyframe(log, target)
        e == Engine(kf.tick, kf.world)
        msgs == SubSeq(log, kf.seq + 1, Len(log)) IN
    IF kf = NoKeyframe \/ target > LastTick(msgs) \/ ~Verified(e, msgs, target)
    THEN Failed
    ELSE Resimulated(e, msgs, target)

-----------------------------------------------------------------------------
(* NewPlayer and NewBakeSource: what a record is good for. *)

\* firstKeyframeTicks: the ticks of the first two keyframes, by final chunks.
DuplicateAnchor(log) ==
    LET final == {i \in Chunks(log) : log[i].part = log[i].of}
        rest == final \ {Lowest(final)} IN
    rest # {} /\ log[Lowest(rest)].tick = log[Lowest(final)].tick

\* The record's horizon: a run marked done ran to its last tick, any other ends
\* where its log does.
Horizon(log, ranThrough, ticks) ==
    IF ranThrough \/ log[Len(log)].tick >= ticks THEN ticks ELSE log[Len(log)].tick

\* A bake re-simulates the whole record from its anchor and stops at the first
\* divergence.
Bake(log, ranThrough, ticks) ==
    LET kf == FindKeyframe(log, 0)
        e == Engine(kf.tick, kf.world)
        end == Horizon(log, ranThrough, ticks) IN
    IF kf = NoKeyframe \/ DuplicateAnchor(log) \/ ~Verified(e, log, end)
    THEN Failed
    ELSE Resimulated(e, log, end)

-----------------------------------------------------------------------------
(* MaterializeRunRecord and Replay (engine/replay.go): the same record taken *)
(* as one list, re-run from the beginning without any keyframe.              *)

Replayed(log, first, ticks) ==
    LET e == Resimulated(Engine(first, <<>>), log, ticks) IN
    IF Verified(Engine(first, <<>>), log, ticks)
       /\ \A t \in first + 1..ticks : CRCs(log, t) # {}
    THEN e ELSE Failed
===============================================================================
