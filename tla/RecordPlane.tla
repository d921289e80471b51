------------------------------ MODULE RecordPlane ------------------------------
(***************************************************************************)
(* The record plane of a live run: the run loop (RunLive in                *)
(* engine/natsio/run.go), the recorder (engine/natsio/recorder.go), the    *)
(* stream that stores its messages and the registry's run status           *)
(* (engine/natsio/registry.go).                                            *)
(*                                                                         *)
(* The recorder publishes a tick's messages without waiting, each with the *)
(* stream sequence it predicts, and then awaits their acknowledgements in  *)
(* order.  Between the recorder and the stream messages can be lost, and   *)
(* so can acknowledgements; another writer may write to the stream; the    *)
(* process may die at any moment, taking with it what it had not sent.     *)
(* The state of the run after a tick is the inputs of every tick so far    *)
(* (Replay), so the model needs no vehicles.                               *)
(***************************************************************************)
EXTENDS Replay

CONSTANTS
    Ticks,          \* spec.Ticks
    StartTicks,     \* 0, or the tick of the saved state of a warm start
    InputLists,     \* the lists of inputs a tick may have
    KeyframeEvery,  \* rec.KeyframeEvery
    ChunkCount,     \* into how many messages a keyframe splits
    Foreign,        \* what another recorder of the same run may write: "event", "key"
    PauseTicks,     \* bound: the ticks at which the run may pause, once each
    MaxLost         \* bound: messages and acknowledgements lost

ASSUME TicksAssumption == Ticks \in Nat /\ StartTicks \subseteq 0..Ticks
\* A list of inputs is a sequence.
ASSUME InputsAssumption == \A list \in InputLists : list \in Seq({list[i] : i \in DOMAIN list})
ASSUME RecorderAssumption ==
    /\ KeyframeEvery \in Nat \ {0} /\ ChunkCount \in Nat \ {0}
    /\ PauseTicks \subseteq Nat /\ MaxLost \in Nat

VARIABLES
    start,    \* the tick the run began at
    run,      \* the engine of the run
    rec,      \* "new", "idle", "waiting", "done", "aborted" or "dead"
    said,     \* history: every message published, at its predicted sequence
    lastSeq,  \* the recorder's cursor: the last sequence acknowledged
    acked,    \* which of the sequences behind lastSeq have an acknowledgement
    wire,     \* messages under way, each with its predicted sequence
    log,      \* the stream
    status,   \* the registry's run status
    pausedAt, \* the ticks whose pause was recorded
    lost,     \* how many so far
    durable   \* history: the last tick whose whole batch was acknowledged

recordVars ==
    <<start, run, rec, said, lastSeq, acked, wire, log, status, pausedAt, lost, durable>>

\* A message of another recorder of this run, begun at the same tick.
AnchorWorld == [t \in 1..start |-> <<>>]
ForeignMessage(kind) == [WorldMessage(kind, Engine(start, AnchorWorld)) EXCEPT !.input = "foreign"]
Alien(i) == log[i].input = "foreign"

-----------------------------------------------------------------------------
(* The recorder. *)

Keyframe(e) ==
    [i \in 1..ChunkCount |-> [WorldMessage("key", e) EXCEPT !.part = i, !.of = ChunkCount]]
InputMessages(tick, inputs) == [i \in DOMAIN inputs |-> InputMessage(tick, inputs[i])]
CRC(e) == <<WorldMessage("crc", e)>>

\* LogTick's order: inputs, keyframe at its cadence, checksum.
TickBatch(e, inputs) ==
    InputMessages(e.tick, inputs)
        \o (IF e.tick % KeyframeEvery = 0 THEN Keyframe(e) ELSE <<>>)
        \o CRC(e)

\* publish: the predicted sequence is the position in the batch behind lastSeq.
Publish(batch) ==
    /\ wire' = wire \o [i \in DOMAIN batch |-> [seq |-> Len(said) + i, msg |-> batch[i]]]
    /\ said' = said \o batch
    /\ rec' = "waiting"

\* NewRecorder takes an empty stream; LogStart anchors the run.
LogStart ==
    /\ rec = "new"
    /\ Publish(Keyframe(run))
    /\ UNCHANGED <<start, run, lastSeq, acked, log, status, pausedAt, lost, durable>>

\* emitPause through LogEvent, at a frozen tick.
LogEvent ==
    /\ rec = "idle" /\ run.tick \in PauseTicks \ pausedAt /\ run.tick < Ticks
    /\ pausedAt' = pausedAt \cup {run.tick}
    /\ Publish(<<Bare("event", run.tick)>>)
    /\ UNCHANGED <<start, run, lastSeq, acked, log, status, lost, durable>>

\* RunLive: one tick and its record.
Tick ==
    /\ rec = "idle" /\ run.tick < Ticks
    /\ \E inputs \in InputLists :
          /\ run' = Stepped(run, inputs)
          /\ Publish(TickBatch(run', inputs))
    /\ UNCHANGED <<start, lastSeq, acked, log, status, pausedAt, lost, durable>>

Outstanding == lastSeq + 1..Len(said)

\* The wait ends with the first answer of the batch.
FirstAcknowledged == lastSeq + 1 \in acked

\* awaitBatch asks for every acknowledgement.
AllAcknowledged == Outstanding \subseteq acked

\* The registry learns of the run once the first keyframe is safe.
AwaitBatch ==
    /\ rec = "waiting"
    /\ AllAcknowledged
    /\ rec' = "idle"
    /\ lastSeq' = Len(said)
    /\ durable' = run.tick
    /\ acked' = {}
    /\ status' = IF status = "none" THEN "running" ELSE status
    /\ UNCHANGED <<start, run, said, wire, log, pausedAt, lost>>

\* A refused write, or the timeout on any that was not answered in time: the
\* run ends.  What is under way stays under way.
AwaitFails ==
    /\ rec = "waiting"
    /\ ~AllAcknowledged
    /\ rec' = "aborted"
    /\ status' = IF status = "running" THEN "aborted" ELSE status
    /\ acked' = {}
    /\ UNCHANGED <<start, run, said, lastSeq, wire, log, pausedAt, lost, durable>>

\* finish(nil).
Finish ==
    /\ rec = "idle" /\ run.tick >= Ticks
    /\ rec' = "done" /\ status' = "done"
    /\ UNCHANGED <<start, run, said, lastSeq, acked, wire, log, pausedAt, lost, durable>>

\* The process dies; some of what it published was already sent.
Crash ==
    /\ rec \in {"new", "idle", "waiting"}
    /\ \E n \in 0..Len(wire) : wire' = SubSeq(wire, 1, n)
    /\ rec' = "dead"
    /\ acked' = {}
    /\ UNCHANGED <<start, run, said, lastSeq, log, status, pausedAt, lost, durable>>

-----------------------------------------------------------------------------
(* The stream. *)

\* The expected-last-sequence header.
Accepted(seq) == seq = Len(log) + 1

\* One write arrives; its acknowledgement may be lost on the way back.
Store ==
    /\ wire # <<>>
    /\ wire' = Tail(wire)
    /\ log' = IF Accepted(Head(wire).seq) THEN Append(log, Head(wire).msg) ELSE log
    /\ \/ /\ acked' = acked \cup {s \in {Head(wire).seq} : Accepted(s) /\ rec = "waiting"}
          /\ UNCHANGED lost
       \/ rec = "waiting" /\ lost < MaxLost /\ lost' = lost + 1 /\ UNCHANGED acked
    /\ UNCHANGED <<start, run, rec, said, lastSeq, status, pausedAt, durable>>

LoseWrite ==
    /\ rec = "waiting" /\ wire # <<>> /\ lost < MaxLost
    /\ wire' = Tail(wire)
    /\ lost' = lost + 1
    /\ UNCHANGED <<start, run, rec, said, lastSeq, acked, log, status, pausedAt, durable>>

\* Another writer, once.
Compete ==
    /\ rec \in {"idle", "waiting"}
    /\ \A i \in DOMAIN log : ~Alien(i)
    /\ \E kind \in Foreign : log' = Append(log, ForeignMessage(kind))
    /\ UNCHANGED <<start, run, rec, said, lastSeq, acked, wire, status, pausedAt, lost, durable>>

-----------------------------------------------------------------------------
RecordInit ==
    /\ start \in StartTicks
    /\ run = Engine(start, AnchorWorld)
    /\ rec = "new"
    /\ said = <<>> /\ lastSeq = 0 /\ acked = {}
    /\ wire = <<>> /\ log = <<>>
    /\ status = "none"
    /\ pausedAt = {} /\ lost = 0
    /\ durable = -1

RecordNext ==
    \/ LogStart \/ LogEvent \/ Tick \/ AwaitBatch \/ AwaitFails \/ Finish \/ Crash
    \/ Store \/ LoseWrite \/ Compete

-----------------------------------------------------------------------------
(* Properties. *)

\* What the recorder took as recorded is the run's own messages, at the
\* sequences it predicted, without a gap; behind them there is at most what
\* was under way when the run ended and another writer's message.  A batch of
\* writes published without waiting must not leave a hole the run steps over
\* (publish and awaitBatch).
AcknowledgedIsRecorded ==
    /\ lastSeq <= Len(log)
    /\ SubSeq(log, 1, lastSeq) = SubSeq(said, 1, lastSeq)
    /\ \A i \in lastSeq + 1..Len(log) : Alien(i) \/ (i \in Outstanding /\ log[i] = said[i])

\* The recording of an acknowledged tick reproduces the run's state there from
\* the nearest keyframe, and a finished run as a whole reproduces from its
\* beginning and bakes to itself or not at all, whatever was lost, written by others or cut off after it; a torn
\* chunk group is refused by every read, and a warm start's anchor has nothing
\* behind it to prove its tick (ReplayFromStream,
\* Replay, BakeSource.Run).
AuditReproduces ==
    (wire = <<>> /\ rec \in {"done", "aborted", "dead"}) =>
        /\ \A t \in start..durable :
              \/ ReplayFromStream(log, t) = Engine(t, SubSeq(run.world, 1, t))
              \/ Torn(log)
              \/ t = start /\ durable = start
        /\ status = "done" /\ start = 0 =>
              /\ Replayed(log, 0, Ticks) = run
              /\ Bake(log, TRUE, Ticks) = run \/ Torn(log) \/ DuplicateAnchor(log)
===============================================================================
