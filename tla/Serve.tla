------------------------------- MODULE Serve --------------------------------
(***************************************************************************)
(* The process of a live run (src/engine/cmd/serve/main.go): it checks its *)
(* flags and its store, starts the run on a goroutine that waits at its    *)
(* first tick behind a gate, attaches the embedded clients on goroutines   *)
(* of their own, opens the gate once all of them are attached, and then    *)
(* waits for the run or a signal.  The metrics are written by the run's    *)
(* goroutine at the horizon, in a file that is renamed into place.         *)
(*                                                                         *)
(* The process may die at any moment and be started again with the same    *)
(* command line; recording, registry and metrics file outlive it.          *)
(***************************************************************************)
EXTENDS Naturals, FiniteSets

CONSTANTS
    Horizon,        \* the ticks of a run
    MaxServes,      \* bound: processes started
    NoTick          \* a flag that is not set

ASSUME ServeAssumption == Horizon \in Nat \ {0} /\ MaxServes \in Nat /\ NoTick \notin Nat

VARIABLES
    flags,          \* the command line
    serves,         \* how many processes were started
    main,           \* where main is
    pending,        \* clients the barrier still waits for
    client,         \* client -> where its goroutine is
    gate,           \* the start gate is open
    loop,           \* where the goroutine of the run is
    tick,           \* the run's tick
    outcome,        \* what the run's goroutine reports, or "none"
    dumped,         \* the state file of this run is written
    recording,      \* the processes whose log is in the stored stream, and its first tick
    registry,       \* the run's status in the stored registry
    metrics, tmp    \* the metrics file and the one it is renamed from

processVars == <<main, pending, client, gate>>
goroutineVars == <<loop, tick, outcome, dumped>>
storeVars == <<recording, registry, metrics, tmp>>
serveVars == <<flags, serves, processVars, goroutineVars, storeVars>>

Clients == {"driver", "director", "sigctl"}
Ticks == 0..Horizon + 1
NoFile == [serve |-> 0, tick |-> 0, whole |-> FALSE]
NoFlags == [in |-> NoTick]

\* The flags that decide what can be started: "in" is the tick of the state
\* file, "seed" how its seed relates to the run's.
Flags == [in : Ticks \cup {NoTick}, seed : {"same", "other", "reseed"},
          out : BOOLEAN, at : Ticks \cup {NoTick},
          store : BOOLEAN, metrics : BOOLEAN, with : SUBSET Clients]

----------------------------------------------------------------------------
(* Flags.                                                                  *)

\* A dump has a file and a tick, and the tick is one the run will reach.
DumpFits(f) ==
    /\ f.out <=> f.at # NoTick
    /\ f.out => f.at <= Horizon
    /\ f.out /\ f.in # NoTick => f.at > f.in

\* validateStateFlags: a warm start is neither measured nor recorded nor
\* driven, and its draws are those of the saved run unless said otherwise.
Valid(f) ==
    /\ DumpFits(f)
    /\ f.seed = "reseed" => f.in # NoTick
    /\ f.in # NoTick =>
        /\ f.in < Horizon /\ f.seed # "other"
        /\ ~f.metrics /\ ~f.store
        /\ f.with \cap {"driver", "director"} = {}

FirstTick == IF flags.in = NoTick THEN 0 ELSE flags.in

\* What RunLive itself refuses.
Refuses ==
    \/ flags.in # NoTick /\ flags.in >= Horizon
    \/ flags.out /\ (flags.at < FirstTick \/ flags.at > Horizon)
    \/ flags.metrics /\ FirstTick > 0

----------------------------------------------------------------------------
(* The process.                                                            *)

ServeInit ==
    /\ flags = NoFlags /\ serves = 0
    /\ main = "off" /\ pending = {} /\ client = [c \in Clients |-> "none"]
    /\ gate = FALSE
    /\ loop = "none" /\ tick = 0 /\ outcome = "none" /\ dumped = FALSE
    /\ recording = [by |-> {}, first |-> 0] /\ registry = "none"
    /\ metrics = NoFile /\ tmp = NoFile

\* As below, but only a recording that was finished is one.
FinishedOnly == registry # "done"

\* checkFreshRecording: the durable store has no message of this run.
Fresh == recording.by = {}

\* main up to the barrier; a command line that was started is started again.
Launch ==
    /\ main = "off" /\ serves < MaxServes
    /\ serves' = serves + 1
    /\ IF serves = 0 THEN flags' \in Flags ELSE UNCHANGED flags
    /\ IF Valid(flags') /\ (flags'.store => Fresh)
       THEN /\ main' = "barrier"
            /\ pending' = flags'.with
            /\ client' = [c \in Clients |-> IF c \in flags'.with THEN "attaching" ELSE "none"]
            /\ loop' = "building"
            /\ tick' = IF flags'.in = NoTick THEN 0 ELSE flags'.in
            /\ IF flags'.store THEN UNCHANGED <<recording, registry>>
               ELSE recording' = [by |-> {}, first |-> 0] /\ registry' = "none"
       ELSE /\ main' = "refused"
            /\ UNCHANGED <<pending, client, loop, tick, recording, registry>>
    /\ gate' = FALSE /\ outcome' = "none" /\ dumped' = FALSE
    /\ UNCHANGED <<metrics, tmp>>

\* The process ends, and its goroutines with it.
Ends ==
    /\ main' = "off" /\ loop' = "none" /\ gate' = FALSE
    /\ pending' = {} /\ client' = [c \in Clients |-> "none"]
    /\ tick' = 0 /\ outcome' = "none" /\ dumped' = FALSE
    /\ UNCHANGED <<flags, serves, storeVars>>

\* A client is attached: the registry says the run is there, and the contract
\* plane answers its hello.
Attaches(c) ==
    /\ client[c] = "attaching"
    /\ loop \in {"parked", "ticking"}
    /\ client' = [client EXCEPT ![c] = "ok"]
    /\ UNCHANGED <<flags, serves, main, pending, gate, goroutineVars, storeVars>>

\* It cannot connect, its hello is refused, its geometry does not load.
AttachFails(c) ==
    /\ client[c] = "attaching"
    /\ client' = [client EXCEPT ![c] = "failed"]
    /\ UNCHANGED <<flags, serves, main, pending, gate, goroutineVars, storeVars>>

\* As below, but a report is a report.
AnyReport(c) == client[c] \in {"ok", "failed"}

\* The barrier takes a client's report.
Admitted(c) == client[c] = "ok"

Report(c) ==
    /\ main = "barrier" /\ c \in pending /\ client[c] # "attaching"
    /\ IF Admitted(c)
       THEN /\ pending' = pending \ {c}
            /\ UNCHANGED <<flags, serves, main, client, gate, goroutineVars, storeVars>>
       ELSE Ends

\* The run is over before the clients are attached, whatever its outcome.
RunDied == main = "barrier" /\ pending # {} /\ outcome # "none" /\ Ends

\* The timer of the barrier may fire at any time.
TimesOut == pending # {}

BarrierTimeOut == main = "barrier" /\ TimesOut /\ Ends

\* All are attached: the gate is opened.
OpenGate ==
    /\ main = "barrier" /\ pending = {}
    /\ main' = "serving" /\ gate' = TRUE
    /\ UNCHANGED <<flags, serves, pending, client, goroutineVars, storeVars>>

\* A signal: the clients are closed, then the process ends; the run goes on meanwhile.
Interrupt ==
    /\ main = "serving"
    /\ main' = "closing"
    /\ UNCHANGED <<flags, serves, pending, client, gate, goroutineVars, storeVars>>

\* The run's report; an error exits at once, past the deferred calls.
RunEnded ==
    /\ main = "serving" /\ outcome # "none"
    /\ IF outcome = "ok"
       THEN /\ main' = "closing"
            /\ UNCHANGED <<flags, serves, pending, client, gate, goroutineVars,
                           storeVars>>
       ELSE Ends

Exit == main \in {"closing", "refused"} /\ Ends

\* The process is killed.
Killed == main # "off" /\ Ends

----------------------------------------------------------------------------
(* The goroutine of the run.                                               *)

LoopStep(from) == loop = from /\ UNCHANGED <<flags, serves, processVars>>

\* As below, but the metrics are written where they will be read.
WrittenInPlace(f) == metrics' = f /\ UNCHANGED tmp

\* The metrics are written beside their place.
WrittenBeside(f) == tmp' = f /\ UNCHANGED metrics

\* RunLive up to the record's anchor; what it refuses it refuses here.
Build ==
    /\ LoopStep("building")
    /\ IF Refuses
       THEN loop' = "reported" /\ outcome' = "refused" /\ UNCHANGED recording
       ELSE /\ loop' = "built" /\ UNCHANGED outcome
            /\ recording' = [by |-> recording.by \cup {serves},
                             first |-> IF recording.by = {} THEN tick ELSE recording.first]
    /\ UNCHANGED <<tick, dumped, registry, metrics, tmp>>

Dumps(t) == flags.out /\ flags.at = t

\* The dump at the first tick, then the registry says the run is there.
Register ==
    /\ LoopStep("built")
    /\ dumped' = Dumps(tick)
    /\ registry' = "running"
    /\ loop' = "parked"
    /\ UNCHANGED <<tick, outcome, recording, metrics, tmp>>

\* The loop serves the contract plane while the gate is closed, then goes.
Unpark ==
    /\ LoopStep("parked") /\ gate
    /\ loop' = "ticking"
    /\ UNCHANGED <<tick, outcome, dumped, storeVars>>

Tick ==
    /\ LoopStep("ticking") /\ tick < Horizon
    /\ tick' = tick + 1
    /\ dumped' = (dumped \/ Dumps(tick'))
    /\ UNCHANGED <<loop, outcome, storeVars>>

\* The horizon is reached; then the metrics, if they were asked for.
Finish ==
    /\ LoopStep("ticking") /\ tick = Horizon
    /\ registry' = "done"
    /\ IF flags.metrics THEN loop' = "finishing" /\ UNCHANGED outcome
       ELSE loop' = "reported" /\ outcome' = "ok"
    /\ UNCHANGED <<tick, dumped, recording, metrics, tmp>>

\* The document is being written ...
WriteMetrics ==
    /\ LoopStep("finishing")
    /\ WrittenBeside([serve |-> serves, tick |-> tick, whole |-> FALSE])
    /\ loop' = "writing"
    /\ UNCHANGED <<tick, outcome, dumped, recording, registry>>

\* ... is whole, and is renamed into place.
RenameMetrics ==
    /\ LoopStep("writing")
    /\ metrics' = [serve |-> serves, tick |-> tick, whole |-> TRUE]
    /\ tmp' = NoFile
    /\ loop' = "reported" /\ outcome' = "ok"
    /\ UNCHANGED <<tick, dumped, recording, registry>>

\* A write or a connection fails; past the registration it is recorded there.
RunFails ==
    /\ loop \in {"building", "built", "parked", "ticking", "finishing", "writing"}
    /\ LoopStep(loop)
    /\ registry' = IF loop \in {"parked", "ticking"} THEN "aborted" ELSE registry
    /\ tmp' = IF loop = "writing" THEN NoFile ELSE tmp
    /\ loop' = "reported" /\ outcome' = "failed"
    /\ UNCHANGED <<tick, dumped, recording, metrics>>

----------------------------------------------------------------------------

Loop == \/ Build \/ Register \/ Unpark \/ Tick \/ Finish \/ WriteMetrics \/ RenameMetrics

ServeNext ==
    \/ Launch \/ RunDied \/ BarrierTimeOut \/ OpenGate \/ Interrupt \/ RunEnded \/ Exit \/ Killed
    \/ \E c \in Clients : Attaches(c) \/ AttachFails(c) \/ Report(c)
    \/ Loop \/ RunFails

ServeSpec == ServeInit /\ [][ServeNext]_serveVars

----------------------------------------------------------------------------
(* Properties.                                                             *)

(***************************************************************************)
(* No tick happens before every embedded client is attached: whatever the  *)
(* order and the outcome of their attempts, "never a degraded run"         *)
(* (main.go, waitBarrier; natsio/run.go, RunLive's start gate).            *)
(***************************************************************************)
NoTickUnattended == loop # "none" /\ tick > FirstTick => \A c \in flags.with : client[c] = "ok"

(***************************************************************************)
(* A durable recording is the log of one process, from tick 0: a rerun     *)
(* with the same run id, after a run that ended, failed or was killed at   *)
(* any moment, adds nothing to it (main.go, checkFreshRecording,           *)
(* validateStateFlags).                                                    *)
(***************************************************************************)
OneRunPerRecording ==
    flags # NoFlags /\ flags.store => Cardinality(recording.by) <= 1 /\ recording.first = 0

(***************************************************************************)
(* Flags that were let through are honoured: the run refuses none of them, *)
(* and one that ends well has written the state and the metrics it was     *)
(* asked for.  A metrics file that is there is whole and of a run that     *)
(* reached its horizon, whenever the process that wrote it was interrupted *)
(* or killed (main.go, validateStateFlags, metricObserver.finish;          *)
(* natsio/run.go, RunLive).                                                *)
(***************************************************************************)
FlagsAreHonoured ==
    /\ outcome # "refused"
    /\ outcome = "ok" => /\ flags.out => dumped
                         /\ flags.metrics => metrics.serve = serves
    /\ metrics # NoFile => metrics.whole /\ metrics.tick = Horizon
=============================================================================
