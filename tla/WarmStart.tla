----------------------------- MODULE WarmStart ------------------------------
(***************************************************************************)
(* State files (src/engine/warmstart.go): a run saves its engine in one    *)
(* file and a sidecar that says what the bytes mean in another, each       *)
(* replaced atomically, and may die in between; a later run, of the same   *)
(* or of another network, loads the pair.  A state holds indices into the  *)
(* network's lanes and the scenario's types, so in the wrong run it would  *)
(* put every vehicle on a valid wrong lane.                                *)
(*                                                                         *)
(* The lanes and types of a run are one value each; the fingerprints and   *)
(* the digest are the values they are taken of.                            *)
(***************************************************************************)
EXTENDS Keyframe

CONSTANTS
    Networks,       \* the networks a run may be of
    TypeTables,     \* the type tables a run may be of
    MaxRuns,        \* bound: runs
    MaxSaves,       \* bound: saves
    SaveTicks       \* bound: the ticks at which a run may save

ASSUME WarmStartAssumption == {MaxRuns, MaxSaves} \subseteq Nat /\ SaveTicks \subseteq Nat

VARIABLES
    net, types,     \* the running run's network and type table
    runs,           \* how many runs there were
    stateFile,      \* the saved bytes, or Nothing
    sidecar,        \* the saved metadata, or Nothing
    toWrite,        \* the sidecar of a save that has written its bytes only, or Nothing
    read,           \* the bytes a loader has read before it reads the sidecar, or Nothing
    loaded,         \* the engine of the last load and its run's spec, or Nothing
    saves           \* what was saved, by which run (history)

diskVars == <<net, types, runs, stateFile, sidecar, toWrite, read, loaded, saves>>
warmVars == <<keyframeVars, diskVars>>

\* No file, nothing read.
Nothing == NoEngine

\* The sidecar of the running run's state.
Meta == [tick |-> live.tick, net |-> net, types |-> types, digest |-> MarshalState(live)]

\* As below, but a sidecar of the same tick will do.
PairedByTick(meta, data) == meta.tick = data.engine.tick

\* The sidecar was written for these bytes.
Paired(meta, data) == meta.digest = data /\ meta.tick = data.engine.tick

\* The guards of a load into a run of network n and types t.
Guarded(meta, n, t) == meta.net = n /\ meta.types = t

WarmInit ==
    /\ KeyframeInit
    /\ net \in Networks /\ types \in TypeTables
    /\ runs = 1 /\ saves = {}
    /\ stateFile = Nothing /\ sidecar = Nothing /\ toWrite = Nothing
    /\ read = Nothing /\ loaded = Nothing

\* SaveState has renamed the bytes into place.
SaveBytes ==
    /\ toWrite = Nothing /\ twin = NoEngine
    /\ live.tick \in SaveTicks /\ Cardinality(saves) < MaxSaves
    /\ stateFile' = MarshalState(live)
    /\ toWrite' = Meta
    /\ saves' = saves \cup {[engine |-> live, net |-> net, types |-> types, on |-> adaptive]}
    /\ UNCHANGED <<keyframeVars, net, types, runs, sidecar, read, loaded>>

\* ... and then the sidecar.
SaveSidecar ==
    /\ toWrite # Nothing
    /\ sidecar' = toWrite
    /\ toWrite' = Nothing
    /\ UNCHANGED <<keyframeVars, net, types, runs, stateFile, read, loaded, saves>>

\* The run dies, in a save or not, and another one starts cold.
NextRun ==
    /\ runs < MaxRuns /\ saves # {} /\ twin = NoEngine
    /\ runs' = runs + 1
    /\ net' \in Networks /\ types' \in TypeTables /\ adaptive' \in BOOLEAN
    /\ live' = NewEngine
    /\ toWrite' = Nothing
    /\ UNCHANGED <<twin, stateFile, sidecar, read, loaded, saves>>

\* LoadState reads the bytes first.
ReadBytes ==
    /\ read = Nothing /\ stateFile # Nothing /\ loaded = Nothing
    /\ read' = stateFile
    /\ UNCHANGED <<keyframeVars, net, types, runs, stateFile, sidecar, toWrite, loaded, saves>>

\* Then the sidecar; what it guards is restored into a run of any spec.
ReadSidecar ==
    /\ read # Nothing
    /\ read' = Nothing
    /\ \E n \in Networks, t \in TypeTables, on \in BOOLEAN :
        loaded' = IF /\ sidecar # Nothing
                     /\ Paired(sidecar, read) /\ Guarded(sidecar, n, t)
                     /\ Readable(read, on)
                  THEN [engine |-> RestoreState(read), net |-> n, types |-> t, on |-> on]
                  ELSE Nothing
    /\ UNCHANGED <<keyframeVars, net, types, runs, stateFile, sidecar, toWrite, saves>>

\* A run that follows a save goes on to the next one; no twin is kept beside it.
StepToSave ==
    /\ saves # {} /\ toWrite = Nothing /\ read = Nothing /\ loaded = Nothing
    /\ \E tick \in SaveTicks : live.tick < tick
    /\ StepBoth
    /\ UNCHANGED diskVars

WarmNext ==
    \/ KeyframeNext /\ saves = {} /\ UNCHANGED diskVars
    \/ StepToSave
    \/ SaveBytes \/ SaveSidecar \/ NextRun \/ ReadBytes \/ ReadSidecar

WarmSpec == WarmInit /\ [][WarmNext]_warmVars

----------------------------------------------------------------------------
(* Properties.                                                             *)

(***************************************************************************)
(* What is loaded is what a run of this very network and type table saved, *)
(* whole, although a save is two writes and a load two reads, and runs die *)
(* in between; travel times are dropped by no load, only missing when the  *)
(* saving run had none (warmstart.go, SaveState, LoadState).               *)
(***************************************************************************)
LoadedWasSaved ==
    loaded # Nothing =>
        \E s \in saves :
            /\ s.net = loaded.net /\ s.types = loaded.types
            /\ s.on => loaded.on
            /\ Essence(s.engine, s.on) = Essence(loaded.engine, s.on)
=============================================================================
