----------------------------- MODULE Supervisor -----------------------------
(***************************************************************************)
(* The single-active-run supervisor of the demo server                     *)
(* (engine/cmd/demosrv/supervisor.go): one mutex serializes starts and     *)
(* stops of engine child processes, a stop aborts a start that holds the   *)
(* mutex through a lock-free epoch and pending count, and a reaper per     *)
(* child reports its exit.                                                 *)
(*                                                                         *)
(* Every call of start, startIfIdle, stop and shutdownFinal is a process   *)
(* with its own pc; every access to what another process may touch without *)
(* the mutex (closed, stopEpoch, stopPending, the child and its done       *)
(* channel) is a step of its own.                                          *)
(***************************************************************************)
EXTENDS Naturals, FiniteSets

CONSTANTS
  Start,    \* calls of start and startIfIdle; a call names the child it may spawn
  Stop,     \* calls of stop and shutdownFinal
  Autostart, \* the calls of startIfIdle
  Replay,   \* the starts whose target is a recording
  Final,    \* the calls of shutdownFinal
  Stray,    \* a foreign process listens on the fixed ports
  none      \* no child; no holder of the mutex

ASSUME SupervisorAssumption ==
  /\ Autostart \subseteq Start /\ Replay \subseteq Start /\ Final \subseteq Stop
  /\ Start \intersect Stop = {} /\ none \notin Start \union Stop
  /\ Stray \in BOOLEAN
  /\ IsFiniteSet(Start) /\ IsFiniteSet(Stop)

Op == Start \union Stop

VARIABLES
  mu,          \* the holder of the mutex
  active,      \* s.active: the current child
  statusSnap,  \* the lock-free status mirror
  closed, stopEpoch, stopPending,
  child,       \* [Start -> the process: "unborn", "up", "listening", "ready", "dead"]
  done,        \* [Start -> the reaper has closed the done channel]
  reaper,      \* [Start -> "wait", "lock", "finished"]
  pc,          \* [Op -> where the call is]
  epoch,       \* [Start -> the epoch the call's probes compare with]
  epoch0,      \* [Start -> autostart's own snapshot]
  victim,      \* [Op -> the child stopLocked is waiting for]
  then         \* [Op -> where the call goes after stopLocked]

\* History variables, read by the properties only.
VARIABLES
  landed,      \* [Start -> stops that began where the call must give way to them]
  overCorpse   \* starts whose last dial was accepted after done had been closed

shared   == <<mu, active, statusSnap, closed, stopEpoch, stopPending>>
children == <<child, done, reaper>>
calls    == <<pc, epoch, epoch0, victim, then>>
history  == <<landed, overCorpse>>
vars     == <<shared, children, calls, history>>

Alive(a) == child[a] \in {"up", "listening", "ready"}

\* Where a call can be: before its spawn, waiting for its child to be ready,
\* and the labels at which it does not hold the mutex.
BeforeSpawn == {"begin", "enter", "closed?", "epoch?", "pending?", "idle?", "closed again?", "spawn"}
Readying == {"probe port", "port done?", "dial port", "probe second", "second done?",
             "dial second", "corpse?", "verify", "final closed?", "final pending?", "final epoch?"}
Outside == {"begin", "enter", "mark", "bump", "lock", "started", "failed", "stopped"}
Label == BeforeSpawn \union Readying \union Outside \union {"activate", "reap", "unmark"}

\* A stop that has marked itself and has not yet done its work.
Marked(s) == pc[s] \in {"bump", "lock", "unmark"}

Goto(o, label) == pc' = [pc EXCEPT ![o] = label]

\* The two ways out of a call: the deferred Unlock, and the result.
Return(o, result) == mu' = none /\ Goto(o, result)

Init ==
  /\ mu = none /\ active = none /\ statusSnap = none
  /\ closed = FALSE /\ stopEpoch = 0 /\ stopPending = 0
  /\ child = [a \in Start |-> "unborn"]
  /\ done = [a \in Start |-> FALSE]
  /\ reaper = [a \in Start |-> "wait"]
  /\ pc = [o \in Op |-> "begin"]
  /\ epoch = [o \in Start |-> 0] /\ epoch0 = [o \in Start |-> 0]
  /\ victim = [o \in Op |-> none] /\ then = [o \in Op |-> "begin"]
  /\ landed = [o \in Start |-> {}] /\ overCorpse = {}

-----------------------------------------------------------------------------
(***************************************************************************)
(* startGuarded: the guards, in the order that is load-bearing.            *)
(***************************************************************************)

\* The caller; autostart takes its epoch snapshot now.
Call(o) ==
  /\ pc[o] = "begin"
  /\ epoch0' = [epoch0 EXCEPT ![o] = stopEpoch]
  /\ Goto(o, "enter")
  /\ UNCHANGED <<shared, children, epoch, victim, then, history>>

Enter(o) ==
  /\ pc[o] = "enter" /\ mu = none
  /\ mu' = o
  /\ Goto(o, "closed?")
  /\ landed' = [landed EXCEPT ![o] = @ \union {s \in Stop : Marked(s)}]
  /\ UNCHANGED <<active, statusSnap, closed, stopEpoch, stopPending, children,
                 epoch, epoch0, victim, then, overCorpse>>

ShutDown == closed

CheckClosed(o) ==
  /\ pc[o] = "closed?"
  /\ IF ShutDown THEN Return(o, "failed") ELSE Goto(o, "epoch?") /\ UNCHANGED mu
  /\ UNCHANGED <<active, statusSnap, closed, stopEpoch, stopPending, children,
                 epoch, epoch0, victim, then, history>>

SnapshotEpoch(o) ==
  /\ pc[o] = "epoch?"
  /\ epoch' = [epoch EXCEPT ![o] = stopEpoch]
  /\ Goto(o, "pending?")
  /\ UNCHANGED <<shared, children, epoch0, victim, then, history>>

\* A queued stop, or for autostart any stop since its snapshot, refuses.
StoppedSince(o) == o \in Autostart /\ epoch[o] # epoch0[o]

CheckPending(o) ==
  /\ pc[o] = "pending?"
  /\ IF stopPending > 0 \/ StoppedSince(o)
     THEN Return(o, "failed") ELSE Goto(o, "idle?") /\ UNCHANGED mu
  /\ UNCHANGED <<active, statusSnap, closed, stopEpoch, stopPending, children,
                 epoch, epoch0, victim, then, history>>

\* Autostart backs off from a run; a corpse not reaped yet reads as idle.
Busy(o) == o \in Autostart /\ active # none /\ ~done[active]
FindsCorpse(o) == o \in Autostart /\ active # none /\ done[active]

CheckIdle(o) ==
  /\ pc[o] = "idle?"
  /\ IF Busy(o)
     THEN Return(o, "failed") /\ UNCHANGED <<active, statusSnap>>
     ELSE /\ Goto(o, "closed again?")
          /\ active' = IF FindsCorpse(o) THEN none ELSE active
          /\ statusSnap' = IF FindsCorpse(o) THEN none ELSE statusSnap
          /\ UNCHANGED mu
  /\ UNCHANGED <<closed, stopEpoch, stopPending, children, epoch, epoch0, victim, then, history>>

\* stopLocked begins: the active child is forgotten and sent SIGTERM.
KillUnawaited(o, next) ==
  /\ active' = none /\ statusSnap' = none
  /\ victim' = [victim EXCEPT ![o] = none]
  /\ then' = [then EXCEPT ![o] = next]
  /\ Goto(o, "reap")

Kill(o, next) ==
  /\ active' = none /\ statusSnap' = none
  /\ victim' = [victim EXCEPT ![o] = active]
  /\ then' = [then EXCEPT ![o] = next]
  /\ Goto(o, "reap")

CheckClosedAgain(o) ==
  /\ pc[o] = "closed again?"
  /\ IF ShutDown
     THEN Return(o, "failed") /\ UNCHANGED <<active, statusSnap, victim, then>>
     ELSE Kill(o, "spawn") /\ UNCHANGED mu
  /\ UNCHANGED <<closed, stopEpoch, stopPending, children, epoch, epoch0, history>>

\* The run nonce or the spawn may fail; the old child is gone by then.
SpawnFails(o) ==
  /\ pc[o] = "spawn"
  /\ Return(o, "failed")
  /\ UNCHANGED <<active, statusSnap, closed, stopEpoch, stopPending, children,
                 epoch, epoch0, victim, then, history>>

Spawn(o) ==
  /\ pc[o] = "spawn"
  /\ child' = [child EXCEPT ![o] = "up"]
  /\ Goto(o, "activate")
  /\ UNCHANGED <<shared, done, reaper, epoch, epoch0, victim, then, history>>

Activate(o) ==
  /\ pc[o] = "activate"
  /\ active' = o /\ statusSnap' = o
  /\ Goto(o, "probe port")
  /\ UNCHANGED <<mu, closed, stopEpoch, stopPending, children,
                 epoch, epoch0, victim, then, history>>

-----------------------------------------------------------------------------
(***************************************************************************)
(* waitReady: one pass of a probe loop looks at the epoch, at the done     *)
(* channel, and then dials.  The second phase is waitIdentity for a demo   *)
(* and the control port for a recording.                                   *)
(***************************************************************************)
Probing == {"probe port", "probe second"}

NeverAborted(o) == FALSE
Aborted(o) == stopEpoch # epoch[o]

ProbeEpoch(o) ==
  /\ pc[o] \in Probing
  /\ IF Aborted(o)
     THEN Kill(o, "failed")
     ELSE /\ Goto(o, IF pc[o] = "probe port" THEN "port done?" ELSE "second done?")
          /\ UNCHANGED <<active, statusSnap, victim, then>>
  /\ UNCHANGED <<mu, closed, stopEpoch, stopPending, children, epoch, epoch0, history>>

ProbeDone(o) ==
  /\ pc[o] \in {"port done?", "second done?"}
  /\ IF done[o]
     THEN Kill(o, "failed")
     ELSE /\ Goto(o, IF pc[o] = "port done?" THEN "dial port" ELSE "dial second")
          /\ UNCHANGED <<active, statusSnap, victim, then>>
  /\ UNCHANGED <<mu, closed, stopEpoch, stopPending, children, epoch, epoch0, history>>

\* Who answers: the child once it listens, or the stray process.  A run id is
\* unique to its spawn, so only the child itself can answer for a demo's
\* registry entry.
PortAccepts(o) == Stray \/ child[o] \in {"listening", "ready"}
SecondAccepts(o) == child[o] = "ready" \/ (Stray /\ o \in Replay)

DialPort(o) ==
  /\ pc[o] = "dial port"
  /\ Goto(o, IF PortAccepts(o) THEN "probe second" ELSE "probe port")
  /\ UNCHANGED <<shared, children, epoch, epoch0, victim, then, history>>

DialSecond(o) ==
  /\ pc[o] = "dial second"
  /\ Goto(o, CASE ~SecondAccepts(o) -> "probe second"
               [] SecondAccepts(o) /\ o \in Replay -> "verify"
               [] SecondAccepts(o) /\ o \notin Replay -> "corpse?")
  /\ overCorpse' = IF SecondAccepts(o) /\ done[o] THEN overCorpse \union {o} ELSE overCorpse
  /\ UNCHANGED <<shared, children, epoch, epoch0, victim, then, landed>>

\* The identity probe passed; the child must still be there.
CheckCorpse(o) ==
  /\ pc[o] = "corpse?"
  /\ IF done[o]
     THEN Kill(o, "failed")
     ELSE Goto(o, "final closed?") /\ UNCHANGED <<active, statusSnap, victim, then>>
  /\ UNCHANGED <<mu, closed, stopEpoch, stopPending, children, epoch, epoch0, history>>

\* The deadline of a wait passes after an unanswered dial.
TimeOut(o) ==
  /\ \/ pc[o] = "dial port" /\ ~PortAccepts(o)
     \/ pc[o] = "dial second" /\ ~SecondAccepts(o)
  /\ Kill(o, "failed")
  /\ UNCHANGED <<mu, closed, stopEpoch, stopPending, children, epoch, epoch0, history>>

\* The recording's hash check, or no check at all: it passes or fails.
VerifyPasses(o) ==
  /\ pc[o] = "verify"
  /\ Goto(o, "final closed?")
  /\ UNCHANGED <<shared, children, epoch, epoch0, victim, then, history>>

VerifyFails(o) ==
  /\ pc[o] = "verify"
  /\ Kill(o, "failed")
  /\ UNCHANGED <<mu, closed, stopEpoch, stopPending, children, epoch, epoch0, history>>

-----------------------------------------------------------------------------
(***************************************************************************)
(* The final revalidation, in the entry guard's order.                     *)
(***************************************************************************)
FinalClosed(o) ==
  /\ pc[o] = "final closed?"
  /\ IF ShutDown
     THEN Kill(o, "failed")
     ELSE Goto(o, "final pending?") /\ UNCHANGED <<active, statusSnap, victim, then>>
  /\ UNCHANGED <<mu, closed, stopEpoch, stopPending, children, epoch, epoch0, history>>

StopQueuedUnseen == FALSE
StopQueued == stopPending > 0

FinalPending(o) ==
  /\ pc[o] = "final pending?"
  /\ IF StopQueued
     THEN Kill(o, "failed")
     ELSE Goto(o, "final epoch?") /\ UNCHANGED <<active, statusSnap, victim, then>>
  /\ UNCHANGED <<mu, closed, stopEpoch, stopPending, children, epoch, epoch0, history>>

FinalEpoch(o) ==
  /\ pc[o] = "final epoch?"
  /\ IF Aborted(o)
     THEN Kill(o, "failed") /\ UNCHANGED mu
     ELSE Return(o, "started") /\ UNCHANGED <<active, statusSnap, victim, then>>
  /\ UNCHANGED <<closed, stopEpoch, stopPending, children, epoch, epoch0, history>>

-----------------------------------------------------------------------------
(***************************************************************************)
(* stopLocked, stop and shutdownFinal.                                     *)
(***************************************************************************)

\* The rest of stopLocked: wait for the reaper's done, and after the grace
\* period kill.  Callers other than a start on its way to spawn return.
GoneUnconfirmed(o) == TRUE
Gone(o) == victim[o] # none => done[victim[o]]

Reaped(o) ==
  /\ pc[o] = "reap" /\ Gone(o)
  /\ IF then[o] = "spawn" THEN Goto(o, "spawn") /\ UNCHANGED mu ELSE Return(o, then[o])
  /\ victim' = [victim EXCEPT ![o] = none]
  /\ UNCHANGED <<active, statusSnap, closed, stopEpoch, stopPending, children,
                 epoch, epoch0, then, history>>

Escalate(o) ==
  /\ pc[o] = "reap"
  /\ victim[o] # none /\ Alive(victim[o])
  /\ child' = [child EXCEPT ![victim[o]] = "dead"]
  /\ UNCHANGED <<shared, done, reaper, calls, history>>

\* shutdownFinal latches closed before it does what stop does.
BeginStop(s) ==
  /\ pc[s] = "begin"
  /\ closed' = (closed \/ s \in Final)
  /\ Goto(s, "mark")
  /\ UNCHANGED <<mu, active, statusSnap, stopEpoch, stopPending, children,
                 epoch, epoch0, victim, then, history>>

\* The starts that are to give way to a stop that begins now: one that holds
\* the mutex and has not passed the pending check of its last guard, and an
\* autostart since its snapshot.
Yielding(o) ==
  /\ pc[o] \notin {"begin", "final epoch?", "started", "failed"}
  /\ mu = o \/ o \in Autostart

Mark(s) ==
  /\ pc[s] = "mark"
  /\ stopPending' = stopPending + 1
  /\ Goto(s, "bump")
  /\ landed' = [o \in Start |-> IF Yielding(o) THEN landed[o] \union {s} ELSE landed[o]]
  /\ UNCHANGED <<mu, active, statusSnap, closed, stopEpoch, children,
                 epoch, epoch0, victim, then, overCorpse>>

Bump(s) ==
  /\ pc[s] = "bump"
  /\ stopEpoch' = stopEpoch + 1
  /\ Goto(s, "lock")
  /\ UNCHANGED <<mu, active, statusSnap, closed, stopPending, children,
                 epoch, epoch0, victim, then, history>>

LockStop(s) ==
  /\ pc[s] = "lock" /\ mu = none
  /\ mu' = s
  /\ Goto(s, "unmark")
  /\ UNCHANGED <<active, statusSnap, closed, stopEpoch, stopPending, children,
                 epoch, epoch0, victim, then, history>>

PendingLess == stopPending - 1

StopActive(s) ==
  /\ pc[s] = "unmark"
  /\ stopPending' = PendingLess
  /\ Kill(s, "stopped")
  /\ UNCHANGED <<mu, closed, stopEpoch, children, epoch, epoch0, history>>

-----------------------------------------------------------------------------
(***************************************************************************)
(* The child and its reaper.                                               *)
(***************************************************************************)

\* The engine opens its port, then registers its run or binds its control
\* port; it cannot bind a port a stray process holds.
ChildListens(a) ==
  /\ child[a] = "up" /\ ~Stray
  /\ child' = [child EXCEPT ![a] = "listening"]
  /\ UNCHANGED <<shared, done, reaper, calls, history>>

ChildReady(a) ==
  /\ child[a] = "listening"
  /\ child' = [child EXCEPT ![a] = "ready"]
  /\ UNCHANGED <<shared, done, reaper, calls, history>>

\* SIGTERM, a crash, the tick horizon.
ChildExits(a) ==
  /\ Alive(a)
  /\ child' = [child EXCEPT ![a] = "dead"]
  /\ UNCHANGED <<shared, done, reaper, calls, history>>

\* The reaper closes done before it takes the mutex.
ReaperCloses(a) ==
  /\ reaper[a] = "wait" /\ child[a] = "dead"
  /\ done' = [done EXCEPT ![a] = TRUE]
  /\ reaper' = [reaper EXCEPT ![a] = "lock"]
  /\ UNCHANGED <<shared, child, calls, history>>

ReaperMayEnter == mu = none

ReaperClears(a) ==
  /\ reaper[a] = "lock" /\ ReaperMayEnter
  /\ reaper' = [reaper EXCEPT ![a] = "finished"]
  /\ active' = IF active = a THEN none ELSE active
  /\ statusSnap' = IF active = a THEN none ELSE statusSnap
  /\ UNCHANGED <<mu, closed, stopEpoch, stopPending, child, done, calls, history>>

\* Every call has returned and nothing is left to happen to the children.
Finished ==
  /\ \A o \in Op : pc[o] \in {"started", "failed", "stopped"}
  /\ UNCHANGED vars

\* The steps a start takes by itself, whatever the outside answers.
StartSteps(o) ==
  \/ CheckClosed(o) \/ SnapshotEpoch(o) \/ CheckPending(o) \/ CheckIdle(o)
  \/ CheckClosedAgain(o) \/ SpawnFails(o) \/ Spawn(o) \/ Activate(o)
  \/ ProbeEpoch(o) \/ ProbeDone(o) \/ DialPort(o) \/ DialSecond(o) \/ CheckCorpse(o)
  \/ VerifyPasses(o) \/ VerifyFails(o)
  \/ FinalClosed(o) \/ FinalPending(o) \/ FinalEpoch(o)
  \/ Reaped(o)

StopSteps(s) == Mark(s) \/ Bump(s) \/ StopActive(s) \/ Reaped(s)

Next ==
  \/ \E o \in Start : Call(o) \/ Enter(o) \/ StartSteps(o) \/ TimeOut(o)
  \/ \E s \in Stop : BeginStop(s) \/ LockStop(s) \/ StopSteps(s)
  \/ \E o \in Op : Escalate(o)
  \/ \E a \in Start : \/ ChildListens(a) \/ ChildReady(a) \/ ChildExits(a)
                      \/ ReaperCloses(a) \/ ReaperClears(a)
  \/ Finished

Spec == Init /\ [][Next]_vars

\* Goroutines run, a Go mutex does not starve a waiter, and the kill timer
\* fires.  Nothing is assumed of the children, the ports or the deadlines.
Fairness ==
  /\ \A o \in Start : WF_vars(StartSteps(o)) /\ SF_vars(Enter(o))
  /\ \A s \in Stop : WF_vars(StopSteps(s)) /\ SF_vars(LockStop(s))
  /\ \A o \in Op : WF_vars(Escalate(o))
  /\ \A a \in Start : WF_vars(ReaperCloses(a))

FairSpec == Spec /\ Fairness
-----------------------------------------------------------------------------

\* The type invariant of the supervisor, its children and the calls.
TypeOK ==
  /\ mu \in Op \union {none}
  /\ active \in Start \union {none} /\ statusSnap \in Start \union {none}
  /\ closed \in BOOLEAN /\ stopEpoch \in Nat /\ stopPending \in Nat
  /\ child \in [Start -> {"unborn", "up", "listening", "ready", "dead"}]
  /\ done \in [Start -> BOOLEAN]
  /\ reaper \in [Start -> {"wait", "lock", "finished"}]
  /\ pc \in [Op -> Label] /\ then \in [Op -> Label]
  /\ epoch \in [Start -> Nat] /\ epoch0 \in [Start -> Nat]
  /\ victim \in [Op -> Start \union {none}]
  /\ landed \in [Start -> SUBSET Stop] /\ overCorpse \subseteq Start

\* Kill before spawn: two engines never run at once (they would share the
\* store directory and the port), whatever starts, stops and crashes overlap;
\* and once shutdownFinal has returned none runs, and none ever will.
OneEngine ==
  /\ \A a, b \in Start : Alive(a) /\ Alive(b) => a = b
  /\ \A s \in Final : pc[s] = "stopped" => \A a \in Start : ~Alive(a)

\* A start that fails leaves no process behind.
FailureLeavesNothing ==
  \A o \in Start : pc[o] = "failed" => ~Alive(o)

\* A stop that began while a start held the mutex or was queued in front of
\* it, or at any time since an autostart's snapshot, is never answered with
\* a successful start: no start is both unrefused and unabortable.
StopWins == \A o \in Start : pc[o] = "started" => landed[o] = {}

\* A stop returns although a start may hold the mutex when it comes, with no
\* help from a deadline, a port or a child.
StopsReturn == \A s \in Stop : pc[s] = "mark" ~> pc[s] = "stopped"

\* "Once the child is dead, a port that accepts belongs to some stray
\* process": a start never succeeds on a dial answered for a dead child.
NeverReadyOverCorpse == \A o \in Start : pc[o] = "started" => o \notin overCorpse
=============================================================================
