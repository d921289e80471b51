-------------------------- MODULE Processes_proofs --------------------------
(***************************************************************************)
(* Proofs about the processes of the system: the supervisor of engine      *)
(* processes, for any finite sets of starts and stops and any interleaving *)
(* of their steps, of children that die and of reapers; and the process of *)
(* a live run, for any horizon, any command line and any number of         *)
(* processes, killed anywhere and started again.                           *)
(***************************************************************************)
EXTENDS Supervisor, Serve, FiniteSetTheorems, TLAPS

----------------------------------------------------------------------------
(* The supervisor.  Two inductive invariants.  The first locates every     *)
(* living engine: it is the active one, or the holder of the mutex is      *)
(* about to activate it, or waits for its death.  The second follows a     *)
(* stop that a start has to give way to: as long as the start holds the    *)
(* mutex the stop is still marked, so that the pending count is positive   *)
(* when the start looks.                                                   *)

StartLabel == BeforeSpawn \union Readying \union {"activate", "reap", "started", "failed"}
StopLabel == {"begin", "mark", "bump", "lock", "unmark", "reap", "stopped"}

\* A call is where its kind can be, and stopLocked returns to where it was called.
Labelled ==
  /\ \A o \in Start : /\ pc[o] \in StartLabel
                      /\ pc[o] = "reap" => then[o] \in {"spawn", "failed"}
  /\ \A s \in Stop : /\ pc[s] \in StopLabel
                     /\ pc[s] = "reap" => then[s] = "stopped"

\* The mutex is held by the one call that is inside.
Holder == \A o \in Op : mu = o <=> pc[o] \notin Outside

\* stopPending counts the stops between their mark and their work.
Counted == stopPending = Cardinality({s \in Stop : Marked(s)})

\* Done means dead, and nobody but its own start brings a child to life.
Children ==
  /\ \A a \in Start : /\ done[a] => child[a] = "dead"
                      /\ reaper[a] = "lock" => done[a]
  /\ \A o \in Start :
        /\ pc[o] \in BeforeSpawn \/ (pc[o] = "reap" /\ then[o] = "spawn") => child[o] = "unborn"
        /\ pc[o] = "failed" => ~Alive(o)

\* Where a living engine is.
Located ==
  /\ \A a \in Start : Alive(a) => \/ active = a
                                  \/ pc[a] = "activate"
                                  \/ \E o \in Op : pc[o] = "reap" /\ victim[o] = a
  /\ \A o \in Op : pc[o] \in {"reap", "spawn", "activate"} => active = none

\* After shutdownFinal nothing runs and no start is past its first guard.
ShutForGood ==
  \A s \in Final :
     /\ pc[s] # "begin" => closed
     /\ pc[s] = "stopped" =>
           /\ \A o \in Start : pc[o] \in {"begin", "enter", "closed?", "started", "failed"}
           /\ \A a \in Start : ~Alive(a)

SupervisorInv == TypeOK /\ Labelled /\ Holder /\ Counted /\ Children /\ Located /\ ShutForGood

\* The labels between the guard that refuses and the one that rechecks.
Committed == {"idle?", "closed again?", "spawn", "activate", "reap"} \union
             (Readying \ {"final epoch?"})

Waiting(s) == pc[s] \in {"bump", "lock"}

\* A start that a stop overtook will meet it: at the pending count while the
\* stop is marked, or, an autostart, at the epoch it compares with its snapshot.
GivesWay(o) ==
  /\ epoch0[o] <= stopEpoch
  /\ pc[o] \in {"begin", "final epoch?", "started"} => landed[o] = {}
  /\ o \notin Autostart /\ pc[o] = "enter" => landed[o] = {}
  /\ \A s \in landed[o] :
        /\ pc[o] = "enter" => pc[s] = "bump" \/ epoch0[o] < stopEpoch
        /\ pc[o] \in {"closed?", "epoch?"} =>
              Waiting(s) \/ (o \in Autostart /\ epoch0[o] < stopEpoch)
        /\ pc[o] = "pending?" => Waiting(s) \/ (o \in Autostart /\ epoch0[o] < epoch[o])
        /\ pc[o] \in Committed => Waiting(s)

Overtaken == \A o \in Start : GivesWay(o)

-----------------------------------------------------------------------------
(***************************************************************************)
(* The shapes of a step.  Most actions differ only in what they look at:   *)
(* a start goes on, is refused, or gives up and reaps its child.           *)
(***************************************************************************)
GuardLabel == {"closed?", "epoch?", "pending?", "idle?", "closed again?"}

\* The start goes on, among its guards or while it waits for its child.
GoesOn(o, from, to) ==
  /\ pc[o] = from /\ pc' = [pc EXCEPT ![o] = to]
  /\ from = "closed?" => ~closed
  /\ epoch' \in {epoch, [epoch EXCEPT ![o] = stopEpoch]}
  /\ overCorpse' \in {overCorpse, overCorpse \union {o}}
  /\ UNCHANGED <<shared, children, epoch0, victim, then, landed>>

\* The start is refused before it has spawned anything.
Refused(o) ==
  /\ pc[o] \in GuardLabel \union {"spawn"}
  /\ pc' = [pc EXCEPT ![o] = "failed"] /\ mu' = none
  /\ UNCHANGED <<active, statusSnap, closed, stopEpoch, stopPending, children,
                 epoch, epoch0, victim, then, history>>

\* A call inside the mutex kills the active child and goes on to reap it.
Kills(o, next) ==
  /\ pc' = [pc EXCEPT ![o] = "reap"] /\ then' = [then EXCEPT ![o] = next]
  /\ victim' = [victim EXCEPT ![o] = active]
  /\ active' = none /\ statusSnap' = none
  /\ UNCHANGED <<mu, closed, stopEpoch, children, epoch, epoch0, history>>

GivesUp(o) == pc[o] \in Readying /\ Kills(o, "failed") /\ UNCHANGED stopPending
Replaces(o) == pc[o] = "closed again?" /\ Kills(o, "spawn") /\ UNCHANGED stopPending

\* An autostart forgets a child that is dead but not reaped.
ForgetsCorpse(o) ==
  /\ pc[o] = "idle?" /\ pc' = [pc EXCEPT ![o] = "closed again?"]
  /\ active # none /\ done[active]
  /\ active' = none /\ statusSnap' = none
  /\ UNCHANGED <<mu, closed, stopEpoch, stopPending, children,
                 epoch, epoch0, victim, then, history>>

Succeeds(o) ==
  /\ pc[o] = "final epoch?" /\ pc' = [pc EXCEPT ![o] = "started"] /\ mu' = none
  /\ UNCHANGED <<active, statusSnap, closed, stopEpoch, stopPending, children,
                 epoch, epoch0, victim, then, history>>

\* A child that lives goes on or dies; nobody else notices.
ChildLives(a) ==
  /\ Alive(a) /\ \E x \in {"listening", "ready", "dead"} : child' = [child EXCEPT ![a] = x]
  /\ UNCHANGED <<shared, done, reaper, calls, history>>

StartShape(o) ==
  \/ \E from, to \in GuardLabel : GoesOn(o, from, to)
  \/ \E from, to \in Readying : GoesOn(o, from, to)
  \/ Refused(o) \/ GivesUp(o) \/ Replaces(o) \/ ForgetsCorpse(o) \/ Succeeds(o)
  \/ Spawn(o) \/ Activate(o) \/ Reaped(o)

\* Every step a start takes by itself has one of the shapes.
LEMMA StartShapes ==
  ASSUME TypeOK, NEW o \in Start, StartSteps(o) \/ TimeOut(o)
  PROVE  StartShape(o)
<1> USE DEF StartShape, Goto, Return, shared, children, calls, history
<1>1. CASE CheckClosed(o)
  BY <1>1 DEF CheckClosed, ShutDown, GoesOn, Refused, GuardLabel
<1>2. CASE SnapshotEpoch(o)
  BY <1>2 DEF SnapshotEpoch, GoesOn, GuardLabel
<1>3. CASE CheckPending(o)
  BY <1>3 DEF CheckPending, GoesOn, Refused, GuardLabel
<1>4. CASE CheckIdle(o)
  BY <1>4 DEF CheckIdle, FindsCorpse, GoesOn, Refused, ForgetsCorpse, GuardLabel
<1>5. CASE CheckClosedAgain(o)
  BY <1>5 DEF CheckClosedAgain, Kill, Refused, Replaces, Kills, GuardLabel
<1>6. CASE SpawnFails(o)
  BY <1>6 DEF SpawnFails, Refused
<1>7. CASE ProbeEpoch(o)
  BY <1>7 DEF ProbeEpoch, Probing, Kill, GoesOn, GivesUp, Kills, Readying
<1>8. CASE ProbeDone(o)
  BY <1>8 DEF ProbeDone, Kill, GoesOn, GivesUp, Kills, Readying
<1>9. CASE DialPort(o)
  BY <1>9 DEF DialPort, GoesOn, Readying
<1>10. CASE DialSecond(o)
  <2>1. pc'[o] \in {"probe second", "verify", "corpse?"} /\ pc' = [pc EXCEPT ![o] = pc'[o]]
    BY <1>10 DEF DialSecond, TypeOK, Op
  <2>2. overCorpse' \in {overCorpse, overCorpse \union {o}} /\ pc[o] = "dial second"
    BY <1>10 DEF DialSecond
  <2> QED
    BY <1>10, <2>1, <2>2 DEF DialSecond, GoesOn, Readying
<1>11. CASE CheckCorpse(o)
  BY <1>11 DEF CheckCorpse, Kill, GoesOn, GivesUp, Kills, Readying
<1>12. CASE VerifyPasses(o)
  BY <1>12 DEF VerifyPasses, GoesOn, Readying
<1>13. CASE VerifyFails(o)
  BY <1>13 DEF VerifyFails, Kill, GivesUp, Kills, Readying
<1>14. CASE FinalClosed(o)
  BY <1>14 DEF FinalClosed, Kill, GoesOn, GivesUp, Kills, Readying
<1>15. CASE FinalPending(o)
  BY <1>15 DEF FinalPending, Kill, GoesOn, GivesUp, Kills, Readying
<1>16. CASE FinalEpoch(o)
  BY <1>16 DEF FinalEpoch, Kill, Succeeds, GivesUp, Kills, Readying
<1>17. CASE TimeOut(o)
  BY <1>17 DEF TimeOut, Kill, GivesUp, Kills, Readying
<1> QED
  BY <1>1, <1>2, <1>3, <1>4, <1>5, <1>6, <1>7, <1>8, <1>9, <1>10, <1>11, <1>12, <1>13, <1>14,
     <1>15, <1>16, <1>17 DEF StartSteps

-----------------------------------------------------------------------------
(***************************************************************************)
(* Every shape preserves the invariant.                                    *)
(***************************************************************************)

\* The marked stops are finitely many, so that one of them makes the count positive.
LEMMA PendingPositive ==
  ASSUME SupervisorInv, NEW s \in Stop, Marked(s)
  PROVE  stopPending > 0
<1> DEFINE M == {x \in Stop : Marked(x)}
<1>1. IsFiniteSet(M)
  BY SupervisorAssumption, FS_Subset
<1>2. M # {} /\ stopPending = Cardinality(M)
  BY DEF SupervisorInv, Counted
<1> HIDE DEF M
<1> QED
  BY <1>1, <1>2, FS_EmptySet, FS_CardinalityType

\* Looking changes nothing but the place of the start.
LEMMA GoesOnInv ==
  ASSUME SupervisorInv, NEW o \in Start, NEW from, NEW to, GoesOn(o, from, to),
         \/ from \in GuardLabel /\ to \in GuardLabel
         \/ from \in Readying /\ to \in Readying
  PROVE  SupervisorInv'
<1> USE SupervisorAssumption DEF SupervisorInv, TypeOK, Op, GoesOn, shared, children
<1>1. TypeOK'
  <2>1. to \in Label
    BY DEF Label, Readying, BeforeSpawn, GuardLabel
  <2>2. overCorpse' \subseteq Start /\ epoch' \in [Start -> Nat]
    OBVIOUS
  <2> QED
    BY <2>1, <2>2
<1>2. Labelled'
  BY DEF Labelled, StartLabel, StopLabel, BeforeSpawn, Readying, GuardLabel
<1>3. Holder'
  BY DEF Holder, Outside, GuardLabel, Readying, Labelled, StopLabel, StartLabel, BeforeSpawn
<1>4. Counted'
  <2>1. \A s \in Stop : pc'[s] = pc[s]
    OBVIOUS
  <2>2. {s \in Stop : Marked(s)}' = {s \in Stop : Marked(s)}
    BY <2>1 DEF Marked
  <2> QED
    BY <2>2 DEF Counted
<1>5. Children'
  BY DEF Children, BeforeSpawn, Alive, GuardLabel, Readying
<1>6. Located'
  BY DEF Located, Holder, Outside, Alive, GuardLabel, Readying
<1>7. ShutForGood'
  BY DEF ShutForGood, Alive, GuardLabel, Readying
<1> QED
  BY <1>1, <1>2, <1>3, <1>4, <1>5, <1>6, <1>7

\* A refused start has no child yet.
LEMMA RefusedInv ==
  ASSUME SupervisorInv, NEW o \in Start, Refused(o)
  PROVE  SupervisorInv'
<1> USE SupervisorAssumption DEF SupervisorInv, TypeOK, Op, Refused, children, history
<1>1. TypeOK'
  BY DEF TypeOK, Label, Readying, BeforeSpawn, Outside, GuardLabel
<1>2. Labelled'
  BY DEF Labelled, StartLabel, StopLabel, BeforeSpawn, Readying, GuardLabel
<1>3. Holder'
  <2>1. mu = o /\ "failed" \in Outside
    BY DEF Holder, Outside, GuardLabel
  <2>2. \A p \in Op : p # o => pc[p] \in Outside
    BY <2>1 DEF Holder
  <2>3. none \notin Op
    OBVIOUS
  <2> QED
    BY <2>1, <2>2, <2>3 DEF Holder
<1>4. Counted'
  BY DEF Counted, Marked, GuardLabel, Readying
<1>5. Children'
  BY DEF Children, BeforeSpawn, Alive, GuardLabel, Readying
<1>6. Located'
  BY DEF Located, Holder, Outside, Alive, GuardLabel, Readying
<1>7. ShutForGood'
  BY DEF ShutForGood, Alive, GuardLabel, Readying
<1> QED
  BY <1>1, <1>2, <1>3, <1>4, <1>5, <1>6, <1>7

\* A start that gives up waits for its child to be gone.
LEMMA GivesUpInv ==
  ASSUME SupervisorInv, NEW o \in Start, GivesUp(o)
  PROVE  SupervisorInv'
<1> USE SupervisorAssumption DEF SupervisorInv, TypeOK, Op, GivesUp, Kills, children, history
<1>1. TypeOK'
  BY DEF TypeOK, Label, Readying, BeforeSpawn, Outside, GuardLabel
<1>2. Labelled'
  BY DEF Labelled, StartLabel, StopLabel, BeforeSpawn, Readying, GuardLabel
<1>3. Holder'
  BY DEF Holder, Outside, GuardLabel, Readying, Labelled, StopLabel, StartLabel, BeforeSpawn
<1>4. Counted'
  BY DEF Counted, Marked, GuardLabel, Readying
<1>5. Children'
  BY DEF Children, BeforeSpawn, Alive, GuardLabel, Readying
<1>6. Located'
  BY DEF Located, Holder, Outside, Alive, GuardLabel, Readying
<1>7. ShutForGood'
  BY DEF ShutForGood, Alive, GuardLabel, Readying
<1> QED
  BY <1>1, <1>2, <1>3, <1>4, <1>5, <1>6, <1>7

\* The old child is on its way out before the new one is spawned.
LEMMA ReplacesInv ==
  ASSUME SupervisorInv, NEW o \in Start, Replaces(o)
  PROVE  SupervisorInv'
<1> USE SupervisorAssumption DEF SupervisorInv, TypeOK, Op, Replaces, Kills, children, history
<1>1. TypeOK'
  BY DEF TypeOK, Label, Readying, BeforeSpawn, Outside, GuardLabel
<1>2. Labelled'
  BY DEF Labelled, StartLabel, StopLabel, BeforeSpawn, Readying, GuardLabel
<1>3. Holder'
  BY DEF Holder, Outside, GuardLabel, Readying, Labelled, StopLabel, StartLabel, BeforeSpawn
<1>4. Counted'
  BY DEF Counted, Marked, GuardLabel, Readying
<1>5. Children'
  BY DEF Children, BeforeSpawn, Alive, GuardLabel, Readying
<1>6. Located'
  BY DEF Located, Holder, Outside, Alive, GuardLabel, Readying
<1>7. ShutForGood'
  BY DEF ShutForGood, Alive, GuardLabel, Readying
<1> QED
  BY <1>1, <1>2, <1>3, <1>4, <1>5, <1>6, <1>7

\* A child whose done channel is closed is dead.
LEMMA ForgetsCorpseInv ==
  ASSUME SupervisorInv, NEW o \in Start, ForgetsCorpse(o)
  PROVE  SupervisorInv'
<1> USE SupervisorAssumption DEF SupervisorInv, TypeOK, Op, ForgetsCorpse, children, history
<1>1. TypeOK'
  BY DEF TypeOK, Label, Readying, BeforeSpawn, Outside, GuardLabel
<1>2. Labelled'
  BY DEF Labelled, StartLabel, StopLabel, BeforeSpawn, Readying, GuardLabel
<1>3. Holder'
  BY DEF Holder, Outside, GuardLabel, Readying, Labelled, StopLabel, StartLabel, BeforeSpawn
<1>4. Counted'
  BY DEF Counted, Marked, GuardLabel, Readying
<1>5. Children'
  BY DEF Children, BeforeSpawn, Alive, GuardLabel, Readying
<1>6. Located'
  <2>1. active \in Start /\ ~Alive(active)
    BY DEF Children, Alive
  <2>2. mu = o
    BY DEF Holder, Outside
  <2>3. \A p \in Op : pc[p] = "activate" \/ pc[p] = "reap" => p = o
    BY <2>2 DEF Holder, Outside
  <2>4. \A a \in Start : ~Alive(a)
    BY <2>1, <2>3 DEF Located
  <2> QED
    BY <2>4 DEF Located, Alive
<1>7. ShutForGood'
  BY DEF ShutForGood, Alive, GuardLabel, Readying
<1> QED
  BY <1>1, <1>2, <1>3, <1>4, <1>5, <1>6, <1>7

\* A start that succeeds leaves its child active.
LEMMA SucceedsInv ==
  ASSUME SupervisorInv, NEW o \in Start, Succeeds(o)
  PROVE  SupervisorInv'
<1> USE SupervisorAssumption DEF SupervisorInv, TypeOK, Op, Succeeds, children, history
<1>1. TypeOK'
  BY DEF TypeOK, Label, Readying, BeforeSpawn, Outside, GuardLabel
<1>2. Labelled'
  BY DEF Labelled, StartLabel, StopLabel, BeforeSpawn, Readying, GuardLabel
<1>3. Holder'
  BY ZenonT(40) DEF Holder, Outside, GuardLabel, Readying, Labelled, StopLabel, StartLabel, BeforeSpawn
<1>4. Counted'
  BY DEF Counted, Marked, GuardLabel, Readying
<1>5. Children'
  BY DEF Children, BeforeSpawn, Alive, GuardLabel, Readying
<1>6. Located'
  BY DEF Located, Holder, Outside, Alive, GuardLabel, Readying
<1>7. ShutForGood'
  BY DEF ShutForGood, Alive, GuardLabel, Readying
<1> QED
  BY <1>1, <1>2, <1>3, <1>4, <1>5, <1>6, <1>7

\* A call begins.
LEMMA CallInv ==
  ASSUME SupervisorInv, NEW o \in Start, Call(o)
  PROVE  SupervisorInv'
<1> USE SupervisorAssumption DEF SupervisorInv, TypeOK, Op, Call, Goto, shared, children, history
<1>1. TypeOK'
  BY DEF TypeOK, Label, Readying, BeforeSpawn, Outside, GuardLabel
<1>2. Labelled'
  <2>1. "enter" \in StartLabel
    BY DEF StartLabel, BeforeSpawn
  <2> QED
    BY <2>1 DEF Labelled
<1>3. Holder'
  BY DEF Holder, Outside, GuardLabel, Readying, Labelled, StopLabel, StartLabel, BeforeSpawn
<1>4. Counted'
  BY DEF Counted, Marked, GuardLabel, Readying
<1>5. Children'
  BY DEF Children, BeforeSpawn, Alive, GuardLabel, Readying
<1>6. Located'
  BY DEF Located, Holder, Outside, Alive, GuardLabel, Readying
<1>7. ShutForGood'
  BY DEF ShutForGood, Alive, GuardLabel, Readying
<1> QED
  BY <1>1, <1>2, <1>3, <1>4, <1>5, <1>6, <1>7

\* The mutex was free, so that nobody was inside.
LEMMA EnterInv ==
  ASSUME SupervisorInv, NEW o \in Start, Enter(o)
  PROVE  SupervisorInv'
<1> USE SupervisorAssumption DEF SupervisorInv, TypeOK, Op, Enter, Goto, children
<1>1. TypeOK'
  BY DEF TypeOK, Label, Readying, BeforeSpawn, Outside, GuardLabel
<1>2. Labelled'
  BY DEF Labelled, StartLabel, StopLabel, BeforeSpawn, Readying, GuardLabel
<1>3. Holder'
  BY ZenonT(40) DEF Holder, Outside, GuardLabel, Readying, Labelled, StopLabel, StartLabel, BeforeSpawn
<1>4. Counted'
  BY DEF Counted, Marked, GuardLabel, Readying
<1>5. Children'
  BY DEF Children, BeforeSpawn, Alive, GuardLabel, Readying
<1>6. Located'
  BY DEF Located, Holder, Outside, Alive, GuardLabel, Readying
<1>7. ShutForGood'
  BY DEF ShutForGood, Alive, GuardLabel, Readying
<1> QED
  BY <1>1, <1>2, <1>3, <1>4, <1>5, <1>6, <1>7

\* Nothing lives when a child is spawned.
LEMMA SpawnInv ==
  ASSUME SupervisorInv, NEW o \in Start, Spawn(o)
  PROVE  SupervisorInv'
<1> USE SupervisorAssumption DEF SupervisorInv, TypeOK, Op, Spawn, Goto, shared, history
<1>1. TypeOK'
  BY DEF TypeOK, Label, Readying, BeforeSpawn, Outside, GuardLabel
<1>2. Labelled'
  BY DEF Labelled, StartLabel, StopLabel, BeforeSpawn, Readying, GuardLabel
<1>3. Holder'
  BY DEF Holder, Outside, GuardLabel, Readying, Labelled, StopLabel, StartLabel, BeforeSpawn
<1>4. Counted'
  BY DEF Counted, Marked, GuardLabel, Readying
<1>5. Children'
  BY DEF Children, BeforeSpawn, Alive, GuardLabel, Readying
<1>6. Located'
  BY DEF Located, Holder, Outside, Alive, GuardLabel, Readying
<1>7. ShutForGood'
  BY DEF ShutForGood, Alive, GuardLabel, Readying
<1> QED
  BY <1>1, <1>2, <1>3, <1>4, <1>5, <1>6, <1>7

\* The child that was spawned becomes the active one.
LEMMA ActivateInv ==
  ASSUME SupervisorInv, NEW o \in Start, Activate(o)
  PROVE  SupervisorInv'
<1> USE SupervisorAssumption DEF SupervisorInv, TypeOK, Op, Activate, Goto, children, history
<1>1. TypeOK'
  BY DEF TypeOK, Label, Readying, BeforeSpawn, Outside, GuardLabel
<1>2. Labelled'
  BY DEF Labelled, StartLabel, StopLabel, BeforeSpawn, Readying, GuardLabel
<1>3. Holder'
  BY DEF Holder, Outside, GuardLabel, Readying, Labelled, StopLabel, StartLabel, BeforeSpawn
<1>4. Counted'
  BY DEF Counted, Marked, GuardLabel, Readying
<1>5. Children'
  BY DEF Children, BeforeSpawn, Alive, GuardLabel, Readying
<1>6. Located'
  <2>1. mu = o /\ active = none
    BY DEF Holder, Outside, Located
  <2>2. \A p \in Op \ {o} : pc[p] \in Outside
    BY <2>1 DEF Holder
  <2>3. \A p \in Op : pc'[p] \notin {"reap", "spawn", "activate"}
    BY <2>2 DEF Outside
  <2>4. \A a \in Start : Alive(a) => a = o
    BY <2>1, <2>2 DEF Located, Outside
  <2> QED
    BY <2>3, <2>4 DEF Located, Alive
<1>7. ShutForGood'
  BY DEF ShutForGood, Alive, GuardLabel, Readying
<1> QED
  BY <1>1, <1>2, <1>3, <1>4, <1>5, <1>6, <1>7

\* Once the child that was killed is gone, nothing lives.
LEMMA ReapedInv ==
  ASSUME SupervisorInv, NEW o \in Op, Reaped(o)
  PROVE  SupervisorInv'
<1> USE SupervisorAssumption DEF SupervisorInv, TypeOK, Op, Reaped, Gone, Goto, Return, children, history
<1>11. /\ pc[o] = "reap" /\ mu = o /\ active = none
       /\ pc' = [pc EXCEPT ![o] = then[o]]
       /\ mu' = IF then[o] = "spawn" THEN mu ELSE none
  BY DEF Holder, Outside, Located
<1>12. \/ o \in Start /\ o \notin Stop /\ then[o] \in {"spawn", "failed"}
       \/ o \in Stop /\ o \notin Start /\ then[o] = "stopped"
  BY <1>11 DEF Labelled
<1>13. \A p \in Op \ {o} : pc[p] \in Outside
  BY <1>11 DEF Holder
<1>14. \A a \in Start : ~Alive(a)
  <2>1. \A a \in Start : Alive(a) => victim[o] = a
    BY <1>11, <1>13 DEF Located, Outside
  <2> QED
    BY <2>1 DEF Children, Alive
<1>15. \A x \in Start : pc[x] \in StartLabel
  BY DEF Labelled
<1>16. \A x \in Start : o \in Stop => pc[x] \in {"begin", "enter", "started", "failed"}
  BY <1>12, <1>13, <1>15 DEF Outside, StartLabel, BeforeSpawn, Readying
<1>1. TypeOK'
  BY <1>11, <1>12 DEF Label, BeforeSpawn, Outside
<1>2. Labelled'
  BY <1>11, <1>12 DEF Labelled, StartLabel, StopLabel, BeforeSpawn
<1>3. Holder'
  BY <1>11, <1>12, <1>13 DEF Holder, Outside
<1>4. Counted'
  <2>1. {s \in Stop : Marked(s)}' = {s \in Stop : Marked(s)}
    BY <1>11, <1>12 DEF Marked
  <2> QED
    BY <2>1 DEF Counted
<1>5. Children'
  BY <1>11, <1>12, <1>14 DEF Children, BeforeSpawn, Alive
<1>6. Located'
  BY <1>11, <1>12, <1>13, <1>14 DEF Located, Outside, Alive
<1>7. ShutForGood'
  <2>1. CASE o \in Stop
    BY <2>1, <1>11, <1>12, <1>14, <1>16 DEF ShutForGood, Alive
  <2>2. CASE o \in Start
    <3>1. \A s \in Final : pc[s] # "stopped" /\ pc'[s] = pc[s]
      BY <2>2 DEF ShutForGood
    <3> QED
      BY <3>1 DEF ShutForGood
  <2> QED
    BY <2>1, <2>2
<1> QED
  BY <1>1, <1>2, <1>3, <1>4, <1>5, <1>6, <1>7

\* A child that listens, registers or dies.
LEMMA ChildLivesInv ==
  ASSUME SupervisorInv, NEW a \in Start, ChildLives(a)
  PROVE  SupervisorInv'
<1> USE SupervisorAssumption DEF SupervisorInv, TypeOK, Op, ChildLives, shared, calls, history
<1>1. TypeOK'
  <2>1. child' \in [Start -> {"unborn", "up", "listening", "ready", "dead"}]
    OBVIOUS
  <2> QED
    BY <2>1
<1>2. Labelled'
  BY DEF Labelled, StartLabel, StopLabel, BeforeSpawn, Readying, GuardLabel
<1>3. Holder'
  BY DEF Holder, Outside, GuardLabel, Readying, Labelled, StopLabel, StartLabel, BeforeSpawn
<1>4. Counted'
  BY DEF Counted, Marked, GuardLabel, Readying
<1>5. Children'
  BY DEF Children, BeforeSpawn, Alive, GuardLabel, Readying
<1>6. Located'
  BY DEF Located, Holder, Outside, Alive, GuardLabel, Readying
<1>7. ShutForGood'
  BY DEF ShutForGood, Alive, GuardLabel, Readying
<1> QED
  BY <1>1, <1>2, <1>3, <1>4, <1>5, <1>6, <1>7

\* The reaper reports a death.
LEMMA ReaperClosesInv ==
  ASSUME SupervisorInv, NEW a \in Start, ReaperCloses(a)
  PROVE  SupervisorInv'
<1> USE SupervisorAssumption DEF SupervisorInv, TypeOK, Op, ReaperCloses, shared, calls, history
<1>1. TypeOK'
  BY DEF TypeOK, Label, Readying, BeforeSpawn, Outside, GuardLabel
<1>2. Labelled'
  BY DEF Labelled, StartLabel, StopLabel, BeforeSpawn, Readying, GuardLabel
<1>3. Holder'
  BY DEF Holder, Outside, GuardLabel, Readying, Labelled, StopLabel, StartLabel, BeforeSpawn
<1>4. Counted'
  BY DEF Counted, Marked, GuardLabel, Readying
<1>5. Children'
  BY DEF Children, BeforeSpawn, Alive, GuardLabel, Readying
<1>6. Located'
  BY DEF Located, Holder, Outside, Alive, GuardLabel, Readying
<1>7. ShutForGood'
  BY DEF ShutForGood, Alive, GuardLabel, Readying
<1> QED
  BY <1>1, <1>2, <1>3, <1>4, <1>5, <1>6, <1>7

\* The reaper clears what is dead, while nobody is inside.
LEMMA ReaperClearsInv ==
  ASSUME SupervisorInv, NEW a \in Start, ReaperClears(a)
  PROVE  SupervisorInv'
<1> USE SupervisorAssumption DEF SupervisorInv, TypeOK, Op, ReaperClears, ReaperMayEnter, calls, history
<1>1. TypeOK'
  BY DEF TypeOK, Label, Readying, BeforeSpawn, Outside, GuardLabel
<1>2. Labelled'
  BY DEF Labelled, StartLabel, StopLabel, BeforeSpawn, Readying, GuardLabel
<1>3. Holder'
  BY DEF Holder, Outside, GuardLabel, Readying, Labelled, StopLabel, StartLabel, BeforeSpawn
<1>4. Counted'
  BY DEF Counted, Marked, GuardLabel, Readying
<1>5. Children'
  BY DEF Children, BeforeSpawn, Alive, GuardLabel, Readying
<1>6. Located'
  <2>1. ~Alive(a)
    BY DEF Children, Alive
  <2>2. \A p \in Op : pc[p] \in Outside
    BY DEF Holder
  <2>3. \A b \in Start : Alive(b) => active = b /\ b # a
    BY <2>1, <2>2 DEF Located, Outside
  <2> QED
    BY <2>2, <2>3 DEF Located, Outside, Alive
<1>7. ShutForGood'
  BY DEF ShutForGood, Alive, GuardLabel, Readying
<1> QED
  BY <1>1, <1>2, <1>3, <1>4, <1>5, <1>6, <1>7

\* shutdownFinal latches closed first.
LEMMA BeginStopInv ==
  ASSUME SupervisorInv, NEW s \in Stop, BeginStop(s)
  PROVE  SupervisorInv'
<1> USE SupervisorAssumption DEF SupervisorInv, TypeOK, Op, BeginStop, Goto, children, history
<1>1. TypeOK'
  BY DEF TypeOK, Label, Readying, BeforeSpawn, Outside, GuardLabel
<1>2. Labelled'
  <2>1. "mark" \in StopLabel /\ s \notin Start
    BY DEF StopLabel
  <2> QED
    BY <2>1 DEF Labelled
<1>3. Holder'
  BY DEF Holder, Outside, GuardLabel, Readying, Labelled, StopLabel, StartLabel, BeforeSpawn
<1>4. Counted'
  BY DEF Counted, Marked, GuardLabel, Readying
<1>5. Children'
  BY DEF Children, BeforeSpawn, Alive, GuardLabel, Readying
<1>6. Located'
  BY DEF Located, Holder, Outside, Alive, GuardLabel, Readying
<1>7. ShutForGood'
  BY DEF ShutForGood, Alive, GuardLabel, Readying
<1> QED
  BY <1>1, <1>2, <1>3, <1>4, <1>5, <1>6, <1>7

\* A stop marks itself.
LEMMA MarkInv ==
  ASSUME SupervisorInv, NEW s \in Stop, Mark(s)
  PROVE  SupervisorInv'
<1> USE SupervisorAssumption DEF SupervisorInv, TypeOK, Op, Mark, Goto, children
<1> DEFINE M == {x \in Stop : Marked(x)}
<1>10. IsFiniteSet(M) /\ Cardinality(M) \in Nat
  BY FS_Subset, FS_CardinalityType
<1>1. TypeOK'
  <2>1. landed' \in [Start -> SUBSET Stop]
    OBVIOUS
  <2>2. pc' \in [Op -> Label]
    BY DEF Label, Outside
  <2> QED
    BY <2>1, <2>2
<1>2. Labelled'
  BY DEF Labelled, StartLabel, StopLabel, BeforeSpawn, Readying, GuardLabel
<1>3. Holder'
  BY DEF Holder, Outside, GuardLabel, Readying, Labelled, StopLabel, StartLabel, BeforeSpawn
<1>4. Counted'
  <2>1. s \notin M /\ M' = M \union {s}
    BY DEF Marked
  <2>2. Cardinality(M') = Cardinality(M) + 1
    BY <1>10, <2>1, FS_AddElement
  <2> QED
    BY <2>2 DEF Counted
<1>5. Children'
  BY DEF Children, BeforeSpawn, Alive, GuardLabel, Readying
<1>6. Located'
  BY DEF Located, Holder, Outside, Alive, GuardLabel, Readying
<1>7. ShutForGood'
  BY DEF ShutForGood, Alive, GuardLabel, Readying
<1> QED
  BY <1>1, <1>2, <1>3, <1>4, <1>5, <1>6, <1>7

\* A stop bumps the epoch.
LEMMA BumpInv ==
  ASSUME SupervisorInv, NEW s \in Stop, Bump(s)
  PROVE  SupervisorInv'
<1> USE SupervisorAssumption DEF SupervisorInv, TypeOK, Op, Bump, Goto, children, history
<1>1. TypeOK'
  <2>1. pc' \in [Op -> Label]
    BY DEF Label, Outside
  <2> QED
    BY <2>1
<1>2. Labelled'
  BY DEF Labelled, StartLabel, StopLabel, BeforeSpawn, Readying, GuardLabel
<1>3. Holder'
  BY DEF Holder, Outside, GuardLabel, Readying, Labelled, StopLabel, StartLabel, BeforeSpawn
<1>4. Counted'
  BY DEF Counted, Marked, GuardLabel, Readying
<1>5. Children'
  BY DEF Children, BeforeSpawn, Alive, GuardLabel, Readying
<1>6. Located'
  BY DEF Located, Holder, Outside, Alive, GuardLabel, Readying
<1>7. ShutForGood'
  BY DEF ShutForGood, Alive, GuardLabel, Readying
<1> QED
  BY <1>1, <1>2, <1>3, <1>4, <1>5, <1>6, <1>7

\* A stop enters, and nobody else is inside.
LEMMA LockStopInv ==
  ASSUME SupervisorInv, NEW s \in Stop, LockStop(s)
  PROVE  SupervisorInv'
<1> USE SupervisorAssumption DEF SupervisorInv, TypeOK, Op, LockStop, Goto, children, history
<1>1. TypeOK'
  BY DEF TypeOK, Label, Readying, BeforeSpawn, Outside, GuardLabel
<1>2. Labelled'
  BY DEF Labelled, StartLabel, StopLabel, BeforeSpawn, Readying, GuardLabel
<1>3. Holder'
  BY DEF Holder, Outside, GuardLabel, Readying, Labelled, StopLabel, StartLabel, BeforeSpawn
<1>4. Counted'
  BY DEF Counted, Marked, GuardLabel, Readying
<1>5. Children'
  BY DEF Children, BeforeSpawn, Alive, GuardLabel, Readying
<1>6. Located'
  BY DEF Located, Holder, Outside, Alive, GuardLabel, Readying
<1>7. ShutForGood'
  BY DEF ShutForGood, Alive, GuardLabel, Readying
<1> QED
  BY <1>1, <1>2, <1>3, <1>4, <1>5, <1>6, <1>7

\* A stop takes its mark back and kills what is active.
LEMMA StopActiveInv ==
  ASSUME SupervisorInv, NEW s \in Stop, StopActive(s)
  PROVE  SupervisorInv'
<1> USE SupervisorAssumption DEF SupervisorInv, TypeOK, Op, StopActive, Kill, Goto, PendingLess, children, history
<1> DEFINE M == {x \in Stop : Marked(x)}
<1>10. IsFiniteSet(M) /\ Cardinality(M) \in Nat
  BY FS_Subset, FS_CardinalityType
<1>1. TypeOK'
  <2>1. pc' \in [Op -> Label] /\ then' \in [Op -> Label]
    BY DEF Label, Outside
  <2>2. stopPending > 0
    BY PendingPositive DEF Marked
  <2> QED
    BY <2>1, <2>2
<1>2. Labelled'
  BY DEF Labelled, StartLabel, StopLabel, BeforeSpawn, Readying, GuardLabel
<1>3. Holder'
  BY DEF Holder, Outside, GuardLabel, Readying, Labelled, StopLabel, StartLabel, BeforeSpawn
<1>4. Counted'
  <2>1. s \in M /\ M' = M \ {s}
    BY DEF Marked
  <2>2. \A S, x : IsFiniteSet(S) /\ x \in S => Cardinality(S \ {x}) = Cardinality(S) - 1
    BY FS_RemoveElement
  <2>3. Cardinality(M') = Cardinality(M) - 1
    BY <1>10, <2>1, <2>2
  <2> QED
    BY <2>3 DEF Counted
<1>5. Children'
  BY DEF Children, BeforeSpawn, Alive, GuardLabel, Readying
<1>6. Located'
  BY DEF Located, Holder, Outside, Alive, GuardLabel, Readying
<1>7. ShutForGood'
  BY DEF ShutForGood, Alive, GuardLabel, Readying
<1> QED
  BY <1>1, <1>2, <1>3, <1>4, <1>5, <1>6, <1>7
-----------------------------------------------------------------------------
\* At the start nothing runs and nobody waits.
LEMMA SupervisorInvInit == Init => SupervisorInv
<1> SUFFICES ASSUME Init PROVE SupervisorInv
  OBVIOUS
<1> USE SupervisorAssumption DEF Init, Op
<1>1. TypeOK
  BY DEF TypeOK, Label, BeforeSpawn, Outside
<1>2. Labelled
  BY DEF Labelled, StartLabel, StopLabel, BeforeSpawn
<1>3. Holder
  BY DEF Holder, Outside
<1>4. Counted
  <2>1. {s \in Stop : Marked(s)} = {}
    BY DEF Marked
  <2> QED
    BY <2>1, FS_EmptySet DEF Counted
<1>5. Children /\ Located /\ ShutForGood
  BY DEF Children, Located, ShutForGood, Alive, BeforeSpawn
<1> QED
  BY <1>1, <1>2, <1>3, <1>4, <1>5 DEF SupervisorInv

\* Every step of the supervisor, its callers, children and reapers preserves it.
LEMMA SupervisorInvStep == SupervisorInv /\ [Next]_vars => SupervisorInv'
<1> SUFFICES ASSUME SupervisorInv, [Next]_vars PROVE SupervisorInv'
  OBVIOUS
<1>1. TypeOK
  BY DEF SupervisorInv
<1>2. ASSUME NEW o \in Start, Call(o) \/ Enter(o)
      PROVE  SupervisorInv'
  BY <1>2, CallInv, EnterInv
<1>3. ASSUME NEW o \in Start, StartSteps(o) \/ TimeOut(o)
      PROVE  SupervisorInv'
  <2>1. StartShape(o)
    BY <1>1, <1>3, StartShapes
  <2>2. o \in Op
    BY DEF Op
  <2>3. CASE \E from, to \in GuardLabel : GoesOn(o, from, to)
    <3>1. PICK from \in GuardLabel, to \in GuardLabel : GoesOn(o, from, to)
      BY <2>3
    <3> QED
      BY <3>1, GoesOnInv
  <2>4. CASE \E from, to \in Readying : GoesOn(o, from, to)
    <3>1. PICK from \in Readying, to \in Readying : GoesOn(o, from, to)
      BY <2>4
    <3> QED
      BY <3>1, GoesOnInv
  <2> QED
    BY <2>1, <2>2, <2>3, <2>4, RefusedInv, GivesUpInv, ReplacesInv, ForgetsCorpseInv,
       SucceedsInv, SpawnInv, ActivateInv, ReapedInv DEF StartShape
<1>4. ASSUME NEW s \in Stop, BeginStop(s) \/ LockStop(s) \/ StopSteps(s)
      PROVE  SupervisorInv'
  <2>1. s \in Op
    BY DEF Op
  <2> QED
    BY <1>4, <2>1, BeginStopInv, LockStopInv, MarkInv, BumpInv, StopActiveInv, ReapedInv
       DEF StopSteps
<1>5. ASSUME NEW o \in Op, Escalate(o)
      PROVE  SupervisorInv'
  <2>1. victim[o] \in Start /\ ChildLives(victim[o])
    BY <1>1, <1>5 DEF Escalate, ChildLives, TypeOK
  <2> QED
    BY <2>1, ChildLivesInv
<1>6. ASSUME NEW a \in Start, ChildListens(a) \/ ChildReady(a) \/ ChildExits(a)
      PROVE  SupervisorInv'
  <2>1. ChildLives(a)
    BY <1>6 DEF ChildListens, ChildReady, ChildExits, ChildLives, Alive
  <2> QED
    BY <2>1, ChildLivesInv
<1>7. ASSUME NEW a \in Start, ReaperCloses(a) \/ ReaperClears(a)
      PROVE  SupervisorInv'
  BY <1>7, ReaperClosesInv, ReaperClearsInv
<1>8. CASE UNCHANGED vars
  BY <1>8 DEF vars, shared, children, calls, history, SupervisorInv, TypeOK, Labelled, Holder, Counted,
              Children, Located, ShutForGood, Alive, Marked
<1> QED
  BY <1>2, <1>3, <1>4, <1>5, <1>6, <1>7, <1>8 DEF Next, Finished

\* The mutex, the counts, the places of children and calls keep their types
\* (Supervisor in supervisor.go).
THEOREM SupervisorTypes == Spec => []TypeOK
<1>1. SupervisorInv => TypeOK
  BY DEF SupervisorInv
<1> QED
  BY <1>1, SupervisorInvInit, SupervisorInvStep, PTL DEF Spec

\* Kill before spawn: however many starts, stops, crashes and reapers overlap,
\* two engines never run at once, and none runs after shutdownFinal.
THEOREM OneEngineRuns == Spec => []OneEngine
<1>1. ASSUME SupervisorInv
      PROVE  OneEngine
  <2> USE <1>1, SupervisorAssumption DEF SupervisorInv, Op
  <2>1. ASSUME NEW a \in Start, NEW b \in Start, Alive(a), Alive(b)
        PROVE  a = b
    <3>1. \A x, y \in Op : pc[x] \notin Outside /\ pc[y] \notin Outside => x = y
      BY DEF Holder
    <3>2. "reap" \notin Outside /\ "activate" \notin Outside
      BY DEF Outside
    <3>3. \A x \in Start : Alive(x) => active # none \/ \E o \in Op : pc[o] \notin Outside
      BY <3>2 DEF Located, TypeOK
    <3> QED
      BY <2>1, <3>1, <3>2 DEF Located, TypeOK
  <2>2. \A s \in Final : pc[s] = "stopped" => \A a \in Start : ~Alive(a)
    BY DEF ShutForGood
  <2> QED
    BY <2>1, <2>2 DEF OneEngine
<1> QED
  BY <1>1, SupervisorInvInit, SupervisorInvStep, PTL DEF Spec

\* A start that is refused or gives up leaves no engine of its own running
\* (start's error paths all end in stopLocked, or before the spawn).
THEOREM FailedStartsLeaveNothing == Spec => []FailureLeavesNothing
<1>1. SupervisorInv => FailureLeavesNothing
  BY DEF SupervisorInv, Children, FailureLeavesNothing
<1> QED
  BY <1>1, SupervisorInvInit, SupervisorInvStep, PTL DEF Spec

-----------------------------------------------------------------------------
(***************************************************************************)
(* Stops win.                                                              *)
(***************************************************************************)

\* The start stays between its guards and its last recheck, or fails.
Commits(o) ==
  /\ pc[o] \in Committed
  /\ \E l \in Committed \union {"failed"} : pc' = [pc EXCEPT ![o] = l]
  /\ UNCHANGED <<stopEpoch, epoch, epoch0, landed>>

\* The steps of a start that are neither its guards nor its last recheck.
LEMMA CommittedSteps ==
  ASSUME SupervisorInv, NEW o \in Start, StartSteps(o) \/ TimeOut(o),
         ~CheckClosed(o), ~SnapshotEpoch(o), ~CheckPending(o), ~FinalPending(o), ~FinalEpoch(o)
  PROVE  Commits(o)
<1> USE DEF Commits, Committed, Readying, Goto, Return, Kill, shared, children, calls, history
<1>1. CASE CheckIdle(o)
  BY <1>1 DEF CheckIdle
<1>2. CASE CheckClosedAgain(o)
  BY <1>2 DEF CheckClosedAgain
<1>3. CASE SpawnFails(o) \/ Spawn(o) \/ Activate(o)
  BY <1>3 DEF SpawnFails, Spawn, Activate
<1>4. CASE ProbeEpoch(o)
  BY <1>4 DEF ProbeEpoch, Probing
<1>5. CASE ProbeDone(o)
  BY <1>5 DEF ProbeDone
<1>6. CASE DialPort(o)
  BY <1>6 DEF DialPort
<1>7. CASE DialSecond(o)
  <2>1. pc'[o] \in {"probe second", "verify", "corpse?"} /\ pc' = [pc EXCEPT ![o] = pc'[o]]
    BY <1>7 DEF DialSecond, SupervisorInv, TypeOK, Op
  <2> QED
    BY <1>7, <2>1 DEF DialSecond
<1>8. CASE CheckCorpse(o)
  BY <1>8 DEF CheckCorpse
<1>9. CASE VerifyPasses(o) \/ VerifyFails(o)
  BY <1>9 DEF VerifyPasses, VerifyFails
<1>10. CASE FinalClosed(o)
  BY <1>10 DEF FinalClosed
<1>11. CASE TimeOut(o)
  BY <1>11 DEF TimeOut
<1>12. CASE Reaped(o)
  <2>1. then[o] \in {"spawn", "failed"} /\ pc[o] = "reap"
    BY <1>12 DEF Reaped, SupervisorInv, Labelled
  <2> QED
    BY <1>12, <2>1 DEF Reaped
<1> QED
  BY <1>1, <1>2, <1>3, <1>4, <1>5, <1>6, <1>7, <1>8, <1>9, <1>10, <1>11, <1>12 DEF StartSteps

\* A step of one start is none of another's business.
LEMMA OthersGiveWay ==
  ASSUME SupervisorInv, NEW o \in Start, NEW p \in Start \ {o}, GivesWay(p),
         NEW l, pc' = [pc EXCEPT ![o] = l], stopEpoch' = stopEpoch,
         epoch'[p] = epoch[p], epoch0'[p] = epoch0[p], landed'[p] = landed[p]
  PROVE  GivesWay(p)'
<1>1. pc'[p] = pc[p] /\ landed[p] \subseteq Stop /\ \A s \in Stop : pc'[s] = pc[s]
  BY SupervisorAssumption DEF SupervisorInv, TypeOK, Op
<1> QED
  BY <1>1 DEF GivesWay, Waiting

\* A step of the start itself: what it has to give way to it finds at its guards.
LEMMA StartGivesWay ==
  ASSUME SupervisorInv, NEW o \in Start, GivesWay(o),
         Call(o) \/ Enter(o) \/ StartSteps(o) \/ TimeOut(o)
  PROVE  GivesWay(o)'
<1> USE SupervisorAssumption DEF Goto, Return, shared, children, calls, history
<1>1. /\ pc \in [Op -> Label] /\ o \in Op /\ landed \in [Start -> SUBSET Stop]
      /\ epoch \in [Start -> Nat] /\ epoch0 \in [Start -> Nat] /\ stopEpoch \in Nat
      /\ stopPending \in Nat /\ \A s \in Stop : s \in Op /\ s # o
  BY DEF SupervisorInv, TypeOK, Op
<1>2. \A s \in Stop : Marked(s) => stopPending > 0
  BY PendingPositive
<1>3. \A s \in Stop : Waiting(s) => Marked(s)
  BY DEF Waiting, Marked
<1>4. CASE Call(o)
  BY <1>1, <1>4 DEF Call, GivesWay, Committed, Readying
<1>5. CASE Enter(o)
  <2>1. \A s \in Stop : Marked(s) => Waiting(s)
    BY <1>1, <1>5 DEF Enter, SupervisorInv, Holder, Outside, Marked, Waiting
  <2>2. \A s \in landed'[o] : Waiting(s) \/ (o \in Autostart /\ epoch0[o] < stopEpoch)
    BY <1>1, <1>5, <2>1 DEF Enter, GivesWay, Waiting
  <2>3. /\ pc'[o] = "closed?" /\ \A s \in Stop : pc'[s] = pc[s]
        /\ landed'[o] \subseteq Stop /\ epoch0' = epoch0 /\ stopEpoch' = stopEpoch
    BY <1>1, <1>5 DEF Enter
  <2> QED
    BY <1>1, <2>2, <2>3 DEF GivesWay, Waiting, Committed, Readying
<1>6. CASE CheckClosed(o)
  BY <1>1, <1>6, ZenonT(40) DEF CheckClosed, GivesWay, Waiting, Committed, Readying
<1>7. CASE SnapshotEpoch(o)
  BY <1>1, <1>7 DEF SnapshotEpoch, GivesWay, Waiting, Committed, Readying
<1>8. CASE CheckPending(o)
  <2>1. CASE stopPending > 0 \/ StoppedSince(o)
    BY <1>1, <1>8, <2>1 DEF CheckPending, GivesWay, Committed, Readying
  <2>2. CASE ~(stopPending > 0 \/ StoppedSince(o))
    <3>1. landed[o] = {}
      BY <1>1, <1>2, <1>3, <1>8, <2>2 DEF CheckPending, GivesWay, StoppedSince
    <3> QED
      BY <1>1, <1>8, <2>2, <3>1 DEF CheckPending, GivesWay
  <2> QED
    BY <2>1, <2>2
<1>9. CASE FinalPending(o)
  <2>1. CASE StopQueued
    BY <1>1, <1>9, <2>1 DEF FinalPending, Kill, GivesWay, Waiting, Committed, Readying
  <2>2. CASE ~StopQueued
    <3>1. landed[o] = {}
      BY <1>1, <1>2, <1>3, <1>9, <2>2 DEF FinalPending, GivesWay, StopQueued, Committed, Readying
    <3> QED
      BY <1>1, <1>9, <2>2, <3>1 DEF FinalPending, GivesWay
  <2> QED
    BY <2>1, <2>2
<1>10. CASE FinalEpoch(o)
  BY <1>1, <1>10 DEF FinalEpoch, Kill, GivesWay
<1>11. CASE Commits(o)
  <2>1. \A s \in landed[o] : Waiting(s)
    BY <1>11 DEF Commits, GivesWay
  <2>2. /\ pc'[o] \in Committed \union {"failed"} /\ \A s \in Stop : pc'[s] = pc[s]
        /\ landed'[o] = landed[o]
    BY <1>1, <1>11 DEF Commits
  <2>3. \A s \in landed'[o] : Waiting(s)'
    BY <1>1, <2>1, <2>2 DEF Waiting
  <2>4. pc'[o] \notin {"begin", "enter", "closed?", "epoch?", "pending?", "final epoch?", "started"}
    BY <2>2 DEF Committed, Readying
  <2>5. epoch0'[o] <= stopEpoch'
    BY <1>11 DEF Commits, GivesWay
  <2> QED
    BY <2>3, <2>4, <2>5 DEF GivesWay
<1> QED
  BY <1>4, <1>5, <1>6, <1>7, <1>8, <1>9, <1>10, <1>11, CommittedSteps

\* A step of a stop: as long as the start is inside, a stop that marked itself waits.
LEMMA StopGivesWay ==
  ASSUME SupervisorInv, NEW p \in Start, GivesWay(p), NEW s \in Stop,
         BeginStop(s) \/ LockStop(s) \/ StopSteps(s)
  PROVE  GivesWay(p)'
<1> USE SupervisorAssumption DEF Goto, Return
<1>1. /\ pc \in [Op -> Label] /\ p \in Op /\ s \in Op /\ p # s /\ landed \in [Start -> SUBSET Stop]
      /\ epoch \in [Start -> Nat] /\ epoch0 \in [Start -> Nat] /\ stopEpoch \in Nat
  BY DEF SupervisorInv, TypeOK, Op
<1>2. /\ pc[p] \in StartLabel
      /\ mu # p => pc[p] \in {"begin", "enter", "started", "failed"}
  BY <1>1 DEF SupervisorInv, Labelled, Holder, Outside, StartLabel, BeforeSpawn, Readying
<1>3. CASE BeginStop(s)
  <2>1. /\ pc[s] = "begin" /\ pc'[p] = pc[p] /\ \A x \in Stop \ {s} : pc'[x] = pc[x]
        /\ epoch0' = epoch0 /\ epoch' = epoch /\ stopEpoch' = stopEpoch /\ landed' = landed
    BY <1>1, <1>3 DEF BeginStop, Op, history
  <2>2. \A x \in Stop : /\ Waiting(x) => Waiting(x)'
                        /\ pc[x] = "bump" => pc'[x] = "bump"
    BY <2>1 DEF Waiting
  <2> QED
    BY <1>1, <2>1, <2>2 DEF GivesWay
<1>4. CASE Mark(s)
  <2>1. /\ pc'[p] = pc[p] /\ pc'[s] = "bump" /\ \A x \in Stop \ {s} : pc'[x] = pc[x]
        /\ pc[s] = "mark" /\ epoch0' = epoch0 /\ epoch' = epoch /\ stopEpoch' = stopEpoch
        /\ landed'[p] = IF Yielding(p) THEN landed[p] \union {s} ELSE landed[p]
    BY <1>1, <1>4 DEF Mark, Op
  <2>2. \A x \in Stop : /\ Waiting(x) => Waiting(x)'
                        /\ pc[x] = "bump" => pc'[x] = "bump"
    BY <2>1 DEF Waiting
  <2>3. Waiting(s)'
    BY <2>1 DEF Waiting
  <2>4. /\ pc[p] \in {"begin", "final epoch?", "started"} => ~Yielding(p)
        /\ p \notin Autostart /\ pc[p] = "enter" => ~Yielding(p)
    BY <1>1 DEF Yielding, SupervisorInv, Holder, Outside
  <2> QED
    BY <1>1, <2>1, <2>2, <2>3, <2>4 DEF GivesWay
<1>5. CASE Bump(s)
  <2>1. /\ pc'[p] = pc[p] /\ pc[s] = "bump" /\ pc'[s] = "lock"
        /\ \A x \in Stop \ {s} : pc'[x] = pc[x]
        /\ epoch0' = epoch0 /\ epoch' = epoch /\ stopEpoch' = stopEpoch + 1 /\ landed' = landed
    BY <1>1, <1>5 DEF Bump, Op, history
  <2>2. \A x \in Stop : Waiting(x) => Waiting(x)'
    BY <2>1 DEF Waiting
  <2>3. epoch0'[p] < stopEpoch'
    <3>1. epoch0[p] \in Nat /\ epoch0[p] <= stopEpoch
      BY <1>1 DEF GivesWay
    <3> QED
      BY <1>1, <2>1, <3>1
  <2>4. landed'[p] \subseteq Stop /\ epoch0'[p] <= stopEpoch'
    BY <1>1, <2>1, <2>3
  <2> QED
    BY <1>1, <2>1, <2>2, <2>3, <2>4 DEF GivesWay
<1>6. CASE LockStop(s) \/ StopActive(s) \/ Reaped(s)
  <2>1. /\ pc[s] \in {"lock", "unmark", "reap"} /\ pc' = [pc EXCEPT ![s] = pc'[s]]
        /\ epoch0' = epoch0 /\ epoch' = epoch /\ stopEpoch' = stopEpoch /\ landed' = landed
    <3>1. CASE LockStop(s)
      BY <1>1, <3>1 DEF LockStop, history
    <3>2. CASE StopActive(s)
      BY <1>1, <3>2 DEF StopActive, Kill, history
    <3>3. CASE Reaped(s)
      <4>1. then[s] = "stopped"
        BY <3>3 DEF Reaped, SupervisorInv, Labelled
      <4> QED
        BY <1>1, <3>3, <4>1 DEF Reaped, history
    <3> QED
      BY <1>6, <3>1, <3>2, <3>3
  <2>2. mu # p
    <3>1. LockStop(s) => mu = none
      BY DEF LockStop
    <3>2. StopActive(s) \/ Reaped(s) => mu = s
      BY <1>1 DEF StopActive, Reaped, SupervisorInv, Holder, Outside
    <3> QED
      BY <1>1, <1>6, <3>1, <3>2 DEF Op
  <2>3. \A x \in Stop \ {s} : pc'[x] = pc[x]
    BY <1>1, <2>1 DEF Op
  <2>4. pc'[p] = pc[p] /\ pc[p] \in {"begin", "enter", "started", "failed"}
    BY <1>1, <1>2, <2>1, <2>2
  <2>5. \A x \in Stop : pc[x] = "bump" => pc'[x] = "bump"
    BY <2>1, <2>3
  <2> QED
    BY <1>1, <2>1, <2>4, <2>5 DEF GivesWay, Committed, Readying
<1> QED
  BY <1>3, <1>4, <1>5, <1>6 DEF StopSteps

\* Every step keeps every start on its way to the stops it has to give way to.
LEMMA NextOvertaken == SupervisorInv /\ Overtaken /\ [Next]_vars => Overtaken'
<1> SUFFICES ASSUME SupervisorInv, Overtaken, [Next]_vars, NEW p \in Start PROVE GivesWay(p)'
  BY DEF Overtaken
<1>1. GivesWay(p)
  BY DEF Overtaken
<1>2. ASSUME NEW o \in Start, Call(o) \/ Enter(o) \/ StartSteps(o) \/ TimeOut(o)
      PROVE  GivesWay(p)'
  <2>1. CASE p = o
    BY <1>1, <1>2, <2>1, StartGivesWay
  <2>2. CASE p # o
    <3>1. \E l : pc' = [pc EXCEPT ![o] = l]
      <4>1. CASE Call(o) \/ Enter(o)
        BY <4>1 DEF Call, Enter, Goto
      <4>2. CASE StartSteps(o) \/ TimeOut(o)
        BY <4>2, StartShapes DEF SupervisorInv, StartShape, GoesOn, Refused, GivesUp, Replaces, Kills,
           ForgetsCorpse, Succeeds, Spawn, Activate, Reaped, Goto, Return
      <4> QED
        BY <1>2, <4>1, <4>2
    <3>2. /\ stopEpoch' = stopEpoch
          /\ epoch'[p] = epoch[p] /\ epoch0'[p] = epoch0[p] /\ landed'[p] = landed[p]
      <4>1. CASE Call(o) \/ Enter(o)
        BY <2>2, <4>1 DEF Call, Enter, SupervisorInv, TypeOK, shared, history
      <4>2. CASE \E from, to : GoesOn(o, from, to)
        BY <2>2, <4>2 DEF GoesOn, SupervisorInv, TypeOK, shared
      <4>3. CASE \/ Refused(o) \/ GivesUp(o) \/ Replaces(o) \/ ForgetsCorpse(o) \/ Succeeds(o)
                 \/ Spawn(o) \/ Activate(o) \/ Reaped(o)
        BY <4>3 DEF Refused, GivesUp, Replaces, Kills, ForgetsCorpse, Succeeds, Spawn, Activate,
           Reaped, shared, history
      <4>4. StartSteps(o) \/ TimeOut(o) => StartShape(o)
        BY StartShapes DEF SupervisorInv
      <4> QED
        BY <1>2, <4>1, <4>2, <4>3, <4>4 DEF StartShape
    <3> QED
      BY <1>1, <2>2, <3>1, <3>2, OthersGiveWay
  <2> QED
    BY <2>1, <2>2
<1>3. ASSUME NEW s \in Stop, BeginStop(s) \/ LockStop(s) \/ StopSteps(s)
      PROVE  GivesWay(p)'
  BY <1>1, <1>3, StopGivesWay
<1>4. ASSUME UNCHANGED <<stopEpoch, pc, epoch, epoch0, landed>>
      PROVE  GivesWay(p)'
  BY <1>1, <1>4 DEF GivesWay, Waiting
<1>5. ASSUME NEW o \in Op, Escalate(o)
      PROVE  GivesWay(p)'
  BY <1>4, <1>5 DEF Escalate, shared, calls, history
<1>6. ASSUME NEW a \in Start, \/ ChildListens(a) \/ ChildReady(a) \/ ChildExits(a)
                              \/ ReaperCloses(a) \/ ReaperClears(a)
      PROVE  GivesWay(p)'
  BY <1>4, <1>6 DEF ChildListens, ChildReady, ChildExits, ReaperCloses, ReaperClears,
                    shared, calls, history
<1>7. CASE UNCHANGED vars
  BY <1>4, <1>7 DEF vars, shared, calls, history
<1> QED
  BY <1>2, <1>3, <1>5, <1>6, <1>7 DEF Next, Finished

\* A stop that marked itself while a start held the mutex or was queued, or
\* since an autostart's snapshot, is never answered with a successful start
\* (stop's mark and bump against startGuarded's two rounds of guards).
THEOREM StopsAlwaysWin == Spec => []StopWins
<1>1. Init => Overtaken
  BY SupervisorAssumption DEF Init, Overtaken, GivesWay, Op
<1>2. Overtaken => StopWins
  BY DEF Overtaken, GivesWay, StopWins
<1>3. SupervisorInv /\ Overtaken /\ [Next]_vars => (SupervisorInv /\ Overtaken)'
  BY SupervisorInvStep, NextOvertaken
<1> QED
  BY <1>1, <1>2, <1>3, SupervisorInvInit, PTL DEF Spec

----------------------------------------------------------------------------
(* The process of a live run.  The inductive invariant follows the three   *)
(* promises to where they are made: the barrier gives up a client only     *)
(* when it is attached, the store is found empty before the goroutine of   *)
(* the run exists, and flags that were let through leave RunLive nothing   *)
(* to refuse.                                                              *)

Places == {"off", "barrier", "serving", "closing", "refused"}
LoopPlaces == {"none", "building", "built", "parked", "ticking", "finishing", "writing",
               "reported"}

\* The types, and where a goroutine of the run can be.
ServeTypes ==
    /\ serves \in Nat /\ tick \in Nat /\ gate \in BOOLEAN /\ dumped \in BOOLEAN
    /\ main \in Places /\ loop \in LoopPlaces
    /\ client \in [Clients -> {"none", "attaching", "ok", "failed"}]
    /\ recording \in [by : SUBSET Nat, first : Nat]
    /\ metrics \in [serve : Nat, tick : Nat, whole : BOOLEAN]
    /\ outcome \in {"none", "ok", "failed", "refused"}
    /\ serves = 0 => flags = NoFlags /\ recording.by = {} /\ recording.first = 0
    /\ serves > 0 => flags \in Flags
    /\ loop # "none" => main \in {"barrier", "serving", "closing"} /\ serves > 0 /\ Valid(flags)
    /\ loop # "reported" => outcome = "none"

\* How far the run is.
Progress ==
    /\ loop # "none" => FirstTick <= tick /\ tick <= Horizon
    /\ loop \in {"building", "built", "parked"} => tick = FirstTick
    /\ loop \in {"finishing", "writing"} => tick = Horizon

\* The gate is open only behind clients that are attached, and nothing ticks before.
Attended ==
    /\ main = "barrier" => \A c \in flags.with \ pending : client[c] = "ok"
    /\ gate => \A c \in flags.with : client[c] = "ok"
    /\ loop \in {"ticking", "finishing", "writing"} => gate
    /\ loop # "none" /\ tick > FirstTick => gate

\* The log of a durable recording is empty until the run's first anchor.
OneLog ==
    serves > 0 /\ flags.store =>
        /\ loop = "building" => recording.by = {}
        /\ \A m, n \in recording.by : m = n
        /\ recording.first = 0

\* What was asked for is written by the time it can be missed.
Kept ==
    /\ outcome # "refused"
    /\ loop \in {"parked", "ticking", "finishing", "writing"} \/ outcome = "ok" =>
          (flags.out /\ flags.at <= tick => dumped)
    /\ outcome = "ok" => tick = Horizon /\ (flags.metrics => metrics.serve = serves)
    /\ metrics # NoFile => metrics.whole /\ metrics.tick = Horizon

ServeInv == ServeTypes /\ Progress /\ Attended /\ OneLog /\ Kept


-----------------------------------------------------------------------------
(* What the flags mean. *)

\* A run that was let through begins at a tick before its horizon.
LEMMA FirstTickFits ==
    ASSUME flags \in Flags, Valid(flags)
    PROVE  FirstTick \in Nat /\ FirstTick < Horizon
<1> USE ServeAssumption
<1>1. flags.in \in Ticks \union {NoTick} /\ (flags.in # NoTick => flags.in < Horizon)
    BY DEF Flags, Valid
<1> QED
    BY <1>1 DEF FirstTick, Ticks

\* RunLive refuses nothing that validateStateFlags let through.
LEMMA NothingToRefuse ==
    ASSUME flags \in Flags, Valid(flags)
    PROVE  /\ ~Refuses
           /\ flags.out => flags.at \in Nat /\ FirstTick <= flags.at /\ flags.at <= Horizon
<1> USE ServeAssumption
<1>1. /\ flags.in \in Ticks \union {NoTick} /\ flags.at \in Ticks \union {NoTick}
      /\ flags.out \in BOOLEAN /\ flags.metrics \in BOOLEAN
    BY DEF Flags
<1>2. /\ flags.out <=> flags.at # NoTick
      /\ flags.out => flags.at <= Horizon
      /\ flags.out /\ flags.in # NoTick => flags.at > flags.in
      /\ flags.in # NoTick => flags.in < Horizon /\ ~flags.metrics
    BY DEF Valid, DumpFits
<1>3. flags.out => flags.at \in Nat /\ FirstTick <= flags.at /\ flags.at <= Horizon
    BY <1>1, <1>2 DEF FirstTick, Ticks
<1>4. flags.metrics => FirstTick = 0
    BY <1>1, <1>2 DEF FirstTick
<1>5. flags.in # NoTick => ~(flags.in >= Horizon)
    BY <1>1, <1>2 DEF Ticks
<1>6. flags.out => ~(flags.at < FirstTick) /\ ~(flags.at > Horizon)
    BY <1>1, <1>2, <1>3, FirstTickFits
<1> QED
    BY <1>3, <1>4, <1>5, <1>6 DEF Refuses

\* What is recorded is not warm started.
LEMMA RecordedFromZero ==
    ASSUME flags \in Flags, Valid(flags), flags.store
    PROVE  FirstTick = 0
BY DEF Valid, FirstTick

-----------------------------------------------------------------------------
(* Every step preserves the invariant. *)

\* Before the first process there is nothing.
LEMMA ServeInvInit == ServeInit => ServeInv
<1> SUFFICES ASSUME ServeInit PROVE ServeInv
    OBVIOUS
<1> USE ServeAssumption DEF ServeInit
<1>1. /\ recording \in [by : SUBSET Nat, first : Nat]
      /\ recording.by = {} /\ recording.first = 0
    OBVIOUS
<1>2. metrics \in [serve : Nat, tick : Nat, whole : BOOLEAN]
    BY DEF NoFile
<1>3. client \in [Clients -> {"none", "attaching", "ok", "failed"}]
    OBVIOUS
<1>4. ServeTypes
    <2>1. /\ serves = 0 /\ flags = NoFlags /\ tick = 0 /\ gate \in BOOLEAN /\ dumped \in BOOLEAN
          /\ main = "off" /\ loop = "none" /\ outcome = "none"
        OBVIOUS
    <2> QED
        BY ONLY <1>1, <1>2, <1>3, <2>1 DEF ServeTypes, Places, LoopPlaces
<1>5. Progress /\ Attended /\ OneLog /\ Kept
    BY DEF Progress, Attended, OneLog, Kept
<1> QED
    BY <1>4, <1>5 DEF ServeInv


\* main up to the barrier: flags and store are looked at before the run exists.
LEMMA LaunchInv ==
    ASSUME ServeInv, Launch
    PROVE  ServeInv'
<1>1. /\ main = "off" /\ loop = "none" /\ serves' = serves + 1 /\ serves \in Nat /\ serves' > 0
      /\ gate' = FALSE /\ outcome' = "none" /\ dumped' = FALSE /\ metrics' = metrics
      /\ metrics \in [serve : Nat, tick : Nat, whole : BOOLEAN]
      /\ recording \in [by : SUBSET Nat, first : Nat]
      /\ client \in [Clients -> {"none", "attaching", "ok", "failed"}] /\ tick \in Nat
    BY DEF Launch, ServeInv, ServeTypes
<1>2. flags' \in Flags /\ (serves > 0 => flags' = flags)
    BY DEF Launch, ServeInv, ServeTypes
<1>3. flags'.with \subseteq Clients
    BY <1>2 DEF Flags
<1>4. metrics' # NoFile => metrics'.whole /\ metrics'.tick = Horizon
    BY <1>1 DEF ServeInv, Kept
<1>5. gate' \in BOOLEAN /\ dumped' \in BOOLEAN
    BY <1>1
<1>6. CASE Valid(flags') /\ (flags'.store => Fresh)
    <2>1. /\ main' = "barrier" /\ loop' = "building" /\ pending' = flags'.with
          /\ client' = [c \in Clients |-> IF c \in flags'.with THEN "attaching" ELSE "none"]
          /\ tick' = FirstTick'
          /\ IF flags'.store THEN recording' = recording ELSE recording' = [by |-> {}, first |-> 0]
        BY <1>6 DEF Launch, FirstTick
    <2>2. tick' \in Nat /\ tick' < Horizon
        BY <1>2, <1>6, <2>1, ServeAssumption DEF FirstTick, Flags, Valid, Ticks
    <2>3. recording' \in [by : SUBSET Nat, first : Nat]
        BY <1>1, <2>1
    <2>4. ServeTypes'
        <3>1. client' \in [Clients -> {"none", "attaching", "ok", "failed"}]
            BY <2>1
        <3> QED
            BY <1>1, <1>2, <1>5, <1>6, <2>1, <2>2, <2>3, <3>1 DEF ServeTypes, Places, LoopPlaces
    <2>5. Progress'
        BY <2>1, <2>2, ServeAssumption DEF Progress
    <2>6. Attended'
        BY <1>1, <2>1, <2>2 DEF Attended
    <2>7. OneLog'
        <3> SUFFICES ASSUME flags'.store PROVE recording'.by = {} /\ recording'.first = 0
            BY DEF OneLog
        <3>1. recording'.by = {} /\ recording' = recording
            BY <1>6, <2>1 DEF Fresh
        <3>2. CASE serves = 0
            BY <3>1, <3>2 DEF ServeInv, ServeTypes
        <3>3. CASE serves > 0
            BY <1>2, <3>1, <3>3 DEF ServeInv, OneLog
        <3> QED
            BY <1>1, <3>1, <3>2, <3>3
    <2>8. Kept'
        BY <1>1, <1>4, <2>1 DEF Kept
    <2> QED
        BY <2>4, <2>5, <2>6, <2>7, <2>8 DEF ServeInv
<1>7. CASE ~(Valid(flags') /\ (flags'.store => Fresh))
    <2>1. main' = "refused" /\ loop' = "none" /\ UNCHANGED <<pending, client, tick, recording>>
        BY <1>1, <1>7 DEF Launch
    <2>2. ServeTypes'
        BY <1>1, <1>2, <1>5, <2>1 DEF ServeTypes, Places, LoopPlaces
    <2>3. Progress' /\ Attended' /\ Kept'
        BY <1>1, <1>4, <2>1 DEF Progress, Attended, Kept
    <2>4. OneLog'
        BY <1>1, <1>2, <2>1 DEF OneLog, ServeInv, ServeTypes
    <2> QED
        BY <2>2, <2>3, <2>4 DEF ServeInv
<1> QED
    BY <1>6, <1>7

\* The process ends, wherever it is.
LEMMA EndsInv ==
    ASSUME ServeInv, Ends
    PROVE  ServeInv'
<1> USE ServeAssumption DEF ServeInv, Ends, storeVars, goroutineVars, processVars
<1>1. ServeTypes'
    BY DEF ServeTypes, Places, LoopPlaces, NoFlags, NoFile
<1>2. Progress'
    BY DEF Progress, ServeTypes, FirstTick
<1>3. Attended'
    BY DEF Attended, ServeTypes, FirstTick
<1>4. OneLog'
    BY DEF OneLog, ServeTypes
<1>5. Kept'
    BY DEF Kept, ServeTypes, NoFile
<1> QED
    BY <1>1, <1>2, <1>3, <1>4, <1>5

\* A client attaches.
LEMMA AttachesInv ==
    ASSUME ServeInv, NEW c \in Clients, Attaches(c)
    PROVE  ServeInv'
<1> USE ServeAssumption DEF ServeInv, Attaches, storeVars, goroutineVars
<1>1. ServeTypes'
    BY DEF ServeTypes, Places, LoopPlaces, NoFlags, NoFile
<1>2. Progress'
    BY DEF Progress, ServeTypes, FirstTick
<1>3. Attended'
    BY DEF Attended, ServeTypes, FirstTick
<1>4. OneLog'
    BY DEF OneLog, ServeTypes
<1>5. Kept'
    BY DEF Kept, ServeTypes, NoFile
<1> QED
    BY <1>1, <1>2, <1>3, <1>4, <1>5

\* A client fails to attach, which no client that is attached does.
LEMMA AttachFailsInv ==
    ASSUME ServeInv, NEW c \in Clients, AttachFails(c)
    PROVE  ServeInv'
<1> USE ServeAssumption DEF ServeInv, AttachFails, storeVars, goroutineVars
<1>1. ServeTypes'
    BY DEF ServeTypes, Places, LoopPlaces, NoFlags, NoFile
<1>2. Progress'
    BY DEF Progress, ServeTypes, FirstTick
<1>3. Attended'
    BY DEF Attended, ServeTypes, FirstTick
<1>4. OneLog'
    BY DEF OneLog, ServeTypes
<1>5. Kept'
    BY DEF Kept, ServeTypes, NoFile
<1> QED
    BY <1>1, <1>2, <1>3, <1>4, <1>5

\* The barrier takes a client off its list because it is attached.
LEMMA AdmitInv ==
    ASSUME ServeInv, NEW c \in Clients, Report(c), ~Ends
    PROVE  ServeInv'
<1> USE ServeAssumption DEF ServeInv, Report, Admitted, storeVars, goroutineVars
<1>1. ServeTypes'
    BY DEF ServeTypes, Places, LoopPlaces, NoFlags, NoFile
<1>2. Progress'
    BY DEF Progress, ServeTypes, FirstTick
<1>3. Attended'
    BY DEF Attended, ServeTypes, FirstTick
<1>4. OneLog'
    BY DEF OneLog, ServeTypes
<1>5. Kept'
    BY DEF Kept, ServeTypes, NoFile
<1> QED
    BY <1>1, <1>2, <1>3, <1>4, <1>5

\* The gate opens when nobody is left on the list.
LEMMA OpenGateInv ==
    ASSUME ServeInv, OpenGate
    PROVE  ServeInv'
<1> USE ServeAssumption DEF ServeInv, OpenGate, storeVars, goroutineVars
<1>1. ServeTypes'
    BY DEF ServeTypes, Places, LoopPlaces, NoFlags, NoFile
<1>2. Progress'
    BY DEF Progress, ServeTypes, FirstTick
<1>3. Attended'
    BY DEF Attended, ServeTypes, FirstTick
<1>4. OneLog'
    BY DEF OneLog, ServeTypes
<1>5. Kept'
    BY DEF Kept, ServeTypes, NoFile
<1> QED
    BY <1>1, <1>2, <1>3, <1>4, <1>5

\* A signal, or the end of the run.
LEMMA ClosingInv ==
    ASSUME ServeInv, Interrupt \/ RunEnded, ~Ends
    PROVE  ServeInv'
<1> USE ServeAssumption DEF ServeInv, Interrupt, RunEnded, storeVars, goroutineVars
<1>1. ServeTypes'
    BY DEF ServeTypes, Places, LoopPlaces, NoFlags, NoFile
<1>2. Progress'
    BY DEF Progress, ServeTypes, FirstTick
<1>3. Attended'
    BY DEF Attended, ServeTypes, FirstTick
<1>4. OneLog'
    BY DEF OneLog, ServeTypes
<1>5. Kept'
    BY DEF Kept, ServeTypes, NoFile
<1> QED
    BY <1>1, <1>2, <1>3, <1>4, <1>5

\* The record is anchored; nothing is refused.
LEMMA BuildInv ==
    ASSUME ServeInv, Build
    PROVE  ServeInv'
<1> USE ServeAssumption DEF ServeInv, Build, LoopStep, processVars
<1>10. flags \in Flags /\ Valid(flags) /\ FirstTick \in Nat /\ FirstTick < Horizon /\ tick \in Nat
    BY FirstTickFits DEF ServeTypes
<1>11. flags.out => flags.at \in Nat /\ FirstTick <= flags.at /\ flags.at <= Horizon
    BY <1>10, NothingToRefuse
<1>1. ServeTypes'
    BY DEF ServeTypes, Places, LoopPlaces, NoFlags, NoFile
<1>2. Progress'
    BY DEF Progress, ServeTypes, FirstTick
<1>3. Attended'
    BY DEF Attended, ServeTypes, FirstTick
<1>4. OneLog'
    <2>1. CASE flags.store
        <3>1. recording.by = {} /\ tick = 0
            BY <1>10, <2>1, RecordedFromZero DEF ServeTypes, OneLog, Progress
        <3>2. recording'.by \in {{}, {serves}} /\ recording'.first \in {0, recording.first}
            BY <3>1
        <3> QED
            BY <2>1, <3>1, <3>2 DEF ServeTypes, OneLog
    <2>2. CASE ~flags.store
        BY <2>2 DEF OneLog
    <2> QED
        BY <2>1, <2>2
<1>5. Kept'
    BY <1>10, NothingToRefuse DEF Kept, ServeTypes
<1> QED
    BY <1>1, <1>2, <1>3, <1>4, <1>5

\* The dump at the first tick.
LEMMA RegisterInv ==
    ASSUME ServeInv, Register
    PROVE  ServeInv'
<1> USE ServeAssumption DEF ServeInv, Register, LoopStep, processVars
<1>10. flags \in Flags /\ Valid(flags) /\ FirstTick \in Nat /\ FirstTick < Horizon /\ tick \in Nat
    BY FirstTickFits DEF ServeTypes
<1>11. flags.out => flags.at \in Nat /\ FirstTick <= flags.at /\ flags.at <= Horizon
    BY <1>10, NothingToRefuse
<1>1. ServeTypes'
    <2>1. dumped' \in BOOLEAN
        BY DEF Dumps
    <2> QED
        BY <2>1 DEF ServeTypes, LoopPlaces
<1>2. Progress'
    BY DEF Progress, ServeTypes, FirstTick
<1>3. Attended'
    BY DEF Attended, ServeTypes, FirstTick
<1>4. OneLog'
    BY DEF OneLog, ServeTypes
<1>5. Kept'
    <2>1. tick = FirstTick
        BY DEF Progress
    <2>2. flags.out /\ flags.at = tick => dumped'
        BY DEF Dumps
    <2> QED
        BY <1>10, <1>11, <2>1, <2>2 DEF Kept, ServeTypes
<1> QED
    BY <1>1, <1>2, <1>3, <1>4, <1>5

\* The loop goes on behind the gate.
LEMMA UnparkInv ==
    ASSUME ServeInv, Unpark
    PROVE  ServeInv'
<1> USE ServeAssumption DEF ServeInv, Unpark, storeVars, LoopStep, processVars
<1>1. ServeTypes'
    BY DEF ServeTypes, Places, LoopPlaces, NoFlags, NoFile
<1>2. Progress'
    BY DEF Progress, ServeTypes, FirstTick
<1>3. Attended'
    BY DEF Attended, ServeTypes, FirstTick
<1>4. OneLog'
    BY DEF OneLog, ServeTypes
<1>5. Kept'
    BY DEF Kept, ServeTypes, NoFile
<1> QED
    BY <1>1, <1>2, <1>3, <1>4, <1>5

\* A tick, and the dump if it is due.
LEMMA TickInv ==
    ASSUME ServeInv, Tick
    PROVE  ServeInv'
<1> USE ServeAssumption DEF ServeInv, Tick, storeVars, LoopStep, processVars
<1>10. flags \in Flags /\ Valid(flags) /\ FirstTick \in Nat /\ FirstTick < Horizon /\ tick \in Nat
    BY FirstTickFits DEF ServeTypes
<1>11. flags.out => flags.at \in Nat /\ FirstTick <= flags.at /\ flags.at <= Horizon
    BY <1>10, NothingToRefuse
<1>1. ServeTypes'
    <2>1. dumped' \in BOOLEAN
        BY DEF Dumps
    <2> QED
        BY <1>10, <2>1 DEF ServeTypes
<1>2. Progress'
    <2>1. FirstTick' = FirstTick /\ FirstTick <= tick /\ tick < Horizon /\ Horizon \in Nat
        BY DEF Progress, FirstTick
    <2> QED
        BY <1>10, <2>1 DEF Progress
<1>3. Attended'
    BY DEF Attended, ServeTypes, FirstTick
<1>4. OneLog'
    BY DEF OneLog, ServeTypes
<1>5. Kept'
    <2>1. /\ dumped => dumped'
          /\ flags.out /\ flags.at = tick' => dumped'
        BY DEF Dumps
    <2> QED
        BY <1>10, <1>11, <2>1 DEF Kept, ServeTypes
<1> QED
    BY <1>1, <1>2, <1>3, <1>4, <1>5

\* The horizon.
LEMMA FinishInv ==
    ASSUME ServeInv, Finish
    PROVE  ServeInv'
<1> USE ServeAssumption DEF ServeInv, Finish, LoopStep, processVars
<1>1. ServeTypes'
    BY DEF ServeTypes, Places, LoopPlaces, NoFlags, NoFile
<1>2. Progress'
    BY DEF Progress, ServeTypes, FirstTick
<1>3. Attended'
    BY DEF Attended, ServeTypes, FirstTick
<1>4. OneLog'
    BY DEF OneLog, ServeTypes
<1>5. Kept'
    BY DEF Kept, ServeTypes, NoFile
<1> QED
    BY <1>1, <1>2, <1>3, <1>4, <1>5

\* The metrics are written beside their place.
LEMMA WriteMetricsInv ==
    ASSUME ServeInv, WriteMetrics
    PROVE  ServeInv'
<1> USE ServeAssumption DEF ServeInv, WriteMetrics, WrittenBeside, LoopStep, processVars
<1>1. ServeTypes'
    BY DEF ServeTypes, Places, LoopPlaces, NoFlags, NoFile
<1>2. Progress'
    BY DEF Progress, ServeTypes, FirstTick
<1>3. Attended'
    BY DEF Attended, ServeTypes, FirstTick
<1>4. OneLog'
    BY DEF OneLog, ServeTypes
<1>5. Kept'
    BY DEF Kept, ServeTypes, NoFile
<1> QED
    BY <1>1, <1>2, <1>3, <1>4, <1>5

\* The metrics are renamed into place, whole.
LEMMA RenameMetricsInv ==
    ASSUME ServeInv, RenameMetrics
    PROVE  ServeInv'
<1> USE ServeAssumption DEF ServeInv, RenameMetrics, LoopStep, processVars
<1>1. ServeTypes'
    BY DEF ServeTypes, Places, LoopPlaces, NoFlags, NoFile
<1>2. Progress'
    BY DEF Progress, ServeTypes, FirstTick
<1>3. Attended'
    BY DEF Attended, ServeTypes, FirstTick
<1>4. OneLog'
    BY DEF OneLog, ServeTypes
<1>5. Kept'
    <2>1. tick = Horizon
        BY DEF Progress
    <2> QED
        BY <2>1 DEF Kept, ServeTypes
<1> QED
    BY <1>1, <1>2, <1>3, <1>4, <1>5

\* A write fails.
LEMMA RunFailsInv ==
    ASSUME ServeInv, RunFails
    PROVE  ServeInv'
<1> USE ServeAssumption DEF ServeInv, RunFails, LoopStep, processVars
<1>1. ServeTypes'
    BY DEF ServeTypes, Places, LoopPlaces, NoFlags, NoFile
<1>2. Progress'
    BY DEF Progress, ServeTypes, FirstTick
<1>3. Attended'
    BY DEF Attended, ServeTypes, FirstTick
<1>4. OneLog'
    BY DEF OneLog, ServeTypes
<1>5. Kept'
    BY DEF Kept, ServeTypes, NoFile
<1> QED
    BY <1>1, <1>2, <1>3, <1>4, <1>5


LEMMA ServeInvStep == ServeInv /\ [ServeNext]_serveVars => ServeInv'
<1> SUFFICES ASSUME ServeInv, [ServeNext]_serveVars PROVE ServeInv'
    OBVIOUS
<1>1. CASE Ends
    BY <1>1, EndsInv
<1>2. CASE RunDied \/ BarrierTimeOut \/ Exit \/ Killed
    BY <1>1, <1>2 DEF RunDied, BarrierTimeOut, Exit, Killed
<1>3. ASSUME NEW c \in Clients, Attaches(c) \/ AttachFails(c) \/ Report(c)
      PROVE  ServeInv'
    BY <1>1, <1>3, AttachesInv, AttachFailsInv, AdmitInv
<1>4. CASE Loop \/ RunFails
    BY <1>4, BuildInv, RegisterInv, UnparkInv, TickInv, FinishInv, WriteMetricsInv,
       RenameMetricsInv, RunFailsInv DEF Loop
<1>5. CASE UNCHANGED serveVars
    BY <1>5 DEF serveVars, processVars, goroutineVars, storeVars, ServeInv, ServeTypes, Progress,
       Attended, OneLog, Kept, FirstTick
<1> QED
    BY <1>1, <1>2, <1>3, <1>4, <1>5, LaunchInv, OpenGateInv, ClosingInv DEF ServeNext

-----------------------------------------------------------------------------
\* No tick happens before every embedded client is attached, whatever the
\* order and the outcome of their attempts (waitBarrier and RunLive's gate).
THEOREM TicksAreAttended == ServeSpec => []NoTickUnattended
<1>1. ServeInv => NoTickUnattended
    BY DEF ServeInv, Attended, NoTickUnattended
<1> QED
    BY <1>1, ServeInvInit, ServeInvStep, PTL DEF ServeSpec

\* A durable recording is the log of one process, from tick 0, however often
\* the command line is started again (checkFreshRecording, validateStateFlags).
THEOREM RecordingsAreOneRun == ServeSpec => []OneRunPerRecording
<1>1. ASSUME ServeInv
      PROVE  OneRunPerRecording
    <2> SUFFICES ASSUME flags # NoFlags, flags.store
                 PROVE  Cardinality(recording.by) <= 1 /\ recording.first = 0
        BY DEF OneRunPerRecording
    <2>1. serves > 0
        BY <1>1 DEF ServeInv, ServeTypes
    <2>2. (\A m, n \in recording.by : m = n) /\ recording.first = 0
        BY <1>1, <2>1 DEF ServeInv, OneLog
    <2>3. CASE recording.by = {}
        BY <2>2, <2>3, FS_EmptySet
    <2>4. CASE recording.by # {}
        <3>1. PICK n \in recording.by : recording.by = {n}
            BY <2>2, <2>4
        <3> QED
            BY <2>2, <3>1, FS_Singleton
    <2> QED
        BY <2>3, <2>4
<1> QED
    BY <1>1, ServeInvInit, ServeInvStep, PTL DEF ServeSpec

\* Flags that were let through are honoured, and a metrics file that is there
\* is whole and of a run that reached its horizon (validateStateFlags,
\* metricObserver.finish).
THEOREM FlagsStayHonoured == ServeSpec => []FlagsAreHonoured
<1>1. ASSUME ServeInv
      PROVE  FlagsAreHonoured
    <2>1. ASSUME outcome = "ok", flags.out
          PROVE  dumped
        <3>1. flags \in Flags /\ Valid(flags) /\ tick = Horizon
            BY <1>1, <2>1 DEF ServeInv, ServeTypes, Kept
        <3>2. flags.at <= tick
            BY <2>1, <3>1, NothingToRefuse
        <3> QED
            BY <1>1, <2>1, <3>2 DEF ServeInv, Kept
    <2> QED
        BY <1>1, <2>1 DEF ServeInv, Kept, FlagsAreHonoured
<1> QED
    BY <1>1, ServeInvInit, ServeInvStep, PTL DEF ServeSpec
=============================================================================
