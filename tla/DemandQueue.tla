----------------------------- MODULE DemandQueue -----------------------------
(***************************************************************************)
(* Demand from its program to the road (engine/natsio/demand/director.go,  *)
(* Contract.handleVerb in engine/natsio/contract.go, engine/director.go).  *)
(*                                                                         *)
(* A demand director walks the arrival program of every flow and sends one *)
(* spawn verb per arrival, a lead ahead of its tick.  It never resends.    *)
(* When it dies an operator starts another, which walks the same program   *)
(* from the beginning under the same request ids, possibly while the first *)
(* is still running.  Verbs of one director arrive in order; any of them   *)
(* may be lost.  The contract answers a request id once and repeats its    *)
(* answer; the kernel buffers what it accepts, queues it at the next tick  *)
(* and tries every queued directive once per tick until it is injected or  *)
(* its hold window has passed.                                             *)
(*                                                                         *)
(* Whether an origin is clear is open at every attempt, and vehicles leave *)
(* the road when they like.  When a silent director is swept is Contract's *)
(* subject: here it may be swept at any time.                              *)
(***************************************************************************)
EXTENDS Integers, Sequences, FiniteSets

CONSTANTS
    Director,    \* the directors an operator starts
    Arrivals,    \* per flow, the ticks of its arrivals in order
    Bad,         \* flows whose origin, type or destination the kernel refuses
    Lead,        \* cfg.Lead: how far ahead of its tick an arrival is sent
    Hold,        \* DirectorSpawnHoldTicks
    DensityCap,  \* the density cap, in vehicles; 0 is no cap
    LastTick     \* bound: the run's last tick

Flow == DOMAIN Arrivals

\* A request id: the flow and the ordinal of the arrival.
Ids == {id \in Flow \X (1..LastTick) : id[2] <= Len(Arrivals[id[1]])}
Earliest(id) == Arrivals[id[1]][id[2]]

ASSUME ArrivalsAssumption ==
    /\ \A f \in Flow : Arrivals[f] \in Seq(1..LastTick) /\ Len(Arrivals[f]) <= LastTick
    /\ Bad \subseteq Flow
ASSUME NumbersAssumption ==
    Lead \in Nat /\ Hold \in Nat /\ DensityCap \in Nat /\ LastTick \in Nat

VARIABLES
    clock, stepping,  \* the kernel's clock, and whether a step is under way
    started,          \* the directors that have been started
    pos,              \* Director -> Flow -> arrivals sent
    wire,             \* Director -> verbs under way
    known,            \* the directors the contract knows
    answered,         \* request id -> "unseen", "accepted" or "rejected"
    dirNew,           \* accepted since the last tick
    dirQueue,         \* queued
    todo,             \* what this step has still to try
    road,             \* number of vehicles on the road
    injected, expired,  \* request id -> how often it left the queue that way
    clean             \* history: the directors that lost no verb and were never swept

demandVars == <<clock, stepping, started, pos, wire, known, answered, dirNew, dirQueue, todo,
                road, injected, expired, clean>>

queueVars == <<clock, stepping, dirNew, dirQueue, todo, road, injected, expired>>

-----------------------------------------------------------------------------
(* The directors.  A director that died is one that sends no more; what they *)
(* do while the kernel steps commutes with it.                              *)

\* Attach: the handshake is retried until it is accepted.
AttachDirector(c) ==
    /\ ~stepping
    /\ c \notin started
    /\ started' = started \cup {c}
    /\ known' = known \cup {c}
    /\ UNCHANGED <<clean, pos, wire, answered, queueVars>>

\* onSnapshot: one arrival the flow owes by now; the drain goes on to the next.
Owes(c, f) ==
    /\ pos[c][f] < Len(Arrivals[f])
    /\ Arrivals[f][pos[c][f] + 1] <= clock + Lead

Request(c, f) == <<f, pos[c][f] + 1>>

\* send: the sampler moves on whatever becomes of the verb.
Send(c, f) ==
    /\ ~stepping
    /\ c \in started
    /\ Owes(c, f)
    /\ pos' = [pos EXCEPT ![c][f] = @ + 1]
    /\ wire' = [wire EXCEPT ![c] = Append(@, Request(c, f))]
    /\ UNCHANGED <<clean, started, known, answered, queueVars>>

Lose(c) ==
    /\ ~stepping
    /\ wire[c] # <<>>
    /\ wire' = [wire EXCEPT ![c] = Tail(@)]
    /\ clean' = clean \ {c}
    /\ UNCHANGED <<started, pos, known, answered, queueVars>>

-----------------------------------------------------------------------------
(* The contract. *)

\* sweepLiveness: a director the contract has not heard from.
SweepDirector(c) ==
    /\ ~stepping
    /\ c \in known
    /\ known' = known \ {c}
    /\ clean' = clean \ {c}
    /\ UNCHANGED <<started, pos, wire, answered, queueVars>>

\* Every answer remembered, "not attached" too.
RemembersAll(c, id) == answered[id] = "unseen"

\* A verb is looked up only once its sender is known to be attached.
Answers(c, id) == c \in known /\ answered[id] = "unseen"

\* Duplicates left to the kernel's check of live request ids.
AcceptsUnlessLive(c, id) == c \in known /\ id[1] \notin Bad

\* EnqueueSpawn's validation, of an id that is new to the contract.
Accepts(c, id) == c \in known /\ answered[id] = "unseen" /\ id[1] \notin Bad

\* EnqueueSpawn refuses an id that is in the queue or in the buffer.
IsQueued(id) == \E q \in {dirNew, dirQueue} : \E i \in DOMAIN q : q[i] = id

HandleVerb(c) ==
    /\ ~stepping
    /\ wire[c] # <<>>
    /\ LET id == Head(wire[c])
           ok == Accepts(c, id) /\ ~IsQueued(id) IN
           /\ answered' = IF ok THEN [answered EXCEPT ![id] = "accepted"]
                       ELSE IF Answers(c, id) THEN [answered EXCEPT ![id] = "rejected"]
                       ELSE answered
           /\ dirNew' = IF ok THEN Append(dirNew, id) ELSE dirNew
    /\ wire' = [wire EXCEPT ![c] = Tail(@)]
    /\ UNCHANGED <<clean, started, pos, known, clock, stepping, dirQueue, todo, road, injected, expired>>

-----------------------------------------------------------------------------
(* The kernel. *)

\* Step, stepDirectorSpawns: the buffered directives join the queue, and every
\* directive is up for one attempt.
StartStep ==
    /\ ~stepping /\ clock < LastTick
    /\ clock' = clock + 1
    /\ stepping' = TRUE
    /\ todo' = dirQueue \o dirNew
    /\ dirQueue' = <<>> /\ dirNew' = <<>>
    /\ UNCHANGED <<clean, started, pos, wire, known, answered, road, injected, expired>>

Early(id) == Earliest(id) > clock

Stale(id) == clock > Earliest(id) + Hold

AtCapacity == DensityCap > 0 /\ road >= DensityCap

Trying(id) == stepping /\ todo # <<>> /\ id = Head(todo) /\ todo' = Tail(todo)

\* A directive that is early, meets the density cap or finds its origin shut
\* stays, in the order it was in.
Kept(id) ==
    /\ Trying(id)
    /\ ~Stale(id)
    /\ dirQueue' = Append(dirQueue, id)
    /\ UNCHANGED <<clean, clock, stepping, started, pos, wire, known, answered, dirNew, road, injected, expired>>

Expire(id) ==
    /\ Trying(id)
    /\ ~Early(id) /\ Stale(id)
    /\ expired' = [expired EXCEPT ![id] = @ + 1]
    /\ UNCHANGED <<clean, clock, stepping, started, pos, wire, known, answered, dirNew, dirQueue, road, injected>>

Inject(id) ==
    /\ Trying(id)
    /\ ~Early(id) /\ ~Stale(id) /\ ~AtCapacity
    /\ injected' = [injected EXCEPT ![id] = @ + 1]
    /\ road' = road + 1
    /\ UNCHANGED <<clean, clock, stepping, started, pos, wire, known, answered, dirNew, dirQueue, expired>>

EndStep ==
    /\ stepping /\ todo = <<>>
    /\ stepping' = FALSE
    /\ road' \in 0..road
    /\ UNCHANGED <<clean, clock, started, pos, wire, known, answered, dirNew, dirQueue, todo, injected, expired>>

-----------------------------------------------------------------------------
DemandInit ==
    /\ clock = 0 /\ stepping = FALSE
    /\ started = {}
    /\ pos = [c \in Director |-> [f \in Flow |-> 0]]
    /\ wire = [c \in Director |-> <<>>]
    /\ known = {}
    /\ answered = [id \in Ids |-> "unseen"]
    /\ dirNew = <<>> /\ dirQueue = <<>> /\ todo = <<>>
    /\ road = 0
    /\ injected = [id \in Ids |-> 0] /\ expired = [id \in Ids |-> 0]
    /\ clean = Director

DemandNext ==
    \/ StartStep
    \/ EndStep
    \/ \E id \in Ids : Kept(id) \/ Expire(id) \/ Inject(id)
    \/ \E c \in Director :
           \/ AttachDirector(c)
           \/ \E f \in Flow : Send(c, f)
           \/ Lose(c)
           \/ SweepDirector(c)
           \/ HandleVerb(c)

DemandSpec == DemandInit /\ [][DemandNext]_demandVars

-----------------------------------------------------------------------------
(* What becomes of the demand. *)

Times(q, id) == Cardinality({i \in DOMAIN q : q[i] = id})

\* handleVerb, "a retried verb never double-applies": an arrival the contract
\* accepted is in one place of the queue, or was injected once, or expired once;
\* any other arrival is nowhere.
AccountedFor ==
    \A id \in Ids :
        Times(dirNew, id) + Times(dirQueue, id) + Times(todo, id) + injected[id] + expired[id]
            = IF answered[id] = "accepted" THEN 1 ELSE 0

\* A director that lost no verb and was never swept makes the program good: each
\* arrival it has sent is under way or accepted, whatever became of the same
\* arrival when an earlier director sent it.
RestartMakesGood ==
    \A c \in clean, id \in Ids :
        id[1] \notin Bad /\ id[2] <= pos[c][id[1]] =>
            answered[id] = "accepted" \/ Times(wire[c], id) > 0
=============================================================================
