------------------------------ MODULE Contract ------------------------------
(***************************************************************************)
(* The engine side of the controller contract (engine/natsio/contract.go)  *)
(* and the run loop that drives it (engine/natsio/run.go): attach, claims, *)
(* hold-last bridging, the liveness sweep and the pause gate.              *)
(*                                                                         *)
(* One iteration of the loop of RunLive is the run of actions              *)
(*   Handle...* , LivenessSweep, ResumeCheck, DrainIntents, Step, AfterStep *)
(* where a gated iteration ends after ResumeCheck.  Wire callbacks only    *)
(* append to a buffer, and any client may send any request at any time, so *)
(* the buffer is not kept: a request arrives when it is handled.           *)
(***************************************************************************)
EXTENDS Integers, FiniteSets, FiniteSetsExt

CONSTANTS
  Vehicle,       \* vehicle ids; an id is never used again
  HelloRequests, \* what an attach handshake may carry, but for the claims
  DetachAfter,   \* DetachAfterTicks: the silence budget
  HoldLast,      \* HoldLastTicks: loss healing past the cadence due point
  PauseAfter,    \* PauseAfterTicks: consecutive deficits that gate the loop
  Paced,         \* PaceFloor > 0: the liveness sweep runs
  MaxAttach,     \* bound of the model: attach handshakes accepted
  MaxArrivals,   \* bound of the model: intents in the wire buffer at a drain
  MaxTick        \* spec.Ticks: the length of the run

ASSUME ContractAssumption ==
  /\ HelloRequests \subseteq [grants : SUBSET {"drive", "signal", "director"},
                              cadence : Nat, capacity : Nat]
  /\ {DetachAfter, HoldLast, PauseAfter, MaxTick} \subseteq Nat \ {0}
  /\ {MaxAttach, MaxArrivals} \subseteq Nat
  /\ Paced \in BOOLEAN
  /\ IsFiniteSet(Vehicle)

VARIABLES
  tick,      \* Engine.Tick
  pc,        \* where in its iteration the run loop is
  live,      \* vehicles in the world
  born,      \* vehicles that are or have been in the world
  ctrls,     \* attached controller -> its record
  byVehicle, \* [Vehicle -> owner, or nobody]
  hold,      \* vehicle -> its hold-last record
  announced, \* vehicles whose unclaimed event has been published
  nextID,    \* controller ids handed out
  driveSeen, deficit, paused, escaped, \* the pause gate
  dwelled,   \* the wall clock has passed pausedAt + PauseEscapeAfter
  out        \* the intents the drain hands to the kernel

\* History variables, read by the properties only.
VARIABLES
  heard,  \* controller -> tick of the last message received from it
  drove,  \* vehicle -> tick of its owner's last intent, while HoldLast covers it
  told    \* [Vehicle -> unclaimed events published since it was last claimed]

registry == <<ctrls, byVehicle, hold, announced, nextID>>
gate     == <<driveSeen, deficit, paused, escaped, dwelled>>
world    == <<tick, live, born>>
history  == <<heard, drove, told>>
vars     == <<pc, out, registry, gate, world, history>>

Ctl == 1 .. MaxAttach
nobody == 0  \* no owner; also the name of every unattached publisher

\* Grant levels of engine/intent.go.
GrantNone == 0
GrantDirector == 3
GrantLevel(grants) ==
  CASE "director" \in grants -> GrantDirector
    [] "director" \notin grants /\ "signal" \in grants -> 2
    [] OTHER -> 1

Controller ==
  [grants : SUBSET {"drive", "signal", "director"}, cadence : Nat, capacity : Nat,
   claims : SUBSET Vehicle, lastSeen : Nat]
HoldState == [lastFresh : Nat, cadence : Nat, grant : 0 .. 3, ctrlID : Ctl \union {nobody}]
Issued == [ctl : Ctl \union {nobody}, vid : Vehicle, grant : 0 .. 3, held : BOOLEAN]

Attached == DOMAIN ctrls
Drives(c) == "drive" \in ctrls[c].grants
Grant(c) == GrantLevel(ctrls[c].grants)
OwnedBy(c) == {v \in Vehicle : byVehicle[v] = c}

\* Go maps are functions on the keys present.
NoEntries == [x \in {} |-> nobody]
Without(f, S) == [x \in DOMAIN f \ S |-> f[x]]
With(f, S, e) == [x \in DOMAIN f \union S |-> IF x \in S THEN e ELSE f[x]]

-----------------------------------------------------------------------------
Init ==
  /\ tick = 0 /\ pc = "control" /\ live = {} /\ born = {}
  /\ ctrls = NoEntries /\ hold = NoEntries
  /\ byVehicle = [v \in Vehicle |-> nobody]
  /\ announced = {} /\ nextID = 0
  /\ driveSeen = FALSE /\ deficit = 0 /\ paused = FALSE /\ escaped = FALSE
  /\ dwelled = FALSE /\ out = {}
  /\ heard = NoEntries /\ drove = NoEntries /\ told = [v \in Vehicle |-> 0]

(***************************************************************************)
(* Claims change hands.  The claiming controller is passed with its record *)
(* because at attach it is not in the registry yet.                        *)
(***************************************************************************)

\* tryClaim, for the vehicles of V that are live and unclaimed.  The claim
\* capacity is not consulted.
ClaimableOfAnyone(V) == V \intersect live
Claimable(V) == {v \in V \intersect live : byVehicle[v] = nobody}

Claimed(c, ctl, V) ==
  /\ byVehicle' = [v \in Vehicle |-> IF v \in V THEN c ELSE byVehicle[v]]
  /\ announced' = announced \ V
  /\ hold' = [v \in DOMAIN hold |->
                IF v \in V
                THEN [hold[v] EXCEPT !.ctrlID = c, !.cadence = ctl.cadence,
                                     !.grant = GrantLevel(ctl.grants)]
                ELSE hold[v]]
  /\ told' = [v \in Vehicle |-> IF v \in V THEN 0 ELSE told[v]]

\* releaseOne over V, and the unclaimed events that follow it.
Released(V) ==
  /\ byVehicle' = [v \in Vehicle |-> IF v \in V THEN nobody ELSE byVehicle[v]]
  /\ announced' = announced \union V
  /\ hold' = [v \in DOMAIN hold |->
                IF v \in V THEN [hold[v] EXCEPT !.ctrlID = nobody] ELSE hold[v]]
  /\ told' = [v \in Vehicle |-> IF v \in V THEN 1 ELSE told[v]]

-----------------------------------------------------------------------------
(***************************************************************************)
(* ProcessControl.  Requests of unattached controllers, malformed ones and *)
(* refused handshakes change nothing.                                      *)
(***************************************************************************)

\* A cadence of 0 means 1.
Cadence(req) == IF req.cadence = 0 THEN 1 ELSE req.cadence

Acceptable(req) ==
  /\ Cadence(req) < DetachAfter
  /\ req.grants # {}
  /\ "drive" \in req.grants => req.capacity >= 1

\* The attach handshake.  Claims at attach need no drive grant.
HandleHello(req, V) ==
  /\ pc = "control" /\ nextID < MaxAttach
  /\ Acceptable(req)
  /\ LET c == nextID + 1
         ctl == [grants |-> req.grants, cadence |-> Cadence(req), capacity |-> req.capacity,
                 claims |-> Claimable(V), lastSeen |-> tick]
     IN  /\ nextID' = c
         /\ ctrls' = With(ctrls, {c}, ctl)
         /\ Claimed(c, ctl, Claimable(V))
         /\ heard' = With(heard, {c}, tick)
  /\ driveSeen' = (driveSeen \/ "drive" \in req.grants)
  /\ UNCHANGED <<pc, out, world, deficit, paused, escaped, dwelled, drove>>

HandleClaim(c, V) ==
  /\ pc = "control" /\ c \in Attached
  /\ LET taken == IF Drives(c) THEN Claimable(V) ELSE {}
     IN  /\ ctrls' = [ctrls EXCEPT ![c].lastSeen = tick, ![c].claims = @ \union taken]
         /\ Claimed(c, ctrls[c], taken)
  /\ heard' = [heard EXCEPT ![c] = tick]
  /\ UNCHANGED <<pc, out, world, nextID, gate, drove>>

\* The listed claims drop; detach ends the attachment and drops the rest.
HandleRelease(c, V, detach) ==
  /\ pc = "control" /\ c \in Attached
  /\ LET listed == OwnedBy(c) \intersect V
     IN  IF detach
         THEN /\ Released(listed \union ctrls[c].claims)
              /\ ctrls' = Without(ctrls, {c})
              /\ heard' = Without(heard, {c})
         ELSE /\ Released(listed)
              /\ ctrls' = [ctrls EXCEPT ![c].lastSeen = tick, ![c].claims = @ \ listed]
              /\ heard' = [heard EXCEPT ![c] = tick]
  /\ UNCHANGED <<pc, out, world, nextID, gate, drove>>

\* A heartbeat; as far as the registry goes, a verb is one too.
HandleHeartbeat(c) ==
  /\ pc = "control" /\ c \in Attached
  /\ ctrls' = [ctrls EXCEPT ![c].lastSeen = tick]
  /\ heard' = [heard EXCEPT ![c] = tick]
  /\ UNCHANGED <<pc, out, world, byVehicle, hold, announced, nextID, gate, drove, told>>

\* Silence past the budget detaches; each detach releases what is claimed.
Silent == {c \in Attached : Paced /\ tick - ctrls[c].lastSeen > DetachAfter}

LivenessSweep ==
  /\ pc = "control"
  /\ pc' = "resume"
  /\ Released(UNION {ctrls[c].claims : c \in Silent})
  /\ ctrls' = Without(ctrls, Silent)
  /\ heard' = Without(heard, Silent)
  /\ UNCHANGED <<out, world, nextID, gate, drove>>

\* capacity: live unclaimed vehicles, and spare claim capacity of the drivers.
Demand(alive, owner) == Cardinality({v \in alive : owner[v] = nobody})
Spare(ctl) ==
  LET n == ctl.capacity - Cardinality(ctl.claims) IN IF n > 0 THEN n ELSE 0
Available(cs) ==
  MapThenSumSet(LAMBDA c : Spare(cs[c]), {c \in DOMAIN cs : "drive" \in cs[c].grants})
Short(alive, owner, cs) == Demand(alive, owner) > Available(cs)

\* The gate gives way after the dwell.
NoEscape(stuck) == FALSE
Escapes(stuck) == paused /\ stuck /\ dwelled

\* The end of ProcessControl, and what the loop does with Paused(): a gated
\* iteration sleeps and starts over.
ResumeCheck ==
  /\ pc = "resume"
  /\ LET stuck == Short(live, byVehicle, ctrls)
     IN  /\ paused' = (paused /\ stuck /\ ~Escapes(stuck))
         /\ escaped' = (escaped \/ Escapes(stuck))
         /\ dwelled' = (dwelled /\ paused')
  /\ pc' = IF paused' THEN "control" ELSE "drain"
  /\ UNCHANGED <<out, registry, world, driveSeen, deficit, heard, drove, told>>

\* The wall clock while the gate is engaged.
Dwell ==
  /\ paused /\ ~dwelled
  /\ dwelled' = TRUE
  /\ UNCHANGED <<pc, out, registry, world, driveSeen, deficit, paused, escaped, history>>
-----------------------------------------------------------------------------
(***************************************************************************)
(* DrainIntents.  What an intent commands is left out, so the intents of   *)
(* one drain are a set of senders and vehicles; the per-controller         *)
(* sequence numbers, which order them for the kernel, go with it.          *)
(***************************************************************************)

\* The claim filter.
ByOwner(a) == a.ctl \in Attached /\ Drives(a.ctl) /\ byVehicle[a.vid] = a.ctl
PassesIfAttached(a) == a.ctl \in Attached \/ byVehicle[a.vid] = nobody
Passes(a) ==
  \/ a.ctl \notin Attached /\ byVehicle[a.vid] = nobody
  \/ ByOwner(a)
  \/ a.ctl \in Attached /\ Grant(a.ctl) >= GrantDirector

\* An intent is a sign of life of its sender even when the filter drops it.
SendersOfPassed(arrivals) == {a.ctl : a \in {b \in arrivals : Passes(b)}} \intersect Attached
Senders(arrivals) == {a.ctl : a \in arrivals} \intersect Attached

\* Hold-last: the records without a fresh intent that are inside their window.
Window(h) == (h.cadence - 1) + HoldLast
BridgedOneTickShort(h) == tick > h.lastFresh /\ tick - h.lastFresh < Window(h)
Bridged(h) == tick > h.lastFresh /\ tick - h.lastFresh <= Window(h)

DrainIntents(arrivals) ==
  /\ pc = "drain"
  /\ LET passed == {a \in arrivals : Passes(a)}
         fresh  == {a.vid : a \in {b \in arrivals : ByOwner(b)}}
         reissued == {v \in DOMAIN hold \ fresh : Bridged(hold[v])}
         direct(a) == [ctl |-> a.ctl, vid |-> a.vid, held |-> FALSE,
                       grant |-> IF a.ctl \in Attached THEN Grant(a.ctl) ELSE GrantNone]
         again(v) == [ctl |-> hold[v].ctrlID, vid |-> v, held |-> TRUE, grant |-> hold[v].grant]
         owned(v) == LET c == byVehicle[v] IN
                     [lastFresh |-> tick, cadence |-> ctrls[c].cadence,
                      grant |-> Grant(c), ctrlID |-> c]
     IN  /\ out' = {direct(a) : a \in passed} \union {again(v) : v \in reissued}
         /\ hold' = [v \in fresh \union reissued |-> IF v \in fresh THEN owned(v) ELSE hold[v]]
         /\ ctrls' = [c \in Attached |->
                        IF c \in Senders(arrivals)
                        THEN [ctrls[c] EXCEPT !.lastSeen = tick] ELSE ctrls[c]]
         /\ heard' = [c \in Attached |->
                        IF \E a \in arrivals : a.ctl = c THEN tick ELSE heard[c]]
         /\ drove' = With(drove, fresh, tick)
  /\ pc' = "step"
  /\ UNCHANGED <<world, byVehicle, announced, nextID, gate, told>>

\* The kernel advances one tick: vehicles are injected and leave.
Step(arrive, depart) ==
  /\ pc = "step"
  /\ tick' = tick + 1
  /\ pc' = "after"
  /\ live' = (live \ depart) \union arrive
  /\ born' = born \union arrive
  /\ out' = {}
  /\ drove' = Without(drove, {v \in DOMAIN drove : tick + 1 - drove[v] > HoldLast} \union depart)
  /\ UNCHANGED <<registry, gate, heard, told>>

\* Vehicles without an owner are announced once, while a driver listens.
Listening == \E c \in Attached : Drives(c)
NewsEveryTick(unclaimed) == IF Listening THEN unclaimed ELSE {}
News(unclaimed) == IF Listening THEN unclaimed \ announced ELSE {}

\* An escaped gate re-arms when capacity is measured sufficient.
StaysOpen(stuck) == escaped /\ stuck

\* AfterStep: the despawn sweep, the announcement of newly unclaimed
\* vehicles, and the pause gate, in this order.
AfterStep ==
  /\ pc = "after"
  /\ pc' = IF tick < MaxTick THEN "control" ELSE "done"
  /\ LET gone == {v \in Vehicle \ live : byVehicle[v] # nobody}
         unclaimed == {v \in live : byVehicle[v] = nobody}
         news == News(unclaimed)
     IN  /\ byVehicle' = [v \in Vehicle |-> IF v \in gone THEN nobody ELSE byVehicle[v]]
         /\ ctrls' = [c \in Attached |-> [ctrls[c] EXCEPT !.claims = @ \ gone]]
         /\ hold' = Without(hold, gone)
         /\ announced' = (announced \ gone) \union news
         /\ told' = [v \in Vehicle |-> IF v \in news THEN told[v] + 1 ELSE told[v]]
  /\ LET measures == driveSeen /\ ~paused
         stuck == Short(live, byVehicle', ctrls')
         run == IF stuck THEN deficit + 1 ELSE 0
         engages == measures /\ ~StaysOpen(stuck) /\ run >= PauseAfter
     IN  /\ deficit' = CASE engages -> 0 [] measures /\ ~engages -> run [] OTHER -> deficit
         /\ escaped' = IF measures THEN StaysOpen(stuck) ELSE escaped
         /\ paused' = (paused \/ engages)
  /\ UNCHANGED <<out, world, nextID, driveSeen, dwelled, heard, drove>>

\* The run has its ticks.
Finished == pc = "done" /\ UNCHANGED vars

\* What the wire buffer may hold at a drain.
Arrivals ==
  {A \in SUBSET [ctl : Attached \union {nobody}, vid : born] : Cardinality(A) <= MaxArrivals}

Next ==
  \/ \E req \in HelloRequests, V \in SUBSET born : HandleHello(req, V)
  \/ \E c \in Attached, V \in SUBSET born : HandleClaim(c, V)
  \/ \E c \in Attached, V \in SUBSET born, detach \in BOOLEAN : HandleRelease(c, V, detach)
  \/ \E c \in Attached : HandleHeartbeat(c)
  \/ LivenessSweep
  \/ ResumeCheck
  \/ Dwell
  \/ \E A \in Arrivals : DrainIntents(A)
  \/ \E arrive \in SUBSET (Vehicle \ born), depart \in SUBSET live : Step(arrive, depart)
  \/ AfterStep
  \/ Finished

Spec == Init /\ [][Next]_vars

\* The loop of the run goes on and the wall clock passes; no client has to do
\* anything.  The batch of requests one ProcessControl handles is finite.
RunLoop ==
  \/ LivenessSweep
  \/ ResumeCheck
  \/ \E A \in Arrivals : DrainIntents(A)
  \/ \E arrive \in SUBSET (Vehicle \ born), depart \in SUBSET live : Step(arrive, depart)
  \/ AfterStep

FairSpec == Spec /\ WF_vars(RunLoop) /\ WF_vars(Dwell)
-----------------------------------------------------------------------------

\* The type invariant.
TypeOK ==
  /\ tick \in Nat
  /\ pc \in {"control", "resume", "drain", "step", "after", "done"}
  /\ live \subseteq born /\ born \subseteq Vehicle
  /\ nextID \in 0 .. MaxAttach
  /\ Attached \subseteq 1 .. nextID
  /\ ctrls \in [Attached -> Controller]
  /\ byVehicle \in [Vehicle -> Ctl \union {nobody}]
  /\ DOMAIN hold \subseteq Vehicle /\ hold \in [DOMAIN hold -> HoldState]
  /\ announced \subseteq Vehicle
  /\ deficit \in Nat
  /\ driveSeen \in BOOLEAN /\ paused \in BOOLEAN
  /\ escaped \in BOOLEAN /\ dwelled \in BOOLEAN
  /\ out \subseteq Issued

\* The registry of the run and the claim sets of the controllers are two
\* views of one relation, updated apart in every handler: a controller's
\* claims are the vehicles registered to it, an owner is attached, an owned
\* vehicle is not announced as unclaimed, and a hold record speaks for the
\* present owner or, once orphaned, for no one.
RegistryConsistent ==
  /\ \A c \in Attached : ctrls[c].claims = OwnedBy(c)
  /\ \A v \in Vehicle : byVehicle[v] # nobody => byVehicle[v] \in Attached /\ v \notin announced
  /\ \A v \in DOMAIN hold : hold[v].ctrlID = byVehicle[v]

\* Claims are enforced on everything the kernel is given, hold-last re-issues
\* included: below the director grant only the owner speaks for a claimed
\* vehicle, and a re-issue is never attributed to a past owner.
OnlyOwnersCommand ==
  pc = "step" =>
    \A i \in out :
      /\ byVehicle[i.vid] # nobody /\ i.grant < GrantDirector => i.ctl = byVehicle[i.vid]
      /\ i.held => i.ctl = byVehicle[i.vid]
      /\ i.ctl # nobody => i.ctl \in Attached

\* ObsBridgeTicks: whatever happens to the claim meanwhile (release, detach,
\* re-claim by a controller of another cadence), a live vehicle that was driven
\* at most HoldLast ticks ago still has an intent at this boundary.  (A sweep
\* drops a claim after more than DetachAfter ticks of silence, so it can only
\* meet a bridge where HoldLast exceeds DetachAfter.)
BridgeGuaranteed ==
  pc = "step" =>
    \A v \in live \intersect DOMAIN drove :
      tick - drove[v] <= HoldLast => \E i \in out : i.vid = v

\* Each spell without an owner is announced: never twice, and once before the
\* run goes on after the first step at which a driver listens.
AnnouncedOnce ==
  [][ /\ \A v \in Vehicle : told'[v] <= 1
      /\ pc = "after" /\ Listening =>
           \A v \in live : byVehicle'[v] = nobody => told'[v] = 1 ]_vars

\* A controller that is heard from within the budget is never swept: one that
\* leaves the registry asked for it or has been silent for longer, whichever
\* handler received its messages.
SweptOnlyIfSilent ==
  [][ pc = "control" /\ pc' = "resume" =>
        \A c \in Attached \ DOMAIN ctrls' : tick - heard[c] > DetachAfter ]_vars

\* Exclusive claims, as the abstract lease states them.
Lease == INSTANCE ClaimLease
           WITH Controller <- Ctl, owner <- byVehicle, attached <- Attached,
                retired <- (1 .. nextID) \ Attached
ImplementsLease == Lease!Spec

\* The pause gate never wedges the run: with any clients, none of which need
\* ever act, the run gets all its ticks.
RunEnds == <>(pc = "done")

\* What the refusal of handleClaim says of claims: they require the drive
\* grant.
OwnersDrive == \A c \in Attached : ctrls[c].claims # {} => Drives(c)
=============================================================================
