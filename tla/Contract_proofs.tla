--------------------------- MODULE Contract_proofs ---------------------------
(***************************************************************************)
(* Proofs about the controller contract, for any number of vehicles,       *)
(* controllers and ticks.  The first inductive invariant is the type       *)
(* invariant with RegistryConsistent: the two views of a claim have to     *)
(* agree for either to be preserved, because a release trusts the registry *)
(* and a detach trusts the claim set.  The second, Books, ties the         *)
(* contract's own books to what happened to vehicles and controllers.      *)
(***************************************************************************)
EXTENDS Contract, TLAPS

IInv == TypeOK /\ RegistryConsistent

\* A grant set has one of the four levels of engine/intent.go.
LEMMA GrantLevelType ==
  ASSUME NEW grants
  PROVE  GrantLevel(grants) \in 0 .. 3
BY DEF GrantLevel, GrantDirector

\* The empty registry is consistent (NewContract).
LEMMA InitIInv == Init => IInv
<1> SUFFICES ASSUME Init PROVE IInv
  OBVIOUS
<1>1. Attached = {} /\ DOMAIN hold = {}
  BY DEF Init, NoEntries, Attached
<1>2. ctrls \in [Attached -> Controller] /\ hold \in [DOMAIN hold -> HoldState]
  BY <1>1 DEF Init, NoEntries, Attached
<1>3. TypeOK
  <2>1. byVehicle \in [Vehicle -> Ctl \union {nobody}]
    BY DEF Init
  <2>2. nextID \in 0 .. MaxAttach
    BY ContractAssumption DEF Init
  <2> QED
    BY <1>1, <1>2, <2>1, <2>2 DEF Init, TypeOK
<1>4. RegistryConsistent
  BY <1>1 DEF Init, RegistryConsistent
<1> QED
  BY <1>3, <1>4 DEF IInv

\* tryClaim over free live vehicles keeps the types, gives exactly those
\* vehicles to the claimer, and lets the hold records follow their owner.
LEMMA ClaimedEffect ==
  ASSUME IInv, NEW c \in Ctl, NEW ctl \in Controller, NEW V,
         V \subseteq Vehicle, \A v \in V : byVehicle[v] = nobody,
         Claimed(c, ctl, V)
  PROVE  /\ byVehicle' \in [Vehicle -> Ctl \union {nobody}]
         /\ announced' \subseteq Vehicle
         /\ DOMAIN hold' \subseteq Vehicle /\ hold' \in [DOMAIN hold' -> HoldState]
         /\ \A v \in Vehicle : byVehicle'[v] = IF v \in V THEN c ELSE byVehicle[v]
         /\ \A v \in Vehicle : v \in announced' <=> v \in announced /\ v \notin V
         /\ \A v \in DOMAIN hold' : hold'[v].ctrlID = byVehicle'[v]
<1>1. TypeOK /\ RegistryConsistent
  BY DEF IInv
<1>2. byVehicle' \in [Vehicle -> Ctl \union {nobody}]
  BY <1>1 DEF Claimed, TypeOK
<1>3. DOMAIN hold' = DOMAIN hold
  BY DEF Claimed
<1>4. \A v \in DOMAIN hold : v \in Vehicle /\ hold[v] \in HoldState /\ hold[v].ctrlID = byVehicle[v]
  BY <1>1 DEF TypeOK, RegistryConsistent
<1>5. GrantLevel(ctl.grants) \in 0 .. 3 /\ ctl.cadence \in Nat
  BY GrantLevelType DEF Controller
<1>6. \A v \in DOMAIN hold : hold'[v] \in HoldState
                          /\ hold'[v].ctrlID = IF v \in V THEN c ELSE byVehicle[v]
  BY <1>4, <1>5 DEF Claimed, HoldState
<1>7. hold' \in [DOMAIN hold' -> HoldState]
  BY <1>3, <1>6 DEF Claimed
<1> QED
  BY <1>1, <1>2, <1>3, <1>4, <1>6, <1>7 DEF Claimed, TypeOK

\* releaseOne over any vehicles leaves them without an owner and their hold
\* records without a controller.
LEMMA ReleasedEffect ==
  ASSUME IInv, NEW V, V \subseteq Vehicle, Released(V)
  PROVE  /\ byVehicle' \in [Vehicle -> Ctl \union {nobody}]
         /\ announced' \subseteq Vehicle
         /\ DOMAIN hold' \subseteq Vehicle /\ hold' \in [DOMAIN hold' -> HoldState]
         /\ \A v \in Vehicle : byVehicle'[v] = IF v \in V THEN nobody ELSE byVehicle[v]
         /\ \A v \in Vehicle : v \in announced' <=> v \in announced \/ v \in V
         /\ \A v \in DOMAIN hold' : hold'[v].ctrlID = byVehicle'[v]
<1>1. TypeOK /\ RegistryConsistent
  BY DEF IInv
<1>2. byVehicle' \in [Vehicle -> Ctl \union {nobody}]
  BY <1>1 DEF Released, TypeOK
<1>3. DOMAIN hold' = DOMAIN hold
  BY DEF Released
<1>4. \A v \in DOMAIN hold : v \in Vehicle /\ hold[v] \in HoldState /\ hold[v].ctrlID = byVehicle[v]
  BY <1>1 DEF TypeOK, RegistryConsistent
<1>6. \A v \in DOMAIN hold : hold'[v] \in HoldState
                          /\ hold'[v].ctrlID = IF v \in V THEN nobody ELSE byVehicle[v]
  BY <1>4 DEF Released, HoldState
<1>7. hold' \in [DOMAIN hold' -> HoldState]
  BY <1>3, <1>6 DEF Released
<1> QED
  BY <1>1, <1>2, <1>3, <1>4, <1>6, <1>7 DEF Released, TypeOK

\* The attach handshake preserves the invariant: the identity is new, so it
\* owns nothing but what it takes.
LEMMA HelloIInv ==
  ASSUME IInv, NEW req \in HelloRequests, NEW V \in SUBSET born, HandleHello(req, V)
  PROVE  IInv'
<1>1. TypeOK /\ RegistryConsistent
  BY DEF IInv
<1>0. PICK c \in Nat : c = nextID + 1
  BY <1>1, ContractAssumption DEF TypeOK
<1> DEFINE T == Claimable(V)
           ctl == [grants |-> req.grants, cadence |-> Cadence(req), capacity |-> req.capacity,
                   claims |-> T, lastSeen |-> tick]
<1>2. T \subseteq Vehicle /\ \A v \in T : byVehicle[v] = nobody
  BY <1>1 DEF Claimable, TypeOK
<1>3. c \in Ctl /\ c \notin Attached /\ c # nobody /\ nextID' = c /\ c \in 1 .. c
  BY <1>0, <1>1, ContractAssumption DEF HandleHello, TypeOK, Ctl, nobody
<1>4. ctl \in Controller
  BY <1>1, <1>2, ContractAssumption DEF Controller, Cadence, TypeOK
<1>5. ctrls' = With(ctrls, {c}, ctl) /\ Claimed(c, ctl, T)
  BY <1>0 DEF HandleHello
<1> HIDE DEF T, ctl
<1>6. /\ byVehicle' \in [Vehicle -> Ctl \union {nobody}]
      /\ announced' \subseteq Vehicle
      /\ DOMAIN hold' \subseteq Vehicle /\ hold' \in [DOMAIN hold' -> HoldState]
      /\ \A v \in Vehicle : byVehicle'[v] = IF v \in T THEN c ELSE byVehicle[v]
      /\ \A v \in Vehicle : v \in announced' <=> v \in announced /\ v \notin T
      /\ \A v \in DOMAIN hold' : hold'[v].ctrlID = byVehicle'[v]
  BY <1>2, <1>3, <1>4, <1>5, ClaimedEffect
<1>7. /\ Attached' = Attached \union {c}
      /\ \A x \in Attached : ctrls'[x] = ctrls[x]
      /\ ctrls'[c] = ctl
      /\ ctrls' \in [Attached' -> Controller]
  BY <1>1, <1>3, <1>4, <1>5 DEF With, Attached, TypeOK
<1>8. Attached' \subseteq 1 .. nextID' /\ nextID' \in 0 .. MaxAttach
  BY <1>0, <1>1, <1>3, <1>7, ContractAssumption DEF TypeOK, Ctl
<1>9. driveSeen' \in BOOLEAN
  BY <1>1 DEF HandleHello, TypeOK
<1>10. TypeOK'
  BY <1>1, <1>6, <1>7, <1>8, <1>9 DEF TypeOK, HandleHello, world, Attached
<1>11. \A x \in Attached' : ctrls'[x].claims = OwnedBy(x)'
  <2>1. ctrls'[c].claims = T
    BY <1>7 DEF ctl
  <2>2. OwnedBy(c) = {}
    BY <1>1, <1>3 DEF OwnedBy, RegistryConsistent
  <2>3. OwnedBy(c)' = T
    BY <1>2, <1>3, <1>6, <2>2 DEF OwnedBy
  <2>4. \A x \in Attached : OwnedBy(x)' = OwnedBy(x)
    BY <1>1, <1>2, <1>3, <1>6 DEF OwnedBy, TypeOK, nobody
  <2> QED
    BY <1>1, <1>7, <2>1, <2>3, <2>4 DEF RegistryConsistent
<1>12. \A v \in Vehicle : byVehicle'[v] # nobody => byVehicle'[v] \in Attached' /\ v \notin announced'
  BY <1>1, <1>3, <1>6, <1>7 DEF RegistryConsistent
<1> QED
  BY <1>6, <1>10, <1>11, <1>12 DEF IInv, RegistryConsistent

\* A claim request preserves the invariant.
LEMMA ClaimIInv ==
  ASSUME IInv, NEW c \in Attached, NEW V \in SUBSET born, HandleClaim(c, V)
  PROVE  IInv'
<1> DEFINE T == IF Drives(c) THEN Claimable(V) ELSE {}
<1>1. TypeOK /\ RegistryConsistent
  BY DEF IInv
<1>2. T \subseteq Vehicle /\ \A v \in T : byVehicle[v] = nobody
  BY <1>1 DEF Claimable, TypeOK
<1>3. c \in Ctl /\ c # nobody /\ ctrls[c] \in Controller
  <2>1. c \in 1 .. nextID /\ nextID \in 0 .. MaxAttach /\ MaxAttach \in Nat
    BY <1>1, ContractAssumption DEF TypeOK
  <2>2. ctrls[c] \in Controller
    BY <1>1 DEF TypeOK
  <2> QED
    BY <2>1, <2>2 DEF Ctl, nobody
<1>4. ctrls' = [ctrls EXCEPT ![c].lastSeen = tick, ![c].claims = @ \union T] /\ Claimed(c, ctrls[c], T)
  BY DEF HandleClaim
<1> HIDE DEF T
<1>6. /\ byVehicle' \in [Vehicle -> Ctl \union {nobody}]
      /\ announced' \subseteq Vehicle
      /\ DOMAIN hold' \subseteq Vehicle /\ hold' \in [DOMAIN hold' -> HoldState]
      /\ \A v \in Vehicle : byVehicle'[v] = IF v \in T THEN c ELSE byVehicle[v]
      /\ \A v \in Vehicle : v \in announced' <=> v \in announced /\ v \notin T
      /\ \A v \in DOMAIN hold' : hold'[v].ctrlID = byVehicle'[v]
  BY <1>2, <1>3, <1>4, ClaimedEffect
<1>7. /\ Attached' = Attached
      /\ \A x \in Attached : ctrls'[x] \in Controller
      /\ \A x \in Attached : ctrls'[x].claims = IF x = c THEN ctrls[c].claims \union T ELSE ctrls[x].claims
  BY <1>1, <1>2, <1>4 DEF Attached, TypeOK, Controller
<1>8. ctrls' \in [Attached' -> Controller]
  BY <1>4, <1>7 DEF Attached
<1>10. TypeOK'
  BY <1>1, <1>6, <1>7, <1>8 DEF TypeOK, HandleClaim, world, gate, Attached
<1>11. \A x \in Attached' : ctrls'[x].claims = OwnedBy(x)'
  <2>1. \A x \in Attached : OwnedBy(x)' = IF x = c THEN OwnedBy(x) \union T ELSE OwnedBy(x)
    BY <1>1, <1>2, <1>3, <1>6 DEF OwnedBy, TypeOK, nobody
  <2> QED
    BY <1>1, <1>7, <2>1 DEF RegistryConsistent
<1>12. \A v \in Vehicle : byVehicle'[v] # nobody => byVehicle'[v] \in Attached' /\ v \notin announced'
  BY <1>1, <1>3, <1>6, <1>7 DEF RegistryConsistent
<1> QED
  BY <1>6, <1>10, <1>11, <1>12 DEF IInv, RegistryConsistent

\* A release, with or without a detach, preserves the invariant.
LEMMA ReleaseIInv ==
  ASSUME IInv, NEW c \in Attached, NEW V \in SUBSET born, NEW detach \in BOOLEAN,
         HandleRelease(c, V, detach)
  PROVE  IInv'
<1> DEFINE listed == OwnedBy(c) \intersect V
           R == IF detach THEN listed \union ctrls[c].claims ELSE listed
<1>1. TypeOK /\ RegistryConsistent
  BY DEF IInv
<1>2. R \subseteq OwnedBy(c) /\ OwnedBy(c) \subseteq Vehicle /\ (detach => R = OwnedBy(c))
  BY <1>1 DEF RegistryConsistent, OwnedBy
<1>3. Released(R)
  BY DEF HandleRelease
<1>4. CASE detach
  <2>1. ctrls' = Without(ctrls, {c})
    BY <1>4 DEF HandleRelease
  <2> HIDE DEF R
  <2>2. /\ byVehicle' \in [Vehicle -> Ctl \union {nobody}]
        /\ announced' \subseteq Vehicle
        /\ DOMAIN hold' \subseteq Vehicle /\ hold' \in [DOMAIN hold' -> HoldState]
        /\ \A v \in Vehicle : byVehicle'[v] = IF v \in R THEN nobody ELSE byVehicle[v]
        /\ \A v \in Vehicle : v \in announced' <=> v \in announced \/ v \in R
        /\ \A v \in DOMAIN hold' : hold'[v].ctrlID = byVehicle'[v]
    BY <1>2, <1>3, ReleasedEffect
  <2>3. /\ Attached' = Attached \ {c}
        /\ \A x \in Attached' : ctrls'[x] = ctrls[x]
        /\ ctrls' \in [Attached' -> Controller]
    BY <1>1, <2>1 DEF Without, Attached, TypeOK
  <2>4. TypeOK'
    BY <1>1, <2>2, <2>3 DEF TypeOK, HandleRelease, world, gate, Attached
  <2>5. \A x \in Attached' : ctrls'[x].claims = OwnedBy(x)'
    <3>1. \A x \in Attached' : OwnedBy(x)' = OwnedBy(x)
      <4>1. \A x \in Attached' : x # c /\ x \in 1 .. nextID /\ nextID \in Int
        BY <1>1, <2>3, ContractAssumption DEF TypeOK
      <4>2. \A x \in Attached' : x # nobody
        BY <4>1 DEF nobody
      <4> QED
        BY <1>2, <2>2, <4>1, <4>2 DEF OwnedBy
    <3> QED
      BY <1>1, <2>3, <3>1 DEF RegistryConsistent
  <2>6. \A v \in Vehicle : byVehicle'[v] # nobody => byVehicle'[v] \in Attached' /\ v \notin announced'
    BY <1>1, <1>2, <1>4, <2>2, <2>3 DEF RegistryConsistent, OwnedBy
  <2> QED
    BY <2>2, <2>4, <2>5, <2>6 DEF IInv, RegistryConsistent
<1>5. CASE ~detach
  <2>1. ctrls' = [ctrls EXCEPT ![c].lastSeen = tick, ![c].claims = @ \ R]
    BY <1>5 DEF HandleRelease
  <2> HIDE DEF R
  <2>2. /\ byVehicle' \in [Vehicle -> Ctl \union {nobody}]
        /\ announced' \subseteq Vehicle
        /\ DOMAIN hold' \subseteq Vehicle /\ hold' \in [DOMAIN hold' -> HoldState]
        /\ \A v \in Vehicle : byVehicle'[v] = IF v \in R THEN nobody ELSE byVehicle[v]
        /\ \A v \in Vehicle : v \in announced' <=> v \in announced \/ v \in R
        /\ \A v \in DOMAIN hold' : hold'[v].ctrlID = byVehicle'[v]
    BY <1>2, <1>3, ReleasedEffect
  <2>3. /\ Attached' = Attached
        /\ \A x \in Attached : ctrls'[x] \in Controller
        /\ \A x \in Attached : ctrls'[x].claims = IF x = c THEN ctrls[c].claims \ R ELSE ctrls[x].claims
    BY <1>1, <2>1 DEF Attached, TypeOK, Controller
  <2>4. ctrls' \in [Attached' -> Controller]
    BY <2>1, <2>3 DEF Attached
  <2>5. TypeOK'
    BY <1>1, <2>2, <2>3, <2>4 DEF TypeOK, HandleRelease, world, gate, Attached
  <2>6. \A x \in Attached' : ctrls'[x].claims = OwnedBy(x)'
    <3>1. \A x \in Attached : x \in 1 .. nextID /\ nextID \in Int
      BY <1>1, ContractAssumption DEF TypeOK
    <3>2. \A x \in Attached : x # nobody
      BY <3>1 DEF nobody
    <3>3. \A x \in Attached : OwnedBy(x)' = IF x = c THEN OwnedBy(x) \ R ELSE OwnedBy(x)
      BY <1>2, <2>2, <3>2 DEF OwnedBy
    <3> QED
      BY <1>1, <2>3, <3>3 DEF RegistryConsistent
  <2>7. \A v \in Vehicle : byVehicle'[v] # nobody => byVehicle'[v] \in Attached' /\ v \notin announced'
    BY <1>1, <2>2, <2>3 DEF RegistryConsistent
  <2> QED
    BY <2>2, <2>5, <2>6, <2>7 DEF IInv, RegistryConsistent
<1> QED
  BY <1>4, <1>5

\* A heartbeat preserves the invariant.
LEMMA HeartbeatIInv ==
  ASSUME IInv, NEW c \in Attached, HandleHeartbeat(c)
  PROVE  IInv'
<1>1. TypeOK /\ RegistryConsistent
  BY DEF IInv
<1>2. /\ Attached' = Attached
      /\ \A x \in Attached : ctrls'[x] \in Controller /\ ctrls'[x].claims = ctrls[x].claims
  BY <1>1 DEF HandleHeartbeat, Attached, TypeOK, Controller
<1>3. ctrls' \in [Attached' -> Controller]
  BY <1>2 DEF HandleHeartbeat, Attached
<1>4. TypeOK'
  BY <1>1, <1>2, <1>3 DEF TypeOK, HandleHeartbeat, world, gate, Attached
<1>5. RegistryConsistent'
  BY <1>1, <1>2 DEF RegistryConsistent, HandleHeartbeat, OwnedBy
<1> QED
  BY <1>4, <1>5 DEF IInv

\* The liveness sweep preserves the invariant: it forgets the silent
\* controllers with everything they own.
LEMMA SweepIInv ==
  ASSUME IInv, LivenessSweep
  PROVE  IInv'
<1> DEFINE R == UNION {ctrls[c].claims : c \in Silent}
<1>1. TypeOK /\ RegistryConsistent
  BY DEF IInv
<1>2. Silent \subseteq Attached
  BY DEF Silent
<1>3. R \subseteq Vehicle /\ \A v \in Vehicle : v \in R <=> byVehicle[v] \in Silent
  BY <1>1, <1>2 DEF RegistryConsistent, OwnedBy
<1>4. Released(R) /\ ctrls' = Without(ctrls, Silent)
  BY DEF LivenessSweep
<1> HIDE DEF R
<1>5. /\ byVehicle' \in [Vehicle -> Ctl \union {nobody}]
      /\ announced' \subseteq Vehicle
      /\ DOMAIN hold' \subseteq Vehicle /\ hold' \in [DOMAIN hold' -> HoldState]
      /\ \A v \in Vehicle : byVehicle'[v] = IF v \in R THEN nobody ELSE byVehicle[v]
      /\ \A v \in Vehicle : v \in announced' <=> v \in announced \/ v \in R
      /\ \A v \in DOMAIN hold' : hold'[v].ctrlID = byVehicle'[v]
  BY <1>3, <1>4, ReleasedEffect
<1>6. /\ Attached' = Attached \ Silent
      /\ \A x \in Attached' : ctrls'[x] = ctrls[x]
      /\ ctrls' \in [Attached' -> Controller]
  BY <1>1, <1>2, <1>4 DEF Without, Attached, TypeOK
<1>7. TypeOK'
  BY <1>1, <1>5, <1>6 DEF TypeOK, LivenessSweep, world, gate, Attached
<1>8. \A x \in Attached' : ctrls'[x].claims = OwnedBy(x)'
  <2>1. \A x \in Attached' : x \notin Silent /\ x \in 1 .. nextID /\ nextID \in Int
    BY <1>1, <1>6, ContractAssumption DEF TypeOK
  <2>2. \A x \in Attached' : x # nobody
    BY <2>1 DEF nobody
  <2>3. \A x \in Attached' : OwnedBy(x)' = OwnedBy(x)
    BY <1>3, <1>5, <2>1, <2>2 DEF OwnedBy
  <2> QED
    BY <1>1, <1>6, <2>3 DEF RegistryConsistent
<1>9. \A v \in Vehicle : byVehicle'[v] # nobody => byVehicle'[v] \in Attached' /\ v \notin announced'
  BY <1>1, <1>3, <1>5, <1>6 DEF RegistryConsistent
<1> QED
  BY <1>5, <1>7, <1>8, <1>9 DEF IInv, RegistryConsistent

\* The drain preserves the invariant: only an owner's intent makes a hold
\* record, in its own name.
LEMMA DrainIInv ==
  ASSUME IInv, NEW A \in Arrivals, DrainIntents(A)
  PROVE  IInv'
<1> DEFINE fresh == {a.vid : a \in {b \in A : ByOwner(b)}}
           reissued == {v \in DOMAIN hold \ fresh : Bridged(hold[v])}
           owned(v) == [lastFresh |-> tick, cadence |-> ctrls[byVehicle[v]].cadence,
                        grant |-> Grant(byVehicle[v]), ctrlID |-> byVehicle[v]]
           direct(a) == [ctl |-> a.ctl, vid |-> a.vid, held |-> FALSE,
                         grant |-> IF a.ctl \in Attached THEN Grant(a.ctl) ELSE GrantNone]
           again(v) == [ctl |-> hold[v].ctrlID, vid |-> v, held |-> TRUE, grant |-> hold[v].grant]
<1>1. TypeOK /\ RegistryConsistent
  BY DEF IInv
<1>2. \A a \in A : a.ctl \in Attached \union {nobody} /\ a.vid \in Vehicle
  BY <1>1 DEF Arrivals, TypeOK
<1>3. Attached \subseteq Ctl
  BY <1>1, ContractAssumption DEF TypeOK, Ctl
<1>4. \A v \in fresh : v \in Vehicle /\ byVehicle[v] \in Attached
  BY <1>2 DEF ByOwner
<1>5. \A v \in DOMAIN hold : v \in Vehicle /\ hold[v] \in HoldState /\ hold[v].ctrlID = byVehicle[v]
  BY <1>1 DEF TypeOK, RegistryConsistent
<1>6. hold' = [v \in fresh \union reissued |-> IF v \in fresh THEN owned(v) ELSE hold[v]]
  BY DEF DrainIntents
<1>7. \A v \in fresh : owned(v) \in HoldState /\ owned(v).ctrlID = byVehicle[v]
  <2> SUFFICES ASSUME NEW v \in fresh
               PROVE  owned(v) \in HoldState /\ owned(v).ctrlID = byVehicle[v]
    OBVIOUS
  <2>1. ctrls[byVehicle[v]] \in Controller /\ byVehicle[v] \in Ctl /\ tick \in Nat
    BY <1>1, <1>3, <1>4 DEF TypeOK
  <2>2. Grant(byVehicle[v]) \in 0 .. 3
    BY GrantLevelType DEF Grant
  <2> QED
    BY <2>1, <2>2 DEF HoldState, Controller
<1>8. DOMAIN hold' \subseteq Vehicle /\ hold' \in [DOMAIN hold' -> HoldState]
  BY <1>4, <1>5, <1>6, <1>7
<1>9. \A v \in DOMAIN hold' : hold'[v].ctrlID = byVehicle[v]
  BY <1>4, <1>5, <1>6, <1>7
<1>10. /\ Attached' = Attached
       /\ \A x \in Attached : ctrls'[x] \in Controller /\ ctrls'[x].claims = ctrls[x].claims
       /\ ctrls' \in [Attached' -> Controller]
  BY <1>1, ZenonT(40) DEF DrainIntents, Attached, TypeOK, Controller
<1>11. out' \subseteq Issued
  <2>1. \A a \in A : direct(a) \in Issued
    BY <1>2, <1>3, GrantLevelType DEF Issued, Grant, GrantNone
  <2>2. \A v \in reissued : again(v) \in Issued
    BY <1>5 DEF Issued, HoldState
  <2>3. out' = {direct(a) : a \in {b \in A : Passes(b)}} \union {again(v) : v \in reissued}
    BY DEF DrainIntents
  <2> HIDE DEF direct, again, reissued, fresh
  <2> QED
    BY <2>1, <2>2, <2>3
<1> HIDE DEF fresh, reissued, owned, direct, again
<1>12. TypeOK'
  BY <1>1, <1>8, <1>10, <1>11 DEF TypeOK, DrainIntents, world, gate, Attached
<1>13. RegistryConsistent'
  BY <1>1, <1>9, <1>10 DEF RegistryConsistent, DrainIntents, OwnedBy
<1> QED
  BY <1>12, <1>13 DEF IInv

\* AfterStep preserves the invariant: a dead vehicle leaves both views at
\* once, and only vehicles without an owner are announced.
LEMMA AfterStepIInv ==
  ASSUME IInv, AfterStep
  PROVE  IInv'
<1> DEFINE gone == {v \in Vehicle \ live : byVehicle[v] # nobody}
           unclaimed == {v \in live : byVehicle[v] = nobody}
<1>1. TypeOK /\ RegistryConsistent
  BY DEF IInv
<1>2. PICK news \in SUBSET unclaimed :
        /\ byVehicle' = [v \in Vehicle |-> IF v \in gone THEN nobody ELSE byVehicle[v]]
        /\ ctrls' = [c \in Attached |-> [ctrls[c] EXCEPT !.claims = @ \ gone]]
        /\ hold' = Without(hold, gone)
        /\ announced' = (announced \ gone) \union news
  <2>1. News(unclaimed) \in SUBSET unclaimed
    BY DEF News
  <2> QED
    BY <2>1 DEF AfterStep
<1>3. unclaimed \subseteq Vehicle
  BY <1>1 DEF TypeOK
<1>4. /\ Attached' = Attached
      /\ \A x \in Attached : ctrls'[x] \in Controller /\ ctrls'[x].claims = ctrls[x].claims \ gone
      /\ ctrls' \in [Attached' -> Controller]
  BY <1>1, <1>2 DEF Attached, TypeOK, Controller
<1>5. /\ byVehicle' \in [Vehicle -> Ctl \union {nobody}]
      /\ announced' \subseteq Vehicle
      /\ DOMAIN hold' \subseteq Vehicle /\ hold' \in [DOMAIN hold' -> HoldState]
  BY <1>1, <1>2, <1>3 DEF TypeOK, Without
<1>6. deficit' \in Nat /\ escaped' \in BOOLEAN /\ paused' \in BOOLEAN
  BY <1>1 DEF TypeOK, AfterStep, StaysOpen
<1>7. TypeOK'
  BY <1>1, <1>4, <1>5, <1>6 DEF TypeOK, AfterStep, world, Attached
<1>8. \A x \in Attached' : ctrls'[x].claims = OwnedBy(x)'
  <2>1. \A x \in Attached : x \in 1 .. nextID /\ nextID \in Int
    BY <1>1, ContractAssumption DEF TypeOK
  <2>2. \A x \in Attached : x # nobody
    BY <2>1 DEF nobody
  <2>3. \A x \in Attached : OwnedBy(x)' = OwnedBy(x) \ gone
    BY <1>2, <2>2 DEF OwnedBy
  <2> QED
    BY <1>1, <1>4, <2>3 DEF RegistryConsistent
<1>9. \A v \in Vehicle : byVehicle'[v] # nobody => byVehicle'[v] \in Attached' /\ v \notin announced'
  BY <1>1, <1>2, <1>4 DEF RegistryConsistent
<1>10. \A v \in DOMAIN hold' : hold'[v].ctrlID = byVehicle'[v]
  BY <1>1, <1>2 DEF RegistryConsistent, Without, TypeOK
<1> QED
  BY <1>7, <1>8, <1>9, <1>10 DEF IInv, RegistryConsistent

\* Every step of the run loop and of its clients preserves the invariant.
LEMMA NextIInv == IInv /\ [Next]_vars => IInv'
<1> SUFFICES ASSUME IInv, [Next]_vars PROVE IInv'
  OBVIOUS
<1>0. TypeOK /\ RegistryConsistent
  BY DEF IInv
<1>1. ASSUME NEW req \in HelloRequests, NEW V \in SUBSET born, HandleHello(req, V) PROVE IInv'
  BY <1>1, HelloIInv
<1>2. ASSUME NEW c \in Attached, NEW V \in SUBSET born, HandleClaim(c, V) PROVE IInv'
  BY <1>2, ClaimIInv
<1>3. ASSUME NEW c \in Attached, NEW V \in SUBSET born, NEW detach \in BOOLEAN,
             HandleRelease(c, V, detach)
      PROVE  IInv'
  BY <1>3, ReleaseIInv
<1>4. ASSUME NEW c \in Attached, HandleHeartbeat(c) PROVE IInv'
  BY <1>4, HeartbeatIInv
<1>5. CASE LivenessSweep
  BY <1>5, SweepIInv
<1>6. CASE ResumeCheck
  <2>1. TypeOK'
    BY <1>0, <1>6 DEF ResumeCheck, TypeOK, registry, world, Attached
  <2>2. RegistryConsistent'
    BY <1>0, <1>6 DEF ResumeCheck, RegistryConsistent, registry, Attached, OwnedBy
  <2> QED
    BY <2>1, <2>2 DEF IInv
<1>7. CASE Dwell
  <2>1. TypeOK'
    BY <1>0, <1>7 DEF Dwell, TypeOK, registry, world, Attached
  <2>2. RegistryConsistent'
    BY <1>0, <1>7 DEF Dwell, RegistryConsistent, registry, Attached, OwnedBy
  <2> QED
    BY <2>1, <2>2 DEF IInv
<1>8. ASSUME NEW A \in Arrivals, DrainIntents(A) PROVE IInv'
  BY <1>8, DrainIInv
<1>9. ASSUME NEW arrive \in SUBSET (Vehicle \ born), NEW depart \in SUBSET live, Step(arrive, depart)
      PROVE  IInv'
  <2>1. TypeOK'
    BY <1>0, <1>9 DEF Step, TypeOK, registry, gate, Attached
  <2>2. RegistryConsistent'
    BY <1>0, <1>9 DEF Step, RegistryConsistent, registry, Attached, OwnedBy
  <2> QED
    BY <2>1, <2>2 DEF IInv
<1>10. CASE AfterStep
  BY <1>10, AfterStepIInv
<1>11. CASE UNCHANGED vars
  <2>1. TypeOK'
    BY <1>0, <1>11 DEF vars, TypeOK, registry, world, gate, Attached
  <2>2. RegistryConsistent'
    BY <1>0, <1>11 DEF vars, RegistryConsistent, registry, Attached, OwnedBy
  <2> QED
    BY <2>1, <2>2 DEF IInv
<1> QED
  BY <1>1, <1>2, <1>3, <1>4, <1>5, <1>6, <1>7, <1>8, <1>9, <1>10, <1>11 DEF Next, Finished

\* The invariant holds throughout.
LEMMA Invariance == Spec => []IInv
BY InitIInv, NextIInv, PTL DEF Spec

\* TypeOK of the contract holds for every fleet, every request and every
\* setting of the gate and the windows.
THEOREM ContractTypes == Spec => []TypeOK
BY Invariance, PTL DEF IInv

\* The registry and the claim sets never disagree, owners are attached, and a
\* hold record never speaks for a past owner, whatever order requests, sweeps
\* and despawns come in.
THEOREM RegistryStaysConsistent == Spec => []RegistryConsistent
BY Invariance, PTL DEF IInv

\* Claim enforcement: no intent reaches the kernel for a claimed vehicle but
\* from its owner or a director, and no re-issue in the name of a past owner.
THEOREM OnlyOwnersCommandVehicles == Spec => []OnlyOwnersCommand
<1>1. Init => OnlyOwnersCommand
  BY DEF Init, OnlyOwnersCommand
<1>2. ASSUME IInv, OnlyOwnersCommand, [Next]_vars
      PROVE  OnlyOwnersCommand'
  <2>1. ASSUME NEW A \in Arrivals, DrainIntents(A) PROVE OnlyOwnersCommand'
    <3> DEFINE direct(a) == [ctl |-> a.ctl, vid |-> a.vid, held |-> FALSE,
                             grant |-> IF a.ctl \in Attached THEN Grant(a.ctl) ELSE GrantNone]
               again(v) == [ctl |-> hold[v].ctrlID, vid |-> v, held |-> TRUE, grant |-> hold[v].grant]
               allowed(i) == /\ byVehicle[i.vid] # nobody /\ i.grant < GrantDirector
                                  => i.ctl = byVehicle[i.vid]
                             /\ i.held => i.ctl = byVehicle[i.vid]
                             /\ i.ctl # nobody => i.ctl \in Attached
    <3>1. PICK R \in SUBSET DOMAIN hold :
            out' = {direct(a) : a \in {b \in A : Passes(b)}} \union {again(v) : v \in R}
      <4>1. {v \in DOMAIN hold \ {a.vid : a \in {b \in A : ByOwner(b)}} : Bridged(hold[v])}
              \in SUBSET DOMAIN hold
        OBVIOUS
      <4> QED
        BY <2>1, <4>1 DEF DrainIntents
    <3>2. \A a \in A : Passes(a) => allowed(direct(a))
      <4> SUFFICES ASSUME NEW a \in A, Passes(a) PROVE allowed(direct(a))
        OBVIOUS
      <4>1. a.ctl \in Attached \union {nobody}
        BY DEF Arrivals
      <4>2. Grant(a.ctl) \in 0 .. 3
        BY GrantLevelType DEF Grant
      <4> QED
        BY <4>1, <4>2 DEF Passes, ByOwner, GrantDirector
    <3>3. \A v \in R : allowed(again(v))
      BY <1>2 DEF IInv, TypeOK, RegistryConsistent
    <3> HIDE DEF direct, again
    <3>4. \A i \in out' : allowed(i)
      BY <3>1, <3>2, <3>3
    <3>5. byVehicle' = byVehicle /\ Attached' = Attached
      BY <2>1 DEF DrainIntents, Attached
    <3> QED
      BY <3>4, <3>5 DEF OnlyOwnersCommand
  <2>2. CASE UNCHANGED vars
    BY <1>2, <2>2 DEF vars, registry, OnlyOwnersCommand, Attached
  <2>3. CASE Dwell
    BY <1>2, <2>3 DEF Dwell, registry, OnlyOwnersCommand, Attached
  <2>4. ASSUME pc' # "step" PROVE OnlyOwnersCommand'
    BY <2>4 DEF OnlyOwnersCommand
  <2>5. ASSUME NEW req \in HelloRequests, NEW V \in SUBSET born, HandleHello(req, V) PROVE pc' # "step"
    BY <2>5 DEF HandleHello
  <2>6. ASSUME NEW c \in Attached, NEW V \in SUBSET born, HandleClaim(c, V) PROVE pc' # "step"
    BY <2>6 DEF HandleClaim
  <2>7. ASSUME NEW c \in Attached, NEW V \in SUBSET born, NEW detach \in BOOLEAN,
               HandleRelease(c, V, detach)
        PROVE  pc' # "step"
    BY <2>7 DEF HandleRelease
  <2>8. ASSUME NEW c \in Attached, HandleHeartbeat(c) PROVE pc' # "step"
    BY <2>8 DEF HandleHeartbeat
  <2>9. LivenessSweep \/ ResumeCheck \/ AfterStep => pc' # "step"
    BY DEF LivenessSweep, ResumeCheck, AfterStep
  <2>10. ASSUME NEW arrive \in SUBSET (Vehicle \ born), NEW depart \in SUBSET live, Step(arrive, depart)
         PROVE  pc' # "step"
    BY <2>10 DEF Step
  <2> QED
    BY <1>2, <2>1, <2>2, <2>3, <2>4, <2>5, <2>6, <2>7, <2>8, <2>9, <2>10 DEF Next, Finished
<1> QED
  BY <1>1, <1>2, Invariance, PTL DEF Spec

\* A step that changes neither the owners nor who is attached stutters in
\* the lease.
LEMMA LeaseStutter ==
  ASSUME UNCHANGED byVehicle, Attached' = Attached, nextID' = nextID
  PROVE  UNCHANGED Lease!vars
BY DEF Lease!vars, Attached

\* Every step of the contract is a step of the lease or leaves it alone.
LEMMA LeaseStep == IInv /\ [Next]_vars => [Lease!Next]_(Lease!vars)
<1> SUFFICES ASSUME IInv, [Next]_vars PROVE Lease!Next \/ UNCHANGED Lease!vars
  OBVIOUS
<1>0. TypeOK /\ RegistryConsistent /\ Attached \subseteq Ctl
  BY ContractAssumption DEF IInv, TypeOK, Ctl
<1>1. ASSUME NEW req \in HelloRequests, NEW V \in SUBSET born, HandleHello(req, V) PROVE Lease!Next
  <2>1. PICK c \in Nat : c = nextID + 1
    BY <1>0, ContractAssumption DEF TypeOK
  <2>2. c \in Ctl /\ c \notin 1 .. nextID /\ 1 .. nextID' = (1 .. nextID) \union {c}
    BY <1>0, <1>1, <2>1, ContractAssumption DEF HandleHello, TypeOK, Ctl
  <2>3. Claimable(V) \in SUBSET Vehicle /\ \A v \in Claimable(V) : byVehicle[v] = nobody
    BY <1>0 DEF Claimable, TypeOK
  <2>4. Attached' = Attached \union {c}
    BY <1>1, <2>1 DEF HandleHello, With, Attached
  <2>5. byVehicle' = [v \in Vehicle |-> IF v \in Claimable(V) THEN c ELSE byVehicle[v]]
    BY <1>1, <2>1 DEF HandleHello, Claimed
  <2>6. (1 .. nextID') \ Attached' = (1 .. nextID) \ Attached
    BY <1>0, <2>2, <2>4 DEF TypeOK
  <2>7. Lease!Attach(c, Claimable(V))
    BY <1>0, <2>2, <2>3, <2>4, <2>5, <2>6 DEF Lease!Attach, Lease!Free, TypeOK
  <2> QED
    BY <2>2, <2>3, <2>7 DEF Lease!Next
<1>2. ASSUME NEW c \in Attached, NEW V \in SUBSET born, HandleClaim(c, V) PROVE Lease!Next
  <2> DEFINE T == IF Drives(c) THEN Claimable(V) ELSE {}
  <2>1. T \in SUBSET Vehicle /\ \A v \in T : byVehicle[v] = nobody
    BY <1>0 DEF Claimable, TypeOK
  <2>2. Attached' = Attached /\ nextID' = nextID
    BY <1>2 DEF HandleClaim, Attached
  <2>3. byVehicle' = [v \in Vehicle |-> IF v \in T THEN c ELSE byVehicle[v]]
    BY <1>2 DEF HandleClaim, Claimed
  <2> HIDE DEF T
  <2>4. Lease!Take(c, T)
    BY <2>1, <2>2, <2>3 DEF Lease!Take, Lease!Free, Attached
  <2> QED
    BY <1>0, <2>1, <2>4 DEF Lease!Next
<1>3. ASSUME NEW c \in Attached, NEW V \in SUBSET born, NEW detach \in BOOLEAN,
             HandleRelease(c, V, detach)
      PROVE  Lease!Next
  <2> DEFINE listed == OwnedBy(c) \intersect V
  <2>1. CASE detach
    <3>1. Attached' = Attached \ {c} /\ nextID' = nextID
      BY <1>3, <2>1 DEF HandleRelease, Without, Attached
    <3>2. Released(listed \union ctrls[c].claims)
      BY <1>3, <2>1 DEF HandleRelease
    <3>3. listed \union ctrls[c].claims = OwnedBy(c)
      BY <1>0 DEF RegistryConsistent
    <3>4. byVehicle' = [v \in Vehicle |-> IF byVehicle[v] \in {c} THEN nobody ELSE byVehicle[v]]
      BY <3>2, <3>3 DEF Released, OwnedBy
    <3>5. (1 .. nextID') \ Attached' = ((1 .. nextID) \ Attached) \union {c}
      BY <1>0, <3>1 DEF TypeOK
    <3>6. Lease!Leave({c})
      BY <3>1, <3>4, <3>5 DEF Lease!Leave
    <3> QED
      BY <3>6 DEF Lease!Next
  <2>2. CASE ~detach
    <3>1. Attached' = Attached /\ nextID' = nextID
      BY <1>3, <2>2 DEF HandleRelease, Attached
    <3>2. listed \in SUBSET Vehicle
      BY DEF OwnedBy
    <3>3. byVehicle' = [v \in Vehicle |-> IF v \in listed THEN nobody ELSE byVehicle[v]]
      BY <1>3, <2>2 DEF HandleRelease, Released
    <3>4. Lease!Yield(listed)
      BY <3>1, <3>3 DEF Lease!Yield
    <3> QED
      BY <3>2, <3>4 DEF Lease!Next
  <2> QED
    BY <2>1, <2>2
<1>4. ASSUME NEW c \in Attached, HandleHeartbeat(c) PROVE UNCHANGED Lease!vars
  BY <1>4, LeaseStutter DEF HandleHeartbeat, Attached
<1>5. ASSUME LivenessSweep PROVE Lease!Next
  <2> DEFINE R == UNION {ctrls[c].claims : c \in Silent}
  <2>1. Silent \in SUBSET Attached
    BY DEF Silent
  <2>2. \A v \in Vehicle : v \in R <=> byVehicle[v] \in Silent
    BY <1>0, <2>1 DEF RegistryConsistent, OwnedBy
  <2>3. Attached' = Attached \ Silent /\ nextID' = nextID
    BY <1>5, <2>1 DEF LivenessSweep, Without, Attached
  <2>4. byVehicle' = [v \in Vehicle |-> IF byVehicle[v] \in Silent THEN nobody ELSE byVehicle[v]]
    BY <1>5, <2>2 DEF LivenessSweep, Released
  <2>5. (1 .. nextID') \ Attached' = ((1 .. nextID) \ Attached) \union Silent
    BY <1>0, <2>1, <2>3 DEF TypeOK
  <2>6. Lease!Leave(Silent)
    BY <2>3, <2>4, <2>5 DEF Lease!Leave
  <2> QED
    BY <2>1, <2>6 DEF Lease!Next
<1>6. ASSUME ResumeCheck \/ Dwell PROVE UNCHANGED Lease!vars
  BY <1>6, LeaseStutter DEF ResumeCheck, Dwell, registry, Attached
<1>7. ASSUME NEW A \in Arrivals, DrainIntents(A) PROVE UNCHANGED Lease!vars
  BY <1>7, LeaseStutter DEF DrainIntents, Attached
<1>8. ASSUME NEW arrive \in SUBSET (Vehicle \ born), NEW depart \in SUBSET live, Step(arrive, depart)
      PROVE  UNCHANGED Lease!vars
  BY <1>8, LeaseStutter DEF Step, registry, Attached
<1>9. ASSUME AfterStep PROVE Lease!Next
  <2> DEFINE gone == {v \in Vehicle \ live : byVehicle[v] # nobody}
  <2>1. Attached' = Attached /\ nextID' = nextID
    BY <1>9 DEF AfterStep, Attached
  <2>2. byVehicle' = [v \in Vehicle |-> IF v \in gone THEN nobody ELSE byVehicle[v]]
    BY <1>9 DEF AfterStep
  <2>3. Lease!Yield(gone)
    BY <2>1, <2>2 DEF Lease!Yield
  <2>4. gone \in SUBSET Vehicle
    OBVIOUS
  <2> QED
    BY <2>3, <2>4 DEF Lease!Next
<1>10. ASSUME UNCHANGED vars PROVE UNCHANGED Lease!vars
  BY <1>10, LeaseStutter DEF vars, registry, Attached
<1> QED
  BY <1>1, <1>2, <1>3, <1>4, <1>5, <1>6, <1>7, <1>8, <1>9, <1>10 DEF Next, Finished

\* The contract implements the abstract lease: claims are exclusive, pass
\* only through a free state, and leave with their controller.
THEOREM ClaimsAreLeases == Spec => ImplementsLease
<1>1. Init => Lease!Init
  BY DEF Init, Lease!Init, NoEntries, Attached
<1> QED
  BY <1>1, LeaseStep, Invariance, PTL DEF Spec, ImplementsLease, Lease!Spec

-----------------------------------------------------------------------------
(***************************************************************************)
(* Announcements, sweeps and bridges.  Each promise is kept in one handler *)
(* about state that every other handler changes, so a second invariant     *)
(* ties the contract's own books to what happened.                         *)
(***************************************************************************)

\* Past the gate the run is not paused.
GateShut == pc \in {"drain", "step", "after"} => ~paused

\* A vehicle is marked as announced exactly if this spell was published.
Tally == \A v \in Vehicle : told[v] = IF v \in announced THEN 1 ELSE 0

\* The registry's clock of a controller is the last time it was heard.
HeardAsSeen ==
  /\ DOMAIN heard = Attached
  /\ \A c \in Attached : heard[c] = ctrls[c].lastSeen

\* A vehicle driven lately is still held, from the tick it was driven at, for at
\* least HoldLast ticks.
Covered ==
  /\ \A c \in Attached : ctrls[c].cadence >= 1
  /\ \A v \in DOMAIN hold : hold[v].cadence >= 1
  /\ \A v \in DOMAIN drove :
       /\ v \in born /\ drove[v] \in 0 .. tick
       /\ tick - drove[v] <= HoldLast
       /\ pc # "step" => drove[v] < tick
       /\ v \in live => v \in DOMAIN hold /\ hold[v].lastFresh = drove[v]
  /\ BridgeGuaranteed

Books == GateShut /\ Tally /\ HeardAsSeen /\ Covered

LEMMA InitBooks == Init => Books
BY DEF Init, NoEntries, Books, GateShut, Tally, HeardAsSeen, Covered, BridgeGuaranteed, Attached

\* Claims and releases change the mark and the count together.
LEMMA ClaimedTally ==
  ASSUME Tally, NEW c, NEW ctl, NEW V, Claimed(c, ctl, V)
  PROVE  Tally'
BY DEF Tally, Claimed

LEMMA ReleasedTally ==
  ASSUME Tally, NEW V, Released(V)
  PROVE  Tally'
BY DEF Tally, Released

\* What claims and releases do to the records of the vehicles in the air: the
\* owner changes, the tick they were driven at does not.
LEMMA ClaimedHold ==
  ASSUME IInv, NEW c \in Ctl, NEW ctl \in Controller, ctl.cadence >= 1, NEW V, Claimed(c, ctl, V),
         \A v \in DOMAIN hold : hold[v].cadence >= 1
  PROVE  /\ DOMAIN hold' = DOMAIN hold
         /\ \A v \in DOMAIN hold : hold'[v].cadence >= 1 /\ hold'[v].lastFresh = hold[v].lastFresh
<1>1. \A v \in DOMAIN hold : hold[v] \in HoldState
  BY DEF IInv, TypeOK
<1> QED
  BY <1>1 DEF Claimed, HoldState

LEMMA ReleasedHold ==
  ASSUME IInv, NEW V, Released(V), \A v \in DOMAIN hold : hold[v].cadence >= 1
  PROVE  /\ DOMAIN hold' = DOMAIN hold
         /\ \A v \in DOMAIN hold : hold'[v].cadence >= 1 /\ hold'[v].lastFresh = hold[v].lastFresh
<1>1. \A v \in DOMAIN hold : hold[v] \in HoldState
  BY DEF IInv, TypeOK
<1> QED
  BY <1>1 DEF Released, HoldState

\* A step that leaves the world and the records of the vehicles alone, but for
\* their owners, leaves them covered.
LEMMA CoveredStays ==
  ASSUME Covered, UNCHANGED <<world, drove>>, pc # "step", pc' # "step",
         \A c \in Attached' : ctrls'[c].cadence >= 1,
         DOMAIN hold' = DOMAIN hold,
         \A v \in DOMAIN hold : hold'[v].cadence >= 1 /\ hold'[v].lastFresh = hold[v].lastFresh
  PROVE  Covered'
<1>1. BridgeGuaranteed'
  BY DEF BridgeGuaranteed
<1>2. \A v \in DOMAIN hold' : hold'[v].cadence >= 1
  OBVIOUS
<1>3. \A v \in DOMAIN drove' :
         /\ v \in born' /\ drove'[v] \in 0 .. tick'
         /\ tick' - drove'[v] <= HoldLast
         /\ pc' # "step" => drove'[v] < tick'
         /\ v \in live' => v \in DOMAIN hold' /\ hold'[v].lastFresh = drove'[v]
  BY DEF Covered, world
<1> QED
  BY <1>1, <1>2, <1>3 DEF Covered

LEMMA HelloBooks ==
  ASSUME IInv, Books, NEW req \in HelloRequests, NEW V \in SUBSET born, HandleHello(req, V)
  PROVE  Books'
<1>0. TypeOK /\ GateShut /\ Tally /\ HeardAsSeen /\ Covered
  BY DEF IInv, Books
<1>1. PICK c \in Nat : c = nextID + 1
  BY <1>0, ContractAssumption DEF TypeOK
<1> DEFINE T == Claimable(V)
           ctl == [grants |-> req.grants, cadence |-> Cadence(req), capacity |-> req.capacity,
                   claims |-> T, lastSeen |-> tick]
<1>2. c \in Ctl /\ c \notin Attached
  BY <1>0, <1>1, ContractAssumption DEF HandleHello, TypeOK, Ctl
<1>3. ctl \in Controller /\ ctl.cadence >= 1 /\ ctl.lastSeen = tick
  BY <1>0, ContractAssumption DEF Controller, Cadence, TypeOK, Claimable
<1>4. /\ ctrls' = With(ctrls, {c}, ctl) /\ heard' = With(heard, {c}, tick) /\ Claimed(c, ctl, T)
      /\ UNCHANGED <<pc, world, paused, drove>> /\ pc = "control"
  BY <1>1 DEF HandleHello
<1> HIDE DEF T, ctl
<1>5. Attached' = Attached \union {c} /\ \A x \in Attached' : ctrls'[x] = IF x = c THEN ctl ELSE ctrls[x]
  BY <1>4 DEF With, Attached
<1>6. GateShut'
  BY <1>0, <1>4 DEF GateShut
<1>7. Tally'
  BY <1>0, <1>4, ClaimedTally
<1>8. HeardAsSeen'
  BY <1>0, <1>2, <1>3, <1>4, <1>5 DEF HeardAsSeen, With
<1>9. Covered'
  <2>1. \A x \in Attached' : ctrls'[x].cadence >= 1
    BY <1>0, <1>3, <1>5 DEF Covered
  <2>2. /\ DOMAIN hold' = DOMAIN hold
        /\ \A v \in DOMAIN hold : hold'[v].cadence >= 1 /\ hold'[v].lastFresh = hold[v].lastFresh
    BY <1>0, <1>2, <1>3, <1>4, ClaimedHold DEF Covered
  <2> QED
    BY <1>0, <1>4, <2>1, <2>2, CoveredStays
<1> QED
  BY <1>6, <1>7, <1>8, <1>9 DEF Books

LEMMA ClaimBooks ==
  ASSUME IInv, Books, NEW c \in Attached, NEW V \in SUBSET born, HandleClaim(c, V)
  PROVE  Books'
<1>0. TypeOK /\ GateShut /\ Tally /\ HeardAsSeen /\ Covered
  BY DEF IInv, Books
<1>1. c \in Ctl /\ ctrls[c] \in Controller
  BY <1>0, ContractAssumption DEF TypeOK, Ctl
<1>2. PICK T : /\ ctrls' = [ctrls EXCEPT ![c].lastSeen = tick, ![c].claims = @ \union T]
               /\ Claimed(c, ctrls[c], T)
  BY DEF HandleClaim
<1>3. UNCHANGED <<pc, world, paused, drove>> /\ pc = "control" /\ heard' = [heard EXCEPT ![c] = tick]
  BY DEF HandleClaim, gate
<1>4. \A x \in Attached : ctrls[x] \in Controller
  BY <1>0 DEF TypeOK
<1>5. /\ Attached' = Attached
      /\ \A x \in Attached : /\ ctrls'[x].cadence = ctrls[x].cadence
                             /\ ctrls'[x].lastSeen = IF x = c THEN tick ELSE ctrls[x].lastSeen
  BY <1>2, <1>4 DEF Attached, Controller
<1>6. GateShut'
  BY <1>0, <1>3 DEF GateShut
<1>7. Tally'
  BY <1>0, <1>2, ClaimedTally
<1>8. HeardAsSeen'
  BY <1>0, <1>3, <1>5 DEF HeardAsSeen
<1>9. Covered'
  <2>1. \A x \in Attached' : ctrls'[x].cadence >= 1
    BY <1>0, <1>5 DEF Covered
  <2>2. /\ DOMAIN hold' = DOMAIN hold
        /\ \A v \in DOMAIN hold : hold'[v].cadence >= 1 /\ hold'[v].lastFresh = hold[v].lastFresh
    BY <1>0, <1>1, <1>2, ClaimedHold DEF Covered
  <2> QED
    BY <1>0, <1>3, <2>1, <2>2, CoveredStays
<1> QED
  BY <1>6, <1>7, <1>8, <1>9 DEF Books

LEMMA ReleaseBooks ==
  ASSUME IInv, Books, NEW c \in Attached, NEW V \in SUBSET born, NEW detach \in BOOLEAN,
         HandleRelease(c, V, detach)
  PROVE  Books'
<1>0. TypeOK /\ GateShut /\ Tally /\ HeardAsSeen /\ Covered
  BY DEF IInv, Books
<1>1. UNCHANGED <<pc, world, paused, drove>> /\ pc = "control"
  BY DEF HandleRelease, gate
<1>2. PICK R : Released(R)
  BY DEF HandleRelease
<1>3. \A x \in Attached : ctrls[x] \in Controller
  BY <1>0 DEF TypeOK
<1>4. (\A x \in Attached' : ctrls'[x].cadence >= 1) /\ HeardAsSeen'
  <2>1. CASE detach
    <3>1. ctrls' = Without(ctrls, {c}) /\ heard' = Without(heard, {c})
      BY <2>1 DEF HandleRelease
    <3>2. Attached' = Attached \ {c} /\ \A x \in Attached' : ctrls'[x] = ctrls[x]
      BY <3>1 DEF Without, Attached
    <3>3. HeardAsSeen'
      BY <1>0, <3>1, <3>2 DEF HeardAsSeen, Without
    <3> QED
      BY <1>0, <3>2, <3>3 DEF Covered
  <2>2. CASE ~detach
    <3>1. PICK L : ctrls' = [ctrls EXCEPT ![c].lastSeen = tick, ![c].claims = @ \ L]
      BY <2>2 DEF HandleRelease
    <3>2. heard' = [heard EXCEPT ![c] = tick]
      BY <2>2 DEF HandleRelease
    <3>3. /\ Attached' = Attached
          /\ \A x \in Attached : /\ ctrls'[x].cadence = ctrls[x].cadence
                                 /\ ctrls'[x].lastSeen = IF x = c THEN tick ELSE ctrls[x].lastSeen
      BY <1>3, <3>1 DEF Attached, Controller
    <3>4. HeardAsSeen'
      BY <1>0, <3>2, <3>3 DEF HeardAsSeen
    <3> QED
      BY <1>0, <3>3, <3>4 DEF Covered
  <2> QED
    BY <2>1, <2>2
<1>5. GateShut'
  BY <1>0, <1>1 DEF GateShut
<1>6. Tally'
  BY <1>0, <1>2, ReleasedTally
<1>7. /\ DOMAIN hold' = DOMAIN hold
      /\ \A v \in DOMAIN hold : hold'[v].cadence >= 1 /\ hold'[v].lastFresh = hold[v].lastFresh
  BY <1>0, <1>2, ReleasedHold DEF Covered
<1>8. Covered'
  BY <1>0, <1>1, <1>4, <1>7, CoveredStays
<1> QED
  BY <1>4, <1>5, <1>6, <1>8 DEF Books

LEMMA HeartbeatBooks ==
  ASSUME IInv, Books, NEW c \in Attached, HandleHeartbeat(c)
  PROVE  Books'
<1>0. TypeOK /\ GateShut /\ Tally /\ HeardAsSeen /\ Covered
  BY DEF IInv, Books
<1>1. /\ UNCHANGED <<pc, world, paused, drove, announced, told, hold>> /\ pc = "control"
      /\ ctrls' = [ctrls EXCEPT ![c].lastSeen = tick] /\ heard' = [heard EXCEPT ![c] = tick]
  BY DEF HandleHeartbeat, gate
<1>2. \A x \in Attached : ctrls[x] \in Controller
  BY <1>0 DEF TypeOK
<1>3. /\ Attached' = Attached
      /\ \A x \in Attached : /\ ctrls'[x].cadence = ctrls[x].cadence
                             /\ ctrls'[x].lastSeen = IF x = c THEN tick ELSE ctrls[x].lastSeen
  BY <1>1, <1>2 DEF Attached, Controller
<1>4. GateShut' /\ Tally'
  BY <1>0, <1>1 DEF GateShut, Tally
<1>5. HeardAsSeen'
  BY <1>0, <1>1, <1>3 DEF HeardAsSeen
<1>6. Covered'
  <2>1. \A x \in Attached' : ctrls'[x].cadence >= 1
    BY <1>0, <1>3 DEF Covered
  <2>2. \A v \in DOMAIN hold : hold'[v].cadence >= 1 /\ hold'[v].lastFresh = hold[v].lastFresh
    BY <1>0, <1>1 DEF Covered
  <2> QED
    BY <1>0, <1>1, <2>1, <2>2, CoveredStays
<1> QED
  BY <1>4, <1>5, <1>6 DEF Books

LEMMA SweepBooks ==
  ASSUME IInv, Books, LivenessSweep
  PROVE  Books'
<1>0. TypeOK /\ GateShut /\ Tally /\ HeardAsSeen /\ Covered
  BY DEF IInv, Books
<1>1. /\ UNCHANGED <<world, paused, drove>> /\ pc = "control" /\ pc' = "resume"
      /\ ctrls' = Without(ctrls, Silent) /\ heard' = Without(heard, Silent)
  BY DEF LivenessSweep, gate
<1>2. PICK R : Released(R)
  BY DEF LivenessSweep
<1>3. Attached' = Attached \ Silent /\ \A x \in Attached' : ctrls'[x] = ctrls[x]
  BY <1>1 DEF Without, Attached
<1>4. GateShut'
  BY <1>1 DEF GateShut
<1>5. Tally'
  BY <1>0, <1>2, ReleasedTally
<1>6. HeardAsSeen'
  BY <1>0, <1>1, <1>3 DEF HeardAsSeen, Without
<1>7. Covered'
  <2>1. \A x \in Attached' : ctrls'[x].cadence >= 1
    BY <1>0, <1>3 DEF Covered
  <2>2. /\ DOMAIN hold' = DOMAIN hold
        /\ \A v \in DOMAIN hold : hold'[v].cadence >= 1 /\ hold'[v].lastFresh = hold[v].lastFresh
    BY <1>0, <1>2, ReleasedHold DEF Covered
  <2> QED
    BY <1>0, <1>1, <2>1, <2>2, CoveredStays
<1> QED
  BY <1>4, <1>5, <1>6, <1>7 DEF Books

\* The drain: a vehicle driven at an earlier tick is inside its window, because the
\* window is never shorter than HoldLast, and so is re-issued if nobody drives it.
LEMMA DrainBooks ==
  ASSUME IInv, Books, NEW A \in Arrivals, DrainIntents(A)
  PROVE  Books'
<1>0. TypeOK /\ GateShut /\ Tally /\ HeardAsSeen /\ Covered
  BY DEF IInv, Books
<1> DEFINE fresh == {a.vid : a \in {b \in A : ByOwner(b)}}
           reissued == {v \in DOMAIN hold \ fresh : Bridged(hold[v])}
           owned(v) == [lastFresh |-> tick, cadence |-> ctrls[byVehicle[v]].cadence,
                        grant |-> Grant(byVehicle[v]), ctrlID |-> byVehicle[v]]
           direct(a) == [ctl |-> a.ctl, vid |-> a.vid, held |-> FALSE,
                         grant |-> IF a.ctl \in Attached THEN Grant(a.ctl) ELSE GrantNone]
           again(v) == [ctl |-> hold[v].ctrlID, vid |-> v, held |-> TRUE, grant |-> hold[v].grant]
<1>1. pc = "drain" /\ pc' = "step" /\ UNCHANGED <<world, byVehicle, announced, gate, told>>
  BY DEF DrainIntents
<1>2. hold' = [v \in fresh \union reissued |-> IF v \in fresh THEN owned(v) ELSE hold[v]]
  BY DEF DrainIntents
<1>3. out' = {direct(a) : a \in {b \in A : Passes(b)}} \union {again(v) : v \in reissued}
  BY DEF DrainIntents
<1>4. /\ ctrls' = [c \in Attached |->
                     IF c \in Senders(A) THEN [ctrls[c] EXCEPT !.lastSeen = tick] ELSE ctrls[c]]
      /\ heard' = [c \in Attached |-> IF \E a \in A : a.ctl = c THEN tick ELSE heard[c]]
      /\ drove' = With(drove, fresh, tick)
  BY DEF DrainIntents
<1>5. \A v \in fresh : v \in born /\ byVehicle[v] \in Attached
  BY DEF Arrivals, ByOwner
<1>6. /\ \A v \in fresh : \E i \in out' : i.vid = v
      /\ \A v \in reissued : \E i \in out' : i.vid = v
  <2>1. ASSUME NEW v \in fresh PROVE \E i \in out' : i.vid = v
    <3>1. PICK a \in A : ByOwner(a) /\ a.vid = v
      OBVIOUS
    <3>2. Passes(a)
      BY <3>1 DEF Passes
    <3>3. direct(a) \in out' /\ direct(a).vid = v
      BY <1>3, <3>1, <3>2
    <3> QED
      BY <3>3
  <2>2. ASSUME NEW v \in reissued PROVE \E i \in out' : i.vid = v
    <3>1. again(v) \in out' /\ again(v).vid = v
      BY <1>3
    <3> QED
      BY <3>1
  <2> QED
    BY <2>1, <2>2
<1>7. \A v \in DOMAIN hold \ fresh : v \in reissued <=> Bridged(hold[v])
  OBVIOUS
<1>8. \A v \in fresh : owned(v).lastFresh = tick /\ owned(v).cadence >= 1
  BY <1>0, <1>5 DEF Covered
<1>9. reissued \subseteq DOMAIN hold
  OBVIOUS
<1> HIDE DEF fresh, reissued, owned, direct, again
<1>10. \A v \in DOMAIN drove : v \in live /\ v \notin fresh => v \in reissued
  <2> SUFFICES ASSUME NEW v \in DOMAIN drove, v \in live, v \notin fresh PROVE v \in reissued
    OBVIOUS
  <2>1. v \in DOMAIN hold /\ hold[v].lastFresh = drove[v] /\ hold[v].cadence >= 1
    BY <1>0 DEF Covered
  <2>2. drove[v] \in 0 .. tick /\ tick - drove[v] <= HoldLast /\ drove[v] < tick /\ tick \in Nat
    BY <1>0, <1>1 DEF Covered, TypeOK
  <2>3. hold[v].cadence \in Nat /\ HoldLast \in Nat
    BY <1>0, <2>1, ContractAssumption DEF TypeOK, HoldState
  <2>4. Bridged(hold[v])
    BY <2>1, <2>2, <2>3 DEF Bridged, Window
  <2> QED
    BY <1>7, <2>1, <2>4
<1>11. \A v \in DOMAIN drove' : drove'[v] = (IF v \in fresh THEN tick ELSE drove[v])
                              /\ (v \in fresh \/ v \in DOMAIN drove)
  BY <1>4 DEF With
<1>12. GateShut' /\ Tally'
  BY <1>0, <1>1 DEF GateShut, Tally, gate
<1>13. HeardAsSeen'
  <2>1. \A x \in Attached : ctrls[x] \in Controller
    BY <1>0 DEF TypeOK
  <2>2. \A c \in Attached : c \in Senders(A) <=> \E a \in A : a.ctl = c
    BY DEF Senders
  <2> QED
    BY <1>0, <1>4, <2>1, <2>2 DEF HeardAsSeen, Attached, Controller
<1>14. Covered'
  <2>1. \A c \in Attached' : ctrls'[c].cadence >= 1
    <3>1. \A x \in Attached : ctrls[x] \in Controller
      BY <1>0 DEF TypeOK
    <3> QED
      BY <1>0, <1>4, <3>1 DEF Covered, Attached, Controller
  <2>2. \A v \in DOMAIN hold' : hold'[v].cadence >= 1
    BY <1>0, <1>2, <1>8, <1>9 DEF Covered
  <2>3. ASSUME NEW v \in DOMAIN drove'
        PROVE  /\ v \in born' /\ drove'[v] \in 0 .. tick'
               /\ tick' - drove'[v] <= HoldLast
               /\ pc' # "step" => drove'[v] < tick'
               /\ v \in live' => v \in DOMAIN hold' /\ hold'[v].lastFresh = drove'[v]
    <3>1. tick' = tick /\ live' = live /\ born' = born /\ tick \in Nat /\ HoldLast \in Nat
      BY <1>0, <1>1, ContractAssumption DEF world, TypeOK
    <3>2. CASE v \in fresh
      <4>1. drove'[v] = tick
        BY <1>11, <3>2
      <4>2. v \in DOMAIN hold' /\ hold'[v].lastFresh = tick
        BY <1>2, <1>8, <3>2
      <4> QED
        BY <1>1, <1>5, <3>1, <3>2, <4>1, <4>2
    <3>3. CASE v \notin fresh
      <4>1. v \in DOMAIN drove /\ drove'[v] = drove[v]
        BY <1>11, <3>3
      <4>2. v \in live => v \in DOMAIN hold' /\ hold'[v] = hold[v]
        BY <1>2, <1>10, <3>3, <4>1
      <4> QED
        BY <1>0, <1>1, <3>1, <4>1, <4>2 DEF Covered
    <3> QED
      BY <3>2, <3>3
  <2>4. BridgeGuaranteed'
    <3> SUFFICES ASSUME NEW v \in live' \intersect DOMAIN drove' PROVE \E i \in out' : i.vid = v
      BY DEF BridgeGuaranteed
    <3>1. v \in live
      BY <1>1 DEF world
    <3> QED
      BY <1>6, <1>10, <1>11, <3>1
  <2> QED
    BY <2>1, <2>2, <2>3, <2>4 DEF Covered
<1> QED
  BY <1>12, <1>13, <1>14 DEF Books

LEMMA StepBooks ==
  ASSUME IInv, Books, NEW arrive \in SUBSET (Vehicle \ born), NEW depart \in SUBSET live,
         Step(arrive, depart)
  PROVE  Books'
<1>0. TypeOK /\ GateShut /\ Tally /\ HeardAsSeen /\ Covered
  BY DEF IInv, Books
<1>1. /\ pc = "step" /\ pc' = "after" /\ UNCHANGED <<ctrls, hold, announced, paused, heard, told>>
      /\ tick' = tick + 1 /\ live' = (live \ depart) \union arrive /\ born' = born \union arrive
  BY DEF Step, registry, gate
<1>2. GateShut' /\ Tally' /\ HeardAsSeen'
  BY <1>0, <1>1 DEF GateShut, Tally, HeardAsSeen, Attached
<1>3. Covered'
  <2>1. \A v \in DOMAIN drove' : /\ v \in DOMAIN drove /\ v \notin depart /\ drove'[v] = drove[v]
                                 /\ ~(tick + 1 - drove[v] > HoldLast)
    BY DEF Step, Without
  <2>2. tick \in Nat /\ HoldLast \in Nat
    BY <1>0, ContractAssumption DEF TypeOK
  <2>3. ASSUME NEW v \in DOMAIN drove'
        PROVE  /\ v \in born' /\ drove'[v] \in 0 .. tick'
               /\ tick' - drove'[v] <= HoldLast
               /\ pc' # "step" => drove'[v] < tick'
               /\ v \in live' => v \in DOMAIN hold' /\ hold'[v].lastFresh = drove'[v]
    <3>1. v \in DOMAIN drove /\ drove'[v] = drove[v] /\ tick + 1 - drove[v] <= HoldLast
      BY <1>0, <2>1, <2>2 DEF Covered
    <3>2. drove[v] \in 0 .. tick /\ v \in born
      BY <1>0, <3>1 DEF Covered
    <3>3. v \in live' => v \in live
      BY <1>1, <3>2
    <3> QED
      BY <1>0, <1>1, <2>2, <3>1, <3>2, <3>3 DEF Covered
  <2>4. BridgeGuaranteed'
    BY <1>1 DEF BridgeGuaranteed
  <2> QED
    BY <1>0, <1>1, <2>3, <2>4 DEF Covered, Attached
<1> QED
  BY <1>2, <1>3 DEF Books

LEMMA AfterStepBooks ==
  ASSUME IInv, Books, AfterStep
  PROVE  Books'
<1>0. TypeOK /\ RegistryConsistent /\ GateShut /\ Tally /\ HeardAsSeen /\ Covered
  BY DEF IInv, Books
<1> DEFINE gone == {v \in Vehicle \ live : byVehicle[v] # nobody}
           news == News({v \in live : byVehicle[v] = nobody})
<1>1. /\ pc = "after" /\ pc' \in {"control", "done"} /\ UNCHANGED <<world, heard, drove>>
      /\ ctrls' = [c \in Attached |-> [ctrls[c] EXCEPT !.claims = @ \ gone]]
      /\ hold' = Without(hold, gone)
      /\ announced' = (announced \ gone) \union news
      /\ told' = [v \in Vehicle |-> IF v \in news THEN told[v] + 1 ELSE told[v]]
  BY DEF AfterStep
<1>2. news \intersect announced = {} /\ gone \intersect announced = {} /\ gone \intersect live = {}
  BY <1>0 DEF News, RegistryConsistent
<1> HIDE DEF gone, news
<1>3. GateShut'
  BY <1>1 DEF GateShut
<1>4. Tally'
  BY <1>0, <1>1, <1>2 DEF Tally
<1>5. /\ Attached' = Attached
      /\ \A x \in Attached : /\ ctrls'[x].cadence = ctrls[x].cadence
                             /\ ctrls'[x].lastSeen = ctrls[x].lastSeen
  <2>1. \A x \in Attached : ctrls[x] \in Controller
    BY <1>0 DEF TypeOK
  <2> QED
    BY <1>1, <2>1 DEF Attached, Controller
<1>6. HeardAsSeen'
  BY <1>0, <1>1, <1>5 DEF HeardAsSeen
<1>7. Covered'
  <2>1. DOMAIN hold' = DOMAIN hold \ gone /\ \A v \in DOMAIN hold' : hold'[v] = hold[v]
    BY <1>1 DEF Without
  <2>2. ASSUME NEW v \in DOMAIN drove'
        PROVE  /\ v \in born' /\ drove'[v] \in 0 .. tick'
               /\ tick' - drove'[v] <= HoldLast
               /\ pc' # "step" => drove'[v] < tick'
               /\ v \in live' => v \in DOMAIN hold' /\ hold'[v].lastFresh = drove'[v]
    BY <1>0, <1>1, <1>2, <2>1 DEF Covered, world
  <2>3. BridgeGuaranteed'
    BY <1>1 DEF BridgeGuaranteed
  <2>4. \A v \in DOMAIN hold' : hold'[v].cadence >= 1
    BY <1>0, <2>1 DEF Covered
  <2>5. \A c \in Attached' : ctrls'[c].cadence >= 1
    BY <1>0, <1>5 DEF Covered
  <2> QED
    BY <2>2, <2>3, <2>4, <2>5 DEF Covered
<1> QED
  BY <1>3, <1>4, <1>6, <1>7 DEF Books

LEMMA NextBooks == IInv /\ Books /\ [Next]_vars => Books'
<1> SUFFICES ASSUME IInv, Books, [Next]_vars PROVE Books'
  OBVIOUS
<1>1. ASSUME NEW req \in HelloRequests, NEW V \in SUBSET born, HandleHello(req, V) PROVE Books'
  BY <1>1, HelloBooks
<1>2. ASSUME NEW c \in Attached, NEW V \in SUBSET born, HandleClaim(c, V) PROVE Books'
  BY <1>2, ClaimBooks
<1>3. ASSUME NEW c \in Attached, NEW V \in SUBSET born, NEW detach \in BOOLEAN,
             HandleRelease(c, V, detach)
      PROVE  Books'
  BY <1>3, ReleaseBooks
<1>4. ASSUME NEW c \in Attached, HandleHeartbeat(c) PROVE Books'
  BY <1>4, HeartbeatBooks
<1>5. CASE LivenessSweep
  BY <1>5, SweepBooks
<1>6. CASE ResumeCheck
  <2>1. GateShut' /\ Tally' /\ HeardAsSeen'
    BY <1>6 DEF ResumeCheck, Books, GateShut, Tally, HeardAsSeen, registry, Attached
  <2>2. Covered'
    BY <1>6 DEF ResumeCheck, Books, Covered, BridgeGuaranteed, registry, world, Attached
  <2> QED
    BY <2>1, <2>2 DEF Books
<1>7. CASE Dwell
  <2>1. GateShut' /\ Tally' /\ HeardAsSeen'
    BY <1>7 DEF Dwell, Books, GateShut, Tally, HeardAsSeen, registry, history, Attached
  <2>2. Covered'
    BY <1>7 DEF Dwell, Books, Covered, BridgeGuaranteed, registry, world, history, Attached
  <2> QED
    BY <2>1, <2>2 DEF Books
<1>8. ASSUME NEW A \in Arrivals, DrainIntents(A) PROVE Books'
  BY <1>8, DrainBooks
<1>9. ASSUME NEW arrive \in SUBSET (Vehicle \ born), NEW depart \in SUBSET live, Step(arrive, depart)
      PROVE  Books'
  BY <1>9, StepBooks
<1>10. CASE AfterStep
  BY <1>10, AfterStepBooks
<1>11. CASE UNCHANGED vars
  <2>1. GateShut' /\ Tally' /\ HeardAsSeen'
    BY <1>11 DEF vars, Books, GateShut, Tally, HeardAsSeen, registry, gate, history, Attached
  <2>2. Covered'
    BY <1>11 DEF vars, Books, Covered, BridgeGuaranteed, registry, world, history, Attached
  <2> QED
    BY <2>1, <2>2 DEF Books
<1> QED
  BY <1>1, <1>2, <1>3, <1>4, <1>5, <1>6, <1>7, <1>8, <1>9, <1>10, <1>11 DEF Next, Finished

LEMMA BooksInvariance == Spec => [](IInv /\ Books)
BY InitIInv, NextIInv, InitBooks, NextBooks, PTL DEF Spec

\* ObsBridgeTicks, for every cadence, HoldLast and history of the claim: a live
\* vehicle driven at most HoldLast ticks ago has an intent at this boundary.
THEOREM DrivenVehiclesStayBridged == Spec => []BridgeGuaranteed
<1>1. Books => BridgeGuaranteed
  BY DEF Books, Covered
<1> QED
  BY <1>1, BooksInvariance, PTL

\* AfterStep announces every spell without an owner once while a driver listens,
\* and no interleaving of claims, releases, sweeps and despawns announces it twice.
THEOREM SpellsAreAnnouncedOnce == Spec => AnnouncedOnce
<1>1. ASSUME IInv, Books, IInv', Books', [Next]_vars
      PROVE  [ /\ \A v \in Vehicle : told'[v] <= 1
               /\ pc = "after" /\ Listening =>
                    \A v \in live : byVehicle'[v] = nobody => told'[v] = 1 ]_vars
  <2>1. \A v \in Vehicle : told'[v] <= 1
    BY <1>1 DEF Books, Tally
  <2>2. ASSUME pc = "after", Listening, vars' # vars, NEW v \in live, byVehicle'[v] = nobody
        PROVE  told'[v] = 1
    <3>1. AfterStep
      <4>1. ~Dwell
        BY <1>1, <2>2 DEF Dwell, Books, GateShut
      <4> QED
        BY <1>1, <2>2, <4>1
        DEF Next, HandleHello, HandleClaim, HandleRelease, HandleHeartbeat, LivenessSweep,
            ResumeCheck, DrainIntents, Step, Finished
    <3>2. v \in Vehicle
      BY <1>1 DEF IInv, TypeOK
    <3>3. byVehicle[v] = nobody
      BY <2>2, <3>1, <3>2 DEF AfterStep
    <3>4. v \in announced'
      BY <2>2, <3>1, <3>3 DEF AfterStep, News
    <3> QED
      BY <1>1, <3>2, <3>4 DEF Books, Tally
  <2> QED
    BY <2>1, <2>2
<1> QED
  BY <1>1, BooksInvariance, PTL DEF Spec, AnnouncedOnce

\* LivenessSweep drops only controllers not heard from for longer than
\* DetachAfterTicks, whichever handler took their last message.
THEOREM SweepsOnlyTheSilent == Spec => SweptOnlyIfSilent
<1>1. ASSUME IInv, Books, [Next]_vars
      PROVE  [ pc = "control" /\ pc' = "resume" =>
                 \A c \in Attached \ DOMAIN ctrls' : tick - heard[c] > DetachAfter ]_vars
  <2>1. ASSUME pc = "control", pc' = "resume", NEW c \in Attached \ DOMAIN ctrls'
        PROVE  tick - heard[c] > DetachAfter
    <3>1. LivenessSweep
      BY <1>1, <2>1
      DEF Next, HandleHello, HandleClaim, HandleRelease, HandleHeartbeat, Dwell,
          ResumeCheck, DrainIntents, Step, AfterStep, Finished, vars
    <3>2. c \in Silent
      BY <2>1, <3>1 DEF LivenessSweep, Without, Attached
    <3> QED
      BY <1>1, <3>2 DEF Silent, Books, HeardAsSeen
  <2> QED
    BY <2>1
<1> QED
  BY <1>1, BooksInvariance, PTL DEF Spec, SweptOnlyIfSilent
==============================================================================
