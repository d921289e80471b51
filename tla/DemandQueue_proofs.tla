------------------------- MODULE DemandQueue_proofs -------------------------
(***************************************************************************)
(* Proofs about the demand of a run, for any program of arrivals, any      *)
(* number of directors, any lead, hold window and density cap.             *)
(*                                                                         *)
(* Every promise counts how often an arrival is in a queue.  The first     *)
(* lemmas say how that count changes when an arrival joins a queue at the  *)
(* back, leaves it at the front, or when one queue is put behind another.  *)
(***************************************************************************)
EXTENDS DemandQueue, FiniteSetTheorems, FunctionTheorems, SequenceTheorems, TLAPS

-----------------------------------------------------------------------------
(* Counting. *)

Places(q, id) == {i \in DOMAIN q : q[i] = id}

\* A queue holds an arrival a finite number of times.
LEMMA PlacesFinite ==
    ASSUME NEW S, NEW q \in Seq(S), NEW id
    PROVE  /\ IsFiniteSet(Places(q, id))
           /\ Times(q, id) = Cardinality(Places(q, id))
           /\ Times(q, id) \in Nat
<1>1. IsFiniteSet(1..Len(q)) BY FS_Interval
<1>2. Places(q, id) \subseteq 1..Len(q) BY DEF Places
<1>3. IsFiniteSet(Places(q, id)) BY <1>1, <1>2, FS_Subset
<1>4. Times(q, id) = Cardinality(Places(q, id)) BY DEF Times, Places
<1> QED BY <1>3, <1>4, FS_CardinalityType

\* Counted at least once is the same as being somewhere in the queue.
LEMMA TimesPositive ==
    ASSUME NEW S, NEW q \in Seq(S), NEW id
    PROVE  Times(q, id) > 0 <=> \E i \in 1..Len(q) : q[i] = id
<1>1. Cardinality(Places(q, id)) = 0 <=> Places(q, id) = {} BY PlacesFinite, FS_EmptySet
<1>2. Places(q, id) = {} <=> ~\E i \in 1..Len(q) : q[i] = id BY DEF Places
<1> QED BY <1>1, <1>2, PlacesFinite

\* Nothing is in the empty queue.
LEMMA TimesEmpty == ASSUME NEW id PROVE Times(<<>>, id) = 0
<1>1. Places(<<>>, id) = {} BY DEF Places
<1>2. Times(<<>>, id) = Cardinality(Places(<<>>, id)) BY DEF Times, Places
<1> QED BY <1>1, <1>2, FS_EmptySet

\* An arrival that joins at the back is counted once more, any other as before.
LEMMA TimesAppend ==
    ASSUME NEW S, NEW q \in Seq(S), NEW e \in S, NEW id
    PROVE  Times(Append(q, e), id) = Times(q, id) + (IF e = id THEN 1 ELSE 0)
<1> DEFINE n == Len(q) + 1
           r == Append(q, e)
<1>1. r \in Seq(S) /\ Len(r) = n /\ r[n] = e /\ \A i \in 1..Len(q) : r[i] = q[i]
  BY AppendProperties
<1>2. n \notin Places(q, id) BY DEF Places
<1>3. CASE e = id
  <2>1. Places(r, id) = Places(q, id) \cup {n} BY <1>1, <1>3 DEF Places
  <2>2. Cardinality(Places(r, id)) = Cardinality(Places(q, id)) + 1
    BY <2>1, <1>2, PlacesFinite, FS_AddElement
  <2> QED BY <2>2, <1>1, <1>3, PlacesFinite
<1>4. CASE e # id
  <2>1. Places(r, id) = Places(q, id) BY <1>1, <1>4 DEF Places
  <2>2. Times(r, id) = Cardinality(Places(r, id)) BY DEF Times, Places
  <2>3. Times(q, id) = Cardinality(Places(q, id)) /\ Times(q, id) \in Nat BY PlacesFinite
  <2> QED BY <2>1, <2>2, <2>3, <1>4
<1> QED BY <1>3, <1>4

\* A set of positions keeps its size when every position moves by the same distance.
LEMMA ShiftedSize ==
    ASSUME NEW A, NEW B, IsFiniteSet(A), A \subseteq Int, B \subseteq Int, NEW k \in Int,
           \A i \in A : i + k \in B,
           \A j \in B : j - k \in A
    PROVE  IsFiniteSet(B) /\ Cardinality(B) = Cardinality(A)
<1> DEFINE F == [i \in A |-> i + k]
<1>1. F \in [A -> B] OBVIOUS
<1>2. \A a, b \in A : F[a] = F[b] => a = b OBVIOUS
<1>3. \A t \in B : \E s \in A : F[s] = t
  <2> TAKE t \in B
  <2>1. t - k \in A /\ F[t - k] = t OBVIOUS
  <2> QED BY <2>1
<1> HIDE DEF F
<1>4. F \in Bijection(A, B) BY <1>1, <1>2, <1>3, Fun_IsBij
<1>5. ExistsBijection(A, B) BY <1>4, Fun_ExistsBij
<1> QED BY <1>5, FS_Bijection

\* One queue behind another: the counts add up.
LEMMA TimesConcat ==
    ASSUME NEW S, NEW p \in Seq(S), NEW q \in Seq(S), NEW id
    PROVE  Times(p \o q, id) = Times(p, id) + Times(q, id)
<1> DEFINE r == p \o q
           k == Len(p)
           B == {j \in 1..Len(r) : j > k /\ r[j] = id}
<1>1. /\ r \in Seq(S) /\ Len(r) = k + Len(q) /\ k \in Nat /\ Len(q) \in Nat
      /\ \A i \in 1..Len(r) : r[i] = IF i <= k THEN p[i] ELSE q[i - k]
  BY ConcatProperties, LenProperties
<1>2. IsFiniteSet(Places(p, id)) /\ IsFiniteSet(Places(q, id)) BY PlacesFinite
<1>3. IsFiniteSet(B) /\ Cardinality(B) = Cardinality(Places(q, id))
  <2>1. Places(q, id) \subseteq Int /\ B \subseteq Int BY <1>1 DEF Places
  <2>2. \A i \in Places(q, id) : i + k \in B
    <3> TAKE i \in Places(q, id)
    <3>1. i \in 1..Len(q) /\ q[i] = id BY DEF Places
    <3>2. i + k \in 1..Len(r) /\ i + k > k /\ (i + k) - k = i BY <1>1, <3>1
    <3>3. r[i + k] = q[i] BY <1>1, <3>2
    <3> QED BY <3>1, <3>2, <3>3
  <2>3. \A j \in B : j - k \in Places(q, id)
    <3> TAKE j \in B
    <3>1. j \in 1..Len(r) /\ j > k /\ r[j] = id OBVIOUS
    <3>2. j - k \in 1..Len(q) /\ r[j] = q[j - k] BY <1>1, <3>1
    <3> QED BY <3>1, <3>2 DEF Places
  <2> DEFINE A == Places(q, id)
  <2> HIDE DEF A, B, k
  <2>4. IsFiniteSet(A) /\ A \subseteq Int /\ B \subseteq Int /\ k \in Int
    BY <1>1, <1>2, <2>1 DEF A
  <2>5. (\A i \in A : i + k \in B) /\ (\A j \in B : j - k \in A) BY <2>2, <2>3 DEF A
  <2>6. IsFiniteSet(B) /\ Cardinality(B) = Cardinality(A) BY <2>4, <2>5, ShiftedSize
  <2> QED BY <2>6 DEF A
<1>4. Places(r, id) = Places(p, id) \cup B
  <2>1. DOMAIN r = 1..Len(r) /\ DOMAIN p = 1..k BY <1>1
  <2>2. \A i : i \in Places(r, id) <=> i \in Places(p, id) \/ i \in B
    BY <1>1, <2>1 DEF Places
  <2> HIDE DEF B
  <2> QED BY <2>2
<1>5. Places(p, id) \cap B = {} BY DEF Places
<1> HIDE DEF B
<1>6. Cardinality(Places(r, id)) = Cardinality(Places(p, id)) + Cardinality(B) - Cardinality({})
  BY <1>2, <1>3, <1>4, <1>5, FS_Union
<1>7. Times(r, id) = Cardinality(Places(r, id)) BY DEF Times, Places
<1> QED BY <1>3, <1>6, <1>7, PlacesFinite, FS_EmptySet

\* The arrival that leaves at the front is counted once less, any other as before.
LEMMA TimesTail ==
    ASSUME NEW S, NEW q \in Seq(S), q # <<>>, NEW id
    PROVE  /\ Tail(q) \in Seq(S) /\ Head(q) \in S
           /\ Times(q, id) = Times(Tail(q), id) + (IF Head(q) = id THEN 1 ELSE 0)
<1>1. Tail(q) \in Seq(S) /\ Head(q) \in S BY HeadTailProperties
<1> DEFINE h == Head(q)
           none == <<>>
           front == Append(none, h)
<1>2. front \in Seq(S) /\ none \in Seq(S) BY <1>1
<1>3. q = front \o Tail(q) OBVIOUS
<1>4. Times(none, id) = 0 BY TimesEmpty
<1> HIDE DEF h, front, none
<1>5. Times(q, id) = Times(front, id) + Times(Tail(q), id) BY <1>1, <1>2, <1>3, TimesConcat, ZenonT(40)
<1>6. h \in S BY <1>1 DEF h
<1>7. Times(front, id) = Times(none, id) + (IF h = id THEN 1 ELSE 0)
  BY <1>2, <1>6, TimesAppend DEF front
<1>8. Times(Tail(q), id) \in Nat BY <1>1, PlacesFinite
<1> QED BY <1>1, <1>4, <1>5, <1>7, <1>8 DEF h

-----------------------------------------------------------------------------
(* The invariant. *)

DemandTypes ==
    /\ clock \in 0..LastTick /\ stepping \in BOOLEAN /\ road \in Nat
    /\ started \subseteq Director /\ known \subseteq started /\ clean \subseteq Director
    /\ pos \in [Director -> [Flow -> Nat]]
    /\ wire \in [Director -> Seq(Ids)]
    /\ answered \in [Ids -> {"unseen", "accepted", "rejected"}]
    /\ dirNew \in Seq(Ids) /\ dirQueue \in Seq(Ids) /\ todo \in Seq(Ids)
    /\ injected \in [Ids -> Nat] /\ expired \in [Ids -> Nat]

\* Between two steps nothing is left to try.
Tried == ~stepping => todo = <<>>

\* A director that was never started has sent nothing; one the contract never
\* swept is one it still knows.
Attached ==
    \A c \in Director :
        /\ c \notin started => wire[c] = <<>> /\ \A f \in Flow : pos[c][f] = 0
        /\ c \in clean /\ c \in started => c \in known

\* The contract turns down an arrival of a known director only when the kernel
\* would have refused it whoever had sent it.
RefusedForGood == \A id \in Ids : answered[id] = "rejected" => id[1] \in Bad

IInv == DemandTypes /\ Tried /\ Attached /\ RefusedForGood /\ AccountedFor /\ RestartMakesGood

-----------------------------------------------------------------------------
(* Every action keeps it. *)

\* What a flow owes next has a request id.
LEMMA OwedIsAnId ==
    ASSUME DemandTypes, NEW c \in Director, NEW f \in Flow, pos[c][f] < Len(Arrivals[f])
    PROVE  Request(c, f) \in Ids
<1>1. pos[c][f] \in Nat BY DEF DemandTypes
<1>2. Len(Arrivals[f]) \in Nat /\ Len(Arrivals[f]) <= LastTick /\ LastTick \in Nat
  BY ArrivalsAssumption, NumbersAssumption
<1>3. pos[c][f] + 1 \in 1..LastTick /\ pos[c][f] + 1 <= Len(Arrivals[f]) BY <1>1, <1>2
<1> QED BY <1>3 DEF Request, Ids

\* An arrival that is in the buffer or in the queue was accepted.
LEMMA QueuedIsAccepted ==
    ASSUME IInv, NEW id \in Ids, IsQueued(id)
    PROVE  answered[id] = "accepted"
<1>1. dirNew \in Seq(Ids) /\ dirQueue \in Seq(Ids) /\ todo \in Seq(Ids)
  BY DEF IInv, DemandTypes
<1>2. Times(dirNew, id) > 0 \/ Times(dirQueue, id) > 0
  <2>1. \/ \E i \in 1..Len(dirNew) : dirNew[i] = id
        \/ \E i \in 1..Len(dirQueue) : dirQueue[i] = id
    BY <1>1 DEF IsQueued
  <2> QED BY <2>1, <1>1, TimesPositive
<1>3. /\ Times(dirNew, id) \in Nat /\ Times(dirQueue, id) \in Nat /\ Times(todo, id) \in Nat
      /\ injected[id] \in Nat /\ expired[id] \in Nat
  BY <1>1, PlacesFinite DEF IInv, DemandTypes
<1>4. Times(dirNew, id) + Times(dirQueue, id) + Times(todo, id) + injected[id] + expired[id]
          = IF answered[id] = "accepted" THEN 1 ELSE 0
  BY DEF IInv, AccountedFor
<1> QED BY <1>2, <1>3, <1>4

\* A step of the kernel touches neither the directors nor the answers.
LEMMA KernelLeavesDirectors ==
    ASSUME IInv, UNCHANGED <<clean, started, pos, wire, known, answered>>
    PROVE  Attached' /\ RefusedForGood' /\ RestartMakesGood'
<1>1. Attached' BY DEF IInv, Attached
<1>2. RefusedForGood' BY DEF IInv, RefusedForGood
<1>3. RestartMakesGood' BY DEF IInv, RestartMakesGood, Times
<1> QED BY <1>1, <1>2, <1>3

\* Nothing a director does reaches the queue.
LEMMA DirectorsLeaveQueue ==
    ASSUME IInv, UNCHANGED <<answered, queueVars>>
    PROVE  Tried' /\ RefusedForGood' /\ AccountedFor'
<1> USE DEF queueVars
<1>1. Tried' BY DEF IInv, Tried
<1>2. RefusedForGood' BY DEF IInv, RefusedForGood
<1>3. AccountedFor' BY DEF IInv, AccountedFor, Times
<1> QED BY <1>1, <1>2, <1>3

LEMMA AttachDirectorKeeps ==
    ASSUME IInv, NEW c \in Director, AttachDirector(c)
    PROVE  IInv'
<1> USE DEF AttachDirector
<1>1. DemandTypes' BY DEF IInv, DemandTypes, queueVars
<1>2. Tried' /\ RefusedForGood' /\ AccountedFor' BY DirectorsLeaveQueue
<1>3. Attached' BY DEF IInv, DemandTypes, Attached
<1>4. RestartMakesGood' BY DEF IInv, RestartMakesGood, Times
<1> QED BY <1>1, <1>2, <1>3, <1>4 DEF IInv

LEMMA SweepDirectorKeeps ==
    ASSUME IInv, NEW c \in Director, SweepDirector(c)
    PROVE  IInv'
<1> USE DEF SweepDirector
<1>1. DemandTypes' BY DEF IInv, DemandTypes, queueVars
<1>2. Tried' /\ RefusedForGood' /\ AccountedFor' BY DirectorsLeaveQueue
<1>3. Attached' BY DEF IInv, DemandTypes, Attached
<1>4. RestartMakesGood' BY DEF IInv, RestartMakesGood, Times
<1> QED BY <1>1, <1>2, <1>3, <1>4 DEF IInv

\* The verb that is sent joins the wire, and the ids before it stay made good.
LEMMA SendKeeps ==
    ASSUME IInv, NEW c \in Director, NEW f \in Flow, Send(c, f)
    PROVE  IInv'
<1> DEFINE id == Request(c, f)
<1>1. id \in Ids BY OwedIsAnId DEF IInv, Send, Owes
<1>2. DemandTypes' BY <1>1 DEF IInv, DemandTypes, queueVars, Send
<1>3. Tried' /\ RefusedForGood' /\ AccountedFor' BY DirectorsLeaveQueue DEF Send
<1>4. Attached' BY DEF IInv, DemandTypes, Attached, Send
<1>5. RestartMakesGood'
  <2> SUFFICES ASSUME NEW d \in Director, d \in clean', NEW x \in Ids,
                      x[1] \notin Bad, x[2] <= pos'[d][x[1]]
               PROVE  answered'[x] = "accepted" \/ Times(wire'[d], x) > 0
    BY <1>2 DEF RestartMakesGood, DemandTypes
  <2>1. clean' = clean /\ answered' = answered BY DEF Send
  <2>2. CASE d # c
    <3>1. wire'[d] = wire[d] /\ pos'[d] = pos[d] BY <2>2 DEF Send, IInv, DemandTypes
    <3>2. answered[x] = "accepted" \/ Times(wire[d], x) > 0
      BY <2>1, <3>1 DEF IInv, RestartMakesGood
    <3> QED BY <2>1, <3>1, <3>2
  <2>3. CASE d = c
    <3>1. wire[c] \in Seq(Ids) /\ wire'[c] = Append(wire[c], id)
      BY DEF Send, IInv, DemandTypes
    <3> HIDE DEF id
    <3>2. Times(wire'[c], x) = Times(wire[c], x) + (IF id = x THEN 1 ELSE 0)
      BY <1>1, <3>1, TimesAppend
    <3>3. Times(wire[c], x) \in Nat BY <3>1, PlacesFinite
    <3>4. CASE x = id BY <2>3, <3>2, <3>3, <3>4
    <3>5. CASE x # id
      <4>1. x[1] \in Flow /\ x[2] \in Nat /\ x = <<x[1], x[2]>> BY NumbersAssumption DEF Ids
      <4>2. x[2] <= pos[c][x[1]]
        <5>1. pos[c] \in [Flow -> Nat] BY DEF IInv, DemandTypes
        <5>2. pos'[c][x[1]] = IF x[1] = f THEN pos[c][f] + 1 ELSE pos[c][x[1]]
          BY <4>1, <5>1 DEF Send, IInv, DemandTypes
        <5>3. x[1] = f => x[2] # pos[c][f] + 1 BY <3>5, <4>1 DEF id, Request
        <5> QED BY <2>3, <4>1, <5>1, <5>2, <5>3
      <4>3. answered[x] = "accepted" \/ Times(wire[c], x) > 0
        BY <2>1, <2>3, <4>2 DEF IInv, RestartMakesGood
      <4> QED BY <2>1, <2>3, <3>2, <3>3, <3>5, <4>3
    <3> QED BY <3>4, <3>5
  <2> QED BY <2>2, <2>3
<1> QED BY <1>2, <1>3, <1>4, <1>5 DEF IInv

\* A director whose verb is lost is no longer one that lost none.
LEMMA LoseKeeps ==
    ASSUME IInv, NEW c \in Director, Lose(c)
    PROVE  IInv'
<1>1. wire[c] \in Seq(Ids) /\ wire[c] # <<>> BY DEF IInv, DemandTypes, Lose
<1>2. Tail(wire[c]) \in Seq(Ids) BY <1>1, TimesTail
<1>3. DemandTypes' BY <1>2 DEF IInv, DemandTypes, queueVars, Lose
<1>4. Tried' /\ RefusedForGood' /\ AccountedFor' BY DirectorsLeaveQueue DEF Lose
<1>5. Attached' BY <1>1 DEF IInv, DemandTypes, Attached, Lose
<1>6. RestartMakesGood'
  <2> SUFFICES ASSUME NEW d \in Director, d \in clean', NEW x \in Ids,
                      x[1] \notin Bad, x[2] <= pos'[d][x[1]]
               PROVE  answered'[x] = "accepted" \/ Times(wire'[d], x) > 0
    BY <1>3 DEF RestartMakesGood, DemandTypes
  <2>1. d \in clean /\ wire'[d] = wire[d] /\ pos' = pos /\ answered' = answered
    BY DEF Lose, IInv, DemandTypes
  <2> QED BY <2>1 DEF IInv, RestartMakesGood
<1> QED BY <1>3, <1>4, <1>5, <1>6 DEF IInv

-----------------------------------------------------------------------------
(* The contract's answer. *)

\* A new arrival of a known director is accepted unless the kernel refuses it.
LEMMA HandleVerbAnswers ==
    ASSUME IInv, NEW c \in Director, HandleVerb(c)
    PROVE  LET id == Head(wire[c]) IN
           /\ id \in Ids
           /\ \/ /\ Accepts(c, id)
                 /\ answered' = [answered EXCEPT ![id] = "accepted"]
                 /\ dirNew' = Append(dirNew, id)
              \/ /\ Answers(c, id) /\ id[1] \in Bad
                 /\ answered' = [answered EXCEPT ![id] = "rejected"]
                 /\ dirNew' = dirNew
              \/ /\ ~Answers(c, id)
                 /\ answered' = answered
                 /\ dirNew' = dirNew
<1> DEFINE id == Head(wire[c])
<1>1. wire[c] \in Seq(Ids) /\ wire[c] # <<>> BY DEF IInv, DemandTypes, HandleVerb
<1>2. id \in Ids BY <1>1, TimesTail
<1>3. Accepts(c, id) => ~IsQueued(id)
  <2>1. answered[id] = "accepted" => answered[id] # "unseen" OBVIOUS
  <2> QED BY <1>2, <2>1, QueuedIsAccepted DEF Accepts
<1>4. Accepts(c, id) <=> Answers(c, id) /\ id[1] \notin Bad BY DEF Accepts, Answers
<1>5. /\ answered' = IF Accepts(c, id) THEN [answered EXCEPT ![id] = "accepted"]
                     ELSE IF Answers(c, id) THEN [answered EXCEPT ![id] = "rejected"]
                     ELSE answered
      /\ dirNew' = IF Accepts(c, id) THEN Append(dirNew, id) ELSE dirNew
  BY <1>3 DEF HandleVerb
<1> HIDE DEF id
<1>6. \/ /\ Accepts(c, id)
         /\ answered' = [answered EXCEPT ![id] = "accepted"]
         /\ dirNew' = Append(dirNew, id)
      \/ /\ Answers(c, id) /\ id[1] \in Bad
         /\ answered' = [answered EXCEPT ![id] = "rejected"]
         /\ dirNew' = dirNew
      \/ /\ ~Answers(c, id)
         /\ answered' = answered
         /\ dirNew' = dirNew
  <2>1. CASE Accepts(c, id) BY <2>1, <1>5
  <2>2. CASE ~Accepts(c, id) /\ Answers(c, id) BY <2>2, <1>4, <1>5
  <2>3. CASE ~Answers(c, id) BY <2>3, <1>4, <1>5
  <2> QED BY <2>1, <2>2, <2>3
<1> QED BY <1>2, <1>6 DEF id

LEMMA HandleVerbTypes ==
    ASSUME IInv, NEW c \in Director, HandleVerb(c)
    PROVE  DemandTypes' /\ Tried' /\ Attached'
<1> DEFINE id == Head(wire[c])
<1>1. wire[c] \in Seq(Ids) /\ wire[c] # <<>> BY DEF IInv, DemandTypes, HandleVerb
<1>2. Tail(wire[c]) \in Seq(Ids) /\ id \in Ids BY <1>1, TimesTail
<1>3. answered' \in [Ids -> {"unseen", "accepted", "rejected"}]
  BY <1>2, HandleVerbAnswers DEF IInv, DemandTypes
<1>4. dirNew' \in Seq(Ids)
  <2>1. dirNew \in Seq(Ids) BY DEF IInv, DemandTypes
  <2>2. dirNew' = dirNew \/ dirNew' = Append(dirNew, id) BY HandleVerbAnswers
  <2> HIDE DEF id
  <2> QED BY <1>2, <2>1, <2>2, AppendProperties
<1>5. wire' \in [Director -> Seq(Ids)] BY <1>2 DEF HandleVerb, IInv, DemandTypes
<1>6. DemandTypes' BY <1>3, <1>4, <1>5 DEF IInv, DemandTypes, HandleVerb
<1>7. Tried' BY DEF IInv, Tried, HandleVerb
<1>8. Attached' BY <1>1 DEF IInv, DemandTypes, Attached, HandleVerb
<1> QED BY <1>6, <1>7, <1>8

LEMMA HandleVerbKeeps ==
    ASSUME IInv, NEW c \in Director, HandleVerb(c)
    PROVE  IInv'
<1> DEFINE id == Head(wire[c])
<1>1. wire[c] \in Seq(Ids) /\ wire[c] # <<>> BY DEF IInv, DemandTypes, HandleVerb
<1>2. id \in Ids BY <1>1, TimesTail
<1>3. DemandTypes' /\ Tried' /\ Attached' BY HandleVerbTypes
<1>4. answered \in [Ids -> {"unseen", "accepted", "rejected"}] /\ dirNew \in Seq(Ids)
  BY DEF IInv, DemandTypes
<1>5. RefusedForGood'
  BY <1>2, <1>4, HandleVerbAnswers DEF IInv, RefusedForGood
<1>6. AccountedFor'
  <2> SUFFICES ASSUME NEW x \in Ids
               PROVE  Times(dirNew', x) + Times(dirQueue, x) + Times(todo, x)
                          + injected[x] + expired[x]
                        = IF answered'[x] = "accepted" THEN 1 ELSE 0
    BY DEF AccountedFor, HandleVerb, Times
  <2>1. Times(dirNew, x) + Times(dirQueue, x) + Times(todo, x) + injected[x] + expired[x]
          = IF answered[x] = "accepted" THEN 1 ELSE 0
    BY DEF IInv, AccountedFor
  <2>2. /\ Times(dirNew, x) \in Nat /\ Times(dirQueue, x) \in Nat /\ Times(todo, x) \in Nat
        /\ injected[x] \in Nat /\ expired[x] \in Nat
    BY PlacesFinite DEF IInv, DemandTypes
  <2>3. CASE /\ Accepts(c, id)
             /\ answered' = [answered EXCEPT ![id] = "accepted"]
             /\ dirNew' = Append(dirNew, id)
    <3>1. answered[id] # "accepted" BY <2>3 DEF Accepts
    <3>2. answered'[x] = IF x = id THEN "accepted" ELSE answered[x] BY <1>4, <2>3
    <3> HIDE DEF id
    <3>3. Times(dirNew', x) = Times(dirNew, x) + (IF id = x THEN 1 ELSE 0)
      BY <1>2, <1>4, <2>3, TimesAppend
    <3>4. CASE x = id BY <2>1, <2>2, <3>1, <3>2, <3>3, <3>4
    <3>5. CASE x # id BY <2>1, <2>2, <3>2, <3>3, <3>5
    <3> QED BY <3>4, <3>5
  <2>4. CASE /\ Answers(c, id) /\ answered' = [answered EXCEPT ![id] = "rejected"]
             /\ dirNew' = dirNew
    <3>1. answered[id] # "accepted" BY <2>4 DEF Answers
    <3>2. answered'[x] = "accepted" <=> answered[x] = "accepted" BY <1>2, <1>4, <2>4, <3>1
    <3> QED BY <2>1, <2>4, <3>2
  <2>5. CASE answered' = answered /\ dirNew' = dirNew BY <2>1, <2>5
  <2> QED BY <2>3, <2>4, <2>5, HandleVerbAnswers
<1>7. RestartMakesGood'
  <2> SUFFICES ASSUME NEW d \in Director, d \in clean, NEW x \in Ids,
                      x[1] \notin Bad, x[2] <= pos[d][x[1]]
               PROVE  answered'[x] = "accepted" \/ Times(wire'[d], x) > 0
    BY DEF RestartMakesGood, HandleVerb, IInv, DemandTypes
  <2>1. answered[x] = "accepted" \/ Times(wire[d], x) > 0 BY DEF IInv, RestartMakesGood
  <2>2. answered[x] = "accepted" => answered'[x] = "accepted"
    BY <1>2, <1>4, HandleVerbAnswers DEF Accepts, Answers
  <2>3. CASE d # c
    <3>1. wire'[d] = wire[d] BY <2>3 DEF HandleVerb, IInv, DemandTypes
    <3> QED BY <2>1, <2>2, <3>1
  <2>4. CASE d = c /\ x # id
    <3>1. wire'[d] = Tail(wire[c]) BY <2>4 DEF HandleVerb, IInv, DemandTypes
    <3>2. Times(wire[c], x) = Times(Tail(wire[c]), x) + (IF Head(wire[c]) = x THEN 1 ELSE 0)
      BY <1>1, TimesTail
    <3>3. Tail(wire[c]) \in Seq(Ids) BY <1>1, TimesTail
    <3>4. Times(Tail(wire[c]), x) \in Nat BY <3>3, PlacesFinite
    <3>5. Times(wire[c], x) = Times(Tail(wire[c]), x) BY <2>4, <3>2, <3>4
    <3> QED BY <2>1, <2>2, <2>4, <3>1, <3>5
  <2>5. CASE d = c /\ x = id
    <3>1. c \in known BY <1>1, <2>5 DEF IInv, Attached
    <3>2. answered[x] # "rejected" BY DEF IInv, RefusedForGood
    <3>3. CASE answered[x] = "unseen"
      <4>1. Accepts(c, id) /\ Answers(c, id) BY <2>5, <3>1, <3>3 DEF Accepts, Answers
      <4>2. answered' = [answered EXCEPT ![id] = "accepted"] BY <2>5, <4>1, HandleVerbAnswers
      <4> QED BY <1>2, <1>4, <2>5, <4>2
    <3> QED BY <1>4, <2>2, <3>2, <3>3
  <2> QED BY <2>3, <2>4, <2>5
<1> QED BY <1>3, <1>5, <1>6, <1>7 DEF IInv

-----------------------------------------------------------------------------
(* The kernel's step. *)

\* The buffer goes behind the queue, and the two become what the step has to try.
LEMMA StartStepKeeps ==
    ASSUME IInv, StartStep
    PROVE  IInv'
<1>1. /\ dirNew \in Seq(Ids) /\ dirQueue \in Seq(Ids) /\ todo = <<>>
      /\ injected \in [Ids -> Nat] /\ expired \in [Ids -> Nat]
  BY DEF IInv, DemandTypes, Tried, StartStep
<1>2. DemandTypes'
  <2>1. dirQueue \o dirNew \in Seq(Ids) BY <1>1, ConcatProperties
  <2>2. clock' \in 0..LastTick BY NumbersAssumption DEF IInv, DemandTypes, StartStep
  <2> QED BY <2>1, <2>2 DEF IInv, DemandTypes, StartStep
<1>3. Tried' BY DEF Tried, StartStep
<1>4. Attached' /\ RefusedForGood' /\ RestartMakesGood' BY KernelLeavesDirectors DEF StartStep
<1>5. AccountedFor'
  <2> SUFFICES ASSUME NEW x \in Ids
               PROVE  Times(<<>>, x) + Times(<<>>, x) + Times(dirQueue \o dirNew, x)
                          + injected[x] + expired[x]
                        = IF answered[x] = "accepted" THEN 1 ELSE 0
    BY DEF AccountedFor, StartStep, Times
  <2>1. Times(dirNew, x) + Times(dirQueue, x) + Times(todo, x) + injected[x] + expired[x]
          = IF answered[x] = "accepted" THEN 1 ELSE 0
    BY DEF IInv, AccountedFor
  <2>2. Times(dirQueue \o dirNew, x) = Times(dirQueue, x) + Times(dirNew, x)
    BY <1>1, TimesConcat
  <2>3. Times(<<>>, x) = 0 /\ Times(todo, x) = 0 BY <1>1, TimesEmpty
  <2>4. /\ Times(dirNew, x) \in Nat /\ Times(dirQueue, x) \in Nat
        /\ injected[x] \in Nat /\ expired[x] \in Nat
    BY <1>1, PlacesFinite
  <2> QED BY <2>1, <2>2, <2>3, <2>4
<1> QED BY <1>2, <1>3, <1>4, <1>5 DEF IInv

LEMMA EndStepKeeps ==
    ASSUME IInv, EndStep
    PROVE  IInv'
<1>1. DemandTypes'
  <2>1. road' \in Nat BY DEF IInv, DemandTypes, EndStep
  <2>2. UNCHANGED <<clock, started, pos, wire, known, answered, dirNew, dirQueue, todo,
                    injected, expired, clean>> /\ stepping' = FALSE
    BY DEF EndStep
  <2> QED BY <2>1, <2>2 DEF IInv, DemandTypes
<1>2. Tried' BY DEF Tried, EndStep
<1>3. Attached' /\ RefusedForGood' /\ RestartMakesGood' BY KernelLeavesDirectors DEF EndStep
<1>4. AccountedFor' BY DEF IInv, AccountedFor, EndStep, Times
<1> QED BY <1>1, <1>2, <1>3, <1>4 DEF IInv

\* The directive that is tried leaves what is left to try by one.
LEMMA TryingTakesOne ==
    ASSUME IInv, NEW id \in Ids, Trying(id)
    PROVE  /\ todo' \in Seq(Ids)
           /\ \A x \in Ids : Times(todo, x) = Times(todo', x) + (IF id = x THEN 1 ELSE 0)
<1>1. todo \in Seq(Ids) /\ todo # <<>> /\ id = Head(todo) /\ todo' = Tail(todo)
  BY DEF IInv, DemandTypes, Trying
<1>2. Tail(todo) \in Seq(Ids) BY <1>1, TimesTail
<1>3. ASSUME NEW x \in Ids
      PROVE  Times(todo, x) = Times(Tail(todo), x) + (IF Head(todo) = x THEN 1 ELSE 0)
  BY <1>1, TimesTail
<1> QED BY <1>1, <1>2, <1>3

\* What is counted of one arrival before an attempt.
LEMMA CountedBefore ==
    ASSUME IInv, NEW x \in Ids
    PROVE  /\ Times(dirNew, x) \in Nat /\ Times(dirQueue, x) \in Nat /\ Times(todo, x) \in Nat
           /\ injected[x] \in Nat /\ expired[x] \in Nat
           /\ Times(dirNew, x) + Times(dirQueue, x) + Times(todo, x) + injected[x] + expired[x]
                = IF answered[x] = "accepted" THEN 1 ELSE 0
<1>1. dirNew \in Seq(Ids) /\ dirQueue \in Seq(Ids) /\ todo \in Seq(Ids)
  BY DEF IInv, DemandTypes
<1>2. injected[x] \in Nat /\ expired[x] \in Nat BY DEF IInv, DemandTypes
<1>3. Times(dirNew, x) + Times(dirQueue, x) + Times(todo, x) + injected[x] + expired[x]
        = IF answered[x] = "accepted" THEN 1 ELSE 0
  BY DEF IInv, AccountedFor
<1> QED BY <1>1, <1>2, <1>3, PlacesFinite

LEMMA KeptKeeps ==
    ASSUME IInv, NEW id \in Ids, Kept(id)
    PROVE  IInv'
<1>1. todo' \in Seq(Ids) BY TryingTakesOne DEF Kept
<1>2. DemandTypes' BY <1>1 DEF IInv, DemandTypes, Kept
<1>3. Tried' BY DEF Tried, Kept, Trying
<1>4. Attached' /\ RefusedForGood' /\ RestartMakesGood' BY KernelLeavesDirectors DEF Kept
<1>5. AccountedFor'
  <2> SUFFICES ASSUME NEW x \in Ids
               PROVE  Times(dirNew, x) + Times(dirQueue', x) + Times(todo', x)
                          + injected[x] + expired[x]
                        = IF answered[x] = "accepted" THEN 1 ELSE 0
    BY DEF AccountedFor, Kept, Times
  <2>1. Times(todo, x) = Times(todo', x) + (IF id = x THEN 1 ELSE 0)
    BY TryingTakesOne DEF Kept
  <2>2. dirQueue \in Seq(Ids) /\ dirQueue' = Append(dirQueue, id)
    BY DEF IInv, DemandTypes, Kept
  <2>3. Times(dirQueue', x) = Times(dirQueue, x) + (IF id = x THEN 1 ELSE 0)
    BY <2>2, TimesAppend
  <2>4. Times(todo', x) \in Nat BY <1>1, PlacesFinite
  <2> QED BY <2>1, <2>3, <2>4, CountedBefore
<1> QED BY <1>2, <1>3, <1>4, <1>5 DEF IInv

LEMMA ExpireKeeps ==
    ASSUME IInv, NEW id \in Ids, Expire(id)
    PROVE  IInv'
<1>1. todo' \in Seq(Ids) BY TryingTakesOne DEF Expire
<1>2. DemandTypes' BY <1>1 DEF IInv, DemandTypes, Expire
<1>3. Tried' BY DEF Tried, Expire, Trying
<1>4. Attached' /\ RefusedForGood' /\ RestartMakesGood' BY KernelLeavesDirectors DEF Expire
<1>5. AccountedFor'
  <2> SUFFICES ASSUME NEW x \in Ids
               PROVE  Times(dirNew, x) + Times(dirQueue, x) + Times(todo', x)
                          + injected[x] + expired'[x]
                        = IF answered[x] = "accepted" THEN 1 ELSE 0
    BY DEF AccountedFor, Expire, Times
  <2>1. Times(todo, x) = Times(todo', x) + (IF id = x THEN 1 ELSE 0)
    BY TryingTakesOne DEF Expire
  <2>2. expired'[x] = expired[x] + (IF id = x THEN 1 ELSE 0)
    BY CountedBefore DEF IInv, DemandTypes, Expire
  <2>3. Times(todo', x) \in Nat BY <1>1, PlacesFinite
  <2> QED BY <2>1, <2>2, <2>3, CountedBefore
<1> QED BY <1>2, <1>3, <1>4, <1>5 DEF IInv

LEMMA InjectKeeps ==
    ASSUME IInv, NEW id \in Ids, Inject(id)
    PROVE  IInv'
<1>1. todo' \in Seq(Ids) BY TryingTakesOne DEF Inject
<1>2. DemandTypes' BY <1>1 DEF IInv, DemandTypes, Inject
<1>3. Tried' BY DEF Tried, Inject, Trying
<1>4. Attached' /\ RefusedForGood' /\ RestartMakesGood' BY KernelLeavesDirectors DEF Inject
<1>5. AccountedFor'
  <2> SUFFICES ASSUME NEW x \in Ids
               PROVE  Times(dirNew, x) + Times(dirQueue, x) + Times(todo', x)
                          + injected'[x] + expired[x]
                        = IF answered[x] = "accepted" THEN 1 ELSE 0
    BY DEF AccountedFor, Inject, Times
  <2>1. Times(todo, x) = Times(todo', x) + (IF id = x THEN 1 ELSE 0)
    BY TryingTakesOne DEF Inject
  <2>2. injected'[x] = injected[x] + (IF id = x THEN 1 ELSE 0)
    <3>1. injected' = [injected EXCEPT ![id] = @ + 1] BY DEF Inject
    <3>2. injected \in [Ids -> Nat] BY DEF IInv, DemandTypes
    <3> QED BY <3>1, <3>2
  <2>3. Times(todo', x) \in Nat BY <1>1, PlacesFinite
  <2> QED BY <2>1, <2>2, <2>3, CountedBefore
<1> QED BY <1>2, <1>3, <1>4, <1>5 DEF IInv

-----------------------------------------------------------------------------
(* The theorems. *)

LEMMA InitHolds == DemandInit => IInv
<1> SUFFICES ASSUME DemandInit PROVE IInv OBVIOUS
<1> USE DEF DemandInit
<1>1. DemandTypes
  <2>1. clock \in 0..LastTick BY NumbersAssumption
  <2>2. wire \in [Director -> Seq(Ids)] OBVIOUS
  <2>3. pos \in [Director -> [Flow -> Nat]] OBVIOUS
  <2>4. answered \in [Ids -> {"unseen", "accepted", "rejected"}] OBVIOUS
  <2>5. injected \in [Ids -> Nat] /\ expired \in [Ids -> Nat] OBVIOUS
  <2>6. /\ stepping \in BOOLEAN /\ road \in Nat /\ started = {} /\ known = {}
        /\ clean = Director /\ dirNew = <<>> /\ dirQueue = <<>> /\ todo = <<>>
    OBVIOUS
  <2>7. <<>> \in Seq(Ids) OBVIOUS
  <2> HIDE DEF DemandInit
  <2> QED BY <2>1, <2>2, <2>3, <2>4, <2>5, <2>6, <2>7 DEF DemandTypes
<1>2. Tried /\ Attached /\ RefusedForGood BY DEF Tried, Attached, RefusedForGood
<1>3. AccountedFor
  <2>1. \A id \in Ids : answered[id] = "unseen" /\ injected[id] = 0 /\ expired[id] = 0 OBVIOUS
  <2>2. dirNew = <<>> /\ dirQueue = <<>> /\ todo = <<>> OBVIOUS
  <2> QED BY <2>1, <2>2, TimesEmpty DEF AccountedFor
<1>4. RestartMakesGood
  <2>1. \A id \in Ids : id[1] \in Flow /\ id[2] \in 1..LastTick BY DEF Ids
  <2>2. \A c \in Director, f \in Flow : pos[c][f] = 0 OBVIOUS
  <2> QED BY <2>1, <2>2 DEF RestartMakesGood
<1> QED BY <1>1, <1>2, <1>3, <1>4 DEF IInv

LEMMA StepHolds == IInv /\ [DemandNext]_demandVars => IInv'
<1> SUFFICES ASSUME IInv, [DemandNext]_demandVars PROVE IInv' OBVIOUS
<1>1. CASE StartStep BY <1>1, StartStepKeeps
<1>2. CASE EndStep BY <1>2, EndStepKeeps
<1>3. ASSUME NEW id \in Ids, Kept(id) PROVE IInv' BY <1>3, KeptKeeps
<1>4. ASSUME NEW id \in Ids, Expire(id) PROVE IInv' BY <1>4, ExpireKeeps
<1>5. ASSUME NEW id \in Ids, Inject(id) PROVE IInv' BY <1>5, InjectKeeps
<1>6. ASSUME NEW c \in Director, AttachDirector(c) PROVE IInv' BY <1>6, AttachDirectorKeeps
<1>7. ASSUME NEW c \in Director, NEW f \in Flow, Send(c, f) PROVE IInv' BY <1>7, SendKeeps
<1>8. ASSUME NEW c \in Director, Lose(c) PROVE IInv' BY <1>8, LoseKeeps
<1>9. ASSUME NEW c \in Director, SweepDirector(c) PROVE IInv' BY <1>9, SweepDirectorKeeps
<1>10. ASSUME NEW c \in Director, HandleVerb(c) PROVE IInv' BY <1>10, HandleVerbKeeps
<1>11. CASE UNCHANGED demandVars
  <2>1. UNCHANGED <<answered, queueVars>> /\ UNCHANGED <<clean, started, pos, wire, known>>
    BY <1>11 DEF demandVars, queueVars
  <2>2. DemandTypes' BY <2>1 DEF IInv, DemandTypes, queueVars
  <2> QED BY <2>1, <2>2, DirectorsLeaveQueue, KernelLeavesDirectors DEF IInv
<1> QED
  BY <1>1, <1>2, <1>3, <1>4, <1>5, <1>6, <1>7, <1>8, <1>9, <1>10, <1>11 DEF DemandNext

THEOREM DemandInvariant == DemandSpec => []IInv
BY InitHolds, StepHolds, PTL DEF DemandSpec

\* handleVerb, stepDirectorSpawns: whatever is sent again, by whomever, and however
\* a step ends early, late, at the density cap or on a shut origin, an accepted
\* arrival is in exactly one place of the queue, injected once or expired once.
THEOREM DemandIsAccountedFor == DemandSpec => []AccountedFor
<1>1. IInv => AccountedFor BY DEF IInv
<1> QED BY <1>1, DemandInvariant, PTL

\* director.go, the restart under the same request ids: a director whose verbs all
\* arrive and that is never swept has every arrival it sent accepted or still under
\* way, whatever answers the directors before it drew.
THEOREM RestartsMakeGood == DemandSpec => []RestartMakesGood
<1>1. IInv => RestartMakesGood BY DEF IInv
<1> QED BY <1>1, DemandInvariant, PTL
=============================================================================
