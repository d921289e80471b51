---------------------------- MODULE Player_proofs ----------------------------
(***************************************************************************)
(* Proofs about the record of a run and the player that shows it, for any  *)
(* length of the run, any inputs, any cadence and size of keyframes, any   *)
(* number of losses, requests and read faults.                             *)
(*                                                                         *)
(* The record is written first and played afterwards, so the invariant has *)
(* two halves.  A step of the run keeps the first and leaves the player    *)
(* alone; a step of the player leaves the record alone.                    *)
(***************************************************************************)
EXTENDS Player, SequenceTheorems, WellFoundedInduction, TLAPS

-----------------------------------------------------------------------------
(* Greatest and least. *)

\* A bounded non-empty set of naturals has a greatest element.
LEMMA GreatestExists ==
    ASSUME NEW b \in Nat, NEW T, T \subseteq 0..b, T # {}
    PROVE  \E m \in T : \A x \in T : x <= m
<1> DEFINE U == {b - x : x \in T}
<1>1. U \subseteq Nat /\ U # {}
  <2>1. \A x \in T : b - x \in Nat OBVIOUS
  <2>2. PICK x \in T : TRUE OBVIOUS
  <2>3. b - x \in U BY <2>2
  <2> QED BY <2>1, <2>3
<1>2. \E u \in U : \A y \in U : <<y, u>> \notin OpToRel(<, Nat)
  <2> HIDE DEF U
  <2> QED BY <1>1, WFMin, NatLessThanWellFounded
<1>3. PICK u \in U : \A y \in U : <<y, u>> \notin OpToRel(<, Nat) BY <1>2
<1>4. PICK m \in T : u = b - m OBVIOUS
<1>5. ASSUME NEW x \in T PROVE x <= m
  <2>1. b - x \in U /\ b - x \in Nat /\ u \in Nat BY <1>1
  <2>2. ~(b - x < u) BY <1>3, <2>1 DEF OpToRel
  <2> QED BY <2>1, <2>2, <1>4
<1> QED BY <1>5

\* The lowest of a non-empty set of naturals is one of them.
LEMMA LowestIsIn ==
    ASSUME NEW T, T \subseteq Nat, T # {}
    PROVE  Lowest(T) \in T
<1>1. PICK u \in T : \A y \in T : <<y, u>> \notin OpToRel(<, Nat)
  BY WFMin, NatLessThanWellFounded
<1>2. ASSUME NEW y \in T PROVE u <= y
  <2>1. y \in Nat /\ u \in Nat OBVIOUS
  <2>2. ~(y < u) BY <1>1, <2>1 DEF OpToRel
  <2> QED BY <2>1, <2>2
<1> QED BY <1>2 DEF Lowest

-----------------------------------------------------------------------------
(* The types of the record. *)

Inputs == {"", "foreign"} \cup UNION {{list[i] : i \in DOMAIN list} : list \in InputLists}
Worlds == Seq(InputLists \cup {<<>>})
Message ==
    [kind : {"input", "key", "crc", "event"} \cup Foreign, tick : Nat, input : Inputs,
     world : Worlds, part : Nat, of : Nat]
Engines == [tick : Nat, world : Worlds]

RecordTypes ==
    /\ start \in Nat
    /\ run \in Engines
    /\ said \in Seq(Message)
    /\ log \in Seq(Message)
    /\ wire \in Seq([seq : Nat, msg : Message])
    /\ lastSeq \in Nat

\* What is published is what was said, at its sequence.
InFlight ==
    \A i \in 1..Len(wire) :
        wire[i].seq \in 1..Len(said) /\ wire[i].msg = said[wire[i].seq]

\* An acknowledged write is in the stream, at its sequence.
Answered == \A s \in acked : s \in 1..Len(log) /\ s \in 1..Len(said) /\ log[s] = said[s]

\* Up to the cursor the stream is what was said, behind it what is outstanding
\* or another writer's.
Agreed ==
    /\ lastSeq <= Len(log)
    /\ \A i \in 1..lastSeq : log[i] = said[i]
    /\ \A i \in lastSeq + 1..Len(log) : Alien(i) \/ (i \in Outstanding /\ log[i] = said[i])

\* Sequences are predicted from the cursor on: nothing is acknowledged that was
\* not said.
Cursor == lastSeq <= Len(said)

RecordOK == RecordTypes /\ InFlight /\ Answered /\ Agreed /\ Cursor

-----------------------------------------------------------------------------
(* The player's half. *)

Loop == {"top", "decide", "read", "pace", "exited"}

PlayerTypes ==
    /\ pl \in {"none", "refused"} \cup Loop
    /\ e.tick \in Nat /\ endTick \in Nat
    /\ paused \in BOOLEAN /\ done \in BOOLEAN /\ broken \in BOOLEAN
    /\ req = None \/ req.tick \in Nat
    /\ target = NoTarget \/ target \in Nat

\* A seek is a reading; a reading that is no seek began before the end.
Reading ==
    /\ target # NoTarget => pl = "read" /\ target <= endTick
    /\ pl = "read" /\ target = NoTarget => e.tick < endTick

\* Nothing is claimed before there is a player.
NotYet == pl = "none" => ~done

PlayerOK == PlayerTypes /\ Reading /\ NotYet /\ DoneHoldsAtEnd

IInv == RecordOK /\ PlayerOK

-----------------------------------------------------------------------------
(* What the recorder publishes. *)

\* An input of a list is an input.
LEMMA ListedInputs ==
    ASSUME NEW list \in InputLists
    PROVE  list \in Seq(Inputs)
<1> DEFINE R == {list[i] : i \in DOMAIN list}
<1>1. list \in Seq(R) BY InputsAssumption
<1>2. R \subseteq Inputs BY DEF Inputs
<1> HIDE DEF R
<1> QED BY <1>1, <1>2, SeqMonotonic

\* A message made of an engine's tick and world.
LEMMA WorldMessages ==
    ASSUME NEW f \in Engines, NEW kind \in {"key", "crc"} \cup Foreign
    PROVE  /\ WorldMessage(kind, f) \in Message
           /\ ForeignMessage(kind).input = "foreign"
           /\ f.tick \in Nat /\ f.world \in Worlds
<1>1. f.tick \in Nat /\ f.world \in Worlds BY DEF Engines
<1> DEFINE blank == ""
           none == <<>>
           plain == [kind |-> kind, tick |-> f.tick, input |-> blank, world |-> none,
                     part |-> 1, of |-> 1]
<1>2. WorldMessage(kind, f) = [plain EXCEPT !.world = f.world]
  BY DEF WorldMessage, Bare
<1>3. blank \in Inputs BY DEF Inputs
<1> HIDE DEF blank, none
<1>4. [plain EXCEPT !.world = f.world] =
         [kind |-> kind, tick |-> f.tick, input |-> blank, world |-> f.world, part |-> 1, of |-> 1]
  OBVIOUS
<1>5. WorldMessage(kind, f) \in Message
  <2> HIDE DEF plain
  <2> QED BY <1>1, <1>2, <1>3, <1>4 DEF Message
<1>6. ForeignMessage(kind).input = "foreign"
  BY DEF ForeignMessage, WorldMessage, Bare, Engine
<1> QED BY <1>1, <1>5, <1>6

\* The anchor of another recorder of the run is a message too.
LEMMA ForeignMessages ==
    ASSUME NEW kind \in Foreign, start \in Nat
    PROVE  ForeignMessage(kind) \in Message
<1>1. <<>> \in InputLists \cup {<<>>} OBVIOUS
<1>2. AnchorWorld \in Worlds
  <2> DEFINE S == InputLists \cup {<<>>}
  <2>1. <<>> \in S OBVIOUS
  <2>2. AnchorWorld \in [1..start -> S] BY <2>1 DEF AnchorWorld
  <2> HIDE DEF S
  <2>3. AnchorWorld \in Seq(S) BY <2>2
  <2> QED BY <2>3 DEF Worlds, S
<1> DEFINE f == Engine(start, AnchorWorld)
<1>3. f \in Engines BY <1>2 DEF Engine, Engines
<1>4. WorldMessage(kind, f) \in Message
  <2> HIDE DEF f
  <2> QED BY <1>3, WorldMessages
<1>5. "foreign" \in Inputs BY DEF Inputs
<1> HIDE DEF f
<1>6. [WorldMessage(kind, f) EXCEPT !.input = "foreign"] \in Message BY <1>4, <1>5 DEF Message
<1> QED BY <1>6 DEF ForeignMessage, f

\* A keyframe is a sequence of messages.
LEMMA KeyframeMessages ==
    ASSUME NEW f \in Engines
    PROVE  Keyframe(f) \in Seq(Message)
<1> DEFINE w == WorldMessage("key", f)
<1>1. w \in Message BY WorldMessages
<1>2. ChunkCount \in Nat BY RecorderAssumption
<1> HIDE DEF w
<1>3. ASSUME NEW i \in 1..ChunkCount PROVE [w EXCEPT !.part = i, !.of = ChunkCount] \in Message
  <2>1. i \in Nat BY <1>2
  <2>2. [w EXCEPT !.part = i] \in Message BY <1>1, <2>1 DEF Message
  <2>3. [w EXCEPT !.part = i, !.of = ChunkCount] = [[w EXCEPT !.part = i] EXCEPT !.of = ChunkCount]
    OBVIOUS
  <2> QED BY <2>2, <2>3, <1>2 DEF Message
<1> DEFINE k == [i \in 1..ChunkCount |-> [w EXCEPT !.part = i, !.of = ChunkCount]]
<1>4. k \in [1..ChunkCount -> Message] BY <1>3
<1>5. Keyframe(f) = k BY DEF Keyframe, w
<1> HIDE DEF k
<1>6. k \in Seq(Message) BY <1>4, <1>2
<1> QED BY <1>5, <1>6

\* So are the inputs of a tick.
LEMMA InputsAsMessages ==
    ASSUME NEW list \in InputLists, NEW t \in Nat
    PROVE  InputMessages(t, list) \in Seq(Message)
<1>1. list \in Seq(Inputs) BY ListedInputs
<1>2. DOMAIN list = 1..Len(list) /\ Len(list) \in Nat /\ \A i \in 1..Len(list) : list[i] \in Inputs
  BY <1>1, LenProperties, ElementOfSeq
<1>3. <<>> \in Worlds BY EmptySeq DEF Worlds
<1>4. \A x \in Inputs : InputMessage(t, x) \in Message
  <2> TAKE x \in Inputs
  <2> DEFINE blank == ""
             none == <<>>
             plain == [kind |-> "input", tick |-> t, input |-> blank, world |-> none,
                       part |-> 1, of |-> 1]
  <2>1. InputMessage(t, x) = [plain EXCEPT !.input = x]
    BY DEF InputMessage, Bare
  <2>2. none \in Worlds BY <1>3
  <2> HIDE DEF blank, none
  <2>3. [plain EXCEPT !.input = x] =
          [kind |-> "input", tick |-> t, input |-> x, world |-> none, part |-> 1, of |-> 1]
    OBVIOUS
  <2> HIDE DEF plain
  <2> QED BY <2>1, <2>2, <2>3 DEF Message
<1> DEFINE m == [i \in 1..Len(list) |-> InputMessage(t, list[i])]
<1>5. m \in [1..Len(list) -> Message] BY <1>2, <1>4
<1>6. InputMessages(t, list) = m BY <1>2 DEF InputMessages
<1> HIDE DEF m
<1>7. m \in Seq(Message) BY <1>5, <1>2
<1> QED BY <1>6, <1>7

\* A whole tick's batch.
LEMMA BatchMessages ==
    ASSUME NEW f \in Engines, NEW list \in InputLists
    PROVE  TickBatch(f, list) \in Seq(Message)
<1>1. f.tick \in Nat BY DEF Engines
<1>2. InputMessages(f.tick, list) \in Seq(Message) BY <1>1, InputsAsMessages
<1>3. Keyframe(f) \in Seq(Message) BY KeyframeMessages
<1>4. CRC(f) \in Seq(Message)
  <2>1. WorldMessage("crc", f) \in Message BY WorldMessages
  <2> QED BY <2>1 DEF CRC
<1> DEFINE none == <<>>
           a == InputMessages(f.tick, list)
           k == IF f.tick % KeyframeEvery = 0 THEN Keyframe(f) ELSE none
           c == CRC(f)
<1>5. none \in Seq(Message) BY EmptySeq
<1>6. k \in Seq(Message) BY <1>3, <1>5
<1>7. TickBatch(f, list) = a \o k \o c BY DEF TickBatch
<1> HIDE DEF none, a, k, c
<1>8. a \in Seq(Message) /\ c \in Seq(Message) BY <1>2, <1>4 DEF a, c
<1>9. a \o k \o c \in Seq(Message) BY <1>6, <1>8, ConcatProperties
<1> QED BY <1>7, <1>9

-----------------------------------------------------------------------------
(* The record's half is inductive. *)

\* Publishing a batch of messages: everything that was in order stays in order.
LEMMA PublishKeeps ==
    ASSUME RecordOK, NEW batch \in Seq(Message), Publish(batch),
           start' = start, run' \in Engines,
           UNCHANGED <<lastSeq, acked, log>>
    PROVE  RecordOK'
<1> USE DEF RecordOK, RecordTypes
<1> DEFINE Envelope == [seq : Nat, msg : Message]
           n == Len(said)
           out == [i \in DOMAIN batch |-> [seq |-> n + i, msg |-> batch[i]]]
<1>1. /\ n \in Nat /\ DOMAIN batch = 1..Len(batch) /\ Len(batch) \in Nat
      /\ \A i \in 1..Len(batch) : batch[i] \in Message
  BY LenProperties, ElementOfSeq
<1>2. out \in [1..Len(batch) -> Envelope] BY <1>1
<1>3. \A i \in 1..Len(batch) : out[i].seq = n + i /\ out[i].msg = batch[i] BY <1>1
<1>4. wire' = wire \o out /\ said' = said \o batch BY DEF Publish
<1> HIDE DEF Envelope, out
<1>5. out \in Seq(Envelope) /\ Len(out) = Len(batch)
  <2>1. out \in Seq(Envelope) BY <1>2, <1>1
  <2>2. DOMAIN out = 1..Len(batch) BY <1>2
  <2>3. DOMAIN out = 1..Len(out) /\ Len(out) \in Nat BY <2>1, LenProperties
  <2> QED BY <2>1, <2>2, <2>3, <1>1
<1>6. /\ said' \in Seq(Message) /\ Len(said') = n + Len(batch)
      /\ \A i \in 1..n + Len(batch) : said'[i] = IF i <= n THEN said[i] ELSE batch[i - n]
  BY <1>4, ConcatProperties
<1>7. wire \in Seq(Envelope) BY DEF Envelope
<1>8. /\ wire' \in Seq(Envelope) /\ Len(wire') = Len(wire) + Len(out)
      /\ \A i \in 1..Len(wire) + Len(out) :
            wire'[i] = IF i <= Len(wire) THEN wire[i] ELSE out[i - Len(wire)]
  BY <1>4, <1>5, <1>7, ConcatProperties, ZenonT(40)
<1>9. Len(wire) \in Nat BY <1>7, LenProperties
<1>10. \A s \in 1..n : s \in 1..Len(said') /\ said'[s] = said[s] BY <1>1, <1>6
<1>11. RecordTypes' BY <1>6, <1>8 DEF Envelope
<1>12. InFlight'
  <2> SUFFICES ASSUME NEW i \in 1..Len(wire')
               PROVE  wire'[i].seq \in 1..Len(said') /\ wire'[i].msg = said'[wire'[i].seq]
    BY DEF InFlight
  <2>1. CASE i <= Len(wire)
    <3>1. wire'[i] = wire[i] /\ i \in 1..Len(wire) BY <2>1, <1>8, <1>9, <1>5, <1>1
    <3>2. wire[i].seq \in 1..n /\ wire[i].msg = said[wire[i].seq] BY <3>1 DEF InFlight
    <3> QED BY <3>1, <3>2, <1>10
  <2>2. CASE i > Len(wire)
    <3> DEFINE j == i - Len(wire)
    <3>1. wire'[i] = out[j] /\ j \in 1..Len(batch) BY <2>2, <1>8, <1>9, <1>5, <1>1
    <3>2. wire'[i].seq = n + j /\ wire'[i].msg = batch[j] BY <3>1, <1>3
    <3> HIDE DEF j
    <3>3. n + j \in 1..Len(said') /\ ~(n + j <= n) /\ (n + j) - n = j BY <3>1, <1>6, <1>1
    <3>4. said'[n + j] = batch[j] BY <3>3, <1>6
    <3> QED BY <3>2, <3>3, <3>4
  <2> QED BY <2>1, <2>2, <1>9, <1>8, <1>5, <1>1
<1>13. Cursor' BY <1>6, <1>1 DEF Cursor
<1>14. \A s \in 1..Len(log) : s \in 1..n => log'[s] = log[s] /\ said'[s] = said[s]
  BY <1>10
<1>15. Agreed'
  <2>1. lastSeq' <= Len(log') BY DEF Agreed
  <2>2. \A i \in 1..lastSeq' : log'[i] = said'[i]
    BY <1>10, <1>1, SMTT(40) DEF Agreed, Cursor
  <2>3. \A i \in lastSeq' + 1..Len(log') :
           Alien(i)' \/ (i \in Outstanding' /\ log'[i] = said'[i])
    <3> TAKE i \in lastSeq' + 1..Len(log')
    <3>1. Alien(i) \/ (i \in Outstanding /\ log[i] = said[i]) BY DEF Agreed
    <3>2. CASE Alien(i) BY <3>2 DEF Alien
    <3>3. CASE i \in Outstanding /\ log[i] = said[i]
      <4>1. i \in 1..n BY <3>3, <1>1 DEF Outstanding
      <4>2. said'[i] = said[i] BY <4>1, <1>10
      <4>3. i \in Outstanding' BY <3>3, <1>6, <1>1 DEF Outstanding
      <4> QED BY <3>3, <4>2, <4>3
    <3> QED BY <3>1, <3>2, <3>3
  <2> QED BY <2>1, <2>2, <2>3 DEF Agreed
<1>16. Answered'
  <2> SUFFICES ASSUME NEW s \in acked PROVE s \in 1..Len(log) /\ s \in 1..Len(said') /\ log[s] = said'[s]
    BY DEF Answered
  <2>1. s \in 1..Len(log) /\ s \in 1..n /\ log[s] = said[s] BY DEF Answered
  <2> QED BY <2>1, <1>10
<1> QED BY <1>11, <1>12, <1>13, <1>15, <1>16

\* A tick of the run makes an engine.
LEMMA SteppedEngine ==
    ASSUME NEW f \in Engines, NEW list \in InputLists
    PROVE  Stepped(f, list) \in Engines
<1>1. f.tick \in Nat /\ f.world \in Worlds BY DEF Engines
<1>2. Append(f.world, list) \in Worlds BY <1>1, AppendProperties DEF Worlds
<1>3. f.tick + 1 \in Nat BY <1>1
<1> QED BY <1>2, <1>3 DEF Stepped, Engine, Engines

LEMMA LogStartKeeps == ASSUME RecordOK, LogStart PROVE RecordOK'
<1>1. run \in Engines BY DEF RecordOK, RecordTypes
<1>2. Keyframe(run) \in Seq(Message) BY <1>1, KeyframeMessages
<1>3. Publish(Keyframe(run)) /\ UNCHANGED <<start, run, lastSeq, acked, log>> BY DEF LogStart
<1> QED BY <1>1, <1>2, <1>3, PublishKeeps

LEMMA LogEventKeeps == ASSUME RecordOK, LogEvent PROVE RecordOK'
<1>1. run \in Engines BY DEF RecordOK, RecordTypes
<1>2. Bare("event", run.tick) \in Message
  <2> DEFINE blank == ""
             none == <<>>
  <2>1. Bare("event", run.tick) =
           [kind |-> "event", tick |-> run.tick, input |-> blank, world |-> none,
            part |-> 1, of |-> 1]
    BY DEF Bare
  <2>2. none \in Worlds BY EmptySeq DEF Worlds
  <2>3. blank \in Inputs BY DEF Inputs
  <2>4. run.tick \in Nat BY <1>1 DEF Engines
  <2> HIDE DEF blank, none
  <2> QED BY <2>1, <2>2, <2>3, <2>4 DEF Message
<1> DEFINE m == Bare("event", run.tick)
<1>3. Publish(<<m>>) /\ UNCHANGED <<start, run, lastSeq, acked, log>> BY DEF LogEvent
<1> HIDE DEF m
<1>4. <<m>> \in Seq(Message) BY <1>2 DEF m
<1> QED BY <1>1, <1>3, <1>4, PublishKeeps

LEMMA TickKeeps == ASSUME RecordOK, Tick PROVE RecordOK'
<1>1. PICK inputs \in InputLists :
         run' = Stepped(run, inputs) /\ Publish(TickBatch(run', inputs))
  BY DEF Tick
<1>2. run \in Engines BY DEF RecordOK, RecordTypes
<1>3. run' \in Engines BY <1>1, <1>2, SteppedEngine
<1>4. TickBatch(run', inputs) \in Seq(Message) BY <1>3, BatchMessages
<1>5. UNCHANGED <<start, lastSeq, acked, log>> BY DEF Tick
<1> QED BY <1>1, <1>3, <1>4, <1>5, PublishKeeps

\* Every answer is in: the cursor moves to the end of what was said, and what
\* lies behind it now can only be another writer's.
LEMMA AwaitBatchKeeps == ASSUME RecordOK, AwaitBatch PROVE RecordOK'
<1> USE DEF RecordOK, RecordTypes
<1> DEFINE n == Len(said)
<1>1. lastSeq' = n /\ acked' = {} /\ UNCHANGED <<start, run, said, wire, log>> BY DEF AwaitBatch
<1>2. n \in Nat /\ Len(log) \in Nat BY LenProperties
<1>3. \A s \in lastSeq + 1..n : s \in 1..Len(log) /\ log[s] = said[s]
  BY DEF AwaitBatch, AllAcknowledged, Outstanding, Answered
<1>4. n <= Len(log)
  <2>1. CASE lastSeq = n BY <2>1 DEF Agreed
  <2>2. CASE lastSeq < n
    <3>1. n \in lastSeq + 1..n BY <2>2, <1>2
    <3>2. n \in 1..Len(log) BY <3>1, <1>3
    <3> QED BY <3>2, <1>2
  <2> QED BY <2>1, <2>2, <1>2 DEF Cursor
<1>5. \A i \in 1..n : log[i] = said[i]
  <2> TAKE i \in 1..n
  <2>1. CASE i <= lastSeq BY <2>1, <1>2 DEF Agreed
  <2>2. CASE i > lastSeq BY <2>2, <1>2, <1>3
  <2> QED BY <2>1, <2>2, <1>2
<1>6. \A i \in n + 1..Len(log) : Alien(i)
  <2> TAKE i \in n + 1..Len(log)
  <2>1. i \in lastSeq + 1..Len(log) /\ i \notin Outstanding BY <1>2 DEF Cursor, Outstanding
  <2> QED BY <2>1 DEF Agreed
<1>7. RecordTypes' /\ Cursor' BY <1>1, <1>2 DEF Cursor
<1>8. InFlight' BY <1>1 DEF InFlight
<1>9. Answered' BY <1>1 DEF Answered
<1>10. \A i : Alien(i)' <=> Alien(i) BY <1>1 DEF Alien
<1>11. Agreed' BY <1>1, <1>4, <1>5, <1>6, <1>10 DEF Agreed
<1> QED BY <1>7, <1>8, <1>9, <1>11

\* Steps that leave the stream and what was said alone and forget at most
\* acknowledgements.
LEMMA QuietKeeps ==
    ASSUME RecordOK, UNCHANGED <<start, run, said, wire, log, lastSeq>>, acked' \in {acked, {}}
    PROVE  RecordOK'
<1> USE DEF RecordOK
<1>1. RecordTypes' BY DEF RecordTypes
<1>2. InFlight' /\ Cursor' BY DEF InFlight, Cursor
<1>3. Answered' BY DEF Answered
<1>4. Agreed' BY DEF Agreed, Alien, Outstanding
<1> QED BY <1>1, <1>2, <1>3, <1>4

\* The wire loses messages at its ends: what is left is as it was.
LEMMA CrashKeeps == ASSUME RecordOK, Crash PROVE RecordOK'
<1> USE DEF RecordOK, RecordTypes
<1> DEFINE Envelope == [seq : Nat, msg : Message]
<1>1. PICK n \in 0..Len(wire) : wire' = SubSeq(wire, 1, n) BY DEF Crash
<1>2. acked' = {} /\ UNCHANGED <<start, run, said, lastSeq, log>> BY DEF Crash
<1> HIDE DEF Envelope
<1>3. wire \in Seq(Envelope) BY DEF Envelope
<1>4. Len(wire) \in Nat /\ \A i \in 1..n : wire[i] \in Envelope BY <1>3, LenProperties, ElementOfSeq
<1>5. /\ wire' \in Seq(Envelope) /\ Len(wire') = n
      /\ \A i \in 1..n : wire'[i] = wire[i]
  <2>1. n \in Int /\ 1 \in Int BY <1>4
  <2>2. /\ SubSeq(wire, 1, n) \in Seq(Envelope)
        /\ Len(SubSeq(wire, 1, n)) = IF 1 <= n THEN n - 1 + 1 ELSE 0
        /\ \A i \in 1..n - 1 + 1 : SubSeq(wire, 1, n)[i] = wire[1 + i - 1]
    BY <2>1, <1>4, SubSeqProperties
  <2> QED BY <2>2, <1>1, <1>4
<1>6. RecordTypes' BY <1>2, <1>5 DEF Envelope
<1>7. InFlight'
  <2> SUFFICES ASSUME NEW i \in 1..Len(wire')
               PROVE  wire'[i].seq \in 1..Len(said) /\ wire'[i].msg = said[wire'[i].seq]
    BY <1>2 DEF InFlight
  <2>1. i \in 1..n /\ i \in 1..Len(wire) BY <1>4, <1>5
  <2>2. wire'[i] = wire[i] BY <2>1, <1>5
  <2>3. wire[i].seq \in 1..Len(said) /\ wire[i].msg = said[wire[i].seq] BY <2>1 DEF InFlight
  <2> QED BY <2>2, <2>3
<1>8. Answered' BY <1>2 DEF Answered
<1>9. Agreed' BY <1>2 DEF Agreed, Alien, Outstanding
<1>10. Cursor' BY <1>2 DEF Cursor
<1> QED BY <1>6, <1>7, <1>8, <1>9, <1>10

\* The head of the wire is a message that was said; the rest stays in order.
LEMMA TakenOff ==
    ASSUME RecordOK, wire # <<>>, wire' = Tail(wire), said' = said
    PROVE  /\ wire' \in Seq([seq : Nat, msg : Message])
           /\ InFlight'
           /\ Head(wire).seq \in 1..Len(said)
           /\ Head(wire).msg = said[Head(wire).seq]
           /\ Head(wire).msg \in Message
<1> USE DEF RecordOK, RecordTypes
<1> DEFINE Envelope == [seq : Nat, msg : Message]
<1> HIDE DEF Envelope
<1>1. wire \in Seq(Envelope) BY DEF Envelope
<1>2. /\ Head(wire) \in Envelope /\ Tail(wire) \in Seq(Envelope)
      /\ Len(Tail(wire)) = Len(wire) - 1
      /\ \A i \in 1..Len(Tail(wire)) : Tail(wire)[i] = wire[i + 1]
  BY <1>1, HeadTailProperties
<1>3. Len(wire) \in Nat /\ Len(wire) # 0 /\ Head(wire) = wire[1] BY <1>1, EmptySeq
<1>4. wire[1].seq \in 1..Len(said) /\ wire[1].msg = said[wire[1].seq] BY <1>3 DEF InFlight
<1>5. InFlight'
  <2> SUFFICES ASSUME NEW i \in 1..Len(Tail(wire))
               PROVE  /\ wire[i + 1].seq \in 1..Len(said)
                      /\ wire[i + 1].msg = said[wire[i + 1].seq]
    BY <1>2 DEF InFlight
  <2>1. i + 1 \in 1..Len(wire) BY <1>2, <1>3
  <2> QED BY <2>1 DEF InFlight
<1>6. Head(wire).msg \in Message BY <1>2 DEF Envelope
<1> QED BY <1>2, <1>3, <1>4, <1>5, <1>6 DEF Envelope

LEMMA LoseWriteKeeps == ASSUME RecordOK, LoseWrite PROVE RecordOK'
<1>1. /\ wire # <<>> /\ wire' = Tail(wire)
      /\ UNCHANGED <<start, run, said, lastSeq, acked, log>>
  BY DEF LoseWrite
<1>2. wire' \in Seq([seq : Nat, msg : Message]) /\ InFlight' BY <1>1, TakenOff
<1>3. RecordTypes' BY <1>1, <1>2 DEF RecordOK, RecordTypes
<1>4. Answered' BY <1>1 DEF RecordOK, Answered
<1>5. Agreed' BY <1>1 DEF RecordOK, Agreed, Alien, Outstanding
<1>6. Cursor' BY <1>1 DEF RecordOK, Cursor
<1> QED BY <1>2, <1>3, <1>4, <1>5, <1>6 DEF RecordOK

\* The stream grows by one message that is the recorder's next or an alien.
LEMMA GrownLog ==
    ASSUME RecordOK, NEW m \in Message, log' = Append(log, m),
           UNCHANGED <<start, run, said, lastSeq>>,
           \/ m.input = "foreign"
           \/ Len(log) + 1 \in 1..Len(said) /\ m = said[Len(log) + 1]
    PROVE  /\ log' \in Seq(Message) /\ Len(log') = Len(log) + 1
           /\ log'[Len(log) + 1] = m
           /\ \A s \in 1..Len(log) : log'[s] = log[s]
           /\ Agreed'
<1> USE DEF RecordOK, RecordTypes
<1> DEFINE n == Len(log)
<1>1. /\ log' \in Seq(Message) /\ Len(log') = n + 1
      /\ \A s \in 1..n : log'[s] = log[s]
      /\ log'[n + 1] = m
  BY AppendProperties
<1>2. n \in Nat /\ Len(said) \in Nat BY LenProperties
<1>3. lastSeq' <= Len(log') BY <1>1, <1>2 DEF Agreed
<1>4. \A i \in 1..lastSeq' : log'[i] = said'[i] BY <1>1, <1>2 DEF Agreed
<1>5. ASSUME NEW i \in lastSeq' + 1..Len(log')
      PROVE  Alien(i)' \/ (i \in Outstanding' /\ log'[i] = said'[i])
  <2>1. CASE i \in 1..n
    <3>1. i \in lastSeq + 1..n BY <2>1, <1>5
    <3>2. Alien(i) \/ (i \in Outstanding /\ log[i] = said[i]) BY <3>1 DEF Agreed
    <3> QED BY <3>2, <2>1, <1>1 DEF Alien, Outstanding
  <2>2. CASE i = n + 1
    <3>1. CASE m.input = "foreign" BY <3>1, <2>2, <1>1 DEF Alien
    <3>2. CASE n + 1 \in 1..Len(said) /\ m = said[n + 1]
      <4>1. n + 1 \in Outstanding BY <3>2, <1>2 DEF Agreed, Outstanding
      <4> QED BY <4>1, <3>2, <2>2, <1>1 DEF Outstanding
    <3> QED BY <3>1, <3>2
  <2> QED BY <2>1, <2>2, <1>1, <1>2, <1>5
<1>6. Agreed' BY <1>3, <1>4, <1>5 DEF Agreed
<1> QED BY <1>1, <1>6

\* A write is stored only as the stream's next message, so an acknowledgement
\* says where it is.
LEMMA StoreKeeps == ASSUME RecordOK, Store PROVE RecordOK'
<1> DEFINE h == Head(wire)
<1>1. wire # <<>> /\ wire' = Tail(wire) /\ UNCHANGED <<start, run, said, lastSeq>> BY DEF Store
<1>2. /\ wire' \in Seq([seq : Nat, msg : Message]) /\ InFlight'
      /\ h.seq \in 1..Len(said) /\ h.msg = said[h.seq] /\ h.msg \in Message
  BY <1>1, TakenOff
<1>3. acked' \subseteq acked \cup {s \in {h.seq} : Accepted(s)} BY DEF Store
<1>4. log' = IF Accepted(h.seq) THEN Append(log, h.msg) ELSE log BY DEF Store
<1> HIDE DEF h
<1>5. CASE Accepted(h.seq)
  <2>1. h.seq = Len(log) + 1 /\ log' = Append(log, h.msg) BY <1>5, <1>4 DEF Accepted
  <2>2. /\ log' \in Seq(Message) /\ Len(log') = Len(log) + 1
        /\ log'[Len(log) + 1] = h.msg
        /\ \A s \in 1..Len(log) : log'[s] = log[s]
        /\ Agreed'
    BY <2>1, <1>1, <1>2, GrownLog
  <2>3. RecordTypes' BY <1>1, <1>2, <2>2 DEF RecordOK, RecordTypes
  <2>4. Len(log) \in Nat BY DEF RecordOK, RecordTypes
  <2>5. ASSUME NEW s \in acked'
        PROVE  s \in 1..Len(log') /\ s \in 1..Len(said') /\ log'[s] = said'[s]
    <3>1. CASE s \in acked
      <4>1. s \in 1..Len(log) /\ s \in 1..Len(said) /\ log[s] = said[s]
        BY <3>1 DEF RecordOK, Answered
      <4> QED BY <4>1, <2>2, <2>4, <1>1
    <3>2. CASE s = h.seq BY <3>2, <2>1, <2>2, <2>4, <1>1, <1>2
    <3> QED BY <3>1, <3>2, <1>3, <2>5
  <2>6. Answered' BY <2>5 DEF Answered
  <2>7. Cursor' BY <1>1 DEF RecordOK, Cursor
  <2> QED BY <1>2, <2>2, <2>3, <2>6, <2>7 DEF RecordOK
<1>6. CASE ~Accepted(h.seq)
  <2>1. log' = log BY <1>6, <1>4
  <2>2. acked' \subseteq acked BY <1>6, <1>3
  <2>3. RecordTypes' BY <2>1, <1>1, <1>2 DEF RecordOK, RecordTypes
  <2>4. Answered' BY <2>1, <2>2, <1>1 DEF RecordOK, Answered
  <2>5. Agreed' BY <2>1, <1>1 DEF RecordOK, Agreed, Alien, Outstanding
  <2>6. Cursor' BY <1>1 DEF RecordOK, Cursor
  <2> QED BY <1>2, <2>3, <2>4, <2>5, <2>6 DEF RecordOK
<1> QED BY <1>5, <1>6

LEMMA CompeteKeeps == ASSUME RecordOK, Compete PROVE RecordOK'
<1>1. PICK kind \in Foreign : log' = Append(log, ForeignMessage(kind)) BY DEF Compete
<1>2. UNCHANGED <<start, run, said, lastSeq, acked, wire>> BY DEF Compete
<1> DEFINE m == ForeignMessage(kind)
<1>3. start \in Nat /\ run \in Engines BY DEF RecordOK, RecordTypes
<1>4. m \in Message /\ m.input = "foreign" BY <1>3, ForeignMessages, WorldMessages
<1> HIDE DEF m
<1>5. /\ log' \in Seq(Message) /\ Len(log') = Len(log) + 1
      /\ \A s \in 1..Len(log) : log'[s] = log[s]
      /\ Agreed'
  BY <1>1, <1>2, <1>4, GrownLog DEF m
<1>6. RecordTypes' BY <1>2, <1>5 DEF RecordOK, RecordTypes
<1>7. InFlight' /\ Cursor' BY <1>2 DEF RecordOK, InFlight, Cursor
<1>8. Len(log) \in Nat BY DEF RecordOK, RecordTypes
<1>9. Answered' BY <1>2, <1>5, <1>8 DEF RecordOK, Answered
<1> QED BY <1>5, <1>6, <1>7, <1>9 DEF RecordOK

\* The run's half: no step of the run breaks it, and none of the player's
\* touches it.
LEMMA RecordInductive == ASSUME RecordOK, [Next]_vars PROVE RecordOK'
<1>1. CASE RecordNext
  <2>1. CASE LogStart BY <2>1, LogStartKeeps
  <2>2. CASE LogEvent BY <2>2, LogEventKeeps
  <2>3. CASE Tick BY <2>3, TickKeeps
  <2>4. CASE AwaitBatch BY <2>4, AwaitBatchKeeps
  <2>5. CASE AwaitFails BY <2>5, QuietKeeps DEF AwaitFails
  <2>6. CASE Finish BY <2>6, QuietKeeps DEF Finish
  <2>7. CASE Crash BY <2>7, CrashKeeps
  <2>8. CASE Store BY <2>8, StoreKeeps
  <2>9. CASE LoseWrite BY <2>9, LoseWriteKeeps
  <2>10. CASE Compete BY <2>10, CompeteKeeps
  <2> QED BY <1>1, <2>1, <2>2, <2>3, <2>4, <2>5, <2>6, <2>7, <2>8, <2>9, <2>10 DEF RecordNext
<1>2. CASE UNCHANGED recordVars BY <1>2, QuietKeeps DEF recordVars
<1>3. RecordNext \/ UNCHANGED recordVars
  BY DEF Next, Run, NewPlayer, Request, ServePause, ServeResume, ServeSeek, SeekFails,
         SeekLands, Hold, BeginTick, Fetch, ReadFault, Gather, StepTick, Paced, Stop, vars
<1> QED BY <1>1, <1>2, <1>3

LEMMA RecordInitially == Init => RecordOK
<1> SUFFICES ASSUME Init PROVE RecordOK OBVIOUS
<1>1. RecordInit BY DEF Init
<1> DEFINE S == InputLists \cup {<<>>}
           none == <<>>
<1>2. start \in Nat BY <1>1, TicksAssumption DEF RecordInit
<1>3. AnchorWorld \in Worlds
  <2>1. <<>> \in S OBVIOUS
  <2>2. AnchorWorld \in [1..start -> S] BY <2>1 DEF AnchorWorld
  <2> HIDE DEF S
  <2>3. AnchorWorld \in Seq(S) BY <2>2, <1>2
  <2> QED BY <2>3 DEF Worlds, S
<1>4. run \in Engines BY <1>1, <1>2, <1>3 DEF RecordInit, Engine, Engines
<1>5. said = none /\ wire = none /\ log = none /\ lastSeq = 0 /\ acked = {}
  BY <1>1 DEF RecordInit
<1>6. Len(none) = 0 /\ \A T : none \in Seq(T) BY EmptySeq
<1> HIDE DEF none
<1>7. RecordTypes BY <1>2, <1>4, <1>5, <1>6 DEF RecordTypes
<1>8. InFlight /\ Answered /\ Agreed /\ Cursor BY <1>5, <1>6 DEF InFlight, Answered, Agreed, Cursor
<1> QED BY <1>7, <1>8 DEF RecordOK

-----------------------------------------------------------------------------
(* A keyframe that was found is one of the log's. *)

LEMMA KeyframeFound ==
    ASSUME NEW list \in Seq(Message), NEW t \in Nat, FindKeyframe(list, t) # NoKeyframe
    PROVE  FindKeyframe(list, t).tick \in 0..t /\ list # <<>>
<1> DEFINE at == {p \in Chunks(list) : GroupAt(list, p) /\ list[p].tick <= t}
           near == {p \in at : \A q \in at : list[q].tick <= list[p].tick}
           times == {list[p].tick : p \in at}
<1>1. \A p \in Chunks(list) : p \in 1..Len(list) /\ list[p] \in Message
  BY ElementOfSeq, LenProperties DEF Chunks
<1>2. \A p \in at : p \in 1..Len(list) /\ list[p].tick \in 0..t
  <2> TAKE p \in at
  <2>1. list[p] \in Message /\ p \in 1..Len(list) /\ list[p].tick <= t BY <1>1
  <2>2. list[p].tick \in Nat BY <2>1 DEF Message
  <2> QED BY <2>1, <2>2
<1>3. ~Torn(list) /\ at # {} BY DEF FindKeyframe
<1>4. times \subseteq 0..t /\ times # {} BY <1>2, <1>3
<1>5. PICK m \in times : \A x \in times : x <= m
  <2> HIDE DEF times
  <2> QED BY <1>4, GreatestExists
<1>6. PICK p \in at : m = list[p].tick BY <1>5
<1>7. p \in near BY <1>5, <1>6
<1>8. near \subseteq Nat /\ near # {} BY <1>2, <1>7
<1>9. Lowest(near) \in near
  <2> HIDE DEF near
  <2> QED BY <1>8, LowestIsIn
<1>10. Lowest(near) \in at BY <1>9
<1>11. FindKeyframe(list, t).tick = list[Lowest(near)].tick BY <1>3 DEF FindKeyframe
<1>12. list[Lowest(near)].tick \in 0..t /\ Lowest(near) \in 1..Len(list)
  <2> DEFINE l == Lowest(near)
  <2>1. l \in at BY <1>10
  <2> HIDE DEF l, at
  <2>2. l \in 1..Len(list) /\ list[l].tick \in 0..t BY <1>2, <2>1
  <2> QED BY <2>2 DEF l, at
<1>13. list # <<>>
  <2> HIDE DEF near
  <2>1. Len(list) # 0 BY <1>12
  <2> QED BY <2>1, EmptySeq
<1> HIDE DEF near
<1> QED BY <1>11, <1>12, <1>13

\* The horizon of a log that holds a message is a tick.
LEMMA HorizonIsATick ==
    ASSUME NEW list \in Seq(Message), list # <<>>, NEW through
    PROVE  Horizon(list, through, Ticks) \in Nat
<1>1. Len(list) \in 1..Len(list) BY EmptySeq
<1>2. list[Len(list)] \in Message BY <1>1, ElementOfSeq
<1>3. list[Len(list)].tick \in Nat BY <1>2 DEF Message
<1> QED BY <1>3, TicksAssumption DEF Horizon

-----------------------------------------------------------------------------
(* The player's half is inductive. *)

\* The player starts at the beginning of the record, below its horizon.
LEMMA NewPlayerKeeps == ASSUME IInv, NewPlayer PROVE PlayerOK'
<1> USE DEF IInv, PlayerOK
<1>1. log \in Seq(Message) BY DEF RecordOK, RecordTypes
<1>2. /\ pl = "none" /\ ~done /\ target = NoTarget
      /\ UNCHANGED <<target, paused, done, req, broken>>
  BY DEF NewPlayer, NotYet, Reading
<1>3. CASE pl' = "refused" /\ UNCHANGED <<e, endTick>>
  <2>1. PlayerTypes' BY <1>2, <1>3 DEF PlayerTypes
  <2>2. Reading' /\ NotYet' BY <1>2, <1>3 DEF Reading, NotYet
  <2>3. DoneHoldsAtEnd' BY <1>2, <1>3 DEF DoneHoldsAtEnd
  <2> QED BY <2>1, <2>2, <2>3
<1>4. CASE /\ FindKeyframe(log, 0) # NoKeyframe
           /\ pl' = "top"
           /\ e' = Engine(FindKeyframe(log, 0).tick, FindKeyframe(log, 0).world)
           /\ endTick' = Horizon(log, status = "done", Ticks)
  <2>1. FindKeyframe(log, 0).tick \in 0..0 /\ log # <<>> BY <1>1, <1>4, KeyframeFound
  <2>2. endTick' \in Nat BY <1>1, <1>4, <2>1, HorizonIsATick
  <2>3. e'.tick = 0 BY <1>4, <2>1 DEF Engine
  <2>4. PlayerTypes' BY <1>2, <1>4, <2>2, <2>3 DEF PlayerTypes, Loop
  <2>5. Reading' /\ NotYet' BY <1>2, <1>4 DEF Reading, NotYet
  <2>6. DoneHoldsAtEnd' BY <1>2, <2>2, <2>3 DEF DoneHoldsAtEnd
  <2> QED BY <2>4, <2>5, <2>6
<1> QED BY <1>3, <1>4 DEF NewPlayer

LEMMA RequestKeeps == ASSUME IInv, Request PROVE PlayerOK'
<1> USE DEF IInv, PlayerOK
<1>1. /\ pl \in {"top", "decide", "read", "pace"}
      /\ UNCHANGED <<pl, e, target, paused, done, endTick, broken>>
      /\ req'.tick \in Nat
  BY TicksAssumption DEF Request
<1>2. PlayerTypes' BY <1>1 DEF PlayerTypes
<1>3. Reading' /\ NotYet' BY <1>1 DEF Reading, NotYet
<1>4. DoneHoldsAtEnd' BY <1>1 DEF DoneHoldsAtEnd
<1> QED BY <1>2, <1>3, <1>4

\* While the loop serves or decides there is no seek under way.
LEMMA NoSeekOutside ==
    ASSUME IInv, pl # "read"
    PROVE  target = NoTarget /\ ((done /\ ~broken) => e.tick = endTick /\ paused)
BY DEF IInv, PlayerOK, Reading, DoneHoldsAtEnd

LEMMA ServePauseKeeps == ASSUME IInv, ServePause PROVE PlayerOK'
<1> USE DEF IInv, PlayerOK
<1>1. /\ pl # "read" /\ paused' = TRUE /\ req' = None /\ pl' \in {"decide", "top"}
      /\ UNCHANGED <<e, target, done, endTick, broken>>
  BY DEF ServePause, Serving, Resumes
<1>2. target = NoTarget BY <1>1, NoSeekOutside
<1>3. PlayerTypes' BY <1>1 DEF PlayerTypes, Loop
<1>4. Reading' /\ NotYet' BY <1>1, <1>2 DEF Reading, NotYet
<1>5. DoneHoldsAtEnd' BY <1>1, <1>2 DEF DoneHoldsAtEnd
<1> QED BY <1>3, <1>4, <1>5

\* A resume that is refused leaves the playhead paused.
LEMMA ServeResumeKeeps == ASSUME IInv, ServeResume PROVE PlayerOK'
<1> USE DEF IInv, PlayerOK
<1>1. /\ pl # "read" /\ paused' = (paused /\ ResumeRefused) /\ req' = None
      /\ pl' \in {"decide", "top", "pace"}
      /\ UNCHANGED <<e, target, done, endTick, broken>>
  BY DEF ServeResume, Serving, Resumes
<1>2. target = NoTarget BY <1>1, NoSeekOutside
<1>3. PlayerTypes' BY <1>1 DEF PlayerTypes, Loop
<1>4. Reading' /\ NotYet' BY <1>1, <1>2 DEF Reading, NotYet
<1>5. DoneHoldsAtEnd' BY <1>1, <1>2 DEF DoneHoldsAtEnd, ResumeRefused
<1> QED BY <1>3, <1>4, <1>5

\* A seek starts no later than its target, which is no later than the end.
LEMMA ServeSeekKeeps == ASSUME IInv, ServeSeek PROVE PlayerOK'
<1> USE DEF IInv, PlayerOK
<1>1. log \in Seq(Message) BY DEF RecordOK, RecordTypes
<1>2. /\ req.kind = "seek" /\ FindKeyframe(log, Clamped(req.tick)) # NoKeyframe
      /\ e' = Engine(FindKeyframe(log, Clamped(req.tick)).tick,
                     FindKeyframe(log, Clamped(req.tick)).world)
      /\ target' = Clamped(req.tick) /\ pl' = "read"
      /\ UNCHANGED <<paused, done, endTick, req, broken>>
  BY DEF ServeSeek
<1>3. req.tick \in Nat /\ endTick \in Nat BY <1>2 DEF PlayerTypes, None
<1>4. Clamped(req.tick) \in 0..endTick BY <1>3 DEF Clamped
<1> HIDE DEF Clamped
<1>5. FindKeyframe(log, Clamped(req.tick)).tick \in 0..Clamped(req.tick)
  BY <1>1, <1>2, <1>4, KeyframeFound
<1>6. e'.tick \in Nat /\ e'.tick <= endTick BY <1>2, <1>3, <1>4, <1>5 DEF Engine
<1>7. target' \in Nat /\ target' <= endTick /\ target' # NoTarget
  BY <1>2, <1>3, <1>4 DEF NoTarget
<1>8. PlayerTypes' BY <1>2, <1>6, <1>7 DEF PlayerTypes, Loop
<1>9. Reading' /\ NotYet' BY <1>2, <1>7 DEF Reading, NotYet
<1>10. DoneHoldsAtEnd' BY <1>2, <1>6, <1>7 DEF DoneHoldsAtEnd
<1> QED BY <1>8, <1>9, <1>10

LEMMA SeekFailsKeeps == ASSUME IInv, SeekFails PROVE PlayerOK'
<1> USE DEF IInv, PlayerOK
<1>1. /\ pl # "read" /\ req' = None /\ pl' \in {"decide", "top", "pace"}
      /\ broken' = TRUE \/ broken' = broken
      /\ UNCHANGED <<e, target, done, paused, endTick>>
  BY DEF SeekFails, Serving, Resumes
<1>2. target = NoTarget BY <1>1, NoSeekOutside
<1>3. PlayerTypes' BY <1>1 DEF PlayerTypes, Loop
<1>4. Reading' /\ NotYet' BY <1>1, <1>2 DEF Reading, NotYet
<1>5. DoneHoldsAtEnd' BY <1>1, <1>2 DEF DoneHoldsAtEnd
<1> QED BY <1>3, <1>4, <1>5

\* A seek that lands at the end of the record holds there.
LEMMA SeekLandsKeeps == ASSUME IInv, SeekLands PROVE PlayerOK'
<1> USE DEF IInv, PlayerOK
<1>1. /\ pl = "read" /\ target # NoTarget /\ e.tick >= target
      /\ done' = (target >= endTick) /\ paused' = (paused \/ target >= endTick)
      /\ target' = NoTarget /\ req' = None /\ pl' \in {"decide", "top", "pace"}
      /\ UNCHANGED <<e, endTick, broken>>
  BY DEF SeekLands
<1>2. e.tick \in Nat /\ endTick \in Nat /\ target \in Nat /\ e.tick <= endTick
  BY <1>1 DEF PlayerTypes, DoneHoldsAtEnd
<1>3. PlayerTypes' BY <1>1 DEF PlayerTypes, Loop
<1>4. Reading' /\ NotYet' BY <1>1 DEF Reading, NotYet
<1>5. (e.tick <= endTick)' BY <1>1, <1>2
<1>6. (done => e.tick = endTick /\ paused)'
  <2>1. CASE target >= endTick
    <3>1. e.tick = endTick BY <2>1, <1>1, <1>2
    <3> QED BY <3>1, <2>1, <1>1
  <2>2. CASE ~(target >= endTick) BY <2>2, <1>1
  <2> QED BY <2>1, <2>2
<1>7. DoneHoldsAtEnd' BY <1>5, <1>6 DEF DoneHoldsAtEnd
<1> QED BY <1>3, <1>4, <1>7

LEMMA HoldKeeps == ASSUME IInv, Hold PROVE PlayerOK'
<1> USE DEF IInv, PlayerOK
<1>1. /\ pl # "read" /\ pl' = "top" /\ UNCHANGED <<e, target, endTick, req, broken>>
      /\ IF e.tick >= endTick /\ ~done
         THEN done' = TRUE /\ paused' = TRUE
         ELSE UNCHANGED <<done, paused>>
  BY DEF Hold, Deciding
<1>2. /\ target = NoTarget /\ e.tick \in Nat /\ endTick \in Nat /\ e.tick <= endTick
      /\ paused \in BOOLEAN /\ done \in BOOLEAN
  BY <1>1, NoSeekOutside DEF PlayerTypes, DoneHoldsAtEnd
<1>3. done' \in BOOLEAN /\ paused' \in BOOLEAN BY <1>1, <1>2
<1>4. PlayerTypes' BY <1>1, <1>3 DEF PlayerTypes, Loop
<1>5. Reading' /\ NotYet' BY <1>1, <1>2 DEF Reading, NotYet
<1>6. CASE e.tick >= endTick /\ ~done
  <2>1. e.tick = endTick BY <1>2, <1>6
  <2>2. DoneHoldsAtEnd' BY <1>1, <1>2, <1>6, <2>1 DEF DoneHoldsAtEnd
  <2> QED BY <1>4, <1>5, <2>2
<1>7. CASE ~(e.tick >= endTick /\ ~done)
  <2>1. UNCHANGED <<done, paused>> BY <1>1, <1>7
  <2>2. DoneHoldsAtEnd' BY <1>1, <2>1 DEF DoneHoldsAtEnd
  <2> QED BY <1>4, <1>5, <2>2
<1> QED BY <1>6, <1>7

LEMMA BeginTickKeeps == ASSUME IInv, BeginTick PROVE PlayerOK'
<1> USE DEF IInv, PlayerOK
<1>1. /\ pl # "read" /\ ~(e.tick >= endTick) /\ pl' = "read"
      /\ UNCHANGED <<e, target, paused, done, endTick, req, broken>>
  BY DEF BeginTick, Deciding, Holds
<1>2. target = NoTarget /\ e.tick \in Nat /\ endTick \in Nat
  BY <1>1, NoSeekOutside DEF PlayerTypes
<1>3. PlayerTypes' BY <1>1 DEF PlayerTypes, Loop
<1>4. Reading' /\ NotYet' BY <1>1, <1>2 DEF Reading, NotYet
<1>5. DoneHoldsAtEnd' BY <1>1 DEF DoneHoldsAtEnd
<1> QED BY <1>3, <1>4, <1>5

\* A read fault ends the playback, or the seek, which then counts as broken.
LEMMA ReadFaultKeeps == ASSUME IInv, ReadFault PROVE PlayerOK'
<1> USE DEF IInv, PlayerOK
<1>1. UNCHANGED <<e, paused, done, endTick>> /\ pl = "read" BY DEF ReadFault, Stepping
<1>2. CASE target = NoTarget /\ pl' = "exited" /\ UNCHANGED <<req, target, broken>>
  <2>1. PlayerTypes' BY <1>1, <1>2 DEF PlayerTypes, Loop
  <2>2. Reading' /\ NotYet' BY <1>1, <1>2 DEF Reading, NotYet
  <2>3. DoneHoldsAtEnd' BY <1>1, <1>2 DEF DoneHoldsAtEnd
  <2> QED BY <2>1, <2>2, <2>3
<1>3. CASE /\ broken' = TRUE /\ req' = None /\ target' = NoTarget
           /\ pl' \in {"decide", "top", "pace"}
  <2>1. PlayerTypes' BY <1>1, <1>3 DEF PlayerTypes, Loop
  <2>2. Reading' /\ NotYet' BY <1>1, <1>3 DEF Reading, NotYet
  <2>3. DoneHoldsAtEnd' BY <1>1, <1>3 DEF DoneHoldsAtEnd
  <2> QED BY <2>1, <2>2, <2>3
<1> QED BY <1>2, <1>3 DEF ReadFault

\* Steps that move only the cursor, and the pace that ends.
LEMMA CursorKeeps ==
    ASSUME IInv, UNCHANGED <<e, target, paused, done, endTick, req, broken>>,
           \/ pl' = pl
           \/ pl # "read" /\ pl # "none" /\ pl' \in {"top", "exited"}
    PROVE  PlayerOK'
<1> USE DEF IInv, PlayerOK
<1>1. PlayerTypes' BY DEF PlayerTypes, Loop
<1>2. Reading' BY NoSeekOutside DEF Reading
<1>3. NotYet' BY DEF NotYet
<1>4. DoneHoldsAtEnd' BY DEF DoneHoldsAtEnd
<1> QED BY <1>1, <1>2, <1>3, <1>4

\* A tick is stepped only below the end, or below the target of a seek.
LEMMA StepTickKeeps == ASSUME IInv, StepTick PROVE PlayerOK'
<1> USE DEF IInv, PlayerOK
<1>1. /\ pl = "read" /\ (target = NoTarget \/ e.tick < target)
      /\ UNCHANGED <<target, paused, done, endTick, req, broken>>
      /\ pl' = IF target # NoTarget THEN "read" ELSE IF e'.tick >= endTick THEN "top" ELSE "pace"
  BY DEF StepTick, Stepping
<1>2. e'.tick = e.tick + 1 BY DEF StepTick, Stepped, Engine
<1>3. e.tick \in Nat /\ endTick \in Nat BY DEF PlayerTypes
<1>4. CASE target = NoTarget
  <2>1. e.tick < endTick BY <1>1, <1>4 DEF Reading
  <2>2. e'.tick \in Nat /\ e'.tick <= endTick BY <1>2, <1>3, <2>1
  <2>3. ~(done /\ ~broken) BY <2>1, <1>3, <1>4 DEF DoneHoldsAtEnd
  <2>4. PlayerTypes' BY <1>1, <2>2 DEF PlayerTypes, Loop
  <2>5. Reading' /\ NotYet' BY <1>1, <1>4 DEF Reading, NotYet
  <2>6. DoneHoldsAtEnd' BY <1>1, <2>2, <2>3 DEF DoneHoldsAtEnd
  <2> QED BY <2>4, <2>5, <2>6
<1>5. CASE target # NoTarget
  <2>1. target \in Nat /\ e.tick < target /\ target <= endTick
    BY <1>1, <1>5 DEF Reading, PlayerTypes
  <2>2. e'.tick \in Nat /\ e'.tick <= endTick BY <1>2, <1>3, <2>1
  <2>3. PlayerTypes' BY <1>1, <2>2 DEF PlayerTypes, Loop
  <2>4. Reading' /\ NotYet' BY <1>1, <1>5, <2>1 DEF Reading, NotYet
  <2>5. DoneHoldsAtEnd' BY <1>1, <1>5, <2>2 DEF DoneHoldsAtEnd
  <2> QED BY <2>3, <2>4, <2>5
<1> QED BY <1>4, <1>5

LEMMA PlayerInductive == ASSUME IInv, [Next]_vars PROVE PlayerOK'
<1>1. CASE RecordNext /\ pl = "none" /\ UNCHANGED playerVars
  BY <1>1, CursorKeeps DEF playerVars
<1>2. CASE NewPlayer BY <1>2, NewPlayerKeeps
<1>3. CASE Request BY <1>3, RequestKeeps
<1>4. CASE Run
  <2>1. CASE ServePause BY <2>1, ServePauseKeeps
  <2>2. CASE ServeResume BY <2>2, ServeResumeKeeps
  <2>3. CASE ServeSeek BY <2>3, ServeSeekKeeps
  <2>4. CASE SeekFails BY <2>4, SeekFailsKeeps
  <2>5. CASE SeekLands BY <2>5, SeekLandsKeeps
  <2>6. CASE Hold BY <2>6, HoldKeeps
  <2>7. CASE BeginTick BY <2>7, BeginTickKeeps
  <2>8. CASE Fetch BY <2>8, CursorKeeps DEF Fetch
  <2>9. CASE ReadFault BY <2>9, ReadFaultKeeps
  <2>10. CASE Gather BY <2>10, CursorKeeps DEF Gather
  <2>11. CASE StepTick BY <2>11, StepTickKeeps
  <2>12. CASE Paced BY <2>12, CursorKeeps DEF Paced
  <2> QED BY <1>4, <2>1, <2>2, <2>3, <2>4, <2>5, <2>6, <2>7, <2>8, <2>9, <2>10, <2>11, <2>12
          DEF Run
<1>5. CASE Stop BY <1>5, CursorKeeps DEF Stop
<1>6. CASE UNCHANGED vars BY <1>6, CursorKeeps DEF vars, playerVars
<1> QED BY <1>1, <1>2, <1>3, <1>4, <1>5, <1>6 DEF Next

LEMMA PlayerInitially == Init => PlayerOK
<1> SUFFICES ASSUME Init PROVE PlayerOK OBVIOUS
<1>1. /\ pl = "none" /\ e.tick = 0 /\ endTick = 0 /\ target = NoTarget /\ req = None
      /\ paused = FALSE /\ done = FALSE /\ broken = FALSE
  BY DEF Init, Engine
<1>2. PlayerTypes
  <2>1. e.tick \in Nat /\ endTick \in Nat BY <1>1
  <2>2. paused \in BOOLEAN /\ done \in BOOLEAN /\ broken \in BOOLEAN BY <1>1
  <2> QED BY <1>1, <2>1, <2>2 DEF PlayerTypes
<1>3. Reading /\ NotYet BY <1>1 DEF Reading, NotYet
<1>4. DoneHoldsAtEnd BY <1>1 DEF DoneHoldsAtEnd
<1> QED BY <1>2, <1>3, <1>4 DEF PlayerOK

-----------------------------------------------------------------------------
(* The theorems. *)

\* The two halves are an invariant: what the recorder, the wire and the stream
\* make of a run, and what the player's loop makes of it.
THEOREM PlayerInvariant == Spec => []IInv
<1>1. Init => IInv BY RecordInitially, PlayerInitially DEF IInv
<1>2. IInv /\ [Next]_vars => IInv'
  <2> SUFFICES ASSUME IInv, [Next]_vars PROVE IInv' OBVIOUS
  <2>1. RecordOK' BY RecordInductive DEF IInv
  <2>2. PlayerOK' BY PlayerInductive
  <2> QED BY <2>1, <2>2 DEF IInv
<1> QED BY <1>1, <1>2, PTL DEF Spec

\* What the recorder took as recorded is the run's own messages, in order and
\* without a gap, whatever the wire lost or another recorder wrote (publish,
\* awaitBatch).
THEOREM RecordingsHaveNoHoles == Spec => []AcknowledgedIsRecorded
<1>1. IInv => AcknowledgedIsRecorded
  <2> SUFFICES ASSUME RecordOK PROVE AcknowledgedIsRecorded BY DEF IInv
  <2> USE DEF RecordOK, RecordTypes
  <2> DEFINE a == SubSeq(log, 1, lastSeq)
             b == SubSeq(said, 1, lastSeq)
  <2>1. /\ lastSeq \in Nat /\ lastSeq <= Len(log) /\ lastSeq <= Len(said)
        /\ Len(log) \in Nat /\ Len(said) \in Nat
    BY LenProperties DEF Agreed, Cursor
  <2>2. \A i \in 1..lastSeq : log[i] \in Message /\ said[i] \in Message /\ log[i] = said[i]
    BY <2>1, ElementOfSeq DEF Agreed
  <2>3. lastSeq \in Int /\ 1 \in Int /\ lastSeq - 1 + 1 = lastSeq BY <2>1
  <2>4. /\ a \in Seq(Message) /\ Len(a) = IF 1 <= lastSeq THEN lastSeq - 1 + 1 ELSE 0
        /\ \A i \in 1..lastSeq - 1 + 1 : a[i] = log[1 + i - 1]
    BY <2>2, <2>3, SubSeqProperties
  <2>5. /\ b \in Seq(Message) /\ Len(b) = IF 1 <= lastSeq THEN lastSeq - 1 + 1 ELSE 0
        /\ \A i \in 1..lastSeq - 1 + 1 : b[i] = said[1 + i - 1]
    BY <2>2, <2>3, SubSeqProperties
  <2> HIDE DEF a, b
  <2>6. Len(a) = Len(b) /\ Len(a) = lastSeq BY <2>1, <2>4, <2>5
  <2>7. \A i \in 1..Len(a) : a[i] = b[i]
    <3> TAKE i \in 1..Len(a)
    <3>1. i \in 1..lastSeq /\ 1 + i - 1 = i BY <2>1, <2>6
    <3>2. a[i] = log[i] /\ b[i] = said[i] BY <3>1, <2>3, <2>4, <2>5
    <3> QED BY <3>1, <3>2, <2>2
  <2>8. a = b BY <2>4, <2>5, <2>6, <2>7, SeqEqual
  <2> QED BY <2>1, <2>8 DEF AcknowledgedIsRecorded, Agreed, a, b
<1> QED BY <1>1, PlayerInvariant, PTL

\* No resume, seek or step lets the playhead run past the end of the record,
\* and done is said only of one that holds there (Run, handleCtrl, seek).
THEOREM DoneIsAtTheEnd == Spec => []DoneHoldsAtEnd
<1>1. IInv => DoneHoldsAtEnd BY DEF IInv, PlayerOK
<1> QED BY <1>1, PlayerInvariant, PTL

===============================================================================
