-------------------------------- MODULE Player --------------------------------
(***************************************************************************)
(* The replay player (engine/natsio/player.go) and its forward cursor over *)
(* the log (engine/natsio/logcursor.go), on a record that RecordPlane      *)
(* wrote and that no longer changes.                                       *)
(*                                                                         *)
(* One goroutine owns the engine: it serves a control request, then holds, *)
(* pauses or steps, then waits out the pace, serving requests meanwhile.   *)
(* A seek restores a keyframe, re-anchors the cursor and re-simulates.  An *)
(* HTTP client has one request under way at a time.  The broker may forget *)
(* the cursor's consumer between two fetches, and a fetch may fail.        *)
(* Frames, speed and the paused republication change no state that the     *)
(* playhead depends on and are left out.                                   *)
(***************************************************************************)
EXTENDS RecordPlane

CONSTANTS
    Batch,        \* cursorBatch: messages per fetch
    MaxRequests,  \* bound: control requests
    MaxFaults     \* bound: reads that fail

ASSUME PlayerAssumption ==
    Batch \in Nat \ {0} /\ MaxRequests \in Nat /\ MaxFaults \in Nat

VARIABLES
    pl,      \* "none", "refused", "top", "decide", "read", "pace" or "exited"
    e,       \* the player's engine
    cur,     \* the cursor
    got,     \* what records has gathered for the next tick
    target,  \* the tick a seek re-simulates to, or NoTarget
    back,    \* where the loop goes on after a request
    paused, done, endTick,
    req,     \* the request under way, or None
    broken,  \* history: a seek failed after it had touched the cursor
    diverged, \* a checksum disagreed during forward playback
    requests, faults \* how many so far

playerVars == <<pl, e, cur, got, target, back, paused, done, endTick, req,
                broken, diverged, requests, faults>>
vars == <<recordVars, playerVars>>

None == [kind |-> "none", tick |-> -1]
NoTarget == -1

Recorded == wire = <<>> /\ rec \in {"done", "aborted", "dead"}

-----------------------------------------------------------------------------
(* The cursor: buf and pending are stream sequences read but not consumed.  *)

\* newLogCursor, and open within reset.
Opened(from) == [open |-> TRUE, at |-> from - 1, last |-> Len(log), buf |-> <<>>, pending |-> 0]

\* close.
Closed(c) == [c EXCEPT !.open = FALSE, !.buf = <<>>, !.pending = 0]

\* reset(curSeq + 1): nothing is buffered when a fetch is due.
Reopened(c) == c.at + 1

Fetched(c, gone) ==
    LET from == IF gone THEN Reopened(c) ELSE c.at + 1
        to == IF from + Batch - 1 > c.last THEN c.last ELSE from + Batch - 1 IN
    [c EXCEPT !.buf = [i \in 1..to - from + 1 |-> from + i - 1], !.at = to]

Unread == IF cur.pending # 0 THEN <<cur.pending>> \o cur.buf ELSE cur.buf
MustFetch == Unread = <<>> /\ cur.at < cur.last
AtEnd == Unread = <<>> /\ cur.at >= cur.last

-----------------------------------------------------------------------------
(* NewPlayer. *)

NewPlayer ==
    /\ Recorded
    /\ pl = "none"
    /\ IF status = "none" \/ FindKeyframe(log, 0) = NoKeyframe \/ DuplicateAnchor(log)
       THEN pl' = "refused" /\ UNCHANGED <<e, cur, endTick>>
       ELSE /\ pl' = "top"
            /\ e' = Engine(FindKeyframe(log, 0).tick, FindKeyframe(log, 0).world)
            /\ cur' = Opened(1)
            /\ endTick' = Horizon(log, status = "done", Ticks)
    /\ UNCHANGED <<recordVars, got, target, back, paused, done, req, broken, diverged,
                   requests, faults>>

-----------------------------------------------------------------------------
(* The control plane. *)

\* Handler, ctrl: a request waits for the Run goroutine to take it.
Request ==
    /\ pl \in {"top", "decide", "read", "pace"}
    /\ req = None /\ requests < MaxRequests
    /\ requests' = requests + 1
    /\ \E r \in [kind : {"pause", "resume"}, tick : {0}] \cup [kind : {"seek"}, tick : 0..Ticks] :
          /\ req' = r
    /\ UNCHANGED <<recordVars, pl, e, cur, got, target, back, paused, done, endTick,
                   broken, diverged, faults>>

Serving == pl \in {"top", "pace"} /\ req # None
\* Where the loop goes on; a pause ends the pace sleep.
Resumes(p) == IF pl = "top" THEN "decide" ELSE IF p THEN "top" ELSE "pace"

ServePause ==
    /\ Serving /\ req.kind = "pause"
    /\ paused' = TRUE
    /\ req' = None
    /\ pl' = Resumes(TRUE)
    /\ UNCHANGED <<recordVars, e, cur, got, target, back, done, endTick, broken, diverged,
                   requests, faults>>

\* A resume at the end of the record is refused.
ResumeRefused == done \/ e.tick >= endTick
ServeResume ==
    /\ Serving /\ req.kind = "resume"
    /\ paused' = (paused /\ ResumeRefused)
    /\ req' = None
    /\ pl' = Resumes(paused')
    /\ UNCHANGED <<recordVars, e, cur, got, target, back, done, endTick, broken, diverged,
                   requests, faults>>

\* A target behind the end of the record is taken as it is.
Unclamped(t) == t

\* seek's target is clamped to the record.
Clamped(t) == IF t > endTick THEN endTick ELSE t

\* seek up to the re-simulation: the engine is replaced and the cursor moved.
ServeSeek ==
    /\ Serving /\ req.kind = "seek"
    /\ LET kf == FindKeyframe(log, Clamped(req.tick)) IN
          /\ kf # NoKeyframe
          /\ cur' = Opened(kf.seq + 1)
          /\ e' = Engine(kf.tick, kf.world)
          /\ target' = Clamped(req.tick)
    /\ got' = <<>>
    /\ back' = pl
    /\ pl' = "read"
    /\ UNCHANGED <<recordVars, paused, done, endTick, req, broken, diverged, requests, faults>>

\* A seek whose keyframe cannot be read changes nothing; one whose cursor
\* cannot be reopened has closed it.
SeekFails ==
    /\ Serving /\ req.kind = "seek"
    /\ \/ FindKeyframe(log, Clamped(req.tick)) = NoKeyframe
          /\ UNCHANGED <<cur, faults, broken>>
       \/ /\ faults < MaxFaults /\ faults' = faults + 1
          /\ \/ UNCHANGED <<cur, broken>>
             \/ cur' = Closed(cur) /\ broken' = TRUE
    /\ req' = None
    /\ pl' = Resumes(paused)
    /\ UNCHANGED <<recordVars, e, got, target, back, paused, done, endTick, diverged,
                   requests>>

\* The re-simulation has reached its target.
SeekLands ==
    /\ pl = "read" /\ target # NoTarget /\ e.tick >= target
    /\ done' = (target >= endTick)
    /\ paused' = (paused \/ target >= endTick)
    /\ target' = NoTarget
    /\ req' = None
    /\ pl' = IF back = "top" THEN "decide" ELSE IF paused' THEN "top" ELSE "pace"
    /\ UNCHANGED <<recordVars, e, cur, got, back, endTick, broken, diverged, requests, faults>>

-----------------------------------------------------------------------------
(* The loop. *)

Deciding == pl = "decide" \/ (pl = "top" /\ req = None)

\* The end of the recording is a hold; a pause is one too.
Holds == e.tick >= endTick \/ paused

Hold ==
    /\ Deciding
    /\ Holds
    /\ IF e.tick >= endTick /\ ~done
       THEN done' = TRUE /\ paused' = TRUE
       ELSE UNCHANGED <<done, paused>>
    /\ pl' = "top"
    /\ UNCHANGED <<recordVars, e, cur, got, target, back, endTick, req, broken, diverged,
                   requests, faults>>

BeginTick ==
    /\ Deciding
    /\ ~Holds
    /\ pl' = "read"
    /\ got' = <<>>
    /\ UNCHANGED <<recordVars, e, cur, target, back, paused, done, endTick, req,
                   broken, diverged, requests, faults>>

Stepping == pl = "read" /\ (target = NoTarget \/ e.tick < target)

\* nextMsg: the next batch, from a new consumer if the old one is gone.
Fetch ==
    /\ Stepping /\ MustFetch /\ cur.open
    /\ \E gone \in BOOLEAN : cur' = Fetched(cur, gone)
    /\ UNCHANGED <<recordVars, pl, e, got, target, back, paused, done, endTick, req,
                   broken, diverged, requests, faults>>

\* A read that fails ends the playback, or the seek where it stands.
ReadFault ==
    /\ Stepping /\ MustFetch
    /\ \/ faults < MaxFaults /\ faults' = faults + 1
       \/ ~cur.open /\ UNCHANGED faults
    /\ IF target = NoTarget
       THEN pl' = "exited" /\ UNCHANGED <<req, target, broken>>
       ELSE /\ broken' = TRUE
            /\ pl' = IF back = "top" THEN "decide" ELSE IF paused THEN "top" ELSE "pace"
            /\ req' = None /\ target' = NoTarget
    /\ UNCHANGED <<recordVars, e, cur, got, back, paused, done, endTick, diverged, requests>>

\* The first unread message of a tick after the next one, if there is any yet.
LaterGroup ==
    LET later == {i \in DOMAIN Unread : log[Unread[i]].tick > e.tick + 1} IN
    IF later = {} THEN Len(Unread) + 1 ELSE Lowest(later)

\* records: messages of the next tick are gathered, earlier ones dropped.
Gather ==
    /\ Stepping /\ LaterGroup > 1
    /\ LET read == SubSeq(Unread, 1, LaterGroup - 1)
           mine(seq) == log[seq].tick = e.tick + 1 IN
       got' = got \o SelectSeq(read, mine)
    /\ cur' = [cur EXCEPT !.pending = 0, !.buf = SubSeq(Unread, LaterGroup, Len(Unread))]
    /\ UNCHANGED <<recordVars, pl, e, target, back, paused, done, endTick, req,
                   broken, diverged, requests, faults>>

\* The message that ends the group is lost to the next one.
LetGo == [cur EXCEPT !.pending = 0, !.buf = Tail(Unread)]

\* The message that ends the group is held back for the next one.
HeldBack == [cur EXCEPT !.pending = Head(Unread), !.buf = Tail(Unread)]

Messages(seqs) == [i \in DOMAIN seqs |-> log[seqs[i]]]

\* The group is complete: the tick is stepped and its checksum compared.
StepTick ==
    /\ Stepping /\ ~MustFetch /\ LaterGroup = 1
    /\ cur' = IF AtEnd THEN cur ELSE HeldBack
    /\ e' = Stepped(e, InputsOf(Messages(got), e.tick + 1))
    /\ diverged' = (diverged \/ (target = NoTarget /\ Disagrees(Messages(got), e')))
    /\ got' = <<>>
    /\ pl' = IF target # NoTarget THEN "read" ELSE IF e'.tick >= endTick THEN "top" ELSE "pace"
    /\ UNCHANGED <<recordVars, target, back, paused, done, endTick, req, broken,
                   requests, faults>>

\* paceSleep ends.
Paced ==
    /\ pl = "pace"
    /\ pl' = "top"
    /\ UNCHANGED <<recordVars, e, cur, got, target, back, paused, done, endTick, req,
                   broken, diverged, requests, faults>>

\* Stop: the loop ends between two ticks.
Stop ==
    /\ pl \in {"top", "pace"}
    /\ pl' = "exited"
    /\ UNCHANGED <<recordVars, e, cur, got, target, back, paused, done, endTick, req,
                   broken, diverged, requests, faults>>

-----------------------------------------------------------------------------
Init ==
    /\ RecordInit
    /\ pl = "none" /\ e = Engine(0, <<>>)
    /\ cur = [open |-> FALSE, at |-> 0, last |-> 0, buf |-> <<>>, pending |-> 0]
    /\ got = <<>> /\ target = NoTarget /\ back = "top"
    /\ paused = FALSE /\ done = FALSE /\ endTick = 0
    /\ req = None /\ diverged = FALSE /\ broken = FALSE
    /\ requests = 0 /\ faults = 0

\* The Run goroutine.
Run ==
    \/ ServePause \/ ServeResume \/ ServeSeek \/ SeekFails \/ SeekLands
    \/ Hold \/ BeginTick \/ Fetch \/ ReadFault \/ Gather \/ StepTick \/ Paced

Next ==
    \/ RecordNext /\ pl = "none" /\ UNCHANGED playerVars
    \/ NewPlayer \/ Request \/ Run \/ Stop

Spec == Init /\ [][Next]_vars

-----------------------------------------------------------------------------
(* Properties. *)

\* Up to the last tick whose record was acknowledged, the player shows the run
\* and nothing else: stepping forward, after any seek, and while a consumer
\* vanishes between fetches (stepTick, seek, logCursor), as long as no seek has
\* failed half way; and a divergence it reports is one of the tail behind that.
PlaybackIsTheRun ==
    (pl \notin {"none", "refused"} /\ ~broken) =>
        /\ e.tick <= durable => e.world = SubSeq(run.world, 1, e.tick)
        /\ diverged => endTick > durable

\* A read fault is never swallowed: no tick is stepped without its recorded
\* inputs, a seek that failed included (stepTick).
NoUncontrolledTick ==
    (pl \notin {"none", "refused"} /\ e.tick <= durable) =>
        e.world = SubSeq(run.world, 1, e.tick)

\* Done is said only of a playhead that holds, paused, at the end of the record,
\* and a playhead that could be resumed there never is: no resume, seek or step
\* lets it run past its horizon (Run, handleCtrl, seek).
DoneHoldsAtEnd ==
    /\ e.tick <= endTick
    /\ (done /\ target = NoTarget /\ ~broken) => e.tick = endTick /\ paused

===============================================================================
