---------------------------- MODULE VoiceSession ----------------------------
(***************************************************************************)
(* Browser voice sessions (runtime.cpp): audio arrives in small POSTs into *)
(* a bounded queue, a runner thread per session consumes it, and events    *)
(* leave over a separate SSE request through a second bounded queue.       *)
(* Creating a session sweeps the finished ones, joining their runners      *)
(* under the map's lock; so does the server's destructor, without it.      *)
(*                                                                         *)
(* Data.  Audio is counted in the blocks the runner reads.  An event is    *)
(* its number.  Of the voice turn (module VoiceTurn) only what a session   *)
(* can tell is kept: whether a turn is open, and that its end, and the end *)
(* of the stream in the middle of it, emit a final transcript.             *)
(***************************************************************************)
EXTENDS Naturals, Sequences, FiniteSets

CONSTANTS
    Requests,       \* the threads that serve requests
    MaxSessions,    \* bound on the sessions created
    Used,           \* the sessions whose client ever comes back
    MaxEvents,      \* bound on the events of each session before its last one
    AudioCap,       \* the 30 s of audio a session queues, in blocks
    EventCap        \* the 512 events a session queues

ASSUME VoiceSessionAssumption ==
    /\ MaxSessions \in Nat /\ Used \subseteq 1 .. MaxSessions
    /\ MaxEvents \in [1 .. MaxSessions -> Nat]
    /\ AudioCap \in Nat \ {0} /\ EventCap \in Nat \ {0}

Sessions == 1 .. MaxSessions

VARIABLES
    created,        \* voice_session_counter_
    listed,         \* the keys of voice_sessions_
    audio, events,  \* the two queues of a session
    closed,
    runner,         \* the life of a session's thread; see done
    speaking,       \* the runner is in a turn
    at,             \* what each request is doing
    on,             \* the session it does it to, 0 if none
    todo,           \* sessions the sweep has still to look at
    batch, finished, \* an events reader's locals
    shutdown,       \* the destructor: "no", "closing", "over"
    doomed,         \* the sessions the destructor has still to join
    sent            \* history: events emitted

queueVars   == <<audio, events, sent>>
readerVars  == <<batch, finished>>
endVars     == <<shutdown, doomed>>
mapVars     == <<created, listed, todo>>
sessionVars == <<mapVars, queueVars, closed, runner, speaking, at, on, readerVars, endVars>>

Locked == {"sweep", "join"}

SessionTypeOK ==
    /\ created \in 0 .. MaxSessions
    /\ listed \subseteq 1 .. created /\ todo \subseteq listed
    /\ audio \in [Sessions -> 0 .. AudioCap]
    /\ events \in [Sessions -> Seq(Nat)]
    /\ closed \in [Sessions -> BOOLEAN] /\ speaking \in [Sessions -> BOOLEAN]
    /\ runner \in [Sessions -> {"none", "running", "leaving", "failing", "exited", "joined"}]
    /\ at \in [Requests -> {"idle", "start", "audio", "stop", "wait", "write"} \cup Locked]
    /\ on \in [Requests -> 0 .. MaxSessions]
    /\ \A r \in Requests : at[r] \notin {"idle", "sweep"} => on[r] \in Sessions
    /\ batch \in [Requests -> Seq(Nat)]
    /\ finished \in [Requests -> BOOLEAN]
    /\ shutdown \in {"no", "closing", "over"}
    /\ doomed \subseteq Sessions
    /\ sent \in [Sessions -> Nat] /\ \A s \in Sessions : sent[s] <= MaxEvents[s] + 1

SessionInit ==
    /\ created = 0 /\ listed = {} /\ todo = {}
    /\ audio = [s \in Sessions |-> 0]
    /\ events = [s \in Sessions |-> <<>>]
    /\ closed = [s \in Sessions |-> FALSE] /\ speaking = closed
    /\ runner = [s \in Sessions |-> "none"]
    /\ at = [r \in Requests |-> "idle"] /\ on = [r \in Requests |-> 0]
    /\ batch = [r \in Requests |-> <<>>]
    /\ finished = [r \in Requests |-> FALSE]
    /\ shutdown = "no" /\ doomed = {}
    /\ sent = [s \in Sessions |-> 0]

\* voice_sessions_mutex_, held by a creator from its first look at the map until it
\* has inserted its own session.
MutexFree == \A r \in Requests : at[r] \notin Locked

\* The runner sets done as the last thing it does.
done == [s \in Sessions |-> runner[s] \in {"exited", "joined"}]

Goto(r, place, s) == at' = [at EXCEPT ![r] = place] /\ on' = [on EXCEPT ![r] = s]

----------------------------------------------------------------------------
\* hooks.emit: append, and drop the oldest event beyond the cap.

\* Slip: the newest event is the one that finds no room.
KeepOldest(q, e) == IF Len(q) < EventCap THEN Append(q, e) ELSE q

KeepNewest(q, e) == IF Len(q) < EventCap THEN Append(q, e) ELSE Append(Tail(q), e)

Emit(s) ==
    LET e == sent[s] + 1
    IN  /\ sent' = [sent EXCEPT ![s] = e]
        /\ events' = [events EXCEPT ![s] = KeepNewest(@, e)]

----------------------------------------------------------------------------
\* handle_voice_session_create()
Create(r) ==
    /\ shutdown # "over"
    /\ at[r] = "idle" /\ MutexFree /\ created < MaxSessions
    /\ Goto(r, "sweep", 0)
    /\ todo' = listed
    /\ UNCHANGED <<created, listed, queueVars, closed, runner, speaking, readerVars,
                   endVars>>

\* A session is swept when it is over and all its events were read, or when it is
\* half an hour old: that can be at any time, once its thread has been started.
Drained(s) == done[s] /\ events[s] = <<>>

SweepKeeps(r, s) ==
    /\ at[r] = "sweep" /\ s \in todo
    /\ ~ Drained(s)
    /\ todo' = todo \ {s}
    /\ UNCHANGED <<created, listed, queueVars, closed, runner, speaking, at, on,
                   readerVars, endVars>>

\* close_voice_session(): tell the runner ...
SweepCloses(r, s) ==
    /\ at[r] = "sweep" /\ s \in todo
    /\ Drained(s) \/ runner[s] # "none"
    /\ closed' = [closed EXCEPT ![s] = TRUE]
    /\ Goto(r, "join", s)
    /\ UNCHANGED <<mapVars, queueVars, runner, speaking, readerVars, endVars>>

\* The thread can be joined: it has exited; one that is not joinable is not waited for.
Joinable(s) == runner[s] \in {"running", "leaving", "failing", "exited"}
CanJoin(s) == Joinable(s) => runner[s] = "exited"
AfterJoin(s) == IF runner[s] = "exited" THEN [runner EXCEPT ![s] = "joined"] ELSE runner

\* ... and wait for it, under the lock; then forget the session.
SweepJoins(r) ==
    /\ at[r] = "join"
    /\ CanJoin(on[r])
    /\ runner' = AfterJoin(on[r])
    /\ listed' = listed \ {on[r]}
    /\ todo' = todo \ {on[r]}
    /\ Goto(r, "sweep", 0)
    /\ UNCHANGED <<created, queueVars, closed, speaking, readerVars, endVars>>

\* The new session is in the map before its thread exists.
Insert(r) ==
    /\ at[r] = "sweep" /\ todo = {}
    /\ created' = created + 1
    /\ listed' = listed \cup {created'}
    /\ Goto(r, "start", created')
    /\ UNCHANGED <<todo, queueVars, closed, runner, speaking, readerVars, endVars>>

StartRunner(r) ==
    /\ at[r] = "start"
    /\ runner' = [runner EXCEPT ![on[r]] = "running"]
    /\ Goto(r, "idle", 0)
    /\ UNCHANGED <<mapVars, queueVars, closed, speaking, readerVars, endVars>>

----------------------------------------------------------------------------
\* handle_voice_session_audio(), _events() and _stop() look the session up under the
\* lock and work on it without; a session that is not found is a 404.
LookUp(r, s, what) ==
    /\ shutdown # "over"
    /\ at[r] = "idle" /\ MutexFree /\ s \in listed
    /\ Goto(r, what, s)
    /\ UNCHANGED <<mapVars, queueVars, closed, runner, speaking, readerVars, endVars>>

\* Slip: a closed session still takes audio.
PostAudioAnyway(r, n) ==
    /\ at[r] = "audio"
    /\ audio' = [audio EXCEPT ![on[r]] = IF @ + n > AudioCap THEN AudioCap ELSE @ + n]
    /\ Goto(r, "idle", 0)
    /\ UNCHANGED <<mapVars, events, sent, closed, runner, speaking, readerVars, endVars>>

\* Slip: a stalled runner lets the queue grow.
PostAudioUncapped(r, n) ==
    /\ at[r] = "audio"
    /\ audio' = IF closed[on[r]] THEN audio ELSE [audio EXCEPT ![on[r]] = @ + n]
    /\ Goto(r, "idle", 0)
    /\ UNCHANGED <<mapVars, events, sent, closed, runner, speaking, readerVars, endVars>>

\* n blocks of audio; the oldest make room.  A closed session answers 409.
PostAudio(r, n) ==
    /\ at[r] = "audio"
    /\ audio' = IF closed[on[r]] THEN audio
                ELSE [audio EXCEPT ![on[r]] = IF @ + n > AudioCap THEN AudioCap ELSE @ + n]
    /\ Goto(r, "idle", 0)
    /\ UNCHANGED <<mapVars, events, sent, closed, runner, speaking, readerVars, endVars>>

Stop(r) ==
    /\ at[r] = "stop"
    /\ closed' = [closed EXCEPT ![on[r]] = TRUE]
    /\ Goto(r, "idle", 0)
    /\ UNCHANGED <<mapVars, queueVars, runner, speaking, readerVars, endVars>>

----------------------------------------------------------------------------
\* The SSE loop of handle_voice_session_events().

\* The wait is over (something to say, or 15 s): take everything there is.
Drain(r) ==
    /\ at[r] = "wait"
    /\ LET s == on[r]
       IN  /\ batch' = [batch EXCEPT ![r] = events[s]]
           /\ events' = [events EXCEPT ![s] = <<>>]
           /\ finished' = [finished EXCEPT ![r] = done[s]]
    /\ at' = [at EXCEPT ![r] = "write"]
    /\ UNCHANGED <<mapVars, audio, sent, closed, runner, speaking, on, endVars>>

\* An event is written; after the last one the loop starts over, or ends.
WriteEvent(r) ==
    /\ at[r] = "write" /\ batch[r] # <<>>
    /\ batch' = [batch EXCEPT ![r] = Tail(@)]
    /\ at' = IF Len(batch[r]) = 1 /\ ~ finished[r] THEN [at EXCEPT ![r] = "wait"] ELSE at
    /\ UNCHANGED <<mapVars, queueVars, closed, runner, speaking, on, endVars, finished>>

WritePing(r) ==
    /\ at[r] = "write" /\ batch[r] = <<>> /\ ~ finished[r]
    /\ at' = [at EXCEPT ![r] = "wait"]
    /\ UNCHANGED <<mapVars, queueVars, closed, runner, speaking, on, readerVars,
                   endVars>>

WriteDone(r) ==
    /\ at[r] = "write" /\ batch[r] = <<>> /\ finished[r]
    /\ finished' = [finished EXCEPT ![r] = FALSE]
    /\ Goto(r, "idle", 0)
    /\ UNCHANGED <<mapVars, queueVars, closed, runner, speaking, batch, endVars>>

\* A write found the client gone: what it was to hear is lost, the session closed.
ClientGone(r) ==
    /\ at[r] = "write"
    /\ closed' = [closed EXCEPT ![on[r]] = TRUE]
    /\ batch' = [batch EXCEPT ![r] = <<>>]
    /\ finished' = [finished EXCEPT ![r] = FALSE]
    /\ Goto(r, "idle", 0)
    /\ UNCHANGED <<mapVars, queueVars, runner, speaking, endVars>>

----------------------------------------------------------------------------
\* The runner: VoiceLiveRunner::run() on the audio queue.

\* stream.read() waits for audio or for the end of it.
HasAudio(s) == runner[s] = "running" /\ audio[s] > 0

Quiet(s) ==
    /\ HasAudio(s)
    /\ audio' = [audio EXCEPT ![s] = @ - 1]
    /\ UNCHANGED <<mapVars, events, sent, closed, runner, speaking, at, on, readerVars,
                   endVars>>

\* A block in which a turn begins, or with which one ends in its final transcript.
TurnEvent(s) ==
    /\ HasAudio(s) /\ sent[s] < MaxEvents[s]
    /\ audio' = [audio EXCEPT ![s] = @ - 1]
    /\ speaking' = [speaking EXCEPT ![s] = ~ @]
    /\ Emit(s)
    /\ UNCHANGED <<mapVars, closed, runner, at, on, readerVars, endVars>>

\* The decode worker reports a partial or stable transcript.
PartialEvent(s) ==
    /\ runner[s] = "running" /\ speaking[s] /\ sent[s] < MaxEvents[s]
    /\ Emit(s)
    /\ UNCHANGED <<mapVars, audio, closed, runner, speaking, at, on, readerVars,
                   endVars>>

\* Slip: a closed session's runner leaves its queue unread.
StreamEndsAtOnce(s) ==
    /\ runner[s] = "running" /\ closed[s]
    /\ runner' = [runner EXCEPT ![s] = "leaving"]
    /\ speaking' = [speaking EXCEPT ![s] = FALSE]
    /\ IF speaking[s] THEN Emit(s) ELSE UNCHANGED <<sent, events>>
    /\ UNCHANGED <<mapVars, audio, closed, at, on, readerVars, endVars>>

\* aborted(), or read() returned false: an open turn gets its final transcript.
StreamEnds(s) ==
    /\ runner[s] = "running" /\ closed[s] /\ audio[s] = 0
    /\ runner' = [runner EXCEPT ![s] = "leaving"]
    /\ speaking' = [speaking EXCEPT ![s] = FALSE]
    /\ IF speaking[s] THEN Emit(s) ELSE UNCHANGED <<sent, events>>
    /\ UNCHANGED <<mapVars, audio, closed, at, on, readerVars, endVars>>

\* The VAD cannot be loaded, or fails: an error event.
RunnerThrows(s) ==
    /\ runner[s] = "running"
    /\ runner' = [runner EXCEPT ![s] = "failing"]
    /\ speaking' = [speaking EXCEPT ![s] = FALSE]
    /\ Emit(s)
    /\ UNCHANGED <<mapVars, audio, closed, at, on, readerVars, endVars>>

\* Slip: done is set when the stream is over, before the open turn is committed.
SetDoneEarly(s) ==
    /\ runner[s] \in {"running", "leaving", "failing"} /\ closed[s] /\ audio[s] = 0
    /\ runner' = [runner EXCEPT ![s] = "exited"]
    /\ UNCHANGED <<mapVars, queueVars, closed, speaking, at, on, readerVars, endVars>>

SetDone(s) ==
    /\ runner[s] \in {"leaving", "failing"}
    /\ runner' = [runner EXCEPT ![s] = "exited"]
    /\ UNCHANGED <<mapVars, queueVars, closed, speaking, at, on, readerVars, endVars>>

----------------------------------------------------------------------------
\* ~ServerState(): request threads are detached and may still be about.
Shutdown ==
    /\ shutdown = "no" /\ MutexFree
    /\ shutdown' = "closing"
    /\ doomed' = listed
    /\ listed' = {}
    /\ UNCHANGED <<created, todo, queueVars, closed, runner, speaking, at, on,
                   readerVars>>

ShutdownCloses(s) ==
    /\ s \in doomed /\ ~ closed[s]
    /\ closed' = [closed EXCEPT ![s] = TRUE]
    /\ UNCHANGED <<mapVars, queueVars, runner, speaking, at, on, readerVars, endVars>>

\* Slip: the destructor only tells the runners.
ShutdownForgets(s) ==
    /\ s \in doomed /\ closed[s]
    /\ doomed' = doomed \ {s}
    /\ UNCHANGED <<mapVars, queueVars, closed, runner, speaking, at, on, readerVars, shutdown>>

ShutdownJoins(s) ==
    /\ s \in doomed /\ closed[s] /\ CanJoin(s)
    /\ runner' = AfterJoin(s)
    /\ doomed' = doomed \ {s}
    /\ UNCHANGED <<mapVars, queueVars, closed, speaking, at, on, readerVars, shutdown>>

ShutdownOver ==
    /\ shutdown = "closing" /\ doomed = {}
    /\ shutdown' = "over"
    /\ UNCHANGED <<mapVars, queueVars, closed, runner, speaking, at, on, readerVars,
                   doomed>>

----------------------------------------------------------------------------
CreateSteps(r) ==
    \/ \E s \in todo : SweepKeeps(r, s) \/ SweepCloses(r, s)
    \/ SweepJoins(r) \/ Insert(r) \/ StartRunner(r)

ReaderSteps(r) == Drain(r) \/ WriteEvent(r) \/ WritePing(r) \/ WriteDone(r) \/ ClientGone(r)

RunnerSteps(s) ==
    Quiet(s) \/ TurnEvent(s) \/ PartialEvent(s) \/ StreamEnds(s) \/ RunnerThrows(s) \/ SetDone(s)

ShutdownSteps ==
    ShutdownOver \/ \E s \in doomed : ShutdownCloses(s) \/ ShutdownJoins(s)

SessionNext ==
    \/ \E r \in Requests :
         \/ Create(r) \/ CreateSteps(r) \/ ReaderSteps(r) \/ Stop(r)
         \/ \E n \in 1 .. AudioCap + 1 : PostAudio(r, n)
         \/ \E s \in listed \cap Used, what \in {"audio", "stop", "wait"} : LookUp(r, s, what)
    \/ \E s \in Sessions : RunnerSteps(s)
    \/ Shutdown \/ ShutdownSteps

\* Fairness: a thread that can go on does.  A decode returns (it is part of a runner's
\* step), so does the write of a reader; that a client asks for anything is not assumed.
SessionFairness ==
    /\ \A r \in Requests : WF_sessionVars(CreateSteps(r))
    /\ \A s \in Sessions : WF_sessionVars(RunnerSteps(s))
    /\ WF_sessionVars(ShutdownSteps)

SessionSafetySpec == SessionInit /\ [][SessionNext]_sessionVars
SessionSpec == SessionSafetySpec /\ SessionFairness

----------------------------------------------------------------------------
\* The number of the oldest event in a session's queue.
OldestQueued ==
    [s \in Sessions |-> IF events[s] = <<>> THEN sent[s] + 1 ELSE Head(events[s])]

Feed == INSTANCE EventFeed WITH
    Feeds <- Sessions, Cap <- EventCap, oldest <- OldestQueued, over <- done

(* The event queue of every session is an EventFeed, whoever reads it and    *)
(* whenever: an event leaves it unread only when 512 newer ones were waiting, *)
(* a reader gets all that is left, and nothing is emitted once the session    *)
(* says that it is done.                                                      *)
EventsAreFeeds == Feed!FeedSpec

(* A client that is told [DONE] missed nothing: once a reader has decided to  *)
(* say so, no event is left in the queue, a turn that was cut off by stop has *)
(* had its final transcript, and the runner has nothing more to say.          *)
DoneMeansAllSaid ==
    \A r \in Requests : finished[r] =>
        /\ events[on[r]] = <<>>
        /\ ~ speaking[on[r]]
        /\ runner[on[r]] \in {"exited", "joined"}

(* The audio that was accepted before a session was closed is transcribed: a  *)
(* runner that is not stopped by an error leaves with its queue empty, and no *)
(* audio is accepted after that.                                              *)
DrainedBeforeDone ==
    \A s \in Sessions : runner[s] = "leaving" => closed[s] /\ audio[s] = 0

(* Closing a session, by whichever request, sweep or shutdown, ends its       *)
(* runner; so a creator that joins runners under the map's lock gives the     *)
(* lock back, and the server's destructor returns.                            *)
ClosingEnds ==
    /\ \A s \in Sessions : closed[s] /\ runner[s] # "none" ~> done[s]
    /\ ~ MutexFree ~> MutexFree
    /\ shutdown = "closing" ~> shutdown = "over"

(* "The runner thread is always joined": a session leaves the map and the     *)
(* destructor's list only once its thread has been joined.  The one exception *)
(* is a session that the destructor meets between its insertion and the start *)
(* of its thread, for which close_voice_session() finds nothing to join.      *)
ForgottenIsJoined ==
    [][\A s \in (listed \cup doomed) \ (listed' \cup doomed') :
          \/ runner'[s] = "joined"
          \/ shutdown = "closing" /\ \E r \in Requests : at[r] = "start" /\ on[r] = s
      ]_sessionVars

(* "The runner thread is always joined (stop, events-reader loss, or server   *)
(* shutdown), never detached": once the destructor is over, no thread runs    *)
(* and none has exited unjoined.                                              *)
RunnersAlwaysJoined ==
    shutdown = "over" => \A s \in Sessions : runner[s] \in {"none", "joined"}

=============================================================================
