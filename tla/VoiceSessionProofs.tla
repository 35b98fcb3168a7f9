------------------------- MODULE VoiceSessionProofs -------------------------
(***************************************************************************)
(* Browser voice sessions for any number of request threads, sessions and  *)
(* events, and any caps of the two queues.  The properties rest on each    *)
(* other: that a client told [DONE] has heard everything needs that a      *)
(* runner that has exited stays silent, which needs that a session's       *)
(* thread is started once (Starts), which needs that creators exclude each *)
(* other (Locking); that a forgotten session was joined needs that the     *)
(* sweep never joins a thread that was not started yet, and that one the   *)
(* destructor finds without a thread still has its creator (Unstarted).    *)
(***************************************************************************)
EXTENDS VoiceSession, TLAPS

Places == {"idle", "start", "audio", "stop", "wait", "write"} \cup Locked
Lifes  == {"none", "running", "leaving", "failing", "exited", "joined"}

\* SessionTypeOK in parts that different steps disturb.
MapTypeOK ==
    /\ created \in 0 .. MaxSessions
    /\ listed \subseteq 1 .. created /\ todo \subseteq listed
    /\ shutdown \in {"no", "closing", "over"}
    /\ doomed \subseteq Sessions
AudioTypeOK  == audio \in [Sessions -> 0 .. AudioCap]
FlagTypeOK   == closed \in [Sessions -> BOOLEAN] /\ speaking \in [Sessions -> BOOLEAN]
RunnerTypeOK == runner \in [Sessions -> Lifes]
PlaceTypeOK ==
    /\ at \in [Requests -> Places]
    /\ on \in [Requests -> 0 .. MaxSessions]
    /\ \A r \in Requests : at[r] \notin {"idle", "sweep"} => on[r] \in Sessions
ReaderTypeOK == batch \in [Requests -> Seq(Nat)] /\ finished \in [Requests -> BOOLEAN]
EventTypeOK ==
    /\ events \in [Sessions -> Seq(Nat)]
    /\ sent \in [Sessions -> Nat]

TypesOK ==
    /\ MapTypeOK /\ AudioTypeOK /\ FlagTypeOK /\ RunnerTypeOK
    /\ PlaceTypeOK /\ ReaderTypeOK /\ EventTypeOK

\* The queue q holds the last events of the n emitted, in the order of their numbers.
LastOf(q, n) ==
    /\ Len(q) <= EventCap /\ Len(q) <= n
    /\ \A i \in 1 .. Len(q) : q[i] = n - Len(q) + i

EventsInRow == \A s \in Sessions : LastOf(events[s], sent[s])

\* A session that was not created has no thread; a turn is open only in a running one; there is
\* room for the last event of one that has not left.
Lives ==
    \A s \in Sessions :
        /\ s > created => runner[s] = "none"
        /\ runner[s] # "running" => ~ speaking[s]
        /\ runner[s] \in {"none", "running"} => sent[s] <= MaxEvents[s]
        /\ sent[s] <= MaxEvents[s] + 1

\* A thread that is about to be started was not, and is by one request only.
Starts ==
    \A r \in Requests : at[r] = "start" =>
        /\ on[r] <= created /\ runner[on[r]] = "none"
        /\ \A q \in Requests : at[q] = "start" /\ q # r => on[q] # on[r]

\* Creators exclude each other, have a session left to create, and join only threads that were
\* started.
Locking ==
    /\ \A r \in Requests : at[r] \in Locked => created < MaxSessions
    /\ \A q, r \in Requests : at[q] \in Locked /\ at[r] \in Locked => q = r
    /\ \A r \in Requests : at[r] = "join" => runner[on[r]] # "none"

\* Only a creator has sessions to look at.
Sweeping == todo # {} => \E r \in Requests : at[r] \in Locked

\* Who has decided to say [DONE] is writing.
Readers == \A r \in Requests : finished[r] => at[r] = "write"

Ending == shutdown # "closing" => doomed = {}

\* A session that was created and has no thread has a creator that is about to start it.
Unstarted ==
    /\ doomed \subseteq 1 .. created
    /\ \A s \in 1 .. created :
          runner[s] = "none" => \E r \in Requests : at[r] = "start" /\ on[r] = s

SessionInv ==
    /\ TypesOK /\ EventsInRow /\ Lives /\ Starts /\ Locking /\ Sweeping /\ Readers /\ Ending
    /\ Unstarted /\ DoneMeansAllSaid /\ DrainedBeforeDone

----------------------------------------------------------------------------
\* Appending to a queue.
LEMMA AppendIs ==
    ASSUME NEW q \in Seq(Nat), NEW e \in Nat
    PROVE  /\ Append(q, e) \in Seq(Nat) /\ Len(Append(q, e)) = Len(q) + 1
           /\ Append(q, e)[Len(q) + 1] = e
           /\ \A i \in 1 .. Len(q) : Append(q, e)[i] = q[i]
  OBVIOUS

\* Dropping the oldest.
LEMMA TailIs ==
    ASSUME NEW q \in Seq(Nat), q # <<>>
    PROVE  /\ Tail(q) \in Seq(Nat) /\ Len(Tail(q)) = Len(q) - 1 /\ Len(q) \in Nat \ {0}
           /\ \A i \in 1 .. Len(q) - 1 : Tail(q)[i] = q[i + 1]
  OBVIOUS

\* hooks.emit keeps the newest events, in order, and only a full queue loses one.
LEMMA KeepNewestIsLast ==
    ASSUME NEW q \in Seq(Nat), NEW n \in Nat, LastOf(q, n)
    PROVE  /\ KeepNewest(q, n + 1) \in Seq(Nat)
           /\ KeepNewest(q, n + 1) # <<>>
           /\ LastOf(KeepNewest(q, n + 1), n + 1)
           /\ Len(KeepNewest(q, n + 1)) = IF Len(q) < EventCap THEN Len(q) + 1 ELSE Len(q)
  <1>1. EventCap \in Nat \ {0} /\ n + 1 \in Nat /\ Len(q) \in Nat
    BY VoiceSessionAssumption
  <1> DEFINE k == KeepNewest(q, n + 1)
  <1>2. CASE Len(q) < EventCap
    <2>1. k = Append(q, n + 1)
      BY <1>2 DEF KeepNewest
    <2> HIDE DEF k
    <2>2. /\ k \in Seq(Nat) /\ Len(k) = Len(q) + 1 /\ k[Len(q) + 1] = n + 1
          /\ \A i \in 1 .. Len(q) : k[i] = q[i]
      BY <1>1, <2>1, AppendIs
    <2>3. \A i \in 1 .. Len(q) : k[i] = n - Len(q) + i
      BY <2>2 DEF LastOf
    <2>4. Len(k) <= EventCap /\ Len(k) <= n + 1 /\ k # <<>>
      BY <1>1, <1>2, <2>2 DEF LastOf
    <2>5. ASSUME NEW i \in 1 .. Len(k)
          PROVE  k[i] = n + 1 - Len(k) + i
      <3>1. CASE i = Len(q) + 1
        BY <1>1, <2>2, <3>1
      <3>2. CASE i \in 1 .. Len(q)
        BY <1>1, <2>2, <2>3, <3>2
      <3> QED
        BY <1>1, <2>2, <3>1, <3>2
    <2>6. LastOf(k, n + 1)
      BY <2>4, <2>5 DEF LastOf
    <2> QED
      BY <1>2, <2>2, <2>4, <2>6 DEF k
  <1>3. CASE ~ (Len(q) < EventCap)
    <2>1. k = Append(Tail(q), n + 1) /\ Len(q) = EventCap /\ q # <<>>
      BY <1>1, <1>3 DEF KeepNewest, LastOf
    <2> HIDE DEF k
    <2>2. /\ Tail(q) \in Seq(Nat) /\ Len(Tail(q)) = Len(q) - 1 /\ Len(q) \in Nat \ {0}
          /\ \A i \in 1 .. Len(q) - 1 : Tail(q)[i] = q[i + 1]
      BY <2>1, TailIs
    <2>3. /\ k \in Seq(Nat) /\ Len(k) = Len(q) /\ k[Len(q)] = n + 1
          /\ \A i \in 1 .. Len(q) - 1 : k[i] = Tail(q)[i]
      BY <1>1, <2>1, <2>2, AppendIs
    <2>4. ASSUME NEW i \in 1 .. Len(q) - 1
          PROVE  k[i] = n - Len(q) + (i + 1)
      BY <2>2, <2>3, <2>4 DEF LastOf
    <2>5. Len(k) <= EventCap /\ Len(k) <= n + 1 /\ k # <<>>
      BY <1>1, <2>1, <2>2, <2>3 DEF LastOf
    <2>6. ASSUME NEW i \in 1 .. Len(k)
          PROVE  k[i] = n + 1 - Len(k) + i
      <3>1. CASE i = Len(q)
        BY <1>1, <2>3, <3>1
      <3>2. CASE i \in 1 .. Len(q) - 1
        BY <1>1, <2>3, <2>4, <3>2
      <3>3. i = Len(q) \/ i \in 1 .. Len(q) - 1
        BY <1>1, <2>3
      <3> QED
        BY <3>1, <3>2, <3>3
    <2>7. LastOf(k, n + 1)
      BY <2>5, <2>6 DEF LastOf
    <2> QED
      BY <1>3, <2>3, <2>5, <2>7 DEF k
  <1> QED
    BY <1>2, <1>3

\* What a runner's event does to its session, and that it does nothing to another.
LEMMA EmitIs ==
    ASSUME SessionInv, NEW s \in Sessions, Emit(s)
    PROVE  /\ events' \in [Sessions -> Seq(Nat)] /\ sent' \in [Sessions -> Nat]
           /\ sent'[s] = sent[s] + 1
           /\ events'[s] # <<>> /\ LastOf(events'[s], sent'[s])
           /\ Len(events'[s]) = IF Len(events[s]) < EventCap THEN Len(events[s]) + 1
                                                             ELSE Len(events[s])
           /\ \A x \in Sessions : x # s => sent'[x] = sent[x] /\ events'[x] = events[x]
  <1>1. /\ events \in [Sessions -> Seq(Nat)] /\ sent \in [Sessions -> Nat]
        /\ LastOf(events[s], sent[s])
    BY DEF SessionInv, TypesOK, EventTypeOK, EventsInRow
  <1> DEFINE k == KeepNewest(events[s], sent[s] + 1)
  <1>2. sent' = [sent EXCEPT ![s] = sent[s] + 1] /\ events' = [events EXCEPT ![s] = k]
    BY DEF Emit
  <1>3. events[s] \in Seq(Nat) /\ sent[s] \in Nat
    BY <1>1
  <1>4. /\ k \in Seq(Nat) /\ k # <<>> /\ LastOf(k, sent[s] + 1)
        /\ Len(k) = IF Len(events[s]) < EventCap THEN Len(events[s]) + 1 ELSE Len(events[s])
    BY <1>1, <1>3, KeepNewestIsLast
  <1> HIDE DEF k
  <1>5. /\ events'[s] = k /\ sent'[s] = sent[s] + 1
        /\ events' \in [Sessions -> Seq(Nat)] /\ sent' \in [Sessions -> Nat]
        /\ \A x \in Sessions : x # s => sent'[x] = sent[x] /\ events'[x] = events[x]
    BY <1>1, <1>2, <1>3, <1>4
  <1> QED
    BY <1>4, <1>5

\* An event is the last but one of a running session, or the last of one that leaves.
LEMMA LivesAfterEmit ==
    ASSUME SessionInv, NEW s \in Sessions, Emit(s), runner[s] = "running", created' = created,
           \A x \in Sessions : x # s => runner'[x] = runner[x] /\ speaking'[x] = speaking[x],
           \/ runner'[s] = "running" /\ sent[s] < MaxEvents[s]
           \/ runner'[s] \in {"leaving", "failing"} /\ ~ speaking'[s]
    PROVE  Lives'
  <1>1. /\ sent'[s] = sent[s] + 1 /\ sent \in [Sessions -> Nat]
        /\ \A x \in Sessions : x # s => sent'[x] = sent[x]
    BY EmitIs DEF SessionInv, TypesOK, EventTypeOK
  <1>2. MaxEvents[s] \in Nat /\ sent[s] \in Nat /\ sent[s] <= MaxEvents[s] /\ ~ (s > created)
    BY <1>1, VoiceSessionAssumption DEF Sessions, SessionInv, Lives
  <1>3. ASSUME NEW x \in Sessions, x # s
        PROVE  /\ x > created' => runner'[x] = "none"
               /\ runner'[x] # "running" => ~ speaking'[x]
               /\ runner'[x] \in {"none", "running"} => sent'[x] <= MaxEvents[x]
               /\ sent'[x] <= MaxEvents[x] + 1
    BY <1>1, <1>3 DEF SessionInv, Lives
  <1>4. /\ s > created' => runner'[s] = "none"
        /\ runner'[s] # "running" => ~ speaking'[s]
        /\ runner'[s] \in {"none", "running"} => sent'[s] <= MaxEvents[s]
        /\ sent'[s] <= MaxEvents[s] + 1
    BY <1>1, <1>2
  <1> QED
    BY <1>3, <1>4 DEF Lives

\* What joining a thread does to it.
LEMMA AfterJoinIs ==
    ASSUME SessionInv, NEW s \in Sessions, runner' = AfterJoin(s)
    PROVE  /\ runner' \in [Sessions -> Lifes]
           /\ \A x \in Sessions :
                 runner'[x] = IF x = s /\ runner[s] = "exited" THEN "joined" ELSE runner[x]
  BY DEF AfterJoin, SessionInv, TypesOK, RunnerTypeOK, Lifes

----------------------------------------------------------------------------

\* Sessions are created within the bound, and listed, swept and doomed only once created.
LEMMA MapTypeKept ==
    ASSUME SessionInv, [SessionNext]_sessionVars
    PROVE  MapTypeOK'
  <1> USE VoiceSessionAssumption DEF Sessions
  <1>1. ASSUME UNCHANGED <<created, listed, todo, shutdown, doomed>> PROVE MapTypeOK'
    BY <1>1 DEF SessionInv, TypesOK, MapTypeOK
  <1>2. ASSUME NEW r \in Requests, Create(r) PROVE MapTypeOK'
    BY <1>2 DEF Create, Goto, queueVars, readerVars, endVars, mapVars, SessionInv, TypesOK,
       MapTypeOK, Locking
  <1>3. ASSUME NEW r \in Requests, NEW s \in todo, SweepKeeps(r, s) PROVE MapTypeOK'
    BY <1>3 DEF SweepKeeps, queueVars, readerVars, endVars, mapVars, SessionInv, TypesOK,
       MapTypeOK
  <1>4. ASSUME NEW r \in Requests, SweepJoins(r) PROVE MapTypeOK'
    BY <1>4 DEF SweepJoins, Goto, queueVars, readerVars, endVars, mapVars, SessionInv,
       TypesOK, MapTypeOK
  <1>5. ASSUME NEW r \in Requests, Insert(r) PROVE MapTypeOK'
    BY <1>5 DEF Insert, Goto, queueVars, readerVars, endVars, mapVars, SessionInv, TypesOK,
       MapTypeOK, Locking, Locked
  <1>6. ASSUME Shutdown PROVE MapTypeOK'
    BY <1>6 DEF Shutdown, queueVars, readerVars, endVars, mapVars, SessionInv, TypesOK,
       MapTypeOK, Sweeping, MutexFree
  <1>7. ASSUME NEW s \in doomed, ShutdownJoins(s) PROVE MapTypeOK'
    BY <1>7 DEF ShutdownJoins, queueVars, readerVars, endVars, mapVars, SessionInv, TypesOK,
       MapTypeOK
  <1>8. ASSUME ShutdownOver PROVE MapTypeOK'
    BY <1>8 DEF ShutdownOver, queueVars, readerVars, endVars, mapVars, SessionInv, TypesOK,
       MapTypeOK
  <1>9. ASSUME NEW r \in Requests, StartRunner(r) \/ Drain(r) \/ WriteEvent(r) \/ WritePing(r)
              \/ WriteDone(r) \/ ClientGone(r) \/ Stop(r)
        PROVE  UNCHANGED <<created, listed, todo, shutdown, doomed>>
    BY <1>9 DEF StartRunner, Drain, WriteEvent, WritePing, WriteDone, ClientGone, Stop,
       queueVars, readerVars, endVars, mapVars, Goto
  <1>10. ASSUME NEW r \in Requests, NEW s \in todo, SweepCloses(r, s)
        PROVE  UNCHANGED <<created, listed, todo, shutdown, doomed>>
    BY <1>10 DEF SweepCloses, queueVars, readerVars, endVars, mapVars, Goto
  <1>11. ASSUME NEW r \in Requests, NEW n \in 1 .. AudioCap + 1, PostAudio(r, n)
        PROVE  UNCHANGED <<created, listed, todo, shutdown, doomed>>
    BY <1>11 DEF PostAudio, queueVars, readerVars, endVars, mapVars, Goto
  <1>12. ASSUME NEW r \in Requests, NEW s \in listed, NEW what \in {"audio", "stop", "wait"}, LookUp(r, s, what)
        PROVE  UNCHANGED <<created, listed, todo, shutdown, doomed>>
    BY <1>12 DEF LookUp, queueVars, readerVars, endVars, mapVars, Goto
  <1>13. ASSUME NEW s \in Sessions, Quiet(s) \/ TurnEvent(s) \/ PartialEvent(s)
              \/ StreamEnds(s) \/ RunnerThrows(s) \/ SetDone(s)
        PROVE  UNCHANGED <<created, listed, todo, shutdown, doomed>>
    BY <1>13 DEF Quiet, TurnEvent, PartialEvent, StreamEnds, RunnerThrows, SetDone, queueVars,
       readerVars, endVars, mapVars
  <1>14. ASSUME NEW s \in doomed, ShutdownCloses(s)
        PROVE  UNCHANGED <<created, listed, todo, shutdown, doomed>>
    BY <1>14 DEF ShutdownCloses, queueVars, readerVars, endVars, mapVars
  <1>15. ASSUME UNCHANGED sessionVars
        PROVE  UNCHANGED <<created, listed, todo, shutdown, doomed>>
    BY <1>15 DEF queueVars, readerVars, endVars, mapVars, sessionVars
  <1> QED
    BY <1>1, <1>2, <1>3, <1>4, <1>5, <1>6, <1>7, <1>8, <1>9, <1>10, <1>11, <1>12, <1>13,
       <1>14, <1>15 DEF SessionNext, CreateSteps, ReaderSteps, RunnerSteps, ShutdownSteps

\* The audio queue stays within its cap.
LEMMA AudioTypeKept ==
    ASSUME SessionInv, [SessionNext]_sessionVars
    PROVE  AudioTypeOK'
  <1> USE VoiceSessionAssumption DEF Sessions
  <1>1. ASSUME UNCHANGED <<audio>> PROVE AudioTypeOK'
    BY <1>1 DEF SessionInv, TypesOK, AudioTypeOK
  <1>2. ASSUME NEW r \in Requests, NEW n \in 1 .. AudioCap + 1, PostAudio(r, n) PROVE AudioTypeOK'
    BY <1>2 DEF PostAudio, Goto, queueVars, readerVars, endVars, mapVars, SessionInv, TypesOK,
       AudioTypeOK, PlaceTypeOK
  <1>3. ASSUME NEW s \in Sessions, Quiet(s) PROVE AudioTypeOK'
    BY <1>3 DEF Quiet, queueVars, readerVars, endVars, mapVars, SessionInv, TypesOK,
       AudioTypeOK, HasAudio
  <1>4. ASSUME NEW s \in Sessions, TurnEvent(s) PROVE AudioTypeOK'
    BY <1>4 DEF TurnEvent, queueVars, readerVars, endVars, mapVars, SessionInv, TypesOK,
       AudioTypeOK, HasAudio
  <1>5. ASSUME NEW r \in Requests, Create(r) \/ SweepJoins(r) \/ Insert(r) \/ StartRunner(r)
              \/ Drain(r) \/ WriteEvent(r) \/ WritePing(r) \/ WriteDone(r) \/ ClientGone(r)
              \/ Stop(r)
        PROVE  UNCHANGED <<audio>>
    BY <1>5 DEF Create, SweepJoins, Insert, StartRunner, Drain, WriteEvent, WritePing,
       WriteDone, ClientGone, Stop, queueVars, readerVars, endVars, mapVars, Goto
  <1>6. ASSUME NEW r \in Requests, NEW s \in todo, SweepKeeps(r, s) \/ SweepCloses(r, s)
        PROVE  UNCHANGED <<audio>>
    BY <1>6 DEF SweepKeeps, SweepCloses, queueVars, readerVars, endVars, mapVars, Goto
  <1>7. ASSUME NEW r \in Requests, NEW s \in listed, NEW what \in {"audio", "stop", "wait"}, LookUp(r, s, what)
        PROVE  UNCHANGED <<audio>>
    BY <1>7 DEF LookUp, queueVars, readerVars, endVars, mapVars, Goto
  <1>8. ASSUME NEW s \in Sessions, PartialEvent(s) \/ StreamEnds(s) \/ RunnerThrows(s)
              \/ SetDone(s)
        PROVE  UNCHANGED <<audio>>
    BY <1>8 DEF PartialEvent, StreamEnds, RunnerThrows, SetDone, queueVars, readerVars,
       endVars, mapVars
  <1>9. ASSUME NEW s \in doomed, ShutdownCloses(s) \/ ShutdownJoins(s)
        PROVE  UNCHANGED <<audio>>
    BY <1>9 DEF ShutdownCloses, ShutdownJoins, queueVars, readerVars, endVars, mapVars
  <1>10. ASSUME Shutdown \/ ShutdownOver \/ UNCHANGED sessionVars
        PROVE  UNCHANGED <<audio>>
    BY <1>10 DEF Shutdown, ShutdownOver, queueVars, readerVars, endVars, mapVars, sessionVars
  <1> QED
    BY <1>1, <1>2, <1>3, <1>4, <1>5, <1>6, <1>7, <1>8, <1>9, <1>10 DEF SessionNext,
       CreateSteps, ReaderSteps, RunnerSteps, ShutdownSteps

\* The flags of a session are flags.
LEMMA FlagTypeKept ==
    ASSUME SessionInv, [SessionNext]_sessionVars
    PROVE  FlagTypeOK'
  <1> USE VoiceSessionAssumption DEF Sessions
  <1>1. ASSUME UNCHANGED <<closed, speaking>> PROVE FlagTypeOK'
    BY <1>1 DEF SessionInv, TypesOK, FlagTypeOK
  <1>2. ASSUME NEW r \in Requests, NEW s \in todo, SweepCloses(r, s) PROVE FlagTypeOK'
    BY <1>2 DEF SweepCloses, Goto, queueVars, readerVars, endVars, mapVars, SessionInv,
       TypesOK, FlagTypeOK
  <1>3. ASSUME NEW r \in Requests, ClientGone(r) PROVE FlagTypeOK'
    BY <1>3 DEF ClientGone, Goto, queueVars, readerVars, endVars, mapVars, SessionInv,
       TypesOK, FlagTypeOK
  <1>4. ASSUME NEW r \in Requests, Stop(r) PROVE FlagTypeOK'
    BY <1>4 DEF Stop, Goto, queueVars, readerVars, endVars, mapVars, SessionInv, TypesOK,
       FlagTypeOK
  <1>5. ASSUME NEW s \in Sessions, TurnEvent(s) PROVE FlagTypeOK'
    BY <1>5 DEF TurnEvent, queueVars, readerVars, endVars, mapVars, SessionInv, TypesOK,
       FlagTypeOK
  <1>6. ASSUME NEW s \in Sessions, StreamEnds(s) PROVE FlagTypeOK'
    BY <1>6 DEF StreamEnds, queueVars, readerVars, endVars, mapVars, SessionInv, TypesOK,
       FlagTypeOK
  <1>7. ASSUME NEW s \in Sessions, RunnerThrows(s) PROVE FlagTypeOK'
    BY <1>7 DEF RunnerThrows, queueVars, readerVars, endVars, mapVars, SessionInv, TypesOK,
       FlagTypeOK
  <1>8. ASSUME NEW s \in doomed, ShutdownCloses(s) PROVE FlagTypeOK'
    BY <1>8 DEF ShutdownCloses, queueVars, readerVars, endVars, mapVars, SessionInv, TypesOK,
       FlagTypeOK
  <1>9. ASSUME NEW r \in Requests, Create(r) \/ SweepJoins(r) \/ Insert(r) \/ StartRunner(r)
              \/ Drain(r) \/ WriteEvent(r) \/ WritePing(r) \/ WriteDone(r)
        PROVE  UNCHANGED <<closed, speaking>>
    BY <1>9 DEF Create, SweepJoins, Insert, StartRunner, Drain, WriteEvent, WritePing,
       WriteDone, queueVars, readerVars, endVars, mapVars, Goto
  <1>10. ASSUME NEW r \in Requests, NEW s \in todo, SweepKeeps(r, s)
        PROVE  UNCHANGED <<closed, speaking>>
    BY <1>10 DEF SweepKeeps, queueVars, readerVars, endVars, mapVars
  <1>11. ASSUME NEW r \in Requests, NEW n \in 1 .. AudioCap + 1, PostAudio(r, n)
        PROVE  UNCHANGED <<closed, speaking>>
    BY <1>11 DEF PostAudio, queueVars, readerVars, endVars, mapVars, Goto
  <1>12. ASSUME NEW r \in Requests, NEW s \in listed, NEW what \in {"audio", "stop", "wait"}, LookUp(r, s, what)
        PROVE  UNCHANGED <<closed, speaking>>
    BY <1>12 DEF LookUp, queueVars, readerVars, endVars, mapVars, Goto
  <1>13. ASSUME NEW s \in Sessions, Quiet(s) \/ PartialEvent(s) \/ SetDone(s)
        PROVE  UNCHANGED <<closed, speaking>>
    BY <1>13 DEF Quiet, PartialEvent, SetDone, queueVars, readerVars, endVars, mapVars
  <1>14. ASSUME NEW s \in doomed, ShutdownJoins(s)
        PROVE  UNCHANGED <<closed, speaking>>
    BY <1>14 DEF ShutdownJoins, queueVars, readerVars, endVars, mapVars
  <1>15. ASSUME Shutdown \/ ShutdownOver \/ UNCHANGED sessionVars
        PROVE  UNCHANGED <<closed, speaking>>
    BY <1>15 DEF Shutdown, ShutdownOver, queueVars, readerVars, endVars, mapVars, sessionVars
  <1> QED
    BY <1>1, <1>2, <1>3, <1>4, <1>5, <1>6, <1>7, <1>8, <1>9, <1>10, <1>11, <1>12, <1>13,
       <1>14, <1>15 DEF SessionNext, CreateSteps, ReaderSteps, RunnerSteps, ShutdownSteps

\* A thread's life has six places.
LEMMA RunnerTypeKept ==
    ASSUME SessionInv, [SessionNext]_sessionVars
    PROVE  RunnerTypeOK'
  <1> USE VoiceSessionAssumption DEF Sessions
  <1>1. ASSUME UNCHANGED <<runner>> PROVE RunnerTypeOK'
    BY <1>1 DEF SessionInv, TypesOK, RunnerTypeOK, Lifes
  <1>2. ASSUME NEW r \in Requests, SweepJoins(r) PROVE RunnerTypeOK'
    <2>1. on[r] \in Sessions /\ runner' = AfterJoin(on[r])
      BY <1>2 DEF SweepJoins, SessionInv, TypesOK, PlaceTypeOK
    <2> QED
      BY <2>1, AfterJoinIs DEF RunnerTypeOK
  <1>3. ASSUME NEW r \in Requests, StartRunner(r) PROVE RunnerTypeOK'
    BY <1>3 DEF StartRunner, Goto, queueVars, readerVars, endVars, mapVars, SessionInv,
       TypesOK, RunnerTypeOK, Lifes
  <1>4. ASSUME NEW s \in Sessions, StreamEnds(s) PROVE RunnerTypeOK'
    BY <1>4 DEF StreamEnds, queueVars, readerVars, endVars, mapVars, SessionInv, TypesOK,
       RunnerTypeOK, Lifes
  <1>5. ASSUME NEW s \in Sessions, RunnerThrows(s) PROVE RunnerTypeOK'
    BY <1>5 DEF RunnerThrows, queueVars, readerVars, endVars, mapVars, SessionInv, TypesOK,
       RunnerTypeOK, Lifes
  <1>6. ASSUME NEW s \in Sessions, SetDone(s) PROVE RunnerTypeOK'
    BY <1>6 DEF SetDone, queueVars, readerVars, endVars, mapVars, SessionInv, TypesOK,
       RunnerTypeOK, Lifes
  <1>7. ASSUME NEW s \in doomed, ShutdownJoins(s) PROVE RunnerTypeOK'
    <2>1. s \in Sessions /\ runner' = AfterJoin(s)
      BY <1>7 DEF ShutdownJoins, SessionInv, TypesOK, MapTypeOK
    <2> QED
      BY <2>1, AfterJoinIs DEF RunnerTypeOK
  <1>8. ASSUME NEW r \in Requests, Create(r) \/ Insert(r) \/ Drain(r) \/ WriteEvent(r)
              \/ WritePing(r) \/ WriteDone(r) \/ ClientGone(r) \/ Stop(r)
        PROVE  UNCHANGED <<runner>>
    BY <1>8 DEF Create, Insert, Drain, WriteEvent, WritePing, WriteDone, ClientGone, Stop,
       queueVars, readerVars, endVars, mapVars, Goto
  <1>9. ASSUME NEW r \in Requests, NEW s \in todo, SweepKeeps(r, s) \/ SweepCloses(r, s)
        PROVE  UNCHANGED <<runner>>
    BY <1>9 DEF SweepKeeps, SweepCloses, queueVars, readerVars, endVars, mapVars, Goto
  <1>10. ASSUME NEW r \in Requests, NEW n \in 1 .. AudioCap + 1, PostAudio(r, n)
        PROVE  UNCHANGED <<runner>>
    BY <1>10 DEF PostAudio, queueVars, readerVars, endVars, mapVars, Goto
  <1>11. ASSUME NEW r \in Requests, NEW s \in listed, NEW what \in {"audio", "stop", "wait"}, LookUp(r, s, what)
        PROVE  UNCHANGED <<runner>>
    BY <1>11 DEF LookUp, queueVars, readerVars, endVars, mapVars, Goto
  <1>12. ASSUME NEW s \in Sessions, Quiet(s) \/ TurnEvent(s) \/ PartialEvent(s)
        PROVE  UNCHANGED <<runner>>
    BY <1>12 DEF Quiet, TurnEvent, PartialEvent, queueVars, readerVars, endVars, mapVars
  <1>13. ASSUME NEW s \in doomed, ShutdownCloses(s)
        PROVE  UNCHANGED <<runner>>
    BY <1>13 DEF ShutdownCloses, queueVars, readerVars, endVars, mapVars
  <1>14. ASSUME Shutdown \/ ShutdownOver \/ UNCHANGED sessionVars
        PROVE  UNCHANGED <<runner>>
    BY <1>14 DEF Shutdown, ShutdownOver, queueVars, readerVars, endVars, mapVars, sessionVars
  <1> QED
    BY <1>1, <1>2, <1>3, <1>4, <1>5, <1>6, <1>7, <1>8, <1>9, <1>10, <1>11, <1>12, <1>13,
       <1>14 DEF SessionNext, CreateSteps, ReaderSteps, RunnerSteps, ShutdownSteps

\* A request that is busy with a session has one.
LEMMA PlaceTypeKept ==
    ASSUME SessionInv, [SessionNext]_sessionVars
    PROVE  PlaceTypeOK'
  <1> USE VoiceSessionAssumption DEF Sessions
  <1>1. ASSUME UNCHANGED <<at, on>> PROVE PlaceTypeOK'
    BY <1>1 DEF SessionInv, TypesOK, PlaceTypeOK, Places, Locked
  <1>2. ASSUME NEW r \in Requests, Create(r) PROVE PlaceTypeOK'
    BY <1>2 DEF Create, Goto, queueVars, readerVars, endVars, mapVars, SessionInv, TypesOK,
       PlaceTypeOK, Places, Locked
  <1>3. ASSUME NEW r \in Requests, NEW s \in todo, SweepCloses(r, s) PROVE PlaceTypeOK'
    BY <1>3 DEF SweepCloses, Goto, queueVars, readerVars, endVars, mapVars, SessionInv,
       TypesOK, PlaceTypeOK, Places, Locked, MapTypeOK
  <1>4. ASSUME NEW r \in Requests, SweepJoins(r) PROVE PlaceTypeOK'
    BY <1>4 DEF SweepJoins, Goto, queueVars, readerVars, endVars, mapVars, SessionInv,
       TypesOK, PlaceTypeOK, Places, Locked
  <1>5. ASSUME NEW r \in Requests, Insert(r) PROVE PlaceTypeOK'
    BY <1>5 DEF Insert, Goto, queueVars, readerVars, endVars, mapVars, SessionInv, TypesOK,
       PlaceTypeOK, Places, Locked, MapTypeOK, Locking
  <1>6. ASSUME NEW r \in Requests, StartRunner(r) PROVE PlaceTypeOK'
    BY <1>6 DEF StartRunner, Goto, queueVars, readerVars, endVars, mapVars, SessionInv,
       TypesOK, PlaceTypeOK, Places, Locked
  <1>7. ASSUME NEW r \in Requests, Drain(r) PROVE PlaceTypeOK'
    BY <1>7 DEF Drain, queueVars, readerVars, endVars, mapVars, SessionInv, TypesOK,
       PlaceTypeOK, Places, Locked
  <1>8. ASSUME NEW r \in Requests, WriteEvent(r) PROVE PlaceTypeOK'
    BY <1>8 DEF WriteEvent, queueVars, readerVars, endVars, mapVars, SessionInv, TypesOK,
       PlaceTypeOK, Places, Locked
  <1>9. ASSUME NEW r \in Requests, WritePing(r) PROVE PlaceTypeOK'
    BY <1>9 DEF WritePing, queueVars, readerVars, endVars, mapVars, SessionInv, TypesOK,
       PlaceTypeOK, Places, Locked
  <1>10. ASSUME NEW r \in Requests, WriteDone(r) PROVE PlaceTypeOK'
    BY <1>10 DEF WriteDone, Goto, queueVars, readerVars, endVars, mapVars, SessionInv,
       TypesOK, PlaceTypeOK, Places, Locked
  <1>11. ASSUME NEW r \in Requests, ClientGone(r) PROVE PlaceTypeOK'
    BY <1>11 DEF ClientGone, Goto, queueVars, readerVars, endVars, mapVars, SessionInv,
       TypesOK, PlaceTypeOK, Places, Locked
  <1>12. ASSUME NEW r \in Requests, Stop(r) PROVE PlaceTypeOK'
    BY <1>12 DEF Stop, Goto, queueVars, readerVars, endVars, mapVars, SessionInv, TypesOK,
       PlaceTypeOK, Places, Locked
  <1>13. ASSUME NEW r \in Requests, NEW n \in 1 .. AudioCap + 1, PostAudio(r, n) PROVE PlaceTypeOK'
    BY <1>13 DEF PostAudio, Goto, queueVars, readerVars, endVars, mapVars, SessionInv,
       TypesOK, PlaceTypeOK, Places, Locked
  <1>14. ASSUME NEW r \in Requests, NEW s \in listed, NEW what \in {"audio", "stop", "wait"}, LookUp(r, s, what) PROVE PlaceTypeOK'
    BY <1>14 DEF LookUp, Goto, queueVars, readerVars, endVars, mapVars, SessionInv, TypesOK,
       PlaceTypeOK, Places, Locked, MapTypeOK
  <1>15. ASSUME NEW r \in Requests, NEW s \in todo, SweepKeeps(r, s)
        PROVE  UNCHANGED <<at, on>>
    BY <1>15 DEF SweepKeeps, queueVars, readerVars, endVars, mapVars
  <1>16. ASSUME NEW s \in Sessions, Quiet(s) \/ TurnEvent(s) \/ PartialEvent(s)
              \/ StreamEnds(s) \/ RunnerThrows(s) \/ SetDone(s)
        PROVE  UNCHANGED <<at, on>>
    BY <1>16 DEF Quiet, TurnEvent, PartialEvent, StreamEnds, RunnerThrows, SetDone, queueVars,
       readerVars, endVars, mapVars
  <1>17. ASSUME NEW s \in doomed, ShutdownCloses(s) \/ ShutdownJoins(s)
        PROVE  UNCHANGED <<at, on>>
    BY <1>17 DEF ShutdownCloses, ShutdownJoins, queueVars, readerVars, endVars, mapVars
  <1>18. ASSUME Shutdown \/ ShutdownOver \/ UNCHANGED sessionVars
        PROVE  UNCHANGED <<at, on>>
    BY <1>18 DEF Shutdown, ShutdownOver, queueVars, readerVars, endVars, mapVars, sessionVars
  <1> QED
    BY <1>1, <1>2, <1>3, <1>4, <1>5, <1>6, <1>7, <1>8, <1>9, <1>10, <1>11, <1>12, <1>13,
       <1>14, <1>15, <1>16, <1>17, <1>18 DEF SessionNext, CreateSteps, ReaderSteps,
       RunnerSteps, ShutdownSteps

\* A reader writes what it has taken.
LEMMA ReaderTypeKept ==
    ASSUME SessionInv, [SessionNext]_sessionVars
    PROVE  ReaderTypeOK'
  <1> USE VoiceSessionAssumption DEF Sessions
  <1>1. ASSUME UNCHANGED <<batch, finished>> PROVE ReaderTypeOK'
    BY <1>1 DEF SessionInv, TypesOK, ReaderTypeOK
  <1>2. ASSUME NEW r \in Requests, Drain(r) PROVE ReaderTypeOK'
    <2>1. on[r] \in Sessions
      BY <1>2 DEF Drain, SessionInv, TypesOK, PlaceTypeOK
    <2>2. events[on[r]] \in Seq(Nat)
      BY <2>1 DEF SessionInv, TypesOK, EventTypeOK
    <2>3. done \in [Sessions -> BOOLEAN]
      BY DEF done
    <2>4. done[on[r]] \in BOOLEAN
      BY <2>1, <2>3
    <2> QED
      BY <1>2, <2>2, <2>4 DEF Drain, SessionInv, TypesOK, ReaderTypeOK
  <1>3. ASSUME NEW r \in Requests, WriteEvent(r) PROVE ReaderTypeOK'
    <2>1. batch[r] \in Seq(Nat) /\ batch[r] # <<>>
      BY <1>3 DEF WriteEvent, SessionInv, TypesOK, ReaderTypeOK
    <2>2. Tail(batch[r]) \in Seq(Nat)
      BY <2>1
    <2> QED
      BY <1>3, <2>2 DEF WriteEvent, SessionInv, TypesOK, ReaderTypeOK
  <1>4. ASSUME NEW r \in Requests, WriteDone(r) PROVE ReaderTypeOK'
    BY <1>4 DEF WriteDone, Goto, queueVars, readerVars, endVars, mapVars, SessionInv, TypesOK,
       ReaderTypeOK
  <1>5. ASSUME NEW r \in Requests, ClientGone(r) PROVE ReaderTypeOK'
    BY <1>5 DEF ClientGone, Goto, queueVars, readerVars, endVars, mapVars, SessionInv,
       TypesOK, ReaderTypeOK
  <1>6. ASSUME NEW r \in Requests, Create(r) \/ SweepJoins(r) \/ Insert(r) \/ StartRunner(r)
              \/ WritePing(r) \/ Stop(r)
        PROVE  UNCHANGED <<batch, finished>>
    BY <1>6 DEF Create, SweepJoins, Insert, StartRunner, WritePing, Stop, queueVars,
       readerVars, endVars, mapVars, Goto
  <1>7. ASSUME NEW r \in Requests, NEW s \in todo, SweepKeeps(r, s) \/ SweepCloses(r, s)
        PROVE  UNCHANGED <<batch, finished>>
    BY <1>7 DEF SweepKeeps, SweepCloses, queueVars, readerVars, endVars, mapVars, Goto
  <1>8. ASSUME NEW r \in Requests, NEW n \in 1 .. AudioCap + 1, PostAudio(r, n)
        PROVE  UNCHANGED <<batch, finished>>
    BY <1>8 DEF PostAudio, queueVars, readerVars, endVars, mapVars, Goto
  <1>9. ASSUME NEW r \in Requests, NEW s \in listed, NEW what \in {"audio", "stop", "wait"}, LookUp(r, s, what)
        PROVE  UNCHANGED <<batch, finished>>
    BY <1>9 DEF LookUp, queueVars, readerVars, endVars, mapVars, Goto
  <1>10. ASSUME NEW s \in Sessions, Quiet(s) \/ TurnEvent(s) \/ PartialEvent(s)
              \/ StreamEnds(s) \/ RunnerThrows(s) \/ SetDone(s)
        PROVE  UNCHANGED <<batch, finished>>
    BY <1>10 DEF Quiet, TurnEvent, PartialEvent, StreamEnds, RunnerThrows, SetDone, queueVars,
       readerVars, endVars, mapVars
  <1>11. ASSUME NEW s \in doomed, ShutdownCloses(s) \/ ShutdownJoins(s)
        PROVE  UNCHANGED <<batch, finished>>
    BY <1>11 DEF ShutdownCloses, ShutdownJoins, queueVars, readerVars, endVars, mapVars
  <1>12. ASSUME Shutdown \/ ShutdownOver \/ UNCHANGED sessionVars
        PROVE  UNCHANGED <<batch, finished>>
    BY <1>12 DEF Shutdown, ShutdownOver, queueVars, readerVars, endVars, mapVars, sessionVars
  <1> QED
    BY <1>1, <1>2, <1>3, <1>4, <1>5, <1>6, <1>7, <1>8, <1>9, <1>10, <1>11,
       <1>12 DEF SessionNext, CreateSteps, ReaderSteps, RunnerSteps, ShutdownSteps

\* Events are numbers.
LEMMA EventTypeKept ==
    ASSUME SessionInv, [SessionNext]_sessionVars
    PROVE  EventTypeOK'
  <1> USE VoiceSessionAssumption DEF Sessions
  <1>1. ASSUME UNCHANGED <<events, sent>> PROVE EventTypeOK'
    BY <1>1 DEF SessionInv, TypesOK, EventTypeOK
  <1>2. ASSUME NEW r \in Requests, Drain(r) PROVE EventTypeOK'
    <2>1. on[r] \in Sessions /\ events' = [events EXCEPT ![on[r]] = <<>>] /\ sent' = sent
      BY <1>2 DEF Drain, SessionInv, TypesOK, PlaceTypeOK
    <2> QED
      BY <2>1 DEF SessionInv, TypesOK, EventTypeOK
  <1>3. ASSUME NEW s \in Sessions, TurnEvent(s) PROVE EventTypeOK'
    <2>1. Emit(s)
      BY <1>3 DEF TurnEvent
    <2> QED
      BY <2>1, EmitIs DEF SessionInv, EventTypeOK
  <1>4. ASSUME NEW s \in Sessions, PartialEvent(s) PROVE EventTypeOK'
    <2>1. Emit(s)
      BY <1>4 DEF PartialEvent
    <2> QED
      BY <2>1, EmitIs DEF SessionInv, EventTypeOK
  <1>5. ASSUME NEW s \in Sessions, StreamEnds(s) PROVE EventTypeOK'
    <2>1. CASE speaking[s]
      <3>1. Emit(s)
        BY <1>5, <2>1 DEF StreamEnds
      <3> QED
        BY <3>1, EmitIs DEF SessionInv, EventTypeOK
    <2>2. CASE ~ speaking[s]
      BY <1>5, <1>1, <2>2 DEF StreamEnds
    <2> QED
      BY <2>1, <2>2
  <1>6. ASSUME NEW s \in Sessions, RunnerThrows(s) PROVE EventTypeOK'
    <2>1. Emit(s)
      BY <1>6 DEF RunnerThrows
    <2> QED
      BY <2>1, EmitIs DEF SessionInv, EventTypeOK
  <1>7. ASSUME NEW r \in Requests, Create(r) \/ SweepJoins(r) \/ Insert(r) \/ StartRunner(r)
              \/ WriteEvent(r) \/ WritePing(r) \/ WriteDone(r) \/ ClientGone(r) \/ Stop(r)
        PROVE  UNCHANGED <<events, sent>>
    BY <1>7 DEF Create, SweepJoins, Insert, StartRunner, WriteEvent, WritePing, WriteDone,
       ClientGone, Stop, queueVars, readerVars, endVars, mapVars, Goto
  <1>8. ASSUME NEW r \in Requests, NEW s \in todo, SweepKeeps(r, s) \/ SweepCloses(r, s)
        PROVE  UNCHANGED <<events, sent>>
    BY <1>8 DEF SweepKeeps, SweepCloses, queueVars, readerVars, endVars, mapVars, Goto
  <1>9. ASSUME NEW r \in Requests, NEW n \in 1 .. AudioCap + 1, PostAudio(r, n)
        PROVE  UNCHANGED <<events, sent>>
    BY <1>9 DEF PostAudio, queueVars, readerVars, endVars, mapVars, Goto
  <1>10. ASSUME NEW r \in Requests, NEW s \in listed, NEW what \in {"audio", "stop", "wait"}, LookUp(r, s, what)
        PROVE  UNCHANGED <<events, sent>>
    BY <1>10 DEF LookUp, queueVars, readerVars, endVars, mapVars, Goto
  <1>11. ASSUME NEW s \in Sessions, Quiet(s) \/ SetDone(s)
        PROVE  UNCHANGED <<events, sent>>
    BY <1>11 DEF Quiet, SetDone, queueVars, readerVars, endVars, mapVars
  <1>12. ASSUME NEW s \in doomed, ShutdownCloses(s) \/ ShutdownJoins(s)
        PROVE  UNCHANGED <<events, sent>>
    BY <1>12 DEF ShutdownCloses, ShutdownJoins, queueVars, readerVars, endVars, mapVars
  <1>13. ASSUME Shutdown \/ ShutdownOver \/ UNCHANGED sessionVars
        PROVE  UNCHANGED <<events, sent>>
    BY <1>13 DEF Shutdown, ShutdownOver, queueVars, readerVars, endVars, mapVars, sessionVars
  <1> QED
    BY <1>1, <1>2, <1>3, <1>4, <1>5, <1>6, <1>7, <1>8, <1>9, <1>10, <1>11, <1>12,
       <1>13 DEF SessionNext, CreateSteps, ReaderSteps, RunnerSteps, ShutdownSteps

\* A queue holds the last events emitted.
LEMMA RowKept ==
    ASSUME SessionInv, [SessionNext]_sessionVars
    PROVE  EventsInRow'
  <1> USE VoiceSessionAssumption DEF Sessions
  <1>1. ASSUME UNCHANGED <<events, sent>> PROVE EventsInRow'
    BY <1>1 DEF SessionInv, EventsInRow
  <1>2. ASSUME NEW r \in Requests, Drain(r) PROVE EventsInRow'
    <2>1. on[r] \in Sessions /\ events' = [events EXCEPT ![on[r]] = <<>>] /\ sent' = sent
      BY <1>2 DEF Drain, SessionInv, TypesOK, PlaceTypeOK
    <2>2. LastOf(<<>>, sent[on[r]])
      BY <2>1 DEF LastOf, SessionInv, TypesOK, EventTypeOK
    <2> QED
      BY <2>1, <2>2 DEF SessionInv, TypesOK, EventTypeOK, EventsInRow
  <1>3. ASSUME NEW s \in Sessions, TurnEvent(s) PROVE EventsInRow'
    <2>1. Emit(s)
      BY <1>3 DEF TurnEvent
    <2> QED
      BY <2>1, EmitIs DEF SessionInv, EventsInRow
  <1>4. ASSUME NEW s \in Sessions, PartialEvent(s) PROVE EventsInRow'
    <2>1. Emit(s)
      BY <1>4 DEF PartialEvent
    <2> QED
      BY <2>1, EmitIs DEF SessionInv, EventsInRow
  <1>5. ASSUME NEW s \in Sessions, StreamEnds(s) PROVE EventsInRow'
    <2>1. CASE speaking[s]
      <3>1. Emit(s)
        BY <1>5, <2>1 DEF StreamEnds
      <3> QED
        BY <3>1, EmitIs DEF SessionInv, EventsInRow
    <2>2. CASE ~ speaking[s]
      BY <1>5, <1>1, <2>2 DEF StreamEnds
    <2> QED
      BY <2>1, <2>2
  <1>6. ASSUME NEW s \in Sessions, RunnerThrows(s) PROVE EventsInRow'
    <2>1. Emit(s)
      BY <1>6 DEF RunnerThrows
    <2> QED
      BY <2>1, EmitIs DEF SessionInv, EventsInRow
  <1>7. ASSUME NEW r \in Requests, Create(r) \/ SweepJoins(r) \/ Insert(r) \/ StartRunner(r)
              \/ WriteEvent(r) \/ WritePing(r) \/ WriteDone(r) \/ ClientGone(r) \/ Stop(r)
        PROVE  UNCHANGED <<events, sent>>
    BY <1>7 DEF Create, SweepJoins, Insert, StartRunner, WriteEvent, WritePing, WriteDone,
       ClientGone, Stop, queueVars, readerVars, endVars, mapVars, Goto
  <1>8. ASSUME NEW r \in Requests, NEW s \in todo, SweepKeeps(r, s) \/ SweepCloses(r, s)
        PROVE  UNCHANGED <<events, sent>>
    BY <1>8 DEF SweepKeeps, SweepCloses, queueVars, readerVars, endVars, mapVars, Goto
  <1>9. ASSUME NEW r \in Requests, NEW n \in 1 .. AudioCap + 1, PostAudio(r, n)
        PROVE  UNCHANGED <<events, sent>>
    BY <1>9 DEF PostAudio, queueVars, readerVars, endVars, mapVars, Goto
  <1>10. ASSUME NEW r \in Requests, NEW s \in listed, NEW what \in {"audio", "stop", "wait"}, LookUp(r, s, what)
        PROVE  UNCHANGED <<events, sent>>
    BY <1>10 DEF LookUp, queueVars, readerVars, endVars, mapVars, Goto
  <1>11. ASSUME NEW s \in Sessions, Quiet(s) \/ SetDone(s)
        PROVE  UNCHANGED <<events, sent>>
    BY <1>11 DEF Quiet, SetDone, queueVars, readerVars, endVars, mapVars
  <1>12. ASSUME NEW s \in doomed, ShutdownCloses(s) \/ ShutdownJoins(s)
        PROVE  UNCHANGED <<events, sent>>
    BY <1>12 DEF ShutdownCloses, ShutdownJoins, queueVars, readerVars, endVars, mapVars
  <1>13. ASSUME Shutdown \/ ShutdownOver \/ UNCHANGED sessionVars
        PROVE  UNCHANGED <<events, sent>>
    BY <1>13 DEF Shutdown, ShutdownOver, queueVars, readerVars, endVars, mapVars, sessionVars
  <1> QED
    BY <1>1, <1>2, <1>3, <1>4, <1>5, <1>6, <1>7, <1>8, <1>9, <1>10, <1>11, <1>12,
       <1>13 DEF SessionNext, CreateSteps, ReaderSteps, RunnerSteps, ShutdownSteps

\* Threads live in order.
LEMMA LivesKept ==
    ASSUME SessionInv, [SessionNext]_sessionVars
    PROVE  Lives'
  <1> USE VoiceSessionAssumption DEF Sessions
  <1>1. ASSUME UNCHANGED <<created, runner, speaking, sent>> PROVE Lives'
    BY <1>1 DEF SessionInv, RunnerTypeOK, FlagTypeOK, EventTypeOK, Lives
  <1>2. ASSUME NEW r \in Requests, SweepJoins(r) PROVE Lives'
    <2>1. on[r] \in Sessions /\ runner' = AfterJoin(on[r])
      BY <1>2 DEF SweepJoins, SessionInv, TypesOK, PlaceTypeOK
    <2>2. \A x \in Sessions :
             runner'[x] = IF x = on[r] /\ runner[on[r]] = "exited" THEN "joined" ELSE runner[x]
      BY <2>1, AfterJoinIs
    <2> QED
      BY <1>2, <2>1, <2>2 DEF SweepJoins, queueVars, readerVars, endVars, mapVars, SessionInv,
         TypesOK, RunnerTypeOK, FlagTypeOK, EventTypeOK, Lives
  <1>3. ASSUME NEW r \in Requests, Insert(r) PROVE Lives'
    <2>1. created \in Nat /\ created' = created + 1 /\ UNCHANGED <<runner, speaking, sent>>
      BY <1>3 DEF Insert, queueVars, SessionInv, TypesOK, MapTypeOK
    <2> QED
      BY <2>1 DEF SessionInv, Lives
  <1>4. ASSUME NEW r \in Requests, StartRunner(r) PROVE Lives'
    <2>1. /\ on[r] \in Sessions /\ on[r] <= created /\ created \in Nat
          /\ runner[on[r]] = "none"
          /\ runner' = [runner EXCEPT ![on[r]] = "running"]
          /\ UNCHANGED <<created, speaking, sent>>
      BY <1>4 DEF StartRunner, mapVars, queueVars, SessionInv, TypesOK, PlaceTypeOK,
         MapTypeOK, Starts
    <2> QED
      BY <2>1 DEF SessionInv, TypesOK, RunnerTypeOK, Lives
  <1>5. ASSUME NEW s \in Sessions, TurnEvent(s) PROVE Lives'
    <2>1. Emit(s) /\ runner[s] = "running" /\ created' = created
      BY <1>5 DEF TurnEvent, HasAudio, mapVars
    <2>2. /\ \A x \in Sessions : x # s => runner'[x] = runner[x] /\ speaking'[x] = speaking[x]
          /\ \/ runner'[s] = "running" /\ sent[s] < MaxEvents[s]
             \/ runner'[s] \in {"leaving", "failing"} /\ ~ speaking'[s]
      BY <1>5 DEF TurnEvent, HasAudio, SessionInv, TypesOK, RunnerTypeOK, FlagTypeOK
    <2> QED
      BY <2>1, <2>2, LivesAfterEmit
  <1>6. ASSUME NEW s \in Sessions, PartialEvent(s) PROVE Lives'
    <2>1. Emit(s) /\ runner[s] = "running" /\ created' = created
      BY <1>6 DEF PartialEvent, HasAudio, mapVars
    <2>2. /\ \A x \in Sessions : x # s => runner'[x] = runner[x] /\ speaking'[x] = speaking[x]
          /\ \/ runner'[s] = "running" /\ sent[s] < MaxEvents[s]
             \/ runner'[s] \in {"leaving", "failing"} /\ ~ speaking'[s]
      BY <1>6 DEF PartialEvent, HasAudio, SessionInv, TypesOK, RunnerTypeOK, FlagTypeOK
    <2> QED
      BY <2>1, <2>2, LivesAfterEmit
  <1>7. ASSUME NEW s \in Sessions, StreamEnds(s) PROVE Lives'
    <2>1. CASE speaking[s]
      <3>1. Emit(s) /\ runner[s] = "running" /\ created' = created
        BY <1>7, <2>1 DEF StreamEnds, mapVars
      <3>2. /\ \A x \in Sessions : x # s => runner'[x] = runner[x] /\ speaking'[x] = speaking[x]
            /\ runner'[s] = "leaving" /\ ~ speaking'[s]
        BY <1>7 DEF StreamEnds, SessionInv, TypesOK, RunnerTypeOK, FlagTypeOK
      <3> QED
        BY <3>1, <3>2, LivesAfterEmit
    <2>2. CASE ~ speaking[s]
      <3>1. /\ runner[s] = "running" /\ runner' = [runner EXCEPT ![s] = "leaving"]
            /\ speaking' = [speaking EXCEPT ![s] = FALSE]
            /\ UNCHANGED <<created, sent>>
        BY <1>7, <2>2 DEF StreamEnds, mapVars
      <3> QED
        BY <3>1 DEF SessionInv, TypesOK, RunnerTypeOK, FlagTypeOK, Lives
    <2> QED
      BY <2>1, <2>2
  <1>8. ASSUME NEW s \in Sessions, RunnerThrows(s) PROVE Lives'
    <2>1. Emit(s) /\ runner[s] = "running" /\ created' = created
      BY <1>8 DEF RunnerThrows, HasAudio, mapVars
    <2>2. /\ \A x \in Sessions : x # s => runner'[x] = runner[x] /\ speaking'[x] = speaking[x]
          /\ \/ runner'[s] = "running" /\ sent[s] < MaxEvents[s]
             \/ runner'[s] \in {"leaving", "failing"} /\ ~ speaking'[s]
      BY <1>8 DEF RunnerThrows, HasAudio, SessionInv, TypesOK, RunnerTypeOK, FlagTypeOK
    <2> QED
      BY <2>1, <2>2, LivesAfterEmit
  <1>9. ASSUME NEW s \in Sessions, SetDone(s) PROVE Lives'
    BY <1>9 DEF SetDone, queueVars, readerVars, endVars, mapVars, SessionInv, RunnerTypeOK,
       FlagTypeOK, EventTypeOK, Lives
  <1>10. ASSUME NEW s \in doomed, ShutdownJoins(s) PROVE Lives'
    <2>1. s \in Sessions /\ runner' = AfterJoin(s)
      BY <1>10 DEF ShutdownJoins, SessionInv, TypesOK, MapTypeOK
    <2>2. \A x \in Sessions :
             runner'[x] = IF x = s /\ runner[s] = "exited" THEN "joined" ELSE runner[x]
      BY <2>1, AfterJoinIs
    <2> QED
      BY <1>10, <2>1, <2>2 DEF ShutdownJoins, queueVars, readerVars, endVars, mapVars,
         SessionInv, TypesOK, RunnerTypeOK, FlagTypeOK, EventTypeOK, Lives
  <1>11. ASSUME NEW r \in Requests, Create(r) \/ Drain(r) \/ WriteEvent(r) \/ WritePing(r)
              \/ WriteDone(r) \/ ClientGone(r) \/ Stop(r)
        PROVE  UNCHANGED <<created, runner, speaking, sent>>
    BY <1>11 DEF Create, Drain, WriteEvent, WritePing, WriteDone, ClientGone, Stop, queueVars,
       readerVars, endVars, mapVars, Goto
  <1>12. ASSUME NEW r \in Requests, NEW s \in todo, SweepKeeps(r, s) \/ SweepCloses(r, s)
        PROVE  UNCHANGED <<created, runner, speaking, sent>>
    BY <1>12 DEF SweepKeeps, SweepCloses, queueVars, readerVars, endVars, mapVars, Goto
  <1>13. ASSUME NEW r \in Requests, NEW n \in 1 .. AudioCap + 1, PostAudio(r, n)
        PROVE  UNCHANGED <<created, runner, speaking, sent>>
    BY <1>13 DEF PostAudio, queueVars, readerVars, endVars, mapVars, Goto
  <1>14. ASSUME NEW r \in Requests, NEW s \in listed, NEW what \in {"audio", "stop", "wait"}, LookUp(r, s, what)
        PROVE  UNCHANGED <<created, runner, speaking, sent>>
    BY <1>14 DEF LookUp, queueVars, readerVars, endVars, mapVars, Goto
  <1>15. ASSUME NEW s \in Sessions, Quiet(s)
        PROVE  UNCHANGED <<created, runner, speaking, sent>>
    BY <1>15 DEF Quiet, queueVars, readerVars, endVars, mapVars
  <1>16. ASSUME NEW s \in doomed, ShutdownCloses(s)
        PROVE  UNCHANGED <<created, runner, speaking, sent>>
    BY <1>16 DEF ShutdownCloses, queueVars, readerVars, endVars, mapVars
  <1>17. ASSUME Shutdown \/ ShutdownOver \/ UNCHANGED sessionVars
        PROVE  UNCHANGED <<created, runner, speaking, sent>>
    BY <1>17 DEF Shutdown, ShutdownOver, queueVars, readerVars, endVars, mapVars, sessionVars
  <1> QED
    BY <1>1, <1>2, <1>3, <1>4, <1>5, <1>6, <1>7, <1>8, <1>9, <1>10, <1>11, <1>12, <1>13,
       <1>14, <1>15, <1>16, <1>17 DEF SessionNext, CreateSteps, ReaderSteps, RunnerSteps,
       ShutdownSteps

\* A thread is started once.
LEMMA StartsKept ==
    ASSUME SessionInv, [SessionNext]_sessionVars
    PROVE  Starts'
  <1> USE VoiceSessionAssumption DEF Sessions
  <1>1. ASSUME UNCHANGED <<at, on, created, runner>> PROVE Starts'
    BY <1>1 DEF SessionInv, PlaceTypeOK, Places, Locked, RunnerTypeOK, Starts
  <1>2. ASSUME NEW r \in Requests, Create(r) PROVE Starts'
    BY <1>2 DEF Create, Goto, queueVars, readerVars, endVars, mapVars, SessionInv,
       PlaceTypeOK, Places, Locked, RunnerTypeOK, Starts
  <1>3. ASSUME NEW r \in Requests, NEW s \in todo, SweepCloses(r, s) PROVE Starts'
    BY <1>3 DEF SweepCloses, Goto, queueVars, readerVars, endVars, mapVars, SessionInv,
       PlaceTypeOK, Places, Locked, RunnerTypeOK, Starts
  <1>4. ASSUME NEW r \in Requests, SweepJoins(r) PROVE Starts'
    <2>1. on[r] \in Sessions /\ runner' = AfterJoin(on[r])
      BY <1>4 DEF SweepJoins, SessionInv, TypesOK, PlaceTypeOK
    <2>2. \A x \in Sessions :
             runner'[x] = IF x = on[r] /\ runner[on[r]] = "exited" THEN "joined" ELSE runner[x]
      BY <2>1, AfterJoinIs
    <2> QED
      BY <1>4, <2>1, <2>2 DEF SweepJoins, queueVars, readerVars, endVars, mapVars, SessionInv,
         TypesOK, Goto, PlaceTypeOK, Places, Locked, RunnerTypeOK, Starts
  <1>5. ASSUME NEW r \in Requests, Insert(r) PROVE Starts'
    <2>1. /\ created' = created + 1 /\ created \in Nat /\ created + 1 \in Sessions
          /\ at' = [at EXCEPT ![r] = "start"] /\ on' = [on EXCEPT ![r] = created + 1]
          /\ runner' = runner
      BY <1>5 DEF Insert, Goto, SessionInv, TypesOK, MapTypeOK, Locking, Locked
    <2>2. runner[created + 1] = "none"
      BY <2>1 DEF SessionInv, Lives
    <2>3. \A q \in Requests : at[q] = "start" => on[q] \in Nat /\ on[q] <= created
      BY DEF SessionInv, TypesOK, PlaceTypeOK, Starts
    <2> QED
      BY <2>1, <2>2, <2>3 DEF SessionInv, TypesOK, PlaceTypeOK, Starts
  <1>6. ASSUME NEW r \in Requests, StartRunner(r) PROVE Starts'
    <2>1. /\ at[r] = "start" /\ on[r] \in Sessions
          /\ at' = [at EXCEPT ![r] = "idle"] /\ on' = [on EXCEPT ![r] = 0]
          /\ runner' = [runner EXCEPT ![on[r]] = "running"] /\ created' = created
      BY <1>6 DEF StartRunner, Goto, mapVars, SessionInv, TypesOK, PlaceTypeOK
    <2> QED
      BY <2>1 DEF SessionInv, TypesOK, PlaceTypeOK, RunnerTypeOK, Starts
  <1>7. ASSUME NEW r \in Requests, Drain(r) PROVE Starts'
    BY <1>7 DEF Drain, queueVars, readerVars, endVars, mapVars, SessionInv, PlaceTypeOK,
       Places, Locked, RunnerTypeOK, Starts
  <1>8. ASSUME NEW r \in Requests, WriteEvent(r) PROVE Starts'
    BY <1>8 DEF WriteEvent, queueVars, readerVars, endVars, mapVars, SessionInv, PlaceTypeOK,
       Places, Locked, RunnerTypeOK, Starts
  <1>9. ASSUME NEW r \in Requests, WritePing(r) PROVE Starts'
    BY <1>9 DEF WritePing, queueVars, readerVars, endVars, mapVars, SessionInv, PlaceTypeOK,
       Places, Locked, RunnerTypeOK, Starts
  <1>10. ASSUME NEW r \in Requests, WriteDone(r) PROVE Starts'
    BY <1>10 DEF WriteDone, Goto, queueVars, readerVars, endVars, mapVars, SessionInv,
       PlaceTypeOK, Places, Locked, RunnerTypeOK, Starts
  <1>11. ASSUME NEW r \in Requests, ClientGone(r) PROVE Starts'
    BY <1>11 DEF ClientGone, Goto, queueVars, readerVars, endVars, mapVars, SessionInv,
       PlaceTypeOK, Places, Locked, RunnerTypeOK, Starts
  <1>12. ASSUME NEW r \in Requests, Stop(r) PROVE Starts'
    BY <1>12 DEF Stop, Goto, queueVars, readerVars, endVars, mapVars, SessionInv, PlaceTypeOK,
       Places, Locked, RunnerTypeOK, Starts
  <1>13. ASSUME NEW r \in Requests, NEW n \in 1 .. AudioCap + 1, PostAudio(r, n) PROVE Starts'
    BY <1>13 DEF PostAudio, Goto, queueVars, readerVars, endVars, mapVars, SessionInv,
       PlaceTypeOK, Places, Locked, RunnerTypeOK, Starts
  <1>14. ASSUME NEW r \in Requests, NEW s \in listed, NEW what \in {"audio", "stop", "wait"}, LookUp(r, s, what) PROVE Starts'
    BY <1>14 DEF LookUp, Goto, queueVars, readerVars, endVars, mapVars, SessionInv,
       PlaceTypeOK, Places, Locked, RunnerTypeOK, Starts
  <1>15. ASSUME NEW s \in Sessions, StreamEnds(s) PROVE Starts'
    BY <1>15 DEF StreamEnds, queueVars, readerVars, endVars, mapVars, SessionInv, PlaceTypeOK,
       Places, Locked, RunnerTypeOK, Starts
  <1>16. ASSUME NEW s \in Sessions, RunnerThrows(s) PROVE Starts'
    BY <1>16 DEF RunnerThrows, queueVars, readerVars, endVars, mapVars, SessionInv,
       PlaceTypeOK, Places, Locked, RunnerTypeOK, Starts
  <1>17. ASSUME NEW s \in Sessions, SetDone(s) PROVE Starts'
    BY <1>17 DEF SetDone, queueVars, readerVars, endVars, mapVars, SessionInv, PlaceTypeOK,
       Places, Locked, RunnerTypeOK, Starts
  <1>18. ASSUME NEW s \in doomed, ShutdownJoins(s) PROVE Starts'
    <2>1. s \in Sessions /\ runner' = AfterJoin(s)
      BY <1>18 DEF ShutdownJoins, SessionInv, TypesOK, MapTypeOK
    <2>2. \A x \in Sessions :
             runner'[x] = IF x = s /\ runner[s] = "exited" THEN "joined" ELSE runner[x]
      BY <2>1, AfterJoinIs
    <2> QED
      BY <1>18, <2>1, <2>2 DEF ShutdownJoins, queueVars, readerVars, endVars, mapVars,
         SessionInv, TypesOK, PlaceTypeOK, Places, Locked, RunnerTypeOK, Starts
  <1>19. ASSUME NEW r \in Requests, NEW s \in todo, SweepKeeps(r, s)
        PROVE  UNCHANGED <<at, on, created, runner>>
    BY <1>19 DEF SweepKeeps, queueVars, readerVars, endVars, mapVars
  <1>20. ASSUME NEW s \in Sessions, Quiet(s) \/ TurnEvent(s) \/ PartialEvent(s)
        PROVE  UNCHANGED <<at, on, created, runner>>
    BY <1>20 DEF Quiet, TurnEvent, PartialEvent, queueVars, readerVars, endVars, mapVars
  <1>21. ASSUME NEW s \in doomed, ShutdownCloses(s)
        PROVE  UNCHANGED <<at, on, created, runner>>
    BY <1>21 DEF ShutdownCloses, queueVars, readerVars, endVars, mapVars
  <1>22. ASSUME Shutdown \/ ShutdownOver \/ UNCHANGED sessionVars
        PROVE  UNCHANGED <<at, on, created, runner>>
    BY <1>22 DEF Shutdown, ShutdownOver, queueVars, readerVars, endVars, mapVars, sessionVars
  <1> QED
    BY <1>1, <1>2, <1>3, <1>4, <1>5, <1>6, <1>7, <1>8, <1>9, <1>10, <1>11, <1>12, <1>13,
       <1>14, <1>15, <1>16, <1>17, <1>18, <1>19, <1>20, <1>21, <1>22 DEF SessionNext,
       CreateSteps, ReaderSteps, RunnerSteps, ShutdownSteps

\* The map's lock is with one creator.
LEMMA LockingKept ==
    ASSUME SessionInv, [SessionNext]_sessionVars
    PROVE  Locking'
  <1> USE VoiceSessionAssumption DEF Sessions
  <1>1. ASSUME UNCHANGED <<at, on, created, runner>> PROVE Locking'
    BY <1>1 DEF SessionInv, PlaceTypeOK, Places, Locked, RunnerTypeOK, Locking
  <1>2. ASSUME NEW r \in Requests, Create(r) PROVE Locking'
    BY <1>2 DEF Create, Goto, queueVars, readerVars, endVars, mapVars, SessionInv,
       PlaceTypeOK, Places, Locked, RunnerTypeOK, Locking, MutexFree
  <1>3. ASSUME NEW r \in Requests, NEW s \in todo, SweepCloses(r, s) PROVE Locking'
    <2>1. /\ s \in Sessions /\ at[r] = "sweep" /\ runner' = runner /\ created' = created
          /\ at' = [at EXCEPT ![r] = "join"] /\ on' = [on EXCEPT ![r] = s]
      BY <1>3 DEF SweepCloses, Goto, mapVars, SessionInv, TypesOK, MapTypeOK
    <2>2. runner[s] # "none"
      BY <1>3, <2>1 DEF SweepCloses, Drained, done
    <2> QED
      BY <2>1, <2>2 DEF SessionInv, TypesOK, PlaceTypeOK, Locked, Locking
  <1>4. ASSUME NEW r \in Requests, SweepJoins(r) PROVE Locking'
    <2>1. on[r] \in Sessions /\ runner' = AfterJoin(on[r])
      BY <1>4 DEF SweepJoins, SessionInv, TypesOK, PlaceTypeOK
    <2>2. \A x \in Sessions :
             runner'[x] = IF x = on[r] /\ runner[on[r]] = "exited" THEN "joined" ELSE runner[x]
      BY <2>1, AfterJoinIs
    <2> QED
      BY <1>4, <2>1, <2>2 DEF SweepJoins, queueVars, readerVars, endVars, mapVars, SessionInv,
         TypesOK, Goto, PlaceTypeOK, Places, Locked, RunnerTypeOK, Locking
  <1>5. ASSUME NEW r \in Requests, Insert(r) PROVE Locking'
    <2>1. /\ at[r] = "sweep" /\ runner' = runner
          /\ at' = [at EXCEPT ![r] = "start"] /\ on' = [on EXCEPT ![r] = created + 1]
      BY <1>5 DEF Insert, Goto
    <2>2. \A q \in Requests : at'[q] \notin Locked
      BY <2>1 DEF SessionInv, TypesOK, PlaceTypeOK, Locked, Locking
    <2> QED
      BY <2>2 DEF Locked, Locking
  <1>6. ASSUME NEW r \in Requests, StartRunner(r) PROVE Locking'
    BY <1>6 DEF StartRunner, Goto, queueVars, readerVars, endVars, mapVars, SessionInv,
       PlaceTypeOK, Places, Locked, RunnerTypeOK, Locking
  <1>7. ASSUME NEW r \in Requests, Drain(r) PROVE Locking'
    BY <1>7 DEF Drain, queueVars, readerVars, endVars, mapVars, SessionInv, PlaceTypeOK,
       Places, Locked, RunnerTypeOK, Locking
  <1>8. ASSUME NEW r \in Requests, WriteEvent(r) PROVE Locking'
    BY <1>8 DEF WriteEvent, queueVars, readerVars, endVars, mapVars, SessionInv, PlaceTypeOK,
       Places, Locked, RunnerTypeOK, Locking
  <1>9. ASSUME NEW r \in Requests, WritePing(r) PROVE Locking'
    BY <1>9 DEF WritePing, queueVars, readerVars, endVars, mapVars, SessionInv, PlaceTypeOK,
       Places, Locked, RunnerTypeOK, Locking
  <1>10. ASSUME NEW r \in Requests, WriteDone(r) PROVE Locking'
    BY <1>10 DEF WriteDone, Goto, queueVars, readerVars, endVars, mapVars, SessionInv,
       PlaceTypeOK, Places, Locked, RunnerTypeOK, Locking
  <1>11. ASSUME NEW r \in Requests, ClientGone(r) PROVE Locking'
    BY <1>11 DEF ClientGone, Goto, queueVars, readerVars, endVars, mapVars, SessionInv,
       PlaceTypeOK, Places, Locked, RunnerTypeOK, Locking
  <1>12. ASSUME NEW r \in Requests, Stop(r) PROVE Locking'
    BY <1>12 DEF Stop, Goto, queueVars, readerVars, endVars, mapVars, SessionInv, PlaceTypeOK,
       Places, Locked, RunnerTypeOK, Locking
  <1>13. ASSUME NEW r \in Requests, NEW n \in 1 .. AudioCap + 1, PostAudio(r, n) PROVE Locking'
    BY <1>13 DEF PostAudio, Goto, queueVars, readerVars, endVars, mapVars, SessionInv,
       PlaceTypeOK, Places, Locked, RunnerTypeOK, Locking
  <1>14. ASSUME NEW r \in Requests, NEW s \in listed, NEW what \in {"audio", "stop", "wait"}, LookUp(r, s, what) PROVE Locking'
    BY <1>14 DEF LookUp, Goto, queueVars, readerVars, endVars, mapVars, SessionInv,
       PlaceTypeOK, Places, Locked, RunnerTypeOK, Locking
  <1>15. ASSUME NEW s \in Sessions, StreamEnds(s) PROVE Locking'
    BY <1>15 DEF StreamEnds, queueVars, readerVars, endVars, mapVars, SessionInv, PlaceTypeOK,
       Places, Locked, RunnerTypeOK, Locking
  <1>16. ASSUME NEW s \in Sessions, RunnerThrows(s) PROVE Locking'
    BY <1>16 DEF RunnerThrows, queueVars, readerVars, endVars, mapVars, SessionInv,
       PlaceTypeOK, Places, Locked, RunnerTypeOK, Locking
  <1>17. ASSUME NEW s \in Sessions, SetDone(s) PROVE Locking'
    BY <1>17 DEF SetDone, queueVars, readerVars, endVars, mapVars, SessionInv, PlaceTypeOK,
       Places, Locked, RunnerTypeOK, Locking
  <1>18. ASSUME NEW s \in doomed, ShutdownJoins(s) PROVE Locking'
    <2>1. s \in Sessions /\ runner' = AfterJoin(s)
      BY <1>18 DEF ShutdownJoins, SessionInv, TypesOK, MapTypeOK
    <2>2. \A x \in Sessions :
             runner'[x] = IF x = s /\ runner[s] = "exited" THEN "joined" ELSE runner[x]
      BY <2>1, AfterJoinIs
    <2> QED
      BY <1>18, <2>1, <2>2 DEF ShutdownJoins, queueVars, readerVars, endVars, mapVars,
         SessionInv, TypesOK, PlaceTypeOK, Places, Locked, RunnerTypeOK, Locking
  <1>19. ASSUME NEW r \in Requests, NEW s \in todo, SweepKeeps(r, s)
        PROVE  UNCHANGED <<at, on, created, runner>>
    BY <1>19 DEF SweepKeeps, queueVars, readerVars, endVars, mapVars
  <1>20. ASSUME NEW s \in Sessions, Quiet(s) \/ TurnEvent(s) \/ PartialEvent(s)
        PROVE  UNCHANGED <<at, on, created, runner>>
    BY <1>20 DEF Quiet, TurnEvent, PartialEvent, queueVars, readerVars, endVars, mapVars
  <1>21. ASSUME NEW s \in doomed, ShutdownCloses(s)
        PROVE  UNCHANGED <<at, on, created, runner>>
    BY <1>21 DEF ShutdownCloses, queueVars, readerVars, endVars, mapVars
  <1>22. ASSUME Shutdown \/ ShutdownOver \/ UNCHANGED sessionVars
        PROVE  UNCHANGED <<at, on, created, runner>>
    BY <1>22 DEF Shutdown, ShutdownOver, queueVars, readerVars, endVars, mapVars, sessionVars
  <1> QED
    BY <1>1, <1>2, <1>3, <1>4, <1>5, <1>6, <1>7, <1>8, <1>9, <1>10, <1>11, <1>12, <1>13,
       <1>14, <1>15, <1>16, <1>17, <1>18, <1>19, <1>20, <1>21, <1>22 DEF SessionNext,
       CreateSteps, ReaderSteps, RunnerSteps, ShutdownSteps

\* Who sweeps has the lock.
LEMMA SweepingKept ==
    ASSUME SessionInv, [SessionNext]_sessionVars
    PROVE  Sweeping'
  <1> USE VoiceSessionAssumption DEF Sessions
  <1>1. ASSUME UNCHANGED <<at, todo>> PROVE Sweeping'
    BY <1>1 DEF SessionInv, TypesOK, PlaceTypeOK, Places, Locked, Sweeping
  <1>2. ASSUME NEW r \in Requests, Create(r) PROVE Sweeping'
    BY <1>2 DEF Create, Goto, queueVars, readerVars, endVars, mapVars, SessionInv, TypesOK,
       PlaceTypeOK, Places, Locked, Sweeping
  <1>3. ASSUME NEW r \in Requests, NEW s \in todo, SweepKeeps(r, s) PROVE Sweeping'
    BY <1>3 DEF SweepKeeps, queueVars, readerVars, endVars, mapVars, SessionInv, TypesOK,
       PlaceTypeOK, Places, Locked, Sweeping
  <1>4. ASSUME NEW r \in Requests, NEW s \in todo, SweepCloses(r, s) PROVE Sweeping'
    BY <1>4 DEF SweepCloses, Goto, queueVars, readerVars, endVars, mapVars, SessionInv,
       TypesOK, PlaceTypeOK, Places, Locked, Sweeping
  <1>5. ASSUME NEW r \in Requests, SweepJoins(r) PROVE Sweeping'
    BY <1>5 DEF SweepJoins, Goto, queueVars, readerVars, endVars, mapVars, SessionInv,
       TypesOK, PlaceTypeOK, Places, Locked, Sweeping
  <1>6. ASSUME NEW r \in Requests, Insert(r) PROVE Sweeping'
    BY <1>6 DEF Insert, Goto, queueVars, readerVars, endVars, mapVars, SessionInv, TypesOK,
       PlaceTypeOK, Places, Locked, Sweeping
  <1>7. ASSUME NEW r \in Requests, StartRunner(r) PROVE Sweeping'
    BY <1>7 DEF StartRunner, Goto, queueVars, readerVars, endVars, mapVars, SessionInv,
       TypesOK, PlaceTypeOK, Places, Locked, Sweeping
  <1>8. ASSUME NEW r \in Requests, Drain(r) PROVE Sweeping'
    BY <1>8 DEF Drain, queueVars, readerVars, endVars, mapVars, SessionInv, TypesOK,
       PlaceTypeOK, Places, Locked, Sweeping
  <1>9. ASSUME NEW r \in Requests, WriteEvent(r) PROVE Sweeping'
    BY <1>9 DEF WriteEvent, queueVars, readerVars, endVars, mapVars, SessionInv, TypesOK,
       PlaceTypeOK, Places, Locked, Sweeping
  <1>10. ASSUME NEW r \in Requests, WritePing(r) PROVE Sweeping'
    BY <1>10 DEF WritePing, queueVars, readerVars, endVars, mapVars, SessionInv, TypesOK,
       PlaceTypeOK, Places, Locked, Sweeping
  <1>11. ASSUME NEW r \in Requests, WriteDone(r) PROVE Sweeping'
    BY <1>11 DEF WriteDone, Goto, queueVars, readerVars, endVars, mapVars, SessionInv,
       TypesOK, PlaceTypeOK, Places, Locked, Sweeping
  <1>12. ASSUME NEW r \in Requests, ClientGone(r) PROVE Sweeping'
    BY <1>12 DEF ClientGone, Goto, queueVars, readerVars, endVars, mapVars, SessionInv,
       TypesOK, PlaceTypeOK, Places, Locked, Sweeping
  <1>13. ASSUME NEW r \in Requests, Stop(r) PROVE Sweeping'
    BY <1>13 DEF Stop, Goto, queueVars, readerVars, endVars, mapVars, SessionInv, TypesOK,
       PlaceTypeOK, Places, Locked, Sweeping
  <1>14. ASSUME NEW r \in Requests, NEW n \in 1 .. AudioCap + 1, PostAudio(r, n) PROVE Sweeping'
    BY <1>14 DEF PostAudio, Goto, queueVars, readerVars, endVars, mapVars, SessionInv,
       TypesOK, PlaceTypeOK, Places, Locked, Sweeping
  <1>15. ASSUME NEW r \in Requests, NEW s \in listed, NEW what \in {"audio", "stop", "wait"}, LookUp(r, s, what) PROVE Sweeping'
    BY <1>15 DEF LookUp, Goto, queueVars, readerVars, endVars, mapVars, SessionInv, TypesOK,
       PlaceTypeOK, Places, Locked, Sweeping
  <1>16. ASSUME NEW s \in Sessions, Quiet(s) \/ TurnEvent(s) \/ PartialEvent(s)
              \/ StreamEnds(s) \/ RunnerThrows(s) \/ SetDone(s)
        PROVE  UNCHANGED <<at, todo>>
    BY <1>16 DEF Quiet, TurnEvent, PartialEvent, StreamEnds, RunnerThrows, SetDone, queueVars,
       readerVars, endVars, mapVars
  <1>17. ASSUME NEW s \in doomed, ShutdownCloses(s) \/ ShutdownJoins(s)
        PROVE  UNCHANGED <<at, todo>>
    BY <1>17 DEF ShutdownCloses, ShutdownJoins, queueVars, readerVars, endVars, mapVars
  <1>18. ASSUME Shutdown \/ ShutdownOver \/ UNCHANGED sessionVars
        PROVE  UNCHANGED <<at, todo>>
    BY <1>18 DEF Shutdown, ShutdownOver, queueVars, readerVars, endVars, mapVars, sessionVars
  <1> QED
    BY <1>1, <1>2, <1>3, <1>4, <1>5, <1>6, <1>7, <1>8, <1>9, <1>10, <1>11, <1>12, <1>13,
       <1>14, <1>15, <1>16, <1>17, <1>18 DEF SessionNext, CreateSteps, ReaderSteps,
       RunnerSteps, ShutdownSteps

\* Who says [DONE] writes.
LEMMA ReadersKept ==
    ASSUME SessionInv, [SessionNext]_sessionVars
    PROVE  Readers'
  <1> USE VoiceSessionAssumption DEF Sessions
  <1>1. ASSUME UNCHANGED <<at, finished>> PROVE Readers'
    BY <1>1 DEF SessionInv, TypesOK, PlaceTypeOK, Places, Locked, ReaderTypeOK, Readers
  <1>2. ASSUME NEW r \in Requests, Create(r) PROVE Readers'
    BY <1>2 DEF Create, Goto, queueVars, readerVars, endVars, mapVars, SessionInv, TypesOK,
       PlaceTypeOK, Places, Locked, ReaderTypeOK, Readers
  <1>3. ASSUME NEW r \in Requests, NEW s \in todo, SweepCloses(r, s) PROVE Readers'
    BY <1>3 DEF SweepCloses, Goto, queueVars, readerVars, endVars, mapVars, SessionInv,
       TypesOK, PlaceTypeOK, Places, Locked, ReaderTypeOK, Readers
  <1>4. ASSUME NEW r \in Requests, SweepJoins(r) PROVE Readers'
    BY <1>4 DEF SweepJoins, Goto, queueVars, readerVars, endVars, mapVars, SessionInv,
       TypesOK, PlaceTypeOK, Places, Locked, ReaderTypeOK, Readers
  <1>5. ASSUME NEW r \in Requests, Insert(r) PROVE Readers'
    BY <1>5 DEF Insert, Goto, queueVars, readerVars, endVars, mapVars, SessionInv, TypesOK,
       PlaceTypeOK, Places, Locked, ReaderTypeOK, Readers
  <1>6. ASSUME NEW r \in Requests, StartRunner(r) PROVE Readers'
    BY <1>6 DEF StartRunner, Goto, queueVars, readerVars, endVars, mapVars, SessionInv,
       TypesOK, PlaceTypeOK, Places, Locked, ReaderTypeOK, Readers
  <1>7. ASSUME NEW r \in Requests, Drain(r) PROVE Readers'
    BY <1>7 DEF Drain, queueVars, readerVars, endVars, mapVars, SessionInv, TypesOK,
       PlaceTypeOK, Places, Locked, ReaderTypeOK, Readers
  <1>8. ASSUME NEW r \in Requests, WriteEvent(r) PROVE Readers'
    BY <1>8 DEF WriteEvent, queueVars, readerVars, endVars, mapVars, SessionInv, TypesOK,
       PlaceTypeOK, Places, Locked, ReaderTypeOK, Readers
  <1>9. ASSUME NEW r \in Requests, WritePing(r) PROVE Readers'
    BY <1>9 DEF WritePing, queueVars, readerVars, endVars, mapVars, SessionInv, TypesOK,
       PlaceTypeOK, Places, Locked, ReaderTypeOK, Readers
  <1>10. ASSUME NEW r \in Requests, WriteDone(r) PROVE Readers'
    BY <1>10 DEF WriteDone, Goto, queueVars, readerVars, endVars, mapVars, SessionInv,
       TypesOK, PlaceTypeOK, Places, Locked, ReaderTypeOK, Readers
  <1>11. ASSUME NEW r \in Requests, ClientGone(r) PROVE Readers'
    BY <1>11 DEF ClientGone, Goto, queueVars, readerVars, endVars, mapVars, SessionInv,
       TypesOK, PlaceTypeOK, Places, Locked, ReaderTypeOK, Readers
  <1>12. ASSUME NEW r \in Requests, Stop(r) PROVE Readers'
    BY <1>12 DEF Stop, Goto, queueVars, readerVars, endVars, mapVars, SessionInv, TypesOK,
       PlaceTypeOK, Places, Locked, ReaderTypeOK, Readers
  <1>13. ASSUME NEW r \in Requests, NEW n \in 1 .. AudioCap + 1, PostAudio(r, n) PROVE Readers'
    BY <1>13 DEF PostAudio, Goto, queueVars, readerVars, endVars, mapVars, SessionInv,
       TypesOK, PlaceTypeOK, Places, Locked, ReaderTypeOK, Readers
  <1>14. ASSUME NEW r \in Requests, NEW s \in listed, NEW what \in {"audio", "stop", "wait"}, LookUp(r, s, what) PROVE Readers'
    BY <1>14 DEF LookUp, Goto, queueVars, readerVars, endVars, mapVars, SessionInv, TypesOK,
       PlaceTypeOK, Places, Locked, ReaderTypeOK, Readers
  <1>15. ASSUME NEW r \in Requests, NEW s \in todo, SweepKeeps(r, s)
        PROVE  UNCHANGED <<at, finished>>
    BY <1>15 DEF SweepKeeps, queueVars, readerVars, endVars, mapVars
  <1>16. ASSUME NEW s \in Sessions, Quiet(s) \/ TurnEvent(s) \/ PartialEvent(s)
              \/ StreamEnds(s) \/ RunnerThrows(s) \/ SetDone(s)
        PROVE  UNCHANGED <<at, finished>>
    BY <1>16 DEF Quiet, TurnEvent, PartialEvent, StreamEnds, RunnerThrows, SetDone, queueVars,
       readerVars, endVars, mapVars
  <1>17. ASSUME NEW s \in doomed, ShutdownCloses(s) \/ ShutdownJoins(s)
        PROVE  UNCHANGED <<at, finished>>
    BY <1>17 DEF ShutdownCloses, ShutdownJoins, queueVars, readerVars, endVars, mapVars
  <1>18. ASSUME Shutdown \/ ShutdownOver \/ UNCHANGED sessionVars
        PROVE  UNCHANGED <<at, finished>>
    BY <1>18 DEF Shutdown, ShutdownOver, queueVars, readerVars, endVars, mapVars, sessionVars
  <1> QED
    BY <1>1, <1>2, <1>3, <1>4, <1>5, <1>6, <1>7, <1>8, <1>9, <1>10, <1>11, <1>12, <1>13,
       <1>14, <1>15, <1>16, <1>17, <1>18 DEF SessionNext, CreateSteps, ReaderSteps,
       RunnerSteps, ShutdownSteps

\* Only the destructor dooms.
LEMMA EndingKept ==
    ASSUME SessionInv, [SessionNext]_sessionVars
    PROVE  Ending'
  <1> USE VoiceSessionAssumption DEF Sessions
  <1>1. ASSUME UNCHANGED <<shutdown, doomed>> PROVE Ending'
    BY <1>1 DEF SessionInv, TypesOK, MapTypeOK, Ending
  <1>2. ASSUME Shutdown PROVE Ending'
    BY <1>2 DEF Shutdown, queueVars, readerVars, endVars, mapVars, SessionInv, TypesOK,
       MapTypeOK, Ending
  <1>3. ASSUME NEW s \in doomed, ShutdownJoins(s) PROVE Ending'
    BY <1>3 DEF ShutdownJoins, queueVars, readerVars, endVars, mapVars, SessionInv, TypesOK,
       MapTypeOK, Ending
  <1>4. ASSUME ShutdownOver PROVE Ending'
    BY <1>4 DEF ShutdownOver, queueVars, readerVars, endVars, mapVars, SessionInv, TypesOK,
       MapTypeOK, Ending
  <1>5. ASSUME NEW r \in Requests, Create(r) \/ SweepJoins(r) \/ Insert(r) \/ StartRunner(r)
              \/ Drain(r) \/ WriteEvent(r) \/ WritePing(r) \/ WriteDone(r) \/ ClientGone(r)
              \/ Stop(r)
        PROVE  UNCHANGED <<shutdown, doomed>>
    BY <1>5 DEF Create, SweepJoins, Insert, StartRunner, Drain, WriteEvent, WritePing,
       WriteDone, ClientGone, Stop, queueVars, readerVars, endVars, mapVars, Goto
  <1>6. ASSUME NEW r \in Requests, NEW s \in todo, SweepKeeps(r, s) \/ SweepCloses(r, s)
        PROVE  UNCHANGED <<shutdown, doomed>>
    BY <1>6 DEF SweepKeeps, SweepCloses, queueVars, readerVars, endVars, mapVars, Goto
  <1>7. ASSUME NEW r \in Requests, NEW n \in 1 .. AudioCap + 1, PostAudio(r, n)
        PROVE  UNCHANGED <<shutdown, doomed>>
    BY <1>7 DEF PostAudio, queueVars, readerVars, endVars, mapVars, Goto
  <1>8. ASSUME NEW r \in Requests, NEW s \in listed, NEW what \in {"audio", "stop", "wait"}, LookUp(r, s, what)
        PROVE  UNCHANGED <<shutdown, doomed>>
    BY <1>8 DEF LookUp, queueVars, readerVars, endVars, mapVars, Goto
  <1>9. ASSUME NEW s \in Sessions, Quiet(s) \/ TurnEvent(s) \/ PartialEvent(s)
              \/ StreamEnds(s) \/ RunnerThrows(s) \/ SetDone(s)
        PROVE  UNCHANGED <<shutdown, doomed>>
    BY <1>9 DEF Quiet, TurnEvent, PartialEvent, StreamEnds, RunnerThrows, SetDone, queueVars,
       readerVars, endVars, mapVars
  <1>10. ASSUME NEW s \in doomed, ShutdownCloses(s)
        PROVE  UNCHANGED <<shutdown, doomed>>
    BY <1>10 DEF ShutdownCloses, queueVars, readerVars, endVars, mapVars
  <1>11. ASSUME UNCHANGED sessionVars
        PROVE  UNCHANGED <<shutdown, doomed>>
    BY <1>11 DEF queueVars, readerVars, endVars, mapVars, sessionVars
  <1> QED
    BY <1>1, <1>2, <1>3, <1>4, <1>5, <1>6, <1>7, <1>8, <1>9, <1>10, <1>11 DEF SessionNext,
       CreateSteps, ReaderSteps, RunnerSteps, ShutdownSteps

\* After [DONE] nothing is said.
LEMMA SaidKept ==
    ASSUME SessionInv, [SessionNext]_sessionVars
    PROVE  DoneMeansAllSaid'
  <1> USE VoiceSessionAssumption DEF Sessions
  <1>1. ASSUME UNCHANGED <<finished, events, on, speaking, runner>> PROVE DoneMeansAllSaid'
    BY <1>1 DEF SessionInv, RunnerTypeOK, PlaceTypeOK, Places, Locked, FlagTypeOK,
       ReaderTypeOK, EventTypeOK, Readers, DoneMeansAllSaid
  <1>2. ASSUME NEW r \in Requests, Create(r) PROVE DoneMeansAllSaid'
    BY <1>2 DEF Create, Goto, queueVars, readerVars, endVars, mapVars, SessionInv,
       RunnerTypeOK, PlaceTypeOK, Places, Locked, FlagTypeOK, ReaderTypeOK, EventTypeOK,
       Readers, DoneMeansAllSaid
  <1>3. ASSUME NEW r \in Requests, NEW s \in todo, SweepCloses(r, s) PROVE DoneMeansAllSaid'
    BY <1>3 DEF SweepCloses, Goto, queueVars, readerVars, endVars, mapVars, SessionInv,
       RunnerTypeOK, PlaceTypeOK, Places, Locked, FlagTypeOK, ReaderTypeOK, EventTypeOK,
       Readers, DoneMeansAllSaid
  <1>4. ASSUME NEW r \in Requests, SweepJoins(r) PROVE DoneMeansAllSaid'
    <2>1. on[r] \in Sessions /\ runner' = AfterJoin(on[r])
      BY <1>4 DEF SweepJoins, SessionInv, TypesOK, PlaceTypeOK
    <2>2. \A x \in Sessions :
             runner'[x] = IF x = on[r] /\ runner[on[r]] = "exited" THEN "joined" ELSE runner[x]
      BY <2>1, AfterJoinIs
    <2> QED
      BY <1>4, <2>1, <2>2 DEF SweepJoins, queueVars, readerVars, endVars, mapVars, SessionInv,
         TypesOK, Goto, RunnerTypeOK, PlaceTypeOK, Places, Locked, FlagTypeOK, ReaderTypeOK,
         EventTypeOK, Readers, DoneMeansAllSaid
  <1>5. ASSUME NEW r \in Requests, Insert(r) PROVE DoneMeansAllSaid'
    BY <1>5 DEF Insert, Goto, queueVars, readerVars, endVars, mapVars, SessionInv,
       RunnerTypeOK, PlaceTypeOK, Places, Locked, FlagTypeOK, ReaderTypeOK, EventTypeOK,
       Readers, DoneMeansAllSaid
  <1>6. ASSUME NEW r \in Requests, StartRunner(r) PROVE DoneMeansAllSaid'
    BY <1>6 DEF StartRunner, Goto, queueVars, readerVars, endVars, mapVars, SessionInv,
       RunnerTypeOK, PlaceTypeOK, Places, Locked, FlagTypeOK, ReaderTypeOK, EventTypeOK,
       Readers, DoneMeansAllSaid, Starts
  <1>7. ASSUME NEW r \in Requests, Drain(r) PROVE DoneMeansAllSaid'
    <2>1. /\ on[r] \in Sessions /\ at[r] = "wait"
          /\ events' = [events EXCEPT ![on[r]] = <<>>]
          /\ finished' = [finished EXCEPT ![r] = done[on[r]]]
          /\ UNCHANGED <<on, speaking, runner>>
      BY <1>7 DEF Drain, SessionInv, TypesOK, PlaceTypeOK
    <2>2. done[on[r]] => ~ speaking[on[r]] /\ runner[on[r]] \in {"exited", "joined"}
      BY <2>1 DEF done, SessionInv, Lives
    <2>3. \A q \in Requests : finished[q] => on[q] \in Sessions
      BY DEF SessionInv, TypesOK, PlaceTypeOK, Readers
    <2> QED
      BY <2>1, <2>2, <2>3 DEF SessionInv, TypesOK, ReaderTypeOK, EventTypeOK, DoneMeansAllSaid
  <1>8. ASSUME NEW r \in Requests, WriteDone(r) PROVE DoneMeansAllSaid'
    <2>1. /\ finished' = [finished EXCEPT ![r] = FALSE] /\ on' = [on EXCEPT ![r] = 0]
          /\ UNCHANGED <<events, speaking, runner>>
      BY <1>8 DEF WriteDone, Goto, queueVars
    <2> QED
      BY <2>1 DEF SessionInv, TypesOK, PlaceTypeOK, ReaderTypeOK, DoneMeansAllSaid
  <1>9. ASSUME NEW r \in Requests, ClientGone(r) PROVE DoneMeansAllSaid'
    <2>1. /\ finished' = [finished EXCEPT ![r] = FALSE] /\ on' = [on EXCEPT ![r] = 0]
          /\ UNCHANGED <<events, speaking, runner>>
      BY <1>9 DEF ClientGone, Goto, queueVars
    <2> QED
      BY <2>1 DEF SessionInv, TypesOK, PlaceTypeOK, ReaderTypeOK, DoneMeansAllSaid
  <1>10. ASSUME NEW r \in Requests, Stop(r) PROVE DoneMeansAllSaid'
    BY <1>10 DEF Stop, Goto, queueVars, readerVars, endVars, mapVars, SessionInv,
       RunnerTypeOK, PlaceTypeOK, Places, Locked, FlagTypeOK, ReaderTypeOK, EventTypeOK,
       Readers, DoneMeansAllSaid
  <1>11. ASSUME NEW r \in Requests, NEW n \in 1 .. AudioCap + 1, PostAudio(r, n) PROVE DoneMeansAllSaid'
    BY <1>11 DEF PostAudio, Goto, queueVars, readerVars, endVars, mapVars, SessionInv,
       RunnerTypeOK, PlaceTypeOK, Places, Locked, FlagTypeOK, ReaderTypeOK, EventTypeOK,
       Readers, DoneMeansAllSaid
  <1>12. ASSUME NEW r \in Requests, NEW s \in listed, NEW what \in {"audio", "stop", "wait"}, LookUp(r, s, what) PROVE DoneMeansAllSaid'
    BY <1>12 DEF LookUp, Goto, queueVars, readerVars, endVars, mapVars, SessionInv,
       RunnerTypeOK, PlaceTypeOK, Places, Locked, FlagTypeOK, ReaderTypeOK, EventTypeOK,
       Readers, DoneMeansAllSaid
  <1>13. ASSUME NEW s \in Sessions, TurnEvent(s) PROVE DoneMeansAllSaid'
    <2>1. Emit(s)
      BY <1>13 DEF TurnEvent
    <2>2. /\ sent' \in [Sessions -> Nat] /\ sent'[s] = sent[s] + 1
          /\ events'[s] # <<>>
          /\ \A x \in Sessions : x # s => sent'[x] = sent[x] /\ events'[x] = events[x]
      BY <2>1, EmitIs
    <2>3. /\ runner[s] = "running" /\ sent[s] < MaxEvents[s]
          /\ speaking' = [speaking EXCEPT ![s] = ~ @]
          /\ UNCHANGED <<created, runner, on, finished>>
      BY <1>13 DEF TurnEvent, HasAudio, mapVars, readerVars
    <2> QED
      BY <2>2, <2>3 DEF SessionInv, TypesOK, RunnerTypeOK, PlaceTypeOK, Places, Locked,
         FlagTypeOK, ReaderTypeOK, EventTypeOK, Readers, DoneMeansAllSaid
  <1>14. ASSUME NEW s \in Sessions, PartialEvent(s) PROVE DoneMeansAllSaid'
    <2>1. Emit(s)
      BY <1>14 DEF PartialEvent
    <2>2. /\ sent' \in [Sessions -> Nat] /\ sent'[s] = sent[s] + 1
          /\ events'[s] # <<>>
          /\ \A x \in Sessions : x # s => sent'[x] = sent[x] /\ events'[x] = events[x]
      BY <2>1, EmitIs
    <2>3. /\ runner[s] = "running" /\ sent[s] < MaxEvents[s]
          /\ UNCHANGED <<created, runner, speaking, on, finished>>
      BY <1>14 DEF PartialEvent, HasAudio, mapVars, readerVars
    <2> QED
      BY <2>2, <2>3 DEF SessionInv, TypesOK, RunnerTypeOK, PlaceTypeOK, Places, Locked,
         FlagTypeOK, ReaderTypeOK, EventTypeOK, Readers, DoneMeansAllSaid
  <1>15. ASSUME NEW s \in Sessions, StreamEnds(s) PROVE DoneMeansAllSaid'
    <2>1. CASE speaking[s]
      <3>1. Emit(s)
        BY <1>15, <2>1 DEF StreamEnds
      <3>2. /\ sent' \in [Sessions -> Nat] /\ sent'[s] = sent[s] + 1
            /\ events'[s] # <<>>
            /\ \A x \in Sessions : x # s => sent'[x] = sent[x] /\ events'[x] = events[x]
        BY <3>1, EmitIs
      <3>3. /\ runner[s] = "running" /\ runner' = [runner EXCEPT ![s] = "leaving"]
            /\ speaking' = [speaking EXCEPT ![s] = FALSE]
            /\ UNCHANGED <<created, on, finished>>
        BY <1>15 DEF StreamEnds, mapVars, readerVars
      <3> QED
        BY <3>2, <3>3 DEF SessionInv, TypesOK, RunnerTypeOK, PlaceTypeOK, Places, Locked,
           FlagTypeOK, ReaderTypeOK, EventTypeOK, Readers, DoneMeansAllSaid
    <2>2. CASE ~ speaking[s]
      <3>1. /\ runner[s] = "running" /\ runner' = [runner EXCEPT ![s] = "leaving"]
            /\ speaking' = [speaking EXCEPT ![s] = FALSE]
            /\ UNCHANGED <<created, on, finished, sent, events>>
        BY <1>15, <2>2 DEF StreamEnds, mapVars, readerVars
      <3> QED
        BY <3>1 DEF SessionInv, TypesOK, RunnerTypeOK, PlaceTypeOK, Places, Locked,
           FlagTypeOK, ReaderTypeOK, EventTypeOK, Readers, DoneMeansAllSaid
    <2> QED
      BY <2>1, <2>2
  <1>16. ASSUME NEW s \in Sessions, RunnerThrows(s) PROVE DoneMeansAllSaid'
    <2>1. Emit(s)
      BY <1>16 DEF RunnerThrows
    <2>2. /\ sent' \in [Sessions -> Nat] /\ sent'[s] = sent[s] + 1
          /\ events'[s] # <<>>
          /\ \A x \in Sessions : x # s => sent'[x] = sent[x] /\ events'[x] = events[x]
      BY <2>1, EmitIs
    <2>3. /\ runner[s] = "running" /\ runner' = [runner EXCEPT ![s] = "failing"]
          /\ speaking' = [speaking EXCEPT ![s] = FALSE]
          /\ UNCHANGED <<created, on, finished>>
      BY <1>16 DEF RunnerThrows, HasAudio, mapVars, readerVars
    <2> QED
      BY <2>2, <2>3 DEF SessionInv, TypesOK, RunnerTypeOK, PlaceTypeOK, Places, Locked,
         FlagTypeOK, ReaderTypeOK, EventTypeOK, Readers, DoneMeansAllSaid
  <1>17. ASSUME NEW s \in Sessions, SetDone(s) PROVE DoneMeansAllSaid'
    BY <1>17 DEF SetDone, queueVars, readerVars, endVars, mapVars, SessionInv, RunnerTypeOK,
       PlaceTypeOK, Places, Locked, FlagTypeOK, ReaderTypeOK, EventTypeOK, Readers,
       DoneMeansAllSaid
  <1>18. ASSUME NEW s \in doomed, ShutdownJoins(s) PROVE DoneMeansAllSaid'
    <2>1. s \in Sessions /\ runner' = AfterJoin(s)
      BY <1>18 DEF ShutdownJoins, SessionInv, TypesOK, MapTypeOK
    <2>2. \A x \in Sessions :
             runner'[x] = IF x = s /\ runner[s] = "exited" THEN "joined" ELSE runner[x]
      BY <2>1, AfterJoinIs
    <2> QED
      BY <1>18, <2>1, <2>2 DEF ShutdownJoins, queueVars, readerVars, endVars, mapVars,
         SessionInv, TypesOK, RunnerTypeOK, PlaceTypeOK, Places, Locked, FlagTypeOK,
         ReaderTypeOK, EventTypeOK, Readers, DoneMeansAllSaid
  <1>19. ASSUME NEW r \in Requests, WriteEvent(r) \/ WritePing(r)
        PROVE  UNCHANGED <<finished, events, on, speaking, runner>>
    BY <1>19 DEF WriteEvent, WritePing, queueVars, readerVars, endVars, mapVars
  <1>20. ASSUME NEW r \in Requests, NEW s \in todo, SweepKeeps(r, s)
        PROVE  UNCHANGED <<finished, events, on, speaking, runner>>
    BY <1>20 DEF SweepKeeps, queueVars, readerVars, endVars, mapVars
  <1>21. ASSUME NEW s \in Sessions, Quiet(s)
        PROVE  UNCHANGED <<finished, events, on, speaking, runner>>
    BY <1>21 DEF Quiet, queueVars, readerVars, endVars, mapVars
  <1>22. ASSUME NEW s \in doomed, ShutdownCloses(s)
        PROVE  UNCHANGED <<finished, events, on, speaking, runner>>
    BY <1>22 DEF ShutdownCloses, queueVars, readerVars, endVars, mapVars
  <1>23. ASSUME Shutdown \/ ShutdownOver \/ UNCHANGED sessionVars
        PROVE  UNCHANGED <<finished, events, on, speaking, runner>>
    BY <1>23 DEF Shutdown, ShutdownOver, queueVars, readerVars, endVars, mapVars, sessionVars
  <1> QED
    BY <1>1, <1>2, <1>3, <1>4, <1>5, <1>6, <1>7, <1>8, <1>9, <1>10, <1>11, <1>12, <1>13,
       <1>14, <1>15, <1>16, <1>17, <1>18, <1>19, <1>20, <1>21, <1>22, <1>23 DEF SessionNext,
       CreateSteps, ReaderSteps, RunnerSteps, ShutdownSteps

\* What was accepted is read.
LEMMA DrainedKept ==
    ASSUME SessionInv, [SessionNext]_sessionVars
    PROVE  DrainedBeforeDone'
  <1> USE VoiceSessionAssumption DEF Sessions
  <1>1. ASSUME UNCHANGED <<runner, closed, audio>> PROVE DrainedBeforeDone'
    BY <1>1 DEF SessionInv, TypesOK, RunnerTypeOK, AudioTypeOK, FlagTypeOK, PlaceTypeOK,
       DrainedBeforeDone
  <1>2. ASSUME NEW r \in Requests, NEW s \in todo, SweepCloses(r, s) PROVE DrainedBeforeDone'
    BY <1>2 DEF SweepCloses, Goto, queueVars, readerVars, endVars, mapVars, SessionInv,
       TypesOK, RunnerTypeOK, AudioTypeOK, FlagTypeOK, PlaceTypeOK, DrainedBeforeDone,
       MapTypeOK
  <1>3. ASSUME NEW r \in Requests, SweepJoins(r) PROVE DrainedBeforeDone'
    <2>1. on[r] \in Sessions /\ runner' = AfterJoin(on[r])
      BY <1>3 DEF SweepJoins, SessionInv, TypesOK, PlaceTypeOK
    <2>2. \A x \in Sessions :
             runner'[x] = IF x = on[r] /\ runner[on[r]] = "exited" THEN "joined" ELSE runner[x]
      BY <2>1, AfterJoinIs
    <2> QED
      BY <1>3, <2>1, <2>2 DEF SweepJoins, queueVars, readerVars, endVars, mapVars, SessionInv,
         TypesOK, RunnerTypeOK, AudioTypeOK, FlagTypeOK, PlaceTypeOK, DrainedBeforeDone
  <1>4. ASSUME NEW r \in Requests, StartRunner(r) PROVE DrainedBeforeDone'
    BY <1>4 DEF StartRunner, Goto, queueVars, readerVars, endVars, mapVars, SessionInv,
       TypesOK, RunnerTypeOK, AudioTypeOK, FlagTypeOK, PlaceTypeOK, DrainedBeforeDone
  <1>5. ASSUME NEW r \in Requests, ClientGone(r) PROVE DrainedBeforeDone'
    BY <1>5 DEF ClientGone, Goto, queueVars, readerVars, endVars, mapVars, SessionInv,
       TypesOK, RunnerTypeOK, AudioTypeOK, FlagTypeOK, PlaceTypeOK, DrainedBeforeDone
  <1>6. ASSUME NEW r \in Requests, Stop(r) PROVE DrainedBeforeDone'
    BY <1>6 DEF Stop, Goto, queueVars, readerVars, endVars, mapVars, SessionInv, TypesOK,
       RunnerTypeOK, AudioTypeOK, FlagTypeOK, PlaceTypeOK, DrainedBeforeDone
  <1>7. ASSUME NEW r \in Requests, NEW n \in 1 .. AudioCap + 1, PostAudio(r, n) PROVE DrainedBeforeDone'
    BY <1>7 DEF PostAudio, Goto, queueVars, readerVars, endVars, mapVars, SessionInv, TypesOK,
       RunnerTypeOK, AudioTypeOK, FlagTypeOK, PlaceTypeOK, DrainedBeforeDone
  <1>8. ASSUME NEW s \in Sessions, Quiet(s) PROVE DrainedBeforeDone'
    BY <1>8 DEF Quiet, queueVars, readerVars, endVars, mapVars, SessionInv, TypesOK,
       RunnerTypeOK, AudioTypeOK, FlagTypeOK, PlaceTypeOK, DrainedBeforeDone, HasAudio
  <1>9. ASSUME NEW s \in Sessions, TurnEvent(s) PROVE DrainedBeforeDone'
    BY <1>9 DEF TurnEvent, queueVars, readerVars, endVars, mapVars, SessionInv, TypesOK,
       RunnerTypeOK, AudioTypeOK, FlagTypeOK, PlaceTypeOK, DrainedBeforeDone, HasAudio
  <1>10. ASSUME NEW s \in Sessions, StreamEnds(s) PROVE DrainedBeforeDone'
    BY <1>10 DEF StreamEnds, queueVars, readerVars, endVars, mapVars, SessionInv, TypesOK,
       RunnerTypeOK, AudioTypeOK, FlagTypeOK, PlaceTypeOK, DrainedBeforeDone
  <1>11. ASSUME NEW s \in Sessions, RunnerThrows(s) PROVE DrainedBeforeDone'
    BY <1>11 DEF RunnerThrows, queueVars, readerVars, endVars, mapVars, SessionInv, TypesOK,
       RunnerTypeOK, AudioTypeOK, FlagTypeOK, PlaceTypeOK, DrainedBeforeDone
  <1>12. ASSUME NEW s \in Sessions, SetDone(s) PROVE DrainedBeforeDone'
    BY <1>12 DEF SetDone, queueVars, readerVars, endVars, mapVars, SessionInv, TypesOK,
       RunnerTypeOK, AudioTypeOK, FlagTypeOK, PlaceTypeOK, DrainedBeforeDone
  <1>13. ASSUME NEW s \in doomed, ShutdownCloses(s) PROVE DrainedBeforeDone'
    BY <1>13 DEF ShutdownCloses, queueVars, readerVars, endVars, mapVars, SessionInv, TypesOK,
       RunnerTypeOK, AudioTypeOK, FlagTypeOK, PlaceTypeOK, DrainedBeforeDone, MapTypeOK
  <1>14. ASSUME NEW s \in doomed, ShutdownJoins(s) PROVE DrainedBeforeDone'
    <2>1. s \in Sessions /\ runner' = AfterJoin(s)
      BY <1>14 DEF ShutdownJoins, SessionInv, TypesOK, MapTypeOK
    <2>2. \A x \in Sessions :
             runner'[x] = IF x = s /\ runner[s] = "exited" THEN "joined" ELSE runner[x]
      BY <2>1, AfterJoinIs
    <2> QED
      BY <1>14, <2>1, <2>2 DEF ShutdownJoins, queueVars, readerVars, endVars, mapVars,
         SessionInv, TypesOK, RunnerTypeOK, AudioTypeOK, FlagTypeOK, PlaceTypeOK,
         DrainedBeforeDone
  <1>15. ASSUME NEW r \in Requests, Create(r) \/ Insert(r) \/ Drain(r) \/ WriteEvent(r)
              \/ WritePing(r) \/ WriteDone(r)
        PROVE  UNCHANGED <<runner, closed, audio>>
    BY <1>15 DEF Create, Insert, Drain, WriteEvent, WritePing, WriteDone, queueVars,
       readerVars, endVars, mapVars, Goto
  <1>16. ASSUME NEW r \in Requests, NEW s \in todo, SweepKeeps(r, s)
        PROVE  UNCHANGED <<runner, closed, audio>>
    BY <1>16 DEF SweepKeeps, queueVars, readerVars, endVars, mapVars
  <1>17. ASSUME NEW r \in Requests, NEW s \in listed, NEW what \in {"audio", "stop", "wait"}, LookUp(r, s, what)
        PROVE  UNCHANGED <<runner, closed, audio>>
    BY <1>17 DEF LookUp, queueVars, readerVars, endVars, mapVars, Goto
  <1>18. ASSUME NEW s \in Sessions, PartialEvent(s)
        PROVE  UNCHANGED <<runner, closed, audio>>
    BY <1>18 DEF PartialEvent, queueVars, readerVars, endVars, mapVars
  <1>19. ASSUME Shutdown \/ ShutdownOver \/ UNCHANGED sessionVars
        PROVE  UNCHANGED <<runner, closed, audio>>
    BY <1>19 DEF Shutdown, ShutdownOver, queueVars, readerVars, endVars, mapVars, sessionVars
  <1> QED
    BY <1>1, <1>2, <1>3, <1>4, <1>5, <1>6, <1>7, <1>8, <1>9, <1>10, <1>11, <1>12, <1>13,
       <1>14, <1>15, <1>16, <1>17, <1>18, <1>19 DEF SessionNext, CreateSteps, ReaderSteps,
       RunnerSteps, ShutdownSteps

\* A session without a thread has a creator that is about to start it.
LEMMA UnstartedKept ==
    ASSUME SessionInv, [SessionNext]_sessionVars
    PROVE  Unstarted'
  <1> USE VoiceSessionAssumption DEF Sessions
  <1> DEFINE StartersStay ==
                 \A q \in Requests : at[q] = "start" => at'[q] = "start" /\ on'[q] = on[q]
             NoneNew == \A x \in Sessions : runner'[x] = "none" => runner[x] = "none"
  <1>1. ASSUME UNCHANGED created, doomed' \subseteq doomed, NoneNew, StartersStay
        PROVE  Unstarted'
    <2>1. doomed' \subseteq 1 .. created' /\ 1 .. created \subseteq Sessions
      BY <1>1 DEF SessionInv, TypesOK, MapTypeOK, Unstarted
    <2>2. ASSUME NEW s \in 1 .. created', runner'[s] = "none"
          PROVE  \E r \in Requests : at'[r] = "start" /\ on'[r] = s
      <3>1. s \in 1 .. created /\ runner[s] = "none"
        BY <1>1, <2>1, <2>2
      <3>2. PICK r \in Requests : at[r] = "start" /\ on[r] = s
        BY <3>1 DEF SessionInv, Unstarted
      <3> QED
        BY <1>1, <3>2
    <2> QED
      BY <2>1, <2>2 DEF Unstarted
  <1> HIDE DEF StartersStay, NoneNew
  <1>2. ASSUME NEW r \in Requests, Insert(r) PROVE Unstarted'
    <2>1. created' = created + 1 /\ UNCHANGED <<doomed, runner>>
      BY <1>2 DEF Insert, endVars
    <2>2. StartersStay /\ at'[r] = "start" /\ on'[r] = created'
      BY <1>2 DEF Insert, Goto, SessionInv, TypesOK, PlaceTypeOK, StartersStay
    <2>3. created \in Nat
      BY DEF SessionInv, TypesOK, MapTypeOK
    <2> QED
      BY <2>1, <2>2, <2>3 DEF SessionInv, Unstarted, StartersStay
  <1>3. ASSUME NEW r \in Requests, StartRunner(r) PROVE Unstarted'
    <2>1. UNCHANGED <<created, doomed>>
      BY <1>3 DEF StartRunner, mapVars, endVars
    <2>2. /\ \A x \in Sessions : runner'[x] = IF x = on[r] THEN "running" ELSE runner[x]
          /\ \A q \in Requests : q # r => at'[q] = at[q] /\ on'[q] = on[q]
      BY <1>3 DEF StartRunner, Goto, SessionInv, TypesOK, PlaceTypeOK, RunnerTypeOK
    <2> QED
      BY <2>1, <2>2 DEF SessionInv, TypesOK, MapTypeOK, Unstarted
  <1>4. ASSUME Shutdown PROVE Unstarted'
    BY <1>4 DEF Shutdown, SessionInv, TypesOK, MapTypeOK, Unstarted
  <1>5. ASSUME NEW r \in Requests, SweepJoins(r) PROVE Unstarted'
    <2>1. on[r] \in Sessions /\ runner' = AfterJoin(on[r])
      BY <1>5 DEF SweepJoins, SessionInv, TypesOK, PlaceTypeOK
    <2>2. NoneNew
      BY <2>1, AfterJoinIs DEF NoneNew
    <2>3. StartersStay
      BY <1>5 DEF SweepJoins, Goto, SessionInv, TypesOK, PlaceTypeOK, StartersStay
    <2> QED
      BY <1>1, <1>5, <2>2, <2>3 DEF SweepJoins, endVars
  <1>6. ASSUME NEW s \in doomed, ShutdownJoins(s) PROVE Unstarted'
    <2>1. s \in Sessions /\ runner' = AfterJoin(s)
      BY <1>6 DEF ShutdownJoins, SessionInv, TypesOK, MapTypeOK
    <2>2. NoneNew
      BY <2>1, AfterJoinIs DEF NoneNew
    <2>3. StartersStay
      BY <1>6 DEF ShutdownJoins, StartersStay
    <2> QED
      BY <1>1, <1>6, <2>2, <2>3 DEF ShutdownJoins, mapVars
  <1>7. ASSUME NEW s \in Sessions, StreamEnds(s) \/ RunnerThrows(s) \/ SetDone(s)
        PROVE  Unstarted'
    <2>1. NoneNew
      BY <1>7 DEF StreamEnds, RunnerThrows, SetDone, SessionInv, TypesOK, RunnerTypeOK, NoneNew
    <2>2. StartersStay /\ UNCHANGED <<created, doomed>>
      BY <1>7 DEF StreamEnds, RunnerThrows, SetDone, mapVars, endVars, StartersStay
    <2> QED
      BY <1>1, <2>1, <2>2
  <1>8. ASSUME NEW s \in Sessions, Quiet(s) \/ TurnEvent(s) \/ PartialEvent(s) PROVE Unstarted'
    BY <1>1, <1>8 DEF Quiet, TurnEvent, PartialEvent, mapVars, endVars, NoneNew, StartersStay
  <1>9. ASSUME NEW r \in Requests,
               Create(r) \/ Drain(r) \/ WriteEvent(r) \/ WritePing(r) \/ WriteDone(r)
                 \/ ClientGone(r) \/ Stop(r)
        PROVE  Unstarted'
    <2>1. UNCHANGED <<created, doomed, runner>>
      BY <1>9 DEF Create, Drain, WriteEvent, WritePing, WriteDone, ClientGone, Stop, mapVars,
         endVars
    <2>2. StartersStay
      BY <1>9 DEF Create, Drain, WriteEvent, WritePing, WriteDone, ClientGone, Stop, Goto,
         SessionInv, TypesOK, PlaceTypeOK, StartersStay
    <2> QED
      BY <1>1, <2>1, <2>2 DEF NoneNew
  <1>10. ASSUME NEW r \in Requests, NEW s \in todo, SweepKeeps(r, s) \/ SweepCloses(r, s)
         PROVE  Unstarted'
    BY <1>1, <1>10 DEF SweepKeeps, SweepCloses, Goto, mapVars, endVars, SessionInv, TypesOK,
       PlaceTypeOK, NoneNew, StartersStay
  <1>11. ASSUME NEW r \in Requests, NEW n \in 1 .. AudioCap + 1, PostAudio(r, n)
         PROVE  Unstarted'
    BY <1>1, <1>11 DEF PostAudio, Goto, mapVars, endVars, SessionInv, TypesOK, PlaceTypeOK,
       NoneNew, StartersStay
  <1>12. ASSUME NEW r \in Requests, NEW s \in listed, NEW what \in {"audio", "stop", "wait"},
                LookUp(r, s, what)
         PROVE  Unstarted'
    BY <1>1, <1>12 DEF LookUp, Goto, mapVars, endVars, SessionInv, TypesOK, PlaceTypeOK,
       NoneNew, StartersStay
  <1>13. ASSUME ShutdownOver PROVE Unstarted'
    BY <1>1, <1>13 DEF ShutdownOver, mapVars, NoneNew, StartersStay
  <1>14. ASSUME NEW s \in doomed, ShutdownCloses(s) PROVE Unstarted'
    BY <1>1, <1>14 DEF ShutdownCloses, mapVars, endVars, NoneNew, StartersStay
  <1>15. ASSUME UNCHANGED sessionVars PROVE Unstarted'
    BY <1>1, <1>15 DEF sessionVars, mapVars, endVars, NoneNew, StartersStay
  <1> QED
    BY <1>2, <1>3, <1>4, <1>5, <1>6, <1>7, <1>8, <1>9, <1>10, <1>11, <1>12, <1>13, <1>14, <1>15
       DEF SessionNext, CreateSteps, ReaderSteps, RunnerSteps, ShutdownSteps

----------------------------------------------------------------------------
\* The parts make up SessionTypeOK.
LEMMA TypesFit ==
    ASSUME SessionInv
    PROVE  SessionTypeOK
  BY DEF SessionInv, TypesOK, MapTypeOK, AudioTypeOK, FlagTypeOK, RunnerTypeOK, PlaceTypeOK,
         ReaderTypeOK, EventTypeOK, Lives, Places, Lifes, SessionTypeOK

\* The server starts without sessions.
LEMMA SessionInitInv ==
    ASSUME SessionInit
    PROVE  SessionInv
  <1> USE VoiceSessionAssumption DEF Sessions, SessionInit
  <1>1. MapTypeOK /\ AudioTypeOK /\ FlagTypeOK /\ RunnerTypeOK
    BY DEF MapTypeOK, AudioTypeOK, FlagTypeOK, RunnerTypeOK, Lifes
  <1>2. PlaceTypeOK /\ ReaderTypeOK /\ EventTypeOK
    BY DEF PlaceTypeOK, ReaderTypeOK, EventTypeOK, Places, Locked
  <1>3. EventsInRow
    BY DEF EventsInRow, LastOf
  <1>4. Lives
    BY DEF Lives
  <1>5. Starts /\ Locking /\ Sweeping /\ Readers /\ Ending
    BY DEF Starts, Locking, Locked, Sweeping, Readers, Ending
  <1>6. Unstarted /\ DoneMeansAllSaid /\ DrainedBeforeDone
    BY DEF Unstarted, DoneMeansAllSaid, DrainedBeforeDone
  <1> QED
    BY <1>1, <1>2, <1>3, <1>4, <1>5, <1>6 DEF SessionInv, TypesOK

\* Every step keeps the invariant.
LEMMA SessionNextInv ==
    ASSUME SessionInv, [SessionNext]_sessionVars
    PROVE  SessionInv'
  <1>1. TypesOK'
    BY MapTypeKept, AudioTypeKept, FlagTypeKept, RunnerTypeKept, PlaceTypeKept,
       ReaderTypeKept,
       EventTypeKept DEF TypesOK
  <1>2. EventsInRow' /\ Lives' /\ Starts' /\ Locking' /\ Sweeping' /\ Readers' /\ Ending'
    BY RowKept, LivesKept, StartsKept, LockingKept, SweepingKept, ReadersKept, EndingKept
  <1>3. Unstarted' /\ DoneMeansAllSaid' /\ DrainedBeforeDone'
    BY UnstartedKept, SaidKept, DrainedKept
  <1> QED
    BY <1>1, <1>2, <1>3 DEF SessionInv

\* SessionInv is an invariant of the sessions, with or without fairness.
THEOREM SessionInvariant == SessionSafetySpec => []SessionInv
  <1>1. SessionInit => SessionInv
    BY SessionInitInv
  <1>2. SessionInv /\ [SessionNext]_sessionVars => SessionInv'
    BY SessionNextInv
  <1> QED
    BY <1>1, <1>2, PTL DEF SessionSafetySpec

\* Types are correct; the audio queue never exceeds its 30 s.
THEOREM SessionTypes == SessionSafetySpec => []SessionTypeOK
  <1>1. SessionInv => SessionTypeOK
    BY TypesFit
  <1> QED
    BY <1>1, SessionInvariant, PTL

\* A client that is told [DONE] missed nothing, however many readers, creators and stops race.
THEOREM DoneIsDone == SessionSafetySpec => []DoneMeansAllSaid
  <1>1. SessionInv => DoneMeansAllSaid
    BY DEF SessionInv
  <1> QED
    BY <1>1, SessionInvariant, PTL

\* A runner that leaves without an error has read all the audio that was accepted.
THEOREM AudioIsRead == SessionSafetySpec => []DrainedBeforeDone
  <1>1. SessionInv => DrainedBeforeDone
    BY DEF SessionInv
  <1> QED
    BY <1>1, SessionInvariant, PTL

\* A sweep forgets a session only with its thread joined, and so does the destructor unless it
\* meets the session before its creator has started the thread.
THEOREM NoThreadForgotten == SessionSafetySpec => ForgottenIsJoined
  <1> USE DEF Sessions
  <1> DEFINE Gone == (listed \cup doomed) \ (listed' \cup doomed')
             A == \A s \in Gone :
                     \/ runner'[s] = "joined"
                     \/ shutdown = "closing" /\ \E r \in Requests : at[r] = "start" /\ on[r] = s
  <1>1. ASSUME SessionInv, [SessionNext]_sessionVars PROVE A \/ UNCHANGED sessionVars
    <2> SUFFICES ASSUME SessionNext, Gone # {} PROVE A
      BY <1>1
    <2>1. ASSUME NEW r \in Requests, SweepJoins(r) PROVE A
      <3>1. on[r] \in Sessions /\ runner' = AfterJoin(on[r])
        BY <1>1, <2>1 DEF SweepJoins, SessionInv, TypesOK, PlaceTypeOK
      <3>2. runner[on[r]] \in Lifes /\ runner[on[r]] # "none" /\ CanJoin(on[r])
        BY <1>1, <2>1, <3>1 DEF SweepJoins, SessionInv, TypesOK, RunnerTypeOK, Locking
      <3>3. runner'[on[r]] = "joined"
        BY <1>1, <3>1, <3>2, AfterJoinIs DEF CanJoin, Joinable, Lifes
      <3> QED
        BY <2>1, <3>3 DEF SweepJoins, endVars
    <2>2. ASSUME NEW s \in doomed, ShutdownJoins(s) PROVE A
      <3>1. s \in Sessions /\ s \in 1 .. created /\ runner' = AfterJoin(s)
        BY <1>1, <2>2 DEF ShutdownJoins, SessionInv, TypesOK, MapTypeOK, Unstarted
      <3>2. runner[s] \in Lifes /\ CanJoin(s)
        BY <1>1, <2>2, <3>1 DEF ShutdownJoins, SessionInv, TypesOK, RunnerTypeOK
      <3>3. runner'[s] = "joined" \/ \E r \in Requests : at[r] = "start" /\ on[r] = s
        BY <1>1, <3>1, <3>2, AfterJoinIs DEF CanJoin, Joinable, Lifes, SessionInv, Unstarted
      <3>4. shutdown = "closing"
        BY <1>1, <2>2 DEF SessionInv, TypesOK, MapTypeOK, Ending
      <3> QED
        BY <2>2, <3>3, <3>4 DEF ShutdownJoins, mapVars
    <2>3. ASSUME Shutdown PROVE A
      BY <1>1, <2>3 DEF Shutdown, SessionInv, Ending
    <2>4. ASSUME NEW r \in Requests,
                 Create(r) \/ Drain(r) \/ WriteEvent(r) \/ WritePing(r) \/ WriteDone(r)
                   \/ ClientGone(r) \/ Stop(r) \/ Insert(r) \/ StartRunner(r)
          PROVE  Gone = {}
      BY <2>4 DEF Create, Drain, WriteEvent, WritePing, WriteDone, ClientGone, Stop, Insert,
         StartRunner, mapVars, endVars
    <2>5. ASSUME NEW s \in Sessions, RunnerSteps(s) PROVE Gone = {}
      BY <2>5 DEF RunnerSteps, Quiet, TurnEvent, PartialEvent, StreamEnds, RunnerThrows, SetDone,
         mapVars, endVars
    <2>6. ASSUME NEW r \in Requests, NEW s \in todo, SweepKeeps(r, s) \/ SweepCloses(r, s)
          PROVE  Gone = {}
      BY <2>6 DEF SweepKeeps, SweepCloses, mapVars, endVars
    <2>7. ASSUME NEW r \in Requests, NEW n \in 1 .. AudioCap + 1, PostAudio(r, n)
          PROVE  Gone = {}
      BY <2>7 DEF PostAudio, mapVars, endVars
    <2>8. ASSUME NEW r \in Requests, NEW s \in listed, NEW what \in {"audio", "stop", "wait"},
                 LookUp(r, s, what)
          PROVE  Gone = {}
      BY <2>8 DEF LookUp, mapVars, endVars
    <2>9. ASSUME ShutdownOver PROVE Gone = {}
      BY <2>9 DEF ShutdownOver, mapVars
    <2>10. ASSUME NEW s \in doomed, ShutdownCloses(s) PROVE Gone = {}
      BY <2>10 DEF ShutdownCloses, mapVars, endVars
    <2> HIDE DEF Gone
    <2>11. \/ \E r \in Requests :
                \/ Create(r) \/ Drain(r) \/ WriteEvent(r) \/ WritePing(r) \/ WriteDone(r)
                \/ ClientGone(r) \/ Stop(r) \/ Insert(r) \/ StartRunner(r) \/ SweepJoins(r)
                \/ \E s \in todo : SweepKeeps(r, s) \/ SweepCloses(r, s)
                \/ \E n \in 1 .. AudioCap + 1 : PostAudio(r, n)
                \/ \E s \in listed, what \in {"audio", "stop", "wait"} : LookUp(r, s, what)
           \/ \E s \in Sessions : RunnerSteps(s)
           \/ Shutdown \/ ShutdownOver
           \/ \E s \in doomed : ShutdownCloses(s) \/ ShutdownJoins(s)
      BY DEF SessionNext, CreateSteps, ReaderSteps, ShutdownSteps
    <2> QED
      BY <2>1, <2>2, <2>3, <2>4, <2>5, <2>6, <2>7, <2>8, <2>9, <2>10, <2>11
  <1> QED
    BY <1>1, SessionInvariant, PTL DEF SessionSafetySpec, ForgottenIsJoined

\* The map's mutex is held by one creator at a time, and a thread is joined only once it was
\* started: a sweep cannot meet a session between its insertion and its start unnoticed.
THEOREM CreatorsExclude == SessionSafetySpec => [](Locking /\ Starts)
  <1>1. SessionInv => Locking /\ Starts
    BY DEF SessionInv
  <1> QED
    BY <1>1, SessionInvariant, PTL

----------------------------------------------------------------------------
\* The oldest event queued, from the number emitted and the number that wait.
LEMMA OldestIs ==
    ASSUME SessionInv, NEW s \in Sessions
    PROVE  /\ OldestQueued[s] = sent[s] + 1 - Len(events[s])
           /\ sent[s] \in Nat /\ Len(events[s]) \in Nat /\ Len(events[s]) <= EventCap
  <1>1. events[s] \in Seq(Nat) /\ sent[s] \in Nat /\ LastOf(events[s], sent[s])
    BY DEF SessionInv, TypesOK, EventTypeOK, EventsInRow
  <1>2. Len(events[s]) \in Nat /\ Len(events[s]) <= EventCap
    BY <1>1 DEF LastOf
  <1>3. CASE events[s] = <<>>
    <2>1. Len(events[s]) = 0
      BY <1>3
    <2>2. OldestQueued[s] = sent[s] + 1
      BY <1>3 DEF OldestQueued
    <2> QED
      BY <1>1, <1>2, <2>1, <2>2
  <1>4. CASE events[s] # <<>>
    <2>1. Head(events[s]) = events[s][1] /\ 1 \in 1 .. Len(events[s])
      BY <1>1, <1>4
    <2>2. events[s][1] = sent[s] - Len(events[s]) + 1
      BY <1>1, <2>1 DEF LastOf
    <2>3. OldestQueued[s] = Head(events[s])
      BY <1>4 DEF OldestQueued
    <2> QED
      BY <1>1, <1>2, <2>1, <2>2, <2>3
  <1> QED
    BY <1>3, <1>4

OldestRight == \A s \in Sessions : OldestQueued[s] = sent[s] + 1 - Len(events[s])

\* The three things that can happen to the queue of events: a running session emits, a reader
\* takes all there is, a runner says that it is done.  A join, a sweep or a shutdown does
\* nothing to it.
LEMMA FeedMoves ==
    ASSUME SessionInv, [SessionNext]_sessionVars
    PROVE  \/ UNCHANGED <<events, sent, done>>
           \/ \E s \in Sessions : Emit(s) /\ ~ done[s] /\ done' = done
           \/ \E s \in Sessions : events' = [events EXCEPT ![s] = <<>>] /\ UNCHANGED <<sent, done>>
           \/ \E s \in Sessions : done' = [done EXCEPT ![s] = TRUE] /\ UNCHANGED <<sent, events>>
  <1> USE VoiceSessionAssumption
  <1>1. ASSUME UNCHANGED runner PROVE done' = done
    BY <1>1 DEF done
  <1>2. ASSUME NEW s \in Sessions, runner' = AfterJoin(s) PROVE done' = done
    BY <1>2, AfterJoinIs DEF done
  <1>3. ASSUME NEW s \in Sessions, runner[s] = "running",
               runner' \in {[runner EXCEPT ![s] = "leaving"], [runner EXCEPT ![s] = "failing"]}
        PROVE  done' = done /\ ~ done[s]
    <2>1. /\ \A x \in Sessions : x # s => runner'[x] = runner[x]
          /\ runner'[s] \notin {"exited", "joined"}
      BY <1>3 DEF SessionInv, TypesOK, RunnerTypeOK
    <2>2. \A x \in Sessions : runner'[x] \in {"exited", "joined"} <=> runner[x] \in {"exited", "joined"}
      BY <1>3, <2>1
    <2>3. done' = done
      BY <2>2 DEF done
    <2>4. ~ done[s]
      BY <1>3 DEF done
    <2> QED
      BY <2>3, <2>4
  <1>4. ASSUME NEW r \in Requests, SweepJoins(r) PROVE UNCHANGED <<events, sent, done>>
    <2>1. on[r] \in Sessions /\ runner' = AfterJoin(on[r])
      BY <1>4 DEF SweepJoins, SessionInv, TypesOK, PlaceTypeOK
    <2> QED
      BY <1>2, <1>4, <2>1 DEF SweepJoins, queueVars
  <1>5. ASSUME NEW s \in doomed, ShutdownJoins(s) PROVE UNCHANGED <<events, sent, done>>
    <2>1. s \in Sessions /\ runner' = AfterJoin(s)
      BY <1>5 DEF ShutdownJoins, SessionInv, TypesOK, MapTypeOK
    <2> QED
      BY <1>2, <1>5, <2>1 DEF ShutdownJoins, queueVars
  <1>6. ASSUME NEW r \in Requests, StartRunner(r) PROVE UNCHANGED <<events, sent, done>>
    <2>1. on[r] \in Sessions /\ runner[on[r]] = "none" /\ runner' = [runner EXCEPT ![on[r]] = "running"]
      BY <1>6 DEF StartRunner, SessionInv, TypesOK, PlaceTypeOK, Starts
    <2>2. done' = done
      BY <2>1 DEF done, SessionInv, TypesOK, RunnerTypeOK
    <2> QED
      BY <1>6, <2>2 DEF StartRunner, queueVars
  <1>7. ASSUME NEW r \in Requests, Drain(r)
        PROVE  \E s \in Sessions : events' = [events EXCEPT ![s] = <<>>] /\ UNCHANGED <<sent, done>>
    <2>1. on[r] \in Sessions /\ events' = [events EXCEPT ![on[r]] = <<>>] /\ UNCHANGED <<sent, runner>>
      BY <1>7 DEF Drain, SessionInv, TypesOK, PlaceTypeOK
    <2> QED
      BY <1>1, <2>1
  <1>8. ASSUME NEW s \in Sessions, TurnEvent(s) \/ PartialEvent(s)
        PROVE  Emit(s) /\ ~ done[s] /\ done' = done
    BY <1>1, <1>8 DEF TurnEvent, PartialEvent, HasAudio, done
  <1>9. ASSUME NEW s \in Sessions, RunnerThrows(s)
        PROVE  Emit(s) /\ ~ done[s] /\ done' = done
    BY <1>3, <1>9 DEF RunnerThrows
  <1>10. ASSUME NEW s \in Sessions, StreamEnds(s)
         PROVE  \/ UNCHANGED <<events, sent, done>>
                \/ Emit(s) /\ ~ done[s] /\ done' = done
    BY <1>3, <1>10 DEF StreamEnds
  <1>11. ASSUME NEW s \in Sessions, SetDone(s)
         PROVE  done' = [done EXCEPT ![s] = TRUE] /\ UNCHANGED <<sent, events>>
    BY <1>11 DEF SetDone, done, queueVars, SessionInv, TypesOK, RunnerTypeOK
  <1>12. ASSUME NEW r \in Requests, \/ Create(r) \/ Insert(r) \/ Stop(r) \/ WriteEvent(r)
                                    \/ WritePing(r) \/ WriteDone(r) \/ ClientGone(r)
         PROVE  UNCHANGED <<events, sent, runner>>
    BY <1>12 DEF Create, Insert, Stop, WriteEvent, WritePing, WriteDone, ClientGone, queueVars
  <1>13. ASSUME NEW r \in Requests, NEW s \in todo, SweepKeeps(r, s) \/ SweepCloses(r, s)
         PROVE  UNCHANGED <<events, sent, runner>>
    BY <1>13 DEF SweepKeeps, SweepCloses, queueVars
  <1>14. ASSUME NEW r \in Requests, NEW n \in 1 .. AudioCap + 1, PostAudio(r, n)
         PROVE  UNCHANGED <<events, sent, runner>>
    BY <1>14 DEF PostAudio
  <1>15. ASSUME NEW r \in Requests, NEW s \in listed, NEW what \in {"audio", "stop", "wait"},
                LookUp(r, s, what)
         PROVE  UNCHANGED <<events, sent, runner>>
    BY <1>15 DEF LookUp, queueVars
  <1>16. ASSUME NEW s \in Sessions, Quiet(s) PROVE UNCHANGED <<events, sent, runner>>
    BY <1>16 DEF Quiet
  <1>17. ASSUME NEW s \in doomed, ShutdownCloses(s) PROVE UNCHANGED <<events, sent, runner>>
    BY <1>17 DEF ShutdownCloses, queueVars
  <1>18. ASSUME Shutdown \/ ShutdownOver \/ UNCHANGED sessionVars
         PROVE  UNCHANGED <<events, sent, runner>>
    BY <1>18 DEF Shutdown, ShutdownOver, sessionVars, queueVars
  <1> QED
    BY <1>1, <1>4, <1>5, <1>6, <1>7, <1>8, <1>9, <1>10, <1>11, <1>12, <1>13, <1>14, <1>15,
       <1>16,
       <1>17, <1>18 DEF SessionNext, CreateSteps, ReaderSteps, RunnerSteps, ShutdownSteps

\* A step of the sessions is a step of the feeds, or none.
LEMMA FeedStep ==
    ASSUME SessionInv, OldestRight', [SessionNext]_sessionVars
    PROVE  [Feed!FeedNext]_Feed!feedVars
  <1> USE VoiceSessionAssumption
  <1>1. CASE UNCHANGED <<events, sent, done>>
    BY <1>1 DEF Feed!feedVars, OldestQueued
  <1>2. ASSUME NEW s \in Sessions, Emit(s), ~ done[s], done' = done
        PROVE  Feed!Send(s)
    <2>1. /\ sent'[s] = sent[s] + 1
          /\ Len(events'[s]) = IF Len(events[s]) < EventCap THEN Len(events[s]) + 1
                                                            ELSE Len(events[s])
          /\ \A x \in Sessions : x # s => sent'[x] = sent[x] /\ events'[x] = events[x]
      BY <1>2, EmitIs
    <2>2. /\ \A x \in Sessions : OldestQueued[x] = sent[x] + 1 - Len(events[x])
          /\ \A x \in Sessions : sent[x] \in Nat /\ Len(events[x]) \in Nat /\ Len(events[x]) <= EventCap
      BY OldestIs
    <2>3. \A x \in Sessions : OldestQueued'[x] = sent'[x] + 1 - Len(events'[x])
      BY DEF OldestRight
    <2>4. EventCap \in Nat
      OBVIOUS
    <2>5. \A x \in Sessions : x # s => OldestQueued'[x] = OldestQueued[x]
      BY <2>1, <2>2, <2>3
    <2>6. OldestQueued'[s] = IF sent[s] + 1 - OldestQueued[s] < EventCap THEN OldestQueued[s]
                             ELSE OldestQueued[s] + 1
      <3> DEFINE n == sent[s]  l == Len(events[s])
      <3>1. n \in Nat /\ l \in Nat /\ l <= EventCap /\ OldestQueued[s] = n + 1 - l
        BY <2>2
      <3>2. OldestQueued'[s] = n + 1 + 1 - (IF l < EventCap THEN l + 1 ELSE l)
        BY <2>1, <2>3
      <3> HIDE DEF n, l
      <3>3. n + 1 - OldestQueued[s] = l
        BY <3>1
      <3>4. OldestQueued'[s] = IF l < EventCap THEN OldestQueued[s] ELSE OldestQueued[s] + 1
        BY <2>4, <3>1, <3>2
      <3> QED
        BY <3>3, <3>4 DEF n
    <2>7. OldestQueued' = [x \in Sessions |-> OldestQueued'[x]]
      BY DEF OldestQueued
    <2>8. OldestQueued = [x \in Sessions |-> OldestQueued[x]]
      BY DEF OldestQueued
    <2>9. OldestQueued' = IF sent[s] + 1 - OldestQueued[s] < EventCap THEN OldestQueued
                          ELSE [OldestQueued EXCEPT ![s] = @ + 1]
      BY <2>5, <2>6, <2>7, <2>8
    <2>10. sent' = [sent EXCEPT ![s] = @ + 1]
      BY <1>2 DEF Emit
    <2> QED
      BY <1>2, <2>9, <2>10 DEF Feed!Send
  <1>3. ASSUME NEW s \in Sessions, events' = [events EXCEPT ![s] = <<>>], UNCHANGED <<sent, done>>
        PROVE  Feed!Take(s)
    <2>1. events \in [Sessions -> Seq(Nat)]
      BY DEF SessionInv, TypesOK, EventTypeOK
    <2>2. OldestQueued' = [OldestQueued EXCEPT ![s] = sent[s] + 1]
      BY <1>3, <2>1 DEF OldestQueued
    <2> QED
      BY <1>3, <2>2 DEF Feed!Take
  <1>4. ASSUME NEW s \in Sessions, done' = [done EXCEPT ![s] = TRUE], UNCHANGED <<sent, events>>
        PROVE  Feed!Close(s)
    BY <1>4 DEF Feed!Close, OldestQueued
  <1> QED
    BY <1>1, <1>2, <1>3, <1>4, FeedMoves DEF Feed!FeedNext

\* The event queue of every session is an EventFeed: what its readers are promised holds for
\* any caps and any number of readers, sweeps and shutdowns.
THEOREM SessionsImplementFeeds == SessionSafetySpec => EventsAreFeeds
  <1>1. SessionInit => Feed!FeedInit
    <2> SUFFICES ASSUME SessionInit PROVE Feed!FeedInit
      OBVIOUS
    <2>1. sent = [s \in Sessions |-> 0]
      BY DEF SessionInit
    <2>2. OldestQueued = [s \in Sessions |-> 1]
      BY DEF SessionInit, OldestQueued
    <2>3. \A s \in Sessions : runner[s] \notin {"exited", "joined"}
      BY DEF SessionInit
    <2>4. ASSUME NEW s \in Sessions PROVE done[s] = FALSE
      <3>1. done[s] = (runner[s] \in {"exited", "joined"})
        BY DEF done
      <3>2. (runner[s] \in {"exited", "joined"}) = FALSE
        BY <2>3
      <3> QED
        BY <3>1, <3>2, Zenon
    <2>5. done = [s \in Sessions |-> done[s]]
      BY DEF done
    <2>6. done = [s \in Sessions |-> FALSE]
      BY <2>4, <2>5, Zenon
    <2> QED
      BY <2>1, <2>2, <2>6 DEF Feed!FeedInit
  <1>2. SessionInv => OldestRight
    BY OldestIs DEF OldestRight
  <1>3. SessionInv /\ OldestRight' /\ [SessionNext]_sessionVars => [Feed!FeedNext]_Feed!feedVars
    BY FeedStep
  <1> QED
    BY <1>1, <1>2, <1>3, SessionInvariant, PTL DEF SessionSafetySpec, EventsAreFeeds,
       Feed!FeedSpec

=============================================================================
