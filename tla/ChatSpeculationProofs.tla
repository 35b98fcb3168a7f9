------------------------ MODULE ChatSpeculationProofs ------------------------
(***************************************************************************)
(* Speculative replies for any number of drafts, sends, prewarms and       *)
(* conversations.  None of the properties is inductive alone.  Who owns a  *)
(* speculation depends on it having been started (Started), and that a     *)
(* replay ends depends on its speculation not being aborted by another:    *)
(* a worker leaves without an outcome only when it was.                    *)
(***************************************************************************)
EXTENDS ChatSpeculation, LlmWarmProofs

\* A speculation that was not started has nothing done to it and nobody who knows it; one that
\* is over was aborted or has an outcome, which none has before.  A send that has not taken the
\* slot is attached to nothing.
Started ==
    /\ \A s \in Specs :
        /\ gen[s] = "unborn" => ~ spec[s].abort /\ spec[s].outcome = "none"
        /\ gen[s] = "gone" => spec[s].abort \/ spec[s].outcome # "none"
        /\ spec[s].outcome # "none" => gen[s] = "gone"
    /\ slot # NoSpec => gen[slot] # "unborn"
    /\ \A r \in Sends :
        /\ send[r].from # NoSpec => gen[send[r].from] # "unborn"
        /\ send[r].at = "replay" => send[r].from # NoSpec
        /\ send[r].at \in {"new", "take"} => send[r].from = NoSpec

\* The threads the warm queue counts as generating are those with a stream open.
StreamsCounted ==
    /\ \A s \in Specs :
        /\ gen[s] = "streaming" <=> s \in generating
        /\ gen[s] = "ended" <=> s \in ending
    /\ \A r \in Sends :
        /\ send[r].at = "streaming" <=> r \in generating
        /\ send[r].at = "ended" <=> r \in ending

\* A ChatSpeculation, and what a send keeps.
Speculation == [key : Keys \cup {NoKey}, abort : BOOLEAN, outcome : {"none", "ok", "failed"}]
Sending     == [at : {"new", "take", "direct", "streaming", "ended", "replay", "reply", "done"},
                key : Keys \cup {NoKey}, from : Specs \cup {NoSpec}, ok : BOOLEAN]

\* What ChatTypeOK says of this module's own variables.
SlotTypeOK ==
    /\ slot \in Specs \cup {NoSpec}
    /\ lastKey \in Keys \cup {NoKey}
    /\ lastRecent \in BOOLEAN
    /\ spec \in [Specs -> Speculation]
    /\ gen \in [Specs -> {"unborn", "queued", "holding", "streaming", "ended",
                          "publish", "gone"}]
    /\ streamLock \in Specs \cup {NoSpec}
    /\ send \in [Sends -> Sending]
    /\ prewarm \in [Prewarms -> {"idle", "queue"}]

ChatInv ==
    /\ WarmInv /\ SlotTypeOK
    /\ Started /\ OneOwner /\ ReplayUndisturbed /\ ReplayWillEnd
    /\ StreamsCounted /\ DroppedIsAborted

\* What the types say of whom a slot, a send or the stream lock points at.
LEMMA Pointers ==
    ASSUME SlotTypeOK
    PROVE  /\ slot \in Specs \/ slot = NoSpec
           /\ \A r \in Sends : send[r].from \in Specs \/ send[r].from = NoSpec
           /\ NoSpec \notin Specs
  <1>1. \A r \in Sends : send[r] \in Sending
    BY DEF SlotTypeOK
  <1>2. \A r \in Sends : send[r].from \in Specs \cup {NoSpec}
    BY <1>1 DEF Sending
  <1> QED
    BY <1>2, ChatSpeculationAssumption DEF SlotTypeOK

\* A speculation that is begun was not there before.
LEMMA FreshSpecIsUnborn ==
    ASSUME NEW s \in Specs, s = FreshSpec
    PROVE  gen[s] = "unborn"
  <1> DEFINE P(x) == IF \E y \in Specs : gen[y] = "unborn"
                     THEN x \in Specs /\ gen[x] = "unborn" ELSE x = NoSpec
  <1>1. \E x \in Specs \cup {NoSpec} : P(x)
    OBVIOUS
  <1>2. s = CHOOSE x \in Specs \cup {NoSpec} : P(x)
    BY DEF FreshSpec
  <1>3. P(s)
    BY <1>1, <1>2
  <1> QED
    BY <1>3, ChatSpeculationAssumption

\* Neither was a send.
LEMMA FreshSendIsNew ==
    ASSUME NEW r \in Sends, r = FreshSend
    PROVE  send[r].at = "new"
  <1> DEFINE P(x) == IF \E y \in Sends : send[y].at = "new"
                     THEN x \in Sends /\ send[x].at = "new" ELSE x = NoSpec
  <1>1. \E x \in Sends \cup {NoSpec} : P(x)
    OBVIOUS
  <1>2. r = CHOOSE x \in Sends \cup {NoSpec} : P(x)
    BY DEF FreshSend
  <1>3. P(r)
    BY <1>1, <1>2
  <1> QED
    BY <1>3, ChatSpeculationAssumption

\* Aborting one speculation leaves its key and outcome, and every other speculation, alone.
LEMMA AbortingOne ==
    ASSUME SlotTypeOK, NEW a
    PROVE  /\ Aborting(a) \in [Specs -> Speculation]
           /\ \A x \in Specs :
                /\ Aborting(a)[x].key = spec[x].key
                /\ Aborting(a)[x].outcome = spec[x].outcome
                /\ Aborting(a)[x].abort <=> (x = a \/ spec[x].abort)
                /\ x # a => Aborting(a)[x] = spec[x]
  <1>1. \A x \in Specs : spec[x] \in Speculation
    BY DEF SlotTypeOK
  <1>2. ASSUME NEW x \in Specs
        PROVE  /\ [spec[x] EXCEPT !.abort = TRUE] \in Speculation
               /\ [spec[x] EXCEPT !.abort = TRUE].abort
               /\ [spec[x] EXCEPT !.abort = TRUE].key = spec[x].key
               /\ [spec[x] EXCEPT !.abort = TRUE].outcome = spec[x].outcome
    BY <1>1 DEF Speculation
  <1> DEFINE t(x) == [spec[x] EXCEPT !.abort = TRUE]
  <1>3. \A x \in Specs : /\ t(x) \in Speculation /\ t(x).abort
                         /\ t(x).key = spec[x].key /\ t(x).outcome = spec[x].outcome
    BY <1>2
  <1>4. Aborting(a) = [x \in Specs |-> IF x = a THEN t(x) ELSE spec[x]]
    BY DEF Aborting
  <1> HIDE DEF t
  <1>5. \A x \in Specs : Aborting(a)[x] = IF x = a THEN t(x) ELSE spec[x]
    BY <1>4
  <1>6. Aborting(a) \in [Specs -> Speculation]
    BY <1>1, <1>3, <1>4
  <1> QED
    BY <1>3, <1>5, <1>6

\* A send that moves on leaves every other send alone.
LEMMA SendPut ==
    ASSUME SlotTypeOK, NEW r \in Sends, NEW g \in Sending, send' = [send EXCEPT ![r] = g]
    PROVE  /\ send' \in [Sends -> Sending]
           /\ send'[r].at = g.at /\ send'[r].key = g.key /\ send'[r].from = g.from
           /\ \A q \in Sends : q # r =>
                 send'[q].at = send[q].at /\ send'[q].key = send[q].key /\ send'[q].from = send[q].from
  BY DEF SlotTypeOK

\* Every step of the chat is a step of the warm queue, or none of its business.
LEMMA WarmStep ==
    ASSUME [ChatNext]_allVars
    PROVE  [WarmNext]_warmVars
  <1> USE ChatSpeculationAssumption
  <1>1. CASE UNCHANGED allVars
    BY <1>1 DEF allVars
  <1>2. CASE Clients
    BY <1>2 DEF Clients, Speculate, Prewarm, PrewarmQueues, RecordSend, ReplayClientGone,
       HeadersFail, WarmNext
  <1>3. CASE SendAges
    BY <1>3 DEF SendAges
  <1>4. ASSUME NEW r \in Sends, SendThread(r)
        PROVE  [WarmNext]_warmVars
    BY <1>4 DEF SendThread, TakeMatchingSpeculation, DirectBegin, DirectEnd, DirectNotify,
       ReplayEnds, Reply, WarmNext
  <1>5. ASSUME NEW s \in Specs, SpecWorker(s)
        PROVE  [WarmNext]_warmVars
    BY <1>5 DEF SpecWorker, GrabStream, Superseded, StreamBegins, StreamEnds, ReleaseStream,
       Publish,
       WarmNext
  <1>6. CASE Warming
    BY <1>6 DEF Warming, WarmNext
  <1> QED
    BY <1>1, <1>2, <1>3, <1>4, <1>5, <1>6 DEF ChatNext

\* start_chat_speculation() for a fresh object: the slot's old one is aborted, the new one has
\* its key and nothing else happens to any.
LEMMA SpeculateIs ==
    ASSUME SlotTypeOK, Started, NEW s \in Specs, NEW k \in Keys, Speculate(s, k)
    PROVE  /\ gen[s] = "unborn" /\ s # slot /\ ~ spec[s].abort /\ spec[s].outcome = "none"
           /\ spec' \in [Specs -> Speculation]
           /\ ~ spec'[s].abort /\ spec'[s].outcome = "none"
           /\ \A x \in Specs : x # s =>
                /\ spec'[x].key = spec[x].key
                /\ spec'[x].outcome = spec[x].outcome
                /\ spec'[x].abort <=> (x = slot \/ spec[x].abort)
           /\ gen' \in [Specs -> {"unborn", "queued", "holding", "streaming", "ended",
                                  "publish", "gone"}]
           /\ gen'[s] = "queued"
           /\ \A x \in Specs : x # s => gen'[x] = gen[x]
           /\ slot' = s
           /\ UNCHANGED <<lastKey, lastRecent, streamLock, send, prewarm, warmVars>>
  <1> USE ChatSpeculationAssumption
  <1>1. gen[s] = "unborn"
    BY FreshSpecIsUnborn DEF Speculate
  <1>2. s # slot /\ ~ spec[s].abort /\ spec[s].outcome = "none"
    BY <1>1 DEF Started, SlotTypeOK
  <1> DEFINE A == Aborting(slot)
             g == [A[s] EXCEPT !.key = k]
  <1>3. spec' = [A EXCEPT ![s] = g]
    BY DEF Speculate
  <1>4. /\ A \in [Specs -> Speculation]
        /\ \A x \in Specs :
             /\ A[x].key = spec[x].key
             /\ A[x].outcome = spec[x].outcome
             /\ A[x].abort <=> (x = slot \/ spec[x].abort)
             /\ x # slot => A[x] = spec[x]
    BY AbortingOne
  <1> HIDE DEF A
  <1>5. A[s] \in Speculation
    BY <1>4
  <1>6. g \in Speculation /\ g.abort = A[s].abort /\ g.outcome = A[s].outcome
    BY <1>5 DEF Speculation
  <1> HIDE DEF g
  <1>7. spec' \in [Specs -> Speculation] /\ spec'[s] = g /\ \A x \in Specs : x # s => spec'[x] = A[x]
    BY <1>3, <1>4, <1>6
  <1>8. ~ spec'[s].abort /\ spec'[s].outcome = "none"
    BY <1>2, <1>4, <1>6, <1>7
  <1>9. \A x \in Specs : x # s =>
                /\ spec'[x].key = spec[x].key
                /\ spec'[x].outcome = spec[x].outcome
                /\ spec'[x].abort <=> (x = slot \/ spec[x].abort)
    BY <1>4, <1>7
  <1>10. /\ gen' \in [Specs -> {"unborn", "queued", "holding", "streaming", "ended",
                                  "publish", "gone"}]
         /\ gen'[s] = "queued"
         /\ \A x \in Specs : x # s => gen'[x] = gen[x]
    BY DEF Speculate, SlotTypeOK
  <1> QED
    BY <1>1, <1>2, <1>7, <1>8, <1>9, <1>10 DEF Speculate

\* A prewarm aborts the slot's speculation and empties the slot, or does neither.
LEMMA PrewarmIs ==
    ASSUME SlotTypeOK, NEW p \in Prewarms, NEW k \in Keys, Prewarm(p, k)
    PROVE  /\ spec' \in [Specs -> Speculation]
           /\ \A x \in Specs :
                /\ spec'[x].key = spec[x].key
                /\ spec'[x].outcome = spec[x].outcome
                /\ spec[x].abort => spec'[x].abort
                /\ x # slot => (spec'[x].abort <=> spec[x].abort)
           /\ \/ slot' = NoSpec /\ (slot \in Specs => spec'[slot].abort)
              \/ slot' = slot /\ \A x \in Specs : spec'[x].abort <=> spec[x].abort
           /\ prewarm' \in [Prewarms -> {"idle", "queue"}]
           /\ UNCHANGED <<lastKey, lastRecent, gen, streamLock, send, warmVars>>
  <1>1. prewarm' \in [Prewarms -> {"idle", "queue"}]
    BY DEF Prewarm, SlotTypeOK
  <1>2. CASE spec' = Aborting(slot) /\ slot' = NoSpec
    BY <1>1, <1>2, AbortingOne DEF Prewarm
  <1>3. CASE UNCHANGED <<spec, slot>>
    BY <1>1, <1>3 DEF Prewarm, SlotTypeOK
  <1> QED
    BY <1>2, <1>3 DEF Prewarm

\* A send is recorded.
LEMMA RecordSendIs ==
    ASSUME SlotTypeOK, NEW r \in Sends, NEW k \in Keys, RecordSend(r, k)
    PROVE  /\ send[r].at = "new"
           /\ send' \in [Sends -> Sending]
           /\ send'[r].at = "take" /\ send'[r].from = send[r].from
           /\ \A q \in Sends : q # r =>
                 send'[q].at = send[q].at /\ send'[q].key = send[q].key /\ send'[q].from = send[q].from
           /\ lastKey' = k /\ lastRecent' = TRUE
           /\ UNCHANGED <<slot, spec, gen, streamLock, prewarm, warmVars>>
  <1> DEFINE g == [send[r] EXCEPT !.at = "take", !.key = k]
  <1>1. send' = [send EXCEPT ![r] = g]
    BY DEF RecordSend
  <1>2. send[r] \in Sending
    BY DEF SlotTypeOK
  <1>3. g \in Sending /\ g.at = "take" /\ g.from = send[r].from
    BY <1>2 DEF Sending
  <1> HIDE DEF g
  <1> QED
    BY <1>1, <1>3, SendPut, FreshSendIsNew DEF RecordSend

\* take_matching_speculation() attaches to the slot's speculation, or goes without one; either
\* way the slot is empty, and nothing but what was in it is aborted.
LEMMA TakeIs ==
    ASSUME SlotTypeOK, NEW r \in Sends, TakeMatchingSpeculation(r)
    PROVE  /\ send[r].at = "take"
           /\ spec' \in [Specs -> Speculation]
           /\ send' \in [Sends -> Sending]
           /\ \/ /\ slot # NoSpec /\ Attaches(slot, send[r].key)
                 /\ send'[r].at = "replay" /\ send'[r].from = slot
                 /\ \A x \in Specs : spec'[x].abort <=> spec[x].abort
              \/ /\ send'[r].at = "direct" /\ send'[r].from = send[r].from
                 /\ slot \in Specs => spec'[slot].abort \/ spec[slot].outcome = "failed"
           /\ send'[r].key = send[r].key
           /\ \A q \in Sends : q # r =>
                 send'[q].at = send[q].at /\ send'[q].key = send[q].key /\ send'[q].from = send[q].from
           /\ \A x \in Specs :
                /\ spec'[x].key = spec[x].key
                /\ spec'[x].outcome = spec[x].outcome
                /\ spec[x].abort => spec'[x].abort
                /\ x # slot => (spec'[x].abort <=> spec[x].abort)
           /\ slot' = NoSpec
           /\ UNCHANGED <<lastKey, lastRecent, gen, streamLock, prewarm, warmVars>>
  <1>1. send[r] \in Sending /\ slot \in Specs \cup {NoSpec} /\ spec \in [Specs -> Speculation]
    BY DEF SlotTypeOK
  <1>2. CASE /\ slot # NoSpec /\ Attaches(slot, send[r].key)
             /\ send' = [send EXCEPT ![r].at = "replay", ![r].from = slot]
             /\ UNCHANGED spec
    <2> DEFINE g == [send[r] EXCEPT !.at = "replay", !.from = slot]
    <2>1. send' = [send EXCEPT ![r] = g]
      BY <1>2
    <2>2. g \in Sending /\ g.at = "replay" /\ g.from = slot /\ g.key = send[r].key
      BY <1>1 DEF Sending
    <2> HIDE DEF g
    <2> QED
      BY <1>1, <1>2, <2>1, <2>2, SendPut DEF TakeMatchingSpeculation
  <1>3. CASE /\ ~ Attaches(slot, send[r].key)
             /\ send' = [send EXCEPT ![r].at = "direct"]
             /\ spec' = IF slot # NoSpec /\ spec[slot].key # send[r].key
                        THEN Aborting(slot) ELSE spec
    <2> DEFINE g == [send[r] EXCEPT !.at = "direct"]
    <2>1. send' = [send EXCEPT ![r] = g]
      BY <1>3
    <2>2. g \in Sending /\ g.at = "direct" /\ g.from = send[r].from /\ g.key = send[r].key
      BY <1>1 DEF Sending
    <2> HIDE DEF g
    <2>3. /\ spec' \in [Specs -> Speculation]
          /\ \A x \in Specs :
                /\ spec'[x].key = spec[x].key
                /\ spec'[x].outcome = spec[x].outcome
                /\ spec[x].abort => spec'[x].abort
                /\ x # slot => (spec'[x].abort <=> spec[x].abort)
      BY <1>1, <1>3, AbortingOne
    <2>4. slot \in Specs => spec'[slot].abort \/ spec[slot].outcome = "failed"
      BY <1>1, <1>3, AbortingOne, Pointers DEF Attaches
    <2> QED
      BY <2>1, <2>2, <2>3, <2>4, SendPut DEF TakeMatchingSpeculation
  <1> QED
    BY <1>2, <1>3 DEF TakeMatchingSpeculation

\* The client of a replay leaves: its own speculation is aborted.
LEMMA ReplayClientGoneIs ==
    ASSUME SlotTypeOK, NEW r \in Sends, ReplayClientGone(r)
    PROVE  /\ send[r].at = "replay"
           /\ spec' \in [Specs -> Speculation]
           /\ send' \in [Sends -> Sending]
           /\ send'[r].at = "done" /\ send'[r].from = send[r].from
           /\ \A q \in Sends : q # r =>
                 send'[q].at = send[q].at /\ send'[q].key = send[q].key /\ send'[q].from = send[q].from
           /\ \A x \in Specs :
                /\ spec'[x].key = spec[x].key
                /\ spec'[x].outcome = spec[x].outcome
                /\ spec[x].abort => spec'[x].abort
                /\ x # send[r].from => (spec'[x].abort <=> spec[x].abort)
           /\ UNCHANGED <<slot, lastKey, lastRecent, gen, streamLock, prewarm, warmVars>>
  <1> DEFINE g == [send[r] EXCEPT !.at = "done"]
  <1>1. send' = [send EXCEPT ![r] = g]
    BY DEF ReplayClientGone
  <1>2. send[r] \in Sending
    BY DEF SlotTypeOK
  <1>3. g \in Sending /\ g.at = "done" /\ g.from = send[r].from
    BY <1>2 DEF Sending
  <1> HIDE DEF g
  <1>4. /\ spec' \in [Specs -> Speculation]
        /\ \A x \in Specs :
                /\ spec'[x].key = spec[x].key
                /\ spec'[x].outcome = spec[x].outcome
                /\ spec[x].abort => spec'[x].abort
                /\ x # send[r].from => (spec'[x].abort <=> spec[x].abort)
    BY AbortingOne DEF ReplayClientGone
  <1> QED
    BY <1>1, <1>3, <1>4, SendPut DEF ReplayClientGone

\* A stream of a send ends, its replay ends or its reply is spoken: only its place and its
\* result change.
LEMMA SendMovesIs ==
    ASSUME SlotTypeOK, NEW r \in Sends, NEW b \in BOOLEAN, NEW to \in {"ended", "reply", "done"},
           send' = [send EXCEPT ![r].at = to, ![r].ok = b]
    PROVE  /\ send' \in [Sends -> Sending]
           /\ send'[r].at = to
           /\ send'[r].from = send[r].from
           /\ \A q \in Sends : q # r =>
                 send'[q].at = send[q].at /\ send'[q].key = send[q].key /\ send'[q].from = send[q].from
  <1> DEFINE g == [send[r] EXCEPT !.at = to, !.ok = b]
  <1>1. send' = [send EXCEPT ![r] = g]
    OBVIOUS
  <1>2. send[r] \in Sending
    BY DEF SlotTypeOK
  <1>3. g \in Sending /\ g.at = to /\ g.from = send[r].from
    BY <1>2 DEF Sending
  <1> HIDE DEF g
  <1> QED
    BY <1>1, <1>3, SendPut

\* The headers of a response cannot be sent: only the send's place changes.
LEMMA HeadersFailIs ==
    ASSUME SlotTypeOK, NEW r \in Sends, HeadersFail(r)
    PROVE  /\ send[r].at \in {"replay", "direct"}
           /\ send' \in [Sends -> Sending]
           /\ send'[r].at = "done" /\ send'[r].from = send[r].from
           /\ \A q \in Sends : q # r =>
                 send'[q].at = send[q].at /\ send'[q].key = send[q].key /\ send'[q].from = send[q].from
           /\ UNCHANGED <<specVars, prewarm, warmVars>>
  <1> DEFINE g == [send[r] EXCEPT !.at = "done"]
  <1>1. send' = [send EXCEPT ![r] = g]
    BY DEF HeadersFail
  <1>2. send[r] \in Sending
    BY DEF SlotTypeOK
  <1>3. g \in Sending /\ g.at = "done" /\ g.from = send[r].from
    BY <1>2 DEF Sending
  <1> HIDE DEF g
  <1> QED
    BY <1>1, <1>3, SendPut DEF HeadersFail

\* Types are kept.
LEMMA SlotTypeKept ==
    ASSUME SlotTypeOK, Started, [ChatNext]_allVars
    PROVE  SlotTypeOK'
  <1> USE ChatSpeculationAssumption
  <1>1. ASSUME NEW s \in Specs, NEW k \in Keys, Speculate(s, k) PROVE SlotTypeOK'
    BY <1>1, SpeculateIs DEF SlotTypeOK
  <1>2. ASSUME NEW p \in Prewarms, NEW k \in Keys, Prewarm(p, k) PROVE SlotTypeOK'
    BY <1>2, PrewarmIs DEF SlotTypeOK
  <1>3. ASSUME NEW p \in Prewarms, PrewarmQueues(p) PROVE SlotTypeOK'
    BY <1>3 DEF PrewarmQueues, specVars, chatVars, SlotTypeOK, Speculation, Sending
  <1>4. ASSUME NEW r \in Sends, NEW k \in Keys, RecordSend(r, k) PROVE SlotTypeOK'
    BY <1>4, RecordSendIs DEF SlotTypeOK
  <1>5. ASSUME NEW r \in Sends, ReplayClientGone(r) PROVE SlotTypeOK'
    BY <1>5, ReplayClientGoneIs DEF SlotTypeOK
  <1>6. ASSUME SendAges PROVE SlotTypeOK'
    BY <1>6 DEF SendAges, specVars, chatVars, SlotTypeOK, Speculation, Sending
  <1>7. ASSUME NEW r \in Sends, TakeMatchingSpeculation(r) PROVE SlotTypeOK'
    BY <1>7, TakeIs DEF SlotTypeOK, Attaches
  <1>8. ASSUME NEW r \in Sends, DirectBegin(r) PROVE SlotTypeOK'
    BY <1>8 DEF DirectBegin, SendGoto, specVars, chatVars, SlotTypeOK, Speculation, Sending
  <1>9. ASSUME NEW r \in Sends, NEW b \in BOOLEAN, DirectEnd(r, b) PROVE SlotTypeOK'
    BY <1>9, SendMovesIs DEF DirectEnd, specVars, SlotTypeOK
  <1>10. ASSUME NEW r \in Sends, DirectNotify(r) PROVE SlotTypeOK'
    BY <1>10 DEF DirectNotify, SendGoto, specVars, chatVars, SlotTypeOK, Speculation, Sending
  <1>11. ASSUME NEW r \in Sends, ReplayEnds(r) PROVE SlotTypeOK'
    <2>1. /\ send' = [send EXCEPT ![r].at = "reply", ![r].ok = spec[send[r].from].outcome = "ok"]
          /\ (spec[send[r].from].outcome = "ok") \in BOOLEAN
          /\ send[r].at = "replay"
          /\ UNCHANGED <<specVars, prewarm, warmVars>>
      BY <1>11 DEF ReplayEnds
    <2> QED
      BY <2>1, SendMovesIs DEF specVars, SlotTypeOK
  <1>12. ASSUME NEW r \in Sends, Reply(r) PROVE SlotTypeOK'
    BY <1>12, SendMovesIs DEF Reply, specVars, SlotTypeOK
  <1>13. ASSUME NEW s \in Specs, GrabStream(s) PROVE SlotTypeOK'
    BY <1>13 DEF GrabStream, specVars, chatVars, SlotTypeOK, Speculation, Sending
  <1>14. ASSUME NEW s \in Specs, Superseded(s) PROVE SlotTypeOK'
    BY <1>14 DEF Superseded, specVars, chatVars, SlotTypeOK, Speculation, Sending
  <1>15. ASSUME NEW s \in Specs, StreamBegins(s) PROVE SlotTypeOK'
    BY <1>15 DEF StreamBegins, specVars, chatVars, SlotTypeOK, Speculation, Sending
  <1>16. ASSUME NEW s \in Specs, StreamEnds(s) PROVE SlotTypeOK'
    BY <1>16 DEF StreamEnds, specVars, chatVars, SlotTypeOK, Speculation, Sending
  <1>17. ASSUME NEW s \in Specs, ReleaseStream(s) PROVE SlotTypeOK'
    BY <1>17 DEF ReleaseStream, specVars, chatVars, SlotTypeOK, Speculation, Sending
  <1>18. ASSUME NEW s \in Specs, NEW b \in BOOLEAN, Publish(s, b) PROVE SlotTypeOK'
    <2> DEFINE t == [spec[s] EXCEPT !.outcome = IF b THEN "ok" ELSE "failed"]
    <2>1. spec' = [spec EXCEPT ![s] = t] /\ spec[s] \in Speculation
      BY <1>18 DEF Publish, SlotTypeOK
    <2>2. t \in Speculation
      BY <2>1 DEF Speculation
    <2> HIDE DEF t
    <2> QED
      BY <1>18, <2>1, <2>2 DEF Publish, SlotTypeOK
  <1>19. ASSUME Warming PROVE SlotTypeOK'
    BY <1>19 DEF Warming, specVars, chatVars, SlotTypeOK, Speculation, Sending
  <1>21. ASSUME NEW r \in Sends, HeadersFail(r) PROVE SlotTypeOK'
    <2>1. /\ send[r].at \in {"replay", "direct"}
          /\ send' \in [Sends -> Sending]
          /\ send'[r].at = "done" /\ send'[r].from = send[r].from
          /\ \A q \in Sends : q # r =>
                send'[q].at = send[q].at /\ send'[q].key = send[q].key /\ send'[q].from = send[q].from
          /\ UNCHANGED <<specVars, prewarm, warmVars>>
      BY <1>21, HeadersFailIs
    <2> QED
      BY <2>1 DEF specVars, SlotTypeOK
  <1>20. CASE UNCHANGED allVars
    BY <1>20 DEF allVars, chatVars, warmVars, SlotTypeOK, Speculation, Sending
  <1> QED
    BY <1>1, <1>2, <1>3, <1>4, <1>5, <1>6, <1>7, <1>8, <1>9, <1>10, <1>11, <1>12, <1>13,
       <1>14, <1>15, <1>16, <1>17, <1>18, <1>19, <1>20, <1>21 DEF ChatNext, Clients, SendThread,
       SpecWorker

\* What was not started stays untouched.
LEMMA StartedKept ==
    ASSUME SlotTypeOK, Started, [ChatNext]_allVars
    PROVE  Started'
  <1> USE ChatSpeculationAssumption
  <1>1. ASSUME NEW s \in Specs, NEW k \in Keys, Speculate(s, k) PROVE Started'
    BY <1>1, SpeculateIs, Pointers DEF Started
  <1>2. ASSUME NEW p \in Prewarms, NEW k \in Keys, Prewarm(p, k) PROVE Started'
    BY <1>2, PrewarmIs, Pointers DEF Started
  <1>3. ASSUME NEW p \in Prewarms, PrewarmQueues(p) PROVE Started'
    BY <1>3 DEF PrewarmQueues, specVars, chatVars, SlotTypeOK, Started
  <1>4. ASSUME NEW r \in Sends, NEW k \in Keys, RecordSend(r, k) PROVE Started'
    BY <1>4, RecordSendIs, Pointers DEF Started
  <1>5. ASSUME NEW r \in Sends, ReplayClientGone(r) PROVE Started'
    BY <1>5, ReplayClientGoneIs, Pointers DEF Started
  <1>6. ASSUME SendAges PROVE Started'
    BY <1>6 DEF SendAges, specVars, chatVars, SlotTypeOK, Started
  <1>7. ASSUME NEW r \in Sends, TakeMatchingSpeculation(r) PROVE Started'
    BY <1>7, TakeIs, Pointers DEF Started, Attaches
  <1>8. ASSUME NEW r \in Sends, DirectBegin(r) PROVE Started'
    BY <1>8 DEF DirectBegin, SendGoto, specVars, chatVars, SlotTypeOK, Started
  <1>9. ASSUME NEW r \in Sends, NEW b \in BOOLEAN, DirectEnd(r, b) PROVE Started'
    <2>1. /\ send' = [send EXCEPT ![r].at = "ended", ![r].ok = b]
          /\ b \in BOOLEAN /\ "ended" \in {"ended", "reply", "done"}
          /\ send[r].at = "streaming"
          /\ EndLlmGeneration(r)
          /\ UNCHANGED specVars
      BY <1>9 DEF DirectEnd
    <2>2. /\ send'[r].at = "ended" /\ send'[r].from = send[r].from
          /\ \A q \in Sends : q # r =>
                send'[q].at = send[q].at /\ send'[q].key = send[q].key /\ send'[q].from = send[q].from
      BY <2>1, SendMovesIs
    <2>3. EndLlmGeneration(r) /\ send[r].at = "streaming" /\ UNCHANGED specVars
      BY <2>1
    <2> QED
      BY <2>2, <2>3 DEF specVars, Started
  <1>10. ASSUME NEW r \in Sends, DirectNotify(r) PROVE Started'
    BY <1>10 DEF DirectNotify, SendGoto, specVars, chatVars, SlotTypeOK, Started
  <1>11. ASSUME NEW r \in Sends, ReplayEnds(r) PROVE Started'
    <2>1. /\ send' = [send EXCEPT ![r].at = "reply", ![r].ok = spec[send[r].from].outcome = "ok"]
          /\ (spec[send[r].from].outcome = "ok") \in BOOLEAN
          /\ "reply" \in {"ended", "reply", "done"}
      BY <1>11 DEF ReplayEnds
    <2>2. /\ send'[r].at = "reply" /\ send'[r].from = send[r].from
          /\ \A q \in Sends : q # r =>
                send'[q].at = send[q].at /\ send'[q].key = send[q].key /\ send'[q].from = send[q].from
      BY <2>1, SendMovesIs
    <2>3. send[r].at = "replay" /\ UNCHANGED <<specVars, warmVars>>
      BY <1>11 DEF ReplayEnds
    <2> QED
      BY <2>2, <2>3 DEF specVars, Started
  <1>12. ASSUME NEW r \in Sends, Reply(r) PROVE Started'
    <2>1. /\ send' = [send EXCEPT ![r].at = "done", ![r].ok = FALSE]
          /\ FALSE \in BOOLEAN /\ "done" \in {"ended", "reply", "done"}
          /\ send[r].at = "reply"
          /\ UNCHANGED <<generating, ending>>
          /\ UNCHANGED specVars
      BY <1>12 DEF Reply, QueueLlmWarm, warmVars
    <2>2. /\ send'[r].at = "done" /\ send'[r].from = send[r].from
          /\ \A q \in Sends : q # r =>
                send'[q].at = send[q].at /\ send'[q].key = send[q].key /\ send'[q].from = send[q].from
      BY <2>1, SendMovesIs
    <2>3. UNCHANGED <<generating, ending>> /\ send[r].at = "reply" /\ UNCHANGED specVars
      BY <2>1
    <2> QED
      BY <2>2, <2>3 DEF specVars, Started
  <1>13. ASSUME NEW s \in Specs, GrabStream(s) PROVE Started'
    BY <1>13 DEF GrabStream, specVars, chatVars, SlotTypeOK, Started
  <1>14. ASSUME NEW s \in Specs, Superseded(s) PROVE Started'
    BY <1>14 DEF Superseded, specVars, chatVars, SlotTypeOK, Started
  <1>15. ASSUME NEW s \in Specs, StreamBegins(s) PROVE Started'
    BY <1>15 DEF StreamBegins, specVars, chatVars, SlotTypeOK, Started
  <1>16. ASSUME NEW s \in Specs, StreamEnds(s) PROVE Started'
    BY <1>16 DEF StreamEnds, specVars, chatVars, SlotTypeOK, Started
  <1>17. ASSUME NEW s \in Specs, ReleaseStream(s) PROVE Started'
    BY <1>17 DEF ReleaseStream, specVars, chatVars, SlotTypeOK, Started
  <1>18. ASSUME NEW s \in Specs, NEW b \in BOOLEAN, Publish(s, b) PROVE Started'
    BY <1>18 DEF Publish, specVars, chatVars, SlotTypeOK, Started
  <1>19. ASSUME Warming PROVE Started'
    BY <1>19 DEF Warming, specVars, chatVars, SlotTypeOK, Started
  <1>21. ASSUME NEW r \in Sends, HeadersFail(r) PROVE Started'
    <2>1. /\ send[r].at \in {"replay", "direct"}
          /\ send' \in [Sends -> Sending]
          /\ send'[r].at = "done" /\ send'[r].from = send[r].from
          /\ \A q \in Sends : q # r =>
                send'[q].at = send[q].at /\ send'[q].key = send[q].key /\ send'[q].from = send[q].from
          /\ UNCHANGED <<specVars, prewarm, warmVars>>
      BY <1>21, HeadersFailIs
    <2> QED
      BY <2>1 DEF specVars, Started
  <1>20. CASE UNCHANGED allVars
    BY <1>20 DEF allVars, chatVars, warmVars, SlotTypeOK, Started
  <1> QED
    BY <1>1, <1>2, <1>3, <1>4, <1>5, <1>6, <1>7, <1>8, <1>9, <1>10, <1>11, <1>12, <1>13,
       <1>14, <1>15, <1>16, <1>17, <1>18, <1>19, <1>20, <1>21 DEF ChatNext, Clients, SendThread,
       SpecWorker

\* A speculation that changes hands leaves the hand it was in.
LEMMA OwnerKept ==
    ASSUME SlotTypeOK, Started, OneOwner, [ChatNext]_allVars
    PROVE  OneOwner'
  <1> USE ChatSpeculationAssumption
  <1>1. ASSUME NEW s \in Specs, NEW k \in Keys, Speculate(s, k) PROVE OneOwner'
    BY <1>1, SpeculateIs, Pointers DEF Started, OneOwner
  <1>2. ASSUME NEW p \in Prewarms, NEW k \in Keys, Prewarm(p, k) PROVE OneOwner'
    BY <1>2, PrewarmIs, Pointers DEF Started, OneOwner
  <1>3. ASSUME NEW p \in Prewarms, PrewarmQueues(p) PROVE OneOwner'
    BY <1>3 DEF PrewarmQueues, specVars, chatVars, SlotTypeOK, Started, OneOwner
  <1>4. ASSUME NEW r \in Sends, NEW k \in Keys, RecordSend(r, k) PROVE OneOwner'
    <2>1. /\ send'[r].at = "take" /\ send'[r].from = send[r].from
          /\ \A q \in Sends : q # r =>
                send'[q].at = send[q].at /\ send'[q].key = send[q].key /\ send'[q].from = send[q].from
          /\ slot' = slot /\ spec' = spec
      BY <1>4, RecordSendIs
    <2> QED
      BY <2>1 DEF OneOwner
  <1>5. ASSUME NEW r \in Sends, ReplayClientGone(r) PROVE OneOwner'
    BY <1>5, ReplayClientGoneIs, Pointers DEF Started, OneOwner
  <1>6. ASSUME SendAges PROVE OneOwner'
    BY <1>6 DEF SendAges, specVars, chatVars, SlotTypeOK, Started, OneOwner
  <1>7. ASSUME NEW r \in Sends, TakeMatchingSpeculation(r) PROVE OneOwner'
    BY <1>7, TakeIs, Pointers DEF Started, OneOwner, Attaches
  <1>8. ASSUME NEW r \in Sends, DirectBegin(r) PROVE OneOwner'
    BY <1>8 DEF DirectBegin, SendGoto, specVars, chatVars, SlotTypeOK, Started, OneOwner
  <1>9. ASSUME NEW r \in Sends, NEW b \in BOOLEAN, DirectEnd(r, b) PROVE OneOwner'
    <2>1. /\ send' = [send EXCEPT ![r].at = "ended", ![r].ok = b]
          /\ b \in BOOLEAN /\ "ended" \in {"ended", "reply", "done"}
          /\ send[r].at = "streaming"
          /\ EndLlmGeneration(r)
          /\ UNCHANGED specVars
      BY <1>9 DEF DirectEnd
    <2>2. /\ send'[r].at = "ended" /\ send'[r].from = send[r].from
          /\ \A q \in Sends : q # r =>
                send'[q].at = send[q].at /\ send'[q].key = send[q].key /\ send'[q].from = send[q].from
      BY <2>1, SendMovesIs
    <2>3. EndLlmGeneration(r) /\ send[r].at = "streaming" /\ UNCHANGED specVars
      BY <2>1
    <2> QED
      BY <2>2, <2>3 DEF specVars, Started, OneOwner
  <1>10. ASSUME NEW r \in Sends, DirectNotify(r) PROVE OneOwner'
    BY <1>10 DEF DirectNotify, SendGoto, specVars, chatVars, SlotTypeOK, Started, OneOwner
  <1>11. ASSUME NEW r \in Sends, ReplayEnds(r) PROVE OneOwner'
    <2>1. /\ send' = [send EXCEPT ![r].at = "reply", ![r].ok = spec[send[r].from].outcome = "ok"]
          /\ (spec[send[r].from].outcome = "ok") \in BOOLEAN
          /\ "reply" \in {"ended", "reply", "done"}
      BY <1>11 DEF ReplayEnds
    <2>2. /\ send'[r].at = "reply" /\ send'[r].from = send[r].from
          /\ \A q \in Sends : q # r =>
                send'[q].at = send[q].at /\ send'[q].key = send[q].key /\ send'[q].from = send[q].from
      BY <2>1, SendMovesIs
    <2>3. send[r].at = "replay" /\ UNCHANGED <<specVars, warmVars>>
      BY <1>11 DEF ReplayEnds
    <2> QED
      BY <2>2, <2>3 DEF specVars, Started, OneOwner
  <1>12. ASSUME NEW r \in Sends, Reply(r) PROVE OneOwner'
    <2>1. /\ send' = [send EXCEPT ![r].at = "done", ![r].ok = FALSE]
          /\ FALSE \in BOOLEAN /\ "done" \in {"ended", "reply", "done"}
          /\ send[r].at = "reply"
          /\ UNCHANGED <<generating, ending>>
          /\ UNCHANGED specVars
      BY <1>12 DEF Reply, QueueLlmWarm, warmVars
    <2>2. /\ send'[r].at = "done" /\ send'[r].from = send[r].from
          /\ \A q \in Sends : q # r =>
                send'[q].at = send[q].at /\ send'[q].key = send[q].key /\ send'[q].from = send[q].from
      BY <2>1, SendMovesIs
    <2>3. UNCHANGED <<generating, ending>> /\ send[r].at = "reply" /\ UNCHANGED specVars
      BY <2>1
    <2> QED
      BY <2>2, <2>3 DEF specVars, Started, OneOwner
  <1>13. ASSUME NEW s \in Specs, GrabStream(s) PROVE OneOwner'
    BY <1>13 DEF GrabStream, specVars, chatVars, SlotTypeOK, Started, OneOwner
  <1>14. ASSUME NEW s \in Specs, Superseded(s) PROVE OneOwner'
    BY <1>14 DEF Superseded, specVars, chatVars, SlotTypeOK, Started, OneOwner
  <1>15. ASSUME NEW s \in Specs, StreamBegins(s) PROVE OneOwner'
    BY <1>15 DEF StreamBegins, specVars, chatVars, SlotTypeOK, Started, OneOwner
  <1>16. ASSUME NEW s \in Specs, StreamEnds(s) PROVE OneOwner'
    BY <1>16 DEF StreamEnds, specVars, chatVars, SlotTypeOK, Started, OneOwner
  <1>17. ASSUME NEW s \in Specs, ReleaseStream(s) PROVE OneOwner'
    BY <1>17 DEF ReleaseStream, specVars, chatVars, SlotTypeOK, Started, OneOwner
  <1>18. ASSUME NEW s \in Specs, NEW b \in BOOLEAN, Publish(s, b) PROVE OneOwner'
    BY <1>18 DEF Publish, specVars, chatVars, SlotTypeOK, Started, OneOwner
  <1>19. ASSUME Warming PROVE OneOwner'
    BY <1>19 DEF Warming, specVars, chatVars, SlotTypeOK, Started, OneOwner
  <1>21. ASSUME NEW r \in Sends, HeadersFail(r) PROVE OneOwner'
    <2>1. /\ send[r].at \in {"replay", "direct"}
          /\ send' \in [Sends -> Sending]
          /\ send'[r].at = "done" /\ send'[r].from = send[r].from
          /\ \A q \in Sends : q # r =>
                send'[q].at = send[q].at /\ send'[q].key = send[q].key /\ send'[q].from = send[q].from
          /\ UNCHANGED <<specVars, prewarm, warmVars>>
      BY <1>21, HeadersFailIs
    <2> QED
      BY <2>1 DEF specVars, Started, OneOwner
  <1>20. CASE UNCHANGED allVars
    BY <1>20 DEF allVars, chatVars, warmVars, SlotTypeOK, Started, OneOwner
  <1> QED
    BY <1>1, <1>2, <1>3, <1>4, <1>5, <1>6, <1>7, <1>8, <1>9, <1>10, <1>11, <1>12, <1>13,
       <1>14, <1>15, <1>16, <1>17, <1>18, <1>19, <1>20, <1>21 DEF ChatNext, Clients, SendThread,
       SpecWorker

\* Nobody but its client aborts a speculation that is replayed.
LEMMA ReplayKept ==
    ASSUME SlotTypeOK, Started, OneOwner, ReplayUndisturbed, [ChatNext]_allVars
    PROVE  ReplayUndisturbed'
  <1> USE ChatSpeculationAssumption
  <1>1. ASSUME NEW s \in Specs, NEW k \in Keys, Speculate(s, k) PROVE ReplayUndisturbed'
    BY <1>1, SpeculateIs, Pointers DEF Started, OneOwner, ReplayUndisturbed
  <1>2. ASSUME NEW p \in Prewarms, NEW k \in Keys, Prewarm(p, k) PROVE ReplayUndisturbed'
    BY <1>2, PrewarmIs, Pointers DEF Started, OneOwner, ReplayUndisturbed
  <1>3. ASSUME NEW p \in Prewarms, PrewarmQueues(p) PROVE ReplayUndisturbed'
    BY <1>3 DEF PrewarmQueues, specVars, chatVars, SlotTypeOK, Started, OneOwner,
       ReplayUndisturbed
  <1>4. ASSUME NEW r \in Sends, NEW k \in Keys, RecordSend(r, k) PROVE ReplayUndisturbed'
    <2>1. /\ send'[r].at = "take" /\ send'[r].from = send[r].from
          /\ \A q \in Sends : q # r =>
                send'[q].at = send[q].at /\ send'[q].key = send[q].key /\ send'[q].from = send[q].from
          /\ slot' = slot /\ spec' = spec
      BY <1>4, RecordSendIs
    <2> QED
      BY <2>1 DEF Started, OneOwner, ReplayUndisturbed
  <1>5. ASSUME NEW r \in Sends, ReplayClientGone(r) PROVE ReplayUndisturbed'
    BY <1>5, ReplayClientGoneIs, Pointers DEF Started, OneOwner, ReplayUndisturbed
  <1>6. ASSUME SendAges PROVE ReplayUndisturbed'
    BY <1>6 DEF SendAges, specVars, chatVars, SlotTypeOK, Started, OneOwner, ReplayUndisturbed
  <1>7. ASSUME NEW r \in Sends, TakeMatchingSpeculation(r) PROVE ReplayUndisturbed'
    BY <1>7, TakeIs, Pointers DEF Started, OneOwner, ReplayUndisturbed, Attaches
  <1>8. ASSUME NEW r \in Sends, DirectBegin(r) PROVE ReplayUndisturbed'
    BY <1>8 DEF DirectBegin, SendGoto, specVars, chatVars, SlotTypeOK, Started, OneOwner,
       ReplayUndisturbed
  <1>9. ASSUME NEW r \in Sends, NEW b \in BOOLEAN, DirectEnd(r, b) PROVE ReplayUndisturbed'
    <2>1. /\ send' = [send EXCEPT ![r].at = "ended", ![r].ok = b]
          /\ b \in BOOLEAN /\ "ended" \in {"ended", "reply", "done"}
          /\ send[r].at = "streaming"
          /\ EndLlmGeneration(r)
          /\ UNCHANGED specVars
      BY <1>9 DEF DirectEnd
    <2>2. /\ send'[r].at = "ended" /\ send'[r].from = send[r].from
          /\ \A q \in Sends : q # r =>
                send'[q].at = send[q].at /\ send'[q].key = send[q].key /\ send'[q].from = send[q].from
      BY <2>1, SendMovesIs
    <2>3. EndLlmGeneration(r) /\ send[r].at = "streaming" /\ UNCHANGED specVars
      BY <2>1
    <2> QED
      BY <2>2, <2>3 DEF specVars, Started, OneOwner, ReplayUndisturbed
  <1>10. ASSUME NEW r \in Sends, DirectNotify(r) PROVE ReplayUndisturbed'
    BY <1>10 DEF DirectNotify, SendGoto, specVars, chatVars, SlotTypeOK, Started, OneOwner,
       ReplayUndisturbed
  <1>11. ASSUME NEW r \in Sends, ReplayEnds(r) PROVE ReplayUndisturbed'
    <2>1. /\ send' = [send EXCEPT ![r].at = "reply", ![r].ok = spec[send[r].from].outcome = "ok"]
          /\ (spec[send[r].from].outcome = "ok") \in BOOLEAN
          /\ "reply" \in {"ended", "reply", "done"}
      BY <1>11 DEF ReplayEnds
    <2>2. /\ send'[r].at = "reply" /\ send'[r].from = send[r].from
          /\ \A q \in Sends : q # r =>
                send'[q].at = send[q].at /\ send'[q].key = send[q].key /\ send'[q].from = send[q].from
      BY <2>1, SendMovesIs
    <2>3. send[r].at = "replay" /\ UNCHANGED <<specVars, warmVars>>
      BY <1>11 DEF ReplayEnds
    <2> QED
      BY <2>2, <2>3 DEF specVars, Started, OneOwner, ReplayUndisturbed
  <1>12. ASSUME NEW r \in Sends, Reply(r) PROVE ReplayUndisturbed'
    <2>1. /\ send' = [send EXCEPT ![r].at = "done", ![r].ok = FALSE]
          /\ FALSE \in BOOLEAN /\ "done" \in {"ended", "reply", "done"}
          /\ send[r].at = "reply"
          /\ UNCHANGED <<generating, ending>>
          /\ UNCHANGED specVars
      BY <1>12 DEF Reply, QueueLlmWarm, warmVars
    <2>2. /\ send'[r].at = "done" /\ send'[r].from = send[r].from
          /\ \A q \in Sends : q # r =>
                send'[q].at = send[q].at /\ send'[q].key = send[q].key /\ send'[q].from = send[q].from
      BY <2>1, SendMovesIs
    <2>3. UNCHANGED <<generating, ending>> /\ send[r].at = "reply" /\ UNCHANGED specVars
      BY <2>1
    <2> QED
      BY <2>2, <2>3 DEF specVars, Started, OneOwner, ReplayUndisturbed
  <1>13. ASSUME NEW s \in Specs, GrabStream(s) PROVE ReplayUndisturbed'
    BY <1>13 DEF GrabStream, specVars, chatVars, SlotTypeOK, Started, OneOwner,
       ReplayUndisturbed
  <1>14. ASSUME NEW s \in Specs, Superseded(s) PROVE ReplayUndisturbed'
    BY <1>14 DEF Superseded, specVars, chatVars, SlotTypeOK, Started, OneOwner,
       ReplayUndisturbed
  <1>15. ASSUME NEW s \in Specs, StreamBegins(s) PROVE ReplayUndisturbed'
    BY <1>15 DEF StreamBegins, specVars, chatVars, SlotTypeOK, Started, OneOwner,
       ReplayUndisturbed
  <1>16. ASSUME NEW s \in Specs, StreamEnds(s) PROVE ReplayUndisturbed'
    BY <1>16 DEF StreamEnds, specVars, chatVars, SlotTypeOK, Started, OneOwner,
       ReplayUndisturbed
  <1>17. ASSUME NEW s \in Specs, ReleaseStream(s) PROVE ReplayUndisturbed'
    BY <1>17 DEF ReleaseStream, specVars, chatVars, SlotTypeOK, Started, OneOwner,
       ReplayUndisturbed
  <1>18. ASSUME NEW s \in Specs, NEW b \in BOOLEAN, Publish(s, b) PROVE ReplayUndisturbed'
    BY <1>18 DEF Publish, specVars, chatVars, SlotTypeOK, Started, OneOwner, ReplayUndisturbed
  <1>19. ASSUME Warming PROVE ReplayUndisturbed'
    BY <1>19 DEF Warming, specVars, chatVars, SlotTypeOK, Started, OneOwner, ReplayUndisturbed
  <1>21. ASSUME NEW r \in Sends, HeadersFail(r) PROVE ReplayUndisturbed'
    <2>1. /\ send[r].at \in {"replay", "direct"}
          /\ send' \in [Sends -> Sending]
          /\ send'[r].at = "done" /\ send'[r].from = send[r].from
          /\ \A q \in Sends : q # r =>
                send'[q].at = send[q].at /\ send'[q].key = send[q].key /\ send'[q].from = send[q].from
          /\ UNCHANGED <<specVars, prewarm, warmVars>>
      BY <1>21, HeadersFailIs
    <2> QED
      BY <2>1 DEF specVars, Started, OneOwner, ReplayUndisturbed
  <1>20. CASE UNCHANGED allVars
    BY <1>20 DEF allVars, chatVars, warmVars, SlotTypeOK, Started, OneOwner, ReplayUndisturbed
  <1> QED
    BY <1>1, <1>2, <1>3, <1>4, <1>5, <1>6, <1>7, <1>8, <1>9, <1>10, <1>11, <1>12, <1>13,
       <1>14, <1>15, <1>16, <1>17, <1>18, <1>19, <1>20, <1>21 DEF ChatNext, Clients, SendThread,
       SpecWorker

\* A worker that is followed reports before it leaves, and one worker has the stream lock.
LEMMA EndKept ==
    ASSUME SlotTypeOK, Started, OneOwner, ReplayUndisturbed, ReplayWillEnd, [ChatNext]_allVars
    PROVE  ReplayWillEnd'
  <1> USE ChatSpeculationAssumption
  <1>1. ASSUME NEW s \in Specs, NEW k \in Keys, Speculate(s, k) PROVE ReplayWillEnd'
    BY <1>1, SpeculateIs, Pointers DEF Started, OneOwner, ReplayUndisturbed, ReplayWillEnd
  <1>2. ASSUME NEW p \in Prewarms, NEW k \in Keys, Prewarm(p, k) PROVE ReplayWillEnd'
    BY <1>2, PrewarmIs, Pointers DEF Started, OneOwner, ReplayUndisturbed, ReplayWillEnd
  <1>3. ASSUME NEW p \in Prewarms, PrewarmQueues(p) PROVE ReplayWillEnd'
    BY <1>3 DEF PrewarmQueues, specVars, chatVars, SlotTypeOK, Started, OneOwner,
       ReplayUndisturbed, ReplayWillEnd
  <1>4. ASSUME NEW r \in Sends, NEW k \in Keys, RecordSend(r, k) PROVE ReplayWillEnd'
    <2>1. /\ send'[r].at = "take" /\ send'[r].from = send[r].from
          /\ \A q \in Sends : q # r =>
                send'[q].at = send[q].at /\ send'[q].key = send[q].key /\ send'[q].from = send[q].from
          /\ UNCHANGED <<slot, spec, gen, streamLock>>
      BY <1>4, RecordSendIs
    <2> QED
      BY <2>1 DEF ReplayWillEnd
  <1>5. ASSUME NEW r \in Sends, ReplayClientGone(r) PROVE ReplayWillEnd'
    BY <1>5, ReplayClientGoneIs, Pointers DEF Started, OneOwner, ReplayUndisturbed,
       ReplayWillEnd
  <1>6. ASSUME SendAges PROVE ReplayWillEnd'
    BY <1>6 DEF SendAges, specVars, chatVars, SlotTypeOK, Started, OneOwner,
       ReplayUndisturbed, ReplayWillEnd
  <1>7. ASSUME NEW r \in Sends, TakeMatchingSpeculation(r) PROVE ReplayWillEnd'
    <2>1. (\A s \in Specs : gen[s] \in {"holding", "streaming", "ended"} <=> streamLock = s)'
      BY <1>7, TakeIs DEF ReplayWillEnd
    <2>2. ASSUME NEW q \in Sends, send'[q].at = "replay"
          PROVE  \/ spec'[send'[q].from].outcome # "none"
                 \/ gen'[send'[q].from] \in {"queued", "holding", "streaming", "ended", "publish"}
      <3>1. CASE q # r
        BY <1>7, <2>2, <3>1, TakeIs, Pointers DEF ReplayWillEnd, Started
      <3>2. CASE q = r
        <4>1. /\ slot \in Specs /\ send'[q].from = slot /\ ~ spec[slot].abort
              /\ spec'[slot].outcome = spec[slot].outcome /\ gen' = gen
          BY <1>7, <2>2, <3>2, TakeIs, Pointers DEF Attaches
        <4>2. gen[slot] # "unborn" /\ (gen[slot] = "gone" => spec[slot].outcome # "none")
          BY <4>1, Pointers DEF Started
        <4>3. gen[slot] \in {"unborn", "queued", "holding", "streaming", "ended", "publish", "gone"}
          BY <4>1 DEF SlotTypeOK
        <4> QED
          BY <4>1, <4>2, <4>3
      <3> QED
        BY <3>1, <3>2
    <2> QED
      BY <2>1, <2>2 DEF ReplayWillEnd
  <1>8. ASSUME NEW r \in Sends, DirectBegin(r) PROVE ReplayWillEnd'
    BY <1>8 DEF DirectBegin, SendGoto, specVars, chatVars, SlotTypeOK, Started, OneOwner,
       ReplayUndisturbed, ReplayWillEnd
  <1>9. ASSUME NEW r \in Sends, NEW b \in BOOLEAN, DirectEnd(r, b) PROVE ReplayWillEnd'
    <2>1. /\ send' = [send EXCEPT ![r].at = "ended", ![r].ok = b]
          /\ b \in BOOLEAN /\ "ended" \in {"ended", "reply", "done"}
          /\ send[r].at = "streaming"
          /\ EndLlmGeneration(r)
          /\ UNCHANGED specVars
      BY <1>9 DEF DirectEnd
    <2>2. /\ send'[r].at = "ended" /\ send'[r].from = send[r].from
          /\ \A q \in Sends : q # r =>
                send'[q].at = send[q].at /\ send'[q].key = send[q].key /\ send'[q].from = send[q].from
      BY <2>1, SendMovesIs
    <2>3. EndLlmGeneration(r) /\ send[r].at = "streaming" /\ UNCHANGED specVars
      BY <2>1
    <2> QED
      BY <2>2, <2>3 DEF specVars, Started, OneOwner, ReplayUndisturbed, ReplayWillEnd
  <1>10. ASSUME NEW r \in Sends, DirectNotify(r) PROVE ReplayWillEnd'
    BY <1>10 DEF DirectNotify, SendGoto, specVars, chatVars, SlotTypeOK, Started, OneOwner,
       ReplayUndisturbed, ReplayWillEnd
  <1>11. ASSUME NEW r \in Sends, ReplayEnds(r) PROVE ReplayWillEnd'
    <2>1. /\ send' = [send EXCEPT ![r].at = "reply", ![r].ok = spec[send[r].from].outcome = "ok"]
          /\ (spec[send[r].from].outcome = "ok") \in BOOLEAN
          /\ "reply" \in {"ended", "reply", "done"}
      BY <1>11 DEF ReplayEnds
    <2>2. /\ send'[r].at = "reply" /\ send'[r].from = send[r].from
          /\ \A q \in Sends : q # r =>
                send'[q].at = send[q].at /\ send'[q].key = send[q].key /\ send'[q].from = send[q].from
      BY <2>1, SendMovesIs
    <2>3. send[r].at = "replay" /\ UNCHANGED <<specVars, warmVars>>
      BY <1>11 DEF ReplayEnds
    <2> QED
      BY <2>2, <2>3 DEF specVars, Started, OneOwner, ReplayUndisturbed, ReplayWillEnd
  <1>12. ASSUME NEW r \in Sends, Reply(r) PROVE ReplayWillEnd'
    <2>1. /\ send' = [send EXCEPT ![r].at = "done", ![r].ok = FALSE]
          /\ FALSE \in BOOLEAN /\ "done" \in {"ended", "reply", "done"}
          /\ send[r].at = "reply"
          /\ UNCHANGED <<generating, ending>>
          /\ UNCHANGED specVars
      BY <1>12 DEF Reply, QueueLlmWarm, warmVars
    <2>2. /\ send'[r].at = "done" /\ send'[r].from = send[r].from
          /\ \A q \in Sends : q # r =>
                send'[q].at = send[q].at /\ send'[q].key = send[q].key /\ send'[q].from = send[q].from
      BY <2>1, SendMovesIs
    <2>3. UNCHANGED <<generating, ending>> /\ send[r].at = "reply" /\ UNCHANGED specVars
      BY <2>1
    <2> QED
      BY <2>2, <2>3 DEF specVars, Started, OneOwner, ReplayUndisturbed, ReplayWillEnd
  <1>13. ASSUME NEW s \in Specs, GrabStream(s) PROVE ReplayWillEnd'
    BY <1>13 DEF GrabStream, specVars, chatVars, SlotTypeOK, Started, OneOwner,
       ReplayUndisturbed, ReplayWillEnd
  <1>14. ASSUME NEW s \in Specs, Superseded(s) PROVE ReplayWillEnd'
    BY <1>14 DEF Superseded, specVars, chatVars, SlotTypeOK, Started, OneOwner,
       ReplayUndisturbed, ReplayWillEnd
  <1>15. ASSUME NEW s \in Specs, StreamBegins(s) PROVE ReplayWillEnd'
    BY <1>15 DEF StreamBegins, specVars, chatVars, SlotTypeOK, Started, OneOwner,
       ReplayUndisturbed, ReplayWillEnd
  <1>16. ASSUME NEW s \in Specs, StreamEnds(s) PROVE ReplayWillEnd'
    BY <1>16 DEF StreamEnds, specVars, chatVars, SlotTypeOK, Started, OneOwner,
       ReplayUndisturbed, ReplayWillEnd
  <1>17. ASSUME NEW s \in Specs, ReleaseStream(s) PROVE ReplayWillEnd'
    BY <1>17 DEF ReleaseStream, specVars, chatVars, SlotTypeOK, Started, OneOwner,
       ReplayUndisturbed, ReplayWillEnd
  <1>18. ASSUME NEW s \in Specs, NEW b \in BOOLEAN, Publish(s, b) PROVE ReplayWillEnd'
    BY <1>18 DEF Publish, specVars, chatVars, SlotTypeOK, Started, OneOwner,
       ReplayUndisturbed, ReplayWillEnd
  <1>19. ASSUME Warming PROVE ReplayWillEnd'
    BY <1>19 DEF Warming, specVars, chatVars, SlotTypeOK, Started, OneOwner,
       ReplayUndisturbed, ReplayWillEnd
  <1>21. ASSUME NEW r \in Sends, HeadersFail(r) PROVE ReplayWillEnd'
    <2>1. /\ send[r].at \in {"replay", "direct"}
          /\ send' \in [Sends -> Sending]
          /\ send'[r].at = "done" /\ send'[r].from = send[r].from
          /\ \A q \in Sends : q # r =>
                send'[q].at = send[q].at /\ send'[q].key = send[q].key /\ send'[q].from = send[q].from
          /\ UNCHANGED <<specVars, prewarm, warmVars>>
      BY <1>21, HeadersFailIs
    <2> QED
      BY <2>1 DEF specVars, Started, OneOwner, ReplayUndisturbed, ReplayWillEnd
  <1>20. CASE UNCHANGED allVars
    BY <1>20 DEF allVars, chatVars, warmVars, SlotTypeOK, Started, OneOwner,
       ReplayUndisturbed, ReplayWillEnd
  <1> QED
    BY <1>1, <1>2, <1>3, <1>4, <1>5, <1>6, <1>7, <1>8, <1>9, <1>10, <1>11, <1>12, <1>13,
       <1>14, <1>15, <1>16, <1>17, <1>18, <1>19, <1>20, <1>21 DEF ChatNext, Clients, SendThread,
       SpecWorker

\* Streams begin and end at the warm queue.
LEMMA CountKept ==
    ASSUME SlotTypeOK, Started, StreamsCounted, [ChatNext]_allVars
    PROVE  StreamsCounted'
  <1> USE ChatSpeculationAssumption
  <1>1. ASSUME NEW s \in Specs, NEW k \in Keys, Speculate(s, k) PROVE StreamsCounted'
    BY <1>1, SpeculateIs, Pointers DEF StreamsCounted, warmVars
  <1>2. ASSUME NEW p \in Prewarms, NEW k \in Keys, Prewarm(p, k) PROVE StreamsCounted'
    BY <1>2, PrewarmIs, Pointers DEF StreamsCounted, warmVars
  <1>3. ASSUME NEW p \in Prewarms, PrewarmQueues(p) PROVE StreamsCounted'
    BY <1>3 DEF PrewarmQueues, specVars, chatVars, SlotTypeOK, StreamsCounted, warmVars,
       BeginLlmGeneration, EndLlmGeneration, NotifyEnded, QueueLlmWarm
  <1>4. ASSUME NEW r \in Sends, NEW k \in Keys, RecordSend(r, k) PROVE StreamsCounted'
    BY <1>4, RecordSendIs, Pointers DEF StreamsCounted, warmVars
  <1>5. ASSUME NEW r \in Sends, ReplayClientGone(r) PROVE StreamsCounted'
    BY <1>5, ReplayClientGoneIs, Pointers DEF StreamsCounted, warmVars
  <1>6. ASSUME SendAges PROVE StreamsCounted'
    BY <1>6 DEF SendAges, specVars, chatVars, SlotTypeOK, StreamsCounted, warmVars,
       BeginLlmGeneration, EndLlmGeneration, NotifyEnded, QueueLlmWarm
  <1>7. ASSUME NEW r \in Sends, TakeMatchingSpeculation(r) PROVE StreamsCounted'
    BY <1>7, TakeIs, Pointers DEF StreamsCounted, warmVars, Attaches
  <1>8. ASSUME NEW r \in Sends, DirectBegin(r) PROVE StreamsCounted'
    BY <1>8 DEF DirectBegin, SendGoto, specVars, chatVars, SlotTypeOK, StreamsCounted,
       warmVars, BeginLlmGeneration, EndLlmGeneration, NotifyEnded, QueueLlmWarm
  <1>9. ASSUME NEW r \in Sends, NEW b \in BOOLEAN, DirectEnd(r, b) PROVE StreamsCounted'
    <2>1. /\ send' = [send EXCEPT ![r].at = "ended", ![r].ok = b]
          /\ b \in BOOLEAN /\ "ended" \in {"ended", "reply", "done"}
          /\ send[r].at = "streaming"
          /\ EndLlmGeneration(r)
          /\ UNCHANGED specVars
      BY <1>9 DEF DirectEnd
    <2>2. /\ send'[r].at = "ended" /\ send'[r].from = send[r].from
          /\ \A q \in Sends : q # r =>
                send'[q].at = send[q].at /\ send'[q].key = send[q].key /\ send'[q].from = send[q].from
      BY <2>1, SendMovesIs
    <2>3. EndLlmGeneration(r) /\ send[r].at = "streaming" /\ UNCHANGED specVars
      BY <2>1
    <2> QED
      BY <2>2, <2>3 DEF specVars, StreamsCounted, warmVars, EndLlmGeneration
  <1>10. ASSUME NEW r \in Sends, DirectNotify(r) PROVE StreamsCounted'
    BY <1>10 DEF DirectNotify, SendGoto, specVars, chatVars, SlotTypeOK, StreamsCounted,
       warmVars, BeginLlmGeneration, EndLlmGeneration, NotifyEnded, QueueLlmWarm
  <1>11. ASSUME NEW r \in Sends, ReplayEnds(r) PROVE StreamsCounted'
    <2>1. /\ send' = [send EXCEPT ![r].at = "reply", ![r].ok = spec[send[r].from].outcome = "ok"]
          /\ (spec[send[r].from].outcome = "ok") \in BOOLEAN
          /\ "reply" \in {"ended", "reply", "done"}
      BY <1>11 DEF ReplayEnds
    <2>2. /\ send'[r].at = "reply" /\ send'[r].from = send[r].from
          /\ \A q \in Sends : q # r =>
                send'[q].at = send[q].at /\ send'[q].key = send[q].key /\ send'[q].from = send[q].from
      BY <2>1, SendMovesIs
    <2>3. send[r].at = "replay" /\ UNCHANGED <<specVars, warmVars>>
      BY <1>11 DEF ReplayEnds
    <2> QED
      BY <2>2, <2>3 DEF specVars, StreamsCounted, warmVars
  <1>12. ASSUME NEW r \in Sends, Reply(r) PROVE StreamsCounted'
    <2>1. /\ send' = [send EXCEPT ![r].at = "done", ![r].ok = FALSE]
          /\ FALSE \in BOOLEAN /\ "done" \in {"ended", "reply", "done"}
          /\ send[r].at = "reply"
          /\ UNCHANGED <<generating, ending>>
          /\ UNCHANGED specVars
      BY <1>12 DEF Reply, QueueLlmWarm, warmVars
    <2>2. /\ send'[r].at = "done" /\ send'[r].from = send[r].from
          /\ \A q \in Sends : q # r =>
                send'[q].at = send[q].at /\ send'[q].key = send[q].key /\ send'[q].from = send[q].from
      BY <2>1, SendMovesIs
    <2>3. UNCHANGED <<generating, ending>> /\ send[r].at = "reply" /\ UNCHANGED specVars
      BY <2>1
    <2> QED
      BY <2>2, <2>3 DEF specVars, StreamsCounted, warmVars
  <1>13. ASSUME NEW s \in Specs, GrabStream(s) PROVE StreamsCounted'
    BY <1>13 DEF GrabStream, specVars, chatVars, SlotTypeOK, StreamsCounted, warmVars,
       BeginLlmGeneration, EndLlmGeneration, NotifyEnded, QueueLlmWarm
  <1>14. ASSUME NEW s \in Specs, Superseded(s) PROVE StreamsCounted'
    BY <1>14 DEF Superseded, specVars, chatVars, SlotTypeOK, StreamsCounted, warmVars,
       BeginLlmGeneration, EndLlmGeneration, NotifyEnded, QueueLlmWarm
  <1>15. ASSUME NEW s \in Specs, StreamBegins(s) PROVE StreamsCounted'
    BY <1>15 DEF StreamBegins, specVars, chatVars, SlotTypeOK, StreamsCounted, warmVars,
       BeginLlmGeneration, EndLlmGeneration, NotifyEnded, QueueLlmWarm
  <1>16. ASSUME NEW s \in Specs, StreamEnds(s) PROVE StreamsCounted'
    BY <1>16 DEF StreamEnds, specVars, chatVars, SlotTypeOK, StreamsCounted, warmVars,
       BeginLlmGeneration, EndLlmGeneration, NotifyEnded, QueueLlmWarm
  <1>17. ASSUME NEW s \in Specs, ReleaseStream(s) PROVE StreamsCounted'
    BY <1>17 DEF ReleaseStream, specVars, chatVars, SlotTypeOK, StreamsCounted, warmVars,
       BeginLlmGeneration, EndLlmGeneration, NotifyEnded, QueueLlmWarm
  <1>18. ASSUME NEW s \in Specs, NEW b \in BOOLEAN, Publish(s, b) PROVE StreamsCounted'
    BY <1>18 DEF Publish, specVars, chatVars, SlotTypeOK, StreamsCounted, warmVars,
       BeginLlmGeneration, EndLlmGeneration, NotifyEnded, QueueLlmWarm
  <1>19. ASSUME Warming PROVE StreamsCounted'
    BY <1>19 DEF Warming, WarmWorker, WorkerLoop, Dispatch, SettleRecheck, chatVars,
       StreamsCounted
  <1>21. ASSUME NEW r \in Sends, HeadersFail(r) PROVE StreamsCounted'
    <2>1. /\ send[r].at \in {"replay", "direct"}
          /\ send' \in [Sends -> Sending]
          /\ send'[r].at = "done" /\ send'[r].from = send[r].from
          /\ \A q \in Sends : q # r =>
                send'[q].at = send[q].at /\ send'[q].key = send[q].key /\ send'[q].from = send[q].from
          /\ UNCHANGED <<specVars, prewarm, warmVars>>
      BY <1>21, HeadersFailIs
    <2> QED
      BY <2>1 DEF specVars, StreamsCounted, warmVars
  <1>20. CASE UNCHANGED allVars
    BY <1>20 DEF allVars, chatVars, warmVars, SlotTypeOK, StreamsCounted, warmVars,
       BeginLlmGeneration, EndLlmGeneration, NotifyEnded, QueueLlmWarm
  <1> QED
    BY <1>1, <1>2, <1>3, <1>4, <1>5, <1>6, <1>7, <1>8, <1>9, <1>10, <1>11, <1>12, <1>13,
       <1>14, <1>15, <1>16, <1>17, <1>18, <1>19, <1>20, <1>21 DEF ChatNext, Clients, SendThread,
       SpecWorker

\* Who takes a speculation out of the slot aborts it or attaches to it.
LEMMA DroppedKept ==
    ASSUME SlotTypeOK, Started, DroppedIsAborted, [ChatNext]_allVars
    PROVE  DroppedIsAborted'
  <1> USE ChatSpeculationAssumption
  <1>1. ASSUME NEW s \in Specs, NEW k \in Keys, Speculate(s, k) PROVE DroppedIsAborted'
    BY <1>1, SpeculateIs, Pointers DEF Started, DroppedIsAborted
  <1>2. ASSUME NEW p \in Prewarms, NEW k \in Keys, Prewarm(p, k) PROVE DroppedIsAborted'
    BY <1>2, PrewarmIs, Pointers DEF Started, DroppedIsAborted
  <1>3. ASSUME NEW p \in Prewarms, PrewarmQueues(p) PROVE DroppedIsAborted'
    BY <1>3 DEF PrewarmQueues, specVars, chatVars, SlotTypeOK, Started, DroppedIsAborted
  <1>4. ASSUME NEW r \in Sends, NEW k \in Keys, RecordSend(r, k) PROVE DroppedIsAborted'
    <2>1. /\ send'[r].at = "take" /\ send'[r].from = send[r].from
          /\ \A q \in Sends : q # r =>
                send'[q].at = send[q].at /\ send'[q].key = send[q].key /\ send'[q].from = send[q].from
          /\ UNCHANGED <<slot, spec, gen, streamLock>>
      BY <1>4, RecordSendIs
    <2> QED
      BY <2>1 DEF DroppedIsAborted
  <1>5. ASSUME NEW r \in Sends, ReplayClientGone(r) PROVE DroppedIsAborted'
    BY <1>5, ReplayClientGoneIs, Pointers DEF Started, DroppedIsAborted
  <1>6. ASSUME SendAges PROVE DroppedIsAborted'
    BY <1>6 DEF SendAges, specVars, chatVars, SlotTypeOK, Started, DroppedIsAborted
  <1>7. ASSUME NEW r \in Sends, TakeMatchingSpeculation(r) PROVE DroppedIsAborted'
    <2>1. ASSUME NEW s \in Specs, gen'[s] \notin {"unborn", "gone"}, ~ spec'[s].abort
          PROVE  \E q \in Sends : send'[q].from = s
      <3>1. gen[s] \notin {"unborn", "gone"} /\ ~ spec[s].abort /\ spec[s].outcome = "none"
        BY <1>7, <2>1, TakeIs DEF Started
      <3>2. CASE s = slot
        BY <1>7, <2>1, <3>1, <3>2, TakeIs
      <3>3. CASE s # slot
        <4>1. PICK q \in Sends : send[q].from = s
          BY <3>1, <3>3 DEF DroppedIsAborted
        <4>2. q # r => send'[q].from = s
          BY <1>7, <4>1, TakeIs
        <4>3. q # r
          BY <1>7, <4>1, TakeIs, Pointers DEF Started
        <4> QED
          BY <4>2, <4>3
      <3> QED
        BY <3>2, <3>3
    <2> QED
      BY <2>1 DEF DroppedIsAborted
  <1>8. ASSUME NEW r \in Sends, DirectBegin(r) PROVE DroppedIsAborted'
    BY <1>8 DEF DirectBegin, SendGoto, specVars, chatVars, SlotTypeOK, Started, DroppedIsAborted
  <1>9. ASSUME NEW r \in Sends, NEW b \in BOOLEAN, DirectEnd(r, b) PROVE DroppedIsAborted'
    <2>1. /\ send' = [send EXCEPT ![r].at = "ended", ![r].ok = b]
          /\ b \in BOOLEAN /\ "ended" \in {"ended", "reply", "done"}
          /\ send[r].at = "streaming"
          /\ EndLlmGeneration(r)
          /\ UNCHANGED specVars
      BY <1>9 DEF DirectEnd
    <2>2. /\ send'[r].at = "ended" /\ send'[r].from = send[r].from
          /\ \A q \in Sends : q # r =>
                send'[q].at = send[q].at /\ send'[q].key = send[q].key /\ send'[q].from = send[q].from
      BY <2>1, SendMovesIs
    <2>3. EndLlmGeneration(r) /\ send[r].at = "streaming" /\ UNCHANGED specVars
      BY <2>1
    <2> QED
      BY <2>2, <2>3 DEF specVars, Started, DroppedIsAborted
  <1>10. ASSUME NEW r \in Sends, DirectNotify(r) PROVE DroppedIsAborted'
    BY <1>10 DEF DirectNotify, SendGoto, specVars, chatVars, SlotTypeOK, Started, DroppedIsAborted
  <1>11. ASSUME NEW r \in Sends, ReplayEnds(r) PROVE DroppedIsAborted'
    <2>1. /\ send' = [send EXCEPT ![r].at = "reply", ![r].ok = spec[send[r].from].outcome = "ok"]
          /\ (spec[send[r].from].outcome = "ok") \in BOOLEAN
          /\ "reply" \in {"ended", "reply", "done"}
      BY <1>11 DEF ReplayEnds
    <2>2. /\ send'[r].at = "reply" /\ send'[r].from = send[r].from
          /\ \A q \in Sends : q # r =>
                send'[q].at = send[q].at /\ send'[q].key = send[q].key /\ send'[q].from = send[q].from
      BY <2>1, SendMovesIs
    <2>3. send[r].at = "replay" /\ UNCHANGED <<specVars, warmVars>>
      BY <1>11 DEF ReplayEnds
    <2> QED
      BY <2>2, <2>3 DEF specVars, Started, DroppedIsAborted
  <1>12. ASSUME NEW r \in Sends, Reply(r) PROVE DroppedIsAborted'
    <2>1. /\ send' = [send EXCEPT ![r].at = "done", ![r].ok = FALSE]
          /\ FALSE \in BOOLEAN /\ "done" \in {"ended", "reply", "done"}
          /\ send[r].at = "reply"
          /\ UNCHANGED <<generating, ending>>
          /\ UNCHANGED specVars
      BY <1>12 DEF Reply, QueueLlmWarm, warmVars
    <2>2. /\ send'[r].at = "done" /\ send'[r].from = send[r].from
          /\ \A q \in Sends : q # r =>
                send'[q].at = send[q].at /\ send'[q].key = send[q].key /\ send'[q].from = send[q].from
      BY <2>1, SendMovesIs
    <2>3. UNCHANGED <<generating, ending>> /\ send[r].at = "reply" /\ UNCHANGED specVars
      BY <2>1
    <2> QED
      BY <2>2, <2>3 DEF specVars, Started, DroppedIsAborted
  <1>13. ASSUME NEW s \in Specs, GrabStream(s) PROVE DroppedIsAborted'
    BY <1>13 DEF GrabStream, specVars, chatVars, SlotTypeOK, Started, DroppedIsAborted
  <1>14. ASSUME NEW s \in Specs, Superseded(s) PROVE DroppedIsAborted'
    BY <1>14 DEF Superseded, specVars, chatVars, SlotTypeOK, Started, DroppedIsAborted
  <1>15. ASSUME NEW s \in Specs, StreamBegins(s) PROVE DroppedIsAborted'
    BY <1>15 DEF StreamBegins, specVars, chatVars, SlotTypeOK, Started, DroppedIsAborted
  <1>16. ASSUME NEW s \in Specs, StreamEnds(s) PROVE DroppedIsAborted'
    BY <1>16 DEF StreamEnds, specVars, chatVars, SlotTypeOK, Started, DroppedIsAborted
  <1>17. ASSUME NEW s \in Specs, ReleaseStream(s) PROVE DroppedIsAborted'
    BY <1>17 DEF ReleaseStream, specVars, chatVars, SlotTypeOK, Started, DroppedIsAborted
  <1>18. ASSUME NEW s \in Specs, NEW b \in BOOLEAN, Publish(s, b) PROVE DroppedIsAborted'
    BY <1>18 DEF Publish, specVars, chatVars, SlotTypeOK, Started, DroppedIsAborted
  <1>19. ASSUME Warming PROVE DroppedIsAborted'
    BY <1>19 DEF Warming, specVars, chatVars, SlotTypeOK, Started, DroppedIsAborted
  <1>21. ASSUME NEW r \in Sends, HeadersFail(r) PROVE DroppedIsAborted'
    <2>1. /\ send[r].at \in {"replay", "direct"}
          /\ send' \in [Sends -> Sending]
          /\ send'[r].at = "done" /\ send'[r].from = send[r].from
          /\ \A q \in Sends : q # r =>
                send'[q].at = send[q].at /\ send'[q].key = send[q].key /\ send'[q].from = send[q].from
          /\ UNCHANGED <<specVars, prewarm, warmVars>>
      BY <1>21, HeadersFailIs
    <2> QED
      BY <2>1 DEF specVars, Started, DroppedIsAborted
  <1>20. CASE UNCHANGED allVars
    BY <1>20 DEF allVars, chatVars, warmVars, SlotTypeOK, Started, DroppedIsAborted
  <1> QED
    BY <1>1, <1>2, <1>3, <1>4, <1>5, <1>6, <1>7, <1>8, <1>9, <1>10, <1>11, <1>12, <1>13,
       <1>14, <1>15, <1>16, <1>17, <1>18, <1>19, <1>20, <1>21 DEF ChatNext, Clients, SendThread,
       SpecWorker

\* The server starts with the invariant.
LEMMA ChatInitInv ==
    ASSUME ChatInit
    PROVE  ChatInv
  <1>1. WarmInv
    BY WarmInitInv DEF ChatInit
  <1>2. SlotTypeOK
    <2>1. [key |-> NoKey, abort |-> FALSE, outcome |-> "none"] \in Speculation
      BY DEF Speculation
    <2>2. [at |-> "new", key |-> NoKey, from |-> NoSpec, ok |-> FALSE] \in Sending
      BY DEF Sending
    <2> QED
      BY <2>1, <2>2 DEF ChatInit, SlotTypeOK
  <1>3. Started /\ OneOwner /\ ReplayUndisturbed /\ ReplayWillEnd
    BY ChatSpeculationAssumption DEF ChatInit, Started, OneOwner, ReplayUndisturbed,
       ReplayWillEnd
  <1>4. StreamsCounted /\ DroppedIsAborted
    BY DEF ChatInit, WarmInit, StreamsCounted, DroppedIsAborted
  <1> QED
    BY <1>1, <1>2, <1>3, <1>4 DEF ChatInv

\* Every step keeps it.
LEMMA ChatNextInv ==
    ASSUME ChatInv, [ChatNext]_allVars
    PROVE  ChatInv'
  <1>1. WarmInv'
    BY WarmStep, WarmNextInv DEF ChatInv
  <1>2. SlotTypeOK' /\ Started' /\ OneOwner'
    BY SlotTypeKept, StartedKept, OwnerKept DEF ChatInv
  <1>3. ReplayUndisturbed' /\ ReplayWillEnd'
    BY ReplayKept, EndKept DEF ChatInv
  <1>4. StreamsCounted' /\ DroppedIsAborted'
    BY CountKept, DroppedKept DEF ChatInv
  <1> QED
    BY <1>1, <1>2, <1>3, <1>4 DEF ChatInv

\* ChatInv is an invariant of the speculative replies.
THEOREM ChatInvariant == ChatSpec => []ChatInv
  <1>1. ChatInit => ChatInv
    BY ChatInitInv
  <1>2. ChatInv /\ [ChatNext]_allVars => ChatInv'
    BY ChatNextInv
  <1> QED
    BY <1>1, <1>2, PTL DEF ChatSpec

\* Types are correct.
THEOREM ChatTypes == ChatSpec => []ChatTypeOK
  <1>1. ChatInv => ChatTypeOK
    BY DEF ChatInv, WarmInv, SlotTypeOK, ChatTypeOK, Speculation, Sending
  <1> QED
    BY <1>1, ChatInvariant, PTL

\* Whatever drafts, sends and prewarms race for chat_speculation_, a speculation is in the slot
\* or with one send, and the one in the slot is not aborted.
THEOREM SpeculationHasOneOwner == ChatSpec => []OneOwner
  <1>1. ChatInv => OneOwner
    BY DEF ChatInv
  <1> QED
    BY <1>1, ChatInvariant, PTL

\* No later draft, prewarm or send aborts a speculation that a send replays, and its
\* conversation is the one that was sent.
THEOREM ReplayIsUndisturbed == ChatSpec => []ReplayUndisturbed
  <1>1. ChatInv => ReplayUndisturbed
    BY DEF ChatInv
  <1> QED
    BY <1>1, ChatInvariant, PTL

\* The worker that a replay follows has reported its end or is still to do so, and the stream
\* lock is with the one worker that streams.
THEOREM ReplayHasAnEnd == ChatSpec => []ReplayWillEnd
  <1>1. ChatInv => ReplayWillEnd
    BY DEF ChatInv
  <1> QED
    BY <1>1, ChatInvariant, PTL

\* llm_generations_active_ counts the speculative and the direct streams that are open: every
\* path out of a stream ends what it began, once.
THEOREM StreamsAreCounted == ChatSpec => [](StreamsCounted /\ CountIsExact)
  <1>1. ChatInv => StreamsCounted /\ CountIsExact
    BY DEF ChatInv, WarmInv
  <1> QED
    BY <1>1, ChatInvariant, PTL

\* Whichever of a draft, a prewarm and a send takes a speculation out of the slot, its worker
\* was told to stop, is over, or is the one that the send attached to.
THEOREM DroppedSpeculationStops == ChatSpec => []DroppedIsAborted
  <1>1. ChatInv => DroppedIsAborted
    BY DEF ChatInv
  <1> QED
    BY <1>1, ChatInvariant, PTL

\* The chat moves the warm queue's variables by its actions only, so what is proved of the
\* queue can be used here.
LEMMA ChatKeepsWarmQueue == ChatSpec => WarmSafetySpec
  <1>1. ChatInit => WarmInit
    BY DEF ChatInit
  <1>2. [ChatNext]_allVars => [WarmNext]_warmVars
    BY WarmStep
  <1> QED
    BY <1>1, <1>2, PTL DEF ChatSpec, WarmSafetySpec

\* With drafts, sends and prewarms at work a warm body is still dispatched only while no stream
\* is open, and it is the body queued last.
THEOREM ChatDispatchGated == ChatSpec => DispatchOnlyBetweenGenerations /\ NewestIsDispatched
  BY ChatKeepsWarmQueue, DispatchGated, NewestDispatched

=============================================================================
