--------------------------- MODULE ChatSpeculation ---------------------------
(***************************************************************************)
(* Speculative replies (runtime.cpp): the single chat_speculation_ slot,   *)
(* the detached workers that fill a speculation, the requests of           *)
(* /v1/chat/speak that start one (speculate), discard one (prewarm) or     *)
(* attach to one (send).                                                   *)
(*                                                                         *)
(* The module extends the warm queue: prewarms and finished replies queue  *)
(* warm bodies, and every stream from the sidecar is a generation that     *)
(* holds the queue back.                                                   *)
(*                                                                         *)
(* Data.  A conversation is its speculation_key; a reply is how its stream *)
(* ended.  What the reply says and who voices it is ChatStream's subject.  *)
(***************************************************************************)
EXTENDS LlmWarm

CONSTANTS
    Keys,           \* conversations, as speculation_key() tells them apart
    Specs,          \* ChatSpeculation objects: one per speculate request
    Sends,          \* real sends
    Prewarms,       \* prewarm requests in flight
    NoKey, NoSpec,
    DraftBody,      \* what a prewarm queues
    ReplyBody       \* what a finished reply queues (canonical next turn)

ASSUME ChatSpeculationAssumption ==
    /\ Generators = Specs \cup Sends
    /\ Specs \cap Sends = {}
    /\ {DraftBody, ReplyBody} \subseteq Bodies
    /\ NoKey \notin Keys
    /\ NoSpec \notin Specs \cup Sends

VARIABLES
    slot,           \* chat_speculation_
    lastKey,        \* llm_last_send_key_
    lastRecent,     \* llm_last_send_at_ is less than 30 s ago
    spec,           \* per speculation: key, abort, llm_done with ok
    gen,            \* where its detached worker is
    streamLock,     \* llm_spec_stream_mutex_
    send,           \* per send: where it is, its key, its speculation, its result
    prewarm         \* per prewarm: idle, or about to queue

specVars == <<slot, lastKey, lastRecent, spec, gen, streamLock>>
chatVars == <<slot, lastKey, lastRecent, spec, gen, streamLock, send, prewarm>>
allVars  == <<chatVars, warmVars>>

ChatTypeOK ==
    /\ WarmTypeOK
    /\ slot \in Specs \cup {NoSpec}
    /\ lastKey \in Keys \cup {NoKey}
    /\ lastRecent \in BOOLEAN
    /\ spec \in [Specs -> [key : Keys \cup {NoKey}, abort : BOOLEAN,
                           outcome : {"none", "ok", "failed"}]]
    /\ gen \in [Specs -> {"unborn", "queued", "holding", "streaming", "ended",
                          "publish", "gone"}]
    /\ streamLock \in Specs \cup {NoSpec}
    /\ send \in [Sends -> [at : {"new", "take", "direct", "streaming", "ended",
                                 "replay", "reply", "done"},
                           key : Keys \cup {NoKey}, from : Specs \cup {NoSpec},
                           ok : BOOLEAN]]
    /\ prewarm \in [Prewarms -> {"idle", "queue"}]

ChatInit ==
    /\ WarmInit
    /\ slot = NoSpec
    /\ lastKey = NoKey
    /\ lastRecent = FALSE
    /\ spec = [s \in Specs |-> [key |-> NoKey, abort |-> FALSE,
                                outcome |-> "none"]]
    /\ gen = [s \in Specs |-> "unborn"]
    /\ streamLock = NoSpec
    /\ send = [r \in Sends |-> [at |-> "new", key |-> NoKey, from |-> NoSpec,
                                ok |-> FALSE]]
    /\ prewarm = [p \in Prewarms |-> "idle"]

\* spec with the abort flag of s set; NoSpec stands for a null slot.
Aborting(s) == [x \in Specs |-> IF x = s THEN [spec[x] EXCEPT !.abort = TRUE] ELSE spec[x]]

\* Requests and their objects are taken in a fixed order: their identities mean
\* nothing.
FreshSpec == CHOOSE s \in Specs \cup {NoSpec} :
                 IF \E x \in Specs : gen[x] = "unborn"
                 THEN s \in Specs /\ gen[s] = "unborn" ELSE s = NoSpec
FreshSend == CHOOSE r \in Sends \cup {NoSpec} :
                 IF \E x \in Sends : send[x].at = "new"
                 THEN r \in Sends /\ send[r].at = "new" ELSE r = NoSpec

SendGoto(r, from, to) ==
    /\ send[r].at = from
    /\ send' = [send EXCEPT ![r].at = to]

----------------------------------------------------------------------------
\* start_chat_speculation(), its critical section: drop a speculate that lost
\* the race with its own send, keep one for the same draft, else supersede.
Dropped(k) ==
    \/ k = lastKey /\ lastRecent
    \/ slot # NoSpec /\ spec[slot].key = k

Speculate(s, k) ==
    /\ s = FreshSpec
    /\ ~ Dropped(k)
    /\ spec' = [Aborting(slot) EXCEPT ![s].key = k]
    /\ slot' = s
    /\ gen' = [gen EXCEPT ![s] = "queued"]
    /\ UNCHANGED <<lastKey, lastRecent, streamLock, send, prewarm, warmVars>>

\* Thirty seconds pass since the last send.
SendAges ==
    /\ lastRecent
    /\ lastRecent' = FALSE
    /\ UNCHANGED <<slot, lastKey, spec, gen, streamLock, send, prewarm, warmVars>>

\* Slip: the slot is cleared and the worker left to finish.
PrewarmDropsSilently(p, k) ==
    /\ prewarm[p] = "idle"
    /\ slot' = IF slot # NoSpec /\ spec[slot].key # k THEN NoSpec ELSE slot
    /\ prewarm' = [prewarm EXCEPT ![p] = "queue"]
    /\ UNCHANGED <<spec, lastKey, lastRecent, gen, streamLock, send, warmVars>>

\* A prewarm kills the speculation of another draft, then (in another critical
\* section, of another mutex) queues its own prefill.
Prewarm(p, k) ==
    /\ prewarm[p] = "idle"
    /\ IF slot # NoSpec /\ spec[slot].key # k
       THEN spec' = Aborting(slot) /\ slot' = NoSpec
       ELSE UNCHANGED <<spec, slot>>
    /\ prewarm' = [prewarm EXCEPT ![p] = "queue"]
    /\ UNCHANGED <<lastKey, lastRecent, gen, streamLock, send, warmVars>>

PrewarmQueues(p) ==
    /\ prewarm[p] = "queue"
    /\ QueueLlmWarm(DraftBody)
    /\ prewarm' = [prewarm EXCEPT ![p] = "idle"]
    /\ UNCHANGED <<specVars, send>>

----------------------------------------------------------------------------
\* A send records its key, and only then takes the slot.
RecordSend(r, k) ==
    /\ r = FreshSend
    /\ send' = [send EXCEPT ![r].at = "take", ![r].key = k]
    /\ lastKey' = k
    /\ lastRecent' = TRUE
    /\ UNCHANGED <<slot, spec, gen, streamLock, prewarm, warmVars>>

\* Slip: the key is not compared.
AttachesAnything(s, k) ==
    /\ s # NoSpec
    /\ ~ spec[s].abort
    /\ spec[s].outcome # "failed"

\* The conditions under which take_matching_speculation() returns the slot.
Attaches(s, k) ==
    /\ s # NoSpec
    /\ spec[s].key = k
    /\ ~ spec[s].abort
    /\ spec[s].outcome # "failed"

\* Slip: the slot keeps the speculation it handed over.
TakeKeepsSlot(r) ==
    /\ send[r].at = "take"
    /\ \/ /\ slot # NoSpec /\ Attaches(slot, send[r].key)
          /\ send' = [send EXCEPT ![r].at = "replay", ![r].from = slot]
          /\ UNCHANGED spec
       \/ /\ ~ Attaches(slot, send[r].key)
          /\ send' = [send EXCEPT ![r].at = "direct"]
          /\ spec' = IF slot # NoSpec /\ spec[slot].key # send[r].key
                     THEN Aborting(slot) ELSE spec
    /\ UNCHANGED <<slot, lastKey, lastRecent, gen, streamLock, prewarm, warmVars>>

\* take_matching_speculation(): the slot is emptied whatever it held; another
\* draft's speculation is aborted, a failed one is dropped.
TakeMatchingSpeculation(r) ==
    /\ send[r].at = "take"
    /\ \/ /\ slot # NoSpec /\ Attaches(slot, send[r].key)
          /\ send' = [send EXCEPT ![r].at = "replay", ![r].from = slot]
          /\ UNCHANGED spec
       \/ /\ ~ Attaches(slot, send[r].key)
          /\ send' = [send EXCEPT ![r].at = "direct"]
          /\ spec' = IF slot # NoSpec /\ spec[slot].key # send[r].key
                     THEN Aborting(slot) ELSE spec
    /\ slot' = NoSpec
    /\ UNCHANGED <<lastKey, lastRecent, gen, streamLock, prewarm, warmVars>>

\* chat_orchestrate() without a speculation: a generation of its own, which
\* ends by itself, by an error or because the client left.
DirectBegin(r) ==
    /\ SendGoto(r, "direct", "streaming")
    /\ BeginLlmGeneration(r)
    /\ UNCHANGED <<specVars, prewarm>>

DirectEnd(r, ok) ==
    /\ send[r].at = "streaming"
    /\ send' = [send EXCEPT ![r].at = "ended", ![r].ok = ok]
    /\ EndLlmGeneration(r)
    /\ UNCHANGED <<specVars, prewarm>>

DirectNotify(r) ==
    /\ SendGoto(r, "ended", "reply")
    /\ NotifyEnded(r)
    /\ UNCHANGED <<specVars, prewarm>>

\* With one, the replay follows the buffer until the worker reports the end of
\* the stream ...
ReplayEnds(r) ==
    LET s == send[r].from IN
    /\ send[r].at = "replay"
    /\ spec[s].outcome # "none"
    /\ send' = [send EXCEPT ![r].at = "reply", ![r].ok = spec[s].outcome = "ok"]
    /\ UNCHANGED <<specVars, prewarm, warmVars>>

\* ... or until its own client leaves, which releases the worker too.
ReplayClientGone(r) ==
    /\ send[r].at = "replay"
    /\ spec' = Aborting(send[r].from)
    /\ send' = [send EXCEPT ![r].at = "done"]
    /\ UNCHANGED <<slot, lastKey, lastRecent, gen, streamLock, prewarm, warmVars>>

\* The response headers are sent between handle() and chat_orchestrate(): when
\* that throws, the request ends there and what it attached to hears nothing.
HeadersFail(r) ==
    /\ send[r].at \in {"replay", "direct"}
    /\ send' = [send EXCEPT ![r].at = "done"]
    /\ UNCHANGED <<specVars, prewarm, warmVars>>

\* LlmDone reaches the writer: a good reply queues the canonical re-prime.
Reply(r) ==
    /\ send[r].at = "reply"
    /\ send' = [send EXCEPT ![r].at = "done", ![r].ok = FALSE]
    /\ IF send[r].ok THEN QueueLlmWarm(ReplyBody) ELSE UNCHANGED warmVars
    /\ UNCHANGED <<specVars, prewarm>>

----------------------------------------------------------------------------
\* The detached worker of a speculation.  It waits for the one speculative
\* stream; superseded while it waited, it never reaches the sidecar.
GrabStream(s) ==
    /\ gen[s] = "queued"
    /\ streamLock = NoSpec
    /\ streamLock' = s
    /\ gen' = [gen EXCEPT ![s] = "holding"]
    /\ UNCHANGED <<slot, lastKey, lastRecent, spec, send, prewarm, warmVars>>

\* Slip: the early return is taken before the lock is an RAII object.
SupersededKeepsLock(s) ==
    /\ gen[s] = "holding"
    /\ spec[s].abort
    /\ gen' = [gen EXCEPT ![s] = "gone"]
    /\ UNCHANGED <<slot, lastKey, lastRecent, spec, streamLock, send, prewarm, warmVars>>

Superseded(s) ==
    /\ gen[s] = "holding"
    /\ spec[s].abort
    /\ streamLock' = NoSpec
    /\ gen' = [gen EXCEPT ![s] = "gone"]
    /\ UNCHANGED <<slot, lastKey, lastRecent, spec, send, prewarm, warmVars>>

StreamBegins(s) ==
    /\ gen[s] = "holding"
    /\ ~ spec[s].abort
    /\ BeginLlmGeneration(s)
    /\ gen' = [gen EXCEPT ![s] = "streaming"]
    /\ UNCHANGED <<slot, lastKey, lastRecent, spec, streamLock, send, prewarm>>

\* stream_chat() returns: at the end, on an error, or at the first delta after
\* an abort; an aborted stream may still end before another delta arrives.
StreamEnds(s) ==
    /\ gen[s] = "streaming"
    /\ EndLlmGeneration(s)
    /\ gen' = [gen EXCEPT ![s] = "ended"]
    /\ UNCHANGED <<slot, lastKey, lastRecent, spec, streamLock, send, prewarm>>

\* The rest of end_llm_generation(), and stream_lock.unlock().
ReleaseStream(s) ==
    /\ gen[s] = "ended"
    /\ NotifyEnded(s)
    /\ streamLock' = NoSpec
    /\ gen' = [gen EXCEPT ![s] = "publish"]
    /\ UNCHANGED <<slot, lastKey, lastRecent, spec, send, prewarm>>

\* The outcome is published to whoever is attached or attaches later.
Publish(s, ok) ==
    /\ gen[s] = "publish"
    /\ spec' = [spec EXCEPT ![s].outcome = IF ok THEN "ok" ELSE "failed"]
    /\ gen' = [gen EXCEPT ![s] = "gone"]
    /\ UNCHANGED <<slot, lastKey, lastRecent, streamLock, send, prewarm, warmVars>>

----------------------------------------------------------------------------
SpecWorker(s) ==
    \/ GrabStream(s) \/ Superseded(s) \/ StreamBegins(s) \/ StreamEnds(s)
    \/ ReleaseStream(s)
    \/ \E ok \in BOOLEAN : Publish(s, ok)

SendThread(r) ==
    \/ TakeMatchingSpeculation(r) \/ DirectBegin(r)
    \/ \E ok \in BOOLEAN : DirectEnd(r, ok)
    \/ DirectNotify(r) \/ ReplayEnds(r) \/ Reply(r)

Clients ==
    \/ \E s \in Specs, k \in Keys : Speculate(s, k)
    \/ \E p \in Prewarms, k \in Keys : Prewarm(p, k)
    \/ \E p \in Prewarms : PrewarmQueues(p)
    \/ \E r \in Sends, k \in Keys : RecordSend(r, k)
    \/ \E r \in Sends : ReplayClientGone(r) \/ HeadersFail(r)

Warming ==
    /\ \E w \in Workers : WarmWorker(w)
    /\ UNCHANGED chatVars

ChatNext ==
    \/ Clients
    \/ SendAges
    \/ \E r \in Sends : SendThread(r)
    \/ \E s \in Specs : SpecWorker(s)
    \/ Warming

ChatSpec == ChatInit /\ [][ChatNext]_allVars

----------------------------------------------------------------------------
(* A speculation has one owner: the slot never holds an aborted one, nor one *)
(* that a send is replaying, and no two sends replay the same.               *)
OneOwner ==
    /\ slot # NoSpec => ~ spec[slot].abort
    /\ \A r \in Sends : send[r].from # NoSpec => send[r].from # slot
    /\ \A q, r \in Sends : (q # r /\ send[q].from # NoSpec) => send[q].from # send[r].from

(* A draft that changes after the send cannot tear down the reply being      *)
(* replayed: an attached speculation is of the sent conversation and is      *)
(* aborted by nobody but its own client.                                     *)
ReplayUndisturbed ==
    \A r \in Sends : send[r].at = "replay" =>
        /\ spec[send[r].from].key = send[r].key
        /\ ~ spec[send[r].from].abort

(* A send that attached gets the end of its reply: the worker it follows has *)
(* not left without reporting one, and only the holder of the one stream     *)
(* lock, which is on its way to release it, can be in front of that worker.  *)
ReplayWillEnd ==
    /\ \A r \in Sends : send[r].at = "replay" =>
          \/ spec[send[r].from].outcome # "none"
          \/ gen[send[r].from] \in {"queued", "holding", "streaming", "ended", "publish"}
    /\ \A s \in Specs : gen[s] \in {"holding", "streaming", "ended"} <=> streamLock = s

(* The worker of a draft that is no longer current does not go on unnoticed,  *)
(* whichever of a speculate, a prewarm and a send took it out of the slot:    *)
(* it was told to stop, or a send attached to it.                            *)
DroppedIsAborted ==
    \A s \in Specs : (gen[s] \notin {"unborn", "gone"} /\ slot # s) =>
        \/ spec[s].abort
        \/ \E r \in Sends : send[r].from = s

(* "A speculate request landing at or after its own send ... must be          *)
(* dropped": none starts for a conversation already sent.                    *)
NoZombieSpeculation ==
    [][\A s \in Specs : (gen[s] = "unborn" /\ gen'[s] # "unborn") =>
          \A r \in Sends : send[r].key # spec'[s].key]_allVars

=============================================================================
