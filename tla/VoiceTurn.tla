----------------------------- MODULE VoiceTurn -----------------------------
(***************************************************************************)
(* The live voice turn: VoiceLiveRunner in voice.cpp.  The audio loop      *)
(* follows the VAD, freezes an utterance when it reports silence, holds it *)
(* open in case speech resumes, and commits it; a decode worker            *)
(* re-transcribes the growing utterance, and a decode that saw a quiet     *)
(* tail is kept as the candidate for the final transcript.                 *)
(*                                                                         *)
(* Data.  Audio is counted in blocks; of an utterance the model keeps its  *)
(* length and the position of the last block with speech in it.  A         *)
(* transcript is the audio it was decoded from.  How long the hold lasts   *)
(* (it depends on the hypothesis' wording) and whether an utterance was    *)
(* loud enough are left open.                                              *)
(***************************************************************************)
EXTENDS Naturals, FiniteSets

CONSTANTS
    MaxUtterances,  \* bound on the utterances of a stream
    MaxBlocks,      \* bound on the blocks of an utterance, its gap included
    Slack           \* the 480 ms a candidate may miss, in blocks

ASSUME VoiceTurnAssumption ==
    MaxUtterances \in Nat /\ MaxBlocks \in Nat \ {0} /\ Slack \in Nat

VARIABLES
    open,           \* the audio stream has more to give
    loop,           \* where the audio loop is
    speaking, pending_end,
    utterance_id,
    utterance,      \* blocks recorded and the last one with speech
    gap_buffer,     \* the same of the audio captured during the hold
    candidate,      \* the decode kept for the final, its audio, and whether valid
    pending,        \* the queued decode, a set of at most one
    busy,           \* the decode the worker is running, likewise
    result_in,      \* its result has been handled
    quit,
    worker,         \* the worker thread is alive
    verdict         \* history: what each utterance got in the end

audioVars == <<speaking, pending_end, utterance_id, utterance, gap_buffer>>
jobVars   == <<pending, busy, result_in>>
voiceVars == <<open, loop, audioVars, candidate, jobVars, quit, worker, verdict>>

Utterances == 1 .. MaxUtterances
Audio == [blocks : 0 .. MaxBlocks, spoken : 0 .. MaxBlocks]
Job == [utt : Utterances, kind : {"partial", "candidate", "final"}, audio : Audio]
Verdicts == {"none", "final", "clipped", "discarded", "failed"}

VoiceTypeOK ==
    /\ open \in BOOLEAN
    /\ loop \in {"listen", "ended", "await", "join", "over"}
    /\ speaking \in BOOLEAN /\ pending_end \in BOOLEAN
    /\ utterance_id \in 0 .. MaxUtterances
    /\ utterance \in Audio /\ gap_buffer \in Audio
    /\ candidate \in [valid : BOOLEAN, utt : 0 .. MaxUtterances, audio : Audio]
    /\ pending \subseteq Job /\ Cardinality(pending) <= 1
    /\ busy \subseteq Job /\ Cardinality(busy) <= 1
    /\ result_in \in BOOLEAN /\ quit \in BOOLEAN /\ worker \in BOOLEAN
    /\ verdict \in [Utterances -> Verdicts]

Silence == [blocks |-> 0, spoken |-> 0]

VoiceInit ==
    /\ open = TRUE /\ loop = "listen"
    /\ speaking = FALSE /\ pending_end = FALSE /\ utterance_id = 0
    /\ utterance = Silence /\ gap_buffer = Silence
    /\ candidate = [valid |-> FALSE, utt |-> 0, audio |-> Silence]
    /\ pending = {} /\ busy = {} /\ result_in = FALSE
    /\ quit = FALSE /\ worker = TRUE
    /\ verdict = [u \in Utterances |-> "none"]

Longer(a, speech) ==
    [blocks |-> a.blocks + 1, spoken |-> IF speech THEN a.blocks + 1 ELSE a.spoken]

Joined(a, b) ==
    [blocks |-> a.blocks + b.blocks,
     spoken |-> IF b.spoken > 0 THEN a.blocks + b.spoken ELSE a.spoken]

Forgotten == [candidate EXCEPT !.valid = FALSE]

\* "covered all but the trailing silence": valid, and at most Slack blocks short.
Covers(a) == candidate.valid /\ candidate.audio.blocks + Slack >= a.blocks

\* The transcript of audio a of utterance u, given as the final of the current
\* one, says all of it or not.
Final(u, a) == IF u = utterance_id /\ a.spoken = utterance.spoken THEN "final" ELSE "clipped"

JobFor(kind) == [utt |-> utterance_id, kind |-> kind, audio |-> utterance]

----------------------------------------------------------------------------
\* The audio loop: a block arrives, then the VAD's verdict on it.

Listening == loop = "listen" /\ open

\* The block goes to the utterance, or to the gap while the turn is held open;
\* idle blocks only fill the preroll.
HearSpeaking(speech) ==
    /\ Listening /\ speaking
    /\ utterance.blocks + gap_buffer.blocks < MaxBlocks
    /\ IF pending_end
       THEN gap_buffer' = Longer(gap_buffer, speech) /\ UNCHANGED utterance
       ELSE utterance' = Longer(utterance, speech) /\ UNCHANGED gap_buffer
    /\ UNCHANGED <<open, loop, speaking, pending_end, utterance_id, candidate, jobVars, quit,
                   worker, verdict>>

\* Slip: speech during the hold opens a new utterance.
BeginUtteranceAnyway ==
    /\ Listening /\ (~ speaking \/ pending_end)
    /\ utterance_id < MaxUtterances
    /\ speaking' = TRUE /\ pending_end' = FALSE
    /\ utterance_id' = utterance_id + 1
    /\ utterance' = Longer(Silence, TRUE)
    /\ gap_buffer' = Silence
    /\ candidate' = Forgotten
    /\ UNCHANGED <<open, loop, jobVars, quit, worker, verdict>>

\* begin_utterance(): the preroll holds the block in which speech was detected.
BeginUtterance ==
    /\ Listening /\ ~ speaking
    /\ utterance_id < MaxUtterances
    /\ speaking' = TRUE /\ pending_end' = FALSE
    /\ utterance_id' = utterance_id + 1
    /\ utterance' = Longer(Silence, TRUE)
    /\ gap_buffer' = Silence
    /\ candidate' = Forgotten
    /\ UNCHANGED <<open, loop, jobVars, quit, worker, verdict>>

\* begin_pending_end(): freeze the utterance; unless a candidate covers it, a
\* speculative final replaces whatever is queued.
BeginPendingEnd ==
    /\ Listening /\ speaking /\ ~ pending_end
    /\ pending_end' = TRUE
    /\ gap_buffer' = Silence
    /\ pending' = IF Covers(utterance) THEN pending ELSE {JobFor("candidate")}
    /\ UNCHANGED <<open, loop, speaking, utterance_id, utterance, candidate, busy, result_in,
                   quit, worker, verdict>>

\* resume_from_pending(): the turn continues, the gap included.
ResumeFromPending ==
    /\ Listening /\ speaking /\ pending_end
    /\ pending_end' = FALSE
    /\ utterance' = Joined(utterance, gap_buffer)
    /\ gap_buffer' = Silence
    /\ candidate' = Forgotten
    /\ UNCHANGED <<open, loop, speaking, utterance_id, jobVars, quit, worker, verdict>>

\* Slip: a partial is queued behind the one in flight.
EnqueuePartialAlways ==
    /\ Listening /\ speaking /\ ~ pending_end
    /\ pending' = pending \cup {JobFor("partial")}
    /\ UNCHANGED <<open, loop, audioVars, candidate, busy, result_in, quit, worker, verdict>>

\* enqueue_decode(false): best effort, never behind another decode.
EnqueuePartial ==
    /\ Listening /\ speaking /\ ~ pending_end
    /\ busy = {} /\ pending = {}
    /\ pending' = {JobFor("partial")}
    /\ UNCHANGED <<open, loop, audioVars, candidate, busy, result_in, quit, worker, verdict>>

----------------------------------------------------------------------------
\* commit_utterance(): after the hold, at the utterance cap, or (end_utterance)
\* when the stream ends in the middle of a turn.

\* An utterance below the noise gate is dropped without waiting for the worker.
Discard ==
    /\ loop = "listen" /\ speaking
    /\ speaking' = FALSE /\ pending_end' = FALSE /\ gap_buffer' = Silence
    /\ utterance' = Silence
    /\ candidate' = Forgotten
    /\ verdict' = [verdict EXCEPT ![utterance_id] = "discarded"]
    /\ UNCHANGED <<open, loop, utterance_id, jobVars, quit, worker>>

\* speech_ended; the rest of the commit waits for the worker.
Commit ==
    /\ loop = "listen" /\ speaking
    /\ speaking' = FALSE /\ pending_end' = FALSE /\ gap_buffer' = Silence
    /\ loop' = "ended"
    /\ UNCHANGED <<open, utterance_id, utterance, candidate, jobVars, quit, worker, verdict>>

Idle == busy = {} /\ pending = {}

\* Slip: the candidate is served while a decode of the turn is still out.
ServeCandidateAtOnce ==
    /\ loop = "ended" /\ Covers(utterance)
    /\ verdict' = [verdict EXCEPT ![utterance_id] = Final(candidate.utt, candidate.audio)]
    /\ candidate' = Forgotten
    /\ utterance' = Silence
    /\ loop' = "listen"
    /\ UNCHANGED <<open, speaking, pending_end, utterance_id, gap_buffer, jobVars, quit,
                   worker>>

\* The worker is idle and a candidate covers the utterance: it is the final.
ServeCandidate ==
    /\ loop = "ended" /\ Idle /\ Covers(utterance)
    /\ verdict' = [verdict EXCEPT ![utterance_id] = Final(candidate.utt, candidate.audio)]
    /\ candidate' = Forgotten
    /\ utterance' = Silence
    /\ loop' = "listen"
    /\ UNCHANGED <<open, speaking, pending_end, utterance_id, gap_buffer, jobVars, quit,
                   worker>>

\* Otherwise a final decode is queued ...
EnqueueFinal ==
    /\ loop = "ended" /\ Idle /\ ~ Covers(utterance)
    /\ pending' = {JobFor("final")}
    /\ loop' = "await"
    /\ UNCHANGED <<open, audioVars, candidate, busy, result_in, quit, worker, verdict>>

\* Slip: the loop goes on while the decode runs.
AwaitNothing ==
    /\ loop = "await"
    /\ utterance' = Silence
    /\ loop' = "listen"
    /\ UNCHANGED <<open, speaking, pending_end, utterance_id, gap_buffer, candidate, jobVars,
                   quit, worker, verdict>>

\* ... and waited for.
AwaitFinal ==
    /\ loop = "await" /\ Idle
    /\ utterance' = Silence
    /\ loop' = "listen"
    /\ UNCHANGED <<open, speaking, pending_end, utterance_id, gap_buffer, candidate, jobVars,
                   quit, worker, verdict>>

----------------------------------------------------------------------------
\* The end of run(): the stream ends, an open turn is committed, the worker is
\* told to quit and joined.  A read or VAD error goes there directly.
StreamOver ==
    /\ Listening
    /\ open' = FALSE
    /\ UNCHANGED <<loop, audioVars, candidate, jobVars, quit, worker, verdict>>

Quit ==
    /\ loop = "listen"
    /\ open \/ ~ speaking
    /\ open' = FALSE
    /\ quit' = TRUE
    /\ loop' = "join"
    /\ UNCHANGED <<audioVars, candidate, jobVars, worker, verdict>>

JoinWorker ==
    /\ loop = "join" /\ ~ worker
    /\ loop' = "over"
    /\ UNCHANGED <<open, audioVars, candidate, jobVars, quit, worker, verdict>>

----------------------------------------------------------------------------
\* worker_loop()
TakeJob ==
    /\ worker /\ busy = {} /\ pending # {}
    /\ busy' = pending
    /\ pending' = {}
    /\ UNCHANGED <<open, loop, audioVars, candidate, result_in, quit, worker, verdict>>

\* handle_result(): a final is emitted; any other decode whose audio ends quietly
\* becomes the candidate, whichever utterance is being recorded by now.
HandleResult(job, nonempty) ==
    /\ busy = {job} /\ ~ result_in
    /\ result_in' = TRUE
    /\ verdict' = IF job.kind # "final" THEN verdict
                  ELSE [verdict EXCEPT ![job.utt] = Final(job.utt, job.audio)]
    /\ candidate' =
         IF /\ job.kind # "final" /\ nonempty
            /\ job.kind = "candidate" \/ job.audio.spoken < job.audio.blocks
         THEN [valid |-> TRUE, utt |-> job.utt, audio |-> job.audio]
         ELSE candidate
    /\ UNCHANGED <<open, loop, audioVars, pending, busy, quit, worker>>

\* Slip: the handler is around the worker's loop, not in it.
TranscribeThrowsOut(job) ==
    /\ busy = {job} /\ ~ result_in
    /\ worker' = FALSE
    /\ verdict' = IF job.kind # "final" THEN verdict
                  ELSE [verdict EXCEPT ![job.utt] = "failed"]
    /\ UNCHANGED <<open, loop, audioVars, candidate, jobVars, quit>>

\* transcribe() threw: an error event, and no result.
TranscribeThrows(job) ==
    /\ busy = {job} /\ ~ result_in
    /\ result_in' = TRUE
    /\ verdict' = IF job.kind # "final" THEN verdict
                  ELSE [verdict EXCEPT ![job.utt] = "failed"]
    /\ UNCHANGED <<open, loop, audioVars, candidate, pending, busy, quit, worker>>

WorkerIdle ==
    /\ busy # {} /\ result_in
    /\ busy' = {} /\ result_in' = FALSE
    /\ UNCHANGED <<open, loop, audioVars, candidate, pending, quit, worker, verdict>>

WorkerQuits ==
    /\ worker /\ quit /\ busy = {} /\ pending = {}
    /\ worker' = FALSE
    /\ UNCHANGED <<open, loop, audioVars, candidate, jobVars, quit, verdict>>

----------------------------------------------------------------------------
AudioLoop ==
    \/ \E speech \in BOOLEAN : HearSpeaking(speech)
    \/ BeginUtterance \/ BeginPendingEnd \/ ResumeFromPending \/ EnqueuePartial
    \/ Discard \/ Commit \/ ServeCandidate \/ EnqueueFinal \/ AwaitFinal
    \/ StreamOver \/ Quit \/ JoinWorker

DecodeWorker ==
    \/ TakeJob \/ WorkerIdle \/ WorkerQuits
    \/ \E job \in busy : \/ \E nonempty \in BOOLEAN : HandleResult(job, nonempty)
                         \/ TranscribeThrows(job)

VoiceNext == AudioLoop \/ DecodeWorker

\* Fairness: a decode returns and the worker goes on; the loop never stays in a
\* commit or at the end of the stream when it could go on.  That the microphone
\* gives another block, or that the VAD speaks up, is not assumed.
VoiceFairness ==
    /\ WF_voiceVars(DecodeWorker)
    /\ WF_voiceVars(ServeCandidate \/ EnqueueFinal \/ AwaitFinal)
    /\ WF_voiceVars(~ open /\ (Discard \/ Commit \/ Quit \/ JoinWorker))

VoiceSafetySpec == VoiceInit /\ [][VoiceNext]_voiceVars
VoiceSpec == VoiceSafetySpec /\ VoiceFairness

----------------------------------------------------------------------------
(* A decode made to be the final has the whole utterance, and the loop does  *)
(* not move on to another one under it: whatever partials and speculative    *)
(* finals were queued or running when the turn was committed.                *)
FinalJobIsTheUtterance ==
    \A job \in pending \cup busy : job.kind = "final" =>
        /\ loop = "await"
        /\ job.utt = utterance_id
        /\ job.audio = utterance

(* Nothing about a turn follows its final transcript: no decode of it is     *)
(* left, so no partial, stable or endpoint event can come late.              *)
NothingAfterFinal ==
    \A job \in pending \cup busy : job.kind # "final" =>
        verdict[job.utt] \notin {"final", "clipped", "failed"}

(* Every turn is answered before the next begins: by a final transcript, a   *)
(* discard, or the error that its decode ended with.                         *)
EveryTurnAnswered ==
    \A u \in Utterances : u < utterance_id => verdict[u] # "none"

(* The loop and the worker never wait for each other for good: a committed   *)
(* turn is answered and the loop goes back to listening, and a stream that   *)
(* is over ends with the worker joined.                                      *)
CommitReturns ==
    /\ loop \in {"ended", "await"} ~> loop = "listen"
    /\ ~ open ~> loop = "over"

(* "A quiet-tail partial that covered all but the trailing silence is as     *)
(* final as a dedicated decode": no final transcript leaves out speech of    *)
(* its turn, or is of another one.                                           *)
FinalCoversAllSpeech == \A u \in Utterances : verdict[u] # "clipped"

=============================================================================
