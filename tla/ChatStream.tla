----------------------------- MODULE ChatStream -----------------------------
(***************************************************************************)
(* One spoken reply: chat_orchestrate() in runtime.cpp.  A reader turns    *)
(* the sidecar's deltas into token and sentence events, the writer drains  *)
(* them to the client and voices each sentence.  Without a speculation the *)
(* LLM thread is the reader.  With one attached the speculation's detached *)
(* worker is: it fills a shared buffer, the LLM thread replays that, and   *)
(* up to two threads may already be synthesizing the first sentence        *)
(* (synthesize_first).                                                     *)
(*                                                                         *)
(* Data.  The reply is its length in deltas; a token event carries the     *)
(* position it extends the text to, a sentence the position it ends at and *)
(* whether stripping its markup leaves nothing to say (mute).  Audio is a  *)
(* number of chunks, and of a sentence the writer voices itself, which of  *)
(* its takes reached the client.                                           *)
(***************************************************************************)
EXTENDS Integers, Sequences, SequencesExt

CONSTANTS
    MaxText,        \* bound on the deltas of a reply
    MaxChunks       \* bound on the chunks of the speculative first sentence

ASSUME ChatStreamAssumption == MaxText \in Nat /\ MaxChunks \in Nat

VARIABLES
    attached,       \* a speculation was handed over
    early_tts,      \* ... of a send-shaped draft
    reader,         \* where the thread that runs stream_chat() is
    ended,          \* how stream_chat() returned
    text,           \* deltas emitted so far
    sentences,      \* sentences cut from them
    rest,           \* what the segmenter still held at the end, if anything
    truncated,      \* truncated_tail: rest is a fragment not to be spoken
    specAbort,      \* speculation->abort
    audio,          \* speculation->audio_state
    chunks,         \* size of speculation->first_audio_chunks
    tts,            \* the early and the late caller of synthesize_first
    llm,            \* the LLM thread
    taken,          \* text_pos and sentence_pos of the replay
    queue,          \* the events between the two threads
    abort,          \* chat_orchestrate()'s own abort flag
    writer,         \* where the writer thread is
    speaking,       \* the sentence being voiced, by position
    first,          \* first_sentence_ms < 0: none was announced yet
    chunk_pos,      \* speculative chunks written
    line,           \* the sentence being synthesized by the writer
    heard,          \* history: its takes that reached the client
    reply_text,     \* length of reply_text
    voiced,         \* history: positions of the sentences voiced
    llm_finished,
    reprimed,       \* history: length of the reply queued for re-priming, or -1
    out,            \* the events that closed the stream
    client          \* the client is still connected

bufferVars == <<ended, text, sentences, rest, truncated>>
specVars   == <<specAbort, audio, chunks, tts>>
lineVars   == <<speaking, first, chunk_pos, line, heard, voiced>>
writerVars == <<writer, lineVars, reply_text, llm_finished, reprimed, out>>
vars == <<attached, early_tts, reader, bufferVars, specVars, llm, taken, queue,
          abort, writerVars, client>>

Triggers == {"early", "late"}
Sentence == [upto : 1 .. MaxText, mute : BOOLEAN]

\* What voice_similarity() says of a take: too short to tell (-1), below the
\* identity floor (two values, so that takes compare), or at least the floor.
Likeness == -1 .. 2
kVoiceIdentityFloor == 2

Token(n) == [kind |-> "token", upto |-> n, mute |-> FALSE]
Spoken(s) == [kind |-> "sentence", upto |-> s.upto, mute |-> s.mute]
LlmDone == [kind |-> "llm_done", upto |-> 0, mute |-> FALSE]
Event == [kind : {"token", "sentence", "llm_done"}, upto : 0 .. MaxText, mute : BOOLEAN]

StreamTypeOK ==
    /\ attached \in BOOLEAN /\ early_tts \in BOOLEAN
    /\ reader \in {"stream", "check", "flush", "publish", "over"}
    /\ ended \in {"no", "clean", "died", "error", "aborted"}
    /\ text \in 0 .. MaxText
    /\ sentences \in Seq(Sentence)
    /\ rest \in {<<>>} \cup {<<s>> : s \in Sentence}
    /\ truncated \in BOOLEAN
    /\ specAbort \in BOOLEAN
    /\ audio \in {"None", "Running", "Done", "Failed"}
    /\ chunks \in 0 .. MaxChunks
    /\ tts \in [Triggers -> {"off", "settle", "synth", "over"}]
    /\ llm \in {"read", "loop", "copy", "over"}
    /\ taken \in [text : 0 .. MaxText, sentences : 0 .. MaxText]
    /\ queue \in Seq(Event)
    /\ abort \in BOOLEAN
    /\ writer \in {"start", "idle", "shared", "synth", "join", "over"}
    /\ speaking \in 0 .. MaxText
    /\ first \in BOOLEAN
    /\ chunk_pos \in 0 .. MaxChunks
    /\ line \in [verify : BOOLEAN, take : 1 .. 2, cleared : BOOLEAN,
                 held : SUBSET {1, 2}, like : Likeness]
    /\ heard \subseteq {1, 2}
    /\ reply_text \in 0 .. MaxText
    /\ voiced \in Seq(1 .. MaxText)
    /\ llm_finished \in BOOLEAN
    /\ reprimed \in -1 .. MaxText
    /\ out \subseteq {"error", "done"}
    /\ client \in BOOLEAN

NoLine == [verify |-> FALSE, take |-> 1, cleared |-> FALSE, held |-> {}, like |-> -1]

Init ==
    /\ attached \in BOOLEAN
    /\ early_tts \in IF attached THEN BOOLEAN ELSE {FALSE}
    /\ reader = "stream" /\ ended = "no"
    /\ text = 0 /\ sentences = <<>> /\ rest = <<>> /\ truncated = FALSE
    /\ specAbort = FALSE /\ audio = "None" /\ chunks = 0
    /\ tts = [t \in Triggers |-> "off"]
    /\ llm = IF attached THEN "loop" ELSE "read"
    /\ taken = [text |-> 0, sentences |-> 0]
    /\ queue = <<>> /\ abort = FALSE
    /\ writer = "start" /\ speaking = 0 /\ first = TRUE /\ chunk_pos = 0
    /\ line = NoLine /\ heard = {}
    /\ reply_text = 0 /\ voiced = <<>> /\ llm_finished = FALSE
    /\ reprimed = -1 /\ out = {} /\ client = TRUE

ok == ended \in {"clean", "died"}

\* The sentences that are pushed for speaking, mute ones included.
Speech == sentences \o (IF truncated THEN <<>> ELSE rest)

\* What a piece of text ending at position n completes: nothing or a sentence.
Cuts(n) == {<<>>} \cup {<<[upto |-> n, mute |-> m]>> : m \in BOOLEAN}
LastCut == IF sentences = <<>> THEN 0 ELSE Last(sentences).upto
Events(ss) == [i \in 1 .. Len(ss) |-> Spoken(ss[i])]

----------------------------------------------------------------------------
\* The reader: the speculation's worker, or without one the LLM thread itself,
\* which pushes to the queue what the worker buffers.

\* Slip: sentences are pushed before the text they were cut from.
EmittedSentenceFirst(cut) == Events(cut) \o <<Token(text + 1)>>

\* What emit() pushes for the next piece of text.
Emitted(cut) == <<Token(text + 1)>> \o Events(cut)

\* emit(): the text grows, perhaps completing a sentence; a send-shaped draft's
\* first sentence starts the early synthesis.
Emit(cut) ==
    /\ text' = text + 1
    /\ sentences' = sentences \o cut
    /\ tts' = IF early_tts /\ tts["early"] = "off" /\ sentences' # <<>>
              THEN [tts EXCEPT !["early"] = "settle"] ELSE tts
    /\ queue' = IF attached THEN queue ELSE queue \o Emitted(cut)

Delta(cut) ==
    /\ reader = "stream"
    /\ text < MaxText
    /\ Emit(cut)
    /\ reader' = "check"
    /\ UNCHANGED <<attached, early_tts, ended, rest, truncated, specAbort, audio,
                   chunks, llm, taken, abort, writerVars, client>>

\* The callback's return value: after each delta the abort flag stops the
\* stream, also after one that is scrubbed to nothing, which does nothing else.
CheckAbort ==
    LET stop == IF attached THEN specAbort ELSE abort IN
    /\ reader = "check" \/ (reader = "stream" /\ stop)
    /\ reader' = IF stop THEN "flush" ELSE "stream"
    /\ ended' = IF stop THEN "aborted" ELSE "no"
    /\ UNCHANGED <<attached, early_tts, text, sentences, rest, truncated, specVars,
                   llm, taken, queue, abort, writerVars, client>>

\* stream_chat() returns by itself: at the end of the stream, on an error the
\* sidecar reports, or because the connection died or fell silent under it.
StreamReturns(how) ==
    /\ reader = "stream"
    /\ ended' = how
    /\ reader' = "flush"
    /\ UNCHANGED <<attached, early_tts, text, sentences, rest, truncated, specVars,
                   llm, taken, queue, abort, writerVars, client>>

\* The scrubber's held-back text, if it has any.
Flush(cut) ==
    /\ reader = "flush"
    /\ text < MaxText
    /\ Emit(cut)
    /\ reader' = "publish"
    /\ UNCHANGED <<attached, early_tts, ended, rest, truncated, specAbort, audio,
                   chunks, llm, taken, abort, writerVars, client>>

FlushNothing ==
    /\ reader = "flush"
    /\ reader' = "publish"
    /\ UNCHANGED <<attached, early_tts, bufferVars, specVars, llm, taken, queue,
                   abort, writerVars, client>>

\* Slip: a failed generation just returns.
ClosingOnSuccess(tail) == IF ok THEN Events(tail) \o <<LlmDone>> ELSE Events(tail)

\* The events that close the queue: the segmenter's rest, and LlmDone.
Closing(tail) == Events(tail) \o <<LlmDone>>

\* The segmenter is flushed: it holds something only after the last sentence,
\* and a reply cut off by the token ceiling may end in a fragment.  The worker
\* publishes it with llm_done and goes on to the late synthesis, the LLM thread
\* pushes it and ends.
Publish(tail, cutOff) ==
    /\ reader = "publish"
    /\ reader' = "over"
    /\ tail # <<>> => LastCut < text
    /\ cutOff => tail # <<>> /\ ended = "clean"
    /\ rest' = tail
    /\ truncated' = cutOff
    /\ IF attached
       THEN /\ tts' = IF ok /\ ~ specAbort THEN [tts EXCEPT !["late"] = "settle"] ELSE tts
            /\ UNCHANGED <<queue, llm>>
       ELSE /\ queue' = queue \o Closing(IF cutOff THEN <<>> ELSE tail)
            /\ llm' = "over"
            /\ UNCHANGED tts
    /\ UNCHANGED <<attached, early_tts, ended, text, sentences, specAbort, audio,
                   chunks, taken, abort, writerVars, client>>

Reader ==
    \/ \E cut \in Cuts(text + 1) : Delta(cut) \/ Flush(cut)
    \/ CheckAbort
    \/ \E how \in {"clean", "died", "error"} : StreamReturns(how)
    \/ FlushNothing
    \/ \E tail \in {c \in Cuts(text) : text > 0 \/ c = <<>>}, cutOff \in BOOLEAN :
          Publish(tail, cutOff)

----------------------------------------------------------------------------
\* synthesize_first(), called by the early thread and by the worker at its end.

\* The sentence it is given: none is as good as a mute one.
FirstIsMute ==
    IF sentences # <<>> THEN sentences[1].mute
    ELSE rest = <<>> \/ rest[1].mute

\* After the settle delay: nothing to do for an aborted speculation, a mute
\* sentence, or one whose audio somebody else claimed.
Claim(t) ==
    /\ tts[t] = "settle"
    /\ IF specAbort \/ FirstIsMute \/ audio # "None"
       THEN tts' = [tts EXCEPT ![t] = "over"] /\ UNCHANGED audio
       ELSE tts' = [tts EXCEPT ![t] = "synth"] /\ audio' = "Running"
    /\ UNCHANGED <<attached, early_tts, reader, bufferVars, specAbort, chunks, llm,
                   taken, queue, abort, writerVars, client>>

FirstChunk(t) ==
    /\ tts[t] = "synth"
    /\ chunks < MaxChunks
    /\ chunks' = chunks + 1
    /\ UNCHANGED <<attached, early_tts, reader, bufferVars, specAbort, audio, tts,
                   llm, taken, queue, abort, writerVars, client>>

FirstEnds(t, good) ==
    /\ tts[t] = "synth"
    /\ tts' = [tts EXCEPT ![t] = "over"]
    /\ audio' = IF good THEN "Done" ELSE "Failed"
    /\ chunks' = IF good THEN chunks ELSE 0
    /\ UNCHANGED <<attached, early_tts, reader, bufferVars, specAbort, llm, taken,
                   queue, abort, writerVars, client>>

SynthesizeFirst(t) == Claim(t) \/ FirstChunk(t) \/ \E good \in BOOLEAN : FirstEnds(t, good)

----------------------------------------------------------------------------
\* The LLM thread with a speculation: check the abort flag, copy what is new,
\* push it, until the end of the stream has been copied.
ReplayLoop ==
    /\ llm = "loop"
    /\ llm' = IF abort THEN "over" ELSE "copy"
    /\ specAbort' = (specAbort \/ abort)
    /\ UNCHANGED <<attached, early_tts, reader, bufferVars, audio, chunks, tts, taken,
                   queue, abort, writerVars, client>>

\* Slip: llm_done is set as soon as stream_chat() returns.
llm_done_too_early == ended # "no"

\* speculation->llm_done, set with the rest, after the scrubber is flushed.
llm_done == reader = "over"

\* The wait in the copy times out after 250 ms with nothing new.
ReplayCopy ==
    /\ llm = "copy"
    /\ queue' = queue
           \o (IF text > taken.text THEN <<Token(text)>> ELSE <<>>)
           \o Events(SubSeq(sentences, taken.sentences + 1, Len(sentences)))
           \o (IF llm_done THEN Closing(IF truncated THEN <<>> ELSE rest) ELSE <<>>)
    /\ taken' = [text |-> text, sentences |-> Len(sentences)]
    /\ llm' = IF llm_done THEN "over" ELSE "loop"
    /\ UNCHANGED <<attached, early_tts, reader, bufferVars, specVars, abort, writerVars,
                   client>>

Replay == ReplayLoop \/ ReplayCopy

----------------------------------------------------------------------------
\* The writer.  Every write may find the client gone: see Unwind.
WriteStart ==
    /\ writer = "start"
    /\ writer' = "idle"
    /\ UNCHANGED <<attached, early_tts, reader, bufferVars, specVars, llm, taken, queue,
                   abort, lineVars, reply_text, llm_finished, reprimed, out, client>>

WriteToken ==
    /\ writer = "idle" /\ queue # <<>> /\ Head(queue).kind = "token"
    /\ reply_text' = Head(queue).upto
    /\ queue' = Tail(queue)
    /\ UNCHANGED <<attached, early_tts, reader, bufferVars, specVars, llm, taken, abort,
                   writer, lineVars, llm_finished, reprimed, out, client>>

SkipMute ==
    /\ writer = "idle" /\ queue # <<>>
    /\ Head(queue).kind = "sentence" /\ Head(queue).mute
    /\ queue' = Tail(queue)
    /\ UNCHANGED <<attached, early_tts, reader, bufferVars, specVars, llm, taken, abort,
                   writerVars, client>>

\* Slip: the writer does not claim the audio it is about to make itself.
LeaveUnclaimed == audio' = audio

\* The first sentence's audio, if the speculation has not begun it, is claimed
\* so that it never does.
ClaimFirst == audio' = IF audio = "None" THEN "Failed" ELSE audio

\* A sentence is announced; the first of an attached speculation may take over
\* audio that is already being made, any other is synthesized here.  verify is
\* verify_voice: a short line, and a reference profile to compare with.
Announce(verify) ==
    /\ writer = "idle" /\ queue # <<>>
    /\ Head(queue).kind = "sentence" /\ ~ Head(queue).mute
    /\ queue' = Tail(queue)
    /\ speaking' = Head(queue).upto
    /\ first' = FALSE
    /\ IF first /\ attached THEN ClaimFirst ELSE UNCHANGED audio
    /\ writer' = IF first /\ attached /\ audio \in {"Running", "Done"}
                 THEN "shared" ELSE "synth"
    /\ chunk_pos' = 0
    /\ line' = [NoLine EXCEPT !.verify = verify]
    /\ heard' = {}
    /\ UNCHANGED <<attached, early_tts, reader, bufferVars, specAbort, chunks, tts, llm,
                   taken, abort, reply_text, voiced, llm_finished, reprimed, out, client>>

\* Slip: drain_tokens() also discards the sentences it meets.
DrainEverything == SelectSeq(queue, LAMBDA e : e.kind = "llm_done")

\* What drain_tokens() leaves in the queue: it stops at the first event that is
\* not a token.
Undrained ==
    LET Leading(n) == \A i \in 1 .. n : queue[i].kind = "token"
        n == CHOOSE n \in 0 .. Len(queue) :
                 Leading(n) /\ (n < Len(queue) => ~ Leading(n + 1))
    IN SubSeq(queue, n + 1, Len(queue))

DrainTokens ==
    LET n == Len(queue) - Len(Undrained) IN
    /\ queue' = Undrained
    /\ reply_text' = IF n = 0 THEN reply_text ELSE queue[n].upto

\* Stored and arriving chunks of the speculative first sentence are streamed;
\* its synthesis failing or making nothing, the writer makes it after all.
StreamShared ==
    LET over == audio # "Running"
        fresh == audio # "Failed" /\ chunks > chunk_pos
    IN
    /\ writer = "shared"
    /\ over \/ fresh
    /\ chunk_pos' = chunks
    /\ IF fresh THEN DrainTokens ELSE UNCHANGED <<queue, reply_text>>
    /\ writer' = IF ~ over THEN "shared"
                 ELSE IF audio = "Done" /\ chunks > 0 THEN "idle" ELSE "synth"
    /\ voiced' = IF writer' = "idle" THEN Append(voiced, speaking) ELSE voiced
    /\ UNCHANGED <<attached, early_tts, reader, bufferVars, specVars, llm, taken, abort,
                   speaking, first, line, heard, llm_finished, reprimed, out, client>>

\* A chunk of the take being synthesized.  A verified line is held back until
\* its opening is judged to be the character's voice; everything else streams.
Chunk(clears) ==
    LET hold == line.verify /\ ~ line.cleared
        played == ~ hold \/ clears
    IN
    /\ writer = "synth"
    /\ clears => hold
    /\ DrainTokens
    /\ line' = [line EXCEPT !.cleared = line.cleared \/ clears,
                            !.held = IF hold /\ ~ clears THEN {line.take} ELSE {}]
    /\ heard' = IF played THEN heard \cup {line.take} ELSE heard
    /\ UNCHANGED <<attached, early_tts, reader, bufferVars, specVars, llm, taken, abort,
                   writer, speaking, first, chunk_pos, voiced, llm_finished, reprimed,
                   out, client>>

\* Slip: a bad take is made again until one is good.
RetryAgain(like) ==
    /\ writer = "synth"
    /\ line.verify /\ ~ line.cleared
    /\ like \in 0 .. kVoiceIdentityFloor - 1
    /\ line' = [line EXCEPT !.take = line.take + 1, !.held = {}, !.like = like]
    /\ UNCHANGED <<attached, early_tts, reader, bufferVars, specVars, llm, taken, queue,
                   abort, writer, speaking, first, chunk_pos, heard, reply_text, voiced,
                   llm_finished, reprimed, out, client>>

\* synthesize(base_seed) returns a held line that is audibly somebody else's:
\* it is set aside and made once more.
Retry(like) ==
    /\ writer = "synth"
    /\ line.take = 1 /\ line.verify /\ ~ line.cleared
    /\ like \in 0 .. kVoiceIdentityFloor - 1
    /\ line' = [line EXCEPT !.take = 2, !.held = {}, !.like = like]
    /\ UNCHANGED <<attached, early_tts, reader, bufferVars, specVars, llm, taken, queue,
                   abort, writer, speaking, first, chunk_pos, heard, reply_text, voiced,
                   llm_finished, reprimed, out, client>>

\* Slip: the comparison of the two takes is the wrong way round.
KeptWorse(like) == IF like > line.like THEN {1} ELSE line.held

\* Of two takes the one more like the character is kept.
Kept(like) == IF like < line.like THEN {1} ELSE line.held

\* Otherwise the sentence is voiced: what is still held is played.  A second
\* take that was cleared is judged again on the samples that cleared it.
Voiced(like) ==
    LET hold == line.verify /\ ~ line.cleared IN
    /\ writer = "synth"
    /\ line.cleared => like >= kVoiceIdentityFloor
    /\ line.take = 1 /\ hold => like \notin 0 .. kVoiceIdentityFloor - 1
    /\ heard' = heard \cup (IF line.take = 2 THEN Kept(like) ELSE line.held)
    /\ IF line.held # {} THEN DrainTokens ELSE UNCHANGED <<queue, reply_text>>
    /\ voiced' = Append(voiced, speaking)
    /\ writer' = "idle"
    /\ line' = NoLine
    /\ UNCHANGED <<attached, early_tts, reader, bufferVars, specVars, llm, taken, abort,
                   speaking, first, chunk_pos, llm_finished, reprimed, out, client>>

\* The end of the stream as the writer sees it; a good reply is queued for
\* re-priming, complete because LlmDone is the last event.
LlmFinishes ==
    /\ writer = "idle" /\ queue # <<>> /\ Head(queue) = LlmDone
    /\ queue' = Tail(queue)
    /\ llm_finished' = TRUE
    /\ reprimed' = IF ok /\ reply_text > 0 THEN reply_text ELSE reprimed
    /\ UNCHANGED <<attached, early_tts, reader, bufferVars, specVars, llm, taken, abort,
                   writer, lineVars, reply_text, out, client>>

\* The queue is empty after the end: error and done events, and the abort flag
\* that releases the LLM thread.
Finish ==
    /\ writer = "idle" /\ queue = <<>> /\ llm_finished
    /\ out' = IF ok THEN {"done"} ELSE {"error", "done"}
    /\ abort' = TRUE
    /\ writer' = "join"
    /\ UNCHANGED <<attached, early_tts, reader, bufferVars, specVars, llm, taken, queue,
                   lineVars, reply_text, llm_finished, reprimed, client>>

\* Where the writer writes.
Writing ==
    \/ writer \in {"start", "shared", "synth"}
    \/ writer = "idle" /\ queue # <<>> /\ ~ Head(queue).mute
    \/ writer = "idle" /\ queue = <<>> /\ llm_finished

\* catch (...): a write found the client gone, or a synthesis threw.  Nothing is
\* reported.
Unwind ==
    /\ writer = "synth" \/ (Writing /\ ~ client)
    /\ abort' = TRUE
    /\ writer' = "join"
    /\ UNCHANGED <<attached, early_tts, reader, bufferVars, specVars, llm, taken, queue,
                   lineVars, reply_text, llm_finished, reprimed, out, client>>

\* llm_thread.join()
Join ==
    /\ writer = "join" /\ llm = "over"
    /\ writer' = "over"
    /\ UNCHANGED <<attached, early_tts, reader, bufferVars, specVars, llm, taken, queue,
                   abort, lineVars, reply_text, llm_finished, reprimed, out, client>>

Synthesis ==
    \/ \E clears \in BOOLEAN : Chunk(clears)
    \/ \E like \in Likeness : Retry(like) \/ Voiced(like)

Writer ==
    \/ WriteStart \/ WriteToken \/ SkipMute
    \/ \E verify \in BOOLEAN : Announce(verify)
    \/ StreamShared
    \/ LlmFinishes \/ Finish \/ Unwind \/ Join

ClientLeaves ==
    /\ client /\ writer # "over"
    /\ client' = FALSE
    /\ UNCHANGED <<attached, early_tts, reader, bufferVars, specVars, llm, taken, queue,
                   abort, writerVars>>

Next ==
    \/ Reader \/ Replay \/ Writer \/ Synthesis \/ ClientLeaves
    \/ \E t \in Triggers : SynthesizeFirst(t)

\* The writer blocked in send(): the chat route sets no send timeout, so a client
\* that stays connected and stops reading holds it there.
InWrite ==
    \/ writer = "start"
    \/ writer = "idle" /\ queue # <<>> /\ ~ Head(queue).mute
    \/ writer = "idle" /\ queue = <<>> /\ llm_finished
    \/ writer = "shared" /\ audio # "Failed" /\ chunks > chunk_pos

\* The writer in a synthesis of its own, or waiting for the speculation's: a GPU
\* call may wedge.
InSynthesis ==
    \/ writer = "synth"
    \/ writer = "shared" /\ \E t \in Triggers : tts[t] = "synth"

\* Fairness: every thread runs between its blocking calls, and stream_chat()
\* returns, because it gives up on a silent sidecar after its receive timeout and
\* the token ceiling bounds a reply.  Neither a write nor a synthesis is assumed
\* to return, nor a client to leave.
Fairness ==
    /\ WF_vars(Reader) /\ WF_vars(Replay)
    /\ WF_vars(SkipMute \/ Join)
    /\ WF_vars(~ InWrite /\ StreamShared)
    /\ \A t \in Triggers : WF_vars(Claim(t))

Spec == Init /\ [][Next]_vars /\ Fairness

----------------------------------------------------------------------------
(* A reply that ends with done has been delivered whole: every piece of text *)
(* was written and every sentence with something to say was voiced, once and *)
(* in order, whether it was streamed, replayed or drained inside a synthesis.*)
DeliveredWhole ==
    "done" \in out =>
        /\ reply_text = text
        /\ Range(voiced) = {Speech[i].upto : i \in {j \in DOMAIN Speech : ~ Speech[j].mute}}
        /\ \A i, j \in DOMAIN voiced : i < j => voiced[i] < voiced[j]

(* The transcript never lags the voice: a sentence is announced only after   *)
(* all the text it was cut from has been written.                            *)
SentenceAfterItsText == speaking <= reply_text

(* The re-prime queued at llm_done holds the whole reply: LlmDone is the last *)
(* event, so no token is behind it.                                          *)
RePrimeIsWholeReply == reprimed # -1 => reprimed = text /\ reader = "over" /\ ok

(* The client hears one take of each sentence the writer voices: a second    *)
(* take that was cleared while it streamed never brings back the first.      *)
OneTakeHeard == heard # {1, 2}

(* "The audio_state handoff makes double-synthesis impossible": the worker's *)
(* two triggers never both synthesize, and no speculative synthesis holds    *)
(* the model while the writer is making a sentence itself.                   *)
NoRivalSynthesis ==
    /\ ~ (tts["early"] = "synth" /\ tts["late"] = "synth")
    /\ writer = "synth" => \A t \in Triggers : tts[t] # "synth"

(* A reply ends, or it is held by the client or by the GPU: unless a write or *)
(* a synthesis never returns, the writer joins the LLM thread and returns,    *)
(* whatever the sidecar and the speculation do.  Waiting for an event, for a  *)
(* failed synthesis' audio or for the LLM thread never hangs it.              *)
StreamEnds == <>(writer = "over") \/ <>[](InWrite \/ InSynthesis)

(* "streaming requests that have already sent headers surface the same       *)
(* condition as a {"type":"error"} stream event": a client that stayed is    *)
(* told how its reply ended.                                                 *)
EndsWithVerdict == (writer = "over" /\ client) => out # {}

(* "A failed generation with no message is still a failure": a stream that   *)
(* died under the reader is not reported as a complete reply.                *)
TruncationReported == ("done" \in out /\ ended = "died") => "error" \in out

=============================================================================
