------------------------------ MODULE TtsStream ------------------------------
(***************************************************************************)
(* Streaming synthesis of Qwen3 TTS: a session (session.cpp) speaks the    *)
(* text segments of a request one after the other; the talker              *)
(* (talker.cpp) generates the codec frames of a segment one at a time from *)
(* a K/V cache; a decoder (stream_decoder.cpp) turns the frames into PCM   *)
(* in chunks.  One thread does all of it; cancel_stream() may come from    *)
(* any other, or from the sink.                                            *)
(*                                                                         *)
(* What makes it hard is what survives from one generation to the next: a  *)
(* prompt, the rows of a voice, prefill graphs kept by prompt LENGTH, the  *)
(* step cache, and a copy graph that points into two of them.  Each saves  *)
(* work for the next sentence, and each is wrong if used for another one.  *)
(*                                                                         *)
(* Data.  A prompt is a voice and a text.  A row of the K/V cache is the   *)
(* pair of embeddings it was computed from, a text and a codec one, each a *)
(* triple <<kind, name, number>>; the fixed head of a prompt is one row.   *)
(* PCM is the sequence of frames it was decoded from.                      *)
(***************************************************************************)
EXTENDS Integers, Sequences, FiniteSets

CONSTANTS
    Voices, Texts,
    Prompts,            \* the (voice, text) pairs requests are made of
    Clones,             \* voices cloned in ICL mode; the others have no reference rows
    RefText, RefFrames, \* tokens and codec frames of a voice's reference
    TextLen,            \* tokens of a text
    Slots,              \* prefill_graph_cache_slots
    InitialFrames,      \* kInitialGeneratedStepCacheFrames
    MaxNews,            \* the max_new_tokens requests ask for
    ChunkFrames, ContextFrames,     \* the decoder's options
    MaxSegments,        \* bound on the segments of a request
    MaxGenerations,     \* bound on the segments spoken in all
    None

ASSUME TtsAssumption ==
    /\ Prompts \subseteq Voices \X Texts /\ Clones \subseteq Voices
    /\ RefText \in [Voices -> Nat] /\ RefFrames \in [Voices -> Nat]
    /\ TextLen \in [Texts -> Nat]
    /\ Slots \in Nat \ {0} /\ InitialFrames \in Nat \ {0}
    /\ MaxNews \subseteq Nat \ {0}
    /\ ChunkFrames \in Nat \ {0} /\ ContextFrames \in Nat
    /\ MaxSegments \in Nat /\ MaxGenerations \in Nat
    /\ None \notin Voices \cup Texts \cup (Voices \X Texts)

----------------------------------------------------------------------------
(* The rows of a prompt.  Text and codec run in lockstep, one of each to a row: past the  *)
(* last text embedding comes padding, past the codec lead come the generated frames.     *)

Eos   == <<"eos", None, 0>>
Pad   == <<"pad", None, 0>>
Bos   == <<"bos", None, 0>>
Blank == <<Pad, Pad>>

\* A clone's text is preceded by its reference's transcript, its codec rows are the
\* reference's frames; any other voice has its whole text in the prompt, against padding.
TextRows(c) ==
    LET v == c[1]
        t == c[2]
        ref == IF v \in Clones THEN RefText[v] ELSE 0
    IN  [i \in 1 .. ref + TextLen[t] + 1 |->
            IF i <= ref THEN <<"ref", v, i>>
            ELSE IF i <= ref + TextLen[t] THEN <<"text", t, i - ref>> ELSE Eos]

CodecRows(c) ==
    IF c[1] \in Clones
    THEN [i \in 1 .. RefFrames[c[1]] + 1 |-> IF i = 1 THEN Bos ELSE <<"code", c[1], i - 1>>]
    ELSE [i \in 1 .. TextLen[c[2]] + 2 |-> IF i = TextLen[c[2]] + 2 THEN Bos ELSE Pad]

\* The prompt that is prefilled: the head, then a row for each codec row ...
Steps(c) == 1 + Len(CodecRows(c))

PromptRow(c, i) ==
    IF i = 1 THEN <<Pad, <<"head", c[1], 0>>>>
    ELSE <<IF i - 1 <= Len(TextRows(c)) THEN TextRows(c)[i - 1] ELSE Pad, CodecRows(c)[i - 1]>>

\* ... and the text that did not fit, fed to the steps that follow.
Trailing(c) ==
    IF Len(TextRows(c)) > Len(CodecRows(c))
    THEN SubSeq(TextRows(c), Len(CodecRows(c)) + 1, Len(TextRows(c)))
    ELSE <<Pad>>

FrameRow(c, f) ==
    <<IF f[2] <= Len(Trailing(c)) THEN Trailing(c)[f[2]] ELSE Pad, <<"frame", f[1], f[2]>>>>

----------------------------------------------------------------------------
VARIABLES
    pc,             \* where the thread is; "idle" between requests
    memSaver,       \* mem_saver_: the step cache is released after every request
    todo,           \* the segments not begun
    asked,          \* the prompt of the segment being spoken
    maxNew,
    cancelled,      \* stream_cancelled_
    result,         \* streaming_result_ is there
    cachedPrompt,   \* cached_prompt_prefill_
    state,          \* cached_prompt_state_: the voice and text whose rows it has
    parts,          \* cached_voice_parts_: the voice whose rows they are
    output,         \* cached_prefill_output_: the prompt it is for
    tag,            \* prompt_content_tag_
    graphs,         \* prefill_graphs_, by length
    cap, builds,    \* the step graph: its rows (0 if there is none) and serial
    rows, valid, end, \* its cache
    link,           \* what the copy graph copies from and to
    gen, made,      \* generations begun, frames of this one
    context, pending, heard, \* the decoder, and the PCM sent
    frames          \* history: the frames generated for this request

requestVars == <<memSaver, todo, asked, maxNew, result>>
promptVars  == <<cachedPrompt, state, parts, tag>>
prefillVars == <<graphs, output>>
cacheVars   == <<cap, builds, rows, valid, end>>
decoderVars == <<context, pending, heard, frames>>
ttsVars     == <<pc, requestVars, cancelled, promptVars, prefillVars, cacheVars, link, gen, made, decoderVars>>

Lengths == {Steps(c) : c \in Voices \X Texts}
Absent  == [serial |-> 0, tag |-> 0, holds |-> None, used |-> 0]

\* The frames of a voice's reference, numbered as those of generation 0.
Reference(v) == [i \in 1 .. (IF v \in Clones THEN RefFrames[v] ELSE 0) |-> <<0, i>>]

Least(a, b) == IF a <= b THEN a ELSE b
Most(a, b)  == IF a >= b THEN a ELSE b

\* tail_frames().
TailFrames(s, n) == SubSeq(s, Len(s) - Least(Len(s), n) + 1, Len(s))

TtsInit ==
    /\ pc = "idle" /\ memSaver \in BOOLEAN /\ todo = <<>> /\ asked = None /\ maxNew = 0
    /\ cancelled = FALSE /\ result = FALSE
    /\ cachedPrompt = None /\ state = None /\ parts = None /\ output = None /\ tag = 0
    /\ graphs = [n \in Lengths |-> Absent]
    /\ cap = 0 /\ builds = 0 /\ rows = <<>> /\ valid = 0 /\ end = 0 /\ link = <<0, 0>>
    /\ gen = 0 /\ made = 0
    /\ context = <<>> /\ pending = <<>> /\ heard = <<>> /\ frames = <<>>

----------------------------------------------------------------------------
(* The session. *)

\* start_stream(): reset() and the flags, the text cut into segments; the decoder, made with
\* the first segment, begins with the end of the reference as its context.
StartStream ==
    /\ pc = "idle"
    /\ \E v \in Voices, n \in 1 .. MaxSegments :
        /\ gen + n <= MaxGenerations
        /\ todo' \in [1 .. n -> {c \in Prompts : c[1] = v}]
        /\ context' = TailFrames(Reference(v), ContextFrames)
    /\ maxNew' \in MaxNews
    /\ cancelled' = FALSE /\ result' = FALSE
    /\ pending' = <<>> /\ heard' = <<>> /\ frames' = <<>>
    /\ pc' = "segment"
    /\ UNCHANGED <<memSaver, asked, promptVars, prefillVars, cacheVars, link, gen, made>>

Released == cap' = 0 /\ rows' = <<>> /\ valid' = 0 /\ end' = 0 /\ UNCHANGED builds

\* The step cache goes when the request ends, however it ends, if memory is to be saved.
Release == IF memSaver THEN Released ELSE UNCHANGED cacheVars

\* Slip: the context stays what the reference gave.
DecodePendingStale(p) ==
    /\ heard' = heard \o p
    /\ context' = context
    /\ pending' = <<>>

\* decode_pending(): the window is context and pending, its audio past the context is sent.
DecodePending(p) ==
    /\ heard' = heard \o p
    /\ context' = TailFrames(context \o p, ContextFrames)
    /\ pending' = <<>>

\* Slip: what is pending is dropped.
FinishUnflushed ==
    /\ pc = "segment" /\ (todo = <<>> \/ cancelled)
    /\ Release
    /\ result' = TRUE /\ pc' = "idle"
    /\ UNCHANGED <<memSaver, todo, asked, maxNew, cancelled, promptVars, prefillVars, link, gen, made, decoderVars>>

\* The loop over the segments is over: a stream that was not cancelled is flushed, and the
\* result is there.
FinishStream ==
    /\ pc = "segment" /\ (todo = <<>> \/ cancelled)
    /\ IF cancelled THEN UNCHANGED <<context, pending, heard>> ELSE DecodePending(pending)
    /\ Release
    /\ result' = TRUE /\ pc' = "idle"
    /\ UNCHANGED <<memSaver, todo, asked, maxNew, cancelled, promptVars, prefillVars, link, gen, made, frames>>

\* finish_stream(), and reset() between requests.
TakeResult ==
    /\ pc = "idle" /\ result
    /\ result' = FALSE
    /\ UNCHANGED <<pc, memSaver, todo, asked, maxNew, cancelled, promptVars, prefillVars, cacheVars, link, gen, made, decoderVars>>

Reset ==
    /\ pc = "idle"
    /\ cancelled' = TRUE /\ result' = FALSE
    /\ UNCHANGED <<pc, memSaver, todo, asked, maxNew, promptVars, prefillVars, cacheVars, link, gen, made, decoderVars>>

\* cancel_stream(), from any thread at any time.
Cancel ==
    /\ ~cancelled
    /\ cancelled' = TRUE
    /\ UNCHANGED <<pc, requestVars, promptVars, prefillVars, cacheVars, link, gen, made, decoderVars>>

\* An exception unwinds start_stream().
Unwind ==
    /\ result' = FALSE /\ pc' = "idle"
    /\ UNCHANGED <<memSaver, todo, asked, maxNew, cancelled, promptVars, gen, made, decoderVars>>

\* Tokenizing, building a prefill graph or the code predictor's, running the latter, the
\* decoder and the sink may throw.
Throws ==
    /\ pc \in {"segment", "prefill", "size", "frame"}
    /\ Release /\ Unwind
    /\ UNCHANGED <<prefillVars, link>>

----------------------------------------------------------------------------
(* The talker: generate(). *)

\* A new sentence in the same voice reuses the rows of the voice.
PartsOf(c) == IF c[1] \in Clones /\ parts # c[1] THEN c[1] ELSE parts

\* The prompt is embedded, unless it is the one embedded last.  Tags, and below the serials of
\* prefill graphs, are numbered by generation: all that counts is that they differ.
EmbedPrompt(c) ==
    IF cachedPrompt = c
    THEN UNCHANGED <<promptVars, output>>
    ELSE /\ cachedPrompt' = c
         /\ parts' = PartsOf(c)
         /\ state' = IF c[1] \in Clones THEN <<PartsOf(c), c[2]>> ELSE c
         /\ output' = None /\ tag' = gen + 1

\* The next segment of the request.
BeginSegment ==
    /\ pc = "segment" /\ todo # <<>> /\ ~cancelled
    /\ asked' = todo[1] /\ todo' = Tail(todo)
    /\ gen' = gen + 1 /\ made' = 0
    /\ EmbedPrompt(todo[1])
    /\ pc' = "prefill"
    /\ UNCHANGED <<memSaver, maxNew, cancelled, result, graphs, cacheVars, link, decoderVars>>

Present == {n \in Lengths : graphs[n].serial # 0}

\* CacheSlots: the least recently used graph makes room for a new one.
Evicted(n) ==
    IF n \in Present \/ Cardinality(Present) < Slots
    THEN {}
    ELSE {m \in Present : \A k \in Present : graphs[m].used <= graphs[k].used}

\* ensure_prefill_graph().
Ensured(n) ==
    [m \in Lengths |->
        IF m \in Evicted(n) THEN Absent
        ELSE IF m # n THEN graphs[m]
        ELSE IF n \in Present THEN [graphs[n] EXCEPT !.used = gen]
        ELSE [serial |-> gen, tag |-> 0, holds |-> None, used |-> gen]]

PrefillHit(n) == output # None /\ Ensured(n)[n].tag = tag

Prefill ==
    /\ pc = "prefill"
    /\ LET n == Steps(state) IN
       IF PrefillHit(n)
       THEN graphs' = Ensured(n) /\ UNCHANGED output
       ELSE /\ graphs' = [Ensured(n) EXCEPT ![n].tag = tag, ![n].holds = state]
            /\ output' = state
    /\ pc' = "size"
    /\ UNCHANGED <<requestVars, cancelled, promptVars, cacheVars, link, gen, made, decoderVars>>

\* The prefill fails after it overwrote what the graph held; its tag stays.
PrefillFails ==
    /\ pc = "prefill" /\ ~PrefillHit(Steps(state))
    /\ graphs' = [Ensured(Steps(state)) EXCEPT ![Steps(state)].holds = None]
    /\ Release /\ Unwind
    /\ UNCHANGED <<output, link>>

----------------------------------------------------------------------------
(* ensure_cached_step_capacity(): before the copy of the prefill, and before every step. *)

Needed == Steps(state) + IF pc = "size" THEN 1 ELSE made

NewCap ==
    LET generated == IF cap = 0 THEN InitialFrames ELSE 2 * Most(1, cap - Steps(state))
    IN  Steps(state) + Least(maxNew, Most(Needed - Steps(state), generated))

\* The rows that are valid are exported and imported; those of a new cache are zero.
Imported(i) == IF i <= valid THEN rows[i] ELSE Blank

Growing == pc = "size" \/ (pc = "grow" /\ ~cancelled)

Grow ==
    /\ Growing
    /\ IF cap >= Needed
       THEN UNCHANGED cacheVars
       ELSE /\ cap' = NewCap /\ builds' = builds + 1
            /\ rows' = [i \in 1 .. NewCap |-> Imported(i)]
            /\ UNCHANGED <<valid, end>>
    /\ pc' = IF pc = "size" THEN "transfer" ELSE "step"
    /\ UNCHANGED <<requestVars, cancelled, promptVars, prefillVars, link, gen, made, decoderVars>>

\* The old graph is gone when the new one cannot be built.
GrowFails ==
    /\ Growing /\ cap < Needed
    /\ Released /\ Unwind
    /\ UNCHANGED <<prefillVars, link>>

\* transfer_prefill_state(): the copy graph is rebuilt unless it is the one between these two.
Endpoints == <<graphs[Steps(state)].serial, builds>>

\* Slip: it is rebuilt only for another prefill graph.
LinkedBySource == IF link[1] # Endpoints[1] THEN Endpoints ELSE link

Linked == IF link[1] # Endpoints[1] \/ link[2] # Endpoints[2] THEN Endpoints ELSE link

Transfer ==
    /\ pc = "transfer"
    /\ link' = Linked
    /\ rows' = [i \in 1 .. cap |->
            IF i <= Steps(state) /\ Linked = Endpoints
            THEN (IF graphs[Steps(state)].holds = None THEN Blank ELSE PromptRow(graphs[Steps(state)].holds, i))
            ELSE rows[i]]
    /\ valid' = Steps(state) /\ end' = Steps(state)
    /\ pc' = "sample"
    /\ UNCHANGED <<requestVars, cancelled, promptVars, prefillVars, cap, builds, gen, made, decoderVars>>

----------------------------------------------------------------------------
(* The loop over the frames. *)

\* Cancelled, the end-of-speech code, or as many frames as asked for.
EndGeneration ==
    /\ pc = "sample"
    /\ pc' = "segment"
    /\ UNCHANGED <<requestVars, cancelled, promptVars, prefillVars, cacheVars, link, gen, made, decoderVars>>

Sample ==
    /\ pc = "sample" /\ ~cancelled /\ made + 1 < maxNew
    /\ pc' = "frame"
    /\ UNCHANGED <<requestVars, cancelled, promptVars, prefillVars, cacheVars, link, gen, made, decoderVars>>

\* push_frame(), from the callback: a full chunk is decoded and sent.
PushFrame(f) ==
    IF Len(pending) + 1 < ChunkFrames
    THEN pending' = Append(pending, f) /\ UNCHANGED <<context, heard>>
    ELSE DecodePending(Append(pending, f))

\* The frame is delivered before the step that follows from it is computed.
Deliver ==
    /\ pc = "frame"
    /\ made' = made + 1
    /\ frames' = Append(frames, <<gen, made + 1>>)
    /\ PushFrame(<<gen, made + 1>>)
    /\ pc' = "grow"
    /\ UNCHANGED <<requestVars, cancelled, promptVars, prefillVars, cacheVars, link, gen>>

\* The callback saw the cancellation.
CallbackStops ==
    /\ pc = "grow" /\ cancelled
    /\ pc' = "segment"
    /\ UNCHANGED <<requestVars, cancelled, promptVars, prefillVars, cacheVars, link, gen, made, decoderVars>>

\* run_step(): the frame's row goes to the first slot that is not valid.
RunStep ==
    /\ pc = "step" /\ valid < cap
    /\ rows' = [rows EXCEPT ![valid + 1] = FrameRow(state, <<gen, made>>)]
    /\ valid' = valid + 1 /\ end' = end + 1
    /\ pc' = "sample"
    /\ UNCHANGED <<requestVars, cancelled, promptVars, prefillVars, cap, builds, link, gen, made, decoderVars>>

\* The backend fails in a copy or a step: what the rows hold then is anybody's guess.
ComputeFails ==
    /\ pc \in {"transfer", "step"}
    /\ IF memSaver THEN Released
       ELSE rows' = [i \in 1 .. cap |-> Blank] /\ UNCHANGED <<cap, builds, valid, end>>
    /\ Unwind
    /\ link' = IF pc = "transfer" THEN Linked ELSE link
    /\ UNCHANGED prefillVars

Session == StartStream \/ FinishStream \/ TakeResult \/ Reset \/ Cancel \/ Throws
Talker  == BeginSegment \/ Prefill \/ PrefillFails \/ Grow \/ GrowFails \/ Transfer
             \/ EndGeneration \/ Sample \/ Deliver \/ CallbackStops \/ RunStep \/ ComputeFails

TtsNext == Session \/ Talker
TtsSpec == TtsInit /\ [][TtsNext]_ttsVars

----------------------------------------------------------------------------
(* Properties. *)

\* Row j of what a prompt's generation is computed from, once text and codec are lined up.
Lockstep(c, g, j) ==
    IF j = 1 THEN <<Pad, <<"head", c[1], 0>>>>
    ELSE <<IF j - 1 <= Len(TextRows(c)) THEN TextRows(c)[j - 1] ELSE Pad,
           IF j <= Steps(c) THEN CodecRows(c)[j - 1] ELSE <<"frame", g, j - Steps(c)>>>>

\* Whatever was spoken before, and however it ended, the next step of a generation sees this
\* segment's prompt and this generation's frames, in order, each against its text, at the
\* position its slot has, and has a slot to go to; the first frame is sampled from this
\* prompt's logits.  It is about all that generate() (talker.cpp) keeps between calls: the
\* prompt, the voice's rows, prefill graphs, the step cache that grows, the copy graph.
StepSeesItsRows ==
    pc \in {"sample", "frame", "grow", "step"} =>
        LET seen == Steps(asked) + made - (IF pc \in {"grow", "step"} THEN 1 ELSE 0) IN
        /\ valid = seen /\ end = seen
        /\ seen <= cap /\ (pc = "step" => seen < cap)
        /\ \A j \in 1 .. seen : rows[j] = Lockstep(asked, gen, j)
        /\ made = 0 => output = asked

\* Every frame is heard once and in order, at most a chunk short of a frame behind, and is
\* decoded against the frames right before it, across segments too (stream_decoder.cpp).
HeardInOrder ==
    /\ heard \o pending = frames
    /\ Len(pending) < ChunkFrames
    /\ pc \notin {"idle", "segment"} =>
            context = TailFrames(Reference(asked[1]) \o heard, ContextFrames)

\* A result that nobody cancelled is the whole request: no segment left, no frame unheard
\* (the flush at the end of start_stream(), session.cpp).
ResultIsWhole == result /\ ~cancelled => todo = <<>> /\ heard = frames
=============================================================================
