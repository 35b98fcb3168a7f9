# Super Fast Voice: a TLA+ development of the voice server

Super Fast Voice is a local voice assistant: microphone audio is cut into turns
by a VAD, transcribed by Qwen3-ASR, answered by a llama.cpp sidecar and spoken
by Qwen3-TTS. What is hard to get right is the server under `src/app/server`,
where request threads, detached workers and a sidecar process race for the sake
of latency, and, in the numeric engine under `src/src`, the streaming synthesis,
whose caches outlive the sentence they were filled for. This directory models
both, checks them with TLC and proves their safety properties with TLAPS.

## Inventory

| Component | State | Operations | Hard because |
|---|---|---|---|
| Model run gate (`busy_guard.h`, `runtime.cpp`) | one timed mutex and a busy time stamp per model, the lazily loaded session | acquire, load, run, release | a wedged GPU call cannot be cancelled; time stamps are read outside the mutex |
| LLM warm queue (`runtime.cpp` 2096-2170) | newest pending body, worker flag, count of active generations | queue, settle, dispatch, begin and end of a generation | lost wake-ups, a worker that is about to return, a prefill in front of a reply |
| Speculative replies (`runtime.cpp` 2675-3069) | one slot, the last sent key, per speculation an abort flag and a buffer | speculate, prewarm, send, the detached worker | the draft changes while its reply is generated, sent or replayed |
| Chat orchestration (`runtime.cpp` 3071-3553) | event queue, writer and LLM threads, speculative audio | emit, replay, announce, synthesize, verify, retry, finish, unwind | five threads may work on one reply, every step may fail, the client may leave |
| Live voice turn (`voice.cpp`) | utterance, gap, candidate, one queued and one running decode | begin, freeze, resume, commit, discard, decode | decisions on decodes of an earlier state of the turn |
| Stable tracker (`voice_stability.cpp`) | history of hypotheses, committed prefix | update, reset | a promise made over hypotheses that disagree |
| Voice sessions (`runtime.cpp` 3691-3903) | bounded audio and event queues | create and sweep, audio, events, stop | drop-oldest queues, joins under a lock |
| Sidecar and settings (`llm_manager.cpp`, `runtime.cpp` 2305-2411) | process handle, current model, settings in memory and on disk | start, wait, stop, switch, save | minutes pass between the copy and the write back; one step of several fails |
| TTS streaming (`session.cpp`, `talker.cpp`, `stream_decoder.cpp` of `qwen3_tts`) | embedded prompt, voice rows, prefill graphs by length, step cache, copy graph, decoder context | start, prefill, grow, transfer, sample, deliver, step, flush, cancel | every cache is right for one prompt and wrong for the next; any step may throw |
| HTTP server (`http.cpp`) | connection, incremental chunked body | read, stream, time out | arbitrary packet boundaries |
| Segmenter, hygiene, identity, configuration, MCP | local | pure functions | wording and arithmetic rather than order |

Interaction: a chat request reads settings, starts or takes a speculation, or
queues a warm body; the reply it streams is a *generation* that holds the warm
queue back; each sentence it speaks is a *run* of the TTS model behind the model
gate. A voice turn's decodes are runs of the ASR model behind another gate. The
browser feeds the final transcript back as the next chat request. PROJECT.json
lists every component and every hazard found, at its line.

## Modules

**ModelRun** models one model's `BusyGuard` with the threads that call
`acquire_model_run`, step by step: the stamp is loaded, compared, the mutex is
tried with the resolved bound, taken, stamped, the session loaded if need be,
the run executed (it may wedge), the stamp cleared, the mutex released. Time is
a `Tick`. `find_asr_model` may load the session beside all this.

**LlmWarm** models `queue_llm_warm`, its worker with the blocked and the settle
state, the generation counter, the separate notification after it and the health
pollers. `WarmSafetySpec` is the queue without its fairness, for modules that use it.

**ChatSpeculation** extends LlmWarm. Speculations and sends are the generators.
Each critical section of `chat_speculation_mutex_` is an action; a detached
worker goes queued, holding, streaming, ended, publish, gone. The module moves the
queue's variables by LlmWarm's actions only, so that what holds of the queue holds of
the composition by construction; what is checked is what the chat adds. Between taking
a speculation and following it the HTTP layer sends the response headers, which may
fail (`HeadersFail`).

**ChatStream** models one call of `chat_orchestrate`. `reader` is whoever runs
`stream_chat`: the LLM thread, or the speculation's worker, in which case the LLM
thread replays the shared buffer. A piece of text is its position; a sentence is
the position it ends at. The writer voices a sentence from the speculative audio
or itself, with the voice check and the one retry. Every write may find the client
gone and every synthesis may throw (`Unwind`); either may also never return.

**VoiceTurn** models `VoiceLiveRunner`. Audio is counted in blocks; an utterance is
its length and the position of its last block with speech, where "speech" means
louder than the quiet threshold of `handle_result`. A transcript is the audio it was
decoded from, so a final that leaves out speech is visible as such. The hold's length
and the loudness gate are open choices, which covers every parameter setting.

**VoiceSession** models the browser's voice sessions. Requests are threads: a creator
sweeps under the map's lock (`todo` is what its loop has still to look at), posters and
readers look a session up and then work on it without the lock, so that a sweep or the
destructor may close it under them. The runner reads audio block by block; of its turn
only "open or not" is kept, because that is what decides whether leaving emits a final.
The destructor runs beside the request threads, which are detached.

**EventFeed** is the abstract specification of a session's event queue: numbered events,
of which the newest `Cap` are kept, taken all at once, and none sent once it is over.
VoiceSession implements it with the sequence as `OldestQueued` and the runner's state as
`over`.

**LlmSwitch** models `POST /v1/llm-settings`: the copy, the switch under its lock with
stop, start, health wait, failure and fallback, the save as truncation, write and close,
the update of memory after it, and the answer, for which the manager's mutex is needed
that `stop()` holds. `stop()` returns when the sidecar has exited; that it may also be
given up after 15 s, as on Windows, is an action of its own. The sidecar loads, gets
ready or dies when it likes; a dead child that was not reaped may look alive, as
`kill(pid, 0)` does. Of the settings the model is kept and one value for all the others.
A value is not what comes back from the file: it is written with six digits (`Digits`)
and read as a float (`Float`), and what is read may be refused by the validation, in
which case the whole file is ignored. The server may be stopped and started between any
two steps.

**TtsStream** models one TTS session. A row of the K/V cache is the pair of embeddings it
was computed from, so that a step computed from a stale row is visible whatever the
numbers are. What is kept between generations is modelled variable by variable: the
prompt embedded last, the voice's rows, the logits, prefill graphs by length with their
LRU eviction, content tags and serials, the step cache with its growth, the endpoints of
the copy graph. Every computation may fail and leaves behind what the code leaves.

The `MC*` modules fix small instances. Operators introduced by "Slip:" in a comment
are plausible mistakes; each shows that the property it is paired with in
PROJECT.json would notice.

## Runs

| Run | Shows |
|---|---|
| `model_run` | runs are serialized; the stamp is the holder's; nobody is refused by an idle model; under a positive policy everybody is answered although a run wedges |
| `llm_warm` | one worker, newest body, no dispatch during a generation, no lost wake-up |
| `chat_speculation` | one owner per speculation; a sent reply is never torn down by a later draft; an attached send gets an end; a speculation taken out of the slot was told to stop or is the one that is sent |
| `chat_stream` | a reply that ends with `done` was written whole and voiced in order; text precedes voice; the re-prime is the whole reply; one take is heard; no rival synthesis; the request ends, unless a write or a synthesis never returns |
| `voice_turn` | a final decode has the whole turn; nothing follows a final; turns are answered one by one; neither thread waits forever |
| `voice_session` | the event queue is an EventFeed; `[DONE]` means all was said; accepted audio is heard; a session is let go only with its thread joined, save one whose thread is still to be started when the destructor comes; closing, sweeping and shutdown end |
| `llm_switch` | switches do not race; a failed one leaves the previous model or none; the model a restart would start has been healthy once, whatever became of the file; a request with the switch lock is answered although the new sidecar neither gets healthy nor exits, and the only place it can hang is `stop()` |
| `tts_stream` | a step is computed from its own prompt and frames whatever was cached; frames are heard once, in order, in context; an uncancelled result is whole |

Four runs expect a violation, each of a sentence of the repository:

| Run | The text | The code |
|---|---|---|
| `swallowed_chat_error` | a busy model surfaces as an error event (`README.md` 114 of the server) | `catch (...)` in `chat_orchestrate` reports nothing |
| `truncated_stream` | a failed generation with no message is still a failure (`runtime.cpp` 3513) | a dead connection is a clean end for `stream_chat` |
| `clipped_final` | a quiet-tail partial covered all but the trailing silence (`voice.cpp` 512) | only the length is compared, so up to 480 ms of speech can be missing |
| `unjoined_runner` | the runner thread is always joined, never detached (`runtime.cpp` 3689) | request threads are detached, so a session may be created, and its thread started, after the destructor has collected the sessions |

Three more statements are kept in the modules without a run: TLC refutes each when it is
added to the configuration of its module. `NoZombieSpeculation` (a speculate landing after
its own send must be dropped, `runtime.h` 310): only the last key is remembered, for 30 s,
so after sends of k1 and k2 a late speculate for k1 starts. `SavedIsInUse` (master prompt
and sampling are persisted, `runtime.h` 182): two requests may save in one order and update
memory in the other, and the server works with what the file does not hold.
`SessionStableDuringRun`: `find_asr_model` may replace the session of a run.

**Bounds.** `model_run`: two request threads and the voice thread are enough for a
holder, a waiter and a newcomer; the horizon is beyond every timeout. `llm_warm`: two
generators overlap, two bodies tell newest from older. `chat_speculation`: two
conversations, two speculations and two sends give a superseded, a taken and a
mismatched speculation; one warm body suffices because LlmWarm tells bodies apart. The
conversations are symmetric: they are only compared with one another.
`chat_stream`: two pieces of text give two sentences, or one and a tail; two chunks
give a chunk before and after the writer joins. `voice_turn`: three turns of three
blocks with a slack of one, so that a decode can be stale, just short, or of a turn
before the last. `voice_session`: two request threads, one session that is used and one
whose creation sweeps it; two events before the last overflow an event queue of two, and
an audio queue of one overflows with the first post. `llm_switch`: two requests, two
models and two values: a default, and one that is valid when it is saved and not when it is
read back; one restart is enough because nothing but `disk` survives it.
`tts_stream`: two cloned voices and one that is not; two of the four prompts share a
length, and there are two graph slots for three lengths, so that graphs are shared,
overwritten and evicted within four generations; an initial cache of one frame grows
during three. Runs that say `CHECK_DEADLOCK FALSE` model sessions that really end;
their progress is a liveness property or, for `chat_speculation`, `ReplayWillEnd`.

**Fairness.** Threads that can run do. In ModelRun time passes and a waiter's timeout
fires, but a run need not end. In LlmWarm the worker goes on and a notification that
follows a decrement happens; generations may start forever, so the property assumes
that they stop. In ChatStream the reader returns (receive timeout, token ceiling) and the
threads go on between their blocking calls. No write is assumed to return, since only live
ingest sets a send timeout, and no synthesis, since a GPU call may wedge: `StreamEnds` says
that a reply ends or is for ever in one of these two. In VoiceTurn a
decode returns; nothing is assumed of the microphone or the VAD. In VoiceSession the
creator, the runner (its decodes return) and the destructor go on; of clients nothing is
assumed, so a reader or poster may stop for ever. In LlmSwitch a request that holds the
switch lock, or needs none, goes on, since the health wait has a deadline; `stop()` has
none on POSIX (SIGTERM, then `waitpid`), so it returns only if the sidecar exits, which is
not assumed, and `SettingsAnswered` says so. Who gets the lock next is not assumed either,
so a queued request is not promised an answer. TtsStream states
no fairness: its properties are invariants.

## Proofs

`ModelRunProofs` proves, for every set of threads, ceiling, requested timeouts and
horizon, type correctness, `RunsSerialized`, `StampIsTheHolders` and
`RefusedOnlyIfContended`. The inductive invariant adds to them that a caller's
knowledge of contention is backed (`MemoryIsWitness`): a snapshot of the stamp, or
waiting for the mutex, means that the guard was held since the call began. Without
it the refusal of a caller that decides on an old snapshot cannot be justified.
`PolicyIsNeverWeakened` shows that no request lengthens the policy's bound. The assumption is
`ModelRunAssumption`.

`LlmWarmProofs` proves, for every set of workers, generators, pollers and bodies, type
correctness, `OneWorkerForPending`, and the action properties
`DispatchOnlyBetweenGenerations` and `NewestIsDispatched`. The invariant relates the
counter to the set of generators between begin and end, and the pending body to the
one queued last. None of it uses the queue's fairness. The assumption is
`LlmWarmAssumption`.

`VoiceTurnProofs` proves, for every number of turns, length of a turn and slack, type
correctness, `FinalJobIsTheUtterance`, `NothingAfterFinal` and `EveryTurnAnswered`.
None of them is inductive alone. The invariant adds three facts: while a final is
awaited there is no other decode, queued or running (`FinalAlone`), so a result cannot
answer a turn that has other decodes out; the turn in progress is unanswered, one that
is over is answered, and one being awaited is answered or has its final decode on the
way with its result still to come (`TurnState`), so the loop cannot leave `await`
unanswered; and recordings fit their bound together with the gap (`Recorded`). That a
final covers all speech is not among them: the code does not ensure it
(`clipped_final`). The assumption is `VoiceTurnAssumption`.

`LlmSwitchProofs` proves, for every set of requests, models and values, every way to write
and read them, and any number of restarts, type correctness, `WaitsForItsOwn`,
`RestartModelWorked` and the action property `FailedSwitchRestores`. The invariant adds that
the switch lock has one holder (`OneSwitcher`), without which two requests would wait for
each other's sidecar; that a request about to switch names a model (`Wanted`); and that the
model of a request that has come to its save, of the settings in memory and of the file has
been healthy once (`Proven`): a request reaches its save with a model it saw healthy or
found current, and what is current was proven, put back, or started from the file. The
assumption is `LlmSwitchAssumption`.

`TtsStreamProofs` proves, for every set of voices and texts, length of a reference or
text, number of cached graphs, size of cache, chunk and context, and number of requests,
`StepSeesItsRows`, `HeardInOrder` and `ResultIsWhole`. For the first, `TalkerInv` adds
that the embedded prompt is the segment's (`PromptIsAsked`); that tags are taken in
order and a prefill graph with the prompt's tag holds the prompt, though graphs are kept
by length, evicted, and left half computed by a failure (`GraphsAreTagged`); and that the
frames made leave room for the next one (`RoomToStep`). The arithmetic of the rows is in
lemmas: `FrameRowLinesUp` (the text left over by the prompt continues where the prompt
ends), `GrownEnough` (a new cache holds the row it was grown for), `LinkedIsNew` (the
copy graph joins the graphs that exist now). For the others, `DecoderInv` says that a
request is one voice's and that the context is the tail of its reference and of all that
was heard; `TailOfTail` shows that keeping the tail of each window is enough. The
assumption is `TtsAssumption`.

`ChatSpeculationProofs` proves, for every set of speculations, sends, prewarms and
conversations, type correctness, `OneOwner`, `ReplayUndisturbed`, `ReplayWillEnd` and
`DroppedIsAborted`. The invariant adds that what the slot or a send points at was started,
that a worker that is gone was aborted or left an outcome, and that an outcome is left only
on leaving (`Started`): with `ReplayUndisturbed`, which excludes the abort, this is why a
replay gets its end, and it is why a failed speculation, which a send drops without aborting
it, needs no abort. `StreamsCounted` identifies the streams that are open with the generators
the queue counts, so that the counter that gates the warm queue is the number of open streams
(`StreamsAreCounted`). The theorems about the warm queue are stated of `WarmSafetySpec`,
which has no fairness, so they hold of the chat too (`ChatDispatchGated`). The assumptions
are `LlmWarmAssumption` and `ChatSpeculationAssumption`.

`VoiceSessionProofs` proves, for every set of requests, number of sessions and events, and
caps of the queues, type correctness, `DoneMeansAllSaid`, `DrainedBeforeDone` and
`ForgottenIsJoined`, and that the event queues implement `EventFeed`
(`SessionsImplementFeeds`). That a client told `[DONE]` has everything needs that a runner
that has exited stays so, which needs that a session's thread is started once (`Starts`),
which needs that creators exclude each other (`Locking`). `ForgottenIsJoined` is an action
property: it looks at the step that takes a session out of the map or off the destructor's
list, and needs that a session without a thread is one whose creator is about to start it
(`Unstarted`). For the refinement a queue holds
the last events emitted, in order, and no more than its cap (`EventsInRow`): then emitting,
with its drop of the oldest, moves the bounds of the feed as `EventFeed` says, reading takes
what is left, and leaving closes it. The assumption is `VoiceSessionAssumption`.

`ChatStreamProofs` proves, for every length of a reply and number of audio chunks, type
correctness, `DeliveredWhole`, `SentenceAfterItsText`, `RePrimeIsWholeReply`,
`OneTakeHeard` and `NoRivalSynthesis`. The first three are about what passes through the
queue between the LLM thread and the writer, in batches, drained between sentences and
inside a synthesis. The invariant says of the queue at every moment that its tokens lead
from what was written to what was pushed, with each sentence behind its text (`TextInv`);
that its sentences go on from the one announced last, in order (`SpeechInv`); that what is
to be said was voiced, is being spoken or is still queued (`OwedInv`, `VoicedInv`); and
that `llm_done` is last and comes when all was pushed (`EndInv`). These are predicates of
a sequence and its two ends, with lemmas that they hold of a concatenation if they hold of
its parts and of what is left when a prefix is taken, so that an action is done once it is
shown to push or to consume. An empty queue behind `llm_done` then has equal ends, which is
`DeliveredWhole`. Two facts are about the reader rather than the queue: sentences are cut
in order and within the text (`CutsInOrder`), and a replay never overtakes the buffer
(`Replaying`). `LineInv` follows the two takes of a sentence through the voice check;
`SynthInv` follows the hand-over of the first sentence through `audio_state`. The
assumption is `ChatStreamAssumption`.

Every invariant, action property and refinement that a passing run checks is thus also a
theorem. Only model-checked are the liveness properties (`BoundedWait`,
`PendingIsDispatched`, `StreamEnds`, `CommitReturns`, `ClosingEnds`, `SettingsAnswered`),
because fairness and ENABLED are out of the prover's reach, and the four violations, which
are counterexamples.

## Not modelled

The map covers what decides the order of things, which is a small part of the source
lines. Most of `src/src` and `src/include` is tensor graphs, codecs, filters, weight
loading and tables: straight-line numeric code without shared state, whose results are
floating-point numbers TLC cannot evaluate and about which a model with the numbers
abstracted away would say nothing. Of the engine, the part with state that outlives a
call and control that depends on it is modelled for the TTS model (TtsStream). Also left
out: parsing, formatting and wording (segmenter, hygiene, configuration, MCP, multipart,
base64); the HTTP server, which keeps no state between connections; the command line and
workflow drivers (sequential); the web UI. `StableTracker` is shared between the audio
loop and the worker without a lock; VoiceTurn leaves its contents out, so that race is
listed as a hazard and not checked.

Known and not forbidden by any property, because no text of the repository promises
otherwise: the first seconds of speculative audio that fails half-way are heard twice
(ChatStream shows the path); a settings request that waits in a switch overwrites what
another one saved meanwhile, a stop between the truncation and the write of `llm.json`
loses the settings, and so does a value that reads back as invalid (LlmSwitch shows all
three); a speculation whose send could not write its response headers is followed and
aborted by nobody and generates to its end (ChatSpeculation); a cancellation that arrives before
`start_stream` clears the flag is lost (TtsStream); a switch to the model that is already
current returns at once although that model may still be loading, or be a dead child
that was not reaped (LlmSwitch).
