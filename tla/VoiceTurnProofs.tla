--------------------------- MODULE VoiceTurnProofs ---------------------------
(***************************************************************************)
(* The safety properties of VoiceTurn for every bound on turns and blocks  *)
(* and every slack.                                                        *)
(***************************************************************************)
EXTENDS VoiceTurn, FiniteSetTheorems, TLAPS

Jobs == pending \cup busy
AtMostOne(S) == \A x, y \in S : x = y

\* VoiceTypeOK with the cardinalities in first-order form, and the bounds that
\* keep a recording within MaxBlocks.
Typed ==
    /\ open \in BOOLEAN
    /\ loop \in {"listen", "ended", "await", "join", "over"}
    /\ speaking \in BOOLEAN /\ pending_end \in BOOLEAN
    /\ utterance_id \in 0 .. MaxUtterances
    /\ utterance \in Audio /\ gap_buffer \in Audio
    /\ candidate \in [valid : BOOLEAN, utt : 0 .. MaxUtterances, audio : Audio]
    /\ pending \subseteq Job /\ AtMostOne(pending)
    /\ busy \subseteq Job /\ AtMostOne(busy)
    /\ result_in \in BOOLEAN /\ quit \in BOOLEAN /\ worker \in BOOLEAN
    /\ result_in => busy # {}
    /\ verdict \in [Utterances -> Verdicts]

Recorded ==
    /\ utterance.spoken <= utterance.blocks
    /\ gap_buffer.spoken <= gap_buffer.blocks
    /\ utterance.blocks + gap_buffer.blocks <= MaxBlocks

\* The turn in progress is not answered yet, one that is over is, and one being
\* committed is answered or has its final decode on the way.
TurnState ==
    /\ \A u \in Utterances : u > utterance_id => verdict[u] = "none"
    /\ (loop = "listen" /\ speaking) =>
          utterance_id > 0 /\ verdict[utterance_id] = "none"
    /\ (loop = "listen" /\ ~ speaking /\ utterance_id > 0) =>
          verdict[utterance_id] # "none"
    /\ loop = "ended" =>
          ~ speaking /\ utterance_id > 0 /\ verdict[utterance_id] = "none"
    /\ loop = "await" =>
          /\ ~ speaking /\ utterance_id > 0
          /\ \/ verdict[utterance_id] # "none"
             \/ \E job \in Jobs : job.kind = "final" /\ (job \in busy => ~ result_in)

\* While a final is awaited there is no other decode, queued or running.
FinalAlone ==
    loop = "await" =>
        /\ \A job \in Jobs : job.kind = "final"
        /\ busy # {} => pending = {}

Inv ==
    /\ Typed
    /\ Recorded
    /\ TurnState
    /\ FinalAlone
    /\ FinalJobIsTheUtterance
    /\ NothingAfterFinal
    /\ EveryTurnAnswered

(* Recording a block keeps a recording well formed if there is room for it.  *)
LEMMA LongerType ==
    ASSUME NEW a \in Audio, NEW speech \in BOOLEAN,
           a.spoken <= a.blocks, a.blocks < MaxBlocks
    PROVE  /\ Longer(a, speech) \in Audio
           /\ Longer(a, speech).blocks = a.blocks + 1
           /\ Longer(a, speech).spoken <= Longer(a, speech).blocks
BY VoiceTurnAssumption DEF Longer, Audio

(* So does appending the gap when speech resumes.                            *)
LEMMA JoinedType ==
    ASSUME NEW a \in Audio, NEW b \in Audio,
           a.spoken <= a.blocks, b.spoken <= b.blocks, a.blocks + b.blocks <= MaxBlocks
    PROVE  /\ Joined(a, b) \in Audio
           /\ Joined(a, b).blocks = a.blocks + b.blocks
           /\ Joined(a, b).spoken <= Joined(a, b).blocks
BY VoiceTurnAssumption DEF Joined, Audio

(* An empty recording.                                                       *)
LEMMA SilenceType ==
    Silence \in Audio /\ Silence.blocks = 0 /\ Silence.spoken = 0
BY VoiceTurnAssumption DEF Silence, Audio

(* A decode queued for the turn in progress is a Job.                        *)
LEMMA JobForType ==
    ASSUME Typed, utterance_id > 0, NEW k \in {"partial", "candidate", "final"}
    PROVE  /\ JobFor(k) \in Job
           /\ JobFor(k).kind = k
           /\ JobFor(k).utt = utterance_id
           /\ JobFor(k).audio = utterance
BY VoiceTurnAssumption DEF JobFor, Job, Typed, Utterances

(* Invalidating the candidate keeps its type.                                *)
LEMMA ForgottenType ==
    ASSUME Typed
    PROVE  Forgotten \in [valid : BOOLEAN, utt : 0 .. MaxUtterances, audio : Audio]
BY DEF Forgotten, Typed

(* The initial state satisfies the invariant.                                *)
LEMMA InitInv == VoiceInit => Inv
<1> SUFFICES ASSUME VoiceInit PROVE Inv
  OBVIOUS
<1> USE VoiceTurnAssumption, SilenceType DEF VoiceInit
<1>1. Typed
  <2>1. 0 \in 0 .. MaxUtterances
    OBVIOUS
  <2> QED
    BY <2>1 DEF Typed, AtMostOne, Verdicts
<1>2. Recorded
  BY DEF Recorded
<1>3. TurnState /\ EveryTurnAnswered
  BY DEF TurnState, EveryTurnAnswered, Utterances
<1>4. FinalAlone /\ FinalJobIsTheUtterance /\ NothingAfterFinal
  BY DEF FinalAlone, FinalJobIsTheUtterance, NothingAfterFinal, Jobs
<1> QED
  BY <1>1, <1>2, <1>3, <1>4 DEF Inv

(* Every step of the audio loop preserves the invariant.                     *)
LEMMA AudioLoopInv ==
    ASSUME Inv, AudioLoop
    PROVE  Inv'
<1> USE VoiceTurnAssumption
<1>0. Typed /\ Recorded
  BY DEF Inv
<1>1. ASSUME NEW speech \in BOOLEAN, HearSpeaking(speech) PROVE Inv'
  <2> USE DEF HearSpeaking, Listening, audioVars, jobVars
  <2>0. utterance.blocks \in Nat /\ gap_buffer.blocks \in Nat
    BY <1>0 DEF Typed, Audio
  <2>1. Typed' /\ Recorded'
    <3>1. CASE pending_end
      BY <1>0, <1>1, <2>0, <3>1, LongerType DEF Typed, Recorded, AtMostOne
    <3>2. CASE ~ pending_end
      BY <1>0, <1>1, <2>0, <3>2, LongerType DEF Typed, Recorded, AtMostOne
    <3> QED
      BY <3>1, <3>2
  <2>2. TurnState' /\ EveryTurnAnswered' /\ FinalAlone' /\ NothingAfterFinal'
    BY <1>1 DEF Inv, TurnState, EveryTurnAnswered, FinalAlone, NothingAfterFinal, Jobs
  <2>3. FinalJobIsTheUtterance'
    BY <1>1 DEF Inv, FinalJobIsTheUtterance
  <2> QED
    BY <2>1, <2>2, <2>3 DEF Inv
<1>2. CASE BeginUtterance
  <2> USE <1>2 DEF BeginUtterance, Listening, jobVars
  <2>1. Typed' /\ Recorded'
    <3>1. Longer(Silence, TRUE) \in Audio /\ Longer(Silence, TRUE).blocks = 1
          /\ Longer(Silence, TRUE).spoken <= Longer(Silence, TRUE).blocks
      BY DEF Longer, Silence, Audio
    <3>2. utterance_id' \in 0 .. MaxUtterances
      BY <1>0 DEF Typed
    <3>3. Typed'
      <4>1. utterance' \in Audio /\ gap_buffer' \in Audio
        BY <3>1, SilenceType
      <4>2. candidate' \in [valid : BOOLEAN, utt : 0 .. MaxUtterances, audio : Audio]
        BY <1>0, ForgottenType
      <4>3. speaking' \in BOOLEAN /\ pending_end' \in BOOLEAN
        OBVIOUS
      <4> HIDE DEF Audio
      <4> QED
        BY <1>0, <3>2, <4>1, <4>2, <4>3 DEF Typed, AtMostOne
    <3>4. Recorded'
      <4>1. utterance'.blocks = 1 /\ utterance'.spoken = 1
        BY DEF Longer, Silence
      <4>2. gap_buffer'.blocks = 0 /\ gap_buffer'.spoken = 0
        BY SilenceType
      <4>3. 1 + 0 <= MaxBlocks
        OBVIOUS
      <4> HIDE <1>2 DEF BeginUtterance
      <4> QED
        BY <4>1, <4>2, <4>3 DEF Recorded
    <3> QED
      BY <3>3, <3>4
  <2>2. TurnState' /\ EveryTurnAnswered' /\ FinalAlone' /\ NothingAfterFinal'
    BY <1>0 DEF Inv, Typed, TurnState, EveryTurnAnswered, FinalAlone, NothingAfterFinal,
                Jobs, Utterances
  <2>3. FinalJobIsTheUtterance'
    BY DEF Inv, FinalJobIsTheUtterance
  <2> QED
    BY <2>1, <2>2, <2>3 DEF Inv
<1>3. CASE BeginPendingEnd
  <2> USE <1>3 DEF BeginPendingEnd, Listening
  <2>1. utterance_id > 0 /\ verdict[utterance_id] = "none"
    BY DEF Inv, TurnState
  <2>2. Typed' /\ Recorded'
    BY <1>0, <2>1, SilenceType, JobForType DEF Typed, Recorded, AtMostOne, Audio
  <2>3. TurnState' /\ EveryTurnAnswered' /\ FinalAlone'
    BY DEF Inv, TurnState, EveryTurnAnswered, FinalAlone
  <2>4. FinalJobIsTheUtterance' /\ NothingAfterFinal'
    BY <1>0, <2>1, JobForType DEF Inv, FinalJobIsTheUtterance, NothingAfterFinal
  <2> QED
    BY <2>2, <2>3, <2>4 DEF Inv
<1>4. CASE ResumeFromPending
  <2> USE <1>4 DEF ResumeFromPending, Listening, jobVars
  <2>1. Typed' /\ Recorded'
    <3>1. /\ utterance' \in Audio
          /\ utterance'.blocks = utterance.blocks + gap_buffer.blocks
          /\ utterance'.spoken <= utterance'.blocks
      BY <1>0, JoinedType DEF Typed, Recorded
    <3>2. Typed'
      BY <1>0, <3>1, SilenceType, ForgottenType DEF Typed, AtMostOne
    <3>3. Recorded'
      <4>1. utterance.blocks \in Nat /\ gap_buffer.blocks \in Nat
        BY <1>0 DEF Typed, Audio
      <4> QED
        BY <1>0, <3>1, <4>1, SilenceType DEF Recorded
    <3> QED
      BY <3>2, <3>3
  <2>2. TurnState' /\ EveryTurnAnswered' /\ FinalAlone' /\ NothingAfterFinal'
    BY DEF Inv, TurnState, EveryTurnAnswered, FinalAlone, NothingAfterFinal, Jobs
  <2>3. FinalJobIsTheUtterance'
    BY DEF Inv, FinalJobIsTheUtterance
  <2> QED
    BY <2>1, <2>2, <2>3 DEF Inv
<1>5. CASE EnqueuePartial
  <2> USE <1>5 DEF EnqueuePartial, Listening, audioVars
  <2>1. utterance_id > 0 /\ verdict[utterance_id] = "none"
    BY DEF Inv, TurnState
  <2>2. Typed' /\ Recorded'
    BY <1>0, <2>1, JobForType DEF Typed, Recorded, AtMostOne
  <2>3. TurnState' /\ EveryTurnAnswered' /\ FinalAlone'
    BY DEF Inv, TurnState, EveryTurnAnswered, FinalAlone
  <2>4. FinalJobIsTheUtterance' /\ NothingAfterFinal'
    BY <1>0, <2>1, JobForType DEF Inv, FinalJobIsTheUtterance, NothingAfterFinal
  <2> QED
    BY <2>2, <2>3, <2>4 DEF Inv
<1>6. CASE Discard
  <2> USE <1>6 DEF Discard, jobVars
  <2>1. utterance_id \in Utterances
    BY <1>0 DEF Inv, Typed, TurnState, Utterances
  <2>2. Typed'
    BY <1>0, <2>1, SilenceType, ForgottenType DEF Typed, AtMostOne, Verdicts
  <2>3. Recorded'
    BY SilenceType DEF Recorded
  <2>4. TurnState' /\ EveryTurnAnswered' /\ FinalAlone'
    BY <1>0, <2>1 DEF Inv, Typed, TurnState, EveryTurnAnswered, FinalAlone, Utterances
  <2>5. FinalJobIsTheUtterance'
    BY DEF Inv, FinalJobIsTheUtterance
  <2>6. NothingAfterFinal'
    BY <1>0, <2>1 DEF Inv, Typed, NothingAfterFinal, Job
  <2> QED
    BY <2>2, <2>3, <2>4, <2>5, <2>6 DEF Inv
<1>7. CASE Commit
  <2> USE <1>7 DEF Commit, jobVars
  <2>1. Typed'
    BY <1>0, SilenceType DEF Typed, AtMostOne
  <2>2. Recorded'
    <3>1. utterance.blocks \in Nat /\ gap_buffer.blocks \in Nat
      BY <1>0 DEF Typed, Audio
    <3> QED
      BY <1>0, <3>1, SilenceType DEF Recorded
  <2>3. TurnState' /\ EveryTurnAnswered' /\ FinalAlone' /\ NothingAfterFinal'
    BY DEF Inv, TurnState, EveryTurnAnswered, FinalAlone, NothingAfterFinal
  <2>4. FinalJobIsTheUtterance'
    BY DEF Inv, FinalJobIsTheUtterance
  <2> QED
    BY <2>1, <2>2, <2>3, <2>4 DEF Inv
<1>8. CASE ServeCandidate
  <2> USE <1>8 DEF ServeCandidate, jobVars, Idle
  <2>1. utterance_id \in Utterances
    BY <1>0 DEF Inv, Typed, TurnState, Utterances
  <2>2. Final(candidate.utt, candidate.audio) \in {"final", "clipped"}
    BY DEF Final
  <2>3. Typed'
    BY <1>0, <2>1, <2>2, SilenceType, ForgottenType DEF Typed, AtMostOne, Verdicts
  <2>4. Recorded'
    <3>1. gap_buffer.blocks \in Nat /\ utterance.blocks \in Nat
      BY <1>0 DEF Typed, Audio
    <3> QED
      BY <1>0, <3>1, SilenceType DEF Recorded
  <2>5. TurnState' /\ EveryTurnAnswered' /\ FinalAlone'
    BY <1>0, <2>1, <2>2 DEF Inv, Typed, TurnState, EveryTurnAnswered, FinalAlone, Utterances
  <2>6. FinalJobIsTheUtterance' /\ NothingAfterFinal'
    BY DEF FinalJobIsTheUtterance, NothingAfterFinal
  <2> QED
    BY <2>3, <2>4, <2>5, <2>6 DEF Inv
<1>9. CASE EnqueueFinal
  <2> USE <1>9 DEF EnqueueFinal, audioVars, Idle
  <2>1. utterance_id > 0 /\ ~ speaking
    BY DEF Inv, TurnState
  <2>2. Typed' /\ Recorded'
    BY <1>0, <2>1, JobForType DEF Typed, Recorded, AtMostOne
  <2>3. TurnState' /\ EveryTurnAnswered'
    BY <1>0, <2>1, JobForType DEF Inv, TurnState, EveryTurnAnswered, Jobs
  <2>4. FinalAlone' /\ FinalJobIsTheUtterance' /\ NothingAfterFinal'
    BY <1>0, <2>1, JobForType DEF FinalAlone, FinalJobIsTheUtterance, NothingAfterFinal, Jobs
  <2> QED
    BY <2>2, <2>3, <2>4 DEF Inv
<1>10. CASE AwaitFinal
  <2> USE <1>10 DEF AwaitFinal, jobVars, Idle
  <2>1. Typed'
    BY <1>0, SilenceType DEF Typed, AtMostOne
  <2>2. Recorded'
    <3>1. gap_buffer.blocks \in Nat /\ utterance.blocks \in Nat
      BY <1>0 DEF Typed, Audio
    <3> QED
      BY <1>0, <3>1, SilenceType DEF Recorded
  <2>3. TurnState' /\ EveryTurnAnswered' /\ FinalAlone'
    BY DEF Inv, TurnState, EveryTurnAnswered, FinalAlone, Jobs
  <2>4. FinalJobIsTheUtterance' /\ NothingAfterFinal'
    BY DEF FinalJobIsTheUtterance, NothingAfterFinal
  <2> QED
    BY <2>1, <2>2, <2>3, <2>4 DEF Inv
<1>11. CASE StreamOver \/ Quit \/ JoinWorker
  <2> USE <1>11 DEF StreamOver, Quit, JoinWorker, Listening, audioVars, jobVars
  <2>1. Typed' /\ Recorded'
    <3>1. /\ open' \in BOOLEAN /\ quit' \in BOOLEAN
          /\ loop' \in {"listen", "ended", "await", "join", "over"}
      BY <1>0 DEF Typed
    <3>2. UNCHANGED <<audioVars, candidate, jobVars, worker, verdict>>
      OBVIOUS
    <3> HIDE <1>11
    <3> QED
      BY <1>0, <3>1, <3>2 DEF Typed, Recorded, AtMostOne
  <2>2. TurnState' /\ EveryTurnAnswered' /\ FinalAlone' /\ NothingAfterFinal'
    BY DEF Inv, TurnState, EveryTurnAnswered, FinalAlone, NothingAfterFinal, Jobs
  <2>3. FinalJobIsTheUtterance'
    BY DEF Inv, FinalJobIsTheUtterance
  <2> QED
    BY <2>1, <2>2, <2>3 DEF Inv
<1> QED
  BY <1>1, <1>2, <1>3, <1>4, <1>5, <1>6, <1>7, <1>8, <1>9, <1>10, <1>11 DEF AudioLoop

(* What handling a decode's outcome, a result or an exception, has in        *)
(* common: only a final answers its turn, and it answers the current one.    *)
LEMMA ResultKeepsInv ==
    ASSUME Inv, NEW job \in busy, busy = {job}, NEW answer \in Verdicts \ {"none"},
           result_in' = TRUE,
           verdict' = IF job.kind # "final" THEN verdict
                      ELSE [verdict EXCEPT ![job.utt] = answer],
           candidate' \in [valid : BOOLEAN, utt : 0 .. MaxUtterances, audio : Audio],
           UNCHANGED <<open, loop, audioVars, pending, busy, quit, worker>>
    PROVE  Inv'
<1> USE DEF audioVars
<1>0. Typed /\ Recorded
  BY DEF Inv
<1>1. job.utt \in Utterances
  BY <1>0 DEF Typed, Job
<1>2. Recorded'
  BY <1>0 DEF Recorded
<1>3. verdict' \in [Utterances -> Verdicts]
  BY <1>0, <1>1 DEF Typed
<1>4. Typed'
  BY <1>0, <1>3 DEF Typed, AtMostOne
<1>5. FinalAlone' /\ FinalJobIsTheUtterance'
  BY DEF Inv, FinalAlone, FinalJobIsTheUtterance, Jobs
<1>6. CASE job.kind # "final"
  <2>1. loop # "await"
    BY <1>6 DEF Inv, FinalAlone, Jobs
  <2>2. TurnState' /\ EveryTurnAnswered' /\ NothingAfterFinal'
    BY <1>6, <2>1 DEF Inv, TurnState, EveryTurnAnswered, NothingAfterFinal
  <2> QED
    BY <1>2, <1>4, <1>5, <2>2 DEF Inv
<1>7. CASE job.kind = "final"
  <2>1. loop = "await" /\ job.utt = utterance_id
    BY <1>7 DEF Inv, FinalJobIsTheUtterance
  <2>2. verdict'[utterance_id] = answer /\ answer # "none"
    BY <1>0, <1>1, <1>7, <2>1 DEF Typed
  <2>3. \A u \in Utterances : u # utterance_id => verdict'[u] = verdict[u]
    BY <1>0, <1>7, <2>1 DEF Typed
  <2>4. TurnState' /\ EveryTurnAnswered'
    BY <1>0, <2>1, <2>2, <2>3 DEF Inv, Typed, TurnState, EveryTurnAnswered, Utterances
  <2>5. NothingAfterFinal'
    BY <1>5, <2>1 DEF FinalAlone, NothingAfterFinal, Jobs
  <2> QED
    BY <1>2, <1>4, <1>5, <2>4, <2>5 DEF Inv
<1> QED
  BY <1>6, <1>7

(* Every step of the decode worker preserves the invariant.                  *)
LEMMA DecodeWorkerInv ==
    ASSUME Inv, DecodeWorker
    PROVE  Inv'
<1> USE VoiceTurnAssumption
<1>0. Typed /\ Recorded
  BY DEF Inv
<1>1. CASE TakeJob
  <2> USE <1>1 DEF TakeJob, audioVars
  <2>1. Typed' /\ Recorded'
    BY <1>0 DEF Typed, Recorded, AtMostOne
  <2>2. ~ result_in
    BY <1>0 DEF Typed
  <2>3. TurnState' /\ EveryTurnAnswered'
    BY <2>2 DEF Inv, TurnState, EveryTurnAnswered, Jobs
  <2>4. FinalAlone' /\ FinalJobIsTheUtterance' /\ NothingAfterFinal'
    BY DEF Inv, FinalAlone, FinalJobIsTheUtterance, NothingAfterFinal, Jobs
  <2> QED
    BY <2>1, <2>3, <2>4 DEF Inv
<1>2. CASE WorkerIdle
  <2> USE <1>2 DEF WorkerIdle, audioVars
  <2>1. Typed' /\ Recorded'
    BY <1>0 DEF Typed, Recorded, AtMostOne
  <2>2. loop = "await" => verdict[utterance_id] # "none"
    BY DEF Inv, TurnState, FinalAlone, Jobs
  <2>3. TurnState' /\ EveryTurnAnswered'
    BY <2>2 DEF Inv, TurnState, EveryTurnAnswered
  <2>4. FinalAlone' /\ FinalJobIsTheUtterance' /\ NothingAfterFinal'
    BY DEF Inv, FinalAlone, FinalJobIsTheUtterance, NothingAfterFinal, Jobs
  <2> QED
    BY <2>1, <2>3, <2>4 DEF Inv
<1>3. CASE WorkerQuits
  <2> USE <1>3 DEF WorkerQuits, audioVars, jobVars
  <2>1. Typed' /\ Recorded'
    BY <1>0 DEF Typed, Recorded, AtMostOne
  <2>2. TurnState' /\ EveryTurnAnswered' /\ FinalAlone'
    BY DEF Inv, TurnState, EveryTurnAnswered, FinalAlone, Jobs
  <2>3. FinalJobIsTheUtterance' /\ NothingAfterFinal'
    BY DEF Inv, FinalJobIsTheUtterance, NothingAfterFinal
  <2> QED
    BY <2>1, <2>2, <2>3 DEF Inv
<1>4. ASSUME NEW job \in busy, NEW nonempty \in BOOLEAN, HandleResult(job, nonempty)
      PROVE  Inv'
  <2> USE <1>4 DEF HandleResult, audioVars
  <2>1. candidate' \in [valid : BOOLEAN, utt : 0 .. MaxUtterances, audio : Audio]
    <3>1. job \in Job
      BY <1>0 DEF Typed
    <3>2. job.utt \in 0 .. MaxUtterances /\ job.audio \in Audio
      BY <3>1 DEF Job, Utterances
    <3>3. candidate \in [valid : BOOLEAN, utt : 0 .. MaxUtterances, audio : Audio]
      BY <1>0 DEF Typed
    <3> HIDE DEF Audio
    <3> QED
      BY <3>2, <3>3
  <2>2. Final(job.utt, job.audio) \in {"final", "clipped"}
    BY DEF Final
  <2> QED
    BY <1>0, <2>1, <2>2, ResultKeepsInv DEF Verdicts
<1>5. ASSUME NEW job \in busy, TranscribeThrows(job) PROVE Inv'
  <2> USE <1>5 DEF TranscribeThrows, audioVars
  <2>1. candidate' \in [valid : BOOLEAN, utt : 0 .. MaxUtterances, audio : Audio]
    BY <1>0 DEF Typed
  <2> QED
    BY <2>1, ResultKeepsInv DEF Verdicts
<1> QED
  BY <1>1, <1>2, <1>3, <1>4, <1>5 DEF DecodeWorker

(* Every step, and every stutter, preserves the invariant.                   *)
LEMMA VoiceNextInv == Inv /\ [VoiceNext]_voiceVars => Inv'
<1> SUFFICES ASSUME Inv, [VoiceNext]_voiceVars PROVE Inv'
  OBVIOUS
<1>1. CASE AudioLoop
  BY <1>1, AudioLoopInv
<1>2. CASE DecodeWorker
  BY <1>2, DecodeWorkerInv
<1>3. CASE UNCHANGED voiceVars
  <2> USE <1>3 DEF voiceVars, audioVars, jobVars
  <2>1. Typed' /\ Recorded'
    BY DEF Inv, Typed, Recorded, AtMostOne
  <2>2. TurnState' /\ EveryTurnAnswered' /\ FinalAlone'
    BY DEF Inv, TurnState, EveryTurnAnswered, FinalAlone, Jobs
  <2>3. FinalJobIsTheUtterance' /\ NothingAfterFinal'
    BY DEF Inv, FinalJobIsTheUtterance, NothingAfterFinal
  <2> QED
    BY <2>1, <2>2, <2>3 DEF Inv
<1> QED
  BY <1>1, <1>2, <1>3 DEF VoiceNext

(* A set with at most one element has cardinality at most one.               *)
LEMMA AtMostOneCardinality ==
    ASSUME NEW S, AtMostOne(S)
    PROVE  Cardinality(S) <= 1
<1>1. CASE S = {}
  BY <1>1, FS_EmptySet
<1>2. CASE S # {}
  <2>1. PICK x : x \in S
    BY <1>2
  <2>2. S = {x}
    BY <2>1 DEF AtMostOne
  <2>3. Cardinality({x}) = 1
    BY FS_Singleton
  <2> QED
    BY <2>2, <2>3
<1> QED
  BY <1>1, <1>2

(* Inv is an invariant of the live voice turn, whatever the order of audio   *)
(* blocks, VAD verdicts and decode results.                                  *)
THEOREM VoiceInvariance == VoiceSpec => []Inv
BY InitInv, VoiceNextInv, PTL DEF VoiceSpec, VoiceSafetySpec

(* Type correctness: the decode slot and the worker each hold at most one    *)
(* decode (worker_loop(), enqueue_decode()), and no recording outgrows its   *)
(* bound.                                                                    *)
THEOREM VoiceTypeCorrect == VoiceSpec => []VoiceTypeOK
<1>1. Inv => VoiceTypeOK
  BY AtMostOneCardinality DEF Inv, Typed, VoiceTypeOK
<1> QED
  BY <1>1, VoiceInvariance, PTL

(* The decode commit_utterance() queues as the final is of the whole         *)
(* utterance, and the loop stays with that utterance until it is done.       *)
THEOREM FinalDecodeIsWhole == VoiceSpec => []FinalJobIsTheUtterance
<1>1. Inv => FinalJobIsTheUtterance
  BY DEF Inv
<1> QED
  BY <1>1, VoiceInvariance, PTL

(* Once handle_result() or the candidate path gave a turn its final, no      *)
(* decode of that turn is queued or running.                                 *)
THEOREM QuietAfterFinal == VoiceSpec => []NothingAfterFinal
<1>1. Inv => NothingAfterFinal
  BY DEF Inv
<1> QED
  BY <1>1, VoiceInvariance, PTL

(* begin_utterance() never opens a turn while an earlier one has neither a   *)
(* final, a discard nor an error.                                            *)
THEOREM TurnsAnswered == VoiceSpec => []EveryTurnAnswered
<1>1. Inv => EveryTurnAnswered
  BY DEF Inv
<1> QED
  BY <1>1, VoiceInvariance, PTL

=============================================================================
