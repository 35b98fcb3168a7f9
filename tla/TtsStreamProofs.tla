--------------------------- MODULE TtsStreamProofs ---------------------------
(***************************************************************************)
(* What TtsStream promises for every set of voices and texts, every size   *)
(* of cache, chunk and context, and every number of requests.              *)
(*                                                                         *)
(* TalkerInv is inductive for the talker.  That a step sees its rows needs *)
(* the embedded prompt to be the segment's, a prefill graph with the       *)
(* prompt's tag to hold the prompt, and room for every frame asked for.    *)
(* DecoderInv is inductive for the decoder: its context is the tail of the *)
(* reference and of all that was heard, of the one voice of the request.   *)
(***************************************************************************)
EXTENDS TtsStream, SequenceTheorems, TLAPS

(* Sequences, tails and the rows of a prompt.                                             *)

\* The generation of a frame, 0 for the reference's, and its number.
Frame == Nat \X Nat

\* Tables with n entries are sequences of length n.
LEMMA TableIsSeq ==
    ASSUME NEW n \in Nat, NEW S, NEW f \in [1 .. n -> S]
    PROVE  f \in Seq(S) /\ Len(f) = n
  <1>1. f \in Seq(S)
    OBVIOUS
  <1>2. 1 .. Len(f) = 1 .. n /\ Len(f) \in Nat
    BY <1>1, LenProperties
  <1> QED
    BY <1>1, <1>2

\* tail_frames() keeps the last frames, as many as there are.
LEMMA TailFramesIs ==
    ASSUME NEW S, NEW s \in Seq(S), NEW n \in Nat
    PROVE  LET k == Least(Len(s), n)
           IN  /\ TailFrames(s, n) \in Seq(S)
               /\ k \in Nat /\ k <= Len(s) /\ Len(TailFrames(s, n)) = k
               /\ \A i \in 1 .. k : TailFrames(s, n)[i] = s[Len(s) - k + i]
  <1> DEFINE k == Least(Len(s), n)
             m == Len(s) - k + 1
  <1>1. Len(s) \in Nat /\ k \in Nat /\ k <= Len(s) /\ m \in Int
    BY LenProperties DEF Least
  <1>2. \A i \in m .. Len(s) : s[i] \in S
    BY <1>1, ElementOfSeq
  <1> HIDE DEF k
  <1>3. /\ SubSeq(s, m, Len(s)) \in Seq(S)
        /\ Len(SubSeq(s, m, Len(s))) = IF m <= Len(s) THEN Len(s) - m + 1 ELSE 0
        /\ \A i \in 1 .. Len(s) - m + 1 : SubSeq(s, m, Len(s))[i] = s[m + i - 1]
    BY <1>1, <1>2, SubSeqProperties
  <1>4. Len(SubSeq(s, m, Len(s))) = k
    BY <1>1, <1>3
  <1>5. \A i \in 1 .. k : SubSeq(s, m, Len(s))[i] = s[Len(s) - k + i]
    BY <1>1, <1>3
  <1>6. TailFrames(s, n) = SubSeq(s, m, Len(s))
    BY DEF TailFrames, k
  <1> QED
    BY <1>1, <1>3, <1>4, <1>5, <1>6 DEF k

\* A tail of a tail is as long as the tail.
LEMMA LeastOfLeast ==
    ASSUME NEW a \in Nat, NEW p \in Nat, NEW n \in Nat
    PROVE  /\ Least(Least(a, n) + p, n) = Least(a + p, n)
           /\ Least(a + p, n) \in Nat /\ Least(a + p, n) <= Least(a, n) + p
  BY DEF Least

\* Where an entry of a tail was in the whole.
LEMMA Shifted ==
    ASSUME NEW a \in Nat, NEW p \in Nat, NEW k \in Nat, k <= a, NEW j \in 1 .. k + p
    PROVE  /\ a - k + j \in 1 .. a + p
           /\ j <= k <=> a - k + j <= a
           /\ a - k + j - a = j - k
  OBVIOUS

\* What decode_pending() keeps as its context, the tail of a window that began with a tail,
\* is the tail of everything before.
LEMMA TailOfTail ==
    ASSUME NEW S, NEW a \in Seq(S), NEW p \in Seq(S), NEW n \in Nat
    PROVE  TailFrames(TailFrames(a, n) \o p, n) = TailFrames(a \o p, n)
  <1> DEFINE t == TailFrames(a, n)
             k == Least(Len(a), n)
             x == t \o p
             y == a \o p
             d == Len(a) - k
             h == Least(Len(y), n)
  <1>1. /\ t \in Seq(S) /\ Len(t) = k /\ k \in Nat /\ k <= Len(a)
        /\ \A i \in 1 .. k : t[i] = a[d + i]
    BY TailFramesIs
  <1>2. /\ Len(a) \in Nat /\ Len(p) \in Nat
        /\ x \in Seq(S) /\ Len(x) = k + Len(p)
        /\ y \in Seq(S) /\ Len(y) = Len(a) + Len(p)
    BY <1>1, ConcatProperties, LenProperties
  <1>3. \A i \in 1 .. k + Len(p) : x[i] = IF i <= k THEN t[i] ELSE p[i - k]
    BY <1>1, ConcatProperties
  <1>4. \A i \in 1 .. Len(a) + Len(p) : y[i] = IF i <= Len(a) THEN a[i] ELSE p[i - Len(a)]
    BY <1>1, ConcatProperties
  <1>5. k = Least(Len(a), n)
    OBVIOUS
  <1>d. d = Len(a) - k /\ d \in Int
    BY <1>1, <1>2
  <1> HIDE DEF t, k, x, y, d
  <1>6. ASSUME NEW j \in 1 .. k + Len(p) PROVE x[j] = y[d + j]
    <2>1. /\ d + j \in 1 .. Len(a) + Len(p)
          /\ j <= k <=> d + j <= Len(a)
          /\ d + j - Len(a) = j - k
      <3>1. Len(a) - k + j \in 1 .. Len(a) + Len(p) /\ (j <= k <=> Len(a) - k + j <= Len(a))
              /\ Len(a) - k + j - Len(a) = j - k
        BY <1>1, <1>2, Shifted
      <3> QED
        BY <1>d, <3>1
    <2>2. y[d + j] = IF d + j <= Len(a) THEN a[d + j] ELSE p[d + j - Len(a)]
      BY <1>2, <1>4, <1>d, <2>1
    <2>3. y[d + j] = IF j <= k THEN a[d + j] ELSE p[j - k]
      BY <2>1, <2>2
    <2>4. x[j] = IF j <= k THEN a[d + j] ELSE p[j - k]
      BY <1>1, <1>3
    <2> QED
      BY <2>3, <2>4
  <1>7. Least(Len(x), n) = h /\ h \in Nat /\ h <= k + Len(p)
    <2>1. h = Least(Len(a) + Len(p), n)
      BY <1>2
    <2>2. Least(Len(x), n) = Least(Least(Len(a), n) + Len(p), n)
      BY <1>2, <1>5
    <2> HIDE DEF h
    <2> QED
      BY <1>2, <1>5, <2>1, <2>2, LeastOfLeast
  <1>8. /\ TailFrames(x, n) \in Seq(S) /\ Len(TailFrames(x, n)) = h
        /\ \A i \in 1 .. h : TailFrames(x, n)[i] = x[Len(x) - h + i]
    <2>1. /\ TailFrames(x, n) \in Seq(S) /\ Len(TailFrames(x, n)) = Least(Len(x), n)
          /\ \A i \in 1 .. Least(Len(x), n) :
                TailFrames(x, n)[i] = x[Len(x) - Least(Len(x), n) + i]
      BY <1>2, TailFramesIs
    <2> HIDE DEF h
    <2> QED
      BY <1>7, <2>1
  <1>9. /\ TailFrames(y, n) \in Seq(S) /\ Len(TailFrames(y, n)) = h
        /\ \A i \in 1 .. h : TailFrames(y, n)[i] = y[Len(y) - h + i]
    BY <1>2, TailFramesIs
  <1> HIDE DEF h
  <1>10. ASSUME NEW i \in 1 .. h PROVE TailFrames(x, n)[i] = TailFrames(y, n)[i]
    <2>1. Len(x) - h + i \in 1 .. k + Len(p) /\ d + (Len(x) - h + i) = Len(y) - h + i
      BY <1>1, <1>2, <1>7, <1>d
    <2>2. x[Len(x) - h + i] = y[d + (Len(x) - h + i)]
      BY <1>6, <2>1
    <2> QED
      BY <1>8, <1>9, <2>1, <2>2
  <1> QED
    BY <1>8, <1>9, <1>10, SeqEqual DEF t, x, y

\* The rows of a prompt and its text are tables; each prompt has a length.
LEMMA PromptShape ==
    ASSUME NEW c \in Voices \X Texts
    PROVE  /\ Len(TextRows(c)) \in Nat /\ Len(CodecRows(c)) \in Nat
           /\ Steps(c) \in Nat /\ Steps(c) = 1 + Len(CodecRows(c)) /\ Steps(c) >= 1
           /\ Steps(c) \in Lengths
           /\ TextRows(c) \in Seq({TextRows(c)[i] : i \in 1 .. Len(TextRows(c))})
  <1> USE TtsAssumption
  <1>1. c[1] \in Voices /\ c[2] \in Texts
    OBVIOUS
  <1> DEFINE ref == IF c[1] \in Clones THEN RefText[c[1]] ELSE 0
             nt == ref + TextLen[c[2]] + 1
             nc == IF c[1] \in Clones THEN RefFrames[c[1]] + 1 ELSE TextLen[c[2]] + 2
  <1>2. nt \in Nat /\ nc \in Nat
    BY <1>1
  <1>3. /\ TextRows(c) = [i \in 1 .. nt |-> TextRows(c)[i]]
        /\ CodecRows(c) = [i \in 1 .. nc |-> CodecRows(c)[i]]
    BY DEF TextRows, CodecRows
  <1> HIDE DEF nt, nc
  <1>4. TextRows(c) \in [1 .. nt -> {TextRows(c)[i] : i \in 1 .. nt}]
    BY <1>3
  <1>5. CodecRows(c) \in [1 .. nc -> {CodecRows(c)[i] : i \in 1 .. nc}]
    BY <1>3
  <1>6. Len(TextRows(c)) = nt /\ TextRows(c) \in Seq({TextRows(c)[i] : i \in 1 .. nt})
    BY <1>2, <1>4, TableIsSeq
  <1>7. Len(CodecRows(c)) = nc
    BY <1>2, <1>5, TableIsSeq
  <1> QED
    BY <1>2, <1>6, <1>7 DEF Steps, Lengths

\* A step's row lines up with the prompt's: the text left over by the prompt continues where
\* the prompt ends, whether the text or the codec lead is the longer one.
LEMMA FrameRowLinesUp ==
    ASSUME NEW c \in Voices \X Texts, NEW g \in Nat, NEW n \in Nat, n >= 1
    PROVE  FrameRow(c, <<g, n>>) = Lockstep(c, g, Steps(c) + n)
  <1> DEFINE T == TextRows(c)
             C == Len(CodecRows(c))
             j == Steps(c) + n
  <1>1. Len(T) \in Nat /\ C \in Nat /\ Steps(c) = 1 + C
    BY PromptShape
  <1>2. Lockstep(c, g, j) = <<IF C + n <= Len(T) THEN T[C + n] ELSE Pad, <<"frame", g, n>>>>
    BY <1>1 DEF Lockstep
  <1>3. CASE Len(T) > C
    <2> DEFINE tr == SubSeq(T, C + 1, Len(T))
    <2>1. Trailing(c) = tr
      BY <1>3 DEF Trailing
    <2>2. /\ Len(tr) = Len(T) - C
          /\ \A i \in 1 .. Len(T) - C : tr[i] = T[C + i]
      <3>1. \A i \in C + 1 .. Len(T) : T[i] \in {T[k] : k \in 1 .. Len(T)}
        BY <1>1
      <3>2. /\ Len(tr) = IF C + 1 <= Len(T) THEN Len(T) - (C + 1) + 1 ELSE 0
            /\ \A i \in 1 .. Len(T) - (C + 1) + 1 : tr[i] = T[C + 1 + i - 1]
        BY <1>1, <3>1, SubSeqProperties
      <3> QED
        BY <1>1, <1>3, <3>2
    <2> HIDE DEF tr
    <2>3. FrameRow(c, <<g, n>>) = <<IF n <= Len(tr) THEN tr[n] ELSE Pad, <<"frame", g, n>>>>
      BY <2>1 DEF FrameRow
    <2> QED
      BY <1>1, <1>2, <1>3, <2>2, <2>3
  <1>4. CASE ~ (Len(T) > C)
    <2>1. Trailing(c) = <<Pad>>
      BY <1>4 DEF Trailing
    <2>2. FrameRow(c, <<g, n>>) = <<IF n <= 1 THEN <<Pad>>[n] ELSE Pad, <<"frame", g, n>>>>
      BY <2>1 DEF FrameRow
    <2>3. (IF n <= 1 THEN <<Pad>>[n] ELSE Pad) = Pad
      OBVIOUS
    <2> QED
      BY <1>1, <1>2, <1>4, <2>2, <2>3
  <1> QED
    BY <1>3, <1>4

----------------------------------------------------------------------------
(* The talker.                                                                            *)

Resting    == {"idle", "segment"}
Generating == {"sample", "frame", "grow", "step"}

Graph == [serial : Nat, tag : Nat, holds : (Voices \X Texts) \cup {None}, used : Nat]

\* Where the thread is, and how far: a request asks for at least one frame.
TalkerTypeOK ==
    /\ pc \in Resting \cup {"prefill", "size", "transfer"} \cup Generating
    /\ gen \in Nat /\ made \in Nat /\ maxNew \in Nat
    /\ pc # "idle" => maxNew >= 1
    /\ todo \in Seq(Prompts)

\* The step cache has the rows it says; the copy graph joins two serial numbers.
StepCacheOK ==
    /\ cap \in Nat /\ builds \in Nat /\ valid \in Nat /\ end \in Nat
    /\ DOMAIN rows = 1 .. cap

\* The embedded prompt is the segment's.
PromptIsAsked ==
    /\ cachedPrompt \in Prompts \cup {None}
    /\ cachedPrompt # None => state = cachedPrompt /\ tag # 0
    /\ pc \notin Resting => asked \in Prompts /\ cachedPrompt = asked

\* Tags are taken in order, and a graph with the prompt's tag holds the prompt.
GraphsAreTagged ==
    /\ tag \in Nat /\ tag <= gen
    /\ graphs \in [Lengths -> Graph]
    /\ \A n \in Lengths :
        /\ graphs[n].tag <= gen
        /\ graphs[n].tag = tag /\ tag # 0 => graphs[n].holds = state /\ output = state
    /\ pc \in {"size", "transfer"} => graphs[Steps(state)].holds = state
    /\ pc \in {"size", "transfer"} \cup Generating => output = state

\* The frames made so far leave room for the next one.
RoomToStep ==
    /\ pc \in {"prefill", "size", "transfer"} => made = 0
    /\ pc = "frame" => made + 1 < maxNew
    /\ pc \in {"grow", "step"} => made >= 1 /\ made < maxNew
    /\ pc = "transfer" => cap >= Steps(state) + 1

LinkOK == link \in Nat \X Nat

TalkerInv ==
    /\ TalkerTypeOK /\ StepCacheOK /\ LinkOK
    /\ PromptIsAsked /\ GraphsAreTagged /\ RoomToStep /\ StepSeesItsRows

\* While a segment is spoken, its prompt is the one that is embedded.
LEMMA StateIsAsked ==
    ASSUME PromptIsAsked, pc \notin Resting
    PROVE  state = asked /\ asked \in Prompts /\ asked \in Voices \X Texts /\ tag # 0
  BY TtsAssumption DEF PromptIsAsked

\* The talker's state stays well typed.
LEMMA TypeKept ==
    ASSUME TalkerTypeOK, [TtsNext]_ttsVars
    PROVE  TalkerTypeOK'
  <1> USE TtsAssumption
  <1>1. CASE StartStream
    <2>1. todo' \in Seq(Prompts) /\ maxNew' \in Nat \ {0}
      <3>1. PICK n \in 1 .. MaxSegments, v \in Voices : todo' \in [1 .. n -> {c \in Prompts : c[1] = v}]
        BY <1>1 DEF StartStream
      <3>2. todo' \in [1 .. n -> Prompts] /\ n \in Nat
        BY <3>1
      <3>3. todo' \in Seq(Prompts)
        BY <3>2, TableIsSeq
      <3> QED
        BY <1>1, <3>3 DEF StartStream
    <2> QED
      BY <1>1, <2>1 DEF StartStream, requestVars, promptVars, prefillVars, cacheVars,
         decoderVars, TalkerTypeOK, Resting, Generating
  <1>2. CASE FinishStream
    BY <1>2 DEF FinishStream, Release, Released, requestVars, promptVars, prefillVars,
       cacheVars, decoderVars, TalkerTypeOK, Resting, Generating
  <1>3. CASE TakeResult
    BY <1>3 DEF TakeResult, requestVars, promptVars, prefillVars, cacheVars, decoderVars,
       TalkerTypeOK, Resting, Generating
  <1>4. CASE Reset
    BY <1>4 DEF Reset, requestVars, promptVars, prefillVars, cacheVars, decoderVars,
       TalkerTypeOK, Resting, Generating
  <1>5. CASE Cancel
    BY <1>5 DEF Cancel, requestVars, promptVars, prefillVars, cacheVars, decoderVars,
       TalkerTypeOK, Resting, Generating
  <1>6. CASE Throws
    BY <1>6 DEF Throws, Release, Released, Unwind, requestVars, promptVars, prefillVars,
       cacheVars, decoderVars, TalkerTypeOK, Resting, Generating
  <1>7. CASE BeginSegment
    <2>1. todo' \in Seq(Prompts)
      BY <1>7, HeadTailProperties DEF BeginSegment, TalkerTypeOK
    <2>2. pc' = "prefill" /\ gen' = gen + 1 /\ made' = 0 /\ UNCHANGED maxNew /\ pc = "segment"
      BY <1>7 DEF BeginSegment
    <2> QED
      BY <2>1, <2>2 DEF TalkerTypeOK, Resting, Generating
  <1>8. CASE Prefill
    BY <1>8 DEF Prefill, requestVars, promptVars, prefillVars, cacheVars, decoderVars,
       TalkerTypeOK, Resting, Generating
  <1>9. CASE PrefillFails
    BY <1>9 DEF PrefillFails, Release, Released, Unwind, requestVars, promptVars, prefillVars,
       cacheVars, decoderVars, TalkerTypeOK, Resting, Generating
  <1>10. CASE Grow
    BY <1>10 DEF Grow, Growing, requestVars, promptVars, prefillVars, cacheVars, decoderVars,
       TalkerTypeOK, Resting, Generating
  <1>11. CASE GrowFails
    BY <1>11 DEF GrowFails, Growing, Released, Unwind, requestVars, promptVars, prefillVars,
       cacheVars, decoderVars, TalkerTypeOK, Resting, Generating
  <1>12. CASE Transfer
    BY <1>12 DEF Transfer, requestVars, promptVars, prefillVars, cacheVars, decoderVars,
       TalkerTypeOK, Resting, Generating
  <1>13. CASE EndGeneration
    BY <1>13 DEF EndGeneration, requestVars, promptVars, prefillVars, cacheVars, decoderVars,
       TalkerTypeOK, Resting, Generating
  <1>14. CASE Sample
    BY <1>14 DEF Sample, requestVars, promptVars, prefillVars, cacheVars, decoderVars,
       TalkerTypeOK, Resting, Generating
  <1>15. CASE Deliver
    BY <1>15 DEF Deliver, requestVars, promptVars, prefillVars, cacheVars, decoderVars,
       TalkerTypeOK, Resting, Generating
  <1>16. CASE CallbackStops
    BY <1>16 DEF CallbackStops, requestVars, promptVars, prefillVars, cacheVars, decoderVars,
       TalkerTypeOK, Resting, Generating
  <1>17. CASE RunStep
    BY <1>17 DEF RunStep, requestVars, promptVars, prefillVars, cacheVars, decoderVars,
       TalkerTypeOK, Resting, Generating
  <1>18. CASE ComputeFails
    BY <1>18 DEF ComputeFails, Released, Unwind, requestVars, promptVars, prefillVars,
       cacheVars, decoderVars, TalkerTypeOK, Resting, Generating
  <1>19. CASE UNCHANGED ttsVars
    BY <1>19 DEF ttsVars, requestVars, promptVars, prefillVars, cacheVars, decoderVars,
       TalkerTypeOK, Resting, Generating
  <1> QED
    BY <1>1, <1>2, <1>3, <1>4, <1>5, <1>6, <1>7, <1>8, <1>9, <1>10, <1>11, <1>12, <1>13,
       <1>14, <1>15, <1>16, <1>17, <1>18, <1>19 DEF TtsNext, Session, Talker

\* The prompt stays the segment's.
LEMMA PromptKept ==
    ASSUME TalkerTypeOK, PromptIsAsked, GraphsAreTagged, [TtsNext]_ttsVars
    PROVE  PromptIsAsked'
  <1> USE TtsAssumption
  <1>1. CASE StartStream
    BY <1>1 DEF StartStream, requestVars, promptVars, prefillVars, cacheVars, decoderVars,
       TalkerTypeOK, PromptIsAsked, GraphsAreTagged, Resting, Generating
  <1>2. CASE FinishStream
    BY <1>2 DEF FinishStream, Release, Released, requestVars, promptVars, prefillVars,
       cacheVars, decoderVars, TalkerTypeOK, PromptIsAsked, GraphsAreTagged, Resting,
       Generating
  <1>3. CASE TakeResult
    BY <1>3 DEF TakeResult, requestVars, promptVars, prefillVars, cacheVars, decoderVars,
       TalkerTypeOK, PromptIsAsked, GraphsAreTagged, Resting, Generating
  <1>4. CASE Reset
    BY <1>4 DEF Reset, requestVars, promptVars, prefillVars, cacheVars, decoderVars,
       TalkerTypeOK, PromptIsAsked, GraphsAreTagged, Resting, Generating
  <1>5. CASE Cancel
    BY <1>5 DEF Cancel, requestVars, promptVars, prefillVars, cacheVars, decoderVars,
       TalkerTypeOK, PromptIsAsked, GraphsAreTagged, Resting, Generating
  <1>6. CASE Throws
    BY <1>6 DEF Throws, Release, Released, Unwind, requestVars, promptVars, prefillVars,
       cacheVars, decoderVars, TalkerTypeOK, PromptIsAsked, GraphsAreTagged, Resting,
       Generating
  <1>7. CASE BeginSegment
    <2>1. todo[1] \in Prompts
      BY <1>7, EmptySeq, ElementOfSeq DEF BeginSegment, TalkerTypeOK
    <2>2. IF todo[1][1] \in Clones THEN <<PartsOf(todo[1]), todo[1][2]>> = todo[1] ELSE TRUE
      BY <2>1 DEF PartsOf
    <2>3. tag' # 0 \/ UNCHANGED promptVars
      <3>1. tag' = gen + 1 \/ UNCHANGED promptVars
        BY <1>7 DEF BeginSegment, EmbedPrompt, promptVars
      <3> QED
        BY <3>1 DEF TalkerTypeOK
    <2> QED
      BY <1>7, <2>1, <2>2, <2>3
      DEF BeginSegment, EmbedPrompt, promptVars, PromptIsAsked, Resting
  <1>8. CASE Prefill
    BY <1>8 DEF Prefill, requestVars, promptVars, prefillVars, cacheVars, decoderVars,
       TalkerTypeOK, PromptIsAsked, GraphsAreTagged, Resting, Generating
  <1>9. CASE PrefillFails
    BY <1>9 DEF PrefillFails, Release, Released, Unwind, requestVars, promptVars, prefillVars,
       cacheVars, decoderVars, TalkerTypeOK, PromptIsAsked, GraphsAreTagged, Resting,
       Generating
  <1>10. CASE Grow
    BY <1>10 DEF Grow, Growing, requestVars, promptVars, prefillVars, cacheVars, decoderVars,
       TalkerTypeOK, PromptIsAsked, GraphsAreTagged, Resting, Generating
  <1>11. CASE GrowFails
    BY <1>11 DEF GrowFails, Growing, Released, Unwind, requestVars, promptVars, prefillVars,
       cacheVars, decoderVars, TalkerTypeOK, PromptIsAsked, GraphsAreTagged, Resting,
       Generating
  <1>12. CASE Transfer
    BY <1>12 DEF Transfer, requestVars, promptVars, prefillVars, cacheVars, decoderVars,
       TalkerTypeOK, PromptIsAsked, GraphsAreTagged, Resting, Generating
  <1>13. CASE EndGeneration
    BY <1>13 DEF EndGeneration, requestVars, promptVars, prefillVars, cacheVars, decoderVars,
       TalkerTypeOK, PromptIsAsked, GraphsAreTagged, Resting, Generating
  <1>14. CASE Sample
    BY <1>14 DEF Sample, requestVars, promptVars, prefillVars, cacheVars, decoderVars,
       TalkerTypeOK, PromptIsAsked, GraphsAreTagged, Resting, Generating
  <1>15. CASE Deliver
    BY <1>15 DEF Deliver, requestVars, promptVars, prefillVars, cacheVars, decoderVars,
       TalkerTypeOK, PromptIsAsked, GraphsAreTagged, Resting, Generating
  <1>16. CASE CallbackStops
    BY <1>16 DEF CallbackStops, requestVars, promptVars, prefillVars, cacheVars, decoderVars,
       TalkerTypeOK, PromptIsAsked, GraphsAreTagged, Resting, Generating
  <1>17. CASE RunStep
    BY <1>17 DEF RunStep, requestVars, promptVars, prefillVars, cacheVars, decoderVars,
       TalkerTypeOK, PromptIsAsked, GraphsAreTagged, Resting, Generating
  <1>18. CASE ComputeFails
    BY <1>18 DEF ComputeFails, Released, Unwind, requestVars, promptVars, prefillVars,
       cacheVars, decoderVars, TalkerTypeOK, PromptIsAsked, GraphsAreTagged, Resting,
       Generating
  <1>19. CASE UNCHANGED ttsVars
    BY <1>19 DEF ttsVars, requestVars, promptVars, prefillVars, cacheVars, decoderVars,
       TalkerTypeOK, PromptIsAsked, GraphsAreTagged, Resting, Generating
  <1> QED
    BY <1>1, <1>2, <1>3, <1>4, <1>5, <1>6, <1>7, <1>8, <1>9, <1>10, <1>11, <1>12, <1>13,
       <1>14, <1>15, <1>16, <1>17, <1>18, <1>19 DEF TtsNext, Session, Talker

\* A new tag is one that no graph has.
LEMMA TagsBounded ==
    ASSUME TalkerTypeOK, GraphsAreTagged
    PROVE  \A n \in Lengths : graphs[n].tag \in Nat /\ graphs[n].tag < gen + 1
  BY DEF TalkerTypeOK, GraphsAreTagged, Graph

\* What the graph cache is after ensure_prefill_graph(n): n is there, and no graph has a tag
\* it had not.
EnsuredIsTagged(n) ==
    /\ Ensured(n) \in [Lengths -> Graph]
    /\ \A m \in Lengths :
        /\ Ensured(n)[m].tag <= gen
        /\ Ensured(n)[m].tag = tag /\ tag # 0 => Ensured(n)[m].holds = state /\ output = state

\* Making room for a graph and finding or building it invents no tag.
LEMMA EnsuredTags ==
    ASSUME TalkerTypeOK, GraphsAreTagged, NEW n \in Lengths
    PROVE  EnsuredIsTagged(n)
  <1>1. /\ Absent \in Graph /\ Absent.tag = 0
        /\ [serial |-> gen, tag |-> 0, holds |-> None, used |-> gen] \in Graph
    BY DEF Absent, Graph, TalkerTypeOK
  <1>2. ASSUME NEW m \in Lengths
        PROVE  /\ Ensured(n)[m] \in Graph
               /\ \/ Ensured(n)[m].tag = 0
                  \/ Ensured(n)[m].tag = graphs[m].tag /\ Ensured(n)[m].holds = graphs[m].holds
    <2>1. [graphs[n] EXCEPT !.used = gen] \in Graph
      BY DEF GraphsAreTagged, TalkerTypeOK, Graph
    <2>2. /\ [graphs[n] EXCEPT !.used = gen].tag = graphs[n].tag
          /\ [graphs[n] EXCEPT !.used = gen].holds = graphs[n].holds
      BY DEF GraphsAreTagged, Graph
    <2>3. graphs[m] \in Graph
      BY DEF GraphsAreTagged
    <2> QED
      BY <1>1, <2>1, <2>2, <2>3 DEF Ensured
  <1>3. Ensured(n) \in [Lengths -> Graph]
    <2>1. Ensured(n) = [m \in Lengths |-> Ensured(n)[m]]
      BY DEF Ensured
    <2> QED
      BY <1>2, <2>1
  <1> QED
    BY <1>2, <1>3 DEF EnsuredIsTagged, GraphsAreTagged, TalkerTypeOK

\* Tags stay in order, whatever is evicted, rebuilt, overwritten or left half computed.
LEMMA TagsKept ==
    ASSUME TalkerTypeOK, PromptIsAsked, GraphsAreTagged, [TtsNext]_ttsVars
    PROVE  GraphsAreTagged'
  <1> USE TtsAssumption
  <1>1. CASE StartStream
    BY <1>1 DEF StartStream, requestVars, promptVars, prefillVars, cacheVars, decoderVars,
       TalkerTypeOK, PromptIsAsked, GraphsAreTagged, Resting, Generating
  <1>2. CASE FinishStream
    BY <1>2 DEF FinishStream, Release, Released, requestVars, promptVars, prefillVars,
       cacheVars, decoderVars, TalkerTypeOK, PromptIsAsked, GraphsAreTagged, Resting,
       Generating
  <1>3. CASE TakeResult
    BY <1>3 DEF TakeResult, requestVars, promptVars, prefillVars, cacheVars, decoderVars,
       TalkerTypeOK, PromptIsAsked, GraphsAreTagged, Resting, Generating
  <1>4. CASE Reset
    BY <1>4 DEF Reset, requestVars, promptVars, prefillVars, cacheVars, decoderVars,
       TalkerTypeOK, PromptIsAsked, GraphsAreTagged, Resting, Generating
  <1>5. CASE Cancel
    BY <1>5 DEF Cancel, requestVars, promptVars, prefillVars, cacheVars, decoderVars,
       TalkerTypeOK, PromptIsAsked, GraphsAreTagged, Resting, Generating
  <1>6. CASE Throws
    BY <1>6 DEF Throws, Release, Released, Unwind, requestVars, promptVars, prefillVars,
       cacheVars, decoderVars, TalkerTypeOK, PromptIsAsked, GraphsAreTagged, Resting,
       Generating
  <1>7. CASE BeginSegment
    <2>1. UNCHANGED graphs /\ gen' = gen + 1 /\ pc' = "prefill" /\ gen \in Nat
      BY <1>7 DEF BeginSegment, TalkerTypeOK
    <2>2. CASE cachedPrompt = todo[1]
      <3>1. UNCHANGED <<tag, state, output>>
        BY <1>7, <2>2 DEF BeginSegment, EmbedPrompt, promptVars
      <3> QED
        BY <2>1, <3>1, TagsBounded DEF GraphsAreTagged, Generating
    <2>3. CASE cachedPrompt # todo[1]
      <3>1. tag' = gen + 1
        BY <1>7, <2>3 DEF BeginSegment, EmbedPrompt
      <3> QED
        BY <2>1, <3>1, TagsBounded DEF GraphsAreTagged, Generating
    <2> QED
      BY <2>2, <2>3
  <1>8. CASE Prefill
    <2> DEFINE n == Steps(state)
    <2>1. /\ state \in Voices \X Texts /\ n \in Lengths /\ tag # 0
          /\ tag \in Nat /\ tag <= gen /\ gen \in Nat
      BY <1>8, StateIsAsked, PromptShape
      DEF Prefill, Resting, GraphsAreTagged, TalkerTypeOK
    <2>2. EnsuredIsTagged(n)
      BY <2>1, EnsuredTags
    <2>3. CASE PrefillHit(n)
      BY <1>8, <2>1, <2>2, <2>3
      DEF Prefill, PrefillHit, EnsuredIsTagged, GraphsAreTagged, requestVars, promptVars,
          prefillVars, cacheVars, decoderVars, Generating
    <2>4. CASE ~ PrefillHit(n)
      <3>1. graphs' = [Ensured(n) EXCEPT ![n].tag = tag, ![n].holds = state] /\ output' = state
        BY <1>8, <2>4 DEF Prefill
      <3>2. graphs' \in [Lengths -> Graph]
        <4> DEFINE g == [Ensured(n)[n] EXCEPT !.tag = tag, !.holds = state]
        <4>1. graphs' = [Ensured(n) EXCEPT ![n] = g]
          BY <2>1, <2>2, <3>1 DEF EnsuredIsTagged, Graph
        <4>2. Ensured(n)[n] \in Graph
          BY <2>1, <2>2 DEF EnsuredIsTagged
        <4> HIDE DEF n
        <4>3. g \in Graph
          BY <2>1, <4>2 DEF Graph
        <4> QED
          BY <2>1, <2>2, <4>1, <4>3 DEF EnsuredIsTagged
      <3>3. \A m \in Lengths \ {n} : graphs'[m] = Ensured(n)[m]
        BY <2>1, <2>2, <3>1 DEF EnsuredIsTagged
      <3>4. graphs'[n].tag = tag /\ graphs'[n].holds = state
        BY <2>1, <2>2, <3>1 DEF EnsuredIsTagged, Graph
      <3>5. UNCHANGED <<gen, tag, state>> /\ pc' = "size"
        BY <1>8 DEF Prefill, promptVars
      <3>6. ASSUME NEW m \in Lengths
            PROVE  /\ graphs'[m].tag <= gen
                   /\ graphs'[m].tag = tag => graphs'[m].holds = state
        BY <2>1, <2>2, <3>3, <3>4 DEF EnsuredIsTagged
      <3> QED
        BY <2>1, <3>1, <3>2, <3>4, <3>5, <3>6 DEF GraphsAreTagged, Generating
    <2> QED
      BY <2>3, <2>4
  <1>9. CASE PrefillFails
    <2> DEFINE n == Steps(state)
    <2>1. /\ state \in Voices \X Texts /\ n \in Lengths /\ tag # 0
          /\ tag \in Nat /\ tag <= gen /\ gen \in Nat
      BY <1>9, StateIsAsked, PromptShape
      DEF PrefillFails, Resting, GraphsAreTagged, TalkerTypeOK
    <2>2. EnsuredIsTagged(n)
      BY <2>1, EnsuredTags
    <2>3. graphs' = [Ensured(n) EXCEPT ![n].holds = None] /\ UNCHANGED <<gen, tag, state, output>>
      BY <1>9 DEF PrefillFails, Unwind, promptVars
    <2>4. graphs' \in [Lengths -> Graph]
      BY <2>1, <2>2, <2>3 DEF EnsuredIsTagged, Graph
    <2>5. \A m \in Lengths \ {n} : graphs'[m] = Ensured(n)[m]
      BY <2>1, <2>2, <2>3 DEF EnsuredIsTagged
    <2>6. graphs'[n].tag = Ensured(n)[n].tag
      BY <2>1, <2>2, <2>3 DEF EnsuredIsTagged, Graph
    <2>7. Ensured(n)[n].tag # tag
      BY <1>9, <2>1, <2>2 DEF PrefillFails, PrefillHit, EnsuredIsTagged, GraphsAreTagged
    <2>8. pc' = "idle"
      BY <1>9 DEF PrefillFails, Unwind
    <2> QED
      BY <2>1, <2>2, <2>3, <2>4, <2>5, <2>6, <2>7, <2>8
      DEF EnsuredIsTagged, GraphsAreTagged, Generating
  <1>10. CASE Grow
    BY <1>10 DEF Grow, Growing, requestVars, promptVars, prefillVars, cacheVars, decoderVars,
       TalkerTypeOK, PromptIsAsked, GraphsAreTagged, Resting, Generating
  <1>11. CASE GrowFails
    BY <1>11 DEF GrowFails, Growing, Released, Unwind, requestVars, promptVars, prefillVars,
       cacheVars, decoderVars, TalkerTypeOK, PromptIsAsked, GraphsAreTagged, Resting,
       Generating
  <1>12. CASE Transfer
    BY <1>12 DEF Transfer, requestVars, promptVars, prefillVars, cacheVars, decoderVars,
       TalkerTypeOK, PromptIsAsked, GraphsAreTagged, Resting, Generating
  <1>13. CASE EndGeneration
    BY <1>13 DEF EndGeneration, requestVars, promptVars, prefillVars, cacheVars, decoderVars,
       TalkerTypeOK, PromptIsAsked, GraphsAreTagged, Resting, Generating
  <1>14. CASE Sample
    BY <1>14 DEF Sample, requestVars, promptVars, prefillVars, cacheVars, decoderVars,
       TalkerTypeOK, PromptIsAsked, GraphsAreTagged, Resting, Generating
  <1>15. CASE Deliver
    BY <1>15 DEF Deliver, requestVars, promptVars, prefillVars, cacheVars, decoderVars,
       TalkerTypeOK, PromptIsAsked, GraphsAreTagged, Resting, Generating
  <1>16. CASE CallbackStops
    BY <1>16 DEF CallbackStops, requestVars, promptVars, prefillVars, cacheVars, decoderVars,
       TalkerTypeOK, PromptIsAsked, GraphsAreTagged, Resting, Generating
  <1>17. CASE RunStep
    BY <1>17 DEF RunStep, requestVars, promptVars, prefillVars, cacheVars, decoderVars,
       TalkerTypeOK, PromptIsAsked, GraphsAreTagged, Resting, Generating
  <1>18. CASE ComputeFails
    BY <1>18 DEF ComputeFails, Released, Unwind, requestVars, promptVars, prefillVars,
       cacheVars, decoderVars, TalkerTypeOK, PromptIsAsked, GraphsAreTagged, Resting,
       Generating
  <1>19. CASE UNCHANGED ttsVars
    BY <1>19 DEF ttsVars, requestVars, promptVars, prefillVars, cacheVars, decoderVars,
       TalkerTypeOK, PromptIsAsked, GraphsAreTagged, Resting, Generating
  <1> QED
    BY <1>1, <1>2, <1>3, <1>4, <1>5, <1>6, <1>7, <1>8, <1>9, <1>10, <1>11, <1>12, <1>13,
       <1>14, <1>15, <1>16, <1>17, <1>18, <1>19 DEF TtsNext, Session, Talker

\* A cache that is released is an empty one; a request that ends leaves the cache or releases it.
LEMMA ReleaseKeeps ==
    ASSUME StepCacheOK, Released \/ Release
    PROVE  StepCacheOK'
  <1>1. ASSUME Released PROVE StepCacheOK'
    <2>1. DOMAIN rows' = {} /\ 1 .. cap' = {}
      BY <1>1 DEF Released
    <2> QED
      BY <1>1, <2>1 DEF Released, StepCacheOK
  <1> QED
    BY <1>1 DEF Release, cacheVars, StepCacheOK

\* The new cache holds the row it was grown for.
LEMMA GrownEnough ==
    ASSUME TalkerTypeOK, StepCacheOK, RoomToStep, Growing, Steps(state) \in Nat
    PROVE  NewCap \in Nat /\ NewCap >= Needed /\ Needed \in Nat
  <1> DEFINE asksFor == IF pc = "size" THEN 1 ELSE made
             generated == IF cap = 0 THEN InitialFrames ELSE 2 * Most(1, cap - Steps(state))
  <1>1. asksFor \in Nat /\ asksFor <= maxNew /\ maxNew \in Nat
    BY DEF TalkerTypeOK, RoomToStep, Growing
  <1>2. generated \in Int
    BY TtsAssumption DEF StepCacheOK, Most
  <1>3. Needed = Steps(state) + asksFor
    BY DEF Needed
  <1> HIDE DEF asksFor, generated
  <1>4. NewCap = Steps(state) + Least(maxNew, Most(asksFor, generated))
    <2>1. Needed - Steps(state) = asksFor
      BY <1>1, <1>3
    <2> QED
      BY <2>1 DEF NewCap, generated
  <1>5. Least(maxNew, Most(asksFor, generated)) \in Nat /\ Least(maxNew, Most(asksFor, generated)) >= asksFor
    BY <1>1, <1>2 DEF Least, Most
  <1> HIDE DEF NewCap, Needed
  <1> QED
    BY <1>1, <1>3, <1>4, <1>5

\* The step cache stays a table of as many rows as it says.
LEMMA CacheKept ==
    ASSUME TalkerTypeOK, StepCacheOK, PromptIsAsked, RoomToStep, [TtsNext]_ttsVars
    PROVE  StepCacheOK'
  <1> USE TtsAssumption
  <1>1. CASE StartStream
    BY <1>1 DEF StartStream, requestVars, promptVars, prefillVars, cacheVars, decoderVars,
       StepCacheOK
  <1>2. CASE FinishStream
    <2>1. Release
      BY <1>2 DEF FinishStream
    <2> QED
      BY <2>1, ReleaseKeeps
  <1>3. CASE TakeResult
    BY <1>3 DEF TakeResult, requestVars, promptVars, prefillVars, cacheVars, decoderVars,
       StepCacheOK
  <1>4. CASE Reset
    BY <1>4 DEF Reset, requestVars, promptVars, prefillVars, cacheVars, decoderVars,
       StepCacheOK
  <1>5. CASE Cancel
    BY <1>5 DEF Cancel, requestVars, promptVars, prefillVars, cacheVars, decoderVars,
       StepCacheOK
  <1>6. CASE Throws
    <2>1. Release
      BY <1>6 DEF Throws
    <2> QED
      BY <2>1, ReleaseKeeps
  <1>7. CASE BeginSegment
    BY <1>7 DEF BeginSegment, EmbedPrompt, requestVars, promptVars, prefillVars, cacheVars,
       decoderVars, StepCacheOK
  <1>8. CASE Prefill
    BY <1>8 DEF Prefill, requestVars, promptVars, prefillVars, cacheVars, decoderVars,
       StepCacheOK
  <1>9. CASE PrefillFails
    <2>1. Release
      BY <1>9 DEF PrefillFails
    <2> QED
      BY <2>1, ReleaseKeeps
  <1>10. CASE Grow
    <2>1. Steps(state) \in Nat
      BY <1>10, StateIsAsked, PromptShape DEF Grow, Growing, Resting
    <2>2. NewCap \in Nat
      BY <1>10, <2>1, GrownEnough DEF Grow
    <2> HIDE DEF NewCap
    <2> QED
      BY <1>10, <2>2 DEF Grow, cacheVars, StepCacheOK
  <1>11. CASE GrowFails
    <2>1. Released
      BY <1>11 DEF GrowFails
    <2> QED
      BY <2>1, ReleaseKeeps
  <1>12. CASE Transfer
    <2>1. Steps(state) \in Nat
      BY <1>12, StateIsAsked, PromptShape DEF Transfer, Resting
    <2> QED
      BY <1>12, <2>1 DEF Transfer, StepCacheOK
  <1>13. CASE EndGeneration
    BY <1>13 DEF EndGeneration, requestVars, promptVars, prefillVars, cacheVars, decoderVars,
       StepCacheOK
  <1>14. CASE Sample
    BY <1>14 DEF Sample, requestVars, promptVars, prefillVars, cacheVars, decoderVars,
       StepCacheOK
  <1>15. CASE Deliver
    BY <1>15 DEF Deliver, requestVars, promptVars, prefillVars, cacheVars, decoderVars,
       StepCacheOK
  <1>16. CASE CallbackStops
    BY <1>16 DEF CallbackStops, requestVars, promptVars, prefillVars, cacheVars, decoderVars,
       StepCacheOK
  <1>17. CASE RunStep
    BY <1>17 DEF RunStep, StepCacheOK
  <1>18. CASE ComputeFails
    <2>1. CASE memSaver
      <3>1. Released
        BY <1>18, <2>1 DEF ComputeFails
      <3> QED
        BY <3>1, ReleaseKeeps
    <2>2. CASE ~ memSaver
      BY <1>18, <2>2 DEF ComputeFails, StepCacheOK
    <2> QED
      BY <2>1, <2>2
  <1>19. CASE UNCHANGED ttsVars
    BY <1>19 DEF ttsVars, requestVars, promptVars, prefillVars, cacheVars, decoderVars,
       StepCacheOK
  <1> QED
    BY <1>1, <1>2, <1>3, <1>4, <1>5, <1>6, <1>7, <1>8, <1>9, <1>10, <1>11, <1>12, <1>13,
       <1>14, <1>15, <1>16, <1>17, <1>18, <1>19 DEF TtsNext, Session, Talker

\* transfer_prefill_state() copies between the graphs that are there now, whatever it copied
\* between before.
LEMMA LinkedIsNew ==
    ASSUME StepCacheOK, LinkOK, GraphsAreTagged, Steps(state) \in Lengths
    PROVE  Linked = Endpoints /\ Linked \in Nat \X Nat
  <1>1. graphs[Steps(state)].serial \in Nat /\ builds \in Nat
    BY DEF GraphsAreTagged, Graph, StepCacheOK
  <1>2. PICK a, b \in Nat : link = <<a, b>>
    BY DEF LinkOK
  <1> QED
    BY <1>1, <1>2 DEF Linked, Endpoints

\* The copy graph's endpoints stay serial numbers.
LEMMA LinkKept ==
    ASSUME TalkerTypeOK, StepCacheOK, LinkOK, PromptIsAsked, GraphsAreTagged, [TtsNext]_ttsVars
    PROVE  LinkOK'
  <1> USE TtsAssumption
  <1>1. CASE StartStream
    BY <1>1 DEF StartStream, requestVars, promptVars, prefillVars, cacheVars, decoderVars,
       LinkOK
  <1>2. CASE FinishStream
    BY <1>2 DEF FinishStream, Release, Released, requestVars, promptVars, prefillVars,
       cacheVars, decoderVars, LinkOK
  <1>3. CASE TakeResult
    BY <1>3 DEF TakeResult, requestVars, promptVars, prefillVars, cacheVars, decoderVars,
       LinkOK
  <1>4. CASE Reset
    BY <1>4 DEF Reset, requestVars, promptVars, prefillVars, cacheVars, decoderVars, LinkOK
  <1>5. CASE Cancel
    BY <1>5 DEF Cancel, requestVars, promptVars, prefillVars, cacheVars, decoderVars, LinkOK
  <1>6. CASE Throws
    BY <1>6 DEF Throws, Release, Released, Unwind, requestVars, promptVars, prefillVars,
       cacheVars, decoderVars, LinkOK
  <1>7. CASE BeginSegment
    BY <1>7 DEF BeginSegment, EmbedPrompt, requestVars, promptVars, prefillVars, cacheVars,
       decoderVars, LinkOK
  <1>8. CASE Prefill
    BY <1>8 DEF Prefill, requestVars, promptVars, prefillVars, cacheVars, decoderVars, LinkOK
  <1>9. CASE PrefillFails
    BY <1>9 DEF PrefillFails, Release, Released, Unwind, requestVars, promptVars, prefillVars,
       cacheVars, decoderVars, LinkOK
  <1>10. CASE Grow
    BY <1>10 DEF Grow, Growing, requestVars, promptVars, prefillVars, cacheVars, decoderVars,
       LinkOK
  <1>11. CASE GrowFails
    BY <1>11 DEF GrowFails, Growing, Released, Unwind, requestVars, promptVars, prefillVars,
       cacheVars, decoderVars, LinkOK
  <1>12. CASE Transfer
    <2>1. Steps(state) \in Lengths \/ link' = link
      BY <1>12, StateIsAsked, PromptShape DEF Transfer, Resting
    <2>2. Steps(state) \in Lengths => Linked \in Nat \X Nat
      BY LinkedIsNew DEF LinkOK
    <2> QED
      BY <1>12, <2>1, <2>2 DEF Transfer, LinkOK
  <1>13. CASE EndGeneration
    BY <1>13 DEF EndGeneration, requestVars, promptVars, prefillVars, cacheVars, decoderVars,
       LinkOK
  <1>14. CASE Sample
    BY <1>14 DEF Sample, requestVars, promptVars, prefillVars, cacheVars, decoderVars, LinkOK
  <1>15. CASE Deliver
    BY <1>15 DEF Deliver, requestVars, promptVars, prefillVars, cacheVars, decoderVars, LinkOK
  <1>16. CASE CallbackStops
    BY <1>16 DEF CallbackStops, requestVars, promptVars, prefillVars, cacheVars, decoderVars,
       LinkOK
  <1>17. CASE RunStep
    BY <1>17 DEF RunStep, requestVars, promptVars, prefillVars, cacheVars, decoderVars, LinkOK
  <1>18. CASE ComputeFails
    <2>1. Steps(state) \in Lengths \/ link' = link
      BY <1>18, StateIsAsked, PromptShape DEF ComputeFails, Resting
    <2>2. Steps(state) \in Lengths => Linked \in Nat \X Nat
      BY LinkedIsNew DEF LinkOK
    <2> QED
      BY <1>18, <2>1, <2>2 DEF ComputeFails, LinkOK
  <1>19. CASE UNCHANGED ttsVars
    BY <1>19 DEF ttsVars, requestVars, promptVars, prefillVars, cacheVars, decoderVars, LinkOK
  <1> QED
    BY <1>1, <1>2, <1>3, <1>4, <1>5, <1>6, <1>7, <1>8, <1>9, <1>10, <1>11, <1>12, <1>13,
       <1>14, <1>15, <1>16, <1>17, <1>18, <1>19 DEF TtsNext, Session, Talker

\* There stays room for the next frame.
LEMMA RoomKept ==
    ASSUME TalkerTypeOK, StepCacheOK, PromptIsAsked, RoomToStep, [TtsNext]_ttsVars
    PROVE  RoomToStep'
  <1> USE TtsAssumption
  <1>1. CASE StartStream
    BY <1>1 DEF StartStream, requestVars, promptVars, prefillVars, cacheVars, decoderVars,
       TalkerTypeOK, RoomToStep, Resting, Generating
  <1>2. CASE FinishStream
    BY <1>2 DEF FinishStream, Release, Released, requestVars, promptVars, prefillVars,
       cacheVars, decoderVars, TalkerTypeOK, RoomToStep, Resting, Generating
  <1>3. CASE TakeResult
    BY <1>3 DEF TakeResult, requestVars, promptVars, prefillVars, cacheVars, decoderVars,
       TalkerTypeOK, RoomToStep, Resting, Generating
  <1>4. CASE Reset
    BY <1>4 DEF Reset, requestVars, promptVars, prefillVars, cacheVars, decoderVars,
       TalkerTypeOK, RoomToStep, Resting, Generating
  <1>5. CASE Cancel
    BY <1>5 DEF Cancel, requestVars, promptVars, prefillVars, cacheVars, decoderVars,
       TalkerTypeOK, RoomToStep, Resting, Generating
  <1>6. CASE Throws
    BY <1>6 DEF Throws, Release, Released, Unwind, requestVars, promptVars, prefillVars,
       cacheVars, decoderVars, TalkerTypeOK, RoomToStep, Resting, Generating
  <1>7. CASE BeginSegment
    BY <1>7 DEF BeginSegment, EmbedPrompt, requestVars, promptVars, prefillVars, cacheVars,
       decoderVars, TalkerTypeOK, RoomToStep, Resting, Generating
  <1>8. CASE Prefill
    BY <1>8 DEF Prefill, requestVars, promptVars, prefillVars, cacheVars, decoderVars,
       TalkerTypeOK, RoomToStep, Resting, Generating
  <1>9. CASE PrefillFails
    BY <1>9 DEF PrefillFails, Release, Released, Unwind, requestVars, promptVars, prefillVars,
       cacheVars, decoderVars, TalkerTypeOK, RoomToStep, Resting, Generating
  <1>10. CASE Grow
    <2>1. state \in Voices \X Texts /\ Steps(state) \in Nat
      BY <1>10, StateIsAsked, PromptShape DEF Grow, Growing, Resting
    <2>2. cap' >= Needed
      BY <1>10, <2>1, GrownEnough DEF Grow, cacheVars
    <2> QED
      BY <1>10, <2>1, <2>2 DEF Grow, Growing, Needed, requestVars, promptVars, prefillVars,
         cacheVars, decoderVars, RoomToStep
  <1>11. CASE GrowFails
    BY <1>11 DEF GrowFails, Growing, Released, Unwind, requestVars, promptVars, prefillVars,
       cacheVars, decoderVars, TalkerTypeOK, RoomToStep, Resting, Generating
  <1>12. CASE Transfer
    BY <1>12 DEF Transfer, requestVars, promptVars, prefillVars, cacheVars, decoderVars,
       TalkerTypeOK, RoomToStep, Resting, Generating
  <1>13. CASE EndGeneration
    BY <1>13 DEF EndGeneration, requestVars, promptVars, prefillVars, cacheVars, decoderVars,
       TalkerTypeOK, RoomToStep, Resting, Generating
  <1>14. CASE Sample
    BY <1>14 DEF Sample, requestVars, promptVars, prefillVars, cacheVars, decoderVars,
       TalkerTypeOK, RoomToStep, Resting, Generating
  <1>15. CASE Deliver
    BY <1>15 DEF Deliver, requestVars, promptVars, prefillVars, cacheVars, decoderVars,
       TalkerTypeOK, RoomToStep
  <1>16. CASE CallbackStops
    BY <1>16 DEF CallbackStops, requestVars, promptVars, prefillVars, cacheVars, decoderVars,
       TalkerTypeOK, RoomToStep, Resting, Generating
  <1>17. CASE RunStep
    BY <1>17 DEF RunStep, requestVars, promptVars, prefillVars, cacheVars, decoderVars,
       TalkerTypeOK, RoomToStep, Resting, Generating
  <1>18. CASE ComputeFails
    BY <1>18 DEF ComputeFails, Released, Unwind, requestVars, promptVars, prefillVars,
       cacheVars, decoderVars, TalkerTypeOK, RoomToStep, Resting, Generating
  <1>19. CASE UNCHANGED ttsVars
    BY <1>19 DEF ttsVars, requestVars, promptVars, prefillVars, cacheVars, decoderVars,
       TalkerTypeOK, RoomToStep, Resting, Generating
  <1> QED
    BY <1>1, <1>2, <1>3, <1>4, <1>5, <1>6, <1>7, <1>8, <1>9, <1>10, <1>11, <1>12, <1>13,
       <1>14, <1>15, <1>16, <1>17, <1>18, <1>19 DEF TtsNext, Session, Talker

\* The rows a step sees stay its own: the copy of a prefill and the steps write them in order,
\* and a cache that grows takes them along.
LEMMA RowsKept ==
    ASSUME TalkerInv, [TtsNext]_ttsVars
    PROVE  StepSeesItsRows'
  <1> USE DEF TalkerInv
  <1>1. ASSUME pc' \notin Generating
        PROVE  StepSeesItsRows'
    BY <1>1 DEF StepSeesItsRows, Generating
  <1>2. ASSUME StartStream \/ FinishStream \/ TakeResult \/ Reset \/ Throws \/ BeginSegment
                 \/ Prefill \/ PrefillFails \/ GrowFails \/ EndGeneration \/ CallbackStops
                 \/ ComputeFails
        PROVE  pc' \notin Generating
    BY <1>2 DEF StartStream, FinishStream, TakeResult, Reset, Throws, BeginSegment, Prefill,
       PrefillFails, GrowFails, EndGeneration, CallbackStops, ComputeFails, Unwind, Generating
  <1>3. ASSUME pc \notin Resting
        PROVE  /\ state = asked /\ Steps(asked) \in Nat /\ Steps(asked) >= 1
               /\ Steps(asked) \in Lengths /\ asked \in Voices \X Texts
               /\ made \in Nat /\ gen \in Nat
    BY <1>3, StateIsAsked, PromptShape DEF TalkerTypeOK
  <1>4. CASE Cancel \/ UNCHANGED ttsVars
    BY <1>4 DEF Cancel, ttsVars, requestVars, prefillVars, cacheVars, StepSeesItsRows
  <1>5. CASE Sample
    BY <1>5 DEF Sample, requestVars, prefillVars, cacheVars, StepSeesItsRows
  <1>6. CASE Deliver
    <2>1. Steps(asked) \in Nat /\ made \in Nat
      BY <1>3, <1>6 DEF Deliver, Resting
    <2>2. /\ pc = "frame" /\ pc' = "grow" /\ made' = made + 1
          /\ UNCHANGED <<asked, gen, cap, rows, valid, end, output>>
      BY <1>6 DEF Deliver, requestVars, prefillVars, cacheVars
    <2>3. Steps(asked) + made - 0 = Steps(asked) + (made + 1) - 1 /\ made + 1 # 0
      BY <2>1
    <2> QED
      BY <2>1, <2>2, <2>3 DEF StepSeesItsRows
  <1>7. CASE Grow
    <2>1. CASE pc = "size"
      BY <1>1, <1>7, <2>1 DEF Grow, Generating
    <2>2. CASE pc = "grow"
      <3>1. /\ pc' = "step" /\ UNCHANGED <<asked, gen, made, output, valid, end>>
        BY <1>7, <2>2 DEF Grow, requestVars, prefillVars, cacheVars
      <3>2. state = asked /\ Steps(asked) \in Nat /\ made \in Nat /\ Steps(asked) >= 1
        BY <1>3, <2>2 DEF Resting
      <3>3. Needed = Steps(asked) + made
        BY <2>2, <3>2 DEF Needed
      <3>4. NewCap \in Nat /\ NewCap >= Needed
        BY <1>7, <3>2, GrownEnough DEF Grow
      <3> DEFINE seen == Steps(asked) + made - 1
      <3>5. /\ seen \in Nat /\ valid = seen /\ end = seen /\ made # 0
            /\ \A j \in 1 .. seen : rows[j] = Lockstep(asked, gen, j)
        BY <2>2, <3>2 DEF StepSeesItsRows, RoomToStep
      <3> HIDE DEF NewCap, Needed
      <3>6. cap' \in Nat /\ cap' >= Needed /\ \A j \in 1 .. seen : rows'[j] = rows[j]
        <4>1. CASE cap >= Needed
          BY <1>7, <4>1 DEF Grow, cacheVars, StepCacheOK
        <4>2. CASE ~ (cap >= Needed)
          <5>1. cap' = NewCap /\ rows' = [i \in 1 .. NewCap |-> Imported(i)]
            BY <1>7, <4>2 DEF Grow
          <5>2. ASSUME NEW j \in 1 .. seen PROVE j \in 1 .. NewCap /\ j <= valid
            BY <3>2, <3>3, <3>4, <3>5
          <5> QED
            BY <3>4, <5>1, <5>2 DEF Imported
        <4> QED
          BY <4>1, <4>2
      <3>7. seen < cap' /\ seen <= cap'
        BY <3>2, <3>3, <3>5, <3>6
      <3> QED
        BY <3>1, <3>5, <3>6, <3>7 DEF StepSeesItsRows
    <2> QED
      BY <1>7, <2>1, <2>2 DEF Grow, Growing
  <1>8. CASE Transfer
    <2>1. /\ pc = "transfer" /\ pc' = "sample" /\ UNCHANGED <<asked, gen, made, output, cap>>
          /\ valid' = Steps(state) /\ end' = Steps(state)
      BY <1>8 DEF Transfer, requestVars, prefillVars
    <2>2. /\ state = asked /\ Steps(asked) \in Nat /\ Steps(asked) \in Lengths
          /\ asked \in Voices \X Texts
      BY <1>3, <2>1 DEF Resting
    <2>3. /\ made = 0 /\ cap >= Steps(asked) + 1 /\ cap \in Nat
      BY <2>1, <2>2 DEF RoomToStep, StepCacheOK
    <2>4. output = asked /\ graphs[Steps(asked)].holds = asked /\ asked # None
      BY <2>1, <2>2, TtsAssumption DEF GraphsAreTagged
    <2>5. Linked = Endpoints
      BY <2>2, LinkedIsNew
    <2> HIDE DEF Linked, Endpoints
    <2>6. ASSUME NEW j \in 1 .. Steps(asked)
          PROVE  rows'[j] = Lockstep(asked, gen, j)
      <3>1. j \in 1 .. cap /\ j <= Steps(asked)
        BY <2>2, <2>3
      <3>2. rows'[j] = PromptRow(asked, j)
        BY <1>8, <2>2, <2>4, <2>5, <3>1 DEF Transfer
      <3> QED
        BY <3>1, <3>2 DEF PromptRow, Lockstep
    <2>7. Steps(asked) + 0 - 0 = Steps(asked) /\ Steps(asked) <= cap
      BY <2>2, <2>3
    <2> QED
      BY <2>1, <2>2, <2>3, <2>4, <2>6, <2>7 DEF StepSeesItsRows
  <1>9. CASE RunStep
    <2> DEFINE seen == Steps(asked) + made - 1
    <2>1. /\ pc = "step" /\ pc' = "sample" /\ UNCHANGED <<asked, gen, made, output, cap>>
          /\ valid' = valid + 1 /\ end' = end + 1
          /\ rows' = [rows EXCEPT ![valid + 1] = FrameRow(state, <<gen, made>>)]
      BY <1>9 DEF RunStep, requestVars, prefillVars
    <2>2. /\ state = asked /\ Steps(asked) \in Nat /\ Steps(asked) >= 1 /\ made \in Nat
          /\ asked \in Voices \X Texts /\ gen \in Nat
      BY <1>3, <2>1 DEF Resting
    <2>3. made >= 1 /\ made # 0
      BY <2>1, <2>2 DEF RoomToStep
    <2>4. /\ valid = seen /\ end = seen /\ seen < cap
          /\ \A j \in 1 .. seen : rows[j] = Lockstep(asked, gen, j)
      BY <2>1 DEF StepSeesItsRows
    <2>5. seen \in Nat /\ seen + 1 = Steps(asked) + made /\ cap \in Nat
      BY <2>2, <2>3 DEF StepCacheOK
    <2>6. FrameRow(state, <<gen, made>>) = Lockstep(asked, gen, Steps(asked) + made)
      BY <2>2, <2>3, FrameRowLinesUp
    <2> HIDE DEF seen
    <2>7. ASSUME NEW j \in 1 .. seen + 1
          PROVE  rows'[j] = Lockstep(asked, gen, j)
      <3>1. j \in DOMAIN rows /\ (j = seen + 1 \/ (j \in 1 .. seen /\ j # seen + 1))
        BY <2>4, <2>5 DEF StepCacheOK
      <3> QED
        BY <2>1, <2>4, <2>5, <2>6, <3>1
    <2>8. Steps(asked) + made - 0 = seen + 1 /\ seen + 1 <= cap
      BY <2>2, <2>4, <2>5
    <2> QED
      BY <2>1, <2>3, <2>4, <2>7, <2>8 DEF StepSeesItsRows
  <1> QED
    BY <1>1, <1>2, <1>4, <1>5, <1>6, <1>7, <1>8, <1>9 DEF TtsNext, Session, Talker

\* Together they are inductive.
LEMMA TalkerKept ==
    ASSUME TalkerInv, [TtsNext]_ttsVars
    PROVE  TalkerInv'
  BY TypeKept, CacheKept, LinkKept, PromptKept, TagsKept, RoomKept, RowsKept DEF TalkerInv

\* The invariant holds before the first request.
LEMMA TalkerBegins ==
    ASSUME TtsInit
    PROVE  TalkerInv
  <1>1. TalkerTypeOK /\ LinkOK /\ PromptIsAsked /\ RoomToStep /\ StepSeesItsRows
    BY DEF TtsInit, TalkerTypeOK, LinkOK, PromptIsAsked, RoomToStep, StepSeesItsRows, Resting,
       Generating
  <1>2. StepCacheOK
    <2>1. DOMAIN rows = {} /\ 1 .. cap = {}
      BY DEF TtsInit
    <2> QED
      BY <2>1 DEF TtsInit, StepCacheOK
  <1>3. GraphsAreTagged
    <2>1. Absent \in Graph /\ Absent.tag = 0
      BY DEF Absent, Graph
    <2> QED
      BY <2>1 DEF TtsInit, GraphsAreTagged, Generating
  <1> QED
    BY <1>1, <1>2, <1>3 DEF TalkerInv

\* Whatever was spoken before, and however it ended, a step of a generation is computed from
\* this segment's prompt and this generation's frames, and has a slot to go to: generate() and
\* the caches it keeps between calls (talker.cpp).
THEOREM StepsAreTheirOwn == TtsSpec => []StepSeesItsRows
  <1>1. TtsInit => TalkerInv
    BY TalkerBegins
  <1>2. TalkerInv /\ [TtsNext]_ttsVars => TalkerInv'
    BY TalkerKept
  <1>3. TalkerInv => StepSeesItsRows
    BY DEF TalkerInv
  <1> QED
    BY <1>1, <1>2, <1>3, PTL DEF TtsSpec

----------------------------------------------------------------------------
(* The decoder.                                                                           *)

\* Frames are sent or pending, in order.
DecoderOK ==
    /\ heard \in Seq(Frame) /\ pending \in Seq(Frame)
    /\ heard \o pending = frames
    /\ Len(pending) < ChunkFrames

\* What is left of the request is spoken by v, whose reference and frames are the context.
SpokenBy(v) ==
    /\ \A i \in 1 .. Len(todo) : todo[i][1] = v
    /\ pc \notin Resting => asked[1] = v
    /\ context = TailFrames(Reference(v) \o heard, ContextFrames)

OneVoice == pc # "idle" => \E v \in Voices : SpokenBy(v)

ResultIsAtRest == (result => pc = "idle") /\ ResultIsWhole

DecoderInv == TalkerTypeOK /\ DecoderOK /\ OneVoice /\ ResultIsAtRest

\* The frames of a reference are frames, and the context that comes first is their tail.
LEMMA ReferenceIsSeq ==
    ASSUME NEW v \in Voices
    PROVE  Reference(v) \in Seq(Frame) /\ Reference(v) \o <<>> = Reference(v)
  <1> DEFINE n == IF v \in Clones THEN RefFrames[v] ELSE 0
  <1>1. n \in Nat
    BY TtsAssumption
  <1> HIDE DEF n
  <1>2. [i \in 1 .. n |-> <<0, i>>] \in [1 .. n -> Frame]
    BY <1>1 DEF Frame
  <1>3. [i \in 1 .. n |-> <<0, i>>] \in Seq(Frame)
    BY <1>1, <1>2, TableIsSeq
  <1>4. Reference(v) = [i \in 1 .. n |-> <<0, i>>]
    BY DEF Reference, n
  <1> QED
    BY <1>3, <1>4, ConcatEmptySeq

\* A window that is decoded leaves nothing pending and the tail of everything as context.
LEMMA WindowDecoded ==
    ASSUME NEW v \in Voices, NEW p \in Seq(Frame), heard \in Seq(Frame), DecodePending(p)
    PROVE  /\ heard' \in Seq(Frame) /\ pending' \in Seq(Frame) /\ Len(pending') = 0
           /\ heard' \o pending' = heard \o p
           /\ context = TailFrames(Reference(v) \o heard, ContextFrames)
                => context' = TailFrames(Reference(v) \o heard', ContextFrames)
  <1>1. heard' = heard \o p /\ pending' = <<>>
    BY DEF DecodePending
  <1>2. heard \o p \in Seq(Frame) /\ <<>> \in Seq(Frame) /\ Len(<<>>) = 0
    BY ConcatProperties, EmptySeq
  <1>3. (heard \o p) \o <<>> = heard \o p
    BY <1>2, ConcatEmptySeq
  <1>4. ASSUME context = TailFrames(Reference(v) \o heard, ContextFrames)
        PROVE  context' = TailFrames(Reference(v) \o heard', ContextFrames)
    <2> DEFINE a == Reference(v) \o heard
    <2>1. a \in Seq(Frame) /\ Reference(v) \in Seq(Frame)
      BY ReferenceIsSeq, ConcatProperties
    <2>2. a \o p = Reference(v) \o (heard \o p)
      BY <2>1, ConcatAssociative
    <2>3. context' = TailFrames(TailFrames(a, ContextFrames) \o p, ContextFrames)
      BY <1>4 DEF DecodePending
    <2> HIDE DEF a
    <2>4. ContextFrames \in Nat
      BY TtsAssumption
    <2>5. context' = TailFrames(a \o p, ContextFrames)
      BY <2>1, <2>3, <2>4, TailOfTail
    <2> QED
      BY <1>1, <2>2, <2>5
  <1> QED
    BY <1>1, <1>2, <1>3, <1>4

\* A frame added to the later of two sequences is added to both.
LEMMA AppendToLast ==
    ASSUME NEW S, NEW a \in Seq(S), NEW b \in Seq(S), NEW x \in S
    PROVE  a \o Append(b, x) = Append(a \o b, x)
  <1> DEFINE one == <<x>>
  <1>1. one \in Seq(S) /\ a \o b \in Seq(S)
    BY ConcatProperties
  <1>2. Append(b, x) = b \o one /\ Append(a \o b, x) = (a \o b) \o one
    BY <1>1, AppendIsConcat
  <1> HIDE DEF one
  <1>3. (a \o b) \o one = a \o (b \o one)
    BY <1>1, ConcatAssociative
  <1> QED
    BY <1>2, <1>3

\* The steps that are not the decoder's.
Elsewhere ==
    TakeResult \/ Reset \/ Cancel \/ Throws \/ BeginSegment \/ Prefill \/ PrefillFails \/ Grow
      \/ GrowFails \/ Transfer \/ EndGeneration \/ Sample \/ CallbackStops \/ RunStep
      \/ ComputeFails

\* Only the decoder moves frames, and only from pending to heard.
LEMMA ElsewhereKeeps ==
    ASSUME Elsewhere
    PROVE  UNCHANGED decoderVars
  BY DEF Elsewhere, TakeResult, Reset, Cancel, Throws, BeginSegment, Prefill, PrefillFails,
     Grow,
     GrowFails, Transfer, EndGeneration, Sample, CallbackStops, RunStep, ComputeFails, Unwind

\* Frames stay in order through every chunk and the flush.
LEMMA DecoderOKKept ==
    ASSUME TalkerTypeOK, DecoderOK, OneVoice, [TtsNext]_ttsVars
    PROVE  DecoderOK'
  <1> USE TtsAssumption
  <1>1. CASE Elsewhere \/ UNCHANGED ttsVars
    BY <1>1, ElsewhereKeeps DEF ttsVars, decoderVars, DecoderOK
  <1>2. CASE StartStream
    <2>1. <<>> \in Seq(Frame) /\ Len(<<>>) = 0 /\ <<>> \o <<>> = <<>>
      BY EmptySeq, ConcatEmptySeq
    <2> QED
      BY <1>2, <2>1 DEF StartStream, DecoderOK
  <1>3. CASE FinishStream
    <2>1. UNCHANGED frames
      BY <1>3 DEF FinishStream
    <2>2. CASE cancelled
      BY <1>3, <2>1, <2>2 DEF FinishStream, DecoderOK
    <2>3. CASE ~ cancelled
      <3>1. DecodePending(pending)
        BY <1>3, <2>3 DEF FinishStream
      <3>2. PICK v \in Voices : TRUE
        BY <1>3 DEF FinishStream, OneVoice
      <3>3. heard \in Seq(Frame) /\ pending \in Seq(Frame) /\ heard \o pending = frames
        BY DEF DecoderOK
      <3>4. /\ heard' \in Seq(Frame) /\ pending' \in Seq(Frame) /\ Len(pending') = 0
            /\ heard' \o pending' = heard \o pending
        BY <3>1, <3>2, <3>3, WindowDecoded
      <3> QED
        BY <2>1, <3>3, <3>4 DEF DecoderOK
    <2> QED
      BY <2>2, <2>3
  <1>4. CASE Deliver
    <2> DEFINE f == <<gen, made + 1>>
    <2>1. f \in Frame /\ frames' = Append(frames, f) /\ PushFrame(f)
      BY <1>4 DEF Deliver, TalkerTypeOK, Frame
    <2> HIDE DEF f
    <2>2. /\ Append(pending, f) \in Seq(Frame) /\ Len(Append(pending, f)) = Len(pending) + 1
          /\ heard \o Append(pending, f) = Append(frames, f)
      <3>1. heard \in Seq(Frame) /\ pending \in Seq(Frame) /\ heard \o pending = frames
        BY DEF DecoderOK
      <3>2. Append(pending, f) \in Seq(Frame) /\ Len(Append(pending, f)) = Len(pending) + 1
        BY <2>1, <3>1, AppendProperties
      <3> QED
        BY <2>1, <3>1, <3>2, AppendToLast
    <2>3. CASE Len(pending) + 1 < ChunkFrames
      BY <2>1, <2>2, <2>3 DEF PushFrame, DecoderOK
    <2>4. CASE ~ (Len(pending) + 1 < ChunkFrames)
      <3>1. DecodePending(Append(pending, f))
        BY <2>1, <2>4 DEF PushFrame
      <3>2. PICK v \in Voices : TRUE
        BY <1>4 DEF Deliver, OneVoice
      <3>3. heard \in Seq(Frame)
        BY DEF DecoderOK
      <3>4. /\ heard' \in Seq(Frame) /\ pending' \in Seq(Frame) /\ Len(pending') = 0
            /\ heard' \o pending' = heard \o Append(pending, f)
        BY <2>2, <3>1, <3>2, <3>3, WindowDecoded
      <3> QED
        BY <2>1, <2>2, <3>4 DEF DecoderOK
    <2> QED
      BY <2>3, <2>4
  <1> QED
    BY <1>1, <1>2, <1>3, <1>4 DEF TtsNext, Session, Talker, Elsewhere

\* A request stays one voice's, and the context stays what was heard of it.
LEMMA OneVoiceKept ==
    ASSUME TalkerTypeOK, DecoderOK, OneVoice, [TtsNext]_ttsVars
    PROVE  OneVoice'
  <1> USE TtsAssumption
  <1>1. CASE StartStream
    <2>1. PICK v \in Voices, n \in 1 .. MaxSegments :
              /\ todo' \in [1 .. n -> {c \in Prompts : c[1] = v}]
              /\ context' = TailFrames(Reference(v), ContextFrames)
      BY <1>1 DEF StartStream
    <2>2. Len(todo') = n
      BY <2>1, TableIsSeq
    <2>3. Reference(v) \o heard' = Reference(v) /\ pc' \in Resting
      BY <1>1, ReferenceIsSeq DEF StartStream, Resting
    <2>4. SpokenBy(v)'
      BY <2>1, <2>2, <2>3 DEF SpokenBy
    <2> QED
      BY <2>4 DEF OneVoice
  <1>2. ASSUME pc' = "idle"
        PROVE  OneVoice'
    BY <1>2 DEF OneVoice
  <1>3. ASSUME FinishStream \/ TakeResult \/ Reset \/ Throws \/ PrefillFails \/ GrowFails
                 \/ ComputeFails
        PROVE  pc' = "idle"
    BY <1>3 DEF FinishStream, TakeResult, Reset, Throws, PrefillFails, GrowFails,
       ComputeFails,
       Unwind
  <1>4. CASE UNCHANGED ttsVars \/ Cancel
    BY <1>4 DEF ttsVars, Cancel, requestVars, decoderVars, OneVoice, SpokenBy
  <1>5. CASE BeginSegment
    <2>1. PICK v \in Voices : SpokenBy(v)
      BY <1>5 DEF BeginSegment, OneVoice
    <2>2. /\ todo' = Tail(todo) /\ asked' = todo[1] /\ UNCHANGED <<context, heard>>
          /\ todo # <<>> /\ todo \in Seq(Prompts)
      BY <1>5 DEF BeginSegment, decoderVars, TalkerTypeOK
    <2>3. /\ Len(todo) \in Nat /\ Len(todo) >= 1 /\ Len(Tail(todo)) = Len(todo) - 1
          /\ \A i \in 1 .. Len(Tail(todo)) : Tail(todo)[i] = todo[i + 1]
      BY <2>2, EmptySeq, HeadTailProperties, LenProperties
    <2>4. asked'[1] = v /\ \A i \in 1 .. Len(todo') : todo'[i][1] = v
      <3>1. 1 \in 1 .. Len(todo) /\ \A i \in 1 .. Len(Tail(todo)) : i + 1 \in 1 .. Len(todo)
        BY <2>3
      <3>2. \A i \in 1 .. Len(todo) : todo[i][1] = v
        BY <2>1 DEF SpokenBy
      <3> QED
        BY <2>2, <2>3, <3>1, <3>2
    <2>5. SpokenBy(v)'
      BY <2>1, <2>2, <2>4 DEF SpokenBy
    <2> QED
      BY <2>5 DEF OneVoice
  <1>6. CASE Deliver
    <2>1. PICK v \in Voices : SpokenBy(v)
      BY <1>6 DEF Deliver, OneVoice
    <2> DEFINE f == <<gen, made + 1>>
    <2>2. f \in Frame /\ PushFrame(f) /\ UNCHANGED <<todo, asked>> /\ pc \notin Resting
      BY <1>6 DEF Deliver, TalkerTypeOK, Frame, requestVars, Resting
    <2> HIDE DEF f
    <2>3. CASE Len(pending) + 1 < ChunkFrames
      BY <2>1, <2>2, <2>3 DEF PushFrame, SpokenBy, OneVoice
    <2>4. CASE ~ (Len(pending) + 1 < ChunkFrames)
      <3>1. DecodePending(Append(pending, f))
        BY <2>2, <2>4 DEF PushFrame
      <3>2. Append(pending, f) \in Seq(Frame)
        BY <2>2, AppendProperties DEF DecoderOK
      <3>3. context' = TailFrames(Reference(v) \o heard', ContextFrames)
        BY <2>1, <3>1, <3>2, WindowDecoded DEF SpokenBy, DecoderOK
      <3>4. SpokenBy(v)'
        BY <2>1, <2>2, <3>3 DEF SpokenBy
      <3> QED
        BY <3>4 DEF OneVoice
    <2> QED
      BY <2>3, <2>4
  <1>7. CASE Prefill \/ Grow \/ Transfer \/ EndGeneration \/ Sample \/ CallbackStops \/ RunStep
    <2>1. pc \notin Resting /\ UNCHANGED <<todo, asked, context, heard>>
      BY <1>7 DEF Prefill, Grow, Growing, Transfer, EndGeneration, Sample, CallbackStops,
         RunStep,
         requestVars, decoderVars, Resting
    <2> QED
      BY <2>1 DEF OneVoice, SpokenBy, Resting
  <1> QED
    BY <1>1, <1>2, <1>3, <1>4, <1>5, <1>6, <1>7 DEF TtsNext, Session, Talker

\* A result is there only between requests, and is whole until somebody cancels.
LEMMA ResultKept ==
    ASSUME TalkerTypeOK, DecoderOK, OneVoice, ResultIsAtRest, [TtsNext]_ttsVars
    PROVE  ResultIsAtRest'
  <1>1. CASE FinishStream
    <2>1. CASE cancelled
      BY <1>1, <2>1 DEF FinishStream, ResultIsAtRest, ResultIsWhole
    <2>2. CASE ~ cancelled
      BY <1>1, <2>2 DEF FinishStream, DecodePending, DecoderOK, ResultIsAtRest, ResultIsWhole
    <2> QED
      BY <2>1, <2>2
  <1>2. CASE Cancel \/ UNCHANGED ttsVars
    BY <1>2 DEF Cancel, ttsVars, requestVars, decoderVars, ResultIsAtRest, ResultIsWhole
  <1>3. ASSUME ~ result'
        PROVE  ResultIsAtRest'
    BY <1>3 DEF ResultIsAtRest, ResultIsWhole
  <1>4. ASSUME StartStream \/ TakeResult \/ Reset \/ Throws \/ PrefillFails \/ GrowFails
                 \/ ComputeFails
        PROVE  ~ result'
    BY <1>4 DEF StartStream, TakeResult, Reset, Throws, PrefillFails, GrowFails, ComputeFails,
       Unwind
  <1>5. ASSUME BeginSegment \/ Prefill \/ Grow \/ Transfer \/ EndGeneration \/ Sample \/ Deliver
                 \/ CallbackStops \/ RunStep
        PROVE  ~ result'
    BY <1>5 DEF BeginSegment, Prefill, Grow, Growing, Transfer, EndGeneration, Sample,
       Deliver,
       CallbackStops, RunStep, requestVars, ResultIsAtRest
  <1> QED
    BY <1>1, <1>2, <1>3, <1>4, <1>5 DEF TtsNext, Session, Talker

\* The decoder's invariant holds of every run.
LEMMA DecoderInvHolds == TtsSpec => []DecoderInv
  <1>1. TtsInit => DecoderInv
    <2> SUFFICES ASSUME TtsInit PROVE DecoderInv
      OBVIOUS
    <2>1. TalkerTypeOK
      BY TalkerBegins DEF TalkerInv
    <2>2. DecoderOK
      <3>1. <<>> \in Seq(Frame) /\ Len(<<>>) = 0 /\ <<>> \o <<>> = <<>>
        BY EmptySeq, ConcatEmptySeq
      <3> QED
        BY <3>1, TtsAssumption DEF TtsInit, DecoderOK
    <2> QED
      BY <2>1, <2>2 DEF TtsInit, DecoderInv, OneVoice, ResultIsAtRest, ResultIsWhole
  <1>2. DecoderInv /\ [TtsNext]_ttsVars => DecoderInv'
    BY TypeKept, DecoderOKKept, OneVoiceKept, ResultKept DEF DecoderInv
  <1> QED
    BY <1>1, <1>2, PTL DEF TtsSpec

\* Every frame is heard once and in order, and is decoded against the frames right before it:
\* push_frame(), decode_pending() and the flush (stream_decoder.cpp), across segments.
THEOREM FramesInOrder == TtsSpec => []HeardInOrder
  <1>1. DecoderInv => HeardInOrder
    BY DEF DecoderInv, DecoderOK, OneVoice, SpokenBy, HeardInOrder, Resting
  <1> QED
    BY <1>1, DecoderInvHolds, PTL

\* A result nobody cancelled has every segment and every frame (start_stream(), session.cpp).
THEOREM ResultsAreWhole == TtsSpec => []ResultIsWhole
  <1>1. DecoderInv => ResultIsWhole
    BY DEF DecoderInv, ResultIsAtRest
  <1> QED
    BY <1>1, DecoderInvHolds, PTL

=============================================================================
