------------------------- MODULE ChatStreamProofs -------------------------
(***************************************************************************)
(* Proofs about ChatStream for replies and first sentences of every        *)
(* length.                                                                 *)
(*                                                                         *)
(* The queue between the threads is described by predicates of a sequence  *)
(* of events (TextQueue, SpeechQueue, Owed, EndsLast) that say from where  *)
(* to where it carries the reply.  They compose: what is pushed extends    *)
(* the upper end, what is consumed raises the lower end, and a stream that *)
(* ended with an empty queue has both ends equal.  So an action is proved  *)
(* once it is shown to push (Pushes) or to consume (Consumes).             *)
(***************************************************************************)
EXTENDS ChatStream, SequenceTheorems, WellFoundedInduction, TLAPS

----------------------------------------------------------------------------
\* What the queue between the two threads has to satisfy, of a sequence q of
\* events.

\* q carries the text from position a to position b: its tokens grow from a
\* and end at b, and no sentence comes before the text it was cut from.
TextQueue(q, a, b) ==
    /\ a <= b
    /\ \A i \in 1 .. Len(q) : q[i].kind = "token" => a < q[i].upto /\ q[i].upto <= b
    /\ \A i, j \in 1 .. Len(q) :
          i < j /\ q[i].kind = "token" /\ q[j].kind = "token" => q[i].upto < q[j].upto
    /\ a # b => \E i \in 1 .. Len(q) : q[i].kind = "token" /\ q[i].upto = b
    /\ \A i \in 1 .. Len(q) : q[i].kind = "sentence" =>
          \/ q[i].upto <= a
          \/ \E j \in 1 .. Len(q) : j < i /\ q[j].kind = "token" /\ q[i].upto <= q[j].upto

\* The sentences of q follow one another after position v and up to w, and
\* those with something to say end at positions of N.
SpeechQueue(q, v, w, N) ==
    /\ v <= w
    /\ \A i \in 1 .. Len(q) : q[i].kind = "sentence" =>
          v < q[i].upto /\ q[i].upto <= w /\ (~ q[i].mute => q[i].upto \in N)
    /\ \A i, j \in 1 .. Len(q) :
          i < j /\ q[i].kind = "sentence" /\ q[j].kind = "sentence" => q[i].upto < q[j].upto

\* A sentence of q with something to say ends at position u.
Says(q, u) ==
    \E i \in 1 .. Len(q) : q[i].kind = "sentence" /\ ~ q[i].mute /\ q[i].upto = u

\* What is to be said is in V already or still in q.
Owed(q, V, N) == \A u \in N : u \in V \/ Says(q, u)

\* Only the last event of q may end the stream.
EndsLast(q) == \A i \in 1 .. Len(q) : q[i].kind = "llm_done" => i = Len(q)

----------------------------------------------------------------------------
\* How far the text and the sentences have been pushed to the queue.
PushedText == IF attached THEN taken.text ELSE text
PushedSentences == IF attached THEN taken.sentences ELSE Len(sentences)

Upto(n) == IF n = 0 THEN 0 ELSE sentences[n].upto
PushedSpeech == IF llm = "over" THEN text ELSE Upto(PushedSentences)

\* Positions of the pushed sentences that have something to say.
ToSay ==
    {u \in 1 .. MaxText :
        \/ \E i \in 1 .. PushedSentences : sentences[i].upto = u /\ ~ sentences[i].mute
        \/ llm = "over" /\ ~ truncated /\ rest # <<>> /\ rest[1].upto = u /\ ~ rest[1].mute}

BeingSpoken == IF writer \in {"shared", "synth"} THEN {speaking} ELSE {}

Voices == {u \in 1 .. MaxText : \E i \in 1 .. Len(voiced) : voiced[i] = u}

\* Everything the reader made has been pushed.
Complete ==
    /\ llm = "over" /\ reader = "over"
    /\ attached => taken.text = text /\ taken.sentences = Len(sentences)

Gone == writer \in {"join", "over"}

----------------------------------------------------------------------------
\* Sentences are cut one after another within the text; the rest, cut at the
\* end of the stream, comes after them.
CutsInOrder ==
    /\ Len(sentences) <= text
    /\ \A i \in 1 .. Len(sentences) : sentences[i].upto <= text
    /\ \A i, j \in 1 .. Len(sentences) : i < j => sentences[i].upto < sentences[j].upto
    /\ rest # <<>> => /\ rest[1].upto = text
                      /\ \A i \in 1 .. Len(sentences) : sentences[i].upto < text
    /\ reader # "over" => rest = <<>> /\ ~ truncated

\* The LLM thread of a replay has copied no more than there is, and no sentence
\* before its text; one that is not a replay ends with its reader.
Replaying ==
    /\ taken.text <= text /\ taken.sentences <= Len(sentences)
    /\ taken.sentences > 0 => sentences[taken.sentences].upto <= taken.text
    /\ ~ attached => llm \in {"read", "over"} /\ (llm = "over" <=> reader = "over")
    /\ attached => llm # "read"

\* The queue carries the text and the sentences from what the writer has done
\* to what was pushed; what is to be said and was not said is in it.
TextInv == TextQueue(queue, reply_text, PushedText)
SpeechInv == SpeechQueue(queue, speaking, PushedSpeech, ToSay)
OwedInv == (~ Gone \/ out # {}) => Owed(queue, Voices \cup BeingSpoken, ToSay)

\* What was voiced was to be said, in order, and before what is being spoken.
VoicedInv ==
    /\ \A i \in 1 .. Len(voiced) : voiced[i] <= speaking /\ voiced[i] \in ToSay
    /\ \A i, j \in 1 .. Len(voiced) : i < j => voiced[i] < voiced[j]
    /\ writer \in {"shared", "synth"} =>
          speaking \in ToSay /\ \A i \in 1 .. Len(voiced) : voiced[i] < speaking

\* llm_done is the last event and follows everything; the writer ends the reply
\* only after it, and gives up on the LLM thread only when it leaves.
EndInv ==
    /\ EndsLast(queue)
    /\ (\E i \in 1 .. Len(queue) : queue[i].kind = "llm_done") => Complete
    /\ llm_finished => queue = <<>> /\ Complete
    /\ out # {} => llm_finished /\ Gone
    /\ abort => Gone
    /\ llm = "over" /\ ~ Complete => abort

\* What the client heard of the sentence being spoken is of the current take.
LineInv ==
    writer \in {"shared", "synth"} =>
        /\ line.take = 1 => /\ heard \subseteq {1} /\ line.held \subseteq {1}
                            /\ line.verify /\ ~ line.cleared => heard = {}
        /\ line.take = 2 => /\ line.verify /\ line.like \in 0 .. 1
                            /\ heard \subseteq {2} /\ line.held \subseteq {2}
                            /\ ~ line.cleared => heard = {}
                            /\ line.cleared => line.held = {}

\* The first sentence is synthesized by one trigger, and the writer has seen the
\* end of that before it synthesizes anything itself.
SynthInv ==
    /\ \A t \in Triggers : tts[t] = "synth" => attached /\ audio = "Running"
    /\ ~ (tts["early"] = "synth" /\ tts["late"] = "synth")
    /\ ~ attached => ~ early_tts /\ \A t \in Triggers : tts[t] = "off"
    /\ attached /\ ~ first => audio # "None"
    /\ attached /\ ~ first /\ writer \in {"idle", "synth"} => audio # "Running"
    /\ writer \in {"shared", "synth"} => ~ first
    /\ writer = "start" => first

----------------------------------------------------------------------------
\* The type invariant in parts.
ControlTypes ==
    /\ attached \in BOOLEAN /\ early_tts \in BOOLEAN
    /\ reader \in {"stream", "check", "flush", "publish", "over"}
    /\ ended \in {"no", "clean", "died", "error", "aborted"}
    /\ truncated \in BOOLEAN /\ specAbort \in BOOLEAN
    /\ audio \in {"None", "Running", "Done", "Failed"}
    /\ llm \in {"read", "loop", "copy", "over"}
    /\ abort \in BOOLEAN
    /\ writer \in {"start", "idle", "shared", "synth", "join", "over"}
    /\ first \in BOOLEAN /\ llm_finished \in BOOLEAN
    /\ out \subseteq {"error", "done"}
    /\ client \in BOOLEAN

BufferTypes ==
    /\ text \in 0 .. MaxText
    /\ sentences \in Seq(Sentence)
    /\ rest \in {<<>>} \cup {<<s>> : s \in Sentence}
    /\ taken \in [text : 0 .. MaxText, sentences : 0 .. MaxText]

QueueTypes == queue \in Seq(Event)

WriterTypes ==
    /\ speaking \in 0 .. MaxText
    /\ reply_text \in 0 .. MaxText
    /\ voiced \in Seq(1 .. MaxText)
    /\ reprimed \in -1 .. MaxText

SynthTypes ==
    /\ chunks \in 0 .. MaxChunks /\ chunk_pos \in 0 .. MaxChunks
    /\ tts \in [Triggers -> {"off", "settle", "synth", "over"}]

LineTypes ==
    /\ line \in [verify : BOOLEAN, take : 1 .. 2, cleared : BOOLEAN,
                 held : SUBSET {1, 2}, like : Likeness]
    /\ heard \subseteq {1, 2}

TypesOK ==
    ControlTypes /\ BufferTypes /\ QueueTypes /\ WriterTypes /\ SynthTypes /\ LineTypes

\* The inductive invariant.
StreamInv ==
    /\ TypesOK
    /\ CutsInOrder /\ Replaying
    /\ TextInv /\ SpeechInv /\ OwedInv /\ VoicedInv /\ EndInv
    /\ LineInv /\ SynthInv
    /\ SentenceAfterItsText /\ RePrimeIsWholeReply /\ OneTakeHeard

----------------------------------------------------------------------------
\* Sequences.

\* A nonempty set of naturals has a least element.
LEMMA LeastExists ==
    ASSUME NEW T \in SUBSET Nat, T # {}
    PROVE  \E x \in T : \A y \in T : x <= y
  <1>1. PICK x \in T : \A y \in T : ~ (<<y, x>> \in OpToRel(<, Nat))
    BY NatLessThanWellFounded, WFMin
  <1>2. \A y \in T : ~ (y < x)
    BY <1>1 DEF OpToRel
  <1> QED
    BY <1>2

\* The elements of two sequences appended.
LEMMA ConcatIs ==
    ASSUME NEW S, NEW q \in Seq(S), NEW x \in Seq(S)
    PROVE  /\ q \o x \in Seq(S) /\ Len(q \o x) = Len(q) + Len(x)
           /\ Len(q) \in Nat /\ Len(x) \in Nat
           /\ \A i \in 1 .. Len(q) : (q \o x)[i] = q[i]
           /\ \A i \in 1 .. Len(x) : (q \o x)[Len(q) + i] = x[i]
           /\ \A i \in 1 .. Len(q \o x) :
                 \/ i \in 1 .. Len(q) /\ (q \o x)[i] = q[i]
                 \/ i - Len(q) \in 1 .. Len(x) /\ (q \o x)[i] = x[i - Len(q)]
  <1>1. /\ q \o x \in Seq(S) /\ Len(q \o x) = Len(q) + Len(x)
        /\ Len(q) \in Nat /\ Len(x) \in Nat
        /\ \A i \in 1 .. Len(q) : (q \o x)[i] = q[i]
        /\ \A i \in 1 .. Len(x) : (q \o x)[Len(q) + i] = x[i]
    OBVIOUS
  <1>2. ASSUME NEW i \in 1 .. Len(q \o x)
        PROVE  \/ i \in 1 .. Len(q) /\ (q \o x)[i] = q[i]
               \/ i - Len(q) \in 1 .. Len(x) /\ (q \o x)[i] = x[i - Len(q)]
    <2>1. CASE i <= Len(q)
      BY <1>1, <2>1
    <2>2. CASE i > Len(q)
      <3>1. i - Len(q) \in 1 .. Len(x)
        BY <1>1, <2>2
      <3>2. (q \o x)[Len(q) + (i - Len(q))] = x[i - Len(q)]
        BY <1>1, <3>1
      <3>3. Len(q) + (i - Len(q)) = i
        BY <1>1
      <3> QED
        BY <3>1, <3>2, <3>3
    <2> QED
      BY <1>1, <2>1, <2>2
  <1> QED
    BY <1>1, <1>2

\* A sequence without its first n elements.
Drop(q, n) == SubSeq(q, n + 1, Len(q))

\* Its elements.
LEMMA DropIs ==
    ASSUME NEW S, NEW q \in Seq(S), NEW n \in 0 .. Len(q)
    PROVE  /\ Drop(q, n) \in Seq(S) /\ Len(Drop(q, n)) = Len(q) - n
           /\ Len(q) \in Nat
           /\ \A i \in 1 .. Len(q) - n : n + i \in 1 .. Len(q) /\ Drop(q, n)[i] = q[n + i]
           /\ \A i \in n + 1 .. Len(q) : i - n \in 1 .. Len(q) - n /\ Drop(q, n)[i - n] = q[i]
  <1>1. /\ Drop(q, n) \in Seq(S) /\ Len(Drop(q, n)) = Len(q) - n
        /\ Len(q) \in Nat
        /\ \A i \in 1 .. Len(q) - n : Drop(q, n)[i] = q[n + i]
    BY DEF Drop
  <1>2. \A i \in 1 .. Len(q) - n : n + i \in 1 .. Len(q)
    BY <1>1
  <1>3. ASSUME NEW i \in n + 1 .. Len(q)
        PROVE  i - n \in 1 .. Len(q) - n /\ Drop(q, n)[i - n] = q[i]
    <2>1. i - n \in 1 .. Len(q) - n /\ n + (i - n) = i
      BY <1>1
    <2> QED
      BY <1>1, <2>1
  <1> QED
    BY <1>1, <1>2, <1>3

\* Taking the head is dropping one element.
LEMMA TailIs ==
    ASSUME NEW S, NEW q \in Seq(S), q # <<>>
    PROVE  /\ Tail(q) = Drop(q, 1) /\ Head(q) = q[1]
           /\ Len(q) \in Nat /\ Len(q) >= 1
  BY DEF Drop

----------------------------------------------------------------------------
\* The predicates of a queue compose.

\* The fields of the events in a queue.
LEMMA EventIs ==
    ASSUME NEW q \in Seq(Event), NEW i \in 1 .. Len(q)
    PROVE  /\ q[i].kind \in {"token", "sentence", "llm_done"}
           /\ q[i].upto \in 0 .. MaxText /\ q[i].upto \in Nat
           /\ q[i].mute \in BOOLEAN
  <1>1. q[i] \in Event
    OBVIOUS
  <1>2. q[i].upto \in 0 .. MaxText
    BY <1>1 DEF Event
  <1>3. q[i].upto \in Nat
    BY <1>2, ChatStreamAssumption
  <1> QED
    BY <1>1, <1>2, <1>3 DEF Event

\* Text carried by two queues in a row.
LEMMA TextJoin ==
    ASSUME NEW q \in Seq(Event), NEW x \in Seq(Event),
           NEW a \in Nat, NEW b \in Nat, NEW c \in Nat,
           TextQueue(q, a, b), TextQueue(x, b, c)
    PROVE  TextQueue(q \o x, a, c)
  <1> DEFINE y == q \o x
             n == Len(q)
             m == Len(x)
             N == Len(y)
  <1>0. /\ N = n + m /\ n \in Nat /\ m \in Nat
        /\ \A i \in 1 .. n : y[i] = q[i]
        /\ \A i \in 1 .. m : y[n + i] = x[i]
        /\ \A i \in 1 .. N : \/ i \in 1 .. n /\ y[i] = q[i]
                             \/ i - n \in 1 .. m /\ y[i] = x[i - n]
    BY ConcatIs
  <1>t. /\ \A i \in 1 .. n : q[i].upto \in Nat
        /\ \A i \in 1 .. m : x[i].upto \in Nat
    BY EventIs
  <1>q. /\ a <= b
        /\ \A i \in 1 .. n : q[i].kind = "token" => a < q[i].upto /\ q[i].upto <= b
        /\ \A i, j \in 1 .. n :
              i < j /\ q[i].kind = "token" /\ q[j].kind = "token" => q[i].upto < q[j].upto
        /\ a # b => \E i \in 1 .. n : q[i].kind = "token" /\ q[i].upto = b
        /\ \A i \in 1 .. n : q[i].kind = "sentence" =>
              \/ q[i].upto <= a
              \/ \E j \in 1 .. n : j < i /\ q[j].kind = "token" /\ q[i].upto <= q[j].upto
    BY DEF TextQueue
  <1>x. /\ b <= c
        /\ \A i \in 1 .. m : x[i].kind = "token" => b < x[i].upto /\ x[i].upto <= c
        /\ \A i, j \in 1 .. m :
              i < j /\ x[i].kind = "token" /\ x[j].kind = "token" => x[i].upto < x[j].upto
        /\ b # c => \E i \in 1 .. m : x[i].kind = "token" /\ x[i].upto = c
        /\ \A i \in 1 .. m : x[i].kind = "sentence" =>
              \/ x[i].upto <= b
              \/ \E j \in 1 .. m : j < i /\ x[j].kind = "token" /\ x[i].upto <= x[j].upto
    BY DEF TextQueue
  <1> HIDE DEF y, n, m, N
  <1>1. a <= c
    BY <1>q, <1>x
  <1>2. ASSUME NEW i \in 1 .. N, y[i].kind = "token"
        PROVE  a < y[i].upto /\ y[i].upto <= c
    <2>1. CASE i \in 1 .. n /\ y[i] = q[i]
      <3>1. a < q[i].upto /\ q[i].upto <= b /\ q[i].upto \in Nat
        BY <1>2, <1>q, <1>t, <2>1
      <3> QED
        BY <1>x, <2>1, <3>1
    <2>2. CASE i - n \in 1 .. m /\ y[i] = x[i - n]
      <3>1. b < x[i - n].upto /\ x[i - n].upto <= c /\ x[i - n].upto \in Nat
        BY <1>2, <1>x, <1>t, <2>2
      <3> QED
        BY <1>q, <2>2, <3>1
    <2> QED
      BY <1>0, <2>1, <2>2
  <1>3. ASSUME NEW i \in 1 .. N, NEW j \in 1 .. N, i < j,
               y[i].kind = "token", y[j].kind = "token"
        PROVE  y[i].upto < y[j].upto
    <2>1. CASE j \in 1 .. n /\ y[j] = q[j]
      <3>1. i \in 1 .. n /\ y[i] = q[i]
        BY <1>0, <1>3, <2>1
      <3> QED
        BY <1>3, <1>q, <2>1, <3>1
    <2>2. CASE j - n \in 1 .. m /\ y[j] = x[j - n] /\ i \in 1 .. n /\ y[i] = q[i]
      <3>1. q[i].upto <= b /\ b < x[j - n].upto
        BY <1>3, <1>q, <1>x, <2>2
      <3> QED
        BY <1>t, <2>2, <3>1
    <2>3. CASE j - n \in 1 .. m /\ y[j] = x[j - n] /\ i - n \in 1 .. m /\ y[i] = x[i - n]
      <3>1. i - n < j - n
        BY <1>0, <1>3
      <3> QED
        BY <1>3, <1>x, <2>3, <3>1
    <2> QED
      BY <1>0, <2>1, <2>2, <2>3
  <1>4. ASSUME a # c
        PROVE  \E i \in 1 .. N : y[i].kind = "token" /\ y[i].upto = c
    <2>1. CASE b # c
      <3>1. PICK i \in 1 .. m : x[i].kind = "token" /\ x[i].upto = c
        BY <1>x, <2>1
      <3>2. n + i \in 1 .. N /\ y[n + i] = x[i]
        BY <1>0
      <3> QED
        BY <3>1, <3>2
    <2>2. CASE b = c
      <3>1. PICK i \in 1 .. n : q[i].kind = "token" /\ q[i].upto = c
        BY <1>q, <1>4, <2>2
      <3>2. i \in 1 .. N /\ y[i] = q[i]
        BY <1>0
      <3> QED
        BY <3>1, <3>2
    <2> QED
      BY <2>1, <2>2
  <1>5. ASSUME NEW i \in 1 .. N, y[i].kind = "sentence", ~ (y[i].upto <= a)
        PROVE  \E j \in 1 .. N : j < i /\ y[j].kind = "token" /\ y[i].upto <= y[j].upto
    <2>1. CASE i \in 1 .. n /\ y[i] = q[i]
      <3>1. PICK j \in 1 .. n : j < i /\ q[j].kind = "token" /\ q[i].upto <= q[j].upto
        BY <1>q, <1>5, <2>1
      <3>2. j \in 1 .. N /\ y[j] = q[j]
        BY <1>0
      <3> QED
        BY <2>1, <3>1, <3>2
    <2>2. CASE i - n \in 1 .. m /\ y[i] = x[i - n]
      <3>1. CASE x[i - n].upto <= b
        <4>1. a # b
          BY <1>5, <2>2, <3>1
        <4>2. PICK j \in 1 .. n : q[j].kind = "token" /\ q[j].upto = b
          BY <1>q, <4>1
        <4>3. j \in 1 .. N /\ y[j] = q[j] /\ j < i
          BY <1>0, <2>2
        <4> QED
          BY <2>2, <3>1, <4>2, <4>3
      <3>2. CASE \E j \in 1 .. m : j < i - n /\ x[j].kind = "token" /\ x[i - n].upto <= x[j].upto
        <4>1. PICK j \in 1 .. m : j < i - n /\ x[j].kind = "token" /\ x[i - n].upto <= x[j].upto
          BY <3>2
        <4>2. n + j \in 1 .. N /\ y[n + j] = x[j] /\ n + j < i
          BY <1>0, <4>1
        <4> QED
          BY <2>2, <4>1, <4>2
      <3> QED
        BY <1>x, <1>5, <2>2, <3>1, <3>2
    <2> QED
      BY <1>0, <2>1, <2>2
  <1> QED
    BY <1>1, <1>2, <1>3, <1>4, <1>5 DEF TextQueue, y, N

\* What is left of a queue once the text up to position c was taken from it.
LEMMA TextDrop ==
    ASSUME NEW q \in Seq(Event), NEW n \in 0 .. Len(q),
           NEW a \in Nat, NEW b \in Nat, NEW c \in Nat,
           TextQueue(q, a, b), a <= c, c <= b,
           \A i \in 1 .. n : q[i].kind = "token" => q[i].upto <= c,
           \A i \in n + 1 .. Len(q) : q[i].kind = "token" => c < q[i].upto
    PROVE  TextQueue(Drop(q, n), c, b)
  <1> DEFINE y == Drop(q, n)
             N == Len(q)
             M == Len(y)
  <1>0. /\ N \in Nat /\ M = N - n
        /\ \A i \in 1 .. M : n + i \in 1 .. N /\ y[i] = q[n + i]
        /\ \A i \in n + 1 .. N : i - n \in 1 .. M /\ y[i - n] = q[i]
    BY DropIs
  <1>t. \A i \in 1 .. N : q[i].upto \in Nat
    BY EventIs
  <1>q. /\ \A i \in 1 .. N : q[i].kind = "token" => a < q[i].upto /\ q[i].upto <= b
        /\ \A i, j \in 1 .. N :
              i < j /\ q[i].kind = "token" /\ q[j].kind = "token" => q[i].upto < q[j].upto
        /\ a # b => \E i \in 1 .. N : q[i].kind = "token" /\ q[i].upto = b
        /\ \A i \in 1 .. N : q[i].kind = "sentence" =>
              \/ q[i].upto <= a
              \/ \E j \in 1 .. N : j < i /\ q[j].kind = "token" /\ q[i].upto <= q[j].upto
        /\ \A i \in 1 .. n : q[i].kind = "token" => q[i].upto <= c
        /\ \A i \in n + 1 .. N : q[i].kind = "token" => c < q[i].upto
    BY DEF TextQueue
  <1> HIDE DEF y, N, M
  <1>2. ASSUME NEW i \in 1 .. M, y[i].kind = "token"
        PROVE  c < y[i].upto /\ y[i].upto <= b
    <2>1. n + i \in n + 1 .. N /\ y[i] = q[n + i] /\ n + i \in 1 .. N
      BY <1>0
    <2> QED
      BY <1>2, <1>q, <2>1
  <1>3. ASSUME NEW i \in 1 .. M, NEW j \in 1 .. M, i < j,
               y[i].kind = "token", y[j].kind = "token"
        PROVE  y[i].upto < y[j].upto
    <2>1. n + i \in 1 .. N /\ y[i] = q[n + i] /\ n + j \in 1 .. N /\ y[j] = q[n + j]
      BY <1>0
    <2>2. n + i < n + j
      BY <1>3
    <2> QED
      BY <1>3, <1>q, <2>1, <2>2
  <1>4. ASSUME c # b
        PROVE  \E i \in 1 .. M : y[i].kind = "token" /\ y[i].upto = b
    <2>1. PICK i \in 1 .. N : q[i].kind = "token" /\ q[i].upto = b
      BY <1>q, <1>4
    <2>2. i \notin 1 .. n
      BY <1>q, <1>4, <2>1
    <2>3. i \in n + 1 .. N
      BY <1>0, <2>2
    <2> QED
      BY <1>0, <2>1, <2>3
  <1>5. ASSUME NEW i \in 1 .. M, y[i].kind = "sentence", ~ (y[i].upto <= c)
        PROVE  \E j \in 1 .. M : j < i /\ y[j].kind = "token" /\ y[i].upto <= y[j].upto
    <2>1. n + i \in 1 .. N /\ y[i] = q[n + i]
      BY <1>0
    <2>2. ~ (q[n + i].upto <= a)
      BY <1>5, <1>t, <2>1
    <2>3. PICK j \in 1 .. N : j < n + i /\ q[j].kind = "token" /\ q[n + i].upto <= q[j].upto
      BY <1>5, <1>q, <2>1, <2>2
    <2>4. j \notin 1 .. n
      BY <1>5, <1>q, <1>t, <2>1, <2>3
    <2>5. j \in n + 1 .. N /\ j - n < i
      BY <1>0, <2>3, <2>4
    <2>6. j - n \in 1 .. M /\ y[j - n] = q[j]
      BY <1>0, <2>5
    <2> QED
      BY <2>1, <2>3, <2>5, <2>6
  <1> QED
    BY <1>2, <1>3, <1>4, <1>5 DEF TextQueue, y, M

\* Speech carried by two queues in a row.
LEMMA SpeechJoin ==
    ASSUME NEW q \in Seq(Event), NEW x \in Seq(Event),
           NEW v \in Nat, NEW w \in Nat, NEW z \in Nat, NEW A, NEW B, A \subseteq B,
           SpeechQueue(q, v, w, A), SpeechQueue(x, w, z, B)
    PROVE  SpeechQueue(q \o x, v, z, B)
  <1> DEFINE y == q \o x
             n == Len(q)
             m == Len(x)
             N == Len(y)
  <1>0. /\ N = n + m /\ n \in Nat /\ m \in Nat
        /\ \A i \in 1 .. N : \/ i \in 1 .. n /\ y[i] = q[i]
                             \/ i - n \in 1 .. m /\ y[i] = x[i - n]
    BY ConcatIs
  <1>t. /\ \A i \in 1 .. n : q[i].upto \in Nat
        /\ \A i \in 1 .. m : x[i].upto \in Nat
    BY EventIs
  <1>q. /\ v <= w
        /\ \A i \in 1 .. n : q[i].kind = "sentence" =>
              v < q[i].upto /\ q[i].upto <= w /\ (~ q[i].mute => q[i].upto \in A)
        /\ \A i, j \in 1 .. n :
              i < j /\ q[i].kind = "sentence" /\ q[j].kind = "sentence" => q[i].upto < q[j].upto
    BY DEF SpeechQueue
  <1>x. /\ w <= z
        /\ \A i \in 1 .. m : x[i].kind = "sentence" =>
              w < x[i].upto /\ x[i].upto <= z /\ (~ x[i].mute => x[i].upto \in B)
        /\ \A i, j \in 1 .. m :
              i < j /\ x[i].kind = "sentence" /\ x[j].kind = "sentence" => x[i].upto < x[j].upto
    BY DEF SpeechQueue
  <1> HIDE DEF y, n, m, N
  <1>1. v <= z
    BY <1>q, <1>x
  <1>2. ASSUME NEW i \in 1 .. N, y[i].kind = "sentence"
        PROVE  v < y[i].upto /\ y[i].upto <= z /\ (~ y[i].mute => y[i].upto \in B)
    <2>1. CASE i \in 1 .. n /\ y[i] = q[i]
      BY <1>2, <1>q, <1>x, <1>t, <2>1
    <2>2. CASE i - n \in 1 .. m /\ y[i] = x[i - n]
      BY <1>2, <1>q, <1>x, <1>t, <2>2
    <2> QED
      BY <1>0, <2>1, <2>2
  <1>3. ASSUME NEW i \in 1 .. N, NEW j \in 1 .. N, i < j,
               y[i].kind = "sentence", y[j].kind = "sentence"
        PROVE  y[i].upto < y[j].upto
    <2>1. CASE j \in 1 .. n /\ y[j] = q[j]
      <3>1. i \in 1 .. n /\ y[i] = q[i]
        BY <1>0, <1>3, <2>1
      <3> QED
        BY <1>3, <1>q, <2>1, <3>1
    <2>2. CASE j - n \in 1 .. m /\ y[j] = x[j - n] /\ i \in 1 .. n /\ y[i] = q[i]
      <3>1. q[i].upto <= w /\ w < x[j - n].upto
        BY <1>3, <1>q, <1>x, <2>2
      <3> QED
        BY <1>t, <2>2, <3>1
    <2>3. CASE j - n \in 1 .. m /\ y[j] = x[j - n] /\ i - n \in 1 .. m /\ y[i] = x[i - n]
      <3>1. i - n < j - n
        BY <1>0, <1>3
      <3> QED
        BY <1>3, <1>x, <2>3, <3>1
    <2> QED
      BY <1>0, <2>1, <2>2, <2>3
  <1> QED
    BY <1>1, <1>2, <1>3 DEF SpeechQueue, y, N

\* What is left of a queue once the speech up to position u was taken from it.
LEMMA SpeechDrop ==
    ASSUME NEW q \in Seq(Event), NEW n \in 0 .. Len(q),
           NEW v \in Nat, NEW w \in Nat, NEW u \in Nat, NEW A,
           SpeechQueue(q, v, w, A), u <= w,
           \A i \in n + 1 .. Len(q) : q[i].kind = "sentence" => u < q[i].upto
    PROVE  SpeechQueue(Drop(q, n), u, w, A)
  <1> DEFINE y == Drop(q, n)
             N == Len(q)
             M == Len(y)
  <1>0. /\ N \in Nat /\ M = N - n
        /\ \A i \in 1 .. M : n + i \in 1 .. N /\ y[i] = q[n + i]
    BY DropIs
  <1>q. /\ \A i \in 1 .. N : q[i].kind = "sentence" =>
              v < q[i].upto /\ q[i].upto <= w /\ (~ q[i].mute => q[i].upto \in A)
        /\ \A i, j \in 1 .. N :
              i < j /\ q[i].kind = "sentence" /\ q[j].kind = "sentence" => q[i].upto < q[j].upto
        /\ \A i \in n + 1 .. N : q[i].kind = "sentence" => u < q[i].upto
    BY DEF SpeechQueue
  <1> HIDE DEF y, N, M
  <1>2. ASSUME NEW i \in 1 .. M, y[i].kind = "sentence"
        PROVE  u < y[i].upto /\ y[i].upto <= w /\ (~ y[i].mute => y[i].upto \in A)
    <2>1. n + i \in n + 1 .. N /\ y[i] = q[n + i] /\ n + i \in 1 .. N
      BY <1>0
    <2> QED
      BY <1>2, <1>q, <2>1
  <1>3. ASSUME NEW i \in 1 .. M, NEW j \in 1 .. M, i < j,
               y[i].kind = "sentence", y[j].kind = "sentence"
        PROVE  y[i].upto < y[j].upto
    <2>1. n + i \in 1 .. N /\ y[i] = q[n + i] /\ n + j \in 1 .. N /\ y[j] = q[n + j]
      BY <1>0
    <2>2. n + i < n + j
      BY <1>3
    <2> QED
      BY <1>3, <1>q, <2>1, <2>2
  <1> QED
    BY <1>2, <1>3 DEF SpeechQueue, y, M

\* What either of two queues says, both in a row say.
LEMMA SaysJoin ==
    ASSUME NEW q \in Seq(Event), NEW x \in Seq(Event), NEW u
    PROVE  Says(q \o x, u) <=> Says(q, u) \/ Says(x, u)
  <1> DEFINE y == q \o x
             n == Len(q)
             m == Len(x)
             N == Len(y)
  <1>0. /\ N = n + m /\ n \in Nat /\ m \in Nat
        /\ \A i \in 1 .. n : y[i] = q[i]
        /\ \A i \in 1 .. m : y[n + i] = x[i]
        /\ \A i \in 1 .. N : \/ i \in 1 .. n /\ y[i] = q[i]
                             \/ i - n \in 1 .. m /\ y[i] = x[i - n]
    BY ConcatIs
  <1>1. ASSUME Says(q, u) PROVE Says(y, u)
    <2>1. PICK i \in 1 .. n : q[i].kind = "sentence" /\ ~ q[i].mute /\ q[i].upto = u
      BY <1>1 DEF Says
    <2> HIDE DEF y, n, m
    <2>2. i \in 1 .. N /\ y[i] = q[i]
      BY <1>0
    <2> QED
      BY <2>1, <2>2 DEF Says
  <1>2. ASSUME Says(x, u) PROVE Says(y, u)
    <2>1. PICK i \in 1 .. m : x[i].kind = "sentence" /\ ~ x[i].mute /\ x[i].upto = u
      BY <1>2 DEF Says
    <2> HIDE DEF y, n, m
    <2>2. n + i \in 1 .. N /\ y[n + i] = x[i]
      BY <1>0
    <2> QED
      BY <2>1, <2>2 DEF Says
  <1>3. ASSUME Says(y, u) PROVE Says(q, u) \/ Says(x, u)
    <2>1. PICK i \in 1 .. N : y[i].kind = "sentence" /\ ~ y[i].mute /\ y[i].upto = u
      BY <1>3 DEF Says
    <2> HIDE DEF y, N
    <2> QED
      BY <1>0, <2>1 DEF Says
  <1> QED
    BY <1>1, <1>2, <1>3

\* Consuming what has nothing to say leaves the rest to be said.
LEMMA SaysDrop ==
    ASSUME NEW q \in Seq(Event), NEW n \in 0 .. Len(q), NEW u, Says(q, u),
           \A i \in 1 .. n : ~ (q[i].kind = "sentence" /\ ~ q[i].mute /\ q[i].upto = u)
    PROVE  Says(Drop(q, n), u)
  <1> DEFINE y == Drop(q, n)
             N == Len(q)
             M == Len(y)
  <1>0. /\ N \in Nat /\ M = N - n
        /\ \A i \in n + 1 .. N : i - n \in 1 .. M /\ y[i - n] = q[i]
    BY DropIs
  <1>1. PICK i \in 1 .. N : q[i].kind = "sentence" /\ ~ q[i].mute /\ q[i].upto = u
    BY DEF Says
  <1> HIDE DEF y, N
  <1>2. i \in n + 1 .. N
    BY <1>0, <1>1
  <1> QED
    BY <1>0, <1>1, <1>2 DEF Says, y

\* An end that is pushed last is last.
LEMMA EndsLastJoin ==
    ASSUME NEW q \in Seq(Event), NEW x \in Seq(Event), EndsLast(x),
           \A i \in 1 .. Len(q) : q[i].kind # "llm_done"
    PROVE  /\ EndsLast(q \o x)
           /\ (\E i \in 1 .. Len(q \o x) : (q \o x)[i].kind = "llm_done") =>
                 \E i \in 1 .. Len(x) : x[i].kind = "llm_done"
  <1> DEFINE y == q \o x
             n == Len(q)
             m == Len(x)
             N == Len(y)
  <1>0. /\ N = n + m /\ n \in Nat /\ m \in Nat
        /\ \A i \in 1 .. N : \/ i \in 1 .. n /\ y[i] = q[i]
                             \/ i - n \in 1 .. m /\ y[i] = x[i - n]
    BY ConcatIs
  <1>1. /\ \A i \in 1 .. m : x[i].kind = "llm_done" => i = m
        /\ \A i \in 1 .. n : q[i].kind # "llm_done"
    BY DEF EndsLast
  <1> HIDE DEF y, n, m, N
  <1>2. ASSUME NEW i \in 1 .. N, y[i].kind = "llm_done"
        PROVE  i = N /\ \E j \in 1 .. m : x[j].kind = "llm_done"
    <2>1. i - n \in 1 .. m /\ y[i] = x[i - n]
      BY <1>0, <1>1, <1>2
    <2>2. i - n = m
      BY <1>1, <1>2, <2>1
    <2> QED
      BY <1>0, <1>2, <2>1, <2>2
  <1> QED
    BY <1>2 DEF EndsLast, y, N, m

\* The end stays last while the events before it are consumed.
LEMMA EndsLastDrop ==
    ASSUME NEW q \in Seq(Event), NEW n \in 0 .. Len(q), EndsLast(q)
    PROVE  /\ EndsLast(Drop(q, n))
           /\ (\E i \in 1 .. Len(Drop(q, n)) : Drop(q, n)[i].kind = "llm_done") =>
                 \E i \in 1 .. Len(q) : q[i].kind = "llm_done"
  <1> DEFINE y == Drop(q, n)
             N == Len(q)
             M == Len(y)
  <1>0. /\ N \in Nat /\ M = N - n
        /\ \A i \in 1 .. M : n + i \in 1 .. N /\ y[i] = q[n + i]
    BY DropIs
  <1>1. \A i \in 1 .. N : q[i].kind = "llm_done" => i = N
    BY DEF EndsLast
  <1> HIDE DEF y, N, M
  <1>2. ASSUME NEW i \in 1 .. M, y[i].kind = "llm_done"
        PROVE  i = M /\ \E j \in 1 .. N : q[j].kind = "llm_done"
    <2>1. n + i \in 1 .. N /\ y[i] = q[n + i] /\ n + i = N
      BY <1>0, <1>1, <1>2
    <2>2. i = M
      BY <1>0, <2>1
    <2> QED
      BY <1>2, <2>1, <2>2
  <1> QED
    BY <1>2 DEF EndsLast, y, N, M

----------------------------------------------------------------------------
\* What is pushed.

\* The events of a sequence of sentences.
LEMMA EventsIs ==
    ASSUME NEW ss \in Seq(Sentence)
    PROVE  /\ Events(ss) \in Seq(Event) /\ Len(Events(ss)) = Len(ss) /\ Len(ss) \in Nat
           /\ \A i \in 1 .. Len(ss) : /\ ss[i] \in Sentence
                                      /\ Events(ss)[i].kind = "sentence"
                                      /\ Events(ss)[i].upto = ss[i].upto
                                      /\ Events(ss)[i].mute = ss[i].mute
  <1>1. \A i \in 1 .. Len(ss) : ss[i] \in Sentence /\ Len(ss) \in Nat
    OBVIOUS
  <1>2. \A s \in Sentence : Spoken(s) \in Event
    BY ChatStreamAssumption DEF Sentence, Spoken, Event
  <1>3. Len(ss) \in Nat
    OBVIOUS
  <1>4. Events(ss) \in [1 .. Len(ss) -> Event]
    BY <1>1, <1>2 DEF Events
  <1>5. Events(ss) \in Seq(Event) /\ Len(Events(ss)) = Len(ss)
    BY <1>3, <1>4
  <1>6. \A i \in 1 .. Len(ss) : Events(ss)[i] = Spoken(ss[i])
    BY DEF Events
  <1>7. \A s \in Sentence : /\ Spoken(s).kind = "sentence" /\ Spoken(s).upto = s.upto
                            /\ Spoken(s).mute = s.mute
    BY DEF Spoken
  <1>8. ASSUME NEW i \in 1 .. Len(ss)
        PROVE  /\ ss[i] \in Sentence /\ Events(ss)[i].kind = "sentence"
               /\ Events(ss)[i].upto = ss[i].upto /\ Events(ss)[i].mute = ss[i].mute
    <2>1. ss[i] \in Sentence /\ Events(ss)[i] = Spoken(ss[i])
      BY <1>1, <1>6
    <2> HIDE DEF Events
    <2> QED
      BY <1>7, <2>1
  <1> QED
    BY <1>3, <1>5, <1>8

\* A token event.
LEMMA TokenIs ==
    ASSUME NEW n \in 0 .. MaxText
    PROVE  /\ <<Token(n)>> \in Seq(Event) /\ Len(<<Token(n)>>) = 1
           /\ \A i \in 1 .. 1 : /\ i = 1 /\ <<Token(n)>>[i].kind = "token"
                                /\ <<Token(n)>>[i].upto = n
  <1>1. Token(n) \in Event
    BY DEF Token, Event
  <1> QED
    BY <1>1 DEF Token

\* The event that ends the stream.
LEMMA EndIs ==
    /\ <<LlmDone>> \in Seq(Event) /\ Len(<<LlmDone>>) = 1
    /\ \A i \in 1 .. 1 : i = 1 /\ <<LlmDone>>[i].kind = "llm_done"
  <1>1. LlmDone \in Event
    BY ChatStreamAssumption DEF LlmDone, Event
  <1> QED
    BY <1>1 DEF LlmDone

\* Nothing pushed.
LEMMA NothingIs ==
    ASSUME NEW a \in Nat, NEW v \in Nat, NEW w \in Nat, v <= w, NEW A
    PROVE  /\ <<>> \in Seq(Event) /\ TextQueue(<<>>, a, a) /\ SpeechQueue(<<>>, v, w, A)
           /\ EndsLast(<<>>) /\ \A u : ~ Says(<<>>, u)
           /\ \A i \in 1 .. Len(<<>>) : FALSE
           /\ \A q \in Seq(Event) : q \o <<>> = q
  BY DEF TextQueue, SpeechQueue, EndsLast, Says

\* The sentences of ss follow one another after v and up to w, within the text
\* up to b, and those with something to say end at positions of A.
InRow(ss, v, w, b, A) ==
    /\ \A i \in 1 .. Len(ss) : /\ v < ss[i].upto /\ ss[i].upto <= w /\ ss[i].upto <= b
                               /\ ~ ss[i].mute => ss[i].upto \in A
    /\ \A i, j \in 1 .. Len(ss) : i < j => ss[i].upto < ss[j].upto

NoEnd(x) == \A i \in 1 .. Len(x) : x[i].kind # "llm_done"

SaysAll(x, ss) == \A u : (\E i \in 1 .. Len(ss) : ss[i].upto = u /\ ~ ss[i].mute) => Says(x, u)

\* The next text, if any, with the sentences cut from it.
Batch(a, b, ss) == (IF b > a THEN <<Token(b)>> ELSE <<>>) \o Events(ss)

\* It carries the text from a to b and says its sentences.
LEMMA BatchIs ==
    ASSUME NEW a \in 0 .. MaxText, NEW b \in 0 .. MaxText, a <= b,
           NEW v \in 0 .. MaxText, NEW w \in 0 .. MaxText, v <= w, NEW A,
           NEW ss \in Seq(Sentence),
           InRow(ss, v, w, b, A)
    PROVE  /\ Batch(a, b, ss) \in Seq(Event)
           /\ TextQueue(Batch(a, b, ss), a, b) /\ SpeechQueue(Batch(a, b, ss), v, w, A)
           /\ NoEnd(Batch(a, b, ss)) /\ SaysAll(Batch(a, b, ss), ss)
  <1> DEFINE e == Events(ss)
             k == IF b > a THEN <<Token(b)>> ELSE <<>>
             m == Len(ss)
  <1>0. a \in Nat /\ b \in Nat /\ v \in Nat /\ w \in Nat
    BY ChatStreamAssumption
  <1>e. /\ e \in Seq(Event) /\ Len(e) = m /\ m \in Nat
        /\ \A i \in 1 .. m : /\ e[i].kind = "sentence" /\ e[i].upto = ss[i].upto
                             /\ e[i].mute = ss[i].mute
    BY EventsIs
  <1>s. /\ \A i \in 1 .. m : /\ v < ss[i].upto /\ ss[i].upto <= w /\ ss[i].upto <= b
                             /\ ~ ss[i].mute => ss[i].upto \in A
        /\ \A i, j \in 1 .. m : i < j => ss[i].upto < ss[j].upto
    BY DEF InRow
  <1>b. Batch(a, b, ss) = k \o e
    BY DEF Batch
  <1> HIDE DEF e, m
  <1>1. k \in Seq(Event) /\ Len(k) \in Nat /\ \A i \in 1 .. Len(k) : k[i].kind = "token"
    BY TokenIs
  <1>2. TextQueue(k, a, b)
    <2>1. CASE b > a
      <3>1. /\ Len(k) = 1
            /\ \A i \in 1 .. 1 : i = 1 /\ k[i].kind = "token" /\ k[i].upto = b
        BY TokenIs, <2>1
      <3> HIDE DEF k
      <3> QED
        BY <1>0, <2>1, <3>1 DEF TextQueue
    <2>2. CASE ~ (b > a)
      BY <1>0, <2>2 DEF TextQueue
    <2> QED
      BY <2>1, <2>2
  <1> HIDE DEF k
  <1>3. SpeechQueue(k, v, v, A)
    BY <1>0, <1>1 DEF SpeechQueue
  <1>4. TextQueue(e, b, b)
    BY <1>0, <1>e, <1>s DEF TextQueue
  <1>5. SpeechQueue(e, v, w, A)
    BY <1>0, <1>e, <1>s DEF SpeechQueue
  <1>6. k \o e \in Seq(Event) /\ TextQueue(k \o e, a, b)
    BY <1>0, <1>1, <1>2, <1>4, <1>e, TextJoin
  <1>7. SpeechQueue(k \o e, v, w, A)
    BY <1>0, <1>1, <1>3, <1>5, <1>e, SpeechJoin
  <1>8. \A i \in 1 .. Len(k \o e) : (k \o e)[i].kind # "llm_done"
    <2> TAKE i \in 1 .. Len(k \o e)
    <2>1. \/ i \in 1 .. Len(k) /\ (k \o e)[i] = k[i]
          \/ i - Len(k) \in 1 .. Len(e) /\ (k \o e)[i] = e[i - Len(k)]
      BY <1>1, <1>e, ConcatIs
    <2> QED
      BY <1>1, <1>e, <2>1
  <1>9. ASSUME NEW u, NEW i \in 1 .. m, ss[i].upto = u, ~ ss[i].mute
        PROVE  Says(k \o e, u)
    <2>1. Says(e, u)
      BY <1>e, <1>9 DEF Says
    <2> QED
      BY <2>1, <1>1, <1>e, SaysJoin
  <1> QED
    BY <1>b, <1>6, <1>7, <1>8, <1>9 DEF m, NoEnd, SaysAll

\* The segmenter's rest and the end of the stream carry no text, and say the
\* rest.
LEMMA ClosingIs ==
    ASSUME NEW a \in 0 .. MaxText, NEW v \in 0 .. MaxText, NEW w \in 0 .. MaxText, v <= w,
           NEW A, NEW ss \in Seq(Sentence),
           InRow(ss, v, w, a, A)
    PROVE  /\ Closing(ss) \in Seq(Event)
           /\ TextQueue(Closing(ss), a, a) /\ SpeechQueue(Closing(ss), v, w, A)
           /\ EndsLast(Closing(ss)) /\ SaysAll(Closing(ss), ss)
  <1> DEFINE e == Events(ss)
             k == <<LlmDone>>
             m == Len(ss)
  <1>0. a \in Nat /\ v \in Nat /\ w \in Nat
    BY ChatStreamAssumption
  <1>e. /\ e \in Seq(Event) /\ Len(e) = m /\ m \in Nat
        /\ \A i \in 1 .. m : /\ e[i].kind = "sentence" /\ e[i].upto = ss[i].upto
                             /\ e[i].mute = ss[i].mute
    BY EventsIs
  <1>s. /\ \A i \in 1 .. m : /\ v < ss[i].upto /\ ss[i].upto <= w /\ ss[i].upto <= a
                             /\ ~ ss[i].mute => ss[i].upto \in A
        /\ \A i, j \in 1 .. m : i < j => ss[i].upto < ss[j].upto
    BY DEF InRow
  <1>k. /\ k \in Seq(Event) /\ Len(k) = 1
        /\ \A i \in 1 .. 1 : i = 1 /\ k[i].kind = "llm_done"
    BY EndIs
  <1>b. Closing(ss) = e \o k
    BY DEF Closing
  <1> HIDE DEF e, m, k
  <1>1. TextQueue(e, a, a)
    BY <1>0, <1>e, <1>s DEF TextQueue
  <1>2. SpeechQueue(e, v, w, A)
    BY <1>0, <1>e, <1>s DEF SpeechQueue
  <1>3. TextQueue(k, a, a)
    BY <1>0, <1>k DEF TextQueue
  <1>4. SpeechQueue(k, w, w, A)
    BY <1>0, <1>k DEF SpeechQueue
  <1>5. EndsLast(k)
    BY <1>k DEF EndsLast
  <1>6. e \o k \in Seq(Event) /\ TextQueue(e \o k, a, a)
    BY <1>0, <1>1, <1>3, <1>e, <1>k, TextJoin
  <1>7. SpeechQueue(e \o k, v, w, A)
    BY <1>0, <1>2, <1>4, <1>e, <1>k, SpeechJoin
  <1>8. EndsLast(e \o k)
    BY <1>5, <1>e, <1>k, EndsLastJoin
  <1>9. ASSUME NEW u, NEW i \in 1 .. m, ss[i].upto = u, ~ ss[i].mute
        PROVE  Says(e \o k, u)
    <2>1. Says(e, u)
      BY <1>e, <1>9 DEF Says
    <2> QED
      BY <2>1, <1>k, <1>e, SaysJoin
  <1> QED
    BY <1>b, <1>6, <1>7, <1>8, <1>9 DEF m, SaysAll

\* What a piece of text may complete.
LEMMA CutIs ==
    ASSUME NEW n \in 1 .. MaxText, NEW c \in Cuts(n)
    PROVE  /\ c \in Seq(Sentence) /\ c \in {<<>>} \cup {<<s>> : s \in Sentence}
           /\ Len(c) \in 0 .. 1 /\ (c = <<>> <=> Len(c) = 0)
           /\ \A i \in 1 .. Len(c) : i = 1 /\ c[i].upto = n /\ c[i].mute \in BOOLEAN
  <1>1. CASE c = <<>>
    BY <1>1
  <1>2. ASSUME NEW m \in BOOLEAN, c = <<[upto |-> n, mute |-> m]>>
        PROVE  /\ c \in Seq(Sentence) /\ c \in {<<>>} \cup {<<s>> : s \in Sentence}
               /\ Len(c) \in 0 .. 1 /\ (c = <<>> <=> Len(c) = 0)
               /\ \A i \in 1 .. Len(c) : i = 1 /\ c[i].upto = n /\ c[i].mute \in BOOLEAN
    <2> DEFINE s == [upto |-> n, mute |-> m]
    <2>1. s \in Sentence /\ s.upto = n /\ s.mute = m
      BY DEF Sentence
    <2> HIDE DEF s
    <2>2. c = <<s>>
      BY <1>2 DEF s
    <2>3. Len(c) = 1 /\ c[1] = s /\ c \in Seq(Sentence) /\ c # <<>>
      BY <2>1, <2>2
    <2> QED
      BY <2>1, <2>2, <2>3
  <1> QED
    BY <1>1, <1>2 DEF Cuts

\* drain_tokens() takes the tokens at the head of the queue and no more.
LEMMA DrainIs ==
    ASSUME queue \in Seq(Event), DrainTokens
    PROVE  \E n \in 0 .. Len(queue) :
              /\ \A i \in 1 .. n : queue[i].kind = "token"
              /\ queue' = Drop(queue, n)
              /\ reply_text' = IF n = 0 THEN reply_text ELSE queue[n].upto
  <1> DEFINE L == Len(queue)
             Leading(n) == \A i \in 1 .. n : queue[i].kind = "token"
             k == CHOOSE n \in 0 .. L : Leading(n) /\ (n < L => ~ Leading(n + 1))
             T == {m \in 1 .. L + 1 : m = L + 1 \/ queue[m].kind # "token"}
  <1>0. L \in Nat
    OBVIOUS
  <1>1. PICK m \in T : \A y \in T : m <= y
    <2>1. T \in SUBSET Nat /\ L + 1 \in T
      BY <1>0
    <2> HIDE DEF T
    <2> QED
      BY <2>1, LeastExists
  <1>2. m - 1 \in 0 .. L /\ Leading(m - 1) /\ (m - 1 < L => ~ Leading(m - 1 + 1))
    <2>1. m - 1 \in 0 .. L /\ m - 1 + 1 = m
      BY <1>0
    <2>2. ASSUME NEW i \in 1 .. m - 1 PROVE queue[i].kind = "token"
      BY <1>0, <1>1
    <2>3. m - 1 < L => m \in 1 .. m /\ queue[m].kind # "token"
      BY <1>0, <1>1
    <2> QED
      BY <2>1, <2>2, <2>3
  <1>3. k \in 0 .. L /\ Leading(k)
    <2> HIDE DEF Leading
    <2> QED
      BY <1>2
  <1>4. Undrained = Drop(queue, k)
    BY DEF Undrained, Drop
  <1> HIDE DEF k
  <1>5. Len(queue) - Len(Undrained) = k
    BY <1>3, <1>4, DropIs
  <1>6. queue' = Drop(queue, k) /\ reply_text' = IF k = 0 THEN reply_text ELSE queue[k].upto
    BY <1>4, <1>5 DEF DrainTokens
  <1> QED
    BY <1>3, <1>6

----------------------------------------------------------------------------
\* The fields of a sentence.
LEMMA SentenceIs ==
    ASSUME NEW ss \in Seq(Sentence), NEW i \in 1 .. Len(ss)
    PROVE  /\ ss[i] \in Sentence /\ ss[i].upto \in 1 .. MaxText /\ ss[i].upto \in Nat
           /\ ss[i].mute \in BOOLEAN
  <1>1. ss[i] \in Sentence
    OBVIOUS
  <1>2. ss[i].upto \in 1 .. MaxText
    BY <1>1 DEF Sentence
  <1>3. ss[i].upto \in Nat
    BY <1>2, ChatStreamAssumption
  <1> QED
    BY <1>1, <1>2, <1>3 DEF Sentence

\* emit() keeps the buffer well typed.
LEMMA EmitBuffers ==
    ASSUME BufferTypes, text < MaxText, NEW cut \in Cuts(text + 1), Emit(cut),
           UNCHANGED <<rest, taken>>
    PROVE  BufferTypes'
  <1>1. text + 1 \in 1 .. MaxText
    BY ChatStreamAssumption DEF BufferTypes
  <1>2. cut \in Seq(Sentence)
    BY <1>1, CutIs
  <1>3. text' = text + 1 /\ sentences' = sentences \o cut
    BY DEF Emit
  <1>4. text' \in 0 .. MaxText
    BY <1>1, <1>3
  <1>5. sentences' \in Seq(Sentence)
    BY <1>2, <1>3 DEF BufferTypes
  <1> QED
    BY <1>4, <1>5 DEF BufferTypes

\* A new sentence ends where the text now ends.
LEMMA EmitCuts ==
    ASSUME BufferTypes, CutsInOrder, text < MaxText, NEW cut \in Cuts(text + 1), Emit(cut),
           reader # "over", UNCHANGED <<rest, truncated>>
    PROVE  /\ CutsInOrder'
           /\ Len(sentences') = Len(sentences) + Len(cut)
           /\ \A i \in 1 .. Len(sentences) : sentences'[i] = sentences[i]
           /\ \A i \in 1 .. Len(cut) : sentences'[Len(sentences) + i] = cut[i]
  <1> DEFINE ss == sentences
             y == sentences'
             n == Len(ss)
             m == Len(cut)
             N == Len(y)
  <1>1. text + 1 \in 1 .. MaxText /\ text \in Nat
    BY ChatStreamAssumption DEF BufferTypes
  <1>2. /\ cut \in Seq(Sentence) /\ m \in 0 .. 1
        /\ \A i \in 1 .. m : i = 1 /\ cut[i].upto = text + 1
    BY <1>1, CutIs
  <1>3. text' = text + 1 /\ y = ss \o cut
    BY DEF Emit
  <1>4. ss \in Seq(Sentence)
    BY DEF BufferTypes
  <1>5. /\ N = n + m /\ n \in Nat /\ m \in Nat
        /\ \A i \in 1 .. n : y[i] = ss[i]
        /\ \A i \in 1 .. m : y[n + i] = cut[i]
        /\ \A i \in 1 .. N : \/ i \in 1 .. n /\ y[i] = ss[i]
                             \/ i - n \in 1 .. m /\ y[i] = cut[i - n]
    BY <1>2, <1>3, <1>4, ConcatIs
  <1>6. \A i \in 1 .. n : ss[i].upto \in Nat
    BY <1>4, SentenceIs
  <1>7. /\ n <= text
        /\ \A i \in 1 .. n : ss[i].upto <= text
        /\ \A i, j \in 1 .. n : i < j => ss[i].upto < ss[j].upto
        /\ rest = <<>> /\ ~ truncated
    BY DEF CutsInOrder
  <1> HIDE DEF ss, y, n, m, N
  <1>8. N <= text'
    BY <1>1, <1>2, <1>3, <1>5, <1>7
  <1>9. ASSUME NEW i \in 1 .. N PROVE y[i].upto <= text'
    <2>1. CASE i \in 1 .. n /\ y[i] = ss[i]
      BY <1>1, <1>3, <1>6, <1>7, <2>1
    <2>2. CASE i - n \in 1 .. m /\ y[i] = cut[i - n]
      BY <1>1, <1>2, <1>3, <2>2
    <2> QED
      BY <1>5, <2>1, <2>2
  <1>10. ASSUME NEW i \in 1 .. N, NEW j \in 1 .. N, i < j PROVE y[i].upto < y[j].upto
    <2>1. CASE j \in 1 .. n /\ y[j] = ss[j]
      <3>1. i \in 1 .. n /\ y[i] = ss[i]
        BY <1>5, <1>10, <2>1
      <3> QED
        BY <1>7, <1>10, <2>1, <3>1
    <2>2. CASE j - n \in 1 .. m /\ y[j] = cut[j - n]
      <3>1. y[j].upto = text + 1 /\ j = n + 1
        BY <1>2, <1>5, <2>2
      <3>2. i \in 1 .. n /\ y[i] = ss[i]
        BY <1>5, <1>10, <3>1
      <3> QED
        BY <1>1, <1>6, <1>7, <3>1, <3>2
    <2> QED
      BY <1>5, <2>1, <2>2
  <1>11. CutsInOrder'
    BY <1>7, <1>8, <1>9, <1>10 DEF CutsInOrder, y, N
  <1> QED
    BY <1>5, <1>11 DEF ss, y, n, m, N

\* emit() leaves the replay behind.
LEMMA EmitReplaying ==
    ASSUME BufferTypes, CutsInOrder, Replaying, text < MaxText, NEW cut \in Cuts(text + 1),
           Emit(cut), reader # "over", reader' # "over", UNCHANGED <<attached, rest,
                                 truncated>>,
           UNCHANGED <<llm, taken>>
    PROVE  Replaying'
  <1>1. /\ text \in Nat /\ Len(sentences) \in Nat /\ text' = text + 1
        /\ taken.text \in Nat /\ taken.sentences \in Nat
    BY ChatStreamAssumption DEF BufferTypes, Emit
  <1>2. /\ Len(sentences') = Len(sentences) + Len(cut) /\ Len(cut) \in 0 .. 1
        /\ \A i \in 1 .. Len(sentences) : sentences'[i] = sentences[i]
    <2>1. text + 1 \in 1 .. MaxText
      BY <1>1, ChatStreamAssumption
    <2> QED
      BY <2>1, EmitCuts, CutIs
  <1>3. taken.text <= text' /\ taken.sentences <= Len(sentences')
    BY <1>1, <1>2 DEF Replaying
  <1>4. taken.sentences > 0 => sentences'[taken.sentences] = sentences[taken.sentences]
    BY <1>1, <1>2 DEF Replaying
  <1> QED
    BY <1>1, <1>3, <1>4 DEF Replaying

----------------------------------------------------------------------------
\* Where the pushed sentences end.
LEMMA UptoIs ==
    ASSUME BufferTypes, CutsInOrder, NEW n \in 0 .. Len(sentences)
    PROVE  /\ Upto(n) \in 0 .. text /\ Upto(n) \in 0 .. MaxText /\ Upto(n) \in Nat
           /\ \A i \in 1 .. n : sentences[i].upto <= Upto(n)
           /\ \A i \in n + 1 .. Len(sentences) : Upto(n) < sentences[i].upto
  <1>1. /\ sentences \in Seq(Sentence) /\ Len(sentences) \in Nat
        /\ text \in 0 .. MaxText /\ text \in Nat
    BY ChatStreamAssumption DEF BufferTypes
  <1>2. \A i \in 1 .. Len(sentences) : /\ sentences[i].upto \in 1 .. MaxText
                                       /\ sentences[i].upto \in Nat
    BY <1>1, SentenceIs
  <1>3. /\ \A i \in 1 .. Len(sentences) : sentences[i].upto <= text
        /\ \A i, j \in 1 .. Len(sentences) : i < j => sentences[i].upto < sentences[j].upto
    BY DEF CutsInOrder
  <1>4. CASE n = 0
    BY <1>1, <1>2, <1>4, ChatStreamAssumption DEF Upto
  <1>5. CASE n # 0
    <2>1. n \in 1 .. Len(sentences) /\ Upto(n) = sentences[n].upto
      BY <1>1, <1>5 DEF Upto
    <2>2. Upto(n) \in 0 .. text /\ Upto(n) \in 0 .. MaxText /\ Upto(n) \in Nat
      BY <1>1, <1>2, <1>3, <2>1, ChatStreamAssumption
    <2>3. ASSUME NEW i \in 1 .. n PROVE sentences[i].upto <= Upto(n)
      <3>1. i \in 1 .. Len(sentences) /\ (i = n \/ i < n)
        BY <1>1
      <3> QED
        BY <1>2, <1>3, <2>1, <3>1
    <2>4. ASSUME NEW i \in n + 1 .. Len(sentences) PROVE Upto(n) < sentences[i].upto
      <3>1. i \in 1 .. Len(sentences) /\ n < i
        BY <1>1
      <3> QED
        BY <1>3, <2>1, <3>1
    <2> QED
      BY <2>2, <2>3, <2>4
  <1> QED
    BY <1>4, <1>5

\* How far things have been pushed lies within what was read.
LEMMA PushedIs ==
    ASSUME BufferTypes, CutsInOrder, Replaying
    PROVE  /\ PushedText \in 0 .. MaxText /\ PushedText \in Nat /\ PushedText <= text
           /\ PushedSentences \in 0 .. Len(sentences)
           /\ PushedSpeech \in 0 .. text /\ PushedSpeech \in 0 .. MaxText
           /\ PushedSpeech \in Nat /\ Upto(PushedSentences) <= PushedSpeech
           /\ Upto(PushedSentences) <= PushedText
  <1>1. /\ Len(sentences) \in Nat /\ text \in 0 .. MaxText /\ text \in Nat
        /\ taken.text \in 0 .. MaxText /\ taken.sentences \in 0 .. MaxText
        /\ taken.text <= text /\ taken.sentences <= Len(sentences)
    BY ChatStreamAssumption DEF BufferTypes, Replaying
  <1>2. PushedText \in 0 .. MaxText /\ PushedText \in Nat /\ PushedText <= text
    BY <1>1 DEF PushedText
  <1>3. PushedSentences \in 0 .. Len(sentences)
    BY <1>1 DEF PushedSentences
  <1>4. /\ Upto(PushedSentences) \in 0 .. text /\ Upto(PushedSentences) \in 0 .. MaxText
        /\ Upto(PushedSentences) \in Nat
    BY <1>3, UptoIs
  <1>5. /\ PushedSpeech \in 0 .. text /\ PushedSpeech \in 0 .. MaxText
        /\ PushedSpeech \in Nat /\ Upto(PushedSentences) <= PushedSpeech
    BY <1>1, <1>4 DEF PushedSpeech
  <1>6. Upto(PushedSentences) <= PushedText
    <2>1. CASE attached
      BY <1>1, <2>1 DEF PushedText, PushedSentences, Upto, Replaying
    <2>2. CASE ~ attached
      BY <1>1, <1>4, <2>2 DEF PushedText
    <2> QED
      BY <2>1, <2>2
  <1> QED
    BY <1>2, <1>3, <1>5, <1>6

\* Steps that leave the buffer and the replay alone leave what was pushed.
LEMMA SameBuffer ==
    ASSUME UNCHANGED <<attached, text, sentences, rest, truncated, llm, taken>>
    PROVE  /\ PushedText' = PushedText /\ PushedSentences' = PushedSentences
           /\ PushedSpeech' = PushedSpeech /\ ToSay' = ToSay
  BY DEF PushedText, PushedSentences, PushedSpeech, Upto, ToSay

\* A step that pushes x: what was pushed grows by what x carries.
PushesThat(x) ==
    /\ queue' = queue \o x
    /\ TextQueue(x, PushedText, PushedText')
    /\ SpeechQueue(x, PushedSpeech, PushedSpeech', ToSay')
    /\ ~ Gone \/ out # {} => \A u \in ToSay' : u \in ToSay \/ Says(x, u)
    /\ EndsLast(x)
    /\ (\E i \in 1 .. Len(x) : x[i].kind = "llm_done") => Complete'

Pushes ==
    /\ UNCHANGED <<abort, writer, speaking, first, chunk_pos, line, heard, voiced>>
    /\ UNCHANGED <<reply_text, llm_finished, reprimed, out>>
    /\ PushedText' \in Nat /\ PushedSpeech' \in Nat
    /\ ToSay \subseteq ToSay'
    /\ Complete => Complete' /\ queue' = queue
    /\ llm' = "over" /\ ~ Complete' => abort
    /\ \E x \in Seq(Event) : PushesThat(x)

\* emit() pushes the text and the sentence, or leaves them to the replay.
LEMMA EmitPushes ==
    ASSUME StreamInv, text < MaxText, NEW cut \in Cuts(text + 1), Emit(cut),
           reader # "over", reader' # "over",
           UNCHANGED <<attached, rest, truncated, llm, taken, abort, writerVars>>
    PROVE  Pushes
  <1>1. /\ BufferTypes /\ CutsInOrder /\ Replaying /\ EndInv
        /\ text + 1 \in 1 .. MaxText /\ text \in Nat
    BY ChatStreamAssumption DEF StreamInv, TypesOK, BufferTypes
  <1>2. /\ UNCHANGED <<abort, writer, speaking, first, chunk_pos, line, heard, voiced>>
        /\ UNCHANGED <<reply_text, llm_finished, reprimed, out>>
    BY DEF writerVars, lineVars
  <1>3. ~ Complete /\ ~ Complete'
    BY DEF Complete
  <1>4. llm' = "over" => abort
    BY <1>1, <1>3 DEF EndInv
  <1>5. /\ CutsInOrder' /\ BufferTypes' /\ text' = text + 1
        /\ Len(sentences') = Len(sentences) + Len(cut)
        /\ \A i \in 1 .. Len(sentences) : sentences'[i] = sentences[i]
        /\ \A i \in 1 .. Len(cut) : sentences'[Len(sentences) + i] = cut[i]
    BY <1>1, EmitCuts, EmitBuffers DEF Emit
  <1>6. /\ cut \in Seq(Sentence) /\ Len(cut) \in 0 .. 1 /\ (cut = <<>> <=> Len(cut) = 0)
        /\ \A i \in 1 .. Len(cut) : i = 1 /\ cut[i].upto = text + 1 /\ cut[i].mute \in BOOLEAN
    BY <1>1, CutIs
  <1>7. Len(sentences) \in Nat
    BY <1>1 DEF BufferTypes
  <1>8. /\ PushedText \in Nat /\ PushedSpeech \in Nat /\ PushedSentences \in 0 .. Len(sentences)
        /\ PushedText \in 0 .. MaxText /\ PushedSpeech \in 0 .. MaxText /\ PushedSpeech <= text
    BY <1>1, PushedIs
  <1>9. CASE attached
    <2>1. PushedText' = PushedText /\ PushedSentences' = PushedSentences
      BY <1>9 DEF PushedText, PushedSentences
    <2>2. PushedSpeech <= PushedSpeech' /\ PushedSpeech' \in Nat
      <3>1. CASE llm = "over"
        BY <1>1, <1>5, <3>1 DEF PushedSpeech
      <3>2. CASE llm # "over"
        BY <1>5, <1>8, <2>1, <3>2 DEF PushedSpeech, Upto
      <3> QED
        BY <3>1, <3>2
    <2>3. \A i \in 1 .. PushedSentences : sentences'[i] = sentences[i]
      BY <1>5, <1>7, <1>8
    <2>4. ToSay' = ToSay
      BY <2>1, <2>3 DEF ToSay
    <2>5. queue' = queue /\ queue \in Seq(Event)
      BY <1>9 DEF Emit, StreamInv, TypesOK, QueueTypes
    <2>6. PushesThat(<<>>)
      BY <1>8, <2>1, <2>2, <2>4, <2>5, NothingIs DEF PushesThat
    <2>7. <<>> \in Seq(Event)
      OBVIOUS
    <2> QED
      BY <1>2, <1>3, <1>4, <1>8, <2>1, <2>2, <2>4, <2>6, <2>7 DEF Pushes
  <1>10. CASE ~ attached
    <2>1. llm = "read" /\ llm' = "read"
      BY <1>1, <1>10 DEF Replaying
    <2>2. /\ PushedText = text /\ PushedText' = text + 1
          /\ PushedSentences = Len(sentences) /\ PushedSentences' = Len(sentences')
      BY <1>5, <1>10 DEF PushedText, PushedSentences
    <2>3. PushedSpeech = Upto(Len(sentences)) /\ PushedSpeech' = Upto(Len(sentences))'
      BY <2>1, <2>2 DEF PushedSpeech
    <2>4. PushedSpeech' = IF cut = <<>> THEN PushedSpeech ELSE text + 1
      <3>1. CASE cut = <<>>
        BY <1>5, <1>6, <1>7, <2>3, <3>1 DEF Upto
      <3>2. CASE cut # <<>>
        <4>1. Len(cut) = 1 /\ Len(sentences') = Len(sentences) + 1
          BY <1>5, <1>6, <3>2
        <4>2. sentences'[Len(sentences) + 1] = cut[1] /\ cut[1].upto = text + 1
          BY <1>5, <1>6, <4>1
        <4> QED
          BY <1>7, <2>3, <3>2, <4>1, <4>2 DEF Upto
      <3> QED
        BY <3>1, <3>2
    <2>5. /\ PushedSpeech' \in 0 .. MaxText /\ PushedSpeech <= PushedSpeech'
          /\ PushedSpeech' \in Nat /\ text + 1 \in Nat
      BY <1>1, <1>8, <2>4
    <2>6. ASSUME NEW u \in ToSay PROVE u \in ToSay'
      <3>1. u \in 1 .. MaxText
        BY DEF ToSay
      <3>2. PICK i \in 1 .. Len(sentences) : sentences[i].upto = u /\ ~ sentences[i].mute
        BY <2>1, <2>2 DEF ToSay
      <3>3. i \in 1 .. Len(sentences') /\ sentences'[i] = sentences[i]
        BY <1>5, <1>6, <1>7
      <3> QED
        BY <2>2, <3>1, <3>2, <3>3 DEF ToSay
    <2>7. ASSUME NEW i \in 1 .. Len(cut)
          PROVE  /\ PushedSpeech < cut[i].upto /\ cut[i].upto <= PushedSpeech'
                 /\ cut[i].upto <= text + 1
                 /\ ~ cut[i].mute => cut[i].upto \in ToSay'
      <3>1. i = 1 /\ cut[i].upto = text + 1 /\ cut # <<>>
        BY <1>6
      <3>2. PushedSpeech < cut[i].upto /\ cut[i].upto <= PushedSpeech'
        BY <1>1, <1>8, <2>4, <3>1
      <3>3. ASSUME ~ cut[i].mute PROVE text + 1 \in ToSay'
        <4>1. /\ Len(sentences) + i \in 1 .. Len(sentences')
              /\ sentences'[Len(sentences) + i] = cut[i]
          BY <1>5, <1>6, <1>7
        <4> QED
          BY <1>1, <2>2, <3>1, <3>3, <4>1 DEF ToSay
      <3> QED
        BY <1>1, <3>1, <3>2, <3>3
    <2> DEFINE x == Batch(text, text + 1, cut)
    <2>8. Emitted(cut) = x
      BY <1>1 DEF Emitted, Batch
    <2>9. /\ x \in Seq(Event)
          /\ TextQueue(x, text, text + 1)
          /\ SpeechQueue(x, PushedSpeech, PushedSpeech', ToSay')
          /\ NoEnd(x) /\ SaysAll(x, cut)
      <3>1. text \in 0 .. MaxText /\ text + 1 \in 0 .. MaxText /\ text <= text + 1
        BY <1>1, ChatStreamAssumption
      <3>2. InRow(cut, PushedSpeech, PushedSpeech', text + 1, ToSay')
        BY <1>6, <2>7 DEF InRow
      <3> QED
        BY <1>6, <1>8, <2>5, <3>1, <3>2, BatchIs
    <2> HIDE DEF x
    <2>10. ASSUME NEW u \in ToSay' PROVE u \in ToSay \/ Says(x, u)
      <3>1. u \in 1 .. MaxText
        BY DEF ToSay
      <3>2. PICK i \in 1 .. Len(sentences') : sentences'[i].upto = u /\ ~ sentences'[i].mute
        BY <2>1, <2>2 DEF ToSay
      <3>3. CASE i \in 1 .. Len(sentences)
        BY <1>5, <2>2, <3>1, <3>2, <3>3 DEF ToSay
      <3>4. CASE i \notin 1 .. Len(sentences)
        <4>1. i - Len(sentences) \in 1 .. Len(cut) /\ Len(sentences) + (i - Len(sentences)) = i
          BY <1>5, <1>6, <1>7, <3>4
        <4>2. sentences'[i] = cut[i - Len(sentences)]
          BY <1>5, <4>1
        <4> QED
          BY <2>9, <3>2, <4>1, <4>2 DEF SaysAll
      <3> QED
        BY <3>3, <3>4
    <2>11. queue' = queue \o x
      BY <1>10, <2>8 DEF Emit
    <2>12. EndsLast(x)
      BY <2>9 DEF EndsLast, NoEnd
    <2>13. PushesThat(x)
      BY <2>2, <2>9, <2>10, <2>11, <2>12 DEF PushesThat, NoEnd
    <2> QED
      BY <1>2, <1>3, <1>4, <2>2, <2>5, <2>6, <2>9, <2>13 DEF Pushes
  <1> QED
    BY <1>9, <1>10

\* A rest the segmenter may hold is a sentence that ends with the text.
LEMMA TailCut ==
    ASSUME BufferTypes, NEW c \in {d \in Cuts(text) : text > 0 \/ d = <<>>}
    PROVE  /\ c \in Seq(Sentence) /\ c \in {<<>>} \cup {<<s>> : s \in Sentence}
           /\ Len(c) \in 0 .. 1 /\ (c = <<>> <=> Len(c) = 0)
           /\ \A i \in 1 .. Len(c) : i = 1 /\ c[i].upto = text /\ c[i].mute \in BOOLEAN
  <1>1. CASE c = <<>>
    BY <1>1
  <1>2. CASE c # <<>>
    <2>1. text \in 1 .. MaxText
      BY <1>2 DEF BufferTypes
    <2> QED
      BY <2>1, CutIs
  <1> QED
    BY <1>1, <1>2

\* Published, the rest is pushed with the end of the stream, or left to the
\* replay.
LEMMA PublishPushes ==
    ASSUME StreamInv, NEW tail \in {c \in Cuts(text) : text > 0 \/ c = <<>>},
           NEW cutOff \in BOOLEAN, Publish(tail, cutOff)
    PROVE  Pushes
  <1>1. BufferTypes /\ CutsInOrder /\ Replaying /\ EndInv /\ queue \in Seq(Event)
    BY DEF StreamInv, TypesOK, QueueTypes
  <1>2. /\ UNCHANGED <<abort, writer, speaking, first, chunk_pos, line, heard, voiced>>
        /\ UNCHANGED <<reply_text, llm_finished, reprimed, out>>
        /\ UNCHANGED <<attached, text, sentences, taken>>
        /\ reader = "publish" /\ reader' = "over" /\ rest' = tail /\ truncated' = cutOff
        /\ tail # <<>> => LastCut < text
        /\ cutOff => tail # <<>>
    BY DEF Publish, writerVars, lineVars
  <1>3. /\ tail \in Seq(Sentence) /\ Len(tail) \in 0 .. 1 /\ (tail = <<>> <=> Len(tail) = 0)
        /\ \A i \in 1 .. Len(tail) : i = 1 /\ tail[i].upto = text /\ tail[i].mute \in BOOLEAN
    BY <1>1, TailCut
  <1>4. rest = <<>> /\ ~ truncated /\ ~ Complete
    BY <1>1, <1>2 DEF CutsInOrder, Complete
  <1>5. /\ PushedText \in Nat /\ PushedSpeech \in Nat /\ PushedSentences \in 0 .. Len(sentences)
        /\ PushedText \in 0 .. MaxText /\ PushedSpeech \in 0 .. MaxText
        /\ PushedSpeech \in 0 .. text /\ text \in 0 .. MaxText /\ text \in Nat
    BY <1>1, PushedIs, ChatStreamAssumption DEF BufferTypes
  <1>6. PushedText' = PushedText /\ PushedSentences' = PushedSentences
    BY <1>2 DEF PushedText, PushedSentences
  <1>7. ASSUME NEW u \in ToSay PROVE u \in ToSay'
    BY <1>2, <1>4, <1>6 DEF ToSay
  <1>8. CASE attached
    <2>1. UNCHANGED <<queue, llm>>
      BY <1>8 DEF Publish
    <2>2. PushedSpeech' = PushedSpeech
      BY <1>2, <1>6, <2>1 DEF PushedSpeech, Upto
    <2>3. llm = "over" => abort /\ Gone /\ out = {}
      BY <1>1, <1>4 DEF EndInv
    <2>4. llm # "over" => ToSay' = ToSay
      BY <1>2, <1>6, <2>1 DEF ToSay
    <2>5. PushesThat(<<>>)
      BY <1>1, <1>5, <1>6, <2>1, <2>2, <2>3, <2>4, NothingIs DEF PushesThat
    <2>6. <<>> \in Seq(Event)
      OBVIOUS
    <2> QED
      BY <1>2, <1>4, <1>5, <1>6, <1>7, <2>1, <2>2, <2>3, <2>5, <2>6 DEF Pushes
  <1>9. CASE ~ attached
    <2> DEFINE t == IF cutOff THEN <<>> ELSE tail
               x == Closing(t)
    <2>1. llm # "over" /\ llm' = "over" /\ queue' = queue \o x
      BY <1>1, <1>2, <1>9 DEF Publish, Replaying
    <2>2. PushedText = text /\ PushedSentences = Len(sentences) /\ PushedSpeech' = text
      BY <1>2, <1>9, <2>1 DEF PushedText, PushedSentences, PushedSpeech
    <2>3. Complete'
      BY <1>2, <1>9, <2>1 DEF Complete
    <2>4. tail # <<>> => PushedSpeech < text
      <3>1. PushedSpeech = Upto(Len(sentences))
        BY <2>1, <2>2 DEF PushedSpeech
      <3>2. Upto(Len(sentences)) = LastCut
        BY <1>1 DEF Upto, LastCut, Last, BufferTypes
      <3> QED
        BY <1>2, <3>1, <3>2
    <2>5. t \in Seq(Sentence)
      BY <1>3
    <2>6. InRow(t, PushedSpeech, text, text, ToSay')
      <3>1. \A i \in 1 .. Len(t) : i = 1 /\ ~ cutOff /\ t = tail /\ tail # <<>> /\ t[i].upto = text
        BY <1>3
      <3>2. ASSUME NEW i \in 1 .. Len(t), ~ t[i].mute PROVE text \in ToSay'
        <4>1. /\ ~ truncated' /\ rest' # <<>> /\ rest'[1].upto = text /\ ~ rest'[1].mute
              /\ text \in 1 .. MaxText
          BY <1>2, <1>3, <1>5, <2>4, <3>1, <3>2
        <4> QED
          BY <2>1, <4>1 DEF ToSay
      <3> HIDE DEF t
      <3> QED
        BY <1>5, <2>4, <3>1, <3>2 DEF InRow
    <2> HIDE DEF t
    <2>7. /\ x \in Seq(Event) /\ TextQueue(x, text, text)
          /\ SpeechQueue(x, PushedSpeech, text, ToSay') /\ EndsLast(x) /\ SaysAll(x, t)
      BY <1>5, <2>5, <2>6, ClosingIs
    <2> HIDE DEF x
    <2>8. ASSUME NEW u \in ToSay' PROVE u \in ToSay \/ Says(x, u)
      <3>1. u \in 1 .. MaxText
        BY DEF ToSay
      <3>2. CASE \E i \in 1 .. PushedSentences : sentences[i].upto = u /\ ~ sentences[i].mute
        BY <3>1, <3>2 DEF ToSay
      <3>3. CASE ~ cutOff /\ tail # <<>> /\ tail[1].upto = u /\ ~ tail[1].mute
        <4>1. t = tail /\ 1 \in 1 .. Len(t)
          BY <1>3, <3>3 DEF t
        <4> QED
          BY <2>7, <3>3, <4>1 DEF SaysAll
      <3> QED
        BY <1>2, <1>6, <3>2, <3>3 DEF ToSay
    <2>9. PushesThat(x)
      BY <1>6, <2>1, <2>2, <2>3, <2>7, <2>8 DEF PushesThat
    <2> QED
      BY <1>2, <1>4, <1>5, <1>6, <1>7, <2>2, <2>3, <2>7, <2>9 DEF Pushes
  <1> QED
    BY <1>8, <1>9

\* A sequence of at most one element.
LEMMA AtMostOne ==
    ASSUME NEW S, NEW c \in Seq(S), Len(c) \in 0 .. 1, NEW i \in 1 .. Len(c)
    PROVE  i = 1 /\ c # <<>>
  <1>1. \A m \in 0 .. 1 : \A j \in 1 .. m : j = 1 /\ m = 1
    OBVIOUS
  <1>2. i = 1 /\ Len(c) = 1
    BY <1>1
  <1>3. c # <<>>
    BY <1>2
  <1> QED
    BY <1>2, <1>3

\* The replay pushes what is new, and the rest once the stream has ended.
LEMMA CopyPushes ==
    ASSUME StreamInv, ReplayCopy
    PROVE  Pushes
  <1>1. BufferTypes /\ CutsInOrder /\ Replaying /\ EndInv /\ queue \in Seq(Event)
    BY DEF StreamInv, TypesOK, QueueTypes
  <1>2. /\ UNCHANGED <<abort, writer, speaking, first, chunk_pos, line, heard, voiced>>
        /\ UNCHANGED <<reply_text, llm_finished, reprimed, out>>
        /\ UNCHANGED <<attached, reader, text, sentences, rest, truncated>>
        /\ llm = "copy" /\ taken' = [text |-> text, sentences |-> Len(sentences)]
        /\ llm' = IF reader = "over" THEN "over" ELSE "loop"
    BY DEF ReplayCopy, writerVars, lineVars, bufferVars, llm_done
  <1>3. attached /\ ~ Complete
    BY <1>1, <1>2 DEF Replaying, Complete
  <1> DEFINE S == Drop(sentences, taken.sentences)
             a == taken.text
             v == Upto(taken.sentences)
             w == Upto(Len(sentences))
             t == IF truncated THEN <<>> ELSE rest
             x == Batch(a, text, S)
             C == IF reader = "over" THEN Closing(t) ELSE <<>>
  <1>4. /\ PushedText = a /\ PushedText' = text /\ PushedSentences = taken.sentences
        /\ PushedSentences' = Len(sentences)
        /\ PushedSpeech = v /\ PushedSpeech' = IF reader = "over" THEN text ELSE w
    <2>1. taken'.text = text /\ taken'.sentences = Len(sentences)
      BY <1>2
    <2>2. /\ PushedText = a /\ PushedText' = text /\ PushedSentences = taken.sentences
          /\ PushedSentences' = Len(sentences)
      BY <1>2, <1>3, <2>1 DEF PushedText, PushedSentences
    <2> QED
      BY <1>2, <2>2 DEF PushedSpeech, Upto
  <1>5. /\ a \in 0 .. MaxText /\ a <= text /\ text \in 0 .. MaxText /\ text \in Nat /\ a \in Nat
        /\ taken.sentences \in 0 .. Len(sentences) /\ Len(sentences) \in Nat
        /\ sentences \in Seq(Sentence)
    BY <1>1, ChatStreamAssumption DEF BufferTypes, Replaying
  <1>6. /\ v \in 0 .. MaxText /\ w \in 0 .. MaxText /\ w \in 0 .. text /\ v \in Nat /\ w \in Nat
        /\ v <= w /\ Len(sentences) \in 0 .. Len(sentences)
    <2>1. Len(sentences) \in 0 .. Len(sentences)
      BY <1>5
    <2>2. /\ v \in 0 .. MaxText /\ v \in Nat /\ w \in 0 .. MaxText /\ w \in 0 .. text /\ w \in Nat
      BY <1>1, <1>5, <2>1, UptoIs
    <2>3. CASE taken.sentences = 0
      BY <2>1, <2>2, <2>3 DEF Upto
    <2>4. CASE taken.sentences # 0
      <3>1. taken.sentences \in 1 .. Len(sentences) /\ v = sentences[taken.sentences].upto
        BY <1>5, <2>4 DEF Upto
      <3> QED
        BY <1>1, <2>1, <2>2, <3>1, UptoIs
    <2> QED
      BY <2>1, <2>2, <2>3, <2>4
  <1>7. /\ S \in Seq(Sentence) /\ Len(S) = Len(sentences) - taken.sentences
        /\ \A i \in 1 .. Len(S) : /\ taken.sentences + i \in 1 .. Len(sentences)
                                  /\ S[i] = sentences[taken.sentences + i]
        /\ \A i \in taken.sentences + 1 .. Len(sentences) :
              i - taken.sentences \in 1 .. Len(S) /\ S[i - taken.sentences] = sentences[i]
    <2> DEFINE n == taken.sentences
    <2>1. n \in 0 .. Len(sentences)
      BY <1>5
    <2> HIDE DEF n
    <2>2. /\ Drop(sentences, n) \in Seq(Sentence)
          /\ Len(Drop(sentences, n)) = Len(sentences) - n
          /\ \A i \in 1 .. Len(sentences) - n : /\ n + i \in 1 .. Len(sentences)
                                                /\ Drop(sentences, n)[i] = sentences[n + i]
          /\ \A i \in n + 1 .. Len(sentences) :
                /\ i - n \in 1 .. Len(sentences) - n
                /\ Drop(sentences, n)[i - n] = sentences[i]
      BY <1>5, <2>1, DropIs
    <2> QED
      BY <2>2 DEF n
  <1>8. ASSUME NEW u \in ToSay PROVE u \in ToSay'
    <2>1. u \in 1 .. MaxText
      BY DEF ToSay
    <2>2. PICK i \in 1 .. taken.sentences : sentences[i].upto = u /\ ~ sentences[i].mute
      BY <1>2, <1>4 DEF ToSay
    <2>3. i \in 1 .. Len(sentences)
      BY <1>5
    <2> QED
      BY <1>2, <1>4, <2>1, <2>2, <2>3 DEF ToSay
  <1>9. InRow(S, v, w, text, ToSay')
    <2>1. ASSUME NEW i \in 1 .. Len(S)
          PROVE  /\ v < S[i].upto /\ S[i].upto <= w /\ S[i].upto <= text
                 /\ ~ S[i].mute => S[i].upto \in ToSay'
      <3> DEFINE k == taken.sentences + i
      <3>1. k \in 1 .. Len(sentences) /\ k \in taken.sentences + 1 .. Len(sentences)
            /\ S[i] = sentences[k]
        BY <1>5, <1>7
      <3> HIDE DEF k, S, v, w
      <3>2. v < sentences[k].upto
        BY <1>1, <1>5, <3>1, UptoIs DEF v
      <3>3. sentences[k].upto <= w
        BY <1>1, <1>6, <3>1, UptoIs DEF w
      <3>4. sentences[k].upto <= text /\ sentences[k].upto \in 1 .. MaxText
        BY <1>1, <1>5, <3>1, SentenceIs DEF CutsInOrder
      <3>5. ~ sentences[k].mute => sentences[k].upto \in ToSay'
        BY <1>2, <1>4, <3>1, <3>4 DEF ToSay
      <3> QED
        BY <3>1, <3>2, <3>3, <3>4, <3>5
    <2>2. ASSUME NEW i \in 1 .. Len(S), NEW j \in 1 .. Len(S), i < j
          PROVE  S[i].upto < S[j].upto
      <3> HIDE DEF S
      <3>1. /\ taken.sentences + i \in 1 .. Len(sentences)
            /\ taken.sentences + j \in 1 .. Len(sentences)
            /\ taken.sentences + i < taken.sentences + j
            /\ S[i] = sentences[taken.sentences + i] /\ S[j] = sentences[taken.sentences + j]
        BY <1>5, <1>7, <2>2
      <3> QED
        BY <1>1, <3>1 DEF CutsInOrder
    <2> HIDE DEF S, v, w
    <2> QED
      BY <2>1, <2>2 DEF InRow
  <1>10. t \in Seq(Sentence) /\ Len(t) \in 0 .. 1 /\ (t # <<>> => ~ truncated /\ t = rest)
    <2>1. CASE truncated \/ rest = <<>>
      <3>1. t = <<>>
        BY <2>1
      <3> HIDE DEF t
      <3> QED
        BY <3>1
    <2>2. ASSUME NEW s \in Sentence, rest = <<s>>, ~ truncated
          PROVE  t \in Seq(Sentence) /\ Len(t) \in 0 .. 1 /\ (t # <<>> => ~ truncated /\ t = rest)
      BY <2>2
    <2> QED
      BY <1>1, <2>1, <2>2 DEF BufferTypes
  <1>11. reader = "over" => InRow(t, w, text, text, ToSay')
    <2> SUFFICES ASSUME reader = "over" PROVE InRow(t, w, text, text, ToSay')
      OBVIOUS
    <2>1. ASSUME NEW i \in 1 .. Len(t)
          PROVE  /\ i = 1 /\ w < t[i].upto /\ t[i].upto = text
                 /\ ~ t[i].mute => t[i].upto \in ToSay'
      <3> HIDE DEF t
      <3>1. i = 1 /\ t # <<>> /\ t = rest /\ ~ truncated /\ rest # <<>>
        <4>1. i = 1 /\ t # <<>>
          BY <1>10, AtMostOne
        <4> QED
          BY <1>10, <4>1
      <3>2. rest[1].upto = text /\ \A j \in 1 .. Len(sentences) : sentences[j].upto < text
        BY <1>1, <3>1 DEF CutsInOrder
      <3>3. t \in Seq(Sentence) /\ t[i].upto \in 1 .. MaxText
        BY <1>10, SentenceIs
      <3>4. text \in 1 .. MaxText
        BY <3>1, <3>2, <3>3
      <3>5. w < text
        BY <1>5, <3>2, <3>4 DEF Upto
      <3>6. ~ rest[1].mute => text \in ToSay'
        BY <1>2, <3>1, <3>2, <3>4 DEF ToSay
      <3> QED
        BY <3>1, <3>2, <3>5, <3>6
    <2> HIDE DEF t, w
    <2> QED
      BY <1>5, <2>1 DEF InRow
  <1>12. /\ x \in Seq(Event) /\ TextQueue(x, a, text) /\ SpeechQueue(x, v, w, ToSay')
         /\ NoEnd(x) /\ SaysAll(x, S)
    <2> HIDE DEF a, v, w, S
    <2> QED
      BY <1>5, <1>6, <1>7, <1>9, BatchIs
  <1>13. /\ C \in Seq(Event) /\ TextQueue(C, text, text)
         /\ SpeechQueue(C, w, PushedSpeech', ToSay') /\ EndsLast(C)
         /\ reader = "over" => SaysAll(C, t)
    <2>1. CASE reader = "over"
      <3> HIDE DEF t, w
      <3>1. w <= text
        BY <1>5, <1>6
      <3>2. /\ Closing(t) \in Seq(Event) /\ TextQueue(Closing(t), text, text)
            /\ SpeechQueue(Closing(t), w, text, ToSay') /\ EndsLast(Closing(t))
            /\ SaysAll(Closing(t), t)
        BY <1>5, <1>6, <1>10, <1>11, <2>1, <3>1, ClosingIs
      <3> QED
        BY <1>4, <2>1, <3>2
    <2>2. CASE reader # "over"
      <3> HIDE DEF w
      <3>1. w <= w
        BY <1>6
      <3> QED
        BY <1>4, <1>5, <1>6, <2>2, <3>1, NothingIs
    <2> QED
      BY <2>1, <2>2
  <1>14. queue' = queue \o (x \o C)
    <2> DEFINE k == IF text > a THEN <<Token(text)>> ELSE <<>>
    <2>1. queue' = ((queue \o k) \o Events(S)) \o C
      BY DEF ReplayCopy, Drop, llm_done
    <2>2. k \in Seq(Event)
      BY <1>5, TokenIs
    <2>3. Events(S) \in Seq(Event) /\ x = k \o Events(S)
      BY <1>7, EventsIs DEF Batch
    <2> HIDE DEF k, S, C, x
    <2>4. (queue \o k) \o Events(S) = queue \o x
      BY <1>1, <2>2, <2>3, ConcatAssociative
    <2>5. (queue \o x) \o C = queue \o (x \o C)
      BY <1>1, <1>12, <1>13, ConcatAssociative
    <2> QED
      BY <2>1, <2>4, <2>5
  <1>15. PushedSpeech' \in Nat
    BY <1>4, <1>5, <1>6
  <1>16. reader = "over" => Complete'
    BY <1>2 DEF Complete
  <1> HIDE DEF S, a, v, w, t, x, C
  <1>17. /\ x \o C \in Seq(Event) /\ TextQueue(x \o C, a, text)
         /\ SpeechQueue(x \o C, v, PushedSpeech', ToSay')
    <2>1. x \o C \in Seq(Event) /\ TextQueue(x \o C, a, text)
      BY <1>5, <1>12, <1>13, TextJoin
    <2>2. SpeechQueue(x \o C, v, PushedSpeech', ToSay')
      BY <1>6, <1>12, <1>13, <1>15, SpeechJoin
    <2> QED
      BY <2>1, <2>2
  <1>18. ASSUME NEW u \in ToSay' PROVE u \in ToSay \/ Says(x \o C, u)
    <2>1. u \in 1 .. MaxText
      BY DEF ToSay
    <2>2. CASE \E i \in 1 .. Len(sentences) : sentences[i].upto = u /\ ~ sentences[i].mute
      <3>1. PICK i \in 1 .. Len(sentences) : sentences[i].upto = u /\ ~ sentences[i].mute
        BY <2>2
      <3>2. CASE i \in 1 .. taken.sentences
        BY <1>4, <2>1, <3>1, <3>2 DEF ToSay
      <3>3. CASE i \in taken.sentences + 1 .. Len(sentences)
        <4>1. Says(x, u)
          BY <1>7, <1>12, <3>1, <3>3 DEF SaysAll
        <4> QED
          BY <1>12, <1>13, <4>1, SaysJoin
      <3> QED
        BY <1>5, <3>2, <3>3
    <2>3. CASE /\ reader = "over" /\ ~ truncated /\ rest # <<>>
               /\ rest[1].upto = u /\ ~ rest[1].mute
      <3>1. t = rest /\ Len(t) = 1
        BY <1>10, <2>3 DEF t
      <3>2. Says(C, u)
        BY <1>13, <2>3, <3>1 DEF SaysAll
      <3> QED
        BY <1>12, <1>13, <3>2, SaysJoin
    <2> QED
      BY <1>2, <1>4, <2>2, <2>3 DEF ToSay
  <1>19. /\ EndsLast(x \o C)
         /\ (\E i \in 1 .. Len(x \o C) : (x \o C)[i].kind = "llm_done") => reader = "over"
    <2>1. /\ EndsLast(x \o C)
          /\ (\E i \in 1 .. Len(x \o C) : (x \o C)[i].kind = "llm_done") =>
                \E i \in 1 .. Len(C) : C[i].kind = "llm_done"
      BY <1>12, <1>13, EndsLastJoin DEF NoEnd
    <2>2. reader # "over" => Len(C) = 0
      BY DEF C
    <2> QED
      BY <2>1, <2>2
  <1>20. PushesThat(x \o C)
    BY <1>4, <1>14, <1>16, <1>17, <1>18, <1>19 DEF PushesThat
  <1> QED
    BY <1>2, <1>3, <1>4, <1>5, <1>8, <1>15, <1>16, <1>17, <1>20 DEF Pushes

\* An abandoned replay pushes nothing more, and owes nothing.
LEMMA LoopPushes ==
    ASSUME StreamInv, ReplayLoop
    PROVE  Pushes
  <1>1. BufferTypes /\ CutsInOrder /\ Replaying /\ EndInv /\ queue \in Seq(Event)
    BY DEF StreamInv, TypesOK, QueueTypes
  <1>2. /\ UNCHANGED <<abort, writer, speaking, first, chunk_pos, line, heard, voiced>>
        /\ UNCHANGED <<reply_text, llm_finished, reprimed, out>>
        /\ UNCHANGED <<attached, reader, text, sentences, rest, truncated, taken, queue>>
        /\ llm = "loop" /\ llm' = IF abort THEN "over" ELSE "copy"
    BY DEF ReplayLoop, writerVars, lineVars, bufferVars
  <1>3. ~ Complete /\ out = {} /\ (abort => Gone)
    BY <1>1, <1>2 DEF Complete, EndInv
  <1>4. PushedText' = PushedText /\ PushedSentences' = PushedSentences
    BY <1>2 DEF PushedText, PushedSentences
  <1>5. /\ PushedText \in Nat /\ PushedSpeech \in Nat
        /\ PushedSpeech \in 0 .. text /\ text \in Nat
    BY <1>1, PushedIs, ChatStreamAssumption DEF BufferTypes
  <1>6. PushedSpeech' = IF abort THEN text ELSE PushedSpeech
    BY <1>2, <1>4 DEF PushedSpeech, Upto
  <1>7. PushedSpeech' \in Nat /\ PushedSpeech <= PushedSpeech'
    BY <1>5, <1>6
  <1>8. ToSay \subseteq ToSay' /\ (~ abort => ToSay' = ToSay)
    BY <1>2, <1>4 DEF ToSay
  <1>9. PushesThat(<<>>)
    BY <1>1, <1>2, <1>3, <1>4, <1>5, <1>7, <1>8, NothingIs DEF PushesThat
  <1>10. <<>> \in Seq(Event) /\ (llm' = "over" => abort)
    BY <1>2
  <1> QED
    BY <1>2, <1>3, <1>4, <1>5, <1>7, <1>8, <1>9, <1>10 DEF Pushes

----------------------------------------------------------------------------
\* Pushing keeps what the queue has to satisfy.
LEMMA PushKeeps ==
    ASSUME StreamInv, Pushes
    PROVE  /\ QueueTypes' /\ TextInv' /\ SpeechInv' /\ OwedInv' /\ VoicedInv' /\ EndInv'
           /\ UNCHANGED <<speaking, reply_text, voiced, reprimed>>
  <1>1. PICK x \in Seq(Event) : PushesThat(x)
    BY DEF Pushes
  <1>2. /\ queue \in Seq(Event) /\ queue' = queue \o x
        /\ speaking \in Nat /\ reply_text \in Nat
    BY <1>1, ChatStreamAssumption DEF StreamInv, TypesOK, QueueTypes, WriterTypes, PushesThat
  <1>3. /\ PushedText \in Nat /\ PushedSpeech \in Nat
        /\ PushedText' \in Nat /\ PushedSpeech' \in Nat
    BY PushedIs DEF StreamInv, TypesOK, Pushes
  <1>4. /\ UNCHANGED <<abort, writer, speaking, voiced, reply_text, llm_finished, out>>
        /\ ToSay \subseteq ToSay' /\ UNCHANGED reprimed
    BY DEF Pushes
  <1>5. QueueTypes'
    BY <1>2 DEF QueueTypes
  <1>6. TextInv'
    <2>1. TextQueue(queue, reply_text, PushedText) /\ TextQueue(x, PushedText, PushedText')
      BY <1>1 DEF StreamInv, TextInv, PushesThat
    <2>2. TextQueue(queue \o x, reply_text, PushedText')
      BY <1>2, <1>3, <2>1, TextJoin
    <2> QED
      BY <1>2, <1>4, <2>2 DEF TextInv
  <1>7. SpeechInv'
    <2>1. /\ SpeechQueue(queue, speaking, PushedSpeech, ToSay)
          /\ SpeechQueue(x, PushedSpeech, PushedSpeech', ToSay')
      BY <1>1 DEF StreamInv, SpeechInv, PushesThat
    <2>2. SpeechQueue(queue \o x, speaking, PushedSpeech', ToSay')
      BY <1>2, <1>3, <1>4, <2>1, SpeechJoin
    <2> QED
      BY <1>2, <1>4, <2>2 DEF SpeechInv
  <1>8. OwedInv'
    <2> SUFFICES ASSUME ~ Gone \/ out # {}, NEW u \in ToSay'
                 PROVE  u \in Voices \cup BeingSpoken \/ Says(queue', u)
      BY <1>4 DEF OwedInv, Owed, Gone, Voices, BeingSpoken
    <2>1. u \in ToSay \/ Says(x, u)
      BY <1>1 DEF PushesThat
    <2>2. u \in ToSay => u \in Voices \cup BeingSpoken \/ Says(queue, u)
      BY DEF StreamInv, OwedInv, Owed
    <2>3. Says(queue, u) \/ Says(x, u) => Says(queue \o x, u)
      BY <1>2, SaysJoin
    <2> QED
      BY <1>2, <2>1, <2>2, <2>3
  <1>9. VoicedInv'
    BY <1>4 DEF StreamInv, VoicedInv
  <1>10. EndInv'
    <2>1. EndInv
      BY DEF StreamInv
    <2>2. /\ EndsLast(queue')
          /\ (\E i \in 1 .. Len(queue') : queue'[i].kind = "llm_done") => Complete'
      <3>1. CASE Complete
        <4>1. Complete' /\ queue' = queue
          BY <3>1 DEF Pushes
        <4> QED
          BY <2>1, <4>1 DEF EndInv
      <3>2. CASE ~ Complete
        <4>1. \A i \in 1 .. Len(queue) : queue[i].kind # "llm_done"
          BY <2>1, <3>2 DEF EndInv
        <4>2. /\ EndsLast(queue \o x)
              /\ (\E i \in 1 .. Len(queue \o x) : (queue \o x)[i].kind = "llm_done") =>
                    \E i \in 1 .. Len(x) : x[i].kind = "llm_done"
          BY <1>1, <1>2, <4>1, EndsLastJoin DEF PushesThat
        <4> QED
          BY <1>1, <1>2, <4>2 DEF PushesThat
      <3> QED
        BY <3>1, <3>2
    <2>3. llm_finished' => queue' = <<>> /\ Complete'
      BY <1>4, <2>1 DEF EndInv, Pushes
    <2>4. llm' = "over" /\ ~ Complete' => abort'
      BY <1>4 DEF Pushes
    <2> QED
      BY <1>4, <2>1, <2>2, <2>3, <2>4 DEF EndInv, Gone
  <1> QED
    BY <1>4, <1>5, <1>6, <1>7, <1>8, <1>9, <1>10

----------------------------------------------------------------------------
\* Consuming.

\* The first n events, tokens all, are written.
Takes(n) ==
    /\ \A i \in 1 .. n : queue[i].kind = "token"
    /\ queue' = Drop(queue, n)
    /\ reply_text' = IF n = 0 THEN reply_text ELSE queue[n].upto

Drains == \E n \in 0 .. Len(queue) : Takes(n)

\* Nothing drained.
LEMMA DrainsNothing ==
    ASSUME queue \in Seq(Event), UNCHANGED <<queue, reply_text>>
    PROVE  Drains
  <1>1. Drop(queue, 0) \in Seq(Event) /\ Len(Drop(queue, 0)) = Len(queue) /\ Len(queue) \in Nat
        /\ \A i \in 1 .. Len(queue) : Drop(queue, 0)[i] = queue[i]
    BY DEF Drop
  <1>2. Drop(queue, 0) = queue
    BY <1>1, SeqEqual
  <1> QED
    BY <1>1, <1>2 DEF Drains, Takes

\* The steps of the writer that write tokens.
LEMMA WhoDrains ==
    ASSUME queue \in Seq(Event)
    PROVE  /\ WriteToken => Drains
           /\ StreamShared => Drains
           /\ \A clears \in BOOLEAN : Chunk(clears) => Drains
           /\ \A like \in Likeness : Voiced(like) => Drains
  <1>1. ASSUME WriteToken PROVE Drains
    <2>1. /\ queue # <<>> /\ Head(queue).kind = "token" /\ reply_text' = Head(queue).upto
          /\ queue' = Tail(queue)
      BY <1>1 DEF WriteToken
    <2>2. Tail(queue) = Drop(queue, 1) /\ Head(queue) = queue[1] /\ 1 \in 0 .. Len(queue)
      BY <2>1, TailIs
    <2>3. Takes(1)
      BY <2>1, <2>2 DEF Takes
    <2> QED
      BY <2>2, <2>3 DEF Drains
  <1>2. DrainTokens => Drains
    BY DrainIs DEF Drains, Takes
  <1> QED
    BY <1>1, <1>2, DrainsNothing DEF StreamShared, Chunk, Voiced

\* Writing the tokens at the head of the queue.
LEMMA DrainKeeps ==
    ASSUME StreamInv, Drains,
           UNCHANGED <<attached, text, sentences, rest, truncated, llm, taken>>
    PROVE  /\ QueueTypes' /\ reply_text' \in 0 .. MaxText /\ reply_text <= reply_text'
           /\ TextInv'
           /\ SpeechQueue(queue', speaking, PushedSpeech, ToSay)
           /\ \A u : Says(queue, u) => Says(queue', u)
           /\ EndsLast(queue')
           /\ (\E i \in 1 .. Len(queue') : queue'[i].kind = "llm_done") =>
                 \E i \in 1 .. Len(queue) : queue[i].kind = "llm_done"
           /\ queue = <<>> => queue' = <<>>
  <1>1. PICK n \in 0 .. Len(queue) : Takes(n)
    BY DEF Drains
  <1>2. /\ queue \in Seq(Event) /\ Len(queue) \in Nat /\ reply_text \in 0 .. MaxText
        /\ speaking \in Nat /\ reply_text \in Nat
    BY ChatStreamAssumption DEF StreamInv, TypesOK, QueueTypes, WriterTypes
  <1>3. /\ PushedText \in Nat /\ PushedSpeech \in Nat
        /\ PushedText' = PushedText /\ PushedSpeech' = PushedSpeech /\ ToSay' = ToSay
    BY PushedIs, SameBuffer DEF StreamInv, TypesOK
  <1>4. /\ \A i \in 1 .. n : queue[i].kind = "token"
        /\ queue' = Drop(queue, n)
        /\ reply_text' = IF n = 0 THEN reply_text ELSE queue[n].upto
    BY <1>1 DEF Takes
  <1>5. /\ TextQueue(queue, reply_text, PushedText)
        /\ SpeechQueue(queue, speaking, PushedSpeech, ToSay) /\ EndsLast(queue)
    BY DEF StreamInv, TextInv, SpeechInv, EndInv
  <1>6. \A i \in 1 .. Len(queue) : queue[i].upto \in 0 .. MaxText /\ queue[i].upto \in Nat
    BY <1>2, EventIs
  <1>7. /\ reply_text' \in 0 .. MaxText /\ reply_text' \in Nat
        /\ reply_text <= reply_text' /\ reply_text' <= PushedText
        /\ \A i \in 1 .. n : queue[i].kind = "token" => queue[i].upto <= reply_text'
        /\ \A i \in n + 1 .. Len(queue) : queue[i].kind = "token" => reply_text' < queue[i].upto
    <2>1. /\ reply_text <= PushedText
          /\ \A i \in 1 .. Len(queue) : queue[i].kind = "token" =>
                reply_text < queue[i].upto /\ queue[i].upto <= PushedText
          /\ \A i, j \in 1 .. Len(queue) :
                i < j /\ queue[i].kind = "token" /\ queue[j].kind = "token"
                   => queue[i].upto < queue[j].upto
      BY <1>5 DEF TextQueue
    <2>2. CASE n = 0
      BY <1>2, <1>4, <2>1, <2>2
    <2>3. CASE n # 0
      <3>1. n \in 1 .. Len(queue) /\ n \in 1 .. n
        BY <1>2, <2>3
      <3>2. reply_text' = queue[n].upto /\ queue[n].kind = "token"
        BY <1>4, <2>3, <3>1
      <3>3. ASSUME NEW i \in 1 .. n PROVE queue[i].upto <= queue[n].upto
        <4>1. i \in 1 .. Len(queue) /\ (i = n \/ i < n) /\ queue[i].kind = "token"
          BY <1>2, <1>4
        <4> QED
          BY <1>6, <2>1, <3>1, <3>2, <4>1
      <3>4. ASSUME NEW i \in n + 1 .. Len(queue), queue[i].kind = "token"
            PROVE  queue[n].upto < queue[i].upto
        <4>1. i \in 1 .. Len(queue) /\ n < i
          BY <1>2
        <4> QED
          BY <2>1, <3>1, <3>2, <3>4, <4>1
      <3> QED
        BY <1>2, <1>6, <2>1, <3>1, <3>2, <3>3, <3>4
    <2> QED
      BY <2>2, <2>3
  <1>8. QueueTypes' /\ (queue = <<>> => queue' = <<>>)
    BY <1>2, <1>4, DropIs DEF QueueTypes
  <1>9. TextInv'
    BY <1>2, <1>3, <1>4, <1>5, <1>7, TextDrop DEF TextInv
  <1>10. SpeechQueue(queue', speaking, PushedSpeech, ToSay)
    <2>1. /\ speaking <= PushedSpeech
          /\ \A i \in n + 1 .. Len(queue) : queue[i].kind = "sentence" => speaking < queue[i].upto
      BY <1>2, <1>5 DEF SpeechQueue
    <2> QED
      BY <1>2, <1>3, <1>4, <1>5, <2>1, SpeechDrop
  <1>11. ASSUME NEW u, Says(queue, u) PROVE Says(queue', u)
    BY <1>2, <1>4, <1>11, SaysDrop
  <1>12. /\ EndsLast(queue')
         /\ (\E i \in 1 .. Len(queue') : queue'[i].kind = "llm_done") =>
               \E i \in 1 .. Len(queue) : queue[i].kind = "llm_done"
    BY <1>2, <1>4, <1>5, EndsLastDrop
  <1> QED
    BY <1>7, <1>8, <1>9, <1>10, <1>11, <1>12

\* Taking an event that is not a token off the queue.
LEMMA HeadKeeps ==
    ASSUME StreamInv, queue # <<>>, Head(queue).kind # "token", queue' = Tail(queue),
           UNCHANGED reply_text,
           UNCHANGED <<attached, text, sentences, rest, truncated, llm, taken>>
    PROVE  /\ QueueTypes' /\ TextInv'
           /\ SpeechQueue(queue', speaking, PushedSpeech, ToSay)
           /\ Head(queue).kind = "sentence" =>
                 /\ SpeechQueue(queue', Head(queue).upto, PushedSpeech, ToSay)
                 /\ Head(queue).upto \in 1 .. MaxText
                 /\ speaking < Head(queue).upto /\ Head(queue).upto <= reply_text
                 /\ ~ Head(queue).mute => Head(queue).upto \in ToSay
           /\ \A u : Says(queue, u) =>
                 \/ Says(queue', u)
                 \/ Head(queue).kind = "sentence" /\ ~ Head(queue).mute /\ Head(queue).upto = u
           /\ EndsLast(queue')
           /\ (\E i \in 1 .. Len(queue') : queue'[i].kind = "llm_done") =>
                 \E i \in 1 .. Len(queue) : queue[i].kind = "llm_done"
           /\ Head(queue).kind = "llm_done" =>
                 queue' = <<>> /\ Complete /\ reply_text = PushedText
  <1>1. /\ queue \in Seq(Event) /\ Len(queue) \in Nat /\ reply_text \in 0 .. MaxText
        /\ speaking \in Nat /\ reply_text \in Nat
    BY ChatStreamAssumption DEF StreamInv, TypesOK, QueueTypes, WriterTypes
  <1>2. /\ PushedText \in Nat /\ PushedSpeech \in Nat
        /\ PushedText' = PushedText /\ PushedSpeech' = PushedSpeech /\ ToSay' = ToSay
    BY PushedIs, SameBuffer DEF StreamInv, TypesOK
  <1>3. /\ queue' = Drop(queue, 1) /\ Head(queue) = queue[1]
        /\ 1 \in 0 .. Len(queue) /\ 1 \in 1 .. Len(queue)
    BY <1>1, TailIs
  <1>4. /\ TextQueue(queue, reply_text, PushedText)
        /\ SpeechQueue(queue, speaking, PushedSpeech, ToSay) /\ EndInv /\ EndsLast(queue)
    BY DEF StreamInv, TextInv, SpeechInv, EndInv
  <1>5. queue[1].upto \in 0 .. MaxText /\ queue[1].upto \in Nat
    BY <1>1, <1>3, EventIs
  <1>6. /\ QueueTypes' /\ Len(queue') = Len(queue) - 1
        /\ \A i \in 1 .. Len(queue') : i + 1 \in 1 .. Len(queue) /\ queue'[i] = queue[1 + i]
    BY <1>1, <1>3, DropIs DEF QueueTypes
  <1>7. TextInv'
    <2>1. /\ reply_text <= PushedText
          /\ \A i \in 1 .. 1 : queue[i].kind = "token" => queue[i].upto <= reply_text
          /\ \A i \in 1 + 1 .. Len(queue) : queue[i].kind = "token" => reply_text < queue[i].upto
      BY <1>1, <1>3, <1>4 DEF TextQueue
    <2>2. reply_text <= reply_text
      BY <1>1
    <2>3. TextQueue(Drop(queue, 1), reply_text, PushedText)
      BY <1>1, <1>2, <1>3, <1>4, <2>1, <2>2, TextDrop
    <2> QED
      BY <1>2, <1>3, <2>3 DEF TextInv
  <1>8. SpeechQueue(queue', speaking, PushedSpeech, ToSay)
    <2>1. /\ speaking <= PushedSpeech
          /\ \A i \in 1 + 1 .. Len(queue) : queue[i].kind = "sentence" => speaking < queue[i].upto
      BY <1>1, <1>4 DEF SpeechQueue
    <2> QED
      BY <1>1, <1>2, <1>3, <1>4, <2>1, SpeechDrop
  <1>9. ASSUME queue[1].kind = "sentence"
        PROVE  /\ SpeechQueue(queue', queue[1].upto, PushedSpeech, ToSay)
               /\ queue[1].upto \in 1 .. MaxText
               /\ speaking < queue[1].upto /\ queue[1].upto <= reply_text
               /\ ~ queue[1].mute => queue[1].upto \in ToSay
    <2>1. /\ speaking < queue[1].upto /\ queue[1].upto <= PushedSpeech
          /\ ~ queue[1].mute => queue[1].upto \in ToSay
      BY <1>3, <1>4, <1>9 DEF SpeechQueue
    <2>2. \A i \in 1 + 1 .. Len(queue) : queue[i].kind = "sentence" => queue[1].upto < queue[i].upto
      <3> TAKE i \in 1 + 1 .. Len(queue)
      <3>1. i \in 1 .. Len(queue) /\ 1 < i
        BY <1>1
      <3> QED
        BY <1>3, <1>4, <1>9, <3>1 DEF SpeechQueue
    <2>3. SpeechQueue(queue', queue[1].upto, PushedSpeech, ToSay)
      BY <1>1, <1>2, <1>3, <1>4, <1>5, <2>1, <2>2, SpeechDrop
    <2>4. queue[1].upto <= reply_text
      <3>1. \/ queue[1].upto <= reply_text
            \/ \E j \in 1 .. Len(queue) :
                  j < 1 /\ queue[j].kind = "token" /\ queue[1].upto <= queue[j].upto
        BY <1>3, <1>4, <1>9 DEF TextQueue
      <3>2. \A j \in 1 .. Len(queue) : ~ (j < 1)
        BY <1>1
      <3> QED
        BY <3>1, <3>2
    <2>5. queue[1].upto \in 1 .. MaxText
      BY <1>1, <1>5, <2>1, ChatStreamAssumption
    <2> QED
      BY <2>1, <2>3, <2>4, <2>5
  <1>10. ASSUME NEW u, Says(queue, u),
                ~ (queue[1].kind = "sentence" /\ ~ queue[1].mute /\ queue[1].upto = u)
         PROVE  Says(queue', u)
    <2>1. \A i \in 1 .. 1 :
             ~ (queue[i].kind = "sentence" /\ ~ queue[i].mute /\ queue[i].upto = u)
      BY <1>10
    <2> QED
      BY <1>1, <1>3, <1>10, <2>1, SaysDrop
  <1>11. /\ EndsLast(queue')
         /\ (\E i \in 1 .. Len(queue') : queue'[i].kind = "llm_done") =>
               \E i \in 1 .. Len(queue) : queue[i].kind = "llm_done"
    BY <1>1, <1>3, <1>4, EndsLastDrop
  <1>12. ASSUME queue[1].kind = "llm_done"
         PROVE  queue' = <<>> /\ Complete /\ reply_text = PushedText
    <2>1. Len(queue) = 1 /\ Complete
      BY <1>3, <1>4, <1>12 DEF EndInv, EndsLast
    <2>2. queue' = <<>>
      BY <1>6, <2>1 DEF QueueTypes
    <2>3. \A i \in 1 .. Len(queue) : i = 1
      BY <2>1
    <2>4. reply_text = PushedText
      BY <1>3, <1>4, <1>12, <2>3 DEF TextQueue
    <2> QED
      BY <2>1, <2>2, <2>4
  <1> QED
    BY <1>3, <1>6, <1>7, <1>8, <1>9, <1>10, <1>11, <1>12

----------------------------------------------------------------------------
\* Which steps push, drain and take.

\* The reader's and the replay's steps that may push.
LEMMA WhoPushes ==
    ASSUME StreamInv
    PROVE  /\ \A cut \in Cuts(text + 1) : Delta(cut) \/ Flush(cut) => Pushes
           /\ \A tail \in {c \in Cuts(text) : text > 0 \/ c = <<>>}, cutOff \in BOOLEAN :
                 Publish(tail, cutOff) => Pushes
           /\ ReplayCopy \/ ReplayLoop => Pushes
  <1>1. ASSUME NEW cut \in Cuts(text + 1), Delta(cut) PROVE Pushes
    BY <1>1, EmitPushes DEF Delta
  <1>2. ASSUME NEW cut \in Cuts(text + 1), Flush(cut) PROVE Pushes
    BY <1>2, EmitPushes DEF Flush
  <1> QED
    BY <1>1, <1>2, PublishPushes, CopyPushes, LoopPushes

\* The writer's steps that write tokens.
LEMMA WriterDrains ==
    ASSUME StreamInv,
           \/ WriteToken \/ StreamShared
           \/ \E clears \in BOOLEAN : Chunk(clears)
           \/ \E like \in Likeness : Voiced(like)
    PROVE  /\ QueueTypes' /\ reply_text' \in 0 .. MaxText /\ reply_text <= reply_text'
           /\ TextInv'
           /\ SpeechQueue(queue', speaking, PushedSpeech, ToSay)
           /\ \A u : Says(queue, u) => Says(queue', u)
           /\ EndsLast(queue')
           /\ (\E i \in 1 .. Len(queue') : queue'[i].kind = "llm_done") => Complete
           /\ queue = <<>> => queue' = <<>>
           /\ UNCHANGED <<speaking, abort, out, llm_finished, reprimed, llm>>
           /\ PushedSpeech' = PushedSpeech /\ ToSay' = ToSay /\ Complete' = Complete
  <1>1. UNCHANGED <<attached, reader, text, sentences, rest, truncated, llm, taken>>
        /\ UNCHANGED <<speaking, abort, out, llm_finished, reprimed>>
    BY DEF WriteToken, StreamShared, Chunk, Voiced, bufferVars, lineVars
  <1>2. queue \in Seq(Event)
    BY DEF StreamInv, TypesOK, QueueTypes
  <1>3. Drains
    BY <1>2, WhoDrains
  <1>4. Complete' = Complete
    BY <1>1 DEF Complete
  <1>5. (\E i \in 1 .. Len(queue) : queue[i].kind = "llm_done") => Complete
    BY DEF StreamInv, EndInv
  <1> QED
    BY <1>1, <1>3, <1>4, <1>5, DrainKeeps, SameBuffer

\* The writer's steps that take an event that is not a token.
LEMMA WriterTakes ==
    ASSUME StreamInv, SkipMute \/ LlmFinishes \/ \E verify \in BOOLEAN : Announce(verify)
    PROVE  /\ QueueTypes' /\ TextInv' /\ UNCHANGED reply_text
           /\ SpeechQueue(queue', speaking, PushedSpeech, ToSay)
           /\ Head(queue).kind = "sentence" =>
                 /\ SpeechQueue(queue', Head(queue).upto, PushedSpeech, ToSay)
                 /\ Head(queue).upto \in 1 .. MaxText
                 /\ speaking < Head(queue).upto /\ Head(queue).upto <= reply_text
                 /\ ~ Head(queue).mute => Head(queue).upto \in ToSay
           /\ \A u : Says(queue, u) =>
                 \/ Says(queue', u)
                 \/ Head(queue).kind = "sentence" /\ ~ Head(queue).mute /\ Head(queue).upto = u
           /\ EndsLast(queue')
           /\ (\E i \in 1 .. Len(queue') : queue'[i].kind = "llm_done") => Complete
           /\ Head(queue).kind = "llm_done" =>
                 queue' = <<>> /\ Complete /\ reply_text = PushedText
           /\ ~ llm_finished /\ writer = "idle"
           /\ UNCHANGED <<abort, out, llm, voiced>>
           /\ PushedSpeech' = PushedSpeech /\ ToSay' = ToSay /\ Complete' = Complete
  <1>1. /\ UNCHANGED <<attached, reader, text, sentences, rest, truncated, llm, taken>>
        /\ UNCHANGED <<reply_text, abort, out, voiced>>
        /\ queue # <<>> /\ queue' = Tail(queue) /\ writer = "idle"
    BY DEF SkipMute, LlmFinishes, Announce, bufferVars, lineVars, writerVars
  <1>2. Head(queue).kind # "token"
    BY DEF SkipMute, LlmFinishes, Announce, LlmDone
  <1>3. Complete' = Complete
    BY <1>1 DEF Complete
  <1>4. /\ (\E i \in 1 .. Len(queue) : queue[i].kind = "llm_done") => Complete
        /\ ~ llm_finished
    BY <1>1 DEF StreamInv, EndInv
  <1> QED
    BY <1>1, <1>2, <1>3, <1>4, HeadKeeps, SameBuffer

\* A sentence has been voiced.
LEMMA VoicedOne ==
    ASSUME WriterTypes, speaking \in 1 .. MaxText, voiced' = Append(voiced, speaking)
    PROVE  /\ voiced' \in Seq(1 .. MaxText) /\ Voices' = Voices \cup {speaking}
           /\ Len(voiced') = Len(voiced) + 1 /\ Len(voiced) \in Nat
           /\ \A i \in 1 .. Len(voiced) : voiced'[i] = voiced[i]
           /\ voiced'[Len(voiced) + 1] = speaking
           /\ \A i \in 1 .. Len(voiced) : voiced[i] \in 1 .. MaxText
  <1>1. voiced \in Seq(1 .. MaxText)
    BY DEF WriterTypes
  <1>2. /\ voiced' \in Seq(1 .. MaxText)
        /\ Len(voiced') = Len(voiced) + 1 /\ Len(voiced) \in Nat
        /\ \A i \in 1 .. Len(voiced) : voiced'[i] = voiced[i]
        /\ voiced'[Len(voiced) + 1] = speaking
        /\ \A i \in 1 .. Len(voiced) : voiced[i] \in 1 .. MaxText
    <2>1. /\ voiced' \in Seq(1 .. MaxText)
          /\ Len(voiced') = Len(voiced) + 1
          /\ \A i \in 1 .. Len(voiced) : voiced'[i] = voiced[i]
          /\ voiced'[Len(voiced) + 1] = speaking
      BY <1>1, AppendProperties
    <2>2. Len(voiced) \in Nat
      BY <1>1
    <2>3. \A i \in 1 .. Len(voiced) : voiced[i] \in 1 .. MaxText
      BY <1>1, ElementOfSeq
    <2> QED
      BY <2>1, <2>2, <2>3
  <1>3. ASSUME NEW u PROVE u \in Voices' <=> u \in Voices \cup {speaking}
    <2>1. ASSUME NEW i \in 1 .. Len(voiced'), voiced'[i] = u
          PROVE  u = speaking \/ \E j \in 1 .. Len(voiced) : voiced[j] = u
      <3>1. i \in 1 .. Len(voiced) \/ i = Len(voiced) + 1
        BY <1>2
      <3> QED
        BY <1>2, <2>1, <3>1
    <2>2. ASSUME NEW i \in 1 .. Len(voiced), voiced[i] = u
          PROVE  \E j \in 1 .. Len(voiced') : voiced'[j] = u
      <3>1. i \in 1 .. Len(voiced')
        BY <1>2
      <3> QED
        BY <1>2, <2>2, <3>1
    <2>3. \E j \in 1 .. Len(voiced') : voiced'[j] = speaking
      <3>1. Len(voiced) + 1 \in 1 .. Len(voiced')
        BY <1>2
      <3> QED
        BY <1>2, <3>1
    <2> QED
      BY <2>1, <2>2, <2>3 DEF Voices
  <1> QED
    BY <1>2, <1>3

\* The sentence being spoken is one to be said.
LEMMA SpeakingIs ==
    ASSUME StreamInv, writer \in {"shared", "synth"}
    PROVE  speaking \in ToSay /\ speaking \in 1 .. MaxText
  BY DEF StreamInv, VoicedInv, ToSay

\* Voicing the sentence being spoken keeps the voiced ones in order.
LEMMA VoicedInOrder ==
    ASSUME StreamInv, writer \in {"shared", "synth"}, writer' = "idle",
           voiced' = Append(voiced, speaking), UNCHANGED speaking, ToSay' = ToSay
    PROVE  VoicedInv'
  <1>1. WriterTypes /\ VoicedInv /\ speaking \in Nat
    BY ChatStreamAssumption DEF StreamInv, TypesOK, WriterTypes
  <1>2. speaking \in ToSay /\ speaking \in 1 .. MaxText
    BY SpeakingIs
  <1>3. /\ Len(voiced') = Len(voiced) + 1 /\ Len(voiced) \in Nat
        /\ \A i \in 1 .. Len(voiced) : voiced'[i] = voiced[i]
        /\ voiced'[Len(voiced) + 1] = speaking
        /\ \A i \in 1 .. Len(voiced) : voiced[i] \in 1 .. MaxText
    BY <1>1, <1>2, VoicedOne
  <1>4. /\ \A i \in 1 .. Len(voiced) : voiced[i] < speaking /\ voiced[i] \in ToSay
        /\ \A i, j \in 1 .. Len(voiced) : i < j => voiced[i] < voiced[j]
    BY <1>1 DEF VoicedInv
  <1>5. \A i \in 1 .. Len(voiced') : i \in 1 .. Len(voiced) \/ i = Len(voiced) + 1
    BY <1>3
  <1>6. ASSUME NEW i \in 1 .. Len(voiced') PROVE voiced'[i] <= speaking /\ voiced'[i] \in ToSay
    <2>1. CASE i \in 1 .. Len(voiced)
      BY <1>1, <1>3, <1>4, <2>1
    <2>2. CASE i = Len(voiced) + 1
      BY <1>1, <1>2, <1>3, <2>2
    <2> QED
      BY <1>5, <2>1, <2>2
  <1>7. ASSUME NEW i \in 1 .. Len(voiced'), NEW j \in 1 .. Len(voiced'), i < j
        PROVE  voiced'[i] < voiced'[j]
    <2>1. i \in 1 .. Len(voiced)
      BY <1>3, <1>7
    <2>2. CASE j \in 1 .. Len(voiced)
      BY <1>3, <1>4, <1>7, <2>1, <2>2
    <2>3. CASE j = Len(voiced) + 1
      BY <1>3, <1>4, <2>1, <2>3
    <2> QED
      BY <1>5, <2>2, <2>3
  <1> QED
    BY <1>6, <1>7 DEF VoicedInv

----------------------------------------------------------------------------
\* The record of the sentence being synthesized.
LineRecord == [verify : BOOLEAN, take : 1 .. 2, cleared : BOOLEAN,
               held : SUBSET {1, 2}, like : Likeness]

\* A sentence announced starts with its first take.
LEMMA AnnouncedLine ==
    ASSUME NEW verify \in BOOLEAN, Announce(verify)
    PROVE  /\ line' \in LineRecord /\ heard' = {}
           /\ line'.take = 1 /\ line'.held = {} /\ ~ line'.cleared
  <1>1. line' = [verify |-> verify, take |-> 1, cleared |-> FALSE, held |-> {}, like |-> -1]
        /\ heard' = {}
    BY DEF Announce, NoLine
  <1>2. -1 \in Likeness
    BY DEF Likeness
  <1> QED
    BY <1>1, <1>2 DEF LineRecord

\* A chunk is played or held.
LEMMA ChunkLine ==
    ASSUME line \in LineRecord, NEW clears \in BOOLEAN, Chunk(clears)
    PROVE  /\ line' \in LineRecord
           /\ line'.verify = line.verify /\ line'.take = line.take /\ line'.like = line.like
           /\ line'.cleared <=> line.cleared \/ clears
           /\ line'.held = IF line.verify /\ ~ line.cleared /\ ~ clears THEN {line.take} ELSE {}
  <1> DEFINE c == line.cleared \/ clears
             h == IF line.verify /\ ~ line.cleared /\ ~ clears THEN {line.take} ELSE {}
  <1>1. line' = [line EXCEPT !.cleared = c, !.held = h]
    BY DEF Chunk
  <1>2. c \in BOOLEAN
    BY DEF LineRecord
  <1>3. h \in SUBSET {1, 2}
    BY DEF LineRecord
  <1> HIDE DEF c, h
  <1>4. /\ line' \in LineRecord
        /\ line'.verify = line.verify /\ line'.take = line.take /\ line'.like = line.like
        /\ line'.cleared = c /\ line'.held = h
    BY <1>1, <1>2, <1>3 DEF LineRecord
  <1> QED
    BY <1>4 DEF c, h

\* A second take is begun.
LEMMA RetryLine ==
    ASSUME line \in LineRecord, NEW like \in Likeness, Retry(like)
    PROVE  /\ line' \in LineRecord
           /\ line'.verify = line.verify /\ line'.take = 2 /\ line'.like = like
           /\ line'.cleared = line.cleared /\ line'.held = {}
  <1> DEFINE k == 2
             e == {}
  <1>1. line' = [line EXCEPT !.take = k, !.held = e, !.like = like]
    BY DEF Retry
  <1>2. k \in 1 .. 2 /\ e \in SUBSET {1, 2}
    OBVIOUS
  <1> HIDE DEF k, e
  <1>3. line' \in LineRecord
    BY <1>1, <1>2 DEF LineRecord
  <1>4. /\ line'.verify = line.verify /\ line'.take = k /\ line'.like = like
        /\ line'.cleared = line.cleared /\ line'.held = e
    BY <1>1 DEF LineRecord
  <1> QED
    BY <1>3, <1>4 DEF k, e

\* The threads stay in their steps.
LEMMA ControlTypesKept ==
    ASSUME StreamInv, [Next]_vars
    PROVE  ControlTypes'
  <1> USE ChatStreamAssumption
  <1>1. ASSUME UNCHANGED <<attached, early_tts, reader, ended, truncated, specAbort, audio,
                        llm, abort, writer, first, llm_finished, out,
                        client>> PROVE ControlTypes'
    BY <1>1 DEF StreamInv, TypesOK, ControlTypes
  <1>2. ASSUME NEW cut \in Cuts(text + 1), Delta(cut) PROVE ControlTypes'
    BY <1>2 DEF Delta, writerVars, lineVars, StreamInv, TypesOK, ControlTypes
  <1>3. ASSUME NEW cut \in Cuts(text + 1), Flush(cut) PROVE ControlTypes'
    BY <1>3 DEF Flush, writerVars, lineVars, StreamInv, TypesOK, ControlTypes
  <1>4. ASSUME CheckAbort PROVE ControlTypes'
    BY <1>4 DEF CheckAbort, specVars, writerVars, lineVars, StreamInv, TypesOK, ControlTypes
  <1>5. ASSUME NEW how \in {"clean", "died", "error"}, StreamReturns(how) PROVE ControlTypes'
    BY <1>5 DEF StreamReturns, specVars, writerVars, lineVars, StreamInv, TypesOK,
       ControlTypes
  <1>6. ASSUME FlushNothing PROVE ControlTypes'
    BY <1>6 DEF FlushNothing, bufferVars, specVars, writerVars, lineVars, StreamInv, TypesOK,
       ControlTypes
  <1>7. ASSUME NEW tail \in {c \in Cuts(text) : text > 0 \/ c = <<>>},
               NEW cutOff \in BOOLEAN, Publish(tail, cutOff)
        PROVE  ControlTypes'
    BY <1>7 DEF Publish, writerVars, lineVars, StreamInv, TypesOK, ControlTypes
  <1>8. ASSUME ReplayLoop PROVE ControlTypes'
    BY <1>8 DEF ReplayLoop, bufferVars, writerVars, lineVars, StreamInv, TypesOK, ControlTypes
  <1>9. ASSUME ReplayCopy PROVE ControlTypes'
    BY <1>9 DEF ReplayCopy, bufferVars, specVars, writerVars, lineVars, StreamInv, TypesOK,
       ControlTypes, llm_done
  <1>10. ASSUME WriteStart PROVE ControlTypes'
    BY <1>10 DEF WriteStart, bufferVars, specVars, lineVars, StreamInv, TypesOK, ControlTypes
  <1>11. ASSUME NEW verify \in BOOLEAN, Announce(verify) PROVE ControlTypes'
    <2>1. ControlTypes
      BY DEF StreamInv, TypesOK
    <2>2. /\ UNCHANGED <<attached, early_tts, reader, ended, truncated, specAbort, llm>>
          /\ UNCHANGED <<abort, llm_finished, out, client>>
          /\ first' \in BOOLEAN /\ writer' \in {"shared", "synth"}
      BY <1>11 DEF Announce, bufferVars
    <2>3. audio' \in {"None", "Running", "Done", "Failed"}
      BY <1>11, <2>1 DEF Announce, ClaimFirst, ControlTypes
    <2> QED
      BY <2>1, <2>2, <2>3 DEF ControlTypes
  <1>12. ASSUME StreamShared PROVE ControlTypes'
    BY <1>12 DEF StreamShared, bufferVars, specVars, StreamInv, TypesOK, ControlTypes
  <1>13. ASSUME LlmFinishes PROVE ControlTypes'
    BY <1>13 DEF LlmFinishes, bufferVars, specVars, lineVars, StreamInv, TypesOK, ControlTypes
  <1>14. ASSUME Finish PROVE ControlTypes'
    BY <1>14 DEF Finish, bufferVars, specVars, lineVars, StreamInv, TypesOK, ControlTypes
  <1>15. ASSUME Unwind PROVE ControlTypes'
    BY <1>15 DEF Unwind, bufferVars, specVars, lineVars, StreamInv, TypesOK, ControlTypes
  <1>16. ASSUME Join PROVE ControlTypes'
    BY <1>16 DEF Join, bufferVars, specVars, lineVars, StreamInv, TypesOK, ControlTypes
  <1>17. ASSUME NEW like \in Likeness, Voiced(like) PROVE ControlTypes'
    BY <1>17 DEF Voiced, bufferVars, specVars, StreamInv, TypesOK, ControlTypes
  <1>18. ASSUME ClientLeaves PROVE ControlTypes'
    <2>1. ControlTypes
      BY DEF StreamInv, TypesOK
    <2>2. /\ UNCHANGED <<attached, early_tts, reader, ended, truncated, specAbort, audio,
                          llm>>
          /\ UNCHANGED <<abort, writer, first, llm_finished, out>> /\ client' \in BOOLEAN
      BY <1>18 DEF ClientLeaves, bufferVars, specVars, lineVars, writerVars
    <2> QED
      BY <2>1, <2>2 DEF ControlTypes
  <1>19. ASSUME NEW t \in Triggers, Claim(t) PROVE ControlTypes'
    BY <1>19 DEF Claim, bufferVars, writerVars, lineVars, StreamInv, TypesOK, ControlTypes
  <1>20. ASSUME NEW t \in Triggers, NEW good \in BOOLEAN, FirstEnds(t, good)
        PROVE  ControlTypes'
    BY <1>20 DEF FirstEnds, bufferVars, writerVars, lineVars, StreamInv, TypesOK, ControlTypes
  <1>21. ASSUME WriteToken \/ SkipMute \/ UNCHANGED vars
        PROVE  UNCHANGED <<attached, early_tts, reader, ended, truncated, specAbort, audio,
                              llm, abort, writer, first, llm_finished, out, client>>
    BY <1>21 DEF WriteToken, SkipMute, bufferVars, specVars, lineVars, writerVars, vars
  <1>22. ASSUME NEW clears \in BOOLEAN, Chunk(clears)
        PROVE  UNCHANGED <<attached, early_tts, reader, ended, truncated, specAbort, audio,
                              llm, abort, writer, first, llm_finished, out, client>>
    BY <1>22 DEF Chunk, bufferVars, specVars
  <1>23. ASSUME NEW like \in Likeness, Retry(like)
        PROVE  UNCHANGED <<attached, early_tts, reader, ended, truncated, specAbort, audio,
                              llm, abort, writer, first, llm_finished, out, client>>
    BY <1>23 DEF Retry, bufferVars, specVars
  <1>24. ASSUME NEW t \in Triggers, FirstChunk(t)
        PROVE  UNCHANGED <<attached, early_tts, reader, ended, truncated, specAbort, audio,
                              llm, abort, writer, first, llm_finished, out, client>>
    BY <1>24 DEF FirstChunk, bufferVars, writerVars, lineVars
  <1> QED
    BY <1>1, <1>2, <1>3, <1>4, <1>5, <1>6, <1>7, <1>8, <1>9, <1>10, <1>11, <1>12, <1>13,
       <1>14, <1>15, <1>16, <1>17, <1>18, <1>19, <1>20, <1>21, <1>22, <1>23, <1>24 DEF Next,
       Reader, Replay, Writer, Synthesis, SynthesizeFirst

\* What was read and what was replayed of it stays well typed.
LEMMA BufferTypesKept ==
    ASSUME StreamInv, [Next]_vars
    PROVE  BufferTypes'
  <1> USE ChatStreamAssumption
  <1>1. ASSUME UNCHANGED <<text, sentences, rest, taken>> PROVE BufferTypes'
    BY <1>1 DEF StreamInv, TypesOK, BufferTypes
  <1>2. ASSUME NEW cut \in Cuts(text + 1), Delta(cut) PROVE BufferTypes'
    BY <1>2, EmitBuffers DEF Delta, StreamInv, TypesOK, BufferTypes
  <1>3. ASSUME NEW cut \in Cuts(text + 1), Flush(cut) PROVE BufferTypes'
    BY <1>3, EmitBuffers DEF Flush, StreamInv, TypesOK, BufferTypes
  <1>4. ASSUME NEW tail \in {c \in Cuts(text) : text > 0 \/ c = <<>>},
               NEW cutOff \in BOOLEAN, Publish(tail, cutOff)
        PROVE  BufferTypes'
    <2>1. UNCHANGED <<text, sentences, taken>> /\ rest' = tail
      BY <1>4 DEF Publish
    <2>2. tail \in {<<>>} \cup {<<s>> : s \in Sentence}
      <3>1. CASE tail = <<>>
        BY <3>1
      <3>2. CASE text > 0
        <4>1. text \in 1 .. MaxText
          BY <3>2 DEF StreamInv, TypesOK, BufferTypes
        <4> QED
          BY <4>1, CutIs
      <3> QED
        BY <3>1, <3>2
    <2> QED
      BY <2>1, <2>2 DEF StreamInv, TypesOK, BufferTypes
  <1>5. ASSUME ReplayCopy PROVE BufferTypes'
    <2>1. UNCHANGED <<text, sentences, rest>>
      BY <1>5 DEF ReplayCopy, bufferVars
    <2>2. text \in 0 .. MaxText /\ Len(sentences) \in 0 .. MaxText
      BY DEF StreamInv, TypesOK, BufferTypes, CutsInOrder
    <2>3. taken' = [text |-> text, sentences |-> Len(sentences)]
      BY <1>5 DEF ReplayCopy
    <2> QED
      BY <2>1, <2>2, <2>3 DEF StreamInv, TypesOK, BufferTypes
  <1>6. ASSUME CheckAbort \/ FlushNothing \/ ReplayLoop \/ WriteStart \/ WriteToken
              \/ SkipMute \/ StreamShared \/ LlmFinishes \/ Finish \/ Unwind \/ Join
              \/ ClientLeaves \/ UNCHANGED vars
        PROVE  UNCHANGED <<text, sentences, rest, taken>>
    BY <1>6 DEF CheckAbort, FlushNothing, ReplayLoop, WriteStart, WriteToken, SkipMute,
       StreamShared, LlmFinishes, Finish, Unwind, Join, ClientLeaves, bufferVars, specVars,
       lineVars, writerVars, vars
  <1>7. ASSUME NEW how \in {"clean", "died", "error"}, StreamReturns(how)
        PROVE  UNCHANGED <<text, sentences, rest, taken>>
    BY <1>7 DEF StreamReturns, specVars, writerVars, lineVars
  <1>8. ASSUME NEW verify \in BOOLEAN, Announce(verify)
        PROVE  UNCHANGED <<text, sentences, rest, taken>>
    BY <1>8 DEF Announce, bufferVars
  <1>9. ASSUME NEW clears \in BOOLEAN, Chunk(clears)
        PROVE  UNCHANGED <<text, sentences, rest, taken>>
    BY <1>9 DEF Chunk, bufferVars, specVars
  <1>10. ASSUME NEW like \in Likeness, Retry(like) \/ Voiced(like)
        PROVE  UNCHANGED <<text, sentences, rest, taken>>
    BY <1>10 DEF Retry, Voiced, bufferVars, specVars
  <1>11. ASSUME NEW t \in Triggers, Claim(t) \/ FirstChunk(t)
        PROVE  UNCHANGED <<text, sentences, rest, taken>>
    BY <1>11 DEF Claim, FirstChunk, bufferVars, writerVars, lineVars
  <1>12. ASSUME NEW t \in Triggers, NEW good \in BOOLEAN, FirstEnds(t, good)
        PROVE  UNCHANGED <<text, sentences, rest, taken>>
    BY <1>12 DEF FirstEnds, bufferVars, writerVars, lineVars
  <1> QED
    BY <1>1, <1>2, <1>3, <1>4, <1>5, <1>6, <1>7, <1>8, <1>9, <1>10, <1>11, <1>12 DEF Next,
       Reader, Replay, Writer, Synthesis, SynthesizeFirst

\* Sentences are cut at growing positions of the text, the rest after the last.
LEMMA CutsInOrderKept ==
    ASSUME StreamInv, [Next]_vars
    PROVE  CutsInOrder'
  <1> USE ChatStreamAssumption
  <1>1. ASSUME UNCHANGED <<text, sentences, rest, reader, truncated>> PROVE CutsInOrder'
    BY <1>1 DEF StreamInv, CutsInOrder
  <1>2. ASSUME NEW cut \in Cuts(text + 1), Delta(cut) PROVE CutsInOrder'
    BY <1>2, EmitCuts DEF Delta, StreamInv, TypesOK, BufferTypes
  <1>3. ASSUME NEW cut \in Cuts(text + 1), Flush(cut) PROVE CutsInOrder'
    BY <1>3, EmitCuts DEF Flush, StreamInv, TypesOK, BufferTypes
  <1>4. ASSUME CheckAbort PROVE CutsInOrder'
    BY <1>4 DEF CheckAbort, specVars, writerVars, lineVars, StreamInv, CutsInOrder
  <1>5. ASSUME NEW how \in {"clean", "died", "error"}, StreamReturns(how) PROVE CutsInOrder'
    BY <1>5 DEF StreamReturns, specVars, writerVars, lineVars, StreamInv, CutsInOrder
  <1>6. ASSUME FlushNothing PROVE CutsInOrder'
    BY <1>6 DEF FlushNothing, bufferVars, specVars, writerVars, lineVars, StreamInv,
       CutsInOrder
  <1>7. ASSUME NEW tail \in {c \in Cuts(text) : text > 0 \/ c = <<>>},
               NEW cutOff \in BOOLEAN, Publish(tail, cutOff)
        PROVE  CutsInOrder'
    <2>1. /\ UNCHANGED <<text, sentences>> /\ rest' = tail /\ reader' = "over"
          /\ tail # <<>> => LastCut < text
      BY <1>7 DEF Publish
    <2>2. ASSUME tail # <<>>
          PROVE  tail[1].upto = text /\ \A i \in 1 .. Len(sentences) : sentences[i].upto < text
      <3>1. text \in 1 .. MaxText
        BY <2>2 DEF StreamInv, TypesOK, BufferTypes
      <3>2. tail[1].upto = text
        BY <2>2, <3>1, CutIs
      <3>3. ASSUME NEW i \in 1 .. Len(sentences) PROVE sentences[i].upto < text
        <4>1. sentences \in Seq(Sentence) /\ sentences # <<>>
          BY DEF StreamInv, TypesOK, BufferTypes
        <4>2. LastCut = sentences[Len(sentences)].upto
          BY <4>1 DEF LastCut, Last
        <4>3. sentences[Len(sentences)].upto < text /\ Len(sentences) \in 1 .. Len(sentences)
          BY <2>1, <2>2, <4>1, <4>2
        <4>4. sentences[i].upto \in Nat /\ sentences[Len(sentences)].upto \in Nat
          BY <4>1, <4>3, SentenceIs
        <4>5. i = Len(sentences) \/ sentences[i].upto < sentences[Len(sentences)].upto
          BY <4>3 DEF StreamInv, CutsInOrder
        <4> QED
          BY <3>1, <4>3, <4>4, <4>5
      <3> QED
        BY <3>2, <3>3
    <2> QED
      BY <2>1, <2>2 DEF StreamInv, CutsInOrder
  <1>8. ASSUME ReplayLoop \/ ReplayCopy \/ WriteStart \/ WriteToken \/ SkipMute
              \/ StreamShared \/ LlmFinishes \/ Finish \/ Unwind \/ Join \/ ClientLeaves
              \/ UNCHANGED vars
        PROVE  UNCHANGED <<text, sentences, rest, reader, truncated>>
    BY <1>8 DEF ReplayLoop, ReplayCopy, WriteStart, WriteToken, SkipMute, StreamShared,
       LlmFinishes, Finish, Unwind, Join, ClientLeaves, bufferVars, specVars, lineVars,
       writerVars, vars
  <1>9. ASSUME NEW verify \in BOOLEAN, Announce(verify)
        PROVE  UNCHANGED <<text, sentences, rest, reader, truncated>>
    BY <1>9 DEF Announce, bufferVars
  <1>10. ASSUME NEW clears \in BOOLEAN, Chunk(clears)
        PROVE  UNCHANGED <<text, sentences, rest, reader, truncated>>
    BY <1>10 DEF Chunk, bufferVars, specVars
  <1>11. ASSUME NEW like \in Likeness, Retry(like) \/ Voiced(like)
        PROVE  UNCHANGED <<text, sentences, rest, reader, truncated>>
    BY <1>11 DEF Retry, Voiced, bufferVars, specVars
  <1>12. ASSUME NEW t \in Triggers, Claim(t) \/ FirstChunk(t)
        PROVE  UNCHANGED <<text, sentences, rest, reader, truncated>>
    BY <1>12 DEF Claim, FirstChunk, bufferVars, writerVars, lineVars
  <1>13. ASSUME NEW t \in Triggers, NEW good \in BOOLEAN, FirstEnds(t, good)
        PROVE  UNCHANGED <<text, sentences, rest, reader, truncated>>
    BY <1>13 DEF FirstEnds, bufferVars, writerVars, lineVars
  <1> QED
    BY <1>1, <1>2, <1>3, <1>4, <1>5, <1>6, <1>7, <1>8, <1>9, <1>10, <1>11, <1>12,
       <1>13 DEF Next, Reader, Replay, Writer, Synthesis, SynthesizeFirst

\* The replay is never ahead of the reader, and without one the LLM thread is the reader.
LEMMA ReplayingKept ==
    ASSUME StreamInv, [Next]_vars
    PROVE  Replaying'
  <1> USE ChatStreamAssumption
  <1>1. ASSUME UNCHANGED <<attached, reader, text, sentences, llm, taken>> PROVE Replaying'
    BY <1>1 DEF StreamInv, Replaying
  <1>2. ASSUME NEW cut \in Cuts(text + 1), Delta(cut) PROVE Replaying'
    BY <1>2, EmitReplaying DEF Delta, StreamInv, TypesOK
  <1>3. ASSUME NEW cut \in Cuts(text + 1), Flush(cut) PROVE Replaying'
    BY <1>3, EmitReplaying DEF Flush, StreamInv, TypesOK
  <1>4. ASSUME CheckAbort PROVE Replaying'
    BY <1>4 DEF CheckAbort, specVars, writerVars, lineVars, StreamInv, Replaying
  <1>5. ASSUME NEW how \in {"clean", "died", "error"}, StreamReturns(how) PROVE Replaying'
    BY <1>5 DEF StreamReturns, specVars, writerVars, lineVars, StreamInv, Replaying
  <1>6. ASSUME FlushNothing PROVE Replaying'
    BY <1>6 DEF FlushNothing, bufferVars, specVars, writerVars, lineVars, StreamInv, Replaying
  <1>7. ASSUME NEW tail \in {c \in Cuts(text) : text > 0 \/ c = <<>>},
               NEW cutOff \in BOOLEAN, Publish(tail, cutOff)
        PROVE  Replaying'
    BY <1>7 DEF Publish, writerVars, lineVars, StreamInv, Replaying
  <1>8. ASSUME ReplayLoop PROVE Replaying'
    BY <1>8 DEF ReplayLoop, bufferVars, writerVars, lineVars, StreamInv, Replaying
  <1>9. ASSUME ReplayCopy PROVE Replaying'
    <2>1. /\ UNCHANGED <<attached, reader, text, sentences>> /\ llm = "copy"
          /\ llm' \in {"over", "loop"}
          /\ taken' = [text |-> text, sentences |-> Len(sentences)]
      BY <1>9 DEF ReplayCopy, bufferVars, llm_done
    <2>2. attached
      BY <2>1 DEF StreamInv, Replaying
    <2>3. /\ taken'.text = text /\ taken'.sentences = Len(sentences)
          /\ Len(sentences) \in Nat /\ text \in Nat
      BY <2>1 DEF StreamInv, TypesOK, BufferTypes
    <2>4. Len(sentences) > 0 => sentences[Len(sentences)].upto <= text
      BY <2>3 DEF StreamInv, CutsInOrder
    <2> QED
      BY <2>1, <2>2, <2>3, <2>4 DEF Replaying
  <1>10. ASSUME WriteStart \/ WriteToken \/ SkipMute \/ StreamShared \/ LlmFinishes \/ Finish
              \/ Unwind \/ Join \/ ClientLeaves \/ UNCHANGED vars
        PROVE  UNCHANGED <<attached, reader, text, sentences, llm, taken>>
    BY <1>10 DEF WriteStart, WriteToken, SkipMute, StreamShared, LlmFinishes, Finish, Unwind,
       Join, ClientLeaves, bufferVars, specVars, lineVars, writerVars, vars
  <1>11. ASSUME NEW verify \in BOOLEAN, Announce(verify)
        PROVE  UNCHANGED <<attached, reader, text, sentences, llm, taken>>
    BY <1>11 DEF Announce, bufferVars
  <1>12. ASSUME NEW clears \in BOOLEAN, Chunk(clears)
        PROVE  UNCHANGED <<attached, reader, text, sentences, llm, taken>>
    BY <1>12 DEF Chunk, bufferVars, specVars
  <1>13. ASSUME NEW like \in Likeness, Retry(like) \/ Voiced(like)
        PROVE  UNCHANGED <<attached, reader, text, sentences, llm, taken>>
    BY <1>13 DEF Retry, Voiced, bufferVars, specVars
  <1>14. ASSUME NEW t \in Triggers, Claim(t) \/ FirstChunk(t)
        PROVE  UNCHANGED <<attached, reader, text, sentences, llm, taken>>
    BY <1>14 DEF Claim, FirstChunk, bufferVars, writerVars, lineVars
  <1>15. ASSUME NEW t \in Triggers, NEW good \in BOOLEAN, FirstEnds(t, good)
        PROVE  UNCHANGED <<attached, reader, text, sentences, llm, taken>>
    BY <1>15 DEF FirstEnds, bufferVars, writerVars, lineVars
  <1> QED
    BY <1>1, <1>2, <1>3, <1>4, <1>5, <1>6, <1>7, <1>8, <1>9, <1>10, <1>11, <1>12, <1>13,
       <1>14, <1>15 DEF Next, Reader, Replay, Writer, Synthesis, SynthesizeFirst

\* The queue holds events.
LEMMA QueueTypesKept ==
    ASSUME StreamInv, [Next]_vars
    PROVE  QueueTypes'
  <1> USE ChatStreamAssumption
  <1>1. ASSUME UNCHANGED <<queue>> PROVE QueueTypes'
    BY <1>1 DEF StreamInv, TypesOK, QueueTypes
  <1>2. ASSUME NEW cut \in Cuts(text + 1), Delta(cut) PROVE QueueTypes'
    BY <1>2, WhoPushes, PushKeeps
  <1>3. ASSUME NEW cut \in Cuts(text + 1), Flush(cut) PROVE QueueTypes'
    BY <1>3, WhoPushes, PushKeeps
  <1>4. ASSUME NEW tail \in {c \in Cuts(text) : text > 0 \/ c = <<>>},
               NEW cutOff \in BOOLEAN, Publish(tail, cutOff)
        PROVE  QueueTypes'
    BY <1>4, WhoPushes, PushKeeps
  <1>5. ASSUME ReplayCopy PROVE QueueTypes'
    BY <1>5, WhoPushes, PushKeeps
  <1>6. ASSUME WriteToken PROVE QueueTypes'
    BY <1>6, WriterDrains
  <1>7. ASSUME SkipMute PROVE QueueTypes'
    BY <1>7, WriterTakes
  <1>8. ASSUME NEW verify \in BOOLEAN, Announce(verify) PROVE QueueTypes'
    BY <1>8, WriterTakes
  <1>9. ASSUME StreamShared PROVE QueueTypes'
    BY <1>9, WriterDrains
  <1>10. ASSUME LlmFinishes PROVE QueueTypes'
    BY <1>10, WriterTakes
  <1>11. ASSUME NEW clears \in BOOLEAN, Chunk(clears) PROVE QueueTypes'
    BY <1>11, WriterDrains
  <1>12. ASSUME NEW like \in Likeness, Voiced(like) PROVE QueueTypes'
    BY <1>12, WriterDrains
  <1>13. ASSUME CheckAbort \/ FlushNothing \/ ReplayLoop \/ WriteStart \/ Finish \/ Unwind
              \/ Join \/ ClientLeaves \/ UNCHANGED vars
        PROVE  UNCHANGED <<queue>>
    BY <1>13 DEF CheckAbort, FlushNothing, ReplayLoop, WriteStart, Finish, Unwind, Join,
       ClientLeaves, bufferVars, specVars, lineVars, writerVars, vars
  <1>14. ASSUME NEW how \in {"clean", "died", "error"}, StreamReturns(how)
        PROVE  UNCHANGED <<queue>>
    BY <1>14 DEF StreamReturns, specVars, writerVars, lineVars
  <1>15. ASSUME NEW like \in Likeness, Retry(like)
        PROVE  UNCHANGED <<queue>>
    BY <1>15 DEF Retry, bufferVars, specVars
  <1>16. ASSUME NEW t \in Triggers, Claim(t) \/ FirstChunk(t)
        PROVE  UNCHANGED <<queue>>
    BY <1>16 DEF Claim, FirstChunk, bufferVars, writerVars, lineVars
  <1>17. ASSUME NEW t \in Triggers, NEW good \in BOOLEAN, FirstEnds(t, good)
        PROVE  UNCHANGED <<queue>>
    BY <1>17 DEF FirstEnds, bufferVars, writerVars, lineVars
  <1> QED
    BY <1>1, <1>2, <1>3, <1>4, <1>5, <1>6, <1>7, <1>8, <1>9, <1>10, <1>11, <1>12, <1>13,
       <1>14, <1>15, <1>16, <1>17 DEF Next, Reader, Replay, Writer, Synthesis, SynthesizeFirst

\* What the writer wrote, spoke and re-primed stays well typed.
LEMMA WriterTypesKept ==
    ASSUME StreamInv, [Next]_vars
    PROVE  WriterTypes'
  <1> USE ChatStreamAssumption
  <1>1. ASSUME UNCHANGED <<speaking, reply_text, voiced, reprimed>> PROVE WriterTypes'
    BY <1>1 DEF StreamInv, TypesOK, WriterTypes
  <1>2. ASSUME WriteToken PROVE WriterTypes'
    BY <1>2, WriterDrains DEF WriteToken, lineVars, StreamInv, TypesOK, WriterTypes
  <1>3. ASSUME NEW verify \in BOOLEAN, Announce(verify) PROVE WriterTypes'
    <2>1. /\ WriterTypes /\ speaking' = Head(queue).upto /\ Head(queue).kind = "sentence"
          /\ UNCHANGED <<reply_text, voiced, reprimed>>
      BY <1>3 DEF Announce, StreamInv, TypesOK
    <2>2. Head(queue).upto \in 1 .. MaxText
      BY <1>3, <2>1, WriterTakes
    <2> QED
      BY <2>1, <2>2 DEF WriterTypes
  <1>4. ASSUME StreamShared PROVE WriterTypes'
    <2>1. /\ WriterTypes /\ writer = "shared"
          /\ voiced' = voiced \/ voiced' = Append(voiced, speaking)
      BY <1>4 DEF StreamShared, StreamInv, TypesOK
    <2>2. voiced' \in Seq(1 .. MaxText)
      BY <2>1, SpeakingIs, VoicedOne DEF WriterTypes
    <2> QED
      BY <1>4, <2>1, <2>2, WriterDrains DEF WriterTypes
  <1>5. ASSUME LlmFinishes PROVE WriterTypes'
    BY <1>5 DEF LlmFinishes, lineVars, StreamInv, TypesOK, WriterTypes
  <1>6. ASSUME NEW clears \in BOOLEAN, Chunk(clears) PROVE WriterTypes'
    BY <1>6, WriterDrains DEF Chunk, StreamInv, TypesOK, WriterTypes
  <1>7. ASSUME NEW like \in Likeness, Voiced(like) PROVE WriterTypes'
    <2>1. WriterTypes /\ writer = "synth" /\ voiced' = Append(voiced, speaking)
      BY <1>7 DEF Voiced, StreamInv, TypesOK
    <2>2. voiced' \in Seq(1 .. MaxText)
      BY <2>1, SpeakingIs, VoicedOne
    <2> QED
      BY <1>7, <2>1, <2>2, WriterDrains DEF WriterTypes
  <1>8. ASSUME NEW cut \in Cuts(text + 1), Delta(cut) \/ Flush(cut)
        PROVE  UNCHANGED <<speaking, reply_text, voiced, reprimed>>
    BY <1>8 DEF Delta, Flush, writerVars, lineVars, Emit
  <1>9. ASSUME CheckAbort \/ FlushNothing \/ ReplayLoop \/ ReplayCopy \/ WriteStart
              \/ SkipMute \/ Finish \/ Unwind \/ Join \/ ClientLeaves \/ UNCHANGED vars
        PROVE  UNCHANGED <<speaking, reply_text, voiced, reprimed>>
    BY <1>9 DEF CheckAbort, FlushNothing, ReplayLoop, ReplayCopy, WriteStart, SkipMute,
       Finish, Unwind, Join, ClientLeaves, bufferVars, specVars, lineVars, writerVars, vars
  <1>10. ASSUME NEW how \in {"clean", "died", "error"}, StreamReturns(how)
        PROVE  UNCHANGED <<speaking, reply_text, voiced, reprimed>>
    BY <1>10 DEF StreamReturns, specVars, writerVars, lineVars
  <1>11. ASSUME NEW tail \in {c \in Cuts(text) : text > 0 \/ c = <<>>},
               NEW cutOff \in BOOLEAN, Publish(tail, cutOff)
        PROVE  UNCHANGED <<speaking, reply_text, voiced, reprimed>>
    BY <1>11 DEF Publish, writerVars, lineVars
  <1>12. ASSUME NEW like \in Likeness, Retry(like)
        PROVE  UNCHANGED <<speaking, reply_text, voiced, reprimed>>
    BY <1>12 DEF Retry, bufferVars, specVars
  <1>13. ASSUME NEW t \in Triggers, Claim(t) \/ FirstChunk(t)
        PROVE  UNCHANGED <<speaking, reply_text, voiced, reprimed>>
    BY <1>13 DEF Claim, FirstChunk, bufferVars, writerVars, lineVars
  <1>14. ASSUME NEW t \in Triggers, NEW good \in BOOLEAN, FirstEnds(t, good)
        PROVE  UNCHANGED <<speaking, reply_text, voiced, reprimed>>
    BY <1>14 DEF FirstEnds, bufferVars, writerVars, lineVars
  <1> QED
    BY <1>1, <1>2, <1>3, <1>4, <1>5, <1>6, <1>7, <1>8, <1>9, <1>10, <1>11, <1>12, <1>13,
       <1>14 DEF Next, Reader, Replay, Writer, Synthesis, SynthesizeFirst

\* The speculative synthesis stays well typed.
LEMMA SynthTypesKept ==
    ASSUME StreamInv, [Next]_vars
    PROVE  SynthTypes'
  <1> USE ChatStreamAssumption
  <1>1. ASSUME UNCHANGED <<chunks, chunk_pos, tts>> PROVE SynthTypes'
    BY <1>1 DEF StreamInv, TypesOK, SynthTypes, Triggers
  <1>2. ASSUME NEW cut \in Cuts(text + 1), Delta(cut) PROVE SynthTypes'
    BY <1>2 DEF Delta, writerVars, lineVars, StreamInv, TypesOK, SynthTypes, Triggers, Emit
  <1>3. ASSUME NEW cut \in Cuts(text + 1), Flush(cut) PROVE SynthTypes'
    BY <1>3 DEF Flush, writerVars, lineVars, StreamInv, TypesOK, SynthTypes, Triggers, Emit
  <1>4. ASSUME NEW tail \in {c \in Cuts(text) : text > 0 \/ c = <<>>},
               NEW cutOff \in BOOLEAN, Publish(tail, cutOff)
        PROVE  SynthTypes'
    BY <1>4 DEF Publish, writerVars, lineVars, StreamInv, TypesOK, SynthTypes, Triggers
  <1>5. ASSUME NEW verify \in BOOLEAN, Announce(verify) PROVE SynthTypes'
    BY <1>5 DEF Announce, bufferVars, StreamInv, TypesOK, SynthTypes, Triggers
  <1>6. ASSUME StreamShared PROVE SynthTypes'
    BY <1>6 DEF StreamShared, bufferVars, specVars, StreamInv, TypesOK, SynthTypes, Triggers
  <1>7. ASSUME NEW t \in Triggers, Claim(t) PROVE SynthTypes'
    BY <1>7 DEF Claim, bufferVars, writerVars, lineVars, StreamInv, TypesOK, SynthTypes,
       Triggers
  <1>8. ASSUME NEW t \in Triggers, FirstChunk(t) PROVE SynthTypes'
    BY <1>8 DEF FirstChunk, bufferVars, writerVars, lineVars, StreamInv, TypesOK, SynthTypes,
       Triggers
  <1>9. ASSUME NEW t \in Triggers, NEW good \in BOOLEAN, FirstEnds(t, good) PROVE SynthTypes'
    BY <1>9 DEF FirstEnds, bufferVars, writerVars, lineVars, StreamInv, TypesOK, SynthTypes,
       Triggers
  <1>10. ASSUME CheckAbort \/ FlushNothing \/ ReplayLoop \/ ReplayCopy \/ WriteStart
              \/ WriteToken \/ SkipMute \/ LlmFinishes \/ Finish \/ Unwind \/ Join
              \/ ClientLeaves \/ UNCHANGED vars
        PROVE  UNCHANGED <<chunks, chunk_pos, tts>>
    BY <1>10 DEF CheckAbort, FlushNothing, ReplayLoop, ReplayCopy, WriteStart, WriteToken,
       SkipMute, LlmFinishes, Finish, Unwind, Join, ClientLeaves, bufferVars, specVars,
       lineVars, writerVars, vars
  <1>11. ASSUME NEW how \in {"clean", "died", "error"}, StreamReturns(how)
        PROVE  UNCHANGED <<chunks, chunk_pos, tts>>
    BY <1>11 DEF StreamReturns, specVars, writerVars, lineVars
  <1>12. ASSUME NEW clears \in BOOLEAN, Chunk(clears)
        PROVE  UNCHANGED <<chunks, chunk_pos, tts>>
    BY <1>12 DEF Chunk, bufferVars, specVars
  <1>13. ASSUME NEW like \in Likeness, Retry(like) \/ Voiced(like)
        PROVE  UNCHANGED <<chunks, chunk_pos, tts>>
    BY <1>13 DEF Retry, Voiced, bufferVars, specVars
  <1> QED
    BY <1>1, <1>2, <1>3, <1>4, <1>5, <1>6, <1>7, <1>8, <1>9, <1>10, <1>11, <1>12,
       <1>13 DEF Next, Reader, Replay, Writer, Synthesis, SynthesizeFirst

\* The sentence being synthesized stays well typed.
LEMMA LineTypesKept ==
    ASSUME StreamInv, [Next]_vars
    PROVE  LineTypes'
  <1> USE ChatStreamAssumption
  <1>1. ASSUME UNCHANGED <<line, heard>> PROVE LineTypes'
    BY <1>1 DEF StreamInv, TypesOK, LineTypes
  <1>2. ASSUME NEW verify \in BOOLEAN, Announce(verify) PROVE LineTypes'
    BY <1>2, AnnouncedLine DEF LineTypes, LineRecord
  <1>3. ASSUME NEW clears \in BOOLEAN, Chunk(clears) PROVE LineTypes'
    <2>1. line \in LineRecord /\ heard \subseteq {1, 2}
      BY DEF StreamInv, TypesOK, LineTypes, LineRecord
    <2>2. line' \in LineRecord
      BY <1>3, <2>1, ChunkLine
    <2>3. heard' \subseteq {1, 2}
      BY <1>3, <2>1 DEF Chunk, LineRecord
    <2> QED
      BY <2>2, <2>3 DEF LineTypes, LineRecord
  <1>4. ASSUME NEW like \in Likeness, Retry(like) PROVE LineTypes'
    <2>1. line \in LineRecord /\ heard \subseteq {1, 2}
      BY DEF StreamInv, TypesOK, LineTypes, LineRecord
    <2> QED
      BY <1>4, <2>1, RetryLine DEF Retry, LineTypes, LineRecord
  <1>5. ASSUME NEW like \in Likeness, Voiced(like) PROVE LineTypes'
    <2>1. line \in LineRecord /\ heard \subseteq {1, 2}
      BY DEF StreamInv, TypesOK, LineTypes, LineRecord
    <2>2. line' = NoLine /\ NoLine \in LineRecord
      BY <1>5 DEF Voiced, NoLine, LineRecord, Likeness
    <2>3. heard' \subseteq {1, 2}
      BY <1>5, <2>1 DEF Voiced, Kept, LineRecord
    <2> QED
      BY <2>2, <2>3 DEF LineTypes, LineRecord
  <1>6. ASSUME NEW cut \in Cuts(text + 1), Delta(cut) \/ Flush(cut)
        PROVE  UNCHANGED <<line, heard>>
    BY <1>6 DEF Delta, Flush, writerVars, lineVars, Emit
  <1>7. ASSUME CheckAbort \/ FlushNothing \/ ReplayLoop \/ ReplayCopy \/ WriteStart
              \/ WriteToken \/ SkipMute \/ StreamShared \/ LlmFinishes \/ Finish \/ Unwind
              \/ Join \/ ClientLeaves \/ UNCHANGED vars
        PROVE  UNCHANGED <<line, heard>>
    BY <1>7 DEF CheckAbort, FlushNothing, ReplayLoop, ReplayCopy, WriteStart, WriteToken,
       SkipMute, StreamShared, LlmFinishes, Finish, Unwind, Join, ClientLeaves, bufferVars,
       specVars, lineVars, writerVars, vars
  <1>8. ASSUME NEW how \in {"clean", "died", "error"}, StreamReturns(how)
        PROVE  UNCHANGED <<line, heard>>
    BY <1>8 DEF StreamReturns, specVars, writerVars, lineVars
  <1>9. ASSUME NEW tail \in {c \in Cuts(text) : text > 0 \/ c = <<>>},
               NEW cutOff \in BOOLEAN, Publish(tail, cutOff)
        PROVE  UNCHANGED <<line, heard>>
    BY <1>9 DEF Publish, writerVars, lineVars
  <1>10. ASSUME NEW t \in Triggers, Claim(t) \/ FirstChunk(t)
        PROVE  UNCHANGED <<line, heard>>
    BY <1>10 DEF Claim, FirstChunk, bufferVars, writerVars, lineVars
  <1>11. ASSUME NEW t \in Triggers, NEW good \in BOOLEAN, FirstEnds(t, good)
        PROVE  UNCHANGED <<line, heard>>
    BY <1>11 DEF FirstEnds, bufferVars, writerVars, lineVars
  <1> QED
    BY <1>1, <1>2, <1>3, <1>4, <1>5, <1>6, <1>7, <1>8, <1>9, <1>10, <1>11 DEF Next, Reader,
       Replay, Writer, Synthesis, SynthesizeFirst

\* What was heard and held of the sentence is of the take being made.
LEMMA LineInvKept ==
    ASSUME StreamInv, [Next]_vars
    PROVE  LineInv'
  <1> USE ChatStreamAssumption
  <1>1. ASSUME UNCHANGED <<line, heard, writer>> PROVE LineInv'
    BY <1>1 DEF StreamInv, LineInv
  <1>2. ASSUME WriteStart PROVE LineInv'
    BY <1>2 DEF WriteStart, bufferVars, specVars, lineVars, StreamInv, LineInv
  <1>3. ASSUME NEW verify \in BOOLEAN, Announce(verify) PROVE LineInv'
    BY <1>3, AnnouncedLine DEF LineInv
  <1>4. ASSUME StreamShared PROVE LineInv'
    BY <1>4 DEF StreamShared, bufferVars, specVars, StreamInv, LineInv
  <1>5. ASSUME Finish PROVE LineInv'
    BY <1>5 DEF Finish, bufferVars, specVars, lineVars, StreamInv, LineInv
  <1>6. ASSUME Unwind PROVE LineInv'
    BY <1>6 DEF Unwind, bufferVars, specVars, lineVars, StreamInv, LineInv
  <1>7. ASSUME Join PROVE LineInv'
    BY <1>7 DEF Join, bufferVars, specVars, lineVars, StreamInv, LineInv
  <1>8. ASSUME NEW clears \in BOOLEAN, Chunk(clears) PROVE LineInv'
    <2>1. line \in LineRecord /\ LineInv /\ writer = "synth" /\ writer' = "synth"
      BY <1>8 DEF StreamInv, TypesOK, LineTypes, LineRecord, Chunk
    <2>2. /\ line'.verify = line.verify /\ line'.take = line.take /\ line'.like = line.like
          /\ line'.cleared <=> line.cleared \/ clears
          /\ line'.held = IF line.verify /\ ~ line.cleared /\ ~ clears THEN {line.take} ELSE {}
      BY <1>8, <2>1, ChunkLine
    <2>3. heard' = IF ~ (line.verify /\ ~ line.cleared) \/ clears
                   THEN heard \cup {line.take} ELSE heard
      BY <1>8 DEF Chunk
    <2>4. line.take = 1 \/ line.take = 2
      BY <2>1 DEF LineRecord
    <2> QED
      BY <2>1, <2>2, <2>3, <2>4 DEF LineInv
  <1>9. ASSUME NEW like \in Likeness, Retry(like) PROVE LineInv'
    <2>1. /\ line \in LineRecord /\ LineInv /\ writer = "synth" /\ heard' = heard
          /\ line.take = 1 /\ line.verify /\ ~ line.cleared /\ like \in 0 .. 1
      BY <1>9 DEF StreamInv, TypesOK, LineTypes, LineRecord, Retry, kVoiceIdentityFloor
    <2>2. /\ line'.verify = line.verify /\ line'.take = 2 /\ line'.like = like
          /\ line'.cleared = line.cleared /\ line'.held = {}
      BY <1>9, <2>1, RetryLine
    <2> QED
      BY <2>1, <2>2 DEF LineInv
  <1>10. ASSUME NEW like \in Likeness, Voiced(like) PROVE LineInv'
    BY <1>10 DEF Voiced, bufferVars, specVars, StreamInv, LineInv
  <1>11. ASSUME NEW cut \in Cuts(text + 1), Delta(cut) \/ Flush(cut)
        PROVE  UNCHANGED <<line, heard, writer>>
    BY <1>11 DEF Delta, Flush, writerVars, lineVars, Emit
  <1>12. ASSUME CheckAbort \/ FlushNothing \/ ReplayLoop \/ ReplayCopy \/ WriteToken
              \/ SkipMute \/ LlmFinishes \/ ClientLeaves \/ UNCHANGED vars
        PROVE  UNCHANGED <<line, heard, writer>>
    BY <1>12 DEF CheckAbort, FlushNothing, ReplayLoop, ReplayCopy, WriteToken, SkipMute,
       LlmFinishes, ClientLeaves, bufferVars, specVars, lineVars, writerVars, vars
  <1>13. ASSUME NEW how \in {"clean", "died", "error"}, StreamReturns(how)
        PROVE  UNCHANGED <<line, heard, writer>>
    BY <1>13 DEF StreamReturns, specVars, writerVars, lineVars
  <1>14. ASSUME NEW tail \in {c \in Cuts(text) : text > 0 \/ c = <<>>},
               NEW cutOff \in BOOLEAN, Publish(tail, cutOff)
        PROVE  UNCHANGED <<line, heard, writer>>
    BY <1>14 DEF Publish, writerVars, lineVars
  <1>15. ASSUME NEW t \in Triggers, Claim(t) \/ FirstChunk(t)
        PROVE  UNCHANGED <<line, heard, writer>>
    BY <1>15 DEF Claim, FirstChunk, bufferVars, writerVars, lineVars
  <1>16. ASSUME NEW t \in Triggers, NEW good \in BOOLEAN, FirstEnds(t, good)
        PROVE  UNCHANGED <<line, heard, writer>>
    BY <1>16 DEF FirstEnds, bufferVars, writerVars, lineVars
  <1> QED
    BY <1>1, <1>2, <1>3, <1>4, <1>5, <1>6, <1>7, <1>8, <1>9, <1>10, <1>11, <1>12, <1>13,
       <1>14, <1>15, <1>16 DEF Next, Reader, Replay, Writer, Synthesis, SynthesizeFirst

\* Of each sentence one take is heard.
LEMMA OneTakeKept ==
    ASSUME StreamInv, [Next]_vars
    PROVE  OneTakeHeard'
  <1> USE ChatStreamAssumption
  <1>1. ASSUME UNCHANGED <<heard>> PROVE OneTakeHeard'
    BY <1>1 DEF StreamInv, OneTakeHeard
  <1>2. ASSUME NEW verify \in BOOLEAN, Announce(verify) PROVE OneTakeHeard'
    BY <1>2, AnnouncedLine DEF OneTakeHeard
  <1>3. ASSUME NEW clears \in BOOLEAN, Chunk(clears) PROVE OneTakeHeard'
    <2>1. LineInv /\ writer = "synth" /\ (line.take = 1 \/ line.take = 2)
      BY <1>3 DEF StreamInv, TypesOK, LineTypes, Chunk
    <2>2. heard' = heard \/ heard' = heard \cup {line.take}
      BY <1>3 DEF Chunk
    <2> QED
      BY <2>1, <2>2 DEF LineInv, OneTakeHeard
  <1>4. ASSUME NEW like \in Likeness, Voiced(like) PROVE OneTakeHeard'
    <2>1. /\ LineInv /\ writer = "synth" /\ (line.take = 1 \/ line.take = 2)
          /\ line.cleared => like >= 2
          /\ heard' = heard \cup (IF line.take = 2
                                  THEN IF like < line.like THEN {1} ELSE line.held
                                  ELSE line.held)
      BY <1>4 DEF StreamInv, TypesOK, LineTypes, Voiced, Kept, kVoiceIdentityFloor
    <2>2. CASE line.take = 1
      BY <2>1, <2>2 DEF LineInv, OneTakeHeard
    <2>3. CASE line.take = 2 /\ line.cleared
      <3>1. line.like \in 0 .. 1 /\ line.held = {} /\ heard \subseteq {2}
        BY <2>1, <2>3 DEF LineInv
      <3>2. ~ (like < line.like)
        BY <2>1, <2>3, <3>1 DEF Likeness
      <3>3. heard' \subseteq {2}
        BY <2>1, <2>3, <3>1, <3>2
      <3> QED
        BY <3>3 DEF OneTakeHeard
    <2>4. CASE line.take = 2 /\ ~ line.cleared
      <3>1. heard = {} /\ line.held \subseteq {2}
        BY <2>1, <2>4 DEF LineInv
      <3>2. heard' = {1} \/ heard' \subseteq {2}
        BY <2>1, <2>4, <3>1
      <3> QED
        BY <3>2 DEF OneTakeHeard
    <2> QED
      BY <2>1, <2>2, <2>3, <2>4
  <1>5. ASSUME NEW cut \in Cuts(text + 1), Delta(cut) \/ Flush(cut)
        PROVE  UNCHANGED <<heard>>
    BY <1>5 DEF Delta, Flush, writerVars, lineVars, Emit
  <1>6. ASSUME CheckAbort \/ FlushNothing \/ ReplayLoop \/ ReplayCopy \/ WriteStart
              \/ WriteToken \/ SkipMute \/ StreamShared \/ LlmFinishes \/ Finish \/ Unwind
              \/ Join \/ ClientLeaves \/ UNCHANGED vars
        PROVE  UNCHANGED <<heard>>
    BY <1>6 DEF CheckAbort, FlushNothing, ReplayLoop, ReplayCopy, WriteStart, WriteToken,
       SkipMute, StreamShared, LlmFinishes, Finish, Unwind, Join, ClientLeaves, bufferVars,
       specVars, lineVars, writerVars, vars
  <1>7. ASSUME NEW how \in {"clean", "died", "error"}, StreamReturns(how)
        PROVE  UNCHANGED <<heard>>
    BY <1>7 DEF StreamReturns, specVars, writerVars, lineVars
  <1>8. ASSUME NEW tail \in {c \in Cuts(text) : text > 0 \/ c = <<>>},
               NEW cutOff \in BOOLEAN, Publish(tail, cutOff)
        PROVE  UNCHANGED <<heard>>
    BY <1>8 DEF Publish, writerVars, lineVars
  <1>9. ASSUME NEW like \in Likeness, Retry(like)
        PROVE  UNCHANGED <<heard>>
    BY <1>9 DEF Retry, bufferVars, specVars
  <1>10. ASSUME NEW t \in Triggers, Claim(t) \/ FirstChunk(t)
        PROVE  UNCHANGED <<heard>>
    BY <1>10 DEF Claim, FirstChunk, bufferVars, writerVars, lineVars
  <1>11. ASSUME NEW t \in Triggers, NEW good \in BOOLEAN, FirstEnds(t, good)
        PROVE  UNCHANGED <<heard>>
    BY <1>11 DEF FirstEnds, bufferVars, writerVars, lineVars
  <1> QED
    BY <1>1, <1>2, <1>3, <1>4, <1>5, <1>6, <1>7, <1>8, <1>9, <1>10, <1>11 DEF Next, Reader,
       Replay, Writer, Synthesis, SynthesizeFirst

\* The audio of the first sentence has one maker.
LEMMA SynthInvKept ==
    ASSUME StreamInv, [Next]_vars
    PROVE  SynthInv'
  <1> USE ChatStreamAssumption
  <1>1. ASSUME UNCHANGED <<attached, early_tts, tts, audio, first, writer>> PROVE SynthInv'
    BY <1>1 DEF StreamInv, SynthInv, Triggers
  <1>2. ASSUME NEW cut \in Cuts(text + 1), Delta(cut) PROVE SynthInv'
    BY <1>2 DEF Delta, writerVars, lineVars, StreamInv, SynthInv, Triggers, Emit, TypesOK,
       SynthTypes
  <1>3. ASSUME NEW cut \in Cuts(text + 1), Flush(cut) PROVE SynthInv'
    BY <1>3 DEF Flush, writerVars, lineVars, StreamInv, SynthInv, Triggers, Emit, TypesOK,
       SynthTypes
  <1>4. ASSUME NEW tail \in {c \in Cuts(text) : text > 0 \/ c = <<>>},
               NEW cutOff \in BOOLEAN, Publish(tail, cutOff)
        PROVE  SynthInv'
    BY <1>4 DEF Publish, writerVars, lineVars, StreamInv, SynthInv, Triggers, TypesOK,
       SynthTypes
  <1>5. ASSUME WriteStart PROVE SynthInv'
    BY <1>5 DEF WriteStart, bufferVars, specVars, lineVars, StreamInv, SynthInv, Triggers
  <1>6. ASSUME NEW verify \in BOOLEAN, Announce(verify) PROVE SynthInv'
    BY <1>6 DEF Announce, bufferVars, StreamInv, SynthInv, Triggers, ClaimFirst
  <1>7. ASSUME StreamShared PROVE SynthInv'
    BY <1>7 DEF StreamShared, bufferVars, specVars, StreamInv, SynthInv, Triggers
  <1>8. ASSUME Finish PROVE SynthInv'
    BY <1>8 DEF Finish, bufferVars, specVars, lineVars, StreamInv, SynthInv, Triggers
  <1>9. ASSUME Unwind PROVE SynthInv'
    BY <1>9 DEF Unwind, bufferVars, specVars, lineVars, StreamInv, SynthInv, Triggers
  <1>10. ASSUME Join PROVE SynthInv'
    BY <1>10 DEF Join, bufferVars, specVars, lineVars, StreamInv, SynthInv, Triggers
  <1>11. ASSUME NEW like \in Likeness, Voiced(like) PROVE SynthInv'
    BY <1>11 DEF Voiced, bufferVars, specVars, StreamInv, SynthInv, Triggers
  <1>12. ASSUME NEW t \in Triggers, Claim(t) PROVE SynthInv'
    BY <1>12 DEF Claim, bufferVars, writerVars, lineVars, StreamInv, SynthInv, Triggers,
       TypesOK, SynthTypes
  <1>13. ASSUME NEW t \in Triggers, NEW good \in BOOLEAN, FirstEnds(t, good) PROVE SynthInv'
    BY <1>13 DEF FirstEnds, bufferVars, writerVars, lineVars, StreamInv, SynthInv, Triggers,
       TypesOK, SynthTypes
  <1>14. ASSUME CheckAbort \/ FlushNothing \/ ReplayLoop \/ ReplayCopy \/ WriteToken
              \/ SkipMute \/ LlmFinishes \/ ClientLeaves \/ UNCHANGED vars
        PROVE  UNCHANGED <<attached, early_tts, tts, audio, first, writer>>
    BY <1>14 DEF CheckAbort, FlushNothing, ReplayLoop, ReplayCopy, WriteToken, SkipMute,
       LlmFinishes, ClientLeaves, bufferVars, specVars, lineVars, writerVars, vars
  <1>15. ASSUME NEW how \in {"clean", "died", "error"}, StreamReturns(how)
        PROVE  UNCHANGED <<attached, early_tts, tts, audio, first, writer>>
    BY <1>15 DEF StreamReturns, specVars, writerVars, lineVars
  <1>16. ASSUME NEW clears \in BOOLEAN, Chunk(clears)
        PROVE  UNCHANGED <<attached, early_tts, tts, audio, first, writer>>
    BY <1>16 DEF Chunk, bufferVars, specVars
  <1>17. ASSUME NEW like \in Likeness, Retry(like)
        PROVE  UNCHANGED <<attached, early_tts, tts, audio, first, writer>>
    BY <1>17 DEF Retry, bufferVars, specVars
  <1>18. ASSUME NEW t \in Triggers, FirstChunk(t)
        PROVE  UNCHANGED <<attached, early_tts, tts, audio, first, writer>>
    BY <1>18 DEF FirstChunk, bufferVars, writerVars, lineVars
  <1> QED
    BY <1>1, <1>2, <1>3, <1>4, <1>5, <1>6, <1>7, <1>8, <1>9, <1>10, <1>11, <1>12, <1>13,
       <1>14, <1>15, <1>16, <1>17, <1>18 DEF Next, Reader, Replay, Writer, Synthesis,
       SynthesizeFirst

\* The queue carries the text from what was written to what was pushed.
LEMMA TextInvKept ==
    ASSUME StreamInv, [Next]_vars
    PROVE  TextInv'
  <1> USE ChatStreamAssumption
  <1>1. ASSUME UNCHANGED <<queue, reply_text, attached, text, sentences, rest, truncated, llm,
                        taken>> PROVE TextInv'
    BY <1>1, SameBuffer DEF StreamInv, TextInv
  <1>2. ASSUME NEW cut \in Cuts(text + 1), Delta(cut) PROVE TextInv'
    BY <1>2, WhoPushes, PushKeeps
  <1>3. ASSUME NEW cut \in Cuts(text + 1), Flush(cut) PROVE TextInv'
    BY <1>3, WhoPushes, PushKeeps
  <1>4. ASSUME NEW tail \in {c \in Cuts(text) : text > 0 \/ c = <<>>},
               NEW cutOff \in BOOLEAN, Publish(tail, cutOff)
        PROVE  TextInv'
    BY <1>4, WhoPushes, PushKeeps
  <1>5. ASSUME ReplayLoop PROVE TextInv'
    BY <1>5, WhoPushes, PushKeeps
  <1>6. ASSUME ReplayCopy PROVE TextInv'
    BY <1>6, WhoPushes, PushKeeps
  <1>7. ASSUME WriteToken PROVE TextInv'
    BY <1>7, WriterDrains
  <1>8. ASSUME SkipMute PROVE TextInv'
    BY <1>8, WriterTakes
  <1>9. ASSUME NEW verify \in BOOLEAN, Announce(verify) PROVE TextInv'
    BY <1>9, WriterTakes
  <1>10. ASSUME StreamShared PROVE TextInv'
    BY <1>10, WriterDrains
  <1>11. ASSUME LlmFinishes PROVE TextInv'
    BY <1>11, WriterTakes
  <1>12. ASSUME NEW clears \in BOOLEAN, Chunk(clears) PROVE TextInv'
    BY <1>12, WriterDrains
  <1>13. ASSUME NEW like \in Likeness, Voiced(like) PROVE TextInv'
    BY <1>13, WriterDrains
  <1>14. ASSUME CheckAbort \/ FlushNothing \/ WriteStart \/ Finish \/ Unwind \/ Join
              \/ ClientLeaves \/ UNCHANGED vars
        PROVE  UNCHANGED <<queue, reply_text, attached, text, sentences, rest, truncated, llm,
                              taken>>
    BY <1>14 DEF CheckAbort, FlushNothing, WriteStart, Finish, Unwind, Join, ClientLeaves,
       bufferVars, specVars, lineVars, writerVars, vars
  <1>15. ASSUME NEW how \in {"clean", "died", "error"}, StreamReturns(how)
        PROVE  UNCHANGED <<queue, reply_text, attached, text, sentences, rest, truncated, llm,
                              taken>>
    BY <1>15 DEF StreamReturns, specVars, writerVars, lineVars
  <1>16. ASSUME NEW like \in Likeness, Retry(like)
        PROVE  UNCHANGED <<queue, reply_text, attached, text, sentences, rest, truncated, llm,
                              taken>>
    BY <1>16 DEF Retry, bufferVars, specVars
  <1>17. ASSUME NEW t \in Triggers, Claim(t) \/ FirstChunk(t)
        PROVE  UNCHANGED <<queue, reply_text, attached, text, sentences, rest, truncated, llm,
                              taken>>
    BY <1>17 DEF Claim, FirstChunk, bufferVars, writerVars, lineVars
  <1>18. ASSUME NEW t \in Triggers, NEW good \in BOOLEAN, FirstEnds(t, good)
        PROVE  UNCHANGED <<queue, reply_text, attached, text, sentences, rest, truncated, llm,
                              taken>>
    BY <1>18 DEF FirstEnds, bufferVars, writerVars, lineVars
  <1> QED
    BY <1>1, <1>2, <1>3, <1>4, <1>5, <1>6, <1>7, <1>8, <1>9, <1>10, <1>11, <1>12, <1>13,
       <1>14, <1>15, <1>16, <1>17, <1>18 DEF Next, Reader, Replay, Writer, Synthesis,
       SynthesizeFirst

\* The queue carries the sentences after the one last announced, in order.
LEMMA SpeechInvKept ==
    ASSUME StreamInv, [Next]_vars
    PROVE  SpeechInv'
  <1> USE ChatStreamAssumption
  <1>1. ASSUME UNCHANGED <<queue, speaking, attached, text, sentences, rest, truncated, llm,
                        taken>> PROVE SpeechInv'
    BY <1>1, SameBuffer DEF StreamInv, SpeechInv
  <1>2. ASSUME NEW cut \in Cuts(text + 1), Delta(cut) PROVE SpeechInv'
    BY <1>2, WhoPushes, PushKeeps
  <1>3. ASSUME NEW cut \in Cuts(text + 1), Flush(cut) PROVE SpeechInv'
    BY <1>3, WhoPushes, PushKeeps
  <1>4. ASSUME NEW tail \in {c \in Cuts(text) : text > 0 \/ c = <<>>},
               NEW cutOff \in BOOLEAN, Publish(tail, cutOff)
        PROVE  SpeechInv'
    BY <1>4, WhoPushes, PushKeeps
  <1>5. ASSUME ReplayLoop PROVE SpeechInv'
    BY <1>5, WhoPushes, PushKeeps
  <1>6. ASSUME ReplayCopy PROVE SpeechInv'
    BY <1>6, WhoPushes, PushKeeps
  <1>7. ASSUME WriteToken PROVE SpeechInv'
    BY <1>7, WriterDrains DEF SpeechInv
  <1>8. ASSUME SkipMute PROVE SpeechInv'
    BY <1>8, WriterTakes DEF SpeechInv, SkipMute, writerVars, lineVars
  <1>9. ASSUME NEW verify \in BOOLEAN, Announce(verify) PROVE SpeechInv'
    BY <1>9, WriterTakes DEF SpeechInv, Announce
  <1>10. ASSUME StreamShared PROVE SpeechInv'
    BY <1>10, WriterDrains DEF SpeechInv
  <1>11. ASSUME LlmFinishes PROVE SpeechInv'
    BY <1>11, WriterTakes DEF SpeechInv, LlmFinishes, lineVars
  <1>12. ASSUME NEW clears \in BOOLEAN, Chunk(clears) PROVE SpeechInv'
    BY <1>12, WriterDrains DEF SpeechInv
  <1>13. ASSUME NEW like \in Likeness, Voiced(like) PROVE SpeechInv'
    BY <1>13, WriterDrains DEF SpeechInv
  <1>14. ASSUME CheckAbort \/ FlushNothing \/ WriteStart \/ Finish \/ Unwind \/ Join
              \/ ClientLeaves \/ UNCHANGED vars
        PROVE  UNCHANGED <<queue, speaking, attached, text, sentences, rest, truncated, llm,
                              taken>>
    BY <1>14 DEF CheckAbort, FlushNothing, WriteStart, Finish, Unwind, Join, ClientLeaves,
       bufferVars, specVars, lineVars, writerVars, vars
  <1>15. ASSUME NEW how \in {"clean", "died", "error"}, StreamReturns(how)
        PROVE  UNCHANGED <<queue, speaking, attached, text, sentences, rest, truncated, llm,
                              taken>>
    BY <1>15 DEF StreamReturns, specVars, writerVars, lineVars
  <1>16. ASSUME NEW like \in Likeness, Retry(like)
        PROVE  UNCHANGED <<queue, speaking, attached, text, sentences, rest, truncated, llm,
                              taken>>
    BY <1>16 DEF Retry, bufferVars, specVars
  <1>17. ASSUME NEW t \in Triggers, Claim(t) \/ FirstChunk(t)
        PROVE  UNCHANGED <<queue, speaking, attached, text, sentences, rest, truncated, llm,
                              taken>>
    BY <1>17 DEF Claim, FirstChunk, bufferVars, writerVars, lineVars
  <1>18. ASSUME NEW t \in Triggers, NEW good \in BOOLEAN, FirstEnds(t, good)
        PROVE  UNCHANGED <<queue, speaking, attached, text, sentences, rest, truncated, llm,
                              taken>>
    BY <1>18 DEF FirstEnds, bufferVars, writerVars, lineVars
  <1> QED
    BY <1>1, <1>2, <1>3, <1>4, <1>5, <1>6, <1>7, <1>8, <1>9, <1>10, <1>11, <1>12, <1>13,
       <1>14, <1>15, <1>16, <1>17, <1>18 DEF Next, Reader, Replay, Writer, Synthesis,
       SynthesizeFirst

\* Nothing that is to be said is lost.
LEMMA OwedInvKept ==
    ASSUME StreamInv, [Next]_vars
    PROVE  OwedInv'
  <1> USE ChatStreamAssumption
  <1>1. ASSUME UNCHANGED <<queue, speaking, voiced, writer, out, attached, text, sentences,
                        rest, truncated, llm, taken>> PROVE OwedInv'
    BY <1>1, SameBuffer DEF StreamInv, OwedInv, Owed, Gone, Voices, BeingSpoken
  <1>2. ASSUME NEW cut \in Cuts(text + 1), Delta(cut) PROVE OwedInv'
    BY <1>2, WhoPushes, PushKeeps
  <1>3. ASSUME NEW cut \in Cuts(text + 1), Flush(cut) PROVE OwedInv'
    BY <1>3, WhoPushes, PushKeeps
  <1>4. ASSUME NEW tail \in {c \in Cuts(text) : text > 0 \/ c = <<>>},
               NEW cutOff \in BOOLEAN, Publish(tail, cutOff)
        PROVE  OwedInv'
    BY <1>4, WhoPushes, PushKeeps
  <1>5. ASSUME ReplayLoop PROVE OwedInv'
    BY <1>5, WhoPushes, PushKeeps
  <1>6. ASSUME ReplayCopy PROVE OwedInv'
    BY <1>6, WhoPushes, PushKeeps
  <1>7. ASSUME WriteStart PROVE OwedInv'
    <2>1. UNCHANGED <<queue, speaking, voiced, out>> /\ writer = "start" /\ writer' = "idle"
      BY <1>7 DEF WriteStart, lineVars
    <2>2. ToSay' = ToSay
      BY <1>7, SameBuffer DEF WriteStart, bufferVars
    <2> QED
      BY <2>1, <2>2 DEF StreamInv, OwedInv, Owed, Gone, Voices, BeingSpoken
  <1>8. ASSUME WriteToken PROVE OwedInv'
    <2>1. UNCHANGED <<speaking, voiced, writer, out>>
      BY <1>8 DEF WriteToken, lineVars
    <2>2. ToSay' = ToSay /\ \A u : Says(queue, u) => Says(queue', u)
      BY <1>8, WriterDrains
    <2> QED
      BY <2>1, <2>2 DEF StreamInv, OwedInv, Owed, Gone, Voices, BeingSpoken
  <1>9. ASSUME SkipMute PROVE OwedInv'
    <2>1. Head(queue).mute /\ UNCHANGED <<speaking, voiced, writer, out>>
      BY <1>9 DEF SkipMute, writerVars, lineVars
    <2>2. ToSay' = ToSay /\ \A u : Says(queue, u) => Says(queue', u)
      BY <1>9, <2>1, WriterTakes
    <2> QED
      BY <2>1, <2>2 DEF StreamInv, OwedInv, Owed, Gone, Voices, BeingSpoken
  <1>10. ASSUME NEW verify \in BOOLEAN, Announce(verify) PROVE OwedInv'
    <2>1. /\ speaking' = Head(queue).upto /\ UNCHANGED voiced /\ writer = "idle"
          /\ writer' \in {"shared", "synth"}
      BY <1>10 DEF Announce
    <2>2. ToSay' = ToSay /\ \A u : Says(queue, u) => Says(queue', u) \/ Head(queue).upto = u
      BY <1>10, WriterTakes
    <2>3. BeingSpoken = {} /\ BeingSpoken' = {Head(queue).upto} /\ Voices' = Voices /\ ~ Gone
      BY <2>1 DEF BeingSpoken, Voices, Gone
    <2> QED
      BY <2>2, <2>3 DEF StreamInv, OwedInv, Owed
  <1>11. ASSUME StreamShared PROVE OwedInv'
    <2>1. /\ writer = "shared" /\ writer' \in {"shared", "idle", "synth"}
          /\ voiced' = IF writer' = "idle" THEN Append(voiced, speaking) ELSE voiced
          /\ UNCHANGED speaking /\ WriterTypes
      BY <1>11 DEF StreamShared, StreamInv, TypesOK
    <2>2. ToSay' = ToSay /\ \A u : Says(queue, u) => Says(queue', u)
      BY <1>11, WriterDrains
    <2>3. Voices' \cup BeingSpoken' = Voices \cup BeingSpoken
      <3>1. CASE writer' = "idle"
        <4>1. Voices' = Voices \cup {speaking}
          BY <2>1, <3>1, SpeakingIs, VoicedOne
        <4> QED
          BY <2>1, <3>1, <4>1 DEF BeingSpoken
      <3>2. CASE writer' # "idle"
        BY <2>1, <3>2 DEF Voices, BeingSpoken
      <3> QED
        BY <3>1, <3>2
    <2>4. ~ Gone
      BY <2>1 DEF Gone
    <2> QED
      BY <2>2, <2>3, <2>4 DEF StreamInv, OwedInv, Owed
  <1>12. ASSUME LlmFinishes PROVE OwedInv'
    <2>1. Head(queue).kind = "llm_done" /\ UNCHANGED <<speaking, voiced, writer, out>>
      BY <1>12 DEF LlmFinishes, lineVars, LlmDone
    <2>2. ToSay' = ToSay /\ \A u : Says(queue, u) => Says(queue', u)
      BY <1>12, <2>1, WriterTakes
    <2> QED
      BY <2>1, <2>2 DEF StreamInv, OwedInv, Owed, Gone, Voices, BeingSpoken
  <1>13. ASSUME Finish PROVE OwedInv'
    <2>1. UNCHANGED <<queue, speaking, voiced>> /\ writer = "idle" /\ writer' = "join"
      BY <1>13 DEF Finish, lineVars
    <2>2. ToSay' = ToSay
      BY <1>13, SameBuffer DEF Finish, bufferVars
    <2> QED
      BY <2>1, <2>2 DEF StreamInv, OwedInv, Owed, Gone, Voices, BeingSpoken
  <1>14. ASSUME Unwind PROVE OwedInv'
    <2>1. UNCHANGED out /\ writer' = "join" /\ ~ Gone
      BY <1>14 DEF Unwind, Writing, Gone
    <2>2. out' = {} /\ Gone'
      BY <2>1 DEF StreamInv, EndInv, Gone
    <2> QED
      BY <2>2 DEF OwedInv
  <1>15. ASSUME Join PROVE OwedInv'
    <2>1. UNCHANGED <<queue, speaking, voiced, out>> /\ writer = "join" /\ writer' = "over"
      BY <1>15 DEF Join, lineVars
    <2>2. ToSay' = ToSay
      BY <1>15, SameBuffer DEF Join, bufferVars
    <2> QED
      BY <2>1, <2>2 DEF StreamInv, OwedInv, Owed, Gone, Voices, BeingSpoken
  <1>16. ASSUME NEW clears \in BOOLEAN, Chunk(clears) PROVE OwedInv'
    <2>1. UNCHANGED <<speaking, voiced, writer, out>>
      BY <1>16 DEF Chunk
    <2>2. ToSay' = ToSay /\ \A u : Says(queue, u) => Says(queue', u)
      BY <1>16, WriterDrains
    <2> QED
      BY <2>1, <2>2 DEF StreamInv, OwedInv, Owed, Gone, Voices, BeingSpoken
  <1>17. ASSUME NEW like \in Likeness, Voiced(like) PROVE OwedInv'
    <2>1. /\ writer = "synth" /\ writer' = "idle"
          /\ voiced' = Append(voiced, speaking) /\ UNCHANGED speaking /\ WriterTypes
      BY <1>17 DEF Voiced, StreamInv, TypesOK
    <2>2. ToSay' = ToSay /\ \A u : Says(queue, u) => Says(queue', u)
      BY <1>17, WriterDrains
    <2>3. Voices' \cup BeingSpoken' = Voices \cup BeingSpoken
      <3>1. Voices' = Voices \cup {speaking}
        BY <2>1, SpeakingIs, VoicedOne
      <3> QED
        BY <2>1, <3>1 DEF BeingSpoken
    <2>4. ~ Gone
      BY <2>1 DEF Gone
    <2> QED
      BY <2>2, <2>3, <2>4 DEF StreamInv, OwedInv, Owed
  <1>18. ASSUME CheckAbort \/ FlushNothing \/ ClientLeaves \/ UNCHANGED vars
        PROVE  UNCHANGED <<queue, speaking, voiced, writer, out, attached, text, sentences,
                              rest, truncated, llm, taken>>
    BY <1>18 DEF CheckAbort, FlushNothing, ClientLeaves, bufferVars, specVars, lineVars,
       writerVars, vars
  <1>19. ASSUME NEW how \in {"clean", "died", "error"}, StreamReturns(how)
        PROVE  UNCHANGED <<queue, speaking, voiced, writer, out, attached, text, sentences,
                              rest, truncated, llm, taken>>
    BY <1>19 DEF StreamReturns, specVars, writerVars, lineVars
  <1>20. ASSUME NEW like \in Likeness, Retry(like)
        PROVE  UNCHANGED <<queue, speaking, voiced, writer, out, attached, text, sentences,
                              rest, truncated, llm, taken>>
    BY <1>20 DEF Retry, bufferVars, specVars
  <1>21. ASSUME NEW t \in Triggers, Claim(t) \/ FirstChunk(t)
        PROVE  UNCHANGED <<queue, speaking, voiced, writer, out, attached, text, sentences,
                              rest, truncated, llm, taken>>
    BY <1>21 DEF Claim, FirstChunk, bufferVars, writerVars, lineVars
  <1>22. ASSUME NEW t \in Triggers, NEW good \in BOOLEAN, FirstEnds(t, good)
        PROVE  UNCHANGED <<queue, speaking, voiced, writer, out, attached, text, sentences,
                              rest, truncated, llm, taken>>
    BY <1>22 DEF FirstEnds, bufferVars, writerVars, lineVars
  <1> QED
    BY <1>1, <1>2, <1>3, <1>4, <1>5, <1>6, <1>7, <1>8, <1>9, <1>10, <1>11, <1>12, <1>13,
       <1>14, <1>15, <1>16, <1>17, <1>18, <1>19, <1>20, <1>21, <1>22 DEF Next, Reader, Replay,
       Writer, Synthesis, SynthesizeFirst

\* Sentences are voiced in order, and only sentences that were cut.
LEMMA VoicedInvKept ==
    ASSUME StreamInv, [Next]_vars
    PROVE  VoicedInv'
  <1> USE ChatStreamAssumption
  <1>1. ASSUME UNCHANGED <<speaking, voiced, writer, attached, text, sentences, rest,
                        truncated, llm, taken>> PROVE VoicedInv'
    BY <1>1, SameBuffer DEF StreamInv, VoicedInv
  <1>2. ASSUME NEW cut \in Cuts(text + 1), Delta(cut) PROVE VoicedInv'
    BY <1>2, WhoPushes, PushKeeps
  <1>3. ASSUME NEW cut \in Cuts(text + 1), Flush(cut) PROVE VoicedInv'
    BY <1>3, WhoPushes, PushKeeps
  <1>4. ASSUME NEW tail \in {c \in Cuts(text) : text > 0 \/ c = <<>>},
               NEW cutOff \in BOOLEAN, Publish(tail, cutOff)
        PROVE  VoicedInv'
    BY <1>4, WhoPushes, PushKeeps
  <1>5. ASSUME ReplayLoop PROVE VoicedInv'
    BY <1>5, WhoPushes, PushKeeps
  <1>6. ASSUME ReplayCopy PROVE VoicedInv'
    BY <1>6, WhoPushes, PushKeeps
  <1>7. ASSUME WriteStart PROVE VoicedInv'
    <2>1. UNCHANGED <<speaking, voiced>> /\ writer' \notin {"shared", "synth"}
      BY <1>7 DEF WriteStart, lineVars
    <2>2. ToSay' = ToSay
      BY <1>7, SameBuffer DEF WriteStart, bufferVars
    <2> QED
      BY <2>1, <2>2 DEF StreamInv, VoicedInv
  <1>8. ASSUME NEW verify \in BOOLEAN, Announce(verify) PROVE VoicedInv'
    <2>1. /\ speaking' = Head(queue).upto /\ UNCHANGED voiced
          /\ Head(queue).kind = "sentence" /\ ~ Head(queue).mute
      BY <1>8 DEF Announce
    <2>2. ToSay' = ToSay /\ Head(queue).upto \in ToSay /\ speaking < Head(queue).upto
      BY <1>8, <2>1, WriterTakes
    <2>3. /\ \A i \in 1 .. Len(voiced) : voiced[i] \in ToSay /\ voiced[i] <= speaking
          /\ \A i, j \in 1 .. Len(voiced) : i < j => voiced[i] < voiced[j]
          /\ speaking \in Nat /\ Head(queue).upto \in Nat
      BY <2>2, ChatStreamAssumption DEF StreamInv, VoicedInv, TypesOK, WriterTypes, ToSay
    <2>4. \A i \in 1 .. Len(voiced) : voiced[i] \in Nat
      BY <2>3, ChatStreamAssumption DEF ToSay
    <2>5. \A i \in 1 .. Len(voiced) : voiced[i] < Head(queue).upto
      BY <2>2, <2>3, <2>4
    <2>6. \A i \in 1 .. Len(voiced) : voiced[i] <= Head(queue).upto
      BY <2>3, <2>4, <2>5
    <2> QED
      BY <2>1, <2>2, <2>3, <2>5, <2>6 DEF VoicedInv
  <1>9. ASSUME StreamShared PROVE VoicedInv'
    <2>1. /\ writer = "shared" /\ writer' \in {"shared", "idle", "synth"}
          /\ voiced' = IF writer' = "idle" THEN Append(voiced, speaking) ELSE voiced
          /\ UNCHANGED speaking
      BY <1>9 DEF StreamShared
    <2>2. ToSay' = ToSay
      BY <1>9, WriterDrains
    <2>3. CASE writer' = "idle"
      BY <2>1, <2>2, <2>3, VoicedInOrder
    <2>4. CASE writer' # "idle"
      BY <2>1, <2>2, <2>4 DEF StreamInv, VoicedInv
    <2> QED
      BY <2>3, <2>4
  <1>10. ASSUME Finish PROVE VoicedInv'
    <2>1. UNCHANGED <<speaking, voiced>> /\ writer' \notin {"shared", "synth"}
      BY <1>10 DEF Finish, lineVars
    <2>2. ToSay' = ToSay
      BY <1>10, SameBuffer DEF Finish, bufferVars
    <2> QED
      BY <2>1, <2>2 DEF StreamInv, VoicedInv
  <1>11. ASSUME Unwind PROVE VoicedInv'
    <2>1. UNCHANGED <<speaking, voiced>> /\ writer' \notin {"shared", "synth"}
      BY <1>11 DEF Unwind, lineVars
    <2>2. ToSay' = ToSay
      BY <1>11, SameBuffer DEF Unwind, bufferVars
    <2> QED
      BY <2>1, <2>2 DEF StreamInv, VoicedInv
  <1>12. ASSUME Join PROVE VoicedInv'
    <2>1. UNCHANGED <<speaking, voiced>> /\ writer' \notin {"shared", "synth"}
      BY <1>12 DEF Join, lineVars
    <2>2. ToSay' = ToSay
      BY <1>12, SameBuffer DEF Join, bufferVars
    <2> QED
      BY <2>1, <2>2 DEF StreamInv, VoicedInv
  <1>13. ASSUME NEW like \in Likeness, Voiced(like) PROVE VoicedInv'
    <2>1. /\ writer = "synth" /\ writer' = "idle"
          /\ voiced' = Append(voiced, speaking) /\ UNCHANGED speaking
      BY <1>13 DEF Voiced
    <2>2. ToSay' = ToSay
      BY <1>13, WriterDrains
    <2> QED
      BY <2>1, <2>2, VoicedInOrder
  <1>14. ASSUME CheckAbort \/ FlushNothing \/ WriteToken \/ SkipMute \/ LlmFinishes
              \/ ClientLeaves \/ UNCHANGED vars
        PROVE  UNCHANGED <<speaking, voiced, writer, attached, text, sentences, rest,
                              truncated, llm, taken>>
    BY <1>14 DEF CheckAbort, FlushNothing, WriteToken, SkipMute, LlmFinishes, ClientLeaves,
       bufferVars, specVars, lineVars, writerVars, vars
  <1>15. ASSUME NEW how \in {"clean", "died", "error"}, StreamReturns(how)
        PROVE  UNCHANGED <<speaking, voiced, writer, attached, text, sentences, rest,
                              truncated, llm, taken>>
    BY <1>15 DEF StreamReturns, specVars, writerVars, lineVars
  <1>16. ASSUME NEW clears \in BOOLEAN, Chunk(clears)
        PROVE  UNCHANGED <<speaking, voiced, writer, attached, text, sentences, rest,
                              truncated, llm, taken>>
    BY <1>16 DEF Chunk, bufferVars, specVars
  <1>17. ASSUME NEW like \in Likeness, Retry(like)
        PROVE  UNCHANGED <<speaking, voiced, writer, attached, text, sentences, rest,
                              truncated, llm, taken>>
    BY <1>17 DEF Retry, bufferVars, specVars
  <1>18. ASSUME NEW t \in Triggers, Claim(t) \/ FirstChunk(t)
        PROVE  UNCHANGED <<speaking, voiced, writer, attached, text, sentences, rest,
                              truncated, llm, taken>>
    BY <1>18 DEF Claim, FirstChunk, bufferVars, writerVars, lineVars
  <1>19. ASSUME NEW t \in Triggers, NEW good \in BOOLEAN, FirstEnds(t, good)
        PROVE  UNCHANGED <<speaking, voiced, writer, attached, text, sentences, rest,
                              truncated, llm, taken>>
    BY <1>19 DEF FirstEnds, bufferVars, writerVars, lineVars
  <1> QED
    BY <1>1, <1>2, <1>3, <1>4, <1>5, <1>6, <1>7, <1>8, <1>9, <1>10, <1>11, <1>12, <1>13,
       <1>14, <1>15, <1>16, <1>17, <1>18, <1>19 DEF Next, Reader, Replay, Writer, Synthesis,
       SynthesizeFirst

\* The end is the last event, and nothing is missing before it.
LEMMA EndInvKept ==
    ASSUME StreamInv, [Next]_vars
    PROVE  EndInv'
  <1> USE ChatStreamAssumption
  <1>1. ASSUME UNCHANGED <<queue, llm_finished, out, abort, writer, llm, reader, attached,
                        taken, text, sentences>> PROVE EndInv'
    BY <1>1 DEF StreamInv, EndInv, Gone, Complete
  <1>2. ASSUME NEW cut \in Cuts(text + 1), Delta(cut) PROVE EndInv'
    BY <1>2, WhoPushes, PushKeeps
  <1>3. ASSUME NEW cut \in Cuts(text + 1), Flush(cut) PROVE EndInv'
    BY <1>3, WhoPushes, PushKeeps
  <1>4. ASSUME CheckAbort PROVE EndInv'
    <2>1. /\ reader # "over" /\ reader' # "over"
          /\ UNCHANGED <<queue, llm_finished, out, abort, writer, llm>>
      BY <1>4 DEF CheckAbort, writerVars
    <2>2. ~ Complete /\ ~ Complete'
      BY <2>1 DEF Complete
    <2> QED
      BY <2>1, <2>2 DEF StreamInv, EndInv, Gone
  <1>5. ASSUME NEW how \in {"clean", "died", "error"}, StreamReturns(how) PROVE EndInv'
    <2>1. /\ reader # "over" /\ reader' # "over"
          /\ UNCHANGED <<queue, llm_finished, out, abort, writer, llm>>
      BY <1>5 DEF StreamReturns, writerVars
    <2>2. ~ Complete /\ ~ Complete'
      BY <2>1 DEF Complete
    <2> QED
      BY <2>1, <2>2 DEF StreamInv, EndInv, Gone
  <1>6. ASSUME FlushNothing PROVE EndInv'
    <2>1. /\ reader # "over" /\ reader' # "over"
          /\ UNCHANGED <<queue, llm_finished, out, abort, writer, llm>>
      BY <1>6 DEF FlushNothing, writerVars
    <2>2. ~ Complete /\ ~ Complete'
      BY <2>1 DEF Complete
    <2> QED
      BY <2>1, <2>2 DEF StreamInv, EndInv, Gone
  <1>7. ASSUME NEW tail \in {c \in Cuts(text) : text > 0 \/ c = <<>>},
               NEW cutOff \in BOOLEAN, Publish(tail, cutOff)
        PROVE  EndInv'
    BY <1>7, WhoPushes, PushKeeps
  <1>8. ASSUME ReplayLoop PROVE EndInv'
    BY <1>8, WhoPushes, PushKeeps
  <1>9. ASSUME ReplayCopy PROVE EndInv'
    BY <1>9, WhoPushes, PushKeeps
  <1>10. ASSUME WriteStart PROVE EndInv'
    <2>1. ~ Gone /\ UNCHANGED <<queue, llm_finished, llm>> /\ UNCHANGED <<out, abort>>
      BY <1>10 DEF WriteStart, Gone, Writing
    <2>2. Complete' = Complete
      BY <1>10 DEF WriteStart, bufferVars, Complete
    <2> QED
      BY <2>1, <2>2 DEF StreamInv, EndInv
  <1>11. ASSUME WriteToken PROVE EndInv'
    <2>1. ~ Gone /\ EndInv
      BY <1>11 DEF WriteToken, Gone, StreamInv
    <2>2. /\ EndsLast(queue') /\ Complete' = Complete
          /\ (\E i \in 1 .. Len(queue') : queue'[i].kind = "llm_done") => Complete
          /\ queue = <<>> => queue' = <<>>
          /\ UNCHANGED <<abort, out, llm_finished, llm>>
      BY <1>11, WriterDrains
    <2> QED
      BY <2>1, <2>2 DEF EndInv
  <1>12. ASSUME SkipMute PROVE EndInv'
    <2>1. ~ Gone /\ EndInv /\ UNCHANGED llm_finished
      BY <1>12 DEF SkipMute, Gone, StreamInv, writerVars, LlmDone
    <2>2. /\ EndsLast(queue') /\ Complete' = Complete /\ ~ llm_finished
          /\ (\E i \in 1 .. Len(queue') : queue'[i].kind = "llm_done") => Complete
          /\ UNCHANGED <<abort, out, llm>>
          /\ Head(queue).kind = "llm_done" => queue' = <<>> /\ Complete
      BY <1>12, WriterTakes
    <2> QED
      BY <2>1, <2>2 DEF EndInv
  <1>13. ASSUME NEW verify \in BOOLEAN, Announce(verify) PROVE EndInv'
    <2>1. ~ Gone /\ EndInv /\ UNCHANGED llm_finished
      BY <1>13 DEF Announce, Gone, StreamInv, writerVars, LlmDone
    <2>2. /\ EndsLast(queue') /\ Complete' = Complete /\ ~ llm_finished
          /\ (\E i \in 1 .. Len(queue') : queue'[i].kind = "llm_done") => Complete
          /\ UNCHANGED <<abort, out, llm>>
          /\ Head(queue).kind = "llm_done" => queue' = <<>> /\ Complete
      BY <1>13, WriterTakes
    <2> QED
      BY <2>1, <2>2 DEF EndInv
  <1>14. ASSUME StreamShared PROVE EndInv'
    <2>1. ~ Gone /\ EndInv
      BY <1>14 DEF StreamShared, Gone, StreamInv
    <2>2. /\ EndsLast(queue') /\ Complete' = Complete
          /\ (\E i \in 1 .. Len(queue') : queue'[i].kind = "llm_done") => Complete
          /\ queue = <<>> => queue' = <<>>
          /\ UNCHANGED <<abort, out, llm_finished, llm>>
      BY <1>14, WriterDrains
    <2> QED
      BY <2>1, <2>2 DEF EndInv
  <1>15. ASSUME LlmFinishes PROVE EndInv'
    <2>1. ~ Gone /\ EndInv /\ Head(queue).kind = "llm_done"
      BY <1>15 DEF LlmFinishes, Gone, StreamInv, writerVars, LlmDone
    <2>2. /\ EndsLast(queue') /\ Complete' = Complete /\ ~ llm_finished
          /\ (\E i \in 1 .. Len(queue') : queue'[i].kind = "llm_done") => Complete
          /\ UNCHANGED <<abort, out, llm>>
          /\ Head(queue).kind = "llm_done" => queue' = <<>> /\ Complete
      BY <1>15, WriterTakes
    <2> QED
      BY <2>1, <2>2 DEF EndInv
  <1>16. ASSUME Finish PROVE EndInv'
    <2>1. ~ Gone /\ UNCHANGED <<queue, llm_finished, llm>> /\ Gone' /\ llm_finished
      BY <1>16 DEF Finish, Gone, Writing
    <2>2. Complete' = Complete
      BY <1>16 DEF Finish, bufferVars, Complete
    <2> QED
      BY <2>1, <2>2 DEF StreamInv, EndInv
  <1>17. ASSUME Unwind PROVE EndInv'
    <2>1. ~ Gone /\ UNCHANGED <<queue, llm_finished, llm>> /\ Gone' /\ UNCHANGED out
      BY <1>17 DEF Unwind, Gone, Writing
    <2>2. Complete' = Complete
      BY <1>17 DEF Unwind, bufferVars, Complete
    <2> QED
      BY <2>1, <2>2 DEF StreamInv, EndInv
  <1>18. ASSUME Join PROVE EndInv'
    <2>1. Gone /\ Gone' /\ UNCHANGED <<queue, llm_finished, llm, out, abort>>
      BY <1>18 DEF Join, Gone
    <2>2. Complete' = Complete
      BY <1>18 DEF Join, bufferVars, Complete
    <2> QED
      BY <2>1, <2>2 DEF StreamInv, EndInv
  <1>19. ASSUME NEW clears \in BOOLEAN, Chunk(clears) PROVE EndInv'
    <2>1. ~ Gone /\ EndInv
      BY <1>19 DEF Chunk, Gone, StreamInv
    <2>2. /\ EndsLast(queue') /\ Complete' = Complete
          /\ (\E i \in 1 .. Len(queue') : queue'[i].kind = "llm_done") => Complete
          /\ queue = <<>> => queue' = <<>>
          /\ UNCHANGED <<abort, out, llm_finished, llm>>
      BY <1>19, WriterDrains
    <2> QED
      BY <2>1, <2>2 DEF EndInv
  <1>20. ASSUME NEW like \in Likeness, Voiced(like) PROVE EndInv'
    <2>1. ~ Gone /\ EndInv
      BY <1>20 DEF Voiced, Gone, StreamInv
    <2>2. /\ EndsLast(queue') /\ Complete' = Complete
          /\ (\E i \in 1 .. Len(queue') : queue'[i].kind = "llm_done") => Complete
          /\ queue = <<>> => queue' = <<>>
          /\ UNCHANGED <<abort, out, llm_finished, llm>>
      BY <1>20, WriterDrains
    <2> QED
      BY <2>1, <2>2 DEF EndInv
  <1>21. ASSUME ClientLeaves \/ UNCHANGED vars
        PROVE  UNCHANGED <<queue, llm_finished, out, abort, writer, llm, reader, attached,
                              taken, text, sentences>>
    BY <1>21 DEF ClientLeaves, bufferVars, specVars, lineVars, writerVars, vars
  <1>22. ASSUME NEW like \in Likeness, Retry(like)
        PROVE  UNCHANGED <<queue, llm_finished, out, abort, writer, llm, reader, attached,
                              taken, text, sentences>>
    BY <1>22 DEF Retry, bufferVars, specVars
  <1>23. ASSUME NEW t \in Triggers, Claim(t) \/ FirstChunk(t)
        PROVE  UNCHANGED <<queue, llm_finished, out, abort, writer, llm, reader, attached,
                              taken, text, sentences>>
    BY <1>23 DEF Claim, FirstChunk, bufferVars, writerVars, lineVars
  <1>24. ASSUME NEW t \in Triggers, NEW good \in BOOLEAN, FirstEnds(t, good)
        PROVE  UNCHANGED <<queue, llm_finished, out, abort, writer, llm, reader, attached,
                              taken, text, sentences>>
    BY <1>24 DEF FirstEnds, bufferVars, writerVars, lineVars
  <1> QED
    BY <1>1, <1>2, <1>3, <1>4, <1>5, <1>6, <1>7, <1>8, <1>9, <1>10, <1>11, <1>12, <1>13,
       <1>14, <1>15, <1>16, <1>17, <1>18, <1>19, <1>20, <1>21, <1>22, <1>23, <1>24 DEF Next,
       Reader, Replay, Writer, Synthesis, SynthesizeFirst

\* No sentence is announced before its text.
LEMMA AfterTextKept ==
    ASSUME StreamInv, [Next]_vars
    PROVE  SentenceAfterItsText'
  <1> USE ChatStreamAssumption
  <1>1. ASSUME UNCHANGED <<speaking, reply_text>> PROVE SentenceAfterItsText'
    BY <1>1 DEF StreamInv, SentenceAfterItsText
  <1>2. ASSUME WriteToken PROVE SentenceAfterItsText'
    <2>1. reply_text <= reply_text' /\ reply_text' \in 0 .. MaxText /\ UNCHANGED speaking
      BY <1>2, WriterDrains
    <2> QED
      BY <2>1 DEF StreamInv, TypesOK, WriterTypes, SentenceAfterItsText
  <1>3. ASSUME NEW verify \in BOOLEAN, Announce(verify) PROVE SentenceAfterItsText'
    BY <1>3, WriterTakes DEF Announce, SentenceAfterItsText
  <1>4. ASSUME StreamShared PROVE SentenceAfterItsText'
    <2>1. reply_text <= reply_text' /\ reply_text' \in 0 .. MaxText /\ UNCHANGED speaking
      BY <1>4, WriterDrains
    <2> QED
      BY <2>1 DEF StreamInv, TypesOK, WriterTypes, SentenceAfterItsText
  <1>5. ASSUME NEW clears \in BOOLEAN, Chunk(clears) PROVE SentenceAfterItsText'
    <2>1. reply_text <= reply_text' /\ reply_text' \in 0 .. MaxText /\ UNCHANGED speaking
      BY <1>5, WriterDrains
    <2> QED
      BY <2>1 DEF StreamInv, TypesOK, WriterTypes, SentenceAfterItsText
  <1>6. ASSUME NEW like \in Likeness, Voiced(like) PROVE SentenceAfterItsText'
    <2>1. reply_text <= reply_text' /\ reply_text' \in 0 .. MaxText /\ UNCHANGED speaking
      BY <1>6, WriterDrains
    <2> QED
      BY <2>1 DEF StreamInv, TypesOK, WriterTypes, SentenceAfterItsText
  <1>7. ASSUME NEW cut \in Cuts(text + 1), Delta(cut) \/ Flush(cut)
        PROVE  UNCHANGED <<speaking, reply_text>>
    BY <1>7 DEF Delta, Flush, writerVars, lineVars, Emit
  <1>8. ASSUME CheckAbort \/ FlushNothing \/ ReplayLoop \/ ReplayCopy \/ WriteStart
              \/ SkipMute \/ LlmFinishes \/ Finish \/ Unwind \/ Join \/ ClientLeaves
              \/ UNCHANGED vars
        PROVE  UNCHANGED <<speaking, reply_text>>
    BY <1>8 DEF CheckAbort, FlushNothing, ReplayLoop, ReplayCopy, WriteStart, SkipMute,
       LlmFinishes, Finish, Unwind, Join, ClientLeaves, bufferVars, specVars, lineVars,
       writerVars, vars
  <1>9. ASSUME NEW how \in {"clean", "died", "error"}, StreamReturns(how)
        PROVE  UNCHANGED <<speaking, reply_text>>
    BY <1>9 DEF StreamReturns, specVars, writerVars, lineVars
  <1>10. ASSUME NEW tail \in {c \in Cuts(text) : text > 0 \/ c = <<>>},
               NEW cutOff \in BOOLEAN, Publish(tail, cutOff)
        PROVE  UNCHANGED <<speaking, reply_text>>
    BY <1>10 DEF Publish, writerVars, lineVars
  <1>11. ASSUME NEW like \in Likeness, Retry(like)
        PROVE  UNCHANGED <<speaking, reply_text>>
    BY <1>11 DEF Retry, bufferVars, specVars
  <1>12. ASSUME NEW t \in Triggers, Claim(t) \/ FirstChunk(t)
        PROVE  UNCHANGED <<speaking, reply_text>>
    BY <1>12 DEF Claim, FirstChunk, bufferVars, writerVars, lineVars
  <1>13. ASSUME NEW t \in Triggers, NEW good \in BOOLEAN, FirstEnds(t, good)
        PROVE  UNCHANGED <<speaking, reply_text>>
    BY <1>13 DEF FirstEnds, bufferVars, writerVars, lineVars
  <1> QED
    BY <1>1, <1>2, <1>3, <1>4, <1>5, <1>6, <1>7, <1>8, <1>9, <1>10, <1>11, <1>12,
       <1>13 DEF Next, Reader, Replay, Writer, Synthesis, SynthesizeFirst

\* A reply is re-primed whole and after its end.
LEMMA RePrimeKept ==
    ASSUME StreamInv, [Next]_vars
    PROVE  RePrimeIsWholeReply'
  <1> USE ChatStreamAssumption
  <1>1. ASSUME UNCHANGED <<reprimed, text, reader, ended>> PROVE RePrimeIsWholeReply'
    BY <1>1 DEF StreamInv, RePrimeIsWholeReply, ok
  <1>2. ASSUME NEW cut \in Cuts(text + 1), Delta(cut) PROVE RePrimeIsWholeReply'
    BY <1>2 DEF Delta, writerVars, lineVars, StreamInv, RePrimeIsWholeReply, ok
  <1>3. ASSUME NEW cut \in Cuts(text + 1), Flush(cut) PROVE RePrimeIsWholeReply'
    BY <1>3 DEF Flush, writerVars, lineVars, StreamInv, RePrimeIsWholeReply, ok
  <1>4. ASSUME CheckAbort PROVE RePrimeIsWholeReply'
    BY <1>4 DEF CheckAbort, specVars, writerVars, lineVars, StreamInv, RePrimeIsWholeReply, ok
  <1>5. ASSUME NEW how \in {"clean", "died", "error"}, StreamReturns(how)
        PROVE  RePrimeIsWholeReply'
    BY <1>5 DEF StreamReturns, specVars, writerVars, lineVars, StreamInv, RePrimeIsWholeReply,
       ok
  <1>6. ASSUME FlushNothing PROVE RePrimeIsWholeReply'
    BY <1>6 DEF FlushNothing, bufferVars, specVars, writerVars, lineVars, StreamInv,
       RePrimeIsWholeReply, ok
  <1>7. ASSUME NEW tail \in {c \in Cuts(text) : text > 0 \/ c = <<>>},
               NEW cutOff \in BOOLEAN, Publish(tail, cutOff)
        PROVE  RePrimeIsWholeReply'
    BY <1>7 DEF Publish, writerVars, lineVars, StreamInv, RePrimeIsWholeReply, ok
  <1>8. ASSUME LlmFinishes PROVE RePrimeIsWholeReply'
    <2>1. /\ Head(queue).kind = "llm_done" /\ UNCHANGED <<text, reader, ended>>
          /\ reprimed' = IF ok /\ reply_text > 0 THEN reply_text ELSE reprimed
      BY <1>8 DEF LlmFinishes, LlmDone, bufferVars
    <2>2. Complete /\ reply_text = PushedText
      BY <1>8, <2>1, WriterTakes
    <2>3. reply_text = text /\ reader = "over"
      BY <2>2 DEF Complete, PushedText
    <2> QED
      BY <2>1, <2>3 DEF StreamInv, RePrimeIsWholeReply, ok
  <1>9. ASSUME ReplayLoop \/ ReplayCopy \/ WriteStart \/ WriteToken \/ SkipMute
              \/ StreamShared \/ Finish \/ Unwind \/ Join \/ ClientLeaves \/ UNCHANGED vars
        PROVE  UNCHANGED <<reprimed, text, reader, ended>>
    BY <1>9 DEF ReplayLoop, ReplayCopy, WriteStart, WriteToken, SkipMute, StreamShared,
       Finish, Unwind, Join, ClientLeaves, bufferVars, specVars, lineVars, writerVars, vars
  <1>10. ASSUME NEW verify \in BOOLEAN, Announce(verify)
        PROVE  UNCHANGED <<reprimed, text, reader, ended>>
    BY <1>10 DEF Announce, bufferVars
  <1>11. ASSUME NEW clears \in BOOLEAN, Chunk(clears)
        PROVE  UNCHANGED <<reprimed, text, reader, ended>>
    BY <1>11 DEF Chunk, bufferVars, specVars
  <1>12. ASSUME NEW like \in Likeness, Retry(like) \/ Voiced(like)
        PROVE  UNCHANGED <<reprimed, text, reader, ended>>
    BY <1>12 DEF Retry, Voiced, bufferVars, specVars
  <1>13. ASSUME NEW t \in Triggers, Claim(t) \/ FirstChunk(t)
        PROVE  UNCHANGED <<reprimed, text, reader, ended>>
    BY <1>13 DEF Claim, FirstChunk, bufferVars, writerVars, lineVars
  <1>14. ASSUME NEW t \in Triggers, NEW good \in BOOLEAN, FirstEnds(t, good)
        PROVE  UNCHANGED <<reprimed, text, reader, ended>>
    BY <1>14 DEF FirstEnds, bufferVars, writerVars, lineVars
  <1> QED
    BY <1>1, <1>2, <1>3, <1>4, <1>5, <1>6, <1>7, <1>8, <1>9, <1>10, <1>11, <1>12, <1>13,
       <1>14 DEF Next, Reader, Replay, Writer, Synthesis, SynthesizeFirst

----------------------------------------------------------------------------
\* The parts of the type invariant are the type invariant.
LEMMA TypesAreTypes == TypesOK => StreamTypeOK
  <1> SUFFICES ASSUME TypesOK PROVE StreamTypeOK
    OBVIOUS
  <1>1. ControlTypes /\ BufferTypes /\ QueueTypes /\ WriterTypes /\ SynthTypes /\ LineTypes
    BY DEF TypesOK
  <1> QED
    BY <1>1 DEF StreamTypeOK, ControlTypes, BufferTypes, QueueTypes, WriterTypes, SynthTypes,
                LineTypes

\* What is to be said of a complete reply is what its speech says.
LEMMA ToSayIsSpeech ==
    ASSUME BufferTypes, Complete
    PROVE  ToSay = {Speech[i].upto : i \in {j \in DOMAIN Speech : ~ Speech[j].mute}}
  <1> DEFINE r == IF truncated THEN <<>> ELSE rest
             n == Len(sentences)
             m == Len(r)
             N == Len(Speech)
  <1>1. llm = "over" /\ PushedSentences = n
    BY DEF Complete, PushedSentences
  <1>2. sentences \in Seq(Sentence)
    BY DEF BufferTypes
  <1>3. r \in Seq(Sentence) /\ m \in 0 .. 1 /\ (r # <<>> => ~ truncated /\ r = rest)
    <2>1. CASE truncated \/ rest = <<>>
      <3>1. r = <<>>
        BY <2>1
      <3> HIDE DEF r
      <3> QED
        BY <3>1
    <2>2. ASSUME NEW s \in Sentence, rest = <<s>>, ~ truncated
          PROVE  r \in Seq(Sentence) /\ m \in 0 .. 1 /\ (r # <<>> => ~ truncated /\ r = rest)
      BY <2>2
    <2> QED
      BY <2>1, <2>2 DEF BufferTypes
  <1>4. ~ truncated => r = rest
    OBVIOUS
  <1>5. Speech = sentences \o r
    BY DEF Speech
  <1> HIDE DEF r
  <1>6. /\ Speech \in Seq(Sentence) /\ N = n + m /\ n \in Nat /\ m \in Nat
        /\ \A i \in 1 .. n : Speech[i] = sentences[i]
        /\ \A i \in 1 .. m : Speech[n + i] = r[i]
        /\ \A i \in 1 .. N : \/ i \in 1 .. n /\ Speech[i] = sentences[i]
                             \/ i - n \in 1 .. m /\ Speech[i] = r[i - n]
    BY <1>2, <1>3, <1>5, ConcatIs
  <1>7. DOMAIN Speech = 1 .. N
    BY <1>6
  <1>8. \A i \in 1 .. N : Speech[i].upto \in 1 .. MaxText
    BY <1>6, SentenceIs
  <1>9. \A i \in 1 .. m : i = 1 /\ r # <<>>
    BY <1>3, AtMostOne
  <1>10. r # <<>> => 1 \in 1 .. m
    BY <1>3
  <1> HIDE DEF n, m, N
  <1>11. ASSUME NEW u \in ToSay
         PROVE  \E i \in 1 .. N : ~ Speech[i].mute /\ Speech[i].upto = u
    <2>1. CASE \E i \in 1 .. n : sentences[i].upto = u /\ ~ sentences[i].mute
      <3>1. PICK i \in 1 .. n : sentences[i].upto = u /\ ~ sentences[i].mute
        BY <2>1
      <3>2. i \in 1 .. N /\ Speech[i] = sentences[i]
        BY <1>6
      <3> QED
        BY <3>1, <3>2
    <2>2. CASE ~ truncated /\ rest # <<>> /\ rest[1].upto = u /\ ~ rest[1].mute
      <3>1. r = rest /\ 1 \in 1 .. m
        BY <1>4, <1>10, <2>2
      <3>2. n + 1 \in 1 .. N /\ Speech[n + 1] = r[1]
        BY <1>6, <3>1
      <3> QED
        BY <2>2, <3>1, <3>2
    <2> QED
      BY <1>1, <2>1, <2>2 DEF ToSay
  <1>12. ASSUME NEW i \in 1 .. N, ~ Speech[i].mute PROVE Speech[i].upto \in ToSay
    <2>1. Speech[i].upto \in 1 .. MaxText
      BY <1>8
    <2>2. CASE i \in 1 .. n /\ Speech[i] = sentences[i]
      BY <1>1, <1>12, <2>1, <2>2 DEF ToSay
    <2>3. CASE i - n \in 1 .. m /\ Speech[i] = r[i - n]
      <3>1. i - n = 1 /\ r # <<>>
        BY <1>9, <2>3
      <3>2. ~ truncated /\ r = rest /\ Speech[i] = rest[1]
        BY <1>3, <2>3, <3>1
      <3> QED
        BY <1>1, <1>12, <2>1, <3>1, <3>2 DEF ToSay
    <2> QED
      BY <1>6, <2>2, <2>3
  <1> QED
    BY <1>7, <1>11, <1>12

\* The invariant gives the properties.
LEMMA InvImplies ==
    StreamInv => StreamTypeOK /\ DeliveredWhole /\ NoRivalSynthesis
  <1> SUFFICES ASSUME StreamInv PROVE StreamTypeOK /\ DeliveredWhole /\ NoRivalSynthesis
    OBVIOUS
  <1>1. StreamTypeOK
    BY TypesAreTypes DEF StreamInv
  <1>2. NoRivalSynthesis
    BY DEF StreamInv, SynthInv, NoRivalSynthesis, Triggers
  <1>3. ASSUME "done" \in out
        PROVE  /\ reply_text = text
               /\ Range(voiced) = {Speech[i].upto : i \in {j \in DOMAIN Speech : ~ Speech[j].mute}}
               /\ \A i, j \in DOMAIN voiced : i < j => voiced[i] < voiced[j]
    <2>1. out # {} /\ queue = <<>> /\ Complete /\ Gone
      BY <1>3 DEF StreamInv, EndInv
    <2>2. reply_text = text
      <3>1. PushedText = text
        BY <2>1 DEF Complete, PushedText
      <3>2. \A i \in 1 .. Len(queue) : FALSE
        BY <2>1
      <3> QED
        BY <3>1, <3>2 DEF StreamInv, TextInv, TextQueue
    <2>3. voiced \in Seq(1 .. MaxText) /\ DOMAIN voiced = 1 .. Len(voiced)
      BY DEF StreamInv, TypesOK, WriterTypes
    <2>4. ToSay \subseteq Voices
      <3>1. BeingSpoken = {}
        BY <2>1 DEF Gone, BeingSpoken
      <3>2. \A u : ~ Says(queue, u)
        BY <2>1 DEF Says
      <3> QED
        BY <2>1, <3>1, <3>2 DEF StreamInv, OwedInv, Owed
    <2>5. Voices \subseteq ToSay
      BY DEF StreamInv, VoicedInv, Voices
    <2>6. Range(voiced) = Voices
      <3>1. \A i \in 1 .. Len(voiced) : voiced[i] \in 1 .. MaxText
        BY <2>3, ElementOfSeq
      <3> QED
        BY <2>3, <3>1 DEF Range, Voices
    <2>7. ToSay = {Speech[i].upto : i \in {j \in DOMAIN Speech : ~ Speech[j].mute}}
      BY <2>1, ToSayIsSpeech DEF StreamInv, TypesOK
    <2>8. \A i, j \in DOMAIN voiced : i < j => voiced[i] < voiced[j]
      BY <2>3 DEF StreamInv, VoicedInv
    <2> QED
      BY <2>2, <2>4, <2>5, <2>6, <2>7, <2>8
  <1> QED
    BY <1>1, <1>2, <1>3 DEF DeliveredWhole

\* The invariant holds initially.
LEMMA InitInv == Init => StreamInv
  <1> SUFFICES ASSUME Init PROVE StreamInv
    OBVIOUS
  <1> USE ChatStreamAssumption
  <1>0. /\ 0 \in 0 .. MaxText /\ 0 \in 0 .. MaxChunks /\ -1 \in -1 .. MaxText
        /\ <<>> \in Seq(Event) /\ <<>> \in Seq(Sentence) /\ <<>> \in Seq(1 .. MaxText)
        /\ Len(<<>>) = 0
    OBVIOUS
  <1>1. ControlTypes
    BY DEF Init, ControlTypes
  <1>2. BufferTypes /\ QueueTypes /\ WriterTypes /\ SynthTypes
    BY <1>0 DEF Init, BufferTypes, QueueTypes, WriterTypes, SynthTypes
  <1>3. LineTypes
    BY DEF Init, LineTypes, NoLine, Likeness
  <1>4. CutsInOrder /\ Replaying
    BY <1>0 DEF Init, CutsInOrder, Replaying
  <1>5. PushedText = 0 /\ PushedSentences = 0 /\ PushedSpeech = 0
    BY <1>0 DEF Init, PushedText, PushedSentences, PushedSpeech, Upto
  <1>6. ToSay = {}
    BY <1>5 DEF Init, ToSay
  <1>7. TextInv /\ SpeechInv
    BY <1>0, <1>5 DEF Init, TextInv, SpeechInv, TextQueue, SpeechQueue
  <1>8. OwedInv /\ VoicedInv
    BY <1>0, <1>6 DEF Init, OwedInv, Owed, VoicedInv
  <1>9. EndInv
    BY <1>0 DEF Init, EndInv, EndsLast
  <1>10. LineInv
    BY DEF Init, LineInv
  <1>11. SynthInv
    <2>1. \A t \in Triggers : tts[t] = "off"
      BY DEF Init
    <2>2. ~ attached => ~ early_tts
      BY DEF Init
    <2>3. first /\ writer = "start"
      BY DEF Init
    <2> QED
      BY <2>1, <2>2, <2>3 DEF SynthInv, Triggers
  <1>12. SentenceAfterItsText /\ RePrimeIsWholeReply /\ OneTakeHeard
    BY DEF Init, SentenceAfterItsText, RePrimeIsWholeReply, OneTakeHeard
  <1> QED
    BY <1>1, <1>2, <1>3, <1>4, <1>7, <1>8, <1>9, <1>10, <1>11, <1>12
       DEF StreamInv, TypesOK

\* The inductive invariant holds of every reply, without any fairness.
THEOREM StreamInvariant == Init /\ [][Next]_vars => []StreamInv
  <1>1. ASSUME StreamInv, [Next]_vars PROVE StreamInv'
    BY <1>1, ControlTypesKept, BufferTypesKept, QueueTypesKept, WriterTypesKept,
       SynthTypesKept,
       LineTypesKept, CutsInOrderKept, ReplayingKept, TextInvKept, SpeechInvKept, OwedInvKept,
       VoicedInvKept, EndInvKept, LineInvKept, SynthInvKept, AfterTextKept, RePrimeKept,
       OneTakeKept DEF StreamInv, TypesOK
  <1> QED
    BY <1>1, InitInv, PTL

\* The threads, the buffer, the queue and what was written stay well typed.
THEOREM StreamTypes == Spec => []StreamTypeOK
  BY StreamInvariant, InvImplies, PTL DEF Spec

\* A reply that ends with done was written whole, and each of its sentences
\* with something to say was voiced once and in order, however long it is.
THEOREM RepliesDelivered == Spec => []DeliveredWhole
  BY StreamInvariant, InvImplies, PTL DEF Spec

\* No sentence is announced before the text it was cut from was written.
THEOREM TranscriptLeads == Spec => []SentenceAfterItsText
  <1>1. StreamInv => SentenceAfterItsText
    BY DEF StreamInv
  <1> QED
    BY <1>1, StreamInvariant, PTL DEF Spec

\* The reply queued for re-priming is the whole reply of a stream that ended.
THEOREM RePrimesWhole == Spec => []RePrimeIsWholeReply
  <1>1. StreamInv => RePrimeIsWholeReply
    BY DEF StreamInv
  <1> QED
    BY <1>1, StreamInvariant, PTL DEF Spec

\* Of every sentence the writer voices the client hears one take.
THEOREM OneTakeIsHeard == Spec => []OneTakeHeard
  <1>1. StreamInv => OneTakeHeard
    BY DEF StreamInv
  <1> QED
    BY <1>1, StreamInvariant, PTL DEF Spec

\* The first sentence is never synthesized twice at a time, and the writer
\* never synthesizes beside the speculation.
THEOREM NoRivals == Spec => []NoRivalSynthesis
  BY StreamInvariant, InvImplies, PTL DEF Spec

=============================================================================
