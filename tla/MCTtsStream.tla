----------------------------- MODULE MCTtsStream -----------------------------
\* Two cloned voices and one that is not, two texts, two prefill graph slots for three lengths:
\* two prompts share a length, some have text left for the steps, and the step cache has to grow.
EXTENDS TtsStream, TLC

CONSTANTS v1, v2, v3, t1, t2

VoicesMC  == {v1, v2, v3}
TextsMC   == {t1, t2}
PromptsMC == {<<v1, t1>>, <<v1, t2>>, <<v2, t1>>, <<v3, t1>>}
RefTextMC   == [v \in VoicesMC |-> 1]
RefFramesMC == [v \in VoicesMC |-> IF v = v2 THEN 3 ELSE 1]
TextLenMC   == [t \in TextsMC |-> IF t = t1 THEN 1 ELSE 2]

=============================================================================
