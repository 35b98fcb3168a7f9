---------------------------- MODULE MCLlmSwitch ----------------------------
\* Two requests, two models, one restart of the server.  Of the values, v is a default
\* that is a float, and t a top_p so small that it is valid as a double but reads back as
\* zero, which is refused.  A value that reads back as another valid one behaves like v:
\* only SavedIsInUse looks at it.
EXTENDS LlmSwitch

CONSTANTS w1, w2, m1, m2, v, t, digits, tiny

WritersMC == {w1, w2}
ModelsMC == {m1, m2}
ValuesMC == {v, t}
TextsMC == {digits, tiny}
DigitsMC == [x \in ValuesMC |-> IF x = v THEN digits ELSE tiny]
FloatMC == [x \in TextsMC |-> IF x = tiny THEN Unreadable ELSE v]

=============================================================================
