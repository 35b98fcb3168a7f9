------------------------- MODULE MCChatSpeculation -------------------------
\* Two conversations, two speculations, two sends, one prewarm at a time.
EXTENDS ChatSpeculation, TLC

CONSTANTS s1, s2, r1, r2, p1

MCSpecs == {s1, s2}
MCSends == {r1, r2}
MCGenerators == MCSpecs \cup MCSends
MCBodies == {"warm"}

\* Conversations are only compared with one another.
KeySymmetry == Permutations(Keys)

=============================================================================
