--------------------------- MODULE MCVoiceSession ---------------------------
\* Two sessions and two request threads: a creator that sweeps while a reader or a
\* poster works on the session it closes.
EXTENDS VoiceSession, TLC

CONSTANTS r1, r2

RequestsMC == {r1, r2}

MaxEventsMC == <<2,0>>

=============================================================================
