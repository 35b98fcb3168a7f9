---------------------------- MODULE MCVoiceTurn ----------------------------
\* Turns of a few blocks; a candidate may be one block short.
EXTENDS VoiceTurn

=============================================================================
