----------------------------- MODULE MCModelRun -----------------------------
\* Two speech requests and a voice thread on one lazily loaded model.
EXTENDS ModelRun

CONSTANTS t1, t2, v1

MCThreads == {t1, t2, v1}
MCVoiceThreads == {v1}
MCCeilings == {0, 2}
MCRequested == {-1, 1}
MCIdle == -1
MCHorizon == 3

=============================================================================
