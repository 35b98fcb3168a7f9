------------------------------ MODULE MCLlmWarm ------------------------------
\* Two warm bodies, two generations, one health poller; room for two workers,
\* so that a second one could be spawned if the code allowed it.
EXTENDS LlmWarm
=============================================================================
