---------------------------- MODULE MCChatStream ----------------------------
\* A reply of at most MaxText pieces, each possibly ending a sentence, and a
\* speculative first sentence of at most MaxChunks chunks.
EXTENDS ChatStream

=============================================================================
