---------------------------- MODULE MCEmbedding ----------------------------
(* Instances of Embedding for TLC.                                          *)
EXTENDS Search

CONSTANTS titan, deterministic

\* Every process is configured with the same model,
SameModel == [a \in Actor |-> titan]
\* and each item has a chunk of its own.
OwnItem == [c \in Chunk |-> c]
=============================================================================
