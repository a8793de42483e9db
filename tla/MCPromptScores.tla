--------------------------- MODULE MCPromptScores ---------------------------
(* A small instance of PromptScores.                                       *)
EXTENDS PromptScores, TLC

CONSTANTS a, b, e

\* A prompt of several chunks, one of one token, and one given as embeddings.
Lens == (a :> 6) @@ (b :> 1) @@ (e :> 2)
=============================================================================
