----------------------------- MODULE MCRollout -----------------------------
(* The runs of the trainer that the .cfg file assigns.                     *)
EXTENDS Rollout

CONSTANTS q1, q2

\* A step of two groups; two steps of one group with padding and a validation of
\* two batches in between; a validation before training.
FewConfigurations ==
    {[slots |-> {q1, q2}, multiple |-> 3, last |-> 1, valSteps |-> {}, valBatches |-> 1],
     [slots |-> {q1}, multiple |-> 2, last |-> 2, valSteps |-> {1}, valBatches |-> 2],
     [slots |-> {q1}, multiple |-> 1, last |-> 1, valSteps |-> {0}, valBatches |-> 1]}
=============================================================================
