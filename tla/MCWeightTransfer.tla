-------------------------- MODULE MCWeightTransfer --------------------------
(* A small instance of WeightTransfer: weights, replicas and modes.        *)
EXTENDS WeightTransfer

W(b, e) == [bytes |-> b, elem |-> e]

Setup(b, a, shm, tp, sharded) ==
    [base |-> b, adapter |-> a, shm |-> shm, tp |-> tp, sharded |-> sharded]

\* A bucket of four bytes: padding, a weight that fits only without it, one
\* larger than the bucket, an adapter of two buckets.
AllSetups ==
    { Setup(<<W(1, 1), W(2, 2), W(6, 2)>>, <<>>, FALSE, 1, TRUE),
      Setup(<<W(1, 1), W(3, 2)>>, <<W(2, 2), W(1, 1), W(2, 2)>>, FALSE, 2, TRUE),
      Setup(<<W(4, 2), W(1, 1), W(2, 2)>>, <<>>, TRUE, 2, TRUE),
      Setup(<<W(4, 2), W(5, 1)>>, <<>>, TRUE, 1, FALSE) }
=============================================================================
