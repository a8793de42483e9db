--------------------------- MODULE MCActorUpdate ---------------------------
(* A small instance of ActorUpdate: the batches the .cfg file assigns.     *)
EXTENDS ActorUpdate

Rollouts(lens, correct, overflows) ==
    [i \in DOMAIN lens |-> [len |-> lens[i], outcome |-> IF i \in correct THEN "correct" ELSE "error",
                            overflows |-> i \in overflows]]

\* Rows that fit two by two; mixed ones that often need more micro-batches than
\* their tokens; one short of two mini-batches with all outcomes wrong, and one with
\* an overflow; a batch of which most is padding.
FewBatches ==
    {Rollouts(<<2, 2, 2, 2, 2, 2, 2, 2, 2, 2, 2, 2>>, {1, 4, 5, 6, 10}, {}),
     Rollouts(<<3, 1, 2, 3, 3, 2, 1, 3, 2, 3, 1, 3>>, {1, 2, 3, 8, 12}, {}),
     Rollouts(<<3, 3, 1, 2, 4, 1, 3, 3, 2, 1, 2>>, {}, {}),
     Rollouts(<<4, 1, 1, 3, 1, 3, 2, 1, 1, 3, 2>>, {2, 3, 4, 5, 9, 11}, {4}),
     Rollouts(<<1, 4>>, {2}, {})}

\* One mini-batch of five rows and padding, of any of three lengths.
SmallBatches == {Rollouts(lens, {1, 2}, {}) : lens \in [1..5 -> {1, 3, 4}]}

AllBatches == FewBatches \union SmallBatches
=============================================================================
