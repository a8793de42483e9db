---------------------------- MODULE ActorUpdate ----------------------------
(***************************************************************************)
(* A batch on the data-parallel ranks of the actor.  The trainer pads the  *)
(* batch and reorders it so that the ranks get equal work, has its         *)
(* log-probabilities computed and written back, and then an update made.   *)
(* The ranks run the same program on rows of their own and meet in         *)
(* collectives, each of which ends only when every rank is in it.          *)
(*                                                                         *)
(* A row is known by its key, its place in the padded batch.  A gradient   *)
(* is the bag of the keys whose loss is in it; FSDP keeps what has been    *)
(* reduced over the ranks (sharded) apart from what a rank has accumulated *)
(* without a reduction (local).  The sum on one rank stands for the shards *)
(* of the same reduction that all ranks hold.                              *)
(***************************************************************************)
EXTENDS SeqlenBalancing

CONSTANTS
    DP,             \* data-parallel ranks
    MiniSize,       \* a rank's rows in a mini-batch
    Batches,        \* batches: sequences of RowType
    PaddingLength,  \* SYNTHETIC_PADDING_SEQ_LEN
    Limit,          \* max_token_len_per_gpu, in both passes
    MicroSize,      \* micro_batch_size_per_gpu, in both passes
    Methods,        \* "standard", "r2opl_base" or "r2opl"
    MaxFailures     \* bound: ranks that raise in a forward pass

RowType == [len : 1..Limit, outcome : {"correct", "error"}, overflows : BOOLEAN]

ASSUME ActorUpdateAssumption ==
    /\ {DP, MiniSize, Limit, MicroSize} \subseteq Nat \ {0}
    /\ MaxFailures \in Nat /\ MiniSize % MicroSize = 0 /\ PaddingLength \in 1..Limit
    /\ \A b \in Batches : b # <<>> /\ b \in Seq(RowType)

Ranks == 1..DP

VARIABLES
    conf,       \* method, use_dynamic_bsz, use_no_sync_for_gradient_accumulation
    phase,      \* of the trainer: "sampled", "scoring", "updating" or "raised"
    rows,       \* the batch, by key
    keys,       \* its keys in the order of the ranks
    column,     \* per key the row whose log-probabilities were written for it
    pc,         \* per rank: the collective it is in, or its next local step
    batch,      \* per rank the mini-batch at hand
    branch,     \* per rank "total", "correct" or "error"
    count,      \* per rank the number of micro-batches
    parts,      \* per rank the micro-batches, as positions in its rows
    micro,      \* per rank the micro-batch at hand
    outputs,    \* per rank the rows it has computed log-probabilities of
    local,      \* per rank gradient not yet reduced
    sharded,    \* per rank reduced gradient
    saved,      \* per rank the correct branch: its gradient and its number of outputs
    norms,      \* per rank the gradients measured in this mini-batch
    weights,    \* per rank the gradients applied, in order
    reports,    \* per rank the metrics of each micro-batch of this mini-batch
    published,  \* per rank the aggregated metrics of each mini-batch
    failures

trainer == <<conf, phase, rows, keys, column>>
search == <<count, parts, micro>>
gradients == <<local, sharded, saved>>
metrics == <<reports, published>>
vars == <<trainer, pc, batch, branch, search, outputs, gradients, norms, weights, metrics, failures>>

Collectives == {"num_tokens", "count", "constraints", "within", "micro", "micro_sync",
                "norm", "clip", "metrics"}

-----------------------------------------------------------------------------
\* The rows of a rank.

\* The dispatch function hands out equal pieces in order.
Rows(r) == LET n == Len(keys) \div DP IN SubSeq(keys, n * (r - 1) + 1, n * r)

MiniBatches == Len(Rows(1)) \div MiniSize

\* make_iterator takes mini-batches in order.
MiniBatch(r, b) == SubSeq(Rows(r), MiniSize * (b - 1) + 1, MiniSize * b)

AtHand(r) == IF phase = "scoring" THEN Rows(r) ELSE MiniBatch(r, batch[r])

Lens(r) == [i \in DOMAIN AtHand(r) |-> rows[AtHand(r)[i]].len]

MicroBatch(r) == LET part == parts[r][micro[r]] IN [i \in DOMAIN part |-> AtHand(r)[part[i]]]

-----------------------------------------------------------------------------
\* Gradients.

Zero == EmptyBag

SumOf(bags) == FoldSeq(LAMBDA g, h : g (+) h, Zero, bags)

\* A branch masks the rows of the other outcome; padding has no loss.
InBranch(key, b) == rows[key].outcome \in IF b = "total" THEN {"correct", "error"} ELSE {b}

\* What a rank has accumulated after the backward pass of its micro-batch.
Accumulated(r) == local[r] (+) SetToBag({key \in Range(MicroBatch(r)) : InBranch(key, branch[r])})

\* The norm of a gradient is finite unless a loss in it overflowed.
IsFinite(g) == \A key \in DOMAIN g : ~rows[key].overflows

\* Mutant: the gradients are left as they are.
Unzeroed(r) == UNCHANGED sharded

\* optimizer.zero_grad clears what has been reduced.
Zeroed(r) == sharded' = [sharded EXCEPT ![r] = Zero]

\* Mutant: the first micro-batch reduces instead.
SyncFirst(m, n) == IF ~conf.defer \/ m = 1 THEN "micro_sync" ELSE "micro"

\* The last micro-batch reduces what the others have accumulated.
SyncKind(m, n) == IF ~conf.defer \/ m = n THEN "micro_sync" ELSE "micro"

-----------------------------------------------------------------------------
\* The trainer.

Multiple == DP * MiniSize

Padding == [len |-> PaddingLength, outcome |-> "padding", overflows |-> FALSE]

\* Rows are appended until mini-batches share the batch equally.
Upsampled(b) == b \o [i \in 1..(CeilDiv(Len(b), Multiple) * Multiple - Len(b)) |-> Padding]

\* _balance_batch, then _compute_old_log_prob dispatches the rows.
Balance ==
    /\ phase = "sampled"
    /\ rows' = Upsampled(rows)
    /\ LET lens == [i \in DOMAIN rows' |-> rows'[i].len]
           split == Partitions(Workloads(lens), DP, TRUE)
       IN /\ keys' = FlattenSeq(split)
          /\ phase' = IF Accepted(split, Len(lens), TRUE) THEN "scoring" ELSE "raised"
    /\ pc' = [r \in Ranks |-> "num_tokens"]
    /\ UNCHANGED <<conf, column, batch, branch, search, outputs, gradients, norms, weights, metrics, failures>>

\* What a rank returns: with dynamic micro-batches in the order of its rows again.
Returned(r) == IF conf.dynamic THEN RestoreOrder(outputs[r], parts[r]) ELSE outputs[r]

\* The rows of the ranks, one after the other, are written under the keys of the
\* batch, and _update_actor dispatches it.
WriteBack ==
    /\ phase = "scoring" /\ \A r \in Ranks : pc[r] = "returned"
    /\ LET all == FlattenSeq([r \in Ranks |-> Returned(r)])
       IN column' = [key \in DOMAIN rows |-> all[CHOOSE i \in DOMAIN keys : keys[i] = key]]
    /\ phase' = "updating"
    /\ pc' = [r \in Ranks |-> "next"]
    /\ UNCHANGED <<conf, rows, keys, batch, branch, search, outputs, gradients, norms, weights, metrics, failures>>

-----------------------------------------------------------------------------
\* Local steps of a rank.

\* train_mini_batch and train_batch up to the collectives on the number of tokens,
\* which are taken together: the gather of the lengths and the sum of the loss masks.
NextMiniBatch(r) ==
    /\ pc[r] = "next" /\ batch[r] < MiniBatches
    /\ batch' = [batch EXCEPT ![r] = @ + 1]
    /\ Zeroed(r)
    /\ norms' = [norms EXCEPT ![r] = <<>>]
    /\ reports' = [reports EXCEPT ![r] = <<>>]
    /\ pc' = [pc EXCEPT ![r] = "num_tokens"]
    /\ UNCHANGED <<trainer, branch, search, outputs, local, saved, weights, published, failures>>

Finish(r) ==
    /\ pc[r] = "next" /\ batch[r] = MiniBatches
    /\ pc' = [pc EXCEPT ![r] = "done"]
    /\ UNCHANGED <<trainer, batch, branch, search, outputs, gradients, norms, weights, metrics, failures>>

Chunks(n) == [m \in 1..(n \div MicroSize) |-> [i \in 1..MicroSize |-> MicroSize * (m - 1) + i]]

\* prepare_micro_batches up to its first collective, if it has any, with the
\* clearing that starts a branch: only the forward passes look at gradients again.
Prepare(r) ==
    /\ pc[r] = "prepare"
    /\ IF conf.dynamic
       THEN /\ count' = [count EXCEPT ![r] = FirstCount(Lens(r), Limit)]
            /\ pc' = [pc EXCEPT ![r] = "count"]
            /\ UNCHANGED <<parts, micro>>
       ELSE /\ parts' = [parts EXCEPT ![r] = Chunks(Len(AtHand(r)))]
            /\ count' = [count EXCEPT ![r] = Len(parts'[r])]
            /\ micro' = [micro EXCEPT ![r] = 1]
            /\ pc' = [pc EXCEPT ![r] = "forward"]
    /\ reports' = [reports EXCEPT ![r] = <<>>]
    /\ IF branch[r] # "total" THEN Zeroed(r) ELSE UNCHANGED sharded
    /\ UNCHANGED <<trainer, batch, branch, outputs, local, saved, norms, weights, published, failures>>

\* A round of the search for a number of micro-batches.
Search(r) ==
    /\ pc[r] = "search"
    /\ \/ /\ count[r] > Len(AtHand(r))
          /\ pc' = [pc EXCEPT ![r] = "raised"]
          /\ UNCHANGED parts
       \/ /\ count[r] <= Len(AtHand(r))
          /\ parts' = [parts EXCEPT ![r] = MicroBatches(Lens(r), count[r])]
          /\ pc' = [pc EXCEPT ![r] = IF Accepted(parts'[r], Len(AtHand(r)), FALSE) THEN "within" ELSE "raised"]
    /\ UNCHANGED <<trainer, batch, branch, count, micro, outputs, gradients, norms, weights, metrics, failures>>

\* What follows the last micro-batch.
AfterForward(r) ==
    IF phase = "scoring" THEN "metrics" ELSE IF branch[r] = "total" THEN "clip" ELSE "norm"

\* Into the next micro-batch, or on; without gradients nothing is reduced.
Forward(r) ==
    /\ pc[r] = "forward"
    /\ pc' = [pc EXCEPT ![r] = IF micro[r] > count[r] THEN AfterForward(r)
                               ELSE IF phase = "scoring" THEN "micro"
                               ELSE SyncKind(micro[r], count[r])]
    /\ UNCHANGED <<trainer, batch, branch, search, outputs, gradients, norms, weights, metrics, failures>>

\* A forward pass raises on one rank, before its collectives: a packed sequence
\* over its cap, a device out of memory.
Raise(r) ==
    /\ pc[r] = "forward" /\ micro[r] <= count[r] /\ failures < MaxFailures
    /\ pc' = [pc EXCEPT ![r] = "raised"]
    /\ failures' = failures + 1
    /\ UNCHANGED <<trainer, batch, branch, search, outputs, gradients, norms, weights, metrics>>

\* _r2opl_base_measure_branch after the norm: the correct branch is kept and the
\* error branch starts; after the error branch the kept gradient is added.
Measured(r) ==
    /\ pc[r] = "measured"
    /\ IF branch[r] = "correct"
       THEN /\ saved' = [saved EXCEPT ![r] = [gradient |-> sharded[r], outputs |-> Len(reports[r])]]
            /\ Zeroed(r)
            /\ branch' = [branch EXCEPT ![r] = "error"]
            /\ pc' = [pc EXCEPT ![r] = "prepare"]
       ELSE /\ sharded' = [sharded EXCEPT ![r] = @ (+) saved[r].gradient]
            /\ branch' = [branch EXCEPT ![r] = "total"]
            /\ pc' = [pc EXCEPT ![r] = IF saved[r].outputs = Len(reports[r]) THEN "clip" ELSE "raised"]
            /\ UNCHANGED saved
    /\ UNCHANGED <<trainer, batch, search, outputs, local, norms, weights, metrics, failures>>

\* optimizer_step after clipping; a gradient that is not finite is dropped.
Step(r) ==
    /\ pc[r] = "step"
    /\ IF IsFinite(sharded[r])
       THEN weights' = [weights EXCEPT ![r] = Append(@, sharded[r])] /\ UNCHANGED sharded
       ELSE Zeroed(r) /\ UNCHANGED weights
    /\ pc' = [pc EXCEPT ![r] = "metrics"]
    /\ UNCHANGED <<trainer, batch, branch, search, outputs, local, saved, norms, metrics, failures>>

-----------------------------------------------------------------------------
\* Collectives: every rank is in the same one.

Meet(collective, next) ==
    /\ \A r \in Ranks : pc[r] = collective
    /\ pc' = [r \in Ranks |-> next]

\* The tokens of all ranks; in an update with diagnostics the branches start.
CountTokens ==
    /\ Meet("num_tokens", "prepare")
    /\ branch' = [r \in Ranks |-> IF phase = "updating" /\ conf.method = "r2opl_base"
                                  THEN "correct" ELSE "total"]
    /\ UNCHANGED <<trainer, batch, search, outputs, gradients, norms, weights, metrics, failures>>

\* Mutant: every rank keeps its own bound.
KeepOwnCount ==
    /\ Meet("count", "constraints")
    /\ UNCHANGED <<trainer, batch, branch, search, outputs, gradients, norms, weights, metrics, failures>>

\* The largest lower bound on the number of micro-batches.
AgreeOnCount ==
    /\ Meet("count", "constraints")
    /\ count' = [r \in Ranks |-> Max({count[s] : s \in Ranks})]
    /\ UNCHANGED <<trainer, batch, branch, parts, micro, outputs, gradients, norms, weights, metrics, failures>>

\* The longest row, within the limit here, and the fewest rows, the same on all ranks.
AgreeOnConstraints ==
    /\ Meet("constraints", "search")
    /\ UNCHANGED <<trainer, batch, branch, search, outputs, gradients, norms, weights, metrics, failures>>

KeepsLimit(r) == \A i \in DOMAIN parts[r] : PartSum(parts[r][i], Lens(r)) <= Limit

\* Whether every rank's parts keep the limit.
AgreeOnLimit ==
    /\ \/ /\ Meet("within", "forward")
          /\ \A r \in Ranks : KeepsLimit(r)
          /\ micro' = [r \in Ranks |-> 1]
          /\ UNCHANGED count
       \/ /\ Meet("within", "search")
          /\ \E r \in Ranks : ~KeepsLimit(r)
          /\ count' = [r \in Ranks |-> count[r] + 1]
          /\ UNCHANGED micro
    /\ UNCHANGED <<trainer, batch, branch, parts, outputs, gradients, norms, weights, metrics, failures>>

\* Forward pass of a micro-batch for its log-probabilities, with the parameters
\* gathered from all ranks.
ScoreMicroBatch ==
    /\ phase = "scoring" /\ Meet("micro", "forward")
    /\ outputs' = [r \in Ranks |-> outputs[r] \o MicroBatch(r)]
    /\ micro' = [r \in Ranks |-> micro[r] + 1]
    /\ UNCHANGED <<trainer, batch, branch, count, parts, gradients, norms, weights, metrics, failures>>

\* Sufficient statistics of a micro-batch: the correct rows and their tokens.
Report(r) ==
    LET correct == {i \in DOMAIN MicroBatch(r) : rows[MicroBatch(r)[i]].outcome = "correct"}
    IN [count |-> Cardinality(correct), sum |-> MapThenSumSet(LAMBDA i : rows[MicroBatch(r)[i]].len, correct)]

\* Forward and backward pass of a micro-batch; with "micro_sync" what the ranks
\* have accumulated is reduced as well.
TrainMicroBatch ==
    /\ phase = "updating"
    /\ \/ /\ Meet("micro", "forward")
          /\ local' = [r \in Ranks |-> Accumulated(r)]
          /\ UNCHANGED sharded
       \/ /\ Meet("micro_sync", "forward")
          /\ sharded' = [r \in Ranks |-> sharded[r] (+) SumOf([s \in Ranks |-> Accumulated(s)])]
          /\ local' = [r \in Ranks |-> Zero]
    /\ reports' = [r \in Ranks |-> Append(reports[r], Report(r))]
    /\ micro' = [r \in Ranks |-> micro[r] + 1]
    /\ UNCHANGED <<trainer, batch, branch, count, parts, outputs, saved, norms, weights, published, failures>>

\* The norm of a branch; clipping, which measures the norm of the whole.
MeasureNorm ==
    /\ Meet("norm", "measured") \/ Meet("clip", "step")
    /\ norms' = [r \in Ranks |-> Append(norms[r], sharded[r])]
    /\ UNCHANGED <<trainer, batch, branch, search, outputs, gradients, weights, metrics, failures>>

\* Mutant: the first rank's numbers alone.
FirstRanksOnly(field) == SumSeq([m \in DOMAIN reports[1] |-> reports[1][m][field]])

\* Metric.aggregate_dp of a SUM metric: the mean over the ranks, here its
\* numerator, summed over the micro-batches.
AggregateDp(field) ==
    SumSeq([m \in DOMAIN reports[1] |-> SumSeq([r \in Ranks |-> reports[r][m][field]])])

\* _postprocess_output: the metrics of a mini-batch, or the end of a forward pass.
GatherMetrics ==
    /\ \/ /\ phase = "scoring" /\ Meet("metrics", "returned")
          /\ UNCHANGED published
       \/ /\ phase = "updating" /\ Meet("metrics", "next")
          /\ published' = [r \in Ranks |-> Append(published[r],
                              [count |-> AggregateDp("count"), sum |-> AggregateDp("sum")])]
    /\ UNCHANGED <<trainer, batch, branch, search, outputs, gradients, norms, weights, reports, failures>>

-----------------------------------------------------------------------------
\* R2OPL allows neither dynamic micro-batches nor several rows in one.
Configurations ==
    {c \in [method : Methods, dynamic : BOOLEAN, defer : BOOLEAN] :
        c.method = "r2opl" => ~c.dynamic /\ MicroSize = 1}

Init ==
    /\ conf \in Configurations
    /\ phase = "sampled" /\ rows \in Batches /\ keys = <<>> /\ column = <<>>
    /\ pc = [r \in Ranks |-> "idle"]
    /\ batch = [r \in Ranks |-> 0]
    /\ branch = [r \in Ranks |-> "total"]
    /\ count = [r \in Ranks |-> 0]
    /\ parts = [r \in Ranks |-> <<>>]
    /\ micro = [r \in Ranks |-> 0]
    /\ outputs = [r \in Ranks |-> <<>>]
    /\ local = [r \in Ranks |-> Zero]
    /\ sharded = [r \in Ranks |-> Zero]
    /\ saved = [r \in Ranks |-> [gradient |-> Zero, outputs |-> 0]]
    /\ norms = [r \in Ranks |-> <<>>]
    /\ weights = [r \in Ranks |-> <<>>]
    /\ reports = [r \in Ranks |-> <<>>]
    /\ published = [r \in Ranks |-> <<>>]
    /\ failures = 0

Collective ==
    \/ CountTokens \/ AgreeOnCount \/ AgreeOnConstraints \/ AgreeOnLimit
    \/ ScoreMicroBatch \/ TrainMicroBatch \/ MeasureNorm \/ GatherMetrics

Local(r) ==
    \/ NextMiniBatch(r) \/ Finish(r) \/ Prepare(r) \/ Search(r)
    \/ Forward(r) \/ Raise(r) \/ Measured(r) \/ Step(r)

Next == Balance \/ WriteBack \/ Collective \/ \E r \in Ranks : Local(r)

Spec == Init /\ [][Next]_vars

-----------------------------------------------------------------------------
\* Properties.

KeysOf(b) == UNION {Range(MiniBatch(r, b)) : r \in Ranks}

Part(b, outcome) == SetToBag({key \in KeysOf(b) : InBranch(key, outcome)})

Whole(b) == Part(b, "total")

\* However the batch was padded, reordered, divided and run, every key gets the
\* log-probabilities of its own row (rearrange_micro_batches and restore_dynamic_batch).
RowsReachTheirKeys == phase = "updating" => \A key \in DOMAIN rows : column[key] = key

\* The ranks' workloads differ by no more than DP neighbours in the order of
\* workload do: the differences are played off against each other and never add
\* up (the differencing method with equal sizes, _balance_batch).
RanksAreBalanced ==
    phase = "scoring" =>
        LET cost(key) == Workload(rows[key].len)
            work == LET items == ByValue([i \in DOMAIN keys |-> cost(keys[i])]) IN [i \in DOMAIN items |-> items[i][2]]
            loads == {MapThenSumSet(cost, Range(Rows(r))) : r \in Ranks}
            gaps == {work[DP * b] - work[DP * (b - 1) + 1] : b \in 1..(Len(work) \div DP)}
        IN Max(loads) - Min(loads) <= Max(gaps)

\* Ranks with different rows never wait in different collectives, nor does one
\* finish while another waits: the number of micro-batches, the branches and the
\* reductions are the same everywhere.  No rank raises by itself either, which would
\* leave the others waiting: the search ends before it asks for more micro-batches
\* than rows, its parts keep the assertions, and both branches have the same outputs
\* (rearrange_micro_batches, forward_backward_batch).
CollectivesMatch ==
    /\ phase # "raised"
    /\ (\E r \in Ranks : pc[r] = "raised") => failures > 0
    /\ \A r, s \in Ranks :
          pc[r] \in Collectives /\ pc[s] \in Collectives \union {"returned", "done"} => pc[r] = pc[s]

\* The mini-batches a rank has come to the end of.
Stepped(r) == IF pc[r] \in {"metrics", "next", "done"} THEN batch[r] ELSE Max({batch[r], 1}) - 1

\* What is applied is the gradient of the whole mini-batch, over all ranks, each
\* row once and nothing of another mini-batch; mini-batches whose gradient is not
\* finite are left out on every rank alike.
GradientIsWhole ==
    \A r \in Ranks :
        LET kept == {b \in 1..Stepped(r) : IsFinite(Whole(b))}
        IN /\ Len(weights[r]) = Cardinality(kept)
           /\ \A b \in kept : weights[r][Cardinality({c \in kept : c <= b})] = Whole(b)

\* The reported norms are those of the correct rows, the error rows and the sum of
\* both, measured without a third pass (R2OPL-base diagnostics).
NormsAreOfBranches ==
    \A r \in Ranks : pc[r] = "step" =>
        norms[r] = IF conf.method = "r2opl_base"
                   THEN <<Part(batch[r], "correct"), Part(batch[r], "error"), Whole(batch[r])>>
                   ELSE <<Whole(batch[r])>>

\* Sums and counts over the rows the update was about.
Total(field) ==
    LET correct == {key \in DOMAIN rows : rows[key].outcome = "correct"}
    IN IF field = "count" THEN Cardinality(correct) ELSE MapThenSumSet(LAMBDA key : rows[key].len, correct)

\* reduce_metrics: the mean over mini-batches of means over ranks.
Numerator(r, field) == SumSeq([b \in DOMAIN published[r] |-> published[r][b][field]])

\* The mean the trainer materializes from a sum and a count is the mean over all
\* rows of the update, however they were spread over micro-batches and ranks.
MeansArePooled ==
    \A r \in Ranks : conf.method = "r2opl" /\ pc[r] = "done" =>
        Numerator(r, "sum") * Total("count") = Numerator(r, "count") * Total("sum")
=============================================================================
