# Verification of R2OPL

R2OPL trains and evaluates language models for step-by-step reasoning: on-policy
distillation and policy-gradient algorithms on top of a vendored copy of verl, and
two standalone evaluators that measure checkpoints with one vLLM replica per GPU.
This directory holds TLA+ models of the parts of that code in which order, failure
and restart matter, TLC runs that check them on small instances, and TLAPS proofs
of the guarantees of the pool, the two evaluations, the rollout loop, the trainer's
checkpoints, the weight transfer, the prompt scores, the answer probes, the balancing of a
batch and the actor update for every size.

## The system

| Part | Source | State it keeps | Operations | Who it talks to |
|---|---|---|---|---|
| GPU pool | `utils/ersr_evaluation.py` 1554-2052 (`utils/evaluation.py` 1493-1986 is the same but for names) | worker processes, job queue, result queue | start, await ready, run, stop | called by `evaluate_model`, `run_generation_phase`; workers answer by queue |
| Checkpoint evaluation | `utils/ersr_evaluation.py` 2885-3441, `utils/evaluation.py` 2711-2779 | result document (memory and file), merged directories, ERSR work | launch, resume, three schedules, save, fail | calls the pool once per phase, `prepare_model` per checkpoint |
| Direct-model evaluation | `main` of both evaluators | summary file, one file per model | check the directory, evaluate, save, fail | as above; other processes with the same `run_name` |
| ERSR selection and scoring | `utils/ersr.py`, `utils/ersr_evaluation.py` 2187-2528 | selected cases, replacements, invalid cases | select, replace, continue, aggregate | two generation phases per model |
| Batching | `make_batches`, `evaluate_model`, `run_generation_phase` | none | split into jobs, join results | jobs of the pool |
| Rollout and replay | `verl/verl/trainer/main_ppo_sync.py` 255-669 | replay buffer, TransferQueue keys | poll, sample, remove, generate | a poll thread, agent loop workers, the trainer |
| Weight transfer | `verl/verl/workers/engine_workers.py` 785-806, `workers/rollout/vllm_rollout/` (`vllm_rollout.py`, `bucketed_weight_transfer.py`, `utils.py`) | bucket and shared buffer, socket, the vLLM model and its adapter | start, send a bucket, load it, acknowledge, release, fail | trainer rank and vLLM worker, one pair per GPU; one `collective_rpc` per replica |
| Prompt scores | `workers/rollout/vllm_rollout/prompt_logprobs.py` | half-filled CPU tensors per request | project a chunk, copy, return | vLLM's scheduler |
| Trainer loop and checkpoints | `main_ppo_sync.py` 949-1061, 2003-2168 | global step, checkpoint folders, tracker file | fit, save, load | replay buffer, worker groups |
| Actor update | `verl/verl/workers/engine_workers.py` 181-441, `workers/engine/fsdp/transformer_impl.py` 674-1015, `utils/seqlen_balancing.py` | gradients, optimizer, micro-batches of each rank | balance, divide, forward and backward, reduce, clip, step, report | ranks in collectives; the trainer |
| R2OPL probes and credit | `utils/r2opl*.py`, `utils/answer_probe.py`, `algorithms/r2opl*.py`, `transformer_impl.py` 1347-1609 | metadata beside a rollout, the packed sequence | attach, pack, score, weigh | agent loop, actor, losses |
| Step splitter | `utils/conservative_step_splitter.py` | none | split a rollout into steps with token spans | ERSR, R2OPL |
| Answer verifier, prompts, data set | `utils/answer_verifier.py`, `prompts.py`, `custom_dataset.py` | none | parse, render | everyone |
| Algorithms | `algorithms/` | registry | losses and advantages | verl |

What makes it correct, and what is hard about it:

* **Pool.** A result list must hold every job once and in order whatever the workers
  did; the driver must not wait for ever for a result a dead worker took with it,
  must not raise without cause, and must not leave workers holding GPUs. Hard:
  queues with feeder threads and locks that a killed process never releases, a poll
  timeout racing late messages, three different ways to stop.
* **Checkpoint evaluation.** A result file must never mix two attempts or two
  configurations, never lose a finished row, and say `completed` only when it is.
  Hard: a kill or a failing write between any two saves, a resume with other
  checkpoints or settings, cleanup of tens of gigabytes on every path.
* **Direct models.** Attempts must not be mixed in one directory and the summary must
  agree with the files beside it. Hard: several processes, check-then-create, saves
  outside the `try`.
* **Weight transfer.** A returned synchronisation must have put every weight, whole and
  in the new version, into every worker. Hard: asynchronous device copies on both sides
  of a shared buffer, padding and oversized weights, two transfers without a barrier,
  a failure on either side of a request and a reply.
* **Prompt scores.** Every prompt token after the first must have its own score when the
  request's first token appears. Hard: prompts cut by the scheduler and again by the
  chunk size, preemption, non-blocking copies.
* **ERSR.** The batched standalone evaluation must skip each case for the reason, and value
  it by the samples, that the trainer gives it alone; the grading of these samples differs
  for SciBench, on purpose (`ersr_evaluation.py` 2371, `utils/ersr.py` 274). Hard: requests of all checkpoints in one phase joined again by id, budgets
  that run out, a reservoir in one pass.
* **Replay and trainer.** A sampled batch must hold this step's finished rollouts
  only; a restart must find a consistent checkpoint. Hard: a poll thread working on
  an old snapshot, workers that die without a status, a tracker written in place.

* **Actor update.** All ranks must make the same collectives although each divides rows of
  its own, apply the gradient of the whole mini-batch once, and give every row back its
  own values. Hard: a search with collectives inside, deferred reductions, two branches in
  one set of buffers, permutations in permutations, three reducers of metrics.
* **R2OPL probes.** A probe packed behind its rollout must score as if it ran alone, and
  its rollout as if there were no probe. Hard: a mask, positions and indices that are all
  plausible when they are off by one.

The `hazards` in `PROJECT.json` list these one by one, at the line where each bites,
with the properties that would notice.

## Modules

### GpuPool

One `with GpuPool(...) as pool: pool.run(jobs)` block, which is how both callers use
the class. `pc` walks the driver through `__enter__` (`StartNext`, `StartFails`),
`_await_messages` (`ReceiveMessage`, `GetTimesOut`, `CheckExits`), `run` (`Run`,
`RunReturns`), `_stop_workers` (`ForceStop`; `PutPills`, `TerminateStragglers`;
`LastJoin`) and the interpreter's exit (`DriverExits`). `wpc` walks each worker
through `_gpu_worker`. A job's content is irrelevant to the protocol, so a job is its
`batch_id`; the code counts from 0, the model from 1.

The queues are modelled at the level at which they fail. Only the driver writes the
job queue, so it is three counters over one fixed stream of jobs and stop pills. The
result queue is the sequence of all messages written so far and the number read. A
message first sits in its worker's outbox; the worker's feeder thread takes the
pipe's write lock, writes, and releases it. `job_queue.get` holds the reader lock
while it waits. `Die` loses the worker's job and outbox, keeps its locks for ever, and
may leave half a message in the pipe (`torn`), after which the driver's read does not
return because `Queue.get` applies its timeout to the poll only.

`BatchRun` is the abstract specification: jobs are answered, each once; the block ends
by returning all results in order or by raising, and raises only with a failure. The
callers rely on nothing else. `GpuPool` maps to it with `Promise` (`AnsweredJobs`: the
jobs with a successful message in the result queue; `SomethingFailed`: a start that
failed, a dead worker or an error message; `Returned`: the list), and `KeepsPromise` says
that it implements it.

### CheckpointEval

`evaluate_checkpoints` with the schedules `per_checkpoint` and `shared_teacher` of
`ersr_evaluation.py` and, as `single_run`, the one schedule of `evaluation.py`.
`disk` is the result file, `mem` the process's document, and every
`atomic_write_json` is one step that installs `mem` as a whole or raises
(`SaveThen`): the code mutates the document before it saves, so a failed save leaves
the mutation in `mem`, where the failure handler's save may still pick it up. A row
records which launch made its base metrics and its teacher proposals and under which
signature, which is what the properties tell apart; metrics themselves are left out.
`Launch` stands for `discover_checkpoints`, the early errors and
`_load_checkpoint_document`; between launches the user may change the configuration
and the set of checkpoint directories. `tmp` and `owned` are the merged directories
that exist and those a context manager will still remove. `Fail` raises anywhere in
the try block, `Crash` kills the process anywhere.

A configuration is chosen at every launch: its schedule, whether ERSR and the initial
base are on, and everything else of the signature as one value.

`leftover`, `silent` and `claimed` are history variables for the properties.

### ModelEval

`main` with `model_source`, for several processes started with one `run_name` at any
time. `Launch` is the check of the directory, `Open` the first save, which is what makes
the directory occupied, `StartModel` to `MarkCompleted` one turn of the loop, `Close` the
end. A result file records the process that wrote it, which stands for its content.
`Fail` raises inside the `try`; a save of the summary that fails (`SaveSummary`) is
outside it and ends the process. A kill or a failure at the first save may leave the
temporary file of `atomic_write_json` in the directory (`litter`), which the next check
sees. `overlapped` is a history variable: a process passed the check while another ran.

### Rollout

The synchronous trainer's rollout path in `main_ppo_sync.py`. `tq` is the
TransferQueue (external; a dictionary from key to tag, changed by `kv_batch_put` and
`kv_clear`), `buf` the `ReplayBuffer`, `snap` what the poll thread listed and has not
added yet. `PollList`, `PollFails`, `Add`, `PollStops` are the poll thread, which takes
`kv_list` outside the lock and adds one partition under it; `SessionPuts`,
`SessionFails`, `Publish` are one `_run_prompt` task with its agent loops; `Lose` is a
worker that dies or a last put that fails. The trainer walks through `fit`: submit,
`GenerateSequences` or `DispatchFails`, `SampleChecks` and `SampleLooks` (the two halves
of `sample`'s loop around its sleep), `TrainOn` with the padding of `_balance_batch`,
the validation batches, and the two halves of each cleanup (`ClearTransferQueue`,
`RemoveFromBuffer`). `uuid4` is the identity of batch and slot; tensors are left out.
`conf` is the configuration of a run: prompts in a batch, the multiple it is padded to, the
number of steps, when it validates and with how many batches.

### TrainerCheckpoint

`_save_checkpoint` and `_load_checkpoint` of `PPOTrainer` with the FSDP checkpoint
manager. `files[s][f]` is the run that wrote shard `f` of step `s`, which stands for its
content: shards are written to a temporary name and renamed, so they are whole or
absent. `data.pt` and the tracker are opened in place, in two steps each, so that a kill
between them leaves them torn. `Launch` is `_load_checkpoint` with `resume_mode: auto`
(a torn tracker or an incomplete checkpoint ends the run with an exception), `Step` a
training step, then `EnsureCapacity`, `WriteShard`, `RegisterCheckpoint`, `OpenData`,
`WriteData`, `OpenTracker`, `WriteTracker` in the order of the code. `Crash` may come
between any two of them. `saved` is a history variable. The data loader (external) is
taken to resume after the last batch its saved state counts.

### WeightTransfer

`update_weights` in naive mode. Rank `k` sends to vLLM worker `k` over one socket pair:
`chan[k]` holds the request or the reply under way, since the protocol strictly
alternates. The sender walks through `async_send_weights` (`OpenBuffer`, `Pull`, `Flush`,
`DirectSend`, `TooLarge`, `Place`, `SendLast`, `AwaitFuture`), the worker through
`update_weights_from_ipc` (`Prepare`, `MapBuffer`, `Receive`, `ReplyBucket`,
`LastLoaded`, `Release`, `PostProcess`). `buf[k]` says of each byte to which weight of
which transfer it belongs. Copies into it (`CopyLands`) and loads out of it (`LoadLands`)
land at any time before the next `synchronize`; a load whose bytes are not all its own
gives a torn weight. `Gathered` is the collective `full_tensor` of sharded weights: it
ends once every rank of the group has asked. Faults are a sender that raises, a worker
that raises and replies with the error, and a worker that fails where no reply is sent
(`WorkerFailsMute`: before the receiver is open, after the last reply, or by dying).

### PromptScores

`_get_chunked_prompt_logprobs`, called once per scheduler step. A score is the pair of
the hidden state it came from and the token it was gathered for, so that a shifted index
is visible. `Step` runs the function for the requests of a step: `Completes` is its
comparison of scheduled and remaining tokens, `Begins`, `End` and `Rows` its chunks,
`Landed` the non-blocking copies, `Sync` the synchronisation at its end.

### Ersr

Selection (`Consider`, `Replaced`, `Select`: the reservoir of `build_ersr_step_cases` and
its final shuffle), the teacher phase (`Teacher`), the student phase (`Student`), with
the batching of `run_generation_phase` (`GenerationPhase`, `Batches`, `JobSizes`) and of
`evaluate_model` (`EvaluateModel`); and the trainer's path, `TrainCase` and `Gather`, with
`EvaluateCase` as the sequential definition of one case. That `pool.run` answers every
job in order is `BatchRun`'s promise, which is why a phase is one step here; a phase
that raises is `PhaseFails`. A value is `Graded`: how often each sample counts, and which
verifier grades the samples. The evaluator names the case's data set to
`reward_for_continuation`, so SciBench is graded with its 5 % tolerance (`VerifierOf`,
`ArmValue`); the trainer's `_estimate_value` names none and always grades exactly
(`EstimateValue`). What a verifier makes of a sample is not modelled, hence
`StandaloneAgreesWithTraining` claims equal reasons and equal samples (prefixes, seeds,
budgets) for every case and equal values outside SciBench only: of a SciBench case the two
sides may publish different values of the same samples. The branch `no_teacher_budget`
needs a step that starts at the response limit; a rollout here ends within it, as the limit
of generation is the limit of ERSR in both callers, and so TLC does not reach that branch.

### SeqlenBalancing, ActorUpdate

`SeqlenBalancing` holds the operators of `utils/seqlen_balancing.py`: the differencing
method (`Partitions`; a state is its sets in decreasing order, the heap a set with
`NextOf`), the order in which micro-batches run (`MicroOrder`) and the inverse permutation
(`RestoreOrder`). `ActorUpdate` is what the trainer and the actor's ranks do with a sampled
batch. `Balance` is `_balance_batch`: padding, equal partitions, a new order of the keys.
With `phase = "scoring"` the ranks compute log-probabilities, which `WriteBack` puts under
the keys of the batch; with `"updating"` they make the update, mini-batch by mini-batch.
Both passes go through the same code, and in the model through the same actions.

`pc[r]` is the collective rank `r` is in, or its next local step; a collective is one action
of all ranks (`Meet`), so ranks in different collectives wait for ever. A row is known by its
key, a gradient is the bag of keys whose loss is in it; `sharded` has been reduced over
ranks, `local` has not. `NextMiniBatch`, `Prepare`, `Search`, `Forward`, `ScoreMicroBatch`,
`TrainMicroBatch`, `Measured`, `MeasureNorm`, `Step` and `GatherMetrics` follow
`train_mini_batch`, `prepare_micro_batches`, the loop of `rearrange_micro_batches`,
`forward_backward_batch`, `_r2opl_base_measure_branch` and `optimizer_step`. `Raise` is a rank
that fails in its forward pass; its peers stay in the collective, which only the watchdog
of the communication library ends. Mini-batches are taken in order and once
(`actor.shuffle` and `ppo_epochs` at their defaults), both passes have the same limits
(`log_prob_*` defaults to the actor's), the two collectives on token counts are taken as
one, and gradient scaling is left out, since training runs in bfloat16.

### PackedProbe

One rollout from `build_r2opl_probe_metadata` (`Attach`) over the packed sequence and its
mask (`Pack`, `Layout`, `PositionAt`, `VisibleTo`) and the forward pass (`Score`) to the gates
(`Weigh`, `GateOf`). The model is external: a layer (`Layer`) keeps a token's state and gathers the
set of states it attends to, from tokens and their positions on (`Hidden`), so two states
are equal exactly when any network of this shape must compute the same from them. A token
sees no two copies of a token (`VisibleTokensDiffer`), so the set says what a bag would.
Text is reduced to the ends of the probe's tokens in characters, which decide what is scored.

### MC modules and proof modules

The `MC` modules only instantiate: they name the inputs a `.cfg` file assigns.
The modules whose names end in `_proofs` hold the theorems. Definitions whose comment begins with "Mutant" are plausible bugs used to
test that each property can fail; no specification uses them.

## Runs

| Run | Instance | Shows |
|---|---|---|
| `gpu_pool` | 2 GPUs, 3 jobs, 1 kill, pipe of 1 | the pool implements `BatchRun`; after a return nothing is lost; no worker forgotten but on a failed start; hangs only in the ways `HangsOnlyWhen` lists; the block is left and the driver exits (`DriverFinishes`) |
| `checkpoint_eval` | 3 checkpoints (2 FSDP), 4 configurations with all schedules, 3 launches | one unmixed row per checkpoint (`RowsAreSound`), completed means complete and phases are true (`FileIsHonest`), merged directories removed and of one checkpoint at a time (`NothingLeftBehind`), kept results, final status |
| `cleanup_surfaces` | 1 launch | violated: a failed removal does not surface |
| `model_eval` | 2 models, 3 processes | attempts are mixed only by processes that overlapped at the check; the summary agrees with the files; every attempt ends with a final status |
| `rollout` | 2 prompts of 2 sessions in a step; 1 prompt, 2 steps, a validation of 2 batches, padding; a validation before training; 1 lost worker | `sample` returns whole groups of this step only and raises with cause; the held batch survives validation and trajectories are cleared; a sample ends |
| `trainer_checkpoint` | 2 shards, 7 steps, save every 2nd, keep 2, 3 launches | what the tracker names is complete and from one run; nothing finished is repeated; data in step; retention limit |
| `keep_one` | 2 shards, 4 steps, keep 1, 2 launches | violated: the tracker names a removed checkpoint |
| `weight_transfer` | 2 ranks, a bucket of 4 bytes, 4 sets of weights, 3 transfers, 2 failures | buckets fit; nothing torn; a returned synchronisation is whole; the buffer is free when reclaimed; a synchronisation ends unless a worker fails mutely |
| `prompt_scores` | prompts of 6 and 1 tokens and one of embeddings, chunks of 2, 1 preemption | returned scores are complete, and come with the first token |
| `actor_update` | 2 ranks, mini-batches of 3 rows a rank, all batches of 5 rows of 3 lengths, 5 larger ones, 3 methods, 1 failure | balanced ranks; every row's values reach its key; ranks never part and never raise by themselves; whole gradients; norms of the branches; pooled means |
| `packed_probe` | prompts to 2 and responses to 4 tokens, all divisions, all tokenizations of 5 characters, 2 layers | probes are isolated and score as alone and leave the rollout undisturbed (`PackingIsTransparent`); gates compare own steps |
| `ersr` | 2 checkpoints, 2 and 3 questions, 25 combinations of rollouts, 2 data sets of which one is SciBench, 2 GPUs | cases reported once, batched reasons and samples equal the trainer's, and values outside SciBench too, the reservoir is capped and jobs fit (`LimitsAreKept`) |

Why the bounds are enough for the cases of interest. Two workers and three jobs give
one worker a second job while the other is late, dead or holds a lock, and leave a job
in the queue; a pipe of one message makes both feeder threads wait. Three launches
allow a kill, a resume, and a second resume or a changed configuration after it; two
checkpoints are one to keep and one to repeat, and the third under `shared_teacher` is
one that needs no merge between two that do. Two sessions per prompt and two prompts
give a group that ends beside one that runs; two steps and two validation batches are
one earlier batch of either kind to leak from; a cleanup can follow training, a
validation in a step and one before it. Seven steps saved at 2, 4, 6 and 7 with
two kept let both removals happen, before and after a save, and three launches let a
step be saved again over the remains of a killed save. Three processes are two that race
and one that comes after. Three transfers are base, adapter and the next adapter (or three
times the base), so that a buffer and a model are used again; the weights include one
that needs padding, one that fits only without it, one larger than the bucket and an
adapter of two buckets; two ranks are two replicas of one or one of two. A prompt of six
tokens in chunks of two can be cut on, before and after a chunk's edge. Two checkpoints
share case ids, and the second has a SciBench case besides; three rollout steps leave one, two or no step before the last, and a
budget of three tokens runs out. The batches of
`actor_update` make one and two mini-batches, with padding and without; their lengths make
the lower bound on micro-batches too low on one rank, on both, on none, and outcomes are
mixed, all wrong or overflow. Four
response tokens allow three branches and a tail behind the last step; the cap refuses
the longest sequences and the context length the longest probes; two layers are the first
at which a leak through a third token would show. Deadlock is not checked: in every model the process may
end, and hanging is the subject of named properties.

### Fairness

`GpuPool`: weak fairness of the driver, of each worker's main thread, of all feeder
threads and of the effect of SIGTERM: these are running threads of an operating system,
and a job is assumed to end. Failures, kills and a start that fails get none.
`CheckpointEval`: weak fairness of the process's next step; none of a kill or of a new
launch. `ModelEval`: the same for each process. `WeightTransfer`: weak fairness of each
sender and of each worker, landing copies included; none of faults. `Rollout`: weak fairness of the poll thread, the trainer, each agent loop and
each publication; none of failures and losses. `TrainerCheckpoint`, `PromptScores`,
`Ersr`, `ActorUpdate` and `PackedProbe` have no liveness property and no
fairness; that ranks do not wait for each other for ever is the invariant
`CollectivesMatch`.

## Proofs

`GpuPool_proofs`, for every `NGpus >= 1`, `NJobs`, `PipeCap >= 1` and `MaxKills`. That a
returned list is complete is not inductive: it only says something at the end. The
invariant `IInv` follows tokens. A job that was taken, and the ready message a worker
owes, is a token; it is held by a worker or carried by one message in an outbox or in
the result queue, never twice (`Distinct`), and none exists for a job still in the queue
(`Issued`). `DriverInv` ties the driver's counters to its control point, `ReadInv` says
of which kind the messages read are, `WorkerInv` that jobs and locks belong to workers
in the right state. A wait that has read as many messages as there are tokens of its
kind has read every token (`Pigeonhole`), hence the list is complete (`Collected`);
`SortedPermutation` then gives its order (`Ordered`). `NoKindIsMixed` and
`ReturnInterruptsNobody` follow by the same counting: if anything were left, the list
would be one short. Two more invariants are needed for the rest: `CauseInv`, that a
driver about to raise, and a worker that is gone, have a cause in `SomethingFailed`, and
`StopInv`, which workers the stop has reached at each of its steps. With them
`EveryoneIsStopped` and the refinement `PoolKeepsPromise` follow: a step of the pool
delivers one answer (`DeliverStep`), decides the block (`DecideStep`), fails, or stutters
(`QuietStep`).

`WeightTransfer_proofs`, for every number of ranks, every replica size, every sequence of
weights and every bucket size. A worker reads a buffer that another process writes, so
the invariant says for every pair of positions of sender and worker whether they can
occur together and what lies between them (`SenderPlace`, `MessagePlace`,
`MessageContent`, `WorkerPlace`); `Regions` keeps the entries of a bucket aligned and
disjoint and says whose bytes they hold once copied, which rests on `AlignUp`; `Reading`
that a load under way finds them in place; `Progress` that every weight taken so far is
loaded or in the bucket; `Link` ties the workers of a replica to the rank that started
them. From these follow `TypeCorrect`, `BucketsFit`, `NothingIsTorn`, `SyncIsWhole` and
`BufferIsFree`.

`TrainerCheckpoint_proofs`, for every finite non-empty set of shards and every
`LastStep`, `SaveFreq >= 1`, `MaxKeep` and number of launches. The tracker itself is no
induction hypothesis, because it is torn while it is written, so the invariant speaks of
the last finished save: `SavedInv` says that the tracker is absent, torn or names it, and
`ProgressInv` that the run works on a later step with the data loader in step. From these
follow `TypeCorrect`, `NoRepetition` and `DataInStep`. `TrackerIsSound` needs
`MaxKeep # 1` (`keep_one` shows why) and, in addition, that what retention removes is
older than the last finished save (`KeptInv`), so that its shards stay (`FilesInv`).
`RetentionHolds` counts: what a run wrote is in `previous_saved_paths`, or is the step
being saved while there is room for it (`RoomInv`, also after a kill in the middle).

`CheckpointEval_proofs`, for any checkpoints, configurations (hence schedules) and number
of launches. The file alone is no induction hypothesis, because every save installs the
process's document: `DocumentInv` says of both that they are fit to be saved (`Sound`) and
that the process's has every completed row of the file (`Kept`), so that a failure, a kill
or the failure handler's save can come at any point. `LoopInv` accounts for every
checkpoint (ahead, at work, retained or completed), which is why a file that says
completed is; `RowInv` and `InitialInv` say what rows there are at each point of the loop
and of the initial base, where the schedules differ; `DirectoryInv` that a merged directory
is owned by a context manager or already reported as left over. Beside it `OneCheckpoint` is
kept: a schedule that retains nothing owns directories of the current checkpoint only, so that
no checkpoint is merged before the previous one was deleted. `SoundRows`, `HonestFile`,
`DirectoriesAreRemoved` and the action property `ResultsStay` follow. No fairness is used.

`Rollout_proofs`, for any prompts, sessions, outputs, configurations and losses. The poll
thread works on a snapshot of any age, so the invariant speaks of TransferQueue, buffer and
snapshot together: a status is in the snapshot or in the buffer only with all trajectories
of its prompt (`PromptInv`), which holds because a prompt publishes last and a partition is
added under the lock; keys are of this batch or of earlier ones and an earlier group is
finished (`KeyInv`, `TagInv`), so that nothing old can pass for a failure or keep a sample
waiting; what lies in the TransferQueue is of the batch at hand or held by the step
(`HeldInv`). `WholeSamples`, `CausedExceptions` and `ExactCleanups` follow.

`Rollout_proofs` also, for prompt scores of any requests, lengths, schedules and chunk size. A result is
looked at only when it is complete, so the invariant speaks of it on the way: a copy in
flight carries the score of its cell (`Flights`), a cell before the request's position is
right or has a copy in flight (`Filled`), and a request is asked for until its prompt is
through (`PromptPosition`). That the chunks of a step are exactly its rows (`ChunksCover`) is the
arithmetic it rests on. `ScoresAreComplete`, `ScoresComeWithTheToken` and `ProjectionFits`
follow.

`Evaluation_proofs`, first for `ModelEval` and any number of models and processes. As long as no two processes
overlapped, at most one runs (`Alone`) and `Place` says what the directory holds at each
of its control points; `Truth`, the agreement of summary and files, is what it leaves.
`OneAttempt` and `SummaryAgrees` follow.

`Evaluation_proofs` then, for `Ersr` with any models, questions, rollouts, series, caps, batch
sizes, GPUs and workers, and every draw, shuffle and answer. `ErsrInv` says what each phase
leaves. `ErsrReservoirs`: a reservoir holds distinct candidates of its series, as many as the
cap and the candidates seen allow, whichever it has replaced (`ReservoirGrows`); candidates
are the eligible steps, one each (`CandidatesAre`, `EligibleCount`), so that a shuffled
reservoir is a selection (`SelectionIs`, `ErsrSelections`). Batches put together again are what
was divided (`Rejoined`), so a phase answers under a request's name what that request asked,
provided that names differ (`Answers`); they do, because cases of one model differ in series,
record or step and the teacher's names carry the model besides. `ErsrAnswers` says that
what is skipped and what is replaced follows from the teacher's answers alone
(`TeacherSkips`, `TeacherSteps`), and `ErsrReports` that a model's report names each case once
with what `evaluate_ersr_case` gives it alone: the samples of an arm are the same in the same
order, with the same verifier unless the data set is in `SciBench` (`ArmAgrees`), also where the budget is spent and one sample stands for `mc_k`
(`AlikeSamples`). `ErsrShares` follows the trainer's workers: places with one remainder make a
share (`AssignedAre`), shares are disjoint and cover the cases (`SharesAre`), and a worker's
list names the first of its share (`TrainedCase`). `CasesReported`, `Agreement` and
`LimitsHold` follow; the last also needs that of several batches only the last is not full
(`FirstIsFull`) and that small batches are no more than the GPUs (`FewBatches`).

`Actor_proofs`, for every length, division into steps, probe, cap and number of layers.
`LayoutIsIsolated` is the heart: in any layout whose prefixes lie in the rollout, what a
token sees sees nothing the token does not see, which by the arithmetic of branches
(`BranchHolds`, `SameBranch`) holds across any chain of layers. `PipelineInv` says
that the layout at hand is the one of the rollout and its metadata; `Isolation` and
`RaisesWithCause` follow (`RaisesOnlyForProbes`: a rollout without a step to probe is never
refused for its probes). `PackingChangesNothing` compares two passes: when the tokens of one
are embedded in the other and see the same of each other there, they have the same states
after every layer (`SamePass`, `HiddenIsTop`); prompt, prefix and probe alone are embedded in
the packed sequence at their branch (`BranchLooksAlone`), the rollout alone at its front.
`NumbersInv` carries this to the scores at hand, and `GatesAreOfOwnStep` says that the gate
of a token is made from the two probes around its own step (`OwnStep`).

`Balancing_proofs`, for any lengths and any number of parts. `IsHeap` is the invariant of the
differencing method: the states in the heap hold every item once between them, each is a
division of what it holds, sets within a state are even or have items to spare, and no state
is wider than the widest the method started from. Merging two states keeps this
(`MergeIsState`, `MergedIsHeap`), which for the spread is the pairing of the largest set of one
with the smallest of the other; there is always one state that comes first (`NextIsFirst`),
although the code's order compares sums, sizes and items in turn. From the last state left
(`DifferencingEnds`) follow `SplitDivides` and `MicroBatchesDivide` (every item in one part, no
part empty, equal sizes where they are asked for: the assertions of the code cannot fail) and
`SplitIsBalanced` (with equal sizes two parts differ by no more than a block of neighbours).
`Restored` says that the inverse permutation undoes the order of the micro-batches.

The second half of `Actor_proofs` rests on these, for any number of ranks, any batch and
every method. `Dispatched` says what the trainer hands to the ranks (`PlanIs`), `Control` what
every rank may be doing. `View` is the collective a rank comes to next with the mini-batch,
the branch and the micro-batch it brings; `SameView` says that it is the same for all ranks
that have not raised, so a rank may be a local step ahead but never a collective. `RankOk`
ties a rank's parts and counters to its rows. Above all, the number of micro-batches is a
function of the rows of all ranks (`Settled`: the least number from the largest lower bound
on for which every rank keeps the limit), which is there because with one row a part every
limit is kept (`SettledIs`); so the search ends on all ranks at once and both branches get the
same number. `RanksMatch` and `Balanced` follow; for `RowsArrive` the rows a rank has scored
are followed in addition through its micro-batches (`Delivered`).

For what an update computes, gradients are bags of tokens and reductions are their sums over
ranks. `Gathered` says of each rank at each of its control points which micro-batches of which
ranks are in its local sum (`IsAccumulated`), in its reduced gradient (`IsReduced`), in the
norms measured (`IsNormed`) and in its weights (`IsApplied`), whether a method reduces at every
micro-batch or, with the reduction deferred, at the last. A deferred gradient is nowhere but
in the local sums up to the last micro-batch, and that of the correct rows nowhere but in what
was saved while the error rows run: that is why none of them can be stated alone. The
arithmetic is that of dividing a mini-batch:
the micro-batches of all ranks have its keys once each (`MiniBatchesDiffer`, `BranchesMakeWhole`),
so their sums add up (`RanksAddUp`). `GradientsAreWhole` and `NormsAreMeasured` follow.
`Pooled` follows the metrics beside it: a report is the count and the length of one row
(`ReportIs`), what a mini-batch publishes is the sum of the ranks' reports (`AggregateIs`), and
the sums over mini-batches are those over all rows (`NumeratorIs`, `TotalIs`); both sums were
divided by the same numbers on the way, so their quotient is the mean (`MeansPooled`).

The type invariants of `GpuPool`, `TrainerCheckpoint`, `WeightTransfer`, `CheckpointEval` and
`Rollout` are theorems (`TypeCorrect`); `Types` and `ScoreTypes` of the other components are
part of their invariants.

The theorems assume what the modules' `ASSUME`s say of the constants, and nothing else but
`MaxKeep # 1` in `TrackerIsSound`. For `ActorUpdate` that is: batches are not empty and their
rows are within the limit on the tokens of a micro-batch, which `rearrange_micro_batches` asserts.
For `Ersr`: sizes are positive (the configuration is validated), no dataset is named twice
(`utils/ersr.py` 60), a model has at least one question, a question has `n` rollouts, and the
splitter makes no empty step, so a step ends later than the one before it; `SciBench` is any set of names.

Only model-checked: every liveness property, and `HangsOnlyWhen`, which uses `ENABLED`.

## Findings

* `cleanup_surfaces`: `sys.exc_info()[0] is None` is tested inside an `except` clause,
  where it is never true; the failure the comment wants surfaced is printed only.
* `keep_one`: with one checkpoint kept, a kill after `register_checkpoint` and before the
  tracker is written leaves a run that cannot be resumed.

Met on the way, and part of the models: with several validation batches an old snapshot of
the poll thread brings cleared keys of the first back with the same `global_steps`, and the
sample of the second returns keys without data (`SampleIsWhole` therefore speaks of live keys
for the batch at hand only; nothing of another step gets in, so one validation batch, the
default, is safe); SUM metrics are averaged over ranks and over mini-batches on their way, so
R2OPL's published counts are the totals divided by both, while `utils/r2opl.py` 1274-1276
speaks of sums (the means are right, `MeansArePooled`); `_stop_workers` gives up after its joins and
returns without looking, so a worker that ignores SIGTERM for ten seconds may still hold
its GPU while the next model loads (`ersr_evaluation.py` 8-10 says otherwise); a resumed
checkpoint evaluation may complete a file that still has completed rows of checkpoints
that have vanished, and the next launch refuses that file (3105-3109); two direct-model
evaluations that look at an empty directory at once mix their results (the hypothesis of
`AttemptsAreNotMixed`); "small ERSR selections should still use every available worker"
(2149) is not exact, since five requests on four GPUs make three jobs; a vLLM worker
that fails without a reply leaves its sender waiting (the hypothesis of `SyncEnds`); an
agent loop worker that dies leaves `sample` waiting for ever (the hypothesis of
`SampleEnds`); the prompts' own keys are cleared by nobody and stay in the TransferQueue
and in every poll; a kill inside the write of the tracker makes every later automatic
resume fail; a launch after the last step trains one more; retention forgets the
checkpoints of earlier launches, so `KeepsAtMost` speaks of one run's; a rank that raises
in its forward pass leaves its peers in the collective.

## Not modelled

* Answer verification, prompt rendering and the splitter's text rules: parsing of text. Of
  grading only the choice of the verifier is modelled (`Ersr!VerifierOf`), so nothing is said
  of how the two verifiers' rewards of one sample relate.
* The arithmetic of losses and advantages (`algorithms/`, `utils/r2opl*.py`,
  `verl/trainer/distillation`, `verl/trainer/ppo/core_algos.py`): floating-point numbers
  without control state. Which rows and tokens a loss is about, and how its parts are
  put together, is in `ActorUpdate` and `PackedProbe`.
* `ActorUpdate`: shuffling, several epochs, the critic, forced groups, pipeline and sequence parallelism, the
  gradient scaler of float16, offloading. `PackedProbe`: group difficulty, the sampled probes
  of `r2opl_v2`.
* Configuration loading, data set reading, scripts; the patches of vLLM and Transformers.
* `Rollout`: ReMax baselines and the `batch_size` form of `sample`, which this repository
  does not use. `TrainerCheckpoint`: critic, asynchronous and remote checkpoints.
* `WeightTransfer`: the delta and the quantised transfers, the engine's sleep and wake-up,
  the NCCL watchdog that ends a hanging gather after minutes, reconnection of sockets.
* `ModelEval`: the audit copies of rollouts. `Ersr`: seeds, percentages, wording.
* The rest of the vendored verl. `main_ppo_sync.py` is the trainer this repository starts;
  the fully asynchronous and the one-step-off trainers, the Megatron, VeOmni, SGLang and
  TensorRT back ends, the other checkpoint engines and the model zoo are never reached
  from `training_entrypoint.py`. Of the roughly 144 000 lines under `src/` that are
  implementation, more than nine tenths are this vendored code, and most of it describes
  how tensors are sharded, packed and multiplied; the models cover what remains of
  control, order and failure on the paths R2OPL runs.

## Plan

Done: `GpuPool` and its refinement of `BatchRun`, `CheckpointEval`, `Rollout`,
`TrainerCheckpoint`, `WeightTransfer`, `PromptScores`, `ModelEval`, `PackedProbe`,
`SeqlenBalancing`, `ActorUpdate` and `Ersr`, each with proofs.

Left:

1. Two checkpoint evaluations with one `run_name`.
2. Pure algorithms against reference definitions: token spans of steps, group advantages,
   shard inspection.
