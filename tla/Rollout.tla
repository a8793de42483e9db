------------------------------ MODULE Rollout ------------------------------
(***************************************************************************)
(* Rollouts of the synchronous trainer: agent loop workers put             *)
(* trajectories into the TransferQueue, a poll thread copies their tags    *)
(* into the ReplayBuffer, and the trainer samples a batch, trains or       *)
(* validates on it and clears it (verl/verl/trainer/main_ppo_sync.py).     *)
(*                                                                         *)
(* A prompt is one slot of a batch; its uid is a fresh uuid4 in the code,  *)
(* here the identity of the batch and the slot.  A key is either a         *)
(* prompt's own key, which carries the status of the group, or the key     *)
(* {uid}_{session}_{index} of one trajectory.  A tag keeps the two entries *)
(* the protocol reads, status and global_steps.  The tensors are left out. *)
(***************************************************************************)
EXTENDS Integers, FiniteSets, Functions

CONSTANTS
    Slots,          \* prompts
    N,              \* sessions per prompt: rollout.n, val_kwargs.n
    MaxOutputs,     \* bound: outputs of one agent loop
    LoadedStep,     \* global_steps after _load_checkpoint
    Configurations, \* runs of the trainer, see ConfigType
    MaxLost         \* bound: prompts whose worker dies

Pad == "pad"

ConfigType ==
    [slots : SUBSET Slots,        \* prompts of a batch
     multiple : Nat \ {0},        \* _get_required_batch_multiple
     last : Nat,                  \* total_training_steps
     valSteps : SUBSET Nat,       \* steps that validate; LoadedStep is val_before_train
     valBatches : Nat \ {0}]      \* len(val_dataloader)

ASSUME SizesAssumption ==
    /\ IsFiniteSet(Slots) /\ Pad \notin Slots
    /\ N \in Nat \ {0} /\ {MaxOutputs, LoadedStep, MaxLost} \subseteq Nat
ASSUME ConfigAssumption ==
    \A c \in Configurations :
        /\ c.slots \subseteq Slots /\ c.multiple \in Nat \ {0} /\ c.last \in Nat
        /\ c.valSteps \subseteq Nat /\ c.valBatches \in Nat \ {0}
        /\ LoadedStep < c.last

VARIABLES
    conf,       \* the configuration of this run
    tq,         \* TransferQueue: key -> tag
    buf,        \* ReplayBuffer.partitions: key -> tag
    poll,       \* the poll thread: "list", "add", "failed", "stopped"
    snap,       \* data: what its last kv_list answered and it has not added yet
    stop,       \* _stop_event
    pc,         \* the trainer's control point
    why,        \* the exception it left fit with
    step,       \* global_steps
    part,       \* partition it works on: "train" or "val"
    batch,      \* number of the validation batch, 0 in training
    got,        \* keys of the batch sample returned
    held,       \* keys of the training batch, kept during validation
    session,    \* session[q][i]: the agent loops of the last submitted batch
    prompt      \* prompt[q]: their _run_prompt tasks

store == <<tq, buf>>
poller == <<poll, snap>>
fit == <<step, part, batch, got, held>>
trainer == <<pc, why, fit>>
workers == <<session, prompt>>
state == <<store, poller, stop, trainer, workers>>
vars == <<conf, state>>

-----------------------------------------------------------------------------
(* Keys, tags and the dictionaries that hold them.                         *)

NoStep == -1
Partitions == {"train", "val"}
Tag(status, s) == [status |-> status, step |-> s]
PromptKey(u) == [uid |-> u, session |-> 0, index |-> 0]
Trajectory(u, i, j) == [uid |-> u, session |-> i, index |-> j]
IsTrajectory(k) == k.session # 0

Uid(q) == [part |-> part, step |-> step, batch |-> batch, slot |-> q]
CurrentKeys == {k \in DOMAIN tq : k.uid \in {Uid(q) : q \in conf.slots}}

Empty == [k \in {} |-> Tag("none", NoStep)]
Without(f, keys) == Restrict(f, DOMAIN f \ keys)

\* Mutant: an entry that is there stays as it is.
MergeKeepsOld(f, g) ==
    [k \in DOMAIN f \cup DOMAIN g |-> IF k \in DOMAIN f THEN f[k] ELSE g[k]]

\* partition[key].update(tags): an entry without global_steps keeps the old one.
Merge(f, g) ==
    [k \in DOMAIN f \cup DOMAIN g |->
        IF k \notin DOMAIN g THEN f[k]
        ELSE IF k \notin DOMAIN f \/ g[k].step # NoStep THEN g[k]
        ELSE Tag(g[k].status, f[k].step)]

-----------------------------------------------------------------------------
Init ==
    /\ conf \in Configurations
    /\ tq = Empty /\ buf = Empty
    /\ poll = "list" /\ snap = Empty /\ stop = FALSE
    /\ pc = "fit" /\ why = "none"
    /\ step = LoadedStep /\ part = "val" /\ batch = 0 /\ got = {} /\ held = {}
    /\ session = [q \in Slots |-> [i \in 1..N |-> "none"]]
    /\ prompt = [q \in Slots |-> "none"]

-----------------------------------------------------------------------------
(* The poll thread.                                                        *)

PollList ==
    /\ poll = "list" /\ ~stop
    /\ snap' = tq
    /\ poll' = IF DOMAIN tq = {} THEN "list" ELSE "add"
    /\ UNCHANGED <<store, stop, trainer, workers>>

\* kv_list raises: recorded for sample to find.
PollFails ==
    /\ poll = "list" /\ ~stop
    /\ poll' = "failed"
    /\ UNCHANGED <<store, snap, stop, trainer, workers>>

\* Mutant: the lock is released between the prompts of a partition and the rest.
AddInTwoParts(p) ==
    LET items == {k \in DOMAIN snap : k.uid.part = p}
        prompts == {k \in items : ~IsTrajectory(k)}
        first == IF prompts = {} THEN items ELSE prompts
    IN  /\ poll = "add" /\ items # {}
        /\ buf' = Merge(buf, Restrict(snap, first))
        /\ snap' = Without(snap, first)
        /\ poll' = IF DOMAIN snap' = {} THEN "list" ELSE "add"
        /\ UNCHANGED <<tq, stop, trainer, workers>>

\* add of one partition, under the lock.
Add(p) ==
    LET items == {k \in DOMAIN snap : k.uid.part = p}
    IN  /\ poll = "add" /\ items # {}
        /\ buf' = Merge(buf, Restrict(snap, items))
        /\ snap' = Without(snap, items)
        /\ poll' = IF DOMAIN snap' = {} THEN "list" ELSE "add"
        /\ UNCHANGED <<tq, stop, trainer, workers>>

\* The loop ends after close; an exception of kv_list then goes unrecorded.
PollStops ==
    /\ poll = "list" /\ stop
    /\ poll' = "stopped"
    /\ UNCHANGED <<store, snap, stop, trainer, workers>>

-----------------------------------------------------------------------------
(* The workers: one _run_prompt task per prompt, N agent loops in each.    *)

\* _agent_loop_postprocess: n outputs; none is no key at all.
SessionPuts(q, i, n) ==
    /\ prompt[q] = "running" /\ session[q][i] = "running" /\ ~stop
    /\ tq' = Merge(tq, [k \in {Trajectory(Uid(q), i, j) : j \in 0..(n - 1)} |->
                            Tag("success", step)])
    /\ session' = [session EXCEPT ![q][i] = "ended"]
    /\ UNCHANGED <<buf, poller, stop, trainer, prompt>>

SessionFails(q, i) ==
    /\ prompt[q] = "running" /\ session[q][i] = "running" /\ ~stop
    /\ session' = [session EXCEPT ![q][i] = "failed"]
    /\ UNCHANGED <<store, poller, stop, trainer, prompt>>

\* Mutant: gather without return_exceptions; the first failure is published at once.
SessionsOverOrOneFailed(q) ==
    \/ \A i \in 1..N : session[q][i] # "running"
    \/ \E i \in 1..N : session[q][i] = "failed"

SessionsOver(q) == \A i \in 1..N : session[q][i] # "running"

GroupStatus(q) == IF \E i \in 1..N : session[q][i] = "failed" THEN "failure" ELSE "finished"

Publish(q) ==
    /\ prompt[q] = "running" /\ SessionsOver(q) /\ ~stop
    /\ tq' = Merge(tq, [k \in {PromptKey(Uid(q))} |-> Tag(GroupStatus(q), NoStep)])
    /\ prompt' = [prompt EXCEPT ![q] = "published"]
    /\ UNCHANGED <<buf, poller, stop, trainer, session>>

\* The worker dies, or the put of the status fails: nobody hears of the prompt again.
Lose(q) ==
    /\ prompt[q] = "running" /\ ~stop
    /\ Cardinality({r \in Slots : prompt[r] = "lost"}) < MaxLost
    /\ prompt' = [prompt EXCEPT ![q] = "lost"]
    /\ UNCHANGED <<store, poller, stop, trainer, session>>

-----------------------------------------------------------------------------
(* The trainer: fit, step, _validate.                                      *)

Submit(s, p, b) == pc' = "generate" /\ step' = s /\ part' = p /\ batch' = b

\* fit is left; the finally of run closes the buffer, then the TransferQueue.
Leave(how, cause) == pc' = how /\ why' = cause /\ stop' = TRUE
Raise(cause) == Leave("raised", cause)
Stay == UNCHANGED <<why, stop>>

FitBegins ==
    /\ pc = "fit"
    /\ IF LoadedStep \in conf.valSteps THEN Submit(step, "val", 1) ELSE Submit(step + 1, "train", 0)
    /\ UNCHANGED <<store, poller, stop, why, got, held, workers>>

\* AgentLoopManagerTQ.generate_sequences: mark the prompts, then dispatch.
MarkRunning ==
    buf' = Merge(buf, [k \in {PromptKey(Uid(q)) : q \in conf.slots} |-> Tag("running", step)])

GenerateSequences ==
    /\ pc = "generate"
    /\ MarkRunning
    /\ session' = [q \in Slots |-> [i \in 1..N |-> IF q \in conf.slots THEN "running" ELSE "none"]]
    /\ prompt' = [q \in Slots |-> IF q \in conf.slots THEN "running" ELSE "none"]
    /\ pc' = "sample"
    /\ UNCHANGED <<tq, poller, stop, why, fit>>

\* ray.get raises: an agent loop worker is dead.
DispatchFails ==
    /\ pc = "generate"
    /\ MarkRunning
    /\ Raise("dispatch")
    /\ UNCHANGED <<tq, poller, fit, workers>>

\* The head of sample's loop, before its sleep.
SampleChecks ==
    /\ pc = "sample"
    /\ IF poll = "failed" THEN Raise("poll") ELSE pc' = "look" /\ Stay
    /\ UNCHANGED <<store, poller, fit, workers>>

\* Mutant: global_steps is not compared.
MatchingAnyStep == {k \in DOMAIN buf : k.uid.part = part}

Matching == {k \in DOMAIN buf : k.uid.part = part /\ buf[k].step = step}
WithStatus(status) == {k \in Matching : buf[k].status = status}

\* Under the lock: raise at a failure, wait for the running, raise if empty.
SampleLooks ==
    /\ pc = "look"
    /\ \/ /\ WithStatus("failure") # {}
          /\ Raise("failure") /\ UNCHANGED got
       \/ /\ WithStatus("failure") = {} /\ WithStatus("running") # {}
          /\ pc' = "sample" /\ Stay /\ UNCHANGED got
       \/ /\ WithStatus("failure") \cup WithStatus("running") = {}
          /\ IF WithStatus("success") = {}
             THEN Raise("empty") /\ UNCHANGED got
             ELSE got' = WithStatus("success") /\ pc' = "got" /\ Stay
    /\ UNCHANGED <<store, poller, step, part, batch, held, workers>>

\* upsample_batch_to_divisible_size.
PadSize(n) == (conf.multiple - (n % conf.multiple)) % conf.multiple
PadKeys(n) == {Trajectory(Uid(Pad), i, 0) : i \in 1..PadSize(n)}

\* Mutant: the padding is forgotten by the batch that is cleared.
TrainOnUnpadded ==
    /\ pc = "got" /\ part = "train"
    /\ tq' = Merge(tq, [k \in PadKeys(Cardinality(got)) |-> Tag("success", step)])
    /\ held' = got
    /\ IF step \in conf.valSteps THEN Submit(step, "val", 1)
       ELSE pc' = "cleanup" /\ UNCHANGED <<step, part, batch>>
    /\ UNCHANGED <<buf, poller, stop, why, got, workers>>

\* The rest of step: pad the batch, train on it; then validate when it is time.
TrainOn ==
    /\ pc = "got" /\ part = "train"
    /\ tq' = Merge(tq, [k \in PadKeys(Cardinality(got)) |-> Tag("success", step)])
    /\ held' = got \cup PadKeys(Cardinality(got))
    /\ IF step \in conf.valSteps THEN Submit(step, "val", 1)
       ELSE pc' = "cleanup" /\ UNCHANGED <<step, part, batch>>
    /\ UNCHANGED <<buf, poller, stop, why, got, workers>>

\* Any worker group call or kv_batch_get may raise.
StepRaises ==
    /\ pc \in {"got", "cleanup"}
    /\ Raise("step")
    /\ UNCHANGED <<store, poller, fit, workers>>

\* Mutant: validation clears what the step holds, too.
FinishedAll == got \cup held

\* The batch that is cleaned up: of one validation round, or of the step.
Finished == IF part = "val" THEN got ELSE held

ClearTransferQueue ==
    /\ \/ pc = "got" /\ part = "val"
       \/ pc = "cleanup"
    /\ tq' = Without(tq, Finished)
    /\ pc' = "remove"
    /\ UNCHANGED <<buf, poller, stop, why, fit, workers>>

\* What comes after a cleanup: the next validation batch, training after
\* val_before_train, the step's own cleanup, the next step, or the end.
AfterCleanup ==
    \/ /\ part = "val" /\ batch < conf.valBatches
       /\ Submit(step, "val", batch + 1) /\ Stay
    \/ /\ part = "val" /\ batch = conf.valBatches /\ step = LoadedStep
       /\ Submit(step + 1, "train", 0) /\ Stay
    \/ /\ part = "val" /\ batch = conf.valBatches /\ step # LoadedStep
       /\ pc' = "cleanup" /\ part' = "train" /\ batch' = 0 /\ UNCHANGED step /\ Stay
    \/ /\ part = "train" /\ step < conf.last
       /\ Submit(step + 1, "train", 0) /\ Stay
    \/ /\ part = "train" /\ step >= conf.last
       /\ Leave("done", "none") /\ UNCHANGED <<step, part, batch>>

RemoveFromBuffer ==
    /\ pc = "remove"
    /\ buf' = Without(buf, Finished)
    /\ got' = {}
    /\ held' = IF part = "train" THEN {} ELSE held
    /\ AfterCleanup
    /\ UNCHANGED <<tq, poller, workers>>

-----------------------------------------------------------------------------
Poll == PollList \/ PollFails \/ PollStops \/ \E p \in Partitions : Add(p)
Work ==
    \E q \in Slots :
        \/ \E i \in 1..N : SessionFails(q, i) \/ \E n \in 0..MaxOutputs : SessionPuts(q, i, n)
        \/ Publish(q)
Trainer ==
    \/ FitBegins \/ GenerateSequences \/ DispatchFails \/ SampleChecks \/ SampleLooks
    \/ TrainOn \/ StepRaises \/ ClearTransferQueue \/ RemoveFromBuffer

Next == (Poll \/ Work \/ Trainer \/ \E q \in Slots : Lose(q)) /\ UNCHANGED conf

\* A thread, a trainer and workers that run; a failure and a loss need not happen.
Fairness ==
    /\ WF_state(Poll) /\ WF_state(Trainer)
    /\ \A q \in Slots :
          /\ \A i \in 1..N : WF_state(\E n \in 0..MaxOutputs : SessionPuts(q, i, n))
          /\ WF_state(Publish(q))

Spec == Init /\ [][Next]_vars /\ Fairness

-----------------------------------------------------------------------------
(* Properties.                                                             *)

Uids == [part : Partitions, step : Nat, batch : Nat, slot : Slots \cup {Pad}]
Keys == [uid : Uids, session : Nat, index : Nat]
Statuses == {"running", "success", "finished", "failure"}
Tags == [status : Statuses, step : Nat \cup {NoStep}]
IsStore(f) == DOMAIN f \subseteq Keys /\ \A k \in DOMAIN f : f[k] \in Tags

\* The type invariant: the two dictionaries, the poll thread's copy, and the
\* control states of ReplayBuffer, fit and _run_prompt.
TypeOK ==
    /\ conf \in Configurations
    /\ IsStore(tq) /\ IsStore(buf) /\ IsStore(snap)
    /\ poll \in {"list", "add", "failed", "stopped"}
    /\ stop \in BOOLEAN
    /\ pc \in {"fit", "generate", "sample", "look", "got", "cleanup", "remove", "done", "raised"}
    /\ why \in {"none", "dispatch", "poll", "failure", "empty", "step"}
    /\ step \in Nat /\ part \in Partitions /\ batch \in 0..conf.valBatches
    /\ got \subseteq Keys /\ held \subseteq Keys
    /\ session \in [Slots -> [1..N -> {"none", "running", "ended", "failed"}]]
    /\ prompt \in [Slots -> {"none", "running", "published", "lost"}]

\* sample returns the groups of this step and partition, whole and alone: every
\* prompt of the batch has published its end, no session of it failed, every
\* trajectory put for it is in the batch, and nothing of an earlier step or of
\* the other partition, however late or old the snapshots of the poll thread are.
\* The data of this batch's keys is still in the TransferQueue.
SampleIsWhole ==
    pc = "got" =>
        /\ \A q \in conf.slots : prompt[q] = "published" /\ GroupStatus(q) = "finished"
        /\ \A k \in CurrentKeys : IsTrajectory(k) => k \in got
        /\ \A k \in got :
            /\ k.uid.step = step /\ k.uid.part = part
            /\ k.uid.batch = batch => k \in DOMAIN tq

\* Cleanups take exactly what is over: the training batch of a step stays in the
\* TransferQueue, padding included, through validation until the step's metrics
\* are computed; when a step submits its prompts, no trajectory of an earlier step
\* or validation is left.
CleanupIsExact ==
    /\ ~(pc = "remove" /\ part = "train") => held \subseteq DOMAIN tq
    /\ (pc = "generate" /\ part = "train") => \A k \in DOMAIN tq : ~IsTrajectory(k)

\* A sample raises for a reason that is there: a group with a failed session
\* whose siblings have stopped writing, a batch in which every agent loop ended
\* without output, or a poll thread that failed.
RaisesWithCause ==
    /\ why = "failure" =>
          \E q \in Slots :
              /\ \E i \in 1..N : session[q][i] = "failed"
              /\ \A i \in 1..N : session[q][i] # "running"
    /\ why = "empty" =>
          /\ \A q \in conf.slots, i \in 1..N : session[q][i] = "ended"
          /\ \A k \in CurrentKeys : ~IsTrajectory(k)
    /\ why = "poll" => poll = "failed"

\* A sample that waits comes to an end, unless the worker of one of its prompts
\* is lost.
SampleEnds ==
    pc \in {"sample", "look"} ~>
        (pc \notin {"sample", "look"} \/ \E q \in Slots : prompt[q] = "lost")
=============================================================================
