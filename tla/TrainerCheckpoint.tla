------------------------- MODULE TrainerCheckpoint -------------------------
(***************************************************************************)
(* Checkpoints of the trainer: _save_checkpoint and _load_checkpoint of    *)
(* PPOTrainer, the shard files and the retention of the FSDP checkpoint    *)
(* manager, the tracker file, and runs that are killed anywhere and        *)
(* launched again with resume_mode auto.                                   *)
(*                                                                         *)
(* A shard file is written to a temporary name and renamed, so it is the   *)
(* work of one run or absent; which run wrote it stands for its content.   *)
(* data.pt and the tracker are opened in place: a run killed between the   *)
(* opening and the end of the write leaves them torn.  There is no critic, *)
(* and async_save and del_local_ckpt_after_load are off, as in             *)
(* configs/base.yaml, whose total_epochs is never what ends the loop.      *)
(***************************************************************************)
EXTENDS Integers, Sequences, FiniteSets, Functions

CONSTANTS
    Shards,     \* files of a checkpoint: model, optimizer and extra state per rank
    LastStep,   \* total_training_steps
    SaveFreq,   \* save_freq
    MaxKeep,    \* max_actor_ckpt_to_keep, 0 for null
    MaxRuns     \* bound: launches of the training

ASSUME ShardsAssumption == IsFiniteSet(Shards) /\ Shards # {}
ASSUME SizesAssumption ==
    /\ LastStep \in Nat \ {0} /\ SaveFreq \in Nat \ {0}
    /\ MaxKeep \in Nat /\ MaxRuns \in Nat

VARIABLES
    files,      \* files[s][f]: the run that wrote shard f of global_step_<s>/actor
    data,       \* data[s]: content of global_step_<s>/data.pt
    tracker,    \* content of latest_checkpointed_iteration.txt
    pc, run,
    step,       \* global_steps
    pos,        \* batches the train_dataloader has delivered
    kept,       \* previous_saved_paths
    saved       \* history: the last step whose save finished

disk == <<files, data, tracker>>
vars == <<disk, pc, run, step, pos, kept, saved>>

Absent == -1
Torn == -2
NoFile == [run |-> 0, pos |-> Absent]
TornFile == [run |-> 0, pos |-> Torn]
AllSteps == 0..(LastStep + MaxRuns)     \* a run launched after the last step does one more
NoShards == [f \in Shards |-> 0]

Init ==
    /\ files = [s \in AllSteps |-> NoShards]
    /\ data = [s \in AllSteps |-> NoFile]
    /\ tracker = Absent
    /\ pc = "off" /\ run = 0 /\ step = 0 /\ pos = 0 /\ kept = <<>> /\ saved = 0

-----------------------------------------------------------------------------
(* _load_checkpoint.                                                       *)

Exists(s) == files[s] # NoShards \/ data[s] # NoFile

\* Mutant: a tracker that cannot be read counts as missing.
TrackedOrScratch == IF tracker \in {Absent, Torn} THEN 0 ELSE tracker

\* find_latest_ckpt_path: 0 without a tracker or without its folder; int() of a
\* torn tracker raises.
Tracked == IF tracker = Absent \/ (tracker # Torn /\ ~Exists(tracker)) THEN 0 ELSE tracker

Loadable(s) ==
    \/ s = 0
    \/ /\ s # Torn
       /\ \A f \in Shards : files[s][f] # 0
       /\ data[s] # TornFile

\* Mutant: the data loader starts again.
PositionForgotten(s) == 0

Position(s) == IF s = 0 \/ data[s] = NoFile THEN 0 ELSE data[s].pos

Launch ==
    /\ pc = "off" /\ run < MaxRuns
    /\ run' = run + 1
    /\ IF Loadable(Tracked)
       THEN pc' = "train" /\ step' = Tracked + 1 /\ pos' = Position(Tracked)
       ELSE UNCHANGED <<pc, step, pos>>
    /\ kept' = <<>>
    /\ UNCHANGED <<disk, saved>>

-----------------------------------------------------------------------------
(* fit.                                                                    *)

IsLastStep == step >= LastStep

\* The end of an iteration: leave fit after the last step.
EndOfStep ==
    /\ pc' = IF IsLastStep THEN "off" ELSE "train"
    /\ step' = IF IsLastStep THEN step ELSE step + 1

Step ==
    /\ pc = "train"
    /\ pos' = pos + 1
    /\ IF IsLastStep \/ step % SaveFreq = 0
       THEN pc' = "save" /\ UNCHANGED step
       ELSE EndOfStep
    /\ UNCHANGED <<disk, run, kept, saved>>

-----------------------------------------------------------------------------
(* _save_checkpoint.                                                       *)

\* previous_saved_paths[:n] are removed, actor folders only.  One step: a kill
\* inside rmtree leaves parts of folders, which are not loaded unless MaxKeep = 1.
Drop(n, paths) ==
    files' = [s \in AllSteps |-> IF s \in Range(SubSeq(paths, 1, n)) THEN NoShards ELSE files[s]]

\* Mutant: no room for the new checkpoint is counted.
NeededRoomForOld == IF MaxKeep > 1 /\ Len(kept) >= MaxKeep THEN Len(kept) - MaxKeep ELSE 0

\* keep_start: room for the new checkpoint, except when only one is kept.
NeededRoom == IF MaxKeep > 1 /\ Len(kept) >= MaxKeep THEN Len(kept) - MaxKeep + 1 ELSE 0

EnsureCapacity ==
    /\ pc = "save"
    /\ Drop(NeededRoom, kept)
    /\ kept' = SubSeq(kept, NeededRoom + 1, Len(kept))
    /\ pc' = "shards"
    /\ UNCHANGED <<data, tracker, run, step, pos, saved>>

WriteShard(f) ==
    /\ pc = "shards" /\ files[step][f] # run
    /\ files' = [files EXCEPT ![step][f] = run]
    /\ UNCHANGED <<data, tracker, pc, run, step, pos, kept, saved>>

\* Mutant: no barrier before the checkpoint is registered.
SomeShardWritten == \E f \in Shards : files[step][f] = run

\* The barrier: every rank has written.
AllShardsWritten == \A f \in Shards : files[step][f] = run

Excess(paths) == IF MaxKeep > 0 /\ Len(paths) > MaxKeep THEN Len(paths) - MaxKeep ELSE 0

\* register_checkpoint, on rank 0.
RegisterCheckpoint ==
    LET paths == Append(kept, step)
        n == Excess(paths)
    IN  /\ pc = "shards" /\ AllShardsWritten
        /\ Drop(n, paths)
        /\ kept' = SubSeq(paths, n + 1, Len(paths))
        /\ pc' = "data"
        /\ UNCHANGED <<data, tracker, run, step, pos, saved>>

\* torch.save of the data loader's state.
OpenData ==
    /\ pc = "data" /\ pc' = "write_data"
    /\ data' = [data EXCEPT ![step] = TornFile]
    /\ UNCHANGED <<files, tracker, run, step, pos, kept, saved>>

WriteData ==
    /\ pc = "write_data" /\ pc' = "tracker"
    /\ data' = [data EXCEPT ![step] = [run |-> run, pos |-> pos]]
    /\ UNCHANGED <<files, tracker, run, step, pos, kept, saved>>

OpenTracker ==
    /\ pc = "tracker" /\ pc' = "write_tracker"
    /\ tracker' = Torn
    /\ UNCHANGED <<files, data, run, step, pos, kept, saved>>

WriteTracker ==
    /\ pc = "write_tracker"
    /\ tracker' = step /\ saved' = step
    /\ EndOfStep
    /\ UNCHANGED <<files, data, run, pos, kept>>

\* The run is killed, or an exception ends it.
Crash ==
    /\ pc # "off" /\ pc' = "off"
    /\ UNCHANGED <<disk, run, step, pos, kept, saved>>

-----------------------------------------------------------------------------
Next ==
    \/ Launch \/ Step
    \/ EnsureCapacity \/ (\E f \in Shards : WriteShard(f)) \/ RegisterCheckpoint
    \/ OpenData \/ WriteData \/ OpenTracker \/ WriteTracker
    \/ Crash

Spec == Init /\ [][Next]_vars

-----------------------------------------------------------------------------
(* Properties.                                                             *)

\* The type invariant: the folders, the tracker and the trainer's counters.
TypeOK ==
    /\ files \in [AllSteps -> [Shards -> 0..MaxRuns]]
    /\ data \in [AllSteps -> [run : 0..MaxRuns, pos : Nat \cup {Absent, Torn}]]
    /\ tracker \in AllSteps \cup {Absent, Torn}
    /\ pc \in {"off", "train", "save", "shards", "data", "write_data", "tracker", "write_tracker"}
    /\ run \in 0..MaxRuns /\ step \in AllSteps /\ pos \in Nat
    /\ kept \in Seq(AllSteps) /\ saved \in AllSteps

\* "latest checkpointed iteration tracker for atomic resume": a step the
\* tracker names has all its shards and its data loader's state, from one and
\* the same run, whatever was killed while older checkpoints were removed or
\* a step was saved again by a later run.
TrackedIsComplete ==
    tracker \in AllSteps =>
        /\ data[tracker].run > 0
        /\ \A f \in Shards : files[tracker][f] = data[tracker].run

\* No step of a finished save is trained again: a run that cannot read where to
\* resume does not start over.
NothingFinishedIsRepeated == pc = "train" => step > saved

\* The data loader is where the model is: every step trains on a batch of its
\* own, across kills and resumes.
DataFollowsSteps == pc = "train" => pos = step - 1

\* No more than max_actor_ckpt_to_keep checkpoints of a run, whole or in part,
\* are on disk at any moment, and two while the only one is replaced.
KeepsAtMost ==
    (MaxKeep > 0 /\ run > 0) =>
        Cardinality({s \in AllSteps : \E f \in Shards : files[s][f] = run}) <=
            IF MaxKeep = 1 /\ pc # "train" THEN 2 ELSE MaxKeep
=============================================================================
