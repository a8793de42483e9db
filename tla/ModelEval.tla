------------------------------ MODULE ModelEval ------------------------------
(***************************************************************************)
(* Direct-model evaluation: main with model_source, which evaluates the    *)
(* models of a configuration one after the other into the directory of its *)
(* run_name: summary.json and one result file per model.                   *)
(*                                                                         *)
(* Several processes may be started with one run_name, at once or one      *)
(* after the other; the number of a process tells its results apart.       *)
(* Every save goes through atomic_write_json: it replaces a file as a      *)
(* whole or leaves it as it was, and may leave its own temporary file.     *)
(* The rollouts kept for audits are left out: when they are written the    *)
(* directory already holds the summary.                                    *)
(***************************************************************************)
EXTENDS Integers

CONSTANTS
    NModels,        \* models of the configuration, in its order
    NProcs          \* bound: processes started with the run_name

ASSUME SizesAssumption == NModels \in Nat \ {0} /\ NProcs \in Nat

Models == 1..NModels
Procs == 1..NProcs

VARIABLES
    summary,        \* summary.json
    files,          \* the result file of each model
    litter,         \* a temporary file of a first save was left
    pc, at, mem,    \* per process: control point, current model, its summary
    overlapped      \* history: a process passed the check while another was running

vars == <<summary, files, litter, pc, at, mem, overlapped>>

Absent == [by |-> 0, status |-> "absent"]
Fresh(d) == [by |-> d, status |-> "running", entries |-> [m \in Models |-> "pending"]]
NoSummary == [Fresh(0) EXCEPT !.status = "absent"]
Result(d, status) == [by |-> d, status |-> status]

Ended == {"refused", "unsaved", "failed", "done", "killed"}
Running(d) == pc[d] \notin Ended \cup {"off"}

Init ==
    /\ summary = NoSummary /\ litter = FALSE /\ overlapped = FALSE
    /\ files = [m \in Models |-> Absent]
    /\ pc = [d \in Procs |-> "off"]
    /\ at = [d \in Procs |-> 1]
    /\ mem = [d \in Procs |-> NoSummary]

-----------------------------------------------------------------------------
(* Launch.                                                                 *)

\* Mutant: only a run that has completed is protected.
OccupiedByCompleted == summary.status = "completed"

\* output_dir.exists() and any(output_dir.iterdir())
Occupied ==
    summary # NoSummary \/ litter \/ \E m \in Models : files[m] # Absent

Launch(d, resume) ==
    /\ pc[d] = "off"
    /\ IF resume \/ Occupied
       THEN pc' = [pc EXCEPT ![d] = "refused"] /\ UNCHANGED <<mem, overlapped>>
       ELSE /\ pc' = [pc EXCEPT ![d] = "open"]
            /\ mem' = [mem EXCEPT ![d] = Fresh(d)]
            /\ overlapped' = (overlapped \/ \E o \in Procs : Running(o))
    /\ UNCHANGED <<summary, files, litter, at>>

\* The first save of the summary makes the directory occupied.
Open(d) ==
    /\ pc[d] = "open"
    /\ \/ pc' = [pc EXCEPT ![d] = "next"] /\ summary' = mem[d] /\ UNCHANGED litter
       \/ pc' = [pc EXCEPT ![d] = "unsaved"] /\ litter' \in {litter, TRUE} /\ UNCHANGED summary
    /\ UNCHANGED <<files, at, mem, overlapped>>

-----------------------------------------------------------------------------
(* The loop over the models.                                               *)

\* Save the process's summary s and go on at p; a failure is not caught.
SaveSummary(d, s, p) ==
    /\ mem' = [mem EXCEPT ![d] = s]
    /\ \/ summary' = s /\ pc' = [pc EXCEPT ![d] = p]
       \/ UNCHANGED summary /\ pc' = [pc EXCEPT ![d] = "unsaved"]

StartModel(d) ==
    /\ pc[d] = "next" /\ at[d] <= NModels
    /\ SaveSummary(d, [mem[d] EXCEPT !.entries[at[d]] = "running"], "base")
    /\ UNCHANGED <<files, litter, at, overlapped>>

\* _evaluate_base_model; its metrics are saved before ERSR starts.
BaseEvaluated(d) ==
    /\ pc[d] = "base" /\ pc' = [pc EXCEPT ![d] = "ersr"]
    /\ files' = [files EXCEPT ![at[d]] = Result(d, "base_completed")]
    /\ UNCHANGED <<summary, litter, at, mem, overlapped>>

\* evaluate_ersr, if there is any, and the model's result is saved.
ModelEvaluated(d) ==
    /\ pc[d] = "ersr" /\ pc' = [pc EXCEPT ![d] = "mark"]
    /\ files' = [files EXCEPT ![at[d]] = Result(d, "completed")]
    /\ UNCHANGED <<summary, litter, at, mem, overlapped>>

\* An evaluation or the save of a result file raises.
Fail(d) ==
    /\ pc[d] \in {"base", "ersr"} /\ pc' = [pc EXCEPT ![d] = "failing"]
    /\ UNCHANGED <<summary, files, litter, at, mem, overlapped>>

\* Mutant: except Exception, which a KeyboardInterrupt passes.
RecordFailureUncaught(d) ==
    /\ pc[d] = "failing" /\ pc' = [pc EXCEPT ![d] = "failed"]
    /\ UNCHANGED <<summary, files, litter, at, mem, overlapped>>

\* except BaseException: the entry and the summary say failed.
RecordFailure(d) ==
    /\ pc[d] = "failing"
    /\ SaveSummary(d, [mem[d] EXCEPT !.entries[at[d]] = "failed", !.status = "failed"], "failed")
    /\ UNCHANGED <<files, litter, at, overlapped>>

\* Mutant: a failed model is passed over, and the run goes on.
MarkCompletedOrFailed(d) ==
    /\ pc[d] \in {"mark", "failing"}
    /\ SaveSummary(d, [mem[d] EXCEPT !.entries[at[d]] = "completed"], "next")
    /\ at' = [at EXCEPT ![d] = @ + 1]
    /\ UNCHANGED <<files, litter, overlapped>>

MarkCompleted(d) ==
    /\ pc[d] = "mark"
    /\ SaveSummary(d, [mem[d] EXCEPT !.entries[at[d]] = "completed"], "next")
    /\ at' = [at EXCEPT ![d] = @ + 1]
    /\ UNCHANGED <<files, litter, overlapped>>

Close(d) ==
    /\ pc[d] = "next" /\ at[d] > NModels
    /\ SaveSummary(d, [mem[d] EXCEPT !.status = "completed"], "done")
    /\ UNCHANGED <<files, litter, at, overlapped>>

Crash(d) ==
    /\ Running(d)
    /\ pc' = [pc EXCEPT ![d] = "killed"]
    /\ litter' \in IF pc[d] = "open" THEN {litter, TRUE} ELSE {litter}
    /\ UNCHANGED <<summary, files, at, mem, overlapped>>

-----------------------------------------------------------------------------
Process(d) ==
    \/ Open(d) \/ StartModel(d) \/ BaseEvaluated(d) \/ ModelEvaluated(d)
    \/ RecordFailure(d) \/ MarkCompleted(d) \/ Close(d)

Next ==
    \E d \in Procs :
        \/ Process(d) \/ Fail(d) \/ Crash(d)
        \/ \E resume \in BOOLEAN : Launch(d, resume)

Spec == Init /\ [][Next]_vars /\ \A d \in Procs : WF_vars(Process(d))

-----------------------------------------------------------------------------
(* Properties.                                                             *)

\* "results from different attempts cannot be mixed": the directory holds
\* files of one process only, whatever was killed or failed before, unless
\* two processes looked at the empty directory before either had written.
AttemptsAreNotMixed ==
    \/ overlapped
    \/ \A m \in Models : files[m] # Absent => files[m].by = summary.by

\* The summary can be believed at every moment: a model it calls completed has
\* its complete result file, one it calls pending has none, and a summary that
\* says completed covers every model.
SummaryIsTrue ==
    \/ overlapped
    \/ \A m \in Models :
         /\ summary.entries[m] = "completed" => files[m].status = "completed"
         /\ summary.entries[m] = "pending" => files[m] = Absent
         /\ summary.status = "completed" => summary.entries[m] = "completed"

\* A process that wrote its first summary ends, and unless it was killed or
\* could not write, its own last word in the summary is a final one.
AttemptIsReported ==
    \A d \in Procs :
        (pc[d] = "next") ~> /\ pc[d] \in Ended
                            /\ \/ pc[d] \in {"killed", "unsaved"} \/ overlapped
                               \/ summary.by = d /\ summary.status \in {"completed", "failed"}
=============================================================================
