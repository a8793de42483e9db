-------------------------- MODULE CheckpointEval --------------------------
(***************************************************************************)
(* Checkpoint evaluation: evaluate_checkpoints and its schedules, the JSON *)
(* result document they save after every phase, the temporary directories *)
(* that hold merged FSDP checkpoints, and --resume.                        *)
(*                                                                         *)
(* One evaluation process runs at a time; a user launches it again after   *)
(* it ended, failed or was killed.  What survives a process is the result  *)
(* file (disk) and the merged directories (tmp); the process's own         *)
(* document is mem.  Every save is atomic (atomic_write_json), so a save   *)
(* either installs mem as a whole or fails and leaves disk as it was.      *)
(* Schedules: "per_checkpoint" (the default) and "shared_teacher" are      *)
(* those of utils/ersr_evaluation.py, "single_run" is the one schedule of  *)
(* utils/evaluation.py.                                                    *)
(***************************************************************************)
EXTENDS Integers, FiniteSets

CONSTANTS
    Steps,        \* numbers of the global_step_<n> directories that may exist
    Fsdp,         \* those that hold FSDP shards and have to be merged
    Configs,      \* evaluation configurations the user may launch with
    MaxRuns       \* bound: launches of the evaluation

ASSUME StepsAssumption == Steps \subseteq Nat /\ IsFiniteSet(Steps) /\ Fsdp \subseteq Steps
\* What the protocol reads of a configuration; other stands for every other
\* setting its signature covers.
ConfigType == [schedule : {"per_checkpoint", "shared_teacher", "single_run"},
               ersr : BOOLEAN, initial : BOOLEAN, other : {"a", "b"}]
ASSUME ConfigsAssumption ==
    /\ Configs \subseteq ConfigType
    /\ \A c \in Configs :
         /\ c.schedule = "shared_teacher" => c.ersr         \* use_shared_teacher
         /\ c.schedule = "single_run" => ~c.initial         \* not in utils/evaluation.py
ASSUME MaxRunsAssumption == MaxRuns \in Nat

VARIABLES
    disk,         \* the result file
    mem,          \* document, the process's own copy
    pc, exc,      \* control point; an exception is propagating
    run, sig, found,    \* the launch: its number, configuration, checkpoints
    done,         \* completed_steps
    todo,         \* checkpoints the loop has not reached
    cur,          \* the checkpoint the loop is at
    works,        \* checkpoints whose ERSR work a retaining schedule keeps
    tmp,          \* merged directories that exist
    owned,        \* those the process's context managers will remove
    leftover,     \* history: those whose removal failed or whose process was killed
    silent,       \* history: those whose removal failed with no exception around
    ended,        \* how the last process ended
    claimed       \* history: checkpoints found by the run that completed the document

launch == <<run, sig, found>>
loop == <<done, todo, cur, works>>
dirs == <<tmp, owned, leftover, silent>>
end == <<ended, claimed>>
vars == <<disk, mem, pc, exc, launch, loop, dirs, end>>

-----------------------------------------------------------------------------
(* The result document.  A row is the result of one model: which run and   *)
(* configuration made its base metrics, and which run its teacher          *)
(* proposals (0: none yet).                                                *)

NoStep == -1
NoConfig == [schedule |-> "none", ersr |-> FALSE, initial |-> FALSE, other |-> "none"]
Row(s, status, teacher) ==
    [step |-> s, status |-> status, run |-> run, sig |-> sig, teacher |-> teacher]
NoRow == [step |-> NoStep, status |-> "none", run |-> 0, sig |-> NoConfig, teacher |-> 0]
Phase(kind, s) == [kind |-> kind, step |-> s]

NoFile == [status |-> "absent", phase |-> Phase("none", NoStep), sig |-> NoConfig,
           initial |-> NoRow, rows |-> {}]
FreshDocument(sg) == [status |-> "running", phase |-> Phase("base", NoStep), sig |-> sg,
                      initial |-> NoRow, rows |-> {}]

CompletedSteps(doc) == {r.step : r \in {q \in doc.rows : q.status = "completed"}}
Duplicates(doc) == \E q, r \in doc.rows : q # r /\ q.step = r.step
RowOf(doc, s) == CHOOSE r \in doc.rows : r.step = s

WithoutStep(doc, s) == [doc EXCEPT !.rows = {r \in @ : r.step # s}]
WithRow(doc, r) == [doc EXCEPT !.rows = @ \cup {r}]
SetRow(doc, r) == WithRow(WithoutStep(doc, r.step), r)
SetPhase(doc, kind, s) == [doc EXCEPT !.phase = Phase(kind, s)]
SetInitial(doc, status, teacher) == [doc EXCEPT !.initial = Row(NoStep, status, teacher)]

First(S) == CHOOSE s \in S : \A t \in S : s <= t
Schedule == sig.schedule
Ersr == sig.ersr
InitialBase == sig.initial
Retains == Schedule # "per_checkpoint"
TmpDir(s) == [step |-> s, run |-> run]

-----------------------------------------------------------------------------
Init ==
    /\ disk = NoFile /\ mem = NoFile /\ pc = "off" /\ exc = FALSE
    /\ run = 0 /\ sig = NoConfig /\ found = {}
    /\ done = {} /\ todo = {} /\ cur = NoStep /\ works = {}
    /\ tmp = {} /\ owned = {} /\ leftover = {} /\ silent = {}
    /\ ended = "none" /\ claimed = {}

\* Save the document d and go on at p; when the save fails, raise.
SaveThen(d, p) ==
    /\ mem' = d
    /\ \/ disk' = d /\ pc' = p /\ UNCHANGED exc
       \/ pc' = "cleanup" /\ exc' = TRUE /\ UNCHANGED disk

-----------------------------------------------------------------------------
(* Launch: discover_checkpoints, then evaluate_checkpoints up to its try.  *)

\* Mutant: a resume starts a new document.
LoadedFresh(resume, sg) == FreshDocument(sg)

\* The document a launch starts from, if it is not refused: without --resume
\* there is no file yet.
Loaded(resume, sg) ==
    IF ~resume THEN FreshDocument(sg)
    ELSE IF disk.status = "completed" THEN disk
    ELSE [disk EXCEPT !.status = "running", !.phase = Phase("resuming", NoStep)]

\* Mutant: the signature is not compared.
SignatureIgnored(sg) == FALSE

SignatureDiffers(sg) == disk.sig # sg
AlreadyExists(resume) == ~resume /\ disk # NoFile

\* The early errors of evaluate_checkpoints and _load_checkpoint_document.
Refused(resume, sg, steps) ==
    \/ sg.schedule # "per_checkpoint" /\ resume
    \/ resume /\ disk = NoFile
    \/ AlreadyExists(resume)
    \/ /\ resume /\ disk # NoFile
       /\ \/ SignatureDiffers(sg)
          \/ Duplicates(disk)
          \/ /\ disk.status = "completed"
             /\ \/ CompletedSteps(disk) # steps
                \/ sg.initial /\ disk.initial.status # "completed"

Launch(resume, sg, steps) ==
    /\ pc = "off" /\ run < MaxRuns
    /\ steps # {}
    /\ run' = run + 1 /\ sig' = sg /\ found' = steps
    /\ done' = {} /\ todo' = steps /\ cur' = NoStep /\ works' = {} /\ exc' = FALSE
    /\ IF Refused(resume, sg, steps)
       THEN ended' = "refused" /\ UNCHANGED <<pc, mem>>
       ELSE IF Loaded(resume, sg).status = "completed"
       THEN ended' = "already" /\ UNCHANGED <<pc, mem>>
       ELSE mem' = Loaded(resume, sg) /\ pc' = "open" /\ ended' = "none"
    /\ UNCHANGED <<disk, dirs, claimed>>

\* The first save stands before the try: its failure is not recorded.
Open ==
    /\ pc = "open"
    /\ \/ disk' = mem /\ pc' = "initial" /\ UNCHANGED ended
       \/ pc' = "off" /\ ended' = "unsaved" /\ UNCHANGED disk
    /\ UNCHANGED <<mem, exc, launch, loop, dirs, claimed>>

-----------------------------------------------------------------------------
(* _run_initial_base_evaluation                                            *)

InitialStart ==
    /\ pc = "initial"
    /\ IF ~InitialBase \/ mem.initial.status = "completed"
       THEN pc' = "begin" /\ UNCHANGED <<mem, disk, exc>>
       ELSE SaveThen(SetPhase([mem EXCEPT !.initial = NoRow], "initial_base", NoStep),
                     "initialBase")
    /\ UNCHANGED <<launch, loop, dirs, end>>

InitialEvaluated ==
    /\ pc = "initialBase"
    /\ SaveThen(SetInitial(mem, "base_completed", 0),
                IF Ersr THEN "initialPrepare" ELSE "initialFinish")
    /\ UNCHANGED <<launch, loop, dirs, end>>

InitialPrepare ==
    /\ pc = "initialPrepare"
    /\ SaveThen(SetPhase(mem, "initial_teacher", NoStep), "initialTeacher")
    /\ UNCHANGED <<launch, loop, dirs, end>>

InitialTeacher ==
    /\ pc = "initialTeacher"
    /\ SaveThen(SetPhase(SetInitial(mem, "base_completed", run), "initial_student", NoStep),
                "initialFinish")
    /\ UNCHANGED <<launch, loop, dirs, end>>

InitialFinish ==
    /\ pc = "initialFinish"
    /\ SaveThen([mem EXCEPT !.initial.status = "completed"], "begin")
    /\ UNCHANGED <<launch, loop, dirs, end>>

-----------------------------------------------------------------------------
(* The checkpoint loops.                                                   *)

\* Mutant: every row counts as completed.
BeginLoopAnyStatus ==
    /\ pc = "begin" /\ pc' = "next"
    /\ done' = {r.step : r \in mem.rows}
    /\ UNCHANGED <<disk, mem, exc, launch, todo, cur, works, dirs, end>>

\* completed_steps is computed once, before the loop.
BeginLoop ==
    /\ pc = "begin" /\ pc' = "next"
    /\ done' = CompletedSteps(mem)
    /\ UNCHANGED <<disk, mem, exc, launch, todo, cur, works, dirs, end>>

\* The next checkpoint.  per_checkpoint skips completed ones, drops a stale
\* row and saves; a retaining schedule goes straight to prepare_model.
NextCheckpoint ==
    /\ pc = "next" /\ todo # {}
    /\ LET s == First(todo) IN
       /\ todo' = todo \ {s}
       /\ IF Retains
          THEN cur' = s /\ pc' = "merge" /\ UNCHANGED <<mem, disk, exc>>
          ELSE IF s \in done
          THEN UNCHANGED <<cur, pc, mem, disk, exc>>
          ELSE cur' = s /\ SaveThen(SetPhase(WithoutStep(mem, s), "base", s), "merge")
    /\ UNCHANGED <<launch, done, works, dirs, end>>

\* prepare_model: an HF checkpoint is used in place, FSDP shards get a
\* temporary directory and a merger subprocess.
PrepareModel ==
    /\ pc = "merge"
    /\ IF cur \in Fsdp
       THEN /\ tmp' = tmp \cup {TmpDir(cur)} /\ owned' = owned \cup {TmpDir(cur)}
            /\ pc' = "merging"
       ELSE pc' = "base" /\ UNCHANGED <<tmp, owned>>
    /\ UNCHANGED <<disk, mem, exc, launch, loop, leftover, silent, end>>

MergeDone ==
    /\ pc = "merging" /\ pc' = "base"
    /\ UNCHANGED <<disk, mem, exc, launch, loop, dirs, end>>

\* _evaluate_base_model, and the row of its metrics is saved.
BaseEvaluated ==
    /\ pc = "base"
    /\ SaveThen(WithRow(mem, Row(cur, "base_completed", 0)),
                IF Ersr THEN "prepare" ELSE "finish")
    /\ UNCHANGED <<launch, loop, dirs, end>>

\* prepare_ersr: per_checkpoint enters the teacher phase, a retaining schedule
\* keeps the work and goes to the next checkpoint.
PrepareErsr ==
    /\ pc = "prepare"
    /\ IF Retains
       THEN /\ works' = works \cup {cur} /\ pc' = "next"
            /\ UNCHANGED <<mem, disk, exc>>
       ELSE /\ SaveThen(SetPhase(mem, "teacher", cur), "teacher")
            /\ UNCHANGED works
    /\ UNCHANGED <<launch, done, todo, cur, dirs, end>>

\* generate_ersr_replacements for one checkpoint; the proposals are saved.
Teacher ==
    /\ pc = "teacher"
    /\ SaveThen(SetPhase(SetRow(mem, [RowOf(mem, cur) EXCEPT !.teacher = run]), "student", cur),
                "finish")
    /\ UNCHANGED <<launch, loop, dirs, end>>

\* evaluate_ersr_student (when there is ERSR) and the checkpoint is completed.
\* Only single_run without ERSR completes the row after its save.
Complete ==
    /\ pc = "finish"
    /\ LET d == SetRow(mem, [RowOf(mem, cur) EXCEPT !.status = "completed"]) IN
       IF Schedule = "single_run" /\ ~Ersr
       THEN mem' = d /\ pc' = "cleanup" /\ UNCHANGED <<disk, exc>>
       ELSE SaveThen(d, "cleanup")
    /\ UNCHANGED <<launch, loop, dirs, end>>

\* After the loop of a retaining schedule: one teacher phase for all works ...
TeacherPhase ==
    /\ pc = "next" /\ todo = {} /\ Retains /\ Ersr
    /\ SaveThen(SetPhase(mem, "teacher", NoStep), "teacherAll")
    /\ UNCHANGED <<launch, loop, dirs, end>>

TeacherAll ==
    /\ pc = "teacherAll"
    /\ SaveThen(SetPhase([mem EXCEPT !.rows =
                    {IF r.step \in works THEN [r EXCEPT !.teacher = run] ELSE r : r \in @}],
                    "student", NoStep),
                "students")
    /\ UNCHANGED <<launch, loop, dirs, end>>

\* ... and the student phase of one checkpoint after the other.
NextStudent ==
    /\ pc = "students" /\ works # {}
    /\ cur' = First(works) /\ works' = works \ {First(works)} /\ pc' = "finish"
    /\ UNCHANGED <<disk, mem, exc, launch, done, todo, dirs, end>>

-----------------------------------------------------------------------------
(* The end of a checkpoint and of the run.                                 *)

\* Mutant: no finally: an exception leaves the directories.
LeavingNoFinally == {d \in owned : ~exc /\ d.step = cur}

\* The directories whose context managers exit now: all of them when an
\* exception leaves the schedule, otherwise that of the current checkpoint.
Leaving == {d \in owned : exc \/ d.step = cur}

\* The finally of prepare_model: rmtree succeeds, or its failure is printed.
RemoveDirectory ==
    /\ pc = "cleanup"
    /\ \E d \in Leaving :
         /\ owned' = owned \ {d}
         /\ \/ tmp' = tmp \ {d} /\ UNCHANGED <<leftover, silent>>
            \/ /\ leftover' = leftover \cup {d}
               /\ silent' = IF exc THEN silent ELSE silent \cup {d}
               /\ UNCHANGED tmp
    /\ UNCHANGED <<disk, mem, pc, exc, launch, loop, end>>

CleanedUp ==
    /\ pc = "cleanup" /\ Leaving = {}
    /\ pc' = IF exc THEN "failing"
             ELSE IF Retains /\ Ersr THEN "students"
             ELSE "next"
    /\ UNCHANGED <<disk, mem, exc, launch, loop, dirs, end>>

\* Anything inside the try raises: an evaluation, the merger, the pool.
Fail ==
    /\ pc \notin {"off", "open", "cleanup", "failing", "close"}
    /\ pc' = "cleanup" /\ exc' = TRUE
    /\ UNCHANGED <<disk, mem, launch, loop, dirs, end>>

\* Mutant: the exception is not caught, as KeyboardInterrupt by except Exception.
RecordFailureUncaught ==
    /\ pc = "failing" /\ pc' = "off" /\ ended' = "failed"
    /\ UNCHANGED <<disk, mem, exc, launch, loop, dirs, claimed>>

\* except BaseException: the failure is saved, if it can be, and raised again.
RecordFailure ==
    /\ pc = "failing"
    /\ mem' = [mem EXCEPT !.status = "failed"]
    /\ pc' = "off"
    /\ \/ disk' = mem' /\ ended' = "failed"
       \/ UNCHANGED disk /\ ended' = "unsaved"
    /\ UNCHANGED <<exc, launch, loop, dirs, claimed>>

\* The schedule returned.
ScheduleDone ==
    /\ \/ pc = "next" /\ todo = {} /\ ~(Retains /\ Ersr)
       \/ pc = "students" /\ works = {}
    /\ pc' = "close"
    /\ UNCHANGED <<disk, mem, exc, launch, loop, dirs, end>>

Close ==
    /\ pc = "close"
    /\ mem' = SetPhase([mem EXCEPT !.status = "completed"], "completed", NoStep)
    /\ pc' = "off"
    /\ \/ disk' = mem' /\ ended' = "done" /\ claimed' = found
       \/ UNCHANGED <<disk, claimed>> /\ ended' = "unsaved"
    /\ UNCHANGED <<exc, launch, loop, dirs>>

\* The process is killed: nobody removes its directories any more.
Crash ==
    /\ pc # "off"
    /\ pc' = "off" /\ ended' = "killed"
    /\ owned' = {} /\ leftover' = leftover \cup owned
    /\ UNCHANGED <<disk, mem, exc, launch, loop, tmp, silent, claimed>>

-----------------------------------------------------------------------------
Step ==
    \/ Open \/ InitialStart \/ InitialEvaluated \/ InitialPrepare \/ InitialTeacher
    \/ InitialFinish \/ BeginLoop \/ NextCheckpoint \/ PrepareModel \/ MergeDone \/ BaseEvaluated
    \/ PrepareErsr \/ Teacher \/ Complete \/ TeacherPhase \/ TeacherAll \/ NextStudent
    \/ RemoveDirectory \/ CleanedUp \/ RecordFailure \/ ScheduleDone \/ Close

Next ==
    \/ Step \/ Fail \/ Crash
    \/ \E resume \in BOOLEAN, sg \in Configs, steps \in SUBSET Steps :
          Launch(resume, sg, steps)

Spec == Init /\ [][Next]_vars /\ WF_vars(Step)

-----------------------------------------------------------------------------
(* Properties.                                                             *)

StepOrNone == Steps \cup {NoStep}
RowType == [step : StepOrNone, status : {"none", "base_completed", "completed"},
            run : 0..MaxRuns, sig : Configs \cup {NoConfig}, teacher : 0..MaxRuns]
Document == [status : {"absent", "running", "failed", "completed"},
             phase : [kind : {"none", "base", "resuming", "initial_base", "initial_teacher",
                              "initial_student", "teacher", "student", "completed"},
                      step : StepOrNone],
             sig : Configs \cup {NoConfig}, initial : RowType, rows : SUBSET RowType]
Directory == [step : Steps, run : 0..MaxRuns]

\* The document keeps its shape, rows belong to known checkpoints and launches,
\* and the loop's sets hold known checkpoints.
TypeOK ==
    /\ disk \in Document /\ mem \in Document
    /\ pc \in {"off", "open", "initial", "initialBase", "initialPrepare", "initialTeacher",
              "initialFinish", "begin", "next", "merge", "merging", "base", "prepare",
              "teacher", "finish", "teacherAll", "students", "cleanup", "failing", "close"}
    /\ exc \in BOOLEAN
    /\ run \in 0..MaxRuns /\ sig \in Configs \cup {NoConfig} /\ found \subseteq Steps
    /\ done \subseteq Steps /\ todo \subseteq Steps /\ works \subseteq Steps
    /\ cur \in StepOrNone
    /\ tmp \subseteq Directory /\ owned \subseteq tmp
    /\ leftover \subseteq Directory /\ silent \subseteq leftover
    /\ ended \in {"none", "refused", "already", "unsaved", "failed", "done", "killed"}
    /\ claimed \subseteq Steps

\* At every save the file has at most one row per checkpoint, so an interrupted
\* run is never refused with "duplicate checkpoint steps": the stale row of an
\* unfinished attempt is dropped before the checkpoint starts over.
OneRowPerStep == ~Duplicates(disk)

\* No row mixes two attempts or two configurations: its teacher proposals come
\* from the launch that made its base metrics, a completed row has them when
\* ERSR is on, and all rows were made under the signature in the file.
Unmixed(r, doc) ==
    /\ r.teacher \in {0, r.run} /\ r.sig = doc.sig
    /\ r.status = "completed" /\ doc.sig.ersr => r.teacher = r.run
RowsAreUnmixed ==
    /\ \A r \in disk.rows : Unmixed(r, disk)
    /\ disk.initial # NoRow => Unmixed(disk.initial, disk)

\* The rows of the file are a basis to go on from at any save: one per checkpoint,
\* each of one attempt and one configuration.
RowsAreSound == OneRowPerStep /\ RowsAreUnmixed

\* A file that says "completed" has a completed row for every checkpoint the
\* completing run discovered, and a completed initial base if one was asked for.
CompletedIsComplete ==
    disk.status = "completed" =>
        /\ claimed \subseteq CompletedSteps(disk)
        /\ disk.sig.initial => disk.initial.status = "completed"

\* The phase in the file can be trusted in an audit: once it says "student",
\* the proposals of that phase's checkpoints are in the file.
StudentPhaseHasProposals ==
    /\ disk.phase.kind = "student" =>
         IF disk.sig.schedule # "per_checkpoint" THEN \A r \in disk.rows : r.teacher = r.run
         ELSE \E r \in disk.rows : r.step = disk.phase.step /\ r.teacher = r.run
    /\ disk.phase.kind = "initial_student" => disk.initial.teacher = disk.initial.run

\* What the file says of its own progress is true of its rows.
FileIsHonest == CompletedIsComplete /\ StudentPhaseHasProposals

\* No process ends with a merged directory on disk, whichever way it ends,
\* unless it was killed or could not delete it; and a schedule that retains
\* none never has two checkpoints merged, but for such directories.
NothingLeftBehind ==
    /\ pc = "off" => tmp \subseteq leftover
    /\ ~(Retains /\ Ersr) => \A d, e \in tmp \ leftover : d.step = e.step

\* What the file reports is never taken back: a completed row survives every
\* later save of every later run unchanged, and a completed file is final.
ResultsAreKept ==
    [][/\ \A r \in disk.rows : r.status = "completed" => r \in disk'.rows
       /\ disk.status = "completed" => disk' = disk]_vars

\* A run that got past its first save ends, and leaves a final status in the
\* file unless it was killed or could not write.
RunIsReported ==
    (pc = "initial") ~> /\ pc = "off"
                        /\ \/ disk.status \in {"completed", "failed"}
                           \/ ended \in {"killed", "unsaved"}

\* prepare_model's comment: "Otherwise surface cleanup failure: keeping a full
\* merged model silently can exhaust the checkpoint volume."  A run that ends
\* normally has deleted every merged directory it made.
CleanupFailureSurfaces == ended = "done" => \A d \in silent : d.run # run
===========================================================================
