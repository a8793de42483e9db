-------------------------- MODULE Evaluation_proofs --------------------------
(***************************************************************************)
(* Proofs about the evaluators: about ModelEval for any number of models   *)
(* and processes, and about Ersr for any number of models, questions,      *)
(* rollouts, GPUs and workers.                                             *)
(*                                                                         *)
(* ModelEval.  What the directory holds is the work of the process that    *)
(* found it empty.  As long as no two processes overlapped there is at     *)
(* most one that runs (Alone), and Place says, at every control point of   *)
(* it, what its summary and the result files are; Truth is what stays      *)
(* when it ends.                                                           *)
(*                                                                         *)
(* Ersr.  ErsrInv says what each phase leaves.  A reservoir holds distinct *)
(* candidates of its series, as many as the cap and the candidates seen    *)
(* allow (ReservoirGrows), so that what selection keeps is a selection     *)
(* whatever the shuffle (SelectionIs).  A pool run cuts the requests into  *)
(* batches and puts the answers together again (Rejoined): an answer is    *)
(* found under its request's name when names differ (Answers).  The        *)
(* teacher's answers then decide alone which cases are skipped and what    *)
(* replaces a step (TeacherSkips, TeacherSteps), and the samples of an arm *)
(* are those the case would get alone, graded by the same verifier outside *)
(* SciBench (ArmAgrees), so the report of a model names each case once,    *)
(* with its own samples (StudentReport).  In the trainer the shares of the *)
(* workers take the cases apart by the remainder of their places           *)
(* (AssignedAre) and their results name them all again (GatheredReport).   *)
(***************************************************************************)
EXTENDS ModelEval, Ersr, Balancing_proofs

-----------------------------------------------------------------------------
(* ModelEval.                                                              *)

Busy == {"base", "ersr", "mark", "failing"}
Entry == {"pending", "running", "completed", "failed"}
Summary == [by : 0..NProcs, status : {"absent", "running", "completed", "failed"},
            entries : [Models -> Entry]]
File == [by : 0..NProcs, status : {"absent", "base_completed", "completed"}]

\* The ranges of what is computed with; a process is at a model while it is busy.
Types ==
    /\ summary \in Summary /\ files \in [Models -> File]
    /\ pc \in [Procs -> {"off", "open", "next"} \cup Busy \cup Ended]
    /\ at \in [Procs -> 1..(NModels + 1)] /\ mem \in [Procs -> Summary]
    /\ \A d \in Procs : /\ pc[d] \in {"off", "open"} => at[d] = 1
                        /\ pc[d] \in Busy => at[d] <= NModels

\* One process at a time.
Alone == \A d, o \in Procs : Running(d) /\ Running(o) => d = o

\* What the directory holds before the first save.
Untouched(d) ==
    /\ summary = NoSummary /\ mem[d] = Fresh(d)
    /\ \A m \in Models : files[m] = Absent

\* What it holds in the loop: finished models, the current one, the others.
InLoop(d) ==
    /\ summary = mem[d] /\ summary.by = d /\ summary.status = "running"
    /\ \A m \in Models :
         /\ m < at[d] => /\ summary.entries[m] = "completed"
                         /\ files[m].status = "completed" /\ files[m].by = d
         /\ m > at[d] \/ (m = at[d] /\ pc[d] = "next") =>
                summary.entries[m] = "pending" /\ files[m] = Absent
         /\ m = at[d] /\ pc[d] \in Busy =>
                /\ summary.entries[m] = "running"
                /\ pc[d] = "mark" => files[m].status = "completed"
                /\ files[m] # Absent => files[m].by = d

Place(d) ==
    /\ pc[d] = "open" => Untouched(d)
    /\ pc[d] \in {"next"} \cup Busy => InLoop(d)

\* The summary and the files agree, whoever is running or gone.
Truth ==
    \A m \in Models :
        /\ files[m] # Absent => files[m].by = summary.by
        /\ summary.entries[m] = "completed" => files[m].status = "completed"
        /\ summary.entries[m] = "pending" => files[m] = Absent
        /\ summary.status = "completed" => summary.entries[m] = "completed"

IInv ==
    /\ Types
    /\ overlapped \/ (Alone /\ Truth /\ \A d \in Procs : Place(d))

-----------------------------------------------------------------------------
\* The directory is empty and nobody runs.
LEMMA InitInv == Init => IInv
  <1> SUFFICES ASSUME Init PROVE IInv
    OBVIOUS
  <1>1. NoSummary \in Summary /\ Absent \in File
    <2>1. NoSummary = [by |-> 0, status |-> "absent", entries |-> [m \in Models |-> "pending"]]
      BY DEF NoSummary, Fresh
    <2>2. 0 \in 0..NProcs
      BY SizesAssumption
    <2>3. QED
      BY <2>1, <2>2 DEF Absent, Summary, File, Entry
  <1>2. Types
    <2>2. 1 \in 1..(NModels + 1)
      BY SizesAssumption
    <2>3. at \in [Procs -> 1..(NModels + 1)] /\ mem \in [Procs -> Summary]
      BY <1>1, <2>2 DEF Init
    <2>4. summary \in Summary /\ files \in [Models -> File]
      BY <1>1 DEF Init
    <2>5. pc \in [Procs -> {"off"}]
      BY DEF Init
    <2>6. \A d \in Procs : pc[d] = "off" /\ at[d] = 1
      BY DEF Init
    <2>7. QED
      BY <2>3, <2>4, <2>5, <2>6 DEF Types, Busy
  <1>3. Alone /\ \A d \in Procs : Place(d)
    BY DEF Init, Alone, Running, Place, Busy
  <1>4. Truth
    BY DEF Init, Truth, Absent, NoSummary, Fresh
  <1>5. QED
    BY <1>2, <1>3, <1>4 DEF IInv

\* What main may put into its own summary.
LEMMA FreshType == \A d \in Procs : Fresh(d) \in Summary /\ NoSummary \in Summary
  BY SizesAssumption DEF Fresh, NoSummary, Summary, Entry, Procs, Models

\* The variables keep their types.
LEMMA TypesStep == Types /\ [Next]_vars => Types'
  <1> SUFFICES ASSUME Types, [Next]_vars PROVE Types'
    OBVIOUS
  <1> USE SizesAssumption DEF Models, Procs
  <1>1. CASE UNCHANGED vars
    BY <1>1 DEF Types, vars
  <1>2. ASSUME NEW d \in Procs, NEW resume \in BOOLEAN, Launch(d, resume) PROVE Types'
    BY <1>2, FreshType DEF Launch, Types, Busy, Ended
  <1>3. ASSUME NEW d \in Procs, Open(d) PROVE Types'
    <2>1. summary \in Summary /\ mem[d] \in Summary
      BY DEF Types
    <2>2. summary' = summary \/ summary' = mem[d]
      BY <1>3, Zenon DEF Open
    <2>3. \E p \in {"next", "unsaved"} : pc' = [pc EXCEPT ![d] = p]
      BY <1>3, Zenon DEF Open
    <2>4. UNCHANGED <<files, at, mem>>
      BY <1>3 DEF Open
    <2>5. QED
      BY <2>1, <2>2, <2>3, <2>4 DEF Types, Busy, Ended
  <1>4. ASSUME NEW d \in Procs, StartModel(d) PROVE Types'
    <2>1. [mem[d] EXCEPT !.entries[at[d]] = "running"] \in Summary
      BY <1>4 DEF StartModel, Types, Summary, Entry
    <2>2. QED
      BY <1>4, <2>1 DEF StartModel, SaveSummary, Types, Busy, Ended
  <1>5. ASSUME NEW d \in Procs, BaseEvaluated(d) \/ ModelEvaluated(d) PROVE Types'
    <2>1. Result(d, "base_completed") \in File /\ Result(d, "completed") \in File
      BY DEF Result, File
    <2>2. \E f \in File : files' = [files EXCEPT ![at[d]] = f]
      BY <1>5, <2>1 DEF BaseEvaluated, ModelEvaluated
    <2>3. files' \in [Models -> File]
      BY <2>2 DEF Types
    <2>4. /\ pc[d] \in Busy /\ \E p \in {"ersr", "mark"} : pc' = [pc EXCEPT ![d] = p]
          /\ UNCHANGED <<summary, at, mem>>
      BY <1>5 DEF BaseEvaluated, ModelEvaluated, Busy
    <2>5. QED
      BY <2>3, <2>4 DEF Types, Busy, Ended
  <1>6. ASSUME NEW d \in Procs, Fail(d) PROVE Types'
    BY <1>6 DEF Fail, Types, Busy, Ended
  <1>7. ASSUME NEW d \in Procs, RecordFailure(d) PROVE Types'
    <2>1. [mem[d] EXCEPT !.entries[at[d]] = "failed", !.status = "failed"] \in Summary
      BY <1>7 DEF RecordFailure, Types, Summary, Entry, Busy
    <2>2. QED
      BY <1>7, <2>1 DEF RecordFailure, SaveSummary, Types, Busy, Ended
  <1>8. ASSUME NEW d \in Procs, MarkCompleted(d) PROVE Types'
    <2>1. [mem[d] EXCEPT !.entries[at[d]] = "completed"] \in Summary
      BY <1>8 DEF MarkCompleted, Types, Summary, Entry, Busy
    <2>2. at[d] + 1 \in 1..(NModels + 1)
      BY <1>8 DEF MarkCompleted, Types, Busy
    <2>3. QED
      BY <1>8, <2>1, <2>2 DEF MarkCompleted, SaveSummary, Types, Busy, Ended
  <1>9. ASSUME NEW d \in Procs, Close(d) PROVE Types'
    <2>1. [mem[d] EXCEPT !.status = "completed"] \in Summary
      BY <1>9 DEF Close, Types, Summary
    <2>2. QED
      BY <1>9, <2>1 DEF Close, SaveSummary, Types, Busy, Ended
  <1>10. ASSUME NEW d \in Procs, Crash(d) PROVE Types'
    BY <1>10 DEF Crash, Running, Types, Busy, Ended
  <1>11. QED
    BY <1>1, <1>2, <1>3, <1>4, <1>5, <1>6, <1>7, <1>8, <1>9, <1>10 DEF Next, Process

-----------------------------------------------------------------------------
\* A step of the one process that runs: nobody else has a place to keep.
LEMMA OwnStep ==
    ASSUME NEW d \in Procs, IInv, Types', ~overlapped, ~overlapped',
           Running(d), \A o \in Procs \ {d} : pc'[o] = pc[o],
           Truth', Place(d)'
    PROVE  Alone' /\ Truth' /\ \A o \in Procs : Place(o)'
  <1>1. \A o \in Procs \ {d} : ~Running(o) /\ ~Running(o)'
    BY DEF IInv, Alone, Running
  <1>2. \A o \in Procs \ {d} : Place(o)'
    BY <1>1 DEF Place, Running, Ended, Busy
  <1>3. Alone'
    BY <1>1 DEF Alone
  <1>4. QED
    BY <1>2, <1>3

\* What a launched process finds when nobody else has overlapped with it.
LEMMA LaunchStep ==
    ASSUME NEW d \in Procs, NEW resume \in BOOLEAN, IInv, ~overlapped', Launch(d, resume)
    PROVE  Alone' /\ Truth' /\ \A o \in Procs : Place(o)'
  <1>1. ~overlapped /\ Alone /\ Truth /\ \A o \in Procs : Place(o)
    BY DEF IInv, Launch, Types
  <1>2. Types
    BY DEF IInv
  <1>3. Truth'
    BY <1>1 DEF Launch, Truth
  <1>4. \A o \in Procs \ {d} : pc'[o] = pc[o] /\ mem'[o] = mem[o]
    BY <1>2 DEF Launch, Types
  <1>5. \A o \in Procs \ {d} : Place(o)'
    <2>1. TAKE o \in Procs \ {d}
    <2>2. pc'[o] = pc[o] /\ mem'[o] = mem[o] /\ Place(o)
      BY <1>1, <1>4
    <2>3. UNCHANGED <<summary, files, at>>
      BY DEF Launch
    <2>4. QED
      BY <2>2, <2>3 DEF Place, Untouched, InLoop
  <1>6. CASE resume \/ Occupied
    <2>1. pc'[d] = "refused"
      BY <1>6, <1>2 DEF Launch, Types
    <2>2. Place(d)' /\ ~Running(d)'
      BY <2>1 DEF Place, Running, Ended, Busy
    <2>3. Alone'
      BY <1>1, <1>4, <2>2 DEF Alone, Running
    <2>4. QED
      BY <1>3, <1>5, <2>2, <2>3
  <1>7. CASE ~(resume \/ Occupied)
    <2>1. pc'[d] = "open" /\ mem'[d] = Fresh(d) /\ \A o \in Procs : ~Running(o)
      BY <1>7, <1>2 DEF Launch, Types
    <2>2. Place(d)'
      BY <1>7, <2>1 DEF Launch, Occupied, Place, Untouched, Busy
    <2>3. Alone'
      BY <1>4, <2>1 DEF Alone, Running
    <2>4. QED
      BY <1>3, <1>5, <2>2, <2>3
  <1>8. QED
    BY <1>6, <1>7

\* While no two processes overlapped, the running one keeps its place.
LEMMA PlaceStep ==
    IInv /\ Next /\ Types' /\ ~overlapped' => Alone' /\ Truth' /\ \A d \in Procs : Place(d)'
  <1> SUFFICES ASSUME IInv, Next, Types', ~overlapped'
               PROVE  Alone' /\ Truth' /\ \A d \in Procs : Place(d)'
    OBVIOUS
  <1> USE SizesAssumption DEF Models, Procs
  <1>1. ASSUME NEW d \in Procs, NEW resume \in BOOLEAN, Launch(d, resume)
        PROVE  Alone' /\ Truth' /\ \A o \in Procs : Place(o)'
    BY <1>1, LaunchStep
  <1>2. ASSUME NEW d \in Procs, Process(d) \/ Fail(d) \/ Crash(d)
        PROVE  Alone' /\ Truth' /\ \A o \in Procs : Place(o)'
    <2>1. ~overlapped /\ Running(d) /\ \A o \in Procs \ {d} : pc'[o] = pc[o]
      <3> USE <1>2 DEF Process, Fail, Crash, Open, StartModel, SaveSummary, BaseEvaluated,
                      ModelEvaluated, RecordFailure, MarkCompleted, Close
      <3>1. overlapped' = overlapped
        BY Zenon
      <3>2. pc[d] \notin Ended \cup {"off"}
        BY DEF Running, Ended
      <3>3. \E p \in {"next", "base", "ersr", "mark", "failing"} \cup Ended : pc' = [pc EXCEPT ![d] = p]
        BY DEF Ended
      <3> HIDE DEF Process, Fail, Crash, Open, StartModel, SaveSummary, BaseEvaluated,
                      ModelEvaluated, RecordFailure, MarkCompleted, Close
      <3>4. \A o \in Procs \ {d} : pc'[o] = pc[o]
        BY <3>3 DEF IInv, Types
      <3>5. QED
        BY <3>1, <3>2, <3>4 DEF Running
    <2>2. Types /\ Alone /\ Truth /\ Place(d)
      BY <2>1 DEF IInv
    <2>3. SUFFICES Truth' /\ Place(d)'
      BY <2>1, OwnStep
    <2>4. CASE Open(d)
      <3>1. Untouched(d) /\ at[d] = 1
        BY <2>2, <2>4 DEF Open, Place, Types
      <3>2. CASE pc' = [pc EXCEPT ![d] = "next"] /\ summary' = mem[d]
        <4>1. pc'[d] = "next" /\ summary' = Fresh(d) /\ mem' = mem /\ files' = files /\ at' = at
          BY <2>2, <2>4, <3>1, <3>2 DEF Open, Types, Untouched
        <4>2. InLoop(d)'
          BY <3>1, <4>1 DEF InLoop, Untouched, Fresh, Busy
        <4>3. Truth'
          BY <3>1, <4>1 DEF Truth, Untouched, Fresh
        <4>4. QED
          BY <4>1, <4>2, <4>3 DEF Place
      <3>3. CASE pc' = [pc EXCEPT ![d] = "unsaved"] /\ UNCHANGED summary
        <4>1. pc'[d] = "unsaved"
          BY <2>2, <3>3 DEF Types
        <4>2. QED
          BY <2>2, <2>4, <3>3, <4>1 DEF Open, Truth, Place, Busy
      <3>4. QED
        BY <2>4, <3>2, <3>3 DEF Open
    <2>5. CASE StartModel(d)
      <3>1. InLoop(d) /\ at[d] \in Models
        BY <2>2, <2>5 DEF StartModel, Place, Types
      <3>2. CASE pc' = [pc EXCEPT ![d] = "unsaved"] /\ UNCHANGED summary
        BY <2>2, <2>5, <3>2 DEF StartModel, Truth, Place, Busy, Types
      <3>3. CASE pc' = [pc EXCEPT ![d] = "base"] /\ summary' = [mem[d] EXCEPT !.entries[at[d]] = "running"]
        <4>1. /\ pc'[d] = "base" /\ summary' = mem'[d] /\ files' = files /\ at' = at
              /\ summary' = [summary EXCEPT !.entries[at[d]] = "running"]
          BY <2>2, <2>5, <3>1, <3>3 DEF StartModel, SaveSummary, Types, InLoop
        <4>2. /\ summary'.by = summary.by /\ summary'.status = summary.status
              /\ \A m \in Models : summary'.entries[m] = IF m = at[d] THEN "running" ELSE summary.entries[m]
          BY <2>2, <3>1, <4>1 DEF Types, Summary
        <4>3. pc[d] = "next"
          BY <2>5 DEF StartModel
        <4>4. InLoop(d)'
          BY <2>2, <3>1, <4>1, <4>2, <4>3 DEF InLoop, Types, Busy, Absent
        <4>5. Truth'
          BY <2>2, <3>1, <4>1, <4>2, <4>3 DEF Truth, InLoop, Types, Absent
        <4>6. QED
          BY <4>1, <4>4, <4>5 DEF Place
      <3>4. QED
        BY <2>5, <3>2, <3>3 DEF StartModel, SaveSummary
    <2>6. CASE BaseEvaluated(d) \/ ModelEvaluated(d)
      <3>1. InLoop(d) /\ at[d] \in Models /\ pc[d] \in {"base", "ersr"}
        BY <2>2, <2>6 DEF BaseEvaluated, ModelEvaluated, Place, Types, Busy
      <3>2. /\ pc'[d] \in {"ersr", "mark"} /\ UNCHANGED <<summary, mem, at>>
            /\ \A m \in Models : m # at[d] => files'[m] = files[m]
            /\ files'[at[d]].by = d
            /\ pc'[d] = "mark" => files'[at[d]].status = "completed"
        BY <2>2, <2>6, <3>1 DEF BaseEvaluated, ModelEvaluated, Types, Result
      <3>3. InLoop(d)'
        BY <3>1, <3>2 DEF InLoop, Busy
      <3>4. Truth'
        BY <2>2, <3>1, <3>2 DEF Truth, InLoop, Busy
      <3>5. QED
        BY <3>2, <3>3, <3>4 DEF Place
    <2>7. CASE Fail(d)
      <3>1. InLoop(d) /\ pc[d] \in Busy
        BY <2>2, <2>7 DEF Fail, Place, Busy
      <3>2. pc'[d] = "failing" /\ UNCHANGED <<summary, mem, at, files>>
        BY <2>2, <2>7 DEF Fail, Types
      <3>3. InLoop(d)'
        BY <2>2, <3>1, <3>2 DEF InLoop, Types, Busy
      <3>4. Truth'
        BY <2>2, <3>2 DEF Truth
      <3>5. QED
        BY <3>2, <3>3, <3>4 DEF Place
    <2>8. CASE RecordFailure(d)
      <3>1. InLoop(d) /\ at[d] \in Models /\ pc[d] \in Busy
        BY <2>2, <2>8 DEF RecordFailure, Place, Types, Busy
      <3>2. pc'[d] \in {"failed", "unsaved"} /\ files' = files
        BY <2>2, <2>8 DEF RecordFailure, SaveSummary, Types
      <3>3. summary' \in {summary, [summary EXCEPT !.entries[at[d]] = "failed", !.status = "failed"]}
        BY <2>8, <3>1 DEF RecordFailure, SaveSummary, InLoop
      <3>4. CASE summary' = [summary EXCEPT !.entries[at[d]] = "failed", !.status = "failed"]
        <4>1. /\ summary'.by = summary.by /\ summary'.status = "failed"
              /\ \A m \in Models : summary'.entries[m] = IF m = at[d] THEN "failed" ELSE summary.entries[m]
          BY <2>2, <3>1, <3>4 DEF Types, Summary
        <4>2. Truth'
          BY <2>2, <3>2, <4>1 DEF Truth
        <4>3. QED
          BY <3>2, <4>2 DEF Place, Busy
      <3>5. CASE summary' = summary
        BY <2>2, <3>2, <3>5 DEF Truth, Place, Busy
      <3>6. QED
        BY <3>3, <3>4, <3>5
    <2>9. CASE MarkCompleted(d)
      <3>1. InLoop(d) /\ at[d] \in Models /\ pc[d] = "mark"
        BY <2>2, <2>9 DEF MarkCompleted, Place, Types, Busy
      <3>2. CASE pc' = [pc EXCEPT ![d] = "unsaved"] /\ UNCHANGED summary
        BY <2>2, <2>9, <3>2 DEF MarkCompleted, Truth, Place, Busy, Types
      <3>3. CASE pc' = [pc EXCEPT ![d] = "next"] /\ summary' = [mem[d] EXCEPT !.entries[at[d]] = "completed"]
        <4>1. /\ pc'[d] = "next" /\ summary' = mem'[d] /\ files' = files /\ at'[d] = at[d] + 1
              /\ summary' = [summary EXCEPT !.entries[at[d]] = "completed"]
          BY <2>2, <2>9, <3>1, <3>3 DEF MarkCompleted, SaveSummary, Types, InLoop
        <4>2. /\ summary'.by = summary.by /\ summary'.status = summary.status
              /\ \A m \in Models : summary'.entries[m] = IF m = at[d] THEN "completed" ELSE summary.entries[m]
          BY <2>2, <3>1, <4>1 DEF Types, Summary
        <4>3. files[at[d]].status = "completed" /\ (files[at[d]] # Absent => files[at[d]].by = d)
          BY <3>1 DEF InLoop, Busy
        <4>4. files[at[d]].by = d
          BY <4>3 DEF Absent
        <4>5. InLoop(d)'
          <5>1. \A m \in Models : m < at'[d] =>
                  /\ summary'.entries[m] = "completed"
                  /\ files'[m].status = "completed" /\ files'[m].by = d
            BY <3>1, <4>1, <4>2, <4>3, <4>4 DEF InLoop
          <5>2. \A m \in Models : m > at'[d] \/ m = at'[d] =>
                  summary'.entries[m] = "pending" /\ files'[m] = Absent
            BY <3>1, <4>1, <4>2 DEF InLoop
          <5>3. QED
            BY <3>1, <4>1, <4>2, <5>1, <5>2 DEF InLoop, Busy
        <4>6. Truth'
          BY <2>2, <3>1, <4>1, <4>2, <4>3 DEF Truth, InLoop, Types
        <4>7. QED
          BY <4>1, <4>5, <4>6 DEF Place
      <3>4. QED
        BY <2>9, <3>2, <3>3 DEF MarkCompleted, SaveSummary
    <2>10. CASE Close(d)
      <3>1. InLoop(d) /\ at[d] > NModels
        BY <2>2, <2>10 DEF Close, Place
      <3>2. pc'[d] \in {"done", "unsaved"} /\ files' = files
        BY <2>2, <2>10 DEF Close, SaveSummary, Types
      <3>3. summary' \in {summary, [summary EXCEPT !.status = "completed"]}
        BY <2>10, <3>1 DEF Close, SaveSummary, InLoop
      <3>4. \A m \in Models : summary.entries[m] = "completed"
        BY <2>2, <3>1 DEF InLoop, Types
      <3>5. Truth'
        BY <2>2, <3>2, <3>3, <3>4 DEF Truth, Types, Summary
      <3>6. QED
        BY <3>2, <3>5 DEF Place, Busy
    <2>11. CASE Crash(d)
      BY <2>2, <2>11 DEF Crash, Truth, Place, Busy, Types
    <2>12. QED
      BY <1>2, <2>4, <2>5, <2>6, <2>7, <2>8, <2>9, <2>10, <2>11 DEF Process
  <1>3. QED
    BY <1>1, <1>2 DEF Next

\* The invariant is inductive.
LEMMA StepInv == IInv /\ [Next]_vars => IInv'
  <1> SUFFICES ASSUME IInv, [Next]_vars PROVE IInv'
    OBVIOUS
  <1>1. Types'
    BY TypesStep DEF IInv
  <1>2. CASE Next
    BY <1>1, <1>2, PlaceStep DEF IInv
  <1>3. CASE UNCHANGED vars
    BY <1>3 DEF vars, IInv, Types, Alone, Running, Truth, Place, Untouched, InLoop
  <1>4. QED
    BY <1>2, <1>3

\* Directory, summaries and control points keep their ranges, and what they
\* hold is the work of one process as long as none overlapped.
THEOREM Invariance == Spec => []IInv
  BY InitInv, StepInv, PTL DEF Spec

\* Results of different attempts are never mixed in a directory by processes
\* that did not overlap, whichever of them failed or were killed.
THEOREM OneAttempt == Spec => []AttemptsAreNotMixed
  <1>1. IInv => AttemptsAreNotMixed
    BY DEF IInv, Truth, AttemptsAreNotMixed
  <1>2. QED
    BY <1>1, Invariance, PTL

\* At every moment the summary claims no more and no less than the result
\* files beside it hold.
THEOREM SummaryAgrees == Spec => []SummaryIsTrue
  <1>1. IInv => SummaryIsTrue
    BY DEF IInv, Truth, SummaryIsTrue
  <1>2. QED
    BY <1>1, Invariance, PTL

-----------------------------------------------------------------------------
(* Ersr.                                                                   *)

-----------------------------------------------------------------------------
\* Sequences of whatever elements.

\* A sequence is the function of its places.
IsSeq(s) == Len(s) \in Nat /\ s = [i \in 1..Len(s) |-> s[i]]

LEMMA SequenceIs ==
    ASSUME NEW T, NEW s \in Seq(T)
    PROVE  IsSeq(s) /\ DOMAIN s = 1..Len(s) /\ \A i \in 1..Len(s) : s[i] \in T
  <1>1. Len(s) \in Nat /\ DOMAIN s = 1..Len(s) /\ \A i \in 1..Len(s) : s[i] \in T
    OBVIOUS
  <1>2. s \in [1..Len(s) -> T]
    OBVIOUS
  <1>3. s = [i \in 1..Len(s) |-> s[i]]
    BY <1>2
  <1> QED BY <1>1, <1>3 DEF IsSeq

LEMMA MadeOf ==
    ASSUME NEW n \in Nat, NEW s, s = [i \in 1..n |-> s[i]]
    PROVE  IsSeq(s) /\ Len(s) = n /\ DOMAIN s = 1..n
  <1> DEFINE T == {s[i] : i \in 1..n}
  <1>1. s \in [1..n -> T]
    <2>1. \A i \in 1..n : s[i] \in T
      OBVIOUS
    <2> HIDE DEF T
    <2> QED BY <2>1
  <1>2. s \in Seq(T) /\ Len(s) = n
    <2> HIDE DEF T
    <2> QED BY <1>1
  <1> QED BY <1>2 DEF IsSeq

LEMMA InSeq ==
    ASSUME NEW s, IsSeq(s), NEW T, \A i \in 1..Len(s) : s[i] \in T
    PROVE  s \in Seq(T)
  <1>1. s \in [1..Len(s) -> T] /\ Len(s) \in Nat
    BY DEF IsSeq
  <1> QED BY <1>1

LEMMA DomainOf ==
    ASSUME NEW s, IsSeq(s)
    PROVE  /\ DOMAIN s = 1..Len(s) /\ \A x : x \in Range(s) <=> Has(s, x)
           /\ \A x : Has(s, x) <=> \E i \in DOMAIN s : s[i] = x
  <1>1. DOMAIN s = 1..Len(s)
    BY DEF IsSeq
  <1> QED BY <1>1 DEF Range, Has

LEMMA SeqSame ==
    ASSUME NEW s, IsSeq(s), NEW t, IsSeq(t), Len(s) = Len(t), \A i \in 1..Len(s) : s[i] = t[i]
    PROVE  s = t
  BY DEF IsSeq

\* What is in two sequences, one after the other.
LEMMA JoinIs ==
    ASSUME NEW s, IsSeq(s), NEW t, IsSeq(t)
    PROVE  /\ IsSeq(s \o t) /\ Len(s \o t) = Len(s) + Len(t)
           /\ \A i \in 1..Len(s) : (s \o t)[i] = s[i]
           /\ \A i \in 1..Len(t) : (s \o t)[Len(s) + i] = t[i]
           /\ \A x : Has(s \o t, x) <=> Has(s, x) \/ Has(t, x)
           /\ Once(s) /\ Once(t) /\ (\A x : ~(Has(s, x) /\ Has(t, x))) => Once(s \o t)
  <1> DEFINE T == {s[i] : i \in 1..Len(s)} \cup {t[i] : i \in 1..Len(t)}
  <1>1. (\A i \in 1..Len(s) : s[i] \in T) /\ \A i \in 1..Len(t) : t[i] \in T
    OBVIOUS
  <1> HIDE DEF T
  <1>2. s \in Seq(T) /\ t \in Seq(T)
    BY <1>1, InSeq
  <1>3. s \o t \in Seq(T)
    BY <1>2, Concatenated
  <1>4. IsSeq(s \o t)
    BY <1>3, SequenceIs
  <1>5. /\ Len(s \o t) = Len(s) + Len(t)
        /\ \A i \in 1..Len(s) : (s \o t)[i] = s[i]
        /\ \A i \in 1..Len(t) : (s \o t)[Len(s) + i] = t[i]
    BY <1>2, Concatenated
  <1>6. /\ \A x : Has(s \o t, x) <=> Has(s, x) \/ Has(t, x)
        /\ Once(s) /\ Once(t) /\ (\A x : ~(Has(s, x) /\ Has(t, x))) => Once(s \o t)
    BY ONLY <1>2, JoinHas
  <1> QED BY <1>4, <1>5, <1>6

\* k sequences.
AreSeqs(seqs, k) == seqs = [i \in 1..k |-> seqs[i]] /\ \A i \in 1..k : IsSeq(seqs[i])

\* FlattenSeq: what is in it, and that it has nothing twice.
LEMMA FlatIs ==
    ASSUME NEW k \in Nat, NEW seqs, AreSeqs(seqs, k)
    PROVE  LET u == FlattenSeq(seqs) IN
           /\ IsSeq(u)
           /\ \A x : Has(u, x) <=> \E j \in 1..k : Has(seqs[j], x)
           /\ (/\ \A j \in 1..k : Once(seqs[j])
               /\ \A j, l \in 1..k : \A x : Has(seqs[j], x) /\ Has(seqs[l], x) => j = l)
              => Once(u)
  <1> DEFINE u == FlattenSeq(seqs)
             f == Flat(seqs, k)
             T == UNION {{seqs[i][p] : p \in 1..Len(seqs[i])} : i \in 1..k}
  <1>1. \A i \in 1..k : IsSeq(seqs[i]) /\ \A p \in 1..Len(seqs[i]) : seqs[i][p] \in T
    BY DEF AreSeqs
  <1> HIDE DEF T
  <1>2. \A i \in 1..k : seqs[i] \in Seq(T)
    BY <1>1, InSeq
  <1>3. seqs \in [1..k -> Seq(T)]
    BY <1>2 DEF AreSeqs
  <1>4. /\ k > 0 => u = f[k] /\ f[1] = seqs[1]
        /\ k = 0 => u = <<>>
        /\ \A i \in 1..k : f[i] \in Seq(T)
        /\ \A i \in 1..k : i > 1 => f[i] = f[i - 1] \o seqs[i] /\ i - 1 \in 1..k
    BY ONLY <1>3, k \in Nat, FlatFacts, Zenon
  <1>5. \A i \in 1..k :
              /\ \A x : Has(f[i], x) <=> \E j \in 1..i : Has(seqs[j], x)
              /\ (/\ \A j \in 1..i : Once(seqs[j])
                  /\ \A j, l \in 1..i : \A x : Has(seqs[j], x) /\ Has(seqs[l], x) => j = l)
                 => Once(f[i])
    BY ONLY <1>3, k \in Nat, FlatHas, Zenon
  <1> HIDE DEF f, u
  <1>6. CASE k = 0
    <2>1. u = <<>> /\ 1..k = {}
      BY <1>4, <1>6
    <2>2. IsSeq(u) /\ (\A x : ~Has(u, x)) /\ Once(u)
      BY <2>1 DEF IsSeq, Has, Once
    <2> QED BY <2>1, <2>2 DEF u
  <1>7. CASE k > 0
    <2>1. u = f[k] /\ k \in 1..k
      BY <1>4, <1>7
    <2>2. u \in Seq(T)
      BY <1>4, <2>1
    <2>3. IsSeq(u)
      BY <2>2, SequenceIs
    <2>4. /\ \A x : Has(u, x) <=> \E j \in 1..k : Has(seqs[j], x)
          /\ (/\ \A j \in 1..k : Once(seqs[j])
              /\ \A j, l \in 1..k : \A x : Has(seqs[j], x) /\ Has(seqs[l], x) => j = l)
             => Once(u)
      BY <1>5, <2>1
    <2> QED BY <2>3, <2>4 DEF u
  <1> QED BY <1>6, <1>7

\* Only: the elements that are in S.
LEMMA OnlyIs ==
    ASSUME NEW s, IsSeq(s), NEW S
    PROVE  /\ IsSeq(Only(s, S))
           /\ \A x : Has(Only(s, S), x) <=> Has(s, x) /\ x \in S
           /\ Once(s) => Once(Only(s, S))
  <1> DEFINE k == Len(s)
             seqs == [i \in 1..k |-> IF s[i] \in S THEN <<s[i]>> ELSE <<>>]
             u == FlattenSeq(seqs)
  <1>1. k \in Nat /\ DOMAIN s = 1..k
    BY DEF IsSeq
  <1>2. Only(s, S) = u
    BY <1>1 DEF Only
  <1>3. ASSUME NEW i \in 1..k
        PROVE  /\ IsSeq(seqs[i]) /\ Once(seqs[i])
               /\ \A x : Has(seqs[i], x) <=> x = s[i] /\ s[i] \in S
    <2>1. CASE s[i] \in S
      <3>1. seqs[i] = <<s[i]>>
        BY <2>1
      <3>2. Len(seqs[i]) = 1 /\ seqs[i][1] = s[i] /\ 1..1 = {1} /\ seqs[i] = [j \in 1..1 |-> s[i]]
        BY <3>1
      <3> HIDE DEF seqs
      <3> QED BY <2>1, <3>2 DEF IsSeq, Has, Once
    <2>2. CASE s[i] \notin S
      <3>1. seqs[i] = <<>>
        BY <2>2
      <3> HIDE DEF seqs
      <3>2. IsSeq(seqs[i]) /\ Once(seqs[i]) /\ \A x : ~Has(seqs[i], x)
        BY <3>1 DEF IsSeq, Has, Once
      <3> QED BY <2>2, <3>2
    <2> QED BY <2>1, <2>2
  <1>4. seqs = [i \in 1..k |-> seqs[i]]
    OBVIOUS
  <1> HIDE DEF seqs
  <1>5. AreSeqs(seqs, k)
    BY <1>3, <1>4 DEF AreSeqs
  <1>6. /\ IsSeq(u)
        /\ \A x : Has(u, x) <=> \E j \in 1..k : Has(seqs[j], x)
        /\ (/\ \A j \in 1..k : Once(seqs[j])
            /\ \A j, l \in 1..k : \A x : Has(seqs[j], x) /\ Has(seqs[l], x) => j = l)
           => Once(u)
    BY ONLY <1>1, <1>5, FlatIs
  <1>7. \A x : Has(u, x) <=> Has(s, x) /\ x \in S
    <2> TAKE x
    <2>1. Has(u, x) <=> \E j \in 1..k : Has(seqs[j], x)
      BY <1>6
    <2>2. Has(u, x) <=> \E j \in 1..k : x = s[j] /\ s[j] \in S
      BY <1>3, <2>1
    <2>3. Has(s, x) <=> \E j \in 1..k : s[j] = x
      BY DEF Has
    <2> HIDE DEF u, k
    <2> QED BY <2>2, <2>3
  <1>8. ASSUME Once(s) PROVE Once(u)
    <2>1. \A j, l \in 1..k : \A x : Has(seqs[j], x) /\ Has(seqs[l], x) => j = l
      BY <1>3, <1>8 DEF Once
    <2> QED BY <1>3, <1>6, <2>1
  <1> QED BY <1>2, <1>6, <1>7, <1>8

-----------------------------------------------------------------------------
\* Batches.

\* The multiples of d up to the first that is no smaller than n.
LEMMA CeilIs ==
    ASSUME NEW n \in Nat, NEW d \in Nat \ {0}
    PROVE  /\ Ceil(n, d) \in Nat /\ d * Ceil(n, d) \in Nat
           /\ n <= d * Ceil(n, d) /\ d * Ceil(n, d) < n + d
           /\ n > 0 => Ceil(n, d) > 0
  <1> DEFINE q == (n + d - 1) \div d
  <1>1. q \in Nat /\ d * q <= n + d - 1 /\ n + d - 1 < d * q + d /\ d * q \in Nat
    OBVIOUS
  <1>2. n > 0 => q # 0
    <2>1. q = 0 => d * q = 0
      OBVIOUS
    <2> HIDE DEF q
    <2> QED BY <1>1, <2>1
  <1>3. q = Ceil(n, d)
    BY DEF Ceil
  <1> HIDE DEF q
  <1>4. n <= d * q /\ d * q < n + d
    <2> DEFINE m == d * q
    <2>1. m \in Nat /\ n + d - 1 < m + d /\ m <= n + d - 1
      BY <1>1
    <2> HIDE DEF m
    <2>2. n <= m /\ m < n + d
      BY <2>1
    <2> QED BY <2>2 DEF m
  <1> QED BY <1>1, <1>2, <1>3, <1>4

\* Where the batches end.
AreCuts(e, n, size, k) ==
    /\ k \in Nat /\ e \in [0..k -> 0..n] /\ e[0] = 0 /\ e[k] = n
    /\ \A b \in 1..k : /\ b - 1 \in 0..k /\ b \in 0..k
                       /\ e[b - 1] < e[b] /\ e[b] <= e[b - 1] + size
                       /\ (b - 1) * size = e[b - 1] /\ Min({b * size, n}) = e[b]

LEMMA CutsAre ==
    ASSUME NEW n \in Nat, NEW size \in Nat \ {0}
    PROVE  \E e : AreCuts(e, n, size, Ceil(n, size))
  <1> DEFINE k == Ceil(n, size)
             t == [b \in 0..k |-> size * b]
             e == [b \in 0..k |-> IF t[b] <= n THEN t[b] ELSE n]
  <1>1. k \in Nat /\ size * k \in Nat /\ n <= size * k /\ size * k < n + size
    BY CeilIs
  <1>2. \A b \in 0..k : t[b] = size * b /\ size * b \in Nat /\ b * size = size * b
    <2> HIDE DEF k
    <2>1. \A b \in 0..k : b \in Nat
      BY <1>1
    <2> QED BY <2>1, TimesGrows
  <1>3. \A b, c \in 0..k : b <= c => t[b] <= t[c]
    <2> TAKE b, c \in 0..k
    <2> HAVE b <= c
    <2>1. b \in Nat /\ c \in Nat
      BY <1>1
    <2>2. size * b <= size * c
      BY <2>1, TimesGrows
    <2> QED BY <1>2, <2>2
  <1>4. ASSUME NEW b \in 1..k
        PROVE  /\ b \in 0..k /\ b - 1 \in 0..k /\ t[b] = t[b - 1] + size
               /\ (b - 1) * size = t[b - 1] /\ b * size = t[b]
    <2> DEFINE a == b - 1
    <2>1. a \in Nat /\ b = a + 1 /\ a \in 0..k /\ b \in 0..k /\ b \in Nat
      BY <1>1
    <2> HIDE DEF a, k
    <2>2. size * (a + 1) = size * a + size
      BY <2>1, TimesGrows
    <2>3. t[b] = size * b /\ t[a] = size * a /\ b * size = size * b /\ a * size = size * a
      BY <1>2, <2>1
    <2>4. a = b - 1
      BY DEF a
    <2> HIDE DEF t
    <2> QED BY <2>1, <2>2, <2>3, <2>4
  <1>5. t[0] = 0 /\ t[k] >= n /\ t[k] < n + size /\ 0 \in 0..k /\ k \in 0..k /\ \A b \in 0..k : t[b] \in Nat
    <2>1. size * 0 = 0
      OBVIOUS
    <2>2. 0 \in 0..k /\ k \in 0..k
      BY <1>1
    <2> HIDE DEF t
    <2> QED BY <1>1, <1>2, <2>1, <2>2
  <1>6. \A b \in 0..k : e[b] = IF t[b] <= n THEN t[b] ELSE n
    OBVIOUS
  <1>7. DOMAIN e = 0..k /\ e = [b \in 0..k |-> e[b]]
    OBVIOUS
  <1> HIDE DEF t, e
  <1>8. \A b \in 0..k : e[b] \in 0..n
    BY <1>5, <1>6
  <1>9. e \in [0..k -> 0..n]
    BY <1>7, <1>8
  <1>10. e[0] = 0 /\ e[k] = n
    BY <1>5, <1>6
  <1>11. ASSUME NEW b \in 1..k
         PROVE  /\ e[b - 1] < e[b] /\ e[b] <= e[b - 1] + size
                /\ (b - 1) * size = e[b - 1] /\ Min({b * size, n}) = e[b]
    <2> DEFINE a == b - 1
    <2>1. a \in 0..k /\ b \in 0..k /\ k \in 0..k /\ b <= k
      BY <1>1, <1>4
    <2>2. t[b] = t[a] + size /\ t[b] <= t[k] /\ t[a] \in Nat /\ t[b] \in Nat
      BY <1>3, <1>4, <1>5, <2>1
    <2>3. t[a] < n
      BY <1>5, <2>1, <2>2
    <2>4. e[a] = t[a]
      BY <1>6, <2>1, <2>3, <2>2
    <2>5. e[b] = IF t[b] <= n THEN t[b] ELSE n
      BY <1>6, <2>1
    <2>6. e[a] < e[b] /\ e[b] <= e[a] + size
      BY <2>2, <2>3, <2>4, <2>5
    <2>7. a * size = t[a] /\ b * size = t[b]
      BY <1>4
    <2>8. Min({t[b], n}) = e[b]
      BY <2>2, <2>5, MinOfTwo
    <2> QED BY <2>4, <2>6, <2>7, <2>8
  <1>12. AreCuts(e, n, size, k)
    <2>1. k \in Nat
      BY <1>1
    <2> HIDE DEF k
    <2> QED BY <1>4, <1>9, <1>10, <1>11, <2>1 DEF AreCuts
  <1> QED BY <1>12

\* make_batches: how many batches there are, how long they are, what is in them.
LEMMA BatchesAre ==
    ASSUME NEW s, IsSeq(s), NEW size \in Nat \ {0}, NEW e, AreCuts(e, Len(s), size, Ceil(Len(s), size))
    PROVE  LET B == Batches(s, size) k == Ceil(Len(s), size) IN
           /\ Len(B) = k /\ DOMAIN B = 1..k /\ B = [b \in 1..k |-> B[b]]
           /\ \A b \in 1..k : /\ IsSeq(B[b]) /\ Len(B[b]) = e[b] - e[b - 1] /\ Len(B[b]) \in 1..size
                              /\ \A i \in 1..Len(B[b]) : e[b - 1] + i \in 1..Len(s) /\ B[b][i] = s[e[b - 1] + i]
  <1> DEFINE B == Batches(s, size)
             n == Len(s)
             k == Ceil(n, size)
  <1>1. n \in Nat /\ k \in Nat
    BY DEF IsSeq, AreCuts
  <1>2. B = [b \in 1..k |-> SubSeq(s, (b - 1) * size + 1, Min({b * size, n}))]
    BY DEF Batches
  <1>3. Len(B) = k /\ DOMAIN B = 1..k /\ B = [b \in 1..k |-> B[b]]
    <2> HIDE DEF k, B
    <2>1. B = [b \in 1..k |-> B[b]]
      BY <1>2
    <2> QED BY <1>1, <2>1, MadeOf
  <1>4. ASSUME NEW b \in 1..k
        PROVE  /\ IsSeq(B[b]) /\ Len(B[b]) = e[b] - e[b - 1] /\ Len(B[b]) \in 1..size
               /\ \A i \in 1..Len(B[b]) : e[b - 1] + i \in 1..n /\ B[b][i] = s[e[b - 1] + i]
    <2> DEFINE T == {s[i] : i \in 1..n}
               lo == e[b - 1]
               hi == e[b]
               u == SubSeq(s, lo + 1, hi)
               m == hi - lo
    <2>1. lo \in Nat /\ hi \in Nat /\ lo < hi /\ hi <= n /\ hi <= lo + size
      <3>1. lo < hi /\ hi <= lo + size /\ b - 1 \in 0..k /\ b \in 0..k /\ e \in [0..k -> 0..n]
        BY DEF AreCuts
      <3>2. lo \in 0..n /\ hi \in 0..n
        BY <3>1
      <3> QED BY <1>1, <3>1, <3>2
    <2>2. B[b] = u
      BY <1>2 DEF AreCuts
    <2>3. \A i \in 1..n : s[i] \in T
      OBVIOUS
    <2> HIDE DEF T, lo, hi
    <2>4. s \in Seq(T)
      BY <2>3, InSeq
    <2>5. u \in Seq(T) /\ Len(u) = m /\ \A i \in 1..m : u[i] = s[lo + i] /\ lo + i \in 1..n
      BY <2>1, <2>4
    <2>6. IsSeq(u)
      BY <2>5, SequenceIs
    <2> HIDE DEF u
    <2>7. Len(u) \in 1..size
      BY <2>1, <2>5
    <2> QED BY <2>2, <2>5, <2>6, <2>7 DEF lo, hi
  <1> QED BY <1>3, <1>4

-----------------------------------------------------------------------------
\* Put together again, the batches are what was divided.
LEMMA Rejoined ==
    ASSUME NEW s, IsSeq(s), NEW size \in Nat \ {0}
    PROVE  FlattenSeq(Batches(s, size)) = s
  <1> DEFINE B == Batches(s, size)
             n == Len(s)
             k == Ceil(n, size)
             f == Flat(B, k)
             T == {s[i] : i \in 1..n}
  <1>1. n \in Nat /\ \A i \in 1..n : s[i] \in T
    BY DEF IsSeq
  <1>2. PICK e : AreCuts(e, n, size, k)
    BY <1>1, CutsAre
  <1>3. /\ DOMAIN B = 1..k /\ B = [b \in 1..k |-> B[b]]
        /\ \A b \in 1..k : /\ IsSeq(B[b]) /\ Len(B[b]) = e[b] - e[b - 1]
                           /\ \A i \in 1..Len(B[b]) : e[b - 1] + i \in 1..n /\ B[b][i] = s[e[b - 1] + i]
    BY <1>2, BatchesAre
  <1>4. /\ k \in Nat /\ e[0] = 0 /\ e[k] = n
        /\ \A b \in 1..k : b - 1 \in 0..k /\ b \in 0..k /\ e[b - 1] < e[b]
        /\ \A b \in 0..k : e[b] \in 0..n
    BY <1>2 DEF AreCuts
  <1> HIDE DEF T, B, k
  <1>5. \A b \in 1..k : B[b] \in Seq(T)
    BY <1>1, <1>3, InSeq
  <1>6. B \in [1..k -> Seq(T)]
    BY <1>3, <1>5
  <1>7. /\ k > 0 => FlattenSeq(B) = f[k] /\ f[1] = B[1]
        /\ k = 0 => FlattenSeq(B) = <<>>
        /\ \A i \in 1..k : f[i] \in Seq(T)
        /\ \A i \in 1..k : i > 1 => f[i] = f[i - 1] \o B[i] /\ i - 1 \in 1..k
    BY ONLY <1>4, <1>6, FlatFacts, Zenon
  <1> HIDE DEF f, n
  <1> DEFINE Upto(b) == Len(f[b]) = e[b] /\ \A i \in 1..e[b] : f[b][i] = s[i]
             Good == {m \in Nat : \A b \in 1..k : b <= m => Upto(b)}
  <1>8. ASSUME 1 \in 1..k PROVE Upto(1)
    <2>1. f[1] = B[1] /\ e[1 - 1] = 0
      BY <1>4, <1>7, <1>8
    <2>2. Len(B[1]) = e[1] - e[1 - 1] /\ e[1] \in Nat
      BY <1>3, <1>4, <1>8
    <2>3. \A i \in 1..Len(B[1]) : B[1][i] = s[e[1 - 1] + i]
      BY <1>3, <1>8
    <2>4. Len(B[1]) = e[1]
      BY <2>1, <2>2
    <2>5. \A i \in 1..e[1] : B[1][i] = s[i]
      <3> TAKE i \in 1..e[1]
      <3>1. B[1][i] = s[e[1 - 1] + i]
        BY <2>3, <2>4
      <3>2. e[1 - 1] + i = i
        BY <2>1, <2>2
      <3> QED BY <3>1, <3>2
    <2> QED BY <2>1, <2>4, <2>5
  <1>9. ASSUME NEW b \in 1..k, b > 1, Upto(b - 1) PROVE Upto(b)
    <2> DEFINE a == b - 1
               u == f[a]
               t == B[b]
    <2>1. f[b] = u \o t /\ a \in 1..k /\ u \in Seq(T)
      BY <1>7, <1>9
    <2>2. t \in Seq(T) /\ Len(t) = e[b] - e[a] /\ \A i \in 1..Len(t) : t[i] = s[e[a] + i]
      BY <1>3, <1>5
    <2>3. e[a] \in Nat /\ e[b] \in Nat /\ e[a] < e[b]
      BY <1>4
    <2>4. Len(u) = e[a] /\ \A i \in 1..e[a] : u[i] = s[i]
      BY <1>9
    <2> HIDE DEF u, t, a, Upto
    <2>5. /\ Len(u \o t) = Len(u) + Len(t)
          /\ \A p \in 1..Len(u) : (u \o t)[p] = u[p]
          /\ \A p \in 1..Len(t) : (u \o t)[Len(u) + p] = t[p]
      <3>1. u \in Seq(T) /\ t \in Seq(T)
        BY <2>1, <2>2
      <3> QED BY ONLY <3>1, Concatenated
    <2>6. Len(u \o t) = e[b]
      BY <2>2, <2>3, <2>4, <2>5
    <2>7. ASSUME NEW i \in 1..e[b] PROVE (u \o t)[i] = s[i]
      <3>1. CASE i <= e[a]
        BY <2>3, <2>4, <2>5, <3>1
      <3>2. CASE i > e[a]
        <4> DEFINE p == i - e[a]
        <4>1. p \in 1..Len(t) /\ e[a] + p = i
          BY <2>2, <2>3, <3>2
        <4> HIDE DEF p
        <4>2. t[p] = s[e[a] + p] /\ (u \o t)[Len(u) + p] = t[p]
          BY <2>2, <2>5, <4>1
        <4> QED BY <2>4, <4>1, <4>2
      <3>3. i <= e[a] \/ i > e[a]
        BY <2>3
      <3> QED BY <3>1, <3>2, <3>3
    <2> QED BY <2>1, <2>6, <2>7 DEF Upto
  <1>13. k \in Good => \A b \in 1..k : Upto(b)
    <2> HIDE DEF Upto
    <2>1. \A b \in 1..k : b <= k
      BY <1>4
    <2> QED BY <2>1
  <1>14. Good \in SUBSET Nat
    OBVIOUS
  <1> HIDE DEF Upto
  <1>10. 0 \in Good
    OBVIOUS
  <1>11. ASSUME NEW m \in Nat, m \in Good PROVE m + 1 \in Good
    <2>1. ASSUME NEW b \in 1..k, b <= m + 1 PROVE Upto(b)
      <3>1. CASE b <= m
        BY <1>11, <3>1
      <3>2. CASE b = 1
        BY <1>8, <3>2
      <3>3. CASE b = m + 1 /\ b > 1
        <4>1. b - 1 \in 1..k /\ b - 1 <= m
          BY <1>4, <3>3
        <4>2. Upto(b - 1)
          BY <1>11, <4>1
        <4> QED BY <1>9, <3>3, <4>2
      <3> QED BY <1>4, <2>1, <3>1, <3>2, <3>3
    <2> QED BY <2>1
  <1> HIDE DEF Good
  <1>12. k \in Good
    BY <1>4, <1>10, <1>11, <1>14, NumbersInduct
  <1>15. CASE k = 0
    <2>1. FlattenSeq(B) = <<>> /\ n = 0
      BY <1>4, <1>7, <1>15
    <2>2. s = <<>>
      BY <2>1 DEF IsSeq, n
    <2> QED BY <2>1, <2>2 DEF B
  <1>16. CASE k > 0
    <2>1. FlattenSeq(B) = f[k] /\ f[k] \in Seq(T) /\ k \in 1..k
      BY <1>4, <1>7, <1>16
    <2>2. Len(f[k]) = n /\ \A i \in 1..n : f[k][i] = s[i]
      BY <1>4, <1>12, <1>13, <2>1 DEF Upto
    <2>3. IsSeq(f[k])
      BY <2>1, SequenceIs
    <2>4. f[k] = s
      BY <2>2, <2>3, SeqSame DEF n
    <2> QED BY <2>1, <2>4 DEF B
  <1> QED BY <1>4, <1>15, <1>16

\* When a batch is smaller than the workers accept, there is at most one for each GPU.
LEMMA FewBatches ==
    ASSUME NEW n \in Nat \ {0}, NEW g \in Nat \ {0}, NEW size \in Nat \ {0}, Ceil(n, g) <= size
    PROVE  Ceil(n, size) <= g
  <1> DEFINE k == Ceil(n, size)
             c == Ceil(n, g)
  <1>1. k \in Nat /\ size * k \in Nat /\ size * k < n + size /\ k > 0
    BY CeilIs
  <1>2. c \in Nat /\ n <= g * c
    BY CeilIs
  <1> HIDE DEF k, c
  <1>3. c <= size
    BY DEF c
  <1>4. g * c <= g * size /\ g * size \in Nat /\ g * size = size * g /\ g * c \in Nat
    BY <1>2, <1>3, TimesGrows
  <1>5. size * k < size * g + size
    <2> DEFINE x == g * c
               y == size * g
               z == size * k
    <2>1. x \in Nat /\ y \in Nat /\ z \in Nat /\ n <= x /\ x <= y /\ z < n + size
      BY <1>1, <1>2, <1>4
    <2> HIDE DEF x, y, z
    <2>2. z < y + size
      BY <2>1
    <2> QED BY <2>2 DEF y, z
  <1>6. CASE k > g
    <2>1. g + 1 <= k /\ g + 1 \in Nat
      BY <1>1, <1>6
    <2>2. size * (g + 1) <= size * k /\ size * (g + 1) = size * g + size
      BY <1>1, <2>1, TimesGrows
    <2> DEFINE y == size * g
               z == size * k
    <2>3. y \in Nat /\ z \in Nat /\ z < y + size /\ y + size <= z
      BY <1>1, <1>4, <1>5, <2>2
    <2> QED BY <2>3
  <1> QED BY <1>1, <1>6 DEF k

-----------------------------------------------------------------------------
\* Pool runs.

LEMMA Numbers == {NWorks, N, StepCap, McK, MaxResponse, MaxTeacher, PerBatch, NGpus, NAgents} \subseteq Nat \ {0}
  BY ErsrAssumption

LEMMA RequestSizes ==
    ASSUME NEW n \in Nat \ {0}
    PROVE  /\ RequestsPerBatch(n) \in 1..PerBatch
           /\ RequestsPerBatch(n) < PerBatch => Ceil(n, NGpus) <= RequestsPerBatch(n)
  <1> DEFINE c == Ceil(n, NGpus)
  <1>1. c \in Nat /\ c > 0
    <2>1. NGpus \in Nat \ {0} /\ n \in Nat /\ n > 0
      BY Numbers
    <2> QED BY ONLY <2>1, CeilIs DEF c
  <1>2. RequestsPerBatch(n) = Min({PerBatch, c})
    BY DEF RequestsPerBatch
  <1> HIDE DEF c
  <1>3. PerBatch \in Nat /\ PerBatch > 0
    BY Numbers
  <1>4. Min({PerBatch, c}) = IF PerBatch <= c THEN PerBatch ELSE c
    BY <1>1, <1>3, MinOfTwo
  <1>5. /\ RequestsPerBatch(n) \in 1..PerBatch
        /\ RequestsPerBatch(n) < PerBatch => c <= RequestsPerBatch(n)
    BY <1>1, <1>2, <1>3, <1>4
  <1> QED BY <1>5 DEF c

\* What one pool run does with requests of different names.
NamesDiffer(requests) ==
    \A i, j \in 1..Len(requests) : requests[i].id = requests[j].id => i = j

LEMMA Answers ==
    ASSUME NEW requests, IsSeq(requests), NamesDiffer(requests), NEW m \in 1..Len(requests)
    PROVE  GenerationPhase(requests)[requests[m].id] = Completion(requests[m])
  <1> DEFINE n == Len(requests)
             size == RequestsPerBatch(n)
             k == Ceil(n, size)
             B == Batches(requests, size)
             h == [i \in 1..n |-> Completion(requests[i])]
             C == Batches(h, size)
             outputs == [b \in DOMAIN B |-> [i \in DOMAIN B[b] |-> Completion(B[b][i])]]
             flat == FlattenSeq(outputs)
             latest(id) == Max({l \in DOMAIN requests : requests[l].id = id})
  <1>1. n \in Nat \ {0} /\ DOMAIN requests = 1..n
    BY DEF IsSeq
  <1>2. size \in Nat \ {0}
    <2>1. size \in 1..PerBatch
      BY <1>1, RequestSizes
    <2>2. PerBatch \in Nat
      BY Numbers
    <2> QED BY <2>1, <2>2
  <1>3. IsSeq(h) /\ Len(h) = n /\ \A i \in 1..n : h[i] = Completion(requests[i])
    <2>1. h = [i \in 1..n |-> h[i]] /\ \A i \in 1..n : h[i] = Completion(requests[i])
      OBVIOUS
    <2> HIDE DEF h, n
    <2> QED BY <1>1, <2>1, MadeOf
  <1> HIDE DEF h
  <1>4. PICK e : AreCuts(e, n, size, k)
    BY <1>1, <1>2, CutsAre
  <1>5. /\ DOMAIN B = 1..k
        /\ \A b \in 1..k : /\ IsSeq(B[b]) /\ Len(B[b]) = e[b] - e[b - 1]
                           /\ \A i \in 1..Len(B[b]) : e[b - 1] + i \in 1..n /\ B[b][i] = requests[e[b - 1] + i]
    BY <1>2, <1>4, BatchesAre
  <1>6. /\ C = [b \in 1..k |-> C[b]]
        /\ \A b \in 1..k : /\ IsSeq(C[b]) /\ Len(C[b]) = e[b] - e[b - 1]
                           /\ \A i \in 1..Len(C[b]) : e[b - 1] + i \in 1..n /\ C[b][i] = h[e[b - 1] + i]
    <2>1. AreCuts(e, Len(h), size, Ceil(Len(h), size))
      BY <1>3, <1>4
    <2> HIDE DEF C, k, n
    <2>2. /\ C = [b \in 1..Ceil(Len(h), size) |-> C[b]]
          /\ \A b \in 1..Ceil(Len(h), size) :
                /\ IsSeq(C[b]) /\ Len(C[b]) = e[b] - e[b - 1]
                /\ \A i \in 1..Len(C[b]) : e[b - 1] + i \in 1..Len(h) /\ C[b][i] = h[e[b - 1] + i]
      <3>1. IsSeq(h) /\ size \in Nat \ {0}
        BY <1>2, <1>3
      <3> HIDE DEF h, size
      <3> QED BY ONLY <2>1, <3>1, BatchesAre DEF C
    <2>3. Ceil(Len(h), size) = k
      BY <1>3 DEF k
    <2> QED BY <1>3, <2>2, <2>3
  <1> HIDE DEF B, C, k, size, n
  <1>7. ASSUME NEW b \in 1..k
        PROVE  [i \in DOMAIN B[b] |-> Completion(B[b][i])] = C[b]
    <2>1. DOMAIN B[b] = 1..Len(B[b]) /\ Len(C[b]) = Len(B[b])
      BY <1>5, <1>6, DomainOf
    <2>2. \A i \in 1..Len(B[b]) : Completion(B[b][i]) = C[b][i]
      <3> TAKE i \in 1..Len(B[b])
      <3>1. e[b - 1] + i \in 1..n /\ B[b][i] = requests[e[b - 1] + i] /\ C[b][i] = h[e[b - 1] + i]
        BY <1>5, <1>6, <2>1
      <3> QED BY <1>3, <3>1
    <2>3. C[b] = [i \in 1..Len(B[b]) |-> C[b][i]]
      BY <1>6, <2>1 DEF IsSeq
    <2> QED BY <2>1, <2>2, <2>3
  <1>8. outputs = C
    BY <1>5, <1>6, <1>7
  <1>9. flat = h
    BY <1>2, <1>3, <1>8, Rejoined DEF C
  <1> HIDE DEF flat
  <1>10. latest(requests[m].id) = m
    <2>1. {l \in DOMAIN requests : requests[l].id = requests[m].id} = {m}
      BY <1>1 DEF NamesDiffer, n
    <2>2. Max({m}) = m
      <3>1. m \in {m} /\ \A y \in {m} : m >= y
        BY <1>1 DEF n
      <3> QED BY <3>1 DEF Max
    <2> QED BY <2>1, <2>2
  <1>11. requests # <<>>
    BY <1>1 DEF n
  <1>12. GenerationPhase(requests) = [id \in {requests[l].id : l \in DOMAIN requests} |-> flat[latest(id)]]
    BY <1>11 DEF GenerationPhase, flat, B, size, n
  <1> HIDE DEF latest
  <1>13. m \in DOMAIN requests /\ m \in 1..n
    BY <1>1 DEF n
  <1> QED BY <1>3, <1>9, <1>10, <1>12, <1>13

\* Jobs that a worker accepts, and few of them when they are smaller than that.
Fits(sizes) ==
    /\ \A b \in DOMAIN sizes : 0 < sizes[b] /\ sizes[b] <= PerBatch
    /\ sizes # <<>> /\ sizes[1] < PerBatch => Len(sizes) <= NGpus

LEMMA RequestsFit ==
    ASSUME NEW requests, IsSeq(requests)
    PROVE  Fits(JobSizes(requests))
  <1> DEFINE n == Len(requests)
             size == RequestsPerBatch(n)
             k == Ceil(n, size)
             B == Batches(requests, size)
             sizes == [b \in DOMAIN B |-> Len(B[b])]
  <1>0. PerBatch \in Nat \ {0} /\ NGpus \in Nat \ {0}
    BY Numbers
  <1>1. CASE requests = <<>>
    <2>1. JobSizes(requests) = <<>>
      BY <1>1 DEF JobSizes
    <2> QED BY <2>1 DEF Fits
  <1>2. CASE requests # <<>>
    <2>1. n \in Nat \ {0} /\ JobSizes(requests) = sizes
      BY <1>2 DEF IsSeq, JobSizes
    <2>2. size \in 1..PerBatch /\ (size < PerBatch => Ceil(n, NGpus) <= size)
      BY <2>1, RequestSizes
    <2>3. size \in Nat \ {0}
      BY <1>0, <2>2
    <2>4. PICK e : AreCuts(e, n, size, k)
      BY <2>1, <2>3, CutsAre
    <2>5. DOMAIN B = 1..k /\ \A b \in 1..k : Len(B[b]) = e[b] - e[b - 1] /\ Len(B[b]) \in 1..size
      BY <2>3, <2>4, BatchesAre
    <2>6. k \in Nat
      BY <2>4 DEF AreCuts
    <2>7. e \in [0..k -> 0..n] /\ e[0] = 0 /\ e[k] = n
      BY <2>4 DEF AreCuts
    <2>8. size < PerBatch => k <= NGpus
      BY <1>0, <2>1, <2>2, <2>3, FewBatches
    <2> HIDE DEF B, k, size, n
    <2>9. Len(sizes) = k /\ \A b \in 1..k : sizes[b] = Len(B[b])
      BY <2>5, <2>6
    <2>10. DOMAIN sizes = 1..k
      BY <2>5
    <2>11. \A b \in 1..k : 0 < sizes[b] /\ sizes[b] <= PerBatch
      BY <1>0, <2>2, <2>5, <2>9
    <2> HIDE DEF sizes
    <2>12. ASSUME sizes # <<>>, sizes[1] < PerBatch, size = PerBatch PROVE k <= NGpus
      <3>1. k # 1 => k <= 0 \/ k > 1
        BY <2>6
      <3>2. CASE k > 1
        <4>1. 1 \in 1..k /\ 1 - 1 \in 0..k /\ 1 \in 0..k
          BY <2>6, <3>2
        <4>2. e[1] = sizes[1]
          <5>1. sizes[1] = e[1] - e[1 - 1] /\ e[1] \in 0..n
            BY <2>5, <2>7, <2>9, <4>1
          <5> QED BY <2>1, <2>7, <5>1
        <4>3. Min({1 * size, n}) = e[1] /\ e[1] < e[2]
          <5>1. 2 \in 1..k /\ 2 - 1 = 1
            BY <2>6, <3>2
          <5> QED BY <2>4, <4>1, <5>1 DEF AreCuts
        <4>4. size \in Nat /\ 1 * size = size
          BY <2>3
        <4>5. Min({size, n}) = IF size <= n THEN size ELSE n
          BY <2>1, <4>4, MinOfTwo
        <4>6. e[1] = n
          <5>1. e[1] = Min({size, n})
            BY <4>3, <4>4
          <5>2. e[1] < size
            BY <2>12, <4>2
          <5> QED BY <4>4, <4>5, <5>1, <5>2
        <4>7. e[2] \in 0..n
          BY <2>6, <2>7, <3>2
        <4> QED BY <2>1, <4>3, <4>6, <4>7
      <3> QED BY <1>0, <2>6, <3>1, <3>2
    <2>13. size = PerBatch \/ size < PerBatch
      BY <1>0, <2>2
    <2> QED BY <2>1, <2>8, <2>9, <2>10, <2>11, <2>12, <2>13 DEF Fits
  <1> QED BY <1>1, <1>2

-----------------------------------------------------------------------------
\* Sets of one size.

LEMMA SameSize ==
    ASSUME NEW S, NEW T, IsFiniteSet(S), NEW f \in [S -> T],
           \A x, y \in S : f[x] = f[y] => x = y,
           \A z \in T : \E x \in S : f[x] = z
    PROVE  IsFiniteSet(T) /\ Cardinality(T) = Cardinality(S)
  <1>1. f \in Bijection(S, T)
    BY DEF Bijection, Injection, Surjection, IsInjective
  <1>2. ExistsBijection(S, T)
    BY <1>1 DEF ExistsBijection
  <1> QED BY <1>2, FS_Bijection

-----------------------------------------------------------------------------
\* Records and the steps they offer.

\* The records of some questions.
AreRecords(recs) ==
    /\ IsSeq(recs)
    /\ \A r \in 1..Len(recs) : recs[r].ends \in Seq(1..MaxResponse)

\* RecordsOf makes records.
LEMMA RecordsAre ==
    ASSUME input \in Inputs, NEW w \in Works, NEW questions, IsSeq(questions),
           \A i \in 1..Len(questions) : questions[i] \in DOMAIN input[w]
    PROVE  /\ IsSeq(RecordsOf(w, questions))
           /\ \A x : Has(RecordsOf(w, questions), x) => x.ends \in Seq(1..MaxResponse)
  <1> DEFINE k == Len(questions)
             seqs == [i \in DOMAIN questions |-> [j \in 1..N |-> Record(w, questions[i], j)]]
             u == FlattenSeq(seqs)
  <1>1. k \in Nat /\ DOMAIN questions = 1..k /\ N \in Nat
    BY Numbers DEF IsSeq
  <1>2. seqs = [i \in 1..k |-> seqs[i]]
    BY <1>1
  <1>3. ASSUME NEW i \in 1..k
        PROVE  IsSeq(seqs[i]) /\ \A x : Has(seqs[i], x) => x.ends \in Seq(1..MaxResponse)
    <2> DEFINE q == questions[i]
               v == seqs[i]
    <2>1. v = [j \in 1..N |-> v[j]] /\ \A j \in 1..N : v[j] = Record(w, q, j)
      BY <1>1
    <2>2. input[w] \in Seq(QuestionType) /\ q \in DOMAIN input[w]
      BY ErsrAssumption DEF Works
    <2>3. input[w][q] \in QuestionType /\ Len(input[w][q].rollouts) = N
      <3>1. input[w][q] \in QuestionType
        BY <2>2
      <3>2. w \in 1..NWorks
        BY DEF Works
      <3>3. Len(input[w][q].rollouts) = N
        <4> HIDE DEF q
        <4> QED BY <2>2, <3>2, ErsrAssumption
      <3> QED BY <3>1, <3>3
    <2>4. \A j \in 1..N : input[w][q].rollouts[j] \in RolloutType
      BY <2>3 DEF QuestionType
    <2>5. \A j \in 1..N : Record(w, q, j).ends \in Seq(1..MaxResponse)
      BY <2>4 DEF Record, RolloutType
    <2> HIDE DEF v
    <2>6. IsSeq(v) /\ Len(v) = N
      BY <1>1, <2>1, MadeOf
    <2>7. \A x : Has(v, x) => x.ends \in Seq(1..MaxResponse)
      BY <2>1, <2>5, <2>6 DEF Has
    <2> QED BY <2>6, <2>7 DEF v
  <1> HIDE DEF seqs, k
  <1>4. AreSeqs(seqs, k)
    BY <1>2, <1>3 DEF AreSeqs
  <1>5. IsSeq(u) /\ \A x : Has(u, x) <=> \E j \in 1..k : Has(seqs[j], x)
    BY ONLY <1>1, <1>4, FlatIs
  <1>6. RecordsOf(w, questions) = u
    BY DEF RecordsOf, seqs
  <1> HIDE DEF u
  <1> QED BY <1>3, <1>5, <1>6

LEMMA HasRecords ==
    ASSUME NEW recs, IsSeq(recs), \A x : Has(recs, x) => x.ends \in Seq(1..MaxResponse)
    PROVE  AreRecords(recs)
  BY DEF AreRecords, Has

LEMMA AllQuestionsAre ==
    ASSUME input \in Inputs, NEW w \in Works
    PROVE  /\ IsSeq(AllQuestions(w)) /\ Len(AllQuestions(w)) = Len(input[w]) /\ Len(input[w]) \in Nat \ {0}
           /\ \A i \in 1..Len(AllQuestions(w)) : AllQuestions(w)[i] \in DOMAIN input[w]
  <1> DEFINE n == Len(input[w])
             a == AllQuestions(w)
  <1>1. input[w] \in Seq(QuestionType) /\ input[w] # <<>>
    BY ErsrAssumption DEF Works
  <1>2. n \in Nat \ {0} /\ DOMAIN input[w] = 1..n
    BY <1>1
  <1>3. a = [i \in 1..n |-> a[i]] /\ \A i \in 1..n : a[i] = i
    BY <1>2 DEF AllQuestions
  <1> HIDE DEF n, a
  <1>4. IsSeq(a) /\ Len(a) = n
    BY <1>2, <1>3, MadeOf
  <1> QED BY <1>2, <1>3, <1>4 DEF n, a

LEMMA FirstRecords ==
    ASSUME input \in Inputs, NEW w \in Works
    PROVE  AreRecords(RecordsOf(w, AllQuestions(w)))
  BY AllQuestionsAre, RecordsAre, HasRecords, Zenon

LEMMA BatchedRecords ==
    ASSUME input \in Inputs, NEW w \in Works, NEW size \in Nat \ {0}
    PROVE  LET batches == Batches(AllQuestions(w), size)
           IN  AreRecords(FlattenSeq([b \in DOMAIN batches |-> RecordsOf(w, batches[b])]))
  <1> DEFINE a == AllQuestions(w)
             n == Len(a)
             k == Ceil(n, size)
             B == Batches(a, size)
             seqs == [b \in DOMAIN B |-> RecordsOf(w, B[b])]
  <1>1. IsSeq(a) /\ n \in Nat \ {0} /\ \A i \in 1..n : a[i] \in DOMAIN input[w]
    BY AllQuestionsAre
  <1>2. PICK e : AreCuts(e, n, size, k)
    BY <1>1, CutsAre
  <1>3. DOMAIN B = 1..k /\ k \in Nat
    <2>1. k \in Nat
      BY <1>2 DEF AreCuts
    <2> HIDE DEF a
    <2>2. DOMAIN B = 1..k
      BY ONLY <1>1, <1>2, size \in Nat \ {0}, BatchesAre
    <2> QED BY <2>1, <2>2
  <1>4. \A b \in 1..k : IsSeq(B[b]) /\ \A i \in 1..Len(B[b]) : B[b][i] \in DOMAIN input[w]
    <2>1. \A b \in 1..k : /\ IsSeq(B[b])
                          /\ \A i \in 1..Len(B[b]) : e[b - 1] + i \in 1..n /\ B[b][i] = a[e[b - 1] + i]
      BY <1>1, <1>2, BatchesAre
    <2> HIDE DEF B, k, n, a
    <2> QED BY <1>1, <2>1
  <1> HIDE DEF B, k, n, a
  <1>5. \A b \in 1..k : IsSeq(seqs[b]) /\ \A x : Has(seqs[b], x) => x.ends \in Seq(1..MaxResponse)
    BY <1>3, <1>4, RecordsAre
  <1>6. seqs = [b \in 1..k |-> seqs[b]]
    BY <1>3
  <1> HIDE DEF seqs
  <1>7. AreSeqs(seqs, k)
    BY <1>5, <1>6 DEF AreSeqs
  <1>8. IsSeq(FlattenSeq(seqs)) /\ \A x : Has(FlattenSeq(seqs), x) <=> \E j \in 1..k : Has(seqs[j], x)
    BY ONLY <1>3, <1>7, FlatIs
  <1>9. AreRecords(FlattenSeq(seqs))
    BY <1>5, <1>8, HasRecords
  <1> QED BY <1>9 DEF seqs, B, a

\* The step i of the record r of recs, which selection may keep.
IsStep(recs, r, i) ==
    /\ r \in 1..Len(recs) /\ recs[r].splits /\ Key(recs[r]) \in Keys
    /\ i \in 1..(Len(recs[r].ends) - 1)

\* The candidates are the steps that selection may keep, each once.
LEMMA CandidatesAre ==
    ASSUME NEW recs, AreRecords(recs)
    PROVE  /\ IsSeq(Candidates(recs)) /\ Once(Candidates(recs))
           /\ \A x : Has(Candidates(recs), x) <=>
                 \E r \in 1..Len(recs) : \E i \in 1..(Len(recs[r].ends) - 1) :
                     IsStep(recs, r, i) /\ x = Candidate(r, recs[r], i)
  <1> DEFINE k == Len(recs)
             seqs == [r \in DOMAIN recs |-> CandidatesOf(recs, r)]
             u == FlattenSeq(seqs)
  <1>1. k \in Nat /\ DOMAIN recs = 1..k
    BY DEF AreRecords, IsSeq
  <1>2. seqs = [r \in 1..k |-> seqs[r]]
    BY <1>1
  <1>3. ASSUME NEW r \in 1..k
        PROVE  /\ IsSeq(seqs[r]) /\ Once(seqs[r])
               /\ \A x : Has(seqs[r], x) <=>
                     \E i \in 1..(Len(recs[r].ends) - 1) : IsStep(recs, r, i) /\ x = Candidate(r, recs[r], i)
    <2> DEFINE v == CandidatesOf(recs, r)
               n == Len(recs[r].ends) - 1
    <2>0. seqs[r] = v
      BY <1>1
    <2>1. CASE ~(recs[r].splits /\ Key(recs[r]) \in Keys)
      <3>1. v = <<>>
        BY <2>1 DEF CandidatesOf
      <3>2. \A i : ~IsStep(recs, r, i)
        BY <2>1 DEF IsStep
      <3>3. IsSeq(v) /\ Once(v) /\ \A x : ~Has(v, x)
        BY <3>1 DEF IsSeq, Once, Has
      <3> QED BY <2>0, <3>2, <3>3
    <2>2. CASE recs[r].splits /\ Key(recs[r]) \in Keys
      <3>1. recs[r].ends \in Seq(1..MaxResponse)
        BY DEF AreRecords
      <3>2. v = [i \in 1..n |-> Candidate(r, recs[r], i)]
        BY <2>2 DEF CandidatesOf
      <3>3. \A i : IsStep(recs, r, i) <=> i \in 1..n
        BY <2>2 DEF IsStep
      <3>4. n \in Nat \/ n = -1
        BY <3>1
      <3> HIDE DEF n
      <3>5. PICK m \in Nat : 1..n = 1..m
        <4>1. n = -1 => 1..n = 1..0
          OBVIOUS
        <4> QED BY <3>4, <4>1
      <3>6. v = [i \in 1..m |-> v[i]] /\ \A i \in 1..m : v[i] = Candidate(r, recs[r], i)
        BY <3>2, <3>5
      <3> HIDE DEF v
      <3>7. IsSeq(v) /\ Len(v) = m
        BY <3>6, MadeOf
      <3>8. Once(v)
        BY <3>6, <3>7 DEF Once, Candidate
      <3>9. \A x : Has(v, x) <=> \E i \in 1..n : x = Candidate(r, recs[r], i)
        BY <3>5, <3>6, <3>7 DEF Has
      <3>10. \A x : Has(v, x) <=> \E i \in 1..n : IsStep(recs, r, i) /\ x = Candidate(r, recs[r], i)
        BY <3>3, <3>9
      <3> QED BY <2>0, <3>7, <3>8, <3>10 DEF n
    <2> QED BY <2>1, <2>2
  <1> HIDE DEF seqs, k
  <1>4. AreSeqs(seqs, k)
    BY <1>2, <1>3 DEF AreSeqs
  <1>5. /\ IsSeq(u)
        /\ \A x : Has(u, x) <=> \E j \in 1..k : Has(seqs[j], x)
        /\ (/\ \A j \in 1..k : Once(seqs[j])
            /\ \A j, l \in 1..k : \A x : Has(seqs[j], x) /\ Has(seqs[l], x) => j = l)
           => Once(u)
    BY ONLY <1>1, <1>4, FlatIs
  <1>6. \A j, l \in 1..k : \A x : Has(seqs[j], x) /\ Has(seqs[l], x) => j = l
    <2>1. \A j \in 1..k : \A x : Has(seqs[j], x) => x.record = j
      BY <1>3 DEF Candidate
    <2> QED BY <2>1
  <1>7. Candidates(recs) = u
    BY DEF Candidates, seqs
  <1> HIDE DEF u
  <1>8. Once(u)
    BY <1>3, <1>5, <1>6
  <1>9. \A x : Has(u, x) <=> \E r \in 1..k : \E i \in 1..(Len(recs[r].ends) - 1) :
                                 IsStep(recs, r, i) /\ x = Candidate(r, recs[r], i)
    BY <1>3, <1>5
  <1> QED BY <1>5, <1>7, <1>8, <1>9 DEF k

-----------------------------------------------------------------------------
\* The reservoir of a series.

\* Which of the first m candidates are of a series.
CountsOf(all, m, key) == {j \in 1..m : all[j].key = key}

LEMMA CountsGrow ==
    ASSUME NEW all, NEW m \in Nat, NEW key
    PROVE  /\ IsFiniteSet(CountsOf(all, m, key)) /\ Cardinality(CountsOf(all, m, key)) \in Nat
           /\ Cardinality(CountsOf(all, 0, key)) = 0
           /\ Cardinality(CountsOf(all, m + 1, key)) =
                 IF all[m + 1].key = key THEN Cardinality(CountsOf(all, m, key)) + 1
                                         ELSE Cardinality(CountsOf(all, m, key))
  <1> DEFINE S == CountsOf(all, m, key)
  <1>1. IsFiniteSet(S)
    <2>1. IsFiniteSet(1..m)
      BY FS_Interval
    <2>2. S \subseteq 1..m
      BY DEF CountsOf
    <2> QED BY <2>1, <2>2, FS_Subset
  <1>2. Cardinality(S) \in Nat
    BY <1>1, FS_CardinalityType
  <1>3. CountsOf(all, 0, key) = {}
    BY DEF CountsOf
  <1>4. CountsOf(all, m + 1, key) = IF all[m + 1].key = key THEN S \cup {m + 1} ELSE S
    <2>1. \A j : j \in 1..(m + 1) <=> j \in 1..m \/ j = m + 1
      OBVIOUS
    <2> QED BY <2>1 DEF CountsOf
  <1>5. m + 1 \notin S
    BY DEF CountsOf
  <1> HIDE DEF S
  <1>6. Cardinality(S \cup {m + 1}) = Cardinality(S) + 1
    BY <1>1, <1>5, FS_AddElement
  <1> QED BY <1>1, <1>2, <1>3, <1>4, <1>6, FS_EmptySet DEF S

\* What the reservoir of a series holds of the first m candidates.
IsReservoir(rows, all, m, key) ==
    /\ IsSeq(rows) /\ Once(rows)
    /\ \A x : Has(rows, x) => x.key = key /\ \E j \in 1..m : all[j] = x
    /\ Len(rows) = Min({StepCap, Cardinality(CountsOf(all, m, key))})

LEMMA ReservoirEmpty ==
    ASSUME NEW all, NEW key
    PROVE  IsReservoir(<<>>, all, 0, key)
  <1>1. IsSeq(<<>>) /\ Once(<<>>) /\ (\A x : ~Has(<<>>, x)) /\ Len(<<>>) = 0
    BY DEF IsSeq, Once, Has
  <1>2. Cardinality(CountsOf(all, 0, key)) = 0
    BY CountsGrow
  <1>3. StepCap \in Nat
    BY Numbers
  <1>4. Min({StepCap, 0}) = 0
    BY <1>3, MinOfTwo
  <1> QED BY <1>1, <1>2, <1>4 DEF IsReservoir

LEMMA Appended ==
    ASSUME NEW s, IsSeq(s), NEW x
    PROVE  /\ IsSeq(Append(s, x)) /\ Len(Append(s, x)) = Len(s) + 1
           /\ \A i \in 1..Len(s) : Append(s, x)[i] = s[i]
           /\ Append(s, x)[Len(s) + 1] = x
  <1> DEFINE T == {s[i] : i \in 1..Len(s)} \cup {x}
  <1>1. (\A i \in 1..Len(s) : s[i] \in T) /\ x \in T
    OBVIOUS
  <1> HIDE DEF T
  <1>2. s \in Seq(T)
    BY <1>1, InSeq
  <1>3. Append(s, x) \in Seq(T)
    BY <1>1, <1>2
  <1>4. IsSeq(Append(s, x))
    BY <1>3, SequenceIs
  <1> QED BY <1>1, <1>2, <1>4

\* One more candidate, taken in or not, leaves a reservoir of one candidate more.
LEMMA ReservoirGrows ==
    ASSUME NEW all, IsSeq(all), Once(all), NEW m \in Nat, m < Len(all), NEW key,
           NEW rows, IsReservoir(rows, all, m, key)
    PROVE  LET c == all[m + 1] IN
           /\ c.key # key => IsReservoir(rows, all, m + 1, key)
           /\ c.key = key /\ Len(rows) < StepCap => IsReservoir(Append(rows, c), all, m + 1, key)
           /\ c.key = key /\ Len(rows) >= StepCap =>
                 \A i \in Nat \ {0} : IsReservoir(Replaced(rows, c, i), all, m + 1, key)
  <1> DEFINE c == all[m + 1]
             n == Cardinality(CountsOf(all, m, key))
             n2 == Cardinality(CountsOf(all, m + 1, key))
  <1>1. n \in Nat /\ n2 = IF c.key = key THEN n + 1 ELSE n
    BY CountsGrow
  <1>2. StepCap \in Nat
    BY Numbers
  <1>3. Len(rows) = IF StepCap <= n THEN StepCap ELSE n
    BY <1>1, <1>2, MinOfTwo DEF IsReservoir
  <1>4. Min({StepCap, n2}) = IF StepCap <= n2 THEN StepCap ELSE n2
    BY <1>1, <1>2, MinOfTwo
  <1>5. /\ IsSeq(rows) /\ Once(rows) /\ Len(rows) \in Nat /\ DOMAIN rows = 1..Len(rows)
        /\ \A x : Has(rows, x) => x.key = key /\ \E j \in 1..m : all[j] = x
    BY DomainOf DEF IsReservoir, IsSeq
  <1>6. /\ Len(all) \in Nat /\ m + 1 \in 1..(m + 1) /\ \A j \in 1..m : j \in 1..(m + 1) /\ all[j] # c
    BY DEF IsSeq, Once
  <1>7. \A j \in 1..Len(rows) : rows[j] # c /\ Has(rows, rows[j])
    <2>1. \A j \in 1..Len(rows) : Has(rows, rows[j])
      BY DEF Has
    <2> HIDE DEF c
    <2> QED BY <1>5, <1>6, <2>1
  <1> HIDE DEF n, n2, c
  <1>8. ASSUME c.key # key PROVE IsReservoir(rows, all, m + 1, key)
    <2>1. Len(rows) = Min({StepCap, n2})
      BY <1>1, <1>2, <1>3, <1>4, <1>8
    <2> QED BY <1>5, <1>6, <2>1 DEF IsReservoir, n2
  <1>9. ASSUME c.key = key, Len(rows) < StepCap PROVE IsReservoir(Append(rows, c), all, m + 1, key)
    <2> DEFINE s == Append(rows, c)
    <2>1. /\ IsSeq(s) /\ Len(s) = Len(rows) + 1 /\ s[Len(rows) + 1] = c
          /\ \A i \in 1..Len(rows) : s[i] = rows[i]
      BY <1>5, Appended
    <2> HIDE DEF s
    <2>2. Len(s) = Min({StepCap, n2})
      BY <1>1, <1>2, <1>3, <1>4, <1>9, <2>1
    <2>3. \A i : i \in 1..Len(s) <=> i \in 1..Len(rows) \/ i = Len(rows) + 1
      BY <1>5, <2>1
    <2>4. Once(s)
      BY <1>5, <1>7, <2>1, <2>3 DEF Once
    <2>5. \A x : Has(s, x) => x = c \/ Has(rows, x)
      BY <2>1, <2>3 DEF Has
    <2>6. \A x : Has(s, x) => x.key = key /\ \E j \in 1..(m + 1) : all[j] = x
      BY <1>5, <1>6, <1>9, <2>5 DEF c
    <2> QED BY <2>1, <2>2, <2>4, <2>6 DEF IsReservoir, n2, s
  <1>10. ASSUME c.key = key, Len(rows) >= StepCap, NEW i \in Nat \ {0}
         PROVE  IsReservoir(Replaced(rows, c, i), all, m + 1, key)
    <2> DEFINE s == Replaced(rows, c, i)
    <2>1. Len(rows) = Min({StepCap, n2})
      BY <1>1, <1>2, <1>3, <1>4, <1>10
    <2>2. CASE i <= StepCap
      <3>1. i \in 1..Len(rows)
        BY <1>2, <1>3, <1>10, <2>2
      <3>2. s = [rows EXCEPT ![i] = c]
        BY <2>2 DEF Replaced
      <3>3. /\ s = [j \in 1..Len(rows) |-> s[j]] /\ s[i] = c
            /\ \A j \in 1..Len(rows) : j # i => s[j] = rows[j]
        BY <1>5, <3>1, <3>2
      <3> HIDE DEF s
      <3>4. IsSeq(s) /\ Len(s) = Len(rows)
        BY <1>5, <3>3, MadeOf
      <3>5. Once(s)
        BY <1>5, <1>7, <3>1, <3>3, <3>4 DEF Once
      <3>6. \A x : Has(s, x) => x = c \/ Has(rows, x)
        BY <3>3, <3>4 DEF Has
      <3>7. \A x : Has(s, x) => x.key = key /\ \E j \in 1..(m + 1) : all[j] = x
        BY <1>5, <1>6, <1>10, <3>6 DEF c
      <3> QED BY <2>1, <3>4, <3>5, <3>7 DEF IsReservoir, n2, s
    <2>3. CASE ~(i <= StepCap)
      <3>1. s = rows
        BY <2>3 DEF Replaced
      <3> QED BY <1>5, <1>6, <2>1, <3>1 DEF IsReservoir, n2
    <2> QED BY <2>2, <2>3
  <1> QED BY <1>8, <1>9, <1>10 DEF c

\* A series has as many candidates as eligible steps.
LEMMA EligibleCount ==
    ASSUME NEW recs, AreRecords(recs), NEW key \in Keys
    PROVE  LET all == Candidates(recs) IN
           Cardinality(CountsOf(all, Len(all), key)) = Cardinality(Eligible(recs, key))
  <1> DEFINE all == Candidates(recs)
             S == CountsOf(all, Len(all), key)
             T == Eligible(recs, key)
             f == [j \in S |-> <<all[j].record, all[j].step>>]
  <1>1. /\ IsSeq(all) /\ Once(all) /\ Len(all) \in Nat
        /\ \A x : Has(all, x) <=>
                 \E r \in 1..Len(recs) : \E i \in 1..(Len(recs[r].ends) - 1) :
                     IsStep(recs, r, i) /\ x = Candidate(r, recs[r], i)
    BY CandidatesAre DEF IsSeq
  <1>2. \A x \in T : \E r \in 1..Len(recs) : \E i \in 1..(Len(recs[r].ends) - 1) :
            x = <<r, i>> /\ IsStep(recs, r, i) /\ Key(recs[r]) = key
    BY DEF Eligible, IsStep, AreRecords, IsSeq
  <1>3. \A r \in 1..Len(recs) : \A i \in 1..(Len(recs[r].ends) - 1) :
            IsStep(recs, r, i) /\ Key(recs[r]) = key => <<r, i>> \in T
    <2>1. DOMAIN recs = 1..Len(recs)
      BY DEF AreRecords, IsSeq
    <2> QED BY <2>1 DEF Eligible, IsStep
  <1> HIDE DEF all, T
  <1>4. \A j \in S : j \in 1..Len(all) /\ Has(all, all[j]) /\ all[j].key = key
    BY DEF CountsOf, Has
  <1>5. \A j \in S : \E r \in 1..Len(recs) : \E i \in 1..(Len(recs[r].ends) - 1) :
            /\ IsStep(recs, r, i) /\ Key(recs[r]) = key
            /\ all[j] = Candidate(r, recs[r], i) /\ f[j] = <<r, i>>
    <2> TAKE j \in S
    <2>0. PICK r \in 1..Len(recs) : \E i \in 1..(Len(recs[r].ends) - 1) :
              IsStep(recs, r, i) /\ all[j] = Candidate(r, recs[r], i)
      BY <1>1, <1>4
    <2>1. PICK i \in 1..(Len(recs[r].ends) - 1) : IsStep(recs, r, i) /\ all[j] = Candidate(r, recs[r], i)
      BY <2>0
    <2>2. all[j].record = r /\ all[j].step = i /\ all[j].key = Key(recs[r])
      BY <2>1 DEF Candidate
    <2> QED BY <1>4, <2>1, <2>2
  <1>6. f \in [S -> T]
    BY <1>3, <1>5
  <1>7. \A x, y \in S : f[x] = f[y] => x = y
    <2> SUFFICES ASSUME NEW x \in S, NEW y \in S, f[x] = f[y] PROVE x = y
      OBVIOUS
    <2> HIDE DEF f
    <2>1. PICK r \in 1..Len(recs) : \E i \in 1..(Len(recs[r].ends) - 1) :
              all[x] = Candidate(r, recs[r], i) /\ f[x] = <<r, i>>
      BY <1>5
    <2>5. PICK i \in 1..(Len(recs[r].ends) - 1) : all[x] = Candidate(r, recs[r], i) /\ f[x] = <<r, i>>
      BY <2>1
    <2>2. PICK q \in 1..Len(recs) : \E k \in 1..(Len(recs[q].ends) - 1) :
              all[y] = Candidate(q, recs[q], k) /\ f[y] = <<q, k>>
      BY <1>5
    <2>6. PICK k \in 1..(Len(recs[q].ends) - 1) : all[y] = Candidate(q, recs[q], k) /\ f[y] = <<q, k>>
      BY <2>2
    <2>7. <<r, i>> = <<q, k>>
      BY <2>5, <2>6
    <2>3. r = q /\ i = k
      BY ONLY <2>7
    <2>4. all[x] = all[y]
      BY <2>3, <2>5, <2>6
    <2> QED BY <1>1, <1>4, <2>4 DEF Once
  <1>8. \A z \in T : \E x \in S : f[x] = z
    <2> TAKE z \in T
    <2>0. PICK r \in 1..Len(recs) : \E i \in 1..(Len(recs[r].ends) - 1) :
              z = <<r, i>> /\ IsStep(recs, r, i) /\ Key(recs[r]) = key
      BY <1>2
    <2>1. PICK i \in 1..(Len(recs[r].ends) - 1) : z = <<r, i>> /\ IsStep(recs, r, i) /\ Key(recs[r]) = key
      BY <2>0
    <2>2. Has(all, Candidate(r, recs[r], i))
      BY <1>1, <2>1
    <2>3. PICK j \in 1..Len(all) : all[j] = Candidate(r, recs[r], i)
      BY <2>2 DEF Has
    <2>4. all[j].key = key /\ all[j].record = r /\ all[j].step = i
      BY <2>1, <2>3 DEF Candidate
    <2>5. j \in S
      BY <2>4 DEF CountsOf
    <2> QED BY <2>1, <2>4, <2>5
  <1>9. IsFiniteSet(S)
    BY <1>1, CountsGrow
  <1> HIDE DEF S, f
  <1>10. Cardinality(T) = Cardinality(S)
    BY ONLY <1>6, <1>7, <1>8, <1>9, SameSize
  <1> QED BY <1>10 DEF S, T, all

-----------------------------------------------------------------------------
\* What selection leaves of the records of a model.

\* A candidate, and a case that is made of one.
IsCandidate(recs, x) ==
    \E r \in 1..Len(recs) : \E i \in 1..(Len(recs[r].ends) - 1) :
        IsStep(recs, r, i) /\ x = Candidate(r, recs[r], i)

Seeded(x, n) == [x EXCEPT !.seed = n]

IsCase(recs, c) == \E x : IsCandidate(recs, x) /\ \E n : c = Seeded(x, n)

\* A candidate is told by its record and its step, whatever seed it gets.
LEMMA CandidateIs ==
    ASSUME NEW recs, NEW x, IsCandidate(recs, x)
    PROVE  /\ \A n : LET c == Seeded(x, n) IN
                       /\ CaseId(c) = <<x.key, x.record, x.step>>
                       /\ c.key = x.key /\ c.record = x.record /\ c.step = x.step
           /\ \A y : IsCandidate(recs, y) /\ x.record = y.record /\ x.step = y.step => x = y
           /\ x.key \in Keys
  <1>1. PICK r \in 1..Len(recs) : \E i \in 1..(Len(recs[r].ends) - 1) :
            IsStep(recs, r, i) /\ x = Candidate(r, recs[r], i)
    BY DEF IsCandidate
  <1>2. PICK i \in 1..(Len(recs[r].ends) - 1) : IsStep(recs, r, i) /\ x = Candidate(r, recs[r], i)
    BY <1>1
  <1>3. \A n : LET c == Seeded(x, n) IN
                       /\ CaseId(c) = <<x.key, x.record, x.step>>
                       /\ c.key = x.key /\ c.record = x.record /\ c.step = x.step
    BY <1>2 DEF CaseId, Candidate, Seeded
  <1>4. ASSUME NEW y, IsCandidate(recs, y), x.record = y.record, x.step = y.step PROVE x = y
    <2>1. PICK q \in 1..Len(recs) : \E k \in 1..(Len(recs[q].ends) - 1) : y = Candidate(q, recs[q], k)
      BY <1>4 DEF IsCandidate
    <2>2. PICK k \in 1..(Len(recs[q].ends) - 1) : y = Candidate(q, recs[q], k)
      BY <2>1
    <2>3. x.record = r /\ x.step = i /\ y.record = q /\ y.step = k
      BY <1>2, <2>2 DEF Candidate
    <2>4. r = q /\ i = k
      BY <1>4, <2>3
    <2> QED BY <1>2, <2>2, <2>4
  <1>5. x.key \in Keys
    BY <1>2 DEF Candidate, IsStep
  <1> QED BY <1>3, <1>4, <1>5

\* Distinct cases, of each series as many as there can be.
IsSelection(recs, cs) ==
    /\ IsSeq(cs)
    /\ \A i, k \in 1..Len(cs) : CaseId(cs[i]) = CaseId(cs[k]) => i = k
    /\ \A i \in 1..Len(cs) : IsCase(recs, cs[i])
    /\ \A key \in Keys : Cardinality(CountsOf(cs, Len(cs), key)) =
                             Min({StepCap, Cardinality(Eligible(recs, key))})

LEMMA Sets == IsSeq(Series) /\ DOMAIN Series = 1..Len(Series) /\ Len(Series) \in Nat
              /\ (\A i, k \in 1..Len(Series) : Series[i] = Series[k] => i = k)
              /\ Keys = {Series[i] : i \in 1..Len(Series)}
  <1>1. IsSeq(Series) /\ IsInjective(Series)
    BY ErsrAssumption DEF IsSeq
  <1>2. DOMAIN Series = 1..Len(Series) /\ Len(Series) \in Nat
    BY <1>1, DomainOf DEF IsSeq
  <1> QED BY <1>1, <1>2 DEF IsInjective, Keys, Range

\* random.shuffle leaves the rows.
LEMMA ShuffledRows ==
    ASSUME NEW rows, IsSeq(rows), Once(rows), NEW p, NEW D,
           p \in Bijection(D, D), D = DOMAIN rows
    PROVE  /\ IsSeq(Shuffled(rows, p)) /\ Once(Shuffled(rows, p))
           /\ \A x : Has(Shuffled(rows, p), x) <=> Has(rows, x)
  <1> DEFINE v == Shuffled(rows, p)
             n == Len(rows)
  <1>1. n \in Nat /\ D = 1..n
    BY DomainOf DEF IsSeq
  <1>2. p \in [1..n -> 1..n] /\ (\A i, k \in 1..n : p[i] = p[k] => i = k)
        /\ (\A i \in 1..n : \E k \in 1..n : p[k] = i)
    BY <1>1 DEF Bijection, Injection, Surjection, IsInjective
  <1>3. v = [i \in 1..n |-> v[i]] /\ \A i \in 1..n : v[i] = rows[p[i]]
    BY <1>1 DEF Shuffled
  <1> HIDE DEF v
  <1>4. IsSeq(v) /\ Len(v) = n
    <2> HIDE DEF n
    <2> QED BY <1>1, <1>3, MadeOf
  <1>5. Once(v)
    <2>1. \A i, k \in 1..n : rows[i] = rows[k] => i = k
      BY DEF Once
    <2> HIDE DEF n
    <2> SUFFICES ASSUME NEW i \in 1..n, NEW k \in 1..n, v[i] = v[k] PROVE i = k
      BY <1>4 DEF Once
    <2>2. p[i] \in 1..n /\ p[k] \in 1..n /\ rows[p[i]] = rows[p[k]]
      BY <1>2, <1>3
    <2>3. p[i] = p[k]
      BY <2>1, <2>2
    <2> QED BY <1>2, <2>3
  <1>6. \A x : Has(v, x) <=> Has(rows, x)
    <2> TAKE x
    <2>1. ASSUME Has(v, x) PROVE Has(rows, x)
      <3>1. PICK i \in 1..n : v[i] = x
        BY <1>4, <2>1 DEF Has
      <3>2. p[i] \in 1..n /\ rows[p[i]] = x
        BY <1>2, <1>3, <3>1
      <3> QED BY <3>2 DEF Has
    <2>2. ASSUME Has(rows, x) PROVE Has(v, x)
      <3>1. PICK i \in 1..n : rows[i] = x
        BY <2>2 DEF Has
      <3>2. PICK k \in 1..n : p[k] = i
        BY <1>2, <3>1
      <3> QED BY <1>3, <1>4, <3>1, <3>2 DEF Has
    <2> QED BY <2>1, <2>2
  <1> QED BY <1>4, <1>5, <1>6 DEF v

Reservoirs(res, recs, m) ==
    res = [key \in Keys |-> res[key]] /\ \A key \in Keys : IsReservoir(res[key], Candidates(recs), m, key)

LEMMA ReservedAre ==
    ASSUME NEW recs, AreRecords(recs), NEW key \in Keys, NEW rows,
           IsReservoir(rows, Candidates(recs), Len(Candidates(recs)), key)
    PROVE  /\ \A x : Has(rows, x) => IsCandidate(recs, x)
           /\ Len(rows) = Min({StepCap, Cardinality(Eligible(recs, key))})
  <1>1. \A x : Has(rows, x) => Has(Candidates(recs), x)
    BY DEF IsReservoir, Has
  <1>2. \A x : Has(Candidates(recs), x) => IsCandidate(recs, x)
    BY CandidatesAre DEF IsCandidate
  <1>3. Cardinality(CountsOf(Candidates(recs), Len(Candidates(recs)), key)) = Cardinality(Eligible(recs, key))
    BY EligibleCount
  <1> QED BY <1>1, <1>2, <1>3 DEF IsReservoir

\* Select makes a selection, however the reservoirs are shuffled.
LEMMA SelectionIs ==
    ASSUME NEW recs, AreRecords(recs),
           Reservoirs(reservoir, recs, Len(Candidates(recs))),
           NEW perm \in [DOMAIN Series -> UNION {Bijection(DOMAIN reservoir[k], DOMAIN reservoir[k]) : k \in Keys}],
           \A s \in DOMAIN Series : DOMAIN perm[s] = DOMAIN reservoir[Series[s]]
    PROVE  IsSelection(recs, Selected(perm))
  <1> DEFINE n == Len(Series)
             rows == [s \in 1..n |-> reservoir[Series[s]]]
             seqs == [s \in DOMAIN Series |-> Shuffled(reservoir[Series[s]], perm[s])]
             u == FlattenSeq(seqs)
             v == Selected(perm)
             m == Len(u)
  <1>1. n \in Nat /\ DOMAIN Series = 1..n /\ seqs = [s \in 1..n |-> seqs[s]]
    BY Sets
  <1>2. ASSUME NEW s \in 1..n
        PROVE  /\ Series[s] \in Keys /\ IsSeq(rows[s]) /\ Once(rows[s])
               /\ \A x : Has(rows[s], x) => x.key = Series[s]
               /\ \A x : Has(rows[s], x) => IsCandidate(recs, x)
               /\ Len(rows[s]) = Min({StepCap, Cardinality(Eligible(recs, Series[s]))})
    <2>1. Series[s] \in Keys
      BY Sets
    <2>2. IsReservoir(rows[s], Candidates(recs), Len(Candidates(recs)), Series[s])
      BY <2>1 DEF Reservoirs
    <2>3. IsSeq(rows[s]) /\ Once(rows[s]) /\ \A x : Has(rows[s], x) => x.key = Series[s]
      BY <2>2 DEF IsReservoir
    <2> HIDE DEF rows, n
    <2>4. /\ \A x : Has(rows[s], x) => IsCandidate(recs, x)
          /\ Len(rows[s]) = Min({StepCap, Cardinality(Eligible(recs, Series[s]))})
      BY <2>1, <2>2, ReservedAre
    <2> QED BY <2>1, <2>3, <2>4
  <1>3. ASSUME NEW s \in 1..n
        PROVE  IsSeq(seqs[s]) /\ Once(seqs[s]) /\ \A x : Has(seqs[s], x) <=> Has(rows[s], x)
    <2>1. s \in DOMAIN Series /\ rows[s] = reservoir[Series[s]] /\ seqs[s] = Shuffled(rows[s], perm[s])
      BY <1>1
    <2>2. PICK k \in Keys : perm[s] \in Bijection(DOMAIN reservoir[k], DOMAIN reservoir[k])
      BY <2>1
    <2>3. DOMAIN perm[s] = DOMAIN reservoir[k]
      BY <2>2 DEF Bijection, Injection
    <2>4. DOMAIN reservoir[k] = DOMAIN rows[s]
      BY <2>1, <2>3
    <2>5. IsSeq(rows[s]) /\ Once(rows[s])
      BY <1>2
    <2> HIDE DEF rows, seqs, n
    <2>6. /\ IsSeq(Shuffled(rows[s], perm[s])) /\ Once(Shuffled(rows[s], perm[s]))
          /\ \A x : Has(Shuffled(rows[s], perm[s]), x) <=> Has(rows[s], x)
      BY <2>2, <2>4, <2>5, ShuffledRows
    <2> QED BY <2>1, <2>6
  <1> HIDE DEF seqs, rows
  <1>4. AreSeqs(seqs, n)
    BY <1>1, <1>3 DEF AreSeqs
  <1>5. /\ IsSeq(u)
        /\ \A x : Has(u, x) <=> \E j \in 1..n : Has(seqs[j], x)
        /\ (/\ \A j \in 1..n : Once(seqs[j])
            /\ \A j, l \in 1..n : \A x : Has(seqs[j], x) /\ Has(seqs[l], x) => j = l)
           => Once(u)
    BY ONLY <1>1, <1>4, FlatIs
  <1>6. \A j, l \in 1..n : \A x : Has(seqs[j], x) /\ Has(seqs[l], x) => j = l
    <2>1. \A j \in 1..n : \A x : Has(seqs[j], x) => x.key = Series[j]
      BY <1>2, <1>3
    <2>2. \A j, l \in 1..n : Series[j] = Series[l] => j = l
      BY Sets
    <2> SUFFICES ASSUME NEW j \in 1..n, NEW l \in 1..n, NEW x, Has(seqs[j], x), Has(seqs[l], x)
                 PROVE  j = l
      OBVIOUS
    <2>3. x.key = Series[j] /\ x.key = Series[l]
      BY <2>1
    <2> QED BY <2>2, <2>3
  <1>7. v = [i \in DOMAIN u |-> [u[i] EXCEPT !.seed = (i - 1) * 10000]]
    BY DEF Selected, Numbered, seqs
  <1> HIDE DEF u, v
  <1>8. Once(u)
    BY <1>3, <1>5, <1>6
  <1>9. m \in Nat /\ DOMAIN u = 1..m /\ \A i \in 1..m : Has(u, u[i])
    BY <1>5 DEF IsSeq, Has
  <1>10. v = [i \in 1..m |-> v[i]] /\ \A i \in 1..m : v[i] = [u[i] EXCEPT !.seed = (i - 1) * 10000]
    BY <1>7, <1>9
  <1>11. IsSeq(v) /\ Len(v) = m
    <2> HIDE DEF m
    <2> QED BY <1>9, <1>10, MadeOf
  <1>12. ASSUME NEW i \in 1..m
         PROVE  /\ IsCandidate(recs, u[i]) /\ v[i].key = u[i].key
                /\ CaseId(v[i]) = <<u[i].key, u[i].record, u[i].step>>
    <2>1. PICK s \in 1..n : Has(rows[s], u[i])
      BY <1>3, <1>5, <1>9
    <2>2. IsCandidate(recs, u[i])
      BY <1>2, <2>1
    <2> HIDE DEF m, n
    <2>3. v[i] = Seeded(u[i], (i - 1) * 10000)
      BY <1>10 DEF Seeded
    <2>4. LET c == Seeded(u[i], (i - 1) * 10000) IN
             CaseId(c) = <<u[i].key, u[i].record, u[i].step>> /\ c.key = u[i].key
      BY ONLY <2>2, CandidateIs
    <2> QED BY <2>2, <2>3, <2>4
  <1>13. \A i \in 1..Len(v) : IsCase(recs, v[i])
    <2> SUFFICES ASSUME NEW i \in 1..m PROVE IsCase(recs, v[i])
      BY <1>11
    <2>1. v[i] = Seeded(u[i], (i - 1) * 10000)
      BY <1>10 DEF Seeded
    <2>2. IsCandidate(recs, u[i])
      BY <1>12
    <2>3. \E n2 : v[i] = Seeded(u[i], n2)
      BY ONLY <2>1
    <2> QED BY ONLY <2>2, <2>3 DEF IsCase
  <1>14. \A i, k \in 1..Len(v) : CaseId(v[i]) = CaseId(v[k]) => i = k
    <2> SUFFICES ASSUME NEW i \in 1..m, NEW k \in 1..m, CaseId(v[i]) = CaseId(v[k]) PROVE i = k
      BY <1>11
    <2>1. <<u[i].key, u[i].record, u[i].step>> = <<u[k].key, u[k].record, u[k].step>>
      BY <1>12
    <2>2. u[i].record = u[k].record /\ u[i].step = u[k].step
      BY ONLY <2>1
    <2>3. IsCandidate(recs, u[i]) /\ IsCandidate(recs, u[k])
      BY <1>12
    <2>4. u[i] = u[k]
      BY <2>2, <2>3, CandidateIs
    <2> QED BY <1>8, <2>4 DEF Once
  <1>15. ASSUME NEW key \in Keys
         PROVE  Cardinality(CountsOf(v, Len(v), key)) = Min({StepCap, Cardinality(Eligible(recs, key))})
    <2>1. PICK s \in 1..n : Series[s] = key
      BY Sets
    <2> DEFINE own == rows[s]
               S == 1..Len(own)
               T == CountsOf(v, Len(v), key)
               f == [j \in S |-> CHOOSE i \in 1..m : u[i] = own[j]]
    <2>2. IsSeq(own) /\ Once(own) /\ Len(own) \in Nat
      BY <1>2 DEF IsSeq
    <2>3. \A j \in S : Has(own, own[j]) /\ Has(u, own[j]) /\ own[j].key = key
      <3>1. \A j \in S : Has(own, own[j])
        BY DEF Has
      <3>2. \A j \in S : own[j].key = key
        BY <1>2, <2>1, <3>1
      <3>3. \A j \in S : Has(seqs[s], own[j])
        BY <1>3, <3>1
      <3> QED BY <1>5, <3>1, <3>2, <3>3
    <2>4. \A j \in S : f[j] \in 1..m /\ u[f[j]] = own[j]
      BY <2>3 DEF Has
    <2>5. \A i \in 1..m : v[i].key = u[i].key
      BY <1>12
    <2> HIDE DEF f
    <2>6. \A j \in S : f[j] \in T
      BY <1>11, <2>3, <2>4, <2>5 DEF CountsOf
    <2>7. f = [j \in S |-> f[j]]
      BY DEF f
    <2>8. f \in [S -> T]
      BY <2>6, <2>7
    <2>9. \A x, y \in S : f[x] = f[y] => x = y
      BY <2>2, <2>4 DEF Once
    <2>10. \A z \in T : \E x \in S : f[x] = z
      <3> TAKE z \in T
      <3>1. z \in 1..m /\ u[z].key = key
        BY <1>11, <2>5 DEF CountsOf
      <3>2. PICK q \in 1..n : Has(rows[q], u[z])
        BY <1>3, <1>5, <1>9, <3>1
      <3>3. Series[q] = Series[s]
        BY <1>2, <2>1, <3>1, <3>2
      <3>4. q = s
        BY <3>3, Sets
      <3>5. PICK j \in S : own[j] = u[z]
        BY <3>2, <3>4 DEF Has
      <3>6. f[j] = z
        BY <1>8, <2>4, <3>1, <3>5 DEF Once
      <3> QED BY <3>6
    <2>11. IsFiniteSet(S) /\ Cardinality(S) = Len(own)
      <3>1. IsFiniteSet(S)
        <4>1. S = 1..Len(own) /\ Len(own) \in Nat
          BY <2>2
        <4>2. IsFiniteSet(1..Len(own))
          <5> HIDE DEF own
          <5> QED BY ONLY <4>1, FS_Interval
        <4> QED BY <4>1, <4>2
      <3>2. Cardinality(S) = Len(own)
        <4> HIDE DEF own
        <4>1. Cardinality(1..Len(own)) = IF 1 > Len(own) THEN 0 ELSE Len(own) - 1 + 1
          BY ONLY <2>2, FS_Interval, 1 \in Int, Len(own) \in Int
        <4> QED BY <2>2, <4>1
      <3> QED BY <3>1, <3>2
    <2> HIDE DEF S, T
    <2>12. Cardinality(T) = Cardinality(S)
      BY ONLY <2>8, <2>9, <2>10, <2>11, SameSize
    <2> QED BY <1>2, <2>1, <2>11, <2>12 DEF T
  <1>16. IsSelection(recs, v)
    BY <1>11, <1>13, <1>14, <1>15 DEF IsSelection
  <1> QED BY <1>16 DEF v

-----------------------------------------------------------------------------
\* A selected case, and the jobs of the questions.

LEMMA CaseIs ==
    ASSUME NEW recs, AreRecords(recs), NEW c, IsCase(recs, c)
    PROVE  /\ c.key \in Keys /\ c.key[2] \in {"student_action", "teacher_replace"}
           /\ <<c.record, c.step>> \in Eligible(recs, c.key)
           /\ TeacherBudget(c) \in Int
  <1>1. PICK x : IsCandidate(recs, x) /\ \E n : c = Seeded(x, n)
    BY DEF IsCase
  <1>2. PICK n : c = Seeded(x, n)
    BY <1>1
  <1>3. PICK r \in 1..Len(recs) : \E i \in 1..(Len(recs[r].ends) - 1) :
            IsStep(recs, r, i) /\ x = Candidate(r, recs[r], i)
    BY <1>1 DEF IsCandidate
  <1>4. PICK i \in 1..(Len(recs[r].ends) - 1) : IsStep(recs, r, i) /\ x = Candidate(r, recs[r], i)
    BY <1>3
  <1>5. /\ c.key = Key(recs[r]) /\ c.record = r /\ c.step = i
        /\ c.start = Start(recs[r].ends, i)
    BY <1>2, <1>4 DEF Seeded, Candidate
  <1>6. c.key[2] \in {"student_action", "teacher_replace"}
    BY <1>5 DEF Key
  <1>7. <<r, i>> \in Eligible(recs, Key(recs[r]))
    <2>1. DOMAIN recs = 1..Len(recs)
      BY DEF AreRecords, IsSeq
    <2> QED BY <1>4, <2>1 DEF Eligible, IsStep
  <1>8. TeacherBudget(c) \in Int
    <2>1. MaxTeacher \in Nat /\ MaxResponse \in Nat
      BY Numbers
    <2>2. recs[r].ends \in Seq(1..MaxResponse)
      BY DEF AreRecords
    <2>3. i \in Nat /\ i >= 1 /\ (i # 1 => i - 1 \in 1..Len(recs[r].ends))
      BY <1>4, <2>2
    <2>4. i # 1 => recs[r].ends[i - 1] \in 1..MaxResponse
      <3> DEFINE s == recs[r].ends
      <3>1. s \in Seq(1..MaxResponse) /\ (i # 1 => i - 1 \in 1..Len(s))
        BY <2>2, <2>3
      <3> HIDE DEF s
      <3>2. \A j \in 1..Len(s) : s[j] \in 1..MaxResponse
        BY <3>1, SequenceIs
      <3>3. i # 1 => s[i - 1] \in 1..MaxResponse
        <4> DEFINE j == i - 1
        <4>1. i # 1 => j \in 1..Len(s)
          BY <3>1
        <4> HIDE DEF j
        <4>2. i # 1 => s[j] \in 1..MaxResponse
          BY <3>2, <4>1
        <4> QED BY <4>2 DEF j
      <3> QED BY <3>3 DEF s
    <2>5. c.start \in 0..MaxResponse
      BY <1>5, <2>1, <2>4 DEF Start
    <2>6. MaxResponse - c.start \in Nat
      BY <2>1, <2>5
    <2>7. TeacherBudget(c) \in {MaxTeacher, MaxResponse - c.start}
      <3> DEFINE d == MaxResponse - c.start
      <3>1. TeacherBudget(c) = Min({MaxTeacher, d})
        BY DEF TeacherBudget
      <3> HIDE DEF d
      <3>2. d \in Nat
        BY <2>6 DEF d
      <3>3. Min({MaxTeacher, d}) \in {MaxTeacher, d}
        BY <2>1, <3>2, MinOfTwo
      <3> QED BY <3>1, <3>3 DEF d
    <2> QED BY <2>1, <2>6, <2>7
  <1> QED BY <1>4, <1>5, <1>6, <1>7, <1>8 DEF IsStep

\* Only the last of several batches is not full.
LEMMA FirstIsFull ==
    ASSUME NEW s, IsSeq(s), NEW size \in Nat \ {0}, Ceil(Len(s), size) > 1
    PROVE  Len(Batches(s, size)[1]) = size
  <1> DEFINE n == Len(s)
             k == Ceil(n, size)
             B == Batches(s, size)
  <1>1. n \in Nat
    BY DEF IsSeq
  <1>2. PICK e : AreCuts(e, n, size, k)
    BY <1>1, CutsAre
  <1>3. k \in Nat /\ e \in [0..k -> 0..n] /\ e[0] = 0
    BY <1>2 DEF AreCuts
  <1>4. \A b \in 1..k : Len(B[b]) = e[b] - e[b - 1]
    BY <1>2, BatchesAre
  <1>5. k > 1 /\ 1 \in 1..k /\ 2 \in 1..k /\ 1 - 1 = 0 /\ 1 \in 0..k /\ 2 \in 0..k
    BY <1>3
  <1>6. Min({1 * size, n}) = e[1] /\ e[1] < e[2]
    <2>1. 1 \in 1..k /\ 2 \in 1..k /\ 2 - 1 = 1
      BY <1>5
    <2> QED BY <1>2, <2>1 DEF AreCuts
  <1>7. Len(B[1]) = e[1]
    <2>1. Len(B[1]) = e[1] - e[1 - 1] /\ e[1] \in 0..n
      BY <1>3, <1>4, <1>5
    <2> QED BY <1>1, <1>3, <2>1
  <1>8. Min({size, n}) = IF size <= n THEN size ELSE n
    BY <1>1, MinOfTwo
  <1>9. 1 * size = size /\ e[1] \in 0..n /\ e[2] \in 0..n
    BY <1>3, <1>5
  <1> HIDE DEF B, k, n
  <1>10. e[1] = size
    <2>1. e[1] = Min({size, n})
      BY <1>6, <1>9
    <2>2. e[1] < n
      BY <1>1, <1>6, <1>9
    <2>3. size \in Nat /\ n \in Nat
      BY <1>1
    <2> QED BY <1>8, <2>1, <2>2, <2>3
  <1> QED BY <1>7, <1>10 DEF B

LEMMA QuestionSizes ==
    ASSUME NEW n \in Nat \ {0}
    PROVE  LET q == PerBatch \div N size == QuestionsPerBatch(n) IN
           /\ q \in Nat \ {0} /\ N * q = PerBatch /\ N \in Nat \ {0}
           /\ size \in 1..q /\ (size < q => Ceil(n, NGpus) <= size)
  <1> DEFINE q == PerBatch \div N
             c == Ceil(n, NGpus)
  <1>1. PerBatch \in Nat \ {0} /\ N \in Nat \ {0} /\ NGpus \in Nat \ {0}
    BY Numbers
  <1>2. PerBatch % N = 0
    BY ErsrAssumption
  <1>3. q \in Nat /\ N * q = PerBatch
    BY <1>1, <1>2
  <1>4. q # 0
    <2> HIDE DEF q
    <2>1. q = 0 => N * q = 0
      BY <1>1
    <2> QED BY <1>1, <1>3, <2>1
  <1>5. c \in Nat /\ c > 0
    BY <1>1, CeilIs
  <1> HIDE DEF c, q
  <1>6. Max({1, c}) = c
    <2>1. c \in {1, c} /\ \A y \in {1, c} : c >= y
      BY <1>5
    <2>2. \A x \in {1, c} : (\A y \in {1, c} : x >= y) => x = c
      BY <1>5
    <2> DEFINE S == {1, c}
    <2>3. Max(S) = c
      <3> HIDE DEF S
      <3>1. Max(S) = CHOOSE x \in S : \A y \in S : x >= y
        BY DEF Max
      <3>2. c \in S /\ (\A y \in S : c >= y) /\ \A x \in S : (\A y \in S : x >= y) => x = c
        BY <2>1, <2>2 DEF S
      <3> QED BY <3>1, <3>2
    <2> QED BY <2>3
  <1>7. QuestionsPerBatch(n) = Min({q, c})
    BY <1>6 DEF QuestionsPerBatch, c, q
  <1>8. Min({q, c}) = IF q <= c THEN q ELSE c
    BY <1>3, <1>5, MinOfTwo
  <1>9. QuestionsPerBatch(n) \in 1..q /\ (QuestionsPerBatch(n) < q => c <= QuestionsPerBatch(n))
    BY <1>3, <1>4, <1>5, <1>7, <1>8
  <1> QED BY <1>1, <1>3, <1>4, <1>9 DEF c, q

LEMMA QuestionsFit ==
    ASSUME input \in Inputs, NEW w \in Works
    PROVE  LET batches == Batches(AllQuestions(w), QuestionsPerBatch(Len(input[w]))) IN
           /\ QuestionsPerBatch(Len(input[w])) \in Nat \ {0}
           /\ Fits([b \in DOMAIN batches |-> Len(batches[b]) * N])
  <1> DEFINE a == AllQuestions(w)
             n == Len(a)
             size == QuestionsPerBatch(n)
             q == PerBatch \div N
             k == Ceil(n, size)
             B == Batches(a, size)
             sizes == [b \in DOMAIN B |-> Len(B[b]) * N]
  <1>1. IsSeq(a) /\ n \in Nat \ {0} /\ n = Len(input[w])
    BY AllQuestionsAre
  <1>2. /\ q \in Nat \ {0} /\ N * q = PerBatch /\ N \in Nat \ {0}
        /\ size \in 1..q /\ (size < q => Ceil(n, NGpus) <= size)
    BY <1>1, QuestionSizes
  <1>3. size \in Nat \ {0} /\ NGpus \in Nat \ {0}
    BY <1>2, Numbers
  <1>4. PICK e : AreCuts(e, n, size, k)
    BY <1>1, <1>3, CutsAre
  <1>5. DOMAIN B = 1..k /\ k \in Nat /\ \A b \in 1..k : Len(B[b]) \in 1..size
    <2>1. k \in Nat
      BY <1>4 DEF AreCuts
    <2> HIDE DEF a, size
    <2>2. DOMAIN B = 1..k /\ \A b \in 1..k : Len(B[b]) \in 1..size
      BY ONLY <1>1, <1>3, <1>4, BatchesAre
    <2> QED BY <2>1, <2>2
  <1>6. size < q => k <= NGpus
    BY <1>1, <1>2, <1>3, FewBatches
  <1>7. k > 1 => Len(B[1]) = size
    BY <1>1, <1>3, FirstIsFull
  <1>8. size = q \/ size < q
    BY <1>2
  <1> HIDE DEF B, k, size, n, q, a
  <1>9. /\ DOMAIN sizes = 1..k /\ Len(sizes) = k
        /\ \A b \in 1..k : sizes[b] = Len(B[b]) * N
    BY <1>5
  <1>10. \A b \in 1..k : 0 < sizes[b] /\ sizes[b] <= PerBatch
    <2> TAKE b \in 1..k
    <2> DEFINE l == Len(B[b])
    <2>1. l \in Nat /\ 1 <= l /\ l <= q
      BY <1>2, <1>5
    <2> HIDE DEF l
    <2>2. N * 1 <= N * l /\ N * l <= N * q /\ N * l \in Nat /\ N * l = l * N
      BY <1>2, <2>1, TimesGrows
    <2> QED BY <1>2, <1>9, <2>2 DEF l
  <1> HIDE DEF sizes
  <1>11. ASSUME sizes # <<>>, sizes[1] < PerBatch PROVE Len(sizes) <= NGpus
    <2>1. CASE size < q
      BY <1>6, <1>9, <2>1
    <2>2. CASE size = q /\ k > 1
      <3>1. 1 \in 1..k
        BY <1>5, <2>2
      <3>2. sizes[1] = q * N
        BY <1>7, <1>9, <2>2, <3>1
      <3>3. q * N = N * q
        BY <1>2
      <3> QED BY <1>2, <1>11, <3>2, <3>3
    <2>3. CASE k <= 1
      BY <1>3, <1>9, <2>3
    <2>4. k <= 1 \/ k > 1
      BY <1>5
    <2> QED BY <1>8, <2>1, <2>2, <2>3, <2>4
  <1>12. Fits(sizes)
    BY <1>9, <1>10, <1>11 DEF Fits
  <1> QED BY <1>1, <1>3, <1>12 DEF sizes, B, size, a, n

-----------------------------------------------------------------------------
\* What the teacher phase leaves for a work.

\* The cases of a work, told apart by their names.
AreCases(cs) ==
    /\ IsSeq(cs)
    /\ \A i, k \in 1..Len(cs) : CaseId(cs[i]) = CaseId(cs[k]) => i = k
    /\ \A i \in 1..Len(cs) : /\ cs[i].key[2] \in {"student_action", "teacher_replace"}
                             /\ TeacherBudget(cs[i]) \in Int

LEMMA SelectedCases ==
    ASSUME NEW recs, AreRecords(recs), NEW cs, IsSelection(recs, cs)
    PROVE  AreCases(cs)
  BY CaseIs DEF IsSelection, AreCases

LEMMA CasesDiffer ==
    ASSUME NEW cs, AreCases(cs)
    PROVE  /\ Once(cs) /\ \A x, y : Has(cs, x) /\ Has(cs, y) /\ CaseId(x) = CaseId(y) => x = y
           /\ \A x : Has(cs, x) => /\ x.key[2] \in {"student_action", "teacher_replace"}
                                   /\ TeacherBudget(x) \in Int
  BY DEF AreCases, Once, Has

\* What the teacher is asked for a case, and why its answer is no replacement.
Taught(c) == c.key[2] = "teacher_replace"
Asked(c) == Completion([ids |-> Before(c), max |-> TeacherBudget(c), seed |-> c.seed + 5000])

Wrong(c, oracle) ==
    IF TeacherBudget(c) <= 0 THEN "no_teacher_budget"
    ELSE IF oracle[Asked(c)] = -1 THEN "split_error"
    ELSE IF oracle[Asked(c)] = 0 THEN "empty_teacher_replacement" ELSE ""

LEMMA TeacherCasesAre ==
    ASSUME NEW w, AreCases(cases[w])
    PROVE  /\ IsSeq(TeacherCases(w)) /\ Once(TeacherCases(w))
           /\ \A c : Has(TeacherCases(w), c) <=> Has(cases[w], c) /\ Taught(c)
           /\ \A c : c \in Range(TeacherCases(w)) <=> Has(cases[w], c) /\ Taught(c)
           /\ IsSeq(Funded(w)) /\ Once(Funded(w))
           /\ \A c : Has(Funded(w), c) <=> Has(cases[w], c) /\ Taught(c) /\ TeacherBudget(c) > 0
  <1> DEFINE cs == cases[w]
             S == {c \in Range(cs) : c.key[2] = "teacher_replace"}
             t == TeacherCases(w)
             F == {c \in Range(t) : TeacherBudget(c) > 0}
  <1>1. IsSeq(cs) /\ Once(cs) /\ \A x : x \in Range(cs) <=> Has(cs, x)
    BY CasesDiffer, DomainOf DEF AreCases
  <1>2. \A c : c \in S <=> Has(cs, c) /\ Taught(c)
    BY <1>1 DEF Taught
  <1>3. t = Only(cs, S)
    BY DEF TeacherCases
  <1> HIDE DEF S, cs, t
  <1>4. /\ IsSeq(t) /\ Once(t) /\ \A x : Has(t, x) <=> Has(cs, x) /\ x \in S
    BY <1>1, <1>3, OnlyIs
  <1>5. \A x : x \in Range(t) <=> Has(t, x)
    BY <1>4, DomainOf
  <1>6. \A c : c \in F <=> Has(t, c) /\ TeacherBudget(c) > 0
    BY <1>5
  <1>7. Funded(w) = Only(t, F)
    BY DEF Funded, t
  <1> HIDE DEF F
  <1>8. IsSeq(Funded(w)) /\ Once(Funded(w)) /\ \A x : Has(Funded(w), x) <=> Has(t, x) /\ x \in F
    BY <1>4, <1>7, OnlyIs
  <1>9. \A c : Has(t, c) <=> Has(cs, c) /\ Taught(c)
    BY <1>2, <1>4
  <1>10. \A c : Has(Funded(w), c) <=> Has(cs, c) /\ Taught(c) /\ TeacherBudget(c) > 0
    BY <1>6, <1>8, <1>9
  <1>11. \A c : c \in Range(t) <=> Has(cs, c) /\ Taught(c)
    BY <1>5, <1>9
  <1> QED BY <1>4, <1>8, <1>9, <1>10, <1>11 DEF cs, t

\* Requests that answer to different names.
LEMMA NamesFrom ==
    ASSUME NEW u, Once(u), \A x, y : Has(u, x) /\ Has(u, y) /\ x.id = y.id => x = y
    PROVE  NamesDiffer(u)
  <1>1. \A i \in 1..Len(u) : Has(u, u[i])
    BY DEF Has
  <1> SUFFICES ASSUME NEW i \in 1..Len(u), NEW j \in 1..Len(u), u[i].id = u[j].id PROVE i = j
    BY DEF NamesDiffer
  <1>2. u[i] = u[j]
    BY <1>1
  <1> QED BY <1>2 DEF Once

\* A sequence made of the elements of another, one each.
LEMMA MadeFrom ==
    ASSUME NEW s, IsSeq(s), NEW v, v = [i \in DOMAIN s |-> v[i]]
    PROVE  IsSeq(v) /\ Len(v) = Len(s) /\ DOMAIN v = 1..Len(s)
  <1>1. Len(s) \in Nat /\ DOMAIN s = 1..Len(s)
    BY DomainOf DEF IsSeq
  <1>2. v = [i \in 1..Len(s) |-> v[i]]
    BY <1>1
  <1> QED BY <1>1, <1>2, MadeOf

\* The requests of the teacher phase: one for each case with a budget, under a name of its own.
LEMMA TeacherRequestsAre ==
    ASSUME \A w \in Works : AreCases(cases[w])
    PROVE  /\ IsSeq(TeacherRequests) /\ NamesDiffer(TeacherRequests)
           /\ \A x : Has(TeacherRequests, x) <=>
                 \E w \in Works : \E c : Has(Funded(w), c) /\ x = TeacherRequest(w, c)
  <1> DEFINE seqs == [w \in Works |-> [i \in DOMAIN Funded(w) |-> TeacherRequest(w, Funded(w)[i])]]
             u == FlattenSeq(seqs)
  <1>1. NWorks \in Nat /\ Works = 1..NWorks /\ seqs = [w \in 1..NWorks |-> seqs[w]]
    BY Numbers DEF Works
  <1>2. ASSUME NEW w \in 1..NWorks
        PROVE  /\ IsSeq(seqs[w]) /\ Once(seqs[w])
               /\ \A x : Has(seqs[w], x) <=> \E c : Has(Funded(w), c) /\ x = TeacherRequest(w, c)
    <2> DEFINE s == Funded(w)
               v == seqs[w]
    <2>1. IsSeq(s) /\ Once(s) /\ (\A c : Has(s, c) => Has(cases[w], c)) /\ AreCases(cases[w])
      BY <1>1, TeacherCasesAre
    <2>2. v = [i \in DOMAIN s |-> v[i]] /\ \A i \in DOMAIN s : v[i] = TeacherRequest(w, s[i])
      BY <1>1
    <2> HIDE DEF v, s
    <2>3. IsSeq(v) /\ Len(v) = Len(s) /\ DOMAIN s = 1..Len(s)
      BY <2>1, <2>2, MadeFrom, DomainOf
    <2>4. Once(v)
      <3> SUFFICES ASSUME NEW i \in 1..Len(s), NEW j \in 1..Len(s), v[i] = v[j] PROVE i = j
        BY <2>3 DEF Once
      <3>1. v[i].id = <<w, CaseId(s[i])>> /\ v[j].id = <<w, CaseId(s[j])>>
        BY <2>2, <2>3 DEF TeacherRequest, TeacherId
      <3>2. CaseId(s[i]) = CaseId(s[j])
        BY <3>1
      <3>3. Has(cases[w], s[i]) /\ Has(cases[w], s[j])
        BY <2>1 DEF Has
      <3>4. s[i] = s[j]
        BY <2>1, <3>2, <3>3, CasesDiffer
      <3> QED BY <2>1, <3>4 DEF Once
    <2>5. \A x : Has(v, x) <=> \E c : Has(s, c) /\ x = TeacherRequest(w, c)
      BY <2>2, <2>3 DEF Has
    <2> QED BY <2>3, <2>4, <2>5 DEF s, v
  <1> HIDE DEF seqs
  <1>3. AreSeqs(seqs, NWorks)
    BY <1>1, <1>2 DEF AreSeqs
  <1>4. /\ IsSeq(u)
        /\ \A x : Has(u, x) <=> \E j \in 1..NWorks : Has(seqs[j], x)
        /\ (/\ \A j \in 1..NWorks : Once(seqs[j])
            /\ \A j, l \in 1..NWorks : \A x : Has(seqs[j], x) /\ Has(seqs[l], x) => j = l)
           => Once(u)
    BY ONLY <1>1, <1>3, FlatIs
  <1> HIDE DEF u
  <1>5. \A j \in 1..NWorks : \A x : Has(seqs[j], x) => x.id[1] = j
    <2> SUFFICES ASSUME NEW j \in 1..NWorks, NEW x, Has(seqs[j], x) PROVE x.id[1] = j
      OBVIOUS
    <2>1. PICK c : Has(Funded(j), c) /\ x = TeacherRequest(j, c)
      BY <1>2
    <2>2. TeacherRequest(j, c).id = <<j, CaseId(c)>>
      BY DEF TeacherRequest, TeacherId
    <2> QED BY <2>1, <2>2
  <1>6. Once(u)
    <2>1. \A j, l \in 1..NWorks : \A x : Has(seqs[j], x) /\ Has(seqs[l], x) => j = l
      BY <1>5
    <2> QED BY <1>2, <1>4, <2>1
  <1>7. \A x : Has(u, x) <=> \E w \in Works : \E c : Has(Funded(w), c) /\ x = TeacherRequest(w, c)
    BY <1>1, <1>2, <1>4
  <1>8. ASSUME NEW x, NEW y, Has(u, x), Has(u, y), x.id = y.id PROVE x = y
    <2>1. PICK w \in Works : \E c : Has(Funded(w), c) /\ x = TeacherRequest(w, c)
      BY <1>7, <1>8
    <2>2. PICK c : Has(Funded(w), c) /\ x = TeacherRequest(w, c)
      BY <2>1
    <2>3. PICK v \in Works : \E d : Has(Funded(v), d) /\ y = TeacherRequest(v, d)
      BY <1>7, <1>8
    <2>4. PICK d : Has(Funded(v), d) /\ y = TeacherRequest(v, d)
      BY <2>3
    <2>5. x.id = <<w, CaseId(c)>> /\ y.id = <<v, CaseId(d)>>
      BY <2>2, <2>4 DEF TeacherRequest, TeacherId
    <2>6. w = v /\ CaseId(c) = CaseId(d)
      <3>1. <<w, CaseId(c)>> = <<v, CaseId(d)>>
        BY <1>8, <2>5
      <3> QED BY ONLY <3>1
    <2>7. Has(cases[w], c) /\ Has(cases[w], d)
      BY <2>2, <2>4, <2>6, TeacherCasesAre
    <2>8. c = d
      BY <2>6, <2>7, CasesDiffer
    <2> QED BY <2>2, <2>4, <2>6, <2>8
  <1>9. NamesDiffer(u)
    BY <1>6, <1>8, NamesFrom
  <1>10. TeacherRequests = u
    BY DEF TeacherRequests, u, seqs
  <1> QED BY <1>4, <1>7, <1>9, <1>10

LEMMA HasAnswer ==
    ASSUME NEW requests, IsSeq(requests), NamesDiffer(requests), NEW x, Has(requests, x)
    PROVE  GenerationPhase(requests)[x.id] = Completion(x)
  <1>1. PICK m \in 1..Len(requests) : requests[m] = x
    BY DEF Has
  <1> QED BY <1>1, Answers

\* invalid and replacements of a model: the cases that are skipped, and the new steps of the others.
Skips(cs, list, oracle) ==
    /\ IsSeq(list)
    /\ \A x : Has(list, x) <=>
          \E c : Has(cs, c) /\ Taught(c) /\ Wrong(c, oracle) # "" /\ x = Skip(c, Wrong(c, oracle))
    /\ \A i, j \in 1..Len(list) : list[i].id = list[j].id => i = j

NewSteps(cs, map, oracle) ==
    \A c : Has(cs, c) /\ Taught(c) /\ TeacherBudget(c) > 0 =>
        /\ oracle[Asked(c)] \in Int /\ oracle[Asked(c)] >= -1
        /\ Wrong(c, oracle) = "" => map[CaseId(c)] = FirstStep(Asked(c), oracle)

LEMMA TeacherAnswers ==
    ASSUME \A w \in Works : AreCases(cases[w]), NEW w \in Works, NEW c, Has(Funded(w), c)
    PROVE  /\ GenerationPhase(TeacherRequests)[TeacherId(w, c)] = Asked(c)
           /\ Asked(c) \in {Completion(TeacherRequests[k]) : k \in DOMAIN TeacherRequests}
  <1> DEFINE requests == TeacherRequests
             x == TeacherRequest(w, c)
  <1>1. IsSeq(requests) /\ NamesDiffer(requests) /\ Has(requests, x)
    BY TeacherRequestsAre
  <1>2. x.id = TeacherId(w, c) /\ Completion(x) = Asked(c)
    BY DEF TeacherRequest, Asked, Completion
  <1> HIDE DEF x, requests
  <1>3. GenerationPhase(requests)[x.id] = Completion(x)
    BY <1>1, HasAnswer
  <1>4. PICK m \in DOMAIN requests : requests[m] = x
    BY <1>1, DomainOf
  <1>5. Asked(c) \in {Completion(requests[k]) : k \in DOMAIN requests}
    BY <1>2, <1>4
  <1> QED BY <1>2, <1>3, <1>5 DEF requests

\* The reason the teacher phase finds is the one the answers give.
LEMMA Reasoned ==
    ASSUME \A w \in Works : AreCases(cases[w]), NEW w \in Works, NEW c, Has(cases[w], c), Taught(c),
           NEW oracle
    PROVE  Reason(w, c, GenerationPhase(TeacherRequests), oracle) = Wrong(c, oracle)
  <1> DEFINE output == GenerationPhase(TeacherRequests)
  <1>0. TeacherBudget(c) \in Int
    BY CasesDiffer
  <1>1. CASE TeacherBudget(c) <= 0
    BY <1>1 DEF Reason, Wrong
  <1>2. CASE TeacherBudget(c) > 0
    <2>1. Has(Funded(w), c)
      BY <1>2, TeacherCasesAre
    <2>2. output[TeacherId(w, c)] = Asked(c)
      BY <2>1, TeacherAnswers
    <2> HIDE DEF output
    <2>3. Reason(w, c, output, oracle) = Wrong(c, oracle)
      BY <2>2 DEF Reason, Wrong
    <2> QED BY <2>3 DEF output
  <1> QED BY <1>0, <1>1, <1>2

LEMMA TeacherSkips ==
    ASSUME \A w \in Works : AreCases(cases[w]), NEW w \in Works, NEW oracle
    PROVE  LET output == GenerationPhase(TeacherRequests)
               skipped == Only(TeacherCases(w),
                             {c \in Range(TeacherCases(w)) : Reason(w, c, output, oracle) # ""})
           IN  Skips(cases[w], [i \in DOMAIN skipped |-> Skip(skipped[i], Reason(w, skipped[i], output, oracle))],
                     oracle)
  <1> DEFINE output == GenerationPhase(TeacherRequests)
             t == TeacherCases(w)
             cs == cases[w]
             S == {c \in Range(t) : Reason(w, c, output, oracle) # ""}
             skipped == Only(t, S)
             list == [i \in DOMAIN skipped |-> Skip(skipped[i], Reason(w, skipped[i], output, oracle))]
  <1>1. /\ AreCases(cs) /\ IsSeq(t) /\ Once(t)
        /\ \A c : Has(t, c) <=> Has(cs, c) /\ Taught(c)
        /\ \A c : c \in Range(t) <=> Has(cs, c) /\ Taught(c)
    BY TeacherCasesAre
  <1>2. \A c : Has(cs, c) /\ Taught(c) => Reason(w, c, output, oracle) = Wrong(c, oracle)
    BY Reasoned
  <1> HIDE DEF output, t, cs
  <1>3. \A c : c \in S <=> Has(cs, c) /\ Taught(c) /\ Wrong(c, oracle) # ""
    BY <1>1, <1>2
  <1> HIDE DEF S
  <1>4. /\ IsSeq(skipped) /\ Once(skipped)
        /\ \A c : Has(skipped, c) <=> Has(t, c) /\ c \in S
    BY <1>1, OnlyIs
  <1> HIDE DEF skipped
  <1>5. \A c : Has(skipped, c) <=> Has(cs, c) /\ Taught(c) /\ Wrong(c, oracle) # ""
    BY <1>1, <1>3, <1>4
  <1>6. list = [i \in DOMAIN skipped |-> list[i]]
    OBVIOUS
  <1>7. IsSeq(list) /\ Len(list) = Len(skipped) /\ DOMAIN list = 1..Len(skipped) /\ DOMAIN skipped = 1..Len(skipped)
    <2> HIDE DEF list
    <2> QED BY <1>4, <1>6, MadeFrom, DomainOf
  <1>8. \A i \in 1..Len(skipped) : Has(skipped, skipped[i])
    BY DEF Has
  <1>9. \A i \in 1..Len(skipped) : list[i] = Skip(skipped[i], Wrong(skipped[i], oracle))
    BY <1>2, <1>5, <1>7, <1>8
  <1> HIDE DEF list
  <1>10. \A x : Has(list, x) <=>
          \E c : Has(cs, c) /\ Taught(c) /\ Wrong(c, oracle) # "" /\ x = Skip(c, Wrong(c, oracle))
    <2> TAKE x
    <2>1. Has(list, x) <=> \E i \in 1..Len(skipped) : x = Skip(skipped[i], Wrong(skipped[i], oracle))
      BY <1>7, <1>9 DEF Has
    <2>2. (\E i \in 1..Len(skipped) : x = Skip(skipped[i], Wrong(skipped[i], oracle)))
             <=> \E c : Has(skipped, c) /\ x = Skip(c, Wrong(c, oracle))
      BY <1>8 DEF Has
    <2> QED BY <1>5, <2>1, <2>2
  <1>11. ASSUME NEW i \in 1..Len(list), NEW j \in 1..Len(list), list[i].id = list[j].id
         PROVE  i = j
    <2>1. list[i].id = CaseId(skipped[i]) /\ list[j].id = CaseId(skipped[j])
      BY <1>7, <1>9 DEF Skip
    <2>2. Has(cs, skipped[i]) /\ Has(cs, skipped[j])
      BY <1>5, <1>7, <1>8
    <2>3. skipped[i] = skipped[j]
      BY <1>1, <1>11, <2>1, <2>2, CasesDiffer
    <2> QED BY <1>4, <1>7, <2>3 DEF Once
  <1>12. Skips(cs, list, oracle)
    BY <1>7, <1>10, <1>11 DEF Skips
  <1> QED BY <1>12 DEF list, skipped, S, t, cs, output

LEMMA TeacherSteps ==
    ASSUME \A w \in Works : AreCases(cases[w]), NEW w \in Works,
           NEW asked, asked = {Completion(TeacherRequests[k]) : k \in DOMAIN TeacherRequests},
           NEW oracle \in [asked -> -1..MaxTeacher]
    PROVE  LET output == GenerationPhase(TeacherRequests)
               kept == {c \in Range(TeacherCases(w)) : Reason(w, c, output, oracle) = ""}
           IN  NewSteps(cases[w],
                   [id \in {CaseId(c) : c \in kept} |->
                        LET c == CHOOSE x \in kept : CaseId(x) = id
                        IN  FirstStep(output[TeacherId(w, c)], oracle)], oracle)
  <1> DEFINE output == GenerationPhase(TeacherRequests)
             t == TeacherCases(w)
             cs == cases[w]
             kept == {c \in Range(t) : Reason(w, c, output, oracle) = ""}
             case(id) == CHOOSE x \in kept : CaseId(x) = id
             map == [id \in {CaseId(c) : c \in kept} |-> FirstStep(output[TeacherId(w, case(id))], oracle)]
  <1>1. AreCases(cs) /\ \A c : c \in Range(t) <=> Has(cs, c) /\ Taught(c)
    BY TeacherCasesAre
  <1>2. \A c : Has(cs, c) /\ Taught(c) => Reason(w, c, output, oracle) = Wrong(c, oracle)
    BY Reasoned
  <1>3. ASSUME NEW c, Has(cs, c), Taught(c), TeacherBudget(c) > 0
        PROVE  output[TeacherId(w, c)] = Asked(c) /\ Asked(c) \in asked
    <2>1. Has(Funded(w), c)
      BY <1>3, TeacherCasesAre
    <2> QED BY <2>1, TeacherAnswers
  <1> HIDE DEF output, t, cs
  <1>4. \A c : c \in kept <=> Has(cs, c) /\ Taught(c) /\ Wrong(c, oracle) = ""
    BY <1>1, <1>2
  <1> HIDE DEF kept
  <1>5. ASSUME NEW c, Has(cs, c), Taught(c), TeacherBudget(c) > 0
        PROVE  /\ oracle[Asked(c)] \in Int /\ oracle[Asked(c)] >= -1
               /\ Wrong(c, oracle) = "" => map[CaseId(c)] = FirstStep(Asked(c), oracle)
    <2>1. oracle[Asked(c)] \in -1..MaxTeacher
      BY <1>3, <1>5
    <2>2. oracle[Asked(c)] \in Int /\ oracle[Asked(c)] >= -1
      BY <2>1, Numbers
    <2>3. ASSUME Wrong(c, oracle) = "" PROVE map[CaseId(c)] = FirstStep(Asked(c), oracle)
      <3>1. c \in kept /\ CaseId(c) \in {CaseId(x) : x \in kept}
        BY <1>4, <1>5, <2>3
      <3>2. case(CaseId(c)) \in kept /\ CaseId(case(CaseId(c))) = CaseId(c)
        BY <3>1
      <3>3. map[CaseId(c)] = FirstStep(output[TeacherId(w, case(CaseId(c)))], oracle)
        BY <3>1
      <3> HIDE DEF case, map
      <3>4. Has(cs, case(CaseId(c)))
        BY <1>4, <3>2
      <3>5. case(CaseId(c)) = c
        BY <1>1, <1>5, <3>2, <3>4, CasesDiffer
      <3> QED BY <1>3, <1>5, <3>3, <3>5
    <2> QED BY <2>2, <2>3
  <1> HIDE DEF map
  <1>6. NewSteps(cs, map, oracle)
    BY <1>5 DEF NewSteps
  <1> QED BY <1>6 DEF map, case, kept, t, cs, output

-----------------------------------------------------------------------------
\* Values and what a case gets alone.

\* One sample has the average of McK copies of it.
LEMMA AlikeSamples ==
    ASSUME NEW s
    PROVE  SameAverage(Average(<<s>>), Average([j \in 1..McK |-> s]))
  <1> DEFINE one == <<s>>
             many == [j \in 1..McK |-> s]
  <1>1. McK \in Nat /\ McK > 0
    BY Numbers
  <1>2. Len(one) = 1 /\ DOMAIN one = {1} /\ \A i \in {1} : one[i] = s
    OBVIOUS
  <1>3. IsSeq(many) /\ Len(many) = McK /\ DOMAIN many = 1..McK /\ \A i \in 1..McK : many[i] = s
    <2>1. many = [j \in 1..McK |-> many[j]] /\ \A i \in 1..McK : many[i] = s
      OBVIOUS
    <2> HIDE DEF many
    <2> QED BY <1>1, <2>1, MadeOf
  <1> HIDE DEF one, many
  <1>4. Range(one) = {s}
    BY <1>2 DEF Range
  <1>5. Range(many) = {s}
    BY <1>1, <1>3 DEF Range
  <1>6. {i \in DOMAIN one : one[i] = s} = {1}
    BY <1>2
  <1>7. {i \in DOMAIN many : many[i] = s} = 1..McK
    BY <1>3
  <1>8. Cardinality({1}) = 1
    BY FS_Singleton
  <1>9. Cardinality(1..McK) = McK
    <2>1. Cardinality(1..McK) = IF 1 > McK THEN 0 ELSE McK - 1 + 1
      BY <1>1, FS_Interval
    <2> QED BY <1>1, <2>1
  <1>10. /\ DOMAIN Average(one).times = {s} /\ Average(one).times[s] = 1 /\ Average(one).total = 1
    BY <1>2, <1>4, <1>6, <1>8 DEF Average
  <1>11. /\ DOMAIN Average(many).times = {s} /\ Average(many).times[s] = McK /\ Average(many).total = McK
    BY <1>3, <1>5, <1>7, <1>9 DEF Average
  <1>12. SameAverage(Average(one), Average(many))
    BY <1>1, <1>10, <1>11 DEF SameAverage
  <1> QED BY <1>12 DEF one, many

LEMMA SameSamples == \A a : SameAverage(a, a)
  BY DEF SameAverage

\* The requests of an arm.
LEMMA ArmIs ==
    ASSUME NEW c, NEW prefix, NEW offset
    PROVE  LET arm == ArmRequests(c, prefix, offset) IN
           /\ IsSeq(arm) /\ Once(arm) /\ (\A x : Has(arm, x) => x.id[1] = CaseId(c) /\ x.id[2] = offset)
           /\ \A x, y : Has(arm, x) /\ Has(arm, y) /\ x.id = y.id => x = y
  <1> DEFINE arm == ArmRequests(c, prefix, offset)
             left == MaxResponse - Length(prefix)
             Request(j) == [ids |-> prefix, max |-> left,
                            seed |-> c.seed + offset + j - 1, id |-> <<CaseId(c), offset, j>>]
  <1>1. CASE left <= 0
    <2>1. arm = <<>>
      BY <1>1 DEF ArmRequests
    <2>2. IsSeq(arm) /\ Once(arm) /\ \A x : ~Has(arm, x)
      BY <2>1 DEF IsSeq, Once, Has
    <2> QED BY <2>2
  <1>2. CASE ~(left <= 0)
    <2>1. arm = [j \in 1..McK |-> Request(j)]
      BY <1>2 DEF ArmRequests
    <2>2. arm = [j \in 1..McK |-> arm[j]] /\ \A j \in 1..McK : arm[j] = Request(j)
      BY <2>1
    <2>3. \A j \in 1..McK : arm[j].id = <<CaseId(c), offset, j>>
      BY <2>2
    <2> HIDE DEF arm, Request
    <2>4. IsSeq(arm) /\ Len(arm) = McK
      BY <2>2, MadeOf, Numbers
    <2>5. \A x : Has(arm, x) => \E j \in 1..McK : x = arm[j]
      BY <2>4 DEF Has
    <2>6. \A i, j \in 1..McK : arm[i].id = arm[j].id => i = j
      <3> TAKE i, j \in 1..McK
      <3>1. <<CaseId(c), offset, i>> = <<CaseId(c), offset, j>> => i = j
        OBVIOUS
      <3> QED BY <2>3, <3>1
    <2>7. \A x : Has(arm, x) => x.id[1] = CaseId(c) /\ x.id[2] = offset
      BY <2>3, <2>5
    <2>8. \A x, y : Has(arm, x) /\ Has(arm, y) /\ x.id = y.id => x = y
      BY <2>5, <2>6
    <2>9. Once(arm)
      BY <2>4, <2>6 DEF Once
    <2> QED BY <2>4, <2>7, <2>8, <2>9 DEF arm
  <1> QED BY <1>1, <1>2

\* The value of an arm whose requests are answered has the samples of the value
\* of the case alone, and outside SciBench its verifier too.
ArmSame(c, own, alone) == SameRewards(own, alone) /\ (c.key[1] \notin SciBench => SameValue(own, alone))

LEMMA ArmAgrees ==
    ASSUME NEW c, NEW prefix, NEW offset, NEW output,
           \A x : Has(ArmRequests(c, prefix, offset), x) => output[x.id] = Completion(x)
    PROVE  ArmSame(c, ArmValue(c, prefix, ArmRequests(c, prefix, offset), output),
                      EstimateValue(c, prefix, offset))
  <1> DEFINE arm == ArmRequests(c, prefix, offset)
             left == MaxResponse - Length(prefix)
             Answer(j) == [ids |-> prefix, max |-> left, seed |-> c.seed + offset + j - 1]
             by == VerifierOf(c.key[1])
             own == ArmValue(c, prefix, arm, output)
             alone == EstimateValue(c, prefix, offset)
  <1>1. c.key[1] \notin SciBench => by = "verify_response_answer"
    BY DEF VerifierOf
  <1>2. ASSUME NEW s, NEW t, own = Graded(by, s), alone = Graded("verify_response_answer", t),
               SameAverage(Average(s), Average(t))
        PROVE  ArmSame(c, own, alone)
    <2> HIDE DEF own, alone, by
    <2>1. /\ own.verifier = by /\ own.rewards = Average(s)
          /\ alone.verifier = "verify_response_answer" /\ alone.rewards = Average(t)
      BY <1>2 DEF Graded
    <2>2. SameRewards(own, alone)
      BY <1>2, <2>1 DEF SameRewards
    <2> QED BY <1>1, <2>1, <2>2 DEF ArmSame, SameValue
  <1>3. CASE left <= 0
    <2> DEFINE one == <<Sample(prefix, Nothing)>>
               many == [j \in 1..McK |-> Sample(prefix, Nothing)]
    <2>1. arm = <<>>
      BY <1>3 DEF ArmRequests
    <2>2. own = Graded(by, one)
      BY <2>1 DEF ArmValue
    <2>3. alone = Graded("verify_response_answer", many)
      BY <1>3 DEF EstimateValue
    <2>4. SameAverage(Average(one), Average(many))
      BY AlikeSamples
    <2> HIDE DEF own, alone, by, one, many
    <2>5. ArmSame(c, own, alone)
      BY <1>2, <2>2, <2>3, <2>4
    <2> QED BY <2>5 DEF own, alone, arm
  <1>4. CASE ~(left <= 0)
    <2> DEFINE asked == [j \in DOMAIN arm |-> Sample(prefix, output[arm[j].id])]
               answers == [j \in 1..McK |-> Sample(prefix, Answer(j))]
    <2>1. arm = [j \in 1..McK |-> [ids |-> prefix, max |-> left, seed |-> c.seed + offset + j - 1,
                                   id |-> <<CaseId(c), offset, j>>]]
      BY <1>4 DEF ArmRequests
    <2>2. /\ DOMAIN arm = 1..McK
          /\ \A j \in 1..McK : Completion(arm[j]) = Answer(j)
      BY <2>1 DEF Completion
    <2>3. arm = [j \in 1..McK |-> arm[j]]
      BY <2>1
    <2>4. alone = Graded("verify_response_answer", answers)
      BY <1>4 DEF EstimateValue
    <2> HIDE DEF arm, Answer, by, alone
    <2>5. Len(arm) = McK /\ McK \in Nat \ {0}
      BY <2>3, MadeOf, Numbers
    <2>6. \A j \in 1..McK : output[arm[j].id] = Answer(j)
      BY <2>2, <2>5 DEF arm, Has
    <2>7. arm # <<>>
      BY <2>5
    <2>8. own = Graded(by, asked)
      BY <2>7 DEF ArmValue, by
    <2>9. asked = answers
      BY <2>2, <2>6
    <2> HIDE DEF own, asked, answers
    <2>10. SameAverage(Average(asked), Average(answers))
      BY <2>9, SameSamples
    <2>11. ArmSame(c, own, alone)
      BY <1>2, <2>4, <2>8, <2>10
    <2> QED BY <2>11 DEF own, alone, arm
  <1> QED BY <1>3, <1>4

\* What a case gets alone.
ValuesAlone(w, c) == Valid(c, EstimateValue(c, Before(c), 0), EstimateValue(c, ActionOf(w, c), 1000))

\* evaluate_ersr_case: a skip or two values.
LEMMA EvaluatedAlone ==
    ASSUME NEW w \in Works, AreCases(cases[w]), NewSteps(cases[w], replacements[w], proposals),
           NEW c, Has(cases[w], c)
    PROVE  /\ Taught(c) /\ Wrong(c, proposals) # "" =>
                 EvaluateCase(c, proposals) = Skip(c, Wrong(c, proposals))
           /\ ~(Taught(c) /\ Wrong(c, proposals) # "") =>
                 EvaluateCase(c, proposals) = ValuesAlone(w, c)
  <1> DEFINE request == [ids |-> Before(c), max |-> TeacherBudget(c), seed |-> c.seed + 5000]
             step == FirstStep(Asked(c), proposals)
             skips == EvaluateCase(c, proposals) = Skip(c, Wrong(c, proposals))
             values(action) == EvaluateCase(c, proposals) =
                 Valid(c, EstimateValue(c, Before(c), 0), EstimateValue(c, action, 1000))
  <1> SUFFICES /\ Taught(c) /\ Wrong(c, proposals) # "" => skips
               /\ ~(Taught(c) /\ Wrong(c, proposals) # "") => values(ActionOf(w, c))
    BY DEF ValuesAlone
  <1>1. c.key[2] \in {"student_action", "teacher_replace"} /\ TeacherBudget(c) \in Int
    BY CasesDiffer
  <1>2. CASE c.key[2] = "student_action"
    <2>1. ~Taught(c)
      BY <1>2 DEF Taught
    <2>2. values(ActionPrefix(c, Nothing))
      BY <1>2 DEF EvaluateCase
    <2>3. ActionOf(w, c) = ActionPrefix(c, Nothing)
      BY <1>2 DEF ActionOf
    <2>4. values(ActionOf(w, c))
      BY <2>2, <2>3
    <2> HIDE DEF values, skips
    <2> QED BY <2>1, <2>4
  <1>3. CASE c.key[2] = "teacher_replace" /\ TeacherBudget(c) <= 0
    <2>1. Wrong(c, proposals) = "no_teacher_budget" /\ Taught(c)
      BY <1>3 DEF Wrong, Taught
    <2>2. EvaluateCase(c, proposals) = Skip(c, "no_teacher_budget")
      BY <1>1, <1>3 DEF EvaluateCase
    <2>3. skips
      BY <2>1, <2>2
    <2>4. Wrong(c, proposals) # ""
      BY <2>1
    <2> HIDE DEF values, skips
    <2> QED BY <2>1, <2>3, <2>4
  <1>4. CASE c.key[2] = "teacher_replace" /\ TeacherBudget(c) > 0
    <2>1. Taught(c)
      BY <1>4 DEF Taught
    <2>2. /\ proposals[Asked(c)] \in Int /\ proposals[Asked(c)] >= -1
          /\ Wrong(c, proposals) = "" => replacements[w][CaseId(c)] = step
      BY <1>4, <2>1 DEF NewSteps
    <2>9. ~(TeacherBudget(c) <= 0)
      BY <1>1, <1>4
    <2>3. Wrong(c, proposals) = IF proposals[Asked(c)] = -1 THEN "split_error"
                                ELSE IF proposals[Asked(c)] = 0 THEN "empty_teacher_replacement" ELSE ""
      BY <2>9, Zenon DEF Wrong
    <2>4. EvaluateCase(c, proposals) =
             CASE step.length = -1 -> Skip(c, "split_error")
               [] step.length = 0 -> Skip(c, "empty_teacher_replacement")
               [] step.length > 0 -> Valid(c, EstimateValue(c, Before(c), 0),
                                              EstimateValue(c, ActionPrefix(c, step), 1000))
      <3>1. request.max = TeacherBudget(c) /\ Completion(request) = Asked(c)
        BY DEF Asked
      <3>2. EvaluateCase(c, proposals) =
               CASE c.key[2] = "student_action" ->
                        Valid(c, EstimateValue(c, Before(c), 0), EstimateValue(c, ActionPrefix(c, Nothing), 1000))
                 [] c.key[2] = "teacher_replace" /\ request.max <= 0 -> Skip(c, "no_teacher_budget")
                 [] c.key[2] = "teacher_replace" /\ request.max > 0 ->
                       CASE step.length = -1 -> Skip(c, "split_error")
                         [] step.length = 0 -> Skip(c, "empty_teacher_replacement")
                         [] step.length > 0 -> Valid(c, EstimateValue(c, Before(c), 0),
                                                     EstimateValue(c, ActionPrefix(c, step), 1000))
        BY DEF EvaluateCase, Asked
      <3> HIDE DEF request, step
      <3>3. c.key[2] # "student_action"
        BY <1>4
      <3> QED BY <1>4, <2>9, <3>1, <3>2, <3>3
    <2>5. step.length = proposals[Asked(c)]
      BY DEF FirstStep
    <2> HIDE DEF step
    <2>6. CASE proposals[Asked(c)] = -1
      <3>1. Wrong(c, proposals) = "split_error" /\ EvaluateCase(c, proposals) = Skip(c, "split_error")
        BY <2>3, <2>4, <2>5, <2>6
      <3>2. skips /\ Wrong(c, proposals) # ""
        BY <3>1
      <3> HIDE DEF values, skips
      <3> QED BY <2>1, <3>2
    <2>7. CASE proposals[Asked(c)] = 0
      <3>1. Wrong(c, proposals) = "empty_teacher_replacement"
        BY <2>3, <2>7
      <3>2. EvaluateCase(c, proposals) = Skip(c, "empty_teacher_replacement")
        BY <2>4, <2>5, <2>7
      <3>3. skips /\ Wrong(c, proposals) # ""
        BY <3>1, <3>2
      <3> HIDE DEF values, skips
      <3> QED BY <2>1, <3>3
    <2>8. CASE proposals[Asked(c)] > 0
      <3>0. proposals[Asked(c)] # -1 /\ proposals[Asked(c)] # 0
        BY <2>8
      <3>1. Wrong(c, proposals) = ""
        BY <2>3, <3>0
      <3>2. ActionOf(w, c) = ActionPrefix(c, step)
        BY <1>4, <2>2, <3>1 DEF ActionOf
      <3>3. values(ActionPrefix(c, step))
        BY <2>4, <2>5, <2>8
      <3>4. values(ActionOf(w, c))
        BY <3>2, <3>3
      <3> HIDE DEF values, skips
      <3> QED BY <3>1, <3>4
    <2>10. proposals[Asked(c)] = -1 \/ proposals[Asked(c)] = 0 \/ proposals[Asked(c)] > 0
      <3> DEFINE p == proposals[Asked(c)]
      <3>1. p \in Int /\ p >= -1
        BY <2>2
      <3> HIDE DEF p
      <3>2. p = -1 \/ p = 0 \/ p > 0
        BY <3>1
      <3> QED BY <3>2 DEF p
    <2> HIDE DEF values, skips
    <2> QED BY <2>6, <2>7, <2>8, <2>10
  <1>5. \/ c.key[2] = "student_action"
        \/ c.key[2] = "teacher_replace" /\ TeacherBudget(c) <= 0
        \/ c.key[2] = "teacher_replace" /\ TeacherBudget(c) > 0
    BY <1>1
  <1> QED BY <1>2, <1>3, <1>4, <1>5

-----------------------------------------------------------------------------
\* What the student phase reports of a work.

\* Each case is named once.
Names(cs, list) ==
    /\ IsSeq(list)
    /\ \A i, j \in 1..Len(list) : list[i].id = list[j].id => i = j
    /\ \A x : Has(list, x) => \E c : Has(cs, c) /\ x.id = CaseId(c)
    /\ \A c : Has(cs, c) => \E x : Has(list, x) /\ x.id = CaseId(c)

\* What is reported of a case is what the case gets alone.
Agrees(c, own, alone) ==
    /\ own.reason = alone.reason
    /\ own.reason = "" => ArmSame(c, own.baseline, alone.baseline) /\ ArmSame(c, own.action, alone.action)

Report(cs, list, oracle) ==
    /\ Names(cs, list)
    /\ \A x : Has(list, x) => \E c : Has(cs, c) /\ x.id = CaseId(c) /\ Agrees(c, x, EvaluateCase(c, oracle))

LEMMA NamedOnce ==
    ASSUME NEW cs, AreCases(cs), NEW list, Names(cs, list)
    PROVE  /\ {list[i].id : i \in DOMAIN list} = {CaseId(cs[i]) : i \in DOMAIN cs}
           /\ Len(list) = Len(cs)
  <1> DEFINE n == Len(list)
             m == Len(cs)
             f == [i \in 1..n |-> CHOOSE k \in 1..m : CaseId(cs[k]) = list[i].id]
  <1>1. n \in Nat /\ m \in Nat /\ DOMAIN list = 1..n /\ DOMAIN cs = 1..m
    BY DomainOf DEF Names, AreCases, IsSeq
  <1>2. \A i \in 1..n : \E k \in 1..m : CaseId(cs[k]) = list[i].id
    <2> TAKE i \in 1..n
    <2>1. Has(list, list[i])
      BY DEF Has
    <2>2. PICK c : Has(cs, c) /\ list[i].id = CaseId(c)
      BY <2>1 DEF Names
    <2> QED BY <2>2 DEF Has
  <1>3. \A i \in 1..n : f[i] \in 1..m /\ CaseId(cs[f[i]]) = list[i].id
    BY <1>2
  <1>4. \A k \in 1..m : \E i \in 1..n : CaseId(cs[k]) = list[i].id
    <2> TAKE k \in 1..m
    <2>1. Has(cs, cs[k])
      BY DEF Has
    <2>2. PICK x : Has(list, x) /\ x.id = CaseId(cs[k])
      BY <2>1 DEF Names
    <2> QED BY <2>2 DEF Has
  <1>5. f = [i \in 1..n |-> f[i]]
    OBVIOUS
  <1> HIDE DEF f
  <1>6. f \in [1..n -> 1..m]
    BY <1>3, <1>5
  <1>7. \A x, y \in 1..n : f[x] = f[y] => x = y
    BY <1>3 DEF Names
  <1>8. \A z \in 1..m : \E x \in 1..n : f[x] = z
    <2> TAKE z \in 1..m
    <2>1. PICK i \in 1..n : CaseId(cs[z]) = list[i].id
      BY <1>4
    <2>2. f[i] \in 1..m /\ CaseId(cs[f[i]]) = CaseId(cs[z])
      BY <1>3, <2>1
    <2> QED BY <2>2 DEF AreCases
  <1> HIDE DEF n, m
  <1>9. IsFiniteSet(1..n) /\ Cardinality(1..n) = n /\ Cardinality(1..m) = m
    <2>1. IsFiniteSet(1..n) /\ Cardinality(1..n) = IF 1 > n THEN 0 ELSE n - 1 + 1
      BY <1>1, FS_Interval
    <2>2. Cardinality(1..m) = IF 1 > m THEN 0 ELSE m - 1 + 1
      BY <1>1, FS_Interval
    <2> QED BY <1>1, <2>1, <2>2
  <1>10. Cardinality(1..m) = Cardinality(1..n)
    BY ONLY <1>6, <1>7, <1>8, <1>9, SameSize
  <1>11. n = m
    BY <1>9, <1>10
  <1>12. {list[i].id : i \in DOMAIN list} = {CaseId(cs[i]) : i \in DOMAIN cs}
    BY <1>1, <1>2, <1>4
  <1> QED BY <1>11, <1>12 DEF n, m

LEMMA StudentCasesAre ==
    ASSUME NEW w, AreCases(cases[w]), Skips(cases[w], invalid[w], proposals)
    PROVE  /\ IsSeq(StudentCases(w)) /\ Once(StudentCases(w))
           /\ \A c : Has(StudentCases(w), c) <=>
                 Has(cases[w], c) /\ ~(Taught(c) /\ Wrong(c, proposals) # "")
  <1> DEFINE cs == cases[w]
             list == invalid[w]
             S == {c \in Range(cs) : \A i \in DOMAIN list : list[i].id # CaseId(c)}
  <1>1. IsSeq(cs) /\ Once(cs) /\ \A x : x \in Range(cs) <=> Has(cs, x)
    BY CasesDiffer, DomainOf DEF AreCases
  <1>2. \A x : Has(list, x) <=> \E i \in DOMAIN list : list[i] = x
    BY DomainOf DEF Skips
  <1>3. \A c : c \in S <=> Has(cs, c) /\ \A x : Has(list, x) => x.id # CaseId(c)
    BY <1>1, <1>2
  <1>4. StudentCases(w) = Only(cs, S)
    BY DEF StudentCases
  <1> HIDE DEF S
  <1>5. ASSUME NEW c, Has(cs, c)
        PROVE  (\A x : Has(list, x) => x.id # CaseId(c)) <=> ~(Taught(c) /\ Wrong(c, proposals) # "")
    <2>1. \A x : Has(list, x) <=>
             \E d : Has(cs, d) /\ Taught(d) /\ Wrong(d, proposals) # "" /\ x = Skip(d, Wrong(d, proposals))
      BY DEF Skips
    <2>2. ASSUME Taught(c), Wrong(c, proposals) # "" PROVE \E x : Has(list, x) /\ x.id = CaseId(c)
      <3>1. Has(list, Skip(c, Wrong(c, proposals)))
        BY <1>5, <2>1, <2>2
      <3>2. Skip(c, Wrong(c, proposals)).id = CaseId(c)
        BY DEF Skip
      <3> QED BY <3>1, <3>2
    <2>3. ASSUME NEW x, Has(list, x), x.id = CaseId(c) PROVE Taught(c) /\ Wrong(c, proposals) # ""
      <3>1. PICK d : Has(cs, d) /\ Taught(d) /\ Wrong(d, proposals) # "" /\ x = Skip(d, Wrong(d, proposals))
        BY <2>1, <2>3
      <3>2. x.id = CaseId(d)
        BY <3>1 DEF Skip
      <3>3. c = d
        BY <1>5, <2>3, <3>1, <3>2, CasesDiffer
      <3> QED BY <3>1, <3>3
    <2> HIDE DEF cs, list
    <2> QED BY <2>2, <2>3
  <1> HIDE DEF cs, list
  <1>6. /\ IsSeq(Only(cs, S)) /\ Once(Only(cs, S))
        /\ \A c : Has(Only(cs, S), c) <=> Has(cs, c) /\ c \in S
    BY <1>1, OnlyIs
  <1>7. \A c : Has(Only(cs, S), c) <=> Has(cs, c) /\ ~(Taught(c) /\ Wrong(c, proposals) # "")
    BY <1>3, <1>5, <1>6
  <1> QED BY <1>4, <1>6, <1>7 DEF cs

LEMMA StudentRequestsAre ==
    ASSUME NEW w, AreCases(cases[w]), Skips(cases[w], invalid[w], proposals)
    PROVE  /\ IsSeq(StudentRequests(w)) /\ NamesDiffer(StudentRequests(w))
           /\ \A c : Has(StudentCases(w), c) =>
                 \A x : Has(BaselineRequests(c), x) \/ Has(ActionRequests(w, c), x) => Has(StudentRequests(w), x)
  <1> DEFINE s == StudentCases(w)
             k == Len(s)
             row(c) == BaselineRequests(c) \o ActionRequests(w, c)
             seqs == [i \in DOMAIN s |-> BaselineRequests(s[i]) \o ActionRequests(w, s[i])]
             u == FlattenSeq(seqs)
  <1>1. /\ IsSeq(s) /\ Once(s) /\ k \in Nat /\ DOMAIN s = 1..k
        /\ \A i \in 1..k : Has(s, s[i]) /\ Has(cases[w], s[i])
    <2>1. IsSeq(s) /\ Once(s) /\ \A c : Has(s, c) => Has(cases[w], c)
      BY StudentCasesAre
    <2> HIDE DEF s
    <2>2. \A i \in 1..k : Has(s, s[i])
      BY DEF Has
    <2> QED BY <2>1, <2>2, DomainOf DEF IsSeq
  <1>2. ASSUME NEW c
        PROVE  /\ IsSeq(row(c)) /\ Once(row(c))
               /\ \A x : Has(row(c), x) <=> Has(BaselineRequests(c), x) \/ Has(ActionRequests(w, c), x)
               /\ \A x : Has(row(c), x) => x.id[1] = CaseId(c)
               /\ \A x, y : Has(row(c), x) /\ Has(row(c), y) /\ x.id = y.id => x = y
    <2> DEFINE a == BaselineRequests(c)
               b == ActionRequests(w, c)
    <2>1. /\ IsSeq(a) /\ Once(a) /\ (\A x : Has(a, x) => x.id[1] = CaseId(c) /\ x.id[2] = 0)
          /\ \A x, y : Has(a, x) /\ Has(a, y) /\ x.id = y.id => x = y
      BY ArmIs DEF BaselineRequests
    <2>2. /\ IsSeq(b) /\ Once(b) /\ (\A x : Has(b, x) => x.id[1] = CaseId(c) /\ x.id[2] = 1000)
          /\ \A x, y : Has(b, x) /\ Has(b, y) /\ x.id = y.id => x = y
      BY ArmIs DEF ActionRequests
    <2> HIDE DEF a, b
    <2>3. \A x, y : Has(a, x) /\ Has(b, y) => x.id # y.id
      BY <2>1, <2>2
    <2>4. /\ IsSeq(a \o b)
          /\ \A x : Has(a \o b, x) <=> Has(a, x) \/ Has(b, x)
          /\ Once(a) /\ Once(b) /\ (\A x : ~(Has(a, x) /\ Has(b, x))) => Once(a \o b)
      BY <2>1, <2>2, JoinIs
    <2>5. \A x : ~(Has(a, x) /\ Has(b, x))
      BY <2>3
    <2>6. row(c) = a \o b
      BY DEF a, b
    <2> HIDE DEF row
    <2>7. \A x, y : Has(row(c), x) /\ Has(row(c), y) /\ x.id = y.id => x = y
      BY <2>1, <2>2, <2>3, <2>4, <2>6
    <2>8. \A x : Has(row(c), x) => x.id[1] = CaseId(c)
      BY <2>1, <2>2, <2>4, <2>6
    <2> QED BY <2>1, <2>2, <2>4, <2>5, <2>6, <2>7, <2>8 DEF a, b
  <1>3. seqs = [i \in 1..k |-> seqs[i]] /\ \A i \in 1..k : seqs[i] = row(s[i])
    BY <1>1
  <1> HIDE DEF seqs, row, k, s
  <1>4. AreSeqs(seqs, k)
    BY <1>2, <1>3 DEF AreSeqs
  <1>5. /\ IsSeq(u)
        /\ \A x : Has(u, x) <=> \E j \in 1..k : Has(seqs[j], x)
        /\ (/\ \A j \in 1..k : Once(seqs[j])
            /\ \A j, l \in 1..k : \A x : Has(seqs[j], x) /\ Has(seqs[l], x) => j = l)
           => Once(u)
    BY ONLY <1>1, <1>4, FlatIs
  <1> HIDE DEF u
  <1>6. ASSUME NEW j \in 1..k, NEW l \in 1..k, CaseId(s[j]) = CaseId(s[l]) PROVE j = l
    <2>1. s[j] = s[l]
      BY <1>1, <1>6, CasesDiffer
    <2> QED BY <1>1, <2>1 DEF Once, k
  <1>7. Once(u)
    <2>1. \A j, l \in 1..k : \A x : Has(seqs[j], x) /\ Has(seqs[l], x) => j = l
      BY <1>2, <1>3, <1>6
    <2>2. \A j \in 1..k : Once(seqs[j])
      BY <1>2, <1>3
    <2> QED BY <1>5, <2>1, <2>2
  <1>8. ASSUME NEW x, NEW y, Has(u, x), Has(u, y), x.id = y.id PROVE x = y
    <2>1. PICK j \in 1..k : Has(row(s[j]), x)
      BY <1>3, <1>5, <1>8
    <2>2. PICK l \in 1..k : Has(row(s[l]), y)
      BY <1>3, <1>5, <1>8
    <2>3. CaseId(s[j]) = CaseId(s[l])
      <3>1. x.id[1] = CaseId(s[j]) /\ y.id[1] = CaseId(s[l])
        BY <1>2, <2>1, <2>2
      <3> QED BY <1>8, <3>1
    <2>4. j = l
      BY <1>6, <2>3
    <2> QED BY <1>2, <1>8, <2>1, <2>2, <2>4
  <1>9. NamesDiffer(u)
    BY <1>7, <1>8, NamesFrom
  <1>10. StudentRequests(w) = u
    BY DEF StudentRequests, u, seqs, s
  <1>11. ASSUME NEW c, Has(s, c), NEW x, Has(BaselineRequests(c), x) \/ Has(ActionRequests(w, c), x)
         PROVE  Has(u, x)
    <2>1. PICK i \in 1..k : s[i] = c
      BY <1>11 DEF Has, k
    <2>2. Has(row(c), x)
      BY <1>2, <1>11
    <2> QED BY <1>3, <1>5, <2>1, <2>2
  <1> QED BY <1>5, <1>9, <1>10, <1>11 DEF s

\* evaluate_ersr_student reports every case with what it gets alone.
LEMMA StudentReport ==
    ASSUME NEW w \in Works, AreCases(cases[w]), Skips(cases[w], invalid[w], proposals),
           NewSteps(cases[w], replacements[w], proposals)
    PROVE  LET kept == StudentCases(w)
               output == GenerationPhase(StudentRequests(w))
           IN  Report(cases[w], Reported(w, [i \in DOMAIN kept |->
                Valid(kept[i], ArmValue(kept[i], Before(kept[i]), BaselineRequests(kept[i]), output),
                               ArmValue(kept[i], ActionOf(w, kept[i]), ActionRequests(w, kept[i]), output))]), proposals)
  <1> DEFINE kept == StudentCases(w)
             output == GenerationPhase(StudentRequests(w))
             cs == cases[w]
             bad == invalid[w]
             Value(c) == Valid(c, ArmValue(c, Before(c), BaselineRequests(c), output),
                                  ArmValue(c, ActionOf(w, c), ActionRequests(w, c), output))
             good == [i \in DOMAIN kept |-> Value(kept[i])]
             list == bad \o good
  <1>1. /\ AreCases(cs) /\ IsSeq(kept) /\ Once(kept)
        /\ \A c : Has(kept, c) <=> Has(cs, c) /\ ~(Taught(c) /\ Wrong(c, proposals) # "")
    BY StudentCasesAre
  <1>2. ASSUME NEW c, Has(kept, c)
        PROVE  Value(c).id = CaseId(c) /\ Agrees(c, Value(c), EvaluateCase(c, proposals))
    <2> DEFINE base == ArmValue(c, Before(c), BaselineRequests(c), output)
               action == ArmValue(c, ActionOf(w, c), ActionRequests(w, c), output)
    <2>1. \A x : Has(BaselineRequests(c), x) \/ Has(ActionRequests(w, c), x) => output[x.id] = Completion(x)
      BY <1>2, StudentRequestsAre, HasAnswer
    <2> HIDE DEF output
    <2>2. ArmSame(c, base, EstimateValue(c, Before(c), 0))
      BY <2>1, ArmAgrees DEF BaselineRequests
    <2>3. ArmSame(c, action, EstimateValue(c, ActionOf(w, c), 1000))
      BY <2>1, ArmAgrees DEF ActionRequests
    <2>4. EvaluateCase(c, proposals) = ValuesAlone(w, c)
      BY <1>1, <1>2, EvaluatedAlone
    <2>5. Value(c) = Valid(c, base, action)
      OBVIOUS
    <2> DEFINE b == EstimateValue(c, Before(c), 0)
               a == EstimateValue(c, ActionOf(w, c), 1000)
               own == Value(c)
               alone == EvaluateCase(c, proposals)
    <2>6. own = Valid(c, base, action) /\ alone = Valid(c, b, a) /\ ArmSame(c, base, b) /\ ArmSame(c, action, a)
      BY <2>2, <2>3, <2>4, <2>5 DEF ValuesAlone
    <2> HIDE DEF base, action, a, b, own, alone
    <2>7. /\ own.id = CaseId(c) /\ own.reason = "" /\ own.baseline = base /\ own.action = action
          /\ alone.reason = "" /\ alone.baseline = b /\ alone.action = a
      BY <2>6 DEF Valid
    <2>8. own.id = CaseId(c) /\ Agrees(c, own, alone)
      BY <2>6, <2>7 DEF Agrees
    <2> QED BY <2>8 DEF own, alone
  <1>3. good = [i \in DOMAIN kept |-> good[i]] /\ \A i \in DOMAIN kept : good[i] = Value(kept[i])
    OBVIOUS
  <1> HIDE DEF kept, Value, good
  <1>4. IsSeq(good) /\ Len(good) = Len(kept) /\ DOMAIN kept = 1..Len(kept)
    BY <1>1, <1>3, MadeFrom, DomainOf
  <1>5. \A x : Has(good, x) <=> \E c : Has(kept, c) /\ x = Value(c)
    BY <1>3, <1>4 DEF Has
  <1>6. /\ IsSeq(bad)
        /\ \A x : Has(bad, x) <=>
              \E c : Has(cs, c) /\ Taught(c) /\ Wrong(c, proposals) # "" /\ x = Skip(c, Wrong(c, proposals))
        /\ \A i, j \in 1..Len(bad) : bad[i].id = bad[j].id => i = j
    BY DEF Skips
  <1>7. ASSUME NEW c, Has(cs, c), Taught(c), Wrong(c, proposals) # "", NEW x, x = Skip(c, Wrong(c, proposals))
        PROVE  x.id = CaseId(c) /\ Agrees(c, x, EvaluateCase(c, proposals))
    <2>1. EvaluateCase(c, proposals) = x
      <3>1. Has(cases[w], c) /\ Taught(c) /\ Wrong(c, proposals) # ""
        BY <1>7
      <3> QED BY <1>7, <3>1, EvaluatedAlone
    <2>2. x.id = CaseId(c) /\ x.reason # ""
      BY <1>7 DEF Skip
    <2> QED BY <2>1, <2>2 DEF Agrees
  <1> HIDE DEF cs, bad, output
  <1>8. /\ IsSeq(list) /\ Len(list) = Len(bad) + Len(good)
        /\ \A i \in 1..Len(bad) : list[i] = bad[i]
        /\ \A i \in 1..Len(good) : list[Len(bad) + i] = good[i]
        /\ \A x : Has(list, x) <=> Has(bad, x) \/ Has(good, x)
        /\ Once(bad) /\ Once(good) /\ (\A x : ~(Has(bad, x) /\ Has(good, x))) => Once(list)
    BY <1>4, <1>6, JoinIs
  <1> HIDE DEF list
  <1>9. \A x : Has(list, x) => \E c : Has(cs, c) /\ x.id = CaseId(c) /\ Agrees(c, x, EvaluateCase(c, proposals))
    <2> SUFFICES ASSUME NEW x, Has(list, x)
                 PROVE  \E c : Has(cs, c) /\ x.id = CaseId(c) /\ Agrees(c, x, EvaluateCase(c, proposals))
      OBVIOUS
    <2>1. CASE Has(bad, x)
      <3>1. PICK c : Has(cs, c) /\ Taught(c) /\ Wrong(c, proposals) # "" /\ x = Skip(c, Wrong(c, proposals))
        BY <1>6, <2>1
      <3> QED BY <1>7, <3>1
    <2>2. CASE Has(good, x)
      <3>1. PICK c : Has(kept, c) /\ x = Value(c)
        BY <1>5, <2>2
      <3> QED BY <1>1, <1>2, <3>1
    <2> QED BY <1>8, <2>1, <2>2
  <1>10. \A c : Has(cs, c) => \E x : Has(list, x) /\ x.id = CaseId(c)
    <2> SUFFICES ASSUME NEW c, Has(cs, c) PROVE \E x : Has(list, x) /\ x.id = CaseId(c)
      OBVIOUS
    <2>1. CASE Taught(c) /\ Wrong(c, proposals) # ""
      <3> DEFINE x == Skip(c, Wrong(c, proposals))
      <3>1. Has(bad, x) /\ x.id = CaseId(c)
        BY <1>6, <1>7, <2>1
      <3> QED BY <1>8, <3>1
    <2>2. CASE ~(Taught(c) /\ Wrong(c, proposals) # "")
      <3>1. Has(kept, c)
        BY <1>1, <2>2
      <3>2. Has(good, Value(c)) /\ Value(c).id = CaseId(c)
        BY <1>2, <1>5, <3>1
      <3> QED BY <1>8, <3>2
    <2> QED BY <2>1, <2>2
  <1>11. ASSUME NEW i \in 1..Len(bad), NEW j \in 1..Len(good) PROVE bad[i].id # good[j].id
    <2>1. Has(bad, bad[i]) /\ Has(good, good[j])
      BY DEF Has
    <2>2. PICK c : Has(cs, c) /\ Taught(c) /\ Wrong(c, proposals) # "" /\ bad[i] = Skip(c, Wrong(c, proposals))
      BY <1>6, <2>1
    <2>3. PICK d : Has(kept, d) /\ good[j] = Value(d)
      BY <1>5, <2>1
    <2>4. bad[i].id = CaseId(c) /\ good[j].id = CaseId(d)
      BY <1>2, <1>7, <2>2, <2>3
    <2>5. c # d /\ Has(cs, d)
      BY <1>1, <2>2, <2>3
    <2>6. CaseId(c) # CaseId(d)
      BY <1>1, <2>2, <2>5, CasesDiffer
    <2> QED BY <2>4, <2>6
  <1>12. ASSUME NEW i \in 1..Len(good), NEW j \in 1..Len(good), good[i].id = good[j].id PROVE i = j
    <2>1. Has(kept, kept[i]) /\ Has(kept, kept[j])
      BY <1>4 DEF Has
    <2>2. CaseId(kept[i]) = CaseId(kept[j])
      BY <1>2, <1>3, <1>4, <1>12, <2>1
    <2>3. Has(cs, kept[i]) /\ Has(cs, kept[j])
      BY <1>1, <2>1
    <2>4. kept[i] = kept[j]
      BY <1>1, <2>2, <2>3, CasesDiffer
    <2> QED BY <1>1, <1>4, <2>4 DEF Once
  <1>13. ASSUME NEW i \in 1..Len(list), NEW j \in 1..Len(list), list[i].id = list[j].id PROVE i = j
    <2> DEFINE m == Len(bad)
               n == Len(good)
    <2>1. m \in Nat /\ n \in Nat /\ Len(list) = m + n
      BY <1>4, <1>6, <1>8 DEF IsSeq
    <2> HIDE DEF m, n
    <2>2. (i \in 1..m \/ i - m \in 1..n) /\ (j \in 1..m \/ j - m \in 1..n)
      BY <2>1
    <2>3. \A p \in 1..m : list[p] = bad[p]
      BY <1>8 DEF m
    <2>4. \A p \in 1..n : list[m + p] = good[p]
      BY <1>8 DEF m, n
    <2>5. i - m \in 1..n => list[i] = good[i - m]
      <3>1. m + (i - m) = i
        BY <2>1
      <3> QED BY <2>4, <3>1
    <2>6. j - m \in 1..n => list[j] = good[j - m]
      <3>1. m + (j - m) = j
        BY <2>1
      <3> QED BY <2>4, <3>1
    <2>7. CASE i \in 1..m /\ j \in 1..m
      BY <1>6, <1>13, <2>3, <2>7 DEF m
    <2>8. CASE i \in 1..m /\ j - m \in 1..n
      BY <1>11, <1>13, <2>3, <2>6, <2>8 DEF m, n
    <2>9. CASE i - m \in 1..n /\ j \in 1..m
      BY <1>11, <1>13, <2>3, <2>5, <2>9 DEF m, n
    <2>10. CASE i - m \in 1..n /\ j - m \in 1..n
      <3>1. good[i - m].id = good[j - m].id
        BY <1>13, <2>5, <2>6, <2>10
      <3>2. i - m = j - m
        BY <1>12, <2>10, <3>1 DEF n
      <3> QED BY <2>1, <3>2
    <2> QED BY <2>2, <2>7, <2>8, <2>9, <2>10
  <1>14. Names(cs, list)
    <2>1. \A x : Has(list, x) => \E c : Has(cs, c) /\ x.id = CaseId(c)
      BY <1>9
    <2> QED BY <1>8, <1>10, <1>13, <2>1 DEF Names
  <1>15. Report(cs, list, proposals)
    BY <1>9, <1>14 DEF Report
  <1>16. list = Reported(w, good)
    BY DEF list, Reported, bad
  <1> QED BY <1>15, <1>16 DEF good, kept, cs, Value, output

-----------------------------------------------------------------------------
\* The share of an agent loop worker.

LEMMA Division ==
    ASSUME NEW i \in Nat, NEW d \in Nat \ {0}
    PROVE  /\ i \div d \in Nat /\ i % d \in 0..(d - 1) /\ i = d * (i \div d) + (i % d)
           /\ d * (i \div d) \in Nat
  OBVIOUS

LEMMA DivisionIs ==
    ASSUME NEW q \in Nat, NEW d \in Nat \ {0}, NEW r \in 0..(d - 1), NEW i \in Nat, i = d * q + r
    PROVE  i % d = r /\ i \div d = q
  <1> DEFINE p == i \div d
             s == i % d
  <1>1. p \in Nat /\ s \in 0..(d - 1) /\ i = d * p + s
    BY Division
  <1> HIDE DEF p, s
  <1>2. CASE p < q
    <2>1. d * (p + 1) <= d * q /\ d * (p + 1) = d * p + d /\ d * p \in Nat
      BY <1>1, <1>2, TimesGrows
    <2> QED BY <1>1, <2>1
  <1>3. CASE p > q
    <2>1. d * (q + 1) <= d * p /\ d * (q + 1) = d * q + d /\ d * q \in Nat
      BY <1>1, <1>3, TimesGrows
    <2> QED BY <1>1, <2>1
  <1>4. p = q /\ s = r
    BY <1>1, <1>2, <1>3
  <1> QED BY <1>4 DEF p, s

\* The places a, a + d, a + 2d, ... up to n.
ArePlaces(place, m, n, d, a) ==
    /\ m \in Nat /\ place = [k \in 1..m |-> (k - 1) * d + a]
    /\ Cardinality({i \in 1..n : (i - 1) % d = a - 1}) = m
    /\ \A k \in 1..m : place[k] \in 1..n /\ (place[k] - 1) % d = a - 1
    /\ \A i \in 1..n : (i - 1) % d = a - 1 => \E k \in 1..m : place[k] = i
    /\ \A k, l \in 1..m : place[k] = place[l] => k = l

LEMMA EveryOther ==
    ASSUME NEW n \in Nat, NEW d \in Nat \ {0}, NEW a \in 1..d
    PROVE  \E m, place : ArePlaces(place, m, n, d, a)
  <1> DEFINE m == IF a <= n THEN ((n - a) \div d) + 1 ELSE 0
             T == {i \in 1..n : (i - 1) % d = a - 1}
             f == [k \in 1..m |-> (k - 1) * d + a]
  <1>1. m \in Nat /\ \A k \in 1..m : (k - 1) * d \in Nat /\ (k - 1) * d + a <= n
    <2>1. CASE a <= n
      <3>1. n - a \in Nat
        BY <2>1
      <3> DEFINE q == (n - a) \div d
      <3>2. q \in Nat /\ d * q \in Nat /\ d * q <= n - a
        BY <3>1, Division
      <3>3. m = q + 1
        BY <2>1
      <3> HIDE DEF q, m
      <3>4. ASSUME NEW k \in 1..m PROVE (k - 1) * d \in Nat /\ (k - 1) * d + a <= n
        <4> DEFINE j == k - 1
        <4>1. j \in Nat /\ j <= q
          BY <3>2, <3>3
        <4> HIDE DEF j
        <4>2. d * j \in Nat /\ d * j <= d * q /\ j * d = d * j
          BY <3>2, <4>1, TimesGrows
        <4>3. j * d \in Nat /\ j * d + a <= n
          BY <3>2, <4>2
        <4> QED BY <4>3 DEF j
      <3>5. m \in Nat
        BY <3>2, <3>3
      <3> QED BY <3>4, <3>5
    <2>2. CASE ~(a <= n)
      <3>1. m = 0
        BY <2>2
      <3> HIDE DEF m
      <3> QED BY <3>1
    <2> QED BY <2>1, <2>2
  <1>2. ASSUME NEW i \in T PROVE \E k \in 1..m : (k - 1) * d + a = i
    <2> DEFINE q == (i - 1) \div d
    <2>1. i \in 1..n /\ i - 1 \in Nat /\ (i - 1) % d = a - 1
      OBVIOUS
    <2>2. q \in Nat /\ d * q \in Nat /\ i - 1 = d * q + (a - 1)
      BY <2>1, Division
    <2>3. i = d * q + a /\ a <= n /\ n - a \in Nat
      BY <2>1, <2>2
    <2> DEFINE p == (n - a) \div d
               r == (n - a) % d
    <2>4. p \in Nat /\ r \in 0..(d - 1) /\ n - a = d * p + r
      BY <2>3, Division
    <2>5. m = p + 1
      BY <2>3
    <2> HIDE DEF p, q, r, m
    <2>6. q <= p
      <3>1. CASE p < q
        <4>1. d * (p + 1) <= d * q /\ d * (p + 1) = d * p + d /\ d * p \in Nat
          BY <2>2, <2>4, <3>1, TimesGrows
        <4>2. d * q <= n - a
          BY <2>1, <2>2, <2>3
        <4>3. n - a < d * p + d
          BY <2>4, <4>1
        <4>4. d * q \in Nat /\ n - a \in Nat /\ d * p + d \in Nat
          BY <2>2, <2>3, <4>1
        <4> QED BY <4>1, <4>2, <4>3, <4>4
      <3> QED BY <2>2, <2>4, <3>1
    <2>7. q + 1 \in 1..m /\ (q + 1) - 1 = q /\ q * d = d * q
      BY <2>2, <2>4, <2>5, <2>6
    <2>8. ((q + 1) - 1) * d + a = i
      BY <2>3, <2>7
    <2> QED BY <2>7, <2>8
  <1>3. ASSUME NEW k \in 1..m
        PROVE  (k - 1) * d + a \in 1..n /\ ((k - 1) * d + a - 1) % d = a - 1
    <2> HIDE DEF m
    <2> DEFINE j == k - 1
               i == j * d + a
    <2>1. j \in Nat /\ j * d \in Nat /\ j * d + a <= n /\ j * d = d * j
      BY <1>1
    <2> HIDE DEF j
    <2>2. i \in 1..n
      BY <2>1
    <2>3. i - 1 \in Nat /\ i - 1 = d * j + (a - 1) /\ a - 1 \in 0..(d - 1)
      BY <2>1, <2>2
    <2> HIDE DEF i
    <2> DEFINE h == i - 1
               b == a - 1
    <2>5. h \in Nat /\ b \in 0..(d - 1) /\ h = d * j + b
      BY <2>3
    <2> HIDE DEF h, b
    <2>6. h % d = b
      BY <2>1, <2>5, DivisionIs
    <2>4. (i - 1) % d = a - 1
      BY <2>6 DEF h, b
    <2> QED BY <2>2, <2>4 DEF i, j
  <1>4. ASSUME NEW k \in 1..m, NEW l \in 1..m, (k - 1) * d + a = (l - 1) * d + a PROVE k = l
    <2> HIDE DEF m
    <2> DEFINE u == k - 1
               v == l - 1
    <2>1. u \in Nat /\ v \in Nat /\ u * d = d * u /\ v * d = d * v /\ u * d \in Nat /\ v * d \in Nat
      BY <1>1
    <2>2. u * d + a = v * d + a
      BY <1>4
    <2> HIDE DEF u, v
    <2>3. d * u = d * v
      BY <2>1, <2>2
    <2>4. \A p, q \in Nat : p < q => d * p < d * q
      <3> TAKE p, q \in Nat
      <3>1. p < q => d * (p + 1) <= d * q /\ d * (p + 1) = d * p + d /\ d * p \in Nat /\ d * q \in Nat
        BY TimesGrows
      <3> QED BY <3>1
    <2>5. u = v
      <3>1. ~(u < v) /\ ~(v < u)
        BY <2>1, <2>3, <2>4
      <3> QED BY <2>1, <3>1
    <2> QED BY <1>1, <2>5 DEF u, v
  <1>5. f = [k \in 1..m |-> f[k]] /\ \A k \in 1..m : f[k] = (k - 1) * d + a
    OBVIOUS
  <1> HIDE DEF f, m
  <1>6. \A k \in 1..m : f[k] \in T
    BY <1>3, <1>5
  <1>7. f \in [1..m -> T]
    BY <1>5, <1>6
  <1>8. \A x, y \in 1..m : f[x] = f[y] => x = y
    BY <1>4, <1>5
  <1>9. \A z \in T : \E x \in 1..m : f[x] = z
    BY <1>2, <1>5
  <1>10. IsFiniteSet(1..m) /\ Cardinality(1..m) = m
    <2>1. IsFiniteSet(1..m) /\ Cardinality(1..m) = IF 1 > m THEN 0 ELSE m - 1 + 1
      BY <1>1, FS_Interval
    <2> QED BY <1>1, <2>1
  <1>11. \A i \in 1..n : (i - 1) % d = a - 1 => \E k \in 1..m : (k - 1) * d + a = i
    BY <1>2
  <1> HIDE DEF T
  <1>12. Cardinality(T) = m
    <2>1. Cardinality(T) = Cardinality(1..m)
      BY ONLY <1>7, <1>8, <1>9, <1>10, SameSize
    <2> QED BY <1>10, <2>1
  <1>13. f = [k \in 1..m |-> (k - 1) * d + a]
    BY DEF f
  <1>14. \A k \in 1..m : f[k] \in 1..n /\ (f[k] - 1) % d = a - 1
    BY <1>6 DEF T
  <1>15. \A i \in 1..n : (i - 1) % d = a - 1 => \E k \in 1..m : f[k] = i
    BY <1>5, <1>11
  <1>16. ArePlaces(f, m, n, d, a)
    BY <1>1, <1>8, <1>12, <1>13, <1>14, <1>15 DEF ArePlaces, T
  <1> QED BY <1>16

\* A worker's share: the cases whose places leave its remainder, each once.
LEMMA AssignedAre ==
    ASSUME AreCases(cases[1]), NEW a \in 1..NAgents
    PROVE  /\ IsSeq(Assigned(a)) /\ Once(Assigned(a))
           /\ \A c : Has(Assigned(a), c) <=>
                 \E i \in 1..Len(cases[1]) : cases[1][i] = c /\ (i - 1) % NAgents = a - 1
  <1> DEFINE cs == cases[1]
             n == Len(cs)
             mine == {i \in DOMAIN cs : (i - 1) % NAgents = a - 1}
             own == Assigned(a)
  <1>1. n \in Nat /\ DOMAIN cs = 1..n /\ Once(cs) /\ NAgents \in Nat \ {0}
    BY CasesDiffer, DomainOf, Numbers DEF AreCases, IsSeq
  <1>2. mine = {i \in 1..n : (i - 1) % NAgents = a - 1}
    BY <1>1
  <1> HIDE DEF mine
  <1>3. \E m, place : ArePlaces(place, m, n, NAgents, a)
    <2> HIDE DEF n
    <2> QED BY <1>1, EveryOther
  <1>4. PICK m, place : ArePlaces(place, m, n, NAgents, a)
    BY <1>3
  <1>5. own = [k \in 1..m |-> cs[place[k]]] /\ m \in Nat
    <2>1. /\ m \in Nat /\ Cardinality(mine) = m
          /\ \A k \in 1..m : place[k] = (k - 1) * NAgents + a
      BY <1>2, <1>4 DEF ArePlaces
    <2>2. own = [k \in 1..m |-> cs[(k - 1) * NAgents + a]]
      BY <2>1 DEF Assigned, mine
    <2> QED BY <2>1, <2>2
  <1>6. /\ \A k \in 1..m : place[k] \in 1..n /\ (place[k] - 1) % NAgents = a - 1
        /\ \A i \in 1..n : (i - 1) % NAgents = a - 1 => \E k \in 1..m : place[k] = i
        /\ \A k, l \in 1..m : place[k] = place[l] => k = l
    BY <1>4 DEF ArePlaces
  <1> HIDE DEF own, n, cs
  <1>7. own = [k \in 1..m |-> own[k]] /\ \A k \in 1..m : own[k] = cs[place[k]]
    BY <1>5
  <1>8. IsSeq(own) /\ Len(own) = m
    BY <1>5, <1>7, MadeOf
  <1>9. Once(own)
    <2>1. \A i, k \in 1..n : cs[i] = cs[k] => i = k
      BY <1>1 DEF Once, n
    <2> SUFFICES ASSUME NEW i \in 1..m, NEW k \in 1..m, own[i] = own[k] PROVE i = k
      BY <1>8 DEF Once
    <2>2. place[i] = place[k]
      BY <1>6, <1>7, <2>1
    <2> QED BY <1>6, <2>2
  <1>10. \A c : Has(own, c) <=> \E i \in 1..n : cs[i] = c /\ (i - 1) % NAgents = a - 1
    <2> TAKE c
    <2>1. Has(own, c) <=> \E k \in 1..m : cs[place[k]] = c
      BY <1>7, <1>8 DEF Has
    <2> QED BY <1>6, <2>1
  <1> QED BY <1>8, <1>9, <1>10 DEF own, n, cs

\* The shares take the cases apart.
LEMMA SharesAre ==
    ASSUME AreCases(cases[1])
    PROVE  /\ \A a \in 1..NAgents : \A c : Has(Assigned(a), c) => Has(cases[1], c)
           /\ \A a, b \in 1..NAgents : \A c : Has(Assigned(a), c) /\ Has(Assigned(b), c) => a = b
           /\ \A c : Has(cases[1], c) => \E a \in 1..NAgents : Has(Assigned(a), c)
  <1> DEFINE cs == cases[1]
             n == Len(cs)
  <1>1. n \in Nat /\ Once(cs) /\ NAgents \in Nat \ {0}
    BY CasesDiffer, Numbers DEF AreCases, IsSeq
  <1>2. \A a \in 1..NAgents : \A c : Has(Assigned(a), c) <=>
                 \E i \in 1..n : cs[i] = c /\ (i - 1) % NAgents = a - 1
    BY AssignedAre
  <1> HIDE DEF cs
  <1>3. \A a \in 1..NAgents : \A c : Has(Assigned(a), c) => Has(cs, c)
    BY <1>2 DEF Has
  <1>4. ASSUME NEW a \in 1..NAgents, NEW b \in 1..NAgents, NEW c, Has(Assigned(a), c), Has(Assigned(b), c)
        PROVE  a = b
    <2>1. PICK i \in 1..n : cs[i] = c /\ (i - 1) % NAgents = a - 1
      BY <1>2, <1>4
    <2>2. PICK j \in 1..n : cs[j] = c /\ (j - 1) % NAgents = b - 1
      BY <1>2, <1>4
    <2>3. i = j
      BY <1>1, <2>1, <2>2 DEF Once
    <2>4. a - 1 = b - 1
      BY <2>1, <2>2, <2>3
    <2> QED BY <1>1, <2>4
  <1>5. ASSUME NEW c, Has(cs, c) PROVE \E a \in 1..NAgents : Has(Assigned(a), c)
    <2>1. PICK i \in 1..n : cs[i] = c
      BY <1>5 DEF Has
    <2> DEFINE h == i - 1
               r == h % NAgents
    <2>2. h \in Nat
      BY <1>1
    <2>3. r \in 0..(NAgents - 1)
      <3> HIDE DEF h
      <3> QED BY <1>1, <2>2, Division
    <2>4. r + 1 \in 1..NAgents /\ (r + 1) - 1 = r
      <3> HIDE DEF r
      <3> QED BY <1>1, <2>3
    <2>5. (i - 1) % NAgents = (r + 1) - 1
      BY <2>4
    <2> HIDE DEF r, h
    <2> QED BY <1>2, <2>1, <2>4, <2>5
  <1> QED BY <1>3, <1>4, <1>5 DEF cs

\* The result of a case bears its name.
LEMMA NamedAlone ==
    ASSUME NEW c, c.key[2] \in {"student_action", "teacher_replace"}, TeacherBudget(c) \in Int, NEW oracle,
           c.key[2] = "teacher_replace" /\ TeacherBudget(c) > 0 =>
               oracle[Asked(c)] \in Int /\ oracle[Asked(c)] >= -1
    PROVE  EvaluateCase(c, oracle).id = CaseId(c)
  <1> DEFINE request == [ids |-> Before(c), max |-> TeacherBudget(c), seed |-> c.seed + 5000]
             step == FirstStep(Asked(c), oracle)
             Named(x) == x.id = CaseId(c)
             values(action) == Valid(c, EstimateValue(c, Before(c), 0), EstimateValue(c, action, 1000))
  <1>1. (\A reason : Named(Skip(c, reason))) /\ \A action : Named(values(action))
    BY DEF Skip, Valid
  <1>2. request.max = TeacherBudget(c) /\ Completion(request) = Asked(c) /\ step.length = oracle[Asked(c)]
    BY DEF Asked, FirstStep
  <1>3. EvaluateCase(c, oracle) =
           CASE c.key[2] = "student_action" -> values(ActionPrefix(c, Nothing))
             [] c.key[2] = "teacher_replace" /\ request.max <= 0 -> Skip(c, "no_teacher_budget")
             [] c.key[2] = "teacher_replace" /\ request.max > 0 ->
                   CASE step.length = -1 -> Skip(c, "split_error")
                     [] step.length = 0 -> Skip(c, "empty_teacher_replacement")
                     [] step.length > 0 -> values(ActionPrefix(c, step))
    BY DEF EvaluateCase, Asked
  <1> HIDE DEF request, step, values, Named
  <1>4. CASE c.key[2] = "student_action"
    <2>1. EvaluateCase(c, oracle) = values(ActionPrefix(c, Nothing))
      BY <1>3, <1>4
    <2>2. Named(EvaluateCase(c, oracle))
      BY <1>1, <2>1
    <2> QED BY <2>2 DEF Named
  <1>5. CASE c.key[2] = "teacher_replace" /\ request.max <= 0
    <2>1. EvaluateCase(c, oracle) = Skip(c, "no_teacher_budget")
      BY <1>2, <1>3, <1>5
    <2>2. Named(EvaluateCase(c, oracle))
      BY <1>1, <2>1
    <2> QED BY <2>2 DEF Named
  <1>6. CASE c.key[2] = "teacher_replace" /\ request.max > 0
    <2> DEFINE p == step.length
    <2>0. ~(request.max <= 0)
      BY <1>2, <1>6
    <2>1. EvaluateCase(c, oracle) =
                   CASE step.length = -1 -> Skip(c, "split_error")
                     [] step.length = 0 -> Skip(c, "empty_teacher_replacement")
                     [] step.length > 0 -> values(ActionPrefix(c, step))
      BY <1>3, <1>6, <2>0
    <2>2. p \in Int /\ p >= -1
      BY <1>2, <1>6
    <2> HIDE DEF p
    <2>3. p = -1 \/ p = 0 \/ p > 0
      BY <2>2
    <2>4. CASE p = -1
      <3>1. EvaluateCase(c, oracle) = Skip(c, "split_error")
        BY <2>1, <2>4 DEF p
      <3>2. Named(EvaluateCase(c, oracle))
        BY <1>1, <3>1
      <3> QED BY <3>2 DEF Named
    <2>5. CASE p = 0
      <3>1. EvaluateCase(c, oracle) = Skip(c, "empty_teacher_replacement")
        BY <2>1, <2>5 DEF p
      <3>2. Named(EvaluateCase(c, oracle))
        BY <1>1, <3>1
      <3> QED BY <3>2 DEF Named
    <2>6. CASE p > 0
      <3>1. EvaluateCase(c, oracle) = values(ActionPrefix(c, step))
        BY <2>1, <2>6 DEF p
      <3>2. Named(EvaluateCase(c, oracle))
        BY <1>1, <3>1
      <3> QED BY <3>2 DEF Named
    <2> QED BY <2>3, <2>4, <2>5, <2>6
  <1>7. request.max <= 0 \/ request.max > 0
    BY <1>2
  <1> QED BY <1>4, <1>5, <1>6, <1>7

\* The results a worker of the trainer has so far.
Training(a, list) ==
    /\ IsSeq(list)
    /\ \A k \in 1..Len(list) : list[k].id = CaseId(Assigned(a)[k])

LEMMA TrainedCase ==
    ASSUME AreCases(cases[1]), NEW a \in 1..NAgents, NEW list, Training(a, list),
           Len(list) + 1 <= Len(Assigned(a)), NEW x, x.id = CaseId(Assigned(a)[Len(list) + 1])
    PROVE  Training(a, Append(list, x))
  <1> DEFINE n == Len(list)
             new == Append(list, x)
  <1>1. n \in Nat /\ Len(Assigned(a)) \in Nat
    BY AssignedAre DEF Training, IsSeq
  <1>2. IsSeq(new) /\ Len(new) = n + 1 /\ new[n + 1] = x /\ \A i \in 1..n : new[i] = list[i]
    BY Appended DEF Training
  <1> HIDE DEF new
  <1>3. \A k \in 1..Len(new) : new[k].id = CaseId(Assigned(a)[k])
    <2> TAKE k \in 1..Len(new)
    <2>1. k \in 1..n \/ k = n + 1
      BY <1>1, <1>2
    <2>2. CASE k \in 1..n
      BY <1>2, <2>2 DEF Training
    <2>3. CASE k = n + 1
      BY <1>2, <2>3
    <2> QED BY <2>1, <2>2, <2>3
  <1> QED BY <1>2, <1>3 DEF Training, new

\* The workers' results together name each case once.
LEMMA GatheredReport ==
    ASSUME AreCases(cases[1]), trained = [a \in 1..NAgents |-> trained[a]],
           \A a \in 1..NAgents : Training(a, trained[a]) /\ Len(trained[a]) = Len(Assigned(a))
    PROVE  Names(cases[1], FlattenSeq(trained))
  <1> DEFINE u == FlattenSeq(trained)
             cs == cases[1]
  <1>1. NAgents \in Nat
    BY Numbers
  <1>2. ASSUME NEW a \in 1..NAgents
        PROVE  /\ IsSeq(trained[a]) /\ Once(trained[a])
               /\ \A x : Has(trained[a], x) => \E c : Has(Assigned(a), c) /\ x.id = CaseId(c)
               /\ \A c : Has(Assigned(a), c) => \E x : Has(trained[a], x) /\ x.id = CaseId(c)
               /\ \A x, y : Has(trained[a], x) /\ Has(trained[a], y) /\ x.id = y.id => x = y
    <2> DEFINE list == trained[a]
               own == Assigned(a)
               m == Len(own)
    <2>1. IsSeq(list) /\ Len(list) = m /\ \A k \in 1..m : list[k].id = CaseId(own[k])
      BY DEF Training
    <2>2. IsSeq(own) /\ Once(own) /\ \A c : Has(own, c) => Has(cs, c)
      BY AssignedAre, SharesAre
    <2> HIDE DEF list, own
    <2>3. \A k \in 1..m : Has(own, own[k]) /\ Has(list, list[k])
      BY <2>1 DEF Has
    <2>4. \A i, k \in 1..m : list[i].id = list[k].id => i = k
      <3> SUFFICES ASSUME NEW i \in 1..m, NEW k \in 1..m, list[i].id = list[k].id PROVE i = k
        OBVIOUS
      <3>1. CaseId(own[i]) = CaseId(own[k]) /\ Has(cs, own[i]) /\ Has(cs, own[k])
        BY <2>1, <2>2, <2>3
      <3>2. own[i] = own[k]
        BY <3>1, CasesDiffer
      <3> QED BY <2>2, <3>2 DEF Once
    <2>5. Once(list)
      BY <2>1, <2>4 DEF Once
    <2>6. \A x : Has(list, x) => \E k \in 1..m : x = list[k]
      BY <2>1 DEF Has
    <2>7. \A x : Has(list, x) => \E c : Has(own, c) /\ x.id = CaseId(c)
      BY <2>1, <2>3, <2>6
    <2>8. \A c : Has(own, c) => \E x : Has(list, x) /\ x.id = CaseId(c)
      <3> SUFFICES ASSUME NEW c, Has(own, c) PROVE \E x : Has(list, x) /\ x.id = CaseId(c)
        OBVIOUS
      <3>1. PICK k \in 1..m : own[k] = c
        BY DEF Has
      <3> QED BY <2>1, <2>3, <3>1
    <2>9. \A x, y : Has(list, x) /\ Has(list, y) /\ x.id = y.id => x = y
      BY <2>4, <2>6
    <2> QED BY <2>1, <2>5, <2>7, <2>8, <2>9 DEF list, own
  <1>3. AreSeqs(trained, NAgents)
    BY <1>2 DEF AreSeqs
  <1>4. /\ IsSeq(u)
        /\ \A x : Has(u, x) <=> \E j \in 1..NAgents : Has(trained[j], x)
        /\ (/\ \A j \in 1..NAgents : Once(trained[j])
            /\ \A j, l \in 1..NAgents : \A x : Has(trained[j], x) /\ Has(trained[l], x) => j = l)
           => Once(u)
    BY ONLY <1>1, <1>3, FlatIs
  <1> HIDE DEF u
  <1>5. ASSUME NEW j \in 1..NAgents, NEW l \in 1..NAgents, NEW x, NEW y,
               Has(trained[j], x), Has(trained[l], y), x.id = y.id
        PROVE  j = l
    <2>1. PICK c : Has(Assigned(j), c) /\ x.id = CaseId(c)
      BY <1>2, <1>5
    <2>2. PICK d : Has(Assigned(l), d) /\ y.id = CaseId(d)
      BY <1>2, <1>5
    <2>3. Has(cs, c) /\ Has(cs, d) /\ CaseId(c) = CaseId(d)
      BY <1>5, <2>1, <2>2, SharesAre
    <2>4. c = d
      BY <2>3, CasesDiffer
    <2> QED BY <2>1, <2>2, <2>4, SharesAre
  <1>6. Once(u)
    <2>1. \A j, l \in 1..NAgents : \A x : Has(trained[j], x) /\ Has(trained[l], x) => j = l
      BY <1>5
    <2> QED BY <1>2, <1>4, <2>1
  <1>7. \A x, y : Has(u, x) /\ Has(u, y) /\ x.id = y.id => x = y
    <2> SUFFICES ASSUME NEW x, NEW y, Has(u, x), Has(u, y), x.id = y.id PROVE x = y
      OBVIOUS
    <2>1. PICK j \in 1..NAgents : Has(trained[j], x)
      BY <1>4
    <2>2. PICK l \in 1..NAgents : Has(trained[l], y)
      BY <1>4
    <2>3. j = l
      BY <1>5, <2>1, <2>2
    <2> QED BY <1>2, <2>1, <2>2, <2>3
  <1>8. \A i, j \in 1..Len(u) : u[i].id = u[j].id => i = j
    BY <1>6, <1>7, NamesFrom DEF NamesDiffer
  <1>9. \A x : Has(u, x) => \E c : Has(cs, c) /\ x.id = CaseId(c)
    BY <1>2, <1>4, SharesAre
  <1>10. \A c : Has(cs, c) => \E x : Has(u, x) /\ x.id = CaseId(c)
    <2> SUFFICES ASSUME NEW c, Has(cs, c) PROVE \E x : Has(u, x) /\ x.id = CaseId(c)
      OBVIOUS
    <2>1. PICK a \in 1..NAgents : Has(Assigned(a), c)
      BY SharesAre
    <2>2. PICK x : Has(trained[a], x) /\ x.id = CaseId(c)
      BY <1>2, <2>1
    <2> QED BY <1>4, <2>2
  <1>11. Names(cs, u)
    BY <1>4, <1>8, <1>9, <1>10 DEF Names
  <1> QED BY <1>11 DEF u

-----------------------------------------------------------------------------
\* The inductive invariant.

\* The ranges of what is computed with, and the sizes of the last pool run's jobs.
ErsrTypes ==
    /\ mode \in {"standalone", "training"} /\ input \in Inputs /\ work \in Works /\ seen \in Nat
    /\ phase \in IF mode = "training" THEN {"select", "training", "done"}
                 ELSE {"evaluate", "select", "teacher", "student", "done", "raised"}
    /\ mode = "training" => work = 1
    /\ records = [w \in Works |-> records[w]] /\ cases = [w \in Works |-> cases[w]]
    /\ results = [w \in Works |-> results[w]]
    /\ trained = [a \in 1..NAgents |-> trained[a]]
    /\ Fits(jobs)

\* The models whose records are there.
RecordedWorks ==
    IF phase = "select" THEN 1..work ELSE SelectedWorks

\* The records are there before the cases, and the cases are a selection of them.
ErsrSelections ==
    /\ \A w \in RecordedWorks : AreRecords(records[w])
    /\ \A w \in SelectedWorks : IsSelection(records[w], cases[w])

\* The reservoirs hold candidates of the model at hand, and nothing between models.
ErsrReservoirs ==
    /\ phase = "evaluate" => seen = 0 /\ reservoir = [key \in Keys |-> <<>>]
    /\ phase = "select" => /\ Reservoirs(reservoir, records[work], seen)
                           /\ seen <= Len(Candidates(records[work]))

\* After the teacher phase: what is skipped and what is replaced follows from the answers.
ErsrAnswers ==
    mode = "standalone" /\ phase \in {"student", "done"} =>
        \A w \in Works : /\ Skips(cases[w], invalid[w], proposals)
                         /\ NewSteps(cases[w], replacements[w], proposals)

\* What has been reported so far.
ErsrReports ==
    /\ phase = "teacher" => work = 1
    /\ mode = "standalone" /\ phase = "student" => \A w \in 1..(work - 1) : Report(cases[w], results[w], proposals)
    /\ mode = "standalone" /\ phase = "done" => \A w \in Works : Report(cases[w], results[w], proposals)
    /\ mode = "training" /\ phase = "done" => Names(cases[1], results[1])

\* What the trainer's workers have evaluated so far.
ErsrShares ==
    /\ phase \notin {"training", "done"} => \A a \in 1..NAgents : trained[a] = <<>>
    /\ phase = "training" => \A a \in 1..NAgents : Training(a, trained[a])

ErsrInv == ErsrTypes /\ ErsrSelections /\ ErsrReservoirs /\ ErsrAnswers /\ ErsrReports /\ ErsrShares

LEMMA WorksAre == NWorks \in Nat \ {0} /\ Works = 1..NWorks /\ 1 \in Works
  <1>1. NWorks \in Nat \ {0}
    BY Numbers
  <1> QED BY <1>1 DEF Works

LEMMA EmptyReservoirs ==
    ASSUME NEW recs
    PROVE  Reservoirs([key \in Keys |-> <<>>], recs, 0)
  BY ReservoirEmpty DEF Reservoirs

LEMMA FitsNone == Fits(<<>>)
  BY DEF Fits

LEMMA ErsrInitInv == ErsrInit => ErsrInv
  <1> SUFFICES ASSUME ErsrInit PROVE ErsrInv
    OBVIOUS
  <1>1. /\ mode \in {"standalone", "training"} /\ input \in Inputs /\ work = 1 /\ seen = 0
        /\ reservoir = [key \in Keys |-> <<>>]
        /\ phase = IF mode = "training" THEN "select" ELSE "evaluate"
        /\ jobs = <<>>
    BY DEF ErsrInit
  <1>2. ErsrTypes
    <2>1. /\ records = [w \in Works |-> records[w]] /\ cases = [w \in Works |-> cases[w]]
          /\ results = [w \in Works |-> results[w]] /\ trained = [a \in 1..NAgents |-> trained[a]]
      BY DEF ErsrInit, NoCases
    <2> QED BY <1>1, <2>1, WorksAre, FitsNone DEF ErsrTypes
  <1>3. mode = "training" => AreRecords(records[1])
    <2>1. mode = "training" => records[1] = RecordsOf(1, AllQuestions(1))
      BY WorksAre DEF ErsrInit
    <2> QED BY <1>1, <2>1, WorksAre, FirstRecords
  <1>4. ErsrSelections
    <2>1. SelectedWorks = {} /\ RecordedWorks = IF mode = "training" THEN {1} ELSE {}
      BY <1>1 DEF SelectedWorks, RecordedWorks
    <2> QED BY <1>3, <2>1 DEF ErsrSelections
  <1>5. ErsrReservoirs
    <2>1. phase = "select" => AreRecords(records[work])
      BY <1>1, <1>3
    <2>2. phase = "select" => Len(Candidates(records[work])) \in Nat
      BY <2>1, CandidatesAre DEF IsSeq
    <2>3. Reservoirs(reservoir, records[work], 0)
      BY <1>1, EmptyReservoirs
    <2>4. seen = 0 /\ reservoir = [key \in Keys |-> <<>>]
      BY <1>1
    <2>5. phase = "select" => seen <= Len(Candidates(records[work]))
      BY <2>2, <2>4
    <2> QED BY <2>3, <2>4, <2>5 DEF ErsrReservoirs
  <1>6. ErsrAnswers /\ ErsrReports /\ ErsrShares
    <2>1. \A a \in 1..NAgents : trained[a] = <<>>
      BY DEF ErsrInit
    <2> QED BY <1>1, <2>1 DEF ErsrAnswers, ErsrReports, ErsrShares
  <1> QED BY <1>2, <1>4, <1>5, <1>6 DEF ErsrInv

LEMMA EvaluateStep == ErsrInv /\ EvaluateModel => ErsrInv'
  <1> SUFFICES ASSUME ErsrInv, EvaluateModel PROVE ErsrInv'
    OBVIOUS
  <1> DEFINE batches == Batches(AllQuestions(work), QuestionsPerBatch(Len(input[work])))
             new == FlattenSeq([b \in DOMAIN batches |-> RecordsOf(work, batches[b])])
             sizes == [b \in DOMAIN batches |-> Len(batches[b]) * N]
  <1>1. /\ phase = "evaluate" /\ phase' = "select"
        /\ records' = [records EXCEPT ![work] = new] /\ jobs' = sizes
        /\ UNCHANGED <<mode, input, work, seen, reservoir, cases, proposals, replacements,
                       invalid, results, trained>>
    BY DEF EvaluateModel
  <1>2. ErsrTypes /\ ErsrSelections /\ ErsrReservoirs
    BY DEF ErsrInv
  <1>3. work \in Works /\ input \in Inputs
    BY <1>2 DEF ErsrTypes
  <1>4. AreRecords(new) /\ Fits(sizes)
    BY <1>3, QuestionsFit, BatchedRecords
  <1> HIDE DEF batches, new, sizes
  <1>5. /\ records' = [w \in Works |-> records'[w]] /\ records'[work] = new
        /\ \A w \in Works : w # work => records'[w] = records[w]
    <2>1. records = [w \in Works |-> records[w]]
      BY <1>2 DEF ErsrTypes
    <2> QED BY <1>1, <1>3, <2>1
  <1>6. mode = "standalone"
    BY <1>1, <1>2 DEF ErsrTypes
  <1>7. ErsrTypes'
    BY <1>1, <1>2, <1>4, <1>5, <1>6 DEF ErsrTypes
  <1>8. ErsrSelections'
    <2>1. RecordedWorks = 1..(work - 1) /\ RecordedWorks' = 1..work
          /\ SelectedWorks = 1..(work - 1) /\ SelectedWorks' = 1..(work - 1)
      BY <1>1 DEF RecordedWorks, SelectedWorks
    <2>2. \A w \in 1..(work - 1) : w \in Works /\ w # work
      BY <1>3, WorksAre
    <2>3. \A w \in 1..work : w \in 1..(work - 1) \/ w = work
      BY <1>3, WorksAre
    <2>4. \A w \in 1..work : AreRecords(records'[w])
      BY <1>2, <1>4, <1>5, <2>1, <2>2, <2>3 DEF ErsrSelections
    <2>5. \A w \in 1..(work - 1) : IsSelection(records'[w], cases'[w])
      BY <1>1, <1>2, <1>5, <2>1, <2>2 DEF ErsrSelections
    <2> QED BY <2>1, <2>4, <2>5 DEF ErsrSelections
  <1>9. ErsrReservoirs'
    <2>1. seen' = 0 /\ reservoir' = [key \in Keys |-> <<>>] /\ work' = work
      BY <1>1, <1>2 DEF ErsrReservoirs
    <2>2. Reservoirs(reservoir', records'[work], 0)
      BY <2>1, EmptyReservoirs
    <2>3. Len(Candidates(new)) \in Nat
      BY <1>4, CandidatesAre DEF IsSeq
    <2>4. seen' <= Len(Candidates(records'[work']))
      BY <1>5, <2>1, <2>3
    <2> QED BY <1>1, <2>1, <2>2, <2>4 DEF ErsrReservoirs
  <1>10. ErsrAnswers' /\ ErsrReports' /\ ErsrShares'
    <2>1. \A a \in 1..NAgents : trained'[a] = <<>>
      BY <1>1 DEF ErsrInv, ErsrShares
    <2> QED BY <1>1, <1>6, <2>1 DEF ErsrAnswers, ErsrReports, ErsrShares
  <1> QED BY <1>7, <1>8, <1>9, <1>10 DEF ErsrInv

LEMMA ConsiderStep == ErsrInv /\ Consider => ErsrInv'
  <1> SUFFICES ASSUME ErsrInv, Consider PROVE ErsrInv'
    OBVIOUS
  <1> DEFINE recs == records[work]
             all == Candidates(recs)
             c == all[seen + 1]
             rows == reservoir[c.key]
  <1>1. /\ phase = "select" /\ seen < Len(all) /\ seen' = seen + 1
        /\ \/ /\ Len(rows) < StepCap
              /\ reservoir' = [reservoir EXCEPT ![c.key] = Append(rows, c)]
           \/ /\ Len(rows) >= StepCap
              /\ \E i \in Nat \ {0} : reservoir' = [reservoir EXCEPT ![c.key] = Replaced(rows, c, i)]
        /\ UNCHANGED <<mode, input, phase, work, records, cases, proposals, replacements,
                       invalid, results, jobs, trained>>
    <2> DEFINE available == Cardinality({i \in 1..(seen + 1) : all[i].key = c.key})
    <2>1. available \in Nat
      <3>1. seen + 1 \in Nat
        BY DEF ErsrInv, ErsrTypes
      <3>2. {i \in 1..(seen + 1) : all[i].key = c.key} = CountsOf(all, seen + 1, c.key)
        BY DEF CountsOf
      <3> HIDE DEF all, c
      <3>3. Cardinality(CountsOf(all, seen + 1, c.key)) \in Nat
        BY ONLY <3>1, CountsGrow
      <3> QED BY <3>2, <3>3
    <2>2. \A i \in 1..available : i \in Nat \ {0}
      BY <2>1
    <2>3. /\ phase = "select" /\ seen < Len(all) /\ seen' = seen + 1
          /\ \/ /\ Len(rows) < StepCap
                /\ reservoir' = [reservoir EXCEPT ![c.key] = Append(rows, c)]
             \/ /\ Len(rows) >= StepCap
                /\ \E i \in 1..available : reservoir' = [reservoir EXCEPT ![c.key] = Replaced(rows, c, i)]
          /\ UNCHANGED <<mode, input, phase, work, records, cases, proposals, replacements,
                         invalid, results, jobs, trained>>
      BY DEF Consider
    <2> HIDE DEF available
    <2> QED BY <2>2, <2>3
  <1>2. ErsrTypes /\ ErsrSelections /\ ErsrReservoirs /\ ErsrAnswers /\ ErsrReports /\ ErsrShares
    BY DEF ErsrInv
  <1>3. ErsrTypes'
    <2>1. seen' \in Nat
      BY <1>1, <1>2 DEF ErsrTypes
    <2> QED BY <1>1, <1>2, <2>1 DEF ErsrTypes
  <1>4. ErsrSelections' /\ ErsrAnswers' /\ ErsrReports' /\ ErsrShares'
    <2>1. RecordedWorks' = RecordedWorks /\ SelectedWorks' = SelectedWorks
      BY <1>1 DEF RecordedWorks, SelectedWorks, EvaluatedWorks
    <2>2. ErsrSelections'
      BY <1>1, <1>2, <2>1 DEF ErsrSelections
    <2> QED BY <1>1, <1>2, <2>2 DEF ErsrAnswers, ErsrReports, ErsrShares
  <1>5. ErsrReservoirs'
    <2>1. AreRecords(recs) /\ Reservoirs(reservoir, recs, seen) /\ seen \in Nat
      <3>1. RecordedWorks = 1..work
        BY <1>1 DEF RecordedWorks
      <3>2. work \in 1..work /\ seen \in Nat
        BY <1>2, WorksAre DEF ErsrTypes
      <3> QED BY <1>1, <1>2, <3>1, <3>2 DEF ErsrSelections, ErsrReservoirs
    <2> HIDE DEF recs
    <2>2. IsSeq(all) /\ Once(all) /\ Len(all) \in Nat
      BY <2>1, CandidatesAre DEF IsSeq
    <2>3. c.key \in Keys
      <3>1. Has(all, c)
        BY <1>1, <2>1, <2>2 DEF Has
      <3>2. IsCandidate(recs, c)
        <4> HIDE DEF c
        <4> QED BY <2>1, <3>1, CandidatesAre DEF IsCandidate
      <3> QED BY <3>2, CandidateIs
    <2>4. reservoir = [key \in Keys |-> reservoir[key]] /\ \A key \in Keys : IsReservoir(reservoir[key], all, seen, key)
      BY <2>1 DEF Reservoirs
    <2>5. \A key \in Keys :
             /\ c.key # key => IsReservoir(reservoir[key], all, seen + 1, key)
             /\ c.key = key /\ Len(rows) < StepCap => IsReservoir(Append(rows, c), all, seen + 1, key)
             /\ c.key = key /\ Len(rows) >= StepCap =>
                   \A i \in Nat \ {0} : IsReservoir(Replaced(rows, c, i), all, seen + 1, key)
      <3> TAKE key \in Keys
      <3>1. IsReservoir(reservoir[key], all, seen, key)
        BY <2>4
      <3> HIDE DEF all
      <3>2. /\ c.key # key => IsReservoir(reservoir[key], all, seen + 1, key)
            /\ c.key = key /\ Len(reservoir[key]) < StepCap =>
                  IsReservoir(Append(reservoir[key], c), all, seen + 1, key)
            /\ c.key = key /\ Len(reservoir[key]) >= StepCap =>
                   \A i \in Nat \ {0} : IsReservoir(Replaced(reservoir[key], c, i), all, seen + 1, key)
        BY <1>1, <2>1, <2>2, <3>1, ReservoirGrows
      <3> QED BY <3>2
    <2> HIDE DEF all, c
    <2>6. reservoir' = [key \in Keys |-> reservoir'[key]]
      BY <1>1, <2>4
    <2>7. \A key \in Keys : IsReservoir(reservoir'[key], all, seen + 1, key)
      <3>1. CASE Len(rows) < StepCap /\ reservoir' = [reservoir EXCEPT ![c.key] = Append(rows, c)]
        <4>1. \A key \in Keys : reservoir'[key] = IF key = c.key THEN Append(rows, c) ELSE reservoir[key]
          BY <2>4, <3>1
        <4> HIDE DEF rows
        <4> QED BY <2>5, <3>1, <4>1
      <3>2. CASE /\ Len(rows) >= StepCap
                 /\ \E i \in Nat \ {0} : reservoir' = [reservoir EXCEPT ![c.key] = Replaced(rows, c, i)]
        <4>0. PICK i \in Nat \ {0} : reservoir' = [reservoir EXCEPT ![c.key] = Replaced(rows, c, i)]
          BY <3>2
        <4>1. \A key \in Keys : reservoir'[key] = IF key = c.key THEN Replaced(rows, c, i) ELSE reservoir[key]
          BY <2>4, <4>0
        <4> HIDE DEF rows
        <4> QED BY <2>5, <3>2, <4>1
      <3> QED BY <1>1, <3>1, <3>2
    <2>8. Reservoirs(reservoir', recs, seen + 1)
      BY <2>6, <2>7 DEF Reservoirs, all
    <2>9. records'[work'] = recs /\ seen' = seen + 1
      BY <1>1 DEF recs
    <2>10. seen' <= Len(Candidates(records'[work']))
      BY <1>1, <2>1, <2>2, <2>9 DEF all
    <2> QED BY <1>1, <2>8, <2>9, <2>10 DEF ErsrReservoirs
  <1> QED BY <1>3, <1>4, <1>5 DEF ErsrInv

LEMMA SelectStep == ErsrInv /\ Select => ErsrInv'
  <1> SUFFICES ASSUME ErsrInv, Select PROVE ErsrInv'
    OBVIOUS
  <1> DEFINE recs == records[work]
             all == Candidates(recs)
  <1>1. /\ phase = "select" /\ seen = Len(all) /\ seen' = 0 /\ reservoir' = [k \in Keys |-> <<>>]
        /\ IF mode = "training" THEN phase' = "training" /\ UNCHANGED work
           ELSE IF work < NWorks THEN phase' = "evaluate" /\ work' = work + 1
           ELSE phase' = "teacher" /\ work' = 1
        /\ UNCHANGED <<mode, input, records, proposals, replacements, invalid, results, jobs, trained>>
    BY DEF Select
  <1>2. PICK perm \in [DOMAIN Series -> UNION {Bijection(DOMAIN reservoir[k], DOMAIN reservoir[k]) : k \in Keys}] :
           /\ \A s \in DOMAIN Series : DOMAIN perm[s] = DOMAIN reservoir[Series[s]]
           /\ cases' = [cases EXCEPT ![work] = Selected(perm)]
    BY DEF Select
  <1>3. ErsrTypes /\ ErsrSelections /\ ErsrReservoirs /\ ErsrAnswers /\ ErsrReports /\ ErsrShares
    BY DEF ErsrInv
  <1>4. AreRecords(recs) /\ Reservoirs(reservoir, recs, Len(all)) /\ work \in Works /\ work \in 1..work
    <2>1. RecordedWorks = 1..work
      BY <1>1 DEF RecordedWorks
    <2>2. work \in 1..work /\ work \in Works
      BY <1>3, WorksAre DEF ErsrTypes
    <2> QED BY <1>1, <1>3, <2>1, <2>2 DEF ErsrSelections, ErsrReservoirs
  <1>5. IsSelection(recs, Selected(perm))
    <2> HIDE DEF recs
    <2> QED BY <1>2, <1>4, SelectionIs
  <1> DEFINE chosen == Selected(perm)
  <1>6. /\ cases' = [w \in Works |-> cases'[w]] /\ cases'[work] = chosen
        /\ \A w \in Works : w # work => cases'[w] = cases[w]
    <2>1. cases = [w \in Works |-> cases[w]] /\ cases' = [cases EXCEPT ![work] = chosen]
      BY <1>2, <1>3 DEF ErsrTypes
    <2> HIDE DEF chosen
    <2> QED BY <1>4, <2>1
  <1> HIDE DEF chosen
  <1>7. IsSelection(records'[work], cases'[work])
    BY <1>1, <1>5, <1>6 DEF chosen
  <1>8. SelectedWorks' = 1..work /\ RecordedWorks' = 1..work
    <2>1. NWorks \in Nat \ {0} /\ work \in 1..NWorks
      BY <1>4, WorksAre
    <2>2. CASE mode = "training"
      <3>1. work = 1 /\ mode' = "training" /\ phase' = "training"
        BY <1>1, <1>3, <2>2 DEF ErsrTypes
      <3> QED BY <3>1 DEF SelectedWorks, RecordedWorks, EvaluatedWorks
    <2>3. CASE mode # "training" /\ work < NWorks
      <3>1. phase' = "evaluate" /\ work' = work + 1 /\ work' - 1 = work
        BY <1>1, <2>1, <2>3
      <3> QED BY <3>1 DEF SelectedWorks, RecordedWorks
    <2>4. CASE mode # "training" /\ ~(work < NWorks)
      <3>1. phase' = "teacher" /\ work = NWorks /\ mode' # "training"
        BY <1>1, <2>1, <2>4
      <3> QED BY <3>1, WorksAre DEF SelectedWorks, RecordedWorks, EvaluatedWorks
    <2> QED BY <2>2, <2>3, <2>4
  <1>9. ErsrSelections'
    <2>1. RecordedWorks = 1..work /\ SelectedWorks = 1..(work - 1)
      BY <1>1 DEF RecordedWorks, SelectedWorks
    <2>2. \A w \in 1..work : w \in Works /\ (w = work \/ (w \in 1..(work - 1) /\ w # work))
      BY <1>4, WorksAre
    <2>3. \A w \in 1..work : AreRecords(records'[w]) /\ IsSelection(records'[w], cases'[w])
      BY <1>1, <1>3, <1>6, <1>7, <2>1, <2>2 DEF ErsrSelections
    <2> QED BY <1>8, <2>3 DEF ErsrSelections
  <1>10. ErsrTypes'
    <2>1. work' \in Works /\ (mode' = "training" => work' = 1)
      BY <1>1, <1>3, <1>4, WorksAre DEF ErsrTypes
    <2>2. phase' \in IF mode' = "training" THEN {"select", "training", "done"}
                     ELSE {"evaluate", "select", "teacher", "student", "done", "raised"}
      BY <1>1
    <2>3. seen' \in Nat
      BY <1>1
    <2> QED BY <1>1, <1>3, <1>6, <2>1, <2>2, <2>3 DEF ErsrTypes
  <1>11. ErsrReservoirs'
    BY <1>1 DEF ErsrReservoirs
  <1>12. ErsrAnswers' /\ ErsrReports'
    <2>1. phase' \notin {"student", "done"} /\ (phase' = "teacher" => work' = 1)
      BY <1>1
    <2> QED BY <2>1 DEF ErsrAnswers, ErsrReports
  <1>13. ErsrShares'
    <2>1. \A a \in 1..NAgents : trained'[a] = <<>>
      BY <1>1, <1>3 DEF ErsrShares
    <2>2. IsSeq(<<>>) /\ 1..Len(<<>>) = {}
      BY DEF IsSeq
    <2>3. \A a \in 1..NAgents : Training(a, trained[a])'
      BY <2>1, <2>2 DEF Training
    <2> QED BY <2>1, <2>3 DEF ErsrShares
  <1> QED BY <1>9, <1>10, <1>11, <1>12, <1>13 DEF ErsrInv

\* The cases of a model that selection is done with.
LEMMA SelectedAre ==
    ASSUME ErsrInv, NEW w \in SelectedWorks
    PROVE  AreRecords(records[w]) /\ IsSelection(records[w], cases[w]) /\ AreCases(cases[w])
  <1>1. w \in RecordedWorks
    <2>1. CASE phase = "select"
      <3>1. w \in 1..(work - 1) /\ work \in Works
        BY <2>1 DEF SelectedWorks, ErsrInv, ErsrTypes
      <3>2. w \in 1..work
        BY <3>1, WorksAre
      <3> QED BY <2>1, <3>2 DEF RecordedWorks
    <2>2. CASE phase # "select"
      BY <2>2 DEF RecordedWorks
    <2> QED BY <2>1, <2>2
  <1>2. AreRecords(records[w]) /\ IsSelection(records[w], cases[w])
    BY <1>1 DEF ErsrInv, ErsrSelections
  <1>3. AreCases(cases[w])
    <2> DEFINE recs == records[w]
               cs == cases[w]
    <2> HIDE DEF recs, cs
    <2>1. AreRecords(recs) /\ IsSelection(recs, cs) => AreCases(cs)
      BY SelectedCases
    <2> QED BY <1>2, <2>1 DEF recs, cs
  <1> QED BY <1>2, <1>3

LEMMA TeacherStep == ErsrInv /\ Teacher => ErsrInv'
  <1> SUFFICES ASSUME ErsrInv, Teacher PROVE ErsrInv'
    OBVIOUS
  <1> DEFINE requests == TeacherRequests
             output == GenerationPhase(requests)
             asked == {Completion(requests[k]) : k \in DOMAIN requests}
             skips(w, oracle) ==
                LET skipped == Only(TeacherCases(w),
                                 {c \in Range(TeacherCases(w)) : Reason(w, c, output, oracle) # ""})
                IN  [i \in DOMAIN skipped |-> Skip(skipped[i], Reason(w, skipped[i], output, oracle))]
             steps(w, oracle) ==
                LET kept == {c \in Range(TeacherCases(w)) : Reason(w, c, output, oracle) = ""}
                IN  [id \in {CaseId(c) : c \in kept} |->
                        LET c == CHOOSE x \in kept : CaseId(x) = id
                        IN  FirstStep(output[TeacherId(w, c)], oracle)]
  <1>1. /\ phase = "teacher" /\ phase' = "student" /\ jobs' = JobSizes(requests)
        /\ UNCHANGED <<mode, input, work, records, seen, reservoir, cases, results, trained>>
    BY DEF Teacher
  <1>2. PICK oracle \in [asked -> -1..MaxTeacher] :
           /\ proposals' = oracle
           /\ invalid' = [w \in Works |-> skips(w, oracle)]
           /\ replacements' = [w \in Works |-> steps(w, oracle)]
    BY DEF Teacher
  <1>3. ErsrTypes /\ ErsrSelections /\ ErsrReservoirs /\ ErsrAnswers /\ ErsrReports /\ ErsrShares
    BY DEF ErsrInv
  <1>4. mode = "standalone" /\ work = 1
    BY <1>1, <1>3 DEF ErsrTypes, ErsrReports
  <1>5. SelectedWorks = Works /\ SelectedWorks' = Works /\ RecordedWorks = Works /\ RecordedWorks' = Works
    BY <1>1, <1>4 DEF SelectedWorks, RecordedWorks, EvaluatedWorks
  <1>6. \A w \in Works : AreCases(cases[w])
    BY <1>5, SelectedAre
  <1>7. \A w \in Works : Skips(cases[w], skips(w, oracle), oracle)
    BY <1>6, TeacherSkips
  <1>8. \A w \in Works : NewSteps(cases[w], steps(w, oracle), oracle)
    BY <1>6, TeacherSteps
  <1>9. Fits(JobSizes(requests))
    BY <1>6, TeacherRequestsAre, RequestsFit
  <1> HIDE DEF requests, output, asked, skips, steps
  <1>10. ErsrTypes'
    BY <1>1, <1>3, <1>4, <1>9 DEF ErsrTypes
  <1>11. ErsrSelections'
    BY <1>1, <1>3, <1>5 DEF ErsrSelections
  <1>12. ErsrAnswers'
    BY <1>1, <1>2, <1>7, <1>8 DEF ErsrAnswers
  <1>13. ErsrReservoirs' /\ ErsrReports' /\ ErsrShares'
    BY <1>1, <1>3, <1>4 DEF ErsrReservoirs, ErsrReports, ErsrShares
  <1> QED BY <1>10, <1>11, <1>12, <1>13 DEF ErsrInv

LEMMA StudentStep == ErsrInv /\ Student => ErsrInv'
  <1> SUFFICES ASSUME ErsrInv, Student PROVE ErsrInv'
    OBVIOUS
  <1> DEFINE kept == StudentCases(work)
             output == GenerationPhase(StudentRequests(work))
             report == Reported(work, [i \in DOMAIN kept |->
                Valid(kept[i], ArmValue(kept[i], Before(kept[i]), BaselineRequests(kept[i]), output),
                               ArmValue(kept[i], ActionOf(work, kept[i]), ActionRequests(work, kept[i]), output))])
  <1>1. /\ phase = "student" /\ jobs' = JobSizes(StudentRequests(work))
        /\ results' = [results EXCEPT ![work] = report]
        /\ work' = IF work < NWorks THEN work + 1 ELSE work
        /\ phase' = IF work < NWorks THEN "student" ELSE "done"
        /\ UNCHANGED <<mode, input, records, seen, reservoir, cases, proposals, replacements,
                       invalid, trained>>
    BY DEF Student
  <1>2. ErsrTypes /\ ErsrSelections /\ ErsrReservoirs /\ ErsrAnswers /\ ErsrReports /\ ErsrShares
    BY DEF ErsrInv
  <1>3. mode = "standalone" /\ work \in Works
    BY <1>1, <1>2 DEF ErsrTypes
  <1>4. SelectedWorks = Works /\ SelectedWorks' = Works /\ RecordedWorks = Works /\ RecordedWorks' = Works
    BY <1>1, <1>3 DEF SelectedWorks, RecordedWorks, EvaluatedWorks
  <1>5. /\ AreCases(cases[work]) /\ Skips(cases[work], invalid[work], proposals)
        /\ NewSteps(cases[work], replacements[work], proposals)
    BY <1>1, <1>2, <1>3, <1>4, SelectedAre DEF ErsrAnswers
  <1>6. Report(cases[work], report, proposals)
    BY <1>3, <1>5, StudentReport
  <1>7. Fits(JobSizes(StudentRequests(work)))
    BY <1>5, StudentRequestsAre, RequestsFit
  <1> HIDE DEF kept, output, report
  <1>8. /\ results' = [w \in Works |-> results'[w]] /\ results'[work] = report
        /\ \A w \in Works : w # work => results'[w] = results[w]
    <2>1. results = [w \in Works |-> results[w]]
      BY <1>2 DEF ErsrTypes
    <2> QED BY <1>1, <1>3, <2>1
  <1>9. NWorks \in Nat \ {0} /\ work \in 1..NWorks /\ Works = 1..NWorks
    BY <1>3, WorksAre
  <1>10. ErsrTypes'
    <2>1. work' \in Works
      BY <1>1, <1>9
    <2>2. phase' \in {"student", "done"}
      BY <1>1
    <2> QED BY <1>1, <1>2, <1>3, <1>7, <1>8, <2>1, <2>2 DEF ErsrTypes
  <1>11. ErsrSelections'
    BY <1>1, <1>2, <1>4 DEF ErsrSelections
  <1>12. ErsrAnswers'
    BY <1>1, <1>2, <1>3 DEF ErsrAnswers
  <1>13. ErsrReservoirs'
    BY <1>1 DEF ErsrReservoirs
  <1>14. ErsrShares'
    <2>1. \A a \in 1..NAgents : trained'[a] = <<>>
      BY <1>1, <1>2 DEF ErsrShares
    <2> QED BY <1>1, <2>1 DEF ErsrShares
  <1>15. \A w \in 1..work : Report(cases'[w], results'[w], proposals')
    <2>1. \A w \in 1..work : w = work \/ (w \in 1..(work - 1) /\ w # work /\ w \in Works)
      BY <1>9
    <2>2. \A w \in 1..(work - 1) : Report(cases[w], results[w], proposals)
      BY <1>1, <1>2, <1>3 DEF ErsrReports
    <2> QED BY <1>1, <1>6, <1>8, <2>1, <2>2
  <1>16. ErsrReports'
    <2>1. CASE work < NWorks
      <3>1. phase' = "student" /\ work' = work + 1 /\ work' - 1 = work
        BY <1>1, <1>9, <2>1
      <3> QED BY <1>15, <3>1 DEF ErsrReports
    <2>2. CASE ~(work < NWorks)
      <3>1. phase' = "done" /\ mode' = "standalone" /\ work = NWorks
        BY <1>1, <1>3, <1>9, <2>2
      <3> QED BY <1>9, <1>15, <3>1 DEF ErsrReports
    <2> QED BY <2>1, <2>2
  <1> QED BY <1>10, <1>11, <1>12, <1>13, <1>14, <1>16 DEF ErsrInv

LEMMA PhaseFailsStep == ErsrInv /\ PhaseFails => ErsrInv'
  <1> SUFFICES ASSUME ErsrInv, PhaseFails PROVE ErsrInv'
    OBVIOUS
  <1>1. /\ phase \in {"evaluate", "teacher", "student"} /\ phase' = "raised"
        /\ UNCHANGED <<mode, input, work, records, seen, reservoir, cases, proposals, replacements,
                       invalid, results, jobs, trained>>
    BY DEF PhaseFails
  <1>2. ErsrTypes /\ ErsrShares
    BY DEF ErsrInv
  <1>3. mode = "standalone"
    BY <1>1, <1>2 DEF ErsrTypes
  <1>4. ErsrTypes'
    BY <1>1, <1>2, <1>3 DEF ErsrTypes
  <1>5. ErsrSelections'
    <2>1. SelectedWorks' = {} /\ RecordedWorks' = {}
      BY <1>1 DEF SelectedWorks, RecordedWorks
    <2> QED BY <2>1 DEF ErsrSelections
  <1>6. ErsrReservoirs' /\ ErsrAnswers' /\ ErsrReports'
    BY <1>1 DEF ErsrReservoirs, ErsrAnswers, ErsrReports
  <1>7. ErsrShares'
    BY <1>1, <1>2 DEF ErsrShares
  <1> QED BY <1>4, <1>5, <1>6, <1>7 DEF ErsrInv

LEMMA TrainStep == ASSUME ErsrInv, NEW a \in 1..NAgents, TrainCase(a) PROVE ErsrInv'
  <1> DEFINE list == trained[a]
             next == Len(list) + 1
             c == Assigned(a)[next]
             request == [ids |-> Before(c), max |-> TeacherBudget(c), seed |-> c.seed + 5000]
  <1>1. /\ phase = "training" /\ next <= Len(Assigned(a))
        /\ UNCHANGED <<mode, input, phase, work, records, seen, reservoir, cases, replacements,
                       invalid, results, jobs>>
    BY DEF TrainCase
  <1>2. \/ c.key[2] = "student_action" /\ trained' = [trained EXCEPT ![a] = Append(@, EvaluateCase(c, proposals))]
        \/ /\ c.key[2] = "teacher_replace"
           /\ \E length \in Outcomes(request) \ {-1} :
                /\ proposals' = Answered(Completion(request), length)
                /\ trained' = [trained EXCEPT ![a] = Append(@, EvaluateCase(c, proposals'))]
        \/ trained' = [trained EXCEPT ![a] = Append(@, Skip(c, "evaluation_error"))]
    BY DEF TrainCase
  <1>3. ErsrTypes /\ ErsrSelections /\ ErsrReservoirs /\ ErsrAnswers /\ ErsrReports /\ ErsrShares
    BY DEF ErsrInv
  <1>4. mode = "training"
    BY <1>1, <1>3 DEF ErsrTypes
  <1>5. SelectedWorks = {1} /\ RecordedWorks = {1} /\ SelectedWorks' = {1} /\ RecordedWorks' = {1}
    BY <1>1, <1>4 DEF SelectedWorks, RecordedWorks, EvaluatedWorks
  <1>6. AreCases(cases[1])
    BY <1>5, SelectedAre
  <1>7. Training(a, list)
    BY <1>1, <1>3 DEF ErsrShares
  <1>8. c.key[2] \in {"student_action", "teacher_replace"} /\ TeacherBudget(c) \in Int
    <2>1. Len(list) \in Nat
      BY <1>7 DEF Training, IsSeq
    <2>2. IsSeq(Assigned(a))
      BY <1>6, AssignedAre
    <2>3. next \in 1..Len(Assigned(a))
      BY <1>1, <2>1, <2>2 DEF IsSeq
    <2>4. Has(Assigned(a), c)
      BY <2>3 DEF Has
    <2>5. Has(cases[1], c)
      BY <1>6, <2>4, SharesAre
    <2> HIDE DEF c
    <2> QED BY <1>6, <2>5, CasesDiffer
  <1>9. \E x : x.id = CaseId(c) /\ trained' = [trained EXCEPT ![a] = Append(list, x)]
    <2>1. CASE c.key[2] = "student_action" /\ trained' = [trained EXCEPT ![a] = Append(@, EvaluateCase(c, proposals))]
      <3>1. EvaluateCase(c, proposals).id = CaseId(c)
        <4> HIDE DEF c
        <4> QED BY <1>8, <2>1, NamedAlone
      <3> QED BY <2>1, <3>1
    <2>2. CASE /\ c.key[2] = "teacher_replace"
               /\ \E length \in Outcomes(request) \ {-1} :
                    /\ proposals' = Answered(Completion(request), length)
                    /\ trained' = [trained EXCEPT ![a] = Append(@, EvaluateCase(c, proposals'))]
      <3>1. PICK length \in Outcomes(request) \ {-1} :
                    /\ proposals' = Answered(Completion(request), length)
                    /\ trained' = [trained EXCEPT ![a] = Append(@, EvaluateCase(c, proposals'))]
        BY <2>2
      <3>2. request.max = TeacherBudget(c) /\ Completion(request) = Asked(c)
        BY DEF Asked
      <3>3. length \in Int /\ length >= -1
        <4> HIDE DEF request, c
        <4>1. length \in -1..TeacherBudget(c)
          BY <3>2 DEF Outcomes
        <4> QED BY <1>8, <4>1
      <3>4. proposals'[Asked(c)] = length
        <4> HIDE DEF request, c
        <4> QED BY <3>1, <3>2 DEF Answered
      <3>5. EvaluateCase(c, proposals').id = CaseId(c)
        <4> HIDE DEF c, request
        <4> DEFINE oracle == proposals'
        <4>1. oracle[Asked(c)] \in Int /\ oracle[Asked(c)] >= -1
          BY <3>3, <3>4
        <4> HIDE DEF oracle
        <4>2. EvaluateCase(c, oracle).id = CaseId(c)
          BY <1>8, <4>1, NamedAlone
        <4> QED BY <4>2 DEF oracle
      <3>6. trained' = [trained EXCEPT ![a] = Append(list, EvaluateCase(c, proposals'))]
        BY <3>1
      <3> DEFINE v == EvaluateCase(c, proposals')
      <3>7. v.id = CaseId(c) /\ trained' = [trained EXCEPT ![a] = Append(list, v)]
        BY <3>5, <3>6
      <3> HIDE DEF v, c, list, request
      <3> QED BY <3>7
    <2>3. CASE trained' = [trained EXCEPT ![a] = Append(@, Skip(c, "evaluation_error"))]
      <3>1. Skip(c, "evaluation_error").id = CaseId(c)
        BY DEF Skip
      <3> QED BY <2>3, <3>1
    <2> QED BY <1>2, <2>1, <2>2, <2>3
  <1>10. PICK x : x.id = CaseId(c) /\ trained' = [trained EXCEPT ![a] = Append(list, x)]
    BY <1>9
  <1>11. Training(a, Append(list, x))
    <2> HIDE DEF list
    <2> QED BY <1>1, <1>6, <1>7, <1>10, TrainedCase
  <1>12. /\ trained' = [b \in 1..NAgents |-> trained'[b]] /\ trained'[a] = Append(list, x)
         /\ \A b \in 1..NAgents : b # a => trained'[b] = trained[b]
    <2>1. trained = [b \in 1..NAgents |-> trained[b]]
      BY <1>3 DEF ErsrTypes
    <2> HIDE DEF list
    <2> QED BY <1>10, <2>1
  <1>13. ErsrShares'
    <2>1. \A b \in 1..NAgents : Assigned(b)' = Assigned(b)
      BY <1>1 DEF Assigned
    <2>2. \A b \in 1..NAgents : Training(b, trained'[b])
      BY <1>1, <1>3, <1>11, <1>12 DEF ErsrShares
    <2>3. \A b \in 1..NAgents : Training(b, trained[b])'
      BY <2>1, <2>2 DEF Training
    <2> QED BY <1>1, <2>3 DEF ErsrShares
  <1>14. ErsrTypes'
    BY <1>1, <1>3, <1>12 DEF ErsrTypes
  <1>15. ErsrSelections'
    BY <1>1, <1>3, <1>5 DEF ErsrSelections
  <1>16. ErsrReservoirs' /\ ErsrAnswers' /\ ErsrReports'
    BY <1>1 DEF ErsrReservoirs, ErsrAnswers, ErsrReports
  <1> QED BY <1>13, <1>14, <1>15, <1>16 DEF ErsrInv

LEMMA GatherStep == ErsrInv /\ Gather => ErsrInv'
  <1> SUFFICES ASSUME ErsrInv, Gather PROVE ErsrInv'
    OBVIOUS
  <1>1. /\ phase = "training" /\ phase' = "done"
        /\ \A a \in 1..NAgents : Len(trained[a]) = Len(Assigned(a))
        /\ results' = [results EXCEPT ![1] = FlattenSeq(trained)]
        /\ UNCHANGED <<mode, input, work, records, seen, reservoir, cases, proposals, replacements,
                       invalid, jobs, trained>>
    BY DEF Gather
  <1>2. ErsrTypes /\ ErsrSelections /\ ErsrShares
    BY DEF ErsrInv
  <1>3. mode = "training"
    BY <1>1, <1>2 DEF ErsrTypes
  <1>4. SelectedWorks = {1} /\ RecordedWorks = {1} /\ SelectedWorks' = {1} /\ RecordedWorks' = {1}
    BY <1>1, <1>3 DEF SelectedWorks, RecordedWorks, EvaluatedWorks
  <1>5. AreCases(cases[1])
    BY <1>4, SelectedAre
  <1>6. \A a \in 1..NAgents : Training(a, trained[a]) /\ Len(trained[a]) = Len(Assigned(a))
    BY <1>1, <1>2 DEF ErsrShares
  <1>7. trained = [a \in 1..NAgents |-> trained[a]]
    BY <1>2 DEF ErsrTypes
  <1> DEFINE u == FlattenSeq(trained)
  <1>8. Names(cases[1], u)
    BY <1>5, <1>6, <1>7, GatheredReport
  <1> HIDE DEF u
  <1>9. results' = [w \in Works |-> results'[w]] /\ results'[1] = u
    <2>1. results = [w \in Works |-> results[w]] /\ 1 \in Works
      BY <1>2, WorksAre DEF ErsrTypes
    <2> QED BY <1>1, <2>1 DEF u
  <1>10. ErsrTypes'
    BY <1>1, <1>2, <1>3, <1>9 DEF ErsrTypes
  <1>11. ErsrSelections'
    BY <1>1, <1>2, <1>4 DEF ErsrSelections
  <1>12. ErsrReservoirs' /\ ErsrAnswers' /\ ErsrShares'
    BY <1>1, <1>3 DEF ErsrReservoirs, ErsrAnswers, ErsrShares
  <1>13. ErsrReports'
    BY <1>1, <1>3, <1>8, <1>9 DEF ErsrReports
  <1> QED BY <1>10, <1>11, <1>12, <1>13 DEF ErsrInv

-----------------------------------------------------------------------------
\* The three invariants.

LEMMA ErsrInvariance == ErsrSpec => []ErsrInv
  <1>1. ErsrInit => ErsrInv
    BY ErsrInitInv
  <1>2. ErsrInv /\ [ErsrNext]_ersrVars => ErsrInv'
    <2> SUFFICES ASSUME ErsrInv, [ErsrNext]_ersrVars PROVE ErsrInv'
      OBVIOUS
    <2>1. CASE EvaluateModel
      BY <2>1, EvaluateStep
    <2>2. CASE Consider
      BY <2>2, ConsiderStep
    <2>3. CASE Select
      BY <2>3, SelectStep
    <2>4. CASE Teacher
      BY <2>4, TeacherStep
    <2>5. CASE Student
      BY <2>5, StudentStep
    <2>6. CASE PhaseFails
      BY <2>6, PhaseFailsStep
    <2>7. ASSUME NEW a \in 1..NAgents, TrainCase(a) PROVE ErsrInv'
      BY <2>7, TrainStep
    <2>8. CASE Gather
      BY <2>8, GatherStep
    <2>9. CASE UNCHANGED ersrVars
      <3>1. UNCHANGED <<mode, input, phase, work, records, seen, reservoir, cases, proposals,
                        replacements, invalid, results, jobs, trained>>
        BY <2>9 DEF ersrVars
      <3>2. SelectedWorks' = SelectedWorks
        BY <3>1 DEF SelectedWorks, EvaluatedWorks
      <3>3. RecordedWorks' = RecordedWorks
        BY <3>1, <3>2 DEF RecordedWorks
      <3>4. \A a \in 1..NAgents : Training(a, trained[a])' <=> Training(a, trained[a])
        BY <3>1 DEF Training, Assigned
      <3>5. ErsrTypes' /\ ErsrSelections' /\ ErsrReservoirs'
        BY <3>1, <3>2, <3>3 DEF ErsrInv, ErsrTypes, ErsrSelections, ErsrReservoirs
      <3>6. ErsrAnswers' /\ ErsrReports'
        BY <3>1 DEF ErsrInv, ErsrAnswers, ErsrReports
      <3>7. ErsrShares'
        BY <3>1, <3>4 DEF ErsrInv, ErsrShares
      <3> QED BY <3>5, <3>6, <3>7 DEF ErsrInv
    <2> QED BY <2>1, <2>2, <2>3, <2>4, <2>5, <2>6, <2>7, <2>8, <2>9 DEF ErsrNext
  <1> QED BY <1>1, <1>2, PTL DEF ErsrSpec

\* What has been evaluated is reported under the names of its cases.
LEMMA ReportIs ==
    ASSUME ErsrInv, phase = "done", NEW w \in EvaluatedWorks
    PROVE  /\ AreCases(cases[w]) /\ Names(cases[w], results[w])
           /\ mode = "standalone" => Report(cases[w], results[w], proposals)
  <1>1. ErsrTypes /\ ErsrReports
    BY DEF ErsrInv
  <1>2. w \in SelectedWorks
    BY DEF SelectedWorks
  <1>3. AreCases(cases[w])
    BY <1>2, SelectedAre
  <1>4. CASE mode = "standalone"
    <2>1. w \in Works
      BY <1>4 DEF EvaluatedWorks
    <2>2. Report(cases[w], results[w], proposals)
      BY <1>1, <1>4, <2>1 DEF ErsrReports
    <2> QED BY <1>3, <2>2 DEF Report
  <1>5. CASE mode = "training"
    <2>1. w = 1
      BY <1>5 DEF EvaluatedWorks
    <2> QED BY <1>1, <1>3, <1>5, <2>1 DEF ErsrReports
  <1> QED BY <1>1, <1>4, <1>5 DEF ErsrTypes

\* EachCaseIsReportedOnce: evaluate_ersr_student and the trainer's gathering of
\* its workers' results name every selected case once, for any number of models,
\* questions, rollouts, GPUs and workers.
THEOREM CasesReported == ErsrSpec => []EachCaseIsReportedOnce
  <1>1. ErsrInv => EachCaseIsReportedOnce
    <2> SUFFICES ASSUME ErsrInv, phase = "done", NEW w \in EvaluatedWorks
                 PROVE  /\ {results[w][i].id : i \in DOMAIN results[w]} = {CaseId(cases[w][i]) : i \in DOMAIN cases[w]}
                        /\ Len(results[w]) = Len(cases[w])
      BY DEF EachCaseIsReportedOnce
    <2>1. AreCases(cases[w]) /\ Names(cases[w], results[w])
      BY ReportIs
    <2> QED BY <2>1, NamedOnce
  <1> QED BY <1>1, ErsrInvariance, PTL

\* The capped selection of select_ersr_cases.
LEMMA Capped == ErsrInv => SelectionIsCapped
  <1> SUFFICES ASSUME ErsrInv, NEW w \in SelectedWorks
               PROVE  /\ \A i, k \in DOMAIN cases[w] : CaseId(cases[w][i]) = CaseId(cases[w][k]) => i = k
                      /\ \A i \in DOMAIN cases[w] :
                            <<cases[w][i].record, cases[w][i].step>> \in Eligible(records[w], cases[w][i].key)
                      /\ \A key \in Keys :
                            Cardinality({i \in DOMAIN cases[w] : cases[w][i].key = key}) =
                                Min({StepCap, Cardinality(Eligible(records[w], key))})
    BY DEF SelectionIsCapped
  <1> DEFINE recs == records[w]
             cs == cases[w]
  <1>1. AreRecords(recs) /\ IsSelection(recs, cs)
    BY SelectedAre
  <1> HIDE DEF recs, cs
  <1>2. DOMAIN cs = 1..Len(cs)
    BY <1>1, DomainOf DEF IsSelection
  <1>3. \A i, k \in DOMAIN cs : CaseId(cs[i]) = CaseId(cs[k]) => i = k
    BY <1>1, <1>2 DEF IsSelection
  <1>4. \A i \in DOMAIN cs : <<cs[i].record, cs[i].step>> \in Eligible(recs, cs[i].key)
    <2> TAKE i \in DOMAIN cs
    <2> DEFINE c == cs[i]
    <2>1. IsCase(recs, c)
      BY <1>1, <1>2 DEF IsSelection
    <2> HIDE DEF c
    <2>2. <<c.record, c.step>> \in Eligible(recs, c.key)
      BY <1>1, <2>1, CaseIs
    <2> QED BY <2>2 DEF c
  <1>5. \A key \in Keys : Cardinality({i \in DOMAIN cs : cs[i].key = key}) =
                              Min({StepCap, Cardinality(Eligible(recs, key))})
    <2> TAKE key \in Keys
    <2>1. {i \in DOMAIN cs : cs[i].key = key} = CountsOf(cs, Len(cs), key)
      BY <1>2 DEF CountsOf
    <2>2. Cardinality(CountsOf(cs, Len(cs), key)) = Min({StepCap, Cardinality(Eligible(recs, key))})
      BY <1>1 DEF IsSelection
    <2> QED BY <2>1, <2>2
  <1> QED BY <1>3, <1>4, <1>5 DEF recs, cs

\* LimitsAreKept: the reservoirs of select_ersr_cases keep distinct steps, as
\* many of each series as the cap and the eligible steps allow, and the batches
\* of every pool run stay within what a worker accepts.
THEOREM LimitsHold == ErsrSpec => []LimitsAreKept
  <1>1. ErsrInv => LimitsAreKept
    <2> SUFFICES ASSUME ErsrInv PROVE LimitsAreKept
      OBVIOUS
    <2>1. Fits(jobs)
      BY DEF ErsrInv, ErsrTypes
    <2>2. JobsFit
      BY <2>1 DEF Fits, JobsFit
    <2> QED BY <2>2, Capped DEF LimitsAreKept
  <1> QED BY <1>1, ErsrInvariance, PTL

\* StandaloneAgreesWithTraining: the evaluator skips a case for the reason, or
\* values it by the samples, that evaluate_ersr_case gives it alone, and but for
\* SciBench has the same verifier grade them.
THEOREM Agreement == ErsrSpec => []StandaloneAgreesWithTraining
  <1>1. ErsrInv => StandaloneAgreesWithTraining
    <2> SUFFICES ASSUME ErsrInv, mode = "standalone", phase = "done", NEW w \in Works,
                        NEW i \in DOMAIN results[w], NEW k \in DOMAIN cases[w],
                        CaseId(cases[w][k]) = results[w][i].id
                 PROVE  LET own == results[w][i]
                            alone == EvaluateCase(cases[w][k], proposals)
                        IN  /\ own.reason = alone.reason
                            /\ own.reason = "" =>
                                /\ SameRewards(own.baseline, alone.baseline)
                                /\ SameRewards(own.action, alone.action)
                                /\ cases[w][k].key[1] \notin SciBench =>
                                      /\ SameValue(own.baseline, alone.baseline)
                                      /\ SameValue(own.action, alone.action)
      BY DEF StandaloneAgreesWithTraining
    <2> SUFFICES Agrees(cases[w][k], results[w][i], EvaluateCase(cases[w][k], proposals))
      BY Zenon DEF Agrees, ArmSame
    <2> DEFINE list == results[w]
               cs == cases[w]
    <2>1. w \in EvaluatedWorks
      BY DEF EvaluatedWorks
    <2>2. AreCases(cs) /\ Report(cs, list, proposals)
      BY <2>1, ReportIs
    <2>3. CaseId(cs[k]) = list[i].id /\ i \in DOMAIN list /\ k \in DOMAIN cs
      OBVIOUS
    <2> SUFFICES Agrees(cs[k], list[i], EvaluateCase(cs[k], proposals))
      OBVIOUS
    <2> HIDE DEF list, cs
    <2>4. Has(list, list[i]) /\ Has(cs, cs[k])
      BY <2>2, <2>3, DomainOf DEF Report, Names, AreCases
    <2>5. PICK c : Has(cs, c) /\ list[i].id = CaseId(c) /\ Agrees(c, list[i], EvaluateCase(c, proposals))
      BY <2>2, <2>4 DEF Report
    <2>6. c = cs[k]
      BY <2>2, <2>3, <2>4, <2>5, CasesDiffer
    <2> QED BY <2>5, <2>6
  <1> QED BY <1>1, ErsrInvariance, PTL
=============================================================================
