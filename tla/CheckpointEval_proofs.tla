--------------------- MODULE CheckpointEval_proofs ---------------------
(***************************************************************************)
(* Proofs about CheckpointEval: what the result file can be relied on for  *)
(* at any save, by any schedule, over any number of launches, failures and *)
(* kills, and that merged directories are removed.                         *)
(***************************************************************************)
EXTENDS CheckpointEval, TLAPS, WellFoundedInduction

-----------------------------------------------------------------------------
\* The inductive invariant.

RowPcs == {"prepare", "teacher", "finish"}
RowlessPcs == {"merge", "merging", "base"}
BodyPcs == RowPcs \cup RowlessPcs
InitialPcs == {"open", "initial", "initialBase", "initialPrepare", "initialTeacher",
               "initialFinish"}
BeforePcs == InitialPcs \cup {"begin"}
\* Until the teacher phase of a retaining schedule is over.
EarlyPcs == BeforePcs \cup RowlessPcs \cup {"next", "prepare"}

\* A row that gets its proposals from this launch.
Stamped(r) == [r EXCEPT !.teacher = run]

PhaseKinds == {"none", "base", "resuming", "initial_base", "initial_teacher",
               "initial_student", "teacher", "student", "completed"}

\* A document that may be saved.
Sound(doc) ==
    /\ \A r \in doc.rows : r.step # NoStep
    /\ \A q, r \in doc.rows : q.step = r.step => q = r
    /\ \A r \in doc.rows : Unmixed(r, doc)
    /\ doc.initial # NoRow => Unmixed(doc.initial, doc)
    /\ doc.phase.kind = "student" =>
         IF doc.sig.schedule # "per_checkpoint" THEN \A r \in doc.rows : r.teacher = r.run
         ELSE \E r \in doc.rows : r.step = doc.phase.step /\ r.teacher = r.run
    /\ doc.phase.kind = "initial_student" => doc.initial.teacher = doc.initial.run

\* The completed rows of d are in e.
Kept(d, e) == \A r \in d.rows : r.status = "completed" => r \in e.rows

\* What the file reports is not taken back by a step.
DocumentsKept == Kept(disk, disk') /\ (disk.status = "completed" => disk' = disk)

\* What is on disk is sound, what a process has is sound too and takes nothing back.
DocumentInv ==
    /\ Sound(disk) /\ CompletedIsComplete
    /\ pc # "off" => /\ sig \in Configs /\ mem.sig = sig /\ mem.status = "running"
                     /\ Sound(mem) /\ Kept(disk, mem)
                     /\ disk.status # "completed"

Going == pc # "off" /\ ~exc

\* Where the loop is: which checkpoints are ahead, at work, retained or completed.
LoopInv ==
    /\ exc => pc \in {"off", "cleanup", "failing"}
    /\ pc = "failing" => exc
    /\ Going =>
        /\ pc \in BeforePcs => works = {} /\ todo = found
        /\ works # {} => Retains /\ Ersr
        /\ pc = "close" => todo = {} /\ works = {}
        /\ pc \in {"prepare", "teacher"} => Ersr
        /\ pc = "teacher" => ~Retains
        /\ pc \in {"teacherAll", "students"} => Retains /\ Ersr
        /\ pc \in {"teacherAll", "students"} \/ (pc \in {"finish", "cleanup"} /\ Retains /\ Ersr) => todo = {}
        /\ pc \in BodyPcs => cur \in Steps /\ cur \notin todo /\ cur \notin works
        /\ found \subseteq todo \cup works \cup CompletedSteps(mem)
                            \cup (IF pc \in BodyPcs THEN {cur} ELSE {})

\* The rows of the process's document.
RowInv ==
    Going =>
        /\ pc \in RowlessPcs => \A r \in mem.rows : r.step # cur
        /\ pc \in RowPcs => \E r \in mem.rows :
              /\ r.step = cur /\ r.run = run /\ r.status = "base_completed"
              /\ pc = "finish" /\ Ersr => r.teacher = run
        /\ \A s \in works : \E r \in mem.rows : r.step = s /\ r.status = "base_completed"
        /\ Retains => \A r \in mem.rows : r.run = run /\ r.step \notin todo
        /\ Retains /\ Ersr /\ pc \in EarlyPcs \cup {"teacherAll"} =>
              \A r \in mem.rows : r.step \in works \/ (pc = "prepare" /\ r.step = cur)
        /\ Retains /\ Ersr /\ pc \in {"students", "finish", "cleanup"} =>
              \A r \in mem.rows : r.teacher = run
        /\ ~Retains /\ pc \in BodyPcs \cup {"next", "cleanup"} =>
              /\ done \subseteq CompletedSteps(mem)
              /\ CompletedSteps(mem) \cap todo \subseteq done
        /\ Retains /\ (pc \in EarlyPcs \/ ~Ersr) => mem.phase.kind # "student"

\* The evaluation of the initial base model.
InitialInv ==
    Going =>
        /\ pc = "initialBase" => mem.phase.kind = "initial_base"
        /\ pc \in {"initialPrepare", "initialTeacher"} => Ersr
        /\ pc = "initialFinish" => /\ mem.initial.status = "base_completed"
                                   /\ Ersr => mem.initial.teacher = mem.initial.run
        /\ pc \notin InitialPcs /\ sig.initial => mem.initial.status = "completed"

\* Directories belong to retained checkpoints or to the current one.
DirectoryInv ==
    /\ tmp \subseteq owned \cup leftover
    /\ pc \in {"off", "failing"} => owned = {}
    /\ Going => \A d \in owned :
          d.step \in works \/ (pc \in BodyPcs \cup {"cleanup"} /\ d.step = cur)

IInv == TypeOK /\ DocumentInv /\ LoopInv /\ RowInv /\ InitialInv /\ DirectoryInv

-----------------------------------------------------------------------------
\* Documents and their rows.

\* The smallest number of a non-empty set of steps is one of them.
LEMMA FirstIsIn ==
    ASSUME NEW S \in SUBSET Steps, S # {}
    PROVE  First(S) \in S
  <1>1. S \subseteq Nat
    BY StepsAssumption
  <1>2. PICK s \in S : \A t \in S : ~(<<t, s>> \in OpToRel(<, Nat))
    BY <1>1, NatLessThanWellFounded, WFMin
  <1>3. \A t \in S : s <= t
    <2> TAKE t \in S
    <2>1. <<t, s>> \in Nat \X Nat /\ <<t, s>>[1] = t /\ <<t, s>>[2] = s
      BY <1>1
    <2>2. ~(t < s)
      BY <1>2, <2>1 DEF OpToRel
    <2> QED BY <1>1, <2>2
  <1> QED BY <1>2, <1>3 DEF First

\* One row per step: the row of a step is the one there is.
LEMMA RowOfRow ==
    ASSUME NEW doc, Sound(doc), NEW r \in doc.rows
    PROVE  RowOf(doc, r.step) = r
  BY DEF Sound, RowOf

\* What the parts of a save do to a document.
LEMMA SetPhaseFields ==
    ASSUME NEW doc \in Document, NEW kind \in PhaseKinds, NEW s \in StepOrNone
    PROVE  /\ SetPhase(doc, kind, s) \in Document
           /\ SetPhase(doc, kind, s).phase.kind = kind /\ SetPhase(doc, kind, s).phase.step = s
           /\ SetPhase(doc, kind, s).rows = doc.rows /\ SetPhase(doc, kind, s).sig = doc.sig
           /\ SetPhase(doc, kind, s).initial = doc.initial
           /\ SetPhase(doc, kind, s).status = doc.status
  BY DEF SetPhase, Phase, Document, PhaseKinds

LEMMA SetInitialFields ==
    ASSUME NEW doc \in Document, TypeOK, sig \in Configs,
           NEW status \in {"base_completed", "completed"}, NEW teacher \in 0..MaxRuns
    PROVE  /\ SetInitial(doc, status, teacher) \in Document
           /\ SetInitial(doc, status, teacher).initial =
                [step |-> NoStep, status |-> status, run |-> run, sig |-> sig, teacher |-> teacher]
           /\ SetInitial(doc, status, teacher).rows = doc.rows
           /\ SetInitial(doc, status, teacher).sig = doc.sig
           /\ SetInitial(doc, status, teacher).phase = doc.phase
           /\ SetInitial(doc, status, teacher).status = doc.status
  BY DEF SetInitial, Row, Document, RowType, StepOrNone, TypeOK

LEMMA WithoutStepFields ==
    ASSUME NEW doc \in Document, NEW s
    PROVE  /\ WithoutStep(doc, s) \in Document
           /\ WithoutStep(doc, s).rows = {r \in doc.rows : r.step # s}
           /\ WithoutStep(doc, s).status = doc.status /\ WithoutStep(doc, s).phase = doc.phase
           /\ WithoutStep(doc, s).sig = doc.sig /\ WithoutStep(doc, s).initial = doc.initial
  BY DEF WithoutStep, Document

LEMMA WithRowFields ==
    ASSUME NEW doc \in Document, NEW r \in RowType
    PROVE  /\ WithRow(doc, r) \in Document
           /\ WithRow(doc, r).rows = doc.rows \cup {r}
           /\ WithRow(doc, r).status = doc.status /\ WithRow(doc, r).phase = doc.phase
           /\ WithRow(doc, r).sig = doc.sig /\ WithRow(doc, r).initial = doc.initial
  BY DEF WithRow, Document

LEMMA SetRowFields ==
    ASSUME NEW doc \in Document, NEW r \in RowType
    PROVE  /\ SetRow(doc, r) \in Document
           /\ SetRow(doc, r).rows = {q \in doc.rows : q.step # r.step} \cup {r}
           /\ SetRow(doc, r).status = doc.status /\ SetRow(doc, r).phase = doc.phase
           /\ SetRow(doc, r).sig = doc.sig /\ SetRow(doc, r).initial = doc.initial
  <1>1. WithoutStep(doc, r.step) \in Document
    BY WithoutStepFields
  <1> QED BY <1>1, WithoutStepFields, WithRowFields DEF SetRow

LEMMA NoStepIsNoStep == NoStep \notin Steps
  BY StepsAssumption DEF NoStep

-----------------------------------------------------------------------------
\* Saves.

Pcs == {"off", "open", "initial", "initialBase", "initialPrepare", "initialTeacher",
        "initialFinish", "begin", "next", "merge", "merging", "base", "prepare",
        "teacher", "finish", "teacherAll", "students", "cleanup", "failing", "close"}

\* A step within a process that leaves the file, or installs a document that is
\* sound and keeps the completed rows of the one before.
LEMMA SaveKeepsDocuments ==
    ASSUME DocumentInv, pc # "off", sig' = sig, claimed' = claimed,
           disk' = disk \/ disk' = mem',
           mem'.sig = sig, mem'.status = "running", Sound(mem'), Kept(mem, mem')
    PROVE  DocumentInv'
  <1>1. Kept(disk, mem')
    BY DEF DocumentInv, Kept
  <1>2. CASE disk' = disk
    <2>1. Sound(disk') /\ CompletedIsComplete' /\ Kept(disk', mem') /\ disk'.status # "completed"
      BY <1>1, <1>2 DEF DocumentInv, CompletedIsComplete
    <2> QED BY <2>1 DEF DocumentInv
  <1>3. CASE disk' = mem'
    <2>1. Sound(disk') /\ CompletedIsComplete' /\ disk'.status # "completed"
      BY <1>3 DEF CompletedIsComplete
    <2>2. Kept(disk', mem')
      BY <1>3 DEF Kept
    <2> QED BY <2>1, <2>2 DEF DocumentInv
  <1> QED BY <1>2, <1>3

\* The same step keeps what the file reports.
LEMMA SaveKeepsResults ==
    ASSUME DocumentInv, pc # "off", disk' = disk \/ disk' = mem', Kept(mem, mem')
    PROVE  DocumentsKept
  BY DEF DocumentInv, Kept, DocumentsKept

\* A save of a document that may be saved, which keeps the completed rows: it goes
\* on at p, or raises.
LEMMA SaveKeeps ==
    ASSUME TypeOK, DocumentInv, NEW d \in Document, NEW p \in Pcs \ {"off"},
           SaveThen(d, p), pc # "off", ~exc,
           UNCHANGED <<launch, dirs, end>>,
           d.sig = sig, d.status = "running", Sound(d), Kept(mem, d)
    PROVE  /\ DocumentInv' /\ DocumentsKept
           /\ mem' = d /\ mem' \in Document /\ disk' \in Document /\ pc' \in Pcs /\ exc' \in BOOLEAN
           /\ sig' = sig /\ run' = run /\ found' = found
           /\ tmp' = tmp /\ owned' = owned /\ leftover' = leftover
           /\ (pc' = p /\ ~exc') \/ (pc' = "cleanup" /\ exc')
  <1>1. /\ mem' = d /\ (disk' = disk \/ disk' = mem')
        /\ (pc' = p /\ ~exc') \/ (pc' = "cleanup" /\ exc')
        /\ exc' \in BOOLEAN /\ pc' \in Pcs
    <2>1. /\ mem' = d /\ (disk' = disk \/ disk' = mem')
          /\ (pc' = p /\ exc' = exc) \/ (pc' = "cleanup" /\ exc' = TRUE)
      BY DEF SaveThen
    <2>2. exc = FALSE /\ "cleanup" \in Pcs
      BY DEF TypeOK, Pcs
    <2> QED BY <2>1, <2>2
  <1>2. sig' = sig /\ run' = run /\ found' = found /\ claimed' = claimed
        /\ tmp' = tmp /\ owned' = owned /\ leftover' = leftover
    BY DEF launch, dirs, end
  <1>3. disk' \in Document
    BY <1>1 DEF TypeOK
  <1>4. DocumentInv'
    BY <1>1, <1>2, SaveKeepsDocuments
  <1>5. DocumentsKept
    BY <1>1, SaveKeepsResults DEF DocumentsKept
  <1> QED BY <1>1, <1>2, <1>3, <1>4, <1>5

\* The types after a step within a process.
LEMMA TypesAfter ==
    ASSUME TypeOK, UNCHANGED <<launch, dirs, end>>,
           mem' \in Document, disk' \in Document, pc' \in Pcs, exc' \in BOOLEAN,
           done' \subseteq Steps, todo' \subseteq Steps, works' \subseteq Steps,
           cur' \in StepOrNone
    PROVE  TypeOK'
  BY DEF TypeOK, Pcs, launch, dirs, end

LEMMA LaunchStep ==
    ASSUME NEW resume \in BOOLEAN, NEW sg \in Configs, NEW steps \in SUBSET Steps,
           IInv, Launch(resume, sg, steps)
    PROVE  IInv' /\ DocumentsKept
  <1>0. TypeOK /\ DocumentInv /\ LoopInv /\ RowInv /\ InitialInv /\ DirectoryInv
    BY DEF IInv
  <1>a. /\ pc = "off" /\ run' = run + 1 /\ run + 1 \in 0..MaxRuns /\ sig' = sg /\ found' = steps
        /\ done' = {} /\ todo' = steps /\ cur' = NoStep /\ works' = {} /\ exc' = FALSE
        /\ UNCHANGED <<disk, dirs, claimed>>
        /\ \/ ended' \in {"refused", "already"} /\ UNCHANGED <<pc, mem>>
           \/ /\ ~Refused(resume, sg, steps) /\ Loaded(resume, sg).status # "completed"
              /\ mem' = Loaded(resume, sg) /\ pc' = "open" /\ ended' = "none"
    <2>1. run + 1 \in 0..MaxRuns
      BY <1>0, MaxRunsAssumption DEF Launch, TypeOK
    <2>2. pc = "off" /\ run' = run + 1 /\ sig' = sg /\ found' = steps
      BY DEF Launch
    <2>3. /\ done' = {} /\ todo' = steps /\ cur' = NoStep /\ works' = {} /\ exc' = FALSE
          /\ UNCHANGED <<disk, dirs, claimed>>
      BY DEF Launch
    <2>4. \/ ended' \in {"refused", "already"} /\ UNCHANGED <<pc, mem>>
          \/ /\ ~Refused(resume, sg, steps) /\ Loaded(resume, sg).status # "completed"
             /\ mem' = Loaded(resume, sg) /\ pc' = "open" /\ ended' = "none"
      BY DEF Launch
    <2> QED BY <2>1, <2>2, <2>3, <2>4
  <1>b. /\ NoRow \in RowType /\ NoConfig \in Configs \cup {NoConfig} /\ NoStep \in StepOrNone
    BY MaxRunsAssumption DEF NoRow, RowType, StepOrNone
  <1>c. disk \in Document /\ Sound(disk)
    BY <1>0 DEF TypeOK, DocumentInv
  <1>d. CASE ended' \in {"refused", "already"} /\ UNCHANGED <<pc, mem>>
    <2>1. TypeOK'
      BY <1>0, <1>a, <1>b, <1>d DEF TypeOK, dirs
    <2>2. DocumentInv' /\ DocumentsKept
      BY <1>0, <1>a, <1>d DEF DocumentInv, CompletedIsComplete, DocumentsKept, Kept
    <2>3. LoopInv' /\ RowInv' /\ InitialInv' /\ DirectoryInv'
      BY <1>0, <1>a, <1>d DEF LoopInv, RowInv, InitialInv, DirectoryInv, Going, dirs
    <2> QED BY <2>1, <2>2, <2>3 DEF IInv
  <1>e. CASE /\ ~Refused(resume, sg, steps) /\ Loaded(resume, sg).status # "completed"
             /\ mem' = Loaded(resume, sg) /\ pc' = "open" /\ ended' = "none"
    <2>1. /\ mem' \in Document /\ mem'.sig = sg /\ mem'.status = "running" /\ Sound(mem')
          /\ mem'.phase.kind # "student" /\ (sg.schedule # "per_checkpoint" => mem'.rows = {})
          /\ Kept(disk, mem') /\ disk.status # "completed"
      <3>1. CASE ~resume
        <4> DEFINE d == FreshDocument(sg)
        <4>1. /\ d \in Document /\ d.sig = sg /\ d.status = "running" /\ d.rows = {}
              /\ d.initial = NoRow /\ d.phase.kind = "base"
          BY <1>b DEF FreshDocument, Document, Phase
        <4>2. mem' = d /\ disk = NoFile
          BY <1>e, <3>1 DEF Loaded, Refused, AlreadyExists
        <4> HIDE DEF d
        <4>3. disk.rows = {} /\ disk.status = "absent"
          BY <4>2 DEF NoFile
        <4> QED BY <4>1, <4>2, <4>3 DEF Sound, Kept
      <3>2. CASE resume
        <4> DEFINE d == [disk EXCEPT !.status = "running", !.phase = Phase("resuming", NoStep)]
        <4>1. disk.status # "completed" /\ mem' = d
          BY <1>e, <3>2 DEF Loaded
        <4>2. /\ d \in Document /\ d.sig = disk.sig /\ d.status = "running" /\ d.rows = disk.rows
              /\ d.initial = disk.initial /\ d.phase.kind = "resuming"
          BY <1>b, <1>c DEF Document, Phase
        <4>3. disk.sig = sg /\ sg.schedule = "per_checkpoint"
          BY <1>e, <3>2 DEF Refused, SignatureDiffers
        <4> HIDE DEF d
        <4> QED BY <1>c, <4>1, <4>2, <4>3 DEF Sound, Kept, Unmixed
      <3> QED BY <3>1, <3>2
    <2>2. TypeOK'
      BY <1>0, <1>a, <1>b, <1>e, <2>1 DEF TypeOK, dirs
    <2>3. DocumentInv' /\ DocumentsKept
      BY <1>0, <1>a, <1>e, <2>1 DEF DocumentInv, CompletedIsComplete, DocumentsKept, Kept
    <2>4. LoopInv' /\ RowInv' /\ InitialInv' /\ DirectoryInv'
      BY <1>0, <1>a, <1>e, <2>1 DEF LoopInv, RowInv, InitialInv, DirectoryInv, launch, loop,
         dirs, Going, CompletedSteps, BeforePcs, BodyPcs, RowPcs, RowlessPcs, InitialPcs,
         EarlyPcs, Retains, Ersr, Schedule
    <2> QED BY <2>2, <2>3, <2>4 DEF IInv
  <1> QED BY <1>a, <1>d, <1>e

LEMMA OpenStep ==
    ASSUME IInv, Open
    PROVE  IInv' /\ DocumentsKept
  <1>0. TypeOK /\ DocumentInv /\ LoopInv /\ RowInv /\ InitialInv /\ DirectoryInv
    BY DEF IInv
  <1>a. /\ pc = "open" /\ ~exc /\ sig \in Configs
        /\ UNCHANGED <<mem, exc, launch, loop, dirs, claimed>>
        /\ \/ disk' = mem /\ pc' = "initial" /\ UNCHANGED ended
           \/ pc' = "off" /\ ended' = "unsaved" /\ UNCHANGED disk
    BY <1>0 DEF Open, DocumentInv, LoopInv
  <1>1. TypeOK'
    BY <1>0, <1>a DEF TypeOK, launch, loop, dirs
  <1>2. DocumentInv' /\ DocumentsKept
    <2>1. mem' = mem /\ mem.sig = sig /\ mem.status = "running" /\ Sound(mem) /\ Kept(mem, mem')
      BY <1>0, <1>a DEF DocumentInv, Kept
    <2> QED BY <1>0, <1>a, <2>1, SaveKeepsDocuments, SaveKeepsResults DEF launch
  <1>3. LoopInv' /\ RowInv' /\ InitialInv'
    BY <1>0, <1>a DEF LoopInv, RowInv, InitialInv, DirectoryInv, launch, loop, dirs, Going,
       CompletedSteps, BeforePcs, BodyPcs, RowPcs, RowlessPcs, InitialPcs, EarlyPcs, Retains,
       Ersr, Schedule
  <1>4. DirectoryInv'
    <2>1. works = {} /\ owned = {}
      BY <1>0, <1>a DEF LoopInv, DirectoryInv, Going, BeforePcs, InitialPcs, BodyPcs, RowPcs,
         RowlessPcs
    <2> QED BY <1>0, <1>a, <2>1 DEF DirectoryInv, dirs
  <1> QED BY <1>1, <1>2, <1>3, <1>4 DEF IInv

LEMMA InitialStartStep ==
    ASSUME IInv, InitialStart
    PROVE  IInv' /\ DocumentsKept
  <1>0. TypeOK /\ DocumentInv /\ LoopInv /\ RowInv /\ InitialInv /\ DirectoryInv
    BY DEF IInv
  <1>a. /\ pc = "initial" /\ ~exc /\ sig \in Configs /\ mem \in Document
        /\ mem.sig = sig /\ mem.status = "running" /\ Sound(mem)
        /\ UNCHANGED <<launch, loop, dirs, end>>
    BY <1>0 DEF InitialStart, DocumentInv, LoopInv, TypeOK
  <1>b. CASE UNCHANGED <<mem, disk, exc>> /\ pc' = "begin" /\ (~sig.initial \/ mem.initial.status = "completed")
    <2>1. TypeOK'
      BY <1>0, <1>a, <1>b, TypesAfter DEF TypeOK, loop, Pcs
    <2>2. DocumentInv' /\ DocumentsKept
      BY <1>0, <1>a, <1>b DEF DocumentInv, CompletedIsComplete, launch, end, DocumentsKept, Kept
    <2>3. LoopInv' /\ RowInv' /\ InitialInv' /\ DirectoryInv'
      BY <1>0, <1>a, <1>b DEF LoopInv, RowInv, InitialInv, DirectoryInv, launch, loop, dirs,
         Going, CompletedSteps, BeforePcs, BodyPcs, RowPcs, RowlessPcs, InitialPcs, EarlyPcs,
         Retains, Ersr, Schedule
    <2> QED BY <2>1, <2>2, <2>3 DEF IInv
  <1>c. CASE SaveThen(SetPhase([mem EXCEPT !.initial = NoRow], "initial_base", NoStep), "initialBase")
    <2> DEFINE d == SetPhase([mem EXCEPT !.initial = NoRow], "initial_base", NoStep)
               p == "initialBase"
    <2>1. [mem EXCEPT !.initial = NoRow] \in Document
      <3>1. NoRow \in RowType
        BY MaxRunsAssumption DEF NoRow, NoConfig, RowType, StepOrNone
      <3> QED BY <1>a, <3>1 DEF Document
    <2>2. "initial_base" \in PhaseKinds /\ NoStep \in StepOrNone /\ p \in Pcs \ {"off"}
      BY DEF PhaseKinds, StepOrNone, Pcs
    <2>3. /\ d \in Document /\ d.rows = mem.rows /\ d.initial = NoRow /\ d.sig = sig
          /\ d.status = "running" /\ d.phase.kind = "initial_base"
      BY <1>a, <2>1, <2>2, SetPhaseFields DEF Document
    <2>4. Sound(d) /\ Kept(mem, d)
      BY <1>a, <2>3 DEF Sound, Kept, Unmixed
    <2>5. SaveThen(d, p)
      BY <1>c
    <2> HIDE DEF d
    <2>6. /\ DocumentInv' /\ DocumentsKept
          /\ mem' = d /\ mem' \in Document /\ disk' \in Document /\ pc' \in Pcs /\ exc' \in BOOLEAN
          /\ (pc' = p /\ ~exc') \/ (pc' = "cleanup" /\ exc')
      BY <1>0, <1>a, <2>2, <2>3, <2>4, <2>5, SaveKeeps DEF loop
    <2>7. TypeOK'
      BY <1>0, <1>a, <2>6, TypesAfter DEF TypeOK, loop
    <2>8. LoopInv' /\ RowInv' /\ InitialInv' /\ DirectoryInv'
      BY <1>0, <1>a, <2>3, <2>6 DEF LoopInv, RowInv, InitialInv, DirectoryInv, launch, loop,
         dirs, Going, CompletedSteps, BeforePcs, BodyPcs, RowPcs, RowlessPcs, InitialPcs,
         EarlyPcs, Retains, Ersr, Schedule
    <2> QED BY <2>6, <2>7, <2>8 DEF IInv
  <1> QED BY <1>b, <1>c DEF InitialStart, InitialBase

LEMMA InitialEvaluatedStep ==
    ASSUME IInv, InitialEvaluated
    PROVE  IInv' /\ DocumentsKept
  <1>0. TypeOK /\ DocumentInv /\ LoopInv /\ RowInv /\ InitialInv /\ DirectoryInv
    BY DEF IInv
  <1> DEFINE d == SetInitial(mem, "base_completed", 0)
         p == IF Ersr THEN "initialPrepare" ELSE "initialFinish"
  <1>a. /\ pc # "off" /\ ~exc /\ sig \in Configs /\ mem \in Document /\ run \in 0..MaxRuns
        /\ mem.sig = sig /\ mem.status = "running" /\ Sound(mem)
        /\ UNCHANGED <<launch, loop, dirs, end>>
    BY <1>0 DEF InitialEvaluated, DocumentInv, LoopInv, TypeOK
  <1>b. /\ d \in Document /\ d.rows = mem.rows /\ d.sig = sig /\ d.status = "running" /\ d.phase = mem.phase
        /\ d.initial = [step |-> NoStep, status |-> "base_completed", run |-> run, sig |-> sig, teacher |-> 0]
    BY <1>0, <1>a, SetInitialFields, MaxRunsAssumption
  <1>c. mem.phase.kind = "initial_base"
    BY <1>0, <1>a DEF InitialEvaluated, InitialInv, Going
  <1>d. Sound(d) /\ Kept(mem, d)
    BY <1>a, <1>b, <1>c DEF Sound, Kept, Unmixed
  <1>e. SaveThen(d, p) /\ p \in Pcs \ {"off"}
    BY DEF InitialEvaluated, Pcs
  <1> HIDE DEF d, p
  <1>f. /\ DocumentInv' /\ DocumentsKept
        /\ mem' = d /\ mem' \in Document /\ disk' \in Document /\ pc' \in Pcs /\ exc' \in BOOLEAN
        /\ (pc' = p /\ ~exc') \/ (pc' = "cleanup" /\ exc')
    BY <1>0, <1>a, <1>b, <1>d, <1>e, SaveKeeps
  <1>1. TypeOK'
    BY <1>0, <1>a, <1>f, TypesAfter DEF TypeOK, loop
  <1>2. DocumentInv'
    BY <1>f
  <1>3. LoopInv'
    BY <1>0, <1>a, <1>b, <1>f DEF InitialEvaluated, LoopInv, RowInv, Schedule, Ersr,
       InitialBase, Retains, Going, RowPcs, RowlessPcs, BodyPcs, InitialPcs, BeforePcs,
       EarlyPcs, CompletedSteps, launch, loop, dirs, end, SaveThen, p
  <1>4. RowInv'
    BY <1>0, <1>a, <1>b, <1>f DEF InitialEvaluated, RowInv, LoopInv, TypeOK, Document, RowType,
       DocumentInv, Sound, Schedule, Ersr, InitialBase, Retains, Going, RowPcs, RowlessPcs,
       BodyPcs, InitialPcs, BeforePcs, EarlyPcs, CompletedSteps, launch, loop, dirs, end,
       SaveThen, p
  <1>5. InitialInv'
    BY <1>0, <1>a, <1>b, <1>f DEF InitialInv, LoopInv, TypeOK, Document, RowType, NoRow,
       Schedule, Ersr, InitialBase, Retains, Going, RowPcs, RowlessPcs, BodyPcs, InitialPcs,
       BeforePcs, EarlyPcs, CompletedSteps, launch, loop, dirs, end, SaveThen, p
  <1>6. DirectoryInv'
    BY <1>0, <1>a, <1>b, <1>f DEF InitialEvaluated, DirectoryInv, LoopInv, RowInv, TmpDir,
       Leaving, TypeOK, Directory, Schedule, Ersr, InitialBase, Retains, Going, RowPcs,
       RowlessPcs, BodyPcs, InitialPcs, BeforePcs, EarlyPcs, CompletedSteps, launch, loop, dirs,
       end, SaveThen, p
  <1>7. DocumentsKept
    BY <1>f
  <1> QED BY <1>1, <1>2, <1>3, <1>4, <1>5, <1>6, <1>7 DEF IInv

LEMMA InitialPrepareStep ==
    ASSUME IInv, InitialPrepare
    PROVE  IInv' /\ DocumentsKept
  <1>0. TypeOK /\ DocumentInv /\ LoopInv /\ RowInv /\ InitialInv /\ DirectoryInv
    BY DEF IInv
  <1> DEFINE d == SetPhase(mem, "initial_teacher", NoStep)
         p == "initialTeacher"
  <1>a. /\ pc # "off" /\ ~exc /\ sig \in Configs /\ mem \in Document /\ run \in 0..MaxRuns
        /\ mem.sig = sig /\ mem.status = "running" /\ Sound(mem)
        /\ UNCHANGED <<launch, loop, dirs, end>>
    BY <1>0 DEF InitialPrepare, DocumentInv, LoopInv, TypeOK
  <1>b. /\ d \in Document /\ d.rows = mem.rows /\ d.initial = mem.initial /\ d.sig = sig
        /\ d.status = "running" /\ d.phase.kind = "initial_teacher"
    <2>1. "initial_teacher" \in PhaseKinds /\ NoStep \in StepOrNone
      BY DEF PhaseKinds, StepOrNone
    <2> QED BY <1>a, <2>1, SetPhaseFields
  <1>d. Sound(d) /\ Kept(mem, d)
    BY <1>a, <1>b DEF Sound, Kept, Unmixed
  <1>e. SaveThen(d, p) /\ p \in Pcs \ {"off"}
    BY DEF InitialPrepare, Pcs
  <1> HIDE DEF d, p
  <1>f. /\ DocumentInv' /\ DocumentsKept
        /\ mem' = d /\ mem' \in Document /\ disk' \in Document /\ pc' \in Pcs /\ exc' \in BOOLEAN
        /\ (pc' = p /\ ~exc') \/ (pc' = "cleanup" /\ exc')
    BY <1>0, <1>a, <1>b, <1>d, <1>e, SaveKeeps
  <1>1. TypeOK'
    BY <1>0, <1>a, <1>f, TypesAfter DEF TypeOK, loop
  <1>2. DocumentInv'
    BY <1>f
  <1>3. LoopInv'
    BY <1>0, <1>a, <1>b, <1>f DEF InitialPrepare, LoopInv, RowInv, Schedule, Ersr, InitialBase,
       Retains, Going, RowPcs, RowlessPcs, BodyPcs, InitialPcs, BeforePcs, EarlyPcs,
       CompletedSteps, launch, loop, dirs, end, SaveThen, p
  <1>4. RowInv'
    BY <1>0, <1>a, <1>b, <1>f DEF InitialPrepare, RowInv, LoopInv, TypeOK, Document, RowType,
       DocumentInv, Sound, Schedule, Ersr, InitialBase, Retains, Going, RowPcs, RowlessPcs,
       BodyPcs, InitialPcs, BeforePcs, EarlyPcs, CompletedSteps, launch, loop, dirs, end,
       SaveThen, p
  <1>5. InitialInv'
    BY <1>0, <1>a, <1>b, <1>f DEF InitialPrepare, InitialInv, LoopInv, TypeOK, Document,
       RowType, NoRow, Schedule, Ersr, InitialBase, Retains, Going, RowPcs, RowlessPcs, BodyPcs,
       InitialPcs, BeforePcs, EarlyPcs, CompletedSteps, launch, loop, dirs, end, SaveThen, p
  <1>6. DirectoryInv'
    BY <1>0, <1>a, <1>b, <1>f DEF InitialPrepare, DirectoryInv, LoopInv, RowInv, TmpDir,
       Leaving, TypeOK, Directory, Schedule, Ersr, InitialBase, Retains, Going, RowPcs,
       RowlessPcs, BodyPcs, InitialPcs, BeforePcs, EarlyPcs, CompletedSteps, launch, loop, dirs,
       end, SaveThen, p
  <1>7. DocumentsKept
    BY <1>f
  <1> QED BY <1>1, <1>2, <1>3, <1>4, <1>5, <1>6, <1>7 DEF IInv

LEMMA InitialTeacherStep ==
    ASSUME IInv, InitialTeacher
    PROVE  IInv' /\ DocumentsKept
  <1>0. TypeOK /\ DocumentInv /\ LoopInv /\ RowInv /\ InitialInv /\ DirectoryInv
    BY DEF IInv
  <1> DEFINE d == SetPhase(SetInitial(mem, "base_completed", run), "initial_student", NoStep)
         p == "initialFinish"
  <1>a. /\ pc # "off" /\ ~exc /\ sig \in Configs /\ mem \in Document /\ run \in 0..MaxRuns
        /\ mem.sig = sig /\ mem.status = "running" /\ Sound(mem)
        /\ UNCHANGED <<launch, loop, dirs, end>>
    BY <1>0 DEF InitialTeacher, DocumentInv, LoopInv, TypeOK
  <1>b. /\ d \in Document /\ d.rows = mem.rows /\ d.sig = sig /\ d.status = "running"
        /\ d.phase.kind = "initial_student"
        /\ d.initial = [step |-> NoStep, status |-> "base_completed", run |-> run, sig |-> sig, teacher |-> run]
    <2>1. SetInitial(mem, "base_completed", run) \in Document
      BY <1>0, <1>a, SetInitialFields
    <2>2. "initial_student" \in PhaseKinds /\ NoStep \in StepOrNone
      BY DEF PhaseKinds, StepOrNone
    <2> QED BY <1>0, <1>a, <2>1, <2>2, SetInitialFields, SetPhaseFields
  <1>d. Sound(d) /\ Kept(mem, d)
    BY <1>a, <1>b DEF Sound, Kept, Unmixed
  <1>e. SaveThen(d, p) /\ p \in Pcs \ {"off"}
    BY DEF InitialTeacher, Pcs
  <1> HIDE DEF d, p
  <1>f. /\ DocumentInv' /\ DocumentsKept
        /\ mem' = d /\ mem' \in Document /\ disk' \in Document /\ pc' \in Pcs /\ exc' \in BOOLEAN
        /\ (pc' = p /\ ~exc') \/ (pc' = "cleanup" /\ exc')
    BY <1>0, <1>a, <1>b, <1>d, <1>e, SaveKeeps
  <1>1. TypeOK'
    BY <1>0, <1>a, <1>f, TypesAfter DEF TypeOK, loop
  <1>2. DocumentInv'
    BY <1>f
  <1>3. LoopInv'
    BY <1>0, <1>a, <1>b, <1>f DEF InitialTeacher, LoopInv, RowInv, Schedule, Ersr, InitialBase,
       Retains, Going, RowPcs, RowlessPcs, BodyPcs, InitialPcs, BeforePcs, EarlyPcs,
       CompletedSteps, launch, loop, dirs, end, SaveThen, p
  <1>4. RowInv'
    BY <1>0, <1>a, <1>b, <1>f DEF InitialTeacher, RowInv, LoopInv, TypeOK, Document, RowType,
       DocumentInv, Sound, Schedule, Ersr, InitialBase, Retains, Going, RowPcs, RowlessPcs,
       BodyPcs, InitialPcs, BeforePcs, EarlyPcs, CompletedSteps, launch, loop, dirs, end,
       SaveThen, p
  <1>5. InitialInv'
    BY <1>0, <1>a, <1>b, <1>f DEF InitialInv, LoopInv, TypeOK, Document, RowType, NoRow,
       Schedule, Ersr, InitialBase, Retains, Going, RowPcs, RowlessPcs, BodyPcs, InitialPcs,
       BeforePcs, EarlyPcs, CompletedSteps, launch, loop, dirs, end, SaveThen, p
  <1>6. DirectoryInv'
    BY <1>0, <1>a, <1>b, <1>f DEF InitialTeacher, DirectoryInv, LoopInv, RowInv, TmpDir,
       Leaving, TypeOK, Directory, Schedule, Ersr, InitialBase, Retains, Going, RowPcs,
       RowlessPcs, BodyPcs, InitialPcs, BeforePcs, EarlyPcs, CompletedSteps, launch, loop, dirs,
       end, SaveThen, p
  <1>7. DocumentsKept
    BY <1>f
  <1> QED BY <1>1, <1>2, <1>3, <1>4, <1>5, <1>6, <1>7 DEF IInv

LEMMA InitialFinishStep ==
    ASSUME IInv, InitialFinish
    PROVE  IInv' /\ DocumentsKept
  <1>0. TypeOK /\ DocumentInv /\ LoopInv /\ RowInv /\ InitialInv /\ DirectoryInv
    BY DEF IInv
  <1> DEFINE d == [mem EXCEPT !.initial.status = "completed"]
         p == "begin"
  <1>a. /\ pc # "off" /\ ~exc /\ sig \in Configs /\ mem \in Document /\ run \in 0..MaxRuns
        /\ mem.sig = sig /\ mem.status = "running" /\ Sound(mem)
        /\ UNCHANGED <<launch, loop, dirs, end>>
    BY <1>0 DEF InitialFinish, DocumentInv, LoopInv, TypeOK
  <1>b. /\ d \in Document /\ d.rows = mem.rows /\ d.sig = sig /\ d.status = "running" /\ d.phase = mem.phase
        /\ d.initial.status = "completed" /\ d.initial.run = mem.initial.run
        /\ d.initial.sig = mem.initial.sig /\ d.initial.teacher = mem.initial.teacher
    BY <1>a DEF Document, RowType
  <1>c. mem.initial # NoRow /\ (sig.ersr => mem.initial.teacher = mem.initial.run)
    BY <1>0, <1>a DEF InitialFinish, InitialInv, Going, NoRow, Ersr
  <1>d. Sound(d) /\ Kept(mem, d)
    BY <1>a, <1>b, <1>c DEF Sound, Kept, Unmixed
  <1>e. SaveThen(d, p) /\ p \in Pcs \ {"off"}
    BY DEF InitialFinish, Pcs
  <1> HIDE DEF d, p
  <1>f. /\ DocumentInv' /\ DocumentsKept
        /\ mem' = d /\ mem' \in Document /\ disk' \in Document /\ pc' \in Pcs /\ exc' \in BOOLEAN
        /\ (pc' = p /\ ~exc') \/ (pc' = "cleanup" /\ exc')
    BY <1>0, <1>a, <1>b, <1>d, <1>e, SaveKeeps
  <1>1. TypeOK'
    BY <1>0, <1>a, <1>f, TypesAfter DEF TypeOK, loop
  <1>2. DocumentInv'
    BY <1>f
  <1>3. LoopInv'
    BY <1>0, <1>a, <1>b, <1>f DEF InitialFinish, LoopInv, RowInv, Schedule, Ersr, InitialBase,
       Retains, Going, RowPcs, RowlessPcs, BodyPcs, InitialPcs, BeforePcs, EarlyPcs,
       CompletedSteps, launch, loop, dirs, end, SaveThen, p
  <1>4. RowInv'
    BY <1>0, <1>a, <1>b, <1>f DEF InitialFinish, RowInv, LoopInv, TypeOK, Document, RowType,
       DocumentInv, Sound, Schedule, Ersr, InitialBase, Retains, Going, RowPcs, RowlessPcs,
       BodyPcs, InitialPcs, BeforePcs, EarlyPcs, CompletedSteps, launch, loop, dirs, end,
       SaveThen, p
  <1>5. InitialInv'
    BY <1>0, <1>a, <1>b, <1>f DEF InitialInv, LoopInv, TypeOK, Document, RowType, NoRow,
       Schedule, Ersr, InitialBase, Retains, Going, RowPcs, RowlessPcs, BodyPcs, InitialPcs,
       BeforePcs, EarlyPcs, CompletedSteps, launch, loop, dirs, end, SaveThen, p
  <1>6. DirectoryInv'
    BY <1>0, <1>a, <1>b, <1>f DEF InitialFinish, DirectoryInv, LoopInv, RowInv, TmpDir, Leaving,
       TypeOK, Directory, Schedule, Ersr, InitialBase, Retains, Going, RowPcs, RowlessPcs,
       BodyPcs, InitialPcs, BeforePcs, EarlyPcs, CompletedSteps, launch, loop, dirs, end,
       SaveThen, p
  <1>7. DocumentsKept
    BY <1>f
  <1> QED BY <1>1, <1>2, <1>3, <1>4, <1>5, <1>6, <1>7 DEF IInv

LEMMA BeginLoopStep ==
    ASSUME IInv, BeginLoop
    PROVE  IInv' /\ DocumentsKept
  <1>0. TypeOK /\ DocumentInv /\ LoopInv /\ RowInv /\ InitialInv /\ DirectoryInv
    BY DEF IInv
  <1>a. /\ pc = "begin" /\ ~exc /\ pc' = "next" /\ done' = CompletedSteps(mem)
        /\ UNCHANGED <<disk, mem, exc, launch, todo, cur, works, dirs, end>>
    BY <1>0 DEF BeginLoop, LoopInv
  <1>b. CompletedSteps(mem) \subseteq Steps
    <2>1. \A r \in mem.rows : r.step \in Steps
      BY <1>0, <1>a DEF TypeOK, Document, RowType, StepOrNone, DocumentInv, Sound
    <2> QED BY <2>1 DEF CompletedSteps
  <1>1. TypeOK'
    BY <1>0, <1>a, <1>b, TypesAfter DEF TypeOK, Pcs
  <1>2. DocumentInv' /\ DocumentsKept
    BY <1>0, <1>a DEF DocumentInv, CompletedIsComplete, launch, end, DocumentsKept, Kept
  <1>3. LoopInv' /\ RowInv' /\ InitialInv' /\ DirectoryInv'
    BY <1>0, <1>a DEF LoopInv, RowInv, InitialInv, DirectoryInv, launch, loop, dirs, Going,
       CompletedSteps, BeforePcs, BodyPcs, RowPcs, RowlessPcs, InitialPcs, EarlyPcs, Retains,
       Ersr, Schedule
  <1> QED BY <1>1, <1>2, <1>3 DEF IInv

LEMMA NextCheckpointStep ==
    ASSUME IInv, NextCheckpoint
    PROVE  IInv' /\ DocumentsKept
  <1>0. TypeOK /\ DocumentInv /\ LoopInv /\ RowInv /\ InitialInv /\ DirectoryInv
    BY DEF IInv
  <1> DEFINE s == First(todo)
  <1>a. /\ pc = "next" /\ ~exc /\ sig \in Configs /\ mem \in Document
        /\ mem.sig = sig /\ mem.status = "running" /\ Sound(mem)
        /\ UNCHANGED <<launch, done, works, dirs, end>> /\ todo' = todo \ {s}
    BY <1>0 DEF NextCheckpoint, DocumentInv, LoopInv, TypeOK
  <1>b. s \in todo /\ todo \subseteq Steps /\ done \subseteq Steps /\ works \subseteq Steps
    BY <1>0, FirstIsIn DEF NextCheckpoint, TypeOK
  <1> HIDE DEF s
  <1>c. CASE Retains /\ cur' = s /\ pc' = "merge" /\ UNCHANGED <<mem, disk, exc>>
    <2>1. TypeOK'
      BY <1>0, <1>a, <1>b, <1>c, TypesAfter DEF TypeOK, Pcs, StepOrNone
    <2>2. DocumentInv' /\ DocumentsKept
      BY <1>0, <1>a, <1>c DEF DocumentInv, CompletedIsComplete, launch, end, DocumentsKept, Kept
    <2>3. LoopInv'
      BY <1>0, <1>a, <1>b, <1>c DEF LoopInv, RowInv, InitialInv, DirectoryInv, launch, loop,
         dirs, Going, CompletedSteps, BeforePcs, BodyPcs, RowPcs, RowlessPcs, InitialPcs,
         EarlyPcs, Retains, Ersr, Schedule
    <2>4. RowInv'
      BY <1>0, <1>a, <1>b, <1>c DEF RowInv, InitialInv, DirectoryInv, launch, loop, dirs, Going,
         CompletedSteps, BeforePcs, BodyPcs, RowPcs, RowlessPcs, InitialPcs, EarlyPcs, Retains,
         Ersr, Schedule
    <2>5. InitialInv' /\ DirectoryInv'
      BY <1>0, <1>a, <1>b, <1>c DEF RowInv, InitialInv, DirectoryInv, launch, loop, dirs, Going,
         CompletedSteps, BeforePcs, BodyPcs, RowPcs, RowlessPcs, InitialPcs, EarlyPcs, Retains,
         Ersr, Schedule
    <2> QED BY <2>1, <2>2, <2>3, <2>4, <2>5 DEF IInv
  <1>d. CASE ~Retains /\ s \in done /\ UNCHANGED <<cur, pc, mem, disk, exc>>
    <2>1. TypeOK'
      BY <1>0, <1>a, <1>b, <1>d, TypesAfter DEF TypeOK, Pcs
    <2>2. DocumentInv' /\ DocumentsKept
      BY <1>0, <1>a, <1>d DEF DocumentInv, CompletedIsComplete, launch, end, DocumentsKept, Kept
    <2>3. LoopInv'
      BY <1>0, <1>a, <1>b, <1>d DEF LoopInv, RowInv, InitialInv, DirectoryInv, launch, loop,
         dirs, Going, CompletedSteps, BeforePcs, BodyPcs, RowPcs, RowlessPcs, InitialPcs,
         EarlyPcs, Retains, Ersr, Schedule
    <2>4. RowInv'
      BY <1>0, <1>a, <1>b, <1>d DEF RowInv, InitialInv, DirectoryInv, launch, loop, dirs, Going,
         CompletedSteps, BeforePcs, BodyPcs, RowPcs, RowlessPcs, InitialPcs, EarlyPcs, Retains,
         Ersr, Schedule
    <2>5. InitialInv' /\ DirectoryInv'
      BY <1>0, <1>a, <1>b, <1>d DEF RowInv, InitialInv, DirectoryInv, launch, loop, dirs, Going,
         CompletedSteps, BeforePcs, BodyPcs, RowPcs, RowlessPcs, InitialPcs, EarlyPcs, Retains,
         Ersr, Schedule
    <2> QED BY <2>1, <2>2, <2>3, <2>4, <2>5 DEF IInv
  <1>e. CASE ~Retains /\ s \notin done /\ cur' = s /\ SaveThen(SetPhase(WithoutStep(mem, s), "base", s), "merge")
    <2> DEFINE d == SetPhase(WithoutStep(mem, s), "base", s)
               p == "merge"
    <2>1. WithoutStep(mem, s) \in Document
      BY <1>a, WithoutStepFields
    <2>2. "base" \in PhaseKinds /\ s \in StepOrNone /\ p \in Pcs \ {"off"}
      BY <1>b DEF PhaseKinds, StepOrNone, Pcs
    <2>3. /\ d \in Document /\ d.rows = {r \in mem.rows : r.step # s} /\ d.initial = mem.initial
          /\ d.sig = sig /\ d.status = "running" /\ d.phase.kind = "base"
      BY <1>a, <2>1, <2>2, WithoutStepFields, SetPhaseFields
    <2>4. \A r \in mem.rows : r.step = s => r.status # "completed"
      BY <1>0, <1>a, <1>b, <1>e DEF RowInv, Going, CompletedSteps
    <2>5. Sound(d) /\ Kept(mem, d)
      BY <1>a, <2>3, <2>4 DEF Sound, Kept, Unmixed
    <2>6. SaveThen(d, p)
      BY <1>e
    <2> HIDE DEF d
    <2>7. /\ DocumentInv' /\ DocumentsKept
          /\ mem' = d /\ mem' \in Document /\ disk' \in Document /\ pc' \in Pcs /\ exc' \in BOOLEAN
          /\ (pc' = p /\ ~exc') \/ (pc' = "cleanup" /\ exc')
      BY <1>0, <1>a, <2>2, <2>3, <2>5, <2>6, SaveKeeps
    <2>8. TypeOK'
      BY <1>0, <1>a, <1>b, <1>e, <2>2, <2>7, TypesAfter DEF TypeOK
    <2>9. LoopInv'
      BY <1>0, <1>a, <1>b, <1>e, <2>3, <2>4, <2>7 DEF LoopInv, RowInv, InitialInv, DirectoryInv,
         launch, loop, dirs, Going, CompletedSteps, BeforePcs, BodyPcs, RowPcs, RowlessPcs,
         InitialPcs, EarlyPcs, Retains, Ersr, Schedule
    <2>10. RowInv'
      BY <1>0, <1>a, <1>b, <1>e, <2>3, <2>4, <2>7 DEF LoopInv, RowInv, InitialInv, DirectoryInv,
         launch, loop, dirs, Going, CompletedSteps, BeforePcs, BodyPcs, RowPcs, RowlessPcs,
         InitialPcs, EarlyPcs, Retains, Ersr, Schedule
    <2>11. InitialInv' /\ DirectoryInv'
      BY <1>0, <1>a, <1>b, <1>e, <2>3, <2>7 DEF RowInv, InitialInv, DirectoryInv, launch, loop,
         dirs, Going, CompletedSteps, BeforePcs, BodyPcs, RowPcs, RowlessPcs, InitialPcs,
         EarlyPcs, Retains, Ersr, Schedule
    <2> QED BY <2>7, <2>8, <2>9, <2>10, <2>11 DEF IInv
  <1> QED BY <1>a, <1>c, <1>d, <1>e DEF NextCheckpoint, s

LEMMA PrepareModelStep ==
    ASSUME IInv, PrepareModel
    PROVE  IInv' /\ DocumentsKept
  <1>0. TypeOK /\ DocumentInv /\ LoopInv /\ RowInv /\ InitialInv /\ DirectoryInv
    BY DEF IInv
  <1>a. /\ pc = "merge" /\ ~exc /\ cur \in Steps
        /\ UNCHANGED <<disk, mem, exc, launch, loop, leftover, silent, end>>
        /\ \/ pc' = "merging" /\ tmp' = tmp \cup {TmpDir(cur)} /\ owned' = owned \cup {TmpDir(cur)}
           \/ pc' = "base" /\ UNCHANGED <<tmp, owned>>
    BY <1>0 DEF PrepareModel, LoopInv, Going, BodyPcs, RowlessPcs
  <1>b. TmpDir(cur) \in Directory /\ TmpDir(cur).step = cur
    BY <1>0, <1>a DEF TmpDir, Directory, TypeOK
  <1>1. TypeOK'
    BY <1>0, <1>a, <1>b DEF TypeOK, launch, loop, end
  <1>2. DocumentInv' /\ DocumentsKept
    BY <1>0, <1>a DEF DocumentInv, CompletedIsComplete, launch, end, DocumentsKept, Kept
  <1>3. LoopInv' /\ RowInv' /\ InitialInv'
    BY <1>0, <1>a DEF LoopInv, RowInv, InitialInv, launch, loop, Going, CompletedSteps,
       BeforePcs, BodyPcs, RowPcs, RowlessPcs, InitialPcs, EarlyPcs, Retains, Ersr, Schedule
  <1>4. DirectoryInv'
    BY <1>0, <1>a, <1>b DEF DirectoryInv, loop, Going, BodyPcs, RowPcs, RowlessPcs
  <1> QED BY <1>1, <1>2, <1>3, <1>4 DEF IInv

LEMMA MergeDoneStep ==
    ASSUME IInv, MergeDone
    PROVE  IInv' /\ DocumentsKept
  <1>0. TypeOK /\ DocumentInv /\ LoopInv /\ RowInv /\ InitialInv /\ DirectoryInv
    BY DEF IInv
  <1>a. /\ pc = "merging" /\ ~exc /\ pc' = "base"
        /\ UNCHANGED <<disk, mem, exc, launch, loop, dirs, end>>
    BY <1>0 DEF MergeDone, LoopInv
  <1>1. TypeOK'
    BY <1>0, <1>a DEF TypeOK, launch, loop, dirs, end
  <1>2. DocumentInv' /\ DocumentsKept
    BY <1>0, <1>a DEF DocumentInv, CompletedIsComplete, launch, end, DocumentsKept, Kept
  <1>3. LoopInv' /\ RowInv' /\ InitialInv' /\ DirectoryInv'
    BY <1>0, <1>a DEF LoopInv, RowInv, InitialInv, DirectoryInv, launch, loop, dirs, Going,
       CompletedSteps, BeforePcs, BodyPcs, RowPcs, RowlessPcs, InitialPcs, EarlyPcs, Retains,
       Ersr, Schedule
  <1> QED BY <1>1, <1>2, <1>3 DEF IInv

LEMMA BaseEvaluatedStep ==
    ASSUME IInv, BaseEvaluated
    PROVE  IInv' /\ DocumentsKept
  <1>0. TypeOK /\ DocumentInv /\ LoopInv /\ RowInv /\ InitialInv /\ DirectoryInv
    BY DEF IInv
  <1> DEFINE row == Row(cur, "base_completed", 0)
             d == WithRow(mem, row)
             p == IF Ersr THEN "prepare" ELSE "finish"
  <1>a. /\ pc = "base" /\ ~exc /\ sig \in Configs /\ mem \in Document
        /\ mem.sig = sig /\ mem.status = "running" /\ Sound(mem)
        /\ UNCHANGED <<launch, loop, dirs, end>> /\ SaveThen(d, p)
    BY <1>0 DEF BaseEvaluated, DocumentInv, LoopInv, TypeOK
  <1>b. /\ row = [step |-> cur, status |-> "base_completed", run |-> run, sig |-> sig, teacher |-> 0]
        /\ row \in RowType
    BY <1>0, <1>a, MaxRunsAssumption DEF Row, RowType, TypeOK
  <1> HIDE DEF row
  <1>c. /\ d \in Document /\ d.rows = mem.rows \cup {row} /\ d.initial = mem.initial
        /\ d.sig = sig /\ d.status = "running" /\ d.phase = mem.phase
    BY <1>a, <1>b, WithRowFields
  <1>d. /\ \A r \in mem.rows : r.step # cur
        /\ cur \in Steps /\ cur # NoStep /\ cur \notin todo /\ cur \notin works
        /\ sig.schedule # "per_checkpoint" => mem.phase.kind # "student"
    BY <1>0, <1>a, NoStepIsNoStep DEF RowInv, LoopInv, Going, RowlessPcs, BodyPcs, EarlyPcs,
       Retains, Schedule
  <1>e. Sound(d) /\ Kept(mem, d)
    BY <1>a, <1>b, <1>c, <1>d DEF Sound, Kept, Unmixed
  <1>f. p \in Pcs \ {"off"}
    BY DEF Pcs
  <1> HIDE DEF d, p
  <1>g. /\ DocumentInv' /\ DocumentsKept
        /\ mem' = d /\ mem' \in Document /\ disk' \in Document /\ pc' \in Pcs /\ exc' \in BOOLEAN
        /\ (pc' = p /\ ~exc') \/ (pc' = "cleanup" /\ exc')
    BY <1>0, <1>a, <1>c, <1>e, <1>f, SaveKeeps
  <1>1. TypeOK'
    BY <1>0, <1>a, <1>g, TypesAfter DEF TypeOK, loop
  <1>2. CompletedSteps(mem') = CompletedSteps(mem)
    BY <1>b, <1>c, <1>g DEF CompletedSteps
  <1>3. LoopInv'
    BY <1>0, <1>a, <1>b, <1>c, <1>d, <1>g, <1>2 DEF p, LoopInv, loop, launch, Going, BeforePcs,
       BodyPcs, RowPcs, RowlessPcs, InitialPcs, Retains, Ersr, Schedule
  <1>4. RowInv'
    BY <1>0, <1>a, <1>b, <1>c, <1>d, <1>g, <1>2 DEF p, RowInv, loop, launch, Going, BeforePcs,
       BodyPcs, RowPcs, RowlessPcs, InitialPcs, EarlyPcs, Retains, Ersr, Schedule
  <1>5. InitialInv' /\ DirectoryInv'
    BY <1>0, <1>a, <1>c, <1>g DEF p, InitialInv, DirectoryInv, loop, launch, dirs, Going,
       BodyPcs, RowPcs, RowlessPcs, InitialPcs, Ersr
  <1> QED BY <1>g, <1>1, <1>3, <1>4, <1>5 DEF IInv

LEMMA PrepareErsrStep ==
    ASSUME IInv, PrepareErsr
    PROVE  IInv' /\ DocumentsKept
  <1>0. TypeOK /\ DocumentInv /\ LoopInv /\ RowInv /\ InitialInv /\ DirectoryInv
    BY DEF IInv
  <1>a. /\ pc = "prepare" /\ ~exc /\ sig \in Configs /\ mem \in Document
        /\ mem.sig = sig /\ mem.status = "running" /\ Sound(mem)
        /\ UNCHANGED <<launch, done, todo, cur, dirs, end>>
        /\ cur \in Steps /\ works \subseteq Steps
    BY <1>0 DEF PrepareErsr, DocumentInv, LoopInv, TypeOK, Going, BodyPcs, RowPcs
  <1>b. PICK row \in mem.rows : row.step = cur /\ row.status = "base_completed"
    BY <1>0, <1>a DEF RowInv, Going, RowPcs
  <1>c. CASE Retains /\ works' = works \cup {cur} /\ pc' = "next" /\ UNCHANGED <<mem, disk, exc>>
    <2>1. TypeOK'
      BY <1>0, <1>a, <1>c, TypesAfter DEF TypeOK, Pcs
    <2>2. DocumentInv' /\ DocumentsKept
      BY <1>0, <1>a, <1>c DEF DocumentInv, CompletedIsComplete, launch, end, DocumentsKept, Kept
    <2>3. LoopInv'
      BY <1>0, <1>a, <1>c DEF LoopInv, RowInv, InitialInv, DirectoryInv, launch, loop, dirs,
         Going, CompletedSteps, BeforePcs, BodyPcs, RowPcs, RowlessPcs, InitialPcs, EarlyPcs,
         Retains, Ersr, Schedule
    <2>4. RowInv'
      BY <1>0, <1>a, <1>b, <1>c DEF RowInv, InitialInv, DirectoryInv, launch, loop, dirs, Going,
         CompletedSteps, BeforePcs, BodyPcs, RowPcs, RowlessPcs, InitialPcs, EarlyPcs, Retains,
         Ersr, Schedule
    <2>5. InitialInv' /\ DirectoryInv'
      BY <1>0, <1>a, <1>c DEF RowInv, InitialInv, DirectoryInv, launch, loop, dirs, Going,
         CompletedSteps, BeforePcs, BodyPcs, RowPcs, RowlessPcs, InitialPcs, EarlyPcs, Retains,
         Ersr, Schedule
    <2> QED BY <2>1, <2>2, <2>3, <2>4, <2>5 DEF IInv
  <1>d. CASE ~Retains /\ UNCHANGED works /\ SaveThen(SetPhase(mem, "teacher", cur), "teacher")
    <2> DEFINE d == SetPhase(mem, "teacher", cur)
               p == "teacher"
    <2>1. "teacher" \in PhaseKinds /\ cur \in StepOrNone /\ p \in Pcs \ {"off"}
      BY <1>a DEF PhaseKinds, StepOrNone, Pcs
    <2>2. /\ d \in Document /\ d.rows = mem.rows /\ d.initial = mem.initial
          /\ d.sig = sig /\ d.status = "running" /\ d.phase.kind = "teacher"
      BY <1>a, <2>1, SetPhaseFields
    <2>3. Sound(d) /\ Kept(mem, d)
      BY <1>a, <2>2 DEF Sound, Kept, Unmixed
    <2>4. SaveThen(d, p)
      BY <1>d
    <2> HIDE DEF d
    <2>5. /\ DocumentInv' /\ DocumentsKept
          /\ mem' = d /\ mem' \in Document /\ disk' \in Document /\ pc' \in Pcs /\ exc' \in BOOLEAN
          /\ (pc' = p /\ ~exc') \/ (pc' = "cleanup" /\ exc')
      BY <1>0, <1>a, <2>1, <2>2, <2>3, <2>4, SaveKeeps
    <2>6. TypeOK'
      BY <1>0, <1>a, <1>d, <2>5, TypesAfter DEF TypeOK
    <2>7. LoopInv' /\ InitialInv' /\ DirectoryInv'
      BY <1>0, <1>a, <1>d, <2>2, <2>5 DEF LoopInv, RowInv, InitialInv, DirectoryInv, launch,
         loop, dirs, Going, CompletedSteps, BeforePcs, BodyPcs, RowPcs, RowlessPcs, InitialPcs,
         EarlyPcs, Retains, Ersr, Schedule
    <2>8. RowInv'
      BY <1>0, <1>a, <1>d, <2>2, <2>5 DEF RowInv, InitialInv, DirectoryInv, launch, loop, dirs,
         Going, CompletedSteps, BeforePcs, BodyPcs, RowPcs, RowlessPcs, InitialPcs, EarlyPcs,
         Retains, Ersr, Schedule
    <2> QED BY <2>5, <2>6, <2>7, <2>8 DEF IInv
  <1> QED BY <1>a, <1>c, <1>d DEF PrepareErsr

LEMMA TeacherStep ==
    ASSUME IInv, Teacher
    PROVE  IInv' /\ DocumentsKept
  <1>0. TypeOK /\ DocumentInv /\ LoopInv /\ RowInv /\ InitialInv /\ DirectoryInv
    BY DEF IInv
  <1>a. /\ pc = "teacher" /\ ~exc /\ sig \in Configs /\ mem \in Document
        /\ mem.sig = sig /\ mem.status = "running" /\ Sound(mem)
        /\ UNCHANGED <<launch, loop, dirs, end>>
        /\ cur \in Steps /\ ~Retains /\ Ersr
    BY <1>0 DEF Teacher, DocumentInv, LoopInv, TypeOK, Going, BodyPcs, RowPcs
  <1>b. PICK row \in mem.rows : row.step = cur /\ row.run = run /\ row.status = "base_completed"
    BY <1>0, <1>a DEF RowInv, Going, RowPcs
  <1> DEFINE new == [row EXCEPT !.teacher = run]
             d == SetPhase(SetRow(mem, new), "student", cur)
             p == "finish"
  <1>c. /\ new \in RowType /\ new.step = cur /\ new.run = run /\ new.status = "base_completed"
        /\ new.teacher = run /\ new.sig = row.sig
    BY <1>0, <1>a, <1>b DEF TypeOK, Document, RowType
  <1>d. SaveThen(d, p)
    BY <1>a, <1>b, RowOfRow DEF Teacher
  <1> HIDE DEF new
  <1>e. /\ SetRow(mem, new) \in Document
        /\ "student" \in PhaseKinds /\ cur \in StepOrNone /\ p \in Pcs \ {"off"}
    BY <1>a, <1>c, SetRowFields DEF PhaseKinds, StepOrNone, Pcs
  <1>f. /\ d \in Document /\ d.rows = {q \in mem.rows : q.step # cur} \cup {new}
        /\ d.initial = mem.initial /\ d.sig = sig /\ d.status = "running"
        /\ d.phase.kind = "student" /\ d.phase.step = cur
    BY <1>a, <1>c, <1>e, SetRowFields, SetPhaseFields
  <1>g. sig.schedule = "per_checkpoint" /\ sig.ersr
    BY <1>a DEF Retains, Schedule, Ersr
  <1>h. Sound(d) /\ Kept(mem, d)
    <2>1. \A r \in mem.rows : r.step = cur => r = row
      BY <1>a, <1>b DEF Sound
    <2>2. Unmixed(row, mem) /\ \A r \in mem.rows : Unmixed(r, d)
      BY <1>a, <1>b, <1>f DEF Sound, Unmixed
    <2>3. Unmixed(new, d)
      BY <1>a, <1>c, <1>f, <2>2 DEF Unmixed
    <2>4. Kept(mem, d)
      BY <1>b, <1>f, <2>1 DEF Kept
    <2> QED BY <1>a, <1>b, <1>c, <1>f, <1>g, <2>2, <2>3, <2>4 DEF Sound, Unmixed
  <1> HIDE DEF d
  <1>i. /\ DocumentInv' /\ DocumentsKept
        /\ mem' = d /\ mem' \in Document /\ disk' \in Document /\ pc' \in Pcs /\ exc' \in BOOLEAN
        /\ (pc' = p /\ ~exc') \/ (pc' = "cleanup" /\ exc')
    BY <1>0, <1>a, <1>d, <1>e, <1>f, <1>h, SaveKeeps
  <1>1. TypeOK'
    BY <1>0, <1>a, <1>i, TypesAfter DEF TypeOK, loop
  <1>2. CompletedSteps(mem') = CompletedSteps(mem)
    <2>1. \A r \in mem.rows : r.step = cur => r = row
      BY <1>a, <1>b DEF Sound
    <2> QED BY <1>b, <1>c, <1>f, <1>i, <2>1 DEF CompletedSteps
  <1>3. LoopInv'
    BY <1>0, <1>a, <1>i, <1>2 DEF LoopInv, loop, launch, Going, BeforePcs, BodyPcs, RowPcs,
       RowlessPcs, InitialPcs, Retains, Ersr, Schedule
  <1>4. RowInv'
    BY <1>0, <1>a, <1>c, <1>f, <1>i, <1>2 DEF RowInv, LoopInv, loop, launch, Going, BeforePcs,
       BodyPcs, RowPcs, RowlessPcs, InitialPcs, EarlyPcs, Retains, Ersr, Schedule
  <1>5. InitialInv' /\ DirectoryInv'
    BY <1>0, <1>a, <1>f, <1>i DEF InitialInv, DirectoryInv, loop, launch, dirs, Going, BodyPcs,
       RowPcs, RowlessPcs, InitialPcs, Ersr
  <1> QED BY <1>i, <1>1, <1>3, <1>4, <1>5 DEF IInv

LEMMA CompleteStep ==
    ASSUME IInv, Complete
    PROVE  IInv' /\ DocumentsKept
  <1>0. TypeOK /\ DocumentInv /\ LoopInv /\ RowInv /\ InitialInv /\ DirectoryInv
    BY DEF IInv
  <1>a. /\ pc = "finish" /\ ~exc /\ sig \in Configs /\ mem \in Document
        /\ mem.sig = sig /\ mem.status = "running" /\ Sound(mem)
        /\ UNCHANGED <<launch, loop, dirs, end>>
        /\ cur \in Steps
    BY <1>0 DEF Complete, DocumentInv, LoopInv, TypeOK, Going, BodyPcs, RowPcs
  <1>b. PICK row \in mem.rows : /\ row.step = cur /\ row.run = run /\ row.status = "base_completed"
                                /\ Ersr => row.teacher = run
    BY <1>0, <1>a DEF RowInv, Going, RowPcs
  <1> DEFINE new == [row EXCEPT !.status = "completed"]
             d == SetRow(mem, new)
  <1>c. /\ new \in RowType /\ new.step = cur /\ new.run = run /\ new.status = "completed"
        /\ new.teacher = row.teacher /\ new.sig = row.sig
    BY <1>0, <1>a, <1>b DEF TypeOK, Document, RowType
  <1>d. \/ mem' = d /\ pc' = "cleanup" /\ UNCHANGED <<disk, exc>>
        \/ SaveThen(d, "cleanup")
    BY <1>a, <1>b, RowOfRow DEF Complete
  <1> HIDE DEF new
  <1>e. /\ d \in Document /\ d.rows = {q \in mem.rows : q.step # cur} \cup {new}
        /\ d.initial = mem.initial /\ d.sig = sig /\ d.status = "running" /\ d.phase = mem.phase
    BY <1>a, <1>c, SetRowFields
  <1>f. \A r \in mem.rows : r.step = cur => r = row
    BY <1>a, <1>b DEF Sound
  <1>g. Sound(d) /\ Kept(mem, d)
    <2>1. Unmixed(row, mem) /\ \A r \in mem.rows : Unmixed(r, d)
      BY <1>a, <1>b, <1>e DEF Sound, Unmixed
    <2>2. Unmixed(new, d)
      BY <1>a, <1>b, <1>c, <1>e, <2>1 DEF Unmixed, Ersr
    <2>3. /\ \A r \in d.rows : r.step # NoStep
          /\ \A q, r \in d.rows : q.step = r.step => q = r
          /\ d.initial # NoRow => Unmixed(d.initial, d)
          /\ d.phase.kind = "initial_student" => d.initial.teacher = d.initial.run
      BY <1>a, <1>b, <1>c, <1>e DEF Sound, Unmixed
    <2>4. d.phase.kind = "student" =>
            IF d.sig.schedule # "per_checkpoint" THEN \A r \in d.rows : r.teacher = r.run
            ELSE \E r \in d.rows : r.step = d.phase.step /\ r.teacher = r.run
      BY <1>a, <1>b, <1>c, <1>e, <1>f DEF Sound
    <2>5. Kept(mem, d)
      BY <1>b, <1>e, <1>f DEF Kept
    <2> QED BY <1>c, <1>e, <2>1, <2>2, <2>3, <2>4, <2>5 DEF Sound
  <1>h. /\ mem' = d /\ (disk' = disk \/ disk' = mem') /\ pc' = "cleanup" /\ exc' \in BOOLEAN
    BY <1>0, <1>d DEF SaveThen, TypeOK
  <1> HIDE DEF d
  <1>i. /\ DocumentInv' /\ DocumentsKept
    BY <1>0, <1>a, <1>e, <1>g, <1>h, SaveKeepsDocuments, SaveKeepsResults DEF launch, end
  <1>1. TypeOK'
    BY <1>0, <1>a, <1>e, <1>h, TypesAfter DEF TypeOK, loop, Pcs
  <1>2. CompletedSteps(mem') = CompletedSteps(mem) \cup {cur}
    BY <1>b, <1>c, <1>e, <1>f, <1>h DEF CompletedSteps
  <1>3. LoopInv'
    BY <1>0, <1>a, <1>h, <1>2 DEF LoopInv, loop, launch, Going, BeforePcs, BodyPcs, RowPcs,
       RowlessPcs, InitialPcs, Retains, Ersr, Schedule
  <1>4. RowInv'
    <2>1. cur \notin works /\ cur \notin todo
      BY <1>0, <1>a DEF LoopInv, Going, BodyPcs, RowPcs
    <2>2. \A s \in works' : \E r \in mem'.rows : r.step = s /\ r.status = "base_completed"
      BY <1>0, <1>a, <1>e, <1>h, <2>1 DEF RowInv, Going, loop
    <2>3. Retains' /\ Ersr' => \A r \in mem'.rows : r.teacher = run'
      BY <1>0, <1>a, <1>b, <1>c, <1>e, <1>h DEF RowInv, Going, Retains, Ersr, Schedule, launch
    <2> QED BY <1>0, <1>a, <1>c, <1>e, <1>h, <1>2, <2>1, <2>2, <2>3 DEF RowInv, loop, launch,
       Going, BodyPcs, RowPcs, RowlessPcs, BeforePcs, InitialPcs, EarlyPcs, Retains, Ersr,
       Schedule
  <1>5. InitialInv' /\ DirectoryInv'
    BY <1>0, <1>a, <1>e, <1>h DEF InitialInv, DirectoryInv, loop, launch, dirs, Going, BodyPcs,
       RowPcs, RowlessPcs, InitialPcs, Ersr
  <1> QED BY <1>i, <1>1, <1>3, <1>4, <1>5 DEF IInv

LEMMA TeacherPhaseStep ==
    ASSUME IInv, TeacherPhase
    PROVE  IInv' /\ DocumentsKept
  <1>0. TypeOK /\ DocumentInv /\ LoopInv /\ RowInv /\ InitialInv /\ DirectoryInv
    BY DEF IInv
  <1> DEFINE d == SetPhase(mem, "teacher", NoStep)
         p == "teacherAll"
  <1>a. /\ pc # "off" /\ ~exc /\ sig \in Configs /\ mem \in Document /\ run \in 0..MaxRuns
        /\ mem.sig = sig /\ mem.status = "running" /\ Sound(mem)
        /\ UNCHANGED <<launch, loop, dirs, end>>
    BY <1>0 DEF TeacherPhase, DocumentInv, LoopInv, TypeOK
  <1>b. /\ d \in Document /\ d.rows = mem.rows /\ d.initial = mem.initial /\ d.sig = sig
        /\ d.status = "running" /\ d.phase.kind = "teacher"
    <2>1. "teacher" \in PhaseKinds /\ NoStep \in StepOrNone
      BY DEF PhaseKinds, StepOrNone
    <2> QED BY <1>a, <2>1, SetPhaseFields
  <1>d. Sound(d) /\ Kept(mem, d)
    BY <1>a, <1>b DEF Sound, Kept, Unmixed
  <1>e. SaveThen(d, p) /\ p \in Pcs \ {"off"}
    BY DEF TeacherPhase, Pcs
  <1> HIDE DEF d, p
  <1>f. /\ DocumentInv' /\ DocumentsKept
        /\ mem' = d /\ mem' \in Document /\ disk' \in Document /\ pc' \in Pcs /\ exc' \in BOOLEAN
        /\ (pc' = p /\ ~exc') \/ (pc' = "cleanup" /\ exc')
    BY <1>0, <1>a, <1>b, <1>d, <1>e, SaveKeeps
  <1>1. TypeOK'
    BY <1>0, <1>a, <1>f, TypesAfter DEF TypeOK, loop
  <1>2. DocumentInv'
    BY <1>f
  <1>3. LoopInv'
    BY <1>0, <1>a, <1>b, <1>f DEF TeacherPhase, LoopInv, RowInv, Schedule, Ersr, InitialBase,
       Retains, Going, RowPcs, RowlessPcs, BodyPcs, InitialPcs, BeforePcs, EarlyPcs,
       CompletedSteps, launch, loop, dirs, end, SaveThen, p
  <1>4. RowInv'
    BY <1>0, <1>a, <1>b, <1>f DEF TeacherPhase, RowInv, LoopInv, TypeOK, Document, RowType,
       DocumentInv, Sound, Schedule, Ersr, InitialBase, Retains, Going, RowPcs, RowlessPcs,
       BodyPcs, InitialPcs, BeforePcs, EarlyPcs, CompletedSteps, launch, loop, dirs, end,
       SaveThen, p
  <1>5. InitialInv'
    BY <1>0, <1>a, <1>b, <1>f DEF TeacherPhase, InitialInv, LoopInv, TypeOK, Document, RowType,
       NoRow, Schedule, Ersr, InitialBase, Retains, Going, RowPcs, RowlessPcs, BodyPcs,
       InitialPcs, BeforePcs, EarlyPcs, CompletedSteps, launch, loop, dirs, end, SaveThen, p
  <1>6. DirectoryInv'
    BY <1>0, <1>a, <1>b, <1>f DEF TeacherPhase, DirectoryInv, LoopInv, RowInv, TmpDir, Leaving,
       TypeOK, Directory, Schedule, Ersr, InitialBase, Retains, Going, RowPcs, RowlessPcs,
       BodyPcs, InitialPcs, BeforePcs, EarlyPcs, CompletedSteps, launch, loop, dirs, end,
       SaveThen, p
  <1>7. DocumentsKept
    BY <1>f
  <1> QED BY <1>1, <1>2, <1>3, <1>4, <1>5, <1>6, <1>7 DEF IInv

LEMMA TeacherAllStep ==
    ASSUME IInv, TeacherAll
    PROVE  IInv' /\ DocumentsKept
  <1>0. TypeOK /\ DocumentInv /\ LoopInv /\ RowInv /\ InitialInv /\ DirectoryInv
    BY DEF IInv
  <1> DEFINE new == [mem EXCEPT !.rows =
                        {IF r.step \in works THEN [r EXCEPT !.teacher = run] ELSE r : r \in @}]
             d == SetPhase(new, "student", NoStep)
             p == "students"
  <1>a. /\ pc = "teacherAll" /\ ~exc /\ sig \in Configs /\ mem \in Document
        /\ mem.sig = sig /\ mem.status = "running" /\ Sound(mem) /\ run \in 0..MaxRuns
        /\ UNCHANGED <<launch, loop, dirs, end>> /\ SaveThen(d, p) /\ Retains /\ Ersr
    BY <1>0 DEF TeacherAll, DocumentInv, LoopInv, TypeOK, Going
  <1>b. \A r \in mem.rows : r \in RowType /\ r.step \in works /\ r.run = run
    BY <1>0, <1>a DEF RowInv, Going, Document
  <1>c. \A r \in mem.rows :
          /\ Stamped(r) \in RowType
          /\ Stamped(r).step = r.step /\ Stamped(r).run = run
          /\ Stamped(r).sig = r.sig /\ Stamped(r).teacher = run
          /\ Stamped(r).status = r.status
    BY <1>a, <1>b DEF RowType, Stamped
  <1>d. \A s \in works : \E r \in mem.rows : r.step = s /\ r.status = "base_completed"
    BY <1>0, <1>a DEF RowInv, Going
  <1>e. \A r \in mem.rows : r.status = "base_completed"
    BY <1>a, <1>b, <1>d DEF Sound
  <1>f. /\ new \in Document /\ new.rows = {Stamped(r) : r \in mem.rows}
        /\ new.initial = mem.initial /\ new.sig = sig /\ new.status = "running"
    <2>1. new.rows = {IF r.step \in works THEN Stamped(r) ELSE r : r \in mem.rows}
      BY <1>a DEF Document, Stamped
    <2>2. new.rows = {Stamped(r) : r \in mem.rows}
      BY <1>b, <2>1
    <2>3. new.rows \in SUBSET RowType
      BY <1>c, <2>2
    <2>4. /\ new.initial = mem.initial /\ new.sig = sig /\ new.status = "running" /\ new.phase = mem.phase
      BY <1>a DEF Document
    <2>5. new = [mem EXCEPT !.rows = new.rows]
      BY <1>a, <2>1 DEF Document
    <2> HIDE DEF new
    <2>6. new \in Document
      BY <1>a, <2>3, <2>5 DEF Document
    <2> QED BY <2>2, <2>4, <2>6
  <1> HIDE DEF new
  <1>g. /\ d \in Document /\ d.rows = {Stamped(r) : r \in mem.rows}
        /\ d.initial = mem.initial /\ d.sig = sig /\ d.status = "running" /\ d.phase.kind = "student"
    <2>1. "student" \in PhaseKinds /\ NoStep \in StepOrNone
      BY DEF PhaseKinds, StepOrNone
    <2> QED BY <1>f, <2>1, SetPhaseFields
  <1> HIDE DEF d
  <1>h. /\ \A r \in d.rows : \E q \in mem.rows :
               /\ r = Stamped(q) /\ r.step = q.step /\ r.sig = q.sig
               /\ r.status = "base_completed" /\ r.run = run /\ r.teacher = run
        /\ \A q \in mem.rows : \E r \in d.rows : r.step = q.step /\ r.status = "base_completed"
    <2>1. \A q \in mem.rows : Stamped(q) \in d.rows
      BY <1>g
    <2>2. \A q \in mem.rows : \E r \in d.rows : r.step = q.step /\ r.status = "base_completed"
      BY <1>c, <1>e, <2>1
    <2>3. \A r \in d.rows : \E q \in mem.rows : r = Stamped(q)
      BY <1>g
    <2> QED BY <1>c, <1>e, <2>2, <2>3
  <1>i. Sound(d) /\ Kept(mem, d)
    <2>1. /\ \A r \in d.rows : r.step # NoStep
          /\ \A q, r \in d.rows : q.step = r.step => q = r
      BY <1>a, <1>h DEF Sound
    <2>2. \A r \in d.rows : Unmixed(r, d)
      BY <1>a, <1>g, <1>h DEF Sound, Unmixed
    <2>3. d.initial # NoRow => Unmixed(d.initial, d)
      BY <1>a, <1>g DEF Sound, Unmixed
    <2>4. sig.schedule # "per_checkpoint" /\ \A r \in d.rows : r.teacher = r.run
      BY <1>a, <1>h DEF Retains, Schedule
    <2>5. Kept(mem, d)
      BY <1>e DEF Kept
    <2> QED BY <1>g, <2>1, <2>2, <2>3, <2>4, <2>5 DEF Sound
  <1>j. p \in Pcs \ {"off"}
    BY DEF Pcs
  <1>k. /\ DocumentInv' /\ DocumentsKept
        /\ mem' = d /\ mem' \in Document /\ disk' \in Document /\ pc' \in Pcs /\ exc' \in BOOLEAN
        /\ (pc' = p /\ ~exc') \/ (pc' = "cleanup" /\ exc')
    BY <1>0, <1>a, <1>g, <1>i, <1>j, SaveKeeps
  <1>1. TypeOK'
    BY <1>0, <1>a, <1>k, TypesAfter DEF TypeOK, loop
  <1>2. CompletedSteps(mem') = CompletedSteps(mem)
    BY <1>e, <1>h, <1>k DEF CompletedSteps
  <1>3. LoopInv'
    BY <1>0, <1>a, <1>k, <1>2 DEF LoopInv, loop, launch, Going, BeforePcs, BodyPcs, RowPcs,
       RowlessPcs, InitialPcs, Retains, Ersr, Schedule
  <1>4. RowInv'
    <2>1. \A s \in works' : \E r \in mem'.rows : r.step = s /\ r.status = "base_completed"
      BY <1>a, <1>d, <1>h, <1>k DEF loop
    <2>2. \A r \in mem'.rows : r.run = run' /\ r.step \notin todo' /\ r.teacher = run'
      BY <1>0, <1>a, <1>h, <1>k DEF RowInv, Going, loop, launch
    <2> QED BY <1>a, <1>k, <2>1, <2>2 DEF RowInv, loop, launch, Going, BodyPcs, RowPcs,
       RowlessPcs, BeforePcs, InitialPcs, EarlyPcs, Retains, Ersr, Schedule
  <1>5. InitialInv' /\ DirectoryInv'
    BY <1>0, <1>a, <1>g, <1>k DEF InitialInv, DirectoryInv, loop, launch, dirs, Going, BodyPcs,
       RowPcs, RowlessPcs, InitialPcs, Ersr
  <1> QED BY <1>k, <1>1, <1>3, <1>4, <1>5 DEF IInv

LEMMA NextStudentStep ==
    ASSUME IInv, NextStudent
    PROVE  IInv' /\ DocumentsKept
  <1>0. TypeOK /\ DocumentInv /\ LoopInv /\ RowInv /\ InitialInv /\ DirectoryInv
    BY DEF IInv
  <1> DEFINE s == First(works)
  <1>a. /\ pc = "students" /\ ~exc /\ sig \in Configs
        /\ UNCHANGED <<disk, mem, exc, launch, done, todo, dirs, end>>
        /\ cur' = s /\ works' = works \ {s} /\ pc' = "finish" /\ Retains /\ Ersr /\ todo = {}
    BY <1>0 DEF NextStudent, DocumentInv, LoopInv, TypeOK, Going
  <1>b. s \in works /\ works \subseteq Steps
    BY <1>0, FirstIsIn DEF NextStudent, TypeOK
  <1> HIDE DEF s
  <1>1. TypeOK'
    BY <1>0, <1>a, <1>b, TypesAfter DEF TypeOK, Pcs, StepOrNone
  <1>2. DocumentInv' /\ DocumentsKept
    BY <1>0, <1>a DEF DocumentInv, CompletedIsComplete, launch, end, DocumentsKept, Kept
  <1>3. LoopInv'
    BY <1>0, <1>a, <1>b DEF LoopInv, launch, Going, CompletedSteps, BeforePcs, BodyPcs, RowPcs,
       RowlessPcs, InitialPcs, Retains, Ersr, Schedule
  <1>4. RowInv'
    <2>1. PICK r \in mem.rows : r.step = s /\ r.status = "base_completed"
      BY <1>0, <1>a, <1>b DEF RowInv, Going
    <2>2. \A q \in mem.rows : q.run = run /\ q.teacher = run
      BY <1>0, <1>a DEF RowInv, Going
    <2> QED BY <1>0, <1>a, <1>b, <2>1, <2>2 DEF RowInv, launch, Going, CompletedSteps,
       BeforePcs, BodyPcs, RowPcs, RowlessPcs, InitialPcs, EarlyPcs, Retains, Ersr, Schedule
  <1>5. InitialInv' /\ DirectoryInv'
    BY <1>0, <1>a, <1>b DEF InitialInv, DirectoryInv, launch, dirs, Going, BodyPcs, RowPcs,
       RowlessPcs, InitialPcs, Ersr
  <1> QED BY <1>1, <1>2, <1>3, <1>4, <1>5 DEF IInv

LEMMA RemoveDirectoryStep ==
    ASSUME IInv, RemoveDirectory
    PROVE  IInv' /\ DocumentsKept
  <1>0. TypeOK /\ DocumentInv /\ LoopInv /\ RowInv /\ InitialInv /\ DirectoryInv
    BY DEF IInv
  <1>a. /\ pc = "cleanup" /\ UNCHANGED <<disk, mem, pc, exc, launch, loop, end>>
        /\ \E d \in owned :
             /\ owned' = owned \ {d}
             /\ \/ tmp' = tmp \ {d} /\ UNCHANGED <<leftover, silent>>
                \/ leftover' = leftover \cup {d} /\ silent' \subseteq silent \cup {d} /\ UNCHANGED tmp
    BY DEF RemoveDirectory, Leaving
  <1>1. TypeOK'
    BY <1>0, <1>a DEF TypeOK, launch, loop, end
  <1>2. DocumentInv' /\ DocumentsKept
    BY <1>0, <1>a DEF DocumentInv, CompletedIsComplete, launch, end, DocumentsKept, Kept
  <1>3. LoopInv' /\ RowInv' /\ InitialInv'
    BY <1>0, <1>a DEF LoopInv, RowInv, InitialInv, launch, loop, Going, CompletedSteps, Retains,
       Ersr, Schedule
  <1>4. DirectoryInv'
    BY <1>0, <1>a DEF DirectoryInv, loop, Going
  <1> QED BY <1>1, <1>2, <1>3, <1>4 DEF IInv

LEMMA CleanedUpStep ==
    ASSUME IInv, CleanedUp
    PROVE  IInv' /\ DocumentsKept
  <1>0. TypeOK /\ DocumentInv /\ LoopInv /\ RowInv /\ InitialInv /\ DirectoryInv
    BY DEF IInv
  <1>a. /\ pc = "cleanup" /\ UNCHANGED <<disk, mem, exc, launch, loop, dirs, end>>
        /\ \A d \in owned : ~exc /\ d.step # cur
        /\ \/ exc /\ pc' = "failing"
           \/ ~exc /\ Retains /\ Ersr /\ pc' = "students"
           \/ ~exc /\ ~(Retains /\ Ersr) /\ pc' = "next"
    BY DEF CleanedUp, Leaving
  <1>1. TypeOK'
    BY <1>0, <1>a DEF TypeOK, launch, loop, dirs, end
  <1>2. DocumentInv' /\ DocumentsKept
    BY <1>0, <1>a DEF DocumentInv, CompletedIsComplete, launch, end, DocumentsKept, Kept
  <1>3. LoopInv'
    BY <1>0, <1>a DEF LoopInv, RowInv, InitialInv, DirectoryInv, launch, loop, dirs, Going,
       CompletedSteps, BeforePcs, BodyPcs, RowPcs, RowlessPcs, InitialPcs, EarlyPcs, Retains,
       Ersr, Schedule
  <1>4. RowInv'
    BY <1>0, <1>a DEF RowInv, InitialInv, DirectoryInv, launch, loop, dirs, Going,
       CompletedSteps, BeforePcs, BodyPcs, RowPcs, RowlessPcs, InitialPcs, EarlyPcs, Retains,
       Ersr, Schedule
  <1>5. InitialInv' /\ DirectoryInv'
    BY <1>0, <1>a DEF RowInv, InitialInv, DirectoryInv, launch, loop, dirs, Going,
       CompletedSteps, BeforePcs, BodyPcs, RowPcs, RowlessPcs, InitialPcs, EarlyPcs, Retains,
       Ersr, Schedule
  <1> QED BY <1>1, <1>2, <1>3, <1>4, <1>5 DEF IInv

LEMMA RecordFailureStep ==
    ASSUME IInv, RecordFailure
    PROVE  IInv' /\ DocumentsKept
  <1>0. TypeOK /\ DocumentInv /\ LoopInv /\ RowInv /\ InitialInv /\ DirectoryInv
    BY DEF IInv
  <1> DEFINE d == [mem EXCEPT !.status = "failed"]
  <1>a. /\ pc = "failing" /\ exc /\ mem \in Document /\ Sound(mem)
        /\ mem' = d /\ pc' = "off" /\ UNCHANGED <<exc, launch, loop, dirs, claimed>>
        /\ (disk' = d \/ disk' = disk) /\ ended' \in {"failed", "unsaved"}
    BY <1>0 DEF RecordFailure, DocumentInv, LoopInv, TypeOK
  <1>b. /\ d \in Document /\ d.rows = mem.rows /\ d.initial = mem.initial /\ d.sig = mem.sig
        /\ d.status = "failed" /\ d.phase = mem.phase
    BY <1>a DEF Document
  <1> HIDE DEF d
  <1>c. Sound(d)
    BY <1>a, <1>b DEF Sound, Unmixed
  <1>1. TypeOK'
    BY <1>0, <1>a, <1>b DEF TypeOK, launch, loop, dirs
  <1>2. DocumentInv' /\ DocumentsKept
    BY <1>0, <1>a, <1>b, <1>c DEF DocumentInv, CompletedIsComplete, DocumentsKept, Kept
  <1>3. LoopInv' /\ RowInv' /\ InitialInv'
    BY <1>a DEF LoopInv, RowInv, InitialInv, Going
  <1>4. DirectoryInv'
    BY <1>0, <1>a DEF DirectoryInv, Going, dirs
  <1> QED BY <1>1, <1>2, <1>3, <1>4 DEF IInv

LEMMA ScheduleDoneStep ==
    ASSUME IInv, ScheduleDone
    PROVE  IInv' /\ DocumentsKept
  <1>0. TypeOK /\ DocumentInv /\ LoopInv /\ RowInv /\ InitialInv /\ DirectoryInv
    BY DEF IInv
  <1>a. /\ ~exc /\ pc' = "close" /\ UNCHANGED <<disk, mem, exc, launch, loop, dirs, end>>
        /\ \/ pc = "next" /\ todo = {} /\ ~(Retains /\ Ersr)
           \/ pc = "students" /\ works = {}
    BY <1>0 DEF ScheduleDone, LoopInv
  <1>1. TypeOK'
    BY <1>0, <1>a DEF TypeOK, launch, loop, dirs, end
  <1>2. DocumentInv' /\ DocumentsKept
    BY <1>0, <1>a DEF DocumentInv, CompletedIsComplete, launch, end, DocumentsKept, Kept
  <1>3. LoopInv'
    BY <1>0, <1>a DEF LoopInv, RowInv, InitialInv, DirectoryInv, launch, loop, dirs, Going,
       CompletedSteps, BeforePcs, BodyPcs, RowPcs, RowlessPcs, InitialPcs, EarlyPcs, Retains,
       Ersr, Schedule
  <1>4. RowInv'
    BY <1>0, <1>a DEF RowInv, InitialInv, DirectoryInv, launch, loop, dirs, Going,
       CompletedSteps, BeforePcs, BodyPcs, RowPcs, RowlessPcs, InitialPcs, EarlyPcs, Retains,
       Ersr, Schedule
  <1>5. InitialInv' /\ DirectoryInv'
    BY <1>0, <1>a DEF RowInv, InitialInv, DirectoryInv, launch, loop, dirs, Going,
       CompletedSteps, BeforePcs, BodyPcs, RowPcs, RowlessPcs, InitialPcs, EarlyPcs, Retains,
       Ersr, Schedule
  <1> QED BY <1>1, <1>2, <1>3, <1>4, <1>5 DEF IInv

LEMMA CloseStep ==
    ASSUME IInv, Close
    PROVE  IInv' /\ DocumentsKept
  <1>0. TypeOK /\ DocumentInv /\ LoopInv /\ RowInv /\ InitialInv /\ DirectoryInv
    BY DEF IInv
  <1> DEFINE e == [mem EXCEPT !.status = "completed"]
             d == SetPhase(e, "completed", NoStep)
  <1>a. /\ pc = "close" /\ ~exc /\ mem \in Document /\ Sound(mem) /\ mem.sig = sig
        /\ mem' = d /\ pc' = "off" /\ UNCHANGED <<exc, launch, loop, dirs>>
        /\ \/ disk' = d /\ ended' = "done" /\ claimed' = found
           \/ disk' = disk /\ claimed' = claimed /\ ended' = "unsaved"
    BY <1>0 DEF Close, DocumentInv, LoopInv, TypeOK
  <1>b. /\ e \in Document /\ e.rows = mem.rows /\ e.initial = mem.initial /\ e.sig = mem.sig
        /\ e.status = "completed"
    BY <1>a DEF Document
  <1> HIDE DEF e
  <1>c. /\ d \in Document /\ d.rows = mem.rows /\ d.initial = mem.initial /\ d.sig = mem.sig
        /\ d.status = "completed" /\ d.phase.kind = "completed"
    <2>1. "completed" \in PhaseKinds /\ NoStep \in StepOrNone
      BY DEF PhaseKinds, StepOrNone
    <2> QED BY <1>b, <2>1, SetPhaseFields
  <1> HIDE DEF d
  <1>d. Sound(d)
    BY <1>a, <1>c DEF Sound, Unmixed
  <1>e. /\ found \subseteq CompletedSteps(mem) /\ owned = {}
        /\ sig.initial => mem.initial.status = "completed"
    BY <1>0, <1>a DEF LoopInv, DirectoryInv, InitialInv, Going, BodyPcs, RowPcs, RowlessPcs,
       InitialPcs
  <1>1. TypeOK'
    BY <1>0, <1>a, <1>c DEF TypeOK, launch, loop, dirs
  <1>2. DocumentInv' /\ DocumentsKept
    <2>1. CompletedSteps(d) = CompletedSteps(mem)
      BY <1>c DEF CompletedSteps
    <2> QED BY <1>0, <1>a, <1>c, <1>d, <1>e, <2>1 DEF DocumentInv, CompletedIsComplete,
       DocumentsKept, Kept
  <1>3. LoopInv' /\ RowInv' /\ InitialInv'
    BY <1>a DEF LoopInv, RowInv, InitialInv, Going
  <1>4. DirectoryInv'
    BY <1>0, <1>a, <1>e DEF DirectoryInv, Going, dirs
  <1> QED BY <1>1, <1>2, <1>3, <1>4 DEF IInv

LEMMA FailStep ==
    ASSUME IInv, Fail
    PROVE  IInv' /\ DocumentsKept
  <1>0. TypeOK /\ DocumentInv /\ LoopInv /\ RowInv /\ InitialInv /\ DirectoryInv
    BY DEF IInv
  <1>a. /\ pc # "off" /\ pc' = "cleanup" /\ exc'
        /\ UNCHANGED <<disk, mem, launch, loop, dirs, end>>
    BY DEF Fail
  <1>1. TypeOK'
    BY <1>0, <1>a DEF Fail, TypeOK, launch, loop, dirs, end
  <1>2. DocumentInv' /\ DocumentsKept
    BY <1>0, <1>a DEF DocumentInv, CompletedIsComplete, launch, end, DocumentsKept, Kept
  <1>3. LoopInv' /\ RowInv' /\ InitialInv' /\ DirectoryInv'
    BY <1>0, <1>a DEF LoopInv, RowInv, InitialInv, DirectoryInv, Going, dirs
  <1> QED BY <1>1, <1>2, <1>3 DEF IInv

LEMMA CrashStep ==
    ASSUME IInv, Crash
    PROVE  IInv' /\ DocumentsKept
  <1>0. TypeOK /\ DocumentInv /\ LoopInv /\ RowInv /\ InitialInv /\ DirectoryInv
    BY DEF IInv
  <1>a. /\ pc' = "off" /\ ended' = "killed" /\ owned' = {} /\ leftover' = leftover \cup owned
        /\ UNCHANGED <<disk, mem, exc, launch, loop, tmp, silent, claimed>>
    BY DEF Crash
  <1>1. TypeOK'
    BY <1>0, <1>a DEF TypeOK, launch, loop
  <1>2. DocumentInv' /\ DocumentsKept
    BY <1>0, <1>a DEF DocumentInv, CompletedIsComplete, DocumentsKept, Kept
  <1>3. LoopInv' /\ RowInv' /\ InitialInv' /\ DirectoryInv'
    BY <1>0, <1>a DEF LoopInv, RowInv, InitialInv, DirectoryInv, Going
  <1> QED BY <1>1, <1>2, <1>3 DEF IInv

-----------------------------------------------------------------------------
\* The invariant and what follows from it.

LEMMA InitOK == Init => IInv
  <1> SUFFICES ASSUME Init PROVE IInv
    OBVIOUS
  <1>1. NoRow \in RowType /\ NoStep \in StepOrNone
    BY MaxRunsAssumption DEF NoRow, RowType, StepOrNone
  <1>2. /\ NoFile \in Document /\ NoFile.rows = {} /\ NoFile.status = "absent"
        /\ NoFile.initial = NoRow /\ NoFile.phase.kind = "none"
    BY <1>1 DEF NoFile, Document, Phase
  <1>3. TypeOK
    <2>1. run \in 0..MaxRuns /\ cur \in StepOrNone
      BY <1>1, MaxRunsAssumption DEF Init
    <2>2. disk \in Document /\ mem \in Document
      BY <1>2 DEF Init
    <2> QED BY <2>1, <2>2 DEF Init, TypeOK
  <1>4. DocumentInv
    BY <1>2 DEF Init, DocumentInv, Sound, CompletedIsComplete
  <1>5. LoopInv /\ RowInv /\ InitialInv /\ DirectoryInv
    BY DEF Init, LoopInv, RowInv, InitialInv, DirectoryInv, Going
  <1> QED BY <1>3, <1>4, <1>5 DEF IInv

LEMMA NextOK == IInv /\ Next => IInv' /\ DocumentsKept
  BY LaunchStep, OpenStep, InitialStartStep, InitialEvaluatedStep, InitialPrepareStep,
     InitialTeacherStep, InitialFinishStep, BeginLoopStep, NextCheckpointStep, PrepareModelStep,
     MergeDoneStep, BaseEvaluatedStep, PrepareErsrStep, TeacherStep, CompleteStep,
     TeacherPhaseStep, TeacherAllStep, NextStudentStep, RemoveDirectoryStep, CleanedUpStep,
     RecordFailureStep, ScheduleDoneStep, CloseStep, FailStep, CrashStep DEF Next, Step

LEMMA StutterOK == IInv /\ UNCHANGED vars => IInv' /\ DocumentsKept
  <1> SUFFICES ASSUME IInv, UNCHANGED vars PROVE IInv' /\ DocumentsKept
    OBVIOUS
  <1> USE DEF vars, launch, loop, dirs, end
  <1>1. TypeOK' /\ DocumentInv' /\ DocumentsKept
    BY DEF IInv, TypeOK, DocumentInv, CompletedIsComplete, DocumentsKept, Kept
  <1>2. LoopInv' /\ RowInv' /\ InitialInv' /\ DirectoryInv'
    BY DEF IInv, LoopInv, RowInv, InitialInv, DirectoryInv, Going, Retains, Ersr, Schedule,
       CompletedSteps
  <1> QED BY <1>1, <1>2 DEF IInv

LEMMA IInvHolds == Spec => []IInv
  <1>1. IInv /\ [Next]_vars => IInv'
    BY NextOK, StutterOK
  <1> QED BY InitOK, <1>1, PTL DEF Spec

\* The document keeps its shape through every launch, failure and kill.
THEOREM TypeCorrect == Spec => []TypeOK
  <1>1. IInv => TypeOK
    BY DEF IInv
  <1> QED BY <1>1, IInvHolds, PTL

\* At any save a file has one row per checkpoint, made by one launch under the
\* signature of the file: what --resume goes on from is never a mixture.
THEOREM SoundRows == Spec => []RowsAreSound
  <1>1. IInv => RowsAreSound
    BY DEF IInv, DocumentInv, Sound, RowsAreSound, OneRowPerStep, RowsAreUnmixed, Duplicates
  <1> QED BY <1>1, IInvHolds, PTL

\* A file that says "completed" is complete, and its phase "student" comes after
\* the proposals.
THEOREM HonestFile == Spec => []FileIsHonest
  <1>1. IInv => FileIsHonest
    BY DEF IInv, DocumentInv, Sound, FileIsHonest, StudentPhaseHasProposals
  <1> QED BY <1>1, IInvHolds, PTL

\* A schedule that retains no checkpoint owns directories of the current one only.
OneCheckpoint == ~(Retains /\ Ersr) => \A d \in owned : d.step = cur

LEMMA OneCheckpointKept == IInv /\ OneCheckpoint /\ [Next]_vars => OneCheckpoint'
  <1> SUFFICES ASSUME IInv, OneCheckpoint, [Next]_vars PROVE OneCheckpoint'
    OBVIOUS
  <1>1. TypeOK /\ LoopInv /\ DirectoryInv
    BY DEF IInv
  <1>2. ASSUME UNCHANGED <<sig, cur>>, owned' \subseteq owned
        PROVE  OneCheckpoint'
    BY <1>2 DEF OneCheckpoint, Retains, Ersr, Schedule
  <1>3. ASSUME owned' = {}
        PROVE  OneCheckpoint'
    BY <1>3 DEF OneCheckpoint
  <1>4. CASE Step
    <2>1. CASE Open \/ InitialStart \/ InitialEvaluated \/ InitialPrepare \/ InitialTeacher \/ InitialFinish
      BY <1>2, <2>1 DEF Open, InitialStart, InitialEvaluated, InitialPrepare, InitialTeacher,
         InitialFinish, launch, loop, dirs
    <2>2. CASE BeginLoop \/ MergeDone \/ BaseEvaluated \/ PrepareErsr \/ Teacher \/ Complete
      BY <1>2, <2>2 DEF BeginLoop, MergeDone, BaseEvaluated, PrepareErsr, Teacher, Complete,
         launch, loop, dirs
    <2>3. CASE TeacherPhase \/ TeacherAll \/ CleanedUp \/ RecordFailure \/ ScheduleDone \/ Close
      BY <1>2, <2>3 DEF TeacherPhase, TeacherAll, CleanedUp, RecordFailure, ScheduleDone, Close,
         launch, loop, dirs
    <2>4. CASE RemoveDirectory
      BY <1>2, <2>4 DEF RemoveDirectory, launch, loop
    <2>5. CASE PrepareModel
      <3>1. UNCHANGED <<sig, cur>> /\ owned' \subseteq owned \cup {TmpDir(cur)}
        BY <2>5 DEF PrepareModel, launch, loop
      <3>2. TmpDir(cur).step = cur
        BY DEF TmpDir
      <3> QED BY <3>1, <3>2 DEF OneCheckpoint, Retains, Ersr, Schedule
    <2>6. CASE NextCheckpoint
      <3>1. pc = "next" /\ ~exc /\ UNCHANGED <<sig, owned>>
        BY <1>1, <2>6 DEF NextCheckpoint, LoopInv, launch, dirs
      <3>2. ~(Retains /\ Ersr) => owned = {}
        BY <1>1, <3>1 DEF LoopInv, DirectoryInv, Going, BodyPcs, RowPcs, RowlessPcs
      <3> QED BY <3>1, <3>2 DEF OneCheckpoint, Retains, Ersr, Schedule
    <2>7. CASE NextStudent
      <3>1. pc = "students" /\ ~exc /\ UNCHANGED <<sig, owned>>
        BY <1>1, <2>7 DEF NextStudent, LoopInv, launch, dirs
      <3>2. Retains /\ Ersr
        BY <1>1, <3>1 DEF LoopInv, Going
      <3> QED BY <3>1, <3>2 DEF OneCheckpoint, Retains, Ersr, Schedule
    <2> QED BY <1>4, <2>1, <2>2, <2>3, <2>4, <2>5, <2>6, <2>7 DEF Step
  <1>5. CASE Fail
    BY <1>2, <1>5 DEF Fail, launch, loop, dirs
  <1>6. CASE Crash
    BY <1>3, <1>6 DEF Crash
  <1>7. CASE \E resume \in BOOLEAN, sg \in Configs, steps \in SUBSET Steps : Launch(resume, sg, steps)
    <2>1. pc = "off" /\ UNCHANGED owned
      BY <1>7 DEF Launch, dirs
    <2> QED BY <1>1, <1>3, <2>1 DEF DirectoryInv
  <1>8. CASE UNCHANGED vars
    BY <1>2, <1>8 DEF vars, launch, loop, dirs
  <1> QED BY <1>4, <1>5, <1>6, <1>7, <1>8 DEF Next

\* A process that was not killed leaves no merged directory it could delete, and
\* a schedule that retains none has the directory of one checkpoint at a time.
THEOREM DirectoriesAreRemoved == Spec => []NothingLeftBehind
  <1>1. Init => OneCheckpoint
    BY DEF Init, OneCheckpoint
  <1>2. IInv /\ OneCheckpoint => NothingLeftBehind
    <2> SUFFICES ASSUME IInv, OneCheckpoint PROVE NothingLeftBehind
      OBVIOUS
    <2>1. tmp \subseteq owned \cup leftover /\ (pc = "off" => owned = {})
      BY DEF IInv, DirectoryInv
    <2> QED BY <2>1 DEF OneCheckpoint, NothingLeftBehind
  <1> QED BY <1>1, <1>2, IInvHolds, OneCheckpointKept, PTL DEF Spec

\* No later step of any launch takes a completed row or a completed file back.
THEOREM ResultsStay == Spec => ResultsAreKept
  <1>1. IInv /\ [Next]_vars =>
          [/\ \A r \in disk.rows : r.status = "completed" => r \in disk'.rows
           /\ disk.status = "completed" => disk' = disk]_vars
    BY NextOK, StutterOK DEF DocumentsKept, Kept
  <1> QED BY <1>1, IInvHolds, PTL DEF Spec, ResultsAreKept
===========================================================================
