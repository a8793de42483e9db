---------------------- MODULE TrainerCheckpoint_proofs ----------------------
(***************************************************************************)
(* Proofs about TrainerCheckpoint for any number of shards, steps and      *)
(* launches.                                                               *)
(*                                                                         *)
(* The tracker alone is no induction hypothesis, because it is torn while  *)
(* it is written.  The invariant speaks of saved, the last step whose save *)
(* finished: the tracker is absent, torn or names it and its data.pt is    *)
(* there (SavedInv), and the run works on a later step (ProgressInv).      *)
(* When more than one checkpoint is kept, or all are, what retention       *)
(* removes is older than saved (KeptInv), so the shards of saved stay      *)
(* (FilesInv).  That no more than MaxKeep are on disk needs that what a    *)
(* run wrote is in previous_saved_paths, or is the step being saved while  *)
(* there is room for it (RoomInv).                                         *)
(***************************************************************************)
EXTENDS TrainerCheckpoint, FiniteSetTheorems, TLAPS

Before == {"train", "save", "shards"}
After == {"data", "write_data", "tracker", "write_tracker"}

\* What is on disk for the last finished save.
SavedInv ==
    /\ tracker \in {Absent, Torn, saved}
    /\ saved = 0 => tracker # saved
    /\ saved > 0 => tracker # Absent /\ data[saved].pos = saved /\ data[saved].run > 0

\* Where the run is relative to it.
ProgressInv ==
    /\ step <= LastStep + run /\ saved <= LastStep + run
    /\ pc # "off" => run > 0 /\ step > saved
    /\ pc = "train" => pos = step - 1
    /\ pc \notin {"off", "train"} => pos = step
    /\ pc \in {"tracker", "write_tracker"} => data[step] = [run |-> run, pos |-> step]

\* Shards of the last finished save, and of the one under way once all are written.
FilesInv ==
    /\ saved > 0 => \A f \in Shards : files[saved][f] = data[saved].run
    /\ pc \in After => \A f \in Shards : files[step][f] = run

\* previous_saved_paths is in order; all but the checkpoint being saved are finished.
KeptInv ==
    /\ \A i, j \in 1..Len(kept) : i < j => kept[i] < kept[j]
    /\ pc \in Before => \A i \in 1..Len(kept) : kept[i] <= saved
    /\ pc \in After => /\ Len(kept) > 0 /\ kept[Len(kept)] = step
                       /\ \A i \in 1..(Len(kept) - 1) : kept[i] <= saved

\* The checkpoints of this run, whole or in part, and the room there is for them.
Mine == {s \in AllSteps : \E f \in Shards : files[s][f] = run}
RoomInv ==
    /\ \A s \in AllSteps, f \in Shards : files[s][f] <= run
    /\ MaxKeep > 0 /\ run > 0 =>
        /\ Len(kept) <= MaxKeep
        /\ pc = "shards" /\ MaxKeep > 1 => Len(kept) < MaxKeep
        /\ \/ Mine \subseteq Range(kept)
           \/ /\ Mine \subseteq Range(kept) \cup {step}
              /\ pc \in {"shards", "off"} /\ (MaxKeep = 1 \/ Len(kept) < MaxKeep)

Core == TypeOK /\ SavedInv /\ ProgressInv
Retention == KeptInv /\ FilesInv

-----------------------------------------------------------------------------
LEMMA InitCore == Init => Core
  <1> SUFFICES ASSUME Init PROVE Core
    OBVIOUS
  <1> USE SizesAssumption, ShardsAssumption
  <1>1. TypeOK
    BY DEF Init, TypeOK, AllSteps, NoShards, NoFile, Absent, Torn
  <1>2. SavedInv
    BY DEF Init, SavedInv, Absent
  <1>3. ProgressInv
    BY DEF Init, ProgressInv
  <1> QED BY <1>1, <1>2, <1>3 DEF Core

\* A prefix that is cut off a sequence of steps leaves a sequence of steps.
LEMMA SuffixType ==
    ASSUME NEW s \in Seq(AllSteps), NEW n \in 0..Len(s)
    PROVE  /\ SubSeq(s, n + 1, Len(s)) \in Seq(AllSteps)
           /\ Len(SubSeq(s, n + 1, Len(s))) = Len(s) - n
           /\ \A i \in 1..(Len(s) - n) : SubSeq(s, n + 1, Len(s))[i] = s[i + n]
  OBVIOUS

\* The checkpoints that retention removes.
LEMMA DropType ==
    ASSUME TypeOK, NEW n \in Nat, NEW p \in Seq(AllSteps), Drop(n, p)
    PROVE  files' \in [AllSteps -> [Shards -> 0..MaxRuns]]
  BY SizesAssumption DEF Drop, TypeOK, NoShards

LEMMA NextCore == Core /\ [Next]_vars => Core'
  <1> SUFFICES ASSUME Core, [Next]_vars PROVE Core'
    OBVIOUS
  <1> USE SizesAssumption, ShardsAssumption DEF Core
  <1>a. AllSteps \subseteq Nat /\ Absent \notin Nat /\ Torn \notin Nat
    BY DEF AllSteps, Absent, Torn
  <1>1. CASE Launch
    <2> USE <1>1
    <2>1. CASE Loadable(Tracked)
      <3>1. Tracked = saved /\ Position(Tracked) = saved
        <4>1. CASE tracker = Absent
          BY <1>a, <4>1 DEF Tracked, Position, SavedInv, TypeOK, AllSteps, Absent
        <4>2. CASE tracker = Torn
          BY <2>1, <4>2 DEF Loadable, Tracked, Torn, Absent
        <4>3. CASE tracker = saved /\ saved > 0
          <5>1. data[saved] # NoFile /\ Exists(saved)
            BY <4>3 DEF SavedInv, NoFile, Exists, TypeOK, AllSteps
          <5> QED BY <1>a, <4>3, <5>1 DEF Tracked, Position, SavedInv, TypeOK
        <4> QED BY <4>1, <4>2, <4>3 DEF SavedInv, TypeOK, AllSteps
      <3>a. /\ pc' = "train" /\ step' = saved + 1 /\ pos' = saved
            /\ run' = run + 1 /\ run' <= MaxRuns /\ saved' = saved /\ kept' = <<>>
            /\ UNCHANGED <<files, data, tracker>>
        BY <2>1, <3>1 DEF Launch, disk, TypeOK
      <3>b. saved \in Nat /\ run \in Nat /\ saved <= LastStep + run
        BY <1>a DEF TypeOK, ProgressInv
      <3>c. step' \in AllSteps /\ run' \in 0..MaxRuns
        BY <3>a, <3>b DEF AllSteps
      <3>2. TypeOK'
        <4>1. pos' \in Nat /\ kept' \in Seq(AllSteps)
          BY <3>a, <3>b
        <4>2. UNCHANGED <<files, data, tracker, saved>> /\ pc' = "train"
          BY <3>a
        <4> QED BY <3>c, <4>1, <4>2 DEF TypeOK
      <3>3. SavedInv'
        BY DEF Launch, SavedInv, disk
      <3>4. ProgressInv'
        BY <3>a, <3>b DEF ProgressInv
      <3> QED BY <3>2, <3>3, <3>4
    <2>2. CASE ~Loadable(Tracked)
      <3>1. TypeOK'
        BY <2>2 DEF Launch, TypeOK, disk
      <3>2. SavedInv' /\ ProgressInv'
        BY <2>2 DEF Launch, SavedInv, ProgressInv, TypeOK, AllSteps, disk
      <3> QED BY <3>1, <3>2
    <2> QED BY <2>1, <2>2
  <1>2. CASE Step
    <2> USE <1>2
    <2>a. /\ step \in Nat /\ run \in 0..MaxRuns /\ pos \in Nat /\ pos = step - 1
          /\ saved < step /\ step <= LastStep + run /\ run > 0 /\ saved \in Nat
      BY <1>a DEF Step, TypeOK, ProgressInv
    <2>b. /\ pos' = step /\ UNCHANGED <<files, data, tracker, run, kept, saved>>
          /\ \/ pc' \in {"save", "off"} /\ step' = step
             \/ pc' = "train" /\ step' = step + 1 /\ step < LastStep
      BY <2>a DEF Step, EndOfStep, IsLastStep, disk
    <2>c. step' \in AllSteps
      <3>1. CASE step' = step
        BY <3>1 DEF TypeOK
      <3>2. CASE step' = step + 1 /\ step < LastStep
        BY <2>a, <3>2 DEF AllSteps
      <3> QED BY <2>b, <3>1, <3>2
    <2>1. TypeOK'
      BY <2>a, <2>b, <2>c DEF TypeOK
    <2>2. SavedInv'
      BY DEF Step, SavedInv, disk
    <2>3. ProgressInv'
      BY <2>a, <2>b DEF ProgressInv
    <2> QED BY <2>1, <2>2, <2>3
  <1>3. CASE EnsureCapacity
    <2>1. NeededRoom \in 0..Len(kept)
      BY DEF TypeOK, NeededRoom
    <2>2. Drop(NeededRoom, kept) /\ kept' = SubSeq(kept, NeededRoom + 1, Len(kept))
      BY <1>3 DEF EnsureCapacity
    <2>3. kept' \in Seq(AllSteps)
      BY <2>1, <2>2, SuffixType DEF TypeOK
    <2>4. files' \in [AllSteps -> [Shards -> 0..MaxRuns]]
      BY <2>1, <2>2, DropType DEF TypeOK
    <2>5. TypeOK'
      BY <1>3, <2>3, <2>4 DEF EnsureCapacity, TypeOK
    <2>6. SavedInv' /\ ProgressInv'
      BY <1>3 DEF EnsureCapacity, SavedInv, ProgressInv
    <2> QED BY <2>5, <2>6
  <1>4. CASE \E f \in Shards : WriteShard(f)
    <2> PICK f \in Shards : WriteShard(f)
      BY <1>4
    <2>1. TypeOK'
      BY DEF WriteShard, TypeOK
    <2>2. SavedInv' /\ ProgressInv'
      BY DEF WriteShard, SavedInv, ProgressInv
    <2> QED BY <2>1, <2>2
  <1>5. CASE RegisterCheckpoint
    <2> DEFINE paths == Append(kept, step)
               n == Excess(paths)
    <2>1. paths \in Seq(AllSteps) /\ Len(paths) = Len(kept) + 1
      BY DEF TypeOK
    <2>2. n \in 0..Len(paths)
      BY <2>1 DEF Excess
    <2>3. Drop(n, paths) /\ kept' = SubSeq(paths, n + 1, Len(paths))
      BY <1>5 DEF RegisterCheckpoint
    <2> HIDE DEF paths, n
    <2>4. kept' \in Seq(AllSteps)
      BY <2>1, <2>2, <2>3, SuffixType
    <2>5. files' \in [AllSteps -> [Shards -> 0..MaxRuns]]
      BY <2>1, <2>2, <2>3, DropType
    <2>6. TypeOK'
      BY <1>5, <2>4, <2>5 DEF RegisterCheckpoint, TypeOK
    <2>7. SavedInv' /\ ProgressInv'
      BY <1>5 DEF RegisterCheckpoint, SavedInv, ProgressInv
    <2> QED BY <2>6, <2>7
  <1>6. CASE OpenData
    <2>1. TypeOK'
      BY <1>6 DEF OpenData, TypeOK, TornFile
    <2>2. SavedInv' /\ ProgressInv'
      BY <1>6, <1>a DEF OpenData, SavedInv, ProgressInv, TypeOK
    <2> QED BY <2>1, <2>2
  <1>7. CASE WriteData
    <2>1. TypeOK'
      BY <1>7 DEF WriteData, TypeOK
    <2>2. SavedInv'
      BY <1>7, <1>a DEF WriteData, SavedInv, ProgressInv, TypeOK
    <2>3. ProgressInv'
      BY <1>7, <1>a DEF WriteData, ProgressInv, TypeOK
    <2> QED BY <2>1, <2>2, <2>3
  <1>8. CASE OpenTracker
    BY <1>8, <1>a DEF OpenTracker, TypeOK, SavedInv, ProgressInv, Torn, Absent
  <1>9. CASE WriteTracker
    <2> USE <1>9
    <2>0. /\ step \in Nat /\ step > 0 /\ run \in 0..MaxRuns /\ run > 0 /\ pos = step
          /\ step <= LastStep + run /\ data[step] = [run |-> run, pos |-> step]
      BY <1>a DEF WriteTracker, TypeOK, ProgressInv
    <2>b. /\ tracker' = step /\ saved' = step /\ UNCHANGED <<files, data, run, pos, kept>>
          /\ \/ pc' = "off" /\ step' = step
             \/ pc' = "train" /\ step' = step + 1 /\ step < LastStep
      BY <2>0 DEF WriteTracker, EndOfStep, IsLastStep
    <2>c. step' \in AllSteps
      <3>1. CASE step' = step
        BY <3>1 DEF TypeOK
      <3>2. CASE step' = step + 1 /\ step < LastStep
        BY <2>0, <3>2 DEF AllSteps
      <3> QED BY <2>b, <3>1, <3>2
    <2>1. TypeOK'
      BY <2>b, <2>c DEF TypeOK, WriteTracker
    <2>2. SavedInv'
      BY <1>a, <2>0, <2>b DEF SavedInv, Absent
    <2>3. ProgressInv'
      BY <2>0, <2>b DEF ProgressInv
    <2> QED BY <2>1, <2>2, <2>3
  <1>10. CASE Crash
    BY <1>10 DEF Crash, TypeOK, SavedInv, ProgressInv, disk
  <1>11. CASE UNCHANGED vars
    BY <1>11 DEF vars, TypeOK, SavedInv, ProgressInv, disk
  <1> QED
    BY <1>1, <1>2, <1>3, <1>4, <1>5, <1>6, <1>7, <1>8, <1>9, <1>10, <1>11 DEF Next

-----------------------------------------------------------------------------
LEMMA InitRetention == Init => Retention
  BY SizesAssumption DEF Init, Retention, KeptInv, FilesInv, After, Before

\* What a prefix of an ordered sequence holds is smaller than what follows it.
LEMMA DropKeeps ==
    ASSUME TypeOK, NEW p \in Seq(AllSteps), NEW n \in 0..Len(p), NEW s \in AllSteps,
           \A i \in 1..n : p[i] # s,
           Drop(n, p)
    PROVE  files'[s] = files[s]
  <1>1. s \notin Range(SubSeq(p, 1, n))
    <2>1. Len(SubSeq(p, 1, n)) = n /\ \A i \in 1..n : SubSeq(p, 1, n)[i] = p[i]
      OBVIOUS
    <2>2. DOMAIN SubSeq(p, 1, n) = 1..n
      BY <2>1
    <2> QED BY <2>1, <2>2 DEF Range
  <1> QED BY <1>1 DEF Drop, TypeOK

LEMMA NextRetention ==
    ASSUME MaxKeep # 1
    PROVE  Core /\ Retention /\ [Next]_vars => Retention'
  <1> SUFFICES ASSUME Core, Retention, [Next]_vars PROVE Retention'
    OBVIOUS
  <1> USE SizesAssumption, ShardsAssumption DEF Core, Retention
  <1>a. AllSteps \subseteq Nat /\ kept \in Seq(AllSteps) /\ Len(kept) \in Nat
    BY DEF AllSteps, TypeOK
  <1>b. \A i \in 1..Len(kept) : kept[i] \in Nat
    <2> SUFFICES ASSUME NEW i \in 1..Len(kept) PROVE kept[i] \in Nat
      OBVIOUS
    <2>1. kept[i] \in AllSteps
      BY <1>a
    <2> QED BY <1>a, <2>1
  <1>c. saved \in Nat /\ saved \in AllSteps /\ step \in Nat /\ step \in AllSteps
    BY <1>a DEF TypeOK
  <1>1. CASE Launch
    BY <1>1 DEF Launch, KeptInv, FilesInv, After, Before, TypeOK, disk
  <1>2. CASE Step
    BY <1>2 DEF Step, EndOfStep, IsLastStep, KeptInv, FilesInv, After, Before, TypeOK, disk
  <1>3. CASE EnsureCapacity
    <2> DEFINE n == NeededRoom
    <2>1. n \in 0..Len(kept) /\ (n > 0 => n < Len(kept))
      BY <1>a DEF NeededRoom
    <2>2. Drop(n, kept) /\ kept' = SubSeq(kept, n + 1, Len(kept))
          /\ pc = "save" /\ pc' = "shards" /\ UNCHANGED <<data, tracker, run, step, pos, saved>>
      BY <1>3 DEF EnsureCapacity
    <2> HIDE DEF n
    <2>3. \A i \in 1..n : kept[i] < saved
      <3> SUFFICES ASSUME NEW i \in 1..n PROVE kept[i] < saved
        OBVIOUS
      <3>1. i < Len(kept) /\ i \in 1..Len(kept) /\ Len(kept) \in 1..Len(kept)
        BY <1>a, <2>1
      <3>2. kept[i] < kept[Len(kept)] /\ kept[Len(kept)] <= saved
        BY <2>2, <3>1 DEF KeptInv, Before
      <3> QED BY <1>b, <1>c, <3>1, <3>2
    <2>4. files'[saved] = files[saved]
      <3>1. \A i \in 1..n : kept[i] # saved
        BY <1>c, <2>3
      <3> QED BY <1>a, <1>c, <2>1, <2>2, <3>1, DropKeeps
    <2>5. FilesInv'
      BY <2>2, <2>4 DEF FilesInv, After
    <2>6. Len(kept') = Len(kept) - n /\ \A i \in 1..Len(kept') : kept'[i] = kept[i + n]
      BY <1>a, <2>1, <2>2, SuffixType
    <2>7. \A i, j \in 1..Len(kept') : i < j => kept'[i] < kept'[j]
      <3> SUFFICES ASSUME NEW i \in 1..Len(kept'), NEW j \in 1..Len(kept'), i < j
                   PROVE  kept'[i] < kept'[j]
        OBVIOUS
      <3>1. i + n \in 1..Len(kept) /\ j + n \in 1..Len(kept) /\ i + n < j + n
        BY <1>a, <2>1, <2>6
      <3> QED BY <2>6, <3>1 DEF KeptInv
    <2>8. \A i \in 1..Len(kept') : kept'[i] <= saved
      <3> SUFFICES ASSUME NEW i \in 1..Len(kept') PROVE kept'[i] <= saved
        OBVIOUS
      <3>1. i + n \in 1..Len(kept)
        BY <1>a, <2>1, <2>6
      <3> QED BY <2>2, <2>6, <3>1 DEF KeptInv, Before
    <2>9. KeptInv'
      BY <2>2, <2>7, <2>8 DEF KeptInv, After
    <2> QED BY <2>5, <2>9
  <1>4. CASE \E f \in Shards : WriteShard(f)
    BY <1>4, <1>a DEF WriteShard, KeptInv, FilesInv, ProgressInv, TypeOK, After, Before
  <1>5. CASE RegisterCheckpoint
    <2> DEFINE p == Append(kept, step)
               n == Excess(p)
    <2>1. /\ p \in Seq(AllSteps) /\ Len(p) = Len(kept) + 1
          /\ \A i \in 1..Len(kept) : p[i] = kept[i]
          /\ p[Len(kept) + 1] = step
      BY <1>a DEF TypeOK
    <2>2. n \in 0..Len(p) /\ (n > 0 => n < Len(kept))
      BY <1>a, <2>1 DEF Excess
    <2>3. /\ Drop(n, p) /\ kept' = SubSeq(p, n + 1, Len(p)) /\ pc = "shards" /\ pc' = "data"
          /\ AllShardsWritten /\ UNCHANGED <<data, tracker, run, step, pos, saved>>
      BY <1>5 DEF RegisterCheckpoint
    <2> HIDE DEF p, n
    <2>4. saved \in Nat /\ step \in Nat /\ saved < step /\ \A i \in 1..Len(kept) : kept[i] <= saved
      BY <1>a, <2>3 DEF KeptInv, Before, TypeOK, ProgressInv
    <2>5. \A i \in 1..n : p[i] < saved
      <3> SUFFICES ASSUME NEW i \in 1..n PROVE p[i] < saved
        OBVIOUS
      <3>1. i < Len(kept) /\ i \in 1..Len(kept) /\ Len(kept) \in 1..Len(kept)
        BY <1>a, <2>2
      <3>2. kept[i] < kept[Len(kept)] /\ kept[Len(kept)] <= saved
        BY <2>4, <3>1 DEF KeptInv
      <3> QED BY <1>b, <2>1, <2>4, <3>1, <3>2
    <2>6. files'[saved] = files[saved] /\ files'[step] = files[step]
      <3>1. \A i \in 1..n : p[i] # saved /\ p[i] # step
        <4> SUFFICES ASSUME NEW i \in 1..n PROVE p[i] # saved /\ p[i] # step
          OBVIOUS
        <4>1. p[i] < saved /\ i \in 1..Len(kept)
          BY <1>a, <2>2, <2>5
        <4>2. p[i] \in Nat
          BY <1>b, <2>1, <4>1
        <4> QED BY <2>4, <4>1, <4>2
      <3>2. files'[saved] = files[saved]
        BY <1>c, <2>1, <2>2, <2>3, <3>1, DropKeeps
      <3>3. files'[step] = files[step]
        BY <1>c, <2>1, <2>2, <2>3, <3>1, DropKeeps
      <3> QED BY <3>2, <3>3
    <2>7. FilesInv'
      BY <2>3, <2>6 DEF FilesInv, AllShardsWritten
    <2>8. Len(kept') = Len(p) - n /\ \A i \in 1..Len(kept') : kept'[i] = p[i + n]
      BY <2>1, <2>2, <2>3, SuffixType
    <2>9. \A i, j \in 1..Len(p) : i < j => p[i] < p[j]
      <3> SUFFICES ASSUME NEW i \in 1..Len(p), NEW j \in 1..Len(p), i < j PROVE p[i] < p[j]
        OBVIOUS
      <3>1. i \in 1..Len(kept) /\ p[i] = kept[i] /\ kept[i] \in Nat /\ kept[i] <= saved
        BY <1>a, <1>b, <2>1, <2>4
      <3>2. CASE j \in 1..Len(kept)
        BY <2>1, <3>1, <3>2 DEF KeptInv
      <3>3. CASE j = Len(kept) + 1
        BY <2>1, <2>4, <3>1, <3>3
      <3> QED BY <1>a, <2>1, <3>2, <3>3
    <2>10. Len(kept') > 0 /\ kept'[Len(kept')] = step
      <3>1. n \in Nat /\ n <= Len(kept)
        BY <1>a, <2>1, <2>2
      <3>2. Len(kept') = Len(kept) + 1 - n /\ Len(kept') \in 1..Len(kept') /\ Len(kept') + n = Len(kept) + 1
        BY <1>a, <2>1, <2>8, <3>1
      <3> QED BY <2>1, <2>8, <3>2
    <2>11. \A i \in 1..(Len(kept') - 1) : kept'[i] <= saved
      <3> SUFFICES ASSUME NEW i \in 1..(Len(kept') - 1) PROVE kept'[i] <= saved
        OBVIOUS
      <3>1. i \in 1..Len(kept') /\ i + n \in 1..Len(kept)
        BY <1>a, <2>1, <2>2, <2>8
      <3> QED BY <2>1, <2>4, <2>8, <3>1
    <2>12. \A i, j \in 1..Len(kept') : i < j => kept'[i] < kept'[j]
      <3> SUFFICES ASSUME NEW i \in 1..Len(kept'), NEW j \in 1..Len(kept'), i < j
                   PROVE  kept'[i] < kept'[j]
        OBVIOUS
      <3>1. i + n \in 1..Len(p) /\ j + n \in 1..Len(p) /\ i + n < j + n
        BY <1>a, <2>1, <2>2, <2>8
      <3> QED BY <2>8, <2>9, <3>1
    <2>13. KeptInv'
      BY <2>3, <2>4, <2>10, <2>11, <2>12 DEF KeptInv, Before, After
    <2> QED BY <2>7, <2>13
  <1>6. CASE OpenData \/ WriteData
    <2>1. /\ UNCHANGED <<files, run, step, kept, saved>> /\ pc \in After /\ pc' \in After
          /\ \E d : data' = [data EXCEPT ![step] = d]
      BY <1>6 DEF OpenData, WriteData, After
    <2>2. saved # step /\ pc' \notin Before
      BY <1>c, <2>1 DEF ProgressInv, After, Before
    <2>3. data'[saved] = data[saved]
      BY <1>c, <2>1, <2>2 DEF TypeOK
    <2>4. FilesInv'
      BY <2>1, <2>3 DEF FilesInv
    <2>5. KeptInv'
      BY <2>1, <2>2 DEF KeptInv
    <2> QED BY <2>4, <2>5
  <1>7. CASE OpenTracker
    BY <1>7 DEF OpenTracker, KeptInv, FilesInv, After, Before
  <1>8. CASE WriteTracker
    <2>1. /\ UNCHANGED <<files, data, run, kept>> /\ pc \in After /\ pc' \notin After
          /\ saved' = step /\ saved < step /\ data[step] = [run |-> run, pos |-> step]
      BY <1>8 DEF WriteTracker, EndOfStep, ProgressInv, After
    <2>2. FilesInv'
      BY <2>1 DEF FilesInv
    <2>3. \A i \in 1..Len(kept) : kept[i] <= step
      <3> SUFFICES ASSUME NEW i \in 1..Len(kept) PROVE kept[i] <= step
        OBVIOUS
      <3>1. CASE i = Len(kept)
        BY <1>c, <2>1, <3>1 DEF KeptInv
      <3>2. CASE i \in 1..(Len(kept) - 1)
        BY <1>b, <1>c, <2>1, <3>2 DEF KeptInv
      <3> QED BY <1>a, <3>1, <3>2
    <2>4. KeptInv'
      BY <2>1, <2>3 DEF KeptInv
    <2> QED BY <2>2, <2>4
  <1>9. CASE Crash
    BY <1>9 DEF Crash, KeptInv, FilesInv, After, Before, disk
  <1>10. CASE UNCHANGED vars
    BY <1>10 DEF vars, KeptInv, FilesInv, disk
  <1> QED
    BY <1>1, <1>2, <1>3, <1>4, <1>5, <1>6, <1>7, <1>8, <1>9, <1>10 DEF Next

-----------------------------------------------------------------------------
\* What is left on disk when a prefix of the paths is dropped.
LEMMA DropMine ==
    ASSUME TypeOK, run > 0, NEW p \in Seq(AllSteps), NEW n \in 0..Len(p), Drop(n, p), run' = run
    PROVE  /\ \A s \in AllSteps, f \in Shards : files[s][f] <= run => files'[s][f] <= run
           /\ Mine' \subseteq Mine
           /\ \A s \in Mine' : s \in Range(p) => s \in Range(SubSeq(p, n + 1, Len(p)))
  <1> USE SizesAssumption, ShardsAssumption
  <1>1. \A s \in AllSteps : \/ files'[s] = files[s] /\ s \notin Range(SubSeq(p, 1, n))
                            \/ files'[s] = NoShards
    BY DEF Drop
  <1>2. run \in Nat /\ \A f \in Shards : NoShards[f] = 0
    BY DEF TypeOK, NoShards
  <1>3. \A s \in AllSteps, f \in Shards : files[s][f] <= run => files'[s][f] <= run
    BY <1>1, <1>2
  <1>4. \A s \in Mine' : s \in Mine /\ s \notin Range(SubSeq(p, 1, n))
    BY <1>1, <1>2 DEF Mine
  <1>5. ASSUME NEW s \in Range(p), s \notin Range(SubSeq(p, 1, n))
        PROVE  s \in Range(SubSeq(p, n + 1, Len(p)))
    <2>1. PICK i \in 1..Len(p) : p[i] = s
      BY DEF Range
    <2>2. CASE i <= n
      <3>1. i \in 1..Len(SubSeq(p, 1, n)) /\ SubSeq(p, 1, n)[i] = s
        BY <2>1, <2>2
      <3>2. DOMAIN SubSeq(p, 1, n) = 1..Len(SubSeq(p, 1, n))
        OBVIOUS
      <3> QED BY <1>5, <3>1, <3>2 DEF Range
    <2>3. CASE i > n
      <3> DEFINE q == SubSeq(p, n + 1, Len(p))
      <3>1. Len(p) \in Nat /\ n \in Nat /\ i \in Nat
        OBVIOUS
      <3>2. i - n \in 1..(Len(p) - n) /\ (i - n) + n = i
        BY <2>3, <3>1
      <3>3. Len(q) = Len(p) - n /\ q[i - n] = s /\ q \in Seq(AllSteps)
        BY <2>1, <3>2, SuffixType
      <3>4. DOMAIN q = 1..Len(q)
        BY <3>3
      <3> QED BY <3>2, <3>3, <3>4 DEF Range
    <2> QED BY <2>1, <2>2, <2>3
  <1> QED BY <1>3, <1>4, <1>5

LEMMA InitRoom == Init => RoomInv
  BY SizesAssumption DEF Init, RoomInv, NoShards

LEMMA NextRoom == Core /\ RoomInv /\ [Next]_vars => RoomInv'
  <1> SUFFICES ASSUME Core, RoomInv, [Next]_vars PROVE RoomInv'
    OBVIOUS
  <1> USE SizesAssumption, ShardsAssumption DEF Core
  <1>a. /\ AllSteps \subseteq Nat /\ step \in AllSteps /\ run \in Nat
        /\ kept \in Seq(AllSteps) /\ Len(kept) \in Nat /\ MaxKeep \in Nat
        /\ \A s \in AllSteps, f \in Shards : files[s][f] \in Nat
    BY DEF AllSteps, TypeOK
  <1>1. CASE Launch
    <2>1. run' = run + 1 /\ files' = files /\ kept' = <<>>
      BY <1>1 DEF Launch, disk
    <2>2. \A s \in AllSteps, f \in Shards : files'[s][f] <= run' /\ files'[s][f] # run'
      BY <1>a, <2>1 DEF RoomInv
    <2>3. Mine' = {}
      BY <1>a, <2>1, <2>2 DEF Mine
    <2> QED BY <1>a, <2>1, <2>2, <2>3 DEF RoomInv
  <1>2. CASE Step
    <2>1. UNCHANGED <<files, run, kept>> /\ pc = "train" /\ pc' \in {"save", "off", "train"} /\ Mine' = Mine
      BY <1>2 DEF Step, EndOfStep, IsLastStep, Mine, disk
    <2> QED BY <2>1 DEF RoomInv
  <1>3. CASE EnsureCapacity
    <2> DEFINE n == NeededRoom
    <2>1. n \in 0..Len(kept) /\ (MaxKeep > 1 => Len(kept) - n < MaxKeep)
      BY <1>a DEF NeededRoom
    <2>2. Drop(n, kept) /\ kept' = SubSeq(kept, n + 1, Len(kept))
          /\ pc = "save" /\ pc' = "shards" /\ run > 0 /\ UNCHANGED <<run, step>>
      BY <1>3 DEF EnsureCapacity, ProgressInv
    <2> HIDE DEF n
    <2>3. Len(kept') = Len(kept) - n
      BY <1>a, <2>1, <2>2, SuffixType
    <2>4. /\ \A s \in AllSteps, f \in Shards : files[s][f] <= run => files'[s][f] <= run
          /\ Mine' \subseteq Mine /\ \A s \in Mine' : s \in Range(kept) => s \in Range(kept')
      BY <1>a, <2>1, <2>2, DropMine
    <2> QED BY <1>a, <2>1, <2>2, <2>3, <2>4 DEF RoomInv
  <1>4. CASE \E f \in Shards : WriteShard(f)
    <2>1. PICK f \in Shards : WriteShard(f)
      BY <1>4
    <2>2. /\ pc = "shards" /\ run > 0 /\ UNCHANGED <<pc, run, step, kept>>
          /\ files' = [files EXCEPT ![step][f] = run]
      BY <2>1 DEF WriteShard, ProgressInv
    <2>3. \A s \in AllSteps, g \in Shards :
             files'[s][g] = files[s][g] \/ (s = step /\ files'[s][g] = run)
      BY <2>2 DEF TypeOK
    <2>4. Mine' \subseteq Mine \cup {step}
      BY <2>2, <2>3 DEF Mine
    <2> QED BY <1>a, <2>2, <2>3, <2>4 DEF RoomInv
  <1>5. CASE RegisterCheckpoint
    <2> DEFINE p == Append(kept, step)
               n == Excess(p)
    <2>1. p \in Seq(AllSteps) /\ Len(p) = Len(kept) + 1 /\ Range(kept) \cup {step} \subseteq Range(p)
      <3>1. /\ p \in Seq(AllSteps) /\ Len(p) = Len(kept) + 1
            /\ \A i \in 1..Len(kept) : p[i] = kept[i]
            /\ p[Len(kept) + 1] = step
        BY <1>a
      <3>2. DOMAIN p = 1..(Len(kept) + 1) /\ DOMAIN kept = 1..Len(kept)
        BY <1>a, <3>1
      <3> HIDE DEF p
      <3>3. Range(kept) \subseteq Range(p)
        BY <1>a, <3>1, <3>2 DEF Range
      <3>4. step \in Range(p)
        BY <1>a, <3>1, <3>2 DEF Range
      <3> QED BY <3>1, <3>3, <3>4
    <2>2. n \in 0..Len(p) /\ (MaxKeep > 0 => Len(p) - n <= MaxKeep)
      BY <1>a, <2>1 DEF Excess
    <2>3. /\ Drop(n, p) /\ kept' = SubSeq(p, n + 1, Len(p)) /\ pc = "shards" /\ pc' = "data"
          /\ run > 0 /\ UNCHANGED <<run, step>>
      BY <1>5 DEF RegisterCheckpoint, ProgressInv
    <2> HIDE DEF p, n
    <2>4. Len(kept') = Len(p) - n
      BY <2>1, <2>2, <2>3, SuffixType
    <2>5. /\ \A s \in AllSteps, f \in Shards : files[s][f] <= run => files'[s][f] <= run
          /\ Mine' \subseteq Mine /\ \A s \in Mine' : s \in Range(p) => s \in Range(kept')
      BY <2>1, <2>2, <2>3, DropMine
    <2> QED BY <1>a, <2>1, <2>2, <2>3, <2>4, <2>5 DEF RoomInv
  <1>6. CASE OpenData \/ WriteData \/ OpenTracker \/ WriteTracker
    <2>1. UNCHANGED <<files, run, kept>> /\ pc \in After /\ pc' # "shards" /\ Mine' = Mine
      BY <1>6 DEF OpenData, WriteData, OpenTracker, WriteTracker, EndOfStep, After, Mine
    <2> QED BY <2>1 DEF RoomInv, After
  <1>7. CASE Crash
    <2>1. UNCHANGED <<files, run, kept, step>> /\ pc' = "off" /\ Mine' = Mine
      BY <1>7 DEF Crash, disk, Mine
    <2> QED BY <2>1 DEF RoomInv
  <1>8. CASE UNCHANGED vars
    BY <1>8 DEF vars, disk, RoomInv, Mine
  <1> QED
    BY <1>1, <1>2, <1>3, <1>4, <1>5, <1>6, <1>7, <1>8 DEF Next

\* A sequence has no more members than places.
LEMMA RangeBound ==
    ASSUME NEW s \in Seq(AllSteps)
    PROVE  IsFiniteSet(Range(s)) /\ Cardinality(Range(s)) \in Nat /\ Cardinality(Range(s)) <= Len(s)
  <1>1. IsFiniteSet(1..Len(s)) /\ Cardinality(1..Len(s)) = Len(s)
    <2>1. Len(s) \in Nat /\ Len(s) \in Int /\ 1 \in Int
      OBVIOUS
    <2>2. IsFiniteSet(1..Len(s)) /\ Cardinality(1..Len(s)) = IF 1 > Len(s) THEN 0 ELSE Len(s) - 1 + 1
      BY <2>1, FS_Interval
    <2> QED BY <2>1, <2>2
  <1>2. DOMAIN s = 1..Len(s) /\ s = [i \in 1..Len(s) |-> s[i]]
    OBVIOUS
  <1>3. s \in [1..Len(s) -> Range(s)] /\ \A t \in Range(s) : \E i \in 1..Len(s) : s[i] = t
    BY <1>2 DEF Range
  <1>4. s \in Surjection(1..Len(s), Range(s))
    BY <1>3 DEF Surjection
  <1>5. IsFiniteSet(Range(s)) /\ Cardinality(Range(s)) <= Cardinality(1..Len(s))
    BY <1>1, <1>4, FS_Surjection
  <1> QED BY <1>1, <1>5, FS_CardinalityType

-----------------------------------------------------------------------------
LEMMA CoreAlways == Spec => []Core
  BY InitCore, NextCore, PTL DEF Spec

\* Every folder, the tracker and the trainer's counters stay in their ranges,
\* and a run never gets further than one step per launch beyond the last.
THEOREM TypeCorrect == Spec => []TypeOK
  <1>1. Core => TypeOK
    BY DEF Core
  <1> QED BY <1>1, CoreAlways, PTL

\* Whatever is killed and however often, no step of a finished save is trained
\* again (_load_checkpoint).
THEOREM NoRepetition == Spec => []NothingFinishedIsRepeated
  <1>1. Core => NothingFinishedIsRepeated
    BY DEF Core, ProgressInv, NothingFinishedIsRepeated
  <1> QED BY <1>1, CoreAlways, PTL

\* Whatever is killed and however often, a step trains on the batch that
\* follows those of the steps before it.
THEOREM DataInStep == Spec => []DataFollowsSteps
  <1>1. Core => DataFollowsSteps
    BY DEF Core, ProgressInv, DataFollowsSteps
  <1> QED BY <1>1, CoreAlways, PTL

\* When all checkpoints are kept, or at least two, the step the tracker names
\* has all its shards and its data.pt from one run (_save_checkpoint,
\* register_checkpoint), for any number of shards, saves, kills and launches.
THEOREM TrackerIsSound ==
    ASSUME MaxKeep # 1
    PROVE  Spec => []TrackedIsComplete
  <1>1. Core /\ Retention => TrackedIsComplete
    BY DEF Core, Retention, SavedInv, FilesInv, TypeOK, TrackedIsComplete, AllSteps, Absent, Torn
  <1>2. Spec => []Retention
    BY InitRetention, NextRetention, CoreAlways, PTL DEF Spec
  <1> QED BY <1>1, <1>2, CoreAlways, PTL

\* A run never has more than MaxKeep checkpoints of its own on disk, whole or in
\* part, and two only while the only one is replaced (ensure_checkpoint_capacity,
\* register_checkpoint).
THEOREM RetentionHolds == Spec => []KeepsAtMost
  <1>1. Core /\ RoomInv => KeepsAtMost
    <2> SUFFICES ASSUME Core, RoomInv, MaxKeep > 0, run > 0
                 PROVE  Cardinality(Mine) <= IF MaxKeep = 1 /\ pc # "train" THEN 2 ELSE MaxKeep
      BY DEF KeepsAtMost, Mine
    <2>1. kept \in Seq(AllSteps) /\ Len(kept) \in Nat /\ MaxKeep \in Nat /\ Len(kept) <= MaxKeep
      BY SizesAssumption DEF Core, TypeOK, RoomInv
    <2>2. /\ IsFiniteSet(Range(kept)) /\ Cardinality(Range(kept)) \in Nat
          /\ Cardinality(Range(kept)) <= Len(kept)
      BY <2>1, RangeBound
    <2>3. CASE Mine \subseteq Range(kept)
      <3>1. Cardinality(Mine) <= Cardinality(Range(kept)) /\ Cardinality(Mine) \in Nat
        BY <2>2, <2>3, FS_Subset, FS_CardinalityType
      <3> QED BY <2>1, <2>2, <3>1
    <2>4. CASE /\ Mine \subseteq Range(kept) \cup {step}
               /\ pc \in {"shards", "off"} /\ (MaxKeep = 1 \/ Len(kept) < MaxKeep)
      <3> DEFINE T == Range(kept) \cup {step}
      <3>1. IsFiniteSet(T) /\ Cardinality(T) \in Nat /\ Cardinality(T) <= Cardinality(Range(kept)) + 1
        <4>1. /\ IsFiniteSet(T)
              /\ Cardinality(T) = IF step \in Range(kept) THEN Cardinality(Range(kept))
                                  ELSE Cardinality(Range(kept)) + 1
          BY <2>2, FS_AddElement
        <4> QED BY <2>2, <4>1
      <3>2. Cardinality(Mine) <= Cardinality(T) /\ Cardinality(Mine) \in Nat
        BY <2>4, <3>1, FS_Subset, FS_CardinalityType
      <3> QED BY <2>1, <2>2, <2>4, <3>1, <3>2
    <2> QED BY <2>3, <2>4 DEF RoomInv
  <1>2. Spec => []RoomInv
    BY InitRoom, NextRoom, CoreAlways, PTL DEF Spec
  <1> QED BY <1>1, <1>2, CoreAlways, PTL
=============================================================================
