--------------------------- MODULE Rollout_proofs ---------------------------
(***************************************************************************)
(* Proofs about the rollout: about Rollout, what a sample, an exception    *)
(* and a cleanup may rely on, however late or old the poll thread's        *)
(* snapshots are; and about PromptScores, what the engine returns for any  *)
(* requests, prompt lengths, schedules, chunk sizes and preemptions.       *)
(*                                                                         *)
(* PromptScores.  A result is only looked at when it is complete, so the   *)
(* invariant speaks of it on the way: whatever is in flight to it is right *)
(* (Flights), and every cell before the request's position is right or has *)
(* a copy in flight (Filled).  PromptPosition ties the position to who is  *)
(* still asked.                                                            *)
(***************************************************************************)
EXTENDS Rollout, PromptScores, WellFoundedInduction, TLAPS

-----------------------------------------------------------------------------
\* The inductive invariant.

Sampling == pc \in {"sample", "look"}
Uids0 == {Uid(q) : q \in conf.slots}
Stored == DOMAIN tq \cup DOMAIN buf \cup DOMAIN snap

\* Batches come one after the other: keys in the three dictionaries are of this
\* batch or of an earlier one, and of an earlier one when a batch is submitted.
KeyInv ==
    /\ pc = "fit" => Stored = {} /\ step = LoadedStep
    /\ pc # "fit" => (part = "train" <=> batch = 0)
    /\ pc = "cleanup" => part = "train"
    /\ step >= LoadedStep /\ (part = "train" => step > LoadedStep)
    /\ \A k \in Stored :
        /\ ~IsTrajectory(k) => k = PromptKey(k.uid)
        /\ k.uid.part = "train" <=> k.uid.batch = 0
        /\ k.uid.step <= step
        /\ k.uid.step = step /\ pc = "generate" => k.uid.batch < batch
        /\ k.uid.step = step /\ (pc \in {"sample", "look", "got"} \/ (pc = "remove" /\ part = "val")) =>
              k.uid.batch <= batch

\* Tags: a trajectory's says success and its step; the group of an earlier batch
\* is finished, for a failed one was never survived.
TagsOf(f) ==
    \A k \in DOMAIN f :
        IF IsTrajectory(k) THEN f[k] = Tag("success", k.uid.step)
        ELSE /\ f[k].status # "success"
             /\ f[k].status = "finished" \/ pc = "raised" \/ (Sampling /\ k.uid \in Uids0)
TagInv == TagsOf(tq) /\ TagsOf(buf) /\ TagsOf(snap)

\* What _run_prompt has done when its prompt's status is there.
WorkerInv ==
    /\ stop <=> pc \in {"done", "raised"}
    /\ why = "none" \/ pc = "raised"
    /\ pc \notin {"sample", "look", "raised"} => \A q \in Slots : prompt[q] # "running"
    /\ Sampling => /\ \A q \in conf.slots : \A i \in 1..N : session[q][i] # "none"
                   /\ \A q \in Slots \ conf.slots : prompt[q] = "none"
    /\ \A q \in Slots : prompt[q] = "published" => SessionsOver(q)

\* The trajectories of a prompt that are in the TransferQueue.
Put(q) == {k \in DOMAIN tq : IsTrajectory(k) /\ k.uid = Uid(q)}

\* While a sample waits: a prompt's status is seen only with all its trajectories.
PromptInv(q) ==
    /\ PromptKey(Uid(q)) \in DOMAIN buf /\ buf[PromptKey(Uid(q))].step = step
    /\ \/ buf[PromptKey(Uid(q))].status = "running"
       \/ /\ buf[PromptKey(Uid(q))].status = GroupStatus(q) /\ prompt[q] = "published"
          /\ Put(q) \subseteq DOMAIN buf
    /\ PromptKey(Uid(q)) \in DOMAIN tq =>
          prompt[q] = "published" /\ tq[PromptKey(Uid(q))] = Tag(GroupStatus(q), NoStep)
    /\ PromptKey(Uid(q)) \in DOMAIN snap =>
          /\ PromptKey(Uid(q)) \in DOMAIN tq
          /\ snap[PromptKey(Uid(q))] = tq[PromptKey(Uid(q))]
          /\ Put(q) \subseteq DOMAIN snap
IsCurrent(k) == k.uid.part = part /\ k.uid.step = step /\ k.uid.batch = batch
BatchInv ==
    Sampling =>
        /\ \A q \in conf.slots : PromptInv(q)
        /\ \A k \in DOMAIN buf \cup DOMAIN snap : IsTrajectory(k) /\ IsCurrent(k) => k \in DOMAIN tq

\* What is in the TransferQueue is of this batch or held by the step.
HeldInv ==
    /\ \A k \in held : k.uid.part = "train"
    /\ step = LoadedStep => held = {}
    /\ part = "train" /\ pc \in {"generate", "sample", "look", "got"} => held = {}
    /\ ~(pc = "remove" /\ part = "train") => held \subseteq DOMAIN tq
    /\ pc # "raised" => \A k \in DOMAIN tq : IsTrajectory(k) =>
          \/ k \in held /\ ~(pc = "remove" /\ part = "train")
          \/ pc \in {"sample", "look", "got"} /\ k.uid \in Uids0
    /\ pc = "got" => got \subseteq DOMAIN buf

IInv ==
    TypeOK /\ KeyInv /\ TagInv /\ WorkerInv /\ BatchInv /\ HeldInv /\ SampleIsWhole /\ RaisesWithCause

-----------------------------------------------------------------------------
\* Keys, tags and stores.

LEMMA WithoutFacts ==
    ASSUME NEW f, NEW keys
    PROVE  /\ DOMAIN Without(f, keys) = DOMAIN f \ keys
           /\ \A k \in DOMAIN f \ keys : Without(f, keys)[k] = f[k]
  BY DEF Without, Restrict

LEMMA TagFacts ==
    ASSUME NEW status, NEW s
    PROVE  Tag(status, s).status = status /\ Tag(status, s).step = s
  BY DEF Tag

LEMMA KeyFacts ==
    ASSUME NEW u \in Uids
    PROVE  /\ PromptKey(u) \in Keys /\ PromptKey(u).uid = u /\ ~IsTrajectory(PromptKey(u))
           /\ \A i \in Nat \ {0}, j \in Nat :
                 /\ Trajectory(u, i, j) \in Keys /\ Trajectory(u, i, j).uid = u
                 /\ IsTrajectory(Trajectory(u, i, j))
  BY DEF PromptKey, Trajectory, Keys, IsTrajectory

LEMMA MergeStore ==
    ASSUME NEW f, NEW g, IsStore(f), IsStore(g)
    PROVE  IsStore(Merge(f, g))
  <1> DEFINE m == Merge(f, g)
  <1>1. /\ DOMAIN m = DOMAIN f \cup DOMAIN g
        /\ \A k \in DOMAIN f \ DOMAIN g : m[k] = f[k]
        /\ \A k \in DOMAIN g \ DOMAIN f : m[k] = g[k]
        /\ \A k \in DOMAIN f \cap DOMAIN g :
              m[k] = IF g[k].step # NoStep THEN g[k] ELSE Tag(g[k].status, f[k].step)
    BY DEF Merge
  <1> HIDE DEF m
  <1>2. /\ DOMAIN f \subseteq Keys /\ \A k \in DOMAIN f : f[k] \in Tags
        /\ DOMAIN g \subseteq Keys /\ \A k \in DOMAIN g : g[k] \in Tags
    BY DEF IsStore
  <1>3. \A s, t \in Tags : Tag(t.status, s.step) \in Tags
    BY DEF Tags, Tag
  <1>4. \A k \in DOMAIN m : m[k] \in Tags
    BY <1>1, <1>2, <1>3
  <1>5. IsStore(m)
    BY <1>1, <1>2, <1>4 DEF IsStore
  <1> QED BY <1>5 DEF m

LEMMA WithoutStore ==
    ASSUME NEW f, NEW keys, IsStore(f)
    PROVE  IsStore(Without(f, keys))
  <1>1. /\ DOMAIN Without(f, keys) = DOMAIN f \ keys
        /\ \A k \in DOMAIN f \ keys : Without(f, keys)[k] = f[k]
    BY DEF Without, Restrict
  <1> QED BY <1>1 DEF IsStore

LEMMA RestrictStore ==
    ASSUME NEW f, NEW keys, IsStore(f), keys \subseteq DOMAIN f
    PROVE  /\ IsStore(Restrict(f, keys)) /\ DOMAIN Restrict(f, keys) = keys
           /\ \A k \in keys : Restrict(f, keys)[k] = f[k]
  BY DEF IsStore, Restrict

\* The identities of the current batch.
LEMMA UidFacts ==
    ASSUME TypeOK, NEW q \in Slots \cup {Pad}
    PROVE  /\ Uid(q) \in Uids
           /\ Uid(q).part = part /\ Uid(q).step = step /\ Uid(q).batch = batch /\ Uid(q).slot = q
  <1>1. batch \in Nat
    BY ConfigAssumption DEF TypeOK
  <1> QED BY <1>1 DEF Uid, Uids, TypeOK

LEMMA ConfFacts ==
    ASSUME TypeOK
    PROVE  /\ conf.slots \subseteq Slots /\ conf.multiple \in Nat \ {0}
           /\ conf.last \in Nat /\ conf.valSteps \subseteq Nat /\ conf.valBatches \in Nat \ {0}
           /\ LoadedStep \in Nat /\ LoadedStep < conf.last
  BY ConfigAssumption, SizesAssumption DEF TypeOK

\* The dictionary of the buffer after the prompts of a batch are marked.
LEMMA MarkedStore ==
    ASSUME TypeOK, MarkRunning
    PROVE  /\ IsStore(buf') /\ DOMAIN buf' = DOMAIN buf \cup {PromptKey(u) : u \in Uids0}
           /\ \A k \in DOMAIN buf \ {PromptKey(u) : u \in Uids0} : buf'[k] = buf[k]
           /\ \A u \in Uids0 : buf'[PromptKey(u)] = Tag("running", step)
  <1> DEFINE marked == {PromptKey(Uid(q)) : q \in conf.slots}
             new == [k \in marked |-> Tag("running", step)]
  <1>1. buf' = Merge(buf, new)
    BY DEF MarkRunning
  <1>2. marked = {PromptKey(u) : u \in Uids0} /\ \A u \in Uids0 : PromptKey(u) \in marked
    BY DEF Uids0
  <1>3. marked \subseteq Keys
    BY ConfFacts, UidFacts, KeyFacts
  <1>4. DOMAIN new = marked /\ \A k \in marked : new[k] = Tag("running", step)
    OBVIOUS
  <1>5. Tag("running", step) \in Tags /\ Tag("running", step).step # NoStep
    BY DEF Tag, Tags, Statuses, TypeOK, NoStep
  <1> HIDE DEF marked, new
  <1>6. IsStore(new) /\ IsStore(buf)
    BY <1>3, <1>4, <1>5 DEF IsStore, TypeOK
  <1>7. /\ DOMAIN buf' = DOMAIN buf \cup marked
        /\ \A k \in DOMAIN buf \ marked : buf'[k] = buf[k]
        /\ \A k \in marked : buf'[k] = Tag("running", step)
    BY <1>1, <1>4, <1>5 DEF Merge
  <1> QED BY <1>1, <1>2, <1>6, <1>7, MergeStore

\* Leaving fit with an exception keeps what is left of the invariant.
LEMMA LeavesRaised ==
    ASSUME TypeOK, KeyInv, TagInv, WorkerInv, HeldInv, conf' = conf,
           pc' = "raised", stop' = TRUE, RaisesWithCause', TypeOK',
           pc \notin {"fit", "generate", "remove"},
           UNCHANGED <<store, poller, fit, workers>>
    PROVE  IInv'
  <1>1. KeyInv' /\ TagInv'
    BY DEF KeyInv, Stored, TagInv, TagsOf, Sampling, store, poller, fit
  <1>2. WorkerInv'
    BY DEF WorkerInv, Sampling, SessionsOver, workers
  <1>3. BatchInv' /\ HeldInv' /\ SampleIsWhole'
    BY DEF BatchInv, HeldInv, SampleIsWhole, Sampling, store, fit
  <1> QED BY <1>1, <1>2, <1>3 DEF IInv

LEMMA PollListStep ==
    ASSUME IInv, PollList, conf' = conf
    PROVE  IInv'
  <1>0. /\ TypeOK /\ KeyInv /\ TagInv /\ WorkerInv /\ BatchInv /\ HeldInv
        /\ SampleIsWhole /\ RaisesWithCause
    BY DEF IInv
  <1>a. /\ poll = "list" /\ snap' = tq /\ poll' \in {"list", "add"}
        /\ UNCHANGED <<store, stop, trainer, workers>>
    BY DEF PollList
  <1>1. TypeOK'
    BY <1>0, <1>a DEF TypeOK, store, trainer, fit, workers
  <1>2. KeyInv' /\ TagInv'
    BY <1>0, <1>a DEF KeyInv, Stored, TagInv, TagsOf, Sampling, Uids0, Uid, store, trainer, fit
  <1>3. WorkerInv' /\ HeldInv'
    BY <1>0, <1>a DEF WorkerInv, HeldInv, SessionsOver, Sampling, Uids0, Uid, store, trainer,
       fit, workers
  <1>4. BatchInv'
    <2> SUFFICES ASSUME Sampling' PROVE BatchInv'
      BY DEF BatchInv
    <2>1. Sampling /\ conf' = conf
      BY <1>a DEF Sampling, trainer
    <2>2. \A q : Uid(q)' = Uid(q) /\ GroupStatus(q)' = GroupStatus(q) /\ Put(q)' = Put(q)
      BY <1>a DEF Uid, GroupStatus, Put, trainer, fit, workers, store
    <2>3. \A q \in conf.slots : PromptInv(q)'
      BY <1>0, <1>a, <2>1, <2>2 DEF BatchInv, PromptInv, Put, trainer, fit, workers, store
    <2>4. \A k \in DOMAIN buf' \cup DOMAIN snap' :
             IsTrajectory(k) /\ IsCurrent(k)' => k \in DOMAIN tq'
      BY <1>0, <1>a, <2>1 DEF BatchInv, IsCurrent, trainer, fit, store
    <2> QED BY <2>1, <2>3, <2>4 DEF BatchInv
  <1>5. SampleIsWhole' /\ RaisesWithCause'
    BY <1>0, <1>a DEF SampleIsWhole, RaisesWithCause, GroupStatus, CurrentKeys, Uid,
       trainer, fit, workers, store
  <1> QED BY <1>1, <1>2, <1>3, <1>4, <1>5 DEF IInv

LEMMA PollFailsStep ==
    ASSUME IInv, PollFails, conf' = conf
    PROVE  IInv'
  <1>0. /\ TypeOK /\ KeyInv /\ TagInv /\ WorkerInv /\ BatchInv /\ HeldInv
        /\ SampleIsWhole /\ RaisesWithCause
    BY DEF IInv
  <1>1. TypeOK'
    BY <1>0 DEF PollFails, TypeOK, store, trainer, fit, workers
  <1>2. KeyInv'
    BY <1>0 DEF PollFails, KeyInv, Stored, store, trainer, fit
  <1>3. TagInv'
    BY <1>0 DEF PollFails, TagInv, TagsOf, Sampling, Uids0, Uid, store, trainer, fit
  <1>4. WorkerInv'
    BY <1>0 DEF PollFails, WorkerInv, Sampling, SessionsOver, trainer, workers
  <1>5. BatchInv'
    BY <1>0 DEF PollFails, BatchInv, PromptInv, IsCurrent, Sampling, Put, GroupStatus,
       Uid, store, trainer, fit, workers
  <1>6. HeldInv'
    BY <1>0 DEF PollFails, HeldInv, Uids0, Uid, store, trainer, fit
  <1>7. SampleIsWhole'
    BY <1>0 DEF PollFails, SampleIsWhole, GroupStatus, CurrentKeys, Uid, store,
       trainer, fit, workers
  <1>8. RaisesWithCause'
    BY <1>0 DEF PollFails, RaisesWithCause, CurrentKeys, Uid, store, trainer, fit,
       workers
  <1> QED BY <1>1, <1>2, <1>3, <1>4, <1>5, <1>6, <1>7, <1>8 DEF IInv

LEMMA PollStopsStep ==
    ASSUME IInv, PollStops, conf' = conf
    PROVE  IInv'
  <1>0. /\ TypeOK /\ KeyInv /\ TagInv /\ WorkerInv /\ BatchInv /\ HeldInv
        /\ SampleIsWhole /\ RaisesWithCause
    BY DEF IInv
  <1>1. TypeOK'
    BY <1>0 DEF PollStops, TypeOK, store, trainer, fit, workers
  <1>2. KeyInv'
    BY <1>0 DEF PollStops, KeyInv, Stored, store, trainer, fit
  <1>3. TagInv'
    BY <1>0 DEF PollStops, TagInv, TagsOf, Sampling, Uids0, Uid, store, trainer, fit
  <1>4. WorkerInv'
    BY <1>0 DEF PollStops, WorkerInv, Sampling, SessionsOver, trainer, workers
  <1>5. BatchInv'
    BY <1>0 DEF PollStops, BatchInv, PromptInv, IsCurrent, Sampling, Put, GroupStatus,
       Uid, store, trainer, fit, workers
  <1>6. HeldInv'
    BY <1>0 DEF PollStops, HeldInv, Uids0, Uid, store, trainer, fit
  <1>7. SampleIsWhole'
    BY <1>0 DEF PollStops, SampleIsWhole, GroupStatus, CurrentKeys, Uid, store,
       trainer, fit, workers
  <1>8. RaisesWithCause'
    BY <1>0 DEF PollStops, RaisesWithCause, CurrentKeys, Uid, store, trainer, fit,
       workers
  <1> QED BY <1>1, <1>2, <1>3, <1>4, <1>5, <1>6, <1>7, <1>8 DEF IInv

LEMMA AddStep ==
    ASSUME NEW p \in Partitions, IInv, Add(p), conf' = conf
    PROVE  IInv'
  <1> DEFINE items == {k \in DOMAIN snap : k.uid.part = p}
             new == Restrict(snap, items)
  <1>0. /\ TypeOK /\ KeyInv /\ TagInv /\ WorkerInv /\ BatchInv /\ HeldInv
        /\ SampleIsWhole /\ RaisesWithCause
    BY DEF IInv
  <1>a. /\ poll = "add" /\ buf' = Merge(buf, new) /\ snap' = Without(snap, items)
        /\ poll' \in {"list", "add"}
        /\ UNCHANGED <<tq, stop, trainer, workers>>
    BY DEF Add
  <1>b. /\ items \subseteq DOMAIN snap
        /\ \A k \in DOMAIN snap : k \in items <=> k.uid.part = p
    OBVIOUS
  <1>c. IsStore(buf) /\ IsStore(snap)
    BY <1>0 DEF TypeOK
  <1>d. IsStore(new) /\ DOMAIN new = items /\ \A k \in items : new[k] = snap[k]
    BY <1>b, <1>c, RestrictStore
  <1> HIDE DEF items, new
  <1>e. /\ DOMAIN buf' = DOMAIN buf \cup items
        /\ \A k \in DOMAIN buf \ items : buf'[k] = buf[k]
        /\ \A k \in items \ DOMAIN buf : buf'[k] = snap[k]
        /\ \A k \in DOMAIN buf \cap items :
              buf'[k] = IF snap[k].step # NoStep THEN snap[k] ELSE Tag(snap[k].status, buf[k].step)
    BY <1>a, <1>d DEF Merge
  <1>f. /\ DOMAIN snap' = DOMAIN snap \ items
        /\ \A k \in DOMAIN snap \ items : snap'[k] = snap[k]
    BY <1>a DEF Without, Restrict
  <1>g. Stored' \subseteq Stored /\ Stored' \subseteq Keys
    BY <1>0, <1>a, <1>b, <1>e, <1>f DEF Stored, TypeOK, IsStore
  <1>1. TypeOK'
    <2>1. IsStore(buf') /\ IsStore(snap')
      BY <1>a, <1>c, <1>d, MergeStore, WithoutStore
    <2> QED BY <1>0, <1>a, <2>1 DEF TypeOK, trainer, fit, workers
  <1>2. KeyInv'
    BY <1>0, <1>a, <1>g DEF KeyInv, trainer, fit
  <1>3. TagInv'
    <2>1. TagsOf(tq)'
      BY <1>0, <1>a DEF TagInv, TagsOf, Sampling, Uids0, Uid, trainer, fit
    <2>2. TagsOf(snap)'
      BY <1>0, <1>a, <1>f DEF TagInv, TagsOf, Sampling, Uids0, Uid, trainer, fit
    <2>3. \A k \in DOMAIN buf' :
             /\ \/ k \in DOMAIN buf /\ buf'[k].status = buf[k].status /\ buf'[k].step = buf[k].step
                                    /\ buf'[k] = buf[k]
                \/ k \in DOMAIN snap /\ buf'[k] = snap[k]
                \/ /\ k \in DOMAIN snap /\ k \in DOMAIN buf /\ snap[k].step = NoStep
                   /\ buf'[k].status = snap[k].status
      BY <1>b, <1>e DEF Tag
    <2>4. \A k \in DOMAIN snap : IsTrajectory(k) => snap[k].step # NoStep
      BY <1>0, <1>c DEF TagInv, TagsOf, Tag, IsStore, Keys, Uids, NoStep
    <2>5. TagsOf(buf)'
      BY <1>0, <1>a, <2>3, <2>4 DEF TagInv, TagsOf, Sampling, Uids0, Uid, trainer, fit
    <2> QED BY <2>1, <2>2, <2>5 DEF TagInv
  <1>4. WorkerInv'
    BY <1>0, <1>a DEF WorkerInv, SessionsOver, Sampling, trainer, fit, workers
  <1>5. HeldInv'
    BY <1>0, <1>a, <1>e DEF HeldInv, Uids0, Uid, trainer, fit
  <1>6. BatchInv'
    <2> SUFFICES ASSUME Sampling' PROVE BatchInv'
      BY DEF BatchInv
    <2>1. Sampling /\ conf' = conf
      BY <1>a DEF Sampling, trainer
    <2>2. \A q : Uid(q)' = Uid(q) /\ GroupStatus(q)' = GroupStatus(q) /\ Put(q)' = Put(q)
      BY <1>a DEF Uid, GroupStatus, Put, trainer, fit, workers
    <2>3. ASSUME NEW q \in conf.slots PROVE PromptInv(q)'
      <3> DEFINE k == PromptKey(Uid(q))
      <3>1. PromptInv(q)
        BY <1>0, <2>1 DEF BatchInv
      <3>2. /\ k \in Keys /\ k.uid = Uid(q) /\ Uid(q).part = part
        BY <1>0, ConfFacts, UidFacts, KeyFacts
      <3>3. \A t \in Put(q) : t.uid.part = part
        BY <3>2 DEF Put
      <3>4. k' = k
        BY <2>2
      <3> HIDE DEF k
      <3>5. CASE k \in items
        <4>1. /\ k \in DOMAIN tq /\ snap[k] = tq[k] /\ Put(q) \subseteq DOMAIN snap
              /\ prompt[q] = "published" /\ tq[k] = Tag(GroupStatus(q), NoStep)
              /\ k \in DOMAIN buf /\ buf[k].step = step
          BY <1>b, <3>1, <3>5 DEF PromptInv, k
        <4>2. part = p
          BY <1>b, <3>2, <3>5
        <4>3. Put(q) \subseteq items
          BY <1>b, <3>3, <4>1, <4>2
        <4>4. buf'[k] = Tag(GroupStatus(q), step)
          BY <1>e, <3>5, <4>1 DEF Tag
        <4>5. k \notin DOMAIN snap'
          BY <1>f, <3>5
        <4>6. /\ k \in DOMAIN buf' /\ buf'[k].step = step' /\ buf'[k].status = GroupStatus(q)'
              /\ prompt'[q] = "published" /\ Put(q)' \subseteq DOMAIN buf'
          BY <1>a, <1>e, <2>2, <4>1, <4>3, <4>4 DEF Tag, trainer, fit, workers
        <4>7. k \in DOMAIN tq' => prompt'[q] = "published" /\ tq'[k] = Tag(GroupStatus(q), NoStep)'
          BY <1>a, <2>2, <4>1, <4>6 DEF Tag
        <4> QED BY <3>4, <4>5, <4>6, <4>7 DEF PromptInv, k
      <3>6. CASE k \notin items
        <4>1. /\ k \in DOMAIN buf /\ buf'[k] = buf[k] /\ k \in DOMAIN buf'
          BY <1>e, <3>1, <3>6 DEF PromptInv, k
        <4>2. k \in DOMAIN snap' => k \in DOMAIN snap /\ snap'[k] = snap[k] /\ part # p
          BY <1>b, <1>f, <3>2, <3>6
        <4>3. part # p => Put(q) \cap items = {}
          BY <1>b, <3>3
        <4>4. k \in DOMAIN snap' => Put(q)' \subseteq DOMAIN snap'
          BY <1>f, <2>2, <3>1, <4>2, <4>3 DEF PromptInv, k
        <4>5. Put(q) \subseteq DOMAIN buf => Put(q)' \subseteq DOMAIN buf'
          BY <1>e, <2>2
        <4>6. Tag(GroupStatus(q), NoStep)' = Tag(GroupStatus(q), NoStep)
          BY <2>2 DEF Tag
        <4>7. step' = step /\ prompt' = prompt /\ tq' = tq
          BY <1>a DEF trainer, fit, workers
        <4> QED BY <2>2, <3>1, <3>4, <4>1, <4>2, <4>4, <4>5, <4>6, <4>7 DEF PromptInv, k
      <3> QED BY <3>5, <3>6
    <2>4. \A k \in DOMAIN buf' \cup DOMAIN snap' :
             IsTrajectory(k) /\ IsCurrent(k)' => k \in DOMAIN tq'
      BY <1>0, <1>a, <1>b, <1>e, <1>f, <2>1 DEF BatchInv, IsCurrent, trainer, fit
    <2> QED BY <2>1, <2>3, <2>4 DEF BatchInv
  <1>7. SampleIsWhole' /\ RaisesWithCause'
    BY <1>0, <1>a DEF SampleIsWhole, RaisesWithCause, GroupStatus, CurrentKeys, Uid,
       trainer, fit, workers
  <1> QED BY <1>1, <1>2, <1>3, <1>4, <1>5, <1>6, <1>7 DEF IInv

LEMMA SessionFailsStep ==
    ASSUME NEW q \in Slots, NEW i \in 1..N, IInv, SessionFails(q, i), conf' = conf
    PROVE  IInv'
  <1>0. /\ TypeOK /\ KeyInv /\ TagInv /\ WorkerInv /\ BatchInv /\ HeldInv
        /\ SampleIsWhole /\ RaisesWithCause
    BY DEF IInv
  <1>1. TypeOK'
    BY <1>0 DEF SessionFails, TypeOK, store, poller, trainer, fit
  <1>2. KeyInv'
    BY <1>0 DEF SessionFails, KeyInv, Stored, store, poller, trainer, fit
  <1>3. TagInv'
    BY <1>0 DEF SessionFails, TagInv, TagsOf, Sampling, Uids0, Uid, store, poller,
       trainer, fit
  <1>4. WorkerInv'
    BY <1>0 DEF SessionFails, WorkerInv, Sampling, SessionsOver, trainer
  <1>5. BatchInv'
    BY <1>0 DEF SessionFails, BatchInv, PromptInv, IsCurrent, Sampling, Put,
       GroupStatus, Uid, store, poller, trainer, fit
  <1>6. HeldInv'
    BY <1>0 DEF SessionFails, HeldInv, Uids0, Uid, store, trainer, fit
  <1>7. SampleIsWhole'
    BY <1>0 DEF SessionFails, SampleIsWhole, GroupStatus, CurrentKeys, Uid, store,
       trainer, fit
  <1>8. RaisesWithCause'
    BY <1>0 DEF SessionFails, RaisesWithCause, CurrentKeys, Uid, store, poller,
       trainer, fit
  <1> QED BY <1>1, <1>2, <1>3, <1>4, <1>5, <1>6, <1>7, <1>8 DEF IInv

LEMMA SessionPutsStep ==
    ASSUME NEW q \in Slots, NEW i \in 1..N, NEW n \in 0..MaxOutputs, IInv, SessionPuts(q, i, n), conf' = conf
    PROVE  IInv'
  <1> DEFINE new == [k \in {Trajectory(Uid(q), i, j) : j \in 0..(n - 1)} |-> Tag("success", step)]
  <1>0. /\ TypeOK /\ KeyInv /\ TagInv /\ WorkerInv /\ BatchInv /\ HeldInv
        /\ SampleIsWhole /\ RaisesWithCause
    BY DEF IInv
  <1>a. /\ prompt[q] = "running" /\ ~stop /\ tq' = Merge(tq, new)
        /\ session' = [session EXCEPT ![q][i] = "ended"]
        /\ UNCHANGED <<buf, poller, stop, trainer, prompt>>
    BY DEF SessionPuts
  <1>b. Sampling /\ q \in conf.slots /\ conf.slots \subseteq Slots
    <2>1. Sampling
      BY <1>0, <1>a DEF WorkerInv, Sampling
    <2>2. \A r \in Slots \ conf.slots : prompt[r] = "none"
      BY <1>0, <2>1 DEF WorkerInv
    <2> QED BY <1>0, <1>a, <2>1, <2>2, ConfFacts
  <1>c. /\ Uid(q) \in Uids /\ Uid(q).part = part /\ Uid(q).step = step /\ Uid(q).batch = batch
        /\ Uid(q).slot = q /\ Uid(q) \in Uids0
    BY <1>0, <1>b, UidFacts DEF Uids0
  <1>d. \A k \in DOMAIN new : k \in Keys /\ k.uid = Uid(q) /\ IsTrajectory(k)
    <2>1. i \in Nat \ {0}
      BY SizesAssumption
    <2> QED BY <1>c, <2>1, KeyFacts
  <1>e. \A k \in DOMAIN new : new[k] = Tag("success", step)
    OBVIOUS
  <1> HIDE DEF new
  <1>f. step \in Nat /\ Tag("success", step) \in Tags /\ Tag("success", step).step # NoStep
    BY <1>0 DEF TypeOK, Tag, Tags, Statuses, NoStep
  <1>g. IsStore(tq) /\ IsStore(new)
    BY <1>0, <1>d, <1>e, <1>f DEF IsStore, TypeOK
  <1>h. /\ DOMAIN tq' = DOMAIN tq \cup DOMAIN new
        /\ \A k \in DOMAIN tq \ DOMAIN new : tq'[k] = tq[k]
        /\ \A k \in DOMAIN new : tq'[k] = Tag("success", step)
    BY <1>a, <1>e, <1>f DEF Merge
  <1>i. /\ session' \in [Slots -> [1..N -> {"none", "running", "ended", "failed"}]]
        /\ session'[q][i] = "ended"
        /\ \A r \in Slots, l \in 1..N : session'[r][l] = session[r][l] \/ (r = q /\ session'[r][l] = "ended")
        /\ \A r \in Slots : r # q => session'[r] = session[r]
    BY <1>0, <1>a DEF TypeOK
  <1>1. TypeOK'
    BY <1>0, <1>a, <1>g, <1>i, MergeStore DEF TypeOK, trainer, fit, poller
  <1>2. KeyInv'
    <2>1. \A k \in Stored' : k \in Stored \/ (k.uid = Uid(q) /\ IsTrajectory(k))
      BY <1>a, <1>d, <1>h DEF Stored, poller
    <2>2. UNCHANGED <<pc, step, part, batch>> /\ pc \in {"sample", "look"}
      BY <1>a, <1>b DEF Sampling, trainer, fit
    <2> QED BY <1>0, <1>c, <1>f, <2>1, <2>2 DEF KeyInv, TypeOK
  <1>3. TagInv'
    <2>1. TagsOf(buf)' /\ TagsOf(snap)'
      BY <1>0, <1>a DEF TagInv, TagsOf, Sampling, Uids0, Uid, trainer, fit, poller
    <2>2. TagsOf(tq)'
      BY <1>0, <1>a, <1>c, <1>d, <1>h DEF TagInv, TagsOf, Sampling, Uids0, Uid, trainer, fit
    <2> QED BY <2>1, <2>2 DEF TagInv
  <1>4. WorkerInv'
    <2>1. \A r \in Slots : prompt'[r] = "published" => SessionsOver(r)'
      BY <1>0, <1>a, <1>i DEF WorkerInv, SessionsOver
    <2>2. \A r \in conf.slots, l \in 1..N : session'[r][l] # "none"
      BY <1>0, <1>b, <1>i DEF WorkerInv
    <2> QED BY <1>0, <1>a, <2>1, <2>2 DEF WorkerInv, Sampling, trainer, fit
  <1>5. HeldInv'
    <2>1. pc \in {"sample", "look"} /\ Uids0' = Uids0
      BY <1>a, <1>b DEF Sampling, Uids0, Uid, trainer, fit
    <2> QED BY <1>0, <1>a, <1>c, <1>d, <1>h, <2>1 DEF HeldInv, trainer, fit
  <1>6. BatchInv'
    <2>1. \A r : Uid(r)' = Uid(r)
      BY <1>a DEF Uid, trainer, fit
    <2>2. ASSUME NEW r \in conf.slots PROVE PromptInv(r)'
      <3> DEFINE k == PromptKey(Uid(r))
      <3>1. PromptInv(r)
        BY <1>0, <1>b DEF BatchInv
      <3>2. /\ k \in Keys /\ k.uid = Uid(r) /\ Uid(r).slot = r /\ ~IsTrajectory(k)
        BY <1>0, <1>b, UidFacts, KeyFacts
      <3>3. k' = k
        BY <2>1
      <3> HIDE DEF k
      <3>4. k \notin DOMAIN new
        BY <1>d, <3>2
      <3>5. (k \in DOMAIN tq' <=> k \in DOMAIN tq) /\ (k \in DOMAIN tq => tq'[k] = tq[k])
        BY <1>h, <3>4
      <3>6. UNCHANGED <<buf, snap, step, prompt>>
        BY <1>a DEF trainer, fit, poller
      <3>7. CASE r = q
        <4>1. k \notin DOMAIN tq /\ k \notin DOMAIN snap
          BY <1>a, <3>1, <3>7 DEF PromptInv, k
        <4>2. buf[k].status = "running" /\ k \in DOMAIN buf /\ buf[k].step = step
          BY <1>a, <3>1, <3>7 DEF PromptInv, k
        <4> QED BY <3>3, <3>5, <3>6, <4>1, <4>2 DEF PromptInv, k
      <3>8. CASE r # q
        <4>1. Put(r)' = Put(r)
          BY <1>c, <1>d, <1>h, <2>1, <3>2, <3>8 DEF Put
        <4>2. GroupStatus(r)' = GroupStatus(r) /\ Tag(GroupStatus(r), NoStep)' = Tag(GroupStatus(r), NoStep)
          BY <1>b, <1>i, <3>8 DEF GroupStatus, Tag
        <4> QED BY <3>1, <3>3, <3>5, <3>6, <4>1, <4>2 DEF PromptInv, k
      <3> QED BY <3>7, <3>8
    <2>3. \A k \in DOMAIN buf' \cup DOMAIN snap' :
             IsTrajectory(k) /\ IsCurrent(k)' => k \in DOMAIN tq'
      BY <1>0, <1>a, <1>b, <1>h DEF BatchInv, IsCurrent, trainer, fit, poller
    <2> QED BY <2>2, <2>3 DEF BatchInv
  <1>7. SampleIsWhole' /\ RaisesWithCause'
    <2>1. pc' \in {"sample", "look"} /\ why' = "none"
      BY <1>0, <1>a, <1>b DEF Sampling, WorkerInv, trainer
    <2> QED BY <2>1 DEF SampleIsWhole, RaisesWithCause
  <1> QED BY <1>1, <1>2, <1>3, <1>4, <1>5, <1>6, <1>7 DEF IInv

LEMMA PublishStep ==
    ASSUME NEW q \in Slots, IInv, Publish(q), conf' = conf
    PROVE  IInv'
  <1> DEFINE key == PromptKey(Uid(q))
             tag == Tag(GroupStatus(q), NoStep)
             new == [k \in {key} |-> tag]
  <1>0. /\ TypeOK /\ KeyInv /\ TagInv /\ WorkerInv /\ BatchInv /\ HeldInv
        /\ SampleIsWhole /\ RaisesWithCause
    BY DEF IInv
  <1>a. /\ prompt[q] = "running" /\ ~stop /\ SessionsOver(q) /\ tq' = Merge(tq, new)
        /\ prompt' = [prompt EXCEPT ![q] = "published"]
        /\ UNCHANGED <<buf, poller, stop, trainer, session>>
    BY DEF Publish
  <1>b. Sampling /\ q \in conf.slots /\ conf.slots \subseteq Slots
    <2>1. Sampling
      BY <1>0, <1>a DEF WorkerInv, Sampling
    <2>2. \A r \in Slots \ conf.slots : prompt[r] = "none"
      BY <1>0, <2>1 DEF WorkerInv
    <2> QED BY <1>0, <1>a, <2>1, <2>2, ConfFacts
  <1>c. /\ Uid(q) \in Uids /\ Uid(q).part = part /\ Uid(q).step = step /\ Uid(q).batch = batch
        /\ Uid(q).slot = q /\ Uid(q) \in Uids0
    BY <1>0, <1>b, UidFacts DEF Uids0
  <1>d. key \in Keys /\ key.uid = Uid(q) /\ ~IsTrajectory(key)
    BY <1>c, KeyFacts
  <1>e. PromptInv(q)
    BY <1>0, <1>b DEF BatchInv
  <1>f. key \notin DOMAIN tq /\ key \notin DOMAIN snap /\ key \in DOMAIN buf
        /\ buf[key].status = "running" /\ buf[key].step = step
    BY <1>a, <1>e DEF PromptInv
  <1>g. tag \in Tags /\ tag.status \in {"failure", "finished"} /\ tag.status # "success"
    BY DEF Tag, Tags, Statuses, GroupStatus
  <1>h. DOMAIN new = {key} /\ new[key] = tag
    OBVIOUS
  <1>i. tag' = tag /\ key' = key
    BY <1>a DEF Tag, GroupStatus, PromptKey, Uid, trainer, fit
  <1> HIDE DEF key, tag, new
  <1>j. IsStore(tq) /\ IsStore(new)
    BY <1>0, <1>d, <1>g, <1>h DEF IsStore, TypeOK
  <1>k. /\ DOMAIN tq' = DOMAIN tq \cup {key} /\ tq'[key] = tag
        /\ \A k \in DOMAIN tq : tq'[k] = tq[k]
    BY <1>a, <1>f, <1>h DEF Merge
  <1>l. /\ prompt' \in [Slots -> {"none", "running", "published", "lost"}]
        /\ prompt'[q] = "published" /\ \A r \in Slots : r # q => prompt'[r] = prompt[r]
    BY <1>0, <1>a DEF TypeOK
  <1>1. TypeOK'
    BY <1>0, <1>a, <1>j, <1>l, MergeStore DEF TypeOK, trainer, fit, poller
  <1>2. KeyInv'
    <2>1. key = PromptKey(key.uid)
      BY <1>d DEF key
    <2>2. \A k \in Stored' : k \in Stored \/ k = key
      BY <1>a, <1>k DEF Stored, poller
    <2>3. UNCHANGED <<pc, step, part, batch>> /\ pc \in {"sample", "look"} /\ batch \in Nat
      BY <1>0, <1>a, <1>b, ConfFacts DEF Sampling, trainer, fit, TypeOK
    <2> QED BY <1>0, <1>c, <1>d, <2>1, <2>2, <2>3 DEF KeyInv, TypeOK
  <1>3. TagInv'
    <2>1. TagsOf(buf)' /\ TagsOf(snap)'
      BY <1>0, <1>a DEF TagInv, TagsOf, Sampling, Uids0, Uid, trainer, fit, poller
    <2>2. TagsOf(tq)'
      BY <1>0, <1>a, <1>b, <1>c, <1>d, <1>g, <1>k DEF TagInv, TagsOf, Sampling, Uids0, Uid,
         trainer, fit
    <2> QED BY <2>1, <2>2 DEF TagInv
  <1>4. WorkerInv'
    BY <1>0, <1>a, <1>b, <1>l DEF WorkerInv, Sampling, SessionsOver, trainer, fit
  <1>5. HeldInv'
    BY <1>0, <1>a, <1>d, <1>k DEF HeldInv, Uids0, Uid, trainer, fit
  <1>6. BatchInv'
    <2>1. \A r : Uid(r)' = Uid(r) /\ GroupStatus(r)' = GroupStatus(r)
                 /\ Tag(GroupStatus(r), NoStep)' = Tag(GroupStatus(r), NoStep)
      BY <1>a DEF Uid, GroupStatus, Tag, trainer, fit
    <2>2. \A r : Put(r)' = Put(r)
      BY <1>d, <1>k, <2>1 DEF Put
    <2>3. UNCHANGED <<buf, snap, step>>
      BY <1>a DEF trainer, fit, poller
    <2>4. ASSUME NEW r \in conf.slots PROVE PromptInv(r)'
      <3>1. CASE r = q
        BY <1>f, <1>i, <1>k, <1>l, <2>3, <3>1 DEF PromptInv, key, tag
      <3>2. CASE r # q
        <4> DEFINE k == PromptKey(Uid(r))
        <4>1. PromptInv(r)
          BY <1>0, <1>b DEF BatchInv
        <4>2. k.uid = Uid(r) /\ Uid(r).slot = r /\ k' = k
          BY <1>0, <1>b, <2>1, UidFacts, KeyFacts
        <4> HIDE DEF k
        <4>3. k # key
          BY <1>c, <1>d, <3>2, <4>2
        <4>4. (k \in DOMAIN tq' <=> k \in DOMAIN tq) /\ (k \in DOMAIN tq => tq'[k] = tq[k])
          BY <1>k, <4>3
        <4>5. prompt'[r] = prompt[r]
          BY <1>b, <1>l, <3>2
        <4> QED BY <2>1, <2>2, <2>3, <4>1, <4>2, <4>4, <4>5 DEF PromptInv, k
      <3> QED BY <3>1, <3>2
    <2>5. \A k \in DOMAIN buf' \cup DOMAIN snap' :
             IsTrajectory(k) /\ IsCurrent(k)' => k \in DOMAIN tq'
      BY <1>0, <1>a, <1>b, <1>k DEF BatchInv, IsCurrent, trainer, fit, poller
    <2> QED BY <2>4, <2>5 DEF BatchInv
  <1>7. SampleIsWhole' /\ RaisesWithCause'
    <2>1. pc' \in {"sample", "look"} /\ why' = "none"
      BY <1>0, <1>a, <1>b DEF Sampling, WorkerInv, trainer
    <2> QED BY <2>1 DEF SampleIsWhole, RaisesWithCause
  <1> QED BY <1>1, <1>2, <1>3, <1>4, <1>5, <1>6, <1>7 DEF IInv

LEMMA LoseStep ==
    ASSUME NEW q \in Slots, IInv, Lose(q), conf' = conf
    PROVE  IInv'
  <1>0. /\ TypeOK /\ KeyInv /\ TagInv /\ WorkerInv /\ BatchInv /\ HeldInv
        /\ SampleIsWhole /\ RaisesWithCause
    BY DEF IInv
  <1>1. TypeOK'
    BY <1>0 DEF Lose, TypeOK, store, poller, trainer, fit
  <1>2. KeyInv'
    BY <1>0 DEF Lose, KeyInv, Stored, store, poller, trainer, fit
  <1>3. TagInv'
    BY <1>0 DEF Lose, TagInv, TagsOf, Sampling, Uids0, Uid, store, poller, trainer, fit
  <1>4. WorkerInv'
    BY <1>0 DEF Lose, WorkerInv, Sampling, SessionsOver, trainer
  <1>5. BatchInv'
    BY <1>0 DEF Lose, BatchInv, PromptInv, IsCurrent, Sampling, Put, GroupStatus, Uid,
       store, poller, trainer, fit
  <1>6. HeldInv'
    BY <1>0 DEF Lose, HeldInv, Uids0, Uid, store, trainer, fit
  <1>7. SampleIsWhole'
    BY <1>0 DEF Lose, SampleIsWhole, GroupStatus, CurrentKeys, Uid, store, trainer, fit
  <1>8. RaisesWithCause'
    BY <1>0 DEF Lose, RaisesWithCause, CurrentKeys, Uid, store, poller, trainer, fit
  <1> QED BY <1>1, <1>2, <1>3, <1>4, <1>5, <1>6, <1>7, <1>8 DEF IInv

LEMMA FitBeginsStep ==
    ASSUME IInv, FitBegins, conf' = conf
    PROVE  IInv'
  <1>0. /\ TypeOK /\ KeyInv /\ TagInv /\ WorkerInv /\ BatchInv /\ HeldInv
    BY DEF IInv
  <1>a. /\ pc = "fit" /\ pc' = "generate"
        /\ \/ step' = step /\ part' = "val" /\ batch' = 1
           \/ step' = step + 1 /\ part' = "train" /\ batch' = 0
        /\ UNCHANGED <<store, poller, stop, why, got, held, workers>>
    BY DEF FitBegins, Submit
  <1>b. step \in Nat /\ LoadedStep \in Nat /\ conf.valBatches \in Nat \ {0}
    BY <1>0, ConfFacts DEF TypeOK
  <1>c. Stored = {} /\ step = LoadedStep /\ held = {} /\ why = "none"
    BY <1>0, <1>a DEF KeyInv, HeldInv, WorkerInv
  <1>1. TypeOK'
    BY <1>0, <1>a, <1>b DEF TypeOK, Partitions, store, poller, workers
  <1>2. KeyInv'
    BY <1>0, <1>a, <1>b, <1>c DEF KeyInv, Stored, store, poller
  <1>3. TagInv' /\ WorkerInv' /\ BatchInv'
    BY <1>0, <1>a, <1>c DEF TagInv, TagsOf, WorkerInv, BatchInv, Stored, Sampling, SessionsOver,
       store, poller, workers
  <1>4. HeldInv'
    BY <1>0, <1>a, <1>c DEF HeldInv, Stored, store
  <1>5. SampleIsWhole' /\ RaisesWithCause'
    BY <1>a, <1>c DEF SampleIsWhole, RaisesWithCause
  <1> QED BY <1>1, <1>2, <1>3, <1>4, <1>5 DEF IInv

LEMMA GenerateSequencesStep ==
    ASSUME IInv, GenerateSequences, conf' = conf
    PROVE  IInv'
  <1>0. /\ TypeOK /\ KeyInv /\ TagInv /\ WorkerInv /\ BatchInv /\ HeldInv
        /\ SampleIsWhole /\ RaisesWithCause
    BY DEF IInv
  <1>a. /\ pc = "generate" /\ MarkRunning /\ pc' = "sample"
        /\ session' = [q \in Slots |-> [i \in 1..N |-> IF q \in conf.slots THEN "running" ELSE "none"]]
        /\ prompt' = [q \in Slots |-> IF q \in conf.slots THEN "running" ELSE "none"]
        /\ UNCHANGED <<tq, poller, stop, why, fit>>
    BY DEF GenerateSequences
  <1>b. /\ IsStore(buf') /\ DOMAIN buf' = DOMAIN buf \cup {PromptKey(u) : u \in Uids0}
        /\ \A k \in DOMAIN buf \ {PromptKey(u) : u \in Uids0} : buf'[k] = buf[k]
        /\ \A u \in Uids0 : buf'[PromptKey(u)] = Tag("running", step)
    BY <1>0, <1>a, MarkedStore
  <1>c. /\ conf.slots \subseteq Slots
        /\ \A q \in Slots : Uid(q) \in Uids /\ Uid(q).part = part /\ Uid(q).step = step /\ Uid(q).batch = batch
    BY <1>0, ConfFacts, UidFacts
  <1>d. \A u \in Uids0 : /\ PromptKey(u) \in Keys /\ PromptKey(u).uid = u /\ ~IsTrajectory(PromptKey(u))
                         /\ u.part = part /\ u.step = step /\ u.batch = batch
    BY <1>c, KeyFacts DEF Uids0
  <1>e. Uids0' = Uids0 /\ \A q : Uid(q)' = Uid(q)
    BY <1>a DEF Uids0, Uid, fit
  <1>f. \A k \in Stored : ~IsCurrent(k)
    BY <1>0, <1>a DEF KeyInv, IsCurrent, TypeOK
  <1>g. \A u \in Uids0 : PromptKey(u) \notin Stored
    BY <1>d, <1>f DEF IsCurrent
  <1>1. TypeOK'
    BY <1>0, <1>a, <1>b DEF TypeOK, poller, fit
  <1>2. KeyInv'
    <2>1. \A k \in Stored' : k \in Stored \/ \E u \in Uids0 : k = PromptKey(u)
      BY <1>a, <1>b DEF Stored, poller
    <2>2. UNCHANGED <<step, part, batch>> /\ batch \in Nat
      BY <1>0, <1>a, ConfFacts DEF fit, TypeOK
    <2>3. \A k \in Stored : k.uid.batch \in Nat
      BY <1>0 DEF Stored, TypeOK, IsStore, Keys, Uids
    <2> QED BY <1>0, <1>a, <1>d, <2>1, <2>2, <2>3 DEF KeyInv, TypeOK
  <1>3. TagInv'
    <2>1. TagsOf(tq)' /\ TagsOf(snap)'
      BY <1>0, <1>a DEF TagInv, TagsOf, Sampling, poller
    <2>2. TagsOf(buf)'
      <3>1. Tag("running", step).status = "running"
        BY DEF Tag
      <3> QED BY <1>0, <1>a, <1>b, <1>d, <1>e, <3>1 DEF TagInv, TagsOf, Sampling
    <2> QED BY <2>1, <2>2 DEF TagInv
  <1>4. WorkerInv'
    BY <1>0, <1>a, <1>c DEF WorkerInv, Sampling, SessionsOver
  <1>5. HeldInv'
    BY <1>0, <1>a, <1>b, <1>e DEF HeldInv, fit
  <1>6. BatchInv'
    <2>1. ASSUME NEW q \in conf.slots PROVE PromptInv(q)'
      <3>1. Uid(q) \in Uids0 /\ q \in Slots
        BY <1>c DEF Uids0
      <3>2. PromptKey(Uid(q))' = PromptKey(Uid(q)) /\ step' = step
        BY <1>a, <1>e DEF fit
      <3>3. PromptKey(Uid(q)) \notin DOMAIN tq' /\ PromptKey(Uid(q)) \notin DOMAIN snap'
        BY <1>a, <1>g, <3>1 DEF Stored, poller
      <3>4. /\ PromptKey(Uid(q)) \in DOMAIN buf' /\ buf'[PromptKey(Uid(q))].step = step
            /\ buf'[PromptKey(Uid(q))].status = "running"
        BY <1>b, <3>1 DEF Tag
      <3> QED BY <3>2, <3>3, <3>4 DEF PromptInv
    <2>2. \A k \in DOMAIN buf' \cup DOMAIN snap' : IsTrajectory(k) /\ IsCurrent(k)' => k \in DOMAIN tq'
      <3>1. \A k \in DOMAIN buf' \cup DOMAIN snap' : IsTrajectory(k) => k \in Stored
        BY <1>a, <1>b, <1>d DEF Stored, poller
      <3>2. \A k : IsCurrent(k)' = IsCurrent(k)
        BY <1>a DEF IsCurrent, fit
      <3> QED BY <1>f, <3>1, <3>2
    <2> QED BY <2>1, <2>2 DEF BatchInv
  <1>7. SampleIsWhole' /\ RaisesWithCause'
    BY <1>0, <1>a DEF SampleIsWhole, RaisesWithCause, WorkerInv
  <1> QED BY <1>1, <1>2, <1>3, <1>4, <1>5, <1>6, <1>7 DEF IInv

LEMMA DispatchFailsStep ==
    ASSUME IInv, DispatchFails, conf' = conf
    PROVE  IInv'
  <1>0. /\ TypeOK /\ KeyInv /\ TagInv /\ WorkerInv /\ BatchInv /\ HeldInv
        /\ SampleIsWhole /\ RaisesWithCause
    BY DEF IInv
  <1>a. /\ pc = "generate" /\ MarkRunning /\ pc' = "raised" /\ why' = "dispatch" /\ stop' = TRUE
        /\ UNCHANGED <<tq, poller, fit, workers>>
    BY DEF DispatchFails, Raise, Leave
  <1>b. /\ IsStore(buf') /\ DOMAIN buf' = DOMAIN buf \cup {PromptKey(u) : u \in Uids0}
        /\ \A k \in DOMAIN buf \ {PromptKey(u) : u \in Uids0} : buf'[k] = buf[k]
        /\ \A u \in Uids0 : buf'[PromptKey(u)] = Tag("running", step)
    BY <1>0, <1>a, MarkedStore
  <1>c. \A q \in conf.slots : Uid(q) \in Uids /\ Uid(q).part = part /\ Uid(q).step = step /\ Uid(q).batch = batch
    BY <1>0, ConfFacts, UidFacts
  <1>d. \A u \in Uids0 : /\ PromptKey(u).uid = u /\ ~IsTrajectory(PromptKey(u))
                         /\ u.part = part /\ u.step = step /\ u.batch = batch
    BY <1>c, KeyFacts DEF Uids0
  <1>1. TypeOK'
    BY <1>0, <1>a, <1>b DEF TypeOK, poller, fit, workers
  <1>2. KeyInv'
    <2>1. \A k \in Stored' : k \in Stored \/ \E u \in Uids0 : k = PromptKey(u)
      BY <1>a, <1>b DEF Stored, poller
    <2> QED BY <1>0, <1>a, <1>d, <2>1 DEF KeyInv, TypeOK, fit
  <1>3. TagInv'
    <2>1. TagsOf(tq)' /\ TagsOf(snap)'
      BY <1>0, <1>a DEF TagInv, TagsOf, poller
    <2>2. TagsOf(buf)'
      BY <1>0, <1>a, <1>b, <1>d, TagFacts DEF TagInv, TagsOf
    <2> QED BY <2>1, <2>2 DEF TagInv
  <1>4. WorkerInv'
    BY <1>0, <1>a DEF WorkerInv, Sampling, SessionsOver, workers
  <1>5. HeldInv' /\ BatchInv' /\ SampleIsWhole' /\ RaisesWithCause'
    BY <1>0, <1>a DEF HeldInv, BatchInv, Sampling, SampleIsWhole, RaisesWithCause, fit
  <1> QED BY <1>1, <1>2, <1>3, <1>4, <1>5 DEF IInv

LEMMA SampleChecksStep ==
    ASSUME IInv, SampleChecks, conf' = conf
    PROVE  IInv'
  <1>0. /\ TypeOK /\ KeyInv /\ TagInv /\ WorkerInv /\ BatchInv /\ HeldInv
        /\ SampleIsWhole /\ RaisesWithCause
    BY DEF IInv
  <1>1. TypeOK'
    BY <1>0 DEF SampleChecks, TypeOK, store, poller, fit, workers, Leave, Raise, Stay
  <1>2. KeyInv'
    BY <1>0 DEF SampleChecks, KeyInv, Stored, store, poller, fit, Leave, Raise, Stay
  <1>3. TagInv'
    BY <1>0 DEF SampleChecks, TagInv, TagsOf, Sampling, Uids0, Uid, store, poller, fit,
       Leave, Raise, Stay
  <1>4. WorkerInv'
    BY <1>0 DEF SampleChecks, WorkerInv, Sampling, SessionsOver, workers, Leave, Raise,
       Stay
  <1>5. BatchInv'
    BY <1>0 DEF SampleChecks, BatchInv, PromptInv, IsCurrent, Sampling, Put,
       GroupStatus, Uid, store, poller, fit, workers, Leave, Raise, Stay
  <1>6. HeldInv'
    BY <1>0 DEF SampleChecks, HeldInv, Uids0, Uid, store, fit, Leave, Raise, Stay
  <1>7. SampleIsWhole'
    BY <1>0 DEF SampleChecks, SampleIsWhole, GroupStatus, CurrentKeys, Uid, store, fit,
       workers, Leave, Raise, Stay
  <1>8. RaisesWithCause'
    BY <1>0 DEF SampleChecks, RaisesWithCause, CurrentKeys, Uid, store, poller, fit,
       workers, Leave, Raise, Stay
  <1> QED BY <1>1, <1>2, <1>3, <1>4, <1>5, <1>6, <1>7, <1>8 DEF IInv

LEMMA SampleLooksStep ==
    ASSUME IInv, SampleLooks, conf' = conf
    PROVE  IInv'
  <1>0. /\ TypeOK /\ KeyInv /\ TagInv /\ WorkerInv /\ BatchInv /\ HeldInv
        /\ SampleIsWhole /\ RaisesWithCause
    BY DEF IInv
  <1>a. /\ pc = "look" /\ why = "none" /\ ~stop
        /\ UNCHANGED <<store, poller, step, part, batch, held, workers>>
    BY <1>0 DEF SampleLooks, WorkerInv
  <1>b. /\ conf.slots \subseteq Slots /\ \A q \in conf.slots : PromptInv(q)
        /\ \A q \in Slots : Uid(q).part = part /\ Uid(q).step = step /\ Uid(q).batch = batch
    BY <1>0, <1>a, ConfFacts, UidFacts DEF BatchInv, Sampling
  <1>c. \A q \in conf.slots : /\ PromptKey(Uid(q)) \in Matching
                              /\ buf[PromptKey(Uid(q))].status \in {"running", GroupStatus(q)}
    <2>1. ASSUME NEW q \in conf.slots
          PROVE  PromptKey(Uid(q)).uid = Uid(q) /\ Uid(q).part = part
      BY <1>b DEF PromptKey
    <2> QED BY <1>b, <2>1 DEF PromptInv, Matching
  <1>d. \A k \in Matching : buf[k].status \in {"failure", "running"} =>
           \E q \in conf.slots : k = PromptKey(Uid(q)) /\ buf[k].status \in {"running", GroupStatus(q)}
    <2> SUFFICES ASSUME NEW k \in Matching, buf[k].status \in {"failure", "running"}
                 PROVE  \E q \in conf.slots : k = PromptKey(Uid(q)) /\ buf[k].status \in {"running", GroupStatus(q)}
      OBVIOUS
    <2>1. k \in DOMAIN buf /\ k \in Stored
      BY DEF Matching, Stored
    <2>2. ~IsTrajectory(k)
      BY <1>0, <2>1 DEF TagInv, TagsOf, Tag
    <2>3. k.uid \in Uids0 /\ k = PromptKey(k.uid)
      BY <1>0, <1>a, <2>1, <2>2 DEF TagInv, TagsOf, KeyInv
    <2> QED BY <1>c, <2>3 DEF Uids0
  <1>e. \A q \in conf.slots : GroupStatus(q) # "running"
    BY DEF GroupStatus
  <1>f. \A q \in conf.slots : buf[PromptKey(Uid(q))].status # "running" =>
           prompt[q] = "published" /\ buf[PromptKey(Uid(q))].status = GroupStatus(q)
    BY <1>b DEF PromptInv
  <1>1. CASE WithStatus("failure") # {} /\ Raise("failure") /\ UNCHANGED got
    <2>1. PICK k \in Matching : buf[k].status = "failure"
      BY <1>1 DEF WithStatus
    <2>2. PICK q \in conf.slots : k = PromptKey(Uid(q)) /\ buf[k].status \in {"running", GroupStatus(q)}
      BY <1>d, <2>1
    <2>3. GroupStatus(q) = "failure" /\ prompt[q] = "published"
      BY <1>f, <2>1, <2>2
    <2>4. /\ \E i \in 1..N : session[q][i] = "failed"
          /\ \A i \in 1..N : session[q][i] # "running"
      BY <1>0, <1>b, <2>2, <2>3 DEF GroupStatus, WorkerInv, SessionsOver
    <2>5. pc' = "raised" /\ why' = "failure" /\ stop'
      BY <1>1 DEF Raise, Leave
    <2>6. RaisesWithCause'
      BY <1>a, <1>b, <2>2, <2>4, <2>5 DEF RaisesWithCause, workers
    <2>7. TypeOK'
      BY <1>0, <1>1, <1>a, <2>5 DEF TypeOK, store, poller, workers
    <2> QED BY <1>0, <1>1, <1>a, <2>5, <2>6, <2>7, LeavesRaised DEF fit
  <1>2. CASE pc' = "sample" /\ Stay /\ UNCHANGED got
    <2>1. TypeOK' /\ KeyInv' /\ SampleIsWhole' /\ RaisesWithCause'
      BY <1>0, <1>a, <1>2 DEF TypeOK, KeyInv, Stored, SampleIsWhole, RaisesWithCause,
         Stay, store, poller, workers
    <2>2. TagInv' /\ WorkerInv'
      BY <1>0, <1>a, <1>2 DEF TagInv, TagsOf, WorkerInv, Sampling, SessionsOver, Uids0, Uid,
         Stay, store, poller, workers
    <2>3. BatchInv'
      BY <1>0, <1>a, <1>2 DEF BatchInv, PromptInv, Sampling, Put, GroupStatus, IsCurrent, Uid,
         store, poller, workers
    <2>4. HeldInv'
      BY <1>0, <1>a, <1>2 DEF HeldInv, Uids0, Uid, store
    <2> QED BY <2>1, <2>2, <2>3, <2>4 DEF IInv
  <1>3. CASE WithStatus("failure") \cup WithStatus("running") = {}
    <2>1. \A q \in conf.slots : prompt[q] = "published" /\ GroupStatus(q) = "finished"
                                /\ buf[PromptKey(Uid(q))].status = "finished"
      <3>1. \A q \in conf.slots : buf[PromptKey(Uid(q))].status \notin {"failure", "running"}
        BY <1>3, <1>c DEF WithStatus
      <3> QED BY <1>f, <3>1 DEF GroupStatus
    <2>2. \A q \in conf.slots : Put(q) \subseteq DOMAIN buf
      BY <1>b, <2>1 DEF PromptInv
    <2>3. \A k \in CurrentKeys : IsTrajectory(k) => k \in WithStatus("success")
      <3> SUFFICES ASSUME NEW k \in DOMAIN tq, NEW q \in conf.slots, k.uid = Uid(q), IsTrajectory(k)
                   PROVE  k \in WithStatus("success")
        BY DEF CurrentKeys
      <3>1. k \in DOMAIN buf
        BY <2>2 DEF Put
      <3>2. buf[k].status = "success" /\ buf[k].step = k.uid.step
        BY <1>0, <3>1 DEF TagInv, TagsOf, Tag
      <3> QED BY <1>b, <3>1, <3>2 DEF WithStatus, Matching
    <2>4. CASE WithStatus("success") = {} /\ Raise("empty") /\ UNCHANGED got
      <3>1. \A q \in conf.slots, i \in 1..N : session[q][i] = "ended"
        <4> SUFFICES ASSUME NEW q \in conf.slots, NEW i \in 1..N PROVE session[q][i] = "ended"
          OBVIOUS
        <4>1. session[q][i] \in {"none", "running", "ended", "failed"} /\ session[q][i] # "none"
          BY <1>0, <1>a, <1>b DEF TypeOK, WorkerInv, Sampling
        <4>2. session[q][i] # "running" /\ session[q][i] # "failed"
          BY <1>0, <1>b, <2>1 DEF WorkerInv, SessionsOver, GroupStatus
        <4> QED BY <4>1, <4>2
      <3>2. pc' = "raised" /\ why' = "empty" /\ stop'
        BY <2>4 DEF Raise, Leave
      <3>3. \A k \in CurrentKeys : ~IsTrajectory(k)
        BY <2>3, <2>4
      <3>4. CurrentKeys' = CurrentKeys
        BY <1>a DEF CurrentKeys, Uid, store
      <3>5. RaisesWithCause'
        BY <1>a, <3>1, <3>2, <3>3, <3>4 DEF RaisesWithCause, workers
      <3>6. TypeOK'
        BY <1>0, <1>a, <2>4, <3>2 DEF TypeOK, store, poller, workers
      <3> QED BY <1>0, <1>a, <2>4, <3>2, <3>5, <3>6, LeavesRaised DEF fit
    <2>5. CASE got' = WithStatus("success") /\ pc' = "got" /\ Stay
      <3>1. \A k \in got' : /\ k \in DOMAIN buf /\ k.uid.part = part /\ k.uid.step = step
                            /\ IsTrajectory(k)
        <4> SUFFICES ASSUME NEW k \in WithStatus("success")
                     PROVE  k \in DOMAIN buf /\ k.uid.part = part /\ k.uid.step = step /\ IsTrajectory(k)
          BY <2>5
        <4>1. k \in DOMAIN buf /\ k.uid.part = part /\ buf[k].step = step /\ buf[k].status = "success"
          BY DEF WithStatus, Matching
        <4> QED BY <1>0, <4>1 DEF TagInv, TagsOf, Tag
      <3>2. TypeOK'
        BY <1>0, <1>a, <2>5, <3>1 DEF TypeOK, IsStore, Stay, store, poller, workers
      <3>3. KeyInv' /\ WorkerInv' /\ RaisesWithCause' /\ BatchInv'
        <4>1. \A q \in Slots : prompt[q] # "running"
          BY <1>0, <1>a, <2>1 DEF WorkerInv, Sampling
        <4> QED BY <1>0, <1>a, <2>5, <4>1 DEF KeyInv, Stored, WorkerInv, RaisesWithCause, BatchInv,
               Sampling, SessionsOver, Stay, store, poller, workers
      <3>4. TagInv'
        <4>1. \A k \in Stored : ~IsTrajectory(k) => k = PromptKey(k.uid)
          BY <1>0 DEF KeyInv
        <4>2. ASSUME NEW q \in conf.slots
              PROVE  /\ PromptKey(Uid(q)) \in DOMAIN tq => tq[PromptKey(Uid(q))].status = "finished"
                     /\ PromptKey(Uid(q)) \in DOMAIN snap => snap[PromptKey(Uid(q))].status = "finished"
          <5> DEFINE key == PromptKey(Uid(q))
          <5>1. /\ key \in DOMAIN tq => tq[key] = Tag(GroupStatus(q), NoStep)
                /\ key \in DOMAIN snap => key \in DOMAIN tq /\ snap[key] = tq[key]
            BY <1>b DEF PromptInv
          <5> HIDE DEF key
          <5>2. Tag(GroupStatus(q), NoStep).status = "finished"
            BY <2>1, TagFacts
          <5>3. /\ key \in DOMAIN tq => tq[key].status = "finished"
                /\ key \in DOMAIN snap => snap[key].status = "finished"
            BY <5>1, <5>2
          <5> QED BY <5>3 DEF key
        <4>3. TagsOf(tq)' /\ TagsOf(snap)'
          BY <1>0, <1>a, <4>1, <4>2 DEF TagInv, TagsOf, Stored, Uids0, store, poller
        <4>4. TagsOf(buf)'
          BY <1>0, <1>a, <2>1, <4>1 DEF TagInv, TagsOf, Stored, Uids0, store
        <4> QED BY <4>3, <4>4 DEF TagInv
      <3>5. HeldInv'
        <4>1. Uids0' = Uids0
          BY <1>a DEF Uids0, Uid
        <4> QED BY <1>0, <1>a, <2>5, <3>1, <4>1 DEF HeldInv, store
      <3>6. SampleIsWhole'
        <4>1. \A q \in conf.slots : prompt'[q] = "published" /\ GroupStatus(q)' = "finished"
          BY <1>a, <2>1 DEF GroupStatus, workers
        <4>2. CurrentKeys' = CurrentKeys
          BY <1>a DEF CurrentKeys, Uid, store
        <4>3. \A k \in got' : k.uid.batch = batch => k \in DOMAIN tq
          BY <1>0, <1>a, <3>1 DEF BatchInv, IsCurrent, Sampling
        <4> QED BY <1>a, <2>3, <2>5, <3>1, <4>1, <4>2, <4>3 DEF SampleIsWhole, store
      <3> QED BY <3>2, <3>3, <3>4, <3>5, <3>6 DEF IInv
    <2> QED BY <1>3, <2>4, <2>5 DEF SampleLooks
  <1> QED BY <1>1, <1>2, <1>3 DEF SampleLooks

LEMMA TrainOnStep ==
    ASSUME IInv, TrainOn, conf' = conf
    PROVE  IInv'
  <1> DEFINE pads == PadKeys(Cardinality(got))
             new == [k \in pads |-> Tag("success", step)]
  <1>0. /\ TypeOK /\ KeyInv /\ TagInv /\ WorkerInv /\ BatchInv /\ HeldInv
        /\ SampleIsWhole /\ RaisesWithCause
    BY DEF IInv
  <1>a. /\ pc = "got" /\ part = "train" /\ tq' = Merge(tq, new) /\ held' = got \cup pads
        /\ \/ pc' = "generate" /\ step' = step /\ part' = "val" /\ batch' = 1
           \/ pc' = "cleanup" /\ UNCHANGED <<step, part, batch>>
        /\ UNCHANGED <<buf, poller, stop, why, got, workers>>
    BY DEF TrainOn, Submit
  <1>b. batch = 0 /\ step > LoadedStep /\ step \in Nat /\ held = {} /\ why = "none"
    BY <1>0, <1>a DEF KeyInv, HeldInv, WorkerInv, TypeOK
  <1>c. \A k \in pads : /\ k \in Keys /\ IsTrajectory(k)
                        /\ k.uid.part = "train" /\ k.uid.step = step /\ k.uid.batch = 0
    <2> SUFFICES ASSUME NEW i \in 1..PadSize(Cardinality(got))
                 PROVE  LET k == Trajectory(Uid(Pad), i, 0)
                        IN  /\ k \in Keys /\ IsTrajectory(k)
                            /\ k.uid.part = "train" /\ k.uid.step = step /\ k.uid.batch = 0
      BY DEF PadKeys
    <2>1. i \in Nat \ {0}
      OBVIOUS
    <2>2. Uid(Pad) \in Uids /\ Uid(Pad).part = "train" /\ Uid(Pad).step = step /\ Uid(Pad).batch = 0
      <3>1. Pad \in Slots \cup {Pad}
        OBVIOUS
      <3>2. /\ Uid(Pad) \in Uids /\ Uid(Pad).part = part
            /\ Uid(Pad).step = step /\ Uid(Pad).batch = batch
        BY <1>0, <3>1, UidFacts
      <3> QED BY <1>a, <1>b, <3>2
    <2>3. /\ Trajectory(Uid(Pad), i, 0) \in Keys /\ Trajectory(Uid(Pad), i, 0).uid = Uid(Pad)
          /\ IsTrajectory(Trajectory(Uid(Pad), i, 0))
      <3>1. 0 \in Nat
        OBVIOUS
      <3> QED BY <2>1, <2>2, <3>1, KeyFacts
    <2> QED BY <2>2, <2>3
  <1>d. DOMAIN new = pads /\ \A k \in pads : new[k] = Tag("success", step)
    OBVIOUS
  <1>e. Tag("success", step) \in Tags /\ Tag("success", step).step # NoStep
    BY <1>b DEF Tag, Tags, Statuses, NoStep
  <1> HIDE DEF pads, new
  <1>f. IsStore(new) /\ IsStore(tq)
    BY <1>0, <1>c, <1>d, <1>e DEF IsStore, TypeOK
  <1>g. /\ DOMAIN tq' = DOMAIN tq \cup pads
        /\ \A k \in DOMAIN tq \ pads : tq'[k] = tq[k]
        /\ \A k \in pads : tq'[k] = Tag("success", step)
    BY <1>a, <1>d, <1>e DEF Merge
  <1>h. \A k \in got : k \in DOMAIN tq /\ k.uid.part = "train"
    <2> SUFFICES ASSUME NEW k \in got PROVE k \in DOMAIN tq /\ k.uid.part = "train"
      OBVIOUS
    <2>1. k \in Stored /\ k.uid.part = "train"
      BY <1>0, <1>a DEF HeldInv, Stored, SampleIsWhole
    <2>2. k.uid.batch = batch
      BY <1>0, <1>b, <2>1 DEF KeyInv
    <2> QED BY <1>0, <1>a, <2>1, <2>2 DEF SampleIsWhole
  <1>1. TypeOK'
    <2>1. IsStore(tq') /\ held' \subseteq Keys
      BY <1>0, <1>a, <1>c, <1>f, MergeStore DEF TypeOK
    <2>2. 1 \in 0..conf.valBatches
      BY <1>0, ConfFacts
    <2> QED BY <1>0, <1>a, <2>1, <2>2 DEF TypeOK, Partitions, poller, workers
  <1>2. KeyInv'
    <2>1. \A k \in Stored' : k \in Stored \/ k \in pads
      BY <1>a, <1>g DEF Stored, poller
    <2>2. \A k \in Stored : k.uid.batch \in Nat
      BY <1>0 DEF Stored, TypeOK, IsStore, Keys, Uids
    <2> QED BY <1>0, <1>a, <1>b, <1>c, <2>1, <2>2 DEF KeyInv
  <1>3. TagInv'
    <2>1. TagsOf(buf)' /\ TagsOf(snap)'
      BY <1>0, <1>a DEF TagInv, TagsOf, Sampling, poller
    <2>2. TagsOf(tq)'
      BY <1>0, <1>a, <1>c, <1>g DEF TagInv, TagsOf, Sampling
    <2> QED BY <2>1, <2>2 DEF TagInv
  <1>4. WorkerInv' /\ BatchInv'
    BY <1>0, <1>a DEF WorkerInv, BatchInv, Sampling, SessionsOver, workers
  <1>5. HeldInv'
    <2>1. \A k \in DOMAIN tq : IsTrajectory(k) => k \in got
      <3>1. \A k \in DOMAIN tq : IsTrajectory(k) => k \in CurrentKeys
        BY <1>0, <1>a, <1>b DEF HeldInv, Uids0, CurrentKeys
      <3> QED BY <1>0, <1>a, <3>1 DEF SampleIsWhole
    <2>2. held' \subseteq DOMAIN tq' /\ \A k \in held' : k.uid.part = "train"
      BY <1>a, <1>c, <1>g, <1>h
    <2>3. \A k \in DOMAIN tq' : IsTrajectory(k) => k \in held'
      BY <1>a, <1>g, <2>1
    <2> QED BY <1>a, <1>b, <2>2, <2>3 DEF HeldInv
  <1>6. SampleIsWhole' /\ RaisesWithCause'
    BY <1>a, <1>b DEF SampleIsWhole, RaisesWithCause
  <1> QED BY <1>1, <1>2, <1>3, <1>4, <1>5, <1>6 DEF IInv

LEMMA StepRaisesStep ==
    ASSUME IInv, StepRaises, conf' = conf
    PROVE  IInv'
  <1>0. /\ TypeOK /\ KeyInv /\ TagInv /\ WorkerInv /\ BatchInv /\ HeldInv
        /\ SampleIsWhole /\ RaisesWithCause
    BY DEF IInv
  <1>1. TypeOK'
    BY <1>0 DEF StepRaises, TypeOK, store, poller, fit, workers, Leave, Raise
  <1>2. KeyInv'
    BY <1>0 DEF StepRaises, KeyInv, Stored, store, poller, fit, Leave, Raise
  <1>3. TagInv'
    BY <1>0 DEF StepRaises, TagInv, TagsOf, Sampling, Uids0, Uid, store, poller, fit,
       Leave, Raise
  <1>4. WorkerInv'
    BY <1>0 DEF StepRaises, WorkerInv, Sampling, SessionsOver, workers, Leave, Raise
  <1>5. BatchInv'
    BY <1>0 DEF StepRaises, BatchInv, PromptInv, IsCurrent, Sampling, Put, GroupStatus,
       Uid, store, poller, fit, workers, Leave, Raise
  <1>6. HeldInv'
    BY <1>0 DEF StepRaises, HeldInv, Uids0, Uid, store, fit, Leave, Raise
  <1>7. SampleIsWhole'
    BY <1>0 DEF StepRaises, SampleIsWhole, GroupStatus, CurrentKeys, Uid, store, fit,
       workers, Leave, Raise
  <1>8. RaisesWithCause'
    BY <1>0 DEF StepRaises, RaisesWithCause, CurrentKeys, Uid, store, poller, fit,
       workers, Leave, Raise
  <1> QED BY <1>1, <1>2, <1>3, <1>4, <1>5, <1>6, <1>7, <1>8 DEF IInv

LEMMA ClearTransferQueueStep ==
    ASSUME IInv, ClearTransferQueue, conf' = conf
    PROVE  IInv'
  <1>0. /\ TypeOK /\ KeyInv /\ TagInv /\ WorkerInv /\ BatchInv /\ HeldInv
        /\ SampleIsWhole /\ RaisesWithCause
    BY DEF IInv
  <1>a. /\ (pc = "got" /\ part = "val") \/ (pc = "cleanup" /\ part = "train")
        /\ tq' = Without(tq, Finished) /\ pc' = "remove"
        /\ UNCHANGED <<buf, poller, stop, why, fit, workers>>
    BY <1>0 DEF ClearTransferQueue, KeyInv
  <1>b. /\ DOMAIN tq' = DOMAIN tq \ Finished
        /\ \A k \in DOMAIN tq \ Finished : tq'[k] = tq[k]
    BY <1>a, WithoutFacts
  <1>1. TypeOK'
    BY <1>0, <1>a, WithoutStore DEF TypeOK, poller, fit, workers
  <1>2. KeyInv'
    BY <1>0, <1>a, <1>b DEF KeyInv, Stored, poller, fit
  <1>3. TagInv'
    BY <1>0, <1>a, <1>b DEF TagInv, TagsOf, Sampling, poller
  <1>4. WorkerInv' /\ BatchInv'
    BY <1>0, <1>a DEF WorkerInv, BatchInv, Sampling, SessionsOver, workers
  <1>5. HeldInv'
    <2>1. CASE pc = "got" /\ part = "val"
      <3>1. Finished = got /\ \A k \in got : k.uid.part = "val"
        BY <1>0, <2>1 DEF Finished, SampleIsWhole
      <3>2. held \subseteq DOMAIN tq'
        BY <1>0, <1>b, <2>1, <3>1 DEF HeldInv
      <3>3. \A k \in DOMAIN tq' : IsTrajectory(k) => k \in held
        <4>1. \A k \in DOMAIN tq : IsTrajectory(k) => k \in held \/ k \in CurrentKeys
          BY <1>0, <2>1 DEF HeldInv, Uids0, CurrentKeys
        <4> QED BY <1>0, <1>b, <2>1, <3>1, <4>1 DEF SampleIsWhole
      <3> QED BY <1>0, <1>a, <2>1, <3>2, <3>3 DEF HeldInv, fit
    <2>2. CASE pc = "cleanup" /\ part = "train"
      <3>1. Finished = held /\ \A k \in DOMAIN tq : IsTrajectory(k) => k \in held
        BY <1>0, <2>2 DEF Finished, HeldInv
      <3> QED BY <1>0, <1>a, <1>b, <2>2, <3>1 DEF HeldInv, fit
    <2> QED BY <1>a, <2>1, <2>2
  <1>6. SampleIsWhole' /\ RaisesWithCause'
    BY <1>0, <1>a DEF SampleIsWhole, RaisesWithCause, WorkerInv
  <1> QED BY <1>1, <1>2, <1>3, <1>4, <1>5, <1>6 DEF IInv

LEMMA RemoveFromBufferStep ==
    ASSUME IInv, RemoveFromBuffer, conf' = conf
    PROVE  IInv'
  <1>0. /\ TypeOK /\ KeyInv /\ TagInv /\ WorkerInv /\ BatchInv /\ HeldInv
        /\ SampleIsWhole /\ RaisesWithCause
    BY DEF IInv
  <1>a. /\ pc = "remove" /\ buf' = Without(buf, Finished) /\ got' = {}
        /\ held' = IF part = "train" THEN {} ELSE held
        /\ why = "none" /\ why' = "none" /\ UNCHANGED <<tq, poller, workers>>
    BY <1>0 DEF RemoveFromBuffer, AfterCleanup, WorkerInv, Stay, Leave
  <1>b. \/ /\ part = "val" /\ batch < conf.valBatches /\ stop' = stop
           /\ pc' = "generate" /\ step' = step /\ part' = "val" /\ batch' = batch + 1
        \/ /\ part = "train" \/ step = LoadedStep
           /\ pc' = "generate" /\ step' = step + 1 /\ part' = "train" /\ batch' = 0 /\ stop' = stop
        \/ /\ part = "val" /\ step # LoadedStep /\ stop' = stop
           /\ pc' = "cleanup" /\ step' = step /\ part' = "train" /\ batch' = 0
        \/ /\ part = "train" /\ pc' = "done" /\ stop' = TRUE /\ UNCHANGED <<step, part, batch>>
    BY <1>a DEF RemoveFromBuffer, AfterCleanup, Submit, Stay, Leave
  <1>c. /\ DOMAIN buf' = DOMAIN buf \ Finished
        /\ \A k \in DOMAIN buf \ Finished : buf'[k] = buf[k]
    BY <1>a, WithoutFacts
  <1>d. /\ step \in Nat /\ batch \in Nat /\ LoadedStep \in Nat /\ conf.valBatches \in Nat \ {0}
        /\ part \in {"train", "val"}
    BY <1>0, ConfFacts DEF TypeOK, Partitions
  <1>1. TypeOK'
    <2>1. IsStore(buf')
      BY <1>0, <1>a, WithoutStore DEF TypeOK
    <2>2. /\ step' \in Nat /\ part' \in Partitions /\ batch' \in 0..conf.valBatches
          /\ pc' \in {"generate", "cleanup", "done"}
      BY <1>0, <1>b, <1>d DEF TypeOK, Partitions
    <2>3. stop' \in BOOLEAN
      BY <1>0, <1>b DEF TypeOK
    <2> QED BY <1>0, <1>a, <2>1, <2>2, <2>3 DEF TypeOK, poller, workers
  <1>2. KeyInv'
    <2>1. Stored' \subseteq Stored
      BY <1>a, <1>c DEF Stored, poller
    <2>2. \A k \in Stored : k.uid.batch \in Nat /\ k.uid.step \in Nat
      BY <1>0 DEF Stored, TypeOK, IsStore, Keys, Uids
    <2> QED BY <1>0, <1>a, <1>b, <1>d, <2>1, <2>2 DEF KeyInv
  <1>3. TagInv'
    BY <1>0, <1>a, <1>b, <1>c DEF TagInv, TagsOf, Sampling, poller
  <1>4. WorkerInv'
    <2>1. ~stop /\ (stop' <=> pc' \in {"done", "raised"})
      BY <1>0, <1>a, <1>b DEF WorkerInv
    <2> QED BY <1>0, <1>a, <1>b, <2>1 DEF WorkerInv, Sampling, SessionsOver, workers
  <1>5. BatchInv' /\ SampleIsWhole' /\ RaisesWithCause'
    BY <1>a, <1>b DEF BatchInv, Sampling, SampleIsWhole, RaisesWithCause
  <1>6. HeldInv'
    <2>1. part = "train" => held' = {} /\ \A k \in DOMAIN tq : ~IsTrajectory(k)
      BY <1>0, <1>a DEF HeldInv
    <2>2. part = "val" => /\ held' = held /\ held \subseteq DOMAIN tq
                          /\ \A k \in DOMAIN tq : IsTrajectory(k) => k \in held
      BY <1>0, <1>a DEF HeldInv
    <2> QED BY <1>0, <1>a, <1>b, <1>d, <2>1, <2>2 DEF HeldInv
  <1> QED BY <1>1, <1>2, <1>3, <1>4, <1>5, <1>6 DEF IInv

-----------------------------------------------------------------------------
\* The invariant holds, and what follows from it.

LEMMA InitOK == Init => IInv
  <1> SUFFICES ASSUME Init PROVE IInv
    OBVIOUS
  <1>1. DOMAIN Empty = {}
    BY DEF Empty
  <1>2. TypeOK
    <2>1. conf \in Configurations /\ conf.valBatches \in Nat \ {0} /\ LoadedStep \in Nat
      BY ConfigAssumption, SizesAssumption DEF Init
    <2>2. IsStore(Empty)
      BY <1>1 DEF IsStore
    <2>3. /\ session \in [Slots -> [1..N -> {"none", "running", "ended", "failed"}]]
          /\ prompt \in [Slots -> {"none", "running", "published", "lost"}]
      BY DEF Init
    <2>4. IsStore(tq) /\ IsStore(buf) /\ IsStore(snap) /\ stop \in BOOLEAN
      BY <2>2 DEF Init
    <2> QED BY <2>1, <2>3, <2>4 DEF Init, TypeOK, Partitions
  <1>3. KeyInv /\ TagInv
    BY <1>1, SizesAssumption DEF Init, KeyInv, Stored, TagInv, TagsOf
  <1>4. WorkerInv /\ BatchInv
    BY DEF Init, WorkerInv, BatchInv, Sampling
  <1>5. HeldInv /\ SampleIsWhole /\ RaisesWithCause
    BY <1>1 DEF Init, HeldInv, SampleIsWhole, RaisesWithCause
  <1> QED BY <1>2, <1>3, <1>4, <1>5 DEF IInv

LEMMA NextOK == IInv /\ [Next]_vars => IInv'
  <1> SUFFICES ASSUME IInv, [Next]_vars PROVE IInv'
    OBVIOUS
  <1>1. CASE Poll /\ conf' = conf
    BY <1>1, PollListStep, PollFailsStep, PollStopsStep, AddStep DEF Poll
  <1>2. CASE Work /\ conf' = conf
    BY <1>2, SessionFailsStep, SessionPutsStep, PublishStep DEF Work
  <1>3. CASE Trainer /\ conf' = conf
    BY <1>3, FitBeginsStep, GenerateSequencesStep, DispatchFailsStep, SampleChecksStep,
       SampleLooksStep, TrainOnStep, StepRaisesStep, ClearTransferQueueStep, RemoveFromBufferStep
       DEF Trainer
  <1>4. CASE (\E q \in Slots : Lose(q)) /\ conf' = conf
    BY <1>4, LoseStep
  <1>5. CASE UNCHANGED vars
    <2>1. TypeOK' /\ KeyInv' /\ TagInv'
      BY <1>5 DEF IInv, TypeOK, KeyInv, Stored, TagInv, TagsOf, Sampling, Uids0, Uid,
         vars, state, store, poller, trainer, fit, workers
    <2>2. WorkerInv' /\ HeldInv' /\ RaisesWithCause'
      BY <1>5 DEF IInv, WorkerInv, HeldInv, Sampling, Uids0, Uid, SessionsOver, RaisesWithCause,
         CurrentKeys, vars, state, store, poller, trainer, fit, workers
    <2>3. BatchInv' /\ SampleIsWhole'
      BY <1>5 DEF IInv, BatchInv, PromptInv, Put, IsCurrent, Sampling, SampleIsWhole, GroupStatus,
         CurrentKeys, Uid, vars, state, store, poller, trainer, fit, workers
    <2> QED BY <2>1, <2>2, <2>3 DEF IInv
  <1> QED BY <1>1, <1>2, <1>3, <1>4, <1>5 DEF Next

LEMMA IInvHolds == Spec => []IInv
  BY InitOK, NextOK, PTL DEF Spec

\* The two dictionaries, the poll thread's copy and the control states of the
\* trainer, the poll thread and the workers keep their types.
THEOREM TypeCorrect == Spec => []TypeOK
  <1>1. IInv => TypeOK
    BY DEF IInv
  <1> QED BY <1>1, IInvHolds, PTL

\* A batch that sample returns holds the finished groups of its step and partition
\* with every trajectory that was put for them, and nothing else.
THEOREM WholeSamples == Spec => []SampleIsWhole
  <1>1. IInv => SampleIsWhole
    BY DEF IInv
  <1> QED BY <1>1, IInvHolds, PTL

\* An exception that leaves sample has the cause its message names.
THEOREM CausedExceptions == Spec => []RaisesWithCause
  <1>1. IInv => RaisesWithCause
    BY DEF IInv
  <1> QED BY <1>1, IInvHolds, PTL

\* The batch a step trains on is kept through validation, and no trajectory is
\* left when the next step submits its prompts.
THEOREM ExactCleanups == Spec => []CleanupIsExact
  <1>1. IInv => CleanupIsExact
    BY DEF IInv, HeldInv, CleanupIsExact
  <1> QED BY <1>1, IInvHolds, PTL

-----------------------------------------------------------------------------
(* The scores of prompts.                                                  *)

\* The ranges of what is computed with.
ScoreTypes ==
    /\ asked \subseteq Requests
    /\ computed \in [Requests -> Nat] /\ generated \in [Requests -> Nat]
    /\ DOMAIN landing = Requests
    /\ DOMAIN partial = Requests /\ DOMAIN out = Requests
    /\ \A r \in Requests : DOMAIN partial[r] = Cells(r)

\* A request is asked for until its prompt is through.
PromptPosition ==
    \A r \in Requests \ Embedded :
        /\ r \in asked <=> computed[r] < PromptLen[r]
        /\ r \in asked <=> generated[r] = 0

\* A copy under way carries the score of its cell.
Flight(c, r) == c.cell \in Cells(r) /\ c.score = Score(c.cell)
Flights == \A r \in Requests : \A c \in landing[r] : Flight(c, r)

\* What has been computed is there, or about to be.
Right(result, copies, i) == result[i] = Score(i) \/ \E c \in copies : c.cell = i
Filled ==
    \A r \in asked \ Embedded : \A i \in Cells(r) :
        i < computed[r] => Right(partial[r], landing[r], i)

ScoresInv == ScoreTypes /\ PromptPosition /\ Flights /\ Filled /\ ReturnedScoresAreComplete

-----------------------------------------------------------------------------
(* Chunks.                                                                 *)

\* Division with remainder.
LEMMA DivMod ==
    ASSUME NEW x \in Nat, NEW a \in Nat \ {0}
    PROVE  /\ x \div a \in Nat /\ x % a \in Nat /\ x % a < a
           /\ x = a * (x \div a) + (x % a)
  OBVIOUS

\* A multiple of the chunk size is where a chunk may begin.
LEMMA MultipleBegins ==
    ASSUME NEW q \in Nat, NEW a \in Nat \ {0}
    PROVE  (a * q) % a = 0
  <1> DEFINE x == a * q
  <1>1. x \in Nat
    OBVIOUS
  <1>2. x \div a \in Nat /\ x % a \in Nat /\ x % a < a /\ x = a * (x \div a) + (x % a)
    BY <1>1, DivMod
  <1> DEFINE d == q - (x \div a)
  <1>3. d \in Int /\ a * d = x % a
    BY <1>2
  <1>4. CASE d >= 1
    BY <1>2, <1>3, <1>4
  <1>5. CASE d <= -1
    BY <1>2, <1>3, <1>5
  <1>6. CASE d = 0
    BY <1>2, <1>3, <1>6
  <1>7. QED
    BY <1>3, <1>4, <1>5, <1>6

\* The chunks of c rows are all of them and nothing else, and none is wider
\* than the chunk size.
LEMMA ChunksCover ==
    ASSUME NEW c \in Int
    PROVE  /\ Rows(c) = 0..(c - 1)
           /\ \A b \in Begins(c) : End(b, c) - b \in 1..ChunkSize
  <1> USE ChunkAssumption
  <1>1. \A b \in Begins(c) : b \in 0..(c - 1) /\ End(b, c) \in (b + 1)..c /\ End(b, c) - b \in 1..ChunkSize
    BY DEF Begins, End
  <1>2. ASSUME NEW j \in Rows(c) PROVE j \in 0..(c - 1)
    <2>1. PICK b \in Begins(c) : j \in b..(End(b, c) - 1)
      BY <1>2 DEF Rows
    <2>2. QED
      BY <1>1, <2>1
  <1>3. ASSUME NEW j \in 0..(c - 1) PROVE j \in Rows(c)
    <2> DEFINE q == j \div ChunkSize
               b == ChunkSize * q
    <2>1. j \in Nat /\ ChunkSize \in Nat \ {0}
      OBVIOUS
    <2>2. q \in Nat /\ j % ChunkSize \in Nat /\ j % ChunkSize < ChunkSize /\ j = b + (j % ChunkSize)
      BY <2>1, DivMod
    <2>3. b \in Nat /\ b % ChunkSize = 0
      BY <2>1, <2>2, MultipleBegins
    <2> HIDE DEF q, b
    <2>4. b <= j /\ j < b + ChunkSize
      BY <2>2, <2>3
    <2>5. b \in Begins(c)
      BY <2>3, <2>4 DEF Begins
    <2>6. j \in b..(End(b, c) - 1)
      BY <2>3, <2>4 DEF End
    <2>7. QED
      BY <2>5, <2>6 DEF Rows
  <1>4. QED
    BY <1>1, <1>2, <1>3

-----------------------------------------------------------------------------
(* Copies.                                                                 *)

\* What is known of a schedule.
LEMMA ScheduleFacts ==
    ASSUME NEW sched \in Schedules
    PROVE  DOMAIN sched \subseteq Requests /\ \A r \in DOMAIN sched : sched[r] \in Nat \ {0}
  BY DEF Schedules

\* The copies a step issues are right, and fill the cells it passes.
LEMMA ScoresFacts ==
    ASSUME ScoreTypes, NEW r \in Requests, NEW num \in Nat \ {0}, computed[r] < PromptLen[r]
    PROVE  /\ \A c \in Scores(r, num) : Flight(c, r)
           /\ \A i \in Cells(r) : computed[r] <= i /\ i < computed[r] + num =>
                \E c \in Scores(r, num) : c.cell = i
  <1> DEFINE k == NumLogits(r, num)
  <1>1. computed[r] \in Nat /\ PromptLen[r] \in Nat \ {0}
    BY RequestsAssumption DEF ScoreTypes
  <1>2. k \in Int /\ k <= num /\ k <= PromptLen[r] - (computed[r] + 1) /\ (k = num \/ k = PromptLen[r] - (computed[r] + 1))
    BY <1>1 DEF NumLogits, Remaining
  <1> HIDE DEF k
  <1>3. Rows(k) = 0..(k - 1)
    BY <1>2, ChunksCover
  <1>4. Scores(r, num) = {[cell |-> computed[r] + j,
                           score |-> [state |-> computed[r] + j, target |-> computed[r] + 1 + j]] :
                             j \in 0..(k - 1)}
    BY <1>3 DEF Scores, k
  <1>5. ASSUME NEW c \in Scores(r, num) PROVE Flight(c, r)
    <2>1. PICK j \in 0..(k - 1) :
            c = [cell |-> computed[r] + j,
                 score |-> [state |-> computed[r] + j, target |-> computed[r] + 1 + j]]
      BY <1>4, <1>5
    <2>2. c.cell = computed[r] + j /\ c.score = [state |-> computed[r] + j, target |-> computed[r] + 1 + j]
      BY <2>1
    <2>3. c.cell \in 0..(PromptLen[r] - 2)
      BY <1>1, <1>2, <2>2
    <2>4. computed[r] + 1 + j = c.cell + 1
      BY <1>1, <2>2
    <2>5. QED
      BY <2>2, <2>3, <2>4 DEF Flight, Cells, Score
  <1>6. ASSUME NEW i \in Cells(r), computed[r] <= i, i < computed[r] + num
        PROVE  \E c \in Scores(r, num) : c.cell = i
    <2> DEFINE j == i - computed[r]
               c == [cell |-> computed[r] + j,
                     score |-> [state |-> computed[r] + j, target |-> computed[r] + 1 + j]]
    <2>1. i \in 0..(PromptLen[r] - 2)
      BY DEF Cells
    <2>2. j \in 0..(k - 1) /\ computed[r] + j = i
      BY <1>1, <1>2, <1>6, <2>1
    <2>3. c \in Scores(r, num)
      BY <1>4, <2>2
    <2>4. c.cell = i
      BY <2>2
    <2>5. QED
      BY <2>3, <2>4
  <1>7. QED
    BY <1>5, <1>6

\* Landing right copies keeps the cells, gives every copy's cell its score and
\* leaves the others.
LEMMA LandedFacts ==
    ASSUME NEW r \in Requests, NEW result, NEW copies, \A c \in copies : Flight(c, r)
    PROVE  /\ DOMAIN Landed(result, copies) = DOMAIN result
           /\ \A i \in DOMAIN result : Right(result, copies, i) => Landed(result, copies)[i] = Score(i)
           /\ \A i \in DOMAIN result : (\A c \in copies : c.cell # i) => Landed(result, copies)[i] = result[i]
  <1>1. DOMAIN Landed(result, copies) = DOMAIN result
    BY DEF Landed
  <1>2. ASSUME NEW i \in DOMAIN result, Right(result, copies, i)
        PROVE  Landed(result, copies)[i] = Score(i)
    <2>1. CASE \E c \in copies : c.cell = i
      <3> DEFINE d == CHOOSE c \in copies : c.cell = i
      <3>1. d \in copies /\ d.cell = i
        BY <2>1
      <3>2. d.score = Score(i)
        BY <3>1 DEF Flight
      <3>3. QED
        BY <2>1, <3>2 DEF Landed
    <2>2. CASE ~\E c \in copies : c.cell = i
      BY <1>2, <2>2 DEF Landed, Right
    <2>3. QED
      BY <2>1, <2>2
  <1>3. QED
    BY <1>1, <1>2 DEF Landed

-----------------------------------------------------------------------------
(* Steps.                                                                  *)

\* Nothing has been computed.
LEMMA ScoresStart == ScoresInit => ScoresInv
  <1> SUFFICES ASSUME ScoresInit PROVE ScoresInv
    OBVIOUS
  <1>1. ScoreTypes
    BY DEF ScoresInit, ScoreTypes, Unscored
  <1>2. PromptPosition
    BY RequestsAssumption DEF ScoresInit, PromptPosition
  <1>3. Flights /\ ReturnedScoresAreComplete
    BY DEF ScoresInit, Flights, ReturnedScoresAreComplete, Answered
  <1>4. Filled
    <2>1. \A r \in Requests : \A i \in Cells(r) : i >= 0
      BY RequestsAssumption DEF Cells
    <2>2. QED
      BY <2>1, RequestsAssumption DEF ScoresInit, Filled, Cells
  <1>5. QED
    BY <1>1, <1>2, <1>3, <1>4 DEF ScoresInv

\* A step of the engine.
LEMMA StepStep ==
    ASSUME ScoresInv, NEW sched \in Schedules, Step(sched)
    PROVE  ScoresInv'
  <1> DEFINE copies(r) == landing[r] \cup IF r \in Scored(sched) THEN Scores(r, sched[r]) ELSE {}
             result(r) == IF Sync(sched) THEN Landed(partial[r], copies(r)) ELSE partial[r]
  <1>1. ScoreTypes /\ PromptPosition /\ Flights /\ Filled /\ ReturnedScoresAreComplete
    BY DEF ScoresInv
  <1>2. DOMAIN sched \subseteq Requests /\ \A r \in DOMAIN sched : sched[r] \in Nat \ {0}
    BY ScheduleFacts
  <1>3. Scored(sched) \subseteq asked \ Embedded /\ Scored(sched) \subseteq DOMAIN sched
    BY DEF Scored
  <1>4. \A r \in Requests : computed[r] \in Nat /\ generated[r] \in Nat /\ PromptLen[r] \in Nat \ {0}
    BY <1>1, RequestsAssumption DEF ScoreTypes
  <1>5. \A r \in Scored(sched) : computed[r] < PromptLen[r] /\ generated[r] = 0
    BY <1>1, <1>3 DEF PromptPosition, ScoreTypes
  <1>6. \A r \in Scored(sched) : r \in Completed(sched) <=> computed[r] + sched[r] >= PromptLen[r]
    BY <1>2, <1>3, <1>4, <1>1 DEF Completed, Completes, Remaining, ScoreTypes
  <1>7. Completed(sched) \subseteq Scored(sched)
    BY DEF Completed
  <1>8. /\ asked' = asked \ Completed(sched)
        /\ out' = [r \in Requests |-> IF r \in Completed(sched) THEN result(r) ELSE out[r]]
        /\ partial' = [r \in Requests |-> IF r \in Completed(sched) THEN Unscored(r) ELSE result(r)]
        /\ landing' = [r \in Requests |->
                        IF Sync(sched) \/ r \in Completed(sched) THEN {} ELSE copies(r)]
        /\ computed' = [r \in Requests |->
                        IF r \in DOMAIN sched THEN computed[r] + sched[r] ELSE computed[r]]
        /\ generated' = [r \in Requests |->
                        IF r \in DOMAIN sched /\ computed[r] + sched[r] >= PromptLen[r]
                          THEN generated[r] + 1 ELSE generated[r]]
    BY DEF Step
  <1>9. \A r \in Requests : \A c \in copies(r) : Flight(c, r)
    <2> SUFFICES ASSUME NEW r \in Requests, NEW c \in copies(r) PROVE Flight(c, r)
      OBVIOUS
    <2>1. CASE c \in landing[r]
      BY <1>1, <2>1 DEF Flights
    <2>2. CASE r \in Scored(sched) /\ c \in Scores(r, sched[r])
      <3>1. sched[r] \in Nat \ {0} /\ computed[r] < PromptLen[r]
        BY <1>2, <1>3, <1>5, <2>2
      <3>2. QED
        BY <1>1, <2>2, <3>1, ScoresFacts
    <2>3. QED
      BY <2>1, <2>2
  <1>10. \A r \in Requests : DOMAIN result(r) = Cells(r)
    <2> SUFFICES ASSUME NEW r \in Requests PROVE DOMAIN result(r) = Cells(r)
      OBVIOUS
    <2> HIDE DEF copies
    <2>1. DOMAIN Landed(partial[r], copies(r)) = DOMAIN partial[r]
      BY DEF Landed
    <2>2. DOMAIN partial[r] = Cells(r)
      BY <1>1 DEF ScoreTypes
    <2>3. QED
      BY <2>1, <2>2
  <1>11. ASSUME NEW r \in asked \ Embedded, NEW i \in Cells(r), i < computed'[r]
         PROVE  Right(partial[r], copies(r), i)
    <2>1. r \in Requests /\ i \in Int
      BY <1>1, <1>4 DEF ScoreTypes, Cells
    <2>2. CASE i < computed[r]
      BY <1>1, <2>2 DEF Filled, Right
    <2>3. CASE ~(i < computed[r])
      <3>1. r \in DOMAIN sched /\ computed[r] <= i /\ i < computed[r] + sched[r]
        BY <1>4, <1>8, <1>11, <2>1, <2>3
      <3>2. r \in Scored(sched)
        BY <1>11, <3>1 DEF Scored
      <3>3. \E c \in Scores(r, sched[r]) : c.cell = i
        BY <1>1, <1>2, <1>5, <2>1, <3>1, <3>2, ScoresFacts
      <3>4. QED
        BY <3>2, <3>3 DEF Right
    <2>4. QED
      BY <2>2, <2>3
  <1>12. ASSUME NEW r \in asked \ Embedded, NEW i \in Cells(r), i < computed'[r], Sync(sched)
         PROVE  result(r)[i] = Score(i)
    <2>1. r \in Requests /\ i \in DOMAIN partial[r]
      BY <1>1 DEF ScoreTypes
    <2>2. Right(partial[r], copies(r), i)
      BY <1>11, <1>12
    <2>3. \A c \in copies(r) : Flight(c, r)
      BY <1>9, <2>1
    <2> HIDE DEF copies
    <2>4. Landed(partial[r], copies(r))[i] = Score(i)
      BY <2>1, <2>2, <2>3, LandedFacts
    <2>5. QED
      BY <1>12, <2>4
  <1> HIDE DEF copies, result
  <1>13. ScoreTypes'
    <2>1. \A r \in Requests : DOMAIN Unscored(r) = Cells(r)
      BY DEF Unscored
    <2>2. computed' \in [Requests -> Nat] /\ generated' \in [Requests -> Nat]
      BY <1>2, <1>4, <1>8
    <2>3. QED
      BY <1>1, <1>8, <1>10, <2>1, <2>2 DEF ScoreTypes
  <1>14. PromptPosition'
    <2> SUFFICES ASSUME NEW r \in Requests \ Embedded
                 PROVE  /\ r \in asked' <=> computed'[r] < PromptLen[r]
                        /\ r \in asked' <=> generated'[r] = 0
      BY DEF PromptPosition
    <2>1. CASE r \in Scored(sched)
      <3>1. /\ r \in asked /\ sched[r] \in Nat \ {0} /\ generated[r] = 0
            /\ computed'[r] = computed[r] + sched[r]
            /\ r \in Completed(sched) <=> computed[r] + sched[r] >= PromptLen[r]
            /\ generated'[r] = IF computed[r] + sched[r] >= PromptLen[r] THEN 1 ELSE 0
        BY <1>2, <1>3, <1>4, <1>5, <1>6, <1>8, <2>1
      <3>2. QED
        BY <1>4, <1>8, <3>1
    <2>2. CASE r \notin Scored(sched) /\ r \in DOMAIN sched
      <3>1. r \notin asked /\ r \notin asked'
        BY <1>8, <2>2 DEF Scored
      <3>2. ~(computed[r] < PromptLen[r]) /\ generated[r] # 0
        BY <1>1, <3>1 DEF PromptPosition
      <3>3. ~(computed'[r] < PromptLen[r]) /\ generated'[r] # 0
        BY <1>2, <1>4, <1>8, <2>2, <3>2
      <3>4. QED
        BY <3>1, <3>3
    <2>3. CASE r \notin DOMAIN sched
      <3>1. r \notin Completed(sched)
        BY <1>3, <1>7, <2>3
      <3>2. computed'[r] = computed[r] /\ generated'[r] = generated[r] /\ (r \in asked' <=> r \in asked)
        BY <1>8, <2>3, <3>1
      <3>3. QED
        BY <1>1, <3>2 DEF PromptPosition
    <2>4. QED
      BY <2>1, <2>2, <2>3
  <1>15. Flights'
    <2>1. \A r \in Requests : landing'[r] = {} \/ landing'[r] = copies(r)
      BY <1>8
    <2>2. QED
      BY <1>9, <2>1 DEF Flights
  <1>16. Filled'
    <2> SUFFICES ASSUME NEW r \in asked' \ Embedded, NEW i \in Cells(r), i < computed'[r]
                 PROVE  Right(partial'[r], landing'[r], i)
      BY DEF Filled
    <2>1. r \in asked \ Embedded /\ r \notin Completed(sched) /\ r \in Requests
      BY <1>1, <1>8 DEF ScoreTypes
    <2>2. partial'[r] = result(r) /\ landing'[r] = IF Sync(sched) THEN {} ELSE copies(r)
      BY <1>8, <2>1
    <2>3. CASE Sync(sched)
      BY <1>12, <2>1, <2>2, <2>3 DEF Right
    <2>4. CASE ~Sync(sched)
      <3>1. result(r) = partial[r]
        BY <2>4 DEF result
      <3>2. QED
        BY <1>11, <2>1, <2>2, <2>4, <3>1
    <2>5. QED
      BY <2>3, <2>4
  <1>17. ReturnedScoresAreComplete'
    <2> SUFFICES ASSUME NEW r \in Requests, r \notin Embedded, r \notin asked', NEW i \in Cells(r)
                 PROVE  out'[r][i] = Score(i)
      BY DEF ReturnedScoresAreComplete, Answered
    <2>1. CASE r \in Completed(sched)
      <3>1. Sync(sched)
        BY <2>1 DEF Sync
      <3>2. r \in asked \ Embedded /\ r \in DOMAIN sched /\ r \in Scored(sched)
        BY <1>3, <1>7, <2>1
      <3>3. computed'[r] >= PromptLen[r]
        BY <1>6, <1>8, <2>1, <3>2
      <3>4. i < computed'[r]
        BY <1>4, <1>13, <3>3 DEF Cells, ScoreTypes
      <3>5. result(r)[i] = Score(i)
        BY <1>12, <3>1, <3>2, <3>4
      <3>6. QED
        BY <1>8, <2>1, <3>5
    <2>2. CASE r \notin Completed(sched)
      <3>1. r \notin asked /\ out'[r] = out[r]
        BY <1>8, <2>2
      <3>2. QED
        BY <1>1, <3>1 DEF ReturnedScoresAreComplete, Answered
    <2>3. QED
      BY <2>1, <2>2
  <1>18. QED
    BY <1>13, <1>14, <1>15, <1>16, <1>17 DEF ScoresInv

\* A copy lands.
LEMMA LandStep ==
    ASSUME ScoresInv, NEW r \in Requests, NEW c \in landing[r], Land(r, c)
    PROVE  ScoresInv'
  <1>1. ScoreTypes /\ PromptPosition /\ Flights /\ Filled /\ ReturnedScoresAreComplete
    BY DEF ScoresInv
  <1>2. Flight(c, r)
    BY <1>1 DEF Flights
  <1>3. /\ landing' = [landing EXCEPT ![r] = landing[r] \ {c}]
        /\ partial' = [partial EXCEPT ![r] = Landed(partial[r], {c})]
        /\ UNCHANGED <<asked, computed, out, generated>>
    BY DEF Land
  <1>4. /\ DOMAIN Landed(partial[r], {c}) = Cells(r)
        /\ \A i \in Cells(r) : Right(partial[r], {c}, i) => Landed(partial[r], {c})[i] = Score(i)
        /\ \A i \in Cells(r) : c.cell # i => Landed(partial[r], {c})[i] = partial[r][i]
    <2>1. \A d \in {c} : Flight(d, r)
      BY <1>2
    <2>2. DOMAIN partial[r] = Cells(r)
      BY <1>1 DEF ScoreTypes
    <2>3. /\ DOMAIN Landed(partial[r], {c}) = DOMAIN partial[r]
          /\ \A i \in DOMAIN partial[r] : Right(partial[r], {c}, i) => Landed(partial[r], {c})[i] = Score(i)
          /\ \A i \in DOMAIN partial[r] :
                (\A d \in {c} : d.cell # i) => Landed(partial[r], {c})[i] = partial[r][i]
      BY <2>1, LandedFacts
    <2>4. QED
      BY <2>2, <2>3
  <1>5. ScoreTypes'
    BY <1>1, <1>3, <1>4 DEF ScoreTypes
  <1>6. PromptPosition' /\ ReturnedScoresAreComplete'
    BY <1>1, <1>3 DEF PromptPosition, ReturnedScoresAreComplete, Answered
  <1>7. Flights'
    BY <1>1, <1>3 DEF Flights, ScoreTypes
  <1>8. Filled'
    <2> SUFFICES ASSUME NEW s \in asked \ Embedded, NEW i \in Cells(s), i < computed[s]
                 PROVE  Right(partial'[s], landing'[s], i)
      BY <1>3 DEF Filled
    <2>1. Right(partial[s], landing[s], i) /\ s \in Requests
      BY <1>1 DEF Filled, ScoreTypes
    <2>2. CASE s # r
      BY <1>1, <1>3, <2>1, <2>2 DEF ScoreTypes
    <2>3. CASE s = r
      <3>1. partial'[s] = Landed(partial[r], {c}) /\ landing'[s] = landing[r] \ {c}
        BY <1>1, <1>3, <2>3 DEF ScoreTypes
      <3>2. CASE partial[r][i] = Score(i) \/ c.cell = i
        <4>1. Right(partial[r], {c}, i)
          BY <3>2 DEF Right
        <4>2. QED
          BY <1>4, <2>3, <3>1, <4>1 DEF Right
      <3>3. CASE c.cell # i /\ \E d \in landing[r] : d.cell = i
        BY <3>1, <3>3 DEF Right
      <3>4. QED
        BY <2>1, <2>3, <3>2, <3>3 DEF Right
    <2>4. QED
      BY <2>2, <2>3
  <1>9. QED
    BY <1>5, <1>6, <1>7, <1>8 DEF ScoresInv

\* A request starts over.
LEMMA PreemptStep ==
    ASSUME ScoresInv, NEW r \in Requests, Preempt(r)
    PROVE  ScoresInv'
  <1>1. ScoreTypes /\ PromptPosition /\ Flights /\ Filled /\ ReturnedScoresAreComplete
    BY DEF ScoresInv
  <1>2. /\ 0 < computed[r] /\ computed[r] < PromptLen[r]
        /\ computed' = [computed EXCEPT ![r] = 0]
        /\ UNCHANGED <<asked, partial, landing, out, generated>>
    BY DEF Preempt
  <1>3. ScoreTypes'
    BY <1>1, <1>2 DEF ScoreTypes
  <1>4. PromptPosition'
    <2> SUFFICES ASSUME NEW s \in Requests \ Embedded
                 PROVE  /\ s \in asked <=> computed'[s] < PromptLen[s]
                        /\ s \in asked <=> generated[s] = 0
      BY <1>2 DEF PromptPosition
    <2>1. (s \in asked <=> computed[s] < PromptLen[s]) /\ (s \in asked <=> generated[s] = 0)
      BY <1>1 DEF PromptPosition
    <2>2. CASE s = r
      <3>1. computed'[s] = 0 /\ 0 < PromptLen[s]
        <4>1. computed \in [Requests -> Nat] /\ computed' = [computed EXCEPT ![r] = 0]
          BY <1>1, <1>2 DEF ScoreTypes
        <4>2. computed'[s] = 0
          BY <2>2, <4>1
        <4>3. PromptLen[s] \in Nat \ {0}
          BY RequestsAssumption
        <4>4. QED
          BY <4>2, <4>3
      <3>2. computed[s] < PromptLen[s]
        BY <1>2, <2>2
      <3>3. s \in asked
        BY <2>1, <3>2
      <3>4. QED
        BY <2>1, <3>1, <3>3
    <2>3. CASE s # r
      BY <1>1, <1>2, <2>1, <2>3 DEF ScoreTypes
    <2>4. QED
      BY <2>2, <2>3
  <1>5. Flights' /\ ReturnedScoresAreComplete'
    BY <1>1, <1>2 DEF Flights, ReturnedScoresAreComplete, Answered
  <1>6. Filled'
    <2> SUFFICES ASSUME NEW s \in asked \ Embedded, NEW i \in Cells(s), i < computed'[s]
                 PROVE  Right(partial[s], landing[s], i)
      BY <1>2 DEF Filled
    <2>1. i < computed[s]
      BY <1>1, <1>2, RequestsAssumption DEF ScoreTypes, Cells
    <2>2. QED
      BY <1>1, <2>1 DEF Filled
  <1>7. QED
    BY <1>3, <1>4, <1>5, <1>6 DEF ScoresInv

\* The invariant is inductive.
LEMMA ScoresStep == ScoresInv /\ [ScoresNext]_scoresVars => ScoresInv'
  <1> SUFFICES ASSUME ScoresInv, [ScoresNext]_scoresVars PROVE ScoresInv'
    OBVIOUS
  <1>1. CASE UNCHANGED scoresVars
    BY <1>1 DEF scoresVars, ScoresInv, ScoreTypes, PromptPosition, Flights, Filled, ReturnedScoresAreComplete, Answered
  <1>2. CASE ScoresNext
    BY <1>2, StepStep, LandStep, PreemptStep DEF ScoresNext
  <1>3. QED
    BY <1>1, <1>2

\* Copies, results and positions fit together at every moment.
THEOREM ScoresInvariance == ScoresSpec => []ScoresInv
  BY ScoresStart, ScoresStep, PTL DEF ScoresSpec

\* Scores that are returned are complete and in their places, however a prompt
\* was cut into steps and chunks and whatever was preempted or still in flight.
THEOREM ScoresAreComplete == ScoresSpec => []ReturnedScoresAreComplete
  <1>1. ScoresInv => ReturnedScoresAreComplete
    BY DEF ScoresInv
  <1>2. QED
    BY <1>1, ScoresInvariance, PTL

\* A bounded set of natural numbers has a largest element.
LEMMA Largest ==
    ASSUME NEW n \in Nat, NEW S \in SUBSET (0..n), S # {}
    PROVE  \E x \in S : \A y \in S : y <= x
  <1> DEFINE T == {n - y : y \in S}
  <1>1. T \subseteq Nat
    OBVIOUS
  <1>2. T # {}
    <2>1. PICK s \in S : TRUE
      OBVIOUS
    <2>2. n - s \in T
      BY <2>1
    <2>3. QED
      BY <2>2
  <1>3. PICK x \in T : \A y \in T : ~ (<<y, x>> \in OpToRel(<, Nat))
    BY <1>1, <1>2, NatLessThanWellFounded, WFMin
  <1>4. \A y \in T : ~(y < x)
    BY <1>1, <1>3 DEF OpToRel
  <1>5. PICK z \in S : x = n - z
    OBVIOUS
  <1>6. \A y \in S : y <= z
    <2> SUFFICES ASSUME NEW y \in S PROVE y <= z
      OBVIOUS
    <2>1. ~(n - y < n - z)
      BY <1>4, <1>5
    <2>2. QED
      BY <2>1
  <1>7. QED
    BY <1>6

\* No chunk of a step is wider than the chunk size.
LEMMA WidthsBounded ==
    ASSUME ScoreTypes, NEW sched \in Schedules
    PROVE  Widths(sched) \subseteq 0..ChunkSize
  <1> SUFFICES ASSUME NEW r \in Scored(sched), NEW b \in Begins(NumLogits(r, sched[r]))
               PROVE  End(b, NumLogits(r, sched[r])) - b \in 0..ChunkSize
    BY DEF Widths
  <1>1. r \in Requests /\ sched[r] \in Nat
    BY ScheduleFacts DEF Scored
  <1>2. computed[r] \in Nat /\ PromptLen[r] \in Nat
    BY <1>1, RequestsAssumption DEF ScoreTypes
  <1>3. NumLogits(r, sched[r]) \in Int
    BY <1>1, <1>2 DEF NumLogits, Remaining
  <1>4. QED
    BY <1>3, ChunksCover, ChunkAssumption

\* However long the prompts, no projection is wider than a chunk.
THEOREM ProjectionFits == ScoresSpec => []ProjectionIsBounded
  <1> DEFINE Bounded == widest \in 0..ChunkSize
  <1>1. ScoresInit => Bounded
    BY ChunkAssumption DEF ScoresInit
  <1>2. ScoresInv /\ Bounded /\ [ScoresNext]_scoresVars => Bounded'
    <2> SUFFICES ASSUME ScoresInv, Bounded, [ScoresNext]_scoresVars PROVE Bounded'
      OBVIOUS
    <2>1. ASSUME NEW sched \in Schedules, Step(sched) PROVE Bounded'
      <3> DEFINE S == Widths(sched) \cup {widest}
      <3>1. S \in SUBSET (0..ChunkSize) /\ S # {}
        BY WidthsBounded DEF ScoresInv
      <3>2. widest' = CHOOSE x \in S : \A y \in S : y <= x
        BY <2>1 DEF Step
      <3> HIDE DEF S
      <3>3. \E x \in S : \A y \in S : y <= x
        BY <3>1, Largest, ChunkAssumption
      <3>4. widest' \in S
        BY <3>2, <3>3
      <3>5. QED
        BY <3>1, <3>4
    <2>2. CASE UNCHANGED widest
      BY <2>2
    <2>3. QED
      BY <2>1, <2>2 DEF ScoresNext, Land, Preempt, scoresVars
  <1>3. Bounded => ProjectionIsBounded
    BY ChunkAssumption DEF ProjectionIsBounded
  <1>4. QED
    BY <1>1, <1>2, <1>3, ScoresInvariance, PTL DEF ScoresSpec

\* A request gets its scores in exactly the step that samples its first token.
THEOREM ScoresComeWithTheToken == ScoresSpec => []ReturnedWithFirstToken
  <1>1. ScoresInv => ReturnedWithFirstToken
    BY DEF ScoresInv, PromptPosition, ReturnedWithFirstToken, Answered, ScoreTypes
  <1>2. QED
    BY <1>1, ScoresInvariance, PTL
=============================================================================
