----------------------- MODULE WeightTransfer_proofs -----------------------
(***************************************************************************)
(* Proofs about WeightTransfer for any number of ranks, replicas, weights, *)
(* sizes and failures.                                                     *)
(*                                                                         *)
(* A load reads the sender's buffer in another process, so that it finds   *)
(* its weight rests on where the two stand.  SenderPlace, MessagePlace,    *)
(* MessageContent and WorkerPlace tie the sender, the message and the      *)
(* worker of a rank to each other; Stage and Regions say where the weights *)
(* of a bucket lie and which copies have landed; Reading that a load under *)
(* way finds its bytes in place; Progress that every weight taken so far   *)
(* is loaded or still in the bucket.  Link ties the workers of a replica   *)
(* to the rank that started them.                                          *)
(***************************************************************************)
EXTENDS WeightTransfer, TLAPS

Sending == {"flushing", "directing", "closing"}
Quiet == {"open", "pull", "place", "future", "done", "raised"}
Started == {"prepare", "opening", "raised"}
Finished == {"post", "returned", "raised"}
Open == {"recv", "load", "release"}

Type(k) == chan[k].type

\* The worker stands at the start of the sender's transfer, or at the end of the one before.
AtStart(k) ==
    \/ m[k] = n[k] /\ rpc[k] \in Started
    \/ m[k] = n[k] - 1 /\ rpc[k] \in Finished

\* The worker stands at the end of the sender's transfer, or at the start of the next.
AtEnd(k) ==
    \/ m[k] = n[k] /\ rpc[k] \in Finished
    \/ m[k] = n[k] + 1 /\ rpc[k] \in Started

\* Where the worker may stand, by the sender's place.
SenderPlace(k) ==
    /\ spc[k] \in Quiet <=> Type(k) = "none"
    /\ spc[k] = "open" => AtStart(k)
    /\ spc[k] \in {"pull", "place"} => m[k] = n[k] /\ rpc[k] \in {"recv", "raised"}
    /\ spc[k] = "future" => Leader(k) = k /\ m[k] = n[k] /\ rpc[k] \in Finished
    /\ spc[k] = "done" => AtEnd(k)
    /\ spc[k] = "raised" =>
         \/ m[k] = n[k] - 1 /\ rpc[k] \in Finished
         \/ m[k] = n[k] /\ (Leader(k) = k \/ rpc[k] \notin {"post", "returned"})

\* Where both may stand, by the message between them.
MessagePlace(k) ==
    /\ Type(k) = "handle" => spc[k] = "opening" /\ AtStart(k)
    /\ Type(k) = "error" => m[k] = n[k] /\ rpc[k] \in {"cleanup", "raised"}
    /\ Type(k) = "ack" =>
         \/ spc[k] \in {"opening", "flushing", "directing"}
            /\ m[k] = n[k] /\ rpc[k] \in {"recv", "raised"}
         \/ spc[k] = "closing" /\ AtEnd(k)
    /\ Type(k) = "bucket" => m[k] = n[k] /\ rpc[k] \in Open \cup {"raised"}

\* What a bucket message says.
MessageContent(k) ==
    Type(k) = "bucket" =>
        \/ spc[k] = "flushing" /\ chan[k] = BucketMsg(bucket[k], FALSE, FALSE)
        \/ spc[k] = "closing" /\ chan[k] = BucketMsg(bucket[k], FALSE, TRUE)
        \/ spc[k] = "directing"
           /\ chan[k] = BucketMsg({[w |-> pulled[k], off |-> off[k]]}, TRUE, FALSE)

\* Where the sender may stand, by the worker's place.
WorkerPlace(k) ==
    /\ rpc[k] \in Open \cup {"cleanup"} =>
         m[k] = n[k] /\ spc[k] \notin {"open", "future", "done"}
    /\ rpc[k] \in {"load", "release"} => Type(k) = "bucket" /\ request[k] = chan[k]
    /\ rpc[k] = "release" => request[k].last /\ loading[k] = {}
    /\ maps[k] => rpc[k] \in Open \cup {"cleanup"}

\* How far the sender has got with its weights.
Stage(k) ==
    /\ spc[k] \in {"open", "opening"} => pulled[k] = 0
    /\ spc[k] \in {"place", "flushing", "directing"} => pulled[k] > 0
    /\ spc[k] = "closing" => pulled[k] = Len(Weights(n[k]))
    /\ spc[k] \in {"flushing", "closing"} => copying[k] = {}
    /\ bucket[k] = {} => off[k] = 0
    /\ copying[k] \subseteq bucket[k]

\* Where the weights of the bucket lie, and what of them has landed.
Regions(k) ==
    \A e \in bucket[k] :
         /\ e.w \in 1..pulled[k]
         /\ End(k, e) <= off[k]
         /\ e.off % Weight(k, e.w).elem = 0
         /\ \A f \in bucket[k] : e = f \/ End(k, e) <= f.off \/ End(k, f) <= e.off
         /\ e \notin copying[k] =>
              \A b \in Region(k, e) : buf[k][b] = [t |-> n[k], w |-> e.w]

\* A load under way reads a landed copy, or the weight itself.
Reading(k) ==
    \A e \in loading[k] :
        /\ rpc[k] \in {"load", "cleanup"} /\ spc[k] \in Sending \cup {"raised"}
        /\ e.w \in 1..pulled[k]
        /\ request[k].direct \/ (e \in bucket[k] /\ copying[k] = {})

\* The weight as the worker has it, an adapter's before it is added.
Val(k, i) == IF IsAdapter(m[k]) THEN staged[k][i] ELSE base[k][i]

\* What of the transfer has been loaded.
Progress(k) ==
    /\ rpc[k] \in Open /\ spc[k] # "raised" =>
         \A i \in 1..pulled[k] :
            \/ Val(k, i) = n[k]
            \/ \E e \in bucket[k] : e.w = i
            \/ spc[k] \in {"place", "flushing", "directing"} /\ i = pulled[k]
    /\ rpc[k] \in {"load", "release"} =>
         \A e \in request[k].entries : e \in loading[k] \/ Val(k, e.w) = n[k]
    /\ Type(k) = "ack" /\ rpc[k] = "recv" =>
         /\ spc[k] = "flushing" => \A e \in bucket[k] : Val(k, e.w) = n[k]
         /\ spc[k] = "directing" => Val(k, pulled[k]) = n[k]
    /\ rpc[k] \in {"release", "post", "returned"} => Holds(k, m[k])

\* Nothing the worker holds is torn.
Whole(k) ==
    /\ \A i \in DOMAIN setup.base : base[k][i] # Torn
    /\ \A i \in DOMAIN setup.adapter : lora[k][i] # Torn /\ staged[k][i] # Torn

RankInv(k) ==
    /\ SenderPlace(k) /\ MessagePlace(k) /\ MessageContent(k) /\ WorkerPlace(k)
    /\ Stage(k) /\ Regions(k) /\ Reading(k) /\ Progress(k) /\ Whole(k)

\* The workers of a replica run the transfer its first rank started, and have
\* all returned when that rank has.
Link ==
    \A k \in Ranks :
        /\ m[k] = n[Leader(k)]
        /\ spc[Leader(k)] = "done" => rpc[k] = "returned"

IInv == TypeOK /\ Link /\ \A k \in Ranks : RankInv(k)

-----------------------------------------------------------------------------
(* Arithmetic and the constants.                                           *)

\* Division with remainder.
LEMMA DivBound ==
    ASSUME NEW x \in Nat, NEW a \in Nat \ {0}
    PROVE  /\ x \div a \in Nat /\ x % a \in Nat /\ x % a < a
           /\ x = a * (x \div a) + (x % a)
  OBVIOUS

\* A multiple leaves no remainder.
LEMMA Multiple ==
    ASSUME NEW q \in Nat, NEW a \in Nat \ {0}
    PROVE  (q * a) % a = 0
  <1> DEFINE x == q * a
  <1>1. x \in Nat
    OBVIOUS
  <1>2. x \div a \in Nat /\ x % a \in Nat /\ x % a < a /\ x = a * (x \div a) + (x % a)
    BY <1>1, DivBound
  <1> DEFINE d == q - (x \div a)
  <1>3. d \in Int /\ a * d = x % a
    BY <1>2
  <1>4. CASE d >= 1
    BY <1>2, <1>3, <1>4
  <1>5. CASE d <= -1
    BY <1>2, <1>3, <1>5
  <1>6. CASE d = 0
    BY <1>2, <1>3, <1>6
  <1> QED BY <1>3, <1>4, <1>5, <1>6

\* The offset an element size rounds up to.
LEMMA AlignUp ==
    ASSUME NEW o \in Nat, NEW a \in Nat \ {0}
    PROVE  LET x == ((o + a - 1) \div a) * a
           IN  x \in Nat /\ x >= o /\ x % a = 0 /\ (o = 0 => x = 0)
  <1> DEFINE y == o + a - 1
             q == y \div a
  <1>1. y \in Nat
    OBVIOUS
  <1>2. q \in Nat /\ y % a \in Nat /\ y % a < a /\ y = a * q + (y % a)
    BY <1>1, DivBound
  <1>3. q * a = a * q /\ q * a \in Nat
    BY <1>2
  <1>4. q * a >= o
    BY <1>1, <1>2, <1>3
  <1>5. (q * a) % a = 0
    BY <1>2, Multiple
  <1>6. o = 0 => q * a = 0
    <2> HAVE o = 0
    <2>1. CASE q = 0
      BY <2>1
    <2>2. CASE q >= 1
      BY <1>2, <1>3, <2>2
    <2> QED BY <1>2, <2>1, <2>2
  <1> QED BY <1>3, <1>4, <1>5, <1>6

\* The ranks of a replica share one first rank.
LEMMA LeaderFacts ==
    ASSUME TypeOK, NEW k \in Ranks
    PROVE  Leader(k) \in Ranks /\ Leader(Leader(k)) = Leader(k)
  <1> USE SizesAssumption, SetupsAssumption
  <1>1. setup.tp \in Nat \ {0} /\ k \in Nat
    BY DEF TypeOK, SetupType, Ranks
  <1> DEFINE tp == setup.tp
             q == k \div tp
  <1>2. q \in Nat /\ k % tp \in Nat /\ k % tp < tp /\ k = tp * q + (k % tp)
    BY <1>1, DivBound
  <1>a. q * tp = tp * q /\ q * tp \in Nat
    BY <1>1, <1>2
  <1>b. k - (k % tp) = q * tp
    BY <1>1, <1>2, <1>a
  <1>3. Leader(k) = q * tp /\ Leader(k) \in Nat /\ Leader(k) <= k
    <2>1. Leader(k) = k - (k % tp)
      BY DEF Leader
    <2> QED BY <1>1, <1>2, <1>a, <1>b, <2>1
  <1>4. (q * tp) % tp = 0
    BY <1>1, <1>2, Multiple
  <1>5. Leader(Leader(k)) = Leader(k)
    BY <1>3, <1>4 DEF Leader
  <1> QED BY <1>1, <1>3, <1>5 DEF Ranks

\* The weights of a transfer are a sequence of sizes.
LEMMA WeightFacts ==
    ASSUME TypeOK, NEW t \in Nat
    PROVE  /\ setup.base \in Seq(WeightType) /\ setup.adapter \in Seq(WeightType)
           /\ Weights(t) \in Seq(WeightType) /\ Len(Weights(t)) \in Nat
           /\ DOMAIN Weights(t) = 1..Len(Weights(t))
           /\ \A i \in 1..Len(Weights(t)) :
                Weights(t)[i].bytes \in Nat /\ Weights(t)[i].elem \in Nat \ {0}
  <1>1. setup.base \in Seq(WeightType) /\ setup.adapter \in Seq(WeightType)
    BY SetupsAssumption DEF TypeOK, SetupType
  <1>2. Weights(t) \in Seq(WeightType)
    BY <1>1 DEF Weights
  <1>3. /\ Len(Weights(t)) \in Nat /\ DOMAIN Weights(t) = 1..Len(Weights(t))
        /\ \A i \in 1..Len(Weights(t)) : Weights(t)[i] \in WeightType
    BY <1>2
  <1> QED BY <1>1, <1>2, <1>3 DEF WeightType

\* The weight a sender is about to place, and where it would go.
LEMMA PlaceFacts ==
    ASSUME TypeOK, NEW k \in Ranks, RankInv(k), spc[k] = "place"
    PROVE  /\ pulled[k] \in 1..Len(Weights(n[k]))
           /\ Current(k).bytes \in Nat /\ Current(k).elem \in Nat \ {0}
           /\ AlignedOffset(k) \in Nat /\ AlignedOffset(k) >= off[k]
           /\ AlignedOffset(k) % Current(k).elem = 0
           /\ off[k] = 0 => AlignedOffset(k) = 0
  <1>1. pulled[k] \in 1..Len(Weights(n[k])) /\ n[k] \in Nat /\ off[k] \in Nat
    BY SizesAssumption DEF TypeOK, RankInv, Stage
  <1>2. Current(k).bytes \in Nat /\ Current(k).elem \in Nat \ {0}
    BY <1>1, WeightFacts DEF Current, Weight
  <1> QED BY <1>1, <1>2, AlignUp DEF AlignedOffset

\* An entry of the bucket names a weight of the transfer.
LEMMA EntryFacts ==
    ASSUME TypeOK, NEW k \in Ranks, RankInv(k), NEW e \in bucket[k]
    PROVE  /\ e.w \in 1..Len(Weights(n[k])) /\ e.off \in Nat /\ End(k, e) \in Nat
           /\ End(k, e) <= off[k]
  <1>1. n[k] \in Nat /\ pulled[k] \in Nat /\ pulled[k] <= Len(Weights(n[k]))
    BY SizesAssumption DEF TypeOK
  <1>2. Len(Weights(n[k])) \in Nat
    BY <1>1, WeightFacts
  <1>3. e.w \in 1..pulled[k] /\ End(k, e) <= off[k]
    BY DEF RankInv, Regions
  <1>4. e.w \in 1..Len(Weights(n[k]))
    BY <1>1, <1>2, <1>3
  <1>5. Weight(k, e.w).bytes \in Nat
    BY <1>1, <1>4, WeightFacts DEF Weight
  <1>6. e.off \in Nat
    BY SizesAssumption DEF TypeOK, EntryType
  <1> QED BY <1>3, <1>4, <1>5, <1>6 DEF End

LEMMA InitInv == Init => IInv
  <1> SUFFICES ASSUME Init PROVE IInv
    OBVIOUS
  <1> USE SizesAssumption, SetupsAssumption
  <1>1. setup \in SetupType
    BY DEF Init
  <1>2. TypeOK
    <2>1. Weights(0) \in Seq(WeightType)
      BY <1>1 DEF Weights, SetupType
    <2>2. Len(Weights(0)) \in Nat
      BY <2>1
    <2> QED BY <2>2 DEF Init, TypeOK, Absent, Versions, Messages, NoMsg, NoBucket, BucketMsg,
                        NoByte, Bytes
  <1>3. Link
    BY <1>2, LeaderFacts DEF Init, Link
  <1>4. ASSUME NEW k \in Ranks PROVE RankInv(k)
    BY <1>4 DEF Init, RankInv, SenderPlace, MessagePlace, MessageContent, WorkerPlace, Stage,
       Regions,
            Reading, Progress, Whole, Quiet, Sending, Open, Started, Finished, AtStart, AtEnd,
            Type, NoMsg, Absent, Torn, Holds, IsAdapter
  <1> QED BY <1>2, <1>3, <1>4 DEF IInv

\* A rank whose own state a step leaves alone keeps its invariant.
LEMMA Frame ==
    ASSUME NEW j \in Ranks, RankInv(j), setup' = setup,
           n'[j] = n[j], spc'[j] = spc[j], pulled'[j] = pulled[j], off'[j] = off[j],
           bucket'[j] = bucket[j], copying'[j] = copying[j], buf'[j] = buf[j],
           chan'[j] = chan[j], m'[j] = m[j], rpc'[j] = rpc[j], request'[j] = request[j],
           loading'[j] = loading[j], base'[j] = base[j], lora'[j] = lora[j],
           staged'[j] = staged[j], maps'[j] = maps[j]
    PROVE  RankInv(j)'
  <1>a. SenderPlace(j)'
    BY DEF RankInv, SenderPlace, Type, AtStart, AtEnd, Leader
  <1>b. MessagePlace(j)'
    BY DEF RankInv, MessagePlace, Type, AtStart, AtEnd
  <1>c. MessageContent(j)'
    BY DEF RankInv, MessageContent, Type
  <1>1. WorkerPlace(j)'
    BY DEF RankInv, WorkerPlace, Type
  <1>d. Stage(j)'
    BY DEF RankInv, Stage, Weights, IsAdapter
  <1>2. Regions(j)'
    BY DEF RankInv, Regions, End, Region, Weight, Weights, IsAdapter
  <1>3. Reading(j)' /\ Whole(j)'
    BY DEF RankInv, Reading, Whole
  <1>4. Progress(j)'
    BY DEF RankInv, Progress, Val, Holds, IsAdapter, Type
  <1> QED BY <1>a, <1>b, <1>c, <1>d, <1>1, <1>2, <1>3, <1>4 DEF RankInv

-----------------------------------------------------------------------------
(* The types.                                                              *)

LEMMA TypeStep == IInv /\ [Next]_vars => TypeOK'
  <1> SUFFICES ASSUME IInv, [Next]_vars PROVE TypeOK'
    OBVIOUS
  <1> USE SizesAssumption, SetupsAssumption DEF IInv
  <1>a. ASSUME NEW k \in Ranks PROVE n[k] \in Nat /\ n[k] <= MaxTransfers
    BY DEF TypeOK
  <1>1. ASSUME NEW k \in Ranks, Enter(k) PROVE TypeOK'
    <2>x. n[k] < MaxTransfers
      BY <1>1 DEF Enter
    <2>a. n[k] + 1 \in 0..MaxTransfers
      BY <1>a, <2>x
    <2> USE <1>1 DEF Enter, Start
    <2>b. n' \in [Ranks -> 0..MaxTransfers]
      BY <2>a DEF TypeOK
    <2>1. m' \in [Ranks -> 0..MaxTransfers]
      <3>1. CASE Leader(k) = k
        BY <2>a, <3>1 DEF TypeOK
      <3>2. CASE Leader(k) # k
        BY <3>2 DEF TypeOK
      <3> QED BY <3>1, <3>2
    <2>2. \A j \in Ranks : pulled'[j] <= Len(Weights(n[j]))'
      <3> SUFFICES ASSUME NEW j \in Ranks PROVE pulled'[j] <= Len(Weights(n[j]))'
        OBVIOUS
      <3>1. CASE j = k
        <4>1. Len(Weights(n[k] + 1)) \in Nat
          BY <1>a, WeightFacts
        <4> QED BY <3>1, <4>1, <1>a DEF TypeOK, Weights, IsAdapter
      <3>2. CASE j # k
        BY <3>2 DEF TypeOK, Weights, IsAdapter
      <3> QED BY <3>1, <3>2
    <2>c. 0 \in 0..BucketSize /\ 0 \in Nat
      OBVIOUS
    <2>d. pulled' \in [Ranks -> Nat]
      BY <2>c DEF TypeOK
    <2>3. off' \in [Ranks -> 0..BucketSize]
      BY <2>c DEF TypeOK
    <2>4. spc' \in [Ranks -> {"open", "opening", "pull", "place", "flushing", "directing",
                            "closing", "future", "done", "raised"}]
      BY DEF TypeOK
    <2>5. rpc' \in [Ranks -> {"prepare", "opening", "recv", "load", "release", "post",
                            "cleanup", "returned", "raised"}]
      BY DEF TypeOK
    <2>6. buf' \in [Ranks -> [Bytes -> [t : 0..MaxTransfers, w : Nat]]]
      BY DEF TypeOK, NoByte
    <2>7. bucket' \in [Ranks -> SUBSET EntryType] /\ copying' \in [Ranks -> SUBSET EntryType]
      BY DEF TypeOK
    <2> QED BY <2>b, <2>1, <2>2, <2>d, <2>3, <2>4, <2>5, <2>6, <2>7 DEF TypeOK
  <1>2. ASSUME NEW k \in Ranks, OpenBuffer(k) PROVE TypeOK'
    BY <1>a, <1>2 DEF OpenBuffer, Send, TypeOK, sender, worker, Messages, Handle, Ack, Error,
       NoMsg, BucketMsg, Weights, IsAdapter
  <1>3. ASSUME NEW k \in Ranks, ReceiveAck(k) PROVE TypeOK'
    <2> USE <1>3 DEF ReceiveAck
    <2>a. \E x \in {"pull", "place", "future", "done"} : spc' = [spc EXCEPT ![k] = x]
      OBVIOUS
    <2>b. bucket' = bucket \/ bucket' = [bucket EXCEPT ![k] = {}]
      OBVIOUS
    <2>c. off' = off \/ off' = [off EXCEPT ![k] = 0]
      OBVIOUS
    <2>d. 0 \in 0..BucketSize
      OBVIOUS
    <2>1. spc' \in [Ranks -> {"open", "opening", "pull", "place", "flushing", "directing",
                            "closing", "future", "done", "raised"}]
      BY <2>a DEF TypeOK
    <2>e. bucket' \in [Ranks -> SUBSET EntryType]
      BY <2>b DEF TypeOK
    <2>f. off \in [Ranks -> 0..BucketSize]
      BY DEF TypeOK
    <2> HIDE <1>3 DEF ReceiveAck
    <2>2. off' \in [Ranks -> 0..BucketSize]
      BY <2>c, <2>d, <2>f
    <2> USE <1>3 DEF ReceiveAck
    <2>3. chan' \in [Ranks -> Messages]
      BY DEF TypeOK, Messages
    <2> QED BY <2>1, <2>e, <2>2, <2>3 DEF TypeOK, worker, Weights, IsAdapter
  <1>4. ASSUME NEW k \in Ranks, ReceiveError(k) PROVE TypeOK'
    BY <1>a, <1>4 DEF ReceiveError, TypeOK, sender, worker, Messages, Handle, Ack, Error, NoMsg,
       BucketMsg, Weights, IsAdapter
  <1>5. ASSUME NEW k \in Ranks, Pull(k) PROVE TypeOK'
    <2>1. /\ pulled' = [pulled EXCEPT ![k] = pulled[k] + 1] /\ pulled[k] < Len(Weights(n[k]))
          /\ UNCHANGED <<setup, n>> /\ pulled \in [Ranks -> Nat]
      BY <1>5 DEF Pull, TypeOK
    <2>2. Len(Weights(n[k])) \in Nat
      BY <1>a, WeightFacts
    <2>3. \A j \in Ranks : pulled'[j] <= Len(Weights(n[j]))'
      BY <2>1, <2>2 DEF TypeOK, Weights, IsAdapter
    <2>4. pulled' \in [Ranks -> Nat]
      BY <2>1
    <2> QED BY <1>5, <2>3, <2>4 DEF Pull, TypeOK, worker
  <1>6. ASSUME NEW k \in Ranks, Flush(k) PROVE TypeOK'
    BY <1>a, <1>6 DEF Flush, Send, Synchronized, TypeOK, sender, worker, Messages, Handle, Ack,
       Error, NoMsg, BucketMsg, Weights, IsAdapter
  <1>7. ASSUME NEW k \in Ranks, DirectSend(k) PROVE TypeOK'
    <2> USE <1>7 DEF DirectSend, Send
    <2>1. AlignedOffset(k) = 0
      BY PlaceFacts DEF RankInv, Stage
    <2>2. Entry(k) \in EntryType
      BY <2>1, PlaceFacts DEF Entry, EntryType
    <2>3. chan' \in [Ranks -> Messages]
      BY <2>2 DEF TypeOK, Messages, BucketMsg
    <2>4. off' \in [Ranks -> 0..BucketSize]
      BY <2>1 DEF TypeOK
    <2> QED BY <2>3, <2>4 DEF TypeOK, worker, Weights, IsAdapter
  <1>8. ASSUME NEW k \in Ranks, TooLarge(k) PROVE TypeOK'
    BY <1>a, <1>8 DEF TooLarge, TypeOK, sender, worker, Messages, Handle, Ack, Error, NoMsg,
       BucketMsg, Weights, IsAdapter
  <1>9. ASSUME NEW k \in Ranks, Place(k) PROVE TypeOK'
    <2> USE <1>9 DEF Place
    <2>1. AlignedOffset(k) \in 0..BucketSize /\ AlignedOffset(k) + Current(k).bytes \in 0..BucketSize
      BY PlaceFacts DEF Fits
    <2>2. Entry(k) \in EntryType
      BY <2>1, PlaceFacts DEF Entry, EntryType
    <2>3. bucket' \in [Ranks -> SUBSET EntryType] /\ copying' \in [Ranks -> SUBSET EntryType]
      BY <2>2 DEF TypeOK
    <2>4. off' \in [Ranks -> 0..BucketSize]
      BY <2>1 DEF TypeOK
    <2> QED BY <2>3, <2>4 DEF TypeOK, worker, Weights, IsAdapter
  <1>10. ASSUME NEW k \in Ranks, SendLast(k) PROVE TypeOK'
    BY <1>a, <1>10 DEF SendLast, Send, Synchronized, TypeOK, sender, worker, Messages, Handle,
       Ack, Error, NoMsg, BucketMsg, Weights, IsAdapter
  <1>11. ASSUME NEW k \in Ranks, AwaitFuture(k) PROVE TypeOK'
    BY <1>a, <1>11 DEF AwaitFuture, TypeOK, sender, worker, Messages, Handle, Ack, Error, NoMsg,
       BucketMsg, Weights, IsAdapter
  <1>12. ASSUME NEW k \in Ranks, \E e \in copying[k] : CopyLands(k, e) PROVE TypeOK'
    <2> PICK e \in copying[k] : CopyLands(k, e)
      BY <1>12
    <2> USE DEF CopyLands
    <2>1. e.w \in Nat /\ n[k] \in 0..MaxTransfers
      BY DEF TypeOK, EntryType
    <2>2. buf' \in [Ranks -> [Bytes -> [t : 0..MaxTransfers, w : Nat]]]
      BY <2>1 DEF TypeOK
    <2>3. copying' \in [Ranks -> SUBSET EntryType]
      BY DEF TypeOK
    <2> QED BY <2>2, <2>3 DEF TypeOK, worker, Weights, IsAdapter
  <1>13. ASSUME NEW k \in Ranks, SenderFails(k) PROVE TypeOK'
    BY <1>a, <1>13 DEF SenderFails, TypeOK, sender, worker, Messages, Handle, Ack, Error, NoMsg,
       BucketMsg, Weights, IsAdapter
  <1>14. ASSUME NEW k \in Ranks, Prepare(k) PROVE TypeOK'
    <2> USE <1>14 DEF Prepare
    <2>1. Absent(setup.adapter) \in [DOMAIN setup.adapter -> Versions]
      BY DEF Absent, Versions
    <2>2. lora' \in [Ranks -> [DOMAIN setup.adapter -> Versions]]
      BY <2>1 DEF TypeOK
    <2>3. staged' \in [Ranks -> [DOMAIN setup.adapter -> Versions]]
      BY <2>1 DEF TypeOK
    <2> QED BY <2>2, <2>3 DEF TypeOK, sender, Weights, IsAdapter
  <1>15. ASSUME NEW k \in Ranks, MapBuffer(k) PROVE TypeOK'
    BY <1>a, <1>15 DEF MapBuffer, TypeOK, sender, worker, Messages, Handle, Ack, Error, NoMsg,
       BucketMsg, Weights, IsAdapter
  <1>16. ASSUME NEW k \in Ranks, Receive(k) PROVE TypeOK'
    BY <1>a, <1>16 DEF Receive, TypeOK, sender, worker, Messages, Handle, Ack, Error, NoMsg,
       BucketMsg, Weights, IsAdapter
  <1>17. ASSUME NEW k \in Ranks, ReplyBucket(k) PROVE TypeOK'
    BY <1>a, <1>17 DEF ReplyBucket, Loaded, TypeOK, sender, worker, Messages, Handle, Ack, Error,
       NoMsg, BucketMsg, Weights, IsAdapter
  <1>18. ASSUME NEW k \in Ranks, LastLoaded(k) PROVE TypeOK'
    BY <1>a, <1>18 DEF LastLoaded, Loaded, TypeOK, sender, worker, Messages, Handle, Ack, Error,
       NoMsg, BucketMsg, Weights, IsAdapter
  <1>19. ASSUME NEW k \in Ranks, Release(k) PROVE TypeOK'
    BY <1>a, <1>19 DEF Release, TypeOK, sender, worker, Messages, Handle, Ack, Error, NoMsg,
       BucketMsg, Weights, IsAdapter
  <1>20. ASSUME NEW k \in Ranks, PostProcess(k) PROVE TypeOK'
    BY <1>a, <1>20 DEF PostProcess, TypeOK, sender, worker, Messages, Handle, Ack, Error, NoMsg,
       BucketMsg, Weights, IsAdapter
  <1>21. ASSUME NEW k \in Ranks, \E e \in loading[k] : LoadLands(k, e) PROVE TypeOK'
    <2> PICK e \in loading[k] : LoadLands(k, e)
      BY <1>21
    <2> USE DEF LoadLands
    <2>1. Content(k, e) \in Versions
      BY <1>a DEF Content, Versions, Torn
    <2>2. loading' \in [Ranks -> SUBSET EntryType]
      BY DEF TypeOK
    <2>a. \/ base' = base /\ staged' = [staged EXCEPT ![k] = [staged[k] EXCEPT ![e.w] = Content(k, e)]]
          \/ staged' = staged /\ base' = [base EXCEPT ![k] = [base[k] EXCEPT ![e.w] = Content(k, e)]]
      OBVIOUS
    <2>b. /\ [staged[k] EXCEPT ![e.w] = Content(k, e)] \in [DOMAIN setup.adapter -> Versions]
          /\ [base[k] EXCEPT ![e.w] = Content(k, e)] \in [DOMAIN setup.base -> Versions]
      BY <2>1 DEF TypeOK
    <2>3. base' \in [Ranks -> [DOMAIN setup.base -> Versions]]
      BY <2>a, <2>b DEF TypeOK
    <2>4. staged' \in [Ranks -> [DOMAIN setup.adapter -> Versions]]
      BY <2>a, <2>b DEF TypeOK
    <2> QED BY <2>2, <2>3, <2>4 DEF TypeOK, sender, Weights, IsAdapter
  <1>22. ASSUME NEW k \in Ranks, WorkerFails(k) PROVE TypeOK'
    BY <1>a, <1>22 DEF WorkerFails, TypeOK, sender, worker, Messages, Handle, Ack, Error, NoMsg,
       BucketMsg, Weights, IsAdapter
  <1>23. ASSUME NEW k \in Ranks, CleanUp(k) PROVE TypeOK'
    BY <1>a, <1>23 DEF CleanUp, TypeOK, sender, worker, Messages, Handle, Ack, Error, NoMsg,
       BucketMsg, Weights, IsAdapter
  <1>24. ASSUME NEW k \in Ranks, WorkerFailsMute(k) PROVE TypeOK'
    BY <1>a, <1>24 DEF WorkerFailsMute, TypeOK, sender, worker, Messages, Handle, Ack, Error,
       NoMsg, BucketMsg, Weights, IsAdapter
  <1>25. CASE UNCHANGED vars
    BY <1>25 DEF TypeOK, vars, sender, worker, Weights, IsAdapter
  <1> QED
    BY <1>1, <1>2, <1>3, <1>4, <1>5, <1>6, <1>7, <1>8, <1>9, <1>10, <1>11, <1>12, <1>13, <1>14,
       <1>15, <1>16, <1>17, <1>18, <1>19, <1>20, <1>21, <1>22, <1>23, <1>24, <1>25
       DEF Next, SenderStep, WorkerStep, Fault

-----------------------------------------------------------------------------
(* A step of rank k, its own invariant.                                    *)

\* Weights that are taken but not placed change nothing in the bucket.
LEMMA RegionsFrame ==
    ASSUME NEW k, Regions(k), pulled[k] \in Nat, pulled'[k] \in Nat, pulled[k] <= pulled'[k],
           setup' = setup, n'[k] = n[k], off'[k] = off[k], bucket'[k] = bucket[k],
           copying'[k] = copying[k], buf'[k] = buf[k]
    PROVE  Regions(k)'
  <1> SUFFICES ASSUME NEW e \in bucket[k]
               PROVE  /\ e.w \in 1..pulled'[k]
                      /\ End(k, e)' <= off'[k]
                      /\ e.off % Weight(k, e.w)'.elem = 0
                      /\ \A f \in bucket[k] : e = f \/ End(k, e)' <= f.off \/ End(k, f)' <= e.off
                      /\ e \notin copying'[k] =>
                           \A b \in Region(k, e)' : buf'[k][b] = [t |-> n'[k], w |-> e.w]
    BY DEF Regions
  <1>1. \A i : Weight(k, i)' = Weight(k, i)
    BY DEF Weight, Weights, IsAdapter
  <1>2. Region(k, e)' = Region(k, e) /\ \A f : End(k, f)' = End(k, f)
    BY <1>1 DEF Region, End
  <1>3. e.w \in 1..pulled'[k]
    <2>1. e.w \in 1..pulled[k]
      BY DEF Regions
    <2> QED BY <2>1
  <1> QED BY <1>1, <1>2, <1>3 DEF Regions

\* A step of the sender that adds no weight to the bucket and receives nothing.
LEMMA ProgressFrame ==
    ASSUME NEW k, Progress(k), setup' = setup, n'[k] = n[k], pulled'[k] = pulled[k],
           bucket'[k] = bucket[k], m'[k] = m[k], rpc'[k] = rpc[k], request'[k] = request[k],
           loading'[k] = loading[k], base'[k] = base[k], lora'[k] = lora[k],
           staged'[k] = staged[k], chan'[k].type # "ack", spc[k] # "raised",
           spc'[k] = "raised" \/
             (spc[k] \in {"place", "flushing", "directing"} =>
                spc'[k] \in {"place", "flushing", "directing"})
    PROVE  Progress(k)'
  <1>1. \A i : Val(k, i)' = Val(k, i)
    BY DEF Val, IsAdapter
  <1>2. Holds(k, m[k])' = Holds(k, m[k])
    BY DEF Holds, IsAdapter
  <1> QED BY <1>1, <1>2 DEF Progress, Type

LEMMA OpenBufferStep ==
    ASSUME IInv, NEW k \in Ranks, OpenBuffer(k)
    PROVE  RankInv(k)'
  <1> USE SizesAssumption, SetupsAssumption DEF IInv, RankInv, OpenBuffer, Send, TypeOK, sender,
     worker
  <1>1. SenderPlace(k)'
    BY DEF SenderPlace, MessagePlace, WorkerPlace, AtStart, AtEnd, Leader, Type, Quiet, Started,
       Finished, Open, Handle, Ack, Error, NoMsg, BucketMsg
  <1>2. MessagePlace(k)'
    BY DEF SenderPlace, MessagePlace, MessageContent, WorkerPlace, AtStart, AtEnd, Type, Quiet,
       Started, Finished, Open, Handle, Ack, Error, NoMsg, BucketMsg
  <1>3. MessageContent(k)'
    BY DEF SenderPlace, MessageContent, WorkerPlace, Type, Quiet, Started, Finished, Open, Handle,
       Ack, Error, NoMsg, BucketMsg
  <1>4. WorkerPlace(k)'
    BY DEF SenderPlace, MessagePlace, MessageContent, WorkerPlace, AtStart, AtEnd, Type, Quiet,
       Started, Finished, Open, Handle, Ack, Error, NoMsg, BucketMsg
  <1>5. Stage(k)'
    BY DEF Stage, Weights, IsAdapter
  <1>6. Regions(k)'
    BY RegionsFrame
  <1>7. Reading(k)'
    BY DEF Reading, WorkerPlace, MessageContent, Stage, Regions, Sending, Type, Quiet, Started,
       Finished, Open, Handle, Ack, Error, NoMsg, BucketMsg
  <1>8. Whole(k)'
    BY DEF Whole
  <1>p. /\ spc'[k] # spc[k] /\ chan'[k].type # "ack" /\ spc[k] # "raised"
        /\ spc[k] = "place" => spc'[k] \in {"flushing", "directing", "raised"}
        /\ spc[k] \in {"flushing", "directing"} => spc'[k] = "raised"
        /\ Progress(k)
    BY DEF SenderPlace, Type, Quiet, Handle, Ack, Error, NoMsg, BucketMsg
  <1>9. Progress(k)'
    BY <1>p, ProgressFrame
  <1> QED BY <1>1, <1>2, <1>3, <1>4, <1>5, <1>6, <1>7, <1>8, <1>9

LEMMA ReceiveAckStep ==
    ASSUME IInv, NEW k \in Ranks, ReceiveAck(k)
    PROVE  RankInv(k)'
  <1> USE SizesAssumption, SetupsAssumption DEF IInv, RankInv, ReceiveAck, TypeOK, sender, worker
  <1>a. chan'[k].type = "none" /\ Type(k) = "ack"
    BY DEF NoMsg, Type, Ack
  <1>b. spc[k] = "closing" => AtEnd(k) /\ (Leader(k) = k => m[k] = n[k])
    BY <1>a, LeaderFacts DEF MessagePlace, Link
  <1>c. \/ spc[k] \in {"opening", "directing"} /\ spc'[k] = "pull"
           /\ bucket'[k] = bucket[k] /\ off'[k] = off[k]
        \/ spc[k] = "flushing" /\ spc'[k] = "place" /\ bucket'[k] = {} /\ off'[k] = 0
        \/ spc[k] = "closing" /\ spc'[k] = (IF Leader(k) = k THEN "future" ELSE "done")
           /\ bucket'[k] = bucket[k] /\ off'[k] = off[k]
    OBVIOUS
  <1>d. UNCHANGED <<setup, n, pulled, copying, buf, m, rpc, request, loading, base, lora, staged, maps>>
    OBVIOUS
  <1>e. spc[k] # "closing" => m[k] = n[k] /\ rpc[k] \in {"recv", "raised"}
    BY <1>a, <1>c DEF MessagePlace
  <1>f. /\ SenderPlace(k) /\ MessagePlace(k) /\ MessageContent(k) /\ WorkerPlace(k)
        /\ Stage(k) /\ Regions(k) /\ Reading(k) /\ Progress(k) /\ Whole(k)
    OBVIOUS
  <1>g. n[k] \in Int
    OBVIOUS
  <1> USE <1>f
  <1> HIDE DEF ReceiveAck, TypeOK, IInv
  <1>1. SenderPlace(k)'
    <2>1. CASE spc[k] # "closing"
      BY <2>1, <1>a, <1>c, <1>d, <1>e DEF SenderPlace, Type, Quiet, Leader
    <2>2. CASE spc[k] = "closing"
      <3>1. Leader(k)' = Leader(k) /\ AtEnd(k)' = AtEnd(k)
        BY <1>d DEF Leader, AtEnd
      <3>2. CASE Leader(k) = k
        <4>1. spc'[k] = "future"
          BY <1>c, <2>2, <3>2
        <4>2. rpc[k] \in Finished
          BY <1>b, <1>g, <2>2, <3>2 DEF AtEnd
        <4> QED BY <1>a, <1>b, <1>d, <2>2, <3>1, <3>2, <4>1, <4>2 DEF SenderPlace, Type, Quiet
      <3>3. CASE Leader(k) # k
        <4>1. spc'[k] = "done"
          BY <1>c, <2>2, <3>3
        <4> QED BY <1>a, <1>b, <1>d, <2>2, <3>1, <4>1 DEF SenderPlace, Type, Quiet
      <3> QED BY <3>2, <3>3
    <2> QED BY <2>1, <2>2
  <1>2. MessagePlace(k)'
    BY <1>a DEF MessagePlace, Type
  <1>3. MessageContent(k)'
    BY <1>a DEF MessageContent, Type
  <1>4. WorkerPlace(k)'
    <2>1. CASE spc[k] # "closing"
      BY <2>1, <1>a, <1>c, <1>d, <1>e DEF WorkerPlace, Type, Open
    <2>2. CASE spc[k] = "closing"
      BY <2>2, <1>a, <1>b, <1>c, <1>d DEF WorkerPlace, Type, Open, AtEnd, Started, Finished
    <2> QED BY <2>1, <2>2
  <1>5. Stage(k)'
    BY <1>c, <1>d DEF Stage
  <1>6. Regions(k)'
    <2>1. CASE spc[k] = "flushing"
      BY <2>1, <1>c DEF Regions
    <2>2. CASE spc[k] # "flushing"
      <3>1. pulled[k] \in Nat
        BY DEF IInv, TypeOK
      <3> QED BY <2>2, <3>1, <1>c, <1>d, RegionsFrame
    <2> QED BY <2>1, <2>2
  <1>7. Reading(k)'
    <2>1. loading[k] = {}
      BY <1>a, <1>b, <1>e DEF Reading, AtEnd, Started, Finished
    <2> QED BY <2>1, <1>d DEF Reading
  <1>8. Whole(k)'
    BY <1>d DEF Whole
  <1>9. Progress(k)'
    <2>1. \A i : Val(k, i)' = Val(k, i)
      BY <1>d DEF Val, IsAdapter
    <2>2. rpc[k] \in {"release", "post", "returned"} => Holds(k, m[k])'
      BY <1>d DEF Progress, Holds, IsAdapter
    <2>3. rpc[k] \notin {"load", "release"}
      BY <1>a, <1>b, <1>e DEF AtEnd, Started, Finished
    <2>4. CASE rpc[k] \in Open
      <3>1. spc[k] # "closing" /\ rpc[k] = "recv"
        BY <2>4, <1>b, <1>e DEF AtEnd, Started, Finished, Open
      <3>2. ASSUME NEW i \in 1..pulled[k]
            PROVE  \/ Val(k, i) = n[k]
                   \/ \E e \in bucket'[k] : e.w = i
                   \/ spc'[k] = "place" /\ i = pulled[k]
        <4>1. CASE spc[k] = "flushing"
          BY <1>a, <1>c, <3>1, <3>2, <4>1 DEF Progress, Open
        <4>2. CASE spc[k] = "directing"
          BY <1>a, <1>c, <3>1, <3>2, <4>2 DEF Progress, Open
        <4>3. CASE spc[k] = "opening"
          BY <3>2, <4>3 DEF Stage
        <4> QED BY <1>c, <3>1, <4>1, <4>2, <4>3
      <3> QED BY <1>a, <1>d, <2>1, <2>2, <2>3, <3>1, <3>2 DEF Progress, Type
    <2>5. CASE rpc[k] \notin Open
      BY <1>a, <1>d, <2>2, <2>3, <2>5 DEF Progress, Type, Open
    <2> QED BY <2>4, <2>5
  <1> QED BY <1>1, <1>2, <1>3, <1>4, <1>5, <1>6, <1>7, <1>8, <1>9

LEMMA ReceiveErrorStep ==
    ASSUME IInv, NEW k \in Ranks, ReceiveError(k)
    PROVE  RankInv(k)'
  <1> USE SizesAssumption, SetupsAssumption DEF IInv, RankInv, ReceiveError, TypeOK, sender, worker
  <1>1. SenderPlace(k)'
    BY DEF SenderPlace, MessagePlace, WorkerPlace, AtStart, AtEnd, Leader, Type, Quiet, Started,
       Finished, Open, Handle, Ack, Error, NoMsg, BucketMsg
  <1>2. MessagePlace(k)'
    BY DEF SenderPlace, MessagePlace, MessageContent, WorkerPlace, AtStart, AtEnd, Type, Quiet,
       Started, Finished, Open, Handle, Ack, Error, NoMsg, BucketMsg
  <1>3. MessageContent(k)'
    BY DEF SenderPlace, MessageContent, WorkerPlace, Type, Quiet, Started, Finished, Open, Handle,
       Ack, Error, NoMsg, BucketMsg
  <1>4. WorkerPlace(k)'
    BY DEF SenderPlace, MessagePlace, MessageContent, WorkerPlace, AtStart, AtEnd, Type, Quiet,
       Started, Finished, Open, Handle, Ack, Error, NoMsg, BucketMsg
  <1>5. Stage(k)'
    BY DEF Stage, Weights, IsAdapter
  <1>6. Regions(k)'
    BY RegionsFrame
  <1>7. Reading(k)'
    BY DEF Reading, WorkerPlace, MessageContent, Stage, Regions, Sending, Type, Quiet, Started,
       Finished, Open, Handle, Ack, Error, NoMsg, BucketMsg
  <1>8. Whole(k)'
    BY DEF Whole
  <1>p. /\ spc'[k] # spc[k] /\ chan'[k].type # "ack" /\ spc[k] # "raised"
        /\ spc[k] = "place" => spc'[k] \in {"flushing", "directing", "raised"}
        /\ spc[k] \in {"flushing", "directing"} => spc'[k] = "raised"
        /\ Progress(k)
    BY DEF SenderPlace, Type, Quiet, Handle, Ack, Error, NoMsg, BucketMsg
  <1>9. Progress(k)'
    BY <1>p, ProgressFrame
  <1> QED BY <1>1, <1>2, <1>3, <1>4, <1>5, <1>6, <1>7, <1>8, <1>9

LEMMA PullStep ==
    ASSUME IInv, NEW k \in Ranks, Pull(k)
    PROVE  RankInv(k)'
  <1> USE SizesAssumption, SetupsAssumption DEF IInv, RankInv, Pull, TypeOK, sender, worker
  <1>1. SenderPlace(k)'
    BY DEF SenderPlace, MessagePlace, WorkerPlace, AtStart, AtEnd, Leader, Type, Quiet, Started,
       Finished, Open, Handle, Ack, Error, NoMsg, BucketMsg
  <1>2. MessagePlace(k)'
    BY DEF SenderPlace, MessagePlace, MessageContent, WorkerPlace, AtStart, AtEnd, Type, Quiet,
       Started, Finished, Open, Handle, Ack, Error, NoMsg, BucketMsg
  <1>3. MessageContent(k)'
    BY DEF SenderPlace, MessageContent, WorkerPlace, Type, Quiet, Started, Finished, Open, Handle,
       Ack, Error, NoMsg, BucketMsg
  <1>4. WorkerPlace(k)'
    BY DEF SenderPlace, MessagePlace, MessageContent, WorkerPlace, AtStart, AtEnd, Type, Quiet,
       Started, Finished, Open, Handle, Ack, Error, NoMsg, BucketMsg
  <1>5. Stage(k)'
    BY DEF Stage, Weights, IsAdapter
  <1>6. Regions(k)'
    BY RegionsFrame
  <1>7. Reading(k)'
    BY DEF Reading, WorkerPlace, MessageContent, Stage, Regions, Sending, Type, Quiet, Started,
       Finished, Open, Handle, Ack, Error, NoMsg, BucketMsg
  <1>8. Whole(k)'
    BY DEF Whole
  <1>a. /\ pulled'[k] = pulled[k] + 1 /\ pulled[k] \in Nat /\ spc'[k] = "place"
        /\ UNCHANGED <<setup, n, bucket, chan, m, rpc, request, loading, base, lora, staged>>
    OBVIOUS
  <1>b. \A i : Val(k, i)' = Val(k, i)
    BY <1>a DEF Val, IsAdapter
  <1>c. Holds(k, m[k])' = Holds(k, m[k])
    BY <1>a DEF Holds, IsAdapter
  <1>d. Type(k) = "none" /\ rpc[k] \in {"recv", "raised"} /\ spc[k] = "pull"
    BY DEF SenderPlace, Quiet
  <1>f. rpc[k] \in Open => \A i \in 1..pulled[k] : Val(k, i) = n[k] \/ \E e \in bucket[k] : e.w = i
    BY <1>d DEF Progress
  <1> HIDE DEF IInv, TypeOK, Pull
  <1>e. rpc[k] \in Open => \A i \in 1..pulled'[k] :
            Val(k, i) = n[k] \/ (\E e \in bucket[k] : e.w = i) \/ i = pulled'[k]
    <2> SUFFICES ASSUME rpc[k] \in Open, NEW i \in 1..pulled'[k], i # pulled'[k]
                 PROVE  Val(k, i) = n[k] \/ \E e \in bucket[k] : e.w = i
      OBVIOUS
    <2>1. i \in 1..pulled[k]
      BY <1>a
    <2> QED BY <1>f, <2>1
  <1>g. Progress(k)
    BY DEF IInv
  <1>9. Progress(k)'
    BY <1>a, <1>b, <1>c, <1>d, <1>e, <1>g DEF Progress, Type
  <1> USE DEF IInv
  <1> QED BY <1>1, <1>2, <1>3, <1>4, <1>5, <1>6, <1>7, <1>8, <1>9

LEMMA FlushStep ==
    ASSUME IInv, NEW k \in Ranks, Flush(k)
    PROVE  RankInv(k)'
  <1> USE SizesAssumption, SetupsAssumption DEF IInv, RankInv, Flush, Send, Synchronized, TypeOK,
     sender, worker
  <1>1. SenderPlace(k)'
    BY DEF SenderPlace, MessagePlace, WorkerPlace, AtStart, AtEnd, Leader, Type, Quiet, Started,
       Finished, Open, Handle, Ack, Error, NoMsg, BucketMsg
  <1>2. MessagePlace(k)'
    BY DEF SenderPlace, MessagePlace, MessageContent, WorkerPlace, AtStart, AtEnd, Type, Quiet,
       Started, Finished, Open, Handle, Ack, Error, NoMsg, BucketMsg
  <1>3. MessageContent(k)'
    BY DEF SenderPlace, MessageContent, WorkerPlace, Type, Quiet, Started, Finished, Open, Handle,
       Ack, Error, NoMsg, BucketMsg
  <1>4. WorkerPlace(k)'
    BY DEF SenderPlace, MessagePlace, MessageContent, WorkerPlace, AtStart, AtEnd, Type, Quiet,
       Started, Finished, Open, Handle, Ack, Error, NoMsg, BucketMsg
  <1>5. Stage(k)'
    BY DEF Stage, Weights, IsAdapter
  <1>6. Regions(k)'
    BY RegionsFrame
  <1>7. Reading(k)'
    BY DEF Reading, WorkerPlace, MessageContent, Stage, Regions, Sending, Type, Quiet, Started,
       Finished, Open, Handle, Ack, Error, NoMsg, BucketMsg
  <1>8. Whole(k)'
    BY DEF Whole
  <1>p. /\ spc'[k] # spc[k] /\ chan'[k].type # "ack" /\ spc[k] # "raised"
        /\ spc[k] = "place" => spc'[k] \in {"flushing", "directing", "raised"}
        /\ spc[k] \in {"flushing", "directing"} => spc'[k] = "raised"
        /\ Progress(k)
    BY DEF SenderPlace, Type, Quiet, Handle, Ack, Error, NoMsg, BucketMsg
  <1>9. Progress(k)'
    BY <1>p, ProgressFrame
  <1> QED BY <1>1, <1>2, <1>3, <1>4, <1>5, <1>6, <1>7, <1>8, <1>9

LEMMA DirectSendStep ==
    ASSUME IInv, NEW k \in Ranks, DirectSend(k)
    PROVE  RankInv(k)'
  <1> USE SizesAssumption, SetupsAssumption DEF IInv, RankInv, DirectSend, Send, Entry, TypeOK,
     sender, worker
  <1>1. SenderPlace(k)'
    BY DEF SenderPlace, MessagePlace, WorkerPlace, AtStart, AtEnd, Leader, Type, Quiet, Started,
       Finished, Open, Handle, Ack, Error, NoMsg, BucketMsg
  <1>2. MessagePlace(k)'
    BY DEF SenderPlace, MessagePlace, MessageContent, WorkerPlace, AtStart, AtEnd, Type, Quiet,
       Started, Finished, Open, Handle, Ack, Error, NoMsg, BucketMsg
  <1>3. MessageContent(k)'
    BY DEF SenderPlace, MessageContent, WorkerPlace, Type, Quiet, Started, Finished, Open, Handle,
       Ack, Error, NoMsg, BucketMsg
  <1>4. WorkerPlace(k)'
    BY DEF SenderPlace, MessagePlace, MessageContent, WorkerPlace, AtStart, AtEnd, Type, Quiet,
       Started, Finished, Open, Handle, Ack, Error, NoMsg, BucketMsg
  <1>a. AlignedOffset(k) = 0 /\ off[k] = 0 /\ pulled[k] > 0 /\ bucket[k] = {}
    BY PlaceFacts DEF Stage
  <1>b. /\ off'[k] = 0 /\ spc'[k] = "directing"
        /\ UNCHANGED <<n, pulled, bucket, copying, buf>>
    BY <1>a
  <1>5. Stage(k)'
    BY <1>a, <1>b DEF Stage
  <1>6. Regions(k)'
    BY <1>a, <1>b DEF Regions
  <1>7. Reading(k)'
    BY DEF Reading, WorkerPlace, MessageContent, Stage, Regions, Sending, Type, Quiet, Started,
       Finished, Open, Handle, Ack, Error, NoMsg, BucketMsg
  <1>8. Whole(k)'
    BY DEF Whole
  <1>p. /\ spc'[k] # spc[k] /\ chan'[k].type # "ack" /\ spc[k] # "raised"
        /\ spc[k] = "place" => spc'[k] \in {"flushing", "directing", "raised"}
        /\ spc[k] \in {"flushing", "directing"} => spc'[k] = "raised"
        /\ Progress(k)
    BY DEF SenderPlace, Type, Quiet, Handle, Ack, Error, NoMsg, BucketMsg
  <1>9. Progress(k)'
    BY <1>p, ProgressFrame
  <1> QED BY <1>1, <1>2, <1>3, <1>4, <1>5, <1>6, <1>7, <1>8, <1>9

LEMMA TooLargeStep ==
    ASSUME IInv, NEW k \in Ranks, TooLarge(k)
    PROVE  RankInv(k)'
  <1> USE SizesAssumption, SetupsAssumption DEF IInv, RankInv, TooLarge, TypeOK, sender, worker
  <1>1. SenderPlace(k)'
    BY DEF SenderPlace, MessagePlace, WorkerPlace, AtStart, AtEnd, Leader, Type, Quiet, Started,
       Finished, Open, Handle, Ack, Error, NoMsg, BucketMsg
  <1>2. MessagePlace(k)'
    BY DEF SenderPlace, MessagePlace, MessageContent, WorkerPlace, AtStart, AtEnd, Type, Quiet,
       Started, Finished, Open, Handle, Ack, Error, NoMsg, BucketMsg
  <1>3. MessageContent(k)'
    BY DEF SenderPlace, MessageContent, WorkerPlace, Type, Quiet, Started, Finished, Open, Handle,
       Ack, Error, NoMsg, BucketMsg
  <1>4. WorkerPlace(k)'
    BY DEF SenderPlace, MessagePlace, MessageContent, WorkerPlace, AtStart, AtEnd, Type, Quiet,
       Started, Finished, Open, Handle, Ack, Error, NoMsg, BucketMsg
  <1>5. Stage(k)'
    BY DEF Stage, Weights, IsAdapter
  <1>6. Regions(k)'
    BY RegionsFrame
  <1>7. Reading(k)'
    BY DEF Reading, WorkerPlace, MessageContent, Stage, Regions, Sending, Type, Quiet, Started,
       Finished, Open, Handle, Ack, Error, NoMsg, BucketMsg
  <1>8. Whole(k)'
    BY DEF Whole
  <1>p. /\ spc'[k] # spc[k] /\ chan'[k].type # "ack" /\ spc[k] # "raised"
        /\ spc[k] = "place" => spc'[k] \in {"flushing", "directing", "raised"}
        /\ spc[k] \in {"flushing", "directing"} => spc'[k] = "raised"
        /\ Progress(k)
    BY DEF SenderPlace, Type, Quiet, Handle, Ack, Error, NoMsg, BucketMsg
  <1>9. Progress(k)'
    BY <1>p, ProgressFrame
  <1> QED BY <1>1, <1>2, <1>3, <1>4, <1>5, <1>6, <1>7, <1>8, <1>9

LEMMA PlaceStep ==
    ASSUME IInv, NEW k \in Ranks, Place(k)
    PROVE  RankInv(k)'
  <1> USE SizesAssumption, SetupsAssumption DEF IInv, RankInv, Place, Entry, TypeOK, sender, worker
  <1>1. SenderPlace(k)'
    BY DEF SenderPlace, MessagePlace, WorkerPlace, AtStart, AtEnd, Leader, Type, Quiet, Started,
       Finished, Open, Handle, Ack, Error, NoMsg, BucketMsg
  <1>2. MessagePlace(k)'
    BY DEF SenderPlace, MessagePlace, MessageContent, WorkerPlace, AtStart, AtEnd, Type, Quiet,
       Started, Finished, Open, Handle, Ack, Error, NoMsg, BucketMsg
  <1>3. MessageContent(k)'
    BY DEF SenderPlace, MessageContent, WorkerPlace, Type, Quiet, Started, Finished, Open, Handle,
       Ack, Error, NoMsg, BucketMsg
  <1>4. WorkerPlace(k)'
    BY DEF SenderPlace, MessagePlace, MessageContent, WorkerPlace, AtStart, AtEnd, Type, Quiet,
       Started, Finished, Open, Handle, Ack, Error, NoMsg, BucketMsg
  <1>5. Stage(k)'
    BY DEF Stage, Weights, IsAdapter
  <1>a. /\ bucket'[k] = bucket[k] \cup {Entry(k)} /\ copying'[k] = copying[k] \cup {Entry(k)}
        /\ off'[k] = AlignedOffset(k) + Current(k).bytes /\ spc'[k] = "pull"
        /\ UNCHANGED <<setup, n, pulled, buf, chan, m, rpc, request, loading, base, lora, staged>>
    OBVIOUS
  <1>b. \A i : Weight(k, i)' = Weight(k, i)
    BY <1>a DEF Weight, Weights, IsAdapter
  <1>c. \A e : Region(k, e)' = Region(k, e) /\ End(k, e)' = End(k, e)
    BY <1>b DEF Region, End
  <1>d. /\ Entry(k).w = pulled[k] /\ Entry(k).off = AlignedOffset(k)
        /\ Weight(k, Entry(k).w) = Current(k) /\ End(k, Entry(k)) = off'[k]
    BY <1>a DEF Entry, Current, End
  <1>e. \A e \in bucket[k] : /\ e.w \in 1..pulled[k] /\ e.off \in Nat /\ End(k, e) \in Nat
                           /\ End(k, e) <= off[k]
    <2> TAKE e \in bucket[k]
    <2>1. e.w \in 1..pulled[k]
      BY DEF Regions
    <2> QED BY <2>1, EntryFacts
  <1>f. /\ pulled[k] > 0 /\ off[k] \in Nat /\ AlignedOffset(k) \in Nat /\ AlignedOffset(k) >= off[k]
        /\ Current(k).bytes \in Nat /\ AlignedOffset(k) % Current(k).elem = 0 /\ pulled[k] \in Nat
    BY PlaceFacts
  <1>g. Regions(k)
    OBVIOUS
  <1> HIDE DEF IInv, TypeOK, Place, Entry
  <1>6. Regions(k)'
    <2> SUFFICES ASSUME NEW e \in bucket'[k]
                 PROVE  /\ e.w \in 1..pulled'[k]
                        /\ End(k, e)' <= off'[k]
                        /\ e.off % Weight(k, e.w)'.elem = 0
                        /\ \A f \in bucket'[k] : e = f \/ End(k, e)' <= f.off \/ End(k, f)' <= e.off
                        /\ e \notin copying'[k] =>
                             \A b \in Region(k, e)' : buf'[k][b] = [t |-> n'[k], w |-> e.w]
      BY DEF Regions
    <2>1. CASE e = Entry(k)
      <3>1. \A f \in bucket[k] : End(k, f) <= e.off
        BY <1>d, <1>e, <1>f, <2>1
      <3> QED BY <1>a, <1>b, <1>c, <1>d, <1>f, <2>1, <3>1
    <2>2. CASE e \in bucket[k] /\ e # Entry(k)
      <3>1. End(k, e) <= Entry(k).off
        BY <1>d, <1>e, <1>f, <2>2
      <3>2. End(k, e)' <= off'[k] /\ e.w \in 1..pulled'[k]
        BY <1>a, <1>c, <1>e, <1>f, <2>2
      <3>3. ASSUME NEW f \in bucket'[k] PROVE e = f \/ End(k, e)' <= f.off \/ End(k, f)' <= e.off
        <4>1. CASE f = Entry(k)
          BY <1>c, <3>1, <4>1
        <4>2. CASE f \in bucket[k]
          <5>1. e = f \/ End(k, e) <= f.off \/ End(k, f) <= e.off
            BY <1>g, <2>2, <4>2 DEF Regions
          <5> QED BY <1>c, <5>1
        <4> QED BY <1>a, <3>3, <4>1, <4>2
      <3>4. e \notin copying'[k] => \A b \in Region(k, e)' : buf'[k][b] = [t |-> n'[k], w |-> e.w]
        BY <1>a, <1>c, <1>g, <2>2 DEF Regions
      <3>5. e.off % Weight(k, e.w)'.elem = 0
        <4>1. e.off % Weight(k, e.w).elem = 0
          BY <1>g, <2>2 DEF Regions
        <4> QED BY <1>b, <4>1
      <3> QED BY <3>2, <3>3, <3>4, <3>5
    <2> QED BY <1>a, <2>1, <2>2
  <1> USE DEF IInv
  <1>h. rpc[k] \in {"recv", "raised"} /\ Type(k) = "none"
    BY DEF SenderPlace, Quiet, Place
  <1>7. Reading(k)'
    BY <1>a, <1>h DEF Reading
  <1>8. Whole(k)'
    BY <1>a DEF Whole
  <1>i. \A i : Val(k, i)' = Val(k, i)
    BY <1>a DEF Val, IsAdapter
  <1>j. Holds(k, m[k])' = Holds(k, m[k])
    BY <1>a DEF Holds, IsAdapter
  <1>k. rpc[k] \in Open => \A i \in 1..pulled[k] : Val(k, i) = n[k] \/ \E e \in bucket'[k] : e.w = i
    <2> SUFFICES ASSUME rpc[k] \in Open, NEW i \in 1..pulled[k], Val(k, i) # n[k]
                 PROVE  \E e \in bucket'[k] : e.w = i
      OBVIOUS
    <2>1. CASE i = pulled[k]
      BY <1>a, <1>d, <2>1
    <2>2. CASE i # pulled[k]
      <3>0. spc[k] = "place"
        BY DEF Place
      <3>1. \E e \in bucket[k] : e.w = i
        BY <2>2, <3>0 DEF Progress
      <3> QED BY <1>a, <3>1
    <2> QED BY <2>1, <2>2
  <1>9. Progress(k)'
    BY <1>a, <1>h, <1>i, <1>j, <1>k DEF Progress, Type
  <1> QED BY <1>1, <1>2, <1>3, <1>4, <1>5, <1>6, <1>7, <1>8, <1>9

LEMMA SendLastStep ==
    ASSUME IInv, NEW k \in Ranks, SendLast(k)
    PROVE  RankInv(k)'
  <1> USE SizesAssumption, SetupsAssumption DEF IInv, RankInv, SendLast, Send, Synchronized,
     TypeOK, sender, worker
  <1>1. SenderPlace(k)'
    BY DEF SenderPlace, MessagePlace, WorkerPlace, AtStart, AtEnd, Leader, Type, Quiet, Started,
       Finished, Open, Handle, Ack, Error, NoMsg, BucketMsg
  <1>2. MessagePlace(k)'
    BY DEF SenderPlace, MessagePlace, MessageContent, WorkerPlace, AtStart, AtEnd, Type, Quiet,
       Started, Finished, Open, Handle, Ack, Error, NoMsg, BucketMsg
  <1>3. MessageContent(k)'
    BY DEF SenderPlace, MessageContent, WorkerPlace, Type, Quiet, Started, Finished, Open, Handle,
       Ack, Error, NoMsg, BucketMsg
  <1>4. WorkerPlace(k)'
    BY DEF SenderPlace, MessagePlace, MessageContent, WorkerPlace, AtStart, AtEnd, Type, Quiet,
       Started, Finished, Open, Handle, Ack, Error, NoMsg, BucketMsg
  <1>5. Stage(k)'
    BY DEF Stage, Weights, IsAdapter
  <1>6. Regions(k)'
    BY RegionsFrame
  <1>7. Reading(k)'
    BY DEF Reading, WorkerPlace, MessageContent, Stage, Regions, Sending, Type, Quiet, Started,
       Finished, Open, Handle, Ack, Error, NoMsg, BucketMsg
  <1>8. Whole(k)'
    BY DEF Whole
  <1>p. /\ spc'[k] # spc[k] /\ chan'[k].type # "ack" /\ spc[k] # "raised"
        /\ spc[k] = "place" => spc'[k] \in {"flushing", "directing", "raised"}
        /\ spc[k] \in {"flushing", "directing"} => spc'[k] = "raised"
        /\ Progress(k)
    BY DEF SenderPlace, Type, Quiet, Handle, Ack, Error, NoMsg, BucketMsg
  <1>9. Progress(k)'
    BY <1>p, ProgressFrame
  <1> QED BY <1>1, <1>2, <1>3, <1>4, <1>5, <1>6, <1>7, <1>8, <1>9

LEMMA AwaitFutureStep ==
    ASSUME IInv, NEW k \in Ranks, AwaitFuture(k)
    PROVE  RankInv(k)'
  <1> USE SizesAssumption, SetupsAssumption DEF IInv, RankInv, AwaitFuture, TypeOK, sender, worker
  <1>1. SenderPlace(k)'
    BY DEF SenderPlace, MessagePlace, WorkerPlace, AtStart, AtEnd, Leader, Type, Quiet, Started,
       Finished, Open, Handle, Ack, Error, NoMsg, BucketMsg
  <1>2. MessagePlace(k)'
    BY DEF SenderPlace, MessagePlace, MessageContent, WorkerPlace, AtStart, AtEnd, Type, Quiet,
       Started, Finished, Open, Handle, Ack, Error, NoMsg, BucketMsg
  <1>3. MessageContent(k)'
    BY DEF SenderPlace, MessageContent, WorkerPlace, Type, Quiet, Started, Finished, Open, Handle,
       Ack, Error, NoMsg, BucketMsg
  <1>4. WorkerPlace(k)'
    BY DEF SenderPlace, MessagePlace, MessageContent, WorkerPlace, AtStart, AtEnd, Type, Quiet,
       Started, Finished, Open, Handle, Ack, Error, NoMsg, BucketMsg
  <1>5. Stage(k)'
    BY DEF Stage, Weights, IsAdapter
  <1>6. Regions(k)'
    BY RegionsFrame
  <1>7. Reading(k)'
    BY DEF Reading, WorkerPlace, MessageContent, Stage, Regions, Sending, Type, Quiet, Started,
       Finished, Open, Handle, Ack, Error, NoMsg, BucketMsg
  <1>8. Whole(k)'
    BY DEF Whole
  <1>p. /\ spc'[k] # spc[k] /\ chan'[k].type # "ack" /\ spc[k] # "raised"
        /\ spc[k] = "place" => spc'[k] \in {"flushing", "directing", "raised"}
        /\ spc[k] \in {"flushing", "directing"} => spc'[k] = "raised"
        /\ Progress(k)
    BY DEF SenderPlace, Type, Quiet, Handle, Ack, Error, NoMsg, BucketMsg
  <1>9. Progress(k)'
    BY <1>p, ProgressFrame
  <1> QED BY <1>1, <1>2, <1>3, <1>4, <1>5, <1>6, <1>7, <1>8, <1>9

LEMMA CopyLandsStep ==
    ASSUME IInv, NEW k \in Ranks, NEW e \in copying[k], CopyLands(k, e)
    PROVE  RankInv(k)'
  <1> USE SizesAssumption, SetupsAssumption DEF IInv, RankInv, CopyLands, TypeOK, sender, worker
  <1>1. SenderPlace(k)'
    BY DEF SenderPlace, MessagePlace, WorkerPlace, AtStart, AtEnd, Leader, Type, Quiet, Started,
       Finished, Open, Handle, Ack, Error, NoMsg, BucketMsg
  <1>2. MessagePlace(k)'
    BY DEF SenderPlace, MessagePlace, MessageContent, WorkerPlace, AtStart, AtEnd, Type, Quiet,
       Started, Finished, Open, Handle, Ack, Error, NoMsg, BucketMsg
  <1>3. MessageContent(k)'
    BY DEF SenderPlace, MessageContent, WorkerPlace, Type, Quiet, Started, Finished, Open, Handle,
       Ack, Error, NoMsg, BucketMsg
  <1>4. WorkerPlace(k)'
    BY DEF SenderPlace, MessagePlace, MessageContent, WorkerPlace, AtStart, AtEnd, Type, Quiet,
       Started, Finished, Open, Handle, Ack, Error, NoMsg, BucketMsg
  <1>5. Stage(k)'
    BY DEF Stage, Weights, IsAdapter
  <1>a. /\ copying'[k] = copying[k] \ {e}
        /\ \A b \in Bytes : buf'[k][b] = IF b \in Region(k, e) THEN [t |-> n[k], w |-> e.w]
                                                           ELSE buf[k][b]
        /\ UNCHANGED <<setup, n, pulled, off, bucket>> /\ e \in bucket[k]
    BY DEF Stage
  <1>b. \A i : Weight(k, i)' = Weight(k, i)
    BY <1>a DEF Weight, Weights, IsAdapter
  <1>c. \A f : Region(k, f)' = Region(k, f) /\ End(k, f)' = End(k, f)
    BY <1>b DEF Region, End
  <1>d. \A f \in bucket[k] : f.off \in Nat /\ End(k, f) \in Nat
    BY EntryFacts
  <1>e. Regions(k)
    OBVIOUS
  <1> HIDE DEF IInv, TypeOK, CopyLands
  <1>f. \A f \in bucket[k] : f # e => Region(k, f) \cap Region(k, e) = {}
    <2> SUFFICES ASSUME NEW f \in bucket[k], f # e, NEW b \in Region(k, f), b \in Region(k, e)
                 PROVE  FALSE
      OBVIOUS
    <2>1. End(k, f) <= e.off \/ End(k, e) <= f.off
      BY <1>a, <1>e DEF Regions
    <2>2. b \in Nat /\ f.off <= b /\ b < End(k, f) /\ e.off <= b /\ b < End(k, e)
      BY DEF Region, End, Bytes
    <2> QED BY <1>a, <1>d, <2>1, <2>2
  <1>6. Regions(k)'
    <2> SUFFICES ASSUME NEW f \in bucket[k]
                 PROVE  /\ f.w \in 1..pulled'[k]
                        /\ End(k, f)' <= off'[k]
                        /\ f.off % Weight(k, f.w)'.elem = 0
                        /\ \A g \in bucket[k] : f = g \/ End(k, f)' <= g.off \/ End(k, g)' <= f.off
                        /\ f \notin copying'[k] =>
                             \A b \in Region(k, f)' : buf'[k][b] = [t |-> n'[k], w |-> f.w]
      BY <1>a DEF Regions
    <2>1. f \notin copying'[k] => \A b \in Region(k, f) : buf'[k][b] = [t |-> n[k], w |-> f.w]
      <3>1. Region(k, f) \subseteq Bytes
        BY DEF Region
      <3>2. CASE f = e
        BY <1>a, <3>1, <3>2
      <3>3. CASE f # e
        <4>1. f \notin copying'[k] => f \notin copying[k]
          BY <1>a, <3>3
        <4> QED BY <1>a, <1>e, <1>f, <3>1, <3>3, <4>1 DEF Regions
      <3> QED BY <3>2, <3>3
    <2> QED BY <1>a, <1>b, <1>c, <1>e, <2>1 DEF Regions
  <1> USE DEF IInv, TypeOK, CopyLands
  <1>7. Reading(k)'
    BY DEF Reading, WorkerPlace, MessageContent, Stage, Regions, Sending, Type, Quiet, Started,
       Finished, Open, Handle, Ack, Error, NoMsg, BucketMsg
  <1>8. Whole(k)'
    BY DEF Whole
  <1>9. Progress(k)'
    BY DEF Progress, Val, Holds, IsAdapter, SenderPlace, MessagePlace, MessageContent,
       WorkerPlace, Type, Quiet, Started, Finished, Open, Handle, Ack, Error, NoMsg, BucketMsg
  <1> QED BY <1>1, <1>2, <1>3, <1>4, <1>5, <1>6, <1>7, <1>8, <1>9

LEMMA SenderFailsStep ==
    ASSUME IInv, NEW k \in Ranks, SenderFails(k)
    PROVE  RankInv(k)'
  <1> USE SizesAssumption, SetupsAssumption DEF IInv, RankInv, SenderFails, TypeOK, sender, worker
  <1>1. SenderPlace(k)'
    BY DEF SenderPlace, MessagePlace, WorkerPlace, AtStart, AtEnd, Leader, Type, Quiet, Started,
       Finished, Open, Handle, Ack, Error, NoMsg, BucketMsg
  <1>2. MessagePlace(k)'
    BY DEF SenderPlace, MessagePlace, MessageContent, WorkerPlace, AtStart, AtEnd, Type, Quiet,
       Started, Finished, Open, Handle, Ack, Error, NoMsg, BucketMsg
  <1>3. MessageContent(k)'
    BY DEF SenderPlace, MessageContent, WorkerPlace, Type, Quiet, Started, Finished, Open, Handle,
       Ack, Error, NoMsg, BucketMsg
  <1>4. WorkerPlace(k)'
    BY DEF SenderPlace, MessagePlace, MessageContent, WorkerPlace, AtStart, AtEnd, Type, Quiet,
       Started, Finished, Open, Handle, Ack, Error, NoMsg, BucketMsg
  <1>5. Stage(k)'
    BY DEF Stage, Weights, IsAdapter
  <1>6. Regions(k)'
    BY RegionsFrame
  <1>7. Reading(k)'
    BY DEF Reading, WorkerPlace, MessageContent, Stage, Regions, Sending, Type, Quiet, Started,
       Finished, Open, Handle, Ack, Error, NoMsg, BucketMsg
  <1>8. Whole(k)'
    BY DEF Whole
  <1>p. /\ spc'[k] # spc[k] /\ chan'[k].type # "ack" /\ spc[k] # "raised"
        /\ spc[k] = "place" => spc'[k] \in {"flushing", "directing", "raised"}
        /\ spc[k] \in {"flushing", "directing"} => spc'[k] = "raised"
        /\ Progress(k)
    BY DEF SenderPlace, Type, Quiet, Handle, Ack, Error, NoMsg, BucketMsg
  <1>9. Progress(k)'
    BY <1>p, ProgressFrame
  <1> QED BY <1>1, <1>2, <1>3, <1>4, <1>5, <1>6, <1>7, <1>8, <1>9

LEMMA PrepareStep ==
    ASSUME IInv, NEW k \in Ranks, Prepare(k)
    PROVE  RankInv(k)'
  <1> USE SizesAssumption, SetupsAssumption DEF IInv, RankInv, Prepare, TypeOK, sender, worker
  <1>1. SenderPlace(k)'
    BY DEF SenderPlace, MessagePlace, WorkerPlace, AtStart, AtEnd, Leader, Type, Quiet, Started,
       Finished, Open, Handle, Ack, Error, NoMsg, BucketMsg
  <1>2. MessagePlace(k)'
    BY DEF SenderPlace, MessagePlace, MessageContent, WorkerPlace, AtStart, AtEnd, Type, Quiet,
       Started, Finished, Open, Handle, Ack, Error, NoMsg, BucketMsg
  <1>3. MessageContent(k)'
    BY DEF SenderPlace, MessageContent, WorkerPlace, Type, Quiet, Started, Finished, Open, Handle,
       Ack, Error, NoMsg, BucketMsg
  <1>4. WorkerPlace(k)'
    BY DEF SenderPlace, MessagePlace, MessageContent, WorkerPlace, AtStart, AtEnd, Type, Quiet,
       Started, Finished, Open, Handle, Ack, Error, NoMsg, BucketMsg
  <1>5. Stage(k)'
    BY DEF Stage, Weights, IsAdapter
  <1>6. Regions(k)'
    BY RegionsFrame
  <1>7. Reading(k)'
    BY DEF Reading, WorkerPlace, MessageContent, Stage, Regions, Sending, Type, Quiet, Started,
       Finished, Open, Handle, Ack, Error, NoMsg, BucketMsg
  <1>8. Whole(k)'
    <2>1. staged'[k] = Absent(setup.adapter) /\ base'[k] = base[k]
      OBVIOUS
    <2>2. lora'[k] = lora[k] \/ lora'[k] = Absent(setup.adapter)
      OBVIOUS
    <2>3. \A i \in DOMAIN setup.adapter : Absent(setup.adapter)[i] # Torn
      BY DEF Absent, Torn
    <2> QED BY <2>1, <2>2, <2>3 DEF Whole
  <1>9. Progress(k)'
    BY DEF Progress, Val, Holds, IsAdapter, SenderPlace, MessagePlace, MessageContent,
       WorkerPlace, Type, Quiet, Started, Finished, Open, Handle, Ack, Error, NoMsg, BucketMsg
  <1> QED BY <1>1, <1>2, <1>3, <1>4, <1>5, <1>6, <1>7, <1>8, <1>9

LEMMA MapBufferStep ==
    ASSUME IInv, NEW k \in Ranks, MapBuffer(k)
    PROVE  RankInv(k)'
  <1> USE SizesAssumption, SetupsAssumption DEF IInv, RankInv, MapBuffer, TypeOK, sender, worker
  <1>1. SenderPlace(k)'
    BY DEF SenderPlace, MessagePlace, WorkerPlace, AtStart, AtEnd, Leader, Type, Quiet, Started,
       Finished, Open, Handle, Ack, Error, NoMsg, BucketMsg
  <1>0. Type(k) = "handle"
    BY DEF Type, Handle
  <1>a. Type(k) = "handle" /\ spc[k] = "opening" /\ m[k] = n[k]
    BY <1>0 DEF MessagePlace, AtStart, Started, Finished
  <1>b. chan'[k].type = "ack" /\ rpc'[k] = "recv" /\ spc'[k] = "opening" /\ m'[k] = n'[k]
    BY <1>a DEF Ack
  <1>2. MessagePlace(k)'
    BY <1>b DEF MessagePlace, Type
  <1>3. MessageContent(k)'
    BY DEF SenderPlace, MessageContent, WorkerPlace, Type, Quiet, Started, Finished, Open, Handle,
       Ack, Error, NoMsg, BucketMsg
  <1>4. WorkerPlace(k)'
    BY <1>b DEF WorkerPlace, Open
  <1>5. Stage(k)'
    BY DEF Stage, Weights, IsAdapter
  <1>6. Regions(k)'
    BY RegionsFrame
  <1>7. Reading(k)'
    BY DEF Reading, WorkerPlace, MessageContent, Stage, Regions, Sending, Type, Quiet, Started,
       Finished, Open, Handle, Ack, Error, NoMsg, BucketMsg
  <1>8. Whole(k)'
    BY DEF Whole
  <1>c. pulled'[k] = 0
    BY <1>a DEF Stage
  <1>9. Progress(k)'
    BY <1>b, <1>c DEF Progress, Open
  <1> QED BY <1>1, <1>2, <1>3, <1>4, <1>5, <1>6, <1>7, <1>8, <1>9

LEMMA ReceiveStep ==
    ASSUME IInv, NEW k \in Ranks, Receive(k)
    PROVE  RankInv(k)'
  <1> USE SizesAssumption, SetupsAssumption DEF IInv, RankInv, Receive, TypeOK, sender, worker
  <1>1. SenderPlace(k)'
    BY DEF SenderPlace, MessagePlace, WorkerPlace, AtStart, AtEnd, Leader, Type, Quiet, Started,
       Finished, Open, Handle, Ack, Error, NoMsg, BucketMsg
  <1>2. MessagePlace(k)'
    BY DEF SenderPlace, MessagePlace, MessageContent, WorkerPlace, AtStart, AtEnd, Type, Quiet,
       Started, Finished, Open, Handle, Ack, Error, NoMsg, BucketMsg
  <1>3. MessageContent(k)'
    BY DEF SenderPlace, MessageContent, WorkerPlace, Type, Quiet, Started, Finished, Open, Handle,
       Ack, Error, NoMsg, BucketMsg
  <1>4. WorkerPlace(k)'
    BY DEF SenderPlace, MessagePlace, MessageContent, WorkerPlace, AtStart, AtEnd, Type, Quiet,
       Started, Finished, Open, Handle, Ack, Error, NoMsg, BucketMsg
  <1>5. Stage(k)'
    BY DEF Stage, Weights, IsAdapter
  <1>6. Regions(k)'
    BY RegionsFrame
  <1>a. /\ request'[k] = chan[k] /\ loading'[k] = chan[k].entries /\ rpc'[k] = "load"
        /\ UNCHANGED <<setup, n, spc, pulled, off, bucket, copying, buf>>
    OBVIOUS
  <1>b. Type(k) = "bucket"
    BY DEF Type
  <1>c. Stage(k) /\ Regions(k) /\ MessageContent(k) /\ pulled[k] \in Nat
    OBVIOUS
  <1> HIDE DEF IInv, TypeOK, Receive
  <1>7. Reading(k)'
    <2> SUFFICES ASSUME NEW e \in chan[k].entries
                 PROVE  /\ spc[k] \in Sending /\ e.w \in 1..pulled[k]
                        /\ chan[k].direct \/ (e \in bucket[k] /\ copying[k] = {})
      BY <1>a DEF Reading
    <2>1. CASE /\ spc[k] = "directing"
               /\ chan[k] = BucketMsg({[w |-> pulled[k], off |-> off[k]]}, TRUE, FALSE)
      BY <1>c, <2>1 DEF BucketMsg, Stage, Sending
    <2>2. CASE /\ spc[k] \in {"flushing", "closing"}
               /\ chan[k].entries = bucket[k]
      BY <1>c, <2>2 DEF Stage, Regions, Sending
    <2> QED BY <1>b, <1>c, <2>1, <2>2 DEF MessageContent, BucketMsg
  <1> USE DEF IInv, TypeOK, Receive
  <1>8. Whole(k)'
    BY DEF Whole
  <1>9. Progress(k)'
    BY DEF Progress, Val, Holds, IsAdapter, SenderPlace, MessagePlace, MessageContent,
       WorkerPlace, Type, Quiet, Started, Finished, Open, Handle, Ack, Error, NoMsg, BucketMsg
  <1> QED BY <1>1, <1>2, <1>3, <1>4, <1>5, <1>6, <1>7, <1>8, <1>9

LEMMA ReplyBucketStep ==
    ASSUME IInv, NEW k \in Ranks, ReplyBucket(k)
    PROVE  RankInv(k)'
  <1> USE SizesAssumption, SetupsAssumption DEF IInv, RankInv, ReplyBucket, Loaded, TypeOK,
     sender, worker
  <1>1. SenderPlace(k)'
    BY DEF SenderPlace, MessagePlace, WorkerPlace, AtStart, AtEnd, Leader, Type, Quiet, Started,
       Finished, Open, Handle, Ack, Error, NoMsg, BucketMsg
  <1>2. MessagePlace(k)'
    BY DEF SenderPlace, MessagePlace, MessageContent, WorkerPlace, AtStart, AtEnd, Type, Quiet,
       Started, Finished, Open, Handle, Ack, Error, NoMsg, BucketMsg
  <1>3. MessageContent(k)'
    BY DEF SenderPlace, MessageContent, WorkerPlace, Type, Quiet, Started, Finished, Open, Handle,
       Ack, Error, NoMsg, BucketMsg
  <1>4. WorkerPlace(k)'
    BY DEF SenderPlace, MessagePlace, MessageContent, WorkerPlace, AtStart, AtEnd, Type, Quiet,
       Started, Finished, Open, Handle, Ack, Error, NoMsg, BucketMsg
  <1>5. Stage(k)'
    BY DEF Stage, Weights, IsAdapter
  <1>6. Regions(k)'
    BY RegionsFrame
  <1>7. Reading(k)'
    BY DEF Reading, WorkerPlace, MessageContent, Stage, Regions, Sending, Type, Quiet, Started,
       Finished, Open, Handle, Ack, Error, NoMsg, BucketMsg
  <1>8. Whole(k)'
    BY DEF Whole
  <1>a. /\ rpc[k] = "load" /\ loading[k] = {} /\ ~request[k].last
        /\ Type(k) = "bucket" /\ request[k] = chan[k]
    BY DEF WorkerPlace
  <1>b. /\ chan'[k].type = "ack" /\ rpc'[k] = "recv"
        /\ UNCHANGED <<setup, n, spc, pulled, off, bucket, m, base, lora, staged>>
    BY DEF Ack
  <1>c. Progress(k) /\ MessageContent(k)
    OBVIOUS
  <1> HIDE DEF IInv, TypeOK, ReplyBucket, Loaded
  <1>d. \A i : Val(k, i)' = Val(k, i)
    BY <1>b DEF Val, IsAdapter
  <1>e. \A f \in request[k].entries : Val(k, f.w) = n[k]
    BY <1>a, <1>c DEF Progress
  <1>f. /\ spc[k] = "flushing" => \A f \in bucket[k] : Val(k, f.w) = n[k]
        /\ spc[k] = "directing" => Val(k, pulled[k]) = n[k]
    <2>1. CASE spc[k] = "flushing"
      <3>1. chan[k].entries = bucket[k]
        BY <1>a, <1>c, <2>1 DEF MessageContent, BucketMsg
      <3> QED BY <1>a, <1>e, <2>1, <3>1
    <2>2. CASE spc[k] = "directing"
      <3>1. chan[k].entries = {[w |-> pulled[k], off |-> off[k]]}
        BY <1>a, <1>c, <2>2 DEF MessageContent, BucketMsg
      <3> QED BY <1>a, <1>e, <2>2, <3>1
    <2> QED BY <2>1, <2>2
  <1>9. Progress(k)'
    BY <1>a, <1>b, <1>c, <1>d, <1>f DEF Progress, Open
  <1> USE DEF IInv
  <1> QED BY <1>1, <1>2, <1>3, <1>4, <1>5, <1>6, <1>7, <1>8, <1>9

LEMMA LastLoadedStep ==
    ASSUME IInv, NEW k \in Ranks, LastLoaded(k)
    PROVE  RankInv(k)'
  <1> USE SizesAssumption, SetupsAssumption DEF IInv, RankInv, LastLoaded, Loaded, TypeOK, sender,
     worker
  <1>1. SenderPlace(k)'
    BY DEF SenderPlace, MessagePlace, WorkerPlace, AtStart, AtEnd, Leader, Type, Quiet, Started,
       Finished, Open, Handle, Ack, Error, NoMsg, BucketMsg
  <1>2. MessagePlace(k)'
    BY DEF SenderPlace, MessagePlace, MessageContent, WorkerPlace, AtStart, AtEnd, Type, Quiet,
       Started, Finished, Open, Handle, Ack, Error, NoMsg, BucketMsg
  <1>3. MessageContent(k)'
    BY DEF SenderPlace, MessageContent, WorkerPlace, Type, Quiet, Started, Finished, Open, Handle,
       Ack, Error, NoMsg, BucketMsg
  <1>4. WorkerPlace(k)'
    BY DEF SenderPlace, MessagePlace, MessageContent, WorkerPlace, AtStart, AtEnd, Type, Quiet,
       Started, Finished, Open, Handle, Ack, Error, NoMsg, BucketMsg
  <1>5. Stage(k)'
    BY DEF Stage, Weights, IsAdapter
  <1>6. Regions(k)'
    BY RegionsFrame
  <1>7. Reading(k)'
    BY DEF Reading, WorkerPlace, MessageContent, Stage, Regions, Sending, Type, Quiet, Started,
       Finished, Open, Handle, Ack, Error, NoMsg, BucketMsg
  <1>8. Whole(k)'
    BY DEF Whole
  <1>a. /\ rpc[k] = "load" /\ loading[k] = {} /\ request[k].last
        /\ Type(k) = "bucket" /\ request[k] = chan[k] /\ m[k] = n[k]
    BY DEF WorkerPlace, Open
  <1>b. spc[k] = "closing" /\ request[k].entries = bucket[k]
    BY <1>a DEF MessageContent, BucketMsg
  <1>c. /\ rpc'[k] = "release" /\ lora'[k] = IF IsAdapter(m[k]) THEN staged[k] ELSE lora[k]
        /\ UNCHANGED <<setup, n, spc, pulled, bucket, chan, m, request, loading, base, staged>>
    OBVIOUS
  <1>d. pulled[k] = Len(Weights(n[k])) /\ Progress(k) /\ n[k] \in Nat
    BY <1>b DEF Stage
  <1>e. DOMAIN Weights(n[k]) = 1..pulled[k]
    BY <1>d, WeightFacts
  <1> HIDE DEF IInv, TypeOK, LastLoaded, Loaded
  <1>f. \A i : Val(k, i)' = Val(k, i)
    BY <1>c DEF Val, IsAdapter
  <1>g. \A f \in request[k].entries : Val(k, f.w) = n[k]
    BY <1>a, <1>d DEF Progress
  <1>h. \A i \in 1..pulled[k] : Val(k, i) = n[k]
    BY <1>a, <1>b, <1>d, <1>g DEF Progress, Open
  <1>i. Holds(k, m[k])'
    BY <1>a, <1>c, <1>e, <1>h DEF Holds, Val, IsAdapter, Weights
  <1>9. Progress(k)'
    BY <1>a, <1>b, <1>c, <1>f, <1>g, <1>h, <1>i DEF Progress
  <1> USE DEF IInv
  <1> QED BY <1>1, <1>2, <1>3, <1>4, <1>5, <1>6, <1>7, <1>8, <1>9

LEMMA ReleaseStep ==
    ASSUME IInv, NEW k \in Ranks, Release(k)
    PROVE  RankInv(k)'
  <1> USE SizesAssumption, SetupsAssumption DEF IInv, RankInv, Release, TypeOK, sender, worker
  <1>1. SenderPlace(k)'
    BY DEF SenderPlace, MessagePlace, WorkerPlace, AtStart, AtEnd, Leader, Type, Quiet, Started,
       Finished, Open, Handle, Ack, Error, NoMsg, BucketMsg
  <1>a. Type(k) = "bucket" /\ request[k] = chan[k] /\ request[k].last /\ m[k] = n[k]
    BY DEF WorkerPlace, Open
  <1>b. spc[k] = "closing"
    BY <1>a DEF MessageContent, BucketMsg
  <1>c. chan'[k].type = "ack" /\ rpc'[k] = "post" /\ spc'[k] = "closing" /\ m'[k] = n'[k]
    BY <1>a, <1>b DEF Ack
  <1>2. MessagePlace(k)'
    BY <1>c DEF MessagePlace, Type, AtEnd, Finished
  <1>3. MessageContent(k)'
    BY DEF SenderPlace, MessageContent, WorkerPlace, Type, Quiet, Started, Finished, Open, Handle,
       Ack, Error, NoMsg, BucketMsg
  <1>4. WorkerPlace(k)'
    BY DEF SenderPlace, MessagePlace, MessageContent, WorkerPlace, AtStart, AtEnd, Type, Quiet,
       Started, Finished, Open, Handle, Ack, Error, NoMsg, BucketMsg
  <1>5. Stage(k)'
    BY DEF Stage, Weights, IsAdapter
  <1>6. Regions(k)'
    BY RegionsFrame
  <1>7. Reading(k)'
    BY DEF Reading, WorkerPlace, MessageContent, Stage, Regions, Sending, Type, Quiet, Started,
       Finished, Open, Handle, Ack, Error, NoMsg, BucketMsg
  <1>8. Whole(k)'
    BY DEF Whole
  <1>9. Progress(k)'
    BY DEF Progress, Val, Holds, IsAdapter, SenderPlace, MessagePlace, MessageContent,
       WorkerPlace, Type, Quiet, Started, Finished, Open, Handle, Ack, Error, NoMsg, BucketMsg
  <1> QED BY <1>1, <1>2, <1>3, <1>4, <1>5, <1>6, <1>7, <1>8, <1>9

LEMMA PostProcessStep ==
    ASSUME IInv, NEW k \in Ranks, PostProcess(k)
    PROVE  RankInv(k)'
  <1> USE SizesAssumption, SetupsAssumption DEF IInv, RankInv, PostProcess, TypeOK, sender, worker
  <1>1. SenderPlace(k)'
    BY DEF SenderPlace, MessagePlace, WorkerPlace, AtStart, AtEnd, Leader, Type, Quiet, Started,
       Finished, Open, Handle, Ack, Error, NoMsg, BucketMsg
  <1>2. MessagePlace(k)'
    BY DEF SenderPlace, MessagePlace, MessageContent, WorkerPlace, AtStart, AtEnd, Type, Quiet,
       Started, Finished, Open, Handle, Ack, Error, NoMsg, BucketMsg
  <1>3. MessageContent(k)'
    BY DEF SenderPlace, MessageContent, WorkerPlace, Type, Quiet, Started, Finished, Open, Handle,
       Ack, Error, NoMsg, BucketMsg
  <1>4. WorkerPlace(k)'
    BY DEF SenderPlace, MessagePlace, MessageContent, WorkerPlace, AtStart, AtEnd, Type, Quiet,
       Started, Finished, Open, Handle, Ack, Error, NoMsg, BucketMsg
  <1>5. Stage(k)'
    BY DEF Stage, Weights, IsAdapter
  <1>6. Regions(k)'
    BY RegionsFrame
  <1>7. Reading(k)'
    BY DEF Reading, WorkerPlace, MessageContent, Stage, Regions, Sending, Type, Quiet, Started,
       Finished, Open, Handle, Ack, Error, NoMsg, BucketMsg
  <1>8. Whole(k)'
    BY DEF Whole
  <1>9. Progress(k)'
    BY DEF Progress, Val, Holds, IsAdapter, SenderPlace, MessagePlace, MessageContent,
       WorkerPlace, Type, Quiet, Started, Finished, Open, Handle, Ack, Error, NoMsg, BucketMsg
  <1> QED BY <1>1, <1>2, <1>3, <1>4, <1>5, <1>6, <1>7, <1>8, <1>9

\* A load finds its weight.
LEMMA ContentIntact ==
    ASSUME IInv, NEW k \in Ranks, NEW e \in loading[k]
    PROVE  /\ Content(k, e) = n[k] /\ m[k] = n[k] /\ n[k] \in Nat
           /\ e.w \in DOMAIN Weights(n[k])
  <1>1. /\ rpc[k] \in {"load", "cleanup"} /\ e.w \in 1..pulled[k]
        /\ request[k].direct \/ (e \in bucket[k] /\ copying[k] = {})
    BY DEF IInv, RankInv, Reading
  <1>2. m[k] = n[k]
    BY <1>1 DEF IInv, RankInv, WorkerPlace, Open
  <1>3. n[k] \in Nat /\ pulled[k] \in Nat /\ pulled[k] <= Len(Weights(n[k]))
    BY SizesAssumption DEF IInv, TypeOK
  <1>4. e.w \in DOMAIN Weights(n[k])
    <2>1. DOMAIN Weights(n[k]) = 1..Len(Weights(n[k])) /\ Len(Weights(n[k])) \in Nat
      BY <1>3, WeightFacts DEF IInv
    <2> QED BY <1>1, <1>3, <2>1
  <1>5. Content(k, e) = n[k]
    <2>1. CASE request[k].direct
      BY <2>1 DEF Content
    <2>2. CASE e \in bucket[k] /\ copying[k] = {}
      BY <2>2 DEF Content, IInv, RankInv, Regions
    <2> QED BY <1>1, <2>1, <2>2
  <1> QED BY <1>2, <1>3, <1>4, <1>5

LEMMA LoadLandsStep ==
    ASSUME IInv, NEW k \in Ranks, NEW e \in loading[k], LoadLands(k, e)
    PROVE  RankInv(k)'
  <1> USE SizesAssumption, SetupsAssumption DEF IInv, RankInv, LoadLands, TypeOK, sender, worker
  <1>1. SenderPlace(k)'
    BY DEF SenderPlace, MessagePlace, WorkerPlace, AtStart, AtEnd, Leader, Type, Quiet, Started,
       Finished, Open, Handle, Ack, Error, NoMsg, BucketMsg
  <1>2. MessagePlace(k)'
    BY DEF SenderPlace, MessagePlace, MessageContent, WorkerPlace, AtStart, AtEnd, Type, Quiet,
       Started, Finished, Open, Handle, Ack, Error, NoMsg, BucketMsg
  <1>3. MessageContent(k)'
    BY DEF SenderPlace, MessageContent, WorkerPlace, Type, Quiet, Started, Finished, Open, Handle,
       Ack, Error, NoMsg, BucketMsg
  <1>4. WorkerPlace(k)'
    BY DEF SenderPlace, MessagePlace, MessageContent, WorkerPlace, AtStart, AtEnd, Type, Quiet,
       Started, Finished, Open, Handle, Ack, Error, NoMsg, BucketMsg
  <1>5. Stage(k)'
    BY DEF Stage, Weights, IsAdapter
  <1>6. Regions(k)'
    BY RegionsFrame
  <1>7. Reading(k)'
    BY DEF Reading, WorkerPlace, MessageContent, Stage, Regions, Sending, Type, Quiet, Started,
       Finished, Open, Handle, Ack, Error, NoMsg, BucketMsg
  <1>a. /\ Content(k, e) = n[k] /\ m[k] = n[k] /\ n[k] \in Nat
        /\ e.w \in DOMAIN Weights(n[k])
    BY ContentIntact
  <1>b. \/ /\ IsAdapter(m[k]) /\ base'[k] = base[k] /\ e.w \in DOMAIN setup.adapter
           /\ \A i \in DOMAIN setup.adapter :
                staged'[k][i] = IF i = e.w THEN n[k] ELSE staged[k][i]
        \/ /\ ~IsAdapter(m[k]) /\ staged'[k] = staged[k] /\ e.w \in DOMAIN setup.base
           /\ \A i \in DOMAIN setup.base : base'[k][i] = IF i = e.w THEN n[k] ELSE base[k][i]
    BY <1>a DEF Weights
  <1>c. /\ loading'[k] = loading[k] \ {e}
        /\ UNCHANGED <<setup, n, spc, pulled, bucket, chan, m, rpc, request, lora>>
    OBVIOUS
  <1>d. n[k] # Torn
    BY <1>a DEF Torn
  <1>e. Whole(k) /\ Progress(k) /\ Reading(k)
    OBVIOUS
  <1> HIDE DEF IInv, TypeOK, LoadLands
  <1>8. Whole(k)'
    BY <1>b, <1>c, <1>d, <1>e DEF Whole
  <1>f. rpc[k] \in {"load", "cleanup"}
    BY <1>e DEF Reading
  <1>g. \A i \in DOMAIN Weights(n[k]) : Val(k, i)' = IF i = e.w THEN n[k] ELSE Val(k, i)
    BY <1>a, <1>b, <1>c DEF Val, IsAdapter, Weights
  <1>h. \A i \in 1..pulled[k] : i \in DOMAIN Weights(n[k])
    <2>1. pulled[k] \in Nat /\ pulled[k] <= Len(Weights(n[k]))
      BY DEF IInv, TypeOK
    <2>2. DOMAIN Weights(n[k]) = 1..Len(Weights(n[k])) /\ Len(Weights(n[k])) \in Nat
      BY <1>a, WeightFacts DEF IInv
    <2> QED BY <2>1, <2>2
  <1>i. rpc[k] = "load" => \A f \in request[k].entries : f.w \in 1..pulled[k]
    <2> HAVE rpc[k] = "load"
    <2>1. Type(k) = "bucket" /\ request[k] = chan[k]
      BY DEF IInv, RankInv, WorkerPlace
    <2>2. CASE chan[k].entries = bucket[k]
      BY <2>1, <2>2 DEF IInv, RankInv, Regions
    <2>3. CASE spc[k] = "directing" /\ chan[k].entries = {[w |-> pulled[k], off |-> off[k]]}
      <3>1. pulled[k] > 0 /\ pulled[k] \in Nat
        BY <2>3 DEF IInv, RankInv, Stage, TypeOK
      <3> QED BY <2>1, <2>3, <3>1
    <2>4. MessageContent(k)
      BY DEF IInv, RankInv
    <2> QED BY <2>1, <2>2, <2>3, <2>4 DEF MessageContent, BucketMsg
  <1>j. rpc[k] = "load" => \A f \in request[k].entries : f \in loading'[k] \/ Val(k, f.w)' = n[k]
    BY <1>c, <1>e, <1>g, <1>h, <1>i DEF Progress
  <1>k. rpc[k] = "load" /\ spc[k] # "raised" => \A i \in 1..pulled[k] :
            \/ Val(k, i)' = n[k]
            \/ \E f \in bucket[k] : f.w = i
            \/ spc[k] \in {"place", "flushing", "directing"} /\ i = pulled[k]
    BY <1>e, <1>g, <1>h DEF Progress, Open
  <1>9. Progress(k)'
    BY <1>c, <1>f, <1>j, <1>k DEF Progress, Open
  <1> USE DEF IInv
  <1> QED BY <1>1, <1>2, <1>3, <1>4, <1>5, <1>6, <1>7, <1>8, <1>9

LEMMA WorkerFailsStep ==
    ASSUME IInv, NEW k \in Ranks, WorkerFails(k)
    PROVE  RankInv(k)'
  <1> USE SizesAssumption, SetupsAssumption DEF IInv, RankInv, WorkerFails, TypeOK, sender, worker
  <1>a. m[k] = n[k] /\ spc[k] \notin Quiet
    <2>1. CASE rpc[k] = "opening" /\ chan[k] = Handle
      <3>1. Type(k) = "handle"
        BY <2>1 DEF Type, Handle
      <3> QED BY <2>1, <3>1 DEF MessagePlace, AtStart, Started, Finished, Quiet
    <2>2. CASE rpc[k] = "load"
      BY <2>2 DEF WorkerPlace, SenderPlace, Open
    <2> QED BY <2>1, <2>2
  <1>b. chan'[k].type = "error" /\ rpc'[k] = "cleanup" /\ spc'[k] = spc[k] /\ m'[k] = n'[k]
    BY <1>a DEF Error
  <1>1. SenderPlace(k)'
    BY <1>a, <1>b DEF SenderPlace, Type, Quiet
  <1>2. MessagePlace(k)'
    BY <1>b DEF MessagePlace, Type
  <1>3. MessageContent(k)'
    BY DEF SenderPlace, MessageContent, WorkerPlace, Type, Quiet, Started, Finished, Open, Handle,
       Ack, Error, NoMsg, BucketMsg
  <1>4. WorkerPlace(k)'
    BY <1>a, <1>b DEF WorkerPlace, Quiet, Open
  <1>5. Stage(k)'
    BY DEF Stage, Weights, IsAdapter
  <1>6. Regions(k)'
    BY RegionsFrame
  <1>7. Reading(k)'
    BY DEF Reading, WorkerPlace, MessageContent, Stage, Regions, Sending, Type, Quiet, Started,
       Finished, Open, Handle, Ack, Error, NoMsg, BucketMsg
  <1>8. Whole(k)'
    BY DEF Whole
  <1>9. Progress(k)'
    BY DEF Progress, Val, Holds, IsAdapter, SenderPlace, MessagePlace, MessageContent,
       WorkerPlace, Type, Quiet, Started, Finished, Open, Handle, Ack, Error, NoMsg, BucketMsg
  <1> QED BY <1>1, <1>2, <1>3, <1>4, <1>5, <1>6, <1>7, <1>8, <1>9

LEMMA CleanUpStep ==
    ASSUME IInv, NEW k \in Ranks, CleanUp(k)
    PROVE  RankInv(k)'
  <1> USE SizesAssumption, SetupsAssumption DEF IInv, RankInv, CleanUp, TypeOK, sender, worker
  <1>1. SenderPlace(k)'
    BY DEF SenderPlace, MessagePlace, WorkerPlace, AtStart, AtEnd, Leader, Type, Quiet, Started,
       Finished, Open, Handle, Ack, Error, NoMsg, BucketMsg
  <1>2. MessagePlace(k)'
    BY DEF SenderPlace, MessagePlace, MessageContent, WorkerPlace, AtStart, AtEnd, Type, Quiet,
       Started, Finished, Open, Handle, Ack, Error, NoMsg, BucketMsg
  <1>3. MessageContent(k)'
    BY DEF SenderPlace, MessageContent, WorkerPlace, Type, Quiet, Started, Finished, Open, Handle,
       Ack, Error, NoMsg, BucketMsg
  <1>4. WorkerPlace(k)'
    BY DEF SenderPlace, MessagePlace, MessageContent, WorkerPlace, AtStart, AtEnd, Type, Quiet,
       Started, Finished, Open, Handle, Ack, Error, NoMsg, BucketMsg
  <1>5. Stage(k)'
    BY DEF Stage, Weights, IsAdapter
  <1>6. Regions(k)'
    BY RegionsFrame
  <1>7. Reading(k)'
    BY DEF Reading, WorkerPlace, MessageContent, Stage, Regions, Sending, Type, Quiet, Started,
       Finished, Open, Handle, Ack, Error, NoMsg, BucketMsg
  <1>8. Whole(k)'
    BY DEF Whole
  <1>9. Progress(k)'
    BY DEF Progress, Val, Holds, IsAdapter, SenderPlace, MessagePlace, MessageContent,
       WorkerPlace, Type, Quiet, Started, Finished, Open, Handle, Ack, Error, NoMsg, BucketMsg
  <1> QED BY <1>1, <1>2, <1>3, <1>4, <1>5, <1>6, <1>7, <1>8, <1>9

LEMMA WorkerFailsMuteStep ==
    ASSUME IInv, NEW k \in Ranks, WorkerFailsMute(k)
    PROVE  RankInv(k)'
  <1> USE SizesAssumption, SetupsAssumption DEF IInv, RankInv, WorkerFailsMute, TypeOK, sender,
     worker
  <1>1. SenderPlace(k)'
    BY DEF SenderPlace, MessagePlace, WorkerPlace, AtStart, AtEnd, Leader, Type, Quiet, Started,
       Finished, Open, Handle, Ack, Error, NoMsg, BucketMsg
  <1>2. MessagePlace(k)'
    BY DEF SenderPlace, MessagePlace, MessageContent, WorkerPlace, AtStart, AtEnd, Type, Quiet,
       Started, Finished, Open, Handle, Ack, Error, NoMsg, BucketMsg
  <1>3. MessageContent(k)'
    BY DEF SenderPlace, MessageContent, WorkerPlace, Type, Quiet, Started, Finished, Open, Handle,
       Ack, Error, NoMsg, BucketMsg
  <1>4. WorkerPlace(k)'
    BY DEF SenderPlace, MessagePlace, MessageContent, WorkerPlace, AtStart, AtEnd, Type, Quiet,
       Started, Finished, Open, Handle, Ack, Error, NoMsg, BucketMsg
  <1>5. Stage(k)'
    BY DEF Stage, Weights, IsAdapter
  <1>6. Regions(k)'
    BY RegionsFrame
  <1>7. Reading(k)'
    BY DEF Reading, WorkerPlace, MessageContent, Stage, Regions, Sending, Type, Quiet, Started,
       Finished, Open, Handle, Ack, Error, NoMsg, BucketMsg
  <1>8. Whole(k)'
    BY DEF Whole
  <1>9. Progress(k)'
    BY DEF Progress, Val, Holds, IsAdapter, SenderPlace, MessagePlace, MessageContent,
       WorkerPlace, Type, Quiet, Started, Finished, Open, Handle, Ack, Error, NoMsg, BucketMsg
  <1> QED BY <1>1, <1>2, <1>3, <1>4, <1>5, <1>6, <1>7, <1>8, <1>9

-----------------------------------------------------------------------------
(* The start of a transfer, for the rank that enters and for its replica.  *)

LEMMA EnterOwn ==
    ASSUME IInv, NEW k \in Ranks, Enter(k)
    PROVE  RankInv(k)'
  <1>a. /\ spc[k] = "done" /\ RankInv(k) /\ n[k] \in Nat /\ m[k] \in Nat
        /\ AtEnd(k) /\ Type(k) = "none"
    BY SizesAssumption DEF IInv, TypeOK, Enter, RankInv, SenderPlace, Quiet
  <1>b. /\ n'[k] = n[k] + 1 /\ spc'[k] = "open" /\ pulled'[k] = 0 /\ off'[k] = 0
        /\ bucket'[k] = {} /\ copying'[k] = {}
    BY DEF IInv, TypeOK, Enter, Start
  <1>c. UNCHANGED <<setup, chan, request, loading, base, lora, staged, maps>>
    BY DEF Enter
  <1>d. \/ m'[k] = n'[k] /\ rpc'[k] = "prepare"
        \/ m'[k] = m[k] /\ rpc'[k] = rpc[k]
    BY <1>b DEF Enter, Replica
  <1>e. loading[k] = {} /\ ~maps[k] /\ rpc[k] \in Started \cup Finished
    BY <1>a DEF RankInv, Reading, WorkerPlace, AtEnd, Started, Finished, Open, Sending
  <1>f. AtStart(k)'
    BY <1>a, <1>b, <1>d DEF AtEnd, AtStart, Started
  <1>g. rpc'[k] \in Started \cup Finished
    BY <1>d, <1>e DEF Started
  <1>1. SenderPlace(k)'
    BY <1>a, <1>b, <1>c, <1>f DEF SenderPlace, Type, Quiet
  <1>2. MessagePlace(k)' /\ MessageContent(k)'
    BY <1>a, <1>c DEF MessagePlace, MessageContent, Type
  <1>3. WorkerPlace(k)'
    BY <1>c, <1>e, <1>g DEF WorkerPlace, Started, Finished, Open
  <1>4. Stage(k)' /\ Regions(k)'
    BY <1>b DEF Stage, Regions
  <1>5. Reading(k)' /\ Whole(k)'
    BY <1>a, <1>c, <1>e DEF Reading, Whole, RankInv
  <1>6. Progress(k)'
    <2>1. rpc'[k] \in {"post", "returned"} => Holds(k, m[k])'
      BY <1>a, <1>c, <1>d DEF RankInv, Progress, Holds, IsAdapter
    <2> QED BY <1>a, <1>c, <1>g, <2>1 DEF Progress, Type, Started, Finished, Open
  <1> QED BY <1>1, <1>2, <1>3, <1>4, <1>5, <1>6 DEF RankInv

LEMMA EnterReplica ==
    ASSUME IInv, NEW k \in Ranks, Enter(k), Leader(k) = k,
           NEW j \in Replica(k), j # k
    PROVE  RankInv(j)'
  <1>a. /\ j \in Ranks /\ Leader(j) = k /\ RankInv(j) /\ rpc[j] = "returned" /\ m[j] = n[k]
        /\ n[j] \in Nat /\ m[j] \in Nat
    BY SizesAssumption DEF IInv, TypeOK, Link, Replica, Enter
  <1>b. m'[j] = m[j] + 1 /\ rpc'[j] = "prepare"
    BY <1>a DEF Enter
  <1>c. /\ n'[j] = n[j] /\ spc'[j] = spc[j] /\ pulled'[j] = pulled[j] /\ off'[j] = off[j]
        /\ bucket'[j] = bucket[j] /\ copying'[j] = copying[j] /\ buf'[j] = buf[j]
    BY <1>a DEF Enter, Start, IInv, TypeOK
  <1>d. UNCHANGED <<setup, chan, request, loading, base, lora, staged, maps>>
    BY DEF Enter
  <1>e. loading[j] = {} /\ ~maps[j]
    BY <1>a DEF RankInv, Reading, WorkerPlace, Open
  <1>t. Type(j) \in {"none", "handle", "ack", "error", "bucket"}
    BY <1>a DEF IInv, TypeOK, Messages, Type, NoMsg, Handle, Ack, Error
  <1>f. \/ Type(j) = "handle" /\ spc[j] = "opening" /\ m[j] = n[j] - 1
        \/ Type(j) = "ack" /\ spc[j] = "closing" /\ m[j] = n[j]
        \/ Type(j) = "none" /\ spc[j] = "open" /\ m[j] = n[j] - 1
        \/ Type(j) = "none" /\ spc[j] = "done" /\ m[j] = n[j]
        \/ Type(j) = "none" /\ spc[j] = "raised" /\ m[j] = n[j] - 1
    <2>1. spc[j] \in Quiet => spc[j] \in {"open", "done", "raised"}
      BY <1>a DEF RankInv, SenderPlace, Quiet
    <2>2. CASE Type(j) = "none"
      BY <1>a, <2>1, <2>2 DEF RankInv, SenderPlace, AtStart, AtEnd, Started
    <2>3. CASE Type(j) = "handle"
      BY <1>a, <2>3 DEF RankInv, MessagePlace, AtStart, Started
    <2>4. CASE Type(j) = "ack"
      BY <1>a, <2>4 DEF RankInv, MessagePlace, AtEnd, Started
    <2>5. CASE Type(j) = "error" \/ Type(j) = "bucket"
      BY <1>a, <2>5 DEF RankInv, MessagePlace, Open
    <2> QED BY <1>t, <2>2, <2>3, <2>4, <2>5
  <1>1. SenderPlace(j)'
    BY <1>a, <1>b, <1>c, <1>d, <1>f DEF SenderPlace, Type, Quiet, AtStart, AtEnd, Started
  <1>2. MessagePlace(j)'
    BY <1>a, <1>b, <1>c, <1>d, <1>f DEF MessagePlace, Type, AtStart, AtEnd, Started
  <1>3. MessageContent(j)'
    BY <1>d, <1>f DEF MessageContent, Type
  <1>4. WorkerPlace(j)'
    BY <1>b, <1>d, <1>e DEF WorkerPlace, Open
  <1>5. Stage(j)'
    BY <1>a, <1>c, <1>d DEF RankInv, Stage, Weights, IsAdapter
  <1>6. Regions(j)'
    <2>1. pulled[j] \in Nat /\ Regions(j)
      BY <1>a DEF IInv, TypeOK, RankInv
    <2> QED BY <1>c, <1>d, <2>1, RegionsFrame
  <1>7. Reading(j)' /\ Whole(j)'
    BY <1>a, <1>d, <1>e DEF RankInv, Reading, Whole
  <1>8. Progress(j)'
    BY <1>b DEF Progress, Open
  <1> QED BY <1>1, <1>2, <1>3, <1>4, <1>5, <1>6, <1>7, <1>8 DEF RankInv

\* The ranks outside the replica, and all others when the rank has no server.
LEMMA EnterOther ==
    ASSUME IInv, NEW k \in Ranks, Enter(k), NEW j \in Ranks, j # k,
           Leader(k) = k => j \notin Replica(k)
    PROVE  RankInv(j)'
  <1>1. m'[j] = m[j] /\ rpc'[j] = rpc[j]
    BY DEF Enter
  <1>2. /\ n'[j] = n[j] /\ spc'[j] = spc[j] /\ pulled'[j] = pulled[j] /\ off'[j] = off[j]
        /\ bucket'[j] = bucket[j] /\ copying'[j] = copying[j] /\ buf'[j] = buf[j]
    BY DEF Enter, Start, IInv, TypeOK
  <1>3. UNCHANGED <<setup, chan, request, loading, base, lora, staged, maps>>
    BY DEF Enter
  <1> QED BY <1>1, <1>2, <1>3, Frame DEF IInv

-----------------------------------------------------------------------------
(* The workers and the rank that started them.                             *)

LEMMA LinkStep == IInv /\ [Next]_vars => Link'
  <1> SUFFICES ASSUME IInv, [Next]_vars PROVE Link'
    OBVIOUS
  <1>a. \A j \in Ranks : Leader(j) \in Ranks /\ Leader(Leader(j)) = Leader(j)
    BY LeaderFacts DEF IInv
  <1>b. /\ n \in [Ranks -> 0..MaxTransfers] /\ Link
        /\ DOMAIN spc = Ranks /\ DOMAIN rpc = Ranks /\ DOMAIN n = Ranks
    BY DEF IInv, TypeOK
  <1>c. setup' = setup => \A j : Leader(j)' = Leader(j)
    BY DEF Leader
  <1> USE DEF Link
  <1>1. ASSUME NEW k \in Ranks, Enter(k) PROVE Link'
    <2>a. /\ n' = [n EXCEPT ![k] = n[k] + 1] /\ spc' = [spc EXCEPT ![k] = "open"] /\ setup' = setup
      BY <1>1 DEF Enter, Start
    <2>1. CASE Leader(k) = k
      <3>1. /\ m' = [j \in Ranks |-> IF j \in Replica(k) THEN n[k] + 1 ELSE m[j]]
            /\ rpc' = [j \in Ranks |-> IF j \in Replica(k) THEN "prepare" ELSE rpc[j]]
        BY <1>1, <2>1 DEF Enter
      <3>2. \A j \in Ranks : j \in Replica(k) <=> Leader(j) = k
        BY <2>1 DEF Replica
      <3> QED BY <1>a, <1>b, <1>c, <2>a, <3>1, <3>2
    <2>2. CASE Leader(k) # k
      <3>1. UNCHANGED <<m, rpc>>
        BY <1>1, <2>2 DEF Enter
      <3>2. \A j \in Ranks : Leader(j) # k
        BY <1>a, <2>2
      <3> QED BY <1>a, <1>b, <1>c, <2>a, <3>1, <3>2
    <2> QED BY <2>1, <2>2
  <1>2. ASSUME UNCHANGED <<setup, n, m, rpc>>, NEW k \in Ranks, NEW x, x # "done",
               spc' = [spc EXCEPT ![k] = x]
        PROVE  Link'
    BY <1>a, <1>b, <1>c, <1>2
  <1>3. ASSUME UNCHANGED <<setup, n, m, spc>>, NEW k \in Ranks, NEW x, rpc[k] # "returned",
               rpc' = [rpc EXCEPT ![k] = x]
        PROVE  Link'
    BY <1>a, <1>b, <1>c, <1>3
  <1>4. ASSUME UNCHANGED <<setup, n, m, spc, rpc>> PROVE Link'
    BY <1>a, <1>b, <1>c, <1>4
  <1>5. ASSUME NEW k \in Ranks, ReceiveAck(k) PROVE Link'
    <2>1. CASE spc[k] = "closing" /\ Leader(k) # k
      <3>1. \A j \in Ranks : Leader(j) # k
        BY <1>a, <2>1
      <3>2. UNCHANGED <<setup, n, m, rpc>> /\ spc' = [spc EXCEPT ![k] = "done"]
        BY <1>5, <2>1 DEF ReceiveAck, worker
      <3> QED BY <1>a, <1>b, <1>c, <3>1, <3>2
    <2>2. CASE ~(spc[k] = "closing" /\ Leader(k) # k)
      <3>1. \E x \in {"pull", "place", "future"} : spc' = [spc EXCEPT ![k] = x]
        BY <1>5, <2>2 DEF ReceiveAck
      <3>2. UNCHANGED <<setup, n, m, rpc>>
        BY <1>5 DEF ReceiveAck, worker
      <3> QED BY <1>2, <3>1, <3>2
    <2> QED BY <2>1, <2>2
  <1>6. ASSUME NEW k \in Ranks, AwaitFuture(k) PROVE Link'
    <2>a. UNCHANGED <<setup, n, m, rpc>>
      BY <1>6 DEF AwaitFuture, worker
    <2>1. CASE spc' = [spc EXCEPT ![k] = "raised"]
      BY <1>2, <2>1, <2>a
    <2>2. CASE spc' = [spc EXCEPT ![k] = "done"] /\ \A j \in Replica(k) : rpc[j] = "returned"
      <3>1. \A j \in Ranks : Leader(j) = k => j \in Replica(k)
        BY <1>a DEF Replica
      <3> QED BY <1>a, <1>b, <1>c, <2>2, <2>a, <3>1
    <2> QED BY <1>6, <2>1, <2>2 DEF AwaitFuture
  <1>7. ASSUME NEW k \in Ranks, OpenBuffer(k) PROVE Link'
    <2>1. UNCHANGED <<setup, n, m, rpc>> /\ spc' = [spc EXCEPT ![k] = "opening"]
      BY <1>7 DEF OpenBuffer, Send, worker
    <2> QED BY <1>2, <2>1
  <1>8. ASSUME NEW k \in Ranks, ReceiveError(k) PROVE Link'
    <2>1. UNCHANGED <<setup, n, m, rpc>> /\ spc' = [spc EXCEPT ![k] = "raised"]
      BY <1>8 DEF ReceiveError, worker
    <2> QED BY <1>2, <2>1
  <1>9. ASSUME NEW k \in Ranks, Pull(k) PROVE Link'
    <2>1. UNCHANGED <<setup, n, m, rpc>> /\ spc' = [spc EXCEPT ![k] = "place"]
      BY <1>9 DEF Pull, worker
    <2> QED BY <1>2, <2>1
  <1>10. ASSUME NEW k \in Ranks, Flush(k) PROVE Link'
    <2>1. UNCHANGED <<setup, n, m, rpc>> /\ spc' = [spc EXCEPT ![k] = "flushing"]
      BY <1>10 DEF Flush, Send, worker
    <2> QED BY <1>2, <2>1
  <1>11. ASSUME NEW k \in Ranks, DirectSend(k) PROVE Link'
    <2>1. UNCHANGED <<setup, n, m, rpc>> /\ spc' = [spc EXCEPT ![k] = "directing"]
      BY <1>11 DEF DirectSend, Send, worker
    <2> QED BY <1>2, <2>1
  <1>12. ASSUME NEW k \in Ranks, TooLarge(k) PROVE Link'
    <2>1. UNCHANGED <<setup, n, m, rpc>> /\ spc' = [spc EXCEPT ![k] = "raised"]
      BY <1>12 DEF TooLarge, worker
    <2> QED BY <1>2, <2>1
  <1>13. ASSUME NEW k \in Ranks, Place(k) PROVE Link'
    <2>1. UNCHANGED <<setup, n, m, rpc>> /\ spc' = [spc EXCEPT ![k] = "pull"]
      BY <1>13 DEF Place, worker
    <2> QED BY <1>2, <2>1
  <1>14. ASSUME NEW k \in Ranks, SendLast(k) PROVE Link'
    <2>1. UNCHANGED <<setup, n, m, rpc>> /\ spc' = [spc EXCEPT ![k] = "closing"]
      BY <1>14 DEF SendLast, Send, worker
    <2> QED BY <1>2, <2>1
  <1>15. ASSUME NEW k \in Ranks, \E e \in copying[k] : CopyLands(k, e) PROVE Link'
    BY <1>4, <1>15 DEF CopyLands, sender, worker
  <1>16. ASSUME NEW k \in Ranks, SenderFails(k) PROVE Link'
    <2>1. UNCHANGED <<setup, n, m, rpc>> /\ spc' = [spc EXCEPT ![k] = "raised"]
      BY <1>16 DEF SenderFails, worker
    <2> QED BY <1>2, <2>1
  <1>17. ASSUME NEW k \in Ranks, Prepare(k) PROVE Link'
    <2>1. /\ UNCHANGED <<setup, n, m, spc>> /\ rpc' = [rpc EXCEPT ![k] = "opening"]
          /\ rpc[k] # "returned"
      BY <1>17 DEF Prepare, sender
    <2> QED BY <1>3, <2>1
  <1>18. ASSUME NEW k \in Ranks, MapBuffer(k) PROVE Link'
    <2>1. /\ UNCHANGED <<setup, n, m, spc>> /\ rpc' = [rpc EXCEPT ![k] = "recv"]
          /\ rpc[k] # "returned"
      BY <1>18 DEF MapBuffer, sender
    <2> QED BY <1>3, <2>1
  <1>19. ASSUME NEW k \in Ranks, Receive(k) PROVE Link'
    <2>1. /\ UNCHANGED <<setup, n, m, spc>> /\ rpc' = [rpc EXCEPT ![k] = "load"]
          /\ rpc[k] # "returned"
      BY <1>19 DEF Receive, sender
    <2> QED BY <1>3, <2>1
  <1>20. ASSUME NEW k \in Ranks, ReplyBucket(k) PROVE Link'
    <2>1. /\ UNCHANGED <<setup, n, m, spc>> /\ rpc' = [rpc EXCEPT ![k] = "recv"]
          /\ rpc[k] # "returned"
      BY <1>20 DEF ReplyBucket, Loaded, sender
    <2> QED BY <1>3, <2>1
  <1>21. ASSUME NEW k \in Ranks, LastLoaded(k) PROVE Link'
    <2>1. /\ UNCHANGED <<setup, n, m, spc>> /\ rpc' = [rpc EXCEPT ![k] = "release"]
          /\ rpc[k] # "returned"
      BY <1>21 DEF LastLoaded, Loaded, sender
    <2> QED BY <1>3, <2>1
  <1>22. ASSUME NEW k \in Ranks, Release(k) PROVE Link'
    <2>1. /\ UNCHANGED <<setup, n, m, spc>> /\ rpc' = [rpc EXCEPT ![k] = "post"]
          /\ rpc[k] # "returned"
      BY <1>22 DEF Release, sender
    <2> QED BY <1>3, <2>1
  <1>23. ASSUME NEW k \in Ranks, PostProcess(k) PROVE Link'
    <2>1. /\ UNCHANGED <<setup, n, m, spc>> /\ rpc' = [rpc EXCEPT ![k] = "returned"]
          /\ rpc[k] # "returned"
      BY <1>23 DEF PostProcess, sender
    <2> QED BY <1>3, <2>1
  <1>24. ASSUME NEW k \in Ranks, \E e \in loading[k] : LoadLands(k, e) PROVE Link'
    BY <1>4, <1>24 DEF LoadLands, sender, worker
  <1>25. ASSUME NEW k \in Ranks, WorkerFails(k) PROVE Link'
    <2>1. /\ UNCHANGED <<setup, n, m, spc>> /\ rpc' = [rpc EXCEPT ![k] = "cleanup"]
          /\ rpc[k] # "returned"
      BY <1>25 DEF WorkerFails, sender
    <2> QED BY <1>3, <2>1
  <1>26. ASSUME NEW k \in Ranks, CleanUp(k) PROVE Link'
    <2>1. /\ UNCHANGED <<setup, n, m, spc>> /\ rpc' = [rpc EXCEPT ![k] = "raised"]
          /\ rpc[k] # "returned"
      BY <1>26 DEF CleanUp, sender
    <2> QED BY <1>3, <2>1
  <1>27. ASSUME NEW k \in Ranks, WorkerFailsMute(k) PROVE Link'
    <2>1. /\ UNCHANGED <<setup, n, m, spc>> /\ rpc' = [rpc EXCEPT ![k] = "raised"]
          /\ rpc[k] # "returned"
      BY <1>27 DEF WorkerFailsMute, sender
    <2> QED BY <1>3, <2>1
  <1>28. CASE UNCHANGED vars
    BY <1>4, <1>28 DEF vars, sender, worker
  <1> QED
    BY <1>1, <1>5, <1>6, <1>7, <1>8, <1>9, <1>10, <1>11, <1>12, <1>13,
       <1>14, <1>15, <1>16, <1>17, <1>18, <1>19, <1>20, <1>21, <1>22, <1>23,
       <1>24, <1>25, <1>26, <1>27, <1>28
       DEF Next, SenderStep, WorkerStep, Fault

-----------------------------------------------------------------------------
LEMMA RankStep == IInv /\ [Next]_vars => \A j \in Ranks : RankInv(j)'
  <1> SUFFICES ASSUME IInv, [Next]_vars, NEW j \in Ranks PROVE RankInv(j)'
    OBVIOUS
  <1>1. ASSUME NEW k \in Ranks, Enter(k) PROVE RankInv(j)'
    <2>1. CASE j = k
      BY <1>1, <2>1, EnterOwn
    <2>2. CASE j # k /\ Leader(k) = k /\ j \in Replica(k)
      BY <1>1, <2>2, EnterReplica
    <2>3. CASE j # k /\ (Leader(k) = k => j \notin Replica(k))
      BY <1>1, <2>3, EnterOther
    <2> QED BY <2>1, <2>2, <2>3
  <1>2. ASSUME NEW k \in Ranks, OpenBuffer(k) PROVE RankInv(j)'
    <2>1. CASE j = k
      BY <1>2, <2>1, OpenBufferStep
    <2>2. CASE j # k
      BY <1>2, <2>2, Frame DEF IInv, TypeOK, OpenBuffer, Send, sender, worker
    <2> QED BY <2>1, <2>2
  <1>3. ASSUME NEW k \in Ranks, ReceiveAck(k) PROVE RankInv(j)'
    <2>1. CASE j = k
      BY <1>3, <2>1, ReceiveAckStep
    <2>2. CASE j # k
      BY <1>3, <2>2, Frame DEF IInv, TypeOK, ReceiveAck, sender, worker
    <2> QED BY <2>1, <2>2
  <1>4. ASSUME NEW k \in Ranks, ReceiveError(k) PROVE RankInv(j)'
    <2>1. CASE j = k
      BY <1>4, <2>1, ReceiveErrorStep
    <2>2. CASE j # k
      BY <1>4, <2>2, Frame DEF IInv, TypeOK, ReceiveError, sender, worker
    <2> QED BY <2>1, <2>2
  <1>5. ASSUME NEW k \in Ranks, Pull(k) PROVE RankInv(j)'
    <2>1. CASE j = k
      BY <1>5, <2>1, PullStep
    <2>2. CASE j # k
      BY <1>5, <2>2, Frame DEF IInv, TypeOK, Pull, sender, worker
    <2> QED BY <2>1, <2>2
  <1>6. ASSUME NEW k \in Ranks, Flush(k) PROVE RankInv(j)'
    <2>1. CASE j = k
      BY <1>6, <2>1, FlushStep
    <2>2. CASE j # k
      BY <1>6, <2>2, Frame DEF IInv, TypeOK, Flush, Send, sender, worker
    <2> QED BY <2>1, <2>2
  <1>7. ASSUME NEW k \in Ranks, DirectSend(k) PROVE RankInv(j)'
    <2>1. CASE j = k
      BY <1>7, <2>1, DirectSendStep
    <2>2. CASE j # k
      BY <1>7, <2>2, Frame DEF IInv, TypeOK, DirectSend, Send, sender, worker
    <2> QED BY <2>1, <2>2
  <1>8. ASSUME NEW k \in Ranks, TooLarge(k) PROVE RankInv(j)'
    <2>1. CASE j = k
      BY <1>8, <2>1, TooLargeStep
    <2>2. CASE j # k
      BY <1>8, <2>2, Frame DEF IInv, TypeOK, TooLarge, sender, worker
    <2> QED BY <2>1, <2>2
  <1>9. ASSUME NEW k \in Ranks, Place(k) PROVE RankInv(j)'
    <2>1. CASE j = k
      BY <1>9, <2>1, PlaceStep
    <2>2. CASE j # k
      BY <1>9, <2>2, Frame DEF IInv, TypeOK, Place, sender, worker
    <2> QED BY <2>1, <2>2
  <1>10. ASSUME NEW k \in Ranks, SendLast(k) PROVE RankInv(j)'
    <2>1. CASE j = k
      BY <1>10, <2>1, SendLastStep
    <2>2. CASE j # k
      BY <1>10, <2>2, Frame DEF IInv, TypeOK, SendLast, Send, sender, worker
    <2> QED BY <2>1, <2>2
  <1>11. ASSUME NEW k \in Ranks, AwaitFuture(k) PROVE RankInv(j)'
    <2>1. CASE j = k
      BY <1>11, <2>1, AwaitFutureStep
    <2>2. CASE j # k
      BY <1>11, <2>2, Frame DEF IInv, TypeOK, AwaitFuture, sender, worker
    <2> QED BY <2>1, <2>2
  <1>12. ASSUME NEW k \in Ranks, \E e \in copying[k] : CopyLands(k, e) PROVE RankInv(j)'
    <2>1. CASE j = k
      BY <1>12, <2>1, CopyLandsStep
    <2>2. CASE j # k
      BY <1>12, <2>2, Frame DEF IInv, TypeOK, CopyLands, sender, worker
    <2> QED BY <2>1, <2>2
  <1>13. ASSUME NEW k \in Ranks, SenderFails(k) PROVE RankInv(j)'
    <2>1. CASE j = k
      BY <1>13, <2>1, SenderFailsStep
    <2>2. CASE j # k
      BY <1>13, <2>2, Frame DEF IInv, TypeOK, SenderFails, sender, worker
    <2> QED BY <2>1, <2>2
  <1>14. ASSUME NEW k \in Ranks, Prepare(k) PROVE RankInv(j)'
    <2>1. CASE j = k
      BY <1>14, <2>1, PrepareStep
    <2>2. CASE j # k
      BY <1>14, <2>2, Frame DEF IInv, TypeOK, Prepare, sender, worker
    <2> QED BY <2>1, <2>2
  <1>15. ASSUME NEW k \in Ranks, MapBuffer(k) PROVE RankInv(j)'
    <2>1. CASE j = k
      BY <1>15, <2>1, MapBufferStep
    <2>2. CASE j # k
      BY <1>15, <2>2, Frame DEF IInv, TypeOK, MapBuffer, sender, worker
    <2> QED BY <2>1, <2>2
  <1>16. ASSUME NEW k \in Ranks, Receive(k) PROVE RankInv(j)'
    <2>1. CASE j = k
      BY <1>16, <2>1, ReceiveStep
    <2>2. CASE j # k
      BY <1>16, <2>2, Frame DEF IInv, TypeOK, Receive, sender, worker
    <2> QED BY <2>1, <2>2
  <1>17. ASSUME NEW k \in Ranks, ReplyBucket(k) PROVE RankInv(j)'
    <2>1. CASE j = k
      BY <1>17, <2>1, ReplyBucketStep
    <2>2. CASE j # k
      BY <1>17, <2>2, Frame DEF IInv, TypeOK, ReplyBucket, sender, worker
    <2> QED BY <2>1, <2>2
  <1>18. ASSUME NEW k \in Ranks, LastLoaded(k) PROVE RankInv(j)'
    <2>1. CASE j = k
      BY <1>18, <2>1, LastLoadedStep
    <2>2. CASE j # k
      BY <1>18, <2>2, Frame DEF IInv, TypeOK, LastLoaded, sender, worker
    <2> QED BY <2>1, <2>2
  <1>19. ASSUME NEW k \in Ranks, Release(k) PROVE RankInv(j)'
    <2>1. CASE j = k
      BY <1>19, <2>1, ReleaseStep
    <2>2. CASE j # k
      BY <1>19, <2>2, Frame DEF IInv, TypeOK, Release, sender, worker
    <2> QED BY <2>1, <2>2
  <1>20. ASSUME NEW k \in Ranks, PostProcess(k) PROVE RankInv(j)'
    <2>1. CASE j = k
      BY <1>20, <2>1, PostProcessStep
    <2>2. CASE j # k
      BY <1>20, <2>2, Frame DEF IInv, TypeOK, PostProcess, sender, worker
    <2> QED BY <2>1, <2>2
  <1>21. ASSUME NEW k \in Ranks, \E e \in loading[k] : LoadLands(k, e) PROVE RankInv(j)'
    <2>1. CASE j = k
      BY <1>21, <2>1, LoadLandsStep
    <2>2. CASE j # k
      BY <1>21, <2>2, Frame DEF IInv, TypeOK, LoadLands, sender, worker
    <2> QED BY <2>1, <2>2
  <1>22. ASSUME NEW k \in Ranks, WorkerFails(k) PROVE RankInv(j)'
    <2>1. CASE j = k
      BY <1>22, <2>1, WorkerFailsStep
    <2>2. CASE j # k
      BY <1>22, <2>2, Frame DEF IInv, TypeOK, WorkerFails, sender, worker
    <2> QED BY <2>1, <2>2
  <1>23. ASSUME NEW k \in Ranks, CleanUp(k) PROVE RankInv(j)'
    <2>1. CASE j = k
      BY <1>23, <2>1, CleanUpStep
    <2>2. CASE j # k
      BY <1>23, <2>2, Frame DEF IInv, TypeOK, CleanUp, sender, worker
    <2> QED BY <2>1, <2>2
  <1>24. ASSUME NEW k \in Ranks, WorkerFailsMute(k) PROVE RankInv(j)'
    <2>1. CASE j = k
      BY <1>24, <2>1, WorkerFailsMuteStep
    <2>2. CASE j # k
      BY <1>24, <2>2, Frame DEF IInv, TypeOK, WorkerFailsMute, sender, worker
    <2> QED BY <2>1, <2>2
  <1>25. CASE UNCHANGED vars
    BY <1>25, Frame DEF IInv, vars, sender, worker
  <1> QED
    BY <1>1, <1>2, <1>3, <1>4, <1>5, <1>6, <1>7, <1>8, <1>9, <1>10, <1>11, <1>12, <1>13,
       <1>14, <1>15, <1>16, <1>17, <1>18, <1>19, <1>20, <1>21, <1>22, <1>23, <1>24, <1>25
       DEF Next, SenderStep, WorkerStep, Fault

\* The inductive invariant: what the two ends of every transfer rely on.
THEOREM Invariance == Spec => []IInv
  <1>1. Init => IInv
    BY InitInv
  <1>2. IInv /\ [Next]_vars => IInv'
    BY TypeStep, LinkStep, RankStep DEF IInv
  <1> QED BY <1>1, <1>2, PTL DEF Spec

\* The variables of both ends keep their types, and no offset leaves the buffer.
THEOREM TypeCorrect == Spec => []TypeOK
  <1>1. IInv => TypeOK
    BY DEF IInv
  <1> QED BY <1>1, Invariance, PTL

\* async_send_weights packs a bucket without overlap, inside the buffer, and
\* at offsets aligned for each weight's dtype.
THEOREM BucketsFit == Spec => []BucketFits
  <1>1. IInv => BucketFits
    <2> SUFFICES ASSUME IInv, NEW k \in Ranks, NEW e \in bucket[k]
                 PROVE  /\ End(k, e) <= BucketSize
                        /\ e.off % Weight(k, e.w).elem = 0
                        /\ \A f \in bucket[k] : e = f \/ End(k, e) <= f.off \/ End(k, f) <= e.off
      BY DEF BucketFits
    <2>1. off[k] \in 0..BucketSize /\ Regions(k)
      BY DEF IInv, TypeOK, RankInv
    <2>2. End(k, e) \in Nat /\ End(k, e) <= off[k]
      BY EntryFacts DEF IInv
    <2>3. End(k, e) <= BucketSize
      BY SizesAssumption, <2>1, <2>2
    <2>4. e.off % Weight(k, e.w).elem = 0
      BY <2>1 DEF Regions
    <2>5. \A f \in bucket[k] : e = f \/ End(k, e) <= f.off \/ End(k, f) <= e.off
      BY <2>1 DEF Regions
    <2> QED BY <2>3, <2>4, <2>5
  <1> QED BY <1>1, Invariance, PTL

\* No load of a worker meets bytes that are not those of its weight, whatever
\* the sizes, and whoever fails.
THEOREM NothingIsTorn == Spec => []NeverTorn
  <1>1. IInv => NeverTorn
    BY DEF IInv, RankInv, Whole, NeverTorn
  <1> QED BY <1>1, Invariance, PTL

\* When every rank has returned, every worker holds every weight of the
\* transfer and has returned without an exception.
THEOREM SyncIsWhole == Spec => []DriverSeesWhole
  <1>1. IInv => DriverSeesWhole
    <2> SUFFICES ASSUME IInv, NEW t \in 1..MaxTransfers,
                        \A k \in Ranks : n[k] = t /\ spc[k] = "done", NEW k \in Ranks
                 PROVE  m[k] = t /\ rpc[k] = "returned" /\ Holds(k, t)
      BY DEF DriverSeesWhole
    <2>1. Leader(k) \in Ranks
      BY LeaderFacts DEF IInv
    <2>2. m[k] = t /\ rpc[k] = "returned"
      BY <2>1 DEF IInv, Link
    <2> QED BY <2>2 DEF IInv, RankInv, Progress
  <1> QED BY <1>1, Invariance, PTL

\* The last acknowledgement finds the buffer unmapped.
THEOREM BufferIsFree == Spec => []BufferReclaimed
  <1>1. IInv => BufferReclaimed
    BY DEF IInv, RankInv, WorkerPlace, BufferReclaimed, SenderPlace, AtEnd, Started, Finished, Open
  <1> QED BY <1>1, Invariance, PTL
=============================================================================
