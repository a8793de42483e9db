--------------------------- MODULE WeightTransfer ---------------------------
(***************************************************************************)
(* The weight synchronisation between the trainer ranks and the vLLM       *)
(* workers they share GPUs with: ActorRolloutRefWorker.update_weights in   *)
(* naive mode, ServerAdapter.update_weights, the BucketedWeightSender of   *)
(* each rank, the BucketedWeightReceiver of each worker and the callback   *)
(* that loads what arrives.                                                *)
(*                                                                         *)
(* Rank k sends to worker k.  Ranks form replicas of setup.tp; the first   *)
(* rank of a replica has the server: it starts all its workers with one    *)
(* collective_rpc and awaits its result after it has sent its own weights. *)
(* Transfers are numbered.  With a LoRA adapter the first synchronisation  *)
(* is two transfers, the base weights and the adapter; every other one is  *)
(* a single transfer.  The version of a weight is the transfer it came     *)
(* with.                                                                   *)
(*                                                                         *)
(* Device work is asynchronous: the sender's copies into the buffer and    *)
(* the worker's loads out of it land later, and synchronize waits for      *)
(* them.  In shared-memory mode the worker copies when it receives; the    *)
(* model lets that copy land at any time before the synchronize, which     *)
(* allows more.  A rank's gather of a sharded weight (full_tensor) ends    *)
(* once every rank has asked for it.  Sockets, handles and the reference   *)
(* count of an IPC block are one message slot and one flag, maps.          *)
(***************************************************************************)
EXTENDS Integers, Sequences, FiniteSets

CONSTANTS
    NRanks,         \* trainer ranks, and vLLM workers
    BucketSize,     \* bucket_size, in bytes
    Setups,         \* what is sent, and how
    MaxTransfers,   \* bound: transfers
    MaxFaults       \* bound: failures

Ranks == 0..(NRanks - 1)

\* A weight: nbytes and element_size.
WeightType == [bytes : Nat, elem : Nat \ {0}]

\* adapter is empty without LoRA; sharded: the weights are DTensors.
SetupType == [base : Seq(WeightType), adapter : Seq(WeightType), shm : BOOLEAN,
              tp : Nat \ {0}, sharded : BOOLEAN]

ASSUME SizesAssumption ==
    /\ NRanks \in Nat \ {0} /\ BucketSize \in Nat \ {0}
    /\ MaxTransfers \in Nat /\ MaxFaults \in Nat
ASSUME SetupsAssumption == Setups \subseteq SetupType

VARIABLES
    setup,
    n, spc,         \* sender: its transfer and where it stands in it
    pulled,         \* weights the sender has taken from the generator
    off, bucket,    \* offset and bucket_meta
    copying,        \* entries of bucket whose copy has not landed
    buf,            \* the communication buffer: what each byte belongs to
    chan,           \* the request or reply under way between sender and worker
    m, rpc,         \* worker: its transfer and where it stands in it
    request,        \* the bucket the worker is handling
    loading,        \* entries of it whose load has not landed
    base, lora,     \* what the worker's model and adapter hold, by version
    staged,         \* lora_weights
    maps,           \* the worker holds a mapping of the buffer
    mute,           \* history: the worker failed and left its sender without a reply
    faults

sender == <<n, spc, pulled, off, bucket, copying, buf>>
worker == <<m, rpc, request, loading, base, lora, staged, maps, mute>>
vars == <<setup, sender, chan, worker, faults>>

Torn == -1          \* a weight read while its bytes were someone else's
Versions == -1..MaxTransfers
Bytes == 0..(BucketSize - 1)
NoByte == [t |-> 0, w |-> 0]
NoMsg == [type |-> "none"]
Handle == [type |-> "handle"]
Ack == [type |-> "ack"]
Error == [type |-> "error"]
BucketMsg(entries, direct, last) ==
    [type |-> "bucket", entries |-> entries, direct |-> direct, last |-> last]
NoBucket == BucketMsg({}, FALSE, FALSE)

IsAdapter(t) == setup.adapter # <<>> /\ t > 1
Weights(t) == IF IsAdapter(t) THEN setup.adapter ELSE setup.base
BeginsSync(t) == ~(IsAdapter(t) /\ t = 2)

Leader(k) == k - (k % setup.tp)
Replica(k) == {j \in Ranks : Leader(j) = Leader(k)}

Absent(ws) == [i \in DOMAIN ws |-> 0]

Init ==
    /\ setup \in Setups
    /\ n = [k \in Ranks |-> 0]
    /\ spc = [k \in Ranks |-> "done"]
    /\ pulled = [k \in Ranks |-> 0]
    /\ off = [k \in Ranks |-> 0]
    /\ bucket = [k \in Ranks |-> {}]
    /\ copying = [k \in Ranks |-> {}]
    /\ buf = [k \in Ranks |-> [b \in Bytes |-> NoByte]]
    /\ chan = [k \in Ranks |-> NoMsg]
    /\ m = [k \in Ranks |-> 0]
    /\ rpc = [k \in Ranks |-> "returned"]
    /\ request = [k \in Ranks |-> NoBucket]
    /\ loading = [k \in Ranks |-> {}]
    /\ base = [k \in Ranks |-> Absent(setup.base)]
    /\ lora = [k \in Ranks |-> Absent(setup.adapter)]
    /\ staged = [k \in Ranks |-> Absent(setup.adapter)]
    /\ maps = [k \in Ranks |-> FALSE]
    /\ mute = [k \in Ranks |-> FALSE]
    /\ faults = 0

-----------------------------------------------------------------------------
(* The sender: update_weights and async_send_weights.                      *)

\* The driver's ray.get: a synchronisation starts when every rank has returned.
MayEnter(k) ==
    BeginsSync(n[k] + 1) =>
        \A j \in Ranks : n[j] > n[k] \/ (n[j] = n[k] /\ spc[j] = "done")

Start(k) ==
    /\ spc' = [spc EXCEPT ![k] = "open"]
    /\ n' = [n EXCEPT ![k] = n[k] + 1]
    /\ pulled' = [pulled EXCEPT ![k] = 0]
    /\ off' = [off EXCEPT ![k] = 0]
    /\ bucket' = [bucket EXCEPT ![k] = {}]
    /\ copying' = [copying EXCEPT ![k] = {}]
    /\ buf' = [buf EXCEPT ![k] = [b \in Bytes |-> NoByte]]

\* A rank enters update_weights; the one with the server starts the workers.
Enter(k) ==
    /\ spc[k] = "done" /\ n[k] < MaxTransfers
    /\ MayEnter(k)
    /\ Start(k)
    /\ IF Leader(k) = k
         THEN /\ m' = [j \in Ranks |-> IF j \in Replica(k) THEN n[k] + 1 ELSE m[j]]
              /\ rpc' = [j \in Ranks |-> IF j \in Replica(k) THEN "prepare" ELSE rpc[j]]
         ELSE UNCHANGED <<m, rpc>>
    /\ UNCHANGED <<setup, chan, request, loading, base, lora, staged, maps, mute, faults>>

Send(k, msg, pc) ==
    /\ chan[k] = NoMsg
    /\ chan' = [chan EXCEPT ![k] = msg]
    /\ spc' = [spc EXCEPT ![k] = pc]

\* _init_socket and _init_buffer.
OpenBuffer(k) ==
    /\ spc[k] = "open"
    /\ Send(k, Handle, "opening")
    /\ UNCHANGED <<setup, n, pulled, off, bucket, copying, buf, worker, faults>>

\* _receive_ack, and what the sender goes on with.
ReceiveAck(k) ==
    /\ chan[k] = Ack
    /\ \/ spc[k] \in {"opening", "directing"} /\ spc' = [spc EXCEPT ![k] = "pull"]
          /\ UNCHANGED <<bucket, off>>
       \/ spc[k] = "flushing" /\ spc' = [spc EXCEPT ![k] = "place"]
          /\ bucket' = [bucket EXCEPT ![k] = {}]
          /\ off' = [off EXCEPT ![k] = 0]
       \/ spc[k] = "closing"
          /\ spc' = [spc EXCEPT ![k] = IF Leader(k) = k THEN "future" ELSE "done"]
          /\ UNCHANGED <<bucket, off>>
    /\ chan' = [chan EXCEPT ![k] = NoMsg]
    /\ UNCHANGED <<setup, n, pulled, copying, buf, worker, faults>>

\* _receive_ack with a message: the receiver failed.
ReceiveError(k) ==
    /\ chan[k] = Error
    /\ chan' = [chan EXCEPT ![k] = NoMsg]
    /\ spc' = [spc EXCEPT ![k] = "raised"]
    /\ UNCHANGED <<setup, n, pulled, off, bucket, copying, buf, worker, faults>>

\* The generator yields the next weight.
Pull(k) ==
    /\ spc[k] = "pull"
    /\ pulled[k] < Len(Weights(n[k]))
    /\ pulled' = [pulled EXCEPT ![k] = pulled[k] + 1]
    /\ spc' = [spc EXCEPT ![k] = "place"]
    /\ UNCHANGED <<setup, n, off, bucket, copying, buf, chan, worker, faults>>

Weight(k, i) == Weights(n[k])[i]
Current(k) == Weight(k, pulled[k])

\* Mutant: the offset is not aligned to the element size.
UnalignedOffset(k) == off[k]

AlignedOffset(k) ==
    LET a == Current(k).elem IN ((off[k] + a - 1) \div a) * a

Entry(k) == [w |-> pulled[k], off |-> AlignedOffset(k)]

Fits(k) == AlignedOffset(k) + Current(k).bytes <= BucketSize

Synchronized(k) == copying[k] = {}

\* The weight does not fit: send what the bucket holds.
Flush(k) ==
    /\ spc[k] = "place" /\ ~Fits(k) /\ bucket[k] # {}
    /\ Synchronized(k)
    /\ Send(k, BucketMsg(bucket[k], FALSE, FALSE), "flushing")
    /\ UNCHANGED <<setup, n, pulled, off, bucket, copying, buf, worker, faults>>

\* _direct_send_large_weight: the handle of the weight itself.
DirectSend(k) ==
    /\ spc[k] = "place" /\ ~Fits(k) /\ bucket[k] = {}
    /\ ~setup.shm
    /\ Send(k, BucketMsg({Entry(k)}, TRUE, FALSE), "directing")
    /\ off' = [off EXCEPT ![k] = AlignedOffset(k)]
    /\ UNCHANGED <<setup, n, pulled, bucket, copying, buf, worker, faults>>

\* The assertion that shared memory takes no weight larger than the bucket.
TooLarge(k) ==
    /\ spc[k] = "place" /\ ~Fits(k) /\ bucket[k] = {}
    /\ setup.shm
    /\ spc' = [spc EXCEPT ![k] = "raised"]
    /\ UNCHANGED <<setup, n, pulled, off, bucket, copying, buf, chan, worker, faults>>

\* The weight goes into the bucket; its copy is non_blocking.
Place(k) ==
    /\ spc[k] = "place" /\ Fits(k)
    /\ bucket' = [bucket EXCEPT ![k] = @ \cup {Entry(k)}]
    /\ copying' = [copying EXCEPT ![k] = @ \cup {Entry(k)}]
    /\ off' = [off EXCEPT ![k] = AlignedOffset(k) + Current(k).bytes]
    /\ spc' = [spc EXCEPT ![k] = "pull"]
    /\ UNCHANGED <<setup, n, pulled, buf, chan, worker, faults>>

SendLast(k) ==
    /\ spc[k] = "pull" /\ pulled[k] = Len(Weights(n[k]))
    /\ Synchronized(k)
    /\ Send(k, BucketMsg(bucket[k], FALSE, TRUE), "closing")
    /\ UNCHANGED <<setup, n, pulled, off, bucket, copying, buf, worker, faults>>

\* full_tensor is an all-gather; the parameters of an adapter were collected before.
Gathered(k, i) ==
    setup.sharded /\ ~IsAdapter(n[k]) =>
        \A j \in Ranks : n[j] > n[k] \/ (n[j] = n[k] /\ pulled[j] >= i)

Region(k, e) == {b \in Bytes : e.off <= b /\ b < e.off + Weight(k, e.w).bytes}

CopyLands(k, e) ==
    /\ Gathered(k, e.w)
    /\ copying' = [copying EXCEPT ![k] = @ \ {e}]
    /\ buf' = [buf EXCEPT ![k] =
                [b \in Bytes |-> IF b \in Region(k, e) THEN [t |-> n[k], w |-> e.w] ELSE @[b]]]
    /\ UNCHANGED <<setup, n, spc, pulled, off, bucket, chan, worker, faults>>

\* The generator or the allocation of the buffer raises.
SenderFails(k) ==
    /\ faults < MaxFaults
    /\ spc[k] \in {"open", "pull"}
    /\ spc' = [spc EXCEPT ![k] = "raised"]
    /\ faults' = faults + 1
    /\ UNCHANGED <<setup, n, pulled, off, bucket, copying, buf, chan, worker>>

\* Mutant: the server's rank does not await the call it started.
FutureDropped(k) ==
    /\ spc[k] = "future"
    /\ spc' = [spc EXCEPT ![k] = "done"]
    /\ UNCHANGED <<setup, n, pulled, off, bucket, copying, buf, chan, worker, faults>>

\* await future: the results are collected in rank order, and the caches reset.
AwaitFuture(k) ==
    /\ spc[k] = "future"
    /\ \/ /\ \A j \in Replica(k) : rpc[j] = "returned"
          /\ spc' = [spc EXCEPT ![k] = "done"]
       \/ \E j \in Replica(k) :
             /\ rpc[j] = "raised"
             /\ \A i \in Replica(k) : i < j => rpc[i] = "returned"
             /\ spc' = [spc EXCEPT ![k] = "raised"]
    /\ UNCHANGED <<setup, n, pulled, off, bucket, copying, buf, chan, worker, faults>>

-----------------------------------------------------------------------------
(* The worker: update_weights_from_ipc and receive_weights.                *)

\* Step 1; an adapter is removed before the new one arrives.
Prepare(k) ==
    /\ rpc[k] = "prepare"
    /\ rpc' = [rpc EXCEPT ![k] = "opening"]
    /\ lora' = IF IsAdapter(m[k]) THEN [lora EXCEPT ![k] = Absent(setup.adapter)] ELSE lora
    /\ staged' = [staged EXCEPT ![k] = Absent(setup.adapter)]
    /\ UNCHANGED <<setup, sender, chan, m, request, loading, base, maps, mute, faults>>

\* _init_buffer.
MapBuffer(k) ==
    /\ rpc[k] = "opening" /\ chan[k] = Handle
    /\ chan' = [chan EXCEPT ![k] = Ack]
    /\ maps' = [maps EXCEPT ![k] = TRUE]
    /\ rpc' = [rpc EXCEPT ![k] = "recv"]
    /\ UNCHANGED <<setup, sender, m, request, loading, base, lora, staged, mute, faults>>

\* recv_pyobj, the views, and the callback, whose loads run on the device.
Receive(k) ==
    /\ rpc[k] = "recv" /\ chan[k].type = "bucket"
    /\ request' = [request EXCEPT ![k] = chan[k]]
    /\ loading' = [loading EXCEPT ![k] = chan[k].entries]
    /\ rpc' = [rpc EXCEPT ![k] = "load"]
    /\ UNCHANGED <<setup, sender, chan, m, base, lora, staged, maps, mute, faults>>

\* What a read of entry e finds: the weight, or bytes that are not all its own.
Content(k, e) ==
    IF request[k].direct \/ \A b \in Region(k, e) : buf[k][b] = [t |-> n[k], w |-> e.w]
      THEN n[k] ELSE Torn

\* A load lands: into the model, or as a clone into lora_weights.
LoadLands(k, e) ==
    /\ request[k].direct => Gathered(k, e.w)
    /\ loading' = [loading EXCEPT ![k] = @ \ {e}]
    /\ IF IsAdapter(m[k])
         THEN staged' = [staged EXCEPT ![k][e.w] = Content(k, e)] /\ base' = base
         ELSE base' = [base EXCEPT ![k][e.w] = Content(k, e)] /\ staged' = staged
    /\ UNCHANGED <<setup, sender, chan, m, rpc, request, lora, maps, mute, faults>>

\* Mutant: the reply does not wait for the loads.
LoadedUnsynchronized(k) == rpc[k] = "load"

Loaded(k) == rpc[k] = "load" /\ loading[k] = {}

ReplyBucket(k) ==
    /\ Loaded(k) /\ ~request[k].last
    /\ chan' = [chan EXCEPT ![k] = Ack]
    /\ rpc' = [rpc EXCEPT ![k] = "recv"]
    /\ UNCHANGED <<setup, sender, m, request, loading, base, lora, staged, maps, mute, faults>>

\* Mutant: the last bucket is acknowledged before the buffer is released.
ReplyBeforeRelease(k) ==
    /\ Loaded(k) /\ request[k].last
    /\ chan' = [chan EXCEPT ![k] = Ack]
    /\ rpc' = [rpc EXCEPT ![k] = "release"]
    /\ lora' = IF IsAdapter(m[k]) THEN [lora EXCEPT ![k] = staged[k]] ELSE lora
    /\ UNCHANGED <<setup, sender, m, request, loading, base, staged, maps, mute, faults>>

\* The last bucket: the adapter is added as a whole and the loop is left.
LastLoaded(k) ==
    /\ Loaded(k) /\ request[k].last
    /\ rpc' = [rpc EXCEPT ![k] = "release"]
    /\ lora' = IF IsAdapter(m[k]) THEN [lora EXCEPT ![k] = staged[k]] ELSE lora
    /\ UNCHANGED <<setup, sender, chan, m, request, loading, base, staged, maps, mute, faults>>

\* _cleanup after the last bucket: release the buffer, then reply.
Release(k) ==
    /\ rpc[k] = "release"
    /\ maps' = [maps EXCEPT ![k] = FALSE]
    /\ chan' = [chan EXCEPT ![k] = Ack]
    /\ rpc' = [rpc EXCEPT ![k] = "post"]
    /\ UNCHANGED <<setup, sender, m, request, loading, base, lora, staged, mute, faults>>

\* Step 3.
PostProcess(k) ==
    /\ rpc[k] = "post"
    /\ rpc' = [rpc EXCEPT ![k] = "returned"]
    /\ UNCHANGED <<setup, sender, chan, m, request, loading, base, lora, staged, maps, mute, faults>>

\* Mutant: an exception in the callback is raised without a reply to the sender.
WorkerFailsUnanswered(k) ==
    /\ faults < MaxFaults
    /\ rpc[k] = "load"
    /\ rpc' = [rpc EXCEPT ![k] = "cleanup"]
    /\ faults' = faults + 1
    /\ UNCHANGED <<setup, sender, chan, m, request, loading, base, lora, staged, maps, mute>>

\* An exception while a reply is owed: the error is the reply.
WorkerFails(k) ==
    /\ faults < MaxFaults
    /\ \/ rpc[k] = "opening" /\ chan[k] = Handle
       \/ rpc[k] = "load"
    /\ chan' = [chan EXCEPT ![k] = Error]
    /\ rpc' = [rpc EXCEPT ![k] = "cleanup"]
    /\ faults' = faults + 1
    /\ UNCHANGED <<setup, sender, m, request, loading, base, lora, staged, maps, mute>>

\* _cleanup after the exception, which waits for the loads it left behind.
CleanUp(k) ==
    /\ rpc[k] = "cleanup" /\ loading[k] = {}
    /\ rpc' = [rpc EXCEPT ![k] = "raised"]
    /\ maps' = [maps EXCEPT ![k] = FALSE]
    /\ UNCHANGED <<setup, sender, chan, m, request, loading, base, lora, staged, mute, faults>>

\* An exception where no reply is owed, in the cleanup, or the end of the process.
WorkerFailsMute(k) ==
    /\ faults < MaxFaults
    /\ rpc[k] \notin {"returned", "raised"}
    /\ rpc' = [rpc EXCEPT ![k] = "raised"]
    /\ maps' = [maps EXCEPT ![k] = FALSE]
    /\ loading' = [loading EXCEPT ![k] = {}]
    /\ mute' = [mute EXCEPT ![k] = rpc[k] \notin {"post", "cleanup"}]
    /\ faults' = faults + 1
    /\ UNCHANGED <<setup, sender, chan, m, request, base, lora, staged>>

-----------------------------------------------------------------------------
SenderStep(k) ==
    \/ Enter(k) \/ OpenBuffer(k) \/ ReceiveAck(k) \/ ReceiveError(k)
    \/ Pull(k) \/ Flush(k) \/ DirectSend(k) \/ TooLarge(k) \/ Place(k)
    \/ SendLast(k) \/ AwaitFuture(k)
    \/ \E e \in copying[k] : CopyLands(k, e)

WorkerStep(k) ==
    \/ Prepare(k) \/ MapBuffer(k) \/ Receive(k) \/ ReplyBucket(k)
    \/ LastLoaded(k) \/ Release(k) \/ PostProcess(k) \/ CleanUp(k)
    \/ \E e \in loading[k] : LoadLands(k, e)

Fault(k) == SenderFails(k) \/ WorkerFails(k) \/ WorkerFailsMute(k)

Next == \E k \in Ranks : SenderStep(k) \/ WorkerStep(k) \/ Fault(k)

\* Processes and devices go on by themselves; nothing makes a failure happen.
Fairness == \A k \in Ranks : WF_vars(SenderStep(k)) /\ WF_vars(WorkerStep(k))

Spec == Init /\ [][Next]_vars /\ Fairness

-----------------------------------------------------------------------------
(* Properties.                                                             *)

EntryType == [w : Nat \ {0}, off : 0..BucketSize]
Messages ==
    {NoMsg, Handle, Ack, Error} \cup
    [type : {"bucket"}, entries : SUBSET EntryType, direct : BOOLEAN, last : BOOLEAN]

\* The variables have their types; no offset leaves the buffer.
TypeOK ==
    /\ setup \in Setups
    /\ n \in [Ranks -> 0..MaxTransfers] /\ m \in [Ranks -> 0..MaxTransfers]
    /\ spc \in [Ranks -> {"open", "opening", "pull", "place", "flushing", "directing",
                          "closing", "future", "done", "raised"}]
    /\ rpc \in [Ranks -> {"prepare", "opening", "recv", "load", "release", "post",
                          "cleanup", "returned", "raised"}]
    /\ pulled \in [Ranks -> Nat]
    /\ \A k \in Ranks : pulled[k] <= Len(Weights(n[k]))
    /\ off \in [Ranks -> 0..BucketSize]
    /\ bucket \in [Ranks -> SUBSET EntryType] /\ copying \in [Ranks -> SUBSET EntryType]
    /\ buf \in [Ranks -> [Bytes -> [t : 0..MaxTransfers, w : Nat]]]
    /\ chan \in [Ranks -> Messages] /\ request \in [Ranks -> Messages]
    /\ loading \in [Ranks -> SUBSET EntryType]
    /\ base \in [Ranks -> [DOMAIN setup.base -> Versions]]
    /\ lora \in [Ranks -> [DOMAIN setup.adapter -> Versions]]
    /\ staged \in [Ranks -> [DOMAIN setup.adapter -> Versions]]
    /\ maps \in [Ranks -> BOOLEAN] /\ mute \in [Ranks -> BOOLEAN]
    /\ faults \in 0..MaxFaults

End(k, e) == e.off + Weight(k, e.w).bytes

\* The weights of a bucket lie inside the buffer, at offsets their dtype can
\* be viewed at, and no two of them share a byte.
BucketFits ==
    \A k \in Ranks : \A e \in bucket[k] :
        /\ End(k, e) <= BucketSize
        /\ e.off % Weight(k, e.w).elem = 0
        /\ \A f \in bucket[k] : e = f \/ End(k, e) <= f.off \/ End(k, f) <= e.off

\* No worker ever loads a weight whose bytes were not yet copied, or were
\* already those of a later bucket: whatever lands in the model or in the
\* adapter is a whole weight, even while senders and workers fail.
NeverTorn ==
    \A k \in Ranks :
        /\ \A i \in DOMAIN setup.base : base[k][i] # Torn
        /\ \A i \in DOMAIN setup.adapter : lora[k][i] # Torn /\ staged[k][i] # Torn

\* Every weight of transfer t is in the worker.
Holds(k, t) ==
    IF IsAdapter(t) THEN \A i \in DOMAIN setup.adapter : lora[k][i] = t
                    ELSE \A i \in DOMAIN setup.base : base[k][i] = t

\* When every rank has returned from a transfer, and so when update_weights
\* returns to the trainer, every worker has loaded all of its weights, has
\* finished its post-processing, and none of them failed.
DriverSeesWhole ==
    \A t \in 1..MaxTransfers :
        (\A k \in Ranks : n[k] = t /\ spc[k] = "done") =>
            \A k \in Ranks : m[k] = t /\ rpc[k] = "returned" /\ Holds(k, t)

\* A sender that gets the last acknowledgement and reclaims its buffer finds
\* that the worker no longer holds a mapping of it.
BufferReclaimed ==
    \A k \in Ranks : spc[k] \in {"future", "done"} => ~maps[k]

\* A transfer that begins ends: every rank gets through it or some rank
\* raises, which the driver sees.  Only a worker that fails without a reply
\* can leave everyone waiting.
SyncEnds ==
    \A t \in 1..MaxTransfers :
        (\E k \in Ranks : n[k] = t) ~>
            \/ \A k \in Ranks : n[k] > t \/ (n[k] = t /\ spc[k] = "done")
            \/ \E k \in Ranks : spc[k] = "raised" \/ mute[k]
=============================================================================
