------------------------------ MODULE GpuPool ------------------------------
(***************************************************************************)
(* The evaluation GPU pool of utils/ersr_evaluation.py: one driver process,*)
(* one spawned worker per GPU, and two multiprocessing queues between      *)
(* them.  One pool serves one `with GpuPool(...) as pool: pool.run(jobs)`  *)
(* block, which is how evaluate_model and run_generation_phase use it.     *)
(*                                                                         *)
(* Queues.  Only the driver writes job_queue, so the queue is three        *)
(* counters over the stream  job 1, .., job NJobs, stop pills:  jobsPut    *)
(* items were handed to Queue.put, jobsSent of them were written to the    *)
(* pipe by the driver's feeder thread, jobsGot of these were received.     *)
(* result_queue is the sequence `results` of all messages ever written to  *)
(* its pipe, with the number `nread` of those the driver has received; a   *)
(* message a worker has put waits in its outbox until the worker's feeder  *)
(* thread has written it under the pipe's write lock.                      *)
(***************************************************************************)
EXTENDS Naturals, Sequences, FiniteSets

CONSTANTS
    NGpus,      \* len(config.gpus), the number of workers
    NJobs,      \* len(jobs) of the one call of run
    PipeCap,    \* jobs that fit in job_queue's pipe before its feeder blocks
    MaxKills    \* bound: workers killed from outside (OOM killer, SIGKILL)

ASSUME NGpusAssumption == NGpus \in Nat \ {0}
ASSUME NJobsAssumption == NJobs \in Nat
ASSUME PipeCapAssumption == PipeCap \in Nat \ {0}
ASSUME MaxKillsAssumption == MaxKills \in Nat

Worker == 1..NGpus
Batch == 1..NJobs
Nobody == 0
NoJob == 0

VARIABLES
    pc,         \* control point of the driver
    expecting,  \* expected_kind of the current _await_messages call
    base,       \* value of nread when that call began
    nstarted,   \* processes whose start() has returned
    outcome,    \* of the with block: "none", "returned" or "raised"
    wpc,        \* control point of each worker's main thread
    wjob,       \* batch_id of the job a worker is running, or NoJob
    outbox,     \* messages put by a worker and not yet in the pipe
    jobsPut, jobsSent, jobsGot,
    getLock,    \* worker that holds the reader lock of job_queue
    writeLock,  \* worker that holds the writer lock of result_queue
    torn,       \* a writer died inside a message: the next read never ends
    results, nread,
    signalled,  \* processes that terminate() has been called on
    nkills

driver == <<pc, expecting, base, nstarted, outcome>>
jobStream == <<jobsPut, jobsSent, jobsGot, getLock>>
resultStream == <<outbox, writeLock, torn, results>>
vars == <<driver, wpc, wjob, jobStream, resultStream, nread, signalled, nkills>>

-----------------------------------------------------------------------------
Ready(w, ok) == [kind |-> "ready", ok |-> ok, gpu |-> w, batch |-> NoJob]
Done(w, b, ok) == [kind |-> "job", ok |-> ok, gpu |-> w, batch |-> b]
Message == [kind : {"ready", "job"}, ok : BOOLEAN, gpu : Worker, batch : 0..NJobs]

\* The messages the current _await_messages call has appended to its list.
messages == SubSeq(results, base + 1, nread)

\* Mutant: run waits for one message too few.
wantedFewer == IF expecting = "ready" THEN NGpus ELSE NJobs - 1

\* How many messages that call waits for.
wanted == IF expecting = "ready" THEN NGpus ELSE NJobs

Alive(w) == wpc[w] \notin {"new", "dead"}

\* Mutant: the messages are returned in arrival order.
ArrivalOrder(ms) == ms

\* messages.sort(key=batch_id): a stable sort, so a message comes after the
\* ones with a smaller batch_id and after earlier ones with the same batch_id.
SortByBatch(ms) ==
    LET Before(i, j) == \/ ms[i].batch < ms[j].batch
                        \/ ms[i].batch = ms[j].batch /\ i < j
        Rank(j) == Cardinality({i \in DOMAIN ms : Before(i, j)}) + 1
    IN  [r \in DOMAIN ms |-> ms[CHOOSE j \in DOMAIN ms : Rank(j) = r]]

-----------------------------------------------------------------------------
Init ==
    /\ pc = "start" /\ expecting = "ready" /\ base = 0 /\ nstarted = 0
    /\ outcome = "none"
    /\ wpc = [w \in Worker |-> "new"]
    /\ wjob = [w \in Worker |-> NoJob]
    /\ outbox = [w \in Worker |-> << >>]
    /\ jobsPut = 0 /\ jobsSent = 0 /\ jobsGot = 0 /\ getLock = Nobody
    /\ writeLock = Nobody /\ torn = FALSE /\ results = << >> /\ nread = 0
    /\ signalled = {} /\ nkills = 0

-----------------------------------------------------------------------------
(* The driver.                                                             *)

\* __enter__: process.start() of the next process, then _await_messages.
StartNext ==
    /\ pc = "start" /\ nstarted < NGpus
    /\ nstarted' = nstarted + 1
    /\ wpc' = [wpc EXCEPT ![nstarted + 1] = "loading"]
    /\ pc' = IF nstarted + 1 = NGpus THEN "await" ELSE "start"
    /\ UNCHANGED <<expecting, base, outcome, wjob, jobStream, resultStream,
                   nread, signalled, nkills>>

\* process.start() raises.  The loop is outside the try block and a with
\* statement whose __enter__ raised runs no __exit__: nobody is stopped.
StartFails ==
    /\ pc = "start" /\ nstarted < NGpus
    /\ pc' = "left" /\ outcome' = "raised"
    /\ UNCHANGED <<expecting, base, nstarted, wpc, wjob, jobStream,
                   resultStream, nread, signalled, nkills>>

\* result_queue.get returns a message: a wrong kind or a failure raises,
\* otherwise it is appended to the list.
ReceiveMessage ==
    /\ pc = "await" /\ nread < Len(results)
    /\ nread' = nread + 1
    /\ LET m == results[nread + 1] IN
       IF m.kind # expecting \/ ~m.ok
       THEN /\ pc' = "force" /\ outcome' = "raised"
       ELSE /\ pc' = IF nread + 1 - base = wanted THEN "gotAll" ELSE "await"
            /\ UNCHANGED outcome
    /\ UNCHANGED <<expecting, base, nstarted, wpc, wjob, jobStream,
                   resultStream, signalled, nkills>>

\* result_queue.get(timeout=15) raises queue.Empty.  With part of a message
\* in the pipe the read blocks without a timeout instead.
GetTimesOut ==
    /\ pc = "await" /\ nread = Len(results) /\ ~torn
    /\ pc' = "check"
    /\ UNCHANGED <<expecting, base, nstarted, outcome, wpc, wjob, jobStream,
                   resultStream, nread, signalled, nkills>>

\* Mutant: exit codes are not looked at.
CheckNothing ==
    /\ pc = "check" /\ pc' = "await"
    /\ UNCHANGED <<expecting, base, nstarted, outcome, wpc, wjob, jobStream,
                   resultStream, nread, signalled, nkills>>

\* _unexpected_worker_exits: any exit code raises, otherwise the loop goes on.
CheckExits ==
    /\ pc = "check"
    /\ IF \E w \in Worker : wpc[w] = "dead"
       THEN pc' = "force" /\ outcome' = "raised"
       ELSE pc' = "await" /\ UNCHANGED outcome
    /\ UNCHANGED <<expecting, base, nstarted, wpc, wjob, jobStream,
                   resultStream, nread, signalled, nkills>>

\* The pool is ready and run is called: it returns [] for no jobs, otherwise
\* puts every job, numbered in order, and waits for as many messages.
Run ==
    /\ pc = "gotAll" /\ expecting = "ready"
    /\ expecting' = "job" /\ base' = nread
    /\ jobsPut' = NJobs
    /\ IF NJobs = 0
       THEN pc' = "graceful" /\ outcome' = "returned"
       ELSE pc' = "await" /\ UNCHANGED outcome
    /\ UNCHANGED <<nstarted, wpc, wjob, jobsSent, jobsGot, getLock,
                   resultStream, nread, signalled, nkills>>

\* run has every message: it sorts them and returns.
RunReturns ==
    /\ pc = "gotAll" /\ expecting = "job"
    /\ pc' = "graceful" /\ outcome' = "returned"
    /\ UNCHANGED <<expecting, base, nstarted, wpc, wjob, jobStream,
                   resultStream, nread, signalled, nkills>>

\* Mutant: a forced stop only joins.
ForceJoinOnly ==
    /\ pc = "force" /\ pc' = "lastJoin"
    /\ UNCHANGED <<expecting, base, nstarted, outcome, wpc, wjob, jobStream,
                   resultStream, nread, signalled, nkills>>

\* _stop_workers(force=True): terminate whoever is alive, then join.
ForceStop ==
    /\ pc = "force"
    /\ signalled' = {w \in Worker : Alive(w)}
    /\ pc' = "lastJoin"
    /\ UNCHANGED <<expecting, base, nstarted, outcome, wpc, wjob, jobStream,
                   resultStream, nread, nkills>>

\* _stop_workers(force=False): one None per process, ...
PutPills ==
    /\ pc = "graceful"
    /\ jobsPut' = jobsPut + NGpus
    /\ pc' = "join"
    /\ UNCHANGED <<expecting, base, nstarted, outcome, wpc, wjob, jobsSent,
                   jobsGot, getLock, resultStream, nread, signalled, nkills>>

\* Mutant: workers that missed the join timeout are not terminated.
LeaveStragglers ==
    /\ pc = "join" /\ pc' = "lastJoin"
    /\ UNCHANGED <<expecting, base, nstarted, outcome, wpc, wjob, jobStream,
                   resultStream, nread, signalled, nkills>>

\* ... join(timeout=30) each, after which whoever is alive is terminated.
TerminateStragglers ==
    /\ pc = "join"
    /\ signalled' = {w \in Worker : Alive(w)}
    /\ pc' = "lastJoin"
    /\ UNCHANGED <<expecting, base, nstarted, outcome, wpc, wjob, jobStream,
                   resultStream, nread, nkills>>

\* join(timeout=10) returns when the process is dead or the time is over.
LastJoin ==
    /\ pc = "lastJoin"
    /\ pc' = "left"
    /\ UNCHANGED <<expecting, base, nstarted, outcome, wpc, wjob, jobStream,
                   resultStream, nread, signalled, nkills>>

\* The interpreter exits: multiprocessing first joins the children, which are
\* not daemons, and the feeder thread of job_queue.
DriverExits ==
    /\ pc = "left"
    /\ \A w \in Worker : ~Alive(w)
    /\ jobsSent = jobsPut
    /\ pc' = "exited"
    /\ UNCHANGED <<expecting, base, nstarted, outcome, wpc, wjob, jobStream,
                   resultStream, nread, signalled, nkills>>

\* The driver's feeder thread: a job needs room in the pipe, a pill always fits.
FeedJobs ==
    /\ pc # "exited" /\ jobsSent < jobsPut
    /\ jobsSent + 1 \in Batch => jobsSent - jobsGot < PipeCap
    /\ jobsSent' = jobsSent + 1
    /\ UNCHANGED <<driver, wpc, wjob, jobsPut, jobsGot, getLock, resultStream,
                   nread, signalled, nkills>>

-----------------------------------------------------------------------------
(* A worker, _gpu_worker.                                                  *)

\* The model loads: "ready", and the job loop begins.
LoadModel(w) ==
    /\ wpc[w] = "loading"
    /\ outbox' = [outbox EXCEPT ![w] = Append(@, Ready(w, TRUE))]
    /\ wpc' = [wpc EXCEPT ![w] = "get"]
    /\ UNCHANGED <<driver, wjob, jobStream, writeLock, torn, results, nread,
                   signalled, nkills>>

\* Anything raised while loading is reported and the worker returns.
LoadFails(w) ==
    /\ wpc[w] = "loading"
    /\ outbox' = [outbox EXCEPT ![w] = Append(@, Ready(w, FALSE))]
    /\ wpc' = [wpc EXCEPT ![w] = "return"]
    /\ UNCHANGED <<driver, wjob, jobStream, writeLock, torn, results, nread,
                   signalled, nkills>>

\* job_queue.get(): take the reader lock and keep it until an item is there.
LockQueue(w) ==
    /\ wpc[w] = "get" /\ getLock = Nobody
    /\ getLock' = w
    /\ wpc' = [wpc EXCEPT ![w] = "recv"]
    /\ UNCHANGED <<driver, wjob, jobsPut, jobsSent, jobsGot, resultStream,
                   nread, signalled, nkills>>

TakeItem(w) ==
    /\ wpc[w] = "recv" /\ jobsGot < jobsSent
    /\ jobsGot' = jobsGot + 1
    /\ getLock' = Nobody
    /\ IF jobsGot + 1 \in Batch
       THEN /\ wjob' = [wjob EXCEPT ![w] = jobsGot + 1]
            /\ wpc' = [wpc EXCEPT ![w] = "work"]
       ELSE /\ wpc' = [wpc EXCEPT ![w] = "return"]
            /\ UNCHANGED wjob
    /\ UNCHANGED <<driver, jobsPut, jobsSent, resultStream, nread, signalled,
                   nkills>>

\* The job is done: its message is put and the loop goes on.
FinishJob(w) ==
    /\ wpc[w] = "work"
    /\ outbox' = [outbox EXCEPT ![w] = Append(@, Done(w, wjob[w], TRUE))]
    /\ wjob' = [wjob EXCEPT ![w] = NoJob]
    /\ wpc' = [wpc EXCEPT ![w] = "get"]
    /\ UNCHANGED <<driver, jobStream, writeLock, torn, results, nread,
                   signalled, nkills>>

\* The job raises: the error is put and the worker returns.
JobFails(w) ==
    /\ wpc[w] = "work"
    /\ outbox' = [outbox EXCEPT ![w] = Append(@, Done(w, wjob[w], FALSE))]
    /\ wjob' = [wjob EXCEPT ![w] = NoJob]
    /\ wpc' = [wpc EXCEPT ![w] = "return"]
    /\ UNCHANGED <<driver, jobStream, writeLock, torn, results, nread,
                   signalled, nkills>>

\* The worker's feeder thread writes a message while it holds the write lock.
BeginWrite(w) ==
    /\ Alive(w) /\ outbox[w] # << >> /\ writeLock = Nobody
    /\ writeLock' = w
    /\ UNCHANGED <<driver, wpc, wjob, jobStream, outbox, torn, results, nread,
                   signalled, nkills>>

EndWrite(w) ==
    /\ Alive(w) /\ writeLock = w
    /\ results' = Append(results, Head(outbox[w]))
    /\ outbox' = [outbox EXCEPT ![w] = Tail(@)]
    /\ writeLock' = Nobody
    /\ UNCHANGED <<driver, wpc, wjob, jobStream, torn, nread, signalled, nkills>>

\* The process of a worker that returned ends once its feeder is done.
Exit(w) ==
    /\ wpc[w] = "return" /\ outbox[w] = << >>
    /\ wpc' = [wpc EXCEPT ![w] = "dead"]
    /\ UNCHANGED <<driver, wjob, jobStream, resultStream, nread, signalled,
                   nkills>>

\* The process ends at once: its job and its outbox are lost, a lock it holds
\* is never released, and a message it was writing may be cut off.
Die(w) ==
    /\ Alive(w)
    /\ wpc' = [wpc EXCEPT ![w] = "dead"]
    /\ wjob' = [wjob EXCEPT ![w] = NoJob]
    /\ outbox' = [outbox EXCEPT ![w] = << >>]
    /\ torn' \in IF writeLock = w THEN BOOLEAN ELSE {torn}
    /\ UNCHANGED <<driver, jobStream, writeLock, results, nread, signalled>>

\* terminate() takes effect.
Terminated(w) == w \in signalled /\ Die(w) /\ UNCHANGED nkills

\* The process is killed from outside.
Killed(w) == nkills < MaxKills /\ Die(w) /\ nkills' = nkills + 1

-----------------------------------------------------------------------------
Driver ==
    \/ StartNext \/ ReceiveMessage \/ GetTimesOut \/ CheckExits
    \/ Run \/ RunReturns \/ ForceStop \/ PutPills \/ TerminateStragglers
    \/ LastJoin \/ DriverExits

MainThread(w) ==
    \/ LoadModel(w) \/ LoadFails(w) \/ LockQueue(w) \/ TakeItem(w)
    \/ FinishJob(w) \/ JobFails(w) \/ Exit(w)

FeederThread(w) == BeginWrite(w) \/ EndWrite(w)

\* The driver process is gone and nothing is left to happen.
Finished == pc = "exited" /\ UNCHANGED vars

Next ==
    \/ Driver \/ StartFails \/ FeedJobs \/ Finished
    \/ \E w \in Worker : \/ MainThread(w) \/ FeederThread(w)
                         \/ Terminated(w) \/ Killed(w)

\* Every process and feeder thread is scheduled; nobody has to fail.
Fairness ==
    /\ WF_vars(Driver) /\ WF_vars(FeedJobs)
    /\ \A w \in Worker : /\ WF_vars(MainThread(w)) /\ WF_vars(FeederThread(w))
                         /\ WF_vars(Terminated(w))

Spec == Init /\ [][Next]_vars /\ Fairness

-----------------------------------------------------------------------------
(* What the pool promises, in its own terms.                               *)

AnsweredJobs ==
    {results[i].batch : i \in {j \in DOMAIN results : results[j].kind = "job" /\ results[j].ok}}

\* A start that failed, a worker killed from outside, an error put in the queue.
SomethingFailed ==
    \/ nstarted < NGpus /\ pc \in {"left", "exited"}
    \/ nkills > 0
    \/ \E i \in DOMAIN results : ~results[i].ok

\* The list run returns, each message by its batch_id.
Returned ==
    IF outcome # "returned" THEN << >>
    ELSE LET list == SortByBatch(messages)
         IN  [i \in DOMAIN list |-> IF list[i].kind = "job" /\ list[i].ok THEN list[i].batch ELSE 0]

Promise == INSTANCE BatchRun WITH
    answered <- AnsweredJobs, failed <- SomethingFailed, value <- Returned

-----------------------------------------------------------------------------
(* Properties.                                                             *)

\* Every variable stays in its range: the batch_id of a message is one run
\* assigned, a lock is held by a worker, the queue counters are ordered.
TypeOK ==
    /\ pc \in {"start", "await", "check", "gotAll", "force", "graceful",
              "join", "lastJoin", "left", "exited"}
    /\ expecting \in {"ready", "job"} /\ outcome \in {"none", "returned", "raised"}
    /\ nstarted \in 0..NGpus /\ nkills \in 0..MaxKills
    /\ wpc \in [Worker -> {"new", "loading", "get", "recv", "work", "return", "dead"}]
    /\ wjob \in [Worker -> 0..NJobs]
    /\ outbox \in [Worker -> Seq(Message)]
    /\ jobsPut \in 0..(NJobs + NGpus)
    /\ jobsSent \in 0..jobsPut /\ jobsGot \in 0..jobsSent
    /\ getLock \in 0..NGpus /\ writeLock \in 0..NGpus /\ torn \in BOOLEAN
    /\ results \in Seq(Message) /\ nread \in 0..Len(results) /\ base \in 0..nread
    /\ signalled \in SUBSET Worker

\* The pool implements BatchRun: however the workers share the queue, fail or
\* are killed, a job is answered at most once, run returns every job's result in
\* the order of the jobs, it raises only if a start, a worker or a job failed,
\* and what it did stands.
KeepsPromise == Promise!Spec

\* "Unexpected worker message kind" is never raised: while the driver waits
\* for one kind, no worker has put a message of the other kind.
NoForeignMessage ==
    pc \in {"await", "check"} =>
        /\ \A i \in (nread + 1)..Len(results) : results[i].kind = expecting
        /\ \A w \in Worker : \A i \in DOMAIN outbox[w] :
                outbox[w][i].kind = expecting

\* A normal return never interrupts work: no worker still has a job or an
\* unsent message, so terminating the stragglers loses nothing.
ReturnLosesNoWork ==
    outcome = "returned" =>
        \A w \in Worker : wjob[w] = NoJob /\ outbox[w] = << >>

\* After the block no worker keeps its GPU unless it has been signalled,
\* save for a failed start, where __exit__ does not run.
NoWorkerForgotten ==
    pc \in {"left", "exited"} /\ nstarted = NGpus =>
        \A w \in Worker : Alive(w) => w \in signalled

\* The three ways the driver process can hang for ever: workers forgotten by a
\* failed start, a result cut off in the pipe by a killed writer, and jobs that
\* a forced stop left in the feeder of job_queue.
HangsOnlyWhen ==
    ~ENABLED Next =>
        \/ nstarted < NGpus
        \/ torn /\ nread = Len(results)
        \/ outcome = "raised" /\ jobsSent < jobsPut

\* The with block is left, unless the pipe is torn.
BlockIsLeft == <>(pc = "left" \/ torn)

\* A process whose run returned exits: the pills do not keep the feeder busy
\* and every worker ends, by its pill or by terminate().
ReturnedDriverExits == (outcome = "returned") ~> (pc = "exited")

\* What a user waits for: the block is left and a successful process ends, without
\* a deadline on the results, by messages and exit codes alone.
DriverFinishes == BlockIsLeft /\ ReturnedDriverExits
=============================================================================
