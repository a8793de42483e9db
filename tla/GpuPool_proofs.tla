-------------------------- MODULE GpuPool_proofs --------------------------
(***************************************************************************)
(* Proofs about GpuPool for every number of GPUs, jobs and kills.          *)
(*                                                                         *)
(* The argument is one about tokens.  A job taken from the queue, and the  *)
(* one "ready" a worker owes, is a token; a token is held by a worker or   *)
(* carried by one message, never both and never twice (Distinct).  A wait  *)
(* that has collected as many messages as there are tokens of its kind has *)
(* therefore collected every token, by the pigeonhole principle.           *)
(***************************************************************************)
EXTENDS GpuPool, Integers, TLAPS, FiniteSetTheorems, SequenceTheorems

-----------------------------------------------------------------------------
(* The inductive invariant.                                                *)

Token(m) == IF m.kind = "ready" THEN 0 - m.gpu ELSE m.batch

\* What worker w still owes a message for; 0 if nothing.
Held(w) == IF wpc[w] \in {"new", "loading"} THEN 0 - w ELSE wjob[w]

\* Control of the driver: how far each wait is and what run has put.
DriverInv ==
    /\ \A w \in Worker : wpc[w] = "new" <=> w > nstarted
    /\ pc \notin {"start", "left", "exited"} => nstarted = NGpus
    /\ pc = "start" => nread = 0 /\ expecting = "ready" /\ outcome = "none"
    /\ expecting = "ready" => jobsPut = 0 /\ base = 0
    /\ expecting = "job" => base = NGpus
    /\ pc \in {"await", "check"} => nread - base < wanted /\ outcome = "none"
    /\ pc = "gotAll" => nread - base = wanted /\ outcome = "none"
    /\ outcome = "returned" => expecting = "job" /\ nread = base + NJobs
    /\ pc = "force" => outcome = "raised"
    /\ pc \in {"graceful", "join"} => outcome = "returned"
    /\ expecting = "job" /\ pc \in {"await", "check", "gotAll", "graceful"} => jobsPut = NJobs

\* What the driver has kept of the messages it has read.
ReadInv ==
    /\ expecting = "job" => \A i \in 1..base : results[i].kind = "ready"
    /\ outcome # "raised" =>
         \A i \in (base + 1)..nread : results[i].kind = expecting /\ results[i].ok

\* A worker has a job only while it works on it, and a writer has a message.
WorkerInv ==
    /\ \A w \in Worker : wjob[w] # NoJob <=> wpc[w] = "work"
    /\ \A w \in Worker : writeLock = w /\ Alive(w) => outbox[w] # << >>
    /\ \A w \in Worker : \A i \in 1..Len(outbox[w]) : outbox[w][i].gpu = w
    /\ \A w \in Worker : wpc[w] = "new" => outbox[w] = << >> /\ writeLock # w

\* No token comes from a job that is still in the queue.
Issued ==
    /\ \A w \in Worker : wjob[w] <= jobsGot
    /\ \A w \in Worker : \A i \in 1..Len(outbox[w]) :
          Token(outbox[w][i]) # 0 /\ Token(outbox[w][i]) <= jobsGot
    /\ \A i \in 1..Len(results) : Token(results[i]) # 0 /\ Token(results[i]) <= jobsGot

\* Every token is in one place.
Distinct ==
    /\ \A v, w \in Worker : v # w /\ Held(v) # 0 => Held(v) # Held(w)
    /\ \A v, w \in Worker : \A i \in 1..Len(outbox[w]) : Token(outbox[w][i]) # Held(v)
    /\ \A v \in Worker : \A i \in 1..Len(results) : Token(results[i]) # Held(v)
    /\ \A v, w \in Worker : \A i \in 1..Len(outbox[v]), j \in 1..Len(outbox[w]) :
          Token(outbox[v][i]) = Token(outbox[w][j]) => v = w /\ i = j
    /\ \A v \in Worker : \A i \in 1..Len(outbox[v]), j \in 1..Len(results) :
          Token(outbox[v][i]) # Token(results[j])
    /\ \A i, j \in 1..Len(results) : Token(results[i]) = Token(results[j]) => i = j

IInv == TypeOK /\ DriverInv /\ ReadInv /\ WorkerInv /\ Issued /\ Distinct

-----------------------------------------------------------------------------
(* Type correctness.                                                       *)

\* A worker's messages are messages.
LEMMA MessageType ==
    ASSUME NEW w \in Worker, NEW ok \in BOOLEAN, NEW b \in 0..NJobs
    PROVE  Ready(w, ok) \in Message /\ Done(w, b, ok) \in Message
BY NJobsAssumption DEF Ready, Done, Message, NoJob

\* The initial state satisfies the invariant.
LEMMA InitInv == Init => IInv
<1> SUFFICES ASSUME Init PROVE IInv
    OBVIOUS
<1> USE NGpusAssumption, NJobsAssumption, MaxKillsAssumption DEF Init, Nobody, NoJob
<1>1. TypeOK
  <2>1. outbox \in [Worker -> Seq(Message)] /\ results \in Seq(Message)
    OBVIOUS
  <2>2. wpc \in [Worker -> {"new", "loading", "get", "recv", "work", "return", "dead"}]
    OBVIOUS
  <2>3. wjob \in [Worker -> 0..NJobs]
    OBVIOUS
  <2>4. torn \in BOOLEAN /\ signalled \in SUBSET Worker
    OBVIOUS
  <2>5. nread \in 0..Len(results) /\ base \in 0..nread
    OBVIOUS
  <2>. QED
    BY <2>1, <2>2, <2>3, <2>4, <2>5 DEF TypeOK
<1>2. DriverInv /\ ReadInv
    BY DEF DriverInv, ReadInv, Worker, wanted
<1>3. WorkerInv /\ Issued
    BY DEF WorkerInv, Issued, Alive, Worker
<1>4. Distinct
    BY DEF Distinct, Held
<1>. QED
    BY <1>1, <1>2, <1>3, <1>4 DEF IInv

\* Every step keeps every variable in its range.
LEMMA TypeStep ==
    ASSUME TypeOK, DriverInv, WorkerInv, [Next]_vars
    PROVE  TypeOK'
<1> USE NGpusAssumption, NJobsAssumption, MaxKillsAssumption DEF Nobody, NoJob
<1>1. CASE StartNext
    BY <1>1 DEF TypeOK, StartNext, Worker, driver, jobStream, resultStream
<1>2. CASE StartFails
    BY <1>2 DEF TypeOK, StartFails, driver, jobStream, resultStream
<1>3. CASE ReceiveMessage
    BY <1>3 DEF TypeOK, ReceiveMessage, driver, jobStream, resultStream
<1>4. CASE GetTimesOut
    BY <1>4 DEF TypeOK, GetTimesOut, driver, jobStream, resultStream
<1>5. CASE CheckExits
    BY <1>5 DEF TypeOK, CheckExits, driver, jobStream, resultStream
<1>6. CASE Run
    BY <1>6 DEF TypeOK, DriverInv, Run, driver, jobStream, resultStream
<1>7. CASE RunReturns
    BY <1>7 DEF TypeOK, RunReturns, driver, jobStream, resultStream
<1>8. CASE ForceStop
    BY <1>8 DEF TypeOK, ForceStop, driver, jobStream, resultStream
<1>9. CASE PutPills
    BY <1>9 DEF TypeOK, PutPills, driver, jobStream, resultStream, DriverInv
<1>10. CASE TerminateStragglers
    BY <1>10 DEF TypeOK, TerminateStragglers, driver, jobStream, resultStream
<1>11. CASE LastJoin
    BY <1>11 DEF TypeOK, LastJoin, driver, jobStream, resultStream
<1>12. CASE DriverExits
    BY <1>12 DEF TypeOK, DriverExits, driver, jobStream, resultStream
<1>13. CASE FeedJobs
    BY <1>13 DEF TypeOK, FeedJobs, driver, jobStream, resultStream
<1>14. CASE Finished
    BY <1>14 DEF TypeOK, Finished, driver, jobStream, resultStream, vars
<1>15. ASSUME NEW w \in Worker, LoadModel(w) PROVE TypeOK'
  <2>1. PICK m \in Message : m = Ready(w, TRUE)
    BY MessageType DEF TypeOK
  <2>2. outbox' = [outbox EXCEPT ![w] = Append(@, m)]
    BY <2>1, <1>15 DEF LoadModel
  <2>3. outbox' \in [Worker -> Seq(Message)]
    BY <2>2 DEF TypeOK
  <2>4. wpc' \in [Worker -> {"new", "loading", "get", "recv", "work", "return", "dead"}]
    BY <1>15 DEF TypeOK, LoadModel
  <2>5. wjob' \in [Worker -> 0..NJobs]
    BY <1>15 DEF TypeOK, LoadModel
  <2>. QED
    BY <2>3, <2>4, <2>5, <1>15 DEF TypeOK, LoadModel, driver, jobStream, resultStream
<1>16. ASSUME NEW w \in Worker, LoadFails(w) PROVE TypeOK'
  <2>1. PICK m \in Message : m = Ready(w, FALSE)
    BY MessageType DEF TypeOK
  <2>2. outbox' = [outbox EXCEPT ![w] = Append(@, m)]
    BY <2>1, <1>16 DEF LoadFails
  <2>3. outbox' \in [Worker -> Seq(Message)]
    BY <2>2 DEF TypeOK
  <2>4. wpc' \in [Worker -> {"new", "loading", "get", "recv", "work", "return", "dead"}]
    BY <1>16 DEF TypeOK, LoadFails
  <2>5. wjob' \in [Worker -> 0..NJobs]
    BY <1>16 DEF TypeOK, LoadFails
  <2>. QED
    BY <2>3, <2>4, <2>5, <1>16 DEF TypeOK, LoadFails, driver, jobStream, resultStream
<1>17. ASSUME NEW w \in Worker, LockQueue(w) PROVE TypeOK'
    BY <1>17, SMTT(20) DEF TypeOK, LockQueue, Worker, driver, jobStream, resultStream
<1>18. ASSUME NEW w \in Worker, TakeItem(w) PROVE TypeOK'
  <2>1. wpc' \in [Worker -> {"new", "loading", "get", "recv", "work", "return", "dead"}]
    BY <1>18 DEF TypeOK, TakeItem
  <2>2. wjob' \in [Worker -> 0..NJobs]
    <3>1. CASE jobsGot + 1 \in Batch
      <4>1. jobsGot + 1 \in 0..NJobs
        BY <3>1 DEF Batch
      <4>. QED
        BY <4>1, <3>1, <1>18 DEF TypeOK, TakeItem
    <3>2. CASE jobsGot + 1 \notin Batch
        BY <3>2, <1>18 DEF TypeOK, TakeItem
    <3>. QED
        BY <3>1, <3>2
  <2>. QED
    BY <2>1, <2>2, <1>18 DEF TypeOK, TakeItem, driver, jobStream, resultStream
<1>19. ASSUME NEW w \in Worker, FinishJob(w) PROVE TypeOK'
  <2>1. PICK m \in Message : m = Done(w, wjob[w], TRUE)
    BY MessageType DEF TypeOK
  <2>2. outbox' = [outbox EXCEPT ![w] = Append(@, m)]
    BY <2>1, <1>19 DEF FinishJob
  <2>3. outbox' \in [Worker -> Seq(Message)]
    BY <2>2 DEF TypeOK
  <2>4. wpc' \in [Worker -> {"new", "loading", "get", "recv", "work", "return", "dead"}]
    BY <1>19 DEF TypeOK, FinishJob
  <2>5. wjob' \in [Worker -> 0..NJobs]
    BY <1>19 DEF TypeOK, FinishJob
  <2>. QED
    BY <2>3, <2>4, <2>5, <1>19 DEF TypeOK, FinishJob, driver, jobStream, resultStream
<1>20. ASSUME NEW w \in Worker, JobFails(w) PROVE TypeOK'
  <2>1. PICK m \in Message : m = Done(w, wjob[w], FALSE)
    BY MessageType DEF TypeOK
  <2>2. outbox' = [outbox EXCEPT ![w] = Append(@, m)]
    BY <2>1, <1>20 DEF JobFails
  <2>3. outbox' \in [Worker -> Seq(Message)]
    BY <2>2 DEF TypeOK
  <2>4. wpc' \in [Worker -> {"new", "loading", "get", "recv", "work", "return", "dead"}]
    BY <1>20 DEF TypeOK, JobFails
  <2>5. wjob' \in [Worker -> 0..NJobs]
    BY <1>20 DEF TypeOK, JobFails
  <2>. QED
    BY <2>3, <2>4, <2>5, <1>20 DEF TypeOK, JobFails, driver, jobStream, resultStream
<1>21. ASSUME NEW w \in Worker, BeginWrite(w) PROVE TypeOK'
    BY <1>21, SMTT(20) DEF TypeOK, BeginWrite, Worker, driver, jobStream, resultStream
<1>22. ASSUME NEW w \in Worker, EndWrite(w) PROVE TypeOK'
  <2>1. outbox[w] # << >> /\ outbox[w] \in Seq(Message)
    BY <1>22 DEF EndWrite, WorkerInv, TypeOK
  <2>2. Head(outbox[w]) \in Message /\ Tail(outbox[w]) \in Seq(Message)
    BY <2>1
  <2>3. results' \in Seq(Message) /\ Len(results') = Len(results) + 1
    BY <2>2, <1>22 DEF EndWrite, TypeOK
  <2>4. outbox' \in [Worker -> Seq(Message)]
    BY <2>2, <1>22 DEF EndWrite, TypeOK
  <2>. QED
    BY <2>3, <2>4, <1>22 DEF TypeOK, EndWrite, driver, jobStream, resultStream
<1>23. ASSUME NEW w \in Worker, Exit(w) PROVE TypeOK'
    BY <1>23 DEF TypeOK, Exit, driver, jobStream, resultStream
<1>24. ASSUME NEW w \in Worker, Terminated(w) PROVE TypeOK'
    BY <1>24 DEF TypeOK, Terminated, driver, jobStream, resultStream, Die, Alive
<1>25. ASSUME NEW w \in Worker, Killed(w) PROVE TypeOK'
    BY <1>25 DEF TypeOK, Killed, driver, jobStream, resultStream, Die, Alive
<1>26. CASE UNCHANGED vars
    BY <1>26 DEF TypeOK, vars, driver, jobStream, resultStream
<1>. QED
    BY <1>1, <1>2, <1>3, <1>4, <1>5, <1>6, <1>7, <1>8, <1>9, <1>10, <1>11, <1>12, <1>13, <1>14,
       <1>15, <1>16, <1>17, <1>18, <1>19, <1>20, <1>21, <1>22, <1>23, <1>24, <1>25,
       <1>26 DEF Next, Driver, MainThread, FeederThread
\* Every step keeps the driver's control invariant.
LEMMA DriverStep ==
    ASSUME TypeOK, DriverInv, [Next]_vars
    PROVE  DriverInv'
<1> USE NGpusAssumption, NJobsAssumption
<1>1. CASE StartNext
    BY <1>1 DEF TypeOK, DriverInv, wanted, StartNext, driver, jobStream, resultStream, Worker
<1>2. CASE StartFails
    BY <1>2 DEF TypeOK, DriverInv, wanted, StartFails, driver, jobStream, resultStream
<1>3. CASE ReceiveMessage
    BY <1>3 DEF TypeOK, DriverInv, wanted, ReceiveMessage, driver, jobStream, resultStream
<1>4. CASE GetTimesOut
    BY <1>4 DEF TypeOK, DriverInv, wanted, GetTimesOut, driver, jobStream, resultStream
<1>5. CASE CheckExits
    BY <1>5 DEF TypeOK, DriverInv, wanted, CheckExits, driver, jobStream, resultStream
<1>6. CASE Run
    BY <1>6 DEF TypeOK, DriverInv, wanted, Run, driver, jobStream, resultStream
<1>7. CASE RunReturns
    BY <1>7 DEF TypeOK, DriverInv, wanted, RunReturns, driver, jobStream, resultStream
<1>8. CASE ForceStop
    BY <1>8 DEF TypeOK, DriverInv, wanted, ForceStop, driver, jobStream, resultStream
<1>9. CASE PutPills
    BY <1>9 DEF TypeOK, DriverInv, wanted, PutPills, driver, jobStream, resultStream
<1>10. CASE TerminateStragglers
    BY <1>10 DEF TypeOK, DriverInv, wanted, TerminateStragglers, driver, jobStream, resultStream
<1>11. CASE LastJoin
    BY <1>11 DEF TypeOK, DriverInv, wanted, LastJoin, driver, jobStream, resultStream
<1>12. CASE DriverExits
    BY <1>12 DEF TypeOK, DriverInv, wanted, DriverExits, driver, jobStream, resultStream
<1>13. CASE FeedJobs
    BY <1>13 DEF TypeOK, DriverInv, wanted, FeedJobs, driver, jobStream, resultStream
<1>14. CASE Finished
    BY <1>14 DEF TypeOK, DriverInv, wanted, Finished, vars, driver, jobStream, resultStream
<1>15. ASSUME NEW w \in Worker, LoadModel(w) PROVE DriverInv'
    BY <1>15 DEF TypeOK, DriverInv, wanted, LoadModel, driver, jobStream, resultStream
<1>16. ASSUME NEW w \in Worker, LoadFails(w) PROVE DriverInv'
    BY <1>16 DEF TypeOK, DriverInv, wanted, LoadFails, driver, jobStream, resultStream
<1>17. ASSUME NEW w \in Worker, LockQueue(w) PROVE DriverInv'
    BY <1>17 DEF TypeOK, DriverInv, wanted, LockQueue, driver, jobStream, resultStream
<1>18. ASSUME NEW w \in Worker, TakeItem(w) PROVE DriverInv'
    BY <1>18 DEF TypeOK, DriverInv, wanted, TakeItem, driver, jobStream, resultStream
<1>19. ASSUME NEW w \in Worker, FinishJob(w) PROVE DriverInv'
    BY <1>19 DEF TypeOK, DriverInv, wanted, FinishJob, driver, jobStream, resultStream
<1>20. ASSUME NEW w \in Worker, JobFails(w) PROVE DriverInv'
    BY <1>20 DEF TypeOK, DriverInv, wanted, JobFails, driver, jobStream, resultStream
<1>21. ASSUME NEW w \in Worker, BeginWrite(w) PROVE DriverInv'
    BY <1>21 DEF TypeOK, DriverInv, wanted, BeginWrite, driver, jobStream, resultStream
<1>22. ASSUME NEW w \in Worker, EndWrite(w) PROVE DriverInv'
    BY <1>22 DEF TypeOK, DriverInv, wanted, EndWrite, driver, jobStream, resultStream
<1>23. ASSUME NEW w \in Worker, Exit(w) PROVE DriverInv'
    BY <1>23 DEF TypeOK, DriverInv, wanted, Exit, driver, jobStream, resultStream
<1>24. ASSUME NEW w \in Worker, Terminated(w) PROVE DriverInv'
    BY <1>24 DEF TypeOK, DriverInv, wanted, Terminated, Die, driver, jobStream, resultStream, Alive
<1>25. ASSUME NEW w \in Worker, Killed(w) PROVE DriverInv'
    BY <1>25 DEF TypeOK, DriverInv, wanted, Killed, Die, driver, jobStream, resultStream, Alive
<1>26. CASE UNCHANGED vars
    BY <1>26 DEF TypeOK, DriverInv, wanted, vars, driver, jobStream, resultStream
<1>. QED
    BY <1>1, <1>2, <1>3, <1>4, <1>5, <1>6, <1>7, <1>8, <1>9, <1>10, <1>11, <1>12, <1>13, <1>14,
       <1>15, <1>16, <1>17, <1>18, <1>19, <1>20, <1>21, <1>22, <1>23, <1>24, <1>25,
       <1>26 DEF Next, Driver, MainThread, FeederThread

\* Every step keeps what is known of the messages read so far.
LEMMA ReadStep ==
    ASSUME TypeOK, DriverInv, WorkerInv, ReadInv, [Next]_vars
    PROVE  ReadInv'
<1> USE NGpusAssumption, NJobsAssumption
<1>1. CASE StartNext
    BY <1>1 DEF TypeOK, ReadInv, StartNext, driver, jobStream, resultStream, DriverInv
<1>2. CASE StartFails
    BY <1>2 DEF TypeOK, ReadInv, StartFails, driver, jobStream, resultStream
<1>3. CASE ReceiveMessage
    BY <1>3 DEF TypeOK, ReadInv, ReceiveMessage, driver, jobStream, resultStream, DriverInv
<1>4. CASE GetTimesOut
    BY <1>4 DEF TypeOK, ReadInv, GetTimesOut, driver, jobStream, resultStream
<1>5. CASE CheckExits
    BY <1>5 DEF TypeOK, ReadInv, CheckExits, driver, jobStream, resultStream
<1>6. CASE Run
    BY <1>6 DEF TypeOK, ReadInv, Run, driver, jobStream, resultStream, DriverInv
<1>7. CASE RunReturns
    BY <1>7 DEF TypeOK, ReadInv, RunReturns, driver, jobStream, resultStream, DriverInv
<1>8. CASE ForceStop
    BY <1>8 DEF TypeOK, ReadInv, ForceStop, driver, jobStream, resultStream
<1>9. CASE PutPills
    BY <1>9 DEF TypeOK, ReadInv, PutPills, driver, jobStream, resultStream, DriverInv
<1>10. CASE TerminateStragglers
    BY <1>10 DEF TypeOK, ReadInv, TerminateStragglers, driver, jobStream, resultStream
<1>11. CASE LastJoin
    BY <1>11 DEF TypeOK, ReadInv, LastJoin, driver, jobStream, resultStream
<1>12. CASE DriverExits
    BY <1>12 DEF TypeOK, ReadInv, DriverExits, driver, jobStream, resultStream
<1>13. CASE FeedJobs
    BY <1>13 DEF TypeOK, ReadInv, FeedJobs, driver, jobStream, resultStream
<1>14. CASE Finished
    BY <1>14 DEF TypeOK, ReadInv, Finished, vars, driver, jobStream, resultStream
<1>15. ASSUME NEW w \in Worker, LoadModel(w) PROVE ReadInv'
    BY <1>15 DEF TypeOK, ReadInv, LoadModel, driver, jobStream, resultStream
<1>16. ASSUME NEW w \in Worker, LoadFails(w) PROVE ReadInv'
    BY <1>16 DEF TypeOK, ReadInv, LoadFails, driver, jobStream, resultStream
<1>17. ASSUME NEW w \in Worker, LockQueue(w) PROVE ReadInv'
    BY <1>17 DEF TypeOK, ReadInv, LockQueue, driver, jobStream, resultStream
<1>18. ASSUME NEW w \in Worker, TakeItem(w) PROVE ReadInv'
    BY <1>18 DEF TypeOK, ReadInv, TakeItem, driver, jobStream, resultStream
<1>19. ASSUME NEW w \in Worker, FinishJob(w) PROVE ReadInv'
    BY <1>19 DEF TypeOK, ReadInv, FinishJob, driver, jobStream, resultStream
<1>20. ASSUME NEW w \in Worker, JobFails(w) PROVE ReadInv'
    BY <1>20 DEF TypeOK, ReadInv, JobFails, driver, jobStream, resultStream
<1>21. ASSUME NEW w \in Worker, BeginWrite(w) PROVE ReadInv'
    BY <1>21 DEF TypeOK, ReadInv, BeginWrite, driver, jobStream, resultStream
<1>22. ASSUME NEW w \in Worker, EndWrite(w) PROVE ReadInv'
  <2>1. PICK m \in Message : results' = Append(results, m)
    <3>1. outbox[w] # << >> /\ outbox[w] \in Seq(Message)
      BY <1>22 DEF EndWrite, WorkerInv, TypeOK
    <3>. QED
      BY <3>1, <1>22 DEF EndWrite
  <2>2. \A i \in 1..Len(results) : results'[i] = results[i]
    BY <2>1 DEF TypeOK
  <2>. QED
    BY <2>2, <1>22 DEF TypeOK, ReadInv, EndWrite, driver
<1>23. ASSUME NEW w \in Worker, Exit(w) PROVE ReadInv'
    BY <1>23 DEF TypeOK, ReadInv, Exit, driver, jobStream, resultStream
<1>24. ASSUME NEW w \in Worker, Terminated(w) PROVE ReadInv'
    BY <1>24 DEF TypeOK, ReadInv, Terminated, Die, driver, jobStream, resultStream
<1>25. ASSUME NEW w \in Worker, Killed(w) PROVE ReadInv'
    BY <1>25 DEF TypeOK, ReadInv, Killed, Die, driver, jobStream, resultStream
<1>26. CASE UNCHANGED vars
    BY <1>26 DEF TypeOK, ReadInv, vars, driver, jobStream, resultStream
<1>. QED
    BY <1>1, <1>2, <1>3, <1>4, <1>5, <1>6, <1>7, <1>8, <1>9, <1>10, <1>11, <1>12, <1>13, <1>14,
       <1>15, <1>16, <1>17, <1>18, <1>19, <1>20, <1>21, <1>22, <1>23, <1>24, <1>25,
       <1>26 DEF Next, Driver, MainThread, FeederThread

\* The four steps that put a message turn what the worker holds into a message
\* at the end of its outbox and leave the worker with nothing.
LEMMA PutFacts ==
    ASSUME TypeOK, WorkerInv, NEW w \in Worker,
           LoadModel(w) \/ LoadFails(w) \/ FinishJob(w) \/ JobFails(w)
    PROVE  \E m \in Message :
             /\ m.gpu = w /\ Token(m) = Held(w)
             /\ outbox' = [outbox EXCEPT ![w] = Append(@, m)]
             /\ wpc[w] \in {"loading", "work"} /\ wpc'[w] \in {"get", "return"}
             /\ wjob'[w] = NoJob
             /\ \A v \in Worker \ {w} : wpc'[v] = wpc[v] /\ wjob'[v] = wjob[v]
             /\ UNCHANGED <<jobsGot, results, writeLock>>
<1> DEFINE Put(m) == /\ m.gpu = w /\ Token(m) = Held(w)
                     /\ outbox' = [outbox EXCEPT ![w] = Append(@, m)]
<1>1. /\ wpc[w] \in {"loading", "work"} /\ wpc'[w] \in {"get", "return"}
      /\ \A v \in Worker \ {w} : wpc'[v] = wpc[v]
    BY DEF TypeOK, LoadModel, LoadFails, FinishJob, JobFails
<1>2. wjob'[w] = NoJob /\ \A v \in Worker \ {w} : wjob'[v] = wjob[v]
    BY DEF TypeOK, WorkerInv, LoadModel, LoadFails, FinishJob, JobFails
<1>3. UNCHANGED <<jobsGot, results, writeLock>>
    BY DEF LoadModel, LoadFails, FinishJob, JobFails, jobStream
<1>4. ASSUME LoadModel(w) \/ LoadFails(w) PROVE \E m \in Message : Put(m)
  <2>1. PICK ok \in BOOLEAN : outbox' = [outbox EXCEPT ![w] = Append(@, Ready(w, ok))]
    BY <1>4 DEF LoadModel, LoadFails
  <2>2. PICK m \in Message : m = Ready(w, ok)
    BY MessageType, NJobsAssumption
  <2>3. m.gpu = w /\ Token(m) = Held(w)
    BY <2>2, <1>4 DEF Ready, Token, Held, LoadModel, LoadFails
  <2>. QED
    BY <2>1, <2>2, <2>3
<1>5. ASSUME FinishJob(w) \/ JobFails(w) PROVE \E m \in Message : Put(m)
  <2>1. PICK ok \in BOOLEAN : outbox' = [outbox EXCEPT ![w] = Append(@, Done(w, wjob[w], ok))]
    BY <1>5 DEF FinishJob, JobFails
  <2>2. PICK m \in Message : m = Done(w, wjob[w], ok)
    BY MessageType DEF TypeOK
  <2>3. m.gpu = w /\ Token(m) = Held(w)
    BY <2>2, <1>5 DEF Done, Token, Held, FinishJob, JobFails
  <2>. QED
    BY <2>1, <2>2, <2>3
<1>6. PICK m \in Message : Put(m)
    BY <1>4, <1>5
<1>. QED
    BY <1>1, <1>2, <1>3, <1>6

\* Writing a message moves the head of an outbox to the end of the pipe.
LEMMA WriteFacts ==
    ASSUME TypeOK, WorkerInv, NEW w \in Worker, EndWrite(w)
    PROVE  /\ outbox[w] # << >> /\ outbox[w] \in Seq(Message)
           /\ Head(outbox[w]) = outbox[w][1] /\ outbox[w][1] \in Message
           /\ Len(outbox'[w]) = Len(outbox[w]) - 1
           /\ \A i \in 1..Len(outbox'[w]) : outbox'[w][i] = outbox[w][i + 1]
           /\ \A v \in Worker \ {w} : outbox'[v] = outbox[v]
           /\ Len(results') = Len(results) + 1
           /\ results'[Len(results) + 1] = outbox[w][1]
           /\ \A i \in 1..Len(results) : results'[i] = results[i]
<1>1. outbox[w] # << >> /\ outbox[w] \in Seq(Message)
    BY DEF EndWrite, WorkerInv, TypeOK
<1>2. Head(outbox[w]) = outbox[w][1] /\ outbox[w][1] \in Message
    BY <1>1
<1>3. outbox'[w] = Tail(outbox[w]) /\ \A v \in Worker \ {w} : outbox'[v] = outbox[v]
    BY DEF EndWrite, TypeOK
<1>4. Len(outbox'[w]) = Len(outbox[w]) - 1
      /\ \A i \in 1..Len(outbox'[w]) : outbox'[w][i] = outbox[w][i + 1]
    BY <1>1, <1>3
<1>5. results' = Append(results, outbox[w][1])
    BY <1>2 DEF EndWrite
<1>6. /\ Len(results') = Len(results) + 1
      /\ results'[Len(results) + 1] = outbox[w][1]
      /\ \A i \in 1..Len(results) : results'[i] = results[i]
    BY <1>2, <1>5 DEF TypeOK
<1>. QED
    BY <1>1, <1>2, <1>3, <1>4, <1>6

\* A put keeps the workers' local invariant.
LEMMA PutWorker ==
    ASSUME TypeOK, WorkerInv, NEW w \in Worker,
           LoadModel(w) \/ LoadFails(w) \/ FinishJob(w) \/ JobFails(w)
    PROVE  WorkerInv'
<1>1. PICK m \in Message :
             /\ m.gpu = w
             /\ outbox' = [outbox EXCEPT ![w] = Append(@, m)]
             /\ wpc[w] \in {"loading", "work"} /\ wpc'[w] \in {"get", "return"}
             /\ wjob'[w] = NoJob
             /\ \A v \in Worker \ {w} : wpc'[v] = wpc[v] /\ wjob'[v] = wjob[v]
             /\ UNCHANGED writeLock
    BY PutFacts
<1>2. outbox'[w] # << >> /\ \A i \in 1..Len(outbox'[w]) : outbox'[w][i].gpu = w
  <2>1. outbox'[w] = Append(outbox[w], m) /\ outbox[w] \in Seq(Message)
    BY <1>1 DEF TypeOK
  <2>2. /\ Len(outbox'[w]) = Len(outbox[w]) + 1
        /\ \A i \in 1..Len(outbox[w]) : outbox'[w][i] = outbox[w][i]
        /\ outbox'[w][Len(outbox[w]) + 1] = m
    BY <2>1
  <2>3. outbox'[w] # << >>
    BY <2>1
  <2>. QED
    BY <1>1, <2>1, <2>2, <2>3 DEF WorkerInv
<1>3. \A v \in Worker \ {w} : outbox'[v] = outbox[v]
    BY <1>1 DEF TypeOK
<1>. QED
    BY <1>1, <1>2, <1>3 DEF WorkerInv, Alive

\* Every step keeps the workers' local invariant.
LEMMA WorkerStep ==
    ASSUME TypeOK, DriverInv, WorkerInv, [Next]_vars
    PROVE  WorkerInv'
<1> USE DEF NoJob, Nobody, Alive
<1>1. CASE StartNext
  <2>1. nstarted + 1 \in Worker /\ wpc[nstarted + 1] = "new"
    BY <1>1, NGpusAssumption DEF StartNext, DriverInv, TypeOK, Worker
  <2>2. \A w \in Worker : wpc'[w] = wpc[w] \/ (wpc[w] = "new" /\ wpc'[w] = "loading")
    BY <2>1, <1>1 DEF StartNext, TypeOK
  <2>3. \A w \in Worker : wpc[w] = "new" => outbox[w] = << >> /\ writeLock # w
    BY DEF WorkerInv
  <2>. QED
    BY <2>2, <2>3, <1>1 DEF WorkerInv, StartNext, resultStream
<1>2. CASE StartFails
    BY <1>2 DEF TypeOK, WorkerInv, StartFails, driver, jobStream, resultStream
<1>3. CASE ReceiveMessage
    BY <1>3 DEF TypeOK, WorkerInv, ReceiveMessage, driver, jobStream, resultStream
<1>4. CASE GetTimesOut
    BY <1>4 DEF TypeOK, WorkerInv, GetTimesOut, driver, jobStream, resultStream
<1>5. CASE CheckExits
    BY <1>5 DEF TypeOK, WorkerInv, CheckExits, driver, jobStream, resultStream
<1>6. CASE Run
    BY <1>6 DEF TypeOK, WorkerInv, Run, driver, jobStream, resultStream
<1>7. CASE RunReturns
    BY <1>7 DEF TypeOK, WorkerInv, RunReturns, driver, jobStream, resultStream
<1>8. CASE ForceStop
    BY <1>8 DEF TypeOK, WorkerInv, ForceStop, driver, jobStream, resultStream
<1>9. CASE PutPills
    BY <1>9 DEF TypeOK, WorkerInv, PutPills, driver, jobStream, resultStream
<1>10. CASE TerminateStragglers
    BY <1>10 DEF TypeOK, WorkerInv, TerminateStragglers, driver, jobStream, resultStream
<1>11. CASE LastJoin
    BY <1>11 DEF TypeOK, WorkerInv, LastJoin, driver, jobStream, resultStream
<1>12. CASE DriverExits
    BY <1>12 DEF TypeOK, WorkerInv, DriverExits, driver, jobStream, resultStream
<1>13. CASE FeedJobs
    BY <1>13 DEF TypeOK, WorkerInv, FeedJobs, driver, jobStream, resultStream
<1>14. CASE Finished
    BY <1>14 DEF TypeOK, WorkerInv, Finished, vars, driver, jobStream, resultStream
<1>15. ASSUME NEW w \in Worker, LoadModel(w) PROVE WorkerInv'
    BY <1>15, PutWorker
<1>16. ASSUME NEW w \in Worker, LoadFails(w) PROVE WorkerInv'
    BY <1>16, PutWorker
<1>17. ASSUME NEW w \in Worker, LockQueue(w) PROVE WorkerInv'
    BY <1>17 DEF TypeOK, WorkerInv, LockQueue, driver, jobStream, resultStream
<1>18. ASSUME NEW w \in Worker, TakeItem(w) PROVE WorkerInv'
  <2>1. CASE jobsGot + 1 \in Batch
    <3>1. jobsGot + 1 # 0 /\ jobsGot + 1 \in 0..NJobs
      BY <2>1, NJobsAssumption DEF Batch
    <3>2. /\ wjob'[w] = jobsGot + 1 /\ wpc'[w] = "work"
          /\ \A v \in Worker \ {w} : wjob'[v] = wjob[v] /\ wpc'[v] = wpc[v]
          /\ wpc[w] = "recv" /\ UNCHANGED <<outbox, writeLock>>
      BY <2>1, <1>18 DEF TypeOK, TakeItem, resultStream
    <3>. QED
      BY <3>1, <3>2 DEF WorkerInv
  <2>2. CASE jobsGot + 1 \notin Batch
    BY <2>2, <1>18 DEF TypeOK, WorkerInv, TakeItem, resultStream
  <2>. QED
    BY <2>1, <2>2
<1>19. ASSUME NEW w \in Worker, FinishJob(w) PROVE WorkerInv'
    BY <1>19, PutWorker
<1>20. ASSUME NEW w \in Worker, JobFails(w) PROVE WorkerInv'
    BY <1>20, PutWorker
<1>21. ASSUME NEW w \in Worker, BeginWrite(w) PROVE WorkerInv'
    BY <1>21 DEF TypeOK, WorkerInv, BeginWrite, driver, jobStream, resultStream
<1>22. ASSUME NEW w \in Worker, EndWrite(w) PROVE WorkerInv'
  <2>1. \A v \in Worker : \A i \in 1..Len(outbox'[v]) : outbox'[v][i].gpu = v
    <3>1. Len(outbox[w]) \in Nat
      BY DEF TypeOK
    <3>2. \A i \in 1..Len(outbox'[w]) : i + 1 \in 1..Len(outbox[w])
      BY <3>1, WriteFacts, <1>22
    <3>3. \A i \in 1..Len(outbox'[w]) : outbox'[w][i] = outbox[w][i + 1]
      BY WriteFacts, <1>22
    <3>4. \A i \in 1..Len(outbox'[w]) : outbox'[w][i].gpu = w
      BY <3>2, <3>3 DEF WorkerInv
    <3>5. \A v \in Worker \ {w} : outbox'[v] = outbox[v]
      BY WriteFacts, <1>22
    <3>. QED
      BY <3>4, <3>5 DEF WorkerInv
  <2>2. \A v \in Worker \ {w} : outbox'[v] = outbox[v]
    BY WriteFacts, <1>22
  <2>3. wpc[w] # "new"
    BY <1>22 DEF EndWrite
  <2>. QED
    BY <2>1, <2>2, <2>3, <1>22, NGpusAssumption DEF WorkerInv, EndWrite, Worker
<1>23. ASSUME NEW w \in Worker, Exit(w) PROVE WorkerInv'
    BY <1>23 DEF TypeOK, WorkerInv, Exit, driver, jobStream, resultStream
<1>24. ASSUME NEW w \in Worker, Terminated(w) PROVE WorkerInv'
    BY <1>24 DEF TypeOK, WorkerInv, Terminated, Die, driver, jobStream, resultStream
<1>25. ASSUME NEW w \in Worker, Killed(w) PROVE WorkerInv'
    BY <1>25 DEF TypeOK, WorkerInv, Killed, Die, driver, jobStream, resultStream
<1>26. CASE UNCHANGED vars
    BY <1>26 DEF TypeOK, WorkerInv, vars, driver, jobStream, resultStream
<1>. QED
    BY <1>1, <1>2, <1>3, <1>4, <1>5, <1>6, <1>7, <1>8, <1>9, <1>10, <1>11, <1>12, <1>13, <1>14,
       <1>15, <1>16, <1>17, <1>18, <1>19, <1>20, <1>21, <1>22, <1>23, <1>24, <1>25,
       <1>26 DEF Next, Driver, MainThread, FeederThread

-----------------------------------------------------------------------------
(* Tokens.                                                                 *)

\* Tokens are integers.
LEMMA TokenType ==
    ASSUME TypeOK
    PROVE  /\ \A m \in Message : Token(m) \in Int
           /\ \A w \in Worker : \A i \in 1..Len(outbox[w]) : outbox[w][i] \in Message
           /\ \A i \in 1..Len(results) : results[i] \in Message
<1>1. \A m \in Message : Token(m) \in Int
    BY NGpusAssumption, NJobsAssumption DEF Token, Message, Worker
<1>2. \A w \in Worker : \A i \in 1..Len(outbox[w]) : outbox[w][i] \in Message
    BY DEF TypeOK
<1>3. \A i \in 1..Len(results) : results[i] \in Message
    BY DEF TypeOK
<1>. QED
    BY <1>1, <1>2, <1>3

\* A put moves a token from the worker to its outbox.
LEMMA PutTokens ==
    ASSUME TypeOK, WorkerInv, Issued, Distinct, NEW w \in Worker,
           LoadModel(w) \/ LoadFails(w) \/ FinishJob(w) \/ JobFails(w)
    PROVE  Issued' /\ Distinct'
<1>1. PICK m \in Message :
             /\ Token(m) = Held(w)
             /\ outbox' = [outbox EXCEPT ![w] = Append(@, m)]
             /\ wpc[w] \in {"loading", "work"} /\ wpc'[w] \in {"get", "return"}
             /\ wjob'[w] = NoJob
             /\ \A v \in Worker \ {w} : wpc'[v] = wpc[v] /\ wjob'[v] = wjob[v]
             /\ UNCHANGED <<jobsGot, results>>
    BY PutFacts
<1>2. outbox'[w] = Append(outbox[w], m) /\ outbox[w] \in Seq(Message)
      /\ \A v \in Worker \ {w} : outbox'[v] = outbox[v]
    BY <1>1 DEF TypeOK
<1>3. /\ Len(outbox[w]) \in Nat /\ Len(outbox'[w]) = Len(outbox[w]) + 1
      /\ \A i \in 1..Len(outbox[w]) : outbox'[w][i] = outbox[w][i]
      /\ outbox'[w][Len(outbox[w]) + 1] = m
    BY <1>2
<1>4. Held(w)' = 0 /\ \A v \in Worker \ {w} : Held(v)' = Held(v)
    BY <1>1 DEF Held, NoJob
<1>5. Held(w) # 0 /\ Held(w) <= jobsGot
  <2>1. CASE wpc[w] = "loading"
    BY <2>1, NGpusAssumption DEF Held, Worker, TypeOK
  <2>2. CASE wpc[w] = "work"
    BY <2>2 DEF Held, WorkerInv, Issued, NoJob
  <2>. QED
    BY <1>1, <2>1, <2>2
<1>6. \A v \in Worker : \A i \in 1..Len(outbox'[v]) :
          \/ i \in 1..Len(outbox[v]) /\ outbox'[v][i] = outbox[v][i]
          \/ v = w /\ i = Len(outbox[w]) + 1 /\ Token(outbox'[v][i]) = Held(w)
    BY <1>1, <1>2, <1>3
<1>7. Issued'
  <2>1. \A v \in Worker : wjob'[v] <= jobsGot'
    BY <1>1 DEF Issued, NoJob, TypeOK
  <2>2. \A v \in Worker : \A i \in 1..Len(outbox'[v]) :
          Token(outbox'[v][i]) # 0 /\ Token(outbox'[v][i]) <= jobsGot'
    BY <1>1, <1>5, <1>6 DEF Issued
  <2>. QED
    BY <1>1, <2>1, <2>2 DEF Issued
<1>8. Distinct'
  <2>1. (\A u, v \in Worker : u # v /\ Held(u) # 0 => Held(u) # Held(v))'
    BY <1>4 DEF Distinct
  <2>2. (\A u, v \in Worker : \A i \in 1..Len(outbox[v]) : Token(outbox[v][i]) # Held(u))'
    <3> SUFFICES ASSUME NEW u \in Worker, NEW v \in Worker, NEW i \in 1..Len(outbox'[v])
                 PROVE  Token(outbox'[v][i]) # Held(u)'
        OBVIOUS
    <3>1. CASE i \in 1..Len(outbox[v]) /\ outbox'[v][i] = outbox[v][i]
        BY <3>1, <1>4 DEF Distinct, Issued
    <3>2. CASE v = w /\ Token(outbox'[v][i]) = Held(w)
        BY <3>2, <1>4, <1>5 DEF Distinct
    <3>. QED
        BY <1>6, <3>1, <3>2
  <2>3. (\A v \in Worker : \A i \in 1..Len(results) : Token(results[i]) # Held(v))'
    BY <1>1, <1>4 DEF Distinct, Issued
  <2>4. (\A u, v \in Worker : \A i \in 1..Len(outbox[u]), j \in 1..Len(outbox[v]) :
            Token(outbox[u][i]) = Token(outbox[v][j]) => u = v /\ i = j)'
    BY <1>6 DEF Distinct
  <2>5. (\A v \in Worker : \A i \in 1..Len(outbox[v]), j \in 1..Len(results) :
            Token(outbox[v][i]) # Token(results[j]))'
    BY <1>1, <1>6 DEF Distinct
  <2>. QED
    BY <1>1, <2>1, <2>2, <2>3, <2>4, <2>5 DEF Distinct
<1>. QED
    BY <1>7, <1>8

\* Taking a job creates its token.
LEMMA TakeTokens ==
    ASSUME TypeOK, WorkerInv, Issued, Distinct, NEW w \in Worker, TakeItem(w)
    PROVE  Issued' /\ Distinct'
<1>1. wpc[w] = "recv" /\ jobsGot' = jobsGot + 1 /\ UNCHANGED <<outbox, results>>
    BY DEF TakeItem, resultStream
<1>2. jobsGot \in Nat
    BY NGpusAssumption, NJobsAssumption DEF TypeOK
<1>3. CASE jobsGot + 1 \in Batch
  <2>1. /\ wjob'[w] = jobsGot + 1 /\ wpc'[w] = "work"
        /\ \A v \in Worker \ {w} : wjob'[v] = wjob[v] /\ wpc'[v] = wpc[v]
    BY <1>3 DEF TakeItem, TypeOK
  <2>2. Held(w)' = jobsGot + 1 /\ \A v \in Worker \ {w} : Held(v)' = Held(v)
    BY <2>1 DEF Held
  <2>3. \A v \in Worker : Held(v) < jobsGot + 1 /\ Held(v) \in Int
    <3> SUFFICES ASSUME NEW v \in Worker
                 PROVE  Held(v) < jobsGot + 1 /\ Held(v) \in Int
        OBVIOUS
    <3>1. v \in Nat /\ wjob[v] \in Nat /\ wjob[v] <= jobsGot
      <4>1. v \in Nat
        BY NGpusAssumption DEF Worker
      <4>2. wjob[v] \in 0..NJobs
        BY DEF TypeOK
      <4>3. wjob[v] <= jobsGot
        BY DEF Issued
      <4>. QED
        BY <4>1, <4>2, <4>3, NJobsAssumption
    <3>2. Held(v) = 0 - v \/ Held(v) = wjob[v]
      BY DEF Held
    <3>. QED
      BY <1>2, <3>1, <3>2
  <2>4. \A v \in Worker : wjob'[v] <= jobsGot'
    <3>1. \A v \in Worker : wjob[v] \in Nat /\ wjob[v] <= jobsGot
      BY NJobsAssumption DEF Issued, TypeOK
    <3>. QED
      BY <1>1, <1>2, <2>1, <3>1
  <2>5. Issued'
    BY <1>1, <1>2, <2>4, TokenType DEF Issued
  <2>. QED
    <3>1. (\A u, v \in Worker : u # v /\ Held(u) # 0 => Held(u) # Held(v))'
      BY <2>2, <2>3 DEF Distinct
    <3>2. (\A u, v \in Worker : \A i \in 1..Len(outbox[v]) : Token(outbox[v][i]) # Held(u))'
      <4> SUFFICES ASSUME NEW u \in Worker, NEW v \in Worker, NEW i \in 1..Len(outbox[v])
                   PROVE  Token(outbox[v][i]) # Held(u)'
          BY <1>1
      <4>1. Token(outbox[v][i]) # Held(u)
        BY DEF Distinct
      <4>2. ~(jobsGot + 1 <= jobsGot)
        BY <1>2
      <4>3. Token(outbox[v][i]) # jobsGot + 1
        BY <4>2 DEF Issued
      <4>. QED
        BY <2>2, <4>1, <4>3
    <3>3. (\A v \in Worker : \A i \in 1..Len(results) : Token(results[i]) # Held(v))'
      <4> SUFFICES ASSUME NEW v \in Worker, NEW i \in 1..Len(results)
                   PROVE  Token(results[i]) # Held(v)'
          BY <1>1
      <4>1. Token(results[i]) # Held(v)
        BY DEF Distinct
      <4>2. ~(jobsGot + 1 <= jobsGot)
        BY <1>2
      <4>3. Token(results[i]) # jobsGot + 1
        BY <4>2 DEF Issued
      <4>. QED
        BY <2>2, <4>1, <4>3
    <3>. QED
      BY <1>1, <2>5, <3>1, <3>2, <3>3, SMTT(30) DEF Distinct
<1>4. CASE jobsGot + 1 \notin Batch
  <2>1. UNCHANGED wjob /\ wpc'[w] = "return" /\ \A v \in Worker \ {w} : wpc'[v] = wpc[v]
    BY <1>4 DEF TakeItem, TypeOK
  <2>2. \A v \in Worker : Held(v)' = Held(v)
    BY <2>1, <1>1 DEF Held
  <2>3. \A v \in Worker : wjob'[v] <= jobsGot'
    BY <1>1, <1>2, <2>1 DEF Issued, TypeOK
  <2>4. Issued'
    BY <1>1, <1>2, <2>3, TokenType DEF Issued
  <2>. QED
    BY <1>1, <2>2, <2>4, SMTT(30) DEF Distinct
<1>. QED
    BY <1>3, <1>4

\* A write moves a token from an outbox to the pipe.
LEMMA WriteTokens ==
    ASSUME TypeOK, WorkerInv, Issued, Distinct, NEW w \in Worker, EndWrite(w)
    PROVE  Issued' /\ Distinct'
<1>1. /\ UNCHANGED <<wpc, wjob, jobsGot>> /\ Len(results) \in Nat
      /\ Len(outbox[w]) \in Nat /\ 1 \in 1..Len(outbox[w])
  <2>1. outbox[w] # << >> /\ outbox[w] \in Seq(Message) /\ results \in Seq(Message)
    BY WriteFacts DEF TypeOK
  <2>2. Len(outbox[w]) \in Nat /\ Len(outbox[w]) # 0 /\ Len(results) \in Nat
    BY <2>1
  <2>. QED
    BY <2>2 DEF EndWrite, jobStream
<1>2. \A v \in Worker : Held(v)' = Held(v)
    BY <1>1 DEF Held
<1>3. \A v \in Worker : \A i \in 1..Len(outbox'[v]) :
          \/ v # w /\ i \in 1..Len(outbox[v]) /\ outbox'[v][i] = outbox[v][i]
          \/ /\ v = w /\ i + 1 \in 1..Len(outbox[w]) /\ i + 1 # 1
             /\ outbox'[v][i] = outbox[w][i + 1]
  <2> SUFFICES ASSUME NEW v \in Worker, NEW i \in 1..Len(outbox'[v])
               PROVE  \/ v # w /\ i \in 1..Len(outbox[v]) /\ outbox'[v][i] = outbox[v][i]
                      \/ /\ v = w /\ i + 1 \in 1..Len(outbox[w]) /\ i + 1 # 1
                         /\ outbox'[v][i] = outbox[w][i + 1]
      OBVIOUS
  <2>1. CASE v # w
    <3>1. outbox'[v] = outbox[v]
      BY <2>1, WriteFacts
    <3>. QED
      BY <2>1, <3>1
  <2>2. CASE v = w
    <3>1. /\ Len(outbox'[w]) = Len(outbox[w]) - 1 /\ i \in 1..Len(outbox'[w])
          /\ outbox'[w][i] = outbox[w][i + 1]
      BY <2>2, WriteFacts
    <3>2. i \in Nat /\ i + 1 \in 1..Len(outbox[w]) /\ i + 1 # 1
      BY <1>1, <3>1
    <3>. QED
      BY <2>2, <3>1, <3>2
  <2>. QED
    BY <2>1, <2>2
<1>4. \A i \in 1..Len(results') :
          \/ i \in 1..Len(results) /\ results'[i] = results[i]
          \/ i = Len(results) + 1 /\ results'[i] = outbox[w][1]
    BY <1>1, WriteFacts
<1>5. Issued'
  <2>1. \A v \in Worker : \A i \in 1..Len(outbox'[v]) :
            Token(outbox'[v][i]) # 0 /\ Token(outbox'[v][i]) <= jobsGot
    <3> SUFFICES ASSUME NEW v \in Worker, NEW i \in 1..Len(outbox'[v])
                 PROVE  Token(outbox'[v][i]) # 0 /\ Token(outbox'[v][i]) <= jobsGot
        OBVIOUS
    <3>1. PICK k \in 1..Len(outbox[v]) : outbox'[v][i] = outbox[v][k]
      BY <1>3
    <3>. QED
      BY <3>1 DEF Issued
  <2>2. \A i \in 1..Len(results') : Token(results'[i]) # 0 /\ Token(results'[i]) <= jobsGot
    BY <1>1, <1>4, SMTT(30) DEF Issued
  <2>. QED
    BY <1>1, <2>1, <2>2, SMTT(30) DEF Issued
<1>6. Distinct'
  <2>1. (\A u, v \in Worker : u # v /\ Held(u) # 0 => Held(u) # Held(v))'
    BY <1>2 DEF Distinct
  <2>2. (\A u, v \in Worker : \A i \in 1..Len(outbox[v]) : Token(outbox[v][i]) # Held(u))'
    <3> SUFFICES ASSUME NEW u \in Worker, NEW v \in Worker, NEW i \in 1..Len(outbox'[v])
                 PROVE  Token(outbox'[v][i]) # Held(u)
        BY <1>2
    <3>1. PICK k \in 1..Len(outbox[v]) : outbox'[v][i] = outbox[v][k]
      BY <1>3
    <3>. QED
      BY <3>1 DEF Distinct
  <2>3. (\A v \in Worker : \A i \in 1..Len(results) : Token(results[i]) # Held(v))'
    BY <1>1, <1>2, <1>4 DEF Distinct
  <2>4. (\A u, v \in Worker : \A i \in 1..Len(outbox[u]), j \in 1..Len(outbox[v]) :
            Token(outbox[u][i]) = Token(outbox[v][j]) => u = v /\ i = j)'
    <3> SUFFICES ASSUME NEW u \in Worker, NEW v \in Worker,
                        NEW i \in 1..Len(outbox'[u]), NEW j \in 1..Len(outbox'[v]),
                        Token(outbox'[u][i]) = Token(outbox'[v][j])
                 PROVE  u = v /\ i = j
        OBVIOUS
    <3>1. PICK k \in 1..Len(outbox[u]) : /\ outbox'[u][i] = outbox[u][k]
                                        /\ k = IF u = w THEN i + 1 ELSE i
      BY <1>3
    <3>2. PICK l \in 1..Len(outbox[v]) : /\ outbox'[v][j] = outbox[v][l]
                                        /\ l = IF v = w THEN j + 1 ELSE j
      BY <1>3
    <3>3. Token(outbox[u][k]) = Token(outbox[v][l])
      BY <3>1, <3>2
    <3>4. u = v /\ k = l
      BY <3>3 DEF Distinct
    <3>. QED
      BY <3>1, <3>2, <3>4
  <2>5. (\A v \in Worker : \A i \in 1..Len(outbox[v]), j \in 1..Len(results) :
            Token(outbox[v][i]) # Token(results[j]))'
    <3> SUFFICES ASSUME NEW v \in Worker, NEW i \in 1..Len(outbox'[v]), NEW j \in 1..Len(results')
                 PROVE  Token(outbox'[v][i]) # Token(results'[j])
        OBVIOUS
    <3>1. CASE j \in 1..Len(results) /\ results'[j] = results[j]
      <4>1. PICK k \in 1..Len(outbox[v]) : outbox'[v][i] = outbox[v][k]
        BY <1>3
      <4>. QED
        BY <3>1, <4>1 DEF Distinct
    <3>2. CASE results'[j] = outbox[w][1]
      <4>1. CASE v = w
        <5>1. PICK k \in 1..Len(outbox[w]) : k # 1 /\ outbox'[v][i] = outbox[w][k]
          BY <4>1, <1>3
        <5>. QED
          BY <5>1, <3>2, <1>1 DEF Distinct
      <4>2. CASE v # w
        <5>1. i \in 1..Len(outbox[v]) /\ outbox'[v][i] = outbox[v][i]
          BY <4>2, <1>3
        <5>. QED
          BY <5>1, <4>2, <3>2, <1>1 DEF Distinct
      <4>. QED
        BY <4>1, <4>2
    <3>. QED
        BY <3>1, <3>2, <1>4
  <2>6. (\A i, j \in 1..Len(results) : Token(results[i]) = Token(results[j]) => i = j)'
    BY <1>1, <1>4 DEF Distinct
  <2>. QED
    BY <2>1, <2>2, <2>3, <2>4, <2>5, <2>6 DEF Distinct
<1>. QED
    BY <1>5, <1>6

\* A dying process takes its tokens with it.
LEMMA DieTokens ==
    ASSUME TypeOK, WorkerInv, Issued, Distinct, NEW w \in Worker, Die(w)
    PROVE  Issued' /\ Distinct'
<1>1. /\ wjob'[w] = NoJob /\ wpc'[w] = "dead" /\ outbox'[w] = << >>
      /\ \A v \in Worker \ {w} : wjob'[v] = wjob[v] /\ wpc'[v] = wpc[v] /\ outbox'[v] = outbox[v]
      /\ UNCHANGED <<jobsGot, results>>
    BY DEF Die, TypeOK, jobStream
<1>2. Held(w)' = 0 /\ \A v \in Worker \ {w} : Held(v)' = Held(v)
    BY <1>1 DEF Held, NoJob
<1>3. \A v \in Worker : \A i \in 1..Len(outbox'[v]) :
          v # w /\ i \in 1..Len(outbox[v]) /\ outbox'[v][i] = outbox[v][i]
    BY <1>1
<1>4. Issued'
  <2>1. jobsGot \in Nat
    BY NGpusAssumption, NJobsAssumption DEF TypeOK
  <2>2. \A v \in Worker : wjob'[v] <= jobsGot'
    BY <1>1, <2>1 DEF Issued, NoJob
  <2>. QED
    BY <1>1, <1>3, <2>2 DEF Issued
<1>5. Distinct'
  <2>1. (\A u, v \in Worker : u # v /\ Held(u) # 0 => Held(u) # Held(v))'
    BY <1>2 DEF Distinct
  <2>2. (\A u, v \in Worker : \A i \in 1..Len(outbox[v]) : Token(outbox[v][i]) # Held(u))'
    BY <1>2, <1>3 DEF Distinct, Issued
  <2>3. (\A v \in Worker : \A i \in 1..Len(results) : Token(results[i]) # Held(v))'
    BY <1>1, <1>2 DEF Distinct, Issued
  <2>4. (\A u, v \in Worker : \A i \in 1..Len(outbox[u]), j \in 1..Len(outbox[v]) :
            Token(outbox[u][i]) = Token(outbox[v][j]) => u = v /\ i = j)'
    BY <1>3 DEF Distinct
  <2>5. (\A v \in Worker : \A i \in 1..Len(outbox[v]), j \in 1..Len(results) :
            Token(outbox[v][i]) # Token(results[j]))'
    BY <1>1, <1>3 DEF Distinct
  <2>. QED
    BY <1>1, <2>1, <2>2, <2>3, <2>4, <2>5 DEF Distinct
<1>. QED
    BY <1>4, <1>5

\* A step that touches neither messages nor what workers hold keeps the tokens.
LEMMA QuietTokens ==
    ASSUME Issued, Distinct, UNCHANGED <<outbox, results, jobsGot, wjob>>,
           \A v \in Worker : Held(v)' = Held(v)
    PROVE  Issued' /\ Distinct'
<1>1. Issued'
    BY DEF Issued
<1>2. Distinct'
    BY SMTT(20) DEF Distinct
<1>. QED
    BY <1>1, <1>2

\* Every step keeps the tokens issued and distinct.
LEMMA TokenStep ==
    ASSUME TypeOK, DriverInv, WorkerInv, Issued, Distinct, [Next]_vars
    PROVE  (Issued /\ Distinct)'
<1>1. CASE StartNext
  <2>1. UNCHANGED <<outbox, results, jobsGot, wjob>> /\ \A v \in Worker : Held(v)' = Held(v)
    BY <1>1 DEF StartNext, driver, jobStream, resultStream, Held, DriverInv, TypeOK
  <2>. QED
    BY <2>1, QuietTokens
<1>2. CASE StartFails
  <2>1. UNCHANGED <<outbox, results, jobsGot, wjob>> /\ \A v \in Worker : Held(v)' = Held(v)
    BY <1>2 DEF StartFails, driver, jobStream, resultStream, Held
  <2>. QED
    BY <2>1, QuietTokens
<1>3. CASE ReceiveMessage
  <2>1. UNCHANGED <<outbox, results, jobsGot, wjob>> /\ \A v \in Worker : Held(v)' = Held(v)
    BY <1>3 DEF ReceiveMessage, driver, jobStream, resultStream, Held
  <2>. QED
    BY <2>1, QuietTokens
<1>4. CASE GetTimesOut
  <2>1. UNCHANGED <<outbox, results, jobsGot, wjob>> /\ \A v \in Worker : Held(v)' = Held(v)
    BY <1>4 DEF GetTimesOut, driver, jobStream, resultStream, Held
  <2>. QED
    BY <2>1, QuietTokens
<1>5. CASE CheckExits
  <2>1. UNCHANGED <<outbox, results, jobsGot, wjob>> /\ \A v \in Worker : Held(v)' = Held(v)
    BY <1>5 DEF CheckExits, driver, jobStream, resultStream, Held
  <2>. QED
    BY <2>1, QuietTokens
<1>6. CASE Run
  <2>1. UNCHANGED <<outbox, results, jobsGot, wjob>> /\ \A v \in Worker : Held(v)' = Held(v)
    BY <1>6 DEF Run, driver, jobStream, resultStream, Held
  <2>. QED
    BY <2>1, QuietTokens
<1>7. CASE RunReturns
  <2>1. UNCHANGED <<outbox, results, jobsGot, wjob>> /\ \A v \in Worker : Held(v)' = Held(v)
    BY <1>7 DEF RunReturns, driver, jobStream, resultStream, Held
  <2>. QED
    BY <2>1, QuietTokens
<1>8. CASE ForceStop
  <2>1. UNCHANGED <<outbox, results, jobsGot, wjob>> /\ \A v \in Worker : Held(v)' = Held(v)
    BY <1>8 DEF ForceStop, driver, jobStream, resultStream, Held
  <2>. QED
    BY <2>1, QuietTokens
<1>9. CASE PutPills
  <2>1. UNCHANGED <<outbox, results, jobsGot, wjob>> /\ \A v \in Worker : Held(v)' = Held(v)
    BY <1>9 DEF PutPills, driver, jobStream, resultStream, Held
  <2>. QED
    BY <2>1, QuietTokens
<1>10. CASE TerminateStragglers
  <2>1. UNCHANGED <<outbox, results, jobsGot, wjob>> /\ \A v \in Worker : Held(v)' = Held(v)
    BY <1>10 DEF TerminateStragglers, driver, jobStream, resultStream, Held
  <2>. QED
    BY <2>1, QuietTokens
<1>11. CASE LastJoin
  <2>1. UNCHANGED <<outbox, results, jobsGot, wjob>> /\ \A v \in Worker : Held(v)' = Held(v)
    BY <1>11 DEF LastJoin, driver, jobStream, resultStream, Held
  <2>. QED
    BY <2>1, QuietTokens
<1>12. CASE DriverExits
  <2>1. UNCHANGED <<outbox, results, jobsGot, wjob>> /\ \A v \in Worker : Held(v)' = Held(v)
    BY <1>12 DEF DriverExits, driver, jobStream, resultStream, Held
  <2>. QED
    BY <2>1, QuietTokens
<1>13. CASE FeedJobs
  <2>1. UNCHANGED <<outbox, results, jobsGot, wjob>> /\ \A v \in Worker : Held(v)' = Held(v)
    BY <1>13 DEF FeedJobs, driver, jobStream, resultStream, Held
  <2>. QED
    BY <2>1, QuietTokens
<1>14. CASE Finished
  <2>1. UNCHANGED <<outbox, results, jobsGot, wjob>> /\ \A v \in Worker : Held(v)' = Held(v)
    BY <1>14 DEF Finished, driver, jobStream, resultStream, vars, Held
  <2>. QED
    BY <2>1, QuietTokens
<1>15. ASSUME NEW w \in Worker, LoadModel(w) PROVE (Issued /\ Distinct)'
    BY <1>15, PutTokens
<1>16. ASSUME NEW w \in Worker, LoadFails(w) PROVE (Issued /\ Distinct)'
    BY <1>16, PutTokens
<1>17. ASSUME NEW w \in Worker, LockQueue(w) PROVE (Issued /\ Distinct)'
  <2>1. UNCHANGED <<outbox, results, jobsGot, wjob>> /\ \A v \in Worker : Held(v)' = Held(v)
    BY <1>17 DEF LockQueue, driver, jobStream, resultStream, Held, TypeOK
  <2>. QED
    BY <2>1, QuietTokens
<1>18. ASSUME NEW w \in Worker, TakeItem(w) PROVE (Issued /\ Distinct)'
    BY <1>18, TakeTokens
<1>19. ASSUME NEW w \in Worker, FinishJob(w) PROVE (Issued /\ Distinct)'
    BY <1>19, PutTokens
<1>20. ASSUME NEW w \in Worker, JobFails(w) PROVE (Issued /\ Distinct)'
    BY <1>20, PutTokens
<1>21. ASSUME NEW w \in Worker, BeginWrite(w) PROVE (Issued /\ Distinct)'
  <2>1. UNCHANGED <<outbox, results, jobsGot, wjob>> /\ \A v \in Worker : Held(v)' = Held(v)
    BY <1>21 DEF BeginWrite, driver, jobStream, resultStream, Held, TypeOK
  <2>. QED
    BY <2>1, QuietTokens
<1>22. ASSUME NEW w \in Worker, EndWrite(w) PROVE (Issued /\ Distinct)'
    BY <1>22, WriteTokens
<1>23. ASSUME NEW w \in Worker, Exit(w) PROVE (Issued /\ Distinct)'
  <2>1. UNCHANGED <<outbox, results, jobsGot, wjob>> /\ \A v \in Worker : Held(v)' = Held(v)
    BY <1>23 DEF Exit, driver, jobStream, resultStream, Held, TypeOK
  <2>. QED
    BY <2>1, QuietTokens
<1>24. ASSUME NEW w \in Worker, Terminated(w) PROVE (Issued /\ Distinct)'
    BY <1>24, DieTokens DEF Terminated
<1>25. ASSUME NEW w \in Worker, Killed(w) PROVE (Issued /\ Distinct)'
    BY <1>25, DieTokens DEF Killed
<1>26. CASE UNCHANGED vars
  <2>1. UNCHANGED <<outbox, results, jobsGot, wjob>> /\ \A v \in Worker : Held(v)' = Held(v)
    BY <1>26 DEF vars, driver, jobStream, resultStream, Held
  <2>. QED
    BY <2>1, QuietTokens
<1>. QED
    BY <1>1, <1>2, <1>3, <1>4, <1>5, <1>6, <1>7, <1>8, <1>9, <1>10, <1>11, <1>12, <1>13, <1>14,
       <1>15, <1>16, <1>17, <1>18, <1>19, <1>20, <1>21, <1>22, <1>23, <1>24, <1>25,
       <1>26 DEF Next, Driver, MainThread, FeederThread

-----------------------------------------------------------------------------
(* The invariant and what follows from it.                                 *)

\* Every step keeps the invariant.
LEMMA StepInv == IInv /\ [Next]_vars => IInv'
<1> SUFFICES ASSUME IInv, [Next]_vars PROVE IInv'
    OBVIOUS
<1> USE DEF IInv
<1>1. TypeOK'
    BY TypeStep
<1>2. DriverInv'
    BY DriverStep
<1>3. ReadInv'
    BY ReadStep
<1>4. WorkerInv'
    BY WorkerStep
<1>5. Issued' /\ Distinct'
    BY TokenStep
<1>. QED
    BY <1>1, <1>2, <1>3, <1>4, <1>5

\* IInv is an invariant of the pool.
THEOREM Invariance == Spec => []IInv
<1>1. Init => IInv
    BY InitInv
<1>2. IInv /\ [Next]_vars => IInv'
    BY StepInv
<1>. QED
    BY <1>1, <1>2, PTL DEF Spec

\* The pool's variables keep their types for any number of GPUs, jobs and
\* kills: the range of batch_id, the order of the queue counters.
THEOREM TypeCorrect == Spec => []TypeOK
<1>1. IInv => TypeOK
    BY DEF IInv
<1>. QED
    BY <1>1, Invariance, PTL

\* n different numbers of 1..n are all of them.
LEMMA Pigeonhole ==
    ASSUME NEW n \in Nat, NEW f \in [1..n -> 1..n],
           \A i, j \in 1..n : f[i] = f[j] => i = j
    PROVE  \A b \in 1..n : \E i \in 1..n : f[i] = b
<1>1. f \in Injection(1..n, 1..n)
    BY DEF Injection, IsInjective
<1>2. IsFiniteSet(1..n)
    BY FS_Interval
<1>3. f \in Surjection(1..n, 1..n)
    BY <1>1, <1>2, FS_Injection
<1>. QED
    BY <1>3 DEF Surjection

\* A run that returns has read a message for every job ...
LEMMA AllJobsRead ==
    ASSUME IInv, outcome = "returned"
    PROVE  \A b \in Batch : \E i \in (base + 1)..nread :
              results[i].kind = "job" /\ results[i].batch = b
<1> DEFINE f == [k \in Batch |-> results[base + k].batch]
<1>1. /\ nread = base + NJobs /\ base \in Nat /\ nread \in Nat /\ nread <= Len(results)
      /\ Len(results) \in Nat
    BY DEF IInv, DriverInv, TypeOK
<1>2. \A k \in Batch : base + k \in 1..Len(results) /\ base + k \in (base + 1)..nread
    BY <1>1, NJobsAssumption DEF Batch
<1>3. \A k \in Batch : results[base + k].kind = "job" /\ results[base + k] \in Message
    BY <1>2, TokenType DEF IInv, ReadInv, DriverInv
<1>4. \A k \in Batch : Token(results[base + k]) = f[k] /\ f[k] \in 1..NJobs
    BY <1>2, <1>3, NJobsAssumption DEF Token, Message, IInv, Issued
<1>5. \A j, k \in Batch : f[j] = f[k] => j = k
  <2> SUFFICES ASSUME NEW j \in Batch, NEW k \in Batch, f[j] = f[k] PROVE j = k
      OBVIOUS
  <2>1. base + j = base + k
      BY <1>2, <1>4 DEF IInv, Distinct
  <2>. QED
      BY <2>1, <1>1, NJobsAssumption DEF Batch
<1>6. f \in [1..NJobs -> 1..NJobs]
    BY <1>4 DEF Batch
<1>7. \A b \in Batch : \E k \in Batch : f[k] = b
    BY <1>5, <1>6, Pigeonhole, NJobsAssumption DEF Batch
<1>. QED
    BY <1>2, <1>3, <1>7

\* ... and a driver that is past start-up has read the "ready" of every worker.
LEMMA AllReadyRead ==
    ASSUME IInv, expecting = "job"
    PROVE  /\ base \in 0..Len(results)
           /\ \A w \in Worker : \E i \in 1..base : results[i].kind = "ready" /\ results[i].gpu = w
<1> DEFINE f == [k \in Worker |-> results[k].gpu]
<1>1. base = NGpus /\ base \in 0..Len(results) /\ Len(results) \in Nat
    BY DEF IInv, DriverInv, TypeOK
<1>2. \A k \in Worker : k \in 1..base /\ k \in 1..Len(results)
    BY <1>1, NGpusAssumption DEF Worker
<1>3. \A k \in Worker : results[k].kind = "ready" /\ results[k] \in Message
    BY <1>2, TokenType DEF IInv, ReadInv
<1>4. \A k \in Worker : Token(results[k]) = 0 - f[k] /\ f[k] \in Worker
    BY <1>3 DEF Token, Message
<1>5. \A j, k \in Worker : f[j] = f[k] => j = k
    BY <1>2, <1>4 DEF IInv, Distinct
<1>6. f \in [1..NGpus -> 1..NGpus]
    BY <1>4 DEF Worker
<1>7. \A w \in Worker : \E k \in Worker : f[k] = w
  <2> HIDE DEF f
  <2>1. NGpus \in Nat
    BY NGpusAssumption
  <2>2. \A j, k \in 1..NGpus : f[j] = f[k] => j = k
    BY <1>5 DEF Worker
  <2>3. \A w \in 1..NGpus : \E k \in 1..NGpus : f[k] = w
    BY <1>6, <2>1, <2>2, Pigeonhole
  <2>. QED
    BY <2>3 DEF Worker
<1>. QED
    BY <1>1, <1>2, <1>3, <1>7

\* The list of messages run has collected, element by element.
LEMMA MessageList ==
    ASSUME IInv, outcome = "returned"
    PROVE  /\ Len(messages) = NJobs /\ DOMAIN messages = Batch
           /\ base \in Nat /\ nread = base + NJobs /\ nread \in 0..Len(results)
           /\ \A i \in Batch : /\ messages[i] = results[base + i]
                               /\ base + i \in (base + 1)..nread
                               /\ base + i \in 1..Len(results)
<1>1. nread = base + NJobs /\ base \in Nat /\ nread \in 0..Len(results) /\ Len(results) \in Nat
    BY DEF IInv, DriverInv, TypeOK
<1>2. results \in Seq(Message)
    BY DEF IInv, TypeOK
<1>3. \A i \in (base + 1)..nread : results[i] \in Message
    BY <1>1, <1>2
<1>4. /\ messages \in Seq(Message)
      /\ Len(messages) = IF base + 1 <= nread THEN nread - (base + 1) + 1 ELSE 0
      /\ \A i \in 1..(nread - (base + 1) + 1) : messages[i] = results[(base + 1) + i - 1]
    BY <1>1, <1>3, SubSeqProperties DEF messages
<1>5. Len(messages) = NJobs /\ DOMAIN messages = Batch
    BY <1>1, <1>4, NJobsAssumption DEF Batch
<1>6. \A i \in Batch : /\ messages[i] = results[base + i]
                       /\ base + i \in (base + 1)..nread
                       /\ base + i \in 1..Len(results)
  <2> SUFFICES ASSUME NEW i \in Batch
               PROVE  /\ messages[i] = results[base + i]
                      /\ base + i \in (base + 1)..nread
                      /\ base + i \in 1..Len(results)
      OBVIOUS
  <2>1. i \in 1..(nread - (base + 1) + 1) /\ (base + 1) + i - 1 = base + i
      BY <1>1, NJobsAssumption DEF Batch
  <2>2. base + i \in (base + 1)..nread /\ base + i \in 1..Len(results)
      BY <1>1, NJobsAssumption DEF Batch
  <2>. QED
      BY <1>4, <2>1, <2>2
<1>. QED
    BY <1>1, <1>5, <1>6

\* The collected list names every job exactly once.
CollectsEveryBatch ==
    outcome = "returned" =>
        /\ Len(messages) = NJobs
        /\ \A i \in DOMAIN messages : messages[i].kind = "job" /\ messages[i].ok
        /\ \A b \in Batch : \E i \in DOMAIN messages : messages[i].batch = b
        /\ \A i, j \in DOMAIN messages :
                messages[i].batch = messages[j].batch => i = j

\* What run returns names every job exactly once and holds no failure.
LEMMA Collected == IInv => CollectsEveryBatch
<1> SUFFICES ASSUME IInv, outcome = "returned"
             PROVE  /\ Len(messages) = NJobs
                    /\ \A i \in DOMAIN messages : messages[i].kind = "job" /\ messages[i].ok
                    /\ \A b \in Batch : \E i \in DOMAIN messages : messages[i].batch = b
                    /\ \A i, j \in DOMAIN messages :
                          messages[i].batch = messages[j].batch => i = j
    BY DEF CollectsEveryBatch
<1>1. \A i \in Batch : messages[i].kind = "job" /\ messages[i].ok
    BY MessageList DEF IInv, ReadInv, DriverInv
<1>2. \A b \in Batch : \E i \in Batch : messages[i].batch = b
  <2> SUFFICES ASSUME NEW b \in Batch PROVE \E i \in Batch : messages[i].batch = b
      OBVIOUS
  <2>1. PICK k \in (base + 1)..nread : results[k].batch = b
      BY AllJobsRead
  <2>2. k - base \in Batch /\ base + (k - base) = k
      BY <2>1, MessageList, NJobsAssumption DEF Batch
  <2>. QED
      BY <2>1, <2>2, MessageList
<1>3. \A i, j \in Batch : messages[i].batch = messages[j].batch => i = j
  <2> SUFFICES ASSUME NEW i \in Batch, NEW j \in Batch, messages[i].batch = messages[j].batch
               PROVE  i = j
      OBVIOUS
  <2>1. Token(results[base + i]) = Token(results[base + j])
      BY <1>1, MessageList DEF Token
  <2>2. base + i = base + j
      BY <2>1, MessageList DEF IInv, Distinct
  <2>. QED
      BY <2>2, MessageList, NJobsAssumption DEF Batch
<1>. QED
    BY <1>1, <1>2, <1>3, MessageList

\* While the driver waits for one kind of message, no other is on its way.
LEMMA OneKind == IInv => NoForeignMessage
<1> SUFFICES ASSUME IInv, pc \in {"await", "check"}
             PROVE  /\ \A i \in (nread + 1)..Len(results) : results[i].kind = expecting
                    /\ \A w \in Worker : \A i \in 1..Len(outbox[w]) : outbox[w][i].kind = expecting
  <2>1. \A w \in Worker : DOMAIN outbox[w] = 1..Len(outbox[w])
      BY DEF IInv, TypeOK
  <2>. QED
      BY <2>1 DEF NoForeignMessage
<1>1. /\ base \in Nat /\ nread \in Nat /\ base <= nread /\ Len(results) \in Nat
      /\ expecting \in {"ready", "job"} /\ TypeOK
    BY DEF IInv, TypeOK
<1>2. CASE expecting = "ready"
  <2>1. jobsGot = 0
      BY <1>2 DEF IInv, DriverInv, TypeOK
  <2>2. \A m \in Message : Token(m) # 0 /\ Token(m) <= 0 => m.kind = "ready"
      BY NJobsAssumption DEF Token, Message
  <2>3. \A i \in 1..Len(results) : results[i].kind = "ready"
      BY <1>1, <2>1, <2>2, TokenType DEF IInv, Issued
  <2>4. \A w \in Worker : \A i \in 1..Len(outbox[w]) : outbox[w][i].kind = "ready"
      BY <1>1, <2>1, <2>2, TokenType DEF IInv, Issued
  <2>. QED
      BY <1>1, <1>2, <2>3, <2>4
<1>3. CASE expecting = "job"
  <2>1. \A m \in Message : m.kind # "job" =>
            \E j \in 1..base : j \in 1..Len(results) /\ Token(m) = Token(results[j])
      BY <1>1, <1>3, AllReadyRead DEF Token, Message
  <2>2. \A i \in (nread + 1)..Len(results) : results[i].kind = "job"
    <3> SUFFICES ASSUME NEW i \in (nread + 1)..Len(results), results[i].kind # "job" PROVE FALSE
        OBVIOUS
    <3>1. i \in 1..Len(results) /\ results[i] \in Message
        BY <1>1, TokenType
    <3>2. PICK j \in 1..base : j \in 1..Len(results) /\ Token(results[i]) = Token(results[j])
        BY <3>1, <2>1
    <3>3. i = j
        BY <3>1, <3>2 DEF IInv, Distinct
    <3>. QED
        BY <3>3, <1>1
  <2>3. \A w \in Worker : \A i \in 1..Len(outbox[w]) : outbox[w][i].kind = "job"
      BY <1>1, <2>1, TokenType DEF IInv, Distinct
  <2>. QED
      BY <1>3, <2>2, <2>3
<1>. QED
    BY <1>1, <1>2, <1>3

\* "Unexpected worker message kind" is unreachable.
THEOREM NoKindIsMixed == Spec => []NoForeignMessage
BY OneKind, Invariance, PTL

\* When run returns, no worker holds a job or an unsent message.
LEMMA NothingLost == IInv => ReturnLosesNoWork
<1> SUFFICES ASSUME IInv, outcome = "returned", NEW w \in Worker
             PROVE  wjob[w] = NoJob /\ outbox[w] = << >>
    BY DEF ReturnLosesNoWork
<1>1. expecting = "job" /\ TypeOK
    BY DEF IInv, DriverInv
<1>2. \A b \in Batch : \E j \in 1..Len(results) : Token(results[j]) = b
  <2>1. \A i \in (base + 1)..nread : i \in 1..Len(results)
      BY MessageList
  <2>. QED
      BY <2>1, AllJobsRead DEF Token
<1>3. wjob[w] = NoJob
  <2> SUFFICES ASSUME wjob[w] # NoJob PROVE FALSE
      OBVIOUS
  <2>1. Held(w) = wjob[w]
      BY DEF IInv, WorkerInv, Held
  <2>2. wjob[w] \in Batch
      BY NJobsAssumption DEF IInv, TypeOK, NoJob, Batch
  <2>. QED
      BY <2>1, <2>2, <1>2 DEF IInv, Distinct
<1>4. outbox[w] = << >>
  <2> SUFFICES ASSUME outbox[w] # << >> PROVE FALSE
      OBVIOUS
  <2>1. outbox[w] \in Seq(Message)
      BY <1>1 DEF TypeOK
  <2>2. 1 \in 1..Len(outbox[w])
      BY <2>1
  <2>3. outbox[w][1] \in Message
      BY <2>1, <2>2
  <2>4. \E j \in 1..Len(results) : Token(results[j]) = Token(outbox[w][1])
    <3>1. CASE outbox[w][1].kind = "ready"
      <4>1. outbox[w][1].gpu \in Worker /\ Token(outbox[w][1]) = 0 - outbox[w][1].gpu
          BY <2>3, <3>1 DEF Message, Token
      <4>2. PICK j \in 1..base : results[j].kind = "ready" /\ results[j].gpu = outbox[w][1].gpu
          BY <4>1, <1>1, AllReadyRead
      <4>3. j \in 1..Len(results)
          BY <1>1, AllReadyRead DEF TypeOK
      <4>. QED
          BY <4>1, <4>2, <4>3 DEF Token
    <3>2. CASE outbox[w][1].kind = "job"
      <4>1. Token(outbox[w][1]) \in Batch
          BY <2>2, <2>3, <3>2, NJobsAssumption DEF IInv, Issued, Message, Token, Batch
      <4>. QED
          BY <4>1, <1>2
    <3>. QED
        BY <2>3, <3>1, <3>2 DEF Message
  <2>. QED
      BY <2>2, <2>4 DEF IInv, Distinct
<1>. QED
    BY <1>3, <1>4

\* A normal return never interrupts work on a GPU.
THEOREM ReturnInterruptsNobody == Spec => []ReturnLosesNoWork
BY NothingLost, Invariance, PTL

\* Sorting a list that names every batch once puts batch b at position b.
LEMMA SortedPermutation ==
    ASSUME NEW ms, DOMAIN ms = Batch,
           \A i \in Batch : ms[i].batch \in Batch,
           \A b \in Batch : \E i \in Batch : ms[i].batch = b,
           \A i, j \in Batch : ms[i].batch = ms[j].batch => i = j
    PROVE  /\ DOMAIN SortByBatch(ms) = Batch
           /\ \A b \in Batch : \E j \in Batch : SortByBatch(ms)[b] = ms[j] /\ ms[j].batch = b
<1> DEFINE Before(i, j) == \/ ms[i].batch < ms[j].batch
                           \/ ms[i].batch = ms[j].batch /\ i < j
           Rank(j) == Cardinality({i \in DOMAIN ms : Before(i, j)}) + 1
<1>1. SortByBatch(ms) = [r \in DOMAIN ms |-> ms[CHOOSE j \in DOMAIN ms : Rank(j) = r]]
    BY DEF SortByBatch
<1>2. \A j \in Batch : Rank(j) = ms[j].batch
  <2>1. PICK f \in [1..NJobs -> 1..NJobs] : \A i \in 1..NJobs : f[i] = ms[i].batch
    <3>1. [i \in 1..NJobs |-> ms[i].batch] \in [1..NJobs -> 1..NJobs]
      BY DEF Batch
    <3>. QED
      BY <3>1
  <2>2. \A i, k \in 1..NJobs : f[i] = f[k] => i = k
      BY <2>1 DEF Batch
  <2>3. \A b \in 1..NJobs : \E i \in 1..NJobs : f[i] = b
    <3> SUFFICES ASSUME NEW b \in 1..NJobs PROVE \E i \in 1..NJobs : f[i] = b
        OBVIOUS
    <3>1. PICK i \in 1..NJobs : ms[i].batch = b
        BY DEF Batch
    <3>. QED
        BY <2>1, <3>1
  <2> SUFFICES ASSUME NEW j \in 1..NJobs PROVE Rank(j) = ms[j].batch
      BY DEF Batch
  <2>4. PICK S \in SUBSET (1..NJobs) : S = {i \in DOMAIN ms : Before(i, j)}
      BY DEF Batch
  <2>5. \A i \in 1..NJobs : i \in S <=> f[i] < f[j]
    <3> SUFFICES ASSUME NEW i \in 1..NJobs PROVE i \in S <=> f[i] < f[j]
        OBVIOUS
    <3>1. i \in Int /\ f[i] \in Int /\ f[j] \in Int /\ f[i] = ms[i].batch /\ f[j] = ms[j].batch
      <4>1. f[i] \in 1..NJobs /\ f[j] \in 1..NJobs
        BY <2>1
      <4>2. f[i] = ms[i].batch /\ f[j] = ms[j].batch
        BY <2>1
      <4>3. \A k \in 1..NJobs : k \in Int
        BY NJobsAssumption
      <4>. QED
        BY <4>1, <4>2, <4>3
    <3>2. f[i] = f[j] => i = j
        BY <2>2
    <3>3. i \in S <=> Before(i, j)
        BY <2>4 DEF Batch
    <3>. QED
        BY <3>1, <3>2, <3>3
  <2>6. Cardinality(S) = f[j] - 1
    <3> DEFINE g == [i \in S |-> f[i]]
    <3>1. PICK m \in Nat : m = f[j] - 1
        BY NJobsAssumption
    <3>2. g \in [S -> 1..m] /\ \A a, b \in S : g[a] = g[b] => a = b
      <4>1. \A i \in S : i \in 1..NJobs /\ f[i] \in 1..NJobs /\ f[i] < f[j]
          BY <2>5
      <4>2. \A i \in S : f[i] \in 1..m
          BY <4>1, <3>1, NJobsAssumption
      <4>3. g \in [S -> 1..m]
          BY <4>2
      <4>. QED
          BY <4>1, <4>3, <2>2
    <3>3. \A t \in 1..m : \E i \in S : g[i] = t
      <4> SUFFICES ASSUME NEW t \in 1..m PROVE \E i \in S : g[i] = t
          OBVIOUS
      <4>1. t \in 1..NJobs /\ t < f[j]
          BY <3>1, NJobsAssumption
      <4>2. PICK i \in 1..NJobs : f[i] = t
          BY <4>1, <2>3
      <4>. QED
          BY <4>1, <4>2, <2>5
    <3>4. g \in Injection(S, 1..m) /\ g \in Surjection(S, 1..m)
      <4> HIDE DEF g
      <4>. QED
          BY <3>2, <3>3 DEF Injection, IsInjective, Surjection
    <3>5. IsFiniteSet(1..m) /\ Cardinality(1..m) = m
        BY FS_Interval
    <3>6. Cardinality(S) = Cardinality(1..m)
      <4> HIDE DEF g
      <4>. QED
          BY <3>4, <3>5, FS_Injection
    <3>. QED
        BY <3>1, <3>5, <3>6
  <2>7. Rank(j) = (f[j] - 1) + 1
      BY <2>4, <2>6
  <2>8. f[j] \in Int /\ f[j] = ms[j].batch
      BY <2>1, NJobsAssumption
  <2>. QED
      BY <2>7, <2>8
<1> HIDE DEF Rank
<1>3. \A b \in Batch : \E j \in Batch : SortByBatch(ms)[b] = ms[j] /\ ms[j].batch = b
  <2> SUFFICES ASSUME NEW b \in Batch
               PROVE  \E j \in Batch : SortByBatch(ms)[b] = ms[j] /\ ms[j].batch = b
      OBVIOUS
  <2> DEFINE c == CHOOSE j \in DOMAIN ms : Rank(j) = b
  <2>1. c \in Batch /\ Rank(c) = b
      BY <1>2
  <2>2. SortByBatch(ms)[b] = ms[c]
      BY <1>1
  <2>. QED
      BY <2>1, <2>2, <1>2
<1>. QED
    BY <1>1, <1>3

\* The list run returns has the successful result of the i-th job in place i.
ReturnsInOrder ==
    outcome = "returned" =>
        LET returned == SortByBatch(messages) IN
        /\ DOMAIN returned = Batch
        /\ \A b \in Batch : /\ returned[b].kind = "job" /\ returned[b].ok
                           /\ returned[b].batch = b

\* What run returns is in batch order.
LEMMA Ordered == IInv => ReturnsInOrder
<1> SUFFICES ASSUME IInv, outcome = "returned"
             PROVE  LET returned == SortByBatch(messages) IN
                    /\ DOMAIN returned = Batch
                    /\ \A b \in Batch : /\ returned[b].kind = "job" /\ returned[b].ok
                                        /\ returned[b].batch = b
    BY DEF ReturnsInOrder
<1>1. /\ DOMAIN messages = Batch
      /\ \A i \in Batch : messages[i].kind = "job" /\ messages[i].ok
      /\ \A b \in Batch : \E i \in Batch : messages[i].batch = b
      /\ \A i, j \in Batch : messages[i].batch = messages[j].batch => i = j
    BY Collected, MessageList DEF CollectsEveryBatch
<1>2. \A i \in Batch : messages[i].batch \in Batch
  <2> SUFFICES ASSUME NEW i \in Batch PROVE messages[i].batch \in Batch
      OBVIOUS
  <2>1. base + i \in 1..Len(results) /\ messages[i] = results[base + i]
      BY MessageList
  <2>2. results[base + i] \in Message /\ Token(results[base + i]) # 0
      BY <2>1, TokenType DEF IInv, Issued
  <2>. QED
      BY <1>1, <2>1, <2>2, NJobsAssumption DEF Token, Message, Batch
<1>3. /\ DOMAIN SortByBatch(messages) = Batch
      /\ \A b \in Batch : \E j \in Batch :
            SortByBatch(messages)[b] = messages[j] /\ messages[j].batch = b
    BY <1>1, <1>2, SortedPermutation
<1>4. \A b \in Batch : /\ SortByBatch(messages)[b].kind = "job"
                       /\ SortByBatch(messages)[b].ok
                       /\ SortByBatch(messages)[b].batch = b
  <2> SUFFICES ASSUME NEW b \in Batch
               PROVE  /\ SortByBatch(messages)[b].kind = "job"
                      /\ SortByBatch(messages)[b].ok
                      /\ SortByBatch(messages)[b].batch = b
      OBVIOUS
  <2>1. PICK j \in Batch : SortByBatch(messages)[b] = messages[j] /\ messages[j].batch = b
      BY <1>3
  <2>2. messages[j].kind = "job" /\ messages[j].ok
      BY <1>1
  <2>. QED
      BY <2>1, <2>2, Zenon
<1>. QED
    BY <1>3, <1>4

-----------------------------------------------------------------------------
(* Who was stopped and why the block raised.                               *)

\* A worker was killed, or an error has been delivered.
Cause == nkills > 0 \/ \E i \in 1..Len(results) : ~results[i].ok

\* As long as the block is undecided nobody has been signalled and no pill is
\* in the queue, so a worker that returns has put an error and one that is dead
\* was killed or has delivered it.
CauseInv ==
    /\ outcome = "none" => signalled = {}
    /\ outcome # "returned" => jobsPut <= NJobs
    /\ outcome = "none" => \A w \in Worker : wpc[w] = "return" =>
          Cause \/ \E i \in 1..Len(outbox[w]) : ~outbox[w][i].ok
    /\ outcome = "none" => \A w \in Worker : wpc[w] = "dead" => Cause
    /\ outcome = "raised" => SomethingFailed

\* Past the last join whoever lives has been signalled.
StopInv ==
    pc \in {"lastJoin", "left", "exited"} /\ nstarted = NGpus =>
        \A w \in Worker : Alive(w) => w \in signalled

\* An outbox after a message was appended to it.
LEMMA AppendFacts ==
    ASSUME TypeOK, NEW w \in Worker, NEW m \in Message,
           outbox' = [outbox EXCEPT ![w] = Append(@, m)]
    PROVE  /\ Len(outbox[w]) \in Nat /\ Len(outbox'[w]) = Len(outbox[w]) + 1
           /\ \A i \in 1..Len(outbox[w]) : outbox'[w][i] = outbox[w][i]
           /\ outbox'[w][Len(outbox[w]) + 1] = m
           /\ \A v \in Worker \ {w} : outbox'[v] = outbox[v]
<1>1. outbox'[w] = Append(outbox[w], m) /\ outbox[w] \in Seq(Message)
    BY DEF TypeOK
<1>2. \A v \in Worker \ {w} : outbox'[v] = outbox[v]
    BY DEF TypeOK
<1>. QED
    BY <1>1, <1>2

\* A cause of failure does not go away.
LEMMA CauseGrows ==
    ASSUME IInv, [Next]_vars
    PROVE  /\ Cause => Cause'
           /\ SomethingFailed => SomethingFailed'
<1>1. nkills \in Nat /\ nkills' \in Nat /\ nkills' >= nkills
  <2>1. UNCHANGED nkills \/ (nkills' = nkills + 1)
      BY DEF Next, Driver, MainThread, FeederThread, StartNext, StartFails, ReceiveMessage,
             GetTimesOut, CheckExits, Run, RunReturns, ForceStop, PutPills,
             TerminateStragglers, LastJoin, DriverExits, FeedJobs, Finished, LoadModel,
             LoadFails, LockQueue, TakeItem, FinishJob, JobFails, BeginWrite, EndWrite,
             Exit, Terminated, Killed, Die, vars
  <2>. QED
      BY <2>1, MaxKillsAssumption DEF IInv, TypeOK
<1>2. /\ Len(results) \in Nat /\ Len(results') \in Nat /\ Len(results') >= Len(results)
      /\ \A i \in 1..Len(results) : results'[i] = results[i]
  <2>1. UNCHANGED results \/ \E w \in Worker : EndWrite(w)
      BY DEF Next, Driver, MainThread, FeederThread, StartNext, StartFails, ReceiveMessage,
             GetTimesOut, CheckExits, Run, RunReturns, ForceStop, PutPills,
             TerminateStragglers, LastJoin, DriverExits, FeedJobs, Finished, LoadModel,
             LoadFails, LockQueue, TakeItem, FinishJob, JobFails, BeginWrite,
             Exit, Terminated, Killed, Die, vars, resultStream
  <2>2. Len(results) \in Nat
      BY DEF IInv, TypeOK
  <2>3. CASE \E w \in Worker : EndWrite(w)
      BY <2>2, <2>3, WriteFacts DEF IInv
  <2>. QED
      BY <2>1, <2>2, <2>3
<1>3. Cause => Cause'
    BY <1>1, <1>2 DEF Cause
<1>4. nstarted < NGpus /\ pc \in {"left", "exited"} =>
      nstarted' = nstarted /\ pc' \in {"left", "exited"}
    BY DEF Next, Driver, MainThread, FeederThread, StartNext, StartFails, ReceiveMessage,
           GetTimesOut, CheckExits, Run, RunReturns, ForceStop, PutPills,
           TerminateStragglers, LastJoin, DriverExits, FeedJobs, Finished, LoadModel,
           LoadFails, LockQueue, TakeItem, FinishJob, JobFails, BeginWrite, EndWrite,
           Exit, Terminated, Killed, Die, vars, driver
<1>5. DOMAIN results = 1..Len(results) /\ DOMAIN results' = 1..Len(results')
  <2>1. results \in Seq(Message) /\ results' \in Seq(Message)
      BY StepInv DEF IInv, TypeOK
  <2>. QED
      BY <2>1
<1>6. SomethingFailed <=> (nstarted < NGpus /\ pc \in {"left", "exited"}) \/ Cause
    BY <1>5 DEF SomethingFailed, Cause
<1>7. SomethingFailed' <=> (nstarted' < NGpus /\ pc' \in {"left", "exited"}) \/ Cause'
    BY <1>5 DEF SomethingFailed, Cause
<1>. QED
    BY <1>3, <1>4, <1>6, <1>7

\* Every step keeps the causes of failure.
LEMMA CauseStep ==
    ASSUME IInv, CauseInv, [Next]_vars
    PROVE  CauseInv'
<1> USE CauseGrows
<1>0. TypeOK /\ DriverInv /\ WorkerInv
    BY DEF IInv
<1>1. CASE StartNext
    BY <1>1, <1>0 DEF TypeOK, CauseInv, StartNext, driver, jobStream, resultStream
<1>2. CASE StartFails
    BY <1>2, <1>0 DEF TypeOK, DriverInv, CauseInv, SomethingFailed, StartFails, jobStream
<1>3. CASE ReceiveMessage
  <2>1. nread + 1 \in 1..Len(results) /\ results[nread + 1].kind = expecting
      BY <1>3, <1>0, OneKind DEF ReceiveMessage, TypeOK, NoForeignMessage
  <2>2. outcome' # outcome => Cause /\ outcome = "none" /\ outcome' = "raised"
      BY <1>3, <1>0, <2>1 DEF ReceiveMessage, Cause, DriverInv
  <2>3. Cause' => SomethingFailed'
      BY <1>3, <1>0 DEF Cause, SomethingFailed, ReceiveMessage, resultStream, TypeOK
  <2>4. Cause' <=> Cause
      BY <1>3 DEF Cause, ReceiveMessage, resultStream
  <2>. QED
      BY <1>3, <2>2, <2>3, <2>4 DEF CauseInv, ReceiveMessage, jobStream, resultStream
<1>4. CASE GetTimesOut
    BY <1>4, <1>0 DEF TypeOK, CauseInv, GetTimesOut, driver, jobStream, resultStream
<1>5. CASE CheckExits
  <2>1. outcome' # outcome => Cause /\ outcome = "none" /\ outcome' = "raised"
      BY <1>5, <1>0 DEF CheckExits, CauseInv, DriverInv
  <2>2. Cause' => SomethingFailed'
      BY <1>5, <1>0 DEF Cause, SomethingFailed, CheckExits, resultStream, TypeOK
  <2>3. Cause' <=> Cause
      BY <1>5 DEF Cause, CheckExits, resultStream
  <2>. QED
      BY <1>5, <2>1, <2>2, <2>3 DEF CauseInv, CheckExits, jobStream, resultStream
<1>6. CASE Run
    BY <1>6, <1>0, NJobsAssumption DEF TypeOK, CauseInv, DriverInv, Cause, Run, resultStream
<1>7. CASE RunReturns
    BY <1>7, <1>0 DEF TypeOK, CauseInv, DriverInv, RunReturns, jobStream, resultStream
<1>8. CASE ForceStop
    BY <1>8, <1>0 DEF TypeOK, CauseInv, DriverInv, ForceStop, jobStream, resultStream
<1>9. CASE PutPills
    BY <1>9, <1>0 DEF TypeOK, CauseInv, DriverInv, PutPills, jobStream, resultStream
<1>10. CASE TerminateStragglers
    BY <1>10, <1>0 DEF TypeOK, CauseInv, DriverInv, TerminateStragglers, jobStream, resultStream
<1>11. CASE LastJoin
    BY <1>11, <1>0 DEF TypeOK, CauseInv, LastJoin, driver, jobStream, resultStream
<1>12. CASE DriverExits
    BY <1>12, <1>0 DEF TypeOK, CauseInv, DriverExits, driver, jobStream, resultStream
<1>13. CASE FeedJobs
    BY <1>13, <1>0 DEF TypeOK, CauseInv, FeedJobs, driver, jobStream, resultStream
<1>14. CASE Finished
    BY <1>14, <1>0 DEF TypeOK, CauseInv, Finished, vars, driver, jobStream, resultStream
<1>15. ASSUME NEW w \in Worker, LoadModel(w) PROVE CauseInv'
  <2>1. PICK m \in Message : m.ok = TRUE /\ outbox' = [outbox EXCEPT ![w] = Append(@, m)]
      BY <1>15, <1>0, MessageType, NJobsAssumption DEF LoadModel, TypeOK, Ready
  <2>2. /\ Len(outbox[w]) \in Nat /\ Len(outbox'[w]) = Len(outbox[w]) + 1
        /\ \A i \in 1..Len(outbox[w]) : outbox'[w][i] = outbox[w][i]
        /\ outbox'[w][Len(outbox[w]) + 1] = m
        /\ \A v \in Worker \ {w} : outbox'[v] = outbox[v]
      BY <1>0, <2>1, AppendFacts
  <2>3. wpc'[w] = "get" /\ \A v \in Worker \ {w} : wpc'[v] = wpc[v]
      BY <1>15, <1>0 DEF LoadModel, TypeOK
  <2>4. UNCHANGED <<outcome, signalled, jobsPut>>
      BY <1>15 DEF LoadModel, driver, jobStream
  <2>. QED
      BY <2>1, <2>2, <2>3, <2>4 DEF CauseInv
<1>16. ASSUME NEW w \in Worker, LoadFails(w) PROVE CauseInv'
  <2>1. PICK m \in Message : m.ok = FALSE /\ outbox' = [outbox EXCEPT ![w] = Append(@, m)]
      BY <1>16, <1>0, MessageType, NJobsAssumption DEF LoadFails, TypeOK, Ready
  <2>2. /\ Len(outbox[w]) \in Nat /\ Len(outbox'[w]) = Len(outbox[w]) + 1
        /\ \A i \in 1..Len(outbox[w]) : outbox'[w][i] = outbox[w][i]
        /\ outbox'[w][Len(outbox[w]) + 1] = m
        /\ \A v \in Worker \ {w} : outbox'[v] = outbox[v]
      BY <1>0, <2>1, AppendFacts
  <2>3. wpc'[w] = "return" /\ \A v \in Worker \ {w} : wpc'[v] = wpc[v]
      BY <1>16, <1>0 DEF LoadFails, TypeOK
  <2>4. UNCHANGED <<outcome, signalled, jobsPut>>
      BY <1>16 DEF LoadFails, driver, jobStream
  <2>. QED
      BY <2>1, <2>2, <2>3, <2>4 DEF CauseInv
<1>17. ASSUME NEW w \in Worker, LockQueue(w) PROVE CauseInv'
    BY <1>17, <1>0 DEF TypeOK, CauseInv, LockQueue, driver, jobStream, resultStream
<1>18. ASSUME NEW w \in Worker, TakeItem(w) PROVE CauseInv'
  <2>1. outcome # "returned" => jobsGot + 1 \in Batch
      BY <1>18, <1>0, NJobsAssumption, NGpusAssumption DEF TakeItem, CauseInv, TypeOK, Batch
  <2>2. /\ outcome # "returned" => wpc'[w] = "work"
        /\ \A v \in Worker \ {w} : wpc'[v] = wpc[v]
        /\ UNCHANGED <<outcome, signalled, jobsPut, outbox>>
      BY <1>18, <1>0, <2>1 DEF TypeOK, TakeItem, driver, resultStream
  <2>. QED
      BY <2>2 DEF CauseInv
<1>19. ASSUME NEW w \in Worker, FinishJob(w) PROVE CauseInv'
  <2>1. PICK m \in Message : m.ok = TRUE /\ outbox' = [outbox EXCEPT ![w] = Append(@, m)]
      BY <1>19, <1>0, MessageType, NJobsAssumption DEF FinishJob, TypeOK, Done
  <2>2. /\ Len(outbox[w]) \in Nat /\ Len(outbox'[w]) = Len(outbox[w]) + 1
        /\ \A i \in 1..Len(outbox[w]) : outbox'[w][i] = outbox[w][i]
        /\ outbox'[w][Len(outbox[w]) + 1] = m
        /\ \A v \in Worker \ {w} : outbox'[v] = outbox[v]
      BY <1>0, <2>1, AppendFacts
  <2>3. wpc'[w] = "get" /\ \A v \in Worker \ {w} : wpc'[v] = wpc[v]
      BY <1>19, <1>0 DEF FinishJob, TypeOK
  <2>4. UNCHANGED <<outcome, signalled, jobsPut>>
      BY <1>19 DEF FinishJob, driver, jobStream
  <2>. QED
      BY <2>1, <2>2, <2>3, <2>4 DEF CauseInv
<1>20. ASSUME NEW w \in Worker, JobFails(w) PROVE CauseInv'
  <2>1. PICK m \in Message : m.ok = FALSE /\ outbox' = [outbox EXCEPT ![w] = Append(@, m)]
      BY <1>20, <1>0, MessageType, NJobsAssumption DEF JobFails, TypeOK, Done
  <2>2. /\ Len(outbox[w]) \in Nat /\ Len(outbox'[w]) = Len(outbox[w]) + 1
        /\ \A i \in 1..Len(outbox[w]) : outbox'[w][i] = outbox[w][i]
        /\ outbox'[w][Len(outbox[w]) + 1] = m
        /\ \A v \in Worker \ {w} : outbox'[v] = outbox[v]
      BY <1>0, <2>1, AppendFacts
  <2>3. wpc'[w] = "return" /\ \A v \in Worker \ {w} : wpc'[v] = wpc[v]
      BY <1>20, <1>0 DEF JobFails, TypeOK
  <2>4. UNCHANGED <<outcome, signalled, jobsPut>>
      BY <1>20 DEF JobFails, driver, jobStream
  <2>. QED
      BY <2>1, <2>2, <2>3, <2>4 DEF CauseInv
<1>21. ASSUME NEW w \in Worker, BeginWrite(w) PROVE CauseInv'
    BY <1>21, <1>0 DEF TypeOK, CauseInv, BeginWrite, driver, jobStream, resultStream
<1>22. ASSUME NEW w \in Worker, EndWrite(w) PROVE CauseInv'
  <2>1. \A v \in Worker : (\E i \in 1..Len(outbox[v]) : ~outbox[v][i].ok) =>
            Cause' \/ \E i \in 1..Len(outbox'[v]) : ~outbox'[v][i].ok
    <3> SUFFICES ASSUME NEW v \in Worker, NEW i \in 1..Len(outbox[v]), ~outbox[v][i].ok
                 PROVE  Cause' \/ \E j \in 1..Len(outbox'[v]) : ~outbox'[v][j].ok
        OBVIOUS
    <3>1. CASE v # w
        BY <3>1, <1>22, <1>0, WriteFacts
    <3>2. CASE v = w /\ i = 1
      <4>1. Len(results) \in Nat
          BY <1>0 DEF TypeOK
      <4>. QED
          BY <3>2, <4>1, <1>22, <1>0, WriteFacts DEF Cause
    <3>3. CASE v = w /\ i # 1
      <4>1. Len(outbox[w]) \in Nat
          BY <1>0 DEF TypeOK
      <4>2. i - 1 \in 1..Len(outbox'[w]) /\ outbox'[w][i - 1] = outbox[w][i]
          BY <3>3, <4>1, <1>22, <1>0, WriteFacts
      <4>. QED
          BY <3>3, <4>2
    <3>. QED
        BY <3>1, <3>2, <3>3
  <2>. QED
      BY <1>22, <2>1 DEF CauseInv, EndWrite, driver, jobStream
<1>23. ASSUME NEW w \in Worker, Exit(w) PROVE CauseInv'
  <2>1. outcome = "none" => Cause
      BY <1>23, <1>0 DEF Exit, CauseInv
  <2>. QED
      BY <1>23, <1>0, <2>1 DEF TypeOK, CauseInv, Exit, driver, jobStream, resultStream
<1>24. ASSUME NEW w \in Worker, Terminated(w) PROVE CauseInv'
    BY <1>24, <1>0 DEF TypeOK, CauseInv, Terminated, Die, driver, jobStream
<1>25. ASSUME NEW w \in Worker, Killed(w) PROVE CauseInv'
  <2>1. Cause'
      BY <1>25, <1>0, MaxKillsAssumption DEF Killed, Cause, TypeOK
  <2>. QED
      BY <1>25, <2>1 DEF CauseInv, Killed, Die, driver, jobStream
<1>26. CASE UNCHANGED vars
    BY <1>26, <1>0 DEF TypeOK, CauseInv, vars, driver, jobStream, resultStream
<1>. QED
    BY <1>1, <1>2, <1>3, <1>4, <1>5, <1>6, <1>7, <1>8, <1>9, <1>10, <1>11, <1>12, <1>13, <1>14,
       <1>15, <1>16, <1>17, <1>18, <1>19, <1>20, <1>21, <1>22, <1>23, <1>24, <1>25,
       <1>26 DEF Next, Driver, MainThread, FeederThread

\* Every step keeps signalled whoever lives past the last join.
LEMMA StopStep ==
    ASSUME IInv, StopInv, [Next]_vars
    PROVE  StopInv'
<1>0. TypeOK /\ DriverInv
    BY DEF IInv
<1>1. CASE StartNext
    BY <1>1, <1>0, NGpusAssumption DEF TypeOK, DriverInv, StopInv, Alive, StartNext, driver,
       jobStream, resultStream
<1>2. CASE StartFails
    BY <1>2, <1>0, NGpusAssumption DEF TypeOK, DriverInv, StopInv, Alive, StartFails, driver,
       jobStream, resultStream
<1>3. CASE ReceiveMessage
    BY <1>3, <1>0, NGpusAssumption DEF TypeOK, DriverInv, StopInv, Alive, ReceiveMessage, driver,
       jobStream, resultStream
<1>4. CASE GetTimesOut
    BY <1>4, <1>0, NGpusAssumption DEF TypeOK, DriverInv, StopInv, Alive, GetTimesOut, driver,
       jobStream, resultStream
<1>5. CASE CheckExits
    BY <1>5, <1>0, NGpusAssumption DEF TypeOK, DriverInv, StopInv, Alive, CheckExits, driver,
       jobStream, resultStream
<1>6. CASE Run
    BY <1>6, <1>0, NGpusAssumption DEF TypeOK, DriverInv, StopInv, Alive, Run, driver, jobStream,
       resultStream
<1>7. CASE RunReturns
    BY <1>7, <1>0, NGpusAssumption DEF TypeOK, DriverInv, StopInv, Alive, RunReturns, driver,
       jobStream, resultStream
<1>8. CASE ForceStop
    BY <1>8, <1>0, NGpusAssumption DEF TypeOK, DriverInv, StopInv, Alive, ForceStop, driver,
       jobStream, resultStream
<1>9. CASE PutPills
    BY <1>9, <1>0, NGpusAssumption DEF TypeOK, DriverInv, StopInv, Alive, PutPills, driver,
       jobStream, resultStream
<1>10. CASE TerminateStragglers
    BY <1>10, <1>0, NGpusAssumption DEF TypeOK, DriverInv, StopInv, Alive, TerminateStragglers,
       driver, jobStream, resultStream
<1>11. CASE LastJoin
    BY <1>11, <1>0, NGpusAssumption DEF TypeOK, DriverInv, StopInv, Alive, LastJoin, driver,
       jobStream, resultStream
<1>12. CASE DriverExits
    BY <1>12, <1>0, NGpusAssumption DEF TypeOK, DriverInv, StopInv, Alive, DriverExits, driver,
       jobStream, resultStream
<1>13. CASE FeedJobs
    BY <1>13, <1>0, NGpusAssumption DEF TypeOK, DriverInv, StopInv, Alive, FeedJobs, driver,
       jobStream, resultStream
<1>14. CASE Finished
    BY <1>14, <1>0, NGpusAssumption DEF TypeOK, DriverInv, StopInv, Alive, Finished, vars,
       driver, jobStream, resultStream
<1>15. ASSUME NEW w \in Worker, LoadModel(w) PROVE StopInv'
    BY <1>15, <1>0, NGpusAssumption DEF TypeOK, DriverInv, StopInv, Alive, LoadModel, driver,
       jobStream, resultStream
<1>16. ASSUME NEW w \in Worker, LoadFails(w) PROVE StopInv'
    BY <1>16, <1>0, NGpusAssumption DEF TypeOK, DriverInv, StopInv, Alive, LoadFails, driver,
       jobStream, resultStream
<1>17. ASSUME NEW w \in Worker, LockQueue(w) PROVE StopInv'
    BY <1>17, <1>0, NGpusAssumption DEF TypeOK, DriverInv, StopInv, Alive, LockQueue, driver,
       jobStream, resultStream
<1>18. ASSUME NEW w \in Worker, TakeItem(w) PROVE StopInv'
    BY <1>18, <1>0, NGpusAssumption DEF TypeOK, DriverInv, StopInv, Alive, TakeItem, driver,
       jobStream, resultStream
<1>19. ASSUME NEW w \in Worker, FinishJob(w) PROVE StopInv'
    BY <1>19, <1>0, NGpusAssumption DEF TypeOK, DriverInv, StopInv, Alive, FinishJob, driver,
       jobStream, resultStream
<1>20. ASSUME NEW w \in Worker, JobFails(w) PROVE StopInv'
    BY <1>20, <1>0, NGpusAssumption DEF TypeOK, DriverInv, StopInv, Alive, JobFails, driver,
       jobStream, resultStream
<1>21. ASSUME NEW w \in Worker, BeginWrite(w) PROVE StopInv'
    BY <1>21, <1>0, NGpusAssumption DEF TypeOK, DriverInv, StopInv, Alive, BeginWrite, driver,
       jobStream, resultStream
<1>22. ASSUME NEW w \in Worker, EndWrite(w) PROVE StopInv'
    BY <1>22, <1>0, NGpusAssumption DEF TypeOK, DriverInv, StopInv, Alive, EndWrite, driver,
       jobStream, resultStream
<1>23. ASSUME NEW w \in Worker, Exit(w) PROVE StopInv'
    BY <1>23, <1>0, NGpusAssumption DEF TypeOK, DriverInv, StopInv, Alive, Exit, driver,
       jobStream, resultStream
<1>24. ASSUME NEW w \in Worker, Terminated(w) PROVE StopInv'
    BY <1>24, <1>0, NGpusAssumption DEF TypeOK, DriverInv, StopInv, Alive, Terminated, Die,
       driver, jobStream, resultStream
<1>25. ASSUME NEW w \in Worker, Killed(w) PROVE StopInv'
    BY <1>25, <1>0, NGpusAssumption DEF TypeOK, DriverInv, StopInv, Alive, Killed, Die, driver,
       jobStream, resultStream
<1>26. CASE UNCHANGED vars
    BY <1>26, <1>0, NGpusAssumption DEF TypeOK, DriverInv, StopInv, Alive, vars, driver,
       jobStream, resultStream
<1>. QED
    BY <1>1, <1>2, <1>3, <1>4, <1>5, <1>6, <1>7, <1>8, <1>9, <1>10, <1>11, <1>12, <1>13, <1>14,
       <1>15, <1>16, <1>17, <1>18, <1>19, <1>20, <1>21, <1>22, <1>23, <1>24, <1>25,
       <1>26 DEF Next, Driver, MainThread, FeederThread

\* The strengthened invariant holds of every behaviour.
LEMMA Strengthened == Spec => [](IInv /\ CauseInv /\ StopInv)
<1>1. Init => CauseInv /\ StopInv
    BY NJobsAssumption DEF Init, CauseInv, StopInv
<1>2. IInv /\ CauseInv /\ StopInv /\ [Next]_vars => CauseInv' /\ StopInv'
    BY CauseStep, StopStep
<1>. QED
    BY <1>1, <1>2, InitInv, StepInv, PTL DEF Spec

\* For any number of GPUs, jobs and kills: whoever outlives a block whose
\* processes were all started has been sent a signal.
THEOREM EveryoneIsStopped == Spec => []NoWorkerForgotten
<1>1. StopInv => NoWorkerForgotten
    BY DEF StopInv, NoWorkerForgotten
<1>. QED
    BY <1>1, Strengthened, PTL

-----------------------------------------------------------------------------
(* The pool implements BatchRun.                                           *)

\* What has been answered and returned when run returns.
LEMMA ReturnFacts ==
    ASSUME IInv, outcome = "returned"
    PROVE  AnsweredJobs = 1..NJobs /\ Returned = [b \in 1..NJobs |-> b]
<1>1. results \in Seq(Message) /\ DOMAIN results = 1..Len(results)
    BY DEF IInv, TypeOK
<1>2. ASSUME NEW i \in DOMAIN results, results[i].kind = "job" PROVE results[i].batch \in 1..NJobs
  <2>1. results[i] \in Message /\ Token(results[i]) # 0
      BY <1>1, <1>2, TokenType DEF IInv, Issued
  <2>. QED
      BY <1>2, <2>1, NJobsAssumption DEF Token, Message
<1>3. ASSUME NEW b \in 1..NJobs
      PROVE  \E i \in DOMAIN results : results[i].kind = "job" /\ results[i].ok /\ results[i].batch = b
  <2>1. PICK i \in (base + 1)..nread : results[i].kind = "job" /\ results[i].batch = b
      BY AllJobsRead DEF Batch
  <2>2. i \in DOMAIN results /\ results[i].ok
      BY <1>1, <2>1 DEF IInv, TypeOK, ReadInv
  <2>. QED
      BY <2>1, <2>2
<1>4. AnsweredJobs = 1..NJobs
    BY <1>2, <1>3 DEF AnsweredJobs
<1>5. /\ DOMAIN SortByBatch(messages) = 1..NJobs
      /\ \A b \in 1..NJobs : /\ SortByBatch(messages)[b].kind = "job"
                             /\ SortByBatch(messages)[b].ok
                             /\ SortByBatch(messages)[b].batch = b
    BY Ordered DEF ReturnsInOrder, Batch
<1>6. Returned = [b \in 1..NJobs |-> b]
    BY <1>5 DEF Returned
<1>. QED
    BY <1>4, <1>6

\* What run returned does not change.
LEMMA ReturnedStays ==
    ASSUME IInv, IInv', UNCHANGED outcome
    PROVE  Returned' = Returned
<1>1. CASE outcome = "returned"
  <2>1. Returned = [b \in 1..NJobs |-> b]
      BY <1>1, ReturnFacts
  <2>2. (IInv /\ outcome = "returned" => Returned = [b \in 1..NJobs |-> b])'
      BY ReturnFacts, PTL
  <2>. QED
      BY <1>1, <2>1, <2>2
<1>2. CASE outcome # "returned"
    BY <1>2 DEF Returned
<1>. QED
    BY <1>1, <1>2

\* A step that delivers nothing and decides nothing is at most a failure.
LEMMA QuietStep ==
    ASSUME IInv, IInv', [Next]_vars, UNCHANGED <<results, outcome>>
    PROVE  [Promise!Next]_Promise!vars
<1>1. AnsweredJobs' = AnsweredJobs
    BY DEF AnsweredJobs
<1>2. Returned' = Returned
    BY ReturnedStays
<1>3. SomethingFailed' = SomethingFailed \/ SomethingFailed' = TRUE
    BY CauseGrows, Zenon DEF SomethingFailed
<1>. QED
    BY <1>1, <1>2, <1>3, Zenon DEF Promise!Next, Promise!Fail, Promise!vars

\* A message that reaches the pipe answers a job for the first time, announces
\* a worker, or is a failure.
LEMMA DeliverStep ==
    ASSUME IInv, IInv', NEW w \in Worker, EndWrite(w)
    PROVE  [Promise!Next]_Promise!vars
<1> DEFINE m == outbox[w][1]
<1>1. [Next]_vars
    BY DEF Next, FeederThread
<1>2. /\ outbox[w] # << >> /\ m \in Message /\ 1 \in 1..Len(outbox[w])
      /\ Len(results) \in Nat /\ Len(results') = Len(results) + 1
      /\ results'[Len(results) + 1] = m
      /\ \A i \in 1..Len(results) : results'[i] = results[i]
      /\ DOMAIN results = 1..Len(results) /\ DOMAIN results' = 1..Len(results')
  <2>1. outbox[w] # << >> /\ outbox[w] \in Seq(Message) /\ results \in Seq(Message)
      BY WriteFacts DEF IInv, TypeOK
  <2>2. results' \in Seq(Message)
      BY DEF IInv, TypeOK
  <2>. QED
      BY <2>1, <2>2, WriteFacts DEF IInv
<1>3. UNCHANGED <<outcome, nkills, nstarted, pc>> /\ Returned' = Returned
    BY ReturnedStays DEF EndWrite, driver
<1> HIDE DEF m
<1>4. CASE m.kind = "job" /\ m.ok
  <2>1. m.batch \in 1..NJobs
    <3>1. Token(m) # 0
        BY <1>2 DEF IInv, Issued, m
    <3>. QED
        BY <3>1, <1>2, <1>4, NJobsAssumption DEF Token, Message
  <2>2. m.batch \notin AnsweredJobs
    <3> SUFFICES ASSUME NEW j \in 1..Len(results), results[j].kind = "job", results[j].batch = m.batch
                 PROVE  FALSE
        BY <1>2 DEF AnsweredJobs
    <3>1. Token(m) # Token(results[j])
        BY <1>2 DEF IInv, Distinct, m
    <3>. QED
        BY <3>1, <1>4 DEF Token
  <2>3. AnsweredJobs' = AnsweredJobs \cup {m.batch}
    <3>1. ASSUME NEW b \in AnsweredJobs' PROVE b \in AnsweredJobs \cup {m.batch}
      <4>1. PICK i \in 1..Len(results') : results'[i].kind = "job" /\ results'[i].ok /\ results'[i].batch = b
          BY <1>2, <3>1 DEF AnsweredJobs
      <4>2. CASE i = Len(results) + 1
          BY <1>2, <4>1, <4>2
      <4>3. CASE i # Len(results) + 1
        <5>1. i \in 1..Len(results)
            BY <1>2, <4>3
        <5>. QED
            BY <1>2, <4>1, <5>1 DEF AnsweredJobs
      <4>. QED
          BY <4>2, <4>3
    <3>2. ASSUME NEW b \in AnsweredJobs PROVE b \in AnsweredJobs'
      <4>1. PICK i \in 1..Len(results) : results[i].kind = "job" /\ results[i].ok /\ results[i].batch = b
          BY <1>2, <3>2 DEF AnsweredJobs
      <4>2. i \in 1..Len(results')
          BY <1>2
      <4>. QED
          BY <1>2, <4>1, <4>2 DEF AnsweredJobs
    <3>3. m.batch \in AnsweredJobs'
      <4>1. Len(results) + 1 \in 1..Len(results')
          BY <1>2
      <4>. QED
          BY <1>2, <1>4, <4>1 DEF AnsweredJobs
    <3>. QED
        BY <3>1, <3>2, <3>3
  <2>4. SomethingFailed' = SomethingFailed
    <3>1. (\E i \in DOMAIN results' : ~results'[i].ok) <=> (\E i \in DOMAIN results : ~results[i].ok)
        BY <1>2, <1>4
    <3>. QED
        BY <3>1, <1>3 DEF SomethingFailed
  <2>. QED
      BY <1>3, <2>1, <2>2, <2>3, <2>4 DEF Promise!Next, Promise!Answer
<1>5. CASE ~(m.kind = "job" /\ m.ok)
  <2>1. AnsweredJobs' = AnsweredJobs
    <3>1. \A i \in 1..Len(results') : results'[i].kind = "job" /\ results'[i].ok => i \in 1..Len(results)
        BY <1>2, <1>5
    <3>2. \A i \in 1..Len(results) : i \in 1..Len(results')
        BY <1>2
    <3>. QED
        BY <1>2, <3>1, <3>2 DEF AnsweredJobs
  <2>2. SomethingFailed' = SomethingFailed \/ SomethingFailed' = TRUE
      BY <1>1, CauseGrows, Zenon DEF SomethingFailed
  <2>. QED
      BY <1>3, <2>1, <2>2, Zenon DEF Promise!Next, Promise!Fail, Promise!vars
<1>. QED
    BY <1>4, <1>5

\* The steps that decide the block.
LEMMA DecideStep ==
    ASSUME IInv, IInv', CauseInv', [Next]_vars, UNCHANGED results, outcome' # outcome
    PROVE  [Promise!Next]_Promise!vars
<1>1. outcome = "none" /\ outcome' \in {"returned", "raised"}
  <2>1. StartFails \/ ReceiveMessage \/ CheckExits \/ Run \/ RunReturns
      BY DEF Next, Driver, MainThread, FeederThread, StartNext,
             GetTimesOut, ForceStop, PutPills,
             TerminateStragglers, LastJoin, DriverExits, FeedJobs, Finished, LoadModel,
             LoadFails, LockQueue, TakeItem, FinishJob, JobFails, BeginWrite, EndWrite,
             Exit, Terminated, Killed, Die, vars, driver
  <2>. QED
      BY <2>1 DEF StartFails, ReceiveMessage, CheckExits, Run, RunReturns, IInv, DriverInv
<1>2. AnsweredJobs' = AnsweredJobs /\ Returned = << >>
    BY <1>1 DEF AnsweredJobs, Returned
<1>3. CASE outcome' = "returned"
  <2>1. (IInv /\ outcome = "returned" =>
            AnsweredJobs = 1..NJobs /\ Returned = [b \in 1..NJobs |-> b])'
      BY ReturnFacts, PTL
  <2>2. AnsweredJobs = 1..NJobs /\ Returned' = [b \in 1..NJobs |-> b]
      BY <1>2, <1>3, <2>1
  <2>3. SomethingFailed' = SomethingFailed
    <3>1. Run \/ RunReturns
        BY <1>1, <1>3 DEF Next, Driver, MainThread, FeederThread, StartNext, StartFails,
               ReceiveMessage, CheckExits, GetTimesOut, ForceStop, PutPills,
               TerminateStragglers, LastJoin, DriverExits, FeedJobs, Finished, LoadModel,
               LoadFails, LockQueue, TakeItem, FinishJob, JobFails, BeginWrite, EndWrite,
               Exit, Terminated, Killed, Die, vars, driver
    <3>. QED
        BY <3>1 DEF Run, RunReturns, SomethingFailed
  <2>. QED
      BY <1>1, <1>2, <1>3, <2>2, <2>3 DEF Promise!Next, Promise!Return
<1>4. CASE outcome' = "raised"
  <2>1. SomethingFailed' = TRUE
      BY <1>4, Zenon DEF CauseInv, SomethingFailed
  <2>2. Returned' = << >>
      BY <1>4 DEF Returned
  <2>. QED
      BY <1>1, <1>2, <1>4, <2>1, <2>2, Zenon DEF Promise!Next, Promise!Raise
<1>. QED
    BY <1>1, <1>3, <1>4

\* Every behaviour of the pool, for any number of GPUs, jobs and kills, is one
\* BatchRun allows: every result once and in order, or an exception with a cause.
THEOREM PoolKeepsPromise == Spec => KeepsPromise
<1>1. Init => Promise!Init
  <2> SUFFICES ASSUME Init PROVE Promise!Init
      OBVIOUS
  <2>1. AnsweredJobs = {} /\ Returned = << >>
      BY DEF Init, AnsweredJobs, Returned
  <2>2. ~SomethingFailed
      BY DEF Init, SomethingFailed
  <2>3. SomethingFailed = FALSE
      BY <2>2, Zenon DEF SomethingFailed
  <2>. QED
      BY <2>1, <2>3 DEF Promise!Init, Init
<1>2. ASSUME IInv, IInv', CauseInv', [Next]_vars PROVE [Promise!Next]_Promise!vars
  <2>1. CASE \E w \in Worker : EndWrite(w)
      BY <1>2, <2>1, DeliverStep
  <2>2. CASE ~\E w \in Worker : EndWrite(w)
    <3>1. UNCHANGED results
        BY <1>2, <2>2 DEF Next, Driver, MainThread, FeederThread, StartNext, StartFails,
               ReceiveMessage, GetTimesOut, CheckExits, Run, RunReturns, ForceStop, PutPills,
               TerminateStragglers, LastJoin, DriverExits, FeedJobs, Finished, LoadModel,
               LoadFails, LockQueue, TakeItem, FinishJob, JobFails, BeginWrite,
               Exit, Terminated, Killed, Die, vars, resultStream
    <3>2. CASE UNCHANGED outcome
        BY <1>2, <3>1, <3>2, QuietStep
    <3>3. CASE outcome' # outcome
        BY <1>2, <3>1, <3>3, DecideStep
    <3>. QED
        BY <3>2, <3>3
  <2>. QED
      BY <2>1, <2>2
<1>3. IInv /\ IInv' /\ CauseInv' /\ [Next]_vars => [Promise!Next]_Promise!vars
    BY <1>2
<1>. QED
    BY <1>1, <1>3, Strengthened, PTL DEF Spec, KeepsPromise, Promise!Spec
=============================================================================
