-------------------------------- MODULE Ersr --------------------------------
(***************************************************************************)
(* Expected reasoning-step return: selection of steps from rollouts, the   *)
(* teacher's replacements and the student's continuations, as the          *)
(* standalone evaluator batches them over a GPU pool for several           *)
(* checkpoints at once and as the trainer runs them case by case on its    *)
(* agent loop workers.                                                     *)
(*                                                                         *)
(* Tokens are left out.  A response prefix is the rollout it is cut from,  *)
(* how much of it is kept and what the teacher added; a completion is the  *)
(* request it answers and its length, since seeded generation is a         *)
(* function of the request; a sample is a prefix with its continuation,    *)
(* and a value is the average of the rewards that one verifier gives to    *)
(* samples.  What a verifier makes of a sample is left open, so the values *)
(* of two verifiers are never taken to be the same.  That pool.run returns *)
(* every job's result in order is what GpuPool shows.                      *)
(***************************************************************************)
EXTENDS Integers, Sequences, SequencesExt, FiniteSets, FiniteSetsExt

CONSTANTS
    NWorks,         \* models that share the teacher phase
    Inputs,         \* per model, its questions with their rollouts
    N,              \* rollouts per question
    Series,         \* configured (dataset, action) pairs, in order
    StepCap,        \* max_steps_per_dataset
    McK,            \* mc_k
    MaxResponse,    \* max_response_tokens
    MaxTeacher,     \* max_teacher_step_tokens
    PerBatch,       \* rollouts_per_gpu_batch
    NGpus,
    NAgents,        \* agent loop workers of the trainer
    SciBench        \* the names of data sets that are "scibench" but for case and blanks

RolloutType == [correct : BOOLEAN, splits : BOOLEAN, ends : Seq(1..MaxResponse)]
QuestionType == [dataset : STRING, rollouts : Seq(RolloutType)]

\* Datasets are not named twice, and the splitter makes no empty step.
ASSUME ErsrAssumption ==
    /\ {NWorks, N, StepCap, McK, MaxResponse, MaxTeacher, PerBatch, NGpus, NAgents} \subseteq Nat \ {0}
    /\ PerBatch % N = 0 /\ SciBench \subseteq STRING
    /\ Series = [i \in 1..Len(Series) |-> Series[i]] /\ Len(Series) \in Nat /\ IsInjective(Series)
    /\ Inputs \subseteq [1..NWorks -> Seq(QuestionType) \ {<<>>}]
    /\ \A in \in Inputs : \A w \in 1..NWorks : \A q \in DOMAIN in[w] :
        /\ Len(in[w][q].rollouts) = N
        /\ \A k \in 1..N : \A i \in 2..Len(in[w][q].rollouts[k].ends) :
              in[w][q].rollouts[k].ends[i - 1] < in[w][q].rollouts[k].ends[i]

VARIABLES
    mode,           \* "standalone" or "training"
    input,
    phase,
    work,           \* the model at hand
    records,        \* validation records per model
    seen,           \* candidates of it the reservoir has seen
    reservoir,
    cases,          \* selected cases per model
    proposals,      \* what the teacher answers to a request, once asked
    replacements,
    invalid,
    results,
    jobs,           \* history: rollouts of each job of the last pool run
    trained         \* results per agent loop worker

ersrVars == <<mode, input, phase, work, records, seen, reservoir, cases, proposals,
          replacements, invalid, results, jobs, trained>>

Works == 1..NWorks
Keys == Range(Series)
Nothing == <<>>

-----------------------------------------------------------------------------
(* Batches of a pool run.                                                  *)

Ceil(a, d) == (a + d - 1) \div d

Batches(s, size) ==
    [i \in 1..Ceil(Len(s), size) |-> SubSeq(s, (i - 1) * size + 1, Min({i * size, Len(s)}))]

QuestionsPerBatch(count) == Min({PerBatch \div N, Max({1, Ceil(count, NGpus)})})

RequestsPerBatch(count) == Min({PerBatch, Ceil(count, NGpus)})

\* A completion: seeded generation is a function of these fields.
Completion(request) == [ids |-> request.ids, max |-> request.max, seed |-> request.seed]

\* run_generation_phase: outputs by request_id, the last one where two are equal.
GenerationPhase(requests) ==
    IF requests = <<>> THEN Nothing
    ELSE LET batches == Batches(requests, RequestsPerBatch(Len(requests)))
             flat == FlattenSeq([b \in DOMAIN batches |->
                        [i \in DOMAIN batches[b] |-> Completion(batches[b][i])]])
             latest(id) == Max({k \in DOMAIN requests : requests[k].id = id})
         IN  [id \in {requests[k].id : k \in DOMAIN requests} |-> flat[latest(id)]]

JobSizes(requests) ==
    IF requests = <<>> THEN <<>>
    ELSE LET batches == Batches(requests, RequestsPerBatch(Len(requests)))
         IN  [b \in DOMAIN batches |-> Len(batches[b])]

-----------------------------------------------------------------------------
(* Validation records and the selection of steps.                          *)

Record(w, q, k) ==
    LET task == input[w][q]
    IN  [rollout |-> <<w, q, k>>, dataset |-> task.dataset,
         correct |-> task.rollouts[k].correct, splits |-> task.rollouts[k].splits,
         ends |-> task.rollouts[k].ends]

RecordsOf(w, questions) ==
    FlattenSeq([i \in DOMAIN questions |-> [k \in 1..N |-> Record(w, questions[i], k)]])

Start(ends, i) == IF i = 1 THEN 0 ELSE ends[i - 1]

Key(rec) == <<rec.dataset, IF rec.correct THEN "student_action" ELSE "teacher_replace">>

\* steps[:-1]; a case has its seed when it is selected.
Candidate(r, rec, i) ==
    [record |-> r, rollout |-> rec.rollout, step |-> i, key |-> Key(rec),
     start |-> Start(rec.ends, i), end |-> rec.ends[i], seed |-> 0]

CandidatesOf(recs, r) ==
    IF recs[r].splits /\ Key(recs[r]) \in Keys
    THEN [i \in 1..(Len(recs[r].ends) - 1) |-> Candidate(r, recs[r], i)] ELSE <<>>

Candidates(recs) == FlattenSeq([r \in DOMAIN recs |-> CandidatesOf(recs, r)])

CaseId(c) == <<c.key, c.record, c.step>>

\* The rows of a series as random.shuffle leaves them.
Shuffled(rows, p) == [i \in DOMAIN rows |-> rows[p[i]]]

Numbered(rows) == [i \in DOMAIN rows |-> [rows[i] EXCEPT !.seed = (i - 1) * 10000]]

Selected(perm) ==
    Numbered(FlattenSeq([s \in DOMAIN Series |-> Shuffled(reservoir[Series[s]], perm[s])]))

-----------------------------------------------------------------------------
(* Requests.                                                               *)

Prefix(c, kept, added) == [rollout |-> c.rollout, kept |-> kept, added |-> added]
Before(c) == Prefix(c, c.start, Nothing)
Length(prefix) == prefix.kept + IF prefix.added = Nothing THEN 0 ELSE prefix.added.length

TeacherBudget(c) == Min({MaxTeacher, MaxResponse - c.start})

\* Mutant: a request of the teacher is named by its case alone.
TeacherIdOfCase(w, c) == CaseId(c)

TeacherId(w, c) == <<w, CaseId(c)>>

TeacherRequest(w, c) ==
    [ids |-> Before(c), max |-> TeacherBudget(c), seed |-> c.seed + 5000, id |-> TeacherId(w, c)]

\* The elements of a sequence that are in S, as a loop that skips the others meets them.
Only(s, S) == FlattenSeq([i \in DOMAIN s |-> IF s[i] \in S THEN <<s[i]>> ELSE <<>>])

TeacherCases(w) == Only(cases[w], {c \in Range(cases[w]) : c.key[2] = "teacher_replace"})

Funded(w) == Only(TeacherCases(w), {c \in Range(TeacherCases(w)) : TeacherBudget(c) > 0})

TeacherRequests ==
    FlattenSeq([w \in Works |-> [i \in DOMAIN Funded(w) |-> TeacherRequest(w, Funded(w)[i])]])

ArmRequests(c, prefix, offset) ==
    IF MaxResponse - Length(prefix) <= 0 THEN <<>>
    ELSE [j \in 1..McK |-> [ids |-> prefix, max |-> MaxResponse - Length(prefix),
                            seed |-> c.seed + offset + j - 1, id |-> <<CaseId(c), offset, j>>]]

ActionPrefix(c, replacement) ==
    IF c.key[2] = "student_action" THEN Prefix(c, c.end, Nothing)
                                   ELSE Prefix(c, c.start, replacement)

-----------------------------------------------------------------------------
(* Values.                                                                 *)

Sample(prefix, continuation) == [prefix |-> prefix, continuation |-> continuation]

\* sum(rewards) / count: how often each sample is counted, of how many.
Average(samples) ==
    [total |-> Len(samples),
     times |-> [s \in Range(samples) |-> Cardinality({i \in DOMAIN samples : samples[i] = s})]]

SameAverage(a, d) ==
    /\ DOMAIN a.times = DOMAIN d.times
    /\ \A s \in DOMAIN a.times : a.times[s] * d.total = d.times[s] * a.total

\* verify_dataset_response_answer: only SciBench has a verifier of its own.
VerifierOf(dataset) ==
    IF dataset \in SciBench THEN "verify_scibench_response_answer" ELSE "verify_response_answer"

\* A value: the verifier and the samples it grades.
Graded(verifier, samples) == [verifier |-> verifier, rewards |-> Average(samples)]

Skip(c, reason) == [id |-> CaseId(c), reason |-> reason]
Valid(c, baseline, action) == [id |-> CaseId(c), reason |-> "", baseline |-> baseline, action |-> action]

\* first_replacement_step_ids of what the teacher answers: -1 where the
\* splitter raises.
FirstStep(output, oracle) == [answers |-> output, length |-> oracle[output]]

Outcomes(request) == -1..request.max

\* _estimate_value, which names no data set to reward_for_continuation.
EstimateValue(c, prefix, offset) ==
    LET remaining == MaxResponse - Length(prefix)
    IN  Graded("verify_response_answer", [j \in 1..McK |->
            Sample(prefix, IF remaining <= 0 THEN Nothing
                           ELSE [ids |-> prefix, max |-> remaining, seed |-> c.seed + offset + j - 1])])

\* evaluate_ersr_case, given the teacher's answers.  "split_error" is the
\* exception of the splitter, which the trainer's worker catches with all others
\* and the evaluator records as teacher_split_error.
EvaluateCase(c, oracle) ==
    LET request == [ids |-> Before(c), max |-> TeacherBudget(c), seed |-> c.seed + 5000]
        step == FirstStep(Completion(request), oracle)
        values(prefix) == Valid(c, EstimateValue(c, Before(c), 0), EstimateValue(c, prefix, 1000))
    IN  CASE c.key[2] = "student_action" -> values(ActionPrefix(c, Nothing))
          [] c.key[2] = "teacher_replace" /\ request.max <= 0 -> Skip(c, "no_teacher_budget")
          [] c.key[2] = "teacher_replace" /\ request.max > 0 ->
                CASE step.length = -1 -> Skip(c, "split_error")
                  [] step.length = 0 -> Skip(c, "empty_teacher_replacement")
                  [] step.length > 0 -> values(ActionPrefix(c, step))

-----------------------------------------------------------------------------
(* The evaluator.                                                          *)

NoCases == [w \in Works |-> <<>>]
AllQuestions(w) == [q \in DOMAIN input[w] |-> q]

ErsrInit ==
    /\ mode \in {"standalone", "training"} /\ input \in Inputs
    /\ work = 1 /\ seen = 0 /\ reservoir = [k \in Keys |-> <<>>]
    /\ records = [w \in Works |-> IF mode = "training" /\ w = 1
                                    THEN RecordsOf(w, AllQuestions(w)) ELSE <<>>]
    /\ phase = IF mode = "training" THEN "select" ELSE "evaluate"
    /\ cases = NoCases /\ proposals = Nothing /\ results = NoCases
    /\ replacements = [w \in Works |-> Nothing] /\ invalid = NoCases
    /\ jobs = <<>> /\ trained = [a \in 1..NAgents |-> <<>>]

EvaluateModel ==
    LET batches == Batches(AllQuestions(work), QuestionsPerBatch(Len(input[work])))
    IN  /\ phase = "evaluate"
        /\ records' = [records EXCEPT ![work] =
                        FlattenSeq([b \in DOMAIN batches |-> RecordsOf(work, batches[b])])]
        /\ jobs' = [b \in DOMAIN batches |-> Len(batches[b]) * N]
        /\ phase' = "select"
        /\ UNCHANGED <<mode, input, work, seen, reservoir, cases, proposals, replacements,
                       invalid, results, trained>>

\* Mutant: a full reservoir takes the candidate in beside the others.
Admitted(rows, c, i) == IF i <= StepCap THEN Append(rows, c) ELSE rows

Replaced(rows, c, i) == IF i <= StepCap THEN [rows EXCEPT ![i] = c] ELSE rows

\* One candidate; a full reservoir draws rng.randrange(available_counts[key]).
Consider ==
    LET all == Candidates(records[work])
        c == all[seen + 1]
        available == Cardinality({i \in 1..(seen + 1) : all[i].key = c.key})
        rows == reservoir[c.key]
    IN  /\ phase = "select" /\ seen < Len(all)
        /\ \/ /\ Len(rows) < StepCap
              /\ reservoir' = [reservoir EXCEPT ![c.key] = Append(rows, c)]
           \/ /\ Len(rows) >= StepCap
              /\ \E i \in 1..available :
                    reservoir' = [reservoir EXCEPT ![c.key] = Replaced(rows, c, i)]
        /\ seen' = seen + 1
        /\ UNCHANGED <<mode, input, phase, work, records, cases, proposals, replacements,
                       invalid, results, jobs, trained>>

Select ==
    /\ phase = "select" /\ seen = Len(Candidates(records[work]))
    /\ \E perm \in [DOMAIN Series -> UNION {Bijection(DOMAIN reservoir[k], DOMAIN reservoir[k]) : k \in Keys}] :
        /\ \A s \in DOMAIN Series : DOMAIN perm[s] = DOMAIN reservoir[Series[s]]
        /\ cases' = [cases EXCEPT ![work] = Selected(perm)]
    /\ seen' = 0 /\ reservoir' = [k \in Keys |-> <<>>]
    /\ IF mode = "training" THEN phase' = "training" /\ UNCHANGED work
       ELSE IF work < NWorks THEN phase' = "evaluate" /\ work' = work + 1
       ELSE phase' = "teacher" /\ work' = 1
    /\ UNCHANGED <<mode, input, records, proposals, replacements, invalid, results, jobs, trained>>

\* Why a case gets no replacement, given the outputs and what the splitter makes of them.
Reason(w, c, output, oracle) ==
    IF TeacherBudget(c) <= 0 THEN "no_teacher_budget"
    ELSE IF oracle[output[TeacherId(w, c)]] = -1 THEN "split_error"
    ELSE IF oracle[output[TeacherId(w, c)]] = 0 THEN "empty_teacher_replacement" ELSE ""

\* generate_ersr_replacements for all works; the order within invalid is left out.
Teacher ==
    LET requests == TeacherRequests
        output == GenerationPhase(requests)
        asked == {Completion(requests[k]) : k \in DOMAIN requests}
    IN  /\ phase = "teacher"
        /\ \E oracle \in [asked -> -1..MaxTeacher] :
            /\ \A r \in asked : oracle[r] \in Outcomes(r)
            /\ proposals' = oracle
            /\ invalid' = [w \in Works |->
                LET skipped == Only(TeacherCases(w),
                                 {c \in Range(TeacherCases(w)) : Reason(w, c, output, oracle) # ""})
                IN  [i \in DOMAIN skipped |-> Skip(skipped[i], Reason(w, skipped[i], output, oracle))]]
            /\ replacements' = [w \in Works |->
                LET kept == {c \in Range(TeacherCases(w)) : Reason(w, c, output, oracle) = ""}
                IN  [id \in {CaseId(c) : c \in kept} |->
                        LET c == CHOOSE x \in kept : CaseId(x) = id
                        IN  FirstStep(output[TeacherId(w, c)], oracle)]]
        /\ jobs' = JobSizes(requests)
        /\ phase' = "student"
        /\ UNCHANGED <<mode, input, work, records, seen, reservoir, cases, results, trained>>

\* The cases that are not invalid, and the action arm of one.
StudentCases(w) ==
    Only(cases[w], {c \in Range(cases[w]) : \A i \in DOMAIN invalid[w] : invalid[w][i].id # CaseId(c)})

ActionOf(w, c) ==
    ActionPrefix(c, IF c.key[2] = "student_action" THEN Nothing ELSE replacements[w][CaseId(c)])

BaselineRequests(c) == ArmRequests(c, Before(c), 0)
ActionRequests(w, c) == ArmRequests(c, ActionOf(w, c), 1000)

StudentRequests(w) ==
    FlattenSeq([i \in DOMAIN StudentCases(w) |->
        BaselineRequests(StudentCases(w)[i]) \o ActionRequests(w, StudentCases(w)[i])])

\* Mutant: a case the teacher left out is dropped from the report.
ReportedValid(w, values) == values

Reported(w, values) == invalid[w] \o values

\* The value of an arm, graded for the case's data set: the fixed prefix alone is
\* the sample where nothing was asked.
ArmValue(c, prefix, requests, output) ==
    Graded(VerifierOf(c.key[1]),
           IF requests = <<>> THEN <<Sample(prefix, Nothing)>>
           ELSE [j \in DOMAIN requests |-> Sample(prefix, output[requests[j].id])])

\* evaluate_ersr_student for one work
Student ==
    LET w == work
        kept == StudentCases(w)
        requests == StudentRequests(w)
        output == GenerationPhase(requests)
    IN  /\ phase = "student"
        /\ results' = [results EXCEPT ![w] = Reported(w, [i \in DOMAIN kept |->
                Valid(kept[i], ArmValue(kept[i], Before(kept[i]), BaselineRequests(kept[i]), output),
                               ArmValue(kept[i], ActionOf(w, kept[i]), ActionRequests(w, kept[i]), output))])]
        /\ jobs' = JobSizes(requests)
        /\ work' = IF w < NWorks THEN w + 1 ELSE w
        /\ phase' = IF w < NWorks THEN "student" ELSE "done"
        /\ UNCHANGED <<mode, input, records, seen, reservoir, cases, proposals, replacements,
                       invalid, trained>>

\* A pool run raises: CheckpointEval shows what becomes of that.
PhaseFails ==
    /\ phase \in {"evaluate", "teacher", "student"} /\ phase' = "raised"
    /\ UNCHANGED <<mode, input, work, records, seen, reservoir, cases, proposals, replacements,
                   invalid, results, jobs, trained>>

-----------------------------------------------------------------------------
(* The trainer.                                                            *)

\* assignments[index % len(assignments)]
Assigned(a) ==
    LET mine == {i \in DOMAIN cases[1] : (i - 1) % NAgents = a - 1}
    IN  [k \in 1..Cardinality(mine) |-> cases[1][(k - 1) * NAgents + a]]

\* What the teacher has answered, with one more answer.
Answered(output, length) ==
    [o \in DOMAIN proposals \cup {output} |-> IF o = output THEN length ELSE proposals[o]]

\* Worker a evaluates its next case, or catches what it raises.
TrainCase(a) ==
    LET next == Len(trained[a]) + 1
        c == Assigned(a)[next]
        request == [ids |-> Before(c), max |-> TeacherBudget(c), seed |-> c.seed + 5000]
    IN  /\ phase = "training" /\ next <= Len(Assigned(a))
        /\ \/ /\ c.key[2] = "student_action"
              /\ trained' = [trained EXCEPT ![a] = Append(@, EvaluateCase(c, proposals))]
              /\ UNCHANGED proposals
           \/ /\ c.key[2] = "teacher_replace"
              /\ \E length \in Outcomes(request) \ {-1} :
                /\ proposals' = Answered(Completion(request), length)
                /\ trained' = [trained EXCEPT ![a] = Append(@, EvaluateCase(c, proposals'))]
           \/ /\ trained' = [trained EXCEPT ![a] = Append(@, Skip(c, "evaluation_error"))]
              /\ UNCHANGED proposals
        /\ UNCHANGED <<mode, input, phase, work, records, seen, reservoir, cases, replacements,
                       invalid, results, jobs>>

Gather ==
    /\ phase = "training"
    /\ \A a \in 1..NAgents : Len(trained[a]) = Len(Assigned(a))
    /\ results' = [results EXCEPT ![1] = FlattenSeq(trained)]
    /\ phase' = "done"
    /\ UNCHANGED <<mode, input, work, records, seen, reservoir, cases, proposals, replacements,
                   invalid, jobs, trained>>

ErsrNext ==
    \/ EvaluateModel \/ Consider \/ Select \/ Teacher \/ Student \/ PhaseFails
    \/ \E a \in 1..NAgents : TrainCase(a)
    \/ Gather

ErsrSpec == ErsrInit /\ [][ErsrNext]_ersrVars

-----------------------------------------------------------------------------
(* Properties.                                                             *)

EvaluatedWorks == IF mode = "training" THEN {1} ELSE Works

\* A finished evaluation reports every selected case exactly once, whether
\* the teacher had budget for it, answered nothing, or a worker caught an
\* error, and whatever the numbers of cases and workers.
EachCaseIsReportedOnce ==
    phase = "done" => \A w \in EvaluatedWorks :
        /\ {results[w][i].id : i \in DOMAIN results[w]} = {CaseId(cases[w][i]) : i \in DOMAIN cases[w]}
        /\ Len(results[w]) = Len(cases[w])

SameRewards(a, d) == SameAverage(a.rewards, d.rewards)
SameValue(a, d) == a.verifier = d.verifier /\ SameRewards(a, d)

\* Batched over all checkpoints, a case is skipped for the reason, or valued by
\* the samples, that the trainer's evaluate_ersr_case gives it alone for the same
\* answers of teacher and student: the same replacement, seeds and budgets.  The
\* two values are the same for every data set but SciBench, which the evaluator
\* grades with its 5 % tolerance and the trainer does not.
StandaloneAgreesWithTraining ==
    mode = "standalone" /\ phase = "done" =>
        \A w \in Works : \A i \in DOMAIN results[w], k \in DOMAIN cases[w] :
            CaseId(cases[w][k]) = results[w][i].id =>
                LET own == results[w][i]
                    alone == EvaluateCase(cases[w][k], proposals)
                IN  /\ own.reason = alone.reason
                    /\ own.reason = "" =>
                        /\ SameRewards(own.baseline, alone.baseline)
                        /\ SameRewards(own.action, alone.action)
                        /\ cases[w][k].key[1] \notin SciBench =>
                              SameValue(own.baseline, alone.baseline) /\ SameValue(own.action, alone.action)

SelectedWorks ==
    IF phase \in {"evaluate", "select"} THEN 1..(work - 1) ELSE IF phase = "raised" THEN {} ELSE EvaluatedWorks

\* The steps of a series that a rollout does not end with.
Eligible(recs, key) ==
    UNION {{r} \X (1..(Len(recs[r].ends) - 1)) :
              r \in {q \in DOMAIN recs : recs[q].splits /\ Key(recs[q]) = key}}

\* Selection keeps distinct steps, at most max_steps_per_dataset of each series
\* and all of them when there are fewer, never the step a rollout ends with.
SelectionIsCapped ==
    \A w \in SelectedWorks :
        /\ \A i, k \in DOMAIN cases[w] : CaseId(cases[w][i]) = CaseId(cases[w][k]) => i = k
        /\ \A i \in DOMAIN cases[w] :
              <<cases[w][i].record, cases[w][i].step>> \in Eligible(records[w], cases[w][i].key)
        /\ \A key \in Keys :
              Cardinality({i \in DOMAIN cases[w] : cases[w][i].key = key}) =
                  Min({StepCap, Cardinality(Eligible(records[w], key))})

\* No job of a pool run is empty or larger than the worker accepts, and when
\* the batches are smaller than that no GPU gets a second one.
JobsFit ==
    /\ \A b \in DOMAIN jobs : 0 < jobs[b] /\ jobs[b] <= PerBatch
    /\ jobs # <<>> /\ jobs[1] < PerBatch => Len(jobs) <= NGpus

\* The limits of a run hold at once: cases per key and requests per job.
LimitsAreKept == SelectionIsCapped /\ JobsFit
=============================================================================
