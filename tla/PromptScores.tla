---------------------------- MODULE PromptScores ----------------------------
(***************************************************************************)
(* Prompt log-probabilities of the vLLM worker: the replacement of         *)
(* _get_prompt_logprobs_dict that projects a scheduled prompt into the     *)
(* vocabulary in chunks, across prefill steps, preemptions and requests    *)
(* that share a step.                                                      *)
(*                                                                         *)
(* The scheduler is vLLM's: a step runs some requests, each for a part of  *)
(* its prompt or, past the prompt, for one token, and samples a token for  *)
(* a request whose prompt is through.  A request preempted during prefill  *)
(* starts again at its first token.  A score is the pair of the hidden     *)
(* state it was projected from and the token it was gathered for, both by  *)
(* their place in the prompt; rows of hidden_states are found through      *)
(* query_start_loc, which is vLLM's.  Copies to the CPU are non_blocking   *)
(* and land later.                                                         *)
(***************************************************************************)
EXTENDS Integers, FiniteSets

CONSTANTS
    Requests,
    Embedded,       \* requests without prompt_token_ids
    PromptLen,      \* their lengths, in tokens
    ChunkSize,      \* _verl_prompt_logprobs_chunk_size
    Budget,         \* tokens of a request in one step
    MaxTokens,      \* bound: tokens generated for a request
    MaxPreempted    \* bound: preemptions

ASSUME RequestsAssumption ==
    Embedded \subseteq Requests /\ PromptLen \in [Requests -> Nat \ {0}]
ASSUME ChunkAssumption ==
    /\ ChunkSize \in Nat \ {0} /\ Budget \in Nat \ {0}
    /\ MaxTokens \in Nat \ {0} /\ MaxPreempted \in Nat

VARIABLES
    asked,          \* the requests in num_prompt_logprobs
    computed,       \* num_computed_tokens
    partial,        \* in_progress_prompt_logprobs_cpu
    landing,        \* copies into partial that have not landed
    out,            \* the scores handed to the caller
    generated,      \* tokens sampled so far
    widest,         \* history: rows of the largest projection
    preempted

scoresVars == <<asked, computed, partial, landing, out, generated, widest, preempted>>

Cells(r) == 0..(PromptLen[r] - 2)
Nothing == [state |-> -1, target |-> -1]        \* an element empty_cpu left as it was
Score(i) == [state |-> i, target |-> i + 1]     \* what belongs at cell i
Unscored(r) == [i \in Cells(r) |-> Nothing]

ScoresInit ==
    /\ asked = Requests
    /\ computed = [r \in Requests |-> 0]
    /\ partial = [r \in Requests |-> Unscored(r)]
    /\ landing = [r \in Requests |-> {}]
    /\ out = [r \in Requests |-> Unscored(r)]
    /\ generated = [r \in Requests |-> 0]
    /\ widest = 0
    /\ preempted = 0

-----------------------------------------------------------------------------
(* One request in one step.                                                *)

Remaining(r) == PromptLen[r] - (computed[r] + 1)

NumLogits(r, num) == IF num < Remaining(r) THEN num ELSE Remaining(r)

\* Mutant: scores are complete as soon as every one of them is computed.
CompletesEarly(r, num) == num >= Remaining(r)

Completes(r, num) == num > Remaining(r)

\* for begin in range(0, num_logits, chunk_size)
Begins(c) == {b \in 0..(c - 1) : b % ChunkSize = 0}

End(b, c) == IF b + ChunkSize < c THEN b + ChunkSize ELSE c

Rows(c) == UNION {b..(End(b, c) - 1) : b \in Begins(c)}

\* The copies a step issues: row j of the request, for the token after it.
Scores(r, num) ==
    {[cell |-> computed[r] + j,
      score |-> [state |-> computed[r] + j, target |-> computed[r] + 1 + j]] :
        j \in Rows(NumLogits(r, num))}

-----------------------------------------------------------------------------
(* Steps.                                                                  *)

\* What the scheduler may run a request for.
MayRun(r, num) ==
    IF computed[r] < PromptLen[r] THEN num <= PromptLen[r] - computed[r] ELSE num = 1

Scored(sched) == {r \in DOMAIN sched : r \in asked /\ r \notin Embedded}
Completed(sched) == {r \in Scored(sched) : Completes(r, sched[r])}

\* A result with the copies of it that are under way.
Landed(result, copies) ==
    [i \in DOMAIN result |->
        IF \E c \in copies : c.cell = i THEN (CHOOSE c \in copies : c.cell = i).score
                                        ELSE result[i]]

Widths(sched) ==
    UNION {{End(b, NumLogits(r, sched[r])) - b : b \in Begins(NumLogits(r, sched[r]))} :
              r \in Scored(sched)}

\* Mutant: the device is not synchronized before scores are returned.
NoSync(sched) == FALSE

\* if completed: self._sync_device()
Sync(sched) == Completed(sched) # {}

Step(sched) ==
    LET copies(r) == landing[r] \cup IF r \in Scored(sched) THEN Scores(r, sched[r]) ELSE {}
        result(r) == IF Sync(sched) THEN Landed(partial[r], copies(r)) ELSE partial[r]
    IN  /\ \A r \in DOMAIN sched : MayRun(r, sched[r]) /\ generated[r] < MaxTokens
        /\ asked' = asked \ Completed(sched)
        /\ out' = [r \in Requests |-> IF r \in Completed(sched) THEN result(r) ELSE out[r]]
        /\ partial' = [r \in Requests |->
                        IF r \in Completed(sched) THEN Unscored(r) ELSE result(r)]
        /\ landing' = [r \in Requests |->
                        IF Sync(sched) \/ r \in Completed(sched) THEN {} ELSE copies(r)]
        /\ widest' = CHOOSE x \in Widths(sched) \cup {widest} :
                        \A y \in Widths(sched) \cup {widest} : y <= x
        /\ computed' = [r \in Requests |->
                        IF r \in DOMAIN sched THEN computed[r] + sched[r] ELSE computed[r]]
        /\ generated' = [r \in Requests |->
                        IF r \in DOMAIN sched /\ computed[r] + sched[r] >= PromptLen[r]
                          THEN generated[r] + 1 ELSE generated[r]]
        /\ UNCHANGED preempted

Land(r, c) ==
    /\ landing' = [landing EXCEPT ![r] = @ \ {c}]
    /\ partial' = [partial EXCEPT ![r] = Landed(@, {c})]
    /\ UNCHANGED <<asked, computed, out, generated, widest, preempted>>

\* The scheduler takes a request back during prefill; its result stays where it is.
Preempt(r) ==
    /\ preempted < MaxPreempted
    /\ 0 < computed[r] /\ computed[r] < PromptLen[r]
    /\ computed' = [computed EXCEPT ![r] = 0]
    /\ preempted' = preempted + 1
    /\ UNCHANGED <<asked, partial, landing, out, generated, widest>>

Schedules == UNION {[S -> 1..Budget] : S \in (SUBSET Requests) \ {{}}}

ScoresNext ==
    \/ \E sched \in Schedules : Step(sched)
    \/ \E r \in Requests : Preempt(r) \/ \E c \in landing[r] : Land(r, c)

ScoresSpec == ScoresInit /\ [][ScoresNext]_scoresVars

-----------------------------------------------------------------------------
(* Properties.                                                             *)

Answered(r) == r \notin Embedded /\ r \notin asked

\* Scores that are returned are complete: each prompt token after the first
\* has its own score, from the state before it, however the prompt was cut
\* into steps and chunks and whatever was preempted on the way.
ReturnedScoresAreComplete ==
    \A r \in Requests : Answered(r) => \A i \in Cells(r) : out[r][i] = Score(i)

\* A request has its scores exactly from the step on in which its first token
\* is generated, which is when vLLM has something to return to the caller.
ReturnedWithFirstToken ==
    \A r \in Requests \ Embedded : Answered(r) <=> generated[r] > 0

\* No projection is wider than a chunk, whatever a step prefills.
ProjectionIsBounded == widest <= ChunkSize
=============================================================================
