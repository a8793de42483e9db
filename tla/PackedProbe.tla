---------------------------- MODULE PackedProbe ----------------------------
(***************************************************************************)
(* The answer probes of one R2OPL rollout, from the metadata the agent     *)
(* loop attaches to the signal of every response token.  The actor packs   *)
(* copies of the probe behind the rollout and scores them in the forward   *)
(* pass that also gives the log-probabilities of the loss.  A token of the *)
(* rollout or of the probe is known by its place; the hidden state of a    *)
(* token is everything the layers of the model have let flow into it, so   *)
(* that two forward passes agree exactly when their hidden states do.      *)
(***************************************************************************)
EXTENDS Integers, Sequences, SequencesExt, FiniteSetsExt

CONSTANTS
    MaxPrompt, MaxResponse,     \* bounds on the tokens of a rollout
    PrefixChars, AnswerChars, SuffixChars,  \* characters of the probe's text
    TokenCap,       \* max_token_len_per_gpu of the actor
    MaxPositions,   \* max_position_embeddings of the model
    Layers          \* layers of the model

ASSUME PackedProbeAssumption ==
    {MaxPrompt, MaxResponse, PrefixChars, AnswerChars, SuffixChars,
     TokenCap, MaxPositions, Layers} \subseteq Nat \ {0}

VARIABLES
    rollout,    \* tokens of prompt and response, ends of its steps, its probe's
                \* token ends in characters, whether it has an answer and is correct
    stage,      \* "generated", "attached", "packed", "scored", "weighted" or "raised"
    meta,       \* the metadata: tokens of the probe, scored ones, ends of the steps
    layout,     \* the packed sequence
    scores,     \* per branch what its score is computed from
    logProbs,   \* per response token what its log-probability is computed from
    signal      \* per response token its advantage: kind and gate

probeVars == <<rollout, stage, meta, layout, scores, logProbs, signal>>

Chars == PrefixChars + AnswerChars + SuffixChars

IncreasingUpTo(n) ==
    {s \in UNION {[1..k -> 1..n] : k \in 0..n} : \A i, j \in DOMAIN s : i < j => s[i] < s[j]}

\* Sequences of a probe's token ends; the first token is in the prefix.
Tokenizations ==
    {s \in IncreasingUpTo(Chars) : s # <<>> /\ s[1] <= PrefixChars /\ s[Len(s)] = Chars}

Rollouts ==
    {r \in [prompt : 1..MaxPrompt, response : 1..MaxResponse, ends : IncreasingUpTo(MaxResponse),
            probe : Tokenizations, answer : BOOLEAN, correct : BOOLEAN] :
        \A i \in DOMAIN r.ends : r.ends[i] <= r.response}

Before(ends, i) == IF i = 1 THEN 0 ELSE ends[i - 1]

-----------------------------------------------------------------------------
\* build_answer_probe scores the tokens that overlap the answer.
AnswerTokens(probe) ==
    {j \in DOMAIN probe : probe[j] > PrefixChars /\ Before(probe, j) < PrefixChars + AnswerChars}

\* build_r2opl_probe_metadata; without a step to probe there is no probe.
Attach ==
    /\ stage = "generated"
    /\ IF Len(rollout.ends) < 2
       THEN /\ meta' = [tokens |-> 0, answers |-> {}, ends |-> rollout.ends]
            /\ stage' = "attached"
       ELSE IF ~rollout.answer
       THEN stage' = "raised" /\ UNCHANGED meta
       ELSE /\ meta' = [tokens |-> Len(rollout.probe), answers |-> AnswerTokens(rollout.probe),
                        ends |-> rollout.ends]
            /\ stage' = "attached"
    /\ UNCHANGED <<rollout, layout, scores, logProbs, signal>>

-----------------------------------------------------------------------------
\* A layout is the rollout's length, the probe's, and per branch the tokens of the
\* rollout it follows: the prompt, then each step but the last.
Layout(prompt, response, m) ==
    [rollout |-> prompt + response,
     probe |-> m.tokens,
     prefixes |-> IF Len(m.ends) < 2 THEN <<>>
                  ELSE [b \in DOMAIN m.ends |-> prompt + Before(m.ends, b)]]

LengthOf(l) == l.rollout + Len(l.prefixes) * l.probe

\* Where branch b starts, the branch of token p, and p's place in its probe.
StartOf(l, b) == l.rollout + (b - 1) * l.probe
BranchOf(l, p) == (p - l.rollout - 1) \div l.probe + 1
PlaceOf(l, p) == p - StartOf(l, BranchOf(l, p))

TokenAt(l, p) == IF p <= l.rollout THEN <<"rollout", p>> ELSE <<"probe", PlaceOf(l, p)>>

\* Mutant: positions go on behind the rollout.
PhysicalPosition(l, p) == p

\* A probe has the positions it would have right after its prefix.
PositionAt(l, p) == IF p <= l.rollout THEN p ELSE l.prefixes[BranchOf(l, p)] + PlaceOf(l, p)

\* Mutant: causal order alone.
CausalOnly(l, q) == 1..q

\* build_dense_attention_mask: the tokens that token q attends to.
VisibleTo(l, q) ==
    IF q <= l.rollout THEN 1..q
    ELSE (1..l.prefixes[BranchOf(l, q)]) \union ((StartOf(l, BranchOf(l, q)) + 1)..q)

\* _prepare_r2opl_probe_model_inputs, with its checks before the mask is built.
Pack ==
    /\ stage = "attached"
    /\ LET l == Layout(rollout.prompt, rollout.response, meta)
           context == Max({PositionAt(l, p) : p \in 1..LengthOf(l)})
       IN IF LengthOf(l) > TokenCap \/ context > MaxPositions
          THEN stage' = "raised" /\ UNCHANGED layout
          ELSE stage' = "packed" /\ layout' = l
    /\ UNCHANGED <<rollout, meta, scores, logProbs, signal>>

-----------------------------------------------------------------------------
\* A layer of the model: a token keeps its state and gathers the states visible to
\* it.  Attention weighs them in no order but that of the positions in them.
Layer(states, visible) ==
    [p \in DOMAIN states |-> <<states[p], {states[k] : k \in visible[p]}>>]

\* The model: a token starts as its input, itself at its position, and goes through
\* the layers.
Hidden(inputs, visible) ==
    LET h[n \in 0..Layers] == IF n = 0 THEN inputs ELSE Layer(h[n - 1], visible)
    IN h[Layers]

\* What the probability of the token at p is computed from: the state before it.
Predicted(h, token, p) == <<h[p - 1], token>>

\* The packed forward pass: compute_r2opl_probe_probabilities for the branches,
\* then the log-probabilities of the rollout, cut to the response.
Score ==
    /\ stage = "packed"
    /\ LET h == Hidden([p \in 1..LengthOf(layout) |-> <<TokenAt(layout, p), PositionAt(layout, p)>>],
                       [p \in 1..LengthOf(layout) |-> VisibleTo(layout, p)])
       IN /\ scores' = [b \in DOMAIN layout.prefixes |->
                {Predicted(h, TokenAt(layout, StartOf(layout, b) + j), StartOf(layout, b) + j) : j \in meta.answers}]
          /\ logProbs' = [i \in 1..rollout.response |->
                Predicted(h, <<"rollout", rollout.prompt + i>>, rollout.prompt + i)]
    /\ stage' = "scored"
    /\ UNCHANGED <<rollout, meta, layout, signal>>

-----------------------------------------------------------------------------
\* Mutant: a step is weighed by the difference across the next one.
NextStepsGate(i) ==
    LET owner == {k \in 1..(Len(meta.ends) - 1) : Before(meta.ends, k) < i /\ i <= meta.ends[k]}
    IN IF owner = {} THEN <<>>
       ELSE LET k == Max(owner) IN <<scores[Min({k + 2, Len(scores)})], scores[k + 1]>>

\* The pair of scores whose difference weighs token i, none if its weight is one:
\* steps but the last are weighed by the branches after and before them.
GateOf(i) ==
    LET owner == {k \in 1..(Len(meta.ends) - 1) : Before(meta.ends, k) < i /\ i <= meta.ends[k]}
    IN IF owner = {} THEN <<>>
       ELSE LET k == Max(owner) IN <<scores[k + 1], scores[k]>>

\* compute_r2opl_sampled_token_loss: the reward for correct rollouts, the teacher
\* for others, each with its gate.
Weigh ==
    /\ stage = "scored"
    /\ signal' = [i \in 1..rollout.response |->
                    [kind |-> IF rollout.correct THEN "reward" ELSE "teacher", gate |-> GateOf(i)]]
    /\ stage' = "weighted"
    /\ UNCHANGED <<rollout, meta, layout, scores, logProbs>>

ProbeInit ==
    /\ rollout \in Rollouts
    /\ stage = "generated"
    /\ meta = [tokens |-> 0, answers |-> {}, ends |-> <<>>]
    /\ layout = [rollout |-> 0, probe |-> 0, prefixes |-> <<>>]
    /\ scores = <<>> /\ logProbs = <<>> /\ signal = <<>>

ProbeNext == Attach \/ Pack \/ Score \/ Weigh

ProbeSpec == ProbeInit /\ [][ProbeNext]_probeVars

-----------------------------------------------------------------------------
\* Properties.

Steps == Len(rollout.ends)

\* An ordinary causal forward pass over the rollout's first tokens and a probe.
Alone(prefix, probe) ==
    Hidden([p \in 1..(prefix + probe) |->
                <<IF p <= prefix THEN <<"rollout", p>> ELSE <<"probe", p - prefix>>, p>>],
           [p \in 1..(prefix + probe) |-> 1..p])

\* The score of a probe in a pass of its own: the tokens with a character of the answer.
AloneScore(prefix) ==
    LET h == Alone(prefix, Len(rollout.probe))
        scored == {j \in DOMAIN rollout.probe :
                    \E c \in (PrefixChars + 1)..(PrefixChars + AnswerChars) :
                        Before(rollout.probe, j) < c /\ c <= rollout.probe[j]}
    IN {<<h[prefix + j - 1], <<"probe", j>>>> : j \in scored}

IsolatedIn(l) ==
    \A q \in 1..LengthOf(l) : \A k \in VisibleTo(l, q) :
        /\ VisibleTo(l, k) \subseteq VisibleTo(l, q)
        /\ k > l.rollout => q > l.rollout /\ BranchOf(l, k) = BranchOf(l, q)
        /\ q > l.rollout /\ k <= l.rollout => k <= l.prefixes[BranchOf(l, q)]

\* However many layers there are, nothing reaches a token of a branch but the branch
\* itself and the rollout up to its prefix, and nothing of a branch reaches the
\* rollout: what a token attends to attends to nothing else (build_dense_attention_mask).
BranchesAreIsolated == stage \in {"packed", "scored", "weighted"} => IsolatedIn(layout)

\* No branch is reached by a later step of the response or by another branch, at any
\* layer, and positions do not shift: each score is the one that prompt, prefix and
\* probe give in a forward pass of their own (build_dense_attention_mask).
ProbeIsSeparateForward ==
    stage = "scored" => \A b \in DOMAIN scores :
        scores[b] = AloneScore(rollout.prompt + Before(rollout.ends, b))

\* The probes leave the log-probabilities of the loss as they are without them, and
\* each response token gets its own (_prepare_r2opl_probe_model_outputs).
RolloutIsUndisturbed ==
    stage = "scored" =>
        LET n == rollout.prompt + rollout.response
            h == Alone(n, 0)
        IN logProbs = [i \in 1..rollout.response |->
                        <<h[rollout.prompt + i - 1], <<"rollout", rollout.prompt + i>>>>]

\* Packing changes no number: neither those of the probes nor those of the rollout.
PackingIsTransparent == ProbeIsSeparateForward /\ RolloutIsUndisturbed

\* A token is weighed by what its own step did to the probability of the answer: from
\* the end of the step before to the end of its own.  Tokens of the last step and
\* behind it keep the standard signal (compute_r2opl_token_modulation).
GatesCompareOwnStep ==
    stage = "weighted" => \A i \in 1..rollout.response :
        LET later == {e \in Range(rollout.ends) : e >= i}
            earlier == {0} \union {e \in Range(rollout.ends) : e < i}
        IN signal[i].gate =
            IF Cardinality(later) <= 1 THEN <<>>
            ELSE <<AloneScore(rollout.prompt + Min(later)), AloneScore(rollout.prompt + Max(earlier))>>

\* A rollout without a step to probe is optimized with or without an answer as long as
\* it fits itself (build_r2opl_probe_metadata: "does not require an answer").
RaisesOnlyForProbes ==
    stage = "raised" =>
        Steps >= 2 \/ rollout.prompt + rollout.response > Min({TokenCap, MaxPositions})
=============================================================================
