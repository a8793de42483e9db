---------------------------- MODULE Actor_proofs ----------------------------
(***************************************************************************)
(* Proofs about the actor: about PackedProbe for rollouts, probes and caps *)
(* of any size, and about ActorUpdate for any number of ranks and rows.    *)
(*                                                                         *)
(* PackedProbe.  The layout is a function of the rollout and of metadata   *)
(* that is a function of the rollout (PipelineInv).  What a token of such  *)
(* a layout attends to is then a matter of arithmetic: the branch of a     *)
(* token is a quotient, and tokens between a branch's start and one of its *)
(* tokens have the same quotient (DivBetween).  Two forward passes agree   *)
(* on a token when the tokens it sees in one map one to one onto those it  *)
(* sees in the other, with the same inputs: layer by layer the states are  *)
(* then the same (SamePass).                                               *)
(*                                                                         *)
(* ActorUpdate.  Ranks that are not at the same point are in step all the  *)
(* same: what a rank comes to next (View) is the collective, the           *)
(* mini-batch, the branch and the micro-batch, whichever local steps it    *)
(* has still to take, and Control says that it is the same for all ranks   *)
(* that have not raised.  A local step leaves the view of its rank alone;  *)
(* a collective changes all of them alike.  What a rank brings to a        *)
(* collective is tied to its rows (RankOk), above all the number of        *)
(* micro-batches to the least number for which every rank keeps the limit  *)
(* (Settled).  Delivered adds what a rank has scored.                      *)
(*                                                                         *)
(* Gathered adds what a rank holds: of the gradients, which micro-batches  *)
(* of which ranks are in its local sum, in its reduced gradient, in its    *)
(* norm and in its weights, whether the reduction is done at every         *)
(* micro-batch or at the last.  Gradients are bags of tokens; that the     *)
(* parts of a mini-batch on the ranks make up the whole is a sum over      *)
(* ranks and micro-batches (RanksAddUp, BranchesMakeWhole).  Pooled adds   *)
(* the metrics: a report is the count and the length of one row, and what  *)
(* is published is the sum over the ranks' reports (ShareIs, TotalIs).     *)
(***************************************************************************)
EXTENDS Balancing_proofs, PackedProbe, ActorUpdate

Packed == {"packed", "scored", "weighted"}

MetaOf(r) ==
    IF Len(r.ends) < 2 THEN [tokens |-> 0, answers |-> {}, ends |-> r.ends]
    ELSE [tokens |-> Len(r.probe), answers |-> AnswerTokens(r.probe), ends |-> r.ends]

\* The metadata and the layout are those of the rollout.
PipelineInv ==
    /\ rollout \in Rollouts
    /\ stage \in {"generated", "attached", "raised"} \union Packed
    /\ stage \in {"attached"} \union Packed => meta = MetaOf(rollout)
    /\ stage \in Packed => layout = Layout(rollout.prompt, rollout.response, meta)

\* Layouts whose branches follow the rollout.
IsLayout(l) ==
    /\ l.rollout \in Nat /\ l.probe \in Nat /\ l.prefixes \in Seq(Nat)
    /\ l.prefixes # <<>> => l.probe > 0
    /\ \A b \in DOMAIN l.prefixes : l.prefixes[b] <= l.rollout

-----------------------------------------------------------------------------
\* Quotients.

LEMMA DivBetween ==
    ASSUME NEW P \in Nat \ {0}, NEW x \in Nat, NEW y \in Nat, x <= y, (y \div P) * P <= x
    PROVE  x \div P = y \div P
  <1> DEFINE d == y \div P
             e == x \div P
  <1>1. d \in Nat /\ e \in Nat
    OBVIOUS
  <1>2. d * P <= y /\ y < (d + 1) * P
    OBVIOUS
  <1>3. e * P <= x /\ x < (e + 1) * P
    OBVIOUS
  <1> HIDE DEF d, e
  <1>4. e * P < (d + 1) * P /\ d * P < (e + 1) * P
    BY <1>1, <1>2, <1>3
  <1>5. e < d + 1
    BY <1>1, <1>4
  <1>6. d < e + 1
    BY <1>1, <1>4
  <1> QED BY <1>1, <1>5, <1>6 DEF d, e

LEMMA DivBelow ==
    ASSUME NEW P \in Nat \ {0}, NEW n \in Nat, NEW x \in Nat, x < n * P
    PROVE  x \div P \in Nat /\ x \div P < n /\ (x \div P) * P <= x
  <1> DEFINE e == x \div P
  <1>1. e \in Nat /\ e * P <= x
    OBVIOUS
  <1> HIDE DEF e
  <1>2. e * P < n * P
    BY <1>1
  <1>3. e < n
    BY <1>1, <1>2
  <1> QED BY <1>1, <1>3 DEF e

-----------------------------------------------------------------------------
\* A token behind the rollout is in one of the branches, behind its start.
LEMMA BranchHolds ==
    ASSUME NEW l, IsLayout(l), NEW q \in 1..LengthOf(l), q > l.rollout
    PROVE  /\ l.probe \in Nat \ {0}
           /\ BranchOf(l, q) \in DOMAIN l.prefixes
           /\ StartOf(l, BranchOf(l, q)) \in Nat
           /\ l.rollout <= StartOf(l, BranchOf(l, q)) /\ StartOf(l, BranchOf(l, q)) < q
  <1> DEFINE n == Len(l.prefixes)
             x == q - l.rollout - 1
             d == x \div l.probe
  <1>1. n \in Nat /\ l.rollout \in Nat /\ l.probe \in Nat
    BY DEF IsLayout
  <1>2. LengthOf(l) = l.rollout + n * l.probe /\ n * l.probe \in Nat
    BY <1>1 DEF LengthOf
  <1>3. q \in Nat /\ x \in Nat /\ x < n * l.probe
    BY <1>1, <1>2
  <1>4. n # 0
    BY <1>1, <1>3
  <1>5. l.prefixes # <<>>
    BY <1>4
  <1>6. l.probe \in Nat \ {0}
    BY <1>1, <1>5 DEF IsLayout
  <1> HIDE DEF x, n
  <1>7. d \in Nat /\ d < n /\ d * l.probe <= x
    BY <1>1, <1>3, <1>6, DivBelow
  <1>8. BranchOf(l, q) = d + 1
    BY DEF BranchOf, x
  <1> HIDE DEF d
  <1>9. d + 1 \in 1..n
    BY <1>1, <1>7
  <1>10. BranchOf(l, q) \in DOMAIN l.prefixes
    BY <1>8, <1>9 DEF n, IsLayout
  <1>11. (d + 1) - 1 = d
    BY <1>7
  <1>12. StartOf(l, BranchOf(l, q)) = l.rollout + d * l.probe
    BY <1>8, <1>11 DEF StartOf
  <1>13. d * l.probe \in Nat
    BY <1>1, <1>7
  <1>14. x + l.rollout + 1 = q
    BY <1>1, <1>3 DEF x
  <1> QED BY <1>1, <1>3, <1>6, <1>7, <1>10, <1>12, <1>13, <1>14

\* Tokens from the start of a branch to one of its tokens are in that branch.
LEMMA SameBranch ==
    ASSUME NEW l, IsLayout(l), NEW q \in 1..LengthOf(l), q > l.rollout,
           NEW k \in (StartOf(l, BranchOf(l, q)) + 1)..q
    PROVE  k > l.rollout /\ k \in 1..LengthOf(l) /\ BranchOf(l, k) = BranchOf(l, q)
  <1> DEFINE x == k - l.rollout - 1
             y == q - l.rollout - 1
  <1>1. l.rollout \in Nat /\ LengthOf(l) \in Nat
    <2> DEFINE m == Len(l.prefixes)
    <2>1. l.rollout \in Nat /\ l.probe \in Nat /\ m \in Nat
      BY DEF IsLayout
    <2>2. LengthOf(l) = l.rollout + m * l.probe
      BY DEF LengthOf
    <2> HIDE DEF m
    <2>3. m * l.probe \in Nat
      BY <2>1
    <2> QED BY <2>1, <2>2, <2>3
  <1>2. /\ l.probe \in Nat \ {0}
        /\ StartOf(l, BranchOf(l, q)) \in Nat
        /\ l.rollout <= StartOf(l, BranchOf(l, q)) /\ StartOf(l, BranchOf(l, q)) < q
    BY BranchHolds
  <1>3. k \in Nat /\ q \in Nat /\ k > l.rollout /\ k <= q /\ q <= LengthOf(l)
    BY <1>1, <1>2
  <1>4. x \in Nat /\ y \in Nat /\ x <= y
    BY <1>1, <1>3
  <1>5. y \div l.probe \in Nat /\ (y \div l.probe) * l.probe \in Nat
    BY <1>2, <1>4
  <1>6. StartOf(l, BranchOf(l, q)) = l.rollout + (y \div l.probe) * l.probe
    BY <1>5 DEF StartOf, BranchOf
  <1>7. (y \div l.probe) * l.probe <= x
    BY <1>1, <1>3, <1>5, <1>6
  <1> HIDE DEF x, y
  <1>8. x \div l.probe = y \div l.probe
    BY <1>2, <1>4, <1>7, DivBetween
  <1> QED BY <1>1, <1>3, <1>8 DEF BranchOf, x, y

\* In every layout the branches are isolated.
LEMMA LayoutIsIsolated ==
    ASSUME NEW l, IsLayout(l)
    PROVE  IsolatedIn(l)
  <1> SUFFICES ASSUME NEW q \in 1..LengthOf(l), NEW k \in VisibleTo(l, q)
               PROVE  /\ VisibleTo(l, k) \subseteq VisibleTo(l, q)
                      /\ k > l.rollout => q > l.rollout /\ BranchOf(l, k) = BranchOf(l, q)
                      /\ q > l.rollout /\ k <= l.rollout => k <= l.prefixes[BranchOf(l, q)]
    BY DEF IsolatedIn
  <1>1. l.rollout \in Nat /\ q \in Nat
    BY DEF IsLayout
  <1>2. CASE q <= l.rollout
    <2>1. k \in 1..q /\ k \in Nat /\ k <= l.rollout
      BY <1>1, <1>2 DEF VisibleTo
    <2>2. VisibleTo(l, k) = 1..k /\ VisibleTo(l, q) = 1..q
      BY <1>2, <2>1 DEF VisibleTo
    <2> QED BY <1>1, <1>2, <2>1, <2>2
  <1>3. CASE q > l.rollout
    <2> DEFINE b == BranchOf(l, q)
               start == StartOf(l, b)
    <2>1. b \in DOMAIN l.prefixes /\ start \in Nat /\ l.rollout <= start /\ start < q
      BY <1>3, BranchHolds
    <2>2. l.prefixes[b] \in Nat /\ l.prefixes[b] <= l.rollout
      BY <2>1 DEF IsLayout
    <2>3. VisibleTo(l, q) = (1..l.prefixes[b]) \union ((start + 1)..q)
      BY <1>1, <1>3 DEF VisibleTo
    <2>4. CASE k \in 1..l.prefixes[b]
      <3>1. k \in Nat /\ k <= l.rollout /\ k <= l.prefixes[b]
        BY <1>1, <2>2, <2>4
      <3>2. VisibleTo(l, k) = 1..k
        BY <3>1 DEF VisibleTo
      <3>3. 1..k \subseteq 1..l.prefixes[b]
        BY <2>2, <3>1
      <3> QED BY <1>1, <2>3, <3>1, <3>2, <3>3
    <2>5. CASE k \in (start + 1)..q
      <3>1. k > l.rollout /\ BranchOf(l, k) = b
        BY <1>3, <2>5, SameBranch
      <3>2. k \in Nat /\ k <= q
        BY <1>1, <2>1, <2>5
      <3>3. ~(k <= l.rollout)
        BY <1>1, <3>1, <3>2
      <3>4. VisibleTo(l, k) = (1..l.prefixes[b]) \union ((start + 1)..k)
        BY <3>1, <3>3 DEF VisibleTo
      <3>5. (start + 1)..k \subseteq (start + 1)..q
        BY <1>1, <2>1, <3>2
      <3> QED BY <1>3, <2>3, <3>1, <3>3, <3>4, <3>5
    <2> QED BY <2>3, <2>4, <2>5
  <1> QED BY <1>1, <1>2, <1>3

-----------------------------------------------------------------------------
\* What a rollout and its probe are.
LEMMA RolloutFacts ==
    ASSUME NEW r \in Rollouts
    PROVE  /\ r.prompt \in Nat \ {0} /\ r.response \in Nat \ {0}
           /\ r.ends \in Seq(Nat) /\ \A i \in DOMAIN r.ends : r.ends[i] <= r.response
           /\ r.probe \in Seq(Nat) /\ Len(r.probe) > 0
  <1> USE PackedProbeAssumption
  <1>1. /\ r.prompt \in 1..MaxPrompt /\ r.response \in 1..MaxResponse
        /\ r.ends \in IncreasingUpTo(MaxResponse) /\ r.probe \in Tokenizations
        /\ \A i \in DOMAIN r.ends : r.ends[i] <= r.response
    BY DEF Rollouts
  <1>2. \A n \in Nat : \A s \in IncreasingUpTo(n) : s \in Seq(Nat)
    <2> SUFFICES ASSUME NEW n \in Nat, NEW s \in IncreasingUpTo(n) PROVE s \in Seq(Nat)
      OBVIOUS
    <2>1. PICK k \in 0..n : s \in [1..k -> 1..n]
      BY DEF IncreasingUpTo
    <2> QED BY <2>1
  <1>3. Chars \in Nat
    BY DEF Chars
  <1>4. r.probe \in Seq(Nat) /\ r.probe # <<>>
    BY <1>1, <1>2, <1>3 DEF Tokenizations
  <1>5. Len(r.probe) > 0
    BY <1>4
  <1>6. MaxPrompt \in Nat /\ MaxResponse \in Nat
    OBVIOUS
  <1> HIDE PackedProbeAssumption
  <1>7. r.prompt \in Nat \ {0} /\ r.response \in Nat \ {0}
    BY <1>1, <1>6
  <1>8. r.ends \in Seq(Nat)
    BY <1>1, <1>2, <1>6
  <1> QED BY <1>1, <1>4, <1>5, <1>7, <1>8

LEMMA LayoutOfRollout ==
    ASSUME NEW r \in Rollouts
    PROVE  IsLayout(Layout(r.prompt, r.response, MetaOf(r)))
  <1> DEFINE l == Layout(r.prompt, r.response, MetaOf(r))
  <1>1. /\ r.prompt \in Nat /\ r.response \in Nat /\ r.ends \in Seq(Nat)
        /\ \A i \in DOMAIN r.ends : r.ends[i] <= r.response
        /\ Len(r.probe) \in Nat /\ Len(r.probe) > 0
    BY RolloutFacts
  <1>2. CASE Len(r.ends) < 2
    <2>1. l = [rollout |-> r.prompt + r.response, probe |-> 0, prefixes |-> <<>>]
      BY <1>2 DEF Layout, MetaOf
    <2> QED BY <1>1, <2>1 DEF IsLayout
  <1>3. CASE ~(Len(r.ends) < 2)
    <2>1. l = [rollout |-> r.prompt + r.response, probe |-> Len(r.probe),
               prefixes |-> [b \in DOMAIN r.ends |-> r.prompt + Before(r.ends, b)]]
      BY <1>3 DEF Layout, MetaOf
    <2>2. \A b \in DOMAIN r.ends : Before(r.ends, b) \in Nat /\ Before(r.ends, b) <= r.response
      BY <1>1 DEF Before
    <2>3. \A b \in DOMAIN r.ends :
            /\ r.prompt + Before(r.ends, b) \in Nat
            /\ r.prompt + Before(r.ends, b) <= r.prompt + r.response
      BY <1>1, <2>2
    <2>4. DOMAIN r.ends = 1..Len(r.ends) /\ Len(r.ends) \in Nat
      BY <1>1
    <2>5. [b \in DOMAIN r.ends |-> r.prompt + Before(r.ends, b)] \in Seq(Nat)
      BY <2>3, <2>4
    <2> QED BY <1>1, <2>1, <2>3, <2>5 DEF IsLayout
  <1> QED BY <1>2, <1>3

\* Without branches the packed sequence is the rollout at its own positions.
LEMMA NoBranches ==
    ASSUME NEW r \in Rollouts, Len(r.ends) < 2, NEW l, l = Layout(r.prompt, r.response, MetaOf(r))
    PROVE  /\ LengthOf(l) = r.prompt + r.response
           /\ Max({PositionAt(l, p) : p \in 1..LengthOf(l)}) = r.prompt + r.response
  <1> DEFINE n == r.prompt + r.response
  <1>1. n \in Nat \ {0}
    BY RolloutFacts
  <1>2. l = [rollout |-> n, probe |-> 0, prefixes |-> <<>>]
    BY DEF Layout, MetaOf
  <1>3. LengthOf(l) = n
    BY <1>1, <1>2 DEF LengthOf
  <1>4. \A p \in 1..n : PositionAt(l, p) = p
    BY <1>1, <1>2 DEF PositionAt
  <1>5. {PositionAt(l, p) : p \in 1..LengthOf(l)} = 1..n
    BY <1>3, <1>4
  <1> HIDE DEF n
  <1>6. n \in 1..n /\ \A y \in 1..n : n >= y
    BY <1>1
  <1>7. \A x \in 1..n : (\A y \in 1..n : x >= y) => x = n
    BY <1>1
  <1>8. Max(1..n) = n
    BY <1>6, <1>7 DEF Max
  <1> QED BY <1>3, <1>5, <1>8 DEF n

-----------------------------------------------------------------------------
LEMMA StepPipeline == PipelineInv /\ [ProbeNext]_probeVars => PipelineInv'
  <1> SUFFICES ASSUME PipelineInv, [ProbeNext]_probeVars PROVE PipelineInv'
    OBVIOUS
  <1> USE DEF PipelineInv, Packed
  <1>1. CASE Attach
    <2>1. rollout' = rollout /\ stage' \in {"attached", "raised"}
      BY <1>1 DEF Attach
    <2>2. stage' = "attached" => meta' = MetaOf(rollout)
      BY <1>1 DEF Attach, MetaOf
    <2> QED BY <2>1, <2>2
  <1>2. CASE Pack
    <2>1. rollout' = rollout /\ meta' = meta /\ stage' \in {"packed", "raised"} /\ stage = "attached"
      BY <1>2 DEF Pack
    <2>2. stage' = "packed" => layout' = Layout(rollout.prompt, rollout.response, meta)
      BY <1>2 DEF Pack
    <2> QED BY <2>1, <2>2
  <1>3. CASE Score
    BY <1>3 DEF Score
  <1>4. CASE Weigh
    BY <1>4 DEF Weigh
  <1>5. CASE UNCHANGED probeVars
    BY <1>5 DEF probeVars
  <1> QED BY <1>1, <1>2, <1>3, <1>4, <1>5 DEF ProbeNext

\* In every state the metadata and the layout are those of the rollout.
THEOREM PipelineInvariant == ProbeSpec => []PipelineInv
  <1>1. ProbeInit => PipelineInv
    BY DEF ProbeInit, PipelineInv, Packed
  <1> QED BY <1>1, StepPipeline, PTL DEF ProbeSpec

\* The branches of every packed rollout are isolated from what follows their prefix
\* and from each other, whatever its steps and its probe are.
THEOREM Isolation == ProbeSpec => []BranchesAreIsolated
  <1>1. PipelineInv => BranchesAreIsolated
    <2> SUFFICES ASSUME PipelineInv, stage \in Packed PROVE IsolatedIn(layout)
      BY DEF BranchesAreIsolated, Packed
    <2>1. rollout \in Rollouts /\ layout = Layout(rollout.prompt, rollout.response, MetaOf(rollout))
      BY DEF PipelineInv
    <2>2. IsLayout(layout)
      BY <2>1, LayoutOfRollout
    <2> QED BY <2>2, LayoutIsIsolated
  <1> QED BY <1>1, PipelineInvariant, PTL

\* No step changes the rollout, and the steps of the actor after Pack do not raise.
LEMMA RolloutStays ==
    [ProbeNext]_probeVars => rollout' = rollout /\ (stage' = "raised" => stage = "raised" \/ Attach \/ Pack)
  <1> SUFFICES ASSUME [ProbeNext]_probeVars
               PROVE  rollout' = rollout /\ (stage' = "raised" => stage = "raised" \/ Attach \/ Pack)
    OBVIOUS
  <1>1. CASE Attach
    BY <1>1 DEF Attach
  <1>2. CASE Pack
    BY <1>2 DEF Pack
  <1>3. CASE Score
    BY <1>3 DEF Score
  <1>4. CASE Weigh
    BY <1>4 DEF Weigh
  <1>5. CASE UNCHANGED probeVars
    BY <1>5 DEF probeVars
  <1> QED BY <1>1, <1>2, <1>3, <1>4, <1>5 DEF ProbeNext

LEMMA StepRaises == PipelineInv /\ RaisesOnlyForProbes /\ [ProbeNext]_probeVars => RaisesOnlyForProbes'
  <1> SUFFICES ASSUME PipelineInv, RaisesOnlyForProbes, [ProbeNext]_probeVars PROVE RaisesOnlyForProbes'
    OBVIOUS
  <1>1. rollout \in Rollouts /\ Len(rollout.ends) \in Nat
    BY RolloutFacts DEF PipelineInv
  <1>2. rollout' = rollout
    BY RolloutStays
  <1> SUFFICES ASSUME stage' = "raised", Len(rollout.ends) < 2
               PROVE  rollout.prompt + rollout.response > Min({TokenCap, MaxPositions})
    BY <1>1, <1>2 DEF RaisesOnlyForProbes, Steps
  <1>3. CASE stage = "raised"
    BY <1>1, <1>3 DEF RaisesOnlyForProbes, Steps
  <1>4. CASE stage # "raised"
    <2>1. Pack
      BY <1>4, RolloutStays DEF Attach
    <2> DEFINE l == Layout(rollout.prompt, rollout.response, meta)
               n == rollout.prompt + rollout.response
    <2>2. meta = MetaOf(rollout)
      BY <2>1 DEF Pack, PipelineInv
    <2>3. LengthOf(l) = n /\ Max({PositionAt(l, p) : p \in 1..LengthOf(l)}) = n
      BY <1>1, <2>2, NoBranches
    <2>4. LengthOf(l) > TokenCap \/ Max({PositionAt(l, p) : p \in 1..LengthOf(l)}) > MaxPositions
      BY <2>1 DEF Pack
    <2>5. n \in Nat /\ TokenCap \in Nat /\ MaxPositions \in Nat
      BY <1>1, RolloutFacts, PackedProbeAssumption
    <2>6. n > TokenCap \/ n > MaxPositions
      BY <2>3, <2>4
    <2>7. Min({TokenCap, MaxPositions}) = IF TokenCap <= MaxPositions THEN TokenCap ELSE MaxPositions
      BY <2>5, MinOfTwo
    <2> QED BY <1>2, <2>5, <2>6, <2>7
  <1> QED BY <1>3, <1>4

\* For all caps, a rollout without a step to probe raises only if it does not fit itself.
THEOREM RaisesWithCause == ProbeSpec => []RaisesOnlyForProbes
  <1>1. ProbeInit => RaisesOnlyForProbes
    BY DEF ProbeInit, RaisesOnlyForProbes
  <1> QED BY <1>1, StepRaises, PipelineInvariant, PTL DEF ProbeSpec


-----------------------------------------------------------------------------
\* The layers of a forward pass.

IsStack(h, n, inputs, visible) ==
    h = [m \in 0..n |-> IF m = 0 THEN inputs ELSE Layer(h[m - 1], visible)]

\* There is a stack of any number of layers: the first one that had none would
\* have one by another layer on the stack below it.
LEMMA StackExists ==
    ASSUME NEW inputs, NEW visible, NEW n \in Nat
    PROVE  \E h : IsStack(h, n, inputs, visible)
  <1> DEFINE Missing == {m \in Nat : ~ \E h : IsStack(h, m, inputs, visible)}
  <1> SUFFICES ASSUME n \in Missing PROVE FALSE
    OBVIOUS
  <1>1. PICK m \in Missing : \A k \in Missing : m <= k
    BY LeastOne
  <1>2. m # 0
    <2>1. IsStack([k \in 0..0 |-> inputs], 0, inputs, visible)
      BY DEF IsStack
    <2> QED BY <2>1
  <1>3. m \in Nat /\ m - 1 \in Nat /\ m - 1 \notin Missing
    BY <1>1, <1>2
  <1>4. PICK h : IsStack(h, m - 1, inputs, visible)
    BY <1>3
  <1> DEFINE g == [k \in 0..m |-> IF k = m THEN Layer(h[m - 1], visible) ELSE h[k]]
  <1>5. \A k \in 0..(m - 1) : g[k] = h[k] /\ h[k] = IF k = 0 THEN inputs ELSE Layer(h[k - 1], visible)
    <2> TAKE k \in 0..(m - 1)
    <2>1. k \in 0..m /\ k # m
      BY <1>3
    <2>2. g[k] = h[k]
      BY <2>1
    <2>3. h[k] = IF k = 0 THEN inputs ELSE Layer(h[k - 1], visible)
      BY <1>4, Zenon DEF IsStack
    <2> QED BY <2>2, <2>3
  <1>6. \A k \in 0..m : g[k] = IF k = 0 THEN inputs ELSE Layer(g[k - 1], visible)
    <2> TAKE k \in 0..m
    <2>1. CASE k = m
      <3>1. m - 1 \in 0..(m - 1) /\ m \in 0..m
        BY <1>3
      <3>2. g[m - 1] = h[m - 1] /\ g[m] = Layer(h[m - 1], visible)
        BY <1>5, <3>1
      <3> QED BY <1>2, <2>1, <3>2
    <2>2. CASE k # m
      <3>1. k \in 0..(m - 1) /\ (k # 0 => k - 1 \in 0..(m - 1))
        BY <1>3, <2>2
      <3> HIDE DEF g
      <3> QED BY <1>5, <3>1
    <2> QED BY <2>1, <2>2
  <1>7. IsStack(g, m, inputs, visible)
    <2>1. g = [k \in 0..m |-> g[k]]
      OBVIOUS
    <2> HIDE DEF g
    <2>2. [k \in 0..m |-> g[k]] = [k \in 0..m |-> IF k = 0 THEN inputs ELSE Layer(g[k - 1], visible)]
      BY <1>6, Zenon
    <2> QED BY <2>1, <2>2, Zenon DEF IsStack
  <1> QED BY <1>7

\* The hidden states are the top of a stack.
LEMMA HiddenIsTop ==
    ASSUME NEW inputs, NEW visible
    PROVE  \E h : IsStack(h, Layers, inputs, visible) /\ Hidden(inputs, visible) = h[Layers]
  <1>1. Layers \in Nat
    BY PackedProbeAssumption
  <1>2. \E h : IsStack(h, Layers, inputs, visible)
    BY <1>1, StackExists
  <1> QED BY <1>2 DEF IsStack, Hidden

\* f takes the tokens of a pass to tokens of another one with the same input, that
\* attend to what f takes their own to.
Embeds(f, few, fewVisible, many, manyVisible) ==
    \A p \in DOMAIN few :
        /\ f[p] \in DOMAIN many /\ many[f[p]] = few[p]
        /\ fewVisible[p] \subseteq DOMAIN few
        /\ manyVisible[f[p]] = {f[k] : k \in fewVisible[p]}

\* Then it takes hidden states to equal ones, at every layer.
LEMMA SamePass ==
    ASSUME NEW few, NEW fewVisible, NEW many, NEW manyVisible, NEW f,
           Embeds(f, few, fewVisible, many, manyVisible)
    PROVE  \A p \in DOMAIN few : Hidden(many, manyVisible)[f[p]] = Hidden(few, fewVisible)[p]
  <1> USE DEF Embeds
  <1>1. PICK g : IsStack(g, Layers, few, fewVisible) /\ Hidden(few, fewVisible) = g[Layers]
    BY HiddenIsTop
  <1>2. PICK h : IsStack(h, Layers, many, manyVisible) /\ Hidden(many, manyVisible) = h[Layers]
    BY HiddenIsTop
  <1> DEFINE Same(n) == /\ DOMAIN g[n] = DOMAIN few /\ DOMAIN h[n] = DOMAIN many
                        /\ \A p \in DOMAIN few : h[n][f[p]] = g[n][p]
             Different == {n \in 0..Layers : ~Same(n)}
  <1>3. Layers \in Nat
    BY PackedProbeAssumption
  <1>4. \A n \in 0..Layers :
          /\ g[n] = IF n = 0 THEN few ELSE Layer(g[n - 1], fewVisible)
          /\ h[n] = IF n = 0 THEN many ELSE Layer(h[n - 1], manyVisible)
    BY <1>1, <1>2, Zenon DEF IsStack
  <1>5. Different = {}
    <2> SUFFICES ASSUME Different # {} PROVE FALSE
      OBVIOUS
    <2>1. PICK n \in Different : \A m \in Different : n <= m
      <3>1. Different \in SUBSET Nat
        BY <1>3
      <3> HIDE DEF Different
      <3> QED BY <3>1, LeastOne
    <2>2. n \in 0..Layers /\ ~Same(n)
      BY <2>1
    <2>3. CASE n = 0
      <3>1. g[n] = few /\ h[n] = many
        BY <1>4, <2>2, <2>3
      <3> QED BY <2>2, <3>1
    <2>4. CASE n # 0
      <3>1. n - 1 \in 0..Layers /\ ~(n <= n - 1)
        BY <1>3, <2>2, <2>4
      <3>2. Same(n - 1)
        BY <2>1, <3>1
      <3>3. g[n] = Layer(g[n - 1], fewVisible) /\ h[n] = Layer(h[n - 1], manyVisible)
        BY <1>4, <2>2, <2>4
      <3>4. DOMAIN g[n] = DOMAIN few /\ DOMAIN h[n] = DOMAIN many
        BY <3>2, <3>3 DEF Layer
      <3>5. \A p \in DOMAIN few : h[n][f[p]] = g[n][p]
        <4> TAKE p \in DOMAIN few
        <4>1. g[n][p] = <<g[n - 1][p], {g[n - 1][k] : k \in fewVisible[p]}>>
          BY <3>2, <3>3 DEF Layer
        <4>2. h[n][f[p]] = <<h[n - 1][f[p]], {h[n - 1][k] : k \in manyVisible[f[p]]}>>
          BY <3>2, <3>3 DEF Layer
        <4>3. {h[n - 1][k] : k \in manyVisible[f[p]]} = {g[n - 1][k] : k \in fewVisible[p]}
          <5>1. \A k \in fewVisible[p] : h[n - 1][f[k]] = g[n - 1][k]
            BY <3>2
          <5>2. manyVisible[f[p]] = {f[k] : k \in fewVisible[p]}
            OBVIOUS
          <5> QED BY <5>1, <5>2
        <4>4. h[n - 1][f[p]] = g[n - 1][p]
          BY <3>2
        <4> QED BY <4>1, <4>2, <4>3, <4>4
      <3> QED BY <2>2, <3>4, <3>5
    <2> QED BY <2>3, <2>4
  <1>6. Layers \in 0..Layers
    BY <1>3
  <1>7. Same(Layers)
    BY <1>5, <1>6
  <1> QED BY <1>1, <1>2, <1>7

-----------------------------------------------------------------------------
\* Where a pass of its own meets the packed one.

\* What the packed pass and a pass of a prefix and a probe start from.
PackedInputs(l) == [p \in 1..LengthOf(l) |-> <<TokenAt(l, p), PositionAt(l, p)>>]
PackedVisible(l) == [p \in 1..LengthOf(l) |-> VisibleTo(l, p)]

AloneInputs(prefix, probe) ==
    [p \in 1..(prefix + probe) |->
        <<IF p <= prefix THEN <<"rollout", p>> ELSE <<"probe", p - prefix>>, p>>]
AloneVisible(prefix, probe) == [p \in 1..(prefix + probe) |-> 1..p]

\* Where the tokens of branch b's prefix and probe are in the packed sequence.
PackedAt(l, b) ==
    [p \in 1..(l.prefixes[b] + l.probe) |->
        IF p <= l.prefixes[b] THEN p ELSE StartOf(l, b) + (p - l.prefixes[b])]

\* Blocks of the same length one after the other.
LEMMA Blocks ==
    ASSUME NEW P \in Nat \ {0}, NEW n \in Nat, NEW b \in 1..n, NEW j \in 1..P
    PROVE  /\ (b - 1) * P \in Nat /\ n * P \in Nat
           /\ (b - 1) * P + j <= n * P
           /\ ((b - 1) * P + j - 1) \div P = b - 1
  <1> DEFINE c == b - 1
             x == c * P + j - 1
  <1>1. c \in Nat /\ b = c + 1 /\ c + 1 <= n /\ j \in Nat /\ 1 <= j /\ j <= P
    OBVIOUS
  <1> HIDE DEF c
  <1>2. c * P \in Nat /\ n * P \in Nat
    BY <1>1
  <1>3. (c + 1) * P = c * P + P
    BY <1>1
  <1>4. (c + 1) * P <= n * P
    BY <1>1
  <1>5. x \in Nat /\ c * P <= x /\ x < (c + 1) * P
    BY <1>1, <1>2, <1>3
  <1> DEFINE d == x \div P
  <1> HIDE DEF x
  <1>6. d \in Nat /\ d * P <= x /\ x < (d + 1) * P
    BY <1>5
  <1> HIDE DEF d
  <1>7. d * P < (c + 1) * P /\ c * P < (d + 1) * P
    BY <1>1, <1>2, <1>5, <1>6
  <1>8. d < c + 1 /\ c < d + 1
    BY <1>1, <1>6, <1>7
  <1>9. d = c
    BY <1>1, <1>6, <1>8
  <1> QED BY <1>1, <1>2, <1>3, <1>4, <1>9 DEF c, d, x

\* The tokens of a branch are where its start says.
LEMMA PlaceInBranch ==
    ASSUME NEW l, IsLayout(l), NEW b \in DOMAIN l.prefixes, NEW j \in 1..l.probe
    PROVE  /\ StartOf(l, b) \in Nat /\ StartOf(l, b) >= l.rollout
           /\ StartOf(l, b) + j \in 1..LengthOf(l) /\ StartOf(l, b) + j > l.rollout
           /\ BranchOf(l, StartOf(l, b) + j) = b /\ PlaceOf(l, StartOf(l, b) + j) = j
  <1> DEFINE before == (b - 1) * l.probe
             all == Len(l.prefixes) * l.probe
  <1>1. /\ Len(l.prefixes) \in Nat /\ l.rollout \in Nat /\ b \in 1..Len(l.prefixes)
        /\ l.probe \in Nat \ {0} /\ j \in Nat
    BY DEF IsLayout
  <1>2. before \in Nat /\ all \in Nat /\ before + j <= all /\ (before + j - 1) \div l.probe = b - 1
    BY <1>1, Blocks
  <1>3. StartOf(l, b) = l.rollout + before /\ LengthOf(l) = l.rollout + all
    BY DEF StartOf, LengthOf
  <1> DEFINE start == StartOf(l, b)
             len == LengthOf(l)
             q == start + j
             w == l.rollout
  <1>4. 1 <= j
    BY <1>1
  <1> HIDE DEF before, all, start, len, w
  <1>5. w \in Nat /\ start = w + before /\ len = w + all
    BY <1>1, <1>3 DEF w, start, len
  <1>6. /\ start \in Nat /\ start >= w /\ q \in Nat /\ q \in 1..len /\ q > w
        /\ q - w - 1 = before + j - 1 /\ q - start = j
    BY <1>1, <1>2, <1>4, <1>5
  <1> HIDE DEF q
  <1>7. BranchOf(l, q) = (before + j - 1) \div l.probe + 1
    BY <1>6 DEF BranchOf, w
  <1>8. BranchOf(l, q) = b
    BY <1>1, <1>2, <1>7
  <1>9. PlaceOf(l, q) = q - start
    BY <1>8 DEF PlaceOf, start
  <1> QED BY <1>6, <1>8, <1>9 DEF q, start, len, w

\* The pass of branch b's prefix and probe looks like its part of the packed pass.
LEMMA BranchLooksAlone ==
    ASSUME NEW l, IsLayout(l), NEW b \in DOMAIN l.prefixes, NEW p \in 1..(l.prefixes[b] + l.probe)
    PROVE  /\ PackedAt(l, b)[p] \in 1..LengthOf(l)
           /\ PackedInputs(l)[PackedAt(l, b)[p]] = AloneInputs(l.prefixes[b], l.probe)[p]
           /\ PackedVisible(l)[PackedAt(l, b)[p]] = {PackedAt(l, b)[k] : k \in 1..p}
  <1> DEFINE a == l.prefixes[b]
             P == l.probe
             s == StartOf(l, b)
             f == PackedAt(l, b)
             n == Len(l.prefixes)
  <1>1. /\ a \in Nat /\ P \in Nat \ {0} /\ l.rollout \in Nat /\ a <= l.rollout
        /\ n \in Nat /\ n * P \in Nat
    BY DEF IsLayout
  <1>2. p \in Nat /\ 1 <= p /\ p <= a + P
    BY <1>1
  <1>3. LengthOf(l) = l.rollout + n * P
    BY DEF LengthOf
  <1>4. \A k \in 1..(a + P) : f[k] = IF k <= a THEN k ELSE s + (k - a)
    BY DEF PackedAt
  <1>5. CASE p <= a
    <2>1. f[p] = p /\ p <= l.rollout /\ p \in 1..LengthOf(l)
      BY <1>1, <1>2, <1>3, <1>4, <1>5
    <2>2. PackedInputs(l)[p] = <<<<"rollout", p>>, p>>
      BY <2>1 DEF PackedInputs, TokenAt, PositionAt
    <2>3. AloneInputs(a, P)[p] = <<<<"rollout", p>>, p>>
      BY <1>5 DEF AloneInputs
    <2>4. PackedVisible(l)[p] = 1..p
      BY <2>1 DEF PackedVisible, VisibleTo
    <2>5. {f[k] : k \in 1..p} = 1..p
      <3>1. \A k \in 1..p : k \in 1..(a + P) /\ f[k] = k
        <4> HIDE DEF f, a, P
        <4> QED BY <1>1, <1>2, <1>4, <1>5
      <3> HIDE DEF f
      <3> QED BY <3>1
    <2> QED BY <2>1, <2>2, <2>3, <2>4, <2>5
  <1>6. CASE p > a
    <2> DEFINE j == p - a
    <2>1. j \in 1..P
      BY <1>1, <1>2, <1>6
    <2>2. /\ s \in Nat /\ s >= l.rollout /\ s + j \in 1..LengthOf(l) /\ s + j > l.rollout
          /\ BranchOf(l, s + j) = b /\ PlaceOf(l, s + j) = j
      BY <2>1, PlaceInBranch
    <2>3. f[p] = s + j
      BY <1>1, <1>2, <1>4, <1>6
    <2>4. ~(s + j <= l.rollout)
      BY <1>1, <2>1, <2>2
    <2>5. PackedInputs(l)[s + j] = <<<<"probe", j>>, a + j>>
      BY <2>2, <2>4 DEF PackedInputs, TokenAt, PositionAt
    <2>6. AloneInputs(a, P)[p] = <<<<"probe", j>>, p>>
      BY <1>1, <1>2, <1>6 DEF AloneInputs
    <2>7. a + j = p
      BY <1>1, <1>2
    <2>8. PackedVisible(l)[s + j] = (1..a) \union ((s + 1)..(s + j))
      BY <2>2, <2>4 DEF PackedVisible, VisibleTo
    <2>9. {f[k] : k \in 1..p} = (1..a) \union ((s + 1)..(s + j))
      <3> HIDE DEF f, s, a, P
      <3>1. \A k \in 1..p : f[k] = IF k <= a THEN k ELSE s + (k - a)
        BY <1>1, <1>2, <1>4
      <3>2. \A k \in 1..p : f[k] \in (1..a) \union ((s + 1)..(s + j))
        <4> TAKE k \in 1..p
        <4>1. CASE k <= a
          BY <1>1, <1>2, <3>1, <4>1
        <4>2. CASE k > a
          <5>1. f[k] = s + (k - a) /\ k \in Nat /\ k <= p
            BY <1>1, <1>2, <3>1, <4>2
          <5>2. k - a >= 1 /\ k - a <= j
            BY <1>1, <1>2, <4>2, <5>1
          <5> HIDE DEF j
          <5> QED BY <1>1, <2>1, <2>2, <5>1, <5>2, <4>2
        <4> QED BY <1>1, <1>2, <4>1, <4>2
      <3>3. \A y \in 1..a : y \in 1..p /\ f[y] = y
        BY <1>1, <1>2, <1>6, <3>1
      <3>4. \A y \in (s + 1)..(s + j) : y - s + a \in 1..p /\ f[y - s + a] = y
        <4> TAKE y \in (s + 1)..(s + j)
        <4>1. y \in Int /\ y - s >= 1 /\ y - s <= p - a
          BY <1>1, <1>2, <2>1, <2>2, SMTT(30)
        <4>2. y - s + a \in 1..p /\ ~(y - s + a <= a) /\ (y - s + a) - a = y - s
          BY <1>1, <1>2, <2>2, <4>1
        <4>3. f[y - s + a] = s + (y - s)
          BY <3>1, <4>2
        <4> QED BY <2>2, <4>1, <4>2, <4>3
      <3> QED BY <3>2, <3>3, <3>4
    <2>10. /\ f[p] \in 1..LengthOf(l)
           /\ PackedInputs(l)[f[p]] = AloneInputs(a, P)[p]
           /\ PackedVisible(l)[f[p]] = {f[k] : k \in 1..p}
      <3> HIDE DEF f, j, s, a, P
      <3> QED BY <2>2, <2>3, <2>5, <2>6, <2>7, <2>8, <2>9
    <2> QED BY <2>10
  <1> QED BY <1>1, <1>2, <1>5, <1>6

\* The hidden states of a branch are those of a pass of its own.
LEMMA BranchStates ==
    ASSUME NEW l, IsLayout(l), NEW b \in DOMAIN l.prefixes, NEW p \in 1..(l.prefixes[b] + l.probe)
    PROVE  Hidden(PackedInputs(l), PackedVisible(l))[PackedAt(l, b)[p]] = Alone(l.prefixes[b], l.probe)[p]
  <1> DEFINE a == l.prefixes[b]
             few == AloneInputs(a, l.probe)
             fewVisible == AloneVisible(a, l.probe)
             many == PackedInputs(l)
             manyVisible == PackedVisible(l)
             f == PackedAt(l, b)
  <1>1. a \in Nat /\ l.probe \in Nat
    BY DEF IsLayout
  <1>2. DOMAIN few = 1..(a + l.probe) /\ DOMAIN many = 1..LengthOf(l)
    BY DEF AloneInputs, PackedInputs
  <1>3. \A k \in DOMAIN few : fewVisible[k] = 1..k /\ fewVisible[k] \subseteq DOMAIN few
    BY <1>1, <1>2 DEF AloneVisible
  <1>4. \A k \in DOMAIN few :
          /\ f[k] \in DOMAIN many /\ many[f[k]] = few[k]
          /\ fewVisible[k] \subseteq DOMAIN few
          /\ manyVisible[f[k]] = {f[i] : i \in fewVisible[k]}
    <2> TAKE k \in DOMAIN few
    <2> HIDE DEF few, fewVisible, many, manyVisible, f
    <2>1. k \in 1..(a + l.probe)
      BY <1>2
    <2>2. f[k] \in 1..LengthOf(l) /\ many[f[k]] = few[k] /\ manyVisible[f[k]] = {f[i] : i \in 1..k}
      BY <2>1, BranchLooksAlone DEF few, many, manyVisible, f
    <2> QED BY <1>2, <1>3, <2>2
  <1>5. Alone(a, l.probe) = Hidden(few, fewVisible)
    BY DEF Alone, AloneInputs, AloneVisible
  <1> HIDE DEF few, fewVisible, many, manyVisible, f
  <1>6. \A k \in DOMAIN few : Hidden(many, manyVisible)[f[k]] = Hidden(few, fewVisible)[k]
    <2>1. Embeds(f, few, fewVisible, many, manyVisible)
      BY <1>4 DEF Embeds
    <2> QED BY <2>1, SamePass
  <1> QED BY <1>2, <1>5, <1>6 DEF many, manyVisible, f

\* The hidden states of the rollout are those of a pass without probes.
LEMMA RolloutStates ==
    ASSUME NEW l, IsLayout(l), NEW p \in 1..l.rollout
    PROVE  Hidden(PackedInputs(l), PackedVisible(l))[p] = Alone(l.rollout, 0)[p]
  <1> DEFINE few == AloneInputs(l.rollout, 0)
             fewVisible == AloneVisible(l.rollout, 0)
             many == PackedInputs(l)
             manyVisible == PackedVisible(l)
             f == [k \in 1..l.rollout |-> k]
  <1>1. l.rollout \in Nat /\ Len(l.prefixes) * l.probe \in Nat
    BY DEF IsLayout
  <1>2. DOMAIN few = 1..l.rollout /\ DOMAIN many = 1..LengthOf(l)
    BY <1>1 DEF AloneInputs, PackedInputs
  <1>3. \A k \in DOMAIN few :
          /\ f[k] \in DOMAIN many /\ many[f[k]] = few[k]
          /\ fewVisible[k] \subseteq DOMAIN few
          /\ manyVisible[f[k]] = {f[i] : i \in fewVisible[k]}
    <2> TAKE k \in DOMAIN few
    <2>1. k \in 1..l.rollout /\ k \in 1..LengthOf(l) /\ k <= l.rollout /\ f[k] = k
      BY <1>1, <1>2 DEF LengthOf
    <2>2. few[k] = <<<<"rollout", k>>, k>> /\ many[k] = <<<<"rollout", k>>, k>>
      BY <1>1, <2>1 DEF AloneInputs, PackedInputs, TokenAt, PositionAt
    <2>3. fewVisible[k] = 1..k /\ manyVisible[k] = 1..k
      BY <1>1, <2>1 DEF AloneVisible, PackedVisible, VisibleTo
    <2>4. 1..k \subseteq 1..l.rollout
      BY <1>1, <2>1
    <2>5. {f[i] : i \in 1..k} = 1..k
      BY <2>4
    <2> HIDE DEF few, fewVisible, many, manyVisible, f
    <2> QED BY <1>2, <2>1, <2>2, <2>3, <2>4, <2>5
  <1>4. Alone(l.rollout, 0) = Hidden(few, fewVisible)
    BY DEF Alone, AloneInputs, AloneVisible
  <1>5. f[p] = p
    OBVIOUS
  <1> HIDE DEF few, fewVisible, many, manyVisible, f
  <1>6. \A k \in DOMAIN few : Hidden(many, manyVisible)[f[k]] = Hidden(few, fewVisible)[k]
    <2>1. Embeds(f, few, fewVisible, many, manyVisible)
      BY <1>3 DEF Embeds
    <2> QED BY <2>1, SamePass
  <1> QED BY <1>2, <1>4, <1>5, <1>6 DEF many, manyVisible

-----------------------------------------------------------------------------
\* Packing is transparent.

\* The ends of steps and of tokens increase.
LEMMA EndsIncrease ==
    ASSUME NEW r \in Rollouts
    PROVE  /\ \A i \in DOMAIN r.ends : r.ends[i] \in Nat \ {0}
           /\ \A i, j \in DOMAIN r.ends : i < j => r.ends[i] < r.ends[j]
           /\ \A i \in DOMAIN r.probe : r.probe[i] \in Nat \ {0}
           /\ \A i, j \in DOMAIN r.probe : i < j => r.probe[i] < r.probe[j]
           /\ r.probe[1] <= PrefixChars
  <1>1. Chars \in Nat /\ MaxResponse \in Nat
    BY PackedProbeAssumption DEF Chars
  <1>2. r.ends \in IncreasingUpTo(MaxResponse) /\ r.probe \in Tokenizations
    BY DEF Rollouts
  <1>3. \A n \in Nat : \A s \in IncreasingUpTo(n) :
          /\ \A i \in DOMAIN s : s[i] \in Nat \ {0}
          /\ \A i, j \in DOMAIN s : i < j => s[i] < s[j]
    <2> SUFFICES ASSUME NEW n \in Nat, NEW s \in IncreasingUpTo(n)
                 PROVE  /\ \A i \in DOMAIN s : s[i] \in Nat \ {0}
                        /\ \A i, j \in DOMAIN s : i < j => s[i] < s[j]
      OBVIOUS
    <2>1. PICK k \in 0..n : s \in [1..k -> 1..n]
      BY DEF IncreasingUpTo
    <2>2. \A i, j \in DOMAIN s : i < j => s[i] < s[j]
      BY DEF IncreasingUpTo
    <2> QED BY <2>1, <2>2
  <1>4. r.probe \in IncreasingUpTo(Chars) /\ r.probe[1] <= PrefixChars
    BY <1>2 DEF Tokenizations
  <1> QED BY <1>1, <1>2, <1>3, <1>4

\* A token is scored if it has a character of the answer; the first one has none.
LEMMA AnswersAreScored ==
    ASSUME NEW r \in Rollouts
    PROVE  /\ AnswerTokens(r.probe) =
                {j \in DOMAIN r.probe :
                    \E c \in (PrefixChars + 1)..(PrefixChars + AnswerChars) :
                        Before(r.probe, j) < c /\ c <= r.probe[j]}
           /\ \A j \in AnswerTokens(r.probe) : j \in 1..Len(r.probe) /\ j - 1 \in 1..Len(r.probe)
  <1>1. PrefixChars \in Nat /\ AnswerChars \in Nat \ {0}
    BY PackedProbeAssumption
  <1>2. DOMAIN r.probe = 1..Len(r.probe) /\ Len(r.probe) \in Nat
    BY RolloutFacts
  <1>3. \A j \in DOMAIN r.probe :
          r.probe[j] \in Nat /\ Before(r.probe, j) \in Nat /\ Before(r.probe, j) < r.probe[j]
    <2> TAKE j \in DOMAIN r.probe
    <2>1. CASE j = 1
      BY <2>1, EndsIncrease DEF Before
    <2>2. CASE j # 1
      <3>1. j - 1 \in DOMAIN r.probe /\ j - 1 < j
        BY <1>2, <2>2
      <3> QED BY <2>2, <3>1, EndsIncrease DEF Before
    <2> QED BY <2>1, <2>2
  <1>4. \A j \in DOMAIN r.probe :
          (r.probe[j] > PrefixChars /\ Before(r.probe, j) < PrefixChars + AnswerChars)
            <=> (\E c \in (PrefixChars + 1)..(PrefixChars + AnswerChars) :
                    Before(r.probe, j) < c /\ c <= r.probe[j])
    <2> TAKE j \in DOMAIN r.probe
    <2> DEFINE u == Before(r.probe, j)
               v == r.probe[j]
    <2>1. u \in Nat /\ v \in Nat /\ u < v
      BY <1>3
    <2> HIDE DEF u, v
    <2>2. ASSUME v > PrefixChars, u < PrefixChars + AnswerChars
          PROVE  \E c \in (PrefixChars + 1)..(PrefixChars + AnswerChars) : u < c /\ c <= v
      <3>1. CASE u <= PrefixChars
        <4>1. PrefixChars + 1 \in (PrefixChars + 1)..(PrefixChars + AnswerChars)
          BY <1>1
        <4>2. u < PrefixChars + 1 /\ PrefixChars + 1 <= v
          BY <1>1, <2>1, <2>2, <3>1
        <4> QED BY <4>1, <4>2
      <3>2. CASE u > PrefixChars
        <4>1. u + 1 \in (PrefixChars + 1)..(PrefixChars + AnswerChars)
          BY <1>1, <2>1, <2>2, <3>2
        <4> QED BY <2>1, <4>1
      <3> QED BY <1>1, <2>1, <3>1, <3>2
    <2>3. ASSUME NEW c \in (PrefixChars + 1)..(PrefixChars + AnswerChars), u < c, c <= v
          PROVE  v > PrefixChars /\ u < PrefixChars + AnswerChars
      BY <1>1, <2>1, <2>3
    <2> QED BY <2>2, <2>3 DEF u, v
  <1>5. \A j \in AnswerTokens(r.probe) : j # 1
    BY <1>1, EndsIncrease DEF AnswerTokens
  <1> QED BY <1>2, <1>4, <1>5 DEF AnswerTokens

\* The prefixes of the branches.
LEMMA PrefixesOf ==
    ASSUME NEW r \in Rollouts, NEW l, l = Layout(r.prompt, r.response, MetaOf(r))
    PROVE  /\ l.rollout = r.prompt + r.response
           /\ DOMAIN l.prefixes = IF Len(r.ends) < 2 THEN {} ELSE DOMAIN r.ends
           /\ \A b \in DOMAIN l.prefixes :
                /\ l.probe = Len(r.probe) /\ MetaOf(r).answers = AnswerTokens(r.probe)
                /\ l.prefixes[b] = r.prompt + Before(r.ends, b)
  <1>1. MetaOf(r).ends = r.ends
    BY DEF MetaOf
  <1>2. CASE Len(r.ends) < 2
    BY <1>1, <1>2 DEF Layout
  <1>3. CASE ~(Len(r.ends) < 2)
    BY <1>1, <1>3 DEF Layout, MetaOf
  <1> QED BY <1>2, <1>3

\* What the packed pass gives a branch is what a pass of its own does.
LEMMA ScoreOfBranch ==
    ASSUME rollout \in Rollouts, NEW l,
           l = Layout(rollout.prompt, rollout.response, MetaOf(rollout)),
           NEW b \in DOMAIN l.prefixes
    PROVE  {Predicted(Hidden(PackedInputs(l), PackedVisible(l)),
                      TokenAt(l, StartOf(l, b) + j), StartOf(l, b) + j) : j \in AnswerTokens(rollout.probe)}
            = AloneScore(rollout.prompt + Before(rollout.ends, b))
  <1> DEFINE a == l.prefixes[b]
             P == Len(rollout.probe)
             h == Hidden(PackedInputs(l), PackedVisible(l))
             g == Alone(a, P)
             s == StartOf(l, b)
  <1>1. IsLayout(l)
    BY LayoutOfRollout
  <1>2. a = rollout.prompt + Before(rollout.ends, b) /\ l.probe = P /\ P \in Nat
    <2>1. Len(rollout.probe) \in Nat
      BY RolloutFacts
    <2>2. l.probe = Len(rollout.probe) /\ l.prefixes[b] = rollout.prompt + Before(rollout.ends, b)
      BY PrefixesOf
    <2> QED BY <2>1, <2>2
  <1>3. a \in Nat /\ l.rollout \in Nat
    BY <1>1 DEF IsLayout
  <1>4. ASSUME NEW j \in AnswerTokens(rollout.probe)
        PROVE  Predicted(h, TokenAt(l, s + j), s + j) = <<g[a + j - 1], <<"probe", j>>>>
    <2>1. j \in 1..P /\ j - 1 \in 1..P
      BY AnswersAreScored
    <2>2. /\ s \in Nat /\ s + j > l.rollout /\ s + j \in 1..LengthOf(l)
          /\ BranchOf(l, s + j) = b /\ PlaceOf(l, s + j) = j
      BY <1>1, <1>2, <2>1, PlaceInBranch
    <2>3. ~(s + j <= l.rollout)
      BY <1>3, <2>1, <2>2
    <2>4. TokenAt(l, s + j) = <<"probe", j>>
      BY <2>2, <2>3 DEF TokenAt
    <2> DEFINE q == a + j - 1
               w == s + j
    <2>5. /\ q \in 1..(a + P) /\ ~(q <= a) /\ s + (q - a) = w - 1
      BY <1>2, <1>3, <2>1, <2>2, SMTT(30)
    <2> HIDE DEF q, w
    <2>6. PackedAt(l, b)[q] = s + (q - a)
      BY <1>2, <2>5 DEF PackedAt
    <2>7. h[PackedAt(l, b)[q]] = g[q]
      BY <1>1, <1>2, <2>5, BranchStates
    <2>8. h[w - 1] = g[q]
      BY <2>5, <2>6, <2>7
    <2>9. Predicted(h, TokenAt(l, w), w) = <<g[q], <<"probe", j>>>>
      BY <2>4, <2>8 DEF Predicted, w
    <2> QED BY <2>9 DEF q, w
  <1>5. AloneScore(a) = {<<g[a + j - 1], <<"probe", j>>>> : j \in AnswerTokens(rollout.probe)}
    BY AnswersAreScored DEF AloneScore
  <1> HIDE DEF h, g, s, a, P
  <1>6. {Predicted(h, TokenAt(l, s + j), s + j) : j \in AnswerTokens(rollout.probe)} = AloneScore(a)
    BY <1>4, <1>5
  <1> QED BY <1>2, <1>6 DEF h, s

\* What the actor has computed so far is what passes of their own give.
NumbersInv ==
    /\ stage \in {"scored", "weighted"} =>
          scores = [b \in DOMAIN layout.prefixes |-> AloneScore(rollout.prompt + Before(rollout.ends, b))]
    /\ RolloutIsUndisturbed
    /\ stage = "weighted" =>
          signal = [i \in 1..rollout.response |->
                      [kind |-> IF rollout.correct THEN "reward" ELSE "teacher", gate |-> GateOf(i)]]

LEMMA StepNumbers == PipelineInv /\ NumbersInv /\ [ProbeNext]_probeVars => NumbersInv'
  <1> SUFFICES ASSUME PipelineInv, NumbersInv, [ProbeNext]_probeVars PROVE NumbersInv'
    OBVIOUS
  <1>1. CASE Attach \/ Pack
    <2>1. stage' \in {"attached", "packed", "raised"}
      BY <1>1 DEF Attach, Pack
    <2> QED BY <2>1 DEF NumbersInv, RolloutIsUndisturbed
  <1>2. CASE Score
    <2> DEFINE l == layout
               h == Hidden(PackedInputs(l), PackedVisible(l))
               n == rollout.prompt + rollout.response
    <2>1. /\ stage' = "scored" /\ rollout' = rollout /\ layout' = layout
          /\ scores' = [b \in DOMAIN layout.prefixes |->
                {Predicted(h, TokenAt(layout, StartOf(layout, b) + j), StartOf(layout, b) + j) : j \in meta.answers}]
          /\ logProbs' = [i \in 1..rollout.response |->
                Predicted(h, <<"rollout", rollout.prompt + i>>, rollout.prompt + i)]
      BY <1>2 DEF Score, PackedInputs, PackedVisible
    <2>2. /\ rollout \in Rollouts /\ meta = MetaOf(rollout)
          /\ l = Layout(rollout.prompt, rollout.response, MetaOf(rollout))
      BY <1>2 DEF Score, PipelineInv, Packed
    <2>3. IsLayout(l) /\ l.rollout = n
      BY <2>2, LayoutOfRollout, PrefixesOf
    <2>4. scores' = [b \in DOMAIN layout.prefixes |-> AloneScore(rollout.prompt + Before(rollout.ends, b))]
      <3>1. ASSUME NEW b \in DOMAIN l.prefixes
            PROVE  {Predicted(h, TokenAt(l, StartOf(l, b) + j), StartOf(l, b) + j) : j \in meta.answers}
                    = AloneScore(rollout.prompt + Before(rollout.ends, b))
        <4>1. meta.answers = AnswerTokens(rollout.probe)
          BY <2>2, PrefixesOf
        <4> HIDE DEF l
        <4> QED BY <2>2, <4>1, ScoreOfBranch
      <3> HIDE DEF h
      <3> QED BY <2>1, <3>1
    <2>5. RolloutIsUndisturbed'
      <3> DEFINE g == Alone(n, 0)
      <3>1. ASSUME NEW i \in 1..rollout.response
            PROVE  Predicted(h, <<"rollout", rollout.prompt + i>>, rollout.prompt + i)
                    = <<g[rollout.prompt + i - 1], <<"rollout", rollout.prompt + i>>>>
        <4>1. rollout.prompt + i - 1 \in 1..n
          BY <2>2, RolloutFacts
        <4>2. h[rollout.prompt + i - 1] = g[rollout.prompt + i - 1]
          BY <2>3, <4>1, RolloutStates
        <4> DEFINE q == rollout.prompt + i
                   k == rollout.prompt + i - 1
        <4>3. q - 1 = k
          BY <2>2, RolloutFacts
        <4> HIDE DEF h, g, q, k
        <4>4. Predicted(h, <<"rollout", q>>, q) = <<h[k], <<"rollout", q>>>>
          BY <4>3 DEF Predicted
        <4>5. h[k] = g[k]
          BY <4>2 DEF k
        <4> QED BY <4>4, <4>5 DEF q, k
      <3> HIDE DEF h, g
      <3>2. logProbs' = [i \in 1..rollout.response |->
                          <<g[rollout.prompt + i - 1], <<"rollout", rollout.prompt + i>>>>]
        BY <2>1, <3>1
      <3> QED BY <2>1, <3>2 DEF RolloutIsUndisturbed, g
    <2>6. (AloneScore(rollout.prompt + Before(rollout.ends, 1)))' = AloneScore(rollout.prompt + Before(rollout.ends, 1))
      BY <2>1 DEF AloneScore
    <2> QED BY <2>1, <2>4, <2>5 DEF NumbersInv, AloneScore
  <1>3. CASE Weigh
    BY <1>3 DEF Weigh, NumbersInv, RolloutIsUndisturbed, AloneScore, GateOf
  <1>4. CASE UNCHANGED probeVars
    <2>1. UNCHANGED <<rollout, stage, meta, layout, scores, logProbs, signal>>
      BY <1>4 DEF probeVars
    <2>2. \A b : (AloneScore(rollout.prompt + Before(rollout.ends, b)))'
                  = AloneScore(rollout.prompt + Before(rollout.ends, b))
      BY <2>1 DEF AloneScore
    <2>3. \A i : GateOf(i)' = GateOf(i)
      BY <2>1 DEF GateOf
    <2>4. RolloutIsUndisturbed'
      BY <2>1 DEF NumbersInv, RolloutIsUndisturbed
    <2> QED BY <2>1, <2>2, <2>3, <2>4 DEF NumbersInv
  <1> QED BY <1>1, <1>2, <1>3, <1>4 DEF ProbeNext

LEMMA NumbersInvariant == ProbeSpec => []NumbersInv
  <1>1. ProbeInit => NumbersInv
    BY DEF ProbeInit, NumbersInv, RolloutIsUndisturbed
  <1> QED BY <1>1, StepNumbers, PipelineInvariant, PTL DEF ProbeSpec

\* For every rollout, probe and number of layers: what the packed pass computes for a
\* branch is what a forward pass over its prefix and the probe alone computes, and what
\* it computes for the rollout is what a pass without probes does.
THEOREM PackingChangesNothing == ProbeSpec => []PackingIsTransparent
  <1>1. NumbersInv => PackingIsTransparent
    BY DEF NumbersInv, PackingIsTransparent, ProbeIsSeparateForward
  <1> QED BY <1>1, NumbersInvariant, PTL

-----------------------------------------------------------------------------
\* Gates.

\* Two different things are two.
LEMMA PairIsTwo ==
    ASSUME NEW a, NEW b, a # b
    PROVE  IsFiniteSet({a, b}) /\ Cardinality({a, b}) = 2
  <1>1. IsFiniteSet({a}) /\ Cardinality({a}) = 1
    BY FS_Singleton
  <1>2. {a} \union {b} = {a, b}
    OBVIOUS
  <1>3. b \notin {a}
    OBVIOUS
  <1>4. IsFiniteSet({a} \union {b}) /\ Cardinality({a} \union {b}) = Cardinality({a}) + 1
    BY <1>1, <1>3, FS_AddElement
  <1> QED BY <1>1, <1>2, <1>4

Later(ends, i) == {e \in Range(ends) : e >= i}
Earlier(ends, i) == {0} \union {e \in Range(ends) : e < i}
Owner(ends, i) == {k \in 1..(Len(ends) - 1) : Before(ends, k) < i /\ i <= ends[k]}

\* The step a token is in, if it is in one but the last, is the only one, and the
\* nearest ends around the token are its own.
LEMMA OwnStep ==
    ASSUME NEW r \in Rollouts, NEW i \in 1..r.response, NEW k \in Owner(r.ends, i)
    PROVE  /\ Max(Owner(r.ends, i)) = k
           /\ Min(Later(r.ends, i)) = r.ends[k]
           /\ Max(Earlier(r.ends, i)) = Before(r.ends, k)
           /\ ~(Cardinality(Later(r.ends, i)) <= 1)
           /\ k \in DOMAIN r.ends /\ k + 1 \in DOMAIN r.ends
  <1> DEFINE ends == r.ends
             L == Len(ends)
  <1>1. /\ L \in Nat /\ DOMAIN ends = 1..L /\ r.response \in Nat
        /\ \A m \in 1..L : ends[m] \in Nat \ {0} /\ ends[m] <= r.response
        /\ \A m, n \in 1..L : m < n => ends[m] < ends[n]
    <2>1. r.response \in Nat /\ ends \in Seq(Nat) /\ \A m \in DOMAIN ends : ends[m] <= r.response
      BY RolloutFacts
    <2>2. /\ \A m \in DOMAIN ends : ends[m] \in Nat \ {0}
          /\ \A m, n \in DOMAIN ends : m < n => ends[m] < ends[n]
      BY EndsIncrease
    <2>3. L \in Nat /\ DOMAIN ends = 1..L
      BY <2>1
    <2> QED BY <2>1, <2>2, <2>3
  <1>2. Range(ends) = {ends[m] : m \in 1..L}
    BY <1>1 DEF Range
  <1> HIDE DEF ends, L
  <1>3. k \in 1..(L - 1) /\ Before(ends, k) < i /\ i <= ends[k]
    BY DEF Owner, ends, L
  <1>4. k \in 1..L /\ k + 1 \in 1..L /\ k \in Nat /\ i \in Nat
    BY <1>1, <1>3
  <1>5. \A m \in 1..L : m < k => ends[m] < i /\ ends[m] <= Before(ends, k)
    <2> TAKE m \in 1..L
    <2> SUFFICES ASSUME m < k PROVE ends[m] < i /\ ends[m] <= Before(ends, k)
      OBVIOUS
    <2>1. k # 1 /\ k - 1 \in 1..L /\ (m < k - 1 \/ m = k - 1)
      BY <1>1, <1>4
    <2>2. ends[m] <= ends[k - 1] /\ ends[m] \in Nat /\ ends[k - 1] \in Nat
      BY <1>1, <2>1
    <2>3. Before(ends, k) = ends[k - 1]
      BY <2>1 DEF Before
    <2> QED BY <1>3, <1>4, <2>2, <2>3
  <1>6. \A m \in 1..L : m >= k => ends[k] <= ends[m] /\ i <= ends[m]
    <2> TAKE m \in 1..L
    <2> SUFFICES ASSUME m >= k PROVE ends[k] <= ends[m] /\ i <= ends[m]
      OBVIOUS
    <2>1. m = k \/ k < m
      BY <1>4
    <2>2. ends[k] <= ends[m] /\ ends[k] \in Nat /\ ends[m] \in Nat
      BY <1>1, <1>4, <2>1
    <2> QED BY <1>3, <1>4, <2>2
  <1>7. Max(Owner(ends, i)) = k
    <2>1. \A n \in Owner(ends, i) : n = k
      <3> TAKE n \in Owner(ends, i)
      <3>1. n \in 1..(L - 1) /\ Before(ends, n) < i /\ i <= ends[n]
        BY DEF Owner, L
      <3>2. n \in 1..L /\ n \in Nat
        BY <1>1, <3>1
      <3>3. ~(n < k)
        BY <1>1, <1>4, <1>5, <3>1, <3>2
      <3>4. ~(k < n)
        <4> SUFFICES ASSUME k < n PROVE FALSE
          OBVIOUS
        <4>1. n # 1 /\ n - 1 \in 1..L /\ n - 1 >= k
          BY <1>1, <1>4, <3>2
        <4>2. i <= ends[n - 1] /\ ends[n - 1] \in Nat
          BY <1>1, <1>6, <4>1
        <4>3. Before(ends, n) = ends[n - 1]
          BY <4>1 DEF Before
        <4> QED BY <1>4, <3>1, <4>2, <4>3
      <3> QED BY <1>4, <3>2, <3>3, <3>4
    <2>2. Owner(ends, i) = {k}
      BY <2>1 DEF ends
    <2>3. \E x \in {k} : \A y \in {k} : x >= y
      BY <1>4
    <2> QED BY <2>2, <2>3 DEF Max
  <1>8. Min(Later(ends, i)) = ends[k]
    <2>1. ends[k] \in Later(ends, i)
      BY <1>2, <1>3, <1>4 DEF Later
    <2>2. \A e \in Later(ends, i) : e \in Nat /\ ends[k] <= e
      <3> TAKE e \in Later(ends, i)
      <3>1. PICK m \in 1..L : e = ends[m] /\ ends[m] >= i
        BY <1>2 DEF Later
      <3>2. ~(m < k)
        BY <1>1, <1>4, <1>5, <3>1
      <3> QED BY <1>1, <1>4, <1>6, <3>1, <3>2
    <2>3. \A x \in Later(ends, i) : (\A y \in Later(ends, i) : x <= y) => x = ends[k]
      BY <2>1, <2>2
    <2> QED BY <2>1, <2>2, <2>3 DEF Min
  <1>9. Max(Earlier(ends, i)) = Before(ends, k)
    <2>1. Before(ends, k) \in Nat
      BY <1>1, <1>4 DEF Before
    <2>2. Before(ends, k) \in Earlier(ends, i)
      BY <1>1, <1>2, <1>3, <1>4 DEF Before, Earlier
    <2>3. \A e \in Earlier(ends, i) : e \in Nat /\ Before(ends, k) >= e
      <3> TAKE e \in Earlier(ends, i)
      <3>1. CASE e = 0
        BY <2>1, <3>1
      <3>2. CASE e # 0
        <4>1. PICK m \in 1..L : e = ends[m] /\ ends[m] < i
          BY <1>2, <3>2 DEF Earlier
        <4>2. ~(m >= k)
          BY <1>1, <1>4, <1>6, <4>1
        <4> QED BY <1>1, <1>4, <1>5, <2>1, <4>1, <4>2
      <3> QED BY <3>1, <3>2
    <2>4. \A x \in Earlier(ends, i) : (\A y \in Earlier(ends, i) : x >= y) => x = Before(ends, k)
      BY <2>1, <2>2, <2>3
    <2> QED BY <2>2, <2>3, <2>4 DEF Max
  <1>10. ~(Cardinality(Later(ends, i)) <= 1)
    <2>1. ends[k] # ends[k + 1]
      <3>1. k < k + 1
        BY <1>4
      <3> QED BY <1>1, <1>4, <3>1
    <2>2. {ends[k], ends[k + 1]} \subseteq Later(ends, i)
      BY <1>2, <1>4, <1>6 DEF Later
    <2>3. Later(ends, i) \subseteq 0..r.response
      BY <1>1, <1>2 DEF Later
    <2>4. IsFiniteSet(Later(ends, i))
      <3>1. 0 \in Int /\ r.response \in Int
        BY <1>1
      <3>2. IsFiniteSet(0..r.response)
        BY <3>1, FS_Interval
      <3> QED BY <2>3, <3>2, FS_Subset
    <2>5. Cardinality({ends[k], ends[k + 1]}) <= Cardinality(Later(ends, i))
      BY <2>2, <2>4, FS_Subset
    <2>6. Cardinality({ends[k], ends[k + 1]}) = 2 /\ Cardinality(Later(ends, i)) \in Nat
      BY <2>1, <2>4, PairIsTwo, FS_CardinalityType
    <2> QED BY <2>5, <2>6
  <1> QED BY <1>1, <1>4, <1>7, <1>8, <1>9, <1>10 DEF ends

\* A token in no step but the last has at most one end after it.
LEMMA NoStep ==
    ASSUME NEW r \in Rollouts, NEW i \in 1..r.response, Owner(r.ends, i) = {}
    PROVE  Cardinality(Later(r.ends, i)) <= 1
  <1> DEFINE ends == r.ends
             L == Len(ends)
             S == {m \in 1..(L - 1) : i <= ends[m]}
  <1>1. /\ L \in Nat /\ DOMAIN ends = 1..L /\ r.response \in Nat
        /\ \A m \in 1..L : ends[m] \in Nat \ {0} /\ ends[m] <= r.response
    BY RolloutFacts, EndsIncrease
  <1>2. Range(ends) = {ends[m] : m \in 1..L}
    BY <1>1 DEF Range
  <1>3. i \in Nat /\ 1 <= i
    BY <1>1
  <1> HIDE DEF ends, L
  <1>4. S = {}
    <2> SUFFICES ASSUME S # {} PROVE FALSE
      OBVIOUS
    <2>1. S \in SUBSET Nat
      BY <1>1
    <2>2. PICK k \in S : \A m \in S : k <= m
      <3> HIDE DEF S
      <3> QED BY <2>1, LeastOne
    <2>3. k \in 1..(L - 1) /\ i <= ends[k]
      BY <2>2
    <2>4. Before(ends, k) < i
      <3>1. CASE k = 1
        BY <1>3, <3>1 DEF Before
      <3>2. CASE k # 1
        <4>1. k - 1 \in 1..(L - 1) /\ ~(k <= k - 1) /\ k - 1 \in 1..L
          BY <1>1, <2>3, <3>2
        <4>2. ~(i <= ends[k - 1])
          BY <2>2, <4>1
        <4> QED BY <1>1, <1>3, <3>2, <4>1, <4>2 DEF Before
      <3> QED BY <3>1, <3>2
    <2>5. k \in Owner(ends, i)
      BY <2>3, <2>4 DEF Owner, L
    <2> QED BY <2>5 DEF ends
  <1>5. Later(ends, i) \subseteq {ends[L]}
    <2> SUFFICES ASSUME NEW e \in Later(ends, i) PROVE e = ends[L]
      OBVIOUS
    <2>1. PICK m \in 1..L : e = ends[m] /\ ends[m] >= i
      BY <1>2 DEF Later
    <2>2. m \notin 1..(L - 1)
      BY <1>1, <1>3, <1>4, <2>1
    <2>3. m = L
      BY <1>1, <2>2
    <2> QED BY <2>1, <2>3
  <1>6. IsFiniteSet({ends[L]}) /\ Cardinality({ends[L]}) = 1
    BY FS_Singleton
  <1>7. IsFiniteSet(Later(ends, i)) /\ Cardinality(Later(ends, i)) <= Cardinality({ends[L]})
    BY <1>5, <1>6, FS_Subset
  <1> QED BY <1>6, <1>7, FS_CardinalityType DEF ends

\* For every number of steps and every probe: each token of a step but the last is
\* weighed by the passes at the two ends of its own step, and no other token is.
THEOREM GatesAreOfOwnStep == ProbeSpec => []GatesCompareOwnStep
  <1>1. PipelineInv /\ NumbersInv => GatesCompareOwnStep
    <2> SUFFICES ASSUME PipelineInv, NumbersInv, stage = "weighted", NEW i \in 1..rollout.response
                 PROVE  signal[i].gate =
                            IF Cardinality(Later(rollout.ends, i)) <= 1 THEN <<>>
                            ELSE <<AloneScore(rollout.prompt + Min(Later(rollout.ends, i))),
                                   AloneScore(rollout.prompt + Max(Earlier(rollout.ends, i)))>>
      BY DEF GatesCompareOwnStep, Later, Earlier
    <2> DEFINE ends == rollout.ends
    <2>1. /\ rollout \in Rollouts /\ meta = MetaOf(rollout) /\ meta.ends = ends
          /\ layout = Layout(rollout.prompt, rollout.response, MetaOf(rollout))
      <3>1. rollout \in Rollouts /\ meta = MetaOf(rollout)
        BY DEF PipelineInv, Packed
      <3>2. layout = Layout(rollout.prompt, rollout.response, meta)
        BY DEF PipelineInv, Packed
      <3>3. meta.ends = ends
        BY <3>1 DEF MetaOf
      <3> QED BY <3>1, <3>2, <3>3
    <2>2. signal[i].gate = GateOf(i)
      BY DEF NumbersInv
    <2>3. CASE Owner(ends, i) = {}
      <3>1. GateOf(i) = <<>>
        BY <2>1, <2>3 DEF GateOf, Owner
      <3> QED BY <2>1, <2>2, <2>3, <3>1, NoStep
    <2>4. CASE Owner(ends, i) # {}
      <3>1. PICK k : k \in Owner(ends, i)
        BY <2>4
      <3>2. /\ Max(Owner(ends, i)) = k /\ Min(Later(ends, i)) = ends[k]
            /\ Max(Earlier(ends, i)) = Before(ends, k)
            /\ ~(Cardinality(Later(ends, i)) <= 1)
            /\ k \in DOMAIN ends /\ k + 1 \in DOMAIN ends
        BY <2>1, <3>1, OwnStep
      <3>3. GateOf(i) = <<scores[k + 1], scores[k]>>
        BY <2>1, <2>4, <3>2 DEF GateOf, Owner
      <3>4. k \in Nat \ {0} /\ ~(Len(ends) < 2)
        BY <2>1, <3>1, RolloutFacts DEF Owner
      <3>5. k \in DOMAIN layout.prefixes /\ k + 1 \in DOMAIN layout.prefixes
        BY <2>1, <3>2, <3>4, PrefixesOf
      <3>6. /\ scores[k] = AloneScore(rollout.prompt + Before(ends, k))
            /\ scores[k + 1] = AloneScore(rollout.prompt + Before(ends, k + 1))
        BY <3>5 DEF NumbersInv
      <3>7. Before(ends, k + 1) = ends[k]
        BY <3>4 DEF Before
      <3> QED BY <2>2, <3>2, <3>3, <3>6, <3>7
    <2> QED BY <2>3, <2>4
  <1> QED BY <1>1, PipelineInvariant, NumbersInvariant, PTL

\* A token attends to no two copies of a token: that a layer gathers a set of states
\* rather than a bag loses nothing.
LEMMA VisibleTokensDiffer ==
    ASSUME NEW l, IsLayout(l), NEW q \in 1..LengthOf(l),
           NEW i \in VisibleTo(l, q), NEW k \in VisibleTo(l, q), TokenAt(l, i) = TokenAt(l, k)
    PROVE  i = k
  <1>1. l.rollout \in Nat /\ q \in Nat
    BY DEF IsLayout
  <1>2. CASE q <= l.rollout
    <2>1. VisibleTo(l, q) = 1..q
      BY <1>2 DEF VisibleTo
    <2>2. i <= l.rollout /\ k <= l.rollout
      BY <1>1, <1>2, <2>1
    <2> QED BY <2>2 DEF TokenAt
  <1>3. CASE q > l.rollout
    <2> DEFINE b == BranchOf(l, q)
               start == StartOf(l, b)
    <2>1. b \in DOMAIN l.prefixes /\ start \in Nat
      BY <1>3, BranchHolds
    <2>2. l.prefixes[b] \in Nat /\ l.prefixes[b] <= l.rollout
      BY <2>1 DEF IsLayout
    <2>3. VisibleTo(l, q) = (1..l.prefixes[b]) \union ((start + 1)..q)
      BY <1>1, <1>3 DEF VisibleTo
    <2>4. \A p \in VisibleTo(l, q) :
            \/ p \in Nat /\ TokenAt(l, p) = <<"rollout", p>>
            \/ p \in Nat /\ TokenAt(l, p) = <<"probe", p - start>>
      <3> TAKE p \in VisibleTo(l, q)
      <3>1. CASE p \in 1..l.prefixes[b]
        BY <1>1, <2>2, <3>1 DEF TokenAt
      <3>2. CASE p \in (start + 1)..q
        <4>1. p > l.rollout /\ BranchOf(l, p) = b
          BY <1>3, <3>2, SameBranch
        <4>2. p \in Nat /\ ~(p <= l.rollout)
          BY <1>1, <2>1, <3>2, <4>1
        <4>3. PlaceOf(l, p) = p - start
          BY <4>1 DEF PlaceOf
        <4> QED BY <4>2, <4>3 DEF TokenAt
      <3> QED BY <2>3, <3>1, <3>2
    <2> HIDE DEF start
    <2>5. \A p \in VisibleTo(l, q) :
            /\ p \in Nat
            /\ \/ TokenAt(l, p)[1] = "rollout" /\ TokenAt(l, p)[2] = p
               \/ TokenAt(l, p)[1] = "probe" /\ TokenAt(l, p)[2] = p - start
      BY <2>4
    <2>6. "rollout" # "probe"
      OBVIOUS
    <2> QED BY <2>1, <2>5, <2>6 DEF start
  <1> QED BY <1>1, <1>2, <1>3

-----------------------------------------------------------------------------
\* What Balance makes.

Row == RowType \cup {Padding}

RowLens == [i \in DOMAIN rows |-> rows[i].len]

Plan == Partitions(Workloads(RowLens), DP, TRUE)

\* A batch is cut into pieces of whole mini-batches.
IsPiece(B) == B \in Nat \ {0} /\ Len(rows) = DP * B /\ \E m \in Nat \ {0} : B = MiniSize * m

Dispatched == rows \in Seq(Row) /\ keys = FlattenSeq(Plan) /\ \E B \in Nat : IsPiece(B)

LEMMA RowLengths == \A row \in Row : row.len \in 1..Limit /\ row.len \in Nat \ {0}
  BY ActorUpdateAssumption DEF Row, RowType, Padding

LEMMA RowLensAre ==
    ASSUME rows \in Seq(Row)
    PROVE  /\ RowLens \in [1..Len(rows) -> Nat \ {0}] /\ DOMAIN rows = 1..Len(rows) /\ Len(rows) \in Nat
           /\ \A i \in 1..Len(rows) : RowLens[i] = rows[i].len /\ rows[i] \in Row
  <1>1. DOMAIN rows = 1..Len(rows) /\ Len(rows) \in Nat /\ \A i \in 1..Len(rows) : rows[i] \in Row
    OBVIOUS
  <1>2. \A i \in 1..Len(rows) : rows[i].len \in Nat \ {0}
    BY <1>1, RowLengths
  <1> QED BY <1>1, <1>2 DEF RowLens

\* The plan for pieces.
LEMMA PlanIs ==
    ASSUME rows \in Seq(Row), NEW B \in Nat, IsPiece(B)
    PROVE  /\ IsDivision(Plan, DP, Len(rows))
           /\ \A r \in Ranks : Len(Plan[r]) = B
           /\ Accepted(Plan, Len(rows), TRUE)
  <1> DEFINE n == Len(rows)
  <1>1. DP \in Nat \ {0} /\ B \in Nat \ {0} /\ n \in Nat /\ n = DP * B /\ RowLens \in [1..n -> Nat \ {0}]
    BY ActorUpdateAssumption, RowLensAre DEF IsPiece
  <1> HIDE DEF n
  <1>2. /\ IsDivision(Partitions(Workloads(RowLens), DP, TRUE), DP, n)
        /\ \A i \in 1..DP : Len(Partitions(Workloads(RowLens), DP, TRUE)[i]) = B
        /\ Accepted(Partitions(Workloads(RowLens), DP, TRUE), n, TRUE)
    BY ONLY <1>1, SplitDivides
  <1> QED BY <1>2 DEF Plan, Ranks, n

LEMMA DispatchFacts ==
    ASSUME Dispatched
    PROVE  /\ \A r \in Ranks : Rows(r) = Plan[r]
           /\ IsDivision(Plan, DP, Len(rows))
           /\ Len(keys) = Len(rows) /\ keys \in Seq(1..Len(rows))
           /\ Len(keys) \div DP \in Nat \ {0}
           /\ Len(rows) = DP * (Len(keys) \div DP)
           /\ \A r \in Ranks : Len(Rows(r)) = Len(keys) \div DP /\ Rows(r) \in Seq(1..Len(rows))
           /\ MiniBatches \in Nat \ {0} /\ Len(keys) \div DP = MiniSize * MiniBatches
  <1> DEFINE n == Len(rows)
             T == 1..n
  <1>1. PICK B \in Nat : IsPiece(B)
    BY DEF Dispatched
  <1>2. rows \in Seq(Row) /\ keys = FlattenSeq(Plan)
    BY DEF Dispatched
  <1>3. IsDivision(Plan, DP, n) /\ \A r \in Ranks : Len(Plan[r]) = B
    BY <1>1, <1>2, PlanIs
  <1>4. Plan \in [1..DP -> Seq(T)]
    BY <1>3 DEF IsDivision
  <1>5. DP \in Nat \ {0} /\ B \in Nat \ {0} /\ n = DP * B /\ n \in Nat /\ MiniSize \in Nat \ {0}
    BY <1>1, <1>2, ActorUpdateAssumption DEF IsPiece
  <1> HIDE DEF T, n
  <1>6. /\ FlattenSeq(Plan) \in Seq(T) /\ Len(FlattenSeq(Plan)) = DP * B
        /\ \A r \in 1..DP : SubSeq(FlattenSeq(Plan), B * (r - 1) + 1, B * r) = Plan[r]
    <2>1. DP \in Nat \ {0} /\ B \in Nat \ {0} /\ Plan \in [1..DP -> Seq(T)] /\ \A i \in 1..DP : Len(Plan[i]) = B
      BY <1>3, <1>4, <1>5 DEF Ranks
    <2> QED BY ONLY <2>1, EvenPieces
  <1>7. Len(keys) = n /\ keys \in Seq(T) /\ Len(keys) \div DP = B
    <2>1. (DP * B) \div DP = B
      BY <1>5, Multiples
    <2> QED BY <1>2, <1>5, <1>6, <2>1
  <1>8. \A r \in Ranks : Rows(r) = Plan[r]
    <2> TAKE r \in Ranks
    <2>1. Rows(r) = SubSeq(keys, B * (r - 1) + 1, B * r)
      BY <1>7 DEF Rows
    <2> QED BY <1>2, <1>6, <2>1 DEF Ranks
  <1>9. \A r \in Ranks : Len(Rows(r)) = B /\ Rows(r) \in Seq(T)
    BY <1>3, <1>4, <1>8 DEF Ranks
  <1>10. MiniBatches \in Nat \ {0} /\ B = MiniSize * MiniBatches
    <2>1. PICK m \in Nat \ {0} : B = MiniSize * m
      BY <1>1 DEF IsPiece
    <2>2. (MiniSize * m) \div MiniSize = m
      BY <1>5, Multiples
    <2>3. 1 \in Ranks
      BY <1>5 DEF Ranks
    <2>4. MiniBatches = m
      BY <1>9, <2>1, <2>2, <2>3 DEF MiniBatches
    <2> QED BY <2>1, <2>4
  <1> QED BY <1>3, <1>5, <1>7, <1>8, <1>9, <1>10 DEF n, T

-----------------------------------------------------------------------------
\* What the ranks have at hand in the scoring pass and in each mini-batch.

HandIn(r, b) == IF phase = "scoring" THEN Rows(r) ELSE MiniBatch(r, b)

HandLens == [b \in 0..MiniBatches |-> [r \in Ranks |->
               [i \in DOMAIN HandIn(r, b) |-> rows[HandIn(r, b)[i]].len]]]

Size == IF phase = "scoring" THEN Len(keys) \div DP ELSE MiniSize

AreLens(lens, n) == lens \in [Ranks -> [1..n -> 1..Limit]]

LEMMA SizeIs ==
    ASSUME Dispatched, phase \in {"scoring", "updating"}
    PROVE  Size \in Nat \ {0} /\ Size \div MicroSize \in Nat \ {0}
  <1>1. PICK m \in Nat \ {0} : Size = MiniSize * m
    <2>1. CASE phase = "scoring"
      BY <2>1, DispatchFacts DEF Size
    <2>2. CASE phase = "updating"
      <3>1. MiniSize = MiniSize * 1
        BY ActorUpdateAssumption
      <3> QED BY <2>2, <3>1 DEF Size
    <2> QED BY <2>1, <2>2
  <1>2. MiniSize \in Nat \ {0} /\ MicroSize \in Nat \ {0} /\ MiniSize % MicroSize = 0
    BY ActorUpdateAssumption
  <1>3. MiniSize >= MicroSize
    BY <1>2
  <1>4. Size \in Nat /\ Size >= MiniSize
    BY <1>1, <1>2, Multiples
  <1>5. \A x \in Nat : x >= MicroSize => x \div MicroSize \in Nat /\ x \div MicroSize >= 1
    BY <1>2
  <1>6. Size \div MicroSize \in Nat /\ Size \div MicroSize >= 1
    BY <1>2, <1>3, <1>4, <1>5
  <1> QED BY <1>2, <1>3, <1>4, <1>6

LEMMA Hands ==
    ASSUME Dispatched, phase \in {"scoring", "updating"},
           NEW b \in 0..MiniBatches, phase = "updating" => b # 0
    PROVE  /\ AreLens(HandLens[b], Size)
           /\ \A r \in Ranks : HandIn(r, b) \in Seq(1..Len(rows)) /\ Len(HandIn(r, b)) = Size
           /\ \A r \in Ranks : HandLens[b][r] = [i \in DOMAIN HandIn(r, b) |-> rows[HandIn(r, b)[i]].len]
  <1> DEFINE n == Len(rows)
             T == 1..n
  <1>1. ASSUME NEW r \in Ranks PROVE HandIn(r, b) \in Seq(T) /\ Len(HandIn(r, b)) = Size
    <2>1. CASE phase = "scoring"
      BY <2>1, DispatchFacts DEF HandIn, Size
    <2>2. CASE phase = "updating"
      <3>1. MiniSize \in Nat \ {0} /\ MiniBatches \in Nat /\ Rows(r) \in Seq(T) /\ Len(Rows(r)) = MiniSize * MiniBatches
        BY DispatchFacts, ActorUpdateAssumption
      <3>2. b \in 1..MiniBatches
        BY <2>2, <3>1
      <3> HIDE DEF T
      <3>3. MiniBatch(r, b) \in Seq(T) /\ Len(MiniBatch(r, b)) = MiniSize
        BY <3>1, <3>2, PieceOf DEF MiniBatch
      <3> QED BY <2>2, <3>3 DEF HandIn, Size
    <2> QED BY <2>1, <2>2
  <1>2. \A r \in Ranks : HandLens[b][r] = [i \in DOMAIN HandIn(r, b) |-> rows[HandIn(r, b)[i]].len]
    BY DEF HandLens
  <1>3. ASSUME NEW r \in Ranks PROVE HandLens[b][r] \in [1..Size -> 1..Limit]
    <2> DEFINE h == HandIn(r, b)
    <2>1. h \in Seq(T) /\ Len(h) = Size
      BY <1>1
    <2>2. HandLens[b][r] = [i \in DOMAIN h |-> rows[h[i]].len]
      BY <1>2
    <2>3. \A i \in T : rows[i].len \in 1..Limit
      <3>1. rows \in Seq(Row)
        BY DEF Dispatched
      <3>2. \A i \in T : rows[i] \in Row
        BY <3>1
      <3> QED BY <3>2, RowLengths
    <2> HIDE DEF h, T
    <2>4. DOMAIN h = 1..Size /\ \A i \in 1..Size : h[i] \in T
      BY <2>1
    <2> QED BY <2>2, <2>3, <2>4
  <1>4. HandLens[b] = [r \in Ranks |-> HandLens[b][r]]
    BY DEF HandLens
  <1> HIDE DEF T
  <1>5. AreLens(HandLens[b], Size)
    <2> DEFINE L == HandLens[b]
    <2>1. L = [r \in Ranks |-> L[r]] /\ \A r \in Ranks : L[r] \in [1..Size -> 1..Limit]
      BY <1>3, <1>4
    <2> HIDE DEF L
    <2>2. AreLens(L, Size)
      BY <2>1 DEF AreLens
    <2> QED BY <2>2 DEF L
  <1> QED BY <1>1, <1>2, <1>5 DEF T

-----------------------------------------------------------------------------
\* The number of micro-batches the search settles on.

KeepsAll(lens, k) ==
    \A s \in Ranks : \A i \in DOMAIN MicroBatches(lens[s], k) :
        PartSum(MicroBatches(lens[s], k)[i], lens[s]) <= Limit

Least(lens) == Max({FirstCount(lens[s], Limit) : s \in Ranks})

Settled(lens, n) ==
    CHOOSE k \in 1..n : /\ Least(lens) <= k /\ KeepsAll(lens, k)
                        /\ \A m \in 1..n : Least(lens) <= m /\ KeepsAll(lens, m) => k <= m

LEMMA LeastIs ==
    ASSUME NEW n \in Nat \ {0}, NEW lens, AreLens(lens, n)
    PROVE  Least(lens) \in 1..n /\ Max({FirstCount(lens[s], Limit) : s \in Ranks}) = Least(lens)
  <1> DEFINE S == {FirstCount(lens[s], Limit) : s \in Ranks}
  <1>1. Limit \in Nat \ {0} /\ 1 \in Ranks
    BY ActorUpdateAssumption DEF Ranks
  <1>2. \A s \in Ranks : FirstCount(lens[s], Limit) \in 1..n
    <2> TAKE s \in Ranks
    <2>1. lens[s] \in [1..n -> 1..Limit]
      BY DEF AreLens
    <2>2. lens[s] \in [1..n -> Nat \ {0}]
      BY <1>1, <2>1
    <2> QED BY <1>1, <2>2, FirstCountIs
  <1>3. S \in SUBSET (1..n) /\ S # {}
    BY <1>1, <1>2
  <1> HIDE DEF S
  <1>4. S \in SUBSET Nat /\ \A x \in S : x <= n
    BY <1>3
  <1>5. Max(S) \in S
    BY <1>3, <1>4, MaxIs
  <1> QED BY <1>3, <1>5 DEF Least, S

LEMMA SettledIs ==
    ASSUME NEW n \in Nat \ {0}, NEW lens, AreLens(lens, n)
    PROVE  /\ Settled(lens, n) \in 1..n /\ Least(lens) <= Settled(lens, n)
           /\ KeepsAll(lens, Settled(lens, n))
           /\ \A m \in 1..n : Least(lens) <= m /\ KeepsAll(lens, m) => Settled(lens, n) <= m
  <1> DEFINE K == {k \in 1..n : Least(lens) <= k /\ KeepsAll(lens, k)}
  <1>1. Least(lens) \in 1..n
    BY LeastIs
  <1>2. Limit \in Nat
    BY ActorUpdateAssumption
  <1>3. KeepsAll(lens, n)
    <2>1. ASSUME NEW s \in Ranks
          PROVE  \A i \in DOMAIN MicroBatches(lens[s], n) : PartSum(MicroBatches(lens[s], n)[i], lens[s]) <= Limit
      <3>1. lens[s] \in [1..n -> 1..Limit]
        BY DEF AreLens
      <3>2. lens[s] \in [1..n -> Nat \ {0}] /\ \A i \in 1..n : lens[s][i] <= Limit
        BY <1>2, <3>1
      <3> QED BY <1>2, <3>2, MostKeepLimit
    <2> QED BY <2>1 DEF KeepsAll
  <1>4. n \in K
    BY <1>1, <1>3
  <1>5. PICK k \in K : \A m \in K : k <= m
    <2>1. K \in SUBSET Nat /\ K # {}
      BY <1>4
    <2> HIDE DEF K
    <2> QED BY <2>1, LeastOne
  <1>6. \E x \in 1..n : /\ Least(lens) <= x /\ KeepsAll(lens, x)
                        /\ \A m \in 1..n : Least(lens) <= m /\ KeepsAll(lens, m) => x <= m
    BY <1>5
  <1> QED BY <1>6 DEF Settled

LEMMA UpsampledIs ==
    ASSUME NEW b \in Batches
    PROVE  Upsampled(b) \in Seq(Row) /\ \E m \in Nat \ {0} : Len(Upsampled(b)) = DP * (MiniSize * m)
  <1>1. b \in Seq(RowType) /\ b # <<>> /\ DP \in Nat \ {0} /\ MiniSize \in Nat \ {0}
    BY ActorUpdateAssumption
  <1> DEFINE M == Multiple
             m == CeilDiv(Len(b), M)
             more == m * M - Len(b)
             pad == [i \in 1..more |-> Padding]
  <1>2. M \in Nat \ {0} /\ M = DP * MiniSize
    BY <1>1, Multiples DEF Multiple
  <1>3. Len(b) \in Nat \ {0}
    BY <1>1
  <1>4. m \in Nat \ {0} /\ m * M \in Nat /\ m * M >= Len(b)
    BY <1>2, <1>3, CeilDivCovers
  <1>5. m * M = DP * (MiniSize * m)
    BY <1>1, <1>2, <1>4
  <1> HIDE DEF m, M
  <1>6. more \in Nat /\ Len(b) + more = m * M
    BY <1>3, <1>4
  <1>7. b \in Seq(Row)
    BY <1>1 DEF Row
  <1> HIDE DEF more
  <1>8. Padding \in Row
    BY DEF Row
  <1>9. pad \in Seq(Row) /\ Len(pad) = more
    BY <1>6, <1>8
  <1> HIDE DEF pad
  <1>10. b \o pad \in Seq(Row) /\ Len(b \o pad) = m * M
    BY <1>6, <1>7, <1>9
  <1>11. Upsampled(b) = b \o pad
    BY DEF Upsampled, pad, more, m, M
  <1> QED BY <1>4, <1>5, <1>10, <1>11

-----------------------------------------------------------------------------
\* Where the ranks are.

Searching == {"constraints", "search", "within"}

InForward == {"forward", "micro", "micro_sync"}

InBranches == {"prepare", "count"} \cup Searching \cup InForward \cup {"norm", "measured"}

\* The number of micro-batches of a mini-batch, the same on all ranks.
Number(b) == IF conf.dynamic THEN Settled(HandLens[b], Size) ELSE Size \div MicroSize

\* A sequence of n elements.
Counted(s, n) == \E S : s \in Seq(S) /\ Len(s) = n

\* The places of a rank in each phase.
IsPlaced(r) ==
    /\ batch[r] \in Nat
    /\ phase = "scoring" =>
          batch[r] = 0 /\ pc[r] \in ({"num_tokens", "prepare", "count", "forward", "micro", "metrics", "returned"} \cup Searching)
    /\ phase = "updating" =>
          /\ pc[r] \in ({"next", "num_tokens", "clip", "step", "metrics", "done"} \cup InBranches)
          /\ batch[r] \in 0..MiniBatches
          /\ pc[r] # "next" => batch[r] # 0

IsBranched(r) ==
    /\ branch[r] \in {"total", "correct", "error"}
    /\ phase = "scoring" \/ pc[r] \notin InBranches => branch[r] = "total"
    /\ pc[r] \in {"norm", "measured"} => branch[r] # "total"
    /\ branch[r] = "error" => saved[r].outputs = Number(batch[r])

\* What a rank knows of its micro-batches.
IsCounted(r) ==
    /\ pc[r] \in {"count"} \cup Searching => conf.dynamic /\ reports[r] = <<>>
    /\ pc[r] = "count" => count[r] = FirstCount(Lens(r), Limit)
    /\ pc[r] \in Searching => count[r] \in Least(HandLens[batch[r]])..Number(batch[r])
    /\ pc[r] = "within" => parts[r] = MicroBatches(Lens(r), count[r])
    /\ pc[r] \in InForward => count[r] = Number(batch[r]) /\ micro[r] \in 1..(count[r] + 1)
    /\ pc[r] \in {"micro", "micro_sync"} => micro[r] <= count[r]
    /\ pc[r] \in InForward /\ phase = "updating" => Counted(reports[r], micro[r] - 1)
    /\ pc[r] \in {"norm", "measured"} => Counted(reports[r], Number(batch[r]))

RankOk(r) == IsPlaced(r) /\ IsBranched(r) /\ IsCounted(r)

Ahead(p, b, br, k, m) == [at |-> p, batch |-> b, branch |-> br, number |-> k, micro |-> m]

\* The kind of a micro-batch.
Kind(m, n) == IF phase = "scoring" THEN "micro" ELSE SyncKind(m, n)

Prepared(b, br) ==
    IF conf.dynamic THEN Ahead("count", b, br, 0, 0) ELSE Ahead(Kind(1, Size \div MicroSize), b, br, 0, 1)

\* The collective a rank comes to next, and what it brings.
View(r) ==
    LET p == pc[r] b == batch[r] br == branch[r] IN
    CASE p \in {"constraints", "within"} -> Ahead(p, b, br, count[r], 0)
      [] p = "search" -> Ahead("within", b, br, count[r], 0)
      [] p \in {"micro", "micro_sync"} -> Ahead(p, b, br, 0, micro[r])
      [] p = "forward" -> IF micro[r] > count[r] THEN Ahead(AfterForward(r), b, br, 0, 0)
                          ELSE Ahead(Kind(micro[r], count[r]), b, br, 0, micro[r])
      [] p = "prepare" -> Prepared(b, br)
      [] p = "measured" -> IF br = "correct" THEN Prepared(b, "error") ELSE Ahead("clip", b, "total", 0, 0)
      [] p = "step" -> Ahead("metrics", b, br, 0, 0)
      [] p = "next" -> IF b < MiniBatches THEN Ahead("num_tokens", b + 1, br, 0, 0) ELSE Ahead("done", b, br, 0, 0)
      [] OTHER -> Ahead(p, b, br, 0, 0)

Indexed ==
    /\ DOMAIN pc = Ranks /\ DOMAIN batch = Ranks /\ DOMAIN branch = Ranks /\ DOMAIN count = Ranks
    /\ DOMAIN parts = Ranks /\ DOMAIN micro = Ranks /\ DOMAIN saved = Ranks /\ DOMAIN reports = Ranks

TrainerOk ==
    /\ phase \in {"sampled", "scoring", "updating"} /\ failures \in Nat
    /\ phase = "sampled" => rows \in Batches /\ \A r \in Ranks : pc[r] = "idle" /\ batch[r] = 0 /\ branch[r] = "total"
    /\ phase # "sampled" => Dispatched

RanksOk ==
    /\ \A r \in Ranks : pc[r] = "raised" => failures > 0
    /\ phase # "sampled" => \A r \in Ranks : pc[r] # "raised" => RankOk(r)

SameView == \A r, s \in Ranks : pc[r] # "raised" /\ pc[s] # "raised" => View(r) = View(s)

Control == Indexed /\ TrainerOk /\ RanksOk /\ SameView

\* A step of the ranks leaves what they have at hand.
LEMMA SameHands ==
    ASSUME UNCHANGED trainer
    PROVE  /\ conf' = conf /\ phase' = phase /\ rows' = rows /\ keys' = keys
           /\ MiniBatches' = MiniBatches /\ Size' = Size /\ HandLens' = HandLens
           /\ \A b : Number(b)' = Number(b)
           /\ Dispatched' = Dispatched
  <1>1. conf' = conf /\ phase' = phase /\ rows' = rows /\ keys' = keys
    BY DEF trainer
  <1>2. MiniBatches' = MiniBatches /\ Size' = Size
    BY <1>1 DEF MiniBatches, Rows, Size
  <1>3. HandLens' = HandLens
    BY <1>1, <1>2 DEF HandLens, HandIn, MiniBatch, Rows
  <1>4. \A b : Number(b)' = Number(b)
    BY <1>1, <1>2, <1>3 DEF Number
  <1>5. Dispatched' = Dispatched
    BY <1>1 DEF Dispatched, Plan, RowLens, IsPiece
  <1> QED BY <1>1, <1>2, <1>3, <1>4, <1>5

\* What a rank at a mini-batch has at hand.
LEMMA AtHandIs ==
    ASSUME Dispatched, phase \in {"scoring", "updating"}, NEW r \in Ranks, IsPlaced(r), pc[r] # "next"
    PROVE  /\ batch[r] \in 0..MiniBatches
           /\ Size \in Nat \ {0} /\ AreLens(HandLens[batch[r]], Size)
           /\ Lens(r) = HandLens[batch[r]][r] /\ Len(AtHand(r)) = Size
           /\ AtHand(r) \in Seq(1..Len(rows))
           /\ Number(batch[r]) \in Nat \ {0}
           /\ conf.dynamic => Number(batch[r]) \in Least(HandLens[batch[r]])..Size
           /\ Least(HandLens[batch[r]]) \in Nat \ {0}
  <1>1. MiniBatches \in Nat
    BY DispatchFacts
  <1>2. batch[r] \in 0..MiniBatches /\ (phase = "updating" => batch[r] # 0) /\ (phase = "scoring" => batch[r] = 0)
    BY <1>1 DEF IsPlaced
  <1> DEFINE b == batch[r]
  <1>3. /\ AreLens(HandLens[b], Size)
        /\ \A s \in Ranks : HandIn(s, b) \in Seq(1..Len(rows)) /\ Len(HandIn(s, b)) = Size
        /\ \A s \in Ranks : HandLens[b][s] = [i \in DOMAIN HandIn(s, b) |-> rows[HandIn(s, b)[i]].len]
    BY <1>2, Hands
  <1>4. AtHand(r) = HandIn(r, b)
    BY DEF AtHand, HandIn
  <1>5. Lens(r) = HandLens[b][r]
    BY <1>3, <1>4 DEF Lens
  <1>6. Size \in Nat \ {0} /\ Size \div MicroSize \in Nat \ {0}
    BY SizeIs
  <1>7. Least(HandLens[b]) \in 1..Size
    BY <1>3, <1>6, LeastIs
  <1>8. Settled(HandLens[b], Size) \in 1..Size /\ Least(HandLens[b]) <= Settled(HandLens[b], Size)
    BY <1>3, <1>6, SettledIs
  <1> QED BY <1>2, <1>3, <1>4, <1>5, <1>6, <1>7, <1>8 DEF Number

\* What a rank at another place leaves of this one.
Untouched(r) ==
    /\ pc'[r] = pc[r] /\ batch'[r] = batch[r] /\ branch'[r] = branch[r] /\ count'[r] = count[r]
    /\ parts'[r] = parts[r] /\ micro'[r] = micro[r] /\ saved'[r] = saved[r] /\ reports'[r] = reports[r]

LEMMA ViewIsFixed ==
    ASSUME UNCHANGED trainer, NEW r \in Ranks, Untouched(r)
    PROVE  View(r)' = View(r)
  <1>1. conf' = conf /\ phase' = phase /\ MiniBatches' = MiniBatches /\ Size' = Size
    BY SameHands
  <1>2. \A m, n : Kind(m, n)' = Kind(m, n)
    BY <1>1 DEF Kind, SyncKind
  <1>3. \A b, br : Prepared(b, br)' = Prepared(b, br)
    BY <1>1, <1>2 DEF Prepared, Ahead
  <1>4. AfterForward(r)' = AfterForward(r)
    BY <1>1 DEF AfterForward, Untouched
  <1> QED BY <1>1, <1>2, <1>3, <1>4 DEF View, Untouched, Ahead

LEMMA LensAreFixed ==
    ASSUME UNCHANGED trainer, NEW r \in Ranks, batch'[r] = batch[r]
    PROVE  Lens(r)' = Lens(r) /\ AtHand(r)' = AtHand(r)
  <1>1. phase' = phase /\ rows' = rows /\ keys' = keys
    BY SameHands
  <1> QED BY <1>1 DEF Lens, AtHand, MiniBatch, Rows

LEMMA RankIsFixed ==
    ASSUME UNCHANGED trainer, NEW r \in Ranks, Untouched(r), RankOk(r)
    PROVE  RankOk(r)'
  <1>1. /\ conf' = conf /\ phase' = phase /\ MiniBatches' = MiniBatches /\ HandLens' = HandLens
        /\ \A b : Number(b)' = Number(b)
    BY SameHands
  <1>2. Lens(r)' = Lens(r)
    BY LensAreFixed DEF Untouched
  <1>3. IsPlaced(r)'
    BY <1>1 DEF IsPlaced, RankOk, Untouched
  <1>4. IsBranched(r)'
    BY <1>1 DEF IsBranched, RankOk, Untouched
  <1>5. IsCounted(r)'
    BY <1>1, <1>2 DEF IsCounted, RankOk, Untouched
  <1> QED BY <1>3, <1>4, <1>5 DEF RankOk

\* A step of one rank.
LEMMA LocalStep ==
    ASSUME Control, UNCHANGED trainer, phase # "sampled", NEW r \in Ranks,
           Indexed', \A s \in Ranks : s # r => Untouched(s),
           failures' \in Nat, failures' >= failures,
           pc[r] # "raised",
           pc'[r] = "raised" => failures' > 0,
           pc'[r] # "raised" => RankOk(r)' /\ View(r)' = View(r)
    PROVE  Control'
  <1>1. phase' = phase /\ Dispatched' = Dispatched
    BY SameHands
  <1>2. TrainerOk'
    BY <1>1 DEF Control, TrainerOk
  <1>3. RanksOk'
    <2>1. ASSUME NEW s \in Ranks, pc'[s] = "raised" PROVE failures' > 0
      <3>1. CASE s = r
        BY <2>1, <3>1
      <3>2. CASE s # r
        <4>1. failures > 0
          BY <2>1, <3>2 DEF Control, RanksOk, Untouched
        <4> QED BY <4>1 DEF Control, TrainerOk
      <3> QED BY <3>1, <3>2
    <2>2. ASSUME NEW s \in Ranks, pc'[s] # "raised" PROVE RankOk(s)'
      <3>1. CASE s = r
        BY <2>2, <3>1
      <3>2. CASE s # r
        <4>1. Untouched(s) /\ RankOk(s)
          BY <2>2, <3>2 DEF Control, RanksOk, Untouched
        <4> QED BY <4>1, RankIsFixed
      <3> QED BY <3>1, <3>2
    <2> QED BY <2>1, <2>2 DEF RanksOk
  <1>4. ASSUME NEW s \in Ranks, pc'[s] # "raised" PROVE View(s)' = View(s) /\ pc[s] # "raised"
    <2>1. CASE s = r
      BY <1>4, <2>1
    <2>2. CASE s # r
      <3>1. Untouched(s)
        BY <2>2
      <3>2. View(s)' = View(s)
        BY <3>1, ViewIsFixed
      <3> QED BY <1>4, <3>1, <3>2 DEF Untouched
    <2> QED BY <2>1, <2>2
  <1>5. SameView'
    BY <1>4 DEF Control, SameView
  <1> QED BY <1>2, <1>3, <1>5 DEF Control

\* A rank that takes a step has not raised, and the batch is with the ranks.
LEMMA AtWork ==
    ASSUME Control, NEW r \in Ranks, pc[r] # "idle", pc[r] # "raised"
    PROVE  /\ phase \in {"scoring", "updating"} /\ phase # "sampled"
           /\ Dispatched /\ IsPlaced(r) /\ IsBranched(r) /\ IsCounted(r)
           /\ MiniBatches \in Nat \ {0} /\ failures \in Nat
  <1>1. phase \in {"scoring", "updating"} /\ phase # "sampled" /\ Dispatched /\ RankOk(r) /\ failures \in Nat
    BY DEF Control, TrainerOk, RanksOk
  <1>2. MiniBatches \in Nat \ {0}
    BY <1>1, DispatchFacts
  <1> QED BY <1>1, <1>2 DEF RankOk

LEMMA NextMiniBatchMatches ==
    ASSUME Control, NEW r \in Ranks, NextMiniBatch(r)
    PROVE  Control'
  <1>1. pc[r] = "next" /\ batch[r] < MiniBatches /\ UNCHANGED trainer
    BY DEF NextMiniBatch
  <1>2. /\ phase \in {"scoring", "updating"} /\ phase # "sampled" /\ Dispatched
        /\ IsPlaced(r) /\ IsBranched(r) /\ IsCounted(r) /\ MiniBatches \in Nat \ {0} /\ failures \in Nat
    BY <1>1, AtWork
  <1>3. /\ conf' = conf /\ phase' = phase /\ MiniBatches' = MiniBatches /\ Size' = Size
    BY <1>1, SameHands
  <1>4. phase = "updating" /\ batch[r] \in Nat /\ branch[r] = "total"
    BY <1>1, <1>2 DEF IsPlaced, IsBranched, InBranches, Searching, InForward
  <1>5. pc'[r] = "num_tokens" /\ batch'[r] = batch[r] + 1 /\ branch'[r] = branch[r]
    BY DEF NextMiniBatch, Control, Indexed
  <1>6. RankOk(r)'
    <2>1. IsPlaced(r)'
      BY <1>1, <1>2, <1>3, <1>4, <1>5 DEF IsPlaced
    <2>2. IsBranched(r)'
      BY <1>4, <1>5 DEF IsBranched
    <2>3. IsCounted(r)'
      BY <1>5 DEF IsCounted, Searching, InForward
    <2> QED BY <2>1, <2>2, <2>3 DEF RankOk
  <1>7. View(r)' = View(r)
    BY <1>1, <1>3, <1>4, <1>5 DEF View, Ahead
  <1>8. Indexed' /\ \A s \in Ranks : s # r => Untouched(s)
    BY DEF NextMiniBatch, Control, Indexed, Untouched, search
  <1>9. failures' = failures
    BY DEF NextMiniBatch
  <1> QED BY <1>1, <1>2, <1>5, <1>6, <1>7, <1>8, <1>9, LocalStep

LEMMA FinishMatches ==
    ASSUME Control, NEW r \in Ranks, Finish(r)
    PROVE  Control'
  <1>1. pc[r] = "next" /\ batch[r] = MiniBatches /\ UNCHANGED trainer /\ failures' = failures
    BY DEF Finish
  <1>2. /\ phase \in {"scoring", "updating"} /\ phase # "sampled" /\ Dispatched
        /\ IsPlaced(r) /\ IsBranched(r) /\ IsCounted(r) /\ MiniBatches \in Nat \ {0} /\ failures \in Nat
    BY <1>1, AtWork
  <1>3. /\ conf' = conf /\ phase' = phase /\ MiniBatches' = MiniBatches /\ Size' = Size
    BY <1>1, SameHands
  <1>4. phase = "updating" /\ batch[r] \in Nat /\ branch[r] = "total"
    BY <1>1, <1>2 DEF IsPlaced, IsBranched, InBranches, Searching, InForward
  <1>5. pc'[r] = "done" /\ batch'[r] = batch[r] /\ branch'[r] = branch[r]
    BY DEF Finish, Control, Indexed
  <1>6. RankOk(r)'
    <2>1. IsPlaced(r)'
      BY <1>1, <1>2, <1>3, <1>4, <1>5 DEF IsPlaced
    <2>2. IsBranched(r)'
      BY <1>4, <1>5 DEF IsBranched
    <2>3. IsCounted(r)'
      BY <1>5 DEF IsCounted, Searching, InForward
    <2> QED BY <2>1, <2>2, <2>3 DEF RankOk
  <1>7. View(r)' = View(r)
    BY <1>1, <1>2, <1>3, <1>4, <1>5 DEF View, Ahead
  <1>8. Indexed' /\ \A s \in Ranks : s # r => Untouched(s)
    BY DEF Finish, Control, Indexed, Untouched, search, gradients, metrics
  <1> QED BY <1>1, <1>2, <1>5, <1>6, <1>7, <1>8, LocalStep

LEMMA NothingCounted == Counted(<<>>, 0)
  <1>1. <<>> \in Seq({}) /\ Len(<<>>) = 0
    OBVIOUS
  <1> QED BY <1>1 DEF Counted

LEMMA OneMoreCounted ==
    ASSUME NEW s, NEW n \in Nat, Counted(s, n), NEW e
    PROVE  Counted(Append(s, e), n + 1)
  <1>1. PICK S : s \in Seq(S) /\ Len(s) = n
    BY DEF Counted
  <1> DEFINE T == S \cup {e}
  <1>2. s \in Seq(T) /\ e \in T
    BY <1>1
  <1> HIDE DEF T
  <1>3. Append(s, e) \in Seq(T) /\ Len(Append(s, e)) = n + 1
    BY <1>1, <1>2
  <1> QED BY <1>3 DEF Counted

LEMMA CountedLen ==
    ASSUME NEW s, NEW n, Counted(s, n)
    PROVE  Len(s) = n
  BY DEF Counted

LEMMA PrepareMatches ==
    ASSUME Control, NEW r \in Ranks, Prepare(r)
    PROVE  Control'
  <1>1. pc[r] = "prepare" /\ UNCHANGED trainer /\ failures' = failures
    BY DEF Prepare
  <1>2. /\ phase \in {"scoring", "updating"} /\ phase # "sampled" /\ Dispatched
        /\ IsPlaced(r) /\ IsBranched(r) /\ IsCounted(r) /\ MiniBatches \in Nat \ {0} /\ failures \in Nat
    BY <1>1, AtWork
  <1>3. /\ conf' = conf /\ phase' = phase /\ MiniBatches' = MiniBatches /\ Size' = Size
        /\ \A b : Number(b)' = Number(b)
    BY <1>1, SameHands
  <1>4. Indexed' /\ \A s \in Ranks : s # r => Untouched(s)
    BY DEF Prepare, Control, Indexed, Untouched, search
  <1>5. /\ batch'[r] = batch[r] /\ branch'[r] = branch[r] /\ saved'[r] = saved[r] /\ reports'[r] = <<>>
        /\ batch' = batch
    BY DEF Prepare, Control, Indexed
  <1>6. Lens(r)' = Lens(r)
    BY <1>1, <1>5, LensAreFixed
  <1>7. Size \in Nat \ {0} /\ Len(AtHand(r)) = Size /\ Size \div MicroSize \in Nat \ {0}
    BY <1>1, <1>2, AtHandIs, SizeIs
  <1>8. pc'[r] \in {"count", "forward"}
    BY DEF Prepare, Control, Indexed
  <1>9. IsPlaced(r)' /\ IsBranched(r)'
    <2>1. IsPlaced(r)'
      BY <1>1, <1>2, <1>3, <1>5, <1>8 DEF IsPlaced, InBranches, InForward
    <2>2. IsBranched(r)'
      BY <1>1, <1>2, <1>3, <1>5, <1>8 DEF IsBranched, InBranches, InForward
    <2> QED BY <2>1, <2>2
  <1>10. IsCounted(r)' /\ View(r)' = View(r)
    <2>1. CASE conf.dynamic
      <3>1. pc'[r] = "count" /\ count'[r] = FirstCount(Lens(r), Limit)
        BY <2>1 DEF Prepare, Control, Indexed
      <3>2. IsCounted(r)'
        BY <1>3, <1>5, <1>6, <2>1, <3>1 DEF IsCounted, Searching, InForward
      <3>3. View(r)' = View(r)
        BY <1>1, <1>5, <2>1, <3>1 DEF View, Prepared, Ahead
      <3> QED BY <3>2, <3>3
    <2>2. CASE ~conf.dynamic
      <3> DEFINE k == Size \div MicroSize
      <3>1. /\ pc'[r] = "forward" /\ micro'[r] = 1
            /\ parts'[r] = Chunks(Len(AtHand(r))) /\ count'[r] = Len(parts'[r])
        BY <2>2 DEF Prepare, Control, Indexed
      <3>2. Len(Chunks(Size)) = k
        BY <1>7 DEF Chunks
      <3>3. count'[r] = k
        BY <1>7, <3>1, <3>2
      <3>4. Number(batch[r]) = k
        BY <2>2 DEF Number
      <3>5. IsCounted(r)'
        <4>1. 1 \in 1..(k + 1) /\ Counted(<<>>, 1 - 1)
          BY <1>7, NothingCounted
        <4> HIDE DEF k
        <4> QED BY <1>3, <1>5, <3>1, <3>3, <3>4, <4>1 DEF IsCounted, Searching, InForward
      <3>6. View(r)' = View(r)
        <4>1. Kind(1, k)' = Kind(1, k)
          BY <1>3 DEF Kind, SyncKind
        <4>2. ~ 1 > k
          BY <1>7
        <4>3. View(r) = Ahead(Kind(1, k), batch[r], branch[r], 0, 1)
          BY <1>1, <2>2 DEF View, Prepared
        <4>4. Kind(micro[r], count[r])' = Kind(1, k)
          BY <1>3, <3>1, <3>3 DEF Kind, SyncKind
        <4> HIDE DEF k
        <4>5. View(r)' = Ahead(Kind(micro[r], count[r])', batch[r], branch[r], 0, 1)
          BY <1>5, <3>1, <3>3, <4>2 DEF View, Ahead
        <4> QED BY <4>3, <4>4, <4>5
      <3> QED BY <3>5, <3>6
    <2> QED BY <2>1, <2>2
  <1>11. RankOk(r)'
    BY <1>9, <1>10 DEF RankOk
  <1>12. pc[r] # "raised" /\ pc'[r] # "raised" /\ failures' \in Nat /\ failures' >= failures
    BY <1>1, <1>2, <1>8
  <1> QED BY <1>1, <1>2, <1>4, <1>10, <1>11, <1>12, LocalStep

LEMMA SearchMatches ==
    ASSUME Control, NEW r \in Ranks, Search(r)
    PROVE  Control'
  <1>1. pc[r] = "search" /\ UNCHANGED trainer /\ failures' = failures
    BY DEF Search
  <1>2. /\ phase \in {"scoring", "updating"} /\ phase # "sampled" /\ Dispatched
        /\ IsPlaced(r) /\ IsBranched(r) /\ IsCounted(r) /\ MiniBatches \in Nat \ {0} /\ failures \in Nat
    BY <1>1, AtWork
  <1>3. /\ conf' = conf /\ phase' = phase /\ MiniBatches' = MiniBatches /\ Size' = Size
        /\ \A b : Number(b)' = Number(b)
        /\ HandLens' = HandLens
    BY <1>1, SameHands
  <1>4. Indexed' /\ \A s \in Ranks : s # r => Untouched(s)
    BY DEF Search, Control, Indexed, Untouched, gradients, metrics
  <1>5. /\ batch'[r] = batch[r] /\ branch'[r] = branch[r] /\ saved'[r] = saved[r] /\ reports'[r] = reports[r]
        /\ count'[r] = count[r]
    BY DEF Search, gradients, metrics
  <1>6. Lens(r)' = Lens(r)
    BY <1>1, <1>5, LensAreFixed
  <1>7. conf.dynamic /\ reports[r] = <<>> /\ count[r] \in Least(HandLens[batch[r]])..Number(batch[r])
    BY <1>1, <1>2 DEF IsCounted, Searching
  <1>8. /\ Size \in Nat \ {0} /\ Len(AtHand(r)) = Size /\ Lens(r) \in [1..Size -> Nat \ {0}]
        /\ count[r] \in 1..Size
    <2>1. /\ Size \in Nat \ {0} /\ AreLens(HandLens[batch[r]], Size)
          /\ Lens(r) = HandLens[batch[r]][r] /\ Len(AtHand(r)) = Size
          /\ Number(batch[r]) \in Least(HandLens[batch[r]])..Size
          /\ Least(HandLens[batch[r]]) \in Nat \ {0}
      BY <1>1, <1>2, <1>7, AtHandIs
    <2>2. Limit \in Nat
      BY ActorUpdateAssumption
    <2>3. Lens(r) \in [1..Size -> 1..Limit]
      BY <2>1 DEF AreLens
    <2>4. Lens(r) \in [1..Size -> Nat \ {0}]
      BY <2>2, <2>3
    <2>5. Least(HandLens[batch[r]]) \in Nat /\ Number(batch[r]) \in Nat
      BY <2>1
    <2>6. count[r] \in 1..Size
      BY <1>7, <2>1, <2>5
    <2> QED BY <2>1, <2>4, <2>6
  <1>9. Accepted(MicroBatches(Lens(r), count[r]), Size, FALSE)
    BY <1>8, MicroBatchesDivide
  <1>10. pc'[r] = "within" /\ parts'[r] = MicroBatches(Lens(r), count[r])
    <2>1. ~ count[r] > Len(AtHand(r))
      BY <1>8
    <2>2. /\ parts' = [parts EXCEPT ![r] = MicroBatches(Lens(r), count[r])]
          /\ pc' = [pc EXCEPT ![r] = IF Accepted(parts'[r], Len(AtHand(r)), FALSE) THEN "within" ELSE "raised"]
      BY <2>1 DEF Search
    <2>3. parts'[r] = MicroBatches(Lens(r), count[r])
      BY <2>2 DEF Control, Indexed
    <2>4. Accepted(parts'[r], Len(AtHand(r)), FALSE)
      BY <1>8, <1>9, <2>3
    <2> QED BY <2>2, <2>3, <2>4 DEF Control, Indexed
  <1>11. RankOk(r)'
    <2>1. IsPlaced(r)'
      BY <1>1, <1>2, <1>3, <1>5, <1>10 DEF IsPlaced, InBranches, Searching
    <2>2. IsBranched(r)'
      BY <1>1, <1>2, <1>3, <1>5, <1>10 DEF IsBranched, InBranches, Searching
    <2>3. IsCounted(r)'
      BY <1>3, <1>5, <1>6, <1>7, <1>10 DEF IsCounted, Searching, InForward
    <2> QED BY <2>1, <2>2, <2>3 DEF RankOk
  <1>12. View(r)' = View(r)
    BY <1>1, <1>5, <1>10 DEF View, Ahead
  <1> QED BY <1>1, <1>2, <1>4, <1>10, <1>11, <1>12, LocalStep

LEMMA ForwardMatches ==
    ASSUME Control, NEW r \in Ranks, Forward(r)
    PROVE  Control'
  <1>1. pc[r] = "forward" /\ UNCHANGED trainer /\ failures' = failures
    BY DEF Forward
  <1>2. /\ phase \in {"scoring", "updating"} /\ phase # "sampled" /\ Dispatched
        /\ IsPlaced(r) /\ IsBranched(r) /\ IsCounted(r) /\ MiniBatches \in Nat \ {0} /\ failures \in Nat
    BY <1>1, AtWork
  <1>3. /\ conf' = conf /\ phase' = phase /\ MiniBatches' = MiniBatches /\ Size' = Size
        /\ \A b : Number(b)' = Number(b)
        /\ HandLens' = HandLens
    BY <1>1, SameHands
  <1>4. Indexed' /\ \A s \in Ranks : s # r => Untouched(s)
    BY DEF Forward, Control, Indexed, Untouched, gradients, metrics, search
  <1>5. /\ batch'[r] = batch[r] /\ branch'[r] = branch[r] /\ saved'[r] = saved[r] /\ reports'[r] = reports[r]
        /\ count'[r] = count[r] /\ parts'[r] = parts[r] /\ micro'[r] = micro[r]
    BY DEF Forward, gradients, metrics, search
  <1>6. pc'[r] = IF micro[r] > count[r] THEN AfterForward(r) ELSE Kind(micro[r], count[r])
    BY DEF Forward, Control, Indexed, Kind
  <1>7. /\ count[r] = Number(batch[r]) /\ micro[r] \in 1..(count[r] + 1)
        /\ phase = "updating" => Counted(reports[r], micro[r] - 1)
    BY <1>1, <1>2 DEF IsCounted, InForward
  <1>8. Number(batch[r]) \in Nat \ {0}
    BY <1>1, <1>2, AtHandIs
  <1>9. CASE micro[r] > count[r]
    <2>1. pc'[r] = AfterForward(r) /\ micro[r] - 1 = count[r]
      BY <1>6, <1>7, <1>8, <1>9
    <2>2. pc'[r] \in {"metrics", "clip", "norm"} /\ (phase = "scoring" <=> pc'[r] = "metrics")
          /\ (pc'[r] = "norm" <=> phase = "updating" /\ branch[r] # "total")
      BY <1>2, <2>1 DEF AfterForward
    <2>3. IsPlaced(r)'
      BY <1>1, <1>2, <1>3, <1>5, <2>2 DEF IsPlaced, InBranches
    <2>4. IsBranched(r)'
      BY <1>1, <1>2, <1>3, <1>5, <2>2 DEF IsBranched, InBranches, InForward, Searching
    <2>5. IsCounted(r)'
      BY <1>2, <1>3, <1>5, <1>7, <2>1, <2>2 DEF IsCounted, Searching, InForward
    <2>6. View(r)' = View(r)
      <3>1. View(r)' = Ahead(pc'[r], batch[r], branch[r], 0, 0)
        BY <1>5, <2>2 DEF View, Ahead
      <3>2. View(r) = Ahead(AfterForward(r), batch[r], branch[r], 0, 0)
        BY <1>1, <1>9 DEF View
      <3> QED BY <2>1, <3>1, <3>2
    <2> QED BY <1>1, <1>2, <1>4, <2>2, <2>3, <2>4, <2>5, <2>6, LocalStep DEF RankOk
  <1>10. CASE ~ micro[r] > count[r]
    <2>1. pc'[r] = Kind(micro[r], count[r])
      BY <1>6, <1>10
    <2>2. pc'[r] \in {"micro", "micro_sync"} /\ (phase = "scoring" => pc'[r] = "micro")
      BY <2>1 DEF Kind, SyncKind
    <2>3. IsPlaced(r)'
      BY <1>1, <1>2, <1>3, <1>5, <2>2 DEF IsPlaced, InBranches, InForward
    <2>4. IsBranched(r)'
      BY <1>1, <1>2, <1>3, <1>5, <2>2 DEF IsBranched, InBranches, InForward
    <2>5. IsCounted(r)'
      BY <1>2, <1>3, <1>5, <1>7, <1>8, <1>10, <2>2 DEF IsCounted, Searching, InForward
    <2>6. View(r)' = View(r)
      <3>1. View(r)' = Ahead(pc'[r], batch[r], branch[r], 0, micro[r])
        BY <1>5, <2>2 DEF View, Ahead
      <3>2. View(r) = Ahead(Kind(micro[r], count[r]), batch[r], branch[r], 0, micro[r])
        BY <1>1, <1>10 DEF View
      <3> QED BY <2>1, <3>1, <3>2
    <2> QED BY <1>1, <1>2, <1>4, <2>2, <2>3, <2>4, <2>5, <2>6, LocalStep DEF RankOk
  <1> QED BY <1>9, <1>10

LEMMA RaiseMatches ==
    ASSUME Control, NEW r \in Ranks, Raise(r)
    PROVE  Control'
  <1>1. pc[r] = "forward" /\ UNCHANGED trainer /\ failures' = failures + 1
    BY DEF Raise
  <1>2. phase # "sampled" /\ failures \in Nat
    BY <1>1, AtWork
  <1>3. pc'[r] = "raised"
    BY DEF Raise, Control, Indexed
  <1>4. Indexed' /\ \A s \in Ranks : s # r => Untouched(s)
    BY DEF Raise, Control, Indexed, Untouched, gradients, metrics, search
  <1>5. failures' \in Nat /\ failures' >= failures /\ failures' > 0 /\ pc[r] # "raised"
    BY <1>1, <1>2
  <1> QED BY <1>1, <1>2, <1>3, <1>4, <1>5, LocalStep

LEMMA MeasuredMatches ==
    ASSUME Control, NEW r \in Ranks, Measured(r)
    PROVE  Control'
  <1>1. pc[r] = "measured" /\ UNCHANGED trainer /\ failures' = failures
    BY DEF Measured
  <1>2. /\ phase \in {"scoring", "updating"} /\ phase # "sampled" /\ Dispatched
        /\ IsPlaced(r) /\ IsBranched(r) /\ IsCounted(r) /\ MiniBatches \in Nat \ {0} /\ failures \in Nat
    BY <1>1, AtWork
  <1>3. /\ conf' = conf /\ phase' = phase /\ MiniBatches' = MiniBatches /\ Size' = Size
        /\ \A b : Number(b)' = Number(b)
        /\ HandLens' = HandLens
    BY <1>1, SameHands
  <1>4. Indexed' /\ \A s \in Ranks : s # r => Untouched(s)
    BY DEF Measured, Control, Indexed, Untouched, metrics, search
  <1>5. batch'[r] = batch[r] /\ reports'[r] = reports[r]
    BY DEF Measured, metrics
  <1>6. phase = "updating" /\ branch[r] \in {"correct", "error"}
    BY <1>1, <1>2 DEF IsBranched, IsPlaced, Searching
  <1>7. Counted(reports[r], Number(batch[r])) /\ Len(reports[r]) = Number(batch[r])
    BY <1>1, <1>2, CountedLen DEF IsCounted
  <1>8. CASE branch[r] = "correct"
    <2>1. pc'[r] = "prepare" /\ branch'[r] = "error" /\ saved'[r].outputs = Number(batch[r])
      BY <1>7, <1>8 DEF Measured, Control, Indexed
    <2>2. IsPlaced(r)'
      BY <1>1, <1>2, <1>3, <1>5, <1>6, <2>1 DEF IsPlaced, InBranches
    <2>3. IsBranched(r)'
      BY <1>3, <1>5, <1>6, <2>1 DEF IsBranched, InBranches
    <2>4. IsCounted(r)'
      BY <2>1 DEF IsCounted, Searching, InForward
    <2>5. View(r)' = View(r)
      <3>1. View(r) = Prepared(batch[r], "error")
        BY <1>1, <1>8 DEF View
      <3>2. View(r)' = Prepared(batch[r], "error")'
        BY <1>5, <2>1 DEF View, Prepared, Ahead
      <3>3. Prepared(batch[r], "error")' = Prepared(batch[r], "error")
        BY <1>3, <1>5 DEF Prepared, Kind, SyncKind, Ahead
      <3> QED BY <3>1, <3>2, <3>3
    <2> QED BY <1>1, <1>2, <1>4, <2>1, <2>2, <2>3, <2>4, <2>5, LocalStep DEF RankOk
  <1>9. CASE branch[r] = "error"
    <2>1. saved[r].outputs = Len(reports[r])
      BY <1>2, <1>7, <1>9 DEF IsBranched
    <2>2. pc'[r] = "clip" /\ branch'[r] = "total"
      BY <1>9, <2>1 DEF Measured, Control, Indexed
    <2>3. IsPlaced(r)'
      BY <1>1, <1>2, <1>3, <1>5, <1>6, <2>2 DEF IsPlaced
    <2>4. IsBranched(r)'
      BY <2>2 DEF IsBranched
    <2>5. IsCounted(r)'
      BY <2>2 DEF IsCounted, Searching, InForward
    <2>6. View(r)' = View(r)
      BY <1>1, <1>5, <1>9, <2>2 DEF View, Ahead
    <2> QED BY <1>1, <1>2, <1>4, <2>2, <2>3, <2>4, <2>5, <2>6, LocalStep DEF RankOk
  <1> QED BY <1>6, <1>8, <1>9

LEMMA StepMatches ==
    ASSUME Control, NEW r \in Ranks, Step(r)
    PROVE  Control'
  <1>1. pc[r] = "step" /\ UNCHANGED trainer /\ failures' = failures
    BY DEF Step
  <1>2. /\ phase \in {"scoring", "updating"} /\ phase # "sampled" /\ Dispatched
        /\ IsPlaced(r) /\ IsBranched(r) /\ IsCounted(r) /\ MiniBatches \in Nat \ {0} /\ failures \in Nat
    BY <1>1, AtWork
  <1>3. conf' = conf /\ phase' = phase /\ MiniBatches' = MiniBatches
    BY <1>1, SameHands
  <1>4. Indexed' /\ \A s \in Ranks : s # r => Untouched(s)
    BY DEF Step, Control, Indexed, Untouched, metrics, search
  <1>5. pc'[r] = "metrics" /\ batch'[r] = batch[r] /\ branch'[r] = branch[r]
    BY DEF Step, Control, Indexed
  <1>6. phase = "updating" /\ branch[r] = "total"
    BY <1>1, <1>2 DEF IsPlaced, IsBranched, InBranches, InForward, Searching
  <1>7. RankOk(r)'
    <2>1. IsPlaced(r)'
      BY <1>1, <1>2, <1>3, <1>5, <1>6 DEF IsPlaced
    <2>2. IsBranched(r)'
      BY <1>5, <1>6 DEF IsBranched
    <2>3. IsCounted(r)'
      BY <1>5 DEF IsCounted, Searching, InForward
    <2> QED BY <2>1, <2>2, <2>3 DEF RankOk
  <1>8. View(r)' = View(r)
    BY <1>1, <1>5 DEF View, Ahead
  <1> QED BY <1>1, <1>2, <1>4, <1>5, <1>7, <1>8, LocalStep

-----------------------------------------------------------------------------
\* Collectives.

LEMMA CollectiveStep ==
    ASSUME Control, UNCHANGED trainer, failures' = failures,
           NEW c \in Collectives, \A r \in Ranks : pc[r] = c,
           Indexed', \A r \in Ranks : RankOk(r)' /\ pc'[r] # "raised",
           \A r, s \in Ranks : View(r)' = View(s)'
    PROVE  Control'
  <1>1. phase' = phase /\ Dispatched' = Dispatched
    BY SameHands
  <1>2. \A r \in Ranks : pc[r] # "idle"
    BY DEF Collectives
  <1>3. 1 \in Ranks
    BY ActorUpdateAssumption DEF Ranks
  <1>4. phase # "sampled"
    BY <1>2, <1>3 DEF Control, TrainerOk
  <1> QED BY <1>1, <1>4 DEF Control, TrainerOk, RanksOk, SameView

LEMMA AllAtWork ==
    ASSUME Control, NEW c \in Collectives, \A r \in Ranks : pc[r] = c
    PROVE  /\ phase \in {"scoring", "updating"} /\ phase # "sampled" /\ Dispatched
           /\ \A r \in Ranks : IsPlaced(r) /\ IsBranched(r) /\ IsCounted(r)
           /\ \A r, s \in Ranks : View(r) = View(s)
           /\ MiniBatches \in Nat \ {0}
           /\ 1 \in Ranks
  <1>1. \A r \in Ranks : pc[r] # "idle" /\ pc[r] # "raised"
    BY DEF Collectives
  <1>2. 1 \in Ranks
    BY ActorUpdateAssumption DEF Ranks
  <1>3. \A r, s \in Ranks : View(r) = View(s)
    BY <1>1 DEF Control, SameView
  <1> QED BY <1>1, <1>2, <1>3, AtWork

\* Ranks in the same collective that look alike.
LEMMA AlikeIs ==
    ASSUME NEW c \in Collectives, \A r \in Ranks : pc[r] = c, \A r, s \in Ranks : View(r) = View(s)
    PROVE  /\ \A r, s \in Ranks : batch[r] = batch[s] /\ branch[r] = branch[s]
           /\ c \in {"constraints", "within"} => \A r, s \in Ranks : count[r] = count[s]
           /\ c \in {"micro", "micro_sync"} => \A r, s \in Ranks : micro[r] = micro[s]
  <1>1. CASE c \in {"constraints", "within"}
    <2>1. \A r \in Ranks : View(r) = Ahead(c, batch[r], branch[r], count[r], 0)
      BY <1>1 DEF View
    <2> QED BY <1>1, <2>1 DEF Ahead
  <1>2. CASE c \in {"micro", "micro_sync"}
    <2>1. \A r \in Ranks : View(r) = Ahead(c, batch[r], branch[r], 0, micro[r])
      BY <1>2 DEF View
    <2> QED BY <1>2, <2>1 DEF Ahead
  <1>3. CASE c \notin {"constraints", "within", "micro", "micro_sync"}
    <2>1. \A r \in Ranks : View(r) = Ahead(c, batch[r], branch[r], 0, 0)
      BY <1>3 DEF View, Collectives
    <2> QED BY <1>3, <2>1 DEF Ahead
  <1> QED BY <1>1, <1>2, <1>3

LEMMA CountTokensMatches ==
    ASSUME Control, CountTokens
    PROVE  Control'
  <1> DEFINE br == IF phase = "updating" /\ conf.method = "r2opl_base" THEN "correct" ELSE "total"
  <1>1. UNCHANGED trainer /\ failures' = failures /\ "num_tokens" \in Collectives /\ \A r \in Ranks : pc[r] = "num_tokens"
    BY DEF CountTokens, Meet, Collectives
  <1>2. /\ phase \in {"scoring", "updating"} /\ phase # "sampled" /\ Dispatched
        /\ \A r \in Ranks : IsPlaced(r) /\ IsBranched(r) /\ IsCounted(r)
        /\ \A r, s \in Ranks : View(r) = View(s)
        /\ MiniBatches \in Nat \ {0}
    BY <1>1, AllAtWork
  <1>3. \A r, s \in Ranks : batch[r] = batch[s]
    BY <1>1, <1>2, AlikeIs
  <1>4. conf' = conf /\ phase' = phase /\ MiniBatches' = MiniBatches /\ Size' = Size
    BY <1>1, SameHands
  <1>5. \A r \in Ranks : pc'[r] = "prepare" /\ batch'[r] = batch[r] /\ branch'[r] = br
    BY DEF CountTokens, Meet
  <1>6. br \in {"total", "correct"} /\ (phase = "scoring" => br = "total")
    OBVIOUS
  <1> HIDE DEF br
  <1>7. ASSUME NEW r \in Ranks PROVE RankOk(r)'
    <2>1. IsPlaced(r)'
      BY <1>1, <1>2, <1>4, <1>5 DEF IsPlaced, InBranches
    <2>2. IsBranched(r)'
      BY <1>4, <1>5, <1>6 DEF IsBranched, InBranches
    <2>3. IsCounted(r)'
      BY <1>5 DEF IsCounted, Searching, InForward
    <2> QED BY <2>1, <2>2, <2>3 DEF RankOk
  <1>8. \A r \in Ranks : View(r)' = Prepared(batch[r], br)
    <2> TAKE r \in Ranks
    <2>1. View(r)' = Prepared(batch[r], br)'
      BY <1>4, <1>5 DEF View, Prepared, Kind, SyncKind, Ahead, br
    <2>2. Prepared(batch[r], br)' = Prepared(batch[r], br)
      BY <1>4, <1>5 DEF Prepared, Kind, SyncKind, Ahead, br
    <2> QED BY <2>1, <2>2
  <1>9. Indexed'
    BY DEF CountTokens, Meet, Control, Indexed, search, gradients, metrics
  <1>10. \A r, s \in Ranks : View(r)' = View(s)'
    BY <1>3, <1>8
  <1> QED BY <1>1, <1>5, <1>7, <1>9, <1>10, CollectiveStep

LEMMA AgreeOnCountMatches ==
    ASSUME Control, AgreeOnCount
    PROVE  Control'
  <1>1. UNCHANGED trainer /\ failures' = failures /\ "count" \in Collectives /\ \A r \in Ranks : pc[r] = "count"
    BY DEF AgreeOnCount, Meet, Collectives
  <1>2. /\ phase \in {"scoring", "updating"} /\ phase # "sampled" /\ Dispatched
        /\ \A r \in Ranks : IsPlaced(r) /\ IsBranched(r) /\ IsCounted(r)
        /\ \A r, s \in Ranks : View(r) = View(s)
        /\ MiniBatches \in Nat \ {0} /\ 1 \in Ranks
    BY <1>1, AllAtWork
  <1>3. \A r, s \in Ranks : batch[r] = batch[s] /\ branch[r] = branch[s]
    BY <1>1, <1>2, AlikeIs
  <1>4. /\ conf' = conf /\ phase' = phase /\ MiniBatches' = MiniBatches /\ HandLens' = HandLens
        /\ \A b : Number(b)' = Number(b)
    BY <1>1, SameHands
  <1> DEFINE most == Max({count[s] : s \in Ranks})
             b == batch[1]
  <1>5. \A r \in Ranks : /\ pc'[r] = "constraints" /\ batch'[r] = batch[r] /\ branch'[r] = branch[r]
                         /\ count'[r] = most /\ saved'[r] = saved[r] /\ reports'[r] = reports[r]
    BY DEF AgreeOnCount, Meet, gradients, metrics
  <1>6. \A r \in Ranks : count[r] = FirstCount(HandLens[b][r], Limit)
    <2> TAKE r \in Ranks
    <2>1. Lens(r) = HandLens[batch[r]][r] /\ batch[r] = b
      BY <1>1, <1>2, <1>3, AtHandIs
    <2>2. count[r] = FirstCount(Lens(r), Limit)
      BY <1>1, <1>2 DEF IsCounted
    <2> QED BY <2>1, <2>2
  <1>7. most = Least(HandLens[b])
    <2>1. {count[s] : s \in Ranks} = {FirstCount(HandLens[b][s], Limit) : s \in Ranks}
      BY <1>6
    <2> QED BY <2>1 DEF Least
  <1> HIDE DEF most
  <1>8. ASSUME NEW r \in Ranks PROVE RankOk(r)'
    <2>1. conf.dynamic /\ reports[r] = <<>> /\ batch[r] = b
      BY <1>1, <1>2, <1>3 DEF IsCounted
    <2>2. Least(HandLens[b]) \in Nat \ {0} /\ Number(b) \in Nat \ {0} /\ Number(b) \in Least(HandLens[b])..Size
          /\ Size \in Nat
      BY <1>1, <1>2, <2>1, AtHandIs
    <2>3. Least(HandLens[b]) \in Least(HandLens[b])..Number(b)
      BY <2>2
    <2>4. IsPlaced(r)'
      BY <1>1, <1>2, <1>4, <1>5 DEF IsPlaced, InBranches, Searching
    <2>5. IsBranched(r)'
      BY <1>1, <1>2, <1>4, <1>5 DEF IsBranched, InBranches, Searching
    <2>6. IsCounted(r)'
      BY <1>4, <1>5, <1>7, <2>1, <2>3 DEF IsCounted, Searching, InForward
    <2> QED BY <2>4, <2>5, <2>6 DEF RankOk
  <1>9. \A r \in Ranks : View(r)' = Ahead("constraints", batch[r], branch[r], most, 0)
    BY <1>5 DEF View, Ahead
  <1>10. Indexed'
    BY DEF AgreeOnCount, Meet, Control, Indexed, search, gradients, metrics
  <1>11. \A r, s \in Ranks : View(r)' = View(s)'
    BY <1>3, <1>9
  <1> QED BY <1>1, <1>5, <1>8, <1>10, <1>11, CollectiveStep

LEMMA AgreeOnConstraintsMatches ==
    ASSUME Control, AgreeOnConstraints
    PROVE  Control'
  <1>1. /\ UNCHANGED trainer /\ failures' = failures /\ "constraints" \in Collectives
        /\ \A r \in Ranks : pc[r] = "constraints"
    BY DEF AgreeOnConstraints, Meet, Collectives
  <1>2. /\ phase \in {"scoring", "updating"} /\ phase # "sampled" /\ Dispatched
        /\ \A r \in Ranks : IsPlaced(r) /\ IsBranched(r) /\ IsCounted(r)
        /\ \A r, s \in Ranks : View(r) = View(s)
        /\ MiniBatches \in Nat \ {0} /\ 1 \in Ranks
    BY <1>1, AllAtWork
  <1>3. \A r, s \in Ranks : batch[r] = batch[s] /\ branch[r] = branch[s] /\ count[r] = count[s]
    BY <1>1, <1>2, AlikeIs
  <1>4. /\ conf' = conf /\ phase' = phase /\ MiniBatches' = MiniBatches /\ HandLens' = HandLens
        /\ \A b : Number(b)' = Number(b)
    BY <1>1, SameHands
  <1>5. \A r \in Ranks : /\ pc'[r] = "search" /\ batch'[r] = batch[r] /\ branch'[r] = branch[r]
                         /\ count'[r] = count[r] /\ saved'[r] = saved[r] /\ reports'[r] = reports[r]
    BY DEF AgreeOnConstraints, Meet, search, gradients, metrics
  <1>6. ASSUME NEW r \in Ranks PROVE RankOk(r)'
    <2>1. conf.dynamic /\ reports[r] = <<>> /\ count[r] \in Least(HandLens[batch[r]])..Number(batch[r])
      BY <1>1, <1>2 DEF IsCounted, Searching
    <2>2. IsPlaced(r)'
      BY <1>1, <1>2, <1>4, <1>5 DEF IsPlaced, InBranches, Searching
    <2>3. IsBranched(r)'
      BY <1>1, <1>2, <1>4, <1>5 DEF IsBranched, InBranches, Searching
    <2>4. IsCounted(r)'
      BY <1>4, <1>5, <2>1 DEF IsCounted, Searching, InForward
    <2> QED BY <2>2, <2>3, <2>4 DEF RankOk
  <1>7. \A r \in Ranks : View(r)' = Ahead("within", batch[r], branch[r], count[r], 0)
    BY <1>5 DEF View, Ahead
  <1>8. Indexed'
    BY DEF AgreeOnConstraints, Meet, Control, Indexed, search, gradients, metrics
  <1>9. \A r, s \in Ranks : View(r)' = View(s)'
    BY <1>3, <1>7
  <1> QED BY <1>1, <1>5, <1>6, <1>8, <1>9, CollectiveStep

\* What a rank forwards with its micro-batches counted looks like.
LEMMA ForwardView ==
    ASSUME NEW r \in Ranks, UNCHANGED trainer, pc'[r] = "forward", batch'[r] = batch[r], branch'[r] = branch[r]
    PROVE  View(r)' = IF micro'[r] > count'[r]
                      THEN Ahead(AfterForward(r), batch[r], branch[r], 0, 0)
                      ELSE Ahead(Kind(micro'[r], count'[r]), batch[r], branch[r], 0, micro'[r])
  <1>1. conf' = conf /\ phase' = phase
    BY SameHands
  <1>2. AfterForward(r)' = AfterForward(r) /\ Kind(micro[r], count[r])' = Kind(micro'[r], count'[r])
    BY <1>1 DEF AfterForward, Kind, SyncKind
  <1>3. View(r)' = IF micro'[r] > count'[r]
                   THEN Ahead(AfterForward(r)', batch'[r], branch'[r], 0, 0)
                   ELSE Ahead(Kind(micro[r], count[r])', batch'[r], branch'[r], 0, micro'[r])
    BY DEF View, Ahead
  <1> QED BY <1>2, <1>3

LEMMA AgreeOnLimitMatches ==
    ASSUME Control, AgreeOnLimit
    PROVE  Control'
  <1>1. UNCHANGED trainer /\ failures' = failures /\ "within" \in Collectives /\ \A r \in Ranks : pc[r] = "within"
    BY DEF AgreeOnLimit, Meet, Collectives
  <1>2. /\ phase \in {"scoring", "updating"} /\ phase # "sampled" /\ Dispatched
        /\ \A r \in Ranks : IsPlaced(r) /\ IsBranched(r) /\ IsCounted(r)
        /\ \A r, s \in Ranks : View(r) = View(s)
        /\ MiniBatches \in Nat \ {0} /\ 1 \in Ranks
    BY <1>1, AllAtWork
  <1>3. \A r, s \in Ranks : batch[r] = batch[s] /\ branch[r] = branch[s] /\ count[r] = count[s]
    BY <1>1, <1>2, AlikeIs
  <1>4. /\ conf' = conf /\ phase' = phase /\ MiniBatches' = MiniBatches /\ HandLens' = HandLens
        /\ \A b : Number(b)' = Number(b)
    BY <1>1, SameHands
  <1> DEFINE b == batch[1]
             k == count[1]
             lens == HandLens[b]
  <1>5. \A r \in Ranks : /\ batch[r] = b /\ count[r] = k /\ Lens(r) = lens[r]
                         /\ parts[r] = MicroBatches(lens[r], k)
    <2> TAKE r \in Ranks
    <2>1. batch[r] = b /\ count[r] = k
      BY <1>2, <1>3
    <2>2. Lens(r) = lens[r]
      BY <1>1, <1>2, <2>1, AtHandIs
    <2>3. parts[r] = MicroBatches(Lens(r), k)
      BY <1>1, <1>2, <2>1 DEF IsCounted
    <2> QED BY <2>1, <2>2, <2>3
  <1>6. /\ conf.dynamic /\ k \in Least(lens)..Number(b) /\ AreLens(lens, Size) /\ Size \in Nat \ {0}
        /\ Number(b) \in Nat \ {0} /\ Least(lens) \in Nat \ {0} /\ Number(b) \in Least(lens)..Size
    <2>1. conf.dynamic /\ k \in Least(lens)..Number(b)
      BY <1>1, <1>2 DEF IsCounted, Searching
    <2> QED BY <1>1, <1>2, <2>1, AtHandIs
  <1>7. /\ Number(b) = Settled(lens, Size) /\ KeepsAll(lens, Number(b))
        /\ \A m \in 1..Size : Least(lens) <= m /\ KeepsAll(lens, m) => Number(b) <= m
    <2>1. Number(b) = Settled(lens, Size)
      BY <1>6 DEF Number
    <2> QED BY <1>6, <2>1, SettledIs
  <1>8. (\A r \in Ranks : KeepsLimit(r)) <=> KeepsAll(lens, k)
    <2>1. \A r \in Ranks : KeepsLimit(r) <=> \A i \in DOMAIN MicroBatches(lens[r], k) :
                              PartSum(MicroBatches(lens[r], k)[i], lens[r]) <= Limit
      BY <1>5 DEF KeepsLimit
    <2> QED BY <2>1 DEF KeepsAll
  <1> HIDE DEF k
  <1>9. k \in Nat /\ k <= Number(b) /\ k \in 1..Size
    BY <1>6
  <1>10. \A r \in Ranks : /\ batch'[r] = batch[r] /\ branch'[r] = branch[r]
                          /\ saved'[r] = saved[r] /\ reports'[r] = reports[r]
    BY DEF AgreeOnLimit, gradients, metrics
  <1>11. \A r \in Ranks : reports[r] = <<>> /\ conf.dynamic
    BY <1>1, <1>2 DEF IsCounted, Searching
  <1>12. CASE KeepsAll(lens, k)
    <2>1. \A r \in Ranks : pc'[r] = "forward" /\ micro'[r] = 1 /\ count'[r] = count[r]
      BY <1>8, <1>12 DEF AgreeOnLimit, Meet
    <2>2. k = Number(b)
      BY <1>6, <1>7, <1>9, <1>12
    <2>3. ASSUME NEW r \in Ranks PROVE RankOk(r)'
      <3>1. IsPlaced(r)'
        BY <1>1, <1>2, <1>4, <1>10, <2>1 DEF IsPlaced, InBranches, Searching, InForward
      <3>2. IsBranched(r)'
        BY <1>1, <1>2, <1>4, <1>10, <2>1 DEF IsBranched, InBranches, Searching, InForward
      <3>3. IsCounted(r)'
        <4>1. 1 \in 1..(k + 1) /\ Counted(<<>>, 1 - 1)
          BY <1>9, NothingCounted
        <4>2. count'[r] = k /\ batch'[r] = b /\ reports'[r] = <<>> /\ micro'[r] = 1 /\ pc'[r] = "forward"
          BY <1>5, <1>10, <1>11, <2>1
        <4> HIDE DEF b
        <4> QED BY <1>4, <2>2, <4>1, <4>2 DEF IsCounted, Searching, InForward
      <3> QED BY <3>1, <3>2, <3>3 DEF RankOk
    <2>4. \A r \in Ranks : View(r)' = Ahead(Kind(1, k), batch[r], branch[r], 0, 1)
      <3> TAKE r \in Ranks
      <3>1. ~ 1 > k
        BY <1>9
      <3>2. pc'[r] = "forward" /\ micro'[r] = 1 /\ count'[r] = k /\ batch'[r] = batch[r] /\ branch'[r] = branch[r]
        BY <1>5, <1>10, <2>1
      <3>3. View(r)' = IF micro'[r] > count'[r]
                      THEN Ahead(AfterForward(r), batch[r], branch[r], 0, 0)
                      ELSE Ahead(Kind(micro'[r], count'[r]), batch[r], branch[r], 0, micro'[r])
        BY <1>1, <3>2, ForwardView
      <3> QED BY <3>1, <3>2, <3>3
    <2>5. Indexed'
      BY <1>8, <1>12 DEF AgreeOnLimit, Meet, Control, Indexed, search, gradients, metrics
    <2>6. \A r, s \in Ranks : View(r)' = View(s)'
      BY <1>3, <2>4
    <2> QED BY <1>1, <2>1, <2>3, <2>5, <2>6, CollectiveStep
  <1>13. CASE ~ KeepsAll(lens, k)
    <2>1. \A r \in Ranks : pc'[r] = "search" /\ count'[r] = count[r] + 1
      BY <1>8, <1>13 DEF AgreeOnLimit, Meet
    <2>2. k # Number(b)
      BY <1>7, <1>13
    <2>3. k + 1 \in Least(lens)..Number(b)
      BY <1>6, <1>9, <2>2
    <2>4. ASSUME NEW r \in Ranks PROVE RankOk(r)'
      <3>1. IsPlaced(r)'
        BY <1>1, <1>2, <1>4, <1>10, <2>1 DEF IsPlaced, InBranches, Searching
      <3>2. IsBranched(r)'
        BY <1>1, <1>2, <1>4, <1>10, <2>1 DEF IsBranched, InBranches, Searching
      <3>3. IsCounted(r)'
        <4>1. count'[r] = k + 1 /\ batch'[r] = b /\ reports'[r] = <<>> /\ pc'[r] = "search"
          BY <1>5, <1>10, <1>11, <2>1
        <4>2. HandLens'[batch'[r]] = lens /\ Number(batch[r])' = Number(b)
          BY <1>4, <4>1
        <4> HIDE DEF b, lens
        <4> QED BY <1>4, <1>11, <2>3, <4>1, <4>2 DEF IsCounted, Searching, InForward
      <3> QED BY <3>1, <3>2, <3>3 DEF RankOk
    <2>5. \A r \in Ranks : View(r)' = Ahead("within", batch[r], branch[r], k + 1, 0)
      <3> TAKE r \in Ranks
      <3>1. pc'[r] = "search" /\ count'[r] = k + 1 /\ batch'[r] = batch[r] /\ branch'[r] = branch[r]
        BY <1>5, <1>10, <2>1
      <3> QED BY <3>1 DEF View, Ahead
    <2>6. Indexed'
      BY <1>8, <1>13 DEF AgreeOnLimit, Meet, Control, Indexed, search, gradients, metrics
    <2>7. \A r, s \in Ranks : View(r)' = View(s)'
      BY <1>3, <2>5
    <2> QED BY <1>1, <2>1, <2>4, <2>6, <2>7, CollectiveStep
  <1> QED BY <1>12, <1>13

\* The ranks run a micro-batch together.
LEMMA MicroBatchMatches ==
    ASSUME Control, UNCHANGED trainer, failures' = failures, NEW c \in {"micro", "micro_sync"},
           \A r \in Ranks : pc[r] = c, Indexed',
           \A r \in Ranks : /\ pc'[r] = "forward" /\ batch'[r] = batch[r] /\ branch'[r] = branch[r]
                            /\ count'[r] = count[r] /\ micro'[r] = micro[r] + 1 /\ saved'[r] = saved[r],
           phase = "updating" => \A r \in Ranks : \E e : reports'[r] = Append(reports[r], e)
    PROVE  Control'
  <1>1. c \in Collectives
    BY DEF Collectives
  <1>2. /\ phase \in {"scoring", "updating"} /\ phase # "sampled" /\ Dispatched
        /\ \A r \in Ranks : IsPlaced(r) /\ IsBranched(r) /\ IsCounted(r)
        /\ \A r, s \in Ranks : View(r) = View(s)
        /\ MiniBatches \in Nat \ {0} /\ 1 \in Ranks
    BY <1>1, AllAtWork
  <1>3. \A r, s \in Ranks : batch[r] = batch[s] /\ branch[r] = branch[s] /\ micro[r] = micro[s]
    BY <1>1, <1>2, AlikeIs
  <1>4. /\ conf' = conf /\ phase' = phase /\ MiniBatches' = MiniBatches
        /\ \A b : Number(b)' = Number(b)
    BY SameHands
  <1>5. \A r \in Ranks : /\ count[r] = Number(batch[r]) /\ micro[r] \in 1..count[r]
                         /\ Number(batch[r]) \in Nat \ {0} /\ micro[r] \in Nat
    <2> TAKE r \in Ranks
    <2>1. Number(batch[r]) \in Nat \ {0}
      BY <1>2, AtHandIs
    <2>2. count[r] = Number(batch[r]) /\ micro[r] \in 1..(count[r] + 1) /\ micro[r] <= count[r]
      BY <1>2 DEF IsCounted, InForward
    <2> QED BY <2>1, <2>2
  <1>6. ASSUME NEW r \in Ranks PROVE RankOk(r)'
    <2>1. IsPlaced(r)'
      BY <1>2, <1>4 DEF IsPlaced, InBranches, InForward
    <2>2. IsBranched(r)'
      BY <1>2, <1>4 DEF IsBranched, InBranches, InForward
    <2>3. phase = "updating" => Counted(reports'[r], micro'[r] - 1)
      <3> HAVE phase = "updating"
      <3>1. PICK e : reports'[r] = Append(reports[r], e)
        OBVIOUS
      <3>2. micro[r] - 1 \in Nat /\ (micro[r] - 1) + 1 = micro'[r] - 1
        BY <1>5
      <3>3. Counted(reports[r], micro[r] - 1)
        BY <1>2 DEF IsCounted, InForward
      <3>4. Counted(Append(reports[r], e), (micro[r] - 1) + 1)
        BY <3>2, <3>3, OneMoreCounted
      <3> QED BY <3>1, <3>2, <3>4
    <2>4. count'[r] = Number(batch[r]) /\ micro'[r] \in 1..(count'[r] + 1)
      BY <1>5
    <2>5. IsCounted(r)'
      BY <1>4, <2>3, <2>4 DEF IsCounted, Searching, InForward
    <2> QED BY <2>1, <2>2, <2>5 DEF RankOk
  <1>7. \A r \in Ranks : View(r)' = IF micro'[r] > count'[r]
                      THEN Ahead(AfterForward(r), batch[r], branch[r], 0, 0)
                      ELSE Ahead(Kind(micro'[r], count'[r]), batch[r], branch[r], 0, micro'[r])
    BY ForwardView
  <1>8. ASSUME NEW r \in Ranks, NEW s \in Ranks PROVE View(r)' = View(s)'
    <2>1. batch[r] = batch[s] /\ branch[r] = branch[s] /\ micro'[r] = micro'[s] /\ count'[r] = count'[s]
      BY <1>3, <1>5
    <2>2. AfterForward(r) = AfterForward(s)
      BY <2>1 DEF AfterForward
    <2> QED BY <1>7, <2>1, <2>2
  <1> QED BY <1>1, <1>6, <1>8, CollectiveStep

LEMMA ScoreMicroBatchMatches ==
    ASSUME Control, ScoreMicroBatch
    PROVE  Control'
  <1>1. UNCHANGED trainer /\ failures' = failures /\ phase = "scoring" /\ \A r \in Ranks : pc[r] = "micro"
    BY DEF ScoreMicroBatch, Meet
  <1>2. Indexed'
    BY DEF ScoreMicroBatch, Meet, Control, Indexed, gradients, metrics
  <1>3. \A r \in Ranks : /\ pc'[r] = "forward" /\ batch'[r] = batch[r] /\ branch'[r] = branch[r]
                         /\ count'[r] = count[r] /\ micro'[r] = micro[r] + 1 /\ saved'[r] = saved[r]
    BY DEF ScoreMicroBatch, Meet, gradients
  <1> QED BY <1>1, <1>2, <1>3, MicroBatchMatches

LEMMA TrainMicroBatchMatches ==
    ASSUME Control, TrainMicroBatch
    PROVE  Control'
  <1>1. UNCHANGED trainer /\ failures' = failures
    BY DEF TrainMicroBatch
  <1>2. PICK c \in {"micro", "micro_sync"} : \A r \in Ranks : pc[r] = c /\ pc'[r] = "forward"
    BY DEF TrainMicroBatch, Meet
  <1>3. Indexed'
    BY DEF TrainMicroBatch, Meet, Control, Indexed
  <1>4. \A r \in Ranks : /\ batch'[r] = batch[r] /\ branch'[r] = branch[r]
                         /\ count'[r] = count[r] /\ micro'[r] = micro[r] + 1 /\ saved'[r] = saved[r]
    BY DEF TrainMicroBatch
  <1>5. \A r \in Ranks : \E e : reports'[r] = Append(reports[r], e)
    BY DEF TrainMicroBatch
  <1> QED BY <1>1, <1>2, <1>3, <1>4, <1>5, MicroBatchMatches

LEMMA MeasureNormMatches ==
    ASSUME Control, MeasureNorm
    PROVE  Control'
  <1>1. PICK c \in {"norm", "clip"} : \A r \in Ranks : pc[r] = c /\ pc'[r] = IF c = "norm" THEN "measured" ELSE "step"
    BY DEF MeasureNorm, Meet
  <1>2. UNCHANGED trainer /\ failures' = failures /\ c \in Collectives /\ \A r \in Ranks : pc[r] = c
    BY <1>1 DEF MeasureNorm, Collectives
  <1>3. /\ phase \in {"scoring", "updating"} /\ phase # "sampled" /\ Dispatched
        /\ \A r \in Ranks : IsPlaced(r) /\ IsBranched(r) /\ IsCounted(r)
        /\ \A r, s \in Ranks : View(r) = View(s)
        /\ MiniBatches \in Nat \ {0} /\ 1 \in Ranks
    BY <1>2, AllAtWork
  <1>4. \A r, s \in Ranks : batch[r] = batch[s] /\ branch[r] = branch[s]
    BY <1>2, <1>3, AlikeIs
  <1>5. /\ conf' = conf /\ phase' = phase /\ MiniBatches' = MiniBatches /\ Size' = Size
        /\ \A b : Number(b)' = Number(b)
    BY <1>2, SameHands
  <1>6. \A r \in Ranks : /\ batch'[r] = batch[r] /\ branch'[r] = branch[r]
                         /\ saved'[r] = saved[r] /\ reports'[r] = reports[r]
    BY DEF MeasureNorm, gradients, metrics
  <1>7. ASSUME NEW r \in Ranks PROVE RankOk(r)'
    <2>1. IsPlaced(r)'
      BY <1>1, <1>2, <1>3, <1>5, <1>6 DEF IsPlaced, InBranches, InForward, Searching
    <2>2. IsBranched(r)'
      BY <1>1, <1>2, <1>3, <1>5, <1>6 DEF IsBranched, InBranches, InForward, Searching
    <2>3. IsCounted(r)'
      BY <1>1, <1>2, <1>3, <1>5, <1>6 DEF IsCounted, InForward, Searching
    <2> QED BY <2>1, <2>2, <2>3 DEF RankOk
  <1>8. ASSUME NEW r \in Ranks, NEW s \in Ranks PROVE View(r)' = View(s)'
    <2>1. batch'[r] = batch'[s] /\ branch'[r] = branch'[s] /\ pc'[r] = pc'[s] /\ pc'[r] \in {"measured", "step"}
      BY <1>1, <1>4, <1>6
    <2>2. CASE pc'[r] = "measured"
      <3>1. View(r)' = IF branch'[r] = "correct" THEN Prepared(batch[r], "error")' ELSE Ahead("clip", batch'[r], "total", 0, 0)
        BY <2>2 DEF View, Prepared, Ahead
      <3>2. View(s)' = IF branch'[s] = "correct" THEN Prepared(batch[s], "error")' ELSE Ahead("clip", batch'[s], "total", 0, 0)
        BY <2>1, <2>2 DEF View, Prepared, Ahead
      <3>3. Prepared(batch[r], "error")' = Prepared(batch[s], "error")'
        BY <2>1 DEF Prepared, Kind, SyncKind, Ahead
      <3> QED BY <2>1, <3>1, <3>2, <3>3
    <2>3. CASE pc'[r] = "step"
      BY <2>1, <2>3 DEF View, Ahead
    <2> QED BY <2>1, <2>2, <2>3
  <1>9. Indexed'
    BY DEF MeasureNorm, Meet, Control, Indexed, search, gradients, metrics
  <1>10. \A r \in Ranks : pc'[r] # "raised"
    BY <1>1
  <1> QED BY <1>2, <1>7, <1>8, <1>9, <1>10, CollectiveStep

LEMMA GatherMetricsMatches ==
    ASSUME Control, GatherMetrics
    PROVE  Control'
  <1>1. UNCHANGED trainer /\ failures' = failures /\ "metrics" \in Collectives /\ \A r \in Ranks : pc[r] = "metrics"
    BY DEF GatherMetrics, Collectives, Meet
  <1>2. /\ phase \in {"scoring", "updating"} /\ phase # "sampled" /\ Dispatched
        /\ \A r \in Ranks : IsPlaced(r) /\ IsBranched(r) /\ IsCounted(r)
        /\ \A r, s \in Ranks : View(r) = View(s)
        /\ MiniBatches \in Nat \ {0} /\ 1 \in Ranks
    BY <1>1, AllAtWork
  <1>3. \A r, s \in Ranks : batch[r] = batch[s] /\ branch[r] = branch[s]
    BY <1>1, <1>2, AlikeIs
  <1>4. conf' = conf /\ phase' = phase /\ MiniBatches' = MiniBatches
    BY <1>1, SameHands
  <1>5. \A r \in Ranks : /\ batch'[r] = batch[r] /\ branch'[r] = branch[r]
                         /\ phase = "scoring" => pc'[r] = "returned"
                         /\ phase = "updating" => pc'[r] = "next"
    BY DEF GatherMetrics, Meet
  <1>6. \A r \in Ranks : branch[r] = "total"
    BY <1>1, <1>2 DEF IsBranched, InBranches, InForward, Searching
  <1>7. ASSUME NEW r \in Ranks PROVE RankOk(r)'
    <2>1. IsPlaced(r)'
      BY <1>1, <1>2, <1>4, <1>5 DEF IsPlaced
    <2>2. IsBranched(r)'
      BY <1>2, <1>5, <1>6 DEF IsBranched
    <2>3. IsCounted(r)'
      BY <1>2, <1>5 DEF IsCounted, InForward, Searching
    <2> QED BY <2>1, <2>2, <2>3 DEF RankOk
  <1>8. ASSUME NEW r \in Ranks, NEW s \in Ranks PROVE View(r)' = View(s)'
    <2>1. batch'[r] = batch'[s] /\ branch'[r] = branch'[s] /\ pc'[r] = pc'[s] /\ pc'[r] \in {"returned", "next"}
      BY <1>2, <1>3, <1>5
    <2> QED BY <2>1 DEF View, Ahead
  <1>9. Indexed'
    BY DEF GatherMetrics, Meet, Control, Indexed, search, gradients, metrics
  <1>10. \A r \in Ranks : pc'[r] # "raised"
    BY <1>2, <1>5
  <1> QED BY <1>1, <1>7, <1>8, <1>9, <1>10, CollectiveStep

-----------------------------------------------------------------------------
\* The trainer.

LEMMA BalanceMatches ==
    ASSUME Control, Balance
    PROVE  Control'
  <1>1. phase = "sampled" /\ rows \in Batches /\ \A r \in Ranks : pc[r] = "idle" /\ batch[r] = 0 /\ branch[r] = "total"
    BY DEF Control, TrainerOk, Balance
  <1>2. rows' = Upsampled(rows)
    BY DEF Balance
  <1> DEFINE n == Len(rows')
             lens == [i \in DOMAIN rows' |-> rows'[i].len]
             split == Partitions(Workloads(lens), DP, TRUE)
  <1>3. rows' \in Seq(Row) /\ \E m \in Nat \ {0} : n = DP * (MiniSize * m)
    BY <1>1, <1>2, UpsampledIs
  <1>4. PICK m \in Nat \ {0} : n = DP * (MiniSize * m)
    BY <1>3
  <1> DEFINE B == MiniSize * m
  <1>5. DP \in Nat \ {0} /\ MiniSize \in Nat \ {0}
    BY ActorUpdateAssumption
  <1>6. B \in Nat \ {0}
    BY <1>5, Multiples
  <1>7. n \in Nat /\ DOMAIN rows' = 1..n /\ lens \in [1..n -> Nat \ {0}] /\ Len(lens) = n
    <2>1. DOMAIN rows' = 1..n /\ n \in Nat /\ \A i \in 1..n : rows'[i] \in Row
      BY <1>3
    <2>2. \A i \in 1..n : rows'[i].len \in Nat \ {0}
      BY <2>1, RowLengths
    <2>3. lens \in [1..n -> Nat \ {0}]
      BY <2>1, <2>2
    <2> HIDE DEF lens, n
    <2> QED BY <2>1, <2>3
  <1>8. Accepted(split, Len(lens), TRUE)
    <2> HIDE DEF n, lens, B
    <2>1. DP \in Nat \ {0} /\ B \in Nat \ {0} /\ n \in Nat /\ n = DP * B /\ lens \in [1..n -> Nat \ {0}]
      BY <1>4, <1>5, <1>6, <1>7 DEF B
    <2>2. Accepted(Partitions(Workloads(lens), DP, TRUE), n, TRUE)
      BY ONLY <2>1, SplitDivides
    <2> QED BY <1>7, <2>2
  <1>9. keys' = FlattenSeq(split) /\ phase' = "scoring"
    BY <1>8 DEF Balance
  <1>10. Dispatched'
    <2>1. IsPiece(B)'
      BY <1>4, <1>6 DEF IsPiece
    <2>2. keys' = FlattenSeq(Plan)'
      BY <1>9 DEF Plan, RowLens
    <2>3. B \in Nat
      BY <1>6
    <2>4. \E b \in Nat : IsPiece(b)'
      BY <2>1, <2>3
    <2> QED BY <1>3, <2>2, <2>4 DEF Dispatched
  <1>11. \A r \in Ranks : pc'[r] = "num_tokens" /\ batch'[r] = 0 /\ branch'[r] = "total"
    BY <1>1 DEF Balance
  <1>12. Indexed' /\ TrainerOk'
    <2>1. Indexed'
      BY DEF Balance, Control, Indexed, search, gradients, metrics
    <2>2. failures' \in Nat
      BY DEF Balance, Control, TrainerOk
    <2> QED BY <1>9, <1>10, <2>1, <2>2 DEF TrainerOk
  <1>13. RanksOk'
    <2>1. \A r \in Ranks : IsPlaced(r)' /\ IsBranched(r)' /\ IsCounted(r)'
      BY <1>9, <1>11 DEF IsPlaced, IsBranched, IsCounted, InForward, Searching
    <2> QED BY <1>11, <2>1 DEF RanksOk, RankOk
  <1>14. SameView'
    <2>1. \A r \in Ranks : View(r)' = Ahead("num_tokens", 0, "total", 0, 0)
      BY <1>11 DEF View, Ahead
    <2> QED BY <2>1 DEF SameView
  <1> QED BY <1>12, <1>13, <1>14 DEF Control

LEMMA WriteBackMatches ==
    ASSUME Control, WriteBack
    PROVE  Control'
  <1>1. /\ phase = "scoring" /\ phase' = "updating" /\ conf' = conf /\ rows' = rows /\ keys' = keys /\ failures' = failures
        /\ \A r \in Ranks : pc[r] = "returned"
    BY DEF WriteBack
  <1>2. Dispatched /\ failures \in Nat /\ \A r \in Ranks : IsPlaced(r) /\ IsBranched(r)
    BY <1>1 DEF Control, TrainerOk, RanksOk, RankOk
  <1>3. MiniBatches \in Nat \ {0}
    BY <1>2, DispatchFacts
  <1>4. MiniBatches' = MiniBatches /\ Dispatched' = Dispatched
    BY <1>1 DEF MiniBatches, Rows, Dispatched, Plan, RowLens, IsPiece
  <1>5. \A r \in Ranks : pc'[r] = "next" /\ batch'[r] = 0 /\ branch'[r] = "total"
    BY <1>1, <1>2 DEF WriteBack, IsPlaced, IsBranched
  <1>6. Indexed' /\ TrainerOk'
    <2>1. Indexed'
      BY DEF WriteBack, Control, Indexed, search, gradients, metrics
    <2> QED BY <1>1, <1>2, <1>4, <2>1 DEF TrainerOk
  <1>7. RanksOk'
    <2>1. \A r \in Ranks : IsPlaced(r)'
      BY <1>1, <1>3, <1>4, <1>5 DEF IsPlaced
    <2>2. \A r \in Ranks : IsBranched(r)' /\ IsCounted(r)'
      BY <1>5 DEF IsBranched, IsCounted, InForward, Searching
    <2> QED BY <1>5, <2>1, <2>2 DEF RanksOk, RankOk
  <1>8. SameView'
    <2>1. \A r \in Ranks : View(r)' = Ahead("num_tokens", 0 + 1, "total", 0, 0)
      BY <1>3, <1>4, <1>5 DEF View, Ahead
    <2> QED BY <2>1 DEF SameView
  <1> QED BY <1>6, <1>7, <1>8 DEF Control

-----------------------------------------------------------------------------
\* Every step.

LEMMA ControlHolds == Spec => []Control
  <1>1. Init => Control
    <2> SUFFICES ASSUME Init PROVE Control
      OBVIOUS
    <2>1. \A r \in Ranks : pc[r] = "idle" /\ batch[r] = 0 /\ branch[r] = "total"
      BY DEF Init
    <2>2. Indexed /\ TrainerOk /\ RanksOk
      BY <2>1 DEF Init, Indexed, TrainerOk, RanksOk
    <2>3. SameView
      <3>1. \A r \in Ranks : View(r) = Ahead("idle", 0, "total", 0, 0)
        BY <2>1 DEF View
      <3> QED BY <3>1 DEF SameView
    <2> QED BY <2>2, <2>3 DEF Control
  <1>2. Control /\ [Next]_vars => Control'
    <2> SUFFICES ASSUME Control, [Next]_vars PROVE Control'
      OBVIOUS
    <2>1. CASE Balance
      BY <2>1, BalanceMatches
    <2>2. CASE WriteBack
      BY <2>2, WriteBackMatches
    <2>3. CASE Collective
      BY <2>3, CountTokensMatches, AgreeOnCountMatches, AgreeOnConstraintsMatches, AgreeOnLimitMatches,
         ScoreMicroBatchMatches, TrainMicroBatchMatches, MeasureNormMatches, GatherMetricsMatches DEF Collective
    <2>4. ASSUME NEW r \in Ranks, Local(r) PROVE Control'
      BY <2>4, NextMiniBatchMatches, FinishMatches, PrepareMatches, SearchMatches,
         ForwardMatches, RaiseMatches, MeasuredMatches, StepMatches DEF Local
    <2>5. CASE UNCHANGED vars
      <3>1. UNCHANGED trainer /\ failures' = failures /\ phase' = phase /\ rows' = rows
        BY <2>5 DEF vars, trainer
      <3>2. \A r \in Ranks : Untouched(r)
        BY <2>5 DEF vars, Untouched, search, gradients, metrics
      <3>3. Dispatched' = Dispatched
        BY <3>1, SameHands
      <3>4. \A r \in Ranks : View(r)' = View(r)
        BY <3>1, <3>2, ViewIsFixed
      <3>5. \A r \in Ranks : RankOk(r) => RankOk(r)'
        BY <3>1, <3>2, RankIsFixed
      <3>6. Indexed' /\ TrainerOk'
        BY <2>5, <3>1, <3>3 DEF vars, search, gradients, metrics, Control, Indexed, TrainerOk
      <3>7. RanksOk' /\ SameView'
        BY <3>1, <3>2, <3>4, <3>5 DEF Control, RanksOk, SameView, Untouched
      <3> QED BY <3>6, <3>7 DEF Control
    <2> QED BY <2>1, <2>2, <2>3, <2>4, <2>5 DEF Next
  <1> QED BY <1>1, <1>2, PTL DEF Spec

\* Ranks never wait in different collectives, and none raises unless its forward pass
\* does (rearrange_micro_batches, forward_backward_batch).
THEOREM RanksMatch == Spec => []CollectivesMatch
  <1>1. Control => CollectivesMatch
    <2> SUFFICES ASSUME Control PROVE CollectivesMatch
      OBVIOUS
    <2>1. phase # "raised" /\ ((\E r \in Ranks : pc[r] = "raised") => failures > 0)
      BY DEF Control, TrainerOk, RanksOk
    <2>2. ASSUME NEW r \in Ranks, pc[r] \in Collectives \union {"returned", "done"}
          PROVE  View(r).at = pc[r] /\ pc[r] # "raised"
      BY <2>2 DEF View, Ahead, Collectives
    <2>3. \A r, s \in Ranks :
             pc[r] \in Collectives /\ pc[s] \in Collectives \union {"returned", "done"} => pc[r] = pc[s]
      BY <2>2 DEF Control, SameView
    <2> QED BY <2>1, <2>3 DEF CollectivesMatch
  <1> QED BY <1>1, ControlHolds, PTL

-----------------------------------------------------------------------------
\* The ranks' loads.

\* The sum over a set that MapThenSumSet defines.
LEMMA LoadIs ==
    ASSUME NEW n, NEW lens, NEW S \in SUBSET (1..n), DOMAIN lens = 1..n, \A i \in 1..n : lens[i] = rows[i].len
    PROVE  MapThenSumSet(LAMBDA key : Workload(rows[key].len), S) = SumOver(Workloads(lens), S)
  <1> DEFINE vals == Workloads(lens)
             Body(g) == [s \in SUBSET S |-> IF s = {} THEN 0 ELSE Workload(rows[First(s)].len) + g[s \ {First(s)}]]
  <1>1. MapThenSumSet(LAMBDA key : Workload(rows[key].len), S) = (CHOOSE g : g = Body(g))[S]
    BY DEF MapThenSumSet, MapThenFoldSet, First
  <1>2. SumOver(vals, S) = (CHOOSE g : IsSum(g, vals, S))[S]
    BY DEF SumOver
  <1>3. \A s \in SUBSET S : s # {} => vals[First(s)] = Workload(rows[First(s)].len)
    <2> TAKE s \in SUBSET S
    <2> HAVE s # {}
    <2>1. First(s) \in s
      BY FirstIsIn
    <2>2. First(s) \in 1..n
      BY <2>1
    <2> QED BY <2>2 DEF Workloads
  <1> HIDE DEF vals
  <1>4. \A g : g = Body(g) <=> IsSum(g, vals, S)
    <2> TAKE g
    <2> DEFINE Other == [s \in SUBSET S |-> IF s = {} THEN 0 ELSE vals[First(s)] + g[s \ {First(s)}]]
    <2>1. Body(g) = Other
      BY <1>3
    <2>2. IsSum(g, vals, S) <=> g = Other
      BY DEF IsSum
    <2> HIDE DEF Body, Other
    <2> QED BY <2>1, <2>2
  <1> HIDE DEF Body
  <1>5. (CHOOSE g : g = Body(g)) = (CHOOSE g : IsSum(g, vals, S))
    BY <1>4
  <1> QED BY <1>1, <1>2, <1>5 DEF vals

LEMMA BalancedOnDispatch ==
    ASSUME Dispatched
    PROVE  LET cost(key) == Workload(rows[key].len)
               work == LET items == ByValue([i \in DOMAIN keys |-> cost(keys[i])]) IN [i \in DOMAIN items |-> items[i][2]]
               loads == {MapThenSumSet(cost, Range(Rows(r))) : r \in Ranks}
               gaps == {work[DP * b] - work[DP * (b - 1) + 1] : b \in 1..(Len(work) \div DP)}
           IN Max(loads) - Min(loads) <= Max(gaps)
  <1> DEFINE cost(key) == Workload(rows[key].len)
             costs == [i \in DOMAIN keys |-> cost(keys[i])]
             sorted == ByValue(costs)
             work == [i \in DOMAIN sorted |-> sorted[i][2]]
             loads == {MapThenSumSet(cost, Range(Rows(r))) : r \in Ranks}
             gaps == {work[DP * b] - work[DP * (b - 1) + 1] : b \in 1..(Len(work) \div DP)}
             n == Len(rows)
             B == Len(keys) \div DP
             vals == Workloads(RowLens)
             its == ByValue(vals)
  <1> SUFFICES Max(loads) - Min(loads) <= Max(gaps)
    OBVIOUS
  <1>1. /\ IsDivision(Plan, DP, n) /\ Len(keys) = n /\ B \in Nat \ {0} /\ n = DP * B
        /\ \A r \in Ranks : Rows(r) = Plan[r]
    BY DispatchFacts
  <1>2. DP \in Nat \ {0} /\ 1 \in Ranks /\ Ranks = 1..DP
    BY ActorUpdateAssumption DEF Ranks
  <1>3. keys = FlattenSeq(Plan) /\ rows \in Seq(Row)
    BY DEF Dispatched
  <1>4. n \in Nat /\ RowLens \in [1..n -> Nat \ {0}] /\ \A i \in 1..n : RowLens[i] = rows[i].len
    BY <1>3, RowLensAre
  <1>5. vals \in [1..n -> Nat \ {0}] /\ \A i \in 1..n : vals[i] = cost(i)
    <2> DEFINE lens == RowLens
    <2> HIDE DEF lens, n
    <2>1. n \in Nat /\ lens \in [1..n -> Nat \ {0}]
      BY <1>4 DEF lens
    <2>2. Workloads(lens) \in [1..n -> Nat \ {0}] /\ \A i \in 1..n : Workloads(lens)[i] = Workload(lens[i])
      BY <2>1, WorkloadsAre
    <2> QED BY <1>4, <2>2 DEF lens
  <1>6. IsPermutation(keys, n) /\ DOMAIN keys = 1..n
    <2>1. IsPermutation(FlattenSeq(Plan), n)
      BY <1>1, <1>2, <1>4, DivisionFlattens
    <2>2. IsPermutation(keys, n)
      BY <1>3, <2>1
    <2> QED BY <2>2 DEF IsPermutation
  <1>7. costs = [i \in 1..n |-> vals[keys[i]]]
    <2>1. \A i \in 1..n : keys[i] \in 1..n
      BY <1>6 DEF IsPermutation
    <2> HIDE DEF vals, n, cost
    <2>2. \A i \in 1..n : cost(keys[i]) = vals[keys[i]]
      BY <1>5, <2>1
    <2> QED BY <1>6, <2>2
  <1> HIDE DEF costs, n, B, vals
  <1>8. /\ DOMAIN sorted = 1..n /\ \A i \in 1..n : work[i] = its[i][2]
        /\ \A i \in 1..n : its[i][2] \in Nat
        /\ \A i, j \in 1..n : i <= j => its[i][2] <= its[j][2]
    <2>1. n \in Nat /\ vals \in [1..n -> Nat]
      BY <1>4, <1>5
    <2>2. DOMAIN ByValue(costs) = 1..n /\ \A i \in 1..n : ByValue(costs)[i][2] = ByValue(vals)[i][2]
      <3>1. IsPermutation(keys, n)
        BY <1>6
      <3>2. SameValues(ByValue(costs), ByValue(vals), n)
        BY ONLY <1>7, <2>1, <3>1, ValuesStayInOrder
      <3> QED BY <3>2 DEF SameValues
    <2>3. \A i \in 1..n : ByValue(vals)[i][2] \in Nat
      BY <2>1, ByValueIs
    <2>4. \A i, j \in 1..n : i <= j => ByValue(vals)[i][2] <= ByValue(vals)[j][2]
      BY <2>1, ByValueIs
    <2> QED BY <2>2, <2>3, <2>4
  <1> HIDE DEF sorted, its
  <1>9. Len(work) = n /\ DOMAIN work = 1..n
    BY <1>4, <1>8
  <1> HIDE DEF work
  <1>10. Len(work) \div DP = B
    BY <1>1, <1>2, <1>9, Multiples
  <1> DEFINE start == [b \in 1..B |-> DP * (b - 1)]
             spread == [b \in 1..B |-> its[start[b] + DP][2] - its[start[b] + 1][2]]
  <1>11. \A b \in 1..B : /\ start[b] \in Nat /\ DP * b = start[b] + DP /\ DP * (b - 1) = start[b]
                         /\ start[b] + DP \in 1..n /\ start[b] + 1 \in 1..n
    <2>1. \A b \in 1..B : start[b] = DP * (b - 1)
      OBVIOUS
    <2> HIDE DEF start
    <2>2. AreStarts(start, DP, B)
      BY <2>1 DEF AreStarts
    <2>3. AreBlocks(start, DP, B)
      BY <1>1, <1>2, <2>2, BlockPlaces
    <2>4. 1 \in 1..DP /\ DP \in 1..DP
      BY <1>2
    <2> QED BY <1>1, <2>1, <2>3, <2>4 DEF AreBlocks
  <1> HIDE DEF start
  <1>12. gaps = {spread[b] : b \in 1..B}
    <2>1. \A b \in 1..B : work[DP * b] - work[DP * (b - 1) + 1] = spread[b]
      BY <1>8, <1>11
    <2> HIDE DEF spread
    <2> QED BY <1>10, <2>1
  <1>13. PICK most \in Nat : \A i \in 1..n : vals[i] <= most
    <2>1. n \in Nat /\ vals \in [1..n -> Nat]
      BY <1>4, <1>5
    <2> QED BY <2>1, Largest
  <1>14. \A i \in 1..n : its[i][2] <= most
    <2>1. n \in Nat /\ vals \in [1..n -> Nat]
      BY <1>4, <1>5
    <2>2. PICK o : IsPermutation(o, n) /\ \A i \in 1..n : ByValue(vals)[i] = <<o[i], vals[o[i]]>>
      BY <2>1, ByValueIs
    <2>3. \A i \in 1..n : o[i] \in 1..n
      BY <2>2 DEF IsPermutation
    <2>4. \A i \in 1..n : its[i][2] = vals[o[i]]
      BY <2>2 DEF its
    <2> QED BY <1>13, <2>3, <2>4
  <1>15. \A b \in 1..B : spread[b] \in Nat /\ spread[b] <= most
    <2> TAKE b \in 1..B
    <2> DEFINE x == its[start[b] + DP][2]
               y == its[start[b] + 1][2]
    <2>1. start[b] + 1 <= start[b] + DP
      BY <1>2, <1>11
    <2>2. x \in Nat /\ y \in Nat /\ y <= x /\ x <= most
      BY <1>8, <1>11, <1>14, <2>1
    <2>3. spread[b] = x - y
      OBVIOUS
    <2> HIDE DEF x, y, spread
    <2> QED BY <2>2, <2>3
  <1> DEFINE gap == Max(gaps)
  <1>16. gap \in Nat /\ \A b \in 1..B : spread[b] <= gap
    <2> HIDE DEF spread, gaps
    <2>1. gaps \in SUBSET Nat /\ gaps # {} /\ \A x \in gaps : x <= most
      <3>1. 1 \in 1..B
        BY <1>1
      <3> QED BY <1>12, <1>15, <3>1
    <2>2. Max(gaps) \in gaps /\ Max(gaps) \in Nat /\ \A y \in gaps : Max(gaps) >= y
      BY <2>1, MaxIs
    <2>3. \A b \in 1..B : spread[b] \in gaps
      BY <1>12
    <2>4. \A b \in 1..B : Max(gaps) >= spread[b]
      BY <2>2, <2>3
    <2> QED BY <1>15, <2>2, <2>4
  <1> HIDE DEF gap
  <1>17. \A b \in 1..B : ByValue(vals)[DP * (b - 1) + DP][2] - ByValue(vals)[DP * (b - 1) + 1][2] <= gap
    <2> TAKE b \in 1..B
    <2>1. spread[b] = its[DP * (b - 1) + DP][2] - its[DP * (b - 1) + 1][2]
      BY <1>11
    <2> HIDE DEF spread
    <2> QED BY <1>16, <2>1 DEF its
  <1> HIDE DEF spread, gaps
  <1> DEFINE load == [r \in 1..DP |-> SumOver(vals, Range(Plan[r]))]
  <1>18. /\ \A i, j \in 1..DP : load[i] - load[j] <= gap
         /\ \A i \in 1..DP : load[i] \in Nat
    <2>1. Plan = Partitions(vals, DP, TRUE)
      BY DEF Plan, vals
    <2>2. DP \in Nat \ {0} /\ B \in Nat \ {0} /\ n \in Nat /\ n = DP * B /\ vals \in [1..n -> Nat \ {0}] /\ gap \in Nat
      BY <1>1, <1>2, <1>4, <1>5, <1>16
    <2>3. /\ \A i, j \in 1..DP : SumOver(vals, Range(Plan[i])) - SumOver(vals, Range(Plan[j])) <= gap
          /\ \A i \in 1..DP : SumOver(vals, Range(Plan[i])) \in Nat
      BY ONLY <1>17, <2>1, <2>2, SplitIsBalanced
    <2> QED BY <2>3
  <1>19. loads = {load[r] : r \in 1..DP}
    <2>1. ASSUME NEW r \in Ranks PROVE MapThenSumSet(cost, Range(Rows(r))) = load[r]
      <3> DEFINE S == Range(Plan[r])
      <3>1. S \in SUBSET (1..n)
        <4>1. Plan[r] \in Seq(1..n)
          BY <1>1, <1>2 DEF IsDivision
        <4> DEFINE l == Plan[r]
                   T == 1..n
        <4> HIDE DEF l, T
        <4>2. l \in Seq(T)
          BY <4>1 DEF l, T
        <4>3. \A p \in DOMAIN l : l[p] \in T
          <5>1. DOMAIN l = 1..Len(l) /\ \A p \in 1..Len(l) : l[p] \in T
            BY <4>2
          <5> QED BY <5>1
        <4>4. Range(l) \in SUBSET T
          BY <4>3 DEF Range
        <4> QED BY <4>4 DEF l, T
      <3>2. DOMAIN RowLens = 1..n /\ \A i \in 1..n : RowLens[i] = rows[i].len
        BY <1>4
      <3> DEFINE lens == RowLens
      <3> HIDE DEF S, lens
      <3>3. DOMAIN lens = 1..n /\ \A i \in 1..n : lens[i] = rows[i].len
        BY <3>2 DEF lens
      <3>4. MapThenSumSet(LAMBDA key : Workload(rows[key].len), S) = SumOver(Workloads(lens), S)
        BY <3>1, <3>3, LoadIs
      <3>5. Rows(r) = Plan[r]
        BY <1>1
      <3> QED BY <1>2, <3>4, <3>5 DEF S, lens, vals
    <2> HIDE DEF load, cost
    <2> QED BY <1>2, <2>1
  <1> HIDE DEF load, loads
  <1>20. Max(loads) \in loads /\ Min(loads) \in loads
    <2>1. loads \in SUBSET Nat /\ loads # {}
      <3>1. 1 \in 1..DP
        BY <1>2
      <3> QED BY <1>18, <1>19, <3>1
    <2>2. \A x \in loads : x <= load[1] + gap
      <3> TAKE x \in loads
      <3>1. PICK i \in 1..DP : x = load[i]
        BY <1>19
      <3>2. 1 \in 1..DP
        BY <1>2
      <3>3. load[i] - load[1] <= gap /\ load[i] \in Nat /\ load[1] \in Nat
        BY <1>18, <3>2
      <3> QED BY <1>16, <3>1, <3>3
    <2>3. load[1] + gap \in Nat
      <3>1. 1 \in 1..DP
        BY <1>2
      <3> QED BY <1>16, <1>18, <3>1
    <2>4. Max(loads) \in loads
      BY <2>1, <2>2, <2>3, MaxIs
    <2>5. Min(loads) \in loads
      BY <2>1, MinIs
    <2> QED BY <2>4, <2>5
  <1>21. Max(loads) - Min(loads) <= gap
    BY <1>18, <1>19, <1>20
  <1> QED BY <1>21 DEF gap

\* The ranks get equal work, to within what DP neighbours in the order of workload
\* differ by (_balance_batch).
THEOREM Balanced == Spec => []RanksAreBalanced
  <1>1. Control => RanksAreBalanced
    <2> SUFFICES ASSUME Control, phase = "scoring" PROVE RanksAreBalanced
      BY DEF RanksAreBalanced
    <2>1. Dispatched
      BY DEF Control, TrainerOk
    <2> QED BY <2>1, BalancedOnDispatch DEF RanksAreBalanced
  <1> QED BY <1>1, ControlHolds, PTL

\* Micro-batches of a fixed size take the rows in order.
LEMMA ChunksAre ==
    ASSUME NEW K \in Nat \ {0}, NEW n \in Nat, n = MicroSize * K
    PROVE  /\ Chunks(n) \in [1..K -> Seq(1..n)] /\ Len(Chunks(n)) = K
           /\ FlattenSeq(Chunks(n)) = Identity(n)
  <1> DEFINE T == 1..n
             e == [m \in Nat |-> MicroSize * m]
             start == [b \in 1..K |-> MicroSize * (b - 1)]
             chunks == Chunks(n)
  <1>0. MicroSize \in Nat \ {0}
    BY ActorUpdateAssumption
  <1>1. /\ e[0] = 0 /\ e[K] = n
        /\ \A m \in Nat : e[m] \in Nat /\ e[m + 1] = e[m] + MicroSize
    <2>1. \A m \in Nat : e[m] = MicroSize * m
      OBVIOUS
    <2>2. \A m \in Nat : MicroSize * m \in Nat /\ MicroSize * (m + 1) = MicroSize * m + MicroSize
      BY <1>0, TimesGrows
    <2>3. MicroSize * 0 = 0
      BY <1>0
    <2> QED BY <2>1, <2>2, <2>3
  <1>2. \A m \in 1..K : /\ start[m] = e[m - 1] /\ m - 1 \in Nat
                        /\ \A p \in 1..MicroSize : start[m] + p \in 1..n
    <2>1. \A m \in 1..K : start[m] = MicroSize * (m - 1)
      OBVIOUS
    <2>2. \A m \in 1..K : start[m] = e[m - 1] /\ m - 1 \in Nat
      OBVIOUS
    <2> HIDE DEF start, e
    <2>3. AreStarts(start, MicroSize, K)
      BY <2>1 DEF AreStarts
    <2>4. AreBlocks(start, MicroSize, K)
      BY <1>0, <2>3, BlockPlaces
    <2> QED BY <2>2, <2>4 DEF AreBlocks
  <1>3. chunks = [m \in 1..K |-> [i \in 1..MicroSize |-> start[m] + i]]
    <2>1. n \div MicroSize = K
      BY <1>0, Multiples
    <2>2. \A m \in 1..K : start[m] = MicroSize * (m - 1)
      OBVIOUS
    <2> HIDE DEF start
    <2>3. chunks = [m \in 1..K |-> [i \in 1..MicroSize |-> MicroSize * (m - 1) + i]]
      BY <2>1 DEF Chunks
    <2>4. \A m \in 1..K : [i \in 1..MicroSize |-> MicroSize * (m - 1) + i] = [i \in 1..MicroSize |-> start[m] + i]
      BY <2>2
    <2> HIDE DEF chunks
    <2> QED BY <2>3, <2>4
  <1> HIDE DEF e, start, chunks, T
  <1>4. chunks \in [1..K -> Seq(T)] /\ Len(chunks) = K
    <2>1. \A m \in 1..K : [i \in 1..MicroSize |-> start[m] + i] \in Seq(T)
      <3> TAKE m \in 1..K
      <3>1. \A i \in 1..MicroSize : start[m] + i \in T
        BY <1>2 DEF T
      <3>2. [i \in 1..MicroSize |-> start[m] + i] \in [1..MicroSize -> T]
        BY <3>1
      <3>3. MicroSize \in Nat
        BY <1>0
      <3> DEFINE c == [i \in 1..MicroSize |-> start[m] + i]
      <3> HIDE DEF c
      <3>4. c \in Seq(T)
        BY <3>2, <3>3 DEF c
      <3> QED BY <3>4 DEF c
    <2>2. chunks \in [1..K -> Seq(T)]
      BY <1>3, <2>1
    <2>3. Len(chunks) = K
      BY <1>3
    <2> QED BY <2>2, <2>3
  <1>5. AreFirst(chunks, K, T)
    BY <1>4, FirstOfIs
  <1> DEFINE Good == {m \in Nat : m <= K => FirstOf(chunks, K, m) = Identity(e[m])}
  <1>6. 0 \in Good
    <2>1. Identity(0) = <<>>
      BY DEF Identity
    <2> QED BY <1>1, <1>5, <2>1 DEF AreFirst
  <1>7. ASSUME NEW m \in Nat, m \in Good PROVE m + 1 \in Good
    <2> SUFFICES ASSUME m + 1 <= K PROVE FirstOf(chunks, K, m + 1) = Identity(e[m + 1])
      OBVIOUS
    <2>1. m + 1 \in 1..K /\ (m + 1) - 1 = m /\ m <= K
      OBVIOUS
    <2>2. FirstOf(chunks, K, m) = Identity(e[m])
      BY <1>7, <2>1
    <2>3. FirstOf(chunks, K, m + 1) = FirstOf(chunks, K, (m + 1) - 1) \o chunks[m + 1]
      BY <1>5, <2>1 DEF AreFirst
    <2>4. chunks[m + 1] = [i \in 1..MicroSize |-> e[m] + i]
      BY <1>2, <1>3, <2>1
    <2>5. Identity(e[m]) \o chunks[m + 1] = Identity(e[m] + MicroSize)
      BY <1>0, <1>1, <2>4, IdentityGrows
    <2> QED BY <1>1, <2>1, <2>2, <2>3, <2>5
  <1>8. Good \in SUBSET Nat
    OBVIOUS
  <1>9. K \in Good => FirstOf(chunks, K, K) = Identity(e[K])
    OBVIOUS
  <1> HIDE DEF Good
  <1>10. K \in Good
    BY <1>6, <1>7, <1>8, NumbersInduct
  <1>11. FlattenSeq(chunks) = Identity(n)
    BY <1>1, <1>5, <1>9, <1>10 DEF AreFirst
  <1> QED BY <1>4, <1>11 DEF chunks, T

\* The micro-batches of a rank hold each of its rows once.
Arranged(r) ==
    /\ count[r] \in Nat \ {0} /\ parts[r] \in [1..count[r] -> Seq(1..Size)]
    /\ IsPermutation(FlattenSeq(parts[r]), Size)
    /\ ~conf.dynamic => FlattenSeq(parts[r]) = Identity(Size)

\* What a rank has computed log-probabilities of.
IsScored(r) ==
    /\ pc[r] \in ({"num_tokens", "prepare", "count"} \cup Searching) => outputs[r] = <<>>
    /\ pc[r] \in {"forward", "micro", "metrics", "returned"} => Arranged(r)
    /\ pc[r] \in {"forward", "micro"} => outputs[r] = Mapped(Rows(r), FirstOf(parts[r], count[r], micro[r] - 1))
    /\ pc[r] \in {"metrics", "returned"} => outputs[r] = Mapped(Rows(r), FlattenSeq(parts[r]))

Delivered ==
    /\ DOMAIN outputs = Ranks
    /\ phase = "sampled" => \A r \in Ranks : outputs[r] = <<>>
    /\ phase = "scoring" => \A r \in Ranks : pc[r] # "raised" => IsScored(r)
    /\ RowsReachTheirKeys

LEMMA DeliveredStays ==
    ASSUME Delivered, UNCHANGED trainer, phase # "sampled", DOMAIN outputs' = Ranks,
           phase = "scoring" => \A r \in Ranks : pc'[r] # "raised" => IsScored(r)'
    PROVE  Delivered'
  <1>1. phase' = phase /\ column' = column /\ rows' = rows
    BY DEF trainer
  <1>2. RowsReachTheirKeys'
    BY <1>1 DEF Delivered, RowsReachTheirKeys
  <1> QED BY <1>1, <1>2 DEF Delivered

LEMMA ScoredStays ==
    ASSUME UNCHANGED trainer, NEW r \in Ranks, Untouched(r), outputs'[r] = outputs[r], IsScored(r)
    PROVE  IsScored(r)'
  <1>1. conf' = conf /\ Size' = Size
    BY SameHands
  <1>2. Rows(r)' = Rows(r)
    BY SameHands DEF Rows
  <1>3. Arranged(r) => Arranged(r)'
    BY <1>1 DEF Arranged, Untouched
  <1> QED BY <1>2, <1>3 DEF IsScored, Untouched

\* A step of one rank in the scoring pass.
LEMMA ScoringStep ==
    ASSUME Delivered, UNCHANGED trainer, phase = "scoring", outputs' = outputs, NEW r \in Ranks,
           \A s \in Ranks : s # r => Untouched(s),
           pc'[r] # "raised" => IsScored(r)'
    PROVE  Delivered'
  <1>1. ASSUME NEW s \in Ranks, pc'[s] # "raised" PROVE IsScored(s)'
    <2>1. CASE s = r
      BY <1>1, <2>1
    <2>2. CASE s # r
      <3>1. Untouched(s) /\ outputs'[s] = outputs[s]
        BY <2>2
      <3>2. IsScored(s)
        BY <1>1, <3>1 DEF Delivered, Untouched
      <3> QED BY <3>1, <3>2, ScoredStays
    <2> QED BY <2>1, <2>2
  <1>2. DOMAIN outputs' = Ranks
    BY DEF Delivered
  <1> QED BY <1>1, <1>2, DeliveredStays

LEMMA UpdatingStep ==
    ASSUME Delivered, UNCHANGED trainer, phase = "updating", outputs' = outputs
    PROVE  Delivered'
  <1>1. DOMAIN outputs' = Ranks /\ phase # "sampled" /\ phase # "scoring"
    BY DEF Delivered
  <1> QED BY <1>1, DeliveredStays

\* What a rank scores.
LEMMA ScoringHands ==
    ASSUME Dispatched, phase = "scoring", NEW r \in Ranks
    PROVE  /\ Size \in Nat \ {0} /\ Size = Len(Rows(r)) /\ Rows(r) \in [1..Size -> 1..Len(rows)]
           /\ AtHand(r) = Rows(r)
           /\ Size \div MicroSize \in Nat \ {0} /\ Size = MicroSize * (Size \div MicroSize)
  <1> DEFINE n == Len(rows)
             T == 1..n
  <1>1. /\ Size = Len(keys) \div DP /\ Size \in Nat \ {0} /\ Len(Rows(r)) = Size /\ Rows(r) \in Seq(T)
        /\ MiniBatches \in Nat \ {0} /\ Size = MiniSize * MiniBatches
    BY DispatchFacts DEF Size
  <1>2. AtHand(r) = Rows(r)
    BY DEF AtHand
  <1> HIDE DEF T
  <1>3. Rows(r) \in [1..Size -> T]
    <2> DEFINE h == Rows(r)
    <2>1. h \in Seq(T) /\ Len(h) = Size
      BY <1>1
    <2> HIDE DEF h
    <2>2. h \in [1..Size -> T]
      BY <2>1
    <2> QED BY <2>2 DEF h
  <1>4. Size \div MicroSize \in Nat \ {0} /\ Size = MicroSize * (Size \div MicroSize)
    <2> DEFINE q == MiniSize \div MicroSize
    <2>1. MicroSize \in Nat \ {0} /\ MiniSize \in Nat \ {0} /\ MiniSize % MicroSize = 0
      BY ActorUpdateAssumption
    <2>2. q \in Nat /\ MiniSize = MicroSize * q
      BY <2>1
    <2> HIDE DEF q
    <2>3. q # 0
      BY <2>1, <2>2
    <2>4. q * MiniBatches \in Nat /\ q * MiniBatches >= q
      BY <1>1, <2>2, <2>3, Multiples
    <2> DEFINE m == q * MiniBatches
    <2>5. Size = MicroSize * m
      BY <1>1, <2>1, <2>2
    <2>6. m \in Nat \ {0}
      BY <2>2, <2>3, <2>4
    <2> HIDE DEF m
    <2>7. (MicroSize * m) \div MicroSize = m
      BY <2>1, <2>6, Multiples
    <2> QED BY <2>5, <2>6, <2>7
  <1> QED BY <1>1, <1>2, <1>3, <1>4 DEF T

LEMMA PrepareDelivers ==
    ASSUME Control, Delivered, NEW r \in Ranks, Prepare(r)
    PROVE  Delivered'
  <1>1. pc[r] = "prepare" /\ UNCHANGED trainer /\ outputs' = outputs
    BY DEF Prepare
  <1>2. phase \in {"scoring", "updating"} /\ Dispatched
    BY <1>1, AtWork
  <1>3. CASE phase = "updating"
    BY <1>1, <1>3, UpdatingStep
  <1>4. CASE phase = "scoring"
    <2>1. \A s \in Ranks : s # r => Untouched(s)
      BY DEF Prepare, Control, Indexed, Untouched, search
    <2>2. outputs'[r] = <<>>
      BY <1>1, <1>4 DEF Delivered, IsScored
    <2>3. Size' = Size /\ conf' = conf
      BY <1>1, SameHands
    <2>4. IsScored(r)'
      <3>1. CASE conf.dynamic
        <4>1. pc'[r] = "count"
          BY <3>1 DEF Prepare, Control, Indexed
        <4> QED BY <2>2, <4>1 DEF IsScored, Searching
      <3>2. CASE ~conf.dynamic
        <4> DEFINE K == Size \div MicroSize
        <4>1. /\ Size \in Nat \ {0} /\ Len(AtHand(r)) = Size /\ K \in Nat \ {0} /\ Size = MicroSize * K
          BY <1>2, <1>4, ScoringHands
        <4> HIDE DEF K
        <4>2. /\ pc'[r] = "forward" /\ micro'[r] = 1
              /\ parts'[r] = Chunks(Size) /\ count'[r] = Len(Chunks(Size))
          BY <3>2, <4>1 DEF Prepare, Control, Indexed
        <4>3. /\ Chunks(Size) \in [1..K -> Seq(1..Size)] /\ Len(Chunks(Size)) = K
              /\ FlattenSeq(Chunks(Size)) = Identity(Size)
          BY <4>1, ChunksAre
        <4>4. IsPermutation(Identity(Size), Size)
          BY <4>1, IdentityPermutes
        <4>5. Arranged(r)'
          BY <2>3, <4>1, <4>2, <4>3, <4>4 DEF Arranged
        <4>6. outputs'[r] = Mapped(Rows(r)', FirstOf(parts'[r], count'[r], micro'[r] - 1))
          <5>1. FirstOf(parts'[r], count'[r], 0) = <<>>
            BY DEF FirstOf
          <5>2. micro'[r] - 1 = 0
            BY <4>2
          <5>3. Mapped(Rows(r)', <<>>) = <<>>
            BY DEF Mapped
          <5> QED BY <2>2, <5>1, <5>2, <5>3
        <4> QED BY <2>2, <4>2, <4>5, <4>6 DEF IsScored, Searching
      <3> QED BY <3>1, <3>2
    <2> QED BY <1>1, <1>4, <2>1, <2>4, ScoringStep
  <1> QED BY <1>2, <1>3, <1>4

LEMMA SearchDelivers ==
    ASSUME Control, Delivered, NEW r \in Ranks, Search(r)
    PROVE  Delivered'
  <1>1. pc[r] = "search" /\ UNCHANGED trainer /\ outputs' = outputs
    BY DEF Search
  <1>2. phase \in {"scoring", "updating"} /\ Dispatched
    BY <1>1, AtWork
  <1>3. CASE phase = "updating"
    BY <1>1, <1>3, UpdatingStep
  <1>4. CASE phase = "scoring"
    <2>1. \A s \in Ranks : s # r => Untouched(s)
      BY DEF Search, Control, Indexed, Untouched, gradients, metrics
    <2>2. outputs'[r] = <<>>
      BY <1>1, <1>4 DEF Delivered, IsScored, Searching
    <2>3. pc'[r] \in {"within", "raised"}
      BY DEF Search, Control, Indexed
    <2>4. pc'[r] # "raised" => IsScored(r)'
      BY <2>2, <2>3 DEF IsScored
    <2> QED BY <1>1, <1>4, <2>1, <2>4, ScoringStep
  <1> QED BY <1>2, <1>3, <1>4

LEMMA ForwardDelivers ==
    ASSUME Control, Delivered, NEW r \in Ranks, Forward(r)
    PROVE  Delivered'
  <1>1. pc[r] = "forward" /\ UNCHANGED trainer /\ outputs' = outputs
    BY DEF Forward
  <1>2. phase \in {"scoring", "updating"} /\ Dispatched /\ IsCounted(r) /\ IsPlaced(r)
    BY <1>1, AtWork
  <1>3. CASE phase = "updating"
    BY <1>1, <1>3, UpdatingStep
  <1>4. CASE phase = "scoring"
    <2>1. \A s \in Ranks : s # r => Untouched(s)
      BY DEF Forward, Control, Indexed, Untouched, gradients, metrics, search
    <2>2. Arranged(r) /\ outputs[r] = Mapped(Rows(r), FirstOf(parts[r], count[r], micro[r] - 1))
      BY <1>1, <1>4 DEF Delivered, IsScored
    <2>3. /\ pc'[r] = (IF micro[r] > count[r] THEN "metrics" ELSE "micro")
          /\ outputs'[r] = outputs[r] /\ parts'[r] = parts[r] /\ count'[r] = count[r] /\ micro'[r] = micro[r]
      BY <1>4 DEF Forward, Control, Indexed, AfterForward, search
    <2>4. conf' = conf /\ Size' = Size /\ Rows(r)' = Rows(r)
      BY <1>1, SameHands DEF Rows
    <2>5. Arranged(r)'
      BY <2>2, <2>3, <2>4 DEF Arranged
    <2>6. CASE micro[r] > count[r]
      <3>1. count[r] \in Nat \ {0} /\ parts[r] \in [1..count[r] -> Seq(1..Size)] /\ micro[r] \in 1..(count[r] + 1)
        BY <1>1, <1>2, <2>2 DEF Arranged, IsCounted, InForward
      <3>2. micro[r] - 1 = count[r]
        BY <2>6, <3>1
      <3> DEFINE T == 1..Size
                 k == count[r]
      <3>3. k \in Nat \ {0} /\ parts[r] \in [1..k -> Seq(T)]
        BY <3>1
      <3> HIDE DEF T, k
      <3>4. AreFirst(parts[r], k, T)
        BY <3>3, FirstOfIs
      <3>5. FirstOf(parts[r], count[r], micro[r] - 1) = FlattenSeq(parts[r])
        BY <3>2, <3>4 DEF AreFirst, k
      <3>6. outputs'[r] = Mapped(Rows(r)', FlattenSeq(parts'[r])) /\ pc'[r] = "metrics"
        BY <2>2, <2>3, <2>4, <2>6, <3>5
      <3>7. IsScored(r)'
        BY <2>5, <3>6 DEF IsScored, Searching
      <3> QED BY <1>1, <1>4, <2>1, <3>7, ScoringStep
    <2>7. CASE ~ micro[r] > count[r]
      <3>1. outputs'[r] = Mapped(Rows(r)', FirstOf(parts'[r], count'[r], micro'[r] - 1)) /\ pc'[r] = "micro"
        BY <2>2, <2>3, <2>4, <2>7
      <3>2. IsScored(r)'
        BY <2>5, <3>1 DEF IsScored, Searching
      <3> QED BY <1>1, <1>4, <2>1, <3>2, ScoringStep
    <2> QED BY <2>6, <2>7
  <1> QED BY <1>2, <1>3, <1>4

\* A step of all ranks in the scoring pass.
LEMMA TogetherDelivers ==
    ASSUME Control, Delivered, UNCHANGED trainer, NEW c \in Collectives, \A r \in Ranks : pc[r] = c,
           DOMAIN outputs' = Ranks, phase = "scoring" => \A r \in Ranks : IsScored(r)'
    PROVE  Delivered'
  <1>1. phase # "sampled"
    BY AllAtWork
  <1> QED BY <1>1, DeliveredStays

LEMMA RaiseDelivers ==
    ASSUME Control, Delivered, NEW r \in Ranks, Raise(r)
    PROVE  Delivered'
  <1>1. pc[r] = "forward" /\ UNCHANGED trainer /\ outputs' = outputs
    BY DEF Raise
  <1>2. phase \in {"scoring", "updating"}
    BY <1>1, AtWork
  <1>3. CASE phase = "updating"
    BY <1>1, <1>3, UpdatingStep
  <1>4. CASE phase = "scoring"
    <2>1. \A s \in Ranks : s # r => Untouched(s)
      BY DEF Raise, Control, Indexed, Untouched, gradients, metrics, search
    <2>2. pc'[r] = "raised"
      BY DEF Raise, Control, Indexed
    <2> QED BY <1>1, <1>4, <2>1, <2>2, ScoringStep
  <1> QED BY <1>2, <1>3, <1>4

\* What belongs to updates alone.
LEMMA UpdateDelivers ==
    ASSUME Control, Delivered, NEW r \in Ranks, NextMiniBatch(r) \/ Finish(r) \/ Measured(r) \/ Step(r)
    PROVE  Delivered'
  <1>1. pc[r] \in {"next", "measured", "step"} /\ UNCHANGED trainer /\ outputs' = outputs
    BY DEF NextMiniBatch, Finish, Measured, Step
  <1>2. phase \in {"scoring", "updating"} /\ IsPlaced(r)
    BY <1>1, AtWork
  <1>3. phase = "updating"
    BY <1>1, <1>2 DEF IsPlaced, Searching
  <1> QED BY <1>1, <1>3, UpdatingStep

LEMMA EarlyDelivers ==
    ASSUME Control, Delivered, CountTokens \/ AgreeOnCount \/ AgreeOnConstraints
    PROVE  Delivered'
  <1>1. PICK c \in {"num_tokens", "count", "constraints"} : \A r \in Ranks : pc[r] = c
    BY DEF CountTokens, AgreeOnCount, AgreeOnConstraints, Meet
  <1>2. UNCHANGED trainer /\ outputs' = outputs /\ \A r \in Ranks : pc'[r] \in {"prepare", "constraints", "search"}
    BY DEF CountTokens, AgreeOnCount, AgreeOnConstraints, Meet
  <1>3. c \in Collectives /\ DOMAIN outputs' = Ranks
    BY <1>2 DEF Collectives, Delivered
  <1>4. ASSUME phase = "scoring", NEW r \in Ranks PROVE IsScored(r)'
    <2>1. outputs[r] = <<>>
      BY <1>1, <1>4 DEF Delivered, IsScored, Searching
    <2> QED BY <1>2, <2>1 DEF IsScored, Searching
  <1> QED BY <1>1, <1>2, <1>3, <1>4, TogetherDelivers

LEMMA NormDelivers ==
    ASSUME Control, Delivered, MeasureNorm
    PROVE  Delivered'
  <1>1. PICK c \in {"norm", "clip"} : \A r \in Ranks : pc[r] = c
    BY DEF MeasureNorm, Meet
  <1>2. UNCHANGED trainer /\ outputs' = outputs
    BY DEF MeasureNorm
  <1>3. c \in Collectives
    BY DEF Collectives
  <1>4. phase \in {"scoring", "updating"} /\ 1 \in Ranks /\ IsPlaced(1)
    BY <1>1, <1>3, AllAtWork
  <1>5. phase = "updating"
    BY <1>1, <1>4 DEF IsPlaced, Searching
  <1> QED BY <1>2, <1>5, UpdatingStep

LEMMA TrainDelivers ==
    ASSUME Control, Delivered, TrainMicroBatch
    PROVE  Delivered'
  BY UpdatingStep DEF TrainMicroBatch

LEMMA MetricsDeliver ==
    ASSUME Control, Delivered, GatherMetrics
    PROVE  Delivered'
  <1>1. UNCHANGED trainer /\ outputs' = outputs /\ parts' = parts /\ count' = count
        /\ "metrics" \in Collectives /\ \A r \in Ranks : pc[r] = "metrics"
    BY DEF GatherMetrics, Meet, Collectives, search
  <1>2. DOMAIN outputs' = Ranks
    BY <1>1 DEF Delivered
  <1>3. ASSUME phase = "scoring", NEW r \in Ranks PROVE IsScored(r)'
    <2>1. Arranged(r) /\ outputs[r] = Mapped(Rows(r), FlattenSeq(parts[r]))
      BY <1>1, <1>3 DEF Delivered, IsScored
    <2>2. pc'[r] = "returned"
      BY <1>3 DEF GatherMetrics, Meet
    <2>3. conf' = conf /\ Size' = Size /\ Rows(r)' = Rows(r)
      BY <1>1, SameHands DEF Rows
    <2>4. Arranged(r)'
      BY <1>1, <2>1, <2>3 DEF Arranged
    <2> QED BY <1>1, <2>1, <2>2, <2>3, <2>4 DEF IsScored, Searching
  <1> QED BY <1>1, <1>2, <1>3, TogetherDelivers

LEMMA LimitDelivers ==
    ASSUME Control, Delivered, AgreeOnLimit
    PROVE  Delivered'
  <1>1. UNCHANGED trainer /\ outputs' = outputs /\ parts' = parts /\ "within" \in Collectives
        /\ \A r \in Ranks : pc[r] = "within"
    BY DEF AgreeOnLimit, Meet, Collectives
  <1>2. DOMAIN outputs' = Ranks
    BY <1>1 DEF Delivered
  <1>3. /\ phase \in {"scoring", "updating"} /\ Dispatched
        /\ \A r \in Ranks : IsPlaced(r) /\ IsBranched(r) /\ IsCounted(r)
    BY <1>1, AllAtWork
  <1>4. ASSUME phase = "scoring", NEW r \in Ranks PROVE IsScored(r)'
    <2>1. outputs[r] = <<>>
      BY <1>1, <1>4 DEF Delivered, IsScored, Searching
    <2>2. \/ pc'[r] = "search"
          \/ pc'[r] = "forward" /\ micro'[r] = 1 /\ count' = count
      BY DEF AgreeOnLimit, Meet
    <2>3. CASE pc'[r] = "search"
      BY <1>1, <2>1, <2>3 DEF IsScored, Searching
    <2>4. CASE pc'[r] = "forward" /\ micro'[r] = 1 /\ count' = count
      <3> DEFINE k == count[r]
                 lens == Lens(r)
      <3>1. conf.dynamic /\ parts[r] = MicroBatches(lens, k) /\ k \in Least(HandLens[batch[r]])..Number(batch[r])
        BY <1>1, <1>3 DEF IsCounted, Searching
      <3>2. /\ Size \in Nat \ {0} /\ AreLens(HandLens[batch[r]], Size) /\ lens = HandLens[batch[r]][r]
            /\ Least(HandLens[batch[r]]) \in Nat \ {0}
            /\ Number(batch[r]) \in Least(HandLens[batch[r]])..Size
        BY <1>1, <1>3, <3>1, AtHandIs
      <3>3. k \in 1..Size /\ k \in Nat \ {0}
        BY <3>1, <3>2
      <3>4. lens \in [1..Size -> Nat \ {0}]
        <4>1. lens \in [1..Size -> 1..Limit]
          BY <3>2 DEF AreLens
        <4>2. 1..Limit \subseteq Nat \ {0}
          BY ActorUpdateAssumption
        <4> HIDE DEF lens
        <4> QED BY <4>1, <4>2
      <3> HIDE DEF k, lens
      <3>5. IsDivision(MicroBatches(lens, k), k, Size)
        BY <3>2, <3>3, <3>4, MicroBatchesDivide
      <3>6. parts[r] \in [1..k -> Seq(1..Size)] /\ IsPermutation(FlattenSeq(parts[r]), Size)
        <4> DEFINE lists == MicroBatches(lens, k)
        <4>1. IsDivision(lists, k, Size) /\ Size \in Nat /\ parts[r] = lists
          BY <3>1, <3>2, <3>5
        <4> HIDE DEF lists
        <4>2. IsPermutation(FlattenSeq(lists), Size)
          BY <3>3, <4>1, DivisionFlattens
        <4>3. lists \in [1..k -> Seq(1..Size)]
          BY <4>1 DEF IsDivision
        <4> QED BY <4>1, <4>2, <4>3
      <3>7. conf' = conf /\ Size' = Size
        BY <1>1, SameHands
      <3>8. Arranged(r)'
        BY <1>1, <2>4, <3>1, <3>3, <3>6, <3>7 DEF Arranged, k
      <3>9. outputs'[r] = Mapped(Rows(r)', FirstOf(parts'[r], count'[r], micro'[r] - 1))
        <4>1. FirstOf(parts'[r], count'[r], 0) = <<>>
          BY DEF FirstOf
        <4>2. micro'[r] - 1 = 0
          BY <2>4
        <4>3. Mapped(Rows(r)', <<>>) = <<>>
          BY DEF Mapped
        <4> QED BY <1>1, <2>1, <4>1, <4>2, <4>3
      <3> QED BY <2>4, <3>8, <3>9 DEF IsScored, Searching
    <2> QED BY <2>2, <2>3, <2>4
  <1> QED BY <1>1, <1>2, <1>4, TogetherDelivers

LEMMA ScoreDelivers ==
    ASSUME Control, Delivered, ScoreMicroBatch
    PROVE  Delivered'
  <1>1. UNCHANGED trainer /\ parts' = parts /\ count' = count /\ "micro" \in Collectives /\ phase = "scoring"
        /\ \A r \in Ranks : pc[r] = "micro" /\ pc'[r] = "forward" /\ micro'[r] = micro[r] + 1
                            /\ outputs'[r] = outputs[r] \o MicroBatch(r)
    BY DEF ScoreMicroBatch, Meet, Collectives
  <1>2. DOMAIN outputs' = Ranks
    BY DEF ScoreMicroBatch
  <1>3. Dispatched /\ \A r \in Ranks : IsCounted(r)
    BY <1>1, AllAtWork
  <1>4. ASSUME NEW r \in Ranks PROVE IsScored(r)'
    <2> DEFINE T == 1..Size
               k == count[r]
               m == micro[r]
               h == Rows(r)
    <2>1. Arranged(r) /\ outputs[r] = Mapped(h, FirstOf(parts[r], k, m - 1))
      BY <1>1 DEF Delivered, IsScored
    <2>2. m \in 1..k
      <3>1. k \in Nat \ {0}
        BY <2>1 DEF Arranged
      <3>2. m \in 1..(k + 1) /\ m <= k
        BY <1>1, <1>3 DEF IsCounted, InForward
      <3> QED BY <3>1, <3>2
    <2>3. Size \in Nat /\ h \in [1..Size -> 1..Len(rows)] /\ AtHand(r) = h
      BY <1>1, <1>3, ScoringHands
    <2>4. k \in Nat \ {0} /\ parts[r] \in [1..k -> Seq(T)]
      BY <2>1 DEF Arranged
    <2>5. AreFirst(parts[r], k, T)
      <3> HIDE DEF T, k
      <3> QED BY <2>4, FirstOfIs
    <2>6. /\ FirstOf(parts[r], k, m - 1) \in Seq(T) /\ parts[r][m] \in Seq(T)
          /\ FirstOf(parts[r], k, m) = FirstOf(parts[r], k, m - 1) \o parts[r][m]
      <3> HIDE DEF T, k, m
      <3> QED BY <2>2, <2>4, <2>5 DEF AreFirst
    <2>7. MicroBatch(r) = Mapped(h, parts[r][m])
      BY <2>3 DEF MicroBatch, Mapped
    <2>8. outputs'[r] = Mapped(h, FirstOf(parts[r], k, m))
      <3> HIDE DEF h, k, m
      <3>1. outputs'[r] = Mapped(h, FirstOf(parts[r], k, m - 1)) \o Mapped(h, parts[r][m])
        BY <1>1, <2>1, <2>7
      <3> QED BY <2>3, <2>6, <3>1, MappedJoins, ZenonT(30) DEF T
    <2>9. conf' = conf /\ Size' = Size /\ Rows(r)' = h
      BY <1>1, SameHands DEF Rows
    <2>10. Arranged(r)'
      BY <1>1, <2>1, <2>9 DEF Arranged
    <2>11. micro'[r] - 1 = m
      BY <1>1, <2>2
    <2> HIDE DEF h, k, m
    <2>12. outputs'[r] = Mapped(Rows(r)', FirstOf(parts'[r], count'[r], micro'[r] - 1))
      BY <1>1, <2>8, <2>9, <2>11 DEF k
    <2> QED BY <1>1, <2>10, <2>12 DEF IsScored, Searching
  <1> QED BY <1>1, <1>2, <1>4, TogetherDelivers

LEMMA BalanceDelivers ==
    ASSUME Control, Delivered, Balance
    PROVE  Delivered'
  <1>1. /\ outputs' = outputs /\ phase = "sampled" /\ phase' \in {"scoring", "raised"}
        /\ \A r \in Ranks : pc'[r] = "num_tokens"
    BY DEF Balance
  <1>2. DOMAIN outputs' = Ranks /\ \A r \in Ranks : outputs'[r] = <<>>
    BY <1>1 DEF Delivered
  <1>3. \A r \in Ranks : IsScored(r)'
    BY <1>1, <1>2 DEF IsScored, Searching
  <1> QED BY <1>1, <1>2, <1>3 DEF Delivered, RowsReachTheirKeys

LEMMA WriteBackDelivers ==
    ASSUME Control, Delivered, WriteBack
    PROVE  Delivered'
  <1> DEFINE n == Len(rows)
  <1>1. /\ phase = "scoring" /\ phase' = "updating" /\ outputs' = outputs /\ rows' = rows
        /\ \A r \in Ranks : pc[r] = "returned"
    BY DEF WriteBack
  <1>2. Dispatched
    BY <1>1 DEF Control, TrainerOk
  <1>3. /\ IsDivision(Plan, DP, n) /\ \A r \in Ranks : Rows(r) = Plan[r]
    BY <1>2, DispatchFacts
  <1>4. ASSUME NEW r \in Ranks PROVE Returned(r) = Plan[r]
    <2> DEFINE h == Rows(r)
               lists == parts[r]
    <2>1. Arranged(r) /\ outputs[r] = Mapped(h, FlattenSeq(lists))
      BY <1>1 DEF Delivered, IsScored
    <2>2. Size \in Nat /\ h \in [1..Size -> 1..n] /\ h = Plan[r]
      BY <1>1, <1>2, <1>3, ScoringHands
    <2>3. IsPermutation(FlattenSeq(lists), Size)
      BY <2>1 DEF Arranged
    <2>4. CASE conf.dynamic
      <3>1. Returned(r) = RestoreOrder(outputs[r], lists)
        BY <2>4 DEF Returned
      <3> HIDE DEF h, lists
      <3>2. RestoreOrder(outputs[r], lists) = h
        BY <2>1, <2>2, <2>3, Restored
      <3> QED BY <2>2, <3>1, <3>2
    <2>5. CASE ~ conf.dynamic
      <3>1. Returned(r) = Mapped(h, Identity(Size))
        BY <2>1, <2>5 DEF Returned, Arranged
      <3> HIDE DEF h
      <3> QED BY <2>2, <3>1, MappedByIdentity
    <2> QED BY <2>4, <2>5
  <1>5. [r \in Ranks |-> Returned(r)] = Plan
    <2>1. DOMAIN Plan = Ranks /\ Plan = [r \in DOMAIN Plan |-> Plan[r]]
      BY <1>3 DEF IsDivision, Ranks
    <2> QED BY <1>4, <2>1
  <1>6. column' = [key \in DOMAIN rows |-> keys[CHOOSE i \in DOMAIN keys : keys[i] = key]]
    BY <1>2, <1>5 DEF WriteBack, Dispatched
  <1>7. n \in Nat /\ DOMAIN rows = 1..n /\ IsPermutation(keys, n)
    <2>1. n \in Nat /\ DOMAIN rows = 1..n
      BY <1>2 DEF Dispatched
    <2>2. DP \in Nat \ {0}
      BY ActorUpdateAssumption
    <2> HIDE DEF n
    <2>3. IsPermutation(FlattenSeq(Plan), n)
      BY <1>3, <2>1, <2>2, DivisionFlattens
    <2> QED BY <1>2, <2>1, <2>3 DEF Dispatched
  <1>8. \A key \in DOMAIN rows : column'[key] = key
    <2> TAKE key \in DOMAIN rows
    <2>1. DOMAIN keys = 1..n /\ \E i \in 1..n : keys[i] = key
      BY <1>7 DEF IsPermutation
    <2>2. keys[CHOOSE i \in DOMAIN keys : keys[i] = key] = key
      BY <2>1
    <2> QED BY <1>6, <2>2
  <1> QED BY <1>1, <1>8 DEF Delivered, RowsReachTheirKeys

LEMMA DeliveredHolds == Spec => []Delivered
  <1>1. Init => Delivered
    BY DEF Init, Delivered, RowsReachTheirKeys
  <1>2. Control /\ Delivered /\ [Next]_vars => Delivered'
    <2> SUFFICES ASSUME Control, Delivered, [Next]_vars PROVE Delivered'
      OBVIOUS
    <2>1. CASE Balance
      BY <2>1, BalanceDelivers
    <2>2. CASE WriteBack
      BY <2>2, WriteBackDelivers
    <2>3. CASE Collective
      BY <2>3, EarlyDelivers, LimitDelivers, ScoreDelivers, TrainDelivers, NormDelivers, MetricsDeliver
         DEF Collective
    <2>4. ASSUME NEW r \in Ranks, Local(r) PROVE Delivered'
      BY <2>4, UpdateDelivers, PrepareDelivers, SearchDelivers, ForwardDelivers, RaiseDelivers DEF Local
    <2>5. CASE UNCHANGED vars
      <3>1. UNCHANGED trainer /\ outputs' = outputs /\ phase' = phase /\ column' = column /\ rows' = rows
        BY <2>5 DEF vars, trainer
      <3>2. \A r \in Ranks : Untouched(r)
        BY <2>5 DEF vars, Untouched, search, gradients, metrics
      <3>3. \A r \in Ranks : IsScored(r) => IsScored(r)'
        BY <3>1, <3>2, ScoredStays
      <3> QED BY <3>1, <3>2, <3>3 DEF Delivered, RowsReachTheirKeys, Untouched
    <2> QED BY <2>1, <2>2, <2>3, <2>4, <2>5 DEF Next
  <1> QED BY <1>1, <1>2, ControlHolds, PTL DEF Spec

\* Every key gets the log-probabilities of its own row, however the batch was padded,
\* reordered, divided and run (rearrange_micro_batches, restore_dynamic_batch).
THEOREM RowsArrive == Spec => []RowsReachTheirKeys
  <1>1. Delivered => RowsReachTheirKeys
    BY DEF Delivered
  <1> QED BY <1>1, DeliveredHolds, PTL
-----------------------------------------------------------------------------
\* Gradients.

LEMMA BagsJoin ==
    ASSUME NEW A, NEW B, A \cap B = {}
    PROVE  SetToBag(A) (+) SetToBag(B) = SetToBag(A \cup B)
  BY DEF SetToBag, (+)

LEMMA ZeroIs == Zero = SetToBag({})
  BY DEF Zero, EmptyBag

\* The fold of SumOf.
IsGathering(g, f, S) ==
    g = [s \in SUBSET S |-> IF s = {} THEN Zero ELSE f[First(s)] (+) g[s \ {First(s)}]]

LEMMA GatheringUnfolds ==
    ASSUME NEW g, NEW f, NEW S, IsGathering(g, f, S), NEW s \in SUBSET S, s # {}
    PROVE  First(s) \in s /\ g[s] = f[First(s)] (+) g[s \ {First(s)}]
  <1>1. First(s) \in s
    BY FirstIsIn
  <1> QED BY <1>1 DEF IsGathering

LEMMA SumOfIs ==
    ASSUME NEW bags
    PROVE  SumOf(bags) = (CHOOSE g : IsGathering(g, bags, DOMAIN bags))[DOMAIN bags]
  BY DEF SumOf, IsGathering, FoldSeq, FoldFunction, FoldFunctionOnSet, MapThenFoldSet, First

\* Sets apart have all their elements once in the sum of their bags.
LEMMA SetsAddUp ==
    ASSUME NEW n \in Nat, NEW D, \A s, t \in 1..n : s # t => D[s] \cap D[t] = {}
    PROVE  SumOf([s \in 1..n |-> SetToBag(D[s])]) = SetToBag(UNION {D[s] : s \in 1..n})
  <1> DEFINE S == 1..n
             f == [s \in S |-> SetToBag(D[s])]
             All(x) == UNION {D[s] : s \in x}
  <1>0. IsFiniteSet(S) /\ DOMAIN f = S
    BY FS_Interval
  <1>1. ASSUME NEW x \in SUBSET S, x # {}
        PROVE  f[First(x)] (+) SetToBag(All(x \ {First(x)})) = SetToBag(All(x))
    <2> DEFINE c == First(x)
    <2>1. c \in x
      BY <1>1, FirstIsIn
    <2> HIDE DEF c
    <2>2. f[c] = SetToBag(D[c])
      BY <2>1
    <2>3. D[c] \cap All(x \ {c}) = {}
      BY <2>1
    <2>4. D[c] \cup All(x \ {c}) = All(x)
      BY <2>1
    <2>5. SetToBag(D[c]) (+) SetToBag(All(x \ {c})) = SetToBag(D[c] \cup All(x \ {c}))
      BY <2>3, BagsJoin
    <2> QED BY <2>2, <2>4, <2>5 DEF c
  <1>2. SetToBag(All({})) = Zero
    <2>1. All({}) = {}
      OBVIOUS
    <2> QED BY <2>1, ZeroIs
  <1>3. \E g : IsGathering(g, f, S)
    <2> DEFINE G == [x \in SUBSET S |-> SetToBag(All(x))]
    <2>1. ASSUME NEW x \in SUBSET S
          PROVE  G[x] = IF x = {} THEN Zero ELSE f[First(x)] (+) G[x \ {First(x)}]
      <3>1. CASE x = {}
        BY <1>2, <3>1
      <3>2. CASE x # {}
        <4>1. x \ {First(x)} \in SUBSET S
          OBVIOUS
        <4> HIDE DEF f, All
        <4>2. G[x] = SetToBag(All(x)) /\ G[x \ {First(x)}] = SetToBag(All(x \ {First(x)}))
          BY <4>1
        <4> QED BY <1>1, <3>2, <4>2
      <3> QED BY <3>1, <3>2
    <2>2. G = [x \in SUBSET S |-> G[x]]
      OBVIOUS
    <2> HIDE DEF G, f
    <2>3. IsGathering(G, f, S)
      BY <2>1, <2>2 DEF IsGathering
    <2> QED BY <2>3
  <1> DEFINE g == CHOOSE h : IsGathering(h, f, S)
  <1>4. IsGathering(g, f, S)
    <2> HIDE DEF f, S
    <2> QED BY <1>3
  <1> HIDE DEF g
  <1> DEFINE Good == {x \in SUBSET S : g[x] = SetToBag(All(x))}
  <1>5. ASSUME NEW x \in SUBSET S, \A y \in x : x \ {y} \in Good
        PROVE  x \in Good
    <2>1. CASE x = {}
      <3>1. g[x] = Zero
        BY <1>4, <2>1 DEF IsGathering
      <3> QED BY <1>2, <2>1, <3>1
    <2>2. CASE x # {}
      <3> HIDE DEF f, Good
      <3>1. First(x) \in x /\ g[x] = f[First(x)] (+) g[x \ {First(x)}]
        <4> HIDE DEF S
        <4>1. x \in SUBSET S
          OBVIOUS
        <4> QED BY ONLY <1>4, <2>2, <4>1, GatheringUnfolds
      <3>2. g[x \ {First(x)}] = SetToBag(All(x \ {First(x)}))
        BY <1>5, <3>1 DEF Good
      <3>3. g[x] = SetToBag(All(x))
        BY <1>1, <2>2, <3>1, <3>2
      <3> QED BY <3>3 DEF Good
    <2> QED BY <2>1, <2>2
  <1>6. Good \in SUBSET SUBSET S
    OBVIOUS
  <1>7. S \in Good
    <2> HIDE DEF Good, S
    <2>1. \A x \in SUBSET S : x \in Good
      BY ONLY <1>0, <1>5, <1>6, SetsInduct
    <2> QED BY <2>1
  <1>8. SumOf(f) = g[S]
    <2> HIDE DEF f, S
    <2> QED BY <1>0, SumOfIs DEF g
  <1> QED BY <1>7, <1>8
-----------------------------------------------------------------------------
\* The rows of a mini-batch and of its micro-batches.

\* Mini-batches, of one rank or of several, have no row in common and every row is in one.
HandsDiffer ==
    /\ \A s \in Ranks : \A b \in 1..MiniBatches : MiniBatch(s, b) \in [1..MiniSize -> 1..Len(rows)]
    /\ \A s, t \in Ranks : \A b, c \in 1..MiniBatches : \A i, j \in 1..MiniSize :
          MiniBatch(s, b)[i] = MiniBatch(t, c)[j] => s = t /\ b = c /\ i = j
    /\ \A key \in 1..Len(rows) : \E s \in Ranks : \E b \in 1..MiniBatches : \E i \in 1..MiniSize :
          key = MiniBatch(s, b)[i]

LEMMA MiniBatchesDiffer ==
    ASSUME Dispatched
    PROVE  HandsDiffer
  <1> DEFINE n == Len(rows)
             T == 1..n
             N == MiniBatches
             start == [b \in 1..N |-> MiniSize * (b - 1)]
  <1>1. /\ N \in Nat \ {0} /\ MiniSize \in Nat \ {0}
        /\ \A s \in Ranks : Len(Rows(s)) = MiniSize * N /\ Rows(s) \in Seq(T)
        /\ \A s \in Ranks : Rows(s) = Plan[s]
        /\ IsDivision(Plan, DP, n)
    BY DispatchFacts, ActorUpdateAssumption
  <1>2. AreBlocks(start, MiniSize, N)
    <2>1. \A b \in 1..N : start[b] = MiniSize * (b - 1)
      OBVIOUS
    <2> HIDE DEF start
    <2>2. AreStarts(start, MiniSize, N)
      BY <2>1 DEF AreStarts
    <2> QED BY <1>1, <2>2, BlockPlaces
  <1>3. \A b \in 1..N : start[b] = MiniSize * (b - 1)
    OBVIOUS
  <1> DEFINE m == MiniSize * N
  <1>4. /\ m \in Nat
        /\ \A b \in 1..N : start[b] \in Nat /\ MiniSize * b = start[b] + MiniSize
        /\ \A b \in 1..N : \A p \in 1..MiniSize : start[b] + p \in 1..m
        /\ \A b, c \in 1..N : \A p, q \in 1..MiniSize : start[b] + p = start[c] + q => b = c /\ p = q
        /\ \A i \in 1..m : \E b \in 1..N : \E p \in 1..MiniSize : i = start[b] + p
    BY <1>2 DEF AreBlocks
  <1>5. ASSUME NEW s \in Ranks, NEW b \in 1..N
        PROVE  MiniBatch(s, b) = [i \in 1..MiniSize |-> Rows(s)[start[b] + i]]
    <2> DEFINE h == Rows(s)
               a == start[b]
               e == MiniSize * b
    <2>1. MiniBatch(s, b) = SubSeq(h, a + 1, e)
      BY <1>3 DEF MiniBatch
    <2>2. a \in Nat /\ e = a + MiniSize
      BY <1>4
    <2> DEFINE u == SubSeq(h, a + 1, a + MiniSize)
    <2>3. h \in Seq(T) /\ \A p \in 1..MiniSize : a + p \in 1..Len(h)
      BY <1>1, <1>4
    <2>4. MiniBatch(s, b) = u
      BY <2>1, <2>2
    <2> HIDE DEF h, a, T
    <2>5. u \in Seq(T) /\ Len(u) = MiniSize /\ \A p \in 1..MiniSize : u[p] = h[a + p]
      <3>1. 1 \in 1..MiniSize /\ MiniSize \in 1..MiniSize
        BY <1>1
      <3>2. a + 1 \in 1..Len(h) /\ a + MiniSize \in 1..Len(h)
        BY <2>3, <3>1
      <3> QED BY <1>1, <2>2, <2>3, <3>2
    <2> HIDE DEF u
    <2>6. u = [p \in 1..MiniSize |-> u[p]]
      BY <2>5
    <2>7. u = [p \in 1..MiniSize |-> h[a + p]]
      BY <2>5, <2>6
    <2> QED BY <2>4, <2>7 DEF h, a
  <1> HIDE DEF start, m
  <1>6. \A s \in Ranks : \A b \in 1..N : \A i \in 1..MiniSize :
           /\ MiniBatch(s, b)[i] = Plan[s][start[b] + i]
           /\ start[b] + i \in 1..Len(Plan[s])
           /\ MiniBatch(s, b)[i] \in T
    <2> TAKE s \in Ranks
    <2> TAKE b \in 1..N
    <2> TAKE i \in 1..MiniSize
    <2>0. Rows(s) = Plan[s]
      BY <1>1
    <2>1. MiniBatch(s, b)[i] = Plan[s][start[b] + i]
      <3>1. MiniBatch(s, b) = [p \in 1..MiniSize |-> Rows(s)[start[b] + p]]
        BY <1>5
      <3> QED BY ONLY <2>0, <3>1, i \in 1..MiniSize
    <2>2. start[b] + i \in 1..Len(Plan[s])
      <3>1. start[b] + i \in 1..m
        BY ONLY <1>4, b \in 1..N, i \in 1..MiniSize
      <3>2. Len(Rows(s)) = m
        BY <1>1 DEF m
      <3> QED BY ONLY <2>0, <3>1, <3>2
    <2>3. Plan[s] \in Seq(T)
      BY <1>1
    <2> HIDE DEF T
    <2>4. Plan[s][start[b] + i] \in T
      BY <2>2, <2>3
    <2> QED BY <2>1, <2>2, <2>4
  <1>7. ASSUME NEW s \in Ranks, NEW b \in 1..N
        PROVE  MiniBatch(s, b) \in [1..MiniSize -> T]
    BY <1>5, <1>6
  <1>8. ASSUME NEW s \in Ranks, NEW t \in Ranks, NEW b \in 1..N, NEW c \in 1..N,
               NEW i \in 1..MiniSize, NEW j \in 1..MiniSize, MiniBatch(s, b)[i] = MiniBatch(t, c)[j]
        PROVE  s = t /\ b = c /\ i = j
    <2>1. Plan[s][start[b] + i] = Plan[t][start[c] + j]
      BY <1>6, <1>8
    <2>2. start[b] + i \in 1..Len(Plan[s]) /\ start[c] + j \in 1..Len(Plan[t])
      BY <1>6
    <2>3. \A x, y \in Ranks : \A p \in 1..Len(Plan[x]) : \A q \in 1..Len(Plan[y]) :
             Plan[x][p] = Plan[y][q] => x = y /\ p = q
      BY <1>1 DEF IsDivision, Ranks
    <2>4. s = t /\ start[b] + i = start[c] + j
      BY ONLY <2>1, <2>2, <2>3, s \in Ranks, t \in Ranks
    <2> QED BY <1>4, <2>4
  <1>9. ASSUME NEW key \in T
        PROVE  \E s \in Ranks : \E b \in 1..N : \E i \in 1..MiniSize : key = MiniBatch(s, b)[i]
    <2>1. PICK s \in Ranks : \E p \in 1..Len(Plan[s]) : Plan[s][p] = key
      BY <1>1 DEF IsDivision, Ranks
    <2>2. PICK p \in 1..Len(Plan[s]) : Plan[s][p] = key
      BY <2>1
    <2>3. p \in 1..m
      <3>1. Len(Rows(s)) = m /\ Rows(s) = Plan[s]
        BY <1>1 DEF m
      <3> QED BY ONLY <2>2, <3>1
    <2>4. PICK b \in 1..N : \E i \in 1..MiniSize : p = start[b] + i
      BY <1>4, <2>3
    <2> QED BY <1>6, <2>2, <2>4
  <1> QED BY <1>7, <1>8, <1>9 DEF HandsDiffer

\* The micro-batches of a rank in an update.
PartsOf(s, b) == IF conf.dynamic THEN MicroBatches(HandLens[b][s], Number(b)) ELSE Chunks(MiniSize)

LEMMA ChunksDivide ==
    ASSUME NEW K \in Nat \ {0}, NEW n \in Nat, n = MicroSize * K
    PROVE  IsDivision(Chunks(n), K, n)
  <1> DEFINE start == [b \in 1..K |-> MicroSize * (b - 1)]
             T == 1..n
  <1>0. MicroSize \in Nat \ {0} /\ n \div MicroSize = K
    BY ActorUpdateAssumption, Multiples
  <1>1. AreBlocks(start, MicroSize, K)
    <2>1. \A b \in 1..K : start[b] = MicroSize * (b - 1)
      OBVIOUS
    <2> HIDE DEF start
    <2>2. AreStarts(start, MicroSize, K)
      BY <2>1 DEF AreStarts
    <2> QED BY <1>0, <2>2, BlockPlaces
  <1>2. /\ \A b \in 1..K : \A p \in 1..MicroSize : start[b] + p \in T
        /\ \A b, c \in 1..K : \A p, q \in 1..MicroSize : start[b] + p = start[c] + q => b = c /\ p = q
        /\ \A i \in T : \E b \in 1..K : \E p \in 1..MicroSize : i = start[b] + p
    BY <1>1 DEF AreBlocks
  <1>3. Chunks(n) = [b \in 1..K |-> [p \in 1..MicroSize |-> start[b] + p]]
    BY <1>0 DEF Chunks
  <1> HIDE DEF start
  <1>4. \A b \in 1..K : /\ Chunks(n)[b] = [p \in 1..MicroSize |-> start[b] + p]
                        /\ Chunks(n)[b] \in Seq(T) /\ Len(Chunks(n)[b]) = MicroSize
    <2> TAKE b \in 1..K
    <2>1. Chunks(n)[b] = [p \in 1..MicroSize |-> start[b] + p]
      BY <1>3
    <2> DEFINE c == Chunks(n)[b]
    <2>2. c \in [1..MicroSize -> T]
      <3>1. \A p \in 1..MicroSize : start[b] + p \in T
        BY <1>2
      <3> HIDE DEF T
      <3> QED BY <2>1, <3>1
    <2> HIDE DEF c, T
    <2>3. c \in Seq(T) /\ Len(c) = MicroSize
      BY <1>0, <2>2
    <2> QED BY <2>1, <2>3 DEF c
  <1>5. Chunks(n) \in [1..K -> Seq(T)]
    BY <1>3, <1>4
  <1>6. \A b \in 1..K : \A p \in 1..MicroSize : Chunks(n)[b][p] = start[b] + p
    BY <1>4
  <1> DEFINE c == Chunks(n)
  <1> HIDE DEF c, T
  <1>7. \A i, j \in 1..K : \A p \in 1..Len(c[i]) : \A q \in 1..Len(c[j]) :
           c[i][p] = c[j][q] => i = j /\ p = q
    <2> TAKE i, j \in 1..K
    <2>1. Len(c[i]) = MicroSize /\ Len(c[j]) = MicroSize
      BY <1>4 DEF c
    <2>2. \A p, q \in 1..MicroSize : c[i][p] = c[j][q] => i = j /\ p = q
      <3>1. \A p \in 1..MicroSize : c[i][p] = start[i] + p
        BY <1>6 DEF c
      <3>2. \A p \in 1..MicroSize : c[j][p] = start[j] + p
        BY <1>6 DEF c
      <3>3. \A p, q \in 1..MicroSize : start[i] + p = start[j] + q => i = j /\ p = q
        BY <1>2
      <3> QED BY ONLY <3>1, <3>2, <3>3
    <2> QED BY ONLY <2>1, <2>2
  <1>8. \A x \in T : \E i \in 1..K : \E p \in 1..Len(c[i]) : c[i][p] = x
    <2> TAKE x \in T
    <2>1. PICK i \in 1..K : \E p \in 1..MicroSize : x = start[i] + p
      BY <1>2
    <2>2. PICK p \in 1..MicroSize : x = start[i] + p
      BY <2>1
    <2>3. Len(c[i]) = MicroSize /\ c[i][p] = x
      BY <1>4, <1>6, <2>2 DEF c
    <2> QED BY <2>3
  <1>9. c \in [1..K -> Seq(T)]
    BY <1>5 DEF c
  <1>10. IsDivision(c, K, n)
    BY ONLY <1>7, <1>8, <1>9 DEF IsDivision, T
  <1> QED BY <1>10 DEF c

LEMMA PartsAre ==
    ASSUME Dispatched, phase = "updating", NEW s \in Ranks, NEW b \in 1..MiniBatches
    PROVE  IsDivision(PartsOf(s, b), Number(b), MiniSize) /\ Number(b) \in Nat \ {0}
           /\ MiniSize \in Nat \ {0}
  <1>1. Size = MiniSize /\ MiniSize \in Nat \ {0} /\ MicroSize \in Nat \ {0} /\ MiniSize % MicroSize = 0
    BY ActorUpdateAssumption DEF Size
  <1>2. MiniBatches \in Nat /\ b \in 0..MiniBatches /\ b # 0
    BY DispatchFacts
  <1>3. AreLens(HandLens[b], MiniSize)
    BY <1>1, <1>2, Hands
  <1>4. CASE conf.dynamic
    <2>1. Number(b) \in 1..MiniSize
      BY <1>1, <1>3, <1>4, SettledIs DEF Number
    <2>2. HandLens[b][s] \in [1..MiniSize -> Nat \ {0}]
      <3>1. HandLens[b][s] \in [1..MiniSize -> 1..Limit]
        BY <1>3 DEF AreLens
      <3>2. 1..Limit \subseteq Nat \ {0}
        BY ActorUpdateAssumption
      <3> QED BY <3>1, <3>2
    <2>3. IsDivision(MicroBatches(HandLens[b][s], Number(b)), Number(b), MiniSize)
      BY <1>1, <2>1, <2>2, MicroBatchesDivide
    <2> QED BY <1>1, <1>4, <2>1, <2>3 DEF PartsOf
  <1>5. CASE ~conf.dynamic
    <2> DEFINE K == MiniSize \div MicroSize
    <2>1. K \in Nat /\ MiniSize = MicroSize * K
      BY <1>1
    <2>2. K = Number(b)
      BY <1>1, <1>5 DEF Number
    <2> HIDE DEF K
    <2>3. K # 0
      BY <1>1, <2>1
    <2>4. IsDivision(Chunks(MiniSize), K, MiniSize)
      BY <1>1, <2>1, <2>3, ChunksDivide
    <2> QED BY <1>1, <1>5, <2>1, <2>2, <2>3, <2>4 DEF PartsOf
  <1> QED BY <1>4, <1>5
-----------------------------------------------------------------------------
\* What a micro-batch adds to a gradient.

\* The keys of a micro-batch.
KeysIn(s, b, m) == {MiniBatch(s, b)[i] : i \in Range(PartsOf(s, b)[m])}

\* Those a branch counts.
Fresh(s, b, br, m) == {key \in KeysIn(s, b, m) : InBranch(key, br)}

\* Those it has counted after m micro-batches.
Done(s, b, br, m) == UNION {Fresh(s, b, br, k) : k \in 1..m}

\* Micro-batches, of one rank or of several, have no key in common and every key is in one.
KeysApart(b) ==
    /\ Number(b) \in Nat \ {0}
    /\ \A s, t \in Ranks : \A k, m \in 1..Number(b) :
          s # t \/ k # m => KeysIn(s, b, k) \cap KeysIn(t, b, m) = {}
    /\ \A s \in Ranks : UNION {KeysIn(s, b, k) : k \in 1..Number(b)} = Range(MiniBatch(s, b))

LEMMA KeysDiffer ==
    ASSUME Dispatched, phase = "updating", NEW b \in 1..MiniBatches
    PROVE  KeysApart(b)
  <1> DEFINE K == Number(b)
             B == MiniSize
  <1>1. K \in Nat \ {0} /\ B \in Nat \ {0}
    <2>1. 1 \in Ranks
      BY ActorUpdateAssumption DEF Ranks
    <2> QED BY <2>1, PartsAre
  <1>2. /\ \A s \in Ranks : MiniBatch(s, b) \in [1..B -> 1..Len(rows)]
        /\ \A s, t \in Ranks : \A i, j \in 1..B : MiniBatch(s, b)[i] = MiniBatch(t, b)[j] => s = t /\ i = j
    BY MiniBatchesDiffer DEF HandsDiffer
  <1>3. ASSUME NEW s \in Ranks
        PROVE  /\ \A k \in 1..K : PartsOf(s, b)[k] \in Seq(1..B)
               /\ \A i, j \in 1..K : \A p \in 1..Len(PartsOf(s, b)[i]) : \A q \in 1..Len(PartsOf(s, b)[j]) :
                     PartsOf(s, b)[i][p] = PartsOf(s, b)[j][q] => i = j /\ p = q
               /\ \A x \in 1..B : \E i \in 1..K : \E p \in 1..Len(PartsOf(s, b)[i]) : PartsOf(s, b)[i][p] = x
    <2>1. IsDivision(PartsOf(s, b), K, B)
      BY PartsAre
    <2> QED BY <2>1 DEF IsDivision
  <1> HIDE DEF K, B
  <1>4. ASSUME NEW s \in Ranks, NEW k \in 1..K, NEW key
        PROVE  key \in KeysIn(s, b, k) <=>
                   \E p \in 1..Len(PartsOf(s, b)[k]) : key = MiniBatch(s, b)[PartsOf(s, b)[k][p]]
    <2> DEFINE u == PartsOf(s, b)[k]
               h == MiniBatch(s, b)
    <2>1. DOMAIN u = 1..Len(u)
      BY <1>3
    <2> HIDE DEF u, h
    <2>2. Range(u) = {u[p] : p \in 1..Len(u)}
      BY <2>1 DEF Range
    <2>3. key \in {h[i] : i \in Range(u)} <=> \E p \in 1..Len(u) : key = h[u[p]]
      BY <2>2
    <2> QED BY <2>3 DEF KeysIn, u, h
  <1>5. ASSUME NEW s \in Ranks, NEW k \in 1..K, NEW p \in 1..Len(PartsOf(s, b)[k])
        PROVE  PartsOf(s, b)[k][p] \in 1..B
    <2> DEFINE u == PartsOf(s, b)[k]
               T == 1..B
    <2>1. u \in Seq(T) /\ p \in 1..Len(u)
      BY <1>3
    <2> HIDE DEF u, T
    <2>2. u[p] \in T
      BY <2>1
    <2> QED BY <2>2 DEF u, T
  <1>6. ASSUME NEW s \in Ranks, NEW t \in Ranks, NEW k \in 1..K, NEW m \in 1..K, NEW key,
               key \in KeysIn(s, b, k), key \in KeysIn(t, b, m)
        PROVE  s = t /\ k = m
    <2>1. PICK p \in 1..Len(PartsOf(s, b)[k]) : key = MiniBatch(s, b)[PartsOf(s, b)[k][p]]
      BY <1>4, <1>6
    <2>2. PICK q \in 1..Len(PartsOf(t, b)[m]) : key = MiniBatch(t, b)[PartsOf(t, b)[m][q]]
      BY <1>4, <1>6
    <2>3. PartsOf(s, b)[k][p] \in 1..B /\ PartsOf(t, b)[m][q] \in 1..B
      BY <1>5
    <2>4. s = t /\ PartsOf(s, b)[k][p] = PartsOf(t, b)[m][q]
      <3> DEFINE i == PartsOf(s, b)[k][p]
                 j == PartsOf(t, b)[m][q]
      <3>1. \A x, y \in 1..B : MiniBatch(s, b)[x] = MiniBatch(t, b)[y] => s = t /\ x = y
        BY <1>2
      <3>2. i \in 1..B /\ j \in 1..B /\ MiniBatch(s, b)[i] = MiniBatch(t, b)[j]
        BY <2>1, <2>2, <2>3
      <3> HIDE DEF i, j
      <3>3. s = t /\ i = j
        BY <3>1, <3>2
      <3> QED BY <3>3 DEF i, j
    <2> QED BY <1>3, <2>4
  <1>7. ASSUME NEW s \in Ranks
        PROVE  UNION {KeysIn(s, b, k) : k \in 1..K} = Range(MiniBatch(s, b))
    <2>0. DOMAIN MiniBatch(s, b) = 1..B
      BY <1>2
    <2>1. ASSUME NEW k \in 1..K, NEW key \in KeysIn(s, b, k) PROVE key \in Range(MiniBatch(s, b))
      <3>1. PICK p \in 1..Len(PartsOf(s, b)[k]) : key = MiniBatch(s, b)[PartsOf(s, b)[k][p]]
        BY <1>4
      <3>2. PartsOf(s, b)[k][p] \in 1..B
        BY <1>5
      <3> QED BY <2>0, <3>1, <3>2 DEF Range
    <2>2. ASSUME NEW key \in Range(MiniBatch(s, b)) PROVE \E k \in 1..K : key \in KeysIn(s, b, k)
      <3>1. PICK i \in 1..B : key = MiniBatch(s, b)[i]
        BY <2>0 DEF Range
      <3>2. PICK k \in 1..K : \E p \in 1..Len(PartsOf(s, b)[k]) : PartsOf(s, b)[k][p] = i
        BY <1>3
      <3>3. PICK p \in 1..Len(PartsOf(s, b)[k]) : PartsOf(s, b)[k][p] = i
        BY <3>2
      <3>4. key \in KeysIn(s, b, k)
        BY <1>4, <3>1, <3>3
      <3> QED BY <3>4
    <2> QED BY <2>1, <2>2
  <1>8. \A s, t \in Ranks : \A k, m \in 1..K : s # t \/ k # m => KeysIn(s, b, k) \cap KeysIn(t, b, m) = {}
    BY <1>6
  <1> QED BY <1>1, <1>7, <1>8 DEF KeysApart, K

LEMMA MicroBatchKeys ==
    ASSUME phase = "updating", NEW r \in Ranks, parts[r] = PartsOf(r, batch[r])
    PROVE  {key \in Range(MicroBatch(r)) : InBranch(key, branch[r])} = Fresh(r, batch[r], branch[r], micro[r])
  <1> DEFINE part == PartsOf(r, batch[r])[micro[r]]
             h == MiniBatch(r, batch[r])
  <1>1. MicroBatch(r) = [i \in DOMAIN part |-> h[part[i]]]
    BY DEF MicroBatch, AtHand
  <1> HIDE DEF part, h
  <1>2. Range(MicroBatch(r)) = {h[i] : i \in Range(part)}
    BY <1>1 DEF Range
  <1> QED BY <1>2 DEF Fresh, KeysIn, part, h

\* A rank's own gradient grows by a micro-batch.
LEMMA DoneGrows ==
    ASSUME NEW b, KeysApart(b), NEW s \in Ranks, NEW br, NEW m \in 1..Number(b)
    PROVE  SetToBag(Done(s, b, br, m - 1)) (+) SetToBag(Fresh(s, b, br, m)) = SetToBag(Done(s, b, br, m))
  <1> DEFINE F(k) == Fresh(s, b, br, k)
  <1>1. \A k \in 1..(m - 1) : F(k) \cap F(m) = {}
    BY DEF KeysApart, Fresh
  <1>2. 1..m = 1..(m - 1) \cup {m}
    BY DEF KeysApart
  <1> HIDE DEF F
  <1>3. (UNION {F(k) : k \in 1..(m - 1)}) \cap F(m) = {}
    BY <1>1
  <1>4. (UNION {F(k) : k \in 1..(m - 1)}) \cup F(m) = UNION {F(k) : k \in 1..m}
    BY <1>2
  <1>5. SetToBag(UNION {F(k) : k \in 1..(m - 1)}) (+) SetToBag(F(m)) = SetToBag(UNION {F(k) : k \in 1..m})
    BY <1>3, <1>4, BagsJoin
  <1> QED BY <1>5 DEF F, Done

\* What the ranks have counted together.
AllDone(b, br, m) == UNION {Done(s, b, br, m) : s \in Ranks}

LEMMA NothingDone ==
    ASSUME NEW b, NEW br
    PROVE  AllDone(b, br, 0) = {} /\ \A s \in Ranks : Done(s, b, br, 0) = {}
  BY DEF AllDone, Done

\* The gradients of the ranks have no key in common.
LEMMA RanksAddUp ==
    ASSUME NEW b, KeysApart(b), NEW br, NEW m \in 0..Number(b)
    PROVE  SumOf([s \in Ranks |-> SetToBag(Done(s, b, br, m))]) = SetToBag(AllDone(b, br, m))
  <1> DEFINE D == [s \in 1..DP |-> Done(s, b, br, m)]
  <1>1. ASSUME NEW s \in 1..DP, NEW t \in 1..DP, s # t PROVE D[s] \cap D[t] = {}
    <2>1. \A k, j \in 1..m : Fresh(s, b, br, k) \cap Fresh(t, b, br, j) = {}
      BY <1>1 DEF KeysApart, Fresh, Ranks
    <2> QED BY <2>1 DEF Done
  <1>2. DP \in Nat
    BY ActorUpdateAssumption
  <1> HIDE DEF D
  <1>3. SumOf([s \in 1..DP |-> SetToBag(D[s])]) = SetToBag(UNION {D[s] : s \in 1..DP})
    BY <1>1, <1>2, SetsAddUp
  <1>4. [s \in 1..DP |-> SetToBag(D[s])] = [s \in Ranks |-> SetToBag(Done(s, b, br, m))]
    BY DEF D, Ranks
  <1>5. UNION {D[s] : s \in 1..DP} = AllDone(b, br, m)
    BY DEF D, Ranks, AllDone
  <1> QED BY <1>3, <1>4, <1>5

\* A micro-batch of every rank, reduced at once.
LEMMA AllDoneGrows ==
    ASSUME NEW b, KeysApart(b), NEW br, NEW m \in 1..Number(b)
    PROVE  SetToBag(AllDone(b, br, m - 1)) (+) SumOf([s \in Ranks |-> SetToBag(Fresh(s, b, br, m))])
           = SetToBag(AllDone(b, br, m))
  <1> DEFINE F == [s \in 1..DP |-> Fresh(s, b, br, m)]
             All == UNION {F[s] : s \in 1..DP}
  <1>1. ASSUME NEW s \in 1..DP, NEW t \in 1..DP, s # t PROVE F[s] \cap F[t] = {}
    BY <1>1 DEF KeysApart, Fresh, Ranks
  <1>2. DP \in Nat
    BY ActorUpdateAssumption
  <1>3. AllDone(b, br, m - 1) \cap All = {}
    <2>1. ASSUME NEW s \in Ranks, NEW t \in Ranks, NEW k \in 1..(m - 1)
          PROVE  Fresh(s, b, br, k) \cap Fresh(t, b, br, m) = {}
      BY DEF KeysApart, Fresh
    <2>2. All = UNION {Fresh(t, b, br, m) : t \in Ranks}
      BY DEF Ranks
    <2> HIDE DEF All
    <2> QED BY <2>1, <2>2 DEF AllDone, Done
  <1>4. AllDone(b, br, m - 1) \cup All = AllDone(b, br, m)
    <2>1. 1..m = 1..(m - 1) \cup {m}
      BY DEF KeysApart
    <2>2. \A s \in Ranks : Done(s, b, br, m) = Done(s, b, br, m - 1) \cup Fresh(s, b, br, m)
      BY <2>1 DEF Done
    <2>3. All = UNION {Fresh(t, b, br, m) : t \in Ranks}
      BY DEF Ranks
    <2> HIDE DEF All
    <2> QED BY <2>2, <2>3 DEF AllDone
  <1> HIDE DEF F
  <1>5. SumOf([s \in 1..DP |-> SetToBag(F[s])]) = SetToBag(All)
    BY <1>1, <1>2, SetsAddUp
  <1>6. [s \in 1..DP |-> SetToBag(F[s])] = [s \in Ranks |-> SetToBag(Fresh(s, b, br, m))]
    BY DEF F, Ranks
  <1> HIDE DEF All
  <1>7. SetToBag(AllDone(b, br, m - 1)) (+) SetToBag(All) = SetToBag(AllDone(b, br, m))
    BY <1>3, <1>4, BagsJoin
  <1> QED BY <1>5, <1>6, <1>7

\* After the last micro-batch every row of the branch has been counted.
LEMMA BranchIsDone ==
    ASSUME NEW b, KeysApart(b), NEW br
    PROVE  SetToBag(AllDone(b, br, Number(b))) = Part(b, br)
  <1>1. AllDone(b, br, Number(b)) = {key \in KeysOf(b) : InBranch(key, br)}
    <2>1. \A s \in Ranks : Done(s, b, br, Number(b)) = {key \in Range(MiniBatch(s, b)) : InBranch(key, br)}
      <3> TAKE s \in Ranks
      <3>1. UNION {KeysIn(s, b, k) : k \in 1..Number(b)} = Range(MiniBatch(s, b))
        BY DEF KeysApart
      <3> QED BY <3>1 DEF Done, Fresh
    <2> QED BY <2>1 DEF AllDone, KeysOf
  <1> QED BY <1>1 DEF Part

\* The branches are apart and make the whole.
LEMMA BranchesMakeWhole ==
    ASSUME NEW b
    PROVE  Part(b, "error") (+) Part(b, "correct") = Whole(b)
  <1>1. {key \in KeysOf(b) : InBranch(key, "error")} \cap {key \in KeysOf(b) : InBranch(key, "correct")} = {}
    BY DEF InBranch
  <1>2. {key \in KeysOf(b) : InBranch(key, "error")} \cup {key \in KeysOf(b) : InBranch(key, "correct")}
        = {key \in KeysOf(b) : InBranch(key, "total")}
    BY DEF InBranch
  <1> QED BY <1>1, <1>2, BagsJoin DEF Part, Whole
-----------------------------------------------------------------------------
\* Gradients and norms in an update.

\* The norms a branch starts with, and those of a mini-batch with branches.
Kept(b, br) == IF br = "error" THEN <<Part(b, "correct")>> ELSE <<>>

OfBranches(b) == IF conf.method = "r2opl_base" THEN <<Part(b, "correct"), Part(b, "error")>> ELSE <<>>

IsNormed(r) ==
    LET b == batch[r] br == branch[r] IN
    /\ pc[r] \in InBranches => (br = "total" <=> conf.method # "r2opl_base")
    /\ pc[r] = "num_tokens" => norms[r] = <<>>
    /\ pc[r] \in InBranches \ {"measured"} => norms[r] = Kept(b, br)
    /\ pc[r] = "measured" => norms[r] = Append(Kept(b, br), Part(b, br))
    /\ pc[r] = "clip" => norms[r] = OfBranches(b)
    /\ pc[r] = "step" => norms[r] = Append(OfBranches(b), Whole(b))

\* With deferred reductions a rank holds its own rows up to the last micro-batch;
\* without them nothing is left with the rank.
IsAccumulated(r) ==
    LET b == batch[r] br == branch[r] m == micro[r] IN
    /\ parts[r] = PartsOf(r, b)
    /\ pc[r] = "micro" => conf.defer /\ m # Number(b)
    /\ pc[r] = "micro_sync" => ~conf.defer \/ m = Number(b)
    /\ conf.defer /\ m <= Number(b) =>
          local[r] = SetToBag(Done(r, b, br, m - 1)) /\ sharded[r] = Zero
    /\ ~(conf.defer /\ m <= Number(b)) =>
          local[r] = Zero /\ sharded[r] = SetToBag(AllDone(b, br, m - 1))

IsReduced(r) ==
    LET b == batch[r] br == branch[r] IN
    /\ pc[r] \in InBranches /\ br = "error" => saved[r].gradient = Part(b, "correct")
    /\ pc[r] \notin InForward => local[r] = Zero
    /\ pc[r] \in {"num_tokens", "prepare", "count"} \cup Searching => sharded[r] = Zero
    /\ pc[r] \in InForward => IsAccumulated(r)
    /\ pc[r] \in {"norm", "measured"} => sharded[r] = Part(b, br)
    /\ pc[r] \in {"clip", "step"} => sharded[r] = Whole(b)

\* The mini-batches up to the n-th whose gradient is finite.
Finite(n) == {b \in 1..n : IsFinite(Whole(b))}

IsApplied(w, n) ==
    /\ Counted(w, Cardinality(Finite(n)))
    /\ \A b \in Finite(n) : w[Cardinality({c \in Finite(n) : c <= b})] = Whole(b)

Held ==
    /\ DOMAIN local = Ranks /\ DOMAIN sharded = Ranks /\ DOMAIN norms = Ranks /\ DOMAIN weights = Ranks

\* What the ranks have gathered of the gradients and applied.
Gathered ==
    /\ Held
    /\ phase = "updating" =>
          \A r \in Ranks : /\ IsApplied(weights[r], Stepped(r))
                           /\ pc[r] # "raised" => IsNormed(r) /\ IsReduced(r)
    /\ phase # "updating" => \A r \in Ranks : local[r] = Zero /\ weights[r] = <<>> /\ batch[r] = 0

-----------------------------------------------------------------------------
\* The numbers are those of the rows.
LEMMA SameGradients ==
    ASSUME rows' = rows, keys' = keys
    PROVE  /\ \A b, o : Part(b, o)' = Part(b, o)
           /\ \A b : Whole(b)' = Whole(b)
           /\ \A n : Finite(n)' = Finite(n)
           /\ \A w, n : IsApplied(w, n)' <=> IsApplied(w, n)
  <1>1. \A b : KeysOf(b)' = KeysOf(b)
    BY DEF KeysOf, MiniBatch, Rows
  <1>2. \A b, o : Part(b, o)' = Part(b, o)
    BY <1>1 DEF Part, InBranch
  <1>3. \A b : Whole(b)' = Whole(b)
    BY <1>2 DEF Whole
  <1>4. \A n : Finite(n)' = Finite(n)
    BY <1>3 DEF Finite, IsFinite
  <1>5. \A w, n : IsApplied(w, n)' <=> IsApplied(w, n)
    BY <1>3, <1>4 DEF IsApplied
  <1> QED BY <1>2, <1>3, <1>4, <1>5

LEMMA SameDone ==
    ASSUME UNCHANGED trainer
    PROVE  /\ \A s, b : PartsOf(s, b)' = PartsOf(s, b)
           /\ \A s, b, br, m : Done(s, b, br, m)' = Done(s, b, br, m)
           /\ \A b, br, m : AllDone(b, br, m)' = AllDone(b, br, m)
  <1>1. conf' = conf /\ rows' = rows /\ keys' = keys /\ HandLens' = HandLens /\ \A b : Number(b)' = Number(b)
    BY SameHands
  <1>2. \A s, b : PartsOf(s, b)' = PartsOf(s, b)
    BY <1>1 DEF PartsOf
  <1>3. \A s, b, m : KeysIn(s, b, m)' = KeysIn(s, b, m)
    BY <1>1, <1>2 DEF KeysIn, MiniBatch, Rows
  <1>4. \A s, b, br, m : Done(s, b, br, m)' = Done(s, b, br, m)
    BY <1>1, <1>3 DEF Done, Fresh, InBranch
  <1> QED BY <1>2, <1>4 DEF AllDone

\* What else a step of one rank leaves of another.
Unmoved(r) ==
    local'[r] = local[r] /\ sharded'[r] = sharded[r] /\ norms'[r] = norms[r] /\ weights'[r] = weights[r]

LEMMA NormedStays ==
    ASSUME UNCHANGED trainer, NEW r \in Ranks, pc'[r] = pc[r], batch'[r] = batch[r], branch'[r] = branch[r],
           norms'[r] = norms[r], IsNormed(r)
    PROVE  IsNormed(r)'
  <1>1. conf' = conf /\ rows' = rows /\ keys' = keys
    BY SameHands
  <1>2. (\A b, o : Part(b, o)' = Part(b, o)) /\ \A b : Whole(b)' = Whole(b)
    BY <1>1, SameGradients
  <1>3. \A b, o : Kept(b, o)' = Kept(b, o) /\ OfBranches(b)' = OfBranches(b)
    BY <1>1, <1>2 DEF Kept, OfBranches
  <1> QED BY <1>1, <1>2, <1>3 DEF IsNormed

LEMMA ReducedStays ==
    ASSUME UNCHANGED trainer, NEW r \in Ranks, Untouched(r), Unmoved(r), IsReduced(r)
    PROVE  IsReduced(r)'
  <1>1. conf' = conf /\ rows' = rows /\ keys' = keys /\ \A b : Number(b)' = Number(b)
    BY SameHands
  <1>2. (\A b, o : Part(b, o)' = Part(b, o)) /\ \A b : Whole(b)' = Whole(b)
    BY <1>1, SameGradients
  <1>3. IsAccumulated(r) => IsAccumulated(r)'
    BY <1>1, SameDone DEF IsAccumulated, Untouched, Unmoved
  <1> QED BY <1>1, <1>2, <1>3 DEF IsReduced, Untouched, Unmoved

LEMMA MaxOne ==
    ASSUME NEW n \in Nat
    PROVE  Max({n, 1}) - 1 = IF n = 0 THEN 0 ELSE n - 1
  <1>1. \E x \in {n, 1} : \A y \in {n, 1} : x >= y
    <2>1. n = 0 \/ n >= 1
      OBVIOUS
    <2> QED BY <2>1
  <1>2. Max({n, 1}) \in {n, 1} /\ \A y \in {n, 1} : Max({n, 1}) >= y
    BY <1>1 DEF Max
  <1> QED BY <1>2

LEMMA SteppedStays ==
    ASSUME NEW r \in Ranks, batch[r] \in Nat, batch'[r] = batch[r],
           pc[r] \in {"metrics", "next", "done"} <=> pc'[r] \in {"metrics", "next", "done"}
    PROVE  Stepped(r)' = Stepped(r)
  BY DEF Stepped

\* A step of one rank in an update.
LEMMA OneGathers ==
    ASSUME Control, Gathered, UNCHANGED trainer, phase = "updating", NEW r \in Ranks, Held',
           \A s \in Ranks : s # r => Untouched(s) /\ Unmoved(s),
           IsApplied(weights'[r], Stepped(r)'),
           pc'[r] # "raised" => IsNormed(r)' /\ IsReduced(r)'
    PROVE  Gathered'
  <1>1. phase' = phase /\ rows' = rows /\ keys' = keys
    BY SameHands
  <1>2. ASSUME NEW s \in Ranks, s # r
        PROVE  IsApplied(weights[s], Stepped(s))' /\ (pc'[s] # "raised" => IsNormed(s)' /\ IsReduced(s)')
    <2>1. Untouched(s) /\ Unmoved(s)
      BY <1>2
    <2>2. Stepped(s)' = Stepped(s) /\ weights'[s] = weights[s] /\ pc'[s] = pc[s]
      BY <2>1 DEF Stepped, Untouched, Unmoved
    <2>3. IsApplied(weights[s], Stepped(s)) /\ (pc[s] # "raised" => IsNormed(s) /\ IsReduced(s))
      BY DEF Gathered
    <2>4. IsApplied(weights[s], Stepped(s))'
      BY <1>1, <2>2, <2>3, SameGradients
    <2> QED BY <2>1, <2>2, <2>3, <2>4, NormedStays, ReducedStays DEF Untouched, Unmoved
  <1>3. IsApplied(weights[r], Stepped(r))'
    BY <1>1, SameGradients
  <1> QED BY <1>1, <1>2, <1>3 DEF Gathered
-----------------------------------------------------------------------------
\* Local steps in an update.

\* A rank that takes a step in an update.
LEMMA GatheredAt ==
    ASSUME Control, Gathered, phase = "updating", NEW r \in Ranks, pc[r] # "idle", pc[r] # "raised"
    PROVE  /\ IsNormed(r) /\ IsReduced(r) /\ IsApplied(weights[r], Stepped(r)) /\ Held
           /\ Dispatched /\ IsPlaced(r) /\ IsBranched(r) /\ IsCounted(r) /\ batch[r] \in Nat
           /\ pc[r] # "next" => batch[r] \in 1..MiniBatches /\ KeysApart(batch[r])
  <1>1. Dispatched /\ IsPlaced(r) /\ IsBranched(r) /\ IsCounted(r) /\ MiniBatches \in Nat \ {0}
    BY AtWork
  <1>2. batch[r] \in 0..MiniBatches /\ (pc[r] # "next" => batch[r] # 0)
    BY <1>1 DEF IsPlaced
  <1>3. batch[r] \in Nat /\ (pc[r] # "next" => batch[r] \in 1..MiniBatches)
    BY <1>1, <1>2
  <1> QED BY <1>1, <1>3, KeysDiffer DEF Gathered

\* A local step of the scoring pass.
LEMMA ScoringGathers ==
    ASSUME Gathered, UNCHANGED trainer, phase # "updating", Held',
           local' = local, weights' = weights, batch' = batch
    PROVE  Gathered'
  <1>1. phase' = phase
    BY SameHands
  <1> QED BY <1>1 DEF Gathered

LEMMA NextMiniBatchGathers ==
    ASSUME Control, Gathered, NEW r \in Ranks, NextMiniBatch(r)
    PROVE  Gathered'
  <1>1. pc[r] = "next" /\ UNCHANGED trainer
    BY DEF NextMiniBatch
  <1>2. phase = "updating"
    BY <1>1, AtWork DEF IsPlaced, Searching
  <1>3. /\ IsReduced(r) /\ IsApplied(weights[r], Stepped(r)) /\ Held /\ batch[r] \in Nat
    BY <1>1, <1>2, GatheredAt
  <1>4. /\ \A s \in Ranks : s # r => Untouched(s) /\ Unmoved(s)
        /\ Held'
    BY <1>3 DEF NextMiniBatch, Control, Indexed, Untouched, Unmoved, Held, search, Zeroed
  <1>5. /\ pc'[r] = "num_tokens" /\ norms'[r] = <<>> /\ sharded'[r] = Zero /\ local'[r] = local[r]
        /\ weights'[r] = weights[r] /\ batch'[r] = batch[r] + 1
    BY <1>3 DEF NextMiniBatch, Control, Indexed, Held, Zeroed
  <1>6. Stepped(r)' = Stepped(r)
    <2>1. Stepped(r) = batch[r]
      BY <1>1 DEF Stepped
    <2>2. Stepped(r)' = Max({batch'[r], 1}) - 1
      BY <1>5 DEF Stepped
    <2>3. batch'[r] \in Nat \ {0} /\ batch'[r] - 1 = batch[r]
      BY <1>3, <1>5
    <2> QED BY <2>1, <2>2, <2>3, MaxOne
  <1>7. local[r] = Zero
    BY <1>1, <1>3 DEF IsReduced, InForward
  <1>8. Zero' = Zero
    BY DEF Zero
  <1>9. IsNormed(r)' /\ IsReduced(r)'
    BY <1>5, <1>7, <1>8 DEF IsNormed, IsReduced, InBranches, InForward, Searching
  <1> QED BY <1>1, <1>2, <1>3, <1>4, <1>5, <1>6, <1>9, OneGathers

LEMMA FinishGathers ==
    ASSUME Control, Gathered, NEW r \in Ranks, Finish(r)
    PROVE  Gathered'
  <1>1. pc[r] = "next" /\ UNCHANGED trainer /\ pc'[r] = "done"
    BY DEF Finish, Control, Indexed
  <1>2. phase = "updating"
    BY <1>1, AtWork DEF IsPlaced, Searching
  <1>3. /\ IsReduced(r) /\ IsApplied(weights[r], Stepped(r)) /\ Held /\ batch[r] \in Nat
    BY <1>1, <1>2, GatheredAt
  <1>4. /\ \A s \in Ranks : s # r => Untouched(s) /\ Unmoved(s)
        /\ Held'
    BY <1>3 DEF Finish, Control, Indexed, Untouched, Unmoved, Held, search, gradients, metrics
  <1>5. local'[r] = local[r] /\ weights'[r] = weights[r] /\ batch'[r] = batch[r]
    BY DEF Finish, gradients
  <1>6. Stepped(r)' = Stepped(r)
    BY <1>1, <1>3, <1>5, SteppedStays
  <1>7. IsNormed(r)' /\ IsReduced(r)'
    BY <1>1, <1>3, <1>5 DEF IsNormed, IsReduced, InBranches, InForward, Searching
  <1> QED BY <1>1, <1>2, <1>3, <1>4, <1>5, <1>6, <1>7, OneGathers

LEMMA SearchGathers ==
    ASSUME Control, Gathered, NEW r \in Ranks, Search(r)
    PROVE  Gathered'
  <1>1. /\ pc[r] = "search" /\ UNCHANGED trainer /\ pc'[r] \in {"within", "raised"}
        /\ local' = local /\ weights' = weights /\ batch' = batch /\ norms' = norms /\ sharded' = sharded
        /\ branch' = branch /\ saved' = saved
    BY DEF Search, Control, Indexed, gradients
  <1>2. Held'
    BY <1>1 DEF Gathered, Held
  <1>3. CASE phase # "updating"
    BY <1>1, <1>2, <1>3, ScoringGathers
  <1>4. CASE phase = "updating"
    <2>1. /\ IsReduced(r) /\ IsNormed(r) /\ IsApplied(weights[r], Stepped(r)) /\ batch[r] \in Nat
      BY <1>1, <1>4, GatheredAt
    <2>2. \A s \in Ranks : s # r => Untouched(s) /\ Unmoved(s)
      BY <1>1 DEF Search, Control, Indexed, Untouched, Unmoved, metrics
    <2>3. Stepped(r)' = Stepped(r)
      BY <1>1, <2>1, SteppedStays
    <2>4. (\A b, o : Part(b, o)' = Part(b, o)) /\ conf' = conf
      BY <1>1, SameHands, SameGradients
    <2>5. ASSUME pc'[r] = "within" PROVE IsNormed(r)' /\ IsReduced(r)'
      <3>1. \A b, o : Kept(b, o)' = Kept(b, o)
        BY <2>4 DEF Kept
      <3> QED BY <1>1, <2>1, <2>4, <2>5, <3>1 DEF IsNormed, IsReduced, InBranches, InForward, Searching
    <2> QED BY <1>1, <1>2, <1>4, <2>1, <2>2, <2>3, <2>5, OneGathers
  <1> QED BY <1>3, <1>4

LEMMA RaiseGathers ==
    ASSUME Control, Gathered, NEW r \in Ranks, Raise(r)
    PROVE  Gathered'
  <1>1. /\ pc[r] = "forward" /\ UNCHANGED trainer /\ pc'[r] = "raised"
        /\ local' = local /\ weights' = weights /\ batch' = batch /\ norms' = norms /\ sharded' = sharded
    BY DEF Raise, Control, Indexed, gradients
  <1>2. Held'
    BY <1>1 DEF Gathered, Held
  <1>3. CASE phase # "updating"
    BY <1>1, <1>2, <1>3, ScoringGathers
  <1>4. CASE phase = "updating"
    <2>1. IsApplied(weights[r], Stepped(r)) /\ batch[r] \in Nat
      BY <1>1, <1>4, GatheredAt
    <2>2. \A s \in Ranks : s # r => Untouched(s) /\ Unmoved(s)
      BY <1>1 DEF Raise, Control, Indexed, Untouched, Unmoved, metrics, search, gradients
    <2>3. Stepped(r)' = Stepped(r)
      BY <1>1, <2>1, SteppedStays
    <2> QED BY <1>1, <1>2, <1>4, <2>1, <2>2, <2>3, OneGathers
  <1> QED BY <1>3, <1>4

LEMMA PrepareGathers ==
    ASSUME Control, Gathered, NEW r \in Ranks, Prepare(r)
    PROVE  Gathered'
  <1>1. /\ pc[r] = "prepare" /\ UNCHANGED trainer
        /\ local' = local /\ weights' = weights /\ batch' = batch /\ norms' = norms
        /\ branch' = branch /\ saved' = saved
    BY DEF Prepare
  <1>2. Held'
    BY <1>1 DEF Prepare, Gathered, Held, Zeroed
  <1>3. CASE phase # "updating"
    BY <1>1, <1>2, <1>3, ScoringGathers
  <1>4. CASE phase = "updating"
    <2> DEFINE b == batch[r]
    <2>1. /\ IsReduced(r) /\ IsNormed(r) /\ IsApplied(weights[r], Stepped(r)) /\ b \in Nat
          /\ Dispatched /\ IsPlaced(r) /\ KeysApart(b) /\ Held
      BY <1>1, <1>4, GatheredAt
    <2>2. \A s \in Ranks : s # r => Untouched(s) /\ Unmoved(s)
      BY <1>1, <2>1 DEF Prepare, Control, Indexed, Untouched, Unmoved, Held, Zeroed
    <2>3. pc'[r] = (IF conf.dynamic THEN "count" ELSE "forward")
      BY DEF Prepare, Control, Indexed
    <2>4. Stepped(r)' = Stepped(r)
      BY <1>1, <2>1, <2>3, SteppedStays
    <2>5. (\A c, o : Part(c, o)' = Part(c, o)) /\ conf' = conf /\ \A c : Number(c)' = Number(c)
      BY <1>1, SameHands, SameGradients
    <2>6. sharded'[r] = Zero /\ local'[r] = Zero
      BY <1>1, <2>1 DEF Prepare, Held, Zeroed, IsReduced, InForward
    <2>7. IsNormed(r)'
      <3>1. \A c, o : Kept(c, o)' = Kept(c, o)
        BY <2>5 DEF Kept
      <3> QED BY <1>1, <2>1, <2>3, <2>5, <3>1 DEF IsNormed, InBranches, InForward, Searching
    <2>8. pc'[r] = "forward" => IsAccumulated(r)'
      <3> SUFFICES ASSUME ~conf.dynamic PROVE IsAccumulated(r)'
        BY <2>3
      <3>1. Len(AtHand(r)) = Size /\ Size = MiniSize
        BY <1>1, <1>4, <2>1, AtHandIs DEF Size
      <3>2. parts'[r] = Chunks(MiniSize) /\ micro'[r] = 1
        BY <3>1 DEF Prepare, Control, Indexed
      <3>3. parts'[r] = PartsOf(r, b)'
        BY <1>1, <3>2, SameDone DEF PartsOf
      <3>4. Done(r, b, branch[r], 0) = {} /\ AllDone(b, branch[r], 0) = {}
        BY NothingDone
      <3>5. Zero = SetToBag({})
        BY ZeroIs
      <3>6. Number(b) \in Nat \ {0} /\ micro'[r] - 1 = 0
        BY <2>1, <3>2 DEF KeysApart
      <3>7. /\ local'[r] = SetToBag(Done(r, b, branch[r], micro'[r] - 1))
            /\ sharded'[r] = SetToBag(AllDone(b, branch[r], micro'[r] - 1))
        BY <2>6, <3>4, <3>5, <3>6
      <3> QED BY <1>1, <2>3, <2>5, <2>6, <3>3, <3>7, SameDone DEF IsAccumulated
    <2>9. IsReduced(r)'
      BY <1>1, <2>1, <2>3, <2>5, <2>6, <2>8 DEF IsReduced, InBranches, InForward, Searching
    <2> QED BY <1>1, <1>2, <1>4, <2>1, <2>2, <2>4, <2>7, <2>9, OneGathers
  <1> QED BY <1>3, <1>4

LEMMA ForwardGathers ==
    ASSUME Control, Gathered, NEW r \in Ranks, Forward(r)
    PROVE  Gathered'
  <1>1. /\ pc[r] = "forward" /\ UNCHANGED trainer
        /\ local' = local /\ weights' = weights /\ batch' = batch /\ norms' = norms /\ sharded' = sharded
        /\ branch' = branch /\ saved' = saved /\ parts' = parts /\ micro' = micro /\ count' = count
    BY DEF Forward, gradients, search
  <1>2. Held'
    BY <1>1 DEF Gathered, Held
  <1>3. CASE phase # "updating"
    BY <1>1, <1>2, <1>3, ScoringGathers
  <1>4. CASE phase = "updating"
    <2> DEFINE b == batch[r]
               br == branch[r]
    <2>1. /\ IsReduced(r) /\ IsNormed(r) /\ IsApplied(weights[r], Stepped(r)) /\ b \in Nat
          /\ Dispatched /\ IsBranched(r) /\ IsCounted(r) /\ KeysApart(b) /\ Held
      BY <1>1, <1>4, GatheredAt
    <2>2. \A s \in Ranks : s # r => Untouched(s) /\ Unmoved(s)
      BY <1>1 DEF Forward, Control, Indexed, Untouched, Unmoved, metrics
    <2>3. /\ pc'[r] = IF micro[r] > count[r] THEN IF br = "total" THEN "clip" ELSE "norm"
                      ELSE SyncKind(micro[r], count[r])
          /\ SyncKind(micro[r], count[r]) \in {"micro", "micro_sync"}
      BY <1>4 DEF Forward, Control, Indexed, AfterForward, SyncKind
    <2>4. Stepped(r)' = Stepped(r)
      BY <1>1, <2>1, <2>3, SteppedStays
    <2>5. /\ \A c, o : Part(c, o)' = Part(c, o)
          /\ \A c : Whole(c)' = Whole(c) /\ Number(c)' = Number(c)
          /\ conf' = conf
      BY <1>1, SameHands, SameGradients
    <2>6. /\ IsAccumulated(r) /\ count[r] = Number(b) /\ Number(b) \in Nat \ {0} /\ micro[r] \in 1..(Number(b) + 1)
      BY <1>1, <1>4, <2>1 DEF IsReduced, IsCounted, InForward, KeysApart
    <2>7. \A c, o : Kept(c, o)' = Kept(c, o) /\ OfBranches(c)' = OfBranches(c)
      BY <2>5 DEF Kept, OfBranches
    <2>8. CASE micro[r] > count[r]
      <3>1. pc'[r] = (IF br = "total" THEN "clip" ELSE "norm") /\ micro[r] - 1 = Number(b) /\ ~(micro[r] <= Number(b))
        BY <2>3, <2>6, <2>8
      <3>2. local[r] = Zero /\ sharded[r] = Part(b, br)
        BY <2>1, <2>6, <3>1, BranchIsDone DEF IsAccumulated
      <3>3. br = "total" => Part(b, br) = Whole(b)
        BY DEF Whole
      <3>4. IsReduced(r)'
        BY <1>1, <2>1, <2>5, <3>1, <3>2, <3>3 DEF IsReduced, InBranches, InForward, Searching
      <3>5. norms[r] = Kept(b, br) /\ (br = "total" <=> conf.method # "r2opl_base")
        BY <1>1, <2>1 DEF IsNormed, InBranches, InForward
      <3>6. br = "total" => Kept(b, br) = OfBranches(b)
        BY <3>5 DEF Kept, OfBranches
      <3>7. IsNormed(r)'
        BY <1>1, <2>5, <2>7, <3>1, <3>5, <3>6 DEF IsNormed, InBranches, InForward, Searching
      <3> QED BY <1>1, <1>2, <1>4, <2>1, <2>2, <2>4, <3>4, <3>7, OneGathers
    <2>9. CASE ~ micro[r] > count[r]
      <3>1. pc'[r] = SyncKind(micro[r], count[r])
        BY <2>3, <2>9
      <3>2. /\ pc'[r] = "micro" => conf.defer /\ micro[r] # Number(b)
            /\ pc'[r] = "micro_sync" => ~conf.defer \/ micro[r] = Number(b)
        BY <2>6, <3>1 DEF SyncKind
      <3>3. IsAccumulated(r)'
        BY <1>1, <2>5, <2>6, <3>2, SameDone DEF IsAccumulated
      <3>4. IsReduced(r)'
        BY <1>1, <2>1, <2>3, <2>5, <3>1, <3>3 DEF IsReduced, InBranches, InForward, Searching
      <3>5. IsNormed(r)'
        BY <1>1, <2>1, <2>3, <2>5, <2>7, <3>1 DEF IsNormed, InBranches, InForward, Searching
      <3> QED BY <1>1, <1>2, <1>4, <2>1, <2>2, <2>4, <3>4, <3>5, OneGathers
    <2> QED BY <2>8, <2>9
  <1> QED BY <1>3, <1>4
-----------------------------------------------------------------------------
LEMMA MeasuredGathers ==
    ASSUME Control, Gathered, NEW r \in Ranks, Measured(r)
    PROVE  Gathered'
  <1> DEFINE b == batch[r]
             br == branch[r]
  <1>1. /\ pc[r] = "measured" /\ UNCHANGED trainer
        /\ local' = local /\ weights' = weights /\ batch' = batch /\ norms' = norms
    BY DEF Measured
  <1>2. phase = "updating"
    BY <1>1, AtWork DEF IsPlaced, Searching
  <1>3. /\ IsReduced(r) /\ IsNormed(r) /\ IsApplied(weights[r], Stepped(r)) /\ b \in Nat
        /\ IsBranched(r) /\ Held
    BY <1>1, <1>2, GatheredAt
  <1>4. Held' /\ \A s \in Ranks : s # r => Untouched(s) /\ Unmoved(s)
    BY <1>1, <1>3 DEF Measured, Control, Indexed, Untouched, Unmoved, Held, Zeroed, search, metrics
  <1>5. pc'[r] \in {"prepare", "clip", "raised"}
    BY DEF Measured, Control, Indexed
  <1>6. Stepped(r)' = Stepped(r)
    BY <1>1, <1>3, <1>5, SteppedStays
  <1>7. /\ \A c, o : Part(c, o)' = Part(c, o)
        /\ \A c : Whole(c)' = Whole(c)
        /\ conf' = conf
    BY <1>1, SameHands, SameGradients
  <1>8. \A c, o : Kept(c, o)' = Kept(c, o) /\ OfBranches(c)' = OfBranches(c)
    BY <1>7 DEF Kept, OfBranches
  <1>9. /\ br \in {"correct", "error"} /\ conf.method = "r2opl_base"
        /\ local[r] = Zero /\ sharded[r] = Part(b, br)
        /\ norms[r] = Append(Kept(b, br), Part(b, br))
        /\ br = "error" => saved[r].gradient = Part(b, "correct")
    BY <1>1, <1>3 DEF IsBranched, IsNormed, IsReduced, InBranches, InForward
  <1>10. CASE br = "correct"
    <2>1. /\ pc'[r] = "prepare" /\ branch'[r] = "error" /\ sharded'[r] = Zero
          /\ saved'[r].gradient = sharded[r]
      BY <1>3, <1>10 DEF Measured, Control, Indexed, Held, Zeroed
    <2>2. norms[r] = Kept(b, "error")
      BY <1>9, <1>10 DEF Kept
    <2>3. IsNormed(r)'
      BY <1>1, <1>7, <1>8, <1>9, <2>1, <2>2 DEF IsNormed, InBranches, InForward, Searching
    <2>4. IsReduced(r)'
      BY <1>1, <1>7, <1>9, <1>10, <2>1 DEF IsReduced, InBranches, InForward, Searching, Zero
    <2> QED BY <1>1, <1>2, <1>3, <1>4, <1>6, <2>3, <2>4, OneGathers
  <1>11. CASE br = "error"
    <2>1. /\ pc'[r] \in {"clip", "raised"} /\ sharded'[r] = sharded[r] (+) saved[r].gradient
      BY <1>3, <1>11 DEF Measured, Control, Indexed, Held
    <2>2. norms[r] = OfBranches(b)
      <3>1. ASSUME NEW x, NEW y PROVE Append(<<x>>, y) = <<x, y>>
        <4> DEFINE s == Append(<<x>>, y)
        <4>1. s \in Seq({x, y}) /\ Len(s) = 2 /\ s[1] = x /\ s[2] = y
          OBVIOUS
        <4> HIDE DEF s
        <4>2. s = <<x, y>>
          BY <4>1
        <4> QED BY <4>2 DEF s
      <3>2. norms[r] = Append(<<Part(b, "correct")>>, Part(b, "error"))
        BY <1>9, <1>11 DEF Kept
      <3>3. OfBranches(b) = <<Part(b, "correct"), Part(b, "error")>>
        BY <1>9 DEF OfBranches
      <3> QED BY <3>1, <3>2, <3>3
    <2>3. sharded'[r] = Whole(b)
      BY <1>9, <1>11, <2>1, BranchesMakeWhole
    <2>4. pc'[r] # "raised" => IsNormed(r)'
      BY <1>1, <1>7, <1>8, <2>1, <2>2 DEF IsNormed, InBranches, InForward, Searching
    <2>5. pc'[r] # "raised" => IsReduced(r)'
      BY <1>1, <1>7, <1>9, <2>1, <2>3 DEF IsReduced, InBranches, InForward, Searching, Zero
    <2> QED BY <1>1, <1>2, <1>3, <1>4, <1>6, <2>4, <2>5, OneGathers
  <1> QED BY <1>9, <1>10, <1>11

\* Mini-batches whose gradient is finite, counted up to one more.
LEMMA FiniteGrows ==
    ASSUME NEW b \in Nat \ {0}
    PROVE  /\ Finite(b) = IF IsFinite(Whole(b)) THEN Finite(b - 1) \cup {b} ELSE Finite(b - 1)
           /\ b \notin Finite(b - 1) /\ IsFiniteSet(Finite(b - 1))
           /\ Cardinality(Finite(b - 1)) \in Nat
           /\ IsFinite(Whole(b)) => Cardinality(Finite(b)) = Cardinality(Finite(b - 1)) + 1
  <1>1. 1..b = 1..(b - 1) \cup {b} /\ b \notin 1..(b - 1) /\ b - 1 \in Nat
    OBVIOUS
  <1>2. Finite(b) = IF IsFinite(Whole(b)) THEN Finite(b - 1) \cup {b} ELSE Finite(b - 1)
    BY <1>1 DEF Finite
  <1>3. b \notin Finite(b - 1)
    BY <1>1 DEF Finite
  <1>4. IsFiniteSet(1..(b - 1)) /\ Finite(b - 1) \in SUBSET (1..(b - 1))
    BY <1>1, FS_Interval DEF Finite
  <1>5. IsFiniteSet(Finite(b - 1)) /\ Cardinality(Finite(b - 1)) \in Nat
    BY <1>4, FS_Subset, FS_CardinalityType
  <1>6. IsFinite(Whole(b)) => Cardinality(Finite(b)) = Cardinality(Finite(b - 1)) + 1
    BY <1>2, <1>3, <1>5, FS_AddElement
  <1> QED BY <1>2, <1>3, <1>5, <1>6

LEMMA AppliedGrows ==
    ASSUME NEW b \in Nat \ {0}, NEW w, IsApplied(w, b - 1)
    PROVE  /\ IsFinite(Whole(b)) => IsApplied(Append(w, Whole(b)), b)
           /\ ~IsFinite(Whole(b)) => IsApplied(w, b)
  <1> DEFINE kept == Finite(b - 1)
             n == Cardinality(kept)
  <1>1. /\ Counted(w, n) /\ n \in Nat /\ IsFiniteSet(kept) /\ b \notin kept
        /\ \A x \in kept : w[Cardinality({c \in kept : c <= x})] = Whole(x)
    BY FiniteGrows DEF IsApplied
  <1>2. CASE ~IsFinite(Whole(b))
    BY <1>2, FiniteGrows DEF IsApplied
  <1>3. CASE IsFinite(Whole(b))
    <2> DEFINE v == Append(w, Whole(b))
    <2>1. Finite(b) = kept \cup {b} /\ Cardinality(Finite(b)) = n + 1
      BY <1>3, FiniteGrows
    <2>2. \A x \in kept : x \in Nat /\ x < b
      BY DEF Finite
    <2> HIDE DEF kept, n
    <2>3. Counted(v, n + 1)
      BY <1>1, OneMoreCounted
    <2>4. (\A i \in 1..n : v[i] = w[i]) /\ v[n + 1] = Whole(b)
      BY <1>1 DEF Counted
    <2>5. ASSUME NEW x \in kept PROVE v[Cardinality({c \in Finite(b) : c <= x})] = Whole(x)
      <3> DEFINE S == {c \in kept : c <= x}
      <3>1. {c \in Finite(b) : c <= x} = S
        BY <2>1, <2>2
      <3>2. S \subseteq kept /\ x \in S
        BY <2>2
      <3> HIDE DEF S
      <3>3. Cardinality(S) \in Nat /\ Cardinality(S) <= n /\ IsFiniteSet(S)
        BY <1>1, <3>2, FS_Subset, FS_CardinalityType DEF n
      <3>4. Cardinality(S) # 0
        BY <3>2, <3>3, FS_EmptySet
      <3>5. Cardinality(S) \in 1..n
        BY <1>1, <3>3, <3>4
      <3>6. w[Cardinality(S)] = Whole(x)
        BY <1>1 DEF S
      <3> QED BY <2>4, <3>1, <3>5, <3>6
    <2>6. {c \in Finite(b) : c <= b} = Finite(b)
      BY <2>1, <2>2
    <2>7. \A x \in Finite(b) : v[Cardinality({c \in Finite(b) : c <= x})] = Whole(x)
      BY <2>1, <2>4, <2>5, <2>6
    <2> QED BY <1>3, <2>1, <2>3, <2>7 DEF IsApplied
  <1> QED BY <1>2, <1>3

LEMMA StepGathers ==
    ASSUME Control, Gathered, NEW r \in Ranks, Step(r)
    PROVE  Gathered'
  <1> DEFINE b == batch[r]
  <1>1. pc[r] = "step" /\ UNCHANGED trainer /\ local' = local /\ batch' = batch
    BY DEF Step
  <1>2. phase = "updating"
    BY <1>1, AtWork DEF IsPlaced, Searching
  <1>3. /\ IsReduced(r) /\ IsApplied(weights[r], Stepped(r)) /\ b \in 1..MiniBatches /\ b \in Nat /\ Held
    BY <1>1, <1>2, GatheredAt
  <1>4. Held' /\ \A s \in Ranks : s # r => Untouched(s) /\ Unmoved(s)
    BY <1>1, <1>3 DEF Step, Control, Indexed, Untouched, Unmoved, Held, Zeroed, search, metrics
  <1>5. pc'[r] = "metrics"
    BY DEF Step, Control, Indexed
  <1>6. Stepped(r) = b - 1 /\ Stepped(r)' = b
    <2>1. b # 0 /\ Max({b, 1}) - 1 = b - 1
      BY <1>3, MaxOne
    <2> QED BY <1>1, <1>5, <2>1 DEF Stepped
  <1>7. sharded[r] = Whole(b) /\ local[r] = Zero
    BY <1>1, <1>3 DEF IsReduced, InForward
  <1>8. weights'[r] = IF IsFinite(Whole(b)) THEN Append(weights[r], Whole(b)) ELSE weights[r]
    BY <1>3, <1>7 DEF Step, Held
  <1>9. IsApplied(weights'[r], Stepped(r)')
    <2>1. b \in Nat \ {0}
      BY <1>3
    <2> HIDE DEF b
    <2> QED BY <1>3, <1>6, <1>8, <2>1, AppliedGrows
  <1>10. IsNormed(r)' /\ IsReduced(r)'
    BY <1>1, <1>5, <1>7 DEF IsNormed, IsReduced, InBranches, InForward, Searching, Zero
  <1> QED BY <1>1, <1>2, <1>4, <1>9, <1>10, OneGathers

-----------------------------------------------------------------------------
\* Collectives in an update.

LEMMA AllGatheredAt ==
    ASSUME Control, Gathered, phase = "updating", NEW c \in Collectives, \A r \in Ranks : pc[r] = c
    PROVE  /\ Held
           /\ \A r \in Ranks :
                /\ IsNormed(r) /\ IsReduced(r) /\ IsApplied(weights[r], Stepped(r))
                /\ Dispatched /\ IsPlaced(r) /\ IsBranched(r) /\ IsCounted(r)
                /\ batch[r] \in 1..MiniBatches /\ batch[r] \in Nat /\ KeysApart(batch[r])
  <1>1. c # "idle" /\ c # "raised" /\ c # "next"
    BY DEF Collectives
  <1> QED BY <1>1, GatheredAt DEF Gathered

LEMMA TogetherGathers ==
    ASSUME Control, Gathered, UNCHANGED trainer, Held', NEW c \in Collectives, \A r \in Ranks : pc[r] = c,
           weights' = weights, batch' = batch, phase # "updating" => local' = local,
           phase = "updating" =>
               \A r \in Ranks : /\ pc'[r] \in {"metrics", "next", "done"} <=> c = "metrics"
                                /\ IsNormed(r)' /\ IsReduced(r)'
    PROVE  Gathered'
  <1>1. phase' = phase /\ rows' = rows /\ keys' = keys
    BY SameHands
  <1>2. CASE phase # "updating"
    BY <1>2, ScoringGathers
  <1>3. CASE phase = "updating"
    <2>1. ASSUME NEW r \in Ranks PROVE IsApplied(weights[r], Stepped(r))'
      <3>1. IsApplied(weights[r], Stepped(r)) /\ batch[r] \in Nat
        BY <1>3, AllGatheredAt
      <3>2. c \notin {"next", "done"}
        BY DEF Collectives
      <3>3. Stepped(r)' = Stepped(r)
        BY <1>3, <3>1, <3>2, SteppedStays
      <3> QED BY <1>1, <3>1, <3>3, SameGradients
    <2> QED BY <1>1, <1>3, <2>1 DEF Gathered
  <1> QED BY <1>2, <1>3
-----------------------------------------------------------------------------
LEMMA CountTokensGathers ==
    ASSUME Control, Gathered, CountTokens
    PROVE  Gathered'
  <1>1. /\ UNCHANGED trainer /\ local' = local /\ sharded' = sharded /\ norms' = norms /\ weights' = weights
        /\ batch' = batch /\ "num_tokens" \in Collectives
        /\ \A r \in Ranks : pc[r] = "num_tokens" /\ pc'[r] = "prepare"
    BY DEF CountTokens, Meet, Collectives, gradients
  <1>2. Held'
    BY <1>1 DEF Gathered, Held
  <1>3. ASSUME phase = "updating", NEW r \in Ranks PROVE IsNormed(r)' /\ IsReduced(r)'
    <2>1. norms[r] = <<>> /\ local[r] = Zero /\ sharded[r] = Zero
      BY <1>1, <1>3, AllGatheredAt DEF IsNormed, IsReduced, InForward
    <2>2. branch'[r] = (IF conf.method = "r2opl_base" THEN "correct" ELSE "total") /\ conf' = conf
      BY <1>1, <1>3, SameHands DEF CountTokens
    <2>3. IsNormed(r)'
      BY <1>1, <2>1, <2>2 DEF IsNormed, Kept, InBranches, InForward, Searching
    <2>4. IsReduced(r)'
      BY <1>1, <2>1, <2>2 DEF IsReduced, InBranches, InForward, Searching, Zero
    <2> QED BY <2>3, <2>4
  <1> QED BY <1>1, <1>2, <1>3, TogetherGathers

\* What the search for a number of micro-batches leaves.
LEMMA SearchingGathers ==
    ASSUME Control, Gathered, AgreeOnCount \/ AgreeOnConstraints
    PROVE  Gathered'
  <1>1. PICK c \in {"count", "constraints"} : \A r \in Ranks : pc[r] = c
    BY DEF AgreeOnCount, AgreeOnConstraints, Meet
  <1>2. /\ UNCHANGED trainer /\ local' = local /\ sharded' = sharded /\ norms' = norms /\ weights' = weights
        /\ batch' = batch /\ branch' = branch /\ saved' = saved /\ c \in Collectives
        /\ \A r \in Ranks : pc'[r] \in {"constraints", "search"}
    BY DEF AgreeOnCount, AgreeOnConstraints, Meet, Collectives, gradients, search
  <1>3. Held'
    BY <1>2 DEF Gathered, Held
  <1>4. ASSUME phase = "updating", NEW r \in Ranks PROVE IsNormed(r)' /\ IsReduced(r)'
    <2>1. IsNormed(r) /\ IsReduced(r)
      BY <1>1, <1>2, <1>4, AllGatheredAt
    <2>2. (\A b, o : Part(b, o)' = Part(b, o)) /\ conf' = conf
      BY <1>2, SameHands, SameGradients
    <2>3. \A b, o : Kept(b, o)' = Kept(b, o)
      BY <2>2 DEF Kept
    <2>4. IsNormed(r)'
      BY <1>1, <1>2, <2>1, <2>2, <2>3 DEF IsNormed, InBranches, InForward, Searching
    <2>5. IsReduced(r)'
      BY <1>1, <1>2, <2>1, <2>2 DEF IsReduced, InBranches, InForward, Searching, Zero
    <2> QED BY <2>4, <2>5
  <1> QED BY <1>1, <1>2, <1>3, <1>4, TogetherGathers

LEMMA LimitGathers ==
    ASSUME Control, Gathered, AgreeOnLimit
    PROVE  Gathered'
  <1>1. /\ UNCHANGED trainer /\ local' = local /\ sharded' = sharded /\ norms' = norms /\ weights' = weights
        /\ batch' = batch /\ branch' = branch /\ saved' = saved /\ parts' = parts /\ "within" \in Collectives
        /\ \A r \in Ranks : pc[r] = "within"
        /\ \/ \A r \in Ranks : pc'[r] = "search"
           \/ \A r \in Ranks : pc'[r] = "forward" /\ micro'[r] = 1 /\ count' = count
    BY DEF AgreeOnLimit, Meet, Collectives, gradients
  <1>2. Held'
    BY <1>1 DEF Gathered, Held
  <1>3. ASSUME phase = "updating", NEW r \in Ranks PROVE IsNormed(r)' /\ IsReduced(r)'
    <2> DEFINE b == batch[r]
               br == branch[r]
    <2>1. IsNormed(r) /\ IsReduced(r) /\ IsCounted(r) /\ IsPlaced(r) /\ Dispatched /\ KeysApart(b)
      BY <1>1, <1>3, AllGatheredAt
    <2>2. (\A c, o : Part(c, o)' = Part(c, o)) /\ conf' = conf /\ \A c : Number(c)' = Number(c)
      BY <1>1, SameHands, SameGradients
    <2>3. \A c, o : Kept(c, o)' = Kept(c, o)
      BY <2>2 DEF Kept
    <2>4. IsNormed(r)'
      BY <1>1, <2>1, <2>2, <2>3 DEF IsNormed, InBranches, InForward, Searching
    <2>5. local'[r] = Zero /\ sharded'[r] = Zero
      BY <1>1, <2>1 DEF IsReduced, InForward, Searching
    <2>6. pc'[r] = "forward" => IsAccumulated(r)'
      <3> SUFFICES ASSUME pc'[r] = "forward", micro'[r] = 1, count' = count PROVE IsAccumulated(r)'
        <4>1. pc'[r] = "forward" => micro'[r] = 1 /\ count' = count
          BY <1>1
        <4> QED BY <4>1
      <3>1. conf.dynamic /\ parts[r] = MicroBatches(Lens(r), count[r])
        BY <1>1, <2>1 DEF IsCounted, Searching
      <3>2. Lens(r) = HandLens[b][r]
        BY <1>1, <1>3, <2>1, AtHandIs
      <3>3. count[r] = Number(b)
        <4>1. Control' /\ phase' = "updating"
          BY <1>1, <1>3, AgreeOnLimitMatches, SameHands
        <4>2. IsCounted(r)'
          BY <4>1 DEF Control, RanksOk, RankOk
        <4> QED BY <1>1, <2>2, <4>2 DEF IsCounted, InForward
      <3>4. parts[r] = PartsOf(r, b)
        BY <3>1, <3>2, <3>3 DEF PartsOf
      <3>5. Done(r, b, br, 0) = {} /\ AllDone(b, br, 0) = {} /\ Zero = SetToBag({})
        BY NothingDone, ZeroIs
      <3>6. Number(b) \in Nat \ {0} /\ micro'[r] - 1 = 0
        BY <2>1 DEF KeysApart
      <3>7. /\ local'[r] = SetToBag(Done(r, b, br, micro'[r] - 1))
            /\ sharded'[r] = SetToBag(AllDone(b, br, micro'[r] - 1))
        BY <2>5, <3>5, <3>6
      <3> QED BY <1>1, <2>2, <2>5, <3>4, <3>7, SameDone DEF IsAccumulated
    <2>7. IsReduced(r)'
      BY <1>1, <2>1, <2>2, <2>5, <2>6 DEF IsReduced, InBranches, InForward, Searching, Zero
    <2> QED BY <2>4, <2>7
  <1> QED BY <1>1, <1>2, <1>3, TogetherGathers

LEMMA ScoreGathers ==
    ASSUME Control, Gathered, ScoreMicroBatch
    PROVE  Gathered'
  <1>1. /\ UNCHANGED trainer /\ local' = local /\ sharded' = sharded /\ norms' = norms /\ weights' = weights
        /\ batch' = batch /\ phase # "updating"
    BY DEF ScoreMicroBatch, gradients
  <1>2. Held'
    BY <1>1 DEF Gathered, Held
  <1> QED BY <1>1, <1>2, ScoringGathers

LEMMA MetricsGather ==
    ASSUME Control, Gathered, GatherMetrics
    PROVE  Gathered'
  <1>1. /\ UNCHANGED trainer /\ local' = local /\ sharded' = sharded /\ norms' = norms /\ weights' = weights
        /\ batch' = batch /\ "metrics" \in Collectives
        /\ \A r \in Ranks : pc[r] = "metrics"
        /\ phase = "updating" => \A r \in Ranks : pc'[r] = "next"
    BY DEF GatherMetrics, Meet, Collectives, gradients
  <1>2. Held'
    BY <1>1 DEF Gathered, Held
  <1>3. ASSUME phase = "updating", NEW r \in Ranks PROVE IsNormed(r)' /\ IsReduced(r)'
    <2>1. local[r] = Zero
      BY <1>1, <1>3, AllGatheredAt DEF IsReduced, InForward
    <2> QED BY <1>1, <1>3, <2>1 DEF IsNormed, IsReduced, InBranches, InForward, Searching, Zero
  <1> QED BY <1>1, <1>2, <1>3, TogetherGathers

LEMMA NormGathers ==
    ASSUME Control, Gathered, MeasureNorm
    PROVE  Gathered'
  <1>1. PICK c \in {"norm", "clip"} : /\ \A r \in Ranks : pc[r] = c
                                      /\ \A r \in Ranks : pc'[r] = IF c = "norm" THEN "measured" ELSE "step"
    BY DEF MeasureNorm, Meet
  <1>2. /\ UNCHANGED trainer /\ local' = local /\ sharded' = sharded /\ weights' = weights
        /\ batch' = batch /\ branch' = branch /\ saved' = saved /\ c \in Collectives
        /\ DOMAIN norms' = Ranks /\ \A r \in Ranks : norms'[r] = Append(norms[r], sharded[r])
    BY DEF MeasureNorm, Collectives, gradients
  <1>3. Held'
    BY <1>2 DEF Gathered, Held
  <1>4. ASSUME phase = "updating", NEW r \in Ranks PROVE IsNormed(r)' /\ IsReduced(r)'
    <2>1. IsNormed(r) /\ IsReduced(r)
      BY <1>1, <1>2, <1>4, AllGatheredAt
    <2>2. /\ \A b, o : Part(b, o)' = Part(b, o)
          /\ \A b : Whole(b)' = Whole(b)
          /\ conf' = conf
      BY <1>2, SameHands, SameGradients
    <2>3. \A b, o : Kept(b, o)' = Kept(b, o) /\ OfBranches(b)' = OfBranches(b)
      BY <2>2 DEF Kept, OfBranches
    <2>4. IsReduced(r)'
      BY <1>1, <1>2, <2>1, <2>2 DEF IsReduced, InBranches, InForward, Searching, Zero
    <2>5. IsNormed(r)'
      <3>1. CASE c = "norm"
        BY <1>1, <1>2, <2>1, <2>2, <2>3, <3>1 DEF IsNormed, IsReduced, InBranches, InForward, Searching
      <3>2. CASE c = "clip"
        BY <1>1, <1>2, <2>1, <2>2, <2>3, <3>2 DEF IsNormed, IsReduced, InBranches, InForward, Searching
      <3> QED BY <3>1, <3>2
    <2> QED BY <2>4, <2>5
  <1> QED BY <1>1, <1>2, <1>3, <1>4, TogetherGathers

\* What a rank has accumulated when it comes out of a micro-batch.
LEMMA AccumulatedIs ==
    ASSUME UNCHANGED trainer, NEW r \in Ranks, NEW b, NEW br, NEW m,
           pc'[r] = "forward", batch'[r] = b, branch'[r] = br, parts'[r] = PartsOf(r, b), micro'[r] - 1 = m,
           conf.defer /\ micro'[r] <= Number(b) =>
               local'[r] = SetToBag(Done(r, b, br, m)) /\ sharded'[r] = Zero,
           ~(conf.defer /\ micro'[r] <= Number(b)) =>
               local'[r] = Zero /\ sharded'[r] = SetToBag(AllDone(b, br, m))
    PROVE  IsAccumulated(r)'
  <1>1. conf' = conf /\ Number(b)' = Number(b)
    BY SameHands
  <1>2. /\ PartsOf(r, b)' = PartsOf(r, b) /\ Done(r, b, br, m)' = Done(r, b, br, m)
        /\ AllDone(b, br, m)' = AllDone(b, br, m)
    BY SameDone
  <1> QED BY <1>1, <1>2 DEF IsAccumulated, Zero

\* A micro-batch adds its rows, once and on every rank.
LEMMA TrainGathers ==
    ASSUME Control, Gathered, TrainMicroBatch
    PROVE  Gathered'
  <1>1. PICK c \in {"micro", "micro_sync"} :
           /\ \A r \in Ranks : pc[r] = c /\ pc'[r] = "forward" /\ micro'[r] = micro[r] + 1
           /\ c = "micro" => sharded' = sharded /\ local' = [r \in Ranks |-> Accumulated(r)]
           /\ c = "micro_sync" =>
                 /\ sharded' = [r \in Ranks |-> sharded[r] (+) SumOf([s \in Ranks |-> Accumulated(s)])]
                 /\ local' = [r \in Ranks |-> Zero]
    BY DEF TrainMicroBatch, Meet
  <1>2. /\ UNCHANGED trainer /\ phase = "updating" /\ norms' = norms /\ weights' = weights
        /\ batch' = batch /\ branch' = branch /\ saved' = saved /\ parts' = parts /\ c \in Collectives
    BY DEF TrainMicroBatch, Collectives
  <1>3. Held'
    BY <1>1, <1>2 DEF Gathered, Held
  <1>4. /\ \A r, s \in Ranks : batch[r] = batch[s] /\ branch[r] = branch[s] /\ micro[r] = micro[s]
        /\ 1 \in Ranks
    <2>1. (\A r, s \in Ranks : View(r) = View(s)) /\ 1 \in Ranks
      BY <1>1, <1>2, AllAtWork
    <2> QED BY <1>1, <1>2, <2>1, AlikeIs
  <1> DEFINE b == batch[1]
             br == branch[1]
             m == micro[1]
             K == Number(b)
  <1>5. \A r \in Ranks : batch[r] = b /\ branch[r] = br /\ micro[r] = m
    BY <1>4
  <1>6. \A r \in Ranks : /\ IsNormed(r) /\ IsReduced(r) /\ IsCounted(r) /\ KeysApart(batch[r])
    BY <1>1, <1>2, AllGatheredAt
  <1>7. KeysApart(b) /\ K \in Nat \ {0} /\ m \in 1..K
    <2>1. KeysApart(b) /\ IsCounted(1)
      BY <1>4, <1>6
    <2>2. K \in Nat \ {0}
      BY <2>1 DEF KeysApart
    <2>3. m \in 1..(K + 1) /\ m <= K
      BY <1>1, <1>4, <2>1 DEF IsCounted, InForward
    <2> QED BY <2>1, <2>2, <2>3
  <1>8. \A r \in Ranks : IsAccumulated(r)
    BY <1>1, <1>6 DEF IsReduced, InForward
  <1>9. \A r \in Ranks : Accumulated(r) = local[r] (+) SetToBag(Fresh(r, b, br, m))
    <2> TAKE r \in Ranks
    <2>1. parts[r] = PartsOf(r, batch[r])
      BY <1>8 DEF IsAccumulated
    <2> QED BY <1>2, <1>5, <2>1, MicroBatchKeys DEF Accumulated
  <1>10. /\ \A d, o : Part(d, o)' = Part(d, o)
         /\ \A d : Whole(d)' = Whole(d) /\ Number(d)' = Number(d)
         /\ conf' = conf
    BY <1>2, SameHands, SameGradients
  <1>11. ASSUME NEW r \in Ranks PROVE IsNormed(r)'
    <2>1. \A d, o : Kept(d, o)' = Kept(d, o)
      BY <1>10 DEF Kept
    <2> QED BY <1>1, <1>2, <1>6, <1>10, <2>1 DEF IsNormed, InBranches, InForward, Searching
  <1>12. ASSUME NEW r \in Ranks PROVE IsAccumulated(r)'
    <2>1. parts'[r] = PartsOf(r, b)
      BY <1>2, <1>5, <1>8 DEF IsAccumulated
    <2>2. pc'[r] = "forward" /\ micro'[r] = m + 1 /\ micro'[r] - 1 = m /\ batch'[r] = b /\ branch'[r] = br
      BY <1>1, <1>2, <1>5, <1>7
    <2>0. UNCHANGED trainer
      BY <1>2
    <2>3. CASE conf.defer
      <3>1. \A s \in Ranks : local[s] = SetToBag(Done(s, b, br, m - 1)) /\ sharded[s] = Zero
        BY <1>5, <1>7, <1>8, <2>3 DEF IsAccumulated
      <3>2. \A s \in Ranks : Accumulated(s) = SetToBag(Done(s, b, br, m))
        <4> TAKE s \in Ranks
        <4>1. Accumulated(s) = SetToBag(Done(s, b, br, m - 1)) (+) SetToBag(Fresh(s, b, br, m))
          BY <1>9, <3>1
        <4> HIDE DEF b, br, m
        <4> QED BY <1>7, <4>1, DoneGrows DEF K
      <3>3. CASE c = "micro"
        <4>1. m # K
          BY <1>1, <1>5, <1>8, <3>3 DEF IsAccumulated
        <4>2. local'[r] = SetToBag(Done(r, b, br, m)) /\ sharded'[r] = Zero
          BY <1>1, <3>1, <3>2, <3>3
        <4>3. m + 1 <= K
          BY <1>7, <4>1
        <4>6. /\ conf.defer /\ micro'[r] <= Number(b) =>
                     local'[r] = SetToBag(Done(r, b, br, m)) /\ sharded'[r] = Zero
              /\ ~(conf.defer /\ micro'[r] <= Number(b)) =>
                     local'[r] = Zero /\ sharded'[r] = SetToBag(AllDone(b, br, m))
          BY <2>2, <2>3, <4>2, <4>3
        <4> HIDE DEF b, br, m
        <4> QED BY ONLY <2>0, <2>1, <2>2, <4>6, r \in Ranks, AccumulatedIs
      <3>4. CASE c = "micro_sync"
        <4>1. m = K
          BY <1>1, <1>5, <1>8, <2>3, <3>4 DEF IsAccumulated
        <4>2. SumOf([s \in Ranks |-> Accumulated(s)]) = SetToBag(AllDone(b, br, m))
          <5>1. [s \in Ranks |-> Accumulated(s)] = [s \in Ranks |-> SetToBag(Done(s, b, br, m))]
            BY <3>2
          <5> HIDE DEF b, br, m
          <5>2. m \in 0..Number(b)
            BY <1>7 DEF K
          <5> QED BY <1>7, <5>1, <5>2, RanksAddUp
        <4>3. Zero (+) SetToBag(AllDone(b, br, m)) = SetToBag(AllDone(b, br, m))
          <5> DEFINE A == AllDone(b, br, m)
          <5> HIDE DEF A
          <5>1. SetToBag({}) (+) SetToBag(A) = SetToBag({} \cup A) /\ {} \cup A = A
            BY BagsJoin
          <5> QED BY <5>1, ZeroIs DEF A
        <4>4. local'[r] = Zero /\ sharded'[r] = SetToBag(AllDone(b, br, m))
          BY <1>1, <3>1, <3>4, <4>2, <4>3
        <4>5. ~(m + 1 <= K)
          BY <1>7, <4>1
        <4>6. /\ conf.defer /\ micro'[r] <= Number(b) =>
                     local'[r] = SetToBag(Done(r, b, br, m)) /\ sharded'[r] = Zero
              /\ ~(conf.defer /\ micro'[r] <= Number(b)) =>
                     local'[r] = Zero /\ sharded'[r] = SetToBag(AllDone(b, br, m))
          BY <2>2, <4>4, <4>5
        <4> HIDE DEF b, br, m
        <4> QED BY ONLY <2>0, <2>1, <2>2, <4>6, r \in Ranks, AccumulatedIs
      <3> QED BY <3>3, <3>4
    <2>4. CASE ~conf.defer
      <3>1. \A s \in Ranks : local[s] = Zero /\ sharded[s] = SetToBag(AllDone(b, br, m - 1))
        BY <1>5, <1>8, <2>4 DEF IsAccumulated
      <3>2. c = "micro_sync"
        BY <1>1, <1>4, <1>8, <2>4 DEF IsAccumulated
      <3>3. \A s \in Ranks : Accumulated(s) = SetToBag(Fresh(s, b, br, m))
        <4> TAKE s \in Ranks
        <4> DEFINE F == Fresh(s, b, br, m)
        <4>1. Accumulated(s) = SetToBag({}) (+) SetToBag(F)
          BY <1>9, <3>1, ZeroIs
        <4> HIDE DEF F
        <4>2. SetToBag({}) (+) SetToBag(F) = SetToBag({} \cup F) /\ {} \cup F = F
          BY BagsJoin
        <4> QED BY <4>1, <4>2 DEF F
      <3>4. sharded[r] (+) SumOf([s \in Ranks |-> Accumulated(s)]) = SetToBag(AllDone(b, br, m))
        <4>1. [s \in Ranks |-> Accumulated(s)] = [s \in Ranks |-> SetToBag(Fresh(s, b, br, m))]
          BY <3>3
        <4> HIDE DEF b, br, m
        <4> QED BY <1>7, <3>1, <4>1, AllDoneGrows DEF K
      <3>5. local'[r] = Zero /\ sharded'[r] = SetToBag(AllDone(b, br, m))
        BY <1>1, <3>2, <3>4
      <3>6. /\ conf.defer /\ micro'[r] <= Number(b) =>
                   local'[r] = SetToBag(Done(r, b, br, m)) /\ sharded'[r] = Zero
            /\ ~(conf.defer /\ micro'[r] <= Number(b)) =>
                   local'[r] = Zero /\ sharded'[r] = SetToBag(AllDone(b, br, m))
        BY <2>4, <3>5
      <3> HIDE DEF b, br, m
      <3> QED BY ONLY <2>0, <2>1, <2>2, <3>6, r \in Ranks, AccumulatedIs
    <2> QED BY <2>3, <2>4
  <1>13. ASSUME NEW r \in Ranks PROVE IsReduced(r)'
    BY <1>1, <1>2, <1>6, <1>10, <1>12 DEF IsReduced, InBranches, InForward, Searching, Zero
  <1> QED BY <1>1, <1>2, <1>3, <1>11, <1>13, TogetherGathers
-----------------------------------------------------------------------------
LEMMA BalanceGathers ==
    ASSUME Control, Gathered, Balance
    PROVE  Gathered'
  <1>1. /\ phase = "sampled" /\ phase' \in {"scoring", "raised"}
        /\ local' = local /\ sharded' = sharded /\ norms' = norms /\ weights' = weights /\ batch' = batch
    BY DEF Balance, gradients
  <1>2. phase # "updating" /\ phase' # "updating"
    BY <1>1
  <1>3. Held'
    BY <1>1 DEF Gathered, Held
  <1> QED BY <1>1, <1>2, <1>3 DEF Gathered, Zero

LEMMA NothingApplied == IsApplied(<<>>, 0)
  <1>1. Finite(0) = {} /\ Cardinality({}) = 0
    BY FS_EmptySet DEF Finite
  <1> QED BY <1>1, NothingCounted DEF IsApplied

LEMMA WriteBackGathers ==
    ASSUME Control, Gathered, WriteBack
    PROVE  Gathered'
  <1>1. /\ phase = "scoring" /\ phase' = "updating" /\ rows' = rows /\ keys' = keys
        /\ local' = local /\ sharded' = sharded /\ norms' = norms /\ weights' = weights /\ batch' = batch
        /\ \A r \in Ranks : pc'[r] = "next"
    BY DEF WriteBack, gradients
  <1>2. Held' /\ \A r \in Ranks : local[r] = Zero /\ weights[r] = <<>> /\ batch[r] = 0
    BY <1>1 DEF Gathered, Held
  <1>3. ASSUME NEW r \in Ranks PROVE IsApplied(weights[r], Stepped(r))' /\ IsNormed(r)' /\ IsReduced(r)'
    <2>1. weights'[r] = <<>> /\ Stepped(r)' = 0
      BY <1>1, <1>2 DEF Stepped
    <2>2. IsApplied(<<>>, 0)' <=> IsApplied(<<>>, 0)
      BY <1>1, SameGradients
    <2>3. IsApplied(weights[r], Stepped(r))'
      BY <2>1, <2>2, NothingApplied
    <2>4. IsNormed(r)' /\ IsReduced(r)'
      BY <1>1, <1>2 DEF IsNormed, IsReduced, InBranches, InForward, Searching, Zero
    <2> QED BY <2>3, <2>4
  <1> QED BY <1>1, <1>2, <1>3 DEF Gathered

LEMMA GatheredHolds == Spec => []Gathered
  <1>1. Init => Gathered
    BY DEF Init, Gathered, Held
  <1>2. Control /\ Gathered /\ [Next]_vars => Gathered'
    <2> SUFFICES ASSUME Control, Gathered, [Next]_vars PROVE Gathered'
      OBVIOUS
    <2>1. CASE Balance
      BY <2>1, BalanceGathers
    <2>2. CASE WriteBack
      BY <2>2, WriteBackGathers
    <2>3. CASE Collective
      BY <2>3, CountTokensGathers, SearchingGathers, LimitGathers, ScoreGathers, TrainGathers, NormGathers,
         MetricsGather DEF Collective
    <2>4. ASSUME NEW r \in Ranks, Local(r) PROVE Gathered'
      BY <2>4, NextMiniBatchGathers, FinishGathers, PrepareGathers, SearchGathers, ForwardGathers, RaiseGathers,
         MeasuredGathers, StepGathers DEF Local
    <2>5. CASE UNCHANGED vars
      <3>1. /\ UNCHANGED trainer /\ phase' = phase /\ rows' = rows /\ keys' = keys
            /\ local' = local /\ sharded' = sharded /\ norms' = norms /\ weights' = weights /\ batch' = batch
            /\ pc' = pc
        BY <2>5 DEF vars, trainer, gradients
      <3>2. \A r \in Ranks : Untouched(r) /\ Unmoved(r)
        BY <2>5 DEF vars, Untouched, Unmoved, search, gradients, metrics
      <3>3. \A r \in Ranks : (IsNormed(r) => IsNormed(r)') /\ (IsReduced(r) => IsReduced(r)')
        BY <3>1, <3>2, NormedStays, ReducedStays DEF Untouched, Unmoved
      <3>4. \A r \in Ranks : IsApplied(weights[r], Stepped(r)) => IsApplied(weights[r], Stepped(r))'
        BY <3>1, SameGradients DEF Stepped
      <3> QED BY <3>1, <3>3, <3>4 DEF Gathered, Held, Zero
    <2> QED BY <2>1, <2>2, <2>3, <2>4, <2>5 DEF Next
  <1> QED BY <1>1, <1>2, ControlHolds, PTL DEF Spec

\* For any number of ranks, rows and micro-batches, whichever ranks reduce when: what
\* is applied is the gradient of whole mini-batches, and mini-batches whose gradient is
\* not finite are left out on every rank alike (forward_backward_batch, optimizer_step).
THEOREM GradientsAreWhole == Spec => []GradientIsWhole
  <1>1. Gathered => GradientIsWhole
    <2> SUFFICES ASSUME Gathered, NEW r \in Ranks
                 PROVE  /\ Len(weights[r]) = Cardinality(Finite(Stepped(r)))
                        /\ \A b \in Finite(Stepped(r)) :
                              weights[r][Cardinality({c \in Finite(Stepped(r)) : c <= b})] = Whole(b)
      BY DEF GradientIsWhole, Finite
    <2>1. IsApplied(weights[r], Stepped(r))
      <3>1. CASE phase = "updating"
        BY <3>1 DEF Gathered
      <3>2. CASE phase # "updating"
        <4>1. weights[r] = <<>> /\ batch[r] = 0
          BY <3>2 DEF Gathered
        <4>2. Stepped(r) = 0
          <5>1. Max({0, 1}) - 1 = 0
            BY MaxOne
          <5> QED BY <4>1, <5>1 DEF Stepped
        <4> QED BY <4>1, <4>2, NothingApplied
      <3> QED BY <3>1, <3>2
    <2> QED BY <2>1, CountedLen DEF IsApplied
  <1> QED BY <1>1, GatheredHolds, PTL

\* The norms reported for a mini-batch are those of the correct rows, of the error rows
\* and of both, or of the whole without diagnostics (_r2opl_base_measure_branch).
THEOREM NormsAreMeasured == Spec => []NormsAreOfBranches
  <1>1. Control /\ Gathered => NormsAreOfBranches
    <2> SUFFICES ASSUME Control, Gathered, NEW r \in Ranks, pc[r] = "step"
                 PROVE  norms[r] = IF conf.method = "r2opl_base"
                                   THEN <<Part(batch[r], "correct"), Part(batch[r], "error"), Whole(batch[r])>>
                                   ELSE <<Whole(batch[r])>>
      BY DEF NormsAreOfBranches
    <2>1. phase = "updating"
      BY AtWork DEF IsPlaced, Searching
    <2>2. norms[r] = Append(OfBranches(batch[r]), Whole(batch[r]))
      BY <2>1, GatheredAt DEF IsNormed
    <2>3. ASSUME NEW x, NEW y, NEW z PROVE Append(<<x, y>>, z) = <<x, y, z>>
      <3> DEFINE s == Append(<<x, y>>, z)
      <3>1. s \in Seq({x, y, z}) /\ Len(s) = 3 /\ s[1] = x /\ s[2] = y /\ s[3] = z
        OBVIOUS
      <3> HIDE DEF s
      <3>2. s = <<x, y, z>>
        BY <3>1
      <3> QED BY <3>2 DEF s
    <2>4. ASSUME NEW z PROVE Append(<<>>, z) = <<z>>
      OBVIOUS
    <2> QED BY <2>2, <2>3, <2>4 DEF OfBranches
  <1> QED BY <1>1, ControlHolds, GatheredHolds, PTL
-----------------------------------------------------------------------------
\* Sums of sums.

\* Sets of numbers up to N that have no element in common.
AreApart(D, n, N) ==
    /\ \A i \in 1..n : D[i] \in SUBSET (1..N)
    /\ \A i, j \in 1..n : i # j => D[i] \cap D[j] = {}

\* Their sums add up to the sum over all their elements.
AddsUp(w, D, n) == SumSeq([i \in 1..n |-> SumOver(w, D[i])]) = SumOver(w, UNION {D[i] : i \in 1..n})

\* The sums over sets without a common element add up to the sum over them all.
LEMMA SumsAddUp ==
    ASSUME NEW N \in Nat, NEW w \in [1..N -> Nat], NEW n \in Nat, NEW D, AreApart(D, n, N)
    PROVE  AddsUp(w, D, n)
  <1> DEFINE S == 1..n
             T == 1..N
             f == [i \in S |-> SumOver(w, D[i])]
             All(x) == UNION {D[i] : i \in x}
             Good == {x \in SUBSET S : SumOver(f, x) = SumOver(w, All(x))}
  <1>1. IsFiniteSet(S) /\ IsFiniteSet(T) /\ \A x \in T : w[x] \in Nat
    <2>1. 1 \in Int /\ n \in Int /\ N \in Int
      OBVIOUS
    <2>2. IsFiniteSet(S) /\ IsFiniteSet(T)
      BY <2>1, FS_Interval
    <2> QED BY <2>2
  <1>2. (\A i \in S : D[i] \in SUBSET T) /\ \A i, j \in S : i # j => D[i] \cap D[j] = {}
    BY DEF AreApart
  <1>3. \A A \in SUBSET T : SumOver(w, A) \in Nat
    <2> TAKE A \in SUBSET T
    <2> HIDE DEF T
    <2>1. IsFiniteSet(A) /\ \A x \in A : w[x] \in Nat
      BY <1>1, FS_Subset
    <2> QED BY <2>1, SumFacts
  <1>4. \A i \in S : f[i] = SumOver(w, D[i]) /\ f[i] \in Nat
    BY <1>2, <1>3
  <1>5. ASSUME NEW x \in SUBSET S, \A y \in x : x \ {y} \in Good
        PROVE  x \in Good
    <2>1. CASE x = {}
      <3>1. SumOver(f, {}) = 0 /\ SumOver(w, {}) = 0
        <4> HIDE DEF f, S, T
        <4>1. SumOver(f, {}) = 0
          BY <1>1, <1>4, SumFacts
        <4>2. SumOver(w, {}) = 0
          BY <1>1, SumFacts
        <4> QED BY <4>1, <4>2
      <3>2. All({}) = {}
        OBVIOUS
      <3> HIDE DEF f, All
      <3> QED BY <2>1, <3>1, <3>2
    <2>2. CASE x # {}
      <3> DEFINE i == First(x)
                 y == x \ {i}
      <3>1. i \in x /\ i \in S
        BY <2>2, FirstIsIn
      <3> HIDE DEF i
      <3>2. SumOver(f, y) = SumOver(w, All(y))
        BY <1>5, <3>1
      <3>3. All(y) \cap D[i] = {} /\ All(y) \cup D[i] = All(x) /\ All(y) \in SUBSET T /\ D[i] \in SUBSET T
        <4>1. \A j \in y : j \in S /\ j # i
          OBVIOUS
        <4>2. \A j \in y : D[j] \cap D[i] = {}
          BY <1>2, <3>1, <4>1
        <4>3. All(y) \cap D[i] = {}
          BY <4>2
        <4>4. All(y) \cup D[i] = All(x)
          BY <3>1
        <4>5. All(y) \in SUBSET T
          BY <1>2
        <4> QED BY <1>2, <3>1, <4>3, <4>4, <4>5
      <3> HIDE DEF f, S, T, All, Good, y
      <3>4. SumOver(w, All(x)) = SumOver(w, All(y)) + SumOver(w, D[i])
        BY <1>1, <3>3, SumOfUnion
      <3>5. SumOver(f, x) = f[i] + SumOver(f, y)
        <4>1. IsFiniteSet(x) /\ \A j \in x : f[j] \in Nat
          BY <1>1, <1>4, FS_Subset
        <4> QED BY <3>1, <4>1, SumFacts DEF y
      <3>6. f[i] = SumOver(w, D[i]) /\ SumOver(w, D[i]) \in Nat /\ SumOver(w, All(y)) \in Nat
        BY <1>3, <1>4, <3>1, <3>3
      <3>7. SumOver(f, x) = SumOver(w, All(x))
        BY <3>2, <3>4, <3>5, <3>6
      <3> QED BY <3>7 DEF Good
    <2> QED BY <2>1, <2>2
  <1>6. Good \in SUBSET SUBSET S
    OBVIOUS
  <1>7. SumOver(f, S) = SumOver(w, All(S))
    <2>1. \A x \in SUBSET S : x \in Good
      <3> HIDE DEF Good, S
      <3> QED BY <1>1, <1>5, <1>6, SetsInduct
    <2> QED BY <2>1
  <1>8. SumSeq(f) = SumOver(f, S)
    <2>1. DOMAIN f = S
      OBVIOUS
    <2> HIDE DEF f, S
    <2> QED BY <2>1, SumSeqIs
  <1> QED BY <1>7, <1>8 DEF AddsUp

\* Ones add up to the number of elements, zeros to nothing.
LEMMA OnesAddUp ==
    ASSUME NEW S, IsFiniteSet(S), NEW w
    PROVE  /\ (\A x \in S : w[x] = 1) => SumOver(w, S) = Cardinality(S)
           /\ (\A x \in S : w[x] = 0) => SumOver(w, S) = 0
  <1> DEFINE Ones == {s \in SUBSET S : (\A x \in s : w[x] = 1) => SumOver(w, s) = Cardinality(s)}
             Zeros == {s \in SUBSET S : (\A x \in s : w[x] = 0) => SumOver(w, s) = 0}
  <1>1. ASSUME NEW s \in SUBSET S, \A x \in s : s \ {x} \in Ones PROVE s \in Ones
    <2> SUFFICES ASSUME \A x \in s : w[x] = 1 PROVE SumOver(w, s) = Cardinality(s)
      OBVIOUS
    <2>1. IsFiniteSet(s) /\ \A x \in s : w[x] \in Nat
      BY FS_Subset
    <2>2. SumOver(w, {}) = 0 /\ \A x \in s : SumOver(w, s) = w[x] + SumOver(w, s \ {x})
      BY <2>1, SumFacts
    <2>3. CASE s = {}
      BY <2>2, <2>3, FS_EmptySet
    <2>4. CASE s # {}
      <3>1. PICK x \in s : TRUE
        BY <2>4
      <3>2. SumOver(w, s \ {x}) = Cardinality(s \ {x})
        BY <1>1, <3>1
      <3>3. Cardinality(s \ {x}) = Cardinality(s) - 1 /\ Cardinality(s) \in Nat
        BY <2>1, <3>1, FS_RemoveElement, FS_CardinalityType
      <3> QED BY <2>2, <3>1, <3>2, <3>3
    <2> QED BY <2>3, <2>4
  <1>2. ASSUME NEW s \in SUBSET S, \A x \in s : s \ {x} \in Zeros PROVE s \in Zeros
    <2> SUFFICES ASSUME \A x \in s : w[x] = 0 PROVE SumOver(w, s) = 0
      OBVIOUS
    <2>1. IsFiniteSet(s) /\ \A x \in s : w[x] \in Nat
      BY FS_Subset
    <2>2. SumOver(w, {}) = 0 /\ \A x \in s : SumOver(w, s) = w[x] + SumOver(w, s \ {x})
      BY <2>1, SumFacts
    <2>3. CASE s = {}
      BY <2>2, <2>3
    <2>4. CASE s # {}
      <3>1. PICK x \in s : TRUE
        BY <2>4
      <3>2. SumOver(w, s \ {x}) = 0
        BY <1>2, <3>1
      <3> QED BY <2>2, <3>1, <3>2
    <2> QED BY <2>3, <2>4
  <1>3. Ones \in SUBSET SUBSET S /\ Zeros \in SUBSET SUBSET S
    OBVIOUS
  <1>4. S \in Ones
    <2> HIDE DEF Ones
    <2>1. \A s \in SUBSET S : s \in Ones
      BY <1>1, <1>3, SetsInduct
    <2> QED BY <2>1
  <1>5. S \in Zeros
    <2> HIDE DEF Zeros
    <2>1. \A s \in SUBSET S : s \in Zeros
      BY <1>2, <1>3, SetsInduct
    <2> QED BY <2>1
  <1> QED BY <1>4, <1>5

-----------------------------------------------------------------------------
\* What a row adds to the sums and counts.

ShareOf(key) ==
    [count |-> IF rows[key].outcome = "correct" THEN 1 ELSE 0,
     sum |-> IF rows[key].outcome = "correct" THEN rows[key].len ELSE 0]

Share(field) == [key \in 1..Len(rows) |-> ShareOf(key)[field]]

Fields == {"count", "sum"}

\* What the rows of a mini-batch add.
Shares(b) == [count |-> SumOver(Share("count"), KeysOf(b)), sum |-> SumOver(Share("sum"), KeysOf(b))]

LEMMA ShareIs ==
    ASSUME rows \in Seq(Row), NEW field \in Fields
    PROVE  Share(field) \in [1..Len(rows) -> Nat]
  <1>1. \A key \in 1..Len(rows) : rows[key].len \in Nat
    BY RowLensAre, RowLengths
  <1> QED BY <1>1 DEF Share, ShareOf, Fields

\* The totals are the sums of the rows' shares.
LEMMA TotalIs ==
    ASSUME rows \in Seq(Row), NEW field \in Fields
    PROVE  Total(field) = SumOver(Share(field), 1..Len(rows)) /\ Total(field) \in Nat
  <1> DEFINE T == 1..Len(rows)
             C == {key \in T : rows[key].outcome = "correct"}
             w == Share(field)
             lens == [key \in T |-> rows[key].len]
  <1>1. DOMAIN rows = T /\ IsFiniteSet(T) /\ w \in [T -> Nat] /\ \A key \in T : rows[key].len \in Nat
    <2>1. Len(rows) \in Nat /\ DOMAIN rows = T /\ \A key \in T : rows[key].len \in Nat
      BY RowLensAre, RowLengths
    <2> QED BY <2>1, ShareIs, FS_Interval
  <1>2. C \in SUBSET T /\ T \ C \in SUBSET T /\ C \cap (T \ C) = {} /\ C \cup (T \ C) = T
    OBVIOUS
  <1>3. /\ \A key \in T \ C : w[key] = 0
        /\ field = "count" => \A key \in C : w[key] = 1
        /\ field = "sum" => \A key \in C : w[key] = lens[key]
    BY DEF Share, ShareOf, Fields
  <1>4. field = "sum" => MapThenSumSet(LAMBDA key : rows[key].len, C) = SumOver(lens, C)
    <2> DEFINE Body(g) == [s \in SUBSET C |-> IF s = {} THEN 0 ELSE rows[First(s)].len + g[s \ {First(s)}]]
    <2>1. MapThenSumSet(LAMBDA key : rows[key].len, C) = (CHOOSE g : g = Body(g))[C]
      BY DEF MapThenSumSet, MapThenFoldSet, First
    <2>2. SumOver(lens, C) = (CHOOSE g : IsSum(g, lens, C))[C]
      BY DEF SumOver
    <2>3. \A s \in SUBSET C : s # {} => lens[First(s)] = rows[First(s)].len
      <3> TAKE s \in SUBSET C
      <3> HAVE s # {}
      <3>1. First(s) \in T
        BY FirstIsIn
      <3> HIDE DEF T
      <3> QED BY <3>1
    <2> HIDE DEF lens, C
    <2>4. \A g : g = Body(g) <=> IsSum(g, lens, C)
      <3> TAKE g
      <3> DEFINE Other == [s \in SUBSET C |-> IF s = {} THEN 0 ELSE lens[First(s)] + g[s \ {First(s)}]]
      <3>1. Body(g) = Other
        BY <2>3
      <3>2. IsSum(g, lens, C) <=> g = Other
        BY DEF IsSum
      <3> HIDE DEF Body, Other
      <3> QED BY <3>1, <3>2
    <2> HIDE DEF Body
    <2>5. (CHOOSE g : g = Body(g)) = (CHOOSE g : IsSum(g, lens, C))
      BY <2>4
    <2> QED BY <2>1, <2>2, <2>5
  <1>5. IsFiniteSet(C) /\ IsFiniteSet(T \ C)
    <2> HIDE DEF T, C
    <2> QED BY <1>1, <1>2, FS_Subset
  <1>6. Total(field) = IF field = "count" THEN Cardinality(C) ELSE MapThenSumSet(LAMBDA key : rows[key].len, C)
    BY <1>1 DEF Total
  <1>7. \A key \in C : lens[key] \in Nat
    BY <1>1
  <1> HIDE DEF T, C, w, lens
  <1>8. SumOver(w, C) = Total(field)
    <2>1. CASE field = "count"
      BY <1>3, <1>5, <1>6, <2>1, OnesAddUp
    <2>2. CASE field = "sum"
      <3>1. SumOver(lens, C) = SumOver(w, C)
        BY <1>3, <1>5, <1>7, <2>2, EqualSums
      <3> QED BY <1>4, <1>6, <2>2, <3>1
    <2> QED BY <2>1, <2>2 DEF Fields
  <1> DEFINE R == T \ C
  <1>9. SumOver(w, R) = 0
    BY <1>3, <1>5, OnesAddUp
  <1>10. \A key \in T : w[key] \in Nat
    BY <1>1
  <1>11. C \in SUBSET T /\ R \in SUBSET T /\ C \cap R = {} /\ C \cup R = T
    BY <1>2
  <1> HIDE DEF R
  <1>12. SumOver(w, T) = SumOver(w, C) + SumOver(w, R)
    <2>1. SumOver(w, C \cup R) = SumOver(w, C) + SumOver(w, R)
      <3>1. IsFiniteSet(T) /\ R \in SUBSET T /\ C \cap R = {}
        BY <1>1, <1>11
      <3> HIDE DEF T, w, C
      <3> QED BY <1>10, <1>11, <3>1, SumOfUnion
    <2> QED BY ONLY <1>11, <2>1
  <1>13. SumOver(w, T) \in Nat /\ SumOver(w, C) \in Nat
    <2>1. \A key \in C : w[key] \in Nat
      BY <1>10, <1>11
    <2> QED BY <1>1, <1>5, <1>10, <2>1, SumFacts
  <1>14. Total(field) = SumOver(w, T)
    BY <1>8, <1>9, <1>12, <1>13
  <1> QED BY <1>13, <1>14 DEF T, w
-----------------------------------------------------------------------------
\* What is reported of a micro-batch of one row.
LEMMA ReportIs ==
    ASSUME Dispatched, phase = "updating", ~conf.dynamic, MicroSize = 1, NEW r \in Ranks,
           batch[r] \in 1..MiniBatches, micro[r] \in 1..MiniSize, parts[r] = PartsOf(r, batch[r])
    PROVE  Report(r) = ShareOf(MiniBatch(r, batch[r])[micro[r]])
  <1> DEFINE b == batch[r]
             m == micro[r]
             key == MiniBatch(r, b)[m]
             mb == MicroBatch(r)
             C == {i \in DOMAIN mb : rows[mb[i]].outcome = "correct"}
             lens == [i \in DOMAIN mb |-> rows[mb[i]].len]
  <1>1. MiniSize \in Nat \ {0}
    BY ActorUpdateAssumption
  <1>2. mb = [i \in 1..1 |-> key]
    <2> DEFINE part == parts[r][m]
    <2>1. part = [i \in 1..1 |-> m]
      <3>1. MiniSize \div 1 = MiniSize /\ 1 * (m - 1) + 1 = m
        BY <1>1
      <3>2. part = [i \in 1..1 |-> 1 * (m - 1) + i]
        BY <3>1 DEF PartsOf, Chunks
      <3>3. \A i \in 1..1 : 1 * (m - 1) + i = m
        BY <3>1
      <3> HIDE DEF m
      <3> QED BY <3>2, <3>3
    <2>2. mb = [i \in DOMAIN part |-> MiniBatch(r, b)[part[i]]]
      BY DEF MicroBatch, AtHand
    <2> HIDE DEF part, mb, m
    <2> QED BY <2>1, <2>2
  <1>3. key \in 1..Len(rows) /\ rows \in Seq(Row)
    <2>1. MiniBatch(r, b) \in [1..MiniSize -> 1..Len(rows)]
      BY MiniBatchesDiffer DEF HandsDiffer
    <2>2. m \in 1..MiniSize
      OBVIOUS
    <2> HIDE DEF b, m
    <2> QED BY <2>1, <2>2 DEF Dispatched
  <1>4. rows[key].len \in Nat
    BY <1>3, RowLensAre, RowLengths
  <1>5. Report(r) = [count |-> Cardinality(C), sum |-> MapThenSumSet(LAMBDA i : rows[mb[i]].len, C)]
    BY DEF Report
  <1>6. MapThenSumSet(LAMBDA i : rows[mb[i]].len, C) = SumOver(lens, C)
    <2> DEFINE Body(g) == [s \in SUBSET C |-> IF s = {} THEN 0 ELSE rows[mb[First(s)]].len + g[s \ {First(s)}]]
    <2>1. MapThenSumSet(LAMBDA i : rows[mb[i]].len, C) = (CHOOSE g : g = Body(g))[C]
      BY DEF MapThenSumSet, MapThenFoldSet, First
    <2>2. SumOver(lens, C) = (CHOOSE g : IsSum(g, lens, C))[C]
      BY DEF SumOver
    <2>3. \A s \in SUBSET C : s # {} => lens[First(s)] = rows[mb[First(s)]].len
      <3> TAKE s \in SUBSET C
      <3> HAVE s # {}
      <3> HIDE DEF mb
      <3>1. First(s) \in DOMAIN mb
        BY FirstIsIn
      <3> QED BY <3>1
    <2> HIDE DEF lens, C, mb
    <2>4. \A g : g = Body(g) <=> IsSum(g, lens, C)
      <3> TAKE g
      <3> DEFINE Other == [s \in SUBSET C |-> IF s = {} THEN 0 ELSE lens[First(s)] + g[s \ {First(s)}]]
      <3>1. Body(g) = Other
        BY <2>3
      <3>2. IsSum(g, lens, C) <=> g = Other
        BY DEF IsSum
      <3> HIDE DEF Body, Other
      <3> QED BY <3>1, <3>2
    <2> HIDE DEF Body
    <2>5. (CHOOSE g : g = Body(g)) = (CHOOSE g : IsSum(g, lens, C))
      BY <2>4
    <2> QED BY <2>1, <2>2, <2>5
  <1> HIDE DEF mb, key
  <1>7. DOMAIN mb = {1} /\ mb[1] = key /\ lens[1] = rows[key].len
    BY <1>2
  <1> HIDE DEF lens
  <1>8. CASE rows[key].outcome = "correct"
    <2>1. C = {1}
      BY <1>7, <1>8
    <2>2. Cardinality(C) = 1
      BY <2>1, FS_Singleton
    <2>3. SumOver(lens, C) = rows[key].len
      BY <1>4, <1>7, <2>1, SumOfOne
    <2> QED BY <1>5, <1>6, <1>8, <2>2, <2>3 DEF ShareOf, key
  <1>9. CASE rows[key].outcome # "correct"
    <2>1. C = {}
      BY <1>7, <1>9
    <2>2. Cardinality(C) = 0 /\ IsFiniteSet(C)
      BY <2>1, FS_EmptySet
    <2>3. SumOver(lens, C) = 0
      BY <2>1, <2>2, OnesAddUp
    <2> QED BY <1>5, <1>6, <1>9, <2>2, <2>3 DEF ShareOf, key
  <1> QED BY <1>8, <1>9

\* What the ranks' reports of a mini-batch add up to.
LEMMA AggregateIs ==
    ASSUME Dispatched, NEW b \in 1..MiniBatches, NEW field \in Fields, DOMAIN reports[1] = 1..MiniSize,
           \A r \in Ranks : \A m \in 1..MiniSize : reports[r][m] = ShareOf(MiniBatch(r, b)[m])
    PROVE  AggregateDp(field) = SumOver(Share(field), KeysOf(b))
  <1> DEFINE N == Len(rows)
             w == Share(field)
             B == MiniSize
             key(r, m) == MiniBatch(r, b)[m]
             E == [m \in 1..B |-> {key(r, m) : r \in 1..DP}]
  <1>1. N \in Nat /\ B \in Nat /\ DP \in Nat /\ w \in [1..N -> Nat]
    BY ActorUpdateAssumption, ShareIs, RowLensAre DEF Dispatched
  <1>2. /\ \A r \in 1..DP : \A m \in 1..B : key(r, m) \in 1..N
        /\ \A r, s \in 1..DP : \A m, j \in 1..B : key(r, m) = key(s, j) => r = s /\ m = j
        /\ \A r \in 1..DP : DOMAIN MiniBatch(r, b) = 1..B
    <2>1. /\ \A r \in 1..DP : MiniBatch(r, b) \in [1..B -> 1..N]
          /\ \A r, s \in 1..DP : \A c, d \in 1..MiniBatches : \A i, j \in 1..B :
                MiniBatch(r, c)[i] = MiniBatch(s, d)[j] => r = s /\ c = d /\ i = j
      BY MiniBatchesDiffer DEF HandsDiffer, Ranks
    <2>2. \A r, s \in 1..DP : \A i, j \in 1..B : MiniBatch(r, b)[i] = MiniBatch(s, b)[j] => r = s /\ i = j
      BY <2>1
    <2> HIDE DEF N, B
    <2>3. \A r \in 1..DP : DOMAIN MiniBatch(r, b) = 1..B
      BY <2>1
    <2>4. \A r \in 1..DP : \A m \in 1..B : key(r, m) \in 1..N
      <3> TAKE r \in 1..DP
      <3> TAKE m \in 1..B
      <3>1. MiniBatch(r, b) \in [1..B -> 1..N]
        BY <2>1
      <3> QED BY <3>1
    <2> QED BY ONLY <2>2, <2>3, <2>4
  <1>3. \A r \in 1..DP : \A m \in 1..B : reports[r][m][field] = w[key(r, m)]
    BY <1>2 DEF Share, Ranks
  <1> HIDE DEF N, w, B, key
  <1>4. ASSUME NEW m \in 1..B
        PROVE  SumSeq([r \in Ranks |-> reports[r][m][field]]) = SumOver(w, E[m])
    <2> DEFINE D == [r \in 1..DP |-> {key(r, m)}]
    <2>1. \A r \in 1..DP : D[r] \in SUBSET (1..N) /\ SumOver(w, D[r]) = reports[r][m][field]
      <3> TAKE r \in 1..DP
      <3>1. key(r, m) \in 1..N /\ w[key(r, m)] \in Nat
        BY <1>1, <1>2
      <3>2. SumOver(w, {key(r, m)}) = w[key(r, m)]
        BY <3>1, SumOfOne
      <3> QED BY <1>3, <3>1, <3>2
    <2>2. \A r, s \in 1..DP : r # s => D[r] \cap D[s] = {}
      BY <1>2
    <2>3. UNION {D[r] : r \in 1..DP} = E[m]
      OBVIOUS
    <2> HIDE DEF D, E
    <2>6. AreApart(D, DP, N)
      BY <2>1, <2>2 DEF AreApart
    <2>4. SumSeq([r \in 1..DP |-> SumOver(w, D[r])]) = SumOver(w, UNION {D[r] : r \in 1..DP})
      <3>1. AddsUp(w, D, DP)
        BY <2>6, <1>1, SumsAddUp
      <3> QED BY <3>1 DEF AddsUp
    <2>5. [r \in 1..DP |-> SumOver(w, D[r])] = [r \in Ranks |-> reports[r][m][field]]
      BY <2>1 DEF Ranks
    <2> QED BY <2>3, <2>4, <2>5
  <1>5. /\ \A m \in 1..B : E[m] \in SUBSET (1..N)
        /\ \A m, j \in 1..B : m # j => E[m] \cap E[j] = {}
    BY <1>2
  <1>6. UNION {E[m] : m \in 1..B} = KeysOf(b)
    <2>1. \A r \in Ranks : Range(MiniBatch(r, b)) = {key(r, m) : m \in 1..B}
      BY <1>2 DEF Range, Ranks, key
    <2>2. KeysOf(b) = UNION {{key(r, m) : m \in 1..B} : r \in 1..DP}
      BY <2>1 DEF KeysOf, Ranks
    <2> QED BY <2>2
  <1> HIDE DEF E
  <1>9. AreApart(E, B, N)
    BY <1>5 DEF AreApart
  <1>7. SumSeq([m \in 1..B |-> SumOver(w, E[m])]) = SumOver(w, KeysOf(b))
    <2>1. SumSeq([m \in 1..B |-> SumOver(w, E[m])]) = SumOver(w, UNION {E[m] : m \in 1..B})
      <3>1. AddsUp(w, E, B)
        BY <1>9, <1>1, SumsAddUp
      <3> QED BY <3>1 DEF AddsUp
    <2> QED BY <1>6, <2>1
  <1>8. [m \in 1..B |-> SumOver(w, E[m])] = [m \in 1..B |-> SumSeq([r \in Ranks |-> reports[r][m][field]])]
    BY <1>4
  <1> QED BY <1>7, <1>8 DEF AggregateDp, B, w

\* What the mini-batches add up to.
LEMMA NumeratorIs ==
    ASSUME Dispatched, NEW r \in Ranks, NEW field \in Fields, DOMAIN published[r] = 1..MiniBatches,
           \A b \in 1..MiniBatches : published[r][b] = Shares(b)
    PROVE  Numerator(r, field) = Total(field) /\ Total(field) \in Nat
  <1> DEFINE N == Len(rows)
             w == Share(field)
             n == MiniBatches
             D == [b \in 1..n |-> KeysOf(b)]
  <1>1. N \in Nat /\ n \in Nat /\ w \in [1..N -> Nat] /\ rows \in Seq(Row)
    BY ShareIs, RowLensAre, DispatchFacts DEF Dispatched
  <1>2. /\ \A s \in Ranks : \A b \in 1..n : MiniBatch(s, b) \in [1..MiniSize -> 1..N]
        /\ \A s, t \in Ranks : \A b, c \in 1..n : \A i, j \in 1..MiniSize :
              MiniBatch(s, b)[i] = MiniBatch(t, c)[j] => s = t /\ b = c /\ i = j
        /\ \A key \in 1..N : \E s \in Ranks : \E b \in 1..n : \E i \in 1..MiniSize : key = MiniBatch(s, b)[i]
    BY MiniBatchesDiffer DEF HandsDiffer
  <1> HIDE DEF N, n, w
  <1>3. ASSUME NEW b \in 1..n, NEW key
        PROVE  key \in D[b] <=> \E s \in Ranks : \E i \in 1..MiniSize : key = MiniBatch(s, b)[i]
    <2>1. \A s \in Ranks : Range(MiniBatch(s, b)) = {MiniBatch(s, b)[i] : i \in 1..MiniSize}
      BY <1>2 DEF Range
    <2> QED BY <2>1 DEF KeysOf
  <1>4. ASSUME NEW b \in 1..n PROVE D[b] \in SUBSET (1..N)
    <2> SUFFICES ASSUME NEW key \in D[b] PROVE key \in 1..N
      OBVIOUS
    <2>1. PICK s \in Ranks : \E i \in 1..MiniSize : key = MiniBatch(s, b)[i]
      BY <1>3
    <2>2. MiniBatch(s, b) \in [1..MiniSize -> 1..N]
      BY <1>2
    <2> QED BY <2>1, <2>2
  <1>5. \A b, c \in 1..n : b # c => D[b] \cap D[c] = {}
    <2> SUFFICES ASSUME NEW b \in 1..n, NEW c \in 1..n, NEW key, key \in D[b], key \in D[c] PROVE b = c
      BY Zenon
    <2>1. PICK s \in Ranks : \E i \in 1..MiniSize : key = MiniBatch(s, b)[i]
      BY <1>3
    <2>2. PICK i \in 1..MiniSize : key = MiniBatch(s, b)[i]
      BY <2>1
    <2>3. PICK t \in Ranks : \E j \in 1..MiniSize : key = MiniBatch(t, c)[j]
      BY <1>3
    <2>4. PICK j \in 1..MiniSize : key = MiniBatch(t, c)[j]
      BY <2>3
    <2>5. MiniBatch(s, b)[i] = MiniBatch(t, c)[j]
      BY <2>2, <2>4
    <2>6. \A d, e \in 1..n : \A p, q \in 1..MiniSize : MiniBatch(s, d)[p] = MiniBatch(t, e)[q] => d = e
      BY <1>2
    <2> QED BY <2>5, <2>6
  <1>6. UNION {D[b] : b \in 1..n} = 1..N
    <2>1. \A key \in 1..N : \E b \in 1..n : key \in D[b]
      BY <1>2, <1>3
    <2> HIDE DEF D
    <2> QED BY <1>4, <2>1
  <1>7. [b \in DOMAIN published[r] |-> published[r][b][field]] = [b \in 1..n |-> SumOver(w, D[b])]
    <2>1. \A b \in 1..n : published[r][b][field] = SumOver(w, D[b])
      <3> TAKE b \in 1..n
      <3>1. published[r][b] = [count |-> SumOver(Share("count"), KeysOf(b)), sum |-> SumOver(Share("sum"), KeysOf(b))]
        BY DEF Shares, n
      <3>2. D[b] = KeysOf(b)
        OBVIOUS
      <3>3. CASE field = "count"
        BY <3>1, <3>2, <3>3 DEF w
      <3>4. CASE field = "sum"
        BY <3>1, <3>2, <3>4 DEF w
      <3> QED BY <3>3, <3>4 DEF Fields
    <2> HIDE DEF D
    <2> QED BY <2>1 DEF n
  <1> HIDE DEF D
  <1>8. SumSeq([b \in 1..n |-> SumOver(w, D[b])]) = SumOver(w, 1..N)
    <2>1. AreApart(D, n, N)
      BY <1>4, <1>5 DEF AreApart
    <2>2. SumSeq([b \in 1..n |-> SumOver(w, D[b])]) = SumOver(w, UNION {D[b] : b \in 1..n})
      <3>1. AddsUp(w, D, n)
        BY <2>1, <1>1, SumsAddUp
      <3> QED BY <3>1 DEF AddsUp
    <2> QED BY <1>6, <2>2
  <1>9. Total(field) = SumOver(w, 1..N) /\ Total(field) \in Nat
    BY <1>1, TotalIs DEF w, N
  <1> QED BY <1>7, <1>8, <1>9 DEF Numerator
-----------------------------------------------------------------------------
\* The metrics of an R2OPL update.

IsReported(r) ==
    LET m == IF pc[r] \in InForward THEN micro[r] - 1 ELSE MiniSize IN
    pc[r] \in InForward \cup {"clip", "step", "metrics"} =>
        /\ Counted(reports[r], m)
        /\ \A i \in 1..m : reports[r][i] = ShareOf(MiniBatch(r, batch[r])[i])

\* The mini-batches a rank has published the metrics of.
Told(r) == IF pc[r] \in {"next", "done"} THEN batch[r] ELSE batch[r] - 1

IsPublished(r) ==
    /\ Counted(published[r], Told(r))
    /\ \A b \in 1..Told(r) : published[r][b] = Shares(b)
    /\ pc[r] = "done" => batch[r] = MiniBatches

Pooled ==
    /\ DOMAIN published = Ranks
    /\ conf.method = "r2opl" => ~conf.dynamic /\ MicroSize = 1
    /\ phase # "updating" => \A r \in Ranks : published[r] = <<>>
    /\ conf.method = "r2opl" /\ phase = "updating" =>
          \A r \in Ranks : pc[r] # "raised" => IsReported(r) /\ IsPublished(r)

LEMMA SameShares ==
    ASSUME rows' = rows, keys' = keys
    PROVE  /\ \A key : ShareOf(key)' = ShareOf(key)
           /\ \A b : Shares(b)' = Shares(b)
           /\ \A s, b : MiniBatch(s, b)' = MiniBatch(s, b)
  <1>1. \A s, b : MiniBatch(s, b)' = MiniBatch(s, b)
    BY DEF MiniBatch, Rows
  <1>2. \A b : KeysOf(b)' = KeysOf(b)
    BY <1>1 DEF KeysOf
  <1>3. \A key : ShareOf(key)' = ShareOf(key)
    BY DEF ShareOf
  <1>4. \A field : Share(field)' = Share(field)
    BY <1>3 DEF Share
  <1>5. \A b : Shares(b)' = Shares(b)
    BY <1>2, <1>4 DEF Shares, SumOver, IsSum
  <1> QED BY <1>1, <1>3, <1>5

LEMMA PublishedStays ==
    ASSUME UNCHANGED trainer, NEW r \in Ranks, published'[r] = published[r], Told(r)' = Told(r),
           pc'[r] = "done" => batch'[r] = MiniBatches, IsPublished(r)
    PROVE  IsPublished(r)'
  <1>1. MiniBatches' = MiniBatches /\ rows' = rows /\ keys' = keys
    BY SameHands
  <1>2. \A b : Shares(b)' = Shares(b)
    BY <1>1, SameShares
  <1> QED BY <1>1, <1>2 DEF IsPublished

LEMMA ReportedStays ==
    ASSUME UNCHANGED trainer, NEW r \in Ranks, Untouched(r), IsReported(r)
    PROVE  IsReported(r)'
  <1>1. rows' = rows /\ keys' = keys
    BY SameHands
  <1>2. (\A key : ShareOf(key)' = ShareOf(key)) /\ \A s, b : MiniBatch(s, b)' = MiniBatch(s, b)
    BY <1>1, SameShares
  <1> QED BY <1>2 DEF IsReported, Untouched

LEMMA PooledElsewhere ==
    ASSUME Pooled, UNCHANGED trainer, DOMAIN published' = Ranks,
           phase # "updating" => published' = published,
           conf.method = "r2opl" /\ phase = "updating" =>
               \A r \in Ranks : pc'[r] # "raised" => IsReported(r)' /\ IsPublished(r)'
    PROVE  Pooled'
  <1>1. phase' = phase /\ conf' = conf
    BY SameHands
  <1> QED BY <1>1 DEF Pooled

\* A step of one rank.
LEMMA OnePools ==
    ASSUME Control, Pooled, UNCHANGED trainer, NEW r \in Ranks, published' = published,
           \A s \in Ranks : s # r => Untouched(s),
           conf.method = "r2opl" /\ phase = "updating" =>
               (pc'[r] # "raised" => IsReported(r)' /\ IsPublished(r)')
    PROVE  Pooled'
  <1>1. ASSUME conf.method = "r2opl", phase = "updating", NEW s \in Ranks, s # r, pc'[s] # "raised"
        PROVE  IsReported(s)' /\ IsPublished(s)'
    <2>1. Untouched(s) /\ pc[s] # "raised"
      BY <1>1 DEF Untouched
    <2>2. IsReported(s) /\ IsPublished(s)
      BY <1>1, <2>1 DEF Pooled
    <2>3. Told(s)' = Told(s) /\ (pc'[s] = "done" => batch'[s] = MiniBatches) /\ published'[s] = published[s]
      BY <2>1, <2>2 DEF Told, Untouched, IsPublished
    <2> QED BY <2>1, <2>2, <2>3, ReportedStays, PublishedStays
  <1>2. DOMAIN published' = Ranks
    BY DEF Pooled
  <1> QED BY <1>1, <1>2, PooledElsewhere

\* A rank in an R2OPL update.
LEMMA PooledAt ==
    ASSUME Control, Gathered, Pooled, conf.method = "r2opl", phase = "updating", NEW r \in Ranks,
           pc[r] # "idle", pc[r] # "raised"
    PROVE  /\ IsReported(r) /\ IsPublished(r) /\ ~conf.dynamic /\ MicroSize = 1
           /\ pc[r] \in {"next", "num_tokens", "clip", "step", "metrics", "done", "prepare"} \cup InForward
           /\ pc[r] \in InForward => branch[r] = "total" /\ count[r] = MiniSize /\ micro[r] \in 1..(MiniSize + 1)
           /\ batch[r] \in Nat /\ MiniSize \in Nat \ {0}
           /\ \A b : Number(b) = MiniSize
           /\ Dispatched /\ (pc[r] # "next" => batch[r] \in 1..MiniBatches)
           /\ batch[r] \in 0..MiniBatches
  <1>1. IsReported(r) /\ IsPublished(r) /\ ~conf.dynamic /\ MicroSize = 1
    BY DEF Pooled
  <1>2. /\ IsNormed(r) /\ IsReduced(r) /\ Dispatched /\ IsPlaced(r) /\ IsBranched(r) /\ IsCounted(r)
        /\ batch[r] \in Nat /\ (pc[r] # "next" => batch[r] \in 1..MiniBatches)
    BY GatheredAt
  <1>3. MiniSize \in Nat \ {0} /\ \A b : Number(b) = MiniSize
    <2>1. MiniSize \in Nat \ {0}
      BY ActorUpdateAssumption
    <2>2. MiniSize \div 1 = MiniSize
      BY <2>1
    <2>3. Size = MiniSize
      BY DEF Size
    <2> QED BY <1>1, <2>1, <2>2, <2>3 DEF Number
  <1>4. pc[r] \notin {"count", "norm", "measured"} \cup Searching
    BY <1>1, <1>2 DEF IsCounted, IsNormed, IsBranched, InBranches, Searching
  <1>5. pc[r] \in {"next", "num_tokens", "clip", "step", "metrics", "done", "prepare"} \cup InForward
    BY <1>2, <1>4 DEF IsPlaced, InBranches
  <1>6. pc[r] \in InForward => branch[r] = "total" /\ count[r] = MiniSize /\ micro[r] \in 1..(MiniSize + 1)
    BY <1>2, <1>3 DEF IsNormed, IsCounted, InBranches
  <1>7. batch[r] \in 0..MiniBatches
    BY <1>2 DEF IsPlaced
  <1> QED BY <1>1, <1>2, <1>3, <1>5, <1>6, <1>7

LEMMA NextMiniBatchPools ==
    ASSUME Control, Gathered, Pooled, NEW r \in Ranks, NextMiniBatch(r)
    PROVE  Pooled'
  <1>1. /\ UNCHANGED trainer /\ published' = published /\ pc[r] = "next" /\ pc'[r] = "num_tokens"
        /\ batch'[r] = batch[r] + 1
    BY DEF NextMiniBatch, Control, Indexed
  <1>2. \A s \in Ranks : s # r => Untouched(s)
    BY DEF NextMiniBatch, Control, Indexed, Untouched, search
  <1>3. ASSUME conf.method = "r2opl", phase = "updating" PROVE IsReported(r)' /\ IsPublished(r)'
    <2>1. IsPublished(r) /\ batch[r] \in Nat
      BY <1>1, <1>3, PooledAt
    <2>2. Told(r)' = Told(r)
      BY <1>1, <2>1 DEF Told
    <2>3. IsPublished(r)'
      BY <1>1, <2>1, <2>2, PublishedStays
    <2> QED BY <1>1, <2>3 DEF IsReported, InForward
  <1> QED BY <1>1, <1>2, <1>3, OnePools

LEMMA FinishPools ==
    ASSUME Control, Gathered, Pooled, NEW r \in Ranks, Finish(r)
    PROVE  Pooled'
  <1>1. /\ UNCHANGED trainer /\ published' = published /\ pc[r] = "next" /\ pc'[r] = "done"
        /\ batch'[r] = batch[r] /\ batch[r] = MiniBatches
    BY DEF Finish, Control, Indexed, metrics
  <1>2. \A s \in Ranks : s # r => Untouched(s)
    BY DEF Finish, Control, Indexed, Untouched, search, gradients, metrics
  <1>3. ASSUME conf.method = "r2opl", phase = "updating" PROVE IsReported(r)' /\ IsPublished(r)'
    <2>1. IsPublished(r)
      BY <1>1, <1>3, PooledAt
    <2>2. Told(r)' = Told(r)
      BY <1>1 DEF Told
    <2>3. IsPublished(r)'
      BY <1>1, <2>1, <2>2, PublishedStays
    <2> QED BY <1>1, <2>3 DEF IsReported, InForward
  <1> QED BY <1>1, <1>2, <1>3, OnePools

LEMMA PreparePools ==
    ASSUME Control, Gathered, Pooled, NEW r \in Ranks, Prepare(r)
    PROVE  Pooled'
  <1>1. /\ UNCHANGED trainer /\ published' = published /\ pc[r] = "prepare" /\ batch' = batch
    BY DEF Prepare
  <1>2. \A s \in Ranks : s # r => Untouched(s)
    BY DEF Prepare, Control, Indexed, Untouched
  <1>3. ASSUME conf.method = "r2opl", phase = "updating" PROVE IsReported(r)' /\ IsPublished(r)'
    <2>1. IsPublished(r) /\ ~conf.dynamic
      BY <1>1, <1>3, PooledAt
    <2>2. pc'[r] = "forward" /\ micro'[r] = 1 /\ reports'[r] = <<>>
      BY <2>1 DEF Prepare, Control, Indexed
    <2>3. Told(r)' = Told(r)
      BY <1>1, <2>2 DEF Told
    <2>4. IsPublished(r)'
      BY <1>1, <2>1, <2>2, <2>3, PublishedStays
    <2>5. micro'[r] - 1 = 0 /\ Counted(<<>>, 0)
      BY <2>2, NothingCounted
    <2>6. IsReported(r)'
      BY <2>2, <2>5 DEF IsReported, InForward
    <2> QED BY <2>4, <2>6
  <1> QED BY <1>1, <1>2, <1>3, OnePools

LEMMA ForwardPools ==
    ASSUME Control, Gathered, Pooled, NEW r \in Ranks, Forward(r)
    PROVE  Pooled'
  <1>1. /\ UNCHANGED trainer /\ published' = published /\ pc[r] = "forward" /\ batch' = batch /\ reports' = reports
        /\ micro' = micro
    BY DEF Forward, metrics, search
  <1>2. \A s \in Ranks : s # r => Untouched(s)
    BY DEF Forward, Control, Indexed, Untouched, search, gradients, metrics
  <1>3. ASSUME conf.method = "r2opl", phase = "updating" PROVE IsReported(r)' /\ IsPublished(r)'
    <2>1. /\ IsPublished(r) /\ IsReported(r) /\ MiniSize \in Nat
          /\ branch[r] = "total" /\ count[r] = MiniSize /\ micro[r] \in 1..(MiniSize + 1)
      BY <1>1, <1>3, PooledAt DEF InForward
    <2>2. pc'[r] = IF micro[r] > MiniSize THEN "clip" ELSE SyncKind(micro[r], count[r])
      BY <1>3, <2>1 DEF Forward, Control, Indexed, AfterForward
    <2>3. SyncKind(micro[r], count[r]) \in {"micro", "micro_sync"}
      BY DEF SyncKind
    <2>4. Told(r)' = Told(r)
      BY <1>1, <2>2, <2>3 DEF Told
    <2>5. IsPublished(r)'
      BY <1>1, <2>1, <2>2, <2>3, <2>4, PublishedStays
    <2>6. (\A key : ShareOf(key)' = ShareOf(key)) /\ \A s, b : MiniBatch(s, b)' = MiniBatch(s, b)
      BY <1>1, SameHands, SameShares
    <2>7. micro[r] > MiniSize => micro[r] - 1 = MiniSize
      BY <2>1
    <2>8. IsReported(r)'
      BY <1>1, <2>1, <2>2, <2>3, <2>6, <2>7 DEF IsReported, InForward
    <2> QED BY <2>5, <2>8
  <1> QED BY <1>1, <1>2, <1>3, OnePools

LEMMA RaisePools ==
    ASSUME Control, Gathered, Pooled, NEW r \in Ranks, Raise(r)
    PROVE  Pooled'
  <1>1. UNCHANGED trainer /\ published' = published /\ pc'[r] = "raised"
    BY DEF Raise, metrics, Control, Indexed
  <1>2. \A s \in Ranks : s # r => Untouched(s)
    BY DEF Raise, Control, Indexed, Untouched, search, gradients, metrics
  <1> QED BY <1>1, <1>2, OnePools

LEMMA StepPools ==
    ASSUME Control, Gathered, Pooled, NEW r \in Ranks, Step(r)
    PROVE  Pooled'
  <1>1. /\ UNCHANGED trainer /\ published' = published /\ pc[r] = "step" /\ pc'[r] = "metrics" /\ batch' = batch
        /\ reports' = reports
    BY DEF Step, metrics, Control, Indexed
  <1>2. \A s \in Ranks : s # r => Untouched(s)
    BY DEF Step, Control, Indexed, Untouched, search, metrics
  <1>3. ASSUME conf.method = "r2opl", phase = "updating" PROVE IsReported(r)' /\ IsPublished(r)'
    <2>1. IsPublished(r) /\ IsReported(r)
      BY <1>1, <1>3, PooledAt
    <2>2. Told(r)' = Told(r)
      BY <1>1 DEF Told
    <2>3. IsPublished(r)'
      BY <1>1, <2>1, <2>2, PublishedStays
    <2>4. (\A key : ShareOf(key)' = ShareOf(key)) /\ \A s, b : MiniBatch(s, b)' = MiniBatch(s, b)
      BY <1>1, SameHands, SameShares
    <2>5. IsReported(r)'
      BY <1>1, <2>1, <2>4 DEF IsReported, InForward
    <2> QED BY <2>3, <2>5
  <1> QED BY <1>1, <1>2, <1>3, OnePools

\* What R2OPL never does: look for a number of micro-batches, or measure branches.
LEMMA BranchesPool ==
    ASSUME Control, Gathered, Pooled, NEW r \in Ranks, Search(r) \/ Measured(r)
    PROVE  Pooled'
  <1>1. /\ UNCHANGED trainer /\ published' = published /\ pc[r] \in {"search", "measured"}
    BY DEF Search, Measured, metrics
  <1>2. \A s \in Ranks : s # r => Untouched(s)
    BY DEF Search, Measured, Control, Indexed, Untouched, search, gradients, metrics
  <1>3. ~(conf.method = "r2opl" /\ phase = "updating")
    BY <1>1, PooledAt DEF InForward
  <1> QED BY <1>1, <1>2, <1>3, OnePools
-----------------------------------------------------------------------------
\* What R2OPL's ranks never meet in, and what meets only in a scoring pass.
LEMMA SearchingPools ==
    ASSUME Control, Gathered, Pooled, AgreeOnCount \/ AgreeOnConstraints \/ AgreeOnLimit \/ ScoreMicroBatch
    PROVE  Pooled'
  <1>1. UNCHANGED trainer /\ published' = published /\ 1 \in Ranks
    BY ActorUpdateAssumption
       DEF AgreeOnCount, AgreeOnConstraints, AgreeOnLimit, ScoreMicroBatch, metrics, Ranks
  <1>2. phase = "updating" => pc[1] \in {"count", "constraints", "within"}
    BY <1>1 DEF AgreeOnCount, AgreeOnConstraints, AgreeOnLimit, ScoreMicroBatch, Meet
  <1>3. ~(conf.method = "r2opl" /\ phase = "updating")
    BY <1>1, <1>2, PooledAt DEF InForward
  <1>4. DOMAIN published' = Ranks
    BY <1>1 DEF Pooled
  <1> QED BY <1>1, <1>3, <1>4, PooledElsewhere

\* Between two passes, and from the gradient to the step.
LEMMA BetweenPools ==
    ASSUME Control, Gathered, Pooled, CountTokens \/ MeasureNorm
    PROVE  Pooled'
  <1>1. UNCHANGED trainer /\ published' = published /\ batch' = batch /\ reports' = reports
    BY DEF CountTokens, MeasureNorm, metrics
  <1>2. DOMAIN published' = Ranks
    BY <1>1 DEF Pooled
  <1>3. ASSUME conf.method = "r2opl", phase = "updating", NEW r \in Ranks
        PROVE  IsReported(r)' /\ IsPublished(r)'
    <2>1. \/ pc[r] = "num_tokens" /\ pc'[r] = "prepare"
          \/ pc[r] = "norm"
          \/ pc[r] = "clip" /\ pc'[r] = "step"
      BY DEF CountTokens, MeasureNorm, Meet
    <2>2. IsReported(r) /\ IsPublished(r) /\ pc[r] # "norm"
      BY <1>3, <2>1, PooledAt DEF InForward
    <2>3. Told(r)' = Told(r) /\ pc'[r] # "done"
      BY <1>1, <2>1, <2>2 DEF Told
    <2>4. IsPublished(r)'
      BY <1>1, <2>2, <2>3, PublishedStays
    <2>5. (\A key : ShareOf(key)' = ShareOf(key)) /\ \A s, b : MiniBatch(s, b)' = MiniBatch(s, b)
      BY <1>1, SameHands, SameShares
    <2>6. IsReported(r)'
      BY <1>1, <2>1, <2>2, <2>5 DEF IsReported, InForward
    <2> QED BY <2>4, <2>6
  <1> QED BY <1>1, <1>2, <1>3, PooledElsewhere

LEMMA TrainPools ==
    ASSUME Control, Gathered, Pooled, TrainMicroBatch
    PROVE  Pooled'
  <1>1. /\ UNCHANGED trainer /\ published' = published /\ batch' = batch
        /\ \A r \in Ranks : /\ pc[r] \in {"micro", "micro_sync"} /\ pc'[r] = "forward"
                            /\ reports'[r] = Append(reports[r], Report(r)) /\ micro'[r] = micro[r] + 1
    BY DEF TrainMicroBatch, Meet
  <1>2. DOMAIN published' = Ranks
    BY <1>1 DEF Pooled
  <1>3. ASSUME conf.method = "r2opl", phase = "updating", NEW r \in Ranks
        PROVE  IsReported(r)' /\ IsPublished(r)'
    <2> DEFINE b == batch[r]
               m == micro[r]
               u == reports[r]
               h == MiniBatch(r, b)
    <2>1. /\ IsReported(r) /\ IsPublished(r) /\ ~conf.dynamic /\ MicroSize = 1 /\ Dispatched
          /\ count[r] = MiniSize /\ m \in 1..(MiniSize + 1) /\ MiniSize \in Nat \ {0}
          /\ b \in 1..MiniBatches
      BY <1>1, <1>3, PooledAt DEF InForward
    <2>2. IsReduced(r) /\ IsCounted(r)
      BY <1>1, <1>3, GatheredAt
    <2>3. parts[r] = PartsOf(r, b)
      BY <1>1, <2>2 DEF IsReduced, IsAccumulated, InForward
    <2>4. m \in 1..MiniSize
      <3>1. m <= count[r]
        BY <1>1, <2>2 DEF IsCounted
      <3> QED BY <2>1, <3>1
    <2>5. Report(r) = ShareOf(h[m])
      BY <1>3, <2>1, <2>3, <2>4, ReportIs
    <2>6. Counted(u, m - 1) /\ \A i \in 1..(m - 1) : u[i] = ShareOf(h[i])
      BY <1>1, <2>1 DEF IsReported, InForward
    <2>7. m - 1 \in Nat /\ m - 1 + 1 = m /\ micro'[r] - 1 = m /\ 1..m = 1..(m - 1) \cup {m}
      BY <1>1, <2>4
    <2>8. Told(r)' = Told(r) /\ pc'[r] # "done"
      BY <1>1 DEF Told
    <2>9. IsPublished(r)'
      BY <1>1, <2>1, <2>8, PublishedStays
    <2>10. /\ \A key : ShareOf(key)' = ShareOf(key)
           /\ \A s, c : MiniBatch(s, c)' = MiniBatch(s, c)
           /\ h = MiniBatch(r, b)
      BY <1>1, SameHands, SameShares
    <2> DEFINE v == Append(u, ShareOf(h[m]))
    <2> HIDE DEF m, u, h
    <2>11. Counted(v, m - 1 + 1)
      BY <2>6, <2>7, OneMoreCounted
    <2>12. \A i \in 1..m : v[i] = ShareOf(h[i])
      <3>1. Len(u) = m - 1
        BY <2>6, CountedLen
      <3>2. PICK S : u \in Seq(S)
        BY <2>6 DEF Counted
      <3> QED BY <2>6, <2>7, <3>1, <3>2
    <2>13. reports'[r] = v
      BY <1>1, <2>5 DEF u
    <2> HIDE DEF v
    <2>14. IsReported(r)'
      <3>1. Counted(reports'[r], micro'[r] - 1)
        BY <2>7, <2>11, <2>13
      <3>2. \A i \in 1..(micro'[r] - 1) : reports'[r][i] = ShareOf(h[i])
        BY <2>7, <2>12, <2>13
      <3>3. batch'[r] = b /\ pc'[r] = "forward"
        BY <1>1
      <3> HIDE DEF b
      <3>4. \A i \in 1..(micro'[r] - 1) : reports'[r][i] = ShareOf(MiniBatch(r, batch'[r])[i])
        BY <2>10, <3>2, <3>3
      <3> QED BY <2>10, <3>1, <3>3, <3>4 DEF IsReported, InForward
    <2> QED BY <2>9, <2>14
  <1> QED BY <1>1, <1>2, <1>3, PooledElsewhere DEF TrainMicroBatch

LEMMA MetricsPool ==
    ASSUME Control, Gathered, Pooled, GatherMetrics
    PROVE  Pooled'
  <1>1. /\ UNCHANGED trainer /\ batch' = batch
        /\ \A r \in Ranks : pc[r] = "metrics"
        /\ phase # "updating" => published' = published
        /\ phase = "updating" =>
              /\ \A r \in Ranks : pc'[r] = "next"
              /\ published' = [r \in Ranks |-> Append(published[r],
                                  [count |-> AggregateDp("count"), sum |-> AggregateDp("sum")])]
    BY DEF GatherMetrics, Meet
  <1>2. DOMAIN published' = Ranks
    BY <1>1 DEF Pooled, GatherMetrics
  <1>3. ASSUME conf.method = "r2opl", phase = "updating", NEW r \in Ranks
        PROVE  IsReported(r)' /\ IsPublished(r)'
    <2> DEFINE b == batch[1]
    <2>1. (\A s \in Ranks : batch[s] = b) /\ 1 \in Ranks
      <3>1. (\A s, t \in Ranks : View(s) = View(t)) /\ 1 \in Ranks /\ "metrics" \in Collectives
        BY <1>1, AllAtWork DEF Collectives
      <3> QED BY <1>1, <3>1, AlikeIs
    <2>2. \A s \in Ranks : /\ IsReported(s) /\ IsPublished(s) /\ Dispatched /\ MiniSize \in Nat
                           /\ batch[s] \in 1..MiniBatches /\ batch[s] \in Nat
      BY <1>1, <1>3, PooledAt
    <2>3. b \in 1..MiniBatches /\ b \in Nat /\ b # 0 /\ batch[r] = b /\ Dispatched
      BY <2>1, <2>2
    <2>4. \A s \in Ranks : Counted(reports[s], MiniSize) /\ \A m \in 1..MiniSize : reports[s][m] = ShareOf(MiniBatch(s, b)[m])
      BY <1>1, <2>1, <2>2 DEF IsReported, InForward
    <2> HIDE DEF b
    <2>5. DOMAIN reports[1] = 1..MiniSize
      BY <2>1, <2>4 DEF Counted
    <2>6. \A field \in Fields : AggregateDp(field) = SumOver(Share(field), KeysOf(b))
      BY <2>3, <2>4, <2>5, AggregateIs
    <2>7. [count |-> AggregateDp("count"), sum |-> AggregateDp("sum")] = Shares(b)
      BY <2>6 DEF Shares, Fields
    <2> DEFINE u == published[r]
               v == Append(u, Shares(b))
    <2>8. published'[r] = v
      BY <1>1, <1>3, <2>7
    <2>9. Told(r) = b - 1 /\ Told(r)' = b
      BY <1>1, <1>3, <2>3 DEF Told
    <2>10. Counted(u, b - 1) /\ \A c \in 1..(b - 1) : u[c] = Shares(c)
      BY <2>2, <2>9 DEF IsPublished
    <2>11. b - 1 \in Nat /\ b - 1 + 1 = b /\ 1..b = 1..(b - 1) \cup {b}
      BY <2>3
    <2> HIDE DEF u
    <2>12. Counted(v, b - 1 + 1)
      BY <2>10, <2>11, OneMoreCounted
    <2>13. \A c \in 1..b : v[c] = Shares(c)
      <3>1. Len(u) = b - 1
        BY <2>10, CountedLen
      <3>2. PICK S : u \in Seq(S)
        BY <2>10 DEF Counted
      <3> QED BY <2>10, <2>11, <3>1, <3>2
    <2> HIDE DEF v
    <2>14. \A c : Shares(c)' = Shares(c)
      BY <1>1, SameHands, SameShares
    <2>15. IsPublished(r)'
      <3>1. Counted(published'[r], Told(r)')
        BY <2>8, <2>9, <2>11, <2>12
      <3>2. \A c \in 1..Told(r)' : published'[r][c] = Shares(c)
        BY <2>8, <2>9, <2>13
      <3>3. pc'[r] = "next"
        BY <1>1, <1>3
      <3> QED BY <2>14, <3>1, <3>2, <3>3 DEF IsPublished
    <2>16. IsReported(r)'
      BY <1>1, <1>3 DEF IsReported, InForward
    <2> QED BY <2>15, <2>16
  <1> QED BY <1>1, <1>2, <1>3, PooledElsewhere

LEMMA TrainerPools ==
    ASSUME Control, Gathered, Pooled, Balance \/ WriteBack
    PROVE  Pooled'
  <1>1. /\ phase \in {"sampled", "scoring"} /\ conf' = conf /\ published' = published
        /\ \/ phase' # "updating"
           \/ batch' = batch /\ \A r \in Ranks : pc'[r] = "next"
    BY DEF Balance, WriteBack, metrics
  <1>2. \A r \in Ranks : published'[r] = <<>> /\ batch[r] = 0
    BY <1>1 DEF Pooled, Gathered
  <1>3. ASSUME phase' = "updating", NEW r \in Ranks PROVE IsReported(r)' /\ IsPublished(r)'
    <2>1. pc'[r] = "next" /\ batch'[r] = 0 /\ published'[r] = <<>>
      BY <1>1, <1>2, <1>3
    <2>2. Told(r)' = 0
      BY <2>1 DEF Told
    <2>3. IsPublished(r)'
      BY <2>1, <2>2, NothingCounted DEF IsPublished
    <2> QED BY <2>1, <2>3 DEF IsReported, InForward
  <1> QED BY <1>1, <1>2, <1>3 DEF Pooled

LEMMA PooledHolds == Spec => []Pooled
  <1>1. Init => Pooled
    BY DEF Init, Pooled, Configurations
  <1>2. Control /\ Gathered /\ Pooled /\ [Next]_vars => Pooled'
    <2> SUFFICES ASSUME Control, Gathered, Pooled, [Next]_vars PROVE Pooled'
      OBVIOUS
    <2>1. CASE Balance \/ WriteBack
      BY <2>1, TrainerPools
    <2>2. CASE Collective
      BY <2>2, SearchingPools, BetweenPools, TrainPools, MetricsPool DEF Collective
    <2>3. ASSUME NEW r \in Ranks, Local(r) PROVE Pooled'
      BY <2>3, NextMiniBatchPools, FinishPools, PreparePools, ForwardPools, RaisePools, StepPools, BranchesPool
         DEF Local
    <2>4. CASE UNCHANGED vars
      <3>1. UNCHANGED trainer /\ published' = published /\ phase' = phase /\ conf' = conf /\ pc' = pc
        BY <2>4 DEF vars, trainer, metrics
      <3>2. \A r \in Ranks : Untouched(r)
        BY <2>4 DEF vars, Untouched, search, gradients, metrics
      <3>3. ASSUME conf.method = "r2opl", phase = "updating", NEW r \in Ranks, pc'[r] # "raised"
            PROVE  IsReported(r)' /\ IsPublished(r)'
        <4>1. IsReported(r) /\ IsPublished(r)
          BY <3>1, <3>3 DEF Pooled
        <4>2. Told(r)' = Told(r) /\ (pc'[r] = "done" => batch'[r] = MiniBatches)
          BY <3>1, <3>2, <4>1 DEF Told, Untouched, IsPublished
        <4> QED BY <3>1, <3>2, <4>1, <4>2, ReportedStays, PublishedStays
      <3>4. DOMAIN published' = Ranks
        BY <3>1 DEF Pooled
      <3> QED BY <3>1, <3>3, <3>4, PooledElsewhere
    <2> QED BY <2>1, <2>2, <2>3, <2>4 DEF Next
  <1> QED BY <1>1, <1>2, ControlHolds, GatheredHolds, PTL DEF Spec

\* However the rows were spread over ranks, mini-batches and micro-batches, the mean the
\* trainer materializes is the mean over all rows (Metric.aggregate_dp, reduce_metrics).
THEOREM MeansPooled == Spec => []MeansArePooled
  <1>1. Control /\ Gathered /\ Pooled => MeansArePooled
    <2> SUFFICES ASSUME Control, Gathered, Pooled, NEW r \in Ranks, conf.method = "r2opl", pc[r] = "done"
                 PROVE  Numerator(r, "sum") * Total("count") = Numerator(r, "count") * Total("sum")
      BY DEF MeansArePooled
    <2>1. phase = "updating" /\ Dispatched
      BY AtWork DEF IsPlaced, Searching
    <2>2. IsPublished(r)
      BY <2>1, PooledAt
    <2>3. Counted(published[r], MiniBatches) /\ \A b \in 1..MiniBatches : published[r][b] = Shares(b)
      BY <2>2 DEF IsPublished, Told
    <2>4. DOMAIN published[r] = 1..MiniBatches
      BY <2>3 DEF Counted
    <2>5. \A field \in Fields : Numerator(r, field) = Total(field) /\ Total(field) \in Nat
      BY <2>1, <2>3, <2>4, NumeratorIs
    <2> DEFINE c == Total("count")
               s == Total("sum")
    <2>6. Numerator(r, "count") = c /\ Numerator(r, "sum") = s /\ c \in Nat /\ s \in Nat
      BY <2>5 DEF Fields
    <2> HIDE DEF c, s
    <2>7. s * c = c * s
      BY <2>6
    <2> QED BY <2>6, <2>7 DEF c, s
  <1> QED BY <1>1, ControlHolds, GatheredHolds, PooledHolds, PTL
=============================================================================
