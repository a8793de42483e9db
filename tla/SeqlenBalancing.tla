--------------------------- MODULE SeqlenBalancing ---------------------------
(***************************************************************************)
(* Division of a batch by sequence length: the differencing method of      *)
(* Karmarkar and Karp, and the order in which a rank runs its              *)
(* micro-batches.  Indices count from one.                                 *)
(***************************************************************************)
EXTENDS Integers, Sequences, SequencesExt, FiniteSetsExt

SumSeq(s) == FoldSeq(LAMBDA x, y : x + y, 0, s)

Pairs(set) == set \X set

\* The elements of a set in a strict order of them, a set of pairs: the place of an
\* element tells how many come before it.
InOrder(set, order) ==
    LET places == {<<x, Cardinality({y \in set : <<y, x>> \in order}) + 1>> : x \in set}
    IN [p \in 1..Cardinality(set) |-> CHOOSE x \in set : <<x, p>> \in places]

\* The cost of a sequence for attention and the dense layers.
Workload(len) == 24576 * len + len * len

Workloads(lens) == [i \in DOMAIN lens |-> Workload(lens[i])]

-----------------------------------------------------------------------------
\* A set is its sum and its items <<index, value>> in the order they came.

FirstDifference(s, t) == CHOOSE i \in DOMAIN s : s[i] # t[i] /\ \A j \in 1..(i-1) : s[j] = t[j]

PairLess(p, q) == p[1] < q[1] \/ (p[1] = q[1] /\ p[2] < q[2])

ItemsLess(s, t) == s # t /\ LET i == FirstDifference(s, t) IN PairLess(s[i], t[i])

SetLess(a, b) ==
    \/ a.sum < b.sum
    \/ a.sum = b.sum /\ Len(a.items) < Len(b.items)
    \/ a.sum = b.sum /\ Len(a.items) = Len(b.items) /\ ItemsLess(a.items, b.items)

\* The places of sets, the largest set first.
Larger(sets) ==
    {p \in Pairs(DOMAIN sets) :
        SetLess(sets[p[2]], sets[p[1]]) \/ (sets[p[1]] = sets[p[2]] /\ p[1] < p[2])}

\* A state is a sequence of k sets, the largest first.
Decreasing(sets) == LET order == InOrder(DOMAIN sets, Larger(sets)) IN [i \in DOMAIN sets |-> sets[order[i]]]

StateOf(items, k) ==
    Decreasing([i \in 1..k |-> IF i <= Len(items) THEN [sum |-> items[i][2], items |-> <<items[i]>>]
                                                   ELSE [sum |-> 0, items |-> <<>>]])

\* Mutant: the largest sets of both states are joined.
MergeLargest(s, t) ==
    Decreasing([i \in DOMAIN s |-> [sum |-> s[i].sum + t[i].sum, items |-> s[i].items \o t[i].items]])

\* The largest set of one state meets the smallest of the other.
MergeStates(s, t) ==
    LET k == Len(s) IN
    Decreasing([i \in 1..k |-> [sum |-> s[i].sum + t[k + 1 - i].sum,
                                items |-> s[i].items \o t[k + 1 - i].items]])

Spread(s) == s[1].sum - s[Len(s)].sum

\* The heap gives out the state of the largest spread, then of the largest set.
PoppedBefore(s, t) ==
    Spread(s) > Spread(t) \/ (Spread(s) = Spread(t) /\ SetLess(t[1], s[1]))

NextOf(heap) == CHOOSE s \in heap : \A t \in heap \ {s} : PoppedBefore(s, t)

Merged(heap) ==
    LET s == NextOf(heap)
        t == NextOf(heap \ {s})
    IN (heap \ {s, t}) \union {MergeStates(s, t)}

\* What is left of a heap when all but one of its states have been merged.
Differencing(heap) ==
    LET merges == Cardinality(heap) - 1
        left[n \in 0..merges] == IF n = 0 THEN heap ELSE Merged(left[n - 1])
    IN CHOOSE s \in left[merges] : TRUE

\* The places of values, the smallest value first.
Smaller(vals) ==
    {p \in Pairs(DOMAIN vals) :
        vals[p[1]] < vals[p[2]] \/ (vals[p[1]] = vals[p[2]] /\ p[1] < p[2])}

ByValue(vals) ==
    LET order == InOrder(DOMAIN vals, Smaller(vals)) IN [i \in DOMAIN vals |-> <<order[i], vals[order[i]]>>]

\* With equal sizes each k neighbours start as one state, else each item.
Heap(vals, k, equal) ==
    LET items == ByValue(vals) IN
    IF equal THEN {StateOf(SubSeq(items, k * (b - 1) + 1, k * b), k) : b \in 1..(Len(vals) \div k)}
             ELSE {StateOf(<<items[i]>>, k) : i \in DOMAIN items}

Ascending(set) == InOrder(set, {p \in Pairs(set) : p[1] < p[2]})

IndicesOf(set) == {set.items[i][1] : i \in DOMAIN set.items}

Partitions(vals, k, equal) ==
    LET final == Differencing(Heap(vals, k, equal))
    IN [i \in 1..k |-> Ascending(IndicesOf(final[i]))]

\* What get_seqlen_balanced_partitions and karmarkar_karp assert of the result.
Accepted(parts, n, equal) ==
    /\ \A i \in DOMAIN parts : parts[i] # <<>>
    /\ UNION {Range(parts[i]) : i \in DOMAIN parts} = 1..n
    /\ equal => \A i \in DOMAIN parts : Len(parts[i]) * Len(parts) = n

-----------------------------------------------------------------------------
PartSum(part, vals) == SumSeq([i \in DOMAIN part |-> vals[part[i]]])

\* The places of parts, the heaviest part first.
Heavier(parts, loads) ==
    LET load == [i \in DOMAIN parts |-> PartSum(parts[i], loads)] IN
    {p \in Pairs(DOMAIN parts) :
        load[p[1]] > load[p[2]] \/ (load[p[1]] = load[p[2]] /\ parts[p[1]][1] > parts[p[2]][1])}

ByLoad(parts, loads) ==
    LET order == InOrder(DOMAIN parts, Heavier(parts, loads)) IN [i \in DOMAIN parts |-> parts[order[i]]]

\* The heaviest part goes to the middle and the lightest to both ends.
LightAtBothEnds(parts) ==
    LET n == Len(parts)
        odd == [i \in 1..((n + 1) \div 2) |-> parts[2 * i - 1]]
        even == [i \in 1..(n \div 2) |-> parts[2 * i]]
    IN Reverse(odd) \o even

MicroOrder(parts, loads) == LightAtBothEnds(ByLoad(parts, loads))

CeilDiv(a, b) == (a + b - 1) \div b

\* A lower bound only: samples cannot be split.
FirstCount(lens, limit) == Min({Len(lens), CeilDiv(SumSeq(lens), limit)})

\* The micro-batches of a rank for a given number, in the order they are run.
MicroBatches(lens, k) == MicroOrder(Partitions(Workloads(lens), k, FALSE), Workloads(lens))

\* Mutant: the map itself in place of its inverse.
ForwardIndex(map) == map

\* Row i of what the micro-batches returned belongs to index map[i].
ReverseIndex(map) == [j \in DOMAIN map |-> CHOOSE i \in DOMAIN map : map[i] = j]

RestoreOrder(rows, parts) ==
    LET back == ReverseIndex(FlattenSeq(parts))
    IN [j \in DOMAIN rows |-> rows[back[j]]]
=============================================================================
