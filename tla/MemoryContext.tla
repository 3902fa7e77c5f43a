----------------------------- MODULE MemoryContext -----------------------------
(***************************************************************************)
(* The memories that are put into a prompt: search and context_plan of     *)
(* memory_store.py.  Newest first, an account's active memories are found, *)
(* ranked by how well they match the query, and given the largest of three *)
(* forms that their rank deserves and the budget still allows.             *)
(***************************************************************************)
EXTENDS Naturals, FiniteSets

CONSTANTS
    Last,           \* memories are numbered in the order of the document
    Score,          \* of a match with the query
    Updated,        \* times
    Sizes,          \* lengths of the abstract, overview and full form
    Budgets,
    SearchLimit,    \* memories that context_plan searches
    Limit           \* memories that it offers a place

\* What the constants are taken to be.
ConstantsFit ==
    /\ {Last, SearchLimit, Limit} \subseteq Nat
    /\ Score \cup Updated \cup Budgets \subseteq Nat
    /\ Sizes \subseteq [1 .. 3 -> Nat \ {0}]
    /\ \A z \in Sizes : z[1] <= z[2] /\ z[2] <= z[3]

VARIABLES
    memories,   \* the document, read once
    budget,
    level,      \* the form given to a memory: 0 for none
    todo,       \* ranked memories not looked at yet
    used

vars == <<memories, budget, level, todo, used>>

Item == 1 .. Last

Memory == [usable : BOOLEAN,    \* of the account, enabled and not expired
           updated : Updated, score : Score, size : Sizes]

\* Python's sort is stable: of equals, the first in the document is first.
Newer(m, i, j) ==
    \/ m[i].updated > m[j].updated
    \/ m[i].updated = m[j].updated /\ i < j

\* context_plan ranks by the score, then by the place in the search.
Better(m, i, j) ==
    \/ m[i].score > m[j].score
    \/ m[i].score = m[j].score /\ Newer(m, i, j)

Found(m) ==
    LET usable == {i \in Item : m[i].usable} IN
    {i \in usable : Cardinality({j \in usable : Newer(m, j, i)}) < SearchLimit}

Ranked(m) == {i \in Found(m) : Cardinality({j \in Found(m) : Better(m, j, i)}) < Limit}

\* Four points and more are worth the full form, any an overview.
Desired(m, i) == IF m[i].score >= 4 THEN 3 ELSE IF m[i].score > 0 THEN 2 ELSE 1

Init ==
    /\ memories \in [Item -> Memory]
    /\ budget \in Budgets
    /\ level = [i \in Item |-> 0]
    /\ todo = Ranked(memories)
    /\ used = 0

Length(i, n) == IF n = 0 THEN 0 ELSE memories[i].size[n]

\* A form that fills the budget does not fit.
FittingBelow(i) ==
    LET fits == {n \in 0 .. Desired(memories, i) : n = 0 \/ used + Length(i, n) < budget} IN
    CHOOSE n \in fits : \A o \in fits : o <= n

\* The largest form that fits; 0 always does.
Fitting(i) ==
    LET fits == {n \in 0 .. Desired(memories, i) : used + Length(i, n) <= budget} IN
    CHOOSE n \in fits : \A o \in fits : o <= n

Place(i) ==
    /\ i \in todo /\ \A j \in todo \ {i} : Better(memories, i, j)
    /\ level' = [level EXCEPT ![i] = Fitting(i)]
    /\ used' = used + Length(i, Fitting(i))
    /\ todo' = todo \ {i}
    /\ UNCHANGED <<memories, budget>>

Next == \E i \in Item : Place(i)

Spec == Init /\ [][Next]_vars

-----------------------------------------------------------------------------
(* Properties.                                                             *)

TypeOK ==
    /\ memories \in [Item -> Memory]
    /\ budget \in Budgets
    /\ level \in [Item -> 0 .. 3]
    /\ todo \subseteq Item
    /\ used \in Nat

\* "Build a bounded, observable context ladder" (memory_store.py:248): the
\* budget holds, only active memories of the account are shown, none beyond
\* what its score deserves, and in the end no memory that was offered a place
\* could be shown one form larger in what is left.
PlanIsMaximal ==
    /\ used <= budget
    /\ \A i \in Item : level[i] > 0 =>
        memories[i].usable /\ level[i] <= Desired(memories, i)
    /\ todo = {} => \A i \in Ranked(memories) : level[i] < Desired(memories, i) =>
        used + Length(i, level[i] + 1) - Length(i, level[i]) > budget
=============================================================================
