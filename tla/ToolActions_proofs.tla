--------------------------- MODULE ToolActions_proofs ---------------------------
(* Theorems about the governed tool actions, for every set of actions,     *)
(* accounts and memories, every limit of the stores, and every number of   *)
(* failing calls, restarts and damaged records.                            *)
EXTENDS ToolActions, FiniteSetTheorems, WellFoundedInduction, TLAPS

\* Steps in which only the account's own memories change, or nothing does.
OwnMemories ==
    \/ \E x \in Account, m \in Memory : MemoryCreate(x, m) \/ MemoryDelete(x, m)
    \/ UNCHANGED vars

\* Steps of an execution before its outcome is recorded.
Running ==
    \/ \E m \in Memory : Remember(m) \/ Forget(m)
    \/ Search
    \/ Refused
    \/ MemoryFull

-----------------------------------------------------------------------------
(* Type correctness.                                                       *)

LEMMA TypeRequest ==
    ASSUME TypeOK, NEW a \in Action, Request(a)
    PROVE  TypeOK'
<1>1. ASSUME NEW x \in Account, NEW t \in Tool, NEW v \in Args, Stamp(a, x, t, v)
      PROVE  TypeOK'
  BY <1>1 DEF TypeOK, Stamp, State, history, budget
<1>2. CASE Create(a)
  BY <1>2 DEF TypeOK, Create, State, record, history, budget
<1>3. CASE CreateFails(a)
  BY <1>3 DEF TypeOK, CreateFails, Fault, State, record, history
<1>4. CASE Approve(a)
  BY <1>4 DEF TypeOK, Approve, State, budget
<1>5. CASE Reject(a)
  BY <1>5 DEF TypeOK, Reject, State, history, budget
<1>6. CASE Tampered(a)
  BY <1>6 DEF TypeOK, Tampered, State, record, history, budget
<1>7. CASE Execute(a)
  BY <1>7 DEF TypeOK, Execute, record, history, budget
<1> QED
  BY <1>1, <1>2, <1>3, <1>4, <1>5, <1>6, <1>7 DEF Request

\* The tool's change of the memories, for either tool.
LEMMA TypeEffect ==
    ASSUME TypeOK, pc = "run", args[cur] \in Args,
           NEW m \in Memory, NEW x \in Account \cup {None}, Effect(m, x)
    PROVE  TypeOK'
<1>1. cur \in Action /\ cur' = cur /\ pc' = "complete"
  BY DEF TypeOK, Effect
<1>2. memory' \in [Memory -> Account \cup {None}]
  BY DEF TypeOK, Effect
<1>3. used' \in [Action -> SUBSET Args]
  BY <1>1 DEF TypeOK, Effect
<1>4. effects' \in [Action -> Nat]
  BY <1>1 DEF TypeOK, Effect
<1> QED
  BY <1>1, <1>2, <1>3, <1>4 DEF TypeOK, Effect, record, budget

LEMMA TypeExecuting ==
    ASSUME TypeOK, Executing
    PROVE  TypeOK'
<1>1. ASSUME NEW m \in Memory, Remember(m)
      PROVE  TypeOK'
  <2>1. pc = "run" /\ args[cur] \in Args /\ owner[cur] \in Account \cup {None}
    BY <1>1 DEF TypeOK, Remember, Args
  <2> QED
    BY <1>1, <2>1, TypeEffect DEF Remember
<1>2. ASSUME NEW m \in Memory, Forget(m)
      PROVE  TypeOK'
  <2>1. pc = "run" /\ args[cur] \in Args
    BY <1>2 DEF Forget, Args
  <2> QED
    BY <1>2, <2>1, TypeEffect DEF Forget
<1>3. CASE Search
  BY <1>3 DEF TypeOK, Search, record, history, budget
<1>4. CASE Refused
  BY <1>4 DEF TypeOK, Refused, record, history, budget
<1>5. CASE MemoryFull
  BY <1>5 DEF TypeOK, MemoryFull, Fault, record, history
<1>6. CASE Record
  BY <1>6 DEF TypeOK, Record, Return, State, record, history, budget
<1>7. CASE ExecuteFails
  <2>1. lost' \in [Action -> Nat]
    BY <1>7 DEF TypeOK, ExecuteFails, Unrecorded
  <2> QED
    BY <1>7, <2>1 DEF TypeOK, ExecuteFails, Fault, Return, record
<1> QED
  BY <1>1, <1>2, <1>3, <1>4, <1>5, <1>6, <1>7 DEF Executing

LEMMA TypeElse ==
    ASSUME TypeOK,
           OwnMemories \/ Restart \/ \E a \in Action, v, h \in Args : Damage(a, v, h)
    PROVE  TypeOK'
<1>1. ASSUME NEW x \in Account, NEW m \in Memory, MemoryCreate(x, m) \/ MemoryDelete(x, m)
      PROVE  TypeOK'
  BY <1>1 DEF TypeOK, MemoryCreate, MemoryDelete, record, history, budget
<1>2. CASE UNCHANGED vars
  BY <1>2 DEF TypeOK, vars
<1>3. CASE Restart
  <2>1. lost' \in [Action -> Nat]
    BY <1>3 DEF TypeOK, Restart, Unrecorded
  <2> QED
    BY <1>3, <2>1 DEF TypeOK, Restart, Return, State, record
<1>4. ASSUME NEW a \in Action, NEW v \in Args, NEW h \in Args, Damage(a, v, h)
      PROVE  TypeOK'
  BY <1>4 DEF TypeOK, Damage, history
<1> QED
  BY <1>1, <1>2, <1>3, <1>4 DEF OwnMemories

\* The variables have their types.
THEOREM TypeCorrect == Spec => []TypeOK
<1>1. Init => TypeOK
  BY ConstantsAssumption DEF Init, TypeOK, State, Tool
<1>2. TypeOK /\ [Next]_vars => TypeOK'
  BY TypeRequest, TypeExecuting, TypeElse DEF Next, OwnMemories
<1> QED
  BY <1>1, <1>2, PTL DEF Spec

-----------------------------------------------------------------------------
(* Approval and effect.                                                    *)

\* An action that has not been decided has had no effect, one that may change
\* memories is ready only with the hash of the arguments its account was shown,
\* and the execution in progress has a ready action with just these.
FreshInv ==
    \A a \in Action :
        state[a] \in {"none", "creating", "awaiting_approval"} => used[a] = {}

ReadyInv == \A a \in Action : state[a] = "ready" /\ Mutates(a) => approved[a] = granted[a]

RunInv ==
    pc # "idle" => /\ state[cur] = "ready"
                   /\ Mutates(cur) => args[cur] = granted[cur]

ApprovalInv == FreshInv /\ ReadyInv /\ RunInv /\ OnlyApprovedArguments /\ RecordTellsEffect

LEMMA ApprovalRequest ==
    ASSUME TypeOK, ApprovalInv, NEW a \in Action, Request(a)
    PROVE  ApprovalInv'
<1> USE DEF ApprovalInv, FreshInv, ReadyInv, RunInv, OnlyApprovedArguments,
            RecordTellsEffect, Done, Mutates
<1>1. ASSUME NEW x \in Account, NEW t \in Tool, NEW v \in Args, Stamp(a, x, t, v)
      PROVE  ApprovalInv'
  BY <1>1 DEF TypeOK, Stamp, history
<1>2. CASE Create(a)
  BY <1>2 DEF TypeOK, Create, record, history
<1>3. CASE CreateFails(a)
  BY <1>3 DEF TypeOK, CreateFails, record, history
<1>4. CASE Approve(a)
  BY <1>4 DEF TypeOK, Approve, Intact
<1>5. CASE Reject(a)
  BY <1>5 DEF TypeOK, Reject, history
<1>6. CASE Tampered(a)
  BY <1>6 DEF TypeOK, Tampered, record, history
<1>7. CASE Execute(a)
  BY <1>7 DEF TypeOK, Execute, Intact, record, history
<1> QED
  BY <1>1, <1>2, <1>3, <1>4, <1>5, <1>6, <1>7 DEF Request

LEMMA ApprovalEffect ==
    ASSUME TypeOK, ApprovalInv, pc = "run", Mutates(cur),
           NEW m \in Memory, NEW x \in Account \cup {None}, Effect(m, x)
    PROVE  ApprovalInv'
<1>1. /\ cur \in Action /\ cur' = cur /\ state[cur] = "ready" /\ args[cur] = granted[cur]
      /\ UNCHANGED <<state, tool, args, approved, granted, lost>>
  BY DEF TypeOK, Effect, ApprovalInv, RunInv, record
<1>2. \A a \in Action : /\ used'[a] = used[a] \cup (IF a = cur THEN {args[cur]} ELSE {})
                         /\ effects'[a] = effects[a] + (IF a = cur THEN 1 ELSE 0)
  BY <1>1 DEF TypeOK, Effect
<1>3. (FreshInv /\ ReadyInv /\ RunInv)'
  BY <1>1, <1>2 DEF ApprovalInv, FreshInv, ReadyInv, RunInv, Mutates
<1>4. OnlyApprovedArguments'
  BY <1>1, <1>2 DEF ApprovalInv, OnlyApprovedArguments
<1>5. RecordTellsEffect'
  BY <1>1, <1>2 DEF TypeOK, ApprovalInv, RecordTellsEffect, Done, Mutates, Effect
<1> QED
  BY <1>3, <1>4, <1>5 DEF ApprovalInv

LEMMA ApprovalExecuting ==
    ASSUME TypeOK, ApprovalInv, Executing
    PROVE  ApprovalInv'
<1>1. ASSUME NEW m \in Memory, Remember(m)
      PROVE  ApprovalInv'
  BY <1>1, ApprovalEffect DEF TypeOK, Remember, Mutates
<1>2. ASSUME NEW m \in Memory, Forget(m)
      PROVE  ApprovalInv'
  BY <1>2, ApprovalEffect DEF Forget, Mutates
<1> USE DEF ApprovalInv, FreshInv, ReadyInv, RunInv, OnlyApprovedArguments,
            RecordTellsEffect, Done, Mutates
<1>3. CASE Search
  BY <1>3 DEF TypeOK, Search, record, history
<1>4. CASE Refused
  BY <1>4 DEF TypeOK, Refused, record, history
<1>5. CASE MemoryFull
  BY <1>5 DEF TypeOK, MemoryFull, record, history
<1>6. CASE Record
  BY <1>6 DEF TypeOK, Record, Return, record, history
<1>7. CASE ExecuteFails
  BY <1>7 DEF TypeOK, ExecuteFails, Unrecorded, Return, record
<1> QED
  BY <1>1, <1>2, <1>3, <1>4, <1>5, <1>6, <1>7 DEF Executing

LEMMA ApprovalElse ==
    ASSUME TypeOK, ApprovalInv,
           OwnMemories \/ Restart \/ \E a \in Action, v, h \in Args : Damage(a, v, h)
    PROVE  ApprovalInv'
<1> USE DEF ApprovalInv, FreshInv, ReadyInv, RunInv, OnlyApprovedArguments,
            RecordTellsEffect, Done, Mutates
<1>1. ASSUME NEW x \in Account, NEW m \in Memory, MemoryCreate(x, m) \/ MemoryDelete(x, m)
      PROVE  ApprovalInv'
  BY <1>1 DEF MemoryCreate, MemoryDelete, record, history
<1>2. CASE UNCHANGED vars
  BY <1>2 DEF vars
<1>3. CASE Restart
  BY <1>3 DEF TypeOK, Restart, Unrecorded, Return, record
<1>4. ASSUME NEW a \in Action, NEW v \in Args, NEW h \in Args, Damage(a, v, h)
      PROVE  ApprovalInv'
  BY <1>4 DEF TypeOK, Damage, history
<1> QED
  BY <1>1, <1>2, <1>3, <1>4 DEF OwnMemories

LEMMA ApprovalInvariant == Spec => []ApprovalInv
<1>1. Init => ApprovalInv
  BY DEF Init, ApprovalInv, FreshInv, ReadyInv, RunInv, OnlyApprovedArguments,
         RecordTellsEffect, Done, Mutates
<1>2. TypeOK /\ ApprovalInv /\ [Next]_vars => ApprovalInv'
  BY ApprovalRequest, ApprovalExecuting, ApprovalElse DEF Next, OwnMemories
<1> QED
  BY <1>1, <1>2, TypeCorrect, PTL DEF Spec

\* Tools change memories only with the arguments their account approved.
THEOREM ApprovedOnly == Spec => []OnlyApprovedArguments
BY ApprovalInvariant, PTL DEF ApprovalInv

\* The record of an action is exact about its effect, but for failures between
\* the two saves.
THEOREM RecordsAreExact == Spec => []RecordTellsEffect
BY ApprovalInvariant, PTL DEF ApprovalInv

LEMMA OwnershipStep ==
    ASSUME TypeOK, [Next]_vars, NEW m \in Memory, effects' # effects, memory'[m] # memory[m]
    PROVE  {memory[m], memory'[m]} = {None, owner[cur]}
<1>1. ASSUME NEW n \in Memory, Remember(n)
      PROVE  {memory[m], memory'[m]} = {None, owner[cur]}
  BY <1>1 DEF TypeOK, Remember, Effect
<1>2. ASSUME NEW n \in Memory, Forget(n)
      PROVE  {memory[m], memory'[m]} = {None, owner[cur]}
  BY <1>2 DEF TypeOK, Forget, Effect
<1>3. ASSUME NEW a \in Action, Request(a)
      PROVE  FALSE
  BY <1>3 DEF Request, Stamp, Create, CreateFails, Approve, Reject, Tampered, Execute, history
<1>4. CASE Search \/ Refused \/ MemoryFull \/ Record \/ ExecuteFails
  BY <1>4 DEF Search, Refused, MemoryFull, Record, ExecuteFails, history
<1>5. CASE OwnMemories \/ Restart \/ \E a \in Action, v, h \in Args : Damage(a, v, h)
  BY <1>5 DEF OwnMemories, MemoryCreate, MemoryDelete, Restart, Damage, history, vars
<1> QED
  BY <1>1, <1>2, <1>3, <1>4, <1>5 DEF Next, Executing, OwnMemories

\* Tools work on the memories of the account that owns the action.
THEOREM OwnershipRespected == Spec => ToolsRespectOwnership
<1>1. TypeOK /\ [Next]_vars =>
        [\A m \in Memory : effects' # effects /\ memory'[m] # memory[m] =>
            {memory[m], memory'[m]} = {None, owner[cur]}]_vars
  BY OwnershipStep
<1> QED
  BY <1>1, TypeCorrect, PTL DEF Spec, ToolsRespectOwnership

-----------------------------------------------------------------------------
(* The newest actions.                                                     *)

\* No two records have one time, and a record was dropped only from a store at
\* its limit, where it was older than all that stayed.
BornInv ==
    /\ \A a \in Action : born[a] <= clock
    /\ \A a, b \in Action : state[a] # "none" /\ state[b] # "none" /\ a # b => born[a] # born[b]

LimitInv ==
    /\ IsFiniteSet(Stored)
    /\ \A a \in Action : state[a] = "evicted" => Cardinality(Stored) = MaxActions

NewestInv == BornInv /\ LimitInv /\ StoreKeepsNewest

\* A set of actions that is not empty has an oldest one.
LEMMA Oldest ==
    ASSUME TypeOK, NEW S \in SUBSET Action, S # {}
    PROVE  \E e \in S : \A b \in S : born[e] <= born[b]
<1> DEFINE T == {born[b] : b \in S}
<1>1. T \subseteq Nat /\ T # {}
  BY DEF TypeOK
<1>2. PICK x \in T : \A y \in T : <<y, x>> \notin OpToRel(<, Nat)
  BY <1>1, WFMin, NatLessThanWellFounded
<1>3. \A y \in T : ~(y < x)
  BY <1>1, <1>2 DEF OpToRel
<1>4. PICK e \in S : born[e] = x
  BY <1>2
<1>5. ASSUME NEW b \in S
      PROVE  born[e] <= born[b]
  <2>1. born[b] \in T /\ born[b] \in Nat /\ x \in Nat
    BY <1>1, <1>2
  <2> QED
    BY <1>3, <1>4, <2>1
<1> QED
  BY <1>4, <1>5

\* A new record, in a store with room and in a full one.
LEMMA NewestCreate ==
    ASSUME TypeOK, NewestInv, NEW a \in Action, Create(a)
    PROVE  NewestInv'
<1> DEFINE S == Stored \cup {a}
<1>1. a \in S /\ S \subseteq Action /\ a \notin Stored /\ state[a] = "creating"
  BY DEF Create, Stored
<1>2. IsFiniteSet(S) /\ Cardinality(S) = Cardinality(Stored) + 1
  BY <1>1, FS_AddElement DEF NewestInv, LimitInv
<1>3. Cardinality(Stored) \in Nat /\ MaxActions \in Nat
  BY FS_CardinalityType, ConstantsAssumption DEF NewestInv, LimitInv
<1>4. born' = born /\ clock' = clock
  BY DEF Create, record
<1>5. Stored' = S \ Evicted(S)
  BY <1>1 DEF TypeOK, Create, Stored, Mutates, Evicted
<1>6. \A b \in Action : state'[b] = "evicted" <=> state[b] = "evicted" \/ b \in Evicted(S)
  BY <1>1 DEF TypeOK, Create, Stored, Mutates, Evicted
<1>7. BornInv'
  <2>1. \A b \in Action : state'[b] # "none" => state[b] # "none"
    BY <1>1 DEF TypeOK, Create, Stored, Evicted
  <2> QED
    BY <1>4, <2>1 DEF NewestInv, BornInv
<1>8. CASE Cardinality(S) <= MaxActions
  <2>1. Evicted(S) = {}
    BY <1>2, <1>3, <1>8 DEF Evicted
  <2>2. \A b \in Action : state'[b] # "evicted"
    <3>1. Cardinality(Stored) # MaxActions
      BY <1>2, <1>3, <1>8
    <3> QED
      BY <1>6, <2>1, <3>1 DEF NewestInv, LimitInv
  <2>3. Stored' = S
    BY <1>5, <2>1
  <2> QED
    BY <1>2, <1>3, <1>7, <1>8, <2>2, <2>3 DEF NewestInv, LimitInv, StoreKeepsNewest
<1>9. CASE Cardinality(S) > MaxActions
  <2>1. PICK e \in S : \A b \in S : born[e] <= born[b]
    BY <1>1, Oldest
  <2>2. \A b \in S : b # e => born[e] < born[b]
    BY <1>1, <2>1 DEF TypeOK, NewestInv, BornInv, Stored
  <2>3. Evicted(S) = {e}
    BY <1>1, <1>9, <2>1, <2>2 DEF Evicted, TypeOK
  <2>4. Cardinality(Stored) = MaxActions
    BY <1>2, <1>3, <1>9 DEF NewestInv, StoreKeepsNewest
  <2>5. IsFiniteSet(Stored') /\ Cardinality(Stored') = MaxActions
    <3>1. Stored' = S \ {e}
      BY <1>5, <2>3
    <3>2. IsFiniteSet(S \ {e}) /\ Cardinality(S \ {e}) = Cardinality(S) - 1
      BY <1>2, <2>1, FS_RemoveElement
    <3> QED
      BY <1>2, <1>3, <2>4, <3>1, <3>2
  <2>6. ASSUME NEW b \in Action, NEW c \in Action, state'[b] = "evicted", c \in Stored'
        PROVE  born[b] < born[c]
    <3>1. c \in S /\ c # e
      BY <1>5, <2>3, <2>6
    <3>2. CASE b = e
      BY <2>2, <3>1, <3>2
    <3>3. CASE state[b] = "evicted"
      <4>1. \A d \in Stored : born[b] < born[d]
        BY <3>3 DEF NewestInv, StoreKeepsNewest, Stored
      <4>2. CASE c \in Stored
        BY <4>1, <4>2
      <4>3. CASE c = a
        <5>1. e \in Stored
          BY <3>1, <4>3
        <5> QED
          BY <1>1, <2>2, <3>1, <4>1, <5>1 DEF TypeOK, Stored
      <4> QED
        BY <3>1, <4>2, <4>3
    <3> QED
      BY <1>6, <2>3, <2>6, <3>2, <3>3
  <2> QED
    BY <1>3, <1>4, <1>7, <2>5, <2>6 DEF NewestInv, LimitInv, StoreKeepsNewest
<1> QED
  BY <1>2, <1>3, <1>8, <1>9

\* A step that stores and drops no record.
Quiet ==
    /\ born' = born /\ clock' = clock
    /\ \A b \in Action :
          /\ state'[b] \in {"none", "creating"} <=> state[b] \in {"none", "creating"}
          /\ state'[b] = "evicted" <=> state[b] = "evicted"
          /\ state'[b] # "none" => state[b] # "none"

LEMMA NewestQuiet ==
    ASSUME NewestInv, Quiet
    PROVE  NewestInv'
<1>1. Stored' = Stored
  BY DEF Quiet, Stored
<1> QED
  BY <1>1 DEF Quiet, NewestInv, BornInv, LimitInv, StoreKeepsNewest

LEMMA NewestStamp ==
    ASSUME TypeOK, NewestInv, NEW a \in Action, NEW x \in Account, NEW t \in Tool,
           NEW v \in Args, Stamp(a, x, t, v)
    PROVE  NewestInv'
<1>1. Stored' = Stored /\ a \notin Stored
  BY DEF TypeOK, Stamp, Stored
<1>2. \A b \in Action : b # a => born'[b] = born[b] /\ state'[b] = state[b]
  BY DEF TypeOK, Stamp
<1>3. born'[a] = clock + 1 /\ clock' = clock + 1 /\ state'[a] = "creating"
  BY DEF TypeOK, Stamp
<1>4. BornInv'
  BY <1>2, <1>3 DEF TypeOK, NewestInv, BornInv
<1>5. LimitInv' /\ StoreKeepsNewest'
  BY <1>1, <1>2, <1>3 DEF NewestInv, LimitInv, StoreKeepsNewest
<1> QED
  BY <1>4, <1>5 DEF NewestInv

LEMMA NewestStep ==
    ASSUME TypeOK, ApprovalInv, NewestInv, [Next]_vars
    PROVE  NewestInv'
<1>1. ASSUME NEW a \in Action, Request(a)
      PROVE  NewestInv'
  <2>1. CASE CreateFails(a) \/ Approve(a) \/ Reject(a) \/ Tampered(a) \/ Execute(a)
    <3>1. Quiet
      BY <2>1 DEF TypeOK, Quiet, CreateFails, Approve, Reject, Tampered, Execute, Stored, record
    <3> QED
      BY <3>1, NewestQuiet
  <2> QED
    BY <1>1, <2>1, NewestStamp, NewestCreate DEF Request
<1>2. CASE Record
  <2>1. cur \in Action /\ state[cur] = "ready"
    BY <1>2 DEF TypeOK, Record, ApprovalInv, RunInv
  <2>2. Quiet
    BY <1>2, <2>1 DEF TypeOK, Quiet, Record, record
  <2> QED
    BY <2>2, NewestQuiet
<1>3. CASE Running \/ ExecuteFails
  <2>1. Quiet
    BY <1>3 DEF Quiet, Running, Remember, Forget, Effect, Search, Refused, MemoryFull,
                ExecuteFails, record
  <2> QED
    BY <2>1, NewestQuiet
<1>4. CASE OwnMemories \/ Restart \/ \E a \in Action, v, h \in Args : Damage(a, v, h)
  <2>1. Quiet
    BY <1>4 DEF TypeOK, Quiet, OwnMemories, MemoryCreate, MemoryDelete, Restart, Damage,
                record, vars
  <2> QED
    BY <2>1, NewestQuiet
<1> QED
  BY <1>1, <1>2, <1>3, <1>4 DEF Next, Executing, Running, OwnMemories

\* However creations overtake each other, the store keeps the newest actions, and
\* no more than its limit.
THEOREM NewestKept == Spec => []StoreKeepsNewest
<1>1. Init => NewestInv
  <2>1. SUFFICES ASSUME Init PROVE NewestInv
    OBVIOUS
  <2>2. Stored = {} /\ \A a \in Action : state[a] = "none" /\ born[a] = 0 /\ clock = 0
    BY <2>1 DEF Init, Stored
  <2> QED
    BY <2>2, FS_EmptySet, ConstantsAssumption
    DEF NewestInv, BornInv, LimitInv, StoreKeepsNewest
<1>2. TypeOK /\ ApprovalInv /\ NewestInv /\ [Next]_vars => NewestInv'
  BY NewestStep
<1> QED
  BY <1>1, <1>2, TypeCorrect, ApprovalInvariant, PTL DEF Spec, NewestInv

=============================================================================
