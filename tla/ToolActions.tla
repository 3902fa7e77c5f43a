------------------------------ MODULE ToolActions ------------------------------
(***************************************************************************)
(* The governed tool actions of tool_actions.py and the personal memory    *)
(* of memory_store.py, on which two of the tools work.                     *)
(*                                                                         *)
(* Each store saves a document of its own in a transaction of its own,     *)
(* under a lock of its own.  create and decide change one action in one    *)
(* locked step; execute holds the lock of the actions while it runs the    *)
(* tool, so the tool's change of the memory document is committed before   *)
(* the action's new state is.  A failing save, or a restart, in between    *)
(* leaves the action as it was.                                            *)
(***************************************************************************)
EXTENDS Naturals, FiniteSets

CONSTANTS
    Action,         \* identifiers of actions
    Account,        \* accounts
    Memory,         \* identifiers of memories
    Text,           \* arguments of memory.remember
    Malformed,      \* those memory_store refuses
    None,           \* no account, no arguments
    MaxActions,     \* actions the store keeps
    Quota,          \* memories an account may have
    MaxFaults,      \* bound on failing calls, full documents included
    MaxCrashes,     \* bound on restarts
    MaxDamages      \* bound on stored records changed outside SAD

Args == Text \cup Memory

ASSUME ConstantsAssumption ==
    /\ Malformed \subseteq Text
    /\ None \notin Account \cup Args
    /\ MaxActions \in Nat \ {0} /\ Quota \in Nat
    /\ MaxFaults \in Nat /\ MaxCrashes \in Nat /\ MaxDamages \in Nat

VARIABLES
    \* The saved records of the actions
    state,          \* "state", and where the identifier is before and after
    owner,          \* account_id
    tool,           \* tool_id
    args,
    hash,           \* args_sha256
    approved,       \* approved_args_sha256
    born,           \* created_at
    \* The saved memories
    memory,         \* account_id of each
    \* The execution that holds the lock
    pc, cur,
    \* History
    clock,          \* the time of the last new record
    granted,        \* the arguments decide showed and approved
    used,           \* the arguments with which memories were changed
    effects,        \* how often an action has changed the memories
    lost,           \* how often that was not recorded
    faults, crashes, damages

record  == <<owner, tool, args, hash, approved, born>>
history == <<granted, used, effects, lost>>
budget  == <<faults, crashes, damages>>
vars    == <<state, owner, tool, args, hash, approved, born, memory, pc, cur,
             clock, granted, used, effects, lost, faults, crashes, damages>>

State == {"none", "creating", "awaiting_approval", "ready", "rejected",
          "completed", "failed", "tampered", "evicted"}

Tool == {"memory.search", "memory.remember", "memory.forget"}

Mutates(a) == tool[a] \in {"memory.remember", "memory.forget"}

Init ==
    /\ state    = [a \in Action |-> "none"]
    /\ owner    = [a \in Action |-> None]
    /\ tool     = [a \in Action |-> "memory.search"]
    /\ args     = [a \in Action |-> None]
    /\ hash     = [a \in Action |-> None]
    /\ approved = [a \in Action |-> None]
    /\ born     = [a \in Action |-> 0]
    /\ memory   = [m \in Memory |-> None]
    /\ pc = "idle" /\ cur = None
    /\ clock = 0
    /\ granted = [a \in Action |-> None]
    /\ used    = [a \in Action |-> {}]
    /\ effects = [a \in Action |-> 0]
    /\ lost    = [a \in Action |-> 0]
    /\ faults = 0 /\ crashes = 0 /\ damages = 0

Fault ==
    /\ faults < MaxFaults
    /\ faults' = faults + 1
    /\ UNCHANGED <<crashes, damages>>

-----------------------------------------------------------------------------
(* create: the record gets its time before the lock is taken; the save     *)
(* then drops the oldest records of all accounts above the limit.  Times   *)
(* differ and grow: the clock is taken not to be set back.                 *)

Stored == {a \in Action : state[a] \notin {"none", "creating", "evicted"}}

Stamp(a, x, t, v) ==
    /\ state[a] = "none"
    /\ v \in (IF t = "memory.forget" THEN Memory ELSE Text)
    /\ clock' = clock + 1
    /\ state' = [state EXCEPT ![a] = "creating"]
    /\ owner' = [owner EXCEPT ![a] = x]
    /\ tool'  = [tool EXCEPT ![a] = t]
    /\ args'  = [args EXCEPT ![a] = v]
    /\ hash'  = [hash EXCEPT ![a] = v]
    /\ approved' = [approved EXCEPT ![a] = None]
    /\ born'  = [born EXCEPT ![a] = clock']
    /\ UNCHANGED <<memory, pc, cur, history, budget>>

\* A save that drops the newest records.
EvictedNewest(S) ==
    {a \in S : Cardinality(S) > MaxActions /\ \A b \in S : born[b] <= born[a]}

\* The records of S that are dropped: the oldest, when there are too many.
Evicted(S) ==
    {a \in S : Cardinality(S) > MaxActions /\ \A b \in S : born[a] <= born[b]}

Create(a) ==
    /\ state[a] = "creating" /\ pc = "idle"
    /\ state' = [b \in Action |->
                    IF b \in Evicted(Stored \cup {a}) THEN "evicted"
                    ELSE IF b # a THEN state[b]
                    ELSE IF Mutates(a) THEN "awaiting_approval" ELSE "ready"]
    /\ UNCHANGED <<record, memory, pc, cur, clock, history, budget>>

CreateFails(a) ==
    /\ state[a] = "creating" /\ pc = "idle"
    /\ Fault
    /\ state' = [state EXCEPT ![a] = "none"]
    /\ UNCHANGED <<record, memory, pc, cur, clock, history>>

-----------------------------------------------------------------------------
(* decide, by the account that owns the action.                            *)

Intact(a) == args[a] = hash[a]

Approve(a) ==
    /\ pc = "idle" /\ state[a] = "awaiting_approval"
    /\ Intact(a)
    /\ state' = [state EXCEPT ![a] = "ready"]
    /\ approved' = [approved EXCEPT ![a] = hash[a]]
    /\ granted' = [granted EXCEPT ![a] = args[a]]
    /\ UNCHANGED <<owner, tool, args, hash, born, memory, pc, cur, clock, used,
                   effects, lost, budget>>

Reject(a) ==
    /\ pc = "idle" /\ state[a] = "awaiting_approval"
    /\ Intact(a)
    /\ state' = [state EXCEPT ![a] = "rejected"]
    /\ approved' = [approved EXCEPT ![a] = None]
    /\ UNCHANGED <<owner, tool, args, hash, born, memory, pc, cur, clock,
                   history, budget>>

\* decide and execute take any stored action out of use whose arguments do not
\* match their hash, and execute one whose approval was for another hash.
Tampered(a) ==
    /\ pc = "idle" /\ a \in Stored
    /\ \/ ~Intact(a)
       \/ state[a] = "ready" /\ Mutates(a) /\ approved[a] # hash[a]
    /\ state' = [state EXCEPT ![a] = "tampered"]
    /\ UNCHANGED <<record, memory, pc, cur, clock, history, budget>>

-----------------------------------------------------------------------------
(* execute, with the lock held until it returns.                           *)

\* An execution that trusts the state of the record.
ExecuteReady(a) ==
    /\ pc = "idle" /\ state[a] = "ready"
    /\ Intact(a)
    /\ pc' = "run" /\ cur' = a
    /\ UNCHANGED <<state, record, memory, clock, history, budget>>

Execute(a) ==
    /\ pc = "idle" /\ state[a] = "ready"
    /\ Intact(a)
    /\ Mutates(a) => approved[a] = hash[a]
    /\ pc' = "run" /\ cur' = a
    /\ UNCHANGED <<state, record, memory, clock, history, budget>>

Owned(x) == {m \in Memory : memory[m] = x}

\* A tool has changed the memories, in their own transaction.
Effect(m, x) ==
    /\ memory' = [memory EXCEPT ![m] = x]
    /\ used' = [used EXCEPT ![cur] = @ \cup {args[cur]}]
    /\ effects' = [effects EXCEPT ![cur] = @ + 1]
    /\ pc' = "complete"
    /\ UNCHANGED <<state, record, cur, clock, granted, lost, budget>>

Remember(m) ==
    /\ pc = "run" /\ tool[cur] = "memory.remember"
    /\ args[cur] \in Text \ Malformed
    /\ Cardinality(Owned(owner[cur])) < Quota
    /\ memory[m] = None /\ \A a \in Action : args[a] # m
    /\ Effect(m, owner[cur])

\* A deletion that takes any identifier it is given.
ForgetAnyones(m) ==
    /\ pc = "run" /\ tool[cur] = "memory.forget"
    /\ m = args[cur] /\ memory[m] \in Account
    /\ Effect(m, None)

Forget(m) ==
    /\ pc = "run" /\ tool[cur] = "memory.forget"
    /\ m = args[cur] /\ memory[m] = owner[cur]
    /\ Effect(m, None)

Search ==
    /\ pc = "run" /\ tool[cur] = "memory.search"
    /\ pc' = "complete"
    /\ UNCHANGED <<state, record, memory, cur, clock, history, budget>>

\* ValueError and KeyError: malformed arguments, a full account, no such
\* memory of this account, too much output.
Refused ==
    /\ pc = "run"
    /\ \/ /\ tool[cur] = "memory.remember"
          /\ args[cur] \notin Text \ Malformed \/ Cardinality(Owned(owner[cur])) >= Quota
       \/ tool[cur] = "memory.forget" /\ args[cur] \notin Owned(owner[cur])
       \/ tool[cur] = "memory.search"
    /\ pc' = "refuse"
    /\ UNCHANGED <<state, record, memory, cur, clock, history, budget>>

\* The memory document is at its limit, also a ValueError.
MemoryFull ==
    /\ pc = "run" /\ Mutates(cur)
    /\ Fault
    /\ pc' = "refuse"
    /\ UNCHANGED <<state, record, memory, cur, clock, history>>

\* A lock that is given up while the execution goes on.
ReturnLate == pc' = "idle" /\ UNCHANGED cur

Return == pc' = "idle" /\ cur' = None

\* A completion that leaves the action ready.
RecordReady ==
    /\ pc \in {"complete", "refuse"}
    /\ state' = [state EXCEPT ![cur] = IF pc = "complete" THEN "ready" ELSE "failed"]
    /\ Return
    /\ UNCHANGED <<record, memory, clock, history, budget>>

Record ==
    /\ pc \in {"complete", "refuse"}
    /\ state' = [state EXCEPT ![cur] = IF pc = "complete" THEN "completed" ELSE "failed"]
    /\ Return
    /\ UNCHANGED <<record, memory, clock, history, budget>>

\* The change of the memories, if there was one, that no record shows.
Unrecorded ==
    lost' = IF pc = "complete" /\ Mutates(cur) THEN [lost EXCEPT ![cur] = @ + 1]
            ELSE lost

\* Any other exception, in the tool or in the save of the action.
ExecuteFails ==
    /\ pc # "idle"
    /\ Fault
    /\ Unrecorded
    /\ Return
    /\ UNCHANGED <<state, record, memory, clock, granted, used, effects>>

-----------------------------------------------------------------------------
(* Memories the accounts keep themselves, restarts, damaged records.       *)

MemoryCreate(x, m) ==
    /\ memory[m] = None /\ \A a \in Action : args[a] # m
    /\ Cardinality(Owned(x)) < Quota
    /\ memory' = [memory EXCEPT ![m] = x]
    /\ UNCHANGED <<state, record, pc, cur, clock, history, budget>>

MemoryDelete(x, m) ==
    /\ memory[m] = x
    /\ memory' = [memory EXCEPT ![m] = None]
    /\ UNCHANGED <<state, record, pc, cur, clock, history, budget>>

\* Requests end without an answer; what has been saved stays.
Restart ==
    /\ crashes < MaxCrashes
    /\ crashes' = crashes + 1
    /\ state' = [a \in Action |-> IF state[a] = "creating" THEN "none" ELSE state[a]]
    /\ Unrecorded
    /\ Return
    /\ UNCHANGED <<record, memory, clock, granted, used, effects, faults, damages>>

\* The arguments of a stored record change, alone or with their hash.
Damage(a, v, h) ==
    /\ damages < MaxDamages
    /\ damages' = damages + 1
    /\ pc = "idle" /\ a \in Stored
    /\ v # args[a] /\ h \in {hash[a], v}
    /\ args' = [args EXCEPT ![a] = v]
    /\ hash' = [hash EXCEPT ![a] = h]
    /\ UNCHANGED <<state, owner, tool, approved, born, memory, pc, cur, clock,
                   history, faults, crashes>>

-----------------------------------------------------------------------------
Request(a) ==
    \/ \E x \in Account, t \in Tool, v \in Args : Stamp(a, x, t, v)
    \/ Create(a)
    \/ CreateFails(a)
    \/ Approve(a)
    \/ Reject(a)
    \/ Tampered(a)
    \/ Execute(a)

Executing ==
    \/ \E m \in Memory : Remember(m) \/ Forget(m)
    \/ Search
    \/ Refused
    \/ MemoryFull
    \/ Record
    \/ ExecuteFails

Next ==
    \/ \E a \in Action : Request(a)
    \/ Executing
    \/ \E x \in Account, m \in Memory : MemoryCreate(x, m) \/ MemoryDelete(x, m)
    \/ Restart
    \/ \E a \in Action, v, h \in Args : Damage(a, v, h)

Spec == Init /\ [][Next]_vars

-----------------------------------------------------------------------------
\* Types of the variables.
TypeOK ==
    /\ state \in [Action -> State]
    /\ owner \in [Action -> Account \cup {None}]
    /\ tool \in [Action -> Tool]
    /\ args \in [Action -> Args \cup {None}]
    /\ hash \in [Action -> Args \cup {None}]
    /\ approved \in [Action -> Args \cup {None}]
    /\ born \in [Action -> Nat]
    /\ memory \in [Memory -> Account \cup {None}]
    /\ pc \in {"idle", "run", "complete", "refuse"}
    /\ IF pc = "idle" THEN cur = None ELSE cur \in Action
    /\ clock \in Nat
    /\ granted \in [Action -> Args \cup {None}]
    /\ used \in [Action -> SUBSET Args]
    /\ effects \in [Action -> Nat] /\ lost \in [Action -> Nat]
    /\ faults \in Nat /\ crashes \in Nat /\ damages \in Nat

\* A tool changes memories only with the arguments its account approved, however
\* requests interleave, restart or repeat, and although stored arguments may
\* change together with their hash.
OnlyApprovedArguments == \A a \in Action : used[a] \subseteq {granted[a]}

\* The tool of a has changed the memories, and the record says so or is about to.
Done(a) ==
    /\ Mutates(a)
    /\ \/ state[a] = "completed"
       \/ pc = "complete" /\ cur = a

\* What the record of an action says of its effect is exact, but for the times
\* a failing save or a restart kept it from being recorded: completed means
\* once, every other state not at all.  A record that was dropped or damaged
\* does not tell, but no effect is repeated.
RecordTellsEffect ==
    \A a \in Action :
        IF state[a] \in {"tampered", "evicted"}
          THEN effects[a] \in {lost[a], lost[a] + 1}
          ELSE effects[a] = lost[a] + (IF Done(a) THEN 1 ELSE 0)

\* The store keeps the newest actions, even of requests that overtake each
\* other between taking their time and the lock.
StoreKeepsNewest ==
    /\ Cardinality(Stored) <= MaxActions
    /\ \A a, b \in Action : state[a] = "evicted" /\ b \in Stored => born[a] < born[b]

\* A tool gives memories to, and takes them from, only the account that owns
\* its action.
ToolsRespectOwnership ==
    [][\A m \in Memory : effects' # effects /\ memory'[m] # memory[m] =>
          {memory[m], memory'[m]} = {None, owner[cur]}]_vars
=============================================================================
