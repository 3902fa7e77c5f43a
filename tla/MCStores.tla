-------------------------------- MODULE MCStores --------------------------------
(***************************************************************************)
(* Four parts that share no state for TLC: chat sessions, learning         *)
(* progress, the commands of the terminals, and the choice of memories for *)
(* a prompt.  In each behaviour one of them runs, and the others stay in   *)
(* one initial state, which is as good as running them side by side.       *)
(***************************************************************************)
EXTENDS Naturals

CONSTANTS
    Session, Account, Thread, NoSession, MaxActive, MaxMessages,
    Student, Quest, Score, Rung, PerStage, LastStage, MaxStudents,
    Terminal, Report, Proposal, None,
    Last, Match, Updated, Sizes, Budgets, SearchLimit, Limit

VARIABLES
    part,
    chat, stage, at, by, seen,
    saved, job, copy, calm,
    records, trial, exported, role, cmd, about, loaded, told, raced, governed,
    memories, budget, level, todo, used

chats == <<chat, stage, at, by, seen>>
forge == <<saved, job, copy, calm>>
lines == <<records, trial, exported, role, cmd, about, loaded, told, raced, governed>>
plans == <<memories, budget, level, todo, used>>

TwoSizes == {<<1, 2, 4>>, <<2, 3, 3>>}

Chats == INSTANCE Conversations
Forge == INSTANCE ForgeProgress
Lines == INSTANCE CommandLine WITH copy <- loaded
Plans == INSTANCE MemoryContext WITH Score <- Match

ASSUME ConstantsAssumption ==
    /\ Chats!ConstantsFit /\ Forge!ConstantsFit
    /\ Lines!ConstantsFit /\ Plans!ConstantsFit

Init ==
    /\ part \in {"chats", "forge", "lines", "plans"}
    /\ Chats!Init /\ Forge!Init /\ Lines!Init
    /\ IF part = "plans" THEN Plans!Init
       ELSE /\ memories = <<>> /\ level = <<>>
            /\ budget = 0 /\ todo = {} /\ used = 0

Next ==
    \/ /\ part = "chats" /\ Chats!Next
       /\ UNCHANGED <<part, forge, lines, plans>>
    \/ /\ part = "forge" /\ Forge!Next
       /\ UNCHANGED <<part, chats, lines, plans>>
    \/ /\ part = "lines" /\ Lines!Next
       /\ UNCHANGED <<part, chats, forge, plans>>
    \/ /\ part = "plans" /\ Plans!Next
       /\ UNCHANGED <<part, chats, forge, lines>>

Spec == Init /\ [][Next]_<<part, chats, forge, lines, plans>>

\* The properties of the parts.
ConversationsOnlyGrow == Chats!ConversationsOnlyGrow
DocumentStaysLoadable == Chats!DocumentStaysLoadable
RepliesSeeWholeTurns == Chats!RepliesSeeWholeTurns
ProgressAddsUp == Forge!ProgressAddsUp
CalmProgressIsKept == Forge!CalmProgressIsKept
ToldReportsAreKept == Lines!ToldReportsAreKept
OnlyGovernedPatchesLeave == Lines!OnlyGovernedPatchesLeave
PlanIsMaximal == part = "plans" => Plans!PlanIsMaximal
=============================================================================
