----------------------------- MODULE ForgeProgress -----------------------------
(***************************************************************************)
(* The learning progress of students: student_progress.py, the rules of    *)
(* forge_student.py, and the routes of api.py that ask for a hint or       *)
(* complete a quest.  A route reads the student's record under the lock    *)
(* of the store, changes its copy without it, and saves the copy under the *)
(* lock again; requests of one student may come on several threads.        *)
(***************************************************************************)
EXTENDS Naturals, FiniteSets

CONSTANTS
    Thread,         \* threads of the listener
    Student, Quest,
    Score,          \* mastery scores, in steps
    Rung,           \* the last index of HINT_LADDER
    PerStage,       \* quests from one companion stage to the next
    LastStage,
    MaxStudents

\* What the constants are taken to be.
ConstantsFit ==
    /\ Score \subseteq Nat
    /\ {Rung, LastStage, MaxStudents} \subseteq Nat
    /\ PerStage \in Nat \ {0}

VARIABLES
    saved,      \* the records of the students that have one
    job,        \* what a thread does
    copy,       \* the record it has read
    calm        \* history: what a student's record was when it was last saved
                \* while no other request of the student was under way

vars == <<saved, job, copy, calm>>

\* One hundred points of xp are one.
Fresh == [xp |-> 0, mastery |-> 0, completed |-> {}, stage |-> 0,
          hints |-> [q \in Quest |-> 0]]

Idle == [kind |-> "none"]

Job ==
    [kind : {"hint"}, student : Student, quest : Quest]
        \cup [kind : {"complete"}, student : Student, quest : Quest, score : Score,
              mastered : BOOLEAN]

Get(s) == IF s \in DOMAIN saved THEN saved[s] ELSE Fresh

Lesser(m, n) == IF m < n THEN m ELSE n

Init ==
    /\ saved = [s \in {} |-> Fresh]
    /\ job = [t \in Thread |-> Idle]
    /\ copy = [t \in Thread |-> Fresh]
    /\ calm = [s \in Student |-> Fresh]

-----------------------------------------------------------------------------
NextHint(p, q) == [p EXCEPT !.hints[q] = Lesser(@ + 1, Rung)]

\* A quest that is completed again counts again.
CompleteQuestAgain(p, q, score, mastered) ==
    [p EXCEPT !.mastery = IF @ < score THEN score ELSE @,
              !.xp = IF mastered THEN @ + 1 ELSE @,
              !.completed = IF mastered THEN @ \cup {q} ELSE @,
              !.stage = Lesser(LastStage, (Cardinality(p.completed \cup {q})) \div PerStage)]

\* The last score of a subject counts.
CompleteQuestLast(p, q, score, mastered) ==
    IF mastered /\ q \notin p.completed
    THEN [p EXCEPT
            !.mastery = score, !.xp = @ + 1, !.completed = @ \cup {q},
            !.stage = Lesser(LastStage, Cardinality(p.completed \cup {q}) \div PerStage)]
    ELSE [p EXCEPT !.mastery = score]

\* The quest, its threshold, the score and the check of the boss come with the
\* request.
CompleteQuest(p, q, score, mastered) ==
    LET graded == [p EXCEPT !.mastery = IF @ < score THEN score ELSE @] IN
    IF mastered /\ q \notin p.completed
    THEN [graded EXCEPT
            !.xp = @ + 1,
            !.completed = @ \cup {q},
            !.stage = Lesser(LastStage, Cardinality(p.completed \cup {q}) \div PerStage)]
    ELSE graded

Changed(p, j) ==
    IF j.kind = "hint" THEN NextHint(p, j.quest)
    ELSE CompleteQuest(p, j.quest, j.score, j.mastered)

Under(s) == {t \in Thread : job[t].kind # "none" /\ job[t].student = s}

Load(t, j) ==
    /\ job[t] = Idle
    /\ job' = [job EXCEPT ![t] = j]
    /\ copy' = [copy EXCEPT ![t] = Get(j.student)]
    /\ UNCHANGED <<saved, calm>>

Ends(t) ==
    /\ job' = [job EXCEPT ![t] = Idle]
    /\ copy' = [copy EXCEPT ![t] = Fresh]

Save(t) ==
    /\ job[t] # Idle
    /\ LET s == job[t].student
           p == Changed(copy[t], job[t])
       IN  /\ Cardinality(DOMAIN saved \cup {s}) <= MaxStudents
           /\ saved' = [x \in DOMAIN saved \cup {s} |-> IF x = s THEN p ELSE saved[x]]
           /\ calm' = IF Under(s) = {t} THEN [calm EXCEPT ![s] = p] ELSE calm
    /\ Ends(t)

\* The request is not valid, there are too many students, the save fails or the
\* process stops.
Fails(t) ==
    /\ job[t] # Idle
    /\ Ends(t)
    /\ UNCHANGED <<saved, calm>>

Next == \E t \in Thread : (\E j \in Job : Load(t, j)) \/ Save(t) \/ Fails(t)

Spec == Init /\ [][Next]_vars

-----------------------------------------------------------------------------
(* Properties.                                                             *)

Progress == [xp : Nat, mastery : Nat, completed : SUBSET Quest, stage : Nat,
             hints : [Quest -> Nat]]

TypeOK ==
    /\ DOMAIN saved \subseteq Student
    /\ saved \in [DOMAIN saved -> Progress]
    /\ job \in [Thread -> Job \cup {Idle}]
    /\ copy \in [Thread -> Progress]
    /\ calm \in [Student -> Progress]

AddsUp(p) ==
    /\ p.xp = Cardinality(p.completed)
    /\ p.stage = Lesser(LastStage, p.xp \div PerStage)
    /\ \A q \in Quest : p.hints[q] <= Rung

\* The points, the quests and the companion of a student agree, whichever copies
\* overtook each other, and a quest that is completed twice counts once.
ProgressAddsUp == \A s \in DOMAIN saved : AddsUp(saved[s])

AtLeast(p, q) ==
    /\ p.xp >= q.xp /\ p.mastery >= q.mastery /\ p.stage >= q.stage
    /\ q.completed \subseteq p.completed
    /\ \A x \in Quest : p.hints[x] >= q.hints[x]

\* "Durable per-student Forge progression state" (student_progress.py:1): what a
\* student had reached when a request was saved that overlapped no other request
\* of that student is never lost again, whatever other students do meanwhile.
\* Of requests that do overlap, the later save wins (a finding).
CalmProgressIsKept == \A s \in Student : AtLeast(Get(s), calm[s])
=============================================================================
