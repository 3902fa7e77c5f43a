----------------------------- MODULE Stores_proofs -----------------------------
(***************************************************************************)
(* Proofs about the parts of MCStores, for any students, quests, sessions, *)
(* terminals, reports and limits.  Every step of MCStores is a step of one *)
(* part and leaves the others alone, so each part has an invariant and a   *)
(* lemma about its own steps.                                              *)
(***************************************************************************)
EXTENDS MCStores, FiniteSets, Sequences, FiniteSetTheorems, SequenceTheorems, TLAPS

-----------------------------------------------------------------------------
(* Learning progress.  A copy that a request has read is a record that adds *)
(* up and is not behind what was saved calmly before: only a request that   *)
(* is alone saves calmly, so the copies that exist stay ahead.              *)

Stage(n) == Forge!Lesser(LastStage, n \div PerStage)

Sound(p) ==
    /\ IsFiniteSet(p.completed)
    /\ p.xp = Cardinality(p.completed) /\ p.stage = Stage(p.xp)
    /\ \A q \in Quest : p.hints[q] <= Rung

RecordsSound ==
    /\ \A s \in DOMAIN saved : Sound(saved[s])
    /\ \A t \in Thread : Sound(copy[t])

CopiesAhead ==
    \A t \in Thread : job[t] # Forge!Idle => Forge!AtLeast(copy[t], calm[job[t].student])

ForgeInv ==
    /\ Forge!TypeOK /\ RecordsSound /\ CopiesAhead
    /\ Forge!CalmProgressIsKept

\* The parts count as this module does.
LEMMA SameCardinality ==
    ASSUME NEW S
    PROVE  Forge!Cardinality(S) = Cardinality(S) /\ Chats!Cardinality(S) = Cardinality(S)
BY Zenon DEF Forge!Cardinality, Chats!Cardinality, Cardinality

\* Stages do not go down when quests are added.
LEMMA StagesGrow ==
    ASSUME NEW k \in Nat \ {0}, NEW m \in Nat
    PROVE  /\ m \div k \in Nat /\ (m + 1) \div k \in Nat
           /\ m \div k <= (m + 1) \div k
           /\ 0 \div k = 0
OBVIOUS

LEMMA FreshIsSound ==
    ASSUME Forge!ConstantsFit
    PROVE  Sound(Forge!Fresh) /\ Forge!Fresh \in Forge!Progress
<1>1. IsFiniteSet({}) /\ Cardinality({}) = 0 BY FS_EmptySet
<1>2. PerStage \in Nat \ {0} /\ LastStage \in Nat /\ Rung \in Nat BY DEF Forge!ConstantsFit
<1>3. 0 \div PerStage = 0 BY <1>2, StagesGrow
<1>4. /\ Forge!Fresh.completed = {} /\ Forge!Fresh.xp = 0 /\ Forge!Fresh.stage = 0
      /\ \A q \in Quest : Forge!Fresh.hints[q] = 0
    BY DEF Forge!Fresh
<1>5. Stage(0) = 0 BY <1>2, <1>3 DEF Stage, Forge!Lesser
<1>6. Forge!Fresh \in Forge!Progress BY DEF Forge!Fresh, Forge!Progress
<1> QED BY <1>1, <1>2, <1>3, <1>4, <1>5, <1>6 DEF Sound

\* What a request makes of a sound record is sound and not behind it.
LEMMA HintGrows ==
    ASSUME Forge!ConstantsFit, NEW p \in Forge!Progress, Sound(p), NEW q \in Quest
    PROVE  /\ Forge!NextHint(p, q) \in Forge!Progress /\ Sound(Forge!NextHint(p, q))
           /\ Forge!AtLeast(Forge!NextHint(p, q), p)
<1> DEFINE n == Forge!NextHint(p, q)
<1>1. Rung \in Nat BY DEF Forge!ConstantsFit
<1>2. p.hints \in [Quest -> Nat] /\ \A x \in Quest : p.hints[x] <= Rung
    BY DEF Forge!Progress, Sound
<1>3. /\ n.hints = [p.hints EXCEPT ![q] = Forge!Lesser(p.hints[q] + 1, Rung)]
      /\ n.xp = p.xp /\ n.mastery = p.mastery /\ n.completed = p.completed /\ n.stage = p.stage
    BY DEF Forge!NextHint, Forge!Progress
<1>4. /\ n.hints \in [Quest -> Nat]
      /\ \A x \in Quest : n.hints[x] <= Rung /\ n.hints[x] >= p.hints[x]
    BY <1>1, <1>2, <1>3 DEF Forge!Lesser
<1>5. n \in Forge!Progress BY <1>4 DEF Forge!NextHint, Forge!Progress
<1> HIDE DEF n
<1>6. Sound(n) BY <1>3, <1>4 DEF Sound
<1>7. Forge!AtLeast(n, p) BY <1>3, <1>4 DEF Forge!AtLeast, Forge!Progress
<1> QED BY <1>5, <1>6, <1>7 DEF n

LEMMA QuestGrows ==
    ASSUME Forge!ConstantsFit, NEW p \in Forge!Progress, Sound(p), NEW q \in Quest,
           NEW score \in Score, NEW mastered \in BOOLEAN
    PROVE  LET n == Forge!CompleteQuest(p, q, score, mastered) IN
           n \in Forge!Progress /\ Sound(n) /\ Forge!AtLeast(n, p)
<1> DEFINE n == Forge!CompleteQuest(p, q, score, mastered)
           best == IF p.mastery < score THEN score ELSE p.mastery
           stg == Stage(Cardinality(p.completed \cup {q}))
<1>1. score \in Nat /\ PerStage \in Nat \ {0} /\ LastStage \in Nat BY DEF Forge!ConstantsFit
<1>2. /\ p.xp \in Nat /\ p.mastery \in Nat /\ p.stage \in Nat
      /\ p.completed \subseteq Quest /\ p.hints \in [Quest -> Nat]
    BY DEF Forge!Progress
<1>3. /\ IsFiniteSet(p.completed) /\ p.xp = Cardinality(p.completed)
      /\ p.stage = Stage(p.xp)
      /\ \A x \in Quest : p.hints[x] <= Rung
    BY DEF Sound
<1>4. best \in Nat /\ best >= p.mastery BY <1>1, <1>2
<1>5. CASE ~(mastered /\ q \notin p.completed)
    <2>1. n = [p EXCEPT !.mastery = best] BY <1>5 DEF Forge!CompleteQuest
    <2>2. /\ n.xp = p.xp /\ n.mastery = best /\ n.completed = p.completed
          /\ n.stage = p.stage /\ n.hints = p.hints
        BY <2>1 DEF Forge!Progress
    <2> HIDE DEF best
    <2>3. n \in Forge!Progress BY <1>4, <2>1 DEF Forge!Progress
    <2> HIDE DEF n
    <2>4. Sound(n) BY <1>3, <2>2 DEF Sound
    <2>5. Forge!AtLeast(n, p) BY <1>2, <1>4, <2>2 DEF Forge!AtLeast
    <2> QED BY <2>3, <2>4, <2>5 DEF n
<1>6. CASE mastered /\ q \notin p.completed
    <2>1. n = [p EXCEPT !.mastery = best, !.xp = p.xp + 1,
                        !.completed = p.completed \cup {q}, !.stage = stg]
        <3> DEFINE graded == [p EXCEPT !.mastery = IF @ < score THEN score ELSE @]
                   more == [graded EXCEPT !.xp = @ + 1, !.completed = @ \cup {q},
                                !.stage = Forge!Lesser(LastStage,
                                    Cardinality(p.completed \cup {q}) \div PerStage)]
        <3>1. n = IF mastered /\ q \notin p.completed THEN more ELSE graded
            <4>1. Forge!Cardinality(p.completed \cup {q}) = Cardinality(p.completed \cup {q})
                BY SameCardinality
            <4> QED BY <4>1 DEF Forge!CompleteQuest
        <3>2. more = [p EXCEPT !.mastery = best, !.xp = p.xp + 1,
                               !.completed = p.completed \cup {q}, !.stage = stg]
            <4>1. stg = Forge!Lesser(LastStage, Cardinality(p.completed \cup {q}) \div PerStage)
                BY DEF Stage
            <4> HIDE DEF stg
            <4>2. more = [graded EXCEPT !.xp = @ + 1, !.completed = @ \cup {q}, !.stage = stg]
                BY <4>1
            <4> HIDE DEF more
            <4> QED BY <4>2 DEF Forge!Progress
        <3> HIDE DEF n, more, graded
        <3> QED BY <1>6, <3>1, <3>2
    <2>2. /\ n.xp = p.xp + 1 /\ n.mastery = best /\ n.completed = p.completed \cup {q}
          /\ n.stage = stg /\ n.hints = p.hints
        BY <2>1 DEF Forge!Progress
    <2>3. IsFiniteSet(p.completed \cup {q}) /\ Cardinality(p.completed \cup {q}) = p.xp + 1
        BY <1>3, <1>6, FS_AddElement
    <2>4. stg \in Nat /\ stg >= p.stage /\ stg = Stage(p.xp + 1)
        <3>1. /\ p.xp \div PerStage \in Nat /\ (p.xp + 1) \div PerStage \in Nat
              /\ p.xp \div PerStage <= (p.xp + 1) \div PerStage
            BY <1>1, <1>2, StagesGrow
        <3> QED BY <1>1, <1>3, <2>3, <3>1 DEF Stage, Forge!Lesser
    <2> HIDE DEF best, stg
    <2>5. n \in Forge!Progress
        <3>1. n = [xp |-> p.xp + 1, mastery |-> best, completed |-> p.completed \cup {q},
                   stage |-> stg, hints |-> p.hints]
            <4> HIDE DEF n
            <4> QED BY <2>1 DEF Forge!Progress
        <3> HIDE DEF n
        <3>2. p.xp + 1 \in Nat /\ p.completed \cup {q} \in SUBSET Quest BY <1>2
        <3> QED BY <1>2, <1>4, <2>4, <3>1, <3>2 DEF Forge!Progress
    <2> HIDE DEF n
    <2>6. Sound(n) BY <1>3, <2>2, <2>3, <2>4 DEF Sound
    <2>7. Forge!AtLeast(n, p) BY <1>2, <1>4, <2>2, <2>4 DEF Forge!AtLeast
    <2> QED BY <2>5, <2>6, <2>7 DEF n
<1> QED BY <1>5, <1>6

LEMMA SoundAddsUp ==
    ASSUME NEW p, Sound(p)
    PROVE  Forge!AddsUp(p)
<1>1. Forge!Cardinality(p.completed) = Cardinality(p.completed) BY SameCardinality
<1> QED BY <1>1 DEF Sound, Stage, Forge!AddsUp

LEMMA AheadOfItself ==
    ASSUME NEW p \in Forge!Progress
    PROVE  Forge!AtLeast(p, p)
BY DEF Forge!AtLeast, Forge!Progress

LEMMA AheadIsTransitive ==
    ASSUME NEW p \in Forge!Progress, NEW q \in Forge!Progress, NEW r \in Forge!Progress,
           Forge!AtLeast(p, q), Forge!AtLeast(q, r)
    PROVE  Forge!AtLeast(p, r)
<1>1. /\ p.xp >= r.xp /\ p.mastery >= r.mastery /\ p.stage >= r.stage
    BY DEF Forge!AtLeast, Forge!Progress
<1>2. r.completed \subseteq p.completed BY DEF Forge!AtLeast
<1>3. ASSUME NEW x \in Quest PROVE p.hints[x] >= r.hints[x]
    <2>1. p.hints[x] \in Nat /\ q.hints[x] \in Nat /\ r.hints[x] \in Nat BY DEF Forge!Progress
    <2>2. p.hints[x] >= q.hints[x] /\ q.hints[x] >= r.hints[x] BY DEF Forge!AtLeast
    <2> QED BY <2>1, <2>2
<1> QED BY <1>1, <1>2, <1>3 DEF Forge!AtLeast

LEMMA ChangesGrow ==
    ASSUME Forge!ConstantsFit, NEW p \in Forge!Progress, Sound(p), NEW j \in Forge!Job
    PROVE  LET n == Forge!Changed(p, j) IN
           n \in Forge!Progress /\ Sound(n) /\ Forge!AtLeast(n, p)
<1>1. CASE j.kind = "hint"
    <2>1. j.quest \in Quest BY DEF Forge!Job
    <2> QED BY <1>1, <2>1, HintGrows DEF Forge!Changed
<1>2. CASE j.kind # "hint"
    <2>1. j.quest \in Quest /\ j.score \in Score /\ j.mastered \in BOOLEAN
        BY <1>2 DEF Forge!Job
    <2>2. Forge!Changed(p, j) = Forge!CompleteQuest(p, j.quest, j.score, j.mastered)
        BY <1>2 DEF Forge!Changed
    <2> QED BY <2>1, <2>2, QuestGrows
<1> QED BY <1>1, <1>2

\* What a request reads is sound and not behind what was saved calmly.
LEMMA ReadsAreSound ==
    ASSUME Forge!ConstantsFit, ForgeInv, NEW s \in Student
    PROVE  /\ Forge!Get(s) \in Forge!Progress /\ Sound(Forge!Get(s))
           /\ Forge!AtLeast(Forge!Get(s), calm[s])
<1>1. s \in DOMAIN saved => saved[s] \in Forge!Progress /\ Sound(saved[s])
    BY DEF ForgeInv, RecordsSound, Forge!TypeOK
<1>2. Forge!AtLeast(Forge!Get(s), calm[s]) BY DEF ForgeInv, Forge!CalmProgressIsKept
<1> QED BY <1>1, <1>2, FreshIsSound DEF Forge!Get

LEMMA ForgeInitial ==
    ASSUME Forge!ConstantsFit, Forge!Init
    PROVE  ForgeInv
<1>1. Forge!Fresh \in Forge!Progress /\ Sound(Forge!Fresh) BY FreshIsSound
<1>2. Forge!TypeOK BY <1>1 DEF Forge!Init, Forge!TypeOK
<1>3. RecordsSound BY <1>1 DEF Forge!Init, RecordsSound
<1>4. CopiesAhead BY DEF Forge!Init, CopiesAhead
<1>5. Forge!CalmProgressIsKept
    <2>1. ASSUME NEW s \in Student PROVE Forge!Get(s) = Forge!Fresh /\ calm[s] = Forge!Fresh
        BY DEF Forge!Init, Forge!Get
    <2> QED BY <1>1, <2>1, AheadOfItself DEF Forge!CalmProgressIsKept
<1> QED BY <1>2, <1>3, <1>4, <1>5 DEF ForgeInv

LEMMA JobsAreNamed ==
    ASSUME NEW j \in Forge!Job
    PROVE  j.student \in Student /\ j.kind # "none" /\ j # Forge!Idle
BY DEF Forge!Job, Forge!Idle

\* A request ends and its copy is forgotten: nothing saved has changed.
LEMMA ForgeEnds ==
    ASSUME Forge!ConstantsFit, ForgeInv, NEW t \in Thread, Forge!Ends(t)
    PROVE  /\ job' \in [Thread -> Forge!Job \cup {Forge!Idle}]
           /\ copy' \in [Thread -> Forge!Progress]
           /\ \A u \in Thread : Sound(copy'[u])
           /\ \A u \in Thread : job'[u] # Forge!Idle =>
                u # t /\ job'[u] = job[u] /\ copy'[u] = copy[u]
<1>1. Forge!Fresh \in Forge!Progress /\ Sound(Forge!Fresh) BY FreshIsSound
<1>2. /\ job \in [Thread -> Forge!Job \cup {Forge!Idle}]
      /\ copy \in [Thread -> Forge!Progress]
      /\ \A u \in Thread : Sound(copy[u])
    BY DEF ForgeInv, Forge!TypeOK, RecordsSound
<1>3. /\ job' = [job EXCEPT ![t] = Forge!Idle]
      /\ copy' = [copy EXCEPT ![t] = Forge!Fresh]
    BY DEF Forge!Ends
<1>4. \A u \in Thread : copy'[u] = IF u = t THEN Forge!Fresh ELSE copy[u] BY <1>2, <1>3
<1>5. \A u \in Thread : job'[u] = IF u = t THEN Forge!Idle ELSE job[u] BY <1>2, <1>3
<1> QED BY <1>1, <1>2, <1>3, <1>4, <1>5

LEMMA LoadKeeps ==
    ASSUME Forge!ConstantsFit, ForgeInv, NEW t \in Thread, NEW j \in Forge!Job, Forge!Load(t, j)
    PROVE  ForgeInv'
<1>1. /\ j.student \in Student /\ j # Forge!Idle BY JobsAreNamed
<1>2. /\ Forge!Get(j.student) \in Forge!Progress /\ Sound(Forge!Get(j.student))
      /\ Forge!AtLeast(Forge!Get(j.student), calm[j.student])
    BY <1>1, ReadsAreSound
<1> DEFINE g == Forge!Get(j.student)
<1> HIDE DEF g
<1>3. /\ job' = [job EXCEPT ![t] = j] /\ copy' = [copy EXCEPT ![t] = g]
      /\ saved' = saved /\ calm' = calm
    BY DEF Forge!Load, g
<1>4. Forge!TypeOK' BY <1>2, <1>3 DEF ForgeInv, Forge!TypeOK, g
<1>5. RecordsSound' BY <1>2, <1>3 DEF ForgeInv, RecordsSound, Forge!TypeOK, g
<1>6. CopiesAhead'
    <2>1. ASSUME NEW u \in Thread, job'[u] # Forge!Idle
          PROVE  Forge!AtLeast(copy'[u], calm'[job'[u].student])
        <3>1. CASE u = t BY <1>2, <1>3, <3>1 DEF ForgeInv, Forge!TypeOK, g
        <3>2. CASE u # t BY <1>3, <2>1, <3>2 DEF ForgeInv, Forge!TypeOK, CopiesAhead
        <3> QED BY <3>1, <3>2
    <2> QED BY <2>1 DEF CopiesAhead
<1>7. Forge!CalmProgressIsKept'
    BY <1>3 DEF ForgeInv, Forge!CalmProgressIsKept, Forge!Get
<1> QED BY <1>4, <1>5, <1>6, <1>7 DEF ForgeInv

LEMMA FailsKeeps ==
    ASSUME Forge!ConstantsFit, ForgeInv, NEW t \in Thread, Forge!Fails(t)
    PROVE  ForgeInv'
<1>1. Forge!Ends(t) /\ saved' = saved /\ calm' = calm BY DEF Forge!Fails
<1>2. /\ job' \in [Thread -> Forge!Job \cup {Forge!Idle}]
      /\ copy' \in [Thread -> Forge!Progress]
      /\ \A u \in Thread : Sound(copy'[u])
      /\ \A u \in Thread : job'[u] # Forge!Idle =>
            u # t /\ job'[u] = job[u] /\ copy'[u] = copy[u]
    BY <1>1, ForgeEnds
<1>3. Forge!TypeOK' BY <1>1, <1>2 DEF ForgeInv, Forge!TypeOK
<1>4. RecordsSound' BY <1>1, <1>2 DEF ForgeInv, RecordsSound
<1>5. CopiesAhead' BY <1>1, <1>2 DEF ForgeInv, CopiesAhead
<1>6. Forge!CalmProgressIsKept'
    BY <1>1 DEF ForgeInv, Forge!CalmProgressIsKept, Forge!Get
<1> QED BY <1>3, <1>4, <1>5, <1>6 DEF ForgeInv

\* Only a request that is alone changes what was saved calmly, so the copies of
\* the others stay ahead of it.
LEMMA SaveKeeps ==
    ASSUME Forge!ConstantsFit, ForgeInv, NEW t \in Thread, Forge!Save(t)
    PROVE  ForgeInv'
<1> DEFINE s == job[t].student
           p == Forge!Changed(copy[t], job[t])
<1>1. job[t] \in Forge!Job /\ copy[t] \in Forge!Progress /\ Sound(copy[t])
    BY DEF Forge!Save, ForgeInv, Forge!TypeOK, RecordsSound
<1>2. s \in Student BY <1>1, JobsAreNamed
<1>3. p \in Forge!Progress /\ Sound(p) /\ Forge!AtLeast(p, copy[t]) BY <1>1, ChangesGrow
<1>4. Forge!AtLeast(p, calm[s])
    <2>1. calm[s] \in Forge!Progress BY <1>2 DEF ForgeInv, Forge!TypeOK
    <2>2. Forge!AtLeast(copy[t], calm[s]) BY DEF Forge!Save, ForgeInv, CopiesAhead
    <2> QED BY <1>1, <1>3, <2>1, <2>2, AheadIsTransitive
<1>5. Forge!AtLeast(p, p) BY <1>3, AheadOfItself
<1>6. /\ saved' = [x \in DOMAIN saved \cup {s} |-> IF x = s THEN p ELSE saved[x]]
      /\ calm' = IF Forge!Under(s) = {t} THEN [calm EXCEPT ![s] = p] ELSE calm
      /\ Forge!Ends(t)
    BY DEF Forge!Save
<1> HIDE DEF p, s
<1>7. /\ job' \in [Thread -> Forge!Job \cup {Forge!Idle}]
      /\ copy' \in [Thread -> Forge!Progress]
      /\ \A u \in Thread : Sound(copy'[u])
      /\ \A u \in Thread : job'[u] # Forge!Idle =>
            u # t /\ job'[u] = job[u] /\ copy'[u] = copy[u]
    BY <1>6, ForgeEnds
<1>8. /\ DOMAIN saved' = DOMAIN saved \cup {s} /\ saved'[s] = p
      /\ \A x \in DOMAIN saved : x # s => saved'[x] = saved[x]
    BY <1>6
<1>9. Forge!TypeOK'
    <2>1. DOMAIN saved' \subseteq Student BY <1>2, <1>8 DEF ForgeInv, Forge!TypeOK
    <2>2. saved' \in [DOMAIN saved' -> Forge!Progress]
        BY <1>3, <1>6 DEF ForgeInv, Forge!TypeOK
    <2>3. calm' \in [Student -> Forge!Progress]
        BY <1>2, <1>3, <1>6 DEF ForgeInv, Forge!TypeOK
    <2> QED BY <1>7, <2>1, <2>2, <2>3 DEF Forge!TypeOK
<1>10. RecordsSound' BY <1>3, <1>7, <1>8 DEF ForgeInv, RecordsSound
<1>11. CopiesAhead'
    <2>1. ASSUME NEW u \in Thread, job'[u] # Forge!Idle
          PROVE  Forge!AtLeast(copy'[u], calm'[job'[u].student])
        <3>1. u # t /\ job'[u] = job[u] /\ copy'[u] = copy[u] BY <1>7, <2>1
        <3>2. job[u] \in Forge!Job BY <1>7, <2>1, <3>1
        <3>3. job[u].kind # "none" /\ job[u].student \in Student BY <3>2, JobsAreNamed
        <3>4. Forge!AtLeast(copy[u], calm[job[u].student])
            BY <2>1, <3>1 DEF ForgeInv, CopiesAhead
        <3>5. CASE Forge!Under(s) = {t}
            <4>1. job[u].student # s BY <3>1, <3>3, <3>5 DEF Forge!Under
            <4>2. calm'[job[u].student] = calm[job[u].student]
                BY <1>6, <3>3, <3>5, <4>1 DEF ForgeInv, Forge!TypeOK
            <4> QED BY <3>1, <3>4, <4>2
        <3>6. CASE Forge!Under(s) # {t} BY <1>6, <3>1, <3>4, <3>6
        <3> QED BY <3>5, <3>6
    <2> QED BY <2>1 DEF CopiesAhead
<1>12. Forge!CalmProgressIsKept'
    <2>1. ASSUME NEW x \in Student PROVE Forge!AtLeast(Forge!Get(x)', calm'[x])
        <3>1. CASE x = s
            <4>1. Forge!Get(x)' = p BY <1>8, <3>1 DEF Forge!Get
            <4>2. calm'[x] = p \/ calm'[x] = calm[x]
                BY <1>2, <1>6, <3>1 DEF ForgeInv, Forge!TypeOK
            <4> QED BY <1>4, <1>5, <3>1, <4>1, <4>2
        <3>2. CASE x # s
            <4>1. Forge!Get(x)' = Forge!Get(x) BY <1>8, <3>2 DEF Forge!Get
            <4>2. calm'[x] = calm[x] BY <1>6, <3>2 DEF ForgeInv, Forge!TypeOK
            <4> QED BY <4>1, <4>2 DEF ForgeInv, Forge!CalmProgressIsKept
        <3> QED BY <3>1, <3>2
    <2> QED BY <2>1 DEF Forge!CalmProgressIsKept
<1> QED BY <1>9, <1>10, <1>11, <1>12 DEF ForgeInv

LEMMA ForgeStep ==
    ASSUME Forge!ConstantsFit, ForgeInv, Forge!Next \/ UNCHANGED forge
    PROVE  ForgeInv'
<1>1. CASE Forge!Next BY <1>1, LoadKeeps, SaveKeeps, FailsKeeps DEF Forge!Next
<1>2. CASE UNCHANGED forge
    BY <1>2 DEF forge, ForgeInv, Forge!TypeOK, RecordsSound, CopiesAhead,
        Forge!CalmProgressIsKept, Forge!Get
<1> QED BY <1>1, <1>2

-----------------------------------------------------------------------------
(* Chat sessions.  The saved sessions are sound, they only grow, and what a *)
(* turn has read stays the beginning of its session while they do.          *)

Message == [role : {"user", "assistant"}, after : Nat]

TurnAt(m, k) ==
    /\ m[k].role = IF k % 2 = 1 THEN "user" ELSE "assistant"
    /\ m[k].after < k /\ m[k].after % 2 = 0

WholeTurns(m) == Len(m) % 2 = 0 /\ \A k \in 1 .. Len(m) : TurnAt(m, k)

Unopened == [account |-> NoSession, archived |-> FALSE, messages |-> <<>>]

AccountsFit ==
    \A a \in Account : IsFiniteSet(Chats!Active(a)) /\ Cardinality(Chats!Active(a)) <= MaxActive

ChatsSound ==
    /\ \A s \in Session :
        /\ s \notin Chats!Existing => chat[s] = Unopened
        /\ Len(chat[s].messages) <= MaxMessages
        /\ WholeTurns(chat[s].messages)
    /\ AccountsFit

TurnSound(t) ==
    stage[t] = "replying" =>
        /\ at[t] \in Chats!Existing
        /\ Len(seen[t]) % 2 = 0 /\ Len(seen[t]) <= Len(chat[at[t]].messages)
        /\ seen[t] = SubSeq(chat[at[t]].messages, 1, Len(seen[t]))

ChatsInv == Chats!TypeOK /\ ChatsSound /\ \A t \in Thread : TurnSound(t)

ChatType == chat \in [Session -> [account : Account \cup {NoSession}, archived : BOOLEAN,
                                  messages : Seq(Message)]]

\* What ConversationsOnlyGrow says of one step.
Grows ==
    \A s \in Chats!Existing :
        /\ chat'[s].account = chat[s].account
        /\ chat[s].archived => chat'[s] = chat[s]
        /\ \E turn \in {<<>>} \cup {<<Chats!Asked, Chats!Reply(n)>> :
                                        n \in 0 .. Len(chat[s].messages)} :
            chat'[s].messages = chat[s].messages \o turn

StoreStep == ChatType' /\ ChatsSound' /\ Grows

LEMMA EmptyIsWhole == WholeTurns(<<>>) /\ <<>> \in Seq(Message) /\ Len(<<>>) = 0
BY DEF WholeTurns

LEMMA SameMessages ==
    ASSUME NEW m \in Seq(Message)
    PROVE  m = m \o <<>>
BY ConcatEmptySeq

\* A turn that answers what was read is a whole turn.
LEMMA TurnsStayWhole ==
    ASSUME NEW m \in Seq(Message), WholeTurns(m),
           NEW n \in Nat, n <= Len(m), n % 2 = 0
    PROVE  LET o == m \o <<Chats!Asked, Chats!Reply(n)>> IN
           o \in Seq(Message) /\ Len(o) = Len(m) + 2 /\ WholeTurns(o)
<1> DEFINE turn == <<Chats!Asked, Chats!Reply(n)>>
           o == m \o turn
<1>1. Chats!Asked \in Message /\ Chats!Reply(n) \in Message
    BY DEF Chats!Asked, Chats!Reply, Message
<1>2. /\ turn \in Seq(Message) /\ Len(turn) = 2
      /\ turn[1] = Chats!Asked /\ turn[2] = Chats!Reply(n)
    BY <1>1
<1> HIDE DEF turn
<1>3. /\ o \in Seq(Message) /\ Len(o) = Len(m) + Len(turn)
      /\ \A i \in 1 .. Len(m) + Len(turn) :
            o[i] = IF i <= Len(m) THEN m[i] ELSE turn[i - Len(m)]
    BY <1>2, ConcatProperties
<1> HIDE DEF o
<1>4. Len(m) \in Nat /\ Len(m) % 2 = 0 /\ \A k \in 1 .. Len(m) : TurnAt(m, k)
    BY LenProperties DEF WholeTurns
<1>5. Len(o) = Len(m) + 2 /\ Len(o) % 2 = 0 BY <1>2, <1>3, <1>4
<1>6. ASSUME NEW k \in 1 .. Len(o) PROVE TurnAt(o, k)
    <2>1. CASE k <= Len(m)
        <3>1. k \in 1 .. Len(m) /\ o[k] = m[k] BY <1>3, <1>4, <1>5, <2>1
        <3> QED BY <1>4, <3>1 DEF TurnAt
    <2>2. CASE k = Len(m) + 1
        <3> DEFINE i == k - Len(m)
        <3>0. k \in 1 .. Len(m) + Len(turn) /\ ~(k <= Len(m)) /\ i = 1
            BY <1>2, <1>4, <1>5, <2>2
        <3> HIDE DEF i
        <3>1. o[k] = turn[1]
            <4>1. o[k] = turn[i] BY <1>3, <3>0 DEF i
            <4> QED BY <3>0, <4>1
        <3>2. o[k].role = "user" /\ o[k].after = 0 BY <1>2, <3>1 DEF Chats!Asked
        <3>3. k % 2 = 1 /\ 0 < k /\ 0 % 2 = 0 BY <1>4, <2>2
        <3> QED BY <3>2, <3>3 DEF TurnAt
    <2>3. CASE k = Len(m) + 2
        <3>1. o[k] = turn[2] BY <1>2, <1>3, <1>4, <2>3
        <3>2. o[k].role = "assistant" /\ o[k].after = n BY <1>2, <3>1 DEF Chats!Reply
        <3>3. k % 2 # 1 /\ n < k BY <1>4, <2>3
        <3> QED BY <3>2, <3>3 DEF TurnAt
    <2> QED BY <1>4, <1>5, <2>1, <2>2, <2>3
<1> QED BY <1>3, <1>5, <1>6 DEF WholeTurns, o, turn

\* Opening a session adds it to the active ones of its account, which had room.
LEMMA CreateStep ==
    ASSUME Chats!ConstantsFit, ChatType, ChatsSound,
           NEW a \in Account, NEW s \in Session, Chats!CreateSession(a, s)
    PROVE  StoreStep /\ Chats!Existing' = Chats!Existing \cup {s}
<1>1. /\ s \notin Chats!Existing /\ chat[s] = Unopened
      /\ chat' = [chat EXCEPT ![s].account = a]
      /\ Chats!Cardinality(Chats!Active(a)) < MaxActive
    BY DEF Chats!CreateSession, ChatsSound
<1>2. a # NoSession /\ MaxActive \in Nat /\ MaxMessages \in Nat BY DEF Chats!ConstantsFit
<1>3. chat' = [chat EXCEPT ![s] = [account |-> a, archived |-> FALSE, messages |-> <<>>]]
    <2> DEFINE u == [account |-> a, archived |-> FALSE, messages |-> <<>>]
               v == [chat[s] EXCEPT !.account = a]
               Rec == [account : Account \cup {NoSession}, archived : BOOLEAN,
                       messages : Seq(Message)]
    <2>1. chat[s] \in Rec BY DEF ChatType
    <2>2. v = [account |-> a, archived |-> chat[s].archived, messages |-> chat[s].messages]
        BY <2>1
    <2>3. v = u BY <1>1, <2>2 DEF Unopened
    <2> HIDE DEF u
    <2>4. chat' = [chat EXCEPT ![s] = u] BY <1>1, <2>3
    <2> QED BY <2>4 DEF u
<1>4. /\ chat'[s] = [account |-> a, archived |-> FALSE, messages |-> <<>>]
      /\ \A x \in Session : x # s => chat'[x] = chat[x]
    BY <1>3 DEF ChatType
<1>5. ChatType' BY <1>3 DEF ChatType
<1>6. Chats!Existing' = Chats!Existing \cup {s} BY <1>2, <1>4 DEF Chats!Existing
<1>7. ASSUME NEW b \in Account
      PROVE  IsFiniteSet(Chats!Active(b)') /\ Cardinality(Chats!Active(b)') <= MaxActive
    <2>1. IsFiniteSet(Chats!Active(b)) /\ Cardinality(Chats!Active(b)) <= MaxActive
        BY DEF ChatsSound, AccountsFit
    <2>2. CASE b # a
        <3>1. Chats!Active(b)' = Chats!Active(b)
            BY <1>1, <1>4, <1>6, <2>2 DEF Chats!Active, Chats!Existing
        <3> QED BY <2>1, <3>1
    <2>3. CASE b = a
        <3>1. Chats!Active(b)' = Chats!Active(b) \cup {s}
            BY <1>1, <1>4, <1>6, <2>3 DEF Chats!Active, Chats!Existing
        <3>2. s \notin Chats!Active(b) BY <1>1 DEF Chats!Active
        <3> DEFINE E == Chats!Active(b)
        <3> HIDE DEF E
        <3>3. /\ IsFiniteSet(E \cup {s}) /\ Cardinality(E) \in Nat
              /\ Cardinality(E \cup {s}) = Cardinality(E) + 1
            BY <2>1, <3>2, FS_AddElement, FS_CardinalityType DEF E
        <3>4. Cardinality(E) < MaxActive BY <1>1, <2>3, SameCardinality DEF E
        <3> QED BY <1>2, <3>1, <3>3, <3>4 DEF E
    <2> QED BY <2>2, <2>3
<1>8. ASSUME NEW x \in Session
      PROVE  /\ x \notin Chats!Existing' => chat'[x] = Unopened
             /\ Len(chat'[x].messages) <= MaxMessages
             /\ WholeTurns(chat'[x].messages)
    BY <1>2, <1>4, <1>6, EmptyIsWhole DEF ChatsSound
<1>9. ChatsSound' BY <1>7, <1>8 DEF ChatsSound, AccountsFit
<1>10. Grows
    <2>1. ASSUME NEW x \in Chats!Existing
          PROVE  chat'[x] = chat[x] /\ chat[x].messages = chat[x].messages \o <<>>
        <3>1. x \in Session /\ x # s BY <1>1 DEF Chats!Existing
        <3> QED BY <1>4, <3>1, SameMessages DEF ChatType
    <2> QED BY <2>1 DEF Grows
<1> QED BY <1>5, <1>6, <1>9, <1>10 DEF StoreStep

LEMMA ArchiveStep ==
    ASSUME Chats!ConstantsFit, ChatType, ChatsSound,
           NEW a \in Account, NEW s \in Session, Chats!ArchiveSession(a, s)
    PROVE  StoreStep /\ Chats!Existing' = Chats!Existing
<1>1. /\ s \in Chats!Existing /\ chat' = [chat EXCEPT ![s].archived = TRUE]
    BY DEF Chats!ArchiveSession
<1>2. /\ chat'[s].account = chat[s].account /\ chat'[s].messages = chat[s].messages
      /\ chat'[s].archived /\ (chat[s].archived => chat'[s] = chat[s])
      /\ \A x \in Session : x # s => chat'[x] = chat[x]
    BY <1>1 DEF ChatType
<1>3. ChatType' BY <1>1 DEF ChatType
<1>4. Chats!Existing' = Chats!Existing BY <1>1, <1>2 DEF Chats!Existing
<1>5. ASSUME NEW b \in Account
      PROVE  IsFiniteSet(Chats!Active(b)') /\ Cardinality(Chats!Active(b)') <= MaxActive
    <2>1. IsFiniteSet(Chats!Active(b)) /\ Cardinality(Chats!Active(b)) <= MaxActive
        BY DEF ChatsSound, AccountsFit
    <2>2. Chats!Active(b)' \subseteq Chats!Active(b)
        BY <1>2, <1>4 DEF Chats!Active, Chats!Existing
    <2> DEFINE E == Chats!Active(b)
               F == Chats!Active(b)'
    <2> HIDE DEF E, F
    <2>3. IsFiniteSet(F) /\ Cardinality(F) <= Cardinality(E)
        BY <2>1, <2>2, FS_Subset DEF E, F
    <2>4. Cardinality(E) \in Nat /\ Cardinality(F) \in Nat
        BY <2>1, <2>3, FS_CardinalityType DEF E
    <2>5. MaxActive \in Nat BY DEF Chats!ConstantsFit
    <2> QED BY <2>1, <2>3, <2>4, <2>5 DEF E, F
<1>6. ASSUME NEW x \in Session
      PROVE  /\ x \notin Chats!Existing' => chat'[x] = Unopened
             /\ Len(chat'[x].messages) <= MaxMessages
             /\ WholeTurns(chat'[x].messages)
    BY <1>1, <1>2, <1>4 DEF ChatsSound
<1>7. ChatsSound' BY <1>5, <1>6 DEF ChatsSound, AccountsFit
<1>8. Grows
    <2>1. ASSUME NEW x \in Chats!Existing
          PROVE  /\ chat'[x].account = chat[x].account
                 /\ chat[x].archived => chat'[x] = chat[x]
                 /\ chat'[x].messages = chat[x].messages \o <<>>
        <3>1. x \in Session BY DEF Chats!Existing
        <3>2. chat[x].messages = chat[x].messages \o <<>> BY <3>1, SameMessages DEF ChatType
        <3> QED BY <1>2, <3>1, <3>2
    <2> QED BY <2>1 DEF Grows
<1> QED BY <1>3, <1>4, <1>7, <1>8 DEF StoreStep

\* An answer to whole turns fits behind them, and the session is active.
LEMMA AppendStep ==
    ASSUME Chats!ConstantsFit, ChatType, ChatsSound,
           NEW a \in Account \cup {NoSession}, NEW s \in Session, NEW n \in Nat, n % 2 = 0,
           n <= Len(chat[s].messages), Chats!AppendTurn(a, s, n)
    PROVE  StoreStep /\ Chats!Existing' = Chats!Existing
<1> DEFINE o == chat[s].messages \o <<Chats!Asked, Chats!Reply(n)>>
<1>1. /\ s \in Chats!Existing /\ ~chat[s].archived
      /\ ~(Len(chat[s].messages) + 2 > MaxMessages)
      /\ chat' = [chat EXCEPT ![s].messages = o]
    BY DEF Chats!AppendTurn, Chats!Found, Chats!Active, Chats!Full
<1>2. chat[s].messages \in Seq(Message) /\ WholeTurns(chat[s].messages)
    BY DEF ChatType, ChatsSound
<1>3. o \in Seq(Message) /\ Len(o) = Len(chat[s].messages) + 2 /\ WholeTurns(o)
    BY <1>2, TurnsStayWhole
<1>4. Len(o) <= MaxMessages
    <2>1. Len(chat[s].messages) \in Nat /\ MaxMessages \in Nat
        BY <1>2, LenProperties DEF Chats!ConstantsFit
    <2> HIDE DEF o
    <2> QED BY <1>1, <1>3, <2>1
<1>5. \E turn \in {<<>>} \cup {<<Chats!Asked, Chats!Reply(k)>> :
                                    k \in 0 .. Len(chat[s].messages)} :
        o = chat[s].messages \o turn
    <2>1. Len(chat[s].messages) \in Nat BY <1>2, LenProperties
    <2>2. n \in 0 .. Len(chat[s].messages) BY <2>1
    <2> QED BY <2>2
<1> HIDE DEF o
<1>6. /\ chat'[s].account = chat[s].account /\ chat'[s].archived = chat[s].archived
      /\ chat'[s].messages = o
      /\ \A x \in Session : x # s => chat'[x] = chat[x]
    BY <1>1 DEF ChatType
<1>7. ChatType' BY <1>1, <1>3 DEF ChatType
<1>8. Chats!Existing' = Chats!Existing BY <1>6 DEF Chats!Existing
<1>9. \A b \in Account : Chats!Active(b)' = Chats!Active(b)
    BY <1>6, <1>8 DEF Chats!Active, Chats!Existing
<1>10. ASSUME NEW x \in Session
       PROVE  /\ x \notin Chats!Existing' => chat'[x] = Unopened
              /\ Len(chat'[x].messages) <= MaxMessages
              /\ WholeTurns(chat'[x].messages)
    <2>1. CASE x = s BY <1>1, <1>3, <1>4, <1>6, <1>8, <2>1
    <2>2. CASE x # s BY <1>6, <1>8, <2>2 DEF ChatsSound
    <2> QED BY <2>1, <2>2
<1>11. ChatsSound' BY <1>9, <1>10 DEF ChatsSound, AccountsFit
<1>12. Grows
    <2>1. ASSUME NEW x \in Chats!Existing, x # s
          PROVE  chat'[x] = chat[x] /\ chat[x].messages = chat[x].messages \o <<>>
        <3>1. x \in Session BY DEF Chats!Existing
        <3> QED BY <1>6, <2>1, <3>1, SameMessages DEF ChatType
    <2>2. ASSUME NEW x \in Chats!Existing
          PROVE  /\ chat'[x].account = chat[x].account
                 /\ chat[x].archived => chat'[x] = chat[x]
                 /\ \E turn \in {<<>>} \cup {<<Chats!Asked, Chats!Reply(k)>> :
                                                k \in 0 .. Len(chat[x].messages)} :
                     chat'[x].messages = chat[x].messages \o turn
        <3>1. CASE x = s BY <1>1, <1>5, <1>6, <3>1
        <3>2. CASE x # s BY <2>1, <3>2
        <3> QED BY <3>1, <3>2
    <2> QED BY <2>2 DEF Grows
<1> QED BY <1>7, <1>8, <1>11, <1>12 DEF StoreStep

\* What a turn has read stays the beginning of its session.
LEMMA TurnKept ==
    ASSUME ChatType, ChatType', Grows, Chats!Existing \subseteq Chats!Existing',
           NEW t \in Thread, TurnSound(t), seen[t] \in Seq(Message),
           stage'[t] = stage[t], at'[t] = at[t], seen'[t] = seen[t]
    PROVE  TurnSound(t)'
<1> SUFFICES ASSUME stage[t] = "replying" PROVE TurnSound(t)' BY DEF TurnSound
<1>1. /\ at[t] \in Chats!Existing /\ at[t] \in Session
      /\ Len(seen[t]) % 2 = 0 /\ Len(seen[t]) <= Len(chat[at[t]].messages)
      /\ seen[t] = SubSeq(chat[at[t]].messages, 1, Len(seen[t]))
    BY DEF TurnSound, Chats!Existing
<1> DEFINE m == chat[at[t]].messages
           k == Len(seen[t])
<1>2. PICK turn : chat'[at[t]].messages = m \o turn /\ turn \in Seq(Message)
    <2>1. PICK turn \in {<<>>} \cup {<<Chats!Asked, Chats!Reply(n)>> : n \in 0 .. Len(m)} :
            chat'[at[t]].messages = m \o turn
        BY <1>1 DEF Grows
    <2>2. Len(m) \in Nat BY <1>1, LenProperties DEF ChatType
    <2>3. Chats!Asked \in Message /\ \A n \in Nat : Chats!Reply(n) \in Message
        BY DEF Chats!Asked, Chats!Reply, Message
    <2>4. turn \in Seq(Message)
        <3>1. CASE turn = <<>> BY <3>1
        <3>2. CASE turn \in {<<Chats!Asked, Chats!Reply(n)>> : n \in 0 .. Len(m)}
            <4>1. PICK n \in 0 .. Len(m) : turn = <<Chats!Asked, Chats!Reply(n)>> BY <3>2
            <4>2. n \in Nat BY <2>2
            <4>3. Chats!Asked \in Message /\ Chats!Reply(n) \in Message BY <2>3, <4>2
            <4> QED BY <4>1, <4>3
        <3> QED BY <3>1, <3>2
    <2> QED BY <2>1, <2>4
<1>3. m \in Seq(Message) /\ Len(m) \in Nat /\ k \in Nat BY <1>1, LenProperties DEF ChatType
<1>4. Len(m \o turn) >= Len(m) /\ Len(m \o turn) \in Nat
    <2>1. Len(turn) \in Nat BY <1>2, LenProperties
    <2>2. Len(m \o turn) = Len(m) + Len(turn) BY <1>2, <1>3, ConcatProperties
    <2> QED BY <1>3, <2>1, <2>2
<1>5. SubSeq(m \o turn, 1, k) = SubSeq(m, 1, k)
    <2> HIDE DEF m, k
    <2>1. CASE k = 0
        <3>1. SubSeq(m \o turn, 1, k) = <<>> BY <2>1, SubSeqEmpty
        <3>2. SubSeq(m, 1, k) = <<>> BY <2>1, SubSeqEmpty
        <3> QED BY <3>1, <3>2
    <2>2. CASE k # 0
        <3>1. 1 \in 1 .. Len(m) /\ k \in 1 .. Len(m) BY <1>1, <1>3, <2>2 DEF m, k
        <3> QED BY <1>2, <1>3, <3>1, SubSeqOfConcat1
    <2> QED BY <2>1, <2>2
<1> HIDE DEF m, k
<1>6. at'[t] \in Chats!Existing' BY <1>1
<1>7. Len(seen'[t]) % 2 = 0 /\ Len(seen'[t]) <= Len(chat'[at'[t]].messages)
    <2>1. chat'[at'[t]].messages = m \o turn /\ Len(seen'[t]) = k BY <1>2 DEF k
    <2>2. k <= Len(m) /\ k % 2 = 0 BY <1>1 DEF k, m
    <2> QED BY <1>3, <1>4, <2>1, <2>2
<1>8. seen'[t] = SubSeq(chat'[at'[t]].messages, 1, Len(seen'[t]))
    BY <1>1, <1>2, <1>5 DEF k, m
<1> QED BY <1>6, <1>7, <1>8 DEF TurnSound

LEMMA ChatsInitial ==
    ASSUME Chats!ConstantsFit, Chats!Init
    PROVE  ChatsInv
<1>1. /\ chat = [s \in Session |-> Unopened] /\ Chats!Existing = {}
      /\ \A t \in Thread : stage[t] = "idle"
    BY DEF Chats!Init, Chats!Existing, Unopened
<1>2. \A a \in Account : Chats!Active(a) = {} BY <1>1 DEF Chats!Active
<1>3. IsFiniteSet({}) /\ Cardinality({}) = 0 BY FS_EmptySet
<1>4. MaxActive \in Nat /\ MaxMessages \in Nat BY DEF Chats!ConstantsFit
<1>5. AccountsFit BY <1>2, <1>3, <1>4 DEF AccountsFit
<1>6. ASSUME NEW s \in Session
      PROVE  /\ chat[s] = Unopened /\ Len(chat[s].messages) <= MaxMessages
             /\ WholeTurns(chat[s].messages)
    BY <1>1, <1>4, EmptyIsWhole DEF Unopened
<1>7. ChatsSound BY <1>5, <1>6 DEF ChatsSound
<1>8. Chats!TypeOK BY EmptyIsWhole DEF Chats!Init, Chats!TypeOK, Message
<1>9. \A t \in Thread : TurnSound(t) BY <1>1 DEF TurnSound
<1> QED BY <1>7, <1>8, <1>9 DEF ChatsInv

\* The turns besides t do not notice what a step does to the sessions.
LEMMA OtherTurnsKept ==
    ASSUME ChatsInv, ChatType', Grows, Chats!Existing \subseteq Chats!Existing',
           NEW t \in Thread,
           \A u \in Thread \ {t} : stage'[u] = stage[u] /\ at'[u] = at[u] /\ seen'[u] = seen[u],
           TurnSound(t)'
    PROVE  \A u \in Thread : TurnSound(u)'
<1>1. ASSUME NEW u \in Thread \ {t} PROVE TurnSound(u)'
    <2>1. TurnSound(u) /\ ChatType /\ seen[u] \in Seq(Message)
        BY DEF ChatsInv, Chats!TypeOK, ChatType, Message
    <2> QED BY <2>1, TurnKept
<1> QED BY <1>1

LEMMA ChatsStep ==
    ASSUME Chats!ConstantsFit, ChatsInv, Chats!Next
    PROVE  ChatsInv' /\ Grows
<1>1. /\ ChatType /\ ChatsSound
      /\ stage \in [Thread -> {"idle", "opened", "replying"}]
      /\ at \in [Thread -> Session \cup {NoSession}]
      /\ by \in [Thread -> Account \cup {NoSession}]
      /\ seen \in [Thread -> Seq(Message)]
      /\ \A t \in Thread : TurnSound(t)
    BY DEF ChatsInv, Chats!TypeOK, ChatType, Message
<1>2. ASSUME NEW a \in Account, NEW s \in Session, Chats!Create(a, s) \/ Chats!Archive(a, s)
      PROVE  ChatsInv' /\ Grows
    <2>1. StoreStep /\ Chats!Existing \subseteq Chats!Existing'
        BY <1>1, <1>2, CreateStep, ArchiveStep DEF Chats!Create, Chats!Archive
    <2>2. UNCHANGED <<stage, at, by, seen>>
        BY <1>2 DEF Chats!Create, Chats!Archive, Chats!turns
    <2>3. Chats!TypeOK' BY <1>1, <2>1, <2>2 DEF StoreStep, ChatType, Chats!TypeOK, Message
    <2>4. ASSUME NEW t \in Thread PROVE TurnSound(t)'
        BY <1>1, <2>1, <2>2, TurnKept DEF StoreStep
    <2> QED BY <2>1, <2>3, <2>4 DEF StoreStep, ChatsInv
<1>3. ASSUME NEW t \in Thread, NEW a \in Account, NEW s \in Session, Chats!VoiceOpen(t, a, s)
      PROVE  ChatsInv' /\ Grows
    <2>1. StoreStep /\ Chats!Existing \subseteq Chats!Existing'
        BY <1>1, <1>3, CreateStep DEF Chats!VoiceOpen
    <2>2. /\ stage' = [stage EXCEPT ![t] = "opened"] /\ at' = [at EXCEPT ![t] = s]
          /\ by' = [by EXCEPT ![t] = a] /\ seen' = seen
        BY <1>3 DEF Chats!VoiceOpen
    <2>3. Chats!TypeOK' BY <1>1, <2>1, <2>2 DEF StoreStep, ChatType, Chats!TypeOK, Message
    <2>4. TurnSound(t)' BY <1>1, <2>2 DEF TurnSound
    <2>5. \A u \in Thread : TurnSound(u)'
        BY <1>1, <2>1, <2>2, <2>4, OtherTurnsKept DEF StoreStep
    <2> QED BY <2>1, <2>3, <2>5 DEF StoreStep, ChatsInv
<1>4. ASSUME NEW t \in Thread, NEW a \in Account, NEW s \in Session, Chats!RawSession(t, a, s)
      PROVE  ChatsInv' /\ Grows
    <2>1. /\ s \in Chats!Existing /\ chat' = chat
          /\ stage' = [stage EXCEPT ![t] = "replying"] /\ at' = [at EXCEPT ![t] = s]
          /\ by' = [by EXCEPT ![t] = a] /\ seen' = [seen EXCEPT ![t] = chat[s].messages]
        BY <1>4 DEF Chats!RawSession, Chats!Found, Chats!Active
    <2>2. chat[s].messages \in Seq(Message) BY <1>1 DEF ChatType
    <2>3. Chats!TypeOK' BY <1>1, <2>1, <2>2 DEF ChatType, Chats!TypeOK, Message
    <2>4. Chats!Existing' = Chats!Existing /\ ChatsSound' /\ ChatType'
        BY <1>1, <2>1 DEF Chats!Existing, ChatsSound, AccountsFit, Chats!Active, ChatType
    <2>5. Grows
        <3>1. ASSUME NEW x \in Chats!Existing
              PROVE  chat'[x].messages = chat[x].messages \o <<>>
            <4>1. chat[x].messages \in Seq(Message) BY <1>1 DEF ChatType, Chats!Existing
            <4> QED BY <2>1, <4>1, SameMessages
        <3> QED BY <2>1, <3>1 DEF Grows
    <2>6. TurnSound(t)'
        <3>1. at'[t] = s /\ seen'[t] = chat[s].messages BY <1>1, <2>1
        <3>2. Len(chat[s].messages) % 2 = 0 /\ Len(chat[s].messages) \in Nat
            BY <1>1, <2>2, LenProperties DEF ChatsSound, WholeTurns
        <3>3. SubSeq(chat[s].messages, 1, Len(chat[s].messages)) = chat[s].messages
            BY <2>2, SubSeqFull
        <3>4. chat'[at'[t]].messages = chat[s].messages BY <2>1, <3>1
        <3>5. at'[t] \in Chats!Existing' BY <2>1, <2>4, <3>1
        <3>6. /\ Len(seen'[t]) % 2 = 0 /\ Len(seen'[t]) <= Len(chat'[at'[t]].messages)
              /\ seen'[t] = SubSeq(chat'[at'[t]].messages, 1, Len(seen'[t]))
            <4> DEFINE m == chat[s].messages
                       r == seen'[t]
                       n == chat'[at'[t]].messages
            <4>1. r = m /\ n = m /\ SubSeq(m, 1, Len(m)) = m /\ Len(m) % 2 = 0 /\ Len(m) \in Nat
                BY <3>1, <3>2, <3>3, <3>4
            <4> HIDE DEF m, r, n
            <4>2. Len(r) % 2 = 0 /\ Len(r) <= Len(n) /\ r = SubSeq(n, 1, Len(r))
                <5>1. Len(r) = Len(m) /\ Len(n) = Len(m) BY <4>1
                <5>2. SubSeq(n, 1, Len(r)) = m BY <4>1
                <5> QED BY <4>1, <5>1, <5>2
            <4> QED BY <4>2 DEF m, r, n
        <3> QED BY <3>5, <3>6 DEF TurnSound
    <2>7. \A u \in Thread : TurnSound(u)'
        BY <1>1, <2>1, <2>4, <2>5, <2>6, OtherTurnsKept
    <2> QED BY <2>3, <2>4, <2>5, <2>7 DEF ChatsInv
<1>5. ASSUME NEW t \in Thread, Chats!Answer(t)
      PROVE  ChatsInv' /\ Grows
    <2>1. stage[t] = "replying" /\ Chats!AppendTurn(by[t], at[t], Len(seen[t])) /\ Chats!Ends(t)
        BY <1>5 DEF Chats!Answer
    <2>2. /\ at[t] \in Session /\ Len(seen[t]) % 2 = 0
          /\ Len(seen[t]) <= Len(chat[at[t]].messages)
        BY <1>1, <2>1 DEF TurnSound, Chats!Existing
    <2>3. Len(seen[t]) \in Nat /\ by[t] \in Account \cup {NoSession} BY <1>1, LenProperties
    <2>4. StoreStep /\ Chats!Existing' = Chats!Existing
        BY <1>1, <2>1, <2>2, <2>3, AppendStep
    <2>5. /\ stage' = [stage EXCEPT ![t] = "idle"] /\ at' = [at EXCEPT ![t] = NoSession]
          /\ by' = [by EXCEPT ![t] = NoSession] /\ seen' = [seen EXCEPT ![t] = <<>>]
        BY <2>1 DEF Chats!Ends
    <2>6. Chats!TypeOK'
        BY <1>1, <2>4, <2>5, EmptyIsWhole DEF StoreStep, ChatType, Chats!TypeOK, Message
    <2>7. TurnSound(t)' BY <1>1, <2>5 DEF TurnSound
    <2>8. \A u \in Thread : TurnSound(u)'
        BY <1>1, <2>4, <2>5, <2>7, OtherTurnsKept DEF StoreStep
    <2> QED BY <2>4, <2>6, <2>8 DEF StoreStep, ChatsInv
<1>6. ASSUME NEW t \in Thread, Chats!Drop(t)
      PROVE  ChatsInv' /\ Grows
    <2>1. /\ chat' = chat
          /\ stage' = [stage EXCEPT ![t] = "idle"] /\ at' = [at EXCEPT ![t] = NoSession]
          /\ by' = [by EXCEPT ![t] = NoSession] /\ seen' = [seen EXCEPT ![t] = <<>>]
        BY <1>6 DEF Chats!Drop, Chats!Ends
    <2>2. Chats!TypeOK' BY <1>1, <2>1, EmptyIsWhole DEF ChatType, Chats!TypeOK, Message
    <2>3. Chats!Existing' = Chats!Existing /\ ChatsSound' /\ ChatType'
        BY <1>1, <2>1 DEF Chats!Existing, ChatsSound, AccountsFit, Chats!Active, ChatType
    <2>4. Grows
        <3>1. ASSUME NEW x \in Chats!Existing
              PROVE  chat'[x].messages = chat[x].messages \o <<>>
            <4>1. chat[x].messages \in Seq(Message) BY <1>1 DEF ChatType, Chats!Existing
            <4> QED BY <2>1, <4>1, SameMessages
        <3> QED BY <2>1, <3>1 DEF Grows
    <2>5. TurnSound(t)' BY <1>1, <2>1 DEF TurnSound
    <2>6. \A u \in Thread : TurnSound(u)'
        BY <1>1, <2>1, <2>3, <2>4, <2>5, OtherTurnsKept
    <2> QED BY <2>2, <2>3, <2>4, <2>6 DEF ChatsInv
<1> QED BY <1>2, <1>3, <1>4, <1>5, <1>6 DEF Chats!Next

LEMMA ChatsStutter ==
    ASSUME ChatsInv, UNCHANGED chats
    PROVE  ChatsInv'
<1>1. chat' = chat /\ stage' = stage /\ at' = at /\ by' = by /\ seen' = seen BY DEF chats
<1>2. Chats!Existing' = Chats!Existing /\ \A a \in Account : Chats!Active(a)' = Chats!Active(a)
    BY <1>1 DEF Chats!Existing, Chats!Active
<1> QED BY <1>1, <1>2 DEF ChatsInv, Chats!TypeOK, ChatsSound, AccountsFit, TurnSound

LEMMA ChatsSafe ==
    ASSUME ChatsInv
    PROVE  Chats!DocumentStaysLoadable /\ Chats!RepliesSeeWholeTurns
<1>1. \A s \in Chats!Existing : s \in Session BY DEF Chats!Existing
<1>2. Chats!DocumentStaysLoadable
    <2>1. ASSUME NEW a \in Account PROVE Chats!Cardinality(Chats!Active(a)) <= MaxActive
        BY SameCardinality DEF ChatsInv, ChatsSound, AccountsFit
    <2> QED BY <1>1, <2>1 DEF ChatsInv, ChatsSound, Chats!DocumentStaysLoadable
<1>3. Chats!RepliesSeeWholeTurns
    BY <1>1 DEF ChatsInv, ChatsSound, TurnSound, WholeTurns, TurnAt, Chats!RepliesSeeWholeTurns
<1> QED BY <1>2, <1>3

-----------------------------------------------------------------------------
(* The commands of the terminals.  What a terminal has loaded is what is    *)
(* saved, except of reports that another one overtook; a proposal comes     *)
(* from an approved report, is tested by the terminal that made it, and     *)
(* keeps its status once it is approved.                                    *)

AboutReport == {"report", "reporting", "approve report", "approving", "create", "draft"}
AboutProposal == {"testing", "approve", "export"}

Fits(c, x) ==
    (c \in AboutReport => x \in Report) /\ (c \in AboutProposal => x \in Proposal)

NoneUngoverned(reports) == \A r \in Report : reports[r] = "approved" => r \in governed

LoadsCurrent ==
    \A t \in Lines!Saving : \A r \in Report : r \notin raced => loaded[t][r] = records[r]

ApprovalsGoverned ==
    NoneUngoverned(records) /\ \A t \in Terminal : NoneUngoverned(loaded[t])

TrialSound(p) ==
    /\ trial[p].status # "none" => trial[p].failure \in governed
    /\ trial[p].status = "draft_approved_by_human" => trial[p].draft /\ p \in governed

TestsSound ==
    \A t \in Terminal : cmd[t] = "testing" =>
        /\ trial[about[t]].status \in {"sandbox_created", "draft_created"}
        /\ \A u \in Terminal : u # t /\ cmd[u] = "testing" => about[u] # about[t]

ExportsSound ==
    exported \subseteq {p \in Proposal : trial[p].status = "draft_approved_by_human"}

LinesInv ==
    /\ Lines!TypeOK
    /\ \A t \in Terminal : Fits(cmd[t], about[t])
    /\ LoadsCurrent /\ Lines!ToldReportsAreKept
    /\ ApprovalsGoverned
    /\ \A p \in Proposal : TrialSound(p)
    /\ TestsSound /\ ExportsSound

LEMMA LinesInitial ==
    ASSUME Lines!Init
    PROVE  LinesInv
<1>1. Lines!TypeOK
    BY DEF Lines!Init, Lines!TypeOK, Lines!Reports, Lines!NoReports, Lines!Trial, Lines!NoTrial,
        Lines!Step, Lines!Command, Lines!Governed, Lines!Verdict
<1>2. \A t \in Terminal : Fits(cmd[t], about[t])
    BY DEF Lines!Init, Fits, AboutReport, AboutProposal
<1>3. LoadsCurrent /\ TestsSound /\ ExportsSound
    BY DEF Lines!Init, LoadsCurrent, Lines!Saving, TestsSound, ExportsSound
<1>4. Lines!ToldReportsAreKept BY DEF Lines!Init, Lines!ToldReportsAreKept
<1>5. ApprovalsGoverned
    BY DEF Lines!Init, ApprovalsGoverned, NoneUngoverned, Lines!NoReports
<1>6. \A p \in Proposal : TrialSound(p) BY DEF Lines!Init, TrialSound, Lines!NoTrial
<1> QED BY <1>1, <1>2, <1>3, <1>4, <1>5, <1>6 DEF LinesInv

LEMMA NoReportsQuiet == Lines!NoReports \in Lines!Reports /\ NoneUngoverned(Lines!NoReports)
BY DEF Lines!NoReports, Lines!Reports, NoneUngoverned

\* A terminal turns to a command, or to none, that does not save or test yet.
LEMMA QuietKeeps ==
    ASSUME LinesInv, UNCHANGED <<records, trial, exported, told, raced, governed>>,
           role' \in [Terminal -> {"none", "owner", "user"}],
           NEW t \in Terminal, NEW c \in Lines!Command \cup {"none"},
           NEW x \in Report \cup Proposal \cup {None}, Fits(c, x),
           NEW reports \in Lines!Reports, NoneUngoverned(reports),
           cmd' = [cmd EXCEPT ![t] = c], about' = [about EXCEPT ![t] = x],
           loaded' = [loaded EXCEPT ![t] = reports]
    PROVE  LinesInv'
<1>1. /\ cmd \in [Terminal -> Lines!Step] /\ loaded \in [Terminal -> Lines!Reports]
      /\ about \in [Terminal -> Report \cup Proposal \cup {None}]
    BY DEF LinesInv, Lines!TypeOK
<1>2. c \notin {"testing", "reporting", "approving"} /\ c \in Lines!Step
    BY DEF Lines!Command, Lines!Governed, Lines!Step
<1>3. Lines!TypeOK' BY <1>1, <1>2 DEF LinesInv, Lines!TypeOK
<1>4. \A u \in Terminal : Fits(cmd[u], about[u])' BY <1>1 DEF LinesInv, Fits
<1>5. LoadsCurrent' BY <1>1, <1>2 DEF LinesInv, LoadsCurrent, Lines!Saving
<1>6. Lines!ToldReportsAreKept' BY DEF LinesInv, Lines!ToldReportsAreKept
<1>7. ApprovalsGoverned' BY <1>1 DEF LinesInv, ApprovalsGoverned, NoneUngoverned
<1>8. \A p \in Proposal : TrialSound(p)' BY DEF LinesInv, TrialSound
<1>9. TestsSound' BY <1>1, <1>2 DEF LinesInv, TestsSound
<1>10. ExportsSound' BY DEF LinesInv, ExportsSound
<1> QED BY <1>3, <1>4, <1>5, <1>6, <1>7, <1>8, <1>9, <1>10 DEF LinesInv

LEMMA LinesStutter ==
    ASSUME LinesInv, role' \in [Terminal -> {"none", "owner", "user"}],
           UNCHANGED <<records, trial, exported, cmd, about, loaded, told, raced, governed>>
    PROVE  LinesInv'
<1>1. Lines!TypeOK' BY DEF LinesInv, Lines!TypeOK
<1>2. \A u \in Terminal : Fits(cmd[u], about[u])' BY DEF LinesInv, Fits
<1>3. LoadsCurrent' BY DEF LinesInv, LoadsCurrent, Lines!Saving
<1>4. Lines!ToldReportsAreKept' BY DEF LinesInv, Lines!ToldReportsAreKept
<1>5. ApprovalsGoverned' BY DEF LinesInv, ApprovalsGoverned, NoneUngoverned
<1>6. \A p \in Proposal : TrialSound(p)' BY DEF LinesInv, TrialSound
<1>7. TestsSound' BY DEF LinesInv, TestsSound
<1>8. ExportsSound' BY DEF LinesInv, ExportsSound
<1> QED BY <1>1, <1>2, <1>3, <1>4, <1>5, <1>6, <1>7, <1>8 DEF LinesInv

\* What is loaded is what is saved, so it is current for every report.
LEMMA LoadKeepsLines ==
    ASSUME LinesInv, NEW t \in Terminal, Lines!ReportLoad(t) \/ Lines!ApproveLoad(t)
    PROVE  LinesInv'
<1>1. /\ cmd \in [Terminal -> Lines!Step] /\ loaded \in [Terminal -> Lines!Reports]
      /\ records \in Lines!Reports
    BY DEF LinesInv, Lines!TypeOK
<1>2. PICK c \in {"reporting", "approving"} : cmd' = [cmd EXCEPT ![t] = c]
    BY DEF Lines!ReportLoad, Lines!ApproveLoad, Lines!Goes
<1>3. /\ loaded' = [loaded EXCEPT ![t] = records]
      /\ cmd[t] \in {"report", "approve report"}
      /\ UNCHANGED <<records, trial, exported, role, about, told, raced, governed>>
    BY DEF Lines!ReportLoad, Lines!ApproveLoad
<1>4. Lines!TypeOK' BY <1>1, <1>2, <1>3 DEF LinesInv, Lines!TypeOK, Lines!Step
<1>5. \A u \in Terminal : Fits(cmd[u], about[u])'
    BY <1>1, <1>2, <1>3 DEF LinesInv, Fits, AboutReport, AboutProposal
<1>6. LoadsCurrent' BY <1>1, <1>2, <1>3 DEF LinesInv, LoadsCurrent, Lines!Saving
<1>7. Lines!ToldReportsAreKept' BY <1>3 DEF LinesInv, Lines!ToldReportsAreKept
<1>8. ApprovalsGoverned' BY <1>1, <1>3 DEF LinesInv, ApprovalsGoverned, NoneUngoverned
<1>9. \A p \in Proposal : TrialSound(p)' BY <1>3 DEF LinesInv, TrialSound
<1>10. TestsSound' BY <1>1, <1>2, <1>3 DEF LinesInv, TestsSound
<1>11. ExportsSound' BY <1>3 DEF LinesInv, ExportsSound
<1> QED BY <1>4, <1>5, <1>6, <1>7, <1>8, <1>9, <1>10, <1>11 DEF LinesInv

\* A save restores what was saved before, except of reports that were raced and
\* of its own; its own is raced, too, unless no other terminal has loaded.
LEMMA SaveKeepsLines ==
    ASSUME LinesInv, NEW t \in Terminal, t \in Lines!Saving,
           NEW status \in {"pending", "approved"}, Lines!SaveAs(t, status),
           governed' = IF status = "approved" THEN governed \cup {about[t]} ELSE governed
    PROVE  LinesInv'
<1> DEFINE r0 == about[t]
<1>1. /\ cmd \in [Terminal -> Lines!Step] /\ loaded \in [Terminal -> Lines!Reports]
      /\ about \in [Terminal -> Report \cup Proposal \cup {None}]
      /\ records \in Lines!Reports /\ told \in Lines!Reports
    BY DEF LinesInv, Lines!TypeOK
<1>2. r0 \in Report
    BY DEF LinesInv, Fits, AboutReport, Lines!Saving
<1>3. /\ records' = [loaded[t] EXCEPT ![r0] = status]
      /\ told' = [told EXCEPT ![r0] = status]
      /\ raced' = IF Lines!Saving = {t} THEN raced \ {r0} ELSE raced \cup {r0}
      /\ cmd' = [cmd EXCEPT ![t] = "none"] /\ about' = [about EXCEPT ![t] = None]
      /\ loaded' = [loaded EXCEPT ![t] = Lines!NoReports]
      /\ UNCHANGED <<trial, exported, role>>
    BY DEF Lines!SaveAs, Lines!Ends
<1> HIDE DEF r0
<1>4. /\ records' \in Lines!Reports /\ told' \in Lines!Reports
      /\ records'[r0] = status /\ told'[r0] = status
      /\ \A r \in Report : r # r0 => records'[r] = loaded[t][r] /\ told'[r] = told[r]
    BY <1>1, <1>2, <1>3 DEF Lines!Reports
<1>5. governed \subseteq governed' /\ governed' \subseteq governed \cup {r0}
      /\ (status = "approved" => r0 \in governed')
    BY DEF r0
<1>6. Lines!TypeOK'
    <2>1. "none" \in Lines!Step BY DEF Lines!Step
    <2>2. {exported', raced', governed'} \subseteq SUBSET (Report \cup Proposal)
        BY <1>2, <1>3, <1>5 DEF LinesInv, Lines!TypeOK
    <2> QED BY <1>1, <1>3, <1>4, <2>1, <2>2, NoReportsQuiet DEF LinesInv, Lines!TypeOK
<1>7. \A u \in Terminal : Fits(cmd[u], about[u])'
    BY <1>1, <1>3 DEF LinesInv, Fits, AboutReport, AboutProposal
<1>8. \A r \in Report : r \notin raced => loaded[t][r] = records[r] /\ records[r] = told[r]
    BY DEF LinesInv, LoadsCurrent, Lines!ToldReportsAreKept
<1>9. \A r \in Report : r # r0 /\ r \notin raced' =>
        r \notin raced /\ records'[r] = records[r] /\ told'[r] = told[r]
    BY <1>3, <1>4, <1>8
<1>10. Lines!ToldReportsAreKept'
    <2>1. ASSUME NEW r \in Report, r \notin raced' PROVE records'[r] = told'[r]
        BY <1>4, <1>8, <1>9, <2>1
    <2> QED BY <2>1 DEF Lines!ToldReportsAreKept
<1>11. LoadsCurrent'
    <2>1. ASSUME NEW u \in Lines!Saving', NEW r \in Report, r \notin raced'
          PROVE  loaded'[u][r] = records'[r]
        <3>1. u \in Lines!Saving /\ u # t /\ loaded'[u] = loaded[u]
            BY <1>1, <1>3 DEF Lines!Saving
        <3>2. r # r0 BY <1>3, <2>1, <3>1
        <3>3. r \notin raced /\ records'[r] = records[r] BY <1>9, <2>1, <3>2
        <3> QED BY <3>1, <3>3 DEF LinesInv, LoadsCurrent
    <2> QED BY <2>1 DEF LoadsCurrent
<1>12. ApprovalsGoverned'
    <2>1. ASSUME NEW r \in Report, records'[r] = "approved" PROVE r \in governed'
        <3>1. CASE r = r0 BY <1>4, <1>5, <2>1, <3>1
        <3>2. CASE r # r0
            BY <1>4, <1>5, <2>1, <3>2 DEF LinesInv, ApprovalsGoverned, NoneUngoverned
        <3> QED BY <3>1, <3>2
    <2>2. ASSUME NEW u \in Terminal, NEW r \in Report, loaded'[u][r] = "approved"
          PROVE  r \in governed'
        <3>1. CASE u = t BY <1>1, <1>3, <2>2, <3>1 DEF Lines!NoReports
        <3>2. CASE u # t
            BY <1>1, <1>3, <1>5, <2>2, <3>2 DEF LinesInv, ApprovalsGoverned, NoneUngoverned
        <3> QED BY <3>1, <3>2
    <2> QED BY <2>1, <2>2 DEF ApprovalsGoverned, NoneUngoverned
<1>13. \A p \in Proposal : TrialSound(p)' BY <1>3, <1>5 DEF LinesInv, TrialSound
<1>14. TestsSound' BY <1>1, <1>3 DEF LinesInv, TestsSound
<1>15. ExportsSound' BY <1>3 DEF LinesInv, ExportsSound
<1> QED BY <1>6, <1>7, <1>10, <1>11, <1>12, <1>13, <1>14, <1>15 DEF LinesInv

\* A new proposal is made from an approved report, and nobody tests it yet.
LEMMA CreateKeepsLines ==
    ASSUME LinesInv, NEW t \in Terminal, NEW p \in Proposal, Lines!CreateProposal(t, p)
    PROVE  LinesInv'
<1> DEFINE new == [failure |-> about[t], draft |-> cmd[t] = "draft",
                   status |-> IF cmd[t] = "draft" THEN "draft_created" ELSE "sandbox_created"]
<1>1. /\ cmd \in [Terminal -> Lines!Step]
      /\ about \in [Terminal -> Report \cup Proposal \cup {None}]
      /\ trial \in [Proposal -> Lines!Trial]
    BY DEF LinesInv, Lines!TypeOK
<1>2. /\ records[about[t]] = "approved" /\ trial[p] = Lines!NoTrial
      /\ trial' = [trial EXCEPT ![p] = new]
      /\ about' = [about EXCEPT ![t] = p] /\ cmd' = [cmd EXCEPT ![t] = "testing"]
      /\ UNCHANGED <<records, exported, role, loaded, told, raced, governed>>
    BY DEF Lines!CreateProposal, Lines!Goes
<1>3. about[t] \in Report /\ about[t] \in governed
    <2>1. about[t] \in Report
        BY DEF Lines!CreateProposal, LinesInv, Fits, AboutReport
    <2> QED BY <1>2, <2>1 DEF LinesInv, ApprovalsGoverned, NoneUngoverned
<1>4. /\ new \in Lines!Trial /\ new.failure = about[t]
      /\ new.status \in {"sandbox_created", "draft_created"}
    BY <1>3 DEF Lines!Trial
<1> HIDE DEF new
<1>5. trial'[p] = new /\ \A q \in Proposal : q # p => trial'[q] = trial[q] BY <1>1, <1>2
<1>6. Lines!TypeOK'
    BY <1>1, <1>2, <1>4 DEF LinesInv, Lines!TypeOK, Lines!Step
<1>7. \A u \in Terminal : Fits(cmd[u], about[u])'
    BY <1>1, <1>2 DEF LinesInv, Fits, AboutReport, AboutProposal
<1>8. LoadsCurrent' BY <1>1, <1>2 DEF LinesInv, LoadsCurrent, Lines!Saving
<1>9. Lines!ToldReportsAreKept' BY <1>2 DEF LinesInv, Lines!ToldReportsAreKept
<1>10. ApprovalsGoverned' BY <1>2 DEF LinesInv, ApprovalsGoverned, NoneUngoverned
<1>11. \A q \in Proposal : TrialSound(q)'
    BY <1>2, <1>3, <1>4, <1>5 DEF LinesInv, TrialSound
<1>12. TestsSound'
    <2>1. ASSUME NEW u \in Terminal, cmd[u] = "testing" PROVE about[u] \in Proposal /\ about[u] # p
        BY <1>2, <2>1 DEF LinesInv, Fits, AboutProposal, TestsSound, Lines!NoTrial
    <2>2. ASSUME NEW u \in Terminal, cmd'[u] = "testing"
          PROVE  trial'[about'[u]].status \in {"sandbox_created", "draft_created"}
        <3>1. CASE u = t BY <1>1, <1>2, <1>4, <1>5, <3>1
        <3>2. CASE u # t
            <4>1. cmd[u] = "testing" /\ about'[u] = about[u] BY <1>1, <1>2, <2>2, <3>2
            <4>2. trial'[about[u]] = trial[about[u]] BY <1>5, <2>1, <4>1
            <4> QED BY <4>1, <4>2 DEF LinesInv, TestsSound
        <3> QED BY <3>1, <3>2
    <2>3. ASSUME NEW u \in Terminal, NEW v \in Terminal, u # v,
                 cmd'[u] = "testing", cmd'[v] = "testing"
          PROVE  about'[u] # about'[v]
        <3>1. CASE u = t BY <1>1, <1>2, <2>1, <2>3, <3>1
        <3>2. CASE v = t BY <1>1, <1>2, <2>1, <2>3, <3>2
        <3>3. CASE u # t /\ v # t BY <1>1, <1>2, <2>3, <3>3 DEF LinesInv, TestsSound
        <3> QED BY <3>1, <3>2, <3>3
    <2> QED BY <2>2, <2>3 DEF TestsSound
<1>13. ExportsSound'
    BY <1>2, <1>5 DEF LinesInv, ExportsSound, Lines!NoTrial
<1> QED BY <1>6, <1>7, <1>8, <1>9, <1>10, <1>11, <1>12, <1>13 DEF LinesInv

\* The status of a proposal that is not tested by another terminal changes.
LEMMA StatusKeepsLines ==
    ASSUME LinesInv, NEW t \in Terminal, NEW status \in Lines!Trial, NEW G,
           about[t] \in Proposal,
           status.failure = trial[about[t]].failure, status.draft = trial[about[t]].draft,
           trial[about[t]].status # "none", status.status # "none",
           trial[about[t]].status # "draft_approved_by_human",
           \A u \in Terminal : u # t /\ cmd[u] = "testing" => about[u] # about[t],
           status.status = "draft_approved_by_human" => status.draft /\ about[t] \in G,
           governed \subseteq G, G \subseteq Report \cup Proposal, governed' = G,
           trial' = [trial EXCEPT ![about[t]] = status],
           Lines!Ends(t), UNCHANGED <<records, exported, role, told, raced>>
    PROVE  LinesInv'
<1> DEFINE p == about[t]
<1>1. /\ cmd \in [Terminal -> Lines!Step] /\ loaded \in [Terminal -> Lines!Reports]
      /\ about \in [Terminal -> Report \cup Proposal \cup {None}]
      /\ trial \in [Proposal -> Lines!Trial]
    BY DEF LinesInv, Lines!TypeOK
<1>2. /\ cmd' = [cmd EXCEPT ![t] = "none"] /\ about' = [about EXCEPT ![t] = None]
      /\ loaded' = [loaded EXCEPT ![t] = Lines!NoReports]
    BY DEF Lines!Ends
<1> HIDE DEF p
<1>3. p \in Proposal /\ trial'[p] = status /\ \A q \in Proposal : q # p => trial'[q] = trial[q]
    BY <1>1 DEF p
<1>4. Lines!TypeOK'
    <2>1. "none" \in Lines!Step BY DEF Lines!Step
    <2>2. trial' \in [Proposal -> Lines!Trial] BY <1>1
    <2> QED BY <1>1, <1>2, <2>1, <2>2, NoReportsQuiet DEF LinesInv, Lines!TypeOK
<1>5. \A u \in Terminal : Fits(cmd[u], about[u])'
    BY <1>1, <1>2 DEF LinesInv, Fits, AboutReport, AboutProposal
<1>6. LoadsCurrent' BY <1>1, <1>2 DEF LinesInv, LoadsCurrent, Lines!Saving
<1>7. Lines!ToldReportsAreKept' BY DEF LinesInv, Lines!ToldReportsAreKept
<1>8. ApprovalsGoverned'
    BY <1>1, <1>2 DEF LinesInv, ApprovalsGoverned, NoneUngoverned, Lines!NoReports
<1>9. \A q \in Proposal : TrialSound(q)'
    <2>1. ASSUME NEW q \in Proposal PROVE TrialSound(q)'
        <3>1. CASE q = p
            <4>1. trial[p].failure \in governed BY <1>3 DEF LinesInv, TrialSound, p
            <4> QED BY <1>3, <3>1, <4>1 DEF TrialSound, p
        <3>2. CASE q # p BY <1>3, <3>2 DEF LinesInv, TrialSound
        <3> QED BY <3>1, <3>2
    <2> QED BY <2>1
<1>10. TestsSound'
    <2>1. ASSUME NEW u \in Terminal, cmd'[u] = "testing"
          PROVE  u # t /\ cmd[u] = "testing" /\ about'[u] = about[u]
        BY <1>1, <1>2, <2>1
    <2>2. ASSUME NEW u \in Terminal, cmd'[u] = "testing"
          PROVE  trial'[about[u]] = trial[about[u]]
        <3>1. u # t /\ cmd[u] = "testing" BY <2>1, <2>2
        <3>2. about[u] \in Proposal /\ about[u] # p
            BY <3>1 DEF LinesInv, Fits, AboutProposal, p
        <3> QED BY <1>3, <3>2
    <2> QED BY <2>1, <2>2 DEF LinesInv, TestsSound
<1>11. ExportsSound'
    <2>1. p \notin exported BY DEF LinesInv, ExportsSound, p
    <2> QED BY <1>3, <2>1 DEF LinesInv, ExportsSound
<1> QED BY <1>4, <1>5, <1>6, <1>7, <1>8, <1>9, <1>10, <1>11 DEF LinesInv

LEMMA StatusChange ==
    ASSUME LinesInv, NEW p \in Proposal,
           NEW status \in Lines!Verdict \cup {"draft_approved_by_human"}
    PROVE  LET new == [trial[p] EXCEPT !.status = status] IN
           /\ new \in Lines!Trial
           /\ new.failure = trial[p].failure /\ new.draft = trial[p].draft
           /\ new.status = status /\ status # "none"
           /\ [trial EXCEPT ![p].status = status] = [trial EXCEPT ![p] = new]
<1>1. trial \in [Proposal -> Lines!Trial] BY DEF LinesInv, Lines!TypeOK
<1>2. trial[p] \in Lines!Trial BY <1>1
<1> QED BY <1>2 DEF Lines!Trial, Lines!Verdict

LEMMA TestsKeepLines ==
    ASSUME LinesInv, NEW t \in Terminal, NEW v \in Lines!Verdict, Lines!RunTests(t, v)
    PROVE  LinesInv'
<1>1. /\ cmd[t] = "testing" /\ Lines!Ends(t)
      /\ trial' = [trial EXCEPT ![about[t]].status = v]
      /\ UNCHANGED <<records, exported, role, told, raced, governed>>
    BY DEF Lines!RunTests
<1>2. /\ about[t] \in Proposal /\ trial[about[t]].status \in {"sandbox_created", "draft_created"}
      /\ \A u \in Terminal : u # t /\ cmd[u] = "testing" => about[u] # about[t]
    BY <1>1 DEF LinesInv, Fits, AboutProposal, TestsSound
<1> DEFINE new == [trial[about[t]] EXCEPT !.status = v]
<1>3. /\ new \in Lines!Trial /\ new.failure = trial[about[t]].failure
      /\ new.draft = trial[about[t]].draft /\ new.status = v /\ v # "none"
      /\ trial' = [trial EXCEPT ![about[t]] = new]
    BY <1>1, <1>2, StatusChange
<1> HIDE DEF new
<1>4. v # "draft_approved_by_human" BY DEF Lines!Verdict
<1>5. governed \subseteq Report \cup Proposal BY DEF LinesInv, Lines!TypeOK
<1> QED BY <1>1, <1>2, <1>3, <1>4, <1>5, StatusKeepsLines

LEMMA ApproveKeepsLines ==
    ASSUME LinesInv, NEW t \in Terminal, Lines!ApproveProposal(t)
    PROVE  LinesInv'
<1>1. /\ cmd[t] = "approve" /\ Lines!Ends(t)
      /\ trial[about[t]].status = "sandbox_tests_passed" /\ trial[about[t]].draft
      /\ trial' = [trial EXCEPT ![about[t]].status = "draft_approved_by_human"]
      /\ governed' = governed \cup {about[t]}
      /\ UNCHANGED <<records, exported, role, told, raced>>
    BY DEF Lines!ApproveProposal
<1>2. /\ about[t] \in Proposal
      /\ \A u \in Terminal : u # t /\ cmd[u] = "testing" => about[u] # about[t]
    BY <1>1 DEF LinesInv, Fits, AboutProposal, TestsSound
<1> DEFINE new == [trial[about[t]] EXCEPT !.status = "draft_approved_by_human"]
           G == governed \cup {about[t]}
<1>3. /\ new \in Lines!Trial /\ new.failure = trial[about[t]].failure
      /\ new.draft = trial[about[t]].draft /\ new.status = "draft_approved_by_human"
      /\ trial' = [trial EXCEPT ![about[t]] = new]
    BY <1>1, <1>2, StatusChange
<1> HIDE DEF new
<1>4. governed \subseteq G /\ G \subseteq Report \cup Proposal /\ about[t] \in G
    BY <1>2 DEF LinesInv, Lines!TypeOK
<1>5. governed' = G BY <1>1
<1> HIDE DEF G
<1>6. new.draft /\ new.status # "none" BY <1>1, <1>3
<1>7. /\ trial[about[t]].status # "none"
      /\ trial[about[t]].status # "draft_approved_by_human"
    BY <1>1
<1> QED BY <1>1, <1>2, <1>3, <1>4, <1>5, <1>6, <1>7, StatusKeepsLines

LEMMA ExportKeepsLines ==
    ASSUME LinesInv, NEW t \in Terminal, Lines!ExportPatch(t)
    PROVE  LinesInv'
<1>1. /\ cmd \in [Terminal -> Lines!Step] /\ loaded \in [Terminal -> Lines!Reports]
      /\ about \in [Terminal -> Report \cup Proposal \cup {None}]
    BY DEF LinesInv, Lines!TypeOK
<1>2. /\ cmd[t] = "export" /\ trial[about[t]].status = "draft_approved_by_human"
      /\ exported' = exported \cup {about[t]}
      /\ cmd' = [cmd EXCEPT ![t] = "none"] /\ about' = [about EXCEPT ![t] = None]
      /\ loaded' = [loaded EXCEPT ![t] = Lines!NoReports]
      /\ UNCHANGED <<records, trial, role, told, raced, governed>>
    BY DEF Lines!ExportPatch, Lines!Ends
<1>3. about[t] \in Proposal BY <1>2 DEF LinesInv, Fits, AboutProposal
<1>4. Lines!TypeOK'
    <2>1. "none" \in Lines!Step BY DEF Lines!Step
    <2>2. {exported', raced', governed'} \subseteq SUBSET (Report \cup Proposal)
        BY <1>2, <1>3 DEF LinesInv, Lines!TypeOK
    <2> QED BY <1>1, <1>2, <2>1, <2>2, NoReportsQuiet DEF LinesInv, Lines!TypeOK
<1>5. \A u \in Terminal : Fits(cmd[u], about[u])'
    BY <1>1, <1>2 DEF LinesInv, Fits, AboutReport, AboutProposal
<1>6. LoadsCurrent' BY <1>1, <1>2 DEF LinesInv, LoadsCurrent, Lines!Saving
<1>7. Lines!ToldReportsAreKept' BY <1>2 DEF LinesInv, Lines!ToldReportsAreKept
<1>8. ApprovalsGoverned'
    BY <1>1, <1>2 DEF LinesInv, ApprovalsGoverned, NoneUngoverned, Lines!NoReports
<1>9. \A q \in Proposal : TrialSound(q)' BY <1>2 DEF LinesInv, TrialSound
<1>10. TestsSound' BY <1>1, <1>2 DEF LinesInv, TestsSound
<1>11. ExportsSound' BY <1>2, <1>3 DEF LinesInv, ExportsSound
<1> QED BY <1>4, <1>5, <1>6, <1>7, <1>8, <1>9, <1>10, <1>11 DEF LinesInv

LEMMA LinesStep ==
    ASSUME LinesInv, Lines!Next
    PROVE  LinesInv'
<1>1. PICK t \in Terminal :
        \/ \E who \in {"owner", "user"} : Lines!Login(t, who)
        \/ Lines!LosesAuthority(t) \/ Lines!Exits(t)
        \/ \E c \in Lines!Command, x \in Report \cup Proposal : Lines!Enter(t, c, x)
        \/ Lines!GivesUp(t)
        \/ Lines!ReportLoad(t) \/ Lines!ApproveLoad(t)
        \/ Lines!ReportSave(t) \/ Lines!ApproveSave(t)
        \/ \E p \in Proposal : Lines!CreateProposal(t, p)
        \/ \E v \in Lines!Verdict : Lines!RunTests(t, v)
        \/ Lines!ApproveProposal(t) \/ Lines!ExportPatch(t)
    BY DEF Lines!Next
<1>2. role \in [Terminal -> {"none", "owner", "user"}] BY DEF LinesInv, Lines!TypeOK
<1>3. CASE (\E who \in {"owner", "user"} : Lines!Login(t, who)) \/ Lines!LosesAuthority(t)
    BY <1>2, <1>3, LinesStutter DEF Lines!Login, Lines!LosesAuthority, Lines!term
<1>4. CASE Lines!Exits(t) \/ Lines!GivesUp(t)
    <2>1. /\ role' \in [Terminal -> {"none", "owner", "user"}]
          /\ UNCHANGED <<records, trial, exported, told, raced, governed>>
          /\ cmd' = [cmd EXCEPT ![t] = "none"] /\ about' = [about EXCEPT ![t] = None]
          /\ loaded' = [loaded EXCEPT ![t] = Lines!NoReports]
        BY <1>2, <1>4 DEF Lines!Exits, Lines!GivesUp, Lines!Ends
    <2>2. Fits("none", None) BY DEF Fits, AboutReport, AboutProposal
    <2>3. "none" \in Lines!Command \cup {"none"} /\ None \in Report \cup Proposal \cup {None}
        OBVIOUS
    <2> QED BY <2>1, <2>2, <2>3, NoReportsQuiet, QuietKeeps
<1>5. CASE \E c \in Lines!Command, x \in Report \cup Proposal : Lines!Enter(t, c, x)
    <2>1. PICK c \in Lines!Command, x \in Report \cup Proposal : Lines!Enter(t, c, x) BY <1>5
    <2>2. /\ UNCHANGED <<records, trial, exported, role, told, raced, governed>>
          /\ cmd' = [cmd EXCEPT ![t] = c] /\ about' = [about EXCEPT ![t] = x]
          /\ x \in IF c \in {"approve", "export"} THEN Proposal ELSE Report
          /\ loaded' = loaded
        BY <2>1 DEF Lines!Enter
    <2>3. Fits(c, x)
        BY <2>2 DEF Fits, AboutReport, AboutProposal, Lines!Command, Lines!Governed
    <2>4. loaded \in [Terminal -> Lines!Reports] /\ NoneUngoverned(loaded[t])
        BY DEF LinesInv, Lines!TypeOK, ApprovalsGoverned
    <2>5. loaded[t] \in Lines!Reports /\ loaded' = [loaded EXCEPT ![t] = loaded[t]]
        BY <2>2, <2>4
    <2>6. /\ c \in Lines!Command \cup {"none"} /\ x \in Report \cup Proposal \cup {None}
          /\ role' \in [Terminal -> {"none", "owner", "user"}]
        BY <1>2, <2>2
    <2> QED BY <2>2, <2>3, <2>4, <2>5, <2>6, QuietKeeps
<1>6. CASE Lines!ReportLoad(t) \/ Lines!ApproveLoad(t) BY <1>6, LoadKeepsLines
<1>7. CASE Lines!ReportSave(t)
    <2>1. t \in Lines!Saving /\ Lines!SaveAs(t, "pending") /\ governed' = governed
        BY <1>7 DEF Lines!ReportSave, Lines!Saving
    <2>2. "pending" \in {"pending", "approved"} /\ "pending" # "approved" OBVIOUS
    <2> QED BY <2>1, <2>2, SaveKeepsLines
<1>8. CASE Lines!ApproveSave(t)
    <2>1. /\ t \in Lines!Saving /\ Lines!SaveAs(t, "approved")
          /\ governed' = governed \cup {about[t]}
        BY <1>8 DEF Lines!ApproveSave, Lines!Saving
    <2>2. "approved" \in {"pending", "approved"} OBVIOUS
    <2> QED BY <2>1, <2>2, SaveKeepsLines
<1>9. CASE \E p \in Proposal : Lines!CreateProposal(t, p) BY <1>9, CreateKeepsLines
<1>10. CASE \E v \in Lines!Verdict : Lines!RunTests(t, v) BY <1>10, TestsKeepLines
<1>11. CASE Lines!ApproveProposal(t) BY <1>11, ApproveKeepsLines
<1>12. CASE Lines!ExportPatch(t) BY <1>12, ExportKeepsLines
<1> QED BY <1>1, <1>3, <1>4, <1>5, <1>6, <1>7, <1>8, <1>9, <1>10, <1>11, <1>12

LEMMA LinesSafe ==
    ASSUME LinesInv
    PROVE  Lines!ToldReportsAreKept /\ Lines!OnlyGovernedPatchesLeave
<1>1. Lines!ToldReportsAreKept BY DEF LinesInv
<1>2. Lines!OnlyGovernedPatchesLeave
    BY DEF LinesInv, ExportsSound, TrialSound, Lines!OnlyGovernedPatchesLeave
<1> QED BY <1>1, <1>2

-----------------------------------------------------------------------------
(* The choice of memories.  A form that did not fit when its memory was     *)
(* placed fits no better later, because what is used only grows.            *)

Lengths == \A i \in Plans!Item : \A n \in 0 .. 3 :
    /\ Plans!Length(i, n) \in Nat
    /\ n < 3 => Plans!Length(i, n) <= Plans!Length(i, n + 1)

Settled(i) ==
    level[i] < Plans!Desired(memories, i) =>
        used + Plans!Length(i, level[i] + 1) > budget + Plans!Length(i, level[i])

PlansInv ==
    /\ Plans!TypeOK
    /\ used <= budget
    /\ \A i \in Plans!Item : level[i] > 0 =>
        memories[i].usable /\ level[i] <= Plans!Desired(memories, i)
    /\ todo \subseteq Plans!Ranked(memories)
    /\ \A i \in Plans!Ranked(memories) \ todo : Settled(i)

LEMMA DesiredIsAForm == \A m, i : Plans!Desired(m, i) \in {1, 2, 3}
BY DEF Plans!Desired

LEMMA RankedIsUsable ==
    ASSUME NEW i \in Plans!Ranked(memories)
    PROVE  i \in Plans!Item /\ memories[i].usable
BY DEF Plans!Ranked, Plans!Found

LEMMA LengthsFit ==
    ASSUME Plans!ConstantsFit, Plans!TypeOK
    PROVE  Lengths
<1> SUFFICES ASSUME NEW i \in Plans!Item, NEW n \in 0 .. 3
             PROVE  /\ Plans!Length(i, n) \in Nat
                    /\ n < 3 => Plans!Length(i, n) <= Plans!Length(i, n + 1)
    BY DEF Lengths
<1>1. memories[i].size \in Sizes BY DEF Plans!TypeOK, Plans!Memory
<1> DEFINE z == memories[i].size
<1>2. z \in [1 .. 3 -> Nat \ {0}] /\ z[1] <= z[2] /\ z[2] <= z[3]
    BY <1>1 DEF Plans!ConstantsFit
<1>3. \A k \in 0 .. 3 : Plans!Length(i, k) = IF k = 0 THEN 0 ELSE z[k] BY DEF Plans!Length
<1> HIDE DEF z
<1>4. z[1] \in Nat /\ z[2] \in Nat /\ z[3] \in Nat BY <1>2
<1>5. n = 0 \/ n = 1 \/ n = 2 \/ n = 3 OBVIOUS
<1>6. /\ Plans!Length(i, 0) = 0 /\ Plans!Length(i, 1) = z[1]
      /\ Plans!Length(i, 2) = z[2] /\ Plans!Length(i, 3) = z[3]
    BY <1>3
<1> QED BY <1>2, <1>4, <1>5, <1>6

\* The form that is given fits, and the next one does not.
LEMMA FittingIsLargest ==
    ASSUME Plans!ConstantsFit, PlansInv, NEW i \in Plans!Item
    PROVE  LET n == Plans!Fitting(i) IN
           /\ n \in 0 .. Plans!Desired(memories, i)
           /\ used + Plans!Length(i, n) <= budget
           /\ n < Plans!Desired(memories, i) => used + Plans!Length(i, n + 1) > budget
<1> DEFINE d == Plans!Desired(memories, i)
           fits == {n \in 0 .. d : used + Plans!Length(i, n) <= budget}
           n == Plans!Fitting(i)
<1>1. d \in {1, 2, 3} BY DesiredIsAForm
<1>2. used \in Nat /\ budget \in Nat /\ used <= budget
    BY DEF PlansInv, Plans!TypeOK, Plans!ConstantsFit
<1>3. Lengths BY LengthsFit DEF PlansInv
<1>4. \A k \in 0 .. 3 : Plans!Length(i, k) \in Nat BY <1>3 DEF Lengths
<1>5. Plans!Length(i, 0) = 0 BY DEF Plans!Length
<1> HIDE DEF d
<1>6. 0 \in fits /\ fits \subseteq 0 .. 3 BY <1>1, <1>2, <1>5
<1>7. n = CHOOSE k \in fits : \A o \in fits : o <= k BY DEF Plans!Fitting, d
<1> HIDE DEF fits, n
<1>8. \E k \in fits : \A o \in fits : o <= k
    <2>1. CASE 3 \in fits BY <1>6, <2>1
    <2>2. CASE 3 \notin fits /\ 2 \in fits BY <1>6, <2>2
    <2>3. CASE 3 \notin fits /\ 2 \notin fits /\ 1 \in fits BY <1>6, <2>3
    <2>4. CASE 3 \notin fits /\ 2 \notin fits /\ 1 \notin fits BY <1>6, <2>4
    <2> QED BY <2>1, <2>2, <2>3, <2>4
<1>9. n \in fits /\ \A o \in fits : o <= n BY <1>7, <1>8
<1>10. n \in 0 .. d /\ used + Plans!Length(i, n) <= budget BY <1>9 DEF fits
<1>11. ASSUME n < d PROVE used + Plans!Length(i, n + 1) > budget
    <2>1. n \in 0 .. 3 /\ n + 1 \in 0 .. d /\ n + 1 \in 0 .. 3 BY <1>1, <1>10, <1>11
    <2>2. n + 1 \notin fits BY <1>9, <2>1
    <2>3. Plans!Length(i, n + 1) \in Nat BY <1>4, <2>1
    <2>4. ~(used + Plans!Length(i, n + 1) <= budget) BY <2>1, <2>2 DEF fits
    <2> QED BY <1>2, <2>3, <2>4
<1> QED BY <1>10, <1>11 DEF n, d

LEMMA PlansInitial ==
    ASSUME Plans!ConstantsFit, Plans!Init
    PROVE  PlansInv
<1>1. Plans!TypeOK
    <2>1. todo \subseteq Plans!Item BY DEF Plans!Init, Plans!Ranked, Plans!Found
    <2> QED BY <2>1 DEF Plans!Init, Plans!TypeOK
<1>2. used <= budget BY DEF Plans!Init, Plans!ConstantsFit
<1> QED BY <1>1, <1>2 DEF Plans!Init, PlansInv

LEMMA PlansStep ==
    ASSUME Plans!ConstantsFit, PlansInv, Plans!Next
    PROVE  PlansInv'
<1>1. PICK i \in Plans!Item : Plans!Place(i) BY DEF Plans!Next
<1> DEFINE n == Plans!Fitting(i)
           d == Plans!Desired(memories, i)
<1>2. /\ i \in todo /\ level' = [level EXCEPT ![i] = n]
      /\ used' = used + Plans!Length(i, n) /\ todo' = todo \ {i}
      /\ memories' = memories /\ budget' = budget
    BY <1>1 DEF Plans!Place
<1>3. /\ n \in 0 .. d /\ used + Plans!Length(i, n) <= budget
      /\ n < d => used + Plans!Length(i, n + 1) > budget
    BY FittingIsLargest
<1>4. d \in {1, 2, 3} BY DesiredIsAForm
<1> HIDE DEF n, d
<1>5. Lengths BY LengthsFit DEF PlansInv
<1>6. n \in 0 .. 3 /\ Plans!Length(i, n) \in Nat
    <2>1. n \in 0 .. 3 BY <1>3, <1>4
    <2> QED BY <1>5, <2>1 DEF Lengths
<1>7. /\ used \in Nat /\ budget \in Nat /\ level \in [Plans!Item -> 0 .. 3]
    BY DEF PlansInv, Plans!TypeOK, Plans!ConstantsFit
<1>8. used' \in Nat /\ used <= used' /\ used' <= budget BY <1>2, <1>3, <1>6, <1>7
<1>9. \A j \in Plans!Item : level'[j] = IF j = i THEN n ELSE level[j] BY <1>2, <1>7
<1>10. Plans!TypeOK' BY <1>2, <1>6, <1>8 DEF PlansInv, Plans!TypeOK
<1>11. /\ Plans!Ranked(memories)' = Plans!Ranked(memories)
       /\ \A j \in Plans!Item : Plans!Desired(memories, j)' = Plans!Desired(memories, j)
       /\ \A j \in Plans!Item, k \in 0 .. 3 : Plans!Length(j, k)' = Plans!Length(j, k)
    BY <1>2 DEF Plans!Ranked, Plans!Found, Plans!Better, Plans!Newer, Plans!Desired, Plans!Length
<1>12. i \in Plans!Ranked(memories) BY <1>2 DEF PlansInv
<1>13. ASSUME NEW j \in Plans!Item, level'[j] > 0
       PROVE  memories'[j].usable /\ level'[j] <= Plans!Desired(memories, j)'
    <2>1. CASE j = i
        <3>1. memories[i].usable BY <1>12, RankedIsUsable
        <3>2. n <= d BY <1>3, <1>4
        <3> QED BY <1>2, <1>9, <1>11, <2>1, <3>1, <3>2 DEF d
    <2>2. CASE j # i BY <1>2, <1>9, <1>11, <1>13, <2>2 DEF PlansInv
    <2> QED BY <2>1, <2>2
<1>14. ASSUME NEW j \in Plans!Ranked(memories), j \notin todo' PROVE Settled(j)'
    <2>1. j \in Plans!Item BY RankedIsUsable
    <2>2. CASE j = i
        <3>1. SUFFICES ASSUME n < d
                       PROVE  used' + Plans!Length(i, n + 1) > budget + Plans!Length(i, n)
            <4>1. level'[j] = n BY <1>9, <2>1, <2>2
            <4>2. n < d => n \in 0 .. 3 /\ n + 1 \in 0 .. 3 BY <1>3, <1>4
            <4>3. n < d => /\ Plans!Length(j, level[j])' = Plans!Length(i, n)
                           /\ Plans!Length(j, level[j] + 1)' = Plans!Length(i, n + 1)
                BY <1>2, <2>2, <4>1, <4>2 DEF Plans!Length
            <4>4. Plans!Desired(memories, j)' = d BY <1>11, <2>1, <2>2 DEF d
            <4> QED BY <1>2, <3>1, <4>1, <4>3, <4>4 DEF Settled
        <3>2. n + 1 \in 0 .. 3 BY <1>3, <1>4, <3>1
        <3>3. Plans!Length(i, n + 1) \in Nat BY <1>5, <3>2 DEF Lengths
        <3>4. used + Plans!Length(i, n + 1) > budget BY <1>3, <3>1
        <3> QED BY <1>2, <1>6, <1>7, <3>3, <3>4
    <2>3. CASE j # i
        <3>1. Settled(j) BY <1>2, <1>14, <2>3 DEF PlansInv
        <3>2. level'[j] = level[j] BY <1>9, <2>1, <2>3
        <3> DEFINE k == level[j]
                   a == Plans!Length(j, level[j])
                   b == Plans!Length(j, level[j] + 1)
                   e == Plans!Desired(memories, j)
        <3>3. /\ Plans!Length(j, level[j])' = a /\ Plans!Length(j, level[j] + 1)' = b
              /\ Plans!Desired(memories, j)' = e
            BY <1>2, <3>2 DEF Plans!Length, Plans!Desired
        <3>4. e \in {1, 2, 3} /\ k \in 0 .. 3 BY <1>7, <2>1, DesiredIsAForm
        <3>5. k < e => a \in Nat /\ b \in Nat
            <4>1. k < e => k + 1 \in 0 .. 3
                <5> HIDE DEF k, e
                <5> QED BY <3>4
            <4> QED BY <1>5, <2>1, <3>4, <4>1 DEF Lengths
        <3>6. k < e => used + b > budget + a BY <3>1 DEF Settled
        <3> HIDE DEF k, a, b, e
        <3>7. k < e => used' + b > budget + a BY <1>7, <1>8, <3>5, <3>6
        <3>8. level'[j] < Plans!Desired(memories, j)' =>
                used' + Plans!Length(j, level[j] + 1)' > budget' + Plans!Length(j, level[j])'
            BY <1>2, <3>2, <3>3, <3>7 DEF k
        <3> QED BY <3>8 DEF Settled
    <2> QED BY <2>2, <2>3
<1>15. todo' \subseteq Plans!Ranked(memories)' BY <1>2, <1>11 DEF PlansInv
<1> QED BY <1>2, <1>8, <1>10, <1>11, <1>13, <1>14, <1>15 DEF PlansInv

LEMMA PlansSafe ==
    ASSUME Plans!ConstantsFit, PlansInv
    PROVE  Plans!PlanIsMaximal
<1>1. ASSUME todo = {}, NEW i \in Plans!Ranked(memories),
             level[i] < Plans!Desired(memories, i)
      PROVE  used + Plans!Length(i, level[i] + 1) - Plans!Length(i, level[i]) > budget
    <2>1. i \in Plans!Item BY RankedIsUsable
    <2>2. level[i] \in 0 .. 3 BY <2>1 DEF PlansInv, Plans!TypeOK
    <2>3. level[i] + 1 \in 0 .. 3 BY <1>1, <2>2, DesiredIsAForm
    <2>4. Lengths BY LengthsFit DEF PlansInv
    <2> DEFINE a == Plans!Length(i, level[i])
               b == Plans!Length(i, level[i] + 1)
    <2>5. a \in Nat /\ b \in Nat BY <2>1, <2>2, <2>3, <2>4 DEF Lengths
    <2>6. used + b > budget + a BY <1>1 DEF PlansInv, Settled
    <2>7. used \in Nat /\ budget \in Nat BY DEF PlansInv, Plans!TypeOK, Plans!ConstantsFit
    <2> HIDE DEF a, b
    <2>8. used + b - a > budget BY <2>5, <2>6, <2>7
    <2> QED BY <2>8 DEF a, b
<1> QED BY <1>1 DEF PlansInv, Plans!PlanIsMaximal

-----------------------------------------------------------------------------
(* All parts together.                                                     *)

Inv == ChatsInv /\ ForgeInv /\ LinesInv /\ (part = "plans" => PlansInv)

LEMMA Initial == Init => Inv
BY ConstantsAssumption, ChatsInitial, ForgeInitial, LinesInitial, PlansInitial DEF Init, Inv

LEMMA Inductive == Inv /\ [Next]_<<part, chats, forge, lines, plans>> => Inv'
<1> SUFFICES ASSUME Inv, [Next]_<<part, chats, forge, lines, plans>> PROVE Inv' OBVIOUS
<1>1. Chats!Next \/ UNCHANGED chats BY DEF Next
<1>2. Forge!Next \/ UNCHANGED forge BY DEF Next
<1>3. Lines!Next \/ UNCHANGED lines BY DEF Next
<1>4. ChatsInv' BY <1>1, ConstantsAssumption, ChatsStep, ChatsStutter DEF Inv
<1>5. ForgeInv' BY <1>2, ConstantsAssumption, ForgeStep DEF Inv
<1>6. LinesInv'
    <2>1. CASE Lines!Next BY <2>1, LinesStep DEF Inv
    <2>2. CASE UNCHANGED lines
        <3>1. role \in [Terminal -> {"none", "owner", "user"}]
            BY DEF Inv, LinesInv, Lines!TypeOK
        <3> QED BY <2>2, <3>1, LinesStutter DEF Inv, lines
    <2> QED BY <1>3, <2>1, <2>2
<1>7. part' = "plans" => PlansInv'
    <2> SUFFICES ASSUME part' = "plans" PROVE PlansInv' OBVIOUS
    <2>1. part = "plans" /\ (Plans!Next \/ UNCHANGED plans) BY DEF Next
    <2>2. CASE Plans!Next BY <2>1, <2>2, ConstantsAssumption, PlansStep DEF Inv
    <2>3. CASE UNCHANGED plans
        <3>1. UNCHANGED <<memories, budget, level, todo, used>> BY <2>3 DEF plans
        <3>2. PlansInv BY <2>1 DEF Inv
        <3>3. Plans!Ranked(memories)' = Plans!Ranked(memories)
            BY <3>1 DEF Plans!Ranked, Plans!Found, Plans!Better, Plans!Newer
        <3>4. \A i : Plans!Desired(memories, i)' = Plans!Desired(memories, i)
            BY <3>1 DEF Plans!Desired
        <3>5. \A i : Settled(i)' = Settled(i)
            BY <3>1, <3>4 DEF Settled, Plans!Length
        <3>6. Plans!TypeOK' BY <3>1, <3>2 DEF PlansInv, Plans!TypeOK
        <3> QED BY <3>1, <3>2, <3>3, <3>4, <3>5, <3>6 DEF PlansInv
    <2> QED BY <2>1, <2>2, <2>3
<1> QED BY <1>4, <1>5, <1>6, <1>7 DEF Inv

\* Every state satisfies the invariant of each part.
THEOREM Invariance == Spec => []Inv
BY Initial, Inductive, PTL DEF Spec

\* Two turns in flight never overfill a session, nor two requests an account,
\* however they interleave.
THEOREM Loadable == Spec => []DocumentStaysLoadable
<1>1. Inv => DocumentStaysLoadable BY ChatsSafe DEF Inv, DocumentStaysLoadable
<1> QED BY <1>1, Invariance, PTL

\* Every reply was made from whole turns that are the beginning of its session.
THEOREM WholeTurnsSeen == Spec => []RepliesSeeWholeTurns
<1>1. Inv => RepliesSeeWholeTurns BY ChatsSafe DEF Inv, RepliesSeeWholeTurns
<1> QED BY <1>1, Invariance, PTL

\* No message is taken away, and an archived session stays as it was.
THEOREM OnlyGrow == Spec => ConversationsOnlyGrow
<1>1. Inv /\ [Next]_<<part, chats, forge, lines, plans>> => [Grows]_chat
    <2> SUFFICES ASSUME Inv, [Next]_<<part, chats, forge, lines, plans>> PROVE [Grows]_chat
        OBVIOUS
    <2>1. Chats!Next \/ UNCHANGED chats BY DEF Next
    <2>2. CASE Chats!Next BY <2>2, ConstantsAssumption, ChatsStep DEF Inv
    <2>3. CASE UNCHANGED chats BY <2>3 DEF chats
    <2> QED BY <2>1, <2>2, <2>3
<1> QED BY <1>1, Invariance, PTL DEF Spec, ConversationsOnlyGrow, Chats!ConversationsOnlyGrow, Grows

\* Points, quests and companion agree for every student, whichever copies
\* overtook each other.
THEOREM AddsUp == Spec => []ProgressAddsUp
<1>1. Inv => ProgressAddsUp
    BY SoundAddsUp DEF Inv, ForgeInv, RecordsSound, ProgressAddsUp, Forge!ProgressAddsUp
<1> QED BY <1>1, Invariance, PTL

\* What was reached without an overlapping request is never lost.
THEOREM CalmProgressKept == Spec => []CalmProgressIsKept
<1>1. Inv => CalmProgressIsKept BY DEF Inv, ForgeInv, CalmProgressIsKept
<1> QED BY <1>1, Invariance, PTL

\* What a terminal said of a report stays true unless another one raced it.
THEOREM ReportsKept == Spec => []ToldReportsAreKept
<1>1. Inv => ToldReportsAreKept BY LinesSafe DEF Inv, ToldReportsAreKept
<1> QED BY <1>1, Invariance, PTL

\* Only drafts of approved reports, tested and approved, are exported.
THEOREM PatchesGoverned == Spec => []OnlyGovernedPatchesLeave
<1>1. Inv => OnlyGovernedPatchesLeave BY LinesSafe DEF Inv, OnlyGovernedPatchesLeave
<1> QED BY <1>1, Invariance, PTL

\* The plan keeps its budget and shows each memory as largely as fits.
THEOREM PlanMaximal == Spec => []PlanIsMaximal
<1>1. Inv => PlanIsMaximal BY ConstantsAssumption, PlansSafe DEF Inv, PlanIsMaximal
<1> QED BY <1>1, Invariance, PTL
=============================================================================
