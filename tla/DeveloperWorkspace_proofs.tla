----------------------- MODULE DeveloperWorkspace_proofs -----------------------
(* Theorems about the developer workspaces, for every set of workspaces,   *)
(* paths and contents and every bound.                                     *)
EXTENDS DeveloperWorkspace, FiniteSetTheorems, TLAPS

\* The variables always have the types the code gives them.
THEOREM TypeCorrect == Spec => []TypeOK
<1> USE ConstantsAssumption DEF FileVal
<1>1. Init => TypeOK
  BY DEF Init, TypeOK, NoFile, State, Step
<1>2. TypeOK /\ [Next]_vars => TypeOK'
  <2> SUFFICES ASSUME TypeOK, [Next]_vars PROVE TypeOK'
    OBVIOUS
  <2> USE DEF TypeOK, Begin, End, Forget, NoFile, Only, State, Step, disk, memory,
              project, budget
  <2>1. ASSUME NEW w \in Workspace, NEW scope \in SUBSET Path, CreateCopy(w, scope)
        PROVE TypeOK'
    BY <2>1 DEF CreateCopy
  <2>2. CASE CreateCapture
    BY <2>2 DEF CreateCapture
  <2>3. ASSUME NEW w \in Workspace, NEW paths \in SUBSET Path,
               NEW new \in [Path -> FileVal], ExecuteStart(w, paths, new)
        PROVE TypeOK'
    BY <2>3 DEF ExecuteStart
  <2>4. ASSUME NEW p \in Path, ExecuteEdit(p)
        PROVE TypeOK'
    BY <2>4 DEF ExecuteEdit
  <2>5. ASSUME NEW p \in Path, ExecuteNoOp(p)
        PROVE TypeOK'
    BY <2>5 DEF ExecuteNoOp
  <2>6. CASE ExecuteSnapshot
    BY <2>6 DEF ExecuteSnapshot
  <2>7. ASSUME NEW outcome \in TestOutcome, ExecuteRecord(outcome)
        PROVE TypeOK'
    BY <2>7 DEF ExecuteRecord, TestOutcome
  <2>8. ASSUME NEW w \in Workspace, ApplyStart(w)
        PROVE TypeOK'
    BY <2>8 DEF ApplyStart, ValidForApply
  <2>9. ASSUME NEW p \in Path, ApplyBackup(p)
        PROVE TypeOK'
    BY <2>9 DEF ApplyBackup, Visit
  <2>10. ASSUME NEW p \in Path, ApplyReplace(p)
         PROVE TypeOK'
    BY <2>10 DEF ApplyReplace, Visit
  <2>11. ASSUME NEW p \in Path, ApplyMismatch(p)
         PROVE TypeOK'
    <3>1. cur \in Workspace /\ Proposed(p) \in FileVal
      BY <2>11 DEF ApplyMismatch, Proposed
    <3>2. CASE Proposed(p) = Absent
      BY <2>11, <3>2 DEF ApplyMismatch
    <3>3. CASE Proposed(p) # Absent
      <4>1. /\ live' = [live EXCEPT ![p] = Proposed(p)]
            /\ author' = [author EXCEPT ![p] = cur]
        BY <2>11, <3>3 DEF ApplyMismatch
      <4>2. live' \in [Path -> FileVal] /\ author' \in [Path -> Workspace \cup {Nobody}]
        BY <3>1, <4>1
      <4>3. QED
        BY <2>11, <4>2 DEF ApplyMismatch
    <3>4. QED
      BY <3>2, <3>3
  <2>12. CASE ApplyCommit
    BY <2>12 DEF ApplyCommit
  <2>13. CASE ApplyRefuted
    BY <2>13 DEF ApplyRefuted
  <2>14. ASSUME NEW p \in Path, Restore(p)
         PROVE TypeOK'
    BY <2>14 DEF Restore, Visit
  <2>15. ASSUME NEW w \in Workspace, RollbackStart(w)
         PROVE TypeOK'
    BY <2>15 DEF RollbackStart
  <2>16. ASSUME NEW p \in Path, Rollback(p)
         PROVE TypeOK'
    BY <2>16 DEF Rollback, Visit
  <2>17. CASE RollbackCommit
    BY <2>17 DEF RollbackCommit
  <2>18. CASE RollbackRefuted
    BY <2>18 DEF RollbackRefuted
  <2>19. CASE Failure
    BY <2>19 DEF Failure, OperationFails, ApplyFails, RestoreFails,
                 RollbackFails, Crash, Fault, AbortedBy
  <2>20. ASSUME NEW p \in Path, NEW v \in FileVal, LiveEdit(p, v)
         PROVE TypeOK'
    BY <2>20 DEF LiveEdit, Touch
  <2>21. ASSUME NEW p \in Path, NEW v \in FileVal, NEW w \in Workspace,
                WorktreeEdit(w, p, v)
         PROVE TypeOK'
    BY <2>21 DEF WorktreeEdit, Touch
  <2>22. CASE UNCHANGED vars
    BY <2>22 DEF vars
  <2>23. QED
    BY <2>1, <2>2, <2>3, <2>4, <2>5, <2>6, <2>7, <2>8, <2>9, <2>10, <2>11,
       <2>12, <2>13, <2>14, <2>15, <2>16, <2>17, <2>18, <2>19, <2>20, <2>21,
       <2>22
       DEF Next, Request, Create, Execute, Record, PathStep, StoreStep, Editor
<1>3. QED
  BY <1>1, <1>2, PTL DEF Spec

-----------------------------------------------------------------------------
(* The inductive invariant.                                                *)

\* The operation in progress and the state saved for its workspace.
OperationInv ==
    /\ pc \in {"edit", "test"} =>
          /\ state[cur] = "scope_approved"
          /\ plan \subseteq allowed[cur]
    /\ pc = "edit" => todo \subseteq plan
    /\ pc = "capture" => state[cur] = "creating"
    /\ pc \in {"backup", "replace", "verify", "restore"} => state[cur] = "tests_passed"
    /\ pc \in {"undo", "undone"} => state[cur] = "applied"
    /\ pc \in {"backup", "replace", "restore", "undo"} => todo \subseteq changed[cur]
    /\ pc \in {"verify", "undone"} => todo = {}

ScopeInv ==
    \A w \in Workspace :
        state[w] \in {"tests_passed", "applied"} => changed[w] \subseteq allowed[w]

\* What the files of the workspace at work hold, path by path, unless a
\* person edited the path meanwhile.
BackingUp(p) ==
    /\ live[p] = base[cur][p]
    /\ worktree[cur][p] = tested[cur][p]
    /\ p \notin todo => backup[cur][p] = base[cur][p]

Replacing(p) ==
    /\ live[p] = IF p \in todo THEN base[cur][p] ELSE tested[cur][p]
    /\ worktree[cur][p] = tested[cur][p]
    /\ backup[cur][p] = base[cur][p]

Verifying(p) ==
    /\ live[p] = tested[cur][p]
    /\ backup[cur][p] = base[cur][p]

Restoring(p) ==
    /\ live[p] \in {base[cur][p], tested[cur][p]}
    /\ backup[cur][p] = base[cur][p]
    /\ p \notin todo => live[p] = base[cur][p]

FileInv ==
    \A p \in Path \ raced :
        /\ pc = "backup" /\ p \in changed[cur] => BackingUp(p)
        /\ pc = "replace" /\ p \in changed[cur] => Replacing(p)
        /\ pc = "verify" /\ p \in changed[cur] => Verifying(p)
        /\ pc = "restore" /\ p \in changed[cur] => Restoring(p)
        /\ pc = "undo" /\ p \in todo => live[p] = tested[cur][p]

\* A path that rollback or restore_all has done is no longer its workspace's.
ReturnedInv ==
    pc \in {"undo", "undone", "restore"} =>
        \A p \in changed[cur] \ todo : author[p] # cur

Inv ==
    /\ TypeOK
    /\ OperationInv
    /\ ScopeInv
    /\ FileInv
    /\ ReturnedInv
    /\ OnlyTestedCodeIsLive

\* Every step keeps the operation, its loop and the saved state in agreement.
LEMMA OperationStep ==
    ASSUME TypeOK, OperationInv, ScopeInv, [Next]_vars
    PROVE  OperationInv' /\ ScopeInv'
<1> USE DEF TypeOK, OperationInv, ScopeInv, Begin, End, Forget, disk, memory, project,
            budget, State, Step
<1>1. ASSUME NEW w \in Workspace, NEW scope \in SUBSET Path, CreateCopy(w, scope)
      PROVE OperationInv' /\ ScopeInv'
  BY <1>1 DEF CreateCopy
<1>2. CASE CreateCapture
  BY <1>2 DEF CreateCapture
<1>3. ASSUME NEW w \in Workspace, NEW paths \in SUBSET Path,
             NEW new \in [Path -> FileVal], ExecuteStart(w, paths, new)
      PROVE OperationInv' /\ ScopeInv'
  BY <1>3 DEF ExecuteStart, ValidPlan
<1>4. ASSUME NEW p \in Path, ExecuteEdit(p)
      PROVE OperationInv' /\ ScopeInv'
  BY <1>4 DEF ExecuteEdit
<1>5. ASSUME NEW p \in Path, ExecuteNoOp(p)
      PROVE OperationInv' /\ ScopeInv'
  BY <1>5 DEF ExecuteNoOp
<1>6. CASE ExecuteSnapshot
  BY <1>6 DEF ExecuteSnapshot
<1>7. ASSUME NEW outcome \in TestOutcome, ExecuteRecord(outcome)
      PROVE OperationInv' /\ ScopeInv'
  BY <1>7 DEF ExecuteRecord, TestOutcome
<1>8. ASSUME NEW w \in Workspace, ApplyStart(w)
      PROVE OperationInv' /\ ScopeInv'
  BY <1>8 DEF ApplyStart, ValidForApply
<1>9. ASSUME NEW p \in Path, ApplyBackup(p)
      PROVE OperationInv' /\ ScopeInv'
  BY <1>9 DEF ApplyBackup, Visit
<1>10. ASSUME NEW p \in Path, ApplyReplace(p)
      PROVE OperationInv' /\ ScopeInv'
  BY <1>10 DEF ApplyReplace, Visit
<1>11. ASSUME NEW p \in Path, ApplyMismatch(p)
      PROVE OperationInv' /\ ScopeInv'
  BY <1>11 DEF ApplyMismatch, Proposed
<1>12. CASE ApplyCommit
  BY <1>12 DEF ApplyCommit
<1>13. CASE ApplyRefuted
  BY <1>13 DEF ApplyRefuted
<1>14. ASSUME NEW p \in Path, Restore(p)
      PROVE OperationInv' /\ ScopeInv'
  BY <1>14 DEF Restore, Visit
<1>15. ASSUME NEW w \in Workspace, RollbackStart(w)
      PROVE OperationInv' /\ ScopeInv'
  BY <1>15 DEF RollbackStart
<1>16. ASSUME NEW p \in Path, Rollback(p)
      PROVE OperationInv' /\ ScopeInv'
  BY <1>16 DEF Rollback, Visit
<1>17. CASE RollbackCommit
  BY <1>17 DEF RollbackCommit
<1>18. CASE RollbackRefuted
  BY <1>18 DEF RollbackRefuted
<1>19. CASE Failure
  BY <1>19 DEF Failure, OperationFails, ApplyFails, RestoreFails,
               RollbackFails, Crash, Fault, AbortedBy
<1>20. ASSUME NEW p \in Path, NEW v \in FileVal, LiveEdit(p, v)
      PROVE OperationInv' /\ ScopeInv'
  BY <1>20 DEF LiveEdit, Touch
<1>21. ASSUME NEW p \in Path, NEW v \in FileVal, NEW w \in Workspace,
              WorktreeEdit(w, p, v)
      PROVE OperationInv' /\ ScopeInv'
  BY <1>21 DEF WorktreeEdit, Touch
<1>22. CASE UNCHANGED vars
  BY <1>22 DEF vars
<1>23. QED
  BY <1>1, <1>2, <1>3, <1>4, <1>5, <1>6, <1>7, <1>8, <1>9, <1>10, <1>11, <1>12, <1>13, <1>14, <1>15, <1>16, <1>17, <1>18, <1>19, <1>20, <1>21, <1>22
     DEF Next, Request, Create, Execute, Record, PathStep, StoreStep, Editor

\* Every step keeps the account of what the files hold.
LEMMA FileStep ==
    ASSUME TypeOK, TypeOK', OperationInv, OperationInv', FileInv, [Next]_vars
    PROVE  FileInv'
<1> USE DEF TypeOK, FileInv, BackingUp, Replacing, Verifying, Restoring,
            Begin, End, Forget, disk, memory, project, budget
<1>1. CASE pc' \notin {"backup", "replace", "verify", "restore", "undo"}
  BY <1>1
<1>2. CASE pc' \in {"backup", "replace", "verify", "restore", "undo"}
  <2> USE <1>2
  <2>1. ASSUME NEW w \in Workspace, ApplyStart(w)
        PROVE FileInv'
    BY <2>1 DEF ApplyStart, ValidForApply
  <2>2. ASSUME NEW p \in Path, ApplyBackup(p)
        PROVE FileInv'
    BY <2>2 DEF ApplyBackup, Visit, OperationInv
  <2>3. ASSUME NEW p \in Path, ApplyReplace(p)
        PROVE FileInv'
    BY <2>3 DEF ApplyReplace, Visit, OperationInv
  <2>4. ASSUME NEW p \in Path, ApplyMismatch(p)
        PROVE FileInv'
    BY <2>4 DEF ApplyMismatch, Proposed, OperationInv
  <2>5. CASE ApplyRefuted
    BY <2>5 DEF ApplyRefuted
  <2>6. ASSUME NEW p \in Path, Restore(p)
        PROVE FileInv'
    BY <2>6 DEF Restore, Visit, OperationInv
  <2>7. ASSUME NEW w \in Workspace, RollbackStart(w)
        PROVE FileInv'
    BY <2>7 DEF RollbackStart
  <2>8. ASSUME NEW p \in Path, Rollback(p)
        PROVE FileInv'
    BY <2>8 DEF Rollback, Visit, OperationInv
  <2>9. CASE ApplyFails
    BY <2>9 DEF ApplyFails, Fault, OperationInv
  <2>10. ASSUME NEW p \in Path, NEW v \in FileVal, LiveEdit(p, v)
         PROVE FileInv'
    BY <2>10 DEF LiveEdit, Touch
  <2>11. ASSUME NEW p \in Path, NEW v \in FileVal, NEW w \in Workspace,
                WorktreeEdit(w, p, v)
         PROVE FileInv'
    BY <2>11 DEF WorktreeEdit, Touch
  <2>12. CASE UNCHANGED vars
    BY <2>12 DEF vars
  <2>13. QED
    BY <2>1, <2>2, <2>3, <2>4, <2>5, <2>6, <2>7, <2>8, <2>9, <2>10, <2>11, <2>12
       DEF Next, Request, Create, CreateCopy, CreateCapture, Execute,
           ExecuteStart, Record, ExecuteRecord, PathStep, ExecuteEdit,
           ExecuteNoOp, ExecuteSnapshot, StoreStep, ApplyCommit, RollbackCommit,
           RollbackRefuted, Failure, OperationFails, RestoreFails,
           RollbackFails, Crash, Editor
<1>3. QED
  BY <1>1, <1>2

\* No step makes a live file a workspace's but with tested content, and the
\* steps of a rollback or a restore take it back from the workspace.
LEMMA AuthorStep ==
    ASSUME Inv, TypeOK', OperationInv', [Next]_vars
    PROVE  ReturnedInv' /\ OnlyTestedCodeIsLive'
<1> USE ConstantsAssumption
    DEF Inv, TypeOK, ReturnedInv, OnlyTestedCodeIsLive,
        Begin, End, Forget, disk, memory, project, budget
<1>1. ASSUME NEW w \in Workspace, NEW scope \in SUBSET Path, CreateCopy(w, scope)
      PROVE ReturnedInv' /\ OnlyTestedCodeIsLive'
  BY <1>1 DEF CreateCopy
<1>2. CASE CreateCapture
  BY <1>2 DEF CreateCapture, OperationInv
<1>3. ASSUME NEW w \in Workspace, NEW paths \in SUBSET Path,
               NEW new \in [Path -> FileVal], ExecuteStart(w, paths, new)
      PROVE ReturnedInv' /\ OnlyTestedCodeIsLive'
  BY <1>3 DEF ExecuteStart, ValidPlan
<1>4. ASSUME NEW p \in Path, ExecuteEdit(p)
      PROVE ReturnedInv' /\ OnlyTestedCodeIsLive'
  BY <1>4 DEF ExecuteEdit
<1>5. ASSUME NEW p \in Path, ExecuteNoOp(p)
      PROVE ReturnedInv' /\ OnlyTestedCodeIsLive'
  BY <1>5 DEF ExecuteNoOp
<1>6. CASE ExecuteSnapshot
  BY <1>6 DEF ExecuteSnapshot
<1>7. ASSUME NEW outcome \in TestOutcome, ExecuteRecord(outcome)
      PROVE ReturnedInv' /\ OnlyTestedCodeIsLive'
  BY <1>7 DEF ExecuteRecord, TestOutcome, OperationInv
<1>8. ASSUME NEW w \in Workspace, ApplyStart(w)
      PROVE ReturnedInv' /\ OnlyTestedCodeIsLive'
  BY <1>8 DEF ApplyStart, ValidForApply
<1>9. ASSUME NEW p \in Path, ApplyBackup(p)
      PROVE ReturnedInv' /\ OnlyTestedCodeIsLive'
  BY <1>9 DEF ApplyBackup, Visit
<1>10. ASSUME NEW p \in Path, ApplyReplace(p)
      PROVE ReturnedInv' /\ OnlyTestedCodeIsLive'
  BY <1>10 DEF ApplyReplace, Visit, OperationInv, ScopeInv
<1>11. ASSUME NEW p \in Path, ApplyMismatch(p)
      PROVE ReturnedInv' /\ OnlyTestedCodeIsLive'
  <2>1. p \in raced
    BY <1>11 DEF ApplyMismatch, Proposed, OperationInv, FileInv, Replacing
  <2>2. ReturnedInv'
    BY <1>11 DEF ApplyMismatch
  <2>3. /\ cur \in Workspace /\ p \in changed[cur]
        /\ changed[cur] \subseteq allowed[cur] /\ state[cur] = "tests_passed"
    BY <1>11 DEF ApplyMismatch, OperationInv, ScopeInv
  <2>4. \/ UNCHANGED project
        \/ /\ \A q \in Path \ {p} : live'[q] = live[q] /\ author'[q] = author[q]
           /\ author'[p] = cur
    BY <1>11 DEF ApplyMismatch
  <2>5. OnlyTestedCodeIsLive'
    BY <1>11, <2>1, <2>3, <2>4 DEF ApplyMismatch
  <2>6. QED
    BY <2>2, <2>5
<1>12. CASE ApplyCommit
  BY <1>12 DEF ApplyCommit
<1>13. CASE ApplyRefuted
  BY <1>13 DEF ApplyRefuted
<1>14. ASSUME NEW p \in Path, Restore(p)
      PROVE ReturnedInv' /\ OnlyTestedCodeIsLive'
  BY <1>14 DEF Restore, Visit
<1>15. ASSUME NEW w \in Workspace, RollbackStart(w)
      PROVE ReturnedInv' /\ OnlyTestedCodeIsLive'
  BY <1>15 DEF RollbackStart
<1>16. ASSUME NEW p \in Path, Rollback(p)
      PROVE ReturnedInv' /\ OnlyTestedCodeIsLive'
  BY <1>16 DEF Rollback, Visit
<1>17. CASE RollbackCommit
  BY <1>17 DEF RollbackCommit, OperationInv
<1>18. CASE RollbackRefuted
  BY <1>18 DEF RollbackRefuted
<1>19. CASE Failure
  BY <1>19 DEF Failure, OperationFails, ApplyFails, RestoreFails,
         RollbackFails, Crash, Fault, AbortedBy
<1>20. ASSUME NEW p \in Path, NEW v \in FileVal, LiveEdit(p, v)
      PROVE ReturnedInv' /\ OnlyTestedCodeIsLive'
  BY <1>20 DEF LiveEdit, Touch
<1>21. ASSUME NEW p \in Path, NEW v \in FileVal, NEW w \in Workspace,
              WorktreeEdit(w, p, v)
      PROVE ReturnedInv' /\ OnlyTestedCodeIsLive'
  BY <1>21 DEF WorktreeEdit, Touch
<1>22. CASE UNCHANGED vars
  BY <1>22 DEF vars
<1>23. QED
  BY <1>1, <1>2, <1>3, <1>4, <1>5, <1>6, <1>7, <1>8, <1>9, <1>10, <1>11,
     <1>12, <1>13, <1>14, <1>15, <1>16, <1>17, <1>18, <1>19, <1>20, <1>21, <1>22
     DEF Next, Request, Create, Execute, Record, PathStep, StoreStep, Editor

\* The four parts of the invariant hold together in every reachable state.
LEMMA Invariance == Spec => []Inv
<1>1. Init => Inv
  BY ConstantsAssumption
     DEF Init, Inv, TypeOK, OperationInv, ScopeInv, FileInv, ReturnedInv,
         OnlyTestedCodeIsLive, FileVal, NoFile, State, Step
<1>2. TypeOK /\ TypeOK' /\ Inv /\ [Next]_vars => Inv'
  BY OperationStep, FileStep, AuthorStep DEF Inv
<1>3. QED
  BY <1>1, <1>2, TypeCorrect, PTL DEF Spec

\* Whatever fails or crashes, a live file a workspace wrote is in its approved
\* scope, tested, and not rolled back.
THEOREM TestedCodeOnly == Spec => []OnlyTestedCodeIsLive
<1>1. Inv => OnlyTestedCodeIsLive
  BY DEF Inv
<1>2. QED
  BY <1>1, Invariance, PTL

\* The store overwrites only the content a workspace was made from or tested
\* with, never an edit finished before the operation began.
THEOREM KnownContentOnly == Spec => StoreOverwritesOnlyKnownContent
<1> DEFINE Known == \A p \in Path :
                        live'[p] # live[p] /\ hand' = hand /\ p \notin raced =>
                            live[p] \in {base[cur][p], tested[cur][p]}
<1>1. ASSUME Inv, [Next]_vars PROVE [Known]_vars
  <2> USE DEF Inv, TypeOK
  <2> SUFFICES ASSUME NEW p \in Path, live'[p] # live[p], hand' = hand, p \notin raced
               PROVE live[p] \in {base[cur][p], tested[cur][p]}
    OBVIOUS
  <2>1. \/ ApplyReplace(p) \/ ApplyMismatch(p) \/ Restore(p) \/ Rollback(p)
    BY <1>1
       DEF Next, Request, Create, CreateCopy, CreateCapture, Execute,
           ExecuteStart, Record, ExecuteRecord, PathStep, ExecuteEdit,
           ExecuteNoOp, ExecuteSnapshot, StoreStep, ApplyStart, ApplyBackup,
           ApplyReplace, ApplyMismatch, Restore, Rollback, ApplyCommit,
           ApplyRefuted, RollbackStart, RollbackCommit, RollbackRefuted, Failure,
           OperationFails, ApplyFails, RestoreFails, RollbackFails, Crash, Fault,
           Editor, LiveEdit, WorktreeEdit, Touch, vars, project
  <2>2. CASE ApplyReplace(p) \/ ApplyMismatch(p)
    BY <1>1, <2>2 DEF ApplyReplace, ApplyMismatch, Visit, OperationInv, FileInv, Replacing
  <2>3. CASE Restore(p)
    BY <1>1, <2>3 DEF Restore, Visit, OperationInv, FileInv, Restoring
  <2>4. CASE Rollback(p)
    BY <1>1, <2>4 DEF Rollback, Visit, OperationInv, FileInv
  <2>5. QED
    BY <2>1, <2>2, <2>3, <2>4
<1>2. QED
  BY <1>1, Invariance, PTL DEF Spec, StoreOverwritesOnlyKnownContent

\* With one failing call at most and nothing else going wrong, only the
\* operation in progress has files in the project that are not applied.
CleanInv ==
    crashes = 0 /\ faults <= 1 /\ raced = {} =>
        /\ pc = "restore" => faults = 1
        /\ \A p \in Path : author[p] # Nobody =>
              \/ state[author[p]] = "applied"
              \/ pc \in {"replace", "verify", "restore"} /\ author[p] = cur

\* Until a second call fails, files of a workspace that is not applied are live
\* only while its apply is running, and every step keeps it so.
LEMMA CleanStep ==
    ASSUME Inv, Inv', CleanInv, [Next]_vars
    PROVE  CleanInv'
<1> USE ConstantsAssumption
    DEF Inv, TypeOK, CleanInv, OperationInv, OnlyTestedCodeIsLive,
        Begin, End, Forget, disk, memory, project, budget
<1>1. ASSUME NEW w \in Workspace, NEW scope \in SUBSET Path, CreateCopy(w, scope)
      PROVE CleanInv'
  BY <1>1 DEF CreateCopy
<1>2. CASE CreateCapture
  BY <1>2 DEF CreateCapture
<1>3. ASSUME NEW w \in Workspace, NEW paths \in SUBSET Path,
               NEW new \in [Path -> FileVal], ExecuteStart(w, paths, new)
      PROVE CleanInv'
  BY <1>3 DEF ExecuteStart, ValidPlan
<1>4. ASSUME NEW p \in Path, ExecuteEdit(p)
      PROVE CleanInv'
  BY <1>4 DEF ExecuteEdit
<1>5. ASSUME NEW p \in Path, ExecuteNoOp(p)
      PROVE CleanInv'
  BY <1>5 DEF ExecuteNoOp
<1>6. CASE ExecuteSnapshot
  BY <1>6 DEF ExecuteSnapshot
<1>7. ASSUME NEW outcome \in TestOutcome, ExecuteRecord(outcome)
      PROVE CleanInv'
  BY <1>7 DEF ExecuteRecord, TestOutcome
<1>8. ASSUME NEW w \in Workspace, ApplyStart(w)
      PROVE CleanInv'
  BY <1>8 DEF ApplyStart, ValidForApply
<1>9. ASSUME NEW p \in Path, ApplyBackup(p)
      PROVE CleanInv'
  BY <1>9 DEF ApplyBackup, Visit
<1>10. ASSUME NEW p \in Path, ApplyReplace(p)
      PROVE CleanInv'
  BY <1>10 DEF ApplyReplace, Visit
<1>11. ASSUME NEW p \in Path, ApplyMismatch(p)
      PROVE CleanInv'
  BY <1>11 DEF ApplyMismatch, Proposed, FileInv, Replacing
<1>12. CASE ApplyCommit
  BY <1>12 DEF ApplyCommit
<1>13. CASE ApplyRefuted
  BY <1>13 DEF ApplyRefuted, FileInv, Verifying, LiveIsTested
<1>14. ASSUME NEW p \in Path, Restore(p)
      PROVE CleanInv'
  BY <1>14 DEF Restore, Visit, ReturnedInv
<1>15. ASSUME NEW w \in Workspace, RollbackStart(w)
      PROVE CleanInv'
  BY <1>15 DEF RollbackStart
<1>16. ASSUME NEW p \in Path, Rollback(p)
      PROVE CleanInv'
  BY <1>16 DEF Rollback, Visit
<1>17. CASE RollbackCommit
  BY <1>17 DEF RollbackCommit, ReturnedInv
<1>18. CASE RollbackRefuted
  BY <1>18 DEF RollbackRefuted
<1>19. CASE Failure
  BY <1>19 DEF Failure, OperationFails, ApplyFails, RestoreFails,
         RollbackFails, Crash, Fault, AbortedBy
<1>20. ASSUME NEW p \in Path, NEW v \in FileVal, LiveEdit(p, v)
      PROVE CleanInv'
  BY <1>20 DEF LiveEdit, Touch
<1>21. ASSUME NEW p \in Path, NEW v \in FileVal, NEW w \in Workspace,
              WorktreeEdit(w, p, v)
      PROVE CleanInv'
  BY <1>21 DEF WorktreeEdit, Touch
<1>22. CASE UNCHANGED vars
  BY <1>22 DEF vars
<1>23. QED
  BY <1>1, <1>2, <1>3, <1>4, <1>5, <1>6, <1>7, <1>8, <1>9, <1>10, <1>11,
     <1>12, <1>13, <1>14, <1>15, <1>16, <1>17, <1>18, <1>19, <1>20, <1>21, <1>22
     DEF Next, Request, Create, Execute, Record, PathStep, StoreStep, Editor

\* One failing call, no crash and no edit during an operation: an apply that
\* fails leaves no file of its workspace in the project.
THEOREM FailedApplyIsUndone == Spec => []FailedApplyLeavesNothing
<1>1. Init => CleanInv
  BY DEF Init, CleanInv
<1>2. Inv /\ CleanInv => FailedApplyLeavesNothing
  BY DEF Inv, CleanInv, FailedApplyLeavesNothing
<1>3. QED
  BY <1>1, <1>2, CleanStep, Invariance, PTL DEF Spec

-----------------------------------------------------------------------------
(* The evidence of the workspaces whose files nobody touched and of which  *)
(* no execution was broken off.                                            *)

\* The paths an execution in progress may have written in w.
Pending(w) == IF pc \in {"edit", "test"} /\ cur = w THEN plan ELSE {}

\* The copy of a workspace being created is the project the base is read from;
\* later the copy leaves the base only in the paths a plan in progress names
\* or, after the tests, in the recorded ones.
EvidenceInv ==
    hand = 0 =>
        /\ pc = "capture" => worktree[cur] = live
        /\ \A w \in Workspace \ aborted :
              /\ state[w] = "scope_approved" => Deviates(w) \subseteq Pending(w)
              /\ state[w] \notin {"none", "creating", "scope_approved"} =>
                    Deviates(w) \subseteq changed[w]

\* Every step keeps the recorded paths a cover of what the copy changed.
LEMMA EvidenceStep ==
    ASSUME TypeOK, TypeOK', OperationInv, EvidenceInv, [Next]_vars
    PROVE  EvidenceInv'
<1> USE ConstantsAssumption
    DEF TypeOK, EvidenceInv, OperationInv, Deviates, Pending, Only, State, Step,
        Begin, End, Forget, disk, memory, project, budget
<1>1. ASSUME NEW w \in Workspace, NEW scope \in SUBSET Path, CreateCopy(w, scope)
      PROVE EvidenceInv'
  BY <1>1 DEF CreateCopy
<1>2. CASE CreateCapture
  BY <1>2 DEF CreateCapture
<1>3. ASSUME NEW w \in Workspace, NEW paths \in SUBSET Path,
             NEW new \in [Path -> FileVal], ExecuteStart(w, paths, new)
      PROVE EvidenceInv'
  BY <1>3 DEF ExecuteStart, ValidPlan
<1>4. ASSUME NEW p \in Path, ExecuteEdit(p)
      PROVE EvidenceInv'
  BY <1>4 DEF ExecuteEdit
<1>5. ASSUME NEW p \in Path, ExecuteNoOp(p)
      PROVE EvidenceInv'
  BY <1>5 DEF ExecuteNoOp
<1>6. CASE ExecuteSnapshot
  BY <1>6 DEF ExecuteSnapshot
<1>7. ASSUME NEW outcome \in TestOutcome, ExecuteRecord(outcome)
      PROVE EvidenceInv'
  BY <1>7 DEF ExecuteRecord, TestOutcome
<1>8. ASSUME NEW w \in Workspace, ApplyStart(w)
      PROVE EvidenceInv'
  BY <1>8 DEF ApplyStart, ValidForApply
<1>9. ASSUME NEW p \in Path, ApplyBackup(p)
      PROVE EvidenceInv'
  BY <1>9 DEF ApplyBackup, Visit
<1>10. ASSUME NEW p \in Path, ApplyReplace(p)
      PROVE EvidenceInv'
  BY <1>10 DEF ApplyReplace, Visit
<1>11. ASSUME NEW p \in Path, ApplyMismatch(p)
      PROVE EvidenceInv'
  BY <1>11 DEF ApplyMismatch, Proposed
<1>12. CASE ApplyCommit
  BY <1>12 DEF ApplyCommit
<1>13. CASE ApplyRefuted
  BY <1>13 DEF ApplyRefuted
<1>14. ASSUME NEW p \in Path, Restore(p)
      PROVE EvidenceInv'
  BY <1>14 DEF Restore, Visit
<1>15. ASSUME NEW w \in Workspace, RollbackStart(w)
      PROVE EvidenceInv'
  BY <1>15 DEF RollbackStart
<1>16. ASSUME NEW p \in Path, Rollback(p)
      PROVE EvidenceInv'
  BY <1>16 DEF Rollback, Visit
<1>17. CASE RollbackCommit
  BY <1>17 DEF RollbackCommit
<1>18. CASE RollbackRefuted
  BY <1>18 DEF RollbackRefuted
<1>19. CASE Failure
  BY <1>19 DEF Failure, OperationFails, ApplyFails, RestoreFails,
               RollbackFails, Crash, Fault, AbortedBy
<1>20. ASSUME NEW p \in Path, NEW v \in FileVal, LiveEdit(p, v)
      PROVE EvidenceInv'
  BY <1>20 DEF LiveEdit, Touch
<1>21. ASSUME NEW p \in Path, NEW v \in FileVal, NEW w \in Workspace,
              WorktreeEdit(w, p, v)
      PROVE EvidenceInv'
  BY <1>21 DEF WorktreeEdit, Touch
<1>22. CASE UNCHANGED vars
  BY <1>22 DEF vars
<1>23. QED
  BY <1>1, <1>2, <1>3, <1>4, <1>5, <1>6, <1>7, <1>8, <1>9, <1>10, <1>11, <1>12, <1>13, <1>14, <1>15, <1>16, <1>17, <1>18, <1>19, <1>20, <1>21, <1>22
     DEF Next, Request, Create, Execute, Record, PathStep, StoreStep, Editor

\* Clean workspaces show the Owner every approved file their copy changed.
THEOREM EvidenceIsClean == Spec => []CleanEvidenceCoversTestedTree
<1>1. Init => EvidenceInv
  BY DEF Init, EvidenceInv
<1>2. EvidenceInv => CleanEvidenceCoversTestedTree
  BY DEF EvidenceInv, CleanEvidenceCoversTestedTree
<1>3. TypeOK /\ TypeOK' /\ Inv /\ EvidenceInv /\ [Next]_vars => EvidenceInv'
  BY EvidenceStep DEF Inv
<1>4. QED
  BY <1>1, <1>2, <1>3, TypeCorrect, Invariance, PTL DEF Spec

-----------------------------------------------------------------------------
(* The refinement, for a store whose files nobody edits during an          *)
(* operation.                                                              *)

\* Nobody edits during an operation, or nobody has edited at all so far.
Quiet == Racing = FALSE \/ hand = 0

\* Edits are only ever added, so a store that is quiet was quiet before.
LEMMA QuietBefore ==
    ASSUME TypeOK, [Next]_vars, Quiet'
    PROVE  Quiet
<1>1. hand' = hand \/ hand' = hand + 1
  BY DEF Next, Request, Create, CreateCopy, CreateCapture, Execute,
         ExecuteStart, Record, ExecuteRecord, PathStep, ExecuteEdit,
         ExecuteNoOp, ExecuteSnapshot, StoreStep, ApplyStart, ApplyBackup,
         ApplyReplace, ApplyMismatch, Restore, Rollback, ApplyCommit,
         ApplyRefuted, RollbackStart, RollbackCommit, RollbackRefuted, Failure,
         OperationFails, ApplyFails, RestoreFails, RollbackFails, Crash, Fault,
         Editor, LiveEdit, WorktreeEdit, Touch, vars, budget
<1>2. QED
  BY <1>1 DEF Quiet, TypeOK

\* Without such edits no check of an operation in progress can fail, so a
\* restore has a failing call behind it and a rollback goes through.
QuietInv ==
    /\ raced = {}
    /\ pc = "restore" => faults > 0
    /\ pc \in {"undo", "undone"} =>
          \A p \in changed[cur] \ todo : live[p] = base[cur][p]
    /\ \A w \in Workspace : state[w] = "applied" =>
          \A p \in changed[w] : backup[w][p] = base[w][p]

\* Nothing is backed up, restored or applied at the start.
LEMMA QuietStart == Init => QuietInv
BY ConstantsAssumption DEF Init, QuietInv

\* With nobody editing during an operation, every step keeps the backups and
\* the files an operation has passed in agreement with the saved manifests.
LEMMA QuietStep ==
    ASSUME Quiet', Inv, Inv', QuietInv, [Next]_vars
    PROVE  QuietInv'
<1> USE DEF Quiet, Inv, TypeOK, QuietInv, OperationInv,
            Begin, End, Forget, disk, memory, project, budget
<1>1. ASSUME NEW w \in Workspace, NEW scope \in SUBSET Path, CreateCopy(w, scope)
      PROVE QuietInv'
  BY <1>1 DEF CreateCopy
<1>2. CASE CreateCapture
  BY <1>2 DEF CreateCapture
<1>3. ASSUME NEW w \in Workspace, NEW paths \in SUBSET Path,
               NEW new \in [Path -> FileVal], ExecuteStart(w, paths, new)
      PROVE QuietInv'
  BY <1>3 DEF ExecuteStart, ValidPlan
<1>4. ASSUME NEW p \in Path, ExecuteEdit(p)
      PROVE QuietInv'
  BY <1>4 DEF ExecuteEdit
<1>5. ASSUME NEW p \in Path, ExecuteNoOp(p)
      PROVE QuietInv'
  BY <1>5 DEF ExecuteNoOp
<1>6. CASE ExecuteSnapshot
  BY <1>6 DEF ExecuteSnapshot
<1>7. ASSUME NEW outcome \in TestOutcome, ExecuteRecord(outcome)
      PROVE QuietInv'
  BY <1>7 DEF ExecuteRecord, TestOutcome
<1>8. ASSUME NEW w \in Workspace, ApplyStart(w)
      PROVE QuietInv'
  BY <1>8 DEF ApplyStart, ValidForApply
<1>9. ASSUME NEW p \in Path, ApplyBackup(p)
      PROVE QuietInv'
  BY <1>9 DEF ApplyBackup, Visit
<1>10. ASSUME NEW p \in Path, ApplyReplace(p)
      PROVE QuietInv'
  BY <1>10 DEF ApplyReplace, Visit
<1>11. ASSUME NEW p \in Path, ApplyMismatch(p)
      PROVE QuietInv'
  BY <1>11 DEF ApplyMismatch, Proposed, FileInv, Replacing
<1>12. CASE ApplyCommit
  BY <1>12 DEF ApplyCommit, FileInv, Verifying
<1>13. CASE ApplyRefuted
  BY <1>13 DEF ApplyRefuted, FileInv, Verifying, LiveIsTested
<1>14. ASSUME NEW p \in Path, Restore(p)
      PROVE QuietInv'
  BY <1>14 DEF Restore, Visit
<1>15. ASSUME NEW w \in Workspace, RollbackStart(w)
      PROVE QuietInv'
  BY <1>15 DEF RollbackStart
<1>16. ASSUME NEW p \in Path, Rollback(p)
      PROVE QuietInv'
  BY <1>16 DEF Rollback, Visit
<1>17. CASE RollbackCommit
  BY <1>17 DEF RollbackCommit
<1>18. CASE RollbackRefuted
  BY <1>18 DEF RollbackRefuted
<1>19. CASE Failure
  BY <1>19 DEF Failure, OperationFails, ApplyFails, RestoreFails,
         RollbackFails, Crash, Fault, AbortedBy
<1>20. ASSUME NEW p \in Path, NEW v \in FileVal, LiveEdit(p, v)
      PROVE QuietInv'
  BY <1>20 DEF LiveEdit, Touch
<1>21. ASSUME NEW p \in Path, NEW v \in FileVal, NEW w \in Workspace,
              WorktreeEdit(w, p, v)
      PROVE QuietInv'
  BY <1>21 DEF WorktreeEdit, Touch
<1>22. CASE UNCHANGED vars
  BY <1>22 DEF vars
<1>23. QED
  BY <1>1, <1>2, <1>3, <1>4, <1>5, <1>6, <1>7, <1>8, <1>9, <1>10, <1>11,
     <1>12, <1>13, <1>14, <1>15, <1>16, <1>17, <1>18, <1>19, <1>20, <1>21, <1>22
     DEF Next, Request, Create, Execute, Record, PathStep, StoreStep, Editor

\* The initial states of the store are initial states of GovernedChange.
LEMMA RefinementInit == Init => Governed!Init
BY ConstantsAssumption
   DEF Init, Governed!Init, LiveBar, StatusBar, Applying, Undoing, NoFile, FileVal

\* The operation in progress has left each file as it was or as it was tested.
Torn ==
    /\ Applying \/ Undoing
    /\ \A p \in changed[cur] : live[p] \in {base[cur][p], tested[cur][p]}

\* An operation broken off in that condition is a Tear of GovernedChange.
LEMMA TornIsTear ==
    ASSUME NEW w \in Workspace, w = cur, Inv, Torn, Governed!Mishap(w),
           pc' = "idle", UNCHANGED <<disk, project, hand>>
    PROVE  [Governed!Next]_(Governed!vars)
<1> USE DEF Inv, TypeOK, OperationInv, disk, project, Torn, LiveBar, StatusBar,
            Applying, Undoing
<1>1. /\ StatusBar[w] = IF Applying THEN "ready" ELSE "applied"
      /\ StatusBar' = StatusBar
      /\ LiveBar' = live
  OBVIOUS
<1>2. Governed!Holds(w, IF StatusBar[w] = "ready" THEN base[w] ELSE tested[w])
  BY <1>1 DEF Governed!Holds
<1> DEFINE S == {p \in changed[w] : live[p] = tested[w][p]}
<1>3. LiveBar' = [p \in Path |-> IF p \in S THEN tested[w][p]
                                 ELSE IF p \in changed[w] THEN base[w][p]
                                 ELSE LiveBar[p]]
  BY <1>1
<1>4. Governed!Tear(w)
  BY <1>1, <1>2, <1>3 DEF Governed!Tear
<1>5. QED
  BY <1>1, <1>4 DEF Governed!Next

\* Every step of the store is a step of the specification it implements.
LEMMA RefinementStep ==
    ASSUME Quiet', Inv, Inv', QuietInv, QuietInv', [Next]_vars
    PROVE  [Governed!Next]_(Governed!vars)
<1> USE DEF Quiet, Inv, TypeOK, QuietInv, OperationInv,
            Begin, End, Forget, disk, memory, project, budget,
            LiveBar, StatusBar, Applying, Undoing, Governed!vars
<1>1. ASSUME NEW w \in Workspace, NEW scope \in SUBSET Path, CreateCopy(w, scope)
      PROVE [Governed!Next]_(Governed!vars)
  BY <1>1 DEF CreateCopy
<1>2. CASE CreateCapture
  <2> PICK w \in Workspace : w = cur
    BY <1>2 DEF CreateCapture
  <2>1. LiveBar' = LiveBar
    BY <1>2 DEF CreateCapture
  <2>2. StatusBar[w] = "draft" /\ StatusBar' = StatusBar
    BY <1>2 DEF CreateCapture
  <2>3. Governed!Draft(w)
    BY <1>2, <2>1, <2>2 DEF CreateCapture, Governed!Draft, Governed!OnlyOf
  <2>4. QED
    BY <1>2, <2>3 DEF CreateCapture, Governed!Next
<1>3. ASSUME NEW w \in Workspace, NEW paths \in SUBSET Path,
               NEW new \in [Path -> FileVal], ExecuteStart(w, paths, new)
      PROVE [Governed!Next]_(Governed!vars)
  BY <1>3 DEF ExecuteStart, ValidPlan
<1>4. ASSUME NEW p \in Path, ExecuteEdit(p)
      PROVE [Governed!Next]_(Governed!vars)
  BY <1>4 DEF ExecuteEdit
<1>5. ASSUME NEW p \in Path, ExecuteNoOp(p)
      PROVE [Governed!Next]_(Governed!vars)
  BY <1>5 DEF ExecuteNoOp
<1>6. CASE ExecuteSnapshot
  BY <1>6 DEF ExecuteSnapshot
<1>7. ASSUME NEW outcome \in TestOutcome, ExecuteRecord(outcome)
      PROVE [Governed!Next]_(Governed!vars)
  <2> PICK w \in Workspace : w = cur
    BY <1>7 DEF ExecuteRecord
  <2>1. LiveBar' = LiveBar
    BY <1>7 DEF ExecuteRecord
  <2>2. /\ StatusBar[w] = "draft"
        /\ StatusBar'[w] \in {"draft", "ready"}
        /\ StatusBar' = [StatusBar EXCEPT ![w] = StatusBar'[w]]
    BY <1>7 DEF ExecuteRecord, TestOutcome
  <2>3. Governed!Draft(w)
    BY <1>7, <2>1, <2>2 DEF ExecuteRecord, Governed!Draft, Governed!OnlyOf
  <2>4. QED
    BY <2>2, <2>3 DEF Governed!Next
<1>8. ASSUME NEW w \in Workspace, ApplyStart(w)
      PROVE [Governed!Next]_(Governed!vars)
  BY <1>8 DEF ApplyStart, ValidForApply
<1>9. ASSUME NEW p \in Path, ApplyBackup(p)
      PROVE [Governed!Next]_(Governed!vars)
  BY <1>9 DEF ApplyBackup, Visit
<1>10. ASSUME NEW p \in Path, ApplyReplace(p)
      PROVE [Governed!Next]_(Governed!vars)
  BY <1>10 DEF ApplyReplace, Visit
<1>11. ASSUME NEW p \in Path, ApplyMismatch(p)
      PROVE [Governed!Next]_(Governed!vars)
  BY <1>11 DEF ApplyMismatch, Proposed
<1>12. CASE ApplyCommit
  <2> PICK w \in Workspace : w = cur
    BY <1>12 DEF ApplyCommit
  <2>1. /\ StatusBar[w] = "ready"
        /\ StatusBar' = [StatusBar EXCEPT ![w] = "applied"]
    BY <1>12 DEF ApplyCommit
  <2>2. Governed!Holds(w, base[w])
    BY <1>12, <2>1 DEF ApplyCommit, Governed!Holds
  <2>3. LiveBar' = Governed!With(w, tested[w])
    BY <1>12, <2>1 DEF ApplyCommit, LiveIsTested, Governed!With
  <2>4. Governed!Apply(w)
    BY <1>12, <2>1, <2>2, <2>3 DEF ApplyCommit, Governed!Apply
  <2>5. QED
    BY <2>1, <2>4 DEF Governed!Next
<1>13. CASE ApplyRefuted
  BY <1>13 DEF ApplyRefuted
<1>14. ASSUME NEW p \in Path, Restore(p)
      PROVE [Governed!Next]_(Governed!vars)
  BY <1>14 DEF Restore, Visit, FileInv, Restoring
<1>15. ASSUME NEW w \in Workspace, RollbackStart(w)
      PROVE [Governed!Next]_(Governed!vars)
  BY <1>15 DEF RollbackStart
<1>16. ASSUME NEW p \in Path, Rollback(p)
      PROVE [Governed!Next]_(Governed!vars)
  BY <1>16 DEF Rollback, Visit
<1>17. CASE RollbackCommit
  <2> PICK w \in Workspace : w = cur
    BY <1>17 DEF RollbackCommit
  <2>1. /\ StatusBar[w] = "applied"
        /\ StatusBar' = [StatusBar EXCEPT ![w] = "undone"]
    BY <1>17 DEF RollbackCommit
  <2>2. Governed!Holds(w, tested[w])
    BY <1>17, <2>1 DEF RollbackCommit, Governed!Holds
  <2>3. LiveBar' = Governed!With(w, base[w])
    BY <1>17, <2>1 DEF RollbackCommit, LiveIsRestored, Governed!With
  <2>4. Governed!Undo(w)
    BY <1>17, <2>1, <2>2, <2>3 DEF RollbackCommit, Governed!Undo
  <2>5. QED
    BY <2>1, <2>4 DEF Governed!Next
<1>18. CASE RollbackRefuted
  BY <1>18 DEF RollbackRefuted, LiveIsRestored
<1>19. CASE OperationFails
  <2>1. LiveBar' = LiveBar /\ StatusBar' = StatusBar
    BY <1>19 DEF OperationFails, FileInv, BackingUp
  <2>2. Governed!Fault
    BY <1>19, <2>1 DEF OperationFails, Fault, Governed!Fault
  <2>3. QED
    BY <2>2 DEF Governed!Next
<1>20. CASE ApplyFails
  <2>1. LiveBar' = LiveBar /\ StatusBar' = StatusBar
    BY <1>20 DEF ApplyFails
  <2>2. Governed!Fault
    BY <1>20, <2>1 DEF ApplyFails, Fault, Governed!Fault
  <2>3. QED
    BY <2>2 DEF Governed!Next
<1>21. CASE RestoreFails
  <2> PICK w \in Workspace : w = cur
    BY <1>21 DEF RestoreFails
  <2>1. Torn
    BY <1>21 DEF RestoreFails, FileInv, Restoring, Torn
  <2>2. Governed!Mishap(w)
    BY <1>21 DEF RestoreFails, Fault, Governed!Mishap
  <2>3. QED
    BY <1>21, <2>1, <2>2, TornIsTear DEF RestoreFails, Fault
<1>22. CASE RollbackFails
  <2> PICK w \in Workspace : w = cur
    BY <1>22 DEF RollbackFails
  <2>1. Torn
    BY <1>22 DEF RollbackFails, FileInv, Torn
  <2>2. Governed!Mishap(w)
    BY <1>22 DEF RollbackFails, Fault, Governed!Mishap
  <2>3. QED
    BY <1>22, <2>1, <2>2, TornIsTear DEF RollbackFails, Fault
<1>23. CASE Crash
  <2> PICK w \in Workspace : w = cur
    BY <1>23 DEF Crash
  <2>1. CASE pc \in {"capture", "edit", "test"}
    <3>1. LiveBar' = LiveBar /\ StatusBar' = StatusBar
      BY <1>23, <2>1 DEF Crash
    <3>2. Governed!Crash
      BY <1>23, <3>1 DEF Crash, Governed!Crash
    <3>3. QED
      BY <3>2 DEF Governed!Next
  <2>2. CASE pc \in {"backup", "replace", "verify", "restore", "undo", "undone"}
    <3>1. Torn
      BY <1>23, <2>2
         DEF Crash, FileInv, BackingUp, Replacing, Verifying, Restoring, Torn
    <3>2. Governed!Mishap(w)
      BY <1>23 DEF Crash, Governed!Mishap
    <3>3. QED
      BY <1>23, <2>2, <3>1, <3>2, TornIsTear DEF Crash
  <2>3. QED
    BY <1>23, <2>1, <2>2 DEF Crash, Step
<1>24. ASSUME NEW p \in Path, NEW v \in FileVal, LiveEdit(p, v)
      PROVE [Governed!Next]_(Governed!vars)
  <2> pc = "idle"
    BY <1>24 DEF LiveEdit, Touch
  <2>1. LiveBar' = [LiveBar EXCEPT ![p] = v] /\ StatusBar' = StatusBar
    BY <1>24 DEF LiveEdit, Touch
  <2>2. Governed!Edit(p, v)
    BY <1>24, <2>1 DEF LiveEdit, Touch, Governed!Edit
  <2>3. QED
    BY <2>2 DEF Governed!Next
<1>25. ASSUME NEW p \in Path, NEW v \in FileVal, NEW w \in Workspace,
              WorktreeEdit(w, p, v)
      PROVE [Governed!Next]_(Governed!vars)
  <2>1. LiveBar' = [LiveBar EXCEPT ![p] = LiveBar[p]] /\ StatusBar' = StatusBar
    BY <1>25 DEF WorktreeEdit, Touch
  <2>2. PICK u \in FileVal : u = LiveBar[p]
    BY <1>25 DEF WorktreeEdit, Touch
  <2>3. Governed!Edit(p, u)
    BY <1>25, <2>1, <2>2 DEF WorktreeEdit, Touch, Governed!Edit
  <2>4. QED
    BY <2>3 DEF Governed!Next
<1>26. CASE UNCHANGED vars
  BY <1>26 DEF vars
<1>27. QED
  BY <1>1, <1>2, <1>3, <1>4, <1>5, <1>6, <1>7, <1>8, <1>9, <1>10, <1>11,
     <1>12, <1>13, <1>14, <1>15, <1>16, <1>17, <1>18, <1>19, <1>20, <1>21, <1>22, <1>23, <1>24, <1>25, <1>26
     DEF Next, Request, Create, Execute, Record, PathStep, StoreStep, Editor, Failure

\* With nobody editing during an operation, tested sets of files go live and
\* come back whole, but for a crash or a failure of a restore or a rollback.
THEOREM Refinement ==
    ASSUME Racing = FALSE
    PROVE  Spec => ImplementsGovernedChange
<1>1. Quiet /\ Quiet'
  BY DEF Quiet
<1>2. Inv /\ Inv' /\ QuietInv /\ [Next]_vars =>
        QuietInv' /\ [Governed!Next]_(Governed!vars)
  BY <1>1, QuietStep, RefinementStep
<1>3. QED
  BY <1>2, QuietStart, RefinementInit, Invariance, PTL
     DEF Spec, ImplementsGovernedChange, Governed!Spec

-----------------------------------------------------------------------------
(* Applied workspaces do not undo each other's work.                       *)
(*                                                                         *)
(* For one path, an applied workspace is a link from the content it was    *)
(* made from to the content it was tested with.  The links of a path join  *)
(* up to a trail that starts at some content the project once had and ends *)
(* at the live content: apply adds a last link and rollback takes the last *)
(* link off, wherever in the history of the project it was added.  A trail *)
(* that enters a content other than its last also leaves it, and the link  *)
(* that leaves it is the workspace that has replaced it.                   *)

Links(S, f, n) == {w \in S : f[w] = n}

Same(m, n) == IF m = n THEN 1 ELSE 0

\* Each content is left as often as it is entered, but for the first and last.
Trail(S, from, to, last) ==
    \E first \in FileVal : \A n \in FileVal :
        Cardinality(Links(S, from, n)) + Same(n, last)
            = Cardinality(Links(S, to, n)) + Same(n, first)

\* One more link of content f to content t adds one to the links with f's n.
LEMMA LinkAdded ==
    ASSUME NEW S, IsFiniteSet(S), NEW w, w \notin S, NEW f, NEW n
    PROVE  /\ Cardinality(Links(S, f, n)) \in Nat
           /\ Cardinality(Links(S \cup {w}, f, n))
                = Cardinality(Links(S, f, n)) + Same(n, f[w])
<1>1. IsFiniteSet(Links(S, f, n)) /\ w \notin Links(S, f, n)
  BY FS_Subset, Links(S, f, n) \subseteq S DEF Links
<1>2. CASE n = f[w]
  <2>1. Links(S \cup {w}, f, n) = Links(S, f, n) \cup {w}
    BY <1>2 DEF Links
  <2>2. QED
    BY <1>1, <1>2, <2>1, FS_AddElement, FS_CardinalityType DEF Same
<1>3. CASE n # f[w]
  <2>1. Links(S \cup {w}, f, n) = Links(S, f, n)
    BY <1>3 DEF Links
  <2>2. QED
    BY <1>1, <1>3, <2>1, FS_CardinalityType DEF Same
<1>4. QED
  BY <1>2, <1>3

\* A trail that ends where a link begins becomes, with the link, a trail that
\* ends where the link ends; without the link it ends where the link begins.
LEMMA TrailLink ==
    ASSUME NEW S, IsFiniteSet(S), NEW w, w \notin S, NEW from, NEW to
    PROVE  Trail(S, from, to, from[w]) <=> Trail(S \cup {w}, from, to, to[w])
<1>1. ASSUME NEW n, NEW first
      PROVE  Cardinality(Links(S, from, n)) + Same(n, from[w])
                 = Cardinality(Links(S, to, n)) + Same(n, first)
             <=> Cardinality(Links(S \cup {w}, from, n)) + Same(n, to[w])
                 = Cardinality(Links(S \cup {w}, to, n)) + Same(n, first)
  <2>1. /\ Cardinality(Links(S, from, n)) \in Nat
        /\ Cardinality(Links(S \cup {w}, from, n))
             = Cardinality(Links(S, from, n)) + Same(n, from[w])
    BY LinkAdded
  <2>2. /\ Cardinality(Links(S, to, n)) \in Nat
        /\ Cardinality(Links(S \cup {w}, to, n))
             = Cardinality(Links(S, to, n)) + Same(n, to[w])
    BY LinkAdded
  <2>3. /\ Same(n, from[w]) \in Nat /\ Same(n, to[w]) \in Nat
        /\ Same(n, first) \in Nat
    BY DEF Same
  <2>4. QED
    BY <2>1, <2>2, <2>3
<1>2. QED
  BY <1>1 DEF Trail

\* The applied workspaces that changed p, and the content of p on their two sides.
On(p)    == {w \in Workspace : state[w] = "applied" /\ p \in changed[w]}
From(p)  == [w \in Workspace |-> base[w][p]]
To(p)    == [w \in Workspace |-> tested[w][p]]

Unharmed == hand = 0 /\ faults = 0 /\ crashes = 0

\* While nothing goes wrong, the applied workspaces of each path are a trail
\* that ends at its live content.
TrailInv ==
    Unharmed => \A p \in Path : IsFiniteSet(On(p)) /\ Trail(On(p), From(p), To(p), LiveBar[p])

\* Before the first apply every trail is empty.
LEMMA TrailStart == Init => TrailInv
<1> SUFFICES ASSUME Init, NEW p \in Path
             PROVE  IsFiniteSet(On(p)) /\ Trail(On(p), From(p), To(p), LiveBar[p])
  BY DEF TrailInv
<1>1. On(p) = {} /\ LiveBar[p] \in FileVal
  BY DEF Init, On, LiveBar, Applying, Undoing
<1>2. \A f, n : Links({}, f, n) = {}
  BY DEF Links
<1>3. QED
  BY <1>1, <1>2, FS_EmptySet DEF Trail

\* A draft is revised, an apply or a rollback is complete, or nothing changes:
\* while nothing goes wrong there is no other step.
LEMMA UnharmedStep ==
    ASSUME TypeOK, Unharmed', [Governed!Next]_(Governed!vars)
    PROVE  /\ Unharmed
           /\ \/ \E w \in Workspace : Governed!Draft(w) \/ Governed!Apply(w)
                                       \/ Governed!Undo(w)
              \/ UNCHANGED Governed!vars
<1> USE DEF TypeOK, Unharmed
<1>1. ASSUME NEW w \in Workspace,
             Governed!Draft(w) \/ Governed!Apply(w) \/ Governed!Undo(w)
      PROVE  Unharmed
  BY <1>1 DEF Governed!Draft, Governed!Apply, Governed!Undo
<1>2. ASSUME NEW w \in Workspace, Governed!Tear(w)
      PROVE  FALSE
  BY <1>2 DEF Governed!Tear, Governed!Mishap
<1>3. ASSUME NEW p \in Path, NEW v \in FileVal, Governed!Edit(p, v)
      PROVE  FALSE
  BY <1>3 DEF Governed!Edit
<1>4. ~ Governed!Fault /\ ~ Governed!Crash
  BY DEF Governed!Fault, Governed!Crash
<1>5. UNCHANGED Governed!vars => Unharmed
  BY DEF Governed!vars
<1>6. QED
  BY <1>1, <1>2, <1>3, <1>4, <1>5 DEF Governed!Next

\* Every complete change of the project lengthens or shortens the trails.
LEMMA TrailStep ==
    ASSUME TypeOK, TypeOK', TrailInv, [Governed!Next]_(Governed!vars)
    PROVE  TrailInv'
<1> SUFFICES ASSUME Unharmed', NEW p \in Path
             PROVE  (IsFiniteSet(On(p)) /\ Trail(On(p), From(p), To(p), LiveBar[p]))'
  BY DEF TrailInv
<1>1. Unharmed
  BY UnharmedStep
<1>2. IsFiniteSet(On(p)) /\ Trail(On(p), From(p), To(p), LiveBar[p])
  BY <1>1 DEF TrailInv
<1>3. \A w \in Workspace : (state[w] = "applied" <=> StatusBar[w] = "applied")
                           /\ (state'[w] = "applied" <=> StatusBar'[w] = "applied")
  BY DEF StatusBar
<1>4. ASSUME NEW w \in Workspace, Governed!Draft(w)
      PROVE (IsFiniteSet(On(p)) /\ Trail(On(p), From(p), To(p), LiveBar[p]))'
  <2>1. /\ state[w] # "applied" /\ state'[w] # "applied"
        /\ \A v \in Workspace \ {w} :
              /\ state'[v] = "applied" <=> state[v] = "applied"
              /\ changed'[v] = changed[v] /\ base'[v] = base[v] /\ tested'[v] = tested[v]
    <3>1. /\ StatusBar[w] = "draft" /\ StatusBar'[w] \in {"draft", "ready"}
          /\ \A v \in Workspace \ {w} : StatusBar'[v] = StatusBar[v]
      <4>1. StatusBar' = [StatusBar EXCEPT ![w] = StatusBar'[w]]
        BY <1>4 DEF Governed!Draft, Governed!OnlyOf
      <4>2. DOMAIN StatusBar = Workspace
        BY DEF StatusBar
      <4>3. QED
        BY <1>4, <4>1, <4>2 DEF Governed!Draft
    <3>2. \A v \in Workspace \ {w} :
             changed'[v] = changed[v] /\ base'[v] = base[v] /\ tested'[v] = tested[v]
      BY <1>4 DEF Governed!Draft, Governed!OnlyOf, TypeOK
    <3>3. QED
      BY <1>3, <3>1, <3>2
  <2>2. On(p)' = On(p)
    BY <2>1 DEF On
  <2>3. \A n : /\ Links(On(p), From(p), n)' = Links(On(p), From(p), n)
               /\ Links(On(p), To(p), n)' = Links(On(p), To(p), n)
    BY <2>1, <2>2 DEF Links, On, From, To
  <2>4. LiveBar' = LiveBar
    BY <1>4 DEF Governed!Draft
  <2>5. QED
    BY <1>2, <2>2, <2>3, <2>4 DEF Trail
<1>5. ASSUME NEW w \in Workspace, Governed!Apply(w)
      PROVE (IsFiniteSet(On(p)) /\ Trail(On(p), From(p), To(p), LiveBar[p]))'
  <2>1. /\ state[w] # "applied" /\ state'[w] = "applied"
        /\ \A v \in Workspace \ {w} : state'[v] = "applied" <=> state[v] = "applied"
        /\ changed' = changed /\ base' = base /\ tested' = tested
    BY <1>3, <1>5 DEF Governed!Apply, TypeOK, StatusBar
  <2>2. From(p)' = From(p) /\ To(p)' = To(p)
    BY <2>1 DEF From, To
  <2>3. CASE p \in changed[w]
    <3>1. w \notin On(p) /\ On(p)' = On(p) \cup {w}
      BY <2>1, <2>3 DEF On
    <3>2. LiveBar[p] = From(p)[w] /\ LiveBar'[p] = To(p)[w]
      BY <1>5, <2>3 DEF Governed!Apply, Governed!Holds, Governed!With, From, To
    <3>3. IsFiniteSet(On(p)') /\ Trail(On(p) \cup {w}, From(p), To(p), To(p)[w])
      BY <1>2, <3>1, <3>2, TrailLink, FS_AddElement
    <3>4. QED
      BY <2>2, <3>1, <3>2, <3>3
  <2>4. CASE p \notin changed[w]
    <3>1. On(p)' = On(p) /\ LiveBar'[p] = LiveBar[p]
      BY <1>5, <2>1, <2>4 DEF On, Governed!Apply, Governed!With
    <3>2. QED
      BY <1>2, <2>2, <3>1
  <2>5. QED
    BY <2>3, <2>4
<1>6. ASSUME NEW w \in Workspace, Governed!Undo(w)
      PROVE (IsFiniteSet(On(p)) /\ Trail(On(p), From(p), To(p), LiveBar[p]))'
  <2>1. /\ state[w] = "applied" /\ state'[w] # "applied"
        /\ \A v \in Workspace \ {w} : state'[v] = "applied" <=> state[v] = "applied"
        /\ changed' = changed /\ base' = base /\ tested' = tested
    BY <1>3, <1>6 DEF Governed!Undo, TypeOK, StatusBar
  <2>2. From(p)' = From(p) /\ To(p)' = To(p)
    BY <2>1 DEF From, To
  <2>3. CASE p \in changed[w]
    <3>1. w \notin On(p)' /\ On(p) = On(p)' \cup {w}
      BY <2>1, <2>3 DEF On
    <3>2. LiveBar[p] = To(p)[w] /\ LiveBar'[p] = From(p)[w]
      BY <1>6, <2>3 DEF Governed!Undo, Governed!Holds, Governed!With, From, To
    <3>3. IsFiniteSet(On(p)')
      BY <1>2, <3>1, FS_Subset
    <3>4. QED
      BY <1>2, <2>2, <3>1, <3>2, <3>3, TrailLink
  <2>4. CASE p \notin changed[w]
    <3>1. On(p)' = On(p) /\ LiveBar'[p] = LiveBar[p]
      BY <1>6, <2>1, <2>4 DEF On, Governed!Undo, Governed!With
    <3>2. QED
      BY <1>2, <2>2, <3>1
  <2>5. QED
    BY <2>3, <2>4
<1>7. ASSUME UNCHANGED Governed!vars
      PROVE (IsFiniteSet(On(p)) /\ Trail(On(p), From(p), To(p), LiveBar[p]))'
  <2>1. /\ LiveBar' = LiveBar /\ StatusBar' = StatusBar
        /\ changed' = changed /\ base' = base /\ tested' = tested
    BY <1>7 DEF Governed!vars
  <2>2. On(p)' = On(p) /\ From(p)' = From(p) /\ To(p)' = To(p)
    BY <1>3, <2>1 DEF On, From, To
  <2>3. QED
    BY <1>2, <2>1, <2>2
<1>8. QED
  BY <1>4, <1>5, <1>6, <1>7, UnharmedStep

\* The content an applied workspace has put at a path is live there or has been
\* replaced by an applied workspace that was made from it.
LEMMA TrailKeepsWork ==
    ASSUME TypeOK, TrailInv PROVE AppliedWorkIsNotLost
<1> SUFFICES ASSUME pc = "idle", Unharmed, NEW w \in Workspace, state[w] = "applied",
                    NEW p \in changed[w], live[p] # tested[w][p]
             PROVE  \E v \in Workspace : /\ state[v] = "applied" /\ p \in changed[v]
                                         /\ base[v][p] = tested[w][p]
  BY DEF AppliedWorkIsNotLost, Unharmed
<1> DEFINE n == tested[w][p]
<1>1. p \in Path /\ n \in FileVal /\ LiveBar[p] = live[p]
  BY DEF TypeOK, LiveBar, Applying, Undoing
<1>2. IsFiniteSet(On(p)) /\ Trail(On(p), From(p), To(p), LiveBar[p])
  BY <1>1 DEF TrailInv
<1>3. PICK first \in FileVal :
            Cardinality(Links(On(p), From(p), n)) + Same(n, LiveBar[p])
                = Cardinality(Links(On(p), To(p), n)) + Same(n, first)
  BY <1>1, <1>2 DEF Trail
<1>4. /\ IsFiniteSet(Links(On(p), From(p), n))
      /\ IsFiniteSet(Links(On(p), To(p), n))
      /\ w \in Links(On(p), To(p), n)
  <2>1. /\ Links(On(p), From(p), n) \subseteq On(p)
        /\ Links(On(p), To(p), n) \subseteq On(p)
        /\ w \in Links(On(p), To(p), n)
    BY DEF Links, On, To
  <2>2. QED
    BY <1>2, <2>1, FS_Subset
<1>5. Cardinality(Links(On(p), To(p), n)) \in Nat \ {0}
  BY <1>4, FS_CardinalityType, FS_EmptySet
<1>6. Same(n, LiveBar[p]) = 0 /\ Same(n, first) \in Nat
  BY <1>1 DEF Same
<1>7. Cardinality(Links(On(p), From(p), n)) # 0
  BY <1>3, <1>5, <1>6, <1>4, FS_CardinalityType
<1>8. Links(On(p), From(p), n) # {}
  BY <1>7, FS_EmptySet
<1>9. QED
  BY <1>8 DEF Links, On, From

\* While nobody edits by hand and nothing fails, no apply or rollback loses what
\* another applied workspace has put into the project.
THEOREM AppliedWorkStays == Spec => []AppliedWorkIsNotLost
<1>1. Init => QuietInv /\ TrailInv
  BY QuietStart, TrailStart
<1>2. ASSUME Inv, Inv', Quiet => QuietInv, TrailInv, [Next]_vars
      PROVE  (Quiet => QuietInv)' /\ TrailInv'
  <2>1. CASE Quiet'
    <3>1. QuietInv /\ QuietInv'
      BY <1>2, <2>1, QuietBefore, QuietStep DEF Inv
    <3>2. [Governed!Next]_(Governed!vars)
      BY <1>2, <2>1, <3>1, RefinementStep
    <3>3. QED
      BY <1>2, <3>1, <3>2, TrailStep DEF Inv
  <2>2. CASE ~Quiet'
    BY <2>2 DEF Quiet, TrailInv, Unharmed
  <2>3. QED
    BY <2>1, <2>2
<1>3. Inv /\ TrailInv => AppliedWorkIsNotLost
  BY TrailKeepsWork DEF Inv
<1>4. QED
  BY <1>1, <1>2, <1>3, Invariance, PTL DEF Spec

=============================================================================
