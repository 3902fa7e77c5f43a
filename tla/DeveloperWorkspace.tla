-------------------------- MODULE DeveloperWorkspace --------------------------
(***************************************************************************)
(* The governed coding lane of developer_workspace.py.                     *)
(*                                                                         *)
(* A workspace is a private copy of the project in which a local model     *)
(* edits the human-approved paths.  The copy is tested in Docker, and the  *)
(* Owner may then apply the tested files to the live project and later     *)
(* roll them back.  Every operation holds the store's lock from beginning  *)
(* to end, so one operation at a time is in progress (cur, pc).  Its       *)
(* steps interleave with people who edit files, with write errors and with *)
(* a crash of the process: live, worktree, backups and workspace.json are  *)
(* on disk and survive, the local variables of the operation do not.       *)
(*                                                                         *)
(* A file is its content; a SHA-256 comparison is equality of contents,    *)
(* and a missing file is Absent (None in the code's manifests).            *)
(***************************************************************************)
EXTENDS Naturals, FiniteSets

CONSTANTS
    Workspace,      \* workspace identifiers
    Path,           \* repository-relative source paths
    Content,        \* what a file can hold
    Empty,          \* the content of an empty file
    Absent,         \* no file at the path
    Nobody,         \* author of live content that no workspace wrote
    Racing,         \* may people edit files while an operation runs?
    MaxFaults,      \* bound on failing operating-system or model calls
    MaxCrashes,     \* bound on crashes of the process
    MaxEdits        \* bound on edits made by people

FileVal == Content \cup {Absent}

ASSUME ConstantsAssumption ==
    /\ Empty \in Content
    /\ Absent \notin Content
    /\ Nobody \notin Workspace
    /\ Racing \in BOOLEAN
    /\ MaxFaults \in Nat /\ MaxCrashes \in Nat /\ MaxEdits \in Nat

VARIABLES
    \* The live project
    live,           \* [Path -> FileVal]
    \* Kept on disk for every workspace: workspace.json, worktree/, backups/
    state,          \* "state" of workspace.json
    allowed,        \* the approved scope
    base,           \* base_manifest, and the baseline copies
    worktree,       \* the isolated copy of the project
    changed,        \* changed_paths
    tested,         \* tested_manifest
    backup,         \* backups/, and base_manifest of the application receipt
    \* The operation that holds the lock
    pc,             \* its next step
    cur,            \* its workspace
    todo,           \* the paths its current loop has still to visit
    plan,           \* the paths of the model's edit plan
    edits,          \* the contents in that plan
    snap,           \* live_before, the fingerprint taken before the tests
    \* History
    author,         \* who wrote the content a live path holds
    aborted,        \* workspaces of which an execution stopped before its end
    raced,          \* paths a person edited while an operation was running
    faults, crashes, hand

disk    == <<state, allowed, base, worktree, changed, tested, backup>>
memory  == <<pc, cur, todo, plan, edits, snap>>
project == <<live, author>>
budget  == <<raced, faults, crashes, hand>>
vars    == <<live, state, allowed, base, worktree, changed, tested, backup,
             pc, cur, todo, plan, edits, snap,
             author, aborted, raced, faults, crashes, hand>>

State == {"none", "creating", "scope_approved", "tests_passed",
          "tests_failed", "isolation_unavailable", "applied", "rolled_back"}

Step == {"idle", "capture", "edit", "test", "backup", "replace", "verify",
         "restore", "undo", "undone"}

NoFile == [p \in Path |-> Absent]

\* What a path holds once only the paths in S are kept.
Only(S, f) == [p \in Path |-> IF p \in S THEN f[p] ELSE Absent]

\* A missing file reads as the empty text when the diff is computed.
Text(v) == IF v = Absent THEN Empty ELSE v

Init ==
    /\ live \in [Path -> FileVal]
    /\ state    = [w \in Workspace |-> "none"]
    /\ allowed  = [w \in Workspace |-> {}]
    /\ base     = [w \in Workspace |-> NoFile]
    /\ worktree = [w \in Workspace |-> NoFile]
    /\ changed  = [w \in Workspace |-> {}]
    /\ tested   = [w \in Workspace |-> NoFile]
    /\ backup   = [w \in Workspace |-> NoFile]
    /\ pc = "idle" /\ cur = Nobody /\ todo = {} /\ plan = {}
    /\ edits = NoFile /\ snap = NoFile
    /\ author = [p \in Path |-> Nobody]
    /\ aborted = {} /\ raced = {}
    /\ faults = 0 /\ crashes = 0 /\ hand = 0

-----------------------------------------------------------------------------
(* The lock: an operation begins when the store is idle and ends by        *)
(* returning or by an exception, which drops its local variables.          *)

Begin(w, step, paths) ==
    /\ pc = "idle"
    /\ pc' = step
    /\ cur' = w
    /\ todo' = paths

Forget == plan' = {} /\ edits' = NoFile /\ snap' = NoFile

\* An operation that does not let go of its workspace.
EndKeepsWorkspace ==
    /\ pc' = "idle"
    /\ UNCHANGED cur
    /\ todo' = {}
    /\ Forget

End ==
    /\ pc' = "idle"
    /\ cur' = Nobody
    /\ todo' = {}
    /\ Forget

\* One turn of a loop over paths, and where the operation goes after the last.
Visit(p, step, after, paths) ==
    /\ pc = step
    /\ p \in todo
    /\ pc'   = IF todo = {p} THEN after ELSE step
    /\ todo' = IF todo = {p} THEN paths ELSE todo \ {p}
    /\ cur'  = IF pc' = "idle" THEN Nobody ELSE cur
    /\ UNCHANGED <<plan, edits, snap>>

-----------------------------------------------------------------------------
(* create: copy the project, then record the hashes of the approved paths. *)

CreateCopy(w, scope) ==
    /\ state[w] = "none"
    /\ scope # {}
    /\ Begin(w, "capture", {})
    /\ state' = [state EXCEPT ![w] = "creating"]
    /\ allowed' = [allowed EXCEPT ![w] = scope]
    /\ worktree' = [worktree EXCEPT ![w] = live]
    /\ UNCHANGED <<base, changed, tested, backup, plan, edits, snap,
                   project, aborted, budget>>

CreateCapture ==
    /\ pc = "capture"
    /\ base' = [base EXCEPT ![cur] = Only(allowed[cur], live)]
    /\ state' = [state EXCEPT ![cur] = "scope_approved"]
    /\ End
    /\ UNCHANGED <<allowed, worktree, changed, tested, backup,
                   project, aborted, budget>>

-----------------------------------------------------------------------------
(* execute: the model's plan is written to the worktree edit by edit, the  *)
(* tests run, and only then is workspace.json saved.                       *)

\* A plan that _parse_edit_plan accepts: unique approved paths, and no
\* deletion of a file the worktree does not have.
ValidPlan(w, paths, new) ==
    /\ paths # {} /\ paths \subseteq allowed[w]
    /\ new = Only(paths, new)
    /\ \A p \in paths : new[p] = Absent => worktree[w][p] # Absent

ExecuteStart(w, paths, new) ==
    /\ state[w] = "scope_approved"
    /\ ValidPlan(w, paths, new)
    /\ Begin(w, "edit", paths)
    /\ plan' = paths
    /\ edits' = new
    /\ UNCHANGED <<snap, disk, project, aborted, budget>>

\* The edit reaches the worktree before it is compared with the baseline.
ExecuteEdit(p) ==
    /\ pc = "edit" /\ p \in todo
    /\ worktree' = [worktree EXCEPT ![cur][p] = edits[p]]
    /\ Text(base[cur][p]) # Text(edits[p])
    /\ todo' = todo \ {p}
    /\ UNCHANGED <<pc, cur, plan, edits, snap, state, allowed, base, changed,
                   tested, backup, project, aborted, budget>>

ExecuteNoOp(p) ==
    /\ pc = "edit" /\ p \in todo
    /\ worktree' = [worktree EXCEPT ![cur][p] = edits[p]]
    /\ Text(base[cur][p]) = Text(edits[p])
    /\ aborted' = aborted \cup {cur}
    /\ End
    /\ UNCHANGED <<state, allowed, base, changed, tested, backup, project,
                   budget>>

ExecuteSnapshot ==
    /\ pc = "edit" /\ todo = {}
    /\ pc' = "test"
    /\ snap' = live
    /\ UNCHANGED <<cur, todo, plan, edits, disk, project, aborted, budget>>

\* Tests pass only if the fingerprint of the project is the one taken before.
\* Other files of the project may also have changed, so they may fail anyway.
TestOutcome ==
    {"tests_failed", "isolation_unavailable"} \cup
        (IF live = snap THEN {"tests_passed"} ELSE {})

\* changed_paths without the files the plan deletes.
ExecuteRecordForgetsDeletes(outcome) ==
    /\ pc = "test"
    /\ outcome \in TestOutcome
    /\ state' = [state EXCEPT ![cur] = outcome]
    /\ changed' = [changed EXCEPT ![cur] = {p \in plan : edits[p] # Absent}]
    /\ tested' = [tested EXCEPT ![cur] = Only(plan, worktree[cur])]
    /\ End
    /\ UNCHANGED <<allowed, base, worktree, backup, project, aborted, budget>>

ExecuteRecord(outcome) ==
    /\ pc = "test"
    /\ outcome \in TestOutcome
    /\ state' = [state EXCEPT ![cur] = outcome]
    /\ changed' = [changed EXCEPT ![cur] = plan]
    /\ tested' = [tested EXCEPT ![cur] = Only(plan, worktree[cur])]
    /\ End
    /\ UNCHANGED <<allowed, base, worktree, backup, project, aborted, budget>>

-----------------------------------------------------------------------------
(* apply: validate, back up, replace file by file, verify, save the        *)
(* receipt; an exception after the first write restores every file.        *)

\* Validation that trusts any finished execution.
ValidForApplyAnyOutcome(w) ==
    /\ state[w] \in {"tests_passed", "tests_failed"}
    /\ changed[w] # {} /\ changed[w] \subseteq allowed[w]
    /\ \A p \in changed[w] :
          live[p] = base[w][p] /\ worktree[w][p] = tested[w][p]

\* Validation that forgets the hash of the live source.
ValidForApplyStaleLive(w) ==
    /\ state[w] = "tests_passed"
    /\ changed[w] # {} /\ changed[w] \subseteq allowed[w]
    /\ \A p \in changed[w] : worktree[w][p] = tested[w][p]

ValidForApply(w) ==
    /\ state[w] = "tests_passed"
    /\ changed[w] # {} /\ changed[w] \subseteq allowed[w]
    /\ \A p \in changed[w] :
          live[p] = base[w][p] /\ worktree[w][p] = tested[w][p]

ApplyStart(w) ==
    /\ ValidForApply(w)
    /\ Begin(w, "backup", changed[w])
    /\ UNCHANGED <<plan, edits, snap, disk, project, aborted, budget>>

ApplyBackup(p) ==
    /\ Visit(p, "backup", "replace", changed[cur])
    /\ backup' = [backup EXCEPT ![cur][p] = live[p]]
    /\ UNCHANGED <<state, allowed, base, worktree, changed, tested,
                   project, aborted, budget>>

\* What the copy puts at p: nothing when the tested set deletes the file.
Proposed(p) ==
    IF tested[cur][p] = Absent THEN Absent ELSE worktree[cur][p]

ApplyReplace(p) ==
    /\ pc = "replace"
    /\ Proposed(p) = tested[cur][p]
    /\ Visit(p, "replace", "verify", {})
    /\ live' = [live EXCEPT ![p] = tested[cur][p]]
    /\ author' = [author EXCEPT ![p] = cur]
    /\ UNCHANGED <<disk, aborted, budget>>

\* The worktree no longer holds the tested bytes: the copy is noticed after
\* os.replace, or fails because there is nothing to copy.
ApplyMismatch(p) ==
    /\ pc = "replace" /\ p \in todo
    /\ Proposed(p) # tested[cur][p]
    /\ pc' = "restore" /\ todo' = changed[cur]
    /\ IF Proposed(p) = Absent
         THEN UNCHANGED project
         ELSE /\ live' = [live EXCEPT ![p] = Proposed(p)]
              /\ author' = [author EXCEPT ![p] = cur]
    /\ UNCHANGED <<cur, plan, edits, snap, disk, aborted, budget>>

LiveIsTested == \A p \in changed[cur] : live[p] = tested[cur][p]

ApplyCommit ==
    /\ pc = "verify"
    /\ LiveIsTested
    /\ state' = [state EXCEPT ![cur] = "applied"]
    /\ End
    /\ UNCHANGED <<allowed, base, worktree, changed, tested, backup, project,
                   aborted, budget>>

ApplyRefuted ==
    /\ pc = "verify"
    /\ ~LiveIsTested
    /\ pc' = "restore" /\ todo' = changed[cur]
    /\ UNCHANGED <<cur, plan, edits, snap, disk, project, aborted, budget>>

\* restore_all, for one path. It verifies at the end and then re-raises, or
\* raises that it could not verify: the operation is over either way.
Restore(p) ==
    /\ Visit(p, "restore", "idle", {})
    /\ live' = [live EXCEPT ![p] = backup[cur][p]]
    /\ author' = [author EXCEPT ![p] = Nobody]
    /\ UNCHANGED <<disk, aborted, budget>>

-----------------------------------------------------------------------------
(* rollback: refuse unless every file is as applied, then put the backups  *)
(* back one by one; nothing undoes a rollback that stops halfway.          *)

\* A rollback that does not look at the live files first.
RollbackStartUnchecked(w) ==
    /\ state[w] = "applied"
    /\ Begin(w, "undo", changed[w])
    /\ UNCHANGED <<plan, edits, snap, disk, project, aborted, budget>>

RollbackStart(w) ==
    /\ state[w] = "applied"
    /\ \A p \in changed[w] : live[p] = tested[w][p]
    /\ Begin(w, "undo", changed[w])
    /\ UNCHANGED <<plan, edits, snap, disk, project, aborted, budget>>

Rollback(p) ==
    /\ Visit(p, "undo", "undone", {})
    /\ live' = [live EXCEPT ![p] = backup[cur][p]]
    /\ author' = [author EXCEPT ![p] = Nobody]
    /\ UNCHANGED <<disk, aborted, budget>>

LiveIsRestored == \A p \in changed[cur] : live[p] = backup[cur][p]

RollbackCommit ==
    /\ pc = "undone"
    /\ LiveIsRestored
    /\ state' = [state EXCEPT ![cur] = "rolled_back"]
    /\ End
    /\ UNCHANGED <<allowed, base, worktree, changed, tested, backup, project,
                   aborted, budget>>

RollbackRefuted ==
    /\ pc = "undone"
    /\ ~LiveIsRestored
    /\ End
    /\ UNCHANGED <<disk, project, aborted, budget>>

-----------------------------------------------------------------------------
(* Failing calls.  An exception before the first live write, or in         *)
(* create and execute, leaves the operation with nothing undone.           *)

Fault ==
    /\ faults < MaxFaults
    /\ faults' = faults + 1
    /\ UNCHANGED <<raced, crashes, hand>>

AbortedBy == IF pc \in {"edit", "test"} THEN {cur} ELSE {}

OperationFails ==
    /\ pc \in {"capture", "edit", "test", "backup"}
    /\ Fault
    /\ End
    /\ aborted' = aborted \cup AbortedBy
    /\ UNCHANGED <<disk, project>>

\* The exception handler of apply without the call of restore_all.
ApplyFailsUnrestored ==
    /\ pc \in {"replace", "verify"}
    /\ Fault
    /\ End
    /\ UNCHANGED <<disk, project, aborted>>

\* A replace that fails, or the save of the receipt.
ApplyFails ==
    /\ pc \in {"replace", "verify"}
    /\ Fault
    /\ pc' = "restore" /\ todo' = changed[cur]
    /\ UNCHANGED <<cur, plan, edits, snap, disk, project, aborted>>

RestoreFails ==
    /\ pc = "restore"
    /\ Fault
    /\ End
    /\ UNCHANGED <<disk, project, aborted>>

RollbackFails ==
    /\ pc \in {"undo", "undone"}
    /\ Fault
    /\ End
    /\ UNCHANGED <<disk, project, aborted>>

\* The process dies and is started again: nothing resumes the operation.
Crash ==
    /\ pc # "idle"
    /\ crashes < MaxCrashes
    /\ crashes' = crashes + 1
    /\ aborted' = aborted \cup AbortedBy
    /\ End
    /\ UNCHANGED <<disk, project, raced, faults, hand>>

-----------------------------------------------------------------------------
(* People, with an editor, on the live project or on a tested worktree.    *)

Touch(p) ==
    /\ hand < MaxEdits
    /\ Racing \/ pc = "idle"
    /\ hand' = hand + 1
    /\ raced' = IF pc = "idle" THEN raced ELSE raced \cup {p}
    /\ UNCHANGED <<faults, crashes>>

LiveEdit(p, v) ==
    /\ Touch(p)
    /\ v # live[p]
    /\ live' = [live EXCEPT ![p] = v]
    /\ author' = [author EXCEPT ![p] = Nobody]
    /\ UNCHANGED <<disk, memory, aborted>>

WorktreeEdit(w, p, v) ==
    /\ Touch(p)
    /\ state[w] = "tests_passed"
    /\ v # worktree[w][p]
    /\ worktree' = [worktree EXCEPT ![w][p] = v]
    /\ UNCHANGED <<state, allowed, base, changed, tested, backup, memory,
                   project, aborted>>

-----------------------------------------------------------------------------
Create(w) == \E scope \in SUBSET Path : CreateCopy(w, scope)

Execute(w) ==
    \E paths \in SUBSET Path :
        \E new \in [Path -> FileVal] : ExecuteStart(w, paths, new)

Record == \E outcome \in TestOutcome : ExecuteRecord(outcome)

PathStep(p) ==
    \/ ExecuteEdit(p)
    \/ ExecuteNoOp(p)
    \/ ApplyBackup(p)
    \/ ApplyReplace(p)
    \/ ApplyMismatch(p)
    \/ Restore(p)
    \/ Rollback(p)

StoreStep ==
    \/ CreateCapture
    \/ ExecuteSnapshot
    \/ Record
    \/ ApplyCommit
    \/ ApplyRefuted
    \/ RollbackCommit
    \/ RollbackRefuted
    \/ \E p \in Path : PathStep(p)

Request(w) ==
    \/ Create(w)
    \/ Execute(w)
    \/ ApplyStart(w)
    \/ RollbackStart(w)

Failure ==
    \/ OperationFails
    \/ ApplyFails
    \/ RestoreFails
    \/ RollbackFails
    \/ Crash

Editor ==
    \E p \in Path, v \in FileVal :
        \/ LiveEdit(p, v)
        \/ \E w \in Workspace : WorktreeEdit(w, p, v)

Next ==
    \/ \E w \in Workspace : Request(w)
    \/ StoreStep
    \/ Failure
    \/ Editor

Spec == Init /\ [][Next]_vars

-----------------------------------------------------------------------------
\* Types of the variables, as workspace.json and the locals of the
\* operations hold them.
TypeOK ==
    /\ live \in [Path -> FileVal]
    /\ state \in [Workspace -> State]
    /\ allowed \in [Workspace -> SUBSET Path]
    /\ base \in [Workspace -> [Path -> FileVal]]
    /\ worktree \in [Workspace -> [Path -> FileVal]]
    /\ changed \in [Workspace -> SUBSET Path]
    /\ tested \in [Workspace -> [Path -> FileVal]]
    /\ backup \in [Workspace -> [Path -> FileVal]]
    /\ pc \in Step
    /\ IF pc = "idle" THEN cur = Nobody ELSE cur \in Workspace
    /\ todo \in SUBSET Path /\ plan \in SUBSET Path
    /\ edits \in [Path -> FileVal] /\ snap \in [Path -> FileVal]
    /\ author \in [Path -> Workspace \cup {Nobody}]
    /\ aborted \in SUBSET Workspace /\ raced \in SUBSET Path
    /\ faults \in Nat /\ crashes \in Nat /\ hand \in Nat

\* Whatever fails, crashes or interleaves, a live file that some workspace
\* wrote is in the approved scope of that workspace, its tests passed, it has
\* not been rolled back, and the file holds the bytes whose hash was recorded
\* after the tests (execute, _validate_for_apply, apply, rollback).  Only a
\* person who edits the worktree during apply can put other bytes there.
OnlyTestedCodeIsLive ==
    \A p \in Path : author[p] # Nobody =>
        LET w == author[p] IN
            /\ p \in changed[w] /\ changed[w] \subseteq allowed[w]
            /\ state[w] \in {"tests_passed", "applied"}
            /\ live[p] = tested[w][p] \/ p \in raced

\* With one failing call, no crash and no edit during an operation, restore_all
\* of apply leaves no file of a workspace that is not applied in the live
\* project (test_mid_apply_failure_restores_every_live_file).
FailedApplyLeavesNothing ==
    pc = "idle" /\ crashes = 0 /\ faults <= 1 /\ raced = {} =>
        \A p \in Path : author[p] # Nobody => state[author[p]] = "applied"

\* Workspaces made from different states of the project do not undo each other's
\* work: while nobody edits by hand and nothing fails, every file of an applied
\* workspace holds what it applied, or an applied workspace that was made from
\* just that has replaced it, whatever is applied and rolled back in between
\* ("Owner may restore the preserved pre-application file set if live files
\* still match the application receipt.", DEVELOPER_WORKSPACE.md).
AppliedWorkIsNotLost ==
    pc = "idle" /\ hand = 0 /\ faults = 0 /\ crashes = 0 =>
        \A w \in Workspace : state[w] = "applied" => \A p \in changed[w] :
            \/ live[p] = tested[w][p]
            \/ \E v \in Workspace : /\ state[v] = "applied" /\ p \in changed[v]
                                    /\ base[v][p] = tested[w][p]

\* apply, restore_all and rollback replace only content they know: the content
\* captured when the workspace was created or the content it was tested with.
\* A person's edit finished before the operation began is never overwritten.
StoreOverwritesOnlyKnownContent ==
    [][\A p \in Path :
          live'[p] # live[p] /\ hand' = hand /\ p \notin raced =>
              live[p] \in {base[cur][p], tested[cur][p]}]_vars

\* The files whose worktree content differs from the captured base.
Deviates(w) == {p \in allowed[w] : worktree[w][p] # base[w][p]}

\* What the Owner reviews (changed_paths and the diff built from them) covers
\* every approved file in which the tested worktree deviates from the base.
EvidenceCoversTestedTree ==
    \A w \in Workspace :
        state[w] = "tests_passed" => Deviates(w) \subseteq changed[w]

\* The same, for a workspace of which no execution was broken off and whose
\* files nobody edited by hand: the case the code gets right.
CleanEvidenceCoversTestedTree ==
    hand = 0 =>
        \A w \in Workspace \ aborted :
            state[w] = "tests_passed" => Deviates(w) \subseteq changed[w]

-----------------------------------------------------------------------------
(* The refinement: until an apply or a rollback has finished, the files it *)
(* is working on count as what they were when it began.                    *)

Applying == pc \in {"backup", "replace", "verify", "restore"}
Undoing  == pc \in {"undo", "undone"}

LiveBar ==
    [p \in Path |->
        IF Applying /\ p \in changed[cur] THEN base[cur][p]
        ELSE IF Undoing /\ p \in changed[cur] THEN tested[cur][p]
        ELSE live[p]]

StatusBar ==
    [w \in Workspace |->
        IF state[w] = "tests_passed" THEN "ready"
        ELSE IF state[w] = "applied" THEN "applied"
        ELSE IF state[w] = "rolled_back" THEN "undone"
        ELSE "draft"]

Governed == INSTANCE GovernedChange
    WITH live <- LiveBar, status <- StatusBar, scope <- changed,
         before <- base, after <- tested, edits <- hand

\* As long as nobody edits files while an operation runs, the store makes only
\* the changes GovernedChange allows: sets of files go live and come back
\* whole unless a crash or an unrecovered failure tears them.
ImplementsGovernedChange == Governed!Spec
=============================================================================
