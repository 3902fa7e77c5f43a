--------------------------- MODULE RepairGovernance ---------------------------
(***************************************************************************)
(* The controlled repair lane: failure_dashboard.py, the worker of         *)
(* forge_worker.py, the proposals of sandbox.py and the live application   *)
(* of live_apply.py, driven by the job routes of api.py.                   *)
(*                                                                         *)
(* A failure becomes at most one work item, so an Item stands for both.    *)
(* The dashboard keeps its whole document in memory (mem) and saves it     *)
(* whole (disk) under one lock.  The worker runs between two dashboard     *)
(* operations without the lock: it copies the project into a proposal,     *)
(* drafts one edit and runs the tests.  The Owner's approval then holds    *)
(* the lock while it changes, in this order, proposal.json, the live file, *)
(* proposal.json again and the dashboard document.                         *)
(*                                                                         *)
(* One live file is followed: repairs of other files, and every other      *)
(* lane, meet it only in the integrity check of a test run, which any      *)
(* write below the project directory disturbs.                             *)
(***************************************************************************)
EXTENDS Naturals, FiniteSets

CONSTANTS
    Item,           \* failures, with their work items
    Content,        \* what the live file can hold
    None,           \* no content, nobody
    Durable,        \* was the dashboard given a state file?
    MaxFaults,      \* bound on failing operating-system calls
    MaxCrashes,     \* bound on restarts of the process
    MaxEdits        \* bound on edits made by people

ASSUME ConstantsAssumption ==
    /\ None \notin Item \cup Content
    /\ Durable \in BOOLEAN
    /\ MaxFaults \in Nat /\ MaxCrashes \in Nat /\ MaxEdits \in Nat

VARIABLES
    \* FailureDashboard
    mem,            \* failures and dev_items in memory
    disk,           \* the saved document
    \* verify_approved_job, one thread per job
    worker,         \* its next step
    expired,        \* items whose requester is no longer signed in
    snap,           \* live_before
    calm,           \* items whose project snapshot nothing has disturbed
    outcome,        \* the state of the ForgeResult it returns
    \* .sad_sandbox/<proposal_id>
    status,         \* "status" of proposal.json
    sandbox,        \* the proposal's copy of the target
    base,           \* base_target_sha256
    original,       \* what draft_diff was made from
    drafted,        \* what draft_diff leads to
    tested,         \* tested_target_sha256
    backup,         \* live_backup.<target>
    \* decide, which holds the lock from beginning to end
    pc,             \* its next step
    cur,            \* its work item
    \* The project
    live,
    \* History
    author,         \* the item whose bytes the live file holds
    told,           \* the decision a successful reply has shown
    torn,           \* items whose approval broke off with the file replaced
    raced,          \* has a person edited a file while decide was running?
    faults, crashes, hand

job      == <<worker, expired, snap, outcome>>
proposal == <<status, sandbox, base, original, drafted, tested, backup>>
decision == <<pc, cur>>
project  == <<live, author>>
budget   == <<faults, crashes, hand>>
vars == <<mem, disk, worker, expired, snap, calm, outcome,
          status, sandbox, base, original, drafted, tested, backup,
          pc, cur, live, author, told, torn, raced, faults, crashes, hand>>

Doc == [failure  : {"none", "new", "in_review", "pushed_to_development",
                    "closed"},
        work     : {"none", "triaged", "approved_for_isolated_work",
                    "in_forge", "awaiting_human_decision", "approved",
                    "rejected", "closed"},
        result   : {"none", "succeeded", "failed"},
        decision : {"none", "approve", "reject"}]

Status == {"none", "sandbox_created", "draft_created", "sandbox_tests_passed",
           "sandbox_tests_failed", "draft_approved_by_human",
           "applied_to_live_project", "rolled_back"}

NoDoc == [failure |-> "none", work |-> "none", result |-> "none",
          decision |-> "none"]

Init ==
    /\ mem  = [i \in Item |-> NoDoc]
    /\ disk = mem
    /\ worker  = [i \in Item |-> "none"]
    /\ expired = {}
    /\ snap    = [i \in Item |-> None]
    /\ calm    = {}
    /\ outcome = [i \in Item |-> "none"]
    /\ status   = [i \in Item |-> "none"]
    /\ sandbox  = [i \in Item |-> None]
    /\ base     = [i \in Item |-> None]
    /\ original = [i \in Item |-> None]
    /\ drafted  = [i \in Item |-> None]
    /\ tested   = [i \in Item |-> None]
    /\ backup   = [i \in Item |-> None]
    /\ pc = "idle" /\ cur = None
    /\ live \in Content
    /\ author = None
    /\ told = [i \in Item |-> "none"]
    /\ torn = {} /\ raced = FALSE
    /\ faults = 0 /\ crashes = 0 /\ hand = 0

Fault ==
    /\ faults < MaxFaults
    /\ faults' = faults + 1
    /\ UNCHANGED <<crashes, hand>>

-----------------------------------------------------------------------------
(* The dashboard: an operation changes the document of one item in memory  *)
(* and saves all of it; when the save fails the caller gets an exception   *)
(* and the change stays in memory.                                         *)

Saved ==
    /\ disk' = IF Durable THEN mem' ELSE disk
    /\ calm' = IF Durable THEN {} ELSE calm

Save(i) ==
    \/ /\ Saved
       /\ told' = [told EXCEPT ![i] = mem'[i].decision]
       /\ UNCHANGED budget
    \/ /\ Durable /\ Fault
       /\ UNCHANGED <<disk, calm, told>>

Update(i, doc) ==
    /\ pc = "idle"
    /\ mem' = [mem EXCEPT ![i] = doc]
    /\ Save(i)

Elsewhere == UNCHANGED <<proposal, decision, project, torn, raced>>

\* A repetition of a known failure is merged into it, whatever its state.
Ingest(i) ==
    /\ Update(i, IF mem[i].failure = "none"
                   THEN [mem[i] EXCEPT !.failure = "new"] ELSE mem[i])
    /\ UNCHANGED job /\ Elsewhere

MarkInReview(i) ==
    /\ mem[i].failure = "new"
    /\ Update(i, [mem[i] EXCEPT !.failure = "in_review"])
    /\ UNCHANGED job /\ Elsewhere

PushToDevelopment(i) ==
    /\ mem[i].failure # "none" /\ mem[i].work = "none"
    /\ Update(i, [mem[i] EXCEPT !.failure = "pushed_to_development",
                                !.work = "triaged"])
    /\ UNCHANGED job /\ Elsewhere

ApproveIsolatedWork(i) ==
    /\ mem[i].work = "triaged"
    /\ Update(i, [mem[i] EXCEPT !.work = "approved_for_isolated_work"])
    /\ UNCHANGED job /\ Elsewhere

\* Route start: the job is handed out, but no worker of this process runs it.
StartForge(i) ==
    /\ mem[i].work = "approved_for_isolated_work"
    /\ Update(i, [mem[i] EXCEPT !.work = "in_forge"])
    /\ UNCHANGED job /\ Elsewhere

\* Route execute: the worker runs unless start_forge raised.
ExecuteForge(i) ==
    /\ mem[i].work = "approved_for_isolated_work"
    /\ Update(i, [mem[i] EXCEPT !.work = "in_forge"])
    /\ worker' = IF faults' = faults THEN [worker EXCEPT ![i] = "copy"]
                                     ELSE worker
    /\ expired' = expired \ {i}
    /\ UNCHANGED <<snap, outcome>> /\ Elsewhere

\* A dashboard that takes only the results of passing tests.
RecordForgeResultIfPassed(i) ==
    /\ worker[i] = "record" /\ outcome[i] = "succeeded"
    /\ i \notin expired
    /\ mem[i].work = "in_forge"
    /\ Update(i, [mem[i] EXCEPT !.work = "awaiting_human_decision",
                                !.result = outcome[i]])
    /\ worker' = [worker EXCEPT ![i] = "none"]
    /\ UNCHANGED <<expired, snap, outcome>> /\ Elsewhere

\* Both verdicts await a human; a result is recorded once per job.
RecordForgeResult(i) ==
    /\ worker[i] = "record"
    /\ i \notin expired
    /\ mem[i].work = "in_forge"
    /\ Update(i, [mem[i] EXCEPT !.work = "awaiting_human_decision",
                                !.result = outcome[i]])
    /\ worker' = [worker EXCEPT ![i] = "none"]
    /\ UNCHANGED <<expired, snap, outcome>> /\ Elsewhere

\* The token of the execute request is checked again: the result is dropped,
\* and the item stays in Forge.
ResultRefused(i) ==
    /\ worker[i] = "record"
    /\ i \in expired
    /\ pc = "idle"
    /\ worker' = [worker EXCEPT ![i] = "none"]
    /\ UNCHANGED <<mem, disk, calm, told, expired, snap, outcome, budget>>
    /\ Elsewhere

\* While the worker runs, the session of its request ends: a logout, the idle
\* limit, an eviction, or an account that is disabled or loses its role.
SessionEnds(i) ==
    /\ worker[i] # "none"
    /\ i \notin expired
    /\ expired' = expired \cup {i}
    /\ UNCHANGED <<mem, disk, calm, told, worker, snap, outcome, budget>>
    /\ Elsewhere

Close(i) ==
    /\ mem[i].work \in {"approved", "rejected"}
    /\ Update(i, [mem[i] EXCEPT !.failure = "closed", !.work = "closed"])
    /\ UNCHANGED job /\ Elsewhere

\* decide with "reject"; when the save fails the decision is taken back.
Reject(i) ==
    /\ mem[i].work = "awaiting_human_decision"
    /\ pc = "idle"
    /\ mem' = [mem EXCEPT ![i].work = "rejected", ![i].decision = "reject"]
    /\ Saved
    /\ told' = [told EXCEPT ![i] = "reject"]
    /\ UNCHANGED <<job, budget>> /\ Elsewhere

-----------------------------------------------------------------------------
(* verify_approved_job, without the dashboard's lock.                      *)

Work(i, from, to) ==
    /\ worker[i] = from
    /\ worker' = [worker EXCEPT ![i] = to]

Unlocked ==
    UNCHANGED <<mem, disk, decision, project, told, torn, raced, expired>>

CopyProject(i) ==
    /\ Work(i, "copy", "base")
    /\ sandbox' = [sandbox EXCEPT ![i] = live]
    /\ UNCHANGED <<snap, calm, outcome, status, base, original, drafted,
                   tested, backup, budget>> /\ Unlocked

RecordBase(i) ==
    /\ Work(i, "base", "draft")
    /\ base' = [base EXCEPT ![i] = live]
    /\ status' = [status EXCEPT ![i] = "sandbox_created"]
    /\ UNCHANGED <<snap, calm, outcome, sandbox, original, drafted,
                   tested, backup, budget>> /\ Unlocked

CreateDraft(i, content) ==
    /\ Work(i, "draft", "snapshot")
    /\ content # sandbox[i]
    /\ original' = [original EXCEPT ![i] = sandbox[i]]
    /\ drafted' = [drafted EXCEPT ![i] = content]
    /\ sandbox' = [sandbox EXCEPT ![i] = content]
    /\ status' = [status EXCEPT ![i] = "draft_created"]
    /\ UNCHANGED <<snap, calm, outcome, base, tested, backup, budget>>
    /\ Unlocked

\* An invalid job, or a model that does not return one usable edit.
NoDraft(i) ==
    /\ worker[i] \in {"copy", "draft"}
    /\ worker' = [worker EXCEPT ![i] = "record"]
    /\ outcome' = [outcome EXCEPT ![i] = "failed"]
    /\ UNCHANGED <<snap, calm, proposal, budget>> /\ Unlocked

SnapshotProject(i) ==
    /\ Work(i, "snapshot", "test")
    /\ snap' = [snap EXCEPT ![i] = live]
    /\ calm' = calm \cup {i}
    /\ UNCHANGED <<outcome, proposal, budget>> /\ Unlocked

\* The tests pass only in a container, on an unchanged project.
TestsPassed(i) ==
    /\ Work(i, "test", "record")
    /\ live = snap[i] /\ i \in calm
    /\ status' = [status EXCEPT ![i] = "sandbox_tests_passed"]
    /\ tested' = [tested EXCEPT ![i] = sandbox[i]]
    /\ outcome' = [outcome EXCEPT ![i] = "succeeded"]
    /\ calm' = calm \ {i}
    /\ UNCHANGED <<snap, sandbox, base, original, drafted, backup, budget>>
    /\ Unlocked

\* Failing tests, no container, or a project that changed meanwhile.
TestsFailed(i) ==
    /\ Work(i, "test", "record")
    /\ status' = [status EXCEPT ![i] = "sandbox_tests_failed"]
    /\ tested' = [tested EXCEPT ![i] = None]
    /\ outcome' = [outcome EXCEPT ![i] = "failed"]
    /\ calm' = calm \ {i}
    /\ UNCHANGED <<snap, sandbox, base, original, drafted, backup, budget>>
    /\ Unlocked

\* An exception that verify_approved_job does not turn into a failed result.
WorkerRaises(i) ==
    /\ worker[i] \notin {"none", "record"}
    /\ worker' = [worker EXCEPT ![i] = "none"]
    /\ calm' = calm \ {i}
    /\ Fault
    /\ UNCHANGED <<snap, outcome, proposal>> /\ Unlocked

-----------------------------------------------------------------------------
(* decide with "approve", by the Owner.                                    *)

Go(from, to) ==
    /\ pc = from
    /\ pc' = to
    /\ UNCHANGED cur

\* The lock is released, and the item remains current.
ReturnKeepsItem == pc' = "idle" /\ UNCHANGED cur

Return == pc' = "idle" /\ cur' = None

Locked == UNCHANGED <<mem, disk, job, told, raced>>

\* The draft_diff, made again from the live file and the proposal's copy.
SameDiff(i) == live = original[i] /\ sandbox[i] = drafted[i]

\* An approval that does not compare the two diffs.
ApproveProposalUnseen(i) ==
    /\ pc = "idle"
    /\ mem[i].work = "awaiting_human_decision" /\ mem[i].result = "succeeded"
    /\ status[i] = "sandbox_tests_passed"
    /\ sandbox[i] = tested[i]
    /\ status' = [status EXCEPT ![i] = "draft_approved_by_human"]
    /\ pc' = "apply" /\ cur' = i
    /\ UNCHANGED <<calm, sandbox, base, original, drafted, tested, backup,
                   project, torn, budget>> /\ Locked

ApproveProposal(i) ==
    /\ pc = "idle"
    /\ mem[i].work = "awaiting_human_decision" /\ mem[i].result = "succeeded"
    /\ status[i] = "sandbox_tests_passed"
    /\ sandbox[i] = tested[i] /\ SameDiff(i)
    /\ status' = [status EXCEPT ![i] = "draft_approved_by_human"]
    /\ pc' = "apply" /\ cur' = i
    /\ UNCHANGED <<calm, sandbox, base, original, drafted, tested, backup,
                   project, torn, budget>> /\ Locked

\* apply_approved_proposal, up to the first write to the live project.
ValidForApply ==
    live = base[cur] /\ sandbox[cur] = tested[cur] /\ sandbox[cur] # live

Backup ==
    /\ Go("apply", "replace")
    /\ ValidForApply
    /\ backup' = [backup EXCEPT ![cur] = live]
    /\ UNCHANGED <<calm, status, sandbox, base, original, drafted, tested,
                   project, torn, budget>> /\ Locked

\* The item still awaits a decision; its proposal remains approved.
ApplyRefused ==
    /\ pc = "apply"
    /\ ~ValidForApply
    /\ Return
    /\ UNCHANGED <<calm, proposal, project, torn, budget>> /\ Locked

Replace ==
    /\ Go("replace", "verify")
    /\ live' = sandbox[cur]
    /\ author' = cur
    /\ UNCHANGED <<calm, proposal, torn, budget>> /\ Locked

Verified ==
    /\ Go("verify", "receipt")
    /\ live = tested[cur]
    /\ UNCHANGED <<calm, proposal, project, torn, budget>> /\ Locked

Refuted ==
    /\ Go("verify", "restore")
    /\ live # tested[cur]
    /\ UNCHANGED <<calm, proposal, project, torn, budget>> /\ Locked

Restore ==
    /\ pc = "restore"
    /\ Return
    /\ live' = backup[cur]
    /\ author' = None
    /\ UNCHANGED <<calm, proposal, torn, budget>> /\ Locked

Receipt ==
    /\ Go("receipt", "save")
    /\ status' = [status EXCEPT ![cur] = "applied_to_live_project"]
    /\ UNCHANGED <<calm, sandbox, base, original, drafted, tested, backup,
                   project, torn, budget>> /\ Locked

\* The document is saved before the decision is entered in it.
SaveDecisionTooEarly ==
    /\ pc = "save"
    /\ mem' = [mem EXCEPT ![cur].work = "approved",
                          ![cur].decision = "approve"]
    /\ disk' = IF Durable THEN mem ELSE disk
    /\ calm' = IF Durable THEN {} ELSE calm
    /\ told' = [told EXCEPT ![cur] = "approve"]
    /\ Return
    /\ UNCHANGED <<job, proposal, project, torn, raced, budget>>

SaveDecision ==
    /\ pc = "save"
    /\ mem' = [mem EXCEPT ![cur].work = "approved",
                          ![cur].decision = "approve"]
    /\ Saved
    /\ told' = [told EXCEPT ![cur] = "approve"]
    /\ Return
    /\ UNCHANGED <<job, proposal, project, torn, raced, budget>>

\* The save failed: memory is as before, and the live file is put back.
Undo ==
    /\ Go("undo", "undone")
    /\ live = tested[cur]
    /\ live' = backup[cur]
    /\ author' = None
    /\ UNCHANGED <<calm, proposal, torn, budget>> /\ Locked

\* The proposal says so only afterwards, and only of a file it knows.
UndoRecorded ==
    /\ pc = "undone"
    /\ live = base[cur]
    /\ Return
    /\ status' = [status EXCEPT ![cur] = "rolled_back"]
    /\ UNCHANGED <<calm, sandbox, base, original, drafted, tested, backup,
                   project, torn, budget>> /\ Locked

UndoRefused ==
    /\ \/ pc = "undo" /\ live # tested[cur]
       \/ pc = "undone" /\ live # base[cur]
    /\ Return
    /\ torn' = torn \cup {cur}
    /\ UNCHANGED <<calm, proposal, project, budget>> /\ Locked

-----------------------------------------------------------------------------
(* Failing calls during decide.                                            *)

\* Before the live write: nothing to undo.
BackupFails ==
    /\ pc = "apply"
    /\ Fault
    /\ Return
    /\ UNCHANGED <<calm, proposal, project, torn>> /\ Locked

\* During it: the exception handler restores the file.
ReplaceFails ==
    /\ pc \in {"replace", "verify"}
    /\ Fault
    /\ pc' = "restore" /\ UNCHANGED cur
    /\ UNCHANGED <<calm, proposal, project, torn>> /\ Locked

\* proposal.json is written after that handler: nothing puts the file back.
BreaksOff ==
    /\ pc \in {"restore", "receipt", "undo", "undone"}
    /\ Fault
    /\ Return
    /\ torn' = torn \cup {cur}
    /\ UNCHANGED <<calm, proposal, project>> /\ Locked

\* An exception handler that reverts the document but not the live file.
SaveFailsUndoForgotten ==
    /\ pc = "save" /\ Durable
    /\ Fault
    /\ Return
    /\ UNCHANGED <<calm, proposal, project, torn>> /\ Locked

\* An exception handler that puts the live file back but not the document.
SaveFailsKeepsDecision ==
    /\ pc = "save" /\ Durable
    /\ Fault
    /\ pc' = "undo" /\ UNCHANGED cur
    /\ mem' = [mem EXCEPT ![cur].work = "approved",
                          ![cur].decision = "approve"]
    /\ UNCHANGED <<disk, job, told, raced, calm, proposal, project, torn>>

SaveFails ==
    /\ pc = "save" /\ Durable
    /\ Fault
    /\ pc' = "undo" /\ UNCHANGED cur
    /\ UNCHANGED <<calm, proposal, project, torn>> /\ Locked

\* The process restarts: the document is loaded again, every thread is gone,
\* and the new process cannot authenticate a result of the old one.
Crash ==
    /\ crashes < MaxCrashes
    /\ crashes' = crashes + 1
    /\ mem' = IF Durable THEN disk ELSE [i \in Item |-> NoDoc]
    /\ worker' = [i \in Item |-> "none"]
    /\ calm' = {}
    /\ Return
    /\ torn' = IF pc \in {"verify", "restore", "receipt", "save", "undo",
                           "undone"}
                 THEN torn \cup {cur} ELSE torn
    /\ UNCHANGED <<disk, expired, snap, outcome, proposal, project, told,
                   raced, faults, hand>>

-----------------------------------------------------------------------------
(* People with an editor, and the command line of app.py.                  *)

Touch ==
    /\ hand < MaxEdits
    /\ hand' = hand + 1
    /\ raced' = (raced \/ pc # "idle")
    /\ UNCHANGED <<faults, crashes>>

EditLive(content) ==
    /\ Touch
    /\ content # live
    /\ live' = content
    /\ author' = None
    /\ UNCHANGED <<mem, disk, job, calm, proposal, decision, told, torn>>

EditSandbox(i, content) ==
    /\ Touch
    /\ status[i] # "none" /\ content # sandbox[i]
    /\ sandbox' = [sandbox EXCEPT ![i] = content]
    /\ UNCHANGED <<mem, disk, job, calm, status, base, original, drafted,
                   tested, backup, decision, project, told, torn>>

\* "approve proposal" approves without applying, from another process.
CommandLineApproves(i) ==
    /\ Touch
    /\ status[i] = "sandbox_tests_passed"
    /\ sandbox[i] = tested[i] /\ SameDiff(i)
    /\ status' = [status EXCEPT ![i] = "draft_approved_by_human"]
    /\ UNCHANGED <<mem, disk, job, calm, sandbox, base, original, drafted,
                   tested, backup, decision, project, told, torn>>

-----------------------------------------------------------------------------
Triage(i) ==
    \/ Ingest(i)
    \/ MarkInReview(i)
    \/ PushToDevelopment(i)
    \/ ApproveIsolatedWork(i)
    \/ StartForge(i)
    \/ ExecuteForge(i)
    \/ Close(i)

Worker(i) ==
    \/ CopyProject(i)
    \/ RecordBase(i)
    \/ \E content \in Content : CreateDraft(i, content)
    \/ NoDraft(i)
    \/ SnapshotProject(i)
    \/ TestsPassed(i)
    \/ TestsFailed(i)
    \/ RecordForgeResult(i)
    \/ ResultRefused(i)

Decide(i) == Reject(i) \/ ApproveProposal(i)

Deciding ==
    \/ Backup
    \/ ApplyRefused
    \/ Replace
    \/ Verified
    \/ Refuted
    \/ Restore
    \/ Receipt
    \/ SaveDecision
    \/ Undo
    \/ UndoRecorded
    \/ UndoRefused

Failure ==
    \/ \E i \in Item : WorkerRaises(i)
    \/ BackupFails
    \/ ReplaceFails
    \/ BreaksOff
    \/ SaveFails
    \/ Crash

Person ==
    \/ \E content \in Content : EditLive(content)
    \/ \E i \in Item, content \in Content : EditSandbox(i, content)
    \/ \E i \in Item : CommandLineApproves(i)

Next ==
    \/ \E i \in Item : Triage(i) \/ Worker(i) \/ Decide(i) \/ SessionEnds(i)
    \/ Deciding
    \/ Failure
    \/ Person

Spec == Init /\ [][Next]_vars

\* A request runs in a thread of its own, the planner and the container have
\* timeouts, and the threads that hold or want the lock are scheduled.
Fairness ==
    /\ \A i \in Item : WF_vars(Worker(i))
    /\ WF_vars(Deciding)

FairSpec == Spec /\ Fairness

-----------------------------------------------------------------------------
\* Types of the variables.
TypeOK ==
    /\ mem \in [Item -> Doc] /\ disk \in [Item -> Doc]
    /\ worker \in [Item -> {"none", "copy", "base", "draft", "snapshot",
                            "test", "record"}]
    /\ expired \in SUBSET Item
    /\ snap \in [Item -> Content \cup {None}]
    /\ calm \in SUBSET Item
    /\ outcome \in [Item -> {"none", "succeeded", "failed"}]
    /\ status \in [Item -> Status]
    /\ sandbox \in [Item -> Content \cup {None}]
    /\ base \in [Item -> Content \cup {None}]
    /\ original \in [Item -> Content \cup {None}]
    /\ drafted \in [Item -> Content \cup {None}]
    /\ tested \in [Item -> Content \cup {None}]
    /\ backup \in [Item -> Content \cup {None}]
    /\ pc \in {"idle", "apply", "replace", "verify", "restore", "receipt",
               "save", "undo", "undone"}
    /\ IF pc = "idle" THEN cur = None ELSE cur \in Item
    /\ live \in Content
    /\ author \in Item \cup {None}
    /\ told \in [Item -> {"none", "approve", "reject"}]
    /\ torn \in SUBSET Item /\ raced \in BOOLEAN
    /\ faults \in Nat /\ crashes \in Nat /\ hand \in Nat

\* However the sandbox, the live file and the commands interleave, bytes of a
\* proposal are live only after approve_sandbox_proposal, and they are the
\* tested bytes and the bytes the reviewed diff leads to.  Only a person who
\* edits files while the approval is running can change that.
OnlyReviewedRepairIsLive ==
    author # None /\ ~raced =>
        /\ status[author] \in {"draft_approved_by_human",
                               "applied_to_live_project"}
        /\ live = tested[author] /\ live = drafted[author]

\* apply, its restore and the rollback of decide replace only content they
\* know: what the reviewed diff was made from, or what was tested.  An edit
\* finished before the Owner's approval began is never overwritten.
RepairOverwritesOnlyKnownContent ==
    [][live' # live /\ hand' = hand /\ ~raced =>
          live \in {original[cur], tested[cur]}]_vars

\* An approval in the dashboard, in memory or saved, means that the proposal
\* was applied: apply_approved_proposal comes first, a failed save is undone.
ApprovedMeansApplied ==
    \A i \in Item : "approve" \in {mem[i].decision, disk[i].decision} =>
        status[i] = "applied_to_live_project"

\* Outside decide, live bytes of a proposal belong to an item its Owner
\* approved, unless the approval broke off after os.replace.
LiveMeansApproved ==
    pc = "idle" /\ author # None /\ author \notin torn /\ Durable =>
        disk[author].decision = "approve"

\* A decision that decide has returned is what the dashboard shows from then on,
\* restarts included (ALPHA_UAT.md, "repair approve/reject decisions are
\* recorded and visible after restart").
DecisionsSurviveRestart ==
    \A i \in Item : told[i] # "none" => mem[i].decision = told[i]

\* A job that a worker has begun comes before a human, passed or failed, when
\* no call fails, the process lives and whoever asked for the run stays signed
\* in until the worker is done.  Nothing else takes a result away: not another
\* item's decision holding the lock, nor a project that changes meanwhile.
EveryForgeRunReachesAHuman ==
    \A i \in Item :
        worker[i] # "none" ~>
            \/ mem[i].work = "awaiting_human_decision"
            \/ i \in expired
            \/ faults > 0 \/ crashes > 0
-----------------------------------------------------------------------------
(* The refinement: from the live write on, the file counts as what it was  *)
(* until the decision is saved or the approval is over.                    *)

Written == {"verify", "restore", "receipt", "save", "undo", "undone"}

LiveBar == IF pc \in Written /\ ~raced THEN backup[cur] ELSE live

DecisionBar == [i \in Item |-> disk[i].decision]

Governed == INSTANCE GovernedRepair
    WITH live <- LiveBar, decision <- DecisionBar, disturbed <- raced, edits <- hand

\* The lane makes only the changes GovernedRepair allows: whatever fails,
\* restarts or interleaves, the saved decision and the edit of the live file
\* come about together, on the reviewed draft, or the item is torn for good.
ImplementsGovernedRepair == Governed!Spec
=============================================================================
