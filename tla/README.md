# SAD-Core in TLA+

SAD-Core is a local-first AI platform: one Python process serves an HTTP API,
keeps its documents in one SQLite file and lets a local model change code only
under the Owner's control.  This directory holds TLA+ models of its core logic,
TLC configurations that check them on small instances, and TLAPS proofs of the
properties that matter most for every instance.  Paths such as
`live_apply.py:98` are relative to `src/`.

## 1. Inventory

Every store is a Python object with an `RLock`.  An operation takes the lock,
loads the whole JSON document, changes it and saves it (`runtime_document.py`
keeps it in SQLite, `os.replace` or a transaction makes one save atomic).  The
API serves each request in its own thread (`bounded_http.py`, at most 64), so
operations of different stores, and the unlocked parts of one, interleave.
Files of the project are not covered by any of these locks.

| Part | State | Operations | What is hard | What makes it correct |
|---|---|---|---|---|
| Developer workspaces `developer_workspace.py` | per workspace: state, approved paths, base and tested manifests, worktree, backups; the live project | create, execute, apply, rollback | several files replaced one by one; failure or crash in the middle; editors | only tested bytes in the approved scope go live, nobody's edit is overwritten, a failed apply leaves nothing |
| Controlled repair `failure_dashboard.py`, `forge_worker.py`, `sandbox.py`, `live_apply.py` | failures, work items, decisions in memory and saved; proposals on disk; the live file | ingest, review, push, approve isolated work, start, execute, record, decide, close | a worker without the lock, whose requester may lose the session; a decision that spans four writes; restarts | only reviewed and tested bytes go live; dashboard, proposal and project agree |
| Tool actions `tool_actions.py` | actions with arguments, hash, state | create, decide, execute | the effect is committed before the new state | executed at most once, only with the approved arguments |
| Memory `memory_store.py` | memories per account | create, update, delete, search, context plan | quota; budgeted selection with downgrades | account isolation; the plan keeps its budget and shows each memory as largely as fits |
| Accounts and sessions `auth.py` | accounts document, sessions in memory, failure counters | login, require, logout, change password, activate, profile | logout and require do not take the lock | revoked sessions stay revoked, lockout cannot be outrun |
| Runtime persistence `runtime_database.py`, `runtime_document.py` | SQLite file, plain or protected; legacy JSON and archives | load, save, import, protect | crash between the steps of an import; two kinds of stores | nothing lost, nothing imported twice, protected on a host that protects |
| Backup `backup_manager.py`, `portable_runtime.py` | archive, targets | create, verify, restore | restore replaces files one by one; a journal left by a crash or copied with a backup | all old or all new; what was restored is served |
| Mobile `mobile_access.py`, `mobile_gateway.py` | pairings, devices, attempt limiter | create and consume pairing, require, revoke, forget | limiter is asked and told outside one lock; a phone is checked before it is served | a code pairs one phone, which acts in its mode and not after its end; wrong codes are bounded |
| Listener `bounded_http.py`, `mobile_gateway.py` | permits, the accepting thread | accept, enter, leave | a permit changes threads; the TLS handshake is in the accepting thread | none lost: it admits again |
| Platform clients and events `platform_clients.py`, `platform_events.py` | clients with a secret, event log with numbers | create, rotate, revoke, authenticate; publish, read | retention against paging; secrets installed and sent late; lost answers | kept events are delivered once, in order; old secrets are dead |
| Conversations `conversation.py` | sessions, messages | create, append, archive | model call between two locked steps | limits hold, archived stays archived, replies answer whole turns |
| Forge learning `student_progress.py`, `forge_student.py` | progress per student | hint, complete | load and save locked separately | points, quests and companion agree; what no request overlapped is kept |
| CLI reports and proposals `app.py`, `evaluator.py` | failure reports, proposals | report, approve, draft, test, approve, export | every terminal is a process, reports have no lock, authority is asked at entry | told reports are kept, only governed drafts are exported |

Interactions: `api.py` calls one store per route, except for jobs (dashboard,
then worker, then dashboard), tool execution (tool store, then memory store) and
chat (conversation, memory, model, conversation).  Workspaces and repairs meet
in the live project, and both meet every other store in the fingerprint of the
project directory that a test run takes before and after.  `app.py` and
`mobile.py` are other entry points: the first is a process of its own, the second
serves the loopback API and the phones from one set of stores.

Parts without state transitions worth a model (registry, curricula, voice,
doctors and release gates, SDK, crypto wrappers) are listed in `PROJECT.json`
with the reason.

## 2. Plan

1. `DeveloperWorkspace` with the abstract `GovernedChange`: done, proved.
2. `RepairGovernance` with the abstract `GovernedRepair`: done, proved but for
   liveness.
3. `ToolActions` with the memory store in its own transaction: done, proved.
4. `AuthSessions`: login, lockout, sessions and the unlocked operations: done,
   proved.
5. `RuntimeState`: import, protection at rest, backup and restore, with crashes
   between the steps: done, proved.
6. `MobileGateway`, with limiter and admission: done, safety proved.
7. `PlatformEvents` with the abstract `EventFeed`: done, proved.
8. `Conversations`, `ForgeProgress`, `CommandLine`, `MemoryContext`, checked
   together by `MCStores`: done, proved.
9. Next would be workspaces and repairs over one live project, and updates of
   memories with the search index of the model prompt.

Modules get small instances (two or three objects of each kind, one failing
call, one crash).  Each theorem stands in the `_proofs` module of its component;
no module with a theorem uses a recursive operator.

## 3. Modules

### GovernedChange and DeveloperWorkspace

`GovernedChange` is what `DEVELOPER_WORKSPACE.md` promises: a tested set of
files goes live in one step over the files it was made from, and comes back in
one step while it is in place.  `Tear` is the exception the code does not
recover from: a crash, or a second failure, leaves whole files but a torn set.

`DeveloperWorkspace` is the code.  `live` is the project; `state`, `allowed`,
`base`, `worktree`, `changed`, `tested`, `backup` are a workspace on disk and
survive a crash; `pc`, `cur`, `todo`, `plan`, `edits`, `snap` are the operation
that holds the store's lock and its locals.  `create` is `CreateCopy`,
`CreateCapture`; `execute` is `ExecuteStart`, `ExecuteEdit` (or `ExecuteNoOp`)
per edit, `ExecuteSnapshot`, `ExecuteRecord`; `apply` is `ApplyStart`,
`ApplyBackup` and `ApplyReplace` per path, then `ApplyCommit` or `ApplyRefuted`
followed by `Restore`; `rollback` is `RollbackStart`, `Rollback`,
`RollbackCommit` or `RollbackRefuted`.  `OperationFails`, `ApplyFails`,
`RestoreFails`, `RollbackFails` are exceptions of a failing call where each
leads; `Crash` ends the operation anywhere.  `LiveEdit` and `WorktreeEdit` are
people.  `author`, `aborted` and `raced` are history that properties refer to.
A file is its content, a hash comparison equality, a missing file `Absent`.

### GovernedRepair and RepairGovernance

`GovernedRepair` is what the repair lane promises: an item gets one draft, the
Owner decides it once, and an approval is one step with its edit of the live
file, taken only on the content the draft was made from.  `Tear` is what the code
does not recover from (the finding at `live_apply.py:98`, a crash, an undo that
fails): the file is as before or as drafted, nothing is decided, and the item
can never be approved.  Once a person has edited a file during an approval
(`disturbed`) nothing is promised of the live file, but decisions are as before.

A failure leads to at most one work item, so one constant stands for both.
`mem` and `disk` are the dashboard in memory and as saved; `worker`, `snap`,
`outcome` a job's thread; `status`, `sandbox`, `base`, `original`, `drafted`,
`tested`, `backup` the proposal directory; `pc`, `cur` the Owner's approval, which
holds the dashboard's lock; `live` the one file all repairs aim at.  `expired` holds
the items whose requester is no longer signed in (`SessionEnds`): the route
records the worker's result with the token of its request, so what is left then is
`ResultRefused` instead of `RecordForgeResult`, and the item stays in Forge.
`calm` holds the items whose fingerprint no write has disturbed.  Dashboard
operations are single actions (they hold the lock and
save once, and a failing save leaves memory changed); the worker's steps
interleave with everything; the approval is `ApproveProposal`, `Backup` (or
`ApplyRefused`), `Replace`, `Verified` or `Refuted` and `Restore`, `Receipt`,
`SaveDecision`, with `BackupFails`, `ReplaceFails`, `BreaksOff`, `SaveFails`
and then `Undo` (the file) and `UndoRecorded` (the proposal), or
`UndoRefused`, where a call fails.  `Crash` reloads the
document.  People edit the file and the sandbox, and the CLI approves a proposal
on its own.  `Durable` says whether the dashboard has a state file.

`ImplementsGovernedRepair` maps the saved decisions to the abstract ones and the
live file to `LiveBar`: from the live write on it counts as its backup, until
the decision is saved or the approval is over.  So the abstract approval is the
code's save of the document, the last of its four writes, and every failure
between them has to come out as nothing at all or as a `Tear`.

### ToolActions

`state`, `owner`, `tool`, `args`, `hash`, `approved`, `born` are the stored
records of actions, `memory` says whose each stored memory is, `pc` and `cur`
are the execution that holds the lock of the actions.  `create` is `Stamp`
(identifier and time, before the lock) and `Create`, which also drops what is
`Evicted`, or `CreateFails`; `decide` is `Approve` or `Reject`; `execute` is
`Execute`, one tool (`Remember`, `Forget`, `Search`) or `Refused` or
`MemoryFull`, and `Record`; `Tampered` is their common exit for a record whose hash
does not match.  `ExecuteFails` is any exception that the handler does not take,
among them the failing save after the tool.  The memory store has a lock of its
own, so `MemoryCreate` and `MemoryDelete` interleave with an execution.
`Damage` changes stored arguments, alone or with their hash.  Arguments and their
hash are one value, memories have no content, and an identifier is not used
again while an action names it.  `platform.status` is a search without a query.

### AuthSessions

`doc` is the saved document of accounts; `live`, `owner`, `born`, `expired` are
the dict of sessions; `pc`, `op`, `who`, `tok`, `data`, `snap` are the operation
that holds the lock and its locals; `asked` and `copy` are requests that have
passed `require` and wait for the lock, or have loaded the accounts without it.
An operation is one action from the lock to its loaded and changed `data`
(`Login`, `LoginRefused`, `Bootstrap`, `CreateAccount`, and after `Ask`
`SetActive` and `ChangePassword`, or `AskRefused`, which for a wrong current
password changes no counter), then `Save` or `SaveFails`, then what it does
to the sessions: `Sweep` and `LoginSweep` or `DisableSweep`, `Keep`, or the
exception `SweepRaises` or `KeepRaises` when a `Logout` or a `RequireExpired`
took a session away in between.  `ProfileLoad` and `ProfileSave` are
`update_profile`.  `Expire` and `LockEnds` are time: a lock that is past is
dropped from every copy of the account, since no code tells it from none.
A password is its generation, so `key` (the password that entitles a session) can
be compared with the current one.  `torn` holds sessions that an operation
failed to revoke, `stale` says that a profile was saved over a change; both are
history and only name the exceptions of the properties.  A comprehension over the
dict and the assignment of its result are one step because CPython 3.11 and
3.12, which the project supports, do not switch threads between them.

### RuntimeState

`disk` holds the files of every document: at the root, in `local_data`
(`legacy`), imported (`archive`), and the database `db` with its rows and its
metadata and the `journal` beside it; `protect` is whether the host
protects at rest.  `pc`, `cur`, `todo` are a start of SAD, which opens its stores
one by one: `OpenStore` moves a root file, `OpenDatabase` is `_initialize`,
then `Import`, `Archive` (and `Unlink` where the archive is protected),
`SealArchive` for plain archives and `StoreReady`.  The stores of `Direct` (platform
clients and events, memories, tool actions) are no `RuntimeJSONDocument`: they
archive with a plain `os.replace` and convert no archive.  `SealArchive` is also a
step of SAD that is up, because settings and preferences open a
`RuntimeJSONDocument` at each use; `fresh` holds what `Direct` stores archived in the
present start.  Each step has the
refusal of the code (`OpenStoreRefused`, `Refused`, `ImportRefused`,
`ArchiveRefused`), `StartFails` is any other exception.  `Save` is a transaction.
`Crash` may leave a journal, and the next connection, of SAD or of a backup,
rolls back (`Recovered`): the database it belongs to is restored, of another one
any page may win.  A journal is also copied by a backup that lists the files
during a transaction (`Journals`), and restored like any other file.  `tool`,
`copy`, `pending`, `before`, `backup` are the command
of `backup.py`, a process of its own: `BackupStart` copies the database, a
portable backup reads it document by document (`BackupRow`), `BackupFiles` adds
the files.  `RestoreStart` verifies and stages, `RestoreFile` replaces one
target, `RestoreFails` begins the rollback (`UndoFile`, `UndoDone`).
Backups run beside SAD; restores, as documented, while it is stopped.
`DropFile`, `Reconcile` and `Move` are people.  `last`, `disturbed`, `torn`, `mixed`
are history: what the user last saved or restored, where two copies have a cause, a
restore that broke off, a restore that left a journal beside the database it put
in place, be it an old one or its own.  Encryption is the flag
`sealed`; one user per host, so what a host protects it can read.

### MobileGateway

`free` is the semaphore of the listener; `phase` and `call` are how far a
connection is and what it asks for; `failures` is the limiter, `pairings` and
`devices` the store.  The listening socket is a TLS socket, so the one accepting
thread takes a connection (`Accept`), waits for its handshake without a limit, and only
then gives it a permit (`Admit`) or sends it away (`TurnedAway`); `Start` or
`StartFails` is the thread it starts, `Leave` gives the permit back.  A pairing is
`RequireAvailable`, then `Consume`, `ConsumeRefused` or `ConsumeFails`, then
`Failed` or `Succeeded`: three locks, three steps.  A phone's request is
`RequireDevice` and later `Dispatch` or `Forget`.  The Owner creates pairings
and revokes phones over the other listener; codes, phones and failures age.
`granted` and `barred` are history: the mode chosen for a pairing, and the phones
whose access had ended when a request began.

### EventFeed and PlatformEvents

`EventFeed` is the event stream of `PLATFORM_SDK.md`: a stream of numbered
events, an app's subscription and its cursor; a delivery gives the app what is
due between two positions, and may leave out only what the store no longer
keeps.  `PlatformEvents` is the code: `log` keeps the newest events, `read`
answers a page of subscribed events with the cursor that goes with it
(`Answer`), and around it clients are created, rotated and revoked, an app
installs the secret it was shown when it likes, sends a request with what it
has, is authenticated (`Require`) and answered (`Read`) in two steps, and any
message may be `Lost`.  `doomed` is history: apps that sent a request after
their secret was dead.  `EventFeed` also states what follows for an app
(`Complete`, `OnceInOrder`, `NothingMissedInTime`).

### Conversations, ForgeProgress, CommandLine, MemoryContext and MCStores

Four parts that share no state.  `MCStores` instantiates all of them; each
behaviour runs one, chosen by `part`, because the product of their states would show
nothing more.

`Conversations`: `RawSession` reads a session, `Answer` appends question and
reply under the lock again, `Drop` is every way a turn ends without; `VoiceOpen`
creates the session of a voice turn first.  A reply is the number of messages it
was made from, so that what a turn has read can be compared with what is saved.

`ForgeProgress`: `Load` is `progress.get`, `Save` is the change
(`NextHint`, `CompleteQuest`) and `progress.save`, on several threads.  `calm`
is history: a student's record when it was last saved by a request that no other
request of the student overlapped.

`CommandLine`: a terminal logs in, enters a command (where authority is asked)
and goes through its steps: `ReportLoad` and `ReportSave`, `ApproveLoad` and
`ApproveSave`, `CreateProposal` and `RunTests`, `ApproveProposal`,
`ExportPatch`; it may give up, lose its authority or exit at each.  `told`,
`raced` and `governed` are history: what a terminal said of a report, reports
that were saved while another terminal was between load and save, and what an
owner approved.

`MemoryContext`: `Found`, `Ranked`, `Desired` and `Fitting` are `search` and
`context_plan`; the loop over the ranked memories is `Place`.  The document, the
query's matches and the budget are chosen in `Init`, so a run goes through all of
them up to its bounds.

## 4. Runs

| Run | Instance | Shows |
|---|---|---|
| `workspace_refines` | 2 workspaces, 2 paths (one new file), 1 fault, 1 crash | `AppliedWorkIsNotLost`, `ImplementsGovernedChange` |
| `workspace_racing` | 1 workspace, 2 paths, 1 fault, 1 crash, 2 edits between any steps | `CleanEvidenceCoversTestedTree`, `OnlyTestedCodeIsLive`, `StoreOverwritesOnlyKnownContent` |
| `workspace_evidence` | 1 workspace, nothing fails | violated: `EvidenceCoversTestedTree` |
| `repair` | 2 items, 3 contents, 1 fault, 1 crash, 1 edit | `OnlyReviewedRepairIsLive`, `ApprovedMeansApplied`, `LiveMeansApproved`, `DecisionsSurviveRestart`, `ImplementsGovernedRepair` |
| `repair_fair` | 2 items, 2 contents, 1 fault, 1 edit, fairness | `EveryForgeRunReachesAHuman` |
| `tools` | 2 actions (limit 1), 2 accounts (quota 1), 2 memories, 1 fault, 1 restart, 1 damaged record | `OnlyApprovedArguments`, `RecordTellsEffect`, `StoreKeepsNewest`, `ToolsRespectOwnership` |
| `auth` | 2 accounts, 3 tokens, limits 2, lockout at 2; 2 requests past `require`, or 1 with 3 wrong passwords, 1 fault and 1 restart | `SessionsAreBounded`, `DisabledMeansSignedOut`, `SessionsKnowThePassword`, `GuessesAreLimited`, `ChangesPersist` |
| `auth_revokes` | the same | violated: `ChangeRevokesOthers` |
| `runtime` | 2 documents (1 of a `Direct` store), 2 values; 1 crash, 1 save and 1 old file or move of host, or 1 backup and restore; or 1 backup and restore with 2 faults | `NothingIsLost`, `UpServesLast`, `ProtectedAtRest`, `ConflictHasACause`, `BackupIsCurrent`, `FailedRestoreLeavesNothing` |
| `mobile` | 2 connections over 2 permits, 1 address, 1 code, 2 failures, 2 pairings, 1 active phone of 2 | `GuessesAreBounded`, `PhonesActAsPaired`, `ListenerAdmitsAgain` |
| `platform` | 2 apps, 2 types, 4 events of which 2 are kept, pages of 1, 2 secrets | `OldSecretsAreDead`, `ImplementsEventFeed` |
| `stores` | 2 turns over 3 sessions of 2 accounts (2 active, 4 messages); 2 requests of 2 students; 2 terminals, 2 reports, 1 proposal; 3 memories, 2 of them found and placed | the eight properties of the four parts |

Bounds.  Two paths are the least at which an apply can stop between two files;
two contents tell a tested file from its base and from a missing one, and an
edit from both; two workspaces or items compete for a file.  Two documents are
the least at which a start, a backup or a restore stops between two, and two
values tell the new one from the old.  A store that keeps
one of two actions evicts, also the newcomer when creations overtake each other.
Two connections
over two permits exhaust the listener and let two guesses pass the limiter
together; two pairings with one code and one active phone fill every limit.
Four events of which two are kept, read one at a time, let an app fall behind
the store and catch up.  Three sessions exceed two active ones, four messages
are two turns, and two turns in flight fill a session; two threads, and two
terminals, are the least that overlap.  Three memories with a place for two
leave one out of the search and of the plan.  One fault reaches
every exception handler, one crash every window.  A second workspace with
racing edits is out of reach of a short run and is covered by the proofs, which
hold for every number of everything.  A system with every budget spent and
every item decided may stop, so deadlock is not checked.

The violated properties are statements of the documentation; `PROJECT.json`
quotes them.  (1) An execution refused for an edit without effect leaves its
other edits in the worktree, and the next execution is tested with them while
its evidence does not show them.  (2) A session that logs out while it changes
its password makes the change end in an exception after it was saved, and the
other sessions stay.

Other findings are met by passing runs, whose properties name the case and claim
what holds beside it: a failing write of `proposal.json` after the live file
was replaced leaves a repair that can only be rejected, and stays live
(`torn` in `LiveMeansApproved`); a failing save of the actions after the tool
has run leaves the action ready to have its effect again (`lost` in
`RecordTellsEffect`); a restore over the journal of a crash, or of a backup that
brings the journal of a transaction along, is rolled back, in
part, by the next start (`mixed` in `UpServesLast`); what the `Direct` stores import
is archived plain on a host that protects, until a `RuntimeJSONDocument` is opened
again (`fresh` in `ProtectedAtRest`); a worker whose requester's
session ends has its result refused and its item stays in Forge (`expired` in
`EveryForgeRunReachesAHuman`); a client that is silent in its TLS handshake stops
the mobile listener (the exception of `ListenerAdmitsAgain`); wrong passwords told
by `change_password` are not counted (`GuessesAreLimited` is about login); of requests of a student,
or of terminals, that overlap, the later save wins (`calm` in
`CalmProgressIsKept`, `raced` in `ToldReportsAreKept`).  The mobile launcher's
dashboard, which has no state file and forgets decisions at a restart, is the
case `Durable = FALSE` that the theorems of the repair lane exclude.

Fairness.  `FairSpec` asks weak fairness of each job's worker and of the
approval in progress.  Both run in threads of their own; the planner's call and
the container have timeouts, so every step of theirs ends; an operation of the
dashboard is short and releases the lock, and finitely many of them can be
asked for, so a worker that waits for the lock gets it.  Whether the
requester's session lasts is not assumed.  The listener's
`FairSpec` asks weak fairness of each handler thread: reads and writes of its
socket time out, a lock is held for one operation of a store, and no handler
waits for another one.  The handshake, which has no timeout, is not fair.  Nothing is
assumed of people, of connections, of
requests or of failing calls.

## 5. Proofs

`DeveloperWorkspace_proofs` proves, for all constants allowed by
`ConstantsAssumption`:

* `TypeCorrect`: `TypeOK` is inductive.
* `TestedCodeOnly`: `OnlyTestedCodeIsLive` is not inductive, because it does
  not say what an operation in progress has already done.  The invariant adds
  that a running operation, its loop and the saved state fit together
  (`OperationStep`), that base, tested and changed fit together, and that files
  touched by the current loop hold what the loop put there or were raced
  (`FileStep`, `AuthorStep`).
* `KnownContentOnly`: the same invariant bounds what each of the three actions
  that write `live` can find there.
* `FailedApplyIsUndone`: until a second call fails, files of a workspace that is
  not applied are live only while its apply runs (`CleanStep`).
* `EvidenceIsClean`: while a copy is captured it is the live project; later it
  leaves its base only in paths that the plan in progress names (`Pending`)
  or, after the tests, that were recorded (`EvidenceInv`).
* `Refinement`: with `Racing = FALSE` every step maps to a step of
  `GovernedChange` or to a stutter under `LiveBar` and `StatusBar`
  (`RefinementStep`); an operation broken off halfway is a `Tear`
  (`TornIsTear`).
* `AppliedWorkStays`: seen at one path, an applied workspace is a link from the
  content it was made from to the content it was tested with, and
  `AppliedWorkIsNotLost` says that a link into content that is no longer live has a
  successor.  This is not inductive: to roll one workspace back one must know that
  no other leaned on it alone.  The invariant counts instead (`TrailInv`): of
  every content, as many links leave as enter, but for the first and the live
  one, so the links of a path make a trail that ends at the live content.  Apply adds a
  last link, rollback takes a link to the live content off, and both keep the
  balance, even where two workspaces change a file from the same content to the
  same content.  The steps are taken from `GovernedChange` through the
  refinement, which therefore is proved for a store that nobody has edited
  (`Quiet`), whatever `Racing` is.

`RepairGovernance_proofs` proves, under the assumptions on its constants:

* `TypeCorrect`, with the addition that a proposal has a copy once it was made.
* `ApprovedIsApplied` and `KnownContentOnly`: the status of a proposal, the work
  item in memory and the saved one move together (`AgreementInv`), whatever call
  fails and whoever edits the files.
* `ReviewedOnly`, `LiveIsApproved`, `DecisionsPersist`: the dashboard's document
  survives a restart (`Durable`, which the conclusion needs and the mobile
  launcher lacks), so what an approval has begun, what it has settled and what
  was told stay in agreement with the live bytes (`DurableInv`).  The steps of Next are
  grouped by what they can disturb (`Steps`), and each group has a lemma per
  part of the invariant.
* `Refinement`: with `Durable`, every step is a step of `GovernedRepair` or a
  stutter.  On top of the invariants above it needs that the saved decisions are
  those in memory (`SavedInv`), that a worker about to draft has no draft yet
  (`DraftInv`), that the proposal of a torn item stays in a state that cannot be
  approved again (`TornInv`), and that an approval nobody disturbs knows its backup
  to be the draft's original (`ApprovalInv`).
* `JobsAdvance`: the safety half of the liveness property.  A running job only
  comes nearer to its end (`JobStepsLeft`), whatever runs beside it, and ends
  without a result only by a failing call, a restart or the end of its
  requester's session.  What is missing for liveness is that a step is always
  enabled, which the provers cannot express.

`ToolActions_proofs` proves, for every limit and number of failures:

* `TypeCorrect`, `OwnershipRespected`.
* `ApprovedOnly` and `RecordsAreExact`: an undecided action has had no effect, a
  ready one that mutates carries the hash its account approved, and the
  execution in progress has a ready action with the granted arguments
  (`ApprovalInv`).
* `NewestKept`: records have distinct times and a record was dropped only from
  a full store (`NewestInv`).  A finite set with one record too many has one
  oldest, found by well-foundedness of the natural numbers (`Oldest`).

`AuthSessions_proofs` proves, for all limits and bounds, type correctness and the
five properties of the run `auth`:

* `TypeCorrect`, with the owner of each session and request (`OwnerInv`) and
  what the operation in progress is about (`OpInv`).
* `GuessesLimited` and `ChangesStay`: the loaded accounts are the saved ones but
  for the change of one account (`LoadInv`), because every writer but
  `update_profile` holds the lock; the counter of an account is its count of
  wrong passwords at login since the last lockout (`CountInv`), which refused
  and successful password changes leave alone.
* `DisabledSignedOut` and `PasswordKnown`: every account is `Kept`, of its
  sessions none is left behind unless the operation that is to revoke it runs.
* `SessionsBounded`: sessions have distinct times (`BornInv`), so dropping the
  excess leaves room for one more (`RoomIsMade`, by the oldest session that stays).

`RuntimeState_proofs` proves, for every set of documents and values and every
number of saves, crashes, failing calls, old files, moves, backups and
restores, type correctness and the six properties of the run `runtime`:

* `TypeCorrect`, with where a start is and what it has found there (`PlaceInv`).
* `NothingLost` and `ServesLast`: of every document the files (those before a
  restore, while one runs) hold what was last saved (`LastInv`), and the
  stores that a start is through with hold no other copy (`OpenedInv`).  Both need
  that a journal is of the database it lies beside, unless a restore put one of
  the two there (`HotInv`): then a connection that rolls back changes no
  document (`ConnectionAlike`).  So both hold but for a restore that broke off or left
  a journal.
* `ConflictsExplained` (`CauseInv`).
* `Protected` (`SealInv`): a start that is through with the stores outside `Direct`
  has converted every plain archive but those of `fresh`, in whatever order the stores
  are opened.  This needs that there is one outside (`StoresAssumption`).
* `BackupsCurrent`: each document is in the copy with a value it had since the
  backup began, or will be read, or had none at some time (`Taken`).
* `FailedRestoreUndone`: how far a restore or its rollback has come
  (`UndoInv`); when nothing is left to put back, all files are as before
  (`SameFiles`).

`MobileGateway_proofs` proves, for every number of connections, phones and
codes:

* `TypeCorrect`, `PhonesPaired`: identifiers are given once and in order
  (`DevicesNumbered`), a code that made a phone is used up for good
  (`CodesSpent`), phones that had ended when a request began stay ended
  (`BarredEnded`), and what is dispatched passed the check of its mode
  (`Dispatched`).
* `GuessesBounded`: every connection past `Admit` holds a permit (`Accounted`),
  and a request that passed the limiter found it below its limit, so the wrong
  codes told, and those about to be, are fewer than both limits together
  (`Budgeted`).
* `PermitsAccounted`: free permits and open requests add up, which is the safety
  half of `ListenerAdmitsAgain`.

`PlatformEvents_proofs` proves, for every number of apps, every retention and
every length of a page:

* `TypeCorrect`, `DeadSecrets`: secrets are numbered upwards and an app's own
  is never ahead of its client's (`SecretsGrow`), so an old one never becomes
  valid again.
* `Refinement`: the log is the newest part of the stream (`LogIsRecent`) and
  cursors are behind it (`CursorsAreBehind`); a page ends where its last event,
  or the log, ends, so what lies between two cursors was given or dropped.
* `FeedComplete`, `FeedInOrder`, `FeedInTime`: what `EventFeed` promises an app
  holds of the code, by way of the refinement: what it was given ends at its
  cursor (`DeliveryStep`), so a later delivery is of later events, and what was
  kept is within it.

`Stores_proofs` proves all eight properties of the run `stores`.  A step of
`MCStores` is a step of one part and leaves the others alone, so each part has an
invariant of its own:

* `Loadable`, `WholeTurnsSeen`, `OnlyGrow`: sessions consist of whole turns within
  their limits (`ChatsSound`), every step only appends one (`Grows`), and what a turn
  has read is the beginning of its session (`TurnSound`), which appending
  keeps (`TurnKept`).
* `AddsUp`, `CalmProgressKept`: every copy adds up, like every saved record
  (`RecordsSound`), a change never goes back (`ChangesGrow`), and copies are not
  behind what was saved calmly (`CopiesAhead`): only a request that is alone
  moves `calm`.
* `ReportsKept`: what a terminal has loaded is what is saved, but for raced
  reports (`LoadsCurrent`).
* `PatchesGoverned`: approvals are governed in every copy (`ApprovalsGoverned`), a
  proposal is tested by the terminal that made it alone (`TestsSound`), so its
  status does not change once it is approved (`ExportsSound`).
* `PlanMaximal`: a form that did not fit when its memory was placed fits no better
  later, because what is used only grows (`Settled`).

Every safety property of every passing run is a theorem.  Two properties of the
models, `FailedApplyLeavesNothing` and `RepairOverwritesOnlyKnownContent`, are
proved for every instance and checked by no run.

Only model-checked: the liveness properties `EveryForgeRunReachesAHuman`
and `ListenerAdmitsAgain`.  They need fairness and `ENABLED`,
which are out of the prover's reach.

## 6. Not modelled

Path hygiene, size limits and the text of prompts, plans, diffs and receipts;
Docker and the planner, of which only the verdict and the edit matter;
concurrent processes over the same `.sad_sandbox` other than the CLI's approval;
the attestation of results posted by hand.  Of the HTTP API, routing and the routes
that call one store operation each; of the terminal, dialogue, study, settings
and account commands, which call what is modelled elsewhere or only print; of the
memory store, update, which changes one record under its lock.  Workspaces and
repairs are not composed: both are checked against arbitrary edits of the
live files, of which the other lane's writes are a case.  `PROJECT.json` lists
the parts without state transitions worth a model.
