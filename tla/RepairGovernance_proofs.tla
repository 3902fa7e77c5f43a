------------------------ MODULE RepairGovernance_proofs ------------------------
(* Theorems about the controlled repair lane, for every set of items and   *)
(* contents and every number of faults, restarts and edits.                *)
EXTENDS RepairGovernance, TLAPS

\* The proposal's copy exists once it has been made, and the approval in
\* progress has one, with a backup from its live write on.
CopyInv ==
    /\ \A i \in Item :
          sandbox[i] = None => status[i] = "none" /\ worker[i] \in {"none", "copy", "record"}
    /\ pc # "idle" => status[cur] # "none"
    /\ pc \notin {"idle", "apply"} => backup[cur] \in Content

TypeInv == TypeOK /\ CopyInv

-----------------------------------------------------------------------------
(* The operations of the dashboard that are not decisions have one shape.  *)

\* The states a work item goes through between its decisions.
Moves == {<<"none", "triaged">>,
          <<"triaged", "approved_for_isolated_work">>,
          <<"approved_for_isolated_work", "in_forge">>,
          <<"in_forge", "awaiting_human_decision">>,
          <<"approved", "closed">>,
          <<"rejected", "closed">>}

\* Only execute hands an item to a worker, and only the record takes it back.
Handover(i, doc) ==
    \/ /\ UNCHANGED worker
       /\ doc.work = mem[i].work \/ mem[i].work # "in_forge"
    \/ /\ worker' = [worker EXCEPT ![i] = "copy"]
       /\ faults' = faults
       /\ mem[i].work = "approved_for_isolated_work" /\ doc.work = "in_forge"
    \/ worker' = [worker EXCEPT ![i] = "none"]

Operation(i, doc) ==
    /\ Update(i, doc)
    /\ doc.decision = mem[i].decision
    /\ doc.work = mem[i].work \/ <<mem[i].work, doc.work>> \in Moves
    /\ Handover(i, doc)
    /\ expired' \in {expired, expired \ {i}}
    /\ UNCHANGED <<snap, outcome>>
    /\ Elsewhere

\* The steps of the worker that do not touch the dashboard.
WorkerStep(i) ==
    \/ CopyProject(i)
    \/ RecordBase(i)
    \/ \E content \in Content : CreateDraft(i, content)
    \/ NoDraft(i)
    \/ SnapshotProject(i)
    \/ TestsPassed(i)
    \/ TestsFailed(i)
    \/ WorkerRaises(i)

\* What happens to the session of the request that runs a job.
SessionStep(i) == ResultRefused(i) \/ SessionEnds(i)

\* The steps of the approval that do not save the document.
ApprovalStep ==
    \/ Backup
    \/ ApplyRefused
    \/ Replace
    \/ Verified
    \/ Refuted
    \/ Restore
    \/ Receipt
    \/ Undo
    \/ UndoRecorded
    \/ UndoRefused

\* Failing calls of the approval, and restarts.
Mishap ==
    \/ BackupFails
    \/ ReplaceFails
    \/ BreaksOff
    \/ SaveFails
    \/ Crash

\* The steps of Next, by what they can disturb.
LEMMA Steps ==
    ASSUME [Next]_vars
    PROVE  \/ \E i \in Item : \/ Triage(i) \/ RecordForgeResult(i) \/ Reject(i)
                             \/ WorkerStep(i) \/ SessionStep(i) \/ ApproveProposal(i)
           \/ ApprovalStep \/ SaveDecision \/ Mishap \/ Person
           \/ UNCHANGED vars
<1>1. ASSUME NEW i \in Item, Triage(i) \/ Worker(i) \/ Decide(i) \/ SessionEnds(i)
      PROVE  \/ Triage(i) \/ RecordForgeResult(i) \/ Reject(i)
             \/ WorkerStep(i) \/ SessionStep(i) \/ ApproveProposal(i)
  BY <1>1 DEF Worker, Decide, WorkerStep, SessionStep
<1>2. Deciding => ApprovalStep \/ SaveDecision
  BY DEF Deciding, ApprovalStep
<1>3. Failure => Mishap \/ \E i \in Item : WorkerStep(i)
  BY DEF Failure, Mishap, WorkerStep
<1>4. QED
  BY <1>1, <1>2, <1>3 DEF Next

\* The end of a session touches no document, no proposal and no file; it can at
\* most end its job.
LEMMA SessionTouchesNothing ==
    ASSUME TypeOK, NEW i \in Item, SessionStep(i)
    PROVE  /\ UNCHANGED <<mem, disk, calm, told, snap, outcome, budget>>
           /\ Elsewhere
           /\ worker[i] # "none"
           /\ expired' \in SUBSET Item
           /\ worker' = worker \/ (worker' = [worker EXCEPT ![i] = "none"] /\ i \in expired
                                                           /\ worker[i] = "record")
  BY DEF SessionStep, ResultRefused, SessionEnds, TypeOK

\* What the operations write into a document is a document.
LEMMA DocUpdate ==
    ASSUME NEW d \in Doc
    PROVE  /\ \A f \in {"new", "in_review"} : [d EXCEPT !.failure = f] \in Doc
           /\ [d EXCEPT !.failure = "pushed_to_development", !.work = "triaged"] \in Doc
           /\ \A w \in {"approved_for_isolated_work", "in_forge"}  :
                 [d EXCEPT !.work = w] \in Doc
           /\ \A r \in {"none", "succeeded", "failed"} :
                 [d EXCEPT !.work = "awaiting_human_decision", !.result = r] \in Doc
           /\ [d EXCEPT !.failure = "closed", !.work = "closed"] \in Doc
           /\ [d EXCEPT !.work = "approved", !.decision = "approve"] \in Doc
           /\ [d EXCEPT !.work = "rejected", !.decision = "reject"] \in Doc
<1>1. \A f \in {"new", "in_review"} : [d EXCEPT !.failure = f] \in Doc
  BY DEF Doc
<1>2. [d EXCEPT !.failure = "pushed_to_development", !.work = "triaged"] \in Doc
  BY DEF Doc
<1>3. \A w \in {"approved_for_isolated_work", "in_forge"} : [d EXCEPT !.work = w] \in Doc
  BY DEF Doc
<1>4. \A r \in {"none", "succeeded", "failed"} : [d EXCEPT !.work = "awaiting_human_decision", !.result = r] \in Doc
  BY DEF Doc
<1>5. [d EXCEPT !.failure = "closed", !.work = "closed"] \in Doc
  BY DEF Doc
<1>6. [d EXCEPT !.work = "approved", !.decision = "approve"] \in Doc
  BY DEF Doc
<1>7. [d EXCEPT !.work = "rejected", !.decision = "reject"] \in Doc
  BY DEF Doc
<1>8. QED
  BY <1>1, <1>2, <1>3, <1>4, <1>5, <1>6, <1>7

\* Every operation of the dashboard but decide is such an operation.
LEMMA TriageIsOperation ==
    ASSUME TypeOK, NEW i \in Item, Triage(i) \/ RecordForgeResult(i)
    PROVE  \E doc \in Doc : Operation(i, doc)
<1>1. mem[i] \in Doc /\ outcome[i] \in {"none", "succeeded", "failed"}
  BY DEF TypeOK
<1> USE <1>1 DEF Operation, Handover, Moves, job
<1>2. CASE Ingest(i)
  <2>1. CASE mem[i].failure = "none"
    <3> DEFINE doc == [mem[i] EXCEPT !.failure = "new"]
    <3>1. doc \in Doc
      BY DocUpdate
    <3>2. doc.decision = mem[i].decision /\ doc.work = mem[i].work
      BY DEF Doc
    <3>3. Operation(i, doc)
      BY <1>2, <2>1, <3>2 DEF Ingest
    <3>4. QED
      BY <3>1, <3>3
  <2>2. CASE mem[i].failure # "none"
    BY <1>2, <2>2 DEF Ingest
  <2>3. QED
    BY <2>1, <2>2
<1>3. CASE MarkInReview(i)
  <2> DEFINE doc == [mem[i] EXCEPT !.failure = "in_review"]
  <2>1. doc \in Doc
    BY DocUpdate
  <2>2. doc.decision = mem[i].decision /\ doc.work = mem[i].work
    BY DEF Doc
  <2>3. Operation(i, doc)
    BY <1>3, <2>2 DEF MarkInReview
  <2>4. QED
    BY <2>1, <2>3
<1>4. CASE PushToDevelopment(i)
  <2> DEFINE doc == [mem[i] EXCEPT !.failure = "pushed_to_development", !.work = "triaged"]
  <2>1. doc \in Doc
    BY DocUpdate
  <2>2. doc.decision = mem[i].decision /\ doc.work = "triaged"
    BY DEF Doc
  <2>3. Operation(i, doc)
    BY <1>4, <2>2 DEF PushToDevelopment
  <2>4. QED
    BY <2>1, <2>3
<1>5. CASE ApproveIsolatedWork(i)
  <2> DEFINE doc == [mem[i] EXCEPT !.work = "approved_for_isolated_work"]
  <2>1. doc \in Doc
    BY DocUpdate
  <2>2. doc.decision = mem[i].decision /\ doc.work = "approved_for_isolated_work"
    BY DEF Doc
  <2>3. Operation(i, doc)
    BY <1>5, <2>2 DEF ApproveIsolatedWork
  <2>4. QED
    BY <2>1, <2>3
<1>6. CASE StartForge(i) \/ ExecuteForge(i)
  <2> DEFINE doc == [mem[i] EXCEPT !.work = "in_forge"]
  <2>1. doc \in Doc
    BY DocUpdate
  <2>2. doc.decision = mem[i].decision /\ doc.work = "in_forge"
    BY DEF Doc
  <2>3. Operation(i, doc)
    BY <1>6, <2>2 DEF StartForge, ExecuteForge
  <2>4. QED
    BY <2>1, <2>3
<1>7. CASE Close(i)
  <2> DEFINE doc == [mem[i] EXCEPT !.failure = "closed", !.work = "closed"]
  <2>1. doc \in Doc
    BY DocUpdate
  <2>2. doc.decision = mem[i].decision /\ doc.work = "closed"
    BY DEF Doc
  <2>3. Operation(i, doc)
    BY <1>7, <2>2 DEF Close
  <2>4. QED
    BY <2>1, <2>3
<1>8. CASE RecordForgeResult(i)
  <2> DEFINE doc == [mem[i] EXCEPT !.work = "awaiting_human_decision",
                                   !.result = outcome[i]]
  <2>1. doc \in Doc
    BY DocUpdate
  <2>2. doc.decision = mem[i].decision /\ doc.work = "awaiting_human_decision"
    BY DEF Doc
  <2>3. Operation(i, doc)
    BY <1>8, <2>2 DEF RecordForgeResult
  <2>4. QED
    BY <2>1, <2>3
<1>9. QED
  BY <1>2, <1>3, <1>4, <1>5, <1>6, <1>7, <1>8 DEF Triage

-----------------------------------------------------------------------------
(* Types.                                                                  *)

\* Operations of the dashboard keep the types.
LEMMA OperationTypes ==
    ASSUME TypeInv, NEW i \in Item, NEW doc \in Doc, Operation(i, doc)
    PROVE  TypeInv'
<1> USE DEF Operation, Elsewhere, proposal, decision, project, TypeInv
<1>1. mem' \in [Item -> Doc] /\ disk' \in [Item -> Doc] /\ calm' \in SUBSET Item
  BY DEF TypeOK, Update, Save, Saved
<1>2. mem'[i].decision \in {"none", "approve", "reject"}
  BY <1>1 DEF Doc
<1>3. told' \in [Item -> {"none", "approve", "reject"}]
  BY <1>2 DEF TypeOK, Update, Save
<1>4. faults' \in Nat /\ crashes' \in Nat /\ hand' \in Nat
  BY DEF TypeOK, Update, Save, Fault, budget
<1>5. worker' \in [Item -> {"none", "copy", "base", "draft", "snapshot", "test", "record"}]
  BY DEF TypeOK, Handover
<1>6. TypeOK'
  BY <1>1, <1>3, <1>4, <1>5 DEF TypeOK
<1>7. CopyInv'
  BY DEF CopyInv, Handover, TypeOK
<1>8. QED
  BY <1>6, <1>7

\* Steps of the worker keep the types.
LEMMA WorkerTypes ==
    ASSUME TypeInv, NEW i \in Item, WorkerStep(i)
    PROVE  TypeInv'
<1> USE DEF TypeInv, TypeOK, CopyInv, Work, Unlocked, Fault, proposal, decision, project,
            budget, Status
<1>1. CASE CopyProject(i)
  BY <1>1, ConstantsAssumption DEF CopyProject
<1>2. CASE RecordBase(i)
  BY <1>2 DEF RecordBase
<1>3. ASSUME NEW content \in Content, CreateDraft(i, content)
      PROVE TypeInv'
  BY <1>3, ConstantsAssumption DEF CreateDraft
<1>4. CASE NoDraft(i)
  BY <1>4 DEF NoDraft
<1>5. CASE SnapshotProject(i)
  BY <1>5 DEF SnapshotProject
<1>6. CASE TestsPassed(i)
  BY <1>6 DEF TestsPassed
<1>7. CASE TestsFailed(i)
  BY <1>7 DEF TestsFailed
<1>8. CASE WorkerRaises(i)
  BY <1>8 DEF WorkerRaises
<1>9. QED
  BY <1>1, <1>2, <1>3, <1>4, <1>5, <1>6, <1>7, <1>8 DEF WorkerStep

\* The end of a session keeps the types.
LEMMA SessionTypes ==
    ASSUME TypeInv, NEW i \in Item, SessionStep(i)
    PROVE  TypeInv'
  BY SessionTouchesNothing
     DEF TypeInv, TypeOK, CopyInv, Elsewhere, proposal, decision, project, budget

\* A rejection keeps the types.
LEMMA RejectTypes ==
    ASSUME TypeInv, NEW i \in Item, Reject(i)
    PROVE  TypeInv'
<1> USE DEF TypeInv, Reject, Elsewhere, job, proposal, decision, project, budget
<1>1. mem[i] \in Doc
  BY DEF TypeOK
<1>2. mem' = [mem EXCEPT ![i] = [mem[i] EXCEPT !.work = "rejected", !.decision = "reject"]]
  OBVIOUS
<1>3. [mem[i] EXCEPT !.work = "rejected", !.decision = "reject"] \in Doc
  BY <1>1, DocUpdate
<1>4. mem' \in [Item -> Doc]
  BY <1>1, <1>2, <1>3 DEF TypeOK
<1>5. TypeOK'
  BY <1>4 DEF TypeOK, Saved
<1>6. CopyInv'
  BY DEF CopyInv
<1>7. QED
  BY <1>5, <1>6

\* Steps of the approval that do not save the document keep the types.
LEMMA DecidingTypes ==
    ASSUME TypeInv, ApprovalStep \/ \E i \in Item : ApproveProposal(i)
    PROVE  TypeInv'
<1> USE DEF TypeInv, TypeOK, CopyInv, Go, Return, Locked, job, proposal, project, budget, Status
<1>1. ASSUME NEW i \in Item, ApproveProposal(i)
      PROVE TypeInv'
  BY <1>1, ConstantsAssumption DEF ApproveProposal
<1>2. CASE Backup
  BY <1>2 DEF Backup
<1>3. CASE ApplyRefused
  BY <1>3 DEF ApplyRefused
<1>4. CASE Replace
  BY <1>4, ConstantsAssumption DEF Replace
<1>5. CASE Verified
  BY <1>5 DEF Verified
<1>6. CASE Refuted
  BY <1>6 DEF Refuted
<1>7. CASE Restore
  BY <1>7 DEF Restore
<1>8. CASE Receipt
  BY <1>8 DEF Receipt
<1>9. CASE Undo
  BY <1>9 DEF Undo
<1>10. CASE UndoRefused
  BY <1>10 DEF UndoRefused
<1>11. CASE UndoRecorded
  BY <1>11 DEF UndoRecorded
<1>12. QED
  BY <1>1, <1>2, <1>3, <1>4, <1>5, <1>6, <1>7, <1>8, <1>9, <1>10, <1>11 DEF ApprovalStep

\* The save of an approval keeps the types.
LEMMA SaveTypes ==
    ASSUME TypeInv, SaveDecision
    PROVE  TypeInv'
<1> USE DEF TypeInv, SaveDecision, Return, job, proposal, project, budget
<1>1. cur \in Item /\ mem[cur] \in Doc
  BY DEF TypeOK
<1>2. mem' = [mem EXCEPT ![cur] = [mem[cur] EXCEPT !.work = "approved", !.decision = "approve"]]
  OBVIOUS
<1>3. [mem[cur] EXCEPT !.work = "approved", !.decision = "approve"] \in Doc
  BY <1>1, DocUpdate
<1>4. mem' \in [Item -> Doc]
  BY <1>1, <1>2, <1>3 DEF TypeOK
<1>5. TypeOK'
  BY <1>1, <1>4 DEF TypeOK, Saved
<1>6. CopyInv'
  BY DEF CopyInv
<1>7. QED
  BY <1>5, <1>6

\* Failing calls, restarts and people keep the types.
LEMMA MishapTypes ==
    ASSUME TypeInv, Mishap \/ Person
    PROVE  TypeInv'
<1> USE DEF TypeInv, TypeOK, CopyInv, Fault, Return, Locked, Touch, job, proposal, decision,
            project
<1>1. CASE BackupFails
  BY <1>1 DEF BackupFails
<1>2. CASE ReplaceFails
  BY <1>2 DEF ReplaceFails
<1>3. CASE BreaksOff
  BY <1>3 DEF BreaksOff
<1>4. CASE SaveFails
  BY <1>4 DEF SaveFails
<1>5. CASE Crash
  <2>1. NoDoc \in Doc
    BY DEF NoDoc, Doc
  <2>2. QED
    BY <1>5, <2>1 DEF Crash
<1>6. ASSUME NEW content \in Content, EditLive(content)
      PROVE TypeInv'
  BY <1>6 DEF EditLive
<1>7. ASSUME NEW i \in Item, NEW content \in Content, EditSandbox(i, content)
      PROVE TypeInv'
  BY <1>7, ConstantsAssumption DEF EditSandbox
<1>8. ASSUME NEW i \in Item, CommandLineApproves(i)
      PROVE TypeInv'
  BY <1>8 DEF CommandLineApproves, Status
<1>9. QED
  BY <1>1, <1>2, <1>3, <1>4, <1>5, <1>6, <1>7, <1>8 DEF Mishap, Person

\* The variables always have the types the code gives them, and a proposal in
\* approval has a copy and, once the live file is written, a backup.
LEMMA TypeInvariance == Spec => []TypeInv
<1>1. Init => TypeInv
  <2>1. NoDoc \in Doc
    BY DEF NoDoc, Doc
  <2>2. Init => TypeOK
    <3> SUFFICES ASSUME Init PROVE TypeOK
      OBVIOUS
    <3>1. mem \in [Item -> Doc] /\ disk \in [Item -> Doc]
      BY <2>1 DEF Init
    <3>2. /\ status \in [Item -> Status] /\ told \in [Item -> {"none", "approve", "reject"}]
          /\ outcome \in [Item -> {"none", "succeeded", "failed"}]
          /\ worker \in [Item -> {"none", "copy", "base", "draft", "snapshot", "test", "record"}]
      BY DEF Init, Status
    <3>3. QED
      BY <3>1, <3>2 DEF Init, TypeOK
  <2>3. Init => CopyInv
    BY DEF Init, CopyInv
  <2>4. QED
    BY <2>2, <2>3 DEF TypeInv
<1>2. TypeInv /\ [Next]_vars => TypeInv'
  <2> SUFFICES ASSUME TypeInv, [Next]_vars PROVE TypeInv'
    OBVIOUS
  <2>1. CASE UNCHANGED vars
    BY <2>1 DEF vars, TypeInv, TypeOK, CopyInv
  <2>2. ASSUME NEW i \in Item, Triage(i) \/ RecordForgeResult(i)
        PROVE TypeInv'
    BY <2>2, TriageIsOperation, OperationTypes DEF TypeInv
  <2>3. QED
    BY <2>1, <2>2, Steps, RejectTypes, WorkerTypes, SessionTypes, DecidingTypes, SaveTypes,
       MishapTypes
<1>3. QED
  BY <1>1, <1>2, PTL DEF Spec

\* The variables always have the types the code gives them.
THEOREM TypeCorrect == Spec => []TypeOK
<1>1. TypeInv => TypeOK
  BY DEF TypeInv
<1>2. QED
  BY <1>1, TypeInvariance, PTL

-----------------------------------------------------------------------------
(* What the dashboard, the job and the approval agree about.               *)

\* A worker runs only for an item in the forge.
JobInv == \A i \in Item : worker[i] # "none" => mem[i].work = "in_forge"

\* An approval has been decided, and is saved only after it is in memory.
DocumentInv ==
    \A i \in Item :
        /\ mem[i].decision = "approve" => mem[i].work \in {"approved", "closed"}
        /\ disk[i].decision = "approve" =>
              /\ disk[i].work \in {"approved", "closed"}
              /\ mem[i].decision = "approve"
              /\ Durable

\* The approval in progress is of an undecided item, and as long as nobody
\* edits files the live file holds what its next step expects.
DecisionInv ==
    pc # "idle" =>
        /\ mem[cur].work = "awaiting_human_decision"
        /\ status[cur] = IF pc \in {"save", "undo", "undone"} THEN "applied_to_live_project"
                         ELSE "draft_approved_by_human"
        /\ pc = "undone" => author = None
        /\ ~raced =>
              /\ sandbox[cur] = tested[cur] /\ drafted[cur] = tested[cur]
              /\ pc \in {"apply", "replace"} => live = original[cur]
              /\ pc = "verify" => live = tested[cur]
              /\ pc = "restore" => live \in {original[cur], tested[cur]}

AgreementInv == JobInv /\ DocumentInv /\ DecisionInv /\ ApprovedMeansApplied

\* Operations of the dashboard keep the agreement.
LEMMA OperationAgrees ==
    ASSUME TypeInv, AgreementInv, NEW i \in Item, NEW doc \in Doc, Operation(i, doc)
    PROVE  AgreementInv'
<1> USE DEF TypeInv, TypeOK, AgreementInv, Operation, Elsewhere, Update, proposal, decision,
            project
<1>1. /\ pc = "idle" /\ pc' = "idle" /\ mem' = [mem EXCEPT ![i] = doc]
      /\ disk' = disk \/ (disk' = mem' /\ Durable)
  BY DEF Save, Saved
<1>2. \A j \in Item : /\ mem'[j].decision = mem[j].decision
                      /\ \/ mem'[j].work = mem[j].work
                         \/ mem'[j].work = "closed"
                         \/ mem[j].work \notin {"approved", "closed"}
  BY <1>1 DEF Moves
<1>3. JobInv'
  BY <1>1 DEF JobInv, Handover
<1>4. DocumentInv'
  BY <1>1, <1>2 DEF DocumentInv
<1>5. DecisionInv' /\ ApprovedMeansApplied'
  BY <1>1, <1>2, <1>4 DEF DecisionInv, ApprovedMeansApplied, DocumentInv
<1>6. QED
  BY <1>3, <1>4, <1>5

\* A rejection keeps the agreement.
LEMMA RejectAgrees ==
    ASSUME TypeInv, AgreementInv, NEW i \in Item, Reject(i)
    PROVE  AgreementInv'
<1> USE DEF TypeInv, TypeOK, AgreementInv, Reject, Elsewhere, proposal, decision,
            project, job
<1>1. mem[i] \in Doc /\ mem[i].work = "awaiting_human_decision"
  OBVIOUS
<1>2. /\ mem'[i].decision = "reject" /\ mem'[i].work = "rejected"
      /\ \A j \in Item : j # i => mem'[j] = mem[j]
  BY <1>1 DEF Doc
<1>3. disk' = disk \/ (disk' = mem' /\ Durable)
  BY DEF Saved
<1>4. JobInv'
  BY <1>1, <1>2 DEF JobInv
<1>5. DocumentInv'
  <2>1. mem[i].decision # "approve" /\ disk[i].decision # "approve"
    BY <1>1 DEF DocumentInv
  <2> HIDE DEF Reject, TypeOK, TypeInv
  <2>2. QED
    BY <1>2, <1>3, <2>1 DEF DocumentInv
<1>6. DecisionInv' /\ ApprovedMeansApplied'
  BY <1>1, <1>2, <1>3, <1>5 DEF DecisionInv, ApprovedMeansApplied, DocumentInv
<1>7. QED
  BY <1>4, <1>5, <1>6

\* Steps of the worker keep the agreement.
LEMMA WorkerAgrees ==
    ASSUME TypeInv, AgreementInv, NEW i \in Item, WorkerStep(i)
    PROVE  AgreementInv'
<1>1. /\ UNCHANGED <<mem, disk, pc, cur, live, author, raced>>
      /\ worker[i] # "none"
      /\ \A j \in Item : j # i => /\ worker'[j] = worker[j]
                                 /\ status'[j] = status[j] /\ sandbox'[j] = sandbox[j]
                                 /\ tested'[j] = tested[j] /\ drafted'[j] = drafted[j]
                                 /\ original'[j] = original[j]
  BY DEF TypeInv, TypeOK, WorkerStep, CopyProject, RecordBase, CreateDraft, NoDraft,
         SnapshotProject, TestsPassed, TestsFailed, WorkerRaises, Work, Unlocked,
         proposal, decision, project
<1>2. mem[i].work = "in_forge"
  BY <1>1 DEF AgreementInv, JobInv
<1>3. JobInv' /\ DocumentInv'
  BY <1>1, <1>2 DEF AgreementInv, JobInv, DocumentInv
<1>4. mem[i].decision # "approve" /\ disk[i].decision # "approve"
  BY <1>2 DEF AgreementInv, DocumentInv
<1>5. ApprovedMeansApplied'
  BY <1>1, <1>4 DEF AgreementInv, ApprovedMeansApplied
<1>6. DecisionInv'
  BY <1>1, <1>2 DEF AgreementInv, DecisionInv, TypeInv, TypeOK
<1>7. QED
  BY <1>3, <1>5, <1>6 DEF AgreementInv

\* So does the end of a session.
LEMMA SessionAgrees ==
    ASSUME TypeInv, AgreementInv, NEW i \in Item, SessionStep(i)
    PROVE  AgreementInv'
<1>1. /\ UNCHANGED <<mem, disk, status, sandbox, original, drafted, tested, pc, cur, live,
                      author, raced>>
      /\ \A j \in Item : worker'[j] = worker[j] \/ worker'[j] = "none"
  BY SessionTouchesNothing DEF TypeInv, TypeOK, Elsewhere, proposal, decision, project
<1>2. JobInv' /\ DocumentInv' /\ DecisionInv' /\ ApprovedMeansApplied'
  BY <1>1 DEF AgreementInv, JobInv, DocumentInv, DecisionInv, ApprovedMeansApplied
<1>3. QED
  BY <1>2 DEF AgreementInv

\* Steps of the approval keep the agreement.
LEMMA ApprovalAgrees ==
    ASSUME TypeInv, AgreementInv, ApprovalStep \/ \E i \in Item : ApproveProposal(i)
    PROVE  AgreementInv'
<1>1. JobInv' /\ DocumentInv'
  BY DEF AgreementInv, JobInv, DocumentInv, ApprovalStep, ApproveProposal, Backup,
         ApplyRefused, Replace, Verified, Refuted, Restore, Receipt, Undo,
         UndoRecorded, UndoRefused, Locked, job
<1> USE DEF TypeInv, TypeOK, AgreementInv, Go, Return, Locked, project, proposal
<1>2. DecisionInv'
  <2> USE DEF DecisionInv
  <2>1. ASSUME NEW i \in Item, ApproveProposal(i)
        PROVE DecisionInv'
    BY <2>1 DEF ApproveProposal, SameDiff
  <2>2. CASE Backup
    BY <2>2 DEF Backup
  <2>3. CASE ApplyRefused \/ UndoRefused \/ Undo \/ UndoRecorded \/ Restore
    BY <2>3 DEF ApplyRefused, UndoRefused, Undo, UndoRecorded, Restore
  <2>4. CASE Replace
    BY <2>4 DEF Replace
  <2>5. CASE Verified \/ Refuted
    BY <2>5 DEF Verified, Refuted
  <2>6. CASE Receipt
    BY <2>6 DEF Receipt
  <2>7. QED
    BY <2>1, <2>2, <2>3, <2>4, <2>5, <2>6 DEF ApprovalStep
<1>3. ApprovedMeansApplied'
  <2> USE DEF ApprovedMeansApplied
  <2>1. ASSUME NEW i \in Item, ApproveProposal(i)
        PROVE ApprovedMeansApplied'
    BY <2>1 DEF ApproveProposal
  <2>2. CASE UndoRecorded
    <3>1. mem[cur].decision # "approve" /\ disk[cur].decision # "approve"
      BY <2>2 DEF UndoRecorded, DecisionInv, DocumentInv
    <3>2. QED
      BY <2>2, <3>1 DEF UndoRecorded
  <2>3. CASE Receipt
    BY <2>3 DEF Receipt
  <2>4. CASE \/ Backup \/ ApplyRefused \/ Replace \/ Verified \/ Refuted \/ Restore \/ Undo
             \/ UndoRefused
    BY <2>4 DEF Backup, ApplyRefused, Replace, Verified, Refuted, Restore, Undo, UndoRefused
  <2>5. QED
    BY <2>1, <2>2, <2>3, <2>4 DEF ApprovalStep
<1>4. QED
  BY <1>1, <1>2, <1>3

\* The save of an approval keeps the agreement.
LEMMA SaveAgrees ==
    ASSUME TypeInv, AgreementInv, SaveDecision
    PROVE  AgreementInv'
<1> USE DEF TypeInv, TypeOK, AgreementInv, SaveDecision, Return, proposal, job, project
<1>1. /\ cur \in Item /\ mem[cur] \in Doc /\ mem[cur].work = "awaiting_human_decision"
      /\ status[cur] = "applied_to_live_project"
  BY DEF DecisionInv
<1>2. /\ mem'[cur].decision = "approve" /\ mem'[cur].work = "approved"
      /\ \A j \in Item : j # cur => mem'[j] = mem[j]
  BY <1>1 DEF Doc
<1>3. disk' = disk \/ (disk' = mem' /\ Durable)
  BY DEF Saved
<1>4. JobInv'
  BY <1>1, <1>2 DEF JobInv
<1>5. DocumentInv'
  <2>1. mem[cur].decision # "approve" /\ disk[cur].decision # "approve"
    BY <1>1 DEF DocumentInv
  <2> HIDE DEF SaveDecision, TypeOK, TypeInv
  <2>2. QED
    BY <1>1, <1>2, <1>3, <2>1 DEF DocumentInv
<1>6. DecisionInv'
  BY DEF DecisionInv
<1>7. ApprovedMeansApplied'
  BY <1>1, <1>2, <1>3, <1>5 DEF ApprovedMeansApplied, DocumentInv
<1>8. QED
  BY <1>4, <1>5, <1>6, <1>7

\* Failing calls, restarts and people keep the agreement.
LEMMA MishapAgrees ==
    ASSUME TypeInv, AgreementInv, Mishap \/ Person
    PROVE  AgreementInv'
<1> USE DEF TypeInv, TypeOK, AgreementInv, Return, Locked, project, proposal, job, decision
<1>1. CASE BackupFails \/ ReplaceFails \/ BreaksOff \/ SaveFails
  <2>1. UNCHANGED <<mem, disk, worker, status, sandbox, tested, drafted, original, live, raced>>
    BY <1>1 DEF BackupFails, ReplaceFails, BreaksOff, SaveFails
  <2>2. JobInv' /\ DocumentInv' /\ ApprovedMeansApplied'
    BY <2>1 DEF JobInv, DocumentInv, ApprovedMeansApplied
  <2>3. DecisionInv'
    BY <1>1, <2>1 DEF DecisionInv, BackupFails, ReplaceFails, BreaksOff, SaveFails
  <2>4. QED
    BY <2>2, <2>3
<1>2. CASE Crash
  <2>1. /\ \A j \in Item : worker'[j] = "none"
        /\ pc' = "idle" /\ UNCHANGED <<disk, status>>
        /\ IF Durable THEN mem' = disk ELSE \A j \in Item : mem'[j].decision = "none"
    BY <1>2 DEF Crash, NoDoc
  <2>2. JobInv' /\ DocumentInv' /\ DecisionInv'
    BY <2>1 DEF JobInv, DocumentInv, DecisionInv
  <2>3. ApprovedMeansApplied'
    BY <2>1 DEF DocumentInv, ApprovedMeansApplied
  <2>4. QED
    BY <2>2, <2>3
<1>3. ASSUME NEW content \in Content, EditLive(content)
      PROVE AgreementInv'
  BY <1>3 DEF EditLive, Touch, JobInv, DocumentInv, DecisionInv, ApprovedMeansApplied
<1>4. ASSUME NEW i \in Item, NEW content \in Content, EditSandbox(i, content)
      PROVE AgreementInv'
  BY <1>4 DEF EditSandbox, Touch, JobInv, DocumentInv, DecisionInv, ApprovedMeansApplied
<1>5. ASSUME NEW i \in Item, CommandLineApproves(i)
      PROVE AgreementInv'
  <2>1. JobInv' /\ DocumentInv' /\ ApprovedMeansApplied'
    BY <1>5 DEF CommandLineApproves, JobInv, DocumentInv, ApprovedMeansApplied
  <2>2. DecisionInv'
    BY <1>5 DEF CommandLineApproves, Touch, DecisionInv
  <2>3. QED
    BY <2>1, <2>2
<1>6. QED
  BY <1>1, <1>2, <1>3, <1>4, <1>5 DEF Mishap, Person

\* Dashboard, jobs and approval agree in every reachable state.
LEMMA Agreement == Spec => [](TypeInv /\ AgreementInv)
<1>1. Init => AgreementInv
  BY DEF Init, AgreementInv, JobInv, DocumentInv, DecisionInv, ApprovedMeansApplied, NoDoc
<1>2. TypeInv /\ AgreementInv /\ [Next]_vars => AgreementInv'
  <2> SUFFICES ASSUME TypeInv, AgreementInv, [Next]_vars PROVE AgreementInv'
    OBVIOUS
  <2>1. CASE UNCHANGED vars
    BY <2>1 DEF vars, AgreementInv, JobInv, DocumentInv, DecisionInv, ApprovedMeansApplied
  <2>2. ASSUME NEW i \in Item, Triage(i) \/ RecordForgeResult(i)
        PROVE AgreementInv'
    BY <2>2, TriageIsOperation, OperationAgrees DEF TypeInv
  <2>3. QED
    BY <2>1, <2>2, Steps, RejectAgrees, WorkerAgrees, SessionAgrees, ApprovalAgrees,
       SaveAgrees, MishapAgrees
<1>3. QED
  BY <1>1, <1>2, TypeInvariance, PTL DEF Spec

\* An approval the dashboard shows, in memory or saved, is of a proposal that
\* was applied, whatever fails, crashes or is edited.
THEOREM ApprovedIsApplied == Spec => []ApprovedMeansApplied
<1>1. AgreementInv => ApprovedMeansApplied
  BY DEF AgreementInv
<1>2. QED
  BY <1>1, Agreement, PTL

\* The Owner's approval, its undoing and its repair never overwrite an edit that
\* was finished before the approval began.
THEOREM KnownContentOnly == Spec => RepairOverwritesOnlyKnownContent
<1> DEFINE Known == live' # live /\ hand' = hand /\ ~raced =>
                        live \in {original[cur], tested[cur]}
<1>1. ASSUME TypeInv, AgreementInv, [Next]_vars PROVE [Known]_vars
  <2> SUFFICES ASSUME live' # live, hand' = hand, ~raced
               PROVE live \in {original[cur], tested[cur]}
    OBVIOUS
  <2>1. Replace \/ Restore \/ Undo
    <3>1. ASSUME NEW i \in Item, Triage(i) \/ RecordForgeResult(i) \/ Reject(i)
          PROVE FALSE
      BY <3>1 DEF Triage, Ingest, MarkInReview, PushToDevelopment, ApproveIsolatedWork,
                  StartForge, ExecuteForge, Close, RecordForgeResult, Reject,
                  Elsewhere, project
    <3>2. ASSUME NEW i \in Item, WorkerStep(i) \/ SessionStep(i) \/ ApproveProposal(i)
          PROVE FALSE
      BY <3>2 DEF SessionStep, ResultRefused, SessionEnds, Elsewhere, WorkerStep, CopyProject, RecordBase, CreateDraft, NoDraft,
                  SnapshotProject, TestsPassed, TestsFailed, WorkerRaises,
                  ApproveProposal, Unlocked, project
    <3>3. ~(Mishap \/ SaveDecision)
      BY DEF Mishap, BackupFails, ReplaceFails, BreaksOff, SaveFails, Crash,
             SaveDecision, project
    <3>4. ~Person
      <4>1. hand \in Nat
        BY <1>1 DEF TypeInv, TypeOK
      <4>2. QED
        BY <4>1 DEF Person, EditLive, EditSandbox, CommandLineApproves, Touch
    <3>5. ApprovalStep => Replace \/ Restore \/ Undo
      BY DEF ApprovalStep, Backup, ApplyRefused, Verified, Refuted, Receipt,
             UndoRecorded, UndoRefused, project
    <3>6. ~UNCHANGED vars
      BY DEF vars
    <3>7. QED
      BY <1>1, <3>1, <3>2, <3>3, <3>4, <3>5, <3>6, Steps
  <2>2. QED
    BY <1>1, <2>1 DEF Replace, Restore, Undo, Go, AgreementInv, DecisionInv
<1>2. QED
  BY <1>1, Agreement, PTL DEF Spec, RepairOverwritesOnlyKnownContent

-----------------------------------------------------------------------------
(* A dashboard with a state file: what restarts cannot undo.               *)

Begun == {"in_forge", "awaiting_human_decision", "approved", "rejected", "closed"}

\* A job or a proposal exists only for an item that is saved as in the forge
\* or later, so no restart sends it there again.
BegunInv ==
    \A i \in Item : worker[i] # "none" \/ status[i] # "none" =>
        mem[i].work \in Begun /\ disk[i].work \in Begun

\* No worker touches a proposal that has passed its tests.
SettledInv ==
    \A i \in Item :
        status[i] \in {"sandbox_tests_passed", "draft_approved_by_human",
                      "applied_to_live_project", "rolled_back"} =>
            worker[i] \in {"none", "record"}

\* From the live write on, the approval in progress answers for the file.
LiveInv ==
    author # None /\ author \notin torn /\ ~(pc \in Written /\ cur = author) =>
        disk[author].decision = "approve"

\* A decision that was shown is in memory and saved.
ToldInv ==
    \A i \in Item : told[i] # "none" =>
        mem[i].decision = told[i] /\ disk[i].decision = told[i]

DurableInv ==
    /\ BegunInv
    /\ SettledInv
    /\ LiveInv
    /\ ToldInv
    /\ OnlyReviewedRepairIsLive

SafetyInv == TypeInv /\ AgreementInv

\* Operations of the dashboard undo nothing.
LEMMA OperationIsDurable ==
    ASSUME Durable, SafetyInv, DurableInv, NEW i \in Item, NEW doc \in Doc,
           Operation(i, doc)
    PROVE  DurableInv'
<1>1. /\ mem' = [mem EXCEPT ![i] = doc] /\ mem' \in [Item -> Doc]
      /\ doc.decision = mem[i].decision
      /\ mem[i].work \in Begun => doc.work \in Begun
      /\ \A j \in Item : mem'[j].decision = mem[j].decision
      /\ \A j \in Item : mem[j].work \in Begun => mem'[j].work \in Begun
  BY DEF SafetyInv, TypeInv, TypeOK, Operation, Update, Moves, Begun
<1>2. \/ /\ disk' = mem'
         /\ told' = [told EXCEPT ![i] = doc.decision]
      \/ UNCHANGED <<disk, told>> /\ faults' # faults
  <2>1. mem'[i] = doc /\ faults + 1 # faults
    BY <1>1 DEF SafetyInv, TypeInv, TypeOK
  <2>2. QED
    BY <2>1 DEF Operation, Update, Save, Saved, Fault
<1>3. UNCHANGED <<status, sandbox, tested, drafted, author, live, torn, raced, pc, cur>>
  BY DEF Operation, Elsewhere, proposal, decision, project
<1>4. BegunInv'
  <2> SUFFICES ASSUME NEW j \in Item, worker'[j] # "none" \/ status'[j] # "none"
               PROVE mem'[j].work \in Begun /\ disk'[j].work \in Begun
    BY DEF BegunInv
  <2>1. CASE worker[j] # "none" \/ status[j] # "none"
    BY <1>1, <1>2, <2>1 DEF DurableInv, BegunInv
  <2>2. CASE worker[j] = "none" /\ status[j] = "none"
    <3>1. j = i /\ doc.work = "in_forge" /\ faults' = faults
      BY <1>3, <2>2 DEF Operation, Handover, SafetyInv, TypeInv, TypeOK
    <3>2. disk' = mem' /\ mem'[i].work = "in_forge"
      BY <1>1, <1>2, <3>1 DEF SafetyInv, TypeInv, TypeOK
    <3>3. QED
      BY <3>1, <3>2 DEF Begun
  <2>3. QED
    BY <2>1, <2>2
<1>5. SettledInv'
  BY <1>3 DEF DurableInv, SettledInv, BegunInv, Begun, Operation, Handover, SafetyInv,
              TypeInv, TypeOK
<1>6. \A j \in Item : disk[j].decision = "approve" => disk'[j].decision = "approve"
  BY <1>1, <1>2 DEF SafetyInv, AgreementInv, DocumentInv
<1>7. LiveInv'
  BY <1>3, <1>6 DEF DurableInv, LiveInv, SafetyInv, TypeInv, TypeOK
<1>8. ToldInv'
  <2>1. told \in [Item -> {"none", "approve", "reject"}]
    BY DEF SafetyInv, TypeInv, TypeOK
  <2>2. QED
    BY <1>1, <1>2, <2>1 DEF DurableInv, ToldInv
<1>9. OnlyReviewedRepairIsLive'
  BY <1>3 DEF DurableInv, OnlyReviewedRepairIsLive
<1>10. QED
  BY <1>4, <1>5, <1>7, <1>8, <1>9 DEF DurableInv

\* A rejection undoes nothing.
LEMMA RejectIsDurable ==
    ASSUME Durable, SafetyInv, DurableInv, NEW i \in Item, Reject(i)
    PROVE  DurableInv'
<1>1. /\ mem[i] \in Doc /\ mem[i].work = "awaiting_human_decision"
      /\ mem'[i] = [mem[i] EXCEPT !.work = "rejected", !.decision = "reject"]
      /\ \A j \in Item : j # i => mem'[j] = mem[j]
  BY DEF SafetyInv, TypeInv, TypeOK, Reject
<1>2. /\ mem'[i].work = "rejected" /\ mem'[i].decision = "reject"
      /\ disk' = mem' /\ told' = [told EXCEPT ![i] = "reject"]
  <2>1. mem'[i].work = "rejected" /\ mem'[i].decision = "reject"
    BY <1>1 DEF Doc
  <2>2. disk' = mem' /\ told' = [told EXCEPT ![i] = "reject"]
    BY DEF Reject, Saved
  <2>3. QED
    BY <2>1, <2>2
<1>3. UNCHANGED <<status, sandbox, tested, drafted, author, live, torn, raced, pc, cur, worker>>
  BY DEF Reject, Elsewhere, proposal, decision, project, job
<1>4. disk[i].decision # "approve"
  BY <1>1 DEF SafetyInv, AgreementInv, DocumentInv
<1>5. BegunInv' /\ SettledInv'
  BY <1>1, <1>2, <1>3 DEF DurableInv, BegunInv, SettledInv, Begun
<1>6. LiveInv'
  BY <1>1, <1>2, <1>3, <1>4
     DEF DurableInv, LiveInv, SafetyInv, AgreementInv, DocumentInv, TypeInv, TypeOK
<1>7. ToldInv'
  <2>1. told \in [Item -> {"none", "approve", "reject"}]
    BY DEF SafetyInv, TypeInv, TypeOK
  <2>2. QED
    BY <1>1, <1>2, <2>1 DEF DurableInv, ToldInv
<1>8. OnlyReviewedRepairIsLive'
  BY <1>3 DEF DurableInv, OnlyReviewedRepairIsLive
<1>9. QED
  BY <1>5, <1>6, <1>7, <1>8 DEF DurableInv

\* Steps of the worker touch no proposal that is live or settled.
LEMMA WorkerIsDurable ==
    ASSUME Durable, SafetyInv, DurableInv, NEW i \in Item, WorkerStep(i)
    PROVE  DurableInv'
<1>1. /\ UNCHANGED <<mem, disk, pc, cur, live, author, torn, told, raced>>
      /\ worker[i] # "none"
      /\ \A j \in Item : j # i => /\ worker'[j] = worker[j]
                                 /\ status'[j] = status[j]
                                 /\ tested'[j] = tested[j] /\ drafted'[j] = drafted[j]
      /\ worker[i] # "record"
      /\ status'[i] = "sandbox_tests_passed" => worker'[i] \in {"none", "record"}
                                             \/ status[i] = status'[i]
      /\ status'[i] \in {status[i], "sandbox_created", "draft_created",
                         "sandbox_tests_passed", "sandbox_tests_failed"}
  BY DEF SafetyInv, TypeInv, TypeOK, WorkerStep, CopyProject, RecordBase, CreateDraft,
         NoDraft, SnapshotProject, TestsPassed, TestsFailed, WorkerRaises, Work,
         Unlocked, proposal, decision, project
<1>2. status[i] \notin {"sandbox_tests_passed", "draft_approved_by_human",
                       "applied_to_live_project", "rolled_back"}
  BY <1>1 DEF DurableInv, SettledInv
<1>3. BegunInv' /\ SettledInv'
  BY <1>1, <1>2 DEF DurableInv, BegunInv, SettledInv
<1>4. LiveInv' /\ ToldInv'
  BY <1>1 DEF DurableInv, LiveInv, ToldInv
<1>5. OnlyReviewedRepairIsLive'
  BY <1>1, <1>2 DEF DurableInv, OnlyReviewedRepairIsLive, SafetyInv, TypeInv, TypeOK
<1>6. QED
  BY <1>3, <1>4, <1>5 DEF DurableInv

\* The end of a session takes nothing back.
LEMMA SessionIsDurable ==
    ASSUME Durable, SafetyInv, DurableInv, NEW i \in Item, SessionStep(i)
    PROVE  DurableInv'
<1>1. /\ UNCHANGED <<mem, disk, status, sandbox, tested, drafted, pc, cur, live, author, torn,
                      told, raced>>
      /\ \A j \in Item : worker'[j] = worker[j] \/ worker'[j] = "none"
  BY SessionTouchesNothing DEF SafetyInv, TypeInv, TypeOK, Elsewhere, proposal, decision, project
<1>2. BegunInv' /\ SettledInv'
  BY <1>1 DEF DurableInv, BegunInv, SettledInv
<1>3. LiveInv' /\ ToldInv' /\ OnlyReviewedRepairIsLive'
  BY <1>1 DEF DurableInv, LiveInv, ToldInv, OnlyReviewedRepairIsLive
<1>4. QED
  BY <1>2, <1>3 DEF DurableInv

\* Steps of the approval write the live file only for a reviewed proposal.
LEMMA ApprovalIsDurable ==
    ASSUME Durable, SafetyInv, DurableInv,
           ApprovalStep \/ \E i \in Item : ApproveProposal(i)
    PROVE  DurableInv'
<1>1. UNCHANGED <<mem, disk, worker, told>>
  BY DEF ApprovalStep, ApproveProposal, Backup, ApplyRefused, Replace, Verified,
         Refuted, Restore, Receipt, Undo, UndoRecorded, UndoRefused, Locked, job
<1> USE DEF SafetyInv, TypeInv, TypeOK
<1>2. pc # "idle" => cur \in Item /\ worker[cur] = "none" /\ status[cur] # "none"
  BY DEF AgreementInv, DecisionInv, JobInv
<1>3. BegunInv' /\ SettledInv'
  <2> USE <1>1, <1>2 DEF DurableInv, BegunInv, SettledInv
  <2>1. ASSUME NEW i \in Item, ApproveProposal(i)
        PROVE BegunInv' /\ SettledInv'
    BY <2>1 DEF ApproveProposal
  <2>2. CASE Receipt
    BY <2>2 DEF Receipt, Go
  <2>3. CASE UndoRecorded
    BY <2>3 DEF UndoRecorded
  <2>4. CASE \/ Backup \/ ApplyRefused \/ Replace \/ Verified \/ Refuted \/ Restore \/ Undo
             \/ UndoRefused
    BY <2>4 DEF Backup, ApplyRefused, Replace, Verified, Refuted, Restore, Undo, UndoRefused,
                proposal
  <2>5. QED
    BY <2>1, <2>2, <2>3, <2>4 DEF ApprovalStep
<1>4. LiveInv' /\ OnlyReviewedRepairIsLive'
  <2> USE <1>1 DEF DurableInv, LiveInv, OnlyReviewedRepairIsLive, Written, Go, Return,
                   project, proposal
  <2>1. ASSUME NEW i \in Item, ApproveProposal(i)
        PROVE LiveInv' /\ OnlyReviewedRepairIsLive'
    BY <2>1 DEF ApproveProposal, Locked
  <2>2. CASE Replace
    BY <2>2 DEF Replace, AgreementInv, DecisionInv, Locked
  <2>3. CASE Restore \/ Undo
    BY <2>3 DEF Restore, Undo
  <2>4. CASE Receipt
    BY <2>4 DEF Receipt, Locked
  <2>5. CASE Backup \/ ApplyRefused \/ Verified \/ Refuted \/ UndoRefused
    BY <2>5 DEF Backup, ApplyRefused, Verified, Refuted, UndoRefused, Locked
  <2>6. CASE UndoRecorded
    BY <2>6 DEF UndoRecorded, AgreementInv, DecisionInv, Locked
  <2>7. QED
    BY <2>1, <2>2, <2>3, <2>4, <2>5, <2>6 DEF ApprovalStep
<1>5. ToldInv'
  BY <1>1 DEF DurableInv, ToldInv
<1>6. QED
  BY <1>3, <1>4, <1>5 DEF DurableInv

\* The save of an approval makes the file the item's for good.
LEMMA SaveIsDurable ==
    ASSUME Durable, SafetyInv, DurableInv, SaveDecision
    PROVE  DurableInv'
<1>1. cur \in Item /\ mem[cur] \in Doc /\ told \in [Item -> {"none", "approve", "reject"}]
  BY DEF SafetyInv, TypeInv, TypeOK, SaveDecision
<1>2. /\ mem'[cur].work = "approved" /\ mem'[cur].decision = "approve"
      /\ \A j \in Item : j # cur => mem'[j] = mem[j]
      /\ disk' = mem' /\ told' = [told EXCEPT ![cur] = "approve"]
  BY <1>1 DEF SaveDecision, Saved, Doc, SafetyInv, TypeInv, TypeOK
<1>3. UNCHANGED <<status, sandbox, tested, drafted, author, live, torn, raced, worker>>
      /\ pc' = "idle"
  BY DEF SaveDecision, Return, proposal, project, job
<1>4. BegunInv' /\ SettledInv'
  BY <1>1, <1>2, <1>3 DEF DurableInv, BegunInv, SettledInv, Begun
<1>5. LiveInv'
  BY <1>1, <1>2, <1>3
     DEF DurableInv, LiveInv, SafetyInv, AgreementInv, DocumentInv, TypeInv, TypeOK
<1>6. ToldInv'
  BY <1>1, <1>2 DEF DurableInv, ToldInv
<1>7. OnlyReviewedRepairIsLive'
  BY <1>3 DEF DurableInv, OnlyReviewedRepairIsLive
<1>8. QED
  BY <1>4, <1>5, <1>6, <1>7 DEF DurableInv

\* Failing calls, restarts and people make no unreviewed proposal live.
LEMMA MishapIsDurable ==
    ASSUME Durable, SafetyInv, DurableInv, Mishap \/ Person
    PROVE  DurableInv'
<1>1. CASE BackupFails \/ ReplaceFails \/ BreaksOff \/ SaveFails
  <2>1. UNCHANGED <<mem, disk, worker, told, status, sandbox, tested, drafted, live,
                    author, raced>>
    BY <1>1 DEF BackupFails, ReplaceFails, BreaksOff, SaveFails, Locked, job, proposal,
                project
  <2>2. BegunInv' /\ SettledInv' /\ ToldInv' /\ OnlyReviewedRepairIsLive'
    BY <2>1 DEF DurableInv, BegunInv, SettledInv, ToldInv, OnlyReviewedRepairIsLive
  <2>3. LiveInv'
    BY <1>1, <2>1 DEF DurableInv, LiveInv, Written, BackupFails, ReplaceFails, BreaksOff,
                      SaveFails, Return
  <2>4. QED
    BY <2>2, <2>3 DEF DurableInv
<1>2. CASE Crash
  <2>1. /\ mem' = disk /\ disk' = disk /\ pc' = "idle"
        /\ UNCHANGED <<status, tested, drafted, live, author, told, raced>>
        /\ \A j \in Item : worker'[j] = "none"
        /\ torn' = IF pc \in Written THEN torn \cup {cur} ELSE torn
    BY <1>2 DEF Crash, Return, Written, proposal, project
  <2>2. BegunInv' /\ SettledInv' /\ ToldInv' /\ OnlyReviewedRepairIsLive'
    BY <2>1 DEF DurableInv, BegunInv, SettledInv, ToldInv, OnlyReviewedRepairIsLive
  <2>3. LiveInv'
    BY <2>1 DEF DurableInv, LiveInv
  <2>4. QED
    BY <2>2, <2>3 DEF DurableInv
<1>3. ASSUME NEW content \in Content, EditLive(content)
      PROVE DurableInv'
  BY <1>3 DEF EditLive, job, proposal, decision, DurableInv, BegunInv, SettledInv, LiveInv,
              ToldInv, OnlyReviewedRepairIsLive
<1>4. ASSUME NEW i \in Item, NEW content \in Content, EditSandbox(i, content)
      PROVE DurableInv'
  BY <1>4 DEF EditSandbox, Touch, job, decision, project, DurableInv, BegunInv, SettledInv,
              LiveInv, ToldInv, OnlyReviewedRepairIsLive
<1>5. ASSUME NEW i \in Item, CommandLineApproves(i)
      PROVE DurableInv'
  BY <1>5 DEF CommandLineApproves, Touch, job, decision, project, DurableInv, BegunInv,
              SettledInv, LiveInv, ToldInv, OnlyReviewedRepairIsLive, SafetyInv, TypeInv,
              TypeOK
<1>6. QED
  BY <1>1, <1>2, <1>3, <1>4, <1>5 DEF Mishap, Person

\* With a state file, the second half of the invariant holds as well.
LEMMA Durability == Durable => (Spec => [](SafetyInv /\ DurableInv))
<1> SUFFICES ASSUME Durable PROVE Spec => [](SafetyInv /\ DurableInv)
  OBVIOUS
<1>1. Init => DurableInv
  BY DEF Init, DurableInv, BegunInv, SettledInv, LiveInv, ToldInv, OnlyReviewedRepairIsLive
<1>2. SafetyInv /\ DurableInv /\ [Next]_vars => DurableInv'
  <2> SUFFICES ASSUME SafetyInv, DurableInv, [Next]_vars PROVE DurableInv'
    OBVIOUS
  <2>1. CASE UNCHANGED vars
    BY <2>1 DEF vars, DurableInv, BegunInv, SettledInv, LiveInv, ToldInv,
                OnlyReviewedRepairIsLive
  <2>2. ASSUME NEW i \in Item, Triage(i) \/ RecordForgeResult(i)
        PROVE DurableInv'
    BY <2>2, TriageIsOperation, OperationIsDurable DEF SafetyInv, TypeInv
  <2>3. QED
    BY <2>1, <2>2, Steps, RejectIsDurable, WorkerIsDurable, ApprovalIsDurable,
       SaveIsDurable, MishapIsDurable, SessionIsDurable
<1>3. SafetyInv <=> TypeInv /\ AgreementInv
  BY DEF SafetyInv
<1>4. QED
  BY <1>1, <1>2, <1>3, Agreement, PTL DEF Spec

\* Bytes of a proposal are live only if they were tested, are what the reviewed
\* diff leads to, and were approved, whatever fails, restarts or interleaves.
THEOREM ReviewedOnly == Durable => (Spec => []OnlyReviewedRepairIsLive)
<1>1. DurableInv => OnlyReviewedRepairIsLive
  BY DEF DurableInv
<1>2. QED
  BY <1>1, Durability, PTL

\* Outside decide, a live proposal is saved as approved unless its approval
\* broke off after the live write.
THEOREM LiveIsApproved == Spec => []LiveMeansApproved
<1>1. CASE Durable
  <2>1. SafetyInv /\ DurableInv => LiveMeansApproved
    BY DEF DurableInv, LiveInv, LiveMeansApproved, Written
  <2>2. QED
    BY <1>1, <2>1, Durability, PTL
<1>2. CASE ~Durable
  <2>1. LiveMeansApproved
    BY <1>2 DEF LiveMeansApproved
  <2>2. QED
    BY <2>1, PTL
<1>3. QED
  BY <1>1, <1>2

\* With a state file, a decision that was shown is shown from then on, through
\* every failed save and every restart.
THEOREM DecisionsPersist == Durable => (Spec => []DecisionsSurviveRestart)
<1>1. DurableInv => DecisionsSurviveRestart
  BY DEF DurableInv, ToldInv, DecisionsSurviveRestart
<1>2. QED
  BY <1>1, Durability, PTL

-----------------------------------------------------------------------------
(* The refinement, for a dashboard with a state file.                      *)

Decided == {"approved", "rejected", "closed"}

\* Memory and the saved document agree on every decision.
SavedInv ==
    \A i \in Item :
        /\ disk[i].decision = mem[i].decision
        /\ mem[i].decision # "none" => mem[i].work \in Decided
        /\ disk[i].decision # "none" => disk[i].work \in Decided

\* An item has one draft: no worker is about to make one when there is one.
DraftInv ==
    \A i \in Item : original[i] # None =>
        status[i] # "none" /\ worker[i] \notin {"copy", "base", "draft"}

\* An approval that broke off is over, and its proposal stays as it left it.
TornInv ==
    \A i \in torn :
        /\ status[i] \in {"draft_approved_by_human", "applied_to_live_project", "rolled_back"}
        /\ cur # i

\* The approval in progress has a draft, and as long as nobody edits files the
\* backup is what the draft was made from, and what it puts live was tested.
ApprovalInv ==
    pc # "idle" =>
        /\ original[cur] \in Content
        /\ pc # "apply" => backup[cur] = base[cur]
        /\ ~raced => /\ pc # "apply" => backup[cur] = original[cur]
                     /\ pc \in {"receipt", "save", "undo"} => live = tested[cur]
                     /\ pc = "undone" => live = backup[cur]

RepairInv == SavedInv /\ DraftInv /\ TornInv /\ ApprovalInv

\* Everything the refinement is proved from.
LaneInv == SafetyInv /\ DurableInv /\ RepairInv

\* Operations of the dashboard decide nothing and draft nothing.
LEMMA OperationIsGoverned ==
    ASSUME Durable, LaneInv, SafetyInv', NEW i \in Item, NEW doc \in Doc, Operation(i, doc)
    PROVE  RepairInv' /\ [Governed!Next]_(Governed!vars)
<1> USE DEF LaneInv, RepairInv
<1>1. /\ mem' = [mem EXCEPT ![i] = doc] /\ mem \in [Item -> Doc] /\ disk \in [Item -> Doc]
      /\ \A j \in Item : mem'[j].decision = mem[j].decision
      /\ disk' = disk \/ disk' = mem'
      /\ mem[i].work \in Decided => doc.work \in Decided
  BY DEF SafetyInv, TypeInv, TypeOK, Operation, Update, Save, Saved, Moves, Decided
<1>2. UNCHANGED <<status, base, original, drafted, tested, backup, pc, cur, live, torn, raced>>
  BY DEF Operation, Elsewhere, proposal, decision, project
<1>3. SavedInv'
  BY <1>1 DEF SavedInv
<1>4. DraftInv'
  <2>1. \A j \in Item : \/ worker'[j] = worker[j] \/ worker'[j] = "none"
                        \/ status[j] = "none"
    <3>1. mem[i].work = "approved_for_isolated_work" => status[i] = "none"
      BY DEF DurableInv, BegunInv, Begun
    <3>2. QED
      BY <3>1 DEF Operation, Handover, SafetyInv, TypeInv, TypeOK
  <2>2. QED
    BY <1>2, <2>1 DEF DraftInv
<1>5. TornInv' /\ ApprovalInv'
  BY <1>2 DEF TornInv, ApprovalInv
<1>6. LiveBar' = LiveBar /\ DecisionBar' = DecisionBar
  BY <1>1, <1>2 DEF LiveBar, DecisionBar, SavedInv
<1>7. \/ UNCHANGED budget
      \/ faults' = faults + 1 /\ UNCHANGED <<crashes, hand>>
  BY DEF Operation, Update, Save, Fault
<1>8. [Governed!Next]_(Governed!vars)
  BY <1>2, <1>6, <1>7 DEF budget, Governed!vars, Governed!Next, Governed!Recover,
                          Governed!Mishap, Governed!drafts
<1>9. QED
  BY <1>3, <1>4, <1>5, <1>8

\* A rejection is the decision of an item that had none.
LEMMA RejectIsGoverned ==
    ASSUME Durable, LaneInv, NEW i \in Item, Reject(i)
    PROVE  RepairInv' /\ [Governed!Next]_(Governed!vars)
<1> USE DEF LaneInv, RepairInv
<1>1. /\ mem \in [Item -> Doc] /\ disk \in [Item -> Doc] /\ mem[i].work = "awaiting_human_decision"
      /\ mem'[i] = [mem[i] EXCEPT !.work = "rejected", !.decision = "reject"]
      /\ \A j \in Item : j # i => mem'[j] = mem[j]
      /\ disk' = mem'
  BY DEF SafetyInv, TypeInv, TypeOK, Reject, Saved
<1>2. mem'[i].work = "rejected" /\ mem'[i].decision = "reject"
  BY <1>1 DEF Doc
<1>3. /\ UNCHANGED <<status, base, original, drafted, tested, backup, pc, cur, live, torn, raced>>
      /\ UNCHANGED <<worker, faults, crashes, hand>>
  BY DEF Reject, Elsewhere, proposal, decision, project, job, budget
<1>4. RepairInv'
  BY <1>1, <1>2, <1>3 DEF SavedInv, DraftInv, TornInv, ApprovalInv, Decided
<1>5. disk[i].decision = "none"
  BY <1>1 DEF SavedInv, Decided
<1>6. LiveBar' = LiveBar /\ DecisionBar' = [DecisionBar EXCEPT ![i] = "reject"]
  <2>1. LiveBar' = LiveBar
    BY <1>3 DEF LiveBar
  <2>2. \A j \in Item : disk'[j].decision = IF j = i THEN "reject" ELSE disk[j].decision
    BY <1>1, <1>2 DEF SavedInv
  <2>3. QED
    BY <2>1, <2>2 DEF DecisionBar
<1>7. Governed!Reject(i)
  BY <1>3, <1>5, <1>6 DEF Governed!Reject, Governed!drafts, Governed!counters, DecisionBar
<1>8. QED
  BY <1>4, <1>7 DEF Governed!Next

\* The worker makes the one draft of an item that is not decided.
LEMMA WorkerIsGoverned ==
    ASSUME Durable, LaneInv, NEW i \in Item, WorkerStep(i)
    PROVE  RepairInv' /\ [Governed!Next]_(Governed!vars)
<1> USE DEF LaneInv, RepairInv
<1>1. /\ UNCHANGED <<mem, disk, pc, cur, live, torn, raced, crashes, hand, backup>>
      /\ \A j \in Item : j # i => base'[j] = base[j]
      /\ worker[i] \notin {"none", "record"}
      /\ \A j \in Item : j # i => /\ worker'[j] = worker[j]
                                 /\ status'[j] = status[j] /\ original'[j] = original[j]
                                 /\ tested'[j] = tested[j] /\ drafted'[j] = drafted[j]
  BY DEF SafetyInv, TypeInv, TypeOK, WorkerStep, CopyProject, RecordBase, CreateDraft,
         NoDraft, SnapshotProject, TestsPassed, TestsFailed, WorkerRaises, Work,
         Unlocked, Fault, proposal, decision, project, budget
<1>2. /\ mem[i].work = "in_forge" /\ mem[i].decision = "none" /\ disk[i].decision = "none"
      /\ i \notin torn /\ (pc # "idle" => cur # i)
  <2>1. mem[i].work = "in_forge"
    BY <1>1 DEF SafetyInv, AgreementInv, JobInv
  <2>2. i \notin torn
    BY <1>1 DEF DurableInv, SettledInv, TornInv
  <2>3. pc # "idle" => cur # i
    BY <2>1 DEF SafetyInv, AgreementInv, DecisionInv
  <2>4. QED
    BY <2>1, <2>2, <2>3 DEF SavedInv, Decided
<1>3. SavedInv' /\ TornInv' /\ ApprovalInv'
  BY <1>1, <1>2 DEF SavedInv, TornInv, ApprovalInv, SafetyInv, TypeInv, TypeOK
<1>4. LiveBar' = LiveBar /\ DecisionBar' = DecisionBar
  BY <1>1 DEF LiveBar, DecisionBar
<1>5. ASSUME NEW content \in Content, CreateDraft(i, content)
      PROVE  DraftInv' /\ [Governed!Next]_(Governed!vars)
  <2>1. worker'[i] = "snapshot" /\ status'[i] = "draft_created"
    BY <1>5 DEF CreateDraft, Work, SafetyInv, TypeInv, TypeOK
  <2>2. DraftInv'
    BY <1>1, <2>1 DEF DraftInv
  <2>3. original[i] = None /\ sandbox[i] \in Content
    BY <1>5 DEF CreateDraft, Work, DraftInv, SafetyInv, TypeInv, TypeOK, CopyInv
  <2>4. Governed!Draft(i, sandbox[i], content)
    BY <1>1, <1>2, <1>4, <1>5, <2>3
       DEF CreateDraft, Governed!Draft, Governed!counters, DecisionBar, budget
  <2>5. QED
    BY <1>5, <2>2, <2>3, <2>4 DEF Governed!Next
<1>6. ASSUME CopyProject(i) \/ RecordBase(i) \/ NoDraft(i) \/ SnapshotProject(i)
             \/ TestsPassed(i) \/ TestsFailed(i) \/ WorkerRaises(i)
      PROVE  DraftInv' /\ [Governed!Next]_(Governed!vars)
  <2> USE DEF CopyProject, RecordBase, NoDraft, SnapshotProject, TestsPassed,
              TestsFailed, WorkerRaises, Work, proposal, budget, Fault
  <2>1. /\ UNCHANGED <<original, drafted>>
        /\ UNCHANGED faults \/ faults' = faults + 1
    BY <1>6
  <2>2. /\ worker'[i] \in {"copy", "base", "draft"} => worker[i] \in {"copy", "base", "draft"}
        /\ status'[i] = "none" => status[i] = "none"
    BY <1>6 DEF SafetyInv, TypeInv, TypeOK
  <2>3. DraftInv'
    BY <1>1, <2>1, <2>2 DEF DraftInv
  <2>4. [Governed!Next]_(Governed!vars)
    BY <1>1, <1>4, <2>1 DEF Governed!vars, Governed!Next, Governed!Recover,
                            Governed!Mishap, Governed!drafts
  <2>5. QED
    BY <2>3, <2>4
<1>7. QED
  BY <1>3, <1>5, <1>6 DEF WorkerStep

\* The end of a session changes nothing that counts.
LEMMA SessionIsGoverned ==
    ASSUME Durable, LaneInv, NEW i \in Item, SessionStep(i)
    PROVE  RepairInv' /\ UNCHANGED Governed!vars
<1>1. /\ UNCHANGED <<mem, disk, proposal, decision, project, torn, raced, budget>>
      /\ \A j \in Item : worker'[j] = worker[j] \/ worker'[j] = "none"
  BY SessionTouchesNothing DEF LaneInv, SafetyInv, TypeInv, TypeOK, Elsewhere
<1>2. SavedInv' /\ DraftInv' /\ TornInv' /\ ApprovalInv'
  BY <1>1 DEF LaneInv, RepairInv, SavedInv, DraftInv, TornInv, ApprovalInv, proposal, decision,
              project
<1>3. UNCHANGED Governed!vars
  BY <1>1 DEF Governed!vars, LiveBar, DecisionBar, proposal, decision, project, budget
<1>4. QED
  BY <1>2, <1>3 DEF RepairInv

\* The steps of the approval before its save change nothing that counts yet, and
\* the undoing of an approval leaves the file as it was before.
LEMMA ApprovalIsGoverned ==
    ASSUME Durable, LaneInv, SafetyInv', ApprovalStep \/ \E i \in Item : ApproveProposal(i)
    PROVE  RepairInv' /\ [Governed!Next]_(Governed!vars)
<1> USE DEF LaneInv, RepairInv
<1>1. UNCHANGED <<mem, disk, worker, raced, original, drafted, faults, crashes, hand>>
  BY DEF ApprovalStep, ApproveProposal, Backup, ApplyRefused, Replace, Verified,
         Refuted, Restore, Receipt, Undo, UndoRecorded, UndoRefused, Go, Locked, job, proposal, budget
<1>2. SavedInv' /\ DecisionBar' = DecisionBar
  BY <1>1 DEF SavedInv, DecisionBar
<1> USE DEF SafetyInv, TypeInv, TypeOK
<1>3. pc # "idle" => /\ cur \in Item /\ status[cur] # "none"
                     /\ mem[cur].work = "awaiting_human_decision"
                     /\ disk[cur].decision = "none"
  BY DEF AgreementInv, DecisionInv, SavedInv, Decided
<1>4. DraftInv' /\ TornInv'
  <2> USE <1>1, <1>3 DEF DraftInv, TornInv, Return, Go
  <2>1. ASSUME NEW i \in Item, ApproveProposal(i)
        PROVE DraftInv' /\ TornInv'
    BY <2>1, ConstantsAssumption DEF ApproveProposal
  <2>2. CASE Receipt
    BY <2>2 DEF Receipt
  <2>3. CASE Undo \/ UndoRecorded \/ Restore
    BY <2>3, ConstantsAssumption DEF Undo, UndoRecorded, Restore, proposal
  <2>4. CASE UndoRefused
    BY <2>4, ConstantsAssumption DEF UndoRefused, proposal, AgreementInv, DecisionInv
  <2>5. CASE Backup \/ ApplyRefused \/ Replace \/ Verified \/ Refuted
    BY <2>5, ConstantsAssumption DEF Backup, ApplyRefused, Replace, Verified, Refuted, proposal
  <2>6. QED
    BY <2>1, <2>2, <2>3, <2>4, <2>5 DEF ApprovalStep
<1>5. ApprovalInv'
  <2> USE <1>1, <1>3 DEF ApprovalInv, Return, Go, project, proposal
  <2>1. ASSUME NEW i \in Item, ApproveProposal(i)
        PROVE ApprovalInv'
    BY <2>1 DEF ApproveProposal, SameDiff
  <2>2. CASE Backup
    BY <2>2 DEF Backup, ValidForApply, AgreementInv, DecisionInv
  <2>3. CASE ApplyRefused \/ UndoRefused \/ Undo \/ UndoRecorded \/ Restore
    BY <2>3 DEF ApplyRefused, UndoRefused, Undo, UndoRecorded, Restore
  <2>4. CASE Replace
    BY <2>4 DEF Replace
  <2>5. CASE Verified \/ Refuted
    BY <2>5 DEF Verified, Refuted
  <2>6. CASE Receipt
    BY <2>6 DEF Receipt
  <2>7. QED
    BY <2>1, <2>2, <2>3, <2>4, <2>5, <2>6 DEF ApprovalStep
<1>6. [Governed!Next]_(Governed!vars)
  <2>1. CASE UndoRefused
    <3>1. raced
      BY <2>1, <1>3 DEF UndoRefused, ApprovalInv
    <3>2. Governed!Tear(cur)
      BY <1>1, <1>2, <1>3, <2>1, <3>1, ConstantsAssumption
         DEF UndoRefused, Governed!Tear, Governed!Open, Governed!Replaced, Governed!drafts,
             Governed!counters, LiveBar, DecisionBar, ApprovalInv, TornInv, project
    <3>3. QED
      BY <1>3, <2>1, <3>2 DEF UndoRefused, Governed!Next
  <2>2. CASE ~UndoRefused
    <3>1. torn' = torn
      BY <2>2 DEF ApprovalStep, ApproveProposal, Backup, ApplyRefused, Replace, Verified,
                  Refuted, Restore, Receipt, Undo, UndoRecorded
    <3>2. CASE raced
      <4>1. LiveBar = live /\ LiveBar' = live' /\ live' \in Content
        BY <1>1, <3>2 DEF LiveBar
      <4>2. Governed!Stray(live')
        BY <1>1, <1>2, <3>1, <3>2, <4>1 DEF Governed!Stray, Governed!drafts, Governed!counters
      <4>3. QED
        BY <4>1, <4>2 DEF Governed!Next
    <3>3. CASE ~raced
      <4>1. LiveBar' = LiveBar
        <5> USE <1>1, <1>3, <3>3 DEF LiveBar, Written, Go, Return, project, proposal
        <5>1. ASSUME NEW i \in Item, ApproveProposal(i)
              PROVE LiveBar' = LiveBar
          BY <5>1 DEF ApproveProposal
        <5>2. CASE Backup \/ ApplyRefused \/ Verified \/ Refuted \/ Receipt
          BY <5>2 DEF Backup, ApplyRefused, Verified, Refuted, Receipt
        <5>3. CASE Replace
          BY <5>3 DEF Replace, ApprovalInv, AgreementInv, DecisionInv
        <5>4. CASE Restore \/ Undo \/ UndoRecorded
          BY <5>4 DEF Restore, Undo, UndoRecorded, ApprovalInv
        <5>5. QED
          BY <2>2, <5>1, <5>2, <5>3, <5>4 DEF ApprovalStep
      <4>2. QED
        BY <1>1, <1>2, <3>1, <4>1 DEF Governed!vars
    <3>4. QED
      BY <3>2, <3>3
  <2>3. QED
    BY <2>1, <2>2
<1>7. QED
  BY <1>2, <1>4, <1>5, <1>6

\* The save of the decision is the approval and the edit of the live file.
LEMMA SaveIsGoverned ==
    ASSUME Durable, LaneInv, SaveDecision
    PROVE  RepairInv' /\ [Governed!Next]_(Governed!vars)
<1> USE DEF LaneInv, RepairInv
<1>1. /\ cur \in Item /\ mem \in [Item -> Doc] /\ disk \in [Item -> Doc] /\ live \in Content
      /\ mem[cur].work = "awaiting_human_decision" /\ disk[cur].decision = "none"
  BY DEF SafetyInv, TypeInv, TypeOK, SaveDecision, AgreementInv, DecisionInv, SavedInv, Decided
<1>2. /\ mem'[cur].work = "approved" /\ mem'[cur].decision = "approve"
      /\ \A j \in Item : j # cur => mem'[j] = mem[j]
      /\ disk' = mem'
  BY <1>1 DEF SaveDecision, Saved, Doc
<1>3. /\ UNCHANGED <<status, base, original, drafted, tested, backup, live, torn, raced>>
      /\ UNCHANGED <<worker, faults, crashes, hand>>
      /\ pc = "save" /\ pc' = "idle" /\ cur' = None
  BY DEF SaveDecision, Return, proposal, project, job, budget
<1>4. RepairInv'
  BY <1>1, <1>2, <1>3, ConstantsAssumption
     DEF SavedInv, DraftInv, TornInv, ApprovalInv, Decided, SafetyInv, TypeInv, TypeOK
<1>5. DecisionBar' = [DecisionBar EXCEPT ![cur] = "approve"]
  BY <1>1, <1>2 DEF DecisionBar, SavedInv
<1>6. Governed!Open(cur)
  BY <1>1, <1>3, ConstantsAssumption DEF Governed!Open, DecisionBar, TornInv, ApprovalInv
<1>7. ~raced => live = drafted[cur] /\ backup[cur] = original[cur]
  BY <1>3 DEF SafetyInv, AgreementInv, DecisionInv, ApprovalInv
<1>8. Governed!Replaced(cur, {drafted[cur]})
  BY <1>1, <1>3, <1>7 DEF Governed!Replaced, LiveBar, Written
<1>9. Governed!Approve(cur)
  BY <1>3, <1>5, <1>6, <1>8 DEF Governed!Approve, Governed!drafts, Governed!counters
<1>10. QED
  BY <1>1, <1>4, <1>9 DEF Governed!Next

\* An approval that breaks off after the live write leaves the file as before or
\* as drafted and undecided for good.
LEMMA BrokenOffIsTear ==
    ASSUME LaneInv, TypeOK', pc \in Written, pc' = "idle", Governed!Mishap,
           torn' = torn \cup {cur},
           UNCHANGED <<disk, original, drafted, live, raced>>
    PROVE  Governed!Tear(cur)
<1> USE DEF LaneInv, RepairInv
<1>1. cur \in Item /\ live \in Content /\ disk[cur].decision = "none"
  BY DEF SafetyInv, TypeInv, TypeOK, AgreementInv, DecisionInv, SavedInv, Decided, Written
<1>2. Governed!Open(cur)
  BY <1>1, ConstantsAssumption DEF Governed!Open, DecisionBar, TornInv, ApprovalInv, Written
<1>3. ~raced => /\ backup[cur] = original[cur]
                /\ live \in {original[cur], drafted[cur]}
  BY DEF SafetyInv, AgreementInv, DecisionInv, ApprovalInv, Written
<1>4. LiveBar' = live
  BY DEF LiveBar, Written
<1>5. Governed!Replaced(cur, {original[cur], drafted[cur]})
  BY <1>1, <1>3, <1>4 DEF Governed!Replaced, LiveBar
<1>6. QED
  BY <1>2, <1>5 DEF Governed!Tear, Governed!drafts, DecisionBar

\* A failing call or a restart is made good, or tears the item in approval.
LEMMA MishapIsGoverned ==
    ASSUME Durable, LaneInv, SafetyInv', Mishap
    PROVE  RepairInv' /\ [Governed!Next]_(Governed!vars)
<1> USE DEF LaneInv, RepairInv
<1>1. /\ UNCHANGED <<disk, status, base, original, drafted, tested, backup, live, raced>>
      /\ Governed!Mishap
  BY DEF Mishap, BackupFails, ReplaceFails, BreaksOff, SaveFails, Crash, Fault, Locked,
         proposal, project, Governed!Mishap
<1>2. /\ mem' = mem \/ mem' = disk
      /\ \A i \in Item : worker'[i] = worker[i] \/ worker'[i] = "none"
  BY DEF Mishap, BackupFails, ReplaceFails, BreaksOff, SaveFails, Crash, Locked, job
<1>3. SavedInv' /\ DraftInv' /\ DecisionBar' = DecisionBar
  BY <1>1, <1>2 DEF SavedInv, DraftInv, DecisionBar
<1>4. \/ /\ pc' = "idle" /\ cur' = None
         /\ torn' = torn \/ (torn' = torn \cup {cur} /\ pc \in Written)
      \/ /\ cur' = cur /\ torn' = torn
         /\ \/ pc \in {"replace", "verify"} /\ pc' = "restore"
            \/ pc = "save" /\ pc' = "undo"
  BY DEF Mishap, BackupFails, ReplaceFails, BreaksOff, SaveFails, Crash, Return, Written
<1>5. TornInv' /\ ApprovalInv'
  BY <1>1, <1>4, ConstantsAssumption
     DEF TornInv, ApprovalInv, SafetyInv, TypeInv, TypeOK, AgreementInv, DecisionInv, Written
<1>6. CASE (BreaksOff \/ Crash) /\ pc \in Written
  <2>1. pc' = "idle" /\ torn' = torn \cup {cur} /\ cur \in Item
    BY <1>6 DEF BreaksOff, Crash, Return, Written, SafetyInv, TypeInv, TypeOK
  <2>2. Governed!Tear(cur)
    BY <1>1, <1>6, <2>1, BrokenOffIsTear DEF SafetyInv, TypeInv
  <2>3. QED
    BY <1>3, <1>5, <2>1, <2>2 DEF Governed!Next
<1>7. CASE ~((BreaksOff \/ Crash) /\ pc \in Written)
  <2>1. /\ torn' = torn
        /\ \/ pc \notin Written /\ pc' = "idle"
           \/ pc \in {"replace", "verify"} /\ pc' = "restore" /\ cur' = cur
           \/ pc = "save" /\ pc' = "undo" /\ cur' = cur
    BY <1>7 DEF Mishap, BackupFails, ReplaceFails, BreaksOff, SaveFails, Crash, Return,
                Written
  <2>2. LiveBar' = LiveBar
    BY <1>1, <2>1 DEF LiveBar, Written, SafetyInv, AgreementInv, DecisionInv, ApprovalInv
  <2>3. Governed!Recover
    BY <1>1, <1>3, <2>1, <2>2 DEF Governed!Recover, Governed!drafts
  <2>4. QED
    BY <1>3, <1>5, <2>3 DEF Governed!Next
<1>8. QED
  BY <1>6, <1>7

\* What people do is an edit: of the live file, or of a copy.
LEMMA PersonIsGoverned ==
    ASSUME Durable, LaneInv, SafetyInv', Person
    PROVE  RepairInv' /\ [Governed!Next]_(Governed!vars)
<1> USE DEF LaneInv, RepairInv
<1>1. /\ UNCHANGED <<mem, disk, worker, base, original, drafted, tested, backup, pc, cur,
                   torn>>
      /\ UNCHANGED <<faults, crashes>>
      /\ hand' = hand + 1 /\ raced' = (raced \/ pc # "idle")
  BY DEF Person, EditLive, EditSandbox, CommandLineApproves, Touch, job, decision, proposal
<1>2. \A i \in Item : \/ status'[i] = status[i]
                      \/ /\ status[i] = "sandbox_tests_passed"
                         /\ status'[i] = "draft_approved_by_human"
  BY DEF Person, EditLive, EditSandbox, CommandLineApproves, proposal, SafetyInv, TypeInv,
         TypeOK
<1>3. RepairInv'
  <2>1. SavedInv' /\ TornInv'
    BY <1>1, <1>2 DEF SavedInv, TornInv, SafetyInv, TypeInv, TypeOK
  <2>2. DraftInv'
    BY <1>1, <1>2 DEF DraftInv
  <2>3. pc # "idle" => raced'
    BY <1>1
  <2>4. ApprovalInv'
    BY <1>1, <2>3 DEF ApprovalInv
  <2>5. QED
    BY <2>1, <2>2, <2>4
<1>4. live' \in Content /\ DecisionBar' = DecisionBar
  BY <1>1 DEF SafetyInv, TypeInv, TypeOK, DecisionBar
<1>5. LiveBar' = live'
  BY <1>1 DEF LiveBar, Written
<1>6. raced' \in {raced, TRUE}
  BY <1>1 DEF SafetyInv, TypeInv, TypeOK
<1>7. Governed!Edit(live')
  BY <1>1, <1>4, <1>5, <1>6 DEF Governed!Edit, Governed!drafts
<1>8. QED
  BY <1>3, <1>4, <1>7 DEF Governed!Next

\* With a state file, the lane makes only the changes GovernedRepair allows: the
\* saved decision and the edit of the live file come about together.
THEOREM Refinement ==
    ASSUME Durable
    PROVE  Spec => ImplementsGovernedRepair
<1>1. Init => RepairInv
  BY ConstantsAssumption DEF Init, RepairInv, SavedInv, DraftInv, TornInv, ApprovalInv, NoDoc
<1>2. Init => Governed!Init
  BY DEF Init, Governed!Init, LiveBar, DecisionBar, Written, NoDoc
<1>3. ASSUME LaneInv, SafetyInv', [Next]_vars
      PROVE  RepairInv' /\ [Governed!Next]_(Governed!vars)
  <2>1. CASE UNCHANGED vars
    BY <1>3, <2>1 DEF vars, LaneInv, RepairInv, SavedInv, DraftInv, TornInv, ApprovalInv,
                      LiveBar, DecisionBar, Governed!vars
  <2>2. ASSUME NEW i \in Item, Triage(i) \/ RecordForgeResult(i)
        PROVE  RepairInv' /\ [Governed!Next]_(Governed!vars)
    BY <1>3, <2>2, TriageIsOperation, OperationIsGoverned DEF LaneInv, SafetyInv, TypeInv
  <2>3. QED
    BY <1>3, <2>1, <2>2, Steps, RejectIsGoverned, WorkerIsGoverned, SessionIsGoverned, ApprovalIsGoverned,
       SaveIsGoverned, MishapIsGoverned, PersonIsGoverned
<1>4. LaneInv <=> SafetyInv /\ DurableInv /\ RepairInv
  BY DEF LaneInv
<1>5. Spec => [](SafetyInv /\ DurableInv)
  BY Durability
<1>6. QED
  BY <1>1, <1>2, <1>3, <1>4, <1>5, PTL DEF Spec, ImplementsGovernedRepair, Governed!Spec

-----------------------------------------------------------------------------
(* What EveryForgeRunReachesAHuman rests on: jobs only go forward.         *)

JobStepsLeft ==
    [none |-> 0, record |-> 1, test |-> 2, snapshot |-> 3, draft |-> 4, base |-> 5, copy |-> 6]

\* No command of the dashboard, no other job and no approval sends a running job
\* back or ends it: it comes nearer to its result, which is recorded, or a call
\* fails, or the process restarts, or whoever asked for it is signed out by then.
JobsOnlyAdvance ==
    [][\A i \in Item : worker[i] # "none" /\ worker'[i] # worker[i] =>
          /\ JobStepsLeft[worker'[i]] < JobStepsLeft[worker[i]]
          /\ worker'[i] = "none" =>
                \/ mem'[i].work = "awaiting_human_decision"
                \/ i \in expired
                \/ faults' > faults \/ crashes' > crashes]_vars

\* The job i takes a step ahead or stays where it is.
Ahead(i) ==
    \/ worker'[i] = worker[i] \/ worker[i] = "none"
    \/ /\ JobStepsLeft[worker'[i]] < JobStepsLeft[worker[i]]
       /\ worker'[i] = "none" => \/ mem'[i].work = "awaiting_human_decision"
                                 \/ i \in expired
                                 \/ faults' > faults \/ crashes' > crashes

\* No dashboard operation stops a job: what it hands over was not running, and
\* what it takes back has its result recorded.
LEMMA OperationAhead ==
    ASSUME TypeInv, AgreementInv, NEW i \in Item, NEW j \in Item,
           Triage(i) \/ RecordForgeResult(i)
    PROVE  Ahead(j)
<1>1. CASE RecordForgeResult(i)
  <2>1. /\ worker \in [Item -> {"none", "copy", "base", "draft", "snapshot", "test", "record"}]
        /\ mem \in [Item -> Doc] /\ worker[i] = "record"
        /\ worker' = [worker EXCEPT ![i] = "none"]
        /\ mem' = [mem EXCEPT ![i] = [mem[i] EXCEPT !.work = "awaiting_human_decision",
                                                    !.result = outcome[i]]]
    BY <1>1 DEF TypeInv, TypeOK, RecordForgeResult, Update
  <2>2. mem'[i].work = "awaiting_human_decision"
    BY <2>1 DEF Doc
  <2>3. CASE j = i
    BY <2>1, <2>2, <2>3 DEF Ahead, JobStepsLeft
  <2>4. QED
    BY <2>1, <2>3 DEF Ahead
<1>2. CASE ExecuteForge(i)
  <2>1. worker[i] = "none"
    BY <1>2 DEF ExecuteForge, AgreementInv, JobInv
  <2>2. worker' = worker \/ worker' = [worker EXCEPT ![i] = "copy"]
    BY <1>2 DEF ExecuteForge
  <2>3. QED
    BY <2>1, <2>2 DEF Ahead, TypeInv, TypeOK
<1>3. CASE Triage(i) /\ ~ExecuteForge(i)
  <2>1. worker' = worker
    BY <1>3 DEF Triage, Ingest, MarkInReview, PushToDevelopment, ApproveIsolatedWork,
                StartForge, Close, job
  <2>2. QED
    BY <2>1 DEF Ahead
<1>4. QED
  BY <1>1, <1>2, <1>3

\* The end of a session ends a job only when its result is refused.
LEMMA SessionAhead ==
    ASSUME TypeInv, NEW i \in Item, NEW j \in Item, SessionStep(i)
    PROVE  Ahead(j)
<1>1. worker \in [Item -> {"none", "copy", "base", "draft", "snapshot", "test", "record"}]
  BY DEF TypeInv, TypeOK
<1>2. worker' = worker \/ (worker' = [worker EXCEPT ![i] = "none"] /\ i \in expired
                                             /\ worker[i] = "record")
  BY SessionTouchesNothing DEF TypeInv
<1>3. QED
  BY <1>1, <1>2 DEF Ahead, JobStepsLeft

\* A job moves in the order of verify_approved_job, or ends with an exception.
LEMMA WorkerAhead ==
    ASSUME TypeInv, NEW i \in Item, NEW j \in Item, WorkerStep(i)
    PROVE  Ahead(j)
<1>1. worker \in [Item -> {"none", "copy", "base", "draft", "snapshot", "test", "record"}]
      /\ faults \in Nat
  BY DEF TypeInv, TypeOK
<1>2. j # i => worker'[j] = worker[j]
  BY <1>1 DEF WorkerStep, CopyProject, RecordBase, CreateDraft, NoDraft, SnapshotProject,
              TestsPassed, TestsFailed, WorkerRaises, Work
<1>3. WorkerRaises(i) => /\ worker[i] \notin {"none", "record"} /\ worker'[i] = "none"
                         /\ faults' > faults
  BY <1>1 DEF WorkerRaises, Fault
<1>4. WorkerRaises(i) => Ahead(i)
  BY <1>1, <1>3 DEF Ahead, JobStepsLeft
<1>5. ~WorkerRaises(i) =>
        <<worker[i], worker'[i]>> \in
          {<<"copy", "base">>, <<"base", "draft">>, <<"draft", "snapshot">>, <<"copy", "record">>,
           <<"draft", "record">>, <<"snapshot", "test">>, <<"test", "record">>}
  BY <1>1 DEF WorkerStep, CopyProject, RecordBase, CreateDraft, NoDraft, SnapshotProject,
              TestsPassed, TestsFailed, Work
<1>6. ~WorkerRaises(i) => Ahead(i)
  BY <1>5 DEF Ahead, JobStepsLeft
<1>7. QED
  BY <1>2, <1>4, <1>6 DEF Ahead

\* Only a failing call, a restart or the end of the requester's session ends a
\* job before its result.
THEOREM JobsAdvance == Spec => JobsOnlyAdvance
<1> DEFINE Advance == \A i \in Item : worker[i] # "none" /\ worker'[i] # worker[i] =>
                        /\ JobStepsLeft[worker'[i]] < JobStepsLeft[worker[i]]
                        /\ worker'[i] = "none" =>
                              \/ mem'[i].work = "awaiting_human_decision"
                              \/ i \in expired
                              \/ faults' > faults \/ crashes' > crashes
<1>1. ASSUME TypeInv, AgreementInv, [Next]_vars PROVE [Advance]_vars
  <2>1. ASSUME NEW j \in Item PROVE Ahead(j) \/ UNCHANGED vars
    <3>1. ASSUME NEW i \in Item,
                 Triage(i) \/ RecordForgeResult(i) \/ WorkerStep(i) \/ SessionStep(i)
          PROVE Ahead(j)
      BY <1>1, <3>1, OperationAhead, WorkerAhead, SessionAhead
    <3>2. ASSUME NEW i \in Item, Reject(i) \/ ApproveProposal(i) PROVE worker' = worker
      BY <3>2 DEF Reject, ApproveProposal, Locked, job
    <3>3. ApprovalStep \/ SaveDecision => worker' = worker
      BY DEF ApprovalStep, Backup, ApplyRefused, Replace, Verified, Refuted, Restore, Receipt,
             Undo, UndoRecorded, UndoRefused, SaveDecision, Locked, job
    <3>4. Person => worker' = worker
      BY DEF Person, EditLive, EditSandbox, CommandLineApproves, job
    <3>5. Mishap /\ ~Crash => worker' = worker
      BY DEF Mishap, BackupFails, ReplaceFails, BreaksOff, SaveFails, Locked, job
    <3>6. Crash => worker'[j] = "none" /\ crashes' > crashes
      BY <1>1 DEF Crash, TypeInv, TypeOK
    <3>7. Crash => Ahead(j)
      <4>1. worker[j] \in {"none", "copy", "base", "draft", "snapshot", "test", "record"}
        BY <1>1 DEF TypeInv, TypeOK
      <4>2. QED
        BY <3>6, <4>1 DEF Ahead, JobStepsLeft
    <3>8. worker' = worker => Ahead(j)
      BY DEF Ahead
    <3>9. QED
      BY <1>1, <3>1, <3>2, <3>3, <3>4, <3>5, <3>7, <3>8, Steps
  <2>2. QED
    BY <2>1 DEF Ahead
<1>2. [][Advance]_vars => JobsOnlyAdvance
  BY PTL DEF JobsOnlyAdvance
<1>3. QED
  BY <1>1, <1>2, Agreement, PTL DEF Spec
=============================================================================
