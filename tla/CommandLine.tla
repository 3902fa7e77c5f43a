------------------------------ MODULE CommandLine ------------------------------
(***************************************************************************)
(* The commands of app.py on the failure reports of evaluator.py and on    *)
(* the proposals of sandbox.py.  Each terminal is a process of its own and *)
(* none of the two stores has a lock: a report is added, or approved, by   *)
(* loading all reports and saving them all.  Whether a person may give a   *)
(* command is asked when it is entered; prompts, tests and saves follow.   *)
(***************************************************************************)
EXTENDS Naturals, FiniteSets

CONSTANTS Terminal, Report, Proposal, None

\* What the constants are taken to be.
ConstantsFit == None \notin Report \cup Proposal /\ Report \cap Proposal = {}

VARIABLES
    records,    \* the fix_status of the saved reports
    trial,      \* what proposal.json says, and whether there is a draft
    exported,   \* proposals that have an approved.patch
    role,       \* who is logged in at a terminal
    cmd, about, \* the command under way, and what it is about
    copy,       \* the reports a terminal has loaded
    \* History
    told,       \* what persons were told of a report
    raced,      \* reports last saved while another terminal had loaded them
    governed    \* reports that an owner approved, proposals an owner approved

term == <<cmd, about, copy>>
vars == <<records, trial, exported, role, cmd, about, copy, told, raced, governed>>

Reports == [Report -> {"none", "pending", "approved"}]

Governed == {"approve report", "create", "draft", "approve", "export"}

Command == Governed \cup {"report"}

\* The commands, and the steps that follow them.
Step == {"none", "reporting", "approving", "testing"} \cup Command

NoReports == [r \in Report |-> "none"]
NoTrial == [failure |-> None, draft |-> FALSE, status |-> "none"]

Init ==
    /\ records = NoReports
    /\ trial = [p \in Proposal |-> NoTrial]
    /\ exported = {}
    /\ role = [t \in Terminal |-> "none"]
    /\ cmd = [t \in Terminal |-> "none"]
    /\ about = [t \in Terminal |-> None]
    /\ copy = [t \in Terminal |-> NoReports]
    /\ told = NoReports
    /\ raced = {} /\ governed = {}

-----------------------------------------------------------------------------
(* Sessions.                                                               *)

\* main: the first Owner is created, or a person logs in; chat begins.
Login(t, who) ==
    /\ role[t] = "none" /\ cmd[t] = "none"
    /\ role' = [role EXCEPT ![t] = who]
    /\ UNCHANGED <<records, trial, exported, term, told, raced, governed>>

\* The session expires or its account is disabled: chat goes on, without
\* authority.
LosesAuthority(t) ==
    /\ role[t] = "owner"
    /\ role' = [role EXCEPT ![t] = "user"]
    /\ UNCHANGED <<records, trial, exported, term, told, raced, governed>>

Ends(t) ==
    /\ cmd' = [cmd EXCEPT ![t] = "none"]
    /\ about' = [about EXCEPT ![t] = None]
    /\ copy' = [copy EXCEPT ![t] = NoReports]

\* Logout, the window is closed, or an exception that chat does not handle: a
\* failing save of the reports, or a document that cannot be loaded.
Exits(t) ==
    /\ role[t] # "none"
    /\ role' = [role EXCEPT ![t] = "none"]
    /\ Ends(t)
    /\ UNCHANGED <<records, trial, exported, told, raced, governed>>

\* A command and the answers to its prompts.
Enter(t, c, x) ==
    /\ role[t] # "none" /\ cmd[t] = "none"
    /\ c \in Governed => role[t] = "owner"
    /\ x \in IF c \in {"approve", "export"} THEN Proposal ELSE Report
    /\ cmd' = [cmd EXCEPT ![t] = c]
    /\ about' = [about EXCEPT ![t] = x]
    /\ UNCHANGED <<records, trial, exported, role, copy, told, raced, governed>>

\* An answer is missing or "no", an argument does not fit, a call of the
\* handled kinds fails: the command ends where it is.
GivesUp(t) ==
    /\ cmd[t] # "none"
    /\ Ends(t)
    /\ UNCHANGED <<records, trial, exported, role, told, raced, governed>>

-----------------------------------------------------------------------------
(* Reports.                                                                *)

Goes(t, to) == cmd' = [cmd EXCEPT ![t] = to]

\* A report has a new identifier.
ReportLoad(t) ==
    /\ cmd[t] = "report"
    /\ told[about[t]] = "none" /\ \A u \in Terminal : cmd[u] = "reporting" => about[u] # about[t]
    /\ copy' = [copy EXCEPT ![t] = records]
    /\ Goes(t, "reporting")
    /\ UNCHANGED <<records, trial, exported, role, about, told, raced, governed>>

\* Only what awaits approval is loaded, and then saved.
ApproveLoadPending(t) ==
    /\ cmd[t] = "approve report"
    /\ records[about[t]] = "pending"
    /\ copy' = [copy EXCEPT ![t] =
                    [r \in Report |-> IF records[r] = "pending" THEN "pending" ELSE "none"]]
    /\ Goes(t, "approving")
    /\ UNCHANGED <<records, trial, exported, role, about, told, raced, governed>>

ApproveLoad(t) ==
    /\ cmd[t] = "approve report"
    /\ records[about[t]] = "pending"
    /\ copy' = [copy EXCEPT ![t] = records]
    /\ Goes(t, "approving")
    /\ UNCHANGED <<records, trial, exported, role, about, told, raced, governed>>

\* Terminals that have loaded the reports and not saved them yet.
Saving == {t \in Terminal : cmd[t] \in {"reporting", "approving"}}

SaveAs(t, status) ==
    /\ records' = [copy[t] EXCEPT ![about[t]] = status]
    /\ told' = [told EXCEPT ![about[t]] = status]
    /\ raced' = IF Saving = {t} THEN raced \ {about[t]} ELSE raced \cup {about[t]}
    /\ Ends(t)
    /\ UNCHANGED <<trial, exported, role>>

ReportSave(t) == cmd[t] = "reporting" /\ SaveAs(t, "pending") /\ UNCHANGED governed

ApproveSave(t) ==
    /\ cmd[t] = "approving"
    /\ SaveAs(t, "approved")
    /\ governed' = governed \cup {about[t]}

-----------------------------------------------------------------------------
(* Proposals.  Each has a directory of its own with a new identifier.      *)

CreateProposal(t, p) ==
    /\ cmd[t] \in {"create", "draft"}
    /\ records[about[t]] = "approved"
    /\ trial[p] = NoTrial
    /\ trial' = [trial EXCEPT ![p] = [failure |-> about[t], draft |-> cmd[t] = "draft",
                    status |-> IF cmd[t] = "draft" THEN "draft_created" ELSE "sandbox_created"]]
    /\ about' = [about EXCEPT ![t] = p]
    /\ Goes(t, "testing")
    /\ UNCHANGED <<records, exported, role, copy, told, raced, governed>>

\* The verdict of the tests and of the isolation around them.
RunTests(t, verdict) ==
    /\ cmd[t] = "testing"
    /\ trial' = [trial EXCEPT ![about[t]].status = verdict]
    /\ Ends(t)
    /\ UNCHANGED <<records, exported, role, told, raced, governed>>

\* Any proposal that passed its tests is approved.
ApproveProposalUndrafted(t) ==
    /\ cmd[t] = "approve"
    /\ trial[about[t]].status = "sandbox_tests_passed"
    /\ trial' = [trial EXCEPT ![about[t]].status = "draft_approved_by_human"]
    /\ governed' = governed \cup {about[t]}
    /\ Ends(t)
    /\ UNCHANGED <<records, exported, role, told, raced>>

\* Without a draft there is no diff, and the reviewed diff never equals it.
ApproveProposal(t) ==
    /\ cmd[t] = "approve"
    /\ trial[about[t]].status = "sandbox_tests_passed"
    /\ trial[about[t]].draft
    /\ trial' = [trial EXCEPT ![about[t]].status = "draft_approved_by_human"]
    /\ governed' = governed \cup {about[t]}
    /\ Ends(t)
    /\ UNCHANGED <<records, exported, role, told, raced>>

\* export proposal, and validate proposal, which exports again.
ExportPatch(t) ==
    /\ cmd[t] = "export"
    /\ trial[about[t]].status = "draft_approved_by_human"
    /\ exported' = exported \cup {about[t]}
    /\ Ends(t)
    /\ UNCHANGED <<records, trial, role, told, raced, governed>>

-----------------------------------------------------------------------------
Verdict == {"sandbox_tests_passed", "sandbox_tests_failed", "isolation_failed",
            "isolation_unavailable"}

Next ==
    \E t \in Terminal :
        \/ \E who \in {"owner", "user"} : Login(t, who)
        \/ LosesAuthority(t) \/ Exits(t)
        \/ \E c \in Command, x \in Report \cup Proposal : Enter(t, c, x)
        \/ GivesUp(t)
        \/ ReportLoad(t) \/ ApproveLoad(t) \/ ReportSave(t) \/ ApproveSave(t)
        \/ \E p \in Proposal : CreateProposal(t, p)
        \/ \E v \in Verdict : RunTests(t, v)
        \/ ApproveProposal(t) \/ ExportPatch(t)

Spec == Init /\ [][Next]_vars

-----------------------------------------------------------------------------
(* Properties.                                                             *)

Trial == [failure : Report \cup {None}, draft : BOOLEAN,
          status : Verdict \cup {"none", "sandbox_created", "draft_created",
                                 "draft_approved_by_human"}]

TypeOK ==
    /\ {records, told} \subseteq Reports
    /\ trial \in [Proposal -> Trial]
    /\ {exported, raced, governed} \subseteq SUBSET (Report \cup Proposal)
    /\ role \in [Terminal -> {"none", "owner", "user"}]
    /\ cmd \in [Terminal -> Step]
    /\ about \in [Terminal -> Report \cup Proposal \cup {None}]
    /\ copy \in [Terminal -> Reports]

\* "I recorded that failure for your approval" (app.py:249), "That failure
\* report is approved" (app.py:348): what a terminal says of a report stays
\* true if no other terminal was between its load and its save at the time.
\* Of those that were, the later save wins (a finding).
ToldReportsAreKept ==
    \A r \in Report : r \notin raced => records[r] = told[r]

\* A patch that leaves SAD is the draft of a report that an owner approved, and
\* an owner approved the draft, each at some time before, though reports are
\* lost, terminals close and sessions end in between.
OnlyGovernedPatchesLeave ==
    \A p \in exported :
        /\ trial[p].draft /\ trial[p].status = "draft_approved_by_human"
        /\ {p, trial[p].failure} \subseteq governed
=============================================================================
