---------------------------- MODULE GovernedRepair ----------------------------
(***************************************************************************)
(* What the controlled repair lane promises about the live project and the *)
(* decisions of its Owner (README.md, Repair): a work item gets one        *)
(* draft, the Owner decides it once, and an approval and its edit of the   *)
(* live file are one step, taken only on the file the draft was made from. *)
(*                                                                         *)
(* Two exceptions are part of the promise.  Tear is an approval that broke *)
(* off in between: the file is as before or as drafted, nothing is         *)
(* decided, and the item can no longer be approved.  Once a person has     *)
(* edited a file while an approval was running, nothing is promised about  *)
(* the live file, though still about the decisions.                        *)
(***************************************************************************)
EXTENDS Naturals

CONSTANTS Item, Content, None

VARIABLES
    live,       \* the live file
    decision,   \* the saved decision of each item
    original,   \* what its draft was made from, None while there is no draft
    drafted,    \* what its draft leads to
    torn,       \* items whose approval broke off
    disturbed,  \* has a person edited a file during an approval?
    faults,     \* failing calls so far
    crashes,    \* restarts so far
    edits       \* edits made by people so far

counters == <<faults, crashes, edits>>
drafts   == <<original, drafted>>
vars == <<live, decision, original, drafted, torn, disturbed, faults, crashes, edits>>

Init ==
    /\ live \in Content
    /\ decision = [i \in Item |-> "none"]
    /\ original = [i \in Item |-> None]
    /\ drafted  = [i \in Item |-> None]
    /\ torn = {} /\ disturbed = FALSE
    /\ faults = 0 /\ crashes = 0 /\ edits = 0

Draft(i, before, after) ==
    /\ decision[i] = "none" /\ original[i] = None
    /\ before # after
    /\ original' = [original EXCEPT ![i] = before]
    /\ drafted'  = [drafted EXCEPT ![i] = after]
    /\ UNCHANGED <<live, decision, torn, disturbed, counters>>

\* The live file goes from the content the draft was made from to one of outcomes.
Replaced(i, outcomes) ==
    /\ live' \in Content
    /\ disturbed \/ (live = original[i] /\ live' \in outcomes)

Open(i) == decision[i] = "none" /\ original[i] # None /\ i \notin torn

Approve(i) ==
    /\ Open(i)
    /\ decision' = [decision EXCEPT ![i] = "approve"]
    /\ Replaced(i, {drafted[i]})
    /\ UNCHANGED <<drafts, torn, disturbed, counters>>

Reject(i) ==
    /\ decision[i] = "none"
    /\ decision' = [decision EXCEPT ![i] = "reject"]
    /\ UNCHANGED <<live, drafts, torn, disturbed, counters>>

Mishap ==
    \/ faults' = faults + 1 /\ UNCHANGED <<crashes, edits>>
    \/ crashes' = crashes + 1 /\ UNCHANGED <<faults, edits>>

Tear(i) ==
    /\ Open(i)
    /\ torn' = torn \cup {i}
    /\ Replaced(i, {original[i], drafted[i]})
    /\ Mishap \/ (disturbed /\ UNCHANGED counters)
    /\ UNCHANGED <<decision, drafts, disturbed>>

\* A failing call or a restart that the code makes good.
Recover ==
    /\ Mishap
    /\ UNCHANGED <<live, decision, drafts, torn, disturbed>>

Edit(content) ==
    /\ live' = content
    /\ edits' = edits + 1
    /\ disturbed' \in {disturbed, TRUE}
    /\ UNCHANGED <<decision, drafts, torn, faults, crashes>>

\* A step of an approval after a person interfered with one.
Stray(content) ==
    /\ disturbed
    /\ live' = content
    /\ UNCHANGED <<decision, drafts, torn, disturbed, counters>>

Next ==
    \/ \E i \in Item, before, after \in Content : Draft(i, before, after)
    \/ \E i \in Item : Approve(i) \/ Reject(i) \/ Tear(i)
    \/ Recover
    \/ \E content \in Content : Edit(content) \/ Stray(content)

Spec == Init /\ [][Next]_vars
=============================================================================
