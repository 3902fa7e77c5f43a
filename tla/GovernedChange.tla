---------------------------- MODULE GovernedChange ----------------------------
(***************************************************************************)
(* What the developer workspaces promise about the live project            *)
(* (DEVELOPER_WORKSPACE.md, Workflow and Application integrity): a tested  *)
(* set of files becomes live in one step, only over the files it was made  *)
(* from, and can be taken back in one step while it is still in place.     *)
(* Tear is the exception the code does not recover from: a crash, or a     *)
(* second failure while the first is being undone, leaves every file whole *)
(* but the set torn.                                                       *)
(***************************************************************************)
EXTENDS Naturals

CONSTANTS Workspace, Path, FileVal

VARIABLES
    live,       \* [Path -> FileVal], the live project
    status,     \* what has become of each workspace
    scope,      \* the paths of its tested set
    before,     \* the contents the set was made from
    after,      \* the contents that were tested
    faults,     \* failing calls so far
    crashes,    \* crashes so far
    edits       \* edits made by people so far

vars == <<live, status, scope, before, after, faults, crashes, edits>>

Status == {"draft", "ready", "applied", "undone"}

Holds(w, f) == \A p \in scope[w] : live[p] = f[p]

With(w, f) == [p \in Path |-> IF p \in scope[w] THEN f[p] ELSE live[p]]

Init ==
    /\ live \in [Path -> FileVal]
    /\ status = [w \in Workspace |-> "draft"]
    /\ scope  = [w \in Workspace |-> {}]
    /\ before \in [Workspace -> [Path -> FileVal]]
    /\ after  \in [Workspace -> [Path -> FileVal]]
    /\ faults = 0 /\ crashes = 0 /\ edits = 0

\* g is f but for what it says of w.
OnlyOf(w, f, g) == g = [f EXCEPT ![w] = g[w]]

\* A draft may be revised, and becomes ready when its tests pass.
Draft(w) ==
    /\ status[w] = "draft"
    /\ status'[w] \in {"draft", "ready"} /\ OnlyOf(w, status, status')
    /\ scope'[w] \subseteq Path /\ OnlyOf(w, scope, scope')
    /\ before'[w] \in [Path -> FileVal] /\ OnlyOf(w, before, before')
    /\ after'[w] \in [Path -> FileVal] /\ OnlyOf(w, after, after')
    /\ UNCHANGED <<live, faults, crashes, edits>>

\* An edit of the live project, or of a copy, which the live files do not show.
Edit(p, v) ==
    /\ live' = [live EXCEPT ![p] = v]
    /\ edits' = edits + 1
    /\ UNCHANGED <<status, scope, before, after, faults, crashes>>

Apply(w) ==
    /\ status[w] = "ready"
    /\ Holds(w, before[w])
    /\ live' = With(w, after[w])
    /\ status' = [status EXCEPT ![w] = "applied"]
    /\ UNCHANGED <<scope, before, after, faults, crashes, edits>>

Undo(w) ==
    /\ status[w] = "applied"
    /\ Holds(w, after[w])
    /\ live' = With(w, before[w])
    /\ status' = [status EXCEPT ![w] = "undone"]
    /\ UNCHANGED <<scope, before, after, faults, crashes, edits>>

\* A failing call that the code makes good.
Fault ==
    /\ faults' = faults + 1
    /\ UNCHANGED <<live, status, scope, before, after, crashes, edits>>

Crash ==
    /\ crashes' = crashes + 1
    /\ UNCHANGED <<live, status, scope, before, after, faults, edits>>

\* One failure during apply never tears the set; one during rollback may.
Mishap(w) ==
    \/ crashes' = crashes + 1 /\ UNCHANGED faults
    \/ /\ faults' = faults + 1 /\ UNCHANGED crashes
       /\ faults > 0 \/ status[w] = "applied"

Tear(w) ==
    /\ status[w] \in {"ready", "applied"}
    /\ Holds(w, IF status[w] = "ready" THEN before[w] ELSE after[w])
    /\ Mishap(w)
    /\ \E S \in SUBSET scope[w] :
          live' = [p \in Path |-> IF p \in S THEN after[w][p]
                                  ELSE IF p \in scope[w] THEN before[w][p]
                                  ELSE live[p]]
    /\ UNCHANGED <<status, scope, before, after, edits>>

Next ==
    \/ \E w \in Workspace : Draft(w) \/ Apply(w) \/ Undo(w) \/ Tear(w)
    \/ \E p \in Path, v \in FileVal : Edit(p, v)
    \/ Fault
    \/ Crash

Spec == Init /\ [][Next]_vars
=============================================================================
