------------------------------ MODULE AuthSessions ------------------------------
(***************************************************************************)
(* Accounts and login sessions of auth.py.  The accounts are one saved     *)
(* document, the sessions a dict in memory.                                *)
(*                                                                         *)
(* login, create_account, set_account_active and change_password hold the  *)
(* lock from loading the document to their last change of the sessions.    *)
(* require, logout and update_profile never take it.  A dict that shrinks  *)
(* while a comprehension runs over it raises RuntimeError; one pop, and    *)
(* the replacement of the dict, are each one step of the interpreter.      *)
(***************************************************************************)
EXTENDS Naturals, FiniteSets

CONSTANTS
    Account,
    Owner,          \* the account with the role owner
    Token,          \* the tokens logins may hand out
    None,           \* no token, no account, no document
    PerAccount,     \* sessions of an account
    Total,          \* sessions of all accounts
    MaxFailed,      \* wrong passwords until an account is locked
    MaxPassword,    \* bound on the passwords an account has one after another
    Bounds          \* how many requests may pass require before they wait or
                    \* load, wrong passwords be tried, saves fail, restarts
                    \* happen: a behaviour is bound by one of these

ASSUME ConstantsAssumption ==
    /\ Owner \in Account
    /\ None \notin Account \cup Token
    /\ {PerAccount, Total, MaxFailed, MaxPassword} \subseteq Nat \ {0}
    /\ Bounds \subseteq [requests: Nat, guesses: Nat, faults: Nat, restarts: Nat]

VARIABLES
    doc,        \* the saved accounts
    \* The sessions
    live,       \* the keys of the dict
    owner,      \* account_id of a session
    born,       \* created_at, 0 before the login
    expired,    \* sessions past expires_at
    \* The operation that holds the lock
    pc, op,
    who, tok,   \* the account it changes, the token it was asked with
    data,       \* the accounts as loaded, with its change
    snap,       \* the sessions when its comprehension began
    \* Requests that passed require, by their token
    asked,      \* and wait for the lock
    copy,       \* the accounts as update_profile loaded them
    \* History
    clock,
    key,        \* the password that entitles a session
    misses,     \* wrong passwords told at login since the last valid one or lockout
    torn,       \* sessions that an operation failed to revoke
    stale,      \* a profile was saved over a change of the accounts
    left        \* what is left of the bounds

sessions == <<live, owner, born, expired>>
history  == <<clock, key, misses, torn, stale>>
vars     == <<doc, live, owner, born, expired, pc, op, who, tok, data, snap, asked,
              copy, clock, key, misses, torn, stale, left>>

Password == 1 .. MaxPassword

Record == [state: {"absent", "active", "disabled"}, password: Password,
           failed: 0 .. MaxFailed, locked: BOOLEAN]

Accounts == [Account -> Record]

ASSUME NoDocument == None \notin Accounts

Absent == [state |-> "absent", password |-> 1, failed |-> 0, locked |-> FALSE]

Created == [Absent EXCEPT !.state = "active"]

Init ==
    /\ doc = [x \in Account |-> Absent]
    /\ live = {} /\ expired = {}
    /\ owner = [t \in Token |-> None]
    /\ born = [t \in Token |-> 0]
    /\ pc = "idle" /\ op = "none" /\ who = None /\ tok = None /\ data = None /\ snap = {}
    /\ asked = [t \in Token |-> "none"]
    /\ copy = [t \in Token |-> None]
    /\ clock = 0
    /\ key = [t \in Token |-> 1]
    /\ misses = [x \in Account |-> 0]
    /\ torn = {} /\ stale = FALSE
    /\ left \in Bounds

Of(S, x) == {t \in S : owner[t] = x}

\* require, for a session that has not expired
Valid(t) == t \in live \ expired /\ doc[owner[t]].state = "active"

Manages(t) == Valid(t) /\ owner[t] = Owner

\* A return that leaves the loaded accounts behind.
ReleaseKeepsData ==
    /\ pc' = "idle" /\ op' = "none" /\ who' = None /\ tok' = None
    /\ UNCHANGED data /\ snap' = {}

Release ==
    /\ pc' = "idle" /\ op' = "none" /\ who' = None /\ tok' = None
    /\ data' = None /\ snap' = {}

-----------------------------------------------------------------------------
(* Operations that hold the lock, from _load to _save.                     *)

Spend(what) ==
    /\ left[what] > 0
    /\ left' = [left EXCEPT ![what] = @ - 1]

Hold(o, x, t, change) ==
    /\ pc = "idle" /\ pc' = "save"
    /\ op' = o /\ who' = x /\ tok' = t
    /\ data' = [doc EXCEPT ![x] = change]
    /\ UNCHANGED <<doc, sessions, snap, copy, history>>

\* A lockout one wrong password late.
MissedOnce(r) ==
    IF r.failed >= MaxFailed
      THEN [r EXCEPT !.failed = 0, !.locked = TRUE]
      ELSE [r EXCEPT !.failed = @ + 1]

\* The next account record after a wrong password.
Missed(r) ==
    IF r.failed + 1 >= MaxFailed
      THEN [r EXCEPT !.failed = 0, !.locked = TRUE]
      ELSE [r EXCEPT !.failed = @ + 1]

\* Any password is wrong for a disabled account.
LoginRefused(x) ==
    /\ doc[x].state # "absent" /\ ~doc[x].locked
    /\ Spend("guesses")
    /\ Hold("refuse", x, None, Missed(doc[x]))
    /\ UNCHANGED asked

\* A login that does not look whether the account is active.
LoginDisabled(x) ==
    /\ doc[x].state # "absent" /\ ~doc[x].locked
    /\ \E t \in Token : born[t] = 0
    /\ Hold("login", x, None, [doc[x] EXCEPT !.failed = 0, !.locked = FALSE])
    /\ UNCHANGED <<asked, left>>

Login(x) ==
    /\ doc[x].state = "active" /\ ~doc[x].locked
    /\ \E t \in Token : born[t] = 0
    /\ Hold("login", x, None, [doc[x] EXCEPT !.failed = 0, !.locked = FALSE])
    /\ UNCHANGED <<asked, left>>

Bootstrap ==
    /\ doc[Owner].state = "absent"
    /\ Hold("create", Owner, None, Created)
    /\ UNCHANGED <<asked, left>>

\* A creation that does not look for the name.
CreateAgain(t, x) ==
    /\ Manages(t)
    /\ x # Owner
    /\ Hold("create", x, t, Created)
    /\ UNCHANGED <<asked, left>>

CreateAccount(t, x) ==
    /\ Manages(t)
    /\ x # Owner /\ doc[x].state = "absent"
    /\ Hold("create", x, t, Created)
    /\ UNCHANGED <<asked, left>>

\* set_account_active and change_password call require before they take the
\* lock, and do not call it again.
Ask(t, what) ==
    /\ asked[t] = "none"
    /\ IF what = "change" THEN Valid(t) ELSE Manages(t)
    /\ asked' = [asked EXCEPT ![t] = what]
    /\ Spend("requests")
    /\ UNCHANGED <<doc, sessions, pc, op, who, tok, data, snap, copy, history>>

SetActive(t, x) ==
    /\ asked[t] \in {"active", "disabled"}
    /\ x # Owner /\ doc[x].state # "absent"
    /\ asked' = [asked EXCEPT ![t] = "none"]
    /\ Hold(asked[t], x, t, [doc[x] EXCEPT !.state = asked[t]])
    /\ UNCHANGED left

\* The new password differs from the former ones.
ChangePassword(t) ==
    /\ asked[t] = "change"
    /\ doc[owner[t]].state # "absent" /\ doc[owner[t]].password < MaxPassword
    /\ asked' = [asked EXCEPT ![t] = "none"]
    /\ Hold("change", owner[t], t, [doc[owner[t]] EXCEPT !.password = @ + 1])
    /\ UNCHANGED left

\* The current password is wrong, which nothing counts, or set_account_active
\* may not change the account, or the account is gone.
AskRefused(t) ==
    /\ pc = "idle"
    /\ asked[t] # "none"
    /\ asked' = [asked EXCEPT ![t] = "none"]
    /\ UNCHANGED <<doc, sessions, pc, op, who, tok, data, snap, copy, history, left>>

Save ==
    /\ pc = "save"
    /\ doc' = data
    /\ misses' = CASE op = "refuse" -> [misses EXCEPT ![who] = @ + 1]
                   [] op = "login" -> [misses EXCEPT ![who] = 0]
                   [] OTHER -> misses
    /\ IF op \in {"login", "disabled", "change"}
         THEN pc' = "saved" /\ UNCHANGED <<op, who, tok, data, snap>>
         ELSE Release
    /\ UNCHANGED <<sessions, asked, copy, clock, key, torn, stale, left>>

SaveFails ==
    /\ pc = "save"
    /\ Spend("faults")
    /\ Release
    /\ UNCHANGED <<doc, sessions, asked, copy, history>>

-----------------------------------------------------------------------------
(* What they then do to the sessions.                                      *)

\* A comprehension over the dict begins.
Sweep ==
    /\ pc = "saved" /\ op \in {"login", "disabled"}
    /\ pc' = "sweep" /\ snap' = live
    /\ UNCHANGED <<doc, sessions, op, who, tok, data, asked, copy, history, left>>

\* A limit that does not count the session to come.
ExcessLate(S, limit) ==
    {t \in S : Cardinality({u \in S : born[u] > born[t]}) >= limit}

\* The oldest sessions of S, so many that one more stays within the limit.
Excess(S, limit) ==
    {t \in S : Cardinality({u \in S : born[u] > born[t]}) >= limit - 1}

\* _make_session_room runs over the dict more than once; a pop between two
\* comprehensions does not disturb it.
LoginSweep(t) ==
    /\ pc = "sweep" /\ op = "login"
    /\ born[t] = 0
    /\ clock' = clock + 1
    /\ LET kept == live \ expired
           room == kept \ Excess(Of(kept, who), PerAccount)
       IN live' = (room \ Excess(room, Total)) \cup {t}
    /\ owner' = [owner EXCEPT ![t] = who]
    /\ born' = [born EXCEPT ![t] = clock']
    /\ key' = [key EXCEPT ![t] = data[who].password]
    /\ Release
    /\ UNCHANGED <<doc, expired, asked, copy, misses, torn, stale, left>>

DisableSweep ==
    /\ pc = "sweep" /\ op = "disabled"
    /\ live = snap
    /\ live' = live \ Of(live, who)
    /\ torn' = torn \ Of(live, who)
    /\ Release
    /\ UNCHANGED <<doc, owner, born, expired, asked, copy, clock, key, misses, stale, left>>

\* RuntimeError: dictionary changed size during iteration.
SweepRaises ==
    /\ pc = "sweep" /\ live # snap
    /\ torn' = IF op = "disabled" THEN torn \cup Of(live, who) ELSE torn
    /\ Release
    /\ UNCHANGED <<doc, sessions, asked, copy, clock, key, misses, stale, left>>

\* A change that keeps the other sessions.
KeepAll ==
    /\ pc = "saved" /\ op = "change" /\ tok \in live
    /\ key' = [key EXCEPT ![tok] = data[who].password]
    /\ torn' = torn \cap {tok}
    /\ Release
    /\ UNCHANGED <<doc, sessions, asked, copy, clock, misses, stale, left>>

Keep ==
    /\ pc = "saved" /\ op = "change" /\ tok \in live
    /\ live' = {tok}
    /\ key' = [key EXCEPT ![tok] = data[who].password]
    /\ torn' = torn \cap {tok}
    /\ Release
    /\ UNCHANGED <<doc, owner, born, expired, asked, copy, clock, misses, stale, left>>

\* KeyError: the session that changed its password is gone.
KeepRaises ==
    /\ pc = "saved" /\ op = "change" /\ tok \notin live
    /\ torn' = torn \cup Of(live, who)
    /\ Release
    /\ UNCHANGED <<doc, sessions, asked, copy, clock, key, misses, stale, left>>

-----------------------------------------------------------------------------
(* Operations without the lock.                                            *)

Rest == <<doc, owner, born, pc, op, who, tok, data, snap, asked, copy, history, left>>

Logout(t) ==
    /\ t \in live
    /\ live' = live \ {t}
    /\ UNCHANGED <<expired, Rest>>

\* require drops a session that has expired.
RequireExpired(t) ==
    /\ t \in live \cap expired
    /\ live' = live \ {t}
    /\ UNCHANGED <<expired, Rest>>

ProfileLoad(t) ==
    /\ Valid(t) /\ copy[t] = None
    /\ copy' = [copy EXCEPT ![t] = doc]
    /\ Spend("requests")
    /\ UNCHANGED <<doc, sessions, pc, op, who, tok, data, snap, asked, history>>

\* The saved document is the loaded one but for the profile of one account.
ProfileSave(t) ==
    /\ copy[t] # None
    /\ doc' = copy[t]
    /\ stale' = (stale \/ doc # copy[t])
    /\ copy' = [copy EXCEPT ![t] = None]
    /\ UNCHANGED <<sessions, pc, op, who, tok, data, snap, asked, clock, key, misses,
                   torn, left>>

-----------------------------------------------------------------------------
(* Time and restarts.                                                      *)

\* Sessions last equally long, so the oldest ends first.
Expire(t) ==
    /\ t \in live \ expired
    /\ expired' = {u \in live : born[u] <= born[t]}
    /\ UNCHANGED <<live, Rest>>

Unlocked(accounts, x) ==
    IF accounts = None THEN None ELSE [accounts EXCEPT ![x].locked = FALSE]

\* locked_until of x is past, in every copy of the document.
LockEnds(x) ==
    /\ doc[x].locked
    /\ doc' = Unlocked(doc, x)
    /\ data' = Unlocked(data, x)
    /\ copy' = [t \in Token |-> Unlocked(copy[t], x)]
    /\ misses' = [misses EXCEPT ![x] = 0]
    /\ UNCHANGED <<sessions, pc, op, who, tok, snap, asked, clock, key, torn, stale, left>>

Restart ==
    /\ Spend("restarts")
    /\ live' = {} /\ torn' = {}
    /\ asked' = [t \in Token |-> "none"]
    /\ copy' = [t \in Token |-> None]
    /\ Release
    /\ UNCHANGED <<doc, owner, born, expired, clock, key, misses, stale>>

-----------------------------------------------------------------------------
Locking ==
    \/ \E x \in Account : Login(x) \/ LoginRefused(x)
    \/ Bootstrap
    \/ \E t \in Token, x \in Account : CreateAccount(t, x) \/ SetActive(t, x)
    \/ \E t \in Token : ChangePassword(t)

Locked ==
    \/ Save
    \/ SaveFails
    \/ Sweep
    \/ \E t \in Token : LoginSweep(t)
    \/ DisableSweep
    \/ SweepRaises
    \/ Keep
    \/ KeepRaises

Unguarded(t) ==
    \/ \E what \in {"change", "active", "disabled"} : Ask(t, what)
    \/ Logout(t)
    \/ RequireExpired(t)
    \/ ProfileLoad(t)
    \/ ProfileSave(t)
    \/ Expire(t)

Next ==
    \/ Locking
    \/ Locked
    \/ \E t \in Token : AskRefused(t) \/ Unguarded(t)
    \/ \E x \in Account : LockEnds(x)
    \/ Restart

Spec == Init /\ [][Next]_vars

-----------------------------------------------------------------------------
\* Types of the variables.
TypeOK ==
    /\ doc \in Accounts
    /\ live \subseteq Token /\ expired \subseteq Token /\ snap \subseteq Token
    /\ owner \in [Token -> Account \cup {None}]
    /\ born \in [Token -> Nat]
    /\ pc \in {"idle", "save", "saved", "sweep"}
    /\ op \in {"none", "refuse", "login", "create", "active", "disabled", "change"}
    /\ who \in Account \cup {None} /\ tok \in Token \cup {None}
    /\ IF pc = "idle" THEN data = None ELSE data \in Accounts
    /\ asked \in [Token -> {"none", "change", "active", "disabled"}]
    /\ copy \in [Token -> Accounts \cup {None}]
    /\ clock \in Nat
    /\ key \in [Token -> Password]
    /\ misses \in [Account -> Nat]
    /\ torn \subseteq Token /\ stale \in BOOLEAN
    /\ left \in [requests: Nat, guesses: Nat, faults: Nat, restarts: Nat]

\* Sessions stay within the limits of an account and of the installation.
SessionsAreBounded ==
    /\ \A x \in Account : Cardinality(Of(live, x)) <= PerAccount
    /\ Cardinality(live) <= Total

\* A disabled account has no session, from the return of set_account_active on,
\* however logins and logouts meet it: unless the comprehension was disturbed, or
\* a profile was saved from an older copy of the accounts.
DisabledMeansSignedOut ==
    \A x \in Account :
        doc[x].state = "disabled" /\ ~stale =>
            Of(live, x) \subseteq torn \/ (who = x /\ op = "disabled" /\ pc # "save")

\* Every session was opened, or kept, with the current password of its account,
\* with the same two exceptions.
SessionsKnowThePassword ==
    ~stale => \A t \in live \ torn :
        \/ key[t] = doc[owner[t]].password
        \/ who = owner[t] /\ op = "change" /\ pc = "saved"

\* Between two lockouts no more than MaxFailed wrong passwords are told at login,
\* whatever else changes the accounts meanwhile: a password change and its refusals
\* do not set the counter back.  It is a limit for people without a session only:
\* change_password tells a session whether a password is right, and counts nothing.
GuessesAreLimited ==
    ~stale => \A x \in Account :
        misses[x] <= MaxFailed /\ (misses[x] = MaxFailed => doc[x].locked)

\* No operation brings an earlier password, or a disabled account, back, except a
\* profile saved from an older copy of the accounts.
ChangesPersist ==
    [][~stale' => \A x \in Account :
          /\ doc'[x].password >= doc[x].password
          /\ doc'[x].state # doc[x].state => op \in {"create", "active", "disabled"}]_vars

\* What change_password promises (auth.py:294, "Change the signed-in account
\* password and revoke every other session."): no session is left that was
\* entitled by an earlier password.
ChangeRevokesOthers ==
    pc = "idle" => \A t \in live : key[t] >= doc[owner[t]].password
=============================================================================
