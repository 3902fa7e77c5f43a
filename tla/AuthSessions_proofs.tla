-------------------------- MODULE AuthSessions_proofs --------------------------
(* Theorems about accounts and sessions, for every set of accounts and     *)
(* tokens, every limit and every bound.                                    *)
EXTENDS AuthSessions, FiniteSetTheorems, WellFoundedInduction, TLAPS

\* Steps that leave the accounts, the lock and what waits for it alone.
Outside ==
    \/ \E t \in Token : Logout(t) \/ RequireExpired(t) \/ Expire(t)
    \/ UNCHANGED vars

\* Requests that pass require, or are refused under the lock.
Passing ==
    \/ \E t \in Token, what \in {"change", "active", "disabled"} : Ask(t, what)
    \/ \E t \in Token : ProfileLoad(t) \/ AskRefused(t)

\* The steps of Next, by what they can disturb.
LEMMA Steps ==
    ASSUME [Next]_vars
    PROVE  \/ Locking \/ Save \/ SaveFails \/ Sweep
           \/ \E t \in Token : LoginSweep(t)
           \/ DisableSweep \/ SweepRaises \/ Keep \/ KeepRaises
           \/ Passing \/ \E t \in Token : ProfileSave(t)
           \/ \E x \in Account : LockEnds(x)
           \/ Restart \/ Outside
BY DEF Next, Locked, Unguarded, Passing, Outside

-----------------------------------------------------------------------------
(* Type correctness.                                                       *)

\* A session, and a request of one, belongs to an account for good.
OwnerInv ==
    \A t \in Token : t \in live \/ asked[t] # "none" => owner[t] \in Account /\ born[t] # 0

\* What the operation that holds the lock is about.
OpInv ==
    /\ pc = "idle" <=> op = "none"
    /\ pc # "idle" => who \in Account
    /\ pc \in {"saved", "sweep"} => op \in {"login", "disabled", "change"}
    /\ pc = "sweep" => op # "change"
    /\ op = "change" => tok \in Token /\ owner[tok] = who /\ born[tok] # 0

TypeInv == TypeOK /\ OwnerInv /\ OpInv

LEMMA Records ==
    /\ Absent \in Record /\ Created \in Record
    /\ \A r \in Record :
          /\ Missed(r) \in Record
          /\ [r EXCEPT !.failed = 0, !.locked = FALSE] \in Record
          /\ [r EXCEPT !.locked = FALSE] \in Record
          /\ \A s \in {"active", "disabled"} : [r EXCEPT !.state = s] \in Record
          /\ r.password < MaxPassword => [r EXCEPT !.password = @ + 1] \in Record
<1>0. MaxPassword \in Nat \ {0} /\ MaxFailed \in Nat \ {0}
  BY ConstantsAssumption
<1>1. Absent \in Record /\ Created \in Record
  <2>1. 1 \in Password /\ 0 \in 0 .. MaxFailed
    BY <1>0 DEF Password
  <2> QED
    BY <2>1 DEF Absent, Created, Record
<1>2. 0 \in 0 .. MaxFailed
  BY <1>0
<1>3. ASSUME NEW r \in Record
      PROVE  /\ [r EXCEPT !.failed = 0, !.locked = TRUE] \in Record
             /\ [r EXCEPT !.failed = 0, !.locked = FALSE] \in Record
             /\ [r EXCEPT !.locked = FALSE] \in Record
  BY <1>2 DEF Record
<1>5. ASSUME NEW r \in Record, NEW s \in {"active", "disabled"}
      PROVE  [r EXCEPT !.state = s] \in Record
  BY DEF Record
<1>6. ASSUME NEW r \in Record
      PROVE  Missed(r) \in Record
  <2>1. r.failed \in 0 .. MaxFailed
    BY DEF Record
  <2>2. CASE r.failed + 1 >= MaxFailed
    BY <1>3, <2>2 DEF Missed
  <2>3. CASE ~(r.failed + 1 >= MaxFailed)
    <3>1. r.failed + 1 \in 0 .. MaxFailed
      BY <1>0, <2>1, <2>3
    <3>2. [r EXCEPT !.failed = r.failed + 1] \in Record
      BY <3>1 DEF Record
    <3> QED
      BY <2>3, <3>2 DEF Missed
  <2> QED
    BY <2>2, <2>3
<1>4. ASSUME NEW r \in Record, r.password < MaxPassword
      PROVE  [r EXCEPT !.password = @ + 1] \in Record
  <2>1. r.password \in Password /\ r.password + 1 \in Password
    BY <1>0, <1>4 DEF Record, Password
  <2> QED
    BY <2>1 DEF Record
<1> QED
  BY <1>1, <1>3, <1>4, <1>5, <1>6

LEMMA TypeHold ==
    ASSUME TypeInv, NEW x \in Account, NEW o \in {"refuse", "login", "create", "active", "disabled", "change"},
           NEW t \in Token \cup {None}, NEW r \in Record, Hold(o, x, t, r),
           o = "change" => t \in Token /\ owner[t] = x /\ born[t] # 0,
           asked' \in [Token -> {"none", "change", "active", "disabled"}],
           \A u \in Token : asked'[u] \in {"none", asked[u]},
           left' \in [requests: Nat, guesses: Nat, faults: Nat, restarts: Nat]
    PROVE  TypeInv'
<1>1. data' \in Accounts
  BY DEF TypeInv, TypeOK, Hold, Accounts
<1>2. TypeOK'
  BY <1>1 DEF TypeInv, TypeOK, Hold, sessions, history
<1>3. OwnerInv' /\ OpInv'
  BY DEF TypeInv, TypeOK, OwnerInv, OpInv, Hold, sessions
<1> QED
  BY <1>2, <1>3 DEF TypeInv

LEMMA TypeLocking ==
    ASSUME TypeInv, Locking
    PROVE  TypeInv'
<1> USE DEF TypeInv
<1>1. \A x \in Account : doc[x] \in Record
  BY DEF TypeOK, Accounts
<1>2. ASSUME NEW x \in Account, LoginRefused(x)
      PROVE  TypeInv'
  <2>1. left' \in [requests: Nat, guesses: Nat, faults: Nat, restarts: Nat]
    BY <1>2 DEF LoginRefused, Spend, TypeOK
  <2>2. Missed(doc[x]) \in Record
    BY <1>1, Records
  <2> QED
    BY <1>2, <2>1, <2>2, TypeHold DEF LoginRefused, TypeOK
<1>3. ASSUME NEW x \in Account, Login(x)
      PROVE  TypeInv'
  <2>1. [doc[x] EXCEPT !.failed = 0, !.locked = FALSE] \in Record
    BY <1>1, Records
  <2> QED
    BY <1>3, <2>1, TypeHold DEF Login, TypeOK
<1>4. CASE Bootstrap
  BY <1>4, TypeHold, Records, ConstantsAssumption DEF Bootstrap, TypeOK
<1>5. ASSUME NEW t \in Token, NEW x \in Account, CreateAccount(t, x)
      PROVE  TypeInv'
  BY <1>5, TypeHold, Records DEF CreateAccount, TypeOK
<1>6. ASSUME NEW t \in Token, NEW x \in Account, SetActive(t, x)
      PROVE  TypeInv'
  <2>1. [doc[x] EXCEPT !.state = asked[t]] \in Record
    BY <1>1, <1>6, Records DEF SetActive
  <2>2. asked' \in [Token -> {"none", "change", "active", "disabled"}]
        /\ \A u \in Token : asked'[u] \in {"none", asked[u]}
    BY <1>6 DEF SetActive, TypeOK
  <2> QED
    BY <1>6, <2>1, <2>2, TypeHold DEF SetActive, TypeOK
<1>7. ASSUME NEW t \in Token, ChangePassword(t)
      PROVE  TypeInv'
  <2>1. owner[t] \in Account /\ born[t] # 0
    BY <1>7 DEF ChangePassword, OwnerInv
  <2>2. [doc[owner[t]] EXCEPT !.password = @ + 1] \in Record
    BY <1>1, <1>7, <2>1, Records DEF ChangePassword
  <2>3. asked' \in [Token -> {"none", "change", "active", "disabled"}]
        /\ \A u \in Token : asked'[u] \in {"none", asked[u]}
    BY <1>7 DEF ChangePassword, TypeOK
  <2> QED
    BY <1>7, <2>1, <2>2, <2>3, TypeHold DEF ChangePassword, TypeOK
<1> QED
  BY <1>2, <1>3, <1>4, <1>5, <1>6, <1>7 DEF Locking

\* The lock is given back.
LEMMA TypeRelease ==
    ASSUME TypeInv, Release
    PROVE  /\ pc' = "idle" /\ op' = "none" /\ who' = None /\ tok' = None
           /\ data' = None /\ snap' = {}
BY DEF Release

LEMMA TypeLocked ==
    ASSUME TypeInv,
           \/ Save \/ SaveFails \/ Sweep
           \/ \E t \in Token : LoginSweep(t)
           \/ DisableSweep \/ SweepRaises \/ Keep \/ KeepRaises
    PROVE  TypeInv'
<1> USE DEF TypeInv
<1>1. CASE Save
  <2>1. doc' \in Accounts /\ misses' \in [Account -> Nat]
    BY <1>1 DEF Save, TypeOK, OpInv
  <2>2. TypeOK'
    BY <1>1, <2>1 DEF Save, Release, TypeOK, sessions
  <2>3. OwnerInv' /\ OpInv'
    BY <1>1 DEF Save, Release, TypeOK, OwnerInv, OpInv, sessions
  <2> QED
    BY <2>2, <2>3
<1>2. CASE SaveFails
  <2>1. left' \in [requests: Nat, guesses: Nat, faults: Nat, restarts: Nat]
    BY <1>2 DEF SaveFails, Spend, TypeOK
  <2>2. TypeOK'
    BY <1>2, <2>1 DEF SaveFails, Release, TypeOK, sessions, history
  <2>3. OwnerInv' /\ OpInv'
    BY <1>2 DEF SaveFails, Release, TypeOK, OwnerInv, OpInv, sessions
  <2> QED
    BY <2>2, <2>3
<1>3. CASE Sweep
  <2>1. TypeOK'
    BY <1>3 DEF Sweep, TypeOK, sessions, history
  <2>2. OwnerInv' /\ OpInv'
    BY <1>3 DEF Sweep, TypeOK, OwnerInv, OpInv, sessions
  <2> QED
    BY <2>1, <2>2
<1>4. ASSUME NEW t \in Token, LoginSweep(t)
      PROVE  TypeInv'
  <2>1. who \in Account /\ data[who].password \in Password
    BY <1>4 DEF LoginSweep, TypeOK, OpInv, Accounts, Record
  <2>2. live' \subseteq live \cup {t} /\ clock' \in Nat /\ clock' # 0
    BY <1>4 DEF LoginSweep, TypeOK
  <2>3. TypeOK'
    BY <1>4, <2>1, <2>2 DEF LoginSweep, Release, TypeOK
  <2>4. OwnerInv' /\ OpInv'
    BY <1>4, <2>1, <2>2 DEF LoginSweep, Release, TypeOK, OwnerInv, OpInv
  <2> QED
    BY <2>3, <2>4
<1>5. CASE DisableSweep
  <2>1. TypeOK'
    BY <1>5 DEF DisableSweep, Release, TypeOK
  <2>2. OwnerInv' /\ OpInv'
    BY <1>5 DEF DisableSweep, Release, TypeOK, OwnerInv, OpInv
  <2> QED
    BY <2>1, <2>2
<1>6. CASE SweepRaises
  <2>1. TypeOK'
    BY <1>6 DEF SweepRaises, Release, TypeOK, sessions, Of
  <2>2. OwnerInv' /\ OpInv'
    BY <1>6 DEF SweepRaises, Release, TypeOK, OwnerInv, OpInv, sessions
  <2> QED
    BY <2>1, <2>2
<1>7. CASE Keep
  <2>1. data[who].password \in Password
    BY <1>7 DEF Keep, TypeOK, OpInv, Accounts, Record
  <2>2. TypeOK'
    BY <1>7, <2>1 DEF Keep, Release, TypeOK
  <2>3. OwnerInv' /\ OpInv'
    BY <1>7 DEF Keep, Release, TypeOK, OwnerInv, OpInv
  <2> QED
    BY <2>2, <2>3
<1>8. CASE KeepRaises
  <2>1. TypeOK'
    BY <1>8 DEF KeepRaises, Release, TypeOK, sessions, Of
  <2>2. OwnerInv' /\ OpInv'
    BY <1>8 DEF KeepRaises, Release, TypeOK, OwnerInv, OpInv, sessions
  <2> QED
    BY <2>1, <2>2
<1> QED
  BY <1>1, <1>2, <1>3, <1>4, <1>5, <1>6, <1>7, <1>8

LEMMA TypeUnlocked ==
    ASSUME NEW a \in Accounts, NEW x \in Account
    PROVE  Unlocked(a, x) = [a EXCEPT ![x].locked = FALSE] /\ Unlocked(a, x) \in Accounts
<1>1. [a EXCEPT ![x].locked = FALSE] \in Accounts
  <2>1. a[x] \in Record
    BY DEF Accounts
  <2>2. [a[x] EXCEPT !.locked = FALSE] \in Record
    BY <2>1, Records
  <2> QED
    BY <2>2 DEF Accounts
<1> QED
  BY <1>1, NoDocument DEF Unlocked

LEMMA TypeOthers ==
    ASSUME TypeInv,
           \/ Passing \/ \E t \in Token : ProfileSave(t)
           \/ \E x \in Account : LockEnds(x)
           \/ Restart \/ Outside
    PROVE  TypeInv'
<1> USE DEF TypeInv
<1>1. ASSUME NEW t \in Token, NEW what \in {"change", "active", "disabled"}, Ask(t, what)
      PROVE  TypeInv'
  <2>1. t \in live
    BY <1>1 DEF Ask, Valid, Manages
  <2>2. left' \in [requests: Nat, guesses: Nat, faults: Nat, restarts: Nat]
    BY <1>1 DEF Ask, Spend, TypeOK
  <2>3. TypeOK'
    BY <1>1, <2>2 DEF Ask, TypeOK, sessions, history
  <2>4. OwnerInv' /\ OpInv'
    BY <1>1, <2>1 DEF Ask, TypeOK, OwnerInv, OpInv, sessions
  <2> QED
    BY <2>3, <2>4
<1>2. ASSUME NEW t \in Token, ProfileLoad(t)
      PROVE  TypeInv'
  <2>1. left' \in [requests: Nat, guesses: Nat, faults: Nat, restarts: Nat]
    BY <1>2 DEF ProfileLoad, Spend, TypeOK
  <2>2. TypeOK'
    BY <1>2, <2>1 DEF ProfileLoad, TypeOK, sessions, history
  <2>3. OwnerInv' /\ OpInv'
    BY <1>2 DEF ProfileLoad, OwnerInv, OpInv, sessions
  <2> QED
    BY <2>2, <2>3
<1>3. ASSUME NEW t \in Token, ProfileSave(t)
      PROVE  TypeInv'
  <2>1. doc' \in Accounts
    BY <1>3 DEF ProfileSave, TypeOK
  <2>2. TypeOK'
    BY <1>3, <2>1 DEF ProfileSave, TypeOK, sessions
  <2>3. OwnerInv' /\ OpInv'
    BY <1>3 DEF ProfileSave, OwnerInv, OpInv, sessions
  <2> QED
    BY <2>2, <2>3
<1>4. ASSUME NEW x \in Account, LockEnds(x)
      PROVE  TypeInv'
  <2>1. doc' \in Accounts
    BY <1>4, TypeUnlocked DEF LockEnds, TypeOK
  <2>2. IF pc' = "idle" THEN data' = None ELSE data' \in Accounts
    BY <1>4, TypeUnlocked DEF LockEnds, TypeOK, Unlocked
  <2>3. copy' \in [Token -> Accounts \cup {None}]
    BY <1>4, TypeUnlocked DEF LockEnds, TypeOK, Unlocked
  <2>4. TypeOK'
    BY <1>4, <2>1, <2>2, <2>3 DEF LockEnds, TypeOK, sessions
  <2>5. OwnerInv' /\ OpInv'
    BY <1>4 DEF LockEnds, OwnerInv, OpInv, sessions
  <2> QED
    BY <2>4, <2>5
<1>5. CASE Restart
  <2>1. left' \in [requests: Nat, guesses: Nat, faults: Nat, restarts: Nat]
    BY <1>5 DEF Restart, Spend, TypeOK
  <2>2. TypeOK'
    BY <1>5, <2>1 DEF Restart, Release, TypeOK
  <2>3. OwnerInv' /\ OpInv'
    BY <1>5 DEF Restart, Release, OwnerInv, OpInv
  <2> QED
    BY <2>2, <2>3
<1>6. CASE Outside
  <2>1. TypeOK'
    BY <1>6 DEF Outside, Logout, RequireExpired, Expire, Rest, TypeOK, vars, sessions, history
  <2>2. OwnerInv' /\ OpInv'
    BY <1>6 DEF Outside, Logout, RequireExpired, Expire, Rest, OwnerInv, OpInv, vars, sessions, history
  <2> QED
    BY <2>1, <2>2
<1>7. ASSUME NEW t \in Token, AskRefused(t)
      PROVE  TypeInv'
  <2>1. TypeOK'
    BY <1>7 DEF AskRefused, TypeOK, sessions, history
  <2>2. OwnerInv' /\ OpInv'
    BY <1>7 DEF AskRefused, TypeOK, OwnerInv, OpInv, sessions
  <2> QED
    BY <2>1, <2>2
<1> QED
  BY <1>1, <1>2, <1>3, <1>4, <1>5, <1>6, <1>7 DEF Passing

LEMMA TypeStep == TypeInv /\ [Next]_vars => TypeInv'
BY Steps, TypeLocking, TypeLocked, TypeOthers

LEMMA TypeAlways == Spec => []TypeInv
<1>1. Init => TypeInv
  <2> SUFFICES ASSUME Init PROVE TypeInv
    OBVIOUS
  <2>1. MaxPassword \in Nat \ {0}
    BY ConstantsAssumption
  <2>2. key \in [Token -> Password] /\ misses \in [Account -> Nat] /\ born \in [Token -> Nat]
    BY <2>1 DEF Init, Password
  <2>3. left \in [requests: Nat, guesses: Nat, faults: Nat, restarts: Nat]
    BY ConstantsAssumption DEF Init
  <2>4. doc \in Accounts
    BY Records DEF Init, Accounts
  <2>5. TypeOK
    BY <2>2, <2>3, <2>4 DEF Init, TypeOK
  <2>6. OwnerInv /\ OpInv
    BY DEF Init, OwnerInv, OpInv
  <2> QED
    BY <2>5, <2>6 DEF TypeInv
<1> QED
  BY <1>1, TypeStep, PTL DEF Spec

\* The variables have their types: an operation that returns, fails or raises
\* leaves nothing of the accounts it loaded behind.
THEOREM TypeCorrect == Spec => []TypeOK
BY TypeAlways, PTL DEF TypeInv

-----------------------------------------------------------------------------
(* The accounts.                                                           *)

\* What the operation that holds the lock is about to save, and has saved.
LoadInv ==
    /\ pc = "save" =>
          /\ \A y \in Account : y # who => data[y] = doc[y]
          /\ op = "refuse" => ~doc[who].locked /\ data[who] = Missed(doc[who])
          /\ op = "login" => /\ ~doc[who].locked /\ doc[who].state = "active"
                             /\ data[who] = [doc[who] EXCEPT !.failed = 0, !.locked = FALSE]
          /\ op = "create" => doc[who] = Absent /\ data[who] = Created
          /\ op \in {"active", "disabled"} => data[who] = [doc[who] EXCEPT !.state = op]
          /\ op = "change" => data[who] = [doc[who] EXCEPT !.password = @ + 1]
          /\ op # "create" => doc[who].state # "absent"
    /\ pc \in {"saved", "sweep"} =>
          /\ data[who].password = doc[who].password
          /\ op = "login" => doc[who].state = "active"

AbsentInv == \A x \in Account : doc[x].state = "absent" => doc[x] = Absent

CountInv ==
    \A x \in Account :
        IF doc[x].locked THEN doc[x].failed = 0 /\ misses[x] = MaxFailed
                         ELSE misses[x] = doc[x].failed /\ misses[x] < MaxFailed

AccountInv == LoadInv /\ AbsentInv /\ CountInv

\* How a save may change an account: for good, and only as its operation says.
Changed(x) ==
    /\ doc'[x].password = IF op = "change" /\ x = who THEN doc[x].password + 1
                                                      ELSE doc[x].password
    /\ op \notin {"create", "active", "disabled"} \/ x # who => doc'[x].state = doc[x].state
    /\ x = who /\ op = "create" => doc'[x].state = "active"
    /\ x = who /\ op \in {"active", "disabled"} => doc'[x].state = op

LEMMA MissedFields ==
    ASSUME NEW r \in Record
    PROVE  /\ Missed(r).password = r.password /\ Missed(r).state = r.state
           /\ IF r.failed + 1 >= MaxFailed
                THEN Missed(r).locked = TRUE /\ Missed(r).failed = 0
                ELSE Missed(r).locked = r.locked /\ Missed(r).failed = r.failed + 1
<1>1. r = [state |-> r.state, password |-> r.password, failed |-> r.failed, locked |-> r.locked]
  BY DEF Record
<1> QED
  BY <1>1 DEF Missed

LEMMA WhatIsSaved ==
    ASSUME TypeInv, AccountInv, Save
    PROVE  /\ who \in Account
           /\ \A x \in Account : Changed(x)
           /\ \A x \in Account : x # who => doc'[x] = doc[x]
           /\ doc[who].state # "absent" => doc'[who].state # "absent"
           /\ IF op = "refuse" THEN doc'[who] = Missed(doc[who]) /\ ~doc[who].locked
              ELSE IF op = "login" THEN doc'[who].failed = 0 /\ ~doc'[who].locked
              ELSE doc'[who].failed = doc[who].failed /\ doc'[who].locked = doc[who].locked
<1>1. who \in Account /\ doc[who] \in Record /\ doc' = data
  BY DEF TypeInv, TypeOK, OpInv, Save, Accounts
<1>2. op \in {"refuse", "login", "create", "active", "disabled", "change"}
  BY DEF TypeInv, TypeOK, OpInv, Save
<1>3. doc[who] = [state |-> doc[who].state, password |-> doc[who].password,
                  failed |-> doc[who].failed, locked |-> doc[who].locked]
  BY <1>1 DEF Record
<1>4. \A x \in Account : x # who => doc'[x] = doc[x]
  BY <1>1 DEF AccountInv, LoadInv, Save
<1>5. CASE op = "refuse"
  <2>1. doc'[who] = Missed(doc[who]) /\ ~doc[who].locked
    BY <1>1, <1>5 DEF AccountInv, LoadInv, Save
  <2>2. Changed(who) /\ doc'[who].state = doc[who].state
    BY <1>1, <1>5, <2>1, MissedFields DEF Changed
  <2> QED
    BY <1>1, <1>4, <1>5, <2>1, <2>2 DEF Changed
<1>6. CASE op = "login"
  <2>1. doc'[who] = [doc[who] EXCEPT !.failed = 0, !.locked = FALSE]
    BY <1>1, <1>6 DEF AccountInv, LoadInv, Save
  <2> QED
    BY <1>1, <1>3, <1>4, <1>6, <2>1 DEF Changed
<1>7. CASE op = "create"
  <2>1. doc'[who] = Created /\ doc[who] = Absent
    BY <1>1, <1>7 DEF AccountInv, LoadInv, Save
  <2> QED
    BY <1>1, <1>4, <1>7, <2>1 DEF Changed, Created, Absent
<1>8. CASE op \in {"active", "disabled"}
  <2>1. doc'[who] = [doc[who] EXCEPT !.state = op]
    BY <1>1, <1>8 DEF AccountInv, LoadInv, Save
  <2> QED
    BY <1>1, <1>3, <1>4, <1>8, <2>1 DEF Changed
<1>9. CASE op = "change"
  <2>1. doc'[who] = [doc[who] EXCEPT !.password = @ + 1]
    BY <1>1, <1>9 DEF AccountInv, LoadInv, Save
  <2> QED
    BY <1>1, <1>3, <1>4, <1>9, <2>1 DEF Changed
<1> QED
  BY <1>2, <1>5, <1>6, <1>7, <1>8, <1>9

\* Steps that leave the accounts, and what an operation has loaded of them.
LEMMA AccountsRest ==
    ASSUME TypeInv, AccountInv, UNCHANGED <<doc, misses>>,
           \/ pc' = "idle"
           \/ UNCHANGED <<pc, op, who, data>>
           \/ pc = "saved" /\ pc' = "sweep" /\ UNCHANGED <<op, who, data>>
    PROVE  AccountInv'
<1>1. LoadInv'
  BY DEF AccountInv, LoadInv
<1>2. AbsentInv' /\ CountInv'
  BY DEF AccountInv, AbsentInv, CountInv
<1> QED
  BY <1>1, <1>2 DEF AccountInv

LEMMA AccountsHold ==
    ASSUME TypeInv, AccountInv, Locking
    PROVE  AccountInv'
<1>1. UNCHANGED <<doc, misses>> /\ pc' = "save"
  BY DEF Locking, Login, LoginRefused, Bootstrap, CreateAccount, SetActive, ChangePassword,
         Hold, history
<1>2. \A x \in Account, c \in Record :
         data' = [doc EXCEPT ![x] = c] => /\ data'[x] = c
                                         /\ \A y \in Account : y # x => data'[y] = doc[y]
  BY DEF TypeInv, TypeOK, Accounts
<1>3. \A x \in Account : doc[x] \in Record
  BY DEF TypeInv, TypeOK, Accounts
<1>4. LoadInv'
  <2>1. ASSUME NEW x \in Account, LoginRefused(x)
        PROVE  LoadInv'
    <3>1. data'[x] = Missed(doc[x]) /\ \A y \in Account : y # x => data'[y] = doc[y]
      BY <1>2, <1>3, <2>1, Records DEF LoginRefused, Hold
    <3> QED
      BY <1>1, <2>1, <3>1 DEF LoginRefused, Hold, LoadInv
  <2>2. ASSUME NEW x \in Account, Login(x)
        PROVE  LoadInv'
    <3>1. /\ data'[x] = [doc[x] EXCEPT !.failed = 0, !.locked = FALSE]
          /\ \A y \in Account : y # x => data'[y] = doc[y]
      BY <1>2, <1>3, <2>2, Records DEF Login, Hold
    <3> QED
      BY <1>1, <2>2, <3>1 DEF Login, Hold, LoadInv
  <2>3. ASSUME NEW x \in Account, NEW t \in Token \cup {None}, doc[x].state = "absent",
               Hold("create", x, t, Created)
        PROVE  LoadInv'
    <3>1. data'[x] = Created /\ \A y \in Account : y # x => data'[y] = doc[y]
      BY <1>2, <2>3, Records DEF Hold
    <3>2. doc[x] = Absent
      BY <2>3 DEF AccountInv, AbsentInv
    <3> QED
      BY <1>1, <2>3, <3>1, <3>2 DEF Hold, LoadInv
  <2>4. ASSUME NEW x \in Account, NEW t \in Token, SetActive(t, x)
        PROVE  LoadInv'
    <3>1. [doc[x] EXCEPT !.state = asked[t]] \in Record
      BY <1>3, <2>4, Records DEF SetActive
    <3>2. /\ data'[x] = [doc[x] EXCEPT !.state = asked[t]]
          /\ \A y \in Account : y # x => data'[y] = doc[y]
      BY <1>2, <2>4, <3>1 DEF SetActive, Hold
    <3> QED
      BY <1>1, <2>4, <3>2 DEF SetActive, Hold, LoadInv
  <2>5. ASSUME NEW t \in Token, ChangePassword(t)
        PROVE  LoadInv'
    <3>1. owner[t] \in Account
      BY <2>5 DEF ChangePassword, TypeInv, OwnerInv
    <3>2. [doc[owner[t]] EXCEPT !.password = @ + 1] \in Record
      BY <1>3, <2>5, <3>1, Records DEF ChangePassword
    <3>3. /\ data'[owner[t]] = [doc[owner[t]] EXCEPT !.password = @ + 1]
          /\ \A y \in Account : y # owner[t] => data'[y] = doc[y]
      BY <1>2, <2>5, <3>1, <3>2 DEF ChangePassword, Hold
    <3> QED
      BY <1>1, <2>5, <3>3 DEF ChangePassword, Hold, LoadInv
  <2> QED
    BY <2>1, <2>2, <2>3, <2>4, <2>5, ConstantsAssumption DEF Locking, Bootstrap, CreateAccount
<1>5. AbsentInv' /\ CountInv'
  BY <1>1 DEF AccountInv, AbsentInv, CountInv
<1> QED
  BY <1>4, <1>5 DEF AccountInv

LEMMA AccountsSave ==
    ASSUME TypeInv, AccountInv, Save
    PROVE  AccountInv'
<1>1. who \in Account /\ doc[who] \in Record /\ doc' = data
  BY DEF TypeInv, TypeOK, OpInv, Save, Accounts
<1>2. LoadInv'
  <2>1. Changed(who)
    BY WhatIsSaved
  <2>2. pc' \in {"idle", "saved"} /\ (pc' = "saved" => UNCHANGED <<op, who, data>>)
    BY DEF Save, Release
  <2>3. op = "login" => doc[who].state = "active"
    BY DEF AccountInv, LoadInv, Save
  <2> QED
    BY <1>1, <2>1, <2>2, <2>3 DEF LoadInv, Changed
<1>3. AbsentInv'
  <2>1. CASE op = "create"
    BY <2>1, WhatIsSaved DEF AccountInv, AbsentInv, Changed
  <2>2. CASE op # "create"
    BY <1>1, <2>2, WhatIsSaved DEF AccountInv, AbsentInv, LoadInv, Save
  <2> QED
    BY <2>1, <2>2
<1>4. ASSUME NEW x \in Account
      PROVE  IF doc'[x].locked THEN doc'[x].failed = 0 /\ misses'[x] = MaxFailed
                               ELSE misses'[x] = doc'[x].failed /\ misses'[x] < MaxFailed
  <2>1. IF doc[x].locked THEN doc[x].failed = 0 /\ misses[x] = MaxFailed
                         ELSE misses[x] = doc[x].failed /\ misses[x] < MaxFailed
    BY DEF AccountInv, CountInv
  <2>2. MaxFailed \in Nat \ {0} /\ misses \in [Account -> Nat]
    BY ConstantsAssumption DEF TypeInv, TypeOK
  <2>3. CASE x # who
    <3>1. misses'[x] = misses[x] /\ doc'[x] = doc[x]
      BY <1>1, <2>2, <2>3, WhatIsSaved DEF Save
    <3> QED
      BY <2>1, <3>1
  <2>4. CASE x = who /\ op = "refuse"
    <3>1. misses'[x] = misses[x] + 1
      BY <2>2, <2>4 DEF Save
    <3>2. doc'[x] = Missed(doc[x]) /\ ~doc[x].locked
      BY <2>4, WhatIsSaved
    <3>3. doc[x].failed \in Nat
      BY <1>1, <2>2, <2>4 DEF Record
    <3>4. IF doc[x].failed + 1 >= MaxFailed
            THEN doc'[x].locked = TRUE /\ doc'[x].failed = 0
            ELSE doc'[x].locked = doc[x].locked /\ doc'[x].failed = doc[x].failed + 1
      BY <1>1, <2>4, <3>2, MissedFields
    <3> QED
      BY <2>1, <2>2, <3>1, <3>2, <3>3, <3>4
  <2>5. CASE x = who /\ op = "login"
    <3>1. misses'[x] = 0
      BY <2>2, <2>5 DEF Save
    <3> QED
      BY <2>2, <2>5, <3>1, WhatIsSaved
  <2>6. CASE x = who /\ op \notin {"refuse", "login"}
    <3>1. misses'[x] = misses[x]
      BY <2>2, <2>6 DEF Save
    <3> QED
      BY <2>1, <2>6, <3>1, WhatIsSaved
  <2> QED
    BY <2>3, <2>4, <2>5, <2>6
<1>5. CountInv'
  BY <1>4 DEF CountInv
<1> QED
  BY <1>2, <1>3, <1>5 DEF AccountInv

LEMMA UnlockedFields ==
    ASSUME NEW a \in Accounts, NEW x \in Account
    PROVE  /\ Unlocked(a, x)[x] = [a[x] EXCEPT !.locked = FALSE]
           /\ \A y \in Account : y # x => Unlocked(a, x)[y] = a[y]
<1>1. a \in [Account -> Record]
  BY DEF Accounts
<1>2. /\ [a EXCEPT ![x].locked = FALSE][x] = [a[x] EXCEPT !.locked = FALSE]
      /\ \A y \in Account : y # x => [a EXCEPT ![x].locked = FALSE][y] = a[y]
  BY <1>1
<1> QED
  BY <1>2, TypeUnlocked

LEMMA AccountsUnlocked ==
    ASSUME TypeInv, AccountInv, NEW x \in Account, LockEnds(x)
    PROVE  AccountInv'
<1>1. doc \in Accounts /\ doc[x] \in Record /\ doc[x].locked
  BY DEF TypeInv, TypeOK, LockEnds, Accounts
<1>2. /\ doc'[x] = [doc[x] EXCEPT !.locked = FALSE]
      /\ \A y \in Account : y # x => doc'[y] = doc[y]
  <2>1. doc' = Unlocked(doc, x)
    BY DEF LockEnds
  <2> QED
    BY <1>1, <2>1, UnlockedFields
<1>3. ASSUME pc # "idle"
      PROVE  /\ data'[x] = [data[x] EXCEPT !.locked = FALSE]
             /\ \A y \in Account : y # x => data'[y] = data[y]
             /\ data[x] \in Record /\ data[who] \in Record /\ who \in Account
  <2>1. data \in Accounts
    BY <1>3 DEF TypeInv, TypeOK
  <2>2. data' = Unlocked(data, x) /\ who \in Account
    BY <1>3 DEF LockEnds, TypeInv, OpInv
  <2>3. data[x] \in Record /\ data[who] \in Record
    BY <2>1, <2>2 DEF Accounts
  <2> QED
    BY <2>1, <2>2, <2>3, UnlockedFields
<1>4. UNCHANGED <<pc, op, who>>
  BY DEF LockEnds
<1>5. doc[x] = [state |-> doc[x].state, password |-> doc[x].password,
                failed |-> doc[x].failed, locked |-> doc[x].locked]
  BY <1>1 DEF Record
<1>6. LoadInv'
  <2>1. CASE pc = "idle"
    BY <1>4, <2>1 DEF LoadInv
  <2>2. CASE pc # "idle" /\ who # x
    BY <1>2, <1>3, <1>4, <2>2 DEF AccountInv, LoadInv
  <2>3. CASE pc \in {"saved", "sweep"} /\ who = x
    <3>1. data[x] = [state |-> data[x].state, password |-> data[x].password,
                     failed |-> data[x].failed, locked |-> data[x].locked]
      BY <1>3, <2>3 DEF Record
    <3> QED
      BY <1>2, <1>3, <1>4, <1>5, <2>3, <3>1 DEF AccountInv, LoadInv
  <2>5. ASSUME pc = "save", who = x
        PROVE  /\ doc'[x].state = doc[x].state
               /\ \A y \in Account : y # who => data'[y] = doc'[y]
    <3>1. doc'[x].state = doc[x].state
      BY <1>2, <1>5
    <3> QED
      BY <1>2, <1>3, <2>5, <3>1 DEF AccountInv, LoadInv
  <2>4. CASE pc = "save" /\ who = x
    <3>1. op \in {"active", "disabled", "change"} /\ doc[x].state # "absent"
      <4>1. ~Absent.locked
        BY DEF Absent
      <4> QED
        BY <1>1, <2>4, <4>1 DEF AccountInv, LoadInv, TypeInv, TypeOK, OpInv
    <3>2. CASE op \in {"active", "disabled"}
      <4>1. data[x] = [doc[x] EXCEPT !.state = op]
        BY <2>4, <3>2 DEF AccountInv, LoadInv
      <4>2. data'[x] = [doc'[x] EXCEPT !.state = op]
        BY <1>2, <1>3, <1>5, <2>4, <4>1
      <4> QED
        BY <1>4, <2>4, <2>5, <3>1, <3>2, <4>2 DEF LoadInv
    <3>3. CASE op = "change"
      <4>1. data[x] = [doc[x] EXCEPT !.password = @ + 1]
        BY <2>4, <3>3 DEF AccountInv, LoadInv
      <4>2. data'[x] = [doc'[x] EXCEPT !.password = @ + 1]
        BY <1>2, <1>3, <1>5, <2>4, <4>1
      <4> QED
        BY <1>4, <2>4, <2>5, <3>1, <3>3, <4>2 DEF LoadInv
    <3> QED
      BY <3>1, <3>2, <3>3
  <2> QED
    BY <2>1, <2>2, <2>3, <2>4 DEF TypeInv, TypeOK
<1>7. AbsentInv'
  <2>1. doc[x].state # "absent"
    BY <1>1 DEF AccountInv, AbsentInv, Absent
  <2> QED
    BY <1>2, <1>5, <2>1 DEF AccountInv, AbsentInv
<1>8. CountInv'
  <2>1. misses'[x] = 0 /\ \A y \in Account : y # x => misses'[y] = misses[y]
    BY DEF LockEnds, TypeInv, TypeOK
  <2>2. doc'[x].failed = 0 /\ ~doc'[x].locked
    BY <1>1, <1>2, <1>5 DEF AccountInv, CountInv
  <2>3. 0 < MaxFailed
    BY ConstantsAssumption
  <2> QED
    BY <1>2, <2>1, <2>2, <2>3 DEF AccountInv, CountInv
<1> QED
  BY <1>6, <1>7, <1>8 DEF AccountInv

AccountsInv == ~stale => AccountInv

LEMMA AccountsStep == TypeInv /\ AccountsInv /\ [Next]_vars => AccountsInv'
<1> SUFFICES ASSUME TypeInv, AccountInv, [Next]_vars, ~stale'
             PROVE  AccountInv'
  <2>1. stale /\ [Next]_vars => stale'
    BY Steps DEF Locking, Login, LoginRefused, Bootstrap, CreateAccount, SetActive, ChangePassword,
                 Hold, Save, SaveFails, Sweep, LoginSweep, DisableSweep, SweepRaises, Keep,
                 KeepRaises, Passing, Ask, AskRefused, ProfileLoad, ProfileSave, LockEnds, Restart, Outside,
                 Logout, RequireExpired, Expire, Rest, vars, history
  <2> QED
    BY <2>1 DEF AccountsInv
<1>1. ASSUME \/ SaveFails \/ Sweep
             \/ \E t \in Token : LoginSweep(t)
             \/ DisableSweep \/ SweepRaises \/ Keep \/ KeepRaises
             \/ Passing \/ Restart \/ Outside
      PROVE  AccountInv'
  <2>1. /\ UNCHANGED <<doc, misses>>
        /\ \/ pc' = "idle"
           \/ UNCHANGED <<pc, op, who, data>>
           \/ pc = "saved" /\ pc' = "sweep" /\ UNCHANGED <<op, who, data>>
    BY <1>1 DEF SaveFails, Sweep, LoginSweep, DisableSweep, SweepRaises, Keep, KeepRaises, Release,
                Passing, Ask, AskRefused, ProfileLoad, Restart, Outside, Logout, RequireExpired, Expire, Rest,
                vars, history
  <2> QED
    BY <2>1, AccountsRest
<1>2. ASSUME NEW t \in Token, ProfileSave(t)
      PROVE  AccountInv'
  <2>1. UNCHANGED <<doc, misses, pc, op, who, data>>
    BY <1>2 DEF ProfileSave
  <2> QED
    BY <2>1, AccountsRest
<1> QED
  BY <1>1, <1>2, Steps, AccountsHold, AccountsSave, AccountsUnlocked

LEMMA AccountsAlways == Spec => []AccountsInv
<1>1. Init => AccountsInv
  BY ConstantsAssumption DEF Init, AccountsInv, AccountInv, LoadInv, AbsentInv, CountInv, Absent
<1> QED
  BY <1>1, AccountsStep, TypeAlways, PTL DEF Spec

\* Between two lockouts no more than MaxFailed wrong passwords are told at login,
\* however logins, resets and other changes of the accounts interleave.  What
\* change_password tells a session is not counted, and not limited.
THEOREM GuessesLimited == Spec => []GuessesAreLimited
<1>1. TypeInv /\ AccountsInv => GuessesAreLimited
  <2>1. MaxFailed \in Nat /\ (TypeInv => misses \in [Account -> Nat])
    BY ConstantsAssumption DEF TypeInv, TypeOK
  <2> QED
    BY <2>1 DEF AccountsInv, AccountInv, CountInv, GuessesAreLimited
<1> QED
  BY <1>1, TypeAlways, AccountsAlways, PTL

\* A save changes no more of the accounts than its operation says: passwords
\* never go back, and no account is enabled or disabled on the side.
THEOREM ChangesStay == Spec => ChangesPersist
<1>1. TypeInv /\ AccountsInv /\ [Next]_vars =>
        [~stale' => \A x \in Account :
              /\ doc'[x].password >= doc[x].password
              /\ doc'[x].state # doc[x].state => op \in {"create", "active", "disabled"}]_vars
  <2> SUFFICES ASSUME TypeInv, AccountsInv, [Next]_vars, ~stale', NEW x \in Account
               PROVE  /\ doc'[x].password >= doc[x].password
                      /\ doc'[x].state # doc[x].state => op \in {"create", "active", "disabled"}
    OBVIOUS
  <2>1. doc[x] \in Record /\ doc[x].password \in Nat
    BY ConstantsAssumption DEF TypeInv, TypeOK, Accounts, Record, Password
  <2>2. CASE Save
    <3>1. ~stale
      BY <2>2 DEF Save
    <3>2. Changed(x)
      BY <2>2, <3>1, WhatIsSaved DEF AccountsInv
    <3> QED
      BY <2>1, <3>2 DEF Changed
  <2>3. CASE \E y \in Account : LockEnds(y)
    <3>1. PICK y \in Account : LockEnds(y)
      BY <2>3
    <3>2. doc' = [doc EXCEPT ![y].locked = FALSE]
      BY <3>1, TypeUnlocked DEF LockEnds, TypeInv, TypeOK
    <3>3. doc'[x].password = doc[x].password /\ doc'[x].state = doc[x].state
      BY <2>1, <3>2 DEF TypeInv, TypeOK, Accounts, Record
    <3> QED
      BY <2>1, <3>3
  <2>4. CASE ~Save /\ ~\E y \in Account : LockEnds(y)
    <3>1. doc' = doc
      BY <2>4, Steps DEF Locking, Login, LoginRefused, Bootstrap, CreateAccount, SetActive,
                 ChangePassword, Hold, SaveFails, Sweep, LoginSweep, DisableSweep, SweepRaises,
                 Keep, KeepRaises, Passing, Ask, AskRefused, ProfileLoad, ProfileSave, Restart, Outside,
                 Logout, RequireExpired, Expire, Rest, vars
    <3> QED
      BY <2>1, <3>1
  <2> QED
    BY <2>2, <2>3, <2>4
<1> QED
  BY <1>1, TypeAlways, AccountsAlways, PTL DEF Spec, ChangesPersist

-----------------------------------------------------------------------------
(* The sessions.                                                           *)

SessionsInv ==
    ~stale => /\ \A x \in Account : doc[x].state = "absent" => Of(live, x) = {}
              /\ DisabledMeansSignedOut
              /\ SessionsKnowThePassword

\* A session is disabled with its account, or revoked, unless the operation
\* that is to revoke it has just saved.
Kept(x) ==
    /\ doc[x].state = "absent" => Of(live, x) = {}
    /\ doc[x].state = "disabled" =>
          Of(live, x) \subseteq torn \/ (who = x /\ op = "disabled" /\ pc # "save")
    /\ \A t \in Of(live, x) \ torn :
          key[t] = doc[x].password \/ (who = x /\ op = "change" /\ pc = "saved")

LEMMA KeptAll ==
    ASSUME TypeInv
    PROVE  SessionsInv <=> ~stale => \A x \in Account : Kept(x)
BY DEF TypeInv, TypeOK, OwnerInv, SessionsInv, Kept, DisabledMeansSignedOut,
       SessionsKnowThePassword, Of

\* Fewer sessions, and an account as before.
LEMMA KeptFewer ==
    ASSUME NEW x \in Account, Kept(x),
           doc'[x].state = doc[x].state, doc'[x].password = doc[x].password,
           live' \subseteq live, torn \subseteq torn', owner' = owner, key' = key,
           \/ who' = who /\ op' = op /\ (pc' = pc \/ (pc = "saved" /\ pc' = "sweep" /\ op # "change"))
           \/ who # x \/ op \notin {"disabled", "change"} \/ pc = "save"
    PROVE  Kept(x)'
BY DEF Kept, Of

LEMMA KeptLocked ==
    ASSUME TypeInv, AccountInv, NEW x \in Account, Kept(x),
           \/ Save
           \/ \E t \in Token : LoginSweep(t)
           \/ DisableSweep \/ SweepRaises \/ Keep \/ KeepRaises
    PROVE  Kept(x)'
<1>1. CASE Save
  <2>1. UNCHANGED <<live, owner, key, torn>> /\ pc = "save"
    BY <1>1 DEF Save, sessions
  <2>2. op \in {"login", "disabled", "change"} => UNCHANGED <<who, op>> /\ pc' = "saved"
    BY <1>1 DEF Save
  <2>3. who \in Account /\ Changed(x)
    BY <1>1, WhatIsSaved
  <2>4. CASE x # who \/ op \in {"refuse", "login"}
    BY <2>1, <2>3, <2>4, KeptFewer DEF Changed
  <2>5. CASE x = who /\ op = "create"
    <3>1. Of(live, x) = {}
      BY <2>1, <2>5 DEF AccountInv, LoadInv, Absent, Kept
    <3> QED
      BY <2>1, <3>1 DEF Kept, Of
  <2>6. CASE x = who /\ op \in {"active", "disabled"}
    BY <2>1, <2>2, <2>3, <2>6 DEF Changed, Kept, Of
  <2>7. CASE x = who /\ op = "change"
    BY <2>1, <2>2, <2>3, <2>7 DEF Changed, Kept, Of
  <2> QED
    BY <1>1, <2>4, <2>5, <2>6, <2>7 DEF Save, TypeInv, TypeOK, OpInv
<1>2. ASSUME NEW t \in Token, LoginSweep(t)
      PROVE  Kept(x)'
  <2>1. t \notin live /\ live' \subseteq live \cup {t} /\ pc = "sweep" /\ op = "login"
    BY <1>2 DEF LoginSweep, TypeInv, OwnerInv
  <2>2. UNCHANGED <<doc, torn>>
    BY <1>2 DEF LoginSweep
  <2>3. \A u \in Token : u # t => owner'[u] = owner[u] /\ key'[u] = key[u]
    BY <1>2 DEF LoginSweep, TypeInv, TypeOK
  <2>4. owner'[t] = who /\ key'[t] = doc[who].password /\ doc[who].state = "active"
    BY <1>2 DEF LoginSweep, TypeInv, TypeOK, AccountInv, LoadInv
  <2>5. live \subseteq Token /\ live' \subseteq Token
    BY <2>1 DEF TypeInv, TypeOK
  <2> QED
    BY <2>1, <2>2, <2>3, <2>4, <2>5 DEF Kept, Of
<1>3. CASE DisableSweep
  <2>1. UNCHANGED <<doc, owner, key>> /\ live' = live \ Of(live, who) /\ torn' = torn \ Of(live, who)
    BY <1>3 DEF DisableSweep
  <2>2. op = "disabled"
    BY <1>3 DEF DisableSweep
  <2> QED
    BY <2>1, <2>2 DEF Kept, Of
<1>4. CASE SweepRaises
  <2>1. UNCHANGED <<doc, live, owner, key>>
    BY <1>4 DEF SweepRaises, sessions
  <2>2. torn' = IF op = "disabled" THEN torn \cup Of(live, who) ELSE torn
    BY <1>4 DEF SweepRaises
  <2>3. op # "change"
    BY <1>4 DEF SweepRaises, TypeInv, OpInv
  <2> QED
    BY <2>1, <2>2, <2>3 DEF Kept, Of
<1>5. CASE Keep
  <2>1. UNCHANGED <<doc, owner>> /\ live' = {tok} /\ tok \in live /\ torn' = torn \cap {tok}
    BY <1>5 DEF Keep
  <2>2. owner[tok] = who /\ key'[tok] = doc[who].password /\ tok \in Token /\ op = "change"
    BY <1>5 DEF Keep, TypeInv, TypeOK, OpInv, AccountInv, LoadInv
  <2> QED
    BY <2>1, <2>2 DEF Kept, Of
<1>6. CASE KeepRaises
  <2>1. UNCHANGED <<doc, live, owner, key>> /\ torn' = torn \cup Of(live, who) /\ op = "change"
    BY <1>6 DEF KeepRaises, sessions
  <2> QED
    BY <2>1 DEF Kept, Of
<1> QED
  BY <1>1, <1>2, <1>3, <1>4, <1>5, <1>6

LEMMA SessionsStep == TypeInv /\ AccountsInv /\ SessionsInv /\ [Next]_vars => SessionsInv'
<1> SUFFICES ASSUME TypeInv, AccountsInv, SessionsInv, [Next]_vars
             PROVE  SessionsInv'
  OBVIOUS
<1>0. TypeInv'
  BY TypeStep
<1>1. SUFFICES ASSUME ~stale', NEW x \in Account
               PROVE  Kept(x)'
  BY <1>0 DEF TypeInv, TypeOK, OwnerInv, SessionsInv, Kept, DisabledMeansSignedOut,
              SessionsKnowThePassword, Of
<1>2. ~stale
  BY <1>1, Steps DEF Locking, Login, LoginRefused, Bootstrap, CreateAccount, SetActive,
             ChangePassword, Hold, Save, SaveFails, Sweep, LoginSweep, DisableSweep, SweepRaises,
             Keep, KeepRaises, Passing, Ask, AskRefused, ProfileLoad, ProfileSave, LockEnds, Restart, Outside,
             Logout, RequireExpired, Expire, Rest, vars, history
<1>3. AccountInv /\ Kept(x)
  BY <1>2, KeptAll DEF AccountsInv
<1>4. CASE Locking
  BY <1>3, <1>4, KeptFewer DEF Locking, Login, LoginRefused, Bootstrap, CreateAccount, SetActive,
             ChangePassword, Hold, sessions, history, TypeInv, OpInv
<1>5. CASE SaveFails \/ Sweep
  BY <1>3, <1>5, KeptFewer DEF SaveFails, Sweep, sessions, history
<1>6. CASE Passing \/ Outside \/ \E t \in Token : ProfileSave(t)
  <2>1. /\ doc' = doc /\ owner' = owner /\ key' = key /\ who' = who /\ op' = op /\ pc' = pc
        /\ live' \subseteq live /\ torn \subseteq torn'
    BY <1>1, <1>6 DEF Passing, Ask, AskRefused, ProfileLoad, ProfileSave, Outside, Logout, RequireExpired,
                      Expire, Rest, vars, sessions, history
  <2> QED
    BY <1>3, <2>1 DEF Kept, Of
<1>7. ASSUME NEW y \in Account, LockEnds(y)
      PROVE  Kept(x)'
  <2>1. doc \in Accounts /\ doc[x] \in Record /\ doc' = Unlocked(doc, y)
    BY <1>7 DEF LockEnds, TypeInv, TypeOK, Accounts
  <2>2. doc'[x].state = doc[x].state /\ doc'[x].password = doc[x].password
    <3>1. CASE x = y
      <4>1. doc'[x] = [doc[x] EXCEPT !.locked = FALSE]
        BY <2>1, <3>1, UnlockedFields
      <4> QED
        BY <2>1, <4>1 DEF Record
    <3>2. CASE x # y
      <4>1. Unlocked(doc, y)[x] = doc[x]
        BY <2>1, <3>2, UnlockedFields
      <4> QED
        BY <2>1, <4>1
    <3> QED
      BY <3>1, <3>2
  <2>3. /\ owner' = owner /\ key' = key /\ who' = who /\ op' = op /\ pc' = pc
        /\ live' \subseteq live /\ torn \subseteq torn'
    BY <1>7 DEF LockEnds, sessions
  <2> QED
    BY <1>3, <2>2, <2>3 DEF Kept, Of
<1>8. CASE Restart
  <2>1. live' = {}
    BY <1>8 DEF Restart
  <2> QED
    BY <2>1 DEF Kept, Of
<1> QED
  BY <1>3, <1>4, <1>5, <1>6, <1>7, <1>8, Steps, KeptLocked

LEMMA SessionsAlways == Spec => []SessionsInv
<1>1. Init => SessionsInv
  BY DEF Init, SessionsInv, DisabledMeansSignedOut, SessionsKnowThePassword, Of
<1> QED
  BY <1>1, SessionsStep, TypeAlways, AccountsAlways, PTL DEF Spec

\* Whoever disables an account signs it out: no login in between brings a
\* session of it back.
THEOREM DisabledSignedOut == Spec => []DisabledMeansSignedOut
<1>1. SessionsInv => DisabledMeansSignedOut
  BY DEF SessionsInv, DisabledMeansSignedOut
<1> QED
  BY <1>1, SessionsAlways, PTL

\* Sessions know the current password of their account, whatever was changed
\* while they were opened.
THEOREM PasswordKnown == Spec => []SessionsKnowThePassword
<1>1. SessionsInv => SessionsKnowThePassword
  BY DEF SessionsInv, SessionsKnowThePassword
<1> QED
  BY <1>1, SessionsAlways, PTL

-----------------------------------------------------------------------------
(* The limits.                                                             *)

\* Sessions are finitely many, and no two began together.
BornInv ==
    /\ IsFiniteSet(live)
    /\ \A t \in Token : born[t] <= clock
    /\ \A t \in live, u \in live : born[t] = born[u] => t = u

LEMMA OldestIsThere ==
    ASSUME TypeOK, NEW S \in SUBSET Token, S # {}
    PROVE  \E m \in S : \A t \in S : born[m] <= born[t]
<1> DEFINE B == {born[t] : t \in S}
<1>1. B \subseteq Nat /\ B # {}
  BY DEF TypeOK
<1>2. PICK b \in B : \A c \in B : <<c, b>> \notin OpToRel(<, Nat)
  BY <1>1, WFMin, NatLessThanWellFounded
<1>3. \A c \in B : ~(c < b)
  BY <1>1, <1>2 DEF OpToRel
<1>4. PICK m \in S : born[m] = b
  BY <1>2
<1>5. ASSUME NEW t \in S
      PROVE  born[m] <= born[t]
  <2>1. born[t] \in B /\ born[t] \in Nat /\ b \in Nat
    BY <1>1, <1>2
  <2> QED
    BY <1>3, <1>4, <2>1
<1> QED
  BY <1>4, <1>5

\* What is left when the excess is gone has room for one more.
LEMMA RoomIsMade ==
    ASSUME TypeOK, NEW S \in SUBSET Token, IsFiniteSet(S), NEW limit \in Nat \ {0},
           \A t \in S, u \in S : born[t] = born[u] => t = u
    PROVE  /\ IsFiniteSet(S \ Excess(S, limit))
           /\ Cardinality(S \ Excess(S, limit)) <= limit - 1
<1> DEFINE K == S \ Excess(S, limit)
           Newer(t) == {u \in S : born[u] > born[t]}
<1>1. IsFiniteSet(K) /\ Cardinality(K) \in Nat
  BY FS_Subset, FS_CardinalityType
<1>2. CASE K = {}
  BY <1>2, FS_EmptySet
<1>3. CASE K # {}
  <2>1. PICK m \in K : \A t \in K : born[m] <= born[t]
    BY <1>3, OldestIsThere
  <2>2. K \subseteq Newer(m) \cup {m}
    <3>1. ASSUME NEW t \in K, t # m
          PROVE  born[t] > born[m]
      <4>1. born[t] # born[m] /\ born[t] \in Nat /\ born[m] \in Nat
        BY <2>1, <3>1 DEF TypeOK
      <4> QED
        BY <2>1, <4>1
    <3> QED
      BY <3>1
  <2>3. IsFiniteSet(Newer(m)) /\ Cardinality(Newer(m)) \in Nat
    BY FS_Subset, FS_CardinalityType
  <2>4. Cardinality(Newer(m)) < limit - 1
    <3>1. ~(Cardinality(Newer(m)) >= limit - 1)
      BY <2>1 DEF Excess
    <3> QED
      BY <2>3, <3>1
  <2>5. m \notin Newer(m)
    BY <2>1 DEF TypeOK
  <2>6. /\ IsFiniteSet(Newer(m) \cup {m})
        /\ Cardinality(Newer(m) \cup {m}) = Cardinality(Newer(m)) + 1
    BY <2>3, <2>5, FS_AddElement
  <2>7. Cardinality(K) <= Cardinality(Newer(m) \cup {m})
    BY <2>2, <2>6, FS_Subset
  <2> QED
    BY <1>1, <2>3, <2>4, <2>6, <2>7
<1> QED
  BY <1>1, <1>2, <1>3

LimitInv == BornInv /\ SessionsAreBounded

LEMMA LimitFewer ==
    ASSUME TypeInv, LimitInv, live' \subseteq live, UNCHANGED <<owner, born, clock>>
    PROVE  LimitInv'
<1>1. BornInv'
  BY FS_Subset DEF LimitInv, BornInv
<1>2. ASSUME NEW S, NEW T \in SUBSET S, IsFiniteSet(S), NEW n \in Nat, Cardinality(S) <= n
      PROVE  Cardinality(T) <= n
  BY <1>2, FS_Subset, FS_CardinalityType
<1>3. PerAccount \in Nat /\ Total \in Nat
  BY ConstantsAssumption
<1>4. Cardinality(live') <= Total
  BY <1>2, <1>3 DEF LimitInv, BornInv, SessionsAreBounded
<1>5. ASSUME NEW x \in Account
      PROVE  Cardinality(Of(live, x)') <= PerAccount
  <2>1. Of(live, x)' \subseteq Of(live, x) /\ Of(live, x) \subseteq live
    BY DEF Of
  <2>2. IsFiniteSet(Of(live, x)) /\ Cardinality(Of(live, x)) <= PerAccount
    BY <2>1, FS_Subset DEF LimitInv, BornInv, SessionsAreBounded
  <2> QED
    BY <1>2, <1>3, <2>1, <2>2
<1> QED
  BY <1>1, <1>4, <1>5 DEF LimitInv, SessionsAreBounded

LEMMA LimitLogin ==
    ASSUME TypeInv, LimitInv, NEW t \in Token, LoginSweep(t)
    PROVE  LimitInv'
<1> DEFINE kept == live \ expired
           mine == Of(kept, who)
           room == kept \ Excess(mine, PerAccount)
           rest == room \ Excess(room, Total)
<1>1. live' = rest \cup {t} /\ clock' = clock + 1 /\ owner' = [owner EXCEPT ![t] = who]
      /\ born' = [born EXCEPT ![t] = clock + 1] /\ born[t] = 0
  BY DEF LoginSweep
<1>2. /\ PerAccount \in Nat \ {0} /\ Total \in Nat \ {0}
      /\ TypeOK /\ live \subseteq Token /\ IsFiniteSet(live)
      /\ \A u \in live, v \in live : born[u] = born[v] => u = v
  BY ConstantsAssumption DEF TypeInv, TypeOK, LimitInv, BornInv
<1>3. t \notin live
  BY <1>1 DEF TypeInv, OwnerInv
<1>4. /\ mine \in SUBSET Token /\ mine \subseteq live /\ IsFiniteSet(mine)
      /\ room \in SUBSET Token /\ room \subseteq live /\ IsFiniteSet(room)
  BY <1>2, FS_Subset DEF Of
<1>5. /\ IsFiniteSet(mine \ Excess(mine, PerAccount))
      /\ Cardinality(mine \ Excess(mine, PerAccount)) <= PerAccount - 1
  BY <1>2, <1>4, RoomIsMade
<1>6. IsFiniteSet(rest) /\ Cardinality(rest) <= Total - 1 /\ rest \subseteq live
  BY <1>2, <1>4, RoomIsMade
<1>7. ASSUME NEW S, IsFiniteSet(S), t \notin S, NEW n \in Nat \ {0}, Cardinality(S) <= n - 1
      PROVE  Cardinality(S \cup {t}) <= n /\ IsFiniteSet(S \cup {t})
  <2>1. Cardinality(S) \in Nat /\ Cardinality(S \cup {t}) = Cardinality(S) + 1 /\ IsFiniteSet(S \cup {t})
    BY <1>7, FS_AddElement, FS_CardinalityType
  <2> QED
    BY <1>7, <2>1
<1>8. Cardinality(live') <= Total /\ IsFiniteSet(live')
  BY <1>1, <1>2, <1>3, <1>6, <1>7
<1>9. BornInv'
  <2>1. clock \in Nat /\ born \in [Token -> Nat] /\ \A u \in Token : born[u] <= clock
    BY DEF TypeInv, TypeOK, LimitInv, BornInv
  <2>2. born'[t] = clock + 1 /\ \A u \in Token : u # t => born'[u] = born[u]
    BY <1>1, <2>1
  <2>3. \A u \in Token : born'[u] <= clock'
    BY <1>1, <2>1, <2>2
  <2>4. ASSUME NEW u \in live', NEW v \in live', born'[u] = born'[v]
        PROVE  u = v
    <3>1. \A w \in live' : w = t \/ (w \in live /\ w # t /\ born'[w] = born[w] /\ born[w] # clock + 1)
      BY <1>1, <1>2, <1>3, <1>6, <2>1, <2>2
    <3> QED
      BY <1>2, <2>2, <2>4, <3>1
  <2> QED
    BY <1>8, <2>3, <2>4 DEF BornInv
<1>10. ASSUME NEW x \in Account
       PROVE  Cardinality(Of(live, x)') <= PerAccount
  <2>1. owner'[t] = who /\ \A u \in Token : u # t => owner'[u] = owner[u]
    BY <1>1 DEF TypeInv, TypeOK
  <2>2. CASE x = who
    <3>1. Of(live, x)' \subseteq (mine \ Excess(mine, PerAccount)) \cup {t}
      BY <1>1, <1>2, <1>6, <2>1, <2>2 DEF Of
    <3>2. t \notin mine
      BY <1>3, <1>4
    <3>3. /\ Cardinality((mine \ Excess(mine, PerAccount)) \cup {t}) <= PerAccount
          /\ IsFiniteSet((mine \ Excess(mine, PerAccount)) \cup {t})
      BY <1>2, <1>5, <1>7, <3>2
    <3>4. /\ Cardinality(Of(live, x)') \in Nat
          /\ Cardinality((mine \ Excess(mine, PerAccount)) \cup {t}) \in Nat
          /\ Cardinality(Of(live, x)') <=
                Cardinality((mine \ Excess(mine, PerAccount)) \cup {t})
      BY <3>1, <3>3, FS_Subset, FS_CardinalityType
    <3> QED
      BY <1>2, <3>3, <3>4
  <2>3. CASE x # who
    <3>1. Of(live, x)' \subseteq Of(live, x) /\ Of(live, x) \subseteq live
      BY <1>1, <1>2, <1>6, <2>1, <2>3 DEF Of
    <3>2. IsFiniteSet(Of(live, x)) /\ Cardinality(Of(live, x)) <= PerAccount
      BY <1>2, <3>1, FS_Subset DEF LimitInv, SessionsAreBounded
    <3> QED
      BY <1>2, <3>1, <3>2, FS_Subset, FS_CardinalityType
  <2> QED
    BY <2>2, <2>3
<1> QED
  BY <1>8, <1>9, <1>10 DEF LimitInv, SessionsAreBounded

\* No order of logins exceeds the number of sessions an account, or the
\* installation, may have.
THEOREM SessionsBounded == Spec => []SessionsAreBounded
<1>1. Init => LimitInv
  <2> SUFFICES ASSUME Init PROVE LimitInv
    OBVIOUS
  <2>1. live = {} /\ \A x \in Account : Of(live, x) = {}
    BY DEF Init, Of
  <2>2. PerAccount \in Nat /\ Total \in Nat
    BY ConstantsAssumption
  <2> QED
    BY <2>1, <2>2, FS_EmptySet DEF Init, LimitInv, BornInv, SessionsAreBounded
<1>2. TypeInv /\ LimitInv /\ [Next]_vars => LimitInv'
  <2> SUFFICES ASSUME TypeInv, LimitInv, [Next]_vars, \A t \in Token : ~LoginSweep(t)
               PROVE  LimitInv'
    BY LimitLogin
  <2>1. live' \subseteq live /\ UNCHANGED <<owner, born, clock>>
    BY Steps DEF Locking, Login, LoginRefused, Bootstrap, CreateAccount, SetActive,
             ChangePassword, Hold, Save, SaveFails, Sweep, DisableSweep, SweepRaises,
             Keep, KeepRaises, Passing, Ask, AskRefused, ProfileLoad, ProfileSave, LockEnds, Restart, Outside,
             Logout, RequireExpired, Expire, Rest, vars, sessions, history
  <2> QED
    BY <2>1, LimitFewer
<1>3. LimitInv => SessionsAreBounded
  BY DEF LimitInv
<1> QED
  BY <1>1, <1>2, <1>3, TypeAlways, PTL DEF Spec

=============================================================================
