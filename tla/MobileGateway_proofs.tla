-------------------------- MODULE MobileGateway_proofs --------------------------
(***************************************************************************)
(* Proofs about MobileGateway, for any number of requests, addresses,      *)
(* codes and phones, and any limits.                                       *)
(*                                                                         *)
(* The bound on guesses rests on the accounting of permits: an address has *)
(* no more requests between the two calls of the limiter than the listener *)
(* has admitted, and each of those may add one wrong code to the number    *)
(* that the limiter compared.  That phones act as paired rests on          *)
(* identifiers that are given once: of pairings, by the Owner, and of      *)
(* devices, by codes that are used up.                                     *)
(***************************************************************************)
EXTENDS MobileGateway, FiniteSetTheorems, FunctionTheorems, SequenceTheorems, TLAPS

Holders == {r \in Request : phase[r] \notin {"none", "shaking"}}

Accounted == free + Cardinality(Holders) = Permits

Budgeted ==
    \A a \in Address : failures[a] + Cardinality(Guessing(a)) < PairFailures + Permits

CallsFit ==
    \A r \in Request :
        /\ phase[r] \in {"asked", "refused", "paired"} => call[r].kind = "pair"
        /\ phase[r] = "known" => call[r].kind = "forget"
        /\ phase[r] = "dispatching" => call[r].kind = "route"

\* Devices are numbered in the order of their pairing.
DevicesNumbered ==
    /\ IsFiniteSet(devices)
    /\ \A d \in devices : d.id <= Cardinality(devices)
    /\ \A d, e \in devices : d.id = e.id => d = e

\* A pairing is the Owner's, and an open one has made no phone yet.
CodesSpent ==
    /\ \A p \in pairings : p.id <= Len(granted) /\ p.mode = granted[p.id]
    /\ \A p, q \in pairings : p.id = q.id => p = q
    /\ \A d \in devices : d.from <= Len(granted) /\ d.mode = granted[d.from]
    /\ \A d, e \in devices : d.from = e.from => d = e
    /\ \A p \in Live(pairings), d \in devices : d.from # p.id

BarredEnded ==
    \A r \in Request : \A n \in barred[r] :
        /\ n <= Cardinality(devices)
        /\ \A d \in devices : d.id = n => d.ended

Dispatched ==
    \A r \in Request : phase[r] = "dispatching" =>
        /\ call[r].phone \notin barred[r]
        /\ \E d \in devices :
            /\ d.id = call[r].phone
            /\ RouteAllowed(granted[d.from], call[r].route)

Inv ==
    /\ TypeOK /\ CallsFit
    /\ Accounted /\ Budgeted
    /\ DevicesNumbered /\ CodesSpent /\ BarredEnded /\ Dispatched

-----------------------------------------------------------------------------
(* Type correctness.                                                       *)

LEMMA TypeMoves ==
    ASSUME TypeOK, NEW r \in Request, NEW to \in Phase, Goes(r, to)
    PROVE  phase' \in [Request -> Phase]
BY DEF TypeOK, Goes

LEMMA RevokedType ==
    ASSUME TypeOK, NEW n, devices' = Revoked(n)
    PROVE  devices' \subseteq [id : Nat \ {0}, from : Nat \ {0}, mode : Mode, ended : BOOLEAN]
BY DEF TypeOK, Revoked, Ended

LEMMA TypeListener ==
    ASSUME ConstantsAssumption, TypeOK, NEW r \in Request,
           \/ Accept(r) \/ TurnedAway(r)
           \/ Admit(r) \/ StartFails(r) \/ Leave(r) \/ EndsEarly(r)
           \/ \E c \in Call : Start(r, c)
    PROVE  TypeOK'
<1>1. Released \in 0 .. Permits BY DEF Released, TypeOK, ConstantsAssumption
<1>2. CASE Admit(r)
    <2>1. free' \in 0 .. Permits BY <1>2 DEF Admit, TypeOK, ConstantsAssumption
    <2>2. phase' \in [Request -> Phase] BY <1>2, TypeMoves DEF Admit, Phase
    <2> QED BY <1>2, <2>1, <2>2 DEF Admit, TypeOK, store
<1>3. CASE StartFails(r)
    <2>1. phase' \in [Request -> Phase] BY <1>3, TypeMoves DEF StartFails, Phase
    <2> QED BY <1>1, <1>3, <2>1 DEF StartFails, TypeOK, store
<1>4. CASE Leave(r)
    <2>1. phase' \in [Request -> Phase] BY <1>4, TypeMoves DEF Leave, Phase
    <2>2. call' \in [Request -> Call \cup {Idle}] /\ barred' \in [Request -> SUBSET Nat]
        BY <1>4 DEF Leave, TypeOK
    <2> QED BY <1>1, <1>4, <2>1, <2>2 DEF Leave, TypeOK, store
<1>5. CASE EndsEarly(r) \/ Accept(r) \/ TurnedAway(r)
    <2>1. phase' \in [Request -> Phase]
        BY <1>5, TypeMoves DEF EndsEarly, Accept, TurnedAway, Phase
    <2> QED BY <1>5, <2>1 DEF EndsEarly, Accept, TurnedAway, TypeOK, store
<1>6. ASSUME NEW c \in Call, Start(r, c) PROVE TypeOK'
    <2>1. phase' \in [Request -> Phase] BY <1>6, TypeMoves DEF Start, Phase
    <2>2. call' \in [Request -> Call \cup {Idle}] BY <1>6 DEF Start, TypeOK
    <2>3. {d.id : d \in {e \in devices : e.ended}} \subseteq Nat BY DEF TypeOK
    <2>4. barred' \in [Request -> SUBSET Nat] BY <1>6, <2>3 DEF Start, TypeOK
    <2> QED BY <1>6, <2>1, <2>2, <2>4 DEF Start, TypeOK, store
<1> QED BY <1>2, <1>3, <1>4, <1>5, <1>6

LEMMA TypePairing ==
    ASSUME ConstantsAssumption, TypeOK, IsFiniteSet(devices), CallsFit, NEW r \in Request,
           \/ RequireAvailable(r) \/ Consume(r) \/ ConsumeRefused(r)
           \/ ConsumeFails(r) \/ Failed(r) \/ Succeeded(r)
    PROVE  TypeOK'
<1>1. phase' \in [Request -> Phase]
    <2>1. \E to \in Phase : Goes(r, to)
        BY DEF RequireAvailable, Consume, ConsumeRefused, ConsumeFails, Failed, Succeeded, Phase
    <2> QED BY <2>1, TypeMoves
<1>2. phase[r] \in {"refused", "paired"} => call[r].from \in Address
    BY DEF TypeOK, CallsFit, Call, Idle
<1>3. CASE RequireAvailable(r) \/ ConsumeRefused(r) \/ ConsumeFails(r)
    BY <1>1, <1>3 DEF RequireAvailable, ConsumeRefused, ConsumeFails, TypeOK, store
<1>4. CASE Failed(r)
    <2>1. failures' \in [Address -> Nat] BY <1>2, <1>4 DEF Failed, TypeOK
    <2> QED BY <1>1, <1>4, <2>1 DEF Failed, TypeOK, store
<1>5. CASE Succeeded(r)
    <2>1. failures' \in [Address -> Nat] BY <1>2, <1>5 DEF Succeeded, TypeOK
    <2> QED BY <1>1, <1>5, <2>1 DEF Succeeded, TypeOK, store
<1>6. CASE Consume(r)
    <2>1. PICK p \in Matching(call[r].code) :
            /\ pairings' = (pairings \ {p}) \cup {Ended(p)}
            /\ devices' = devices \cup {[id |-> Cardinality(devices) + 1, from |-> p.id,
                                         mode |-> p.mode, ended |-> FALSE]}
        BY <1>6 DEF Consume
    <2>2. p \in pairings BY <2>1 DEF Matching, Live
    <2>3. Cardinality(devices) \in Nat BY FS_CardinalityType
    <2>4. Ended(p) \in [id : Nat \ {0}, code : Code, mode : Mode, ended : BOOLEAN]
        BY <2>2 DEF TypeOK, Ended
    <2>5. pairings' \subseteq [id : Nat \ {0}, code : Code, mode : Mode, ended : BOOLEAN]
        BY <2>1, <2>4 DEF TypeOK
    <2>6. devices' \subseteq [id : Nat \ {0}, from : Nat \ {0}, mode : Mode, ended : BOOLEAN]
        <3>1. [id |-> Cardinality(devices) + 1, from |-> p.id, mode |-> p.mode, ended |-> FALSE]
                \in [id : Nat \ {0}, from : Nat \ {0}, mode : Mode, ended : BOOLEAN]
            BY <2>2, <2>3 DEF TypeOK
        <3> QED BY <2>1, <3>1 DEF TypeOK
    <2>7. UNCHANGED <<free, call, failures, granted, barred>> BY <1>6 DEF Consume
    <2> QED BY <1>1, <2>5, <2>6, <2>7 DEF TypeOK
<1> QED BY <1>3, <1>4, <1>5, <1>6

LEMMA TypePhone ==
    ASSUME TypeOK, NEW r \in Request, RequireDevice(r) \/ Dispatch(r) \/ Forget(r)
    PROVE  TypeOK'
<1>1. phase' \in [Request -> Phase]
    <2>1. \E to \in Phase : Goes(r, to)
        <3>1. CASE RequireDevice(r)
            <4>1. PICK d \in Live(devices) :
                    Goes(r, IF call[r].kind = "forget" THEN "known"
                            ELSE IF RouteAllowed(d.mode, call[r].route) THEN "dispatching"
                            ELSE "leaving")
                BY <3>1 DEF RequireDevice
            <4> QED BY <4>1 DEF Phase
        <3>2. CASE Dispatch(r) \/ Forget(r) BY <3>2 DEF Dispatch, Forget, Phase
        <3> QED BY <3>1, <3>2
    <2> QED BY <2>1, TypeMoves
<1>2. CASE RequireDevice(r) \/ Dispatch(r)
    BY <1>1, <1>2 DEF RequireDevice, Dispatch, TypeOK, store
<1>3. CASE Forget(r)
    <2>1. devices' \subseteq [id : Nat \ {0}, from : Nat \ {0}, mode : Mode, ended : BOOLEAN]
        BY <1>3, RevokedType DEF Forget
    <2> QED BY <1>1, <1>3, <2>1 DEF Forget, TypeOK
<1> QED BY <1>2, <1>3

\* The steps that no request takes.
Aside ==
    \/ \E c \in Code, m \in Mode : CreatePairing(c, m)
    \/ \E d \in Live(devices) : EndDevice(d)
    \/ \E p \in Live(pairings) : PairingExpires(p)
    \/ \E a \in Address : FailureAges(a)

LEMMA TypeAside ==
    ASSUME TypeOK, Aside
    PROVE  TypeOK'
<1>1. ASSUME NEW c \in Code, NEW m \in Mode, CreatePairing(c, m) PROVE TypeOK'
    <2>1. granted' \in Seq(Mode) /\ Len(granted) \in Nat
        BY <1>1 DEF CreatePairing, TypeOK
    <2>2. pairings' \subseteq [id : Nat \ {0}, code : Code, mode : Mode, ended : BOOLEAN]
        <3>1. [id |-> Len(granted) + 1, code |-> c, mode |-> m, ended |-> FALSE]
                \in [id : Nat \ {0}, code : Code, mode : Mode, ended : BOOLEAN]
            BY <2>1
        <3>2. Live(pairings) \subseteq pairings BY DEF Live
        <3> QED BY <1>1, <3>1, <3>2 DEF CreatePairing, TypeOK
    <2> QED BY <1>1, <2>1, <2>2 DEF CreatePairing, TypeOK
<1>2. ASSUME NEW d \in Live(devices), EndDevice(d) PROVE TypeOK'
    <2>1. devices' \subseteq [id : Nat \ {0}, from : Nat \ {0}, mode : Mode, ended : BOOLEAN]
        BY <1>2, RevokedType DEF EndDevice
    <2> QED BY <1>2, <2>1 DEF EndDevice, TypeOK
<1>3. ASSUME NEW p \in Live(pairings), PairingExpires(p) PROVE TypeOK'
    <2>1. Ended(p) \in [id : Nat \ {0}, code : Code, mode : Mode, ended : BOOLEAN]
        BY DEF TypeOK, Ended, Live
    <2> QED BY <1>3, <2>1 DEF PairingExpires, TypeOK
<1>4. ASSUME NEW a \in Address, FailureAges(a) PROVE TypeOK'
    <2>1. failures' \in [Address -> Nat] BY <1>4 DEF FailureAges, TypeOK
    <2> QED BY <1>4, <2>1 DEF FailureAges, TypeOK, store
<1> QED BY <1>1, <1>2, <1>3, <1>4 DEF Aside

LEMMA NextIs ==
    ASSUME Next
    PROVE  \/ \E r \in Request :
                \/ Accept(r) \/ TurnedAway(r)
                \/ Admit(r) \/ StartFails(r) \/ Leave(r) \/ EndsEarly(r)
                \/ \E c \in Call : Start(r, c)
           \/ \E r \in Request :
                \/ RequireAvailable(r) \/ Consume(r) \/ ConsumeRefused(r)
                \/ ConsumeFails(r) \/ Failed(r) \/ Succeeded(r)
           \/ \E r \in Request : RequireDevice(r) \/ Dispatch(r) \/ Forget(r)
           \/ Aside
BY DEF Next, Handle, Aside

LEMMA TypeStep ==
    ASSUME ConstantsAssumption, TypeOK, IsFiniteSet(devices), CallsFit, [Next]_vars
    PROVE  TypeOK'
<1>1. CASE UNCHANGED vars BY <1>1 DEF TypeOK, vars
<1>2. CASE Next BY <1>2, NextIs, TypeListener, TypePairing, TypePhone, TypeAside
<1> QED BY <1>1, <1>2

-----------------------------------------------------------------------------
(* Devices stay finitely many, and the stage of a request fits its call.   *)

\* A revocation changes only whether phones are ended.
LEMMA RevokedKeeps ==
    ASSUME TypeOK, IsFiniteSet(devices), \A d, e \in devices : d.id = e.id => d = e,
           NEW n, devices' = Revoked(n)
    PROVE  /\ IsFiniteSet(devices') /\ Cardinality(devices') = Cardinality(devices)
           /\ \A e \in devices' : \E d \in devices :
                /\ e.id = d.id /\ e.from = d.from /\ e.mode = d.mode
                /\ d.ended => e.ended
           /\ \A d \in devices : \E e \in devices' :
                e.id = d.id /\ e.from = d.from /\ e.mode = d.mode
<1> DEFINE h == [d \in devices |-> IF d.id = n THEN Ended(d) ELSE d]
<1>1. \A d \in devices :
        /\ h[d].id = d.id /\ h[d].from = d.from /\ h[d].mode = d.mode
        /\ d.ended => h[d].ended
    BY DEF TypeOK, Ended
<1>2. devices' = {h[d] : d \in devices} BY DEF Revoked
<1> HIDE DEF h
<1>3. h \in Bijection(devices, devices')
    <2>1. h \in [devices -> devices']
        <3>1. h = [d \in devices |-> h[d]] BY DEF h
        <3> QED BY <1>2, <3>1
    <2>2. \A d, e \in devices : h[d] = h[e] => d = e BY <1>1
    <2>3. \A e \in devices' : \E d \in devices : h[d] = e BY <1>2
    <2>4. h \in Injection(devices, devices') BY <2>1, <2>2, Fun_IsInj
    <2>5. h \in Surjection(devices, devices') BY <2>1, <2>3, Fun_IsSurj
    <2> QED BY <2>4, <2>5, Fun_IsBij
<1>4. ExistsBijection(devices, devices') BY <1>3, Fun_ExistsBij
<1>5. IsFiniteSet(devices') /\ Cardinality(devices') = Cardinality(devices)
    BY <1>4, FS_Bijection
<1> QED BY <1>1, <1>2, <1>5

LEMMA CallsStep ==
    ASSUME TypeOK, CallsFit, [Next]_vars
    PROVE  CallsFit'
<1>1. ASSUME NEW r \in Request, NEW to, Goes(r, to), UNCHANGED call,
             /\ to \in {"asked", "refused", "paired"} => call[r].kind = "pair"
             /\ to = "known" => call[r].kind = "forget"
             /\ to = "dispatching" => call[r].kind = "route"
      PROVE  CallsFit'
    BY <1>1 DEF TypeOK, CallsFit, Goes
<1>2. ASSUME NEW r \in Request,
             \/ Accept(r) \/ TurnedAway(r) \/ Admit(r) \/ StartFails(r) \/ EndsEarly(r)
      PROVE  CallsFit'
    BY <1>1, <1>2 DEF Accept, TurnedAway, Admit, StartFails, EndsEarly
<1>3. ASSUME NEW r \in Request, Leave(r) PROVE CallsFit'
    BY <1>3 DEF Leave, TypeOK, CallsFit, Goes
<1>4. ASSUME NEW r \in Request, NEW c \in Call, Start(r, c) PROVE CallsFit'
    BY <1>4 DEF Start, TypeOK, CallsFit, Goes
<1>5. ASSUME NEW r \in Request,
             \/ RequireAvailable(r) \/ Consume(r) \/ ConsumeRefused(r)
             \/ ConsumeFails(r) \/ Failed(r) \/ Succeeded(r)
      PROVE  CallsFit'
    <2>1. CASE RequireAvailable(r) BY <1>1, <2>1 DEF RequireAvailable
    <2>2. CASE Consume(r) \/ ConsumeRefused(r)
        BY <1>1, <2>2 DEF Consume, ConsumeRefused, CallsFit
    <2>3. CASE ConsumeFails(r) \/ Failed(r) \/ Succeeded(r)
        BY <1>1, <2>3 DEF ConsumeFails, Failed, Succeeded
    <2> QED BY <1>5, <2>1, <2>2, <2>3
<1>6. ASSUME NEW r \in Request, RequireDevice(r) PROVE CallsFit'
    <2>1. call[r].kind \in {"route", "forget"} /\ UNCHANGED call
        BY <1>6 DEF RequireDevice
    <2>2. PICK d \in Live(devices) :
            Goes(r, IF call[r].kind = "forget" THEN "known"
                    ELSE IF RouteAllowed(d.mode, call[r].route) THEN "dispatching"
                    ELSE "leaving")
        BY <1>6 DEF RequireDevice
    <2>3. CASE call[r].kind = "forget" BY <1>1, <2>1, <2>2, <2>3
    <2>4. CASE call[r].kind = "route" /\ RouteAllowed(d.mode, call[r].route)
        BY <1>1, <2>1, <2>2, <2>4
    <2>5. CASE call[r].kind = "route" /\ ~RouteAllowed(d.mode, call[r].route)
        BY <1>1, <2>1, <2>2, <2>5
    <2> QED BY <2>1, <2>3, <2>4, <2>5
<1>7. ASSUME NEW r \in Request, Dispatch(r) \/ Forget(r) PROVE CallsFit'
    BY <1>1, <1>7 DEF Dispatch, Forget
<1>8. CASE Aside \/ UNCHANGED vars
    BY <1>8 DEF Aside, CreatePairing, EndDevice, PairingExpires, FailureAges, vars, CallsFit
<1> QED BY <1>2, <1>3, <1>4, <1>5, <1>6, <1>7, <1>8, NextIs

-----------------------------------------------------------------------------
(* Permits.                                                                *)

LEMMA HoldersCount ==
    ASSUME ConstantsAssumption
    PROVE  IsFiniteSet(Holders) /\ Cardinality(Holders) \in Nat
<1>1. Holders \subseteq Request BY DEF Holders
<1> QED BY <1>1, FS_Subset, FS_CardinalityType DEF ConstantsAssumption

LEMMA HoldersStay ==
    ASSUME TypeOK, NEW r \in Request, NEW to, Goes(r, to),
           phase[r] \notin {"none", "shaking"} <=> to \notin {"none", "shaking"}
    PROVE  Holders' = Holders
BY DEF TypeOK, Holders, Goes

LEMMA AccountedStep ==
    ASSUME ConstantsAssumption, TypeOK, Accounted, [Next]_vars
    PROVE  Accounted'
<1>1. IsFiniteSet(Holders) /\ Cardinality(Holders) \in Nat /\ free \in Nat /\ Permits \in Nat
    BY HoldersCount DEF TypeOK, ConstantsAssumption
<1>2. ASSUME UNCHANGED free, Holders' = Holders PROVE Accounted' BY <1>2 DEF Accounted
<1>3. ASSUME NEW r \in Request, Admit(r) PROVE Accounted'
    <2>1. r \notin Holders /\ Holders' = Holders \cup {r} /\ free' = free - 1
        BY <1>3 DEF Admit, Goes, Holders, TypeOK
    <2>2. Cardinality(Holders \cup {r}) = Cardinality(Holders) + 1
        BY <1>1, <2>1, FS_AddElement
    <2> QED BY <1>1, <2>1, <2>2 DEF Accounted
<1>4. ASSUME NEW r \in Request, StartFails(r) \/ Leave(r) PROVE Accounted'
    <2>1. r \in Holders /\ Holders' = Holders \ {r} /\ free' = Released
        BY <1>4 DEF StartFails, Leave, Goes, Holders, TypeOK
    <2>2. Cardinality(Holders \ {r}) = Cardinality(Holders) - 1
        BY <1>1, <2>1, FS_RemoveElement
    <2>3. Cardinality(Holders) # 0 BY <1>1, <2>1, FS_EmptySet
    <2>4. free' = free + 1 BY <1>1, <2>1, <2>3 DEF Released, Accounted
    <2> QED BY <1>1, <2>1, <2>2, <2>4 DEF Accounted
<1>5. ASSUME NEW r \in Request,
             \/ Accept(r) \/ TurnedAway(r) \/ EndsEarly(r)
             \/ \E c \in Call : Start(r, c)
      PROVE  Accounted'
    BY <1>2, <1>5, HoldersStay DEF Accept, TurnedAway, EndsEarly, Start
<1>6. ASSUME NEW r \in Request,
             \/ RequireAvailable(r) \/ Consume(r) \/ ConsumeRefused(r)
             \/ ConsumeFails(r) \/ Failed(r) \/ Succeeded(r)
      PROVE  Accounted'
    BY <1>2, <1>6, HoldersStay
    DEF RequireAvailable, Consume, ConsumeRefused, ConsumeFails, Failed, Succeeded
<1>7. ASSUME NEW r \in Request, RequireDevice(r) PROVE Accounted'
    <2>1. phase[r] = "running" /\ UNCHANGED free BY <1>7 DEF RequireDevice
    <2>2. PICK d \in Live(devices) :
            Goes(r, IF call[r].kind = "forget" THEN "known"
                    ELSE IF RouteAllowed(d.mode, call[r].route) THEN "dispatching"
                    ELSE "leaving")
        BY <1>7 DEF RequireDevice
    <2> QED BY <1>2, <2>1, <2>2, HoldersStay
<1>8. ASSUME NEW r \in Request, Dispatch(r) \/ Forget(r) PROVE Accounted'
    BY <1>2, <1>8, HoldersStay DEF Dispatch, Forget
<1>9. CASE Aside \/ UNCHANGED vars
    BY <1>2, <1>9
    DEF Aside, CreatePairing, EndDevice, PairingExpires, FailureAges, vars, Holders
<1> QED BY <1>3, <1>4, <1>5, <1>6, <1>7, <1>8, <1>9, NextIs

-----------------------------------------------------------------------------
(* Guesses.                                                                *)

LEMMA GuessingCount ==
    ASSUME ConstantsAssumption, NEW a \in Address
    PROVE  /\ IsFiniteSet(Guessing(a)) /\ Cardinality(Guessing(a)) \in Nat
           /\ Cardinality(Guessing(a)) <= Cardinality(Holders)
<1>1. Guessing(a) \subseteq Holders BY DEF Guessing, Holders
<1> QED BY <1>1, HoldersCount, FS_Subset, FS_CardinalityType

\* Fewer wrong codes and fewer requests under way keep the bound.
LEMMA BudgetKept ==
    ASSUME ConstantsAssumption, TypeOK, TypeOK', Budgeted, NEW a \in Address,
           failures'[a] <= failures[a], Guessing(a)' \subseteq Guessing(a)
    PROVE  failures'[a] + Cardinality(Guessing(a)') < PairFailures + Permits
<1>1. /\ IsFiniteSet(Guessing(a)) /\ Cardinality(Guessing(a)) \in Nat
    BY GuessingCount
<1>2. Cardinality(Guessing(a)') <= Cardinality(Guessing(a)) /\ Cardinality(Guessing(a)') \in Nat
    BY <1>1, FS_Subset, FS_CardinalityType
<1>3. failures[a] \in Nat /\ failures'[a] \in Nat BY DEF TypeOK
<1>4. PairFailures \in Nat /\ Permits \in Nat BY DEF ConstantsAssumption
<1> QED BY <1>1, <1>2, <1>3, <1>4 DEF Budgeted

\* A request between the two calls of the limiter that goes on leaves the set
\* of requests under way or stays in it.
LEMMA GuessingShrinks ==
    ASSUME TypeOK, NEW r \in Request, NEW to, Goes(r, to), UNCHANGED call, NEW a \in Address,
           to \in {"asked", "refused", "paired"} => phase[r] \in {"asked", "refused", "paired"}
    PROVE  Guessing(a)' \subseteq Guessing(a)
BY DEF TypeOK, Goes, Guessing

LEMMA BudgetAsked ==
    ASSUME ConstantsAssumption, TypeOK, TypeOK', Accounted', Budgeted,
           NEW r \in Request, RequireAvailable(r), NEW a \in Address
    PROVE  failures'[a] + Cardinality(Guessing(a)') < PairFailures + Permits
<1>1. UNCHANGED <<call, failures>> BY DEF RequireAvailable
<1>2. failures[a] \in Nat /\ PairFailures \in Nat /\ Permits \in Nat
    BY DEF TypeOK, ConstantsAssumption
<1>3. CASE failures[call[r].from] < PairFailures /\ a = call[r].from
    <2>1. Cardinality(Guessing(a)') <= Cardinality(Holders') /\ Cardinality(Guessing(a)') \in Nat
        <3>1. Guessing(a)' \subseteq Holders' BY DEF Guessing, Holders
        <3>2. IsFiniteSet(Holders')
            <4>1. Holders' \subseteq Request BY DEF Holders
            <4> QED BY <4>1, FS_Subset DEF ConstantsAssumption
        <3> QED BY <3>1, <3>2, FS_Subset, FS_CardinalityType
    <2>2. Cardinality(Holders') \in Nat /\ free' \in Nat
        <3>1. Holders' \subseteq Request BY DEF Holders
        <3>2. IsFiniteSet(Holders') BY <3>1, FS_Subset DEF ConstantsAssumption
        <3> QED BY <3>2, FS_CardinalityType DEF TypeOK
    <2>3. Cardinality(Holders') <= Permits BY <1>2, <2>2 DEF Accounted
    <2> QED BY <1>1, <1>2, <1>3, <2>1, <2>2, <2>3
<1>4. CASE a # call[r].from
    <2>1. Guessing(a)' \subseteq Guessing(a)
        BY <1>4 DEF RequireAvailable, TypeOK, Goes, Guessing
    <2> QED BY <1>1, <1>2, <2>1, BudgetKept
<1>5. CASE ~(failures[call[r].from] < PairFailures)
    <2>1. Goes(r, "leaving") BY <1>5 DEF RequireAvailable
    <2>2. Guessing(a)' \subseteq Guessing(a) BY <1>1, <2>1, GuessingShrinks
    <2> QED BY <1>1, <1>2, <2>2, BudgetKept
<1> QED BY <1>3, <1>4, <1>5

LEMMA BudgetFailed ==
    ASSUME ConstantsAssumption, TypeOK, TypeOK', CallsFit, Budgeted,
           NEW r \in Request, Failed(r), NEW a \in Address
    PROVE  failures'[a] + Cardinality(Guessing(a)') < PairFailures + Permits
<1>1. phase[r] = "refused" /\ UNCHANGED call /\ Goes(r, "leaving")
      /\ failures' = [failures EXCEPT ![call[r].from] = @ + 1]
    BY DEF Failed
<1>2. failures[a] \in Nat /\ PairFailures \in Nat /\ Permits \in Nat
    BY DEF TypeOK, ConstantsAssumption
<1>3. Guessing(a)' \subseteq Guessing(a) BY <1>1, GuessingShrinks
<1>4. CASE a = call[r].from
    <2>1. r \in Guessing(a) BY <1>1, <1>4 DEF Guessing
    <2>2. Guessing(a)' = Guessing(a) \ {r} BY <1>1 DEF TypeOK, Goes, Guessing
    <2>3. IsFiniteSet(Guessing(a)) /\ Cardinality(Guessing(a)) \in Nat BY GuessingCount
    <2>4. Cardinality(Guessing(a) \ {r}) = Cardinality(Guessing(a)) - 1
        BY <2>1, <2>3, FS_RemoveElement
    <2>5. failures'[a] = failures[a] + 1 BY <1>1, <1>4 DEF TypeOK
    <2> QED BY <1>2, <2>2, <2>3, <2>4, <2>5 DEF Budgeted
<1>5. CASE a # call[r].from
    <2>1. failures'[a] = failures[a] BY <1>1, <1>5 DEF TypeOK
    <2> QED BY <1>2, <1>3, <2>1, BudgetKept
<1> QED BY <1>4, <1>5

LEMMA BudgetStep ==
    ASSUME ConstantsAssumption, TypeOK, TypeOK', CallsFit, Accounted', Budgeted, [Next]_vars
    PROVE  Budgeted'
<1> SUFFICES ASSUME NEW a \in Address
             PROVE  failures'[a] + Cardinality(Guessing(a)') < PairFailures + Permits
    BY DEF Budgeted
<1>1. failures[a] \in Nat BY DEF TypeOK
<1>2. ASSUME NEW r \in Request, NEW to, Goes(r, to), UNCHANGED <<call, failures>>,
             to \in {"asked", "refused", "paired"} => phase[r] \in {"asked", "refused", "paired"}
      PROVE  failures'[a] + Cardinality(Guessing(a)') < PairFailures + Permits
    BY <1>1, <1>2, GuessingShrinks, BudgetKept
<1>3. ASSUME NEW r \in Request,
             \/ Accept(r) \/ TurnedAway(r) \/ Admit(r) \/ StartFails(r) \/ EndsEarly(r)
      PROVE  failures'[a] + Cardinality(Guessing(a)') < PairFailures + Permits
    BY <1>2, <1>3 DEF Accept, TurnedAway, Admit, StartFails, EndsEarly
<1>4. ASSUME NEW r \in Request, Leave(r) \/ \E c \in Call : Start(r, c)
      PROVE  failures'[a] + Cardinality(Guessing(a)') < PairFailures + Permits
    <2>1. Guessing(a)' \subseteq Guessing(a) /\ UNCHANGED failures
        BY <1>4 DEF Leave, Start, Goes, Guessing, TypeOK
    <2> QED BY <1>1, <2>1, BudgetKept
<1>5. ASSUME NEW r \in Request,
             \/ RequireAvailable(r) \/ Consume(r) \/ ConsumeRefused(r)
             \/ ConsumeFails(r) \/ Failed(r) \/ Succeeded(r)
      PROVE  failures'[a] + Cardinality(Guessing(a)') < PairFailures + Permits
    <2>1. CASE RequireAvailable(r) BY <2>1, BudgetAsked
    <2>2. CASE Failed(r) BY <2>2, BudgetFailed
    <2>3. CASE Succeeded(r)
        <3>1. Guessing(a)' \subseteq Guessing(a)
            BY <2>3, GuessingShrinks DEF Succeeded
        <3>2. failures'[a] <= failures[a] BY <1>1, <2>3 DEF Succeeded, TypeOK
        <3> QED BY <3>1, <3>2, BudgetKept
    <2>4. CASE Consume(r) \/ ConsumeRefused(r) \/ ConsumeFails(r)
        BY <1>2, <2>4 DEF Consume, ConsumeRefused, ConsumeFails
    <2> QED BY <1>5, <2>1, <2>2, <2>3, <2>4
<1>6. ASSUME NEW r \in Request, RequireDevice(r)
      PROVE  failures'[a] + Cardinality(Guessing(a)') < PairFailures + Permits
    <2>1. UNCHANGED <<call, failures>> BY <1>6 DEF RequireDevice
    <2>2. PICK d \in Live(devices) :
            Goes(r, IF call[r].kind = "forget" THEN "known"
                    ELSE IF RouteAllowed(d.mode, call[r].route) THEN "dispatching"
                    ELSE "leaving")
        BY <1>6 DEF RequireDevice
    <2> QED BY <1>2, <2>1, <2>2
<1>7. ASSUME NEW r \in Request, Dispatch(r) \/ Forget(r)
      PROVE  failures'[a] + Cardinality(Guessing(a)') < PairFailures + Permits
    BY <1>2, <1>7 DEF Dispatch, Forget
<1>8. CASE Aside \/ UNCHANGED vars
    <2>1. UNCHANGED <<phase, call>>
        BY <1>8 DEF Aside, CreatePairing, EndDevice, PairingExpires, FailureAges, vars
    <2>2. Guessing(a)' \subseteq Guessing(a) BY <2>1 DEF Guessing
    <2>3. failures'[a] <= failures[a]
        <3>1. CASE UNCHANGED failures BY <1>1, <3>1
        <3>2. ASSUME NEW b \in Address, FailureAges(b) PROVE failures'[a] <= failures[a]
            <4>1. failures' = [failures EXCEPT ![b] = failures[b] - 1] BY <3>2 DEF FailureAges
            <4> QED BY <1>1, <4>1 DEF TypeOK
        <3> QED BY <1>8, <3>1, <3>2 DEF Aside, CreatePairing, EndDevice, PairingExpires, vars
    <2> QED BY <2>2, <2>3, BudgetKept
<1> QED BY <1>3, <1>4, <1>5, <1>6, <1>7, <1>8, NextIs

-----------------------------------------------------------------------------
(* Phones.                                                                 *)

Phones == DevicesNumbered /\ CodesSpent /\ BarredEnded

\* Steps that leave the store alone.
LEMMA PhonesRest ==
    ASSUME TypeOK, Phones, UNCHANGED <<store, granted>>,
           \A r \in Request : barred'[r] \subseteq barred[r] \cup {d.id : d \in {e \in devices : e.ended}}
    PROVE  Phones'
<1>1. UNCHANGED <<devices, pairings, granted>> BY DEF store
<1>2. DevicesNumbered' /\ CodesSpent'
    BY <1>1 DEF Phones, DevicesNumbered, CodesSpent, Live
<1>3. ASSUME NEW r \in Request, NEW n \in barred'[r]
      PROVE  n <= Cardinality(devices) /\ \A d \in devices : d.id = n => d.ended
    <2>1. CASE n \in barred[r] BY <2>1 DEF Phones, BarredEnded
    <2>2. CASE n \in {d.id : d \in {e \in devices : e.ended}}
        <3>1. PICK e \in devices : e.ended /\ e.id = n BY <2>2
        <3> QED BY <3>1 DEF Phones, DevicesNumbered
    <2> QED BY <1>3, <2>1, <2>2
<1>4. BarredEnded' BY <1>1, <1>3 DEF BarredEnded
<1> QED BY <1>2, <1>4 DEF Phones

LEMMA PhonesConsume ==
    ASSUME TypeOK, Phones, NEW r \in Request, Consume(r)
    PROVE  Phones'
<1> DEFINE N == Cardinality(devices)
<1>1. PICK p \in Matching(call[r].code) :
        /\ pairings' = (pairings \ {p}) \cup {Ended(p)}
        /\ devices' = devices \cup {[id |-> N + 1, from |-> p.id, mode |-> p.mode, ended |-> FALSE]}
    BY DEF Consume
<1> DEFINE new == [id |-> N + 1, from |-> p.id, mode |-> p.mode, ended |-> FALSE]
<1>2. p \in Live(pairings) /\ p \in pairings BY <1>1 DEF Matching, Live
<1>3. UNCHANGED <<granted, barred>> BY DEF Consume
<1>4. N \in Nat /\ IsFiniteSet(devices) BY FS_CardinalityType DEF Phones, DevicesNumbered
<1>5. \A d \in devices : d.id \in Nat /\ d.id <= N BY DEF TypeOK, Phones, DevicesNumbered
<1>6. new \notin devices BY <1>4, <1>5
<1>7. IsFiniteSet(devices') /\ Cardinality(devices') = N + 1
    <2>1. devices' = devices \cup {new} BY <1>1
    <2> HIDE DEF new, N
    <2>2. IsFiniteSet(devices \cup {new}) BY <1>4, FS_AddElement
    <2>3. Cardinality(devices \cup {new}) = Cardinality(devices) + 1
        BY <1>4, <1>6, FS_AddElement
    <2> QED BY <2>1, <2>2, <2>3 DEF N
<1>8. DevicesNumbered'
    <2>1. \A d \in devices' : d \in devices \/ d = new BY <1>1
    <2>2. new.id = N + 1 OBVIOUS
    <2> HIDE DEF new, N
    <2>3. \A d \in devices' : d.id <= N + 1 BY <1>4, <1>5, <2>1, <2>2
    <2>4. \A d, e \in devices' : d.id = e.id => d = e
        BY <1>4, <1>5, <2>1, <2>2 DEF Phones, DevicesNumbered
    <2> QED BY <1>7, <2>3, <2>4 DEF DevicesNumbered
<1>9. /\ Ended(p).id = p.id /\ Ended(p).mode = p.mode /\ Ended(p).ended
      /\ p.id <= Len(granted) /\ p.mode = granted[p.id]
      /\ \A d \in devices : d.from # p.id
    BY <1>2 DEF TypeOK, Ended, Phones, CodesSpent
<1>10. CodesSpent'
    <2>1. \A q \in pairings' : q.id <= Len(granted) /\ q.mode = granted[q.id]
        BY <1>1, <1>9 DEF Phones, CodesSpent
    <2>2. ASSUME NEW q \in pairings', NEW s \in pairings', q.id = s.id PROVE q = s
        <3>1. \A x \in pairings' : x = Ended(p) \/ (x \in pairings /\ x # p) BY <1>1
        <3>2. \A x \in pairings : x # p => x.id # p.id BY <1>2 DEF Phones, CodesSpent
        <3>3. \A x, y \in pairings : x.id = y.id => x = y BY DEF Phones, CodesSpent
        <3> QED BY <1>9, <2>2, <3>1, <3>2, <3>3
    <2>3. \A d \in devices' : d.from <= Len(granted) /\ d.mode = granted[d.from]
        BY <1>1, <1>9 DEF Phones, CodesSpent
    <2>4. \A d, e \in devices' : d.from = e.from => d = e
        <3>1. \A d \in devices' : d \in devices \/ d = new BY <1>1
        <3>2. new.from = p.id OBVIOUS
        <3> HIDE DEF new
        <3> QED BY <1>9, <3>1, <3>2 DEF Phones, CodesSpent
    <2>5. ASSUME NEW q \in pairings', ~q.ended, NEW d \in devices' PROVE d.from # q.id
        <3>1. q \in pairings /\ q # p BY <1>1, <1>9, <2>5
        <3>2. q \in Live(pairings) /\ q.id # p.id
            BY <1>2, <2>5, <3>1 DEF Live, Phones, CodesSpent
        <3> QED BY <1>1, <3>2 DEF Phones, CodesSpent
    <2> QED BY <1>3, <2>1, <2>2, <2>3, <2>4, <2>5 DEF CodesSpent, Live
<1>11. BarredEnded'
    <2>1. ASSUME NEW q \in Request, NEW n \in barred[q]
          PROVE  n <= N + 1 /\ \A d \in devices' : d.id = n => d.ended
        <3>1. n \in Nat /\ n <= N /\ \A d \in devices : d.id = n => d.ended
            BY DEF TypeOK, Phones, BarredEnded
        <3> QED BY <1>1, <1>4, <3>1
    <2> QED BY <1>3, <1>7, <2>1 DEF BarredEnded
<1> QED BY <1>8, <1>10, <1>11 DEF Phones

LEMMA PhonesRevoked ==
    ASSUME TypeOK, Phones, NEW n, devices' = Revoked(n), UNCHANGED <<pairings, granted, barred>>
    PROVE  Phones'
<1>1. /\ IsFiniteSet(devices') /\ Cardinality(devices') = Cardinality(devices)
      /\ \A e \in devices' : \E d \in devices :
            /\ e.id = d.id /\ e.from = d.from /\ e.mode = d.mode
            /\ d.ended => e.ended
    BY RevokedKeeps DEF Phones, DevicesNumbered
<1> DEFINE h(d) == IF d.id = n THEN Ended(d) ELSE d
<1>2. /\ devices' = {h(d) : d \in devices}
      /\ \A d \in devices : h(d).id = d.id /\ h(d).from = d.from
    BY DEF TypeOK, Revoked, Ended
<1> HIDE DEF h
<1>3. \A d, e \in devices' : d.id = e.id => d = e
    BY <1>2 DEF Phones, DevicesNumbered
<1>4. DevicesNumbered' BY <1>1, <1>3 DEF Phones, DevicesNumbered
<1>5. \A d, e \in devices' : d.from = e.from => d = e
    BY <1>2 DEF Phones, CodesSpent
<1>6. CodesSpent' BY <1>1, <1>5 DEF Phones, CodesSpent, Live
<1>7. BarredEnded' BY <1>1 DEF Phones, BarredEnded
<1> QED BY <1>4, <1>6, <1>7 DEF Phones

LEMMA PhonesCreate ==
    ASSUME TypeOK, Phones, NEW c \in Code, NEW m \in Mode, CreatePairing(c, m)
    PROVE  Phones'
<1> DEFINE L == Len(granted)
           new == [id |-> L + 1, code |-> c, mode |-> m, ended |-> FALSE]
<1>1. pairings' = Live(pairings) \cup {new} /\ UNCHANGED <<devices, barred>>
    BY DEF CreatePairing
<1>2. /\ L \in Nat /\ Len(granted') = L + 1 /\ granted'[L + 1] = m
      /\ \A n \in Nat \ {0} : n <= L => granted'[n] = granted[n]
    BY DEF CreatePairing, TypeOK
<1>3. \A p \in Live(pairings) : p \in pairings /\ p.id \in Nat \ {0} /\ p.id <= L
    BY DEF Live, TypeOK, Phones, CodesSpent
<1>4. \A d \in devices : d.from \in Nat \ {0} /\ d.from <= L
    BY DEF TypeOK, Phones, CodesSpent
<1>5. CodesSpent'
    <2>1. \A p \in pairings' : p.id <= L + 1 /\ p.mode = granted'[p.id]
        BY <1>1, <1>2, <1>3 DEF Phones, CodesSpent
    <2>2. \A p, q \in pairings' : p.id = q.id => p = q
        <3>1. \A p \in pairings' : p = new \/ p \in Live(pairings) BY <1>1
        <3>2. new.id = L + 1 OBVIOUS
        <3>3. \A p, q \in Live(pairings) : p.id = q.id => p = q
            BY <1>3 DEF Phones, CodesSpent
        <3> HIDE DEF new, L
        <3>4. \A p \in Live(pairings) : p.id # new.id BY <1>2, <1>3, <3>2
        <3> QED BY <3>1, <3>3, <3>4
    <2>3. \A d \in devices : d.from <= L + 1 /\ d.mode = granted'[d.from]
        BY <1>2, <1>4 DEF Phones, CodesSpent
    <2>4. \A p \in pairings', d \in devices : ~p.ended => d.from # p.id
        BY <1>1, <1>2, <1>3, <1>4 DEF Phones, CodesSpent
    <2> QED BY <1>1, <1>2, <2>1, <2>2, <2>3, <2>4 DEF Phones, CodesSpent, Live
<1>6. DevicesNumbered' /\ BarredEnded'
    BY <1>1 DEF Phones, DevicesNumbered, BarredEnded
<1> QED BY <1>5, <1>6 DEF Phones

LEMMA PhonesExpire ==
    ASSUME TypeOK, Phones, NEW p \in Live(pairings), PairingExpires(p)
    PROVE  Phones'
<1>1. pairings' = (pairings \ {p}) \cup {Ended(p)} /\ UNCHANGED <<devices, granted, barred>>
    BY DEF PairingExpires
<1>2. p \in pairings BY DEF Live
<1>3. Ended(p).id = p.id /\ Ended(p).mode = p.mode /\ Ended(p).ended
    BY <1>2 DEF TypeOK, Ended
<1>4. CodesSpent' BY <1>1, <1>2, <1>3 DEF Phones, CodesSpent, Live
<1>5. DevicesNumbered' /\ BarredEnded'
    BY <1>1 DEF Phones, DevicesNumbered, BarredEnded
<1> QED BY <1>4, <1>5 DEF Phones

LEMMA PhonesStep ==
    ASSUME TypeOK, Phones, [Next]_vars
    PROVE  Phones'
<1>1. ASSUME UNCHANGED <<store, granted, barred>> PROVE Phones' BY <1>1, PhonesRest
<1>2. ASSUME NEW r \in Request, NEW c \in Call, Start(r, c) PROVE Phones'
    BY <1>2, PhonesRest DEF Start, TypeOK
<1>3. ASSUME NEW r \in Request, Leave(r) PROVE Phones'
    BY <1>3, PhonesRest DEF Leave, TypeOK
<1>4. ASSUME NEW r \in Request,
             \/ Accept(r) \/ TurnedAway(r) \/ Admit(r) \/ StartFails(r) \/ EndsEarly(r)
      PROVE  Phones'
    BY <1>1, <1>4 DEF Accept, TurnedAway, Admit, StartFails, EndsEarly
<1>5. ASSUME NEW r \in Request, Consume(r) PROVE Phones' BY <1>5, PhonesConsume
<1>6. ASSUME NEW r \in Request,
             \/ RequireAvailable(r) \/ ConsumeRefused(r)
             \/ ConsumeFails(r) \/ Failed(r) \/ Succeeded(r)
      PROVE  Phones'
    BY <1>1, <1>6 DEF RequireAvailable, ConsumeRefused, ConsumeFails, Failed, Succeeded
<1>7. ASSUME NEW r \in Request, RequireDevice(r) \/ Dispatch(r) PROVE Phones'
    BY <1>1, <1>7 DEF RequireDevice, Dispatch
<1>8. ASSUME NEW r \in Request, Forget(r) PROVE Phones'
    BY <1>8, PhonesRevoked DEF Forget
<1>9. CASE Aside
    <2>1. ASSUME NEW d \in Live(devices), EndDevice(d) PROVE Phones'
        BY <2>1, PhonesRevoked DEF EndDevice
    <2>2. ASSUME NEW a \in Address, FailureAges(a) PROVE Phones'
        BY <1>1, <2>2 DEF FailureAges
    <2> QED BY <1>9, <2>1, <2>2, PhonesCreate, PhonesExpire DEF Aside
<1>10. CASE UNCHANGED vars BY <1>1, <1>10 DEF vars, store
<1> QED BY <1>2, <1>3, <1>4, <1>5, <1>6, <1>7, <1>8, <1>9, <1>10, NextIs

-----------------------------------------------------------------------------
(* What is dispatched for a phone.                                         *)

\* A request that was dispatched stays so while its phone exists.
LEMMA DispatchedKept ==
    ASSUME Dispatched,
           \A r \in Request : phase'[r] = "dispatching" =>
                phase[r] = "dispatching" /\ call'[r] = call[r] /\ barred'[r] = barred[r],
           \A d \in devices : \E e \in devices' :
                e.id = d.id /\ granted'[e.from] = granted[d.from]
    PROVE  Dispatched'
BY DEF Dispatched

LEMMA DispatchedStep ==
    ASSUME TypeOK, CallsFit, Phones, Dispatched, [Next]_vars
    PROVE  Dispatched'
<1>1. ASSUME UNCHANGED <<devices, granted>>,
             \A r \in Request : phase'[r] = "dispatching" =>
                phase[r] = "dispatching" /\ call'[r] = call[r] /\ barred'[r] = barred[r]
      PROVE  Dispatched'
    BY <1>1, DispatchedKept
<1>2. ASSUME NEW r \in Request, NEW to, Goes(r, to), to # "dispatching",
             UNCHANGED <<call, barred>>
      PROVE  \A q \in Request : phase'[q] = "dispatching" =>
                phase[q] = "dispatching" /\ call'[q] = call[q] /\ barred'[q] = barred[q]
    BY <1>2 DEF Goes, TypeOK
<1>3. ASSUME NEW r \in Request,
             \/ Accept(r) \/ TurnedAway(r) \/ Admit(r) \/ StartFails(r) \/ EndsEarly(r)
      PROVE  Dispatched'
    BY <1>1, <1>2, <1>3 DEF Accept, TurnedAway, Admit, StartFails, EndsEarly, store
<1>4. ASSUME NEW r \in Request, Leave(r) \/ \E c \in Call : Start(r, c) PROVE Dispatched'
    <2>1. \A q \in Request : phase'[q] = "dispatching" =>
            phase[q] = "dispatching" /\ call'[q] = call[q] /\ barred'[q] = barred[q]
        BY <1>4 DEF Leave, Start, Goes, TypeOK
    <2> QED BY <1>1, <1>4, <2>1 DEF Leave, Start, store
<1>5. ASSUME NEW r \in Request,
             \/ RequireAvailable(r) \/ ConsumeRefused(r)
             \/ ConsumeFails(r) \/ Failed(r) \/ Succeeded(r)
      PROVE  Dispatched'
    BY <1>1, <1>2, <1>5
    DEF RequireAvailable, ConsumeRefused, ConsumeFails, Failed, Succeeded, store
<1>6. ASSUME NEW r \in Request, Consume(r) PROVE Dispatched'
    <2>1. Goes(r, "paired") /\ UNCHANGED <<call, granted, barred>> /\ devices \subseteq devices'
        BY <1>6 DEF Consume
    <2> QED BY <1>2, <2>1, DispatchedKept
<1>7. ASSUME NEW r \in Request, RequireDevice(r) PROVE Dispatched'
    <2>1. UNCHANGED <<call, devices, granted, barred>> BY <1>7 DEF RequireDevice, store
    <2>2. PICK d \in Live(devices) :
            /\ d.id = call[r].phone
            /\ Goes(r, IF call[r].kind = "forget" THEN "known"
                       ELSE IF RouteAllowed(d.mode, call[r].route) THEN "dispatching"
                       ELSE "leaving")
        BY <1>7 DEF RequireDevice
    <2>3. d \in devices /\ ~d.ended BY DEF Live
    <2>4. call[r].phone \notin barred[r] BY <2>2, <2>3 DEF Phones, BarredEnded
    <2>5. d.mode = granted[d.from] BY <2>3 DEF Phones, CodesSpent
    <2>6. phase'[r] = "dispatching" => RouteAllowed(granted[d.from], call[r].route)
        BY <2>2, <2>5 DEF Goes, TypeOK
    <2>7. \A q \in Request : q # r => phase'[q] = phase[q] BY <2>2 DEF Goes, TypeOK
    <2> QED BY <2>1, <2>2, <2>3, <2>4, <2>6, <2>7 DEF Dispatched
<1>8. ASSUME NEW r \in Request, Dispatch(r) PROVE Dispatched'
    BY <1>1, <1>2, <1>8 DEF Dispatch, store
<1>9. ASSUME NEW n, devices' = Revoked(n), UNCHANGED granted,
             \A q \in Request : phase'[q] = "dispatching" =>
                phase[q] = "dispatching" /\ call'[q] = call[q] /\ barred'[q] = barred[q]
      PROVE  Dispatched'
    <2>1. \A d \in devices : \E e \in devices' :
            e.id = d.id /\ e.from = d.from /\ e.mode = d.mode
        BY <1>9, RevokedKeeps DEF Phones, DevicesNumbered
    <2> QED BY <1>9, <2>1, DispatchedKept
<1>10. ASSUME NEW r \in Request, Forget(r) PROVE Dispatched'
    BY <1>2, <1>9, <1>10 DEF Forget
<1>11. ASSUME NEW d \in Live(devices), EndDevice(d) PROVE Dispatched'
    BY <1>9, <1>11 DEF EndDevice
<1>12. ASSUME NEW c \in Code, NEW m \in Mode, CreatePairing(c, m) PROVE Dispatched'
    <2>1. \A n \in Nat \ {0} : n <= Len(granted) => granted'[n] = granted[n]
        BY <1>12 DEF CreatePairing, TypeOK
    <2>2. \A d \in devices : granted'[d.from] = granted[d.from]
        BY <2>1 DEF TypeOK, Phones, CodesSpent
    <2>3. UNCHANGED <<devices, phase, call, barred>> BY <1>12 DEF CreatePairing
    <2> QED BY <2>2, <2>3, DispatchedKept
<1>13. CASE UNCHANGED <<devices, granted, phase, call, barred>> BY <1>1, <1>13
<1>14. CASE Aside
    BY <1>11, <1>12, <1>13, <1>14 DEF Aside, PairingExpires, FailureAges, store
<1>15. CASE UNCHANGED vars BY <1>13, <1>15 DEF vars
<1> QED BY <1>3, <1>4, <1>5, <1>6, <1>7, <1>8, <1>10, <1>14, <1>15, NextIs

-----------------------------------------------------------------------------
(* The invariant.                                                          *)

LEMMA InvInit ==
    ASSUME ConstantsAssumption, Init
    PROVE  Inv
<1>1. Permits \in Nat \ {0} /\ PairFailures \in Nat \ {0} BY DEF ConstantsAssumption
<1>2. TypeOK
    <2>1. granted = <<>> BY DEF Init
    <2> QED BY <1>1, <2>1 DEF Init, TypeOK, Phase
<1>3. CallsFit BY DEF Init, CallsFit
<1>4. Holders = {} /\ \A a \in Address : Guessing(a) = {} BY DEF Init, Holders, Guessing
<1>5. Cardinality({}) = 0 /\ IsFiniteSet({}) BY FS_EmptySet
<1>6. Accounted BY <1>1, <1>4, <1>5 DEF Init, Accounted
<1>7. Budgeted
    <2>1. \A a \in Address : failures[a] = 0 BY DEF Init
    <2> QED BY <1>1, <1>4, <1>5, <2>1 DEF Budgeted
<1>8. DevicesNumbered /\ CodesSpent /\ BarredEnded /\ Dispatched
    BY <1>5 DEF Init, DevicesNumbered, CodesSpent, Live, BarredEnded, Dispatched
<1> QED BY <1>2, <1>3, <1>6, <1>7, <1>8 DEF Inv

LEMMA InvStep ==
    ASSUME ConstantsAssumption, Inv, [Next]_vars
    PROVE  Inv'
<1>1. TypeOK' BY TypeStep DEF Inv, DevicesNumbered
<1>2. CallsFit' BY CallsStep DEF Inv
<1>3. Accounted' BY AccountedStep DEF Inv
<1>4. Budgeted' BY <1>1, <1>3, BudgetStep DEF Inv
<1>5. Phones /\ Phones' BY PhonesStep DEF Inv, Phones
<1>6. Dispatched' BY <1>5, DispatchedStep DEF Inv
<1> QED BY <1>1, <1>2, <1>3, <1>4, <1>5, <1>6 DEF Inv, Phones

LEMMA InvMeans ==
    ASSUME ConstantsAssumption, Inv
    PROVE  TypeOK /\ GuessesAreBounded /\ PhonesActAsPaired
<1>1. ASSUME NEW a \in Address
      PROVE  failures[a] + Cardinality({r \in Guessing(a) : phase[r] = "refused"})
                < PairFailures + Permits
    <2> DEFINE told == {r \in Guessing(a) : phase[r] = "refused"}
    <2>1. IsFiniteSet(Guessing(a)) /\ Cardinality(Guessing(a)) \in Nat BY GuessingCount
    <2>2. told \subseteq Guessing(a) OBVIOUS
    <2> HIDE DEF told
    <2>3. Cardinality(told) <= Cardinality(Guessing(a)) /\ Cardinality(told) \in Nat
        BY <2>1, <2>2, FS_Subset, FS_CardinalityType
    <2>4. failures[a] + Cardinality(told) < PairFailures + Permits
        BY <2>1, <2>3 DEF Inv, Budgeted, TypeOK, ConstantsAssumption
    <2> QED BY <2>4 DEF told
<1>2. GuessesAreBounded BY <1>1 DEF GuessesAreBounded
<1>3. PhonesActAsPaired BY DEF Inv, CodesSpent, Dispatched, PhonesActAsPaired
<1> QED BY <1>2, <1>3 DEF Inv

\* Every reachable state of the listener, the limiter and the store is well
\* typed.
THEOREM TypeCorrect == Spec => []TypeOK
<1>1. Init => Inv BY InvInit, ConstantsAssumption
<1>2. Inv /\ [Next]_vars => Inv' BY InvStep, ConstantsAssumption
<1>3. Inv => TypeOK BY DEF Inv
<1> QED BY <1>1, <1>2, <1>3, PTL DEF Spec

\* However many requests try codes at once, the wrong codes of an address stay
\* below the sum of the limiter's and the listener's limit.
THEOREM GuessesBounded == Spec => []GuessesAreBounded
<1>1. Init => Inv BY InvInit, ConstantsAssumption
<1>2. Inv /\ [Next]_vars => Inv' BY InvStep, ConstantsAssumption
<1>3. Inv => GuessesAreBounded BY InvMeans, ConstantsAssumption
<1> QED BY <1>1, <1>2, <1>3, PTL DEF Spec

\* A code makes one phone, in the mode the Owner chose, and nothing is
\* dispatched for a phone beyond that mode or after its access had ended.
THEOREM PhonesPaired == Spec => []PhonesActAsPaired
<1>1. Init => Inv BY InvInit, ConstantsAssumption
<1>2. Inv /\ [Next]_vars => Inv' BY InvStep, ConstantsAssumption
<1>3. Inv => PhonesActAsPaired BY InvMeans, ConstantsAssumption
<1> QED BY <1>1, <1>2, <1>3, PTL DEF Spec

\* Permits are neither lost nor made, however threads start, fail and end: what
\* the listener has not got, its open requests hold.
THEOREM PermitsAccounted == Spec => []Accounted
<1>1. Init => Inv BY InvInit, ConstantsAssumption
<1>2. Inv /\ [Next]_vars => Inv' BY InvStep, ConstantsAssumption
<1>3. Inv => Accounted BY DEF Inv
<1> QED BY <1>1, <1>2, <1>3, PTL DEF Spec
=============================================================================
