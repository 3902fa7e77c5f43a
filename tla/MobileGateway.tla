----------------------------- MODULE MobileGateway -----------------------------
(***************************************************************************)
(* The gateway for paired phones: the listener of bounded_http.py, the     *)
(* handler and the attempt limiter of mobile_gateway.py, and the pairing   *)
(* codes and devices of mobile_access.py.                                  *)
(*                                                                         *)
(* One thread accepts connections, waits for the TLS handshake of each and *)
(* takes a permit for it; the thread it starts gives the permit back.  The *)
(* limiter and the store have a lock each, so a pairing request asks the   *)
(* limiter, tries its code and tells the limiter in three steps, and a     *)
(* request of a phone is checked in one step and served in a later one.    *)
(* The Owner uses the other listener.                                      *)
(***************************************************************************)
EXTENDS Naturals, Sequences, FiniteSets

CONSTANTS
    Request,        \* connections, each of which may be used again and again
    Address, Code,
    Permits,        \* max_concurrent_requests
    PairFailures,   \* PAIR_FAILURE_LIMIT
    ActivePairings, ActiveDevices,
    AllDevices,     \* devices the validator accepts, ended ones included
    MaxPairings     \* bound on the pairings the Owner creates

ASSUME ConstantsAssumption ==
    /\ IsFiniteSet(Request)
    /\ {Permits, PairFailures} \subseteq Nat \ {0}
    /\ {ActivePairings, ActiveDevices, AllDevices, MaxPairings} \subseteq Nat

VARIABLES
    free,       \* permits of the semaphore
    phase,      \* how far a request is
    call,       \* what it asks for
    failures,   \* wrong codes of an address in the window
    pairings,   \* codes of the Owner; ended is used or expired
    devices,    \* phones; ended is revoked or expired
    \* History
    granted,    \* the mode the Owner chose for each pairing
    barred      \* phones whose access had ended when a request began

store == <<pairings, devices>>
vars  == <<free, phase, call, failures, pairings, devices, granted, barred>>

Mode  == {"learning", "full_role"}
Phase == {"none", "shaking", "starting", "running", "asked", "refused", "paired",
          "known", "dispatching", "leaving"}

Call ==
    [kind : {"pair"}, from : Address, code : Code]
        \cup [kind : {"route"}, phone : 1 .. AllDevices,
              route : {"personal", "role", "client"}]
        \cup [kind : {"forget"}, phone : 1 .. AllDevices]

Idle == [kind |-> "none"]

Live(S) == {x \in S : ~x.ended}

Ended(x) == [x EXCEPT !.ended = TRUE]

Init ==
    /\ free = Permits
    /\ phase = [r \in Request |-> "none"]
    /\ call = [r \in Request |-> Idle]
    /\ failures = [a \in Address |-> 0]
    /\ pairings = {} /\ devices = {}
    /\ granted = <<>>
    /\ barred = [r \in Request |-> {}]

-----------------------------------------------------------------------------
(* The listener.                                                           *)

\* A BoundedSemaphore raises when it is released too often.
Released == IF free < Permits THEN free + 1 ELSE free

Goes(r, to) == phase' = [phase EXCEPT ![r] = to]

\* The accepting thread is at no connection.
Accepting == \A r \in Request : phase[r] \notin {"shaking", "starting"}

\* The listening socket is the TLS socket, so the accepting thread does the
\* handshake, before process_request gives the connection its timeout.
Accept(r) ==
    /\ phase[r] = "none" /\ Accepting
    /\ Goes(r, "shaking")
    /\ UNCHANGED <<free, call, failures, store, granted, barred>>

\* The handshake fails, or there is no permit for the connection.
TurnedAway(r) ==
    /\ phase[r] = "shaking"
    /\ Goes(r, "none")
    /\ UNCHANGED <<free, call, failures, store, granted, barred>>

Admit(r) ==
    /\ phase[r] = "shaking"
    /\ free > 0
    /\ free' = free - 1
    /\ Goes(r, "starting")
    /\ UNCHANGED <<call, failures, store, granted, barred>>

Start(r, c) ==
    /\ phase[r] = "starting"
    /\ Goes(r, "running")
    /\ call' = [call EXCEPT ![r] = c]
    /\ barred' = [barred EXCEPT ![r] = {d.id : d \in {e \in devices : e.ended}}]
    /\ UNCHANGED <<free, failures, store, granted>>

\* The permit is given back by threads that started only.
StartFailsUnreleased(r) ==
    /\ phase[r] = "starting"
    /\ Goes(r, "none")
    /\ UNCHANGED <<free, call, failures, store, granted, barred>>

\* No thread can be started: the accepting thread gives the permit back.
StartFails(r) ==
    /\ phase[r] = "starting"
    /\ free' = Released
    /\ Goes(r, "none")
    /\ UNCHANGED <<call, failures, store, granted, barred>>

Leave(r) ==
    /\ phase[r] = "leaving"
    /\ free' = Released
    /\ Goes(r, "none")
    /\ call' = [call EXCEPT ![r] = Idle]
    /\ barred' = [barred EXCEPT ![r] = {}]
    /\ UNCHANGED <<failures, store, granted>>

\* A request that changes nothing: the interface, a malformed or foreign
\* request, a connection that times out.
EndsEarly(r) ==
    /\ phase[r] = "running"
    /\ Goes(r, "leaving")
    /\ UNCHANGED <<free, call, failures, store, granted, barred>>

-----------------------------------------------------------------------------
(* Pairing a phone.                                                        *)

\* One wrong code more.
RequireAvailableLate(r) ==
    /\ phase[r] = "running" /\ call[r].kind = "pair"
    /\ Goes(r, IF failures[call[r].from] <= PairFailures THEN "asked" ELSE "leaving")
    /\ UNCHANGED <<free, call, failures, store, granted, barred>>

RequireAvailable(r) ==
    /\ phase[r] = "running" /\ call[r].kind = "pair"
    /\ Goes(r, IF failures[call[r].from] < PairFailures THEN "asked" ELSE "leaving")
    /\ UNCHANGED <<free, call, failures, store, granted, barred>>

Matching(c) == {p \in Live(pairings) : p.code = c}

\* A phone may be added, and the document with it be saved.
RoomForDevice ==
    /\ Cardinality(Live(devices)) < ActiveDevices
    /\ Cardinality(devices) < AllDevices

\* A code that stays open.
ConsumeKeepsCode(r) ==
    /\ phase[r] = "asked"
    /\ RoomForDevice
    /\ \E p \in Matching(call[r].code) :
        /\ \A q \in Matching(call[r].code) : p.id <= q.id
        /\ devices' = devices \cup {[id |-> Cardinality(devices) + 1, from |-> p.id,
                                     mode |-> p.mode, ended |-> FALSE]}
    /\ Goes(r, "paired")
    /\ UNCHANGED <<free, call, failures, pairings, granted, barred>>

\* Of several open pairings with the code, the oldest is used up.
Consume(r) ==
    /\ phase[r] = "asked"
    /\ RoomForDevice
    /\ \E p \in Matching(call[r].code) :
        /\ \A q \in Matching(call[r].code) : p.id <= q.id
        /\ pairings' = (pairings \ {p}) \cup {Ended(p)}
        /\ devices' = devices \cup {[id |-> Cardinality(devices) + 1, from |-> p.id,
                                     mode |-> p.mode, ended |-> FALSE]}
    /\ Goes(r, "paired")
    /\ UNCHANGED <<free, call, failures, granted, barred>>

\* The code is wrong, there is no room, or the phone's label is refused.
ConsumeRefused(r) ==
    /\ phase[r] = "asked"
    /\ Goes(r, "refused")
    /\ UNCHANGED <<free, call, failures, store, granted, barred>>

\* An exception that _pair does not take for a wrong code.
ConsumeFails(r) ==
    /\ phase[r] = "asked"
    /\ Goes(r, "leaving")
    /\ UNCHANGED <<free, call, failures, store, granted, barred>>

Failed(r) ==
    /\ phase[r] = "refused"
    /\ failures' = [failures EXCEPT ![call[r].from] = @ + 1]
    /\ Goes(r, "leaving")
    /\ UNCHANGED <<free, call, store, granted, barred>>

Succeeded(r) ==
    /\ phase[r] = "paired"
    /\ failures' = [failures EXCEPT ![call[r].from] = 0]
    /\ Goes(r, "leaving")
    /\ UNCHANGED <<free, call, store, granted, barred>>

-----------------------------------------------------------------------------
(* Requests of a phone.                                                    *)

\* What mobile_route_allowed says of the classes of routes.
RouteAllowed(m, route) ==
    /\ route # "client"
    /\ \/ m = "full_role"
       \/ m = "learning" /\ route = "personal"

RequireDevice(r) ==
    /\ phase[r] = "running" /\ call[r].kind \in {"route", "forget"}
    /\ \E d \in Live(devices) :
        /\ d.id = call[r].phone
        /\ Goes(r, IF call[r].kind = "forget" THEN "known"
                   ELSE IF RouteAllowed(d.mode, call[r].route) THEN "dispatching"
                   ELSE "leaving")
    /\ UNCHANGED <<free, call, failures, store, granted, barred>>

\* The service handles the request and the answer is sent.
Dispatch(r) ==
    /\ phase[r] = "dispatching"
    /\ Goes(r, "leaving")
    /\ UNCHANGED <<free, call, failures, store, granted, barred>>

Revoked(n) == {IF d.id = n THEN Ended(d) ELSE d : d \in devices}

Forget(r) ==
    /\ phase[r] = "known"
    /\ devices' = Revoked(call[r].phone)
    /\ Goes(r, "leaving")
    /\ UNCHANGED <<free, call, failures, pairings, granted, barred>>

-----------------------------------------------------------------------------
(* The Owner, and time.                                                    *)

CreatePairing(c, m) ==
    /\ Len(granted) < MaxPairings
    /\ Cardinality(Live(pairings)) < ActivePairings
    /\ pairings' = Live(pairings) \cup {[id |-> Len(granted) + 1, code |-> c,
                                         mode |-> m, ended |-> FALSE]}
    /\ granted' = Append(granted, m)
    /\ UNCHANGED <<free, phase, call, failures, devices, barred>>

\* The Owner revokes a phone, or its thirty days are over.
EndDevice(d) ==
    /\ devices' = Revoked(d.id)
    /\ UNCHANGED <<free, phase, call, failures, pairings, granted, barred>>

PairingExpires(p) ==
    /\ pairings' = (pairings \ {p}) \cup {Ended(p)}
    /\ UNCHANGED <<free, phase, call, failures, devices, granted, barred>>

\* The oldest wrong code of an address leaves the window.
FailureAges(a) ==
    /\ failures[a] > 0
    /\ failures' = [failures EXCEPT ![a] = @ - 1]
    /\ UNCHANGED <<free, phase, call, store, granted, barred>>

-----------------------------------------------------------------------------
Handle(r) ==
    \/ \E c \in Call : Start(r, c)
    \/ StartFails(r) \/ EndsEarly(r)
    \/ RequireAvailable(r) \/ Consume(r) \/ ConsumeRefused(r) \/ ConsumeFails(r)
    \/ Failed(r) \/ Succeeded(r)
    \/ RequireDevice(r) \/ Dispatch(r) \/ Forget(r)
    \/ Leave(r)

Next ==
    \/ \E r \in Request : Accept(r) \/ TurnedAway(r) \/ Admit(r) \/ Handle(r)
    \/ \E c \in Code, m \in Mode : CreatePairing(c, m)
    \/ \E d \in Live(devices) : EndDevice(d)
    \/ \E p \in Live(pairings) : PairingExpires(p)
    \/ \E a \in Address : FailureAges(a)

Spec == Init /\ [][Next]_vars

\* A handler goes on: reads and writes of its socket time out, locks are held
\* for one operation of a store, and nothing else waits.  Nothing is fair of
\* the handshake, which has no timeout.
FairSpec == Spec /\ \A r \in Request : WF_vars(Handle(r))

-----------------------------------------------------------------------------
(* Properties.                                                             *)

TypeOK ==
    /\ free \in 0 .. Permits
    /\ phase \in [Request -> Phase]
    /\ call \in [Request -> Call \cup {Idle}]
    /\ failures \in [Address -> Nat]
    /\ pairings \subseteq [id : Nat \ {0}, code : Code, mode : Mode, ended : BOOLEAN]
    /\ devices \subseteq [id : Nat \ {0}, from : Nat \ {0}, mode : Mode, ended : BOOLEAN]
    /\ granted \in Seq(Mode)
    /\ barred \in [Request -> SUBSET Nat]

\* Requests of an address that passed the limiter and have not told it.
Guessing(a) ==
    {r \in Request : phase[r] \in {"asked", "refused", "paired"} /\ call[r].from = a}

\* The limiter is asked before a code is tried and told after it, so requests
\* of one address may exceed its limit, but only by as many as the listener
\* admits beside the one that still found room: wrong codes of the window,
\* told or not, stay below the sum of the two limits.
GuessesAreBounded ==
    \A a \in Address :
        failures[a] + Cardinality({r \in Guessing(a) : phase[r] = "refused"})
            < PairFailures + Permits

\* A phone acts as what the Owner paired: a code makes one phone, in the mode
\* chosen for it, and what is dispatched for a phone is open to that mode and
\* was asked for before its access was revoked or had expired.
PhonesActAsPaired ==
    /\ \A d, e \in devices : d.from = e.from => d = e
    /\ \A r \in Request : phase[r] = "dispatching" =>
        /\ call[r].phone \notin barred[r]
        /\ \E d \in devices :
            /\ d.id = call[r].phone
            /\ RouteAllowed(granted[d.from], call[r].route)

\* However requests end, refused, failing to start or breaking off, the
\* listener is ready to admit again and again, permits and thread.  One thing
\* alone may stop it: a client that falls silent in its handshake.
ListenerAdmitsAgain ==
    \/ []<>(free > 0 /\ Accepting)
    \/ \E r \in Request : <>[](phase[r] = "shaking")
=============================================================================
