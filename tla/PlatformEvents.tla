---------------------------- MODULE PlatformEvents ----------------------------
(***************************************************************************)
(* The event log of platform_events.py and the local apps of               *)
(* platform_clients.py that read it (api.py, /v1/platform).                *)
(*                                                                         *)
(* A request changes its own store first and publishes after it, so an     *)
(* event may be lost but is never ahead of its cause.  Publishing holds    *)
(* the lock of the log; reading takes no lock, and an app is authenticated *)
(* by one read of the clients before another read of the log.              *)
(***************************************************************************)
EXTENDS Naturals, Sequences, FiniteSets

CONSTANTS
    App,            \* the registrations the Owner may make
    Type,           \* EVENT_TYPES
    Limit,          \* events of one answer
    Kept,           \* MAX_EVENTS
    MaxEvents,      \* bound on the events published
    MaxSecrets      \* bound on the secrets an app has one after another

ASSUME ConstantsAssumption ==
    /\ {Limit, Kept} \subseteq Nat \ {0}
    /\ {MaxEvents, MaxSecrets} \subseteq Nat

VARIABLES
    next, log,      \* the saved document
    subscribed,     \* event_types of an app, chosen when it is created
    secret,         \* the generation of its valid secret, 0 before the first
    active,
    \* The app
    key,            \* the generation of the secret it uses
    cursor,
    asked,          \* "no", "sent" or "known" to the API
    doomed,         \* its request was sent with a secret that was no longer valid
    \* History
    stream,         \* the types of all events published
    got             \* the numbers of the events an app was given

clients == <<subscribed, secret, active>>
vars    == <<next, log, subscribed, secret, active, key, cursor, asked, doomed,
             stream, got>>

Init ==
    /\ next = 1 /\ log = {}
    /\ subscribed \in [App -> SUBSET Type]
    /\ secret = [a \in App |-> 0]
    /\ active = {}
    /\ key = [a \in App |-> 0]
    /\ cursor = [a \in App |-> 0]
    /\ asked = [a \in App |-> "no"]
    /\ doomed = {}
    /\ stream = <<>>
    /\ got = [a \in App |-> {}]

-----------------------------------------------------------------------------
(* The log.                                                                *)

\* The newest of a set of events.
Newest(S) == {e \in S : Cardinality({f \in S : f.seq > e.seq}) < Kept}

\* An unsupported type, an unsafe detail or a failing save changes nothing
\* and is not reported to the caller of the route.
Publish(t) ==
    /\ Len(stream) < MaxEvents
    /\ log' = Newest(log \cup {[seq |-> next, type |-> t]})
    /\ next' = next + 1
    /\ stream' = Append(stream, t)
    /\ UNCHANGED <<clients, key, cursor, asked, doomed, got>>

\* The last events instead of the first.
AnswerNewest(a) ==
    LET fresh == {e \in log : e.seq > cursor[a] /\ e.type \in subscribed[a]} IN
    {e \in fresh : Cardinality({f \in fresh : f.seq > e.seq}) < Limit}

\* The first events of an app after its cursor.
Answer(a) ==
    LET fresh == {e \in log : e.seq > cursor[a] /\ e.type \in subscribed[a]} IN
    {e \in fresh : Cardinality({f \in fresh : f.seq < e.seq}) < Limit}

LastOf(S, otherwise) ==
    IF S = {} THEN otherwise ELSE CHOOSE n \in S : \A m \in S : m <= n

-----------------------------------------------------------------------------
(* The Owner's routes.                                                     *)

Create(a) ==
    /\ secret[a] = 0
    /\ secret' = [secret EXCEPT ![a] = 1]
    /\ active' = active \cup {a}
    /\ UNCHANGED <<next, log, subscribed, key, cursor, asked, doomed, stream, got>>

Rotate(a) ==
    /\ a \in active /\ secret[a] < MaxSecrets
    /\ secret' = [secret EXCEPT ![a] = @ + 1]
    /\ UNCHANGED <<next, log, subscribed, active, key, cursor, asked, doomed, stream, got>>

Revoke(a) ==
    /\ secret[a] > 0
    /\ active' = active \ {a}
    /\ UNCHANGED <<next, log, subscribed, secret, key, cursor, asked, doomed, stream, got>>

\* The Owner gives the app the secret that the API has shown once.
Install(a) ==
    /\ asked[a] = "no" /\ key[a] < secret[a]
    /\ key' = [key EXCEPT ![a] = secret[a]]
    /\ UNCHANGED <<next, log, clients, cursor, asked, doomed, stream, got>>

-----------------------------------------------------------------------------
(* A request of an app.                                                    *)

Valid(a) == a \in active /\ key[a] = secret[a]

Send(a) ==
    /\ asked[a] = "no" /\ key[a] > 0
    /\ asked' = [asked EXCEPT ![a] = "sent"]
    /\ doomed' = IF Valid(a) THEN doomed \ {a} ELSE doomed \cup {a}
    /\ UNCHANGED <<next, log, clients, key, cursor, stream, got>>

\* Any secret the app ever had is accepted.
RequireAny(a) ==
    /\ asked[a] = "sent"
    /\ asked' = [asked EXCEPT ![a] = IF a \in active THEN "known" ELSE "no"]
    /\ UNCHANGED <<next, log, clients, key, cursor, doomed, stream, got>>

Require(a) ==
    /\ asked[a] = "sent"
    /\ asked' = [asked EXCEPT ![a] = IF Valid(a) THEN "known" ELSE "no"]
    /\ UNCHANGED <<next, log, clients, key, cursor, doomed, stream, got>>

Read(a) ==
    /\ asked[a] = "known"
    /\ LET seqs == {e.seq : e \in Answer(a)} IN
        /\ cursor' = [cursor EXCEPT ![a] = LastOf(seqs, @)]
        /\ got' = [got EXCEPT ![a] = @ \cup seqs]
    /\ asked' = [asked EXCEPT ![a] = "no"]
    /\ UNCHANGED <<next, log, clients, key, doomed, stream>>

\* A request that fails or whose answer is lost is sent again with the same
\* cursor.
Lost(a) ==
    /\ asked[a] # "no"
    /\ asked' = [asked EXCEPT ![a] = "no"]
    /\ UNCHANGED <<next, log, clients, key, cursor, doomed, stream, got>>

-----------------------------------------------------------------------------
Next ==
    \/ \E t \in Type : Publish(t)
    \/ \E a \in App :
        \/ Create(a) \/ Rotate(a) \/ Revoke(a) \/ Install(a)
        \/ Send(a) \/ Require(a) \/ Read(a) \/ Lost(a)

Spec == Init /\ [][Next]_vars

-----------------------------------------------------------------------------
(* Properties.                                                             *)

TypeOK ==
    /\ next \in Nat \ {0}
    /\ log \subseteq [seq : Nat \ {0}, type : Type]
    /\ subscribed \in [App -> SUBSET Type]
    /\ secret \in [App -> Nat]
    /\ active \subseteq App
    /\ key \in [App -> Nat]
    /\ cursor \in [App -> Nat]
    /\ asked \in [App -> {"no", "sent", "known"}]
    /\ doomed \subseteq App
    /\ stream \in Seq(Type)
    /\ got \in [App -> SUBSET Nat]

\* What an app has been given is what the feed promises: every event it
\* subscribed to up to its cursor, each once, except those that the store
\* dropped before the app asked, because it was Kept events behind.
Feed == INSTANCE EventFeed
ImplementsEventFeed == Feed!Spec

\* "Rotation immediately invalidates the old secret. Revocation disables the
\* client" (PLATFORM_SDK.md:37): a request sent after either is not served,
\* whatever the two unlocked reads of a request overlap with.
OldSecretsAreDead == \A a \in App : asked[a] = "known" => a \notin doomed
=============================================================================
