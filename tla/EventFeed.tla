------------------------------- MODULE EventFeed -------------------------------
(***************************************************************************)
(* What the event stream promises the local apps (PLATFORM_SDK.md, Event   *)
(* stream): events are numbered in the order of their publication; an app  *)
(* that resumes at its cursor is given the events it subscribed to, each   *)
(* once and in order.  Only an app that has fallen behind by more events   *)
(* than the store keeps may miss some.                                     *)
(***************************************************************************)
EXTENDS Naturals, Sequences

CONSTANTS App, Type, Kept

VARIABLES
    stream,     \* the types of all events, in the order of their numbers
    subscribed, \* what an app is to be told of
    cursor,     \* how far an app has read
    got         \* the numbers of the events it was given

vars == <<stream, subscribed, cursor, got>>

\* The events an app is to be given between two positions.
Due(a, from, to) == {n \in from + 1 .. to : stream[n] \in subscribed[a]}

Recent == {n \in 1 .. Len(stream) : n + Kept > Len(stream)}

Init ==
    /\ stream = <<>>
    /\ subscribed \in [App -> SUBSET Type]
    /\ cursor = [a \in App |-> 0]
    /\ got = [a \in App |-> {}]

Publish(t) ==
    /\ stream' = Append(stream, t)
    /\ UNCHANGED <<subscribed, cursor, got>>

Deliver(a) ==
    \E to \in cursor[a] .. Len(stream) : \E D \in SUBSET Due(a, cursor[a], to) :
        /\ Due(a, cursor[a], to) \cap Recent \subseteq D
        /\ cursor' = [cursor EXCEPT ![a] = to]
        /\ got' = [got EXCEPT ![a] = @ \cup D]
        /\ UNCHANGED <<stream, subscribed>>

Next == (\E t \in Type : Publish(t)) \/ (\E a \in App : Deliver(a))

Spec == Init /\ [][Next]_vars
-----------------------------------------------------------------------------
(* What follows for an app.                                                *)

\* An event is given at most once, and after every event with a lower number.
OnceInOrder == [][\A a \in App : \A m \in got[a], n \in got'[a] \ got[a] : m < n]_vars

\* An app is given only what it subscribed to, up to its cursor, and, as long as
\* no event has been dropped, all of it.
Complete ==
    \A a \in App : /\ got[a] \subseteq Due(a, 0, cursor[a])
                   /\ Len(stream) <= Kept => got[a] = Due(a, 0, cursor[a])

\* An app that asks before it is more than Kept events behind misses nothing.
NothingMissedInTime ==
    [][\A a \in App : cursor[a] + Kept >= Len(stream) =>
          got'[a] = got[a] \cup Due(a, cursor[a], cursor'[a])]_vars
=============================================================================
