------------------------- MODULE PlatformEvents_proofs -------------------------
(***************************************************************************)
(* Proofs about PlatformEvents, for any apps, types of events and limits:  *)
(* a request sent with a dead secret is never served, and what the apps    *)
(* are given implements EventFeed.                                         *)
(*                                                                         *)
(* The first rests on secrets being numbered upwards and a secret's app    *)
(* being created once, so that what is invalid stays invalid.  The second  *)
(* rests on the log being exactly the Kept newest events of the stream.    *)
(***************************************************************************)
EXTENDS PlatformEvents, FiniteSetTheorems, FunctionTheorems, WellFoundedInduction, TLAPS

\* The log holds the newest events, and the next number follows the last.
EventOf(n) == [seq |-> n, type |-> stream[n]]

LogIsRecent ==
    /\ next = Len(stream) + 1
    /\ log = {EventOf(n) : n \in Feed!Recent}

CursorsAreBehind == \A a \in App : cursor[a] <= Len(stream)

SecretsGrow ==
    \A a \in App :
        /\ key[a] <= secret[a]
        /\ a \in active => secret[a] > 0
        /\ asked[a] # "no" => key[a] > 0
        /\ asked[a] = "sent" /\ a \in doomed => ~Valid(a)

Inv == TypeOK /\ LogIsRecent /\ CursorsAreBehind /\ SecretsGrow /\ OldSecretsAreDead

-----------------------------------------------------------------------------
(* Sizes and bounds of sets of events.                                     *)

\* A set of events with one for each number of a segment has its size.
LEMMA SegmentSize ==
    ASSUME NEW a \in Nat, NEW b \in Nat, a <= b, NEW E,
           \A e \in E : e.seq \in a + 1 .. b,
           \A n \in a + 1 .. b : \E e \in E : e.seq = n,
           \A e, f \in E : e.seq = f.seq => e = f
    PROVE  IsFiniteSet(E) /\ Cardinality(E) = b - a
<1> DEFINE I == a + 1 .. b
           g == [e \in E |-> e.seq]
<1>1. IsFiniteSet(I) /\ Cardinality(I) = b - a
    <2>1. a + 1 \in Int /\ b \in Int OBVIOUS
    <2>2. IsFiniteSet(I) /\ Cardinality(I) = IF a + 1 > b THEN 0 ELSE b - (a + 1) + 1
        BY <2>1, FS_Interval
    <2> QED BY <2>2
<1>2. g \in Bijection(E, I)
    <2>1. g \in [E -> I] OBVIOUS
    <2>2. \A e, f \in E : g[e] = g[f] => e = f OBVIOUS
    <2>3. \A n \in I : \E e \in E : g[e] = n OBVIOUS
    <2> HIDE DEF g, I
    <2>4. g \in Injection(E, I) BY <2>1, <2>2, Fun_IsInj
    <2>5. g \in Surjection(E, I) BY <2>1, <2>3, Fun_IsSurj
    <2> QED BY <2>4, <2>5, Fun_IsBij
<1>3. ExistsBijection(I, E) BY <1>2, Fun_ExistsBij, Fun_ExistsBijSymmetric
<1> QED BY <1>1, <1>3, FS_Bijection

\* A set of numbers with a bound has a last one.
LEMMA LastExists ==
    ASSUME NEW S \in SUBSET Nat, NEW b \in Nat, \A n \in S : n <= b, S # {}
    PROVE  \E n \in S : \A m \in S : m <= n
<1> DEFINE T == {b - n : n \in S}
           R == {p \in Nat \X Nat : p[1] < p[2]}
<1>1. IsWellFoundedOn(OpToRel(<, Nat), Nat) BY NatLessThanWellFounded
<1>2. IsWellFoundedOn(R, Nat)
    <2>1. R \cap (Nat \X Nat) \subseteq OpToRel(<, Nat) BY DEF OpToRel
    <2> HIDE DEF R
    <2> QED BY <1>1, <2>1, IsWellFoundedOnSubrelation
<1>3. T \subseteq Nat /\ T # {}
    <2>1. \A n \in S : n \in Nat /\ n <= b OBVIOUS
    <2>2. \A n \in S : b - n \in Nat BY <2>1
    <2> QED BY <2>2
<1>4. PICK x \in T : \A y \in T : <<y, x>> \notin R
    <2> HIDE DEF T, R
    <2> QED BY <1>2, <1>3, WFMin
<1>5. PICK n \in S : x = b - n BY <1>4
<1>6. ASSUME NEW m \in S PROVE m <= n
    <2>1. b - m \in T /\ b - m \in Nat OBVIOUS
    <2>2. ~(b - m < b - n) BY <1>3, <1>4, <1>5, <2>1
    <2>3. m \in Nat /\ n \in Nat OBVIOUS
    <2> QED BY <2>2, <2>3
<1> QED BY <1>6

-----------------------------------------------------------------------------
(* Type correctness.                                                       *)

LEMMA TypePublish ==
    ASSUME ConstantsAssumption, TypeOK, NEW t \in Type, Publish(t)
    PROVE  TypeOK'
<1>1. log' \subseteq [seq : Nat \ {0}, type : Type]
    <2>1. [seq |-> next, type |-> t] \in [seq : Nat \ {0}, type : Type] BY DEF TypeOK
    <2>2. log' \subseteq log \cup {[seq |-> next, type |-> t]} BY DEF Publish, Newest
    <2> QED BY <2>1, <2>2 DEF TypeOK
<1>2. next' \in Nat \ {0} BY DEF TypeOK, Publish
<1>3. stream' \in Seq(Type) BY DEF TypeOK, Publish
<1> QED BY <1>1, <1>2, <1>3 DEF TypeOK, Publish, clients

LEMMA TypeOwner ==
    ASSUME TypeOK, NEW a \in App, Create(a) \/ Rotate(a) \/ Revoke(a) \/ Install(a)
    PROVE  TypeOK'
<1>1. secret' \in [App -> Nat] /\ active' \subseteq App /\ key' \in [App -> Nat]
    <2>1. CASE Create(a) BY <2>1 DEF TypeOK, Create
    <2>2. CASE Rotate(a) BY <2>2 DEF TypeOK, Rotate
    <2>3. CASE Revoke(a) BY <2>3 DEF TypeOK, Revoke
    <2>4. CASE Install(a) BY <2>4 DEF TypeOK, Install, clients
    <2> QED BY <2>1, <2>2, <2>3, <2>4
<1>2. UNCHANGED <<next, log, subscribed, cursor, asked, doomed, stream, got>>
    BY DEF Create, Rotate, Revoke, Install, clients
<1> QED BY <1>1, <1>2 DEF TypeOK

\* What is answered are events of the log with numbers after the cursor, and
\* the cursor goes to one of them or stays.
LEMMA AnswerNumbers ==
    ASSUME ConstantsAssumption, TypeOK, LogIsRecent, CursorsAreBehind, NEW a \in App
    PROVE  LET seqs == {e.seq : e \in Answer(a)} IN
        /\ seqs \subseteq cursor[a] + 1 .. Len(stream)
        /\ \/ seqs = {} /\ LastOf(seqs, cursor[a]) = cursor[a]
           \/ LastOf(seqs, cursor[a]) \in seqs
        /\ \A n \in seqs : n <= LastOf(seqs, cursor[a])
<1> DEFINE seqs == {e.seq : e \in Answer(a)}
           last == LastOf(seqs, cursor[a])
<1>1. cursor[a] \in Nat /\ Len(stream) \in Nat BY DEF TypeOK
<1>2. ASSUME NEW e \in Answer(a)
      PROVE  e.seq \in cursor[a] + 1 .. Len(stream)
    <2>1. e \in log /\ e.seq > cursor[a] BY DEF Answer
    <2>2. e.seq \in 1 .. Len(stream)
        BY <2>1 DEF LogIsRecent, Feed!Recent, EventOf
    <2> QED BY <1>1, <2>1, <2>2
<1>3. seqs \subseteq cursor[a] + 1 .. Len(stream) BY <1>2
<1>4. ASSUME seqs = {} PROVE last = cursor[a] BY <1>4 DEF LastOf
<1>5. ASSUME seqs # {}
      PROVE  last \in seqs /\ \A n \in seqs : n <= last
    <2>1. seqs \in SUBSET Nat /\ \A n \in seqs : n <= Len(stream)
        <3> HIDE DEF seqs
        <3> QED BY <1>1, <1>3
    <2>2. \E n \in seqs : \A m \in seqs : m <= n
        <3> HIDE DEF seqs
        <3> QED BY <1>1, <1>5, <2>1, LastExists
    <2>3. last = CHOOSE n \in seqs : \A m \in seqs : m <= n BY <1>5 DEF LastOf
    <2> HIDE DEF seqs, last
    <2> QED BY <2>2, <2>3
<1> QED BY <1>3, <1>4, <1>5

LEMMA TypeRequest ==
    ASSUME ConstantsAssumption, TypeOK, LogIsRecent, CursorsAreBehind, NEW a \in App,
           Send(a) \/ Require(a) \/ Read(a) \/ Lost(a)
    PROVE  TypeOK' /\ CursorsAreBehind'
<1>1. CASE Send(a) BY <1>1 DEF TypeOK, CursorsAreBehind, Send, clients
<1>2. CASE Require(a) BY <1>2 DEF TypeOK, CursorsAreBehind, Require, clients
<1>3. CASE Lost(a) BY <1>3 DEF TypeOK, CursorsAreBehind, Lost, clients
<1>4. CASE Read(a)
    <2> DEFINE seqs == {e.seq : e \in Answer(a)}
               last == LastOf(seqs, cursor[a])
    <2>1. seqs \subseteq Nat /\ last \in 0 .. Len(stream)
        <3>1. cursor[a] \in 0 .. Len(stream) /\ Len(stream) \in Nat
            BY DEF TypeOK, CursorsAreBehind
        <3>2. seqs \subseteq cursor[a] + 1 .. Len(stream) /\ last \in seqs \cup {cursor[a]}
            BY AnswerNumbers
        <3> HIDE DEF seqs, last
        <3> QED BY <3>1, <3>2
    <2>2. /\ cursor' = [cursor EXCEPT ![a] = last]
          /\ got' = [got EXCEPT ![a] = got[a] \cup seqs]
          /\ asked' = [asked EXCEPT ![a] = "no"]
          /\ UNCHANGED <<next, log, clients, key, doomed, stream>>
        BY <1>4 DEF Read
    <2> HIDE DEF seqs, last
    <2>3. cursor' \in [App -> Nat] /\ CursorsAreBehind'
        BY <2>1, <2>2 DEF TypeOK, CursorsAreBehind
    <2>4. got' \in [App -> SUBSET Nat] BY <2>1, <2>2 DEF TypeOK
    <2>5. asked' \in [App -> {"no", "sent", "known"}] BY <2>2 DEF TypeOK
    <2> QED BY <2>2, <2>3, <2>4, <2>5 DEF TypeOK, clients
<1> QED BY <1>1, <1>2, <1>3, <1>4

LEMMA TypeStep ==
    ASSUME ConstantsAssumption, TypeOK, LogIsRecent, CursorsAreBehind, [Next]_vars
    PROVE  TypeOK'
<1>1. CASE UNCHANGED vars BY <1>1 DEF TypeOK, vars, clients
<1>2. ASSUME NEW t \in Type, Publish(t) PROVE TypeOK' BY <1>2, TypePublish
<1>3. ASSUME NEW a \in App, Create(a) \/ Rotate(a) \/ Revoke(a) \/ Install(a)
      PROVE  TypeOK'
    BY <1>3, TypeOwner
<1>4. ASSUME NEW a \in App, Send(a) \/ Require(a) \/ Read(a) \/ Lost(a)
      PROVE  TypeOK'
    BY <1>4, TypeRequest
<1> QED BY <1>1, <1>2, <1>3, <1>4 DEF Next

-----------------------------------------------------------------------------
(* The log.                                                                *)

\* Of the recent events and a new one, the Kept newest are the recent events
\* of the longer stream.
LEMMA LogPublish ==
    ASSUME ConstantsAssumption, TypeOK, LogIsRecent, NEW t \in Type, Publish(t)
    PROVE  LogIsRecent'
<1> DEFINE L == Len(stream)
           E(n) == [seq |-> n, type |-> stream'[n]]
           R == {n \in 1 .. L + 1 : n = L + 1 \/ n + Kept > L}
           S == {E(n) : n \in R}
<1>1. L \in Nat /\ next = L + 1 /\ Kept \in Nat \ {0}
    BY DEF TypeOK, LogIsRecent, ConstantsAssumption
<1>2. stream' \in Seq(Type) /\ Len(stream') = L + 1 /\ stream'[L + 1] = t
      /\ \A n \in 1 .. L : stream'[n] = stream[n]
    BY DEF Publish, TypeOK
<1>3. log \cup {[seq |-> next, type |-> t]} = S
    <2>1. [seq |-> next, type |-> t] = E(L + 1) BY <1>1, <1>2
    <2>2. log = {E(n) : n \in {m \in 1 .. L : m + Kept > L}}
        BY <1>1, <1>2 DEF LogIsRecent, EventOf, Feed!Recent
    <2>3. R = {m \in 1 .. L : m + Kept > L} \cup {L + 1} BY <1>1
    <2> HIDE DEF R
    <2> QED BY <2>1, <2>2, <2>3
<1>4. ASSUME NEW n \in R
      PROVE  Cardinality({f \in S : f.seq > E(n).seq}) = L + 1 - n
    <2>1. n \in Nat /\ n <= L + 1 BY <1>1
    <2> DEFINE G == {E(m) : m \in n + 1 .. L + 1}
    <2>2. {f \in S : f.seq > E(n).seq} = G
        <3>1. n + 1 .. L + 1 \subseteq R BY <1>1, <2>1
        <3>2. \A m \in R : E(m).seq = m OBVIOUS
        <3>3. \A m \in R : m > n => m \in n + 1 .. L + 1 BY <1>1, <2>1
        <3>4. \A m \in n + 1 .. L + 1 : m > n BY <1>1, <2>1
        <3> HIDE DEF R, E
        <3> QED BY <3>1, <3>2, <3>3, <3>4
    <2>3. L + 1 \in Nat BY <1>1
    <2>4. \A e \in G : e.seq \in n + 1 .. L + 1 OBVIOUS
    <2>5. \A m \in n + 1 .. L + 1 : E(m) \in G /\ E(m).seq = m OBVIOUS
    <2>6. \A e, f \in G : e.seq = f.seq => e = f OBVIOUS
    <2> HIDE DEF L, G, E, R, S
    <2>7. \A m \in n + 1 .. L + 1 : \E e \in G : e.seq = m BY <2>5
    <2>8. Cardinality(G) = L + 1 - n
        <3> DEFINE b == L + 1
        <3>1. b \in Nat /\ n <= b BY <2>1, <2>3
        <3>2. /\ \A e \in G : e.seq \in n + 1 .. b
              /\ \A m \in n + 1 .. b : \E e \in G : e.seq = m
            BY <2>4, <2>7
        <3>3. b = L + 1 OBVIOUS
        <3> HIDE DEF b
        <3>4. Cardinality(G) = b - n BY <2>1, <2>6, <3>1, <3>2, SegmentSize
        <3> QED BY <1>1, <2>1, <3>3, <3>4
    <2> QED BY <2>2, <2>8
<1>5. Newest(S) = {E(n) : n \in {m \in R : L + 1 - m < Kept}}
    <2> HIDE DEF R, E
    <2> QED BY <1>4 DEF Newest
<1>6. {m \in R : L + 1 - m < Kept} = {m \in 1 .. L + 1 : m + Kept > L + 1} BY <1>1
<1>7. log' = Newest(S) /\ next' = L + 2
    <2>1. log' = Newest(log \cup {[seq |-> next, type |-> t]}) /\ next' = next + 1
        BY DEF Publish
    <2>2. next' = L + 2 BY <1>1, <2>1
    <2> HIDE DEF S
    <2>3. log' = Newest(S) BY <1>3, <2>1
    <2> QED BY <2>2, <2>3
<1>8. Feed!Recent' = {m \in 1 .. L + 1 : m + Kept > L + 1} BY <1>2 DEF Feed!Recent
<1>9. log' = {E(n) : n \in Feed!Recent'}
    <2> HIDE DEF R, S, E
    <2> QED BY <1>5, <1>6, <1>7, <1>8
<1> QED BY <1>1, <1>2, <1>7, <1>9 DEF LogIsRecent, EventOf

LEMMA LogStep ==
    ASSUME ConstantsAssumption, TypeOK, LogIsRecent, CursorsAreBehind, [Next]_vars
    PROVE  LogIsRecent' /\ CursorsAreBehind'
<1>1. CASE UNCHANGED <<next, log, stream>> /\ UNCHANGED cursor
    BY <1>1 DEF LogIsRecent, CursorsAreBehind, Feed!Recent, EventOf
<1>2. ASSUME NEW t \in Type, Publish(t) PROVE LogIsRecent' /\ CursorsAreBehind'
    <2>1. Len(stream') = Len(stream) + 1 /\ Len(stream) \in Nat /\ UNCHANGED cursor
        BY <1>2 DEF Publish, TypeOK
    <2>2. CursorsAreBehind' BY <2>1 DEF CursorsAreBehind, TypeOK
    <2> QED BY <1>2, <2>2, LogPublish
<1>3. ASSUME NEW a \in App, Send(a) \/ Require(a) \/ Read(a) \/ Lost(a)
      PROVE  LogIsRecent' /\ CursorsAreBehind'
    <2>1. UNCHANGED <<next, log, stream>> BY <1>3 DEF Send, Require, Read, Lost
    <2>2. LogIsRecent' BY <2>1 DEF LogIsRecent, Feed!Recent, EventOf
    <2> QED BY <1>3, <2>2, TypeRequest
<1>4. ASSUME NEW a \in App, Create(a) \/ Rotate(a) \/ Revoke(a) \/ Install(a)
      PROVE  LogIsRecent' /\ CursorsAreBehind'
    BY <1>1, <1>4 DEF Create, Rotate, Revoke, Install
<1>5. CASE UNCHANGED vars BY <1>1, <1>5 DEF vars
<1> QED BY <1>2, <1>3, <1>4, <1>5 DEF Next

-----------------------------------------------------------------------------
(* Secrets.                                                                *)

LEMMA SecretsStep ==
    ASSUME ConstantsAssumption, TypeOK, SecretsGrow, OldSecretsAreDead, [Next]_vars
    PROVE  SecretsGrow' /\ OldSecretsAreDead'
<1> USE DEF TypeOK, SecretsGrow, OldSecretsAreDead, Valid
<1>1. CASE UNCHANGED <<secret, active, key, asked, doomed>> BY <1>1
<1>2. ASSUME NEW t \in Type, Publish(t) PROVE SecretsGrow' /\ OldSecretsAreDead'
    BY <1>1, <1>2 DEF Publish, clients
<1>3. ASSUME NEW a \in App, Create(a) PROVE SecretsGrow' /\ OldSecretsAreDead'
    BY <1>3 DEF Create
<1>4. ASSUME NEW a \in App, Rotate(a) PROVE SecretsGrow' /\ OldSecretsAreDead'
    BY <1>4 DEF Rotate
<1>5. ASSUME NEW a \in App, Revoke(a) PROVE SecretsGrow' /\ OldSecretsAreDead'
    BY <1>5 DEF Revoke
<1>6. ASSUME NEW a \in App, Install(a) PROVE SecretsGrow' /\ OldSecretsAreDead'
    BY <1>6 DEF Install, clients
<1>7. ASSUME NEW a \in App, Send(a) PROVE SecretsGrow' /\ OldSecretsAreDead'
    BY <1>7 DEF Send, clients
<1>8. ASSUME NEW a \in App, Require(a) PROVE SecretsGrow' /\ OldSecretsAreDead'
    BY <1>8 DEF Require, clients
<1>9. ASSUME NEW a \in App, Read(a) PROVE SecretsGrow' /\ OldSecretsAreDead'
    <2>1. asked' = [asked EXCEPT ![a] = "no"] /\ UNCHANGED <<secret, active, key, doomed>>
        BY <1>9 DEF Read, clients
    <2> QED BY <2>1
<1>10. ASSUME NEW a \in App, Lost(a) PROVE SecretsGrow' /\ OldSecretsAreDead'
    BY <1>10 DEF Lost, clients
<1>11. CASE UNCHANGED vars BY <1>1, <1>11 DEF vars, clients
<1> QED BY <1>2, <1>3, <1>4, <1>5, <1>6, <1>7, <1>8, <1>9, <1>10, <1>11 DEF Next

-----------------------------------------------------------------------------
(* The invariant.                                                          *)

LEMMA InvInit ==
    ASSUME ConstantsAssumption, Init
    PROVE  Inv
<1>1. TypeOK BY DEF Init, TypeOK
<1>2. LogIsRecent
    <2>1. Len(stream) = 0 /\ next = 1 /\ log = {} BY DEF Init
    <2>2. Feed!Recent = {} BY <2>1 DEF Feed!Recent
    <2> QED BY <2>1, <2>2 DEF LogIsRecent
<1>3. CursorsAreBehind BY DEF Init, CursorsAreBehind
<1>4. SecretsGrow /\ OldSecretsAreDead BY DEF Init, SecretsGrow, OldSecretsAreDead
<1> QED BY <1>1, <1>2, <1>3, <1>4 DEF Inv

LEMMA InvStep ==
    ASSUME ConstantsAssumption, Inv, [Next]_vars
    PROVE  Inv'
BY TypeStep, LogStep, SecretsStep DEF Inv

\* Every reachable state of the clients, the log and their readers is well
\* typed.
THEOREM TypeCorrect == Spec => []TypeOK
<1>1. Init => Inv BY InvInit, ConstantsAssumption
<1>2. Inv /\ [Next]_vars => Inv' BY InvStep, ConstantsAssumption
<1>3. Inv => TypeOK BY DEF Inv
<1> QED BY <1>1, <1>2, <1>3, PTL DEF Spec

\* A request that was sent after its secret had been rotated or its app revoked
\* is never served, for any number of apps and secrets.
THEOREM DeadSecrets == Spec => []OldSecretsAreDead
<1>1. Init => Inv BY InvInit, ConstantsAssumption
<1>2. Inv /\ [Next]_vars => Inv' BY InvStep, ConstantsAssumption
<1>3. Inv => OldSecretsAreDead BY DEF Inv
<1> QED BY <1>1, <1>2, <1>3, PTL DEF Spec

-----------------------------------------------------------------------------
(* The refinement.                                                         *)

\* An answer holds every recent event that its app subscribed to, up to the
\* new cursor.
LEMMA AnswerIsComplete ==
    ASSUME ConstantsAssumption, Inv, NEW a \in App,
           NEW n \in Feed!Due(a, cursor[a], LastOf({e.seq : e \in Answer(a)}, cursor[a])),
           n \in Feed!Recent
    PROVE  n \in {e.seq : e \in Answer(a)}
<1> DEFINE seqs == {e.seq : e \in Answer(a)}
           last == LastOf(seqs, cursor[a])
           fresh == {e \in log : e.seq > cursor[a] /\ e.type \in subscribed[a]}
<1>1. n \in cursor[a] + 1 .. last /\ stream[n] \in subscribed[a] BY DEF Feed!Due
<1>2. cursor[a] \in Nat /\ Len(stream) \in Nat /\ Limit \in Nat
    BY DEF Inv, TypeOK, ConstantsAssumption
<1>3. seqs \subseteq cursor[a] + 1 .. Len(stream) /\ last \in seqs
    <2>1. /\ seqs \subseteq cursor[a] + 1 .. Len(stream)
          /\ (seqs = {} /\ last = cursor[a]) \/ last \in seqs
        BY AnswerNumbers DEF Inv
    <2> HIDE DEF seqs, last
    <2> QED BY <1>1, <1>2, <2>1
<1>4. last \in Nat /\ n \in Nat /\ n <= last /\ n > cursor[a]
    <2> HIDE DEF seqs, last
    <2> QED BY <1>1, <1>2, <1>3
<1>5. EventOf(n) \in fresh
    <2>1. EventOf(n) \in log BY DEF Inv, LogIsRecent
    <2>2. EventOf(n).seq = n /\ EventOf(n).type = stream[n] BY DEF EventOf
    <2> QED BY <1>1, <1>4, <2>1, <2>2
<1>6. PICK e \in Answer(a) : e.seq = last BY <1>3
<1>7. e \in fresh /\ Cardinality({f \in fresh : f.seq < last}) < Limit
    BY <1>6 DEF Answer
<1>8. IsFiniteSet(fresh)
    <2> DEFINE E == {[seq |-> m, type |-> stream[m]] : m \in 0 + 1 .. Len(stream)}
    <2>1. IsFiniteSet(E)
        <3>1. \A b \in E : b.seq \in 0 + 1 .. Len(stream) OBVIOUS
        <3>2. \A m \in 0 + 1 .. Len(stream) : [seq |-> m, type |-> stream[m]] \in E OBVIOUS
        <3>3. \A b, c \in E : b.seq = c.seq => b = c OBVIOUS
        <3>4. 0 <= Len(stream) BY <1>2
        <3> HIDE DEF E
        <3>5. \A m \in 0 + 1 .. Len(stream) : \E b \in E : b.seq = m BY <3>2
        <3> QED BY <1>2, <3>1, <3>3, <3>4, <3>5, SegmentSize
    <2>2. fresh \subseteq E BY DEF Inv, LogIsRecent, Feed!Recent, EventOf
    <2> HIDE DEF E, fresh
    <2> QED BY <2>1, <2>2, FS_Subset
<1>9. Cardinality({f \in fresh : f.seq < n}) < Limit
    <2> DEFINE Before(m) == {f \in fresh : f.seq < m}
    <2>1. Before(n) \subseteq Before(last)
        <3>1. \A f \in fresh : f.seq \in Nat BY DEF Inv, TypeOK
        <3> HIDE DEF fresh, last
        <3> QED BY <1>4, <3>1
    <2>2. IsFiniteSet(Before(last)) BY <1>8, FS_Subset
    <2>3. Cardinality(Before(n)) <= Cardinality(Before(last)) /\ IsFiniteSet(Before(n))
        <3> HIDE DEF Before
        <3> QED BY <2>1, <2>2, FS_Subset
    <2>4. Cardinality(Before(n)) \in Nat /\ Cardinality(Before(last)) \in Nat
        <3> HIDE DEF Before
        <3> QED BY <2>2, <2>3, FS_CardinalityType
    <2>5. Cardinality(Before(last)) < Limit BY <1>7
    <2> HIDE DEF Before
    <2>6. Cardinality(Before(n)) < Limit BY <1>2, <2>3, <2>4, <2>5
    <2> QED BY <2>6 DEF Before
<1>10. EventOf(n) \in Answer(a)
    <2>1. EventOf(n).seq = n BY DEF EventOf
    <2> QED BY <1>5, <1>9, <2>1 DEF Answer
<1> QED BY <1>10 DEF EventOf

LEMMA ReadDelivers ==
    ASSUME ConstantsAssumption, Inv, NEW a \in App, Read(a)
    PROVE  Feed!Deliver(a)
<1> DEFINE seqs == {e.seq : e \in Answer(a)}
           last == LastOf(seqs, cursor[a])
<1>1. cursor[a] \in Nat /\ Len(stream) \in Nat /\ cursor[a] <= Len(stream)
    BY DEF Inv, TypeOK, CursorsAreBehind
<1>2. /\ seqs \subseteq cursor[a] + 1 .. Len(stream)
      /\ (seqs = {} /\ last = cursor[a]) \/ last \in seqs
      /\ \A n \in seqs : n <= last
    BY AnswerNumbers DEF Inv
<1>3. last \in cursor[a] .. Len(stream)
    <2>1. last = cursor[a] \/ last \in cursor[a] + 1 .. Len(stream)
        <3> HIDE DEF seqs, last
        <3> QED BY <1>2
    <2> HIDE DEF seqs, last
    <2> QED BY <1>1, <2>1
<1>4. seqs \subseteq Feed!Due(a, cursor[a], last)
    <2>1. ASSUME NEW e \in Answer(a) PROVE stream[e.seq] \in subscribed[a]
        <3>1. e \in log /\ e.type \in subscribed[a] BY DEF Answer
        <3>2. PICK n \in Feed!Recent : e = EventOf(n) BY <3>1 DEF Inv, LogIsRecent
        <3> QED BY <3>1, <3>2 DEF EventOf
    <2>2. \A n \in seqs : stream[n] \in subscribed[a] BY <2>1
    <2> HIDE DEF seqs, last
    <2> QED BY <1>1, <1>2, <1>3, <2>2 DEF Feed!Due
<1>5. Feed!Due(a, cursor[a], last) \cap Feed!Recent \subseteq seqs BY AnswerIsComplete
<1>6. /\ cursor' = [cursor EXCEPT ![a] = last]
      /\ got' = [got EXCEPT ![a] = got[a] \cup seqs]
      /\ UNCHANGED <<stream, subscribed>>
    BY DEF Read, clients
<1> HIDE DEF seqs, last
<1> QED BY <1>3, <1>4, <1>5, <1>6 DEF Feed!Deliver

LEMMA StepRefines ==
    ASSUME ConstantsAssumption, Inv, [Next]_vars
    PROVE  [Feed!Next]_(Feed!vars)
<1>1. ASSUME NEW t \in Type, Publish(t) PROVE Feed!Next
    BY <1>1 DEF Publish, clients, Feed!Publish, Feed!Next
<1>2. ASSUME NEW a \in App, Read(a) PROVE Feed!Next
    BY <1>2, ReadDelivers DEF Feed!Next
<1>3. ASSUME NEW a \in App,
             \/ Create(a) \/ Rotate(a) \/ Revoke(a) \/ Install(a)
             \/ Send(a) \/ Require(a) \/ Lost(a)
      PROVE  UNCHANGED Feed!vars
    BY <1>3 DEF Create, Rotate, Revoke, Install, Send, Require, Lost, clients, Feed!vars
<1>4. CASE UNCHANGED vars BY <1>4 DEF vars, clients, Feed!vars
<1> QED BY <1>1, <1>2, <1>3, <1>4 DEF Next

\* The log and its readers implement the event feed, for every number of apps,
\* every retention and every length of an answer.
THEOREM Refinement == Spec => ImplementsEventFeed
<1>1. Init => Inv BY InvInit, ConstantsAssumption
<1>2. Inv /\ [Next]_vars => Inv' BY InvStep, ConstantsAssumption
<1>3. Init => Feed!Init BY DEF Init, Feed!Init
<1>4. Inv /\ [Next]_vars => [Feed!Next]_(Feed!vars) BY StepRefines, ConstantsAssumption
<1> QED BY <1>1, <1>2, <1>3, <1>4, PTL DEF Spec, ImplementsEventFeed, Feed!Spec

-----------------------------------------------------------------------------
(* What the feed promises holds of the log and its readers.                *)

\* Due splits at any position in between.
LEMMA DueSplits ==
    ASSUME NEW a \in App, NEW from \in Nat, NEW mid \in Nat, NEW to \in Nat,
           from <= mid, mid <= to
    PROVE  Feed!Due(a, from, to) = Feed!Due(a, from, mid) \cup Feed!Due(a, mid, to)
BY DEF Feed!Due

\* A delivery gives an app events between its old and its new cursor, and all of
\* them if it is not more than Kept events behind.
LEMMA DeliveryStep ==
    ASSUME ConstantsAssumption, Inv, NEW a \in App, Feed!Deliver(a)
    PROVE  /\ cursor'[a] \in cursor[a] .. Len(stream)
           /\ got'[a] \subseteq got[a] \cup Feed!Due(a, cursor[a], cursor'[a])
           /\ cursor[a] + Kept >= Len(stream) =>
                 got'[a] = got[a] \cup Feed!Due(a, cursor[a], cursor'[a])
           /\ \A b \in App \ {a} : got'[b] = got[b] /\ cursor'[b] = cursor[b]
           /\ UNCHANGED <<stream, subscribed>>
<1>1. PICK to \in cursor[a] .. Len(stream), D \in SUBSET Nat :
          /\ D \subseteq Feed!Due(a, cursor[a], to)
          /\ Feed!Due(a, cursor[a], to) \cap Feed!Recent \subseteq D
          /\ cursor' = [cursor EXCEPT ![a] = to]
          /\ got' = [got EXCEPT ![a] = got[a] \cup D]
          /\ UNCHANGED <<stream, subscribed>>
    <2>1. \A to \in cursor[a] .. Len(stream) : Feed!Due(a, cursor[a], to) \subseteq Nat
        BY DEF Feed!Due, Inv, TypeOK
    <2> QED BY <2>1 DEF Feed!Deliver
<1>2. cursor'[a] = to /\ got'[a] = got[a] \cup D
      /\ \A b \in App \ {a} : got'[b] = got[b] /\ cursor'[b] = cursor[b]
    BY <1>1 DEF Inv, TypeOK
<1>3. ASSUME cursor[a] + Kept >= Len(stream)
      PROVE  D = Feed!Due(a, cursor[a], to)
    <2>1. cursor[a] \in Nat /\ Len(stream) \in Nat /\ Kept \in Nat
        BY DEF Inv, TypeOK, ConstantsAssumption
    <2>2. \A n \in cursor[a] + 1 .. to : n \in 1 .. Len(stream) /\ n + Kept > Len(stream)
        BY <1>3, <2>1
    <2>3. Feed!Due(a, cursor[a], to) \subseteq Feed!Recent
        BY <2>2 DEF Feed!Due, Feed!Recent
    <2> QED BY <1>1, <2>3
<1> QED BY <1>1, <1>2, <1>3

\* Neither a new event nor a delivery makes an app's account incomplete.
LEMMA CompleteStep ==
    ASSUME ConstantsAssumption, Inv, Feed!Complete, [Feed!Next]_(Feed!vars)
    PROVE  Feed!Complete'
<1>1. /\ \A a \in App : cursor[a] \in Nat /\ cursor[a] <= Len(stream)
      /\ Len(stream) \in Nat /\ Kept \in Nat
    BY DEF Inv, TypeOK, CursorsAreBehind, ConstantsAssumption
<1>2. ASSUME NEW t \in Type, Feed!Publish(t) PROVE Feed!Complete'
    <2>1. /\ UNCHANGED <<subscribed, cursor, got>>
          /\ Len(stream') = Len(stream) + 1
          /\ \A n \in 1 .. Len(stream) : stream'[n] = stream[n]
        BY <1>2 DEF Feed!Publish, Inv, TypeOK
    <2>2. ASSUME NEW a \in App
          PROVE  {n \in 0 + 1 .. cursor[a] : stream'[n] \in subscribed[a]}
                     = {n \in 0 + 1 .. cursor[a] : stream[n] \in subscribed[a]}
        BY <1>1, <2>1
    <2>3. \A a \in App : Feed!Due(a, 0, cursor[a])' = Feed!Due(a, 0, cursor[a])
        BY <2>1, <2>2 DEF Feed!Due
    <2>4. Len(stream') <= Kept => Len(stream) <= Kept BY <1>1, <2>1
    <2> QED BY <2>1, <2>3, <2>4 DEF Feed!Complete
<1>3. ASSUME NEW a \in App, Feed!Deliver(a) PROVE Feed!Complete'
    <2>1. /\ cursor'[a] \in cursor[a] .. Len(stream)
          /\ got'[a] \subseteq got[a] \cup Feed!Due(a, cursor[a], cursor'[a])
          /\ cursor[a] + Kept >= Len(stream) =>
                got'[a] = got[a] \cup Feed!Due(a, cursor[a], cursor'[a])
          /\ \A b \in App \ {a} : got'[b] = got[b] /\ cursor'[b] = cursor[b]
          /\ UNCHANGED <<stream, subscribed>>
        BY <1>3, DeliveryStep
    <2>2. Feed!Due(a, 0, cursor'[a])
              = Feed!Due(a, 0, cursor[a]) \cup Feed!Due(a, cursor[a], cursor'[a])
        BY <1>1, <2>1, DueSplits
    <2>3. Len(stream) <= Kept => cursor[a] + Kept >= Len(stream) BY <1>1
    <2>4. /\ got[a] \subseteq Feed!Due(a, 0, cursor[a])
          /\ Len(stream) <= Kept => got[a] = Feed!Due(a, 0, cursor[a])
        BY DEF Feed!Complete
    <2>5. /\ got'[a] \subseteq Feed!Due(a, 0, cursor'[a])
          /\ Len(stream) <= Kept => got'[a] = Feed!Due(a, 0, cursor'[a])
        BY <2>1, <2>2, <2>3, <2>4
    <2> QED BY <2>1, <2>5 DEF Feed!Complete, Feed!Due
<1>4. CASE UNCHANGED Feed!vars
    BY <1>4 DEF Feed!vars, Feed!Complete, Feed!Due
<1> QED BY <1>2, <1>3, <1>4 DEF Feed!Next

\* Every app is given what it subscribed to and nothing else, and all of it until
\* the stream is longer than what is kept.
THEOREM FeedComplete == Spec => []Feed!Complete
<1>1. Init => Inv BY InvInit, ConstantsAssumption
<1>2. Inv /\ [Next]_vars => Inv' BY InvStep, ConstantsAssumption
<1>3. Init => Feed!Complete
    BY DEF Init, Feed!Complete, Feed!Due
<1>4. Inv /\ Feed!Complete /\ [Next]_vars => Feed!Complete'
    BY StepRefines, CompleteStep, ConstantsAssumption
<1> QED BY <1>1, <1>2, <1>3, <1>4, PTL DEF Spec

\* No app is given an event twice or out of order.
THEOREM FeedInOrder == Spec => Feed!OnceInOrder
<1> DEFINE Ordered == \A a \in App : \A m \in got[a], n \in got'[a] \ got[a] : m < n
<1>1. Init => Inv BY InvInit, ConstantsAssumption
<1>2. Inv /\ [Next]_vars => Inv' BY InvStep, ConstantsAssumption
<1>3. ASSUME Inv, Feed!Complete, [Next]_vars
      PROVE  [Ordered]_(Feed!vars)
    <2>1. ASSUME NEW a \in App, Feed!Deliver(a) PROVE Ordered
        <3>1. /\ got'[a] \subseteq got[a] \cup Feed!Due(a, cursor[a], cursor'[a])
              /\ \A b \in App \ {a} : got'[b] = got[b]
              /\ cursor'[a] \in cursor[a] .. Len(stream)
            BY <1>3, <2>1, DeliveryStep, ConstantsAssumption
        <3>2. got[a] \subseteq Feed!Due(a, 0, cursor[a]) BY <1>3 DEF Feed!Complete
        <3>3. cursor[a] \in Nat BY <1>3 DEF Inv, TypeOK
        <3> QED BY <3>1, <3>2, <3>3 DEF Feed!Due
    <2>2. ASSUME NEW t \in Type, Feed!Publish(t) PROVE Ordered
        BY <2>2 DEF Feed!Publish
    <2>3. [Feed!Next]_(Feed!vars) BY <1>3, StepRefines, ConstantsAssumption
    <2> QED BY <2>1, <2>2, <2>3 DEF Feed!Next
<1> QED BY <1>1, <1>2, <1>3, FeedComplete, PTL DEF Spec, Feed!OnceInOrder

\* An app that asks before it is more than Kept events behind misses nothing.
THEOREM FeedInTime == Spec => Feed!NothingMissedInTime
<1> DEFINE InTime == \A a \in App : cursor[a] + Kept >= Len(stream) =>
                         got'[a] = got[a] \cup Feed!Due(a, cursor[a], cursor'[a])
<1>1. Init => Inv BY InvInit, ConstantsAssumption
<1>2. Inv /\ [Next]_vars => Inv' BY InvStep, ConstantsAssumption
<1>3. ASSUME Inv, [Next]_vars
      PROVE  [InTime]_(Feed!vars)
    <2>1. \A a \in App : Feed!Due(a, cursor[a], cursor[a]) = {}
        BY <1>3 DEF Feed!Due, Inv, TypeOK
    <2>2. ASSUME NEW a \in App, Feed!Deliver(a) PROVE InTime
        BY <1>3, <2>1, <2>2, DeliveryStep, ConstantsAssumption
    <2>3. ASSUME NEW t \in Type, Feed!Publish(t) PROVE InTime
        BY <2>1, <2>3 DEF Feed!Publish
    <2>4. [Feed!Next]_(Feed!vars) BY <1>3, StepRefines, ConstantsAssumption
    <2> QED BY <2>2, <2>3, <2>4 DEF Feed!Next
<1> QED BY <1>1, <1>2, <1>3, PTL DEF Spec, Feed!NothingMissedInTime
=============================================================================
