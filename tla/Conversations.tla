----------------------------- MODULE Conversations -----------------------------
(***************************************************************************)
(* Chat sessions of conversation.py and the turns that api.py makes with   *)
(* them.  A turn reads its session under the lock of the store, has a      *)
(* reply generated without it, and appends question and reply under the    *)
(* lock again; other turns, the archiving of the session and new sessions  *)
(* come in between.  A voice turn may open its session first.              *)
(***************************************************************************)
EXTENDS Naturals, Sequences, FiniteSets

CONSTANTS
    Session, Account,
    Thread,         \* threads of the listener that make turns
    NoSession,
    MaxActive,      \* MAX_ACTIVE_SESSIONS_PER_ACCOUNT
    MaxMessages     \* MAX_MESSAGES_PER_SESSION

\* What the constants are taken to be.
ConstantsFit ==
    /\ {MaxActive, MaxMessages} \subseteq Nat
    /\ NoSession \notin Session \cup Account

VARIABLES
    chat,       \* the saved sessions
    stage,      \* of a thread's turn
    at, by,     \* its session and account
    seen        \* the messages it has read

turns == <<stage, at, by, seen>>
vars  == <<chat, stage, at, by, seen>>

Existing == {s \in Session : chat[s].account # NoSession}

Active(a) == {s \in Existing : chat[s].account = a /\ ~chat[s].archived}

\* A message of the user, and a reply with the number of messages it answers.
Asked == [role |-> "user", after |-> 0]
Reply(n) == [role |-> "assistant", after |-> n]

Init ==
    /\ chat = [s \in Session |-> [account |-> NoSession, archived |-> FALSE, messages |-> <<>>]]
    /\ stage = [t \in Thread |-> "idle"]
    /\ at = [t \in Thread |-> NoSession]
    /\ by = [t \in Thread |-> NoSession]
    /\ seen = [t \in Thread |-> <<>>]

-----------------------------------------------------------------------------
(* The store.                                                              *)

CreateSession(a, s) ==
    /\ s \notin Existing
    /\ Cardinality(Active(a)) < MaxActive
    /\ chat' = [chat EXCEPT ![s].account = a]

ArchiveSession(a, s) ==
    /\ s \in Existing /\ chat[s].account = a
    /\ chat' = [chat EXCEPT ![s].archived = TRUE]

\* A session of another account, or an archived one, is not found.
Found(a, s) == s \in Active(a)

Full(s) == Len(chat[s].messages) + 2 > MaxMessages

\* A save that trusts the number of messages the turn has read.
AppendTurnUnchecked(a, s, n) ==
    /\ Found(a, s) /\ n + 2 <= MaxMessages
    /\ chat' = [chat EXCEPT ![s].messages = @ \o <<Asked, Reply(n)>>]

\* A save that finds archived sessions, too.
AppendTurnAnyway(a, s, n) ==
    /\ s \in Existing /\ chat[s].account = a /\ ~Full(s)
    /\ chat' = [chat EXCEPT ![s].messages = @ \o <<Asked, Reply(n)>>]

AppendTurn(a, s, n) ==
    /\ Found(a, s) /\ ~Full(s)
    /\ chat' = [chat EXCEPT ![s].messages = @ \o <<Asked, Reply(n)>>]

-----------------------------------------------------------------------------
(* Requests.                                                               *)

Create(a, s) == CreateSession(a, s) /\ UNCHANGED turns

Archive(a, s) == ArchiveSession(a, s) /\ UNCHANGED turns

\* A voice turn without a session opens one.
VoiceOpen(t, a, s) ==
    /\ stage[t] = "idle"
    /\ CreateSession(a, s)
    /\ stage' = [stage EXCEPT ![t] = "opened"]
    /\ at' = [at EXCEPT ![t] = s]
    /\ by' = [by EXCEPT ![t] = a]
    /\ UNCHANGED seen

\* The question is saved before the reply is made.
RawSessionAsks(t, a, s) ==
    /\ stage[t] = "idle" /\ Found(a, s) /\ ~Full(s)
    /\ chat' = [chat EXCEPT ![s].messages = Append(@, Asked)]
    /\ stage' = [stage EXCEPT ![t] = "replying"]
    /\ at' = [at EXCEPT ![t] = s]
    /\ by' = [by EXCEPT ![t] = a]
    /\ seen' = [seen EXCEPT ![t] = chat'[s].messages]

RawSession(t, a, s) ==
    /\ \/ stage[t] = "idle"
       \/ stage[t] = "opened" /\ at[t] = s /\ by[t] = a
    /\ Found(a, s)
    /\ stage' = [stage EXCEPT ![t] = "replying"]
    /\ at' = [at EXCEPT ![t] = s]
    /\ by' = [by EXCEPT ![t] = a]
    /\ seen' = [seen EXCEPT ![t] = chat[s].messages]
    /\ UNCHANGED chat

Ends(t) ==
    /\ stage' = [stage EXCEPT ![t] = "idle"]
    /\ at' = [at EXCEPT ![t] = NoSession]
    /\ by' = [by EXCEPT ![t] = NoSession]
    /\ seen' = [seen EXCEPT ![t] = <<>>]

Answer(t) ==
    /\ stage[t] = "replying"
    /\ AppendTurn(by[t], at[t], Len(seen[t]))
    /\ Ends(t)

\* The session is gone or full, the message is invalid, the save fails, the
\* process stops: the reply is dropped, an opened session stays.
Drop(t) ==
    /\ stage[t] # "idle"
    /\ Ends(t)
    /\ UNCHANGED chat

Next ==
    \/ \E a \in Account, s \in Session : Create(a, s) \/ Archive(a, s)
    \/ \E t \in Thread, a \in Account, s \in Session :
        VoiceOpen(t, a, s) \/ RawSession(t, a, s)
    \/ \E t \in Thread : Answer(t) \/ Drop(t)

Spec == Init /\ [][Next]_vars

-----------------------------------------------------------------------------
(* Properties.                                                             *)

TypeOK ==
    /\ chat \in [Session -> [account : Account \cup {NoSession}, archived : BOOLEAN,
                             messages : Seq([role : {"user", "assistant"}, after : Nat])]]
    /\ stage \in [Thread -> {"idle", "opened", "replying"}]
    /\ at \in [Thread -> Session \cup {NoSession}]
    /\ by \in [Thread -> Account \cup {NoSession}]
    /\ seen \in [Thread -> Seq([role : {"user", "assistant"}, after : Nat])]

\* No step takes a message away, whatever copy of the session a turn has read
\* before it; a session stays its account's, and an archived one stays as it
\* was, also for a turn that began while it was active.
ConversationsOnlyGrow ==
    [][\A s \in Existing :
        /\ chat'[s].account = chat[s].account
        /\ chat[s].archived => chat'[s] = chat[s]
        /\ \E turn \in {<<>>} \cup {<<Asked, Reply(n)>> : n \in 0 .. Len(chat[s].messages)} :
            chat'[s].messages = chat[s].messages \o turn]_chat

\* What is saved can be loaded again: two turns in flight never fill a session
\* beyond the limit that makes the validator refuse the whole document, nor do
\* two requests open more sessions than an account may have.
DocumentStaysLoadable ==
    /\ \A s \in Existing : Len(chat[s].messages) <= MaxMessages
    /\ \A a \in Account : Cardinality(Active(a)) <= MaxActive

\* A reply was made from the conversation as it was when its turn began: what a
\* turn has read is the beginning of its session, at a point between turns.
RepliesSeeWholeTurns ==
    /\ \A t \in Thread : stage[t] = "replying" =>
        /\ Len(seen[t]) % 2 = 0
        /\ seen[t] = SubSeq(chat[at[t]].messages, 1, Len(seen[t]))
    /\ \A s \in Existing : \A i \in 1 .. Len(chat[s].messages) :
        LET m == chat[s].messages[i] IN
        /\ m.role = IF i % 2 = 1 THEN "user" ELSE "assistant"
        /\ m.after < i /\ m.after % 2 = 0
=============================================================================
