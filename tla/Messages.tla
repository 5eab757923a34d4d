------------------------------ MODULE Messages ------------------------------
(***************************************************************************)
(* Direct messages between two members (src/src/messages/index.ts and      *)
(* sendDirectMessage in src/src/postgres.ts): the thread the first message *)
(* creates, the quota of a sender, unread entries, removals, and a reader  *)
(* who pages through the thread meanwhile.                                 *)
(*                                                                         *)
(* A send is a transaction.  It draws its time stamps when it begins and   *)
(* may commit much later: it waits for the quota of its sender, for a      *)
(* thread that another transaction has inserted, and for the one row of    *)
(* platform statistics that every insert of a message updates.  A row with *)
(* an owner is not committed.  The clock of the database is coarse, so two *)
(* messages may have one time; their identifiers then order them.          *)
(***************************************************************************)
EXTENDS Naturals, FiniteSets

CONSTANTS
    Member,     \* the two members of the thread
    Request,    \* requests being served at one time
    Mortal,     \* requests that may die, or lose their connection
    Nobody,     \* no owner, no sender
    Quota,      \* messages a member may send in the window
    MaxMessage, \* bound on messages
    MaxClock,   \* bound on time
    PageSize    \* messages a page shows

ASSUME MessageAssumption ==
    /\ Cardinality(Member) = 2
    /\ Nobody \notin Request \cup Member
    /\ Mortal \subseteq Request
    /\ IsFiniteSet(Request) /\ Request # {}
    /\ Quota \in Nat /\ MaxMessage \in Nat /\ MaxClock \in Nat \ {0} /\ PageSize \in Nat \ {0}

Time == 1..MaxClock
MessageId == 1..MaxMessage
None == 0

NoThread == [by |-> Nobody, owner |-> Nobody, joined |-> None]
NoMessage == [from |-> Nobody, at |-> None, owner |-> Nobody, acked |-> FALSE, removed |-> FALSE]
NoJob == [from |-> Nobody, at |-> None, message |-> None]
NoReader == [on |-> FALSE, cursor |-> None, seen |-> {}, first |-> {}]

VARIABLES
    thread,     \* the row of the pair in dm_threads, with its participants
    message,    \* dm_messages with the inbox entry of the recipient
    quotaLock,  \* quotaLock[m]: who counts and sends for m
    statsLock,  \* who has updated platform_stats
    shared,     \* the two share a club
    clock,
    reader,     \* somebody paging through the thread
    label, job

vars == <<thread, message, quotaLock, statsLock, shared, clock, reader, label, job>>
locks == <<quotaLock, statsLock>>
world == <<shared, clock, reader>>

-----------------------------------------------------------------------------
(* Reads *)

Exists(n) == message[n].from # Nobody
Sent == {n \in MessageId : Exists(n) /\ message[n].owner = Nobody}
Thread == thread.by # Nobody
Other(m) == CHOOSE o \in Member : o # m

Usable(r) == thread.owner \in {Nobody, r}

\* Later in the order of the thread: by time, then by identifier.
After(a, b) == \/ message[a].at > message[b].at
               \/ message[a].at = message[b].at /\ a > b

SentBy(m) == {n \in MessageId : message[n].from = m /\ message[n].owner = Nobody}

ToldMutant(n) == message[n].at > thread.joined

\* The entries a recipient is told of, by the stream and by the list of threads: none of
\* a message older than the recipient's place in the thread.
Told(n) == message[n].at >= thread.joined

Pending(m) == {n \in Sent : message[n].from = Other(m) /\ ~message[n].acked}

-----------------------------------------------------------------------------
(* Requests *)

Moves(r, to, j) == /\ label' = [label EXCEPT ![r] = to]
                   /\ job' = [job EXCEPT ![r] = j]

Ends(r) == Moves(r, "idle", NoJob)

Unlocked(r) == /\ quotaLock' = [m \in Member |-> IF quotaLock[m] = r THEN Nobody ELSE quotaLock[m]]
               /\ statsLock' = IF statsLock = r THEN Nobody ELSE statsLock

\* The transaction is rolled back.
Fails(r) ==
    /\ Ends(r)
    /\ Unlocked(r)
    /\ thread' = IF thread.owner = r THEN NoThread ELSE thread
    /\ message' = [n \in MessageId |-> IF message[n].owner = r THEN NoMessage ELSE message[n]]
    /\ UNCHANGED world

Abort(r) == r \in Mortal /\ label[r] # "idle" /\ Fails(r)

-----------------------------------------------------------------------------
(* messages.send *)

\* A club is needed to start a conversation, not to continue one.
\* Accounts that are not active send and receive nothing, and are left out.
MayMessage == shared \/ (Thread /\ thread.owner = Nobody)

SendChecks(r, m) ==
    /\ label[r] = "idle"
    /\ MayMessage
    /\ Moves(r, "begin", [NoJob EXCEPT !.from = m])
    /\ UNCHANGED <<thread, message, locks, world>>

SendBegins(r) ==
    /\ label[r] = "begin"
    /\ Moves(r, "count", [job[r] EXCEPT !.at = clock])
    /\ UNCHANGED <<thread, message, locks, world>>

QuotaFree(r, m) == quotaLock[m] = Nobody

SendCounts(r) ==
    LET m == job[r].from IN
    /\ label[r] = "count"
    /\ QuotaFree(r, m)
    /\ Cardinality(SentBy(m)) < Quota
    /\ quotaLock' = [quotaLock EXCEPT ![m] = r]
    /\ Moves(r, "thread", job[r])
    /\ UNCHANGED <<thread, message, statsLock, world>>

QuotaRefuses(r) ==
    /\ label[r] = "count"
    /\ QuotaFree(r, job[r].from)
    /\ Cardinality(SentBy(job[r].from)) >= Quota
    /\ Fails(r)

\* insert ... on conflict do nothing, which waits for a transaction that inserted the pair.
ThreadSettledMutant(r) == TRUE
ThreadSettled(r) == Usable(r)

SendFindsThread(r) ==
    /\ label[r] = "thread"
    /\ ThreadSettled(r)
    /\ thread' = IF Thread /\ Usable(r) THEN thread
                 ELSE [by |-> job[r].from, owner |-> r, joined |-> job[r].at]
    /\ Moves(r, "write", job[r])
    /\ UNCHANGED <<message, locks, world>>

\* The message and the entry of its recipient.  Its trigger updates platform_stats.
SendWrites(r) ==
    LET n == 1 + Cardinality({k \in MessageId : Exists(k)}) IN
    /\ label[r] = "write"
    /\ statsLock = Nobody
    /\ n \in MessageId
    /\ statsLock' = r
    /\ message' = [message EXCEPT ![n] = [NoMessage EXCEPT !.from = job[r].from, !.at = job[r].at,
                                                          !.owner = r]]
    /\ Moves(r, "commit", job[r])
    /\ UNCHANGED <<thread, quotaLock, world>>

\* Whoever writes in a thread has seen what was waiting there.
SendCommits(r) ==
    /\ label[r] = "commit"
    /\ message' = [n \in MessageId |->
                     IF message[n].owner = r THEN [message[n] EXCEPT !.owner = Nobody]
                     ELSE IF n \in Pending(job[r].from) THEN [message[n] EXCEPT !.acked = TRUE]
                     ELSE message[n]]
    /\ thread' = [thread EXCEPT !.owner = IF @ = r THEN Nobody ELSE @]
    /\ Ends(r) /\ Unlocked(r)
    /\ UNCHANGED world

-----------------------------------------------------------------------------
(* Acknowledging and removing *)

\* updates.acknowledge of a thread
Acknowledge(m) ==
    /\ Pending(m) # {}
    /\ message' = [n \in MessageId |-> IF n \in Pending(m) THEN [message[n] EXCEPT !.acked = TRUE]
                                       ELSE message[n]]
    /\ UNCHANGED <<thread, locks, label, job, world>>

\* messages.remove reads outside of a transaction whether the message is removed.
RemoveReads(r, n) ==
    /\ label[r] = "idle"
    /\ n \in Sent /\ ~message[n].removed
    /\ Moves(r, "remove", [NoJob EXCEPT !.message = n])
    /\ UNCHANGED <<thread, message, locks, world>>

\* The primary key of dm_message_removals refuses the second of two removals.
RemoveInserts(r) ==
    /\ label[r] = "remove"
    /\ message' = [message EXCEPT ![job[r].message].removed = TRUE]
    /\ Ends(r)
    /\ UNCHANGED <<thread, locks, world>>

-----------------------------------------------------------------------------
(* messages.get, page after page *)

\* What a cursor leaves: the messages before the last one shown.
BehindMutant(cursor) == {n \in Sent : cursor = None \/ message[n].at < message[cursor].at}
Behind(cursor) == {n \in Sent : cursor = None \/ After(cursor, n)}

ReadPage ==
    LET left == Behind(reader.cursor)
        page == {n \in left : Cardinality({k \in left : After(k, n)}) < PageSize}
    IN
    /\ left # {}
    /\ reader' = [on |-> TRUE,
                  cursor |-> CHOOSE n \in page : \A k \in page \ {n} : After(k, n),
                  seen |-> reader.seen \cup page,
                  first |-> IF reader.on THEN reader.first ELSE Sent]
    /\ UNCHANGED <<thread, message, locks, shared, clock, label, job>>

ReadEnds ==
    /\ reader.on
    /\ Behind(reader.cursor) = {}
    /\ reader' = NoReader
    /\ UNCHANGED <<thread, message, locks, shared, clock, label, job>>

-----------------------------------------------------------------------------
(* Everybody else *)

PartWays ==
    /\ shared' = ~shared
    /\ UNCHANGED <<thread, message, locks, clock, reader, label, job>>

Tick ==
    /\ clock < MaxClock
    /\ clock' = clock + 1
    /\ UNCHANGED <<thread, message, locks, shared, reader, label, job>>

Init ==
    /\ thread = NoThread
    /\ message = [n \in MessageId |-> NoMessage]
    /\ quotaLock = [m \in Member |-> Nobody] /\ statsLock = Nobody
    /\ shared = TRUE
    /\ clock = 1
    /\ reader = NoReader
    /\ label = [r \in Request |-> "idle"] /\ job = [r \in Request |-> NoJob]

Sends(r) ==
    \/ \E m \in Member : SendChecks(r, m)
    \/ SendBegins(r) \/ SendCounts(r) \/ QuotaRefuses(r) \/ SendFindsThread(r)
    \/ SendWrites(r) \/ SendCommits(r)

Removes(r) == RemoveInserts(r) \/ \E n \in MessageId : RemoveReads(r, n)

Next ==
    \/ \E r \in Request : Sends(r) \/ Removes(r) \/ Abort(r)
    \/ \E m \in Member : Acknowledge(m)
    \/ ReadPage \/ ReadEnds
    \/ PartWays \/ Tick

Spec == Init /\ [][Next]_vars

-----------------------------------------------------------------------------
(* Properties *)

TypeOK ==
    /\ thread \in [by : Member \cup {Nobody}, owner : Request \cup {Nobody},
                   joined : Time \cup {None}]
    /\ message \in [MessageId -> [from : Member \cup {Nobody}, at : Time \cup {None},
                                  owner : Request \cup {Nobody}, acked : BOOLEAN,
                                  removed : BOOLEAN]]
    /\ quotaLock \in [Member -> Request \cup {Nobody}] /\ statsLock \in Request \cup {Nobody}
    /\ shared \in BOOLEAN /\ clock \in Time
    /\ reader \in [on : BOOLEAN, cursor : MessageId \cup {None}, seen : SUBSET MessageId,
                   first : SUBSET MessageId]
    /\ label \in [Request -> {"idle", "begin", "count", "thread", "write", "commit", "remove"}]
    /\ job \in [Request -> [from : Member \cup {Nobody}, at : Time \cup {None},
                            message : MessageId \cup {None}]]

\* However the first messages of two members meet, and whatever is rolled back, a message
\* is in a thread that is there for everybody who sees the message (messages/index.ts:199).
OneThread ==
    \A n \in MessageId : Exists(n) => Thread /\ thread.owner \in {Nobody, message[n].owner}

\* No member sends more than the quota, whatever requests count at once (quotas.ts:325).
QuotaHolds ==
    \A m \in Member : Cardinality({n \in MessageId : message[n].from = m}) <= Quota

\* The only messages a recipient is never told of are those whose sending overlapped
\* with the one that created the thread (messages/index.ts:395, postgres.ts:329).
UntoldOverlapFirst ==
    Cardinality({n \in Sent : ~Told(n)}) < Cardinality(Request)

\* Who reads all pages has seen every message that was there when they began, whatever is
\* sent meanwhile and however many have the same time (messages/index.ts:568).
PagesComplete ==
    [][reader.on /\ ~reader'.on => reader.first \subseteq reader.seen]_vars
=============================================================================
