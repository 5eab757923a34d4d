---------------------------- MODULE Notifications ----------------------------
(***************************************************************************)
(* The notification substrate (src/src/notification-substrate.ts), its     *)
(* producer transport (server.ts, postgres.ts) and its most demanding core *)
(* user, the review of an application (src/src/admission.ts).              *)
(*                                                                         *)
(* An external producer delivers a batch in one transaction: every item is *)
(* judged, charged to the counter of the current window and inserted, and  *)
(* the transaction commits once.  A producer that misses the answer sends  *)
(* the batch again with the same idempotency keys.  The core producer      *)
(* delivers inside the transaction of the operation it reports on, which   *)
(* is rolled back when a delivery fails.                                   *)
(*                                                                         *)
(* Rows are numbered in the order of their inserts; a row with an owner is *)
(* not committed and nobody else sees it.  The counters per recipient are  *)
(* left out: they have the limit of the counter over all recipients and    *)
(* never exceed it, so they never decide.                                  *)
(***************************************************************************)
EXTENDS Naturals, FiniteSets, Sequences

CONSTANTS
    Admin,      \* administrators of the club, told of applications
    Sponsor,    \* the member whose invitation the application came with
    Key,        \* idempotency keys of the producer
    Batch,      \* batches the producer sends: sequences of items
    Request,    \* requests being served at one time
    Mortal,     \* requests that may die, or lose their connection
    Nobody,     \* no owner, no key
    Limit,      \* deliveries per window
    MaxWindow,  \* bound on windows
    MaxNote     \* bound on rows of member_notifications

Member == Admin \cup {Sponsor}

Item == [key : Key \cup {Nobody}, print : {"a", "b"}, to : Member]

ASSUME NotificationAssumption ==
    /\ IsFiniteSet(Admin) /\ Sponsor \notin Admin
    /\ Nobody \notin Request \cup Key \cup Member
    /\ Mortal \subseteq Request
    /\ Batch \subseteq Seq(Item)
    /\ Limit \in Nat /\ MaxWindow \in Nat \ {0} /\ MaxNote \in Nat

Window == 1..MaxWindow
NoteId == 1..MaxNote
NoId == 0

Topic == {"external", "pending", "resolved"}
Phase == {"revising", "awaiting", "withdrawn", "decided"}

NoNote == [to |-> Nobody, topic |-> "external", key |-> Nobody, print |-> "a",
           window |-> NoId, acked |-> FALSE, owner |-> Nobody]
NoJob == [batch |-> <<>>, inside |-> {}, window |-> NoId, results |-> <<>>, core |-> "none"]

VARIABLES
    note,         \* note[n]: member_notifications, n its seq
    counter,      \* counter[w]: delivery_count of the window, committed
    counterLock,  \* who holds the row of that counter
    inside,       \* members with an active membership in the club
    clock,        \* the current window
    app,          \* the phase of the application
    appLock,      \* who holds its row
    label, job    \* where each request is, and what it has read

vars == <<note, counter, counterLock, inside, clock, app, appLock, label, job>>
world == <<inside, clock>>

-----------------------------------------------------------------------------
(* Reads *)

Exists(n) == note[n].to # Nobody
Committed(n) == Exists(n) /\ note[n].owner = Nobody

Visible(r, n) == Exists(n) /\ note[n].owner \in {Nobody, r}

WithKey(k) == {n \in NoteId : k # Nobody /\ Exists(n) /\ note[n].key = k}

Charged(r) == [w \in Window |-> Cardinality({n \in NoteId : note[n].owner = r /\ note[n].window = w})]

\* What a request was charged for without an insert: it lost a race for a key.
Wasted(r) == [w \in Window |->
                Cardinality({i \in 1..Len(job[r].results) :
                               job[r].results[i].outcome \in {"duplicate", "mismatch"}
                               /\ job[r].results[i].window = w})]

Counted(r, w) == counter[w] + Charged(r)[w] + Wasted(r)[w]

Current(r) == job[r].batch[Len(job[r].results) + 1]

-----------------------------------------------------------------------------
(* Requests *)

Moves(r, to, j) == /\ label' = [label EXCEPT ![r] = to]
                   /\ job' = [job EXCEPT ![r] = j]

Unlocked(r) == /\ counterLock' = [w \in Window |-> IF counterLock[w] = r THEN Nobody
                                                   ELSE counterLock[w]]
               /\ appLock' = IF appLock = r THEN Nobody ELSE appLock

Ends(r) == Moves(r, "idle", NoJob) /\ Unlocked(r)

\* The transaction is rolled back: what it inserted is gone.
Fails(r) ==
    /\ Ends(r)
    /\ note' = [n \in NoteId |-> IF note[n].owner = r THEN NoNote ELSE note[n]]
    /\ UNCHANGED <<counter, app, world>>

Abort(r) == r \in Mortal /\ label[r] # "idle" /\ Fails(r)

\* The table with rows added after the highest one, as the sequence numbers are drawn.
Last == Cardinality({n \in NoteId : \E m \in NoteId : m >= n /\ Exists(m)})

Added(table, rows) ==
    [n \in NoteId |-> IF n \in Last + 1..Last + Len(rows) THEN rows[n - Last] ELSE table[n]]

-----------------------------------------------------------------------------
(* /internal/notifications/deliver *)

\* The access of the recipients, which stands for all that is loaded: producer, topic
\* and the references of an item are looked up like it.
Loaded(b) == inside \cap {b[i].to : i \in 1..Len(b)}

\* What is loaded here judges the whole batch.
DeliverLoads(r, b) ==
    /\ label[r] = "idle"
    /\ Moves(r, "judge", [NoJob EXCEPT !.batch = b, !.inside = Loaded(b)])
    /\ UNCHANGED <<note, counter, counterLock, appLock, app, world>>

Result(out, n, w) == [outcome |-> out, id |-> n, window |-> w]

\* What a row with the key of an item makes of the item.
Seen(i, n) == IF note[n].print = i.print THEN "duplicate" ELSE "mismatch"

\* Whether an item passes what was loaded.
Accepts(r, i) == i.to \in job[r].inside

Told(r, x) == Moves(r, "judge", [job[r] EXCEPT !.results = Append(@, x)])

\* Looked up before anything is charged.
Judge(r) ==
    LET i == Current(r)
        known == {n \in WithKey(i.key) : Visible(r, n)}
    IN
    /\ label[r] = "judge"
    /\ Len(job[r].results) < Len(job[r].batch)
    /\ \/ ~Accepts(r, i) /\ Told(r, Result("refused", NoId, NoId))
       \/ Accepts(r, i) /\ \E n \in known : Told(r, Result(Seen(i, n), n, NoId))
       \/ /\ Accepts(r, i)
          /\ known = {}
          /\ Moves(r, "charge", [job[r] EXCEPT !.window = clock])
    /\ UNCHANGED <<note, counter, counterLock, appLock, app, world>>

CounterFreeMutant(r, w) == TRUE
CounterFree(r, w) == counterLock[w] \in {Nobody, r}

\* The counters of the window the request computed, for update.
LockCounter(r) ==
    LET w == job[r].window IN
    /\ label[r] = "charge"
    /\ CounterFree(r, w)
    /\ counterLock' = [counterLock EXCEPT ![w] = r]
    /\ IF Counted(r, w) >= Limit
       THEN Told(r, Result("limited", NoId, NoId))
       ELSE Moves(r, "insert", job[r])
    /\ UNCHANGED <<note, counter, appLock, app, world>>

\* insert ... on conflict do nothing: waits for a transaction that inserted the key.
ConflictsMutant(r, k) == {}
Conflicts(r, k) == WithKey(k)

InsertNote(r) ==
    LET i == Current(r)
        w == job[r].window
        same == Conflicts(r, i.key)
    IN
    /\ label[r] = "insert"
    /\ \A n \in same : Visible(r, n)
    /\ \/ /\ same = {}
          /\ Last < MaxNote
          /\ note' = Added(note, <<[to |-> i.to, topic |-> "external", key |-> i.key,
                                     print |-> i.print, window |-> w, acked |-> FALSE,
                                     owner |-> r]>>)
          /\ Told(r, Result("delivered", Last + 1, NoId))
       \/ \E n \in same : Told(r, Result(Seen(i, n), n, w)) /\ UNCHANGED note
    /\ UNCHANGED <<counter, counterLock, appLock, app, world>>

\* Commit and answer.
DeliverCommits(r) ==
    /\ label[r] = "judge"
    /\ Len(job[r].results) = Len(job[r].batch)
    /\ note' = [n \in NoteId |-> IF note[n].owner = r THEN [note[n] EXCEPT !.owner = Nobody]
                                 ELSE note[n]]
    /\ counter' = [w \in Window |-> Counted(r, w)]
    /\ Ends(r)
    /\ UNCHANGED <<app, world>>

-----------------------------------------------------------------------------
(* The application and the core producer *)

AppFreeMutant(r) == TRUE
AppFree(r) == appLock = Nobody

Begin(r, op, phases, recipients) ==
    /\ label[r] = "idle"
    /\ AppFree(r)
    /\ app \in phases
    /\ appLock' = r
    /\ Moves(r, "core", [NoJob EXCEPT !.core = op, !.inside = recipients])
    /\ UNCHANGED <<note, counter, counterLock, app, world>>

\* clubs.applications.revise that passes the gate, with the administrators to tell.
Revise(r) == Begin(r, "revise", {"revising"}, Admin \cap inside)

\* clubadmin.applications.decide, clubs.applications.withdraw: the sponsor is to be told.
Decide(r) == Begin(r, "decide", {"awaiting"}, {Sponsor})
Withdraw(r) == Begin(r, "withdraw", {"revising", "awaiting"}, {Sponsor})

CoreNote(m, topic) == [NoNote EXCEPT !.to = m, !.topic = topic]

\* acknowledgeClubadminApplicationPendingNotifications
Acknowledged(op) ==
    [n \in NoteId |-> IF op = "decide" /\ Committed(n) /\ note[n].topic = "pending"
                      THEN [note[n] EXCEPT !.acked = TRUE] ELSE note[n]]

\* Delivers to every recipient, in the order they are listed in, or nothing is done at all.
CoreDelivers(r) ==
    LET op == job[r].core
        topic == IF op = "revise" THEN "pending" ELSE "resolved"
        told == job[r].inside
    IN
    /\ label[r] = "core"
    /\ told \subseteq inside
    /\ Last + Cardinality(told) <= MaxNote
    /\ app' = CASE op = "revise" -> "awaiting"
                [] op = "decide" -> "decided"
                [] op = "withdraw" -> "withdrawn"
    /\ \E order \in [1..Cardinality(told) -> told] :
         /\ \A m \in told : \E i \in DOMAIN order : order[i] = m
         /\ note' = Added(Acknowledged(op), [i \in DOMAIN order |-> CoreNote(order[i], topic)])
    /\ Ends(r)
    /\ UNCHANGED <<counter, world>>

CoreFails(r) ==
    /\ label[r] = "core"
    /\ ~(job[r].inside \subseteq inside)
    /\ Fails(r)

-----------------------------------------------------------------------------
(* Everybody else *)

Acks(n) ==
    /\ Committed(n) /\ ~note[n].acked
    /\ note' = [note EXCEPT ![n].acked = TRUE]
    /\ UNCHANGED <<counter, counterLock, app, appLock, label, job, world>>

\* updates.acknowledge, by the recipient
Acknowledge(n) == Acks(n)

\* /internal/notifications/acknowledge: a producer, of its own rows
Retract(n) == note[n].topic = "external" /\ Acks(n)

\* A membership ends or begins.
Crosses(m) ==
    /\ inside' = IF m \in inside THEN inside \ {m} ELSE inside \cup {m}
    /\ UNCHANGED <<note, counter, counterLock, clock, app, appLock, label, job>>

Tick ==
    /\ clock < MaxWindow
    /\ clock' = clock + 1
    /\ UNCHANGED <<note, counter, counterLock, inside, app, appLock, label, job>>

-----------------------------------------------------------------------------
Init ==
    /\ note = [n \in NoteId |-> NoNote]
    /\ counter = [w \in Window |-> 0]
    /\ counterLock = [w \in Window |-> Nobody]
    /\ inside = Member
    /\ clock = 1
    /\ app = "revising"
    /\ appLock = Nobody
    /\ label = [r \in Request |-> "idle"]
    /\ job = [r \in Request |-> NoJob]

Delivers(r) ==
    \/ \E b \in Batch : DeliverLoads(r, b)
    \/ Judge(r) \/ LockCounter(r) \/ InsertNote(r) \/ DeliverCommits(r)

Reviews(r) == Revise(r) \/ Decide(r) \/ Withdraw(r) \/ CoreDelivers(r) \/ CoreFails(r)

Next ==
    \/ \E r \in Request : Delivers(r) \/ Reviews(r) \/ Abort(r)
    \/ \E n \in NoteId : Acknowledge(n) \/ Retract(n)
    \/ \E m \in Member : Crosses(m)
    \/ Tick

Spec == Init /\ [][Next]_vars

\* What was begun goes on, the applicant revises, and an administrator or the applicant
\* keeps trying to close the application.
FairSpec ==
    /\ Spec
    /\ WF_vars(\E r \in Request : Reviews(r))
    /\ SF_vars(\E r \in Request : Decide(r))
    /\ SF_vars(\E r \in Request : Revise(r))

-----------------------------------------------------------------------------
(* Properties *)

TypeOK ==
    /\ note \in [NoteId -> [to : Member \cup {Nobody}, topic : Topic, key : Key \cup {Nobody},
                            print : {"a", "b"}, window : Window \cup {NoId}, acked : BOOLEAN,
                            owner : Request \cup {Nobody}]]
    /\ counter \in [Window -> Nat]
    /\ counterLock \in [Window -> Request \cup {Nobody}]
    /\ inside \subseteq Member /\ clock \in Window
    /\ app \in Phase /\ appLock \in Request \cup {Nobody}
    /\ label \in [Request -> {"idle", "judge", "charge", "insert", "core"}]
    /\ \A r \in Request :
         /\ job[r].batch \in Batch \cup {<<>>}
         /\ job[r].inside \subseteq Member
         /\ job[r].window \in Window \cup {NoId}
         /\ job[r].core \in {"none", "revise", "decide", "withdraw"}
         /\ job[r].results \in Seq([outcome : {"refused", "limited", "duplicate", "mismatch",
                                               "delivered"},
                                    id : NoteId \cup {NoId}, window : Window \cup {NoId}])

\* However often and however concurrently a producer sends a key, there is one row with
\* it, and what an answer says of its item is true of that row: delivered by this very
\* transaction, a duplicate with the same content, or a mismatch
\* (notification-substrate.ts:947, 1004).
AnswersHold ==
    /\ \A k \in Key : Cardinality(WithKey(k)) <= 1
    /\ \A r \in Request : \A i \in 1..Len(job[r].results) :
         LET x == job[r].results[i]
             item == job[r].batch[i]
             row == note[x.id]
         IN  x.outcome \in {"delivered", "duplicate", "mismatch"} =>
               /\ Visible(r, x.id) /\ row.key = item.key
               /\ x.outcome = "delivered" => row.owner = r /\ row.to = item.to
               /\ (x.outcome = "mismatch") # (row.print = item.print)

\* No more than Limit rows are delivered on the account of one window, by all requests
\* together, and the counter never forgets one that is committed, also when its
\* transaction outlives the window (notification-substrate.ts:675).
LimitHolds ==
    \A w \in Window :
        LET rows == {n \in NoteId : Exists(n) /\ note[n].window = w} IN
        /\ Cardinality(rows) <= Limit /\ counter[w] <= Limit
        /\ Cardinality({n \in rows : Committed(n)}) <= counter[w]

\* Once an application is decided nothing reopens it, and no administrator has an
\* unacknowledged notice that it awaits review, now or later (admission.ts:2453, 2555).
DecidedIsQuiet ==
    [][app = "decided" =>
         /\ app' = "decided"
         /\ \A n \in NoteId : (Exists(n) /\ note[n].topic = "pending")' => note'[n].acked]_vars

\* The documents promise that a decision, or else a withdrawal, ends an application.
ApplicationsClose == (app = "awaiting") ~> (app \in {"decided", "withdrawn"})
=============================================================================
