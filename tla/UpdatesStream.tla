---------------------------- MODULE UpdatesStream ----------------------------
(***************************************************************************)
(* The realtime side channel GET /stream (src/src/server.ts): a member's   *)
(* client follows two numbered logs of the database, the activity of its   *)
(* club and its own message inbox, over a connection that it loses and     *)
(* reopens with the id of the last frame it received.                      *)
(*                                                                         *)
(* A row gets its number when it is inserted and is visible when the       *)
(* transaction commits, so rows may appear out of the order of their       *)
(* numbers.  The server runs one loop per connection; a loop may outlive   *)
(* its connection.  The client holds one connection at a time and numbers  *)
(* the connections it opens.  Its clubs and roles do not change.           *)
(***************************************************************************)
EXTENDS Naturals, Sequences, FiniteSets, FiniteSetsExt, Functions

CONSTANTS
    None,        \* a cursor that is null: the client asks for "latest"
    MaxRows,     \* MaxRows[p]: bound on the rows of log p
    MaxConn,     \* bound on the connections the client opens
    Hideable,    \* logs whose rows may be hidden
    Limit,       \* rows of a page
    MaxStreams   \* policy.transport.maxStreamsPerMember

Log == {"activity", "inbox"}
Conn == 1 .. MaxConn

ASSUME StreamAssumption ==
    /\ None \notin Nat
    /\ MaxRows \in [Log -> Nat]
    /\ MaxConn \in Nat
    /\ Hideable \subseteq Log
    /\ Limit \in Nat \ {0}
    /\ MaxStreams \in Nat \ {0}

VARIABLES
    \* the database
    row,        \* row[p][n]: the row of log p with number n
    overtaken,  \* overtaken[p]: numbers that committed after a higher one
    valid,      \* the bearer token is neither revoked nor expired
    \* the server
    pc,         \* pc[c]: the await the handler of connection c is at
    cursor,     \* cursor[c]: activitySeq and inboxSeq of c
    unsent,     \* unsent[c]: the frames of the seeds, written when c is ready
    delivered,  \* delivered[c]: deliveredFrames
    aborted,    \* aborted[c]: the abort signal of c
    handles,    \* activeStreams of the member, oldest first
    \* the client
    opened,     \* connections opened so far
    held,       \* the connection the client holds, or 0
    wire,       \* frames written to the held connection and not yet received
    eof,        \* the server has ended the held connection
    last,       \* id of the last frame received
    base,       \* id of the first frame received
    received    \* received[p]: numbers received of log p

db == <<row, overtaken, valid>>
stream == <<pc, cursor, unsent, delivered, aborted>>
client == <<opened, held, wire, eof, last, base, received>>
vars == <<db, stream, handles, client>>

-----------------------------------------------------------------------------
(* Rows.  A hidden row is acknowledged or its message or content removed.  *)
(* A number is never used again when its transaction fails: that row stays *)
(* "writing" like one whose transaction is still open.                     *)

RowState == {"none", "writing", "visible", "hidden"}
Number(p) == 1 .. MaxRows[p]
Committed(p, n) == row[p][n] \in {"visible", "hidden"}

\* The high-water mark a stream without a cursor starts from.
HighWater(p) == Max({0} \cup {n \in Number(p) : Committed(p, n)})

BeyondMutant(n, after) == n >= after

\* Cursors are exclusive.
Beyond(n, after) == n > after

\* What a log has beyond a cursor, and the first Limit numbers of it.
Listed(p, after) == {n \in Number(p) : row[p][n] = "visible" /\ Beyond(n, after)}

FirstOf(S) == {n \in S : Cardinality({m \in S : m < n}) < Limit}

\* The page of a log beyond a cursor, in the order of its numbers.
Ordered(S) ==
    {s \in [1 .. Cardinality(S) -> S] :
        Range(s) = S /\ \A i, j \in DOMAIN s : i < j => s[i] < s[j]}

Pages(p, after) == Ordered(FirstOf(Listed(p, after)))

-----------------------------------------------------------------------------
(* Frames.  The id of a frame is the cursor a client resumes from.         *)

Cursor == [Log -> Nat \cup {None}]
Latest == [p \in Log |-> None]

composeStreamResumeId(cur) == [p \in Log |-> IF cur[p] = None THEN 0 ELSE cur[p]]

Frame == [log : Log \cup {"ready"}, n : Nat, id : [Log -> Nat]]

\* The frame of row n, written while the cursor of the other log is in cur.
RowFrame(p, n, cur) ==
    [log |-> p, n |-> n, id |-> composeStreamResumeId([cur EXCEPT ![p] = n])]

\* The cursor after a page.
After(p, page, cur) ==
    IF page = <<>> THEN cur ELSE [cur EXCEPT ![p] = page[Len(page)]]

\* Every frame of a page carries the cursor at its end.
RowFramesMutant(p, page, cur) ==
    [i \in DOMAIN page |-> [log |-> p, n |-> page[i],
                            id |-> composeStreamResumeId(After(p, page, cur))]]
RowFrames(p, page, cur) == [i \in DOMAIN page |-> RowFrame(p, page[i], cur)]

ReadyFrame(cur) == [log |-> "ready", n |-> 0, id |-> composeStreamResumeId(cur)]

\* What is written to a connection the client has left, or the server ended,
\* reaches nobody.
Written(c, frames) == IF c = held /\ ~eof THEN wire \o frames ELSE wire

-----------------------------------------------------------------------------
Init ==
    /\ row = [p \in Log |-> [n \in Number(p) |-> "none"]]
    /\ overtaken = [p \in Log |-> {}]
    /\ valid = TRUE
    /\ pc = [c \in Conn |-> "unopened"]
    /\ cursor = [c \in Conn |-> Latest]
    /\ unsent = [c \in Conn |-> <<>>]
    /\ delivered = [c \in Conn |-> FALSE]
    /\ aborted = [c \in Conn |-> FALSE]
    /\ handles = <<>>
    /\ opened = 0
    /\ held = 0
    /\ wire = <<>>
    /\ eof = FALSE
    /\ last = Latest
    /\ base = Latest
    /\ received = [p \in Log |-> {}]

-----------------------------------------------------------------------------
(* Writers.                                                                *)

\* The trigger of dm_messages updates the one row of platform_stats, which stays locked
\* until the message commits: messages are inserted in turn.
InTurn(p) == p = "inbox" => \A m \in Number(p) : row[p][m] # "writing"

\* appendClubActivity, or sendMessage to the member, inside a transaction.
Insert(p, n) ==
    /\ row[p][n] = "none"
    /\ InTurn(p)
    /\ \A m \in Number(p) : m < n => row[p][m] # "none"
    /\ row' = [row EXCEPT ![p][n] = "writing"]
    /\ UNCHANGED <<overtaken, valid, stream, handles, client>>

Commit(p, n) ==
    /\ row[p][n] = "writing"
    /\ row' = [row EXCEPT ![p][n] = "visible"]
    /\ overtaken' = [overtaken EXCEPT ![p] =
           IF \E m \in Number(p) : m > n /\ Committed(p, m) THEN @ \cup {n} ELSE @]
    /\ UNCHANGED <<valid, stream, handles, client>>

\* acknowledgeInbox, the acknowledgement by a reply, removeMessage, or the
\* removal of the content an activity is about.
Hide(p, n) ==
    /\ p \in Hideable
    /\ row[p][n] = "visible"
    /\ row' = [row EXCEPT ![p][n] = "hidden"]
    /\ UNCHANGED <<overtaken, valid, stream, handles, client>>

RevokeToken ==
    /\ valid
    /\ valid' = FALSE
    /\ UNCHANGED <<row, overtaken, stream, handles, client>>

-----------------------------------------------------------------------------
(* The client.                                                             *)

\* A request for the stream, up to its first await after authentication.
Connect ==
    /\ held = 0
    /\ opened < MaxConn
    /\ valid
    /\ opened' = opened + 1
    /\ held' = opened'
    /\ eof' = FALSE
    /\ pc' = [pc EXCEPT ![opened'] = "seed_activity"]
    /\ cursor' = [cursor EXCEPT ![opened'] = last]
    /\ UNCHANGED <<db, unsent, delivered, aborted, handles,
                   wire, last, base, received>>

\* The next frame arrives; its id is what the client resumes from.
Receive ==
    /\ wire # <<>>
    /\ LET f == Head(wire) IN
       /\ last' = f.id
       /\ base' = IF base = Latest THEN f.id ELSE base
       /\ received' = [p \in Log |-> IF f.log = p THEN received[p] \cup {f.n}
                                     ELSE received[p]]
    /\ wire' = Tail(wire)
    /\ UNCHANGED <<db, stream, handles, opened, held, eof>>

\* The client leaves, or its connection breaks: what was on the wire is lost.
Drop ==
    /\ held # 0
    /\ held' = 0
    /\ wire' = <<>>
    /\ eof' = FALSE
    /\ UNCHANGED <<db, stream, handles, opened, last, base, received>>

SeeEnd ==
    /\ held # 0
    /\ eof
    /\ wire = <<>>
    /\ held' = 0
    /\ eof' = FALSE
    /\ UNCHANGED <<db, stream, handles, opened, wire, last, base, received>>

-----------------------------------------------------------------------------
(* The server's end of a connection.                                       *)

InLoop == {"round", "list_inbox", "waiting"}
Running == {"seed_activity", "seed_inbox", "ready"} \cup InLoop

\* Where an abort leaves the handlers of S.  A wait is rejected; a loop that is
\* reading ends at its next round, and what it writes until then reaches nobody,
\* so it may as well end at once.  The seeds do not look at the signal.
AfterAbort(S) ==
    [c \in Conn |-> IF c \in S /\ pc[c] \in InLoop THEN "done" ELSE pc[c]]

\* A handler that returns forgets its locals.
Forget(cur) == [c \in Conn |-> IF pc'[c] = "done" THEN Latest ELSE cur[c]]

Without(h, c) ==
    LET at == {i \in DOMAIN h : h[i] = c}
    IN  IF at = {} THEN h
        ELSE SubSeq(h, 1, Min(at) - 1) \o SubSeq(h, Min(at) + 1, Len(h))

\* The close event of a request: abortStream and, if the handler is past
\* "ready", the cleanup it registered there.
NoticeClose(c) ==
    /\ pc[c] \in Running
    /\ ~aborted[c]
    /\ c # held
    /\ aborted' = [aborted EXCEPT ![c] = TRUE]
    /\ pc' = AfterAbort({c})
    /\ cursor' = Forget(cursor)
    /\ handles' = Without(handles, c)
    /\ UNCHANGED <<db, unsent, delivered, client>>

\* The first read of a log: the high-water mark without a cursor, a page of
\* frames with one.  The frames are written after the last seed.
Seed(c, p, at, next) ==
    LET cur == cursor[c] IN
    /\ pc[c] = at
    /\ \/ /\ cur[p] = None
          /\ cursor' = [cursor EXCEPT ![c] = [cur EXCEPT ![p] = HighWater(p)]]
          /\ UNCHANGED unsent
       \/ /\ cur[p] # None
          /\ \E page \in Pages(p, cur[p]) :
                /\ unsent' = [unsent EXCEPT ![c] = @ \o RowFrames(p, page, cur)]
                /\ cursor' = [cursor EXCEPT ![c] = After(p, page, cur)]
    /\ pc' = [pc EXCEPT ![c] = next]
    /\ UNCHANGED <<db, delivered, aborted, handles, client>>

SeedActivity(c) == Seed(c, "activity", "seed_activity", "seed_inbox")
SeedInbox(c)    == Seed(c, "inbox", "seed_inbox", "ready")

\* How many streams to evict, oldest first.
Excess(h) == IF Len(h) > MaxStreams THEN Len(h) - MaxStreams ELSE 0

\* After the last seed: headers, the frames of the seeds, "ready", the handle,
\* the eviction of the oldest streams.  Only the loop asks for the signal.
Ready(c) ==
    LET all     == Append(handles, c)
        evicted == {all[i] : i \in 1 .. Excess(all)}
    IN  /\ pc[c] = "ready"
        /\ wire' = Written(c, Append(unsent[c], ReadyFrame(cursor[c])))
        /\ unsent' = [unsent EXCEPT ![c] = <<>>]
        /\ handles' = SubSeq(all, Excess(all) + 1, Len(all))
        /\ aborted' = [d \in Conn |-> aborted[d] \/ d \in evicted]
        /\ eof' = (eof \/ held \in evicted)
        /\ pc' = [AfterAbort(evicted) EXCEPT ![c] =
                   IF aborted[c] THEN "done" ELSE "round"]
        /\ cursor' = Forget(cursor)
        /\ UNCHANGED <<db, delivered, opened, held, last, base, received>>

ExpiredMutant == FALSE

\* What refreshScopeIfDue finds, in a round in which it is due.
Expired == ~valid

\* The head of the loop: an expired token ends the stream, and the response
\* that ends closes the request, whose cleanup removes the handle.
Leave(c) ==
    /\ pc[c] = "round"
    /\ Expired
    /\ eof' = (eof \/ c = held)
    /\ pc' = [pc EXCEPT ![c] = "done"]
    /\ cursor' = Forget(cursor)
    /\ handles' = Without(handles, c)
    /\ UNCHANGED <<db, unsent, delivered, aborted, opened, held, wire, last,
                   base, received>>

\* A page of log p and its frames.
Send(c, p, page) ==
    /\ wire' = Written(c, RowFrames(p, page, cursor[c]))
    /\ cursor' = [cursor EXCEPT ![c] = After(p, page, @)]
    /\ UNCHANGED <<db, unsent, aborted, handles, opened, held, eof, last,
                   base, received>>

\* The check is not due in every round: a loop may go on for a while.  While
\* the token is valid the check changes nothing, as the member's clubs do not.
ListActivity(c) ==
    /\ pc[c] = "round"
    /\ \E page \in Pages("activity", cursor[c]["activity"]) :
          /\ Send(c, "activity", page)
          /\ delivered' = [delivered EXCEPT ![c] = page # <<>>]
    /\ pc' = [pc EXCEPT ![c] = "list_inbox"]

\* The inbox, and another round if either log had something.
ListInbox(c) ==
    /\ pc[c] = "list_inbox"
    /\ \E page \in Pages("inbox", cursor[c]["inbox"]) :
          /\ delivered[c] \/ page # <<>>
          /\ Send(c, "inbox", page)
    /\ delivered' = [delivered EXCEPT ![c] = FALSE]
    /\ pc' = [pc EXCEPT ![c] = "round"]

\* Nothing to send: waitForUpdate.  While the notifier's client is not
\* listening, or once it fails, the wait is a sleep that no notification ends.
WaitForUpdate(c) ==
    /\ pc[c] = "list_inbox"
    /\ ~delivered[c]
    /\ Listed("inbox", cursor[c]["inbox"]) = {}
    /\ pc' = [pc EXCEPT ![c] = "waiting"]
    /\ UNCHANGED <<db, cursor, unsent, delivered, aborted, handles, client>>

\* A notification of any kind reaches a waiter of the member; a loop that is
\* not waiting at that moment, or only sleeps, does not learn of it.
Notify(c) ==
    /\ pc[c] = "waiting"
    /\ pc' = [pc EXCEPT ![c] = "round"]
    /\ UNCHANGED <<db, cursor, unsent, delivered, aborted, handles, client>>

HeartbeatMutant(c) == FALSE

\* A wait has a timeout, whatever the notifier does.
Heartbeat(c) == pc[c] = "waiting"

Timeout(c) ==
    /\ Heartbeat(c)
    /\ pc' = [pc EXCEPT ![c] = "round"]
    /\ UNCHANGED <<db, cursor, unsent, delivered, aborted, handles, client>>

-----------------------------------------------------------------------------
Serve(c) ==
    \/ SeedActivity(c) \/ SeedInbox(c) \/ Ready(c)
    \/ Leave(c) \/ ListActivity(c) \/ ListInbox(c)
    \/ WaitForUpdate(c) \/ Timeout(c)

Next ==
    \/ \E p \in Log : \E n \in Number(p) :
          Insert(p, n) \/ Commit(p, n) \/ Hide(p, n)
    \/ RevokeToken
    \/ Connect \/ Receive \/ Drop \/ SeeEnd
    \/ \E c \in Conn : Serve(c) \/ Notify(c) \/ NoticeClose(c)

Spec == Init /\ [][Next]_vars

\* Queries return, timers fire, the network delivers, the client reconnects,
\* and the scope check falls due in some round (hence SF).
\* Writers, the notifier and the close events are not trusted to.
Fairness ==
    /\ \A c \in Conn : WF_vars(Serve(c)) /\ SF_vars(Leave(c))
    /\ WF_vars(Connect \/ Receive \/ SeeEnd)

FairSpec == Spec /\ Fairness

-----------------------------------------------------------------------------
(* Properties.                                                             *)

\* Types, and what bounds the table of streams: the cap of server.ts:819.
TypeOK ==
    /\ \A p \in Log :
          /\ row[p] \in [Number(p) -> RowState]
          /\ overtaken[p] \subseteq Number(p) /\ received[p] \subseteq Number(p)
    /\ valid \in BOOLEAN /\ eof \in BOOLEAN
    /\ pc \in [Conn -> Running \cup {"unopened", "done"}]
    /\ cursor \in [Conn -> Cursor]
    /\ unsent \in [Conn -> Seq(Frame)] /\ wire \in Seq(Frame)
    /\ delivered \in [Conn -> BOOLEAN] 
    /\ aborted \in [Conn -> BOOLEAN]
    /\ handles \in Seq(Conn) /\ Len(handles) <= MaxStreams
    /\ opened \in 0 .. MaxConn /\ held \in 0 .. opened
    /\ last \in Cursor /\ base \in Cursor

\* Resuming from the id of the last frame brings no row twice, wherever the
\* connection broke (SKILL.md:56: "without duplicates"): what is on the wire
\* is new to the client, and in order.
NoDuplicates ==
    \A i \in DOMAIN wire : \A p \in Log :
       wire[i].log = p =>
          /\ wire[i].n \notin received[p]
          /\ \A j \in 1 .. i - 1 : wire[j].log = p => wire[j].n < wire[i].n

Subscribed == base # Latest

\* A row committed in the order of its number that the client could have seen.
InOrder(p, n) ==
    /\ row[p][n] = "visible"
    /\ Subscribed /\ n > base[p]
    /\ n \notin overtaken[p]

\* The id a client resumes from covers no row it has not received, unless the
\* row committed after one with a higher number: a connection may break
\* between any two frames, seeds included (server.ts:743, 771-796).
NothingSkipped ==
    \A p \in Log : \A n \in Number(p) :
       InOrder(p, n) /\ n <= last[p] => n \in received[p]

\* The same without the exception, which is what design-decisions.md:399
\* promises ("delivery semantics are at-least-once").  It is false.
AtLeastOnce ==
    \A p \in Log : \A n \in Number(p) :
       row[p][n] = "visible" /\ Subscribed /\ n > base[p] /\ n <= last[p]
          => n \in received[p]

\* "The newest connection wins" (SKILL.md:64, server.ts:245): a stream is
\* superseded only by a connection the client opened after it.  It is false.
NewestWins ==
    [][\A c \in Conn : pc[c] = "ready" /\ pc'[c] # "ready" /\ ~eof /\ eof'
                       => held < c]_vars

OutOfConnections == opened = MaxConn /\ held = 0

CaughtUp ==
    \A p \in Log : \A n \in Number(p) : InOrder(p, n) => n \in received[p]

\* Whatever wake-ups are missed (server.ts:927, member-updates-notifier.ts:130)
\* and connections lost, a client that has a connection left and a valid token
\* catches up with every row that commits in order.
CatchesUp == []<>(CaughtUp \/ ~valid \/ OutOfConnections)

\* A revoked token ends every stream that was opened with it, also one that
\* was still reading its seeds (server.ts:847-867).
RevokedStreamsEnd ==
    ~valid ~> (\A c \in Conn : pc[c] \in {"unopened", "done"})

=============================================================================
