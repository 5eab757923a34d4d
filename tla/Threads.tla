------------------------------- MODULE Threads -------------------------------
(***************************************************************************)
(* The public threads of a club (src/src/clubs/content.ts): contents that  *)
(* start threads or reply in them, under the content.create quota of their *)
(* author (src/src/quotas.ts), whose role may change; loops that close and *)
(* reopen; contents that are removed or expire; a member whom a superadmin *)
(* deletes with all that the member wrote (src/src/identity/members.ts);   *)
(* and a reader who pages through the list of threads, or through one of   *)
(* them, meanwhile.                                                        *)
(*                                                                         *)
(* A content is written under the time its transaction began, and may be   *)
(* committed much later.  The quota is counted before, in a transaction of *)
(* its own.  The list is read in two transactions, and the cursor of the   *)
(* next page is made from what the second one still finds.                 *)
(***************************************************************************)
EXTENDS Naturals, FiniteSets

CONSTANTS
    Member,
    Reader,    \* the member who reads
    Nobody,
    MaxContent,  \* bound on contents, those to come included
    Initial,   \* contents that are there, each the subject of its own thread
    AuthorOf,  \* who wrote, or will write, a content
    Removable, \* contents somebody may remove
    Changing,  \* members whose role may change
    Loopable,  \* contents of kind ask, gift, service or opportunity
    Expiring,  \* contents that have a time of expiry
    Window,    \* the rolling windows of the quota
    Length,    \* Length[w]: how far window w reaches back
    Quota,     \* quotas a role may have in a club, each a number for every window
    InitialQuota,
    Limit,     \* threads or contents a page shows
    MaxClock,  \* bound on time
    MaxEdit    \* bound on removals, expiries and changes of loops and quotas

ASSUME ThreadAssumption ==
    /\ MaxContent \in Nat /\ MaxClock \in Nat \ {0} /\ MaxEdit \in Nat
    /\ Limit \in Nat \ {0}
    /\ Initial \cup Loopable \cup Expiring \cup Removable \subseteq 1..MaxContent
    /\ AuthorOf \in [1..MaxContent -> Member]
    /\ Length \in [Window -> Nat]
    /\ Quota \subseteq [Window -> Nat] /\ InitialQuota \in [Member -> Quota]
    /\ Reader \in Member /\ Changing \subseteq Member /\ Nobody \notin Member

\* A content and the thread it starts have one identifier; identifiers order rows of one time.
Content == 1..MaxContent
None == 0
Time == 1..MaxClock

NoRow == [thread |-> None, at |-> None, status |-> "none", open |-> FALSE]
NoThread == None
NoQuota == [w \in Window |-> 0]
NoJob == [label |-> "new", thread |-> None, at |-> None, under |-> NoQuota]
NoKey == <<None, None>>
NoSubject == [t \in Content |-> None]
NoWalk == [kind |-> "none", of |-> None, closed |-> FALSE, phase |-> "fetch", cursor |-> NoKey,
           page |-> {}, subject |-> NoSubject, more |-> FALSE, seen |-> {}, due |-> {},
           lost |-> {}, short |-> FALSE, emptied |-> FALSE, repeated |-> FALSE]

VARIABLES
    row,        \* contents, each with the state of its current version
    activity,   \* content_threads: last_activity_at, or NoThread
    job,        \* job[c]: the request that creates c, and the quota it was admitted under
    quota,      \* quota[m]: what the role of m and the quota of the club come to
    members,    \* members who have access to the club
    removing,   \* the member a transaction is deleting, which holds platform_stats
    overlapped, \* members of whom two creations were under way at one time
    clock, edits,
    walk        \* the reader's pages

vars == <<row, activity, job, quota, members, removing, overlapped, clock, edits, walk>>
world == <<members, clock, quota>>

-----------------------------------------------------------------------------
(* What is there *)

Rows == {c \in Content : row[c].status # "none"}
Threads == {t \in Content : activity[t] # NoThread}
RowsOf(t) == {c \in Rows : row[c].thread = t}
By(m) == {c \in Rows : AuthorOf[c] = m}

\* Every content in the window that ends now counts, the removed ones too.
Recent(m, w, now) == {c \in By(m) : row[c].at + Length[w] >= now}
Count(m, w) == Cardinality(Recent(m, w, clock))

Published(c) == row[c].status \in {"live", "expired"}
Earlier(c, d) == row[c].at < row[d].at \/ (row[c].at = row[d].at /\ c < d)
Subject(t) == CHOOSE c \in RowsOf(t) : \A d \in RowsOf(t) \ {c} : Earlier(c, d)

ShownLoop(c, closed) == c \notin Loopable \/ row[c].open \/ closed

\* An item of a thread, for a member: it may be removed, and is then a placeholder.
Counted(c, m, closed) ==
    \/ row[c].status = "removed"
    \/ row[c].status = "live" /\ (ShownLoop(c, closed) \/ AuthorOf[c] = m)

ClosedSubject(t, m, closed) ==
    LET s == Subject(t)
    IN  row[s].status # "removed" /\ ~ShownLoop(s, closed) /\ AuthorOf[s] # m

Listed(t, m, closed) ==
    /\ \E c \in RowsOf(t) : Counted(c, m, closed)
    /\ \E c \in RowsOf(t) : row[c].status = "live" /\ ShownLoop(c, closed)
    /\ ~ClosedSubject(t, m, closed)

Readable(t, m, closed) ==
    /\ \E c \in RowsOf(t) :
          row[c].status = "live" /\ (ShownLoop(c, closed) \/ AuthorOf[c] = m)
    /\ ~ClosedSubject(t, m, closed)

-----------------------------------------------------------------------------
(* content.create *)

Moves(c, to, thread, at, under) ==
    job' = [job EXCEPT ![c] = [label |-> to, thread |-> thread, at |-> at, under |-> under]]
Refused(c) == Moves(c, "over", None, None, NoQuota)

UnderWay(c) == job[c].label \in {"counted", "begun", "waiting"}
Together(c) == \E d \in Content \ {c} : AuthorOf[d] = AuthorOf[c] /\ UnderWay(d)

WithinQuotaMutant(m) == \A w \in Window : Count(m, w) <= quota[m][w]
WithinQuota(m) == \A w \in Window : Count(m, w) < quota[m][w]

Admitted(c) == AuthorOf[c] \in members

\* The threads c may reply in, and the one it may start.
Targets(c) == Threads \cup {c}

\* The club of the thread is looked up and the quota counted, under a lock that goes with
\* this transaction; the gate comes next.
Preflight(c, t) ==
    /\ job[c].label = "new"
    /\ Admitted(c)
    /\ t \in Targets(c)
    /\ IF WithinQuota(AuthorOf[c])
       THEN /\ Moves(c, "counted", t, None, quota[AuthorOf[c]])
            /\ overlapped' = overlapped \cup {m \in {AuthorOf[c]} : Together(c)}
       ELSE Refused(c) /\ UNCHANGED overlapped
    /\ UNCHANGED <<row, activity, removing, edits, world, walk>>

TargetThere(c) == Admitted(c) /\ job[c].thread \in Targets(c)

Begin(c) ==
    /\ job[c].label = "counted"
    /\ IF TargetThere(c) THEN Moves(c, "begun", job[c].thread, clock, job[c].under) ELSE Refused(c)
    /\ UNCHANGED <<row, activity, removing, overlapped, edits, world, walk>>

\* The insert has locked the row of its thread and waits for the platform's statistics.
Waits(c) ==
    /\ job[c].label = "begun"
    /\ removing # Nobody
    /\ TargetThere(c)
    /\ Moves(c, "waiting", job[c].thread, job[c].at, job[c].under)
    /\ UNCHANGED <<row, activity, removing, overlapped, edits, world, walk>>

NewRow(c) == [thread |-> job[c].thread, at |-> job[c].at, status |-> "live", open |-> c \in Loopable]

\* greatest(last_activity_at, created_at)
TouchedMutant(old, at) == at
Touched(old, at) == IF old > at THEN old ELSE at

\* The thread, if it is new, the content, its first version and the time of the thread.
Publish(c) ==
    /\ job[c].label \in {"begun", "waiting"}
    /\ removing = Nobody
    /\ IF TargetThere(c)
       THEN /\ row' = [row EXCEPT ![c] = NewRow(c)]
            /\ activity' = [activity EXCEPT ![job[c].thread] = Touched(@, job[c].at)]
       ELSE UNCHANGED <<row, activity>>
    /\ Refused(c)
    /\ UNCHANGED <<removing, overlapped, edits, world, walk>>

\* A gate that refuses, an error, a lost process.
Abort(c) ==
    /\ UnderWay(c)
    /\ Refused(c)
    /\ UNCHANGED <<row, activity, removing, overlapped, edits, world, walk>>

-----------------------------------------------------------------------------
(* Changes of contents *)

Edited == edits < MaxEdit /\ edits' = edits + 1
Standing(c) == c \in Rows /\ AuthorOf[c] # removing

\* By the author, or by an administrator of the club.
RemoveContent(c) ==
    /\ c \in Removable /\ Standing(c) /\ Published(c)
    /\ row' = [row EXCEPT ![c].status = "removed"]
    /\ Edited
    /\ UNCHANGED <<activity, job, removing, overlapped, world, walk>>

Expire(c) ==
    /\ c \in Expiring /\ row[c].status = "live"
    /\ row' = [row EXCEPT ![c].status = "expired"]
    /\ Edited
    /\ UNCHANGED <<activity, job, removing, overlapped, world, walk>>

SetLoopState(c, open) ==
    /\ Standing(c) /\ Published(c) /\ c \in Loopable
    /\ Admitted(c)
    /\ row[c].open # open
    /\ row' = [row EXCEPT ![c].open = open]
    /\ Edited
    /\ UNCHANGED <<activity, job, removing, overlapped, world, walk>>

Tick ==
    /\ clock < MaxClock
    /\ clock' = clock + 1
    /\ UNCHANGED <<row, activity, job, quota, removing, overlapped, edits, members, walk>>

\* A member becomes an administrator, or the owner, or is no more.
ChangeQuota(m, q) ==
    /\ m \in (Changing \cap members) \ {removing}
    /\ q # quota[m]
    /\ quota' = [quota EXCEPT ![m] = q]
    /\ Edited
    /\ UNCHANGED <<row, activity, job, removing, overlapped, members, clock, walk>>

-----------------------------------------------------------------------------
(* A superadmin deletes a member *)

\* The threads the member wrote in that nobody else wrote in.
Doomed(m) == {t \in Threads : RowsOf(t) # {} /\ RowsOf(t) \subseteq By(m)}

\* Owners of clubs and the last superadmin are refused; the reader stands for them.
RemovalAllowed(m) == m \in members \ {Reader}

\* The contents are deleted, not yet committed.
RemoveMember(m) ==
    /\ removing = Nobody
    /\ RemovalAllowed(m)
    /\ removing' = m
    /\ UNCHANGED <<row, activity, job, overlapped, edits, world, walk>>

Blocked(c) == job[c].label = "waiting" /\ job[c].thread \in Doomed(removing)

\* What the member left in other tables goes, or loses its name, in the same transaction.
RemovalCommits ==
    /\ removing # Nobody
    /\ \A c \in Content : ~Blocked(c)
    /\ row' = [c \in Content |-> IF AuthorOf[c] = removing THEN NoRow ELSE row[c]]
    /\ activity' = [t \in Content |-> IF t \in Doomed(removing) THEN NoThread ELSE activity[t]]
    /\ members' = members \ {removing}
    /\ removing' = Nobody
    /\ UNCHANGED <<job, quota, overlapped, clock, edits, walk>>

\* Also the choice of the database when the removal and a reply wait for each other;
\* the other choice is Abort.
RemovalFails ==
    /\ removing # Nobody
    /\ removing' = Nobody
    /\ UNCHANGED <<row, activity, job, overlapped, edits, world, walk>>

-----------------------------------------------------------------------------
(* The reader *)

\* A row of a page: the time and the identifier it is ordered by.
ThreadKeys(closed) ==
    {<<activity[t], t>> : t \in {t \in Threads : Listed(t, Reader, closed)}}
ItemKeys(t, closed) ==
    {<<row[c].at, c>> : c \in {c \in RowsOf(t) : Counted(c, Reader, closed)}}
Keys == IF walk.kind = "list" THEN ThreadKeys(walk.closed) ELSE ItemKeys(walk.of, walk.closed)

Above(k, l) == k[1] > l[1] \/ (k[1] = l[1] /\ k[2] > l[2])

Rank(k, set) == Cardinality({l \in set : Above(l, k)}) + 1
First(n, set) == {k \in set : Rank(k, set) <= n}
BeyondMutant(cursor, set) == {k \in set : cursor = NoKey \/ cursor[1] > k[1]}
Beyond(cursor, set) == {k \in set : cursor = NoKey \/ Above(cursor, k)}

\* The first contents of the threads of a page.
Subjects(page) == [t \in Content |-> IF \E k \in page : k[2] = t THEN Subject(t) ELSE None]

\* content.list, or content.get with the thread or one of its contents.  What is due is
\* what could be seen whenever the reader asked; at the end, what of that was missed.
Fetch(w, keys) ==
    LET left == Beyond(w.cursor, keys)
        page == First(Limit, left)
    IN  walk' = IF w.kind = "read" /\ ~Readable(w.of, Reader, w.closed)
                THEN [NoWalk EXCEPT !.kind = "read", !.phase = "refused"]
                ELSE [w EXCEPT !.phase = "load", !.page = page,
                               !.subject = IF w.kind = "list" THEN Subjects(page) ELSE NoSubject,
                               !.more = Cardinality(left) > Limit,
                               !.due = IF w.cursor = NoKey THEN keys ELSE @ \cap keys]

FirstPage(kind, t, closed) ==
    /\ walk = NoWalk
    /\ IF kind = "list" THEN t = None ELSE t \in Threads
    /\ Fetch([NoWalk EXCEPT !.kind = kind, !.of = t, !.closed = closed],
             IF kind = "list" THEN ThreadKeys(closed) ELSE ItemKeys(t, closed))
    /\ UNCHANGED <<row, activity, job, removing, overlapped, edits, world>>

NextPage ==
    /\ walk.phase = "fetch" /\ walk # NoWalk
    /\ Fetch(walk, Keys)
    /\ UNCHANGED <<row, activity, job, removing, overlapped, edits, world>>

\* The rows of the page whose contents are still there, and, in a thread, have not expired.
\* The list shows a thread by the content that was its first one when the page was fetched.
Loaded == {k \in walk.page :
             IF walk.kind = "list" THEN walk.subject[k[2]] \in Rows
             ELSE k[2] \in Rows /\ row[k[2]].status # "expired"}
Dropped == IF walk.kind = "list" THEN walk.page \ Loaded ELSE {}

Nth(n) == CHOOSE k \in walk.page : Rank(k, walk.page) = n

\* The list counts what it loaded to find its last row, a thread takes the last row.
NextCursor ==
    LET n == Cardinality(IF walk.kind = "list" THEN Loaded ELSE walk.page)
    IN  IF walk.more /\ n > 0 THEN Nth(n) ELSE NoKey

\* A page without a cursor is the last one.
LoadPage ==
    /\ walk.phase = "load"
    /\ LET seen == walk.seen \cup Loaded
           due == walk.due \cap Keys
           last == NextCursor = NoKey
       IN  walk' = [walk EXCEPT
                      !.phase = IF last THEN "end" ELSE "fetch",
                      !.cursor = NextCursor,
                      !.page = {}, !.subject = NoSubject, !.more = FALSE,
                      !.lost = @ \cup Dropped,
                      !.seen = IF last THEN {} ELSE seen,
                      !.due = IF last THEN due \ seen ELSE due,
                      !.short = @ \/ Loaded # walk.page,
                      !.emptied = walk.more /\ Loaded = {},
                      !.repeated = @ \/ Loaded \cap walk.seen # {}]
    /\ UNCHANGED <<row, activity, job, removing, overlapped, edits, world>>

-----------------------------------------------------------------------------
(* The specification *)

Init ==
    /\ row = [c \in Content |-> IF c \in Initial
                                THEN [thread |-> c, at |-> 1, status |-> "live",
                                      open |-> c \in Loopable]
                                ELSE NoRow]
    /\ activity = [t \in Content |-> IF t \in Initial THEN 1 ELSE NoThread]
    /\ job = [c \in Content |-> IF c \in Initial THEN [NoJob EXCEPT !.label = "over"] ELSE NoJob]
    /\ quota = InitialQuota
    /\ members = Member
    /\ removing = Nobody
    /\ overlapped = {}
    /\ clock = 1 /\ edits = 0
    /\ walk = NoWalk

Next ==
    \/ \E c \in Content : \/ \E t \in Content : Preflight(c, t)
                          \/ Begin(c) \/ Waits(c) \/ Publish(c) \/ Abort(c)
                          \/ RemoveContent(c) \/ Expire(c)
                          \/ \E open \in BOOLEAN : SetLoopState(c, open)
    \/ \E m \in Member : RemoveMember(m)
    \/ RemovalCommits \/ RemovalFails
    \/ \E m \in Member, q \in Quota : ChangeQuota(m, q)
    \/ \E kind \in {"list", "read"}, t \in Content \cup {None}, closed \in BOOLEAN :
          FirstPage(kind, t, closed)
    \/ NextPage \/ LoadPage
    \/ Tick

Spec == Init /\ [][Next]_vars

-----------------------------------------------------------------------------
(* Properties *)

Key == (Time \cup {None}) \X (Content \cup {None})

\* Every variable has its type.
TypeOK ==
    /\ row \in [Content -> [thread : Content \cup {None}, at : Time \cup {None},
                            status : {"none", "live", "expired", "removed"}, open : BOOLEAN]]
    /\ activity \in [Content -> Time \cup {NoThread}]
    /\ job \in [Content -> [label : {"new", "counted", "begun", "waiting", "over"},
                            thread : Content \cup {None}, at : Time \cup {None},
                            under : Quota \cup {NoQuota}]]
    /\ quota \in [Member -> Quota]
    /\ members \subseteq Member /\ overlapped \subseteq Member
    /\ removing \in Member \cup {Nobody}
    /\ clock \in Time /\ edits \in 0..MaxEdit
    /\ walk.cursor \in Key /\ walk.page \subseteq Key /\ walk.seen \subseteq Key

\* Whoever pages to the end has seen every thread (every item of the thread) that was to be
\* seen, and did not move, from the first page on.  The list has two exceptions.  A thread
\* that outlives its first author, because others wrote in it, is left out of a page, and of
\* the walk, when the author is deleted between the two transactions of the page.  And when
\* all that a page shows was deleted there, it has no cursor for the rest although it says
\* that there is more.
WalkComplete ==
    walk.phase = "end" =>
        walk.due = {} \/ (walk.kind = "list" /\ (walk.emptied \/ walk.due \subseteq walk.lost))

\* No page shows again what an earlier one showed, unless a page of the list came out
\* short: its cursor then stands before rows it did show.
WalkAdvances == walk.repeated => walk.kind = "list" /\ walk.short

\* A walk is complete and advances, but for those exceptions.
WalkSound == WalkComplete /\ WalkAdvances

\* However late a reply is committed, its thread is listed at the time of its latest content
\* or after: replies that overtake each other never set it back.
ActivityCoversContents == \A c \in Rows : row[c].thread \in Threads /\ activity[row[c].thread] >= row[c].at

\* The preflight and the insert are two transactions, so a content can exceed the quota its
\* author was counted against, in some window that ends when it is created, but only when two
\* of the author's creations were under way at one time.  A quota that is lowered later does
\* not matter to what is there.
OverQuotaNeedsOverlap ==
    [][\A c \in Rows' \ Rows : AuthorOf[c] \notin overlapped =>
         \A w \in Window :
            Cardinality(Recent(AuthorOf[c], w, row[c].at)') <= job[c].under[w]]_vars

=============================================================================
