------------------------------ MODULE Contents ------------------------------
(***************************************************************************)
(* One event of a club: the versions its author publishes, the answers of  *)
(* the members, the notifications attendees get, and the removal and       *)
(* restoration of the club it belongs to (src/src/clubs/content.ts,        *)
(* clubs/events.ts, identity/clubs.ts).                                    *)
(*                                                                         *)
(* updateContent, removeContent and cancelEventRsvp run at READ COMMITTED: *)
(* every statement sees what is committed when it starts.  rsvpEvent is    *)
(* SERIALIZABLE: all of it sees the state of its first statement, and the  *)
(* database refuses it if another such transaction that answered the same  *)
(* event has committed since.  removeClub holds the row of the club, which *)
(* every transaction that inserts a notification or an activity refers to. *)
(*                                                                         *)
(* A version with an owner is not committed.  An event that has started or *)
(* expired takes no answers: time only ends what is modelled here.         *)
(***************************************************************************)
EXTENDS Naturals, FiniteSets

CONSTANTS
    Member,     \* members of the club
    Author,     \* the member whose event it is
    Capacity,   \* seats an event may have
    Asked,      \* answers members give
    Request,    \* requests being served at one time
    Mortal,     \* requests that may die, or lose their connection
    Nobody,     \* no owner, no member
    Returner,   \* members who may come back after they left
    Retries,    \* attempts after a serialization failure
    MaxVersion  \* bound on versions

NoLimit == 0

ASSUME ContentAssumption ==
    /\ IsFiniteSet(Member) /\ Author \in Member
    /\ Capacity \subseteq Nat /\ Capacity # {}
    /\ Asked \subseteq {"yes", "maybe", "no", "waitlist"}
    /\ Nobody \notin Request \cup Member
    /\ Mortal \subseteq Request /\ Returner \subseteq Member
    /\ Retries \in Nat /\ MaxVersion \in Nat \ {0}

Number == 1..MaxVersion
None == 0

Answer == Asked \cup {"waitlist", "none", "cancelled"}

\* "told" are the members a version is announced to, "out" those who held an answer but were
\* not in the club when these were listed.
NoVersion == [state |-> "none", capacity |-> NoLimit, by |-> Nobody, owner |-> Nobody,
              told |-> {}, out |-> {}]
\* "for" is the version the member had read, "upto" the newest one when the answer committed.
NoAnswer == [answer |-> "none", for |-> None, upto |-> None]
NoJob == [member |-> Nobody, answer |-> "none", capacity |-> NoLimit, version |-> None,
          full |-> FALSE, stale |-> FALSE, overtaken |-> FALSE, attempt |-> 0]
NoArchive == [version |-> [n \in Number |-> NoVersion], rsvp |-> [m \in Member |-> NoAnswer]]

VARIABLES
    version,    \* content_versions with event_version_details
    rsvp,       \* rsvp[m]: the current row of event_rsvps of m
    active,     \* members with an active membership
    club,       \* "live", "archived" or "gone"
    clubLock,   \* the row of clubs, FOR UPDATE
    archive,    \* the payload in club_removal_archives
    label, job

vars == <<version, rsvp, active, club, clubLock, archive, label, job>>
clubState == <<club, clubLock, archive>>

-----------------------------------------------------------------------------
(* Reads *)

Committed(n) == version[n].state # "none" /\ version[n].owner = Nobody
Current == Cardinality({n \in Number : Committed(n)})
Newest == Cardinality({n \in Number : version[n].state # "none"})
Exists == Current > 0

PublishedMutant == Exists
Published == Exists /\ version[Current].state = "published"

Yes == {m \in Member : rsvp[m].answer = "yes"}
Live(m) == rsvp[m].answer \notin {"none", "cancelled"}

\* listEventNotificationRecipientIds
Recipients(by) == {m \in active : Live(m)} \ {by}

\* Whom it leaves out, although they hold an answer.
Absent == {m \in Member \ active : Live(m)}

-----------------------------------------------------------------------------
(* Requests *)

Moves(r, to, j) == /\ label' = [label EXCEPT ![r] = to]
                   /\ job' = [job EXCEPT ![r] = j]

Ends(r) == Moves(r, "idle", NoJob)

Fails(r) ==
    /\ Ends(r)
    /\ version' = [n \in Number |-> IF version[n].owner = r THEN NoVersion ELSE version[n]]
    /\ rsvp' = [m \in Member |-> IF \E n \in Number : version[n].owner = r
                                  THEN [rsvp[m] EXCEPT !.upto = IF @ > Current THEN Current ELSE @]
                                  ELSE rsvp[m]]
    /\ IF clubLock = r THEN clubLock' = Nobody /\ archive' = NoArchive
                       ELSE UNCHANGED <<clubLock, archive>>
    /\ UNCHANGED <<active, club>>

Abort(r) == r \in Mortal /\ label[r] # "idle" /\ Fails(r)

\* A notification or an activity refers to the row of the club.
ClubFreeMutant == TRUE
ClubFree == clubLock = Nobody

-----------------------------------------------------------------------------
(* content.update and content.remove *)

UpdateReads(r, cap) ==
    /\ label[r] = "idle"
    /\ club = "live" /\ Author \in active /\ Published
    /\ Moves(r, "update", [NoJob EXCEPT !.member = Author, !.capacity = cap, !.version = Current])
    /\ UNCHANGED <<version, rsvp, active, clubState>>

\* By the author, or by an administrator as moderator.
RemoveReads(r, by) ==
    /\ label[r] = "idle"
    /\ club = "live" /\ by \in active /\ Published
    /\ Moves(r, "remove", [NoJob EXCEPT !.member = by, !.capacity = version[Current].capacity,
                                        !.version = Current])
    /\ UNCHANGED <<version, rsvp, active, clubState>>

\* The insert waits for one of the same number that is not committed.
NumberFree(r) == Newest = Current /\ Current = job[r].version

PublishInserts(r) ==
    LET n == Current + 1 IN
    /\ label[r] \in {"update", "remove"}
    /\ Exists /\ NumberFree(r) /\ n \in Number
    /\ version' = [version EXCEPT ![n] =
                     [state |-> IF label[r] = "update" THEN "published" ELSE "removed",
                      capacity |-> job[r].capacity, by |-> job[r].member, owner |-> r,
                      told |-> {}, out |-> {}]]
    /\ Moves(r, "list", job[r])
    /\ UNCHANGED <<rsvp, active, clubState>>

\* content_versions_content_version_unique, or the content is gone.
PublishConflicts(r) ==
    /\ label[r] \in {"update", "remove"}
    /\ Newest = Current /\ Current # job[r].version
    /\ Fails(r)

Lists(r) ==
    /\ label[r] = "list"
    /\ version' = [n \in Number |-> IF version[n].owner = r
                                    THEN [version[n] EXCEPT !.told = Recipients(job[r].member),
                                                            !.out = Absent]
                                    ELSE version[n]]
    /\ Moves(r, "publish", job[r])
    /\ UNCHANGED <<rsvp, active, clubState>>

\* deliverCoreNotifications, appendClubActivity, enqueueEmbeddingJob, COMMIT.
\* A recipient who has left meanwhile fails the whole transaction.
PublishCommits(r) ==
    /\ label[r] = "publish"
    /\ ClubFree
    /\ \A n \in Number : version[n].owner = r => version[n].told \subseteq active
    /\ version' = [n \in Number |-> IF version[n].owner = r
                                    THEN [version[n] EXCEPT !.owner = Nobody] ELSE version[n]]
    /\ Ends(r)
    /\ UNCHANGED <<rsvp, active, clubState>>

PublishFails(r) ==
    /\ label[r] = "publish"
    /\ ClubFree
    /\ \E n \in Number : version[n].owner = r /\ ~ version[n].told \subseteq active
    /\ Fails(r)

-----------------------------------------------------------------------------
(* event.rsvp *)

Serving == {"claim", "answer", "answered"}  \* labels of rsvpEvent from its snapshot on
Claimed == {"answer", "answered", "cancel"} \* labels that hold the lock of the member

\* What the transaction will count, and the seats it will compare the count with.
Full(m) == Cardinality(Yes \ {m}) >= version[Current].capacity

\* resolveEventIdentity takes the snapshot.
Snapshot(r, j) ==
    Moves(r, "claim", [j EXCEPT !.version = Current, !.full = Full(j.member),
                                !.capacity = version[Current].capacity])

RsvpBegins(r, m, answer) ==
    /\ label[r] = "idle"
    /\ club = "live" /\ m \in active /\ Published
    /\ Snapshot(r, [NoJob EXCEPT !.member = m, !.answer = answer])
    /\ UNCHANGED <<version, rsvp, active, clubState>>

\* The same on another attempt, which ends if the event is not open any more.
RsvpBeginsAgain(r) ==
    /\ label[r] = "again"
    /\ IF Published THEN Snapshot(r, job[r]) ELSE Ends(r)
    /\ UNCHANGED <<version, rsvp, active, clubState>>

\* pg_try_advisory_xact_lock: assertEventRsvpWriteAvailable
Busy(r, m) == \E q \in Request \ {r} : label[q] \in Claimed /\ job[q].member = m

Claims(r) ==
    /\ label[r] = "claim"
    /\ IF Busy(r, job[r].member) THEN Fails(r)
       ELSE Moves(r, "answer", job[r]) /\ UNCHANGED <<version, rsvp, active, clubState>>

\* lockEventRsvpCapacityIfNeeded: the lock is taken for a seat of a limited number.
Counts(r) == job[r].answer = "yes" /\ job[r].capacity # NoLimit
SeatsFree(r) == \A q \in Request \ {r} : label[q] = "answered" => ~Counts(q)

\* resolveStoredRsvpResponse, from what the snapshot shows.
Stored(r) == IF Counts(r) /\ job[r].full THEN "waitlist" ELSE job[r].answer

\* Nothing changes: the transaction only read.
RsvpIsSame(r) ==
    /\ label[r] = "answer"
    /\ Counts(r) => SeatsFree(r)
    /\ ~job[r].overtaken
    /\ rsvp[job[r].member].answer = Stored(r)
    /\ Ends(r)
    /\ UNCHANGED <<version, rsvp, active, clubState>>

RsvpInserts(r) ==
    /\ label[r] = "answer"
    /\ Counts(r) => SeatsFree(r)
    /\ Exists /\ ~job[r].overtaken
    /\ rsvp[job[r].member].answer # Stored(r)
    /\ Moves(r, "answered", job[r])
    /\ UNCHANGED <<version, rsvp, active, clubState>>

\* event_rsvps_event_content_membership_version_unique, or the content is gone.
RsvpConflicts(r) ==
    /\ label[r] = "answer"
    /\ Counts(r) => SeatsFree(r)
    /\ ~Exists \/ job[r].overtaken
    /\ Fails(r)

\* insertEventRsvpNotification: the author is told of answers but their own, and has to be
\* in the club still.
AuthorTold(m) == m # Author => Author \in active /\ ClubFree
AuthorMissing(m) == m # Author /\ Author \notin active

\* What the commit of an answer of m does to the other transactions that answer.
Overtakes(r, m, serial) ==
    job' = [q \in Request |->
              IF q = r THEN NoJob
              ELSE IF label[q] \notin Serving THEN job[q]
              ELSE [job[q] EXCEPT !.stale = @ \/ serial,
                                  !.overtaken = @ \/ job[q].member = m]]

SerialMutant(r) == TRUE
Serial(r) == ~job[r].stale

RsvpCommits(r) ==
    LET m == job[r].member IN
    /\ label[r] = "answered"
    /\ Serial(r) /\ AuthorTold(m)
    /\ rsvp' = [rsvp EXCEPT ![m] = [answer |-> Stored(r), for |-> job[r].version, upto |-> Newest]]
    /\ label' = [label EXCEPT ![r] = "idle"]
    /\ Overtakes(r, m, TRUE)
    /\ UNCHANGED <<version, active, clubState>>

\* SQLSTATE 40001: withTransaction tries again a few times.
RsvpRetries(r) ==
    /\ label[r] = "answered"
    /\ job[r].stale
    /\ IF job[r].attempt < Retries
       THEN /\ Moves(r, "again", [NoJob EXCEPT !.member = job[r].member, !.answer = job[r].answer,
                                               !.attempt = job[r].attempt + 1])
            /\ UNCHANGED <<version, rsvp, active, clubState>>
       ELSE Fails(r)

AnswerFails(r) ==
    /\ label[r] \in {"answered", "cancel"}
    /\ AuthorMissing(job[r].member)
    /\ Fails(r)

-----------------------------------------------------------------------------
(* event.cancelRsvp *)

CancelBegins(r, m) ==
    /\ label[r] = "idle"
    /\ club = "live" /\ m \in active /\ Published
    /\ ~Busy(r, m)
    /\ Moves(r, "cancel", [NoJob EXCEPT !.member = m])
    /\ UNCHANGED <<version, rsvp, active, clubState>>

CancelCommits(r) ==
    LET m == job[r].member IN
    /\ label[r] = "cancel"
    /\ Live(m) /\ AuthorTold(m)
    /\ rsvp' = [rsvp EXCEPT ![m] = [NoAnswer EXCEPT !.answer = "cancelled"]]
    /\ label' = [label EXCEPT ![r] = "idle"]
    /\ Overtakes(r, m, FALSE)
    /\ UNCHANGED <<version, active, clubState>>

CancelIsSame(r) ==
    /\ label[r] = "cancel"
    /\ ~Live(job[r].member)
    /\ Ends(r)
    /\ UNCHANGED <<version, rsvp, active, clubState>>

-----------------------------------------------------------------------------
(* superadmin.clubs.archive, superadmin.clubs.remove, superadmin.removedClubs.restore *)

ArchiveClub ==
    /\ club = "live" /\ ClubFree
    /\ club' = "archived"
    /\ UNCHANGED <<version, rsvp, active, clubLock, archive, label, job>>

\* The row is locked, and buildRemovalPayload reads what is committed.
RemovalReads(r) ==
    /\ label[r] = "idle"
    /\ club = "archived" /\ clubLock = Nobody
    /\ clubLock' = r
    /\ archive' = [version |-> [n \in Number |-> IF Committed(n) THEN version[n] ELSE NoVersion],
                   rsvp |-> rsvp]
    /\ Moves(r, "purge", NoJob)
    /\ UNCHANGED <<version, rsvp, active, club>>

\* delete from clubs cascades, and waits for whoever has inserted a row below the content.
Below(q) == label[q] \in {"list", "publish", "answered"}

RemovalDeletes(r) ==
    /\ label[r] = "purge"
    /\ \A q \in Request : ~Below(q)
    /\ club' = "gone" /\ clubLock' = Nobody
    /\ version' = NoArchive.version /\ rsvp' = NoArchive.rsvp
    /\ Ends(r)
    /\ UNCHANGED <<active, archive>>

\* RESTORE_TABLES has no event_rsvps.
Restore ==
    /\ club = "gone"
    /\ club' = "live"
    /\ version' = archive.version
    /\ archive' = NoArchive
    /\ UNCHANGED <<rsvp, active, clubLock, label, job>>

-----------------------------------------------------------------------------
(* Everybody else *)

Leave(m) ==
    /\ club # "gone" /\ m \in active /\ ClubFree
    /\ active' = active \ {m}
    /\ UNCHANGED <<version, rsvp, clubState, label, job>>

\* A cancelled, removed or banned membership becomes active again: it is the same row, with
\* the answers it has given.  The activation is an activity of the club.
Return(m) ==
    /\ club # "gone" /\ m \in Returner \ active /\ ClubFree
    /\ active' = active \cup {m}
    /\ UNCHANGED <<version, rsvp, clubState, label, job>>

Init ==
    /\ \E cap \in Capacity :
         version = [n \in Number |-> IF n = 1 THEN [NoVersion EXCEPT !.state = "published",
                                                     !.capacity = cap, !.by = Author]
                                              ELSE NoVersion]
    /\ rsvp = [m \in Member |-> NoAnswer]
    /\ active = Member
    /\ club = "live" /\ clubLock = Nobody /\ archive = NoArchive
    /\ label = [r \in Request |-> "idle"] /\ job = [r \in Request |-> NoJob]

Publishes(r) ==
    \/ \E cap \in Capacity : UpdateReads(r, cap)
    \/ \E m \in Member : RemoveReads(r, m)
    \/ PublishInserts(r) \/ PublishConflicts(r) \/ Lists(r) \/ PublishCommits(r) \/ PublishFails(r)

Answers(r) ==
    \/ \E m \in Member, answer \in Asked : RsvpBegins(r, m, answer)
    \/ RsvpBeginsAgain(r) \/ Claims(r) \/ RsvpIsSame(r) \/ RsvpInserts(r) \/ RsvpConflicts(r)
    \/ RsvpCommits(r) \/ RsvpRetries(r) \/ AnswerFails(r)
    \/ \E m \in Member : CancelBegins(r, m)
    \/ CancelCommits(r) \/ CancelIsSame(r)

Removal(r) == RemovalReads(r) \/ RemovalDeletes(r)

Next ==
    \/ \E r \in Request : Publishes(r) \/ Answers(r) \/ Removal(r) \/ Abort(r)
    \/ ArchiveClub \/ Restore
    \/ \E m \in Member : Leave(m) \/ Return(m)

Spec == Init /\ [][Next]_vars

-----------------------------------------------------------------------------
(* Properties *)

TypeOK ==
    /\ version \in [Number -> [state : {"none", "published", "removed"},
                               capacity : Capacity \cup {NoLimit}, by : Member \cup {Nobody},
                               owner : Request \cup {Nobody}, told : SUBSET Member,
                               out : SUBSET Member]]
    /\ rsvp \in [Member -> [answer : Answer, for : Number \cup {None}, upto : Number \cup {None}]]
    /\ active \subseteq Member
    /\ club \in {"live", "archived", "gone"} /\ clubLock \in Request \cup {Nobody}
    /\ DOMAIN archive = {"version", "rsvp"}
    /\ label \in [Request -> Serving \cup {"idle", "again", "update", "remove", "list", "publish",
                                           "cancel", "purge"}]
    /\ \A r \in Request : job[r].attempt <= Retries /\ job[r].member \in Member \cup {Nobody}

Limits == {version[n].capacity : n \in {k \in Number : version[k].state = "published"}}

\* However many answer at once, and whatever the author does to the capacity meanwhile, an
\* event never has more attendees than the most seats it ever had (clubs/events.ts:369).
NoOverbooking ==
    Exists /\ NoLimit \notin Limits => \E limit \in Limits : Cardinality(Yes) <= limit

\* Whoever holds an answer to an event answered its current version, was told of the version
\* that followed or removed it, made that version, answered while it was being made, or was not
\* in the club when the attendees were listed: a member who comes back holds the answer, and
\* is not told.  Nobody else could have known of a change and was not told (content.ts:1044).
AttendeesInformed ==
    Exists => \A m \in Member : Live(m) =>
        \/ version[Current].state = "published" /\ rsvp[m].for = Current
        \/ rsvp[m].for < Current /\ rsvp[m].upto >= Current
        \/ m \in version[Current].told \cup {version[Current].by} \cup version[Current].out

\* What the archive of a removed club holds is what the removal deletes, whatever commits
\* between the two, but for the answers of the author, which nobody is told of
\* (identity/clubs.ts:970).
ArchiveComplete ==
    [][club # "gone" /\ club' = "gone" =>
         /\ archive.version = version
         /\ \A m \in Member \ {Author} : archive.rsvp[m].answer = rsvp[m].answer]_vars

\* A restored club has the answers its archive holds (docs/design-decisions.md:357).
RestoreBringsBack ==
    [][club = "gone" /\ club' # "gone" => rsvp' = archive.rsvp]_vars
=============================================================================
