----------------------------- MODULE Invitations -----------------------------
(***************************************************************************)
(* Invitations to clubs and the applications they lead to                  *)
(* (src/src/clubs/unified.ts, src/src/admission.ts).                       *)
(*                                                                         *)
(* A sponsor issues an invitation to a registered member, who hears of it  *)
(* and applies, or to an address outside, as a code that anyone who has an *)
(* account may redeem.  Both ways end in one transaction that marks the    *)
(* invitation as used and inserts an application.  A request prepares      *)
(* outside any transaction, waits for the gate, and checks again inside    *)
(* its transaction; between its reads and its write other requests commit. *)
(* What it writes is one step with the commit; row locks it holds before   *)
(* are in rowLock, the advisory lock of issuing is issueLock.              *)
(*                                                                         *)
(* Decisions and withdrawals of applications, modelled in Membership, are  *)
(* one action here, and the two open phases are one.  What bars a member   *)
(* from applying (an active membership, a block) is in Membership too:     *)
(* a check that finds it ends the request like any other refusal (Abort).  *)
(***************************************************************************)
EXTENDS Naturals, FiniteSets

CONSTANTS
    Sponsor,
    Founding,     \* <<sponsor, club>> that are memberships at the start
    Applicant,    \* members with an account, who may apply
    Outsider,     \* addresses without an account
    Club,
    Request,      \* requests being served at one time
    Nobody,       \* the holder of a free lock, the party of an empty row
    OpenCap,      \* policy.invitations.openPerSponsorPerClub
    InFlightCap,  \* policy.applications.maxInFlightPerMember
    MaxInvite,    \* bound on rows of invite_requests
    MaxApp        \* bound on rows of club_applications

ASSUME InvitationAssumption ==
    /\ Nobody \notin Request \cup Sponsor \cup Applicant \cup Outsider \cup Club
    /\ Applicant \cap Outsider = {}
    /\ Founding \subseteq Sponsor \X Club
    /\ OpenCap \in Nat /\ InFlightCap \in Nat
    /\ MaxInvite \in Nat /\ MaxApp \in Nat

Target == Applicant \cup Outsider
InviteId == 1..MaxInvite
AppId == 1..MaxApp
NoId == 0

NoInvite == [club |-> Nobody, sponsor |-> Nobody, target |-> Nobody, overdue |-> FALSE,
             expired |-> FALSE, used |-> FALSE, revoked |-> FALSE, withdrawn |-> FALSE]
NoApp == [club |-> Nobody, member |-> Nobody, invite |-> NoId, phase |-> "none", seen |-> {}]
NoJob == [op |-> "none", who |-> Nobody, club |-> Nobody, target |-> Nobody,
          invite |-> NoId, late |-> {}, seen |-> {}]

VARIABLES
    invite,       \* invite[i]: invite_requests with its code; overdue: expires_at has passed
    application,  \* application[a]: club_applications; seen: what its request counted (history)
    insider,      \* <<sponsor, club>> with an accessible membership
    label, job,   \* where each request is, and what it has read
    rowLock,      \* who holds the row of an invitation
    issueLock,    \* who holds the advisory lock of <<sponsor, club>>
    usedLate      \* invitations used by a transaction older than their expiry (history)

tables == <<invite, application, insider, usedLate>>
locks == <<rowLock, issueLock>>
vars == <<tables, label, job, locks>>

-----------------------------------------------------------------------------
(* Reads *)

Row(i) == invite[i].club # Nobody

Kind(t) == IF t \in Applicant THEN "notification" ELSE "code"

Overdue == {i \in InviteId : invite[i].overdue}

\* Open for a transaction that started when the invitations in late were overdue.
LiveFor(i, late) ==
    /\ Row(i)
    /\ ~invite[i].revoked /\ ~invite[i].used /\ ~invite[i].expired
    /\ i \notin late

OpenApp(a) == application[a].phase = "open"

OpenAppsOf(m) == {a \in AppId : OpenApp(a) /\ application[a].member = m}

HasOpenApp(m, c) == \E a \in OpenAppsOf(m) : application[a].club = c

HasRoom(m) == Cardinality(OpenAppsOf(m)) < InFlightCap

MayApply(m, c) == ~HasOpenApp(m, c) /\ HasRoom(m)

LiveInternal(m, c, late) ==
    {i \in InviteId : LiveFor(i, late) /\ invite[i].target = m /\ invite[i].club = c}

Usable(i) == Row(i) /\ ~invite[i].revoked /\ ~invite[i].expired
             /\ ~invite[i].used /\ ~invite[i].overdue

SponsoredApps(s, c) ==
    {a \in AppId : /\ OpenApp(a) /\ application[a].invite # NoId
                   /\ invite[application[a].invite].sponsor = s
                   /\ application[a].club = c
                   /\ ~invite[application[a].invite].withdrawn}

LiveInvites(s, c, late) ==
    {i \in InviteId : LiveFor(i, late) /\ invite[i].sponsor = s /\ invite[i].club = c}

LiveCount(s, c, late) ==
    Cardinality(LiveInvites(s, c, late)) + Cardinality(SponsoredApps(s, c))

ToExpire(s, c, t, late) ==
    {i \in InviteId : /\ Row(i) /\ invite[i].club = c /\ invite[i].sponsor = s
                      /\ invite[i].target = t /\ i \in late
                      /\ ~invite[i].expired /\ ~invite[i].used}

\* What the end of a membership revokes.
Revocable(i) == Row(i) /\ ~invite[i].revoked /\ ~invite[i].used

\* What invitations.list reports of the quota an invitation takes.
QuotaState(i) ==
    LET status == CASE invite[i].revoked -> "revoked"
                    [] ~invite[i].revoked /\ invite[i].used -> "used"
                    [] ~invite[i].revoked /\ ~invite[i].used ->
                         IF invite[i].expired \/ invite[i].overdue THEN "expired" ELSE "open"
        live == \E a \in AppId : OpenApp(a) /\ application[a].invite = i
    IN  IF status = "open" \/ (status = "used" /\ ~invite[i].withdrawn /\ live)
        THEN "counted" ELSE "free"

-----------------------------------------------------------------------------
(* Requests *)

Available(i) == rowLock[i] = Nobody

\* select ... for update
LocksRowMutant(r, i) == UNCHANGED rowLock
LocksRow(r, i) == rowLock' = [rowLock EXCEPT ![i] = r]

ScopeFreeMutant(k) == TRUE
ScopeFree(k) == issueLock[k] = Nobody

\* The check of the preflight, made again inside the transaction.
StillMayApplyMutant(m, c) == ~HasOpenApp(m, c)
StillMayApply(m, c) == MayApply(m, c)

Moves(r, to, j) == /\ label' = [label EXCEPT ![r] = to]
                   /\ job' = [job EXCEPT ![r] = j]

Unlocked(r) == /\ rowLock' = [i \in InviteId |-> IF rowLock[i] = r THEN Nobody ELSE rowLock[i]]
               /\ issueLock' = [k \in Sponsor \X Club |->
                                  IF issueLock[k] = r THEN Nobody ELSE issueLock[k]]

Ends(r) == Moves(r, "idle", NoJob) /\ Unlocked(r)

Fails(r) == Ends(r) /\ UNCHANGED tables

\* The request dies, or its connection does: the transaction is rolled back.
Abort(r) == label[r] # "idle" /\ Fails(r)

InsertsApplication(m, c, i, seen) ==
    \E a \in AppId :
        /\ application[a] = NoApp
        /\ \A b \in AppId : b < a => application[b] # NoApp
        /\ application' = [application EXCEPT ![a] =
             [club |-> c, member |-> m, invite |-> i, phase |-> "open", seen |-> seen]]

-----------------------------------------------------------------------------
(* invitations.issue *)

IssueChecks(r, s, c, t) ==
    /\ label[r] = "idle"
    /\ <<s, c>> \in insider
    /\ Moves(r, "issue_lock", [NoJob EXCEPT !.op = "issue", !.who = s, !.club = c,
                                            !.target = t, !.late = Overdue])
    /\ UNCHANGED <<tables, locks>>

IssueLocks(r) ==
    LET k == <<job[r].who, job[r].club>> IN
    /\ label[r] = "issue_lock"
    /\ ScopeFree(k)
    /\ issueLock' = [issueLock EXCEPT ![k] = r]
    /\ label' = [label EXCEPT ![r] = "issue_read"]
    /\ UNCHANGED <<tables, job, rowLock>>

\* Marks what has expired for this target, which locks those rows, and counts.
IssueReads(r) ==
    LET j == job[r]
        marked == ToExpire(j.who, j.club, j.target, j.late)
    IN
    /\ label[r] = "issue_read"
    /\ \A i \in marked : Available(i)
    /\ IF \/ \E i \in LiveInvites(j.who, j.club, j.late) : invite[i].target = j.target
          \/ LiveCount(j.who, j.club, j.late) >= OpenCap
       THEN Fails(r)
       ELSE /\ label' = [label EXCEPT ![r] = "issue_insert"]
            /\ rowLock' = [i \in InviteId |-> IF i \in marked THEN r ELSE rowLock[i]]
            /\ UNCHANGED <<tables, job, issueLock>>

IssueInserts(r) ==
    LET j == job[r]
        marked == {i \in InviteId : rowLock[i] = r}
    IN
    /\ label[r] = "issue_insert"
    /\ \E n \in InviteId :
         /\ ~Row(n)
         /\ \A i \in InviteId : i < n => Row(i)
         /\ invite' = [i \in InviteId |->
              IF i = n THEN [NoInvite EXCEPT !.club = j.club, !.sponsor = j.who,
                                             !.target = j.target]
              ELSE IF i \in marked THEN [invite[i] EXCEPT !.expired = TRUE]
              ELSE invite[i]]
    /\ Ends(r)
    /\ UNCHANGED <<application, insider, usedLate>>

-----------------------------------------------------------------------------
(* clubs.apply: a cold application, or one bound to an internal invitation *)

ApplyPrepares(r, m, c, i) ==
    /\ label[r] = "idle"
    /\ MayApply(m, c)
    /\ Moves(r, "apply_read", [NoJob EXCEPT !.op = "apply", !.who = m, !.club = c, !.invite = i])
    /\ UNCHANGED <<tables, locks>>

\* The invitation the application is to be bound to, if the choice is clear.
Bindings(m, c, chosen, late) ==
    LET live == LiveInternal(m, c, late) IN
    IF chosen # NoId THEN {chosen}
    ELSE IF live = {} THEN {NoId}
    ELSE IF Cardinality(live) = 1 THEN live ELSE {}

ApplyReads(r) ==
    LET j == job[r]
        bindings == Bindings(j.who, j.club, j.invite, Overdue)
    IN
    /\ label[r] = "apply_read"
    /\ IF StillMayApply(j.who, j.club) /\ bindings # {}
       THEN \E i \in bindings :
              /\ Moves(r, "apply_write", [j EXCEPT !.invite = i, !.late = Overdue,
                                                   !.seen = OpenAppsOf(j.who)])
              /\ UNCHANGED <<tables, locks>>
       ELSE Fails(r)

\* Reads the invitation again, for update, and uses it.
ApplyBinds(j) ==
    \/ j.invite = NoId /\ UNCHANGED <<invite, usedLate>>
    \/ /\ j.invite \in LiveInternal(j.who, j.club, j.late)
       /\ invite' = [invite EXCEPT ![j.invite].used = TRUE]
       /\ usedLate' = IF invite[j.invite].overdue THEN usedLate \cup {j.invite} ELSE usedLate

ApplyWrites(r) ==
    LET j == job[r] IN
    /\ label[r] = "apply_write"
    /\ j.invite # NoId => Available(j.invite)
    /\ \/ /\ ~HasOpenApp(j.who, j.club)
          /\ ApplyBinds(j)
          /\ InsertsApplication(j.who, j.club, j.invite, j.seen)
          /\ Ends(r)
          /\ UNCHANGED insider
       \/ /\ \/ HasOpenApp(j.who, j.club)
             \/ j.invite # NoId /\ j.invite \notin LiveInternal(j.who, j.club, j.late)
          /\ Fails(r)

-----------------------------------------------------------------------------
(* invitations.redeem: whoever holds the code *)

RedeemPrepares(r, m, i) ==
    /\ label[r] = "idle"
    /\ Row(i) /\ Kind(invite[i].target) = "code"
    /\ MayApply(m, invite[i].club)
    /\ Usable(i)
    /\ Moves(r, "redeem_read", [NoJob EXCEPT !.op = "redeem", !.who = m,
                                             !.club = invite[i].club, !.invite = i])
    /\ UNCHANGED <<tables, locks>>

\* The row of the invitation is read for update: what is checked stays true.
RedeemReads(r) ==
    LET j == job[r] IN
    /\ label[r] = "redeem_read"
    /\ Available(j.invite)
    /\ IF StillMayApply(j.who, j.club) /\ Usable(j.invite)
       THEN /\ Moves(r, "redeem_write", [j EXCEPT !.seen = OpenAppsOf(j.who)])
            /\ LocksRow(r, j.invite)
            /\ UNCHANGED <<tables, issueLock>>
       ELSE Fails(r)

\* The update of the invitation is guarded, but nobody looks at what it did.
RedeemUses(i) ==
    /\ invite' = IF ~invite[i].used /\ ~invite[i].revoked /\ ~invite[i].expired
                 THEN [invite EXCEPT ![i].used = TRUE] ELSE invite
    /\ usedLate' = IF invite[i].overdue THEN usedLate \cup {i} ELSE usedLate

RedeemWrites(r) ==
    LET j == job[r] IN
    /\ label[r] = "redeem_write"
    /\ IF HasOpenApp(j.who, j.club) THEN Fails(r)
       ELSE /\ RedeemUses(j.invite)
            /\ InsertsApplication(j.who, j.club, j.invite, j.seen)
            /\ Ends(r)
            /\ UNCHANGED insider

-----------------------------------------------------------------------------
(* invitations.revoke: one statement and its checks under the lock of the row *)

Revoke(i) ==
    /\ Row(i) /\ Available(i)
    /\ ~invite[i].used /\ ~invite[i].revoked /\ ~invite[i].expired /\ ~invite[i].overdue
    /\ invite' = [invite EXCEPT ![i].revoked = TRUE]
    /\ UNCHANGED <<application, insider, usedLate, label, job, locks>>

\* By the sponsor, while the application the invitation led to is open.
WithdrawSupport(i) ==
    /\ Row(i) /\ Available(i)
    /\ invite[i].used /\ ~invite[i].withdrawn
    /\ \E a \in AppId : OpenApp(a) /\ application[a].invite = i
    /\ invite' = [invite EXCEPT ![i].withdrawn = TRUE]
    /\ UNCHANGED <<application, insider, usedLate, label, job, locks>>

\* The membership of a sponsor ends: what it has open, expired or not, is revoked.
SponsorLeaves(s, c) ==
    LET open == {i \in InviteId : Revocable(i) /\ invite[i].sponsor = s /\ invite[i].club = c}
    IN
    /\ <<s, c>> \in insider
    /\ \A i \in open : Available(i)
    /\ insider' = insider \ {<<s, c>>}
    /\ invite' = [i \in InviteId |-> IF i \in open THEN [invite[i] EXCEPT !.revoked = TRUE]
                                     ELSE invite[i]]
    /\ UNCHANGED <<application, usedLate, label, job, locks>>

-----------------------------------------------------------------------------
(* The world around *)

\* Thirty days pass.
TurnsOverdue(i) ==
    /\ Row(i) /\ ~invite[i].overdue
    /\ invite' = [invite EXCEPT ![i].overdue = TRUE]
    /\ UNCHANGED <<application, insider, usedLate, label, job, locks>>

\* An application is withdrawn, accepted, declined or banned.
Close(a) ==
    /\ OpenApp(a)
    /\ application' = [application EXCEPT ![a].phase = "closed", ![a].seen = {}]
    /\ UNCHANGED <<invite, insider, usedLate, label, job, locks>>

-----------------------------------------------------------------------------
Init ==
    /\ invite = [i \in InviteId |-> NoInvite]
    /\ application = [a \in AppId |-> NoApp]
    /\ insider = Founding
    /\ label = [r \in Request |-> "idle"]
    /\ job = [r \in Request |-> NoJob]
    /\ rowLock = [i \in InviteId |-> Nobody]
    /\ issueLock = [k \in Sponsor \X Club |-> Nobody]
    /\ usedLate = {}

Next ==
    \/ \E r \in Request :
         \/ \E s \in Sponsor, c \in Club, t \in Target : IssueChecks(r, s, c, t)
         \/ IssueLocks(r) \/ IssueReads(r) \/ IssueInserts(r)
         \/ \E m \in Applicant, c \in Club, i \in InviteId \cup {NoId} : ApplyPrepares(r, m, c, i)
         \/ ApplyReads(r) \/ ApplyWrites(r)
         \/ \E m \in Applicant, i \in InviteId : RedeemPrepares(r, m, i)
         \/ RedeemReads(r) \/ RedeemWrites(r)
         \/ Abort(r)
    \/ \E i \in InviteId : Revoke(i) \/ WithdrawSupport(i) \/ TurnsOverdue(i)
    \/ \E s \in Sponsor, c \in Club : SponsorLeaves(s, c)
    \/ \E a \in AppId : Close(a)

Spec == Init /\ [][Next]_vars

-----------------------------------------------------------------------------
(* Properties *)

TypeOK ==
    /\ invite \in [InviteId ->
         [club : Club \cup {Nobody}, sponsor : Sponsor \cup {Nobody},
          target : Target \cup {Nobody}, overdue : BOOLEAN, expired : BOOLEAN,
          used : BOOLEAN, revoked : BOOLEAN, withdrawn : BOOLEAN]]
    /\ application \in [AppId ->
         [club : Club \cup {Nobody}, member : Applicant \cup {Nobody},
          invite : InviteId \cup {NoId}, phase : {"none", "open", "closed"},
          seen : SUBSET AppId]]
    /\ insider \subseteq Sponsor \X Club
    /\ label \in [Request -> {"idle", "issue_lock", "issue_read", "issue_insert",
                              "apply_read", "apply_write", "redeem_read", "redeem_write"}]
    /\ job \in [Request ->
         [op : {"none", "issue", "apply", "redeem"},
          who : Sponsor \cup Applicant \cup {Nobody}, club : Club \cup {Nobody},
          target : Target \cup {Nobody}, invite : InviteId \cup {NoId},
          late : SUBSET InviteId, seen : SUBSET AppId]]
    /\ rowLock \in [InviteId -> Request \cup {Nobody}]
    /\ issueLock \in [Sponsor \X Club -> Request \cup {Nobody}]
    /\ usedLate \subseteq InviteId

\* An invitation is used by exactly one application, to its club, however many requests
\* prepare with it at once, and one that was used was neither revoked nor expired before
\* or since: revocation, expiry and use exclude each other (admission.ts:1829, 1979,
\* unified.ts:288, 300, 813, memberships.ts:304).
UsedOnce ==
    \A i \in InviteId :
        LET by == {a \in AppId : application[a].invite = i} IN
        IF invite[i].used
        THEN /\ Cardinality(by) = 1
             /\ \A a \in by : application[a].club = invite[i].club
             /\ ~invite[i].revoked /\ ~invite[i].expired
        ELSE by = {}

\* A sponsor never has more than OpenCap invitations and applications live in a club,
\* but for an application whose transaction is older than the expiry of its invitation:
\* a use that late cannot be counted by whoever issues meanwhile (unified.ts:586).
SponsorCapHolds ==
    \A s \in Sponsor, c \in Club :
        Cardinality(LiveInvites(s, c, Overdue))
          + Cardinality({a \in SponsoredApps(s, c) : application[a].invite \notin usedLate})
        <= OpenCap

\* What a sponsor is shown as counted, row by row, is what the quota counts, which adds
\* up two other queries (unified.ts:76, 657 against unified.ts:586).
ListingMatchesQuota ==
    \A s \in Sponsor, c \in Club :
        LiveCount(s, c, Overdue) =
        Cardinality({i \in InviteId : /\ invite[i].sponsor = s /\ invite[i].club = c
                                      /\ QuotaState(i) = "counted"})

\* A member has more than InFlightCap applications in flight only if two of them come
\* from requests of which neither saw the other's application when it counted.
OverCapNeedsOverlap ==
    \A m \in Applicant :
        Cardinality(OpenAppsOf(m)) > InFlightCap =>
            \E a, b \in OpenAppsOf(m) :
                a # b /\ a \notin application[b].seen /\ b \notin application[a].seen

\* The documents promise a hard cap: what a member has in flight never exceeds it.
InFlightCapIsHard ==
    \A m \in Applicant : Cardinality(OpenAppsOf(m)) <= InFlightCap

\* The documents promise that the open invitations of a sponsor end with its membership.
OpenNeedsSponsor ==
    \A i \in InviteId : Usable(i) => <<invite[i].sponsor, invite[i].club>> \in insider
=============================================================================
