----------------------------- MODULE Membership -----------------------------
(***************************************************************************)
(* The roster of one club: its memberships with their status, role and     *)
(* state version, its owner and member cap, the applications to it and the *)
(* applicant blocks (src/src/identity/memberships.ts,                      *)
(* src/src/identity/clubs.ts, src/src/admission.ts and                     *)
(* src/src/application-policy.ts).                                         *)
(*                                                                         *)
(* A request is one transaction: it reads, waits for the locks it takes,   *)
(* and commits what it writes, at READ COMMITTED, so every read sees what  *)
(* is committed at that moment and other requests commit between any two   *)
(* steps.  Writes are visible from the commit on, so they are one step     *)
(* with it; an activation, which waits for the row of the club between two *)
(* of its writes, has a step for each.  A refused request changes nothing, *)
(* and one refused by its first read is not shown.  The authority of the   *)
(* actor is taken as given.                                                *)
(***************************************************************************)
EXTENDS Naturals, FiniteSets

CONSTANTS
    Member,
    Creator,      \* the member who creates the club, its first owner
    Request,      \* requests being served at one time
    Nobody,       \* no member, no holder of a lock
    Caps,         \* effective member caps
    Applicant,    \* members who apply to the club
    Ops,          \* the operations requests may ask for
    MaxRow,       \* bound on membership rows
    MaxVersion,   \* bound on the state versions of a membership
    MaxClubVersion, \* bound on the versions of the club
    MaxApp        \* bound on applications

AllOps == {"status", "role", "owner", "add", "cap", "apply", "settle", "accept"}

ASSUME RosterAssumption ==
    /\ Creator \in Member
    /\ Nobody \notin Member \cup Request
    /\ Applicant \subseteq Member
    /\ Caps \subseteq Nat \ {0}
    /\ Ops \subseteq AllOps
    /\ MaxRow \in Nat \ {0}
    /\ MaxVersion \in Nat
    /\ MaxClubVersion \in Nat
    /\ MaxApp \in Nat

Live == {"active", "cancelled"}
Gone == {"removed", "banned"}
Role == {"member", "clubadmin"}
Open == {"revision_required", "awaiting_review"}
Closed == {"active", "declined", "banned", "removed", "withdrawn"}
BlockKind == {"declined", "banned", "removed"}

RowId == 1..MaxRow
AppId == 1..MaxApp

NoRow == [member |-> Nobody, status |-> "none", role |-> "member", version |-> 0]
NoApp == [member |-> Nobody, phase |-> "none", membership |-> 0]
NoJob == [op |-> "none", member |-> Nobody, to |-> "none", n |-> 0]
NoRead == [row |-> 0, status |-> "none", version |-> 0]

VARIABLES
    row,          \* row[r]: club_memberships and its current state version
    owner,        \* owner_member_id of the club
    clubVersion,  \* version_no of the club's current version
    cap,          \* the member cap of that version
    block,        \* block[m]: kinds of the unexpired blocks of m
    app,          \* app[a]: phase and activated_membership_id
    pc,           \* pc[t]: what request t does next
    job,          \* job[t]: what request t asks for
    got,          \* got[t]: what request t has read
    clubLock,     \* the request that has the row of clubs FOR UPDATE
    capLock       \* the request that has the lock "club-capacity:..."

data == <<row, owner, clubVersion, cap, block, app>>
vars == <<row, owner, clubVersion, cap, block, app, pc, job, got, clubLock, capLock>>

Init ==
    /\ row = [r \in RowId |-> IF r = 1
                              THEN [member |-> Creator, status |-> "active",
                                    role |-> "clubadmin", version |-> 1]
                              ELSE NoRow]
    /\ owner = Creator
    /\ clubVersion = 1
    /\ cap \in Caps
    /\ block = [m \in Member |-> {}]
    /\ app = [a \in AppId |-> NoApp]
    /\ pc = [t \in Request |-> "idle"]
    /\ job = [t \in Request |-> NoJob]
    /\ got = [t \in Request |-> NoRead]
    /\ clubLock = Nobody
    /\ capLock = Nobody

-----------------------------------------------------------------------------
(* What queries select.                                                    *)

RowsOf(m) == {r \in RowId : row[r].member = m}

LiveRows(m) == {r \in RowsOf(m) : row[r].status \in Live}

Active == {r \in RowId : row[r].status = "active"}

OpenApps(m) == {a \in AppId : app[a].member = m /\ app[a].phase \in Open}

-----------------------------------------------------------------------------
(* Transactions.                                                           *)

Start(t, request, read, label) ==
    /\ pc[t] = "idle"
    /\ request.op \in Ops
    /\ pc' = [pc EXCEPT ![t] = label]
    /\ job' = [job EXCEPT ![t] = request]
    /\ got' = [got EXCEPT ![t] = read]
    /\ UNCHANGED <<data, clubLock, capLock>>

Doing(t, op, label) == pc[t] = label /\ job[t].op = op

Goto(t, label) == pc' = [pc EXCEPT ![t] = label]


Leave(lock, t) == IF lock = t THEN Nobody ELSE lock

\* COMMIT or ROLLBACK.
End(t) ==
    /\ Goto(t, "idle")
    /\ job' = [job EXCEPT ![t] = NoJob]
    /\ got' = [got EXCEPT ![t] = NoRead]
    /\ clubLock' = Leave(clubLock, t)
    /\ capLock' = Leave(capLock, t)

Refuse(t) == End(t) /\ UNCHANGED data

\* An error, a timeout or a lost connection rolls back at any point.
Abort(t) ==
    /\ pc[t] # "idle"
    /\ Refuse(t)

\* Request t has inserted the next state version of row r, which wrote the row,
\* and has not committed it.
Activating(t, r) == pc[t] = "fanout" /\ got[t].row = r

\* assignClubOwner selects its target FOR UPDATE, decideClubApplication the
\* application: nobody else writes these rows before it ends.
RowUnlocked(r) ==
    \A t \in Request : ~(Doing(t, "owner", "write") /\ got[t].row = r) /\ ~Activating(t, r)

\* Mutant: the application is read without FOR UPDATE.
AppUnlockedMutant(a) == TRUE

AppUnlocked(a) ==
    \A t \in Request :
        ~(pc[t] # "idle" /\ job[t].op \in {"settle", "accept"} /\ job[t].n = a)

\* bump_platform_stats_applications: whoever inserts an application or writes its
\* phase updates the one row of platform_stats, and has it until the commit.
StatsFree == \A t \in Request : pc[t] # "announce"

HasCapacity == Cardinality(Active) + 1 <= cap

\* Mutant: the count is taken without the advisory lock.
CapacityFreeMutant == TRUE

CapacityFree == capLock = Nobody

\* assertClubHasCapacity: the lock, then the count, which nobody can raise
\* before this request ends.
AssertClubHasCapacity(t) ==
    /\ pc[t] = "capacity"
    /\ job[t].op # "cap"
    /\ CapacityFree
    /\ IF HasCapacity
       THEN /\ capLock' = t
            /\ Goto(t, "write")
            /\ UNCHANGED <<data, job, got, clubLock>>
       ELSE Refuse(t)

\* Mutant: the version number is not unique for its membership.
VersionFreeMutant(t) == TRUE

\* club_membership_state_versions_version_unique: the version after the one
\* that was read is still free.  While another request is Activating the row it
\* is not known, and the insert waits.
VersionFree(t) == row[got[t].row].version = got[t].version

\* The foreign key of a row that is inserted for the club: a key share lock.
ClubShared == clubLock = Nobody

\* The insert of a membership; club_memberships_non_terminal_unique allows one
\* live row per member.
InsertRow(r, m, role) ==
    /\ ClubShared
    /\ row[r] = NoRow
    /\ \A q \in RowId : q < r => row[q] # NoRow
    /\ row' = [row EXCEPT ![r] = [member |-> m, status |-> "active",
                                  role |-> role, version |-> 1]]

\* MaxRow and MaxApp bound what may be asked for, never what is being written.
Pending(ops) == Cardinality({t \in Request : job[t].op \in ops})
RowLeft == Pending({"add", "accept"}) < Cardinality({r \in RowId : row[r] = NoRow})
AppLeft == Pending({"apply"}) < Cardinality({a \in AppId : app[a] = NoApp})

-----------------------------------------------------------------------------
(* updateMembership, patch.status.  The row is read with LIMIT 1 and no    *)
(* order: of a member with several rows it may be any.                     *)

AdminTransition == {<<"active", "cancelled">>, <<"active", "removed">>,
                    <<"active", "banned">>, <<"cancelled", "removed">>,
                    <<"cancelled", "banned">>}

ReadForStatus(t) ==
    \E m \in Member, to \in Live \cup Gone : \E r \in RowsOf(m) :
        /\ row[r].version < MaxVersion
        /\ to = "active" => row[r].status \in Gone
        /\ Start(t, [op |-> "status", member |-> m, to |-> to, n |-> 0],
                 [row |-> r, status |-> row[r].status, version |-> row[r].version],
                 IF to = "active" THEN "capacity" ELSE "club")

\* Mutant: the owner is not protected.
OwnerProtectedMutant(t) == FALSE

OwnerProtected(t) == owner = job[t].member

LockClubForStatus(t) ==
    /\ Doing(t, "status", "club")
    /\ clubLock = Nobody
    /\ IF OwnerProtected(t) \/ <<got[t].status, job[t].to>> \notin AdminTransition
       THEN Refuse(t)
       ELSE /\ clubLock' = t
            /\ Goto(t, "write")
            /\ UNCHANGED <<data, job, got, capLock>>

\* writeApplicantBlock and clearApplicantBlock.
BlocksAfter(m, to) ==
    CASE to \in Gone     -> block[m] \cup {to}
      [] to = "active"   -> {}
      [] OTHER           -> block[m]

\* applyMembershipApplicationEffects
AppsAfter(r, to) ==
    [a \in AppId |-> IF to \in Gone /\ app[a].membership = r
                     THEN [app[a] EXCEPT !.phase = to] ELSE app[a]]

NewStatus(t) ==
    LET r == got[t].row
        m == job[t].member
        to == job[t].to IN
    /\ row' = [row EXCEPT ![r].status = to, ![r].version = @ + 1]
    /\ block' = [block EXCEPT ![m] = BlocksAfter(m, to)]
    /\ app' = AppsAfter(r, to)
    /\ UNCHANGED <<owner, clubVersion, cap>>

WriteStatus(t) ==
    LET r == got[t].row
        to == job[t].to IN
    /\ Doing(t, "status", "write")
    /\ to # "active"
    /\ IF VersionFree(t)
       THEN /\ RowUnlocked(r)
            /\ (to \in Gone /\ \E a \in AppId : app[a].membership = r) => StatsFree
            /\ NewStatus(t)
       ELSE UNCHANGED data
    /\ End(t)

\* The state version of an activation: from here on the row and the number are
\* taken, and nobody sees them.
InsertActiveVersion(t) ==
    /\ pc[t] = "write"
    /\ \/ job[t].op = "status" /\ job[t].to = "active"
       \/ job[t].op = "accept" /\ got[t].row # 0
    /\ IF VersionFree(t) /\ (job[t].op = "status" => LiveRows(job[t].member) = {})
       THEN /\ RowUnlocked(got[t].row)
            /\ Goto(t, "fanout")
            /\ UNCHANGED <<data, job, got, clubLock, capLock>>
       ELSE Refuse(t)

\* applyActivationFanout records the activation in the club's activity; then
\* the blocks are cleared and the transaction commits.
WriteActive(t) ==
    /\ Doing(t, "status", "fanout")
    /\ ClubShared
    /\ NewStatus(t)
    /\ End(t)

-----------------------------------------------------------------------------
(* updateMembership, patch.role.                                           *)

ReadForRole(t) ==
    \E m \in Member, to \in Role : \E r \in RowsOf(m) :
        /\ row[r].status = "active"
        /\ row[r].role # to
        /\ Start(t, [op |-> "role", member |-> m, to |-> to, n |-> 0],
                 [row |-> r, status |-> row[r].status, version |-> row[r].version],
                 IF to = "member" THEN "owner" ELSE "write")

\* The owner is read without a lock.
CheckOwner(t) ==
    /\ Doing(t, "role", "owner")
    /\ IF owner = job[t].member
       THEN Refuse(t)
       ELSE Goto(t, "write") /\ UNCHANGED <<data, job, got, clubLock, capLock>>

\* syncMembershipRole
WriteRole(t) ==
    LET r == got[t].row IN
    /\ Doing(t, "role", "write")
    /\ RowUnlocked(r)
    /\ row' = [row EXCEPT ![r].role = job[t].to]
    /\ UNCHANGED <<owner, clubVersion, cap, block, app>>
    /\ End(t)

-----------------------------------------------------------------------------
(* assignClubOwner and updateClub.  The statement that waits for the club  *)
(* joins its current version: what it returns of that version is as old as *)
(* the start of the statement.                                             *)

ReadForOwner(t) ==
    \E m \in Member :
        /\ clubVersion < MaxClubVersion
        /\ Start(t, [op |-> "owner", member |-> m, to |-> "none", n |-> 0],
                 [NoRead EXCEPT !.version = clubVersion], "club")

Eligible(m) == RowsOf(m) \cap Active

LockClubForOwner(t) ==
    LET targets == Eligible(job[t].member) IN
    /\ Doing(t, "owner", "club")
    /\ clubLock = Nobody
    /\ IF targets = {}
       THEN Refuse(t)
       ELSE /\ clubLock' = t
            /\ \E r \in targets : got' = [got EXCEPT ![t].row = r]
            /\ Goto(t, "write")
            /\ UNCHANGED <<data, job, capLock>>

\* club_versions_club_version_unique
ClubVersionFree(t) == got[t].version = clubVersion

\* The new owner becomes clubadmin and gets a new state version, the old one
\* goes back to member.
WriteOwner(t) ==
    LET r == got[t].row
        m == job[t].member
        former == {x \in LiveRows(owner) : owner # m /\ row[x].role = "clubadmin"} IN
    /\ Doing(t, "owner", "write")
    /\ IF ClubVersionFree(t)
       THEN /\ owner' = m
            /\ clubVersion' = clubVersion + 1
            /\ row' = [x \in RowId |->
                         IF x = r THEN [row[x] EXCEPT !.role = "clubadmin",
                                                      !.status = "active",
                                                      !.version = @ + 1]
                         ELSE IF x \in former THEN [row[x] EXCEPT !.role = "member"]
                         ELSE row[x]]
            /\ UNCHANGED <<cap, block, app>>
       ELSE UNCHANGED data
    /\ End(t)

AskForCap(t) ==
    \E n \in Caps :
        /\ clubVersion < MaxClubVersion
        /\ n # cap
        /\ Start(t, [op |-> "cap", member |-> Nobody, to |-> "none", n |-> n],
                 NoRead, "capacity")

LockCapacity(t) ==
    /\ Doing(t, "cap", "capacity")
    /\ CapacityFree
    /\ capLock' = t
    /\ got' = [got EXCEPT ![t].version = clubVersion]
    /\ Goto(t, "club")
    /\ UNCHANGED <<data, job, clubLock>>

LockClubForCap(t) ==
    /\ Doing(t, "cap", "club")
    /\ clubLock = Nobody
    /\ IF Cardinality(Active) > job[t].n
       THEN Refuse(t)
       ELSE /\ clubLock' = t
            /\ Goto(t, "write")
            /\ UNCHANGED <<data, job, got, capLock>>

WriteCap(t) ==
    /\ Doing(t, "cap", "write")
    /\ IF ClubVersionFree(t)
       THEN /\ cap' = job[t].n
            /\ clubVersion' = clubVersion + 1
            /\ UNCHANGED <<row, owner, block, app>>
       ELSE UNCHANGED data
    /\ End(t)

-----------------------------------------------------------------------------
(* createMembershipAsSuperadmin.                                           *)

ReadForAdd(t) ==
    \E m \in Member, role \in Role :
        /\ LiveRows(m) = {}
        /\ block[m] = {}
        /\ RowLeft
        /\ Start(t, [op |-> "add", member |-> m, to |-> role, n |-> 0], NoRead, "capacity")

WriteAdd(t) ==
    LET m == job[t].member IN
    /\ Doing(t, "add", "write")
    /\ IF LiveRows(m) = {}
       THEN /\ \E r \in RowId : InsertRow(r, m, job[t].to)
            /\ UNCHANGED <<owner, clubVersion, cap, block, app>>
       ELSE UNCHANGED data
    /\ End(t)

-----------------------------------------------------------------------------
(* Applications: applyToClub, reviseClubApplication,                       *)
(* withdrawClubApplication and decideClubApplication.  What runs before    *)
(* their transactions (preflight, quota, gate) only refuses earlier.       *)

\* assertCanApplyToClub
CanApply(m) == RowsOf(m) \cap Active = {} /\ block[m] = {}

ReadForApply(t) ==
    \E m \in Applicant :
        /\ CanApply(m)
        /\ OpenApps(m) = {}
        /\ AppLeft
        /\ Start(t, [op |-> "apply", member |-> m, to |-> "none", n |-> 0], NoRead, "write")

\* club_applications_one_open_per_member_club decides the race of two.
WriteApplication(t) ==
    LET m == job[t].member IN
    /\ Doing(t, "apply", "write")
    /\ IF OpenApps(m) = {}
       THEN /\ ClubShared
            /\ StatsFree
            /\ \E a \in AppId, phase \in Open :
                 /\ app[a] = NoApp
                 /\ \A b \in AppId : b < a => app[b] # NoApp
                 /\ app' = [app EXCEPT ![a] = [member |-> m, phase |-> phase,
                                               membership |-> 0]]
            /\ UNCHANGED <<row, owner, clubVersion, cap, block>>
       ELSE UNCHANGED data
    /\ End(t)

\* A revision that the gate passes, a withdrawal, a decision to decline or ban.
\* The application is read FOR UPDATE.
LockForSettling(t) ==
    \E a \in AppId, to \in {"awaiting_review", "withdrawn", "declined", "banned"} :
        /\ app[a].phase \in Open
        /\ to = "awaiting_review" => app[a].phase = "revision_required"
        /\ to \in {"declined", "banned"} => app[a].phase = "awaiting_review"
        /\ AppUnlocked(a)
        /\ Start(t, [op |-> "settle", member |-> app[a].member, to |-> to, n |-> a],
                 NoRead, "write")

UpdatePhase(t) ==
    /\ Doing(t, "settle", "write")
    /\ StatsFree
    /\ Goto(t, "announce")
    /\ UNCHANGED <<data, job, got, clubLock, capLock>>

Settle(t) ==
    LET m == job[t].member
        to == job[t].to IN
    /\ app' = [app EXCEPT ![job[t].n].phase = to]
    /\ block' = [block EXCEPT ![m] = @ \cup ({to} \cap {"declined", "banned"})]
    /\ UNCHANGED <<row, owner, clubVersion, cap>>
    /\ End(t)

\* reviseClubApplication notifies the administrators of the club,
\* decideClubApplication blocks the applicant, withdrawClubApplication notifies
\* the sponsor of an invitation: an insert for the club, each.
Announce(t) ==
    /\ Doing(t, "settle", "announce")
    /\ ClubShared
    /\ Settle(t)

\* The withdrawal of an application that no invitation led to.
WithdrawQuietly(t) ==
    /\ Doing(t, "settle", "write")
    /\ job[t].to = "withdrawn"
    /\ StatsFree
    /\ Settle(t)

\* A decision to accept: the application FOR UPDATE, then the membership that
\* is to be reactivated (row 0: none, one is to be created).
LockForAccept(t) ==
    \E a \in AppId :
        LET m == app[a].member
            request == [op |-> "accept", member |-> m, to |-> "active", n |-> a] IN
        /\ app[a].phase = "awaiting_review"
        /\ AppUnlocked(a)
        /\ \/ /\ LiveRows(m) = {}
              /\ RowLeft
              /\ Start(t, request, NoRead, "capacity")
           \/ \E r \in LiveRows(m) :
                /\ row[r].status = "cancelled"
                /\ row[r].version < MaxVersion
                /\ Start(t, request, [row |-> r, status |-> "cancelled",
                                      version |-> row[r].version], "capacity")

Accepted(a, r) == app' = [app EXCEPT ![a].phase = "active", ![a].membership = r]

AcceptNew(t) ==
    LET m == job[t].member IN
    /\ Doing(t, "accept", "write")
    /\ got[t].row = 0
    /\ IF LiveRows(m) = {}
       THEN /\ StatsFree
            /\ \E r \in RowId : InsertRow(r, m, "member") /\ Accepted(job[t].n, r)
       ELSE UNCHANGED <<row, app>>
    /\ UNCHANGED <<owner, clubVersion, cap, block>>
    /\ End(t)

\* reactivateCancelledMembershipInTransaction, from its activity on.
AcceptCancelled(t) ==
    LET r == got[t].row IN
    /\ Doing(t, "accept", "fanout")
    /\ ClubShared
    /\ StatsFree
    /\ row' = [row EXCEPT ![r].status = "active", ![r].version = @ + 1]
    /\ Accepted(job[t].n, r)
    /\ UNCHANGED <<owner, clubVersion, cap, block>>
    /\ End(t)

\* expires_at of the block written by a decline passes.
BlockExpires(m) ==
    /\ "declined" \in block[m]
    /\ block' = [block EXCEPT ![m] = @ \ {"declined"}]
    /\ UNCHANGED <<row, owner, clubVersion, cap, app, pc, job, got, clubLock, capLock>>

-----------------------------------------------------------------------------
Begin(t) ==
    \/ ReadForStatus(t)
    \/ ReadForRole(t)
    \/ ReadForOwner(t)
    \/ AskForCap(t)
    \/ ReadForAdd(t)
    \/ ReadForApply(t)
    \/ LockForSettling(t)
    \/ LockForAccept(t)

Continue(t) ==
    \/ AssertClubHasCapacity(t)
    \/ LockClubForStatus(t)
    \/ WriteStatus(t)
    \/ InsertActiveVersion(t)
    \/ WriteActive(t)
    \/ CheckOwner(t)
    \/ WriteRole(t)
    \/ LockClubForOwner(t)
    \/ WriteOwner(t)
    \/ LockCapacity(t)
    \/ LockClubForCap(t)
    \/ WriteCap(t)
    \/ WriteAdd(t)
    \/ WriteApplication(t)
    \/ UpdatePhase(t)
    \/ Announce(t)
    \/ WithdrawQuietly(t)
    \/ AcceptNew(t)
    \/ AcceptCancelled(t)

Next ==
    \/ \E t \in Request : Begin(t) \/ Continue(t) \/ Abort(t)
    \/ \E m \in Member : BlockExpires(m)

Spec == Init /\ [][Next]_vars

-----------------------------------------------------------------------------
(* Properties.                                                             *)

Label == {"idle", "club", "capacity", "owner", "write", "fanout", "announce"}

Membership == [member : Member, status : Live \cup Gone, role : Role, version : Nat]
Application == [member : Member, phase : Open \cup Closed, membership : 0..MaxRow]
Job == [op : AllOps \cup {"none"}, member : Member \cup {Nobody},
        to : Live \cup Gone \cup Role \cup Open \cup Closed \cup {"none"}, n : Nat]
Read == [row : 0..MaxRow, status : Live \cup Gone \cup {"none"}, version : Nat]

\* Every variable has its type, and only a request in progress holds a lock.
TypeOK ==
    /\ row \in [RowId -> Membership \cup {NoRow}]
    /\ owner \in Member
    /\ clubVersion \in Nat
    /\ cap \in Caps
    /\ block \in [Member -> SUBSET BlockKind]
    /\ app \in [AppId -> Application \cup {NoApp}]
    /\ pc \in [Request -> Label]
    /\ job \in [Request -> Job]
    /\ got \in [Request -> Read]
    /\ clubLock \in Request \cup {Nobody}
    /\ capLock \in Request \cup {Nobody}
    /\ clubLock # Nobody => pc[clubLock] = "write"
    /\ capLock # Nobody => pc[capLock] \in {"club", "write", "fanout"}

\* The club never has more active members than its cap, whichever of accepting,
\* reactivating, adding and lowering the cap happen at once
\* (assertClubHasCapacity, updateClub).
CapRespected == Cardinality(Active) <= cap

\* The owner has an active membership: a transfer of ownership and a change of
\* the new owner's status cannot both go through (assignClubOwner,
\* assertAdminStatusChangeAllowed).
OwnerStaysActive == RowsOf(owner) \cap Active # {}

LegalTransition == AdminTransition \cup
    {<<"cancelled", "active">>, <<"removed", "active">>, <<"banned", "active">>}

\* A status only changes along a transition the code allows, from the status
\* the membership really has when the change commits: of two decisions taken
\* on the same read one is refused with version_conflict.
TransitionsLegal ==
    [][\A r \in RowId :
         (row[r] # NoRow /\ row'[r].status # row[r].status)
            => <<row[r].status, row'[r].status>> \in LegalTransition]_vars

\* A member all of whose memberships were removed or banned cannot apply.
OutsiderBlocked ==
    \A m \in Member :
        (RowsOf(m) # {} /\ LiveRows(m) = {}) => block[m] \cap Gone # {}

\* A closed application stays as it was decided, and only the end of the
\* membership it led to is recorded on it: an acceptance that races a
\* withdrawal, a decline or another acceptance does not override it.
DecisionStands ==
    [][\A a \in AppId :
         (app[a].phase \in Closed /\ app'[a] # app[a])
            => app[a].membership # 0 /\ app'[a].phase \in Gone]_vars

\* An application that reads active led to a membership of its applicant that
\* is neither removed nor banned.
ActiveApplicationsLive ==
    \A a \in AppId : app[a].phase = "active" =>
        app[a].membership \in LiveRows(app[a].member)

\* An acceptance that reactivates a cancelled membership has its next state
\* version and waits for the row of the club; a removal or ban of the same
\* membership, read at the same version, has the row and waits for the version.
ReactivationDeadlock(t, u) ==
    /\ Doing(t, "accept", "fanout")
    /\ Doing(u, "status", "write")
    /\ clubLock = u
    /\ got[u] = got[t]

\* A revision, withdrawal or decision has platform_stats and waits for the row of
\* the club; a removal or ban of a membership that an application led to has that
\* row and waits for platform_stats.
StatsDeadlock(t, u) ==
    /\ Doing(t, "settle", "announce")
    /\ Doing(u, "status", "write")
    /\ clubLock = u
    /\ job[u].to \in Gone
    /\ \E a \in AppId : app[a].membership = got[u].row


\* docs/design-decisions.md: demoting the owner is forbidden.
OwnerIsAdmin == \A r \in RowsOf(owner) : row[r].status = "active" => row[r].role = "clubadmin"

\* docs/design-decisions.md: applicant blocks are checked before any
\* application write path proceeds.
RevisionChecksBlock ==
    [][\A a \in AppId :
         (app[a].phase = "revision_required" /\ app'[a].phase = "awaiting_review")
            => block[app[a].member] = {}]_vars

=============================================================================
