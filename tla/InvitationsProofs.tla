-------------------------- MODULE InvitationsProofs --------------------------
(***************************************************************************)
(* Theorems about Invitations: its types; an invitation is used by one     *)
(* application at most; the cap on what a sponsor has open in a club holds; *)
(* a member exceeds the cap on applications in flight only by requests of  *)
(* which neither saw the other.                                            *)
(*                                                                         *)
(* For the first, whoever holds the lock of a row will mark it expired or  *)
(* redeem it, so nothing else happens to it meanwhile.  For the cap, what  *)
(* an issuer counted under the lock of sponsor and club can only fall      *)
(* until it inserts.  For the third, every application saw only earlier    *)
(* ones, fewer than the cap: so of more than the cap the last one missed   *)
(* another, and that one, being earlier, missed it.                        *)
(***************************************************************************)
EXTENDS Invitations, FiniteSetTheorems, WellFoundedInduction, TLAPS

InviteRow == [club : Club \cup {Nobody}, sponsor : Sponsor \cup {Nobody},
              target : Target \cup {Nobody}, overdue : BOOLEAN, expired : BOOLEAN,
              used : BOOLEAN, revoked : BOOLEAN, withdrawn : BOOLEAN]
AppRow == [club : Club \cup {Nobody}, member : Applicant \cup {Nobody},
           invite : InviteId \cup {NoId}, phase : {"none", "open", "closed"},
           seen : SUBSET AppId]
Label == {"idle", "issue_lock", "issue_read", "issue_insert", "apply_read", "apply_write",
          "redeem_read", "redeem_write"}
JobRow == [op : {"none", "issue", "apply", "redeem"},
           who : Sponsor \cup Applicant \cup {Nobody}, club : Club \cup {Nobody},
           target : Target \cup {Nobody}, invite : InviteId \cup {NoId},
           late : SUBSET InviteId, seen : SUBSET AppId]

\* The types of the tables, and those of the requests and the locks.
TableTypes ==
    /\ invite \in [InviteId -> InviteRow]
    /\ application \in [AppId -> AppRow]
    /\ insider \subseteq Sponsor \X Club
    /\ usedLate \subseteq InviteId

RequestTypes ==
    /\ label \in [Request -> Label]
    /\ job \in [Request -> JobRow]
    /\ rowLock \in [InviteId -> Request \cup {Nobody}]
    /\ issueLock \in [Sponsor \X Club -> Request \cup {Nobody}]

\* What a request is for, and what it read that stays as it was.
AskedOf(r) ==
    /\ label[r] \in {"issue_lock", "issue_read", "issue_insert"} =>
          /\ job[r].who \in Sponsor /\ job[r].club \in Club /\ job[r].target \in Target
          /\ job[r].late \subseteq Overdue
    /\ label[r] \in {"apply_read", "apply_write"} =>
          job[r].who \in Applicant /\ job[r].club \in Club
    /\ label[r] \in {"redeem_read", "redeem_write"} =>
          /\ job[r].who \in Applicant /\ job[r].club \in Club /\ job[r].invite \in InviteId
          /\ Row(job[r].invite) /\ invite[job[r].invite].club = job[r].club

Asked == \A r \in Request : AskedOf(r)

\* Only a row that is there is used or expires.
Filled == \A i \in InviteId : invite[i].overdue \/ invite[i].used => Row(i)

Types == TableTypes /\ RequestTypes /\ Asked /\ Filled

LEMMA Identifiers == /\ NoId \notin InviteId /\ NoId \notin AppId
                     /\ InviteId \subseteq Nat /\ AppId \subseteq Nat
                     /\ IsFiniteSet(InviteId) /\ IsFiniteSet(AppId)
                     /\ Nobody \notin Club /\ Nobody \notin Request
<1>1. MaxInvite \in Nat /\ MaxApp \in Nat /\ Nobody \notin Club /\ Nobody \notin Request
  BY InvitationAssumption
<1>2. IsFiniteSet(1..MaxInvite) /\ IsFiniteSet(1..MaxApp)
  BY <1>1, FS_Interval
<1> QED
  BY <1>1, <1>2 DEF InviteId, AppId, NoId

-----------------------------------------------------------------------------
(* Types *)

\* The row a request is moved to has the type of a job.
LEMMA MovesTypes ==
    ASSUME RequestTypes, NEW r \in Request, NEW to \in Label, NEW j \in JobRow, Moves(r, to, j)
    PROVE  /\ label' \in [Request -> Label] /\ job' \in [Request -> JobRow]
           /\ label' = [label EXCEPT ![r] = to] /\ job' = [job EXCEPT ![r] = j]
BY DEF RequestTypes, Moves

LEMMA UnlockedTypes ==
    ASSUME RequestTypes, NEW r \in Request, Unlocked(r)
    PROVE  /\ rowLock' \in [InviteId -> Request \cup {Nobody}]
           /\ issueLock' \in [Sponsor \X Club -> Request \cup {Nobody}]
BY DEF RequestTypes, Unlocked

LEMMA NoJobType == NoJob \in JobRow /\ "idle" \in Label
BY DEF NoJob, JobRow, Label

LEMMA EndsTypes == ASSUME RequestTypes, NEW r \in Request, Ends(r) PROVE RequestTypes'
<1>1. Moves(r, "idle", NoJob) /\ Unlocked(r)
  BY DEF Ends
<1> QED
  BY <1>1, NoJobType, MovesTypes, UnlockedTypes DEF RequestTypes

LEMMA MarkTypes ==
    ASSUME TableTypes, NEW i \in InviteId
    PROVE  /\ [invite EXCEPT ![i].used = TRUE] \in [InviteId -> InviteRow]
           /\ [invite EXCEPT ![i].revoked = TRUE] \in [InviteId -> InviteRow]
           /\ [invite EXCEPT ![i].withdrawn = TRUE] \in [InviteId -> InviteRow]
           /\ [invite EXCEPT ![i].overdue = TRUE] \in [InviteId -> InviteRow]
<1>1. /\ [invite[i] EXCEPT !.used = TRUE] \in InviteRow
      /\ [invite[i] EXCEPT !.revoked = TRUE] \in InviteRow
      /\ [invite[i] EXCEPT !.withdrawn = TRUE] \in InviteRow
      /\ [invite[i] EXCEPT !.overdue = TRUE] \in InviteRow
  BY DEF TableTypes, InviteRow
<1> QED
  BY <1>1 DEF TableTypes

LEMMA InsertsTypes ==
    ASSUME TableTypes, NEW m \in Applicant, NEW c \in Club, NEW i \in InviteId \cup {NoId},
           NEW seen \in SUBSET AppId, InsertsApplication(m, c, i, seen)
    PROVE  application' \in [AppId -> AppRow]
<1>1. PICK a \in AppId :
         application' = [application EXCEPT ![a] =
             [club |-> c, member |-> m, invite |-> i, phase |-> "open", seen |-> seen]]
  BY DEF InsertsApplication
<1>2. [club |-> c, member |-> m, invite |-> i, phase |-> "open", seen |-> seen] \in AppRow
  BY DEF AppRow
<1> QED
  BY <1>1, <1>2 DEF TableTypes

LEMMA InitTypes == Init => Types
<1> SUFFICES ASSUME Init PROVE Types
  OBVIOUS
<1>1. TableTypes
  <2>1. NoInvite \in InviteRow /\ NoApp \in AppRow
    BY DEF NoInvite, InviteRow, NoApp, AppRow
  <2> QED
    BY <2>1, InvitationAssumption DEF Init, TableTypes
<1>2. RequestTypes
  BY NoJobType DEF Init, RequestTypes
<1>3. Asked
  BY DEF Init, Asked, AskedOf
<1>4. Filled
  BY DEF Init, Filled, NoInvite
<1> QED
  BY <1>1, <1>2, <1>3, <1>4 DEF Types

LEMMA TableTypesKept == Types /\ [Next]_vars => TableTypes'
<1> SUFFICES ASSUME Types, [Next]_vars PROVE TableTypes'
  OBVIOUS
<1>0. TableTypes /\ RequestTypes /\ Asked
  BY DEF Types
<1>1. CASE UNCHANGED tables
  BY <1>0, <1>1 DEF TableTypes, tables
<1>2. ASSUME NEW r \in Request, Fails(r) PROVE TableTypes'
  BY <1>1, <1>2 DEF Fails
<1>3. ASSUME NEW r \in Request, \/ \E s \in Sponsor, c \in Club, t \in Target : IssueChecks(r, s, c, t)
                                \/ IssueLocks(r) \/ IssueReads(r)
                                \/ \E m \in Applicant, c \in Club, i \in InviteId \cup {NoId} :
                                      ApplyPrepares(r, m, c, i)
                                \/ ApplyReads(r)
                                \/ \E m \in Applicant, i \in InviteId : RedeemPrepares(r, m, i)
                                \/ RedeemReads(r) \/ Abort(r)
      PROVE TableTypes'
  BY <1>1, <1>3 DEF IssueChecks, IssueLocks, IssueReads, ApplyPrepares, ApplyReads,
                    RedeemPrepares, RedeemReads, Abort, Fails
<1>4. ASSUME NEW r \in Request, IssueInserts(r) PROVE TableTypes'
  <2>1. job[r].who \in Sponsor /\ job[r].club \in Club /\ job[r].target \in Target
    BY <1>0, <1>4 DEF IssueInserts, Asked, AskedOf
  <2>2. PICK n \in InviteId :
           invite' = [i \in InviteId |->
              IF i = n THEN [NoInvite EXCEPT !.club = job[r].club, !.sponsor = job[r].who,
                                             !.target = job[r].target]
              ELSE IF i \in {l \in InviteId : rowLock[l] = r} THEN [invite[i] EXCEPT !.expired = TRUE]
              ELSE invite[i]]
    BY <1>4 DEF IssueInserts
  <2>3. [NoInvite EXCEPT !.club = job[r].club, !.sponsor = job[r].who,
                         !.target = job[r].target] \in InviteRow
    BY <2>1 DEF NoInvite, InviteRow
  <2>4. \A i \in InviteId : invite[i] \in InviteRow /\ [invite[i] EXCEPT !.expired = TRUE] \in InviteRow
    BY <1>0 DEF TableTypes, InviteRow
  <2>5. invite' \in [InviteId -> InviteRow]
    BY <2>2, <2>3, <2>4
  <2> QED
    BY <1>0, <1>4, <2>5 DEF IssueInserts, TableTypes
<1>5. ASSUME NEW r \in Request, ApplyWrites(r) PROVE TableTypes'
  <2>1. CASE Fails(r)
    BY <1>2, <2>1
  <2>2. CASE /\ ApplyBinds(job[r]) /\ UNCHANGED insider
             /\ InsertsApplication(job[r].who, job[r].club, job[r].invite, job[r].seen)
    <3>1. /\ job[r].who \in Applicant /\ job[r].club \in Club
          /\ job[r].invite \in InviteId \cup {NoId} /\ job[r].seen \in SUBSET AppId
      <4>1. job[r] \in JobRow
        BY <1>0 DEF RequestTypes
      <4> QED
        BY <1>0, <1>5, <4>1 DEF ApplyWrites, Asked, AskedOf, JobRow
    <3>2. application' \in [AppId -> AppRow]
      BY <1>0, <2>2, <3>1, InsertsTypes
    <3>3. invite' \in [InviteId -> InviteRow] /\ usedLate' \subseteq InviteId
      <4>1. CASE UNCHANGED <<invite, usedLate>>
        BY <1>0, <4>1 DEF TableTypes
      <4>2. CASE /\ job[r].invite \in LiveInternal(job[r].who, job[r].club, job[r].late)
                 /\ invite' = [invite EXCEPT ![job[r].invite].used = TRUE]
                 /\ usedLate' = IF invite[job[r].invite].overdue
                                THEN usedLate \cup {job[r].invite} ELSE usedLate
        BY <1>0, <4>2, MarkTypes DEF TableTypes, LiveInternal
      <4> QED
        BY <2>2, <4>1, <4>2 DEF ApplyBinds
    <3> QED
      BY <1>0, <2>2, <3>2, <3>3 DEF TableTypes
  <2> QED
    BY <1>5, <2>1, <2>2 DEF ApplyWrites
<1>6. ASSUME NEW r \in Request, RedeemWrites(r) PROVE TableTypes'
  <2>1. CASE Fails(r)
    BY <1>2, <2>1
  <2>2. CASE /\ RedeemUses(job[r].invite) /\ UNCHANGED insider
             /\ InsertsApplication(job[r].who, job[r].club, job[r].invite, job[r].seen)
    <3>1. /\ job[r].who \in Applicant /\ job[r].club \in Club
          /\ job[r].invite \in InviteId /\ job[r].seen \in SUBSET AppId
      <4>1. job[r] \in JobRow
        BY <1>0 DEF RequestTypes
      <4> QED
        BY <1>0, <1>6, <4>1 DEF RedeemWrites, Asked, AskedOf, JobRow
    <3>2. application' \in [AppId -> AppRow]
      BY <1>0, <2>2, <3>1, InsertsTypes
    <3>3. invite' = invite \/ invite' = [invite EXCEPT ![job[r].invite].used = TRUE]
      BY <2>2 DEF RedeemUses
    <3>4. usedLate' = usedLate \/ usedLate' = usedLate \cup {job[r].invite}
      BY <2>2 DEF RedeemUses
    <3>5. invite' \in [InviteId -> InviteRow]
      <4>1. CASE invite' = invite
        BY <1>0, <4>1 DEF TableTypes
      <4>2. CASE invite' = [invite EXCEPT ![job[r].invite].used = TRUE]
        BY <1>0, <3>1, <4>2, MarkTypes
      <4> QED
        BY <3>3, <4>1, <4>2
    <3> QED
      BY <1>0, <2>2, <3>1, <3>2, <3>4, <3>5 DEF TableTypes
  <2> QED
    BY <1>6, <2>1, <2>2 DEF RedeemWrites
<1>7. ASSUME NEW i \in InviteId, Revoke(i) \/ WithdrawSupport(i) \/ TurnsOverdue(i) PROVE TableTypes'
  <2>1. invite' \in [InviteId -> InviteRow]
    BY <1>0, <1>7, MarkTypes DEF Revoke, WithdrawSupport, TurnsOverdue
  <2> QED
    BY <1>0, <1>7, <2>1 DEF Revoke, WithdrawSupport, TurnsOverdue, TableTypes
<1>8. ASSUME NEW s \in Sponsor, NEW c \in Club, SponsorLeaves(s, c) PROVE TableTypes'
  <2>1. \A i \in InviteId : invite'[i] \in InviteRow
    <3>1. \A i \in InviteId : invite[i] \in InviteRow /\ [invite[i] EXCEPT !.revoked = TRUE] \in InviteRow
      BY <1>0 DEF TableTypes, InviteRow
    <3> QED
      BY <1>8, <3>1 DEF SponsorLeaves
  <2>2. invite' \in [InviteId -> InviteRow]
    BY <1>8, <2>1 DEF SponsorLeaves
  <2> QED
    BY <1>0, <1>8, <2>2 DEF SponsorLeaves, TableTypes
<1>9. ASSUME NEW a \in AppId, Close(a) PROVE TableTypes'
  BY <1>0, <1>9 DEF Close, TableTypes, AppRow
<1>10. CASE UNCHANGED vars
  BY <1>1, <1>10 DEF vars
<1> QED
  BY <1>3, <1>4, <1>5, <1>6, <1>7, <1>8, <1>9, <1>10 DEF Next


LEMMA RequestTypesKept == Types /\ [Next]_vars => RequestTypes'
<1> SUFFICES ASSUME Types, [Next]_vars PROVE RequestTypes'
  OBVIOUS
<1>0. TableTypes /\ RequestTypes /\ Asked
  BY DEF Types
<1>1. CASE UNCHANGED <<label, job, locks>>
  BY <1>0, <1>1 DEF RequestTypes, locks
<1>2. ASSUME NEW r \in Request, Ends(r) PROVE RequestTypes'
  BY <1>0, <1>2, EndsTypes
<1>3. ASSUME NEW r \in Request, NEW s \in Sponsor, NEW c \in Club, NEW t \in Target,
             IssueChecks(r, s, c, t)
      PROVE  RequestTypes'
  <2>1. [NoJob EXCEPT !.op = "issue", !.who = s, !.club = c, !.target = t, !.late = Overdue] \in JobRow
    BY DEF NoJob, JobRow, Overdue
  <2>2. "issue_lock" \in Label
    BY DEF Label
  <2> QED
    BY <1>0, <1>3, <2>1, <2>2, MovesTypes DEF IssueChecks, RequestTypes, locks
<1>4. ASSUME NEW r \in Request, IssueLocks(r) PROVE RequestTypes'
  <2>1. label' \in [Request -> Label] /\ issueLock' \in [Sponsor \X Club -> Request \cup {Nobody}]
    BY <1>0, <1>4 DEF IssueLocks, RequestTypes, Label
  <2> QED
    BY <1>0, <1>4, <2>1 DEF IssueLocks, RequestTypes
<1>5. ASSUME NEW r \in Request, IssueReads(r) PROVE RequestTypes'
  <2>1. CASE Fails(r)
    BY <1>2, <2>1 DEF Fails
  <2>2. CASE ~Fails(r)
    <3> DEFINE marked == ToExpire(job[r].who, job[r].club, job[r].target, job[r].late)
    <3>1. /\ label' = [label EXCEPT ![r] = "issue_insert"]
          /\ rowLock' = [i \in InviteId |-> IF i \in marked THEN r ELSE rowLock[i]]
          /\ UNCHANGED <<job, issueLock>>
      BY <1>5, <2>2 DEF IssueReads
    <3> HIDE DEF marked
    <3>2. label' \in [Request -> Label]
      BY <1>0, <3>1 DEF RequestTypes, Label
    <3>3. rowLock' \in [InviteId -> Request \cup {Nobody}]
      BY <1>0, <3>1 DEF RequestTypes
    <3> QED
      BY <1>0, <3>1, <3>2, <3>3 DEF RequestTypes
  <2> QED
    BY <2>1, <2>2
<1>6. ASSUME NEW r \in Request, NEW m \in Applicant, NEW c \in Club, NEW i \in InviteId \cup {NoId},
             ApplyPrepares(r, m, c, i)
      PROVE  RequestTypes'
  <2>1. [NoJob EXCEPT !.op = "apply", !.who = m, !.club = c, !.invite = i] \in JobRow
    BY DEF NoJob, JobRow
  <2>2. "apply_read" \in Label
    BY DEF Label
  <2> QED
    BY <1>0, <1>6, <2>1, <2>2, MovesTypes DEF ApplyPrepares, RequestTypes, locks
<1>7. ASSUME NEW r \in Request, ApplyReads(r) PROVE RequestTypes'
  <2>1. CASE Fails(r)
    BY <1>2, <2>1 DEF Fails
  <2>2. CASE ~Fails(r)
    <3>1. PICK i \in Bindings(job[r].who, job[r].club, job[r].invite, Overdue) :
             /\ Moves(r, "apply_write", [job[r] EXCEPT !.invite = i, !.late = Overdue,
                                                       !.seen = OpenAppsOf(job[r].who)])
             /\ UNCHANGED locks
      BY <1>7, <2>2 DEF ApplyReads
    <3>2. job[r] \in JobRow
      BY <1>0 DEF RequestTypes
    <3>3. i \in InviteId \cup {NoId}
      BY <3>1, <3>2 DEF Bindings, LiveInternal, JobRow
    <3>4. [job[r] EXCEPT !.invite = i, !.late = Overdue, !.seen = OpenAppsOf(job[r].who)] \in JobRow
      BY <3>2, <3>3 DEF JobRow, Overdue, OpenAppsOf
    <3>5. "apply_write" \in Label
      BY DEF Label
    <3> QED
      BY <1>0, <3>1, <3>4, <3>5, MovesTypes DEF RequestTypes, locks
  <2> QED
    BY <2>1, <2>2
<1>8. ASSUME NEW r \in Request, NEW m \in Applicant, NEW i \in InviteId, RedeemPrepares(r, m, i)
      PROVE  RequestTypes'
  <2>1. [NoJob EXCEPT !.op = "redeem", !.who = m, !.club = invite[i].club, !.invite = i] \in JobRow
    BY <1>0 DEF NoJob, JobRow, TableTypes, InviteRow
  <2>2. "redeem_read" \in Label
    BY DEF Label
  <2> QED
    BY <1>0, <1>8, <2>1, <2>2, MovesTypes DEF RedeemPrepares, RequestTypes, locks
<1>9. ASSUME NEW r \in Request, RedeemReads(r) PROVE RequestTypes'
  <2>1. CASE Fails(r)
    BY <1>2, <2>1 DEF Fails
  <2>2. CASE ~Fails(r)
    <3>1. /\ Moves(r, "redeem_write", [job[r] EXCEPT !.seen = OpenAppsOf(job[r].who)])
          /\ LocksRow(r, job[r].invite)
          /\ UNCHANGED issueLock
      BY <1>9, <2>2 DEF RedeemReads
    <3>2. job[r] \in JobRow
      BY <1>0 DEF RequestTypes
    <3>4. [job[r] EXCEPT !.seen = OpenAppsOf(job[r].who)] \in JobRow
      BY <3>2 DEF JobRow, OpenAppsOf
    <3>5. "redeem_write" \in Label
      BY DEF Label
    <3>6. rowLock' \in [InviteId -> Request \cup {Nobody}]
      BY <1>0, <3>1 DEF LocksRow, RequestTypes
    <3> QED
      BY <1>0, <3>1, <3>4, <3>5, <3>6, MovesTypes DEF RequestTypes
  <2> QED
    BY <2>1, <2>2
<1>10. ASSUME NEW r \in Request, IssueInserts(r) \/ ApplyWrites(r) \/ RedeemWrites(r) \/ Abort(r)
       PROVE  RequestTypes'
  <2>1. Ends(r)
    BY <1>10 DEF IssueInserts, ApplyWrites, RedeemWrites, Abort, Fails
  <2> QED
    BY <1>2, <2>1
<1>11. ASSUME NEW i \in InviteId, Revoke(i) \/ WithdrawSupport(i) \/ TurnsOverdue(i)
       PROVE  RequestTypes'
  BY <1>1, <1>11 DEF Revoke, WithdrawSupport, TurnsOverdue
<1>12. ASSUME NEW s \in Sponsor, NEW c \in Club, SponsorLeaves(s, c) PROVE RequestTypes'
  BY <1>1, <1>12 DEF SponsorLeaves
<1>13. ASSUME NEW a \in AppId, Close(a) PROVE RequestTypes'
  BY <1>1, <1>13 DEF Close
<1>14. CASE UNCHANGED vars
  BY <1>1, <1>14 DEF vars
<1> QED
  BY <1>3, <1>4, <1>5, <1>6, <1>7, <1>8, <1>9, <1>10, <1>11, <1>12, <1>13, <1>14 DEF Next


\* A row keeps whom it is from, whom and which club it is for, and stays overdue.
RowStays(i) ==
    Row(i) => /\ invite'[i].club = invite[i].club /\ invite'[i].sponsor = invite[i].sponsor
              /\ invite'[i].target = invite[i].target
              /\ invite[i].overdue => invite'[i].overdue

LEMMA RowsStay == Types /\ [Next]_vars => \A i \in InviteId : RowStays(i)
<1> SUFFICES ASSUME Types, [Next]_vars, NEW i \in InviteId PROVE RowStays(i)
  OBVIOUS
<1>0. TableTypes /\ invite[i] \in InviteRow
  BY DEF Types, TableTypes
<1>1. CASE UNCHANGED invite
  BY <1>1 DEF RowStays
<1>2. ASSUME NEW l \in InviteId, \/ invite' = [invite EXCEPT ![l].used = TRUE]
                                 \/ invite' = [invite EXCEPT ![l].revoked = TRUE]
                                 \/ invite' = [invite EXCEPT ![l].withdrawn = TRUE]
                                 \/ invite' = [invite EXCEPT ![l].overdue = TRUE]
      PROVE  RowStays(i)
  BY <1>0, <1>2 DEF RowStays, TableTypes, InviteRow
<1>3. ASSUME NEW r \in Request, \/ \E s \in Sponsor, c \in Club, t \in Target : IssueChecks(r, s, c, t)
                                \/ IssueLocks(r) \/ IssueReads(r)
                                \/ \E m \in Applicant, c \in Club, l \in InviteId \cup {NoId} :
                                      ApplyPrepares(r, m, c, l)
                                \/ ApplyReads(r)
                                \/ \E m \in Applicant, l \in InviteId : RedeemPrepares(r, m, l)
                                \/ RedeemReads(r) \/ Abort(r)
      PROVE RowStays(i)
  BY <1>1, <1>3 DEF IssueChecks, IssueLocks, IssueReads, ApplyPrepares, ApplyReads,
                    RedeemPrepares, RedeemReads, Abort, Fails, tables
<1>4. ASSUME NEW r \in Request, IssueInserts(r) PROVE RowStays(i)
  <2>1. Row(i) => invite'[i] = invite[i] \/ invite'[i] = [invite[i] EXCEPT !.expired = TRUE]
    BY <1>4 DEF IssueInserts
  <2> QED
    BY <1>0, <2>1 DEF RowStays, InviteRow
<1>5. ASSUME NEW r \in Request, ApplyWrites(r) PROVE RowStays(i)
  <2>1. CASE UNCHANGED invite
    BY <1>1, <2>1
  <2>2. CASE /\ job[r].invite \in InviteId
             /\ invite' = [invite EXCEPT ![job[r].invite].used = TRUE]
    BY <1>2, <2>2
  <2> QED
    BY <1>5, <2>1, <2>2 DEF ApplyWrites, ApplyBinds, Fails, tables, LiveInternal
<1>6. ASSUME NEW r \in Request, RedeemWrites(r) PROVE RowStays(i)
  <2>1. CASE UNCHANGED invite
    BY <1>1, <2>1
  <2>2. CASE invite' = [invite EXCEPT ![job[r].invite].used = TRUE]
    <3>1. job[r].invite \in InviteId
      BY <1>6 DEF RedeemWrites, Types, Asked, AskedOf
    <3> QED
      BY <1>2, <2>2, <3>1
  <2> QED
    BY <1>6, <2>1, <2>2 DEF RedeemWrites, RedeemUses, Fails, tables
<1>7. ASSUME NEW l \in InviteId, Revoke(l) \/ WithdrawSupport(l) \/ TurnsOverdue(l) PROVE RowStays(i)
  BY <1>2, <1>7 DEF Revoke, WithdrawSupport, TurnsOverdue
<1>8. ASSUME NEW s \in Sponsor, NEW c \in Club, SponsorLeaves(s, c) PROVE RowStays(i)
  <2>1. invite'[i] = invite[i] \/ invite'[i] = [invite[i] EXCEPT !.revoked = TRUE]
    BY <1>8 DEF SponsorLeaves
  <2> QED
    BY <1>0, <2>1 DEF RowStays, InviteRow
<1>9. ASSUME NEW a \in AppId, Close(a) PROVE RowStays(i)
  BY <1>1, <1>9 DEF Close
<1>10. CASE UNCHANGED vars
  BY <1>1, <1>10 DEF vars, tables
<1> QED
  BY <1>3, <1>4, <1>5, <1>6, <1>7, <1>8, <1>9, <1>10 DEF Next

LEMMA RowsRemain ==
    ASSUME Types, NEW i \in InviteId, Row(i), RowStays(i)
    PROVE  Row(i)' /\ (i \in Overdue => i \in Overdue')
BY DEF Row, RowStays, Overdue

\* What a request that does not move was asked for stands.
LEMMA AskedKept ==
    ASSUME Types, TableTypes', \A i \in InviteId : RowStays(i),
           NEW r \in Request, label'[r] = label[r], job'[r] = job[r]
    PROVE  AskedOf(r)'
<1>0. AskedOf(r)
  BY DEF Types, Asked
<1>1. \A i \in Overdue : i \in Overdue'
  <2> SUFFICES ASSUME NEW i \in Overdue PROVE i \in Overdue'
    OBVIOUS
  <2>1. i \in InviteId /\ Row(i)
    BY DEF Overdue, Types, Filled
  <2> QED
    BY <2>1, RowsRemain
<1>2. ASSUME label[r] \in {"redeem_read", "redeem_write"}
      PROVE  Row(job[r].invite)' /\ invite'[job[r].invite].club = job[r].club
  <2>1. job[r].invite \in InviteId /\ Row(job[r].invite) /\ invite[job[r].invite].club = job[r].club
    BY <1>0, <1>2 DEF AskedOf
  <2>2. invite'[job[r].invite].club = invite[job[r].invite].club
    BY <2>1 DEF RowStays
  <2>3. invite'[job[r].invite].club # Nobody
    BY <2>1, <2>2 DEF Row
  <2> QED
    BY <1>2, <2>1, <2>2, <2>3 DEF Row
<1> QED
  BY <1>0, <1>1, <1>2 DEF AskedOf


LEMMA FilledKept == Types /\ TableTypes' /\ [Next]_vars => Filled'
<1> SUFFICES ASSUME Types, TableTypes', [Next]_vars, NEW i \in InviteId,
                    invite'[i].overdue \/ invite'[i].used
             PROVE  Row(i)'
  BY DEF Filled
<1>0. TableTypes /\ invite[i] \in InviteRow /\ RowStays(i)
  BY RowsStay DEF Types, TableTypes
<1>1. CASE Row(i)
  BY <1>0, <1>1, RowsRemain
<1>2. CASE ~Row(i)
  <2>0. ~invite[i].overdue /\ ~invite[i].used
    BY <1>2 DEF Types, Filled
  <2>1. CASE invite'[i] = invite[i]
    BY <2>0, <2>1
  <2>2. ASSUME NEW l \in InviteId, Row(l), \/ invite' = [invite EXCEPT ![l].used = TRUE]
                                           \/ invite' = [invite EXCEPT ![l].revoked = TRUE]
                                           \/ invite' = [invite EXCEPT ![l].withdrawn = TRUE]
                                           \/ invite' = [invite EXCEPT ![l].overdue = TRUE]
        PROVE  invite'[i] = invite[i]
    BY <1>0, <1>2, <2>2 DEF TableTypes
  <2>3. ASSUME NEW r \in Request, IssueInserts(r) PROVE Row(i)'
    <3>1. job[r].club \in Club
      BY <2>3 DEF IssueInserts, Types, Asked, AskedOf
    <3>2. \/ invite'[i] = [NoInvite EXCEPT !.club = job[r].club, !.sponsor = job[r].who,
                                           !.target = job[r].target]
          \/ invite'[i] = [invite[i] EXCEPT !.expired = TRUE]
          \/ invite'[i] = invite[i]
      BY <2>3 DEF IssueInserts
    <3>3. \/ invite'[i].overdue = invite[i].overdue /\ invite'[i].used = invite[i].used
          \/ invite'[i].club = job[r].club
      BY <1>0, <3>2 DEF InviteRow, NoInvite
    <3> QED
      BY <2>0, <3>1, <3>3, Identifiers DEF Row
  <2>4. ASSUME NEW r \in Request, ApplyWrites(r) PROVE invite'[i] = invite[i]
    <3>1. CASE /\ job[r].invite \in InviteId /\ Row(job[r].invite)
               /\ invite' = [invite EXCEPT ![job[r].invite].used = TRUE]
      BY <2>2, <3>1
    <3> QED
      BY <2>4, <3>1 DEF ApplyWrites, ApplyBinds, Fails, tables, LiveInternal, LiveFor
  <2>5. ASSUME NEW r \in Request, RedeemWrites(r) PROVE invite'[i] = invite[i]
    <3>1. CASE invite' = [invite EXCEPT ![job[r].invite].used = TRUE]
      <4>1. job[r].invite \in InviteId /\ Row(job[r].invite)
        BY <2>5 DEF RedeemWrites, Types, Asked, AskedOf
      <4> QED
        BY <2>2, <3>1, <4>1
    <3> QED
      BY <2>5, <3>1 DEF RedeemWrites, RedeemUses, Fails, tables
  <2>6. ASSUME NEW l \in InviteId, Revoke(l) \/ WithdrawSupport(l) \/ TurnsOverdue(l)
        PROVE  invite'[i] = invite[i]
    BY <2>2, <2>6 DEF Revoke, WithdrawSupport, TurnsOverdue
  <2>7. ASSUME NEW s \in Sponsor, NEW c \in Club, SponsorLeaves(s, c) PROVE invite'[i] = invite[i]
    BY <1>2, <2>7 DEF SponsorLeaves, Revocable
  <2>8. ASSUME UNCHANGED invite PROVE invite'[i] = invite[i]
    BY <2>8
  <2>9. ASSUME NEW r \in Request, \/ \E s \in Sponsor, c \in Club, t \in Target : IssueChecks(r, s, c, t)
                                  \/ IssueLocks(r) \/ IssueReads(r)
                                  \/ \E m \in Applicant, c \in Club, l \in InviteId \cup {NoId} :
                                        ApplyPrepares(r, m, c, l)
                                  \/ ApplyReads(r)
                                  \/ \E m \in Applicant, l \in InviteId : RedeemPrepares(r, m, l)
                                  \/ RedeemReads(r) \/ Abort(r)
        PROVE UNCHANGED invite
    BY <2>9 DEF IssueChecks, IssueLocks, IssueReads, ApplyPrepares, ApplyReads,
                RedeemPrepares, RedeemReads, Abort, Fails, tables
  <2>10. ASSUME NEW a \in AppId, Close(a) PROVE UNCHANGED invite
    BY <2>10 DEF Close
  <2>11. CASE UNCHANGED vars
    BY <2>1, <2>11 DEF vars, tables
  <2> QED
    BY <2>1, <2>3, <2>4, <2>5, <2>6, <2>7, <2>8, <2>9, <2>10, <2>11 DEF Next
<1> QED
  BY <1>1, <1>2

LEMMA AskedStep == Types /\ TableTypes' /\ RequestTypes' /\ [Next]_vars => Asked'
<1> SUFFICES ASSUME Types, TableTypes', RequestTypes', [Next]_vars, NEW q \in Request
             PROVE  AskedOf(q)'
  BY DEF Asked
<1>0. /\ TableTypes /\ RequestTypes /\ Asked /\ AskedOf(q)
      /\ label \in [Request -> Label] /\ job \in [Request -> JobRow]
  BY DEF Types, RequestTypes, Asked
<1>1. \A i \in InviteId : RowStays(i)
  BY RowsStay
<1>2. CASE label'[q] = label[q] /\ job'[q] = job[q]
  BY <1>1, <1>2, AskedKept
<1>3. ASSUME NEW r \in Request, NEW to, NEW j, Moves(r, to, j), q # r PROVE AskedOf(q)'
  BY <1>0, <1>2, <1>3 DEF Moves
<1>4. ASSUME label'[q] = "idle" PROVE AskedOf(q)'
  BY <1>4 DEF AskedOf
<1>5. ASSUME NEW r \in Request, Ends(r) PROVE AskedOf(q)'
  BY <1>0, <1>3, <1>4, <1>5 DEF Ends, Moves
<1>6. ASSUME NEW r \in Request, NEW s \in Sponsor, NEW c \in Club, NEW t \in Target,
             IssueChecks(r, s, c, t), q = r
      PROVE  AskedOf(q)'
  <2>1. /\ label'[r] = "issue_lock"
        /\ job'[r] = [NoJob EXCEPT !.op = "issue", !.who = s, !.club = c, !.target = t, !.late = Overdue]
        /\ UNCHANGED invite
    BY <1>0, <1>6 DEF IssueChecks, Moves, tables
  <2>2. Overdue' = Overdue
    BY <2>1 DEF Overdue
  <2> QED
    BY <1>6, <2>1, <2>2 DEF AskedOf, NoJob
<1>7. ASSUME NEW r \in Request, IssueLocks(r) PROVE AskedOf(q)'
  <2>1. CASE q = r
    <3>1. /\ label[r] = "issue_lock" /\ label'[r] = "issue_read" /\ job'[r] = job[r]
          /\ UNCHANGED invite
      BY <1>0, <1>7 DEF IssueLocks, tables
    <3>2. Overdue' = Overdue
      BY <3>1 DEF Overdue
    <3> QED
      BY <1>0, <2>1, <3>1, <3>2 DEF AskedOf
  <2>2. CASE q # r
    BY <1>0, <1>2, <1>7, <2>2 DEF IssueLocks
  <2> QED
    BY <2>1, <2>2
<1>8. ASSUME NEW r \in Request, IssueReads(r) PROVE AskedOf(q)'
  <2>1. CASE Fails(r)
    BY <1>5, <2>1 DEF Fails
  <2>2. CASE label' = [label EXCEPT ![r] = "issue_insert"] /\ UNCHANGED <<tables, job>>
    <3>1. CASE q = r
      <4>1. /\ label[r] = "issue_read" /\ label'[r] = "issue_insert" /\ job'[r] = job[r]
            /\ UNCHANGED invite
        BY <1>0, <1>8, <2>2 DEF IssueReads, tables
      <4>2. Overdue' = Overdue
        BY <4>1 DEF Overdue
      <4> QED
        BY <1>0, <3>1, <4>1, <4>2 DEF AskedOf
    <3>2. CASE q # r
      BY <1>0, <1>2, <2>2, <3>2
    <3> QED
      BY <3>1, <3>2
  <2> QED
    BY <1>8, <2>1, <2>2 DEF IssueReads
<1>9. ASSUME NEW r \in Request, NEW m \in Applicant, NEW c \in Club, NEW i \in InviteId \cup {NoId},
             ApplyPrepares(r, m, c, i), q = r
      PROVE  AskedOf(q)'
  <2>1. /\ label'[r] = "apply_read"
        /\ job'[r] = [NoJob EXCEPT !.op = "apply", !.who = m, !.club = c, !.invite = i]
    BY <1>0, <1>9 DEF ApplyPrepares, Moves
  <2> QED
    BY <1>9, <2>1 DEF AskedOf, NoJob
<1>10. ASSUME NEW r \in Request, ApplyReads(r) PROVE AskedOf(q)'
  <2>1. CASE Fails(r)
    BY <1>5, <2>1 DEF Fails
  <2>2. CASE ~Fails(r)
    <3>1. PICK i \in Bindings(job[r].who, job[r].club, job[r].invite, Overdue) :
             Moves(r, "apply_write", [job[r] EXCEPT !.invite = i, !.late = Overdue,
                                                    !.seen = OpenAppsOf(job[r].who)])
      BY <1>10, <2>2 DEF ApplyReads
    <3>2. CASE q = r
      <4>1. /\ label'[r] = "apply_write" /\ label[r] = "apply_read" /\ job[r] \in JobRow
            /\ job'[r] = [job[r] EXCEPT !.invite = i, !.late = Overdue,
                                        !.seen = OpenAppsOf(job[r].who)]
        BY <1>0, <1>10, <3>1 DEF Moves, ApplyReads
      <4>2. job'[r].who = job[r].who /\ job'[r].club = job[r].club
        BY <4>1 DEF JobRow
      <4> QED
        BY <1>0, <3>2, <4>1, <4>2 DEF AskedOf
    <3>3. CASE q # r
      BY <1>3, <3>1, <3>3
    <3> QED
      BY <3>2, <3>3
  <2> QED
    BY <2>1, <2>2
<1>11. ASSUME NEW r \in Request, NEW m \in Applicant, NEW i \in InviteId, RedeemPrepares(r, m, i), q = r
       PROVE  AskedOf(q)'
  <2>1. /\ label'[r] = "redeem_read"
        /\ job'[r] = [NoJob EXCEPT !.op = "redeem", !.who = m, !.club = invite[i].club, !.invite = i]
        /\ Row(i) /\ UNCHANGED invite
    BY <1>0, <1>11 DEF RedeemPrepares, Moves, tables
  <2>2. job'[r].who = m /\ job'[r].club = invite[i].club /\ job'[r].invite = i
    BY <2>1 DEF NoJob
  <2>3. invite[i].club \in Club
    BY <1>0, <2>1 DEF TableTypes, InviteRow, Row
  <2> QED
    BY <1>11, <2>1, <2>2, <2>3 DEF AskedOf, Row
<1>12. ASSUME NEW r \in Request, RedeemReads(r) PROVE AskedOf(q)'
  <2>1. CASE Fails(r)
    BY <1>5, <2>1 DEF Fails
  <2>2. CASE ~Fails(r)
    <3>1. /\ Moves(r, "redeem_write", [job[r] EXCEPT !.seen = OpenAppsOf(job[r].who)])
          /\ UNCHANGED invite
      BY <1>12, <2>2 DEF RedeemReads, tables
    <3>2. CASE q = r
      <4>1. /\ label'[r] = "redeem_write" /\ label[r] = "redeem_read" /\ job[r] \in JobRow
            /\ job'[r] = [job[r] EXCEPT !.seen = OpenAppsOf(job[r].who)]
        BY <1>0, <1>12, <3>1 DEF Moves, RedeemReads
      <4>2. job'[r].who = job[r].who /\ job'[r].club = job[r].club /\ job'[r].invite = job[r].invite
        BY <4>1 DEF JobRow
      <4> QED
        BY <1>0, <3>1, <3>2, <4>1, <4>2 DEF AskedOf, Row
    <3>3. CASE q # r
      BY <1>3, <3>1, <3>3
    <3> QED
      BY <3>2, <3>3
  <2> QED
    BY <2>1, <2>2
<1>13. ASSUME NEW r \in Request, IssueInserts(r) \/ ApplyWrites(r) \/ RedeemWrites(r) \/ Abort(r)
       PROVE  AskedOf(q)'
  BY <1>5, <1>13 DEF IssueInserts, ApplyWrites, RedeemWrites, Abort, Fails
<1>14. ASSUME NEW i \in InviteId, Revoke(i) \/ WithdrawSupport(i) \/ TurnsOverdue(i)
       PROVE  AskedOf(q)'
  BY <1>2, <1>14 DEF Revoke, WithdrawSupport, TurnsOverdue
<1>15. ASSUME NEW s \in Sponsor, NEW c \in Club, SponsorLeaves(s, c) PROVE AskedOf(q)'
  BY <1>2, <1>15 DEF SponsorLeaves
<1>16. ASSUME NEW a \in AppId, Close(a) PROVE AskedOf(q)'
  BY <1>2, <1>16 DEF Close
<1>17. CASE UNCHANGED vars
  BY <1>2, <1>17 DEF vars
<1>18. ASSUME NEW r \in Request, q # r,
              \/ \E s \in Sponsor, c \in Club, t \in Target : IssueChecks(r, s, c, t)
              \/ \E m \in Applicant, c \in Club, i \in InviteId \cup {NoId} : ApplyPrepares(r, m, c, i)
              \/ \E m \in Applicant, i \in InviteId : RedeemPrepares(r, m, i)
       PROVE  AskedOf(q)'
  BY <1>3, <1>18 DEF IssueChecks, ApplyPrepares, RedeemPrepares
<1> QED
  BY <1>6, <1>7, <1>8, <1>9, <1>10, <1>11, <1>12, <1>13, <1>14, <1>15, <1>16, <1>17, <1>18 DEF Next

LEMMA TypesKept == Types /\ [Next]_vars => Types'
BY TableTypesKept, RequestTypesKept, AskedStep, FilledKept DEF Types

\* Every reachable state of the tables, the requests and the locks is well typed
\* (admission.ts, invitations/unified.ts), for any sponsors, targets, clubs and requests.
THEOREM TypeCorrect == Spec => []TypeOK
<1>1. Types => TypeOK
  BY DEF Types, TableTypes, RequestTypes, TypeOK, InviteRow, AppRow, Label, JobRow
<1> QED
  BY <1>1, InitTypes, TypesKept, PTL DEF Spec

-----------------------------------------------------------------------------
(* Uses of invitations *)

\* A row is locked by a request that will mark it as expired, or that redeems it.
Locked ==
    \A i \in InviteId, r \in Request : rowLock[i] = r =>
        /\ Row(i) /\ ~invite[i].used
        /\ \/ label[r] = "issue_insert"
           \/ label[r] = "redeem_write" /\ job[r].invite = i

\* What was found usable for update stays usable.
Redeeming ==
    \A r \in Request : label[r] = "redeem_write" =>
        /\ rowLock[job[r].invite] = r
        /\ ~invite[job[r].invite].revoked /\ ~invite[job[r].invite].expired

UsesOf(i) ==
    IF invite[i].used
    THEN /\ \E a \in AppId : /\ application[a].invite = i /\ application[a].club = invite[i].club
                             /\ \A b \in AppId : application[b].invite = i => b = a
         /\ ~invite[i].revoked /\ ~invite[i].expired
    ELSE \A a \in AppId : application[a].invite # i

Uses == \A i \in InviteId : UsesOf(i)

\* Nothing that a use depends on changes in a row.
SameRow(i) ==
    /\ invite'[i].club = invite[i].club /\ invite'[i].used = invite[i].used
    /\ invite'[i].revoked = invite[i].revoked /\ invite'[i].expired = invite[i].expired

\* What an invitation led to stays when applications stay and a used row is not touched.
LEMMA UsesOfKept ==
    ASSUME NEW i \in InviteId, UsesOf(i),
           \A a \in AppId : /\ application'[a].invite = application[a].invite
                            /\ application'[a].club = application[a].club,
           invite'[i].used = invite[i].used, invite[i].used => SameRow(i)
    PROVE  UsesOf(i)'
<1>1. CASE invite[i].used
  <2>1. PICK a \in AppId : /\ application[a].invite = i /\ application[a].club = invite[i].club
                           /\ \A b \in AppId : application[b].invite = i => b = a
    BY <1>1 DEF UsesOf
  <2>2. SameRow(i) /\ ~invite[i].revoked /\ ~invite[i].expired
    BY <1>1 DEF UsesOf
  <2>3. /\ application'[a].invite = i /\ application'[a].club = invite'[i].club
        /\ \A b \in AppId : application'[b].invite = i => b = a
    BY <2>1, <2>2 DEF SameRow
  <2> QED
    BY <1>1, <2>2, <2>3 DEF UsesOf, SameRow
<1>2. CASE ~invite[i].used
  BY <1>2 DEF UsesOf
<1> QED
  BY <1>1, <1>2

\* An application that is inserted with no invitation.
LEMMA ColdInsert ==
    ASSUME TableTypes, Uses, UNCHANGED invite, NEW m, NEW c, NEW seen,
           InsertsApplication(m, c, NoId, seen)
    PROVE  Uses'
<1> SUFFICES ASSUME NEW i \in InviteId PROVE UsesOf(i)'
  BY DEF Uses
<1>1. PICK n \in AppId :
         /\ application[n] = NoApp
         /\ application' = [application EXCEPT ![n] =
              [club |-> c, member |-> m, invite |-> NoId, phase |-> "open", seen |-> seen]]
  BY DEF InsertsApplication
<1>2. application'[n].invite # i /\ application[n].invite # i
  BY <1>1, Identifiers DEF TableTypes, NoApp
<1>3. \A a \in AppId : a # n => application'[a] = application[a]
  BY <1>1 DEF TableTypes
<1>4. CASE invite[i].used
  <2>1. PICK a \in AppId : /\ application[a].invite = i /\ application[a].club = invite[i].club
                           /\ \A b \in AppId : application[b].invite = i => b = a
    BY <1>4 DEF Uses, UsesOf
  <2>2. /\ application'[a].invite = i /\ application'[a].club = invite[i].club
        /\ \A b \in AppId : application'[b].invite = i => b = a
    BY <1>2, <1>3, <2>1
  <2> QED
    BY <1>4, <2>2 DEF Uses, UsesOf
<1>5. CASE ~invite[i].used
  BY <1>2, <1>3, <1>5 DEF Uses, UsesOf
<1> QED
  BY <1>4, <1>5

\* An application that is inserted with the invitation it uses.
LEMMA BoundInsert ==
    ASSUME TableTypes, Uses, NEW l \in InviteId, NEW m, NEW seen,
           ~invite[l].used, ~invite[l].revoked, ~invite[l].expired,
           invite' = [invite EXCEPT ![l].used = TRUE],
           InsertsApplication(m, invite[l].club, l, seen)
    PROVE  Uses'
<1> SUFFICES ASSUME NEW i \in InviteId PROVE UsesOf(i)'
  BY DEF Uses
<1>1. PICK n \in AppId :
         /\ application[n] = NoApp
         /\ application' = [application EXCEPT ![n] =
              [club |-> invite[l].club, member |-> m, invite |-> l, phase |-> "open", seen |-> seen]]
  BY DEF InsertsApplication
<1>2. /\ application'[n].invite = l /\ application'[n].club = invite[l].club
      /\ application[n].invite \notin InviteId
  BY <1>1, Identifiers DEF TableTypes, NoApp
<1>3. \A a \in AppId : a # n => application'[a] = application[a]
  BY <1>1 DEF TableTypes
<1>4. CASE i = l
  <2>1. \A a \in AppId : application[a].invite # l
    BY DEF Uses, UsesOf
  <2>2. \A b \in AppId : application'[b].invite = l => b = n
    BY <1>3, <2>1
  <2>3. /\ invite'[l].used /\ ~invite'[l].revoked /\ ~invite'[l].expired
        /\ invite'[l].club = invite[l].club
    BY DEF TableTypes, InviteRow
  <2> QED
    BY <1>2, <1>4, <2>2, <2>3 DEF UsesOf
<1>5. CASE i # l
  <2>1. invite'[i] = invite[i] /\ application'[n].invite # i /\ application[n].invite # i
    BY <1>2, <1>5 DEF TableTypes
  <2>2. CASE invite[i].used
    <3>1. PICK a \in AppId : /\ application[a].invite = i /\ application[a].club = invite[i].club
                             /\ \A b \in AppId : application[b].invite = i => b = a
      BY <2>2 DEF Uses, UsesOf
    <3>2. /\ application'[a].invite = i /\ application'[a].club = invite[i].club
          /\ \A b \in AppId : application'[b].invite = i => b = a
      BY <1>3, <2>1, <3>1
    <3>3. ~invite[i].revoked /\ ~invite[i].expired
      BY <2>2 DEF Uses, UsesOf
    <3> QED
      BY <2>1, <2>2, <3>2, <3>3 DEF UsesOf
  <2>3. CASE ~invite[i].used
    <3>1. \A a \in AppId : application[a].invite # i
      BY <2>3 DEF Uses, UsesOf
    <3>2. \A a \in AppId : application'[a].invite # i
      BY <1>3, <2>1, <3>1
    <3> QED
      BY <2>1, <2>3, <3>2 DEF UsesOf
  <2> QED
    BY <2>2, <2>3
<1> QED
  BY <1>4, <1>5

-----------------------------------------------------------------------------
(* Locks of rows *)

\* A step of r that touches neither rows nor their locks, while r holds none.
LEMMA QuietKept ==
    ASSUME Types, Locked, Redeeming, UNCHANGED <<invite, rowLock>>, NEW r \in Request,
           \A q \in Request \ {r} : label'[q] = label[q] /\ job'[q] = job[q],
           label[r] \notin {"issue_insert", "redeem_write"}, label'[r] # "redeem_write"
    PROVE  Locked' /\ Redeeming'
<1>1. \A i \in InviteId : rowLock[i] # r
  BY DEF Locked
<1>2. Locked'
  BY <1>1 DEF Locked, Row
<1>3. Redeeming'
  BY DEF Redeeming
<1> QED
  BY <1>2, <1>3

LEMMA EndsFrees ==
    ASSUME RequestTypes, NEW r \in Request, Ends(r)
    PROVE  /\ \A q \in Request \ {r} : label'[q] = label[q] /\ job'[q] = job[q]
           /\ label'[r] = "idle"
           /\ \A i \in InviteId : /\ rowLock'[i] # r
                                  /\ rowLock[i] # r => rowLock'[i] = rowLock[i]
<1>1. label' = [label EXCEPT ![r] = "idle"] /\ job' = [job EXCEPT ![r] = NoJob]
  BY DEF Ends, Moves
<1>2. \A i \in InviteId : rowLock'[i] = IF rowLock[i] = r THEN Nobody ELSE rowLock[i]
  BY DEF Ends, Unlocked
<1> QED
  BY <1>1, <1>2, Identifiers DEF RequestTypes

\* A request that ends may have changed the rows it had locked, and free ones.
LEMMA EndsKept ==
    ASSUME Types, Locked, Redeeming, NEW r \in Request, Ends(r),
           \A i \in InviteId, q \in Request \ {r} : rowLock[i] = q => SameRow(i)
    PROVE  Locked' /\ Redeeming'
<1>0. RequestTypes /\ Asked
  BY DEF Types
<1>1. Locked'
  <2> SUFFICES ASSUME NEW i \in InviteId, NEW q \in Request, rowLock'[i] = q
               PROVE  /\ Row(i)' /\ ~invite'[i].used
                      /\ \/ label'[q] = "issue_insert"
                         \/ label'[q] = "redeem_write" /\ job'[q].invite = i
    BY DEF Locked
  <2>0. /\ rowLock'[i] # r
        /\ rowLock[i] # r => rowLock'[i] = rowLock[i]
        /\ rowLock[i] = r => rowLock'[i] = Nobody
    <3>1. rowLock'[i] # r /\ (rowLock[i] # r => rowLock'[i] = rowLock[i])
      BY <1>0, EndsFrees
    <3> QED
      BY <3>1 DEF Ends, Unlocked
  <2>1. q # r /\ rowLock[i] = q /\ label'[q] = label[q] /\ job'[q] = job[q]
    <3>1. q # r /\ rowLock[i] = q
      BY <2>0, Identifiers
    <3> QED
      BY <1>0, <3>1, EndsFrees
  <2>2. /\ Row(i) /\ ~invite[i].used /\ SameRow(i)
        /\ \/ label[q] = "issue_insert"
           \/ label[q] = "redeem_write" /\ job[q].invite = i
    BY <2>1 DEF Locked
  <2> QED
    BY <2>1, <2>2 DEF SameRow, Row
<1>2. Redeeming'
  <2> SUFFICES ASSUME NEW q \in Request, label'[q] = "redeem_write"
               PROVE  /\ rowLock'[job'[q].invite] = q
                      /\ ~invite'[job'[q].invite].revoked /\ ~invite'[job'[q].invite].expired
    BY DEF Redeeming
  <2>1. q # r /\ label[q] = "redeem_write" /\ job'[q] = job[q]
    BY <1>0, EndsFrees
  <2>2. /\ job[q].invite \in InviteId /\ rowLock[job[q].invite] = q
        /\ ~invite[job[q].invite].revoked /\ ~invite[job[q].invite].expired
    BY <1>0, <2>1 DEF Redeeming, Asked, AskedOf
  <2>3. rowLock'[job[q].invite] = q /\ SameRow(job[q].invite)
    BY <1>0, <2>1, <2>2, EndsFrees
  <2> QED
    BY <2>1, <2>2, <2>3 DEF SameRow
<1> QED
  BY <1>1, <1>2

\* A change of rows outside the requests leaves locked rows as they are.
LEMMA OutsideKept ==
    ASSUME Types, Locked, Redeeming, UNCHANGED <<label, job, rowLock>>,
           \A i \in InviteId : rowLock[i] \in Request => SameRow(i)
    PROVE  Locked' /\ Redeeming'
<1>1. Locked'
  BY DEF Locked, SameRow, Row
<1>2. Redeeming'
  <2> SUFFICES ASSUME NEW q \in Request, label[q] = "redeem_write"
               PROVE  /\ rowLock[job[q].invite] = q
                      /\ ~invite'[job[q].invite].revoked /\ ~invite'[job[q].invite].expired
    BY DEF Redeeming
  <2>1. job[q].invite \in InviteId
    BY DEF Types, Asked, AskedOf
  <2> QED
    BY <2>1 DEF Redeeming, SameRow
<1> QED
  BY <1>1, <1>2


UsesInv == Locked /\ Redeeming /\ Uses

LEMMA SameTablesSameUses == Uses /\ UNCHANGED tables => Uses'
BY DEF Uses, UsesOf, tables

\* A request that fails lets go of what it had.
LEMMA FailsKept == ASSUME Types, UsesInv, NEW r \in Request, Fails(r) PROVE UsesInv'
<1>1. Ends(r) /\ UNCHANGED tables
  BY DEF Fails
<1>2. Uses'
  BY <1>1, SameTablesSameUses DEF UsesInv
<1>3. \A i \in InviteId, q \in Request \ {r} : rowLock[i] = q => SameRow(i)
  BY <1>1 DEF SameRow, tables
<1> QED
  BY <1>1, <1>2, <1>3, EndsKept DEF UsesInv

LEMMA IssueReadsKept == ASSUME Types, UsesInv, NEW r \in Request, IssueReads(r) PROVE UsesInv'
<1>1. CASE Fails(r)
  BY <1>1, FailsKept
<1>2. CASE ~Fails(r)
  <2> DEFINE marked == ToExpire(job[r].who, job[r].club, job[r].target, job[r].late)
  <2>0. /\ label \in [Request -> Label] /\ rowLock \in [InviteId -> Request \cup {Nobody}]
        /\ Locked /\ Redeeming /\ Uses /\ Nobody \notin Request
    BY Identifiers DEF Types, RequestTypes, UsesInv
  <2>1. /\ label' = [label EXCEPT ![r] = "issue_insert"] /\ label[r] = "issue_read"
        /\ rowLock' = [i \in InviteId |-> IF i \in marked THEN r ELSE rowLock[i]]
        /\ UNCHANGED <<tables, job>>
        /\ \A i \in marked : rowLock[i] = Nobody
    BY <1>2 DEF IssueReads, Available
  <2>2. \A i \in marked : i \in InviteId /\ Row(i) /\ ~invite[i].used
    BY DEF ToExpire
  <2> HIDE DEF marked
  <2>3. UNCHANGED invite
    BY <2>1 DEF tables
  <2>4. Locked'
    <3> SUFFICES ASSUME NEW i \in InviteId, NEW q \in Request, rowLock'[i] = q
                 PROVE  /\ Row(i) /\ ~invite[i].used
                        /\ \/ label'[q] = "issue_insert"
                           \/ label'[q] = "redeem_write" /\ job[q].invite = i
      BY <2>1, <2>3 DEF Locked, Row
    <3>1. CASE i \in marked
      BY <2>0, <2>1, <2>2, <3>1
    <3>2. CASE i \notin marked
      <4>1. rowLock[i] = q
        BY <2>1, <3>2
      <4>2. /\ Row(i) /\ ~invite[i].used
            /\ \/ label[q] = "issue_insert"
               \/ label[q] = "redeem_write" /\ job[q].invite = i
        BY <2>0, <4>1 DEF Locked
      <4> QED
        BY <2>0, <2>1, <4>2
    <3> QED
      BY <3>1, <3>2
  <2>5. Redeeming'
    <3> SUFFICES ASSUME NEW q \in Request, label'[q] = "redeem_write"
                 PROVE  /\ rowLock'[job[q].invite] = q
                        /\ ~invite[job[q].invite].revoked /\ ~invite[job[q].invite].expired
      BY <2>1, <2>3 DEF Redeeming
    <3>1. label[q] = "redeem_write"
      BY <2>0, <2>1
    <3>2. job[q].invite \in InviteId
      BY <3>1 DEF Types, Asked, AskedOf
    <3>3. /\ rowLock[job[q].invite] = q
          /\ ~invite[job[q].invite].revoked /\ ~invite[job[q].invite].expired
      BY <2>0, <3>1 DEF Redeeming
    <3> QED
      BY <2>0, <2>1, <3>2, <3>3
  <2>6. Uses'
    BY <2>0, <2>1, SameTablesSameUses
  <2> QED
    BY <2>4, <2>5, <2>6 DEF UsesInv
<1> QED
  BY <1>1, <1>2

LEMMA RedeemReadsKept == ASSUME Types, UsesInv, NEW r \in Request, RedeemReads(r) PROVE UsesInv'
<1>1. CASE Fails(r)
  BY <1>1, FailsKept
<1>2. CASE ~Fails(r)
  <2> DEFINE l == job[r].invite
  <2>0. /\ label \in [Request -> Label] /\ rowLock \in [InviteId -> Request \cup {Nobody}]
        /\ job \in [Request -> JobRow]
        /\ Locked /\ Redeeming /\ Uses /\ Nobody \notin Request
    BY Identifiers DEF Types, RequestTypes, UsesInv
  <2>1. /\ label[r] = "redeem_read" /\ rowLock[l] = Nobody /\ Usable(l)
        /\ label' = [label EXCEPT ![r] = "redeem_write"]
        /\ job' = [job EXCEPT ![r] = [job[r] EXCEPT !.seen = OpenAppsOf(job[r].who)]]
        /\ rowLock' = [rowLock EXCEPT ![l] = r]
        /\ UNCHANGED tables
    BY <1>2 DEF RedeemReads, Available, Moves, LocksRow
  <2>2. l \in InviteId /\ Row(l) /\ ~invite[l].used /\ ~invite[l].revoked /\ ~invite[l].expired
    BY <2>1 DEF Usable, Types, Asked, AskedOf
  <2>3. /\ label'[r] = "redeem_write" /\ job'[r].invite = l
        /\ \A q \in Request \ {r} : label'[q] = label[q] /\ job'[q] = job[q]
        /\ UNCHANGED invite
    BY <2>0, <2>1 DEF JobRow, tables
  <2> HIDE DEF l
  <2>4. \A i \in InviteId : rowLock'[i] = IF i = l THEN r ELSE rowLock[i]
    BY <2>0, <2>1
  <2>5. Locked'
    <3> SUFFICES ASSUME NEW i \in InviteId, NEW q \in Request, rowLock'[i] = q
                 PROVE  /\ Row(i) /\ ~invite[i].used
                        /\ \/ label'[q] = "issue_insert"
                           \/ label'[q] = "redeem_write" /\ job'[q].invite = i
      BY <2>3 DEF Locked, Row
    <3>1. CASE i = l
      BY <2>2, <2>3, <2>4, <3>1
    <3>2. CASE i # l
      <4>1. rowLock[i] = q
        BY <2>4, <3>2
      <4>2. /\ Row(i) /\ ~invite[i].used
            /\ \/ label[q] = "issue_insert"
               \/ label[q] = "redeem_write" /\ job[q].invite = i
        BY <2>0, <4>1 DEF Locked
      <4>3. q # r
        BY <2>1, <4>2
      <4> QED
        BY <2>3, <4>2, <4>3
    <3> QED
      BY <3>1, <3>2
  <2>6. Redeeming'
    <3> SUFFICES ASSUME NEW q \in Request, label'[q] = "redeem_write"
                 PROVE  /\ rowLock'[job'[q].invite] = q
                        /\ ~invite[job'[q].invite].revoked /\ ~invite[job'[q].invite].expired
      BY <2>3 DEF Redeeming
    <3>1. CASE q = r
      BY <2>2, <2>3, <2>4, <3>1
    <3>2. CASE q # r
      <4>1. label[q] = "redeem_write" /\ job'[q] = job[q]
        BY <2>3, <3>2
      <4>2. job[q].invite \in InviteId
        BY <4>1 DEF Types, Asked, AskedOf
      <4>3. /\ rowLock[job[q].invite] = q
            /\ ~invite[job[q].invite].revoked /\ ~invite[job[q].invite].expired
        BY <2>0, <4>1 DEF Redeeming
      <4>4. job[q].invite # l
        BY <2>0, <2>1, <4>3 DEF l
      <4> QED
        BY <2>4, <4>1, <4>2, <4>3, <4>4
    <3> QED
      BY <3>1, <3>2
  <2>7. Uses'
    BY <2>0, <2>1, SameTablesSameUses
  <2> QED
    BY <2>5, <2>6, <2>7 DEF UsesInv
<1> QED
  BY <1>1, <1>2

LEMMA IssueInsertsKept == ASSUME Types, UsesInv, NEW r \in Request, IssueInserts(r) PROVE UsesInv'
<1>0. TableTypes /\ RequestTypes /\ Filled /\ Locked /\ Redeeming /\ Uses
  BY DEF Types, UsesInv
<1>1. PICK n \in InviteId :
         /\ ~Row(n)
         /\ invite' = [i \in InviteId |->
              IF i = n THEN [NoInvite EXCEPT !.club = job[r].club, !.sponsor = job[r].who,
                                             !.target = job[r].target]
              ELSE IF i \in {l \in InviteId : rowLock[l] = r} THEN [invite[i] EXCEPT !.expired = TRUE]
              ELSE invite[i]]
  BY DEF IssueInserts
<1>2. UNCHANGED application /\ Ends(r)
  BY DEF IssueInserts
<1>3. ~invite[n].used /\ ~invite'[n].used
  BY <1>0, <1>1 DEF Filled, NoInvite
<1>4. \A i \in InviteId \ {n} : rowLock[i] # r => SameRow(i)
  BY <1>1 DEF SameRow
<1>5. \A i \in InviteId \ {n} : rowLock[i] = r => invite'[i].used = invite[i].used /\ ~invite[i].used
  <2> SUFFICES ASSUME NEW i \in InviteId \ {n}, rowLock[i] = r
               PROVE  invite'[i].used = invite[i].used /\ ~invite[i].used
    OBVIOUS
  <2>1. invite'[i] = [invite[i] EXCEPT !.expired = TRUE] /\ invite[i] \in InviteRow
    BY <1>0, <1>1 DEF TableTypes
  <2>2. ~invite[i].used
    BY <1>0 DEF Locked
  <2> QED
    BY <2>1, <2>2 DEF InviteRow
<1>6. Uses'
  <2> SUFFICES ASSUME NEW i \in InviteId PROVE UsesOf(i)'
    BY DEF Uses
  <2>1. invite'[i].used = invite[i].used
    <3>1. CASE i = n
      BY <1>0, <1>1, <1>3, <3>1 DEF TableTypes, InviteRow, NoInvite
    <3> QED
      BY <1>4, <1>5, <3>1 DEF SameRow
  <2>2. invite[i].used => SameRow(i)
    BY <1>3, <1>4, <1>5
  <2>3. UsesOf(i)
    BY <1>0 DEF Uses
  <2> QED
    BY <1>2, <2>1, <2>2, <2>3, UsesOfKept
<1>7. \A i \in InviteId, q \in Request \ {r} : rowLock[i] = q => SameRow(i)
  BY <1>0, <1>1, <1>4 DEF Locked
<1> QED
  BY <1>0, <1>2, <1>6, <1>7, EndsKept DEF UsesInv

LEMMA ApplyWritesKept == ASSUME Types, UsesInv, NEW r \in Request, ApplyWrites(r) PROVE UsesInv'
<1>0. TableTypes /\ RequestTypes /\ Filled /\ Locked /\ Redeeming /\ Uses
  BY DEF Types, UsesInv
<1> DEFINE l == job[r].invite
<1>1. CASE Fails(r)
  BY <1>1, FailsKept
<1>2. CASE /\ l = NoId /\ UNCHANGED invite /\ Ends(r)
           /\ InsertsApplication(job[r].who, job[r].club, NoId, job[r].seen)
  <2>1. Uses'
    BY <1>0, <1>2, ColdInsert
  <2>2. \A i \in InviteId, q \in Request \ {r} : rowLock[i] = q => SameRow(i)
    BY <1>2 DEF SameRow
  <2> QED
    BY <1>0, <1>2, <2>1, <2>2, EndsKept DEF UsesInv
<1>3. CASE /\ l \in LiveInternal(job[r].who, job[r].club, job[r].late) /\ Ends(r)
           /\ invite' = [invite EXCEPT ![l].used = TRUE]
           /\ InsertsApplication(job[r].who, job[r].club, l, job[r].seen)
  <2>1. /\ l \in InviteId /\ ~invite[l].used /\ ~invite[l].revoked /\ ~invite[l].expired
        /\ invite[l].club = job[r].club
    BY <1>3 DEF LiveInternal, LiveFor
  <2>2. Uses'
    BY <1>0, <1>3, <2>1, BoundInsert
  <2>3. \A i \in InviteId, q \in Request \ {r} : rowLock[i] = q => SameRow(i)
    <3>1. rowLock[l] = Nobody
      BY <2>1, Identifiers DEF ApplyWrites, Available
    <3>2. \A i \in InviteId \ {l} : SameRow(i)
      BY <1>0, <1>3 DEF SameRow, TableTypes
    <3> QED
      BY <3>1, <3>2, Identifiers
  <2> QED
    BY <1>0, <1>3, <2>2, <2>3, EndsKept DEF UsesInv
<1> QED
  BY <1>1, <1>2, <1>3 DEF ApplyWrites, ApplyBinds

LEMMA RedeemWritesKept == ASSUME Types, UsesInv, NEW r \in Request, RedeemWrites(r) PROVE UsesInv'
<1>0. TableTypes /\ RequestTypes /\ Filled /\ Locked /\ Redeeming /\ Uses
  BY DEF Types, UsesInv
<1> DEFINE l == job[r].invite
<1>1. CASE Fails(r)
  BY <1>1, FailsKept
<1>2. CASE /\ RedeemUses(l) /\ Ends(r)
           /\ InsertsApplication(job[r].who, job[r].club, l, job[r].seen)
  <2>1. label[r] = "redeem_write" /\ l \in InviteId /\ invite[l].club = job[r].club
    BY DEF RedeemWrites, Types, Asked, AskedOf
  <2>2. rowLock[l] = r /\ ~invite[l].revoked /\ ~invite[l].expired /\ ~invite[l].used
    BY <1>0, <2>1 DEF Redeeming, Locked
  <2>3. invite' = [invite EXCEPT ![l].used = TRUE]
    BY <1>2, <2>2 DEF RedeemUses
  <2>4. Uses'
    BY <1>0, <1>2, <2>1, <2>2, <2>3, BoundInsert
  <2>5. \A i \in InviteId, q \in Request \ {r} : rowLock[i] = q => SameRow(i)
    <3>2. \A i \in InviteId \ {l} : SameRow(i)
      BY <1>0, <2>3 DEF SameRow, TableTypes
    <3> QED
      BY <2>2, <3>2
  <2> QED
    BY <1>0, <1>2, <2>4, <2>5, EndsKept DEF UsesInv
<1> QED
  BY <1>1, <1>2 DEF RedeemWrites


\* Revocation takes what is free and unused; the other changes touch nothing a use depends on.
LEMMA OutsideStepKept ==
    ASSUME Types, UsesInv,
           \/ \E i \in InviteId : Revoke(i) \/ WithdrawSupport(i) \/ TurnsOverdue(i)
           \/ \E s \in Sponsor, c \in Club : SponsorLeaves(s, c)
           \/ \E a \in AppId : Close(a)
    PROVE  UsesInv'
<1>0. TableTypes /\ RequestTypes /\ Locked /\ Redeeming /\ Uses /\ UNCHANGED <<label, job, rowLock>>
  BY DEF Types, UsesInv, Revoke, WithdrawSupport, TurnsOverdue, SponsorLeaves, Close, locks
<1>1. \A a \in AppId : /\ application'[a].invite = application[a].invite
                       /\ application'[a].club = application[a].club
  <2>1. CASE UNCHANGED application
    BY <2>1
  <2>2. ASSUME NEW a \in AppId, Close(a)
        PROVE  \A b \in AppId : /\ application'[b].invite = application[b].invite
                                /\ application'[b].club = application[b].club
    <3>1. application' = [application EXCEPT ![a] = [application[a] EXCEPT !.phase = "closed", !.seen = {}]]
      BY <1>0, <2>2 DEF Close, TableTypes, AppRow
    <3>2. application[a] \in AppRow
      BY <1>0 DEF TableTypes
    <3> QED
      BY <1>0, <3>1, <3>2 DEF TableTypes, AppRow
  <2> QED
    BY <2>1, <2>2 DEF Revoke, WithdrawSupport, TurnsOverdue, SponsorLeaves
<1>2. \A i \in InviteId : SameRow(i) \/ (rowLock[i] = Nobody /\ ~invite[i].used /\ ~invite'[i].used)
  <2> SUFFICES ASSUME NEW i \in InviteId
               PROVE  SameRow(i) \/ (rowLock[i] = Nobody /\ ~invite[i].used /\ ~invite'[i].used)
    OBVIOUS
  <2>0. invite[i] \in InviteRow
    BY <1>0 DEF TableTypes
  <2>1. CASE UNCHANGED invite
    BY <2>1 DEF SameRow
  <2>2. ASSUME NEW l \in InviteId, Revoke(l)
        PROVE  SameRow(i) \/ (rowLock[i] = Nobody /\ ~invite[i].used /\ ~invite'[i].used)
    BY <1>0, <2>0, <2>2 DEF Revoke, Available, SameRow, TableTypes, InviteRow
  <2>3. ASSUME NEW l \in InviteId, WithdrawSupport(l) \/ TurnsOverdue(l) PROVE SameRow(i)
    <3>1. \/ invite' = [invite EXCEPT ![l] = [invite[l] EXCEPT !.withdrawn = TRUE]]
          \/ invite' = [invite EXCEPT ![l] = [invite[l] EXCEPT !.overdue = TRUE]]
      BY <1>0, <2>3 DEF WithdrawSupport, TurnsOverdue, TableTypes, InviteRow
    <3>2. CASE i = l
      BY <1>0, <2>0, <3>1, <3>2 DEF SameRow, TableTypes, InviteRow
    <3>3. CASE i # l
      BY <1>0, <3>1, <3>3 DEF SameRow, TableTypes
    <3> QED
      BY <3>2, <3>3
  <2>4. ASSUME NEW s \in Sponsor, NEW c \in Club, SponsorLeaves(s, c)
        PROVE  SameRow(i) \/ (rowLock[i] = Nobody /\ ~invite[i].used /\ ~invite'[i].used)
    <3>1. \/ invite'[i] = invite[i]
          \/ Revocable(i) /\ Available(i) /\ invite'[i] = [invite[i] EXCEPT !.revoked = TRUE]
      BY <2>4 DEF SponsorLeaves
    <3>2. CASE invite'[i] = invite[i]
      BY <3>2 DEF SameRow
    <3>3. CASE Revocable(i) /\ Available(i) /\ invite'[i] = [invite[i] EXCEPT !.revoked = TRUE]
      BY <2>0, <3>3 DEF Revocable, Available, InviteRow
    <3> QED
      BY <3>1, <3>2, <3>3
  <2> QED
    BY <2>1, <2>2, <2>3, <2>4 DEF Close
<1>3. Uses'
  <2> SUFFICES ASSUME NEW i \in InviteId PROVE UsesOf(i)'
    BY DEF Uses
  <2>1. invite'[i].used = invite[i].used /\ (invite[i].used => SameRow(i))
    <3>1. CASE SameRow(i)
      BY <3>1 DEF SameRow
    <3>2. CASE ~SameRow(i)
      <4>1. ~invite[i].used /\ ~invite'[i].used
        BY <1>2, <3>2
      <4>2. invite[i].used \in BOOLEAN /\ invite'[i].used \in BOOLEAN
        <5>1. TableTypes'
          BY TableTypesKept DEF Next
        <5> QED
          BY <1>0, <5>1 DEF TableTypes, InviteRow
      <4> QED
        BY <4>1, <4>2
    <3> QED
      BY <3>1, <3>2
  <2> QED
    BY <1>0, <1>1, <2>1, UsesOfKept DEF Uses
<1>4. \A i \in InviteId : rowLock[i] \in Request => SameRow(i)
  BY <1>2, Identifiers
<1> QED
  BY <1>0, <1>3, <1>4, OutsideKept DEF UsesInv

LEMMA UsesStep == Types /\ UsesInv /\ [Next]_vars => UsesInv'
<1> SUFFICES ASSUME Types, UsesInv, [Next]_vars PROVE UsesInv'
  OBVIOUS
<1>0. /\ label \in [Request -> Label] /\ job \in [Request -> JobRow]
      /\ Locked /\ Redeeming /\ Uses
  BY DEF Types, RequestTypes, UsesInv
<1>1. ASSUME NEW r \in Request, UNCHANGED <<tables, rowLock>>, NEW to, NEW j,
             to # "redeem_write", label[r] \notin {"issue_insert", "redeem_write"},
             Moves(r, to, j)
      PROVE  UsesInv'
  <2>1. /\ \A q \in Request \ {r} : label'[q] = label[q] /\ job'[q] = job[q]
        /\ label'[r] = to
    BY <1>0, <1>1 DEF Moves
  <2>2. Uses' /\ UNCHANGED invite
    BY <1>0, <1>1, SameTablesSameUses DEF tables
  <2> QED
    BY <1>0, <1>1, <2>1, <2>2, QuietKept DEF UsesInv
<1>2. ASSUME NEW r \in Request, NEW s \in Sponsor, NEW c \in Club, NEW t \in Target,
             IssueChecks(r, s, c, t)
      PROVE  UsesInv'
  BY <1>1, <1>2 DEF IssueChecks, locks
<1>3. ASSUME NEW r \in Request, IssueLocks(r) PROVE UsesInv'
  <2>1. /\ \A q \in Request \ {r} : label'[q] = label[q] /\ job'[q] = job[q]
        /\ label'[r] = "issue_read" /\ label[r] = "issue_lock"
        /\ UNCHANGED <<tables, rowLock>>
    BY <1>0, <1>3 DEF IssueLocks
  <2>2. Uses' /\ UNCHANGED <<invite, rowLock>>
    BY <1>0, <2>1, SameTablesSameUses DEF tables
  <2> QED
    BY <1>0, <2>1, <2>2, QuietKept DEF UsesInv
<1>4. ASSUME NEW r \in Request, IssueReads(r) \/ IssueInserts(r) PROVE UsesInv'
  BY <1>4, IssueReadsKept, IssueInsertsKept
<1>5. ASSUME NEW r \in Request, NEW m \in Applicant, NEW c \in Club, NEW i \in InviteId \cup {NoId},
             ApplyPrepares(r, m, c, i)
      PROVE  UsesInv'
  BY <1>1, <1>5 DEF ApplyPrepares, locks
<1>6. ASSUME NEW r \in Request, ApplyReads(r) PROVE UsesInv'
  <2>1. CASE Fails(r)
    BY <2>1, FailsKept
  <2>2. CASE ~Fails(r)
    <3>1. PICK i : /\ Moves(r, "apply_write", [job[r] EXCEPT !.invite = i, !.late = Overdue,
                                                             !.seen = OpenAppsOf(job[r].who)])
                   /\ UNCHANGED <<tables, rowLock>>
      BY <1>6, <2>2 DEF ApplyReads, locks
    <3>2. label[r] = "apply_read"
      BY <1>6 DEF ApplyReads
    <3> QED
      BY <1>1, <3>1, <3>2
  <2> QED
    BY <2>1, <2>2
<1>7. ASSUME NEW r \in Request, ApplyWrites(r) PROVE UsesInv'
  BY <1>7, ApplyWritesKept
<1>8. ASSUME NEW r \in Request, NEW m \in Applicant, NEW i \in InviteId, RedeemPrepares(r, m, i)
      PROVE  UsesInv'
  BY <1>1, <1>8 DEF RedeemPrepares, locks
<1>9. ASSUME NEW r \in Request, RedeemReads(r) \/ RedeemWrites(r) \/ Abort(r) PROVE UsesInv'
  BY <1>9, RedeemReadsKept, RedeemWritesKept, FailsKept DEF Abort
<1>10. CASE \/ \E i \in InviteId : Revoke(i) \/ WithdrawSupport(i) \/ TurnsOverdue(i)
            \/ \E s \in Sponsor, c \in Club : SponsorLeaves(s, c)
            \/ \E a \in AppId : Close(a)
  BY <1>10, OutsideStepKept
<1>11. CASE UNCHANGED vars
  <2>1. Uses'
    BY <1>0, <1>11, SameTablesSameUses DEF vars
  <2>2. Locked'
    BY <1>0, <1>11 DEF vars, tables, locks, Locked, Row
  <2>3. Redeeming'
    BY <1>0, <1>11 DEF vars, tables, locks, Redeeming
  <2> QED
    BY <2>1, <2>2, <2>3 DEF UsesInv
<1> QED
  BY <1>2, <1>3, <1>4, <1>5, <1>6, <1>7, <1>8, <1>9, <1>10, <1>11 DEF Next

LEMMA InitUses == Init => UsesInv
<1> SUFFICES ASSUME Init PROVE UsesInv
  OBVIOUS
<1>1. Locked /\ Redeeming
  BY Identifiers DEF Init, Locked, Redeeming
<1>2. Uses
  BY Identifiers DEF Init, Uses, UsesOf, NoInvite, NoApp
<1> QED
  BY <1>1, <1>2 DEF UsesInv

\* An invitation is used by exactly one application, to its club, and what was used was
\* neither revoked nor expired before or since: for any number of requests that prepare with
\* it at once, of codes redeemed by anyone and of sponsors who revoke or leave meanwhile
\* (the row locks of redeem and of the writes of apply, admission.ts and unified.ts).
THEOREM InvitationsAreUsedOnce == Spec => []UsedOnce
<1>1. Init => Types /\ UsesInv
  BY InitTypes, InitUses
<1>2. Types /\ UsesInv /\ [Next]_vars => (Types /\ UsesInv)'
  BY TypesKept, UsesStep
<1>3. UsesInv => UsedOnce
  <2> SUFFICES ASSUME Uses, NEW i \in InviteId
               PROVE  LET by == {a \in AppId : application[a].invite = i} IN
                      IF invite[i].used
                      THEN /\ Cardinality(by) = 1
                           /\ \A a \in by : application[a].club = invite[i].club
                           /\ ~invite[i].revoked /\ ~invite[i].expired
                      ELSE by = {}
    BY DEF UsedOnce, UsesInv
  <2>1. CASE invite[i].used
    <3>1. PICK a \in AppId : /\ application[a].invite = i /\ application[a].club = invite[i].club
                             /\ \A b \in AppId : application[b].invite = i => b = a
      BY <2>1 DEF Uses, UsesOf
    <3>2. {b \in AppId : application[b].invite = i} = {a}
      BY <3>1
    <3>3. Cardinality({a}) = 1
      BY FS_Singleton
    <3> QED
      BY <2>1, <3>1, <3>2, <3>3 DEF Uses, UsesOf
  <2>2. CASE ~invite[i].used
    BY <2>2 DEF Uses, UsesOf
  <2> QED
    BY <2>1, <2>2
<1> QED
  BY <1>1, <1>2, <1>3, PTL DEF Spec


-----------------------------------------------------------------------------
(* The cap of a sponsor *)

Timely(s, c) == {a \in SponsoredApps(s, c) : application[a].invite \notin usedLate}

\* What a request that took the invitations in late for expired would count, but for uses
\* that came too late.
Total(s, c, late) == Cardinality(LiveInvites(s, c, late)) + Cardinality(Timely(s, c))

\* What has happened to a row is not undone.
Onward(i) ==
    /\ invite'[i].club = invite[i].club /\ invite'[i].sponsor = invite[i].sponsor
    /\ invite[i].used => invite'[i].used
    /\ invite[i].revoked => invite'[i].revoked
    /\ invite[i].expired => invite'[i].expired
    /\ invite[i].withdrawn => invite'[i].withdrawn

LEMMA Sizes ==
    ASSUME NEW s, NEW c, NEW late
    PROVE  /\ IsFiniteSet(LiveInvites(s, c, late)) /\ Cardinality(LiveInvites(s, c, late)) \in Nat
           /\ IsFiniteSet(Timely(s, c)) /\ Cardinality(Timely(s, c)) \in Nat
           /\ IsFiniteSet(SponsoredApps(s, c)) /\ Cardinality(SponsoredApps(s, c)) \in Nat
           /\ Total(s, c, late) \in Nat
<1>1. LiveInvites(s, c, late) \subseteq InviteId
  BY DEF LiveInvites
<1>2. SponsoredApps(s, c) \subseteq AppId /\ Timely(s, c) \subseteq AppId
  BY DEF Timely, SponsoredApps
<1>3. IsFiniteSet(LiveInvites(s, c, late)) /\ IsFiniteSet(Timely(s, c)) /\ IsFiniteSet(SponsoredApps(s, c))
  BY <1>1, <1>2, Identifiers, FS_Subset
<1> QED
  BY <1>3, FS_CardinalityType DEF Total

LEMMA TotalShrinks ==
    ASSUME NEW s, NEW c, NEW late,
           LiveInvites(s, c, late)' \subseteq LiveInvites(s, c, late),
           Timely(s, c)' \subseteq Timely(s, c)
    PROVE  Total(s, c, late)' <= Total(s, c, late)
<1>1. /\ Cardinality(LiveInvites(s, c, late)') <= Cardinality(LiveInvites(s, c, late))
      /\ Cardinality(Timely(s, c)') <= Cardinality(Timely(s, c))
  BY Sizes, FS_Subset
<1>2. /\ Cardinality(LiveInvites(s, c, late)') \in Nat /\ Cardinality(Timely(s, c)') \in Nat
      /\ Cardinality(LiveInvites(s, c, late)) \in Nat /\ Cardinality(Timely(s, c)) \in Nat
  <2>1. /\ IsFiniteSet(LiveInvites(s, c, late)') /\ IsFiniteSet(Timely(s, c)')
    BY Sizes, FS_Subset
  <2> QED
    BY <2>1, Sizes, FS_CardinalityType
<1> QED
  BY <1>1, <1>2 DEF Total

LEMMA LiveShrinks ==
    ASSUME NEW s, NEW c, NEW late, \A i \in InviteId : Onward(i)
    PROVE  LiveInvites(s, c, late)' \subseteq LiveInvites(s, c, late)
BY DEF LiveInvites, LiveFor, Row, Onward

LEMMA TimelyShrinks ==
    ASSUME TableTypes, NEW s, NEW c, usedLate \subseteq usedLate',
           \A a \in AppId : /\ application'[a].invite = application[a].invite
                            /\ application'[a].club = application[a].club
                            /\ OpenApp(a)' => OpenApp(a)
                            /\ application[a].invite # NoId => Onward(application[a].invite)
    PROVE  Timely(s, c)' \subseteq Timely(s, c)
<1> SUFFICES ASSUME NEW a \in AppId, a \in Timely(s, c)' PROVE a \in Timely(s, c)
  BY DEF Timely, SponsoredApps
<1>1. /\ OpenApp(a)' /\ application'[a].invite # NoId /\ application'[a].club = c
      /\ invite'[application'[a].invite].sponsor = s
      /\ ~invite'[application'[a].invite].withdrawn
      /\ application'[a].invite \notin usedLate'
  BY DEF Timely, SponsoredApps
<1>2. PICK i : i = application[a].invite
  OBVIOUS
<1>3. /\ application'[a].invite = i /\ i # NoId /\ Onward(i) /\ OpenApp(a) /\ application[a].club = c
      /\ i \notin usedLate
  BY <1>1, <1>2
<1>4. invite[i].sponsor = s /\ ~invite[i].withdrawn
  BY <1>1, <1>3 DEF Onward
<1> QED
  BY <1>2, <1>3, <1>4 DEF Timely, SponsoredApps

\* An application without invitation takes nothing of the quota of a sponsor.
LEMMA ColdTotal ==
    ASSUME TableTypes, UNCHANGED <<invite, usedLate>>, NEW m, NEW k, NEW seen,
           InsertsApplication(m, k, NoId, seen), NEW s, NEW c, NEW late
    PROVE  Total(s, c, late)' <= Total(s, c, late)
<1>1. PICK n \in AppId : application' = [application EXCEPT ![n] =
         [club |-> k, member |-> m, invite |-> NoId, phase |-> "open", seen |-> seen]]
  BY DEF InsertsApplication
<1>2. application'[n].invite = NoId /\ \A a \in AppId \ {n} : application'[a] = application[a]
  BY <1>1 DEF TableTypes
<1>3. Timely(s, c)' \subseteq Timely(s, c)
  BY <1>2 DEF Timely, SponsoredApps, OpenApp
<1>4. LiveInvites(s, c, late)' \subseteq LiveInvites(s, c, late)
  BY DEF LiveInvites, LiveFor, Row
<1> QED
  BY <1>3, <1>4, TotalShrinks

\* A use moves the invitation from one side of the count to the other, or is late.
LEMMA UseTotal ==
    ASSUME TableTypes, NEW l \in InviteId, LiveFor(l, {}),
           invite' = [invite EXCEPT ![l].used = TRUE],
           usedLate' = IF invite[l].overdue THEN usedLate \cup {l} ELSE usedLate,
           NEW m, NEW seen, InsertsApplication(m, invite[l].club, l, seen),
           NEW s, NEW c, NEW late \in SUBSET Overdue
    PROVE  Total(s, c, late)' <= Total(s, c, late)
<1>1. PICK n \in AppId : application' = [application EXCEPT ![n] =
         [club |-> invite[l].club, member |-> m, invite |-> l, phase |-> "open", seen |-> seen]]
  BY DEF InsertsApplication
<1>2. /\ application'[n].invite = l /\ application'[n].club = invite[l].club
      /\ \A a \in AppId \ {n} : application'[a] = application[a]
  BY <1>1 DEF TableTypes
<1>3. /\ invite'[l].used /\ invite'[l].club = invite[l].club /\ invite'[l].sponsor = invite[l].sponsor
      /\ invite'[l].withdrawn = invite[l].withdrawn
      /\ \A i \in InviteId \ {l} : invite'[i] = invite[i]
  BY DEF TableTypes, InviteRow
<1>4. LiveInvites(s, c, late)' \subseteq LiveInvites(s, c, late) \ {l}
  BY <1>3 DEF LiveInvites, LiveFor, Row
<1>5. Timely(s, c)' \subseteq Timely(s, c) \cup {n}
  <2> SUFFICES ASSUME NEW a \in AppId \ {n}, a \in Timely(s, c)' PROVE a \in Timely(s, c)
    BY DEF Timely, SponsoredApps
  <2>1. PICK i : i = application[a].invite
    OBVIOUS
  <2>2. /\ application'[a] = application[a] /\ application[a].phase = "open"
        /\ i # NoId /\ application[a].club = c
        /\ invite'[i].sponsor = s /\ ~invite'[i].withdrawn /\ i \notin usedLate'
    BY <1>2, <2>1 DEF Timely, SponsoredApps, OpenApp
  <2>3. i \in InviteId
    <3>1. application[a] \in AppRow
      BY DEF TableTypes
    <3> QED
      BY <2>1, <2>2, <3>1 DEF AppRow
  <2>4. invite[i].sponsor = s /\ ~invite[i].withdrawn /\ i \notin usedLate
    BY <1>3, <2>2, <2>3
  <2> QED
    BY <2>1, <2>2, <2>4 DEF Timely, SponsoredApps, OpenApp
<1>6. CASE n \notin Timely(s, c)'
  BY <1>4, <1>5, <1>6, TotalShrinks
<1>7. CASE n \in Timely(s, c)'
  <2>1. l \notin usedLate' /\ invite[l].sponsor = s /\ invite[l].club = c
    BY <1>2, <1>3, <1>7 DEF Timely, SponsoredApps
  <2>2. l \notin late
    BY <2>1 DEF Overdue
  <2>3. l \in LiveInvites(s, c, late)
    BY <2>1, <2>2 DEF LiveInvites, LiveFor
  <2>4. /\ IsFiniteSet(LiveInvites(s, c, late) \ {l})
        /\ Cardinality(LiveInvites(s, c, late) \ {l}) = Cardinality(LiveInvites(s, c, late)) - 1
    BY <2>3, Sizes, FS_RemoveElement
  <2>5. /\ IsFiniteSet(LiveInvites(s, c, late)')
        /\ Cardinality(LiveInvites(s, c, late)') <= Cardinality(LiveInvites(s, c, late)) - 1
    BY <1>4, <2>4, FS_Subset
  <2>6. /\ IsFiniteSet(Timely(s, c) \cup {n})
        /\ Cardinality(Timely(s, c) \cup {n}) \in {Cardinality(Timely(s, c)), Cardinality(Timely(s, c)) + 1}
    BY Sizes, FS_AddElement
  <2>7. /\ IsFiniteSet(Timely(s, c)')
        /\ Cardinality(Timely(s, c)') <= Cardinality(Timely(s, c) \cup {n})
    BY <1>5, <2>6, FS_Subset
  <2>8. /\ Cardinality(LiveInvites(s, c, late)') \in Nat /\ Cardinality(Timely(s, c)') \in Nat
        /\ Cardinality(LiveInvites(s, c, late)) \in Nat /\ Cardinality(Timely(s, c)) \in Nat
    BY <2>5, <2>7, Sizes, FS_CardinalityType
  <2>9. Cardinality(Timely(s, c)') <= Cardinality(Timely(s, c)) + 1
    BY <2>6, <2>7, <2>8
  <2> QED
    BY <2>5, <2>8, <2>9 DEF Total
<1> QED
  BY <1>6, <1>7

\* An invitation that is issued counts for its sponsor and club, and for no other.
LEMMA IssueTotal ==
    ASSUME Types, UsesInv, NEW r \in Request, IssueInserts(r), NEW s, NEW c, NEW late
    PROVE  /\ Total(s, c, late)' <= Total(s, c, late) + 1
           /\ s # job[r].who \/ c # job[r].club => Total(s, c, late)' <= Total(s, c, late)
<1>0. TableTypes /\ Filled /\ Uses
  BY DEF Types, UsesInv
<1>1. PICK n \in InviteId :
         /\ ~Row(n)
         /\ invite' = [i \in InviteId |->
              IF i = n THEN [NoInvite EXCEPT !.club = job[r].club, !.sponsor = job[r].who,
                                             !.target = job[r].target]
              ELSE IF i \in {l \in InviteId : rowLock[l] = r} THEN [invite[i] EXCEPT !.expired = TRUE]
              ELSE invite[i]]
  BY DEF IssueInserts
<1>2. UNCHANGED <<application, usedLate>>
  BY DEF IssueInserts
<1>3. invite'[n].club = job[r].club /\ invite'[n].sponsor = job[r].who
  BY <1>1 DEF NoInvite
<1>4. \A i \in InviteId \ {n} : Onward(i)
  <2> SUFFICES ASSUME NEW i \in InviteId \ {n} PROVE Onward(i)
    OBVIOUS
  <2>1. invite'[i] = invite[i] \/ invite'[i] = [invite[i] EXCEPT !.expired = TRUE]
    BY <1>1
  <2> QED
    BY <1>0, <2>1 DEF Onward, TableTypes, InviteRow
<1>5. \A a \in AppId : application[a].invite # n
  BY <1>0, <1>1 DEF Filled, Uses, UsesOf
<1>6. Timely(s, c)' \subseteq Timely(s, c)
  <2>1. ASSUME NEW a \in AppId
        PROVE  /\ application'[a].invite = application[a].invite
               /\ application'[a].club = application[a].club
               /\ OpenApp(a)' => OpenApp(a)
               /\ application[a].invite # NoId => Onward(application[a].invite)
    <3>1. application[a].invite \in InviteId \cup {NoId}
      BY <1>0 DEF TableTypes, AppRow
    <3> QED
      BY <1>2, <1>4, <1>5, <3>1 DEF OpenApp
  <2> QED
    BY <1>0, <1>2, <2>1, TimelyShrinks
<1>7. LiveInvites(s, c, late)' \subseteq LiveInvites(s, c, late) \cup {n}
  BY <1>4 DEF LiveInvites, LiveFor, Row, Onward
<1>8. CASE n \notin LiveInvites(s, c, late)'
  <2>1. Total(s, c, late)' <= Total(s, c, late)
    BY <1>6, <1>7, <1>8, TotalShrinks
  <2>2. Total(s, c, late) \in Nat /\ Total(s, c, late)' \in Nat
    <3>1. /\ IsFiniteSet(LiveInvites(s, c, late)') /\ IsFiniteSet(Timely(s, c)')
      BY <1>6, <1>7, <1>8, Sizes, FS_Subset
    <3>2. /\ Cardinality(LiveInvites(s, c, late)') \in Nat /\ Cardinality(Timely(s, c)') \in Nat
      BY <3>1, FS_CardinalityType
    <3> QED
      BY <3>2, Sizes DEF Total
  <2> QED
    BY <2>1, <2>2
<1>9. CASE n \in LiveInvites(s, c, late)'
  <2>1. s = job[r].who /\ c = job[r].club
    BY <1>3, <1>9 DEF LiveInvites
  <2>2. /\ IsFiniteSet(LiveInvites(s, c, late) \cup {n})
        /\ Cardinality(LiveInvites(s, c, late) \cup {n}) \in
              {Cardinality(LiveInvites(s, c, late)), Cardinality(LiveInvites(s, c, late)) + 1}
    BY Sizes, FS_AddElement
  <2>3. /\ IsFiniteSet(LiveInvites(s, c, late)')
        /\ Cardinality(LiveInvites(s, c, late)') <= Cardinality(LiveInvites(s, c, late) \cup {n})
    BY <1>7, <2>2, FS_Subset
  <2>4. /\ IsFiniteSet(Timely(s, c)') /\ Cardinality(Timely(s, c)') <= Cardinality(Timely(s, c))
    BY <1>6, Sizes, FS_Subset
  <2>5. /\ Cardinality(LiveInvites(s, c, late)') \in Nat /\ Cardinality(Timely(s, c)') \in Nat
        /\ Cardinality(LiveInvites(s, c, late)) \in Nat /\ Cardinality(Timely(s, c)) \in Nat
    BY <2>3, <2>4, Sizes, FS_CardinalityType
  <2>6. Cardinality(LiveInvites(s, c, late)') <= Cardinality(LiveInvites(s, c, late)) + 1
    BY <2>2, <2>3, <2>5
  <2> QED
    BY <2>1, <2>4, <2>5, <2>6 DEF Total
<1> QED
  BY <1>8, <1>9


\* No other step adds to what counts.
LEMMA TotalStep ==
    ASSUME Types, UsesInv, [Next]_vars, NEW s, NEW c, NEW late \in SUBSET Overdue,
           \A r \in Request : ~IssueInserts(r)
    PROVE  Total(s, c, late)' <= Total(s, c, late)
<1>0. TableTypes /\ RequestTypes /\ Asked /\ Locked /\ Redeeming
  BY DEF Types, UsesInv
<1>1. CASE UNCHANGED tables
  <2>1. LiveInvites(s, c, late)' \subseteq LiveInvites(s, c, late)
    BY <1>1 DEF tables, LiveInvites, LiveFor, Row
  <2>2. Timely(s, c)' \subseteq Timely(s, c)
    BY <1>1 DEF tables, Timely, SponsoredApps, OpenApp
  <2> QED
    BY <2>1, <2>2, TotalShrinks
<1>2. ASSUME NEW r \in Request, \/ \E k \in Sponsor, d \in Club, t \in Target : IssueChecks(r, k, d, t)
                                \/ IssueLocks(r) \/ IssueReads(r)
                                \/ \E m \in Applicant, d \in Club, i \in InviteId \cup {NoId} :
                                      ApplyPrepares(r, m, d, i)
                                \/ ApplyReads(r)
                                \/ \E m \in Applicant, i \in InviteId : RedeemPrepares(r, m, i)
                                \/ RedeemReads(r) \/ Abort(r)
      PROVE UNCHANGED tables
  BY <1>2 DEF IssueChecks, IssueLocks, IssueReads, ApplyPrepares, ApplyReads,
              RedeemPrepares, RedeemReads, Abort, Fails
<1>3. ASSUME NEW r \in Request, ApplyWrites(r) PROVE Total(s, c, late)' <= Total(s, c, late)
  <2> DEFINE l == job[r].invite
  <2>1. CASE Fails(r)
    BY <1>1, <2>1 DEF Fails
  <2>2. CASE /\ l = NoId /\ UNCHANGED <<invite, usedLate>>
             /\ InsertsApplication(job[r].who, job[r].club, NoId, job[r].seen)
    BY <1>0, <2>2, ColdTotal
  <2>3. CASE /\ l \in LiveInternal(job[r].who, job[r].club, job[r].late)
             /\ invite' = [invite EXCEPT ![l].used = TRUE]
             /\ usedLate' = IF invite[l].overdue THEN usedLate \cup {l} ELSE usedLate
             /\ InsertsApplication(job[r].who, job[r].club, l, job[r].seen)
    <3>1. l \in InviteId /\ LiveFor(l, {}) /\ invite[l].club = job[r].club
      BY <2>3 DEF LiveInternal, LiveFor
    <3> QED
      BY <1>0, <2>3, <3>1, UseTotal
  <2> QED
    BY <1>3, <2>1, <2>2, <2>3 DEF ApplyWrites, ApplyBinds
<1>4. ASSUME NEW r \in Request, RedeemWrites(r) PROVE Total(s, c, late)' <= Total(s, c, late)
  <2> DEFINE l == job[r].invite
  <2>1. CASE Fails(r)
    BY <1>1, <2>1 DEF Fails
  <2>2. CASE /\ RedeemUses(l)
             /\ InsertsApplication(job[r].who, job[r].club, l, job[r].seen)
    <3>1. label[r] = "redeem_write" /\ l \in InviteId /\ invite[l].club = job[r].club /\ Row(l)
      BY <1>0, <1>4 DEF RedeemWrites, Asked, AskedOf
    <3>2. rowLock[l] = r /\ ~invite[l].revoked /\ ~invite[l].expired /\ ~invite[l].used
      BY <1>0, <3>1 DEF Redeeming, Locked
    <3>3. LiveFor(l, {})
      BY <3>1, <3>2 DEF LiveFor
    <3>4. /\ invite' = [invite EXCEPT ![l].used = TRUE]
          /\ usedLate' = IF invite[l].overdue THEN usedLate \cup {l} ELSE usedLate
      BY <2>2, <3>2 DEF RedeemUses
    <3> QED
      BY <1>0, <2>2, <3>1, <3>3, <3>4, UseTotal
  <2> QED
    BY <1>4, <2>1, <2>2 DEF RedeemWrites
<1>5. CASE \/ \E i \in InviteId : Revoke(i) \/ WithdrawSupport(i) \/ TurnsOverdue(i)
           \/ \E k \in Sponsor, d \in Club : SponsorLeaves(k, d)
           \/ \E a \in AppId : Close(a)
  <2>1. \A i \in InviteId : Onward(i)
    <3> SUFFICES ASSUME NEW i \in InviteId PROVE Onward(i)
      OBVIOUS
    <3>0. invite[i] \in InviteRow
      BY <1>0 DEF TableTypes
    <3>1. CASE invite'[i] = invite[i]
      BY <3>1 DEF Onward
    <3>2. CASE \/ invite'[i] = [invite[i] EXCEPT !.revoked = TRUE]
               \/ invite'[i] = [invite[i] EXCEPT !.withdrawn = TRUE]
               \/ invite'[i] = [invite[i] EXCEPT !.overdue = TRUE]
      BY <3>0, <3>2 DEF Onward, InviteRow
    <3>3. ASSUME NEW j \in InviteId, Revoke(j) \/ WithdrawSupport(j) \/ TurnsOverdue(j)
          PROVE  Onward(i)
      <4>1. CASE i = j
        BY <1>0, <3>2, <3>3, <4>1 DEF Revoke, WithdrawSupport, TurnsOverdue, TableTypes
      <4>2. CASE i # j
        BY <1>0, <3>1, <3>3, <4>2 DEF Revoke, WithdrawSupport, TurnsOverdue, TableTypes
      <4> QED
        BY <4>1, <4>2
    <3>4. ASSUME NEW k \in Sponsor, NEW d \in Club, SponsorLeaves(k, d) PROVE Onward(i)
      BY <3>1, <3>2, <3>4 DEF SponsorLeaves
    <3>5. ASSUME NEW a \in AppId, Close(a) PROVE Onward(i)
      BY <3>1, <3>5 DEF Close
    <3> QED
      BY <1>5, <3>3, <3>4, <3>5
  <2>2. /\ usedLate' = usedLate
        /\ \A a \in AppId : /\ application'[a].invite = application[a].invite
                            /\ application'[a].club = application[a].club
                            /\ OpenApp(a)' => OpenApp(a)
    <3>1. CASE UNCHANGED <<application, usedLate>>
      BY <3>1 DEF OpenApp
    <3>2. ASSUME NEW b \in AppId, Close(b)
          PROVE  /\ usedLate' = usedLate
                 /\ \A a \in AppId : /\ application'[a].invite = application[a].invite
                                     /\ application'[a].club = application[a].club
                                     /\ OpenApp(a)' => OpenApp(a)
      <4>1. application' = [application EXCEPT ![b] = [application[b] EXCEPT !.phase = "closed", !.seen = {}]]
        BY <1>0, <3>2 DEF Close, TableTypes, AppRow
      <4>2. application[b] \in AppRow
        BY <1>0 DEF TableTypes
      <4>3. usedLate' = usedLate
        BY <3>2 DEF Close
      <4> QED
        BY <1>0, <4>1, <4>2, <4>3 DEF TableTypes, AppRow, OpenApp
    <3> QED
      BY <1>5, <3>1, <3>2 DEF Revoke, WithdrawSupport, TurnsOverdue, SponsorLeaves
  <2>3. \A a \in AppId : application[a].invite # NoId => Onward(application[a].invite)
    BY <1>0, <2>1 DEF TableTypes, AppRow
  <2>4. Timely(s, c)' \subseteq Timely(s, c)
    BY <1>0, <2>2, <2>3, TimelyShrinks
  <2>5. LiveInvites(s, c, late)' \subseteq LiveInvites(s, c, late)
    BY <2>1, LiveShrinks
  <2> QED
    BY <2>4, <2>5, TotalShrinks
<1>6. CASE UNCHANGED vars
  BY <1>1, <1>6 DEF vars
<1> QED
  BY <1>1, <1>2, <1>3, <1>4, <1>5, <1>6 DEF Next

\* Whoever counts and inserts holds the lock of the sponsor and the club.
Scoped ==
    \A r \in Request : label[r] \in {"issue_read", "issue_insert"} =>
        issueLock[<<job[r].who, job[r].club>>] = r

LEMMA ScopedStep == Types /\ Scoped /\ [Next]_vars => Scoped'
<1> SUFFICES ASSUME Types, Scoped, [Next]_vars PROVE Scoped'
  OBVIOUS
<1>0. /\ label \in [Request -> Label] /\ job \in [Request -> JobRow] /\ Nobody \notin Request
      /\ issueLock \in [Sponsor \X Club -> Request \cup {Nobody}]
      /\ \A q \in Request : label[q] \in {"issue_lock", "issue_read", "issue_insert"} =>
            <<job[q].who, job[q].club>> \in Sponsor \X Club
  BY Identifiers DEF Types, RequestTypes, Asked, AskedOf
<1>1. CASE UNCHANGED <<label, job, issueLock>>
  BY <1>1 DEF Scoped
<1>2. ASSUME NEW r \in Request, NEW to, NEW j, Moves(r, to, j), UNCHANGED issueLock,
             to \notin {"issue_read", "issue_insert"}
      PROVE  Scoped'
  BY <1>0, <1>2 DEF Moves, Scoped
<1>3. ASSUME NEW r \in Request, Ends(r) PROVE Scoped'
  <2> SUFFICES ASSUME NEW q \in Request, label'[q] \in {"issue_read", "issue_insert"}
               PROVE  issueLock'[<<job'[q].who, job'[q].club>>] = q
    BY DEF Scoped
  <2>1. q # r /\ label'[q] = label[q] /\ job'[q] = job[q]
    BY <1>0, <1>3 DEF Ends, Moves
  <2>2. <<job[q].who, job[q].club>> \in Sponsor \X Club /\ issueLock[<<job[q].who, job[q].club>>] = q
    BY <1>0, <2>1 DEF Scoped
  <2>3. \A k \in Sponsor \X Club : issueLock[k] = q => issueLock'[k] = q
    BY <1>3, <2>1 DEF Ends, Unlocked
  <2> QED
    BY <2>1, <2>2, <2>3
<1>4. ASSUME NEW r \in Request, IssueLocks(r) PROVE Scoped'
  <2> DEFINE k == <<job[r].who, job[r].club>>
  <2>1. /\ k \in Sponsor \X Club /\ issueLock[k] = Nobody
        /\ issueLock' = [issueLock EXCEPT ![k] = r]
        /\ label' = [label EXCEPT ![r] = "issue_read"] /\ job' = job
    BY <1>0, <1>4 DEF IssueLocks, ScopeFree
  <2> HIDE DEF k
  <2> SUFFICES ASSUME NEW q \in Request, label'[q] \in {"issue_read", "issue_insert"}
               PROVE  issueLock'[<<job[q].who, job[q].club>>] = q
    BY <2>1 DEF Scoped
  <2>2. CASE q = r
    BY <1>0, <2>1, <2>2 DEF k
  <2>3. CASE q # r
    <3>1. label[q] \in {"issue_read", "issue_insert"}
      BY <1>0, <2>1, <2>3
    <3>2. PICK h \in Sponsor \X Club : h = <<job[q].who, job[q].club>>
      BY <1>0, <3>1
    <3>3. issueLock[h] = q
      BY <3>1, <3>2 DEF Scoped
    <3>4. h # k
      BY <1>0, <2>1, <3>3
    <3> QED
      BY <1>0, <2>1, <3>2, <3>3, <3>4
  <2> QED
    BY <2>2, <2>3
<1>5. ASSUME NEW r \in Request, IssueReads(r) PROVE Scoped'
  <2>1. CASE Fails(r)
    BY <1>3, <2>1 DEF Fails
  <2>2. CASE label' = [label EXCEPT ![r] = "issue_insert"] /\ UNCHANGED <<job, issueLock>>
    <3>1. label[r] = "issue_read"
      BY <1>5 DEF IssueReads
    <3> QED
      BY <1>0, <2>2, <3>1 DEF Scoped
  <2> QED
    BY <1>5, <2>1, <2>2 DEF IssueReads
<1>6. ASSUME NEW r \in Request,
             \/ \E s \in Sponsor, c \in Club, t \in Target : IssueChecks(r, s, c, t)
             \/ \E m \in Applicant, c \in Club, i \in InviteId \cup {NoId} : ApplyPrepares(r, m, c, i)
             \/ \E m \in Applicant, i \in InviteId : RedeemPrepares(r, m, i)
      PROVE  Scoped'
  <2>1. PICK to \in {"issue_lock", "apply_read", "redeem_read"} : \E j : Moves(r, to, j)
    BY <1>6 DEF IssueChecks, ApplyPrepares, RedeemPrepares
  <2>2. UNCHANGED issueLock
    BY <1>6 DEF IssueChecks, ApplyPrepares, RedeemPrepares, locks
  <2> QED
    BY <1>2, <2>1, <2>2
<1>7. ASSUME NEW r \in Request, ApplyReads(r) PROVE Scoped'
  <2>1. CASE Fails(r)
    BY <1>3, <2>1 DEF Fails
  <2>2. CASE ~Fails(r)
    <3>1. \E j : Moves(r, "apply_write", j)
      BY <1>7, <2>2 DEF ApplyReads
    <3>2. UNCHANGED issueLock
      BY <1>7, <2>2 DEF ApplyReads, locks
    <3> QED
      BY <1>2, <3>1, <3>2
  <2> QED
    BY <2>1, <2>2
<1>8. ASSUME NEW r \in Request, RedeemReads(r) PROVE Scoped'
  <2>1. CASE Fails(r)
    BY <1>3, <2>1 DEF Fails
  <2>2. CASE ~Fails(r)
    <3>1. \E j : Moves(r, "redeem_write", j)
      BY <1>8, <2>2 DEF RedeemReads
    <3>2. UNCHANGED issueLock
      BY <1>8, <2>2 DEF RedeemReads
    <3> QED
      BY <1>2, <3>1, <3>2
  <2> QED
    BY <2>1, <2>2
<1>9. ASSUME NEW r \in Request, IssueInserts(r) \/ ApplyWrites(r) \/ RedeemWrites(r) \/ Abort(r)
      PROVE  Scoped'
  BY <1>3, <1>9 DEF IssueInserts, ApplyWrites, RedeemWrites, Abort, Fails
<1>10. CASE \/ \E i \in InviteId : Revoke(i) \/ WithdrawSupport(i) \/ TurnsOverdue(i)
            \/ \E s \in Sponsor, c \in Club : SponsorLeaves(s, c)
            \/ \E a \in AppId : Close(a)
            \/ UNCHANGED vars
  BY <1>1, <1>10 DEF Revoke, WithdrawSupport, TurnsOverdue, SponsorLeaves, Close, locks, vars
<1> QED
  BY <1>4, <1>5, <1>6, <1>7, <1>8, <1>9, <1>10 DEF Next


\* Whoever is about to issue has counted less than the cap, and nothing was added since.
Counted == \A r \in Request :
    label[r] = "issue_insert" => Total(job[r].who, job[r].club, job[r].late) < OpenCap

Capped == \A s \in Sponsor, c \in Club, late \in SUBSET InviteId :
    late = Overdue => Total(s, c, late) <= OpenCap

LEMMA OverdueStays == Types /\ [Next]_vars => Overdue \subseteq Overdue'
<1> SUFFICES ASSUME Types, [Next]_vars, NEW i \in Overdue PROVE i \in Overdue'
  OBVIOUS
<1>1. i \in InviteId /\ Row(i)
  BY DEF Overdue, Types, Filled
<1> QED
  BY <1>1, RowsStay, RowsRemain

\* The later a transaction began, the fewer invitations are live for it.
LEMMA LaterCountsLess ==
    ASSUME NEW s, NEW c, NEW early, NEW late, early \subseteq late
    PROVE  Total(s, c, late) <= Total(s, c, early)
<1>1. LiveInvites(s, c, late) \subseteq LiveInvites(s, c, early)
  BY DEF LiveInvites, LiveFor
<1>2. Cardinality(LiveInvites(s, c, late)) <= Cardinality(LiveInvites(s, c, early))
  BY <1>1, Sizes, FS_Subset
<1> QED
  BY <1>2, Sizes DEF Total

\* A request that is about to issue after a step was so before, and did not move, or has
\* just counted.
LEMMA InsertingSince ==
    ASSUME Types, [Next]_vars, NEW r \in Request, label'[r] = "issue_insert"
    PROVE  \/ /\ label[r] = "issue_insert" /\ job'[r] = job[r]
              /\ ~IssueInserts(r)
           \/ /\ IssueReads(r) /\ UNCHANGED <<tables, job>>
              /\ LiveCount(job[r].who, job[r].club, job[r].late) < OpenCap
<1>0. /\ label \in [Request -> Label] /\ job \in [Request -> JobRow]
      /\ OpenCap \in Nat
  BY InvitationAssumption DEF Types, RequestTypes
<1> DEFINE Goal == \/ /\ label[r] = "issue_insert" /\ job'[r] = job[r]
                      /\ ~IssueInserts(r)
                   \/ /\ IssueReads(r) /\ UNCHANGED <<tables, job>>
                      /\ LiveCount(job[r].who, job[r].club, job[r].late) < OpenCap
<1>1. ASSUME NEW q \in Request, Ends(q) PROVE label'[q] = "idle"
  BY <1>0, <1>1 DEF Ends, Moves
<1>2. ~IssueInserts(r)
  BY <1>1 DEF IssueInserts
<1>3. CASE label'[r] = label[r] /\ job'[r] = job[r]
  BY <1>2, <1>3
<1>4. ASSUME NEW q \in Request, NEW to, NEW j, Moves(q, to, j), to # "issue_insert" PROVE Goal
  <2>1. q # r /\ label'[r] = label[r] /\ job'[r] = job[r]
    BY <1>0, <1>4 DEF Moves
  <2> QED
    BY <1>3, <2>1
<1>5. ASSUME NEW q \in Request, Ends(q) PROVE Goal
  BY <1>4, <1>5 DEF Ends
<1>6. ASSUME NEW q \in Request, IssueLocks(q) PROVE Goal
  <2>1. q # r /\ label'[r] = label[r] /\ job'[r] = job[r]
    BY <1>0, <1>6 DEF IssueLocks
  <2> QED
    BY <1>3, <2>1
<1>7. ASSUME NEW q \in Request, IssueReads(q) PROVE Goal
  <2>1. CASE Fails(q)
    BY <1>5, <2>1 DEF Fails
  <2>2. CASE ~Fails(q)
    <3>1. /\ label' = [label EXCEPT ![q] = "issue_insert"] /\ UNCHANGED <<tables, job>>
          /\ ~(LiveCount(job[q].who, job[q].club, job[q].late) >= OpenCap)
      BY <1>7, <2>2 DEF IssueReads
    <3>2. CASE q = r
      <4>1. LiveCount(job[q].who, job[q].club, job[q].late) \in Nat
        BY Sizes DEF LiveCount
      <4> QED
        BY <1>0, <1>7, <3>1, <3>2, <4>1
    <3>3. CASE q # r
      BY <1>0, <1>3, <3>1, <3>3
    <3> QED
      BY <3>2, <3>3
  <2> QED
    BY <2>1, <2>2
<1>8. ASSUME NEW q \in Request,
             \/ \E s \in Sponsor, c \in Club, t \in Target : IssueChecks(q, s, c, t)
             \/ \E m \in Applicant, c \in Club, i \in InviteId \cup {NoId} : ApplyPrepares(q, m, c, i)
             \/ \E m \in Applicant, i \in InviteId : RedeemPrepares(q, m, i)
      PROVE  Goal
  <2>1. PICK to \in {"issue_lock", "apply_read", "redeem_read"} : \E j : Moves(q, to, j)
    BY <1>8 DEF IssueChecks, ApplyPrepares, RedeemPrepares
  <2> QED
    BY <1>4, <2>1
<1>9. ASSUME NEW q \in Request, ApplyReads(q) \/ RedeemReads(q) PROVE Goal
  <2>1. CASE Fails(q)
    BY <1>5, <2>1 DEF Fails
  <2>2. CASE ~Fails(q)
    <3>1. PICK to \in {"apply_write", "redeem_write"} : \E j : Moves(q, to, j)
      BY <1>9, <2>2 DEF ApplyReads, RedeemReads
    <3> QED
      BY <1>4, <3>1
  <2> QED
    BY <2>1, <2>2
<1>10. ASSUME NEW q \in Request, IssueInserts(q) \/ ApplyWrites(q) \/ RedeemWrites(q) \/ Abort(q)
       PROVE  Goal
  BY <1>5, <1>10 DEF IssueInserts, ApplyWrites, RedeemWrites, Abort, Fails
<1>11. CASE \/ \E i \in InviteId : Revoke(i) \/ WithdrawSupport(i) \/ TurnsOverdue(i)
            \/ \E s \in Sponsor, c \in Club : SponsorLeaves(s, c)
            \/ \E a \in AppId : Close(a)
            \/ UNCHANGED vars
  BY <1>3, <1>11 DEF Revoke, WithdrawSupport, TurnsOverdue, SponsorLeaves, Close, vars
<1> QED
  BY <1>6, <1>7, <1>8, <1>9, <1>10, <1>11 DEF Next

LEMMA CountedStep ==
    Types /\ UsesInv /\ Scoped /\ Scoped' /\ Counted /\ [Next]_vars => Counted'
<1> SUFFICES ASSUME Types, UsesInv, Scoped, Scoped', Counted, [Next]_vars,
                    NEW r \in Request, label'[r] = "issue_insert",
                    NEW s, NEW c, NEW late, s = job'[r].who, c = job'[r].club, late = job'[r].late
             PROVE  Total(s, c, late)' < OpenCap
  BY DEF Counted
<1>0. OpenCap \in Nat
  BY InvitationAssumption
<1>1. CASE label[r] = "issue_insert" /\ job'[r] = job[r] /\ ~IssueInserts(r)
  <2>1. s = job[r].who /\ c = job[r].club /\ late = job[r].late
    BY <1>1
  <2>2. Total(s, c, late) < OpenCap
    BY <1>1, <2>1 DEF Counted
  <2>3. late \subseteq Overdue /\ issueLock[<<s, c>>] = r
    BY <1>1, <2>1 DEF Types, Asked, AskedOf, Scoped
  <2>4. Total(s, c, late)' <= Total(s, c, late)
    <3>1. CASE \A q \in Request : ~IssueInserts(q)
      BY <2>3, <3>1, TotalStep
    <3>2. ASSUME NEW q \in Request, IssueInserts(q)
          PROVE  Total(s, c, late)' <= Total(s, c, late)
      <4>0. q # r
        BY <1>1, <3>2
      <4>1. label[q] = "issue_insert" /\ q # r
        BY <3>2, <4>0 DEF IssueInserts
      <4>2. issueLock[<<job[q].who, job[q].club>>] = q
        BY <4>1 DEF Scoped
      <4>3. s # job[q].who \/ c # job[q].club
        BY <2>3, <4>1, <4>2
      <4> QED
        BY <3>2, <4>3, IssueTotal
    <3> QED
      BY <3>1, <3>2
  <2>5. Total(s, c, late) \in Nat /\ Total(s, c, late)' \in Nat
    <3>1. Total(s, c, late)' \in Nat
      <4>1. /\ IsFiniteSet(LiveInvites(s, c, late)') /\ IsFiniteSet(Timely(s, c)')
        <5>1. LiveInvites(s, c, late)' \subseteq InviteId /\ Timely(s, c)' \subseteq AppId
          BY DEF LiveInvites, Timely, SponsoredApps
        <5> QED
          BY <5>1, Identifiers, FS_Subset
      <4> QED
        BY <4>1, FS_CardinalityType DEF Total
    <3> QED
      BY <3>1, Sizes
  <2> QED
    BY <1>0, <2>2, <2>4, <2>5
<1>2. CASE /\ IssueReads(r) /\ UNCHANGED <<tables, job>>
           /\ LiveCount(job[r].who, job[r].club, job[r].late) < OpenCap
  <2>1. s = job[r].who /\ c = job[r].club /\ late = job[r].late
    BY <1>2
  <2>2. Total(s, c, late)' = Total(s, c, late)
    BY <1>2 DEF tables, Total, LiveInvites, LiveFor, Row, Timely, SponsoredApps, OpenApp
  <2>3. Cardinality(Timely(s, c)) <= Cardinality(SponsoredApps(s, c))
    <3>1. Timely(s, c) \subseteq SponsoredApps(s, c)
      BY DEF Timely
    <3> QED
      BY <3>1, Sizes, FS_Subset
  <2>4. Cardinality(LiveInvites(s, c, late)) + Cardinality(SponsoredApps(s, c)) < OpenCap
    BY <1>2, <2>1 DEF LiveCount
  <2>5. Total(s, c, late) < OpenCap
    BY <1>0, <2>3, <2>4, Sizes DEF Total
  <2> QED
    BY <2>2, <2>5
<1> QED
  BY <1>1, <1>2, InsertingSince

LEMMA CappedStep == Types /\ Types' /\ UsesInv /\ Counted /\ Capped /\ [Next]_vars => Capped'
<1> SUFFICES ASSUME Types, Types', UsesInv, Counted, Capped, [Next]_vars,
                    NEW s \in Sponsor, NEW c \in Club, NEW late \in SUBSET InviteId, late = Overdue'
             PROVE  Total(s, c, late)' <= OpenCap
  BY DEF Capped
<1>0. OpenCap \in Nat
  BY InvitationAssumption
<1>1. PICK early \in SUBSET InviteId : early = Overdue
  BY DEF Overdue
<1>2. early \subseteq late
  BY <1>1, OverdueStays
<1>3. Total(s, c, early) <= OpenCap
  BY <1>1 DEF Capped
<1>4. /\ Total(s, c, late)' \in Nat /\ Total(s, c, early)' \in Nat /\ Total(s, c, early) \in Nat
      /\ Total(s, c, late)' <= Total(s, c, early)'
  <2>1. /\ IsFiniteSet(LiveInvites(s, c, early)') /\ IsFiniteSet(Timely(s, c)')
    <3>1. LiveInvites(s, c, early)' \subseteq InviteId /\ Timely(s, c)' \subseteq AppId
      BY DEF LiveInvites, Timely, SponsoredApps
    <3> QED
      BY <3>1, Identifiers, FS_Subset
  <2>2. LiveInvites(s, c, late)' \subseteq LiveInvites(s, c, early)'
    BY <1>2 DEF LiveInvites, LiveFor
  <2>3. /\ IsFiniteSet(LiveInvites(s, c, late)')
        /\ Cardinality(LiveInvites(s, c, late)') <= Cardinality(LiveInvites(s, c, early)')
    BY <2>1, <2>2, FS_Subset
  <2>4. /\ Cardinality(LiveInvites(s, c, late)') \in Nat /\ Cardinality(Timely(s, c)') \in Nat
        /\ Cardinality(LiveInvites(s, c, early)') \in Nat
    BY <2>1, <2>3, FS_CardinalityType
  <2> QED
    BY <2>3, <2>4, Sizes DEF Total
<1>5. CASE \A q \in Request : ~IssueInserts(q)
  <2>1. Total(s, c, early)' <= Total(s, c, early)
    BY <1>1, <1>5, TotalStep
  <2> QED
    BY <1>0, <1>3, <1>4, <2>1
<1>6. ASSUME NEW r \in Request, IssueInserts(r) PROVE Total(s, c, late)' <= OpenCap
  <2>1. CASE s # job[r].who \/ c # job[r].club
    <3>1. Total(s, c, early)' <= Total(s, c, early)
      BY <1>6, <2>1, IssueTotal
    <3> QED
      BY <1>0, <1>3, <1>4, <3>1
  <2>2. CASE s = job[r].who /\ c = job[r].club
    <3>1. Total(s, c, early)' <= Total(s, c, early) + 1
      BY <1>6, IssueTotal
    <3>2. label[r] = "issue_insert" /\ job[r].late \subseteq early
      BY <1>1, <1>6 DEF IssueInserts, Types, Asked, AskedOf
    <3>3. Total(s, c, job[r].late) < OpenCap /\ Total(s, c, job[r].late) \in Nat
      BY <2>2, <3>2, Sizes DEF Counted
    <3>4. Total(s, c, early) <= Total(s, c, job[r].late)
      BY <3>2, LaterCountsLess
    <3> QED
      BY <1>0, <1>4, <3>1, <3>3, <3>4
  <2> QED
    BY <2>1, <2>2
<1> QED
  BY <1>5, <1>6

\* A sponsor never has more invitations and applications live in a club than the cap allows,
\* but for applications whose transaction was older than the expiry of their invitation: for
\* any cap, sponsors, clubs and requests, because whoever counts holds the lock of the
\* sponsor and the club until the insert, and uses only move what was counted (issueInvitation).
THEOREM SponsorsAreCapped == Spec => []SponsorCapHolds
<1>1. Init => Types /\ UsesInv /\ Scoped /\ Counted /\ Capped
  <2> SUFFICES ASSUME Init PROVE Types /\ UsesInv /\ Scoped /\ Counted /\ Capped
    OBVIOUS
  <2>1. Types /\ UsesInv /\ Scoped /\ Counted
    BY InitTypes, InitUses DEF Init, Scoped, Counted
  <2>2. ASSUME NEW s \in Sponsor, NEW c \in Club, NEW late \in SUBSET InviteId
        PROVE  Total(s, c, late) <= OpenCap
    <3>1. LiveInvites(s, c, late) = {}
      BY DEF Init, LiveInvites, LiveFor, Row, NoInvite
    <3>2. Timely(s, c) = {}
      BY DEF Init, Timely, SponsoredApps, OpenApp, NoApp
    <3>3. Total(s, c, late) = 0
      BY <3>1, <3>2, FS_EmptySet DEF Total
    <3> QED
      BY <3>3, InvitationAssumption
  <2> QED
    BY <2>1, <2>2 DEF Capped
<1>2. /\ Types /\ UsesInv /\ Scoped /\ Counted /\ Capped
      /\ [Next]_vars
      => (Types /\ UsesInv /\ Scoped /\ Counted /\ Capped)'
  BY TypesKept, UsesStep, ScopedStep, CountedStep, CappedStep
<1>3. Capped => SponsorCapHolds
  <2> SUFFICES ASSUME Capped, NEW s \in Sponsor, NEW c \in Club
               PROVE  Cardinality(LiveInvites(s, c, Overdue))
                        + Cardinality({a \in SponsoredApps(s, c) : application[a].invite \notin usedLate})
                      <= OpenCap
    BY DEF SponsorCapHolds
  <2>1. Overdue \in SUBSET InviteId
    BY DEF Overdue
  <2>2. Total(s, c, Overdue) <= OpenCap
    BY <2>1 DEF Capped
  <2> QED
    BY <2>2 DEF Total, Timely
<1> QED
  BY <1>1, <1>2, <1>3, PTL DEF Spec


-----------------------------------------------------------------------------
(* The cap of an applicant *)

\* Applications take the identifiers in turn.
InFront == \A a, b \in AppId : application[b] # NoApp /\ a < b => application[a] # NoApp

\* An application was let in by a count, of earlier ones, below the cap.
SeenBefore ==
    \A a \in AppId : /\ \A b \in application[a].seen : b < a
                     /\ OpenApp(a) => /\ application[a].seen \subseteq AppId
                                      /\ Cardinality(application[a].seen) < InFlightCap

\* A request about to write an application counted some that are there, below the cap.
SawExisting ==
    \A r \in Request : label[r] \in {"apply_write", "redeem_write"} =>
        /\ job[r].seen \subseteq AppId
        /\ \A b \in job[r].seen : application[b] # NoApp
        /\ Cardinality(job[r].seen) < InFlightCap

FlightInv == InFront /\ SeenBefore /\ SawExisting

\* A request that inserts an application, having counted below the cap.
LEMMA InsertKept ==
    ASSUME TableTypes, InFront, SeenBefore, NEW m, NEW c, NEW i, NEW seen \in SUBSET AppId,
           \A b \in seen : application[b] # NoApp, Cardinality(seen) < InFlightCap,
           InsertsApplication(m, c, i, seen)
    PROVE  /\ InFront' /\ SeenBefore'
           /\ \A b \in AppId : application[b] # NoApp => application'[b] # NoApp
<1>1. PICK n \in AppId :
         /\ application[n] = NoApp
         /\ \A b \in AppId : b < n => application[b] # NoApp
         /\ application' = [application EXCEPT ![n] =
              [club |-> c, member |-> m, invite |-> i, phase |-> "open", seen |-> seen]]
  BY DEF InsertsApplication
<1>2. application'[n].phase = "open" /\ application'[n].seen = seen /\ application'[n] # NoApp
  <2>1. application'[n] = [club |-> c, member |-> m, invite |-> i, phase |-> "open", seen |-> seen]
    BY <1>1 DEF TableTypes
  <2> QED
    BY <2>1 DEF NoApp
<1>3. \A b \in AppId \ {n} : application'[b] = application[b]
  BY <1>1 DEF TableTypes
<1>4. AppId \subseteq Nat
  BY Identifiers
<1>5. InFront'
  <2> SUFFICES ASSUME NEW a \in AppId, NEW b \in AppId, application'[b] # NoApp, a < b
               PROVE  application'[a] # NoApp
    BY DEF InFront
  <2>1. CASE a = n
    BY <1>2, <2>1
  <2>2. CASE a # n /\ b = n
    BY <1>1, <1>3, <2>2
  <2>3. CASE a # n /\ b # n
    BY <1>3, <2>3 DEF InFront
  <2> QED
    BY <2>1, <2>2, <2>3
<1>6. \A b \in seen : b < n
  <2> SUFFICES ASSUME NEW b \in seen, ~(b < n) PROVE FALSE
    OBVIOUS
  <2>1. b \in AppId /\ application[b] # NoApp /\ b # n
    BY <1>1
  <2>2. n < b
    BY <1>4, <2>1
  <2> QED
    BY <1>1, <2>1, <2>2 DEF InFront
<1>7. SeenBefore'
  BY <1>2, <1>3, <1>6 DEF SeenBefore, OpenApp
<1> QED
  BY <1>2, <1>3, <1>5, <1>7

LEMMA SawKept ==
    ASSUME SawExisting, NEW r \in Request,
           \A q \in Request \ {r} : label'[q] = label[q] /\ job'[q] = job[q],
           label'[r] \notin {"apply_write", "redeem_write"},
           \A b \in AppId : application[b] # NoApp => application'[b] # NoApp
    PROVE  SawExisting'
<1> SUFFICES ASSUME NEW q \in Request, label'[q] \in {"apply_write", "redeem_write"}
             PROVE  /\ job'[q].seen \subseteq AppId
                    /\ \A b \in job'[q].seen : application'[b] # NoApp
                    /\ Cardinality(job'[q].seen) < InFlightCap
  BY DEF SawExisting
<1>1. q # r /\ label[q] \in {"apply_write", "redeem_write"} /\ job'[q] = job[q]
  OBVIOUS
<1> QED
  BY <1>1 DEF SawExisting

\* A request that counts, in the tables as they are.
LEMMA CountsKept ==
    ASSUME Types, FlightInv, UNCHANGED tables, NEW r \in Request, NEW j,
           Moves(r, "apply_write", j) \/ Moves(r, "redeem_write", j),
           j.seen = OpenAppsOf(job[r].who), HasRoom(job[r].who)
    PROVE  FlightInv'
<1>0. label \in [Request -> Label] /\ job \in [Request -> JobRow]
  BY DEF Types, RequestTypes
<1>1. /\ \A q \in Request \ {r} : label'[q] = label[q] /\ job'[q] = job[q]
      /\ job'[r] = j
  BY <1>0 DEF Moves
<1>2. InFront' /\ SeenBefore'
  BY DEF FlightInv, InFront, SeenBefore, OpenApp, tables
<1>3. /\ j.seen \subseteq AppId /\ Cardinality(j.seen) < InFlightCap
      /\ \A b \in j.seen : application[b] # NoApp
  BY DEF OpenAppsOf, OpenApp, HasRoom, NoApp
<1>4. SawExisting'
  <2> SUFFICES ASSUME NEW q \in Request, label'[q] \in {"apply_write", "redeem_write"}
               PROVE  /\ job'[q].seen \subseteq AppId
                      /\ \A b \in job'[q].seen : application[b] # NoApp
                      /\ Cardinality(job'[q].seen) < InFlightCap
    BY DEF SawExisting, tables
  <2>1. CASE q = r
    BY <1>1, <1>3, <2>1
  <2>2. CASE q # r
    BY <1>1, <2>2 DEF FlightInv, SawExisting
  <2> QED
    BY <2>1, <2>2
<1> QED
  BY <1>2, <1>4 DEF FlightInv

LEMMA FlightStep == Types /\ FlightInv /\ [Next]_vars => FlightInv'
<1> SUFFICES ASSUME Types, FlightInv, [Next]_vars PROVE FlightInv'
  OBVIOUS
<1>0. /\ label \in [Request -> Label] /\ job \in [Request -> JobRow] /\ TableTypes
      /\ InFront /\ SeenBefore /\ SawExisting
  BY DEF Types, RequestTypes, FlightInv
<1>1. ASSUME UNCHANGED application PROVE InFront' /\ SeenBefore'
  BY <1>0, <1>1 DEF InFront, SeenBefore, OpenApp
<1>2. CASE UNCHANGED <<application, label, job>>
  BY <1>0, <1>1, <1>2 DEF FlightInv, SawExisting
<1>3. ASSUME NEW r \in Request, UNCHANGED application,
             \A q \in Request \ {r} : label'[q] = label[q] /\ job'[q] = job[q],
             label'[r] \notin {"apply_write", "redeem_write"}
      PROVE  FlightInv'
  BY <1>0, <1>1, <1>3, SawKept DEF FlightInv
<1>4. ASSUME NEW r \in Request, NEW to, NEW j, Moves(r, to, j),
             to \notin {"apply_write", "redeem_write"}
      PROVE  /\ \A q \in Request \ {r} : label'[q] = label[q] /\ job'[q] = job[q]
             /\ label'[r] \notin {"apply_write", "redeem_write"}
  BY <1>0, <1>4 DEF Moves
<1>5. ASSUME NEW r \in Request, Ends(r), UNCHANGED application PROVE FlightInv'
  <2>1. Moves(r, "idle", NoJob)
    BY <1>5 DEF Ends
  <2> QED
    BY <1>3, <1>4, <1>5, <2>1
<1>6. ASSUME NEW r \in Request, Fails(r) PROVE FlightInv'
  BY <1>5, <1>6 DEF Fails, tables
<1>7. ASSUME NEW r \in Request, NEW i, Ends(r), label[r] \in {"apply_write", "redeem_write"},
             InsertsApplication(job[r].who, job[r].club, i, job[r].seen)
      PROVE  FlightInv'
  <2>1. /\ job[r].seen \subseteq AppId /\ \A b \in job[r].seen : application[b] # NoApp
        /\ Cardinality(job[r].seen) < InFlightCap
    BY <1>0, <1>7 DEF SawExisting
  <2>2. /\ InFront' /\ SeenBefore'
        /\ \A b \in AppId : application[b] # NoApp => application'[b] # NoApp
    BY <1>0, <1>7, <2>1, InsertKept
  <2>3. Moves(r, "idle", NoJob)
    BY <1>7 DEF Ends
  <2>4. SawExisting'
    BY <1>0, <1>4, <2>2, <2>3, SawKept
  <2> QED
    BY <2>2, <2>4 DEF FlightInv
<1>8. ASSUME NEW r \in Request,
             \/ \E s \in Sponsor, c \in Club, t \in Target : IssueChecks(r, s, c, t)
             \/ \E m \in Applicant, c \in Club, i \in InviteId \cup {NoId} : ApplyPrepares(r, m, c, i)
             \/ \E m \in Applicant, i \in InviteId : RedeemPrepares(r, m, i)
      PROVE  FlightInv'
  <2>1. PICK to \in {"issue_lock", "apply_read", "redeem_read"} : \E j : Moves(r, to, j)
    BY <1>8 DEF IssueChecks, ApplyPrepares, RedeemPrepares
  <2>2. UNCHANGED application
    BY <1>8 DEF IssueChecks, ApplyPrepares, RedeemPrepares, tables
  <2> QED
    BY <1>3, <1>4, <2>1, <2>2
<1>9. ASSUME NEW r \in Request, IssueLocks(r) PROVE FlightInv'
  <2>1. /\ \A q \in Request \ {r} : label'[q] = label[q] /\ job'[q] = job[q]
        /\ label'[r] = "issue_read" /\ UNCHANGED application
    BY <1>0, <1>9 DEF IssueLocks, tables
  <2> QED
    BY <1>3, <2>1
<1>10. ASSUME NEW r \in Request, IssueReads(r) PROVE FlightInv'
  <2>1. CASE label' = [label EXCEPT ![r] = "issue_insert"] /\ UNCHANGED <<tables, job>>
    <3>1. /\ \A q \in Request \ {r} : label'[q] = label[q] /\ job'[q] = job[q]
          /\ label'[r] = "issue_insert" /\ UNCHANGED application
      BY <1>0, <2>1 DEF tables
    <3> QED
      BY <1>3, <3>1
  <2> QED
    BY <1>6, <1>10, <2>1 DEF IssueReads
<1>11. ASSUME NEW r \in Request, IssueInserts(r) PROVE FlightInv'
  BY <1>5, <1>11 DEF IssueInserts
<1>12. ASSUME NEW r \in Request, ApplyReads(r) PROVE FlightInv'
  <2>1. CASE Fails(r)
    BY <1>6, <2>1
  <2>2. CASE ~Fails(r)
    <3>1. PICK i : /\ Moves(r, "apply_write", [job[r] EXCEPT !.invite = i, !.late = Overdue,
                                                             !.seen = OpenAppsOf(job[r].who)])
                   /\ UNCHANGED tables
      BY <1>12, <2>2 DEF ApplyReads
    <3>2. HasRoom(job[r].who)
      BY <1>12, <2>2 DEF ApplyReads, StillMayApply, MayApply
    <3>3. PICK j : j = [job[r] EXCEPT !.invite = i, !.late = Overdue, !.seen = OpenAppsOf(job[r].who)]
      OBVIOUS
    <3>4. j.seen = OpenAppsOf(job[r].who)
      BY <1>0, <3>3 DEF JobRow
    <3>5. Moves(r, "apply_write", j)
      BY <3>1, <3>3
    <3> QED
      BY <3>1, <3>2, <3>4, <3>5, CountsKept
  <2> QED
    BY <2>1, <2>2
<1>13. ASSUME NEW r \in Request, ApplyWrites(r) PROVE FlightInv'
  BY <1>6, <1>7, <1>13 DEF ApplyWrites
<1>14. ASSUME NEW r \in Request, RedeemReads(r) PROVE FlightInv'
  <2>1. CASE Fails(r)
    BY <1>6, <2>1
  <2>2. CASE ~Fails(r)
    <3>1. /\ Moves(r, "redeem_write", [job[r] EXCEPT !.seen = OpenAppsOf(job[r].who)])
          /\ UNCHANGED tables /\ HasRoom(job[r].who)
      BY <1>14, <2>2 DEF RedeemReads, StillMayApply, MayApply
    <3>3. PICK j : j = [job[r] EXCEPT !.seen = OpenAppsOf(job[r].who)]
      OBVIOUS
    <3>4. j.seen = OpenAppsOf(job[r].who)
      BY <1>0, <3>3 DEF JobRow
    <3>5. Moves(r, "redeem_write", j)
      BY <3>1, <3>3
    <3> QED
      BY <3>1, <3>4, <3>5, CountsKept
  <2> QED
    BY <2>1, <2>2
<1>15. ASSUME NEW r \in Request, RedeemWrites(r) \/ Abort(r) PROVE FlightInv'
  BY <1>6, <1>7, <1>15 DEF RedeemWrites, Abort
<1>16. CASE \/ \E i \in InviteId : Revoke(i) \/ WithdrawSupport(i) \/ TurnsOverdue(i)
            \/ \E s \in Sponsor, c \in Club : SponsorLeaves(s, c)
            \/ UNCHANGED vars
  BY <1>2, <1>16 DEF Revoke, WithdrawSupport, TurnsOverdue, SponsorLeaves, vars, tables
<1>17. ASSUME NEW a \in AppId, Close(a) PROVE FlightInv'
  <2>0. application[a] \in AppRow /\ OpenApp(a)
    BY <1>0, <1>17 DEF TableTypes, Close
  <2>1. /\ \A b \in AppId \ {a} : application'[b] = application[b]
        /\ application'[a].phase = "closed" /\ application'[a].seen = {}
        /\ application[a] # NoApp /\ application'[a] # NoApp
        /\ UNCHANGED <<label, job>>
    <3>1. application'[a] = [application[a] EXCEPT !.phase = "closed", !.seen = {}]
      BY <1>0, <1>17 DEF Close, TableTypes, AppRow
    <3>2. application'[a].phase = "closed" /\ application'[a].seen = {}
      BY <2>0, <3>1 DEF AppRow
    <3>3. application[a] # NoApp /\ application'[a] # NoApp
      BY <2>0, <3>2 DEF OpenApp, NoApp
    <3>4. \A b \in AppId \ {a} : application'[b] = application[b]
      BY <1>0, <1>17 DEF Close, TableTypes
    <3> QED
      BY <1>17, <3>2, <3>3, <3>4 DEF Close
  <2>2. InFront'
    BY <1>0, <2>1 DEF InFront
  <2>3. SeenBefore'
    BY <1>0, <2>1 DEF SeenBefore, OpenApp
  <2>4. SawExisting'
    BY <1>0, <2>1 DEF SawExisting
  <2> QED
    BY <2>2, <2>3, <2>4 DEF FlightInv
<1> QED
  BY <1>8, <1>9, <1>10, <1>11, <1>12, <1>13, <1>14, <1>15, <1>16, <1>17 DEF Next

\* A set of applications has a latest one.
LEMMA LeastNumber == ASSUME NEW T \in SUBSET Nat, T # {} PROVE \E x \in T : \A y \in T : x <= y
<1> DEFINE R == OpToRel(<, Nat)
<1>1. IsWellFoundedOn(R, Nat)
  BY NatLessThanWellFounded
<1>2. ASSUME NEW x \in Nat, NEW y \in Nat, <<y, x>> \notin R PROVE x <= y
  <2>1. ~(y < x)
    BY <1>2 DEF OpToRel
  <2> QED
    BY <2>1
<1> HIDE DEF R
<1>3. PICK x \in T : \A y \in T : <<y, x>> \notin R
  BY <1>1, WFMin
<1> QED
  BY <1>2, <1>3

LEMMA Latest ==
    ASSUME NEW set \in SUBSET AppId, set # {}
    PROVE  \E a \in set : \A b \in set : b <= a
<1> DEFINE fromLast == {MaxApp - a : a \in set}
<1>1. MaxApp \in Nat /\ \A a \in set : a \in Nat /\ MaxApp - a \in Nat
  BY InvitationAssumption DEF AppId
<1>2. fromLast \in SUBSET Nat /\ fromLast # {}
  BY <1>1
<1>3. PICK least \in fromLast : \A n \in fromLast : least <= n
  <2> HIDE DEF fromLast
  <2> QED
    BY <1>2, LeastNumber
<1>4. PICK a \in set : least = MaxApp - a
  OBVIOUS
<1>5. ASSUME NEW b \in set PROVE b <= a
  <2>1. least <= MaxApp - b
    BY <1>3
  <2> QED
    BY <1>1, <1>4, <2>1
<1> QED
  BY <1>5

\* The latest of what a member has open counted fewer than the cap: of more than the cap
\* it missed one, which is earlier and so did not count it either.
LEMMA OverCap == Types /\ FlightInv => OverCapNeedsOverlap
<1> SUFFICES ASSUME Types, FlightInv, NEW m \in Applicant,
                    Cardinality(OpenAppsOf(m)) > InFlightCap
             PROVE  \E a, b \in OpenAppsOf(m) :
                       a # b /\ a \notin application[b].seen /\ b \notin application[a].seen
  BY DEF OverCapNeedsOverlap
<1> DEFINE open == OpenAppsOf(m)
<1>1. /\ open \in SUBSET AppId /\ IsFiniteSet(open) /\ Cardinality(open) \in Nat
      /\ InFlightCap \in Nat /\ AppId \subseteq Nat
  <2>1. open \in SUBSET AppId
    BY DEF OpenAppsOf
  <2>2. IsFiniteSet(open)
    BY <2>1, Identifiers, FS_Subset
  <2> QED
    BY <2>1, <2>2, Identifiers, InvitationAssumption, FS_CardinalityType
<1>2. open # {}
  <2> HIDE DEF open
  <2>1. Cardinality(open) > InFlightCap
    BY DEF open
  <2> QED
    BY <1>1, <2>1, FS_EmptySet
<1>3. PICK b \in open : \A a \in open : a <= b
  BY <1>1, <1>2, Latest
<1> DEFINE seen == application[b].seen
<1>4. seen \subseteq AppId /\ Cardinality(seen) < InFlightCap /\ \A a \in seen : a < b
  BY <1>1 DEF FlightInv, SeenBefore, OpenAppsOf
<1>5. PICK a \in open \ {b} : a \notin seen
  <2> SUFFICES ASSUME open \subseteq seen \cup {b} PROVE FALSE
    OBVIOUS
  <2> HIDE DEF seen
  <2>1. IsFiniteSet(seen) /\ Cardinality(seen) \in Nat
    BY <1>4, Identifiers, FS_Subset, FS_CardinalityType
  <2>2. /\ IsFiniteSet(seen \cup {b})
        /\ Cardinality(seen \cup {b}) \in {Cardinality(seen), Cardinality(seen) + 1}
    BY <2>1, FS_AddElement
  <2>3. Cardinality(open) <= Cardinality(seen \cup {b})
    <3> HIDE DEF open
    <3> QED
      BY <2>2, FS_Subset
  <2>4. Cardinality(open) > InFlightCap
    OBVIOUS
  <2> HIDE DEF open
  <2> QED
    BY <1>1, <1>4, <2>1, <2>2, <2>3, <2>4
<1>6. b \notin application[a].seen
  <2>1. a \in AppId /\ b \in AppId /\ a < b
    <3>1. a \in Nat /\ b \in Nat /\ a # b /\ a <= b
      <4> HIDE DEF open
      <4> QED
        BY <1>1, <1>3, <1>5
    <3> QED
      BY <1>1, <3>1
  <2>2. \A d \in application[a].seen : d < a
    BY <2>1 DEF FlightInv, SeenBefore
  <2> QED
    BY <1>1, <2>1, <2>2
<1> QED
  BY <1>3, <1>5, <1>6

\* A member has more in flight than the cap only by requests that did not see each other:
\* one request at a time keeps the cap (unified.ts, src/src/admission.ts).
THEOREM CapBreaksOnlyByOverlap == Spec => []OverCapNeedsOverlap
<1>1. Init => Types /\ FlightInv
  <2> SUFFICES ASSUME Init PROVE Types /\ FlightInv
    OBVIOUS
  <2>1. Types
    BY InitTypes
  <2>2. \A a \in AppId : application[a] = NoApp
    BY DEF Init
  <2>3. InFront
    BY <2>2 DEF InFront
  <2>4. SeenBefore
    BY <2>2 DEF SeenBefore, OpenApp, NoApp
  <2>5. SawExisting
    BY DEF Init, SawExisting
  <2> QED
    BY <2>1, <2>3, <2>4, <2>5 DEF FlightInv
<1>2. Types /\ FlightInv /\ [Next]_vars => Types' /\ FlightInv'
  BY TypesKept, FlightStep
<1>3. Types /\ FlightInv => OverCapNeedsOverlap
  BY OverCap
<1> QED
  BY <1>1, <1>2, <1>3, PTL DEF Spec

=============================================================================
