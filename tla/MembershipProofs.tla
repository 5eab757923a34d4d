--------------------------- MODULE MembershipProofs --------------------------
(***************************************************************************)
(* Proofs about the roster of a club, for any members, caps, bounds and    *)
(* number of concurrent requests.                                          *)
(*                                                                         *)
(* The inductive invariant says what a request in progress may rely on:    *)
(* that the row it read is still of its member and, while its version is   *)
(* the one read, of the status read (JobShape); which lock it holds, and   *)
(* what that lock protects (LockShape); that an application being decided  *)
(* is still open, and one request only decides it (JobShape, SoleDecider). *)
(***************************************************************************)
EXTENDS Membership, FiniteSetTheorems, TLAPS

-----------------------------------------------------------------------------
(* The invariant.                                                          *)

DataOK ==
    /\ row \in [RowId -> Membership \cup {NoRow}]
    /\ owner \in Member
    /\ clubVersion \in Nat
    /\ cap \in Caps
    /\ block \in [Member -> SUBSET BlockKind]
    /\ app \in [AppId -> Application \cup {NoApp}]

ControlOK ==
    /\ pc \in [Request -> Label]
    /\ job \in [Request -> Job]
    /\ got \in [Request -> Read]
    /\ clubLock \in Request \cup {Nobody}
    /\ capLock \in Request \cup {Nobody}
    /\ clubLock # Nobody => pc[clubLock] = "write"
    /\ capLock # Nobody => pc[capLock] \in {"club", "write", "fanout"}

RowRead(t) ==
    /\ job[t].member \in Member
    /\ got[t].row \in RowId
    /\ row[got[t].row].member = job[t].member

Fresh(t) ==
    /\ got[t].version <= row[got[t].row].version
    /\ got[t].version = row[got[t].row].version
           => row[got[t].row].status = got[t].status

StatusJob(t) ==
    job[t].op = "status" =>
        /\ RowRead(t)
        /\ Fresh(t)
        /\ job[t].to \in Live \cup Gone
        /\ got[t].status \in Live \cup Gone
        /\ job[t].to = "active" => got[t].status \in Gone
RoleJob(t) == job[t].op = "role" => RowRead(t) /\ job[t].to \in Role
OwnerJob(t) ==
    job[t].op = "owner" =>
        /\ job[t].member \in Member
        /\ pc[t] = "write" => RowRead(t) /\ row[got[t].row].status = "active"
CapJob(t) == job[t].op = "cap" => job[t].n \in Caps
AddJob(t) == job[t].op = "add" => job[t].member \in Member /\ job[t].to \in Role
ApplyJob(t) == job[t].op = "apply" => job[t].member \in Member
AcceptJob(t) ==
    job[t].op = "accept" =>
        /\ job[t].member \in Member
        /\ job[t].n \in AppId
        /\ app[job[t].n].phase = "awaiting_review"
        /\ app[job[t].n].member = job[t].member
        /\ got[t].row # 0 => RowRead(t) /\ Fresh(t) /\ got[t].status = "cancelled"
SettleJob(t) ==
    job[t].op = "settle" =>
        /\ job[t].member \in Member
        /\ job[t].n \in AppId
        /\ app[job[t].n].phase \in Open
        /\ app[job[t].n].member = job[t].member
        /\ job[t].to \in {"awaiting_review", "withdrawn", "declined", "banned"}

JobShape(t) ==
    /\ StatusJob(t)
    /\ RoleJob(t)
    /\ OwnerJob(t)
    /\ CapJob(t)
    /\ AddJob(t)
    /\ ApplyJob(t)
    /\ AcceptJob(t)
    /\ SettleJob(t)

StatusLock(t) ==
    Doing(t, "status", "write") =>
        IF job[t].to = "active" THEN capLock = t
        ELSE /\ clubLock = t
             /\ owner # job[t].member
             /\ <<got[t].status, job[t].to>> \in AdminTransition
InsertLock(t) == pc[t] = "write" /\ job[t].op \in {"add", "accept"} => capLock = t
OwnerLock(t) == Doing(t, "owner", "write") => clubLock = t
CapLock(t) ==
    /\ job[t].op = "cap" => /\ pc[t] \in {"club", "write"} => capLock = t
                            /\ pc[t] = "write" => clubLock = t
    /\ capLock = t /\ pc[t] = "club" => job[t].op = "cap"
    /\ capLock = t => job[t].op # "settle"
Counted(t) ==
    capLock = t /\ pc[t] \in {"write", "fanout"} =>
        IF job[t].op = "cap" THEN Cardinality(Active) <= job[t].n ELSE HasCapacity

\* An activation that has inserted its state version still has the number.
Reserved(t) ==
    pc[t] = "fanout" =>
        /\ capLock = t
        /\ VersionFree(t)
        /\ \/ job[t].op = "status" /\ job[t].to = "active"
           \/ job[t].op = "accept" /\ got[t].row # 0

ClubHolder(t) ==
    clubLock = t => /\ job[t].op \notin {"add", "accept", "settle"}
                    /\ job[t].op = "status" => job[t].to # "active"

LockShape(t) ==
    /\ StatusLock(t)
    /\ InsertLock(t)
    /\ OwnerLock(t)
    /\ CapLock(t)
    /\ Counted(t)
    /\ Reserved(t)
    /\ ClubHolder(t)

LabelShape(t) ==
    /\ pc[t] = "idle" <=> job[t].op = "none"
    /\ job[t].op = "owner" => pc[t] \in {"club", "write"}
    /\ job[t].op = "settle" => pc[t] \in {"write", "announce"}
    /\ job[t].op = "status" /\ pc[t] = "capacity" => job[t].to = "active"

Deciding == {"accept", "settle"}

SoleDecider ==
    \A t, u \in Request :
        (job[t].op \in Deciding /\ job[u].op \in Deciding /\ job[t].n = job[u].n) => t = u

\* An application that is open has not led to a membership yet, one that reads
\* active leads to a live one of its applicant.
AppShapeOf(a) ==
    /\ app[a].phase \in Open => app[a].membership = 0
    /\ app[a].phase = "active" => app[a].membership \in LiveRows(app[a].member)

AppShape == \A a \in AppId : AppShapeOf(a)

IInv ==
    /\ DataOK
    /\ ControlOK
    /\ \A t \in Request : JobShape(t) /\ LockShape(t) /\ LabelShape(t)
    /\ SoleDecider
    /\ AppShape
    /\ CapRespected
    /\ OwnerStaysActive
    /\ OutsiderBlocked

-----------------------------------------------------------------------------
(* Facts about the constants and about counting.                           *)

\* The type invariant is the two parts a step is shown to keep one by one.
LEMMA TypeParts == TypeOK <=> DataOK /\ ControlOK
BY DEF TypeOK, DataOK, ControlOK

\* A record that names a member is a membership.
LEMMA RowOfMember ==
    ASSUME DataOK, NEW r \in RowId, row[r].member \in Member
    PROVE  row[r] \in Membership
BY RosterAssumption DEF DataOK, NoRow

\* The count of the active rows is a number.
LEMMA ActiveCount == IsFiniteSet(Active) /\ Cardinality(Active) \in Nat
<1>1. IsFiniteSet(RowId)
  BY FS_Interval, RosterAssumption DEF RowId
<1>2. Active \in SUBSET RowId
  BY DEF Active
<1> QED
  BY <1>1, <1>2, FS_Subset, FS_CardinalityType

\* A step that activates no row lowers the count or leaves it.
LEMMA CountFalls ==
    ASSUME Active' \subseteq Active
    PROVE  Cardinality(Active') \in Nat /\ Cardinality(Active') <= Cardinality(Active)
<1>1. Active' \in SUBSET Active
  OBVIOUS
<1>2. IsFiniteSet(Active')
  BY <1>1, ActiveCount, FS_Subset
<1> QED
  BY <1>1, <1>2, ActiveCount, FS_Subset, FS_CardinalityType

\* A step that activates one row raises the count by one at most.
LEMMA CountRisesByOne ==
    ASSUME NEW r, Active' \subseteq Active \cup {r}
    PROVE  Cardinality(Active') \in Nat /\ Cardinality(Active') <= Cardinality(Active) + 1
<1> DEFINE more == Active \cup {r}
<1>a. /\ IsFiniteSet(more)
      /\ Cardinality(more) = IF r \in Active THEN Cardinality(Active)
                             ELSE Cardinality(Active) + 1
  BY ActiveCount, FS_AddElement
<1>b. Cardinality(more) \in Nat
  BY <1>a, FS_CardinalityType
<1>1. /\ IsFiniteSet(more)
      /\ Cardinality(more) <= Cardinality(Active) + 1
      /\ Cardinality(more) \in Nat
  <2> HIDE DEF more
  <2> QED
    BY <1>a, <1>b, ActiveCount
<1>2. Active' \in SUBSET more
  OBVIOUS
<1>3. IsFiniteSet(Active') /\ Cardinality(Active') <= Cardinality(more)
  BY <1>1, <1>2, FS_Subset
<1>4. Cardinality(Active') \in Nat
  BY <1>3, FS_CardinalityType
<1> QED
  BY <1>1, <1>3, <1>4, ActiveCount

-----------------------------------------------------------------------------
(* What a step of one request does to the others.                          *)

\* Nothing of another request changes, and it keeps its locks.
Frame(t) ==
    \A u \in Request \ {t} :
        /\ pc'[u] = pc[u]
        /\ job'[u] = job[u]
        /\ got'[u] = got[u]
        /\ clubLock' = u <=> clubLock = u
        /\ capLock' = u <=> capLock = u

\* A row stays with its member, and its status changes with its version only.
RowsKept ==
    \A r \in RowId : row[r] # NoRow =>
        /\ row'[r].member = row[r].member
        /\ row'[r].version \in Nat
        /\ row[r].version <= row'[r].version
        /\ row'[r].version = row[r].version => row'[r].status = row[r].status

TargetsKept(t) ==
    \A u \in Request \ {t} :
        Doing(u, "owner", "write") => row'[got[u].row].status = row[got[u].row].status

ReservedKept(t) ==
    \A u \in Request \ {t} :
        pc[u] = "fanout" => row'[got[u].row].version = row[got[u].row].version

AppsKept(t) ==
    \A u \in Request \ {t} :
        job[u].op \in Deciding => /\ app'[job[u].n].phase = app[job[u].n].phase
                                  /\ app'[job[u].n].member = app[job[u].n].member

OwnerKept(t) == owner' = owner \/ clubLock = t

CountKept(t) == (cap' = cap /\ Active' \subseteq Active) \/ capLock = t

Effects(t) ==
    RowsKept /\ TargetsKept(t) /\ ReservedKept(t) /\ AppsKept(t) /\ OwnerKept(t) /\ CountKept(t)

\* What a request has read of a row stays usable.
LEMMA ReadKept ==
    ASSUME DataOK, ControlOK, NEW u \in Request, got'[u] = got[u], job'[u] = job[u],
           RowsKept, RowRead(u)
    PROVE  RowRead(u)' /\ (Fresh(u) => Fresh(u)')
<1>1. row[got[u].row] # NoRow /\ row[got[u].row] \in Membership
  BY RosterAssumption, RowOfMember DEF RowRead, NoRow
<1>2. RowRead(u)'
  BY <1>1 DEF RowRead, RowsKept, RowId
<1>3. ASSUME Fresh(u) PROVE Fresh(u)'
  <2> DEFINE r == got[u].row
  <2>1. r \in RowId /\ got'[u].row = r /\ got'[u].version = got[u].version
        /\ got'[u].status = got[u].status
    BY DEF RowRead
  <2>2. row[r].version \in Nat /\ got[u].version \in Nat
    BY <1>1 DEF Membership, ControlOK, Read
  <2> QED
    BY <1>1, <1>3, <2>1, <2>2 DEF Fresh, RowsKept
<1> QED
  BY <1>2, <1>3

\* A step of one request leaves what the others may rely on.
LEMMA OthersShape ==
    ASSUME DataOK, ControlOK, NEW t \in Request, NEW u \in Request \ {t}, Frame(t),
           Effects(t), JobShape(u)
    PROVE  JobShape(u)'
<1>1. /\ u \in Request /\ got'[u] = got[u] /\ job'[u] = job[u] /\ pc'[u] = pc[u]
      /\ RowsKept
  BY DEF Frame, Effects
<1>2. RowRead(u) => RowRead(u)' /\ (Fresh(u) => Fresh(u)')
  BY <1>1, ReadKept
<1>3. StatusJob(u)'
  BY <1>1, <1>2 DEF JobShape, StatusJob, Live, Gone
<1>4. RoleJob(u)'
  BY <1>1, <1>2 DEF JobShape, RoleJob, Role
<1>5. OwnerJob(u)'
  BY <1>1, <1>2 DEF JobShape, OwnerJob, Effects, TargetsKept, Doing
<1>6. CapJob(u)' /\ AddJob(u)' /\ ApplyJob(u)'
  BY <1>1 DEF JobShape, CapJob, AddJob, ApplyJob, Role
<1>8. SettleJob(u)'
  BY <1>1 DEF JobShape, SettleJob, Effects, AppsKept, AppId, Open, Deciding
<1>7. AcceptJob(u)'
  BY <1>1, <1>2 DEF JobShape, AcceptJob, Effects, AppsKept, AppId, Deciding
<1> QED
  BY <1>3, <1>4, <1>5, <1>6, <1>7, <1>8 DEF JobShape

\* It leaves what the locks of the others protect.
LEMMA OthersLock ==
    ASSUME DataOK, ControlOK, NEW t \in Request, NEW u \in Request \ {t}, Frame(t),
           Effects(t), JobShape(u), LockShape(u)
    PROVE  LockShape(u)'
<1>1. /\ got'[u] = got[u] /\ job'[u] = job[u] /\ pc'[u] = pc[u]
      /\ clubLock' = u <=> clubLock = u
      /\ capLock' = u <=> capLock = u
      /\ u # t
  BY DEF Frame
<1>2. StatusLock(u)'
  BY <1>1 DEF LockShape, StatusLock, Doing, Effects, OwnerKept, AdminTransition
<1>3. InsertLock(u)' /\ OwnerLock(u)' /\ CapLock(u)'
  BY <1>1 DEF LockShape, InsertLock, OwnerLock, CapLock, Doing
<1>4. ASSUME capLock = u, pc[u] \in {"write", "fanout"}
      PROVE  IF job[u].op = "cap" THEN Cardinality(Active') <= job[u].n ELSE HasCapacity'
  <2>1. cap' = cap /\ Active' \subseteq Active
    BY <1>1, <1>4 DEF Effects, CountKept
  <2>2. Cardinality(Active') \in Nat /\ Cardinality(Active) \in Nat
        /\ Cardinality(Active') <= Cardinality(Active)
    BY <2>1, CountFalls, ActiveCount
  <2>3. cap \in Nat /\ (job[u].op = "cap" => job[u].n \in Nat)
    BY RosterAssumption DEF DataOK, JobShape, CapJob
  <2>4. IF job[u].op = "cap" THEN Cardinality(Active) <= job[u].n ELSE HasCapacity
    BY <1>4 DEF LockShape, Counted
  <2>5. CASE job[u].op = "cap"
    BY <2>2, <2>3, <2>4, <2>5
  <2>6. CASE job[u].op # "cap"
    BY <2>1, <2>2, <2>3, <2>4, <2>6 DEF HasCapacity
  <2> QED
    BY <2>5, <2>6
<1>5. Counted(u)'
  BY <1>1, <1>4 DEF Counted
<1>6. Reserved(u)' /\ ClubHolder(u)'
  <2>1. pc[u] = "fanout" => row'[got[u].row].version = row[got[u].row].version
    BY DEF Effects, ReservedKept
  <2> QED
    BY <1>1, <2>1 DEF LockShape, Reserved, ClubHolder, VersionFree
<1> QED
  BY <1>2, <1>3, <1>5, <1>6 DEF LockShape

-----------------------------------------------------------------------------
(* Steps that write nothing, and the end of a transaction.                 *)

\* A transaction that ends gives its locks back and asks for nothing.
LEMMA EndControl ==
    ASSUME ControlOK, NEW t \in Request, End(t)
    PROVE  /\ ControlOK'
           /\ Frame(t)
           /\ JobShape(t)' /\ LockShape(t)' /\ LabelShape(t)'
           /\ job'[t].op = "none"
<1>1. /\ pc' = [pc EXCEPT ![t] = "idle"]
      /\ job' = [job EXCEPT ![t] = NoJob]
      /\ got' = [got EXCEPT ![t] = NoRead]
      /\ clubLock' = IF clubLock = t THEN Nobody ELSE clubLock
      /\ capLock' = IF capLock = t THEN Nobody ELSE capLock
  BY DEF End, Goto, Leave
<1>2. t # Nobody
  BY RosterAssumption
<1>3. pc'[t] = "idle" /\ job'[t] = NoJob
  BY <1>1 DEF ControlOK
<1>4. NoJob \in Job /\ NoRead \in Read /\ "idle" \in Label
  BY RosterAssumption DEF NoJob, NoRead, Job, Read, Label
<1>5. ControlOK'
  BY <1>1, <1>2, <1>4 DEF ControlOK, Label, Job, Read, Live, Gone, Role, Open, Closed, AllOps
<1>6. Frame(t)
  BY <1>1, <1>2, RosterAssumption DEF ControlOK, Frame
<1>7. JobShape(t)'
  BY <1>3 DEF NoJob, JobShape, StatusJob, RoleJob, OwnerJob, CapJob, AddJob, ApplyJob,
     AcceptJob, SettleJob
<1>8. LockShape(t)'
  BY <1>3 DEF NoJob, LockShape, StatusLock, InsertLock, OwnerLock, CapLock, Counted, Reserved,
     ClubHolder, Doing
<1>9. LabelShape(t)' /\ job'[t].op = "none"
  BY <1>3 DEF NoJob, LabelShape
<1> QED
  BY <1>5, <1>6, <1>7, <1>8, <1>9

\* A step that leaves the data alone has no effect on other requests.
LEMMA NoEffects ==
    ASSUME DataOK, NEW t \in Request, UNCHANGED data
    PROVE  DataOK' /\ Effects(t)
<1>1. DataOK'
  BY DEF data, DataOK, Membership, Application, NoRow, NoApp, BlockKind, Live, Gone, Role, Open,
     Closed, RowId, AppId
<1>2. RowsKept
  <2> SUFFICES ASSUME NEW r \in RowId, row[r] # NoRow PROVE row[r].version \in Nat
    BY DEF RowsKept, data
  <2> QED
    BY DEF DataOK, Membership
<1>3. Active' = Active
  BY DEF data, Active, RowId
<1>4. row' = row /\ app' = app /\ owner' = owner /\ cap' = cap
  BY DEF data
<1>5. TargetsKept(t) /\ ReservedKept(t) /\ AppsKept(t)
  BY <1>4 DEF TargetsKept, ReservedKept, AppsKept
<1>6. OwnerKept(t) /\ CountKept(t)
  BY <1>3, <1>4 DEF OwnerKept, CountKept
<1> QED
  BY <1>1, <1>2, <1>5, <1>6 DEF Effects

DataInv == AppShape /\ CapRespected /\ OwnerStaysActive /\ OutsiderBlocked

\* The part of the invariant that is about the data alone.
LEMMA SameData == ASSUME DataInv, UNCHANGED data PROVE DataInv'
BY DEF DataInv, data, AppShape, AppShapeOf, CapRespected, OwnerStaysActive, OutsiderBlocked,
   LiveRows, RowsOf,
   Active, RowId, AppId, Open, Live, Gone

\* A step of request t keeps the invariant if it keeps the data's part, what t
\* relies on and what the others rely on.
LEMMA StepKeeps ==
    ASSUME IInv, NEW t \in Request, DataOK', ControlOK', Frame(t), Effects(t), DataInv',
           JobShape(t)', LockShape(t)', LabelShape(t)', SoleDecider'
    PROVE  IInv'
<1>1. ASSUME NEW u \in Request PROVE JobShape(u)' /\ LockShape(u)' /\ LabelShape(u)'
  <2>1. CASE u = t
    BY <2>1
  <2>2. CASE u # t
    <3>1. u \in Request \ {t}
      BY <2>2
    <3>2. DataOK /\ ControlOK /\ JobShape(u) /\ LockShape(u) /\ LabelShape(u)
      BY DEF IInv
    <3>3. LabelShape(u)'
      BY <3>1, <3>2 DEF Frame, LabelShape
    <3> QED
      BY <3>1, <3>2, <3>3, OthersShape, OthersLock
  <2> QED
    BY <2>1, <2>2
<1> QED
  BY <1>1 DEF IInv, DataInv

\* A request that does not begin to decide an application leaves one decider
\* for each.
LEMMA DecidersKept ==
    ASSUME SoleDecider, NEW t \in Request, Frame(t),
           job'[t].op \notin Deciding \/ job'[t] = job[t]
    PROVE  SoleDecider'
<1> SUFFICES ASSUME NEW u \in Request, NEW v \in Request,
                    job'[u].op \in Deciding, job'[v].op \in Deciding, job'[u].n = job'[v].n
             PROVE  u = v
  BY DEF SoleDecider
<1>1. job'[u] = job[u] /\ job'[v] = job[v]
  BY DEF Frame
<1> QED
  BY <1>1 DEF SoleDecider

\* A transaction that ends keeps the invariant if what it wrote does.
LEMMA EndKeeps ==
    ASSUME IInv, NEW t \in Request, End(t), DataOK', Effects(t), DataInv'
    PROVE  IInv'
<1>1. ControlOK /\ SoleDecider
  BY DEF IInv
<1>2. /\ ControlOK' /\ Frame(t) /\ JobShape(t)' /\ LockShape(t)' /\ LabelShape(t)'
      /\ job'[t].op = "none"
  BY <1>1, EndControl
<1>3. SoleDecider'
  BY <1>1, <1>2, DecidersKept DEF Deciding
<1> QED
  BY <1>2, <1>3, StepKeeps

\* A transaction that ends without writing keeps it.
LEMMA RefuseKeeps == ASSUME IInv, NEW t \in Request, Refuse(t) PROVE IInv'
BY NoEffects, SameData, EndKeeps DEF Refuse, IInv, DataInv

\* A step that reads or takes a lock keeps it if what it reads is so.
LEMMA WaitKeeps ==
    ASSUME IInv, NEW t \in Request, UNCHANGED data, ControlOK', Frame(t),
           job'[t].op \notin Deciding \/ job'[t] = job[t],
           JobShape(t)', LockShape(t)', LabelShape(t)'
    PROVE  IInv'
<1>1. DataOK /\ SoleDecider /\ DataInv
  BY DEF IInv, DataInv
<1>2. SoleDecider'
  BY <1>1, DecidersKept
<1> QED
  BY <1>1, <1>2, NoEffects, SameData, StepKeeps

-----------------------------------------------------------------------------
(* The beginning of a request.                                             *)

\* What a first read establishes.
LEMMA StartStep ==
    ASSUME ControlOK, NEW t \in Request, NEW request \in Job, NEW read \in Read,
           NEW label \in {"club", "capacity", "owner", "write"}, Start(t, request, read, label),
           label = "write" => request.op \in {"role", "apply", "settle"},
           request.op = "cap" => label = "capacity",
           request.op = "owner" => label = "club",
           request.op = "settle" => label = "write",
           request.op = "status" /\ label = "capacity" => request.to = "active"
    PROVE  /\ ControlOK' /\ Frame(t) /\ LockShape(t)' /\ LabelShape(t)' /\ UNCHANGED data
           /\ pc'[t] = label /\ job'[t] = request /\ got'[t] = read
<1>1. /\ pc' = [pc EXCEPT ![t] = label]
      /\ job' = [job EXCEPT ![t] = request]
      /\ got' = [got EXCEPT ![t] = read]
      /\ UNCHANGED data
      /\ clubLock' = clubLock
      /\ capLock' = capLock
      /\ pc[t] = "idle"
      /\ request.op \in AllOps
  BY RosterAssumption DEF Start
<1>2. pc'[t] = label /\ job'[t] = request /\ got'[t] = read
  BY <1>1 DEF ControlOK
<1>3. clubLock # t /\ capLock # t
  BY <1>1, RosterAssumption DEF ControlOK
<1>4. ControlOK'
  BY <1>1, <1>3 DEF ControlOK, Label, Job, Read, Live, Gone, Role, Open, Closed, AllOps
<1>5. Frame(t)
  BY <1>1 DEF ControlOK, Frame
<1>6. LockShape(t)'
  BY <1>1, <1>2, <1>3
  DEF LockShape, StatusLock, InsertLock, OwnerLock, CapLock, Counted, Reserved, ClubHolder, Doing
<1>7. LabelShape(t)'
  BY <1>1, <1>2 DEF LabelShape, AllOps, Label
<1> QED
  BY <1>1, <1>2, <1>4, <1>5, <1>6, <1>7

\* A first read that is not of an application keeps the invariant.
LEMMA StartKeeps ==
    ASSUME IInv, NEW t \in Request, NEW request \in Job, NEW read \in Read,
           NEW label \in {"club", "capacity", "owner", "write"}, Start(t, request, read, label),
           label = "write" => request.op \in {"role", "apply", "settle"},
           request.op = "cap" => label = "capacity",
           request.op = "owner" => label = "club",
           request.op = "settle" => label = "write",
           request.op = "status" /\ label = "capacity" => request.to = "active",
           request.op \notin Deciding,
           (/\ job'[t] = request /\ got'[t] = read /\ pc'[t] = label
            /\ UNCHANGED data) => JobShape(t)'
    PROVE  IInv'
<1>1. ControlOK
  BY DEF IInv
<1>2. /\ ControlOK' /\ Frame(t) /\ LockShape(t)' /\ LabelShape(t)' /\ UNCHANGED data
      /\ pc'[t] = label /\ job'[t] = request /\ got'[t] = read
  BY <1>1, StartStep
<1> QED
  BY <1>2, WaitKeeps

\* A request for a status reads a row of its member.
LEMMA ReadForStatusKeeps == ASSUME IInv, NEW t \in Request, ReadForStatus(t) PROVE IInv'
<1>1. PICK m \in Member, to \in Live \cup Gone, r \in RowId :
        /\ r \in RowsOf(m)
        /\ to = "active" => row[r].status \in Gone
        /\ Start(t, [op |-> "status", member |-> m, to |-> to, n |-> 0],
                 [row |-> r, status |-> row[r].status, version |-> row[r].version],
                 IF to = "active" THEN "capacity" ELSE "club")
  BY DEF ReadForStatus, RowsOf
<1> DEFINE request == [op |-> "status", member |-> m, to |-> to, n |-> 0]
           read == [row |-> r, status |-> row[r].status, version |-> row[r].version]
           label == IF to = "active" THEN "capacity" ELSE "club"
<1>2. r \in RowId /\ row[r].member = m
  BY <1>1 DEF RowsOf
<1>3. row[r] \in Membership
  BY <1>2, RowOfMember DEF IInv
<1>4. request \in Job
  BY DEF Job, AllOps
<1>5. read \in Read
  BY <1>2, <1>3 DEF Read, Membership, RowId
<1>6. /\ label \in {"club", "capacity", "owner", "write"} /\ label # "write"
      /\ label = "capacity" => request.to = "active"
  BY DEF Label
<1>7. Start(t, request, read, label)
  BY <1>1
<1>8. ASSUME job'[t] = request, got'[t] = read, UNCHANGED data PROVE JobShape(t)'
  <2>1. row' = row
    BY <1>8 DEF data
  <2>2. RowRead(t)'
    BY <1>2, <1>8, <2>1 DEF RowRead, RowId
  <2>3. Fresh(t)'
    BY <1>3, <1>8, <2>1 DEF Fresh, Membership
  <2>4. StatusJob(t)'
    BY <1>1, <1>3, <1>8, <2>2, <2>3 DEF StatusJob, Membership, Live, Gone
  <2> QED
    BY <1>8, <2>4 DEF JobShape, RoleJob, OwnerJob, CapJob, AddJob, ApplyJob, AcceptJob, SettleJob
<1> QED
  <2> HIDE DEF request, read, label
  <2>1. request.op = "status"
    BY DEF request
  <2> QED
    BY <1>4, <1>5, <1>6, <1>7, <1>8, <2>1, StartKeeps DEF Deciding

\* So does a request for a role.
LEMMA ReadForRoleKeeps == ASSUME IInv, NEW t \in Request, ReadForRole(t) PROVE IInv'
<1>1. PICK m \in Member, to \in Role, r \in RowId :
        /\ r \in RowsOf(m)
        /\ Start(t, [op |-> "role", member |-> m, to |-> to, n |-> 0],
                 [row |-> r, status |-> row[r].status, version |-> row[r].version],
                 IF to = "member" THEN "owner" ELSE "write")
  BY DEF ReadForRole, RowsOf
<1> DEFINE request == [op |-> "role", member |-> m, to |-> to, n |-> 0]
           read == [row |-> r, status |-> row[r].status, version |-> row[r].version]
           label == IF to = "member" THEN "owner" ELSE "write"
<1>2. r \in RowId /\ row[r].member = m
  BY <1>1 DEF RowsOf
<1>3. row[r] \in Membership
  BY <1>2, RowOfMember DEF IInv
<1>4. request \in Job
  BY DEF Job, AllOps
<1>5. read \in Read
  BY <1>2, <1>3 DEF Read, Membership, RowId
<1>6. label \in {"club", "capacity", "owner", "write"}
  BY DEF Label
<1>7. Start(t, request, read, label)
  BY <1>1
<1>8. ASSUME job'[t] = request, got'[t] = read, UNCHANGED data PROVE JobShape(t)'
  <2>1. RowRead(t)'
    BY <1>2, <1>8 DEF RowRead, RowId, data
  <2>2. RoleJob(t)'
    BY <1>8, <2>1 DEF RoleJob, Role
  <2> QED
    BY <1>8, <2>2 DEF JobShape, StatusJob, OwnerJob, CapJob, AddJob, ApplyJob, AcceptJob,
       SettleJob
<1> QED
  <2> HIDE DEF request, read, label
  <2>1. request.op = "role"
    BY DEF request
  <2> QED
    BY <1>4, <1>5, <1>6, <1>7, <1>8, <2>1, StartKeeps DEF Deciding

\* Requests that read no row: a transfer, a cap, an addition, an application.
LEMMA OtherReadsKeep ==
    ASSUME IInv, NEW t \in Request,
           ReadForOwner(t) \/ AskForCap(t) \/ ReadForAdd(t) \/ ReadForApply(t)
    PROVE  IInv'
<1>0. NoRead \in Read /\ clubVersion \in Nat /\ Caps \subseteq Nat
  BY RosterAssumption DEF NoRead, Read, IInv, DataOK
<1>1. CASE ReadForOwner(t)
  <2>1. PICK m \in Member :
          Start(t, [op |-> "owner", member |-> m, to |-> "none", n |-> 0],
                [NoRead EXCEPT !.version = clubVersion], "club")
    BY <1>1 DEF ReadForOwner
  <2> DEFINE request == [op |-> "owner", member |-> m, to |-> "none", n |-> 0]
             read == [NoRead EXCEPT !.version = clubVersion]
  <2>2. request \in Job /\ request.op = "owner" /\ request.member = m
    BY DEF Job, AllOps
  <2>3. read \in Read
    BY <1>0 DEF Read, NoRead
  <2> HIDE DEF request, read
  <2>4. ASSUME job'[t] = request, pc'[t] = "club" PROVE JobShape(t)'
    BY <2>2, <2>4 DEF JobShape, StatusJob, RoleJob, OwnerJob, CapJob, AddJob, ApplyJob,
       AcceptJob, SettleJob
  <2> QED
    BY <2>1, <2>2, <2>3, <2>4, StartKeeps DEF Label, Deciding, request, read
<1>2. CASE AskForCap(t)
  <2>1. PICK n \in Caps :
          Start(t, [op |-> "cap", member |-> Nobody, to |-> "none", n |-> n], NoRead, "capacity")
    BY <1>2 DEF AskForCap
  <2> DEFINE request == [op |-> "cap", member |-> Nobody, to |-> "none", n |-> n]
  <2>2. request \in Job /\ request.op = "cap" /\ request.n = n
    BY <1>0 DEF Job, AllOps
  <2> HIDE DEF request
  <2>4. ASSUME job'[t] = request PROVE JobShape(t)'
    BY <2>2, <2>4 DEF JobShape, StatusJob, RoleJob, OwnerJob, CapJob, AddJob, ApplyJob,
       AcceptJob, SettleJob
  <2> QED
    BY <1>0, <2>1, <2>2, <2>4, StartKeeps DEF Label, Deciding, request
<1>3. CASE ReadForAdd(t)
  <2>1. PICK m \in Member, role \in Role :
          Start(t, [op |-> "add", member |-> m, to |-> role, n |-> 0], NoRead, "capacity")
    BY <1>3 DEF ReadForAdd
  <2> DEFINE request == [op |-> "add", member |-> m, to |-> role, n |-> 0]
  <2>2. request \in Job /\ request.op = "add" /\ request.member = m /\ request.to = role
    BY DEF Job, AllOps
  <2> HIDE DEF request
  <2>4. ASSUME job'[t] = request PROVE JobShape(t)'
    BY <2>2, <2>4
    DEF JobShape, StatusJob, RoleJob, OwnerJob, CapJob, AddJob, ApplyJob, AcceptJob, SettleJob,
        Role
  <2> QED
    BY <1>0, <2>1, <2>2, <2>4, StartKeeps DEF Label, Deciding, request
<1>4. CASE ReadForApply(t)
  <2>1. PICK m \in Member :
          Start(t, [op |-> "apply", member |-> m, to |-> "none", n |-> 0], NoRead, "write")
    BY <1>4, RosterAssumption DEF ReadForApply
  <2> DEFINE request == [op |-> "apply", member |-> m, to |-> "none", n |-> 0]
  <2>2. request \in Job /\ request.op = "apply" /\ request.member = m
    BY DEF Job, AllOps
  <2> HIDE DEF request
  <2>4. ASSUME job'[t] = request PROVE JobShape(t)'
    BY <2>2, <2>4 DEF JobShape, StatusJob, RoleJob, OwnerJob, CapJob, AddJob, ApplyJob,
       AcceptJob, SettleJob
  <2> QED
    BY <1>0, <2>1, <2>2, <2>4, StartKeeps DEF Label, Deciding, request
<1> QED
  BY <1>1, <1>2, <1>3, <1>4

\* An application that nobody decides gets one decider.
LEMMA DeciderAdded ==
    ASSUME IInv, NEW t \in Request, NEW a \in AppId, AppUnlocked(a), Frame(t),
           job'[t].op \in Deciding, job'[t].n = a
    PROVE  SoleDecider'
<1>1. ASSUME NEW u \in Request \ {t}, job[u].op \in Deciding PROVE job[u].n # a
  <2>1. pc[u] # "idle"
    BY <1>1 DEF IInv, LabelShape, Deciding
  <2> QED
    BY <1>1, <2>1 DEF AppUnlocked, Deciding
<1>2. ASSUME NEW u \in Request, NEW v \in Request, job'[u].op \in Deciding,
             job'[v].op \in Deciding, job'[u].n = job'[v].n
      PROVE  u = v
  <2>1. CASE u = t /\ v # t
    BY <1>1, <1>2, <2>1 DEF Frame
  <2>2. CASE u # t /\ v = t
    BY <1>1, <1>2, <2>2 DEF Frame
  <2>3. CASE u # t /\ v # t
    BY <1>2, <2>3 DEF Frame, IInv, SoleDecider
  <2> QED
    BY <2>1, <2>2, <2>3
<1> QED
  BY <1>2 DEF SoleDecider

\* A revision, a withdrawal, a decline or a ban locks an open application that
\* nobody else decides.
LEMMA LockForSettlingKeeps == ASSUME IInv, NEW t \in Request, LockForSettling(t) PROVE IInv'
<1>1. PICK a \in AppId, to \in {"awaiting_review", "withdrawn", "declined", "banned"} :
        /\ app[a].phase \in Open
        /\ AppUnlocked(a)
        /\ Start(t, [op |-> "settle", member |-> app[a].member, to |-> to, n |-> a],
                 NoRead, "write")
  BY DEF LockForSettling
<1> DEFINE request == [op |-> "settle", member |-> app[a].member, to |-> to, n |-> a]
<1>2. app[a].member \in Member
  BY <1>1 DEF IInv, DataOK, Application, NoApp, Open
<1>3. request \in Job
  BY <1>2 DEF Job, AllOps, Open, Closed, AppId
<1>4. request.op = "settle" /\ request.member = app[a].member /\ request.n = a /\ request.to = to
  OBVIOUS
<1>5. Start(t, request, NoRead, "write") /\ ControlOK /\ DataOK /\ NoRead \in Read
  BY <1>1, RosterAssumption DEF IInv, NoRead, Read
<1> HIDE DEF request
<1>6. /\ ControlOK' /\ Frame(t) /\ LockShape(t)' /\ LabelShape(t)' /\ UNCHANGED data
      /\ pc'[t] = "write" /\ job'[t] = request /\ got'[t] = NoRead
  BY <1>3, <1>4, <1>5, StartStep
<1>7. JobShape(t)'
  <2>1. app' = app
    BY <1>6 DEF data
  <2>2. SettleJob(t)'
    BY <1>1, <1>2, <1>4, <1>6, <2>1 DEF SettleJob, AppId, Open
  <2> QED
    BY <1>4, <1>6, <2>2
    DEF JobShape, StatusJob, RoleJob, OwnerJob, CapJob, AddJob, ApplyJob, AcceptJob
<1>8. SoleDecider'
  BY <1>1, <1>4, <1>6, DeciderAdded DEF Deciding
<1>9. DataInv'
  BY <1>6, SameData DEF IInv, DataInv
<1> QED
  BY <1>5, <1>6, <1>7, <1>8, <1>9, NoEffects, StepKeeps

\* A decision to accept locks an application nobody else decides, and reads
\* the membership it would reactivate.
LEMMA LockForAcceptKeeps == ASSUME IInv, NEW t \in Request, LockForAccept(t) PROVE IInv'
<1>1. PICK a \in AppId :
        /\ app[a].phase = "awaiting_review"
        /\ AppUnlocked(a)
        /\ \E read \in Read :
             /\ read.row # 0 =>
                    /\ read.row \in LiveRows(app[a].member)
                    /\ row[read.row].status = "cancelled"
                    /\ read.status = "cancelled"
                    /\ read.version = row[read.row].version
             /\ Start(t, [op |-> "accept", member |-> app[a].member, to |-> "active", n |-> a],
                      read, "capacity")
  <2>1. PICK a \in AppId :
          /\ app[a].phase = "awaiting_review"
          /\ AppUnlocked(a)
          /\ \/ Start(t, [op |-> "accept", member |-> app[a].member, to |-> "active", n |-> a],
                      NoRead, "capacity")
             \/ \E r \in LiveRows(app[a].member) :
                  /\ row[r].status = "cancelled"
                  /\ Start(t, [op |-> "accept", member |-> app[a].member, to |-> "active",
                               n |-> a],
                           [row |-> r, status |-> "cancelled", version |-> row[r].version],
                           "capacity")
    BY DEF LockForAccept
  <2>2. NoRead \in Read /\ NoRead.row = 0
    BY RosterAssumption DEF NoRead, Read
  <2>3. ASSUME NEW r \in LiveRows(app[a].member), row[r].status = "cancelled"
        PROVE  [row |-> r, status |-> "cancelled", version |-> row[r].version] \in Read
    <3>1. r \in RowId /\ row[r] # NoRow
      BY <2>3 DEF LiveRows, RowsOf, NoRow
    <3>2. row[r] \in Membership
      BY <3>1 DEF IInv, DataOK
    <3> QED
      BY <3>1, <3>2 DEF Read, Membership, RowId, Live
  <2> QED
    BY <2>1, <2>2, <2>3
<1>2. PICK read \in Read :
        /\ read.row # 0 =>
               /\ read.row \in LiveRows(app[a].member)
               /\ row[read.row].status = "cancelled"
               /\ read.status = "cancelled"
               /\ read.version = row[read.row].version
        /\ Start(t, [op |-> "accept", member |-> app[a].member, to |-> "active", n |-> a],
                 read, "capacity")
  BY <1>1
<1> DEFINE request == [op |-> "accept", member |-> app[a].member, to |-> "active", n |-> a]
<1>3. app[a].member \in Member
  <2>1. app[a] # NoApp
    BY <1>1 DEF NoApp
  <2> QED
    BY <2>1 DEF IInv, DataOK, Application
<1>4. request \in Job
  BY <1>3 DEF Job, AllOps, Live, AppId
<1>5. request.op = "accept" /\ request.member = app[a].member /\ request.n = a
  OBVIOUS
<1>6. Start(t, request, read, "capacity") /\ ControlOK /\ DataOK
  BY <1>2 DEF IInv
<1> HIDE DEF request
<1>7. /\ ControlOK' /\ Frame(t) /\ LockShape(t)' /\ LabelShape(t)' /\ UNCHANGED data
      /\ pc'[t] = "capacity" /\ job'[t] = request /\ got'[t] = read
  BY <1>4, <1>5, <1>6, StartStep DEF Label
<1>8. JobShape(t)'
  <2>1. row' = row /\ app' = app
    BY <1>7 DEF data
  <2>2. read.row # 0 => RowRead(t)' /\ Fresh(t)'
    <3> SUFFICES ASSUME read.row # 0 PROVE RowRead(t)' /\ Fresh(t)'
      OBVIOUS
    <3>1. read.row \in RowId /\ row[read.row].member = app[a].member
      BY <1>2 DEF LiveRows, RowsOf
    <3>2. row[read.row] \in Membership
      BY <1>3, <1>6, <3>1, RowOfMember
    <3> QED
      BY <1>2, <1>3, <1>5, <1>7, <2>1, <3>1, <3>2 DEF RowRead, Fresh, RowId, Membership
  <2>3. AcceptJob(t)'
    BY <1>1, <1>2, <1>3, <1>5, <1>7, <2>1, <2>2 DEF AcceptJob, AppId
  <2> QED
    BY <1>5, <1>7, <2>3 DEF JobShape, StatusJob, RoleJob, OwnerJob, CapJob, AddJob, ApplyJob,
       SettleJob
<1>9. SoleDecider'
  BY <1>1, <1>5, <1>7, DeciderAdded DEF Deciding
<1>10. DataInv'
  BY <1>7, SameData DEF IInv, DataInv
<1> QED
  BY <1>6, <1>7, <1>8, <1>9, <1>10, NoEffects, StepKeeps

-----------------------------------------------------------------------------
(* Locks.                                                                  *)

\* A request that goes on without new knowledge of rows stays as it was asked.
LEMMA SameJob ==
    ASSUME IInv, NEW t \in Request, UNCHANGED data, job'[t] = job[t], got'[t] = got[t],
           job[t].op = "owner" => pc'[t] # "write"
    PROVE  JobShape(t)'
<1>1. JobShape(t) /\ row' = row /\ app' = app
  BY DEF IInv, data
<1> QED
  BY <1>1 DEF JobShape, StatusJob, RoleJob, OwnerJob, CapJob, AddJob, ApplyJob, AcceptJob,
     SettleJob,
     RowRead, Fresh, Live, Gone, Role, RowId, AppId

\* Taking a free lock on the way to label, as every waiting request does.
LEMMA LockStep ==
    ASSUME ControlOK, NEW t \in Request,
           NEW label \in {"club", "write", "fanout", "announce"}, Goto(t, label),
           job' = job, got' \in [Request -> Read],
           \A u \in Request \ {t} : got'[u] = got[u],
           \/ clubLock' = clubLock /\ clubLock # t
           \/ clubLock = Nobody /\ clubLock' = t /\ label = "write",
           \/ capLock' = capLock
           \/ capLock = Nobody /\ capLock' = t,
           label = "announce" => capLock' # t
    PROVE  ControlOK' /\ Frame(t) /\ pc'[t] = label
<1>1. t # Nobody
  BY RosterAssumption
<1>2. pc' = [pc EXCEPT ![t] = label] /\ pc'[t] = label
  BY DEF Goto, ControlOK
<1>3. ControlOK'
  BY <1>1, <1>2 DEF ControlOK, Label, Job, Read, Live, Gone, Role, Open, Closed, AllOps
<1>4. Frame(t)
  BY <1>1, <1>2, RosterAssumption DEF Frame, ControlOK
<1> QED
  BY <1>2, <1>3, <1>4

\* The capacity lock with room under the cap, or a refusal.
LEMMA AssertClubHasCapacityKeeps ==
    ASSUME IInv, NEW t \in Request, AssertClubHasCapacity(t) PROVE IInv'
<1>1. CASE Refuse(t)
  BY <1>1, RefuseKeeps
<1>2. CASE /\ HasCapacity /\ capLock' = t /\ Goto(t, "write")
           /\ UNCHANGED <<data, job, got, clubLock>>
  <2>1. /\ pc[t] = "capacity" /\ job[t].op # "cap" /\ capLock = Nobody
        /\ UNCHANGED data /\ job' = job /\ got' = got /\ clubLock' = clubLock
    BY <1>2 DEF AssertClubHasCapacity, CapacityFree
  <2>2. ControlOK /\ LabelShape(t) /\ clubLock # t /\ t # Nobody
    BY <2>1, RosterAssumption DEF IInv, ControlOK
  <2>3. ControlOK' /\ Frame(t) /\ pc'[t] = "write"
    BY <1>2, <2>1, <2>2, LockStep DEF ControlOK
  <2>4. job[t].op \notin {"owner", "settle"} /\ (job[t].op = "status" => job[t].to = "active")
    BY <2>1, <2>2 DEF LabelShape
  <2>5. JobShape(t)'
    BY <2>1, <2>4, SameJob
  <2>6. HasCapacity'
    BY <1>2, <2>1 DEF HasCapacity, data, Active, RowId
  <2>7. LockShape(t)'
    BY <1>2, <2>1, <2>2, <2>3, <2>4, <2>6
    DEF LockShape, StatusLock, InsertLock, OwnerLock, CapLock, Counted, Reserved, ClubHolder,
        Doing
  <2>8. LabelShape(t)'
    BY <2>1, <2>2, <2>3 DEF LabelShape
  <2> QED
    BY <2>1, <2>3, <2>5, <2>7, <2>8, WaitKeeps
<1> QED
  BY <1>1, <1>2 DEF AssertClubHasCapacity

\* The state version of an activation: the number was free, and is taken now.
LEMMA InsertActiveVersionKeeps ==
    ASSUME IInv, NEW t \in Request, InsertActiveVersion(t) PROVE IInv'
<1>1. CASE Refuse(t)
  BY <1>1, RefuseKeeps
<1>2. CASE /\ VersionFree(t) /\ Goto(t, "fanout")
           /\ UNCHANGED <<data, job, got, clubLock, capLock>>
  <2>1. /\ pc[t] = "write" /\ UNCHANGED data
        /\ job' = job /\ got' = got /\ clubLock' = clubLock /\ capLock' = capLock
        /\ \/ job[t].op = "status" /\ job[t].to = "active"
           \/ job[t].op = "accept" /\ got[t].row # 0
    BY <1>2 DEF InsertActiveVersion
  <2>2. ControlOK /\ LabelShape(t) /\ LockShape(t)
    BY DEF IInv
  <2>3. clubLock # t /\ capLock = t
    BY <2>1, <2>2 DEF LockShape, ClubHolder, StatusLock, InsertLock, Doing
  <2>4. ControlOK' /\ Frame(t) /\ pc'[t] = "fanout"
    BY <1>2, <2>1, <2>2, <2>3, LockStep DEF ControlOK
  <2>5. JobShape(t)'
    BY <2>1, <2>4, SameJob
  <2>6. VersionFree(t)' /\ HasCapacity'
    BY <1>2, <2>1, <2>2, <2>3
    DEF VersionFree, data, LockShape, Counted, HasCapacity, Active, RowId
  <2>7. LockShape(t)'
    <3>1. job'[t].op \in {"status", "accept"} /\ pc'[t] = "fanout"
      BY <2>1, <2>4
    <3>2. StatusLock(t)' /\ InsertLock(t)' /\ OwnerLock(t)' /\ CapLock(t)'
      BY <3>1 DEF StatusLock, InsertLock, OwnerLock, CapLock, Doing
    <3>3. Counted(t)'
      BY <2>6, <3>1 DEF Counted
    <3>4. Reserved(t)' /\ ClubHolder(t)'
      BY <2>1, <2>3, <2>4, <2>6 DEF Reserved, ClubHolder
    <3> QED
      BY <3>2, <3>3, <3>4 DEF LockShape
  <2>8. LabelShape(t)'
    BY <2>1, <2>2, <2>4 DEF LabelShape
  <2> QED
    BY <2>1, <2>4, <2>5, <2>7, <2>8, WaitKeeps
<1> QED
  BY <1>1, <1>2 DEF InsertActiveVersion

\* The row of the club, for a status change that the owner is not the target of.
LEMMA LockClubForStatusKeeps ==
    ASSUME IInv, NEW t \in Request, LockClubForStatus(t) PROVE IInv'
<1>1. CASE Refuse(t)
  BY <1>1, RefuseKeeps
<1>2. CASE /\ ~OwnerProtected(t) /\ <<got[t].status, job[t].to>> \in AdminTransition
           /\ clubLock' = t /\ Goto(t, "write")
           /\ UNCHANGED <<data, job, got, capLock>>
  <2>1. /\ pc[t] = "club" /\ job[t].op = "status" /\ clubLock = Nobody
        /\ UNCHANGED data /\ job' = job /\ got' = got /\ capLock' = capLock
    BY <1>2 DEF LockClubForStatus, Doing
  <2>2. ControlOK /\ LabelShape(t)
    BY DEF IInv
  <2>3. ControlOK' /\ Frame(t) /\ pc'[t] = "write"
    BY <1>2, <2>1, <2>2, LockStep DEF ControlOK
  <2>4. JobShape(t)'
    BY <2>1, SameJob
  <2>5. owner' = owner /\ owner # job[t].member /\ job[t].to # "active"
    BY <1>2, <2>1 DEF data, OwnerProtected, AdminTransition
  <2>7. capLock # t
    BY <2>1 DEF IInv, LockShape, CapLock
  <2>8. LockShape(t)'
    BY <1>2, <2>1, <2>3, <2>5, <2>7
    DEF LockShape, StatusLock, InsertLock, OwnerLock, CapLock, Counted, Reserved, ClubHolder,
        Doing, AdminTransition
  <2>9. LabelShape(t)'
    BY <2>1, <2>2, <2>3 DEF LabelShape
  <2> QED
    BY <2>1, <2>3, <2>4, <2>8, <2>9, WaitKeeps
<1> QED
  BY <1>1, <1>2 DEF LockClubForStatus

\* The role of the owner's membership, read without a lock.
LEMMA CheckOwnerKeeps == ASSUME IInv, NEW t \in Request, CheckOwner(t) PROVE IInv'
<1>1. CASE Refuse(t)
  BY <1>1, RefuseKeeps
<1>2. CASE Goto(t, "write") /\ UNCHANGED <<data, job, got, clubLock, capLock>>
  <2>1. /\ pc[t] = "owner" /\ job[t].op = "role"
        /\ UNCHANGED data /\ job' = job /\ got' = got /\ clubLock' = clubLock /\ capLock' = capLock
    BY <1>2 DEF CheckOwner, Doing
  <2>2. ControlOK /\ LabelShape(t) /\ clubLock # t /\ capLock # t
    BY <2>1, RosterAssumption DEF IInv, ControlOK
  <2>3. ControlOK' /\ Frame(t) /\ pc'[t] = "write"
    BY <1>2, <2>1, <2>2, LockStep DEF ControlOK
  <2>4. JobShape(t)'
    BY <2>1, SameJob
  <2>5. LockShape(t)'
    BY <2>1, <2>2, <2>3
    DEF LockShape, StatusLock, InsertLock, OwnerLock, CapLock, Counted, Reserved, ClubHolder,
        Doing
  <2>6. LabelShape(t)'
    BY <2>1, <2>2, <2>3 DEF LabelShape
  <2> QED
    BY <2>1, <2>3, <2>4, <2>5, <2>6, WaitKeeps
<1> QED
  BY <1>1, <1>2 DEF CheckOwner

\* The row of the club, for a transfer to a member with an active membership.
LEMMA LockClubForOwnerKeeps ==
    ASSUME IInv, NEW t \in Request, LockClubForOwner(t) PROVE IInv'
<1>1. CASE Refuse(t)
  BY <1>1, RefuseKeeps
<1>2. CASE /\ clubLock' = t
           /\ \E r \in Eligible(job[t].member) : got' = [got EXCEPT ![t].row = r]
           /\ Goto(t, "write")
           /\ UNCHANGED <<data, job, capLock>>
  <2>1. /\ pc[t] = "club" /\ job[t].op = "owner" /\ clubLock = Nobody
        /\ UNCHANGED data /\ job' = job /\ capLock' = capLock
    BY <1>2 DEF LockClubForOwner, Doing
  <2>2. ControlOK /\ LabelShape(t) /\ capLock # t
    BY <2>1 DEF IInv, LockShape, CapLock
  <2>3. PICK r \in RowId : /\ row[r].member = job[t].member
                          /\ row[r].status = "active"
                          /\ got' = [got EXCEPT ![t].row = r]
    BY <1>2 DEF Eligible, RowsOf, Active
  <2>4. got'[t].row = r /\ got' \in [Request -> Read]
        /\ \A u \in Request \ {t} : got'[u] = got[u]
    BY <2>2, <2>3 DEF ControlOK, Read, RowId
  <2>5. ControlOK' /\ Frame(t) /\ pc'[t] = "write"
    BY <1>2, <2>1, <2>2, <2>4, LockStep
  <2>6. JobShape(t)'
    <3>1. JobShape(t) /\ row' = row
      BY <2>1 DEF IInv, data
    <3>2. job[t].member \in Member
      BY <2>1, <3>1 DEF JobShape, OwnerJob
    <3>3. RowRead(t)' /\ row'[got'[t].row].status = "active"
      BY <2>1, <2>3, <2>4, <3>1, <3>2 DEF RowRead, RowId
    <3>4. OwnerJob(t)'
      BY <2>1, <3>2, <3>3 DEF OwnerJob
    <3> QED
      BY <2>1, <3>4 DEF JobShape, StatusJob, RoleJob, CapJob, AddJob, ApplyJob, AcceptJob,
         SettleJob
  <2>7. LockShape(t)'
    BY <1>2, <2>1, <2>2, <2>5
    DEF LockShape, StatusLock, InsertLock, OwnerLock, CapLock, Counted, Reserved, ClubHolder,
        Doing
  <2>8. LabelShape(t)'
    BY <2>1, <2>2, <2>5 DEF LabelShape
  <2> QED
    BY <2>1, <2>5, <2>6, <2>7, <2>8, WaitKeeps
<1> QED
  BY <1>1, <1>2 DEF LockClubForOwner

\* The capacity lock, for a new cap.
LEMMA LockCapacityKeeps == ASSUME IInv, NEW t \in Request, LockCapacity(t) PROVE IInv'
<1>1. /\ pc[t] = "capacity" /\ job[t].op = "cap" /\ capLock = Nobody /\ capLock' = t
      /\ UNCHANGED data /\ job' = job /\ clubLock' = clubLock /\ Goto(t, "club")
      /\ got' = [got EXCEPT ![t].version = clubVersion]
  BY DEF LockCapacity, Doing, CapacityFree
<1>2. ControlOK /\ LabelShape(t) /\ clubLock # t
  BY <1>1, RosterAssumption DEF IInv, ControlOK
<1>3. got' \in [Request -> Read] /\ \A u \in Request \ {t} : got'[u] = got[u]
  <2>1. clubVersion \in Nat
    BY DEF IInv, DataOK
  <2> QED
    BY <1>1, <1>2, <2>1 DEF ControlOK, Read
<1>4. ControlOK' /\ Frame(t) /\ pc'[t] = "club"
  BY <1>1, <1>2, <1>3, LockStep
<1>5. JobShape(t)'
  <2>1. CapJob(t)
    BY DEF IInv, JobShape
  <2> QED
    BY <1>1, <2>1 DEF JobShape, StatusJob, RoleJob, OwnerJob, CapJob, AddJob, ApplyJob,
       AcceptJob, SettleJob
<1>6. LockShape(t)'
  BY <1>1, <1>4 DEF LockShape, StatusLock, InsertLock, OwnerLock, CapLock, Counted, Reserved,
     ClubHolder, Doing
<1>7. LabelShape(t)'
  BY <1>1, <1>2, <1>4 DEF LabelShape
<1> QED
  BY <1>1, <1>4, <1>5, <1>6, <1>7, WaitKeeps

\* The row of the club, for a new cap that the active members fit.
LEMMA LockClubForCapKeeps == ASSUME IInv, NEW t \in Request, LockClubForCap(t) PROVE IInv'
<1>1. CASE Refuse(t)
  BY <1>1, RefuseKeeps
<1>2. CASE /\ ~(Cardinality(Active) > job[t].n)
           /\ clubLock' = t /\ Goto(t, "write")
           /\ UNCHANGED <<data, job, got, capLock>>
  <2>1. /\ pc[t] = "club" /\ job[t].op = "cap" /\ clubLock = Nobody
        /\ UNCHANGED data /\ job' = job /\ got' = got /\ capLock' = capLock
    BY <1>2 DEF LockClubForCap, Doing
  <2>2. ControlOK /\ LabelShape(t) /\ capLock = t
    BY <2>1 DEF IInv, LockShape, CapLock
  <2>3. ControlOK' /\ Frame(t) /\ pc'[t] = "write"
    BY <1>2, <2>1, <2>2, LockStep DEF ControlOK
  <2>4. JobShape(t)'
    BY <2>1, SameJob
  <2>5. Cardinality(Active') <= job[t].n
    <3>1. Active' = Active
      BY <2>1 DEF data, Active, RowId
    <3>2. job[t].n \in Nat
      BY <2>2 DEF ControlOK, Job
    <3> QED
      BY <1>2, <3>1, <3>2, ActiveCount
  <2>6. LockShape(t)'
    BY <1>2, <2>1, <2>2, <2>3, <2>5
    DEF LockShape, StatusLock, InsertLock, OwnerLock, CapLock, Counted, Reserved, ClubHolder,
        Doing
  <2>7. LabelShape(t)'
    BY <2>1, <2>2, <2>3 DEF LabelShape
  <2> QED
    BY <2>1, <2>3, <2>4, <2>6, <2>7, WaitKeeps
<1> QED
  BY <1>1, <1>2 DEF LockClubForCap

-----------------------------------------------------------------------------
(* Writes.                                                                 *)

\* Only row r changes, and becomes new.
OneRow(r, new) ==
    /\ row' \in [RowId -> Membership \cup {NoRow}]
    /\ row'[r] = new
    /\ \A q \in RowId \ {r} : row'[q] = row[q]

\* A new state version of a membership, of its member, keeps what was read.
LEMMA VersionKeepsRows ==
    ASSUME DataOK, NEW r \in RowId, NEW new \in Membership, OneRow(r, new),
           row[r] \in Membership => /\ new.member = row[r].member
                                   /\ \/ new.version = row[r].version + 1
                                      \/ new.version = row[r].version /\ new.status = row[r].status
    PROVE  RowsKept
<1> SUFFICES ASSUME NEW q \in RowId, row[q] # NoRow
             PROVE  /\ row'[q].member = row[q].member
                    /\ row'[q].version \in Nat
                    /\ row[q].version <= row'[q].version
                    /\ row'[q].version = row[q].version => row'[q].status = row[q].status
  BY DEF RowsKept
<1>1. row[q] \in Membership /\ row[q].version \in Nat
  BY DEF DataOK, Membership
<1>2. CASE q = r
  BY <1>1, <1>2 DEF OneRow, Membership
<1>3. CASE q # r
  BY <1>1, <1>3 DEF OneRow
<1> QED
  BY <1>2, <1>3

\* The count stays within the cap when the step activates nothing, or one row
\* with the room that was counted under the lock.
LEMMA CapKept ==
    ASSUME DataOK, CapRespected, cap' = cap, NEW r,
           \/ Active' \subseteq Active
           \/ HasCapacity /\ Active' \subseteq Active \cup {r}
    PROVE  CapRespected'
<1>1. cap \in Nat
  BY RosterAssumption DEF DataOK
<1>2. CASE Active' \subseteq Active
  BY <1>1, <1>2, CountFalls, ActiveCount DEF CapRespected
<1>3. CASE HasCapacity /\ Active' \subseteq Active \cup {r}
  BY <1>1, <1>3, CountRisesByOne, ActiveCount DEF CapRespected, HasCapacity
<1> QED
  BY <1>2, <1>3

\* A status change that commits.
LEMMA StatusWritten ==
    ASSUME IInv, NEW t \in Request,
           \/ /\ Doing(t, "status", "write") /\ job[t].to # "active"
              /\ RowUnlocked(got[t].row) /\ VersionFree(t)
           \/ Doing(t, "status", "fanout"),
           End(t),
           row' = [row EXCEPT ![got[t].row].status = job[t].to, ![got[t].row].version = @ + 1],
           block' = [block EXCEPT ![job[t].member] = BlocksAfter(job[t].member, job[t].to)],
           app' = AppsAfter(got[t].row, job[t].to),
           UNCHANGED <<owner, clubVersion, cap>>
    PROVE  IInv'
<1> DEFINE r == got[t].row
           m == job[t].member
           to == job[t].to
           new == row'[r]
<1>1. /\ DataOK /\ ControlOK /\ DataInv
      /\ \A u \in Request : JobShape(u) /\ LockShape(u)
  BY DEF IInv, DataInv
<1>2. StatusJob(t) /\ StatusLock(t) /\ Counted(t) /\ Reserved(t)
  BY <1>1 DEF JobShape, LockShape
<1>a. /\ job[t].op = "status"
      /\ pc[t] = "fanout" => /\ to = "active" /\ capLock = t
                             /\ row[r].status \in Gone
      /\ pc[t] # "fanout" => /\ pc[t] = "write" /\ to # "active"
                             /\ RowUnlocked(r)
  BY <1>2 DEF Doing, Reserved, VersionFree, StatusJob, RowRead, Fresh
<1>3. /\ r \in RowId /\ m \in Member /\ row[r].member = m /\ to \in Live \cup Gone
  BY <1>2 DEF StatusJob, RowRead, Doing
<1>4. row[r] \in Membership
  BY <1>1, <1>3, RowOfMember
<1>5. /\ new \in Membership /\ new.member = m /\ new.status = to
      /\ new.version = row[r].version + 1
  BY <1>1, <1>3, <1>4 DEF DataOK, Membership
<1>6. OneRow(r, new)
  BY <1>1, <1>3, <1>5 DEF OneRow, DataOK
<1>7. \A q \in RowId : row'[q].status = IF q = r THEN to ELSE row[q].status
  BY <1>5, <1>6 DEF OneRow
<1>8. \A q \in RowId : row'[q].member = row[q].member
  BY <1>3, <1>5, <1>6 DEF OneRow
<1>9. owner' = owner /\ cap' = cap /\ clubVersion' = clubVersion
  OBVIOUS
<1> HIDE DEF r, m, to, new
<1>10. RowsKept
  BY <1>1, <1>3, <1>4, <1>5, <1>6, VersionKeepsRows
<1>11. TargetsKept(t)
  <2> SUFFICES ASSUME NEW u \in Request \ {t}, Doing(u, "owner", "write")
               PROVE  row'[got[u].row].status = row[got[u].row].status
    BY DEF TargetsKept
  <2>1. /\ got[u].row \in RowId /\ row[got[u].row].status = "active"
    BY <1>1 DEF JobShape, OwnerJob, RowRead, Doing
  <2>2. got[u].row # r
    BY <1>a, <2>1 DEF RowUnlocked, Gone
  <2> QED
    BY <1>7, <2>1, <2>2
<1>b. ReservedKept(t)
  <2> SUFFICES ASSUME NEW u \in Request \ {t}, pc[u] = "fanout"
               PROVE  row'[got[u].row].version = row[got[u].row].version
    BY DEF ReservedKept
  <2>1. capLock = u /\ got[u].row \in RowId
    BY <1>1 DEF LockShape, Reserved, JobShape, StatusJob, AcceptJob, RowRead
  <2>2. got[u].row # r
    BY <1>a, <2>1 DEF RowUnlocked, Activating
  <2> QED
    BY <1>6, <2>1, <2>2 DEF OneRow
<1>12. /\ app' = [a \in AppId |-> IF to \in Gone /\ app[a].membership = r
                                THEN [app[a] EXCEPT !.phase = to] ELSE app[a]]
       /\ 0 \notin RowId
  BY DEF AppsAfter, r, to, RowId
<1>13. AppsKept(t)
  <2> SUFFICES ASSUME NEW u \in Request \ {t}, job[u].op \in Deciding
               PROVE  app'[job[u].n] = app[job[u].n]
    BY DEF AppsKept
  <2>1. job[u].n \in AppId /\ app[job[u].n].phase \in Open
    BY <1>1 DEF JobShape, AcceptJob, SettleJob, Deciding, Open
  <2>2. app[job[u].n].membership = 0
    BY <2>1 DEF IInv, AppShape, AppShapeOf
  <2> QED
    BY <1>3, <1>12, <2>1, <2>2
<1>14. to # "active" => Active' \subseteq Active
  BY <1>7 DEF Active, RowId
<1>15. to = "active" => capLock = t /\ HasCapacity
  BY <1>2, <1>a DEF Counted
<1>16. Active' \subseteq Active \cup {r}
  BY <1>7 DEF Active, RowId
<1>17. Effects(t)
  BY <1>9, <1>10, <1>11, <1>b, <1>13, <1>14, <1>15 DEF Effects, OwnerKept, CountKept
<1>18. CapRespected'
  BY <1>1, <1>9, <1>14, <1>15, <1>16, CapKept DEF DataInv
<1>19. OwnerStaysActive'
  <2>1. PICK q \in RowId : row[q].member = owner /\ row[q].status = "active"
    BY <1>1 DEF DataInv, OwnerStaysActive, RowsOf, Active
  <2>2. to # "active" => owner # m
    BY <1>2, <1>a DEF StatusLock, Doing, to, m
  <2>3. row'[q].status = "active"
    BY <1>3, <1>7, <2>1, <2>2
  <2> QED
    BY <1>8, <1>9, <2>1, <2>3 DEF OwnerStaysActive, RowsOf, Active, RowId
<1>20. DataOK'
  <2>1. BlocksAfter(m, to) \in SUBSET BlockKind
    BY <1>1, <1>3 DEF BlocksAfter, DataOK, BlockKind, Gone
  <2>2. block' \in [Member -> SUBSET BlockKind]
    BY <1>1, <2>1 DEF DataOK, m, to
  <2>3. app' \in [AppId -> Application \cup {NoApp}]
    <3> SUFFICES ASSUME NEW a \in AppId PROVE app'[a] \in Application \cup {NoApp}
      BY <1>12 DEF AppId
    <3>1. CASE to \in Gone /\ app[a].membership = r
      <4>1. app[a] \in Application
        BY <1>1, <1>3, <1>12, <3>1 DEF DataOK, NoApp
      <4> QED
        BY <1>12, <3>1, <4>1 DEF Application, Closed, Gone
    <3>2. CASE ~(to \in Gone /\ app[a].membership = r)
      BY <1>1, <1>12, <3>2 DEF DataOK
    <3> QED
      BY <3>1, <3>2
  <2> QED
    BY <1>1, <1>6, <1>9, <2>2, <2>3
    DEF DataOK, OneRow, Membership, Application, NoRow, NoApp, BlockKind, Live, Gone, Role, Open,
        Closed, RowId, AppId
<1>21. OutsiderBlocked'
  <2> SUFFICES ASSUME NEW n \in Member, RowsOf(n)' # {}, LiveRows(n)' = {}
               PROVE  block'[n] \cap Gone # {}
    BY DEF OutsiderBlocked, Gone
  <2>1. block' = [block EXCEPT ![m] = BlocksAfter(m, to)] /\ block \in [Member -> SUBSET BlockKind]
    BY <1>1 DEF m, to, DataOK
  <2>2. CASE n = m
    <3>1. to \notin Live
      <4> SUFFICES ASSUME to \in Live PROVE r \in LiveRows(n)'
        BY <2>2
      <4> QED
        BY <1>3, <1>7, <1>8, <2>2 DEF LiveRows, RowsOf, RowId, Live
    <3>2. to \in Gone
      BY <1>3, <3>1
    <3> QED
      BY <1>3, <2>1, <2>2, <3>2 DEF BlocksAfter, Gone
  <2>3. CASE n # m
    <3>1. \A q \in RowId : row[q].member = n => q # r
      BY <1>3, <2>3
    <3>2. RowsOf(n) # {}
      BY <1>8 DEF RowsOf, RowId
    <3>3. LiveRows(n) = {}
      <4> SUFFICES ASSUME NEW q \in LiveRows(n) PROVE q \in LiveRows(n)'
        OBVIOUS
      <4>1. q \in RowId /\ row[q].member = n /\ row[q].status \in Live
        BY DEF LiveRows, RowsOf
      <4> QED
        BY <1>7, <1>8, <3>1, <4>1 DEF LiveRows, RowsOf, RowId, Live
    <3>4. block[n] \cap Gone # {}
      BY <1>1, <3>2, <3>3 DEF DataInv, OutsiderBlocked
    <3> QED
      BY <2>1, <2>3, <3>4
  <2> QED
    BY <2>2, <2>3
<1>22. AppShape'
  <2> SUFFICES ASSUME NEW a \in AppId PROVE AppShapeOf(a)'
    BY DEF AppShape, AppId
  <2>1. CASE to \in Gone /\ app[a].membership = r
    <3>1. app[a] \in Application
      BY <1>1, <1>3, <1>12, <2>1 DEF DataOK, NoApp
    <3>2. app'[a].phase = to
      BY <1>12, <2>1, <3>1 DEF Application
    <3> QED
      BY <2>1, <3>2 DEF AppShapeOf, Gone, Open
  <2>2. CASE ~(to \in Gone /\ app[a].membership = r)
    <3>1. app'[a] = app[a]
      BY <1>12, <2>2
    <3>2. AppShapeOf(a)
      BY <1>1 DEF DataInv, AppShape
    <3>3. ASSUME app[a].phase = "active"
          PROVE  /\ app[a].membership \in RowId
                 /\ row'[app[a].membership].member = app[a].member
                 /\ row'[app[a].membership].status \in Live
      <4>1. /\ app[a].membership \in RowId
            /\ row[app[a].membership].member = app[a].member
            /\ row[app[a].membership].status \in Live
        BY <3>2, <3>3 DEF AppShapeOf, LiveRows, RowsOf
      <4>2. app[a].membership = r => to \in Live
        BY <1>3, <2>2
      <4> QED
        BY <1>7, <1>8, <4>1, <4>2
    <3> QED
      BY <3>1, <3>2, <3>3 DEF AppShapeOf, LiveRows, RowsOf, RowId, Live, Open
  <2> QED
    BY <2>1, <2>2
<1> QED
  BY <1>17, <1>18, <1>19, <1>20, <1>21, <1>22, EndKeeps DEF DataInv

\* A status change, committed or refused by the version it would take.
LEMMA WriteStatusKeeps == ASSUME IInv, NEW t \in Request, WriteStatus(t) PROVE IInv'
<1>1. CASE UNCHANGED data
  BY <1>1, RefuseKeeps DEF WriteStatus, Refuse
<1> QED
  BY <1>1, StatusWritten DEF WriteStatus, NewStatus

\* An activation by the superadmin, committed.
LEMMA WriteActiveKeeps == ASSUME IInv, NEW t \in Request, WriteActive(t) PROVE IInv'
BY StatusWritten DEF WriteActive, NewStatus

\* A step that changes no status and no member of a row leaves what is said of
\* applications, blocks, targets and the count.
LEMMA StatusesKept ==
    ASSUME NEW t \in Request, DataInv, UNCHANGED <<block, app>>,
           \A q \in RowId : row'[q].status = row[q].status /\ row'[q].member = row[q].member,
           \A u \in Request : JobShape(u)
    PROVE  AppShape' /\ OutsiderBlocked' /\ Active' = Active /\ TargetsKept(t) /\ AppsKept(t)
<1>1. Active' = Active /\ \A m : RowsOf(m)' = RowsOf(m) /\ LiveRows(m)' = LiveRows(m)
  BY DEF Active, RowsOf, LiveRows, RowId, Live
<1>2. app' = app /\ block' = block
  OBVIOUS
<1>3. AppShape'
  <2> SUFFICES ASSUME NEW a \in AppId PROVE AppShapeOf(a)'
    BY DEF AppShape, AppId
  <2>1. AppShapeOf(a)
    BY DEF DataInv, AppShape
  <2> QED
    BY <1>1, <1>2, <2>1 DEF AppShapeOf, LiveRows, RowsOf, RowId, Live, Open
<1>4. OutsiderBlocked'
  BY <1>1, <1>2 DEF DataInv, OutsiderBlocked, Gone
<1>5. TargetsKept(t)
  BY DEF TargetsKept, JobShape, OwnerJob, RowRead, Doing
<1> QED
  BY <1>1, <1>2, <1>3, <1>4, <1>5 DEF AppsKept

\* A role is written, whatever has been read.
LEMMA WriteRoleKeeps == ASSUME IInv, NEW t \in Request, WriteRole(t) PROVE IInv'
<1> DEFINE r == got[t].row
<1>1. /\ DataOK /\ DataInv /\ \A u \in Request : JobShape(u)
      /\ Doing(t, "role", "write") /\ End(t) /\ UNCHANGED <<owner, clubVersion, cap, block, app>>
      /\ row' = [row EXCEPT ![r].role = job[t].to]
  BY DEF IInv, DataInv, WriteRole
<1>2. RowRead(t) /\ job[t].to \in Role
  BY <1>1 DEF JobShape, RoleJob, Doing
<1>3. r \in RowId /\ row[r] \in Membership
  BY <1>1, <1>2, RowOfMember DEF RowRead
<1>4. /\ row'[r] \in Membership /\ row'[r].member = row[r].member
      /\ row'[r].status = row[r].status /\ row'[r].version = row[r].version
  BY <1>1, <1>2, <1>3 DEF DataOK, Membership
<1>5. OneRow(r, row'[r])
  BY <1>1, <1>3, <1>4 DEF OneRow, DataOK
<1>6. RowsKept
  BY <1>1, <1>3, <1>4, <1>5, VersionKeepsRows
<1>7. \A q \in RowId : row'[q].status = row[q].status /\ row'[q].member = row[q].member
  BY <1>4, <1>5 DEF OneRow
<1>8. AppShape' /\ OutsiderBlocked' /\ Active' = Active /\ TargetsKept(t) /\ AppsKept(t)
  BY <1>1, <1>7, StatusesKept
<1>a. ReservedKept(t)
  BY <1>1, <1>3, <1>4, <1>5
  DEF ReservedKept, OneRow, IInv, LockShape, Reserved, JobShape, StatusJob, AcceptJob, RowRead
<1>9. Effects(t) /\ CapRespected'
  BY <1>1, <1>6, <1>8, <1>a DEF Effects, OwnerKept, CountKept, CapRespected, DataInv
<1>10. OwnerStaysActive'
  BY <1>1, <1>7 DEF DataInv, OwnerStaysActive, RowsOf, Active, RowId
<1>11. DataOK'
  BY <1>1, <1>5 DEF DataOK, OneRow, Membership, Application, NoRow, NoApp, BlockKind, Live, Gone,
     Role, Open, Closed, RowId, AppId
<1> QED
  BY <1>1, <1>8, <1>9, <1>10, <1>11, EndKeeps DEF DataInv

\* The new owner's row: a new version, of the same member and status.
LEMMA Promotion ==
    ASSUME NEW x \in Membership, x.status = "active"
    PROVE  LET y == [x EXCEPT !.role = "clubadmin", !.status = "active", !.version = @ + 1]
           IN  /\ y \in Membership /\ y.member = x.member /\ y.status = x.status
               /\ y.version = x.version + 1
<1> DEFINE y == [x EXCEPT !.role = "clubadmin", !.status = "active", !.version = @ + 1]
<1>1. x.version \in Nat /\ x.version + 1 \in Nat
  BY DEF Membership
<1>3. x.member \in Member /\ "active" \in Live \cup Gone /\ "clubadmin" \in Role
  BY DEF Membership, Live, Role
<1>4. y.member = x.member /\ y.status = x.status /\ y.version = x.version + 1
  BY DEF Membership
<1>5. y \in Membership
  BY <1>1, <1>3 DEF Membership
<1> QED
  BY <1>4, <1>5

\* The former owner's row: another role, nothing else.
LEMMA Demotion ==
    ASSUME NEW x \in Membership
    PROVE  LET y == [x EXCEPT !.role = "member"]
           IN  /\ y \in Membership /\ y.member = x.member /\ y.status = x.status
               /\ y.version = x.version
BY DEF Membership, Role

\* What a transfer writes changes no status and no member.
LEMMA TransferOfRows ==
    ASSUME DataOK, NEW r \in RowId, row[r] \in Membership, row[r].status = "active",
           NEW former \in SUBSET RowId, \A x \in former : row[x] \in Membership,
           row' = [x \in RowId |->
                     IF x = r THEN [row[x] EXCEPT !.role = "clubadmin",
                                                 !.status = "active",
                                                 !.version = @ + 1]
                     ELSE IF x \in former THEN [row[x] EXCEPT !.role = "member"]
                     ELSE row[x]]
    PROVE  /\ row' \in [RowId -> Membership \cup {NoRow}]
           /\ \A q \in RowId : /\ row'[q].status = row[q].status
                               /\ row'[q].member = row[q].member
                               /\ \/ row'[q].version = row[q].version
                                  \/ /\ row[q].status = "active"
                                     /\ row'[q].version = row[q].version + 1
<1> DEFINE Promoted(x) == [row[x] EXCEPT !.role = "clubadmin", !.status = "active", !.version = @ + 1]
           Demoted(x) == [row[x] EXCEPT !.role = "member"]
<1>1. row' = [x \in RowId |-> IF x = r THEN Promoted(x)
                              ELSE IF x \in former THEN Demoted(x) ELSE row[x]]
  OBVIOUS
<1>2. /\ Promoted(r) \in Membership /\ Promoted(r).member = row[r].member
      /\ Promoted(r).status = row[r].status /\ Promoted(r).version = row[r].version + 1
  BY Promotion
<1>3. \A x \in former : /\ Demoted(x) \in Membership /\ Demoted(x).member = row[x].member
                        /\ Demoted(x).status = row[x].status
                        /\ Demoted(x).version = row[x].version
  BY Demotion
<1> HIDE DEF Promoted, Demoted
<1>4. \A q \in RowId : /\ row'[q] \in Membership \cup {NoRow}
                       /\ row'[q].status = row[q].status
                       /\ row'[q].member = row[q].member
                       /\ \/ row'[q].version = row[q].version
                          \/ /\ row[q].status = "active"
                             /\ row'[q].version = row[q].version + 1
  BY <1>1, <1>2, <1>3 DEF DataOK
<1> QED
  BY <1>1, <1>4

\* A transfer that commits: the new owner's membership is active and stays so.
LEMMA OwnerWritten ==
    ASSUME IInv, NEW t \in Request, Doing(t, "owner", "write"), End(t),
           owner' = job[t].member, clubVersion' = clubVersion + 1,
           row' \in [RowId -> Membership \cup {NoRow}],
           \A q \in RowId : /\ row'[q].status = row[q].status
                            /\ row'[q].member = row[q].member
                            /\ \/ row'[q].version = row[q].version
                               \/ /\ row[q].status = "active"
                                  /\ row'[q].version = row[q].version + 1,
           UNCHANGED <<cap, block, app>>
    PROVE  IInv'
<1> DEFINE r == got[t].row
<1>1. /\ DataOK /\ DataInv /\ \A u \in Request : JobShape(u) /\ LockShape(u)
  BY DEF IInv, DataInv
<1>2. RowRead(t) /\ row[r].status = "active" /\ clubLock = t
  BY <1>1 DEF JobShape, OwnerJob, LockShape, OwnerLock, Doing
<1>3. r \in RowId /\ row[r].member = job[t].member /\ job[t].member \in Member
  BY <1>2 DEF RowRead
<1>4. RowsKept
  <2> SUFFICES ASSUME NEW q \in RowId, row[q] # NoRow
               PROVE  row'[q].version \in Nat /\ row[q].version <= row'[q].version
    BY DEF RowsKept
  <2>1. row[q].version \in Nat
    BY <1>1 DEF DataOK, Membership
  <2> QED
    BY <2>1
<1>5. AppShape' /\ OutsiderBlocked' /\ Active' = Active /\ TargetsKept(t) /\ AppsKept(t)
  BY <1>1, StatusesKept
<1>a. ReservedKept(t)
  <2> SUFFICES ASSUME NEW u \in Request \ {t}, pc[u] = "fanout"
               PROVE  row'[got[u].row].version = row[got[u].row].version
    BY DEF ReservedKept
  <2>1. got[u].row \in RowId /\ row[got[u].row].status \in {"cancelled", "removed", "banned"}
    BY <1>1
    DEF LockShape, Reserved, VersionFree, JobShape, StatusJob, AcceptJob, RowRead, Fresh, Gone
  <2> QED
    BY <2>1
<1>6. Effects(t) /\ CapRespected'
  BY <1>1, <1>2, <1>4, <1>5, <1>a DEF Effects, OwnerKept, CountKept, CapRespected, DataInv
<1>7. OwnerStaysActive'
  BY <1>2, <1>3 DEF OwnerStaysActive, RowsOf, Active, RowId
<1>8. DataOK'
  BY <1>1, <1>3 DEF DataOK, Membership, Application, NoRow, NoApp, BlockKind, Live, Gone,
     Role, Open, Closed, RowId, AppId
<1> QED
  BY <1>5, <1>6, <1>7, <1>8, EndKeeps DEF DataInv

\* A transfer is refused by the club version it would take, or it writes these.
LEMMA TransferWrites ==
    ASSUME IInv, NEW t \in Request, WriteOwner(t), ~ UNCHANGED data
    PROVE  /\ owner' = job[t].member /\ clubVersion' = clubVersion + 1
           /\ UNCHANGED <<cap, block, app>>
           /\ row' \in [RowId -> Membership \cup {NoRow}]
           /\ \A q \in RowId : /\ row'[q].status = row[q].status
                               /\ row'[q].member = row[q].member
                               /\ \/ row'[q].version = row[q].version
                                  \/ /\ row[q].status = "active"
                                     /\ row'[q].version = row[q].version + 1
<1> DEFINE r == got[t].row
           former == {x \in LiveRows(owner) : owner # job[t].member /\ row[x].role = "clubadmin"}
<1>1. DataOK /\ JobShape(t) /\ Doing(t, "owner", "write")
  BY DEF IInv, WriteOwner
<1>2. /\ owner' = job[t].member /\ clubVersion' = clubVersion + 1
      /\ UNCHANGED <<cap, block, app>>
      /\ row' = [x \in RowId |->
                   IF x = r THEN [row[x] EXCEPT !.role = "clubadmin",
                                               !.status = "active",
                                               !.version = @ + 1]
                   ELSE IF x \in former THEN [row[x] EXCEPT !.role = "member"]
                   ELSE row[x]]
  BY DEF WriteOwner
<1>3. r \in RowId /\ row[r].member \in Member /\ row[r].status = "active"
  BY <1>1 DEF JobShape, OwnerJob, RowRead, Doing
<1>4. former \in SUBSET RowId /\ \A x \in former : row[x].member \in Member
  BY <1>1 DEF LiveRows, RowsOf, DataOK
<1> HIDE DEF former, r
<1>5. row[r] \in Membership /\ \A x \in former : row[x] \in Membership
  BY <1>1, <1>3, <1>4, RowOfMember
<1> QED
  BY <1>1, <1>2, <1>3, <1>4, <1>5, TransferOfRows

\* Either way it keeps the invariant.
LEMMA WriteOwnerKeeps == ASSUME IInv, NEW t \in Request, WriteOwner(t) PROVE IInv'
<1>1. CASE UNCHANGED data
  BY <1>1, RefuseKeeps DEF WriteOwner, Refuse
<1>2. CASE ~ UNCHANGED data
  BY <1>2, TransferWrites, OwnerWritten DEF WriteOwner
<1> QED
  BY <1>1, <1>2

\* A cap is written while the row of the club and the capacity lock are held.
LEMMA WriteCapKeeps == ASSUME IInv, NEW t \in Request, WriteCap(t) PROVE IInv'
<1>1. CASE UNCHANGED data
  BY <1>1, RefuseKeeps DEF WriteCap, Refuse
<1>2. CASE /\ cap' = job[t].n /\ clubVersion' = clubVersion + 1
           /\ UNCHANGED <<row, owner, block, app>>
  <2>1. /\ DataOK /\ DataInv /\ \A u \in Request : JobShape(u) /\ LockShape(u)
        /\ Doing(t, "cap", "write") /\ End(t)
    BY DEF IInv, DataInv, WriteCap
  <2>2. capLock = t /\ Cardinality(Active) <= job[t].n /\ job[t].n \in Caps
    BY <2>1 DEF JobShape, CapJob, LockShape, CapLock, Counted, Reserved, ClubHolder, Doing
  <2>3. \A q \in RowId : row'[q].status = row[q].status /\ row'[q].member = row[q].member
    BY <1>2
  <2>4. AppShape' /\ OutsiderBlocked' /\ Active' = Active /\ TargetsKept(t) /\ AppsKept(t)
    BY <1>2, <2>1, <2>3, StatusesKept
  <2>5. RowsKept
    <3> SUFFICES ASSUME NEW r \in RowId, row[r] # NoRow PROVE row[r].version \in Nat
      BY <1>2 DEF RowsKept
    <3> QED
      BY <2>1 DEF DataOK, Membership
  <2>6. Effects(t)
    BY <1>2, <2>2, <2>4, <2>5 DEF Effects, OwnerKept, CountKept, ReservedKept
  <2>7. CapRespected' /\ OwnerStaysActive'
    BY <1>2, <2>1, <2>2, <2>4 DEF CapRespected, DataInv, OwnerStaysActive, RowsOf, RowId
  <2>8. DataOK'
    BY <1>2, <2>1, <2>2 DEF DataOK, Membership, Application, NoRow, NoApp, BlockKind, Live, Gone,
       Role, Open, Closed, RowId, AppId
  <2> QED
    BY <2>1, <2>4, <2>6, <2>7, <2>8, EndKeeps DEF DataInv
<1> QED
  BY <1>1, <1>2 DEF WriteCap

\* A row that becomes active leaves every live row live and nobody unblocked.
LEMMA ActivationKeeps ==
    ASSUME DataOK, DataInv, NEW r \in RowId, NEW new \in Membership, OneRow(r, new),
           new.status = "active", row[r] = NoRow \/ row[r].member = new.member,
           block' = block, owner' = owner
    PROVE  /\ OutsiderBlocked' /\ OwnerStaysActive'
           /\ Active' \subseteq Active \cup {r}
           /\ r \in LiveRows(new.member)'
           /\ \A a \in AppId : app'[a] = app[a] => AppShapeOf(a)'
<1>1. /\ row'[r].member = new.member /\ row'[r].status = "active" /\ new.member \in Member
      /\ \A q \in RowId \ {r} : row'[q] = row[q]
  BY DEF OneRow, Membership
<1>2. r \in LiveRows(new.member)'
  BY <1>1 DEF LiveRows, RowsOf, RowId, Live
<1>3. Active' \subseteq Active \cup {r}
  BY <1>1 DEF Active, RowId
<1>4. ASSUME NEW m \in Member, NEW q \in RowId, row[q].member = m
      PROVE  row'[q].member = m /\ (row[q].status \in Live => row'[q].status \in Live)
  <2>1. row[r] = NoRow => q # r
    BY <1>4, RosterAssumption DEF NoRow
  <2> QED
    BY <1>1, <1>4, <2>1 DEF Live
<1>5. OwnerStaysActive'
  <2>1. PICK q \in RowId : row[q].member = owner /\ row[q].status = "active"
    BY DEF DataInv, OwnerStaysActive, RowsOf, Active
  <2>2. owner \in Member
    BY DEF DataOK
  <2>3. row'[q].member = owner /\ row'[q].status = "active"
    BY <1>1, <1>4, <2>1, <2>2
  <2> QED
    BY <2>3 DEF OwnerStaysActive, RowsOf, Active, RowId
<1>6. OutsiderBlocked'
  <2> SUFFICES ASSUME NEW m \in Member, RowsOf(m)' # {}, LiveRows(m)' = {}
               PROVE  block[m] \cap Gone # {}
    BY DEF OutsiderBlocked, Gone
  <2>1. m # new.member
    BY <1>2
  <2>2. PICK q \in RowId : row'[q].member = m
    BY DEF RowsOf, RowId
  <2>3. row[q].member = m
    BY <1>1, <2>1, <2>2
  <2>4. RowsOf(m) # {}
    BY <2>3 DEF RowsOf
  <2>5. LiveRows(m) = {}
    <3> SUFFICES ASSUME NEW x \in LiveRows(m) PROVE x \in LiveRows(m)'
      OBVIOUS
    <3> QED
      BY <1>4 DEF LiveRows, RowsOf, RowId, Live
  <2> QED
    BY <2>4, <2>5 DEF DataInv, OutsiderBlocked
<1>7. ASSUME NEW a \in AppId, app'[a] = app[a] PROVE AppShapeOf(a)'
  <2>1. AppShapeOf(a)
    BY DEF DataInv, AppShape
  <2>2. CASE app[a].phase # "active"
    BY <1>7, <2>1, <2>2 DEF AppShapeOf, Open
  <2>3. CASE app[a].phase = "active"
    <3>1. app[a].member \in Member
      BY <2>3 DEF DataOK, Application, NoApp
    <3>2. /\ app[a].membership \in RowId
          /\ row[app[a].membership].member = app[a].member
          /\ row[app[a].membership].status \in Live
      BY <2>1, <2>3 DEF AppShapeOf, LiveRows, RowsOf
    <3>3. /\ row'[app[a].membership].member = app[a].member
          /\ row'[app[a].membership].status \in Live
      BY <1>4, <3>1, <3>2
    <3> QED
      BY <1>7, <2>1, <3>2, <3>3 DEF AppShapeOf, LiveRows, RowsOf, RowId, Live, Open
  <2> QED
    BY <2>2, <2>3
<1> QED
  BY <1>2, <1>3, <1>5, <1>6, <1>7

\* What a request that activates a row under the capacity lock commits.
LEMMA ActivationCommits ==
    ASSUME IInv, NEW t \in Request, End(t), pc[t] \in {"write", "fanout"}, capLock = t,
           job[t].op # "cap",
           NEW r \in RowId, NEW new \in Membership, OneRow(r, new), new.status = "active",
           row[r] = NoRow \/ (row[r].member = new.member /\ new.version = row[r].version + 1),
           UNCHANGED <<owner, clubVersion, cap, block>>,
           app' \in [AppId -> Application \cup {NoApp}], AppsKept(t), AppShape'
    PROVE  IInv'
<1>1. /\ DataOK /\ DataInv /\ \A u \in Request : JobShape(u) /\ LockShape(u)
      /\ block' = block /\ owner' = owner /\ cap' = cap
  BY DEF IInv, DataInv
<1>2. HasCapacity
  BY <1>1 DEF LockShape, Counted
<1>3. NoRow \notin Membership
  BY RosterAssumption DEF NoRow, Membership
<1>4. RowsKept
  BY <1>1, <1>3, VersionKeepsRows
<1>5. TargetsKept(t)
  <2> SUFFICES ASSUME NEW u \in Request \ {t}, Doing(u, "owner", "write")
               PROVE  row'[got[u].row].status = row[got[u].row].status
    BY DEF TargetsKept
  <2>1. got[u].row \in RowId /\ row[got[u].row].status = "active"
    BY <1>1 DEF JobShape, OwnerJob, RowRead, Doing
  <2> QED
    BY <2>1 DEF OneRow
<1>6. /\ OutsiderBlocked' /\ OwnerStaysActive' /\ Active' \subseteq Active \cup {r}
  BY <1>1, ActivationKeeps
<1>7. CapRespected'
  BY <1>1, <1>2, <1>6, CapKept DEF DataInv
<1>a. ReservedKept(t)
  BY <1>1 DEF ReservedKept, LockShape, Reserved
<1>8. Effects(t)
  BY <1>1, <1>4, <1>5, <1>a DEF Effects, OwnerKept, CountKept
<1>9. DataOK'
  BY <1>1 DEF DataOK, OneRow, Membership, Application, NoRow, NoApp, BlockKind, Live, Gone, Role,
     Open, Closed, RowId, AppId
<1> QED
  BY <1>6, <1>7, <1>8, <1>9, EndKeeps DEF DataInv

\* A row that is inserted.
LEMMA Insertion ==
    ASSUME DataOK, NEW r \in RowId, NEW m \in Member, NEW role \in Role, InsertRow(r, m, role)
    PROVE  /\ [member |-> m, status |-> "active", role |-> role, version |-> 1] \in Membership
           /\ OneRow(r, [member |-> m, status |-> "active", role |-> role, version |-> 1])
           /\ row[r] = NoRow
<1> DEFINE new == [member |-> m, status |-> "active", role |-> role, version |-> 1]
<1>1. new \in Membership
  BY DEF Membership, Live
<1>2. row' = [row EXCEPT ![r] = new] /\ row[r] = NoRow
  BY DEF InsertRow
<1> HIDE DEF new
<1>3. OneRow(r, new)
  BY <1>1, <1>2 DEF OneRow, DataOK
<1> QED
  BY <1>1, <1>2, <1>3 DEF new

\* A membership added by the superadmin.
LEMMA WriteAddKeeps == ASSUME IInv, NEW t \in Request, WriteAdd(t) PROVE IInv'
<1>1. CASE UNCHANGED data
  BY <1>1, RefuseKeeps DEF WriteAdd, Refuse
<1>2. CASE /\ \E r \in RowId : InsertRow(r, job[t].member, job[t].to)
           /\ UNCHANGED <<owner, clubVersion, cap, block, app>>
  <2>1. /\ DataOK /\ DataInv /\ JobShape(t) /\ LockShape(t)
        /\ Doing(t, "add", "write") /\ End(t) /\ app' = app
    BY <1>2 DEF IInv, DataInv, WriteAdd
  <2>2. PICK r \in RowId : InsertRow(r, job[t].member, job[t].to)
    BY <1>2
  <2>3. job[t].member \in Member /\ job[t].to \in Role /\ capLock = t
    BY <2>1 DEF JobShape, AddJob, LockShape, InsertLock, Doing
  <2> DEFINE new == [member |-> job[t].member, status |-> "active", role |-> job[t].to,
                     version |-> 1]
  <2>4. new \in Membership /\ OneRow(r, new) /\ row[r] = NoRow /\ new.status = "active"
    BY <2>1, <2>2, <2>3, Insertion
  <2> HIDE DEF new
  <2>5. AppShape'
    <3> SUFFICES ASSUME NEW a \in AppId PROVE AppShapeOf(a)'
      BY DEF AppShape, AppId
    <3> QED
      BY <1>2, <2>1, <2>4, ActivationKeeps
  <2>6. AppsKept(t)
    BY <2>1 DEF AppsKept
  <2>7. app' \in [AppId -> Application \cup {NoApp}]
    BY <2>1 DEF DataOK
  <2> QED
    BY <1>2, <2>1, <2>3, <2>4, <2>5, <2>6, <2>7, ActivationCommits DEF Doing
<1> QED
  BY <1>1, <1>2 DEF WriteAdd

\* The application that is accepted points at the row that became active; those
\* others decide are other applications.
LEMMA AcceptanceRecorded ==
    ASSUME IInv, NEW t \in Request, job[t].op = "accept",
           NEW r \in RowId, NEW new \in Membership, OneRow(r, new), new.status = "active",
           row[r] = NoRow \/ row[r].member = new.member, new.member = job[t].member,
           block' = block, owner' = owner, Accepted(job[t].n, r)
    PROVE  app' \in [AppId -> Application \cup {NoApp}] /\ AppsKept(t) /\ AppShape'
<1> DEFINE n == job[t].n
<1>1. /\ DataOK /\ DataInv /\ SoleDecider /\ \A u \in Request : JobShape(u)
  BY DEF IInv, DataInv
<1>2. /\ n \in AppId /\ app[n].phase = "awaiting_review" /\ app[n].member = new.member
  BY <1>1 DEF JobShape, AcceptJob
<1>3. app[n] \in Application
  BY <1>1, <1>2 DEF DataOK, NoApp
<1>4. /\ app' = [app EXCEPT ![n].phase = "active", ![n].membership = r]
      /\ app'[n].member = new.member /\ app'[n].phase = "active" /\ app'[n].membership = r
  BY <1>1, <1>2, <1>3 DEF Accepted, DataOK, Application
<1> HIDE DEF n
<1>5. \A a \in AppId \ {n} : app'[a] = app[a]
  BY <1>1, <1>2, <1>4 DEF DataOK
<1>6. app'[n] \in Application
  <2>1. r \in 0..MaxRow /\ "active" \in Open \cup Closed
    BY DEF RowId, Closed
  <2> QED
    BY <1>1, <1>2, <1>3, <1>4, <2>1 DEF DataOK, Application
<1>7. app' \in [AppId -> Application \cup {NoApp}]
  BY <1>1, <1>2, <1>4, <1>5, <1>6 DEF DataOK
<1>8. AppsKept(t)
  <2> SUFFICES ASSUME NEW u \in Request \ {t}, job[u].op \in Deciding
               PROVE  app'[job[u].n] = app[job[u].n]
    BY DEF AppsKept
  <2>1. job[u].n \in AppId
    BY <1>1 DEF JobShape, AcceptJob, SettleJob, Deciding
  <2>2. job[u].n # n
    BY <1>1 DEF SoleDecider, Deciding, n
  <2> QED
    BY <1>5, <2>1, <2>2
<1>9. AppShape'
  <2> SUFFICES ASSUME NEW a \in AppId PROVE AppShapeOf(a)'
    BY DEF AppShape, AppId
  <2>1. CASE a = n
    <3>1. r \in LiveRows(new.member)'
      BY <1>1, ActivationKeeps
    <3>2. row'[r].member = new.member /\ row'[r].status \in Live
      BY DEF OneRow, Live
    <3> QED
      BY <1>4, <2>1, <3>2 DEF AppShapeOf, LiveRows, RowsOf, RowId, Live, Open
  <2>2. CASE a # n
    BY <1>1, <1>5, <2>2, ActivationKeeps
  <2> QED
    BY <2>1, <2>2
<1> QED
  BY <1>7, <1>8, <1>9

\* An acceptance that creates the membership.
LEMMA AcceptNewKeeps == ASSUME IInv, NEW t \in Request, AcceptNew(t) PROVE IInv'
<1>1. CASE UNCHANGED <<row, app>>
  BY <1>1, RefuseKeeps DEF AcceptNew, Refuse, data
<1>2. CASE \E r \in RowId : InsertRow(r, job[t].member, "member") /\ Accepted(job[t].n, r)
  <2>1. /\ DataOK /\ JobShape(t) /\ LockShape(t) /\ Doing(t, "accept", "write") /\ End(t)
        /\ UNCHANGED <<owner, clubVersion, cap, block>>
    BY DEF IInv, AcceptNew
  <2>2. PICK r \in RowId : InsertRow(r, job[t].member, "member") /\ Accepted(job[t].n, r)
    BY <1>2
  <2>3. job[t].member \in Member /\ "member" \in Role /\ capLock = t
        /\ pc[t] = "write" /\ job[t].op = "accept"
    BY <2>1 DEF JobShape, AcceptJob, LockShape, InsertLock, Doing, Role
  <2> DEFINE new == [member |-> job[t].member, status |-> "active", role |-> "member",
                     version |-> 1]
  <2>4. /\ new \in Membership /\ OneRow(r, new) /\ row[r] = NoRow /\ new.status = "active"
        /\ new.member = job[t].member
    BY <2>1, <2>2, <2>3, Insertion
  <2> HIDE DEF new
  <2>5. app' \in [AppId -> Application \cup {NoApp}] /\ AppsKept(t) /\ AppShape'
    BY <2>1, <2>2, <2>3, <2>4, AcceptanceRecorded
  <2> QED
    BY <2>1, <2>3, <2>4, <2>5, ActivationCommits
<1> QED
  BY <1>1, <1>2 DEF AcceptNew

\* An acceptance that reactivates a cancelled membership.
LEMMA AcceptCancelledKeeps == ASSUME IInv, NEW t \in Request, AcceptCancelled(t) PROVE IInv'
<1>2. CASE /\ row' = [row EXCEPT ![got[t].row].status = "active", ![got[t].row].version = @ + 1]
           /\ Accepted(job[t].n, got[t].row)
  <2> DEFINE r == got[t].row
             new == row'[r]
  <2>1. /\ DataOK /\ JobShape(t) /\ LockShape(t) /\ Doing(t, "accept", "fanout") /\ End(t)
        /\ UNCHANGED <<owner, clubVersion, cap, block>>
    BY DEF IInv, AcceptCancelled
  <2>2. /\ r \in RowId /\ row[r].member = job[t].member /\ job[t].member \in Member
        /\ capLock = t /\ pc[t] = "fanout" /\ job[t].op = "accept"
    BY <2>1 DEF JobShape, AcceptJob, RowRead, LockShape, Reserved, Doing
  <2>3. row[r] \in Membership
    BY <2>1, <2>2, RowOfMember
  <2>4. /\ new \in Membership /\ new.status = "active" /\ new.member = row[r].member
        /\ new.version = row[r].version + 1
    BY <1>2, <2>1, <2>2, <2>3 DEF DataOK, Membership, Live
  <2>5. OneRow(r, new)
    BY <1>2, <2>1, <2>2, <2>4 DEF OneRow, DataOK
  <2>6. Accepted(job[t].n, r)
    BY <1>2
  <2> HIDE DEF new, r
  <2>7. app' \in [AppId -> Application \cup {NoApp}] /\ AppsKept(t) /\ AppShape'
    BY <2>1, <2>2, <2>4, <2>5, <2>6, AcceptanceRecorded
  <2> QED
    BY <2>1, <2>2, <2>4, <2>5, <2>7, ActivationCommits
<1> QED
  BY <1>2 DEF AcceptCancelled

\* A new application, of nobody's decision.
LEMMA WriteApplicationKeeps == ASSUME IInv, NEW t \in Request, WriteApplication(t) PROVE IInv'
<1>1. CASE UNCHANGED data
  BY <1>1, RefuseKeeps DEF WriteApplication, Refuse
<1>2. CASE /\ \E a \in AppId, phase \in Open :
                /\ app[a] = NoApp
                /\ app' = [app EXCEPT ![a] = [member |-> job[t].member, phase |-> phase,
                                              membership |-> 0]]
           /\ UNCHANGED <<row, owner, clubVersion, cap, block>>
  <2>1. /\ DataOK /\ DataInv /\ \A u \in Request : JobShape(u)
        /\ Doing(t, "apply", "write") /\ End(t)
    BY DEF IInv, DataInv, WriteApplication
  <2>2. PICK a \in AppId, phase \in Open :
          /\ app[a] = NoApp
          /\ app' = [app EXCEPT ![a] = [member |-> job[t].member, phase |-> phase,
                                        membership |-> 0]]
    BY <1>2
  <2>3. job[t].member \in Member
    BY <2>1 DEF JobShape, ApplyJob, Doing
  <2>4. [member |-> job[t].member, phase |-> phase, membership |-> 0] \in Application
    BY <2>3, RosterAssumption DEF Application
  <2>5. /\ app' \in [AppId -> Application \cup {NoApp}]
        /\ app'[a].phase = phase /\ app'[a].membership = 0
        /\ \A b \in AppId \ {a} : app'[b] = app[b]
    BY <2>1, <2>2, <2>4 DEF DataOK
  <2>6. DataOK'
    BY <1>2, <2>1, <2>5 DEF DataOK, Membership, Application, NoRow, NoApp, BlockKind, Live, Gone,
       Role, Open, Closed, RowId, AppId
  <2>7. AppsKept(t)
    <3> SUFFICES ASSUME NEW u \in Request \ {t}, job[u].op \in Deciding
                 PROVE  app'[job[u].n] = app[job[u].n]
      BY DEF AppsKept
    <3>1. job[u].n \in AppId /\ app[job[u].n].phase \in Open
      BY <2>1 DEF JobShape, AcceptJob, SettleJob, Deciding, Open
    <3>2. job[u].n # a
      BY <2>2, <3>1 DEF NoApp, Open
    <3> QED
      BY <2>5, <3>1, <3>2
  <2>8. RowsKept
    <3> SUFFICES ASSUME NEW r \in RowId, row[r] # NoRow PROVE row[r].version \in Nat
      BY <1>2 DEF RowsKept
    <3> QED
      BY <2>1 DEF DataOK, Membership
  <2>9. Active' = Active /\ row' = row /\ cap' = cap /\ owner' = owner /\ block' = block
    BY <1>2 DEF Active, RowId
  <2>10. Effects(t)
    BY <2>7, <2>8, <2>9 DEF Effects, TargetsKept, ReservedKept, OwnerKept, CountKept
  <2>11. AppShape'
    <3> SUFFICES ASSUME NEW b \in AppId PROVE AppShapeOf(b)'
      BY DEF AppShape, AppId
    <3>1. CASE b = a
      BY <2>5, <3>1 DEF AppShapeOf, Open
    <3>2. CASE b # a
      <4>1. AppShapeOf(b) /\ app'[b] = app[b]
        BY <2>1, <2>5, <3>2 DEF DataInv, AppShape
      <4> QED
        BY <2>9, <4>1 DEF AppShapeOf, LiveRows, RowsOf, RowId, Live, Open
    <3> QED
      BY <3>1, <3>2
  <2>12. CapRespected' /\ OwnerStaysActive' /\ OutsiderBlocked'
    BY <2>1, <2>9 DEF DataInv, CapRespected, OwnerStaysActive, OutsiderBlocked, RowsOf, LiveRows,
       RowId, Live, Gone
  <2> QED
    BY <2>1, <2>6, <2>10, <2>11, <2>12, EndKeeps DEF DataInv
<1> QED
  BY <1>1, <1>2 DEF WriteApplication

\* The row of platform_stats, for a request that has nothing else locked but its
\* application.
LEMMA UpdatePhaseKeeps == ASSUME IInv, NEW t \in Request, UpdatePhase(t) PROVE IInv'
<1>1. /\ pc[t] = "write" /\ job[t].op = "settle" /\ Goto(t, "announce") /\ UNCHANGED data
      /\ job' = job /\ got' = got /\ clubLock' = clubLock /\ capLock' = capLock
  BY DEF UpdatePhase, Doing
<1>2. ControlOK /\ LabelShape(t) /\ clubLock # t /\ capLock # t
  BY <1>1 DEF IInv, LockShape, CapLock, ClubHolder
<1>3. ControlOK' /\ Frame(t) /\ pc'[t] = "announce"
  BY <1>1, <1>2, LockStep DEF ControlOK
<1>4. JobShape(t)'
  BY <1>1, SameJob
<1>5. LockShape(t)'
  BY <1>1, <1>2, <1>3
  DEF LockShape, StatusLock, InsertLock, OwnerLock, CapLock, Counted, Reserved, ClubHolder, Doing
<1>6. LabelShape(t)'
  BY <1>1, <1>2, <1>3 DEF LabelShape
<1> QED
  BY <1>1, <1>3, <1>4, <1>5, <1>6, WaitKeeps

\* An open application that one request decides changes its phase.
LEMMA SettleKeeps ==
    ASSUME IInv, NEW t \in Request, job[t].op = "settle", Settle(t)
    PROVE  IInv'
<1> DEFINE n == job[t].n
           m == job[t].member
           to == job[t].to
<1>1. /\ DataOK /\ DataInv /\ SoleDecider /\ \A u \in Request : JobShape(u)
      /\ End(t) /\ UNCHANGED <<row, owner, clubVersion, cap>>
      /\ app' = [app EXCEPT ![n].phase = to]
      /\ block' = [block EXCEPT ![m] = @ \cup ({to} \cap {"declined", "banned"})]
  BY DEF IInv, DataInv, Settle
<1>2. /\ m \in Member /\ n \in AppId /\ app[n].phase \in Open
      /\ to \in {"awaiting_review", "withdrawn", "declined", "banned"}
  BY <1>1 DEF JobShape, SettleJob
<1>3. app[n] \in Application /\ app[n].membership = 0
  BY <1>1, <1>2 DEF DataOK, NoApp, Open, DataInv, AppShape, AppShapeOf
<1>4. /\ app'[n] \in Application /\ app'[n].phase = to /\ app'[n].membership = 0
      /\ \A b \in AppId \ {n} : app'[b] = app[b]
  BY <1>1, <1>2, <1>3 DEF DataOK, Application, Open, Closed
<1>5. app' \in [AppId -> Application \cup {NoApp}]
  BY <1>1, <1>2, <1>4 DEF DataOK
<1>6. block' \in [Member -> SUBSET BlockKind] /\ \A u \in Member : block[u] \subseteq block'[u]
  BY <1>1, <1>2 DEF DataOK, BlockKind
<1> HIDE DEF m, to
<1>7. DataOK'
  BY <1>1, <1>5, <1>6 DEF DataOK, Membership, Application, NoRow, NoApp, BlockKind, Live, Gone,
     Role,
     Open, Closed, RowId, AppId
<1>8. AppsKept(t)
  <2> SUFFICES ASSUME NEW u \in Request \ {t}, job[u].op \in Deciding
               PROVE  app'[job[u].n] = app[job[u].n]
    BY DEF AppsKept
  <2>1. job[u].n \in AppId
    BY <1>1 DEF JobShape, AcceptJob, SettleJob, Deciding
  <2>2. job[u].n # n
    BY <1>1 DEF SoleDecider, Deciding
  <2> QED
    BY <1>4, <2>1, <2>2
<1>9. RowsKept
  <2> SUFFICES ASSUME NEW r \in RowId, row[r] # NoRow PROVE row[r].version \in Nat
    BY <1>1 DEF RowsKept
  <2> QED
    BY <1>1 DEF DataOK, Membership
<1>10. Active' = Active
  BY <1>1 DEF Active, RowId
<1>11. Effects(t)
  BY <1>1, <1>8, <1>9, <1>10 DEF Effects, TargetsKept, ReservedKept, OwnerKept, CountKept
<1>12. AppShape'
  <2> SUFFICES ASSUME NEW b \in AppId PROVE AppShapeOf(b)'
    BY DEF AppShape, AppId
  <2>1. CASE b = n
    BY <1>2, <1>4, <2>1 DEF AppShapeOf
  <2>2. CASE b # n
    <3>1. AppShapeOf(b) /\ app'[b] = app[b]
      BY <1>1, <1>4, <2>2 DEF DataInv, AppShape
    <3> QED
      BY <1>1, <3>1 DEF AppShapeOf, LiveRows, RowsOf, RowId, Live, Open
  <2> QED
    BY <2>1, <2>2
<1>13. CapRespected' /\ OwnerStaysActive'
  BY <1>1, <1>10 DEF DataInv, CapRespected, OwnerStaysActive, RowsOf, RowId
<1>14. OutsiderBlocked'
  BY <1>1, <1>6 DEF DataInv, OutsiderBlocked, RowsOf, LiveRows, RowId, Live, Gone
<1> QED
  BY <1>1, <1>7, <1>11, <1>12, <1>13, <1>14, EndKeeps DEF DataInv

-----------------------------------------------------------------------------
(* Time.                                                                   *)

\* The end of a decline's block leaves the blocks of removals and bans.
LEMMA BlockExpiresKeeps == ASSUME IInv, NEW m \in Member, BlockExpires(m) PROVE IInv'
<1>1. /\ DataOK /\ ControlOK /\ DataInv /\ SoleDecider
      /\ \A u \in Request : JobShape(u) /\ LockShape(u) /\ LabelShape(u)
      /\ UNCHANGED <<row, owner, clubVersion, cap, app, pc, job, got, clubLock, capLock>>
      /\ block' = [block EXCEPT ![m] = @ \ {"declined"}]
  BY DEF IInv, DataInv, BlockExpires
<1>2. /\ block' \in [Member -> SUBSET BlockKind]
      /\ \A n \in Member : block'[n] \cap Gone = block[n] \cap Gone
  BY <1>1 DEF DataOK, BlockKind, Gone
<1>3. DataOK'
  BY <1>1, <1>2 DEF DataOK, Membership, Application, NoRow, NoApp, BlockKind, Live, Gone, Role,
     Open, Closed, RowId, AppId
<1>4. ControlOK'
  BY <1>1 DEF ControlOK, Label, Job, Read, Live, Gone, Role, Open, Closed, AllOps
<1>5. Active' = Active
  BY <1>1 DEF Active, RowId
<1>6. ASSUME NEW u \in Request PROVE JobShape(u)' /\ LockShape(u)' /\ LabelShape(u)'
  <2>1. JobShape(u) /\ LockShape(u) /\ LabelShape(u)
    BY <1>1
  <2>2. JobShape(u)'
    BY <1>1, <2>1 DEF JobShape, StatusJob, RoleJob, OwnerJob, CapJob, AddJob, ApplyJob, AcceptJob,
       SettleJob, RowRead, Fresh, Live, Gone, Role, RowId, AppId
  <2>3. LockShape(u)'
    BY <1>1, <1>5, <2>1 DEF LockShape, StatusLock, InsertLock, OwnerLock, CapLock, Counted,
       Reserved, ClubHolder, Doing,
       HasCapacity, VersionFree, AdminTransition
  <2>4. LabelShape(u)'
    BY <1>1, <2>1 DEF LabelShape
  <2> QED
    BY <2>2, <2>3, <2>4
<1>7. SoleDecider'
  BY <1>1 DEF SoleDecider
<1>8. AppShape'
  BY <1>1 DEF DataInv, AppShape, AppShapeOf, LiveRows, RowsOf, RowId, AppId, Live, Open
<1>9. CapRespected' /\ OwnerStaysActive'
  BY <1>1, <1>5 DEF DataInv, CapRespected, OwnerStaysActive, RowsOf, RowId
<1>10. OutsiderBlocked'
  <2>1. \A n : RowsOf(n)' = RowsOf(n) /\ LiveRows(n)' = LiveRows(n)
    BY <1>1 DEF RowsOf, LiveRows, RowId, Live
  <2> QED
    BY <1>1, <1>2, <2>1 DEF DataInv, OutsiderBlocked, Gone
<1> QED
  BY <1>3, <1>4, <1>6, <1>7, <1>8, <1>9, <1>10 DEF IInv

-----------------------------------------------------------------------------
(* The theorems.                                                           *)

\* A new club satisfies the invariant.
LEMMA InitKeeps == Init => IInv
<1> SUFFICES ASSUME Init PROVE IInv
  OBVIOUS
<1>0. 1 \in RowId /\ MaxRow \in Nat /\ 0 \in 0..MaxRow
  BY RosterAssumption DEF RowId
<1>1. /\ row = [r \in RowId |-> IF r = 1
                              THEN [member |-> Creator, status |-> "active",
                                    role |-> "clubadmin", version |-> 1]
                              ELSE NoRow]
      /\ owner = Creator /\ clubVersion = 1 /\ cap \in Caps
      /\ block = [m \in Member |-> {}] /\ app = [a \in AppId |-> NoApp]
      /\ pc = [t \in Request |-> "idle"] /\ job = [t \in Request |-> NoJob]
      /\ got = [t \in Request |-> NoRead] /\ clubLock = Nobody /\ capLock = Nobody
  BY DEF Init
<1>2. DataOK
  BY <1>1, RosterAssumption DEF DataOK, Membership, Live, Role
<1>3. ControlOK
  <2>1. NoJob \in Job /\ NoRead \in Read /\ "idle" \in Label
    BY <1>0 DEF NoJob, NoRead, Job, Read, Label
  <2> QED
    BY <1>1, <2>1 DEF ControlOK
<1>4. ASSUME NEW t \in Request PROVE JobShape(t) /\ LockShape(t) /\ LabelShape(t)
  <2>1. pc[t] = "idle" /\ job[t].op = "none"
    BY <1>1 DEF NoJob
  <2> QED
    BY <1>1, <2>1 DEF JobShape, StatusJob, RoleJob, OwnerJob, CapJob, AddJob, ApplyJob, AcceptJob,
       SettleJob, LockShape, StatusLock, InsertLock, OwnerLock, CapLock, Counted, Reserved,
       ClubHolder, LabelShape, Doing
<1>5. SoleDecider
  BY <1>1 DEF SoleDecider, Deciding, NoJob
<1>6. AppShape
  BY <1>1 DEF AppShape, AppShapeOf, NoApp, Open
<1>7. CapRespected
  <2>1. Active = {1}
    BY <1>0, <1>1 DEF Active, NoRow
  <2>2. Cardinality(Active) = 1
    BY <2>1, FS_Singleton
  <2> QED
    BY <1>1, <2>2, RosterAssumption DEF CapRespected
<1>8. OwnerStaysActive
  BY <1>0, <1>1 DEF OwnerStaysActive, RowsOf, Active
<1>9. OutsiderBlocked
  BY <1>0, <1>1, RosterAssumption DEF OutsiderBlocked, RowsOf, LiveRows, Live, NoRow
<1> QED
  BY <1>2, <1>3, <1>4, <1>5, <1>6, <1>7, <1>8, <1>9 DEF IInv

\* A step that changes nothing keeps it.
LEMMA StutterKeeps == ASSUME IInv, UNCHANGED vars PROVE IInv'
<1>1. /\ DataOK /\ ControlOK /\ DataInv /\ SoleDecider
      /\ \A u \in Request : JobShape(u) /\ LockShape(u) /\ LabelShape(u)
      /\ UNCHANGED <<row, owner, clubVersion, cap, block, app, pc, job, got, clubLock, capLock>>
  BY DEF IInv, DataInv, vars
<1>2. DataOK'
  BY <1>1 DEF DataOK, Membership, Application, NoRow, NoApp, BlockKind, Live, Gone, Role, Open,
     Closed, RowId, AppId
<1>3. ControlOK'
  BY <1>1 DEF ControlOK, Label, Job, Read, Live, Gone, Role, Open, Closed, AllOps
<1>4. DataInv'
  BY <1>1, SameData DEF data
<1>5. Active' = Active
  BY <1>1 DEF Active, RowId
<1>6. ASSUME NEW u \in Request PROVE JobShape(u)' /\ LockShape(u)' /\ LabelShape(u)'
  <2>1. JobShape(u) /\ LockShape(u) /\ LabelShape(u)
    BY <1>1
  <2>2. JobShape(u)'
    BY <1>1, <2>1 DEF JobShape, StatusJob, RoleJob, OwnerJob, CapJob, AddJob, ApplyJob, AcceptJob,
       SettleJob, RowRead, Fresh, Live, Gone, Role, RowId, AppId
  <2>3. LockShape(u)'
    BY <1>1, <1>5, <2>1 DEF LockShape, StatusLock, InsertLock, OwnerLock, CapLock, Counted,
       Reserved, ClubHolder, Doing,
       HasCapacity, VersionFree, AdminTransition
  <2>4. LabelShape(u)'
    BY <1>1, <2>1 DEF LabelShape
  <2> QED
    BY <2>2, <2>3, <2>4
<1>7. SoleDecider'
  BY <1>1 DEF SoleDecider
<1> QED
  BY <1>2, <1>3, <1>4, <1>6, <1>7 DEF IInv, DataInv

\* Every step keeps it.
LEMMA NextKeeps == IInv /\ [Next]_vars => IInv'
<1> SUFFICES ASSUME IInv, [Next]_vars PROVE IInv'
  OBVIOUS
<1>1. ASSUME NEW t \in Request, Begin(t) PROVE IInv'
  BY <1>1, ReadForStatusKeeps, ReadForRoleKeeps, OtherReadsKeep, LockForAcceptKeeps,
     LockForSettlingKeeps
  DEF Begin
<1>4. ASSUME NEW t \in Request, Announce(t) \/ WithdrawQuietly(t) PROVE IInv'
  BY <1>4, SettleKeeps DEF Announce, WithdrawQuietly, Doing
<1>2. ASSUME NEW t \in Request, Continue(t) PROVE IInv'
  BY <1>2, <1>4, AssertClubHasCapacityKeeps, LockClubForStatusKeeps, WriteStatusKeeps,
     InsertActiveVersionKeeps, WriteActiveKeeps, CheckOwnerKeeps,
     WriteRoleKeeps, LockClubForOwnerKeeps, WriteOwnerKeeps, LockCapacityKeeps, LockClubForCapKeeps,
     WriteCapKeeps, WriteAddKeeps, WriteApplicationKeeps, AcceptNewKeeps, AcceptCancelledKeeps,
     UpdatePhaseKeeps
  DEF Continue
<1>3. ASSUME NEW t \in Request, Abort(t) PROVE IInv'
  BY <1>3, RefuseKeeps DEF Abort
<1>5. ASSUME NEW m \in Member, BlockExpires(m) PROVE IInv'
  BY <1>5, BlockExpiresKeeps
<1>6. CASE UNCHANGED vars
  BY <1>6, StutterKeeps
<1> QED
  BY <1>1, <1>2, <1>3, <1>4, <1>5, <1>6 DEF Next

\* The invariant holds in every reachable state.
LEMMA Invariant == Spec => []IInv
BY InitKeeps, NextKeeps, PTL DEF Spec

\* Every variable keeps its type, and only a request in progress holds a lock.
THEOREM TypeCorrect == Spec => []TypeOK
BY Invariant, TypeParts, PTL DEF IInv

\* The club never has more active members than its cap, however many requests
\* accept, reactivate, add and lower the cap at once (assertClubHasCapacity,
\* updateClub).
THEOREM CapIsRespected == Spec => []CapRespected
BY Invariant, PTL DEF IInv

\* The owner always has an active membership (assignClubOwner,
\* assertAdminStatusChangeAllowed).
THEOREM OwnerIsActive == Spec => []OwnerStaysActive
BY Invariant, PTL DEF IInv

\* A member all of whose memberships were removed or banned is blocked
\* (writeApplicantBlock, clearApplicantBlock).
THEOREM OutsidersAreBlocked == Spec => []OutsiderBlocked
BY Invariant, PTL DEF IInv

\* An application that reads active led to a membership of its applicant that
\* is neither removed nor banned (applyMembershipApplicationEffects).
THEOREM ApplicationsAreLive == Spec => []ActiveApplicationsLive
<1>1. IInv => ActiveApplicationsLive
  BY DEF IInv, AppShape, AppShapeOf, ActiveApplicationsLive
<1> QED
  BY <1>1, Invariant, PTL

-----------------------------------------------------------------------------
(* What a step may do to a row and to an application that is closed.       *)

Legal(r) ==
    (row[r] # NoRow /\ row'[r].status # row[r].status)
        => <<row[r].status, row'[r].status>> \in LegalTransition

Final(a) ==
    (app[a].phase \in Closed /\ app'[a] # app[a])
        => app[a].membership # 0 /\ app'[a].phase \in Gone

\* A status change that commits leaves the status that was read, and only
\* applications that led to a membership follow it.
LEMMA StatusStep ==
    ASSUME IInv, NEW t \in Request, WriteStatus(t) \/ WriteActive(t)
    PROVE  (\A r \in RowId : Legal(r)) /\ (\A a \in AppId : Final(a))
<1> DEFINE q == got[t].row
           to == job[t].to
<1>1. /\ DataOK /\ StatusJob(t) /\ StatusLock(t) /\ Reserved(t) /\ job[t].op = "status"
      /\ \/ pc[t] = "write" /\ to # "active"
         \/ pc[t] = "fanout"
  BY DEF IInv, JobShape, LockShape, WriteStatus, WriteActive, Doing
<1>2. CASE UNCHANGED data
  BY <1>2 DEF data, Legal, Final
<1>3. CASE /\ VersionFree(t)
           /\ row' = [row EXCEPT ![q].status = to, ![q].version = @ + 1]
           /\ app' = AppsAfter(q, to)
  <2>1. /\ q \in RowId /\ row[q].member \in Member /\ row[q].status = got[t].status
        /\ to \in Live \cup Gone /\ (to = "active" => got[t].status \in Gone)
        /\ to # "active" => <<got[t].status, to>> \in AdminTransition
    BY <1>1, <1>3 DEF StatusJob, RowRead, Fresh, VersionFree, StatusLock, Reserved, Doing
  <2>2. row[q] \in Membership
    BY <1>1, <2>1, RowOfMember
  <2>3. row'[q].status = to /\ \A r \in RowId \ {q} : row'[r] = row[r]
    BY <1>1, <1>3, <2>1, <2>2 DEF DataOK, Membership
  <2>4. <<row[q].status, to>> \in LegalTransition
    BY <2>1 DEF LegalTransition, AdminTransition, Gone
  <2>5. ASSUME NEW r \in RowId PROVE Legal(r)
    BY <2>3, <2>4 DEF Legal
  <2>6. app' = [a \in AppId |-> IF to \in Gone /\ app[a].membership = q
                               THEN [app[a] EXCEPT !.phase = to] ELSE app[a]]
    BY <1>3 DEF AppsAfter
  <2> HIDE DEF q, to
  <2>7. ASSUME NEW a \in AppId PROVE Final(a)
    <3> SUFFICES ASSUME app[a].phase \in Closed, app'[a] # app[a]
                 PROVE  app[a].membership # 0 /\ app'[a].phase \in Gone
      BY DEF Final
    <3>1. /\ to \in Gone /\ app[a].membership = q
          /\ app'[a] = [app[a] EXCEPT !.phase = to]
      BY <2>6
    <3>2. app[a] \in Application /\ q # 0
      BY <1>1, <2>1 DEF DataOK, NoApp, Closed, RowId
    <3>3. app'[a].phase = to
      BY <3>1, <3>2 DEF Application
    <3> QED
      BY <3>1, <3>2, <3>3
  <2> QED
    BY <2>5, <2>7
<1> QED
  BY <1>1, <1>2, <1>3 DEF WriteStatus, WriteActive, NewStatus, Reserved, Doing

\* An acceptance closes an application that awaited review, and activates a row
\* that is new or cancelled.
LEMMA AcceptStep ==
    ASSUME IInv, NEW t \in Request, AcceptNew(t) \/ AcceptCancelled(t)
    PROVE  (\A r \in RowId : Legal(r)) /\ (\A a \in AppId : Final(a))
<1> DEFINE q == got[t].row
<1>1. DataOK /\ AcceptJob(t) /\ Reserved(t) /\ job[t].op = "accept"
  BY DEF IInv, JobShape, LockShape, AcceptNew, AcceptCancelled, Doing
<1>2. job[t].n \in AppId /\ app[job[t].n].phase \notin Closed
  BY <1>1 DEF AcceptJob, Doing, Closed
<1>3. ASSUME NEW r \in RowId, Accepted(job[t].n, r), NEW a \in AppId PROVE Final(a)
  <2>1. a # job[t].n => app'[a] = app[a]
    BY <1>1, <1>2, <1>3 DEF Accepted, DataOK
  <2> QED
    BY <1>2, <2>1 DEF Final
<1>4. CASE UNCHANGED <<row, app>>
  BY <1>4 DEF Legal, Final
<1>5. CASE \E r \in RowId : InsertRow(r, job[t].member, "member") /\ Accepted(job[t].n, r)
  <2>1. PICK r \in RowId : InsertRow(r, job[t].member, "member") /\ Accepted(job[t].n, r)
    BY <1>5
  <2>2. row[r] = NoRow /\ \A x \in RowId \ {r} : row'[x] = row[x]
    BY <1>1, <2>1 DEF InsertRow, DataOK
  <2>3. \A x \in RowId : Legal(x)
    BY <2>2 DEF Legal
  <2> QED
    BY <1>3, <2>1, <2>3
<1>6. CASE /\ q # 0 /\ VersionFree(t) /\ Accepted(job[t].n, q)
           /\ row' = [row EXCEPT ![q].status = "active", ![q].version = @ + 1]
  <2>1. q \in RowId /\ row[q].member \in Member /\ row[q].status = "cancelled"
    BY <1>1, <1>6 DEF AcceptJob, RowRead, Fresh, VersionFree, Doing
  <2>2. row[q] \in Membership
    BY <1>1, <2>1, RowOfMember
  <2>3. row'[q].status = "active" /\ \A r \in RowId \ {q} : row'[r] = row[r]
    BY <1>1, <1>6, <2>1, <2>2 DEF DataOK, Membership
  <2>4. ASSUME NEW r \in RowId PROVE Legal(r)
    BY <2>1, <2>3 DEF Legal, LegalTransition
  <2>5. ASSUME NEW a \in AppId PROVE Final(a)
    BY <1>3, <1>6, <2>1
  <2> QED
    BY <2>4, <2>5
<1> QED
  BY <1>1, <1>4, <1>5, <1>6 DEF AcceptNew, AcceptCancelled, Reserved, Doing

\* A role that is written and a transfer change no status.
LEMMA RoleStep ==
    ASSUME IInv, NEW t \in Request, WriteRole(t) \/ WriteOwner(t)
    PROVE  (\A r \in RowId : Legal(r)) /\ app' = app
<1>1. CASE WriteRole(t)
  <2>1. /\ DataOK /\ RoleJob(t) /\ Doing(t, "role", "write") /\ app' = app
        /\ row' = [row EXCEPT ![got[t].row].role = job[t].to]
    BY <1>1 DEF IInv, JobShape, WriteRole
  <2>2. got[t].row \in RowId /\ row[got[t].row].member \in Member
    BY <2>1 DEF RoleJob, RowRead, Doing
  <2>3. row[got[t].row] \in Membership
    BY <2>1, <2>2, RowOfMember
  <2>4. \A r \in RowId : row'[r].status = row[r].status
    BY <2>1, <2>2, <2>3 DEF DataOK, Membership
  <2> QED
    BY <2>1, <2>4 DEF Legal
<1>2. CASE WriteOwner(t) /\ ~ UNCHANGED data
  BY <1>2, TransferWrites DEF Legal
<1>3. CASE UNCHANGED data
  BY <1>3 DEF data, Legal
<1> QED
  BY <1>1, <1>2, <1>3

\* A new membership and a new application replace nothing.
LEMMA NewStep ==
    ASSUME IInv, NEW t \in Request, WriteAdd(t) \/ WriteApplication(t)
    PROVE  (\A r \in RowId : Legal(r)) /\ (\A a \in AppId : Final(a))
<1>1. DataOK
  BY DEF IInv
<1>2. CASE WriteAdd(t)
  <2>1. app' = app
    BY <1>2 DEF WriteAdd, data
  <2>2. row' = row \/ \E r \in RowId : InsertRow(r, job[t].member, job[t].to)
    BY <1>2 DEF WriteAdd, data
  <2>3. ASSUME NEW r \in RowId PROVE Legal(r)
    BY <1>1, <2>2 DEF InsertRow, DataOK, Legal
  <2> QED
    BY <2>1, <2>3 DEF Final
<1>3. CASE WriteApplication(t)
  <2>1. row' = row
    BY <1>3 DEF WriteApplication, data
  <2>2. \/ app' = app
        \/ \E b \in AppId, phase \in Open :
             /\ app[b] = NoApp
             /\ app' = [app EXCEPT ![b] = [member |-> job[t].member, phase |-> phase,
                                           membership |-> 0]]
    BY <1>3 DEF WriteApplication, data
  <2>3. ASSUME NEW a \in AppId PROVE Final(a)
    BY <1>1, <2>2 DEF DataOK, NoApp, Closed, Final
  <2> QED
    BY <2>1, <2>3 DEF Legal
<1> QED
  BY <1>2, <1>3

\* What is settled was open.
LEMMA OpenStep ==
    ASSUME IInv, NEW t \in Request, Announce(t) \/ WithdrawQuietly(t)
    PROVE  row' = row /\ (\A a \in AppId : Final(a))
<1> DEFINE n == job[t].n
<1>1. /\ DataOK /\ job[t].op = "settle" /\ JobShape(t) /\ row' = row
      /\ app' = [app EXCEPT ![n].phase = job[t].to]
  BY DEF IInv, Announce, WithdrawQuietly, Settle, Doing
<1>2. app[n].phase \notin Closed
  BY <1>1 DEF JobShape, SettleJob, Open, Closed
<1>3. ASSUME NEW a \in AppId PROVE Final(a)
  <2>1. a # n => app'[a] = app[a]
    BY <1>1 DEF DataOK
  <2> QED
    BY <1>2, <2>1 DEF Final
<1> QED
  BY <1>1, <1>3

\* The other steps write neither.
LEMMA OtherStep ==
    ASSUME NEW t \in Request,
           \/ Begin(t) \/ Abort(t) \/ AssertClubHasCapacity(t) \/ LockClubForStatus(t)
           \/ InsertActiveVersion(t) \/ CheckOwner(t) \/ LockClubForOwner(t)
           \/ LockCapacity(t) \/ LockClubForCap(t)
           \/ WriteCap(t) \/ UpdatePhase(t)
    PROVE  row' = row /\ app' = app
<1>1. CASE Begin(t)
  BY <1>1 DEF Begin, ReadForStatus, ReadForRole, ReadForOwner, AskForCap, ReadForAdd,
     ReadForApply,
     LockForSettling, LockForAccept, Start, data
<1>2. CASE ~ Begin(t)
  BY <1>2 DEF Abort, Refuse, AssertClubHasCapacity, LockClubForStatus, InsertActiveVersion,
     CheckOwner,
     LockClubForOwner, LockCapacity, LockClubForCap, WriteCap, UpdatePhase, data
<1> QED
  BY <1>1, <1>2

\* Every step is one of these.
LEMMA EveryStep ==
    ASSUME IInv, [Next]_vars
    PROVE  (\A r \in RowId : Legal(r)) /\ (\A a \in AppId : Final(a))
<1>1. (row' = row => \A r \in RowId : Legal(r)) /\ (app' = app => \A a \in AppId : Final(a))
  BY DEF Legal, Final
<1>2. ASSUME NEW t \in Request, Begin(t) \/ Abort(t)
      PROVE  (\A r \in RowId : Legal(r)) /\ (\A a \in AppId : Final(a))
  BY <1>1, <1>2, OtherStep
<1>3. ASSUME NEW t \in Request, Continue(t)
      PROVE  (\A r \in RowId : Legal(r)) /\ (\A a \in AppId : Final(a))
  BY <1>1, <1>3, OtherStep, StatusStep, AcceptStep, RoleStep, NewStep, OpenStep DEF Continue
<1>5. ASSUME NEW m \in Member, BlockExpires(m) PROVE row' = row /\ app' = app
  BY <1>5 DEF BlockExpires
<1>6. CASE UNCHANGED vars
  BY <1>1, <1>6 DEF vars
<1> QED
  BY <1>1, <1>2, <1>3, <1>5, <1>6 DEF Next

\* A status changes along a transition the code allows, from the status the
\* membership has when the change commits (resolveStatusChange, the unique
\* version of club_membership_state_versions).
THEOREM TransitionsAreLegal == Spec => TransitionsLegal
<1>1. IInv /\ [Next]_vars =>
        [\A r \in RowId :
           (row[r] # NoRow /\ row'[r].status # row[r].status)
              => <<row[r].status, row'[r].status>> \in LegalTransition]_vars
  BY EveryStep DEF Legal
<1> QED
  BY <1>1, Invariant, PTL DEF Spec, TransitionsLegal

\* A closed application stays as it was decided, and only the end of the
\* membership it led to is recorded on it (decideClubApplication,
\* applyMembershipApplicationEffects).
THEOREM DecisionsStand == Spec => DecisionStands
<1>1. IInv /\ [Next]_vars =>
        [\A a \in AppId :
           (app[a].phase \in Closed /\ app'[a] # app[a])
              => app[a].membership # 0 /\ app'[a].phase \in Gone]_vars
  BY EveryStep DEF Final
<1> QED
  BY <1>1, Invariant, PTL DEF Spec, DecisionStands

=============================================================================
