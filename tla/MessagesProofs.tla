--------------------------- MODULE MessagesProofs ---------------------------
(***************************************************************************)
(* Theorems about Messages: two members have one thread, no sender exceeds *)
(* the quota, few messages are untold and paging misses none, for any      *)
(* number of requests, messages, times and any size of a page.             *)
(*                                                                         *)
(* Joint is the invariant of the first: who has passed the insert of the   *)
(* thread relies on a thread that is committed or its own, and so does     *)
(* every message.  Paced is that of the second: who has counted holds the  *)
(* lock of its sender, and only who holds it has uncommitted messages from *)
(* that sender, so the count stays below the quota until its own message.  *)
(* Serial says that messages are written one after the other, under the    *)
(* row of the statistics, so that what is sent stays; Reading says where   *)
(* a reader is on its way through the thread, Overlap who may still write  *)
(* a message older than the thread.                                        *)
(*                                                                         *)
(* The last sections are about the other thing members are told,           *)
(* Notifications, an instance of which is declared there: one row per key, *)
(* answers that are true, a limit per window, decisions that stay quiet.   *)
(***************************************************************************)
EXTENDS Messages, Sequences, FiniteSetTheorems, WellFoundedInduction, TLAPS

Label == {"idle", "begin", "count", "thread", "write", "commit", "remove"}

\* The labels at which a request has a sender, and at which it holds the sender's quota.
Sending == {"begin", "count", "thread", "write", "commit"}
Holding == {"thread", "write", "commit"}

ThreadRow == [by : Member \cup {Nobody}, owner : Request \cup {Nobody}, joined : Time \cup {None}]
MessageRow == [from : Member \cup {Nobody}, at : Time \cup {None}, owner : Request \cup {Nobody},
               acked : BOOLEAN, removed : BOOLEAN]
JobRow == [from : Member \cup {Nobody}, at : Time \cup {None}, message : MessageId \cup {None}]

Types ==
    /\ thread \in ThreadRow
    /\ message \in [MessageId -> MessageRow]
    /\ quotaLock \in [Member -> Request \cup {Nobody}]
    /\ clock \in Time
    /\ label \in [Request -> Label]
    /\ job \in [Request -> JobRow]
    /\ \A r \in Request : label[r] \in Sending => job[r].from \in Member

LEMMA Strangers == Nobody \notin Request /\ Nobody \notin Member
BY MessageAssumption

LEMMA EmptyRows == NoThread \in ThreadRow /\ NoMessage \in MessageRow /\ NoJob \in JobRow
BY DEF NoThread, ThreadRow, NoMessage, MessageRow, NoJob, JobRow

-----------------------------------------------------------------------------
(* Types *)

LEMMA InitTypes == Init => Types
<1> SUFFICES ASSUME Init PROVE Types
  OBVIOUS
<1>1. 1 \in Time
  BY MessageAssumption DEF Time
<1> QED
  BY <1>1, EmptyRows DEF Init, Types, Label, Sending

JobTypes ==
    /\ label \in [Request -> Label]
    /\ job \in [Request -> JobRow]
    /\ \A r \in Request : label[r] \in Sending => job[r].from \in Member

LEMMA MovesTypes ==
    ASSUME Types, NEW r \in Request, NEW to \in Label, NEW j \in JobRow, Moves(r, to, j),
           to \in Sending => j.from \in Member
    PROVE  JobTypes'
BY DEF Types, JobTypes, Moves

LEMMA EndsTypes == ASSUME Types, NEW r \in Request, Ends(r) PROVE JobTypes'
BY EmptyRows, MovesTypes DEF Ends, Label, Sending

LEMMA UnlockedTypes ==
    ASSUME Types, NEW r \in Request, Unlocked(r)
    PROVE  quotaLock' \in [Member -> Request \cup {Nobody}]
BY DEF Types, Unlocked

LEMMA FailsTypes == ASSUME Types, NEW r \in Request, Fails(r) PROVE Types'
<1>1. JobTypes'
  BY EndsTypes DEF Fails
<1>2. quotaLock' \in [Member -> Request \cup {Nobody}]
  BY UnlockedTypes DEF Fails
<1>3. thread' \in ThreadRow
  BY EmptyRows DEF Fails, Types
<1>4. message' \in [MessageId -> MessageRow]
  BY EmptyRows DEF Fails, Types
<1> QED
  BY <1>1, <1>2, <1>3, <1>4 DEF Types, JobTypes, Fails, world

\* Rows of messages after an edit of one field.
LEMMA EditTypes ==
    ASSUME NEW x \in MessageRow, NEW b \in BOOLEAN
    PROVE  /\ [x EXCEPT !.owner = Nobody] \in MessageRow
           /\ [x EXCEPT !.acked = b] \in MessageRow
           /\ [x EXCEPT !.removed = b] \in MessageRow
BY DEF MessageRow

LEMMA TypesKept == Types /\ [Next]_vars => Types'
<1> SUFFICES ASSUME Types, [Next]_vars PROVE Types'
  OBVIOUS
<1>1. ASSUME NEW r \in Request, NEW m \in Member, SendChecks(r, m) PROVE Types'
  <2>1. [NoJob EXCEPT !.from = m] \in JobRow /\ [NoJob EXCEPT !.from = m].from = m
    BY DEF NoJob, JobRow
  <2>2. JobTypes'
    BY <1>1, <2>1, MovesTypes DEF SendChecks, Label
  <2> QED
    BY <1>1, <2>2 DEF SendChecks, Types, JobTypes, locks, world
<1>2. ASSUME NEW r \in Request, SendBegins(r) PROVE Types'
  <2>1. [job[r] EXCEPT !.at = clock] \in JobRow /\ [job[r] EXCEPT !.at = clock].from = job[r].from
    BY DEF Types, JobRow
  <2>2. JobTypes'
    BY <1>2, <2>1, MovesTypes DEF SendBegins, Types, Label, Sending
  <2> QED
    BY <1>2, <2>2 DEF SendBegins, Types, JobTypes, locks, world
<1>3. ASSUME NEW r \in Request, SendCounts(r) PROVE Types'
  <2>1. job[r] \in JobRow /\ job[r].from \in Member
    BY <1>3 DEF SendCounts, Types, Sending
  <2>2. JobTypes'
    BY <1>3, <2>1, MovesTypes DEF SendCounts, Label
  <2>3. quotaLock' \in [Member -> Request \cup {Nobody}]
    BY <1>3 DEF SendCounts, Types
  <2> QED
    BY <1>3, <2>2, <2>3 DEF SendCounts, Types, JobTypes, world
<1>4. ASSUME NEW r \in Request, QuotaRefuses(r) \/ Abort(r) PROVE Types'
  BY <1>4, FailsTypes DEF QuotaRefuses, Abort
<1>5. ASSUME NEW r \in Request, SendFindsThread(r) PROVE Types'
  <2>1. job[r] \in JobRow /\ job[r].from \in Member
    BY <1>5 DEF SendFindsThread, Types, Sending
  <2>2. JobTypes'
    BY <1>5, <2>1, MovesTypes DEF SendFindsThread, Label
  <2>3. [by |-> job[r].from, owner |-> r, joined |-> job[r].at] \in ThreadRow
    BY <2>1 DEF JobRow, ThreadRow
  <2>4. thread' \in ThreadRow
    BY <1>5, <2>3 DEF SendFindsThread, Types
  <2> QED
    BY <1>5, <2>2, <2>4 DEF SendFindsThread, Types, JobTypes, locks, world
<1>6. ASSUME NEW r \in Request, SendWrites(r) PROVE Types'
  <2>1. job[r] \in JobRow /\ job[r].from \in Member
    BY <1>6 DEF SendWrites, Types, Sending
  <2>2. JobTypes'
    BY <1>6, <2>1, MovesTypes DEF SendWrites, Label
  <2>3. [NoMessage EXCEPT !.from = job[r].from, !.at = job[r].at, !.owner = r] \in MessageRow
    BY <2>1 DEF JobRow, MessageRow, NoMessage
  <2>4. message' \in [MessageId -> MessageRow]
    BY <1>6, <2>3 DEF SendWrites, Types
  <2> QED
    BY <1>6, <2>2, <2>4 DEF SendWrites, Types, JobTypes, world
<1>7. ASSUME NEW r \in Request, SendCommits(r) PROVE Types'
  <2>1. JobTypes' /\ quotaLock' \in [Member -> Request \cup {Nobody}]
    BY <1>7, EndsTypes, UnlockedTypes DEF SendCommits
  <2>2. message' \in [MessageId -> MessageRow]
    <3>1. ASSUME NEW n \in MessageId
          PROVE  /\ message[n] \in MessageRow
                 /\ [message[n] EXCEPT !.owner = Nobody] \in MessageRow
                 /\ [message[n] EXCEPT !.acked = TRUE] \in MessageRow
      BY EditTypes DEF Types
    <3> QED
      BY <1>7, <3>1 DEF SendCommits
  <2>3. thread' \in ThreadRow
    BY <1>7 DEF SendCommits, Types, ThreadRow
  <2> QED
    BY <1>7, <2>1, <2>2, <2>3 DEF SendCommits, Types, JobTypes, world
<1>8. ASSUME NEW m \in Member, Acknowledge(m) PROVE Types'
  <2>1. message' \in [MessageId -> MessageRow]
    <3>1. ASSUME NEW n \in MessageId
          PROVE  message[n] \in MessageRow /\ [message[n] EXCEPT !.acked = TRUE] \in MessageRow
      BY EditTypes DEF Types
    <3> QED
      BY <1>8, <3>1 DEF Acknowledge
  <2> QED
    BY <1>8, <2>1 DEF Acknowledge, Types, locks, world
<1>9. ASSUME NEW r \in Request, NEW n \in MessageId, RemoveReads(r, n) PROVE Types'
  <2>1. [NoJob EXCEPT !.message = n] \in JobRow
    BY DEF NoJob, JobRow
  <2>2. JobTypes'
    BY <1>9, <2>1, MovesTypes DEF RemoveReads, Label, Sending
  <2> QED
    BY <1>9, <2>2 DEF RemoveReads, Types, JobTypes, locks, world
<1>10. ASSUME NEW r \in Request, RemoveInserts(r) PROVE Types'
  <2>1. JobTypes'
    BY <1>10, EndsTypes DEF RemoveInserts
  <2>2. message' \in [MessageId -> MessageRow]
    <3>1. ASSUME NEW n \in MessageId
          PROVE  message[n] \in MessageRow /\ [message[n] EXCEPT !.removed = TRUE] \in MessageRow
      BY EditTypes DEF Types
    <3> QED
      BY <1>10, <3>1 DEF RemoveInserts, Types
  <2> QED
    BY <1>10, <2>1, <2>2 DEF RemoveInserts, Types, JobTypes, locks, world
<1>11. CASE Tick
  <2>1. clock' \in Time
    BY <1>11, MessageAssumption DEF Tick, Types, Time
  <2> QED
    BY <1>11, <2>1 DEF Tick, Types, locks
<1>12. CASE UNCHANGED <<thread, message, quotaLock, clock, label, job>>
  BY <1>12 DEF Types
<1>13. CASE ReadPage \/ ReadEnds \/ PartWays \/ UNCHANGED vars
  BY <1>12, <1>13 DEF ReadPage, ReadEnds, PartWays, vars, locks
<1> QED
  BY <1>1, <1>2, <1>3, <1>4, <1>5, <1>6, <1>7, <1>8, <1>9, <1>10, <1>11, <1>13
     DEF Next, Sends, Removes

-----------------------------------------------------------------------------
(* One thread *)

Written == {"write", "commit"}

Joint ==
    /\ OneThread
    /\ \A r \in Request : label[r] \in Written => Thread /\ thread.owner \in {Nobody, r}

\* Steps that leave the thread, the owners of messages and those who have passed it.
LEMMA JointKept ==
    ASSUME Joint, UNCHANGED thread,
           \A n \in MessageId : Exists(n)' => Exists(n) /\ message'[n].owner = message[n].owner,
           \A r \in Request : label'[r] \in Written => label[r] \in Written
    PROVE  Joint'
<1>1. OneThread'
  BY DEF Joint, OneThread, Thread
<1>2. ASSUME NEW r \in Request, label'[r] \in Written
      PROVE  Thread' /\ thread'.owner \in {Nobody, r}
  BY <1>2 DEF Joint, Thread
<1> QED
  BY <1>1, <1>2 DEF Joint

LEMMA MovesLabel ==
    ASSUME Types, NEW r \in Request, NEW to, NEW j, Moves(r, to, j)
    PROVE  /\ label'[r] = to /\ job'[r] = j
           /\ \A q \in Request \ {r} : label'[q] = label[q] /\ job'[q] = job[q]
BY DEF Types, Moves

LEMMA EndsLabel ==
    ASSUME Types, NEW r \in Request, Ends(r)
    PROVE  /\ label'[r] = "idle" /\ job'[r] = NoJob
           /\ \A q \in Request \ {r} : label'[q] = label[q] /\ job'[q] = job[q]
BY MovesLabel DEF Ends

LEMMA FailsJoint == ASSUME Types, Joint, NEW r \in Request, Fails(r) PROVE Joint'
<1>1. /\ label'[r] = "idle"
      /\ \A q \in Request \ {r} : label'[q] = label[q]
  BY EndsLabel DEF Fails
<1>2. \A n \in MessageId : message'[n] = IF message[n].owner = r THEN NoMessage ELSE message[n]
  BY DEF Fails
<1>3. CASE thread.owner = r
  <2>1. r # Nobody
    BY Strangers
  <2>2. \A n \in MessageId : ~Exists(n)'
    BY <1>2, <1>3, <2>1 DEF Joint, OneThread, Exists, NoMessage
  <2>3. \A q \in Request : label'[q] \notin Written
    BY <1>1, <1>3, <2>1 DEF Joint, Written
  <2> QED
    BY <2>2, <2>3 DEF Joint, OneThread
<1>4. CASE thread.owner # r
  <2>1. thread' = thread
    BY <1>4 DEF Fails
  <2>2. \A n \in MessageId : Exists(n)' => Exists(n) /\ message'[n].owner = message[n].owner
    BY <1>2 DEF Exists, NoMessage
  <2>3. \A q \in Request : label'[q] \in Written => label[q] \in Written
    BY <1>1 DEF Written
  <2> QED
    BY <2>1, <2>2, <2>3, JointKept
<1> QED
  BY <1>3, <1>4

LEMMA FindsJoint == ASSUME Types, Joint, NEW r \in Request, SendFindsThread(r) PROVE Joint'
<1>1. label'[r] = "write" /\ \A q \in Request \ {r} : label'[q] = label[q]
  BY MovesLabel DEF SendFindsThread
<1>2. Usable(r) /\ UNCHANGED message /\ job[r].from \in Member /\ r # Nobody
  BY Strangers DEF SendFindsThread, ThreadSettled, Types, Sending
<1>3. CASE Thread
  <2>1. thread' = thread
    BY <1>2, <1>3 DEF SendFindsThread
  <2>2. OneThread'
    BY <1>2, <2>1 DEF Joint, OneThread, Exists, Thread
  <2>3. \A q \in Request : label'[q] \in Written => Thread' /\ thread'.owner \in {Nobody, q}
    BY <1>1, <1>2, <1>3, <2>1 DEF Joint, Thread, Usable
  <2> QED
    BY <2>2, <2>3 DEF Joint
<1>4. CASE ~Thread
  <2>1. thread' = [by |-> job[r].from, owner |-> r, joined |-> job[r].at]
    BY <1>4 DEF SendFindsThread
  <2>2. \A n \in MessageId : ~Exists(n)'
    BY <1>2, <1>4 DEF Joint, OneThread, Exists
  <2>3. Thread' /\ thread'.owner = r
    BY <1>2, <2>1, Strangers DEF Thread
  <2>4. \A q \in Request : label'[q] \in Written => q = r
    BY <1>1, <1>4 DEF Joint
  <2> QED
    BY <2>2, <2>3, <2>4 DEF Joint, OneThread
<1> QED
  BY <1>3, <1>4

LEMMA WritesJoint == ASSUME Types, Joint, NEW r \in Request, SendWrites(r) PROVE Joint'
<1>1. label'[r] = "commit" /\ \A q \in Request \ {r} : label'[q] = label[q]
  BY MovesLabel DEF SendWrites
<1>2. UNCHANGED thread /\ label[r] = "write"
  BY DEF SendWrites
<1>3. ASSUME NEW n \in MessageId, Exists(n)'
      PROVE  Thread' /\ thread'.owner \in {Nobody, message'[n].owner}
  <2>1. CASE message'[n] = message[n]
    BY <1>2, <1>3, <2>1 DEF Joint, OneThread, Exists, Thread
  <2>2. CASE message'[n].owner = r
    BY <1>2, <2>2 DEF Joint, Written, Thread
  <2>3. message'[n] = message[n] \/ message'[n].owner = r
    BY DEF SendWrites, Types, NoMessage
  <2> QED
    BY <2>1, <2>2, <2>3
<1>4. \A q \in Request : label'[q] \in Written => Thread' /\ thread'.owner \in {Nobody, q}
  BY <1>1, <1>2 DEF Joint, Written, Thread
<1> QED
  BY <1>3, <1>4 DEF Joint, OneThread

LEMMA CommitsJoint == ASSUME Types, Joint, NEW r \in Request, SendCommits(r) PROVE Joint'
<1>1. label'[r] = "idle" /\ \A q \in Request \ {r} : label'[q] = label[q]
  BY EndsLabel DEF SendCommits
<1>2. /\ thread'.by = thread.by
      /\ thread'.owner = IF thread.owner = r THEN Nobody ELSE thread.owner
  BY DEF SendCommits, Types, ThreadRow
<1>3. ASSUME NEW n \in MessageId, Exists(n)'
      PROVE  Thread' /\ thread'.owner \in {Nobody, message'[n].owner}
  <2>1. /\ message'[n].from = message[n].from
        /\ message'[n].owner = IF message[n].owner = r THEN Nobody ELSE message[n].owner
    <3>1. message[n] \in MessageRow
      BY DEF Types
    <3> QED
      BY <3>1 DEF SendCommits, MessageRow
  <2>2. Thread /\ thread.owner \in {Nobody, message[n].owner}
    BY <1>3, <2>1 DEF Joint, OneThread, Exists
  <2> QED
    BY <1>2, <2>1, <2>2 DEF Thread
<1>4. ASSUME NEW q \in Request, label'[q] \in Written
      PROVE  Thread' /\ thread'.owner \in {Nobody, q}
  <2>1. Thread /\ thread.owner \in {Nobody, q}
    BY <1>1, <1>4 DEF Joint, Written
  <2> QED
    BY <1>2, <2>1 DEF Thread
<1> QED
  BY <1>3, <1>4 DEF Joint, OneThread

LEMMA JointStep == Types /\ Joint /\ [Next]_vars => Joint'
<1> SUFFICES ASSUME Types, Joint, [Next]_vars PROVE Joint'
  OBVIOUS
<1>1. ASSUME UNCHANGED <<thread, message>>,
             \A r \in Request : label'[r] \in Written => label[r] \in Written
      PROVE  Joint'
  BY <1>1, JointKept DEF Exists
<1>2. ASSUME NEW r \in Request, NEW to, NEW j, Moves(r, to, j), to \notin Written,
             UNCHANGED <<thread, message>>
      PROVE  Joint'
  BY <1>1, <1>2, MovesLabel
<1>8. ASSUME NEW r \in Request, NEW m \in Member, SendChecks(r, m) PROVE Joint'
  BY <1>2, <1>8 DEF SendChecks, Written
<1>9. ASSUME NEW r \in Request, NEW n \in MessageId, RemoveReads(r, n) PROVE Joint'
  BY <1>2, <1>9 DEF RemoveReads, Written
<1>10. ASSUME NEW r \in Request, SendBegins(r) PROVE Joint'
  BY <1>2, <1>10 DEF SendBegins, Written
<1>11. ASSUME NEW r \in Request, SendCounts(r) PROVE Joint'
  BY <1>2, <1>11 DEF SendCounts, Written
<1>3. ASSUME NEW r \in Request, QuotaRefuses(r) \/ Abort(r) PROVE Joint'
  BY <1>3, FailsJoint DEF QuotaRefuses, Abort
<1>4. ASSUME NEW r \in Request, SendFindsThread(r) \/ SendWrites(r) \/ SendCommits(r) PROVE Joint'
  BY <1>4, FindsJoint, WritesJoint, CommitsJoint
<1>5. ASSUME NEW r \in Request, RemoveInserts(r) PROVE Joint'
  <2>1. \A n \in MessageId : message'[n].from = message[n].from /\ message'[n].owner = message[n].owner
    BY <1>5 DEF RemoveInserts, Types, MessageRow
  <2>2. label'[r] = "idle" /\ \A q \in Request \ {r} : label'[q] = label[q]
    BY <1>5, EndsLabel DEF RemoveInserts
  <2> QED
    BY <1>5, <2>1, <2>2, JointKept DEF RemoveInserts, Exists, Written
<1>6. ASSUME NEW m \in Member, Acknowledge(m) PROVE Joint'
  <2>1. \A n \in MessageId : message'[n].from = message[n].from /\ message'[n].owner = message[n].owner
    BY <1>6 DEF Acknowledge, Types, MessageRow
  <2> QED
    BY <1>6, <2>1, JointKept DEF Acknowledge, Exists
<1>7. CASE ReadPage \/ ReadEnds \/ PartWays \/ Tick \/ UNCHANGED vars
  <2>1. UNCHANGED <<thread, message, label>>
    BY <1>7 DEF ReadPage, ReadEnds, PartWays, Tick, vars
  <2> QED
    BY <1>1, <2>1
<1> QED
  BY <1>3, <1>4, <1>5, <1>6, <1>7, <1>8, <1>9, <1>10, <1>11 DEF Next, Sends, Removes

\* For any number of requests that send the first message of a pair at once, whichever of
\* them are rolled back, every message stands in a thread that outlives it (sendMessage and
\* the insert of dm_threads with on conflict do nothing).
THEOREM MessagesShareThread == Spec => []OneThread
<1>1. Init => Types /\ Joint
  <2> SUFFICES ASSUME Init PROVE Types /\ Joint
    OBVIOUS
  <2>1. Types
    BY InitTypes
  <2>2. Joint
    BY DEF Init, Joint, OneThread, Exists, NoMessage, Written
  <2> QED
    BY <2>1, <2>2
<1>2. Types /\ Joint /\ [Next]_vars => (Types /\ Joint)'
  BY TypesKept, JointStep
<1>3. Joint => OneThread
  BY DEF Joint
<1> QED
  BY <1>1, <1>2, <1>3, PTL DEF Spec

-----------------------------------------------------------------------------
(* The quota *)

Of(m) == {n \in MessageId : message[n].from = m}

Locked == \A r \in Request : label[r] \in Holding => quotaLock[job[r].from] = r

\* What is not committed belongs to a request that is about to commit it.
Owned ==
    \A n \in MessageId : \A r \in Request :
        message[n].owner = r => label[r] = "commit" /\ job[r].from = message[n].from

Room ==
    \A r \in Request, m \in Member :
        label[r] \in {"thread", "write"} /\ job[r].from = m => Cardinality(Of(m)) < Quota

Paced == Locked /\ Owned /\ Room /\ QuotaHolds

LEMMA Sizes == \A m \in Member : IsFiniteSet(Of(m)) /\ Cardinality(Of(m)) \in Nat
<1> SUFFICES ASSUME NEW m \in Member PROVE IsFiniteSet(Of(m)) /\ Cardinality(Of(m)) \in Nat
  OBVIOUS
<1>1. Of(m) \subseteq 1..MaxMessage /\ IsFiniteSet(1..MaxMessage)
  BY MessageAssumption, FS_Interval DEF Of, MessageId
<1> QED
  BY <1>1, FS_Subset, FS_CardinalityType

LEMMA ShrinkingSize ==
    ASSUME NEW m \in Member, Of(m)' \subseteq Of(m)
    PROVE  Cardinality(Of(m)') <= Cardinality(Of(m)) /\ Cardinality(Of(m)') \in Nat
BY Sizes, FS_Subset, FS_CardinalityType

LEMMA SmallerStaysWithin ==
    ASSUME QuotaHolds, \A n \in MessageId : message'[n].from \in {Nobody, message[n].from}
    PROVE  /\ QuotaHolds'
           /\ \A m \in Member : Cardinality(Of(m)) < Quota => Cardinality(Of(m)') < Quota
<1>1. ASSUME NEW m \in Member
      PROVE  Cardinality(Of(m)') <= Cardinality(Of(m)) /\ Cardinality(Of(m)') \in Nat
  <2>1. Of(m)' \subseteq Of(m)
    BY Strangers DEF Of
  <2> QED
    BY <2>1, ShrinkingSize
<1>2. \A m \in Member : Cardinality(Of(m)) \in Nat /\ Cardinality(Of(m)) <= Quota
  BY Sizes DEF QuotaHolds, Of
<1>3. \A m \in Member : Cardinality(Of(m)') <= Quota
  BY <1>1, <1>2, MessageAssumption
<1>4. \A m \in Member : Cardinality(Of(m)) < Quota => Cardinality(Of(m)') < Quota
  BY <1>1, <1>2, MessageAssumption
<1> QED
  BY <1>3, <1>4 DEF QuotaHolds, Of

\* A step of r that adds no message: the others keep their locks and their labels.
LEMMA PacedKept ==
    ASSUME Types, Types', Paced, NEW r \in Request,
           \A q \in Request \ {r} : label'[q] = label[q] /\ job'[q] = job[q],
           \A q \in Request \ {r}, m \in Member : quotaLock[m] = q => quotaLock'[m] = q,
           \A n \in MessageId : /\ message'[n].from \in {Nobody, message[n].from}
                                /\ message'[n].owner = Nobody \/
                                      /\ message'[n].owner = message[n].owner
                                      /\ message'[n].from = message[n].from
                                      /\ message[n].owner # r,
           label'[r] \in Holding => quotaLock'[job'[r].from] = r,
           \A m \in Member : label'[r] \in {"thread", "write"} /\ job'[r].from = m
                            => Cardinality(Of(m)) < Quota
    PROVE  Paced'
<1>1. Locked'
  <2> SUFFICES ASSUME NEW q \in Request, label'[q] \in Holding PROVE quotaLock'[job'[q].from] = q
    BY DEF Locked
  <2>1. CASE q # r
    <3>1. label[q] \in Holding /\ job'[q] = job[q] /\ quotaLock[job[q].from] = q
      BY <2>1 DEF Paced, Locked
    <3>2. job[q].from \in Member
      BY <3>1 DEF Types, Sending, Holding
    <3> QED
      BY <2>1, <3>1, <3>2
  <2> QED
    BY <2>1
<1>2. Owned'
  <2> SUFFICES ASSUME NEW n \in MessageId, NEW q \in Request, message'[n].owner = q
               PROVE  label'[q] = "commit" /\ job'[q].from = message'[n].from
    BY DEF Owned
  <2>1. message[n].owner = q /\ message'[n].from = message[n].from /\ q # r
    BY Strangers
  <2> QED
    BY <2>1 DEF Paced, Owned
<1>3. QuotaHolds' /\ \A m \in Member : Cardinality(Of(m)) < Quota => Cardinality(Of(m)') < Quota
  BY SmallerStaysWithin DEF Paced
<1>4. Room'
  <2>1. ASSUME NEW q \in Request, NEW m \in Member,
               label'[q] \in {"thread", "write"}, job'[q].from = m
        PROVE  Cardinality(Of(m)') < Quota
    <3>1. Cardinality(Of(m)) < Quota
      BY <2>1 DEF Paced, Room
    <3> QED
      BY <1>3, <3>1
  <2> QED
    BY <2>1 DEF Room
<1> QED
  BY <1>1, <1>2, <1>3, <1>4 DEF Paced

LEMMA WritesPaced == ASSUME Types, Types', Paced, NEW r \in Request, SendWrites(r) PROVE Paced'
<1> PICK m \in Member : m = job[r].from
  BY DEF SendWrites, Types, Sending
<1> PICK n \in MessageId : n = 1 + Cardinality({k \in MessageId : Exists(k)})
  BY DEF SendWrites
<1>1. /\ label[r] = "write" /\ UNCHANGED quotaLock
      /\ quotaLock[m] = r /\ Cardinality(Of(m)) < Quota
  BY DEF SendWrites, Paced, Locked, Room, Holding
<1>2. /\ label'[r] = "commit" /\ job'[r] = job[r]
      /\ \A q \in Request \ {r} : label'[q] = label[q] /\ job'[q] = job[q]
  BY MovesLabel DEF SendWrites
<1>3. /\ message'[n].from = m /\ message'[n].owner = r
      /\ \A k \in MessageId \ {n} : message'[k] = message[k]
  BY <1>1 DEF SendWrites, Types, NoMessage
<1>4. Locked'
  BY <1>1, <1>2 DEF Paced, Locked, Holding
<1>5. Owned'
  <2> SUFFICES ASSUME NEW k \in MessageId, NEW q \in Request, message'[k].owner = q
               PROVE  label'[q] = "commit" /\ job'[q].from = message'[k].from
    BY DEF Owned
  <2>1. CASE k = n
    BY <1>2, <1>3, <2>1
  <2>2. CASE k # n
    <3>1. message'[k] = message[k]
      BY <1>3, <2>2
    <3>2. label[q] = "commit" /\ job[q].from = message[k].from
      BY <3>1 DEF Paced, Owned
    <3>3. q # r
      BY <1>1, <3>2
    <3> QED
      BY <1>2, <3>1, <3>2, <3>3
  <2> QED
    BY <2>1, <2>2
<1>6. ASSUME NEW o \in Member, o # m
      PROVE  Cardinality(Of(o)') <= Cardinality(Of(o)) /\ Cardinality(Of(o)') \in Nat
  <2>1. Of(o)' \subseteq Of(o)
    BY <1>3, <1>6 DEF Of
  <2> QED
    BY <2>1, ShrinkingSize
<1>7. Cardinality(Of(m)') <= Quota
  <2>1. Of(m)' \subseteq Of(m) \cup {n}
    BY <1>3 DEF Of
  <2>2. IsFiniteSet(Of(m)) /\ Cardinality(Of(m)) \in Nat
    BY <1>1, Sizes
  <2>3. /\ IsFiniteSet(Of(m) \cup {n})
        /\ Cardinality(Of(m) \cup {n}) =
              IF n \in Of(m) THEN Cardinality(Of(m)) ELSE Cardinality(Of(m)) + 1
    BY <2>2, FS_AddElement
  <2>4. Cardinality(Of(m)') <= Cardinality(Of(m) \cup {n}) /\ Cardinality(Of(m)') \in Nat
    BY <2>1, <2>3, FS_Subset, FS_CardinalityType
  <2> QED
    BY <1>1, <2>2, <2>3, <2>4, MessageAssumption
<1>8. QuotaHolds'
  <2>1. ASSUME NEW o \in Member PROVE Cardinality(Of(o)') <= Quota
    <3>1. CASE o = m
      BY <1>7, <3>1
    <3>2. CASE o # m
      <4>1. Cardinality(Of(o)) <= Quota /\ Cardinality(Of(o)) \in Nat
        BY Sizes DEF Paced, QuotaHolds, Of
      <4> QED
        BY <1>6, <3>2, <4>1, MessageAssumption
    <3> QED
      BY <3>1, <3>2
  <2> QED
    BY <2>1 DEF QuotaHolds, Of
<1>9. Room'
  <2>1. ASSUME NEW q \in Request, NEW o \in Member,
               label'[q] \in {"thread", "write"}, job'[q].from = o
        PROVE  Cardinality(Of(o)') < Quota
    <3>1. q # r /\ label[q] \in {"thread", "write"} /\ job[q].from = o
      BY <1>2, <2>1
    <3>2. o # m
      BY <1>1, <3>1 DEF Paced, Locked, Holding
    <3>3. Cardinality(Of(o)) < Quota /\ Cardinality(Of(o)) \in Nat
      BY <3>1, Sizes DEF Paced, Room
    <3> QED
      BY <1>6, <3>2, <3>3, MessageAssumption
  <2> QED
    BY <2>1 DEF Room
<1> QED
  BY <1>4, <1>5, <1>8, <1>9 DEF Paced

\* Who ends gives back its own locks, and no message is left that it owns.
LEMMA EndsPaced ==
    ASSUME Types, Types', Paced, NEW r \in Request, Ends(r), Unlocked(r) \/ UNCHANGED quotaLock,
           \A n \in MessageId : /\ message'[n].from \in {Nobody, message[n].from}
                                /\ message'[n].owner = Nobody \/
                                      /\ message'[n].owner = message[n].owner
                                      /\ message'[n].from = message[n].from
                                      /\ message[n].owner # r
    PROVE  Paced'
<1>1. /\ label'[r] = "idle"
      /\ \A q \in Request \ {r} : label'[q] = label[q] /\ job'[q] = job[q]
  BY EndsLabel
<1>2. \A q \in Request \ {r}, m \in Member : quotaLock[m] = q => quotaLock'[m] = q
  BY DEF Unlocked
<1> QED
  BY <1>1, <1>2, PacedKept DEF Holding

\* A step that moves r to a label at which it holds nothing, and touches no message.
LEMMA MovesPaced ==
    ASSUME Types, Types', Paced, NEW r \in Request, NEW to, NEW j, Moves(r, to, j),
           label[r] # "commit", to \notin Holding, UNCHANGED <<message, quotaLock>>
    PROVE  Paced'
<1>1. /\ label'[r] = to
      /\ \A q \in Request \ {r} : label'[q] = label[q] /\ job'[q] = job[q]
  BY MovesLabel
<1>2. \A n \in MessageId : message[n].owner # r
  BY DEF Paced, Owned
<1> QED
  BY <1>1, <1>2, PacedKept DEF Holding

LEMMA PacedStep == Types /\ Types' /\ Paced /\ [Next]_vars => Paced'
<1> SUFFICES ASSUME Types, Types', Paced, [Next]_vars PROVE Paced'
  OBVIOUS
<1>1. ASSUME NEW r \in Request, NEW m \in Member, SendChecks(r, m) PROVE Paced'
  BY <1>1, MovesPaced DEF SendChecks, Holding, locks
<1>2. ASSUME NEW r \in Request, SendBegins(r) PROVE Paced'
  BY <1>2, MovesPaced DEF SendBegins, Holding, locks
<1>3. ASSUME NEW r \in Request, SendCounts(r) PROVE Paced'
  <2> PICK m \in Member : m = job[r].from
    BY <1>3 DEF SendCounts, Types, Sending
  <2>1. /\ label'[r] = "thread" /\ job'[r] = job[r]
        /\ \A q \in Request \ {r} : label'[q] = label[q] /\ job'[q] = job[q]
    BY <1>3, MovesLabel DEF SendCounts
  <2>2. /\ quotaLock[m] = Nobody /\ quotaLock' = [quotaLock EXCEPT ![m] = r]
        /\ UNCHANGED message /\ label[r] = "count" /\ Cardinality(SentBy(m)) < Quota
    BY <1>3 DEF SendCounts, QuotaFree
  <2>3. \A n \in MessageId : message[n].from = m => message[n].owner = Nobody
    <3> SUFFICES ASSUME NEW n \in MessageId, message[n].from = m, message[n].owner # Nobody
                 PROVE  FALSE
      OBVIOUS
    <3>1. message[n].owner \in Request
      BY DEF Types, MessageRow
    <3>2. label[message[n].owner] = "commit" /\ job[message[n].owner].from = m
      BY <3>1 DEF Paced, Owned
    <3>3. quotaLock[m] = message[n].owner
      BY <3>1, <3>2 DEF Paced, Locked, Holding
    <3> QED
      BY <2>2, <3>3
  <2>4. Cardinality(Of(m)) < Quota
    <3>1. Of(m) = SentBy(m)
      BY <2>3 DEF Of, SentBy
    <3> QED
      BY <2>2, <3>1
  <2>5. \A n \in MessageId : message[n].owner # r
    BY <2>2 DEF Paced, Owned
  <2>6. quotaLock'[m] = r
    BY <2>2 DEF Types
  <2>7. \A q \in Request \ {r}, o \in Member : quotaLock[o] = q => quotaLock'[o] = q
    BY <2>2, Strangers DEF Types
  <2> QED
    BY <2>1, <2>2, <2>4, <2>5, <2>6, <2>7, PacedKept
<1>4. ASSUME NEW r \in Request, Fails(r) PROVE Paced'
  <2>1. \A n \in MessageId : message'[n] = IF message[n].owner = r THEN NoMessage ELSE message[n]
    BY <1>4 DEF Fails
  <2> QED
    BY <1>4, <2>1, EndsPaced DEF Fails, NoMessage
<1>5. ASSUME NEW r \in Request, SendFindsThread(r) PROVE Paced'
  <2>1. /\ label'[r] = "write" /\ job'[r] = job[r]
        /\ \A q \in Request \ {r} : label'[q] = label[q] /\ job'[q] = job[q]
    BY <1>5, MovesLabel DEF SendFindsThread
  <2>2. UNCHANGED <<message, quotaLock>> /\ label[r] = "thread"
    BY <1>5 DEF SendFindsThread, locks
  <2>3. \A n \in MessageId : message[n].owner # r
    BY <2>2 DEF Paced, Owned
  <2>4. quotaLock[job[r].from] = r
    BY <2>2 DEF Paced, Locked, Holding
  <2>5. \A m \in Member : job[r].from = m => Cardinality(Of(m)) < Quota
    BY <2>2 DEF Paced, Room
  <2> QED
    BY <2>1, <2>2, <2>3, <2>4, <2>5, PacedKept
<1>6. ASSUME NEW r \in Request, SendWrites(r) PROVE Paced'
  BY <1>6, WritesPaced
<1>7. ASSUME NEW r \in Request, SendCommits(r) PROVE Paced'
  <2>1. \A n \in MessageId :
            /\ message'[n].from = message[n].from
            /\ message'[n].owner = IF message[n].owner = r THEN Nobody ELSE message[n].owner
    <3> SUFFICES ASSUME NEW n \in MessageId
                 PROVE  /\ message'[n].from = message[n].from
                        /\ message'[n].owner = IF message[n].owner = r THEN Nobody
                                               ELSE message[n].owner
      OBVIOUS
    <3>1. message[n] \in MessageRow
      BY DEF Types
    <3> QED
      BY <1>7, <3>1 DEF SendCommits, MessageRow
  <2> QED
    BY <1>7, <2>1, EndsPaced DEF SendCommits
<1>8. ASSUME NEW r \in Request, NEW n \in MessageId, RemoveReads(r, n) PROVE Paced'
  BY <1>8, MovesPaced DEF RemoveReads, Holding, locks
<1>9. ASSUME \A n \in MessageId : /\ message'[n].from = message[n].from
                                  /\ message'[n].owner = message[n].owner
      PROVE  \A m \in Member : Of(m)' = Of(m)
  BY <1>9 DEF Of
<1>10. ASSUME NEW r \in Request, RemoveInserts(r) PROVE Paced'
  <2>1. \A n \in MessageId : message'[n].from = message[n].from /\ message'[n].owner = message[n].owner
    BY <1>10 DEF RemoveInserts, Types, MessageRow
  <2>2. \A n \in MessageId : message[n].owner # r
    BY <1>10 DEF RemoveInserts, Paced, Owned
  <2> QED
    BY <1>10, <2>1, <2>2, EndsPaced DEF RemoveInserts, locks
<1>11. ASSUME UNCHANGED <<label, job, quotaLock>>,
              \A n \in MessageId : /\ message'[n].from = message[n].from
                                   /\ message'[n].owner = message[n].owner
       PROVE  Paced'
  <2>1. Locked' /\ Owned'
    BY <1>11 DEF Paced, Locked, Owned
  <2>2. Room'
    BY <1>9, <1>11 DEF Paced, Room
  <2>3. QuotaHolds'
    BY <1>11, SmallerStaysWithin DEF Paced
  <2> QED
    BY <2>1, <2>2, <2>3 DEF Paced
<1>12. ASSUME NEW m \in Member, Acknowledge(m) PROVE Paced'
  <2>1. \A n \in MessageId : message'[n].from = message[n].from /\ message'[n].owner = message[n].owner
    BY <1>12 DEF Acknowledge, Types, MessageRow
  <2> QED
    BY <1>11, <1>12, <2>1 DEF Acknowledge, locks
<1>13. CASE ReadPage \/ ReadEnds \/ PartWays \/ Tick \/ UNCHANGED vars
  <2>1. UNCHANGED <<message, label, job, quotaLock>>
    BY <1>13 DEF ReadPage, ReadEnds, PartWays, Tick, vars, locks
  <2> QED
    BY <1>11, <2>1
<1> QED
  BY <1>1, <1>2, <1>3, <1>4, <1>5, <1>6, <1>7, <1>8, <1>10, <1>12, <1>13
     DEF Next, Sends, Removes, QuotaRefuses, Abort

\* Requests that count and send at once never bring a member above the quota, for any number
\* of them: the lock taken before the count is held until the message is committed or
\* rolled back (withQuotaLock, sendDirectMessage).
THEOREM SendersStayWithinQuota == Spec => []QuotaHolds
<1>1. Init => Types /\ Paced
  <2> SUFFICES ASSUME Init PROVE Types /\ Paced
    OBVIOUS
  <2>1. Types
    BY InitTypes
  <2>2. Locked /\ Owned /\ Room
    BY Strangers DEF Init, Locked, Owned, Room, Holding, NoMessage
  <2>3. QuotaHolds
    <3> SUFFICES ASSUME NEW m \in Member PROVE Cardinality(Of(m)) <= Quota
      BY DEF QuotaHolds, Of
    <3>1. Of(m) = {}
      BY Strangers DEF Init, Of, NoMessage
    <3> QED
      BY <3>1, FS_EmptySet, MessageAssumption
  <2> QED
    BY <2>1, <2>2, <2>3 DEF Paced
<1>2. Types /\ Paced /\ [Next]_vars => (Types /\ Paced)'
  BY TypesKept, PacedStep
<1>3. Paced => QuotaHolds
  BY DEF Paced
<1> QED
  BY <1>1, <1>2, <1>3, PTL DEF Spec

-----------------------------------------------------------------------------
(* The order of the thread *)

LEMMA LeastNumber == ASSUME NEW T \in SUBSET Nat, T # {} PROVE \E x \in T : \A y \in T : x <= y
<1> DEFINE R == OpToRel(<, Nat)
<1>1. IsWellFoundedOn(R, Nat)
  BY NatLessThanWellFounded
<1>2. ASSUME NEW x \in Nat, NEW y \in Nat, <<y, x>> \notin R PROVE x <= y
  <2>1. ~(y < x)
    BY <1>2 DEF OpToRel
  <2> QED
    BY <2>1
<1> HIDE DEF R
<1>3. PICK x \in T : \A y \in T : <<y, x>> \notin R
  BY <1>1, WFMin
<1> QED
  BY <1>2, <1>3

LEMMA GreatestNumber ==
    ASSUME NEW b \in Nat, NEW T \in SUBSET (0..b), T # {}
    PROVE  \E x \in T : \A y \in T : y <= x
<1> DEFINE S == {b - x : x \in T}
<1>1. \A x \in T : x \in Nat /\ b - x \in Nat
  OBVIOUS
<1>2. S \in SUBSET Nat /\ S # {}
  BY <1>1
<1>3. PICK z \in S : \A y \in S : z <= y
  <2> HIDE DEF S
  <2> QED
    BY <1>2, LeastNumber
<1>4. PICK x \in T : z = b - x
  OBVIOUS
<1>5. ASSUME NEW y \in T PROVE y <= x
  <2>1. z <= b - y
    BY <1>3
  <2> QED
    BY <1>1, <1>4, <2>1
<1> QED
  BY <1>5

LEMMA Numbers ==
    ASSUME Types, NEW n \in MessageId PROVE n \in 0..MaxMessage /\ message[n].at \in 0..MaxClock
BY MessageAssumption DEF Types, MessageRow, Time, None, MessageId

\* Messages are in a strict total order.
LEMMA TotalOrder ==
    ASSUME Types, NEW a \in MessageId, NEW b \in MessageId, NEW c \in MessageId
    PROVE  /\ a # b => After(a, b) \/ After(b, a)
           /\ After(a, b) => ~After(b, a) /\ a # b
           /\ After(a, b) /\ After(b, c) => After(a, c)
BY Numbers, MessageAssumption DEF After

\* Of some messages one is the first and one the last.
LEMMA Extremes ==
    ASSUME Types, NEW S \in SUBSET MessageId, S # {}
    PROVE  /\ \E x \in S : \A y \in S \ {x} : After(y, x)
           /\ \E x \in S : \A y \in S \ {x} : After(x, y)
<1> DEFINE T == {message[n].at : n \in S}
<1>1. T \in SUBSET (0..MaxClock) /\ T # {} /\ MaxClock \in Nat /\ MaxMessage \in Nat
  BY Numbers, MessageAssumption
<1>2. \E x \in S : \A y \in S \ {x} : After(y, x)
  <2>1. PICK t \in T : \A u \in T : t <= u
    <3> HIDE DEF T
    <3> QED
      BY <1>1, LeastNumber
  <2> DEFINE U == {n \in S : message[n].at = t}
  <2>2. U \in SUBSET Nat /\ U # {}
    BY Numbers
  <2>3. PICK x \in U : \A y \in U : x <= y
    <3> HIDE DEF U
    <3> QED
      BY <2>2, LeastNumber
  <2>4. ASSUME NEW y \in S \ {x} PROVE After(y, x)
    <3>1. t <= message[y].at /\ (y \in U => x <= y)
      BY <2>1, <2>3
    <3> QED
      BY <3>1, Numbers, MessageAssumption DEF After
  <2> QED
    BY <2>4
<1>3. \E x \in S : \A y \in S \ {x} : After(x, y)
  <2>1. PICK t \in T : \A u \in T : u <= t
    <3> HIDE DEF T
    <3> QED
      BY <1>1, GreatestNumber
  <2> DEFINE U == {n \in S : message[n].at = t}
  <2>2. U \in SUBSET (0..MaxMessage) /\ U # {}
    BY Numbers
  <2>3. PICK x \in U : \A y \in U : y <= x
    <3> HIDE DEF U
    <3> QED
      BY <1>1, <2>2, GreatestNumber
  <2>4. ASSUME NEW y \in S \ {x} PROVE After(x, y)
    <3>1. message[y].at <= t /\ (y \in U => y <= x)
      BY <2>1, <2>3
    <3> QED
      BY <3>1, Numbers, MessageAssumption DEF After
  <2> QED
    BY <2>4
<1> QED
  BY <1>2, <1>3

\* The page ReadPage takes of what is left, and the message it ends with.
PageOf(left) == {n \in left : Cardinality({k \in left : After(k, n)}) < PageSize}
Last(page) == CHOOSE n \in page : \A k \in page \ {n} : After(k, n)

\* The page is the front of what is left: what it leaves comes after its last message.
LEMMA PageIsFront ==
    ASSUME Types, NEW left \in SUBSET MessageId, left # {}
    PROVE  /\ Last(PageOf(left)) \in PageOf(left)
           /\ \A n \in left \ PageOf(left) : After(Last(PageOf(left)), n)
<1> DEFINE page == PageOf(left)
<1> USE DEF PageOf
<1>0. \A n \in left : /\ IsFiniteSet({k \in left : After(k, n)})
                      /\ Cardinality({k \in left : After(k, n)}) \in Nat
  <2> SUFFICES ASSUME NEW n \in left
               PROVE  /\ IsFiniteSet({k \in left : After(k, n)})
                      /\ Cardinality({k \in left : After(k, n)}) \in Nat
    OBVIOUS
  <2>1. IsFiniteSet(1..MaxMessage)
    BY MessageAssumption, FS_Interval
  <2>2. {k \in left : After(k, n)} \subseteq 1..MaxMessage
    BY DEF MessageId
  <2> QED
    BY <2>1, <2>2, FS_Subset, FS_CardinalityType
<1>1. page # {}
  <2>1. PICK x \in left : \A y \in left \ {x} : After(x, y)
    BY Extremes
  <2>2. {k \in left : After(k, x)} = {}
    BY <2>1, TotalOrder
  <2>3. Cardinality({k \in left : After(k, x)}) < PageSize
    BY <2>2, FS_EmptySet, MessageAssumption
  <2> QED
    BY <2>3
<1>2. PICK c \in page : c = Last(page)
  <2>1. \E x \in page : \A y \in page \ {x} : After(y, x)
    BY <1>1, Extremes
  <2> QED
    BY <2>1 DEF Last
<1>3. ASSUME NEW n \in left \ page PROVE After(c, n)
  <2> SUFFICES ASSUME After(n, c) PROVE FALSE
    BY TotalOrder
  <2> DEFINE A == {k \in left : After(k, n)}
             C == {k \in left : After(k, c)}
  <2>1. A \subseteq C
    BY TotalOrder
  <2>2. IsFiniteSet(C) /\ Cardinality(C) \in Nat /\ Cardinality(A) \in Nat
    BY <1>0
  <2>3. Cardinality(A) <= Cardinality(C)
    BY <2>1, <2>2, FS_Subset
  <2>4. Cardinality(C) < PageSize /\ ~(Cardinality(A) < PageSize)
    OBVIOUS
  <2> QED
    BY <2>2, <2>3, <2>4, MessageAssumption
<1> QED
  BY <1>2, <1>3

-----------------------------------------------------------------------------
(* Messages are written one after the other *)

Serial ==
    /\ statsLock \in Request \cup {Nobody}
    /\ \A n \in MessageId : message[n].owner # Nobody => statsLock = message[n].owner
    /\ \A n, k \in MessageId : Exists(n) /\ k < n => k \in Sent

LEMMA SerialKept ==
    ASSUME Serial, UNCHANGED statsLock,
           \A n \in MessageId : message'[n].from = message[n].from
                                /\ message'[n].owner = message[n].owner
    PROVE  Serial'
BY DEF Serial, Exists, Sent

\* The next message takes an identifier after all that exist.
LEMMA FreshId ==
    ASSUME Types, Serial, NEW n \in MessageId,
           n = 1 + Cardinality({k \in MessageId : Exists(k)})
    PROVE  /\ ~Exists(n)
           /\ \A k \in MessageId : k < n <=> Exists(k)
<1> DEFINE S == {k \in MessageId : Exists(k)}
<1>1. IsFiniteSet(S) /\ Cardinality(S) \in Nat
  <2>1. S \subseteq 1..MaxMessage /\ IsFiniteSet(1..MaxMessage)
    BY MessageAssumption, FS_Interval DEF MessageId
  <2> QED
    BY <2>1, FS_Subset, FS_CardinalityType
<1>2. \A k, m \in MessageId : Exists(m) /\ k < m => Exists(k)
  BY DEF Serial, Sent
<1>3. n \in Nat /\ n = 1 + Cardinality(S)
  BY MessageAssumption DEF MessageId
<1>4. ~Exists(n)
  <2> SUFFICES ASSUME Exists(n) PROVE FALSE
    OBVIOUS
  <2>1. 1..n \subseteq S
    <3> SUFFICES ASSUME NEW k \in 1..n PROVE k \in S
      OBVIOUS
    <3>1. k \in MessageId /\ (k = n \/ k < n)
      BY MessageAssumption DEF MessageId
    <3> QED
      BY <1>2, <3>1
  <2>2. Cardinality(1..n) = n /\ Cardinality(1..n) <= Cardinality(S)
    <3>1. n \in 1..MaxMessage
      BY DEF MessageId
    <3>2. Cardinality(1..n) = n
      BY <1>3, <3>1, FS_Interval
    <3> HIDE DEF S
    <3> QED
      BY <1>1, <2>1, <3>2, FS_Subset
  <2> HIDE DEF S
  <2> QED
    BY <1>1, <1>3, <2>2
<1>5. ASSUME NEW k \in MessageId, k < n PROVE Exists(k)
  <2> SUFFICES ASSUME ~Exists(k) PROVE FALSE
    OBVIOUS
  <2>0. k \in Nat \ {0}
    BY DEF MessageId
  <2>1. S \subseteq 1..(k - 1)
    <3> SUFFICES ASSUME NEW m \in MessageId, Exists(m) PROVE m \in 1..(k - 1)
      OBVIOUS
    <3>1. m # k /\ ~(k < m)
      BY <1>2
    <3> QED
      BY <2>0, <3>1, MessageAssumption DEF MessageId
  <2>2. IsFiniteSet(1..(k - 1)) /\ Cardinality(1..(k - 1)) = k - 1
    BY <2>0, FS_Interval
  <2>3. Cardinality(S) <= k - 1
    <3> HIDE DEF S
    <3> QED
      BY <2>1, <2>2, FS_Subset
  <2> HIDE DEF S
  <2> QED
    BY <1>1, <1>3, <1>5, <2>0, <2>3
<1>6. ASSUME NEW k \in MessageId, Exists(k) PROVE k < n
  BY <1>2, <1>4, <1>6, MessageAssumption DEF MessageId
<1> QED
  BY <1>4, <1>5, <1>6

\* What a step other than a write, a commit or a rollback does to a message.
Untouched ==
    \A n \in MessageId : /\ message'[n].from = message[n].from
                         /\ message'[n].at = message[n].at
                         /\ message'[n].owner = message[n].owner

LEMMA EditUntouched ==
    ASSUME NEW x \in MessageRow, NEW b \in BOOLEAN
    PROVE  /\ [x EXCEPT !.acked = b].from = x.from /\ [x EXCEPT !.acked = b].at = x.at
           /\ [x EXCEPT !.acked = b].owner = x.owner
           /\ [x EXCEPT !.removed = b].from = x.from /\ [x EXCEPT !.removed = b].at = x.at
           /\ [x EXCEPT !.removed = b].owner = x.owner
           /\ [x EXCEPT !.owner = Nobody].from = x.from /\ [x EXCEPT !.owner = Nobody].at = x.at
           /\ [x EXCEPT !.owner = Nobody].owner = Nobody
BY DEF MessageRow

LEMMA AckUntouched ==
    ASSUME Types, NEW m \in Member, Acknowledge(m) PROVE Untouched
<1> SUFFICES ASSUME NEW n \in MessageId
             PROVE  /\ message'[n].from = message[n].from /\ message'[n].at = message[n].at
                    /\ message'[n].owner = message[n].owner
  BY DEF Untouched
<1>1. message[n] \in MessageRow
  BY DEF Types
<1> QED
  BY <1>1, EditUntouched DEF Acknowledge

LEMMA RemoveUntouched ==
    ASSUME Types, NEW r \in Request, RemoveInserts(r) PROVE Untouched
<1> SUFFICES ASSUME NEW n \in MessageId
             PROVE  /\ message'[n].from = message[n].from /\ message'[n].at = message[n].at
                    /\ message'[n].owner = message[n].owner
  BY DEF Untouched
<1>1. message[n] \in MessageRow
  BY DEF Types
<1>2. message'[n] = message[n] \/ message'[n] = [message[n] EXCEPT !.removed = TRUE]
  BY DEF RemoveInserts, Types
<1> QED
  BY <1>1, <1>2, EditUntouched

\* The steps in four kinds: a write, a commit, a rollback, and those that touch no message.
LEMMA StepKinds ==
    ASSUME Types, [Next]_vars
    PROVE  \/ \E r \in Request : SendWrites(r) \/ SendCommits(r) \/ Fails(r)
           \/ Untouched /\ UNCHANGED statsLock
<1> DEFINE Elsewhere == Untouched /\ UNCHANGED statsLock
<1>1. UNCHANGED message => Untouched
  BY DEF Untouched
<1>2. ASSUME NEW r \in Request,
             (\E m \in Member : SendChecks(r, m)) \/ SendBegins(r) \/ SendCounts(r)
                \/ SendFindsThread(r) \/ \E n \in MessageId : RemoveReads(r, n)
      PROVE  Elsewhere
  BY <1>1, <1>2 DEF SendChecks, SendBegins, SendCounts, SendFindsThread, RemoveReads, locks
<1>3. ASSUME NEW r \in Request, RemoveInserts(r) PROVE Elsewhere
  BY <1>3, RemoveUntouched DEF RemoveInserts, locks
<1>4. ASSUME NEW m \in Member, Acknowledge(m) PROVE Elsewhere
  BY <1>4, AckUntouched DEF Acknowledge, locks
<1>5. CASE ReadPage \/ ReadEnds \/ PartWays \/ Tick \/ UNCHANGED vars
  BY <1>1, <1>5 DEF ReadPage, ReadEnds, PartWays, Tick, vars, locks
<1> QED
  BY <1>2, <1>3, <1>4, <1>5 DEF Next, Sends, Removes, QuotaRefuses, Abort

\* What a commit leaves of each message.
LEMMA CommitRows ==
    ASSUME Types, NEW r \in Request, SendCommits(r), NEW n \in MessageId
    PROVE  /\ message'[n].from = message[n].from /\ message'[n].at = message[n].at
           /\ message'[n].owner = IF message[n].owner = r THEN Nobody ELSE message[n].owner
<1>1. message[n] \in MessageRow
  BY DEF Types
<1> QED
  BY <1>1, EditUntouched DEF SendCommits

\* What a write does to its message and to the others.
LEMMA WriteRows ==
    ASSUME Types, Serial, NEW r \in Request, SendWrites(r)
    PROVE  \E n \in MessageId :
              /\ ~Exists(n)
              /\ \A k \in MessageId : k < n <=> Exists(k)
              /\ message'[n].from = job[r].from /\ message'[n].at = job[r].at
              /\ message'[n].owner = r
              /\ \A k \in MessageId \ {n} : message'[k] = message[k]
<1>1. PICK n \in MessageId : n = 1 + Cardinality({k \in MessageId : Exists(k)})
  BY DEF SendWrites
<1>2. ~Exists(n) /\ \A k \in MessageId : k < n <=> Exists(k)
  BY <1>1, FreshId
<1>3. message' = [message EXCEPT ![n] =
                    [NoMessage EXCEPT !.from = job[r].from, !.at = job[r].at, !.owner = r]]
  BY <1>1 DEF SendWrites
<1>4. /\ message'[n].from = job[r].from /\ message'[n].at = job[r].at /\ message'[n].owner = r
      /\ \A k \in MessageId \ {n} : message'[k] = message[k]
  BY <1>3 DEF Types, NoMessage
<1> QED
  BY <1>2, <1>4

LEMMA SerialStep == Types /\ Serial /\ [Next]_vars => Serial'
<1> SUFFICES ASSUME Types, Serial, [Next]_vars PROVE Serial'
  OBVIOUS
<1>1. ASSUME NEW r \in Request, SendWrites(r) PROVE Serial'
  <2>1. PICK n \in MessageId :
              /\ ~Exists(n)
              /\ \A k \in MessageId : k < n <=> Exists(k)
              /\ message'[n].from = job[r].from /\ message'[n].at = job[r].at
              /\ message'[n].owner = r
              /\ \A k \in MessageId \ {n} : message'[k] = message[k]
    BY <1>1, WriteRows
  <2>2. statsLock = Nobody /\ statsLock' = r
    BY <1>1 DEF SendWrites
  <2>3. \A k \in MessageId : message[k].owner = Nobody
    BY <2>2 DEF Serial
  <2>4. \A k \in MessageId : Exists(k) => k \in Sent'
    BY <2>1, <2>3 DEF Exists, Sent
  <2>5. ASSUME NEW m \in MessageId, NEW k \in MessageId, Exists(m)', k < m PROVE k \in Sent'
    <3>1. m = n \/ Exists(m)
      BY <2>1, <2>5 DEF Exists
    <3>2. Exists(k)
      BY <2>1, <2>5, <3>1 DEF Serial, Sent
    <3> QED
      BY <2>4, <3>2
  <2>6. \A k \in MessageId : message'[k].owner # Nobody => message'[k].owner = r
    BY <2>1, <2>3
  <2> QED
    BY <2>2, <2>5, <2>6 DEF Serial
<1>2. ASSUME NEW r \in Request, SendCommits(r) PROVE Serial'
  <2>1. statsLock' = IF statsLock = r THEN Nobody ELSE statsLock
    BY <1>2 DEF SendCommits, Unlocked
  <2>2. \A n \in MessageId :
          /\ Exists(n)' <=> Exists(n)
          /\ message'[n].owner = IF message[n].owner = r THEN Nobody ELSE message[n].owner
    BY <1>2, CommitRows DEF Exists
  <2> QED
    BY <2>1, <2>2 DEF Serial, Sent
<1>3. ASSUME NEW r \in Request, Fails(r) PROVE Serial'
  <2>1. statsLock' = IF statsLock = r THEN Nobody ELSE statsLock
    BY <1>3 DEF Fails, Unlocked
  <2>2. \A n \in MessageId : message'[n] = IF message[n].owner = r THEN NoMessage ELSE message[n]
    BY <1>3 DEF Fails
  <2>3. NoMessage.owner = Nobody /\ NoMessage.from = Nobody /\ r # Nobody
    BY Strangers DEF NoMessage
  <2>4. \A n \in MessageId : message'[n].owner # Nobody => statsLock' = message'[n].owner
    BY <2>1, <2>2, <2>3 DEF Serial
  <2>5. \A n, k \in MessageId : Exists(n)' /\ k < n => k \in Sent'
    BY <2>2, <2>3 DEF Serial, Sent, Exists
  <2> QED
    BY <2>1, <2>4, <2>5 DEF Serial
<1>4. CASE Untouched /\ UNCHANGED statsLock
  BY <1>4, SerialKept DEF Untouched
<1> QED
  BY <1>1, <1>2, <1>3, <1>4, StepKinds

\* What was sent stays as it was sent.
LEMMA SentStays ==
    ASSUME Types, Serial, [Next]_vars, NEW n \in Sent
    PROVE  n \in Sent' /\ message'[n].at = message[n].at
<1>0. n \in MessageId /\ Exists(n) /\ message[n].owner = Nobody
  BY DEF Sent
<1>1. ASSUME NEW r \in Request, SendWrites(r) PROVE message'[n] = message[n]
  BY <1>0, <1>1, WriteRows
<1>2. ASSUME NEW r \in Request, SendCommits(r)
      PROVE  n \in Sent' /\ message'[n].at = message[n].at
  BY <1>0, <1>2, CommitRows DEF Sent, Exists
<1>3. ASSUME NEW r \in Request, Fails(r) PROVE message'[n] = message[n]
  BY <1>0, <1>3, Strangers DEF Fails
<1>4. ASSUME Untouched PROVE n \in Sent' /\ message'[n].at = message[n].at
  BY <1>0, <1>4 DEF Untouched, Sent, Exists
<1>5. message'[n] = message[n] => n \in Sent'
  BY <1>0 DEF Sent, Exists
<1> QED
  BY <1>1, <1>2, <1>3, <1>4, <1>5, StepKinds

-----------------------------------------------------------------------------
(* A reader who pages to the end has seen what was there at the beginning *)

ReaderTypes ==
    reader \in [on : BOOLEAN, cursor : MessageId \cup {None}, seen : SUBSET MessageId,
                first : SUBSET MessageId]

\* What was there when the reader began is seen, or still comes after the cursor.
Reading ==
    /\ ReaderTypes
    /\ ~reader.on => reader.cursor = None
    /\ reader.on =>
         /\ reader.cursor \in Sent
         /\ \A n \in reader.first \ reader.seen :
              /\ n \in Sent
              /\ \/ message[reader.cursor].at > message[n].at
                 \/ message[reader.cursor].at = message[n].at /\ reader.cursor > n

\* Whatever is sent, rolled back or removed meanwhile, the reader misses nothing.
LEMMA ReadingKept ==
    ASSUME Types, Serial, Reading, [Next]_vars, UNCHANGED reader
    PROVE  Reading'
<1>1. \A n \in Sent : n \in Sent' /\ message'[n].at = message[n].at
  BY SentStays
<1> QED
  BY <1>1 DEF Reading, ReaderTypes

LEMMA ReadPageReading == ASSUME Types, Reading, ReadPage PROVE Reading'
<1> DEFINE left == Behind(reader.cursor)
           page == PageOf(left)
           last == Last(page)
<1>0. left # {} /\ left \subseteq Sent /\ Sent \subseteq MessageId /\ page \subseteq left
  BY DEF ReadPage, Behind, Sent, PageOf
<1>1. last \in page /\ \A n \in left \ page : After(last, n)
  <2>1. left \in SUBSET MessageId
    BY <1>0
  <2> HIDE DEF left
  <2> QED
    BY <1>0, <2>1, PageIsFront
<1>2. reader' = [on |-> TRUE, cursor |-> last, seen |-> reader.seen \cup page,
                 first |-> IF reader.on THEN reader.first ELSE Sent]
  BY DEF ReadPage, PageOf, Last
<1>3. \A n \in reader'.first \ reader.seen : n \in left
  <2>1. CASE reader.on
    <3>1. reader'.first = reader.first
      BY <1>2, <2>1
    <3>2. \A n \in reader.first \ reader.seen : n \in Sent /\ After(reader.cursor, n)
      BY <2>1 DEF Reading, After
    <3> QED
      BY <3>1, <3>2 DEF Behind
  <2>2. CASE ~reader.on
    <3>1. reader'.first = Sent /\ reader.cursor = None
      BY <1>2, <2>2 DEF Reading
    <3> QED
      BY <3>1 DEF Behind
  <2> QED
    BY <2>1, <2>2
<1>4. reader'.on /\ reader'.cursor = last /\ reader'.seen = reader.seen \cup page
  BY <1>2
<1>5. UNCHANGED message
  BY DEF ReadPage
<1> HIDE DEF last, page, left
<1>6. Sent' = Sent
  BY <1>5 DEF Sent, Exists
<1>7. \A n \in reader'.first \ reader'.seen : n \in Sent /\ After(last, n)
  BY <1>0, <1>1, <1>3, <1>4
<1>8. ReaderTypes'
  BY <1>0, <1>1, <1>2 DEF Reading, ReaderTypes
<1> QED
  BY <1>0, <1>1, <1>4, <1>5, <1>6, <1>7, <1>8 DEF Reading, After

LEMMA ReadingStep == Types /\ Serial /\ Reading /\ [Next]_vars => Reading'
<1> SUFFICES ASSUME Types, Serial, Reading, [Next]_vars PROVE Reading'
  OBVIOUS
<1>1. CASE ReadPage
  BY <1>1, ReadPageReading
<1>2. CASE ReadEnds
  <2>1. reader' = NoReader
    BY <1>2 DEF ReadEnds
  <2> QED
    BY <2>1 DEF NoReader, Reading, ReaderTypes
<1>3. CASE UNCHANGED reader
  BY <1>3, ReadingKept
<1>4. ASSUME NEW r \in Request, Fails(r) PROVE UNCHANGED reader
  BY <1>4 DEF Fails, world
<1> QED
  BY <1>1, <1>2, <1>3, <1>4 DEF Next, Sends, Removes, QuotaRefuses, Abort, SendChecks, SendBegins,
     SendCounts, SendFindsThread, SendWrites, SendCommits, RemoveReads, RemoveInserts, Acknowledge,
     PartWays, Tick, vars, world

\* Only the end of the thread ends the pages, and then nothing is left unseen.
LEMMA EndSeesAll ==
    ASSUME Types, Reading, [Next]_vars, reader.on, ~reader'.on
    PROVE  reader.first \subseteq reader.seen
<1>1. CASE ReadEnds
  <2>1. Behind(reader.cursor) = {}
    BY <1>1 DEF ReadEnds
  <2>2. \A n \in reader.first \ reader.seen : n \in Sent /\ After(reader.cursor, n)
    BY DEF Reading, After
  <2> QED
    BY <2>1, <2>2 DEF Behind
<1>2. ReadPage => reader'.on
  BY DEF ReadPage
<1>3. ASSUME NEW r \in Request, Fails(r) PROVE UNCHANGED reader
  BY <1>3 DEF Fails, world
<1> QED
  BY <1>1, <1>2, <1>3 DEF Next, Sends, Removes, QuotaRefuses, Abort, SendChecks, SendBegins,
     SendCounts, SendFindsThread, SendWrites, SendCommits, RemoveReads, RemoveInserts, Acknowledge,
     PartWays, Tick, vars, world

\* Who reads all pages has seen every message that was there when they began: for any page
\* size, and any number of messages sent meanwhile or with the same time (messages.get).
THEOREM PagesMissNothing == Spec => PagesComplete
<1>1. Init => Types /\ Serial /\ Reading
  <2> SUFFICES ASSUME Init PROVE Types /\ Serial /\ Reading
    OBVIOUS
  <2>1. Types
    BY InitTypes
  <2>2. Serial
    BY DEF Init, Serial, NoMessage, Exists
  <2>3. Reading
    BY DEF Init, Reading, ReaderTypes, NoReader
  <2> QED
    BY <2>1, <2>2, <2>3
<1>2. Types /\ Serial /\ Reading /\ [Next]_vars => (Types /\ Serial /\ Reading)'
  BY TypesKept, SerialStep, ReadingStep
<1>3. Types /\ Reading /\ [Next]_vars =>
        [reader.on /\ ~reader'.on => reader.first \subseteq reader.seen]_vars
  BY EndSeesAll
<1> QED
  BY <1>1, <1>2, <1>3, PTL DEF Spec, PagesComplete

-----------------------------------------------------------------------------
(* Type correctness *)

\* The two variables no other proof speaks of.
Rest == statsLock \in Request \cup {Nobody} /\ shared \in BOOLEAN

LEMMA RestStep == Rest /\ [Next]_vars => Rest'
<1> SUFFICES ASSUME Rest, [Next]_vars PROVE Rest'
  OBVIOUS
<1> USE DEF Rest, locks, world
<1>1. CASE UNCHANGED vars
  BY <1>1 DEF vars
<1>2. ASSUME NEW r \in Request, Sends(r) \/ Removes(r) \/ Abort(r) PROVE Rest'
  <2>1. CASE \E m \in Member : SendChecks(r, m)
    BY <2>1 DEF SendChecks
  <2>2. CASE SendBegins(r)
    BY <2>2 DEF SendBegins
  <2>3. CASE SendCounts(r)
    BY <2>3 DEF SendCounts
  <2>4. ASSUME Fails(r) PROVE Rest'
    BY <2>4 DEF Fails, Unlocked
  <2>5. CASE QuotaRefuses(r)
    BY <2>4, <2>5 DEF QuotaRefuses
  <2>6. CASE SendFindsThread(r)
    BY <2>4, <2>6 DEF SendFindsThread
  <2>7. CASE SendWrites(r)
    BY <2>4, <2>7 DEF SendWrites
  <2>8. CASE SendCommits(r)
    BY <2>8 DEF SendCommits, Unlocked
  <2>9. CASE RemoveInserts(r)
    BY <2>9 DEF RemoveInserts
  <2>10. CASE \E n \in MessageId : RemoveReads(r, n)
    BY <2>10 DEF RemoveReads
  <2>11. CASE Abort(r)
    BY <2>4, <2>11 DEF Abort
  <2> QED
    BY <1>2, <2>1, <2>2, <2>3, <2>5, <2>6, <2>7, <2>8, <2>9, <2>10, <2>11 DEF Sends, Removes
<1>3. CASE \E m \in Member : Acknowledge(m)
  BY <1>3 DEF Acknowledge
<1>4. CASE ReadPage \/ ReadEnds
  BY <1>4 DEF ReadPage, ReadEnds
<1>5. CASE PartWays \/ Tick
  BY <1>5 DEF PartWays, Tick
<1> QED
  BY <1>1, <1>2, <1>3, <1>4, <1>5 DEF Next

\* Every reachable state of the thread, its messages, the locks and the reader is well typed
\* (messages/index.ts, quotas.ts), for any members, messages and requests.
THEOREM TypeCorrect == Spec => []TypeOK
<1>1. Init => Types /\ Serial /\ Reading /\ Rest
  <2> SUFFICES ASSUME Init PROVE Types /\ Serial /\ Reading /\ Rest
    OBVIOUS
  <2>1. Types
    BY InitTypes
  <2>2. Serial
    BY DEF Init, Serial, NoMessage, Exists
  <2>3. Reading
    BY DEF Init, Reading, ReaderTypes, NoReader
  <2>4. Rest
    BY DEF Init, Rest
  <2> QED
    BY <2>1, <2>2, <2>3, <2>4
<1>2. Types /\ Serial /\ Reading /\ Rest /\ [Next]_vars => (Types /\ Serial /\ Reading /\ Rest)'
  BY TypesKept, SerialStep, ReadingStep, RestStep
<1>3. Types /\ Reading /\ Rest => TypeOK
  BY DEF Types, Reading, ReaderTypes, Rest, TypeOK, ThreadRow, MessageRow, JobRow, Label
<1> QED
  BY <1>1, <1>2, <1>3, PTL DEF Spec

-----------------------------------------------------------------------------
(* Messages older than the recipient's place in the thread *)

Untold == {n \in MessageId : Exists(n) /\ message[n].at < thread.joined}

\* Requests that began before the one that created the thread, and have still to write.
Late == {q \in Request : label[q] \in {"count", "thread", "write"} /\ job[q].at < thread.joined}

InTime ==
    /\ thread.joined <= clock
    /\ ~Thread => thread.joined = None
    /\ \A q \in Request : job[q].at <= clock

\* Each untold message is of a request that overlapped, and so is not the creator's.
Overlap == InTime /\ Cardinality(Untold) + Cardinality(Late) < Cardinality(Request)

LEMMA OverlapSizes ==
    /\ IsFiniteSet(Untold) /\ Cardinality(Untold) \in Nat
    /\ IsFiniteSet(Late) /\ Cardinality(Late) \in Nat
    /\ Cardinality(Request) \in Nat
<1>1. IsFiniteSet(1..MaxMessage) /\ IsFiniteSet(Request)
  BY MessageAssumption, FS_Interval
<1>2. Untold \subseteq 1..MaxMessage /\ Late \subseteq Request
  BY DEF Untold, Late, MessageId
<1> QED
  BY <1>1, <1>2, FS_Subset, FS_CardinalityType

\* Neither the untold messages nor the late requests become more.
LEMMA OverlapShrinks ==
    ASSUME Overlap, Untold' \subseteq Untold, Late' \subseteq Late
    PROVE  Cardinality(Untold)' + Cardinality(Late)' < Cardinality(Request)
<1>1. /\ IsFiniteSet(Untold) /\ Cardinality(Untold) \in Nat
      /\ IsFiniteSet(Late) /\ Cardinality(Late) \in Nat
      /\ Cardinality(Request) \in Nat
  BY OverlapSizes
<1>2. Cardinality(Untold') <= Cardinality(Untold) /\ Cardinality(Untold') \in Nat
  BY <1>1, FS_Subset, FS_CardinalityType
<1>3. Cardinality(Late') <= Cardinality(Late) /\ Cardinality(Late') \in Nat
  BY <1>1, FS_Subset, FS_CardinalityType
<1> QED
  BY <1>1, <1>2, <1>3 DEF Overlap

LEMMA InTimeStep == Types /\ InTime /\ [Next]_vars => InTime'
<1> SUFFICES ASSUME Types, InTime, [Next]_vars PROVE InTime'
  OBVIOUS
<1>0. /\ clock \in Nat /\ thread.joined \in Nat /\ \A q \in Request : job[q].at \in Nat
      /\ thread \in ThreadRow
  BY DEF Types, ThreadRow, JobRow, Time, None
<1>1. ASSUME UNCHANGED thread, clock <= clock', clock' \in Nat,
             \A q \in Request : job'[q].at \in {job[q].at, clock, None}
      PROVE  InTime'
  BY <1>0, <1>1 DEF InTime, Thread, None
<1>2. ASSUME NEW r \in Request, NEW to, NEW j, Moves(r, to, j),
             j.at \in {job[r].at, clock, None}, UNCHANGED <<thread, clock>>
      PROVE  InTime'
  BY <1>0, <1>1, <1>2, MovesLabel
<1>3. ASSUME NEW r \in Request, NEW m \in Member, SendChecks(r, m) PROVE InTime'
  BY <1>2, <1>3 DEF SendChecks, NoJob, world
<1>4. ASSUME NEW r \in Request, SendBegins(r) PROVE InTime'
  <2>1. [job[r] EXCEPT !.at = clock].at = clock
    BY DEF Types, JobRow
  <2> QED
    BY <1>2, <1>4, <2>1 DEF SendBegins, world
<1>5. ASSUME NEW r \in Request, SendCounts(r) \/ SendWrites(r) PROVE InTime'
  BY <1>2, <1>5 DEF SendCounts, SendWrites, world
<1>6. ASSUME NEW r \in Request, Fails(r) PROVE InTime'
  <2>1. \A q \in Request : job'[q].at \in {job[q].at, None}
    BY <1>6, EndsLabel DEF Fails, NoJob
  <2>2. thread' \in {thread, NoThread} /\ clock' = clock
    BY <1>6 DEF Fails, world
  <2> QED
    BY <1>0, <2>1, <2>2 DEF InTime, Thread, NoThread, None
<1>7. ASSUME NEW r \in Request, SendFindsThread(r) PROVE InTime'
  <2>1. UNCHANGED clock /\ \A q \in Request : job'[q].at = job[q].at
    BY <1>7, MovesLabel DEF SendFindsThread, world
  <2>2. \/ thread' = thread
        \/ thread' = [by |-> job[r].from, owner |-> r, joined |-> job[r].at]
    BY <1>7 DEF SendFindsThread
  <2>3. job[r].from # Nobody
    BY <1>7, Strangers DEF SendFindsThread, Types, Sending
  <2> QED
    BY <1>0, <2>1, <2>2, <2>3 DEF InTime, Thread
<1>8. ASSUME NEW r \in Request, SendCommits(r) PROVE InTime'
  <2>1. clock' = clock /\ \A q \in Request : job'[q].at \in {job[q].at, None}
    BY <1>8, EndsLabel DEF SendCommits, NoJob, world
  <2>2. thread'.by = thread.by /\ thread'.joined = thread.joined
    BY <1>0, <1>8 DEF SendCommits, ThreadRow
  <2> QED
    BY <1>0, <2>1, <2>2 DEF InTime, Thread, None
<1>9. ASSUME NEW r \in Request, NEW n \in MessageId, RemoveReads(r, n) PROVE InTime'
  BY <1>2, <1>9 DEF RemoveReads, NoJob, world
<1>10. ASSUME NEW r \in Request, RemoveInserts(r) PROVE InTime'
  BY <1>2, <1>10 DEF RemoveInserts, Ends, NoJob, world
<1>11. CASE Tick
  BY <1>0, <1>1, <1>11 DEF Tick
<1>12. ASSUME UNCHANGED <<thread, clock, job>> PROVE InTime'
  BY <1>0, <1>1, <1>12
<1>13. CASE ReadPage \/ ReadEnds \/ PartWays \/ (\E m \in Member : Acknowledge(m)) \/ UNCHANGED vars
  BY <1>12, <1>13 DEF ReadPage, ReadEnds, PartWays, Acknowledge, vars, world
<1> QED
  BY <1>3, <1>4, <1>5, <1>6, <1>7, <1>8, <1>9, <1>10, <1>11, <1>13
     DEF Next, Sends, Removes, QuotaRefuses, Abort

\* Who moves on without having been late before is not late now.
LEMMA LateMoves ==
    ASSUME Types, NEW r \in Request, NEW to, NEW j, Moves(r, to, j), UNCHANGED thread,
           \/ to \notin {"count", "thread", "write"}
           \/ label[r] \in {"count", "thread", "write"} /\ j = job[r]
           \/ ~(j.at < thread.joined)
    PROVE  Late' \subseteq Late
BY MovesLabel DEF Late

\* Nobody is late for a thread that is not there, nor is any message.
LEMMA NothingLate ==
    ASSUME Types, thread.joined = None PROVE Late = {} /\ Untold = {}
<1>1. \A q \in Request : job[q] \in JobRow
  BY DEF Types
<1>2. \A q \in Request : job[q].at \in Nat
  BY <1>1 DEF JobRow, Time, None
<1>3. \A n \in MessageId : message[n].at \in Nat
  BY Numbers
<1> QED
  BY <1>2, <1>3 DEF Late, Untold, None

LEMMA OverlapStep == Types /\ Types' /\ Joint /\ Serial /\ Overlap /\ [Next]_vars => Overlap'
<1> SUFFICES ASSUME Types, Types', Joint, Serial, Overlap, [Next]_vars PROVE Overlap'
  OBVIOUS
<1>0. InTime'
  BY InTimeStep DEF Overlap
<1>a. ASSUME Untold' \subseteq Untold, Late' \subseteq Late PROVE Overlap'
  BY <1>0, <1>a, OverlapShrinks DEF Overlap
<1>b. ASSUME Untouched \/ UNCHANGED message, UNCHANGED thread PROVE Untold' \subseteq Untold
  BY <1>b DEF Untouched, Untold, Exists
<1>c. /\ clock \in Nat /\ thread.joined \in Nat /\ \A q \in Request : job[q].at \in Nat
      /\ thread.joined <= clock
  BY DEF Types, ThreadRow, JobRow, Time, None, Overlap, InTime
<1>1. ASSUME NEW r \in Request, NEW m \in Member, SendChecks(r, m) PROVE Overlap'
  BY <1>1, <1>a, <1>b, LateMoves DEF SendChecks
<1>2. ASSUME NEW r \in Request, SendBegins(r) PROVE Overlap'
  <2>1. [job[r] EXCEPT !.at = clock].at = clock
    BY DEF Types, JobRow
  <2>2. ~([job[r] EXCEPT !.at = clock].at < thread.joined)
    BY <1>c, <2>1
  <2>3. Late' \subseteq Late
    BY <1>2, <2>2, LateMoves DEF SendBegins
  <2> QED
    BY <1>2, <1>a, <1>b, <2>3 DEF SendBegins
<1>3. ASSUME NEW r \in Request, SendCounts(r) PROVE Overlap'
  BY <1>3, <1>a, <1>b, LateMoves DEF SendCounts
<1>4. ASSUME NEW r \in Request, Fails(r) PROVE Overlap'
  <2>1. CASE thread' = thread
    <3>1. Late' \subseteq Late
      BY <1>4, <2>1, LateMoves DEF Fails, Ends
    <3>2. Untold' \subseteq Untold
      BY <1>4, <2>1 DEF Fails, Untold, Exists, NoMessage
    <3> QED
      BY <1>a, <3>1, <3>2
  <2>2. CASE thread' = NoThread
    <3>1. thread'.joined = None
      BY <2>2 DEF NoThread
    <3>2. \A q \in Request : job'[q].at \in Nat
      BY DEF Types, JobRow, Time, None
    <3>3. \A n \in MessageId : message'[n].at \in Nat
      BY DEF Types, MessageRow, Time, None
    <3>4. Late' = {} /\ Untold' = {}
      BY <3>1, <3>2, <3>3 DEF Late, Untold, None
    <3> QED
      BY <1>a, <3>4
  <2> QED
    BY <1>4, <2>1, <2>2 DEF Fails
<1>5. ASSUME NEW r \in Request, SendFindsThread(r) PROVE Overlap'
  <2>1. UNCHANGED message /\ Moves(r, "write", job[r]) /\ label[r] = "thread"
    BY <1>5 DEF SendFindsThread
  <2>2. CASE UNCHANGED thread
    <3>1. Late' \subseteq Late
      BY <2>1, <2>2, LateMoves
    <3> QED
      BY <1>a, <1>b, <2>1, <2>2, <3>1
  <2>3. CASE ~(UNCHANGED thread)
    <3>1. ~Thread /\ thread'.joined = job[r].at
      BY <1>5, <2>3 DEF SendFindsThread, ThreadSettled
    <3>2. \A n \in MessageId : ~Exists(n)
      BY <3>1 DEF Joint, OneThread
    <3>3. Untold' = {}
      BY <2>1, <3>2 DEF Untold, Exists
    <3>4. Late' \subseteq Request \ {r}
      <4>1. job'[r] = job[r]
        BY <2>1, MovesLabel
      <4> QED
        BY <1>c, <3>1, <4>1 DEF Late
    <3>5. /\ IsFiniteSet(Request) /\ IsFiniteSet(Request \ {r})
          /\ Cardinality(Request \ {r}) = Cardinality(Request) - 1
          /\ Cardinality(Request) \in Nat
      BY MessageAssumption, FS_RemoveElement, FS_CardinalityType
    <3>6. Cardinality(Late') <= Cardinality(Request) - 1 /\ Cardinality(Late') \in Nat
      BY <3>4, <3>5, FS_Subset, FS_CardinalityType
    <3>7. Cardinality(Untold') = 0
      BY <3>3, FS_EmptySet
    <3> QED
      BY <1>0, <3>5, <3>6, <3>7 DEF Overlap
  <2> QED
    BY <2>2, <2>3
<1>6. ASSUME NEW r \in Request, SendWrites(r) PROVE Overlap'
  <2>1. PICK n \in MessageId :
              /\ ~Exists(n)
              /\ message'[n].at = job[r].at
              /\ \A k \in MessageId \ {n} : message'[k] = message[k]
    BY <1>6, WriteRows
  <2>2. UNCHANGED thread /\ Moves(r, "commit", job[r]) /\ label[r] = "write"
    BY <1>6 DEF SendWrites
  <2>3. Late' = Late \ {r}
    BY <2>2, MovesLabel DEF Late
  <2>4. CASE ~(job[r].at < thread.joined)
    <3>1. Untold' \subseteq Untold
      BY <2>1, <2>2, <2>4 DEF Untold, Exists
    <3> QED
      BY <1>a, <2>3, <3>1
  <2>5. CASE job[r].at < thread.joined
    <3>1. r \in Late
      BY <2>2, <2>5 DEF Late
    <3>2. Untold' \subseteq Untold \cup {n}
      BY <2>1, <2>2 DEF Untold, Exists
    <3>3. /\ IsFiniteSet(Untold) /\ Cardinality(Untold) \in Nat
          /\ IsFiniteSet(Late) /\ Cardinality(Late) \in Nat
          /\ Cardinality(Request) \in Nat
      BY OverlapSizes
    <3>4. Cardinality(Late') = Cardinality(Late) - 1
      BY <2>3, <3>1, <3>3, FS_RemoveElement
    <3>5. /\ IsFiniteSet(Untold \cup {n})
          /\ Cardinality(Untold \cup {n}) \in {Cardinality(Untold), Cardinality(Untold) + 1}
      BY <3>3, FS_AddElement
    <3>6. Cardinality(Untold') <= Cardinality(Untold) + 1 /\ Cardinality(Untold') \in Nat
      BY <3>2, <3>3, <3>5, FS_Subset, FS_CardinalityType
    <3> QED
      BY <1>0, <3>3, <3>4, <3>6 DEF Overlap
  <2> QED
    BY <2>4, <2>5
<1>7. ASSUME NEW r \in Request, SendCommits(r) PROVE Overlap'
  <2>1. thread'.joined = thread.joined
    BY <1>7 DEF SendCommits, Types, ThreadRow
  <2>2. Untold' \subseteq Untold
    BY <1>7, <2>1, CommitRows DEF Untold, Exists
  <2>3. Late' \subseteq Late
    BY <1>7, <2>1, EndsLabel DEF SendCommits, Late
  <2> QED
    BY <1>a, <2>2, <2>3
<1>8. ASSUME NEW r \in Request, NEW n \in MessageId, RemoveReads(r, n) PROVE Overlap'
  BY <1>8, <1>a, <1>b, LateMoves DEF RemoveReads
<1>9. ASSUME NEW r \in Request, RemoveInserts(r) PROVE Overlap'
  BY <1>9, <1>a, <1>b, LateMoves, RemoveUntouched DEF RemoveInserts, Ends
<1>10. ASSUME UNCHANGED <<thread, label, job>>, Untouched \/ UNCHANGED message PROVE Overlap'
  BY <1>10, <1>a, <1>b DEF Late
<1>11. ASSUME NEW m \in Member, Acknowledge(m) PROVE Overlap'
  BY <1>10, <1>11, AckUntouched DEF Acknowledge
<1>12. CASE ReadPage \/ ReadEnds \/ PartWays \/ Tick \/ UNCHANGED vars
  BY <1>10, <1>12 DEF ReadPage, ReadEnds, PartWays, Tick, vars
<1> QED
  BY <1>1, <1>2, <1>3, <1>4, <1>5, <1>6, <1>7, <1>8, <1>9, <1>11, <1>12
     DEF Next, Sends, Removes, QuotaRefuses, Abort

\* The messages a recipient is never told of, because they are older than the recipient's
\* place in the thread, are fewer than the requests served at one time: each is of a request
\* that overlapped with the one that created the thread (listInboxSince, sendDirectMessage).
THEOREM FewAreUntold == Spec => []UntoldOverlapFirst
<1>1. Init => Types /\ Joint /\ Serial /\ Overlap
  <2> SUFFICES ASSUME Init PROVE Types /\ Joint /\ Serial /\ Overlap
    OBVIOUS
  <2>1. Types
    BY InitTypes
  <2>2. Joint /\ Serial
    BY DEF Init, Joint, OneThread, Serial, NoMessage, Exists, Written
  <2>3. InTime
    BY DEF Init, InTime, Thread, NoThread, NoJob, None
  <2>4. Late = {} /\ Untold = {}
    <3>1. thread.joined = None
      BY DEF Init, NoThread
    <3> QED
      BY <2>1, <3>1, NothingLate
  <2>5. Cardinality(Request) \in Nat /\ Cardinality(Request) # 0
    BY MessageAssumption, FS_CardinalityType, FS_EmptySet
  <2> QED
    BY <2>1, <2>2, <2>3, <2>4, <2>5, FS_EmptySet DEF Overlap
<1>2. Types /\ Joint /\ Serial /\ Overlap /\ [Next]_vars => (Types /\ Joint /\ Serial /\ Overlap)'
  BY TypesKept, JointStep, SerialStep, OverlapStep
<1>3. Types /\ Overlap => UntoldOverlapFirst
  <2> SUFFICES ASSUME Types, Overlap
               PROVE  Cardinality({n \in Sent : ~Told(n)}) < Cardinality(Request)
    BY DEF UntoldOverlapFirst
  <2>1. {n \in Sent : ~Told(n)} \subseteq Untold
    <3> SUFFICES ASSUME NEW n \in Sent, ~Told(n) PROVE n \in Untold
      OBVIOUS
    <3>1. message[n].at \in Nat /\ thread.joined \in Nat
      BY DEF Sent, Types, MessageRow, ThreadRow, Time, None
    <3> QED
      BY <3>1 DEF Told, Sent, Untold
  <2>2. /\ IsFiniteSet(Untold) /\ Cardinality(Untold) \in Nat
        /\ Cardinality(Late) \in Nat /\ Cardinality(Request) \in Nat
    BY OverlapSizes
  <2>3. /\ Cardinality({n \in Sent : ~Told(n)}) <= Cardinality(Untold)
        /\ Cardinality({n \in Sent : ~Told(n)}) \in Nat
    BY <2>1, <2>2, FS_Subset, FS_CardinalityType
  <2> QED
    BY <2>2, <2>3 DEF Overlap
<1> QED
  BY <1>1, <1>2, <1>3, PTL DEF Spec

-----------------------------------------------------------------------------
(* Messages are not all that members are told.  Notifications models what  *)
(* producers and the server itself deliver, to members of any number; what *)
(* it shares with the messages is the requests being served.  Its other    *)
(* constants and its variables are declared here, the time by the name now *)
(* and the requests by the names stage and task; its definitions are the   *)
(* ones named N!... here.                                                  *)

CONSTANTS Admin, Sponsor, Key, Batch, Limit, MaxWindow, MaxNote

VARIABLES note, counter, counterLock, inside, now, app, appLock, stage, task

N == INSTANCE Notifications WITH clock <- now, label <- stage, job <- task

\* The instance counts as this module does.
LEMMA SameSize == \A S : N!Cardinality(S) = Cardinality(S)
BY DEF N!Cardinality, Cardinality

Stage == {"idle", "judge", "charge", "insert", "core"}
Delivering == {"judge", "charge", "insert"}
Answered == {"delivered", "duplicate", "mismatch"}
Lost == {"duplicate", "mismatch"}

NoteRow == [to : N!Member \cup {Nobody}, topic : N!Topic, key : Key \cup {Nobody}, print : {"a", "b"},
            window : N!Window \cup {N!NoId}, acked : BOOLEAN, owner : Request \cup {Nobody}]

ResultRow == [outcome : Answered \cup {"refused", "limited"}, id : N!NoteId \cup {N!NoId},
              window : N!Window \cup {N!NoId}]

TaskRow == [batch : Batch \cup {<<>>}, inside : SUBSET N!Member, window : N!Window \cup {N!NoId},
            results : Seq(ResultRow), core : {"none", "revise", "decide", "withdraw"}]

\* Every row and every request under way has the type of its columns.
NoteTypes ==
    /\ note \in [N!NoteId -> NoteRow]
    /\ counter \in [N!Window -> Nat]
    /\ counterLock \in [N!Window -> Request \cup {Nobody}]
    /\ inside \subseteq N!Member /\ now \in N!Window
    /\ app \in N!Phase /\ appLock \in Request \cup {Nobody}
    /\ stage \in [Request -> Stage] /\ task \in [Request -> TaskRow]

\* What is not committed is a delivery on the account of a window, whose counter is held by
\* the request that makes it.
NotesFit ==
    \A n \in N!NoteId :
        /\ note[n].to = Nobody => note[n] = N!NoNote
        /\ note[n].owner # Nobody =>
             /\ note[n].topic = "external" /\ note[n].window \in N!Window
             /\ counterLock[note[n].window] = note[n].owner

\* What a request r may say of an item, the table being f.
IsTrue(f, r, item, x) ==
    x.outcome \in Answered =>
        /\ x.id \in N!NoteId /\ f[x.id].to # Nobody /\ f[x.id].owner \in {Nobody, r}
        /\ f[x.id].key = item.key
        /\ x.outcome = "delivered" => f[x.id].owner = r /\ f[x.id].to = item.to
        /\ x.outcome = "mismatch" <=> f[x.id].print # item.print

\* The results of a task under the locks that are held.
ResultsOf(f, lock, r, t) ==
    /\ Len(t.results) <= Len(t.batch)
    /\ \A i \in 1..Len(t.results) :
         /\ IsTrue(f, r, t.batch[i], t.results[i])
         /\ t.results[i].window # N!NoId => lock[t.results[i].window] = r

TasksFit ==
    \A r \in Request :
        /\ ResultsOf(note, counterLock, r, task[r])
        /\ stage[r] \in {"charge", "insert"} =>
             Len(task[r].results) < Len(task[r].batch) /\ task[r].window \in N!Window

\* What a window was charged for: rows of r, items that r lost, and rows that are committed.
RowsOf(f, r, w) == {n \in N!NoteId : f[n].owner = r /\ f[n].window = w}
LostOf(s, w) == {i \in 1..Len(s) : s[i].outcome \in Lost /\ s[i].window = w}

ChargeOf(r, w) == counter[w] + Cardinality(RowsOf(note, r, w)) + Cardinality(LostOf(task[r].results, w))

\* The counter holds what is committed, and its holder stays below the limit.
CountersFit ==
    \A w \in N!Window :
        /\ counter[w] <= Limit
        /\ Cardinality(RowsOf(note, Nobody, w)) <= counter[w]
        /\ \A r \in Request : counterLock[w] = r => stage[r] \in Delivering /\ ChargeOf(r, w) <= Limit
        /\ \A r \in Request : stage[r] = "insert" /\ task[r].window = w =>
             counterLock[w] = r /\ ChargeOf(r, w) < Limit

\* There is one row with a key, committed or not.
KeysDiffer ==
    \A n, m \in N!NoteId :
        note[n].to # Nobody /\ note[m].to # Nobody /\ note[n].key = note[m].key /\ note[n].key # Nobody =>
            n = m

\* Who reviews the application holds its row, and found it in a phase that allows it.
Reviewing(op, phase) ==
    \/ op = "revise" /\ phase = "revising"
    \/ op = "decide" /\ phase = "awaiting"
    \/ op = "withdraw" /\ phase \in {"revising", "awaiting"}

ReviewsFit ==
    \A r \in Request : stage[r] = "core" => appLock = r /\ Reviewing(task[r].core, app)

PendingFits ==
    app = "decided" => \A n \in N!NoteId : note[n].to # Nobody /\ note[n].topic = "pending" => note[n].acked

NoteInv ==
    /\ NoteTypes /\ NotesFit /\ TasksFit /\ CountersFit /\ KeysDiffer /\ ReviewsFit /\ PendingFits

-----------------------------------------------------------------------------
(* Counting.                                                               *)

LEMMA NoteConstants ==
    ASSUME N!NotificationAssumption
    PROVE  /\ Nobody \notin Request /\ Nobody \notin Key /\ Nobody \notin N!Member
           /\ Batch \subseteq Seq(N!Item) /\ Limit \in Nat
           /\ MaxWindow \in Nat \ {0} /\ N!Window = 1..MaxWindow /\ 1 \in N!Window
           /\ MaxNote \in Nat /\ N!NoteId = 1..MaxNote
           /\ N!NoId = 0 /\ N!NoId \notin N!Window /\ N!NoId \notin N!NoteId
           /\ IsFiniteSet(N!Member)
<1>1. IsFiniteSet(Admin)
  BY DEF N!NotificationAssumption, N!IsFiniteSet, IsFiniteSet
<1>2. IsFiniteSet(N!Member)
  BY <1>1, FS_AddElement DEF N!Member
<1> QED
  BY <1>2 DEF N!NotificationAssumption, N!Window, N!NoteId, N!NoId

LEMMA NotesAreFinite ==
    ASSUME N!NotificationAssumption, NEW T \in SUBSET N!NoteId
    PROVE  IsFiniteSet(T) /\ Cardinality(T) \in Nat
<1>1. MaxNote \in Nat /\ N!NoteId = 1..MaxNote /\ 1 \in Int /\ MaxNote \in Int
  BY NoteConstants
<1>2. IsFiniteSet(1..MaxNote)
  BY <1>1, FS_Interval
<1> QED
  BY <1>1, <1>2, FS_Subset, FS_CardinalityType

LEMMA LostAreFinite ==
    ASSUME NEW s \in Seq(ResultRow), NEW w
    PROVE  IsFiniteSet(LostOf(s, w)) /\ Cardinality(LostOf(s, w)) \in Nat
<1>1. Len(s) \in Nat /\ Len(s) \in Int /\ 1 \in Int
  OBVIOUS
<1>2. IsFiniteSet(1..Len(s))
  BY <1>1, FS_Interval
<1>3. LostOf(s, w) \subseteq 1..Len(s)
  BY DEF LostOf
<1> QED
  BY <1>2, <1>3, FS_Subset, FS_CardinalityType

\* The counter that a request sees.
LEMMA ChargesAreCounted ==
    ASSUME N!NotificationAssumption, NoteTypes, NEW r \in Request, NEW w \in N!Window
    PROVE  /\ N!Counted(r, w) = ChargeOf(r, w) /\ ChargeOf(r, w) \in Nat
           /\ Cardinality(RowsOf(note, r, w)) \in Nat
           /\ Cardinality(LostOf(task[r].results, w)) \in Nat
<1>1. N!Charged(r)[w] = Cardinality(RowsOf(note, r, w))
  BY SameSize DEF N!Charged, RowsOf
<1>2. N!Wasted(r)[w] = Cardinality(LostOf(task[r].results, w))
  BY SameSize DEF N!Wasted, LostOf, Lost
<1>3. Cardinality(RowsOf(note, r, w)) \in Nat
  BY NotesAreFinite DEF RowsOf
<1>4. task[r].results \in Seq(ResultRow) /\ counter[w] \in Nat
  BY DEF NoteTypes, TaskRow
<1>5. Cardinality(LostOf(task[r].results, w)) \in Nat
  BY <1>4, LostAreFinite
<1> QED
  BY <1>1, <1>2, <1>3, <1>4, <1>5 DEF N!Counted, ChargeOf

\* Nothing is stored beyond the last row.
LEMMA LastIsLast ==
    ASSUME N!NotificationAssumption, NoteTypes
    PROVE  /\ N!Last \in 0..MaxNote
           /\ \A n \in N!NoteId : n > N!Last => note[n].to = Nobody
<1> USE NoteConstants
<1> DEFINE Below == {n \in N!NoteId : \E m \in N!NoteId : m >= n /\ N!Exists(m)}
<1>1. N!Last = Cardinality(Below)
  BY SameSize DEF N!Last
<1>2. IsFiniteSet(Below) /\ Cardinality(Below) \in Nat
  BY NotesAreFinite
<1>3. IsFiniteSet(1..MaxNote) /\ Cardinality(1..MaxNote) = MaxNote
  <2>1. 1 \in Int /\ MaxNote \in Int /\ MaxNote \in Nat
    OBVIOUS
  <2>2. IsFiniteSet(1..MaxNote) /\ Cardinality(1..MaxNote) = IF 1 > MaxNote THEN 0 ELSE MaxNote - 1 + 1
    BY <2>1, FS_Interval
  <2> QED
    BY <2>1, <2>2
<1>4. Cardinality(Below) <= MaxNote
  <2>1. Below \subseteq 1..MaxNote
    OBVIOUS
  <2> QED
    BY <2>1, <1>3, FS_Subset
<1>5. ASSUME NEW n \in N!NoteId, note[n].to # Nobody
      PROVE  n <= N!Last
  <2>1. \A k \in 1..n : k \in N!NoteId
    OBVIOUS
  <2>2. 1..n \subseteq Below
    BY <1>5, <2>1 DEF N!Exists
  <2>3. n \in Nat /\ n >= 1 /\ n \in Int /\ 1 \in Int
    OBVIOUS
  <2>4. Cardinality(1..n) = IF 1 > n THEN 0 ELSE n - 1 + 1
    BY <2>3, FS_Interval
  <2>5. Cardinality(1..n) <= Cardinality(Below)
    BY <2>2, <1>2, FS_Subset
  <2> QED
    BY <2>3, <2>4, <2>5, <1>1, <1>2
<1>6. N!Last \in 0..MaxNote
  BY <1>1, <1>2, <1>4
<1>7. ASSUME NEW n \in N!NoteId, n > N!Last
      PROVE  note[n].to = Nobody
  <2>1. ~(n <= N!Last)
    BY <1>6, <1>7
  <2> QED
    BY <2>1, <1>5
<1> QED
  BY <1>6, <1>7

\* What a transaction adds to a list of results.
LEMMA ToldIsAppended ==
    ASSUME NEW s \in Seq(ResultRow), NEW x \in ResultRow
    PROVE  /\ Append(s, x) \in Seq(ResultRow) /\ Len(Append(s, x)) = Len(s) + 1 /\ Len(s) \in Nat
           /\ \A i \in 1..Len(s) : Append(s, x)[i] = s[i]
           /\ Append(s, x)[Len(s) + 1] = x
           /\ \A w : Cardinality(LostOf(Append(s, x), w)) =
                Cardinality(LostOf(s, w)) + IF x.outcome \in Lost /\ x.window = w THEN 1 ELSE 0
<1>1. /\ Append(s, x) \in Seq(ResultRow) /\ Len(Append(s, x)) = Len(s) + 1 /\ Len(s) \in Nat
      /\ \A i \in 1..Len(s) : Append(s, x)[i] = s[i]
      /\ Append(s, x)[Len(s) + 1] = x
  OBVIOUS
<1>2. ASSUME NEW w
      PROVE  Cardinality(LostOf(Append(s, x), w)) =
                Cardinality(LostOf(s, w)) + IF x.outcome \in Lost /\ x.window = w THEN 1 ELSE 0
  <2> DEFINE t == Append(s, x)
  <2> HIDE DEF t
  <2>1. /\ Len(t) = Len(s) + 1 /\ Len(s) \in Nat /\ t[Len(s) + 1] = x
        /\ \A i \in 1..Len(s) : t[i] = s[i]
    BY <1>1 DEF t
  <2>2. IsFiniteSet(LostOf(s, w)) /\ Cardinality(LostOf(s, w)) \in Nat
    BY LostAreFinite
  <2>3. \A i \in 1..Len(t) : i \in 1..Len(s) \/ i = Len(s) + 1
    BY <2>1
  <2>4. CASE x.outcome \in Lost /\ x.window = w
    <3>1. LostOf(t, w) = LostOf(s, w) \cup {Len(s) + 1}
      BY <2>1, <2>3, <2>4 DEF LostOf
    <3>2. Len(s) + 1 \notin LostOf(s, w)
      BY <2>1 DEF LostOf
    <3> QED
      BY <3>1, <3>2, <2>2, <2>4, FS_AddElement DEF t
  <2>5. CASE ~(x.outcome \in Lost /\ x.window = w)
    <3>1. LostOf(t, w) = LostOf(s, w)
      BY <2>1, <2>3, <2>5 DEF LostOf
    <3> QED
      BY <3>1, <2>2, <2>5 DEF t
  <2> QED
    BY <2>4, <2>5
<1> QED
  BY <1>1, <1>2

-----------------------------------------------------------------------------
(* Steps that store nothing.                                               *)

\* The locks a request may take.
Takes(r) ==
    /\ counterLock' \in [N!Window -> Request \cup {Nobody}] /\ appLock' \in Request \cup {Nobody}
    /\ \A w \in N!Window : \/ counterLock'[w] = counterLock[w]
                           \/ counterLock[w] = Nobody /\ counterLock'[w] = r
    /\ \/ appLock' = appLock
       \/ appLock = Nobody /\ appLock' = r

LEMMA NoteMoves ==
    ASSUME N!NotificationAssumption, NoteInv, NEW r \in Request, NEW to \in Stage, NEW j \in TaskRow,
           N!Moves(r, to, j), Takes(r), UNCHANGED <<note, counter, app, inside, now>>,
           ResultsOf(note, counterLock', r, j),
           to \in {"charge", "insert"} => Len(j.results) < Len(j.batch) /\ j.window \in N!Window,
           \A w \in N!Window : counterLock'[w] = r =>
              /\ to \in Delivering
              /\ counter[w] + Cardinality(RowsOf(note, r, w)) + Cardinality(LostOf(j.results, w)) <= Limit,
           to = "insert" =>
              /\ counterLock'[j.window] = r
              /\ counter[j.window] + Cardinality(RowsOf(note, r, j.window))
                    + Cardinality(LostOf(j.results, j.window)) < Limit,
           to = "core" => appLock' = r /\ Reviewing(j.core, app)
    PROVE  NoteInv'
<1> USE NoteConstants DEF NoteInv
<1>1. /\ stage'[r] = to /\ task'[r] = j
      /\ \A q \in Request \ {r} : stage'[q] = stage[q] /\ task'[q] = task[q]
      /\ stage' \in [Request -> Stage] /\ task' \in [Request -> TaskRow]
  BY DEF N!Moves, NoteTypes
<1>2. NoteTypes'
  BY <1>1 DEF NoteTypes, Takes
<1>3. \A w \in N!Window : counterLock[w] # Nobody => counterLock'[w] = counterLock[w]
  BY DEF Takes
<1>4. NotesFit'
  BY <1>3 DEF NotesFit
<1>5. TasksFit'
  <2> SUFFICES ASSUME NEW q \in Request
               PROVE  /\ ResultsOf(note, counterLock', q, task'[q])
                      /\ stage'[q] \in {"charge", "insert"} =>
                           Len(task'[q].results) < Len(task'[q].batch) /\ task'[q].window \in N!Window
    BY DEF TasksFit, ResultsOf, IsTrue
  <2>1. CASE q = r
    BY <2>1, <1>1
  <2>2. CASE q # r
    <3>1. ResultsOf(note, counterLock, q, task[q])
      BY DEF TasksFit
    <3>2. ASSUME NEW i \in 1..Len(task[q].results), task[q].results[i].window # N!NoId
          PROVE  counterLock'[task[q].results[i].window] = q
      <4>1. task[q].results \in Seq(ResultRow)
        BY DEF NoteTypes, TaskRow
      <4>2. task[q].results[i] \in ResultRow
        BY <4>1
      <4>3. task[q].results[i].window \in N!Window
        BY <3>2, <4>2 DEF ResultRow
      <4> QED
        BY <3>1, <3>2, <4>3, <1>3 DEF ResultsOf
    <3> QED
      BY <2>2, <3>1, <3>2, <1>1 DEF TasksFit, ResultsOf
  <2> QED
    BY <2>1, <2>2
<1>6. CountersFit'
  <2> SUFFICES ASSUME NEW w \in N!Window
               PROVE  /\ counter[w] <= Limit
                      /\ Cardinality(RowsOf(note, Nobody, w)) <= counter[w]
                      /\ \A q \in Request : counterLock'[w] = q =>
                           /\ stage'[q] \in Delivering
                           /\ counter[w] + Cardinality(RowsOf(note, q, w))
                                + Cardinality(LostOf(task'[q].results, w)) <= Limit
                      /\ \A q \in Request : stage'[q] = "insert" /\ task'[q].window = w =>
                           /\ counterLock'[w] = q
                           /\ counter[w] + Cardinality(RowsOf(note, q, w))
                                + Cardinality(LostOf(task'[q].results, w)) < Limit
    BY DEF CountersFit, ChargeOf
  <2>1. counter[w] <= Limit /\ Cardinality(RowsOf(note, Nobody, w)) <= counter[w]
    BY DEF CountersFit
  <2>2. ASSUME NEW q \in Request, q # r
        PROVE  /\ counterLock'[w] = q =>
                    /\ stage'[q] \in Delivering
                    /\ counter[w] + Cardinality(RowsOf(note, q, w))
                         + Cardinality(LostOf(task'[q].results, w)) <= Limit
               /\ stage'[q] = "insert" /\ task'[q].window = w =>
                    /\ counterLock'[w] = q
                    /\ counter[w] + Cardinality(RowsOf(note, q, w))
                         + Cardinality(LostOf(task'[q].results, w)) < Limit
    <3>1. stage'[q] = stage[q] /\ task'[q] = task[q]
      BY <2>2, <1>1
    <3>2. counterLock'[w] = q <=> counterLock[w] = q
      BY <2>2 DEF Takes
    <3> QED
      BY <3>1, <3>2 DEF CountersFit, ChargeOf
  <2> QED
    BY <2>1, <2>2, <1>1
<1>7. KeysDiffer' /\ PendingFits'
  BY DEF KeysDiffer, PendingFits
<1>8. ReviewsFit'
  BY <1>1 DEF ReviewsFit, Takes
<1> QED
  BY <1>2, <1>4, <1>5, <1>6, <1>7, <1>8

\* A batch is a sequence of items.
LEMMA BatchesAreItems ==
    ASSUME N!NotificationAssumption, NEW t \in TaskRow
    PROVE  t.batch \in Seq(N!Item) /\ Len(t.batch) \in Nat
<1>1. <<>> \in Seq(N!Item)
  OBVIOUS
<1>2. t.batch \in Seq(N!Item)
  BY <1>1, NoteConstants DEF TaskRow
<1> QED
  BY <1>2

LEMMA NoTaskIsTask ==
    ASSUME N!NotificationAssumption
    PROVE  N!NoJob \in TaskRow /\ N!NoJob.results = <<>> /\ N!NoJob.batch = <<>>
<1>1. <<>> \in Seq(ResultRow)
  OBVIOUS
<1> QED
  BY <1>1, NoteConstants DEF TaskRow, N!NoJob

\* Of no items nothing has been said.
LEMMA NoResults ==
    ASSUME NEW f, NEW lock, NEW r, NEW t, t.results = <<>>, Len(t.batch) \in Nat
    PROVE  ResultsOf(f, lock, r, t)
<1>1. Len(t.results) = 0
  OBVIOUS
<1>2. 1..Len(t.results) = {}
  BY <1>1
<1> QED
  BY <1>1, <1>2 DEF ResultsOf

\* A request learns what became of one item.
LEMMA NoteTold ==
    ASSUME N!NotificationAssumption, NoteInv, NEW r \in Request, NEW x \in ResultRow,
           N!Told(r, x), Takes(r), UNCHANGED <<note, counter, app, inside, now>>,
           Len(task[r].results) < Len(task[r].batch),
           IsTrue(note, r, N!Current(r), x),
           x.window # N!NoId => counterLock'[x.window] = r,
           \A w \in N!Window : counterLock'[w] = r =>
              ChargeOf(r, w) + (IF x.outcome \in Lost /\ x.window = w THEN 1 ELSE 0) <= Limit
    PROVE  NoteInv'
<1> USE NoteConstants
<1> DEFINE old == task[r]
           entry == [old EXCEPT !.results = Append(old.results, x)]
<1>1. N!Moves(r, "judge", entry)
  BY DEF N!Told
<1>2. old \in TaskRow
  BY DEF NoteInv, NoteTypes
<1>3. old = task[r]
  OBVIOUS
<1> HIDE DEF old
<1>4. old.results \in Seq(ResultRow)
  BY <1>2 DEF TaskRow
<1> DEFINE s == Append(old.results, x)
<1>5. /\ s \in Seq(ResultRow) /\ Len(s) = Len(old.results) + 1 /\ Len(old.results) \in Nat
      /\ \A i \in 1..Len(old.results) : s[i] = old.results[i]
      /\ s[Len(old.results) + 1] = x
      /\ \A w : Cardinality(LostOf(s, w)) =
                  Cardinality(LostOf(old.results, w)) + IF x.outcome \in Lost /\ x.window = w THEN 1 ELSE 0
  BY <1>4, ToldIsAppended
<1>6. entry = [old EXCEPT !.results = s]
  OBVIOUS
<1> HIDE DEF s, entry
<1>7. entry \in TaskRow /\ entry.results = s /\ entry.batch = old.batch
  BY <1>2, <1>5, <1>6 DEF TaskRow
<1>8. ResultsOf(note, counterLock', r, entry)
  <2>1. ResultsOf(note, counterLock, r, old)
    BY <1>3 DEF NoteInv, TasksFit
  <2>2. Len(s) <= Len(old.batch)
    <3>1. Len(old.batch) \in Nat
      BY <1>2, BatchesAreItems
    <3> QED
      BY <3>1, <1>3, <1>5
  <2>3. ASSUME NEW i \in 1..Len(s)
        PROVE  /\ IsTrue(note, r, old.batch[i], s[i])
               /\ s[i].window # N!NoId => counterLock'[s[i].window] = r
    <3>1. CASE i \in 1..Len(old.results)
      <4>1. s[i] = old.results[i] /\ old.results[i] \in ResultRow
        BY <3>1, <1>4, <1>5
      <4>2. /\ IsTrue(note, r, old.batch[i], s[i])
            /\ s[i].window # N!NoId => counterLock[s[i].window] = r
        BY <4>1, <3>1, <2>1 DEF ResultsOf
      <4>3. s[i].window # N!NoId => s[i].window \in N!Window
        BY <4>1 DEF ResultRow
      <4> QED
        BY <4>2, <4>3 DEF Takes
    <3>2. CASE i = Len(old.results) + 1
      BY <3>2, <1>3, <1>5 DEF N!Current
    <3> QED
      BY <3>1, <3>2, <1>5
  <2> QED
    BY <2>2, <2>3, <1>7 DEF ResultsOf
<1>9. ASSUME NEW w \in N!Window, counterLock'[w] = r
      PROVE  counter[w] + Cardinality(RowsOf(note, r, w)) + Cardinality(LostOf(entry.results, w)) <= Limit
  <2> DEFINE one == IF x.outcome \in Lost /\ x.window = w THEN 1 ELSE 0
  <2>1. ChargeOf(r, w) + one <= Limit /\ one \in Nat
    BY <1>9
  <2>2. Cardinality(LostOf(entry.results, w)) = Cardinality(LostOf(old.results, w)) + one
    BY <1>5, <1>7
  <2> HIDE DEF one
  <2>3. counter[w] \in Nat
    BY DEF NoteInv, NoteTypes
  <2>4. /\ Cardinality(RowsOf(note, r, w)) \in Nat /\ Cardinality(LostOf(old.results, w)) \in Nat
        /\ ChargeOf(r, w) = counter[w] + Cardinality(RowsOf(note, r, w))
                              + Cardinality(LostOf(old.results, w))
    BY <1>3, ChargesAreCounted DEF NoteInv, ChargeOf
  <2> QED
    BY <2>1, <2>2, <2>3, <2>4
<1>10. "judge" \in Stage /\ "judge" \in Delivering
  BY DEF Stage, Delivering
<1> QED
  BY <1>1, <1>7, <1>8, <1>9, <1>10, NoteMoves

\* Only who delivers holds a counter.
LEMMA HoldersDeliver ==
    ASSUME NoteInv, NEW r \in Request, stage[r] \notin Delivering
    PROVE  /\ \A w \in N!Window : counterLock[w] # r
           /\ \A n \in N!NoteId : note[n].owner = r => r = Nobody
BY DEF NoteInv, CountersFit, NotesFit

LEMMA NoteLoads ==
    ASSUME N!NotificationAssumption, NoteInv, NEW r \in Request, NEW b \in Batch, N!DeliverLoads(r, b)
    PROVE  NoteInv'
<1> USE NoteConstants
<1> DEFINE entry == [N!NoJob EXCEPT !.batch = b, !.inside = N!Loaded(b)]
<1>1. /\ stage[r] = "idle" /\ N!Moves(r, "judge", entry)
      /\ UNCHANGED <<note, counter, counterLock, appLock, app, inside, now>>
  BY DEF N!DeliverLoads, N!world
<1>2. N!Loaded(b) \subseteq N!Member
  BY DEF N!Loaded, NoteInv, NoteTypes
<1>3. entry \in TaskRow /\ entry.results = <<>> /\ entry.batch = b
  BY <1>2, NoTaskIsTask DEF TaskRow
<1> HIDE DEF entry
<1>4. Len(b) \in Nat
  OBVIOUS
<1>5. ResultsOf(note, counterLock', r, entry)
  BY <1>3, <1>4, NoResults
<1>6. Takes(r)
  BY <1>1 DEF Takes, NoteInv, NoteTypes
<1>7. \A w \in N!Window : counterLock'[w] # r
  BY <1>1, HoldersDeliver DEF Delivering
<1> QED
  BY <1>1, <1>3, <1>5, <1>6, <1>7, NoteMoves DEF Stage

\* The item that comes next.
LEMMA NextItem ==
    ASSUME N!NotificationAssumption, NoteInv, NEW r \in Request,
           Len(task[r].results) < Len(task[r].batch)
    PROVE  N!Current(r) \in N!Item
<1>1. task[r] \in TaskRow
  BY DEF NoteInv, NoteTypes
<1>2. task[r].batch \in Seq(N!Item) /\ task[r].results \in Seq(ResultRow)
  BY <1>1, BatchesAreItems DEF TaskRow
<1>3. Len(task[r].results) + 1 \in 1..Len(task[r].batch)
  BY <1>2
<1> QED
  BY <1>2, <1>3 DEF N!Current

\* What is answered of an item whose key is in the table.
LEMMA SeenIsTrue ==
    ASSUME N!NotificationAssumption, NoteInv, NEW r \in Request, NEW item \in N!Item,
           NEW n \in N!WithKey(item.key), N!Visible(r, n), NEW w \in N!Window \cup {N!NoId}
    PROVE  /\ N!Result(N!Seen(item, n), n, w) \in ResultRow
           /\ N!Result(N!Seen(item, n), n, w).outcome \in Lost
           /\ N!Result(N!Seen(item, n), n, w).window = w
           /\ IsTrue(note, r, item, N!Result(N!Seen(item, n), n, w))
<1>1. n \in N!NoteId /\ note[n].key = item.key /\ note[n].to # Nobody /\ note[n].owner \in {Nobody, r}
  BY DEF N!WithKey, N!Visible, N!Exists
<1>2. N!Seen(item, n) \in Lost /\ (N!Seen(item, n) = "mismatch" <=> note[n].print # item.print)
  BY DEF N!Seen, Lost
<1>3. N!Seen(item, n) # "delivered"
  BY DEF N!Seen
<1> QED
  BY <1>1, <1>2, <1>3 DEF N!Result, ResultRow, Lost, Answered, IsTrue

LEMMA NoteJudges ==
    ASSUME N!NotificationAssumption, NoteInv, NEW r \in Request, N!Judge(r)
    PROVE  NoteInv'
<1> USE NoteConstants
<1> DEFINE item == N!Current(r)
           known == {n \in N!WithKey(item.key) : N!Visible(r, n)}
<1>1. /\ stage[r] = "judge" /\ Len(task[r].results) < Len(task[r].batch)
      /\ UNCHANGED <<note, counter, counterLock, appLock, app, inside, now>>
  BY DEF N!Judge, N!world
<1>2. \/ N!Told(r, N!Result("refused", N!NoId, N!NoId))
      \/ \E n \in known : N!Told(r, N!Result(N!Seen(item, n), n, N!NoId))
      \/ N!Moves(r, "charge", [task[r] EXCEPT !.window = now])
  BY DEF N!Judge
<1>3. item \in N!Item
  BY <1>1, NextItem
<1>4. Takes(r)
  BY <1>1 DEF Takes, NoteInv, NoteTypes
<1>5. \A w \in N!Window : counterLock'[w] = r => ChargeOf(r, w) <= Limit
  BY <1>1 DEF NoteInv, CountersFit
<1>6. \A w \in N!Window : ChargeOf(r, w) \in Nat
  BY ChargesAreCounted DEF NoteInv
<1>7. CASE N!Told(r, N!Result("refused", N!NoId, N!NoId))
  <2> DEFINE x == N!Result("refused", N!NoId, N!NoId)
  <2>1. x \in ResultRow /\ x.outcome = "refused" /\ x.window = N!NoId
    BY DEF N!Result, ResultRow
  <2>2. N!Told(r, x)
    BY <1>7
  <2> HIDE DEF x
  <2>3. IsTrue(note, r, N!Current(r), x)
    BY <2>1 DEF IsTrue, Answered
  <2>4. \A w \in N!Window : counterLock'[w] = r =>
              ChargeOf(r, w) + (IF x.outcome \in Lost /\ x.window = w THEN 1 ELSE 0) <= Limit
    BY <2>1, <1>5, <1>6
  <2> QED
    BY <2>1, <2>2, <2>3, <2>4, <1>1, <1>4, NoteTold
<1>8. ASSUME NEW n \in known, N!Told(r, N!Result(N!Seen(item, n), n, N!NoId))
      PROVE  NoteInv'
  <2> DEFINE x == N!Result(N!Seen(item, n), n, N!NoId)
  <2>1. x \in ResultRow /\ x.window = N!NoId /\ IsTrue(note, r, item, x)
    BY <1>3, SeenIsTrue
  <2>2. N!Told(r, x)
    BY <1>8
  <2> HIDE DEF x
  <2>3. \A w \in N!Window : counterLock'[w] = r =>
              ChargeOf(r, w) + (IF x.outcome \in Lost /\ x.window = w THEN 1 ELSE 0) <= Limit
    BY <2>1, <1>5, <1>6
  <2> QED
    BY <2>1, <2>2, <2>3, <1>1, <1>4, NoteTold
<1>9. CASE N!Moves(r, "charge", [task[r] EXCEPT !.window = now])
  <2> DEFINE old == task[r]
             entry == [old EXCEPT !.window = now]
  <2>1. N!Moves(r, "charge", entry) /\ old \in TaskRow /\ now \in N!Window /\ old = task[r]
    BY <1>9 DEF NoteInv, NoteTypes
  <2> HIDE DEF old
  <2>2. entry \in TaskRow /\ entry.results = old.results /\ entry.batch = old.batch /\ entry.window = now
    BY <2>1 DEF TaskRow
  <2> HIDE DEF entry
  <2>3. ResultsOf(note, counterLock', r, entry)
    BY <2>1, <2>2, <1>1 DEF ResultsOf, NoteInv, TasksFit
  <2>4. \A w \in N!Window : counterLock'[w] = r =>
           counter[w] + Cardinality(RowsOf(note, r, w)) + Cardinality(LostOf(entry.results, w)) <= Limit
    BY <2>1, <2>2, <1>5 DEF ChargeOf
  <2>5. "charge" \in Stage /\ "charge" \in Delivering
    BY DEF Stage, Delivering
  <2> QED
    BY <2>1, <2>2, <2>3, <2>4, <2>5, <1>1, <1>4, NoteMoves
<1> QED
  BY <1>2, <1>7, <1>8, <1>9

\* Who locks a counter for the first time has no part in it.
LEMMA NoteLocks ==
    ASSUME N!NotificationAssumption, NoteInv, NEW r \in Request, N!LockCounter(r)
    PROVE  NoteInv'
<1> USE NoteConstants
<1> DEFINE w == task[r].window
<1>1. /\ stage[r] = "charge" /\ counterLock[w] \in {Nobody, r}
      /\ counterLock' = [counterLock EXCEPT ![w] = r]
      /\ IF N!Counted(r, w) >= Limit THEN N!Told(r, N!Result("limited", N!NoId, N!NoId))
                                     ELSE N!Moves(r, "insert", task[r])
      /\ UNCHANGED <<note, counter, appLock, app, inside, now>>
  BY DEF N!LockCounter, N!CounterFree, N!world
<1>2. w \in N!Window /\ Len(task[r].results) < Len(task[r].batch) /\ ResultsOf(note, counterLock, r, task[r])
  BY <1>1 DEF NoteInv, TasksFit
<1>3. counterLock'[w] = r /\ \A v \in N!Window \ {w} : counterLock'[v] = counterLock[v]
  BY <1>1, <1>2 DEF NoteInv, NoteTypes
<1>4. Takes(r)
  BY <1>1, <1>2, <1>3 DEF Takes, NoteInv, NoteTypes
<1>5. \A v \in N!Window : ChargeOf(r, v) \in Nat /\ N!Counted(r, v) = ChargeOf(r, v)
  BY ChargesAreCounted DEF NoteInv
<1>6. task[r] \in TaskRow
  BY DEF NoteInv, NoteTypes
<1>7. ASSUME counterLock[w] = Nobody
      PROVE  ChargeOf(r, w) <= Limit
  <2>1. RowsOf(note, r, w) = {}
    BY <1>2, <1>7 DEF NoteInv, NotesFit, RowsOf
  <2>2. LostOf(task[r].results, w) = {}
    BY <1>2, <1>7 DEF ResultsOf, LostOf
  <2>3. Cardinality({}) = 0 /\ counter[w] \in Nat /\ counter[w] <= Limit
    BY <1>2, FS_EmptySet DEF NoteInv, NoteTypes, CountersFit
  <2> QED
    BY <2>1, <2>2, <2>3 DEF ChargeOf
<1>8. \A v \in N!Window : counterLock'[v] = r => ChargeOf(r, v) <= Limit
  <2>1. \A v \in N!Window : counterLock[v] = r => ChargeOf(r, v) <= Limit
    BY DEF NoteInv, CountersFit
  <2> QED
    BY <2>1, <1>1, <1>3, <1>7
<1> HIDE DEF w
<1>9. CASE N!Counted(r, w) >= Limit
  <2> DEFINE x == N!Result("limited", N!NoId, N!NoId)
  <2>1. x \in ResultRow /\ x.outcome = "limited" /\ x.window = N!NoId
    BY DEF N!Result, ResultRow
  <2>2. N!Told(r, x)
    BY <1>1, <1>9
  <2> HIDE DEF x
  <2>3. IsTrue(note, r, N!Current(r), x)
    BY <2>1 DEF IsTrue, Answered
  <2>4. \A v \in N!Window : counterLock'[v] = r =>
              ChargeOf(r, v) + (IF x.outcome \in Lost /\ x.window = v THEN 1 ELSE 0) <= Limit
    BY <2>1, <1>5, <1>8
  <2> QED
    BY <2>1, <2>2, <2>3, <2>4, <1>1, <1>2, <1>4, NoteTold
<1>10. CASE ~(N!Counted(r, w) >= Limit)
  <2>1. N!Moves(r, "insert", task[r])
    BY <1>1, <1>10
  <2>2. ChargeOf(r, w) < Limit
    BY <1>2, <1>5, <1>10
  <2>3. ResultsOf(note, counterLock', r, task[r])
    <3>1. \A v : counterLock[v] = r => (v = w \/ counterLock'[v] = counterLock[v]) \/ v \notin N!Window
      BY <1>3
    <3>2. \A i \in 1..Len(task[r].results) : task[r].results[i] \in ResultRow
      BY <1>6 DEF TaskRow
    <3>3. \A i \in 1..Len(task[r].results) : task[r].results[i].window \in N!Window \cup {N!NoId}
      BY <3>2 DEF ResultRow
    <3> QED
      BY <3>1, <3>3, <1>2, <1>3 DEF ResultsOf
  <2>4. "insert" \in Stage /\ "insert" \in Delivering
    BY DEF Stage, Delivering
  <2>5. \A v \in N!Window : counterLock'[v] = r =>
           counter[v] + Cardinality(RowsOf(note, r, v)) + Cardinality(LostOf(task[r].results, v)) <= Limit
    BY <1>8 DEF ChargeOf
  <2>6. /\ counterLock'[task[r].window] = r /\ task[r].window \in N!Window
        /\ counter[task[r].window] + Cardinality(RowsOf(note, r, task[r].window))
             + Cardinality(LostOf(task[r].results, task[r].window)) < Limit
    BY <2>2, <1>2, <1>3 DEF ChargeOf, w
  <2>7. Len(task[r].results) < Len(task[r].batch) /\ UNCHANGED <<note, counter, app, inside, now>>
    BY <1>1, <1>2
  <2> QED
    BY <2>1, <2>3, <2>4, <2>5, <2>6, <2>7, <1>4, <1>6, NoteMoves
<1> QED
  BY <1>9, <1>10

\* Whoever reviews the application waits for its row.
LEMMA NoteBegins ==
    ASSUME N!NotificationAssumption, NoteInv, NEW r \in Request,
           NEW op \in {"revise", "decide", "withdraw"}, NEW phases, NEW recipients \in SUBSET N!Member,
           N!Begin(r, op, phases, recipients), \A phase \in phases : Reviewing(op, phase)
    PROVE  NoteInv'
<1> USE NoteConstants
<1> DEFINE entry == [N!NoJob EXCEPT !.core = op, !.inside = recipients]
<1>1. /\ stage[r] = "idle" /\ appLock = Nobody /\ app \in phases /\ appLock' = r
      /\ N!Moves(r, "core", entry)
      /\ UNCHANGED <<note, counter, counterLock, app, inside, now>>
  BY DEF N!Begin, N!AppFree, N!world
<1>2. entry \in TaskRow /\ entry.results = <<>> /\ entry.batch = <<>> /\ entry.core = op
  BY NoTaskIsTask DEF TaskRow
<1> HIDE DEF entry
<1>3. ResultsOf(note, counterLock', r, entry)
  <2>1. Len(entry.batch) \in Nat
    BY <1>2
  <2> QED
    BY <2>1, <1>2, NoResults
<1>4. Takes(r)
  BY <1>1 DEF Takes, NoteInv, NoteTypes
<1>5. \A w \in N!Window : counterLock'[w] # r
  BY <1>1, HoldersDeliver DEF Delivering
<1>6. "core" \in Stage
  BY DEF Stage
<1> QED
  BY <1>1, <1>2, <1>3, <1>4, <1>5, <1>6, NoteMoves

-----------------------------------------------------------------------------
(* Steps that store.                                                       *)

\* Rows are added where nothing is stored.
LEMMA RowsAreAdded ==
    ASSUME N!NotificationAssumption, NoteTypes, NEW table \in [N!NoteId -> NoteRow],
           NEW k \in Nat, NEW rows \in [1..k -> NoteRow], note' = N!Added(table, rows)
    PROVE  /\ note' \in [N!NoteId -> NoteRow]
           /\ \A n \in N!NoteId :
                \/ note'[n] = table[n] /\ ~(n \in N!Last + 1..N!Last + k)
                \/ /\ n \in N!Last + 1..N!Last + k /\ note[n].to = Nobody
                   /\ n - N!Last \in 1..k /\ note'[n] = rows[n - N!Last]
<1>1. N!Last \in Nat /\ \A n \in N!NoteId : n > N!Last => note[n].to = Nobody
  BY LastIsLast, NoteConstants
<1>2. Len(rows) = k
  OBVIOUS
<1>3. note' = [n \in N!NoteId |-> IF n \in N!Last + 1..N!Last + k THEN rows[n - N!Last] ELSE table[n]]
  BY <1>2 DEF N!Added
<1>4. \A n \in N!NoteId : n \in N!Last + 1..N!Last + k => n - N!Last \in 1..k /\ n > N!Last
  BY <1>1, NoteConstants
<1>5. \A n \in N!NoteId :
         \/ note'[n] = table[n] /\ ~(n \in N!Last + 1..N!Last + k)
         \/ /\ n \in N!Last + 1..N!Last + k /\ note[n].to = Nobody
            /\ n - N!Last \in 1..k /\ note'[n] = rows[n - N!Last]
  BY <1>1, <1>3, <1>4
<1>6. \A n \in N!NoteId : note'[n] \in NoteRow
  BY <1>5
<1> QED
  BY <1>3, <1>5, <1>6

\* A delivery is stored on the account of the window that was charged.
LEMMA NoteInserts ==
    ASSUME N!NotificationAssumption, NoteInv, NEW r \in Request, N!InsertNote(r)
    PROVE  NoteInv'
<1> USE NoteConstants
<1> DEFINE item == N!Current(r)
           w == task[r].window
<1>1. /\ stage[r] = "insert"
      /\ \A n \in N!WithKey(item.key) : N!Visible(r, n)
      /\ UNCHANGED <<counter, counterLock, appLock, app, inside, now>>
  BY DEF N!InsertNote, N!Conflicts, N!world
<1>2. /\ w \in N!Window /\ Len(task[r].results) < Len(task[r].batch) /\ task[r] \in TaskRow
      /\ counterLock[w] = r /\ ChargeOf(r, w) < Limit
  BY <1>1 DEF NoteInv, TasksFit, CountersFit, NoteTypes
<1>3. item \in N!Item
  BY <1>2, NextItem
<1>4. \A v \in N!Window : ChargeOf(r, v) \in Nat /\ (counterLock[v] = r => ChargeOf(r, v) <= Limit)
  BY ChargesAreCounted DEF NoteInv, CountersFit
<1>5. ASSUME NEW n \in N!WithKey(item.key), N!Told(r, N!Result(N!Seen(item, n), n, w)), UNCHANGED note
      PROVE  NoteInv'
  <2> DEFINE x == N!Result(N!Seen(item, n), n, w)
  <2>1. x \in ResultRow /\ x.window = w /\ IsTrue(note, r, item, x)
    BY <1>1, <1>2, <1>3, SeenIsTrue
  <2>2. N!Told(r, x)
    BY <1>5
  <2> HIDE DEF x
  <2>3. \A v \in N!Window : counterLock'[v] = r =>
              ChargeOf(r, v) + (IF x.outcome \in Lost /\ x.window = v THEN 1 ELSE 0) <= Limit
    BY <2>1, <1>1, <1>2, <1>4
  <2>4. Takes(r)
    BY <1>1 DEF Takes, NoteInv, NoteTypes
  <2> QED
    BY <2>1, <2>2, <2>3, <2>4, <1>1, <1>2, <1>5, NoteTold
<1>6. ASSUME N!WithKey(item.key) = {}, N!Last < MaxNote,
             note' = N!Added(note, <<[to |-> item.to, topic |-> "external", key |-> item.key,
                                      print |-> item.print, window |-> w, acked |-> FALSE,
                                      owner |-> r]>>),
             N!Told(r, N!Result("delivered", N!Last + 1, N!NoId))
      PROVE  NoteInv'
  <2> DEFINE new == N!Last + 1
             entry == [to |-> item.to, topic |-> "external", key |-> item.key, print |-> item.print,
                       window |-> w, acked |-> FALSE, owner |-> r]
             x == N!Result("delivered", new, N!NoId)
             old == task[r]
             changed == [old EXCEPT !.results = Append(old.results, x)]
  <2>1. N!Last \in Nat /\ new \in N!NoteId
    BY <1>6, LastIsLast DEF NoteInv
  <2>2. item.to \in N!Member /\ item.key \in Key \cup {Nobody} /\ item.print \in {"a", "b"}
    BY <1>3 DEF N!Item
  <2>3. /\ entry \in NoteRow /\ entry.to = item.to /\ entry.topic = "external" /\ entry.key = item.key
        /\ entry.print = item.print /\ entry.window = w /\ entry.owner = r
    BY <2>2, <1>2 DEF NoteRow, N!Topic
  <2>4. note' = N!Added(note, <<entry>>)
    BY <1>6
  <2>5. x \in ResultRow /\ x.outcome = "delivered" /\ x.id = new /\ x.window = N!NoId
    BY <2>1 DEF N!Result, ResultRow, Answered
  <2>6. N!Moves(r, "judge", changed) /\ old = task[r]
    BY <1>6 DEF N!Told
  <2> HIDE DEF entry, x, new, old, w, item
  <2>7. /\ note' \in [N!NoteId -> NoteRow] /\ note'[new] = entry /\ note[new].to = Nobody
        /\ \A n \in N!NoteId \ {new} : note'[n] = note[n]
    <3> DEFINE rows == <<entry>>
    <3>1. rows \in [1..1 -> NoteRow] /\ \A i \in 1..1 : rows[i] = entry
      BY <2>3
    <3>2. note \in [N!NoteId -> NoteRow] /\ NoteTypes /\ 1 \in Nat
      BY DEF NoteInv, NoteTypes
    <3>3. note' = N!Added(note, rows)
      BY <2>4
    <3> HIDE DEF rows
    <3>4. /\ note' \in [N!NoteId -> NoteRow]
          /\ \A n \in N!NoteId :
                \/ note'[n] = note[n] /\ ~(n \in N!Last + 1..N!Last + 1)
                \/ /\ n \in N!Last + 1..N!Last + 1 /\ note[n].to = Nobody
                   /\ n - N!Last \in 1..1 /\ note'[n] = rows[n - N!Last]
      BY <3>1, <3>2, <3>3, RowsAreAdded
    <3>5. \A n \in N!NoteId : n \in N!Last + 1..N!Last + 1 <=> n = new
      BY <2>1 DEF new
    <3> QED
      BY <3>1, <3>4, <3>5, <2>1
  <2>8. note[new] = N!NoNote /\ note[new].owner = Nobody /\ note[new].window = N!NoId
    <3>1. note[new] = N!NoNote
      BY <2>1, <2>7 DEF NoteInv, NotesFit
    <3>2. N!NoNote.owner = Nobody /\ N!NoNote.window = N!NoId
      BY DEF N!NoNote
    <3> QED
      BY <3>1, <3>2
  <2> DEFINE s == Append(old.results, x)
  <2>9. old \in TaskRow /\ old.results \in Seq(ResultRow)
    BY <1>2, <2>6 DEF TaskRow
  <2>10. /\ s \in Seq(ResultRow) /\ Len(s) = Len(old.results) + 1 /\ Len(old.results) \in Nat
         /\ \A i \in 1..Len(old.results) : s[i] = old.results[i]
         /\ s[Len(old.results) + 1] = x
         /\ \A v : Cardinality(LostOf(s, v)) =
                  Cardinality(LostOf(old.results, v)) + IF x.outcome \in Lost /\ x.window = v THEN 1 ELSE 0
    BY <2>5, <2>9, ToldIsAppended
  <2>11. changed = [old EXCEPT !.results = s]
    OBVIOUS
  <2> HIDE DEF s, changed
  <2>12. changed \in TaskRow /\ changed.results = s /\ changed.batch = old.batch
    BY <2>9, <2>10, <2>11 DEF TaskRow
  <2>13. /\ stage'[r] = "judge" /\ task'[r] = changed
         /\ \A q \in Request \ {r} : stage'[q] = stage[q] /\ task'[q] = task[q]
         /\ stage' \in [Request -> Stage] /\ task' \in [Request -> TaskRow]
    BY <2>6, <2>12 DEF N!Moves, NoteInv, NoteTypes, Stage
  <2>14. NoteTypes'
    BY <1>1, <2>7, <2>13 DEF NoteInv, NoteTypes
  <2>15. NotesFit'
    <3>1. counterLock'[w] = r /\ entry.to # Nobody
      BY <1>1, <1>2, <2>2, <2>3 DEF w
    <3>2. \A n \in N!NoteId \ {new} :
             /\ note[n].to = Nobody => note[n] = N!NoNote
             /\ note[n].owner # Nobody =>
                  /\ note[n].topic = "external" /\ note[n].window \in N!Window
                  /\ counterLock[note[n].window] = note[n].owner
      BY DEF NoteInv, NotesFit
    <3>3. w \in N!Window
      BY <1>2 DEF w
    <3> QED
      BY <3>1, <3>2, <3>3, <1>1, <2>3, <2>7 DEF NotesFit
  <2>16. ASSUME NEW q \in Request, NEW i, NEW y, IsTrue(note, q, i, y)
         PROVE  IsTrue(note', q, i, y)
    BY <2>7, <2>16 DEF IsTrue
  <2>17. TasksFit'
    <3> SUFFICES ASSUME NEW q \in Request
                 PROVE  /\ ResultsOf(note', counterLock, q, task'[q])
                        /\ stage'[q] \in {"charge", "insert"} =>
                             Len(task'[q].results) < Len(task'[q].batch) /\ task'[q].window \in N!Window
      BY <1>1 DEF TasksFit, ResultsOf, IsTrue
    <3>1. CASE q # r
      <4>1. ResultsOf(note, counterLock, q, task[q])
        BY DEF NoteInv, TasksFit
      <4>2. ResultsOf(note', counterLock, q, task[q])
        BY <4>1, <2>16 DEF ResultsOf
      <4> QED
        BY <4>2, <3>1, <2>13 DEF NoteInv, TasksFit
    <3>2. CASE q = r
      <4>1. ResultsOf(note, counterLock, r, old)
        BY <2>6 DEF NoteInv, TasksFit
      <4>2. Len(s) <= Len(old.batch)
        <5>1. Len(old.batch) \in Nat
          BY <2>9, BatchesAreItems
        <5> QED
          BY <5>1, <1>2, <2>6, <2>10
      <4>3. IsTrue(note', r, item, x)
        BY <2>1, <2>2, <2>3, <2>5, <2>7 DEF IsTrue
      <4>4. old.batch[Len(old.results) + 1] = item
        BY <2>6 DEF N!Current, item
      <4>5. ASSUME NEW i \in 1..Len(s)
            PROVE  /\ IsTrue(note', r, old.batch[i], s[i])
                   /\ s[i].window # N!NoId => counterLock[s[i].window] = r
        <5>1. CASE i \in 1..Len(old.results)
          BY <5>1, <4>1, <2>10, <2>16 DEF ResultsOf
        <5>2. CASE i = Len(old.results) + 1
          BY <5>2, <4>3, <4>4, <2>5, <2>10
        <5> QED
          BY <5>1, <5>2, <2>10
      <4> QED
        BY <3>2, <4>2, <4>5, <2>12, <2>13 DEF ResultsOf
    <3> QED
      BY <3>1, <3>2
  <2>18. /\ \A v \in N!Window : RowsOf(note', Nobody, v) = RowsOf(note, Nobody, v)
         /\ \A q \in Request \ {r}, v \in N!Window : RowsOf(note', q, v) = RowsOf(note, q, v)
         /\ \A v \in N!Window \ {w} : RowsOf(note', r, v) = RowsOf(note, r, v)
         /\ RowsOf(note', r, w) = RowsOf(note, r, w) \cup {new}
    <3>1. \A q \in Request \cup {Nobody}, v \in N!Window : new \notin RowsOf(note, q, v)
      BY <2>8 DEF RowsOf
    <3>2. \A q \in Request \cup {Nobody}, v \in N!Window :
             new \in RowsOf(note', q, v) <=> q = r /\ v = w
      BY <2>1, <2>3, <2>7 DEF RowsOf
    <3>3. \A q \in Request \cup {Nobody}, v \in N!Window, n \in N!NoteId \ {new} :
             n \in RowsOf(note', q, v) <=> n \in RowsOf(note, q, v)
      BY <2>7 DEF RowsOf
    <3>4. \A q \in Request \cup {Nobody}, v \in N!Window :
             RowsOf(note', q, v) \subseteq N!NoteId /\ RowsOf(note, q, v) \subseteq N!NoteId
      BY DEF RowsOf
    <3>5. w \in N!Window
      BY <1>2 DEF w
    <3>6. ASSUME NEW q \in Request \cup {Nobody}, NEW v \in N!Window
          PROVE  RowsOf(note', q, v) = IF q = r /\ v = w THEN RowsOf(note, q, v) \cup {new}
                                       ELSE RowsOf(note, q, v)
      <4>1. \A n \in N!NoteId : n \in RowsOf(note', q, v) <=>
               n \in RowsOf(note, q, v) \/ (n = new /\ q = r /\ v = w)
        BY <3>1, <3>2, <3>3
      <4>2. RowsOf(note', q, v) \subseteq N!NoteId /\ RowsOf(note, q, v) \subseteq N!NoteId
        BY <3>4
      <4> QED
        BY <4>1, <4>2, <2>1
    <3> QED
      BY <3>5, <3>6
  <2>19. Cardinality(RowsOf(note', r, w)) = Cardinality(RowsOf(note, r, w)) + 1
    <3>1. IsFiniteSet(RowsOf(note, r, w)) /\ new \notin RowsOf(note, r, w)
      BY <2>8, NotesAreFinite DEF RowsOf
    <3> QED
      BY <3>1, <2>18, FS_AddElement
  <2>20. \A v : Cardinality(LostOf(s, v)) = Cardinality(LostOf(old.results, v))
    <3>1. x.outcome \notin Lost
      BY <2>5 DEF Lost
    <3>2. \A v : Cardinality(LostOf(old.results, v)) \in Nat
      BY <2>9, LostAreFinite
    <3> QED
      BY <3>1, <3>2, <2>10
  <2>21. CountersFit'
    <3> SUFFICES ASSUME NEW v \in N!Window
                 PROVE  /\ counter[v] <= Limit
                        /\ Cardinality(RowsOf(note', Nobody, v)) <= counter[v]
                        /\ \A q \in Request : counterLock[v] = q =>
                             /\ stage'[q] \in Delivering
                             /\ counter[v] + Cardinality(RowsOf(note', q, v))
                                  + Cardinality(LostOf(task'[q].results, v)) <= Limit
                        /\ \A q \in Request : stage'[q] = "insert" /\ task'[q].window = v =>
                             /\ counterLock[v] = q
                             /\ counter[v] + Cardinality(RowsOf(note', q, v))
                                  + Cardinality(LostOf(task'[q].results, v)) < Limit
      BY <1>1 DEF CountersFit, ChargeOf
    <3>1. counter[v] <= Limit /\ Cardinality(RowsOf(note', Nobody, v)) <= counter[v]
      BY <2>18 DEF NoteInv, CountersFit
    <3>2. ASSUME NEW q \in Request \ {r}
          PROVE  /\ counterLock[v] = q =>
                      /\ stage'[q] \in Delivering
                      /\ counter[v] + Cardinality(RowsOf(note', q, v))
                           + Cardinality(LostOf(task'[q].results, v)) <= Limit
                 /\ stage'[q] = "insert" /\ task'[q].window = v =>
                      /\ counterLock[v] = q
                      /\ counter[v] + Cardinality(RowsOf(note', q, v))
                           + Cardinality(LostOf(task'[q].results, v)) < Limit
      BY <2>13, <2>18 DEF NoteInv, CountersFit, ChargeOf
    <3>3. ASSUME counterLock[v] = r
          PROVE  counter[v] + Cardinality(RowsOf(note', r, v)) + Cardinality(LostOf(s, v)) <= Limit
      <4>1. /\ counter[v] \in Nat /\ Cardinality(RowsOf(note, r, v)) \in Nat
            /\ Cardinality(LostOf(old.results, v)) \in Nat
            /\ ChargeOf(r, v) = counter[v] + Cardinality(RowsOf(note, r, v))
                                  + Cardinality(LostOf(old.results, v))
        BY <2>6, ChargesAreCounted DEF NoteInv, NoteTypes, ChargeOf
      <4>2. CASE v = w
        <5>1. ChargeOf(r, v) < Limit
          BY <4>2, <1>2 DEF w
        <5> QED
          BY <5>1, <4>1, <4>2, <2>19, <2>20
      <4>3. CASE v # w
        <5>1. ChargeOf(r, v) <= Limit
          BY <3>3, <1>4
        <5> QED
          BY <5>1, <4>1, <4>3, <2>18, <2>20
      <4> QED
        BY <4>2, <4>3
    <3>4. stage'[r] = "judge" /\ "judge" \in Delivering /\ task'[r].results = s
      BY <2>12, <2>13 DEF Delivering
    <3> QED
      BY <3>1, <3>2, <3>3, <3>4
  <2>22. KeysDiffer'
    <3>1. \A n \in N!NoteId : note[n].to # Nobody /\ note[n].key = item.key => item.key = Nobody
      BY <1>6 DEF N!WithKey, N!Exists, item
    <3> QED
      BY <3>1, <2>3, <2>7 DEF NoteInv, KeysDiffer
  <2>23. ReviewsFit'
    BY <1>1, <2>13 DEF NoteInv, ReviewsFit
  <2>24. PendingFits'
    BY <1>1, <2>3, <2>7 DEF NoteInv, PendingFits
  <2> QED
    BY <2>14, <2>15, <2>17, <2>21, <2>22, <2>23, <2>24 DEF NoteInv
<1> QED
  BY <1>5, <1>6 DEF N!InsertNote, N!Conflicts

-----------------------------------------------------------------------------
(* Transactions that end.                                                  *)

\* What others can see of a row.
SameRow(a, b) ==
    a.to = b.to /\ a.topic = b.topic /\ a.key = b.key /\ a.print = b.print
    /\ a.window = b.window /\ a.owner = b.owner

\* The end of r leaves what others have stored, and no row of its own that is not committed.
Leaves(r) ==
    /\ note' \in [N!NoteId -> NoteRow]
    /\ \A n \in N!NoteId :
         /\ note'[n].to = Nobody => note'[n] = N!NoNote
         /\ note'[n].owner # Nobody => note'[n].owner # r /\ SameRow(note'[n], note[n])
         /\ note[n].to # Nobody /\ note[n].owner # r => SameRow(note'[n], note[n])

LEMMA NoteEnds ==
    ASSUME N!NotificationAssumption, NoteInv, NEW r \in Request, N!Ends(r), Leaves(r),
           counter' \in [N!Window -> Nat], app' \in N!Phase, UNCHANGED <<inside, now>>,
           \A w \in N!Window :
              /\ counter'[w] <= Limit /\ Cardinality(RowsOf(note', Nobody, w)) <= counter'[w]
              /\ counterLock[w] # r => counter'[w] = counter[w],
           app' = app \/ stage[r] = "core",
           KeysDiffer', PendingFits'
    PROVE  NoteInv'
<1> USE NoteConstants DEF NoteInv
<1>1. /\ stage'[r] = "idle" /\ task'[r] = N!NoJob
      /\ \A q \in Request \ {r} : stage'[q] = stage[q] /\ task'[q] = task[q]
      /\ stage' \in [Request -> Stage] /\ task' \in [Request -> TaskRow]
  BY NoTaskIsTask DEF N!Ends, N!Moves, NoteTypes, Stage
<1>2. /\ counterLock' = [w \in N!Window |-> IF counterLock[w] = r THEN Nobody ELSE counterLock[w]]
      /\ appLock' = IF appLock = r THEN Nobody ELSE appLock
  BY DEF N!Ends, N!Unlocked
<1>3. /\ counterLock' \in [N!Window -> Request \cup {Nobody}] /\ appLock' \in Request \cup {Nobody}
      /\ \A w \in N!Window : counterLock[w] # r => counterLock'[w] = counterLock[w]
      /\ \A w \in N!Window, q \in Request : counterLock'[w] = q => counterLock[w] = q /\ q # r
  BY <1>2 DEF NoteTypes
<1>4. NoteTypes'
  BY <1>1, <1>3 DEF NoteTypes, Leaves
<1>5. NotesFit'
  <2> SUFFICES ASSUME NEW n \in N!NoteId, note'[n].owner # Nobody
               PROVE  /\ note'[n].topic = "external" /\ note'[n].window \in N!Window
                      /\ counterLock'[note'[n].window] = note'[n].owner
    BY DEF NotesFit, Leaves
  <2>1. note'[n].owner # r /\ SameRow(note'[n], note[n])
    BY DEF Leaves
  <2>2. /\ note[n].topic = "external" /\ note[n].window \in N!Window
        /\ counterLock[note[n].window] = note[n].owner
    BY <2>1 DEF NotesFit, SameRow
  <2> QED
    BY <2>1, <2>2, <1>3 DEF SameRow
<1>6. TasksFit'
  <2> SUFFICES ASSUME NEW q \in Request
               PROVE  /\ ResultsOf(note', counterLock', q, task'[q])
                      /\ stage'[q] \in {"charge", "insert"} =>
                           Len(task'[q].results) < Len(task'[q].batch) /\ task'[q].window \in N!Window
    BY DEF TasksFit, ResultsOf, IsTrue
  <2>1. CASE q = r
    <3>1. Len(N!NoJob.batch) \in Nat /\ N!NoJob.results = <<>>
      BY NoTaskIsTask
    <3>2. ResultsOf(note', counterLock', q, N!NoJob)
      BY <3>1, NoResults
    <3> QED
      BY <2>1, <3>2, <1>1
  <2>2. CASE q # r
    <3>1. ResultsOf(note, counterLock, q, task[q])
      BY DEF TasksFit
    <3>2. ASSUME NEW i \in 1..Len(task[q].results)
          PROVE  /\ IsTrue(note', q, task[q].batch[i], task[q].results[i])
                 /\ task[q].results[i].window # N!NoId => counterLock'[task[q].results[i].window] = q
      <4> DEFINE x == task[q].results[i]
                 item == task[q].batch[i]
      <4>1. IsTrue(note, q, item, x) /\ (x.window # N!NoId => counterLock[x.window] = q)
        BY <3>1 DEF ResultsOf
      <4>2. task[q].results \in Seq(ResultRow)
        BY DEF NoteTypes, TaskRow
      <4>3. x \in ResultRow
        BY <4>2
      <4> HIDE DEF x, item
      <4>4. x.window # N!NoId => x.window \in N!Window
        BY <4>3 DEF ResultRow
      <4>5. x.window # N!NoId => counterLock'[x.window] = q
        BY <4>1, <4>4, <1>3, <2>2
      <4>6. IsTrue(note', q, item, x)
        <5> SUFFICES ASSUME x.outcome \in Answered
                     PROVE  /\ note'[x.id].to # Nobody /\ note'[x.id].owner \in {Nobody, q}
                            /\ note'[x.id].key = item.key
                            /\ x.outcome = "delivered" => note'[x.id].owner = q /\ note'[x.id].to = item.to
                            /\ x.outcome = "mismatch" <=> note'[x.id].print # item.print
          BY <4>1 DEF IsTrue
        <5>1. x.id \in N!NoteId /\ note[x.id].to # Nobody /\ note[x.id].owner \in {Nobody, q}
          BY <4>1 DEF IsTrue
        <5>2. SameRow(note'[x.id], note[x.id])
          BY <5>1, <2>2 DEF Leaves
        <5> QED
          BY <4>1, <5>1, <5>2 DEF IsTrue, SameRow
      <4> QED
        BY <4>5, <4>6 DEF x, item
    <3> QED
      BY <2>2, <3>1, <3>2, <1>1 DEF TasksFit, ResultsOf
  <2> QED
    BY <2>1, <2>2
<1>7. \A q \in Request \ {r}, w \in N!Window : RowsOf(note', q, w) = RowsOf(note, q, w)
  <2> SUFFICES ASSUME NEW q \in Request \ {r}, NEW w \in N!Window, NEW n \in N!NoteId
               PROVE  note'[n].owner = q /\ note'[n].window = w <=> note[n].owner = q /\ note[n].window = w
    BY DEF RowsOf
  <2>1. note'[n].owner = q => SameRow(note'[n], note[n])
    BY DEF Leaves
  <2>2. note[n].owner = q => note[n].to # Nobody
    BY DEF NotesFit, N!NoNote
  <2>3. note[n].owner = q => SameRow(note'[n], note[n])
    BY <2>2 DEF Leaves
  <2> QED
    BY <2>1, <2>3 DEF SameRow
<1>8. CountersFit'
  <2> SUFFICES ASSUME NEW w \in N!Window, NEW q \in Request
               PROVE  /\ counterLock'[w] = q =>
                           /\ stage'[q] \in Delivering
                           /\ counter'[w] + Cardinality(RowsOf(note', q, w))
                                + Cardinality(LostOf(task'[q].results, w)) <= Limit
                      /\ stage'[q] = "insert" /\ task'[q].window = w =>
                           /\ counterLock'[w] = q
                           /\ counter'[w] + Cardinality(RowsOf(note', q, w))
                                + Cardinality(LostOf(task'[q].results, w)) < Limit
    BY DEF CountersFit, ChargeOf
  <2>1. CASE q = r
    BY <2>1, <1>1, <1>3
  <2>2. CASE q # r
    <3>1. stage'[q] = stage[q] /\ task'[q] = task[q] /\ RowsOf(note', q, w) = RowsOf(note, q, w)
      BY <2>2, <1>1, <1>7
    <3>2. counterLock[w] = q => counter'[w] = counter[w] /\ counterLock'[w] = q
      BY <2>2, <1>3
    <3>3. counterLock'[w] = q => counterLock[w] = q
      BY <1>3
    <3> QED
      BY <3>1, <3>2, <3>3 DEF CountersFit, ChargeOf
  <2> QED
    BY <2>1, <2>2
<1>9. ReviewsFit'
  <2> SUFFICES ASSUME NEW q \in Request, stage'[q] = "core"
               PROVE  appLock' = q /\ Reviewing(task'[q].core, app')
    BY DEF ReviewsFit
  <2>1. q # r /\ stage[q] = "core" /\ task'[q] = task[q]
    BY <1>1
  <2>2. appLock = q /\ Reviewing(task[q].core, app)
    BY <2>1 DEF ReviewsFit
  <2>3. stage[r] # "core"
    BY <2>1, <2>2 DEF ReviewsFit
  <2> QED
    BY <2>1, <2>2, <2>3, <1>2
<1> QED
  BY <1>4, <1>5, <1>6, <1>8, <1>9

\* A request that fails takes its rows with it.
LEMMA NoteFails ==
    ASSUME N!NotificationAssumption, NoteInv, NEW r \in Request, N!Fails(r)
    PROVE  NoteInv'
<1> USE NoteConstants
<1>1. /\ N!Ends(r) /\ UNCHANGED <<counter, app, inside, now>>
      /\ note' = [n \in N!NoteId |-> IF note[n].owner = r THEN N!NoNote ELSE note[n]]
  BY DEF N!Fails, N!world
<1>2. N!NoNote \in NoteRow /\ N!NoNote.to = Nobody /\ N!NoNote.owner = Nobody /\ N!NoNote.window = N!NoId
  BY DEF NoteRow, N!NoNote, N!Topic
<1>3. \A n \in N!NoteId : note[n] \in NoteRow /\ note'[n] = IF note[n].owner = r THEN N!NoNote ELSE note[n]
  BY <1>1 DEF NoteInv, NoteTypes
<1>4. Leaves(r)
  <2>1. note' \in [N!NoteId -> NoteRow]
    BY <1>1, <1>2, <1>3
  <2> QED
    BY <2>1, <1>2, <1>3 DEF Leaves, SameRow, NoteInv, NotesFit
<1>5. \A w \in N!Window : RowsOf(note', Nobody, w) = RowsOf(note, Nobody, w)
  BY <1>2, <1>3 DEF RowsOf
<1>6. KeysDiffer' /\ PendingFits'
  BY <1>1, <1>2, <1>3 DEF NoteInv, KeysDiffer, PendingFits
<1>7. \A w \in N!Window : counter[w] <= Limit /\ Cardinality(RowsOf(note, Nobody, w)) <= counter[w]
  BY DEF NoteInv, CountersFit
<1>8. counter \in [N!Window -> Nat] /\ app \in N!Phase
  BY DEF NoteInv, NoteTypes
<1> QED
  BY <1>1, <1>4, <1>5, <1>6, <1>7, <1>8, NoteEnds

\* What is committed is on the counter.
LEMMA NoteCommits ==
    ASSUME N!NotificationAssumption, NoteInv, NEW r \in Request, N!DeliverCommits(r)
    PROVE  NoteInv'
<1> USE NoteConstants
<1>1. /\ N!Ends(r) /\ UNCHANGED <<app, inside, now>>
      /\ note' = [n \in N!NoteId |-> IF note[n].owner = r THEN [note[n] EXCEPT !.owner = Nobody]
                                     ELSE note[n]]
      /\ counter' = [w \in N!Window |-> N!Counted(r, w)]
  BY DEF N!DeliverCommits, N!world
<1>2. \A n \in N!NoteId : note[n] \in NoteRow
  BY DEF NoteInv, NoteTypes
<1>3. ASSUME NEW n \in N!NoteId
      PROVE  /\ note'[n] \in NoteRow
             /\ note[n].owner # r => note'[n] = note[n]
             /\ note[n].owner = r => note'[n].owner = Nobody
             /\ note'[n].to = note[n].to /\ note'[n].topic = note[n].topic /\ note'[n].key = note[n].key
             /\ note'[n].print = note[n].print /\ note'[n].window = note[n].window
             /\ note'[n].acked = note[n].acked
  <2>1. CASE note[n].owner # r
    BY <2>1, <1>1, <1>2
  <2>2. CASE note[n].owner = r
    <3> DEFINE old == note[n]
               entry == note'[n]
    <3>1. entry = [old EXCEPT !.owner = Nobody] /\ old \in NoteRow
      BY <2>2, <1>1, <1>2
    <3> HIDE DEF old, entry
    <3>2. /\ entry \in NoteRow /\ entry.owner = Nobody /\ entry.to = old.to /\ entry.topic = old.topic
          /\ entry.key = old.key /\ entry.print = old.print /\ entry.window = old.window
          /\ entry.acked = old.acked
      BY <3>1 DEF NoteRow
    <3> QED
      BY <3>2, <2>2 DEF old, entry
  <2> QED
    BY <2>1, <2>2
<1>4. Leaves(r)
  <2>1. note' \in [N!NoteId -> NoteRow]
    BY <1>1, <1>3
  <2>2. \A n \in N!NoteId : note[n].to = Nobody => note[n] = N!NoNote
    BY DEF NoteInv, NotesFit
  <2>3. N!NoNote.owner = Nobody
    BY DEF N!NoNote
  <2>4. \A n \in N!NoteId : note[n].to = Nobody => note'[n] = N!NoNote
    BY <2>2, <2>3, <1>3
  <2> QED
    BY <2>1, <2>4, <1>3 DEF Leaves, SameRow
<1>5. ASSUME NEW w \in N!Window
      PROVE  /\ counter'[w] \in Nat /\ counter'[w] <= Limit
             /\ Cardinality(RowsOf(note', Nobody, w)) <= counter'[w]
             /\ counterLock[w] # r => counter'[w] = counter[w]
  <2>1. /\ counter'[w] = ChargeOf(r, w) /\ ChargeOf(r, w) \in Nat /\ counter[w] \in Nat
        /\ Cardinality(RowsOf(note, r, w)) \in Nat
        /\ Cardinality(LostOf(task[r].results, w)) \in Nat
        /\ ChargeOf(r, w) = counter[w] + Cardinality(RowsOf(note, r, w))
                              + Cardinality(LostOf(task[r].results, w))
    BY <1>1, ChargesAreCounted DEF NoteInv, NoteTypes, ChargeOf
  <2>2. counter[w] <= Limit /\ Cardinality(RowsOf(note, Nobody, w)) <= counter[w]
        /\ (counterLock[w] = r => ChargeOf(r, w) <= Limit)
    BY DEF NoteInv, CountersFit
  <2>3. ASSUME counterLock[w] # r
        PROVE  counter'[w] = counter[w]
    <3>1. RowsOf(note, r, w) = {}
      BY <2>3 DEF NoteInv, NotesFit, RowsOf
    <3>2. ResultsOf(note, counterLock, r, task[r])
      BY DEF NoteInv, TasksFit
    <3>3. LostOf(task[r].results, w) = {}
      BY <2>3, <3>2 DEF ResultsOf, LostOf
    <3>4. Cardinality(RowsOf(note, r, w)) = 0 /\ Cardinality(LostOf(task[r].results, w)) = 0
      BY <3>1, <3>3, FS_EmptySet
    <3> QED
      BY <2>1, <3>4
  <2>4. RowsOf(note', Nobody, w) = RowsOf(note, Nobody, w) \cup RowsOf(note, r, w)
    BY <1>3 DEF RowsOf
  <2>5. /\ IsFiniteSet(RowsOf(note, Nobody, w)) /\ Cardinality(RowsOf(note, Nobody, w)) \in Nat
        /\ IsFiniteSet(RowsOf(note, r, w))
        /\ Cardinality(RowsOf(note, Nobody, w) \cap RowsOf(note, r, w)) \in Nat
    <3>1. /\ RowsOf(note, Nobody, w) \subseteq N!NoteId /\ RowsOf(note, r, w) \subseteq N!NoteId
          /\ RowsOf(note, Nobody, w) \cap RowsOf(note, r, w) \subseteq N!NoteId
      BY DEF RowsOf
    <3> QED
      BY <3>1, NotesAreFinite
  <2>6. Cardinality(RowsOf(note', Nobody, w)) =
          Cardinality(RowsOf(note, Nobody, w)) + Cardinality(RowsOf(note, r, w))
            - Cardinality(RowsOf(note, Nobody, w) \cap RowsOf(note, r, w))
    BY <2>4, <2>5, FS_Union
  <2> QED
    BY <2>1, <2>2, <2>3, <2>5, <2>6
<1>6. counter' \in [N!Window -> Nat]
  BY <1>1, <1>5
<1>7. KeysDiffer' /\ PendingFits'
  BY <1>1, <1>3 DEF NoteInv, KeysDiffer, PendingFits
<1>8. app \in N!Phase
  BY DEF NoteInv, NoteTypes
<1> QED
  BY <1>1, <1>4, <1>5, <1>6, <1>7, <1>8, NoteEnds

\* A review tells whom it is about, and acknowledges what awaited it.
LEMMA CoreStores ==
    ASSUME N!NotificationAssumption, NoteInv, NEW r \in Request, N!CoreDelivers(r)
    PROVE  LET op == task[r].core
               topic == IF op = "revise" THEN "pending" ELSE "resolved"
           IN  /\ note' \in [N!NoteId -> NoteRow]
               /\ \A n \in N!NoteId :
                    \/ note'[n] = N!Acknowledged(op)[n]
                    \/ note[n].to = Nobody /\ \E m \in N!Member : note'[n] = N!CoreNote(m, topic)
               /\ N!Acknowledged(op) \in [N!NoteId -> NoteRow]
               /\ \A n \in N!NoteId :
                    /\ SameRow(N!Acknowledged(op)[n], note[n])
                    /\ note[n].to = Nobody => N!Acknowledged(op)[n] = note[n]
                    /\ note[n].acked => N!Acknowledged(op)[n].acked
                    /\ op = "decide" /\ note[n].to # Nobody /\ note[n].topic = "pending" =>
                         N!Acknowledged(op)[n].acked
<1> USE NoteConstants
<1> DEFINE op == task[r].core
           topic == IF op = "revise" THEN "pending" ELSE "resolved"
           told == task[r].inside
           table == N!Acknowledged(op)
<1>1. told \subseteq N!Member /\ IsFiniteSet(told) /\ Cardinality(told) \in Nat
      /\ N!Cardinality(told) = Cardinality(told)
  <2>1. task[r] \in TaskRow
    BY DEF NoteInv, NoteTypes
  <2>2. told \subseteq N!Member
    BY <2>1 DEF TaskRow
  <2> QED
    BY <2>2, FS_Subset, FS_CardinalityType, SameSize
<1> DEFINE k == Cardinality(told)
<1>2. PICK order \in [1..k -> told] :
         note' = N!Added(table, [i \in DOMAIN order |-> N!CoreNote(order[i], topic)])
  BY <1>1 DEF N!CoreDelivers
<1> DEFINE rows == [i \in DOMAIN order |-> N!CoreNote(order[i], topic)]
<1>3. \A m \in N!Member : N!CoreNote(m, topic) \in NoteRow
  BY DEF N!CoreNote, N!NoNote, NoteRow, N!Topic
<1>4. rows \in [1..k -> NoteRow] /\ \A i \in 1..k : rows[i] = N!CoreNote(order[i], topic) /\ order[i] \in N!Member
  BY <1>1, <1>2, <1>3
<1>5. note' = N!Added(table, rows)
  BY <1>2
<1>6. ASSUME NEW n \in N!NoteId
      PROVE  /\ table[n] \in NoteRow
             /\ SameRow(table[n], note[n])
             /\ note[n].to = Nobody => table[n] = note[n]
             /\ note[n].acked => table[n].acked
             /\ op = "decide" /\ note[n].to # Nobody /\ note[n].topic = "pending" => table[n].acked
  <2>1. note[n] \in NoteRow /\ (note[n].to # Nobody /\ note[n].topic = "pending" => note[n].owner = Nobody)
    BY DEF NoteInv, NoteTypes, NotesFit
  <2>2. table[n] = IF op = "decide" /\ note[n].to # Nobody /\ note[n].owner = Nobody /\ note[n].topic = "pending"
                   THEN [note[n] EXCEPT !.acked = TRUE] ELSE note[n]
    BY DEF N!Acknowledged, N!Committed, N!Exists
  <2> DEFINE old == note[n]
             entry == table[n]
  <2>3. CASE op = "decide" /\ note[n].to # Nobody /\ note[n].owner = Nobody /\ note[n].topic = "pending"
    <3>1. entry = [old EXCEPT !.acked = TRUE] /\ old \in NoteRow
      BY <2>1, <2>2, <2>3
    <3> HIDE DEF old, entry
    <3>2. entry \in NoteRow /\ SameRow(entry, old) /\ entry.acked
      BY <3>1 DEF NoteRow, SameRow
    <3> QED
      BY <3>2, <2>3 DEF old, entry
  <2>4. CASE ~(op = "decide" /\ note[n].to # Nobody /\ note[n].owner = Nobody /\ note[n].topic = "pending")
    BY <2>1, <2>2, <2>4 DEF SameRow
  <2> QED
    BY <2>3, <2>4
<1>7. table \in [N!NoteId -> NoteRow]
  BY <1>6 DEF N!Acknowledged
<1> HIDE DEF rows, table, k
<1>8. /\ note' \in [N!NoteId -> NoteRow]
      /\ \A n \in N!NoteId :
           \/ note'[n] = table[n] /\ ~(n \in N!Last + 1..N!Last + k)
           \/ /\ n \in N!Last + 1..N!Last + k /\ note[n].to = Nobody
              /\ n - N!Last \in 1..k /\ note'[n] = rows[n - N!Last]
  <2>1. k \in Nat /\ NoteTypes
    BY <1>1 DEF NoteInv, k
  <2> QED
    BY <2>1, <1>4, <1>5, <1>7, RowsAreAdded
<1>9. \A n \in N!NoteId :
         \/ note'[n] = table[n]
         \/ note[n].to = Nobody /\ \E m \in N!Member : note'[n] = N!CoreNote(m, topic)
  BY <1>4, <1>8
<1> QED
  BY <1>6, <1>7, <1>8, <1>9 DEF table

LEMMA NoteReviews ==
    ASSUME N!NotificationAssumption, NoteInv, NEW r \in Request, N!CoreDelivers(r)
    PROVE  NoteInv'
<1> USE NoteConstants
<1> DEFINE op == task[r].core
           topic == IF op = "revise" THEN "pending" ELSE "resolved"
           table == N!Acknowledged(op)
<1>1. /\ stage[r] = "core" /\ N!Ends(r) /\ UNCHANGED <<counter, inside, now>>
      /\ app' = CASE op = "revise" -> "awaiting"
                  [] op = "decide" -> "decided"
                  [] op = "withdraw" -> "withdrawn"
  BY DEF N!CoreDelivers, N!world
<1>2. Reviewing(op, app) /\ appLock = r
  BY <1>1 DEF NoteInv, ReviewsFit
<1>3. op \in {"revise", "decide", "withdraw"}
  BY <1>2 DEF Reviewing
<1>4. app' \in N!Phase /\ (app' = "decided" <=> op = "decide")
  BY <1>1, <1>3 DEF N!Phase
<1>5. /\ note' \in [N!NoteId -> NoteRow]
      /\ \A n \in N!NoteId :
           \/ note'[n] = table[n]
           \/ note[n].to = Nobody /\ \E m \in N!Member : note'[n] = N!CoreNote(m, topic)
      /\ table \in [N!NoteId -> NoteRow]
      /\ \A n \in N!NoteId :
           /\ SameRow(table[n], note[n])
           /\ note[n].to = Nobody => table[n] = note[n]
           /\ note[n].acked => table[n].acked
           /\ op = "decide" /\ note[n].to # Nobody /\ note[n].topic = "pending" => table[n].acked
  BY CoreStores
<1>6. \A m \in N!Member : /\ N!CoreNote(m, topic).to = m /\ N!CoreNote(m, topic).topic = topic
                          /\ N!CoreNote(m, topic).key = Nobody /\ N!CoreNote(m, topic).window = N!NoId
                          /\ N!CoreNote(m, topic).owner = Nobody
  BY DEF N!CoreNote, N!NoNote
<1> HIDE DEF table, op
<1>7. ASSUME NEW n \in N!NoteId
      PROVE  \/ SameRow(note'[n], note[n]) /\ note'[n] = table[n]
             \/ /\ note[n].to = Nobody /\ note'[n].to # Nobody /\ note'[n].topic = topic
                /\ note'[n].key = Nobody /\ note'[n].window = N!NoId /\ note'[n].owner = Nobody
  BY <1>5, <1>6
<1>8. \A n \in N!NoteId : note[n].owner # r
  BY <1>1, HoldersDeliver DEF Delivering
<1>9. \A n \in N!NoteId : note[n].to = Nobody => note[n] = N!NoNote
  BY DEF NoteInv, NotesFit
<1>10. Leaves(r)
  <2> SUFFICES ASSUME NEW n \in N!NoteId
               PROVE  /\ note'[n].to = Nobody => note'[n] = N!NoNote
                      /\ note'[n].owner # Nobody => note'[n].owner # r /\ SameRow(note'[n], note[n])
                      /\ note[n].to # Nobody => SameRow(note'[n], note[n])
    BY <1>5 DEF Leaves
  <2>1. CASE SameRow(note'[n], note[n]) /\ note'[n] = table[n]
    BY <2>1, <1>5, <1>8, <1>9 DEF SameRow
  <2>2. CASE /\ note[n].to = Nobody /\ note'[n].to # Nobody /\ note'[n].topic = topic
             /\ note'[n].key = Nobody /\ note'[n].window = N!NoId /\ note'[n].owner = Nobody
    BY <2>2
  <2> QED
    BY <2>1, <2>2, <1>7
<1>11. \A w \in N!Window : RowsOf(note', Nobody, w) = RowsOf(note, Nobody, w)
  <2>1. N!NoNote.window = N!NoId
    BY DEF N!NoNote
  <2> SUFFICES ASSUME NEW w \in N!Window, NEW n \in N!NoteId
               PROVE  note'[n].owner = Nobody /\ note'[n].window = w <=>
                      note[n].owner = Nobody /\ note[n].window = w
    BY DEF RowsOf
  <2> QED
    BY <2>1, <1>7, <1>9 DEF SameRow
<1>12. KeysDiffer'
  <2>1. \A n \in N!NoteId : note'[n].key # Nobody => note'[n].key = note[n].key /\ note'[n].to = note[n].to
    BY <1>7 DEF SameRow
  <2> QED
    BY <2>1 DEF NoteInv, KeysDiffer
<1>13. PendingFits'
  <2> SUFFICES ASSUME op = "decide", NEW n \in N!NoteId, note'[n].to # Nobody, note'[n].topic = "pending"
               PROVE  note'[n].acked
    BY <1>4 DEF PendingFits
  <2> QED
    BY <1>5, <1>7 DEF SameRow
<1>14. \A w \in N!Window : counter[w] <= Limit /\ Cardinality(RowsOf(note, Nobody, w)) <= counter[w]
  BY DEF NoteInv, CountersFit
<1>15. counter \in [N!Window -> Nat]
  BY DEF NoteInv, NoteTypes
<1> QED
  BY <1>1, <1>4, <1>10, <1>11, <1>12, <1>13, <1>14, <1>15, NoteEnds

-----------------------------------------------------------------------------
(* The specification.                                                      *)

LEMMA NoteInit ==
    ASSUME N!NotificationAssumption, N!Init
    PROVE  NoteInv
<1> USE NoteConstants DEF N!Init
<1>1. N!NoNote \in NoteRow /\ N!NoNote.to = Nobody /\ N!NoNote.owner = Nobody /\ N!NoNote.window = N!NoId
  BY DEF NoteRow, N!NoNote, N!Topic
<1>2. N!NoJob \in TaskRow /\ N!NoJob.results = <<>> /\ N!NoJob.batch = <<>>
  BY NoTaskIsTask
<1>3. NoteTypes
  BY <1>1, <1>2 DEF NoteTypes, N!Phase, Stage
<1>4. NotesFit /\ KeysDiffer /\ PendingFits
  BY <1>1 DEF NotesFit, KeysDiffer, PendingFits
<1>5. TasksFit
  <2>1. Len(<<>>) \in Nat
    OBVIOUS
  <2>2. \A r \in Request : task[r] = N!NoJob /\ stage[r] = "idle"
    OBVIOUS
  <2>3. \A r \in Request : ResultsOf(note, counterLock, r, task[r])
    BY <2>1, <2>2, <1>2, NoResults
  <2> QED
    BY <2>2, <2>3 DEF TasksFit
<1>6. CountersFit
  <2> SUFFICES ASSUME NEW w \in N!Window
               PROVE  counter[w] <= Limit /\ Cardinality(RowsOf(note, Nobody, w)) <= counter[w]
    BY DEF CountersFit
  <2>1. RowsOf(note, Nobody, w) = {}
    BY <1>1 DEF RowsOf
  <2>2. counter[w] = 0
    OBVIOUS
  <2>3. Cardinality(RowsOf(note, Nobody, w)) = 0
    BY <2>1, FS_EmptySet
  <2>4. 0 <= Limit
    OBVIOUS
  <2> HIDE NoteConstants DEF N!Init
  <2> QED
    BY <2>2, <2>3, <2>4
<1>7. ReviewsFit
  BY DEF ReviewsFit
<1> QED
  BY <1>3, <1>4, <1>5, <1>6, <1>7 DEF NoteInv

\* An acknowledgement changes one column of one row, which no other condition reads.
LEMMA NoteAcks ==
    ASSUME N!NotificationAssumption, NoteInv, NEW n \in N!NoteId, N!Acks(n)
    PROVE  NoteInv'
<1> USE NoteConstants DEF NoteInv
<1> DEFINE old == note[n]
           entry == note'[n]
<1>1. /\ note' = [note EXCEPT ![n].acked = TRUE] /\ note[n].to # Nobody
      /\ UNCHANGED <<counter, counterLock, app, appLock, stage, task, inside, now>>
  BY DEF N!Acks, N!Committed, N!Exists, N!world
<1>2. entry = [old EXCEPT !.acked = TRUE] /\ old \in NoteRow /\ old = note[n] /\ entry = note'[n]
  BY <1>1 DEF NoteTypes
<1> HIDE DEF old, entry
<1>3. entry \in NoteRow /\ SameRow(entry, old) /\ entry.acked
  BY <1>2 DEF NoteRow, SameRow
<1>4. \A m \in N!NoteId : SameRow(note'[m], note[m]) /\ (m = n \/ note'[m] = note[m])
  BY <1>1, <1>2, <1>3 DEF NoteTypes, SameRow
<1>5. NoteTypes'
  BY <1>1, <1>2, <1>3, <1>4 DEF NoteTypes
<1>6. NotesFit'
  <2> SUFFICES ASSUME NEW m \in N!NoteId
               PROVE  /\ note'[m].to = Nobody => note'[m] = N!NoNote
                      /\ note'[m].owner # Nobody =>
                           /\ note'[m].topic = "external" /\ note'[m].window \in N!Window
                           /\ counterLock[note'[m].window] = note'[m].owner
    BY <1>1 DEF NotesFit
  <2> QED
    BY <1>1, <1>4 DEF NotesFit, SameRow
<1>7. TasksFit'
  <2>1. ASSUME NEW r \in Request, NEW item, NEW x, IsTrue(note, r, item, x)
        PROVE  IsTrue(note', r, item, x)
    BY <2>1, <1>4 DEF IsTrue, SameRow
  <2> QED
    BY <2>1, <1>1 DEF TasksFit, ResultsOf
<1>8. \A r, w : RowsOf(note', r, w) = RowsOf(note, r, w)
  BY <1>4 DEF RowsOf, SameRow
<1>9. CountersFit'
  BY <1>1, <1>8 DEF CountersFit, ChargeOf
<1>10. KeysDiffer'
  BY <1>4 DEF KeysDiffer, SameRow
<1>11. ReviewsFit'
  BY <1>1 DEF ReviewsFit
<1>12. PendingFits'
  BY <1>1, <1>2, <1>3, <1>4 DEF PendingFits, SameRow
<1> QED
  BY <1>5, <1>6, <1>7, <1>9, <1>10, <1>11, <1>12

\* Members come and go, time passes, or nothing happens.
LEMMA NoteWorld ==
    ASSUME NoteInv, inside' \subseteq N!Member, now' \in N!Window,
           UNCHANGED <<note, counter, counterLock, app, appLock, stage, task>>
    PROVE  NoteInv'
<1>1. NoteTypes'
  BY DEF NoteInv, NoteTypes
<1>2. NotesFit' /\ KeysDiffer' /\ PendingFits' /\ ReviewsFit'
  BY DEF NoteInv, NotesFit, KeysDiffer, PendingFits, ReviewsFit
<1>3. TasksFit'
  BY DEF NoteInv, TasksFit, ResultsOf, IsTrue
<1>4. CountersFit'
  BY DEF NoteInv, CountersFit, ChargeOf
<1> QED
  BY <1>1, <1>2, <1>3, <1>4 DEF NoteInv

LEMMA NoteInduction ==
    ASSUME N!NotificationAssumption, NoteInv, [N!Next]_(N!vars)
    PROVE  NoteInv'
<1> USE NoteConstants
<1>1. ASSUME NEW r \in Request, N!Delivers(r)
      PROVE  NoteInv'
  BY <1>1, NoteLoads, NoteJudges, NoteLocks, NoteInserts, NoteCommits DEF N!Delivers
<1>2. ASSUME NEW r \in Request, N!Reviews(r)
      PROVE  NoteInv'
  <2>1. CASE N!Revise(r)
    <3>1. Admin \cap inside \in SUBSET N!Member
      BY DEF N!Member
    <3>2. N!Begin(r, "revise", {"revising"}, Admin \cap inside)
      BY <2>1 DEF N!Revise
    <3>3. \A phase \in {"revising"} : Reviewing("revise", phase)
      BY DEF Reviewing
    <3>4. "revise" \in {"revise", "decide", "withdraw"}
      OBVIOUS
    <3> QED
      BY <3>1, <3>2, <3>3, <3>4, NoteBegins
  <2>2. CASE N!Decide(r)
    <3>1. {Sponsor} \in SUBSET N!Member
      BY DEF N!Member
    <3>2. N!Begin(r, "decide", {"awaiting"}, {Sponsor})
      BY <2>2 DEF N!Decide
    <3>3. \A phase \in {"awaiting"} : Reviewing("decide", phase)
      BY DEF Reviewing
    <3>4. "decide" \in {"revise", "decide", "withdraw"}
      OBVIOUS
    <3> QED
      BY <3>1, <3>2, <3>3, <3>4, NoteBegins
  <2>3. CASE N!Withdraw(r)
    <3>1. {Sponsor} \in SUBSET N!Member
      BY DEF N!Member
    <3>2. N!Begin(r, "withdraw", {"revising", "awaiting"}, {Sponsor})
      BY <2>3 DEF N!Withdraw
    <3>3. \A phase \in {"revising", "awaiting"} : Reviewing("withdraw", phase)
      BY DEF Reviewing
    <3>4. "withdraw" \in {"revise", "decide", "withdraw"}
      OBVIOUS
    <3> QED
      BY <3>1, <3>2, <3>3, <3>4, NoteBegins
  <2>4. CASE N!CoreDelivers(r)
    BY <2>4, NoteReviews
  <2>5. CASE N!CoreFails(r)
    BY <2>5, NoteFails DEF N!CoreFails
  <2> QED
    BY <1>2, <2>1, <2>2, <2>3, <2>4, <2>5 DEF N!Reviews
<1>3. ASSUME NEW r \in Request, N!Abort(r)
      PROVE  NoteInv'
  BY <1>3, NoteFails DEF N!Abort
<1>4. ASSUME NEW n \in N!NoteId, N!Acknowledge(n) \/ N!Retract(n)
      PROVE  NoteInv'
  BY <1>4, NoteAcks DEF N!Acknowledge, N!Retract
<1>5. ASSUME NEW m \in N!Member, N!Crosses(m)
      PROVE  NoteInv'
  <2>1. inside' \subseteq N!Member /\ now' \in N!Window
    BY <1>5 DEF N!Crosses, NoteInv, NoteTypes
  <2> QED
    BY <2>1, <1>5, NoteWorld DEF N!Crosses
<1>6. CASE N!Tick
  <2>1. inside' \subseteq N!Member /\ now' \in N!Window
    BY <1>6 DEF N!Tick, NoteInv, NoteTypes
  <2> QED
    BY <2>1, <1>6, NoteWorld DEF N!Tick
<1>7. CASE UNCHANGED N!vars
  <2>1. inside' \subseteq N!Member /\ now' \in N!Window
    BY <1>7 DEF N!vars, NoteInv, NoteTypes
  <2> QED
    BY <2>1, <1>7, NoteWorld DEF N!vars
<1> QED
  BY <1>1, <1>2, <1>3, <1>4, <1>5, <1>6, <1>7 DEF N!Next

LEMMA NoteInvariance ==
    ASSUME N!NotificationAssumption
    PROVE  N!Spec => []NoteInv
<1>1. N!Init => NoteInv
  BY NoteInit
<1>2. NoteInv /\ [N!Next]_(N!vars) => NoteInv'
  BY NoteInduction
<1> QED
  BY <1>1, <1>2, PTL DEF N!Spec

-----------------------------------------------------------------------------
(* What follows from the invariant.                                        *)

\* The rows, the counters, the locks and the requests under way have the types that
\* Notifications declares (its TypeOK), whatever the batches, the requests and the limit.
THEOREM NotesTypeCorrect ==
    ASSUME N!NotificationAssumption
    PROVE  N!Spec => []N!TypeOK
<1>1. NoteInv => N!TypeOK
  <2> USE NoteConstants
  <2> SUFFICES ASSUME NoteInv PROVE N!TypeOK
    OBVIOUS
  <2>1. NoteRow = [to : N!Member \cup {Nobody}, topic : N!Topic, key : Key \cup {Nobody},
                   print : {"a", "b"}, window : N!Window \cup {N!NoId}, acked : BOOLEAN,
                   owner : Request \cup {Nobody}]
    BY DEF NoteRow
  <2>2. ResultRow = [outcome : {"refused", "limited", "duplicate", "mismatch", "delivered"},
                     id : N!NoteId \cup {N!NoId}, window : N!Window \cup {N!NoId}]
    BY DEF ResultRow, Answered
  <2>3. \A r \in Request :
          /\ task[r].batch \in Batch \cup {<<>>}
          /\ task[r].inside \subseteq N!Member
          /\ task[r].window \in N!Window \cup {N!NoId}
          /\ task[r].core \in {"none", "revise", "decide", "withdraw"}
          /\ task[r].results \in Seq(ResultRow)
    <3>1. ASSUME NEW r \in Request
          PROVE  task[r] \in TaskRow
      BY DEF NoteInv, NoteTypes
    <3> QED
      BY <3>1 DEF TaskRow
  <2> QED
    BY <2>1, <2>2, <2>3 DEF NoteInv, NoteTypes, N!TypeOK, Stage
<1> QED
  BY <1>1, NoteInvariance, PTL

\* There is one row with a key, however often and by however many requests at one time it is
\* sent, and every answer about an item - delivered, duplicate, mismatch - is true of that
\* row from the moment it is computed until it is sent (AnswersHold of Notifications).
THEOREM AnswersAreTrue ==
    ASSUME N!NotificationAssumption
    PROVE  N!Spec => []N!AnswersHold
<1>1. NoteInv => N!AnswersHold
  <2> USE NoteConstants
  <2> SUFFICES ASSUME NoteInv PROVE N!AnswersHold
    OBVIOUS
  <2>1. ASSUME NEW k \in Key
        PROVE  N!Cardinality(N!WithKey(k)) <= 1
    <3>1. \A n, m \in N!WithKey(k) : n = m
      BY DEF NoteInv, KeysDiffer, N!WithKey, N!Exists
    <3>2. CASE N!WithKey(k) = {}
      BY <3>2, FS_EmptySet, SameSize
    <3>3. CASE N!WithKey(k) # {}
      <4>1. PICK n : n \in N!WithKey(k)
        BY <3>3
      <4>2. N!WithKey(k) = {n}
        BY <3>1, <4>1
      <4>3. Cardinality({n}) = 1
        BY FS_Singleton
      <4> QED
        BY <4>2, <4>3, SameSize
    <3> QED
      BY <3>2, <3>3
  <2>2. ASSUME NEW r \in Request, NEW i \in 1..Len(task[r].results),
               task[r].results[i].outcome \in Answered
        PROVE  /\ N!Visible(r, task[r].results[i].id)
               /\ note[task[r].results[i].id].key = task[r].batch[i].key
               /\ task[r].results[i].outcome = "delivered" =>
                    /\ note[task[r].results[i].id].owner = r
                    /\ note[task[r].results[i].id].to = task[r].batch[i].to
               /\ (task[r].results[i].outcome = "mismatch")
                    # (note[task[r].results[i].id].print = task[r].batch[i].print)
    <3>1. IsTrue(note, r, task[r].batch[i], task[r].results[i])
      BY DEF NoteInv, TasksFit, ResultsOf
    <3> QED
      BY <2>2, <3>1 DEF IsTrue, N!Visible, N!Exists
  <2> QED
    BY <2>1, <2>2 DEF N!AnswersHold, Answered
<1> QED
  BY <1>1, NoteInvariance, PTL

\* All requests together store no more than the limit on the account of a window, and its
\* counter holds at least what is committed, also when a request outlives the window it
\* charged (LimitHolds of Notifications).
THEOREM LimitsHold ==
    ASSUME N!NotificationAssumption
    PROVE  N!Spec => []N!LimitHolds
<1>1. NoteInv => N!LimitHolds
  <2> USE NoteConstants
  <2> SUFFICES ASSUME NoteInv PROVE N!LimitHolds
    OBVIOUS
  <2> SUFFICES ASSUME NEW w \in N!Window
               PROVE  LET rows == {n \in N!NoteId : N!Exists(n) /\ note[n].window = w} IN
                      /\ Cardinality(rows) <= Limit /\ counter[w] <= Limit
                      /\ Cardinality({n \in rows : N!Committed(n)}) <= counter[w]
    BY SameSize DEF N!LimitHolds
  <2> DEFINE rows == {n \in N!NoteId : N!Exists(n) /\ note[n].window = w}
             mine == RowsOf(note, counterLock[w], w)
             done == RowsOf(note, Nobody, w)
  <2>1. \A n \in N!NoteId : note[n].window = w => N!Exists(n)
    <3>1. N!NoNote.window = N!NoId
      BY DEF N!NoNote
    <3> QED
      BY <3>1 DEF NoteInv, NotesFit, N!Exists
  <2>2. {n \in rows : N!Committed(n)} = done
    BY <2>1 DEF N!Committed, RowsOf
  <2>3. rows = done \cup mine
    BY <2>1 DEF NoteInv, NotesFit, RowsOf
  <2>4. counter[w] \in Nat /\ counter[w] <= Limit /\ Cardinality(done) <= counter[w]
    BY DEF NoteInv, NoteTypes, CountersFit
  <2>5. /\ IsFiniteSet(done) /\ Cardinality(done) \in Nat
        /\ IsFiniteSet(mine) /\ Cardinality(mine) \in Nat
        /\ Cardinality(done \cap mine) \in Nat
    <3>1. done \subseteq N!NoteId /\ mine \subseteq N!NoteId /\ done \cap mine \subseteq N!NoteId
      BY DEF RowsOf
    <3> QED
      BY <3>1, NotesAreFinite
  <2>6. Cardinality(rows) <= Limit
    <3>1. CASE counterLock[w] = Nobody
      <4>1. rows = done
        BY <3>1, <2>3
      <4>2. Cardinality(rows) = Cardinality(done)
        BY <4>1
      <4> HIDE DEF rows, done
      <4> QED
        BY <4>2, <2>4, <2>5
    <3>2. CASE counterLock[w] # Nobody
      <4>1. counterLock[w] \in Request
        BY <3>2 DEF NoteInv, NoteTypes
      <4>2. /\ ChargeOf(counterLock[w], w) <= Limit
            /\ Cardinality(LostOf(task[counterLock[w]].results, w)) \in Nat
        BY <4>1, ChargesAreCounted DEF NoteInv, CountersFit
      <4>3. counter[w] + Cardinality(mine) <= Limit
        <5>1. ChargeOf(counterLock[w], w) = counter[w] + Cardinality(mine)
                                              + Cardinality(LostOf(task[counterLock[w]].results, w))
          BY DEF ChargeOf
        <5> QED
          BY <5>1, <4>2, <2>4, <2>5
      <4>4. Cardinality(rows) = Cardinality(done) + Cardinality(mine) - Cardinality(done \cap mine)
        BY <2>3, <2>5, FS_Union
      <4> QED
        BY <4>3, <4>4, <2>4, <2>5
    <3> QED
      BY <3>1, <3>2
  <2> QED
    BY <2>2, <2>4, <2>6
<1> QED
  BY <1>1, NoteInvariance, PTL

\* Nothing reopens an application that is decided, and no notice that it awaits review is
\* left unacknowledged or delivered afterwards (DecidedIsQuiet of Notifications).
THEOREM DecisionsAreQuiet ==
    ASSUME N!NotificationAssumption
    PROVE  N!Spec => N!DecidedIsQuiet
<1>1. ASSUME NoteInv, NoteInv', [N!Next]_(N!vars), app = "decided"
      PROVE  /\ app' = "decided"
             /\ \A n \in N!NoteId : note'[n].to # Nobody /\ note'[n].topic = "pending" => note'[n].acked
  <2>1. \A r \in Request : ~N!CoreDelivers(r)
    BY <1>1 DEF NoteInv, ReviewsFit, Reviewing, N!CoreDelivers
  <2>2. ASSUME NEW r \in Request, N!Delivers(r) \/ N!Reviews(r) \/ N!Abort(r)
        PROVE  app' = app
    BY <2>1, <2>2 DEF N!Delivers, N!DeliverLoads, N!Judge, N!LockCounter, N!InsertNote, N!DeliverCommits,
                      N!Reviews, N!Revise, N!Decide, N!Withdraw, N!Begin, N!CoreFails, N!Abort, N!Fails
  <2>3. app' = app
    BY <1>1, <2>2 DEF N!Next, N!Acknowledge, N!Retract, N!Acks, N!Crosses, N!Tick, N!vars
  <2> QED
    BY <1>1, <2>3 DEF NoteInv, PendingFits
<1>2. NoteInv /\ NoteInv' /\ [N!Next]_(N!vars) =>
        [app = "decided" =>
           /\ app' = "decided"
           /\ \A n \in N!NoteId : (N!Exists(n) /\ note[n].topic = "pending")' => note'[n].acked]_(N!vars)
  BY <1>1 DEF N!Exists
<1> QED
  BY <1>2, NoteInvariance, PTL DEF N!Spec, N!DecidedIsQuiet

=============================================================================
