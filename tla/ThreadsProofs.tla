---------------------------- MODULE ThreadsProofs ----------------------------
(***************************************************************************)
(* Theorems about Threads: a thread is never listed before its             *)
(* latest content, a content exceeds the quota of its author only by       *)
(* creations that overlap, and a reader who pages to the end has missed    *)
(* nothing but in the cases the property names.                            *)
(*                                                                         *)
(* All rest on Types, which leaves the reader out.  The first needs no     *)
(* more than the order of the clock.  For the second, Alone says what is   *)
(* true of a member who never had two creations under way: there is at     *)
(* most one, and it was let in below the quota of every window, which      *)
(* still holds when it is published, because nobody else adds to the       *)
(* contents of that member and windows only move forward.                  *)
(* For the third, Good says where the cursor and the page of a walk stand  *)
(* between what was seen and what is still due.  The rows of a page are    *)
(* totally ordered, so that there is always a row of each rank, and the    *)
(* row that the cursor is made from is the last one.                       *)
(*                                                                         *)
(* The last part is about Contents, the events among the contents: for any *)
(* numbers of members, seats and requests, an event is not overbooked, its *)
(* attendees know of its versions, and an archive is complete.             *)
(***************************************************************************)
EXTENDS Threads, FiniteSetTheorems, TLAPS

Label == {"new", "counted", "begun", "waiting", "over"}
Status == {"none", "live", "expired", "removed"}

JobRow == [label : Label, thread : Content \cup {None}, at : Time \cup {None},
           under : Quota \cup {NoQuota}]

Types ==
    /\ row \in [Content -> [thread : Content \cup {None}, at : Time \cup {None},
                            status : Status, open : BOOLEAN]]
    /\ activity \in [Content -> Time \cup {NoThread}]
    /\ job \in [Content -> JobRow]
    /\ quota \in [Member -> Quota]
    /\ clock \in Time
    /\ \A c \in Content : job[c].label \in {"begun", "waiting"} => job[c].at \in Time

LEMMA Numbers == /\ MaxContent \in Nat /\ MaxClock \in Nat /\ 1 \in Time
                 /\ Content \subseteq Nat /\ Time \subseteq Nat /\ None \notin Time
                 /\ IsFiniteSet(Content)
<1>1. MaxContent \in Nat /\ MaxClock \in Nat /\ 1 \in Time
  BY ThreadAssumption DEF Time
<1>2. IsFiniteSet(Content)
  BY <1>1, FS_Interval DEF Content
<1> QED
  BY <1>1, <1>2 DEF Content, Time, None

-----------------------------------------------------------------------------
(* Types *)

LEMMA InitTypes == Init => Types
<1> SUFFICES ASSUME Init PROVE Types
  OBVIOUS
<1> USE Numbers DEF Init
<1>1. row \in [Content -> [thread : Content \cup {None}, at : Time \cup {None},
                           status : Status, open : BOOLEAN]]
  BY DEF NoRow, Status
<1>2. activity \in [Content -> Time \cup {NoThread}]
  OBVIOUS
<1>3. /\ job \in [Content -> JobRow]
      /\ \A c \in Content : job[c].label \in {"begun", "waiting"} => job[c].at \in Time
  <2>1. NoJob \in JobRow /\ [NoJob EXCEPT !.label = "over"] \in JobRow
    BY DEF NoJob, JobRow, Label
  <2>2. NoJob.label = "new" /\ [NoJob EXCEPT !.label = "over"].label = "over"
    BY DEF NoJob
  <2> HIDE DEF NoJob
  <2> QED
    BY <2>1, <2>2
<1>4. quota \in [Member -> Quota]
  BY ThreadAssumption
<1> QED
  BY <1>1, <1>2, <1>3, <1>4 DEF Types

\* A request that moves keeps the types of the requests.
LEMMA MovesTypes ==
    ASSUME Types, NEW c \in Content, NEW to \in Label, NEW t \in Content \cup {None},
           NEW at \in Time \cup {None}, NEW under \in Quota \cup {NoQuota},
           Moves(c, to, t, at, under), to \in {"begun", "waiting"} => at \in Time
    PROVE  /\ job' \in [Content -> JobRow]
           /\ \A d \in Content : job'[d].label \in {"begun", "waiting"} => job'[d].at \in Time
<1> DEFINE entry == [label |-> to, thread |-> t, at |-> at, under |-> under]
<1>1. entry \in JobRow /\ entry.label = to /\ entry.at = at
  BY DEF JobRow
<1>2. job' = [job EXCEPT ![c] = entry]
  BY DEF Moves
<1> HIDE DEF entry
<1> QED
  BY <1>1, <1>2 DEF Types

LEMMA TypesKept == Types /\ [Next]_vars => Types'
<1> SUFFICES ASSUME Types, [Next]_vars PROVE Types'
  OBVIOUS
<1> USE Numbers
<1>1. ASSUME NEW c \in Content, NEW t \in Content, Preflight(c, t) PROVE Types'
  <2>1. CASE Refused(c)
    BY <1>1, <2>1, MovesTypes DEF Preflight, Refused, Types, Label, world
  <2>2. CASE Moves(c, "counted", t, None, quota[AuthorOf[c]])
    <3>1. quota[AuthorOf[c]] \in Quota
      BY ThreadAssumption DEF Types, Content
    <3> QED
      BY <1>1, <2>2, <3>1, MovesTypes DEF Preflight, Types, Label, world
  <2> QED
    BY <1>1, <2>1, <2>2 DEF Preflight
<1>2. ASSUME NEW c \in Content, Begin(c) PROVE Types'
  <2>1. CASE Refused(c)
    BY <1>2, <2>1, MovesTypes DEF Begin, Refused, Types, Label, world
  <2>2. CASE Moves(c, "begun", job[c].thread, clock, job[c].under)
    BY <1>2, <2>2, MovesTypes DEF Begin, Types, JobRow, Label, world
  <2> QED
    BY <1>2, <2>1, <2>2 DEF Begin
<1>3. ASSUME NEW c \in Content, Waits(c) PROVE Types'
  BY <1>3, MovesTypes DEF Waits, Types, JobRow, Label, world
<1>4. ASSUME NEW c \in Content, Publish(c) PROVE Types'
  <2>1. /\ job' \in [Content -> JobRow]
        /\ \A d \in Content : job'[d].label \in {"begun", "waiting"} => job'[d].at \in Time
    BY <1>4, MovesTypes DEF Publish, Refused, Label
  <2>2. row' \in [Content -> [thread : Content \cup {None}, at : Time \cup {None},
                              status : Status, open : BOOLEAN]]
    <3>1. NewRow(c) \in [thread : Content \cup {None}, at : Time \cup {None},
                         status : Status, open : BOOLEAN]
      <4>1. job[c].thread \in Content \cup {None} /\ job[c].at \in Time \cup {None}
        BY DEF Types, JobRow
      <4>2. "live" \in Status /\ (c \in Loopable) \in BOOLEAN
        BY DEF Status
      <4> QED
        BY <4>1, <4>2 DEF NewRow
    <3>2. row' = row \/ row' = [row EXCEPT ![c] = NewRow(c)]
      BY <1>4 DEF Publish
    <3> QED
      BY <3>1, <3>2 DEF Types
  <2>3. activity' \in [Content -> Time \cup {NoThread}]
    <3>1. CASE UNCHANGED activity
      BY <3>1 DEF Types
    <3>2. CASE activity' = [activity EXCEPT ![job[c].thread] = Touched(@, job[c].at)]
      <4>1. job[c].at \in Time /\ (job[c].thread \in Content => activity[job[c].thread] \in Time \cup {NoThread})
        BY <1>4 DEF Publish, Types, JobRow
      <4> QED
        BY <3>2, <4>1 DEF Touched, Types
    <3> QED
      BY <1>4, <3>1, <3>2 DEF Publish
  <2> QED
    BY <1>4, <2>1, <2>2, <2>3 DEF Publish, Types, world
<1>5. ASSUME NEW c \in Content, Abort(c) PROVE Types'
  BY <1>5, MovesTypes DEF Abort, Refused, Types, Label, world
<1>6. ASSUME NEW c \in Content, RemoveContent(c) PROVE Types'
  BY <1>6 DEF RemoveContent, Types, Status, world
<1>7. ASSUME NEW c \in Content, Expire(c) PROVE Types'
  BY <1>7 DEF Expire, Types, Status, world
<1>8. ASSUME NEW c \in Content, NEW open \in BOOLEAN, SetLoopState(c, open) PROVE Types'
  BY <1>8 DEF SetLoopState, Types, world
<1>9. ASSUME NEW m \in Member, RemoveMember(m) PROVE Types'
  BY <1>9 DEF RemoveMember, Types, world
<1>10. CASE RemovalCommits
  BY <1>10 DEF RemovalCommits, Types, NoRow, Status
<1>11. CASE RemovalFails
  BY <1>11 DEF RemovalFails, Types, world
<1>12. CASE UNCHANGED <<row, activity, job, quota, clock>>
  BY <1>12 DEF Types
<1>13. CASE Tick
  BY <1>13 DEF Tick, Types, Time
<1>17. ASSUME NEW m \in Member, NEW q \in Quota, ChangeQuota(m, q) PROVE Types'
  BY <1>17 DEF ChangeQuota, Types
<1>14. ASSUME NEW kind \in {"list", "read"}, NEW t \in Content \cup {None},
              NEW closed \in BOOLEAN, FirstPage(kind, t, closed)
       PROVE  Types'
  BY <1>14, <1>12 DEF FirstPage, world
<1>15. CASE NextPage \/ LoadPage
  BY <1>15, <1>12 DEF NextPage, LoadPage, world
<1>16. CASE UNCHANGED vars
  BY <1>16, <1>12 DEF vars
<1> QED
  BY <1>1, <1>2, <1>3, <1>4, <1>5, <1>6, <1>7, <1>8, <1>9, <1>10, <1>11, <1>13, <1>14, <1>15,
     <1>16, <1>17 DEF Next

\* Times are numbers, and None is one of them.
LEMMA TimesAreNumbers ==
    ASSUME Types
    PROVE  \A c \in Content : /\ row[c].at \in Nat /\ activity[c] \in Nat
                              /\ row[c].thread \in Content \cup {None}
                              /\ job[c].at \in Nat
<1> SUFFICES ASSUME NEW c \in Content
             PROVE  /\ row[c].at \in Nat /\ activity[c] \in Nat
                    /\ row[c].thread \in Content \cup {None} /\ job[c].at \in Nat
  OBVIOUS
<1>1. row[c].at \in Time \cup {None} /\ row[c].thread \in Content \cup {None}
  BY DEF Types
<1>2. activity[c] \in Time \cup {None} /\ job[c].at \in Time \cup {None}
  BY DEF Types, JobRow, NoThread
<1>3. Time \cup {None} \subseteq Nat
  BY Numbers DEF None
<1> QED
  BY <1>1, <1>2, <1>3

-----------------------------------------------------------------------------
(* A thread and its replies *)

\* Rows that stay keep their thread and their time, threads that stay move forward: then
\* what was covered is covered.
LEMMA CoverKept ==
    ASSUME Types, Types', ActivityCoversContents,
           \A c \in Content : c \in Rows' =>
               /\ c \in Rows /\ row'[c].thread = row[c].thread /\ row'[c].at = row[c].at
               /\ row[c].thread \in Threads =>
                     row[c].thread \in Threads' /\ activity'[row[c].thread] >= activity[row[c].thread]
    PROVE  ActivityCoversContents'
<1> SUFFICES ASSUME NEW c \in Content, c \in Rows'
             PROVE  row'[c].thread \in Threads' /\ activity'[row'[c].thread] >= row'[c].at
  BY DEF ActivityCoversContents, Rows
<1>1. /\ c \in Rows /\ row'[c].thread = row[c].thread /\ row'[c].at = row[c].at
      /\ row[c].thread \in Threads /\ activity[row[c].thread] >= row[c].at
  BY DEF ActivityCoversContents
<1>2. row[c].thread \in Threads' /\ activity'[row[c].thread] >= activity[row[c].thread]
  BY <1>1
<1>3. /\ row[c].at \in Nat /\ activity[row[c].thread] \in Nat
      /\ activity'[row[c].thread] \in Nat
  <2>1. row[c].thread \in Content
    BY <1>1 DEF Threads
  <2>2. activity'[row[c].thread] \in Time \cup {None}
    BY <2>1 DEF Types, NoThread
  <2>3. Time \cup {None} \subseteq Nat
    BY Numbers DEF None
  <2>4. row[c].at \in Nat /\ activity[row[c].thread] \in Nat
    BY <2>1, TimesAreNumbers
  <2> QED
    BY <2>2, <2>3, <2>4
<1> QED
  BY <1>1, <1>2, <1>3

LEMMA CoverSame ==
    ASSUME Types, Types', ActivityCoversContents, UNCHANGED <<row, activity>>
    PROVE  ActivityCoversContents'
BY DEF ActivityCoversContents, Rows, Threads

\* An edit of a content keeps its thread and its time.
LEMMA CoverEdited ==
    ASSUME Types, Types', ActivityCoversContents, UNCHANGED activity,
           \A c \in Content : c \in Rows' =>
               c \in Rows /\ row'[c].thread = row[c].thread /\ row'[c].at = row[c].at
    PROVE  ActivityCoversContents'
<1>1. ASSUME NEW d \in Content, d \in Rows'
      PROVE  /\ d \in Rows /\ row'[d].thread = row[d].thread /\ row'[d].at = row[d].at
             /\ row[d].thread \in Threads =>
                   row[d].thread \in Threads' /\ activity'[row[d].thread] >= activity[row[d].thread]
  <2>1. d \in Rows /\ row'[d].thread = row[d].thread /\ row'[d].at = row[d].at
    BY <1>1
  <2>2. ASSUME row[d].thread \in Threads
        PROVE  row[d].thread \in Threads' /\ activity'[row[d].thread] >= activity[row[d].thread]
    <3>1. activity[row[d].thread] \in Nat
      BY <2>2, TimesAreNumbers DEF Threads
    <3> QED
      BY <2>2, <3>1 DEF Threads
  <2> QED
    BY <2>1, <2>2
<1> QED
  BY <1>1, CoverKept

LEMMA CoverStep == Types /\ Types' /\ ActivityCoversContents /\ [Next]_vars => ActivityCoversContents'
<1> SUFFICES ASSUME Types, Types', ActivityCoversContents, [Next]_vars
             PROVE  ActivityCoversContents'
  OBVIOUS
<1>1. ASSUME NEW c \in Content, Publish(c) PROVE ActivityCoversContents'
  <2>1. CASE ~TargetThere(c)
    BY <1>1, <2>1, CoverSame DEF Publish
  <2>2. CASE TargetThere(c)
    <3> DEFINE t == job[c].thread
    <3>1. t \in Content /\ job[c].at \in Time
      BY <1>1, <2>2 DEF Publish, TargetThere, Targets, Threads, Types, JobRow
    <3>2. /\ row' = [row EXCEPT ![c] = NewRow(c)]
          /\ activity' = [activity EXCEPT ![t] = Touched(activity[t], job[c].at)]
      BY <1>1, <2>2 DEF Publish
    <3>3. /\ activity[t] \in Nat /\ job[c].at \in Nat /\ job[c].at > 0
          /\ activity'[t] = Touched(activity[t], job[c].at)
      <4>1. activity[t] \in Nat /\ job[c].at \in Nat
        BY <3>1, TimesAreNumbers
      <4>2. job[c].at > 0
        BY <3>1, Numbers DEF Time
      <4>3. activity'[t] = Touched(activity[t], job[c].at)
        BY <3>1, <3>2 DEF Types
      <4> QED
        BY <4>1, <4>2, <4>3
    <3>4. activity'[t] >= activity[t] /\ activity'[t] >= job[c].at /\ t \in Threads'
      BY <3>1, <3>3 DEF Touched, Threads, NoThread, None
    <3>5. ASSUME NEW d \in Content, d \in Rows'
          PROVE  row'[d].thread \in Threads' /\ activity'[row'[d].thread] >= row'[d].at
      <4>1. CASE d = c
        BY <4>1, <3>2, <3>4 DEF NewRow, Types
      <4>2. CASE d # c
        <5>1. row'[d] = row[d] /\ d \in Rows
          BY <4>2, <3>2, <3>5 DEF Rows, Types
        <5>2. row[d].thread \in Threads /\ activity[row[d].thread] >= row[d].at
          BY <5>1 DEF ActivityCoversContents
        <5>3. row[d].at \in Nat /\ activity[row[d].thread] \in Nat
          BY <5>2, TimesAreNumbers DEF Threads
        <5>4. CASE row[d].thread = t
          BY <5>1, <5>2, <5>3, <5>4, <3>3, <3>4 DEF Touched
        <5>5. CASE row[d].thread # t
          BY <5>1, <5>2, <5>5, <3>2 DEF Threads, Types
        <5> QED
          BY <5>4, <5>5
      <4> QED
        BY <4>1, <4>2
    <3> QED
      BY <3>5 DEF ActivityCoversContents, Rows
  <2> QED
    BY <2>1, <2>2
<1>2. ASSUME NEW c \in Content, \/ RemoveContent(c) \/ Expire(c)
                               \/ \E open \in BOOLEAN : SetLoopState(c, open)
      PROVE  ActivityCoversContents'
  <2>1. UNCHANGED activity
    BY <1>2 DEF RemoveContent, Expire, SetLoopState
  <2>2. ASSUME NEW d \in Content, d \in Rows'
        PROVE  d \in Rows /\ row'[d].thread = row[d].thread /\ row'[d].at = row[d].at
    BY <1>2, <2>2 DEF RemoveContent, Expire, SetLoopState, Rows, Standing, Types
  <2> QED
    BY <2>1, <2>2, CoverEdited
<1>5. CASE RemovalCommits
  <2>1. ASSUME NEW c \in Content, c \in Rows'
        PROVE  /\ c \in Rows /\ row'[c].thread = row[c].thread /\ row'[c].at = row[c].at
               /\ row[c].thread \in Threads =>
                     row[c].thread \in Threads' /\ activity'[row[c].thread] >= activity[row[c].thread]
    <3>1. AuthorOf[c] # removing /\ row'[c] = row[c] /\ c \in Rows
      BY <1>5, <2>1 DEF RemovalCommits, Rows, NoRow
    <3>2. row[c].thread \notin Doomed(removing)
      BY <3>1 DEF Doomed, RowsOf, By
    <3>3. ASSUME row[c].thread \in Threads
          PROVE  row[c].thread \in Threads' /\ activity'[row[c].thread] >= activity[row[c].thread]
      <4>1. activity'[row[c].thread] = activity[row[c].thread]
        BY <1>5, <3>2, <3>3 DEF RemovalCommits, Threads
      <4>2. activity[row[c].thread] \in Nat
        BY <3>3, TimesAreNumbers DEF Threads
      <4> QED
        BY <3>3, <4>1, <4>2 DEF Threads
    <3> QED
      BY <3>1, <3>3
  <2> QED
    BY <2>1, CoverKept
<1>6. CASE UNCHANGED <<row, activity>>
  BY <1>6, CoverSame
<1>7. ASSUME NEW c \in Content, \/ \E t \in Content : Preflight(c, t)
                               \/ Begin(c) \/ Waits(c) \/ Abort(c)
      PROVE  ActivityCoversContents'
  BY <1>7, <1>6 DEF Preflight, Begin, Waits, Abort
<1>8. ASSUME NEW m \in Member, RemoveMember(m) \/ \E q \in Quota : ChangeQuota(m, q)
      PROVE  ActivityCoversContents'
  BY <1>8, <1>6 DEF RemoveMember, ChangeQuota
<1>9. CASE RemovalFails \/ NextPage \/ LoadPage \/ Tick \/ UNCHANGED vars
  BY <1>9, <1>6 DEF RemovalFails, NextPage, LoadPage, Tick, vars
<1>10. ASSUME NEW kind \in {"list", "read"}, NEW t \in Content \cup {None},
              NEW closed \in BOOLEAN, FirstPage(kind, t, closed)
       PROVE  ActivityCoversContents'
  BY <1>10, <1>6 DEF FirstPage
<1> QED
  BY <1>1, <1>2, <1>5, <1>7, <1>8, <1>9, <1>10 DEF Next

\* However late replies are committed, whatever is edited, expires or is deleted with its
\* author, a thread is listed at the time of its latest content or after: for any number of
\* members, contents and times (greatest(last_activity_at, created_at) in createContent).
THEOREM ThreadsCoverReplies == Spec => []ActivityCoversContents
<1>1. Init => Types /\ ActivityCoversContents
  <2> SUFFICES ASSUME Init PROVE Types /\ ActivityCoversContents
    OBVIOUS
  <2>1. Types
    BY InitTypes
  <2>2. ASSUME NEW c \in Rows
        PROVE  row[c].thread \in Threads /\ activity[row[c].thread] >= row[c].at
    <3>1. c \in Content /\ c \in Initial
      BY <2>2 DEF Init, Rows, NoRow
    <3>2. row[c].thread = c /\ row[c].at = 1 /\ activity[c] = 1
      BY <3>1 DEF Init
    <3> QED
      BY <3>1, <3>2 DEF Threads, NoThread, None
  <2> QED
    BY <2>1, <2>2 DEF ActivityCoversContents
<1>2. Types /\ ActivityCoversContents /\ [Next]_vars => (Types /\ ActivityCoversContents)'
  BY TypesKept, CoverStep
<1> QED
  BY <1>1, <1>2, PTL DEF Spec

-----------------------------------------------------------------------------
(* The quota *)

\* The contents of m, among those of a table, in a window that ends now.
Within(rows, m, w, now) ==
    {c \in Content : /\ rows[c].status # "none" /\ AuthorOf[c] = m
                     /\ rows[c].at + Length[w] >= now}

LEMMA RecentIsWithin ==
    /\ \A m, w, now : Recent(m, w, now) = Within(row, m, w, now)
    /\ \A m, w : Count(m, w) = Cardinality(Within(row, m, w, clock))
BY DEF Recent, Count, By, Rows, Within

\* A creation is written under the time it begins, where the windows end that bound it.
Since(c) == IF job[c].label = "counted" THEN clock ELSE job[c].at

\* A member whose creations never overlapped has one of them under way at most, admitted
\* below the quota of every window.
Alone(m) ==
    \A c \in Content : AuthorOf[c] = m /\ UnderWay(c) =>
        /\ \A w \in Window : Cardinality(Within(row, m, w, Since(c))) < job[c].under[w]
        /\ \A d \in Content : AuthorOf[d] = m /\ UnderWay(d) => d = c

AllAlone == \A m \in Member \ overlapped : Alone(m)

LEMMA QuotaNumbers ==
    ASSUME Types, NEW w \in Window
    PROVE  /\ Length[w] \in Nat
           /\ \A c \in Content : job[c].under[w] \in Nat /\ Since(c) \in Nat
<1>1. \A q \in Quota \cup {NoQuota} : q[w] \in Nat
  BY ThreadAssumption DEF NoQuota
<1>2. \A c \in Content : job[c].under \in Quota \cup {NoQuota}
  BY DEF Types, JobRow
<1>3. clock \in Nat
  BY Numbers DEF Types
<1> QED
  BY <1>1, <1>2, <1>3, TimesAreNumbers, ThreadAssumption DEF Since

LEMMA WithinIsFinite ==
    ASSUME NEW rows, NEW m, NEW w, NEW now
    PROVE  /\ IsFiniteSet(Within(rows, m, w, now))
           /\ Cardinality(Within(rows, m, w, now)) \in Nat
<1>1. Within(rows, m, w, now) \subseteq Content
  BY DEF Within
<1> QED
  BY <1>1, Numbers, FS_Subset, FS_CardinalityType

\* Rows that stay keep their time: the later a window ends, the fewer of them are in it.
Settled(rows, old) ==
    \A c \in Content : rows[c].status # "none" =>
        old[c].status # "none" /\ rows[c].at = old[c].at /\ old[c].at \in Nat

LEMMA WithinShrinks ==
    ASSUME NEW rows, NEW old, Settled(rows, old), NEW m, NEW w \in Window,
           NEW now \in Nat, NEW later \in Nat, later >= now
    PROVE  Cardinality(Within(rows, m, w, later)) <= Cardinality(Within(old, m, w, now))
<1>1. Length[w] \in Nat
  BY ThreadAssumption
<1>2. Within(rows, m, w, later) \subseteq Within(old, m, w, now)
  BY <1>1 DEF Within, Settled
<1> QED
  BY <1>2, WithinIsFinite, FS_Subset

\* Steps that let nobody in and add no content.
LEMMA AloneKept ==
    ASSUME Types, Types', AllAlone, UNCHANGED overlapped, Settled(row', row),
           \A c \in Content : UnderWay(c)' =>
               UnderWay(c) /\ job'[c].under = job[c].under /\ Since(c)' >= Since(c)
    PROVE  AllAlone'
<1> SUFFICES ASSUME NEW m \in Member, m \notin overlapped, NEW c \in Content,
                    AuthorOf[c] = m, UnderWay(c)'
             PROVE  /\ \A w \in Window : Cardinality(Within(row', m, w, Since(c)')) < job'[c].under[w]
                    /\ \A d \in Content : AuthorOf[d] = m /\ UnderWay(d)' => d = c
  BY DEF AllAlone, Alone, Within
<1>1. UnderWay(c) /\ job'[c].under = job[c].under /\ Since(c)' >= Since(c)
  OBVIOUS
<1>2. /\ \A w \in Window : Cardinality(Within(row, m, w, Since(c))) < job[c].under[w]
      /\ \A d \in Content : AuthorOf[d] = m /\ UnderWay(d) => d = c
  BY <1>1 DEF AllAlone, Alone
<1>3. ASSUME NEW w \in Window PROVE Cardinality(Within(row', m, w, Since(c)')) < job'[c].under[w]
  <2>1. Since(c) \in Nat /\ job[c].under[w] \in Nat
    BY QuotaNumbers
  <2>2. Since(c)' \in Nat
    <3>1. clock' \in Time
      BY DEF Types
    <3>2. job'[c] \in JobRow
      BY DEF Types
    <3>3. job'[c].at \in Time \cup {None}
      BY <3>2 DEF JobRow
    <3>4. Time \cup {None} \subseteq Nat
      BY Numbers DEF None
    <3>5. clock' \in Nat /\ job'[c].at \in Nat
      BY <3>1, <3>3, <3>4
    <3> QED
      BY <3>5 DEF Since
  <2>3. Cardinality(Within(row', m, w, Since(c)')) <= Cardinality(Within(row, m, w, Since(c)))
    BY <1>1, <2>1, <2>2, WithinShrinks
  <2>4. /\ Cardinality(Within(row, m, w, Since(c))) \in Nat
        /\ Cardinality(Within(row', m, w, Since(c)')) \in Nat
    BY WithinIsFinite
  <2>5. Cardinality(Within(row, m, w, Since(c))) < job[c].under[w]
    BY <1>2
  <2> QED
    BY <1>1, <2>1, <2>3, <2>4, <2>5
<1> QED
  BY <1>2, <1>3

\* Rows that stay keep their time, whatever else is edited.
LEMMA RowsSettle ==
    ASSUME Types,
           \A c \in Content : row'[c].status # "none" =>
               row[c].status # "none" /\ row'[c].at = row[c].at
    PROVE  Settled(row', row)
BY TimesAreNumbers DEF Settled

\* A request that ends is not under way, and one that goes on keeps its quota and its time.
LEMMA MovedUnderWay ==
    ASSUME Types, Types', NEW c \in Content, NEW to, NEW t, NEW at, Moves(c, to, t, at, job[c].under),
           to \in {"begun", "waiting"}, UnderWay(c), UNCHANGED clock,
           at = IF job[c].label = "counted" THEN clock ELSE job[c].at
    PROVE  \A d \in Content : UnderWay(d)' =>
               UnderWay(d) /\ job'[d].under = job[d].under /\ Since(d)' >= Since(d)
<1> SUFFICES ASSUME NEW d \in Content, UnderWay(d)'
             PROVE  UnderWay(d) /\ job'[d].under = job[d].under /\ Since(d)' >= Since(d)
  OBVIOUS
<1>1. clock \in Nat /\ job[d].at \in Nat
  BY TimesAreNumbers, Numbers DEF Types
<1>2. CASE d = c
  <2>1. job'[c] = [label |-> to, thread |-> t, at |-> at, under |-> job[c].under]
    BY DEF Moves, Types
  <2> QED
    BY <1>1, <1>2, <2>1 DEF Since
<1>3. CASE d # c
  <2>1. job'[d] = job[d]
    BY <1>3 DEF Moves, Types
  <2> QED
    BY <1>1, <2>1 DEF Since, UnderWay
<1> QED
  BY <1>2, <1>3

LEMMA RefusedUnderWay ==
    ASSUME Types, NEW c \in Content, Refused(c), UNCHANGED clock
    PROVE  \A d \in Content : UnderWay(d)' =>
               /\ UnderWay(d) /\ d # c
               /\ job'[d].under = job[d].under /\ Since(d)' >= Since(d)
<1> SUFFICES ASSUME NEW d \in Content, UnderWay(d)'
             PROVE  /\ UnderWay(d) /\ d # c
                    /\ job'[d].under = job[d].under /\ Since(d)' >= Since(d)
  OBVIOUS
<1>1. d # c /\ job'[d] = job[d]
  BY DEF Refused, Moves, Types, UnderWay
<1>2. clock \in Nat /\ job[d].at \in Nat
  BY TimesAreNumbers, Numbers DEF Types
<1> QED
  BY <1>1, <1>2 DEF Since, UnderWay

LEMMA PreflightAlone ==
    ASSUME Types, Types', AllAlone, NEW c \in Content, NEW t \in Content, Preflight(c, t)
    PROVE  AllAlone'
<1>0. row' = row /\ clock' = clock /\ Settled(row', row)
  BY RowsSettle DEF Preflight, world
<1>1. CASE Refused(c) /\ UNCHANGED overlapped
  BY <1>0, <1>1, RefusedUnderWay, AloneKept
<1>2. CASE /\ WithinQuota(AuthorOf[c]) /\ Moves(c, "counted", t, None, quota[AuthorOf[c]])
           /\ overlapped' = overlapped \cup {m \in {AuthorOf[c]} : Together(c)}
  <2> SUFFICES ASSUME NEW m \in Member, m \notin overlapped', NEW d \in Content,
                      AuthorOf[d] = m, UnderWay(d)'
               PROVE  /\ \A w \in Window : Cardinality(Within(row', m, w, Since(d)')) < job'[d].under[w]
                      /\ \A e \in Content : AuthorOf[e] = m /\ UnderWay(e)' => e = d
    BY DEF AllAlone, Alone, Within
  <2>1. Alone(m) /\ (m = AuthorOf[c] => ~Together(c))
    BY <1>2 DEF AllAlone
  <2>2. /\ job'[c].label = "counted" /\ job'[c].under = quota[AuthorOf[c]]
        /\ \A e \in Content \ {c} : job'[e] = job[e]
    BY <1>2 DEF Moves, Types
  <2>3. \A e \in Content \ {c} : (UnderWay(e)' <=> UnderWay(e)) /\ Since(e)' = Since(e)
    BY <1>0, <2>2 DEF UnderWay, Since
  <2>4. CASE d = c
    <3>1. Since(c)' = clock
      BY <1>0, <2>2 DEF Since
    <3>2. \A w \in Window : Cardinality(Within(row, m, w, clock)) < quota[m][w]
      BY <1>2, <2>4, RecentIsWithin DEF WithinQuota
    <3>3. \A e \in Content : AuthorOf[e] = m /\ UnderWay(e)' => e = c
      BY <2>1, <2>3, <2>4 DEF Together
    <3> QED
      BY <1>0, <2>2, <2>4, <3>1, <3>2, <3>3
  <2>5. CASE d # c
    <3>1. UnderWay(d) /\ Since(d)' = Since(d) /\ job'[d] = job[d]
      BY <2>2, <2>3, <2>5
    <3>2. m # AuthorOf[c]
      BY <2>1, <2>5, <3>1 DEF Together
    <3>3. /\ \A w \in Window : Cardinality(Within(row, m, w, Since(d))) < job[d].under[w]
          /\ \A e \in Content : AuthorOf[e] = m /\ UnderWay(e) => e = d
      BY <2>1, <3>1 DEF Alone
    <3> QED
      BY <1>0, <2>3, <3>1, <3>2, <3>3
  <2> QED
    BY <2>4, <2>5
<1> QED
  BY <1>1, <1>2 DEF Preflight

LEMMA PublishAlone ==
    ASSUME Types, Types', AllAlone, NEW c \in Content, Publish(c)
    PROVE  AllAlone'
<1>1. \A d \in Content : UnderWay(d)' =>
          UnderWay(d) /\ d # c /\ job'[d].under = job[d].under /\ Since(d)' >= Since(d)
  BY RefusedUnderWay DEF Publish, world
<1>2. UNCHANGED overlapped /\ UnderWay(c)
  BY DEF Publish, UnderWay
<1>3. CASE UNCHANGED row
  <2>1. Settled(row', row)
    BY <1>3, RowsSettle
  <2> QED
    BY <1>1, <1>2, <2>1, AloneKept
<1>4. CASE row' = [row EXCEPT ![c] = NewRow(c)]
  <2> SUFFICES ASSUME NEW m \in Member, m \notin overlapped, NEW d \in Content,
                      AuthorOf[d] = m, UnderWay(d)'
               PROVE  /\ \A w \in Window : Cardinality(Within(row', m, w, Since(d)')) < job'[d].under[w]
                      /\ \A e \in Content : AuthorOf[e] = m /\ UnderWay(e)' => e = d
    BY <1>2 DEF AllAlone, Alone, Within
  <2>1. /\ UnderWay(d) /\ d # c /\ job'[d].under = job[d].under
        /\ \A w \in Window : Cardinality(Within(row, m, w, Since(d))) < job[d].under[w]
        /\ \A e \in Content : AuthorOf[e] = m /\ UnderWay(e) => e = d
    BY <1>1 DEF AllAlone, Alone
  <2>2. AuthorOf[c] # m
    BY <1>2, <2>1
  <2>3. Since(d)' = Since(d)
    BY <2>1 DEF Publish, Refused, Moves, Types, Since, world
  <2>4. \A w \in Window : Within(row', m, w, Since(d)) = Within(row, m, w, Since(d))
    BY <1>4, <2>2 DEF Within, Types
  <2> QED
    BY <1>1, <2>1, <2>3, <2>4
<1> QED
  BY <1>3, <1>4 DEF Publish

LEMMA AloneStep == Types /\ Types' /\ AllAlone /\ [Next]_vars => AllAlone'
<1> SUFFICES ASSUME Types, Types', AllAlone, [Next]_vars PROVE AllAlone'
  OBVIOUS
<1>1. ASSUME NEW c \in Content, NEW t \in Content, Preflight(c, t) PROVE AllAlone'
  BY <1>1, PreflightAlone
<1>2. ASSUME NEW c \in Content, Begin(c) PROVE AllAlone'
  <2>1. /\ Settled(row', row) /\ UNCHANGED <<clock, overlapped>>
        /\ UnderWay(c) /\ job[c].label = "counted"
    BY <1>2, RowsSettle DEF Begin, UnderWay, world
  <2>2. CASE Refused(c)
    BY <2>1, <2>2, RefusedUnderWay, AloneKept
  <2>3. CASE Moves(c, "begun", job[c].thread, clock, job[c].under)
    BY <2>1, <2>3, MovedUnderWay, AloneKept
  <2> QED
    BY <1>2, <2>2, <2>3 DEF Begin
<1>3. ASSUME NEW c \in Content, Waits(c) PROVE AllAlone'
  <2>1. /\ Settled(row', row) /\ UNCHANGED <<clock, overlapped>>
        /\ UnderWay(c) /\ job[c].label # "counted"
        /\ Moves(c, "waiting", job[c].thread, job[c].at, job[c].under)
    BY <1>3, RowsSettle DEF Waits, UnderWay, world
  <2> QED
    BY <2>1, MovedUnderWay, AloneKept
<1>4. ASSUME NEW c \in Content, Publish(c) PROVE AllAlone'
  BY <1>4, PublishAlone
<1>5. ASSUME NEW c \in Content, Abort(c) PROVE AllAlone'
  <2>1. Settled(row', row) /\ UNCHANGED <<clock, overlapped>> /\ Refused(c)
    BY <1>5, RowsSettle DEF Abort, world
  <2> QED
    BY <2>1, RefusedUnderWay, AloneKept
<1>6. ASSUME UNCHANGED <<job, overlapped>>, clock' \in Nat, clock' >= clock,
             \A c \in Content : row'[c].status # "none" =>
                 row[c].status # "none" /\ row'[c].at = row[c].at
      PROVE  AllAlone'
  <2>1. ASSUME NEW c \in Content, UnderWay(c)'
        PROVE  UnderWay(c) /\ job'[c].under = job[c].under /\ Since(c)' >= Since(c)
    <3>1. job[c].at \in Nat
      BY TimesAreNumbers
    <3> QED
      BY <1>6, <2>1, <3>1 DEF UnderWay, Since
  <2> QED
    BY <1>6, <2>1, RowsSettle, AloneKept
<1>0. clock \in Nat /\ clock >= clock
  BY Numbers DEF Types
<1>7. ASSUME NEW c \in Content, RemoveContent(c) PROVE AllAlone'
  BY <1>0, <1>7, <1>6 DEF RemoveContent, Standing, Rows, Types, world
<1>8. ASSUME NEW c \in Content, Expire(c) PROVE AllAlone'
  BY <1>0, <1>8, <1>6 DEF Expire, Types, world
<1>9. ASSUME NEW c \in Content, NEW open \in BOOLEAN, SetLoopState(c, open) PROVE AllAlone'
  BY <1>0, <1>9, <1>6 DEF SetLoopState, Types, world
<1>10. CASE RemovalCommits
  BY <1>0, <1>10, <1>6 DEF RemovalCommits, NoRow
<1>11. CASE UNCHANGED <<row, job, overlapped, clock>>
  BY <1>0, <1>11, <1>6
<1>12. ASSUME NEW m \in Member, RemoveMember(m) \/ \E q \in Quota : ChangeQuota(m, q)
       PROVE  AllAlone'
  BY <1>12, <1>11 DEF RemoveMember, ChangeQuota, world
<1>13. CASE RemovalFails \/ NextPage \/ LoadPage \/ UNCHANGED vars
  BY <1>13, <1>11 DEF RemovalFails, NextPage, LoadPage, vars, world
<1>14. ASSUME NEW kind \in {"list", "read"}, NEW t \in Content \cup {None},
              NEW closed \in BOOLEAN, FirstPage(kind, t, closed)
       PROVE  AllAlone'
  BY <1>14, <1>11 DEF FirstPage, world
<1>15. CASE Tick
  <2>1. clock' = clock + 1 /\ UNCHANGED <<row, job, overlapped>>
    BY <1>15 DEF Tick
  <2> QED
    BY <1>0, <2>1, <1>6
<1> QED
  BY <1>1, <1>2, <1>3, <1>4, <1>5, <1>7, <1>8, <1>9, <1>10, <1>12, <1>13, <1>14, <1>15 DEF Next

\* Only a creation adds a content, and one that was alone adds it below its quota.
LEMMA CreatedWithin ==
    ASSUME Types, Types', AllAlone, Next, NEW c \in Content, c \in Rows' \ Rows,
           AuthorOf[c] \notin overlapped, NEW w \in Window
    PROVE  Cardinality(Recent(AuthorOf[c], w, row[c].at)') <= job[c].under[w]
<1> DEFINE m == AuthorOf[c]
           at == job[c].at
           before == Within(row, m, w, at)
           after == Within(row', m, w, at)
<1>1. Publish(c) /\ row' = [row EXCEPT ![c] = NewRow(c)]
  <2>1. row[c].status = "none" /\ row'[c].status # "none"
    BY DEF Rows
  <2>2. ASSUME NEW d \in Content, Publish(d) PROVE Publish(c) /\ row' = [row EXCEPT ![c] = NewRow(c)]
    <3>1. row' = [row EXCEPT ![d] = NewRow(d)]
      BY <2>1, <2>2 DEF Publish
    <3>2. d = c
      BY <2>1, <3>1 DEF Types
    <3> QED
      BY <2>2, <3>1, <3>2
  <2>3. ASSUME NEW d \in Content, \/ RemoveContent(d) \/ Expire(d)
                                  \/ \E open \in BOOLEAN : SetLoopState(d, open)
        PROVE  FALSE
    <3>1. row[d].status # "none" /\ \A e \in Content \ {d} : row'[e] = row[e]
      BY <2>3 DEF RemoveContent, Expire, SetLoopState, Standing, Rows, Types
    <3> QED
      BY <2>1, <3>1
  <2>4. ASSUME NEW d \in Content, \/ \E t \in Content : Preflight(d, t)
                                  \/ Begin(d) \/ Waits(d) \/ Abort(d)
        PROVE  row' = row
    BY <2>4 DEF Preflight, Begin, Waits, Abort
  <2>5. ASSUME NEW n \in Member, RemoveMember(n) \/ \E q \in Quota : ChangeQuota(n, q)
        PROVE  row' = row
    BY <2>5 DEF RemoveMember, ChangeQuota
  <2>6. RemovalCommits => FALSE
    BY <2>1 DEF RemovalCommits, NoRow
  <2>7. RemovalFails \/ NextPage \/ LoadPage \/ Tick => row' = row
    BY DEF RemovalFails, NextPage, LoadPage, Tick
  <2>8. ASSUME NEW kind \in {"list", "read"}, NEW t \in Content \cup {None},
               NEW closed \in BOOLEAN, FirstPage(kind, t, closed)
        PROVE  row' = row
    BY <2>8 DEF FirstPage
  <2> QED
    BY <2>1, <2>2, <2>3, <2>4, <2>5, <2>6, <2>7, <2>8 DEF Next
<1>2. UnderWay(c) /\ Since(c) = at /\ row'[c].at = at /\ \A d \in Content \ {c} : row'[d] = row[d]
  BY <1>1 DEF Publish, UnderWay, Since, NewRow, Types
<1>3. m \in Member /\ m \notin overlapped
  BY ThreadAssumption DEF Content
<1>4. Cardinality(before) < job[c].under[w]
  BY <1>2, <1>3 DEF AllAlone, Alone
<1>5. Recent(AuthorOf[c], w, row[c].at)' = after
  BY <1>2 DEF Recent, By, Rows, Within
<1>6. after \subseteq before \cup {c}
  BY <1>2 DEF Within
<1>7. IsFiniteSet(before) /\ Cardinality(before) \in Nat /\ Cardinality(after) \in Nat
  BY WithinIsFinite
<1>8. job[c].under[w] \in Nat
  BY QuotaNumbers
<1> HIDE DEF before, after
<1>9. /\ IsFiniteSet(before \cup {c})
      /\ Cardinality(before \cup {c}) = IF c \in before THEN Cardinality(before) ELSE Cardinality(before) + 1
  BY <1>7, FS_AddElement
<1>10. Cardinality(after) <= Cardinality(before \cup {c})
  BY <1>6, <1>9, FS_Subset
<1>11. Cardinality(after) <= job[c].under[w]
  BY <1>4, <1>7, <1>8, <1>9, <1>10
<1> QED
  BY <1>5, <1>11

\* The quota is counted in one transaction and spent in another, so it can be exceeded; but
\* only by a member two of whose creations were under way together, in a window of any length,
\* for any number of members and contents and any quota a role may have, whatever is removed,
\* fails, is aborted, or becomes of the role meanwhile (createContent).
THEOREM QuotaNeedsOverlap == Spec => OverQuotaNeedsOverlap
<1>1. Init => Types /\ AllAlone
  <2> SUFFICES ASSUME Init PROVE Types /\ AllAlone
    OBVIOUS
  <2>1. \A c \in Content : ~UnderWay(c)
    BY DEF Init, UnderWay, NoJob
  <2> QED
    BY <2>1, InitTypes DEF AllAlone, Alone
<1>2. Types /\ AllAlone /\ [Next]_vars => (Types /\ AllAlone)'
  BY TypesKept, AloneStep
<1> DEFINE Bounded == \A c \in Rows' \ Rows : AuthorOf[c] \notin overlapped =>
                         \A w \in Window :
                            Cardinality(Recent(AuthorOf[c], w, row[c].at)') <= job[c].under[w]
<1>3. Types /\ AllAlone /\ [Next]_vars => [Bounded]_vars
  <2> SUFFICES ASSUME Types, AllAlone, Next PROVE Bounded
    OBVIOUS
  <2>1. Types'
    BY TypesKept
  <2>2. Rows' \subseteq Content
    BY DEF Rows
  <2> QED
    BY <2>1, <2>2, CreatedWithin
<1> QED
  BY <1>1, <1>2, <1>3, PTL DEF Spec, OverQuotaNeedsOverlap

-----------------------------------------------------------------------------
(* Ranks *)

LEMMA IntervalSize ==
    ASSUME NEW n \in Nat
    PROVE  IsFiniteSet(1..n) /\ Cardinality(1..n) = n
<1>1. IsFiniteSet(1..n) /\ Cardinality(1..n) = IF 1 > n THEN 0 ELSE n - 1 + 1
  BY FS_Interval
<1>2. CASE n = 0
  BY <1>1, <1>2
<1>3. CASE n # 0
  <2>1. Cardinality(1..n) = n - 1 + 1
    BY <1>1, <1>3
  <2> QED
    BY <1>1, <2>1
<1> QED
  BY <1>2, <1>3

Upper(S, R, x) == {y \in S : <<y, x>> \in R}

\* In a finite set with a strict total order every rank is that of some element.
LEMMA RanksAreTaken ==
    ASSUME NEW S, IsFiniteSet(S), NEW R,
           \A x \in S : <<x, x>> \notin R,
           \A x, y \in S : x # y => <<x, y>> \in R \/ <<y, x>> \in R,
           \A x, y, z \in S : <<x, y>> \in R /\ <<y, z>> \in R => <<x, z>> \in R,
           NEW n \in 1..Cardinality(S)
    PROVE  \E x \in S : Cardinality(Upper(S, R, x)) + 1 = n
<1> DEFINE Up(x) == Upper(S, R, x)
           N == Cardinality(S)
           f == [x \in S |-> Cardinality(Up(x)) + 1]
<1>1. N \in Nat
  BY FS_CardinalityType
<1>2. ASSUME NEW x \in S
      PROVE  IsFiniteSet(Up(x)) /\ Cardinality(Up(x)) \in Nat /\ Cardinality(Up(x)) <= N - 1
  <2>1. Up(x) \subseteq S \ {x}
    BY DEF Upper
  <2>2. IsFiniteSet(S \ {x}) /\ Cardinality(S \ {x}) = N - 1
    BY FS_RemoveElement
  <2> HIDE DEF Up
  <2> QED
    BY <2>1, <2>2, FS_Subset, FS_CardinalityType
<1>3. ASSUME NEW x \in S, NEW y \in S, <<x, y>> \in R
      PROVE  Cardinality(Up(x)) < Cardinality(Up(y))
  <2>1. Up(x) \cup {x} \subseteq Up(y) /\ x \notin Up(x)
    BY <1>3 DEF Upper
  <2> HIDE DEF Up
  <2>2. Cardinality(Up(x) \cup {x}) = Cardinality(Up(x)) + 1
    BY <1>2, <2>1, FS_AddElement
  <2>3. Cardinality(Up(x) \cup {x}) <= Cardinality(Up(y))
    BY <1>2, <2>1, FS_Subset
  <2> QED
    BY <1>2, <2>2, <2>3
<1> SUFFICES ASSUME \A x \in S : f[x] # n PROVE FALSE
  OBVIOUS
<1>4. \A x \in S : f[x] \in (1..N) \ {n}
  <2> HIDE DEF Up
  <2> QED
    BY <1>1, <1>2
<1>5. f \in [S -> (1..N) \ {n}]
  BY <1>4
<1>6. IsFiniteSet((1..N) \ {n}) /\ Cardinality((1..N) \ {n}) < Cardinality(S)
  <2>1. IsFiniteSet(1..N) /\ Cardinality(1..N) = N
    <3> HIDE DEF N
    <3> QED
      BY <1>1, IntervalSize
  <2>2. IsFiniteSet((1..N) \ {n}) /\ Cardinality((1..N) \ {n}) = N - 1
    BY <2>1, FS_RemoveElement
  <2> QED
    BY <1>1, <2>2
<1>7. PICK x \in S, y \in S : x # y /\ f[x] = f[y]
  <2> HIDE DEF f
  <2> QED
    BY <1>5, <1>6, FS_PigeonHole
<1>8. Cardinality(Up(x)) = Cardinality(Up(y))
  <2> HIDE DEF Up
  <2> QED
    BY <1>2, <1>7
<1>9. /\ Cardinality(Up(x)) \in Nat /\ Cardinality(Up(y)) \in Nat
      /\ <<x, y>> \in R => Cardinality(Up(x)) < Cardinality(Up(y))
      /\ <<y, x>> \in R => Cardinality(Up(y)) < Cardinality(Up(x))
  <2> HIDE DEF Up, f
  <2> QED
    BY <1>2, <1>3
<1>10. <<x, y>> \in R \/ <<y, x>> \in R
  BY <1>7
<1> HIDE DEF Up, f
<1> QED
  BY <1>8, <1>9, <1>10

-----------------------------------------------------------------------------
(* Rows of pages *)

\* A set of rows as one query returns them: no two with one identifier.
Snapshot(set) ==
    /\ set \subseteq Key
    /\ IsFiniteSet(set)
    /\ \A k, l \in set : k[2] = l[2] => k = l
    /\ NoKey \notin set

LEMMA KeyNumbers == ASSUME NEW k \in Key PROVE k[1] \in Nat /\ k[2] \in Nat
<1>1. k[1] \in Time \cup {None} /\ k[2] \in Content \cup {None}
  BY DEF Key
<1>2. Time \cup {None} \subseteq Nat /\ Content \cup {None} \subseteq Nat
  BY Numbers DEF None
<1> QED
  BY <1>1, <1>2

\* Above is a strict order, total on the rows of one query.
LEMMA AboveOrder ==
    ASSUME NEW k \in Key, NEW l \in Key, NEW m \in Key
    PROVE  /\ ~Above(k, k)
           /\ Above(k, l) => ~Above(l, k)
           /\ Above(k, l) /\ Above(l, m) => Above(k, m)
           /\ ~Above(l, k) /\ Above(l, m) => Above(k, m)
           /\ k[2] # l[2] => Above(k, l) \/ Above(l, k)
BY KeyNumbers DEF Above

LEMMA SnapshotPart == ASSUME NEW set, NEW part \in SUBSET set, Snapshot(set) PROVE Snapshot(part)
BY FS_Subset DEF Snapshot

LEMMA RankSizes ==
    ASSUME NEW set, Snapshot(set), NEW k
    PROVE  /\ IsFiniteSet({l \in set : Above(l, k)})
           /\ Cardinality({l \in set : Above(l, k)}) \in Nat
           /\ Rank(k, set) = Cardinality({l \in set : Above(l, k)}) + 1
<1>1. {l \in set : Above(l, k)} \in SUBSET set
  OBVIOUS
<1>2. IsFiniteSet({l \in set : Above(l, k)})
  BY <1>1, FS_Subset DEF Snapshot
<1> QED
  BY <1>2, FS_CardinalityType DEF Rank

\* Every rank up to their number is that of one of the rows.
LEMMA RankTaken ==
    ASSUME NEW set, Snapshot(set), NEW n \in 1..Cardinality(set)
    PROVE  \E k \in set : Rank(k, set) = n
<1> DEFINE R == {p \in set \X set : Above(p[1], p[2])}
<1>1. \A x, y \in set : <<x, y>> \in R <=> Above(x, y)
  OBVIOUS
<1>2. set \subseteq Key /\ \A x, y \in set : x # y => x[2] # y[2]
  BY DEF Snapshot
<1> HIDE DEF R
<1>3. /\ \A x \in set : <<x, x>> \notin R
      /\ \A x, y \in set : x # y => <<x, y>> \in R \/ <<y, x>> \in R
      /\ \A x, y, z \in set : <<x, y>> \in R /\ <<y, z>> \in R => <<x, z>> \in R
  BY <1>1, <1>2, AboveOrder
<1>4. IsFiniteSet(set)
  BY DEF Snapshot
<1>5. PICK k \in set : Cardinality(Upper(set, R, k)) + 1 = n
  <2> HIDE DEF Snapshot
  <2> QED
    BY <1>3, <1>4, RanksAreTaken
<1>6. Upper(set, R, k) = {l \in set : Above(l, k)}
  BY <1>1 DEF Upper
<1> QED
  BY <1>5, <1>6 DEF Rank

\* Ranks follow the order.
LEMMA RankOrder ==
    ASSUME NEW set, Snapshot(set), NEW k \in set, NEW l \in set, Above(k, l)
    PROVE  Rank(k, set) < Rank(l, set)
<1> DEFINE K == {m \in set : Above(m, k)}
           L == {m \in set : Above(m, l)}
<1>0. set \subseteq Key
  BY DEF Snapshot
<1>1. K \cup {k} \subseteq L /\ k \notin K
  BY <1>0, AboveOrder
<1>2. /\ IsFiniteSet(K) /\ Cardinality(K) \in Nat /\ Rank(k, set) = Cardinality(K) + 1
      /\ IsFiniteSet(L) /\ Cardinality(L) \in Nat /\ Rank(l, set) = Cardinality(L) + 1
  BY RankSizes
<1> HIDE DEF K, L
<1>3. Cardinality(K \cup {k}) = Cardinality(K) + 1
  BY <1>1, <1>2, FS_AddElement
<1>4. Cardinality(K \cup {k}) <= Cardinality(L)
  BY <1>1, <1>2, FS_Subset
<1> QED
  BY <1>2, <1>3, <1>4

\* No rank exceeds the number of rows.
LEMMA RankBound ==
    ASSUME NEW set, Snapshot(set), NEW k \in set
    PROVE  Rank(k, set) \in 1..Cardinality(set) /\ Cardinality(set) \in Nat
<1>0. set \subseteq Key /\ IsFiniteSet(set) /\ Cardinality(set) \in Nat
  BY FS_CardinalityType DEF Snapshot
<1>1. {l \in set : Above(l, k)} \in SUBSET (set \ {k})
  BY <1>0, AboveOrder
<1>2. IsFiniteSet(set \ {k}) /\ Cardinality(set \ {k}) = Cardinality(set) - 1
  BY <1>0, FS_RemoveElement
<1>3. Cardinality({l \in set : Above(l, k)}) <= Cardinality(set) - 1
  BY <1>1, <1>2, FS_Subset
<1>4. Cardinality({l \in set : Above(l, k)}) \in Nat
  BY RankSizes
<1>5. Rank(k, set) = Cardinality({l \in set : Above(l, k)}) + 1
  BY DEF Rank
<1> HIDE DEF Rank
<1> QED
  BY <1>0, <1>3, <1>4, <1>5

\* The first rows: all of them if they are few, and otherwise some, above all the others.
LEMMA FirstRows ==
    ASSUME NEW left, Snapshot(left)
    PROVE  /\ First(Limit, left) \subseteq left
           /\ \A p \in First(Limit, left), k \in left \ First(Limit, left) : Above(p, k)
           /\ Cardinality(left) > Limit => First(Limit, left) # {}
           /\ ~(Cardinality(left) > Limit) => First(Limit, left) = left
<1>0. left \subseteq Key /\ Cardinality(left) \in Nat /\ Limit \in Nat \ {0}
  BY ThreadAssumption, FS_CardinalityType DEF Snapshot
<1>1. \A k \in left : Rank(k, left) \in 1..Cardinality(left)
  BY RankBound
<1>2. ASSUME NEW p \in First(Limit, left), NEW k \in left \ First(Limit, left) PROVE Above(p, k)
  <2>1. p \in left /\ Rank(p, left) <= Limit /\ ~(Rank(k, left) <= Limit) /\ p # k
    BY <1>2 DEF First
  <2>2. ~Above(k, p)
    BY <1>0, <1>1, <2>1, RankOrder
  <2> QED
    BY <1>0, <2>1, <2>2, AboveOrder DEF Snapshot
<1>3. ASSUME Cardinality(left) > Limit PROVE First(Limit, left) # {}
  <2>1. 1 \in 1..Cardinality(left)
    BY <1>0, <1>3
  <2>2. PICK k \in left : Rank(k, left) = 1
    BY <2>1, RankTaken
  <2> QED
    BY <1>0, <2>2 DEF First
<1>4. ASSUME ~(Cardinality(left) > Limit) PROVE First(Limit, left) = left
  BY <1>0, <1>1, <1>4 DEF First
<1> QED
  BY <1>2, <1>3, <1>4 DEF First


\* Rows with identifiers of their own are few.
LEMMA SnapshotIsFinite ==
    ASSUME NEW set \in SUBSET Key, \A k, l \in set : k[2] = l[2] => k = l
    PROVE  IsFiniteSet(set)
<1> DEFINE f == [k \in set |-> k[2]]
<1>1. IsFiniteSet(Content \cup {None})
  BY Numbers, FS_AddElement
<1>2. f \in [set -> Content \cup {None}]
  BY DEF Key
<1>3. f \in Injection(set, Content \cup {None})
  BY <1>2 DEF Injection, IsInjective
<1> QED
  BY <1>1, <1>3, FS_Injection

-----------------------------------------------------------------------------
(* What a query returns *)

KeysOf(kind, t, closed) == IF kind = "list" THEN ThreadKeys(closed) ELSE ItemKeys(t, closed)

\* A thread with contents has a first one.
LEMMA SubjectIsThere ==
    ASSUME Types, NEW t \in Content, RowsOf(t) # {}
    PROVE  Subject(t) \in RowsOf(t)
<1> DEFINE S == RowsOf(t)
           R == {p \in S \X S : Earlier(p[1], p[2])}
<1>1. S \subseteq Content /\ \A c \in S : c \in Nat /\ row[c].at \in Nat
  BY TimesAreNumbers, Numbers DEF RowsOf, Rows
<1>2. IsFiniteSet(S)
  BY <1>1, Numbers, FS_Subset
<1>3. \A x, y \in S : <<x, y>> \in R <=> Earlier(x, y)
  OBVIOUS
<1> HIDE DEF R, S
<1>4. /\ \A x \in S : <<x, x>> \notin R
      /\ \A x, y \in S : x # y => <<x, y>> \in R \/ <<y, x>> \in R
      /\ \A x, y, z \in S : <<x, y>> \in R /\ <<y, z>> \in R => <<x, z>> \in R
  <2>1. ASSUME NEW x \in S, NEW y \in S, NEW z \in S
        PROVE  /\ ~Earlier(x, x)
               /\ x # y => Earlier(x, y) \/ Earlier(y, x)
               /\ Earlier(x, y) /\ Earlier(y, z) => Earlier(x, z)
    <3>1. /\ x \in Nat /\ y \in Nat /\ z \in Nat
          /\ row[x].at \in Nat /\ row[y].at \in Nat /\ row[z].at \in Nat
      BY <1>1
    <3> QED
      BY <3>1 DEF Earlier
  <2> QED
    BY <2>1, <1>3
<1>5. 1 \in 1..Cardinality(S)
  <2>1. Cardinality(S) \in Nat /\ Cardinality(S) # 0
    BY <1>2, FS_CardinalityType, FS_EmptySet DEF S
  <2> QED
    BY <2>1
<1>6. PICK c \in S : Cardinality(Upper(S, R, c)) + 1 = 1
  BY <1>2, <1>4, <1>5, RanksAreTaken
<1>7. Upper(S, R, c) = {}
  <2>1. Upper(S, R, c) \subseteq S
    BY DEF Upper
  <2>2. IsFiniteSet(Upper(S, R, c))
    BY <2>1, <1>2, FS_Subset
  <2>3. Cardinality(Upper(S, R, c)) \in Nat
    BY <2>2, FS_CardinalityType
  <2>4. Cardinality(Upper(S, R, c)) = 0
    BY <2>3, <1>6
  <2> QED
    BY <2>2, <2>4, FS_EmptySet
<1>8. \A d \in S \ {c} : Earlier(c, d)
  BY <1>3, <1>4, <1>7 DEF Upper
<1> QED
  BY <1>8 DEF Subject, S

LEMMA ThreadKeysSnapshot ==
    ASSUME Types, NEW closed
    PROVE  /\ Snapshot(ThreadKeys(closed))
           /\ \A k \in ThreadKeys(closed) : k[2] \in Content /\ Subject(k[2]) \in Content
<1>1. ASSUME NEW k \in ThreadKeys(closed)
      PROVE  /\ k \in Key /\ k # NoKey /\ k = <<activity[k[2]], k[2]>>
             /\ k[2] \in Content /\ Subject(k[2]) \in Content
  <2>1. PICK t \in Threads : Listed(t, Reader, closed) /\ k = <<activity[t], t>>
    BY DEF ThreadKeys
  <2>2. t \in Content /\ activity[t] \in Time /\ activity[t] # None
    BY Numbers DEF Threads, Types, NoThread
  <2>3. Subject(t) \in RowsOf(t)
    BY <2>1, <2>2, SubjectIsThere DEF Listed
  <2>4. Subject(t) \in Content
    BY <2>3 DEF RowsOf, Rows
  <2> QED
    BY <2>1, <2>2, <2>4 DEF Key, NoKey
<1>2. \A k, l \in ThreadKeys(closed) : k[2] = l[2] => k = l
  BY <1>1
<1> QED
  BY <1>1, <1>2, SnapshotIsFinite DEF Snapshot

LEMMA ItemKeysSnapshot ==
    ASSUME Types, NEW t, NEW closed
    PROVE  /\ Snapshot(ItemKeys(t, closed))
           /\ \A k \in ItemKeys(t, closed) : k[2] \in Rows /\ row[k[2]].status # "expired"
<1>1. ASSUME NEW k \in ItemKeys(t, closed)
      PROVE  /\ k \in Key /\ k # NoKey /\ k = <<row[k[2]].at, k[2]>>
             /\ k[2] \in Rows /\ row[k[2]].status # "expired"
  <2>1. PICK c \in RowsOf(t) : Counted(c, Reader, closed) /\ k = <<row[c].at, c>>
    BY DEF ItemKeys
  <2>2. c \in Content /\ c \in Rows /\ c # None
    BY Numbers DEF RowsOf, Rows, None, Content
  <2>3. row[c].at \in Time \cup {None}
    BY <2>2 DEF Types
  <2>4. row[c].status # "expired"
    BY <2>1 DEF Counted
  <2> QED
    BY <2>1, <2>2, <2>3, <2>4 DEF Key, NoKey
<1>2. \A k, l \in ItemKeys(t, closed) : k[2] = l[2] => k = l
  BY <1>1
<1> QED
  BY <1>1, <1>2, SnapshotIsFinite DEF Snapshot

\* What a query returns is a snapshot: of threads that have a first content, or of contents
\* that the second transaction would load.
LEMMA KeysSnapshot ==
    ASSUME Types, NEW kind \in {"list", "read"}, NEW t, NEW closed
    PROVE  /\ Snapshot(KeysOf(kind, t, closed))
           /\ \A k \in KeysOf(kind, t, closed) :
                 /\ kind = "list" => Subject(k[2]) \in Content
                 /\ kind = "read" => k[2] \in Rows /\ row[k[2]].status # "expired"
<1>1. CASE kind = "list"
  BY <1>1, ThreadKeysSnapshot DEF KeysOf
<1>2. CASE kind = "read"
  BY <1>2, ItemKeysSnapshot DEF KeysOf
<1> QED
  BY <1>1, <1>2

-----------------------------------------------------------------------------
(* A walk *)

WalkRow == [kind : {"none", "list", "read"}, of : Content \cup {None}, closed : BOOLEAN,
            phase : {"fetch", "load", "end", "refused"}, cursor : Key, page : SUBSET Key,
            subject : [Content -> Content \cup {None}], more : BOOLEAN, seen : SUBSET Key,
            due : SUBSET Key, lost : SUBSET Key, short : BOOLEAN, emptied : BOOLEAN,
            repeated : BOOLEAN]

\* A walk whose cursor stands where its last page ended.
Exact(w) == w.kind = "read" \/ ~w.short

\* Between two pages, the cursor stands above all that is due and was neither seen nor left
\* out of a page, and below what was seen, unless a page of the list came out short.
BetweenPages(w) ==
    /\ w.cursor # NoKey
    /\ \A k \in w.due \ (w.seen \cup w.lost) : Above(w.cursor, k)
    /\ Exact(w) => \A k \in w.seen : ~Above(w.cursor, k)

\* Within a page, what is due is on it, was seen or left out, or there is more, and it is
\* further down.
WithinPage(w) ==
    /\ Snapshot(w.page)
    /\ \A k \in w.due \ (w.seen \cup w.lost \cup w.page) : w.more /\ \A p \in w.page : Above(p, k)
    /\ w.more => w.page # {}
    /\ Exact(w) => \A k \in w.seen, p \in w.page : Above(k, p)

Complete(w) ==
    w.phase = "end" => w.due = {} \/ (w.kind = "list" /\ (w.emptied \/ w.due \subseteq w.lost))
Advances(w) == w.repeated => w.kind = "list" /\ w.short

Good(w) ==
    /\ w \in WalkRow
    /\ w # NoWalk => w.kind \in {"list", "read"}
    /\ w.kind = "read" => w.lost = {}
    /\ w.phase = "fetch" /\ w # NoWalk => BetweenPages(w)
    /\ w.phase = "load" => WithinPage(w)
    /\ Complete(w) /\ Advances(w)

LEMMA NoWalkIsGood == Good(NoWalk)
<1>1. NoKey \in Key
  BY Numbers DEF NoKey, Key
<1>2. NoWalk \in WalkRow
  BY <1>1 DEF NoWalk, NoSubject, WalkRow
<1> QED
  BY <1>2 DEF NoWalk, Good, Complete, Advances

\* The query for a page, by a walk that begins or stands between two pages.
LEMMA FetchIsGood ==
    ASSUME NEW w \in WalkRow, NEW keys, Snapshot(keys), NEW v, walk' = v, Fetch(w, keys),
           w.kind \in {"list", "read"}, Advances(w), w.kind = "read" => w.lost = {},
           w.kind = "list" => \A k \in keys : Subject(k[2]) \in Content,
           w.cursor = NoKey => w.seen = {},
           w.cursor # NoKey => BetweenPages(w)
    PROVE  Good(v)
<1> DEFINE left == Beyond(w.cursor, keys)
           page == First(Limit, left)
           due == IF w.cursor = NoKey THEN keys ELSE w.due \cap keys
           subject == IF w.kind = "list" THEN Subjects(page) ELSE NoSubject
<1>1. CASE v = [NoWalk EXCEPT !.kind = "read", !.phase = "refused"]
  <2>1. NoKey \in Key
    BY Numbers DEF NoKey, Key
  <2>2. /\ v \in WalkRow /\ v.kind = "read" /\ v.phase = "refused" /\ ~v.repeated
        /\ v.lost = {}
    BY <1>1, <2>1 DEF NoWalk, NoSubject, WalkRow
  <2> QED
    BY <2>2 DEF Good, Complete, Advances
<1>2. CASE v = [w EXCEPT !.phase = "load", !.page = page, !.subject = subject,
                         !.more = Cardinality(left) > Limit, !.due = due]
  <2>1. Snapshot(left) /\ keys \subseteq Key
    <3>1. left \in SUBSET keys
      BY DEF Beyond
    <3> HIDE DEF left
    <3> QED
      BY <3>1, SnapshotPart DEF Snapshot
  <2> HIDE DEF left
  <2>2. /\ page \subseteq left
        /\ \A p \in page, k \in left \ page : Above(p, k)
        /\ Cardinality(left) > Limit => page # {}
        /\ ~(Cardinality(left) > Limit) => page = left
    BY <2>1, FirstRows
  <2>3. left \subseteq Key /\ due \subseteq Key
    BY <2>1 DEF Snapshot
  <2>11. left \subseteq keys
    BY DEF left, Beyond
  <2> HIDE DEF page
  <2>4. Snapshot(page)
    BY <2>1, <2>2, SnapshotPart
  <2>12. subject \in [Content -> Content \cup {None}]
    BY <2>2, <2>11 DEF Subjects, NoSubject
  <2> HIDE DEF subject
  <2>5. (Cardinality(left) > Limit) \in BOOLEAN
    OBVIOUS
  <2> DEFINE more == Cardinality(left) > Limit
  <2> HIDE DEF more, due
  <2>6. /\ v \in WalkRow
        /\ v.phase = "load" /\ v.page = page /\ v.more = more /\ v.due = due
        /\ v.kind = w.kind /\ v.seen = w.seen /\ v.short = w.short /\ v.repeated = w.repeated
        /\ v.lost = w.lost
    BY <1>2, <2>2, <2>3, <2>5, <2>12 DEF WalkRow, more
  <2>7. ASSUME NEW k \in due \ (w.seen \cup w.lost \cup page)
        PROVE  more /\ \A p \in page : Above(p, k)
    <3>1. k \in left
      <4>1. CASE w.cursor = NoKey
        BY <2>7, <4>1 DEF due, left, Beyond
      <4>2. CASE w.cursor # NoKey
        <5>1. k \in keys /\ Above(w.cursor, k)
          BY <2>7, <4>2 DEF due, BetweenPages
        <5> QED
          BY <5>1 DEF left, Beyond
      <4> QED
        BY <4>1, <4>2
    <3> QED
      BY <2>2, <2>7, <3>1 DEF more
  <2>8. ASSUME Exact(w), NEW k \in w.seen, NEW p \in page PROVE Above(k, p)
    <3>1. w.cursor # NoKey /\ ~Above(w.cursor, k)
      BY <2>8 DEF BetweenPages
    <3>2. Above(w.cursor, p)
      BY <2>2, <3>1 DEF left, Beyond
    <3>3. w.cursor \in Key /\ k \in Key /\ p \in Key
      BY <2>2, <2>3 DEF WalkRow
    <3> QED
      BY <3>1, <3>2, <3>3, AboveOrder
  <2>9. Exact(v) => Exact(w)
    BY <2>6 DEF Exact
  <2>10. WithinPage(v)
    BY <2>2, <2>4, <2>6, <2>7, <2>8, <2>9 DEF WithinPage, more
  <2> QED
    BY <2>6, <2>10 DEF Good, Complete, Advances
<1> QED
  BY <1>1, <1>2 DEF Fetch


\* A page of which nothing is left has no last row; another has, unless the walk ends there.
LEMMA CursorFound ==
    ASSUME Good(walk), walk.phase = "load"
    PROVE  \/ /\ NextCursor \in walk.page /\ NextCursor # NoKey /\ walk.more
              /\ Exact(walk) /\ (walk.kind = "list" => Loaded = walk.page) =>
                    \A p \in walk.page : ~Above(NextCursor, p)
           \/ /\ NextCursor = NoKey
              /\ walk.more => walk.kind = "list" /\ Loaded = {}
<1> DEFINE base == IF walk.kind = "list" THEN Loaded ELSE walk.page
           n == Cardinality(base)
<1>1. /\ Snapshot(walk.page) /\ IsFiniteSet(walk.page) /\ Cardinality(walk.page) \in Nat
      /\ walk.page \subseteq Key /\ NoKey \notin walk.page
      /\ walk.more => walk.page # {}
      /\ walk.kind \in {"list", "read"}
  BY FS_CardinalityType DEF Good, WithinPage, Snapshot, NoWalk
<1>2. base \subseteq walk.page
  BY DEF Loaded
<1>3. IsFiniteSet(base) /\ n \in Nat /\ n <= Cardinality(walk.page)
  <2> HIDE DEF base
  <2> QED
    BY <1>1, <1>2, FS_Subset, FS_CardinalityType
<1>4. NextCursor = IF walk.more /\ n > 0 THEN Nth(n) ELSE NoKey
  BY DEF NextCursor
<1>5. CASE walk.more /\ n > 0
  <2> HIDE DEF base
  <2>1. n \in 1..Cardinality(walk.page)
    BY <1>1, <1>3, <1>5
  <2> HIDE DEF n
  <2>2. \E k \in walk.page : Rank(k, walk.page) = n
    BY <1>1, <2>1, RankTaken
  <2>3. Nth(n) \in walk.page /\ Rank(Nth(n), walk.page) = n
    BY <2>2 DEF Nth
  <2>4. NextCursor = Nth(n)
    BY <1>4, <1>5
  <2>5. ASSUME walk.kind = "list" => Loaded = walk.page, NEW p \in walk.page
        PROVE  ~Above(NextCursor, p)
    <3>1. n = Cardinality(walk.page)
      BY <1>1, <2>5 DEF n, base
    <3>2. Rank(p, walk.page) \in 1..Cardinality(walk.page)
      BY <1>1, RankBound
    <3>3. SUFFICES ASSUME Above(NextCursor, p) PROVE FALSE
      OBVIOUS
    <3>4. Rank(NextCursor, walk.page) < Rank(p, walk.page)
      BY <1>1, <2>3, <2>4, <3>3, RankOrder
    <3> QED
      BY <1>1, <2>3, <2>4, <3>1, <3>2, <3>4
  <2> QED
    BY <1>1, <1>5, <2>3, <2>4, <2>5
<1>6. CASE ~(walk.more /\ n > 0)
  <2>1. ASSUME walk.more PROVE base = {}
    <3>1. n = 0
      BY <1>3, <1>6, <2>1
    <3> HIDE DEF base
    <3> QED
      BY <1>3, <3>1, FS_EmptySet
  <2>2. NextCursor = NoKey
    BY <1>4, <1>6
  <2> QED
    BY <1>1, <2>1, <2>2
<1> QED
  BY <1>5, <1>6

\* The contents of the page are loaded, and the walk goes on or ends.
LEMMA LoadIsGood ==
    ASSUME Types, Good(walk), LoadPage, NEW v, walk' = v
    PROVE  Good(v)
<1> DEFINE seen == walk.seen \cup Loaded
           due == walk.due \cap Keys
           last == NextCursor = NoKey
           short == Loaded # walk.page
           emptied == walk.more /\ Loaded = {}
           again == Loaded \cap walk.seen # {}
           anyShort == walk.short \/ short
           anyAgain == walk.repeated \/ again
           lost == walk.lost \cup Dropped
<1>1. /\ walk.phase = "load" /\ walk \in WalkRow /\ walk.kind \in {"list", "read"}
      /\ WithinPage(walk) /\ Advances(walk)
      /\ walk.page \subseteq Key /\ walk.seen \subseteq Key /\ walk.due \subseteq Key
      /\ walk.lost \subseteq Key /\ (walk.kind = "read" => walk.lost = {})
  <2>1. walk.phase = "load" /\ walk \in WalkRow /\ walk # NoWalk
    BY DEF LoadPage, Good, NoWalk
  <2> QED
    BY <2>1 DEF Good, WalkRow
<1>2. Loaded \subseteq walk.page
  BY DEF Loaded
<1>3. v = [walk EXCEPT !.phase = IF last THEN "end" ELSE "fetch", !.cursor = NextCursor,
                       !.page = {}, !.subject = NoSubject, !.more = FALSE, !.lost = lost,
                       !.seen = IF last THEN {} ELSE seen, !.due = IF last THEN due \ seen ELSE due,
                       !.short = anyShort, !.emptied = emptied, !.repeated = anyAgain]
  BY DEF LoadPage
<1>4. NextCursor \in Key
  <2>1. NoKey \in Key
    BY Numbers DEF NoKey, Key
  <2> QED
    BY <1>1, <2>1, CursorFound
<1>5. /\ anyShort \in BOOLEAN /\ emptied \in BOOLEAN /\ anyAgain \in BOOLEAN
      /\ seen \subseteq Key /\ due \subseteq Key /\ lost \subseteq Key
      /\ walk.kind = "read" => lost = {}
      /\ NoSubject \in [Content -> Content \cup {None}]
  BY <1>1, <1>2 DEF Dropped, NoSubject
<1>6. ASSUME NEW k \in due \ (seen \cup lost)
      PROVE  walk.more /\ \A p \in walk.page : Above(p, k)
  <2>1. k \notin walk.page
    <3>1. CASE walk.kind = "list"
      BY <1>6, <3>1 DEF Dropped
    <3>2. CASE walk.kind = "read"
      <4>1. k \in KeysOf("read", walk.of, walk.closed)
        BY <1>6, <3>2 DEF Keys, KeysOf
      <4>2. k[2] \in Rows /\ row[k[2]].status # "expired"
        BY <4>1, KeysSnapshot
      <4> QED
        BY <1>6, <3>2, <4>2 DEF Loaded
    <3> QED
      BY <1>1, <3>1, <3>2
  <2> QED
    BY <1>1, <1>6, <2>1 DEF WithinPage
<1>7. again => walk.kind = "list" /\ walk.short
  <2> SUFFICES ASSUME NEW k \in Loaded \cap walk.seen, Exact(walk) PROVE FALSE
    BY <1>1 DEF Exact
  <2>1. Above(k, k) /\ k \in Key
    BY <1>1, <1>2 DEF WithinPage
  <2> QED
    BY <2>1, AboveOrder
<1>8. NextCursor = NoKey => (walk.more => walk.kind = "list" /\ Loaded = {})
  BY <1>1, CursorFound
<1>9. NextCursor # NoKey =>
         /\ NextCursor \in walk.page
         /\ Exact(walk) /\ (walk.kind = "list" => Loaded = walk.page) =>
               \A p \in walk.page : ~Above(NextCursor, p)
  BY <1>1, CursorFound
<1>10. CASE last
  <2>1. due \ seen = {} \/ (walk.kind = "list" /\ (emptied \/ due \ seen \subseteq lost))
    <3>1. CASE due \ (seen \cup lost) = {}
      BY <1>1, <1>5, <3>1
    <3>2. CASE due \ (seen \cup lost) # {}
      BY <1>6, <1>10, <1>8, <3>2
    <3> QED
      BY <3>1, <3>2
  <2>3. v = [walk EXCEPT !.phase = "end", !.cursor = NextCursor, !.page = {},
                         !.subject = NoSubject, !.more = FALSE, !.lost = lost,
                         !.seen = {}, !.due = due \ seen, !.short = anyShort,
                         !.emptied = emptied, !.repeated = anyAgain]
    BY <1>3, <1>10
  <2>4. due \ seen \subseteq Key
    BY <1>5
  <2> HIDE DEF due, seen, lost, emptied, anyShort, anyAgain, last
  <2> DEFINE missed == due \ seen
             half == [walk EXCEPT !.phase = "end", !.cursor = NextCursor, !.page = {},
                                  !.subject = NoSubject, !.more = FALSE, !.lost = lost]
  <2>5. missed \subseteq Key /\ v = [half EXCEPT !.seen = {}, !.due = missed, !.short = anyShort,
                                                 !.emptied = emptied, !.repeated = anyAgain]
    BY <2>3, <2>4
  <2> HIDE DEF missed
  <2>6. half \in WalkRow /\ half.phase = "end" /\ half.kind = walk.kind /\ half.lost = lost
    BY <1>1, <1>4, <1>5 DEF WalkRow
  <2> HIDE DEF half
  <2>7. /\ v \in WalkRow /\ v.phase = "end" /\ v.kind = walk.kind
        /\ v.due = missed /\ v.emptied = emptied /\ v.lost = lost
        /\ v.short = anyShort /\ v.repeated = anyAgain
    BY <1>5, <2>5, <2>6 DEF WalkRow
  <2>2. /\ v \in WalkRow /\ v.phase = "end" /\ v.kind = walk.kind
        /\ v.due = due \ seen /\ v.emptied = emptied /\ v.lost = lost
        /\ v.short = anyShort /\ v.repeated = anyAgain
    BY <2>7 DEF missed
  <2> QED
    BY <1>1, <1>5, <1>7, <2>1, <2>2 DEF Good, Complete, Advances, anyShort, anyAgain
<1>11. CASE ~last
  <2>1. /\ NextCursor \in walk.page
        /\ Exact(walk) /\ (walk.kind = "list" => Loaded = walk.page) =>
              \A p \in walk.page : ~Above(NextCursor, p)
    BY <1>11, <1>9
  <2>2. \A k \in due \ (seen \cup lost) : Above(NextCursor, k)
    BY <1>6, <2>1
  <2>3. ASSUME walk.kind = "read" \/ ~(walk.short \/ short), NEW k \in seen
        PROVE  ~Above(NextCursor, k)
    <3>1. Exact(walk) /\ (walk.kind = "list" => Loaded = walk.page)
      BY <1>1, <2>3 DEF Exact
    <3>2. CASE k \in walk.seen
      <4>1. Above(k, NextCursor) /\ k \in Key
        BY <1>1, <2>1, <3>1, <3>2 DEF WithinPage
      <4> QED
        BY <1>4, <4>1, AboveOrder
    <3>3. CASE k \in Loaded
      BY <1>2, <2>1, <3>1, <3>3
    <3> QED
      BY <2>3, <3>2, <3>3
  <2>4. v = [walk EXCEPT !.phase = "fetch", !.cursor = NextCursor, !.page = {},
                         !.subject = NoSubject, !.more = FALSE, !.lost = lost,
                         !.seen = seen, !.due = due, !.short = anyShort,
                         !.emptied = emptied, !.repeated = anyAgain]
    BY <1>3, <1>11
  <2> HIDE DEF due, seen, lost, emptied, anyShort, anyAgain, last
  <2> DEFINE half == [walk EXCEPT !.phase = "fetch", !.cursor = NextCursor, !.page = {},
                                  !.subject = NoSubject, !.more = FALSE, !.lost = lost]
  <2>7. v = [half EXCEPT !.seen = seen, !.due = due, !.short = anyShort,
                         !.emptied = emptied, !.repeated = anyAgain]
    BY <2>4
  <2>8. /\ half \in WalkRow /\ half.phase = "fetch" /\ half.kind = walk.kind
        /\ half.lost = lost /\ half.cursor = NextCursor
    BY <1>1, <1>4, <1>5 DEF WalkRow
  <2> HIDE DEF half
  <2>5. /\ v \in WalkRow /\ v.phase = "fetch" /\ v.kind = walk.kind
        /\ v.cursor = NextCursor /\ v.due = due /\ v.seen = seen /\ v.lost = lost
        /\ v.short = anyShort /\ v.repeated = anyAgain
    BY <1>5, <2>7, <2>8 DEF WalkRow
  <2>6. BetweenPages(v)
    BY <1>11, <2>2, <2>3, <2>5 DEF BetweenPages, Exact, last, anyShort
  <2> QED
    BY <1>1, <1>5, <1>7, <2>5, <2>6 DEF Good, Complete, Advances, anyShort, anyAgain
<1> QED
  BY <1>10, <1>11

LEMMA WalkStep == Types /\ Good(walk) /\ [Next]_vars => Good(walk)'
<1> SUFFICES ASSUME Types, Good(walk), [Next]_vars, NEW v, walk' = v PROVE Good(v)
  OBVIOUS
<1>1. CASE UNCHANGED walk
  BY <1>1
<1>2. ASSUME NEW kind \in {"list", "read"}, NEW t \in Content \cup {None},
             NEW closed \in BOOLEAN, FirstPage(kind, t, closed)
      PROVE  Good(v)
  <2> DEFINE w == [NoWalk EXCEPT !.kind = kind, !.of = t, !.closed = closed]
             keys == KeysOf(kind, t, closed)
  <2>1. Fetch(w, keys)
    BY <1>2 DEF FirstPage, KeysOf
  <2>2. Snapshot(keys)
    BY KeysSnapshot
  <2>3. NoKey \in Key
    BY Numbers DEF NoKey, Key
  <2>4. /\ w \in WalkRow /\ w.kind = kind /\ w.cursor = NoKey /\ w.seen = {} /\ ~w.repeated
        /\ w.lost = {}
    BY <2>3 DEF NoWalk, NoSubject, WalkRow
  <2>5. kind = "list" => \A k \in keys : Subject(k[2]) \in Content
    BY KeysSnapshot
  <2> HIDE DEF w, keys
  <2> QED
    BY <2>1, <2>2, <2>4, <2>5, FetchIsGood DEF Advances
<1>3. CASE NextPage
  <2>1. /\ walk.kind \in {"list", "read"} /\ walk \in WalkRow /\ Advances(walk)
        /\ BetweenPages(walk) /\ walk.cursor # NoKey /\ Fetch(walk, Keys)
        /\ walk.kind = "read" => walk.lost = {}
    BY <1>3 DEF NextPage, Good, BetweenPages
  <2>2. Snapshot(Keys) /\ (walk.kind = "list" => \A k \in Keys : Subject(k[2]) \in Content)
    BY <2>1, KeysSnapshot DEF Keys, KeysOf
  <2> QED
    BY <2>1, <2>2, FetchIsGood
<1>4. CASE LoadPage
  BY <1>4, LoadIsGood
<1>5. ASSUME NEW c \in Content, \/ \E t \in Content : Preflight(c, t)
                               \/ Begin(c) \/ Waits(c) \/ Publish(c) \/ Abort(c)
                               \/ RemoveContent(c) \/ Expire(c)
                               \/ \E open \in BOOLEAN : SetLoopState(c, open)
      PROVE  UNCHANGED walk
  BY <1>5 DEF Preflight, Begin, Waits, Publish, Abort, RemoveContent, Expire, SetLoopState
<1>6. ASSUME NEW m \in Member, RemoveMember(m) \/ \E q \in Quota : ChangeQuota(m, q)
      PROVE  UNCHANGED walk
  BY <1>6 DEF RemoveMember, ChangeQuota
<1>7. CASE RemovalCommits \/ RemovalFails \/ Tick \/ UNCHANGED vars
  BY <1>7, <1>1 DEF RemovalCommits, RemovalFails, Tick, vars
<1> QED
  BY <1>1, <1>2, <1>3, <1>4, <1>5, <1>6, <1>7 DEF Next

\* Whoever pages to the end has missed nothing that was to be seen from the first page on and
\* did not move.  A list has two exceptions, of deletions between the two transactions of a
\* page: a thread that outlives its first author is left out, and a page of which nothing is
\* left has no cursor.  Nothing is seen again, but in a list a page of which came out short.
\* That holds for any number of contents, pages of any size and any changes meanwhile
\* (listContent and its cursors).
THEOREM WalksAreSound == Spec => []WalkSound
<1>1. Init => Types /\ Good(walk)
  BY InitTypes, NoWalkIsGood DEF Init
<1>2. Types /\ Good(walk) /\ [Next]_vars => (Types /\ Good(walk))'
  BY TypesKept, WalkStep
<1>3. Good(walk) => WalkSound
  BY DEF Good, WalkSound, WalkComplete, WalkAdvances, Complete, Advances
<1> QED
  BY <1>1, <1>2, <1>3, PTL DEF Spec

-----------------------------------------------------------------------------
(* Type correctness *)

\* The variables of which no other invariant speaks.
Rest == /\ members \subseteq Member /\ overlapped \subseteq Member
        /\ removing \in Member \cup {Nobody} /\ edits \in 0 .. MaxEdit

LEMMA EditedStays == ASSUME Rest, Edited PROVE edits' \in 0 .. MaxEdit
BY ThreadAssumption DEF Rest, Edited

LEMMA RestStep == Rest /\ [Next]_vars => Rest'
<1> SUFFICES ASSUME Rest, [Next]_vars PROVE Rest'
  OBVIOUS
<1>1. ASSUME NEW c \in Content, NEW t \in Content, Preflight(c, t) PROVE Rest'
  <2>1. AuthorOf[c] \in Member
    BY ThreadAssumption DEF Content
  <2>2. overlapped' \subseteq Member
    BY <1>1, <2>1 DEF Preflight, Rest
  <2> QED
    BY <1>1, <2>2 DEF Preflight, Rest, world
<1>2. ASSUME NEW c \in Content, Begin(c) \/ Waits(c) \/ Publish(c) \/ Abort(c) PROVE Rest'
  BY <1>2 DEF Begin, Waits, Publish, Abort, Rest, world
<1>3. ASSUME NEW c \in Content,
             RemoveContent(c) \/ Expire(c) \/ \E open \in BOOLEAN : SetLoopState(c, open)
      PROVE  Rest'
  <2>1. edits' \in 0 .. MaxEdit
    BY <1>3, EditedStays DEF RemoveContent, Expire, SetLoopState
  <2> QED
    BY <1>3, <2>1 DEF RemoveContent, Expire, SetLoopState, Rest, world
<1>4. ASSUME NEW m \in Member, RemoveMember(m) \/ \E q \in Quota : ChangeQuota(m, q) PROVE Rest'
  <2>1. CASE RemoveMember(m)
    BY <2>1 DEF RemoveMember, Rest, world
  <2>2. ASSUME NEW q \in Quota, ChangeQuota(m, q) PROVE Rest'
    <3>1. edits' \in 0 .. MaxEdit
      BY <2>2, EditedStays DEF ChangeQuota
    <3> QED
      BY <2>2, <3>1 DEF ChangeQuota, Rest
  <2> QED
    BY <1>4, <2>1, <2>2
<1>5. CASE RemovalCommits \/ RemovalFails
  BY <1>5 DEF RemovalCommits, RemovalFails, Rest, world
<1>6. ASSUME NEW kind \in {"list", "read"}, NEW t \in Content \cup {None},
             NEW closed \in BOOLEAN, FirstPage(kind, t, closed)
      PROVE  Rest'
  BY <1>6 DEF FirstPage, Rest, world
<1>7. CASE NextPage \/ LoadPage \/ Tick \/ UNCHANGED vars
  BY <1>7 DEF NextPage, LoadPage, Tick, vars, Rest, world
<1> QED
  BY <1>1, <1>2, <1>3, <1>4, <1>5, <1>6, <1>7 DEF Next

\* Every reachable state of the contents, the threads, the requests and the reader is well
\* typed (clubs/content.ts, quotas.ts, identity/members.ts), for any members and contents.
THEOREM TypeCorrect == Spec => []TypeOK
<1>1. Init => Types /\ Good(walk) /\ Rest
  <2>1. Init => Rest
    BY ThreadAssumption DEF Init, Rest
  <2> QED
    BY <2>1, InitTypes, NoWalkIsGood DEF Init
<1>2. Types /\ Good(walk) /\ Rest /\ [Next]_vars => (Types /\ Good(walk) /\ Rest)'
  BY TypesKept, WalkStep, RestStep
<1>3. Types /\ Good(walk) /\ Rest => TypeOK
  <2>1. Good(walk) => walk.cursor \in Key /\ walk.page \subseteq Key /\ walk.seen \subseteq Key
    BY DEF Good, WalkRow
  <2> QED
    BY <2>1 DEF Types, JobRow, Rest, TypeOK, Label, Status
<1> QED
  BY <1>1, <1>2, <1>3, PTL DEF Spec

-----------------------------------------------------------------------------
(* The contents of a thread may be events.  Contents models one of them;   *)
(* what it shares with the threads is the members of the club, and its     *)
(* definitions are the ones named E!... here.  Its other constants and its *)
(* variables are declared here, its requests by the name served.           *)

CONSTANTS Author, Capacity, Asked, Request, Mortal, Returner, Retries, MaxVersion

VARIABLES version, rsvp, active, club, clubLock, archive, label, served

E == INSTANCE Contents WITH job <- served

\* The instance counts as this module does.
LEMMA SameCardinality == \A S : E!Cardinality(S) = Cardinality(S)
BY DEF E!Cardinality, Cardinality

VersionRow == [state : {"none", "published", "removed"}, capacity : Capacity \cup {E!NoLimit},
               by : Member \cup {Nobody}, owner : Request \cup {Nobody}, told : SUBSET Member,
               out : SUBSET Member]

AnswerRow == [answer : E!Answer, for : E!Number \cup {0}, upto : E!Number \cup {0}]

ServedRow == [member : Member \cup {Nobody}, answer : Asked \cup {"none"},
              capacity : Capacity \cup {E!NoLimit}, version : E!Number \cup {0},
              full : BOOLEAN, stale : BOOLEAN, overtaken : BOOLEAN, attempt : 0..Retries]

\* Every row and every request under way has the type of its columns.
EventTypes ==
    /\ version \in [E!Number -> VersionRow]
    /\ rsvp \in [Member -> AnswerRow]
    /\ active \subseteq Member
    /\ club \in {"live", "archived", "gone"} /\ clubLock \in Request \cup {Nobody}
    /\ archive \in [version : [E!Number -> VersionRow], rsvp : [Member -> AnswerRow]]
    /\ label \in [Request -> E!Serving \cup {"idle", "again", "update", "remove", "list", "publish",
                                             "cancel", "purge"}]
    /\ served \in [Request -> ServedRow]

\* The versions of the event: in the database, or in the archive that will bring them back.
Kept == IF club = "gone" THEN archive.version ELSE version

Stands(f, n) == f[n].state # "none" /\ f[n].owner = Nobody

\* The versions up to k are committed, and no more than the next one is being made.
Numbered(f, k) ==
    /\ \A n \in 1..k : Stands(f, n)
    /\ \A n \in E!Number : n > k /\ f[n] # E!NoVersion =>
         n = k + 1 /\ f[n].state # "none" /\ f[n].owner \in Request
    /\ f[1].state = "published"

VersionsFit ==
    /\ \E k \in E!Number : Numbered(Kept, k)
    /\ club = "gone" =>
         /\ version = E!NoArchive.version /\ rsvp = E!NoArchive.rsvp /\ clubLock = Nobody
         /\ \A n \in E!Number : archive.version[n].owner = Nobody

\* Who makes a version, answers an event, or removes the club.
WorkFits ==
    \A r \in Request :
        /\ label[r] \in {"list", "publish"} => club # "gone" /\ \E n \in E!Number : version[n].owner = r
        /\ label[r] = "answered" => club # "gone"
        /\ \A n \in E!Number : version[n].owner = r =>
             label[r] \in {"list", "publish"} /\ version[n].by = served[r].member
        /\ label[r] \in E!Serving =>
             /\ served[r].version \in E!Number
             /\ Stands(Kept, served[r].version)
             /\ Kept[served[r].version].state = "published"
             /\ Kept[served[r].version].capacity = served[r].capacity
        /\ label[r] \notin {"idle", "purge"} => served[r].member \in Member
        /\ label[r] = "purge" <=> clubLock = r

\* While the row of the club is locked, nothing that is archived changes.
RemovalFits ==
    clubLock # Nobody =>
        /\ club = "archived"
        /\ \A n \in E!Number :
              archive.version[n] = IF Stands(version, n) THEN version[n] ELSE E!NoVersion
        /\ \A m \in Member \ {Author} : archive.rsvp[m].answer = rsvp[m].answer

\* A snapshot nobody has overtaken with an answer has as many seats free as it shows.
SeatsFit ==
    \A r \in Request :
        label[r] \in E!Serving /\ ~served[r].stale /\ ~served[r].full =>
            Cardinality(E!Yes \ {served[r].member}) < served[r].capacity

\* There are seats for everyone, in the committed versions alone.
Seated ==
    E!Exists =>
        \E n \in E!Number : /\ Stands(version, n) /\ version[n].state = "published"
                            /\ version[n].capacity = E!NoLimit \/ Cardinality(E!Yes) <= version[n].capacity

\* Whoever holds an answer has read a version that was published...
AnswersFit ==
    \A m \in Member : E!Live(m) =>
        /\ rsvp[m].for \in E!Number /\ Stands(version, rsvp[m].for)
        /\ version[rsvp[m].for].state = "published"

\* ...and is on the list of the version that is about to commit, was not in the club when it was
\* made, makes the version, or answered since.
ListsFit ==
    \A r \in Request : label[r] = "publish" =>
        \A n \in E!Number : version[n].owner = r =>
            \A m \in Member : E!Live(m) =>
                m \in version[n].told \cup {version[n].by} \cup version[n].out \/ rsvp[m].upto >= n

EventInv ==
    /\ EventTypes /\ VersionsFit /\ WorkFits /\ RemovalFits /\ SeatsFit /\ Seated
    /\ AnswersFit /\ E!AttendeesInformed /\ ListsFit

-----------------------------------------------------------------------------
(* Numbers of versions.                                                    *)

Labels == E!Serving \cup {"idle", "again", "update", "remove", "list", "publish", "cancel", "purge"}

LEMMA EventConstants ==
    ASSUME E!ContentAssumption
    PROVE  /\ Nobody \notin Request /\ Nobody \notin Member /\ Author \in Member
           /\ IsFiniteSet(Member) /\ Capacity \subseteq Nat
           /\ MaxVersion \in Nat \ {0} /\ E!Number = 1..MaxVersion /\ 1 \in E!Number
           /\ E!NoLimit = 0 /\ E!None = 0 /\ Retries \in Nat
<1>1. MaxVersion \in Nat \ {0} /\ E!Number = 1..MaxVersion
  BY DEF E!ContentAssumption, E!Number
<1>2. IsFiniteSet(Member)
  BY DEF E!ContentAssumption, E!IsFiniteSet, IsFiniteSet
<1> QED
  BY <1>1, <1>2 DEF E!ContentAssumption, E!NoLimit, E!None

\* As many versions are committed as their numbers say.
LEMMA EventNumbers ==
    ASSUME E!ContentAssumption, NEW k \in E!Number, Numbered(version, k)
    PROVE  /\ E!Current = k /\ E!Exists
           /\ E!Newest \in {k, k + 1}
           /\ E!Newest = k <=> \A n \in E!Number : n > k => version[n] = E!NoVersion
           /\ \A n \in E!Number : Stands(version, n) <=> n <= k
           /\ \A n \in E!Number : n <= k => version[n].owner = Nobody
<1> USE EventConstants
<1>1. \A n \in E!Number : n > k /\ version[n].state # "none" => n = k + 1 /\ version[n].owner \in Request
  BY DEF Numbered, E!NoVersion
<1>2. \A n \in 1..k : n \in E!Number /\ version[n].state # "none" /\ version[n].owner = Nobody
  BY DEF Numbered, Stands
<1>3. \A n \in E!Number : Stands(version, n) <=> n <= k
  BY <1>1, <1>2 DEF Stands
<1>4. {n \in E!Number : E!Committed(n)} = 1..k
  BY <1>2, <1>3 DEF Stands, E!Committed
<1>5. k \in Nat /\ k + 1 \in Nat /\ Cardinality(1..k) = k /\ Cardinality(1..(k + 1)) = k + 1
  <2>1. k \in Nat /\ k >= 1 /\ 1 \in Int /\ k \in Int /\ k + 1 \in Int
    OBVIOUS
  <2>2. Cardinality(1..k) = IF 1 > k THEN 0 ELSE k - 1 + 1
    BY <2>1, FS_Interval
  <2>3. Cardinality(1..(k + 1)) = IF 1 > k + 1 THEN 0 ELSE (k + 1) - 1 + 1
    BY <2>1, FS_Interval
  <2> QED
    BY <2>1, <2>2, <2>3
<1>6. E!Current = k /\ E!Exists
  <2>1. E!Current = Cardinality({n \in E!Number : E!Committed(n)})
    BY SameCardinality DEF E!Current
  <2>2. E!Current = k
    BY <2>1, <1>4, <1>5
  <2> QED
    BY <2>2, <1>5 DEF E!Exists
<1>7. CASE \A n \in E!Number : n > k => version[n] = E!NoVersion
  <2>1. {n \in E!Number : version[n].state # "none"} = 1..k
    BY <1>7, <1>2 DEF E!NoVersion
  <2>2. E!Newest = k
    BY <2>1, <1>5, SameCardinality DEF E!Newest
  <2> QED
    BY <2>2, <1>2, <1>3, <1>6, <1>7
<1>8. CASE ~(\A n \in E!Number : n > k => version[n] = E!NoVersion)
  <2>1. k + 1 \in E!Number /\ version[k + 1].state # "none"
    BY <1>8 DEF Numbered
  <2>2. {n \in E!Number : version[n].state # "none"} = 1..(k + 1)
    BY <2>1, <1>1, <1>2
  <2>3. E!Newest = k + 1
    BY <2>2, <1>5, SameCardinality DEF E!Newest
  <2> QED
    BY <2>3, <1>2, <1>3, <1>6, <1>8
<1> QED
  BY <1>7, <1>8

\* A removed event has no versions.
LEMMA NoEventNumbers ==
    ASSUME E!ContentAssumption, VersionsFit, club = "gone"
    PROVE  /\ ~E!Exists
           /\ \A n \in E!Number : version[n] = E!NoVersion
           /\ \A m \in Member : rsvp[m] = E!NoAnswer
<1>1. /\ \A n \in E!Number : version[n] = E!NoVersion
      /\ \A m \in Member : rsvp[m] = E!NoAnswer
  BY DEF VersionsFit, E!NoArchive
<1>2. {n \in E!Number : E!Committed(n)} = {}
  BY <1>1 DEF E!Committed, E!NoVersion
<1>3. E!Current = 0
  BY <1>2, SameCardinality, FS_EmptySet DEF E!Current
<1> QED
  BY <1>1, <1>3 DEF E!Exists

\* An event that exists is in the database.
LEMMA ExistsHere ==
    ASSUME E!ContentAssumption, VersionsFit, E!Exists
    PROVE  club # "gone" /\ \E k \in E!Number : Numbered(version, k)
BY NoEventNumbers DEF VersionsFit, Kept

LEMMA YesIsFinite ==
    ASSUME E!ContentAssumption, NEW S
    PROVE  IsFiniteSet(E!Yes) /\ IsFiniteSet(E!Yes \ S) /\ Cardinality(E!Yes) \in Nat
           /\ Cardinality(E!Yes \ S) \in Nat
<1>1. E!Yes \subseteq Member /\ E!Yes \ S \subseteq Member
  BY DEF E!Yes
<1> QED
  BY <1>1, EventConstants, FS_Subset, FS_CardinalityType

-----------------------------------------------------------------------------
(* Steps of a request that write nothing.                                  *)

LEMMA EventMoves ==
    ASSUME E!ContentAssumption, EventInv, NEW r \in Request, NEW to \in Labels, NEW j \in ServedRow,
           E!Moves(r, to, j), UNCHANGED <<version, rsvp, active, club, clubLock, archive>>,
           label[r] \notin {"list", "publish", "purge"}, to \notin {"list", "publish", "purge"},
           to = "answered" => club # "gone",
           to \in E!Serving =>
             /\ j.version \in E!Number /\ Stands(Kept, j.version)
             /\ Kept[j.version].state = "published" /\ Kept[j.version].capacity = j.capacity
             /\ ~j.stale /\ ~j.full => Cardinality(E!Yes \ {j.member}) < j.capacity,
           to # "idle" => j.member \in Member
    PROVE  EventInv'
<1> USE DEF EventInv, E!Moves
<1>1. label'[r] = to /\ served'[r] = j /\ \A q \in Request \ {r} : label'[q] = label[q] /\ served'[q] = served[q]
  BY DEF EventTypes
<1>2. EventTypes'
  BY DEF EventTypes, Labels
<1>3. Kept' = Kept
  BY DEF Kept
<1>4. VersionsFit'
  BY <1>3 DEF VersionsFit, Numbered, Stands
<1>5. WorkFits'
  BY <1>1, <1>3 DEF WorkFits, Stands
<1>6. RemovalFits'
  BY DEF RemovalFits, Stands
<1>7. E!Yes' = E!Yes
  BY DEF E!Yes
<1>8. SeatsFit'
  BY <1>1, <1>7 DEF SeatsFit
<1>9. Seated' /\ AnswersFit' /\ E!AttendeesInformed'
  <2>1. E!Current' = E!Current
    BY DEF E!Current, E!Committed
  <2> QED
    BY <1>7, <2>1 DEF Seated, AnswersFit, Stands, E!Exists, E!AttendeesInformed, E!Live
<1>10. ListsFit'
  BY <1>1 DEF ListsFit, E!Live
<1> QED
  BY <1>2, <1>4, <1>5, <1>6, <1>8, <1>9, <1>10

-----------------------------------------------------------------------------
(* Steps that undo and steps that publish.                                 *)

\* What a request that fails leaves of each entry.
Undone(r) ==
    /\ UNCHANGED <<active, club>>
    /\ label' = [label EXCEPT ![r] = "idle"] /\ served' = [served EXCEPT ![r] = E!NoJob]
    /\ version' \in [E!Number -> VersionRow]
    /\ \A n \in E!Number : version'[n] = IF version[n].owner = r THEN E!NoVersion ELSE version[n]
    /\ rsvp' \in [Member -> AnswerRow]
    /\ \A m \in Member : /\ rsvp'[m].answer = rsvp[m].answer /\ rsvp'[m].for = rsvp[m].for
                         /\ rsvp'[m].upto \in {rsvp[m].upto, E!Current}
                         /\ rsvp[m].upto > E!Current \/ rsvp'[m].upto = rsvp[m].upto
    /\ (\A n \in E!Number : version[n].owner # r) => version' = version /\ rsvp' = rsvp
    /\ IF clubLock = r THEN clubLock' = Nobody /\ archive' = E!NoArchive
                       ELSE UNCHANGED <<clubLock, archive>>

LEMMA FailsUndoes ==
    ASSUME E!ContentAssumption, EventTypes, VersionsFit, NEW r \in Request, E!Fails(r)
    PROVE  Undone(r)
<1> USE EventConstants
<1>1. E!Current \in E!Number \cup {0}
  <2>1. CASE E!Exists
    BY <2>1, ExistsHere, EventNumbers
  <2>2. CASE ~E!Exists
    <3>1. {n \in E!Number : E!Committed(n)} \subseteq 1..MaxVersion /\ IsFiniteSet(1..MaxVersion)
      <4>1. 1 \in Int /\ MaxVersion \in Int
        OBVIOUS
      <4> QED
        BY <4>1, FS_Interval
    <3>2. Cardinality({n \in E!Number : E!Committed(n)}) \in Nat
      BY <3>1, FS_Subset, FS_CardinalityType
    <3> QED
      BY <3>2, <2>2, SameCardinality DEF E!Exists, E!Current
  <2> QED
    BY <2>1, <2>2
<1>2. version' = [n \in E!Number |-> IF version[n].owner = r THEN E!NoVersion ELSE version[n]]
  BY DEF E!Fails
<1>3. E!NoVersion \in VersionRow
  BY DEF E!NoVersion, VersionRow
<1>4. /\ version' \in [E!Number -> VersionRow]
      /\ \A n \in E!Number : version'[n] = IF version[n].owner = r THEN E!NoVersion ELSE version[n]
      /\ (\A n \in E!Number : version[n].owner # r) => version' = version
  BY <1>2, <1>3 DEF EventTypes
<1>5. rsvp' = [m \in Member |-> IF \E n \in E!Number : version[n].owner = r
                                THEN [rsvp[m] EXCEPT !.upto = IF @ > E!Current THEN E!Current ELSE @]
                                ELSE rsvp[m]]
  BY DEF E!Fails
<1>6. ASSUME NEW entry \in AnswerRow
      PROVE  LET new == [entry EXCEPT !.upto = IF @ > E!Current THEN E!Current ELSE @]
             IN  /\ new \in AnswerRow /\ new.answer = entry.answer /\ new.for = entry.for
                 /\ new.upto \in {entry.upto, E!Current}
                 /\ entry.upto > E!Current \/ new.upto = entry.upto
  BY <1>1 DEF AnswerRow
<1>7. CASE \E n \in E!Number : version[n].owner = r
  <2>1. rsvp' = [m \in Member |-> [rsvp[m] EXCEPT !.upto = IF @ > E!Current THEN E!Current ELSE @]]
    BY <1>5, <1>7
  <2>2. ASSUME NEW m \in Member
        PROVE  /\ rsvp'[m] \in AnswerRow
               /\ rsvp'[m].answer = rsvp[m].answer /\ rsvp'[m].for = rsvp[m].for
               /\ rsvp'[m].upto \in {rsvp[m].upto, E!Current}
               /\ rsvp[m].upto > E!Current \/ rsvp'[m].upto = rsvp[m].upto
    <3> DEFINE entry == rsvp[m]
               new == rsvp'[m]
    <3>1. entry \in AnswerRow /\ new = [entry EXCEPT !.upto = IF @ > E!Current THEN E!Current ELSE @]
      BY <2>1 DEF EventTypes
    <3> HIDE DEF entry, new
    <3>2. /\ new \in AnswerRow /\ new.answer = entry.answer /\ new.for = entry.for
          /\ new.upto \in {entry.upto, E!Current}
          /\ entry.upto > E!Current \/ new.upto = entry.upto
      BY <3>1, <1>6
    <3> QED
      BY <3>2 DEF entry, new
  <2>3. rsvp' \in [Member -> AnswerRow]
    BY <2>1, <2>2
  <2> QED
    BY <2>2, <2>3, <1>4, <1>7 DEF Undone, E!Fails, E!Ends, E!Moves
<1>8. CASE \A n \in E!Number : version[n].owner # r
  <2>1. rsvp' = rsvp
    BY <1>5, <1>8 DEF EventTypes
  <2> QED
    <3>1. rsvp' \in [Member -> AnswerRow] /\ \A m \in Member : rsvp'[m] = rsvp[m]
      BY <2>1 DEF EventTypes
    <3> QED
      BY <2>1, <3>1, <1>4, <1>8 DEF Undone, E!Fails, E!Ends, E!Moves
<1> QED
  BY <1>7, <1>8

LEMMA EventFails ==
    ASSUME E!ContentAssumption, EventInv, NEW r \in Request, label[r] # "idle", E!Fails(r)
    PROVE  EventInv'
<1> USE EventConstants DEF EventInv
<1>1. Undone(r)
  BY FailsUndoes
<1>2. /\ label'[r] = "idle" /\ served'[r] = E!NoJob
      /\ \A q \in Request \ {r} : label'[q] = label[q] /\ served'[q] = served[q]
  BY <1>1 DEF EventTypes, Undone
<1>3. \A n \in E!Number : /\ Stands(version', n) <=> Stands(version, n)
                          /\ Stands(version, n) => version'[n] = version[n]
                          /\ version'[n].owner # r
  BY <1>1 DEF Undone, Stands, E!NoVersion
<1>4. EventTypes'
  <2>1. served' \in [Request -> ServedRow]
    BY <1>1 DEF Undone, EventTypes, ServedRow, E!NoJob
  <2>2. archive' \in [version : [E!Number -> VersionRow], rsvp : [Member -> AnswerRow]]
    <3>1. E!NoArchive \in [version : [E!Number -> VersionRow], rsvp : [Member -> AnswerRow]]
      BY DEF E!NoArchive, VersionRow, AnswerRow, E!NoVersion, E!NoAnswer, E!Answer
    <3> QED
      BY <3>1, <1>1 DEF Undone, EventTypes
  <2>3. label' \in [Request -> E!Serving \cup {"idle", "again", "update", "remove", "list", "publish",
                                             "cancel", "purge"}]
    BY <1>1 DEF Undone, EventTypes
  <2> QED
    BY <1>1, <2>1, <2>2, <2>3 DEF Undone, EventTypes
<1>5. club = "gone" => version' = version /\ rsvp' = rsvp /\ archive' = archive /\ clubLock' = clubLock
  <2>1. club = "gone" => (\A n \in E!Number : version[n].owner # r) /\ clubLock # r
    BY NoEventNumbers DEF VersionsFit, E!NoVersion
  <2> QED
    BY <2>1, <1>1 DEF Undone
<1>6. VersionsFit'
  <2>1. CASE club = "gone"
    BY <2>1, <1>1, <1>5 DEF VersionsFit, Kept, Numbered, Stands, Undone
  <2>2. CASE club # "gone"
    <3>1. PICK k \in E!Number : Numbered(version, k)
      BY <2>2 DEF VersionsFit, Kept
    <3>2. Numbered(version', k)
      <4>1. \A n \in 1..k : n \in E!Number /\ Stands(version', n)
        BY <3>1, <1>3 DEF Numbered
      <4>2. \A n \in E!Number : n > k /\ version'[n] # E!NoVersion =>
                 n = k + 1 /\ version'[n].state # "none" /\ version'[n].owner \in Request
        BY <3>1, <1>1 DEF Numbered, Undone
      <4>3. version'[1].state = "published"
        <5>1. Stands(version, 1)
          BY <3>1 DEF Numbered
        <5> QED
          BY <5>1, <1>3, <3>1 DEF Numbered
      <4> QED
        BY <4>1, <4>2, <4>3 DEF Numbered
    <3> QED
      BY <2>2, <3>2, <1>1 DEF VersionsFit, Kept, Undone
  <2> QED
    BY <2>1, <2>2
<1>7. \A n \in E!Number : /\ Stands(Kept', n) <=> Stands(Kept, n)
                          /\ Stands(Kept, n) => Kept'[n] = Kept[n]
  BY <1>1, <1>3, <1>5 DEF Kept, Stands, Undone
<1>8. WorkFits'
  <2> SUFFICES ASSUME NEW q \in Request
               PROVE  /\ label'[q] \in {"list", "publish"} => club' # "gone" /\ \E n \in E!Number : version'[n].owner = q
                      /\ label'[q] = "answered" => club' # "gone"
                      /\ \A n \in E!Number : version'[n].owner = q =>
                            label'[q] \in {"list", "publish"} /\ version'[n].by = served'[q].member
                      /\ label'[q] \in E!Serving =>
                            /\ served'[q].version \in E!Number
                            /\ Stands(Kept', served'[q].version)
                            /\ Kept'[served'[q].version].state = "published"
                            /\ Kept'[served'[q].version].capacity = served'[q].capacity
                      /\ label'[q] \notin {"idle", "purge"} => served'[q].member \in Member
                      /\ label'[q] = "purge" <=> clubLock' = q
    BY DEF WorkFits, Stands
  <2>1. CASE q = r
    <3>1. label[r] = "purge" <=> clubLock = r
      BY DEF WorkFits
    <3> QED
      BY <2>1, <3>1, <1>1, <1>2, <1>3 DEF Undone, E!Serving
  <2>2. CASE q # r
    <3>1. \A n \in E!Number : version'[n].owner = q <=> version[n].owner = q
      BY <2>2, <1>1 DEF Undone, E!NoVersion
    <3>2. \A n \in E!Number : version[n].owner = q => version'[n] = version[n]
      BY <2>2, <1>1 DEF Undone
    <3>3. clubLock' = q <=> clubLock = q
      BY <2>2, <1>1 DEF Undone
    <3> QED
      BY <2>2, <3>1, <3>2, <3>3, <1>1, <1>2, <1>7 DEF WorkFits, Undone
  <2> QED
    BY <2>1, <2>2
<1>9. RemovalFits'
  BY <1>1, <1>3 DEF RemovalFits, Undone, Stands
<1>10. E!Yes' = E!Yes /\ \A m \in Member : E!Live(m)' = E!Live(m)
  BY <1>1 DEF Undone, E!Yes, E!Live
<1>11. SeatsFit'
  BY <1>2, <1>10 DEF SeatsFit, E!Serving
<1>12. E!Current' = E!Current
  <2>1. {n \in E!Number : E!Committed(n)'} = {n \in E!Number : E!Committed(n)}
    BY <1>3 DEF E!Committed, Stands
  <2> QED
    BY <2>1 DEF E!Current
<1>13. Seated'
  BY <1>3, <1>10, <1>12 DEF Seated, E!Exists, Stands
<1>14. AnswersFit'
  BY <1>1, <1>3, <1>10 DEF AnswersFit, Undone, Stands
<1>15. E!AttendeesInformed'
  <2> SUFFICES ASSUME E!Exists, NEW m \in Member, E!Live(m)
               PROVE  \/ version'[E!Current].state = "published" /\ rsvp'[m].for = E!Current
                      \/ rsvp'[m].for < E!Current /\ rsvp'[m].upto >= E!Current
                      \/ m \in version'[E!Current].told \cup {version'[E!Current].by}
                              \cup version'[E!Current].out
    BY <1>1, <1>10, <1>12 DEF E!AttendeesInformed, Undone, EventTypes, E!Exists
  <2>1. E!Current \in E!Number /\ Stands(version, E!Current)
    BY ExistsHere, EventNumbers
  <2>2. version'[E!Current] = version[E!Current] /\ m \in Member
    BY <2>1, <1>3 DEF EventTypes
  <2>3. rsvp'[m].for = rsvp[m].for /\ (rsvp[m].upto >= E!Current => rsvp'[m].upto >= E!Current)
    BY <1>1, <2>1, <2>2 DEF Undone
  <2> QED
    BY <2>2, <2>3 DEF E!AttendeesInformed
<1>16. ListsFit'
  <2> SUFFICES ASSUME NEW q \in Request, label'[q] = "publish", NEW n \in E!Number, version'[n].owner = q,
                      NEW m \in Member, E!Live(m)
               PROVE  m \in version'[n].told \cup {version'[n].by} \cup version'[n].out \/ rsvp'[m].upto >= n
    BY <1>1, <1>10 DEF ListsFit, Undone, EventTypes
  <2>1. q # r /\ label[q] = "publish"
    BY <1>2
  <2>2. version'[n] = version[n] /\ version[n].owner = q
    BY <1>1, <2>1 DEF Undone, E!NoVersion
  <2>3. m \in version[n].told \cup {version[n].by} \cup version[n].out \/ rsvp[m].upto >= n
    BY <2>1, <2>2 DEF ListsFit
  <2>4. \A i \in E!Number : version[i].owner # r
    <3>1. club # "gone"
      BY <2>1 DEF WorkFits
    <3>2. PICK k \in E!Number : Numbered(version, k)
      BY <3>1 DEF VersionsFit, Kept
    <3>3. \A i \in E!Number : version[i].owner \in Request => i = k + 1
      <4>1. \A i \in E!Number : i <= k => version[i].owner = Nobody
        BY <3>2, EventNumbers
      <4> QED
        BY <4>1, <3>2 DEF Numbered, E!NoVersion
    <3> QED
      BY <3>3, <2>1, <2>2
  <2> QED
    BY <2>2, <2>3, <2>4, <1>1 DEF Undone
<1> QED
  BY <1>4, <1>6, <1>8, <1>9, <1>11, <1>13, <1>14, <1>15, <1>16

\* As many are committed as their numbers say.
LEMMA CountUpTo ==
    ASSUME E!ContentAssumption, NEW k \in E!Number, NEW S, S = 1..k
    PROVE  Cardinality(S) = k
<1>1. k \in Nat /\ k >= 1 /\ 1 \in Int /\ k \in Int
  BY EventConstants
<1>2. Cardinality(1..k) = IF 1 > k THEN 0 ELSE k - 1 + 1
  BY <1>1, FS_Interval
<1> QED
  BY <1>1, <1>2

\* A step that leaves the committed versions and the answers alone.
LEMMA StandingKeeps ==
    ASSUME E!ContentAssumption, EventInv, UNCHANGED <<rsvp, active, club>>,
           \A n \in E!Number : /\ Stands(version', n) <=> Stands(version, n)
                               /\ Stands(version, n) => version'[n] = version[n]
    PROVE  Seated' /\ AnswersFit' /\ E!AttendeesInformed' /\ E!Current' = E!Current /\ E!Yes' = E!Yes
<1> USE DEF EventInv
<1>1. E!Yes' = E!Yes /\ \A m \in Member : E!Live(m)' = E!Live(m)
  BY DEF E!Yes, E!Live
<1>2. E!Current' = E!Current
  <2>1. {n \in E!Number : E!Committed(n)'} = {n \in E!Number : E!Committed(n)}
    BY DEF E!Committed, Stands
  <2> QED
    BY <2>1 DEF E!Current
<1>3. Seated'
  BY <1>1, <1>2 DEF Seated, E!Exists, Stands
<1>4. AnswersFit'
  BY <1>1 DEF AnswersFit, Stands
<1>5. E!AttendeesInformed'
  <2> SUFFICES ASSUME E!Exists, NEW m \in Member, E!Live(m)
               PROVE  \/ version'[E!Current].state = "published" /\ rsvp[m].for = E!Current
                      \/ rsvp[m].for < E!Current /\ rsvp[m].upto >= E!Current
                      \/ m \in version'[E!Current].told \cup {version'[E!Current].by}
                              \cup version'[E!Current].out
    BY <1>1, <1>2 DEF E!AttendeesInformed, EventTypes, E!Exists
  <2>1. E!Current \in E!Number /\ Stands(version, E!Current)
    BY ExistsHere, EventNumbers, EventConstants
  <2> QED
    BY <2>1 DEF E!AttendeesInformed
<1> QED
  BY <1>1, <1>2, <1>3, <1>4, <1>5

\* The version that is being made follows the committed ones.
LEMMA EventInserts ==
    ASSUME E!ContentAssumption, EventInv, NEW r \in Request, E!PublishInserts(r)
    PROVE  EventInv'
<1> USE EventConstants DEF EventInv
<1> DEFINE entry == [state |-> IF label[r] = "update" THEN "published" ELSE "removed",
                   capacity |-> served[r].capacity, by |-> served[r].member, owner |-> r,
                     told |-> {}, out |-> {}]
<1>1. PICK k \in E!Number : Numbered(version, k) /\ club # "gone"
  BY ExistsHere DEF E!PublishInserts
<1>2. /\ E!Current = k /\ E!Newest = k /\ k + 1 \in E!Number
      /\ \A n \in E!Number : n > k => version[n] = E!NoVersion
      /\ \A n \in E!Number : Stands(version, n) <=> n <= k
  BY <1>1, EventNumbers DEF E!PublishInserts, E!NumberFree
<1>3. /\ label[r] \in {"update", "remove"}
      /\ version' = [version EXCEPT ![k + 1] = entry]
      /\ label' = [label EXCEPT ![r] = "list"] /\ served' = served
      /\ UNCHANGED <<rsvp, active, club, clubLock, archive>>
  BY <1>2 DEF E!PublishInserts, E!Moves, E!clubState, EventTypes
<1>4. entry \in VersionRow /\ entry.owner = r /\ entry.state # "none" /\ entry.by = served[r].member
  BY <1>3 DEF VersionRow, EventTypes, ServedRow, WorkFits
<1>5. /\ version'[k + 1] = entry /\ \A n \in E!Number \ {k + 1} : version'[n] = version[n]
      /\ label'[r] = "list" /\ \A q \in Request \ {r} : label'[q] = label[q]
  BY <1>2, <1>3 DEF EventTypes
<1> HIDE DEF entry
<1>6. \A n \in E!Number : /\ Stands(version', n) <=> Stands(version, n)
                          /\ Stands(version, n) => version'[n] = version[n]
  BY <1>2, <1>4, <1>5 DEF Stands
<1>7. EventTypes'
  <2>1. version' \in [E!Number -> VersionRow]
    BY <1>3, <1>4 DEF EventTypes
  <2> QED
    BY <2>1, <1>3 DEF EventTypes
<1>8. VersionsFit'
  <2>1. Numbered(version', k)
    BY <1>1, <1>2, <1>4, <1>5, <1>6 DEF Numbered
  <2> QED
    BY <2>1, <1>1, <1>3 DEF VersionsFit, Kept
<1>9. WorkFits'
  <2>1. \A n \in E!Number : version[n].owner \notin Request
    <3>1. \A n \in E!Number : n <= k => version[n].owner = Nobody
      BY <1>1, EventNumbers
    <3> QED
      BY <3>1, <1>2 DEF E!NoVersion
  <2>2. \A q \in Request : label[q] \notin {"list", "publish"}
    BY <2>1 DEF WorkFits
  <2>3. \A n \in E!Number, q \in Request : version'[n].owner = q => n = k + 1 /\ q = r
    BY <2>1, <1>4, <1>5
  <2>4. \A n \in E!Number : /\ Stands(Kept', n) <=> Stands(Kept, n)
                            /\ Stands(Kept, n) => Kept'[n] = Kept[n]
    BY <1>1, <1>3, <1>6 DEF Kept, Stands
  <2>5. \A q \in Request : label[q] \in E!Serving =>
             /\ served[q].version \in E!Number
             /\ Stands(Kept', served[q].version)
             /\ Kept'[served[q].version].state = "published"
             /\ Kept'[served[q].version].capacity = served[q].capacity
    BY <2>4 DEF WorkFits
  <2>6. \A q \in Request : /\ label[q] = "answered" => club # "gone"
                           /\ label[q] \notin {"idle", "purge"} => served[q].member \in Member
                           /\ label[q] = "purge" <=> clubLock = q
    BY DEF WorkFits
  <2>7. \A q \in Request : label'[q] \in {"list", "publish"} =>
           club' # "gone" /\ \E n \in E!Number : version'[n].owner = q
    BY <2>2, <1>1, <1>2, <1>3, <1>4, <1>5
  <2> QED
    BY <2>3, <2>5, <2>6, <2>7, <1>3, <1>4, <1>5 DEF WorkFits, E!Serving, Stands
<1>10. RemovalFits'
  BY <1>3, <1>6 DEF RemovalFits, Stands
<1>11. Seated' /\ AnswersFit' /\ E!AttendeesInformed' /\ E!Yes' = E!Yes
  BY <1>3, <1>6, StandingKeeps
<1>12. SeatsFit'
  BY <1>3, <1>5, <1>11 DEF SeatsFit, E!Serving
<1>13. ListsFit'
  <2>1. \A q \in Request : label[q] = "publish" => \E n \in E!Number : version[n].owner = q
    BY DEF WorkFits
  <2>2. \A q \in Request : label'[q] # "publish"
    <3>1. \A n \in E!Number : n <= k => version[n].owner = Nobody
      BY <1>1, EventNumbers
    <3> QED
      BY <3>1, <2>1, <1>2, <1>5 DEF E!NoVersion
  <2> QED
    BY <2>2 DEF ListsFit
<1> QED
  BY <1>7, <1>8, <1>9, <1>10, <1>11, <1>12, <1>13

\* The members who hold an answer are told of it...
LEMMA EventLists ==
    ASSUME E!ContentAssumption, EventInv, NEW r \in Request, E!Lists(r)
    PROVE  EventInv'
<1> USE EventConstants DEF EventInv
<1> DEFINE listed == [n \in E!Number |-> IF version[n].owner = r
                                         THEN [version[n] EXCEPT !.told = E!Recipients(served[r].member),
                                                                 !.out = E!Absent]
                                         ELSE version[n]]
<1>0. /\ version' = listed /\ label[r] = "list" /\ E!Moves(r, "publish", served[r])
      /\ UNCHANGED <<rsvp, active, E!clubState>>
  BY DEF E!Lists
<1> HIDE DEF listed
<1>1. /\ label[r] = "list" /\ club # "gone"
      /\ label' = [label EXCEPT ![r] = "publish"] /\ served' = served
      /\ UNCHANGED <<rsvp, active, club, clubLock, archive>>
  BY <1>0 DEF E!Moves, E!clubState, EventTypes, WorkFits
<1>2. label'[r] = "publish" /\ \A q \in Request \ {r} : label'[q] = label[q]
  BY <1>1 DEF EventTypes
<1>3. /\ version' \in [E!Number -> VersionRow]
      /\ \A n \in E!Number : /\ version[n].owner # r => version'[n] = version[n]
                             /\ version'[n].owner = version[n].owner /\ version'[n].state = version[n].state
                             /\ version'[n].by = version[n].by
                             /\ version[n].owner = r => /\ version'[n].told = E!Recipients(served[r].member)
                                                        /\ version'[n].out = E!Absent
  <2>1. E!Recipients(served[r].member) \subseteq Member /\ E!Absent \subseteq Member
    BY DEF E!Recipients, E!Absent, EventTypes
  <2>2. ASSUME NEW n \in E!Number
        PROVE  /\ version'[n] \in VersionRow
               /\ version[n].owner # r => version'[n] = version[n]
               /\ version'[n].owner = version[n].owner /\ version'[n].state = version[n].state
               /\ version'[n].by = version[n].by
               /\ version[n].owner = r => /\ version'[n].told = E!Recipients(served[r].member)
                                          /\ version'[n].out = E!Absent
    <3>1. version[n] \in VersionRow
      BY DEF EventTypes
    <3>2. CASE version[n].owner # r
      BY <3>1, <3>2, <1>0 DEF listed
    <3>3. CASE version[n].owner = r
      <4> DEFINE entry == version[n]
                 new == version'[n]
      <4>1. new = [entry EXCEPT !.told = E!Recipients(served[r].member), !.out = E!Absent] /\ entry \in VersionRow
        BY <3>1, <3>3, <1>0 DEF listed
      <4> HIDE DEF entry, new
      <4>2. /\ new \in VersionRow /\ new.owner = entry.owner /\ new.state = entry.state /\ new.by = entry.by
            /\ new.told = E!Recipients(served[r].member) /\ new.out = E!Absent
        BY <4>1, <2>1 DEF VersionRow
      <4> QED
        BY <4>2, <3>3 DEF entry, new
    <3> QED
      BY <3>2, <3>3
  <2>3. DOMAIN version' = E!Number /\ version' = [n \in E!Number |-> version'[n]]
    BY <1>0 DEF listed
  <2> QED
    BY <2>2, <2>3
<1>4. \A n \in E!Number : /\ Stands(version', n) <=> Stands(version, n)
                          /\ Stands(version, n) => version'[n] = version[n]
  BY <1>3 DEF Stands
<1>5. EventTypes'
  BY <1>1, <1>3 DEF EventTypes
<1>6. VersionsFit'
  <2>1. PICK k \in E!Number : Numbered(version, k)
    BY <1>1 DEF VersionsFit, Kept
  <2>2. Numbered(version', k)
    <3>1. \A n \in 1..k : n \in E!Number /\ Stands(version', n)
      BY <2>1, <1>4 DEF Numbered
    <3>2. \A n \in E!Number : n > k /\ version'[n] # E!NoVersion =>
                 n = k + 1 /\ version'[n].state # "none" /\ version'[n].owner \in Request
      <4>1. \A n \in E!Number : version[n].owner = r => version[n] # E!NoVersion
        BY DEF E!NoVersion
      <4> QED
        BY <4>1, <2>1, <1>3 DEF Numbered
    <3> QED
      BY <3>1, <3>2, <2>1, <1>3 DEF Numbered
  <2> QED
    BY <2>2, <1>1 DEF VersionsFit, Kept
<1>7. WorkFits'
  <2>1. \A n \in E!Number : /\ Stands(Kept', n) <=> Stands(Kept, n)
                            /\ Stands(Kept, n) => Kept'[n] = Kept[n]
    BY <1>1, <1>4 DEF Kept, Stands
  <2>2. \A q \in Request : label[q] \in E!Serving =>
             /\ served[q].version \in E!Number
             /\ Stands(Kept', served[q].version)
             /\ Kept'[served[q].version].state = "published"
             /\ Kept'[served[q].version].capacity = served[q].capacity
    BY <2>1 DEF WorkFits
  <2>3. \A n \in E!Number : version'[n].owner = version[n].owner /\ version'[n].by = version[n].by
    BY <1>3
  <2>4. \A q \in Request :
           /\ label'[q] \in {"list", "publish"} => club # "gone" /\ \E n \in E!Number : version'[n].owner = q
           /\ \A n \in E!Number : version'[n].owner = q =>
                label'[q] \in {"list", "publish"} /\ version'[n].by = served[q].member
    BY <2>3, <1>1, <1>2 DEF WorkFits
  <2> QED
    BY <2>2, <2>4, <1>1, <1>2 DEF WorkFits, E!Serving, Stands
<1>8. RemovalFits'
  BY <1>1, <1>4 DEF RemovalFits, Stands
<1>9. Seated' /\ AnswersFit' /\ E!AttendeesInformed' /\ E!Yes' = E!Yes
  BY <1>1, <1>4, StandingKeeps
<1>10. SeatsFit'
  BY <1>1, <1>2, <1>9 DEF SeatsFit, E!Serving
<1>11. ListsFit'
  <2> SUFFICES ASSUME NEW q \in Request, label'[q] = "publish", NEW n \in E!Number, version'[n].owner = q,
                      NEW m \in Member, E!Live(m)
               PROVE  m \in version'[n].told \cup {version'[n].by} \cup version'[n].out \/ rsvp[m].upto >= n
    BY <1>1 DEF ListsFit, E!Live
  <2>1. CASE q = r
    BY <2>1, <1>3 DEF E!Recipients, E!Absent, WorkFits
  <2>2. CASE q # r
    BY <2>2, <1>2, <1>3 DEF ListsFit
  <2> QED
    BY <2>1, <2>2
<1> QED
  BY <1>5, <1>6, <1>7, <1>8, <1>9, <1>10, <1>11

\* ...or have answered since, when it commits.
LEMMA EventCommits ==
    ASSUME E!ContentAssumption, EventInv, NEW r \in Request, E!PublishCommits(r)
    PROVE  EventInv'
<1> USE EventConstants DEF EventInv
<1>1. /\ label[r] = "publish" /\ club # "gone" /\ clubLock = Nobody
      /\ version' = [n \in E!Number |-> IF version[n].owner = r
                                        THEN [version[n] EXCEPT !.owner = Nobody] ELSE version[n]]
      /\ label' = [label EXCEPT ![r] = "idle"] /\ served' = [served EXCEPT ![r] = E!NoJob]
      /\ UNCHANGED <<rsvp, active, club, clubLock, archive>>
  BY DEF E!PublishCommits, E!ClubFree, E!Ends, E!Moves, E!clubState, EventTypes, WorkFits
<1>2. PICK k \in E!Number : Numbered(version, k)
  BY <1>1 DEF VersionsFit, Kept
<1>3. /\ E!Current = k /\ E!Exists
      /\ \A n \in E!Number : Stands(version, n) <=> n <= k
      /\ \A n \in E!Number : n <= k => version[n].owner = Nobody
  BY <1>2, EventNumbers
<1>4. k + 1 \in E!Number /\ version[k + 1].owner = r /\ version[k + 1].state # "none"
      /\ \A n \in E!Number : n > k + 1 => version[n] = E!NoVersion
  <2>1. PICK n \in E!Number : version[n].owner = r
    BY <1>1 DEF WorkFits
  <2>2. n > k /\ version[n] # E!NoVersion
    BY <2>1, <1>3 DEF E!NoVersion
  <2>3. n = k + 1 /\ version[n].state # "none"
    BY <2>2, <1>2 DEF Numbered
  <2> QED
    BY <2>1, <2>3, <1>2 DEF Numbered
<1>5. /\ label'[r] = "idle" /\ served'[r] = E!NoJob
      /\ \A q \in Request \ {r} : label'[q] = label[q] /\ served'[q] = served[q]
  BY <1>1 DEF EventTypes
<1>6. /\ version' \in [E!Number -> VersionRow]
      /\ \A n \in E!Number \ {k + 1} : version'[n] = version[n]
      /\ version'[k + 1].owner = Nobody /\ version'[k + 1].state = version[k + 1].state
      /\ version'[k + 1].by = version[k + 1].by /\ version'[k + 1].told = version[k + 1].told
      /\ version'[k + 1].out = version[k + 1].out
      /\ version'[k + 1].capacity = version[k + 1].capacity
  <2>1. \A n \in E!Number : version[n].owner = r <=> n = k + 1
    BY <1>3, <1>4 DEF E!NoVersion
  <2>2. \A n \in E!Number : version[n] \in VersionRow
    BY DEF EventTypes
  <2> DEFINE entry == version[k + 1]
             new == version'[k + 1]
  <2>3. entry \in VersionRow /\ new = [entry EXCEPT !.owner = Nobody]
    BY <1>1, <1>4, <2>2
  <2>4. \A n \in E!Number \ {k + 1} : version'[n] = version[n]
    BY <1>1, <2>1
  <2> HIDE DEF entry, new
  <2>5. /\ new \in VersionRow /\ new.owner = Nobody /\ new.state = entry.state /\ new.by = entry.by
        /\ new.told = entry.told /\ new.out = entry.out /\ new.capacity = entry.capacity
    BY <2>3 DEF VersionRow
  <2>6. \A n \in E!Number : version'[n] \in VersionRow
    BY <2>2, <2>4, <2>5 DEF new
  <2> QED
    BY <2>4, <2>5, <2>6, <1>1 DEF entry, new
<1>7. \A n \in E!Number : Stands(version', n) <=> n <= k + 1
  BY <1>3, <1>4, <1>6 DEF Stands, E!NoVersion
<1>8. EventTypes'
  <2>1. served' \in [Request -> ServedRow]
    BY <1>1 DEF EventTypes, ServedRow, E!NoJob
  <2> QED
    BY <2>1, <1>1, <1>6 DEF EventTypes
<1>9. VersionsFit'
  <2>1. Numbered(version', k + 1)
    <3>1. \A n \in 1..(k + 1) : n \in E!Number /\ Stands(version', n)
      BY <1>7, <1>4
    <3>2. \A n \in E!Number : n > k + 1 => version'[n] = E!NoVersion
      BY <1>4, <1>6
    <3>3. version'[1].state = "published"
      BY <1>2, <1>6 DEF Numbered
    <3> QED
      BY <3>1, <3>2, <3>3 DEF Numbered
  <2> QED
    BY <2>1, <1>1, <1>4 DEF VersionsFit, Kept
<1>10. WorkFits'
  <2>1. \A n \in E!Number : Stands(Kept, n) => Stands(Kept', n) /\ Kept'[n] = Kept[n]
    BY <1>1, <1>3, <1>6, <1>7 DEF Kept, Stands
  <2>2. \A q \in Request : label[q] \in E!Serving =>
             /\ served[q].version \in E!Number
             /\ Stands(Kept', served[q].version)
             /\ Kept'[served[q].version].state = "published"
             /\ Kept'[served[q].version].capacity = served[q].capacity
    BY <2>1 DEF WorkFits
  <2>3. \A n \in E!Number, q \in Request : version'[n].owner # q
    BY <1>3, <1>4, <1>6 DEF E!NoVersion
  <2>4. \A q \in Request : label'[q] \notin {"list", "publish"}
    <3>1. \A n \in E!Number, q \in Request : version[n].owner = q => q = r
      BY <1>3, <1>4 DEF E!NoVersion
    <3>2. \A q \in Request : label[q] \in {"list", "publish"} => \E n \in E!Number : version[n].owner = q
      BY DEF WorkFits
    <3> QED
      BY <3>1, <3>2, <1>5
  <2>5. \A q \in Request : /\ label'[q] = "answered" => club # "gone"
                           /\ label'[q] \notin {"idle", "purge"} => served'[q].member \in Member
                           /\ label'[q] = "purge" <=> clubLock = q
    BY <1>1, <1>5 DEF WorkFits
  <2> QED
    BY <2>2, <2>3, <2>4, <2>5, <1>1, <1>5 DEF WorkFits, E!Serving, Stands
<1>11. RemovalFits'
  BY <1>1 DEF RemovalFits
<1>12. E!Yes' = E!Yes /\ \A m \in Member : E!Live(m)' = E!Live(m)
  BY <1>1 DEF E!Yes, E!Live
<1>13. SeatsFit'
  BY <1>5, <1>12 DEF SeatsFit, E!Serving
<1>14. E!Current' = k + 1
  <2>1. {n \in E!Number : Stands(version', n)} = 1..(k + 1)
    BY <1>7, <1>4
  <2>2. {n \in E!Number : E!Committed(n)'} = {n \in E!Number : Stands(version', n)}
    BY DEF E!Committed, Stands
  <2>3. E!Current' = Cardinality({n \in E!Number : Stands(version', n)})
    BY <2>2, SameCardinality DEF E!Current
  <2> QED
    BY <2>1, <2>3, <1>4, CountUpTo
<1>15. Seated'
  BY <1>1, <1>3, <1>6, <1>7, <1>12 DEF Seated, Stands
<1>16. AnswersFit'
  BY <1>1, <1>3, <1>6, <1>7, <1>12 DEF AnswersFit, Stands
<1>17. E!AttendeesInformed'
  <2> SUFFICES ASSUME NEW m \in Member, E!Live(m)
               PROVE  \/ rsvp[m].for < k + 1 /\ rsvp[m].upto >= k + 1
                      \/ m \in version'[k + 1].told \cup {version'[k + 1].by} \cup version'[k + 1].out
    BY <1>1, <1>12, <1>14 DEF E!AttendeesInformed, EventTypes
  <2>1. m \in version[k + 1].told \cup {version[k + 1].by} \cup version[k + 1].out \/ rsvp[m].upto >= k + 1
    BY <1>1, <1>4 DEF ListsFit
  <2>2. rsvp[m].for \in E!Number /\ rsvp[m].for <= k
    BY <1>3 DEF AnswersFit, EventTypes
  <2> QED
    BY <2>1, <2>2, <1>6
<1>18. ListsFit'
  <2>1. \A n \in E!Number, q \in Request : version'[n].owner # q
    BY <1>3, <1>4, <1>6 DEF E!NoVersion
  <2> QED
    BY <2>1 DEF ListsFit
<1> QED
  BY <1>8, <1>9, <1>10, <1>11, <1>13, <1>15, <1>16, <1>17, <1>18

-----------------------------------------------------------------------------
(* Steps that answer.                                                      *)

LEMMA NoLimitIsNumber ==
    ASSUME E!ContentAssumption
    PROVE  \A seats \in Capacity \cup {E!NoLimit} : seats \in Nat
BY EventConstants

LEMMA SeatsAreNumbers ==
    ASSUME E!ContentAssumption, EventTypes
    PROVE  /\ \A n \in E!Number : version[n].capacity \in Nat
           /\ \A r \in Request : served[r].capacity \in Nat
<1>1. \A seats \in Capacity \cup {E!NoLimit} : seats \in Nat
  BY NoLimitIsNumber
<1>2. ASSUME NEW n \in E!Number
      PROVE  version[n].capacity \in Nat
  <2>1. version[n] \in VersionRow
    BY DEF EventTypes
  <2> QED
    BY <2>1, <1>1 DEF VersionRow
<1>3. ASSUME NEW r \in Request
      PROVE  served[r].capacity \in Nat
  <2>1. served[r] \in ServedRow
    BY DEF EventTypes
  <2> QED
    BY <2>1, <1>1 DEF ServedRow
<1> QED
  BY <1>2, <1>3

\* What the commit of an answer leaves of the requests.
LEMMA OvertakesRows ==
    ASSUME E!ContentAssumption, EventTypes, NEW r \in Request, NEW m \in Member, NEW serial \in BOOLEAN,
           E!Overtakes(r, m, serial)
    PROVE  /\ served' \in [Request -> ServedRow] /\ served'[r] = E!NoJob
           /\ \A q \in Request \ {r} :
                /\ served'[q].member = served[q].member /\ served'[q].version = served[q].version
                /\ served'[q].capacity = served[q].capacity /\ served'[q].full = served[q].full
                /\ label[q] \in E!Serving => (served'[q].stale <=> served[q].stale \/ serial)
                /\ label[q] \notin E!Serving => served'[q] = served[q]
<1>1. served' = [q \in Request |->
              IF q = r THEN E!NoJob
              ELSE IF label[q] \notin E!Serving THEN served[q]
              ELSE [served[q] EXCEPT !.stale = @ \/ serial,
                                     !.overtaken = @ \/ served[q].member = m]]
  BY DEF E!Overtakes
<1>2. E!NoJob \in ServedRow
  BY EventConstants DEF E!NoJob, ServedRow
<1>3. ASSUME NEW q \in Request \ {r}
      PROVE  /\ served'[q] \in ServedRow
             /\ served'[q].member = served[q].member /\ served'[q].version = served[q].version
             /\ served'[q].capacity = served[q].capacity /\ served'[q].full = served[q].full
             /\ label[q] \in E!Serving => (served'[q].stale <=> served[q].stale \/ serial)
             /\ label[q] \notin E!Serving => served'[q] = served[q]
  <2>1. served[q] \in ServedRow
    BY DEF EventTypes
  <2>2. CASE label[q] \notin E!Serving
    BY <2>1, <2>2, <1>1
  <2>3. CASE label[q] \in E!Serving
    <3> DEFINE entry == served[q]
               new == served'[q]
               overtaken == entry.overtaken \/ entry.member = m
               stale == entry.stale \/ serial
    <3>1. entry \in ServedRow /\ new = [entry EXCEPT !.stale = stale, !.overtaken = overtaken]
      BY <2>1, <2>3, <1>1
    <3>2. overtaken \in BOOLEAN /\ stale \in BOOLEAN
      OBVIOUS
    <3> HIDE DEF entry, new, overtaken, stale
    <3>3. /\ new \in ServedRow /\ new.member = entry.member /\ new.version = entry.version
          /\ new.capacity = entry.capacity /\ new.full = entry.full /\ new.stale = stale
      BY <3>1, <3>2 DEF ServedRow
    <3> QED
      BY <3>3, <2>3 DEF entry, new, stale
  <2> QED
    BY <2>2, <2>3
<1> QED
  BY <1>1, <1>2, <1>3

\* The parts that an answer cannot disturb.
LEMMA AnswersKeep ==
    ASSUME E!ContentAssumption, EventInv, NEW r \in Request, label[r] \in {"answered", "cancel"},
           NEW serial \in BOOLEAN, E!Overtakes(r, served[r].member, serial),
           label' = [label EXCEPT ![r] = "idle"], club # "gone",
           UNCHANGED <<version, active, club, clubLock, archive>>
    PROVE  /\ VersionsFit' /\ WorkFits' /\ E!Current' = E!Current
           /\ label' \in [Request -> E!Serving \cup {"idle", "again", "update", "remove", "list", "publish",
                                             "cancel", "purge"}]
           /\ label'[r] = "idle" /\ \A q \in Request \ {r} : label'[q] = label[q]
           /\ served' \in [Request -> ServedRow]
           /\ \A q \in Request : label'[q] \in E!Serving =>
                /\ label[q] \in E!Serving /\ served'[q].member = served[q].member
                /\ served'[q].capacity = served[q].capacity /\ served'[q].full = served[q].full
                /\ served'[q].stale <=> served[q].stale \/ serial
<1> USE EventConstants DEF EventInv
<1>1. /\ label'[r] = "idle" /\ \A q \in Request \ {r} : label'[q] = label[q]
      /\ label' \in [Request -> E!Serving \cup {"idle", "again", "update", "remove", "list", "publish",
                                             "cancel", "purge"}]
  BY DEF EventTypes
<1>2. served[r].member \in Member
  BY DEF WorkFits
<1>3. /\ served' \in [Request -> ServedRow] /\ served'[r] = E!NoJob
      /\ \A q \in Request \ {r} :
           /\ served'[q].member = served[q].member /\ served'[q].version = served[q].version
           /\ served'[q].capacity = served[q].capacity /\ served'[q].full = served[q].full
           /\ label[q] \in E!Serving => (served'[q].stale <=> served[q].stale \/ serial)
           /\ label[q] \notin E!Serving => served'[q] = served[q]
  BY <1>2, OvertakesRows
<1>4. VersionsFit'
  BY DEF VersionsFit, Kept, Numbered, Stands
<1>5. WorkFits'
  <2>1. Kept' = Kept
    BY DEF Kept
  <2>2. \A n \in E!Number : version[n].owner # r
    BY DEF WorkFits
  <2>3. clubLock # r
    BY DEF WorkFits
  <2> QED
    BY <1>1, <1>3, <2>1, <2>2, <2>3 DEF WorkFits, E!Serving, Stands
<1>6. E!Current' = E!Current
  BY DEF E!Current, E!Committed
<1> QED
  BY <1>1, <1>3, <1>4, <1>5, <1>6 DEF E!Serving

\* An answer that takes a seat was counted against what no other answer has changed since.
LEMMA EventAnswered ==
    ASSUME E!ContentAssumption, EventInv, NEW r \in Request, E!RsvpCommits(r)
    PROVE  EventInv'
<1> USE EventConstants DEF EventInv
<1> DEFINE m == served[r].member
           entry == [answer |-> E!Stored(r), for |-> served[r].version, upto |-> E!Newest]
<1>1. /\ label[r] = "answered" /\ ~served[r].stale /\ E!AuthorTold(m)
      /\ rsvp' = [rsvp EXCEPT ![m] = entry]
      /\ label' = [label EXCEPT ![r] = "idle"]
      /\ E!Overtakes(r, m, TRUE)
      /\ UNCHANGED <<version, active, club, clubLock, archive>>
  BY DEF E!RsvpCommits, E!Serial, E!clubState
<1>2. /\ club # "gone" /\ m \in Member /\ served[r].version \in E!Number
      /\ Stands(version, served[r].version) /\ version[served[r].version].state = "published"
      /\ version[served[r].version].capacity = served[r].capacity
  BY <1>1 DEF WorkFits, Kept, E!Serving
<1>3. /\ VersionsFit' /\ WorkFits' /\ E!Current' = E!Current
      /\ label' \in [Request -> E!Serving \cup {"idle", "again", "update", "remove", "list", "publish",
                                             "cancel", "purge"}]
      /\ label'[r] = "idle" /\ \A q \in Request \ {r} : label'[q] = label[q]
      /\ served' \in [Request -> ServedRow]
      /\ \A q \in Request : label'[q] \in E!Serving =>
           /\ label[q] \in E!Serving /\ served'[q].member = served[q].member
           /\ served'[q].capacity = served[q].capacity /\ served'[q].full = served[q].full
           /\ served'[q].stale <=> served[q].stale \/ TRUE
  BY <1>1, <1>2, AnswersKeep
<1>4. PICK k \in E!Number : Numbered(version, k)
  BY <1>2 DEF VersionsFit, Kept
<1>5. /\ E!Current = k /\ E!Exists /\ E!Newest \in {k, k + 1} /\ E!Newest \in E!Number
      /\ E!Newest = k <=> \A n \in E!Number : n > k => version[n] = E!NoVersion
      /\ \A n \in E!Number : Stands(version, n) <=> n <= k
      /\ \A n \in E!Number : n <= k => version[n].owner = Nobody
  <2>1. /\ E!Current = k /\ E!Exists /\ E!Newest \in {k, k + 1}
        /\ E!Newest = k <=> \A n \in E!Number : n > k => version[n] = E!NoVersion
        /\ \A n \in E!Number : Stands(version, n) <=> n <= k
        /\ \A n \in E!Number : n <= k => version[n].owner = Nobody
    BY <1>4, EventNumbers
  <2>2. E!Newest \in E!Number
    BY <2>1
  <2> QED
    BY <2>1, <2>2
<1>6. entry \in AnswerRow
  BY <1>2, <1>5 DEF AnswerRow, E!Answer, E!Stored, EventTypes, ServedRow
<1>7. /\ rsvp' \in [Member -> AnswerRow]
      /\ rsvp'[m] = entry /\ \A x \in Member \ {m} : rsvp'[x] = rsvp[x]
  BY <1>1, <1>2, <1>6 DEF EventTypes
<1>8. entry.answer = E!Stored(r) /\ entry.for = served[r].version /\ entry.upto = E!Newest
  OBVIOUS
<1> HIDE DEF entry
<1>9. EventTypes'
  BY <1>1, <1>3, <1>7 DEF EventTypes
<1>10. RemovalFits'
  BY <1>1, <1>7 DEF RemovalFits, E!AuthorTold, E!ClubFree
<1>11. SeatsFit'
  BY <1>3 DEF SeatsFit
<1>12. Seated'
  <2>1. E!Yes' \subseteq E!Yes \cup {m} /\ (E!Stored(r) # "yes" => E!Yes' \subseteq E!Yes)
    BY <1>2, <1>7, <1>8 DEF E!Yes
  <2>2. CASE E!Stored(r) # "yes"
    <3>1. Cardinality(E!Yes') <= Cardinality(E!Yes) /\ Cardinality(E!Yes') \in Nat
      BY <2>1, <2>2, YesIsFinite, FS_Subset, FS_CardinalityType
    <3>2. PICK n \in E!Number : /\ Stands(version, n) /\ version[n].state = "published"
                                /\ version[n].capacity = E!NoLimit \/ Cardinality(E!Yes) <= version[n].capacity
      BY <1>5 DEF Seated
    <3>3. version[n].capacity \in Nat /\ Cardinality(E!Yes) \in Nat
      BY SeatsAreNumbers, YesIsFinite
    <3>4. version[n].capacity = E!NoLimit \/ Cardinality(E!Yes') <= version[n].capacity
      BY <3>1, <3>2, <3>3
    <3> QED
      BY <3>2, <3>4, <1>1 DEF Seated, Stands
  <2>3. CASE E!Stored(r) = "yes"
    <3>1. served[r].capacity = E!NoLimit \/ ~served[r].full
      BY <2>3 DEF E!Stored, E!Counts
    <3>2. CASE served[r].capacity = E!NoLimit
      BY <3>2, <1>1, <1>2 DEF Seated, Stands
    <3>3. CASE ~served[r].full
      <4>1. Cardinality(E!Yes \ {m}) < served[r].capacity
        BY <3>3, <1>1 DEF SeatsFit, E!Serving
      <4>2. E!Yes' \subseteq (E!Yes \ {m}) \cup {m}
        BY <2>1
      <4>3. IsFiniteSet(E!Yes \ {m}) /\ Cardinality(E!Yes \ {m}) \in Nat
        BY YesIsFinite
      <4>4. IsFiniteSet((E!Yes \ {m}) \cup {m})
            /\ Cardinality((E!Yes \ {m}) \cup {m}) = Cardinality(E!Yes \ {m}) + 1
        BY <4>3, FS_AddElement
      <4>5. Cardinality(E!Yes') <= Cardinality((E!Yes \ {m}) \cup {m}) /\ Cardinality(E!Yes') \in Nat
        BY <4>2, <4>4, FS_Subset, FS_CardinalityType
      <4>6. served[r].capacity \in Nat
        BY SeatsAreNumbers
      <4>7. Cardinality(E!Yes') <= version[served[r].version].capacity
        BY <4>1, <4>3, <4>4, <4>5, <4>6, <1>2
      <4> QED
        BY <4>7, <1>1, <1>2 DEF Seated, Stands
    <3> QED
      BY <3>1, <3>2, <3>3
  <2> QED
    BY <2>2, <2>3
<1>13. AnswersFit'
  BY <1>1, <1>2, <1>7, <1>8 DEF AnswersFit, E!Live, Stands
<1>14. E!AttendeesInformed'
  <2> SUFFICES ASSUME NEW x \in Member, E!Live(x)'
               PROVE  \/ version[k].state = "published" /\ rsvp'[x].for = k
                      \/ rsvp'[x].for < k /\ rsvp'[x].upto >= k
                      \/ x \in version[k].told \cup {version[k].by} \cup version[k].out
    BY <1>1, <1>3, <1>5 DEF E!AttendeesInformed, EventTypes
  <2>1. CASE x = m
    BY <2>1, <1>2, <1>5, <1>7, <1>8
  <2>2. CASE x # m
    <3>1. rsvp'[x] = rsvp[x] /\ E!Live(x)
      BY <2>2, <1>7 DEF EventTypes, E!Live
    <3> QED
      BY <3>1, <1>5 DEF E!AttendeesInformed
  <2> QED
    BY <2>1, <2>2
<1>15. ListsFit'
  <2> SUFFICES ASSUME NEW q \in Request, label'[q] = "publish", NEW n \in E!Number, version[n].owner = q,
                      NEW x \in Member, E!Live(x)'
               PROVE  x \in version[n].told \cup {version[n].by} \cup version[n].out \/ rsvp'[x].upto >= n
    BY <1>1 DEF ListsFit
  <2>1. label[q] = "publish" /\ x \in Member
    BY <1>3 DEF EventTypes
  <2>2. CASE x = m
    <3>1. n > k /\ version[n] # E!NoVersion
      BY <1>5 DEF E!NoVersion
    <3>2. n = k + 1 /\ E!Newest = k + 1
      BY <3>1, <1>4, <1>5 DEF Numbered
    <3> QED
      BY <2>2, <3>2, <1>7, <1>8
  <2>3. CASE x # m
    BY <2>1, <2>3, <1>7 DEF ListsFit, E!Live
  <2> QED
    BY <2>2, <2>3
<1> QED
  BY <1>3, <1>9, <1>10, <1>11, <1>12, <1>13, <1>14, <1>15

\* An answer that is taken back leaves a seat.
LEMMA EventCancelled ==
    ASSUME E!ContentAssumption, EventInv, NEW r \in Request, E!CancelCommits(r)
    PROVE  EventInv'
<1> USE EventConstants DEF EventInv
<1> DEFINE m == served[r].member
           entry == [E!NoAnswer EXCEPT !.answer = "cancelled"]
<1>1. /\ label[r] = "cancel" /\ E!Live(m) /\ E!AuthorTold(m)
      /\ rsvp' = [rsvp EXCEPT ![m] = entry]
      /\ label' = [label EXCEPT ![r] = "idle"]
      /\ E!Overtakes(r, m, FALSE)
      /\ UNCHANGED <<version, active, club, clubLock, archive>>
  BY DEF E!CancelCommits, E!clubState
<1>2. m \in Member
  BY <1>1 DEF WorkFits
<1>3. club # "gone"
  BY <1>1, <1>2, NoEventNumbers DEF E!Live, E!NoAnswer
<1>4. /\ VersionsFit' /\ WorkFits' /\ E!Current' = E!Current
      /\ label' \in [Request -> E!Serving \cup {"idle", "again", "update", "remove", "list", "publish",
                                             "cancel", "purge"}]
      /\ label'[r] = "idle" /\ \A q \in Request \ {r} : label'[q] = label[q]
      /\ served' \in [Request -> ServedRow]
      /\ \A q \in Request : label'[q] \in E!Serving =>
           /\ label[q] \in E!Serving /\ served'[q].member = served[q].member
           /\ served'[q].capacity = served[q].capacity /\ served'[q].full = served[q].full
           /\ served'[q].stale <=> served[q].stale \/ FALSE
  BY <1>1, <1>3, AnswersKeep
<1>5. entry \in AnswerRow /\ entry.answer = "cancelled"
  BY DEF AnswerRow, E!NoAnswer, E!Answer
<1>6. /\ rsvp' \in [Member -> AnswerRow]
      /\ rsvp'[m] = entry /\ \A x \in Member \ {m} : rsvp'[x] = rsvp[x]
  BY <1>1, <1>2, <1>5 DEF EventTypes
<1> HIDE DEF entry
<1>7. /\ E!Yes' \subseteq E!Yes
      /\ \A x \in Member : E!Live(x)' => E!Live(x) /\ rsvp'[x] = rsvp[x]
  BY <1>2, <1>5, <1>6 DEF E!Yes, E!Live
<1>8. EventTypes'
  BY <1>1, <1>4, <1>6 DEF EventTypes
<1>9. RemovalFits'
  BY <1>1, <1>6 DEF RemovalFits, E!AuthorTold, E!ClubFree
<1>10. SeatsFit' /\ Seated'
  <2>1. Cardinality(E!Yes') <= Cardinality(E!Yes) /\ Cardinality(E!Yes') \in Nat /\ Cardinality(E!Yes) \in Nat
    BY <1>7, YesIsFinite, FS_Subset, FS_CardinalityType
  <2>2. ASSUME NEW q \in Request, label'[q] \in E!Serving, ~served'[q].stale, ~served'[q].full
        PROVE  Cardinality(E!Yes' \ {served'[q].member}) < served'[q].capacity
    <3>1. Cardinality(E!Yes \ {served[q].member}) < served[q].capacity
      BY <2>2, <1>4 DEF SeatsFit
    <3>2. E!Yes' \ {served'[q].member} \subseteq E!Yes \ {served[q].member}
      BY <2>2, <1>4, <1>7
    <3>3. IsFiniteSet(E!Yes \ {served[q].member}) /\ Cardinality(E!Yes \ {served[q].member}) \in Nat
      BY YesIsFinite
    <3>4. /\ Cardinality(E!Yes' \ {served'[q].member}) <= Cardinality(E!Yes \ {served[q].member})
          /\ Cardinality(E!Yes' \ {served'[q].member}) \in Nat
      BY <3>2, <3>3, FS_Subset, FS_CardinalityType
    <3>5. served[q].capacity \in Nat
      BY SeatsAreNumbers
    <3>6. served'[q].capacity = served[q].capacity
      BY <2>2, <1>4
    <3> QED
      BY <3>1, <3>3, <3>4, <3>5, <3>6
  <2>3. SeatsFit'
    BY <2>2 DEF SeatsFit
  <2>4. Seated'
    <3> PICK k \in E!Number : Numbered(version, k)
      BY <1>3 DEF VersionsFit, Kept
    <3> E!Exists
      BY EventNumbers
    <3>1. PICK n \in E!Number : /\ Stands(version, n) /\ version[n].state = "published"
                                /\ version[n].capacity = E!NoLimit \/ Cardinality(E!Yes) <= version[n].capacity
      BY DEF Seated
    <3>2. version[n].capacity \in Nat
      BY SeatsAreNumbers
    <3> QED
      BY <3>1, <3>2, <2>1, <1>1 DEF Seated, Stands
  <2> QED
    BY <2>3, <2>4
<1>11. AnswersFit'
  BY <1>1, <1>7 DEF AnswersFit, Stands
<1>12. E!AttendeesInformed'
  <2>1. E!Exists' <=> E!Exists
    BY <1>4 DEF E!Exists
  <2> QED
    BY <2>1, <1>1, <1>4, <1>7 DEF E!AttendeesInformed, EventTypes
<1>13. ListsFit'
  BY <1>1, <1>4, <1>7 DEF ListsFit, EventTypes
<1> QED
  BY <1>4, <1>8, <1>9, <1>10, <1>11, <1>12, <1>13

-----------------------------------------------------------------------------
(* Steps of the club.                                                      *)

\* A club is archived while nobody removes it.
LEMMA EventArchived ==
    ASSUME E!ContentAssumption, EventInv, E!ArchiveClub
    PROVE  EventInv'
<1> USE DEF EventInv
<1>1. /\ club = "live" /\ club' = "archived" /\ clubLock = Nobody
      /\ UNCHANGED <<version, rsvp, active, clubLock, archive, label, served>>
  BY DEF E!ArchiveClub, E!ClubFree
<1>2. EventTypes'
  BY <1>1 DEF EventTypes
<1>3. VersionsFit' /\ WorkFits' /\ RemovalFits'
  <2>1. Kept' = Kept
    BY <1>1 DEF Kept
  <2> QED
    BY <1>1, <2>1 DEF VersionsFit, WorkFits, RemovalFits, Stands, Numbered
<1>4. Seated' /\ AnswersFit' /\ E!AttendeesInformed' /\ SeatsFit'
  <2>1. E!Yes' = E!Yes /\ E!Current' = E!Current
    BY <1>1 DEF E!Yes, E!Current, E!Committed
  <2> QED
    BY <1>1, <2>1 DEF Seated, AnswersFit, SeatsFit, E!AttendeesInformed, E!Exists, E!Live, Stands
<1>5. ListsFit'
  BY <1>1 DEF ListsFit, E!Live
<1> QED
  BY <1>2, <1>3, <1>4, <1>5

\* Its removal archives what is committed, and nothing can be committed any more.
LEMMA EventArchiveIsRead ==
    ASSUME E!ContentAssumption, EventInv, NEW r \in Request, E!RemovalReads(r)
    PROVE  EventInv'
<1> USE EventConstants DEF EventInv
<1>1. /\ label[r] = "idle" /\ club = "archived" /\ clubLock = Nobody /\ clubLock' = r
      /\ archive' = [version |-> [n \in E!Number |-> IF E!Committed(n) THEN version[n] ELSE E!NoVersion],
                     rsvp |-> rsvp]
      /\ label' = [label EXCEPT ![r] = "purge"] /\ served' = [served EXCEPT ![r] = E!NoJob]
      /\ UNCHANGED <<version, rsvp, active, club>>
  BY DEF E!RemovalReads, E!Moves
<1>2. /\ label'[r] = "purge" /\ served'[r] = E!NoJob
      /\ \A q \in Request \ {r} : label'[q] = label[q] /\ served'[q] = served[q]
  BY <1>1 DEF EventTypes
<1>3. EventTypes'
  <2>1. served' \in [Request -> ServedRow]
    BY <1>1 DEF EventTypes, ServedRow, E!NoJob
  <2>2. E!NoVersion \in VersionRow
    BY DEF E!NoVersion, VersionRow
  <2>3. [n \in E!Number |-> IF E!Committed(n) THEN version[n] ELSE E!NoVersion] \in [E!Number -> VersionRow]
    BY <2>2 DEF EventTypes
  <2>4. archive' \in [version : [E!Number -> VersionRow], rsvp : [Member -> AnswerRow]]
    BY <1>1, <2>3 DEF EventTypes
  <2> QED
    BY <1>1, <2>1, <2>4 DEF EventTypes
<1>4. Kept = version /\ Kept' = version
  BY <1>1 DEF Kept
<1>5. VersionsFit'
  BY <1>1, <1>4 DEF VersionsFit, Numbered, Stands
<1>6. WorkFits'
  BY <1>1, <1>2, <1>4 DEF WorkFits, Stands, E!Serving
<1>7. RemovalFits'
  BY <1>1 DEF RemovalFits, Stands, E!Committed
<1>8. Seated' /\ AnswersFit' /\ E!AttendeesInformed' /\ E!Yes' = E!Yes
  BY <1>1, StandingKeeps DEF Stands
<1>9. SeatsFit' /\ ListsFit'
  BY <1>1, <1>2, <1>8 DEF SeatsFit, ListsFit, E!Live, E!Serving
<1> QED
  BY <1>3, <1>5, <1>6, <1>7, <1>8, <1>9

\* What is deleted is what was archived.
LEMMA ArchiveIsWhole ==
    ASSUME E!ContentAssumption, EventInv, NEW r \in Request, E!RemovalDeletes(r)
    PROVE  /\ club = "archived" /\ clubLock = r /\ archive.version = version
           /\ \A n \in E!Number, q \in Request : version[n].owner # q
           /\ \A n \in E!Number : version[n].owner = Nobody
           /\ \A m \in Member \ {Author} : archive.rsvp[m].answer = rsvp[m].answer
<1> USE EventConstants DEF EventInv
<1>1. label[r] = "purge" /\ \A q \in Request : label[q] \notin {"list", "publish", "answered"}
  BY DEF E!RemovalDeletes, E!Below
<1>2. clubLock = r /\ clubLock # Nobody
  BY <1>1 DEF WorkFits
<1>3. /\ club = "archived"
      /\ \A n \in E!Number :
            archive.version[n] = IF Stands(version, n) THEN version[n] ELSE E!NoVersion
      /\ \A m \in Member \ {Author} : archive.rsvp[m].answer = rsvp[m].answer
  BY <1>2 DEF RemovalFits
<1>4. \A n \in E!Number, q \in Request : version[n].owner # q
  BY <1>1 DEF WorkFits
<1>5. PICK k \in E!Number : Numbered(version, k)
  BY <1>3 DEF VersionsFit, Kept
<1>6. \A n \in E!Number : ~Stands(version, n) => version[n] = E!NoVersion
  <2>1. \A n \in E!Number : n <= k => Stands(version, n)
    BY <1>5 DEF Numbered
  <2> QED
    BY <2>1, <1>4, <1>5 DEF Numbered
<1>7. archive.version = version
  <2>1. \A n \in E!Number : archive.version[n] = version[n]
    BY <1>3, <1>6
  <2>2. archive.version \in [E!Number -> VersionRow] /\ version \in [E!Number -> VersionRow]
    BY DEF EventTypes
  <2> QED
    BY <2>1, <2>2
<1>8. \A n \in E!Number : version[n].owner = Nobody
  BY <1>6 DEF Stands, E!NoVersion
<1> QED
  BY <1>2, <1>3, <1>4, <1>7, <1>8

\* A club that is gone has no event, and nobody who works on one.
LEMMA EventDeleted ==
    ASSUME E!ContentAssumption, EventInv, NEW r \in Request, E!RemovalDeletes(r)
    PROVE  EventInv'
<1> USE EventConstants DEF EventInv
<1>1. /\ label[r] = "purge" /\ \A q \in Request : label[q] \notin {"list", "publish", "answered"}
      /\ club' = "gone" /\ clubLock' = Nobody
      /\ version' = E!NoArchive.version /\ rsvp' = E!NoArchive.rsvp
      /\ label' = [label EXCEPT ![r] = "idle"] /\ served' = [served EXCEPT ![r] = E!NoJob]
      /\ UNCHANGED <<active, archive>>
  BY DEF E!RemovalDeletes, E!Below, E!Ends, E!Moves
<1>2. /\ club = "archived" /\ clubLock = r /\ archive.version = version
      /\ \A n \in E!Number : version[n].owner = Nobody
  BY ArchiveIsWhole
<1>3. /\ label'[r] = "idle" /\ served'[r] = E!NoJob
      /\ \A q \in Request \ {r} : label'[q] = label[q] /\ served'[q] = served[q]
  BY <1>1 DEF EventTypes
<1>4. /\ version' = [n \in E!Number |-> E!NoVersion] /\ rsvp' = [m \in Member |-> E!NoAnswer]
      /\ \A n \in E!Number : version'[n] = E!NoVersion
      /\ \A m \in Member : rsvp'[m] = E!NoAnswer
  BY <1>1 DEF E!NoArchive
<1>5. EventTypes'
  <2>1. served' \in [Request -> ServedRow]
    BY <1>1 DEF EventTypes, ServedRow, E!NoJob
  <2>2. E!NoVersion \in VersionRow /\ E!NoAnswer \in AnswerRow
    BY DEF E!NoVersion, VersionRow, E!NoAnswer, AnswerRow, E!Answer
  <2>3. version' \in [E!Number -> VersionRow] /\ rsvp' \in [Member -> AnswerRow]
    BY <1>4, <2>2
  <2> QED
    BY <1>1, <2>1, <2>3 DEF EventTypes
<1>6. Kept = version /\ Kept' = version
  BY <1>1, <1>2 DEF Kept
<1>7. VersionsFit'
  BY <1>1, <1>2, <1>6 DEF VersionsFit, Numbered, Stands
<1>8. WorkFits'
  <2>1. \A n \in E!Number, q \in Request : version'[n].owner # q
    BY <1>4 DEF E!NoVersion
  <2>2. \A q \in Request : label'[q] \notin {"list", "publish", "answered", "purge"}
    BY <1>1, <1>2, <1>3 DEF WorkFits
  <2>3. \A q \in Request : clubLock' # q
    BY <1>1
  <2>4. \A q \in Request : label'[q] \in E!Serving =>
             /\ served'[q].version \in E!Number
             /\ Stands(Kept', served'[q].version)
             /\ Kept'[served'[q].version].state = "published"
             /\ Kept'[served'[q].version].capacity = served'[q].capacity
    BY <1>3, <1>6 DEF WorkFits, E!Serving
  <2>5. \A q \in Request : label'[q] \notin {"idle", "purge"} => served'[q].member \in Member
    BY <1>3 DEF WorkFits
  <2> QED
    BY <2>1, <2>2, <2>3, <2>4, <2>5 DEF WorkFits, Stands
<1>9. RemovalFits'
  BY <1>1 DEF RemovalFits
<1>10. E!Yes' = {} /\ \A m \in Member : ~E!Live(m)'
  BY <1>4 DEF E!Yes, E!Live, E!NoAnswer
<1>11. SeatsFit'
  <2> SUFFICES ASSUME NEW q \in Request, label'[q] \in E!Serving, ~served'[q].stale, ~served'[q].full
               PROVE  Cardinality(E!Yes' \ {served'[q].member}) < served'[q].capacity
    BY DEF SeatsFit
  <2>1. q # r /\ label[q] \in E!Serving /\ served'[q] = served[q]
    BY <1>3 DEF E!Serving
  <2>2. Cardinality(E!Yes \ {served[q].member}) < served[q].capacity
    BY <2>1 DEF SeatsFit
  <2>3. Cardinality(E!Yes \ {served[q].member}) \in Nat /\ served[q].capacity \in Nat
    BY YesIsFinite, SeatsAreNumbers
  <2>4. E!Yes' \ {served'[q].member} = {} /\ Cardinality({}) = 0
    BY <1>10, FS_EmptySet
  <2>5. Cardinality(E!Yes' \ {served'[q].member}) = 0
    BY <2>4
  <2> QED
    BY <2>1, <2>2, <2>3, <2>5
<1>12. ~E!Exists'
  <2>1. {n \in E!Number : E!Committed(n)'} = {}
    BY <1>4 DEF E!Committed, E!NoVersion
  <2>2. E!Current' = Cardinality({n \in E!Number : E!Committed(n)'})
    BY SameCardinality DEF E!Current
  <2>3. E!Current' = 0
    BY <2>1, <2>2, FS_EmptySet
  <2> QED
    BY <2>3 DEF E!Exists
<1>13. Seated' /\ E!AttendeesInformed'
  BY <1>12 DEF Seated, E!AttendeesInformed
<1>14. AnswersFit'
  BY <1>10 DEF AnswersFit
<1>15. ListsFit'
  BY <1>4 DEF ListsFit, E!NoVersion
<1> QED
  BY <1>5, <1>7, <1>8, <1>9, <1>11, <1>13, <1>14, <1>15

\* A club that is restored has the versions it had, and no answers.
LEMMA EventRestored ==
    ASSUME E!ContentAssumption, EventInv, E!Restore
    PROVE  EventInv'
<1> USE EventConstants DEF EventInv
<1>1. /\ club = "gone" /\ club' = "live" /\ version' = archive.version /\ archive' = E!NoArchive
      /\ UNCHANGED <<rsvp, active, clubLock, label, served>>
  BY DEF E!Restore
<1>2. /\ clubLock = Nobody /\ \A n \in E!Number : version'[n].owner = Nobody
      /\ \A m \in Member : rsvp[m] = E!NoAnswer
  BY <1>1, NoEventNumbers DEF VersionsFit
<1>3. EventTypes'
  <2>1. E!NoArchive \in [version : [E!Number -> VersionRow], rsvp : [Member -> AnswerRow]]
    BY DEF E!NoArchive, VersionRow, AnswerRow, E!NoVersion, E!NoAnswer, E!Answer
  <2> QED
    BY <1>1, <2>1 DEF EventTypes
<1>4. Kept' = Kept /\ Kept = version'
  BY <1>1 DEF Kept
<1>5. VersionsFit'
  BY <1>1, <1>4 DEF VersionsFit, Numbered, Stands
<1>6. WorkFits'
  <2>1. \A q \in Request : label[q] \notin {"list", "publish", "answered"}
    BY <1>1 DEF WorkFits
  <2>2. \A q \in Request, n \in E!Number : version'[n].owner # q
    BY <1>2
  <2>3. \A q \in Request : label'[q] \in E!Serving =>
             /\ served'[q].version \in E!Number
             /\ Stands(Kept', served'[q].version)
             /\ Kept'[served'[q].version].state = "published"
             /\ Kept'[served'[q].version].capacity = served'[q].capacity
    BY <1>1, <1>4 DEF WorkFits
  <2>4. \A q \in Request : /\ label[q] \notin {"idle", "purge"} => served[q].member \in Member
                           /\ label[q] = "purge" <=> clubLock = q
    BY DEF WorkFits
  <2> QED
    BY <1>1, <2>1, <2>2, <2>3, <2>4 DEF WorkFits, Stands
<1>7. RemovalFits'
  BY <1>1, <1>2 DEF RemovalFits
<1>8. E!Yes' = E!Yes /\ E!Yes = {} /\ \A m \in Member : ~E!Live(m)'
  BY <1>1, <1>2 DEF E!Yes, E!Live, E!NoAnswer
<1>9. SeatsFit'
  BY <1>1, <1>8 DEF SeatsFit
<1>10. Seated'
  <2>1. PICK k \in E!Number : Numbered(version', k)
    BY <1>4 DEF VersionsFit
  <2>2. 1 \in 1..k /\ Stands(version', 1) /\ version'[1].state = "published"
    BY <2>1 DEF Numbered
  <2>3. version'[1] \in VersionRow
    BY <1>3 DEF EventTypes
  <2>4. version'[1].capacity \in Nat
    BY <2>3, NoLimitIsNumber DEF VersionRow
  <2>5. Cardinality(E!Yes') = 0
    BY <1>8, FS_EmptySet
  <2>6. Cardinality(E!Yes') <= version'[1].capacity
    BY <2>4, <2>5
  <2> QED
    BY <2>2, <2>6 DEF Seated, Stands
<1>11. AnswersFit' /\ E!AttendeesInformed'
  BY <1>1, <1>3, <1>8 DEF AnswersFit, E!AttendeesInformed, EventTypes
<1>12. ListsFit'
  BY <1>1, <1>8, <1>3 DEF ListsFit, EventTypes
<1> QED
  BY <1>3, <1>5, <1>6, <1>7, <1>9, <1>10, <1>11, <1>12

\* Members leave, and come back, with their answers.
LEMMA EventMembersChange ==
    ASSUME E!ContentAssumption, EventInv, NEW m \in Member, E!Leave(m) \/ E!Return(m)
    PROVE  EventInv'
<1> USE DEF EventInv
<1>1. /\ active' \subseteq Member
      /\ UNCHANGED <<version, rsvp, club, clubLock, archive, label, served>>
  BY DEF E!Leave, E!Return, E!clubState, EventTypes
<1>2. EventTypes'
  BY <1>1 DEF EventTypes
<1>3. VersionsFit' /\ WorkFits' /\ RemovalFits'
  <2>1. Kept' = Kept
    BY <1>1 DEF Kept
  <2> QED
    BY <1>1, <2>1 DEF VersionsFit, WorkFits, RemovalFits, Stands, Numbered
<1>4. Seated' /\ AnswersFit' /\ E!AttendeesInformed' /\ SeatsFit'
  <2>1. E!Yes' = E!Yes /\ E!Current' = E!Current
    BY <1>1 DEF E!Yes, E!Current, E!Committed
  <2> QED
    BY <1>1, <2>1 DEF Seated, AnswersFit, SeatsFit, E!AttendeesInformed, E!Exists, E!Live, Stands
<1>5. ListsFit'
  BY <1>1 DEF ListsFit, E!Live
<1> QED
  BY <1>2, <1>3, <1>4, <1>5

-----------------------------------------------------------------------------
(* The requests of the authors, and of those who answer.                   *)

\* What a transaction reads of the event.
LEMMA PublishedIsRead ==
    ASSUME E!ContentAssumption, EventInv, E!Published
    PROVE  /\ club # "gone" /\ E!Current \in E!Number /\ Stands(version, E!Current)
           /\ version[E!Current].state = "published"
           /\ version[E!Current].capacity \in Capacity \cup {E!NoLimit}
           /\ Kept = version
<1>1. E!Exists /\ version[E!Current].state = "published"
  BY DEF E!Published
<1>2. club # "gone" /\ \E k \in E!Number : Numbered(version, k)
  BY <1>1, ExistsHere DEF EventInv
<1>3. PICK k \in E!Number : Numbered(version, k)
  BY <1>2
<1>4. E!Current = k /\ Stands(version, k)
  BY <1>3, EventNumbers, EventConstants
<1>5. version[k] \in VersionRow
  BY DEF EventInv, EventTypes
<1> QED
  BY <1>1, <1>2, <1>4, <1>5 DEF Kept, VersionRow

LEMMA NoJobIsServed ==
    ASSUME E!ContentAssumption
    PROVE  E!NoJob \in ServedRow
BY EventConstants DEF E!NoJob, ServedRow

LEMMA EventEnds ==
    ASSUME E!ContentAssumption, EventInv, NEW r \in Request, E!Ends(r),
           label[r] \notin {"list", "publish", "purge"},
           UNCHANGED <<version, rsvp, active, club, clubLock, archive>>
    PROVE  EventInv'
<1>1. E!Moves(r, "idle", E!NoJob) /\ E!NoJob \in ServedRow /\ "idle" \in Labels /\ "idle" \notin E!Serving
  BY NoJobIsServed DEF E!Ends, Labels, E!Serving
<1> QED
  BY <1>1, EventMoves

\* A snapshot shows the seats there are.
LEMMA EventSnapshot ==
    ASSUME E!ContentAssumption, EventInv, NEW r \in Request, NEW j \in ServedRow, j.member \in Member,
           label[r] \in {"idle", "again"}, E!Published, E!Snapshot(r, j),
           UNCHANGED <<version, rsvp, active, club, clubLock, archive>>
    PROVE  EventInv'
<1> DEFINE capacity == version[E!Current].capacity
           full == E!Full(j.member)
           entry == [j EXCEPT !.version = E!Current, !.full = full, !.capacity = capacity]
<1>1. /\ club # "gone" /\ E!Current \in E!Number /\ Stands(version, E!Current)
      /\ version[E!Current].state = "published"
      /\ capacity \in Capacity \cup {E!NoLimit}
      /\ Kept = version
  BY PublishedIsRead
<1>2. full <=> Cardinality(E!Yes \ {j.member}) >= capacity
  BY SameCardinality DEF E!Full
<1>3. full \in BOOLEAN
  BY DEF E!Full
<1>4. Cardinality(E!Yes \ {j.member}) \in Nat /\ capacity \in Nat
  BY <1>1, YesIsFinite, NoLimitIsNumber
<1>5. ~full => Cardinality(E!Yes \ {j.member}) < capacity
  BY <1>2, <1>4
<1>6. E!Moves(r, "claim", entry)
  BY DEF E!Snapshot
<1>7. version[E!Current].capacity = capacity
  OBVIOUS
<1> HIDE DEF capacity, full
<1>8. /\ entry \in ServedRow /\ entry.version = E!Current /\ entry.capacity = capacity
      /\ entry.full = full /\ entry.member = j.member
  BY <1>1, <1>3 DEF ServedRow
<1> HIDE DEF entry
<1>9. "claim" \in Labels
  BY DEF Labels, E!Serving
<1> QED
  BY <1>1, <1>5, <1>6, <1>7, <1>8, <1>9, EventMoves

LEMMA EventPublishes ==
    ASSUME E!ContentAssumption, EventInv, NEW r \in Request, E!Publishes(r)
    PROVE  EventInv'
<1> USE DEF E!clubState
<1>1. ASSUME NEW cap \in Capacity, E!UpdateReads(r, cap) PROVE EventInv'
  <2> DEFINE entry == [E!NoJob EXCEPT !.member = Author, !.capacity = cap, !.version = E!Current]
  <2>1. E!Current \in E!Number
    BY <1>1, PublishedIsRead DEF E!UpdateReads
  <2>2. entry \in ServedRow /\ entry.member = Author /\ Author \in Member
    BY <2>1, EventConstants, NoJobIsServed DEF ServedRow
  <2>3. E!Moves(r, "update", entry) /\ label[r] = "idle"
        /\ UNCHANGED <<version, rsvp, active, club, clubLock, archive>>
    BY <1>1 DEF E!UpdateReads
  <2>4. "update" \in Labels /\ "update" \notin E!Serving
    BY DEF Labels, E!Serving
  <2> HIDE DEF entry
  <2> QED
    BY <2>2, <2>3, <2>4, EventMoves
<1>2. ASSUME NEW by \in Member, E!RemoveReads(r, by) PROVE EventInv'
  <2> DEFINE entry == [E!NoJob EXCEPT !.member = by, !.capacity = version[E!Current].capacity,
                                      !.version = E!Current]
  <2>1. E!Current \in E!Number /\ version[E!Current].capacity \in Capacity \cup {E!NoLimit}
    BY <1>2, PublishedIsRead DEF E!RemoveReads
  <2>2. entry \in ServedRow /\ entry.member = by
    BY <2>1, EventConstants, NoJobIsServed DEF ServedRow
  <2>3. E!Moves(r, "remove", entry) /\ label[r] = "idle"
        /\ UNCHANGED <<version, rsvp, active, club, clubLock, archive>>
    BY <1>2 DEF E!RemoveReads
  <2>4. "remove" \in Labels /\ "remove" \notin E!Serving
    BY DEF Labels, E!Serving
  <2> HIDE DEF entry
  <2> QED
    BY <2>2, <2>3, <2>4, EventMoves
<1>3. ASSUME E!PublishConflicts(r) PROVE EventInv'
  BY <1>3, EventFails DEF E!PublishConflicts
<1>4. ASSUME E!PublishFails(r) PROVE EventInv'
  BY <1>4, EventFails DEF E!PublishFails
<1> QED
  BY <1>1, <1>2, <1>3, <1>4, EventInserts, EventLists, EventCommits DEF E!Publishes

LEMMA EventAnswers ==
    ASSUME E!ContentAssumption, EventInv, NEW r \in Request, E!Answers(r)
    PROVE  EventInv'
<1> USE DEF E!clubState
<1> DEFINE same == UNCHANGED <<version, rsvp, active, club, clubLock, archive>>
<1>1. ASSUME NEW m \in Member, NEW answer \in Asked, E!RsvpBegins(r, m, answer) PROVE EventInv'
  <2> DEFINE entry == [E!NoJob EXCEPT !.member = m, !.answer = answer]
  <2>1. entry \in ServedRow /\ entry.member = m
    BY EventConstants, NoJobIsServed DEF ServedRow
  <2>2. E!Snapshot(r, entry) /\ label[r] = "idle" /\ E!Published /\ same
    BY <1>1 DEF E!RsvpBegins
  <2> HIDE DEF entry
  <2> QED
    BY <2>1, <2>2, EventSnapshot
<1>2. ASSUME E!RsvpBeginsAgain(r) PROVE EventInv'
  <2>1. label[r] = "again" /\ same /\ (IF E!Published THEN E!Snapshot(r, served[r]) ELSE E!Ends(r))
    BY <1>2 DEF E!RsvpBeginsAgain
  <2>2. served[r] \in ServedRow /\ served[r].member \in Member
    BY <2>1 DEF EventInv, EventTypes, WorkFits
  <2> QED
    BY <2>1, <2>2, EventSnapshot, EventEnds
<1>3. ASSUME E!Claims(r) PROVE EventInv'
  <2>1. CASE E!Busy(r, served[r].member)
    BY <1>3, <2>1, EventFails DEF E!Claims
  <2>2. CASE ~E!Busy(r, served[r].member)
    <3>1. label[r] = "claim" /\ E!Moves(r, "answer", served[r]) /\ same
      BY <1>3, <2>2 DEF E!Claims
    <3>2. /\ label[r] \in E!Serving /\ "answer" \in Labels /\ served[r] \in ServedRow
          /\ served[r].member \in Member
      BY <3>1 DEF EventInv, EventTypes, WorkFits, Labels, E!Serving
    <3>3. /\ served[r].version \in E!Number /\ Stands(Kept, served[r].version)
          /\ Kept[served[r].version].state = "published"
          /\ Kept[served[r].version].capacity = served[r].capacity
          /\ ~served[r].stale /\ ~served[r].full =>
                Cardinality(E!Yes \ {served[r].member}) < served[r].capacity
      BY <3>2 DEF EventInv, WorkFits, SeatsFit
    <3> QED
      BY <3>1, <3>2, <3>3, EventMoves
  <2> QED
    BY <2>1, <2>2
<1>4. ASSUME E!RsvpIsSame(r) PROVE EventInv'
  BY <1>4, EventEnds DEF E!RsvpIsSame
<1>5. ASSUME E!RsvpInserts(r) PROVE EventInv'
  <2>1. label[r] = "answer" /\ E!Exists /\ E!Moves(r, "answered", served[r]) /\ same
    BY <1>5 DEF E!RsvpInserts
  <2>2. /\ label[r] \in E!Serving /\ "answered" \in Labels /\ served[r] \in ServedRow
        /\ served[r].member \in Member
    BY <2>1 DEF EventInv, EventTypes, WorkFits, Labels, E!Serving
  <2>3. /\ served[r].version \in E!Number /\ Stands(Kept, served[r].version)
        /\ Kept[served[r].version].state = "published"
        /\ Kept[served[r].version].capacity = served[r].capacity
        /\ ~served[r].stale /\ ~served[r].full =>
              Cardinality(E!Yes \ {served[r].member}) < served[r].capacity
    BY <2>2 DEF EventInv, WorkFits, SeatsFit
  <2>4. club # "gone"
    BY <2>1, ExistsHere DEF EventInv
  <2> QED
    BY <2>1, <2>2, <2>3, <2>4, EventMoves
<1>6. ASSUME E!RsvpConflicts(r) PROVE EventInv'
  BY <1>6, EventFails DEF E!RsvpConflicts
<1>7. ASSUME E!RsvpRetries(r) PROVE EventInv'
  <2>1. label[r] = "answered" /\ served[r] \in ServedRow
    BY <1>7 DEF E!RsvpRetries, EventInv, EventTypes
  <2>2. CASE served[r].attempt < Retries
    <3> DEFINE entry == [E!NoJob EXCEPT !.member = served[r].member, !.answer = served[r].answer,
                                        !.attempt = served[r].attempt + 1]
    <3>1. served[r].attempt + 1 \in 0..Retries /\ served[r].member \in Member
      BY <2>1, <2>2, EventConstants DEF EventInv, WorkFits, ServedRow
    <3>2. entry \in ServedRow /\ entry.member \in Member
      BY <2>1, <3>1, EventConstants, NoJobIsServed DEF ServedRow
    <3>3. E!Moves(r, "again", entry) /\ same
      BY <1>7, <2>2 DEF E!RsvpRetries
    <3>4. "again" \in Labels /\ "again" \notin E!Serving
      BY DEF Labels, E!Serving
    <3> HIDE DEF entry
    <3> QED
      BY <2>1, <3>2, <3>3, <3>4, EventMoves
  <2>3. CASE ~(served[r].attempt < Retries)
    BY <1>7, <2>3, EventFails DEF E!RsvpRetries
  <2> QED
    BY <2>2, <2>3
<1>8. ASSUME E!AnswerFails(r) PROVE EventInv'
  BY <1>8, EventFails DEF E!AnswerFails
<1>9. ASSUME NEW m \in Member, E!CancelBegins(r, m) PROVE EventInv'
  <2> DEFINE entry == [E!NoJob EXCEPT !.member = m]
  <2>1. entry \in ServedRow /\ entry.member = m
    BY EventConstants, NoJobIsServed DEF ServedRow
  <2>2. E!Moves(r, "cancel", entry) /\ label[r] = "idle" /\ same
    BY <1>9 DEF E!CancelBegins
  <2>3. "cancel" \in Labels /\ "cancel" \notin E!Serving
    BY DEF Labels, E!Serving
  <2> HIDE DEF entry
  <2> QED
    BY <2>1, <2>2, <2>3, EventMoves
<1>10. ASSUME E!CancelIsSame(r) PROVE EventInv'
  BY <1>10, EventEnds DEF E!CancelIsSame
<1> QED
  BY <1>1, <1>2, <1>3, <1>4, <1>5, <1>6, <1>7, <1>8, <1>9, <1>10, EventAnswered, EventCancelled
     DEF E!Answers

-----------------------------------------------------------------------------
(* The invariant.                                                          *)

LEMMA EventInit ==
    ASSUME E!ContentAssumption, E!Init
    PROVE  EventInv
<1> USE EventConstants
<1>1. PICK cap \in Capacity :
         version = [n \in E!Number |-> IF n = 1 THEN [E!NoVersion EXCEPT !.state = "published",
                                                       !.capacity = cap, !.by = Author]
                                                ELSE E!NoVersion]
  BY DEF E!Init
<1>2. /\ rsvp = [m \in Member |-> E!NoAnswer] /\ active = Member
      /\ club = "live" /\ clubLock = Nobody /\ archive = E!NoArchive
      /\ label = [r \in Request |-> "idle"] /\ served = [r \in Request |-> E!NoJob]
  BY DEF E!Init
<1>3. /\ \A n \in E!Number : version[n] \in VersionRow
      /\ \A n \in E!Number : n # 1 => version[n] = E!NoVersion
      /\ version[1].state = "published" /\ version[1].owner = Nobody
      /\ version[1].capacity = cap /\ version[1].by = Author
      /\ \A n \in E!Number : version[n].owner = Nobody
  BY <1>1 DEF E!NoVersion, VersionRow
<1>4. E!Yes = {} /\ \A m \in Member : ~E!Live(m)
  BY <1>2 DEF E!Yes, E!Live, E!NoAnswer
<1>5. EventTypes
  <2>1. E!NoArchive \in [version : [E!Number -> VersionRow], rsvp : [Member -> AnswerRow]]
    BY DEF E!NoArchive, VersionRow, AnswerRow, E!NoVersion, E!NoAnswer, E!Answer
  <2>2. version \in [E!Number -> VersionRow]
    BY <1>1, <1>3
  <2>3. rsvp \in [Member -> AnswerRow]
    BY <1>2 DEF AnswerRow, E!NoAnswer, E!Answer
  <2>4. E!NoJob \in ServedRow
    BY NoJobIsServed
  <2> QED
    BY <1>2, <2>1, <2>2, <2>3, <2>4 DEF EventTypes
<1>6. VersionsFit
  <2>1. \A n \in 1..1 : n = 1
    OBVIOUS
  <2>2. Numbered(version, 1)
    BY <1>3, <2>1 DEF Numbered, Stands
  <2> QED
    BY <1>2, <2>2 DEF VersionsFit, Kept
<1>7. WorkFits
  BY <1>2, <1>3 DEF WorkFits, E!Serving
<1>8. RemovalFits /\ SeatsFit /\ AnswersFit /\ E!AttendeesInformed /\ ListsFit
  BY <1>2, <1>4 DEF RemovalFits, SeatsFit, AnswersFit, E!AttendeesInformed, ListsFit, E!Serving
<1>9. Seated
  <2>1. Cardinality(E!Yes) = 0 /\ version[1].capacity \in Nat
    BY <1>3, <1>4, FS_EmptySet
  <2> QED
    BY <1>3, <2>1 DEF Seated, Stands
<1> QED
  BY <1>5, <1>6, <1>7, <1>8, <1>9 DEF EventInv

LEMMA EventInduction ==
    ASSUME E!ContentAssumption, EventInv, [E!Next]_(E!vars)
    PROVE  EventInv'
<1>1. CASE UNCHANGED E!vars
  <2>1. UNCHANGED <<version, rsvp, active, club, clubLock, archive, label, served>>
    BY <1>1 DEF E!vars
  <2>2. E!Yes' = E!Yes /\ E!Current' = E!Current /\ Kept' = Kept
    BY <2>1 DEF E!Yes, E!Current, E!Committed, Kept
  <2>3. EventTypes' /\ VersionsFit' /\ WorkFits' /\ RemovalFits'
    BY <2>1, <2>2 DEF EventInv, EventTypes, VersionsFit, WorkFits, RemovalFits, Stands, Numbered
  <2>4. SeatsFit' /\ Seated' /\ AnswersFit' /\ E!AttendeesInformed' /\ ListsFit'
    BY <2>1, <2>2 DEF EventInv, SeatsFit, Seated, AnswersFit, ListsFit, Stands, E!AttendeesInformed,
                      E!Exists, E!Live
  <2> QED
    BY <2>3, <2>4 DEF EventInv
<1>2. ASSUME NEW r \in Request, E!Abort(r) PROVE EventInv'
  BY <1>2, EventFails DEF E!Abort
<1>3. ASSUME NEW r \in Request, E!Removal(r) PROVE EventInv'
  BY <1>3, EventArchiveIsRead, EventDeleted DEF E!Removal
<1> QED
  BY <1>1, <1>2, <1>3, EventPublishes, EventAnswers, EventArchived, EventRestored, EventMembersChange
     DEF E!Next

LEMMA EventInvariance ==
    ASSUME E!ContentAssumption
    PROVE  E!Spec => []EventInv
<1>1. E!Init => EventInv
  BY EventInit
<1>2. EventInv /\ [E!Next]_(E!vars) => EventInv'
  BY EventInduction
<1> QED
  BY <1>1, <1>2, PTL DEF E!Spec

\* Type correctness of the event.
THEOREM EventsTypeCorrect ==
    ASSUME E!ContentAssumption
    PROVE  E!Spec => []E!TypeOK
<1>1. EventInv => E!TypeOK
  <2> SUFFICES ASSUME EventInv PROVE E!TypeOK
    OBVIOUS
  <2>1. \A r \in Request : served[r].attempt \in 0..Retries /\ served[r].member \in Member \cup {Nobody}
    BY DEF EventInv, EventTypes, ServedRow
  <2>2. Retries \in Nat /\ E!None = 0
    BY EventConstants
  <2>3. DOMAIN archive = {"version", "rsvp"}
    BY DEF EventInv, EventTypes
  <2>4. \A r \in Request : served[r].attempt <= Retries
    BY <2>1, <2>2
  <2> QED
    BY <2>1, <2>2, <2>3, <2>4 DEF EventInv, EventTypes, VersionRow, AnswerRow, E!TypeOK
<1> QED
  BY <1>1, EventInvariance, PTL

\* However many members answer at once, and whatever the author does to the capacity meanwhile,
\* an event has at most as many attendees as the most seats it ever had: what a transaction
\* counts is refused as soon as another answer commits, and a request that is not refused read a
\* version that was published (clubs/events.ts:369).
THEOREM EventsAreNotOverbooked ==
    ASSUME E!ContentAssumption
    PROVE  E!Spec => []E!NoOverbooking
<1>1. EventInv => E!NoOverbooking
  <2> SUFFICES ASSUME EventInv, E!Exists, E!NoLimit \notin E!Limits
               PROVE  \E limit \in E!Limits : E!Cardinality(E!Yes) <= limit
    BY DEF E!NoOverbooking
  <2>1. PICK n \in E!Number : /\ Stands(version, n) /\ version[n].state = "published"
                              /\ version[n].capacity = E!NoLimit \/ Cardinality(E!Yes) <= version[n].capacity
    BY DEF EventInv, Seated
  <2>2. version[n].capacity \in E!Limits
    BY <2>1 DEF E!Limits
  <2>3. Cardinality(E!Yes) <= version[n].capacity /\ E!Cardinality(E!Yes) = Cardinality(E!Yes)
    BY <2>1, <2>2, SameCardinality
  <2> QED
    BY <2>2, <2>3
<1> QED
  BY <1>1, EventInvariance, PTL

\* Nobody keeps an answer to an event that has changed without having been told of the change,
\* having made it, or having answered while it was made, but for those who held their answer
\* outside the club when the attendees were listed (content.ts:1044).
THEOREM AttendeesAreInformed ==
    ASSUME E!ContentAssumption
    PROVE  E!Spec => []E!AttendeesInformed
<1>1. EventInv => E!AttendeesInformed
  BY DEF EventInv
<1> QED
  BY <1>1, EventInvariance, PTL

\* The archive of a club that is removed holds what the removal deletes, whatever commits between
\* the payload and the deletion (identity/clubs.ts:970).
THEOREM ArchivesAreComplete ==
    ASSUME E!ContentAssumption
    PROVE  E!Spec => E!ArchiveComplete
<1> DEFINE Whole == /\ archive.version = version
                    /\ \A m \in Member \ {Author} : archive.rsvp[m].answer = rsvp[m].answer
<1>1. ASSUME EventInv, E!Next, club # "gone", club' = "gone"
      PROVE  Whole
  <2>1. ASSUME NEW r \in Request, E!RemovalDeletes(r) PROVE Whole
    BY <1>1, <2>1, ArchiveIsWhole
  <2>2. ASSUME NEW r \in Request, E!Publishes(r) PROVE club' = club
    BY <2>2 DEF E!Publishes, E!UpdateReads, E!RemoveReads, E!PublishInserts, E!PublishConflicts, E!Lists,
                E!PublishCommits, E!PublishFails, E!Fails, E!clubState
  <2>3. ASSUME NEW r \in Request, E!Answers(r) PROVE club' = club
    BY <2>3 DEF E!Answers, E!RsvpBegins, E!RsvpBeginsAgain, E!Claims, E!RsvpIsSame, E!RsvpInserts,
                E!RsvpConflicts, E!RsvpCommits, E!RsvpRetries, E!AnswerFails, E!CancelBegins,
                E!CancelCommits, E!CancelIsSame, E!Fails, E!clubState
  <2>4. ASSUME NEW r \in Request, E!RemovalReads(r) \/ E!Abort(r) PROVE club' = club
    BY <2>4 DEF E!RemovalReads, E!Abort, E!Fails
  <2>5. ASSUME NEW m \in Member, E!Leave(m) \/ E!Return(m) PROVE club' = club
    BY <2>5 DEF E!Leave, E!Return, E!clubState
  <2>6. E!ArchiveClub \/ E!Restore => club' # "gone"
    BY DEF E!ArchiveClub, E!Restore
  <2> QED
    BY <1>1, <2>1, <2>2, <2>3, <2>4, <2>5, <2>6 DEF E!Next, E!Removal
<1>2. EventInv /\ [E!Next]_(E!vars) =>
         [club # "gone" /\ club' = "gone" => Whole]_(E!vars)
  BY <1>1
<1> QED
  BY <1>2, EventInvariance, PTL DEF E!Spec, E!ArchiveComplete
=============================================================================
