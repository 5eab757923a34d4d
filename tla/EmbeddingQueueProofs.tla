------------------------- MODULE EmbeddingQueueProofs ------------------------
(***************************************************************************)
(* Proofs about the embedding queue, for any contents, versions, texts and *)
(* clubs.  Types and the shape of a worker's locals hold for any number of *)
(* workers; the index is consistent when there is one, which is how the    *)
(* worker is deployed.                                                     *)
(***************************************************************************)
EXTENDS EmbeddingQueue, TLAPS

-----------------------------------------------------------------------------
(* Types.                                                                  *)

QueueTypeOK ==
    /\ state \in [Job -> JobState]
    /\ attempts \in [Job -> Nat]
    /\ due \in SUBSET Job

LocalsTypeOK ==
    /\ pc \in [Worker -> Label]
    /\ batch \in [Worker -> SUBSET Job]
    /\ reclaimed \in [Worker -> SUBSET Job]
    /\ stale \in [Worker -> SUBSET Job]
    /\ ready \in [Worker -> SUBSET Job]
    /\ same \in [Worker -> SUBSET Job]
    /\ group \in [Worker -> SUBSET Job]
    /\ done \in [Worker -> SUBSET Job]

RestTypeOK ==
    /\ version \in [Content -> 0..MaxVersion]
    /\ artifact \in [Content -> Artifact]
    /\ selected \in SUBSET Job
    /\ faults \in 0..MaxFaults

\* TypeOK in the three parts a step is shown to keep one by one.
LEMMA TypeParts == TypeOK <=> QueueTypeOK /\ LocalsTypeOK /\ RestTypeOK
BY DEF TypeOK, QueueTypeOK, LocalsTypeOK, RestTypeOK

\* A job is a content and a positive version number.
LEMMA JobParts ==
    ASSUME NEW j \in Job
    PROVE  j[1] \in Content /\ j[2] \in 1..MaxVersion /\ j = <<j[1], j[2]>>
BY DEF Job

\* What the statements on the queue leave is a queue.
LEMMA QueueStep ==
    ASSUME QueueTypeOK, NEW jobs \in SUBSET Job, NEW others \in SUBSET Job,
           \/ \E j \in Job : Enqueue(j)
           \/ CompleteJobs(jobs)
           \/ RetryJobs(jobs)
           \/ ReleaseJobs(jobs)
           \/ BlockJobsByBudget(jobs, others)
           \/ UNCHANGED queue
    PROVE  QueueTypeOK'
<1> USE DEF QueueTypeOK, JobState, Waiting
<1>1. ASSUME NEW j \in Job, Enqueue(j) PROVE QueueTypeOK'
  BY <1>1 DEF Enqueue, queue
<1>2. CASE CompleteJobs(jobs)
  BY <1>2 DEF CompleteJobs
<1>3. CASE RetryJobs(jobs)
  BY <1>3 DEF RetryJobs, Rows
<1>4. CASE ReleaseJobs(jobs)
  BY <1>4 DEF ReleaseJobs, Rows, OneLess
<1>5. CASE BlockJobsByBudget(jobs, others)
  BY <1>5 DEF BlockJobsByBudget, Rows, OneLess
<1> QED
  BY <1>1, <1>2, <1>3, <1>4, <1>5 DEF queue

\* What a return or a continuation leaves are locals.
LEMMA LocalsStep ==
    ASSUME LocalsTypeOK, NEW w \in Worker, NEW jobs \in SUBSET Job,
           NEW label \in Label,
           Return(w) \/ ContinueWith(w, jobs, label)
    PROVE  LocalsTypeOK'
<1>1. CASE Return(w)
  BY <1>1 DEF Return, LocalsTypeOK, Goto, Label
<1>2. CASE ContinueWith(w, jobs, label) /\ ~Return(w)
  BY <1>2 DEF ContinueWith, LocalsTypeOK, Goto
<1> QED
  BY <1>1, <1>2

\* Every step of a writer, of the backfill, of time or of a worker keeps TypeOK.
LEMMA TypeInduction == TypeOK /\ [Next]_vars => TypeOK'
<1> SUFFICES ASSUME QueueTypeOK, LocalsTypeOK, RestTypeOK, [Next]_vars
             PROVE  QueueTypeOK' /\ LocalsTypeOK' /\ RestTypeOK'
  BY TypeParts, PTL
<1> USE ContentAssumption, JobParts
<1>1. ASSUME NEW c \in Content, Publish(c) PROVE QueueTypeOK' /\ LocalsTypeOK' /\ RestTypeOK'
  <2>1. <<c, version[c] + 1>> \in Job /\ version' \in [Content -> 0..MaxVersion]
    BY <1>1 DEF Publish, RestTypeOK, Job
  <2> QED
    BY <1>1, <2>1, QueueStep DEF Publish, RestTypeOK, LocalsTypeOK, locals
<1>2. CASE BackfillSelect
  BY <1>2 DEF BackfillSelect, RestTypeOK, LocalsTypeOK, QueueTypeOK, locals, queue
<1>3. ASSUME NEW j \in Job, BackfillEnqueue(j) PROVE QueueTypeOK' /\ LocalsTypeOK' /\ RestTypeOK'
  BY <1>3, QueueStep DEF BackfillEnqueue, RestTypeOK, LocalsTypeOK, locals
<1>4. ASSUME NEW j \in Job, TimePasses(j) PROVE QueueTypeOK' /\ LocalsTypeOK' /\ RestTypeOK'
  BY <1>4 DEF TimePasses, RestTypeOK, LocalsTypeOK, QueueTypeOK, locals, subject
<1>5. ASSUME NEW w \in Worker, Claim(w) PROVE QueueTypeOK' /\ LocalsTypeOK' /\ RestTypeOK'
  <2>1. PICK jobs \in SUBSET Claimable :
          /\ attempts' = [j \in Job |-> IF j \in jobs /\ Counted(j)
                                        THEN attempts[j] + 1 ELSE attempts[j]]
          /\ state' = [j \in Job |-> IF j \in jobs THEN "queued" ELSE state[j]]
          /\ due' = due \ jobs
          /\ batch' = [batch EXCEPT ![w] = jobs]
          /\ reclaimed' = [reclaimed EXCEPT ![w] = {j \in jobs : ~Counted(j)}]
    BY <1>5 DEF Claim
  <2>2. jobs \in SUBSET Job
    BY DEF Claimable, QueueTypeOK
  <2>3. QueueTypeOK'
    BY <2>1, <2>2 DEF QueueTypeOK, JobState, Waiting
  <2>4. LocalsTypeOK'
    BY <1>5, <2>1, <2>2 DEF Claim, Goto, LocalsTypeOK, Label
  <2> QED
    BY <1>5, <2>3, <2>4 DEF Claim, RestTypeOK, subject
<1>6. ASSUME NEW w \in Worker, NEW j \in Job, Load(w, j)
      PROVE  QueueTypeOK' /\ LocalsTypeOK' /\ RestTypeOK'
  BY <1>6 DEF Load, RestTypeOK, LocalsTypeOK, QueueTypeOK, queue, subject
<1>7. ASSUME NEW w \in Worker, DropStale(w) PROVE QueueTypeOK' /\ LocalsTypeOK' /\ RestTypeOK'
  <2>1. stale[w] \in SUBSET Job /\ ready[w] \in SUBSET Job /\ "empty" \in Label
    BY DEF LocalsTypeOK, Label
  <2> QED
    BY <1>7, <2>1, QueueStep, LocalsStep DEF DropStale, RestTypeOK, subject
<1>8. ASSUME NEW w \in Worker, DropEmpty(w) PROVE QueueTypeOK' /\ LocalsTypeOK' /\ RestTypeOK'
  <2> DEFINE empty == {j \in ready[w] : TextOf[j] = Empty}
  <2>1. empty \in SUBSET Job /\ (ready[w] \ empty) \in SUBSET Job /\ "hashes" \in Label
    BY DEF LocalsTypeOK, Label
  <2>2. CompleteJobs(empty) /\ ContinueWith(w, ready[w] \ empty, "hashes")
    BY <1>8 DEF DropEmpty
  <2> HIDE DEF empty
  <2> QED
    BY <1>8, <2>1, <2>2, QueueStep, LocalsStep DEF DropEmpty, RestTypeOK, subject
<1>9. ASSUME NEW w \in Worker, LoadHashes(w) PROVE QueueTypeOK' /\ LocalsTypeOK' /\ RestTypeOK'
  BY <1>9 DEF LoadHashes, RestTypeOK, LocalsTypeOK, QueueTypeOK, queue, subject, Goto, Label
<1>10. ASSUME NEW w \in Worker, NEW j \in Job, AdvanceArtifact(w, j)
       PROVE  QueueTypeOK' /\ LocalsTypeOK' /\ RestTypeOK'
  <2>1. artifact' \in [Content -> Artifact]
    BY <1>10 DEF AdvanceArtifact, RestTypeOK, Artifact
  <2> QED
    BY <1>10, <2>1 DEF AdvanceArtifact, RestTypeOK, LocalsTypeOK, QueueTypeOK, queue, subject
<1>11. ASSUME NEW w \in Worker, CompleteUnchanged(w)
       PROVE  QueueTypeOK' /\ LocalsTypeOK' /\ RestTypeOK'
  <2>1. done[w] \in SUBSET Job /\ (ready[w] \ done[w]) \in SUBSET Job /\ "club" \in Label
    BY DEF LocalsTypeOK, Label
  <2> QED
    BY <1>11, <2>1, QueueStep, LocalsStep DEF CompleteUnchanged, RestTypeOK, subject
<1>12. ASSUME NEW w \in Worker, NEW club \in Club, ReserveGranted(w, club)
       PROVE  QueueTypeOK' /\ LocalsTypeOK' /\ RestTypeOK'
  BY <1>12 DEF ReserveGranted, ReadyOf, RestTypeOK, LocalsTypeOK, QueueTypeOK, queue,
     subject, Goto, Label
<1>13. ASSUME NEW w \in Worker, NEW club \in Club, ReserveRefused(w, club)
       PROVE  QueueTypeOK' /\ LocalsTypeOK' /\ RestTypeOK'
  <2> DEFINE jobs == ReadyOf(w, club)
  <2>1. /\ (jobs \ reclaimed[w]) \in SUBSET Job
        /\ (jobs \cap reclaimed[w]) \in SUBSET Job
        /\ (ready[w] \ jobs) \in SUBSET Job
        /\ "club" \in Label
    BY DEF LocalsTypeOK, Label, ReadyOf
  <2>2. /\ BlockJobsByBudget(jobs \ reclaimed[w], jobs \cap reclaimed[w])
        /\ ContinueWith(w, ready[w] \ jobs, "club")
    BY <1>13 DEF ReserveRefused
  <2> HIDE DEF jobs
  <2>3. QueueTypeOK'
    BY <2>1, <2>2, QueueStep
  <2>4. LocalsTypeOK'
    BY <2>1, <2>2, LocalsStep
  <2> QED
    BY <1>13, <2>3, <2>4 DEF ReserveRefused, RestTypeOK, subject
<1>14. ASSUME NEW w \in Worker, EmbedSucceeds(w) PROVE QueueTypeOK' /\ LocalsTypeOK' /\ RestTypeOK'
  BY <1>14 DEF EmbedSucceeds, RestTypeOK, LocalsTypeOK, QueueTypeOK, queue, subject,
     locals, Goto, Label
<1>15. ASSUME NEW w \in Worker, NEW kind \in ProviderFailure, EmbedFails(w, kind)
       PROVE  QueueTypeOK' /\ LocalsTypeOK' /\ RestTypeOK'
  <2>1. kind \in Label
    BY DEF Label
  <2>2. faults' \in 0..MaxFaults
    BY <1>15, WorkerAssumption DEF EmbedFails, Fault, RestTypeOK
  <2> QED
    BY <1>15, <2>1, <2>2 DEF EmbedFails, RestTypeOK, LocalsTypeOK, QueueTypeOK, queue,
       subject, locals, Goto
<1>16. ASSUME NEW w \in Worker, HandleTransient(w) PROVE QueueTypeOK' /\ LocalsTypeOK' /\ RestTypeOK'
  <2>1. group[w] \in SUBSET Job /\ (ready[w] \ group[w]) \in SUBSET Job /\ "club" \in Label
    BY DEF LocalsTypeOK, Label
  <2> QED
    BY <1>16, <2>1, QueueStep, LocalsStep DEF HandleTransient, RestTypeOK, subject
<1>17. ASSUME NEW w \in Worker, HandleWork(w) \/ HandleFatal(w)
       PROVE  QueueTypeOK' /\ LocalsTypeOK' /\ RestTypeOK'
  <2>1. group[w] \in SUBSET Job /\ "idle" \in Label
    BY DEF LocalsTypeOK, Label
  <2> QED
    BY <1>17, <2>1, QueueStep, LocalsStep DEF HandleWork, HandleFatal, RestTypeOK, subject
<1>18. ASSUME NEW w \in Worker, NEW j \in Job, InsertArtifact(w, j)
       PROVE  QueueTypeOK' /\ LocalsTypeOK' /\ RestTypeOK'
  <2>1. artifact' \in [Content -> Artifact]
    BY <1>18 DEF InsertArtifact, Stored, RestTypeOK, Artifact
  <2> QED
    BY <1>18, <2>1 DEF InsertArtifact, RestTypeOK, LocalsTypeOK, QueueTypeOK, queue, subject
<1>19. ASSUME NEW w \in Worker, NEW j \in Job, InsertFails(w, j)
       PROVE  QueueTypeOK' /\ LocalsTypeOK' /\ RestTypeOK'
  <2>1. faults' \in 0..MaxFaults
    BY <1>19, WorkerAssumption DEF InsertFails, Fault, RestTypeOK
  <2>2. QueueTypeOK'
    BY <1>19, QueueStep DEF InsertFails
  <2> QED
    BY <1>19, <2>1, <2>2 DEF InsertFails, RestTypeOK, LocalsTypeOK, subject
<1>20. ASSUME NEW w \in Worker, CompleteInserted(w)
       PROVE  QueueTypeOK' /\ LocalsTypeOK' /\ RestTypeOK'
  <2>1. done[w] \in SUBSET Job /\ ready[w] \in SUBSET Job /\ "club" \in Label
    BY DEF LocalsTypeOK, Label
  <2> QED
    BY <1>20, <2>1, QueueStep, LocalsStep DEF CompleteInserted, Completed, RestTypeOK, subject
<1>21. ASSUME NEW w \in Worker, Abandon(w) PROVE QueueTypeOK' /\ LocalsTypeOK' /\ RestTypeOK'
  <2>1. faults' \in 0..MaxFaults
    BY <1>21, WorkerAssumption DEF Abandon, Fault, RestTypeOK
  <2>2. LocalsTypeOK'
    BY <1>21, LocalsStep DEF Abandon, Label
  <2> QED
    BY <1>21, <2>1, <2>2 DEF Abandon, RestTypeOK, QueueTypeOK, queue, subject
<1>22. CASE UNCHANGED vars
  BY <1>22 DEF vars, RestTypeOK, LocalsTypeOK, QueueTypeOK
<1> QED
  BY <1>1, <1>2, <1>3, <1>4, <1>5, <1>6, <1>7, <1>8, <1>9, <1>10, <1>11, <1>12, <1>13,
     <1>14, <1>15, <1>16, <1>17, <1>18, <1>19, <1>20, <1>21, <1>22 DEF Next, Work

\* TypeCorrect: every variable has its type, for any number of workers.
THEOREM TypeCorrect == Spec => []TypeOK
<1>1. Init => TypeOK
  BY ContentAssumption, WorkerAssumption
     DEF Init, TypeOK, NoArtifact, Artifact, JobState, Label
<1> QED
  BY <1>1, TypeInduction, PTL DEF Spec

-----------------------------------------------------------------------------
(* What a worker holds at each label.                                      *)

Shape(w) ==
    /\ pc[w] = "idle" => ready[w] = {} /\ batch[w] = {}
    /\ pc[w] \in {"idle", "load", "empty", "hashes", "club"} =>
         same[w] = {} /\ done[w] = {}
    /\ pc[w] \in {"idle", "empty", "hashes", "advance", "club", "embed", "insert"}
                   \cup ProviderFailure => stale[w] = {}
    /\ pc[w] \in {"embed", "insert"} \cup ProviderFailure =>
         group[w] \subseteq ready[w] /\ same[w] = {}
    /\ same[w] \subseteq ready[w]

ShapeInv == \A w \in Worker : Shape(w)

\* A return or a continuation at a loop label has the shape of its label.
LEMMA ShapeOfContinuation ==
    ASSUME LocalsTypeOK, NEW w \in Worker, NEW jobs \in SUBSET Job,
           NEW label \in {"empty", "hashes", "club"},
           same[w] = {},
           Return(w) \/ ContinueWith(w, jobs, label)
    PROVE  Shape(w)'
<1>1. CASE Return(w)
  BY <1>1 DEF Return, LocalsTypeOK, Goto, Shape, ProviderFailure
<1>2. CASE ContinueWith(w, jobs, label) /\ ~Return(w)
  BY <1>2 DEF ContinueWith, LocalsTypeOK, Goto, Shape, ProviderFailure
<1> QED
  BY <1>1, <1>2

\* A step of one worker leaves the locals of the others alone.
LEMMA OthersKept ==
    ASSUME LocalsTypeOK, NEW w \in Worker, NEW v \in Worker, v # w,
           \/ Work(w)
           \/ \E kind \in ProviderFailure : EmbedFails(w, kind)
           \/ \E j \in Job : InsertFails(w, j)
           \/ Abandon(w)
    PROVE  /\ pc'[v] = pc[v] /\ batch'[v] = batch[v] /\ stale'[v] = stale[v]
           /\ ready'[v] = ready[v] /\ same'[v] = same[v] /\ group'[v] = group[v]
           /\ done'[v] = done[v]
<1> USE DEF LocalsTypeOK, Goto, locals
<1>1. CASE Claim(w)
  BY <1>1 DEF Claim
<1>2. ASSUME NEW j \in Job, Load(w, j) \/ AdvanceArtifact(w, j) \/ InsertArtifact(w, j)
              \/ InsertFails(w, j)
      PROVE  /\ pc'[v] = pc[v] /\ batch'[v] = batch[v] /\ stale'[v] = stale[v]
             /\ ready'[v] = ready[v] /\ same'[v] = same[v] /\ group'[v] = group[v]
             /\ done'[v] = done[v]
  BY <1>2 DEF Load, AdvanceArtifact, InsertArtifact, InsertFails
<1>3. CASE LoadHashes(w)
  BY <1>3 DEF LoadHashes
<1>4. ASSUME NEW club \in Club, ReserveGranted(w, club)
      PROVE  /\ pc'[v] = pc[v] /\ batch'[v] = batch[v] /\ stale'[v] = stale[v]
             /\ ready'[v] = ready[v] /\ same'[v] = same[v] /\ group'[v] = group[v]
             /\ done'[v] = done[v]
  BY <1>4 DEF ReserveGranted
<1>5. CASE EmbedSucceeds(w) \/ \E kind \in ProviderFailure : EmbedFails(w, kind)
  BY <1>5 DEF EmbedSucceeds, EmbedFails
<1>6. CASE Return(w)
  BY <1>6 DEF Return
<1>7. ASSUME NEW jobs, NEW label, ContinueWith(w, jobs, label)
      PROVE  /\ pc'[v] = pc[v] /\ batch'[v] = batch[v] /\ stale'[v] = stale[v]
             /\ ready'[v] = ready[v] /\ same'[v] = same[v] /\ group'[v] = group[v]
             /\ done'[v] = done[v]
  BY <1>6, <1>7 DEF ContinueWith
<1> QED
  BY <1>1, <1>2, <1>3, <1>4, <1>5, <1>6, <1>7 DEF Work, DropStale, DropEmpty,
     CompleteUnchanged, ReserveRefused, HandleTransient, HandleWork, HandleFatal,
     CompleteInserted, Abandon

\* Every step keeps ShapeInv: the locals of a worker fit its label.
LEMMA ShapeInduction == TypeOK /\ ShapeInv /\ [Next]_vars => ShapeInv'
<1> SUFFICES ASSUME TypeOK, ShapeInv, [Next]_vars PROVE ShapeInv'
  OBVIOUS
<1>0. LocalsTypeOK
  BY TypeParts
<1>1. ASSUME NEW w \in Worker,
             \/ Work(w)
             \/ \E kind \in ProviderFailure : EmbedFails(w, kind)
             \/ \E j \in Job : InsertFails(w, j)
             \/ Abandon(w)
      PROVE  ShapeInv'
  <2>1. ASSUME NEW v \in Worker, v # w PROVE Shape(v)'
    BY <1>0, <1>1, <2>1, OthersKept DEF ShapeInv, Shape
  <2>2. Shape(w)
    BY DEF ShapeInv
  <2>3. ASSUME Claim(w) PROVE Shape(w)'
    BY <1>0, <2>2, <2>3 DEF Claim, Shape, LocalsTypeOK, Goto, ProviderFailure
  <2>4. ASSUME NEW j \in Job, Load(w, j) PROVE Shape(w)'
    BY <1>0, <2>2, <2>4 DEF Load, Shape, LocalsTypeOK, ProviderFailure
  <2>5. ASSUME NEW j \in Job, AdvanceArtifact(w, j) PROVE Shape(w)'
    BY <1>0, <2>2, <2>5 DEF AdvanceArtifact, Shape, LocalsTypeOK, ProviderFailure
  <2>6. ASSUME NEW j \in Job, InsertArtifact(w, j) \/ InsertFails(w, j) PROVE Shape(w)'
    BY <1>0, <2>2, <2>6 DEF InsertArtifact, InsertFails, Shape, LocalsTypeOK, ProviderFailure
  <2>7. ASSUME DropStale(w) PROVE Shape(w)'
    <3>1. ready[w] \in SUBSET Job /\ same[w] = {}
      BY <1>0, <2>2, <2>7 DEF DropStale, Shape, LocalsTypeOK
    <3> QED
      BY <1>0, <2>7, <3>1, ShapeOfContinuation DEF DropStale
  <2>8. ASSUME DropEmpty(w) PROVE Shape(w)'
    <3>1. same[w] = {}
      BY <2>2, <2>8 DEF DropEmpty, Shape
    <3>2. PICK jobs \in SUBSET Job : ContinueWith(w, jobs, "hashes")
      BY <1>0, <2>8 DEF DropEmpty, LocalsTypeOK
    <3> QED
      BY <1>0, <3>1, <3>2, ShapeOfContinuation
  <2>9. ASSUME LoadHashes(w) PROVE Shape(w)'
    BY <1>0, <2>2, <2>9 DEF LoadHashes, Shape, LocalsTypeOK, Goto, ProviderFailure
  <2>10. ASSUME CompleteUnchanged(w) PROVE Shape(w)'
    <3>1. PICK jobs \in SUBSET Job : ContinueWith(w, jobs, "club")
      BY <1>0, <2>10 DEF CompleteUnchanged, LocalsTypeOK
    <3> QED
      BY <1>0, <2>10, <3>1, ShapeOfContinuation DEF CompleteUnchanged
  <2>11. ASSUME NEW club \in Club, ReserveGranted(w, club) PROVE Shape(w)'
    BY <1>0, <2>2, <2>11 DEF ReserveGranted, ReadyOf, Shape, LocalsTypeOK, Goto, ProviderFailure
  <2>12. ASSUME NEW club \in Club, ReserveRefused(w, club) PROVE Shape(w)'
    <3>1. same[w] = {}
      BY <2>2, <2>12 DEF ReserveRefused, Shape
    <3>2. PICK jobs \in SUBSET Job : ContinueWith(w, jobs, "club")
      BY <1>0, <2>12 DEF ReserveRefused, LocalsTypeOK
    <3> QED
      BY <1>0, <3>1, <3>2, ShapeOfContinuation
  <2>13. ASSUME EmbedSucceeds(w) PROVE Shape(w)'
    BY <1>0, <2>2, <2>13 DEF EmbedSucceeds, Shape, LocalsTypeOK, Goto, ProviderFailure, locals
  <2>14. ASSUME NEW kind \in ProviderFailure, EmbedFails(w, kind) PROVE Shape(w)'
    BY <1>0, <2>2, <2>14 DEF EmbedFails, Shape, LocalsTypeOK, Goto, ProviderFailure, locals
  <2>15. ASSUME HandleTransient(w) PROVE Shape(w)'
    <3>1. same[w] = {}
      BY <2>2, <2>15 DEF HandleTransient, Shape, ProviderFailure
    <3>2. PICK jobs \in SUBSET Job : ContinueWith(w, jobs, "club")
      BY <1>0, <2>15 DEF HandleTransient, LocalsTypeOK
    <3> QED
      BY <1>0, <3>1, <3>2, ShapeOfContinuation
  <2>16. ASSUME Return(w) PROVE Shape(w)'
    BY <1>0, <2>16 DEF Return, LocalsTypeOK, Goto, Shape, ProviderFailure
  <2>17. ASSUME CompleteInserted(w) PROVE Shape(w)'
    <3>1. same[w] = {}
      BY <2>2, <2>17 DEF CompleteInserted, Shape
    <3>2. PICK jobs \in SUBSET Job : ContinueWith(w, jobs, "club")
      BY <1>0, <2>17 DEF CompleteInserted, LocalsTypeOK
    <3> QED
      BY <1>0, <3>1, <3>2, ShapeOfContinuation
  <2>18. Shape(w)'
    BY <1>1, <2>3, <2>4, <2>5, <2>6, <2>7, <2>8, <2>9, <2>10, <2>11, <2>12, <2>13, <2>14,
       <2>15, <2>16, <2>17 DEF Work, HandleWork, HandleFatal, Abandon
  <2> QED
    BY <2>1, <2>18 DEF ShapeInv
<1>2. CASE UNCHANGED <<pc, locals>>
  BY <1>2 DEF ShapeInv, Shape, locals
<1> QED
  BY <1>1, <1>2 DEF Next, Publish, BackfillSelect, BackfillEnqueue, TimePasses, vars, locals

-----------------------------------------------------------------------------
(* One worker.                                                             *)

SingleWorker == \A v, w \in Worker : v = w

\* Nothing is queued, or read by the backfill, before it is published.
RowsInv ==
    \A j \in Job : state[j] # "none" \/ j \in selected => j[2] <= version[j[1]]

\* An artifact is of a published version, and made of its text.
IndexInv ==
    \A c \in Content :
        /\ artifact[c].version <= version[c]
        /\ artifact[c].version > 0 =>
             /\ artifact[c].hash = TextOf[<<c, artifact[c].version>>]
             /\ artifact[c].vector = TextOf[<<c, artifact[c].version>>]

\* A job that was loaded as current is the newest the worker holds of its
\* content, and no artifact is ahead of it.  That is what makes the
\* unconditional upsert safe.
Held(w) ==
    /\ \A j \in batch[w] \cup stale[w] \cup ready[w] \cup done[w] : j[2] <= version[j[1]]
    /\ \A j \in ready[w] \cup done[w], k \in batch[w] \cup ready[w] \cup done[w] :
         k[1] = j[1] => k[2] <= j[2]
    /\ \A j \in ready[w] : artifact[j[1]].version <= j[2]
    /\ \A j \in done[w] : Indexed(j)
    /\ \A j \in same[w] : Unchanged(j)
    /\ \A j \in stale[w] : ~CurrentPublished(j)

SerialInv ==
    /\ RowsInv
    /\ IndexInv
    /\ \A w \in Worker : Held(w)
    /\ NoCurrentForgotten

\* A worker that holds less, while nothing else moves, keeps its invariant.
LEMMA HeldShrinks ==
    ASSUME NEW w \in Worker, Held(w), UNCHANGED <<version, artifact>>,
           batch'[w] \subseteq batch[w], stale'[w] \subseteq stale[w],
           ready'[w] \subseteq ready[w], same'[w] \subseteq same[w],
           done'[w] \subseteq done[w]
    PROVE  Held(w)'
BY DEF Held, Indexed, Unchanged, CurrentPublished

\* The end of every part of the loop only lets go of jobs.
LEMMA ContinuationShrinks ==
    ASSUME LocalsTypeOK, NEW w \in Worker, NEW jobs \in SUBSET ready[w], NEW label,
           Return(w) \/ ContinueWith(w, jobs, label)
    PROVE  /\ batch'[w] \subseteq batch[w] /\ stale'[w] \subseteq stale[w]
           /\ ready'[w] \subseteq ready[w] /\ same'[w] \subseteq same[w]
           /\ done'[w] \subseteq done[w]
<1>1. CASE Return(w)
  BY <1>1 DEF Return, LocalsTypeOK
<1>2. CASE ContinueWith(w, jobs, label) /\ ~Return(w)
  BY <1>2 DEF ContinueWith, LocalsTypeOK
<1> QED
  BY <1>1, <1>2

\* Deleting jobs forgets nothing if each is indexed or not worth finding.
LEMMA DeletionForgetsNothing ==
    ASSUME NoCurrentForgotten, QueueTypeOK, UNCHANGED <<version, artifact>>,
           NEW jobs, CompleteJobs(jobs),
           \A j \in jobs : Indexed(j) \/ ~Searchable(j)
    PROVE  NoCurrentForgotten'
BY DEF NoCurrentForgotten, QueueTypeOK, CompleteJobs, Searchable, CurrentPublished, Indexed

\* Moving rows between the states of a queued job forgets nothing.
LEMMA RowsKept ==
    ASSUME NoCurrentForgotten, UNCHANGED <<version, artifact>>,
           \A j \in Job : state[j] # "none" => state'[j] # "none"
    PROVE  NoCurrentForgotten'
BY DEF NoCurrentForgotten, Searchable, CurrentPublished, Indexed

\* Retrying, releasing and blocking keep exactly the rows there are.
LEMMA SameRows ==
    ASSUME QueueTypeOK, NEW jobs, NEW others,
           RetryJobs(jobs) \/ ReleaseJobs(jobs) \/ BlockJobsByBudget(jobs, others)
    PROVE  \A j \in Job : state[j] # "none" <=> state'[j] # "none"
BY DEF QueueTypeOK, RetryJobs, ReleaseJobs, BlockJobsByBudget, Rows

\* Between two writes of the artifact the index does not change.
LEMMA IndexKept ==
    ASSUME IndexInv, RestTypeOK, UNCHANGED artifact,
           \A c \in Content : version'[c] \in Nat /\ version[c] <= version'[c]
    PROVE  IndexInv'
<1>1. ASSUME NEW c \in Content PROVE artifact[c].version \in Nat /\ version[c] \in Nat
  BY DEF RestTypeOK, Artifact
<1> QED
  BY <1>1 DEF IndexInv

\* What a worker's step must still show when the rows it knows stay the rows.
LEMMA SerialFrame ==
    ASSUME SingleWorker, TypeOK, SerialInv, NEW w \in Worker,
           UNCHANGED <<version, selected>>,
           \A j \in Job : state'[j] # "none" => state[j] # "none",
           IndexInv', Held(w)', NoCurrentForgotten'
    PROVE  SerialInv'
<1>1. RowsInv'
  BY DEF SerialInv, RowsInv
<1>2. \A v \in Worker : Held(v)'
  BY DEF SingleWorker
<1> QED
  BY <1>1, <1>2 DEF SerialInv

\* The writers: a new version is newer than all a worker holds.
LEMMA PublishSerial ==
    ASSUME TypeOK, SerialInv, NEW c \in Content, Publish(c)
    PROVE  SerialInv'
<1> DEFINE new == <<c, version[c] + 1>>
<1>0. QueueTypeOK /\ LocalsTypeOK /\ RestTypeOK
  BY TypeParts
<1>1. /\ new \in Job /\ version[c] \in Nat
      /\ \A d \in Content : version[d] \in Nat
      /\ version' = [version EXCEPT ![c] = version[c] + 1]
      /\ UNCHANGED <<artifact, selected, pc, locals>>
  BY <1>0, ContentAssumption DEF Publish, Job, RestTypeOK
<1>2. \A j \in Job : j[1] \in Content /\ j[2] \in Nat /\ (j # new => j[1] # c \/ j[2] # version[c] + 1)
  BY JobParts, <1>1
<1>3. \A j \in Job : j # new => state'[j] = state[j]
  BY <1>0, <1>1 DEF Publish, Enqueue, queue, QueueTypeOK
<1>4. RowsInv'
  <2>1. ASSUME NEW j \in Job, j # new, state'[j] # "none" \/ j \in selected'
        PROVE  j[2] <= version'[j[1]]
    <3>1. j[2] <= version[j[1]]
      BY <1>1, <1>3, <2>1 DEF SerialInv, RowsInv
    <3> QED
      BY <1>0, <1>1, <1>2, <3>1 DEF RestTypeOK
  <2>2. new[2] <= version'[new[1]]
    BY <1>0, <1>1 DEF RestTypeOK
  <2> QED
    BY <2>1, <2>2 DEF RowsInv
<1>5. IndexInv'
  BY <1>0, <1>1, IndexKept DEF SerialInv, RestTypeOK
<1>6. ASSUME NEW w \in Worker PROVE Held(w)'
  <2>1. Held(w) /\ \A j \in batch[w] \cup stale[w] \cup ready[w] \cup done[w] : j \in Job
    BY <1>0 DEF SerialInv, LocalsTypeOK
  <2>2. \A j \in Job : j[2] <= version[j[1]] =>
                         /\ j[2] <= version'[j[1]]
                         /\ ~CurrentPublished(j) => ~CurrentPublished(j)'
    BY <1>0, <1>1, <1>2 DEF CurrentPublished, RestTypeOK
  <2> QED
    BY <1>1, <2>1, <2>2 DEF Held, locals, Indexed, Unchanged
<1>7. NoCurrentForgotten'
  <2>1. ASSUME NEW j \in Job, j = new, Searchable(j)' PROVE state'[j] # "none"
    <3>1. TextOf[new] # Removed
      BY <2>1 DEF Searchable, CurrentPublished
    <3>2. Enqueue(new)
      BY <3>1 DEF Publish, Enqueues
    <3> QED
      BY <1>0, <1>1, <2>1, <3>2 DEF Enqueue, queue, QueueTypeOK
  <2>2. ASSUME NEW j \in Job, j # new, Searchable(j)' PROVE Indexed(j)' \/ state'[j] # "none"
    <3>1. Searchable(j)
      BY <1>0, <1>1, <1>2, <2>2 DEF Searchable, CurrentPublished, RestTypeOK
    <3> QED
      BY <1>1, <1>3, <2>2, <3>1 DEF SerialInv, NoCurrentForgotten, Indexed
  <2>3. ASSUME NEW j \in Job, Searchable(j)' PROVE Indexed(j)' \/ state'[j] # "none"
    BY <2>1, <2>2, <2>3
  <2> QED
    BY <2>3 DEF NoCurrentForgotten
<1> QED
  BY <1>4, <1>5, <1>6, <1>7 DEF SerialInv

\* The two steps of the backfill keep SerialInv: enqueueing takes no job away.
LEMMA BackfillSerial ==
    ASSUME TypeOK, SerialInv,
           BackfillSelect \/ \E j \in Job : BackfillEnqueue(j) \/ TimePasses(j)
    PROVE  SerialInv'
<1>0. QueueTypeOK /\ LocalsTypeOK /\ RestTypeOK
  BY TypeParts
<1>1. UNCHANGED <<version, artifact, pc, locals>>
  BY DEF BackfillSelect, BackfillEnqueue, TimePasses, subject
<1>2. \A j \in Job : state[j] # "none" => state'[j] # "none"
  <2>1. \/ UNCHANGED state
        \/ \E j \in Job : state' = [state EXCEPT ![j] = "queued"]
    BY DEF BackfillSelect, BackfillEnqueue, TimePasses, Enqueue, queue
  <2> QED
    BY <1>0, <2>1 DEF QueueTypeOK
<1>3. RowsInv'
  <2>1. CASE BackfillSelect
    BY <1>0, <1>1, <2>1, JobParts DEF BackfillSelect, SerialInv, RowsInv, CurrentPublished,
       queue, RestTypeOK
  <2>2. ASSUME NEW j \in Job, BackfillEnqueue(j) PROVE RowsInv'
    BY <1>0, <1>1, <2>2 DEF BackfillEnqueue, Enqueue, SerialInv, RowsInv, queue, QueueTypeOK
  <2>3. ASSUME NEW j \in Job, TimePasses(j) PROVE RowsInv'
    BY <2>3 DEF TimePasses, SerialInv, RowsInv, subject
  <2> QED
    BY <2>1, <2>2, <2>3
<1>4. NoCurrentForgotten'
  BY <1>1, <1>2, RowsKept DEF SerialInv
<1>5. IndexInv'
  BY <1>1 DEF SerialInv, IndexInv
<1>6. ASSUME NEW w \in Worker PROVE Held(w)'
  BY <1>1, HeldShrinks DEF SerialInv, locals
<1> QED
  BY <1>3, <1>4, <1>5, <1>6 DEF SerialInv

\* The steps of a worker that read, and that write the artifact.
LEMMA ReadWriteSerial ==
    ASSUME SingleWorker, TypeOK, ShapeInv, SerialInv, NEW w \in Worker,
           \/ Claim(w) \/ LoadHashes(w)
           \/ \E j \in Job : Load(w, j) \/ AdvanceArtifact(w, j) \/ InsertArtifact(w, j)
    PROVE  SerialInv'
<1>0. /\ QueueTypeOK /\ LocalsTypeOK /\ RestTypeOK
      /\ Shape(w) /\ Held(w) /\ RowsInv /\ IndexInv /\ NoCurrentForgotten
      /\ \A j \in Job : version[j[1]] \in Nat /\ j[2] \in Nat \ {0}
      /\ \A j \in Job : artifact[j[1]].version \in Nat
  BY TypeParts, JobParts DEF ShapeInv, SerialInv, RestTypeOK, Artifact
<1>1. CASE Claim(w)
  <2>1. PICK jobs \in SUBSET Claimable :
          /\ batch' = [batch EXCEPT ![w] = jobs]
          /\ state' = [j \in Job |-> IF j \in jobs THEN "queued" ELSE state[j]]
    BY <1>1 DEF Claim
  <2>2. UNCHANGED <<version, selected, artifact, stale, ready, same, done>>
    BY <1>1 DEF Claim, subject
  <2>3. jobs \in SUBSET Job /\ \A j \in jobs : state[j] # "none"
    BY <1>0 DEF Claimable, Waiting, QueueTypeOK
  <2>4. \A j \in Job : state'[j] # "none" <=> state[j] # "none"
    BY <1>0, <2>1, <2>3 DEF QueueTypeOK
  <2>5. Held(w)'
    <3>1. /\ batch'[w] = jobs
          /\ ready[w] = {} /\ done[w] = {} /\ same[w] = {} /\ stale[w] = {}
      BY <1>0, <1>1, <2>1 DEF Claim, Shape, LocalsTypeOK
    <3>2. \A j \in jobs : j[2] <= version[j[1]]
      BY <1>0, <2>3 DEF RowsInv
    <3> QED
      BY <2>2, <3>1, <3>2 DEF Held
  <2>6. IndexInv' /\ NoCurrentForgotten'
    BY <1>0, <2>2, <2>4, RowsKept DEF IndexInv
  <2> QED
    BY <2>2, <2>4, <2>5, <2>6, SerialFrame
<1>2. CASE LoadHashes(w)
  <2>1. UNCHANGED <<version, selected, artifact, state, batch, stale, ready, done>>
    BY <1>2 DEF LoadHashes, subject, queue
  <2>2. \A j \in same'[w] : Unchanged(j)
    BY <1>0, <1>2 DEF LoadHashes, LocalsTypeOK
  <2>3. Held(w)'
    BY <1>0, <2>1, <2>2 DEF Held, Indexed, Unchanged, CurrentPublished
  <2>4. IndexInv' /\ NoCurrentForgotten'
    BY <1>0, <2>1, RowsKept DEF IndexInv
  <2> QED
    BY <2>1, <2>3, <2>4, SerialFrame
<1>3. ASSUME NEW j \in Job, Load(w, j) PROVE SerialInv'
  <2>1. /\ UNCHANGED <<version, selected, artifact, state, same, done>>
        /\ batch'[w] = batch[w] \ {j}
        /\ j \in batch[w]
        /\ done[w] = {} /\ same[w] = {}
    BY <1>0, <1>3 DEF Load, subject, queue, LocalsTypeOK, Shape
  <2>2. Held(w)'
    <3>1. CASE CurrentPublished(j)
      <4>1. /\ stale'[w] = stale[w] /\ ready'[w] = ready[w] \cup {j}
            /\ j[2] = version[j[1]]
        BY <1>0, <1>3, <3>1 DEF Load, LocalsTypeOK, CurrentPublished
      <4>2. \A i \in batch[w] \cup ready[w] : i[1] = j[1] => i[2] <= j[2]
        BY <1>0, <4>1 DEF Held
      <4>3. artifact[j[1]].version <= j[2]
        BY <1>0, <4>1, JobParts DEF IndexInv
      <4>4. \A i \in ready'[w], k \in batch'[w] \cup ready'[w] : k[1] = i[1] => k[2] <= i[2]
        <5>1. \A i \in ready[w] : j[1] = i[1] => j[2] <= i[2]
          BY <1>0, <2>1 DEF Held
        <5>2. \A i \in ready[w], k \in batch[w] \cup ready[w] : k[1] = i[1] => k[2] <= i[2]
          BY <1>0 DEF Held
        <5>3. j[2] <= j[2]
          BY <1>0
        <5> QED
          BY <2>1, <4>1, <4>2, <5>1, <5>2, <5>3
      <4> QED
        BY <1>0, <2>1, <4>1, <4>3, <4>4 DEF Held, CurrentPublished
    <3>2. CASE ~CurrentPublished(j)
      <4>1. ready'[w] = ready[w] /\ stale'[w] = stale[w] \cup {j}
        BY <1>0, <1>3, <3>2 DEF Load, LocalsTypeOK
      <4> QED
        BY <1>0, <2>1, <3>2, <4>1 DEF Held, CurrentPublished
    <3> QED
      BY <3>1, <3>2
  <2>3. IndexInv' /\ NoCurrentForgotten'
    BY <1>0, <2>1, RowsKept DEF IndexInv
  <2> QED
    BY <2>1, <2>2, <2>3, SerialFrame
<1>4. ASSUME NEW j \in Job, AdvanceArtifact(w, j) \/ InsertArtifact(w, j) PROVE SerialInv'
  <2>1. /\ UNCHANGED <<version, selected, state, batch, stale>>
        /\ j \in ready[w]
        /\ ready'[w] \subseteq ready[w]
        /\ same'[w] \subseteq same[w]
        /\ done'[w] = done[w] \cup {j}
        /\ stale[w] = {}
    BY <1>0, <1>4 DEF AdvanceArtifact, InsertArtifact, subject, queue, LocalsTypeOK, Shape
  <2>2. /\ artifact' = [artifact EXCEPT ![j[1]] =
                           [version |-> j[2], hash |-> TextOf[j], vector |-> TextOf[j]]]
    <3>1. CASE AdvanceArtifact(w, j)
      <4>1. artifact[j[1]].hash = TextOf[j] /\ artifact[j[1]].version > 0
        BY <1>0, <3>1 DEF AdvanceArtifact, Held, Unchanged
      <4>2. artifact[j[1]].vector = TextOf[j]
        BY <1>0, <4>1, JobParts DEF IndexInv
      <4>3. artifact[j[1]] \in Artifact
        BY <1>0, JobParts DEF RestTypeOK
      <4>4. /\ artifact' \in [Content -> Artifact]
            /\ artifact'[j[1]].version = j[2] /\ artifact'[j[1]].hash = TextOf[j]
            /\ artifact'[j[1]].vector = TextOf[j]
            /\ \A c \in Content : c # j[1] => artifact'[c] = artifact[c]
        BY <1>0, <3>1, <4>2, <4>3, JobParts, ContentAssumption
           DEF AdvanceArtifact, RestTypeOK, Artifact
      <4>5. artifact'[j[1]] = [version |-> j[2], hash |-> TextOf[j], vector |-> TextOf[j]]
        BY <4>4, JobParts DEF Artifact
      <4> QED
        BY <1>0, <4>4, <4>5, JobParts DEF RestTypeOK
    <3>2. CASE InsertArtifact(w, j)
      BY <3>2 DEF InsertArtifact, Stored
    <3> QED
      BY <1>4, <3>1, <3>2
  <2>3. /\ artifact'[j[1]].version = j[2]
        /\ artifact'[j[1]].hash = TextOf[j] /\ artifact'[j[1]].vector = TextOf[j]
        /\ \A c \in Content : c # j[1] => artifact'[c] = artifact[c]
        /\ artifact[j[1]].version <= j[2] /\ j[2] <= version[j[1]]
    BY <1>0, <2>1, <2>2, JobParts DEF RestTypeOK, Held
  <2>4. \A k \in batch[w] \cup ready[w] \cup done[w] : k[1] = j[1] => k[2] <= j[2]
    BY <1>0, <2>1 DEF Held
  <2>5. \A k \in ready[w] \cup done[w] : k \in Job /\ (k[1] = j[1] => k = j)
    <3>1. ASSUME NEW k \in ready[w] \cup done[w], k[1] = j[1] PROVE k = j
      <4>1. k \in Job /\ k[2] <= j[2]
        BY <1>0, <2>4, <3>1 DEF LocalsTypeOK
      <4>2. j[2] <= k[2]
        BY <1>0, <2>1, <3>1 DEF Held
      <4> QED
        BY <1>0, <3>1, <4>1, <4>2, JobParts
    <3> QED
      BY <1>0, <3>1 DEF LocalsTypeOK
  <2>6. IndexInv'
    BY <1>0, <2>1, <2>3, JobParts DEF IndexInv
  <2>7. Held(w)'
    <3>1. \A k \in ready'[w] \cup done'[w] : k \in Job /\ artifact'[k[1]].version <= k[2]
      <4>1. \A k \in ready[w] \cup done[w] : artifact[k[1]].version <= k[2]
        BY <1>0, <2>5 DEF Held, Indexed
      <4> QED
        BY <1>0, <2>1, <2>3, <2>5, <4>1, JobParts
    <3>2. \A k \in done'[w] : artifact'[k[1]].version = k[2]
      BY <1>0, <2>1, <2>3, <2>5, JobParts DEF Held, Indexed
    <3>3. \A k \in same'[w] : Unchanged(k)'
      <4>1. \A k \in same[w] : k \in ready[w]
        BY <1>0 DEF Shape
      <4> QED
        BY <1>0, <2>1, <2>3, <2>5, <4>1, JobParts DEF Held, Unchanged
    <3>4. \A i \in ready'[w] \cup done'[w], k \in batch'[w] \cup ready'[w] \cup done'[w] :
            k[1] = i[1] => k[2] <= i[2]
      BY <1>0, <2>1 DEF Held
    <3>5. \A k \in batch'[w] \cup stale'[w] \cup ready'[w] \cup done'[w] :
            k[2] <= version'[k[1]]
      BY <1>0, <2>1, <2>3 DEF Held
    <3> QED
      BY <2>1, <3>1, <3>2, <3>3, <3>4, <3>5 DEF Held, Indexed
  <2>8. NoCurrentForgotten'
    <3>1. ASSUME NEW k \in Job, Searchable(k)' PROVE Indexed(k)' \/ state'[k] # "none"
      <4>1. Searchable(k) /\ k[2] = version[k[1]]
        BY <2>1, <3>1 DEF Searchable, CurrentPublished
      <4>2. CASE Indexed(k)
        <5>1. k[1] = j[1] => k[2] = j[2]
          BY <1>0, <2>3, <4>1, <4>2 DEF Indexed
        <5> QED
          BY <2>3, <4>2, <5>1, JobParts DEF Indexed
      <4>3. CASE state[k] # "none"
        BY <2>1, <4>3
      <4> QED
        BY <1>0, <4>1, <4>2, <4>3 DEF NoCurrentForgotten
    <3> QED
      BY <3>1 DEF NoCurrentForgotten
  <2> QED
    BY <2>1, <2>6, <2>7, <2>8, SerialFrame
<1> QED
  BY <1>1, <1>2, <1>3, <1>4

\* The steps that delete jobs: each is stale, empty or indexed.
LEMMA DeletionSerial ==
    ASSUME SingleWorker, TypeOK, ShapeInv, SerialInv, NEW w \in Worker,
           DropStale(w) \/ DropEmpty(w) \/ CompleteUnchanged(w) \/ CompleteInserted(w)
    PROVE  SerialInv'
<1>0. /\ QueueTypeOK /\ LocalsTypeOK /\ RestTypeOK
      /\ Held(w) /\ IndexInv /\ NoCurrentForgotten
  BY TypeParts DEF SerialInv
<1>1. UNCHANGED <<version, selected, artifact>>
  BY DEF DropStale, DropEmpty, CompleteUnchanged, CompleteInserted, subject
<1>2. PICK jobs : CompleteJobs(jobs) /\ \A j \in jobs : Indexed(j) \/ ~Searchable(j)
  <2>1. CASE DropStale(w)
    BY <1>0, <2>1 DEF DropStale, Held, Searchable
  <2>2. CASE DropEmpty(w)
    BY <2>2 DEF DropEmpty, Searchable
  <2>3. CASE CompleteUnchanged(w)
    BY <1>0, <2>3 DEF CompleteUnchanged, Held
  <2>4. CASE CompleteInserted(w)
    BY <1>0, <2>4 DEF CompleteInserted, Completed, Held
  <2> QED
    BY <2>1, <2>2, <2>3, <2>4
<1>3. \E jobs2 \in SUBSET ready[w], label \in Label : ContinueWith(w, jobs2, label)
  BY <1>0 DEF DropStale, DropEmpty, CompleteUnchanged, CompleteInserted, LocalsTypeOK, Label
<1>4. Held(w)'
  BY <1>0, <1>1, <1>3, HeldShrinks, ContinuationShrinks
<1>5. NoCurrentForgotten'
  BY <1>0, <1>1, <1>2, DeletionForgetsNothing
<1>6. IndexInv'
  BY <1>0, <1>1 DEF IndexInv
<1>7. \A j \in Job : state'[j] # "none" => state[j] # "none"
  BY <1>2 DEF CompleteJobs
<1> QED
  BY <1>1, <1>4, <1>5, <1>6, <1>7, SerialFrame

\* The steps that neither delete a job nor write an artifact.
LEMMA OtherSerial ==
    ASSUME SingleWorker, TypeOK, ShapeInv, SerialInv, NEW w \in Worker,
           \/ \E club \in Club : ReserveGranted(w, club) \/ ReserveRefused(w, club)
           \/ EmbedSucceeds(w)
           \/ \E kind \in ProviderFailure : EmbedFails(w, kind)
           \/ HandleTransient(w)
           \/ HandleWork(w)
           \/ HandleFatal(w)
           \/ \E j \in Job : InsertFails(w, j)
           \/ Abandon(w)
    PROVE  SerialInv'
<1>0. /\ QueueTypeOK /\ LocalsTypeOK /\ RestTypeOK
      /\ Held(w) /\ IndexInv /\ NoCurrentForgotten
  BY TypeParts DEF SerialInv
<1>1. UNCHANGED <<version, selected, artifact>>
  BY DEF ReserveGranted, ReserveRefused, EmbedSucceeds, EmbedFails, HandleTransient,
     HandleWork, HandleFatal, InsertFails, Abandon, subject
<1>2. \A j \in Job : state[j] # "none" <=> state'[j] # "none"
  <2>1. \/ UNCHANGED queue
        \/ \E jobs, others : \/ RetryJobs(jobs) \/ ReleaseJobs(jobs)
                             \/ BlockJobsByBudget(jobs, others)
    BY DEF ReserveGranted, ReserveRefused, EmbedSucceeds, EmbedFails, HandleTransient,
       HandleWork, HandleFatal, InsertFails, Abandon
  <2>2. CASE UNCHANGED queue
    BY <2>2 DEF queue
  <2> QED
    BY <1>0, <2>1, <2>2, SameRows
<1>3. /\ batch'[w] \subseteq batch[w] /\ stale'[w] \subseteq stale[w]
      /\ ready'[w] \subseteq ready[w] /\ same'[w] \subseteq same[w]
      /\ done'[w] \subseteq done[w]
  <2>1. CASE \/ \E club \in Club : ReserveGranted(w, club)
             \/ EmbedSucceeds(w)
             \/ \E kind \in ProviderFailure : EmbedFails(w, kind)
    BY <2>1 DEF ReserveGranted, EmbedSucceeds, EmbedFails, locals
  <2>2. CASE HandleWork(w) \/ HandleFatal(w) \/ Abandon(w)
    BY <1>0, <2>2 DEF HandleWork, HandleFatal, Abandon, Return, LocalsTypeOK
  <2>3. ASSUME NEW j \in Job, InsertFails(w, j)
        PROVE  /\ batch'[w] \subseteq batch[w] /\ stale'[w] \subseteq stale[w]
               /\ ready'[w] \subseteq ready[w] /\ same'[w] \subseteq same[w]
               /\ done'[w] \subseteq done[w]
    BY <1>0, <2>3 DEF InsertFails, LocalsTypeOK
  <2>4. CASE HandleTransient(w) \/ \E club \in Club : ReserveRefused(w, club)
    <3>1. \E jobs \in SUBSET ready[w] : ContinueWith(w, jobs, "club")
      BY <2>4 DEF HandleTransient, ReserveRefused
    <3> QED
      BY <1>0, <3>1, ContinuationShrinks
  <2> QED
    BY <2>1, <2>2, <2>3, <2>4
<1>4. Held(w)'
  BY <1>0, <1>1, <1>3, HeldShrinks
<1>5. NoCurrentForgotten'
  BY <1>0, <1>1, <1>2, RowsKept
<1>6. IndexInv'
  BY <1>0, <1>1 DEF IndexInv
<1> QED
  BY <1>1, <1>2, <1>4, <1>5, <1>6, SerialFrame

\* Every step keeps SerialInv when there is one worker.
LEMMA SerialInduction ==
    ASSUME SingleWorker
    PROVE  TypeOK /\ ShapeInv /\ SerialInv /\ [Next]_vars => SerialInv'
<1> SUFFICES ASSUME TypeOK, ShapeInv, SerialInv, [Next]_vars PROVE SerialInv'
  OBVIOUS
<1>1. CASE UNCHANGED vars
  BY <1>1 DEF vars, SerialInv, RowsInv, IndexInv, Held, NoCurrentForgotten, Indexed,
     Unchanged, Searchable, CurrentPublished
<1> QED
  BY <1>1, PublishSerial, BackfillSerial, ReadWriteSerial, DeletionSerial, OtherSerial
     DEF Next, Work

\* The inductive invariant holds before anything is published.
LEMMA InitialInvariants == Init => TypeOK /\ ShapeInv /\ SerialInv
<1> SUFFICES ASSUME Init PROVE TypeOK /\ ShapeInv /\ SerialInv
  OBVIOUS
<1>1. TypeOK
  BY ContentAssumption, WorkerAssumption
     DEF Init, TypeOK, NoArtifact, Artifact, JobState, Label
<1>2. ShapeInv
  BY DEF Init, ShapeInv, Shape, ProviderFailure
<1>3. SerialInv
  BY JobParts DEF Init, NoArtifact, SerialInv, RowsInv, IndexInv, Held, NoCurrentForgotten,
     Searchable, CurrentPublished
<1> QED
  BY <1>1, <1>2, <1>3

\* The inductive invariant holds in every reachable state.
LEMMA AllInvariants ==
    ASSUME SingleWorker PROVE Spec => [](TypeOK /\ ShapeInv /\ SerialInv)
<1>1. TypeOK /\ ShapeInv /\ SerialInv /\ [Next]_vars => (TypeOK /\ ShapeInv /\ SerialInv)'
  BY TypeInduction, ShapeInduction, SerialInduction
<1> QED
  BY <1>1, InitialInvariants, PTL DEF Spec

\* NothingForgotten: with one worker, whatever fails and whenever it crashes,
\* the current version of a content is indexed or still has its job.
THEOREM NothingForgotten == ASSUME SingleWorker PROVE Spec => []NoCurrentForgotten
BY AllInvariants, PTL DEF SerialInv

\* EmbeddingsMatch: with one worker, the vector of an artifact is of the text
\* of the version the artifact names.
THEOREM EmbeddingsMatch == ASSUME SingleWorker PROVE Spec => []EmbeddingMatchesVersion
<1>1. IndexInv => EmbeddingMatchesVersion
  BY JobParts DEF IndexInv, EmbeddingMatchesVersion, Indexed
<1> QED
  BY <1>1, AllInvariants, PTL DEF SerialInv

\* ArtifactsMoveForward: with one worker, no artifact goes back to an earlier
\* version.
THEOREM ArtifactsMoveForward == ASSUME SingleWorker PROVE Spec => ArtifactMovesForward
<1> DEFINE Forward == \A c \in Content : artifact'[c].version >= artifact[c].version
<1>1. TypeOK /\ ShapeInv /\ SerialInv /\ [Next]_vars => [Forward]_vars
  <2> SUFFICES ASSUME TypeOK, ShapeInv, SerialInv, Next PROVE Forward
    OBVIOUS
  <2>0. \A c \in Content : artifact[c].version \in Nat
    BY DEF TypeOK, Artifact
  <2>1. ASSUME NEW w \in Worker, NEW j \in Job, AdvanceArtifact(w, j) \/ InsertArtifact(w, j)
        PROVE  Forward
    <3>1. j \in ready[w] /\ Held(w)
      BY <2>1 DEF AdvanceArtifact, InsertArtifact, ShapeInv, Shape, SerialInv
    <3>2. artifact[j[1]].version <= j[2]
      BY <3>1 DEF Held
    <3>3. /\ artifact'[j[1]].version = j[2]
          /\ \A c \in Content : c # j[1] => artifact'[c] = artifact[c]
      BY <2>1, JobParts DEF AdvanceArtifact, InsertArtifact, Stored, TypeOK, Artifact
    <3> QED
      BY <2>0, <3>2, <3>3, JobParts
  <2>2. CASE UNCHANGED artifact
    BY <2>0, <2>2
  <2> QED
    BY <2>1, <2>2 DEF Next, Work, Publish, BackfillSelect, BackfillEnqueue, TimePasses,
       Claim, Load, DropStale, DropEmpty, LoadHashes, CompleteUnchanged, ReserveGranted,
       ReserveRefused, EmbedSucceeds, EmbedFails, HandleTransient, HandleWork, HandleFatal,
       InsertFails, CompleteInserted, Abandon
<1> QED
  BY <1>1, AllInvariants, PTL DEF Spec, ArtifactMovesForward

-----------------------------------------------------------------------------
(* What attempts are counted for, with one worker.                         *)

\* The jobs whose claim counted an attempt that nothing has given back yet.
Claimed(w) == (batch[w] \cup stale[w] \cup ready[w] \cup done[w]) \ reclaimed[w]

\* An attempt is paid for by a failure, or by a claim that is still being worked on.
Paid(j) ==
    \/ attempts[j] <= faults
    \/ /\ attempts[j] = faults + 1
       /\ \E w \in Worker : pc[w] \notin ProviderFailure /\ j \in Claimed(w)

Loaded(w) == pc[w] # "load" => batch[w] = {}

Rowless(j) == state[j] = "none" => attempts[j] = 0

CountInv == /\ \A j \in Job : Paid(j)
            /\ \A j \in Job : Rowless(j)
            /\ \A w \in Worker : Loaded(w)

\* Attempts that do not grow stay paid for, while the claims that paid are held.
LEMMA PaidKept ==
    ASSUME TypeOK, NEW j \in Job, Paid(j), UNCHANGED faults,
           attempts'[j] \in Nat, attempts'[j] <= attempts[j],
           \A w \in Worker : pc[w] \notin ProviderFailure /\ j \in Claimed(w) =>
               \/ pc'[w] \notin ProviderFailure /\ j \in Claimed(w)'
               \/ attempts'[j] <= faults
    PROVE  Paid(j)'
BY DEF Paid, TypeOK

\* A failure pays for one more attempt of every job.
LEMMA PaidByFault ==
    ASSUME TypeOK, NEW j \in Job, Paid(j), Fault, attempts'[j] = attempts[j]
    PROVE  Paid(j)'
BY DEF Paid, TypeOK, Fault

\* Deleting, retrying, releasing and blocking count no attempt; what is deleted has none,
\* and what is blocked for want of budget after a claim that counted loses that one.
LEMMA AttemptsDrop ==
    ASSUME TypeOK, NEW jobs, NEW others, NEW j \in Job,
           \/ CompleteJobs(jobs) \/ RetryJobs(jobs) \/ ReleaseJobs(jobs)
           \/ BlockJobsByBudget(jobs, others)
    PROVE  /\ attempts[j] \in Nat /\ attempts'[j] \in Nat /\ attempts'[j] <= attempts[j]
           /\ CompleteJobs(jobs) /\ j \in jobs => attempts'[j] = 0
           /\ BlockJobsByBudget(jobs, others) /\ j \in jobs =>
                attempts'[j] = OneLess(attempts[j]) \/ state[j] = "none"
<1>0. attempts[j] \in Nat /\ OneLess(attempts[j]) \in Nat /\ OneLess(attempts[j]) <= attempts[j]
  BY DEF TypeOK, OneLess
<1>1. CASE CompleteJobs(jobs)
  BY <1>0, <1>1 DEF CompleteJobs, BlockJobsByBudget, Rows
<1>2. CASE RetryJobs(jobs)
  <2>1. attempts' = attempts
    BY <1>2 DEF RetryJobs
  <2> QED
    BY <1>0, <2>1 DEF CompleteJobs, BlockJobsByBudget, Rows
<1>3. CASE ReleaseJobs(jobs)
  BY <1>0, <1>3 DEF ReleaseJobs, CompleteJobs, BlockJobsByBudget, Rows
<1>4. CASE BlockJobsByBudget(jobs, others)
  BY <1>0, <1>4 DEF BlockJobsByBudget, CompleteJobs, Rows
<1> QED
  BY <1>1, <1>2, <1>3, <1>4

\* What a continuation goes on with is still claimed, unless nothing is left.
LEMMA ContinuationClaims ==
    ASSUME LocalsTypeOK, NEW w \in Worker, NEW jobs \in SUBSET Job, jobs # {},
           NEW label \in {"empty", "hashes", "club"}, ContinueWith(w, jobs, label)
    PROVE  pc'[w] \notin ProviderFailure /\ jobs \ reclaimed[w] \subseteq Claimed(w)'
BY DEF ContinueWith, LocalsTypeOK, Goto, Claimed, ProviderFailure

\* A step of the queue outside any claim keeps what claims have paid for.
LEMMA PaidAside ==
    ASSUME TypeOK, NEW j \in Job, Paid(j), UNCHANGED <<faults, pc, locals>>,
           attempts'[j] \in Nat, attempts'[j] <= attempts[j]
    PROVE  Paid(j)'
<1>1. \A w \in Worker : pc'[w] = pc[w] /\ Claimed(w)' = Claimed(w)
  BY DEF locals, Claimed
<1> QED
  BY <1>1, PaidKept

\* The steps of writers, of the backfill and of time.
LEMMA WritersPaid ==
    ASSUME TypeOK, NEW j \in Job, Paid(j),
           \/ \E c \in Content : Publish(c)
           \/ BackfillSelect
           \/ \E k \in Job : BackfillEnqueue(k) \/ TimePasses(k)
    PROVE  Paid(j)'
<1>0. attempts[j] \in Nat
  BY DEF TypeOK
<1>1. ASSUME NEW k \in Job, Enqueue(k) \/ UNCHANGED queue
      PROVE  attempts'[j] \in Nat /\ attempts'[j] <= attempts[j]
  BY <1>0, <1>1 DEF Enqueue, queue, TypeOK
<1>2. ASSUME NEW c \in Content, Publish(c) PROVE Paid(j)'
  <2>1. <<c, version[c] + 1>> \in Job
    BY <1>2, ContentAssumption DEF Publish, Job, TypeOK
  <2> QED
    BY <1>1, <1>2, <2>1, PaidAside DEF Publish
<1>3. CASE BackfillSelect
  BY <1>0, <1>3, PaidAside DEF BackfillSelect, queue
<1>4. ASSUME NEW k \in Job, BackfillEnqueue(k) PROVE Paid(j)'
  BY <1>1, <1>4, PaidAside DEF BackfillEnqueue
<1>5. ASSUME NEW k \in Job, TimePasses(k) PROVE Paid(j)'
  BY <1>0, <1>5, PaidAside DEF TimePasses
<1> QED
  BY <1>2, <1>3, <1>4, <1>5

\* The steps of the one worker.
LEMMA WorkerPaid ==
    ASSUME SingleWorker, TypeOK, ShapeInv, CountInv, NEW w \in Worker, NEW j \in Job,
           \/ Work(w)
           \/ \E kind \in ProviderFailure : EmbedFails(w, kind)
           \/ \E k \in Job : InsertFails(w, k)
           \/ Abandon(w)
    PROVE  Paid(j)'
<1>0. /\ Paid(j) /\ Loaded(w) /\ Shape(w) /\ \A v \in Worker : v = w
      /\ attempts[j] \in Nat /\ faults \in Nat /\ LocalsTypeOK
      /\ ready[w] \in SUBSET Job /\ group[w] \in SUBSET Job /\ done[w] \in SUBSET Job
  BY TypeParts DEF CountInv, ShapeInv, SingleWorker, TypeOK
<1>a. ASSUME UNCHANGED <<attempts, faults>>, pc'[w] \notin ProviderFailure,
             Claimed(w) \subseteq Claimed(w)'
      PROVE  Paid(j)'
  BY <1>0, <1>a, PaidKept
<1>b. ASSUME attempts[j] <= faults, UNCHANGED faults,
             attempts'[j] \in Nat, attempts'[j] <= attempts[j]
      PROVE  Paid(j)'
  BY <1>0, <1>b DEF Paid
<1>1. CASE Claim(w)
  <2>1. attempts[j] <= faults
    BY <1>0, <1>1 DEF Claim, Paid, Claimed, Shape
  <2>2. PICK jobs \in SUBSET Claimable :
          /\ attempts' = [k \in Job |-> IF k \in jobs /\ Counted(k)
                                        THEN attempts[k] + 1 ELSE attempts[k]]
          /\ batch' = [batch EXCEPT ![w] = jobs]
          /\ reclaimed' = [reclaimed EXCEPT ![w] = {k \in jobs : ~Counted(k)}]
    BY <1>1 DEF Claim
  <2>3. UNCHANGED faults /\ pc'[w] = "load"
    BY <1>1 DEF Claim, Goto, TypeOK
  <2>4. CASE j \in jobs /\ Counted(j)
    <3>1. attempts'[j] = attempts[j] + 1
      BY <2>2, <2>4
    <3>2. j \in batch'[w] /\ j \notin reclaimed'[w]
      BY <2>2, <2>4 DEF TypeOK
    <3> QED
      BY <1>0, <2>1, <2>3, <3>1, <3>2 DEF Paid, Claimed, ProviderFailure
  <2>5. CASE ~(j \in jobs /\ Counted(j))
    <3>1. attempts'[j] = attempts[j]
      BY <2>2, <2>5
    <3> QED
      BY <1>0, <1>b, <2>1, <2>3, <3>1
  <2> QED
    BY <2>4, <2>5
<1>2. ASSUME NEW k \in Job, Load(w, k) PROVE Paid(j)'
  <2>1. Claimed(w) \subseteq Claimed(w)'
    BY <1>2 DEF Load, Claimed, TypeOK
  <2> QED
    BY <1>a, <1>2, <2>1 DEF Load, queue, ProviderFailure
<1>3. ASSUME NEW k \in Job, AdvanceArtifact(w, k) PROVE Paid(j)'
  <2>1. Claimed(w) \subseteq Claimed(w)'
    BY <1>3 DEF AdvanceArtifact, Claimed, TypeOK
  <2> QED
    BY <1>a, <1>3, <2>1 DEF AdvanceArtifact, queue, ProviderFailure
<1>4. ASSUME NEW k \in Job, InsertArtifact(w, k) PROVE Paid(j)'
  <2>1. Claimed(w) \subseteq Claimed(w)'
    BY <1>4 DEF InsertArtifact, Claimed, TypeOK
  <2> QED
    BY <1>a, <1>4, <2>1 DEF InsertArtifact, queue, ProviderFailure
<1>5. CASE LoadHashes(w)
  <2>1. pc'[w] = "advance" /\ Claimed(w)' = Claimed(w)
    BY <1>5 DEF LoadHashes, Claimed, TypeOK, Goto
  <2> QED
    BY <1>a, <1>5, <2>1 DEF LoadHashes, queue, ProviderFailure
<1>6. ASSUME NEW club \in Club, ReserveGranted(w, club) PROVE Paid(j)'
  <2>1. pc'[w] = "embed" /\ Claimed(w)' = Claimed(w)
    BY <1>6 DEF ReserveGranted, Claimed, TypeOK, Goto
  <2> QED
    BY <1>a, <1>6, <2>1 DEF ReserveGranted, queue, ProviderFailure
<1>7. CASE EmbedSucceeds(w)
  <2>1. pc'[w] = "insert" /\ Claimed(w)' = Claimed(w)
    BY <1>7 DEF EmbedSucceeds, Claimed, TypeOK, Goto, locals
  <2> QED
    BY <1>a, <1>7, <2>1 DEF EmbedSucceeds, queue, ProviderFailure
<1>8. ASSUME NEW jobs \in SUBSET Job, NEW rest \in SUBSET Job,
             NEW label \in {"empty", "hashes", "club"},
             CompleteJobs(jobs), ContinueWith(w, rest, label), UNCHANGED faults,
             Claimed(w) \subseteq jobs \cup (rest \ reclaimed[w])
      PROVE  Paid(j)'
  <2>1. attempts'[j] \in Nat /\ attempts'[j] <= attempts[j] /\ (j \in jobs => attempts'[j] = 0)
    BY <1>8, AttemptsDrop
  <2>2. CASE j \in jobs
    BY <1>0, <1>8, <2>1, <2>2 DEF Paid
  <2>3. CASE j \notin jobs /\ j \in Claimed(w)
    BY <1>0, <1>8, <2>1, <2>3, ContinuationClaims, PaidKept
  <2>4. CASE j \notin Claimed(w)
    BY <1>0, <1>8, <2>1, <2>4, PaidKept
  <2> QED
    BY <2>2, <2>3, <2>4
<1>9. CASE DropStale(w)
  <2>1. Claimed(w) \subseteq stale[w] \cup (ready[w] \ reclaimed[w])
    BY <1>0, <1>9 DEF DropStale, Claimed, Shape
  <2> QED
    BY <1>0, <1>8, <1>9, <2>1 DEF DropStale, LocalsTypeOK
<1>10. CASE DropEmpty(w)
  <2>1. PICK empty \in SUBSET ready[w] : CompleteJobs(empty)
           /\ ContinueWith(w, ready[w] \ empty, "hashes") /\ UNCHANGED faults
    BY <1>10 DEF DropEmpty
  <2>2. Claimed(w) \subseteq empty \cup ((ready[w] \ empty) \ reclaimed[w])
    BY <1>0, <1>10 DEF DropEmpty, Claimed, Shape, Loaded
  <2> QED
    BY <1>0, <1>8, <2>1, <2>2
<1>11. CASE CompleteUnchanged(w)
  <2>1. Claimed(w) \subseteq done[w] \cup ((ready[w] \ done[w]) \ reclaimed[w])
    BY <1>0, <1>11 DEF CompleteUnchanged, Claimed, Shape, Loaded
  <2> QED
    BY <1>0, <1>8, <1>11, <2>1 DEF CompleteUnchanged
<1>12. CASE CompleteInserted(w)
  <2>1. Claimed(w) \subseteq done[w] \cup (ready[w] \ reclaimed[w])
    BY <1>0, <1>12 DEF CompleteInserted, Claimed, Shape, Loaded
  <2> QED
    BY <1>0, <1>8, <1>12, <2>1 DEF CompleteInserted, Completed
<1>13. ASSUME NEW club \in Club, ReserveRefused(w, club) PROVE Paid(j)'
  <2>1. PICK jobs \in SUBSET ready[w] :
          /\ BlockJobsByBudget(jobs \ reclaimed[w], jobs \cap reclaimed[w])
          /\ ContinueWith(w, ready[w] \ jobs, "club") /\ UNCHANGED faults
    BY <1>13 DEF ReserveRefused, ReadyOf
  <2>2. /\ attempts'[j] \in Nat /\ attempts'[j] <= attempts[j]
        /\ j \in jobs \ reclaimed[w] => attempts'[j] = OneLess(attempts[j]) \/ state[j] = "none"
    BY <2>1, AttemptsDrop
  <2>3. CASE j \in jobs \ reclaimed[w]
    <3>1. attempts'[j] <= faults
      BY <1>0, <2>2, <2>3 DEF OneLess, Paid, CountInv, Rowless
    <3> QED
      BY <2>1, <3>1 DEF Paid
  <2>4. CASE j \notin jobs /\ j \in Claimed(w)
    <3>1. j \in (ready[w] \ jobs) \ reclaimed[w]
      BY <1>0, <1>13, <2>4 DEF ReserveRefused, Claimed, Shape, Loaded
    <3> QED
      BY <1>0, <2>1, <2>2, <3>1, ContinuationClaims, PaidKept
  <2>5. CASE j \notin Claimed(w)
    BY <1>0, <2>1, <2>2, <2>5, PaidKept
  <2>6. j \in jobs /\ j \in reclaimed[w] => j \notin Claimed(w)
    BY DEF Claimed
  <2> QED
    BY <2>3, <2>4, <2>5, <2>6
<1>14. CASE HandleTransient(w) \/ HandleWork(w) \/ HandleFatal(w)
  <2>1. pc[w] \in ProviderFailure /\ (RetryJobs(group[w]) \/ ReleaseJobs(group[w]))
          /\ UNCHANGED faults
    BY <1>14 DEF HandleTransient, HandleWork, HandleFatal, ProviderFailure
  <2>2. attempts[j] <= faults
    BY <1>0, <2>1 DEF Paid
  <2> QED
    BY <1>b, <2>1, <2>2, AttemptsDrop
<1>15. ASSUME NEW kind \in ProviderFailure, EmbedFails(w, kind) PROVE Paid(j)'
  BY <1>0, <1>15, PaidByFault DEF EmbedFails, queue
<1>16. ASSUME NEW k \in Job, InsertFails(w, k) PROVE Paid(j)'
  BY <1>0, <1>16, PaidByFault DEF InsertFails, RetryJobs
<1>17. CASE Abandon(w)
  BY <1>0, <1>17, PaidByFault DEF Abandon, queue
<1> QED
  BY <1>1, <1>2, <1>3, <1>4, <1>5, <1>6, <1>7, <1>9, <1>10, <1>11, <1>12, <1>13, <1>14,
     <1>15, <1>16, <1>17 DEF Work

\* A row that is deleted has no attempts left behind.
LEMMA RowlessInduction ==
    ASSUME TypeOK, [Next]_vars, \A j \in Job : Rowless(j)
    PROVE  \A j \in Job : Rowless(j)'
<1> SUFFICES ASSUME NEW j \in Job PROVE Rowless(j)'
  OBVIOUS
<1> USE DEF Rowless
<1>0. state[j] = "none" => attempts[j] = 0
  OBVIOUS
<1>1. ASSUME UNCHANGED queue PROVE Rowless(j)'
  BY <1>0, <1>1 DEF queue
<1>2. ASSUME NEW k \in Job, Enqueue(k) PROVE Rowless(j)'
  BY <1>0, <1>1, <1>2 DEF Enqueue, TypeOK
<1>3. ASSUME NEW jobs, CompleteJobs(jobs) PROVE Rowless(j)'
  BY <1>0, <1>3 DEF CompleteJobs
<1>4. ASSUME NEW jobs, NEW others,
             RetryJobs(jobs) \/ ReleaseJobs(jobs) \/ BlockJobsByBudget(jobs, others)
      PROVE  Rowless(j)'
  <2>1. state'[j] = "none" => state[j] = "none"
    BY <1>4 DEF RetryJobs, ReleaseJobs, BlockJobsByBudget
  <2>2. state[j] = "none" => attempts'[j] = attempts[j]
    BY <1>4 DEF RetryJobs, ReleaseJobs, BlockJobsByBudget, Rows, TypeOK
  <2> QED
    BY <1>0, <2>1, <2>2
<1>5. ASSUME NEW w \in Worker, Claim(w) PROVE Rowless(j)'
  BY <1>0, <1>5 DEF Claim
<1>6. ASSUME NEW c \in Content, Publish(c) PROVE Rowless(j)'
  <2>1. <<c, version[c] + 1>> \in Job
    BY <1>6, ContentAssumption DEF Publish, Job, TypeOK
  <2> QED
    BY <1>1, <1>2, <1>6, <2>1 DEF Publish
<1>7. ASSUME NEW k \in Job, TimePasses(k) PROVE Rowless(j)'
  BY <1>0, <1>7 DEF TimePasses
<1>8. ASSUME NEW k \in Job, BackfillEnqueue(k) PROVE Rowless(j)'
  BY <1>2, <1>8 DEF BackfillEnqueue
<1>9. ASSUME NEW w \in Worker, NEW k \in Job, InsertFails(w, k) PROVE Rowless(j)'
  BY <1>4, <1>9 DEF InsertFails
<1>10. ASSUME NEW w \in Worker, NEW club \in Club, ReserveRefused(w, club) PROVE Rowless(j)'
  BY <1>4, <1>10 DEF ReserveRefused
<1>11. ASSUME NEW w \in Worker, HandleTransient(w) \/ HandleWork(w) \/ HandleFatal(w)
       PROVE  Rowless(j)'
  BY <1>4, <1>11 DEF HandleTransient, HandleWork, HandleFatal
<1>12. ASSUME NEW w \in Worker,
              DropStale(w) \/ DropEmpty(w) \/ CompleteUnchanged(w) \/ CompleteInserted(w)
       PROVE  Rowless(j)'
  BY <1>3, <1>12 DEF DropStale, DropEmpty, CompleteUnchanged, CompleteInserted
<1>13. ASSUME NEW w \in Worker, NEW k \in Job,
              Load(w, k) \/ AdvanceArtifact(w, k) \/ InsertArtifact(w, k)
       PROVE  Rowless(j)'
  BY <1>1, <1>13 DEF Load, AdvanceArtifact, InsertArtifact
<1>14. ASSUME NEW w \in Worker, LoadHashes(w) \/ EmbedSucceeds(w) \/ Abandon(w)
       PROVE  Rowless(j)'
  BY <1>1, <1>14 DEF LoadHashes, EmbedSucceeds, Abandon
<1>15. ASSUME NEW w \in Worker, NEW club \in Club, ReserveGranted(w, club) PROVE Rowless(j)'
  BY <1>1, <1>15 DEF ReserveGranted
<1>16. ASSUME NEW w \in Worker, NEW kind \in ProviderFailure, EmbedFails(w, kind)
       PROVE  Rowless(j)'
  BY <1>1, <1>16 DEF EmbedFails
<1>17. CASE BackfillSelect \/ UNCHANGED vars
  BY <1>1, <1>17 DEF BackfillSelect, vars, queue
<1> QED
  BY <1>5, <1>6, <1>7, <1>8, <1>9, <1>10, <1>11, <1>12, <1>13, <1>14, <1>15, <1>16, <1>17
     DEF Next, Work

\* Only a worker that is loading has jobs it has not loaded.
LEMMA LoadedInduction ==
    ASSUME TypeOK, ShapeInv, SingleWorker, [Next]_vars, \A w \in Worker : Loaded(w)
    PROVE  \A w \in Worker : Loaded(w)'
<1> SUFFICES ASSUME NEW w \in Worker PROVE Loaded(w)'
  OBVIOUS
<1> USE DEF Loaded, TypeOK, Goto
<1>0. (pc[w] # "load" => batch[w] = {}) /\ \A v \in Worker : v = w
  BY DEF SingleWorker
<1>1. ASSUME UNCHANGED <<pc, batch>> PROVE Loaded(w)'
  BY <1>0, <1>1
<1>2. ASSUME NEW label, Goto(w, label), label # "load", pc[w] # "load", UNCHANGED batch
      PROVE  Loaded(w)'
  BY <1>0, <1>2
<1>3. CASE Return(w)
  BY <1>3 DEF Return
<1>4. ASSUME NEW jobs, NEW label, ContinueWith(w, jobs, label), batch[w] = {}
      PROVE  Loaded(w)'
  BY <1>3, <1>4 DEF ContinueWith
<1>5. CASE Claim(w)
  BY <1>5 DEF Claim
<1>6. ASSUME NEW k \in Job, Load(w, k) PROVE Loaded(w)'
  BY <1>6 DEF Load
<1>7. ASSUME NEW k \in Job, AdvanceArtifact(w, k) \/ InsertArtifact(w, k) \/ InsertFails(w, k)
      PROVE  Loaded(w)'
  BY <1>1, <1>7 DEF AdvanceArtifact, InsertArtifact, InsertFails
<1>8. CASE LoadHashes(w) \/ EmbedSucceeds(w)
  BY <1>2, <1>8 DEF LoadHashes, EmbedSucceeds, locals
<1>9. ASSUME NEW club \in Club, ReserveGranted(w, club) PROVE Loaded(w)'
  BY <1>2, <1>9 DEF ReserveGranted
<1>10. ASSUME NEW kind \in ProviderFailure, EmbedFails(w, kind) PROVE Loaded(w)'
  BY <1>2, <1>10 DEF EmbedFails, locals, ProviderFailure
<1>11. CASE DropStale(w) \/ DropEmpty(w) \/ CompleteUnchanged(w) \/ CompleteInserted(w)
            \/ HandleTransient(w)
  BY <1>0, <1>4, <1>11 DEF DropStale, DropEmpty, CompleteUnchanged, CompleteInserted,
     HandleTransient
<1>12. ASSUME NEW club \in Club, ReserveRefused(w, club) PROVE Loaded(w)'
  BY <1>0, <1>4, <1>12 DEF ReserveRefused
<1>13. CASE HandleWork(w) \/ HandleFatal(w) \/ Abandon(w)
  BY <1>3, <1>13 DEF HandleWork, HandleFatal, Abandon
<1>14. ASSUME NEW c \in Content, Publish(c) PROVE Loaded(w)'
  BY <1>1, <1>14 DEF Publish, locals
<1>15. CASE BackfillSelect \/ UNCHANGED vars
  BY <1>1, <1>15 DEF BackfillSelect, vars, locals
<1>16. ASSUME NEW k \in Job, BackfillEnqueue(k) \/ TimePasses(k) PROVE Loaded(w)'
  BY <1>1, <1>16 DEF BackfillEnqueue, TimePasses, locals
<1> QED
  BY <1>0, <1>5, <1>6, <1>7, <1>8, <1>9, <1>10, <1>11, <1>12, <1>13, <1>14, <1>15, <1>16
     DEF Next, Work

\* AttemptsArePaid: with one worker, failures and crashes are the only things that bring
\* a job nearer to failed.  A claim counts an attempt, but deleting the job or blocking it
\* for want of budget takes it back, however often the job waits (worker of embedding.ts).
THEOREM AttemptsArePaid == ASSUME SingleWorker PROVE Spec => []OnlyFaultsCount
<1>1. Init => TypeOK /\ ShapeInv /\ CountInv
  <2> SUFFICES ASSUME Init PROVE CountInv
    BY InitialInvariants
  <2> QED
    BY DEF Init, CountInv, Paid, Loaded, Rowless
<1>2. TypeOK /\ ShapeInv /\ CountInv /\ [Next]_vars => (TypeOK /\ ShapeInv /\ CountInv)'
  <2> SUFFICES ASSUME TypeOK, ShapeInv, CountInv, [Next]_vars PROVE CountInv'
    BY TypeInduction, ShapeInduction
  <2>1. ASSUME NEW j \in Job PROVE Paid(j)'
    <3>1. CASE UNCHANGED vars
      BY <3>1 DEF vars, CountInv, Paid, Claimed
    <3> QED
      BY <3>1, WritersPaid, WorkerPaid DEF Next, CountInv
  <2>2. \A j \in Job : Rowless(j)'
    BY RowlessInduction DEF CountInv
  <2>3. \A w \in Worker : Loaded(w)'
    BY LoadedInduction DEF CountInv
  <2> QED
    BY <2>1, <2>2, <2>3 DEF CountInv
<1>3. TypeOK /\ ShapeInv /\ CountInv => OnlyFaultsCount
  <2> SUFFICES ASSUME TypeOK, ShapeInv, CountInv, NEW j \in Job
               PROVE  attempts[j] <= faults + (IF \E w \in Worker : pc[w] # "idle" THEN 1 ELSE 0)
    BY DEF OnlyFaultsCount
  <2>1. faults \in Nat /\ attempts[j] \in Nat /\ Paid(j)
    BY DEF TypeOK, CountInv
  <2>2. ASSUME NEW w \in Worker, j \in Claimed(w) PROVE pc[w] # "idle"
    BY <2>2 DEF ShapeInv, Shape, Claimed
  <2> QED
    BY <2>1, <2>2 DEF Paid
<1> QED
  BY <1>1, <1>2, <1>3, PTL DEF Spec

=============================================================================
