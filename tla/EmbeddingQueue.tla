--------------------------- MODULE EmbeddingQueue ---------------------------
(***************************************************************************)
(* The embedding index: jobs enqueued with every published version, the    *)
(* worker that turns them into artifacts (processPlane of                  *)
(* src/src/workers/embedding.ts) and the backfill that enqueues what has   *)
(* no artifact (src/src/workers/embedding-backfill.ts).                    *)
(*                                                                         *)
(* A content (or a member's club profile: the two planes run the same      *)
(* code) has versions 1, 2, ...; a version never changes, the last one is  *)
(* current.  A job is the pair of a content and the version it was         *)
(* enqueued for; next_attempt_at is abstracted to whether it has passed.   *)
(* Every query of the worker commits on its own, so publishing, the passing *)
(* of time, a crash or another worker may come between any two.            *)
(***************************************************************************)
EXTENDS Integers, FiniteSets

CONSTANTS
    Content,      \* contents with an embedding
    Club,         \* clubs
    ClubOf,       \* the club of a content
    MaxVersion,   \* bound on the versions of one content
    Text,         \* source texts, compared by computeSourceHash
    Empty,        \* the source text that trims to nothing
    Removed,      \* stands for the text of a version in state removed
    TextOf,       \* the source text of a version
    Worker,       \* worker processes
    BatchSize,    \* BATCH_SIZE
    MaxAttempts,  \* MAX_ATTEMPTS
    MaxFaults     \* bound on provider failures, store failures and crashes

Job == Content \X (1..MaxVersion)

ASSUME ContentAssumption ==
    /\ MaxVersion \in Nat
    /\ ClubOf \in [Content -> Club]
    /\ Empty \in Text
    /\ Removed \notin Text
    /\ TextOf \in [Job -> Text \cup {Removed}]

ASSUME WorkerAssumption ==
    /\ BatchSize \in Nat \ {0}
    /\ MaxAttempts \in Nat \ {0}
    /\ MaxFaults \in Nat

Waiting == {"queued", "budget_blocked"}
JobState == Waiting \cup {"none", "failed"}
ProviderFailure == {"transient", "work", "fatal"}
Label == {"idle", "load", "empty", "hashes", "advance", "club", "embed", "insert"}
            \cup ProviderFailure

\* version 0: no row.  vector is the text the stored embedding was computed of.
Artifact == [version : 0..MaxVersion, hash : Text \cup {Removed},
             vector : Text \cup {Removed}]

VARIABLES
    version,    \* version[c]: the current version number of c, 0 before the first
    state,      \* state[j]: state of the row of ai_embedding_jobs, or "none"
    attempts,   \* attempts[j]: attempt_count of the row
    due,        \* the jobs whose next_attempt_at has passed
    artifact,   \* artifact[c]: the row of the embeddings table for c
    selected,   \* versions the backfill has read and not yet enqueued
    faults,     \* failures so far
    pc,         \* pc[w]: the await worker w is at
    batch,      \* batch[w]: claimed jobs not yet loaded
    reclaimed,  \* reclaimed[w]: claimed jobs that were budget_blocked
    stale,      \* stale[w]: loaded jobs whose version is not current
    ready,      \* ready[w]: loaded jobs still to be dealt with
    same,       \* same[w]: ready jobs whose artifact has their hash
    group,      \* group[w]: the jobs of the club being embedded
    done        \* done[w]: jobs whose artifact is written, not yet deleted

queue == <<state, attempts, due>>
subject == <<version, selected>>
locals == <<batch, reclaimed, stale, ready, same, group, done>>
vars == <<version, state, attempts, due, artifact, selected, faults, pc, batch,
          reclaimed, stale, ready, same, group, done>>

NoArtifact == [version |-> 0, hash |-> Removed, vector |-> Removed]

Init ==
    /\ version = [c \in Content |-> 0]
    /\ state = [j \in Job |-> "none"]
    /\ attempts = [j \in Job |-> 0]
    /\ due = {}
    /\ artifact = [c \in Content |-> NoArtifact]
    /\ selected = {}
    /\ faults = 0
    /\ pc = [w \in Worker |-> "idle"]
    /\ batch = [w \in Worker |-> {}]
    /\ reclaimed = [w \in Worker |-> {}]
    /\ stale = [w \in Worker |-> {}]
    /\ ready = [w \in Worker |-> {}]
    /\ same = [w \in Worker |-> {}]
    /\ group = [w \in Worker |-> {}]
    /\ done = [w \in Worker |-> {}]

-----------------------------------------------------------------------------
(* Rows of the queue.                                                      *)

\* is_current, is_current_published.
CurrentPublished(j) ==
    /\ j[2] = version[j[1]]
    /\ TextOf[j] # Removed

\* insert ... on conflict do nothing: a row that exists, failed or not, stays.
Enqueue(j) ==
    IF state[j] = "none"
    THEN /\ state' = [state EXCEPT ![j] = "queued"]
         /\ attempts' = [attempts EXCEPT ![j] = 0]
         /\ due' = due \cup {j}
    ELSE UNCHANGED queue

\* completeJobs: the rows are deleted.
CompleteJobs(jobs) ==
    /\ state' = [j \in Job |-> IF j \in jobs THEN "none" ELSE state[j]]
    /\ attempts' = [j \in Job |-> IF j \in jobs THEN 0 ELSE attempts[j]]
    /\ due' = due \ jobs

Rows(jobs) == {j \in jobs : state[j] # "none"}

Exhausted(j) == attempts[j] >= MaxAttempts

\* retryJobs: the backoff is attempt_count minutes, none for a job whose only
\* claims were of a budget_blocked row; a failed row keeps its time.
RetryJobs(jobs) ==
    LET rows == Rows(jobs) IN
    /\ state' = [j \in Job |-> IF j \notin rows THEN state[j]
                               ELSE IF Exhausted(j) THEN "failed" ELSE "queued"]
    /\ due' = (due \ {j \in rows : ~Exhausted(j)}) \cup {j \in rows : attempts[j] = 0}
    /\ UNCHANGED attempts

\* Mutant: the attempt stays counted.
OneLessMutant(n) == n

\* greatest(attempt_count - 1, 0)
OneLess(n) == IF n = 0 THEN 0 ELSE n - 1

\* releaseJobs: after a configuration error the attempt does not count.
ReleaseJobs(jobs) ==
    /\ state' = [j \in Job |-> IF j \in Rows(jobs) THEN "queued" ELSE state[j]]
    /\ attempts' = [j \in Job |-> IF j \in Rows(jobs) THEN OneLess(attempts[j])
                                  ELSE attempts[j]]
    /\ due' = due \ jobs

\* blockJobsByBudget: nor does it when the club has no budget; the attempt of
\* a row that was blocked already was not counted at its claim.
BlockJobsByBudget(queuedJobs, reclaimedJobs) ==
    LET rows == Rows(queuedJobs \cup reclaimedJobs) IN
    /\ state' = [j \in Job |-> IF j \in rows THEN "budget_blocked" ELSE state[j]]
    /\ attempts' = [j \in Job |-> IF j \in rows \cap queuedJobs
                                  THEN OneLess(attempts[j]) ELSE attempts[j]]
    /\ due' = due \ rows

-----------------------------------------------------------------------------
(* Writers: content.create, content.update, content.remove, the profile    *)
(* writes and the backfill.                                                *)

\* A removal writes a version and enqueues nothing.
Enqueues(j) == TextOf[j] # Removed

\* A new version and its job commit in one transaction; a removed content
\* takes no further version.
Publish(c) ==
    LET j == <<c, version[c] + 1>> IN
    /\ version[c] < MaxVersion
    /\ version[c] > 0 => TextOf[<<c, version[c]>>] # Removed
    /\ version' = [version EXCEPT ![c] = version[c] + 1]
    /\ IF Enqueues(j) THEN Enqueue(j) ELSE UNCHANGED queue
    /\ UNCHANGED <<artifact, selected, faults, pc, locals>>

\* The backfill reads the current versions that have no artifact ...
BackfillSelect ==
    /\ selected = {}
    /\ selected' = {j \in Job : CurrentPublished(j) /\ artifact[j[1]].version = 0}
    /\ UNCHANGED <<version, queue, artifact, faults, pc, locals>>

\* ... and enqueues them one insert at a time.
BackfillEnqueue(j) ==
    /\ j \in selected
    /\ selected' = selected \ {j}
    /\ Enqueue(j)
    /\ UNCHANGED <<version, artifact, faults, pc, locals>>

\* next_attempt_at passes: a backoff, a lease or a budget recheck is over.
TimePasses(j) ==
    /\ state[j] \in Waiting
    /\ j \notin due
    /\ due' = due \cup {j}
    /\ UNCHANGED <<state, attempts, subject, artifact, faults, pc, locals>>

-----------------------------------------------------------------------------
(* processPlane.                                                           *)

Goto(w, label) == pc' = [pc EXCEPT ![w] = label]

\* The call returns or throws: its locals are gone.
Return(w) ==
    /\ Goto(w, "idle")
    /\ batch' = [batch EXCEPT ![w] = {}]
    /\ reclaimed' = [reclaimed EXCEPT ![w] = {}]
    /\ stale' = [stale EXCEPT ![w] = {}]
    /\ ready' = [ready EXCEPT ![w] = {}]
    /\ same' = [same EXCEPT ![w] = {}]
    /\ group' = [group EXCEPT ![w] = {}]
    /\ done' = [done EXCEPT ![w] = {}]

\* The jobs that are left go to label, or the call returns if there are none.
ContinueWith(w, jobs, label) ==
    IF jobs = {} THEN Return(w)
    ELSE /\ Goto(w, label)
         /\ ready' = [ready EXCEPT ![w] = jobs]
         /\ stale' = [stale EXCEPT ![w] = {}]
         /\ group' = [group EXCEPT ![w] = {}]
         /\ done' = [done EXCEPT ![w] = {}]
         /\ UNCHANGED <<batch, reclaimed, same>>

Fault ==
    /\ faults < MaxFaults
    /\ faults' = faults + 1

Claimable == {j \in due : state[j] \in Waiting}

\* The claim of a budget_blocked row does not count an attempt.
Counted(j) == state[j] = "queued"

\* claimJobs: up to BATCH_SIZE due rows, leased for five minutes.
Claim(w) ==
    /\ pc[w] = "idle"
    /\ \E jobs \in SUBSET Claimable :
         /\ jobs # {}
         /\ jobs = Claimable \/ Cardinality(jobs) = BatchSize
         /\ Cardinality(jobs) <= BatchSize
         /\ attempts' = [j \in Job |-> IF j \in jobs /\ Counted(j)
                                       THEN attempts[j] + 1 ELSE attempts[j]]
         /\ state' = [j \in Job |-> IF j \in jobs THEN "queued" ELSE state[j]]
         /\ due' = due \ jobs
         /\ batch' = [batch EXCEPT ![w] = jobs]
         /\ reclaimed' = [reclaimed EXCEPT ![w] = {j \in jobs : ~Counted(j)}]
    /\ Goto(w, "load")
    /\ UNCHANGED <<subject, artifact, faults, stale, ready, same, group, done>>

\* loadProfileVersion, loadEntityVersion: one query per job.
Load(w, j) ==
    /\ pc[w] = "load"
    /\ j \in batch[w]
    /\ batch' = [batch EXCEPT ![w] = @ \ {j}]
    /\ IF CurrentPublished(j)
       THEN ready' = [ready EXCEPT ![w] = @ \cup {j}] /\ UNCHANGED stale
       ELSE stale' = [stale EXCEPT ![w] = @ \cup {j}] /\ UNCHANGED ready
    /\ UNCHANGED <<subject, queue, artifact, faults, pc, reclaimed, same, group, done>>

DropStale(w) ==
    /\ pc[w] = "load"
    /\ batch[w] = {}
    /\ CompleteJobs(stale[w])
    /\ ContinueWith(w, ready[w], "empty")
    /\ UNCHANGED <<subject, artifact, faults>>

DropEmpty(w) ==
    LET empty == {j \in ready[w] : TextOf[j] = Empty} IN
    /\ pc[w] = "empty"
    /\ CompleteJobs(empty)
    /\ ContinueWith(w, ready[w] \ empty, "hashes")
    /\ UNCHANGED <<subject, artifact, faults>>

\* Mutant: any content that has an artifact counts as unchanged.
UnchangedMutant(j) == artifact[j[1]].version > 0

Unchanged(j) ==
    /\ artifact[j[1]].version > 0
    /\ artifact[j[1]].hash = TextOf[j]

\* loadExistingSourceHashesByArtifactIdentity
LoadHashes(w) ==
    /\ pc[w] = "hashes"
    /\ same' = [same EXCEPT ![w] = {j \in ready[w] : Unchanged(j)}]
    /\ Goto(w, "advance")
    /\ UNCHANGED <<subject, queue, artifact, faults, batch, reclaimed, stale, ready,
                   group, done>>

\* advanceArtifactVersionWithoutReembedding: one update per job; the update
\* finds the row by content, not by the hash that was read.
AdvanceArtifact(w, j) ==
    /\ pc[w] = "advance"
    /\ j \in same[w]
    /\ artifact' = [artifact EXCEPT ![j[1]].version = j[2], ![j[1]].hash = TextOf[j]]
    /\ same' = [same EXCEPT ![w] = @ \ {j}]
    /\ done' = [done EXCEPT ![w] = @ \cup {j}]
    /\ UNCHANGED <<subject, queue, faults, pc, batch, reclaimed, stale, ready, group>>

CompleteUnchanged(w) ==
    /\ pc[w] = "advance"
    /\ same[w] = {}
    /\ CompleteJobs(done[w])
    /\ ContinueWith(w, ready[w] \ done[w], "club")
    /\ UNCHANGED <<subject, artifact, faults>>

ReadyOf(w, club) == {j \in ready[w] : ClubOf[j[1]] = club}

\* The club has budget for its group: reserveClubSpendBudget returns.
ReserveGranted(w, club) ==
    /\ pc[w] = "club"
    /\ ReadyOf(w, club) # {}
    /\ group' = [group EXCEPT ![w] = ReadyOf(w, club)]
    /\ Goto(w, "embed")
    /\ UNCHANGED <<subject, queue, artifact, faults, batch, reclaimed, stale, ready,
                   same, done>>

\* quota_exceeded: the group waits for the budget, the other clubs go on.
ReserveRefused(w, club) ==
    LET jobs == ReadyOf(w, club) IN
    /\ pc[w] = "club"
    /\ jobs # {}
    /\ BlockJobsByBudget(jobs \ reclaimed[w], jobs \cap reclaimed[w])
    /\ ContinueWith(w, ready[w] \ jobs, "club")
    /\ UNCHANGED <<subject, artifact, faults>>

\* embedWithTuple answers, and the reservation is finalized.
EmbedSucceeds(w) ==
    /\ pc[w] = "embed"
    /\ Goto(w, "insert")
    /\ UNCHANGED <<subject, queue, artifact, faults, locals>>

\* embedWithTuple throws, and the reservation is released.
EmbedFails(w, kind) ==
    /\ pc[w] = "embed"
    /\ Fault
    /\ Goto(w, kind)
    /\ UNCHANGED <<subject, queue, artifact, locals>>

\* A rate limit or a timeout: the group is retried, the other clubs go on.
HandleTransient(w) ==
    /\ pc[w] = "transient"
    /\ RetryJobs(group[w])
    /\ ContinueWith(w, ready[w] \ group[w], "club")
    /\ UNCHANGED <<subject, artifact, faults>>

\* Any other provider error is thrown; the other clubs keep their lease.
HandleWork(w) ==
    /\ pc[w] = "work"
    /\ RetryJobs(group[w])
    /\ Return(w)
    /\ UNCHANGED <<subject, artifact, faults>>

\* A configuration error ends the process; the platform starts it again.
HandleFatal(w) ==
    /\ pc[w] = "fatal"
    /\ ReleaseJobs(group[w])
    /\ Return(w)
    /\ UNCHANGED <<subject, artifact, faults>>

\* Mutant: the upsert keeps the version the row had.
StoredMutant(j) == [version |-> artifact[j[1]].version, hash |-> TextOf[j],
                    vector |-> TextOf[j]]

Stored(j) == [version |-> j[2], hash |-> TextOf[j], vector |-> TextOf[j]]

\* insertProfileArtifact, insertEntityArtifact: an unconditional upsert.
InsertArtifact(w, j) ==
    /\ pc[w] = "insert"
    /\ j \in group[w]
    /\ artifact' = [artifact EXCEPT ![j[1]] = Stored(j)]
    /\ group' = [group EXCEPT ![w] = @ \ {j}]
    /\ ready' = [ready EXCEPT ![w] = @ \ {j}]
    /\ done' = [done EXCEPT ![w] = @ \cup {j}]
    /\ UNCHANGED <<subject, queue, faults, pc, batch, reclaimed, stale, same>>

\* The insert of one artifact fails: only its job is retried.
InsertFails(w, j) ==
    /\ pc[w] = "insert"
    /\ j \in group[w]
    /\ Fault
    /\ RetryJobs({j})
    /\ group' = [group EXCEPT ![w] = @ \ {j}]
    /\ ready' = [ready EXCEPT ![w] = @ \ {j}]
    /\ UNCHANGED <<subject, artifact, pc, batch, reclaimed, stale, same, done>>

\* Mutant: whatever has been claimed is deleted, the jobs whose insert failed as well.
CompletedMutant(w) == {j \in Job : state[j] # "none" /\ j \notin due}

Completed(w) == done[w]

CompleteInserted(w) ==
    /\ pc[w] = "insert"
    /\ group[w] = {}
    /\ CompleteJobs(Completed(w))
    /\ ContinueWith(w, ready[w], "club")
    /\ UNCHANGED <<subject, artifact, faults>>

\* The process dies, or a query throws: the runner calls processPlane again.
Abandon(w) ==
    /\ pc[w] # "idle"
    /\ Fault
    /\ Return(w)
    /\ UNCHANGED <<subject, queue, artifact>>

-----------------------------------------------------------------------------
Work(w) ==
    \/ Claim(w)
    \/ \E j \in Job : Load(w, j) \/ AdvanceArtifact(w, j) \/ InsertArtifact(w, j)
    \/ DropStale(w)
    \/ DropEmpty(w)
    \/ LoadHashes(w)
    \/ CompleteUnchanged(w)
    \/ \E club \in Club : ReserveGranted(w, club) \/ ReserveRefused(w, club)
    \/ EmbedSucceeds(w)
    \/ HandleTransient(w)
    \/ HandleWork(w)
    \/ HandleFatal(w)
    \/ CompleteInserted(w)

Next ==
    \/ \E c \in Content : Publish(c)
    \/ BackfillSelect
    \/ \E j \in Job : BackfillEnqueue(j) \/ TimePasses(j)
    \/ \E w \in Worker :
         \/ Work(w)
         \/ \E kind \in ProviderFailure : EmbedFails(w, kind)
         \/ \E j \in Job : InsertFails(w, j)
         \/ Abandon(w)

Spec == Init /\ [][Next]_vars

-----------------------------------------------------------------------------
\* Every variable has its type, and the locals of a worker fit its label.
TypeOK ==
    /\ version \in [Content -> 0..MaxVersion]
    /\ state \in [Job -> JobState]
    /\ attempts \in [Job -> Nat]
    /\ due \in SUBSET Job
    /\ artifact \in [Content -> Artifact]
    /\ selected \in SUBSET Job
    /\ faults \in 0..MaxFaults
    /\ pc \in [Worker -> Label]
    /\ batch \in [Worker -> SUBSET Job]
    /\ reclaimed \in [Worker -> SUBSET Job]
    /\ stale \in [Worker -> SUBSET Job]
    /\ ready \in [Worker -> SUBSET Job]
    /\ same \in [Worker -> SUBSET Job]
    /\ group \in [Worker -> SUBSET Job]
    /\ done \in [Worker -> SUBSET Job]

Searchable(j) == CurrentPublished(j) /\ TextOf[j] # Empty

Indexed(j) == artifact[j[1]].version = j[2]

\* The current version of every content is indexed or still has its job:
\* whatever crashes, retries and edits come between the load of a job and its
\* deletion, the worker never deletes the last trace of a version that search
\* should find (completeJobs in processPlane).
NoCurrentForgotten ==
    \A j \in Job : Searchable(j) => Indexed(j) \/ state[j] # "none"

\* The vector of an artifact was computed from the text of the version the
\* artifact names, also when advanceArtifactVersionWithoutReembedding moved
\* the version on a hash read earlier.
EmbeddingMatchesVersion ==
    \A j \in Job : Indexed(j) => artifact[j[1]].vector = TextOf[j]

\* An artifact never goes back to an earlier version, though the upsert of
\* insertEntityArtifact is unconditional and jobs finish out of order.
ArtifactMovesForward ==
    [][\A c \in Content : artifact'[c].version >= artifact[c].version]_vars

\* Failures of the provider and of inserts, and crashes, are the only things
\* that use up attempts: waiting for the budget of the club, however often,
\* does not bring a job nearer to failed.
OnlyFaultsCount ==
    \A j \in Job :
        attempts[j] <= faults + (IF \E w \in Worker : pc[w] # "idle" THEN 1 ELSE 0)

\* A worker is scheduled again whenever it can go on, and time passes.
Fairness ==
    /\ \A w \in Worker : WF_vars(Work(w))
    /\ \A j \in Job : WF_vars(TimePasses(j))

LiveSpec == Spec /\ Fairness

\* The job of a searchable version comes to an end the operator can see: the
\* version is indexed or superseded, or its job is blocked or failed.
EveryVersionSettles ==
    \A j \in Job :
        Searchable(j) ~> \/ Indexed(j)
                         \/ ~Searchable(j)
                         \/ state[j] \in {"failed", "budget_blocked"}

=============================================================================
