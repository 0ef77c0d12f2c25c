------------------------- MODULE NormalizationQueue -------------------------
(***************************************************************************)
(* The durable normalization queue of the FinDB backend: a job and its     *)
(* transactional outbox in PostgreSQL, one dispatcher that publishes       *)
(* outbox rows to RabbitMQ, and Celery workers that execute a delivery     *)
(* under a per-dataset advisory lock                                       *)
(* (backend/app/services/normalization_queue.py).                          *)
(*                                                                         *)
(* One step is one committed transaction, one broker call or one read of   *)
(* a row that is used later.  Every run has one job, and every delivery    *)
(* id is minted together with its outbox row, so delivery ids are the      *)
(* indices of outbox[r].                                                   *)
(*                                                                         *)
(* Clocks are folded into nondeterminism: a back-off, an outbox claim, a   *)
(* lease or a publication age may elapse before any step, so a guard of    *)
(* the form "older than" is simply allowed to be true.  The one relation   *)
(* between clocks that matters is kept: the hard task limit is shorter     *)
(* than the lease (config.py 87-88), so a lease never expires under a      *)
(* task that is still executing (see StaleJobs).                           *)
(***************************************************************************)
EXTENDS Naturals, Sequences, FiniteSets

CONSTANTS Runs,           \* ingestion runs, each with at most one job
          Datasets,       \* dataset keys
          DatasetOf,      \* the dataset of each run
          Workers,        \* Celery prefork processes (--concurrency)
          MaxAttempts,    \* NORMALIZATION_MAX_ATTEMPTS
          BatchSize,      \* OUTBOX_BATCH_SIZE
          MaxDeliveries,  \* bound on the delivery generations of one job
          MaxEager,       \* below it a delivery in flight may be superseded
          MaxFaults       \* bound on crashes, losses, duplicates, outages

ASSUME ConstantsAssumption ==
    /\ DatasetOf \in [Runs -> Datasets]
    /\ MaxAttempts \in Nat \ {0}
    /\ BatchSize \in Nat \ {0}
    /\ MaxDeliveries \in Nat \ {0}
    /\ MaxEager \in 0 .. MaxDeliveries
    /\ MaxFaults \in Nat

VARIABLES job,         \* normalization_job: status, delivery_id, attempt_count
          run,         \* ingestion_run.status
          outbox,      \* normalization_outbox rows of each job, oldest first
          queue,       \* copies of each delivery in the RabbitMQ queue
          pc,          \* where each worker is inside execute_normalization
          task,        \* the message a worker holds and the rows it has read
          dispatcher,  \* the dispatcher process
          faults       \* faults spent so far

vars == <<job, run, outbox, queue, pc, task, dispatcher, faults>>

TERMINAL_STATUSES == {"completed", "completed_with_errors", "failed"}
Statuses == {"queued", "processing", "retrying"} \cup TERMINAL_STATUSES
ActiveRow == {"pending", "publishing"}
Deliveries == 1 .. MaxDeliveries
NoTask == [run |-> "none"]
NoRow == <<>>

\* job, delivery_id, attempts and run_status are the session's copies of the
\* job row and the run row.
Tasks == [run : Runs, delivery : Deliveries, job : Statuses,
          delivery_id : Deliveries, attempts : Nat,
          run_status : Statuses \cup {"unread"}]

Accepted == {r \in Runs : job[r].status # "none"}
Active(r) == \E d \in 1 .. Len(outbox[r]) : outbox[r][d] \in ActiveRow

\* The bounds on delivery generations.  Contention and an impatient
\* reconciliation may repeat for ever; they stop at MaxEager so that the
\* deliveries the job really needs still fit below MaxDeliveries.
InFlight(r) ==
    \/ queue[r][job[r].delivery] > 0
    \/ \E w \in Workers : /\ pc[w] # "idle"
                          /\ task[w].run = r
                          /\ task[w].delivery = job[r].delivery
CanMint(r) == Len(outbox[r]) < MaxDeliveries
CanSupersede(r) == Len(outbox[r]) < MaxEager

\* Every path that mints a delivery for the jobs in S does so in one
\* transaction with the new pending outbox row.
Mint(S, status) ==
    /\ job' = [r \in Runs |->
                 IF r \in S
                 THEN [status |-> status, delivery |-> Len(outbox[r]) + 1,
                       attempts |-> job[r].attempts]
                 ELSE job[r]]
    /\ outbox' = [r \in Runs |->
                    IF r \in S THEN Append(outbox[r], "pending") ELSE outbox[r]]

SetStatus(r, status) ==
    job' = [job EXCEPT ![r] = [status |-> status, delivery |-> job[r].delivery,
                               attempts |-> job[r].attempts]]

-----------------------------------------------------------------------------
Init ==
    /\ job = [r \in Runs |-> [status |-> "none", delivery |-> 0, attempts |-> 0]]
    /\ run = [r \in Runs |-> "none"]
    /\ outbox = [r \in Runs |-> << >>]
    /\ queue = [r \in Runs |-> [d \in Deliveries |-> 0]]
    /\ pc = [w \in Workers |-> "idle"]
    /\ task = [w \in Workers |-> NoTask]
    /\ dispatcher = [pc |-> "start", batch |-> {}, row |-> NoRow, down |-> FALSE]
    /\ faults = 0

\* Acceptance commits the run, its job and the first outbox row together.
CreateNormalizationJob(r) ==
    /\ job[r].status = "none"
    /\ job' = [job EXCEPT ![r] = [status |-> "queued", delivery |-> 1, attempts |-> 0]]
    /\ run' = [run EXCEPT ![r] = "queued"]
    /\ outbox' = [outbox EXCEPT ![r] = <<"pending">>]
    /\ UNCHANGED <<queue, pc, task, dispatcher, faults>>

-----------------------------------------------------------------------------
(* The dispatcher process.                                                 *)

\* Tasks past their begin commit: each of them started within the hard time
\* limit, so no lease taken by them has expired.
Executing(r) == \E w \in Workers : pc[w] = "normalizing" /\ task[w].run = r

\* Faulty variants of StaleJobs: without the active-outbox test, and without
\* the branch for queued and retrying jobs.
StaleJobsIgnoringOutbox == {r \in Accepted :
                 /\ job[r].status \notin TERMINAL_STATUSES
                 /\ job[r].status = "processing" => ~Executing(r)
                 /\ CanMint(r)}

StaleJobsOnlyExpiredLeases == {r \in Accepted :
                 /\ job[r].status = "processing"
                 /\ ~Active(r)
                 /\ ~Executing(r)
                 /\ CanMint(r)}

\* Jobs reconcile_stale_jobs may select once their clocks have run out.
StaleJobs == {r \in Accepted :
                 /\ job[r].status \notin TERMINAL_STATUSES
                 /\ ~Active(r)
                 /\ job[r].status = "processing" => ~Executing(r)
                 /\ CanMint(r)
                 /\ InFlight(r) => CanSupersede(r)}

\* S are the stale jobs whose clocks have run out; the run row is not touched.
ReconcileStaleJobs(S) ==
    /\ dispatcher.pc \in {"start", "poll", "repair"}
    /\ S \subseteq StaleJobs
    /\ dispatcher.pc = "poll" /\ ~dispatcher.down => S # {}
    /\ Mint(S, "queued")
    /\ dispatcher' = [dispatcher EXCEPT
                        !.pc = IF dispatcher.batch = {} THEN "poll" ELSE "batch",
                        !.down = FALSE]
    /\ UNCHANGED <<run, queue, pc, task, faults>>

\* declare_topology fails: nothing is reconciled until the broker answers.
TopologyProbeFails ==
    /\ dispatcher.pc = "poll"
    /\ ~dispatcher.down
    /\ faults < MaxFaults
    /\ faults' = faults + 1
    /\ dispatcher' = [dispatcher EXCEPT !.down = TRUE]
    /\ UNCHANGED <<job, run, outbox, queue, pc, task>>

\* Rows that are due: pending, or publishing under a claim that has expired.
Claimable == {row \in Runs \X Deliveries :
                 /\ row[2] <= Len(outbox[row[1]])
                 /\ outbox[row[1]][row[2]] \in ActiveRow}

ClaimOutboxBatch(B) ==
    /\ dispatcher.pc = "poll"
    /\ B \subseteq Claimable
    /\ B # {}
    /\ Cardinality(B) <= BatchSize
    /\ outbox' = [r \in Runs |->
                    [d \in 1 .. Len(outbox[r]) |->
                       IF <<r, d>> \in B THEN "publishing" ELSE outbox[r][d]]]
    /\ dispatcher' = [dispatcher EXCEPT !.pc = "batch", !.batch = B]
    /\ UNCHANGED <<job, run, queue, pc, task, faults>>

\* The broker confirms the message.
PublishOutboxEvent(r, d) ==
    /\ dispatcher.pc = "batch"
    /\ <<r, d>> \in dispatcher.batch
    /\ queue' = [queue EXCEPT ![r][d] = @ + 1]
    /\ dispatcher' = [dispatcher EXCEPT !.pc = "published", !.row = <<r, d>>]
    /\ UNCHANGED <<job, run, outbox, pc, task, faults>>

\* send_task raises: rejected, or enqueued with its confirmation lost.
PublishRaises(r, d, enqueued) ==
    /\ dispatcher.pc = "batch"
    /\ <<r, d>> \in dispatcher.batch
    /\ faults < MaxFaults
    /\ faults' = faults + 1
    /\ queue' = IF enqueued THEN [queue EXCEPT ![r][d] = @ + 1] ELSE queue
    /\ dispatcher' = [dispatcher EXCEPT !.pc = "failed", !.row = <<r, d>>, !.down = TRUE]
    /\ UNCHANGED <<job, run, outbox, pc, task>>

\* Neither mark compares the row with the claim it was made under.
Marked(status) ==
    LET r == dispatcher.row[1]
        d == dispatcher.row[2]
    IN  outbox' = [outbox EXCEPT ![r] = [outbox[r] EXCEPT ![d] = status]]

MarkOutboxPublished ==
    LET rest == dispatcher.batch \ {dispatcher.row} IN
    /\ dispatcher.pc = "published"
    /\ Marked("published")
    /\ dispatcher' = [dispatcher EXCEPT
                        !.pc = IF dispatcher.down THEN "repair"
                               ELSE IF rest = {} THEN "poll" ELSE "batch",
                        !.batch = rest,
                        !.row = NoRow]
    /\ UNCHANGED <<job, run, queue, pc, task, faults>>

MarkOutboxPublishFailure ==
    LET rest == dispatcher.batch \ {dispatcher.row} IN
    /\ dispatcher.pc = "failed"
    /\ Marked("pending")
    /\ dispatcher' = [dispatcher EXCEPT
                        !.pc = IF rest = {} THEN "poll" ELSE "batch",
                        !.batch = rest,
                        !.row = NoRow]
    /\ UNCHANGED <<job, run, queue, pc, task, faults>>

\* The process dies and is restarted (restart: unless-stopped); claimed rows
\* stay "publishing" until their claim expires.
DispatcherCrash ==
    /\ dispatcher.pc # "start"
    /\ faults < MaxFaults
    /\ faults' = faults + 1
    /\ dispatcher' = [pc |-> "start", batch |-> {}, row |-> NoRow, down |-> FALSE]
    /\ UNCHANGED <<job, run, outbox, queue, pc, task>>

-----------------------------------------------------------------------------
(* A worker executing one delivery (execute_normalization).                *)

\* Faulty variant: the finished task is not cleared.
ReleaseKeepingTask(w) ==
    /\ pc' = [pc EXCEPT ![w] = "idle"]
    /\ UNCHANGED task

Release(w) ==
    /\ pc' = [pc EXCEPT ![w] = "idle"]
    /\ task' = [task EXCEPT ![w] = NoTask]

\* The message is received and the job row is read, without a lock.
ReadJob(w, r, d) ==
    /\ pc[w] = "idle"
    /\ queue[r][d] > 0
    /\ queue' = [queue EXCEPT ![r][d] = @ - 1]
    /\ pc' = [pc EXCEPT ![w] = "jobRead"]
    /\ task' = [task EXCEPT ![w] =
                  [run |-> r, delivery |-> d,
                   job |-> job[r].status, delivery_id |-> job[r].delivery,
                   attempts |-> job[r].attempts, run_status |-> "unread"]]
    /\ UNCHANGED <<job, run, outbox, dispatcher, faults>>

\* Faulty variant: the terminal check is missing.
SeesTerminalNever(w) == FALSE

SeesTerminal(w) == run[task[w].run] \in TERMINAL_STATUSES \/ task[w].job \in TERMINAL_STATUSES

\* A terminal run or job: the message is acknowledged; a job that was read
\* open takes the run's status.
IgnoreTerminal(w) ==
    /\ pc[w] = "jobRead"
    /\ SeesTerminal(w)
    /\ IF task[w].job \in TERMINAL_STATUSES THEN UNCHANGED job
       ELSE SetStatus(task[w].run, run[task[w].run])
    /\ Release(w)
    /\ UNCHANGED <<run, outbox, queue, dispatcher, faults>>

IgnoreStale(w) ==
    /\ pc[w] = "jobRead"
    /\ ~SeesTerminal(w)
    /\ task[w].delivery_id # task[w].delivery
    /\ Release(w)
    /\ UNCHANGED <<job, run, outbox, queue, dispatcher, faults>>

ReadRun(w) ==
    /\ pc[w] = "jobRead"
    /\ ~SeesTerminal(w)
    /\ task[w].delivery_id = task[w].delivery
    /\ pc' = [pc EXCEPT ![w] = "tryLock"]
    /\ task' = [task EXCEPT ![w].run_status = run[task[w].run]]
    /\ UNCHANGED <<job, run, outbox, queue, dispatcher, faults>>

\* pg_try_advisory_lock: a session lock, held until the unlock or until the
\* connection is gone.
HoldsLock(w, ds) == /\ pc[w] \in {"locked", "normalizing", "unlocking"}
                    /\ DatasetOf[task[w].run] = ds
LockFree(ds) == \A w \in Workers : ~HoldsLock(w, ds)

AcquireLock(w) ==
    /\ pc[w] = "tryLock"
    /\ LockFree(DatasetOf[task[w].run])
    /\ pc' = [pc EXCEPT ![w] = "locked"]
    /\ UNCHANGED <<job, run, outbox, queue, task, dispatcher, faults>>

LockContended(w) ==
    /\ pc[w] = "tryLock"
    /\ ~LockFree(DatasetOf[task[w].run])
    /\ CanSupersede(task[w].run)
    /\ pc' = [pc EXCEPT ![w] = "contended"]
    /\ UNCHANGED <<job, run, outbox, queue, task, dispatcher, faults>>

\* Faulty variant: the decision is taken on the preloaded job.
DeferrableFromCopy(w) ==
    /\ task[w].job \notin TERMINAL_STATUSES \cup {"processing"}
    /\ ~Active(task[w].run)

\* The re-read under FOR UPDATE that _defer_for_lock_contention decides on.
Deferrable(w) ==
    LET r == task[w].run IN
    /\ job[r].status \notin TERMINAL_STATUSES \cup {"processing"}
    /\ job[r].delivery = task[w].delivery
    /\ ~Active(r)

DeferForLockContention(w) ==
    LET r == task[w].run IN
    /\ pc[w] = "contended"
    /\ Deferrable(w)
    /\ CanMint(r)
    /\ Mint({r}, "queued")
    /\ Release(w)
    /\ UNCHANGED <<run, queue, dispatcher, faults>>

DropContended(w) ==
    /\ pc[w] = "contended"
    /\ ~Deferrable(w)
    /\ Release(w)
    /\ UNCHANGED <<job, run, outbox, queue, dispatcher, faults>>

\* The first commit under the lock.  It is computed from the copies read
\* before the lock, and the ORM writes only the columns that differ from them.
BeginProcessing(w) ==
    LET r == task[w].run
        copy == task[w]
        fresh == copy.job # "processing"
    IN
    /\ pc[w] = "locked"
    /\ job' = [job EXCEPT ![r] =
                 [status |-> IF fresh THEN "processing" ELSE job[r].status,
                  delivery |-> job[r].delivery,
                  attempts |-> IF fresh THEN copy.attempts + 1 ELSE job[r].attempts]]
    /\ run' = [run EXCEPT ![r] =
                 IF copy.run_status # "processing" THEN "processing" ELSE run[r]]
    /\ pc' = [pc EXCEPT ![w] = "normalizing"]
    /\ task' = [task EXCEPT ![w] = [@ EXCEPT !.job = "processing",
                                             !.run_status = "processing"]]
    /\ UNCHANGED <<outbox, queue, dispatcher, faults>>

Finalize(w, status) ==
    LET r == task[w].run IN
    /\ SetStatus(r, status)
    /\ run' = [run EXCEPT ![r] = status]
    /\ pc' = [pc EXCEPT ![w] = "unlocking"]
    /\ UNCHANGED <<outbox, queue, task, dispatcher, faults>>

\* Canonical rows, run and job commit together.
CompleteNormalization(w, status) ==
    /\ pc[w] = "normalizing"
    /\ status \in {"completed", "completed_with_errors"}
    /\ Finalize(w, status)

MarkPermanentFailure(w) ==
    /\ pc[w] = "normalizing"
    /\ Finalize(w, "failed")

\* Faulty variant: the run row is forgotten.
RetryExhaustedJobOnly(w) ==
    /\ pc[w] = "normalizing"
    /\ job[task[w].run].attempts >= MaxAttempts
    /\ SetStatus(task[w].run, "failed")
    /\ pc' = [pc EXCEPT ![w] = "unlocking"]
    /\ UNCHANGED <<run, outbox, queue, task, dispatcher, faults>>

\* A retryable error, once attempt_count has reached max_attempts.
RetryExhausted(w) ==
    /\ pc[w] = "normalizing"
    /\ job[task[w].run].attempts >= MaxAttempts
    /\ Finalize(w, "failed")

\* A retryable error: the row is locked and re-read but its status is not
\* looked at; job, run and the next delivery commit together.
ScheduleRetry(w) ==
    LET r == task[w].run IN
    /\ pc[w] = "normalizing"
    /\ job[r].attempts < MaxAttempts
    /\ ~Active(r)
    /\ CanMint(r)
    /\ Mint({r}, "retrying")
    /\ run' = [run EXCEPT ![r] = "retrying"]
    /\ pc' = [pc EXCEPT ![w] = "unlocking"]
    /\ UNCHANGED <<queue, task, dispatcher, faults>>

\* The message is put back by Celery's retry or by the broker, or it is lost
\* to the dead-letter queue or to an acknowledgement on timeout.
GiveUp(w, requeued) ==
    /\ queue' = IF requeued
                THEN [queue EXCEPT ![task[w].run][task[w].delivery] = @ + 1]
                ELSE queue
    /\ Release(w)

\* The new outbox row meets uq_normalization_outbox_active_job because the
\* newest delivery is not marked published yet: the transaction rolls back,
\* the error leaves the handler, the connection drops the lock and Celery
\* retries the same delivery (giving up only after NORMALIZATION_MAX_ATTEMPTS
\* retries of one message; that loss is an ExecutionLost).
RetryConflict(w) ==
    /\ pc[w] = "normalizing"
    /\ job[task[w].run].attempts < MaxAttempts
    /\ Active(task[w].run)
    /\ GiveUp(w, TRUE)
    /\ UNCHANGED <<job, run, outbox, dispatcher, faults>>

Unlock(w) ==
    /\ pc[w] = "unlocking"
    /\ Release(w)
    /\ UNCHANGED <<job, run, outbox, queue, dispatcher, faults>>

-----------------------------------------------------------------------------
(* Faults of workers and broker.                                           *)

\* The process is lost, killed at the hard time limit, or the database is
\* out of reach: nothing uncommitted survives and the lock is free again.
ExecutionLost(w, requeued) ==
    /\ pc[w] # "idle"
    /\ faults < MaxFaults
    /\ faults' = faults + 1
    /\ GiveUp(w, requeued)
    /\ UNCHANGED <<job, run, outbox, dispatcher>>

\* The consumer connection drops: the broker redelivers while the task runs on.
Redeliver(w) ==
    /\ pc[w] # "idle"
    /\ faults < MaxFaults
    /\ faults' = faults + 1
    /\ queue' = [queue EXCEPT ![task[w].run][task[w].delivery] = @ + 1]
    /\ UNCHANGED <<job, run, outbox, pc, task, dispatcher>>

\* The broker volume is destroyed; PostgreSQL is intact.
BrokerLoss ==
    /\ faults < MaxFaults
    /\ faults' = faults + 1
    /\ queue' = [r \in Runs |-> [d \in Deliveries |-> 0]]
    /\ UNCHANGED <<job, run, outbox, pc, task, dispatcher>>

-----------------------------------------------------------------------------
DispatcherNext ==
    \/ \E S \in SUBSET StaleJobs : ReconcileStaleJobs(S)
    \/ TopologyProbeFails
    \/ \E B \in SUBSET Claimable : ClaimOutboxBatch(B)
    \/ \E r \in Runs, d \in Deliveries :
          \/ PublishOutboxEvent(r, d)
          \/ \E enqueued \in BOOLEAN : PublishRaises(r, d, enqueued)
    \/ MarkOutboxPublished
    \/ MarkOutboxPublishFailure
    \/ DispatcherCrash

Conclude(w) ==
    \/ \E status \in TERMINAL_STATUSES : CompleteNormalization(w, status)
    \/ MarkPermanentFailure(w)
    \/ RetryExhausted(w)
    \/ ScheduleRetry(w)
    \/ RetryConflict(w)

WorkerStep(w) ==
    \/ IgnoreTerminal(w) \/ IgnoreStale(w) \/ ReadRun(w)
    \/ AcquireLock(w) \/ LockContended(w)
    \/ DeferForLockContention(w) \/ DropContended(w)
    \/ BeginProcessing(w)
    \/ Conclude(w)
    \/ Unlock(w)

WorkerNext(w) ==
    \/ \E r \in Runs, d \in Deliveries : ReadJob(w, r, d)
    \/ WorkerStep(w)
    \/ \E requeued \in BOOLEAN : ExecutionLost(w, requeued)
    \/ Redeliver(w)

Next ==
    \/ \E r \in Runs : CreateNormalizationJob(r)
    \/ DispatcherNext
    \/ \E w \in Workers : WorkerNext(w)
    \/ BrokerLoss

Spec == Init /\ [][Next]_vars

\* The dispatcher loop and every worker keep running (the container runtime
\* restarts what crashed), the broker hands out what it holds, and clocks run
\* out.  Weak fairness is enough because every supply of new work is bounded.
Fairness ==
    /\ WF_vars(\E S \in SUBSET StaleJobs : ReconcileStaleJobs(S))
    /\ WF_vars(\E B \in SUBSET Claimable : ClaimOutboxBatch(B))
    /\ WF_vars(\E r \in Runs, d \in Deliveries : PublishOutboxEvent(r, d))
    /\ WF_vars(MarkOutboxPublished \/ MarkOutboxPublishFailure)
    /\ \A w \in Workers :
          /\ WF_vars(\E r \in Runs, d \in Deliveries : ReadJob(w, r, d))
          /\ WF_vars(WorkerStep(w))

FairSpec == Spec /\ Fairness

-----------------------------------------------------------------------------
(* Properties.                                                             *)

JobType == job \in [Runs -> [status : Statuses \cup {"none"},
                             delivery : 0 .. MaxDeliveries, attempts : Nat]]
RunType == run \in [Runs -> Statuses \cup {"none"}]
OutboxType == outbox \in [Runs -> Seq(ActiveRow \cup {"published"})]
QueueType == queue \in [Runs -> [Deliveries -> Nat]]
TaskType ==
    /\ pc \in [Workers -> {"idle", "jobRead", "tryLock", "contended", "locked",
                           "normalizing", "unlocking"}]
    /\ task \in [Workers -> Tasks \cup {NoTask}]
    /\ \A w \in Workers : IF pc[w] = "idle" THEN task[w] = NoTask ELSE task[w] \in Tasks
DispatcherType ==
    dispatcher \in [pc : {"start", "poll", "batch", "published", "failed", "repair"},
                    batch : SUBSET (Runs \X Deliveries),
                    row : (Runs \X Deliveries) \cup {NoRow}, down : BOOLEAN]

TypeOK == /\ JobType /\ RunType /\ OutboxType /\ QueueType /\ TaskType
          /\ DispatcherType /\ faults \in 0 .. MaxFaults

\* Every job points at the delivery minted last, and no older delivery is
\* still waiting to be published: at most one generation of a job is open,
\* although reconciliation, deferral, retry and a restarted dispatcher all
\* mint or reopen deliveries (uq_normalization_outbox_active_job).
OneOpenDelivery ==
    \A r \in Accepted :
        /\ job[r].delivery = Len(outbox[r])
        /\ \A d \in 1 .. Len(outbox[r]) - 1 : outbox[r][d] = "published"

\* A generation is attempted at most once: attempt_count never exceeds the
\* number of deliveries minted, and a job that waits has one in reserve,
\* whatever is redelivered, duplicated or executed from stale copies.
AttemptsWithinDeliveries ==
    \A r \in Accepted :
        /\ job[r].attempts <= job[r].delivery
        /\ job[r].status \in {"queued", "retrying"} => job[r].attempts < job[r].delivery

\* When both rows are terminal they tell the same outcome, although stale
\* workers write them from copies and the job may be synchronised from the run.
OutcomesAgree ==
    \A r \in Runs :
        {job[r].status, run[r]} \subseteq TERMINAL_STATUSES => job[r].status = run[r]

\* Two workers never write canonical rows of one dataset at the same time.
OneWriterPerDataset ==
    \A v, w \in Workers :
        /\ v # w
        /\ {pc[v], pc[w]} \subseteq {"locked", "normalizing", "unlocking"}
        => DatasetOf[task[v].run] # DatasetOf[task[w].run]

\* What keeps the queue exactly-once although everything is delivered at least
\* once: one open generation per job, one attempt per generation, outcomes that
\* agree, and one writer per dataset.
QueueSafe == /\ OneOpenDelivery /\ AttemptsWithinDeliveries
             /\ OutcomesAgree /\ OneWriterPerDataset

\* A terminal job is reopened, or given a new delivery, by nobody but a worker
\* that holds the dataset lock and read the job before it became terminal:
\* reconciliation and deferral never resurrect finished work.
ReopenedOnlyUnderLock ==
    [][\A r \in Runs :
          /\ job[r].status \in TERMINAL_STATUSES
          /\ job'[r] # job[r]
          => \E w \in Workers : task[w].run = r /\ HoldsLock(w, DatasetOf[r])
                               /\ task[w].job \notin TERMINAL_STATUSES]_vars

\* A terminal run is final: redelivered, duplicated and deferred deliveries of
\* it change neither the run nor its job.
KeepsTerminal ==
    \A r \in Runs :
        run[r] \in TERMINAL_STATUSES => run'[r] = run[r] /\ job'[r].status = run[r]

TerminalIsFinal == [][KeepsTerminal]_vars

\* Job and run finish together and with the same outcome.
JobRunAgree ==
    \A r \in Runs :
        job[r].status \in TERMINAL_STATUSES \/ run[r] \in TERMINAL_STATUSES
        => job[r].status = run[r]

\* Every accepted run ends, for good, with job and run in the same terminal
\* status, whatever was lost or crashed on the way.
Converges ==
    \A r \in Runs :
        job[r].status # "none" ~>
            [](job[r].status \in TERMINAL_STATUSES /\ job[r].status = run[r])
=============================================================================
