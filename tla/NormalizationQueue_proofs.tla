---------------------- MODULE NormalizationQueue_proofs ----------------------
(***************************************************************************)
(* Machine-checked safety of NormalizationQueue for every set of runs,     *)
(* datasets and workers and every value of the bounds; and, for the        *)
(* deployment of one worker process (MCQueueLive), that job and run finish *)
(* together and stay finished.                                             *)
(***************************************************************************)
EXTENDS MCQueueLive, SequenceTheorems, TLAPS

\* Dispatcher: the rows in hand exist and are under its claim.
ClaimedRows ==
    /\ \A row \in dispatcher.batch :
          /\ row[2] <= Len(outbox[row[1]])
          /\ outbox[row[1]][row[2]] = "publishing"
    /\ dispatcher.pc \in {"published", "failed"} => dispatcher.row \in dispatcher.batch
    /\ dispatcher.pc \in {"start", "poll"} => dispatcher.batch = {}

\* Job, run and outbox appear together; deliveries stay within the bound.
BornTogether ==
    \A r \in Runs :
        /\ job[r].status = "none" <=> run[r] = "none"
        /\ job[r].status = "none" <=> Len(outbox[r]) = 0
        /\ Len(outbox[r]) <= MaxDeliveries

\* A message names a delivery that was minted.
QueueIssued ==
    \A r \in Runs, d \in Deliveries : queue[r][d] > 0 => d <= Len(outbox[r])

\* What a worker holds was once true: its copies are of a minted delivery and
\* of an attempt count that was within it.
TaskWithinDeliveries(w) ==
    LET t == task[w] IN
    /\ t.delivery <= Len(outbox[t.run])
    /\ t.delivery_id <= Len(outbox[t.run])
    /\ t.attempts <= t.delivery_id
    /\ t.job \in {"queued", "retrying"} => t.attempts < t.delivery_id
    /\ pc[w] \in {"tryLock", "contended", "locked"} => t.job \notin TERMINAL_STATUSES
    /\ pc[w] \in {"normalizing", "unlocking"} => t.job = "processing"

TasksWithinDeliveries ==
    \A w \in Workers : pc[w] # "idle" => TaskWithinDeliveries(w)

\* The database part of the inductive invariant ...
StoreInv == /\ JobType /\ RunType /\ OutboxType
            /\ BornTogether /\ OneOpenDelivery /\ AttemptsWithinDeliveries /\ OutcomesAgree

\* ... the part about what dispatcher, broker and workers hold ...
HandsInv == /\ QueueType /\ TaskType /\ DispatcherType
            /\ ClaimedRows /\ QueueIssued /\ TasksWithinDeliveries

\* ... and the whole of it.
IInv == StoreInv /\ HandsInv /\ faults \in 0 .. MaxFaults

\* A step that only lengthens outboxes and keeps the rows under claim.
RowsKept ==
    \A r \in Runs :
        /\ Len(outbox[r]) <= Len(outbox'[r])
        /\ \A d \in 1 .. Len(outbox[r]) :
              outbox[r][d] = "publishing" => outbox'[r][d] = "publishing"

-----------------------------------------------------------------------------
(* What the database operations preserve.                                  *)

\* A job none of whose rows is active has only published rows.
LEMMA InactiveIsPublished ==
    ASSUME OutboxType, NEW r \in Runs, ~Active(r), NEW d \in 1 .. Len(outbox[r])
    PROVE  outbox[r][d] = "published"
<1>1. outbox[r] \in Seq(ActiveRow \cup {"published"})
  BY DEF OutboxType
<1>2. outbox[r][d] \in ActiveRow \cup {"published"}
  BY <1>1, ElementOfSeq
<1>. QED  BY <1>2 DEF Active

\* Minting a delivery for inactive jobs (reconciliation, deferral, retry).
LEMMA MintStep ==
    ASSUME JobType, OutboxType, BornTogether, OneOpenDelivery, AttemptsWithinDeliveries,
           NEW S \in SUBSET Accepted, NEW status \in {"queued", "retrying"},
           \A r \in S : ~Active(r) /\ CanMint(r),
           Mint(S, status)
    PROVE  /\ JobType' /\ OutboxType' /\ OneOpenDelivery' /\ AttemptsWithinDeliveries'
           /\ RowsKept
           /\ \A r \in Runs : /\ job[r].status = "none" <=> job'[r].status = "none"
                              /\ job[r].status = "none" <=> Len(outbox'[r]) = 0
                              /\ Len(outbox'[r]) <= MaxDeliveries
           /\ \A r \in S : job'[r].status \notin TERMINAL_STATUSES
           /\ \A r \in Runs \ S : job'[r] = job[r]
<1>. DEFINE Row == ActiveRow \cup {"published"}
<1>0. S \subseteq Runs /\ "pending" \in Row
  BY DEF Accepted, ActiveRow
<1>1. \A r \in Runs : outbox[r] \in Seq(Row) /\ Len(outbox[r]) \in Nat
  BY DEF OutboxType
<1>2. \A r \in S : /\ Append(outbox[r], "pending") \in Seq(Row)
                   /\ Len(Append(outbox[r], "pending")) = Len(outbox[r]) + 1
                   /\ \A d \in 1 .. Len(outbox[r]) :
                         Append(outbox[r], "pending")[d] = outbox[r][d]
  BY <1>0, <1>1, AppendProperties
<1>3. \A r \in S : /\ outbox'[r] \in Seq(Row)
                   /\ Len(outbox'[r]) = Len(outbox[r]) + 1
                   /\ \A d \in 1 .. Len(outbox[r]) : outbox'[r][d] = outbox[r][d]
  BY <1>0, <1>2 DEF Mint
<1>4. \A r \in Runs \ S : outbox'[r] = outbox[r] /\ job'[r] = job[r]
  BY DEF Mint
<1>5. \A r \in S : /\ job'[r].status = status
                   /\ job'[r].delivery = Len(outbox[r]) + 1
                   /\ job'[r].attempts = job[r].attempts
                   /\ job[r].status # "none"
  BY <1>0 DEF Mint, Accepted
<1>6. \A r \in S : Len(outbox[r]) + 1 \in 0 .. MaxDeliveries
  BY <1>0, <1>1, ConstantsAssumption DEF CanMint
<1>7. OutboxType'
  <2>1. outbox' = [r \in Runs |-> outbox'[r]]
    BY DEF Mint
  <2>2. \A r \in Runs : outbox'[r] \in Seq(Row)
    BY <1>1, <1>3, <1>4
  <2>. QED  BY <2>1, <2>2 DEF OutboxType
<1>8. JobType'
  <2>1. \A r \in S : job[r].attempts \in Nat
    BY <1>0 DEF JobType
  <2>2. \A r \in S : [status |-> status, delivery |-> Len(outbox[r]) + 1,
                      attempts |-> job[r].attempts]
                     \in [status : Statuses \cup {"none"},
                          delivery : 0 .. MaxDeliveries, attempts : Nat]
    BY <1>6, <2>1 DEF Statuses
  <2>. QED  BY <2>2 DEF JobType, Mint
<1>9. OneOpenDelivery'
  <2>1. ASSUME NEW r \in Accepted'
        PROVE  /\ job'[r].delivery = Len(outbox'[r])
               /\ \A d \in 1 .. Len(outbox'[r]) - 1 : outbox'[r][d] = "published"
    <3>1. CASE r \in S
      BY <1>0, <1>1, <1>3, <1>5, <3>1, InactiveIsPublished
    <3>2. CASE r \notin S
      BY <1>4, <3>2 DEF Accepted, OneOpenDelivery
    <3>. QED  BY <3>1, <3>2
  <2>. QED  BY <2>1 DEF OneOpenDelivery
<1>10. AttemptsWithinDeliveries'
  <2>1. \A r \in S : /\ job[r].delivery = Len(outbox[r])
                     /\ job[r].attempts <= job[r].delivery
                     /\ job[r].attempts \in Nat
    BY <1>0 DEF OneOpenDelivery, AttemptsWithinDeliveries, JobType
  <2>2. \A r \in S : job'[r].attempts < job'[r].delivery
    BY <2>1, <1>5, <1>0, <1>1
  <2>3. ASSUME NEW r \in Accepted'
        PROVE  /\ job'[r].attempts <= job'[r].delivery
               /\ job'[r].status \in {"queued", "retrying"}
                     => job'[r].attempts < job'[r].delivery
    <3>1. CASE r \in S
      BY <3>1, <2>1, <2>2, <1>0, <1>1, <1>5
    <3>2. CASE r \notin S
      BY <3>2, <1>4 DEF Accepted, AttemptsWithinDeliveries
    <3>. QED  BY <3>1, <3>2
  <2>. QED  BY <2>3 DEF AttemptsWithinDeliveries
<1>11. RowsKept
  BY <1>0, <1>1, <1>3, <1>4 DEF RowsKept
<1>12. \A r \in Runs : /\ job[r].status = "none" <=> job'[r].status = "none"
                       /\ job[r].status = "none" <=> Len(outbox'[r]) = 0
                       /\ Len(outbox'[r]) <= MaxDeliveries
  BY <1>0, <1>1, <1>3, <1>4, <1>5, <1>6 DEF BornTogether
<1>13. \A r \in S : job'[r].status \notin TERMINAL_STATUSES
  BY <1>5 DEF TERMINAL_STATUSES
<1>. QED  BY <1>4, <1>7, <1>8, <1>9, <1>10, <1>11, <1>12, <1>13

\* Setting an accepted job to a terminal status.
LEMMA SetStatusStep ==
    ASSUME JobType, BornTogether, OneOpenDelivery, AttemptsWithinDeliveries,
           NEW r \in Accepted, NEW status \in TERMINAL_STATUSES,
           SetStatus(r, status), UNCHANGED outbox
    PROVE  /\ JobType' /\ OneOpenDelivery' /\ AttemptsWithinDeliveries'
           /\ \A q \in Runs : job[q].status = "none" <=> job'[q].status = "none"
           /\ job'[r].status = status
           /\ \A q \in Runs \ {r} : job'[q] = job[q]
<1>0. r \in Runs /\ job[r].status # "none"
  BY DEF Accepted
<1>1. job'[r] = [status |-> status, delivery |-> job[r].delivery, attempts |-> job[r].attempts]
  BY <1>0 DEF SetStatus, JobType
<1>2. \A q \in Runs \ {r} : job'[q] = job[q]
  BY <1>0 DEF SetStatus, JobType
<1>3. JobType'
  <2>1. job'[r] \in [status : Statuses \cup {"none"},
                     delivery : 0 .. MaxDeliveries, attempts : Nat]
    BY <1>0, <1>1 DEF JobType, Statuses
  <2>. QED  BY <1>0, <1>1, <2>1 DEF JobType, SetStatus
<1>4. OneOpenDelivery'
  BY <1>0, <1>1, <1>2 DEF OneOpenDelivery, Accepted
<1>5. AttemptsWithinDeliveries'
  <2>1. job'[r].attempts <= job'[r].delivery /\ job'[r].status \notin {"queued", "retrying"}
    BY <1>0, <1>1 DEF AttemptsWithinDeliveries, Accepted, TERMINAL_STATUSES
  <2>. QED  BY <1>0, <1>2, <2>1 DEF AttemptsWithinDeliveries, Accepted
<1>6. \A q \in Runs : job[q].status = "none" <=> job'[q].status = "none"
  BY <1>0, <1>1, <1>2 DEF TERMINAL_STATUSES
<1>. QED  BY <1>1, <1>2, <1>3, <1>4, <1>5, <1>6

\* A step that leaves the three tables alone.
LEMMA StoreKept ==
    ASSUME StoreInv, UNCHANGED <<job, run, outbox>>
    PROVE  StoreInv' /\ RowsKept
<1>1. StoreInv'
  BY DEF StoreInv, JobType, RunType, OutboxType, BornTogether, OneOpenDelivery,
         AttemptsWithinDeliveries, OutcomesAgree, Accepted
<1>2. RowsKept
  BY DEF RowsKept, StoreInv, OutboxType
<1>. QED  BY <1>1, <1>2

-----------------------------------------------------------------------------
(* What the parties hold stays valid while outboxes only grow.             *)

\* The dispatcher's claims survive a step that keeps the rows.
LEMMA DispatcherKept ==
    ASSUME DispatcherType, ClaimedRows, OutboxType, OutboxType', RowsKept,
           UNCHANGED dispatcher
    PROVE  DispatcherType' /\ ClaimedRows'
<1>1. \A r \in Runs : Len(outbox[r]) \in Nat /\ Len(outbox'[r]) \in Nat
  BY DEF OutboxType
<1>2. \A row \in dispatcher.batch : row[1] \in Runs /\ row[2] \in Deliveries
  BY DEF DispatcherType
<1>3. \A row \in dispatcher.batch : /\ row[2] <= Len(outbox'[row[1]])
                                    /\ outbox'[row[1]][row[2]] = "publishing"
  BY <1>1, <1>2, ConstantsAssumption DEF ClaimedRows, RowsKept, Deliveries
<1>. QED  BY <1>3 DEF ClaimedRows, DispatcherType

\* Messages in the broker still name minted deliveries.
LEMMA MessagesKept ==
    ASSUME QueueType, QueueIssued, OutboxType, OutboxType', RowsKept, UNCHANGED queue
    PROVE  QueueType' /\ QueueIssued'
<1>1. \A r \in Runs : Len(outbox[r]) \in Nat /\ Len(outbox'[r]) \in Nat
  BY DEF OutboxType
<1>2. ASSUME NEW r \in Runs, NEW d \in Deliveries, queue[r][d] > 0
      PROVE  d <= Len(outbox'[r])
  <2>1. d <= Len(outbox[r]) /\ Len(outbox[r]) <= Len(outbox'[r]) /\ d \in Nat
    BY <1>2 DEF QueueIssued, RowsKept, Deliveries
  <2>. QED  BY <1>1, <2>1
<1>. QED  BY <1>2 DEF QueueType, QueueIssued

\* A message for a minted delivery is added to the broker.
LEMMA MessageAdded ==
    ASSUME QueueType, QueueIssued, UNCHANGED outbox,
           NEW r \in Runs, NEW d \in Deliveries, d <= Len(outbox[r]),
           queue' = [queue EXCEPT ![r][d] = @ + 1]
    PROVE  QueueType' /\ QueueIssued'
<1>1. \A q \in Runs, e \in Deliveries :
        queue'[q][e] = IF q = r /\ e = d THEN queue[q][e] + 1 ELSE queue[q][e]
  BY DEF QueueType
<1>2. QueueType'
  BY DEF QueueType
<1>3. QueueIssued'
  BY <1>1 DEF QueueIssued
<1>. QED  BY <1>2, <1>3

\* The copies of one worker stay within the deliveries.
LEMMA TaskKept ==
    ASSUME NEW w \in Workers, task[w] \in Tasks, TaskWithinDeliveries(w),
           OutboxType, OutboxType', RowsKept, task'[w] = task[w],
           pc'[w] = pc[w] \/ (pc[w] = "tryLock" /\ pc'[w] \in {"locked", "contended"})
             \/ (pc[w] = "normalizing" /\ pc'[w] = "unlocking")
    PROVE  TaskWithinDeliveries(w)'
<1>1. \A r \in Runs : Len(outbox[r]) \in Nat /\ Len(outbox'[r]) \in Nat
  BY DEF OutboxType
<1>2. task[w].run \in Runs /\ task[w].delivery \in Nat /\ task[w].delivery_id \in Nat
  BY DEF Tasks, Deliveries
<1>. QED  BY <1>1, <1>2 DEF TaskWithinDeliveries, RowsKept

\* No worker moves.
LEMMA TasksKept ==
    ASSUME TaskType, TasksWithinDeliveries, OutboxType, OutboxType', RowsKept,
           UNCHANGED <<pc, task>>
    PROVE  TaskType' /\ TasksWithinDeliveries'
<1>1. TaskType'
  BY DEF TaskType
<1>2. ASSUME NEW w \in Workers, pc'[w] # "idle" PROVE TaskWithinDeliveries(w)'
  BY <1>2, TaskKept DEF TaskType, TasksWithinDeliveries
<1>. QED  BY <1>1, <1>2 DEF TasksWithinDeliveries

\* One worker finishes with its message.
LEMMA TaskReleased ==
    ASSUME TaskType, TasksWithinDeliveries, OutboxType, OutboxType', RowsKept,
           NEW w \in Workers, Release(w)
    PROVE  TaskType' /\ TasksWithinDeliveries'
<1>1. TaskType'
  BY DEF TaskType, Release
<1>2. ASSUME NEW v \in Workers, pc'[v] # "idle" PROVE TaskWithinDeliveries(v)'
  <2>1. v # w /\ pc'[v] = pc[v] /\ task'[v] = task[v]
    BY <1>2 DEF Release, TaskType
  <2>. QED  BY <1>2, <2>1, TaskKept DEF TaskType, TasksWithinDeliveries
<1>. QED  BY <1>1, <1>2 DEF TasksWithinDeliveries

\* One worker moves on with the copies it has.
LEMMA TaskMoved ==
    ASSUME TaskType, TasksWithinDeliveries, OutboxType, OutboxType', RowsKept,
           NEW w \in Workers, pc[w] # "idle", UNCHANGED task,
           NEW p \in {"contended", "locked", "unlocking"},
           IF p = "unlocking" THEN pc[w] = "normalizing" ELSE pc[w] = "tryLock",
           pc' = [pc EXCEPT ![w] = p]
    PROVE  TaskType' /\ TasksWithinDeliveries'
<1>1. TaskType'
  BY DEF TaskType
<1>2. ASSUME NEW v \in Workers, pc'[v] # "idle" PROVE TaskWithinDeliveries(v)'
  <2>1. pc[v] # "idle" /\ task'[v] = task[v]
    BY <1>2 DEF TaskType
  <2>2. pc'[v] = pc[v] \/ (pc[v] = "tryLock" /\ pc'[v] \in {"locked", "contended"})
          \/ (pc[v] = "normalizing" /\ pc'[v] = "unlocking")
    BY DEF TaskType
  <2>. QED  BY <2>1, <2>2, TaskKept DEF TaskType, TasksWithinDeliveries
<1>. QED  BY <1>1, <1>2 DEF TasksWithinDeliveries

\* The run a busy worker holds is accepted.
LEMMA HeldIsAccepted ==
    ASSUME IInv, NEW w \in Workers, pc[w] # "idle"
    PROVE  /\ task[w] \in Tasks
           /\ TaskWithinDeliveries(w)
           /\ task[w].run \in Accepted
           /\ task[w].run \in Runs
           /\ task[w].delivery \in Deliveries
           /\ task[w].delivery <= Len(outbox[task[w].run])
<1>1. task[w] \in Tasks /\ TaskWithinDeliveries(w)
  BY DEF IInv, HandsInv, TaskType, TasksWithinDeliveries
<1>2. task[w].run \in Runs /\ task[w].delivery \in Deliveries
  BY <1>1 DEF Tasks
<1>3. task[w].delivery <= Len(outbox[task[w].run])
  BY <1>1 DEF TaskWithinDeliveries
<1>4. Len(outbox[task[w].run]) # 0
  BY <1>2, <1>3 DEF Deliveries
<1>. QED  BY <1>1, <1>2, <1>3, <1>4 DEF IInv, StoreInv, BornTogether, Accepted

-----------------------------------------------------------------------------
(* One lemma per action.                                                   *)

\* Acceptance.
LEMMA CreateNormalizationJobStep ==
    ASSUME IInv, NEW r \in Runs, CreateNormalizationJob(r)
    PROVE  IInv'
<1>1. outbox' = [outbox EXCEPT ![r] = <<"pending">>] /\ Len(<<"pending">>) = 1
      /\ <<"pending">> \in Seq(ActiveRow \cup {"published"})
  BY DEF CreateNormalizationJob, ActiveRow
<1>2. OutboxType'
  BY <1>1 DEF IInv, StoreInv, OutboxType
<1>3. Len(outbox[r]) = 0 /\ outbox'[r] = <<"pending">> /\ \A q \in Runs \ {r} : outbox'[q] = outbox[q]
  BY <1>1 DEF IInv, StoreInv, OutboxType, BornTogether, CreateNormalizationJob
<1>4. RowsKept
  BY <1>1, <1>3 DEF RowsKept, IInv, StoreInv, OutboxType
<1>5. /\ job'[r] = [status |-> "queued", delivery |-> 1, attempts |-> 0]
      /\ run'[r] = "queued"
      /\ \A q \in Runs \ {r} : job'[q] = job[q] /\ run'[q] = run[q]
  BY DEF IInv, StoreInv, JobType, RunType, CreateNormalizationJob
<1>6. JobType' /\ RunType'
  <2>1. [status |-> "queued", delivery |-> 1, attempts |-> 0]
          \in [status : Statuses \cup {"none"}, delivery : 0 .. MaxDeliveries, attempts : Nat]
    BY ConstantsAssumption DEF Statuses
  <2>. QED  BY <2>1 DEF IInv, StoreInv, JobType, RunType, CreateNormalizationJob, Statuses
<1>7. BornTogether'
  <2>1. Len(outbox'[r]) = 1 /\ job'[r].status = "queued" /\ run'[r] = "queued"
        /\ 1 <= MaxDeliveries
    BY <1>1, <1>3, <1>5, ConstantsAssumption
  <2>2. ASSUME NEW q \in Runs, q # r
        PROVE  job'[q] = job[q] /\ run'[q] = run[q] /\ outbox'[q] = outbox[q]
    BY <1>3, <1>5, <2>2
  <2>3. \A q \in Runs \ {r} : /\ job'[q].status = "none" <=> run'[q] = "none"
                              /\ job'[q].status = "none" <=> Len(outbox'[q]) = 0
                              /\ Len(outbox'[q]) <= MaxDeliveries
    BY <2>2 DEF IInv, StoreInv, BornTogether
  <2>4. /\ job'[r].status = "none" <=> run'[r] = "none"
        /\ job'[r].status = "none" <=> Len(outbox'[r]) = 0
        /\ Len(outbox'[r]) <= MaxDeliveries
    BY <2>1
  <2>. QED  BY <2>3, <2>4 DEF BornTogether
<1>8. OneOpenDelivery'
  <2>1. job'[r].delivery = Len(outbox'[r]) /\ 1 .. Len(outbox'[r]) - 1 = {}
    BY <1>1, <1>3, <1>5
  <2>2. ASSUME NEW q \in Accepted', q # r
        PROVE  /\ job'[q].delivery = Len(outbox'[q])
               /\ \A d \in 1 .. Len(outbox'[q]) - 1 : outbox'[q][d] = "published"
    <3>1. q \in Accepted /\ q \in Runs /\ job'[q] = job[q] /\ outbox'[q] = outbox[q]
      BY <1>3, <1>5, <2>2 DEF Accepted
    <3>. QED  BY <3>1 DEF IInv, StoreInv, OneOpenDelivery
  <2>. QED  BY <2>1, <2>2 DEF OneOpenDelivery
<1>9. OutcomesAgree'
  BY <1>5 DEF IInv, StoreInv, OutcomesAgree, TERMINAL_STATUSES
<1>10. AttemptsWithinDeliveries'
  BY <1>5 DEF IInv, StoreInv, AttemptsWithinDeliveries, Accepted
<1>11. HandsInv' /\ (faults \in 0 .. MaxFaults)'
  BY <1>2, <1>4, DispatcherKept, MessagesKept, TasksKept
  DEF IInv, StoreInv, HandsInv, CreateNormalizationJob
<1>. QED  BY <1>2, <1>6, <1>7, <1>8, <1>9, <1>10, <1>11 DEF IInv, StoreInv

\* Reconciliation of stale jobs.
LEMMA ReconcileStaleJobsStep ==
    ASSUME IInv, NEW S \in SUBSET StaleJobs, ReconcileStaleJobs(S)
    PROVE  IInv'
<1>1. S \in SUBSET Accepted /\ (\A r \in S : ~Active(r) /\ CanMint(r)) /\ Mint(S, "queued")
  BY DEF ReconcileStaleJobs, StaleJobs
<1>2. /\ JobType' /\ OutboxType' /\ OneOpenDelivery' /\ AttemptsWithinDeliveries'
      /\ RowsKept
      /\ \A r \in Runs : /\ job[r].status = "none" <=> job'[r].status = "none"
                         /\ job[r].status = "none" <=> Len(outbox'[r]) = 0
                         /\ Len(outbox'[r]) <= MaxDeliveries
      /\ \A r \in S : job'[r].status \notin TERMINAL_STATUSES
      /\ \A r \in Runs \ S : job'[r] = job[r]
  BY <1>1, MintStep DEF IInv, StoreInv
<1>3. RunType' /\ BornTogether' /\ OutcomesAgree'
  BY <1>2 DEF IInv, StoreInv, RunType, BornTogether, OutcomesAgree, ReconcileStaleJobs
<1>4. DispatcherType' /\ dispatcher'.batch = dispatcher.batch
      /\ dispatcher'.pc = IF dispatcher.batch = {} THEN "poll" ELSE "batch"
  BY DEF IInv, HandsInv, DispatcherType, ReconcileStaleJobs
<1>5. ClaimedRows'
  <2>1. \A r \in Runs : Len(outbox[r]) \in Nat /\ Len(outbox'[r]) \in Nat
    BY <1>2 DEF IInv, StoreInv, OutboxType
  <2>2. \A row \in dispatcher.batch : row[1] \in Runs /\ row[2] \in Deliveries
    BY DEF IInv, HandsInv, DispatcherType
  <2>3. \A row \in dispatcher.batch : /\ row[2] <= Len(outbox'[row[1]])
                                      /\ outbox'[row[1]][row[2]] = "publishing"
    BY <1>2, <2>1, <2>2, ConstantsAssumption
    DEF IInv, HandsInv, ClaimedRows, RowsKept, Deliveries
  <2>. QED  BY <1>4, <2>3 DEF ClaimedRows
<1>6. QueueType' /\ QueueIssued' /\ TaskType' /\ TasksWithinDeliveries' /\ (faults \in 0 .. MaxFaults)'
  BY <1>2, MessagesKept, TasksKept DEF IInv, StoreInv, HandsInv, ReconcileStaleJobs
<1>. QED  BY <1>2, <1>3, <1>4, <1>5, <1>6 DEF IInv, StoreInv, HandsInv

\* The topology probe fails.
LEMMA TopologyProbeFailsStep ==
    ASSUME IInv, TopologyProbeFails
    PROVE  IInv'
<1>1. StoreInv' /\ RowsKept
  BY StoreKept DEF IInv, TopologyProbeFails
<1>2. DispatcherType' /\ ClaimedRows'
  BY DEF IInv, HandsInv, DispatcherType, ClaimedRows, TopologyProbeFails
<1>3. QueueType' /\ QueueIssued' /\ TaskType' /\ TasksWithinDeliveries' /\ (faults \in 0 .. MaxFaults)'
  BY <1>1, MessagesKept, TasksKept, ConstantsAssumption
  DEF IInv, StoreInv, HandsInv, TopologyProbeFails
<1>. QED  BY <1>1, <1>2, <1>3 DEF IInv, HandsInv

\* The dispatcher claims a batch.
LEMMA ClaimOutboxBatchStep ==
    ASSUME IInv, NEW B \in SUBSET Claimable, ClaimOutboxBatch(B)
    PROVE  IInv'
<1>. DEFINE Row == ActiveRow \cup {"published"}
<1>0. \A r \in Runs : outbox[r] \in Seq(Row) /\ Len(outbox[r]) \in Nat
  BY DEF IInv, StoreInv, OutboxType
<1>1. ASSUME NEW r \in Runs
      PROVE  /\ outbox'[r] \in Seq(Row)
             /\ Len(outbox'[r]) = Len(outbox[r])
             /\ \A d \in 1 .. Len(outbox[r]) :
                   outbox'[r][d] = IF <<r, d>> \in B THEN "publishing" ELSE outbox[r][d]
  <2>1. outbox'[r] = [d \in 1 .. Len(outbox[r]) |->
                        IF <<r, d>> \in B THEN "publishing" ELSE outbox[r][d]]
    BY DEF ClaimOutboxBatch
  <2>2. \A d \in 1 .. Len(outbox[r]) : outbox[r][d] \in Row
    BY <1>0, ElementOfSeq
  <2>3. \A d \in 1 .. Len(outbox[r]) :
           (IF <<r, d>> \in B THEN "publishing" ELSE outbox[r][d]) \in Row
    BY <2>2 DEF ActiveRow
  <2>. QED  BY <1>0, <2>1, <2>3
<1>2. OutboxType'
  BY <1>1 DEF OutboxType, ClaimOutboxBatch
<1>3. RowsKept
  <2>1. ASSUME NEW r \in Runs, NEW d \in 1 .. Len(outbox[r]), outbox[r][d] = "publishing"
        PROVE  outbox'[r][d] = "publishing"
    BY <1>1, <2>1
  <2>2. \A r \in Runs : Len(outbox[r]) <= Len(outbox'[r])
    BY <1>0, <1>1
  <2>. QED  BY <2>1, <2>2 DEF RowsKept
<1>4. \A row \in B : /\ row \in Runs \X Deliveries
                     /\ row[2] <= Len(outbox[row[1]])
                     /\ outbox[row[1]][row[2]] \in ActiveRow
  BY DEF Claimable
<1>5. ASSUME NEW row \in B
      PROVE  row[2] <= Len(outbox'[row[1]]) /\ outbox'[row[1]][row[2]] = "publishing"
  <2>1. row[1] \in Runs /\ row[2] \in 1 .. Len(outbox[row[1]]) /\ <<row[1], row[2]>> \in B
    BY <1>0, <1>4 DEF Deliveries
  <2>. QED  BY <1>1, <1>4, <2>1
<1>6. DispatcherType' /\ ClaimedRows'
  <2>1. dispatcher' = [dispatcher EXCEPT !.pc = "batch", !.batch = B]
    BY DEF ClaimOutboxBatch
  <2>2. dispatcher'.pc = "batch" /\ dispatcher'.batch = B /\ DispatcherType'
    BY <1>4, <2>1 DEF IInv, HandsInv, DispatcherType
  <2>. QED  BY <1>5, <2>2 DEF ClaimedRows
<1>7. JobType' /\ RunType' /\ BornTogether' /\ AttemptsWithinDeliveries' /\ OutcomesAgree'
  BY <1>1 DEF IInv, StoreInv, JobType, RunType, BornTogether, AttemptsWithinDeliveries,
              OutcomesAgree, Accepted, ClaimOutboxBatch
<1>8. OneOpenDelivery'
  <2>1. ASSUME NEW r \in Accepted', NEW d \in 1 .. Len(outbox'[r]) - 1
        PROVE  outbox'[r][d] = "published"
    <3>1. r \in Accepted /\ r \in Runs /\ d \in 1 .. Len(outbox[r]) - 1
      BY <1>1 DEF Accepted, ClaimOutboxBatch
    <3>2. outbox[r][d] = "published" /\ d \in 1 .. Len(outbox[r])
      BY <1>0, <3>1 DEF IInv, StoreInv, OneOpenDelivery
    <3>3. <<r, d>> \notin B
      BY <1>4, <3>2 DEF ActiveRow
    <3>. QED  BY <1>1, <3>1, <3>2, <3>3
  <2>2. \A r \in Accepted' : job'[r].delivery = Len(outbox'[r])
    BY <1>1 DEF IInv, StoreInv, OneOpenDelivery, Accepted, ClaimOutboxBatch
  <2>. QED  BY <2>1, <2>2 DEF OneOpenDelivery
<1>9. QueueType' /\ QueueIssued' /\ TaskType' /\ TasksWithinDeliveries' /\ (faults \in 0 .. MaxFaults)'
  BY <1>2, <1>3, MessagesKept, TasksKept DEF IInv, StoreInv, HandsInv, ClaimOutboxBatch
<1>. QED  BY <1>2, <1>6, <1>7, <1>8, <1>9 DEF IInv, StoreInv, HandsInv

\* The dispatcher publishes a row, with or without an exception afterwards.
LEMMA PublishStep ==
    ASSUME IInv, NEW r \in Runs, NEW d \in Deliveries,
           \/ PublishOutboxEvent(r, d)
           \/ \E enqueued \in BOOLEAN : PublishRaises(r, d, enqueued)
    PROVE  IInv'
<1>1. /\ <<r, d>> \in dispatcher.batch
      /\ UNCHANGED <<job, run, outbox, pc, task>>
      /\ UNCHANGED queue \/ queue' = [queue EXCEPT ![r][d] = @ + 1]
  BY DEF PublishOutboxEvent, PublishRaises
<1>2. StoreInv' /\ RowsKept
  BY <1>1, StoreKept DEF IInv
<1>3. d <= Len(outbox[r])
  BY <1>1 DEF IInv, HandsInv, ClaimedRows
<1>4. QueueType' /\ QueueIssued'
  BY <1>1, <1>2, <1>3, MessagesKept, MessageAdded DEF IInv, StoreInv, HandsInv
<1>5. TaskType' /\ TasksWithinDeliveries'
  BY <1>1, <1>2, TasksKept DEF IInv, StoreInv, HandsInv
<1>6. DispatcherType' /\ dispatcher'.batch = dispatcher.batch
      /\ dispatcher'.row = <<r, d>> /\ dispatcher'.pc \in {"published", "failed"}
  BY DEF IInv, HandsInv, DispatcherType, PublishOutboxEvent, PublishRaises
<1>7. ClaimedRows'
  BY <1>1, <1>6 DEF IInv, HandsInv, ClaimedRows
<1>8. (faults \in 0 .. MaxFaults)'
  BY ConstantsAssumption DEF IInv, PublishOutboxEvent, PublishRaises
<1>. QED  BY <1>2, <1>4, <1>5, <1>6, <1>7, <1>8 DEF IInv, HandsInv

\* The dispatcher marks the row it has just handled.
LEMMA MarkStep ==
    ASSUME IInv, MarkOutboxPublished \/ MarkOutboxPublishFailure
    PROVE  IInv'
<1>. DEFINE Row == ActiveRow \cup {"published"}
            r == dispatcher.row[1]
            d == dispatcher.row[2]
<1>1. PICK status \in {"published", "pending"} :
        /\ Marked(status)
        /\ dispatcher.pc \in {"published", "failed"}
        /\ dispatcher'.batch = dispatcher.batch \ {dispatcher.row}
        /\ dispatcher'.pc \in {"poll", "repair", "batch"}
        /\ dispatcher'.pc = "poll" => dispatcher'.batch = {}
        /\ DispatcherType'
        /\ UNCHANGED <<job, run, queue, pc, task, faults>>
  <2>. DEFINE rest == dispatcher.batch \ {dispatcher.row}
  <2>1. /\ dispatcher.batch \in SUBSET (Runs \X Deliveries)
        /\ dispatcher.down \in BOOLEAN
        /\ DOMAIN dispatcher = {"pc", "batch", "row", "down"}
    BY DEF IInv, HandsInv, DispatcherType
  <2>2. CASE MarkOutboxPublished
    <3>1. /\ dispatcher'.batch = rest
          /\ dispatcher'.pc = IF dispatcher.down THEN "repair"
                              ELSE IF rest = {} THEN "poll" ELSE "batch"
          /\ DispatcherType'
      BY <2>2, <2>1 DEF MarkOutboxPublished, IInv, HandsInv, DispatcherType
    <3>2. Marked("published") /\ dispatcher.pc = "published"
          /\ UNCHANGED <<job, run, queue, pc, task, faults>>
      BY <2>2 DEF MarkOutboxPublished
    <3>. QED  BY <3>1, <3>2
  <2>3. CASE MarkOutboxPublishFailure
    <3>1. /\ dispatcher'.batch = rest
          /\ dispatcher'.pc = IF rest = {} THEN "poll" ELSE "batch"
          /\ DispatcherType'
      BY <2>3, <2>1 DEF MarkOutboxPublishFailure, IInv, HandsInv, DispatcherType
    <3>2. Marked("pending") /\ dispatcher.pc = "failed"
          /\ UNCHANGED <<job, run, queue, pc, task, faults>>
      BY <2>3 DEF MarkOutboxPublishFailure
    <3>. QED  BY <3>1, <3>2
  <2>. QED  BY <2>2, <2>3
<1>2. /\ dispatcher.row \in dispatcher.batch
      /\ dispatcher.row \in Runs \X Deliveries
      /\ dispatcher.row = <<r, d>>
      /\ r \in Runs /\ d \in Deliveries /\ d <= Len(outbox[r])
      /\ outbox[r][d] = "publishing"
  BY <1>1 DEF IInv, HandsInv, ClaimedRows, DispatcherType
<1>3. \A q \in Runs : outbox[q] \in Seq(Row) /\ Len(outbox[q]) \in Nat
  BY DEF IInv, StoreInv, OutboxType
<1>4. d \in 1 .. Len(outbox[r]) /\ status \in Row
  BY <1>2, <1>3 DEF Deliveries, ActiveRow
<1>5. /\ outbox' = [outbox EXCEPT ![r] = [outbox[r] EXCEPT ![d] = status]]
      /\ outbox'[r] = [outbox[r] EXCEPT ![d] = status]
      /\ \A q \in Runs \ {r} : outbox'[q] = outbox[q]
  BY <1>1, <1>2 DEF Marked, IInv, StoreInv, OutboxType
<1>6. /\ outbox'[r] \in Seq(Row)
      /\ Len(outbox'[r]) = Len(outbox[r])
      /\ \A e \in 1 .. Len(outbox[r]) : outbox'[r][e] = IF e = d THEN status ELSE outbox[r][e]
  BY <1>3, <1>4, <1>5, <1>2, ExceptSeq
<1>7. OutboxType'
  BY <1>5, <1>6 DEF IInv, StoreInv, OutboxType
<1>8. JobType' /\ RunType' /\ BornTogether' /\ AttemptsWithinDeliveries' /\ OutcomesAgree'
  BY <1>1, <1>5, <1>6 DEF IInv, StoreInv, JobType, RunType, BornTogether,
                          AttemptsWithinDeliveries, OutcomesAgree, Accepted
<1>9. OneOpenDelivery'
  <2>1. \A q \in Accepted' : job'[q].delivery = Len(outbox'[q])
    BY <1>1, <1>5, <1>6 DEF IInv, StoreInv, OneOpenDelivery, Accepted
  <2>2. ASSUME NEW q \in Accepted', NEW e \in 1 .. Len(outbox'[q]) - 1
        PROVE  outbox'[q][e] = "published"
    <3>1. q \in Accepted /\ q \in Runs /\ Len(outbox'[q]) = Len(outbox[q])
      BY <1>1, <1>5, <1>6 DEF Accepted
    <3>2. outbox[q][e] = "published" /\ e \in 1 .. Len(outbox[q])
      BY <1>3, <3>1 DEF IInv, StoreInv, OneOpenDelivery
    <3>. QED  BY <1>2, <1>5, <1>6, <3>1, <3>2
  <2>. QED  BY <2>1, <2>2 DEF OneOpenDelivery
<1>10. ClaimedRows'
  <2>1. ASSUME NEW row \in dispatcher'.batch
        PROVE  row[2] <= Len(outbox'[row[1]]) /\ outbox'[row[1]][row[2]] = "publishing"
    <3>1. row \in dispatcher.batch /\ row # dispatcher.row
      BY <1>1
    <3>2. row \in Runs \X Deliveries /\ row = <<row[1], row[2]>>
      BY <3>1 DEF IInv, HandsInv, DispatcherType
    <3>3. row[2] <= Len(outbox[row[1]]) /\ outbox[row[1]][row[2]] = "publishing"
      BY <3>1 DEF IInv, HandsInv, ClaimedRows
    <3>4. CASE row[1] = r
      <4>1. row[2] # d
        BY <1>2, <3>1, <3>2, <3>4
      <4>2. row[2] \in 1 .. Len(outbox[r])
        BY <1>3, <3>2, <3>3, <3>4 DEF Deliveries
      <4>. QED  BY <1>6, <3>3, <3>4, <4>1, <4>2
    <3>5. CASE row[1] # r
      BY <1>5, <3>2, <3>3, <3>5
    <3>. QED  BY <3>4, <3>5
  <2>. QED  BY <1>1, <2>1 DEF ClaimedRows
<1>11. \A q \in Runs : Len(outbox'[q]) = Len(outbox[q])
  BY <1>5, <1>6
<1>12. QueueType' /\ QueueIssued' /\ TaskType' /\ TasksWithinDeliveries' /\ (faults \in 0 .. MaxFaults)'
  <2>1. QueueType' /\ QueueIssued' /\ TaskType' /\ (faults \in 0 .. MaxFaults)'
    BY <1>1, <1>11 DEF IInv, HandsInv, QueueType, QueueIssued, TaskType
  <2>2. ASSUME NEW w \in Workers, pc'[w] # "idle" PROVE TaskWithinDeliveries(w)'
    <3>1. pc[w] # "idle" /\ task'[w] = task[w] /\ pc'[w] = pc[w]
      BY <1>1, <2>2
    <3>2. TaskWithinDeliveries(w) /\ task[w].run \in Runs
      BY <3>1, HeldIsAccepted
    <3>. QED  BY <1>11, <3>1, <3>2 DEF TaskWithinDeliveries
  <2>. QED  BY <2>1, <2>2 DEF TasksWithinDeliveries
<1>. QED  BY <1>1, <1>7, <1>8, <1>9, <1>10, <1>12 DEF IInv, StoreInv, HandsInv

\* The dispatcher dies.
LEMMA DispatcherCrashStep ==
    ASSUME IInv, DispatcherCrash
    PROVE  IInv'
<1>1. StoreInv' /\ RowsKept
  BY StoreKept DEF IInv, DispatcherCrash
<1>2. DispatcherType' /\ ClaimedRows'
  BY DEF DispatcherType, ClaimedRows, DispatcherCrash, NoRow
<1>3. QueueType' /\ QueueIssued' /\ TaskType' /\ TasksWithinDeliveries' /\ (faults \in 0 .. MaxFaults)'
  BY <1>1, MessagesKept, TasksKept, ConstantsAssumption
  DEF IInv, StoreInv, HandsInv, DispatcherCrash
<1>. QED  BY <1>1, <1>2, <1>3 DEF IInv, HandsInv

\* A worker receives a message and reads the job row.
LEMMA ReadJobStep ==
    ASSUME IInv, NEW w \in Workers, NEW r \in Runs, NEW d \in Deliveries, ReadJob(w, r, d)
    PROVE  IInv'
<1>. DEFINE copy == [run |-> r, delivery |-> d,
                     job |-> job[r].status, delivery_id |-> job[r].delivery,
                     attempts |-> job[r].attempts, run_status |-> "unread"]
<1>1. StoreInv' /\ RowsKept
  BY StoreKept DEF IInv, ReadJob
<1>2. d <= Len(outbox[r]) /\ Len(outbox[r]) \in Nat /\ r \in Accepted
  <2>1. d <= Len(outbox[r]) /\ Len(outbox[r]) \in Nat
    BY DEF IInv, HandsInv, StoreInv, OutboxType, QueueIssued, ReadJob
  <2>. QED  BY <2>1 DEF IInv, StoreInv, BornTogether, Accepted, Deliveries
<1>3. /\ job[r].delivery = Len(outbox[r])
      /\ job[r].attempts <= job[r].delivery
      /\ job[r].status \in {"queued", "retrying"} => job[r].attempts < job[r].delivery
      /\ job[r].status \in Statuses /\ job[r].delivery \in 0 .. MaxDeliveries
      /\ job[r].attempts \in Nat
  BY <1>2 DEF IInv, StoreInv, OneOpenDelivery, AttemptsWithinDeliveries, Accepted, JobType
<1>4. job[r].delivery \in Deliveries
  BY <1>2, <1>3, ConstantsAssumption DEF Deliveries
<1>5. copy \in Tasks
  BY <1>3, <1>4 DEF Tasks
<1>6. /\ pc' = [pc EXCEPT ![w] = "jobRead"] /\ task' = [task EXCEPT ![w] = copy]
      /\ pc'[w] = "jobRead" /\ task'[w] = copy
      /\ \A v \in Workers \ {w} : pc'[v] = pc[v] /\ task'[v] = task[v]
  BY DEF ReadJob, IInv, HandsInv, TaskType
<1>7. TaskType'
  BY <1>5, <1>6 DEF IInv, HandsInv, TaskType
<1>8. TasksWithinDeliveries'
  <2>1. TaskWithinDeliveries(w)'
    BY <1>1, <1>2, <1>3, <1>6 DEF TaskWithinDeliveries, ReadJob
  <2>2. ASSUME NEW v \in Workers, v # w, pc'[v] # "idle" PROVE TaskWithinDeliveries(v)'
    BY <1>1, <1>6, <2>2, TaskKept DEF IInv, StoreInv, HandsInv, TaskType, TasksWithinDeliveries
  <2>. QED  BY <2>1, <2>2 DEF TasksWithinDeliveries
<1>9. QueueType' /\ QueueIssued'
  <2>1. queue' = [queue EXCEPT ![r][d] = @ - 1] /\ queue[r][d] > 0 /\ UNCHANGED outbox
    BY DEF ReadJob
  <2>2. \A q \in Runs, e \in Deliveries :
          queue'[q][e] = IF q = r /\ e = d THEN queue[q][e] - 1 ELSE queue[q][e]
    BY <2>1 DEF IInv, HandsInv, QueueType
  <2>3. queue[r][d] \in Nat /\ queue[r][d] - 1 \in Nat
    BY <2>1 DEF IInv, HandsInv, QueueType
  <2>4. QueueType'
    BY <2>1, <2>3 DEF IInv, HandsInv, QueueType
  <2>. QED  BY <2>1, <2>2, <2>3, <2>4 DEF IInv, HandsInv, QueueType, QueueIssued
<1>10. DispatcherType' /\ ClaimedRows' /\ (faults \in 0 .. MaxFaults)'
  BY <1>1, DispatcherKept DEF IInv, StoreInv, HandsInv, ReadJob
<1>. QED  BY <1>1, <1>7, <1>8, <1>9, <1>10 DEF IInv, HandsInv

\* A worker drops a message without touching the tables.
LEMMA DropStep ==
    ASSUME IInv, NEW w \in Workers, IgnoreStale(w) \/ DropContended(w) \/ Unlock(w)
    PROVE  IInv'
<1>1. Release(w) /\ UNCHANGED <<job, run, outbox, queue, dispatcher, faults>>
  BY DEF IgnoreStale, DropContended, Unlock
<1>2. StoreInv' /\ RowsKept
  BY <1>1, StoreKept DEF IInv
<1>3. HandsInv'
  BY <1>1, <1>2, DispatcherKept, MessagesKept, TaskReleased DEF IInv, StoreInv, HandsInv
<1>. QED  BY <1>1, <1>2, <1>3 DEF IInv

\* A worker finds the run or the job terminal.
LEMMA IgnoreTerminalStep ==
    ASSUME IInv, NEW w \in Workers, IgnoreTerminal(w)
    PROVE  IInv'
<1>1. /\ pc[w] # "idle" /\ Release(w)
      /\ UNCHANGED <<run, outbox, queue, dispatcher, faults>>
  BY DEF IgnoreTerminal
<1>2. task[w].run \in Accepted /\ task[w].run \in Runs
  BY <1>1, HeldIsAccepted
<1>3. /\ JobType' /\ OneOpenDelivery' /\ AttemptsWithinDeliveries'
      /\ \A q \in Runs : job[q].status = "none" <=> job'[q].status = "none"
      /\ OutcomesAgree'
  <2>1. CASE task[w].job \in TERMINAL_STATUSES
    <3>1. UNCHANGED <<job, run, outbox>>
      BY <1>1, <2>1 DEF IgnoreTerminal
    <3>. QED  BY <3>1, StoreKept DEF IInv, StoreInv
  <2>2. CASE task[w].job \notin TERMINAL_STATUSES
    <3>1. SetStatus(task[w].run, run[task[w].run]) /\ run[task[w].run] \in TERMINAL_STATUSES
      BY <2>2 DEF IgnoreTerminal, SeesTerminal
    <3>2. /\ JobType' /\ OneOpenDelivery' /\ AttemptsWithinDeliveries'
          /\ \A q \in Runs : job[q].status = "none" <=> job'[q].status = "none"
          /\ job'[task[w].run].status = run[task[w].run]
          /\ \A q \in Runs \ {task[w].run} : job'[q] = job[q]
      BY <1>1, <1>2, <3>1, SetStatusStep DEF IInv, StoreInv
    <3>3. OutcomesAgree'
      BY <1>1, <3>2 DEF IInv, StoreInv, OutcomesAgree
    <3>. QED  BY <3>2, <3>3
  <2>. QED  BY <2>1, <2>2
<1>4. RunType' /\ OutboxType' /\ BornTogether' /\ RowsKept
  BY <1>1, <1>3 DEF IInv, StoreInv, RunType, OutboxType, BornTogether, RowsKept
<1>5. HandsInv'
  BY <1>1, <1>4, DispatcherKept, MessagesKept, TaskReleased DEF IInv, StoreInv, HandsInv
<1>. QED  BY <1>1, <1>3, <1>4, <1>5 DEF IInv, StoreInv

\* A worker reads the run row.
LEMMA ReadRunStep ==
    ASSUME IInv, NEW w \in Workers, ReadRun(w)
    PROVE  IInv'
<1>1. /\ pc[w] = "jobRead" /\ UNCHANGED <<job, run, outbox, queue, dispatcher, faults>>
      /\ pc' = [pc EXCEPT ![w] = "tryLock"]
      /\ task' = [task EXCEPT ![w].run_status = run[task[w].run]]
      /\ task[w].job \notin TERMINAL_STATUSES
  BY DEF ReadRun, SeesTerminal
<1>2. StoreInv' /\ RowsKept
  BY <1>1, StoreKept DEF IInv
<1>3. /\ task[w] \in Tasks /\ TaskWithinDeliveries(w)
      /\ task[w].run \in Accepted /\ task[w].run \in Runs
  BY <1>1, HeldIsAccepted
<1>4. run[task[w].run] \in Statuses
  BY <1>3 DEF IInv, StoreInv, RunType, BornTogether, Accepted
<1>5. /\ task'[w] = [task[w] EXCEPT !.run_status = run[task[w].run]]
      /\ pc'[w] = "tryLock"
      /\ \A v \in Workers \ {w} : pc'[v] = pc[v] /\ task'[v] = task[v]
  BY <1>1 DEF IInv, HandsInv, TaskType
<1>6. task'[w] \in Tasks /\ task'[w].run = task[w].run
      /\ task'[w].delivery = task[w].delivery /\ task'[w].delivery_id = task[w].delivery_id
      /\ task'[w].attempts = task[w].attempts /\ task'[w].job = task[w].job
  BY <1>3, <1>4, <1>5 DEF Tasks
<1>7. TaskType'
  BY <1>1, <1>5, <1>6 DEF IInv, HandsInv, TaskType
<1>8. TasksWithinDeliveries'
  <2>1. TaskWithinDeliveries(w)'
    BY <1>1, <1>3, <1>6 DEF TaskWithinDeliveries
  <2>2. ASSUME NEW v \in Workers, v # w, pc'[v] # "idle" PROVE TaskWithinDeliveries(v)'
    BY <1>2, <1>5, <2>2, TaskKept DEF IInv, StoreInv, HandsInv, TaskType, TasksWithinDeliveries
  <2>. QED  BY <2>1, <2>2 DEF TasksWithinDeliveries
<1>9. DispatcherType' /\ ClaimedRows' /\ QueueType' /\ QueueIssued'
  BY <1>1, <1>2, DispatcherKept, MessagesKept DEF IInv, StoreInv, HandsInv
<1>. QED  BY <1>1, <1>2, <1>7, <1>8, <1>9 DEF IInv, HandsInv

\* A worker tries the dataset lock.
LEMMA TryLockStep ==
    ASSUME IInv, NEW w \in Workers, AcquireLock(w) \/ LockContended(w)
    PROVE  IInv'
<1>1. PICK p \in {"locked", "contended"} :
        /\ pc[w] = "tryLock" /\ pc' = [pc EXCEPT ![w] = p]
        /\ UNCHANGED <<job, run, outbox, queue, task, dispatcher, faults>>
  BY DEF AcquireLock, LockContended
<1>2. StoreInv' /\ RowsKept
  BY <1>1, StoreKept DEF IInv
<1>3. TaskType' /\ TasksWithinDeliveries'
  BY <1>1, <1>2, TaskMoved DEF IInv, StoreInv, HandsInv
<1>4. DispatcherType' /\ ClaimedRows' /\ QueueType' /\ QueueIssued'
  BY <1>1, <1>2, DispatcherKept, MessagesKept DEF IInv, StoreInv, HandsInv
<1>. QED  BY <1>1, <1>2, <1>3, <1>4 DEF IInv, HandsInv

\* A contended delivery is deferred.
LEMMA DeferStep ==
    ASSUME IInv, NEW w \in Workers, DeferForLockContention(w)
    PROVE  IInv'
<1>. DEFINE r == task[w].run
<1>1. /\ pc[w] # "idle" /\ ~Active(r) /\ CanMint(r) /\ Mint({r}, "queued") /\ Release(w)
      /\ UNCHANGED <<run, queue, dispatcher, faults>>
  BY DEF DeferForLockContention, Deferrable
<1>2. r \in Accepted
  BY <1>1, HeldIsAccepted
<1>3. /\ JobType' /\ OutboxType' /\ OneOpenDelivery' /\ AttemptsWithinDeliveries'
      /\ RowsKept
      /\ \A q \in Runs : /\ job[q].status = "none" <=> job'[q].status = "none"
                         /\ job[q].status = "none" <=> Len(outbox'[q]) = 0
                         /\ Len(outbox'[q]) <= MaxDeliveries
      /\ job'[r].status \notin TERMINAL_STATUSES
      /\ \A q \in Runs \ {r} : job'[q] = job[q]
  BY <1>1, <1>2, MintStep DEF IInv, StoreInv
<1>4. RunType' /\ BornTogether' /\ OutcomesAgree'
  BY <1>1, <1>3 DEF IInv, StoreInv, RunType, BornTogether, OutcomesAgree
<1>5. HandsInv'
  BY <1>1, <1>3, DispatcherKept, MessagesKept, TaskReleased DEF IInv, StoreInv, HandsInv
<1>. QED  BY <1>1, <1>3, <1>4, <1>5 DEF IInv, StoreInv

\* The first commit of an execution, computed from the worker's copies.
LEMMA BeginProcessingStep ==
    ASSUME IInv, NEW w \in Workers, BeginProcessing(w)
    PROVE  IInv'
<1>. DEFINE r == task[w].run
            fresh == task[w].job # "processing"
            row == [status |-> IF fresh THEN "processing" ELSE job[r].status,
                    delivery |-> job[r].delivery,
                    attempts |-> IF fresh THEN task[w].attempts + 1 ELSE job[r].attempts]
<1>1. /\ pc[w] = "locked" /\ UNCHANGED <<outbox, queue, dispatcher, faults>>
      /\ job' = [job EXCEPT ![r] = row]
      /\ run' = [run EXCEPT ![r] =
                   IF task[w].run_status # "processing" THEN "processing" ELSE run[r]]
      /\ pc' = [pc EXCEPT ![w] = "normalizing"]
      /\ task' = [task EXCEPT ![w] = [task[w] EXCEPT !.job = "processing",
                                                     !.run_status = "processing"]]
  BY DEF BeginProcessing
<1>2. /\ task[w] \in Tasks /\ TaskWithinDeliveries(w)
      /\ r \in Accepted /\ r \in Runs
  BY <1>1, HeldIsAccepted
<1>3. /\ job[r].status \in Statuses /\ job[r].delivery \in 0 .. MaxDeliveries
      /\ job[r].attempts \in Nat /\ run[r] \in Statuses
      /\ Len(outbox[r]) \in Nat /\ job[r].delivery = Len(outbox[r])
      /\ job[r].attempts <= job[r].delivery
      /\ task[w].attempts \in Nat /\ task[w].delivery_id \in Nat /\ task[w].job \in Statuses
  BY <1>2 DEF IInv, StoreInv, JobType, RunType, OutboxType, BornTogether, Accepted,
              OneOpenDelivery, AttemptsWithinDeliveries, Tasks, Deliveries
<1>4. fresh => task[w].attempts + 1 <= job[r].delivery
  <2>1. fresh => task[w].job \in {"queued", "retrying"}
    BY <1>1, <1>2, <1>3 DEF TaskWithinDeliveries, Statuses
  <2>. QED  BY <1>2, <1>3, <2>1 DEF TaskWithinDeliveries
<1>5. /\ job'[r] = row
      /\ run'[r] = IF task[w].run_status # "processing" THEN "processing" ELSE run[r]
      /\ \A q \in Runs \ {r} : job'[q] = job[q] /\ run'[q] = run[q]
  BY <1>1, <1>2 DEF IInv, StoreInv, JobType, RunType
<1>6. JobType' /\ RunType'
  <2>1. row \in [status : Statuses \cup {"none"}, delivery : 0 .. MaxDeliveries, attempts : Nat]
    BY <1>3 DEF Statuses
  <2>. QED  BY <1>1, <1>3, <2>1 DEF IInv, StoreInv, JobType, RunType, Statuses
<1>7. BornTogether'
  <2>1. job[r].status # "none" /\ job'[r].status # "none" /\ run'[r] # "none"
    BY <1>2, <1>3, <1>5 DEF Accepted, Statuses, TERMINAL_STATUSES
  <2>. QED  BY <1>1, <1>5, <2>1 DEF IInv, StoreInv, BornTogether
<1>8. OneOpenDelivery'
  <2>1. ASSUME NEW q \in Accepted'
        PROVE  job'[q].delivery = job[q].delivery /\ q \in Accepted
    BY <1>2, <1>5 DEF Accepted
  <2>. QED  BY <1>1, <2>1 DEF IInv, StoreInv, OneOpenDelivery
<1>9. AttemptsWithinDeliveries'
  <2>1. /\ job'[r].attempts <= job'[r].delivery
        /\ job'[r].status \in {"queued", "retrying"} => job'[r].attempts < job'[r].delivery
    <3>1. CASE fresh
      BY <1>3, <1>4, <1>5, <3>1
    <3>2. CASE ~fresh
      BY <1>2, <1>3, <1>5, <3>2 DEF IInv, StoreInv, AttemptsWithinDeliveries
    <3>. QED  BY <3>1, <3>2
  <2>2. ASSUME NEW q \in Accepted', q # r
        PROVE  /\ job'[q].attempts <= job'[q].delivery
               /\ job'[q].status \in {"queued", "retrying"} => job'[q].attempts < job'[q].delivery
    BY <1>5, <2>2 DEF IInv, StoreInv, AttemptsWithinDeliveries, Accepted
  <2>. QED  BY <2>1, <2>2 DEF AttemptsWithinDeliveries
<1>10. OutcomesAgree'
  <2>1. {job'[r].status, run'[r]} \subseteq TERMINAL_STATUSES => job'[r].status = run'[r]
    BY <1>2, <1>5 DEF IInv, StoreInv, OutcomesAgree, TERMINAL_STATUSES
  <2>. QED  BY <1>5, <2>1 DEF IInv, StoreInv, OutcomesAgree
<1>11. OutboxType' /\ RowsKept
  BY <1>1 DEF IInv, StoreInv, OutboxType, RowsKept
<1>12. /\ task'[w] = [task[w] EXCEPT !.job = "processing", !.run_status = "processing"]
       /\ pc'[w] = "normalizing"
       /\ \A v \in Workers \ {w} : pc'[v] = pc[v] /\ task'[v] = task[v]
  BY <1>1 DEF IInv, HandsInv, TaskType
<1>13. /\ task'[w] \in Tasks /\ task'[w].run = r /\ task'[w].job = "processing"
       /\ task'[w].delivery = task[w].delivery /\ task'[w].delivery_id = task[w].delivery_id
       /\ task'[w].attempts = task[w].attempts
  BY <1>2, <1>12 DEF Tasks, Statuses
<1>14. TaskType'
  BY <1>1, <1>12, <1>13 DEF IInv, HandsInv, TaskType
<1>15. TasksWithinDeliveries'
  <2>1. TaskWithinDeliveries(w)'
    BY <1>1, <1>2, <1>12, <1>13 DEF TaskWithinDeliveries
  <2>2. ASSUME NEW v \in Workers, v # w, pc'[v] # "idle" PROVE TaskWithinDeliveries(v)'
    BY <1>11, <1>12, <2>2, TaskKept DEF IInv, StoreInv, HandsInv, TaskType, TasksWithinDeliveries
  <2>. QED  BY <2>1, <2>2 DEF TasksWithinDeliveries
<1>16. DispatcherType' /\ ClaimedRows' /\ QueueType' /\ QueueIssued' /\ (faults \in 0 .. MaxFaults)'
  BY <1>1, <1>11, DispatcherKept, MessagesKept DEF IInv, StoreInv, HandsInv
<1>. QED  BY <1>6, <1>7, <1>8, <1>9, <1>10, <1>11, <1>14, <1>15, <1>16 DEF IInv, StoreInv, HandsInv

\* An execution ends: completed, permanently failed or out of attempts.
LEMMA FinalizeStep ==
    ASSUME IInv, NEW w \in Workers, NEW status \in TERMINAL_STATUSES,
           pc[w] = "normalizing", Finalize(w, status)
    PROVE  IInv'
<1>. DEFINE r == task[w].run
<1>1. /\ SetStatus(r, status) /\ run' = [run EXCEPT ![r] = status]
      /\ pc' = [pc EXCEPT ![w] = "unlocking"]
      /\ UNCHANGED <<outbox, queue, task, dispatcher, faults>>
  BY DEF Finalize
<1>2. r \in Accepted /\ r \in Runs
  BY HeldIsAccepted
<1>3. /\ JobType' /\ OneOpenDelivery' /\ AttemptsWithinDeliveries'
      /\ \A q \in Runs : job[q].status = "none" <=> job'[q].status = "none"
      /\ job'[r].status = status
      /\ \A q \in Runs \ {r} : job'[q] = job[q]
  BY <1>1, <1>2, SetStatusStep DEF IInv, StoreInv
<1>4. run'[r] = status /\ \A q \in Runs \ {r} : run'[q] = run[q]
  BY <1>1, <1>2 DEF IInv, StoreInv, RunType
<1>5. RunType'
  BY <1>1 DEF IInv, StoreInv, RunType, Statuses
<1>6. BornTogether'
  <2>1. job[r].status # "none" /\ status # "none"
    BY <1>2 DEF Accepted, TERMINAL_STATUSES
  <2>. QED  BY <1>1, <1>3, <1>4, <2>1 DEF IInv, StoreInv, BornTogether
<1>7. OutcomesAgree'
  BY <1>3, <1>4 DEF IInv, StoreInv, OutcomesAgree
<1>8. OutboxType' /\ RowsKept
  BY <1>1 DEF IInv, StoreInv, OutboxType, RowsKept
<1>9. TaskType' /\ TasksWithinDeliveries'
  BY <1>1, <1>8, TaskMoved DEF IInv, StoreInv, HandsInv
<1>10. DispatcherType' /\ ClaimedRows' /\ QueueType' /\ QueueIssued' /\ (faults \in 0 .. MaxFaults)'
  BY <1>1, <1>8, DispatcherKept, MessagesKept DEF IInv, StoreInv, HandsInv
<1>. QED  BY <1>3, <1>5, <1>6, <1>7, <1>8, <1>9, <1>10 DEF IInv, StoreInv, HandsInv

\* A retryable failure mints the next delivery.
LEMMA ScheduleRetryStep ==
    ASSUME IInv, NEW w \in Workers, ScheduleRetry(w)
    PROVE  IInv'
<1>. DEFINE r == task[w].run
<1>1. /\ pc[w] = "normalizing" /\ ~Active(r) /\ CanMint(r) /\ Mint({r}, "retrying")
      /\ run' = [run EXCEPT ![r] = "retrying"]
      /\ pc' = [pc EXCEPT ![w] = "unlocking"]
      /\ UNCHANGED <<queue, task, dispatcher, faults>>
  BY DEF ScheduleRetry
<1>2. r \in Accepted /\ r \in Runs
  BY <1>1, HeldIsAccepted
<1>3. /\ JobType' /\ OutboxType' /\ OneOpenDelivery' /\ AttemptsWithinDeliveries'
      /\ RowsKept
      /\ \A q \in Runs : /\ job[q].status = "none" <=> job'[q].status = "none"
                         /\ job[q].status = "none" <=> Len(outbox'[q]) = 0
                         /\ Len(outbox'[q]) <= MaxDeliveries
      /\ job'[r].status \notin TERMINAL_STATUSES
      /\ \A q \in Runs \ {r} : job'[q] = job[q]
  BY <1>1, <1>2, MintStep DEF IInv, StoreInv
<1>4. run'[r] = "retrying" /\ \A q \in Runs \ {r} : run'[q] = run[q]
  BY <1>1, <1>2 DEF IInv, StoreInv, RunType
<1>5. RunType'
  BY <1>1 DEF IInv, StoreInv, RunType, Statuses
<1>6. BornTogether'
  <2>1. job[r].status # "none"
    BY <1>2 DEF Accepted
  <2>. QED  BY <1>3, <1>4, <2>1 DEF IInv, StoreInv, BornTogether
<1>7. OutcomesAgree'
  BY <1>3, <1>4 DEF IInv, StoreInv, OutcomesAgree
<1>8. TaskType' /\ TasksWithinDeliveries'
  BY <1>1, <1>3, TaskMoved DEF IInv, StoreInv, HandsInv
<1>9. DispatcherType' /\ ClaimedRows' /\ QueueType' /\ QueueIssued' /\ (faults \in 0 .. MaxFaults)'
  BY <1>1, <1>3, DispatcherKept, MessagesKept DEF IInv, StoreInv, HandsInv
<1>. QED  BY <1>3, <1>5, <1>6, <1>7, <1>8, <1>9 DEF IInv, StoreInv, HandsInv

\* An execution is given up: a conflicting retry, a crash or an outage.
LEMMA GiveUpStep ==
    ASSUME IInv, NEW w \in Workers, pc[w] # "idle", NEW requeued \in BOOLEAN,
           GiveUp(w, requeued), UNCHANGED <<job, run, outbox, dispatcher>>,
           (faults \in 0 .. MaxFaults)'
    PROVE  IInv'
<1>1. StoreInv' /\ RowsKept
  BY StoreKept DEF IInv
<1>2. QueueType' /\ QueueIssued'
  <2>1. /\ task[w].run \in Runs /\ task[w].delivery \in Deliveries
        /\ task[w].delivery <= Len(outbox[task[w].run])
    BY HeldIsAccepted
  <2>2. CASE requeued
    BY <2>1, <2>2, MessageAdded DEF GiveUp, IInv, HandsInv
  <2>3. CASE ~requeued
    BY <1>1, <2>3, MessagesKept DEF GiveUp, IInv, StoreInv, HandsInv
  <2>. QED  BY <2>2, <2>3
<1>3. DispatcherType' /\ ClaimedRows' /\ TaskType' /\ TasksWithinDeliveries'
  BY <1>1, DispatcherKept, TaskReleased DEF GiveUp, IInv, StoreInv, HandsInv
<1>. QED  BY <1>1, <1>2, <1>3 DEF IInv, HandsInv

\* The broker redelivers a message that is being executed.
LEMMA RedeliverStep ==
    ASSUME IInv, NEW w \in Workers, Redeliver(w)
    PROVE  IInv'
<1>1. StoreInv' /\ RowsKept
  BY StoreKept DEF IInv, Redeliver
<1>2. QueueType' /\ QueueIssued'
  BY HeldIsAccepted, MessageAdded DEF Redeliver, IInv, HandsInv
<1>3. DispatcherType' /\ ClaimedRows' /\ TaskType' /\ TasksWithinDeliveries' /\ (faults \in 0 .. MaxFaults)'
  BY <1>1, DispatcherKept, TasksKept, ConstantsAssumption DEF Redeliver, IInv, StoreInv, HandsInv
<1>. QED  BY <1>1, <1>2, <1>3 DEF IInv, HandsInv

\* The broker loses everything.
LEMMA BrokerLossStep ==
    ASSUME IInv, BrokerLoss
    PROVE  IInv'
<1>1. StoreInv' /\ RowsKept
  BY StoreKept DEF IInv, BrokerLoss
<1>2. QueueType' /\ QueueIssued'
  BY DEF BrokerLoss, QueueType, QueueIssued
<1>3. DispatcherType' /\ ClaimedRows' /\ TaskType' /\ TasksWithinDeliveries' /\ (faults \in 0 .. MaxFaults)'
  BY <1>1, DispatcherKept, TasksKept, ConstantsAssumption DEF BrokerLoss, IInv, StoreInv, HandsInv
<1>. QED  BY <1>1, <1>2, <1>3 DEF IInv, HandsInv

-----------------------------------------------------------------------------
(* The theorems.                                                           *)

\* The invariant holds initially.
LEMMA InitInv == Init => IInv
<1>. SUFFICES ASSUME Init PROVE IInv
  OBVIOUS
<1>1. JobType /\ RunType /\ OutboxType
  BY ConstantsAssumption DEF Init, JobType, RunType, OutboxType
<1>2. \A r \in Runs : job[r].status = "none" /\ run[r] = "none" /\ Len(outbox[r]) = 0
  BY DEF Init
<1>3. BornTogether /\ OneOpenDelivery /\ AttemptsWithinDeliveries /\ OutcomesAgree
  BY <1>2, ConstantsAssumption DEF BornTogether, OneOpenDelivery, AttemptsWithinDeliveries,
                                   OutcomesAgree, Accepted, TERMINAL_STATUSES
<1>4. QueueType /\ TaskType /\ DispatcherType
  BY DEF Init, QueueType, TaskType, DispatcherType, NoRow
<1>5. ClaimedRows /\ QueueIssued /\ TasksWithinDeliveries
  BY DEF Init, ClaimedRows, QueueIssued, TasksWithinDeliveries
<1>6. faults \in 0 .. MaxFaults
  BY ConstantsAssumption DEF Init
<1>. QED  BY <1>1, <1>3, <1>4, <1>5, <1>6 DEF IInv, StoreInv, HandsInv

\* Every step keeps it.
LEMMA NextInv == IInv /\ [Next]_vars => IInv'
<1>. SUFFICES ASSUME IInv, [Next]_vars PROVE IInv'
  OBVIOUS
<1>1. CASE UNCHANGED vars
  <2>1. StoreInv' /\ RowsKept
    BY <1>1, StoreKept DEF vars, IInv
  <2>. QED  BY <1>1, <2>1, DispatcherKept, MessagesKept, TasksKept DEF vars, IInv, StoreInv, HandsInv
<1>2. CASE \E r \in Runs : CreateNormalizationJob(r)
  BY <1>2, CreateNormalizationJobStep
<1>3. CASE DispatcherNext
  BY <1>3, ReconcileStaleJobsStep, TopologyProbeFailsStep, ClaimOutboxBatchStep, PublishStep,
     MarkStep, DispatcherCrashStep DEF DispatcherNext
<1>4. ASSUME NEW w \in Workers, WorkerNext(w) PROVE IInv'
  <2>1. CASE \E r \in Runs, d \in Deliveries : ReadJob(w, r, d)
    BY <2>1, ReadJobStep
  <2>2. CASE WorkerStep(w)
    <3>1. CASE Conclude(w)
      <4>1. CASE \E status \in TERMINAL_STATUSES : CompleteNormalization(w, status)
        BY <4>1, FinalizeStep DEF CompleteNormalization
      <4>2. CASE MarkPermanentFailure(w) \/ RetryExhausted(w)
        BY <4>2, FinalizeStep DEF MarkPermanentFailure, RetryExhausted, TERMINAL_STATUSES
      <4>3. CASE ScheduleRetry(w)
        BY <4>3, ScheduleRetryStep
      <4>4. CASE RetryConflict(w)
        <5>1. /\ pc[w] # "idle" /\ GiveUp(w, TRUE) /\ (faults \in 0 .. MaxFaults)'
              /\ UNCHANGED <<job, run, outbox, dispatcher>>
          BY <4>4 DEF RetryConflict, IInv
        <5>. QED  BY <5>1, GiveUpStep
      <4>. QED  BY <3>1, <4>1, <4>2, <4>3, <4>4 DEF Conclude
    <3>. QED  BY <2>2, <3>1, DropStep, IgnoreTerminalStep, ReadRunStep, TryLockStep, DeferStep,
                 BeginProcessingStep DEF WorkerStep
  <2>3. CASE \E requeued \in BOOLEAN : ExecutionLost(w, requeued)
    <3>1. PICK requeued \in BOOLEAN : ExecutionLost(w, requeued)
      BY <2>3
    <3>2. /\ pc[w] # "idle" /\ GiveUp(w, requeued) /\ (faults \in 0 .. MaxFaults)'
          /\ UNCHANGED <<job, run, outbox, dispatcher>>
      BY <3>1, ConstantsAssumption DEF ExecutionLost, IInv
    <3>. QED  BY <3>2, GiveUpStep
  <2>4. CASE Redeliver(w)
    BY <2>4, RedeliverStep
  <2>. QED  BY <1>4, <2>1, <2>2, <2>3, <2>4 DEF WorkerNext
<1>5. CASE BrokerLoss
  BY <1>5, BrokerLossStep
<1>. QED  BY <1>1, <1>2, <1>3, <1>4, <1>5 DEF Next

\* The inductive invariant holds in every reachable state.
THEOREM Invariance == Spec => []IInv
  BY InitInv, NextInv, PTL DEF Spec

\* Types, for every instance.
THEOREM TypeCorrect == Spec => []TypeOK
<1>1. IInv => TypeOK
  BY DEF IInv, StoreInv, HandsInv, TypeOK
<1>. QED  BY <1>1, Invariance, PTL

\* At most one delivery generation of a job is open, for every instance.
THEOREM OneOpenDeliveryHolds == Spec => []OneOpenDelivery
<1>1. IInv => OneOpenDelivery
  BY DEF IInv, StoreInv
<1>. QED  BY <1>1, Invariance, PTL

\* attempt_count never exceeds the deliveries minted, for every instance.
THEOREM AttemptsBounded == Spec => []AttemptsWithinDeliveries
<1>1. IInv => AttemptsWithinDeliveries
  BY DEF IInv, StoreInv
<1>. QED  BY <1>1, Invariance, PTL

\* Job and run never tell different outcomes, for every instance.
THEOREM OutcomesAgreeHolds == Spec => []OutcomesAgree
<1>1. IInv => OutcomesAgree
  BY DEF IInv, StoreInv
<1>. QED  BY <1>1, Invariance, PTL

\* The dataset lock admits one writer at a time, for every instance.
THEOREM OneWriterHolds == Spec => []OneWriterPerDataset
<1>. DEFINE Holding == {"locked", "normalizing", "unlocking"}
<1>1. Init => OneWriterPerDataset
  BY DEF Init, OneWriterPerDataset
<1>2. IInv /\ OneWriterPerDataset /\ [Next]_vars => OneWriterPerDataset'
  <2>. SUFFICES ASSUME IInv, OneWriterPerDataset, [Next]_vars,
                       NEW v \in Workers, NEW w \in Workers, v # w,
                       pc'[v] \in Holding, pc'[w] \in Holding
                PROVE  DatasetOf[task'[v].run] # DatasetOf[task'[w].run]
    BY DEF OneWriterPerDataset
  <2>0. TaskType
    BY DEF IInv, HandsInv
  <2>1. CASE UNCHANGED <<pc, task>>
    BY <2>1 DEF OneWriterPerDataset
  <2>2. CASE \E u \in Workers, r \in Runs, d \in Deliveries : ReadJob(u, r, d)
    <3>1. \A x \in {v, w} : pc[x] \in Holding /\ task'[x] = task[x]
      BY <2>0, <2>2 DEF ReadJob, TaskType
    <3>. QED  BY <3>1 DEF OneWriterPerDataset
  <2>3. CASE \E u \in Workers : Release(u)
    <3>1. \A x \in {v, w} : pc[x] \in Holding /\ task'[x] = task[x]
      BY <2>0, <2>3 DEF Release, TaskType
    <3>. QED  BY <3>1 DEF OneWriterPerDataset
  <2>4. CASE \E u \in Workers : ReadRun(u) \/ LockContended(u)
    <3>1. \A x \in {v, w} : pc[x] \in Holding /\ task'[x] = task[x]
      BY <2>0, <2>4 DEF ReadRun, LockContended, TaskType
    <3>. QED  BY <3>1 DEF OneWriterPerDataset
  <2>5. CASE \E u \in Workers : AcquireLock(u)
    <3>1. PICK u \in Workers : AcquireLock(u)
      BY <2>5
    <3>2. /\ pc[u] = "tryLock" /\ LockFree(DatasetOf[task[u].run]) /\ task' = task
          /\ \A x \in Workers \ {u} : pc'[x] = pc[x]
      BY <2>0, <3>1 DEF AcquireLock, TaskType
    <3>. QED  BY <3>2 DEF OneWriterPerDataset, LockFree, HoldsLock
  <2>6. CASE \E u \in Workers : BeginProcessing(u)
    <3>1. PICK u \in Workers : BeginProcessing(u)
      BY <2>6
    <3>2. pc[u] = "locked" /\ task[u] \in Tasks
      BY <2>0, <3>1 DEF BeginProcessing, TaskType
    <3>3. /\ task'[u].run = task[u].run
          /\ \A x \in Workers \ {u} : pc'[x] = pc[x] /\ task'[x] = task[x]
      BY <2>0, <3>1, <3>2 DEF BeginProcessing, TaskType, Tasks
    <3>. QED  BY <3>2, <3>3 DEF OneWriterPerDataset
  <2>7. CASE \E u \in Workers : /\ pc[u] = "normalizing" /\ pc' = [pc EXCEPT ![u] = "unlocking"]
                                /\ UNCHANGED task
    <3>1. \A x \in {v, w} : pc[x] \in Holding /\ task'[x] = task[x]
      BY <2>0, <2>7 DEF TaskType
    <3>. QED  BY <3>1 DEF OneWriterPerDataset
  <2>8. UNCHANGED vars \/ BrokerLoss \/ DispatcherNext \/ (\E r \in Runs : CreateNormalizationJob(r))
          => UNCHANGED <<pc, task>>
    BY DEF vars, BrokerLoss, DispatcherNext, CreateNormalizationJob, ReconcileStaleJobs,
           TopologyProbeFails, ClaimOutboxBatch, PublishOutboxEvent, PublishRaises,
           MarkOutboxPublished, MarkOutboxPublishFailure, DispatcherCrash
  <2>9. ASSUME NEW u \in Workers, Conclude(u)
        PROVE  \/ Release(u)
               \/ pc[u] = "normalizing" /\ pc' = [pc EXCEPT ![u] = "unlocking"] /\ UNCHANGED task
    BY <2>9 DEF Conclude, CompleteNormalization, MarkPermanentFailure, RetryExhausted,
                ScheduleRetry, RetryConflict, Finalize, GiveUp
  <2>10. ASSUME NEW u \in Workers, WorkerNext(u)
         PROVE  \/ UNCHANGED <<pc, task>>
                \/ \E r \in Runs, d \in Deliveries : ReadJob(u, r, d)
                \/ Release(u) \/ ReadRun(u) \/ LockContended(u) \/ AcquireLock(u)
                \/ BeginProcessing(u) \/ Conclude(u)
    BY <2>10 DEF WorkerNext, WorkerStep, IgnoreTerminal, IgnoreStale, DeferForLockContention,
                 DropContended, Unlock, ExecutionLost, Redeliver, GiveUp
  <2>. QED  BY <2>1, <2>2, <2>3, <2>4, <2>5, <2>6, <2>7, <2>8, <2>9, <2>10 DEF Next
<1>. QED  BY <1>1, <1>2, Invariance, PTL DEF Spec

\* Reconciliation and deferral never resurrect a finished job, for every
\* instance: only a lock holder with copies from before the finish does.
THEOREM ReopenedOnlyUnderLockHolds == Spec => ReopenedOnlyUnderLock
<1>1. IInv /\ [Next]_vars =>
        [\A r \in Runs :
          /\ job[r].status \in TERMINAL_STATUSES
          /\ job'[r] # job[r]
          => \E w \in Workers : task[w].run = r /\ HoldsLock(w, DatasetOf[r])
                               /\ task[w].job \notin TERMINAL_STATUSES]_vars
  <2>. SUFFICES ASSUME IInv, Next, NEW r \in Runs,
                       job[r].status \in TERMINAL_STATUSES, job'[r] # job[r]
                PROVE  \E w \in Workers : task[w].run = r /\ HoldsLock(w, DatasetOf[r])
                                            /\ task[w].job \notin TERMINAL_STATUSES
    OBVIOUS
  <2>0. JobType /\ TaskType /\ OutcomesAgree
    BY DEF IInv, StoreInv, HandsInv
  <2>1. ASSUME NEW S \in SUBSET Accepted, NEW status, Mint(S, status) PROVE r \in S
    BY <2>1 DEF Mint
  <2>2. ASSUME NEW q \in Runs, NEW status, SetStatus(q, status)
        PROVE  q = r /\ status # job[r].status
    <3>1. q = r
      BY <2>0, <2>2 DEF SetStatus, JobType
    <3>2. job'[r] = [status |-> status, delivery |-> job[r].delivery, attempts |-> job[r].attempts]
      BY <2>0, <2>2, <3>1 DEF SetStatus, JobType
    <3>3. job[r] = [status |-> job[r].status, delivery |-> job[r].delivery,
                    attempts |-> job[r].attempts]
      BY <2>0 DEF JobType
    <3>. QED  BY <3>1, <3>2, <3>3
  <2>3. ~ \E q \in Runs : CreateNormalizationJob(q)
    BY <2>0 DEF CreateNormalizationJob, JobType, TERMINAL_STATUSES
  <2>4. ~ DispatcherNext
    BY <2>1 DEF DispatcherNext, ReconcileStaleJobs, StaleJobs, TopologyProbeFails,
                ClaimOutboxBatch, PublishOutboxEvent, PublishRaises, MarkOutboxPublished,
                MarkOutboxPublishFailure, DispatcherCrash
  <2>5. ~ BrokerLoss
    BY DEF BrokerLoss
  <2>6. ASSUME NEW w \in Workers, WorkerNext(w)
        PROVE  pc[w] \in {"locked", "normalizing"} /\ task[w].run = r
    <3>1. pc[w] # "idle"
      BY <2>6 DEF WorkerNext, WorkerStep, Conclude, ReadJob, IgnoreTerminal, IgnoreStale, ReadRun,
                  AcquireLock, LockContended, DeferForLockContention, DropContended,
                  BeginProcessing, CompleteNormalization, MarkPermanentFailure, RetryExhausted,
                  ScheduleRetry, RetryConflict, Unlock, ExecutionLost, Redeliver
    <3>2. task[w].run \in Runs /\ task[w].run \in Accepted
      BY <3>1, HeldIsAccepted
    <3>3. ~ IgnoreTerminal(w)
      <4>. SUFFICES ASSUME IgnoreTerminal(w) PROVE FALSE
        OBVIOUS
      <4>1. SetStatus(task[w].run, run[task[w].run]) /\ run[task[w].run] \in TERMINAL_STATUSES
        BY DEF IgnoreTerminal, SeesTerminal
      <4>2. task[w].run = r /\ run[r] # job[r].status
        BY <2>2, <3>2, <4>1
      <4>. QED  BY <2>0, <4>1, <4>2 DEF OutcomesAgree
    <3>4. ~ DeferForLockContention(w)
      <4>. SUFFICES ASSUME DeferForLockContention(w) PROVE FALSE
        OBVIOUS
      <4>1. r \in {task[w].run} /\ job[task[w].run].status \notin TERMINAL_STATUSES
        BY <2>1, <3>2 DEF DeferForLockContention, Deferrable
      <4>. QED  BY <4>1
    <3>5. Conclude(w) => pc[w] = "normalizing" /\ task[w].run = r
      <4>1. ASSUME NEW status, Finalize(w, status) PROVE task[w].run = r
        BY <2>2, <3>2, <4>1 DEF Finalize
      <4>2. ScheduleRetry(w) => task[w].run = r
        BY <2>1, <3>2 DEF ScheduleRetry
      <4>. QED  BY <4>1, <4>2 DEF Conclude, CompleteNormalization, MarkPermanentFailure,
                                  RetryExhausted, ScheduleRetry, RetryConflict
    <3>6. BeginProcessing(w) => pc[w] = "locked" /\ task[w].run = r
      BY <2>0, <3>2 DEF BeginProcessing, JobType
    <3>. QED  BY <2>6, <3>3, <3>4, <3>5, <3>6
              DEF WorkerNext, WorkerStep, ReadJob, IgnoreStale, ReadRun, AcquireLock, LockContended,
                  DropContended, Unlock, ExecutionLost, Redeliver
  <2>7. PICK w \in Workers : WorkerNext(w)
    BY <2>3, <2>4, <2>5 DEF Next
  <2>8. pc[w] \in {"locked", "normalizing"} /\ task[w].run = r
    BY <2>6, <2>7
  <2>9. task[w].job \notin TERMINAL_STATUSES
    BY <2>8, HeldIsAccepted DEF TaskWithinDeliveries, TERMINAL_STATUSES
  <2>. QED  BY <2>8, <2>9 DEF HoldsLock
<1>. QED  BY <1>1, Invariance, PTL DEF Spec, ReopenedOnlyUnderLock

\* At-least-once delivery never becomes a second open generation, attempt,
\* outcome or writer, for every instance.
THEOREM QueueIsSafe == Spec => []QueueSafe
<1>1. OneOpenDelivery /\ AttemptsWithinDeliveries /\ OutcomesAgree /\ OneWriterPerDataset
      => QueueSafe
  BY DEF QueueSafe
<1>. QED  BY <1>1, OneOpenDeliveryHolds, AttemptsBounded, OutcomesAgreeHolds, OneWriterHolds, PTL

---------------------------------------------------------------------------
(* One worker process: job and run finish together and stay finished.      *)

\* The states of a worker that decided to execute its delivery.
Engaged == {"tryLock", "contended", "locked", "normalizing"}

\* The only worker is engaged with a run that is still open, however often
\* reconciliation requeued its job meanwhile.
AloneInv ==
    /\ \A w \in Workers \ {w1} : pc[w] = "idle"
    /\ JobRunAgree
    /\ \A w \in Workers : pc[w] \in Engaged => run[task[w].run] \notin TERMINAL_STATUSES

SingleInv == part = "single" => AloneInv

\* What a step may do to the two status columns of one run while both agree.
StatusStep(r) ==
    \/ job'[r].status = job[r].status /\ run'[r] = run[r]
    \/ /\ run[r] \notin TERMINAL_STATUSES
       /\ job'[r].status \notin TERMINAL_STATUSES
       /\ run'[r] \notin TERMINAL_STATUSES
    \/ run[r] \notin TERMINAL_STATUSES /\ job'[r].status = run'[r]
    \/ run'[r] = run[r] /\ job'[r].status = run[r]

\* Such steps keep the two rows in agreement and terminal rows final.
LEMMA StatusStepAgrees ==
    ASSUME JobRunAgree, \A r \in Runs : StatusStep(r)
    PROVE  JobRunAgree' /\ KeepsTerminal
BY DEF JobRunAgree, KeepsTerminal, StatusStep

\* Minting a delivery for open jobs (reconciliation, deferral).
LEMMA MintStatus ==
    ASSUME JobRunAgree, NEW S, NEW status \in {"queued", "retrying"}, Mint(S, status),
           \A r \in S \cap Runs : run[r] \notin TERMINAL_STATUSES, run' = run,
           NEW r \in Runs
    PROVE  StatusStep(r)
<1>1. CASE r \in S
  <2>1. job'[r].status = status /\ run'[r] \notin TERMINAL_STATUSES /\ run[r] \notin TERMINAL_STATUSES
    BY <1>1 DEF Mint
  <2>. QED  BY <2>1 DEF StatusStep, TERMINAL_STATUSES
<1>2. CASE r \notin S
  <2>1. job'[r] = job[r]
    BY <1>2 DEF Mint
  <2>. QED  BY <2>1 DEF StatusStep
<1>. QED  BY <1>1, <1>2

\* A write of one job's status column.
LEMMA SetStatusStatus ==
    ASSUME JobType, NEW q \in Runs, NEW status, SetStatus(q, status)
    PROVE  /\ job'[q].status = status
           /\ \A r \in Runs \ {q} : job'[r] = job[r]
BY DEF SetStatus, JobType

\* No step but a worker's touches a worker or a run that is already there, and
\* reconciliation only touches open jobs.
LEMMA OthersStep ==
    ASSUME IInv, JobRunAgree,
           (\E q \in Runs : CreateNormalizationJob(q)) \/ DispatcherNext \/ BrokerLoss
    PROVE  /\ \A r \in Runs : StatusStep(r)
           /\ pc' = pc /\ task' = task
           /\ \A r \in Runs : run'[r] = run[r] \/ run'[r] = "queued"
<1>0. JobType /\ RunType /\ BornTogether
  BY DEF IInv, StoreInv
<1>1. ASSUME NEW q \in Runs, CreateNormalizationJob(q)
      PROVE  /\ \A r \in Runs : StatusStep(r)
             /\ pc' = pc /\ task' = task
             /\ \A r \in Runs : run'[r] = run[r] \/ run'[r] = "queued"
  <2>1. /\ run' = [run EXCEPT ![q] = "queued"]
        /\ job' = [job EXCEPT ![q] = [status |-> "queued", delivery |-> 1, attempts |-> 0]]
        /\ pc' = pc /\ task' = task /\ job[q].status = "none"
    BY <1>1 DEF CreateNormalizationJob
  <2>2. run[q] = "none"
    BY <1>0, <2>1 DEF BornTogether
  <2>3. \A r \in Runs : StatusStep(r)
    BY <1>0, <2>1, <2>2 DEF StatusStep, JobType, RunType, TERMINAL_STATUSES
  <2>. QED  BY <1>0, <2>1, <2>3 DEF RunType
<1>2. ASSUME NEW S \in SUBSET StaleJobs, ReconcileStaleJobs(S)
      PROVE  /\ \A r \in Runs : StatusStep(r)
             /\ pc' = pc /\ task' = task /\ run' = run
  <2>1. Mint(S, "queued") /\ pc' = pc /\ task' = task /\ run' = run
    BY <1>2 DEF ReconcileStaleJobs
  <2>2. \A r \in S \cap Runs : run[r] \notin TERMINAL_STATUSES
    BY DEF StaleJobs, JobRunAgree
  <2>. QED  BY <2>1, <2>2, MintStatus
<1>3. BrokerLoss \/ (DispatcherNext /\ ~ \E S \in SUBSET StaleJobs : ReconcileStaleJobs(S))
      => job' = job /\ run' = run /\ pc' = pc /\ task' = task
  BY DEF BrokerLoss, DispatcherNext, TopologyProbeFails, ClaimOutboxBatch, PublishOutboxEvent,
         PublishRaises, MarkOutboxPublished, MarkOutboxPublishFailure, DispatcherCrash
<1>. QED  BY <1>1, <1>2, <1>3 DEF DispatcherNext, StatusStep

\* The worker drops its message: no status changes.
LEMMA LetGoStep ==
    ASSUME TaskType, NEW w \in Workers, Release(w), job' = job, run' = run
    PROVE  /\ \A r \in Runs : StatusStep(r)
           /\ pc'[w] = "idle"
BY DEF Release, TaskType, StatusStep

\* The steps of the only worker: an engaged worker's run is open, so its
\* writes, computed from copies, never touch a terminal row.
LEMMA WorkerStatus ==
    ASSUME IInv, JobRunAgree, NEW w \in Workers, WorkerNext(w),
           pc[w] \in Engaged => run[task[w].run] \notin TERMINAL_STATUSES
    PROVE  /\ \A r \in Runs : StatusStep(r)
           /\ pc'[w] \in Engaged => run'[task'[w].run] \notin TERMINAL_STATUSES
<1>. DEFINE q == task[w].run
<1>0. JobType /\ RunType /\ TaskType
  BY DEF IInv, StoreInv, HandsInv
<1>1. pc[w] # "idle" => q \in Runs /\ task[w] \in Tasks
  BY <1>0 DEF TaskType, Tasks
<1>2. CASE \E r \in Runs, d \in Deliveries : ReadJob(w, r, d)
  <2>1. pc'[w] = "jobRead" /\ job' = job /\ run' = run
    BY <1>0, <1>2 DEF ReadJob, TaskType
  <2>. QED  BY <2>1 DEF StatusStep, Engaged
<1>3. CASE IgnoreTerminal(w)
  <2>1. pc[w] # "idle" /\ SeesTerminal(w) /\ Release(w) /\ run' = run
    BY <1>3 DEF IgnoreTerminal
  <2>2. pc'[w] = "idle"
    BY <1>0, <2>1 DEF Release, TaskType
  <2>3. job' = job \/ (SetStatus(q, run[q]) /\ run[q] \in TERMINAL_STATUSES)
    BY <1>3 DEF IgnoreTerminal, SeesTerminal
  <2>4. ASSUME SetStatus(q, run[q]) PROVE \A r \in Runs : StatusStep(r)
    <3>1. job'[q].status = run[q] /\ \A r \in Runs \ {q} : job'[r] = job[r]
      BY <1>0, <1>1, <2>1, <2>4, SetStatusStatus
    <3>. QED  BY <2>1, <3>1 DEF StatusStep
  <2>. QED  BY <2>1, <2>2, <2>3, <2>4 DEF StatusStep, Engaged
<1>4. CASE IgnoreStale(w) \/ DropContended(w) \/ Unlock(w) \/ RetryConflict(w)
           \/ \E requeued \in BOOLEAN : ExecutionLost(w, requeued)
  <2>1. Release(w) /\ job' = job /\ run' = run
    BY <1>4 DEF IgnoreStale, DropContended, Unlock, RetryConflict, ExecutionLost, GiveUp
  <2>. QED  BY <1>0, <2>1, LetGoStep DEF Engaged
<1>5. CASE ReadRun(w)
  <2>1. /\ pc[w] # "idle" /\ job' = job /\ run' = run
        /\ task' = [task EXCEPT ![w].run_status = run[q]]
        /\ run[q] \notin TERMINAL_STATUSES
    BY <1>5 DEF ReadRun, SeesTerminal
  <2>2. task'[w].run = q
    BY <1>0, <1>1, <2>1 DEF TaskType, Tasks
  <2>. QED  BY <2>1, <2>2 DEF StatusStep
<1>6. CASE AcquireLock(w) \/ LockContended(w) \/ Redeliver(w)
  <2>1. job' = job /\ run' = run /\ task' = task /\ (pc'[w] \in Engaged => pc[w] \in Engaged)
    BY <1>0, <1>6 DEF AcquireLock, LockContended, Redeliver, TaskType, Engaged
  <2>. QED  BY <2>1 DEF StatusStep
<1>7. CASE DeferForLockContention(w)
  <2>1. pc[w] \in Engaged /\ Mint({q}, "queued") /\ Release(w) /\ run' = run
    BY <1>7 DEF DeferForLockContention, Engaged
  <2>2. \A r \in Runs : StatusStep(r)
    BY <2>1, MintStatus
  <2>3. pc'[w] = "idle"
    BY <1>0, <2>1 DEF Release, TaskType
  <2>. QED  BY <2>2, <2>3 DEF Engaged
<1>8. CASE BeginProcessing(w)
  <2>1. pc[w] = "locked" /\ q \in Runs /\ run[q] \notin TERMINAL_STATUSES
    BY <1>1, <1>8 DEF BeginProcessing, Engaged
  <2>2. job[q].status \notin TERMINAL_STATUSES
    BY <2>1 DEF JobRunAgree
  <2>3. /\ job'[q].status \in {"processing", job[q].status}
        /\ \A r \in Runs \ {q} : job'[r] = job[r]
    BY <1>0, <1>8, <2>1 DEF BeginProcessing, JobType
  <2>4. /\ run'[q] \in {"processing", run[q]}
        /\ \A r \in Runs \ {q} : run'[r] = run[r]
    BY <1>0, <1>8, <2>1 DEF BeginProcessing, RunType
  <2>5. task'[w].run = q
    BY <1>0, <1>1, <1>8, <2>1 DEF BeginProcessing, TaskType, Tasks
  <2>. QED  BY <2>1, <2>2, <2>3, <2>4, <2>5 DEF StatusStep, TERMINAL_STATUSES
<1>9. ASSUME NEW status, pc[w] = "normalizing", Finalize(w, status)
      PROVE  /\ \A r \in Runs : StatusStep(r)
             /\ pc'[w] = "unlocking"
  <2>1. q \in Runs /\ run[q] \notin TERMINAL_STATUSES
    BY <1>1, <1>9 DEF Engaged
  <2>2. job'[q].status = status /\ \A r \in Runs \ {q} : job'[r] = job[r]
    BY <1>0, <1>9, <2>1, SetStatusStatus DEF Finalize
  <2>3. run'[q] = status /\ \A r \in Runs \ {q} : run'[r] = run[r]
    BY <1>0, <1>9, <2>1 DEF Finalize, RunType
  <2>4. pc'[w] = "unlocking"
    BY <1>0, <1>9 DEF Finalize, TaskType
  <2>. QED  BY <2>1, <2>2, <2>3, <2>4 DEF StatusStep
<1>10. CASE ScheduleRetry(w)
  <2>1. /\ q \in Runs /\ run[q] \notin TERMINAL_STATUSES
        /\ Mint({q}, "retrying") /\ run' = [run EXCEPT ![q] = "retrying"]
        /\ pc' = [pc EXCEPT ![w] = "unlocking"]
    BY <1>1, <1>10 DEF ScheduleRetry, Engaged
  <2>2. job'[q].status = "retrying" /\ \A r \in Runs \ {q} : job'[r] = job[r]
    BY <2>1 DEF Mint
  <2>3. run'[q] = "retrying" /\ \A r \in Runs \ {q} : run'[r] = run[r]
    BY <1>0, <2>1 DEF RunType
  <2>4. pc'[w] = "unlocking"
    BY <1>0, <2>1 DEF TaskType
  <2>. QED  BY <2>1, <2>2, <2>3, <2>4 DEF StatusStep, Engaged, TERMINAL_STATUSES
<1>11. CASE \/ \E status \in TERMINAL_STATUSES : CompleteNormalization(w, status)
            \/ MarkPermanentFailure(w) \/ RetryExhausted(w)
  <2>1. \E status \in TERMINAL_STATUSES : pc[w] = "normalizing" /\ Finalize(w, status)
    BY <1>11 DEF CompleteNormalization, MarkPermanentFailure, RetryExhausted, TERMINAL_STATUSES
  <2>. QED  BY <1>9, <2>1 DEF Engaged
<1>. QED  BY <1>2, <1>3, <1>4, <1>5, <1>6, <1>7, <1>8, <1>10, <1>11
          DEF WorkerNext, WorkerStep, Conclude

\* A worker's step leaves the other workers alone.
LEMMA OwnStep ==
    ASSUME TaskType, NEW w \in Workers, WorkerNext(w), NEW v \in Workers, v # w
    PROVE  pc'[v] = pc[v] /\ task'[v] = task[v]
BY DEF TaskType, WorkerNext, WorkerStep, Conclude, ReadJob, IgnoreTerminal, IgnoreStale, ReadRun,
       AcquireLock, LockContended, DeferForLockContention, DropContended, BeginProcessing,
       CompleteNormalization, MarkPermanentFailure, RetryExhausted, ScheduleRetry, RetryConflict,
       Unlock, ExecutionLost, Redeliver, Finalize, GiveUp, Release

\* An idle worker can only receive a message.
LEMMA IdleReceives ==
    ASSUME TaskType, NEW w \in Workers, WorkerNext(w), pc[w] = "idle"
    PROVE  pc'[w] = "jobRead"
BY DEF TaskType, WorkerNext, WorkerStep, Conclude, ReadJob, IgnoreTerminal, IgnoreStale, ReadRun,
       AcquireLock, LockContended, DeferForLockContention, DropContended, BeginProcessing,
       CompleteNormalization, MarkPermanentFailure, RetryExhausted, ScheduleRetry, RetryConflict,
       Unlock, ExecutionLost, Redeliver

\* Every step of a behaviour with one worker keeps AloneInv and every terminal
\* pair of rows.
LEMMA AloneStep ==
    ASSUME IInv, AloneInv, Next, \A w \in Workers \ {w1} : pc'[w] = "idle"
    PROVE  AloneInv' /\ KeepsTerminal
<1>0. TaskType /\ JobRunAgree
  BY DEF IInv, HandsInv, AloneInv
<1>1. CASE (\E q \in Runs : CreateNormalizationJob(q)) \/ DispatcherNext \/ BrokerLoss
  <2>1. /\ \A r \in Runs : StatusStep(r)
        /\ pc' = pc /\ task' = task
        /\ \A r \in Runs : run'[r] = run[r] \/ run'[r] = "queued"
    BY <1>0, <1>1, OthersStep
  <2>2. ASSUME NEW w \in Workers, pc'[w] \in Engaged
        PROVE  run'[task'[w].run] \notin TERMINAL_STATUSES
    <3>1. task[w].run \in Runs /\ run[task[w].run] \notin TERMINAL_STATUSES
      BY <1>0, <2>1, <2>2 DEF AloneInv, TaskType, Tasks, Engaged
    <3>. QED  BY <2>1, <3>1 DEF TERMINAL_STATUSES
  <2>. QED  BY <1>0, <2>1, <2>2, StatusStepAgrees DEF AloneInv
<1>2. ASSUME NEW w \in Workers, WorkerNext(w) PROVE AloneInv' /\ KeepsTerminal
  <2>1. w = w1
    <3>. SUFFICES ASSUME w # w1 PROVE FALSE
      OBVIOUS
    <3>1. pc[w] = "idle" /\ pc'[w] = "idle"
      BY DEF AloneInv
    <3>. QED  BY <1>0, <1>2, <3>1, IdleReceives
  <2>2. /\ \A r \in Runs : StatusStep(r)
        /\ pc'[w] \in Engaged => run'[task'[w].run] \notin TERMINAL_STATUSES
    BY <1>0, <1>2, WorkerStatus DEF AloneInv
  <2>3. \A v \in Workers : pc'[v] \in Engaged => run'[task'[v].run] \notin TERMINAL_STATUSES
    BY <2>1, <2>2 DEF Engaged
  <2>. QED  BY <1>0, <2>2, <2>3, StatusStepAgrees DEF AloneInv
<1>. QED  BY <1>1, <1>2 DEF Next

\* The two facts every behaviour of LiveSpec keeps.
THEOREM LiveInvariance == LiveSpec => [](IInv /\ SingleInv)
<1>1. Init => IInv /\ SingleInv
  <2>1. Init => AloneInv
    BY DEF Init, AloneInv, JobRunAgree, Engaged, TERMINAL_STATUSES
  <2>. QED  BY <2>1, InitInv DEF SingleInv
<1>2. IInv /\ SingleInv /\ [Within(Next)]_liveVars => IInv' /\ SingleInv'
  <2>1. CASE UNCHANGED liveVars
    <3>1. IInv => IInv'
      BY <2>1, NextInv DEF liveVars
    <3>2. AloneInv => AloneInv'
      BY <2>1 DEF liveVars, vars, AloneInv, JobRunAgree
    <3>. QED  BY <2>1, <3>1, <3>2 DEF liveVars, SingleInv
  <2>2. CASE Within(Next)
    <3>1. Next /\ part' = part /\ (part = "single" => \A w \in Workers \ {w1} : pc'[w] = "idle")
      BY <2>2 DEF Within
    <3>2. IInv => IInv'
      BY <3>1, NextInv
    <3>. QED  BY <3>1, <3>2, AloneStep DEF SingleInv
  <2>. QED  BY <2>1, <2>2
<1>. QED  BY <1>1, <1>2, PTL DEF LiveSpec

\* With one worker process job and run finish together and with the same
\* outcome, however often the delivery is repeated, lost or requeued
\* (execute_normalization).
THEOREM FinishTogetherHolds == LiveSpec => []FinishTogether
<1>1. SingleInv => FinishTogether
  BY DEF SingleInv, AloneInv, FinishTogether
<1>. QED  BY <1>1, LiveInvariance, PTL

\* With one worker process a terminal run and its job are final.
THEOREM FinalForOneHolds == LiveSpec => FinalForOne
<1>1. IInv /\ SingleInv /\ [Within(Next)]_liveVars => [part = "single" => KeepsTerminal]_liveVars
  <2>1. IInv /\ SingleInv /\ Within(Next) => (part = "single" => KeepsTerminal)
    BY AloneStep DEF Within, SingleInv
  <2>. QED  BY <2>1
<1>. QED  BY <1>1, LiveInvariance, PTL DEF LiveSpec, FinalForOne
=============================================================================
