--------------------------- MODULE LocalScheduler ---------------------------
(***************************************************************************)
(* One database-controlled scheduler process of the fetcher: the control   *)
(* loop that asks the Source before every cycle                            *)
(* (fetcher/src/findb_fetcher/scheduler_control.py), the cycle that        *)
(* materialises and claims the jobs of a date (twelve_data_scheduler.py,   *)
(* finlab_scheduler.py, schedule.py) and their durable SQLite state        *)
(* (scheduler_state.py); of the Source, the row the polls write            *)
(* (backend/app/services/scheduler_control.py).                            *)
(*                                                                         *)
(* A poll may be lost, its answer may be lost, and a heartbeat the client  *)
(* gave up on may arrive later.  The process may die anywhere; a restarted *)
(* one has only the SQLite file.  A job is a symbol and a date, a body the *)
(* number of the fetch that made it.                                       *)
(***************************************************************************)
EXTENDS Integers, Sequences, FiniteSets

CONSTANTS Symbols, Batch,            \* max_symbols_per_run
          LatestOnly,                \* staging pilots supersede older dates
          MaxTries,                  \* schedule.max_attempts
          LastDate, MaxClaims, MaxCycles, MaxLost, MaxCrash, MaxFlips   \* bounds

Jobs == Symbols \X (1 .. LastDate)
Waiting == {"pending", "retry_wait"}
Unfinished == Waiting \cup {"running"}
NoLoop == [at |-> "down", done |-> 0, failed |-> FALSE, batch |-> <<>>, step |-> "none"]
NoJob == [status |-> "none", tries |-> 0, body |-> 0]

VARIABLES
    desired,      \* scheduler_control.desired_state
    report,       \* observed_state, last cycle completed and its error
    late,         \* a heartbeat still in the network
    loop,         \* the process
    jobs,         \* scheduled_job
    checkpoint,   \* symbol_checkpoint
    date,         \* the date due
    fetched,      \* fetches made for each job
    taken,        \* bodies the Source has taken for each job
    cycles, lost, crashes, flips

schedulerVars == <<desired, report, late, loop, jobs, checkpoint, date, fetched, taken,
                   cycles, lost, crashes, flips>>
durable == <<jobs, checkpoint, fetched, taken>>
bounds == <<lost, crashes, flips>>

SchedulerTypeOK ==
    /\ desired \in {"running", "stopped"} /\ late \in BOOLEAN /\ date \in 1 .. LastDate
    /\ report \in [observed : {"running", "stopped"}, done : 0 .. MaxCycles, failed : BOOLEAN]
    /\ loop.at \in {"down", "idle", "preflight", "armed", "enqueue", "claim", "work", "report"}
    /\ \A j \in Jobs : /\ jobs[j].status \in Unfinished \cup {"none", "completed", "failed"}
                       /\ jobs[j].body \in 0 .. fetched[j] /\ taken[j] \subseteq 1 .. fetched[j]
    /\ checkpoint \in [Symbols -> 0 .. LastDate]

SchedulerInit ==
    /\ desired = "running" /\ late = FALSE /\ date = 1
    /\ report = [observed |-> "stopped", done |-> 0, failed |-> FALSE]
    /\ loop = [NoLoop EXCEPT !.at = "idle"]
    /\ jobs = [j \in Jobs |-> NoJob] /\ checkpoint = [s \in Symbols |-> 0]
    /\ fetched = [j \in Jobs |-> 0] /\ taken = [j \in Jobs |-> {}]
    /\ cycles = 0 /\ lost = 0 /\ crashes = 0 /\ flips = 0

---------------------------------------------------------------------------
(* Polls.                                                                  *)

\* poll_scheduler_control(): a completion carries its error, or clears it;
\* other reports keep what is there.
Recorded(observed, done, failed) ==
    [observed |-> observed,
     done |-> IF done # 0 THEN done ELSE report.done,
     failed |-> IF done # 0 THEN failed ELSE failed \/ report.failed]

\* SchedulerControlClient._request(): answered, or given up with the report
\* taken or not.
Poll(observed, done, failed, next, giveUp) ==
    \/ /\ report' = Recorded(observed, done, failed) /\ loop' = next /\ UNCHANGED lost
    \/ /\ lost < MaxLost /\ lost' = lost + 1 /\ loop' = giveUp
       /\ report' \in {report, Recorded(observed, done, failed)}

ToIdle == [NoLoop EXCEPT !.at = "idle"]

\* What a report given up on leaves for the next idle report to repeat.
Kept(done) == [NoLoop EXCEPT !.at = "idle", !.done = done, !.failed = loop.failed]

\* Faulty variant of IdleState: the loop only asks.
IdleStateKept == report.observed

\* The idle loop asks and reports itself stopped.
IdleState == "stopped"

IdlePoll ==
    /\ loop.at = "idle"
    /\ Poll(IdleState, loop.done, loop.failed,
            IF desired = "running" /\ cycles < MaxCycles
            THEN [NoLoop EXCEPT !.at = "preflight"] ELSE ToIdle, Kept(loop.done))
    /\ UNCHANGED <<desired, late, durable, date, cycles, crashes, flips>>

Preflight ==
    /\ loop.at = "preflight"
    /\ Poll("running", 0, FALSE,
            IF desired = "running" THEN [NoLoop EXCEPT !.at = "armed"] ELSE ToIdle, ToIdle)
    /\ UNCHANGED <<desired, late, durable, date, cycles, crashes, flips>>

\* validate_scheduler_definition() fails: an error without a completion.
DefinitionDrifts ==
    /\ loop.at = "armed" /\ loop' = [ToIdle EXCEPT !.failed = TRUE]
    /\ UNCHANGED <<desired, report, late, durable, date, cycles, bounds>>

StartCycle ==
    /\ loop.at = "armed" /\ loop' = [NoLoop EXCEPT !.at = "enqueue"] /\ cycles' = cycles + 1
    /\ UNCHANGED <<desired, report, late, durable, date, bounds>>

InCycle == loop.at \in {"enqueue", "claim", "work"}

\* _Heartbeat: at most one poll at a time, joined before the completion
\* report; one given up on may still be under way.
Heartbeat ==
    /\ InCycle /\ \/ report' = Recorded("running", 0, FALSE) /\ UNCHANGED <<late, lost>>
                  \/ /\ lost < MaxLost /\ lost' = lost + 1 /\ late' = TRUE /\ UNCHANGED report
    /\ UNCHANGED <<desired, loop, durable, date, cycles, crashes, flips>>

LateHeartbeat ==
    /\ late /\ late' = FALSE /\ report' = Recorded("running", 0, FALSE)
    /\ UNCHANGED <<desired, loop, durable, date, cycles, bounds>>

ReportCycle ==
    /\ loop.at = "report"
    /\ Poll("stopped", cycles, loop.failed, ToIdle, Kept(cycles))
    /\ UNCHANGED <<desired, late, durable, date, cycles, crashes, flips>>

---------------------------------------------------------------------------
(* A cycle: SchedulerService.run_once().                                   *)

\* supersede_older_targets() and enqueue_due().
Enqueue ==
    /\ loop.at = "enqueue" /\ loop' = [loop EXCEPT !.at = "claim"]
    /\ jobs' = [j \in Jobs |->
                  IF LatestOnly /\ j[2] < date /\ jobs[j].status \in Unfinished
                  THEN [jobs[j] EXCEPT !.status = "failed"]
                  ELSE IF j[2] = date /\ jobs[j].status = "none"
                  THEN [NoJob EXCEPT !.status = "pending"] ELSE jobs[j]]
    /\ UNCHANGED <<desired, report, late, checkpoint, fetched, taken, date, cycles, bounds>>

\* The calendar is closed or unavailable, or the state file cannot be used.
CycleFails ==
    /\ InCycle
    /\ \E err \in BOOLEAN : loop' = [NoLoop EXCEPT !.at = "report", !.failed = err]
    /\ UNCHANGED <<desired, report, late, durable, date, cycles, bounds>>

\* claim_due(): leases that have run out, then the due jobs with no earlier
\* date of their symbol unfinished, oldest first.
Claimable(js) ==
    {j \in Jobs : /\ js[j].status \in Waiting /\ js[j].tries < MaxClaims
                  /\ ~ \E k \in Jobs : /\ k[1] = j[1] /\ k[2] < j[2]
                                       /\ js[k].status \in Unfinished}

Claim ==
    /\ loop.at = "claim"
    /\ \E expired \in SUBSET {j \in Jobs : jobs[j].status = "running"} :
       LET released == [j \in Jobs |-> IF j \in expired THEN [jobs[j] EXCEPT !.status = "retry_wait"]
                                       ELSE jobs[j]]
       IN \E due \in SUBSET Claimable(released) :
            /\ Cardinality(due) <= Batch
            /\ jobs' = [j \in Jobs |-> IF j \in due
                          THEN [released[j] EXCEPT !.status = "running", !.tries = @ + 1]
                          ELSE released[j]]
            /\ \E seq \in [1 .. Cardinality(due) -> due] :
                 /\ \A i, k \in DOMAIN seq : i < k => seq[i] # seq[k] /\ seq[i][2] <= seq[k][2]
                 /\ loop' = IF due = {} THEN [loop EXCEPT !.at = "report"]
                            ELSE [loop EXCEPT !.at = "work", !.batch = seq, !.step = "fetch"]
    /\ UNCHANGED <<desired, report, late, checkpoint, fetched, taken, date, cycles, bounds>>

Current == loop.batch[1]

\* The next job of the batch, or the end of the cycle.
After(failed) ==
    IF Len(loop.batch) = 1 THEN [NoLoop EXCEPT !.at = "report", !.failed = failed]
    ELSE [loop EXCEPT !.batch = Tail(@), !.step = "fetch"]

\* record_failure(): within the attempts, or within the grace of the date.
Failed(retryable) ==
    LET again == retryable /\ (jobs[Current].tries < MaxTries \/ Current[2] = date)
    IN [jobs EXCEPT ![Current].status = IF again THEN "retry_wait" ELSE "failed",
                    ![Current].body = IF again THEN @ ELSE 0]

\* execute(): a stored body is checked again and sent again.
Resend ==
    /\ loop.step = "fetch" /\ jobs[Current].body # 0 /\ loop' = [loop EXCEPT !.step = "deliver"]
    /\ UNCHANGED <<desired, report, late, durable, date, cycles, bounds>>

FetchBody ==
    /\ loop.step = "fetch" /\ jobs[Current].body = 0
    /\ fetched' = [fetched EXCEPT ![Current] = @ + 1] /\ loop' = [loop EXCEPT !.step = "save"]
    /\ UNCHANGED <<desired, report, late, jobs, checkpoint, taken, date, cycles, bounds>>

\* Not ready, out of quota, provider or raw store down, or an invalid body.
NothingToSend ==
    /\ loop.step = "fetch"
    /\ \E retryable \in BOOLEAN : jobs' = Failed(retryable) /\ loop' = After(FALSE)
    /\ UNCHANGED <<desired, report, late, checkpoint, fetched, taken, date, cycles, bounds>>

\* save_prepared_request().
Saved == [jobs EXCEPT ![Current].body = fetched[Current]]

SavePrepared ==
    /\ loop.step = "save" /\ jobs' = Saved /\ loop' = [loop EXCEPT !.step = "deliver"]
    /\ UNCHANGED <<desired, report, late, checkpoint, fetched, taken, date, cycles, bounds>>

Body == IF jobs[Current].body # 0 THEN jobs[Current].body ELSE fetched[Current]

\* deliver() and _wait_for_terminal(): completed, ended badly, or no answer in
\* time, when the Source may have taken the body.
Deliver ==
    /\ loop.step = "deliver"
    /\ \E took \in BOOLEAN, answer \in {"completed", "rejected", "unknown"} :
         /\ answer = "completed" => took
         /\ taken' = [taken EXCEPT ![Current] = IF took THEN @ \cup {Body} ELSE @]
         /\ IF answer = "completed"
            THEN /\ jobs' = [jobs EXCEPT ![Current].status = "completed", ![Current].body = 0]
                 /\ checkpoint' = [checkpoint EXCEPT ![Current[1]] =
                                     IF Current[2] > @ THEN Current[2] ELSE @]
            ELSE jobs' = Failed(answer = "unknown") /\ UNCHANGED checkpoint
         /\ loop' = After(FALSE)
    /\ UNCHANGED <<desired, report, late, fetched, date, cycles, bounds>>

---------------------------------------------------------------------------
(* The environment.                                                        *)

ProcessDies ==
    /\ loop.at # "down" /\ crashes < MaxCrash /\ crashes' = crashes + 1 /\ loop' = NoLoop
    /\ UNCHANGED <<desired, report, late, durable, date, cycles, lost, flips>>

\* The container is restarted; a SIGTERM while idle ends here too.
Restart ==
    /\ loop.at = "down" /\ loop' = ToIdle
    /\ UNCHANGED <<desired, report, late, durable, date, cycles, bounds>>

OperatorSwitches ==
    /\ flips < MaxFlips /\ flips' = flips + 1
    /\ desired' = IF desired = "running" THEN "stopped" ELSE "running"
    /\ UNCHANGED <<report, late, loop, durable, date, cycles, lost, crashes>>

DateTurns ==
    /\ date < LastDate /\ date' = date + 1
    /\ UNCHANGED <<desired, report, late, loop, durable, cycles, bounds>>

SchedulerStep ==
    \/ IdlePoll \/ Preflight \/ DefinitionDrifts \/ StartCycle \/ ReportCycle
    \/ Enqueue \/ Claim \/ Resend \/ FetchBody \/ NothingToSend \/ SavePrepared \/ Deliver

SchedulerNext ==
    \/ IdlePoll \/ Preflight \/ DefinitionDrifts \/ StartCycle \/ Heartbeat \/ LateHeartbeat
    \/ ReportCycle \/ Enqueue \/ CycleFails \/ Claim \/ Resend \/ FetchBody \/ NothingToSend \/ SavePrepared \/ Deliver
    \/ ProcessDies \/ Restart \/ OperatorSwitches \/ DateTurns

\* The loop goes on while the process lives, the container runtime restarts
\* it, and the network delivers or drops what it holds.
SchedulerFair(i) == \/ i = 1 /\ SchedulerStep
                    \/ i = 2 /\ Restart
                    \/ i = 3 /\ LateHeartbeat
SchedulerFairness == \A i \in 1 .. 3 : WF_schedulerVars(SchedulerFair(i))

SchedulerSpec == SchedulerInit /\ [][SchedulerNext]_schedulerVars

---------------------------------------------------------------------------
(* Properties. *)

\* However often the process dies, times out or is told to retry, the Source
\* takes at most one body of a job: the body is durable before it is sent
\* (save_prepared_request before deliver).
OneBodyPerJob == \A j \in Jobs : Cardinality(taken[j]) <= 1

\* A symbol's checkpoint has nothing unfinished behind it: dates are claimed
\* in order, across retries, expired leases and batches (claim_due).
NothingBehindCheckpoint ==
    \A j \in Jobs : j[2] < checkpoint[j[1]] => jobs[j].status \notin Unfinished

\* A finished cycle is reported in the end, by its own report or by the next
\* idle poll that gets through, unless the process dies.
CycleUnreported(n) == loop.at = "report" /\ crashes = n
CycleReported(n) == report.done >= cycles \/ crashes > n

\* A scheduler that stays stopped is seen as stopped, late heartbeats and lost
\* reports of its last cycle notwithstanding.
StaysStopped == desired = "stopped"
SeenStopped == report.observed = "stopped"
=============================================================================
