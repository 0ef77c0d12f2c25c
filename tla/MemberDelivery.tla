--------------------------- MODULE MemberDelivery ---------------------------
(***************************************************************************)
(* The fetcher's side of a daily work: FullMarketRuntime._deliver_members  *)
(* walks the members of a frozen plan (fetcher/full_market_runtime.py),    *)
(* keeps their progress in SQLite (full_market_state.py) and their bodies  *)
(* in the Source's preparation ledger (provider_work.py), one round at a   *)
(* time, until the plan is complete or nothing is left to try.             *)
(*                                                                         *)
(* Every acquisition makes a new version of the body, because a body holds *)
(* the time it was fetched.  held stands for lease_until and next_at: the  *)
(* member may not be claimed until Elapse.  attempts is the row's counter; *)
(* calls, waited, told and repairs are history, no part of the program:    *)
(* waited counts the calls whose attempt was given back, and told is FALSE *)
(* from the moment a row records a failure of the provider or of           *)
(* normalization until an outcome call about it has returned.              *)
(***************************************************************************)
EXTENDS Integers, Sequences, FiniteSets

CONSTANTS Members,       \* a sequence: the entries of the plan, in order
          MaxAttempts,   \* FULL_WORK_MAX_ATTEMPTS
          MaxMembers,    \* daily_policy max_members, the batch of one round
          Breaker,       \* FULL_WORK_NO_DATA_BREAKER
          ProbeLimit,    \* observations an empty response is given
          Providers,     \* of each provider: the failures it can meet, and
                         \* whether a daily policy is installed for it
          Nobody,        \* no member is being worked on
          MaxBodies, MaxCrashes, MaxRepairs   \* bounds of the model; a crash
                         \* is a lost process or a lost outcome call

MemberSet == {Members[i] : i \in DOMAIN Members}

VARIABLES
    wstatus, attempts, held, reason, body, receipt,  \* full_work
    observed,    \* full_empty_outcome: "none", "retry" or "exhausted"
    probes,      \* native observations counted in the journal
    cursor,      \* full_schedule.cursor
    trips,       \* full_no_data_trip
    outage,      \* full_provider_outage: "none", "recent", "long"; of FinLab
                 \* the completion window: "recent" while open, then "long"
    policy,      \* self.daily_policy is set
    failures,    \* the failures this provider can meet
    pc, cur, left, processed, streak, inhand, drainOnly,  \* the running round
    work,        \* the provider work: "open", "completed", "failed"
    reserved,    \* the Source's prepared bodies of each member
    runOf,       \* the ingestion run of the member's delivery
    noTrade,     \* members with a no_trade outcome at the Source
    bodies,      \* bodies made so far
    told, calls, waited, repairs, crashes

rows == <<wstatus, attempts, held, reason, body, receipt, observed>>
round == <<cur, left, processed, streak, inhand, drainOnly>>
source == <<work, reserved, runOf, noTrade>>
history == <<told, calls, waited, repairs, crashes, bodies, probes>>
config == <<policy, failures>>
memberVars == <<rows, cursor, trips, outage, config, pc, round, source, history>>

Pending == "source_error_pending"
Reasons == {"none", Pending, "source_error", "no_data", "no_data_exhausted",
            "retry_exhausted", "mapping_gap", "normalizing", "failed", "not_ready",
            "source_rejected", "other"}

MemberTypeOK ==
    /\ wstatus \in [MemberSet -> {"pending", "prepared", "complete", "manual"}]
    /\ attempts \in [MemberSet -> Nat] /\ held \in [MemberSet -> BOOLEAN]
    /\ reason \in [MemberSet -> Reasons]
    /\ body \in [MemberSet -> 0 .. MaxBodies] /\ receipt \in [MemberSet -> BOOLEAN]
    /\ observed \in [MemberSet -> {"none", "retry", "exhausted"}]
    /\ cursor \in 0 .. Len(Members) /\ trips \in Nat
    /\ outage \in {"none", "recent", "long"}
    /\ pc \in {"idle", "opened", "scan", "claimed", "native", "acquired", "reserved",
               "deliver", "accepted", "status", "proven", "tell", "report", "giveup",
               "settle"}
    /\ cur \in MemberSet \cup {Nobody} /\ inhand \in 0 .. MaxBodies
    /\ work \in {"open", "completed", "failed"}
    /\ reserved \in [MemberSet -> SUBSET (1 .. MaxBodies)]
    /\ runOf \in [MemberSet -> {"none", "queued", "done", "failed"}]

MemberInit ==
    /\ wstatus = [m \in MemberSet |-> "pending"]
    /\ attempts = [m \in MemberSet |-> 0]
    /\ held = [m \in MemberSet |-> FALSE]
    /\ reason = [m \in MemberSet |-> "none"]
    /\ body = attempts /\ receipt = held
    /\ observed = [m \in MemberSet |-> "none"]
    /\ probes = attempts
    /\ cursor = 0 /\ trips = 0
    /\ \E p \in Providers : policy = p.policy /\ failures = p.failures
    /\ outage = IF "not_ready" \in failures THEN "recent" ELSE "none"
    /\ pc = "idle" /\ cur = Nobody /\ left = <<>> /\ processed = 0
    /\ streak = 0 /\ inhand = 0 /\ drainOnly = FALSE
    /\ work = "open" /\ reserved = [m \in MemberSet |-> {}]
    /\ runOf = [m \in MemberSet |-> "none"] /\ noTrade = {}
    /\ bodies = 0 /\ crashes = 0
    /\ told = [m \in MemberSet |-> TRUE] /\ calls = attempts /\ repairs = attempts
    /\ waited = attempts

---------------------------------------------------------------------------
(* full_market_state.py: what each method does to the row of a member.     *)

Unresolved(m) == wstatus[m] \in {"pending", "prepared"}
MayClaim(m) == Unresolved(m) /\ ~held[m]
Undone(m) == IF body[m] = 0 THEN "pending" ELSE "prepared"

\* finish(): store the outcome, refund a normalizing attempt, and give the
\* member up when its attempts are spent (a NULL reason never does, and is
\* the one that sets no delay).  The members in others are held too.
Finish(m, status, why, others) ==
    LET n == IF why = "normalizing" THEN attempts[m] - 1 ELSE attempts[m]
        spent == /\ status \in {"pending", "prepared"}
                 /\ why \notin {"normalizing", "none"} /\ n >= MaxAttempts
    IN /\ attempts' = [attempts EXCEPT ![m] = n]
       /\ wstatus' = [wstatus EXCEPT ![m] = IF spent THEN "manual" ELSE status]
       /\ reason' = [reason EXCEPT ![m] =
                       CASE spent /\ why = "no_data" -> "no_data_exhausted"
                         [] spent /\ why # "no_data" -> "retry_exhausted"
                         [] OTHER -> why]
       /\ held' = [k \in MemberSet |->
                     IF k = m THEN status \in {"pending", "prepared"} /\ why # "none"
                              ELSE held[k] \/ k \in others]
       /\ UNCHANGED <<body, observed>>
FinishRow(m, status, why) == Finish(m, status, why, {})

\* defer_wait(): the attempt is given back.
DeferWait(m, why) ==
    /\ attempts' = [attempts EXCEPT ![m] = @ - 1]
    /\ wstatus' = [wstatus EXCEPT ![m] = Undone(m)]
    /\ reason' = [reason EXCEPT ![m] = why]
    /\ held' = [held EXCEPT ![m] = TRUE]
    /\ UNCHANGED <<body, receipt, observed>>

\* Faulty variant of StageError: the failure is filed before it is reported.
StageErrorFiled(m) == FinishRow(m, Undone(m), "source_error") /\ UNCHANGED receipt

\* stage_source_error(): keep the report to be made, charge and refund nothing.
StageError(m) ==
    /\ wstatus' = [wstatus EXCEPT ![m] = Undone(m)]
    /\ reason' = [reason EXCEPT ![m] = Pending]
    /\ held' = [held EXCEPT ![m] = FALSE]
    /\ UNCHANGED <<attempts, body, receipt, observed>>

\* stage_empty_response(): the same with a refund and the decision kept.
StageEmpty(m, exhausted) ==
    /\ observed' = [observed EXCEPT ![m] =
                      IF exhausted THEN "exhausted" ELSE "retry"]
    /\ attempts' = [attempts EXCEPT ![m] = @ - 1]
    /\ wstatus' = [wstatus EXCEPT ![m] = "pending"]
    /\ reason' = [reason EXCEPT ![m] = Pending]
    /\ held' = [held EXCEPT ![m] = FALSE]
    /\ UNCHANGED <<body, receipt>>

\* acknowledge_empty(): the decision takes effect once it was reported.
AcknowledgeEmpty(m) ==
    /\ wstatus' = [wstatus EXCEPT ![m] =
                     IF observed[m] = "exhausted" THEN "manual" ELSE "pending"]
    /\ reason' = [reason EXCEPT ![m] = "other"]
    /\ held' = [held EXCEPT ![m] = TRUE]
    /\ observed' = [observed EXCEPT ![m] = "none"]
    /\ UNCHANGED <<attempts, body, receipt>>

\* prepare(): the body of a member never changes.
PrepareRow(m, b) ==
    /\ body[m] \in {0, b}
    /\ body' = [body EXCEPT ![m] = b]
    /\ wstatus' = [wstatus EXCEPT ![m] = "prepared"]
    /\ UNCHANGED <<attempts, held, reason, receipt, observed>>

\* counts_toward_no_data_breaker()
CountsForBreaker(m) ==
    \/ attempts[m] <= 1
    \/ Cardinality({k \in MemberSet : wstatus[k] \in {"complete", "prepared"}})
         < Breaker

\* has_blocking_manual()
BlockingManual ==
    \/ \E m \in MemberSet : /\ wstatus[m] = "manual"
                            /\ reason[m] \notin {"mapping_gap", "no_data_exhausted"}
    \/ trips >= MaxAttempts

---------------------------------------------------------------------------
(* The round. *)

StayInRound == UNCHANGED <<left, processed, streak, drainOnly>>
NextMember == pc' = "scan" /\ inhand' = 0 /\ cur' = Nobody /\ StayInRound
NoRound == /\ cur' = Nobody /\ left' = <<>> /\ processed' = 0 /\ streak' = 0
           /\ inhand' = 0 /\ drainOnly' = FALSE
EndRound == pc' = "settle" /\ NoRound
OutsideRows == UNCHANGED <<cursor, config, source>>

\* _queued_cycle(): the work is claimed, or recovered after a dead process.
OpenRound ==
    /\ pc = "idle" /\ work = "open"
    /\ pc' = "opened"
    /\ drainOnly' \in {FALSE} \cup {b \in BOOLEAN : "stopped" \in failures}
    /\ UNCHANGED <<rows, cursor, trips, outage, config, cur, left, processed,
                   streak, inhand, source, history>>

\* _install_shioaji_repairs(): an approved repair reopens a member that has
\* neither a body nor an outcome to report; attempts are not reset.
InstallRepair(m) ==
    /\ pc = "opened" /\ "empty" \in failures /\ repairs[m] < MaxRepairs
    /\ wstatus[m] = "manual" /\ body[m] = 0 /\ reserved[m] = {}
    /\ reason[m] # Pending
    /\ wstatus' = [wstatus EXCEPT ![m] = "pending"]
    /\ reason' = [reason EXCEPT ![m] = "other"]
    /\ repairs' = [repairs EXCEPT ![m] = @ + 1]
    /\ probes' = [probes EXCEPT ![m] = 0]
    /\ UNCHANGED <<attempts, held, body, receipt, observed, cursor, trips, outage,
                   config, pc, round, source, told, calls, waited, crashes, bodies>>

\* The first member, in plan order, whose failure was never reported.
Unreported == {i \in DOMAIN Members : reason[Members[i]] = Pending}
LeastOf(S) == CHOOSE i \in S : \A j \in S : i <= j

\* _deliver_members(): reports first; else walk the entries from the cursor.
BeginMembers ==
    /\ pc = "opened"
    /\ processed' = 0 /\ streak' = 0
    /\ LET from == IF policy THEN cursor % Len(Members) ELSE 0
       IN left' = SubSeq(Members, from + 1, Len(Members)) \o SubSeq(Members, 1, from)
    /\ IF Unreported # {}
         THEN pc' = "report" /\ cur' = Members[LeastOf(Unreported)]
         ELSE pc' = "scan" /\ cur' = Nobody
    /\ UNCHANGED <<rows, cursor, trips, outage, config, inhand, drainOnly, source,
                   history>>

Full == policy /\ processed >= MaxMembers

\* batch_yield, or the entries are exhausted.
EndScan ==
    /\ pc = "scan" /\ (left = <<>> \/ Full)
    /\ EndRound
    /\ UNCHANGED <<rows, cursor, trips, outage, config, source, history>>

\* Not eligible, or it needs provider I/O that is not allowed.
SkipMember ==
    /\ pc = "scan" /\ left # <<>> /\ ~Full
    /\ LET m == Head(left)
       IN \/ ~MayClaim(m)
          \/ body[m] = 0 /\ reserved[m] = {} /\ drainOnly
    /\ left' = Tail(left)
    /\ UNCHANGED <<rows, cursor, trips, outage, config, pc, cur, processed, streak,
                   inhand, drainOnly, source, history>>

\* owner.restore(): bytes the Source retains are never fetched again.
Restorable(m) == body[m] = 0 /\ reserved[m] # {}

RestoreBody ==
    /\ pc = "scan" /\ left # <<>> /\ ~Full
    /\ LET m == Head(left)
       IN /\ MayClaim(m) /\ Restorable(m)
          /\ \E b \in reserved[m] : PrepareRow(m, b)
    /\ UNCHANGED <<cursor, trips, outage, config, pc, round, source, history>>

\* The calendar probe before the first provider I/O: the date is closed now.
CalendarClosed ==
    /\ "closed" \in failures
    /\ pc = "scan" /\ left # <<>> /\ ~Full /\ ~drainOnly
    /\ MayClaim(Head(left)) /\ body[Head(left)] = 0 /\ ~Restorable(Head(left))
    /\ pc' = "idle" /\ work' = "failed" /\ NoRound
    /\ UNCHANGED <<rows, cursor, trips, outage, config, reserved, runOf, noTrade,
                   history>>

\* claim() saves the next round's first member with the lease.
SaveCursor(m) ==
    LET i == CHOOSE k \in DOMAIN Members : Members[k] = m
    IN cursor' = IF policy THEN i % Len(Members) ELSE cursor

ClaimMember ==
    /\ pc = "scan" /\ left # <<>> /\ ~Full
    /\ LET m == Head(left)
       IN /\ MayClaim(m) /\ ~Restorable(m) /\ (body[m] # 0 \/ ~drainOnly)
          /\ cur' = m /\ left' = Tail(left) /\ processed' = processed + 1
          /\ attempts' = [attempts EXCEPT ![m] = @ + 1]
          /\ held' = [held EXCEPT ![m] = TRUE]
          /\ SaveCursor(m)
          /\ pc' = IF body[m] = 0 THEN "claimed" ELSE "deliver"
    /\ UNCHANGED <<wstatus, reason, body, receipt, observed, trips, outage, config,
                   streak, inhand, drainOnly, source, history>>

---------------------------------------------------------------------------
(* The provider call of the claimed member. *)

Untold(m) == told' = [told EXCEPT ![m] = FALSE]
Waited(m) == waited' = [waited EXCEPT ![m] = @ + 1]

\* mapping_status is not "mapped": told, then manual.
MappingGap ==
    /\ pc = "claimed" /\ "gap" \in failures
    /\ FinishRow(cur, "manual", "mapping_gap") /\ NextMember
    /\ UNCHANGED receipt /\ OutsideRows
    /\ UNCHANGED <<trips, outage, history>>

\* Quota wait, window closed, suspended or Source unavailable before dispatch.
WaitBefore ==
    /\ pc = "claimed" /\ "wait" \in failures
    /\ DeferWait(cur, "other") /\ EndRound /\ OutsideRows
    /\ UNCHANGED <<trips, outage, history>>

\* observation_guard(): the probe is reserved before the native call.
Observing(m) ==
    probes' = IF "empty" \in failures THEN [probes EXCEPT ![m] = @ + 1] ELSE probes

Dispatch ==
    /\ pc = "claimed" /\ probes[cur] < ProbeLimit
    /\ calls' = [calls EXCEPT ![cur] = @ + 1]
    /\ Observing(cur)
    /\ pc' = "native"
    /\ UNCHANGED <<rows, trips, outage, round, told, waited, repairs, crashes, bodies>>
    /\ OutsideRows

\* The guard has no observation left: exhausted without a call.
ProbesExhausted ==
    /\ pc = "claimed" /\ probes[cur] >= ProbeLimit
    /\ StageEmpty(cur, TRUE) /\ Untold(cur)
    /\ pc' = "report" /\ UNCHANGED <<round, trips, outage, probes, calls, waited,
                                     repairs, crashes, bodies>>
    /\ OutsideRows

ProbeAnswered == probes' = IF "empty" \in failures
                           THEN [probes EXCEPT ![cur] = @ - 1] ELSE probes

\* _acquire() returns: the provider serves this date. The trips are cleared,
\* and TAIFEX's outage.
Serves ==
    /\ trips' = 0 /\ streak' = 0
    /\ outage' = IF "not_ready" \in failures THEN outage ELSE "none"

GetsData ==
    /\ pc = "native" /\ bodies < MaxBodies
    /\ bodies' = bodies + 1 /\ inhand' = bodies + 1
    /\ Serves /\ ProbeAnswered /\ pc' = "acquired"
    /\ UNCHANGED <<rows, cur, left, processed, drainOnly, told, calls, waited,
                   repairs, crashes>>
    /\ OutsideRows

\* The exchange reports no trade; the outcome is sent from _acquire(), and the
\* row is finished after it.
GetsNoTrade ==
    /\ pc = "native" /\ "no_trade" \in failures
    /\ noTrade' = noTrade \cup {cur} /\ pc' = "proven" /\ ProbeAnswered
    /\ UNCHANGED <<rows, cursor, trips, outage, config, round, work, reserved, runOf,
                   told, calls, waited, repairs, crashes, bodies>>

FinishNoTrade ==
    /\ pc = "proven"
    /\ FinishRow(cur, "complete", "other") /\ UNCHANGED receipt
    /\ Serves /\ pc' = "scan" /\ cur' = Nobody
    /\ UNCHANGED <<left, processed, inhand, drainOnly, history>> /\ OutsideRows

\* Empty kbars: decision and refund are stored before the Source is called.
GetsEmpty ==
    /\ pc = "native" /\ "empty" \in failures
    /\ StageEmpty(cur, probes[cur] >= ProbeLimit) /\ Untold(cur)
    /\ pc' = "report"
    /\ UNCHANGED <<round, trips, outage, probes, calls, waited, repairs, crashes, bodies>>
    /\ OutsideRows

\* A symbol without data: told, charged, and the round goes on until the
\* breaker trips, which holds every member that still needs a call.
GetsNothing ==
    /\ pc = "native" /\ "no_data" \in failures
    /\ LET n == IF CountsForBreaker(cur) THEN streak + 1 ELSE streak
           trip == n >= Breaker
       IN /\ Finish(cur, "pending", "no_data",
                    {k \in MemberSet : trip /\ wstatus[k] = "pending"})
          /\ UNCHANGED receipt
          /\ IF trip THEN trips' = trips + 1 /\ EndRound
                     ELSE /\ streak' = n /\ pc' = "scan" /\ cur' = Nobody
                          /\ UNCHANGED <<trips, left, processed, inhand, drainOnly>>
    /\ UNCHANGED <<outage, history>>
    /\ OutsideRows

\* A rate limit the provider answers: told and charged, and the round ends.
GetsLimited ==
    /\ pc = "native" /\ "wait" \in failures
    /\ FinishRow(cur, Undone(cur), "other") /\ UNCHANGED receipt
    /\ EndRound /\ OutsideRows /\ UNCHANGED <<trips, outage, history>>

\* The outcome call of either, or of an old response, raises inside the
\* handler: the round ends and the row keeps its attempt and its lease.
OutcomeLost ==
    /\ \/ pc = "native" /\ failures \cap {"no_data", "wait"} # {}
       \/ pc = "claimed" /\ "basis" \in failures
    /\ crashes < MaxCrashes /\ crashes' = crashes + 1
    /\ EndRound /\ OutsideRows
    /\ UNCHANGED <<rows, trips, outage, told, calls, waited, repairs, bodies, probes>>

\* Stopped, or out of quota, after the first call of the member: a daily
\* policy gives the attempt back, else it is charged.
StopsMidway ==
    /\ pc = "native" /\ "stopped" \in failures
    /\ IF policy THEN /\ crashes < MaxCrashes /\ crashes' = crashes + 1
                      /\ DeferWait(cur, "other") /\ Waited(cur)
                 ELSE /\ FinishRow(cur, Undone(cur), "other")
                      /\ UNCHANGED <<receipt, waited, crashes>>
    /\ EndRound /\ OutsideRows
    /\ UNCHANGED <<trips, outage, told, calls, repairs, bodies, probes>>

\* defer_provider_outage(): the shared report is unavailable; the first
\* deferral starts the clock, and a long outage gives the member up.
GetsOutage ==
    /\ pc = "native" /\ "outage" \in failures
    /\ IF outage = "long"
         THEN /\ StageError(cur) /\ Untold(cur) /\ pc' = "giveup"
              /\ UNCHANGED <<round, outage, waited>>
         ELSE /\ DeferWait(cur, "other") /\ EndRound /\ outage' = "recent"
              /\ Waited(cur) /\ UNCHANGED told
    /\ UNCHANGED <<trips, calls, repairs, crashes, bodies, probes>> /\ OutsideRows

\* FinLabTargetNotReadyError: the calls were made and the date is not
\* published. In the completion window the attempt is given back; then, or
\* when the calendar has closed the date, the member is manual untold.
NotReady ==
    /\ pc = "native" /\ "not_ready" \in failures
    /\ \/ /\ outage = "recent" /\ DeferWait(cur, "other") /\ Waited(cur)
          /\ EndRound /\ UNCHANGED <<told, work>>
       \/ /\ outage = "long" /\ FinishRow(cur, "manual", "not_ready") /\ Untold(cur)
          /\ EndRound /\ UNCHANGED <<receipt, waited, work>>
       \/ /\ "closed" \in failures /\ FinishRow(cur, "manual", "not_ready") /\ Untold(cur)
          /\ pc' = "idle" /\ NoRound /\ work' = "failed" /\ UNCHANGED <<receipt, waited>>
    /\ UNCHANGED <<cursor, config, reserved, runOf, noTrade, trips, outage, calls,
                   repairs, crashes, bodies, probes>>

\* Any other exception between claim and the end of the run: of the call, of
\* reserve(), of the delivery (no answer), or of an outcome call made there.
Raises ==
    \/ pc \in {"native", "acquired", "deliver", "status"} /\ "error" \in failures
    \/ pc = "native" /\ "no_trade" \in failures
    \/ pc = "claimed" /\ "gap" \in failures
    \/ pc = "deliver" /\ "basis" \in failures
    \/ pc = "tell"

GetsError ==
    /\ Raises
    /\ StageError(cur) /\ Untold(cur)
    /\ pc' = "report" /\ inhand' = 0
    /\ UNCHANGED <<cur, trips, outage, calls, waited, repairs, crashes, bodies, probes>>
    /\ StayInRound /\ OutsideRows

---------------------------------------------------------------------------
(* Reservation, delivery and the run's outcome. *)

\* owner.reserve(): the Source holds the bytes before the local row does.
ReserveBody ==
    /\ pc = "acquired"
    /\ reserved' = [reserved EXCEPT ![cur] = @ \cup {inhand}]
    /\ pc' = "reserved"
    /\ UNCHANGED <<rows, cursor, trips, outage, config, round, work, runOf, noTrade,
                   history>>

SaveBody ==
    /\ pc = "reserved"
    /\ PrepareRow(cur, inhand) /\ inhand' = 0 /\ pc' = "deliver"
    /\ UNCHANGED <<cursor, trips, outage, config, cur, source, history>>
    /\ StayInRound

\* _price_basis_manual(): a response or a body of an old basis is told of and
\* neither asked for again nor sent.
BasisManual ==
    /\ pc \in {"claimed", "deliver"} /\ "basis" \in failures
    /\ FinishRow(cur, "manual", "other") /\ UNCHANGED receipt
    /\ NextMember /\ OutsideRows /\ UNCHANGED <<trips, outage, history>>

\* delivery.deliver(): idempotent at the Source; a saved receipt is enough.
DeliverBody ==
    /\ pc = "deliver"
    /\ runOf' = [runOf EXCEPT ![cur] = IF @ = "none" THEN "queued" ELSE @]
    /\ pc' = IF receipt[cur] THEN "status" ELSE "accepted"
    /\ UNCHANGED <<rows, cursor, trips, outage, config, round, work, reserved,
                   noTrade, history>>

SaveReceipt ==
    /\ pc = "accepted"
    /\ FinishRow(cur, "prepared", "none")
    /\ receipt' = [receipt EXCEPT ![cur] = TRUE]
    /\ pc' = "status"
    /\ UNCHANGED <<cursor, trips, outage, config, round, source, history>>

\* SourceAPIResponseError of the delivery or of its status: a 429 waits and
\* gives the attempt back, another 4xx is final, a 5xx is charged.
SourceRejects ==
    /\ pc \in {"deliver", "status"} /\ "rejected" \in failures
    /\ \/ DeferWait(cur, "other")
       \/ \E status \in {"manual", "prepared"} :
            FinishRow(cur, status, "source_rejected") /\ UNCHANGED receipt
    /\ EndRound /\ OutsideRows /\ UNCHANGED <<trips, outage, history>>

\* get_run_status(): complete, wait with a refund, or manual; the failure is
\* told after that, unless only the counts of a completed run disagree.
ReadStatus ==
    /\ pc = "status"
    /\ CASE runOf[cur] = "done" ->
              FinishRow(cur, "complete", "none") /\ NextMember /\ UNCHANGED told
         [] runOf[cur] = "queued" ->
              FinishRow(cur, "prepared", "normalizing") /\ NextMember /\ UNCHANGED told
         [] OTHER -> /\ FinishRow(cur, "manual", "failed") /\ Untold(cur)
                     /\ NextMember \/ (pc' = "tell" /\ UNCHANGED round)
    /\ UNCHANGED <<receipt, cursor, trips, outage, config, source, calls, waited,
                   repairs, crashes, bodies, probes>>

TellFailed ==
    /\ pc = "tell"
    /\ told' = [told EXCEPT ![cur] = TRUE] /\ NextMember
    /\ UNCHANGED <<rows, cursor, trips, outage, config, source, calls, waited,
                   repairs, crashes, bodies, probes>>

\* _report_source_error(): the Source is told, then the row moves on. The
\* round that met a long outage gives the member up; a later one does not.
Report ==
    /\ pc \in {"report", "giveup"}
    /\ told' = [told EXCEPT ![cur] = TRUE]
    /\ CASE pc = "giveup" ->
              FinishRow(cur, "manual", "retry_exhausted") /\ UNCHANGED receipt
         [] pc = "report" /\ observed[cur] # "none" -> AcknowledgeEmpty(cur)
         [] OTHER -> FinishRow(cur, Undone(cur), "source_error") /\ UNCHANGED receipt
    /\ EndRound /\ OutsideRows
    /\ UNCHANGED <<trips, outage, calls, waited, repairs, crashes, bodies, probes>>

\* The Source is unavailable: the round ends, the report stays.
ReportFails ==
    /\ pc \in {"report", "giveup"} /\ EndRound
    /\ UNCHANGED <<rows, trips, outage, history>> /\ OutsideRows

---------------------------------------------------------------------------
(* Settlement, and everything outside the round. *)

\* drain_prepared(): retained bytes of members that are not manual.
DrainPrepared ==
    /\ pc = "settle"
    /\ \E m \in MemberSet : reserved[m] # {} /\ runOf[m] = "none" /\ wstatus[m] # "manual"
    /\ runOf' = [m \in MemberSet |->
                   IF /\ reserved[m] # {} /\ runOf[m] = "none" /\ wstatus[m] # "manual"
                   THEN "queued" ELSE runOf[m]]
    /\ UNCHANGED <<rows, cursor, trips, outage, config, pc, round, work, reserved,
                   noTrade, history>>

PlanComplete == \A m \in MemberSet : runOf[m] = "done" \/ m \in noTrade

\* _settle_queued_round(): all accepted runs have ended; the Source's
\* evaluation decides, then what is left to try.
SettleRound ==
    /\ pc = "settle"
    /\ \A m \in MemberSet :
         /\ runOf[m] # "queued"
         /\ ~(reserved[m] # {} /\ runOf[m] = "none" /\ wstatus[m] # "manual")
    /\ work' = CASE PlanComplete -> "completed"
                  [] ~PlanComplete /\ \/ BlockingManual /\ ~policy
                                      \/ \A m \in MemberSet : ~Unresolved(m) -> "failed"
                  [] OTHER -> "open"
    /\ wstatus' = IF PlanComplete THEN [m \in MemberSet |-> "complete"] ELSE wstatus
    /\ pc' = "idle"
    /\ UNCHANGED <<round, attempts, held, reason, body, receipt, observed, cursor, trips,
                   outage, config, reserved, runOf, noTrade, history>>

\* The process dies, or ends without settling (ProviderWorkRecoveryBlocked).
LoseProcess ==
    /\ pc # "idle" /\ crashes < MaxCrashes
    /\ crashes' = crashes + 1
    /\ pc' = "idle" /\ NoRound
    /\ UNCHANGED <<rows, cursor, trips, outage, config, source, told, calls, waited,
                   repairs, bodies, probes>>

RunEnds(m) ==
    /\ runOf[m] = "queued"
    /\ \E end \in {"done"} \cup ({"failed"} \cap failures) :
         runOf' = [runOf EXCEPT ![m] = end]
    /\ UNCHANGED <<rows, cursor, trips, outage, config, pc, round, work, reserved,
                   noTrade, history>>

\* A lease or a delay runs out between rounds.
Elapse(m) ==
    /\ pc = "idle" /\ held[m]
    /\ held' = [held EXCEPT ![m] = FALSE]
    /\ outage' = IF outage = "recent" THEN "long" ELSE outage
    /\ UNCHANGED <<wstatus, attempts, reason, body, receipt, observed, cursor, trips,
                   config, pc, round, source, history>>

RoundStep ==
    \/ OpenRound \/ BeginMembers \/ EndScan \/ SkipMember \/ RestoreBody
    \/ ClaimMember \/ Dispatch \/ ProbesExhausted \/ GetsData \/ ReserveBody
    \/ SaveBody \/ DeliverBody \/ SaveReceipt \/ ReadStatus \/ TellFailed
    \/ DrainPrepared \/ SettleRound \/ Report \/ WaitBefore
    \/ MappingGap \/ GetsNoTrade \/ FinishNoTrade \/ GetsEmpty \/ GetsNothing
    \/ GetsLimited \/ OutcomeLost \/ StopsMidway \/ GetsOutage \/ NotReady
    \/ GetsError \/ SourceRejects \/ BasisManual \/ ReportFails \/ CalendarClosed

MemberNext ==
    \/ RoundStep \/ LoseProcess
    \/ \E m \in MemberSet : InstallRepair(m) \/ RunEnds(m) \/ Elapse(m)

MemberSpec == MemberInit /\ [][MemberNext]_memberVars

---------------------------------------------------------------------------
(* Properties. *)

\* A member never has two bodies at the Source, and the local body is the one
\* the Source retains, whenever a process is lost between fetching, reserving
\* and storing (owner.restore before _acquire, owner.reserve before prepare).
OneBody ==
    \A m \in MemberSet : /\ Cardinality(reserved[m]) <= 1
                         /\ body[m] # 0 => reserved[m] = {body[m]}

\* A failure the row records and the Source was not told of is still staged to
\* be told before anything else, through failed reports, outcome calls that
\* raise, lost processes, repairs and settlement. The row ends untold in two
\* cases only: the run failed at the Source itself and the process was lost
\* between finish and outcome (or only the counts disagree), and FinLab never
\* published the date (stage_source_error, pending_source_error_keys,
\* _report_source_error).
ReportNotLost ==
    \A m \in MemberSet :
       ~told[m] => \/ reason[m] = Pending
                   \/ reason[m] = "failed" /\ runOf[m] = "failed"
                   \/ reason[m] = "not_ready" /\ runOf[m] = "none"

\* The calls spent on one member are bounded by its failure budget: beyond it
\* only a lost process or outcome call, an approved repair, or a call whose
\* attempt was given back buys one more (claim, finish, defer_wait,
\* apply_member_repair; observation_guard for native calls).
CallBudget ==
    \A m \in MemberSet :
       calls[m] <= IF "empty" \in failures
                   THEN ProbeLimit * (1 + repairs[m]) + MaxAttempts
                   ELSE MaxAttempts + crashes + repairs[m] + waited[m]

\* With a daily policy every unresolved member is claimed again or resolved
\* while the work is open and may acquire, however often the members before it
\* end the round early (the cursor saved by claim()).
MemberWaits(m) == policy /\ Unresolved(m) /\ work = "open"
MemberServed(m) == cur = m \/ ~Unresolved(m) \/ work # "open" \/ drainOnly

\* The process is restarted and goes on, normalization ends, time passes and
\* the Source is not unavailable each time a report is made.
MemberFair(i) == \/ i = 1 /\ RoundStep
                 \/ i - 1 \in DOMAIN Members /\ RunEnds(Members[i - 1])
MemberStrong(i) == \/ i = 1 /\ Report
                   \/ i - 1 \in DOMAIN Members /\ Elapse(Members[i - 1])
MemberFairness == \A i \in 1 .. 1 + Len(Members) :
                      WF_memberVars(MemberFair(i)) /\ SF_memberVars(MemberStrong(i))
=============================================================================
