---------------------------- MODULE FeedMonitor ----------------------------
(***************************************************************************)
(* Missing-delivery alerts and the freshness view of one feed              *)
(* (backend/app/services/delivery_monitor.py, delivery_policy.py,          *)
(* market_freshness.py, feed_scope.py; the scan runs in the loop of        *)
(* scripts/dispatch_outbox.py).                                            *)
(*                                                                         *)
(* A feed is "incremental" or "snapshot" (expected by its dataset policy,  *)
(* locked with the feed scope) or "plan" (a scheduler's frozen plans).     *)
(* An alert is opened by a scan, and resolved by a scan or by the worker   *)
(* that completes the run.  A scan reads and writes in one transaction;    *)
(* what others commit between the two is not in what it read.              *)
(*                                                                         *)
(* Time runs in half days: the deadline of day d has passed from 2d on.    *)
(* Alert texts, severities and gap streaks are left out.                   *)
(***************************************************************************)
EXTENDS Integers, Sequences, FiniteSets

CONSTANTS FeedKinds, OpenDays, LastDay, StartDay,
          MaxFeedRuns, MaxScanFaults, MaxSwitches   \* bounds of the model

FeedDays == 1 .. LastDay
NoScan == [at |-> "idle", closed |-> {}, opened |-> {}]

VARIABLES
    kind,       \* which feed this is
    halfDay,    \* the clock
    feedRuns,   \* its ingestion runs in order of creation
    dayPlan,    \* plan feeds: "none", "open" or "complete" for each date
    running,    \* plan feeds: the scheduler's desired state
    alerts,     \* missing_delivery_alert.status by expected date
    scopeLock,  \* the advisory lock of the feed: "free", "ingress", "scan"
    scan,       \* the transaction of the monitor
    faults, switches

feedVars == <<kind, halfDay, feedRuns, dayPlan, running, alerts, scopeLock, scan, faults, switches>>

FeedTypeOK ==
    /\ kind \in FeedKinds /\ halfDay \in 1 .. 2 * LastDay /\ running \in BOOLEAN
    /\ feedRuns \in Seq([mode : {"incremental", "snapshot", "backfill"}, from : FeedDays,
                         date : FeedDays, status : {"queued", "completed", "failed"}])
    /\ dayPlan \in [FeedDays -> {"none", "open", "complete"}]
    /\ alerts \in [FeedDays -> {"none", "open", "resolved"}]
    /\ scopeLock \in {"free", "ingress", "scan"}
    /\ scan \in [at : {"idle", "read", "write"}, closed : SUBSET FeedDays, opened : SUBSET FeedDays]
    /\ (scan.at # "idle" /\ kind # "plan") = (scopeLock = "scan")

FeedInit ==
    /\ kind \in FeedKinds /\ halfDay = 1 /\ feedRuns = <<>>
    /\ dayPlan = [d \in FeedDays |-> "none"] /\ running = TRUE
    /\ alerts = [d \in FeedDays |-> "none"]
    /\ scopeLock = "free" /\ scan = NoScan /\ faults = 0 /\ switches = 0

---------------------------------------------------------------------------
(* What is expected and what is there.                                     *)

Due(d) == halfDay >= 2 * d

\* resolve_expected_data_date(): the newest open session past its cutoff.
ExpectedDate ==
    LET S == {d \in OpenDays : Due(d)} IN IF S = {} THEN 0 ELSE CHOOSE d \in S : \A e \in S : e <= d

\* acquisition_dates(): planned dates, and open days nothing was decided for.
AcquisitionDates == {d \in StartDay .. LastDay : dayPlan[d] # "none" \/ d \in OpenDays}

\* compatible_delivery_modes() and delivery_run_covers_date(), in memory.
CoversDate(r, d) ==
    \/ r.mode = kind /\ r.date = d
    \/ kind = "incremental" /\ r.mode = "backfill" /\ r.from <= d /\ d <= r.date

\* delivery_run_coverage_condition(): the same in SQL.
CoverageCondition(r, d) ==
    \/ r.mode = kind /\ r.date = d
    \/ /\ kind = "incremental" /\ r.mode = "backfill"
       /\ r.from <= d /\ d <= r.date

RunSet(status) == {feedRuns[k] : k \in {j \in DOMAIN feedRuns : feedRuns[j].status = status}}

Delivered(d) ==
    IF kind = "plan" THEN dayPlan[d] = "complete"
    ELSE \E r \in RunSet("completed") : CoverageCondition(r, d)

\* _feed_freshness() and _profile_feed_freshness(): the state of the expected date.
Freshness ==
    LET e == ExpectedDate
        last == feedRuns[Len(feedRuns)]
    IN IF kind = "plan"
       THEN IF e = 0 \/ e < StartDay THEN "not_due"
            ELSE CASE dayPlan[e] = "none" -> "never_received"
                   [] dayPlan[e] = "complete" -> "fresh"
                   [] OTHER -> "late"
       ELSE IF feedRuns = <<>> THEN "never_received"
       ELSE IF e = 0 THEN "not_due"
       ELSE IF /\ last.status = "failed"
               /\ IF kind = "incremental" THEN CoversDate(last, e) ELSE last.date >= e
            THEN "failed"
       ELSE IF \E r \in RunSet("completed") :
                 IF kind = "incremental" THEN CoversDate(r, e) ELSE r.mode = kind /\ r.date >= e
            THEN "fresh" ELSE "late"

---------------------------------------------------------------------------
(* The rest of the system.                                                 *)

Tick ==
    /\ halfDay < 2 * LastDay /\ halfDay' = halfDay + 1
    /\ UNCHANGED <<kind, feedRuns, dayPlan, running, alerts, scopeLock, scan, faults, switches>>

\* lock_delivery_policy_scope(): ingress waits for the feed's lock ...
IngressLocks ==
    /\ kind # "plan" /\ scopeLock = "free" /\ Len(feedRuns) < MaxFeedRuns
    /\ scopeLock' = "ingress"
    /\ UNCHANGED <<kind, halfDay, feedRuns, dayPlan, running, alerts, scan, faults, switches>>

\* ... and creates the run, for a date of the past or of today.
Today == (halfDay + 1) \div 2
IngressCommits ==
    /\ scopeLock = "ingress" /\ scopeLock' = "free"
    /\ \E mode \in {kind, "backfill"}, from, date \in 1 .. Today :
         /\ from <= date
         /\ mode # "backfill" => from = date
         /\ feedRuns' = Append(feedRuns, [mode |-> mode, from |-> from, date |-> date,
                                          status |-> "queued"])
    /\ UNCHANGED <<kind, halfDay, dayPlan, running, alerts, scan, faults, switches>>

\* resolve_missing_delivery_for_run(): the exact alert, with the completion.
AfterRun(d) == [alerts EXCEPT ![d] = IF @ = "open" THEN "resolved" ELSE @]

\* update_run_status() of the worker, outside the feed's lock: a completed run
\* resolves the alert of its date whatever its mode.
RunCompletes ==
    /\ \E k \in DOMAIN feedRuns :
         /\ feedRuns[k].status = "queued"
         /\ feedRuns' = [feedRuns EXCEPT ![k].status = "completed"]
         /\ alerts' = AfterRun(feedRuns[k].date)
    /\ UNCHANGED <<kind, halfDay, dayPlan, running, scopeLock, scan, faults, switches>>

RunFails ==
    /\ \E k \in DOMAIN feedRuns :
         /\ feedRuns[k].status = "queued"
         /\ feedRuns' = [feedRuns EXCEPT ![k].status = "failed"]
    /\ UNCHANGED <<kind, halfDay, dayPlan, running, alerts, scopeLock, scan, faults, switches>>

PlanFrozen ==
    /\ kind = "plan" /\ running
    /\ \E d \in StartDay .. Today :
         dayPlan[d] = "none" /\ d \in OpenDays /\ dayPlan' = [dayPlan EXCEPT ![d] = "open"]
    /\ UNCHANGED <<kind, halfDay, feedRuns, running, alerts, scopeLock, scan, faults, switches>>

\* The last member of a plan: by a run, which resolves its date's alert, or
\* by a recorded no_data outcome, which leaves that to the scan.
PlanCompletes ==
    /\ \E d \in FeedDays, byRun \in BOOLEAN :
         /\ dayPlan[d] = "open" /\ dayPlan' = [dayPlan EXCEPT ![d] = "complete"]
         /\ alerts' = IF byRun THEN AfterRun(d) ELSE alerts
    /\ UNCHANGED <<kind, halfDay, feedRuns, running, scopeLock, scan, faults, switches>>

SwitchScheduler ==
    /\ kind = "plan" /\ switches < MaxSwitches /\ switches' = switches + 1
    /\ running' = ~running
    /\ UNCHANGED <<kind, halfDay, feedRuns, dayPlan, alerts, scopeLock, scan, faults>>

---------------------------------------------------------------------------
(* scan_missing_deliveries().                                              *)

\* A locked feed is skipped until the next scan; plans take no lock.
ScanStarts ==
    /\ scan.at = "idle"
    /\ kind # "plan" => scopeLock = "free"
    /\ scan' = [scan EXCEPT !.at = "read"]
    /\ scopeLock' = IF kind = "plan" THEN scopeLock ELSE "scan"
    /\ UNCHANGED <<kind, halfDay, feedRuns, dayPlan, running, alerts, faults, switches>>

OpenAlerts == {d \in FeedDays : alerts[d] = "open"}

\* _resolve_open_alerts_for_feed(), and the closing half of
\* _scan_full_market_feed(): all of a stopped scheduler, dates no longer
\* acquired, complete plans.
ToResolve ==
    IF kind = "plan" /\ ~running THEN OpenAlerts
    ELSE {d \in OpenAlerts : \/ Delivered(d)
                             \/ kind = "plan" /\ d >= StartDay /\ d <= Today
                                              /\ d \notin AcquisitionDates}

\* Faulty variant of ToOpen: the deadline of the expected date itself is not counted.
ToOpenLate ==
    IF kind = "plan"
    THEN {d \in AcquisitionDates : running /\ halfDay > 2 * d /\ ~Delivered(d)}
    ELSE {}

\* The dates an alert is written for: past the deadline and not there.
ToOpen ==
    IF kind = "plan"
    THEN {d \in AcquisitionDates : running /\ Due(d) /\ ~Delivered(d)}
    ELSE {d \in {ExpectedDate} \ {0} : ~Delivered(d)}

ScanReads ==
    /\ scan.at = "read"
    /\ scan' = [at |-> "write", closed |-> ToResolve, opened |-> ToOpen]
    /\ UNCHANGED <<kind, halfDay, feedRuns, dayPlan, running, alerts, scopeLock, faults, switches>>

\* The upsert of a dataset-policy feed leaves a resolved alert alone; that of
\* a plan feed opens it again.
ScanCommits ==
    /\ scan.at = "write" /\ scan' = NoScan
    /\ alerts' = [d \in FeedDays |->
                    IF d \in scan.opened /\ (kind = "plan" \/ alerts[d] = "none") THEN "open"
                    ELSE IF d \in scan.closed /\ alerts[d] = "open" THEN "resolved" ELSE alerts[d]]
    /\ scopeLock' = IF kind = "plan" THEN scopeLock ELSE "free"
    /\ UNCHANGED <<kind, halfDay, feedRuns, dayPlan, running, faults, switches>>

\* Faulty variant of ScanFails: the advisory lock outlives the transaction.
ScanFailsLocked ==
    /\ scan.at # "idle" /\ faults < MaxScanFaults /\ faults' = faults + 1 /\ scan' = NoScan
    /\ UNCHANGED <<kind, halfDay, feedRuns, dayPlan, running, alerts, scopeLock, switches>>

\* The dispatcher dies or its transaction fails: scan_missing_deliveries_safely().
ScanFails ==
    /\ scan.at # "idle" /\ faults < MaxScanFaults /\ faults' = faults + 1
    /\ scan' = NoScan /\ scopeLock' = IF kind = "plan" THEN scopeLock ELSE "free"
    /\ UNCHANGED <<kind, halfDay, feedRuns, dayPlan, running, alerts, switches>>

Scan == ScanStarts \/ ScanReads \/ ScanCommits

FeedNext ==
    \/ Tick \/ IngressLocks \/ IngressCommits \/ RunCompletes \/ RunFails
    \/ PlanFrozen \/ PlanCompletes \/ SwitchScheduler
    \/ ScanStarts \/ ScanReads \/ ScanCommits \/ ScanFails

\* The dispatcher's loop scans again and again, and an open request ends.
FeedFair(i) == \/ i = 1 /\ Scan
               \/ i = 2 /\ IngressCommits
FeedFairness == \A i \in 1 .. 2 : WF_feedVars(FeedFair(i))

FeedSpec == FeedInit /\ [][FeedNext]_feedVars

---------------------------------------------------------------------------
(* Properties. *)

\* The alert of a date that has been delivered, or that the freshness page
\* calls fresh, is not open for ever: a scan that read before the delivery may
\* open it, a later scan resolves it (_resolve_open_alerts_for_feed,
\* _scan_full_market_feed). The two views agree in the end although one is
\* decided in SQL and the other in memory; snapshot feeds, whose page counts a
\* run of a later date, are the exception.
AlertOutdated(d) ==
    /\ alerts[d] = "open"
    /\ Delivered(d) \/ (kind # "snapshot" /\ Freshness = "fresh" /\ ExpectedDate = d)
AlertClosed(d) == alerts[d] # "open"

\* The alert of a snapshot was resolved by a completed backfill of its date.
\* compatible_delivery_modes() says that a backfill never satisfies a snapshot,
\* update_run_status() does not ask, and no scan opens a resolved alert again.
MaskedByBackfill(d) ==
    /\ kind = "snapshot" /\ alerts[d] = "resolved"
    /\ \E r \in RunSet("completed") : r.mode = "backfill" /\ r.date = d

\* The newest date that is due and not there does not go unnoticed while it
\* stays the newest: its alert is open in the end, whatever fails, is skipped
\* for a lock or is switched off for a while in between, and stays so unless a
\* backfill masks it (ToOpen, ScanCommits, resolve_missing_delivery_for_run).
GapOpen(d) == /\ ExpectedDate = d /\ d >= StartDay /\ ~Delivered(d) /\ running
              /\ alerts[d] # "open" /\ ~MaskedByBackfill(d)
GapNoticed(d) == \/ alerts[d] = "open" \/ MaskedByBackfill(d)
                 \/ Delivered(d) \/ ExpectedDate # d \/ ~running
=============================================================================
