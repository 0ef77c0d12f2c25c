-------------------------- MODULE MCBackendParts --------------------------
(* Four parts of the backend whose properties include liveness, checked in *)
(* one run: the ledger of ingest attempts, the retention of a payload,     *)
(* historical backfills and delivery monitoring.  A behaviour is one of a  *)
(* single part, which part names and no step changes; the variables of the *)
(* others do not move.                                                     *)
EXTENDS IngestionLedger, RawRetention, HistoricalItems

CONSTANTS r1, r2, r3, k1, b1, b2

VARIABLES part,
          s1, s2, s3, s4, s5, s6, s7, s8, s9, s10

\* Every request uses one idempotency key; r1 and r2 are two tries of one
\* delivery, r3 reuses the key with other content.
OneKey == [r \in Requests |-> k1]
TwoBodies == [r \in Requests |-> IF r = r3 THEN b2 ELSE b1]
Tries == <<r1, r2, r3>>

---------------------------------------------------------------------------
(* The parts. *)

\* Every date has two members.
TwoMembers == <<"a", "b">>

Feed == INSTANCE FeedMonitor WITH
    FeedKinds <- {"incremental", "snapshot", "plan"}, OpenDays <- {1, 2},
    LastDay <- 2, StartDay <- 1, MaxFeedRuns <- 2, MaxScanFaults <- 1,
    MaxSwitches <- 2, kind <- s1, halfDay <- s2, feedRuns <- s3, dayPlan <- s4,
    running <- s5, alerts <- s6, scopeLock <- s7, scan <- s8, faults <- s9,
    switches <- s10

monitorVars == <<s1, s2, s3, s4, s5, s6, s7, s8, s9, s10>>
MonitorOff == /\ s1 = 0 /\ s2 = 0 /\ s3 = 0 /\ s4 = 0 /\ s5 = 0 /\ s6 = 0 /\ s7 = 0
              /\ s8 = 0 /\ s9 = 0 /\ s10 = 0

PartsInit ==
    /\ Init /\ RawInit /\ HistInit
    /\ \/ part \in {"ledger", "raw", "backfill"} /\ MonitorOff
       \/ part = "feed" /\ Feed!FeedInit

PartsNext ==
    \/ part = "ledger" /\ Next /\ UNCHANGED <<part, rawVars, histVars, monitorVars>>
    \/ part = "raw" /\ RawNext /\ UNCHANGED <<part, vars, histVars, monitorVars>>
    \/ part = "feed" /\ Feed!FeedNext /\ UNCHANGED <<part, vars, rawVars, histVars>>
    \/ part = "backfill" /\ HistNext /\ UNCHANGED <<part, vars, rawVars, monitorVars>>

\* What each part's code keeps doing; for the ledger, that a handler runs on
\* until it returns or dies and that the dispatcher reconciles in every round.
LedgerFair(i) ==
    \/ i \in 1 .. 3 /\ Handle(Tries[i])
    \/ i = 4 /\ ReconcileStaleAttempts

PartsFair(i) ==
    \/ part = "ledger" /\ LedgerFair(i) /\ UNCHANGED <<part, rawVars, histVars, monitorVars>>
    \/ part = "raw" /\ RawFair(i) /\ UNCHANGED <<part, vars, histVars, monitorVars>>
    \/ part = "feed" /\ Feed!FeedFair(i) /\ UNCHANGED <<part, vars, rawVars, histVars>>
    \/ part = "backfill" /\ HistFair(i) /\ UNCHANGED <<part, vars, rawVars, monitorVars>>

allVars == <<part, vars, rawVars, histVars, monitorVars>>

PartsSpec ==
    PartsInit /\ [][PartsNext]_allVars /\ \A i \in 1 .. 4 : WF_allVars(PartsFair(i))

---------------------------------------------------------------------------
(* Properties, besides those of the extended modules. *)

\* Rows and transactions stay in their declared ranges, and the monitor's
\* scan has the feed's lock exactly while it is at work.
BackendTypeOK == RawTypeOK /\ HistTypeOK /\ (part = "feed" => Feed!FeedTypeOK)

\* What waits, by part: an attempt that was received; an outdated alert or an
\* unnoticed gap on either day; a payload whose runs are over; a request.
Waits(i) ==
    \/ part = "ledger" /\ i \in 1 .. 3 /\ attempt[Tries[i]] = "received"
    \/ part = "feed" /\ i \in 1 .. 2 /\ Feed!AlertOutdated(i)
    \/ part = "feed" /\ i \in 3 .. 4 /\ Feed!GapOpen(i - 2)
    \/ part = "raw" /\ i = 1 /\ RunsOver
    \/ part = "backfill" /\ i = 1 /\ BackfillRequested

Settled(i) ==
    \/ part = "ledger" /\ i \in 1 .. 3 /\ attempt[Tries[i]] \in Ended
    \/ part = "feed" /\ i \in 1 .. 2 /\ Feed!AlertClosed(i)
    \/ part = "feed" /\ i \in 3 .. 4 /\ Feed!GapNoticed(i - 2)
    \/ part = "raw" /\ i = 1 /\ RawFreed
    \/ part = "backfill" /\ i = 1 /\ BackfillEnded

\* None of it waits for ever: every attempt ends by its handler or by
\* reconcile_stale_ingestion_attempts(), alerts close and gaps are noticed, an
\* unused payload is deleted, and a backfill request ends with its works out
\* of the queue.
BackendSettles == \A i \in 1 .. 4 : Waits(i) ~> Settled(i)
=============================================================================
