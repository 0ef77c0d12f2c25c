--------------------------- MODULE DeliveryPolicy ---------------------------
(***************************************************************************)
(* The delivery policy of one feed and its rolling baseline                *)
(* (backend/app/services/delivery_policy.py evaluate_delivery_policy, as   *)
(* IngestionService.ingest_contract uses it for a body that belongs to no  *)
(* plan part).                                                             *)
(*                                                                         *)
(* A request is judged under the feed's lock and committed later; workers, *)
(* which take no such lock, complete and fail runs in between, and a rerun *)
(* of a retained body adds a run the policy never judged.  Days are        *)
(* numbered and every day is a session; a body is its record count.        *)
(***************************************************************************)
EXTENDS Integers, Sequences, FiniteSets, FiniteSetsExt

CONSTANTS Expectations,            \* the policies of a feed, and the modes and
                                   \* record counts of the bodies it is sent
          KeptShare,               \* 1 / (1 - maximum_count_drop_ratio)
          LastSession, MaxBodies, Lateness   \* bounds of the model

VARIABLES
    expectation,  \* the effective DeliveryExpectation of the source
    session,      \* the newest session past its cutoff
    runs,         \* ingestion_run in order of creation
    judged        \* the request that holds the feed's lock, or none

policyVars == <<expectation, session, runs, judged>>

Sessions == 1 .. LastSession
Free == [held |-> FALSE]

PolicyTypeOK ==
    /\ expectation \in Expectations /\ session \in Sessions
    /\ \A k \in DOMAIN runs :
         /\ runs[k].date \in Sessions /\ runs[k].count \in expectation.counts /\ runs[k].mode \in expectation.modes
         /\ runs[k].outcome \in {"pass", "warn", "unjudged"}
         /\ runs[k].basis \in {"disabled", "cold_start", "active", "not_applicable"}
         /\ runs[k].status \in {"queued", "completed", "failed"} /\ runs[k].rerun \in BOOLEAN
         /\ runs[k].rerun = (runs[k].outcome = "unjudged")
    /\ judged.held \in BOOLEAN
    /\ judged.held => judged.outcome \in {"pass", "warn", "reject"}

PolicyInit ==
    /\ expectation \in Expectations /\ session = 1 /\ runs = <<>> /\ judged = Free

---------------------------------------------------------------------------
(* _baseline_runs(): the newest passing delivery of each earlier date, the *)
(* newest dates of them.                                                   *)

\* Faulty variant of Eligible: a run accepted with a warning counts too.
EligibleWarned(r, d) ==
    r.status = "completed" /\ ~r.rerun /\ r.mode = "full_snapshot" /\ r.date < d

Eligible(r, d) ==
    /\ r.status = "completed" /\ r.outcome = "pass" /\ ~r.rerun
    /\ r.mode = "full_snapshot" /\ r.date < d

BaselineRuns(d) ==
    LET E == {k \in DOMAIN runs : Eligible(runs[k], d)}
        newest == {k \in E : \A j \in E : runs[j].date = runs[k].date => j <= k}
    IN {k \in newest : Cardinality({j \in newest : runs[j].date > runs[k].date})
                         < expectation.window}

\* Twice the median of the counts, so that it stays an integer.
DoubleMedian(K) ==
    LET n == Cardinality(K)
        below(k) == Cardinality({j \in K : \/ runs[j].count < runs[k].count
                                           \/ runs[j].count = runs[k].count /\ j < k})
        nth(i) == runs[CHOOSE k \in K : below(k) = i].count
    IN nth((n - 1) \div 2) + nth(n \div 2)

\* math.ceil(baseline_value * (1 - maximum_count_drop_ratio))
Relative(double) == (double + 2 * KeptShare - 1) \div (2 * KeptShare)

\* baseline_status and effective_count_threshold of a full snapshot.
Basis(d, mode) ==
    IF mode # "full_snapshot" THEN "not_applicable"
    ELSE IF expectation.count = "disabled" \/ ~expectation.baseline THEN "disabled"
    ELSE IF Cardinality(BaselineRuns(d)) >= expectation.history THEN "active"
    ELSE "cold_start"

Threshold(d, mode) ==
    IF Basis(d, mode) = "active"
    THEN Max({expectation.minimum, Relative(DoubleMedian(BaselineRuns(d)))})
    ELSE expectation.minimum

---------------------------------------------------------------------------
(* evaluate_delivery_policy()                                              *)

CountDrop(d, count, mode) ==
    /\ mode = "full_snapshot" /\ expectation.count # "disabled"
    /\ count < Threshold(d, mode)

Aged(age, mode) == mode # "backfill" /\ age # "recent"

\* latest_date: not configured, no calendar for it, or another date than expected.
Dated(mode) == mode \in {"full_snapshot", "sequenced_snapshot"}
NoCalendar(mode) ==
    /\ Dated(mode)
    /\ \/ expectation.latest = "none"
       \/ expectation.latest # "disabled" /\ ~expectation.calendar
WrongDate(d, reaches, mode) ==
    /\ Dated(mode) /\ expectation.latest \in {"warn", "reject"} /\ expectation.calendar
    /\ d # session \/ ~reaches

\* The actions of the violations found; _violation() drops the disabled ones.
Violations(d, count, mode, age, reaches) ==
    {a \in {"warn", "reject"} :
       \/ CountDrop(d, count, mode) /\ expectation.count = a
       \/ Aged(age, mode) /\ expectation.fresh = a
       \/ WrongDate(d, reaches, mode) /\ expectation.latest = a
       \/ NoCalendar(mode) /\ a = "warn"}

Outcome(found) ==
    IF "reject" \in found THEN "reject" ELSE IF found # {} THEN "warn" ELSE "pass"

Judge(d, count, mode, age, reaches) ==
    /\ ~judged.held /\ Len(runs) < MaxBodies
    /\ d <= session /\ session - d <= Lateness
    /\ judged' = [held |-> TRUE, date |-> d, count |-> count, mode |-> mode,
                  basis |-> Basis(d, mode),
                  outcome |-> Outcome(Violations(d, count, mode, age, reaches))]
    /\ UNCHANGED <<expectation, session, runs>>

\* DeliveryPolicyRejectedError: the transaction ends without a run.
Reject ==
    /\ judged.held /\ judged.outcome = "reject" /\ judged' = Free
    /\ UNCHANGED <<expectation, session, runs>>

Accept ==
    /\ judged.held /\ judged.outcome # "reject" /\ judged' = Free
    /\ runs' = Append(runs, [date |-> judged.date, count |-> judged.count, mode |-> judged.mode,
                             outcome |-> judged.outcome, basis |-> judged.basis,
                             status |-> "queued", rerun |-> FALSE])
    /\ UNCHANGED <<expectation, session>>

---------------------------------------------------------------------------
(* The workers, the operator and the clock.                                *)

RunEnds ==
    /\ \E k \in DOMAIN runs, how \in {"completed", "failed"} :
         runs[k].status = "queued" /\ runs' = [runs EXCEPT ![k].status = how]
    /\ UNCHANGED <<expectation, session, judged>>

\* rerun_from_raw(): the same body again, with _rerun_batch_metadata() and no
\* policy outcome; it does not take the feed's lock.
Rerun ==
    /\ Len(runs) < MaxBodies
    /\ \E k \in DOMAIN runs :
         /\ runs[k].status # "queued"
         /\ runs' = Append(runs, [runs[k] EXCEPT !.outcome = "unjudged", !.rerun = TRUE,
                                                 !.basis = "not_applicable", !.status = "queued"])
    /\ UNCHANGED <<expectation, session, judged>>

NextSession ==
    /\ session < LastSession /\ session' = session + 1
    /\ UNCHANGED <<expectation, runs, judged>>

PolicyNext ==
    \/ \E d \in Sessions, count \in expectation.counts, mode \in expectation.modes,
          age \in {"recent", "stale"}, reaches \in BOOLEAN :
         Judge(d, count, mode, age, reaches)
    \/ Reject \/ Accept \/ RunEnds \/ Rerun \/ NextSession

PolicySpec == PolicyInit /\ [][PolicyNext]_policyVars

---------------------------------------------------------------------------
(* Properties. *)

\* A record count shrinks slowly or it is noticed. The code lets a feed creep
\* downwards, each snapshot within the permitted ratio of the median of the
\* ones before it; but a snapshot that passed against an active baseline has,
\* for every session since some pass of the cold start, shrunk by no more than
\* that ratio, and never below the absolute minimum. No series of small bodies
\* accepted with warnings, failed, rerun or sent twice for a date makes it any
\* faster (_baseline_runs, evaluate_delivery_policy).
PassesShrinkSlowly ==
    \A k \in DOMAIN runs :
      (runs[k].outcome = "pass" /\ runs[k].basis = "active") =>
         /\ runs[k].count >= expectation.minimum
         /\ \E j \in 1 .. (k - 1) :
              /\ runs[j].outcome = "pass" /\ runs[j].basis = "cold_start"
              /\ runs[j].date < runs[k].date
              /\ runs[k].count * KeptShare ^ (runs[k].date - runs[j].date) >= runs[j].count
=============================================================================
