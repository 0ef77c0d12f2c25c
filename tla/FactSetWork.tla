---------------------------- MODULE FactSetWork ----------------------------
(***************************************************************************)
(* A FactSet day (fetcher/src/findb_fetcher/factset_eod.py,                *)
(* providers/factset.py and _deliver_factset_plan of                       *)
(* full_market_runtime.py): one query for the whole cohort, its answer     *)
(* frozen with the time it was taken at, and one body per member from it.  *)
(*                                                                         *)
(* Every side effect is an operation with a journalled result and three    *)
(* attempts; the process may be lost in between, and FactSet may answer    *)
(* otherwise the next time. An answer is a function from listings to the   *)
(* form of their row: "good", "crossed" (which the Source rejects), "bad"  *)
(* (which contract_row rejects), "twice" or "none"; << >> is malformed.    *)
(***************************************************************************)
EXTENDS Naturals, Sequences, FiniteSets

CONSTANTS Cohort,       \* the members, in the order of the plan
          Unlisted,     \* members that may have no listing of their own at FactSet
          Natives,      \* what the query may answer
          MaxAttempts,  \* attempts of an operation
          MaxMisses,    \* bound on answers before publication
          MaxCrashes    \* bound on lost processes

VARIABLES gaps,      \* members the frozen manifest maps to no listing
          late,      \* the publication window of the day is over
          closed,    \* the published calendar now says the day is closed
          prices,    \* durable_response of FactSetGateway.prices
          snapshot,  \* the journalled result of "snapshot"
          observed,  \* an incomplete snapshot was observed
          raw,       \* the journalled result of "raw"
          prepared,  \* the retained body of a member
          accepted,  \* bodies of a member the Source holds a run of
          verdict,   \* what became of that run
          receipt,   \* members whose "receipt:" is journalled
          attempts,  \* work_budget, by operation
          pc, op, deferring, granted, answer,   \* FactSetEOD.run
          outcomes,  \* evidence of this run, by member
          reported,  \* members reported as an outcome to the Source
          ended,     \* how the work ended
          clock,     \* distinguishes two observations of the time
          queries,   \* operations that reached FactSet
          misses,    \* of which told an incomplete cohort
          crashes

factsetVars == <<gaps, late, closed, prices, snapshot, observed, raw, prepared, accepted, verdict,
                 receipt, attempts, pc, op, deferring, granted, answer, outcomes, reported,
                 ended, clock, queries, misses, crashes>>

Members == {Cohort[i] : i \in DOMAIN Cohort}
Mapped == Members \ gaps
Operations == {"snapshot", "raw"} \cup Members
Frozen == CHOOSE s \in snapshot : TRUE

\* Only a well-formed answer that lacks a listing is a miss.
PriceScopeComplete(native) == native = << >> \/ \A m \in Mapped : native[m] # "none"

\* The result of an operation is journalled.
Saved(o) == CASE o = "snapshot" -> snapshot # {}
              [] o = "raw" -> raw
              [] OTHER -> o \in receipt

journal == <<prices, snapshot, observed, raw, receipt>>
source == <<accepted, verdict, reported>>
counts == <<clock, queries, misses, crashes>>

-----------------------------------------------------------------------------
FactSetInit ==
    /\ gaps \in SUBSET Unlisted
    /\ late \in BOOLEAN /\ closed = FALSE
    /\ prices = {} /\ snapshot = {} /\ observed = FALSE /\ raw = FALSE
    /\ prepared = [m \in Members |-> {}] /\ accepted = [m \in Members |-> {}]
    /\ verdict = [m \in Members |-> "none"]
    /\ receipt = {}
    /\ attempts = [o \in Operations |-> 0]
    /\ pc = "idle" /\ op = "none" /\ deferring = FALSE /\ granted = 0 /\ answer = << >>
    /\ outcomes = [m \in Members |-> "none"]
    /\ reported = {} /\ ended = "none"
    /\ clock = 0 /\ queries = 0 /\ misses = 0 /\ crashes = 0

Ends(how) == pc' = "idle" /\ ended' = how /\ UNCHANGED <<op, deferring, granted, answer>>
Deferred == Ends("none")
Reaches(o) == pc' = "reserve" /\ op' = o /\ UNCHANGED <<deferring, granted, answer, ended>>

\* A day whose calendar was closed since is left to a repair before FactSet is
\* asked, for the first time or again after a miss.
BeginFactSet ==
    /\ pc = "idle" /\ ended = "none"
    /\ outcomes' = [m \in Members |-> "none"]
    /\ IF closed /\ IF observed THEN snapshot = {} ELSE Mapped # {}
       THEN Ends("repair")
       ELSE /\ deferring' = ~late
            /\ pc' = IF Mapped = {} THEN "members" ELSE "reserve"
            /\ op' = "snapshot"
            /\ UNCHANGED <<granted, answer, ended>>
    /\ UNCHANGED <<gaps, late, closed, journal, prepared, source, attempts, counts>>

\* After a result: the raw object, then the members; a malformed answer fails
\* every time, its bytes being what the journal replays.
ReplaySaved ==
    /\ pc = "reserve" /\ Saved(op)
    /\ CASE op = "snapshot" /\ Frozen.native = << >> -> Ends("failed")
         [] op = "snapshot" /\ Frozen.native # << >> -> Reaches("raw")
         [] OTHER -> /\ pc' = IF op = "raw" THEN "members" ELSE "status"
                     /\ UNCHANGED <<op, deferring, granted, answer, ended>>
    /\ UNCHANGED <<gaps, late, closed, journal, prepared, source, attempts, outcomes, counts>>

ReserveAttempt ==
    /\ pc = "reserve" /\ ~Saved(op)
    /\ IF attempts[op] = MaxAttempts
       THEN Ends("failed") /\ UNCHANGED attempts
       ELSE /\ attempts' = [attempts EXCEPT ![op] = @ + 1]
            /\ pc' = "act" /\ granted' = 0
            /\ UNCHANGED <<op, deferring, answer, ended>>
    /\ UNCHANGED <<gaps, late, closed, journal, prepared, source, outcomes, counts>>

ReleaseWaitAttempt == attempts' = [attempts EXCEPT ![op] = IF @ = 0 THEN 0 ELSE @ - 1]

-----------------------------------------------------------------------------
(* The query: connecting and selecting need a grant each.                  *)

Authorize ==
    /\ pc = "act" /\ op = "snapshot" /\ prices = {} /\ granted < 2
    /\ misses < MaxMisses
    /\ granted' = granted + 1
    /\ queries' = IF granted = 0 THEN queries + 1 ELSE queries
    /\ UNCHANGED <<gaps, late, closed, journal, prepared, source, attempts, pc, op, deferring, answer,
                   outcomes, ended, clock, misses, crashes>>

\* Acquisition is suspended, the Source does not answer or the account has to
\* wait: the attempt is given back unless FactSet was reached. A quota that is
\* blocked for another reason keeps it.
NotAuthorized(waits) ==
    /\ pc = "act" /\ op = "snapshot" /\ prices = {} /\ granted < 2
    /\ IF waits /\ granted = 0 THEN ReleaseWaitAttempt ELSE UNCHANGED attempts
    /\ Deferred
    /\ UNCHANGED <<gaps, late, closed, journal, prepared, source, outcomes, counts>>

QueryFails(retryable) ==
    /\ pc = "act" /\ op = "snapshot" /\ granted > 0
    /\ IF retryable THEN Deferred ELSE Ends("failed")
    /\ UNCHANGED <<gaps, late, closed, journal, prepared, source, attempts, outcomes, counts>>

\* The child returned rows; only a complete cohort is journalled as prices.
QueryAnswers(native) ==
    /\ pc = "act" /\ op = "snapshot" /\ granted = 2
    /\ pc' = "acquired" /\ answer' = native
    /\ prices' = IF PriceScopeComplete(native) THEN {native} ELSE prices
    /\ UNCHANGED <<gaps, late, closed, snapshot, observed, raw, receipt, prepared, source, attempts, op,
                   deferring, granted, outcomes, ended, counts>>

ReplayPrices ==
    /\ pc = "act" /\ op = "snapshot"
    /\ \E native \in prices : answer' = native
    /\ pc' = "acquired"
    /\ UNCHANGED <<gaps, late, closed, journal, prepared, source, attempts, op, deferring, granted,
                   outcomes, ended, counts>>

\* The answer is frozen with the time, or, before the window is over and with
\* listings missing, observed, its attempt given back and the work left for
\* later, or to a repair when the calendar is closed by now.
KeepSnapshot ==
    /\ pc = "acquired"
    /\ clock' = clock + 1
    /\ IF deferring /\ ~PriceScopeComplete(answer)
       THEN /\ observed' = TRUE /\ misses' = misses + 1
            /\ ReleaseWaitAttempt
            /\ IF closed THEN Ends("repair") ELSE Deferred
            /\ UNCHANGED <<snapshot>>
       ELSE /\ snapshot' = {[native |-> answer, at |-> clock, late |-> ~deferring]}
            /\ pc' = "reserve"
            /\ UNCHANGED <<observed, misses, attempts, op, deferring, granted, answer, ended>>
    /\ UNCHANGED <<gaps, late, closed, prices, raw, receipt, prepared, source, outcomes, queries, crashes>>

PersistRaw(result) ==
    /\ pc = "act" /\ op = "raw"
    /\ raw' = (result = "stored")
    /\ CASE result = "stored" -> Reaches("raw")
         [] result = "retryable" -> Deferred
         [] OTHER -> Ends("failed")
    /\ UNCHANGED <<gaps, late, closed, prices, snapshot, observed, receipt, prepared, source, attempts,
                   outcomes, counts>>

-----------------------------------------------------------------------------
(* The members, one after the other.                                       *)

Todo == SelectSeq(Cohort, LAMBDA m : outcomes[m] = "none")
Outcome(m, what) == outcomes' = [outcomes EXCEPT ![m] = what]

\* contract_row and the checks around it: without a row the member is
\* missing; a row that is unusable or not the only one makes it invalid. A row
\* whose prices contradict each other is delivered.
RowOutcome(form) == IF form = "none" THEN "missing"
                    ELSE IF form \in {"bad", "twice"} THEN "invalid" ELSE "row"

NoBody ==
    LET m == Head(Todo) IN
    /\ pc = "members" /\ Todo # << >>
    /\ IF m \in gaps THEN Outcome(m, "mapping_gap")
       ELSE /\ RowOutcome(Frozen.native[m]) # "row"
            /\ Outcome(m, RowOutcome(Frozen.native[m]))
    /\ UNCHANGED <<gaps, late, closed, journal, prepared, source, attempts, pc, op, deferring, granted,
                   answer, ended, counts>>

\* The body is of the snapshot and its time, and once retained is restored;
\* preparing may be suspended.
PrepareMember ==
    LET m == Head(Todo) IN
    /\ pc = "members" /\ Todo # << >> /\ m \notin gaps
    /\ RowOutcome(Frozen.native[m]) = "row"
    /\ \/ /\ prepared' = [prepared EXCEPT ![m] = IF @ = {} THEN snapshot ELSE @]
          /\ Reaches(m)
       \/ Deferred /\ UNCHANGED prepared
    /\ UNCHANGED <<gaps, late, closed, journal, source, attempts, outcomes, counts>>

\* The Source takes the body, once, and its answer may be lost; one that
\* refuses it fails the work.
DeliverBody(result) ==
    /\ pc = "act" /\ op \in Members
    /\ IF result = "refused" THEN UNCHANGED <<accepted, verdict>>
       ELSE /\ accepted' = [accepted EXCEPT ![op] = @ \cup prepared[op]]
            /\ verdict' = [verdict EXCEPT ![op] = IF @ = "none" THEN "queued" ELSE @]
    /\ CASE result = "receipt" -> receipt' = receipt \cup {op} /\ Reaches(op)
         [] result = "lost" -> Deferred /\ UNCHANGED receipt
         [] OTHER -> Ends("failed") /\ UNCHANGED receipt
    /\ UNCHANGED <<gaps, late, closed, prices, snapshot, observed, raw, prepared, attempts, outcomes,
                   reported, counts>>

\* The run is looked up until it is final, the Source is away or time is up.
RunStatus ==
    /\ pc = "status"
    /\ \/ Deferred /\ UNCHANGED outcomes
       \/ /\ verdict[op] \in {"data", "invalid"}
          /\ Outcome(op, verdict[op])
          /\ pc' = "members"
          /\ UNCHANGED <<op, deferring, granted, answer, ended>>
    /\ UNCHANGED <<gaps, late, closed, journal, prepared, source, attempts, counts>>

CompletionStatus == IF \A m \in Members : outcomes[m] = "data" THEN "completed" ELSE "partial"

\* Members without data are reported, the plan is evaluated and the work
\* settled; a missing row on a day closed since is left to a repair.
FinishPlan ==
    /\ pc = "members" /\ Todo = << >>
    /\ IF closed /\ \E m \in Members : outcomes[m] = "missing"
       THEN Ends("repair") /\ UNCHANGED reported
       ELSE /\ reported' = {m \in Members : outcomes[m] \in {"invalid", "mapping_gap"}}
            /\ Ends(CompletionStatus)
    /\ UNCHANGED <<gaps, late, closed, journal, prepared, accepted, verdict, attempts, outcomes, counts>>

-----------------------------------------------------------------------------
(* Around it.                                                              *)

\* The Source normalizes a body: a bar that contradicts itself is rejected.
NormalizeBody(m) ==
    /\ verdict[m] = "queued"
    /\ \E s \in accepted[m] :
          verdict' = [verdict EXCEPT ![m] = IF s.native[m] = "crossed" THEN "invalid" ELSE "data"]
    /\ UNCHANGED <<gaps, late, closed, journal, prepared, accepted, reported, attempts, pc, op,
                   deferring, granted, answer, outcomes, ended, counts>>

WindowEnds ==
    /\ ~late /\ late' = TRUE
    /\ UNCHANGED <<gaps, closed, journal, prepared, source, attempts, pc, op, deferring, granted,
                   answer, outcomes, ended, counts>>

CalendarCloses ==
    /\ ~closed /\ closed' = TRUE
    /\ UNCHANGED <<gaps, late, journal, prepared, source, attempts, pc, op, deferring, granted,
                   answer, outcomes, ended, counts>>

FactSetDies ==
    /\ pc # "idle" /\ crashes < MaxCrashes
    /\ crashes' = crashes + 1
    /\ Deferred
    /\ UNCHANGED <<gaps, late, closed, journal, prepared, source, attempts, outcomes, clock, queries,
                   misses>>

FactSetNext ==
    \/ BeginFactSet \/ ReplaySaved \/ ReserveAttempt
    \/ Authorize \/ \E waits \in BOOLEAN : NotAuthorized(waits)
    \/ \E retryable \in BOOLEAN : QueryFails(retryable)
    \/ \E native \in Natives : QueryAnswers(native)
    \/ ReplayPrices \/ KeepSnapshot
    \/ \E result \in {"stored", "retryable", "refused"} : PersistRaw(result)
    \/ NoBody \/ PrepareMember
    \/ \E result \in {"receipt", "lost", "refused"} : DeliverBody(result)
    \/ RunStatus \/ FinishPlan
    \/ \E m \in Members : NormalizeBody(m)
    \/ WindowEnds \/ CalendarCloses \/ FactSetDies

-----------------------------------------------------------------------------
(* Properties.                                                             *)

FactSetTypeOK ==
    /\ gaps \subseteq Members
    /\ {late, closed, observed, raw, deferring} \subseteq BOOLEAN
    /\ Cardinality(snapshot) <= 1 /\ prices \subseteq Natives
    /\ attempts \in [Operations -> 0 .. MaxAttempts]
    /\ pc \in {"idle", "reserve", "act", "acquired", "members", "status"}
    /\ op \in Operations \cup {"none"} /\ granted \in 0 .. 2
    /\ ended \in {"none", "repair", "failed", "completed", "partial"}
    /\ receipt \subseteq Members /\ reported \subseteq Members

\* FactSet is reached at most MaxAttempts times for a day, answers before
\* publication aside, over suspensions, lost answers and lost processes: the
\* journal's budget accounts for every such query.
QueriesBounded == queries - misses <= attempts["snapshot"] /\ attempts["snapshot"] <= MaxAttempts

\* Every body of every member is of one answer and one time, although FactSet
\* is asked again after losses, and one that lacks listings was not taken
\* before the window was over.
OneSnapshot ==
    /\ Cardinality(UNION {prepared[m] \cup accepted[m] : m \in Members}) <= 1
    /\ \A m \in Members : \A s \in accepted[m] :
          s \in snapshot /\ (PriceScopeComplete(s.native) \/ s.late)

\* A day that reads completed has good data of all members at the Source, and
\* a partial one reports every member whose data was unusable.
CompletionTrue ==
    /\ ended = "completed" => \A m \in Members : accepted[m] # {} /\ verdict[m] = "data"
    /\ ended = "partial" => \A m \in Members \ reported :
                               verdict[m] = "data" \/ Frozen.native[m] = "none"
=============================================================================
