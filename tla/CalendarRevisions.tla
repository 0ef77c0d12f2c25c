-------------------------- MODULE CalendarRevisions --------------------------
(***************************************************************************)
(* The managed trading calendar of one market and one year                 *)
(* (backend/app/services/calendar_management.py, effective_calendar.py).   *)
(* A revision is a whole year of days and is never edited: every change is *)
(* a new revision.  The operators below say what each operation writes,    *)
(* given the revisions it read; DailyPlans.tla runs them as transactions.  *)
(*                                                                         *)
(* The year is the set TradeDays.  An import is either the whole year or a set  *)
(* of exceptions laid over the weekday default, so every revision is       *)
(* complete; texts, session hours and the CSV encodings are left out.      *)
(***************************************************************************)
EXTENDS Integers, Sequences

CONSTANTS TradeDays,          \* the dates of the year
          DayStatuses,   \* "open", "closed", "settlement_only"
          Weekend,       \* the days closed by weekend_days
          MaxRevisions   \* bound of the model

VARIABLES revisions,   \* calendar_year_revision in order, with its days
          batch        \* the import preview: status, base revision, rows

YearDays == [TradeDays -> DayStatuses]
NoBatch == [status |-> "none", base |-> 0, rows |-> [d \in TradeDays |-> "open"]]

RevisionRows == [status : {"draft", "published", "superseded"}, days : YearDays]
Revisions == Seq(RevisionRows)

CalendarTypeOK ==
    /\ revisions \in Revisions
    /\ Len(revisions) <= MaxRevisions
    /\ batch \in [status : {"none", "previewed", "applied", "expired"},
                  base : 0 .. MaxRevisions, rows : YearDays]

CalendarInit == revisions = <<>> /\ batch = NoBatch

\* _all_days(): what a year is before anyone edits it.
AllDays == [d \in TradeDays |-> IF d \in Weekend THEN "closed" ELSE "open"]

\* _apply_rows(): the given days over the default; a full year gives them all.
ApplyRows(rows) == [d \in TradeDays |-> IF d \in DOMAIN rows THEN rows[d] ELSE AllDays[d]]

LatestRevision(revs) == Len(revs)
PublishedRevisions(revs) == {i \in DOMAIN revs : revs[i].status = "published"}

\* effective_days(): published days over the weekday default.
IsOpen(revs, d) ==
    IF PublishedRevisions(revs) = {} THEN AllDays[d] = "open"
    ELSE revs[CHOOSE i \in PublishedRevisions(revs) : TRUE].days[d] = "open"

Draft(days) == [status |-> "draft", days |-> days]

\* publish_revision() and rollback_revision() retire what was published.
Supersede(revs) ==
    [i \in DOMAIN revs |-> IF revs[i].status = "published"
                           THEN [revs[i] EXCEPT !.status = "superseded"] ELSE revs[i]]

---------------------------------------------------------------------------
(* The operations.  expected is the revision number the operator saw, seen *)
(* the revisions read under the market lock.                               *)

\* create_preview() takes no lock.
CreatePreview(seen, rows) ==
    /\ batch' = [status |-> "previewed", base |-> LatestRevision(seen),
                 rows |-> ApplyRows(rows)]
    /\ UNCHANGED revisions

PreviewExpires ==
    /\ batch.status = "previewed"
    /\ batch' = [batch EXCEPT !.status = "expired"]
    /\ UNCHANGED revisions

CanApplyPreview(seen, expected) ==
    /\ batch.status = "previewed"
    /\ expected = batch.base /\ LatestRevision(seen) = expected

\* apply_preview(); an applied batch is answered from the revision it made.
ApplyPreview(seen, expected) ==
    IF CanApplyPreview(seen, expected)
    THEN /\ revisions' = Append(revisions, Draft(batch.rows))
         /\ batch' = [batch EXCEPT !.status = "applied"]
    ELSE UNCHANGED <<revisions, batch>>

\* clone_with_day_change(): the latest revision, or the default year.
CloneWithDayChange(seen, expected, d, status) ==
    /\ IF LatestRevision(seen) = expected
       THEN LET base == IF expected = 0 THEN AllDays ELSE seen[expected].days
            IN revisions' = Append(revisions, Draft([base EXCEPT ![d] = status]))
       ELSE UNCHANGED revisions
    /\ UNCHANGED batch

CanPublish(seen, expected) ==
    /\ expected # 0 /\ LatestRevision(seen) = expected
    /\ seen[expected].status = "draft"

PublishRevision(seen, expected) ==
    /\ revisions' = IF CanPublish(seen, expected)
                    THEN [Supersede(revisions) EXCEPT ![expected].status = "published"]
                    ELSE revisions
    /\ UNCHANGED batch

\* rollback_revision(): a superseded year comes back as the highest revision.
RollbackRevision(seen, expected, target) ==
    /\ revisions' = IF /\ expected # 0 /\ LatestRevision(seen) = expected
                       /\ target \in DOMAIN seen /\ target < expected
                       /\ seen[target].status = "superseded"
                    THEN Append(Supersede(revisions),
                                [status |-> "published", days |-> seen[target].days])
                    ELSE revisions
    /\ UNCHANGED batch

---------------------------------------------------------------------------
(* Properties. *)

\* At any time at most one revision of a year is published and no retired one
\* is newer, however previews, edits, publications and rollbacks of several
\* operators interleave: effective_days() never meets two answers for a day,
\* and never falls back to a calendar that was already replaced.
NewestPublicationRules ==
    \A i, j \in DOMAIN revisions :
       revisions[i].status = "published" /\ revisions[j].status # "draft" => j <= i
=============================================================================
