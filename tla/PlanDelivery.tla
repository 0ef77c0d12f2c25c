---------------------------- MODULE PlanDelivery ----------------------------
(***************************************************************************)
(* What the backend knows about the members of one frozen plan: the runs   *)
(* delivered for its parts and the rows they really wrote                  *)
(* (delivery_evidence.py), the outcomes the fetcher reported and the       *)
(* approved mapping repairs (full_market.py, shioaji_repair.py), the       *)
(* complete groups of sequenced minute deliveries (sequenced_snapshots.py),*)
(* the stored summary every writer refreshes in its own transaction        *)
(* (delivery_plan_summary.py) and the proof that ends an EOD work          *)
(* (eod_completion.py).                                                    *)
(*                                                                         *)
(* A transaction of a writer changes one thing, locks the plan row,        *)
(* reconciles and commits; another writer's changes are visible once       *)
(* committed.  The canonical rows of a run that still carry its identity   *)
(* are a part of its evidence and are not kept apart.                      *)
(***************************************************************************)
EXTENDS Integers, Sequences, FiniteSets

CONSTANTS PlanMembers,
          Gaps,          \* members frozen with mapping_status "gap"
          Runs,          \* deliveries that may be made
          Carries,       \* the members each run's payload has
          SequenceOf,    \* its sequence in its group, 0 when not sequenced
          SequenceCount, \* sequence_count of the group
          Historical,    \* runs of a historical work whose manifest maps them
          Writers,
          PlanFeeds,     \* instances: [kind : {"eod", "minute"}, runs, ops : those made]
          MaxOutcomes    \* bound on outcomes recorded

Operations == {"accept", "process", "retry", "fail", "complete", "outcome", "repair", "backfill"}

ASSUME PlanAssumption ==
    /\ Gaps \subseteq PlanMembers /\ Historical \subseteq Runs
    /\ Carries \in [Runs -> SUBSET PlanMembers]
    /\ SequenceCount \in Nat /\ SequenceOf \in [Runs -> Nat]
    /\ MaxOutcomes \in Nat
    /\ PlanFeeds \subseteq [kind : {"eod", "minute"}, runs : SUBSET Runs, ops : SUBSET Operations]

VARIABLES
    feed,       \* which dataset the plan is for
    plan,       \* the committed rows: see DeliveryTypeOK
    summary,    \* daily_delivery_plan_summary, <<>> without a row
    settled,    \* how the EOD work ended
    writer,     \* the open transaction of each writer
    outcomes    \* outcomes recorded so far

deliveryVars == <<feed, plan, summary, settled, writer, outcomes>>

NoWriter == [op |-> "none", arg |-> <<>>, locked |-> FALSE, counted |-> <<>>]
Ended == {"completed", "completed_with_errors"}
Unwritten == [r \in Runs |-> {}]

\* What became of a member, and where it has been settled.
PlanCounts == [data : SUBSET PlanMembers, no_data : SUBSET PlanMembers,
               blocked : SUBSET PlanMembers, missing : SUBSET PlanMembers, latest : Runs \cup {"none"}]

DeliveryTypeOK ==
    /\ feed \in PlanFeeds
    /\ plan \in [status : [Runs -> {"none", "queued", "processing", "failed"} \cup Ended],
                 wrote : [Runs -> SUBSET PlanMembers],
                 created : Seq(Runs),
                 outcome : [PlanMembers -> {"none", "no_data", "blocked", "mapping_gap"}],
                 repaired : SUBSET Gaps]
    /\ summary # <<>> => summary[1] \in PlanCounts
    /\ settled \in {"none", "completed", "partial"}

DeliveryInit ==
    /\ feed \in PlanFeeds /\ settled = "none" /\ outcomes = 0
    /\ plan = [status |-> [r \in Runs |-> "none"], wrote |-> Unwritten, created |-> <<>>,
               outcome |-> [m \in PlanMembers |-> "none"], repaired |-> {}]
    /\ summary = <<>>          \* a plan of before the summaries
    /\ writer = [w \in Writers |-> NoWriter]

---------------------------------------------------------------------------
(* Reading: reconcile_plan() and what it is made of.                       *)

Created(p) == {p.created[k] : k \in DOMAIN p.created}
Before(p, r, q) == \E i, j \in DOMAIN p.created : i < j /\ p.created[i] = r /\ p.created[j] = q

\* list_sequenced_snapshot_groups(): only the latest attempt of a sequence
\* counts, and every sequence must be there and clean.
GroupComplete(p) ==
    \A n \in 1 .. SequenceCount :
       \E r \in Created(p) :
          /\ SequenceOf[r] = n /\ p.status[r] = "completed"
          /\ \A q \in Created(p) : SequenceOf[q] = n /\ q # r => Before(p, q, r)

\* The members with data: evidence of ended runs of the parts, of complete
\* groups for minute data; FactSet historical runs repair mapped members.
CanonicalKeys(p) ==
    {m \in PlanMembers : \E r \in Created(p) :
        /\ p.status[r] \in Ended /\ m \in p.wrote[r]
        /\ feed.kind = "minute" => GroupComplete(p)
        /\ r \in Historical => m \notin Gaps}

Blocked(p, m) ==
    \/ p.outcome[m] = "blocked"
    \/ p.outcome[m] = "mapping_gap" /\ m \notin p.repaired
    \/ m \in Gaps /\ m \notin p.repaired

Reconcile(p) ==
    LET data == CanonicalKeys(p)
        noData == {m \in PlanMembers : p.outcome[m] = "no_data"} \ data
        blocked == {m \in PlanMembers : Blocked(p, m)} \ (data \cup noData)
    IN [data |-> data, no_data |-> noData, blocked |-> blocked,
        missing |-> PlanMembers \ (data \cup noData \cup blocked),
        latest |-> IF p.created = <<>> THEN "none" ELSE p.created[Len(p.created)]]

---------------------------------------------------------------------------
(* Writing: what an operation makes of the committed rows.                 *)

\* validate_ingest_part(): members of the part only, no unrepaired gap.
PartAccepts(p, r) == r \in Historical \/ Carries[r] \cap Gaps \subseteq p.repaired

\* record_outcome(): no_data needs a mapping and is immutable.
OutcomeAllowed(p, m, o) ==
    /\ o = "no_data" => m \notin Gaps \/ m \in p.repaired
    /\ p.outcome[m] \notin {o, "no_data"}

\* shioaji_repair.preview(): an unresolved gap that nothing was prepared for.
MayRepair(p, m) ==
    /\ m \in Gaps \ p.repaired
    /\ m \in Reconcile(p).blocked \cup Reconcile(p).missing
    /\ \A r \in Created(p) : m \notin Carries[r]

Allowed(p, op, a) ==
    CASE op = "accept" -> p.status[a[1]] = "none" /\ PartAccepts(p, a[1])
      [] op = "process" -> p.status[a[1]] = "queued"
      [] op \in {"retry", "fail"} -> p.status[a[1]] = "processing"
      [] op = "complete" -> p.status[a[1]] = "processing"
      [] op = "outcome" -> OutcomeAllowed(p, a[1], a[2])
      [] op = "repair" -> MayRepair(p, a[1])
      [] op = "backfill" -> TRUE

Effect(p, op, a) ==
    CASE op = "accept" -> [p EXCEPT !.status[a[1]] = "queued", !.created = Append(@, a[1])]
      [] op = "process" -> [p EXCEPT !.status[a[1]] = "processing"]
      [] op = "retry" -> [p EXCEPT !.status[a[1]] = "queued"]
      [] op = "fail" -> [p EXCEPT !.status[a[1]] = "failed"]
      [] op = "complete" -> [p EXCEPT !.status[a[1]] = a[2], !.wrote[a[1]] = a[3]]
      [] op = "outcome" -> [p EXCEPT !.outcome[a[1]] = a[2]]
      [] op = "repair" -> [p EXCEPT !.repaired = @ \cup {a[1]}]
      [] op = "backfill" -> p

\* update_run_status() and record_delivery_evidence(): a clean run wrote all
\* it carries, one with errors may have written any part of it.
Endings(r) == {<<r, "completed", Carries[r]>>}
                 \cup {<<r, "completed_with_errors", k>> : k \in SUBSET Carries[r]}

Arguments(runs, op) ==
    CASE op = "complete" -> UNION {Endings(r) : r \in runs}
      [] op = "outcome" -> PlanMembers \X {"no_data", "blocked", "mapping_gap"}
      [] op = "repair" -> {<<m>> : m \in PlanMembers}
      [] op = "backfill" -> {<<>>}
      [] OTHER -> {<<r>> : r \in runs}

\* Two operations wait for each other at the row they lock first: the run, the
\* member's outcome or the provider's owner row.
RunOperations == {"accept", "process", "retry", "fail", "complete"}
SameRow(op, a, other, b) ==
    \/ op \in RunOperations /\ other \in RunOperations /\ a[1] = b[1]
    \/ op = "outcome" /\ other = "outcome" /\ a[1] = b[1]
    \/ op = "repair" /\ other = "repair"

BeginWrite(w) ==
    /\ writer[w].op = "none" /\ settled = "none"
    /\ \E op \in feed.ops : \E a \in Arguments(feed.runs, op) :
         /\ Allowed(plan, op, a)
         /\ op = "outcome" => outcomes < MaxOutcomes
         /\ \A v \in Writers : ~SameRow(op, a, writer[v].op, writer[v].arg)
         \* backfill_missing_summaries(): FOR UPDATE SKIP LOCKED
         /\ op = "backfill" => summary = <<>> /\ \A v \in Writers : ~writer[v].locked
         /\ writer' = [writer EXCEPT ![w] = [op |-> op, arg |-> a, locked |-> (op = "backfill"),
                                             counted |-> <<>>]]
         /\ outcomes' = IF op = "outcome" THEN outcomes + 1 ELSE outcomes
    /\ UNCHANGED <<feed, plan, summary, settled>>

\* refresh_plan_summary(): the plan row, ...
LockPlan(w) ==
    /\ writer[w].op # "none" /\ ~writer[w].locked
    /\ \A v \in Writers : ~writer[v].locked
    /\ writer' = [writer EXCEPT ![w].locked = TRUE]
    /\ UNCHANGED <<feed, plan, summary, settled, outcomes>>

\* Faulty variant of MayReconcile: the summary is computed before the plan is
\* locked.
MayReconcileEarly(w) == writer[w].counted = <<>>

MayReconcile(w) == writer[w].locked /\ writer[w].counted = <<>>

\* ... then what is committed and this writer's own change, ...
ReconcilePlan(w) ==
    /\ writer[w].op # "none" /\ MayReconcile(w)
    /\ writer' = [writer EXCEPT ![w].counted =
                    <<Reconcile(Effect(plan, writer[w].op, writer[w].arg))>>]
    /\ UNCHANGED <<feed, plan, summary, settled, outcomes>>

\* ... and both become visible at the commit, which frees the locks.
CommitWrite(w) ==
    /\ writer[w].locked /\ writer[w].counted # <<>>
    /\ plan' = Effect(plan, writer[w].op, writer[w].arg)
    /\ summary' = writer[w].counted
    /\ writer' = [writer EXCEPT ![w] = NoWriter]
    /\ UNCHANGED <<feed, settled, outcomes>>

RollbackWrite(w) ==
    /\ writer[w].op # "none" /\ writer' = [writer EXCEPT ![w] = NoWriter]
    /\ UNCHANGED <<feed, plan, summary, settled, outcomes>>

---------------------------------------------------------------------------
(* The end of an EOD work.                                                 *)

Claims == {"data", "no_data", "mapping_gap", "invalid", "missing"}

\* validate_eod_completion(): every member's claim against what the work's own
\* runs wrote, the recorded outcomes and the frozen mapping; invalid and
\* missing rows come with raw evidence.
Proven(p, m, c) ==
    LET wrote == \E r \in Created(p) \ Historical : m \in p.wrote[r] IN
    CASE c = "data" -> wrote
      [] c = "no_data" -> ~wrote /\ p.outcome[m] = "no_data"
      [] c = "mapping_gap" -> ~wrote /\ m \in Gaps
      [] OTHER -> ~wrote

SettleWork ==
    /\ feed.kind = "eod" /\ settled = "none" /\ \A w \in Writers : writer[w].op = "none"
    /\ \A r \in Created(plan) \ Historical : plan.status[r] \in Ended
    /\ \E claim \in [PlanMembers -> Claims] :
         /\ \A m \in PlanMembers : Proven(plan, m, claim[m])
         /\ settled' = IF \E m \in PlanMembers : claim[m] \in {"mapping_gap", "invalid", "missing"}
                       THEN "partial" ELSE "completed"
    /\ UNCHANGED <<feed, plan, summary, writer, outcomes>>

DeliveryNext ==
    \/ \E w \in Writers : \/ BeginWrite(w) \/ LockPlan(w) \/ ReconcilePlan(w)
                          \/ CommitWrite(w) \/ RollbackWrite(w)
    \/ SettleWork

DeliverySpec == DeliveryInit /\ [][DeliveryNext]_deliveryVars

---------------------------------------------------------------------------
(* Properties. *)

\* The stored summary is what the committed runs, evidence, outcomes and
\* repairs say, at every moment, for every interleaving of workers, reports,
\* repairs and the backfill (refresh_plan_summary: flush, lock, reconcile,
\* commit together).
SummaryTrue == summary # <<>> => summary[1] = Reconcile(plan)

\* A minute member counts as delivered only while the newest attempt of every
\* sequence of its group has completed: "an old completed attempt cannot hide
\* a later failed attempt".
OldAttemptHidesNothing ==
    feed.kind = "minute" /\ summary # <<>> /\ summary[1].data # {} =>
       \A n \in 1 .. SequenceCount :
          LET tries == {k \in DOMAIN plan.created : SequenceOf[plan.created[k]] = n}
          IN tries # {} /\ plan.status[plan.created[CHOOSE k \in tries : \A j \in tries : j <= k]]
                              = "completed"

\* A work that ended as completed leaves no member of its plan missing or
\* blocked: the proof of the work and the reconciliation of the plan, made
\* from different tables, agree.
CompletedIsComplete ==
    settled = "completed" => Reconcile(plan).missing = {} /\ Reconcile(plan).blocked = {}

\* A plan's summary tells what its deliveries are, whatever order outcomes,
\* repairs and late attempts commit in.
SummariesTrue == SummaryTrue /\ OldAttemptHidesNothing /\ CompletedIsComplete
=============================================================================
