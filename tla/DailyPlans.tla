----------------------------- MODULE DailyPlans -----------------------------
(***************************************************************************)
(* How the backend decides what a provider must deliver for a trade date:  *)
(* governed universe releases (backend/app/services/full_market.py), the   *)
(* admission of a scheduler (full_market_admission.py, scheduler_control.py,*)
(* scheduler_start.py, hk_provider_cutover.py), the trading calendar       *)
(* (CalendarRevisions.tla) and the one frozen decision per trade date made *)
(* from all of them by create_plan().                                      *)
(*                                                                         *)
(* One dataset, one provider, one execution profile.  An operation is a    *)
(* database transaction of a session: it acquires its row locks one by one *)
(* in the order of the code, reads what it needs, and commits.  What it    *)
(* read may be stale when it commits, unless a lock it holds prevents it.  *)
(* A universe is its set of contracts; for an equity dataset a member is   *)
(* just an identity.                                                       *)
(***************************************************************************)
EXTENDS CalendarRevisions, FiniteSets

CONSTANTS PlanSessions,
          Universes,      \* contents a catalogue can be submitted with
          MaxChange,      \* UNIVERSE_AUTO_PUBLISH_MAX_CHANGE_RATIO, percent
          Menus,          \* what a bounded instance explores: see PlansInit
          MaxReleases, MaxControl   \* bounds of the model

Nil == "none"

PlanOps == {"submit", "publish", "reconcile", "start", "stop", "environment", "cutover",
            "plan", "revoke", "preview", "apply", "edit", "calendar", "rollback"}

\* The dates are numbered from 1; a menu names sessions and operations there are.
ASSUME PlansAssumption ==
    /\ TradeDays \subseteq Nat /\ \E n \in TradeDays : TradeDays = 1 .. n
    /\ {"open", "closed"} \subseteq DayStatuses /\ MaxRevisions \in Nat
    /\ \A m \in Menus : m.sessions \subseteq PlanSessions /\ m.ops \subseteq PlanOps

VARIABLES
    menu,        \* the operations of this instance, its dataset and profile
    today,       \* the exchange's date
    releases,    \* universe_release in order of creation
    scheduler,   \* scheduler_control: desired state and revision
    admitted,    \* the latest full_market_admission exists
    firstStart,  \* full_market_dataset_state.first_start_date, 0 before
    setting,     \* FULL_MARKET_ENABLED
    fullMarket,  \* full_market_environment.enabled
    cutover,     \* hk_provider_cutover.effective_date, 0 before
    credential,  \* the Source credential is valid for the provider
    decision,    \* daily_execution_decision by trade date
    tx,          \* the transaction of each session
    begun        \* transactions begun so far, at most menu.limit

catalogue == <<releases, scheduler, admitted, firstStart, fullMarket, cutover, credential,
               decision>>
plansVars == <<menu, today, setting, catalogue, revisions, batch, tx, begun>>

NoTx == [op |-> Nil, held |-> 0, arg |-> <<>>, seen |-> <<>>]

---------------------------------------------------------------------------
(* Universe releases.                                                      *)

Published(rs) == {i \in DOMAIN rs : rs[i].status = "published"}

\* The release in force on a date: newest effective date, then newest row.
Newest(rs, S) ==
    CHOOSE i \in S : \A j \in S : \/ rs[j].date < rs[i].date
                                  \/ rs[j].date = rs[i].date /\ j <= i
Latest(rs, d) ==
    LET S == {i \in Published(rs) : rs[i].date <= d}
    IN IF S = {} THEN 0 ELSE Newest(rs, S)

\* submit_universe() judges a change against the newest release on or before
\* its date; only a date before every release falls back to the newest.
Prior(rs, d) ==
    IF Latest(rs, d) # 0 THEN Latest(rs, d)
    ELSE IF Published(rs) = {} THEN 0 ELSE Newest(rs, Published(rs))

WithinLimit(old, new) ==
    100 * Cardinality((old \ new) \cup (new \ old)) <= MaxChange * Cardinality(old)

MonthsOf(u, p, weekly) == {c.month : c \in {k \in u : k.product = p /\ k.weekly = weekly}}
SessionsOf(u, p, weekly, m) ==
    {c.session : c \in {k \in u : k.product = p /\ k.weekly = weekly /\ k.month = m}}
ProductsOf(u) == {c.product : c \in u}

\* _taifex_dated_roll_is_safe(): at most one contract of each cycle leaves and
\* one enters, later than the one that left; nothing already expired.
DatedRollIsSafe(old, new, month) ==
    /\ ProductsOf(old) = ProductsOf(new)
    /\ \A p \in ProductsOf(new), w \in BOOLEAN :
         LET was == MonthsOf(old, p, w)   is == MonthsOf(new, p, w)
             added == is \ was            removed == was \ is
         IN /\ \A m \in is : m >= month
            /\ \A m \in is \cap was : SessionsOf(old, p, w, m) \subseteq SessionsOf(new, p, w, m)
            /\ Cardinality(added) <= 1 /\ Cardinality(removed) <= 1
            /\ \A a \in added, r \in removed : a > r

AutoPublished(rs, d, u) ==
    LET p == Prior(rs, d) IN
    /\ p # 0
    /\ \/ menu.dataset = "taifex" /\ DatedRollIsSafe(rs[p].members, u, d)
       \/ WithinLimit(rs[p].members, u)

\* submit_universe(): the same membership of a date is answered with the row
\* that exists, whatever has been published since.
SubmitUniverse(rs, d, u) ==
    releases' =
      IF \E i \in DOMAIN rs : rs[i].date = d /\ rs[i].members = u
      THEN releases
      ELSE Append(releases,
             [date |-> d, members |-> u, approved |-> Nil,
              status |-> IF AutoPublished(rs, d, u) THEN "published" ELSE "candidate",
              small |-> Prior(rs, d) # 0 /\ WithinLimit(rs[Prior(rs, d)].members, u)])

\* publish_universe(): the stored change ratio decides, not a new comparison.
CanPublishRelease(rs, i, approval) ==
    /\ i \in DOMAIN rs /\ rs[i].status = "candidate"
    /\ (Published(rs) = {}) = (approval = "baseline")
    /\ Published(rs) # {} /\ ~rs[i].small => approval = "exception"

PublishUniverse(rs, i, approval) ==
    releases' = IF CanPublishRelease(rs, i, approval)
                THEN [releases EXCEPT ![i].status = "published", ![i].approved = approval]
                ELSE releases

\* reconcile_taifex_rollover_candidates(apply=True) at one date: the newest
\* candidate, unless the date is published, against what is published before.
RolledOver(rs, d) ==
    LET waiting == {i \in DOMAIN rs : rs[i].date = d /\ rs[i].status = "candidate"}
        exact == {i \in Published(rs) : rs[i].date = d}
        prior == Latest(rs, d - 1)
    IN IF waiting = {} \/ exact # {} \/ prior = 0 THEN rs
       ELSE LET i == Newest(rs, waiting)
            IN IF DatedRollIsSafe(rs[prior].members, rs[i].members, d)
               THEN [rs EXCEPT ![i].status = "published"] ELSE rs

---------------------------------------------------------------------------
(* Admission.                                                              *)

\* acquisition_allowed(): HK is acquired from its cutover date on.
AcquisitionAllowed(f, d) ==
    menu.dataset = "hk" => f.cutover # 0 /\ today >= f.cutover /\ d >= f.cutover

\* eligibility(): a published baseline for today, and the cutover.
Eligibility(f) == AcquisitionAllowed(f, today) /\ Latest(f.releases, today) # 0

\* admission_projection(source=True).
AcquisitionAdmitted(f) ==
    /\ f.control.desired = "running" /\ f.admission
    /\ Eligibility(f) /\ f.client
    /\ menu.profile = "full_market" => setting /\ f.enabled

\* update_scheduler_desired_state(): optimistic revision, start blockers, and
\* freeze_admission() with the first start date.
StartScheduler(f, expected) ==
    IF /\ f.control.revision = expected /\ f.control.desired = "stopped" /\ Eligibility(f)
    THEN /\ scheduler' = [desired |-> "running", revision |-> scheduler.revision + 1]
         /\ admitted' = TRUE
         /\ firstStart' = IF f.firstStart = 0 THEN today ELSE firstStart
    ELSE UNCHANGED <<scheduler, admitted, firstStart>>

StopScheduler(f, expected) ==
    scheduler' = IF f.control.revision = expected /\ f.control.desired = "running"
                 THEN [desired |-> "stopped", revision |-> scheduler.revision + 1]
                 ELSE scheduler

\* reconcile_environment(): a disabled flag stops a running full market.
ReconcileEnvironment ==
    /\ fullMarket' = setting
    /\ scheduler' = IF /\ ~setting /\ menu.profile = "full_market"
                       /\ scheduler.desired = "running"
                    THEN [desired |-> "stopped", revision |-> scheduler.revision + 1]
                    ELSE scheduler

\* apply_cutover(): once, on the day itself, with everything stopped.
ApplyCutover(f) ==
    cutover' = IF /\ f.cutover = 0 /\ f.control.desired = "stopped"
                  /\ Latest(f.releases, today) # 0
               THEN today ELSE cutover

---------------------------------------------------------------------------
(* The decision.                                                           *)

\* create_plan() after its locks: the conditions in their order, then the
\* calendar's skip or the plan.
Decide(f, d, i) ==
    LET open == IsOpen(f.revisions, d)
        kind == IF menu.skip /\ ~open THEN "skipped" ELSE "planned"
        exact == menu.dataset = "taifex" => f.releases[i].date = d
    IN decision' =
         IF /\ AcquisitionAdmitted(f) /\ f.firstStart # 0
            /\ AcquisitionAllowed(f, d)
            /\ d >= f.firstStart /\ d <= today
            /\ i \in Published(f.releases) /\ i = Latest(f.releases, d)
            /\ kind = "planned" => exact
         THEN [decision EXCEPT ![d] = [kind |-> kind, release |-> i, open |-> open]]
         ELSE decision

---------------------------------------------------------------------------
(* Transactions.                                                           *)

\* Faulty variant of Locks: a start locks the dataset before the environment.
LocksReordered(op) ==
    CASE op = "plan" -> <<"environment", "dataset", "market", "client", "control">>
      [] op = "start" -> <<"owner", "dataset", "environment", "market", "control">>
      [] op \in {"stop", "environment"} -> <<"owner", "environment", "control">>
      [] op = "cutover" -> <<"owner", "environment", "dataset", "control">>
      [] op \in {"submit", "publish", "reconcile"} -> <<"dataset">>
      [] op = "revoke" -> <<"client">>
      [] op = "apply" -> <<"batch", "market">>
      [] op \in {"edit", "calendar", "rollback"} -> <<"market">>
      [] OTHER -> <<>>

\* The rows each operation locks, in order.
Locks(op) ==
    CASE op = "plan" -> <<"environment", "dataset", "market", "client", "control">>
      [] op = "start" -> <<"owner", "environment", "dataset", "market", "control">>
      [] op \in {"stop", "environment"} -> <<"owner", "environment", "control">>
      [] op = "cutover" -> <<"owner", "environment", "dataset", "control">>
      [] op \in {"submit", "publish", "reconcile"} -> <<"dataset">>
      [] op = "revoke" -> <<"client">>
      [] op = "apply" -> <<"batch", "market">>
      [] op \in {"edit", "calendar", "rollback"} -> <<"market">>
      [] OTHER -> <<>>

Held(s) == {Locks(tx[s].op)[k] : k \in 1 .. tx[s].held}
FullyLocked(s) == tx[s].held = Len(Locks(tx[s].op))
NextLock(s) == Locks(tx[s].op)[tx[s].held + 1]
WaitsFor(s, r) == /\ tx[s].op # Nil /\ ~FullyLocked(s) /\ s # r /\ NextLock(s) \in Held(r)

\* What an operator asks for; revision numbers are the ones on the screen.
Asked(op) ==
    CASE op = "submit" -> IF Len(releases) < MaxReleases THEN TradeDays \X Universes ELSE {}
      [] op = "publish" -> (DOMAIN releases) \X {"baseline", "exception", "plain"}
      [] op = "plan" -> {d \in TradeDays : decision[d].kind = Nil} \X (DOMAIN releases)
      [] op \in {"start", "stop"} ->
           IF scheduler.revision < MaxControl THEN {<<scheduler.revision>>} ELSE {}
      [] op = "environment" -> IF scheduler.revision < MaxControl THEN {<<0>>} ELSE {}
      [] op = "preview" -> {<<r>> : r \in YearDays}
      [] op \in {"apply", "calendar"} -> {<<Len(revisions)>>}
      [] op = "edit" -> {Len(revisions)} \X TradeDays \X DayStatuses
      [] op = "rollback" -> {Len(revisions)} \X (DOMAIN revisions)
      [] OTHER -> {<<0>>}

Growing == {"apply", "edit", "rollback"}

Begin(s) ==
    /\ tx[s].op = Nil /\ begun < menu.limit /\ begun' = begun + 1
    /\ \E op \in menu.ops : \E arg \in Asked(op) :
         /\ op \in Growing => Len(revisions) < MaxRevisions
         /\ tx' = [tx EXCEPT ![s] = [op |-> op, held |-> 0, arg |-> arg, seen |-> <<>>]]
    /\ UNCHANGED <<menu, today, setting, catalogue, revisions, batch>>

Acquire(s) ==
    /\ tx[s].op # Nil /\ ~FullyLocked(s)
    /\ \A r \in PlanSessions : ~WaitsFor(s, r)
    /\ tx' = [tx EXCEPT ![s].held = @ + 1]
    /\ UNCHANGED <<menu, today, setting, catalogue, revisions, batch, begun>>

\* create_plan() finds the decision under the environment and dataset locks.
AlreadyDecided(s) ==
    /\ tx[s].op = "plan" /\ {"environment", "dataset"} \subseteq Held(s)
    /\ tx[s].seen = <<>> /\ decision[tx[s].arg[1]].kind # Nil
    /\ tx' = [tx EXCEPT ![s] = NoTx]
    /\ UNCHANGED <<menu, today, setting, catalogue, revisions, batch, begun>>

Facts == [releases |-> releases, revisions |-> revisions, control |-> scheduler,
          admission |-> admitted, firstStart |-> firstStart, enabled |-> fullMarket,
          cutover |-> cutover, client |-> credential]

ReadFacts(s) ==
    /\ tx[s].op # Nil /\ FullyLocked(s) /\ tx[s].seen = <<>>
    /\ tx[s].op = "plan" => decision[tx[s].arg[1]].kind = Nil
    /\ tx' = [tx EXCEPT ![s].seen = <<Facts>>]
    /\ UNCHANGED <<menu, today, setting, catalogue, revisions, batch, begun>>

CalendarEffect(op, f, a) ==
    CASE op = "preview" -> CreatePreview(f.revisions, a[1])
      [] op = "apply" -> ApplyPreview(f.revisions, a[1])
      [] op = "edit" -> CloneWithDayChange(f.revisions, a[1], a[2], a[3])
      [] op = "calendar" -> PublishRevision(f.revisions, a[1])
      [] op = "rollback" -> RollbackRevision(f.revisions, a[1], a[2])
      [] OTHER -> UNCHANGED <<revisions, batch>>

\* The dates in order; what a date publishes is flushed, so that the next one
\* compares with it, and seen by the others when the transaction commits.
ReconcileDate(s) ==
    /\ tx[s].op = "reconcile" /\ tx[s].seen # <<>> /\ tx[s].arg[1] + 1 \in TradeDays
    /\ LET f == tx[s].seen[1]   d == tx[s].arg[1] + 1 IN
       tx' = [tx EXCEPT ![s] = [op |-> tx[s].op, held |-> tx[s].held, arg |-> <<d>>,
                                seen |-> <<[f EXCEPT !.releases = RolledOver(@, d)]>>]]
    /\ UNCHANGED <<menu, today, setting, catalogue, revisions, batch, begun>>

Commit(s) ==
    /\ tx[s].seen # <<>>
    /\ tx[s].op = "reconcile" => tx[s].arg[1] + 1 \notin TradeDays
    /\ LET f == tx[s].seen[1]   a == tx[s].arg   op == tx[s].op IN
       /\ CASE op = "submit" -> SubmitUniverse(f.releases, a[1], a[2])
            [] op = "publish" -> PublishUniverse(f.releases, a[1], a[2])
            [] op = "reconcile" -> releases' = f.releases
            [] OTHER -> UNCHANGED releases
       /\ CASE op = "start" -> StartScheduler(f, a[1]) /\ UNCHANGED fullMarket
            [] op = "stop" -> /\ StopScheduler(f, a[1])
                              /\ UNCHANGED <<fullMarket, admitted, firstStart>>
            [] op = "environment" -> /\ ReconcileEnvironment
                                     /\ UNCHANGED <<admitted, firstStart>>
            [] OTHER -> UNCHANGED <<scheduler, fullMarket, admitted, firstStart>>
       /\ IF op = "plan" THEN Decide(f, a[1], a[2]) ELSE UNCHANGED decision
       /\ IF op = "cutover" THEN ApplyCutover(f) ELSE UNCHANGED cutover
       /\ credential' = (credential /\ op # "revoke")
       /\ CalendarEffect(op, f, a)
    /\ tx' = [tx EXCEPT ![s] = NoTx]
    /\ UNCHANGED <<menu, today, setting, begun>>

NextDay ==
    /\ today + 1 \in TradeDays /\ today' = today + 1
    /\ UNCHANGED <<menu, setting, catalogue, revisions, batch, tx, begun>>

\* A deployment changes the flag; reconcile_environment() follows later.
DeployFlag ==
    /\ "environment" \in menu.ops /\ setting' = ~setting
    /\ UNCHANGED <<menu, today, catalogue, revisions, batch, tx, begun>>

Expire == PreviewExpires /\ UNCHANGED <<menu, today, setting, catalogue, tx, begun>>

\* Either nothing is governed yet, or a baseline is published and the
\* scheduler has been started on the first day.
PlansInit ==
    /\ menu \in Menus /\ today = 1 /\ setting = TRUE /\ fullMarket = TRUE /\ credential = TRUE
    /\ cutover = IF menu.seasoned /\ menu.dataset = "hk" THEN 1 ELSE 0
    /\ decision = [d \in TradeDays |-> [kind |-> Nil]]
    /\ CalendarInit /\ tx = [s \in PlanSessions |-> NoTx] /\ begun = 0
    /\ IF menu.seasoned
       THEN /\ \E u \in Universes :
                 releases = <<[date |-> 1, members |-> u, approved |-> "baseline",
                               status |-> "published", small |-> FALSE]>>
            /\ scheduler = [desired |-> "running", revision |-> 1]
            /\ admitted = TRUE /\ firstStart = 1
       ELSE /\ releases = <<>> /\ scheduler = [desired |-> "stopped", revision |-> 0]
            /\ admitted = FALSE /\ firstStart = 0

PlansNext ==
    \/ \E s \in menu.sessions : Begin(s) \/ Acquire(s) \/ AlreadyDecided(s)
                               \/ ReadFacts(s) \/ ReconcileDate(s) \/ Commit(s)
    \/ NextDay \/ DeployFlag \/ Expire

PlansSpec == PlansInit /\ [][PlansNext]_plansVars

---------------------------------------------------------------------------
(* Properties. *)

Approvals == {"baseline", "exception", "plain"}
ReleaseRows == [date : TradeDays, members : Universes, small : BOOLEAN,
                status : {"candidate", "published"}, approved : {Nil} \cup Approvals]
Releases == Seq(ReleaseRows)
Schedulers == [desired : {"running", "stopped"}, revision : Nat]
Readings == [releases : Releases, revisions : Revisions, control : Schedulers,
             admission : BOOLEAN, firstStart : {0} \cup TradeDays, enabled : BOOLEAN,
             cutover : {0} \cup TradeDays, client : BOOLEAN]

\* What an operation was asked; Growing ones saw room for a revision.
ArgOK(op, a) ==
    /\ op = "submit" => a \in TradeDays \X Universes
    /\ op = "publish" => a \in Nat \X Approvals
    /\ op = "plan" => a \in TradeDays \X Nat
    /\ op = "edit" => a \in Nat \X TradeDays \X DayStatuses
    /\ op = "rollback" => a \in Nat \X Nat
    /\ op = "preview" => a[1] \in YearDays
    /\ op \in {"start", "stop", "apply", "calendar", "reconcile"} => a[1] \in Nat
    /\ op \in Growing => a[1] < MaxRevisions

TxOK(t) ==
    /\ t = [op |-> t.op, held |-> t.held, arg |-> t.arg, seen |-> t.seen]
    /\ t.op \in PlanOps \cup {Nil} /\ t.held \in 0 .. Len(Locks(t.op))
    /\ ArgOK(t.op, t.arg)
    /\ t.seen # <<>> => /\ t.seen = <<t.seen[1]>> /\ t.seen[1] \in Readings
                        /\ Len(t.seen[1].revisions) <= MaxRevisions

PlansTypeOK ==
    /\ CalendarTypeOK /\ menu \in Menus /\ today \in TradeDays
    /\ setting \in BOOLEAN /\ fullMarket \in BOOLEAN
    /\ admitted \in BOOLEAN /\ credential \in BOOLEAN
    /\ releases \in Releases /\ scheduler \in Schedulers
    /\ firstStart \in {0} \cup TradeDays /\ cutover \in {0} \cup TradeDays
    /\ DOMAIN decision = TradeDays
    /\ \A d \in TradeDays : decision[d].kind \in {Nil, "planned", "skipped"}
    /\ DOMAIN tx = PlanSessions /\ \A s \in PlanSessions : TxOK(tx[s])

\* A trade date is decided on what is true when the decision commits: the
\* scheduler is running, the environment and the credential allow it, the
\* release is the newest published one and the calendar the one in force, and
\* a decision is never changed (the locks of create_plan() against
\* publication, calendar edits, stop, disable and revocation).
DecidedOnCurrentFacts ==
      \A d \in TradeDays :
         decision'[d] # decision[d] =>
            /\ decision[d].kind = Nil
            /\ scheduler.desired = "running" /\ credential
            /\ menu.profile = "full_market" => fullMarket
            /\ decision'[d].release = Latest(releases, d)
            /\ decision'[d].open = IsOpen(revisions, d)

\* No set of transactions waits in a circle: start, plan, cutover, stop,
\* disable and the calendar and universe operations take their row locks in
\* one order ("Owner start locks environment, sorted datasets, calendar
\* markets, then control").
NoCircularWait ==
    ~ \E W \in SUBSET PlanSessions :
        W # {} /\ \A s \in W : \E r \in W : WaitsFor(s, r)

\* Whatever is published rests on exactly one baseline an owner approved:
\* concurrent submissions, publications and rollover repairs never publish a
\* first universe by policy, nor approve two baselines.
OneApprovedBaseline ==
    Published(releases) # {} =>
       Cardinality({i \in DOMAIN releases : releases[i].approved = "baseline"}) = 1

\* Plans, calendars and universes under concurrent operators: no circle of
\* row locks, one approved baseline, and the newest publication rules.
PlansSound == NoCircularWait /\ OneApprovedBaseline /\ NewestPublicationRules
=============================================================================
