# A TLA+ verification project for FinDB

FinDB (`src/`) collects market data from providers, stores every delivery
durably and publishes a canonical, queryable history. This project models the
parts of it whose correctness depends on the order of steps taken by different
processes, checks them with TLC on small instances, and proves the safety
properties that matter most with TLAPS for every value of the constants.

Contents: the [system](#the-system), the [modules](#modules), the
[runs](#runs), [bounds](#bounds), [fairness](#fairness), [proofs](#proofs),
[findings](#findings), [what is not modelled](#not-modelled) and the
[plan](#plan).

## The system

    provider -> fetcher (host process, provider work owner)
             -> Source API: attempt + raw + run + job + outbox, one transaction
             -> dispatcher -> RabbitMQ -> Celery worker
             -> normalize + DQ + canonical PostgreSQL
             -> Serve API, Admin API, dashboard

| Component | State it keeps | Operations | Interacts with |
|---|---|---|---|
| Ingestion (`services/ingestion.py`, `ingestion_attempts.py`) | ingestion_attempt, raw_market_payload, ingestion_run, receipts | begin, reject, accept, replay, rerun, reconcile stale attempts, retention | provider work (acceptance fence), normalization queue (job + outbox) |
| Normalization queue (`normalization_queue.py`, `dispatch_outbox.py`, `workers/tasks.py`) | normalization_job, normalization_outbox, RabbitMQ queue, advisory lock per dataset | create job, reconcile, claim, publish, mark, execute, retry, defer | ingestion, normalizers |
| Normalizers and DQ (`services/normalize`, `services/dq`, `services/admin.py`) | canonical rows, statistics, dq_issue, corrections | resolve, validate, upsert with source precedence, correct | normalization queue, Serve API |
| Provider work FIFO (`services/provider_work.py`, fetcher `provider_work.py`) | stable work, rounds, one owner slot per provider, prepared bodies, receipts; host lock and journal | enqueue, claim, recover, heartbeat, freeze, prepare, accept, close, settle, cancel | ingestion, fetcher runtime, scheduler control, calendar |
| Plans, universes, admission (`full_market.py`, `full_market_admission.py`, `hk_provider_cutover.py`) | releases, decisions, admissions, scheduler control | submit, publish, admit, start, stop, cut over, `create_plan` | calendar, fetcher runtime |
| Plan delivery (`delivery_plan_summary.py`, `sequenced_snapshots.py`, `eod_completion.py`) | summaries, outcomes, repairs | refresh, report, repair, prove completion | ingestion, provider work |
| Calendars (`calendar_management.py`) | revisions | import, edit, publish, roll back | plans, monitor |
| Delivery policy, monitor, freshness board | baselines, alerts | judge, scan, resolve, show | ingestion, plans |
| Historical backfill | requests, items, dispatch budget | submit, claim, execute, complete, cancel, expire | provider work |
| Fetcher runtime (`full_market_runtime.py`, `full_market_state.py`) | SQLite member rows, journal, schedule cursor | refresh universes, run the daily cycle, deliver members | provider API, Source API |
| Account governor and ledger (`acquisition.py`, `platform_limits.py`) | intents, quotas, cooldowns, account identities, file locks | prepare, dispatch, finalize, recover, merge aliases, prune | every provider call |
| Schedulers and staging (`scheduler_state.py`, `scheduler_control.py`, `shioaji_staging*.py`) | SQLite jobs, checkpoints, sequences, leases | poll, claim, fetch, store, deliver | Source API, object store |
| Credentials, identity (`admin_identity.py`, `source_clients.py`, `credential_usage.py`) | users, sessions, keys, usage counters | bootstrap, update, log in, issue, revoke, reconcile, flush | every request |
| Serve API, release tooling, partial dump | cursors, buckets; files | page, limit; build, materialise, load | readers, hosts |

Correctness, per component: an accepted delivery is stored once and its answer
is true; every accepted run is normalized to a terminal state and not reopened;
a canonical row is the best that was offered; one provider has one owner, whose
late requests change nothing, and bytes that were fetched are never dropped or
fetched again into another body; a trade date is decided on facts that hold
when the decision commits; summaries, alerts, cards and reports tell the truth;
a stopped scheduler makes no call and no account is called beyond its limits,
whatever process died; whatever is due ends. What makes these hard is listed
line by line under `hazards` in `PROJECT.json`.

## Modules

Three modules are the core; they and eight of the components below (`DailyPlans`,
`PlanDelivery`, `AcquisitionGate`, `RawRetention`, `HistoricalItems`, `WorkSession`,
`UniverseRefresh`, `StagedDelivery`) have proofs:

| Module | Models | State -> code |
|---|---|---|
| `NormalizationQueue` | durable job, transactional outbox, dispatcher, workers | `job`, `run`, `outbox`: the rows; `queue`: RabbitMQ copies per delivery; `pc`, `task`: a worker inside `execute_normalization` and the row copies its ORM session holds; `dispatcher`: `run_dispatcher` |
| `ProviderWork` | the FIFO of one provider with its owner slot | `work`, `round`, `owner`, `prepared`, `receipt`: the tables; `queue`: `queue_order` of the queued works, as the relation "before or the same"; `held`: the identity a fetcher process was given; `item`, `lapsed`: the historical item; `control`, `window`, `skip`, `cooldown`: what the acquisition guard reads |
| `IngestionLedger` | the canonical ingest endpoint and its attempts | `attempt`, `run_id`: `ingestion_attempt`; `raw`: `raw.market_payload` by idempotency scope; `pc`, `error`, `answer`: the handler and what the caller was told |
| `IngestPromise` | abstract: what that endpoint promises | `kept`, `told` |

The backend around them:

| Module | Models | Granularity and faults |
|---|---|---|
| `CalendarRevisions`, `DailyPlans` | calendar revisions; universe releases, admission, control, cutover and the one frozen decision per trade date | a transaction takes its row locks one by one in the code's order, reads, commits; what it read may be stale |
| `PlanDelivery` | runs, outcomes, repairs, sequenced groups, the stored summary, the EOD completion proof | writer transactions that lock the plan and reconcile |
| `FeedMonitor` | the missing-delivery scan beside ingress, for incremental, snapshot and plan feeds | the scan's reads, lock and commit; a pass that fails |
| `DeliveryPolicy` | the verdict of a delivery and the rolling baseline | feed lock, reruns |
| `MarketBoard` | the freshness card, query by query | commits of others between the queries |
| `AcquisitionGate` | the worker's loop and per-call check, the Source's row-by-row answer, enrolment | operators, deployments, lost answers, other modes that report on the same key |
| `HistoricalItems` | a backfill request with its dates, works and worker | process loss, cooldown, expiry, cancellation |
| `RawRetention` | reruns against the retention statement | READ COMMITTED snapshot, row waits, failed passes |
| `CanonicalStore` | upserts with precedence, statistics, DQ, corrections | a run is one step, a correction two |
| `AdminIdentity`, `MachineCredentials` | users and sessions; keys, deployment reconciliation, usage counters | requests interleave between load, lock and commit; failed flushes, killed servers |
| `ServePages` | pages of EOD, minute, futures and instrument lists; the rate bucket | writes between pages and between the statements of a page |
| `ReleaseFiles`, `PartialDump` | release manifest, bundle, materialisation, secret loader, instrument cache; table order of a dump | one step per visible system call; kills, power loss, edits |

The fetcher:

| Module | Models | Granularity and faults |
|---|---|---|
| `WorkSession` | host lock, session, journal and the work endpoints | a step per request or durable write; process deaths, children that live on, lost answers |
| `MemberDelivery` | `_deliver_members` and the SQLite row of a member | claim, acquire, reserve, prepare, deliver, finish, report; crashes between any two, failing outcome calls, the Source's 429, 4xx and 5xx, FinLab's not-ready waits, repairs, back-off, breaker |
| `UniverseRefresh`, `DailyCycle` | the daily refresh of an official universe; one cycle of the TAIFEX feed | a step per page or request; new editions, midnight, stops, process death |
| `AccountGovernor`, `AccountLedger` | one acquisition from lock to finalize, with the isolated child; which account a credential is charged to and the charges | ticks of a clock; process loss at every step; file locks |
| `LocalScheduler` | the controlled loop, its jobs and checkpoints | lost polls, late heartbeats, crashes |
| `ProviderAdapters` | what Twelve Data, FinLab, Shioaji and TAIFEX say, from the answer over the response journal to a member's request | a step per call, durable response and request; answers that differ each time, journals of older releases, process death |
| `FactSetWork` | a FactSet day: one query of a cohort, its frozen answer, one body per member, the end of the work | a step per journalled operation; suspensions, lost answers, process death |
| `StagedDelivery` | a symbol from provider call to Source run | a step per durable write; leases, cutoff, midnight, refusals, crashes |

`MC*` modules are instances for TLC, `*_proofs` hold inductive invariants and
theorems.

**How the instances are composed.** The components of `MCSafetyParts`,
`MCBackendParts` and `MCFetcherParts` keep no state in common: what they exchange
is a row or a request each of them models from its own side. One run therefore
checks them side by side: the variable `part`, chosen in the initial state and
never changed, says which component the behaviour is of; each `INSTANCE ... WITH`
gives the component's variables and constants; slots are reused from one part to
the next and the unused ones stay 0. A component that is proved about is not
instantiated: the MC module EXTENDS it, so that the run and the theorem speak of
one definition (`AcquisitionGate`, `PlanDelivery` and `DailyPlans` in `MCSafetyParts`;
`IngestionLedger`, `RawRetention` and `HistoricalItems` in `MCBackendParts`;
`WorkSession`, `UniverseRefresh` and `StagedDelivery` in `MCFetcherParts`). Its
variables are its own and rest in an initial state in the behaviours of the
other parts. A property of the other components is the
conjunction of the properties of its parts, each guarded by `part`. The same
device in `MCQueueLive` and `MCWorkParts` chooses a small setting of one
component (`Within` keeps a step inside it).

**NormalizationQueue.** One action is one committed transaction, one broker
call, or one read whose result a later step uses. `execute_normalization` is
split where another process can act: `ReadJob`, `ReadRun` (before the lock),
`AcquireLock` / `LockContended`, `BeginProcessing`, the five ways to conclude,
`Unlock`. A commit writes only the columns in which an ORM copy differs from
what the session assigned, which is what makes stale copies matter. Faults are
dispatcher and worker deaths, redelivery while a task runs, lost messages and
loss of the broker volume. Clocks are folded into nondeterminism except for the
one relation the configuration guarantees: the hard task limit is shorter than
the lease. `reconcile_nonterminal_jobs` is called by tests only and is left out.

**ProviderWork.** Every operation takes the provider's advisory lock first, so
every operation is one step. Concurrency is what happens between operations, and
a process that lost its slot may still send any of them (`held` keeps the old
identity). A claim takes the first work of the line; `Join` and `Leave` keep the
others in order, which is all a column of increasing numbers is used for. A
historical request has one item here (`HistoricalItems` has
several); plan completeness, end-of-day evidence and the delivery policy are free
choices (`PlanDelivery` and `DeliveryPolicy` derive them); a generation is only
compared for equality; replayed settlements are stutters (`WorkSession` has
them); the host lock is not modelled, so requests of dead processes are allowed.
The HK cutover, `FULL_MARKET_ENABLED` and the one-off `apply_cutover` are left out
of the acquisition guard; `CorrectDecision` stands for an operator runbook and is
marked external.

**IngestionLedger.** `accept_canonical_ingest` is split at its commits and at
its rollback: `Begin`, `Claim`, the ingest transaction (`Accept`,
`AcceptExisting` or `Reject`), `RollBack` and `RejectAfterRollBack`. The ingest
transaction is one step because `acceptance` takes the provider lock before it
reads anything; the `IntegrityError` branch behind it needs a writer without
that lock and is not reachable. Each commit may fail with or without effect,
the handler may die anywhere, a row may be old enough to be aborted at any time
its handler does not hold the lock. Validation and policy are a free choice.

**What the others abstract.**
  - `DailyPlans`: a behaviour takes its operations from a menu, so that every pair
    that contends meets in some menu (the proofs allow any menu); the setting
    `FULL_MARKET_ENABLED` is read once per process.
  - `AcquisitionGate`: a deployment replaces the serving process and fails the
    requests in flight; the credential is read once per request; the environment
    flag is no start blocker. `verify_enrollment`, `capacity_proof` and the
    authorization endpoints of schedulers and backfills are left out. Every other mode of
    the command line program polls "stopped" on the worker's scheduler key
    (`full_market_cli.py` 380-382), so what a deployment reads as "stopped" may be such a
    report while the worker is in a call: `StoppedMeansQuiet` promises quiet for the
    worker's own report and that any other hides at most the one call already checked.
  - `FeedMonitor`: pilot alerts that were resolved are not reopened, as in the code. A
    completed run of any mode resolves the alert of its date (`normalize/base.py` 653-663),
    also a backfill that of a snapshot, although `delivery_policy.py` 77-79 does not count
    it as the snapshot: such a gap stays masked (`MaskedByBackfill`), and `GapNoticed` says
    that nothing else hides one.
    A snapshot feed's page counts a run of a later date while the alert does not;
    the agreement of the two views is therefore claimed for the other feeds only.
  - `MarketBoard`: the endpoint only formats the card; a partial feed whose summary
    is pending shows "not_due", as in the code.
  - `RawRetention`: a rerun committed after the pass took its snapshot loses its
    payload (ON DELETE SET NULL) and ends RAW_PAYLOAD_MISSING; the property says
    that this is the only run that does.
    What a bulk request has still to rerun is a set, taken in ascending order.
  - `HistoricalItems`: the FactSet outcome "partial" is left out.
  - `AccountLedger`: merging and pruning are the live code; `reserve`,
    `reserve_acquisition` and `Permit` of `account_governor.py` serve older callers.
    Finalized intents are the charge they leave; Shioaji ledgers are kept (`evidence`).
  - `StagedDelivery`: rows commit before `_refresh_statuses` runs in a transaction of
    its own; the historical mode is the live one (`shioaji_historical.py`). Three cases
    leave rows open for good, and `StagingSettled` names them: rows whose execution date
    has passed are refused by `ensure()`, the rows of a walked-back target are not known
    to `mark_cutoff()`, and a body that Source refuses with a 4xx has no terminal code.
  - `MemberDelivery`: a row records a failed run before `outcome` is called, so a process
    lost between the two leaves that failure untold, and FinLab's "not ready" ends a row
    without a report; `ReportNotLost` names these two cases and excludes every other. A
    FinLab wait makes calls and gives its attempt back; `waited` counts them, and
    `CallBudget` adds no more than those, losses and repairs.
  - `DeliveryPolicy`: a feed may shrink session by session, each time within the ratio of
    the median of the passes before it. `PassesShrinkSlowly` bounds what can creep in by
    that ratio per session since the cold start.
  - `MachineCredentials`: `flush_usage` puts a batch back after any exception, also when
    its commit took effect and only the answer was lost: that batch is counted twice, and
    `UsageConserved` says that nothing else is.
  - `LocalScheduler`: `SchedulerControlLoop` and the scheduler services are library
    classes with tests; today's command line programs run the full-market worker.
  - `UniverseRefresh`: the Twelve Data ("us") and FinLab ("tw") styles. A page is what its
    directory lists on the day it is read. A "us" listing leaves the scope only for a row
    of an excluded type or as an unknown fund; any other type stays as an expected gap.
    Nothing compares the dates of the two Taiwanese ISIN tables; a share that moved from
    one to the other between the reads is refused by the Source when it is in both, and
    lost when it is in neither, which `OnceListed` says. A "tw" refresh
    submits although its catalogue cannot be read; the manifest is then frozen, and a
    later round completes by replaying it although the journal has gained the page
    meanwhile. `RefreshHonest` therefore says that what a completed work submitted are
    its journal's pages except for a catalogue that was missing then.
  - `ServePages`: rate buckets are per process; offset pages of instruments may repeat
    or skip a row when statistics change, so exactness is claimed for quiet walks.
  - `WorkSession`: the host lock is the set of open descriptors of its file, since a
    child of a provider call inherits one and keeps the lock when its parent dies. The
    attempt is reserved before the call is authorized and released when authorization
    refuses or fails (`historical_runtime.py` 38-66); the release of a FactSet wait
    after its answer is in `FactSetWork`.
  - `ProviderAdapters`: a row is a date, an identity, a form and a value; FinLab's five
    field tables are two, because every check across tables relates two of them.
    HTTP and SDK details, session login and response parsing below the row are left out.
  - `FactSetWork`: identifier resolution is the set of members without a listing; the
    raw archive is one journalled operation.
  - `PartialDump`: a parent that was skipped, or exported in part, may or may not hold the
    row a child needs, so such a load may be refused or not; the order alone never is
    the reason. `dry_run` and the sampling SQL are left out; the configured
    `isolation_level` is not used by the script and is not modelled.

## Runs

| Run | Question | Result |
|---|---|---|
| `nq_pair` | two runs of one dataset, two workers, one fault: one open delivery per job, attempts bounded by deliveries, one writer per dataset, outcomes agree (`QueueSafe`), and only a lock holder with an old copy can reopen a terminal job | holds |
| `nq_live` | one worker process (no other takes a message) and two faults: job and run finish together and for good; two processes and one fault: every job ends for good | holds |
| `nq_final`, `nq_stuck` | the same for the run's row, two worker processes | violated, see [findings](#findings) |
| `pw_daily` | one daily work of two members, two bodies each, two processes, everything an operator or clock can do: slot, rounds and receipts agree (`WorkSafe`), closed stays closed, stopped works only drain, final states are final (`WorkSteps`), a fresh round of a drained work may acquire (`DatedRoundMayAcquire`) | holds |
| `pw_fifo` | two historical works that share a key; a rerun and a maintenance work with two processes: slot, rounds and receipts agree, each round queued once, each key accepted once (`LineSound`), nobody overtakes (`PairSteps`) | holds |
| `pw_live` | the slot is released and retained bytes are delivered or waived, with stops and cooldowns that never end and works that retry for ever | holds |
| `pw_stuck` | a fresh round after a cooldown may acquire, for maintenance work | violated, see [findings](#findings) |
| `safety_parts` | sixteen components, each in every interleaving of its own actors: see the table below | holds |
| `backend_parts` | ledger, raw layer and answers agree and `IngestPromise` is implemented; retention, backfills and monitoring are sound; nothing waits for ever | holds |
| `fetcher_parts` | one body, bounded calls, true reports, sessions that are never fenced off, sound universes; everything due ends | holds |
| `adm_owner` | the last active owner stays | violated, see [findings](#findings) |

| Property | Parts and what it says |
|---|---|
| `PlansSound`, `StepsJustified` | plans: no circle of row locks, one approved baseline, newest publication rules; a decision rests on facts true at its commit |
| `SummariesTrue` | plan delivery: the stored summary equals what the committed rows say; an old completed attempt hides no later failure; a completed work is complete |
| `VerdictsSound` | policy: a passing count shrinks by no more than the ratio per session, whatever warned, failed or was repeated in between; board: a card read query by query never calls a gap fresh |
| `AccessSound`, `StepsJustified` | one bootstrap; no use of a key is lost by a failed flush, and none counted twice but those of a batch whose commit landed unacknowledged; a deployment narrows no scope |
| `RowsAreBest` | canonical rows are the best offered in any order of runs, statistics follow them, no bar contradicts itself |
| `OutputsSound` | a materialised release is of one source state; no torn file; parents load before children, and a dump is never refused for its order alone |
| `PagesExact` | every stable row once per walk; no window beyond the limit |
| `BudgetsKept`, `StepsJustified` | request windows, logins, pacing and 429 floors hold over lost processes; merged accounts keep their debt; a member's calls stay within its budget, losses, repairs and given-back attempts counted; FactSet query budget |
| `BodiesSound` | one body per member whatever step a process is lost at; rebuilt requests are alike, of the target date and of journalled answers; one FactSet snapshot per day; a failure is told or still staged, with two named exceptions |
| `GateSound` | a call is made only under conditions that held; the worker's own "stopped" means quiet and another mode's hides one call at most; enrolments do not mix |
| `RawSound` | retention spares runs still to be normalized, but for one that came after its snapshot; no reference outlives a payload |
| `BackfillSound` | a date is completed only with a good run of every member, a request only when all dates are; a member is asked for within its budget over any loss of the worker |
| `BackendTypeOK`, `BackendSettles` | types of retention, backfill and monitor; attempts, alerts, gaps, payloads and requests end |
| `OneCaller`, `SessionSound` | one caller at a time across deaths, within the journalled budget; repeated close and settle find their own round |
| `StagedSound` | budgets of a symbol and a window, one raw object and one body, completed means that Source completed |
| `UniversesSound` | a universe lists no symbol twice and loses none that every edition lists, unless it joins Taiwanese tables of two days; only excluded types and unknown funds are left out; a mapped member has an equity row or company of its own; a completed refresh submitted its journal's pages within its budget |
| `FetcherSound`, `FetcherSettles` | one body per member and job, nothing behind a checkpoint, dates in order; members, cycles, refreshes and works end |

Every property has a mutant: a variant of one mapped definition, kept in the
module beside it as "faulty variant", under which TLC finds it violated.

`CHECK_DEADLOCK FALSE` is set where the system may come to rest: all jobs
terminal, all requests answered, the bounds of a part used up.

## Bounds

`NormalizationQueue`: `MaxDeliveries` bounds the generations minted for one
job, `MaxEager` those minted while another is in flight (a lease that expires at
once could otherwise go on for ever), `MaxFaults` the faults. Two runs and two
workers are what contention for one dataset lock needs, two attempts what a
retry between them needs. `nq_live` uses seven
deliveries so that the bound is never what ends a job.

`ProviderWork` has no counters: identities are fresh or not, and rounds of a work
replace each other. One or two works, one or two keys and one or two bodies give
a conflicting delivery, a second work in the queue, a superseded process and, in
`pw_daily`, a work of which one key is drained and the other is not.
`pw_live` has one process; the two-process cases are in `pw_daily` and in the rerun
half of `pw_fifo`. `pw_fifo` bounds its steps with `TwoAtATime`: the created works
stay within one pair, and of two historical works one process at a time knows an
identity and a cooldown meets one work only (`pw_live` has the cooldown with a
rerun beside it, `pw_daily` with two processes).

`IngestionLedger`: three requests suffice for "stored, repeated, conflicting" on
one key; keys do not interact. A batch of two rows makes the reconciliation pass
choose.

The parts: two of whatever must meet (sessions, writers, requests, members,
dates, processes, datasets), three records or pages where order matters, every
foreign-key graph of at most three keys over three tables, and one or two faults
(`MaxCrashes`, `MaxLost`, `MaxKills`, `MaxFaults`, ...), each named in the module's
CONSTANTS and guarded in its actions. One fault is enough to be lost at any single
step; a second one is given where recovery itself can be interrupted
(`WorkSession`). Of `StagedDelivery` one symbol and one call per window are checked, since
its safety is proved for any universe and limit; `AccountGovernor` runs twice, with
retries and a window of one request ("governor") and with logins ("logins"), so that
neither limit hides the other; in `safety_parts` the menus of `DailyPlans`, proved likewise, are short.
`MemberDelivery` is checked for safety with more providers in `safety_parts` and for
liveness on a smaller instance in `fetcher_parts`; providers that can only wait are not used there because each wait
makes a body and `MaxBodies` would end the behaviour.

## Fairness

- Queue: weak fairness of reconciling, claiming, publishing and marking, of each
  worker's steps and of taking a message. The container runtime restarts the
  dispatcher and the workers (`restart: unless-stopped`), and faults are bounded.
- Provider work: a fetcher keeps polling and, in every round it gets, recovers,
  drains, executes, closes and settles. Rounds are interrupted again and again,
  so these are strong; normalization ends (shown by `nq_live`) and a not-before
  time passes. Nothing is assumed about acquisition, scheduler starts, windows or
  cooldowns. There is no maintenance work in `pw_live`: a fetcher does not settle a
  drain-only maintenance round it cannot drain (third finding).
- Ledger: a handler runs on until it returns or dies, and the dispatcher
  reconciles in every round of its loop (`dispatch_outbox.py` 113-138).
- Monitor: the dispatcher starts the next scan; a request holding the scope lock
  commits. Retention: `run_repeated` starts the next pass. Backfill: the worker
  polls, runs end, cooldowns pass, lapsed requests are expired by the next claim.
- Fetcher parts: a running process takes its next step and a dead one is restarted;
  normalization ends; time passes. Member delivery needs strong fairness of a
  back-off running out and of a report getting through, since each is switched off
  again by the next round. The daily cycle also assumes what it waits for: that the
  exchange publishes a date's report and that a pending universe is reviewed.
  Nothing is assumed of operators' starts, of faults, of midnight (`NextDay`) or of the
  provider's answers.

## Proofs

Every theorem holds for every value of the constants under named assumptions,
which only give the constants their types and say that "none" values are no
members of their sets: `ConstantsAssumption` (of the queue and of the provider
work), `LedgerAssumption`, `WindowsAssumption`, `EnrollersAssumption`,
`BudgetAssumption`, `PlanAssumption`, `PlansAssumption`, `RetentionAssumption`,
`BackfillAssumption`, `RefreshAssumption`, `StageAssumption`. Two say a little more, as
the code does: a backfill's members are a non-empty list without repetition
(`historical_backfill.py` 223), a staged universe is not empty. TLC
evaluates each of them in a passing run. The fault bounds of the models (`MaxLosses`,
`MaxDeaths`, ...) are constants like the others: a theorem holds for any number of faults.
The layout is the same in all modules: the inductive invariant as a conjunction
of named parts, lemmas about the operators, one lemma per action (or shape of
action), and the theorems at the end.

| Module | Proved properties | Inductive invariant |
|---|---|---|
| `NormalizationQueue_proofs` | `TypeOK`, `QueueSafe`, `ReopenedOnlyUnderLock`; with one worker process `FinishTogether`, `FinalForOne` | `IInv` = `StoreInv`, `HandsInv`; `SingleInv` |
| `ProviderWork_proofs` | `TypeOK`, `WorkSafe`, `LineSound`, `WorkSteps`, `PairSteps`, `DatedRoundMayAcquire` | `IInv`, `LineInv`, `OutsideOK` |
| `IngestionLedger_proofs` | `TypeOK`, `LedgerMatchesRaw`, `AnswerHolds`, `EndedIsFinal`, `KeepsPromise` | `IInv` |
| the same, `RawRetention` | `RawSound`, its types | `RawInv` |
| the same, `HistoricalItems` | `BackfillSound`, its types | `HistInv` |
| `DailyPlans_proofs` | `PlansSound`, `DecidedOnCurrentFacts`, its types | `PlansInv` |
| the same, `PlanDelivery` | `SummariesTrue`, the plan's types | `DeliveryInv` |
| `AcquisitionGate_proofs` | `GateSound`, the gate's types | `GateInv` |
| `WorkSession_proofs` | `SessionSound`, `OneCaller`, the session's types | `SessionInv` |
| `UniverseRefresh_proofs` | `UniversesSound`, `JournalKept`, its types | `RefreshInv` |
| `StagedDelivery_proofs` | `StagedSound`, its types | `StageInv` |

`NormalizationQueue_proofs`: `StoreInv` is about the rows (types; job, run and outbox
appear together; at most one open delivery; attempts within deliveries; outcomes
agree) and `HandsInv` about what dispatcher, broker and workers hold, which was
once true. The second half is needed because every write of a worker is computed
from copies: that attempts stay within deliveries follows only if the copies
never run ahead of the outbox.

With one worker process, `AloneInv` adds that job and run agree
and that a worker which decided to execute is engaged with a run that is still
open. That fact is exactly what a second worker breaks (findings 1 and 2): between
the read and the lock somebody else could finish the run.

`ProviderWork_proofs`: `IInv` is the tables' types, `SlotMatchesRound` (the owner
row, the work and its round tell the same story), `OpenRunsHoldSlot`,
`EndedWorkDrained` and `OneFresh` (at most one process holds the newest
identity). Actions fall into four shapes, each with a lemma: steps that touch
nothing the invariant reads, steps of one row of the tables, the sweep that
cancels or expires queued works, and deliveries.

For the line, the FIFO is an order relation, so that joining at
the tail, leaving anywhere and sweeping away any set of works are set operations
with a lemma each (`JoinLine` and its neighbours), and no induction over a sequence
is needed. `LineInv` says that a work stands in line exactly while it is queued;
`OutsideOK` completes the types. For the action properties every step is shown to do
one of four things to the row of a work (`RowStep`: stay, move, be claimed, be
worked on by its owner), and each property follows from the four. The proof of
`DrainOnlyUntilDrained` failed in its first form, "the mark is dropped only when
everything has drained": a work of two keys whose failed settlement waived one
of them comes back through an approved repair without the mark. The property now
says so, and `pw_daily` has two keys, so that the case is in the run too.

`IngestionLedger_proofs`: `IInv` is `TypeOK`, `LedgerMatchesRaw` and
`AnswersAgree` (what each place in the handler presumes about its attempt: in
particular that a pending refusal has stored nothing, although a pending 503
may have). The ledger implements `IngestPromise`: a commit of a new payload is
`Keep`, an answer is the matching `Tell`, everything else stutters.

`AcquisitionGate_proofs`: the Source reads client, control, admission and
environment one after the other while owners and deployments change them.
`RequestBearsOut` says what a request that got so far proves: a control that was to
run, together with the flag of now, is a moment at which everything held (because
of `RowsFit`: nothing runs that was not admitted and consented to). `ObservedWhileBusy`
carries "stopped means quiet": a busy worker is reported running unless another mode has
reported since, and since every check reports again before its answer, at most one call
is made behind such a report. `EnrollmentsKept` says that a command that holds the
environment row replaces exactly the live enrolments.

`WorkSession_proofs`: the host lock is free only when nobody is in a session and no
child of a call is left (`HostLock`), so a session is alone and its fence is still
the newest when it closes or settles (`Fenced`); it stops being the owner only by
its own settlement, which is then what a repetition finds (`NeverFencedOff`).
`Counted` ties the calls to the journalled budget, a reservation that is not yet a call
included, and `Bytes` says, place by place in
the session, how journal, bound body and receipts agree.

`RawRetention`: the retention statement decides on a READ COMMITTED snapshot and
deletes later. `PassAgrees` says that every run that is still to be normalized while a
pass is at work came after that snapshot; together with `ReferencesHold` (a run is
linked exactly while the payload is there, one requester holds the row) it is
inductive, and `RetentionSpares` follows.

`HistoricalItems`: `InTurn` says that a member has a body only when all before it have
good runs, so a worker that stops at a member without a body leaves nothing
retained behind it and may report (`NothingPending`); `Placed` says where a worker stands.
`Charged` is what the budget needs: while a member has no body its dispatches are
within the journal's tries, and a worker about to ask is one below them, because the
attempt is reserved before the call and given back only by a worker that did not
ask. Once a body is retained the tries may be given back, since nobody asks again.

`DailyPlans`: transactions hold no row in common (`LocksExclusive`) and take their
rows in the order `Rank`, so a circle of waits is impossible: the holder of the
highest row that is waited for would wait for a higher one. `AllCurrent` says of
each place in a transaction that what it read under its rows is what the tables
still hold, because each fact is written under a row the reader holds; so a
decision rests on current facts when it commits.

`PlanDelivery`: writers at the same row wait for each other (`RowsApart`), so
what a writer found there still holds when it commits (`StillThere`); one writer
holds the plan row (`OneLock`), so the count it made is what its commit makes true
(`CountsHold`). That runs are created once (`CreatedOnce`) makes "the newest attempt"
of a sequence one place in the order, from which `OldAttemptHidesNothing` follows;
and a settled work is no longer written to (`Quiet`), so that what was proven of its
members at the settlement stays so.

`UniverseRefresh_proofs`: pages may list anything on any day, so `UniverseSound` is
proved of the mapping alone (`Made`: a submitted universe is the mapping of all the pages
its feed needs, Nasdaq's two directories of one date, without a symbol listed twice, which
the Source refuses). `PagesInv` and `JournalKept` say that a journal holds its own feed's pages and
replaces none; a manifest is frozen and a round completed only after the submission
(`DoneInv`, `RunInv`), and an attempt is reserved before the provider is reached
(`BudgetInv`). The proof found a false property: `RefreshHonest` used to ask that a
completed work submitted exactly its journal's pages, which fails with two attempts
and four troubles in the case described above, beyond the bounds of the run. It now
says what the code keeps.

`StagedDelivery_proofs`: `BudgetKept` counts a call as soon as it may have left,
`UploadsOK` gives every raw object its recorded intent, `BodiesOK` says that Source has
seen no body but the one a new process would send, and `AcceptedOK` that a completed row
has a completed run. None of them depends on the day (`DayTypeOK`), so midnight, a
walked-back target and a refusal keep them. Each is stated for the place the process is at (`PlaceOK`),
because the row commits before the statuses are refreshed.

Only model-checked, and why:

- `QueueSettles`, `WorkSettles`, `BackendSettles`, `FetcherSettles`: liveness under
  fairness is outside the prover.
- `RowsAreBest`: the upsert of a batch is a fold over its records, and what a fold
  computes for every batch needs induction over data.
- `PagesExact`: a page is a sorted, filtered sequence cut to a length; what sorting
  and filtering give for every list needs induction over data too.
- `AccessSound` and `BudgetsKept`: the usage counters (`UsageConserved`) and the debt of
  merged accounts (`DebtKept`) are sums over sets of any size, folds as well.
- `VerdictsSound`, `OutputsSound`, `BodiesSound`, `StepsJustified`, `FetcherSound`,
  `PartsTypeOK`, `BackendTypeOK`: conjunctions over components most of which take
  turns with the same variables and have no proofs. What they say of `DailyPlans`,
  `StagedDelivery`, `RawRetention`, `HistoricalItems`, `WorkSession`, `UniverseRefresh`,
  `PlanDelivery` and `AcquisitionGate` is proved in the modules above.
- `TerminalIsFinal`, `Converges`, `FreshRoundMayAcquire`, `OwnerRemains`: violated.

## Findings

1. `nq_final`: `execute_normalization` decides on rows it read before it held the
   dataset lock. A duplicate delivery that read the job while the first was
   executing gets the lock later and sets the finished run back to `processing`
   (`normalization_queue.py` 481-496).
2. `nq_stuck`: when the job copy already says `processing`, that write changes the
   run only. The job stays terminal, so nothing ever repairs the run.
3. `pw_stuck`: `claim` drops a drain-only mark for daily and historical work only;
   a maintenance work that was recovered during a cooldown stays drain-only in
   every later round, while `docs/architecture/provider_work.md` 181-182 says that
   drain-only is not a permanent lock.
4. `adm_owner`: `update_user` computes `removing_owner` from the row loaded before the
   identity lock (`admin_identity.py` 176). An update whose copy still says operator
   takes no lock; if that user has been promoted meanwhile and the other owner
   downgraded, the commit leaves no active owner.

## Not modelled

`PROJECT.json` lists every component with the reason. Schema validation of bodies
and archives, response formats below the row, read-only projections
(universe and plan queries, `list_calendar`, `list_datasets`), governance evidence
files: data, no state of their own. Deployment and maintenance scripts, migrations
and seeds: one-off programs that run alone. The dashboard: a user interface over the
Admin API. Components marked "partly" name what is left out in their note.

## Plan

The model covers the components that keep state. Further proofs, each with the
component's own variables in its MC module:

1. `OneBody` and `CallBudget` of `MemberDelivery`, `OneBootstrap` of `AdminIdentity`,
   `ReleaseCoherent` of `ReleaseFiles`, `CardSound` of `MarketBoard`;
2. `ProviderSpared` and `StopIsPrompt` of `AccountGovernor`, which need no sums;
3. an abstract specification of one provider slot (one owner, first in first out,
   nothing lost) and `ProviderWork` shown to implement it.

Models to widen: the FactSet and Shioaji universes beside `UniverseRefresh`, the
"partial" outcome of `HistoricalItems`, and `WorkSession` composed with the queue of
`ProviderWork` instead of its own reduced server.
