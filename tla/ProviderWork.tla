---------------------------- MODULE ProviderWork ----------------------------
(***************************************************************************)
(* The durable FIFO of one data provider: stable works, their acquisition  *)
(* rounds, the single owner slot, and the retained deliveries that bind    *)
(* them to accepted ingestion runs                                         *)
(* (backend/app/services/provider_work.py).                                *)
(*                                                                         *)
(* Every operation runs in one transaction under the provider's advisory   *)
(* lock (lock_provider), so every operation is one step.  What is          *)
(* concurrent is everything between two operations: fetcher processes that *)
(* die, hang, repeat a request or send it late; a heartbeat that runs out; *)
(* normalization that finishes at any time; operators that stop a          *)
(* scheduler, cancel a request, correct a calendar or approve a repair.    *)
(*                                                                         *)
(* A work has at most one live round (see OneLiveRound), so round[w] is    *)
(* its newest round and queue is the order of the queued ones: queue_order *)
(* is an identity column of which only the order is ever read, so queue    *)
(* holds <<v, w>> when v and w are in line and v is not behind w.  A       *)
(* (generation, token) pair is minted by every claim and compared only for *)
(* equality: an identity is kept as "fresh" (the newest) or not.           *)
(***************************************************************************)
EXTENDS Naturals, FiniteSets

CONSTANTS Works,     \* stable works of one provider
          Kind,        \* daily, historical, maintenance or rerun
          Keys,      \* delivery keys: the idempotency key of a delivery
          Scope,     \* the members a work's manifest freezes
          NoData,    \* members for which the manifest carries no-data evidence
          Bodies,    \* delivery bodies
          Clients,   \* fetcher processes, each in possession of the host lock
          Accepts    \* the kinds a fetcher process claims (accepted_kinds)

Kinds == {"daily", "historical", "maintenance", "rerun"}
NoWork == "no work"
NoBody == "no body"

ASSUME ConstantsAssumption ==
    /\ NoWork \notin Works /\ NoBody \notin Bodies
    /\ Kind \in [Works -> Kinds]
    /\ Scope \in [Works -> SUBSET Keys]
    /\ NoData \in [Works -> SUBSET Keys]
    /\ Accepts \in [Clients -> SUBSET Kinds]
    /\ \A w \in Works : Kind[w] = "rerun" => Cardinality(Scope[w]) = 1

VARIABLES work,       \* provider_work: state and frozen manifest
          round,      \* the newest provider_work_attempt of each work
          queue,      \* the order by queue_order of the works whose newest round is queued
          owner,      \* provider_work_owner: the slot and its heartbeat
          cooldown,   \* owner.acquisition_not_before lies in the future
          held,       \* the identity each fetcher process was last given
          prepared,   \* provider_work_prepared: retained bytes by key
          receipt,    \* provider_work_receipt and its ingestion run, by key
          item,       \* the domain state of a historical item
          lapsed,     \* the item's date is past expiry_cutoff
          control,    \* the daily scheduler is wanted running
          window,     \* the daily acquisition window is open
          skip        \* the daily decision says skipped_calendar

slot == <<work, round, queue, owner>>
deliveries == <<prepared, receipt>>
outside == <<item, lapsed, control, window, skip>>
vars == <<work, round, queue, owner, cooldown, held, prepared, receipt,
          item, lapsed, control, window, skip>>

Outcomes == {"completed", "partial", "failed", "cancelled"}
ActiveRound == {"open", "closed", "draining", "recovery_blocked"}
TERMINAL_RUNS == {"good", "bad"}
NoIdentity == [work |-> NoWork, fresh |-> FALSE]
NoReceipt == [body |-> NoBody, run |-> "none"]

-----------------------------------------------------------------------------
(* What the handlers read.                                                 *)

\* Only dated works can register or deliver: their scope carries trade_date,
\* and a rerun's only member is its retained raw payload.
Delivers(w) == Kind[w] \in {"daily", "historical"}

Prepared(w) == {k \in Keys : prepared[w][k] # NoBody}
Accepted(w) == {k \in Keys : receipt[w][k] # NoReceipt}
Pending(w) == Prepared(w) \ Accepted(w)
Retained(w) == Prepared(w) # {} \/ Accepted(w) # {}
RunOpen(w) == \E k \in Accepted(w) : receipt[w][k].run \notin TERMINAL_RUNS
Drained(w) == Pending(w) = {} /\ ~RunOpen(w)

\* May this work acquire at all?  The daily clock is left out when bytes that
\* were already fetched are bound.
AcquisitionOpen(w, check_window) ==
    /\ work[w].state # "calendar_closed"
    /\ ~(Kind[w] = "daily" /\ work[w].manifest = "scope" /\ skip[w])
    /\ Kind[w] = "daily" => control /\ (check_window => window)
    /\ Kind[w] = "historical" => item[w] = "open" /\ ~lapsed[w]

\* The owner fence every mutation passes.
Fence(c) ==
    /\ held[c] # NoIdentity
    /\ held[c].fresh
    /\ owner.work = held[c].work
    /\ owner.live /\ ~owner.recovery

Cooling(w) == cooldown /\ Kind[w] # "rerun"

\* The fence before provider I/O.
AcquisitionFence(c) ==
    /\ Fence(c)
    /\ LET w == held[c].work
       IN  /\ ~Cooling(w)
           /\ round[w].state = "open" /\ ~round[w].drain
           /\ work[w].state = "running"
           /\ AcquisitionOpen(w, TRUE)

-----------------------------------------------------------------------------
Init ==
    /\ work = [w \in Works |-> [state |-> "absent", manifest |-> "none"]]
    /\ round = [w \in Works |-> [state |-> "none", drain |-> FALSE, due |-> FALSE,
                                 source_error |-> FALSE, outcome |-> "none"]]
    /\ queue = {}
    /\ owner = [work |-> NoWork, live |-> FALSE, recovery |-> FALSE]
    /\ cooldown = FALSE
    /\ held = [c \in Clients |-> NoIdentity]
    /\ prepared = [w \in Works |-> [k \in Keys |-> NoBody]]
    /\ receipt = [w \in Works |-> [k \in Keys |-> NoReceipt]]
    /\ item = [w \in Works |-> "open"]
    /\ lapsed = [w \in Works |-> FALSE]
    /\ control = FALSE
    /\ window = FALSE
    /\ skip = [w \in Works |-> FALSE]

\* The works in line, joining at the tail and leaving.
InLine(q) == {w \in Works : <<w, w>> \in q}
Join(q, w) == q \cup ((InLine(q) \cup {w}) \X {w})
Leave(q, S) == {p \in q : p[1] \notin S /\ p[2] \notin S}

NewRound(drain, source_error) ==
    [state |-> "queued", drain |-> drain, due |-> FALSE,
     source_error |-> source_error, outcome |-> "none"]

\* Faulty variant: a replay of a cancelled work's key starts it again.
EnqueueAgain(w) ==
    /\ Kind[w] # "rerun"
    /\ work[w].state \in {"absent", "cancelled"}
    /\ work' = [work EXCEPT ![w] = [state |-> "queued", manifest |-> "none"]]
    /\ round' = [round EXCEPT ![w] = NewRound(FALSE, FALSE)]
    /\ queue' = Join(queue, w)
    /\ UNCHANGED <<owner, cooldown, held, deliveries, outside>>

\* The first enqueue creates the work and its first round; a replay of the
\* same stable key returns the existing work and changes nothing.
Enqueue(w) ==
    /\ Kind[w] # "rerun"
    /\ work[w].state = "absent"
    /\ work' = [work EXCEPT ![w] = [state |-> "queued", manifest |-> "none"]]
    /\ round' = [round EXCEPT ![w] = NewRound(FALSE, FALSE)]
    /\ queue' = Join(queue, w)
    /\ UNCHANGED <<owner, cooldown, held, deliveries, outside>>

\* A rerun is created together with its run, its manifest and its receipt;
\* the normalization job waits for execute-rerun.
RerunFromRaw(w) ==
    /\ Kind[w] = "rerun"
    /\ work[w].state = "absent"
    /\ work' = [work EXCEPT ![w] = [state |-> "queued", manifest |-> "scope"]]
    /\ round' = [round EXCEPT ![w] = NewRound(FALSE, FALSE)]
    /\ queue' = Join(queue, w)
    /\ \E b \in Bodies :
         receipt' = [receipt EXCEPT ![w] =
           [k \in Keys |-> IF k \in Scope[w] THEN [body |-> b, run |-> "unscheduled"]
                                             ELSE NoReceipt]]
    /\ UNCHANGED <<owner, cooldown, held, prepared, outside>>

-----------------------------------------------------------------------------
(* Historical items end by cancellation or by the calendar; a queued work  *)
(* of an ended item is cancelled unless it retains deliveries, which then  *)
(* drain.                                                                  *)

Lapsed == {w \in Works : /\ Kind[w] = "historical"
                         /\ work[w].state # "absent"
                         /\ item[w] = "open"
                         /\ lapsed[w]}
ItemAfterExpiry == [w \in Works |-> IF w \in Lapsed THEN "expired" ELSE item[w]]
Cancelled == {w \in Works : Kind[w] = "historical" /\ item[w] = "cancelled"}

Withdrawn(w, S) == w \in S /\ work[w].state = "queued" /\ ~Retained(w)

\* _cancel_queued_item_work over a set S of works.
WorkAfter(S) ==
    [w \in Works |-> IF Withdrawn(w, S)
                     THEN [work[w] EXCEPT !.state = "cancelled"] ELSE work[w]]
RoundAfter(S) ==
    [w \in Works |->
       IF Withdrawn(w, S)
       THEN [round[w] EXCEPT !.state = "settled", !.outcome = "cancelled"]
       ELSE IF w \in S /\ work[w].state = "queued" /\ round[w].state = "queued"
            THEN [round[w] EXCEPT !.drain = TRUE]
            ELSE round[w]]

\* Faulty variant: the round of a cancelled work stays in line.
QueueAfterUnfiltered(S) == queue

QueueAfter(S) == Leave(queue, {w \in Works : Withdrawn(w, S)})

CancelRequest(w) ==
    /\ Kind[w] = "historical"
    /\ work[w].state # "absent"
    /\ item[w] = "open"
    /\ item' = [item EXCEPT ![w] = "cancelled"]
    /\ work' = WorkAfter({w})
    /\ round' = RoundAfter({w})
    /\ queue' = QueueAfter({w})
    /\ UNCHANGED <<owner, cooldown, held, deliveries, lapsed, control, window, skip>>

\* The claim of a historical item expires what is past the cutoff before it
\* projects the owner's date (its lease is the owner's identity).
ClaimNextItem(c) ==
    /\ Fence(c)
    /\ Kind[held[c].work] = "historical"
    /\ Lapsed # {}
    /\ item' = ItemAfterExpiry
    /\ work' = WorkAfter(Lapsed)
    /\ round' = RoundAfter(Lapsed)
    /\ queue' = QueueAfter(Lapsed)
    /\ UNCHANGED <<owner, cooldown, held, deliveries, lapsed, control, window, skip>>

-----------------------------------------------------------------------------
(* claim                                                                   *)

Ended == Lapsed \cup Cancelled

\* Faulty variant: retained deliveries do not make a stopped work eligible.
EligibleIfAcquirable(w) ==
    /\ work[w].state = "queued"
    /\ round[w].state = "queued" /\ round[w].due
    /\ (Kind[w] = "daily" => window /\ control) /\ ~Cooling(w)

\* The candidate filter: a work that still has something to drain is eligible
\* whatever the window, the cooldown and the control say.
Eligible(w) ==
    /\ work[w].state = "queued"
    /\ round[w].state = "queued" /\ round[w].due
    /\ \/ round[w].source_error \/ Pending(w) # {} \/ RunOpen(w)
       \/ (Kind[w] = "daily" => window /\ control) /\ ~Cooling(w)

\* order_by(queue_order).limit(1)
NextIn(q, w) ==
    /\ w \in InLine(q) /\ Eligible(w)
    /\ \A v \in InLine(q) : Eligible(v) => <<w, v>> \in q

\* A claim mints a generation and a token: every other identity is stale.
Mint(c, w) ==
    /\ held' = [x \in Clients |->
                  IF x = c THEN [work |-> w, fresh |-> TRUE]
                  ELSE IF held[x] = NoIdentity THEN NoIdentity
                  ELSE [work |-> held[x].work, fresh |-> FALSE]]
    /\ owner' = [work |-> w, live |-> TRUE, recovery |-> FALSE]

\* Faulty variant: once drain-only, always drain-only.
DrainOnlyForGood(w, drain) == drain \/ ~AcquisitionOpen(w, TRUE) \/ Cooling(w)

\* A fresh round of daily or historical work drops the drain-only mark of the
\* round before once acquisition is open and everything retained has drained.
DrainOnly(w, drain) ==
    \/ drain /\ ~(Delivers(w) /\ AcquisitionOpen(w, TRUE) /\ Drained(w))
    \/ ~AcquisitionOpen(w, TRUE)
    \/ Cooling(w)

ClaimFresh(c) ==
    /\ owner.work = NoWork
    /\ \E w \in Works :
         /\ NextIn(QueueAfter(Ended), w)
         /\ Kind[w] \in Accepts[c]
         /\ work' = [WorkAfter(Ended) EXCEPT ![w].state = "running"]
         /\ round' = [RoundAfter(Ended) EXCEPT
                        ![w].state = "open",
                        ![w].drain = DrainOnly(w, RoundAfter(Ended)[w].drain)]
         /\ queue' = Leave(QueueAfter(Ended), {w})
         /\ Mint(c, w)
    /\ item' = ItemAfterExpiry
    /\ UNCHANGED <<cooldown, deliveries, lapsed, control, window, skip>>

\* The same claim when nothing is eligible, or when the first candidate is
\* outside the caller's kinds or datasets: only the reconciliation commits.
ReconcileCancelledQueue ==
    /\ owner.work = NoWork
    /\ item' = ItemAfterExpiry
    /\ work' = WorkAfter(Ended)
    /\ round' = RoundAfter(Ended)
    /\ queue' = QueueAfter(Ended)
    /\ UNCHANGED <<owner, cooldown, held, deliveries, lapsed, control, window, skip>>

\* Faulty variants: recovery reopens the round whatever it was, or writes the
\* work's state into it.
ResumeOpen(state) == "open"
ResumeRunning(state) == IF state = "recovery_blocked" THEN "running" ELSE state

Resume(state) == IF state = "recovery_blocked" THEN "open" ELSE state

\* A claim with recover resumes the owner, never the next entry: the host
\* lock proves that the previous process is gone.
Recover(c) ==
    /\ owner.work # NoWork
    /\ LET w == owner.work
       IN  /\ Kind[w] \in Accepts[c]
           /\ work' = [work EXCEPT ![w].state = "running"]
           /\ round' = [round EXCEPT ![w].state = Resume(@),
                                     ![w].drain = @ \/ Cooling(w)]
           /\ Mint(c, w)
    /\ UNCHANGED <<queue, cooldown, deliveries, outside>>

\* A claim without recover that finds an expired owner only blocks it.
BlockExpiredOwner ==
    /\ owner.work # NoWork
    /\ ~owner.live
    /\ owner' = [owner EXCEPT !.recovery = TRUE]
    /\ work' = [work EXCEPT ![owner.work].state = "recovery_blocked"]
    /\ round' = [round EXCEPT ![owner.work].state =
                   IF @ = "open" THEN "recovery_blocked" ELSE @]
    /\ UNCHANGED <<queue, cooldown, held, deliveries, outside>>

-----------------------------------------------------------------------------
(* Mutations under the owner fence.                                        *)

\* A heartbeat may publish an account cooldown, which it can only extend.
Heartbeat(c) ==
    /\ Fence(c)
    /\ cooldown' = TRUE
    /\ UNCHANGED <<slot, held, deliveries, outside>>

\* The expected scope is frozen once; daily work of a skipped day freezes the
\* skip instead of its plan.
FreezeManifest(c) ==
    /\ AcquisitionFence(c)
    /\ LET w == held[c].work
       IN  /\ work[w].manifest = "none"
           /\ \E m \in {"scope", "skip"} :
                /\ m = "skip" => Kind[w] = "daily" /\ skip[w]
                /\ work' = [work EXCEPT ![w].manifest = m]
    /\ UNCHANGED <<round, queue, owner, cooldown, held, deliveries, outside>>

InScope(w, k) == work[w].manifest = "scope" /\ k \in Scope[w] /\ Delivers(w)

\* The intent stage of register_prepared binds the bytes before the fetcher
\* saves them; a confirm or a repeated intent only compares descriptors.
PrepareIntent(c, k, b) ==
    /\ Fence(c)
    /\ LET w == held[c].work
       IN  /\ InScope(w, k)
           /\ prepared[w][k] = NoBody
           /\ round[w].state = "open" /\ ~round[w].drain
           /\ \/ AcquisitionOpen(w, FALSE)
              \/ receipt[w][k] # NoReceipt /\ receipt[w][k].body = b
           /\ prepared' = [prepared EXCEPT ![w][k] = b]
    /\ UNCHANGED <<slot, cooldown, held, receipt, outside>>

\* acceptance and associate_receipt: what is retained is always accepted, with
\* its own bytes; anything else needs an open round of an open acquisition.
Acceptable(w, k, b) ==
    /\ prepared[w][k] \in {NoBody, b}
    /\ prepared[w][k] = NoBody => AcquisitionOpen(w, TRUE)
    /\ \/ round[w].state = "open" /\ ~round[w].drain /\ work[w].state = "running"
       \/ prepared[w][k] = b

\* One ingest request that is new: raw payload, run, receipt and job commit
\* together.  A key whose raw payload exists is only ever replayed, and a
\* replay by another work is refused.
Ingest(c, k, b) ==
    /\ Fence(c)
    /\ LET w == held[c].work
       IN  /\ InScope(w, k)
           /\ \A v \in Works : Delivers(v) => receipt[v][k] = NoReceipt
           /\ Acceptable(w, k, b)
           /\ receipt' = [receipt EXCEPT ![w][k] = [body |-> b, run |-> "open"]]
    /\ UNCHANGED <<slot, cooldown, held, prepared, outside>>

\* execute-rerun creates the normalization job of the retained run, once.
ExecuteRerun(c) ==
    /\ AcquisitionFence(c)
    /\ LET w == held[c].work
       IN  /\ Kind[w] = "rerun"
           /\ \E k \in Accepted(w) :
                /\ receipt[w][k].run = "unscheduled"
                /\ receipt' = [receipt EXCEPT ![w][k].run = "open"]
    /\ UNCHANGED <<slot, cooldown, held, prepared, outside>>

\* The fetcher closes a rerun only after it has executed it.
Close(c) ==
    /\ Fence(c)
    /\ LET w == held[c].work
       IN  /\ round[w].state = "open"
           /\ \A k \in Accepted(w) : receipt[w][k].run # "unscheduled"
           /\ round' = [round EXCEPT ![w].state = "closed"]
    /\ UNCHANGED <<work, queue, owner, cooldown, held, deliveries, outside>>

-----------------------------------------------------------------------------
(* Settlement                                                              *)

GoodRun(w, k) == receipt[w][k] # NoReceipt /\ receipt[w][k].run = "good"

\* A failed settlement may waive the bytes it lists for manual review.
Waives(outcome, waive) == outcome = "failed" /\ waive

\* Faulty variant: settlement does not wait for bytes never accepted.
SettleBlockedByRuns(w, outcome, waive) == RunOpen(w)

SettleBlocked(w, outcome, waive) ==
    \/ Pending(w) # {} /\ outcome # "retry" /\ ~Waives(outcome, waive)
    \/ RunOpen(w)

\* Evidence of completion.  A daily plan is evaluated elsewhere, and may or
\* may not have completed; every other work needs each member written or
\* covered by frozen no-data evidence.
Evidence(w, outcome) ==
    /\ outcome = "partial" => Delivers(w) /\ work[w].manifest = "scope"
    /\ outcome = "completed" =>
         /\ work[w].manifest # "none"
         /\ \/ Kind[w] \in {"daily", "rerun"}
            \/ \A k \in Scope[w] : GoodRun(w, k) \/ k \in NoData[w]

\* A rerun whose normalization did not write every record settles failed.
Result(w, outcome) ==
    IF /\ Kind[w] = "rerun"
       /\ outcome = "completed"
       /\ \E k \in Accepted(w) : receipt[w][k].run # "good"
    THEN "failed" ELSE outcome

RetryRound(w, source_error) ==
    NewRound(round[w].drain \/ ~AcquisitionOpen(w, TRUE), source_error)

\* The effect of settle on the tables wk, rd and q: a retry goes to the tail,
\* anything else ends the work; both release the slot.
Settled(w, wk, rd, q, outcome, waive, source_error) ==
    /\ IF outcome = "retry"
       THEN /\ work' = [wk EXCEPT ![w].state = "queued"]
            /\ round' = [rd EXCEPT ![w] = RetryRound(w, source_error)]
            /\ queue' = Join(q, w)
       ELSE /\ work' = [wk EXCEPT ![w].state = Result(w, outcome)]
            /\ round' = [rd EXCEPT
                           ![w].state = "settled",
                           ![w].outcome = IF waive /\ Pending(w) # {} THEN "waived"
                                          ELSE Result(w, outcome)]
            /\ queue' = q
    /\ owner' = [work |-> NoWork, live |-> FALSE, recovery |-> FALSE]

\* POST settle.  Historical completion is refused here: it needs the domain
\* validator of CompleteItem.  Member errors not yet reported travel only
\* with the retry of a frozen daily plan.
SettleRound(c, outcome, waive, source_error) ==
    /\ Fence(c)
    /\ LET w == held[c].work
       IN  /\ round[w].state \in {"closed", "draining"}
           /\ ~SettleBlocked(w, outcome, waive)
           /\ Evidence(w, outcome)
           /\ Kind[w] = "historical" => outcome \notin {"completed", "partial"}
           /\ source_error => /\ outcome = "retry"
                              /\ Kind[w] = "daily" /\ work[w].manifest = "scope"
           /\ Settled(w, work, round, queue, outcome, waive, source_error)
    /\ UNCHANGED <<cooldown, held, deliveries, outside>>

\* A settlement that must wait commits the draining state and reports it.
SettleDraining(c, outcome, waive) ==
    /\ Fence(c)
    /\ LET w == held[c].work
       IN  /\ round[w].state = "closed"
           /\ SettleBlocked(w, outcome, waive)
           /\ round' = [round EXCEPT ![w].state = "draining"]
    /\ UNCHANGED <<work, queue, owner, cooldown, held, deliveries, outside>>

\* POST historical complete: expiry, close and settlement in one transaction.
\* An item that ended meanwhile keeps its decision and only drains.
CompleteItem(c, outcome, waive) ==
    /\ Fence(c)
    /\ LET w == held[c].work
           ended == ItemAfterExpiry[w] \in {"cancelled", "expired"}
           result == IF ended /\ ~Waives(outcome, waive) THEN "cancelled" ELSE outcome
       IN  /\ Kind[w] = "historical"
           /\ round[w].state \in {"open", "closed", "draining"}
           /\ ItemAfterExpiry[w] = "open" \/ ended
           /\ IF SettleBlocked(w, result, waive)
              THEN /\ work' = WorkAfter(Lapsed)
                   /\ round' = [RoundAfter(Lapsed) EXCEPT ![w].state = "draining"]
                   /\ queue' = QueueAfter(Lapsed)
                   /\ item' = ItemAfterExpiry
                   /\ UNCHANGED owner
              ELSE /\ Evidence(w, result)
                   /\ Settled(w, WorkAfter(Lapsed), RoundAfter(Lapsed),
                              QueueAfter(Lapsed), result, waive, FALSE)
                   /\ item' = IF ended THEN ItemAfterExpiry
                              ELSE [ItemAfterExpiry EXCEPT ![w] = outcome]
    /\ UNCHANGED <<cooldown, held, deliveries, lapsed, control, window, skip>>

-----------------------------------------------------------------------------
(* Operators and other writers of the same tables.                         *)

\* A corrected holiday closes an old daily work that never produced anything.
CloseCalendar(w) ==
    /\ Kind[w] = "daily" /\ work[w].manifest = "scope" /\ skip[w]
    /\ work[w].state \in {"queued", "partial", "failed"}
    /\ ~control
    /\ owner.work = NoWork
    /\ ~Retained(w)
    /\ round[w].state \notin {"open", "recovery_blocked"}
    /\ work' = [work EXCEPT ![w].state = "calendar_closed"]
    /\ UNCHANGED <<round, queue, owner, cooldown, held, deliveries, outside>>

\* An approved member repair puts a failed or partial daily work back.
ApplyRepair(w) ==
    /\ Kind[w] = "daily" /\ work[w].manifest = "scope"
    /\ owner.work # w
    /\ work[w].state \in {"failed", "partial"}
    /\ \E k \in Scope[w] : prepared[w][k] = NoBody /\ ~GoodRun(w, k)
    /\ work' = [work EXCEPT ![w].state = "queued"]
    /\ round' = [round EXCEPT ![w] = NewRound(~AcquisitionOpen(w, TRUE), FALSE)]
    /\ queue' = Join(queue, w)
    /\ UNCHANGED <<owner, cooldown, held, deliveries, outside>>

HasDaily == \E w \in Works : Kind[w] = "daily"

StartOrStopScheduler ==
    /\ HasDaily
    /\ control' = ~control
    /\ UNCHANGED <<slot, cooldown, held, deliveries, item, lapsed, window, skip>>

CorrectDecision(w) ==
    /\ Kind[w] = "daily" /\ ~skip[w]
    /\ skip' = [skip EXCEPT ![w] = TRUE]
    /\ UNCHANGED <<slot, cooldown, held, deliveries, item, lapsed, control, window>>

-----------------------------------------------------------------------------
(* Clocks, processes and normalization.                                    *)

WindowOpensOrCloses ==
    /\ HasDaily
    /\ window' = ~window
    /\ UNCHANGED <<slot, cooldown, held, deliveries, item, lapsed, control, skip>>

CooldownEnds ==
    /\ cooldown /\ cooldown' = FALSE
    /\ UNCHANGED <<slot, held, deliveries, outside>>

RoundComesDue(w) ==
    /\ round[w].state = "queued" /\ ~round[w].due
    /\ round' = [round EXCEPT ![w].due = TRUE]
    /\ UNCHANGED <<work, queue, owner, cooldown, held, deliveries, outside>>

DateLapses(w) ==
    /\ Kind[w] = "historical" /\ work[w].state # "absent" /\ ~lapsed[w]
    /\ lapsed' = [lapsed EXCEPT ![w] = TRUE]
    /\ UNCHANGED <<slot, cooldown, held, deliveries, item, control, window, skip>>

HeartbeatExpires ==
    /\ owner.work # NoWork /\ owner.live
    /\ owner' = [owner EXCEPT !.live = FALSE]
    /\ UNCHANGED <<work, round, queue, cooldown, held, deliveries, outside>>

\* The process dies, or drops the identity after an acknowledged settlement.
Forget(c) ==
    /\ held[c] # NoIdentity
    /\ held' = [held EXCEPT ![c] = NoIdentity]
    /\ UNCHANGED <<slot, cooldown, deliveries, outside>>

\* The normalization queue finishes an accepted run.
RunFinishes(w, k) ==
    /\ receipt[w][k] # NoReceipt
    /\ receipt[w][k].run = "open"
    /\ \E result \in TERMINAL_RUNS :
         receipt' = [receipt EXCEPT ![w][k].run = result]
    /\ UNCHANGED <<slot, cooldown, held, prepared, outside>>

-----------------------------------------------------------------------------
Settle(c) ==
    \E outcome \in Outcomes \cup {"retry"}, waive, source_error \in BOOLEAN :
        SettleRound(c, outcome, waive, source_error)
ReportDraining(c) ==
    \E outcome \in Outcomes \cup {"retry"}, waive \in BOOLEAN :
        SettleDraining(c, outcome, waive)
Complete(c) ==
    \E outcome \in {"completed", "partial", "failed"}, waive \in BOOLEAN :
        CompleteItem(c, outcome, waive)

ClientStep(c) ==
    \/ ClaimFresh(c) \/ Recover(c) \/ ClaimNextItem(c)
    \/ Heartbeat(c) \/ FreezeManifest(c)
    \/ \E k \in Keys, b \in Bodies : PrepareIntent(c, k, b) \/ Ingest(c, k, b)
    \/ ExecuteRerun(c) \/ Close(c)
    \/ Settle(c) \/ ReportDraining(c) \/ Complete(c)
    \/ Forget(c)

WorkStep(w) ==
    \/ Enqueue(w) \/ RerunFromRaw(w)
    \/ CancelRequest(w) \/ CloseCalendar(w) \/ ApplyRepair(w)
    \/ CorrectDecision(w) \/ RoundComesDue(w) \/ DateLapses(w)
    \/ \E k \in Keys : RunFinishes(w, k)

Next ==
    \/ \E c \in Clients : ClientStep(c)
    \/ \E w \in Works : WorkStep(w)
    \/ ReconcileCancelledQueue \/ BlockExpiredOwner
    \/ StartOrStopScheduler \/ WindowOpensOrCloses
    \/ CooldownEnds \/ HeartbeatExpires

Spec == Init /\ [][Next]_vars

-----------------------------------------------------------------------------
(* Fairness.  A fetcher process keeps polling: it resumes the owner, claims *)
(* the next round, drains what is retained, executes, closes and settles in *)
(* every round it gets, however often it is interrupted; a not_before       *)
(* passes and accepted normalization ends (module NormalizationQueue).      *)
(* Nothing else is promised: no acquisition, window, start or cooldown end. *)
(* MCWorkParts states it for its settings.                                  *)
DeliverRetained(c) ==
    \E k \in Keys, b \in Bodies :
        Fence(c) /\ prepared[held[c].work][k] = b /\ Ingest(c, k, b)

-----------------------------------------------------------------------------
(* Properties                                                              *)

\* Types of all tables but the queue.
TablesOK ==
    /\ work \in [Works -> [state : {"absent", "queued", "running", "recovery_blocked",
                                    "calendar_closed"} \cup Outcomes,
                           manifest : {"none", "scope", "skip"}]]
    /\ round \in [Works -> [state : {"none", "queued", "settled"} \cup ActiveRound,
                            drain : BOOLEAN, due : BOOLEAN, source_error : BOOLEAN,
                            outcome : {"none", "waived"} \cup Outcomes]]
    /\ owner \in [work : Works \cup {NoWork}, live : BOOLEAN, recovery : BOOLEAN]
    /\ cooldown \in BOOLEAN
    /\ held \in [Clients -> {NoIdentity} \cup [work : Works, fresh : BOOLEAN]]
    /\ prepared \in [Works -> [Keys -> Bodies \cup {NoBody}]]
    /\ receipt \in [Works -> [Keys -> {NoReceipt} \cup
                       [body : Bodies, run : {"unscheduled", "open"} \cup TERMINAL_RUNS]]]
    /\ item \in [Works -> {"open", "expired"} \cup Outcomes]
    /\ lapsed \in [Works -> BOOLEAN]
    /\ control \in BOOLEAN
    /\ window \in BOOLEAN
    /\ skip \in [Works -> BOOLEAN]

\* Every column holds one of the values the models declare.
TypeOK == TablesOK /\ queue \in SUBSET (Works \X Works)

\* The slot and the tables agree: exactly the owner's work is running (or
\* blocked) and exactly its round is active.  claim, expiry, recovery,
\* settlement, cancellation, closure and repair all write one of the three
\* rows and rely on the other two.
SlotMatchesRound ==
    \A w \in Works :
        /\ (owner.work = w) <=> (round[w].state \in ActiveRound)
        /\ (owner.work = w) <=> (work[w].state \in {"running", "recovery_blocked"})
        /\ (owner.work = w /\ owner.recovery) <=> (work[w].state = "recovery_blocked")
        /\ round[w].state = "recovery_blocked" => owner.recovery

\* A line is total and acyclic, so every work in it has one place: a work
\* that joined twice would stand both before and behind the others.
IsLine(q) ==
    /\ \A v, w \in Works : <<v, w>> \in q =>
         /\ v \in InLine(q) /\ w \in InLine(q)
         /\ <<w, v>> \in q => v = w
    /\ \A v, w \in InLine(q) : <<v, w>> \in q \/ <<w, v>> \in q
    /\ \A u, v, w \in Works :
         <<u, v>> \in q /\ <<v, w>> \in q => <<u, w>> \in q

\* A work is in the FIFO once while it is queued, and a work in the FIFO is
\* queued or calendar-closed: a retry, a repair or a cancellation neither
\* duplicates a round nor loses one.
OneLiveRound ==
    /\ IsLine(queue)
    /\ \A w \in Works :
         /\ w \in InLine(queue) <=> round[w].state = "queued"
         /\ work[w].state = "queued" => w \in InLine(queue)
         /\ w \in InLine(queue) => work[w].state \in {"queued", "calendar_closed"}

\* overview.md: the owner is kept until every accepted run is terminal.  An
\* open run of a dated work therefore always belongs to the owner, whatever
\* expired, was stopped, cancelled or retried in between.
OpenRunsHoldSlot ==
    \A w \in Works : Delivers(w) /\ RunOpen(w) => owner.work = w

\* A work that ended has delivered everything it ever retained, unless a
\* failed settlement waived it by name; a calendar-closed one retained
\* nothing at all.
EndedWorkDrained ==
    \A w \in Works :
        /\ work[w].state \in Outcomes /\ round[w].outcome # "waived" => Drained(w)
        /\ work[w].state = "calendar_closed" => ~Retained(w)

\* At most one process passes the fence, whatever identities were issued for
\* the same work before: a superseded process has no authority left.
OneHolder ==
    \A c, d \in Clients : Fence(c) /\ Fence(d) => c = d

\* Slot, rounds, runs and retained bytes agree, and one process at most may
\* act on them: what every handler relies on the others for.
WorkSafe == SlotMatchesRound /\ OpenRunsHoldSlot /\ EndedWorkDrained /\ OneHolder

\* One idempotency key has one raw payload, hence one run: a run is
\* never adopted by a different stable work, including replay.
AcceptedOnce ==
    \A v, w \in Works, k \in Keys :
        /\ Delivers(v) /\ Delivers(w)
        /\ receipt[v][k] # NoReceipt /\ receipt[w][k] # NoReceipt
        => v = w

\* The FIFO holds each queued round once, and one idempotency key is accepted
\* for one work only, whatever is cancelled, expired, retried or repeated.
QueueAndKeysOnce == OneLiveRound /\ AcceptedOnce

\* Works that compete for one account line up, run and deliver one by one.
LineSound == WorkSafe /\ QueueAndKeysOnce

\* A round that was closed acquires nothing more: recovery never reopens it,
\* no intent is added and only retained bytes are accepted until it settles.
ClosedStaysClosed ==
    \A w \in Works :
       round[w].state \in {"closed", "draining"} =>
         /\ round'[w].state \in {"closed", "draining", "settled", "queued"}
         /\ prepared'[w] = prepared[w]
         /\ \A k \in Keys : receipt'[w][k] # receipt[w][k] /\ receipt[w][k] = NoReceipt
                => prepared[w][k] = receipt'[w][k].body

\* After stop, cancellation, expiry or a corrected calendar a work only
\* drains: a new intent must match a receipt it already has, and a new
\* receipt must carry bytes that were retained before.
StoppedWorkOnlyDrains ==
    \A w \in Works, k \in Keys :
       Delivers(w) /\ ~AcquisitionOpen(w, FALSE) =>
         /\ prepared'[w][k] # prepared[w][k] =>
              receipt[w][k] # NoReceipt /\ receipt[w][k].body = prepared'[w][k]
         /\ receipt[w][k] = NoReceipt /\ receipt'[w][k] # NoReceipt =>
              prepared[w][k] = receipt'[w][k].body

\* A drain-only work does not turn into an acquiring one: the mark is dropped
\* only while acquisition is open, and only when everything has drained or a
\* failed settlement waived the rest, after which a repair starts afresh.
DrainOnlyUntilDrained ==
    \A w \in Works :
       round[w].drain /\ ~round'[w].drain =>
         /\ AcquisitionOpen(w, TRUE)
         /\ Drained(w) \/ round[w].outcome = "waived"

\* completed, cancelled and calendar-closed works are final; failed and
\* partial ones come back only through an approved repair.
FinalStates ==
    \A w \in Works :
       /\ work[w].state \in {"completed", "cancelled"} => work'[w].state = work[w].state
       /\ work[w].state = "calendar_closed" =>
            work'[w] = work[w] /\ owner'.work # w

\* What no step of any handler does: acquire in a closed or stopped round, let
\* a drain-only round acquire before it drained, or reopen a final work.
WorkSteps ==
    [][/\ ClosedStaysClosed /\ StoppedWorkOnlyDrains
       /\ DrainOnlyUntilDrained /\ FinalStates]_vars

\* first-in first-out: nobody overtakes.  Two works that stay in line keep
\* their order, and a work that joins stands behind those already there.
NoOvertaking ==
    \A v, w \in InLine(queue') :
       v \in InLine(queue) =>
         /\ w \in InLine(queue) => (<<v, w>> \in queue' <=> <<v, w>> \in queue)
         /\ w \notin InLine(queue) => <<w, v>> \notin queue'

\* Stopped, cancelled and expired works only drain, final works stay final
\* and nobody overtakes, while the other work of the pair takes its turns.
PairSteps == [][StoppedWorkOnlyDrains /\ FinalStates /\ NoOvertaking]_vars

\* provider_work.md: once the cooldown is over and the request and control
\* are still legal, a new attempt continues the work; drain-only does not
\* lock it for good.
MayAcquire(w) ==
    /\ owner.work # w /\ owner'.work = w
    /\ AcquisitionOpen(w, TRUE) /\ ~Cooling(w) /\ Drained(w)
    => ~round'[w].drain
FreshRoundMayAcquire == [][\A w \in Works : MayAcquire(w)]_vars

\* The same for the works that deliver.
DatedRoundMayAcquire == [][\A w \in Works : Delivers(w) => MayAcquire(w)]_vars
=============================================================================
