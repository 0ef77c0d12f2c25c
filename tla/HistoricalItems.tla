--------------------------- MODULE HistoricalItems ---------------------------
(***************************************************************************)
(* A historical backfill request seen from both ends: the request with one *)
(* item per date at the Source (backend services/historical_backfill.py),  *)
(* and the fetcher's worker that claims the owner's item, runs its members *)
(* through the provider and completes, fails, defers or drains it (fetcher *)
(* historical_backfill.py, historical_runtime.py, *_historical.py).        *)
(*                                                                         *)
(* The queue underneath is ProviderWork's, reduced to what the worker sees *)
(* of it: one owner, a round that may be closed or drain-only, retained    *)
(* bodies.  Every Source answer may be lost with the process.              *)
(***************************************************************************)
EXTENDS Integers, Sequences, FiniteSets

CONSTANTS Dates,           \* the dates of the request, 1 .. n
          HistMembers,     \* the members of every date, in order
          MaxTries,        \* schedule.max_attempts of one operation
          MaxLosses,       \* bound: lost processes and lost answers
          MaxSwitches      \* bound: cooldowns

\* The members of a date are frozen once each, and a date is a number.
ASSUME BackfillAssumption ==
    /\ Dates \subseteq Nat \ {0} /\ MaxTries \in Nat
    /\ HistMembers \in Seq({HistMembers[i] : i \in DOMAIN HistMembers}) /\ HistMembers # <<>>
    /\ \A i, j \in DOMAIN HistMembers : HistMembers[i] = HistMembers[j] => i = j

MemberKeys == {HistMembers[i] : i \in DOMAIN HistMembers}
LiveRequest == {"queued", "running"}
LiveItem == {"pending", "running"}
DoneItem == {"completed", "skipped_calendar"}

NoSend == [m \in MemberKeys |-> "none"]
Resting == [pc |-> "idle", item |-> 0, at |-> 0, seen |-> "none", answer |-> "none"]

VARIABLES request,     \* historical_backfill_requests.status, "absent" before it is created
          items,       \* items[d]: historical_backfill_items.status
          works,       \* works[d]: state of the provider work
          rounds,      \* rounds[d]: its current attempt
          fifo,        \* the queued works in order
          sent,        \* sent[d][m]: none, retained, accepted, good or bad
          tries,       \* tries[d][m]: work_budget of the journal
          dispatches,  \* dispatches[d][m]: requests that reached the provider
          worker,      \* the worker process
          cooling,     \* acquisition is held by an account cooldown
          lapsed,      \* the request's window has passed
          losses, switches

histVars == <<request, items, works, rounds, fifo, sent, tries, dispatches, worker, cooling, lapsed,
              losses, switches>>
queueVars == <<works, rounds, fifo>>
envVars == <<cooling, lapsed, losses, switches>>

HistInit ==
    /\ request = "absent" /\ items = [d \in Dates |-> "absent"] /\ works = [d \in Dates |-> "absent"]
    /\ rounds = [d \in Dates |-> [state |-> "open", drain |-> FALSE]] /\ fifo = <<>>
    /\ sent = [d \in Dates |-> NoSend] /\ tries = [d \in Dates |-> [m \in MemberKeys |-> 0]]
    /\ dispatches = [d \in Dates |-> [m \in MemberKeys |-> 0]] /\ worker = Resting
    /\ cooling = FALSE /\ lapsed = FALSE /\ losses = 0 /\ switches = 0

---------------------------------------------------------------------------
(* The Source. *)

\* The dates of a request in order.
InOrder(S) == CHOOSE f \in [1 .. Cardinality(S) -> S] : \A i, j \in 1 .. Cardinality(S) : i < j => f[i] < f[j]

\* create_request(): closed dates are skipped, the others enqueued in order.
CreateRequest(open) ==
    /\ request = "absent"
    /\ items' = [d \in Dates |-> IF d \in open THEN "pending" ELSE "skipped_calendar"]
    /\ works' = [d \in Dates |-> IF d \in open THEN "queued" ELSE "absent"]
    /\ fifo' = InOrder(open)
    /\ request' = IF open = {} THEN "completed" ELSE "queued"
    /\ UNCHANGED <<rounds, sent, tries, dispatches, worker, envVars>>

Retained(d) == sent[d] # NoSend
Pending(d) == \E m \in MemberKeys : sent[d][m] = "retained"
Draining(d) == \E m \in MemberKeys : sent[d][m] = "accepted"

\* _cancel_queued_item_work(): a queued work without retained bytes ends, one with them only drains.
Withdrawn == {d \in Dates : works[d] = "queued" /\ ~Retained(d)}
Unqueue(S) ==
    /\ works' = [d \in Dates |-> IF d \in S \cap Withdrawn THEN "cancelled" ELSE works[d]]
    /\ rounds' = [d \in Dates |-> IF d \in S /\ works[d] = "queued" /\ Retained(d)
                                  THEN [rounds[d] EXCEPT !.drain = TRUE] ELSE rounds[d]]
    /\ fifo' = SelectSeq(fifo, LAMBDA d : d \notin S \cap Withdrawn)
StopItems(S) == [d \in Dates |-> IF d \in S /\ items[d] \in LiveItem THEN "cancelled" ELSE items[d]]

CancelRequest ==
    /\ request \in LiveRequest /\ request' = "cancelled"
    /\ items' = StopItems(Dates) /\ Unqueue(Dates)
    /\ UNCHANGED <<sent, tries, dispatches, worker, envVars>>

\* expire_requests(): the earliest lapsed date fails, its siblings are cancelled.
\* Claim, item claim and completion run it first (reconcile_cancelled_queue).
ExpiryDue == lapsed /\ request \in LiveRequest /\ \E d \in Dates : items[d] \in LiveItem
ExpireRequests ==
    /\ ExpiryDue
    /\ LET first == CHOOSE d \in Dates : items[d] \in LiveItem /\ \A e \in Dates : items[e] \in LiveItem => d <= e
       IN  items' = [StopItems(Dates) EXCEPT ![first] = "failed"]
    /\ request' = "failed" /\ Unqueue(Dates)
    /\ UNCHANGED <<sent, tries, dispatches, worker, envVars>>

Owned == {d \in Dates : works[d] = "owned"}
Stopped == request \notin LiveRequest \/ lapsed

\* The owner's claim: the recovered owner first, else the oldest work that may move.
Claimable(d) == works[d] = "queued" /\ (Pending(d) \/ Draining(d) \/ ~cooling)

\* What the claim answers: scope_stopped, drain_only, state.
Seen(d, round) ==
    IF Stopped THEN "stopped" ELSE IF round.state # "open" THEN "closed"
    ELSE IF round.drain THEN "drain" ELSE "open"
ClaimWork ==
    /\ worker.pc = "idle"
    /\ \E d \in Dates :
          /\ \/ d \in Owned /\ UNCHANGED <<works, fifo>>
             \/ /\ Owned = {} /\ ~ExpiryDue /\ Claimable(d)
                /\ \A k \in DOMAIN fifo : Claimable(fifo[k]) =>
                       \E j \in 1 .. k : fifo[j] = d
                /\ works' = [works EXCEPT ![d] = "owned"] /\ fifo' = SelectSeq(fifo, LAMBDA e : e # d)
          /\ rounds' = [rounds EXCEPT ![d].drain = cooling \/ (@ /\ Stopped)]
          /\ worker' = [Resting EXCEPT !.pc = "claim", !.item = d, !.seen = Seen(d, rounds'[d])]
    /\ UNCHANGED <<request, items, sent, tries, dispatches, envVars>>

Item == worker.item
BodyOf(m) == sent[Item][m]
Then(pc) == [worker EXCEPT !.pc = pc]

\* claim_next_item(): the item the owner stands for, unless nothing of it is left to do.
ClaimItem ==
    /\ worker.pc = "claim" /\ ~ExpiryDue
    /\ \/ /\ request \in LiveRequest /\ items[Item] \in LiveItem
          /\ items' = [items EXCEPT ![Item] = "running"] /\ request' = "running"
          /\ worker' = IF worker.seen = "open" THEN [Then("member") EXCEPT !.at = 1] ELSE Then("drain")
       \/ /\ request \notin LiveRequest /\ Retained(Item)
          /\ worker' = (IF worker.seen = "open" THEN [Then("member") EXCEPT !.at = 1] ELSE Then("drain"))
          /\ UNCHANGED <<items, request>>
       \/ /\ request \notin LiveRequest /\ ~Retained(Item)
          /\ worker' = [Then("close") EXCEPT !.answer = "cancelled"] /\ UNCHANGED <<items, request>>
    /\ UNCHANGED <<queueVars, sent, tries, dispatches, envVars>>

---------------------------------------------------------------------------
(* The worker runs the members of an open round. *)

Member == HistMembers[worker.at]
Fail == [worker EXCEPT !.pc = "complete", !.answer = "failed"]
FailManual == [worker EXCEPT !.pc = "complete", !.answer = "manual"]
Defer == [worker EXCEPT !.pc = "close", !.answer = "retry"]
SetSent(m, v) == sent' = [sent EXCEPT ![Item][m] = v]

\* Faulty variant of Reserved: the budget is not charged before the call.
ReservedNever(t) == t

\* reserve_attempt() of the journal.
Reserved(t) == [t EXCEPT ![Item][Member] = @ + 1]

\* _execute(): the attempt is reserved before the provider can be asked.
Reserve ==
    /\ worker.pc = "member" /\ BodyOf(Member) = "none"
    /\ IF tries[Item][Member] < MaxTries
       THEN tries' = Reserved(tries) /\ worker' = Then("ask")
       ELSE UNCHANGED tries /\ worker' = Fail
    /\ UNCHANGED <<request, items, queueVars, sent, dispatches, envVars>>

\* release_wait_attempt(): only what never reached the provider is given back.
Release(t) == [t EXCEPT ![Item][Member] = IF @ > 0 THEN @ - 1 ELSE 0]

\* authorize_item(): pure observation of the lease, the request and the window.
MayAcquire == items[Item] = "running" /\ request \in LiveRequest /\ ~lapsed /\ rounds[Item].state = "open"
AskStopped ==
    /\ worker.pc = "ask" /\ (~MayAcquire \/ cooling)
    /\ tries' = Release(tries)
    /\ worker' = IF MayAcquire THEN Defer ELSE Fail        \* predispatch quota wait, or suspended
    /\ UNCHANGED <<request, items, queueVars, sent, dispatches, envVars>>

\* The count of dispatches stops one past the budget.
OneMore(n) == IF n > MaxTries THEN n ELSE n + 1
Ask ==
    /\ worker.pc = "ask" /\ MayAcquire /\ ~cooling
    /\ dispatches' = [dispatches EXCEPT ![Item][Member] = OneMore(@)]
    /\ \/ worker' = Then("prepare") \/ worker' = Defer \/ worker' = Fail
    /\ UNCHANGED <<request, items, queueVars, sent, tries, envVars>>

\* SourceAPIClient.prepare(): the Source retains the exact body.
Prepare ==
    /\ worker.pc = "prepare" /\ SetSent(Member, "retained") /\ worker' = Then("member")
    /\ UNCHANGED <<request, items, queueVars, tries, dispatches, envVars>>

\* A retained or restored body is delivered as it is; the provider is not asked again.
Deliver ==
    /\ worker.pc = "member" /\ BodyOf(Member) = "retained"
    /\ \/ SetSent(Member, "accepted") /\ UNCHANGED <<worker, tries>>
       \/ worker' = FailManual /\ UNCHANGED <<sent, tries>>                \* permanent rejection
    /\ UNCHANGED <<request, items, queueVars, dispatches, envVars>>

\* prepared_delivery_wait: the Source answers late or not at all and the round is deferred.
DeliverWaits ==
    /\ worker.pc = "member" /\ BodyOf(Member) = "retained" /\ losses < MaxLosses /\ losses' = losses + 1
    /\ worker' = Defer /\ tries' = Release(tries)
    /\ UNCHANGED <<request, items, queueVars, sent, dispatches, cooling, lapsed, switches>>

\* The run ended: success gives the attempt back.
NextMember ==
    /\ worker.pc = "member" /\ BodyOf(Member) \in {"good", "bad"}
    /\ IF BodyOf(Member) = "bad" THEN worker' = Fail /\ UNCHANGED tries
       ELSE /\ tries' = Release(tries)
            /\ worker' = IF worker.at < Len(HistMembers) THEN [worker EXCEPT !.at = @ + 1]
                         ELSE [Then("complete") EXCEPT !.answer = "completed"]
    /\ UNCHANGED <<request, items, queueVars, sent, dispatches, envVars>>

---------------------------------------------------------------------------
(* Draining, completion and settlement. *)

\* drain_prepared(): every retained body, then the answer its branch calls for.
DrainBody ==
    /\ worker.pc = "drain"
    /\ \E m \in MemberKeys : BodyOf(m) = "retained" /\ SetSent(m, "accepted")
    /\ UNCHANGED <<request, items, queueVars, tries, dispatches, worker, envVars>>

\* A body that predates the price basis never drains.
DrainBlocked ==
    /\ worker.pc = "drain" /\ Pending(Item) /\ worker' = FailManual
    /\ UNCHANGED <<request, items, queueVars, sent, tries, dispatches, envVars>>
Drained ==
    /\ worker.pc = "drain" /\ ~Pending(Item)
    /\ worker' = IF worker.seen = "drain" THEN Defer
                 ELSE IF Retained(Item) THEN [Then("complete") EXCEPT !.answer = "completed"]
                 ELSE IF worker.seen = "stopped" THEN [Then("close") EXCEPT !.answer = "cancelled"] ELSE Defer
    /\ UNCHANGED <<request, items, queueVars, sent, tries, dispatches, envVars>>

\* complete_item() and settle(): a completed date has a good run of every frozen member.
Evidence == \A m \in MemberKeys : sent[Item][m] = "good"
Domain(outcome) ==
    \* the item, its request and its siblings after the outcome
    IF outcome = "failed"
    THEN /\ items' = [StopItems(Dates) EXCEPT ![Item] = "failed"] /\ request' = "failed"
         /\ LET W == (Dates \ {Item}) \cap Withdrawn
            IN  /\ works' = [d \in Dates |-> IF d = Item THEN "failed" ELSE IF d \in W THEN "cancelled" ELSE works[d]]
                /\ fifo' = SelectSeq(fifo, LAMBDA d : d \notin W)
                /\ rounds' = [d \in Dates |-> IF d # Item /\ works[d] = "queued" /\ Retained(d)
                                              THEN [rounds[d] EXCEPT !.drain = TRUE] ELSE rounds[d]]
    ELSE /\ items' = [items EXCEPT ![Item] = "completed"]
         /\ request' = IF \A d \in Dates : items'[d] \in DoneItem THEN "completed" ELSE request
         /\ works' = [works EXCEPT ![Item] = "completed"] /\ UNCHANGED <<fifo, rounds>>

\* The Source answers that the work still drains, and the worker asks again.
\* Its branch for retained bytes has nothing to do: BackfillWhole.
CompleteDrains ==
    /\ worker.pc = "complete" /\ works[Item] = "owned" /\ Draining(Item)
    /\ rounds' = [rounds EXCEPT ![Item].state = "draining"]
    /\ UNCHANGED <<request, items, works, fifo, sent, tries, dispatches, worker, envVars>>
Complete ==
    /\ worker.pc = "complete" /\ ~ExpiryDue /\ works[Item] = "owned"
    /\ ~Draining(Item) /\ (~Pending(Item) \/ worker.answer = "manual")
    /\ \/ /\ items[Item] = "running" /\ request \in LiveRequest
          /\ \/ worker.answer = "completed" /\ Evidence /\ Domain("completed")
             \/ worker.answer # "completed" /\ Domain("failed")
          /\ worker' = Resting
       \/ /\ items[Item] # "running" /\ request \notin LiveRequest          \* the domain decision stands
          /\ works' = [works EXCEPT ![Item] = IF worker.answer = "manual" THEN "failed" ELSE "cancelled"]
          /\ worker' = Resting /\ UNCHANGED <<request, items, fifo, rounds>>
       \/ /\ items[Item] = "running" /\ worker.answer = "completed" /\ ~Evidence /\ request \in LiveRequest
          /\ worker' = (IF worker.seen = "closed" THEN Defer ELSE Fail)
          /\ UNCHANGED <<request, items, queueVars>>
    /\ UNCHANGED <<sent, tries, dispatches, envVars>>

\* owner.settle(): close, then settle; the process may be lost between the two.
Close ==
    /\ worker.pc = "close" /\ rounds' = [rounds EXCEPT ![Item].state = "closed"] /\ worker' = Then("settle")
    /\ UNCHANGED <<request, items, works, fifo, sent, tries, dispatches, envVars>>
Settle ==
    /\ worker.pc = "settle"
    /\ \/ /\ Draining(Item) \/ (worker.answer # "retry" /\ Pending(Item))
          /\ rounds' = [rounds EXCEPT ![Item].state = "draining"] /\ UNCHANGED <<works, fifo, worker>>
       \/ /\ ~Draining(Item) /\ worker.answer = "retry"
          /\ works' = [works EXCEPT ![Item] = "queued"] /\ fifo' = Append(fifo, Item)
          /\ rounds' = [rounds EXCEPT ![Item] = [state |-> "open", drain |-> rounds[Item].drain \/ Stopped]]
          /\ worker' = Resting
       \/ /\ ~Draining(Item) /\ ~Pending(Item) /\ worker.answer = "cancelled"
          /\ works' = [works EXCEPT ![Item] = "cancelled"] /\ worker' = Resting /\ UNCHANGED <<fifo, rounds>>
    /\ UNCHANGED <<request, items, sent, tries, dispatches, envVars>>

---------------------------------------------------------------------------
(* The surroundings. *)

\* The process ends with its owner retained, wherever it was.
LoseWorker ==
    /\ worker.pc # "idle" /\ losses < MaxLosses /\ losses' = losses + 1 /\ worker' = Resting
    /\ \/ worker.pc = "ask" /\ dispatches' = [dispatches EXCEPT ![Item][Member] = OneMore(@)]
       \/ UNCHANGED dispatches
    /\ UNCHANGED <<request, items, queueVars, sent, tries, cooling, lapsed, switches>>
RunEnds ==
    /\ \E d \in Dates, m \in MemberKeys, how \in {"good", "bad"} :
          sent[d][m] = "accepted" /\ sent' = [sent EXCEPT ![d][m] = how]
    /\ UNCHANGED <<request, items, queueVars, tries, dispatches, worker, envVars>>
CooldownStarts ==
    /\ ~cooling /\ switches < MaxSwitches /\ switches' = switches + 1 /\ cooling' = TRUE
    /\ UNCHANGED <<request, items, queueVars, sent, tries, dispatches, worker, lapsed, losses>>
CooldownEnds ==
    /\ cooling /\ cooling' = FALSE
    /\ UNCHANGED <<request, items, queueVars, sent, tries, dispatches, worker, lapsed, losses, switches>>
WindowPasses ==
    /\ ~lapsed /\ request \in LiveRequest /\ lapsed' = TRUE
    /\ UNCHANGED <<request, items, queueVars, sent, tries, dispatches, worker, cooling, losses, switches>>

WorkerStep == \/ ClaimWork \/ ClaimItem \/ Reserve \/ AskStopped \/ Ask \/ Prepare \/ Deliver \/ DeliverWaits \/ NextMember
              \/ DrainBody \/ DrainBlocked \/ Drained \/ CompleteDrains \/ Complete \/ Close \/ Settle
HistNext ==
    \/ (\E open \in SUBSET Dates : CreateRequest(open)) \/ CancelRequest \/ ExpireRequests
    \/ WorkerStep \/ LoseWorker \/ RunEnds \/ CooldownStarts \/ CooldownEnds \/ WindowPasses

HistSpec == HistInit /\ [][HistNext]_histVars

\* The worker polls forever, runs end, cooldowns pass and lapsed dates are expired by the next claim.
HistFair(i) == \/ i = 1 /\ WorkerStep
               \/ i = 2 /\ RunEnds
               \/ i = 3 /\ CooldownEnds
               \/ i = 4 /\ ExpireRequests
HistFairness == \A i \in 1 .. 4 : WF_histVars(HistFair(i))

---------------------------------------------------------------------------
(* Properties. *)

RoundRows == [state : {"open", "closed", "draining"}, drain : BOOLEAN]
WorkerRows == [pc : {"idle", "claim", "member", "ask", "prepare", "drain", "complete", "close", "settle"},
               item : Dates \cup {0}, at : 0 .. Len(HistMembers),
               seen : {"none", "open", "drain", "closed", "stopped"},
               answer : {"none", "completed", "failed", "manual", "retry", "cancelled"}]

\* Requests, items, works, deliveries and the worker stay in their declared states.
HistTypeOK ==
    /\ request \in {"absent", "queued", "running", "completed", "failed", "cancelled"}
    /\ items \in [Dates -> {"absent", "pending", "running", "completed", "failed", "cancelled", "skipped_calendar"}]
    /\ works \in [Dates -> {"absent", "queued", "owned", "completed", "failed", "cancelled"}]
    /\ rounds \in [Dates -> RoundRows] /\ cooling \in BOOLEAN /\ lapsed \in BOOLEAN
    /\ sent \in [Dates -> [MemberKeys -> {"none", "retained", "accepted", "good", "bad"}]]
    /\ tries \in [Dates -> [MemberKeys -> 0 .. MaxTries]] /\ dispatches \in [Dates -> [MemberKeys -> Nat]]
    /\ worker \in WorkerRows

\* A date reads completed only with a good run of every frozen member, a
\* request only when all its dates do, and an ended request leaves no date
\* waiting (complete_item, create_request, cancel_request, expire_requests).
\* A worker reports an outcome only when no body of the date is left to drain,
\* unless it gives a body up for manual review.
BackfillWhole ==
    /\ \A d \in Dates : items[d] = "completed" => \A m \in MemberKeys : sent[d][m] = "good"
    /\ request = "completed" => \A d \in Dates : items[d] \in DoneItem
    /\ request \in {"failed", "cancelled"} => \A d \in Dates : items[d] \notin LiveItem
    /\ worker.pc = "complete" /\ worker.answer # "manual" => ~Pending(Item)

\* Losses, waits and deferred rounds never make the worker ask the provider
\* for one member of one date more often than its budget (_execute,
\* reserve_attempt, release_wait_attempt).
DispatchBudget == \A d \in Dates, m \in MemberKeys : dispatches[d][m] <= MaxTries

\* A backfill reads completed only when it is whole, and no loss of a process
\* makes the worker ask the provider more often than its budget.
BackfillSound == BackfillWhole /\ DispatchBudget

\* A request that exists ends, and every work of it leaves the queue.
BackfillRequested == request # "absent"
BackfillEnded == request \notin LiveRequest /\ \A d \in Dates : works[d] \notin {"queued", "owned"}
=============================================================================
