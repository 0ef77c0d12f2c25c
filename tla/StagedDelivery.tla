--------------------------- MODULE StagedDelivery ---------------------------
(***************************************************************************)
(* The fetcher's sequenced snapshot delivery: the coordinator that takes   *)
(* each symbol of a reviewed universe from provider call to Source run     *)
(* (fetcher shioaji_staging.py, with the production rules of               *)
(* shioaji_scheduler.py and shioaji_historical.py), the durable SQLite     *)
(* state that survives it (shioaji_staging_state.py), the object store it  *)
(* writes raw bytes to (raw_storage.py) and the Source client (client.py). *)
(*                                                                         *)
(* Every step below ends at a durable write or an external call, so the    *)
(* process may stop between any two of them.  Time advances by minutes: an *)
(* attempt's lease is two of them, the provider's window one.  A           *)
(* historical item runs inside a fenced provider work (Source retains the  *)
(* body it prepares) and knows no cutoff; the recurring run has both the   *)
(* other way round.  The rows belong to one Taipei day: whatever is not    *)
(* ended by midnight is never run again.                                   *)
(***************************************************************************)
EXTENDS Integers, Sequences, FiniteSets

CONSTANTS Universe,        \* the symbols in manifest order
          DatasetOf,       \* DatasetOf[symbol]
          CallLimit, WindowLimit,   \* max_attempts_per_sequence, max_requests
          MaxFaults                 \* bound: process losses, waits and failed calls

ASSUME StageAssumption ==
    /\ Universe \in Seq({Universe[i] : i \in DOMAIN Universe}) /\ Universe # <<>>
    /\ DOMAIN DatasetOf = {Universe[i] : i \in DOMAIN Universe}
    /\ CallLimit \in Nat /\ WindowLimit \in Nat

Symbols == {Universe[i] : i \in DOMAIN Universe}
Datasets == {DatasetOf[s] : s \in Symbols}
Modes == {"deliver", "preflight", "check"}
Wrong == {"refused", "inactive"}   \* refused: count mismatch, completed_with_errors, failed
Codes == {"none", "completed", "exhausted", "login", "payload", "cutoff", "uncertain"} \cup Wrong

\* _GLOBAL_TERMINAL_CODES
GlobalCodes == {"login", "payload", "inactive"}

NewSequence == [snapshot |-> FALSE, raw |-> "none", body |-> 0, receipt |-> FALSE,
                terminal |-> "none", status |-> "pending", lease |-> 0]
NoProcess == [pc |-> "idle", at |-> 0, mode |-> "deliver", body |-> 0, then |-> "idle"]

VARIABLES historical,  \* an item of a historical request, or today's recurring run
          sequences,   \* snapshot_sequences
          asked,       \* asked[s]: provider_attempts with their limiter rows; left: the request left the host
          statuses,    \* dataset_snapshots and daily_updates
          preflight,   \* preflight_status = 'validated'
          process,     \* the running coordinator
          retained,    \* retained[s]: the body Source keeps for this member
          uploads,     \* uploads[s]: raw objects written
          offered,     \* offered[s]: every body Source has been shown
          received,    \* received[s]: Source accepted the delivery
          settledAs,   \* settledAs[s]: how Source's run ended
          walked,      \* the recurring run's target is an earlier session (pilot_v3, no session today)
          executed,    \* execution_date of the day's row: none yet, today, or an earlier day
          refused,     \* the last run ended with an answer of Source that no retry mends
          cutoff, faults, nonce

stageVars == <<historical, sequences, asked, statuses, preflight, process, retained, uploads, offered,
               received, settledAs, walked, executed, refused, cutoff, faults, nonce>>
sourceVars == <<retained, uploads, offered, received, settledAs, nonce>>
dayVars == <<walked, executed, refused>>
boundVars == <<historical, cutoff, faults, dayVars>>

StageInit ==
    /\ historical \in BOOLEAN /\ walked \in BOOLEAN /\ (historical => ~walked)
    /\ executed = "none" /\ refused = FALSE
    /\ sequences = [s \in Symbols |-> NewSequence] /\ asked = [s \in Symbols |-> <<>>]
    /\ statuses = [d \in Datasets \cup {"daily"} |-> "pending"] /\ preflight = FALSE
    /\ process = NoProcess /\ retained = [s \in Symbols |-> 0] /\ uploads = [s \in Symbols |-> 0]
    /\ offered = [s \in Symbols |-> {}] /\ received = [s \in Symbols |-> FALSE]
    /\ settledAs = [s \in Symbols |-> "none"] /\ cutoff = FALSE /\ faults = 0 /\ nonce = 0

---------------------------------------------------------------------------
(* The durable state. *)

\* _aggregate_status()
Aggregate(all) ==
    IF "failed" \in all THEN "failed" ELSE IF all = {"completed"} THEN "completed"
    ELSE IF all \subseteq {"pending"} THEN "pending" ELSE "running"

\* _refresh_statuses(): each dataset from its sequences, then the day from its datasets.
SequenceState(q) ==
    IF q.status = "failed" \/ (q.status = "terminal" /\ q.terminal # "completed") THEN "failed"
    ELSE IF q.status = "terminal" THEN "completed" ELSE IF q.status = "pending" THEN "pending" ELSE "running"
DatasetStatus(seqs, d) == Aggregate({SequenceState(seqs[s]) : s \in {x \in Symbols : DatasetOf[x] = d}})
Refreshed(seqs) ==
    [d \in Datasets \cup {"daily"} |-> IF d = "daily" THEN Aggregate({DatasetStatus(seqs, e) : e \in Datasets})
                                      ELSE DatasetStatus(seqs, d)]

\* One transaction: the row and the statuses.
Commit(s, q) == sequences' = [sequences EXCEPT ![s] = q] /\ statuses' = Refreshed(sequences')
Terminal(q, code) == [q EXCEPT !.terminal = code, !.status = "terminal", !.lease = 0]

\* A call counts unless it is proven to have waited before dispatch.
Counted(c) == c.outcome # "waiting"

\* budget_used()
CountedCalls(s) == {k \in DOMAIN asked[s] : Counted(asked[s][k])}
BudgetUsed(s) == Cardinality(CountedCalls(s))

\* The limiter rows of the window.
WindowCalls == UNION {{<<s, k>> : k \in {n \in CountedCalls(s) : asked[s][n].fresh}} : s \in Symbols}
WindowUsed == Cardinality(WindowCalls)
LastCall(s, outcome, left) ==
    LET n == Len(asked[s])
    IN  [asked EXCEPT ![s] = [asked[s] EXCEPT ![n] = [asked[s][n] EXCEPT !.outcome = outcome, !.left = left]]]

---------------------------------------------------------------------------
(* One run of the coordinator. *)

Now(pc) == process.pc = pc
Symbol == Universe[process.at]
Row == sequences[Symbol]
LastRow == IF process.mode = "preflight" THEN 1 ELSE Len(Universe)
Over == NoProcess
NextRow == IF process.at < LastRow THEN [process EXCEPT !.pc = "row", !.at = @ + 1, !.body = 0] ELSE Over
Goto(pc) == [process EXCEPT !.pc = pc]

\* mark_terminal(), save_raw(), save_prepared(), save_source(): the row commits
\* on its own, the statuses follow in statements of their own.
Save(q, then) ==
    /\ sequences' = [sequences EXCEPT ![Symbol] = q] /\ UNCHANGED statuses
    /\ process' = [process EXCEPT !.pc = "refresh", !.then = then]
Refresh ==
    /\ Now("refresh") /\ statuses' = Refreshed(sequences)
    /\ process' = CASE process.then = "next" -> NextRow [] process.then = "over" -> Over
                    [] OTHER -> Goto(process.then)
    /\ UNCHANGED <<sequences, asked, preflight, sourceVars, boundVars>>

Late == cutoff /\ ~historical
Fresh == \A s \in Symbols : sequences[s] = NewSequence /\ asked[s] = <<>>

\* What run() asks of the state once ensure() has made its rows.
Admitted(mode) == (mode = "preflight" => Fresh) /\ (mode = "check" => preflight)

\* Coordinator.run(): the checks before the loop.  ensure() keeps the day of its
\* first call and refuses the rows on any other.
StartRun(mode) ==
    /\ Now("idle") /\ ~Late /\ executed # "earlier"
    /\ mode # "deliver" => ~historical
    /\ executed' = "today" /\ refused' = FALSE /\ statuses' = Refreshed(sequences)
    /\ process' = IF Admitted(mode) THEN [NoProcess EXCEPT !.pc = "row", !.at = 1, !.mode = mode]
                  ELSE NoProcess
    /\ UNCHANGED <<sequences, asked, preflight, sourceVars, historical, cutoff, faults, walked>>

\* A row that is done, or one whose acquisition comes too late.
SkipRow ==
    /\ Now("row")
    /\ \/ Row.terminal # "none" /\ process' = (IF Row.terminal \in GlobalCodes THEN Over ELSE NextRow)
       \/ Row.terminal = "none" /\ ~Row.snapshot /\ Late /\ process' = Over
       \/ Row.terminal = "none" /\ Row.snapshot /\ process' = Goto("build")
    /\ UNCHANGED <<sequences, asked, statuses, preflight, sourceVars, boundVars>>

\* acquire_attempt(): the attempt is recorded before the provider is asked.
Exhausted == BudgetUsed(Symbol) >= CallLimit

\* terminal_on_exhaustion
EndsExhausted == Exhausted /\ Row.lease = 0
AcquireAttempt ==
    /\ Now("row") /\ Row.terminal = "none" /\ ~Row.snapshot /\ ~Late
    /\ \/ /\ EndsExhausted
          /\ Commit(Symbol, Terminal(Row, "exhausted")) /\ process' = NextRow /\ UNCHANGED asked
       \/ /\ ~EndsExhausted /\ (Exhausted \/ Row.lease > 0 \/ WindowUsed >= WindowLimit)
          /\ process' = Over /\ UNCHANGED <<sequences, statuses, asked>>
       \/ /\ ~Exhausted /\ Row.lease = 0 /\ WindowUsed < WindowLimit
          /\ sequences' = [sequences EXCEPT ![Symbol].lease = 2, ![Symbol].status = "acquiring"]
          /\ asked' = [asked EXCEPT ![Symbol] =
                           Append(@, [outcome |-> "started", fresh |-> TRUE, left |-> FALSE])]
          /\ process' = Goto("call") /\ UNCHANGED statuses
    /\ UNCHANGED <<preflight, sourceVars, boundVars>>

\* finish_attempt()
FinishAttempt(outcome, left, code) ==
    /\ asked' = LastCall(Symbol, outcome, left)
    /\ Commit(Symbol, [Row EXCEPT !.lease = 0, !.terminal = IF code = "retry" THEN @ ELSE code,
                                  !.status = IF code = "retry" THEN "pending" ELSE "failed"])
    /\ process' = Over
    /\ UNCHANGED <<preflight, sourceVars>>

\* A retryable failure of the last allowed call ends the sequence.
RetryCode == IF Exhausted THEN "exhausted" ELSE "retry"

\* The cutoff passed while the attempt was being recorded.
CallTooLate == Now("call") /\ Late /\ FinishAttempt("failed", FALSE, "cutoff") /\ UNCHANGED boundVars

\* fetch_kbars(), then complete_attempt_with_snapshot() or the handler of its error.
CallAnswered ==
    /\ Now("call") /\ ~Late
    /\ asked' = LastCall(Symbol, "success", TRUE)
    /\ Commit(Symbol, [Row EXCEPT !.snapshot = TRUE, !.lease = 0, !.status = "acquired"])
    /\ process' = Goto("build") /\ UNCHANGED <<preflight, sourceVars, boundVars>>
CallFailed ==
    /\ Now("call") /\ ~Late
    /\ \/ FinishAttempt("failed", TRUE, "payload")                  \* unusable answer
       \/ FinishAttempt("failed", FALSE, "login")                   \* credentials, login, SDK
       \/ FinishAttempt("failed", TRUE, RetryCode)                  \* timeout, quota after dispatch
    /\ UNCHANGED boundVars
CallWaits ==
    /\ Now("call") /\ ~Late /\ faults < MaxFaults /\ faults' = faults + 1
    /\ FinishAttempt("waiting", FALSE, "retry")                     \* QUOTA_WAIT, SOURCE_WAIT
    /\ UNCHANGED <<historical, cutoff, dayVars>>

\* Source became unavailable after the request left: the attempt stays started.
CallLost ==
    /\ Now("call") /\ ~Late /\ historical /\ faults < MaxFaults /\ faults' = faults + 1
    /\ asked' = LastCall(Symbol, "started", TRUE) /\ process' = Over
    /\ UNCHANGED <<sequences, statuses, preflight, sourceVars, historical, cutoff, dayVars>>

\* mark_preflight_validated()
MarkPreflight == preflight' = (preflight \/ process.mode = "preflight")

\* build_market_minute_request() and the contract check.
Build ==
    /\ Now("build")
    /\ \/ Save(Terminal(Row, "payload"), "over") /\ UNCHANGED preflight      \* or CONTRACT_INVALID
       \/ /\ process.mode = "deliver" /\ process' = Goto("deliver")
          /\ UNCHANGED <<sequences, statuses, preflight>>
       \/ /\ process.mode # "deliver" /\ process' = NextRow
          /\ MarkPreflight
          /\ UNCHANGED <<sequences, statuses>>
    /\ UNCHANGED <<asked, sourceVars, boundVars>>

\* get_prepared(), then owner.restore(): a body is never built twice.
Restorable == historical /\ retained[Symbol] # 0
ReusePrepared ==
    /\ Now("deliver") /\ Row.body # 0
    /\ process' = [Goto("send") EXCEPT !.body = Row.body]
    /\ UNCHANGED <<sequences, asked, statuses, preflight, sourceVars, boundVars>>
RestorePrepared ==
    /\ Now("deliver") /\ Row.body = 0 /\ Restorable
    /\ process' = [Goto("keep") EXCEPT !.body = retained[Symbol]]
    /\ UNCHANGED <<sequences, asked, statuses, preflight, sourceVars, boundVars>>

\* Faulty variant of Uncertain: an upload that was begun is begun again.
UncertainStored(q) == q.raw = "stored"

\* begin_raw(): the intent to upload; one found unfinished proves nothing.
Uncertain(q) == q.raw = "uploading"
BeginRaw ==
    /\ Now("deliver") /\ Row.body = 0 /\ ~Restorable
    /\ \/ /\ Row.raw # "stored" /\ ~Uncertain(Row)
          /\ sequences' = [sequences EXCEPT ![Symbol].raw = "uploading", ![Symbol].status = "raw_uploading"]
          /\ process' = Goto("upload") /\ UNCHANGED statuses
       \/ Row.raw # "stored" /\ Uncertain(Row) /\ Save(Terminal(Row, "uncertain"), "next")
       \/ Row.raw = "stored" /\ process' = Goto("prepare") /\ UNCHANGED <<sequences, statuses>>
    /\ UNCHANGED <<asked, preflight, sourceVars, boundVars>>

\* R2RawPayloadStore.persist(): it may fail before or after the object exists.
Upload ==
    /\ Now("upload") /\ uploads' = [uploads EXCEPT ![Symbol] = @ + 1] /\ process' = Goto("save_raw")
    /\ UNCHANGED <<sequences, asked, statuses, preflight, retained, offered, received, settledAs, nonce, boundVars>>
UploadFails ==
    /\ Now("upload") /\ faults < MaxFaults /\ faults' = faults + 1
    /\ \E n \in {0, 1} : uploads' = [uploads EXCEPT ![Symbol] = @ + n]
    /\ process' = Over
    /\ UNCHANGED <<sequences, asked, statuses, preflight, retained, offered, received, settledAs, nonce,
                   historical, cutoff, dayVars>>
SaveRaw ==
    /\ Now("save_raw") /\ Save([Row EXCEPT !.raw = "stored", !.status = "raw_persisted"], "prepare")
    /\ UNCHANGED <<asked, preflight, sourceVars, boundVars>>

\* SourceAPIClient.prepare(): a new body (its time is in it), retained by Source under the work.
Prepare ==
    /\ Now("prepare") /\ nonce' = nonce + 1
    /\ process' = [Goto("keep") EXCEPT !.body = nonce']
    /\ IF historical
       THEN /\ offered' = [offered EXCEPT ![Symbol] = @ \cup {nonce'}]
            /\ retained' = [retained EXCEPT ![Symbol] = IF @ = 0 THEN nonce' ELSE @]
       ELSE UNCHANGED <<offered, retained>>
    /\ UNCHANGED <<sequences, asked, statuses, preflight, uploads, received, settledAs, boundVars>>

\* save_prepared(): the first body stays.
SavePrepared ==
    /\ Now("keep")
    /\ Save([Row EXCEPT !.body = IF @ = 0 THEN process.body ELSE @, !.status = "prepared"], "send")
    /\ UNCHANGED <<asked, preflight, sourceVars, boundVars>>

\* SourceAPIClient.deliver(): the request reaches Source or not, its answer returns or not.
DeliverBody ==
    /\ Now("send")
    /\ offered' = [offered EXCEPT ![Symbol] = @ \cup {process.body}]
    /\ received' = [received EXCEPT ![Symbol] = TRUE] /\ process' = Goto("poll")
    /\ UNCHANGED <<sequences, asked, statuses, preflight, retained, uploads, settledAs, nonce, boundVars>>
DeliverFails ==
    /\ Now("send") /\ faults < MaxFaults /\ faults' = faults + 1
    /\ \/ received' = [received EXCEPT ![Symbol] = TRUE]
       \/ UNCHANGED received
    /\ offered' = [offered EXCEPT ![Symbol] = @ \cup {process.body}] /\ process' = Over
    /\ UNCHANGED <<sequences, asked, statuses, preflight, retained, uploads, settledAs, nonce,
                   historical, cutoff, dayVars>>
DeliverInactive ==
    /\ Now("send") /\ ~received[Symbol] /\ Save(Terminal(Row, "inactive"), "over")
    /\ UNCHANGED <<asked, preflight, sourceVars, boundVars>>


\* A 4xx of Source, for the body or for its run: the run fails, the row keeps no end.
SourceRefuses ==
    /\ (Now("prepare") /\ historical) \/ Now("send") \/ Now("poll")
    /\ offered' = IF Now("send") THEN [offered EXCEPT ![Symbol] = @ \cup {process.body}] ELSE offered
    /\ refused' = TRUE /\ process' = Over
    /\ UNCHANGED <<sequences, asked, statuses, preflight, retained, uploads, received, settledAs, nonce,
                   historical, cutoff, faults, walked, executed>>

\* get_run_status(), read by _wait_terminal() with _source_counts_match()
RunEnded == settledAs[Symbol] # "none"

\* save_source(): without a terminal code when the wait ran out.
Poll ==
    /\ Now("poll")
    /\ \/ /\ ~RunEnded
          /\ Save([Row EXCEPT !.receipt = TRUE, !.status = "delivered"], "over")
       \/ /\ RunEnded
          /\ Save([Row EXCEPT !.receipt = TRUE, !.status = "terminal", !.terminal = settledAs[Symbol]],
                  IF settledAs[Symbol] = "inactive" THEN "over" ELSE "next")
    /\ UNCHANGED <<asked, preflight, sourceVars, boundVars>>

---------------------------------------------------------------------------
(* The surroundings. *)

\* ShioajiProductionScheduler.run_once() after the cutoff: mark_cutoff() ends the
\* rows of today's target, never those of an earlier session it walked back to.
MarkCutoff ==
    /\ Now("idle") /\ Late /\ ~walked /\ executed = "today"
    /\ \E s \in Symbols : sequences[s].terminal = "none"
    /\ sequences' = [s \in Symbols |-> IF sequences[s].terminal = "none"
                                       THEN Terminal(sequences[s], "cutoff") ELSE sequences[s]]
    /\ asked' = [s \in Symbols |-> [k \in DOMAIN asked[s] |->
                    IF asked[s][k].outcome = "started" THEN [asked[s][k] EXCEPT !.outcome = "failed"]
                    ELSE asked[s][k]]]
    /\ statuses' = Refreshed(sequences')
    /\ UNCHANGED <<preflight, process, sourceVars, boundVars>>

\* Source normalizes the accepted delivery.
SourceSettles(s) ==
    /\ received[s] /\ settledAs[s] = "none"
    /\ \E how \in {"completed"} \cup Wrong : settledAs' = [settledAs EXCEPT ![s] = how]
    /\ UNCHANGED <<sequences, asked, statuses, preflight, process, retained, uploads, offered, received,
                   nonce, boundVars>>

Minute ==
    /\ \E s \in Symbols : sequences[s].lease > 0 \/ \E k \in DOMAIN asked[s] : asked[s][k].fresh
    /\ sequences' = [s \in Symbols |-> [sequences[s] EXCEPT !.lease = IF @ > 0 THEN @ - 1 ELSE 0]]
    /\ asked' = [s \in Symbols |-> [k \in DOMAIN asked[s] |-> [asked[s][k] EXCEPT !.fresh = FALSE]]]
    /\ UNCHANGED <<statuses, preflight, process, sourceVars, boundVars>>

\* 17:00 of the rows' day; a run that goes on into the next day is over before the next.
DayEnds ==
    /\ ~historical /\ ~cutoff /\ executed # "earlier" /\ cutoff' = TRUE
    /\ UNCHANGED <<sequences, asked, statuses, preflight, process, sourceVars, historical, faults, dayVars>>

\* Taipei's next day: the cutoff lies ahead again, the rows keep their day.
NextDay ==
    /\ executed = "today" /\ (historical \/ cutoff)
    /\ executed' = "earlier" /\ cutoff' = FALSE
    /\ UNCHANGED <<sequences, asked, statuses, preflight, process, sourceVars, historical, faults, walked, refused>>

\* The process stops; a call it was making may already have left.
Stop ==
    /\ ~Now("idle") /\ faults < MaxFaults /\ faults' = faults + 1 /\ process' = NoProcess
    /\ \/ Now("call") /\ asked' = LastCall(Symbol, "started", TRUE)
       \/ UNCHANGED asked
    /\ UNCHANGED <<sequences, statuses, preflight, sourceVars, historical, cutoff, dayVars>>

StageStep ==
    \/ SkipRow \/ AcquireAttempt \/ CallTooLate \/ CallAnswered \/ CallFailed \/ Build
    \/ ReusePrepared \/ RestorePrepared \/ BeginRaw \/ Upload \/ SaveRaw \/ Prepare \/ SavePrepared
    \/ DeliverBody \/ DeliverInactive \/ Poll \/ Refresh
StageNext ==
    \/ StageStep \/ (\E mode \in Modes : StartRun(mode))
    \/ CallWaits \/ CallLost \/ UploadFails \/ DeliverFails \/ SourceRefuses
    \/ MarkCutoff \/ (\E s \in Symbols : SourceSettles(s)) \/ Minute \/ DayEnds \/ NextDay \/ Stop

StageSpec == StageInit /\ [][StageNext]_stageVars

\* The worker keeps polling its work, Source keeps normalizing, time passes.
\* NextDay is not fair: what holds because the day is over shows nothing.
StageFair(i) == \/ i = 1 /\ StageStep
                \/ i = 2 /\ StartRun("deliver")
                \/ i = 3 /\ Minute
                \/ i = 4 /\ MarkCutoff
                \/ i = 5 /\ DayEnds
                \/ i - 5 \in DOMAIN Universe /\ SourceSettles(Universe[i - 5])
StageFairness == \A i \in 1 .. 5 + Len(Universe) : WF_stageVars(StageFair(i))

---------------------------------------------------------------------------
(* Properties. *)

\* The rows, the calls and the process stay in their declared ranges.
SequenceRows == [snapshot : BOOLEAN, raw : {"none", "uploading", "stored"}, body : Nat, receipt : BOOLEAN,
                 terminal : Codes, lease : 0 .. 2,
                 status : {"pending", "acquiring", "acquired", "raw_uploading", "raw_persisted", "prepared",
                           "delivered", "terminal", "failed"}]
CallRows == [outcome : {"started", "success", "failed", "waiting"}, fresh : BOOLEAN, left : BOOLEAN]
Stages == {"idle", "row", "call", "build", "deliver", "upload", "save_raw", "prepare", "keep", "send", "poll",
           "refresh", "next", "over"}
Coordinators == [pc : Stages \ {"next", "over"}, at : 0 .. Len(Universe), mode : Modes, body : Nat, then : Stages]

StoredTypeOK ==
    /\ sequences \in [Symbols -> SequenceRows] /\ asked \in [Symbols -> Seq(CallRows)]
    /\ statuses \in [Datasets \cup {"daily"} -> {"pending", "running", "completed", "failed"}]
    /\ process \in Coordinators
    /\ historical \in BOOLEAN /\ preflight \in BOOLEAN /\ cutoff \in BOOLEAN /\ nonce \in Nat
    /\ retained \in [Symbols -> Nat] /\ uploads \in [Symbols -> Nat] /\ offered \in [Symbols -> SUBSET Nat]
    /\ received \in [Symbols -> BOOLEAN] /\ settledAs \in [Symbols -> {"none", "completed"} \cup Wrong]
DayTypeOK == walked \in BOOLEAN /\ executed \in {"none", "today", "earlier"} /\ refused \in BOOLEAN
StageTypeOK == StoredTypeOK /\ DayTypeOK

\* No restart, wait or lost answer makes the coordinator ask the provider more
\* often than the reviewed budget of a symbol or of a window allows
\* (acquire_attempt, budget_used).
CallsWithinBudget ==
    /\ \A s \in Symbols : Cardinality({k \in DOMAIN asked[s] : asked[s][k].left}) <= CallLimit
    /\ Cardinality({p \in UNION {{s} \X DOMAIN asked[s] : s \in Symbols} :
           asked[p[1]][p[2]].fresh /\ asked[p[1]][p[2]].left}) <= WindowLimit

\* Whatever step the process stops at, Source is shown one body per symbol and
\* the raw object of a symbol is uploaded once (restore, save_prepared, begin_raw).
OneStagedBody == \A s \in Symbols : (\A b, c \in offered[s] : b = c) /\ uploads[s] <= 1

\* A day or dataset reads completed only when Source completed the run of every
\* symbol in it with matching counts, although statuses are refreshed after the
\* rows they summarize (_refresh_statuses, _wait_terminal).
CompletedMeansAccepted ==
    \A d \in Datasets \cup {"daily"} :
        statuses[d] = "completed" =>
            \A s \in Symbols : (d = "daily" \/ DatasetOf[s] = d) => settledAs[s] = "completed"

\* The provider is not overcharged, Source is shown one body of a symbol and
\* completed means completed, whatever step the process stops at.
StagedSound == CallsWithinBudget /\ OneStagedBody /\ CompletedMeansAccepted

\* Nothing will touch the rows again: their day is over, or the cutoff has come
\* for a target that mark_cutoff() does not know.
Abandoned == executed = "earlier" \/ (walked /\ cutoff)

\* A day's rows do not stay retryable: while their day lasts and Source takes
\* what it is sent, every symbol reaches a terminal code or a failure of the
\* whole universe has stopped the run (terminal_on_exhaustion, mark_cutoff).
\* Rows that miss their day, or that Source refuses with a 4xx, stay as they are.
StagingSettled ==
    executed # "none" =>
        \/ \A s \in Symbols : sequences[s].terminal # "none"
        \/ \E s \in Symbols : sequences[s].terminal \in GlobalCodes
        \/ refused \/ Abandoned
=============================================================================
