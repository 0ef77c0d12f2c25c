-------------------------- MODULE IngestionLedger --------------------------
(***************************************************************************)
(* The durable ledger of ingest attempts beside the raw payloads they      *)
(* create (backend/app/services/canonical_ingestion.py, ingestion.py and   *)
(* ingestion_attempts.py).                                                 *)
(*                                                                         *)
(* A request first commits a "received" attempt, then claims that row with *)
(* a row lock and keeps the lock through one transaction that stores raw   *)
(* payload, run, receipt and job and ends the attempt.  That transaction   *)
(* reads and writes under the provider lock (acceptance locks it first)    *)
(* and the lock of its idempotency scope, so it is one step here, and the  *)
(* unique constraint behind the locks never fires.  What is concurrent is  *)
(* around it: other tries of the same delivery, the process dying, the     *)
(* database failing before or after a commit, the rollback that gives the  *)
(* row lock up before the rejection is written, and the dispatcher that    *)
(* aborts attempts nobody seems to work on any more.                       *)
(*                                                                         *)
(* Answers are classes of HTTP status: "accepted" is 202, "rejected" any   *)
(* 4xx, "unavailable" 503 and "internal" 500.  A run is named after the    *)
(* request that created it.  Retention is the subject of RawRetention.     *)
(***************************************************************************)
EXTENDS Naturals, FiniteSets

CONSTANTS Requests,   \* ingest requests; a retry is another request
          Keys,       \* (source client, dataset, idempotency key)
          Bodies,     \* payload digest, source, schema and delivery part
          Key,        \* the key of each request
          Body,       \* the content of each request
          NoRun,      \* no ingestion run
          BatchSize   \* INGESTION_ATTEMPT_RECONCILE_BATCH_SIZE

ASSUME LedgerAssumption ==
    /\ NoRun \notin Requests
    /\ Key \in [Requests -> Keys]
    /\ Body \in [Requests -> Bodies]
    /\ BatchSize \in Nat \ {0}

VARIABLES attempt,   \* ingestion_attempt.status, "none" before the row exists
          run_id,    \* ingestion_attempt.run_id
          raw,       \* market_payload.run_id by key, NoRun without a row
          pc,        \* how far the handler of the request is
          error,     \* the answer a rolled back request is going to give
          answer     \* what the caller was told

vars == <<attempt, run_id, raw, pc, error, answer>>

Stored == {"accepted", "duplicate"}
Ended == Stored \cup {"rejected", "aborted"}
Errors == {"rejected", "unavailable", "internal"}

TypeOK ==
    /\ attempt \in [Requests -> {"none", "received"} \cup Ended]
    /\ run_id \in [Requests -> Requests \cup {NoRun}]
    /\ raw \in [Keys -> Requests \cup {NoRun}]
    /\ pc \in [Requests ->
                 {"idle", "begun", "claimed", "failed", "stored", "done"}]
    /\ error \in [Requests -> Errors \cup {"none"}]
    /\ answer \in [Requests -> Errors \cup {"none", "accepted"}]
    /\ \A r \in Requests : pc[r] = "failed" => error[r] \in Errors

Init ==
    /\ attempt = [r \in Requests |-> "none"]
    /\ run_id = [r \in Requests |-> NoRun]
    /\ raw = [k \in Keys |-> NoRun]
    /\ pc = [r \in Requests |-> "idle"]
    /\ error = [r \in Requests |-> "none"]
    /\ answer = [r \in Requests |-> "none"]

Answered(r, code) ==
    /\ pc' = [pc EXCEPT ![r] = "done"]
    /\ answer' = [answer EXCEPT ![r] = code]

---------------------------------------------------------------------------
(* begin(): persist the attempt, then claim its row. *)

Begin(r) ==
    /\ pc[r] = "idle"
    /\ attempt' = [attempt EXCEPT ![r] = "received"]
    /\ pc' = [pc EXCEPT ![r] = "begun"]
    /\ UNCHANGED <<run_id, raw, error, answer>>

\* The commit raises, with or without having taken effect; the caller gets a
\* status without an attempt id.
BeginFails(r) ==
    /\ pc[r] = "idle"
    /\ \E status \in {"none", "received"} :
          attempt' = [attempt EXCEPT ![r] = status]
    /\ \E code \in {"unavailable", "internal"} : Answered(r, code)
    /\ UNCHANGED <<run_id, raw, error>>

\* SELECT ... FOR UPDATE.  The status is not looked at: the row may have been
\* aborted since it was committed.
Claim(r) ==
    /\ pc[r] = "begun"
    /\ pc' = [pc EXCEPT ![r] = "claimed"]
    /\ UNCHANGED <<attempt, run_id, raw, error, answer>>

\* Faulty variant of ClaimFails: the error is answered, the handler goes on.
ClaimFailsGoesOn(r) ==
    /\ pc[r] = "begun"
    /\ pc' = [pc EXCEPT ![r] = "claimed"]
    /\ answer' = [answer EXCEPT ![r] = "unavailable"]
    /\ UNCHANGED <<attempt, run_id, raw, error>>

ClaimFails(r) ==
    /\ pc[r] = "begun"
    /\ \E code \in {"unavailable", "internal"} : Answered(r, code)
    /\ UNCHANGED <<attempt, run_id, raw, error>>

---------------------------------------------------------------------------
(* The ingest transaction. *)

\* Faulty variants of Commit: without the test of the status, and with a
\* broken connection reported as a refusal.
CommitUnchecked(r, status, run) ==
    /\ attempt' = [attempt EXCEPT ![r] = status]
    /\ run_id' = [run_id EXCEPT ![r] = run]
    /\ pc' = [pc EXCEPT ![r] = "stored"]
    /\ UNCHANGED <<error, answer>>

CommitLostIsRefusal(r, status, run) ==
    /\ attempt[r] = "received"
    /\ attempt' = [attempt EXCEPT ![r] = status]
    /\ run_id' = [run_id EXCEPT ![r] = run]
    /\ \/ /\ pc' = [pc EXCEPT ![r] = "stored"]
          /\ UNCHANGED error
       \/ /\ pc' = [pc EXCEPT ![r] = "failed"]
          /\ error' = [error EXCEPT ![r] = "rejected"]
    /\ UNCHANGED answer

\* mark_accepted() and the commit.  The connection may break after the commit
\* took effect: the handler then sees a DBAPIError.
Commit(r, status, run) ==
    /\ attempt[r] = "received"
    /\ attempt' = [attempt EXCEPT ![r] = status]
    /\ run_id' = [run_id EXCEPT ![r] = run]
    /\ \/ /\ pc' = [pc EXCEPT ![r] = "stored"]
          /\ UNCHANGED error
       \/ /\ pc' = [pc EXCEPT ![r] = "failed"]
          /\ error' = [error EXCEPT ![r] = "unavailable"]
    /\ UNCHANGED answer

\* ingest_contract() of a key without a raw payload.
Accept(r) ==
    /\ pc[r] = "claimed"
    /\ raw[Key[r]] = NoRun
    /\ raw' = [raw EXCEPT ![Key[r]] = r]
    /\ Commit(r, "accepted", r)

\* Faulty variant of AcceptExisting: the content is not compared.
AcceptExistingKey(r) ==
    /\ pc[r] = "claimed"
    /\ raw[Key[r]] # NoRun
    /\ Commit(r, "duplicate", raw[Key[r]])
    /\ UNCHANGED raw

\* _accept_existing_contract_delivery(): the same content again.
AcceptExisting(r) ==
    /\ pc[r] = "claimed"
    /\ raw[Key[r]] # NoRun
    /\ Body[raw[Key[r]]] = Body[r]
    /\ Commit(r, "duplicate", raw[Key[r]])
    /\ UNCHANGED raw

\* The 202 leaves.
Respond(r) ==
    /\ pc[r] = "stored"
    /\ Answered(r, "accepted")
    /\ UNCHANGED <<attempt, run_id, raw, error>>

---------------------------------------------------------------------------
(* Rejections. *)

\* _reject() and reject(): an attempt that is no longer "received" is left
\* alone.  A DBAPIError is logged and the intended answer is still given,
\* whether or not the commit took effect; any other failure becomes a 500.
Rejected(r, code) ==
    /\ \E saved \in BOOLEAN, told \in {code, "internal"} :
          /\ saved => told = code
          /\ attempt' = [attempt EXCEPT ![r] =
                           IF saved /\ @ = "received" THEN "rejected" ELSE @]
          /\ Answered(r, told)
    /\ UNCHANGED <<run_id, raw, error>>

\* Inside the transaction and with the row lock: invalid, not allowed,
\* refused by the delivery policy, or a key that has other content.
Reject(r) == pc[r] = "claimed" /\ Rejected(r, "rejected")

\* Faulty variant of RollBack: the error is not kept.
RollBackSilently(r) ==
    /\ pc[r] = "claimed"
    /\ pc' = [pc EXCEPT ![r] = "failed"]
    /\ UNCHANGED <<attempt, run_id, raw, error, answer>>

\* The transaction rolls back, and the row lock is gone: the provider work
\* fence (409), a database error (503), or anything else (500), for example
\* an attempt that was aborted before it was claimed.
RollBack(r) ==
    /\ pc[r] = "claimed"
    /\ pc' = [pc EXCEPT ![r] = "failed"]
    /\ \E code \in Errors : error' = [error EXCEPT ![r] = code]
    /\ UNCHANGED <<attempt, run_id, raw, answer>>

\* Only the rollback after a provider work error is not guarded.
RollBackRaises(r) ==
    /\ pc[r] = "claimed"
    /\ \E code \in {"unavailable", "internal"} : Answered(r, code)
    /\ UNCHANGED <<attempt, run_id, raw, error>>

RejectAfterRollBack(r) == pc[r] = "failed" /\ Rejected(r, error[r])

---------------------------------------------------------------------------
(* The environment and the dispatcher. *)

\* The process dies or the caller disconnects: no answer, locks released.
Crash(r) ==
    /\ pc[r] \notin {"idle", "done"}
    /\ pc' = [pc EXCEPT ![r] = "done"]
    /\ UNCHANGED <<attempt, run_id, raw, error, answer>>

\* The row lock of begin() is held until the transaction ends.
RowLocked(r) == pc[r] = "claimed"

\* FOR UPDATE SKIP LOCKED.  A row may be older than
\* INGESTION_ATTEMPT_STALE_SECONDS at any time: a handler can be that slow.
Abandoned == {r \in Requests : attempt[r] = "received" /\ ~RowLocked(r)}

\* One pass takes a full batch when there is one; which rows are the oldest is
\* left open.
ReconcileStaleAttempts ==
    /\ \E S \in SUBSET Abandoned :
          /\ S # {}
          /\ S = Abandoned \/ Cardinality(S) = BatchSize
          /\ Cardinality(S) <= BatchSize
          /\ attempt' = [r \in Requests |->
                           IF r \in S THEN "aborted" ELSE attempt[r]]
    /\ UNCHANGED <<run_id, raw, pc, error, answer>>

---------------------------------------------------------------------------
(* What the handler does next, and the specification. *)

Handle(r) ==
    \/ Claim(r) \/ ClaimFails(r)
    \/ Accept(r) \/ AcceptExisting(r) \/ Respond(r)
    \/ Reject(r) \/ RollBack(r) \/ RollBackRaises(r) \/ RejectAfterRollBack(r)

Next ==
    \/ \E r \in Requests :
          \/ Begin(r) \/ BeginFails(r)
          \/ Handle(r)
          \/ Crash(r)
    \/ ReconcileStaleAttempts

Spec == Init /\ [][Next]_vars

---------------------------------------------------------------------------
(* Properties. *)

\* Ledger and raw layer agree: a stored payload belongs to exactly the one
\* attempt that is "accepted" for its key, that attempt names its run, and a
\* "duplicate" names the run of a payload with the same content.  It joins
\* mark_accepted(), the idempotency lookup of ingest_contract() and reject()
\* over every failure between them.
LedgerMatchesRaw ==
    /\ \A k \in Keys : raw[k] # NoRun =>
          Key[raw[k]] = k /\ attempt[raw[k]] = "accepted"
    /\ \A r \in Requests :
          /\ attempt[r] = "accepted" => raw[Key[r]] = r
          /\ attempt[r] = "duplicate" =>
                /\ raw[Key[r]] \notin {r, NoRun}
                /\ Body[raw[Key[r]]] = Body[r]
          /\ run_id[r] = IF attempt[r] \in Stored THEN raw[Key[r]] ELSE NoRun

\* The answer of accept_canonical_ingest() is true of the ledger: after a 202
\* the attempt is stored, and a refused (4xx) attempt never is, however the
\* commit and the writing of the rejection failed.
AnswerHolds ==
    \A r \in Requests :
        /\ answer[r] = "accepted" => attempt[r] \in Stored
        /\ answer[r] = "rejected" => attempt[r] \notin Stored

\* No handler and no reconciliation pass ever rewrites an attempt that has
\* ended, its run, or the payload a key is bound to: late rejections, late
\* commits and the dispatcher all lose against whoever ended it first.
EndedIsFinal ==
    [][/\ \A r \in Requests : attempt[r] \in Ended =>
             attempt'[r] = attempt[r] /\ run_id'[r] = run_id[r]
       /\ \A k \in Keys : raw[k] # NoRun => raw'[k] = raw[k]]_vars

Promise == INSTANCE IngestPromise WITH
    kept <- raw, told <- answer, NoRequest <- NoRun

\* The ledger implements the promise the endpoint makes to its callers: one
\* payload per key, nothing stored on behalf of a request that was already
\* answered, and answers that mean what they say.
KeepsPromise == Promise!Spec
=============================================================================
