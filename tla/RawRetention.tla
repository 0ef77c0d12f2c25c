---------------------------- MODULE RawRetention ----------------------------
(***************************************************************************)
(* One retained raw payload, the runs that refer to it, the reruns that    *)
(* add one more run to it (rerun_from_raw of services/ingestion.py, alone  *)
(* or in a bulk of api/v1/admin.py) and the retention pass that deletes it *)
(* (scripts/cleanup_raw.py).                                               *)
(*                                                                         *)
(* The pass is one DELETE under READ COMMITTED: it decides on a snapshot,  *)
(* waits for a transaction that holds the row, and deletes without looking *)
(* again.  The foreign key makes an insert wait for the delete and clears  *)
(* the reference of the runs it finds (ON DELETE SET NULL).                *)
(***************************************************************************)
EXTENDS Integers, FiniteSets

CONSTANTS MaxRuns,        \* bound: runs of the payload
          Requesters,     \* concurrent rerun requests; one may be a bulk
          BulkLimit,      \* limit of bulk_rerun_runs
          MaxPassFaults   \* bound: passes that fail and roll back

ASSUME RetentionAssumption == MaxRuns \in Nat /\ BulkLimit \in Nat /\ MaxPassFaults \in Nat

RunIds == 1 .. MaxRuns

\* The statuses the pass counts as ended.
TerminalRuns == {"done", "failed"}

NoRawRun == [status |-> "none", old |-> FALSE, linked |-> FALSE, job |-> "none", outbox |-> "none"]

VARIABLES payload,     \* kept, deleting (deleted, not committed) or gone
          expired,     \* expire_at has passed
          rawRuns,     \* rawRuns[r]: the committed run r
          requests,    \* requests[q]: the transaction of a rerun request
          sweep,       \* the retention pass: idle, decided, deleted
          faults,
          raced        \* runs committed while a pass had already decided

rawVars == <<payload, expired, rawRuns, requests, sweep, faults, raced>>

\* The transaction of a request, between two runs and before its next one.
Idle == [pc |-> "idle", todo |-> {}, new |-> 0]
Looking(todo) == [pc |-> "look", todo |-> todo, new |-> 0]

\* ingest_contract() has stored the payload with its first run, job and outbox event.
FirstRun == [status |-> "queued", old |-> FALSE, linked |-> TRUE, job |-> "open", outbox |-> "waiting"]
RawInit ==
    /\ payload = "kept" /\ expired = FALSE /\ sweep = "idle" /\ faults = 0 /\ raced = {}
    /\ rawRuns = [r \in RunIds |-> IF r = 1 THEN FirstRun ELSE NoRawRun]
    /\ requests = [q \in Requesters |-> Idle]

Exists(r) == rawRuns[r].status # "none"

\* get_raw_payload_by_run(): by the run's reference, or as the payload's first run.
Found(r) == payload # "gone" /\ (rawRuns[r].linked \/ r = 1)

---------------------------------------------------------------------------
(* Reruns. *)

AskRerun(q, todo) ==
    /\ requests[q].pc = "idle" /\ todo # {}
    /\ requests' = [requests EXCEPT ![q] = Looking(todo)]
    /\ UNCHANGED <<payload, expired, rawRuns, sweep, faults, raced>>

\* bulk_rerun_runs(): the oldest runs of one status, or of any, at most BulkLimit of them.
BulkOf(S) ==
    {r \in RunIds : /\ rawRuns[r].status \in S
                    /\ Cardinality({o \in RunIds : o < r /\ rawRuns[o].status \in S}) < BulkLimit}
Request(q) ==
    \/ \E r \in RunIds : Exists(r) /\ AskRerun(q, {r})
    \/ \E S \in {{"done"}, {"failed"}, {"queued", "running", "done", "failed"}} : AskRerun(q, BulkOf(S))

\* The run a request is at, oldest first, and what is left of it after a commit or a rollback.
Current(q) == CHOOSE r \in requests[q].todo : \A o \in requests[q].todo : r <= o
Rest(q) == requests[q].todo \ {Current(q)}
Popped(q) == [requests EXCEPT ![q] = IF Rest(q) = {} THEN Idle ELSE Looking(Rest(q))]
Holding(q) == requests[q].pc \in {"locked", "inserted"}

\* The payload is read before lock_provider() is granted.
Look(q) ==
    /\ requests[q].pc = "look"
    /\ requests' = IF Found(Current(q)) THEN [requests EXCEPT ![q].pc = "read"] ELSE Popped(q)
    /\ UNCHANGED <<payload, expired, rawRuns, sweep, faults, raced>>
LockProvider(q) ==
    /\ requests[q].pc = "read" /\ \A o \in Requesters : ~Holding(o)
    /\ requests' = [requests EXCEPT ![q].pc = "locked"]
    /\ UNCHANGED <<payload, expired, rawRuns, sweep, faults, raced>>

\* A retired dataset, a foreign scope or a payload the contract no longer accepts: rolled back.
Refuse(q) ==
    /\ requests[q].pc = "locked" /\ requests' = Popped(q)
    /\ UNCHANGED <<payload, expired, rawRuns, sweep, faults, raced>>

\* create_ingestion_run() flushes: the foreign key holds the payload's row, or finds it gone.
InsertRun(q) ==
    /\ requests[q].pc = "locked" /\ payload # "deleting"
    /\ IF payload = "kept"
       THEN \E r \in RunIds : /\ ~Exists(r) /\ \A s \in RunIds : s < r => Exists(s)
                              /\ requests' = [requests EXCEPT ![q].pc = "inserted", ![q].new = r]
       ELSE requests' = Popped(q)
    /\ UNCHANGED <<payload, expired, rawRuns, sweep, faults, raced>>

\* The run, its rerun work and its receipt become visible together.
CommitRun(q) ==
    /\ requests[q].pc = "inserted"
    /\ rawRuns' = [rawRuns EXCEPT ![requests[q].new] = [NoRawRun EXCEPT !.status = "queued", !.linked = TRUE]]
    /\ raced' = IF sweep = "decided" THEN raced \cup {requests[q].new} ELSE raced
    /\ requests' = Popped(q)
    /\ UNCHANGED <<payload, expired, sweep, faults>>

---------------------------------------------------------------------------
(* The owner of the rerun work, the dispatcher and the worker. *)

\* execute-rerun: a repeated request finds the job that is there.
ExecuteRerun(r) ==
    /\ rawRuns[r].status = "queued" /\ rawRuns[r].job = "none"
    /\ rawRuns' = [rawRuns EXCEPT ![r].job = "open", ![r].outbox = "waiting"]
    /\ UNCHANGED <<payload, expired, requests, sweep, faults, raced>>
Publish(r) ==
    /\ rawRuns[r].outbox = "waiting" /\ rawRuns' = [rawRuns EXCEPT ![r].outbox = "published"]
    /\ UNCHANGED <<payload, expired, requests, sweep, faults, raced>>
BeginRun(r) ==
    /\ rawRuns[r].outbox = "published" /\ rawRuns[r].status = "queued"
    /\ rawRuns' = [rawRuns EXCEPT ![r].status = "running"]
    /\ UNCHANGED <<payload, expired, requests, sweep, faults, raced>>

\* A run without its payload fails as RAW_PAYLOAD_MISSING; job and run end together.
EndRun(r) ==
    /\ rawRuns[r].status = "running"
    /\ \E how \in IF Found(r) THEN {"done", "failed"} ELSE {"failed"} :
          rawRuns' = [rawRuns EXCEPT ![r].status = how, ![r].job = "ended"]
    /\ UNCHANGED <<payload, expired, requests, sweep, faults, raced>>

---------------------------------------------------------------------------
(* Retention. *)

Refer == {r \in RunIds : Exists(r) /\ rawRuns[r].linked}

\* Faulty variant of Disposable: one run that ended long ago is enough.
DisposableByOne == expired /\ \E r \in Refer : rawRuns[r].status \in TerminalRuns /\ rawRuns[r].old

\* The conditions of the DELETE.
Disposable ==
    /\ expired /\ \E r \in Refer : rawRuns[r].status \in TerminalRuns /\ rawRuns[r].old
    /\ \A r \in Refer : rawRuns[r].status \in TerminalRuns /\ rawRuns[r].old
    /\ \A r \in Refer : rawRuns[r].job # "open" /\ rawRuns[r].outbox # "waiting"
PassDecides ==
    /\ sweep = "idle" /\ payload = "kept" /\ Disposable /\ sweep' = "decided"
    /\ UNCHANGED <<payload, expired, rawRuns, requests, faults, raced>>
PassDeletes ==
    /\ sweep = "decided" /\ \A q \in Requesters : requests[q].pc # "inserted"
    /\ sweep' = "deleted" /\ payload' = "deleting"
    /\ UNCHANGED <<expired, rawRuns, requests, faults, raced>>
PassCommits ==
    /\ sweep = "deleted" /\ sweep' = "idle" /\ payload' = "gone"
    /\ rawRuns' = [r \in RunIds |-> [rawRuns[r] EXCEPT !.linked = FALSE]]
    /\ UNCHANGED <<expired, requests, faults, raced>>

\* The pass rolls back; the loop tries again at the next interval.
PassFails ==
    /\ sweep # "idle" /\ faults < MaxPassFaults /\ faults' = faults + 1
    /\ sweep' = "idle" /\ payload' = "kept" /\ UNCHANGED <<expired, rawRuns, requests, raced>>

PayloadExpires ==
    /\ ~expired /\ expired' = TRUE /\ UNCHANGED <<payload, rawRuns, requests, sweep, faults, raced>>
RunAges(r) ==
    /\ rawRuns[r].status \in {"done", "failed"} /\ ~rawRuns[r].old /\ rawRuns' = [rawRuns EXCEPT ![r].old = TRUE]
    /\ UNCHANGED <<payload, expired, requests, sweep, faults, raced>>

RequestStep(q) == Look(q) \/ LockProvider(q) \/ Refuse(q) \/ InsertRun(q) \/ CommitRun(q)
RunStep(r) == ExecuteRerun(r) \/ Publish(r) \/ BeginRun(r) \/ EndRun(r) \/ RunAges(r)
PassStep == PassDecides \/ PassDeletes \/ PassCommits
RawNext ==
    \/ \E q \in Requesters : Request(q) \/ RequestStep(q)
    \/ \E r \in RunIds : RunStep(r)
    \/ PassStep \/ PassFails \/ PayloadExpires

RawSpec == RawInit /\ [][RawNext]_rawVars

\* run_repeated() starts the next pass, and a rerun request runs to its commit.
RawFair(i) == \/ i = 1 /\ PassStep
              \/ i = 2 /\ \E q \in Requesters : RequestStep(q)
RawFairness == \A i \in 1 .. 2 : WF_rawVars(RawFair(i))

---------------------------------------------------------------------------
(* Properties. *)

RunRows == [status : {"none", "queued", "running"} \cup TerminalRuns, old : BOOLEAN, linked : BOOLEAN,
            job : {"none", "open", "ended"}, outbox : {"none", "waiting", "published"}]
RequestRows == [pc : {"idle", "look", "read", "locked", "inserted"}, todo : SUBSET RunIds, new : 0 .. MaxRuns]

RawTypeOK ==
    /\ payload \in {"kept", "deleting", "gone"} /\ sweep \in {"idle", "decided", "deleted"}
    /\ expired \in BOOLEAN /\ faults \in 0 .. MaxPassFaults /\ raced \subseteq RunIds
    /\ rawRuns \in [RunIds -> RunRows] /\ requests \in [Requesters -> RequestRows]

\* Retention takes the payload away from no run that is still to be
\* normalised, except one whose request committed after the pass had taken
\* its snapshot (cleanup_expired_raw against rerun_from_raw).
RetentionSpares ==
    \A r \in RunIds : rawRuns[r].status \in {"queued", "running"} /\ ~rawRuns[r].linked => r \in raced

\* The reference of a run is what the foreign key makes it: the runs of a
\* payload refer to it until it is deleted and to nothing after that, and a
\* rerun that is inserted and not committed has a payload that stays (its run
\* is a new one, and no other request is between its lock and its commit).
ReferencesHold ==
    /\ \A r \in RunIds : Exists(r) => (rawRuns[r].linked <=> payload # "gone")
    /\ \A q \in Requesters : requests[q].pc = "inserted" => payload = "kept" /\ ~Exists(requests[q].new)
    /\ \A p, q \in Requesters : Holding(p) /\ Holding(q) => p = q

\* What a rerun and a retention pass that race leave behind: no run without
\* its payload but the one that came too late, and no dangling reference.
RawSound == RetentionSpares /\ ReferencesHold

RunsOver ==
    expired /\ \A r \in RunIds : Exists(r) => rawRuns[r].status \in {"done", "failed"} /\ rawRuns[r].old

\* A payload that expired and whose runs all ended long ago is deleted, or a new run
\* takes it back in use (run_repeated retries a failed pass at the next interval).
RawFreed == payload = "gone" \/ ~RunsOver
=============================================================================
