---------------------------- MODULE WorkSession ----------------------------
(***************************************************************************)
(* The fetcher's side of one provider work (fetcher provider_work.py):     *)
(* the host lock, the session with its fence and heartbeat, the durable    *)
(* journal, and the conversation with the work endpoints                   *)
(* (api/v1/provider_work.py), whose answers may be lost.                   *)
(*                                                                         *)
(* Two processes of a host compete for the lock.  A process may die        *)
(* between any two steps; a provider call runs in a child that inherits    *)
(* the lock's descriptor and may outlive it.  Bodies are numbered by the   *)
(* call that produced them; OldBody was acquired by an earlier release     *)
(* under other request semantics.  The queue of works and its rounds are   *)
(* the subject of ProviderWork; here there is one work, and its server     *)
(* side is reduced to what a session can observe.                          *)
(***************************************************************************)
EXTENDS Integers, Sequences, FiniteSets

CONSTANTS Procs,         \* processes of the host
          MaxCalls,      \* the durable budget of the operation
          MaxDeaths,     \* bound: processes that die
          MaxLost,       \* bound: answers lost, heartbeats refused
          MaxStops       \* bound: stop or start commands

ASSUME BudgetAssumption == MaxCalls \in Nat

None == 0
OldBody == -1
Idle == [pc |-> "idle", gen |-> 0, body |-> None, outcome |-> "none", blocked |-> FALSE, failed |-> FALSE, why |-> "none"]

\* The descriptors of the host lock: a process's own, and the one the child of
\* its provider call inherits.
Own(p) == <<p, "process">>
Inherits(p) == <<p, "child">>

VARIABLES kind,        \* "daily" or "rerun"
          lock,        \* the descriptors that keep the host lock: processes and their children
          proc,        \* proc[p]: the process and its session
          child,       \* processes whose provider call is under way in a child
          journal,     \* the durable journal of this work
          server,      \* the work, its owner and its retained preparation
          rounds,      \* the rounds of the work
          calls,       \* history: provider calls made
          deaths, lost, stops

sessionVars == <<kind, lock, proc, child, journal, server, rounds, calls, deaths, lost, stops>>

LastRound == rounds[Len(rounds)]
OpenRound(g) == [state |-> "open", gen |-> g, outcome |-> "none", drain |-> FALSE]
Server0 == [state |-> "queued", gen |-> 0, owned |-> FALSE, stopped |-> FALSE, manifest |-> FALSE,
            prepared |-> None, confirmed |-> FALSE, receipt |-> None, run |-> "none"]
Journal0 == [manifest |-> FALSE, response |-> None, old |-> FALSE, noted |-> FALSE, job |-> None,
             delivery |-> None, receipt |-> FALSE, attempts |-> 0]

\* An earlier release may have left a response, and a preparation made from it.
SessionInit ==
    /\ kind \in {"daily", "rerun"} /\ lock = {} /\ child = {} /\ proc = [p \in Procs |-> Idle]
    /\ \E old, retained \in BOOLEAN :
          /\ (retained => old) /\ (old => kind = "daily")
          /\ journal = [Journal0 EXCEPT !.old = old]
          /\ server = [Server0 EXCEPT !.prepared = IF retained THEN OldBody ELSE None, !.manifest = retained]
    /\ rounds = <<>> /\ calls = 0 /\ deaths = 0 /\ lost = 0 /\ stops = 0

Step(p, pc) == proc' = [proc EXCEPT ![p].pc = pc]
Fault == lost < MaxLost /\ lost' = lost + 1
At(p, pc) == proc[p].pc = pc
Mine(p) == server.owned /\ server.gen = proc[p].gen

\* A session that cannot prove its ownership keeps the lock until its process ends.
Quarantine(p, why) == proc' = [proc EXCEPT ![p].pc = "quarantined", ![p].why = why]
Pending == server.prepared # None /\ server.receipt = None
rest == <<kind, calls, deaths, stops>>

---------------------------------------------------------------------------
(* Claiming the work under the host lock. *)

LockFree(p) == lock = {}

\* claim(): recovery continues the round of the owner, otherwise the queued round opens.
Claimed(g) == IF server.owned THEN [rounds EXCEPT ![Len(rounds)].gen = g]
              ELSE Append(rounds, [OpenRound(g) EXCEPT !.drain = server.stopped])

\* The owner's work is recovered; a stopped work is only claimed for what is retained.
Claimable == server.owned \/ (server.state = "queued" /\ (~ server.stopped \/ kind = "rerun" \/ Pending \/ server.run = "queued"))
Claim(p) ==
    /\ At(p, "idle") /\ LockFree(p) /\ Claimable
    /\ LET g == server.gen + 1
       IN  /\ server' = [server EXCEPT !.gen = g, !.owned = TRUE, !.state = "running"]
           /\ rounds' = Claimed(g)
           /\ \/ /\ proc' = [proc EXCEPT ![p] = [Idle EXCEPT !.pc = "claimed", !.gen = g]]
                 /\ lock' = lock \cup {Own(p)} /\ UNCHANGED lost
              \/ Fault /\ UNCHANGED <<proc, lock>>                       \* the answer is lost: the lock is let go
    /\ UNCHANGED <<rest, child, journal>>

\* freeze(): the first manifest, locally and at the server.
Freeze(p) ==
    /\ At(p, "claimed")
    /\ IF kind = "rerun" THEN UNCHANGED <<journal, server>>
       ELSE journal' = [journal EXCEPT !.manifest = TRUE] /\ server' = [server EXCEPT !.manifest = TRUE]
    /\ Step(p, IF kind = "rerun" THEN "rerun" ELSE IF LastRound.state # "open" \/ LastRound.drain THEN "draining" ELSE "ready")
    /\ UNCHANGED <<rest, lock, child, rounds, lost>>

\* execute-rerun: one normalisation job for the retained payload.
ExecuteRerun(p) ==
    /\ At(p, "rerun") /\ Mine(p)
    /\ server' = IF server.run = "none" THEN [server EXCEPT !.run = "queued", !.receipt = 1, !.prepared = 1] ELSE server
    /\ proc' = [proc EXCEPT ![p].pc = "closing", ![p].outcome = "completed"]
    /\ UNCHANGED <<rest, lock, child, journal, rounds, lost>>

---------------------------------------------------------------------------
(* Acquiring and preparing. *)

\* prepared(): the local bytes, or the ones the server retains.
Restored == IF journal.job # None THEN journal.job ELSE server.prepared

\* prepared_predates_basis(): the body was mapped from a response of the old basis.
PredatesBasis(body) == body = OldBody
Restore(p) ==
    /\ At(p, "ready")
    /\ IF Restored = None THEN Step(p, "unprepared") /\ UNCHANGED journal
       ELSE IF PredatesBasis(Restored)
            THEN Step(p, "draining") /\ UNCHANGED journal
            ELSE proc' = [proc EXCEPT ![p].pc = "saved", ![p].body = Restored] /\ journal' = [journal EXCEPT !.job = Restored]
    /\ UNCHANGED <<rest, lock, child, server, rounds, lost>>

\* durable_response(): a current response is replayed, an older one is only evidence.
Replay(p) ==
    /\ At(p, "unprepared")
    /\ IF journal.response # None
       THEN proc' = [proc EXCEPT ![p].pc = "answered", ![p].body = journal.response] /\ UNCHANGED journal
       ELSE IF journal.old
            THEN /\ journal' = [journal EXCEPT !.noted = TRUE]
                 /\ proc' = [proc EXCEPT ![p].pc = "closing", ![p].outcome = "failed"]
            ELSE Step(p, "acquire") /\ UNCHANGED journal
    /\ UNCHANGED <<rest, lock, child, server, rounds, lost>>

\* reserve_attempt(): counted before anybody is asked for the call.
ReserveAttempt(p) ==
    /\ At(p, "acquire")
    /\ IF journal.attempts >= MaxCalls
       THEN proc' = [proc EXCEPT ![p].pc = "closing", ![p].outcome = "failed"] /\ UNCHANGED journal
       ELSE Step(p, "reserved") /\ journal' = [journal EXCEPT !.attempts = @ + 1]
    /\ UNCHANGED <<rest, lock, child, server, rounds, lost>>

\* release_wait_attempt(): the attempt is handed back when nothing was dispatched,
\* and the work waits for its next round.
ReleaseWait(p) ==
    /\ journal' = [journal EXCEPT !.attempts = @ - 1]
    /\ proc' = [proc EXCEPT ![p].pc = "closing", ![p].outcome = "retry"]

\* authorize(): the fence, the stop command and the heartbeat.  A stop, a Source
\* out of reach or a wait of the account's governor releases the attempt.
Authorize(p) ==
    /\ At(p, "reserved")
    /\ IF proc[p].failed \/ ~ Mine(p)
       THEN Quarantine(p, IF proc[p].failed THEN "heartbeat" ELSE "fence") /\ UNCHANGED <<journal, lost>>
       ELSE \/ ~ server.stopped /\ Step(p, "authorized") /\ UNCHANGED <<journal, lost>>
            \/ server.stopped /\ ReleaseWait(p) /\ UNCHANGED lost
            \/ ~ server.stopped /\ Fault /\ ReleaseWait(p)
    /\ UNCHANGED <<rest, lock, child, server, rounds>>

\* Faulty variant of Inherited: the child does not keep the parent's lock.
NotInherited(p) == lock

\* The child of the call inherits the descriptor of the lock.
Inherited(p) == lock \cup {Inherits(p)}
Call(p) ==
    /\ At(p, "authorized") /\ Step(p, "calling") /\ child' = child \cup {p} /\ calls' = calls + 1 /\ lock' = Inherited(p)
    /\ UNCHANGED <<kind, journal, server, rounds, deaths, stops, lost>>

\* The call ends; a valid answer is journalled before anything is made of it.
Answer(p, valid) ==
    /\ At(p, "calling") /\ p \in child
    /\ child' = child \ {p} /\ lock' = lock \ {Inherits(p)}
    /\ IF valid THEN /\ journal' = [journal EXCEPT !.response = IF @ = None THEN calls ELSE @]
                     /\ proc' = [proc EXCEPT ![p].pc = "answered", ![p].body = journal'.response]
       ELSE proc' = [proc EXCEPT ![p].pc = "closing", ![p].outcome = "retry"] /\ UNCHANGED journal
    /\ UNCHANGED <<rest, server, rounds, lost>>

\* The orphaned child of a dead process ends.
OrphanEnds(p) ==
    /\ p \in child /\ ~ At(p, "calling") /\ child' = child \ {p} /\ lock' = lock \ {Inherits(p)}
    /\ UNCHANGED <<rest, proc, journal, server, rounds, lost>>

\* save_prepared_request(): the server binds the bytes before the journal keeps them.
ReserveBody(p) ==
    /\ At(p, "answered")
    /\ IF ~ Mine(p) THEN Quarantine(p, "fence") /\ UNCHANGED <<server, lost>>
       ELSE IF server.prepared = None /\ (server.stopped \/ LastRound.state # "open")
       THEN proc' = [proc EXCEPT ![p].pc = "closing", ![p].outcome = "retry"] /\ UNCHANGED <<server, lost>>
       ELSE IF server.prepared \notin {None, proc[p].body} THEN Quarantine(p, "bytes") /\ UNCHANGED <<server, lost>>
       ELSE /\ server' = [server EXCEPT !.prepared = proc[p].body]
            /\ \/ Step(p, "bound") /\ UNCHANGED lost
               \/ Fault /\ Quarantine(p, "unreachable")
    /\ UNCHANGED <<rest, lock, child, journal, rounds>>
SaveJob(p) ==
    /\ At(p, "bound") /\ Step(p, "saved") /\ journal' = [journal EXCEPT !.job = IF @ = None THEN proc[p].body ELSE @]
    /\ UNCHANGED <<rest, lock, child, server, rounds, lost>>

\* headers(): journalled, then confirmed at the server.
Confirm(p) ==
    /\ At(p, "saved") /\ journal' = [journal EXCEPT !.delivery = proc[p].body]
    /\ IF proc[p].failed \/ ~ Mine(p) THEN Quarantine(p, IF proc[p].failed THEN "heartbeat" ELSE "fence") /\ UNCHANGED server
       ELSE Step(p, "confirmed") /\ server' = [server EXCEPT !.confirmed = TRUE]
    /\ UNCHANGED <<rest, lock, child, rounds, lost>>
Accepted(body) == [server EXCEPT !.receipt = body, !.run = IF server.receipt = None THEN "queued" ELSE @]

\* deliver(): a replay of an accepted body finds its receipt (associate_receipt).
Deliver(p) ==
    /\ At(p, "confirmed") /\ Mine(p) /\ server.receipt \in {None, proc[p].body}
    /\ server' = Accepted(proc[p].body)
    /\ \/ /\ journal' = [journal EXCEPT !.receipt = TRUE] /\ UNCHANGED lost
          /\ Step(p, "delivered")
       \/ /\ Fault /\ UNCHANGED journal
          /\ proc' = [proc EXCEPT ![p].pc = "closing", ![p].outcome = "retry"]
    /\ UNCHANGED <<rest, lock, child, rounds>>

\* get_run_status(): the outcome follows the terminal run.
Observe(p) ==
    /\ At(p, "delivered") /\ server.run \in {"completed", "failed"}
    /\ proc' = [proc EXCEPT ![p].pc = "closing", ![p].outcome = server.run]
    /\ UNCHANGED <<rest, lock, child, journal, server, rounds, lost>>

---------------------------------------------------------------------------
(* Draining and settling. *)

\* drain_prepared(): original bytes only; a pending body of the old basis is left alone.
Drain(p) ==
    /\ At(p, "draining")
    /\ IF ~ Mine(p) THEN Quarantine(p, "fence") /\ UNCHANGED <<server, journal>>
       ELSE IF server.prepared # None /\ server.receipt = None /\ PredatesBasis(server.prepared)
       THEN /\ proc' = [proc EXCEPT ![p].pc = "closing", ![p].outcome = "failed", ![p].blocked = TRUE]
            /\ journal' = [journal EXCEPT !.noted = TRUE] /\ UNCHANGED server
       ELSE /\ server' = IF server.prepared # None THEN Accepted(server.prepared) ELSE server
            /\ proc' = [proc EXCEPT ![p].pc = IF proc[p].outcome = "none" /\ server.prepared # None THEN "delivered" ELSE "closing",
                                    ![p].outcome = IF @ = "none" /\ server.prepared = None THEN "retry" ELSE @]
            /\ UNCHANGED journal
    /\ UNCHANGED <<rest, lock, child, rounds, lost>>

\* Faulty variant of Replayed: what was settled before is not looked up.
ReplayedNever(p) == {}

\* The rounds that this identity has settled already: the acknowledgement was lost.
Replayed(p) == {n \in 1 .. Len(rounds) : rounds[n].state = "settled" /\ rounds[n].gen = proc[p].gen}

\* close: replayed, or the open round of the fence.
Close(p) ==
    /\ At(p, "closing")
    /\ IF Replayed(p) # {} THEN Step(p, "closed") /\ UNCHANGED rounds
       ELSE IF ~ Mine(p) THEN Quarantine(p, "fence") /\ UNCHANGED rounds
       ELSE /\ rounds' = [rounds EXCEPT ![Len(rounds)].state = IF @ = "open" THEN "closed" ELSE @]
            /\ Step(p, "closed")
    /\ UNCHANGED <<rest, lock, child, journal, server, lost>>

\* What the server makes of a settlement.
FinalOutcome(p) == IF kind = "rerun" /\ proc[p].outcome = "completed" /\ server.run # "completed" THEN "failed" ELSE proc[p].outcome
Fits(p) == \A n \in Replayed(p) : rounds[n].outcome = proc[p].outcome
                                  \/ (kind = "rerun" /\ proc[p].outcome = "completed" /\ rounds[n].outcome = "failed")

\* Bodies of the old basis are waived by an explicit manual settlement.
Waived(p) == proc[p].outcome = "failed" /\ proc[p].blocked
Settle(p) ==
    /\ At(p, "closed")
    /\ IF proc[p].failed THEN Quarantine(p, "heartbeat") /\ UNCHANGED <<server, rounds, lost>>
       ELSE IF Replayed(p) # {} /\ Fits(p) THEN Step(p, "settled") /\ UNCHANGED <<server, rounds, lost>>
       ELSE IF Replayed(p) # {} \/ ~ Mine(p) THEN Quarantine(p, "fence") /\ UNCHANGED <<server, rounds, lost>>
       ELSE IF Pending /\ proc[p].outcome # "retry" /\ ~ Waived(p)
       THEN /\ rounds' = [rounds EXCEPT ![Len(rounds)].state = "draining"]
            /\ Step(p, "draining") /\ UNCHANGED <<server, lost>>
       ELSE /\ server.run # "queued"                                      \* DRAINING: asked again until terminal
            /\ rounds' = [rounds EXCEPT ![Len(rounds)].state = "settled", ![Len(rounds)].outcome = FinalOutcome(p)]
            /\ server' = [server EXCEPT !.owned = FALSE, !.state = IF FinalOutcome(p) = "retry" THEN "queued" ELSE "ended"]
            /\ \/ Step(p, "settled") /\ UNCHANGED lost
               \/ Fault /\ (Step(p, "closed") \/ Quarantine(p, "unreachable"))     \* sent again, or given up
    /\ UNCHANGED <<rest, lock, child, journal>>
Leave(p) ==
    /\ At(p, "settled") /\ proc' = [proc EXCEPT ![p] = Idle] /\ lock' = lock \ {Own(p)}
    /\ UNCHANGED <<rest, child, journal, server, rounds, lost>>

---------------------------------------------------------------------------
(* Faults and the rest of the system. *)

InSession(p) == proc[p].pc \notin {"idle", "quarantined"}
HeartbeatFails(p) ==
    /\ InSession(p) /\ ~ proc[p].failed /\ Fault /\ proc' = [proc EXCEPT ![p].failed = TRUE]
    /\ UNCHANGED <<rest, lock, child, journal, server, rounds>>
Die(p) ==
    /\ deaths < MaxDeaths /\ InSession(p) /\ deaths' = deaths + 1
    /\ proc' = [proc EXCEPT ![p] = Idle] /\ lock' = lock \ {Own(p)}
    /\ UNCHANGED <<kind, child, journal, server, rounds, calls, lost, stops>>

\* The supervisor replaces a process that gave up.
Replaced(p) ==
    /\ At(p, "quarantined") /\ proc' = [proc EXCEPT ![p] = Idle] /\ lock' = lock \ {Own(p)}
    /\ UNCHANGED <<rest, child, journal, server, rounds, lost>>
Command == /\ stops < MaxStops /\ stops' = stops + 1 /\ server' = [server EXCEPT !.stopped = ~ @]
           /\ UNCHANGED <<kind, lock, proc, child, journal, rounds, calls, deaths, lost>>
NormalizationEnds ==
    /\ server.run = "queued" /\ \E status \in {"completed", "failed"} : server' = [server EXCEPT !.run = status]
    /\ UNCHANGED <<rest, lock, proc, child, journal, rounds, lost>>

SessionStep(p) ==
    \/ Freeze(p) \/ ExecuteRerun(p) \/ Restore(p) \/ Replay(p) \/ ReserveAttempt(p) \/ Authorize(p) \/ Call(p)
    \/ \E valid \in BOOLEAN : Answer(p, valid)
    \/ ReserveBody(p) \/ SaveJob(p) \/ Confirm(p) \/ Deliver(p) \/ Observe(p) \/ Drain(p) \/ Close(p) \/ Settle(p) \/ Leave(p)
    \/ Replaced(p) \/ OrphanEnds(p)
SessionNext ==
    \/ \E p \in Procs : Claim(p) \/ SessionStep(p) \/ HeartbeatFails(p) \/ Die(p)
    \/ Command \/ NormalizationEnds

SessionSpec == SessionInit /\ [][SessionNext]_sessionVars
SessionFair(i) == \/ i \in Procs /\ (Claim(i) \/ SessionStep(i))
                  \/ i = Cardinality(Procs) + 1 /\ NormalizationEnds
SessionFairness == \A i \in 1 .. Cardinality(Procs) + 1 : WF_sessionVars(SessionFair(i))

---------------------------------------------------------------------------
(* Properties. *)

SessionTypeOK ==
    /\ lock \subseteq Procs \X {"process", "child"} /\ child \subseteq Procs /\ journal.attempts \in 0 .. MaxCalls
    /\ server.state \in {"queued", "running", "ended"} /\ server.run \in {"none", "queued", "completed", "failed"}
    /\ \A p \in Procs : proc[p].gen \in 0 .. server.gen /\ proc[p].why \in {"none", "heartbeat", "unreachable", "fence", "bytes"}
    /\ \A n \in 1 .. Len(rounds) : rounds[n].state \in {"open", "closed", "draining", "settled"}

\* One provider call at a time and no more than the budget, across deaths and
\* retries: whoever gets the host lock finds no call of a predecessor under
\* way (host_lock, reserve_attempt, claim's recovery).
OneCaller ==
    /\ Cardinality(child) <= 1 /\ calls <= MaxCalls
    /\ \A p \in Procs : At(p, "reserved") \/ At(p, "authorized") => child = {}

\* A session that holds the host lock is never refused as a stranger: a close
\* or a settlement repeated after a lost answer finds its own round, and its
\* bytes are the ones already bound (mutate's replay, register_prepared).
NeverFencedOff == \A p \in Procs : proc[p].why \notin {"fence", "bytes"}

\* What is accepted was bound first, is what the journal keeps, and was not
\* acquired under the old request semantics (require_current_basis,
\* drain_prepared, save_prepared_request).
BytesAgree ==
    /\ server.receipt # None /\ kind = "daily" => server.receipt = server.prepared
    /\ journal.job # None => journal.job = server.prepared
    /\ journal.response # None /\ server.prepared # None => server.prepared = journal.response
    /\ server.receipt # OldBody

\* A session that repeats a close or a settlement after a lost answer is not
\* fenced off, and what is accepted is what was bound and journalled.
SessionSound == NeverFencedOff /\ BytesAgree

\* The work ends, whatever died or was lost on the way, once the operator
\* lets it run (claimed_work, settle).
WorkStopped == server.stopped
WorkEnded == server.state = "ended"
=============================================================================
