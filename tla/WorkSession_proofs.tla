------------------------- MODULE WorkSession_proofs -------------------------
(***************************************************************************)
(* Proofs about WorkSession, for any set of processes, any budget of calls *)
(* and any number of deaths, lost answers and commands.                    *)
(*                                                                         *)
(* The argument.  The host lock is a set of descriptors, and it is free    *)
(* only when nobody is in a session and no child of a call is left         *)
(* (HostLock): so the session is alone, and the fence it took at its claim *)
(* is still the newest when it closes or settles (Fenced).  It stops being *)
(* the owner only through its own settlement, and then its round is the    *)
(* one that a repeated settlement finds.  What the server has bound is     *)
(* therefore what this session, or the one before it, journalled (Bytes).  *)
(***************************************************************************)
EXTENDS WorkSession, FiniteSetTheorems, SequenceTheorems, TLAPS

---------------------------------------------------------------------------
(* The inductive invariant. *)

\* The types of the state.
Places == {"idle", "claimed", "rerun", "ready", "unprepared", "acquire", "authorized", "reserved",
           "calling", "answered", "bound", "saved", "confirmed", "delivered", "draining", "closing",
           "closed", "settled", "quarantined"}
Outcomes == {"none", "completed", "failed", "retry"}
Whys == {"none", "heartbeat", "unreachable", "fence", "bytes"}
Processes == [pc : Places, gen : Nat, body : Int, outcome : Outcomes, blocked : BOOLEAN,
              failed : BOOLEAN, why : Whys]
Journals == [manifest : BOOLEAN, response : Nat, old : BOOLEAN, noted : BOOLEAN, job : Int,
             delivery : Int, receipt : BOOLEAN, attempts : Nat]
Servers == [state : {"queued", "running", "ended"}, gen : Nat, owned : BOOLEAN, stopped : BOOLEAN,
            manifest : BOOLEAN, prepared : Int, confirmed : BOOLEAN, receipt : Int,
            run : {"none", "queued", "completed", "failed"}]
Rounds == [state : {"open", "closed", "draining", "settled"}, gen : Nat, outcome : Outcomes,
           drain : BOOLEAN]
Types ==
    /\ kind \in {"daily", "rerun"} /\ lock \subseteq Procs \X {"process", "child"}
    /\ child \subseteq Procs /\ proc \in [Procs -> Processes]
    /\ journal \in Journals /\ server \in Servers /\ rounds \in Seq(Rounds) /\ calls \in Nat

\* The host lock is held by one process and the child of its call, or by the
\* child of one that died, and by nobody else.
Busy(p) == proc[p].pc # "idle" \/ p \in child
HostLock ==
    /\ \A p \in Procs : Own(p) \in lock <=> proc[p].pc # "idle"
    /\ \A p \in Procs : Inherits(p) \in lock <=> p \in child
    /\ \A p, q \in Procs : Busy(p) /\ Busy(q) => p = q
    /\ \A p \in child : proc[p].pc \in {"idle", "calling"}

\* A call is counted in the journal before it is made.
Counted ==
    /\ calls <= journal.attempts /\ journal.attempts <= MaxCalls
    /\ journal.response <= calls
    /\ \A p \in Procs : /\ At(p, "reserved") \/ At(p, "authorized") => calls < journal.attempts
                        /\ At(p, "calling") => calls > 0

\* The session in the lock has the newest fence and, but for the moment after
\* its settlement, owns the work; the owner's round is the last one.
Outside == {"idle", "closed", "settled", "quarantined"}
Fenced ==
    /\ \A p \in Procs : proc[p].gen = IF proc[p].pc = "idle" THEN 0 ELSE server.gen
    /\ \A p \in Procs : proc[p].pc \notin Outside => server.owned
    /\ \A n \in 1 .. Len(rounds) : rounds[n].gen <= server.gen
    /\ server.owned =>
          /\ Len(rounds) > 0
          /\ rounds[Len(rounds)].gen = server.gen /\ rounds[Len(rounds)].state # "settled"
          /\ \A n \in 1 .. Len(rounds) : rounds[n].state = "settled" => rounds[n].gen < server.gen
    /\ \A p \in Procs : At(p, "closed") /\ ~server.owned => Replayed(p) # {} /\ Fits(p)

\* What a rerun and what a daily work can have bound, by where the session is.
Unbound == {"unprepared", "acquire", "authorized", "reserved", "calling"}
Bound == {"bound", "saved", "confirmed"}
RerunPlaces == {"idle", "claimed", "rerun", "closing", "closed", "settled", "quarantined"}
Bytes ==
    /\ kind = "rerun" => /\ \A p \in Procs : proc[p].pc \in RerunPlaces
                         /\ journal.response = None /\ journal.job = None
                         /\ server.prepared \in {None, 1} /\ server.receipt = server.prepared
    /\ server.receipt # None => server.receipt = server.prepared
    /\ journal.job # None => journal.job = server.prepared
    /\ journal.response # None /\ server.prepared # None => server.prepared = journal.response
    /\ server.receipt # OldBody
    /\ \A p \in Procs :
          /\ At(p, "rerun") => kind = "rerun"
          /\ proc[p].pc \in Unbound \cup {"answered"} => server.prepared = None
          /\ At(p, "answered") => proc[p].body = journal.response /\ proc[p].body # None
          /\ proc[p].pc \in Bound => /\ proc[p].body = server.prepared
                                     /\ proc[p].body \notin {None, OldBody}

\* The inductive invariant.
SessionInv == Types /\ HostLock /\ Counted /\ Fenced /\ NeverFencedOff /\ Bytes
---------------------------------------------------------------------------
(* What a step of a process does to the processes. *)

\* A step of p leaves the other processes alone and keeps p's fence.
Turned(p) == /\ proc' \in [Procs -> Processes]
             /\ \A q \in Procs : q # p => proc'[q] = proc[q]
Within(p) == Turned(p) /\ proc'[p].gen = proc[p].gen

\* The next place, with nothing else changed (Step).
LEMMA StepTurns ==
    ASSUME proc \in [Procs -> Processes], NEW p \in Procs, NEW x \in Places, Step(p, x)
    PROVE  Within(p) /\ proc'[p].pc = x /\ proc'[p].body = proc[p].body
           /\ proc'[p].outcome = proc[p].outcome /\ proc'[p].why = proc[p].why
  BY DEF Step, Within, Turned, Processes

\* A session that ends with an outcome.
LEMMA EndTurns ==
    ASSUME proc \in [Procs -> Processes], NEW p \in Procs, NEW o \in Outcomes,
           proc' = [proc EXCEPT ![p].pc = "closing", ![p].outcome = o]
    PROVE  Within(p) /\ proc'[p].pc = "closing" /\ proc'[p].body = proc[p].body
           /\ proc'[p].outcome = o /\ proc'[p].why = proc[p].why
  BY DEF Within, Turned, Processes, Places

\* A session that takes a body.
LEMMA BodyTurns ==
    ASSUME proc \in [Procs -> Processes], NEW p \in Procs, NEW x \in Places, NEW b \in Int,
           proc' = [proc EXCEPT ![p].pc = x, ![p].body = b]
    PROVE  Within(p) /\ proc'[p].pc = x /\ proc'[p].body = b
           /\ proc'[p].outcome = proc[p].outcome /\ proc'[p].why = proc[p].why
  BY DEF Within, Turned, Processes

\* A session that gives up (Quarantine).
LEMMA QuarantineTurns ==
    ASSUME proc \in [Procs -> Processes], NEW p \in Procs, NEW w \in Whys, Quarantine(p, w)
    PROVE  Within(p) /\ proc'[p].pc = "quarantined" /\ proc'[p].why = w
<1>1. "quarantined" \in Places  BY DEF Places
<1> QED  BY <1>1 DEF Quarantine, Within, Turned, Processes

\* A drain that finds a body of the old basis.
LEMMA BlockedTurns ==
    ASSUME proc \in [Procs -> Processes], NEW p \in Procs,
           proc' = [proc EXCEPT ![p].pc = "closing", ![p].outcome = "failed", ![p].blocked = TRUE]
    PROVE  Within(p) /\ proc'[p].pc = "closing" /\ proc'[p].why = proc[p].why
<1>1. "closing" \in Places /\ "failed" \in Outcomes  BY DEF Places, Outcomes
<1>. QED  BY <1>1 DEF Within, Turned, Processes

\* A drain that finds no body of the old basis.
LEMMA DrainTurns ==
    ASSUME proc \in [Procs -> Processes], NEW p \in Procs, NEW prepared \in Int,
           proc' = [proc EXCEPT
                      ![p].pc = IF proc[p].outcome = "none" /\ prepared # None
                                THEN "delivered" ELSE "closing",
                      ![p].outcome = IF @ = "none" /\ prepared = None THEN "retry" ELSE @]
    PROVE  Within(p) /\ proc'[p].pc \in {"delivered", "closing"} /\ proc'[p].why = proc[p].why
<1>1. "closing" \in Places /\ "delivered" \in Places /\ "retry" \in Outcomes  BY DEF Places, Outcomes
<1>. QED  BY <1>1 DEF Within, Turned, Processes

\* A session whose heartbeat is refused.
LEMMA FailedTurns ==
    ASSUME proc \in [Procs -> Processes], NEW p \in Procs, proc' = [proc EXCEPT ![p].failed = TRUE]
    PROVE  Within(p) /\ proc'[p].pc = proc[p].pc /\ proc'[p].body = proc[p].body
           /\ proc'[p].outcome = proc[p].outcome /\ proc'[p].why = proc[p].why
  BY DEF Within, Turned, Processes

\* A process that starts anew.
LEMMA IdleTurns ==
    ASSUME proc \in [Procs -> Processes], NEW p \in Procs, proc' = [proc EXCEPT ![p] = Idle]
    PROVE  Turned(p) /\ proc'[p].pc = "idle" /\ proc'[p].gen = 0 /\ proc'[p].why = "none"
  BY DEF Turned, Processes, Places, Idle, Outcomes, Whys, None

\* A process that claims the work takes the new fence.
LEMMA ClaimTurns ==
    ASSUME proc \in [Procs -> Processes], NEW p \in Procs, NEW g \in Nat,
           proc' = [proc EXCEPT ![p] = [Idle EXCEPT !.pc = "claimed", !.gen = g]]
    PROVE  Turned(p) /\ proc'[p].pc = "claimed" /\ proc'[p].gen = g /\ proc'[p].why = "none"
<1>1. Idle \in Processes /\ Idle.why = "none" /\ "claimed" \in Places
  BY DEF Processes, Places, Idle, Outcomes, Whys, None
<1>. QED  BY <1>1 DEF Turned, Processes

\* A session that holds the lock is alone: no other process is in a session
\* and no other call is under way.
LEMMA Alone ==
    ASSUME HostLock, NEW p \in Procs, proc[p].pc # "idle"
    PROVE  \A q \in Procs : q # p => proc[q].pc = "idle" /\ q \notin child
  BY DEF HostLock, Busy

\* A step inside a session, outside its call, keeps the lock.
LEMMA LockKept ==
    ASSUME Types, HostLock, NEW p \in Procs, Turned(p), UNCHANGED <<lock, child>>,
           proc[p].pc \notin {"idle", "calling"}, proc'[p].pc # "idle"
    PROVE  HostLock'
  BY DEF Types, HostLock, Busy, Turned, Own, Inherits

\* A step that reserves nothing and records no answer keeps the count.
LEMMA CountKept ==
    ASSUME Types, Counted, NEW p \in Procs, Turned(p), calls' = calls,
           journal'.attempts = journal.attempts, journal'.response = journal.response,
           proc'[p].pc \notin {"reserved", "authorized", "calling"}
    PROVE  Counted'
  BY DEF Types, Counted, Turned, At

\* A step of an owner that neither settles nor hands over keeps the fence.
LEMMA FenceKept ==
    ASSUME Types, HostLock, Fenced, NEW p \in Procs, Within(p), rounds' = rounds,
           server'.gen = server.gen, server'.owned = server.owned,
           proc[p].pc \notin Outside, proc'[p].pc # "idle"
    PROVE  Fenced'
<1>1. server.owned /\ server'.owned  BY DEF Fenced
<1> QED  BY <1>1, Alone DEF Types, Fenced, Within, Turned, Outside, At

\* A session that gives up for want of an answer or a heartbeat is not refused.
LEMMA NotFencedOff ==
    ASSUME NeverFencedOff, NEW p \in Procs, Turned(p),
           proc'[p].why \in {proc[p].why, "none", "heartbeat", "unreachable"}
    PROVE  NeverFencedOff'
  BY DEF NeverFencedOff, Turned

\* The owner's fence is the server's.
LEMMA OwnersAreMine ==
    ASSUME Fenced, NEW p \in Procs, proc[p].pc \notin Outside
    PROVE  Mine(p)
  BY DEF Fenced, Mine, Outside

---------------------------------------------------------------------------
(* Every action keeps the invariant. *)

\* Freezing the manifest keeps the invariant (freeze).
LEMMA FreezeKeeps ==
    ASSUME SessionInv, NEW p \in Procs, Freeze(p)
    PROVE  SessionInv'
<1> USE DEF SessionInv
<1>1. /\ Within(p) /\ proc'[p].pc \in {"rerun", "draining", "ready"} /\ proc'[p].why = proc[p].why
      /\ kind = "rerun" <=> proc'[p].pc = "rerun"
  <2>1. \A x \in {"rerun", "draining", "ready"} : x \in Places  BY DEF Places
  <2>. QED  BY <2>1, StepTurns DEF Freeze, Types
<1>2. proc[p].pc = "claimed" /\ UNCHANGED <<lock, child, rounds, calls, kind>>
  BY DEF Freeze, At, rest
<1>3. journal' \in Journals /\ journal'.attempts = journal.attempts
      /\ journal'.response = journal.response /\ journal'.job = journal.job
  BY DEF Freeze, Types, Journals
<1>4. server' \in Servers /\ server'.gen = server.gen /\ server'.owned = server.owned
      /\ server'.prepared = server.prepared /\ server'.receipt = server.receipt
  BY DEF Freeze, Types, Servers
<1>5. Types'
  BY <1>1, <1>2, <1>3, <1>4 DEF Types, Within, Turned
<1>6. HostLock'
  BY <1>1, <1>2, LockKept DEF Within
<1>7. Counted'
  BY <1>1, <1>2, <1>3, CountKept DEF Within
<1>8. Fenced'
  BY <1>1, <1>2, <1>4, FenceKept DEF Outside
<1>9. NeverFencedOff'
  BY <1>1, NotFencedOff DEF Within
<1>10. Bytes'
  BY <1>1, <1>2, <1>3, <1>4 DEF Bytes, Within, Turned, At, RerunPlaces, Unbound, Bound, None,
     OldBody
<1> QED  BY <1>5, <1>6, <1>7, <1>8, <1>9, <1>10

\* Accepting the one run of a rerun keeps the invariant (execute-rerun).
LEMMA ExecuteRerunKeeps ==
    ASSUME SessionInv, NEW p \in Procs, ExecuteRerun(p)
    PROVE  SessionInv'
<1> USE DEF SessionInv
<1>1. Within(p) /\ proc'[p].pc = "closing" /\ proc'[p].why = proc[p].why
  <2>1. "completed" \in Outcomes  BY DEF Outcomes
  <2>. QED  BY <2>1, EndTurns DEF ExecuteRerun, Types
<1>2. proc[p].pc = "rerun" /\ UNCHANGED <<lock, child, rounds, calls, kind>>
  BY DEF ExecuteRerun, At, rest
<1>3. journal' = journal
  BY DEF ExecuteRerun
<1>4. /\ server' \in Servers /\ server'.gen = server.gen /\ server'.owned = server.owned
      /\ \/ server'.prepared = 1 /\ server'.receipt = 1
         \/ server'.prepared = server.prepared /\ server'.receipt = server.receipt
  <2>1. CASE server.run = "none"
    <3>1. server' = [server EXCEPT !.run = "queued", !.receipt = 1, !.prepared = 1]
      BY <2>1 DEF ExecuteRerun
    <3>2. server \in Servers  BY DEF Types
    <3>3. server'.prepared = 1 /\ server'.receipt = 1  BY <3>1, <3>2 DEF Servers
    <3>4. server'.gen = server.gen /\ server'.owned = server.owned  BY <3>1, <3>2 DEF Servers
    <3>5. server' \in Servers
      <4>1. PICK one \in Int : one = 1  OBVIOUS
      <4>2. server' = [server EXCEPT !.run = "queued", !.receipt = one, !.prepared = one]
        BY <3>1, <4>1
      <4>. QED  BY <3>2, <4>2 DEF Servers
    <3>. QED  BY <3>3, <3>4, <3>5
  <2>2. CASE server.run # "none"  BY <2>2 DEF ExecuteRerun, Types
  <2>. QED  BY <2>1, <2>2
<1>5. Types'
  BY <1>1, <1>2, <1>3, <1>4 DEF Types, Within, Turned
<1>6. HostLock'
  BY <1>1, <1>2, LockKept DEF Within
<1>7. Counted'
  BY <1>1, <1>2, <1>3, CountKept DEF Within
<1>8. Fenced'
  BY <1>1, <1>2, <1>4, FenceKept DEF Outside
<1>9. NeverFencedOff'
  BY <1>1, NotFencedOff DEF Within
<1>10. Bytes'
  BY <1>1, <1>2, <1>3, <1>4 DEF Bytes, Within, Turned, At, RerunPlaces, Unbound, Bound, None,
     OldBody
<1> QED  BY <1>5, <1>6, <1>7, <1>8, <1>9, <1>10

\* Restoring what was prepared keeps the invariant (prepared).
LEMMA RestoreKeeps ==
    ASSUME SessionInv, NEW p \in Procs, Restore(p)
    PROVE  SessionInv'
<1> USE DEF SessionInv
<1>1. /\ Within(p) /\ proc'[p].why = proc[p].why
      /\ \/ proc'[p].pc = "unprepared" /\ Restored = None /\ journal' = journal
         \/ proc'[p].pc = "draining" /\ journal' = journal
         \/ /\ proc'[p].pc = "saved" /\ proc'[p].body = Restored /\ Restored \notin {None, OldBody}
            /\ journal' = [journal EXCEPT !.job = Restored]
  <2>1. \A x \in {"unprepared", "draining", "saved"} : x \in Places  BY DEF Places
  <2>2. Restored \in Int  BY DEF Restored, Types, Journals, Servers
  <2>3. CASE Restored = None
    BY <2>1, <2>3, StepTurns DEF Restore, Types
  <2>4. CASE Restored # None /\ PredatesBasis(Restored)
    BY <2>1, <2>4, StepTurns DEF Restore, Types
  <2>5. CASE Restored # None /\ ~PredatesBasis(Restored)
    BY <2>1, <2>2, <2>5, BodyTurns DEF Restore, Types, PredatesBasis
  <2>. QED  BY <2>3, <2>4, <2>5
<1>2. proc[p].pc = "ready" /\ UNCHANGED <<lock, child, rounds, calls, kind>>
  BY DEF Restore, At, rest
<1>3. /\ journal' \in Journals /\ journal'.attempts = journal.attempts
      /\ journal'.response = journal.response
      /\ \/ journal'.job = journal.job
         \/ journal'.job = Restored
  BY <1>1 DEF Types, Journals, Servers, Restored
<1>4. server' = server
  BY DEF Restore
<1>5. Types'
  BY <1>1, <1>2, <1>3, <1>4 DEF Types, Within, Turned
<1>6. HostLock'
  BY <1>1, <1>2, LockKept DEF Within
<1>7. Counted'
  BY <1>1, <1>2, <1>3, CountKept DEF Within
<1>8. Fenced'
  BY <1>1, <1>2, <1>4, FenceKept DEF Outside
<1>9. NeverFencedOff'
  BY <1>1, NotFencedOff DEF Within
<1>10. Bytes'
  <2>1. Restored = server.prepared  BY DEF Bytes, Restored
  <2>2. kind # "rerun"  BY <1>2 DEF Bytes, RerunPlaces
  <2>. QED  BY <1>1, <1>2, <1>3, <1>4, <2>1, <2>2 DEF Bytes, Within, Turned, At, RerunPlaces,
               Unbound, Bound, None, OldBody
<1> QED  BY <1>5, <1>6, <1>7, <1>8, <1>9, <1>10

\* Replaying a durable answer keeps the invariant (durable_response).
LEMMA ReplayKeeps ==
    ASSUME SessionInv, NEW p \in Procs, Replay(p)
    PROVE  SessionInv'
<1> USE DEF SessionInv
<1>1. /\ Within(p) /\ proc'[p].why = proc[p].why
      /\ \/ /\ proc'[p].pc = "answered" /\ proc'[p].body = journal.response
            /\ journal.response # None
         \/ proc'[p].pc = "closing" \/ proc'[p].pc = "acquire"
  <2>1. \A x \in {"answered", "acquire"} : x \in Places  BY DEF Places
  <2>2. journal.response \in Int /\ "failed" \in Outcomes  BY DEF Types, Journals, Outcomes
  <2>3. CASE journal.response # None
    BY <2>1, <2>2, <2>3, BodyTurns DEF Replay, Types
  <2>4. CASE journal.response = None /\ journal.old
    BY <2>2, <2>4, EndTurns DEF Replay, Types
  <2>5. CASE journal.response = None /\ ~journal.old
    BY <2>1, <2>5, StepTurns DEF Replay, Types
  <2>. QED  BY <2>3, <2>4, <2>5
<1>2. proc[p].pc = "unprepared" /\ UNCHANGED <<lock, child, rounds, calls, kind>>
  BY DEF Replay, At, rest
<1>3. journal' \in Journals /\ journal'.attempts = journal.attempts
      /\ journal'.response = journal.response /\ journal'.job = journal.job
  BY DEF Replay, Types, Journals
<1>4. server' = server
  BY DEF Replay
<1>5. Types'
  BY <1>1, <1>2, <1>3, <1>4 DEF Types, Within, Turned
<1>6. HostLock'
  BY <1>1, <1>2, LockKept DEF Within
<1>7. Counted'
  BY <1>1, <1>2, <1>3, CountKept DEF Within
<1>8. Fenced'
  BY <1>1, <1>2, <1>4, FenceKept DEF Outside
<1>9. NeverFencedOff'
  BY <1>1, NotFencedOff DEF Within
<1>10. Bytes'
  BY <1>1, <1>2, <1>3, <1>4 DEF Bytes, Within, Turned, At, RerunPlaces, Unbound, Bound, None,
     OldBody
<1> QED  BY <1>5, <1>6, <1>7, <1>8, <1>9, <1>10

\* Counting a call before it is made keeps the invariant (reserve_attempt).
LEMMA ReserveAttemptKeeps ==
    ASSUME SessionInv, NEW p \in Procs, ReserveAttempt(p)
    PROVE  SessionInv'
<1> USE DEF SessionInv
<1>1. /\ Within(p) /\ proc'[p].why = proc[p].why
      /\ \/ proc'[p].pc = "closing" /\ journal' = journal
         \/ /\ proc'[p].pc = "reserved" /\ journal.attempts < MaxCalls
            /\ journal' = [journal EXCEPT !.attempts = @ + 1]
  <2>1. "reserved" \in Places /\ "failed" \in Outcomes  BY DEF Places, Outcomes
  <2>2. CASE journal.attempts >= MaxCalls
    BY <2>1, <2>2, EndTurns DEF ReserveAttempt, Types
  <2>3. CASE ~(journal.attempts >= MaxCalls)
    BY <2>1, <2>3, BudgetAssumption, StepTurns DEF ReserveAttempt, Types, Journals
  <2>. QED  BY <2>2, <2>3
<1>2. proc[p].pc = "acquire" /\ UNCHANGED <<lock, child, rounds, calls, kind>>
  BY DEF ReserveAttempt, At, rest
<1>3. /\ journal' \in Journals /\ journal'.response = journal.response /\ journal'.job = journal.job
      /\ \/ journal' = journal
         \/ journal'.attempts = journal.attempts + 1
  BY <1>1 DEF Types, Journals
<1>4. server' = server
  BY DEF ReserveAttempt
<1>5. Types'
  BY <1>1, <1>2, <1>3, <1>4 DEF Types, Within, Turned
<1>6. HostLock'
  BY <1>1, <1>2, LockKept DEF Within
<1>7. Counted'
  <2>1. CASE proc'[p].pc = "closing"
    BY <1>1, <1>2, <2>1, CountKept DEF Within
  <2>2. CASE proc'[p].pc = "reserved"
    <3>1. journal'.attempts = journal.attempts + 1  BY <1>1, <2>2 DEF Types, Journals
    <3>2. \A q \in Procs : q # p => ~At(q, "calling")' /\ ~At(q, "reserved")' /\ ~At(q, "authorized")'
      BY <1>1, <1>2, Alone DEF Within, Turned, At
    <3>. QED  BY <1>1, <1>2, <1>3, <2>2, <3>1, <3>2, BudgetAssumption DEF Counted, Types,
                 Journals, At
  <2>. QED  BY <1>1, <2>1, <2>2
<1>8. Fenced'
  BY <1>1, <1>2, <1>4, FenceKept DEF Outside
<1>9. NeverFencedOff'
  BY <1>1, NotFencedOff DEF Within
<1>10. Bytes'
  BY <1>1, <1>2, <1>3, <1>4 DEF Bytes, Within, Turned, At, RerunPlaces, Unbound, Bound, None,
     OldBody
<1> QED  BY <1>5, <1>6, <1>7, <1>8, <1>9, <1>10

\* The check before a call, and the release of the attempt of a call that must
\* wait, keep the invariant (authorize, release_wait_attempt).
LEMMA AuthorizeKeeps ==
    ASSUME SessionInv, NEW p \in Procs, Authorize(p)
    PROVE  SessionInv'
<1> USE DEF SessionInv
<1>1. /\ Within(p) /\ proc'[p].why \in {proc[p].why, "heartbeat"}
      /\ \/ proc'[p].pc \in {"quarantined", "authorized"} /\ journal' = journal
         \/ proc'[p].pc = "closing" /\ journal' = [journal EXCEPT !.attempts = @ - 1]
  <2>1. Mine(p)  BY OwnersAreMine DEF Authorize, At, Outside
  <2>2. "authorized" \in Places /\ "retry" \in Outcomes /\ "heartbeat" \in Whys
    BY DEF Places, Outcomes, Whys
  <2>3. CASE proc[p].failed
    BY <2>1, <2>2, <2>3, QuarantineTurns DEF Authorize, Types
  <2>4. CASE ReleaseWait(p)
    BY <2>2, <2>4, EndTurns DEF ReleaseWait, Types
  <2>5. CASE Step(p, "authorized") /\ journal' = journal
    BY <2>2, <2>5, StepTurns DEF Types
  <2>. QED  BY <2>1, <2>3, <2>4, <2>5 DEF Authorize
<1>2. proc[p].pc = "reserved" /\ UNCHANGED <<lock, child, rounds, calls, kind>>
  BY DEF Authorize, At, rest
<1>3. calls < journal.attempts /\ calls \in Nat /\ journal.attempts \in Nat
  BY <1>2 DEF Counted, At, Types, Journals
<1>4. server' = server
  BY DEF Authorize
<1>5. /\ journal' \in Journals /\ journal'.response = journal.response /\ journal'.job = journal.job
      /\ \/ journal' = journal
         \/ proc'[p].pc = "closing" /\ journal'.attempts = journal.attempts - 1
  BY <1>1, <1>3 DEF Types, Journals
<1>6. Types'
  BY <1>1, <1>2, <1>4, <1>5 DEF Types, Within, Turned
<1>7. HostLock'
  BY <1>1, <1>2, LockKept DEF Within
<1>8. Counted'
  <2>1. \A q \in Procs : q # p => ~At(q, "calling")' /\ ~At(q, "reserved")' /\ ~At(q, "authorized")'
    BY <1>1, <1>2, Alone DEF Within, Turned, At
  <2>. QED  BY <1>1, <1>2, <1>3, <1>5, <2>1, BudgetAssumption DEF Counted, Types, Journals, At
<1>9. Fenced'
  BY <1>1, <1>2, <1>4, FenceKept DEF Outside
<1>10. NeverFencedOff'
  BY <1>1, NotFencedOff DEF Within
<1>11. Bytes'
  BY <1>1, <1>2, <1>4, <1>5 DEF Bytes, Within, Turned, At, RerunPlaces, Unbound, Bound, None,
     OldBody
<1> QED  BY <1>6, <1>7, <1>8, <1>9, <1>10, <1>11

\* Starting the call in a child that inherits the lock keeps the invariant (supervised_call).
LEMMA CallKeeps ==
    ASSUME SessionInv, NEW p \in Procs, Call(p)
    PROVE  SessionInv'
<1> USE DEF SessionInv
<1>1. Within(p) /\ proc'[p].pc = "calling" /\ proc'[p].why = proc[p].why
  <2>1. "calling" \in Places  BY DEF Places
  <2>. QED  BY <2>1, StepTurns DEF Call, Types
<1>2. /\ proc[p].pc = "authorized" /\ UNCHANGED <<rounds, kind>>
      /\ child' = child \cup {p} /\ lock' = lock \cup {Inherits(p)} /\ calls' = calls + 1
  BY DEF Call, At, Inherited
<1>3. journal' = journal
  BY DEF Call
<1>4. server' = server
  BY DEF Call
<1>5. Types'
  BY <1>1, <1>2, <1>3, <1>4 DEF Types, Within, Turned, Inherits
<1>6. HostLock'
  BY <1>1, <1>2, Alone DEF Types, HostLock, Busy, Within, Turned, Own, Inherits
<1>7. Counted'
  BY <1>1, <1>2, <1>3, Alone DEF Counted, Types, Journals, At, Within, Turned
<1>8. Fenced'
  BY <1>1, <1>2, <1>4, FenceKept DEF Outside
<1>9. NeverFencedOff'
  BY <1>1, NotFencedOff DEF Within
<1>10. Bytes'
  BY <1>1, <1>2, <1>3, <1>4 DEF Bytes, Within, Turned, At, RerunPlaces, Unbound, Bound, None,
     OldBody
<1> QED  BY <1>5, <1>6, <1>7, <1>8, <1>9, <1>10

\* An answer, journalled before it is used, keeps the invariant (durable_response).
LEMMA AnswerKeeps ==
    ASSUME SessionInv, NEW p \in Procs, NEW valid \in BOOLEAN, Answer(p, valid)
    PROVE  SessionInv'
<1> USE DEF SessionInv
<1>1. /\ Within(p) /\ proc'[p].why = proc[p].why
      /\ \/ proc'[p].pc = "closing" /\ journal' = journal
         \/ /\ proc'[p].pc = "answered" /\ proc'[p].body = journal'.response
            /\ journal' = [journal EXCEPT !.response = IF @ = None THEN calls ELSE @]
  <2>1. "answered" \in Places /\ "retry" \in Outcomes  BY DEF Places, Outcomes
  <2>2. CASE valid
    <3>1. journal' = [journal EXCEPT !.response = IF @ = None THEN calls ELSE @]
      BY <2>2 DEF Answer
    <3>2. journal'.response \in Int  BY <3>1 DEF Types, Journals
    <3>. QED  BY <2>1, <2>2, <3>1, <3>2, BodyTurns DEF Answer, Types
  <2>3. CASE ~valid
    BY <2>1, <2>3, EndTurns DEF Answer, Types
  <2>. QED  BY <2>2, <2>3
<1>2. /\ proc[p].pc = "calling" /\ p \in child /\ UNCHANGED <<rounds, kind, calls>>
      /\ child' = child \ {p} /\ lock' = lock \ {Inherits(p)}
  BY DEF Answer, At, rest
<1>3. /\ journal' \in Journals /\ journal'.attempts = journal.attempts /\ journal'.job = journal.job
      /\ journal'.response \in {journal.response, calls}
      /\ proc'[p].pc = "answered" => journal'.response # None
      /\ journal'.response # journal.response => proc'[p].pc = "answered"
  BY <1>1, <1>2 DEF Types, Journals, Counted, At, None
<1>4. server' = server
  BY DEF Answer
<1>5. Types'
  BY <1>1, <1>2, <1>3, <1>4 DEF Types, Within, Turned
<1>6. HostLock'
  BY <1>1, <1>2, Alone DEF Types, HostLock, Busy, Within, Turned, Own, Inherits
<1>7. Counted'
  BY <1>1, <1>2, <1>3 DEF Counted, Types, Journals, At, Within, Turned
<1>8. Fenced'
  BY <1>1, <1>2, <1>4, FenceKept DEF Outside
<1>9. NeverFencedOff'
  BY <1>1, NotFencedOff DEF Within
<1>10. Bytes'
  <2>1. kind # "rerun" /\ server.prepared = None  BY <1>2 DEF Bytes, RerunPlaces, Unbound
  <2>2. \A q \in Procs : q # p => proc'[q].pc = "idle"  BY <1>1, <1>2, Alone DEF Within, Turned
  <2>3. \A q \in Procs : q # p => ~At(q, "rerun")' /\ ~At(q, "answered")'  BY <2>2 DEF At
  <2>. QED  BY <1>1, <1>2, <1>3, <1>4, <2>1, <2>2, <2>3 DEF Bytes, At, Unbound, Bound, None, OldBody
<1> QED  BY <1>5, <1>6, <1>7, <1>8, <1>9, <1>10

\* Binding the bytes at the server keeps the invariant (save_prepared_request, register_prepared).
LEMMA ReserveBodyKeeps ==
    ASSUME SessionInv, NEW p \in Procs, ReserveBody(p)
    PROVE  SessionInv'
<1> USE DEF SessionInv
<1>1. /\ Within(p) /\ proc'[p].pc \in {"closing", "bound", "quarantined"}
      /\ proc'[p].pc = "bound" => proc'[p].body = proc[p].body
      /\ proc'[p].why \in {proc[p].why, "unreachable"}
      /\ server' \in {server, [server EXCEPT !.prepared = proc[p].body]}
      /\ proc'[p].pc = "bound" => server' = [server EXCEPT !.prepared = proc[p].body]
  <2>1. Mine(p)  BY OwnersAreMine DEF ReserveBody, At, Outside
  <2>2. "bound" \in Places /\ "retry" \in Outcomes /\ "unreachable" \in Whys
    BY DEF Places, Outcomes, Whys
  <2>3. server.prepared = None  BY DEF Bytes, ReserveBody, At
  <2>4. CASE server.stopped \/ LastRound.state # "open"
    BY <2>1, <2>2, <2>3, <2>4, EndTurns DEF ReserveBody, Types
  <2>5. CASE ~(server.stopped \/ LastRound.state # "open")
    <3>1. /\ server' = [server EXCEPT !.prepared = proc[p].body]
          /\ Step(p, "bound") \/ Quarantine(p, "unreachable")
      BY <2>1, <2>3, <2>5 DEF ReserveBody
    <3>2. CASE Step(p, "bound")  BY <2>2, <3>1, <3>2, StepTurns DEF Types
    <3>3. CASE Quarantine(p, "unreachable")  BY <2>2, <3>1, <3>3, QuarantineTurns DEF Types
    <3>. QED  BY <3>1, <3>2, <3>3
  <2>. QED  BY <2>4, <2>5
<1>2. proc[p].pc = "answered" /\ UNCHANGED <<lock, child, rounds, calls, kind>>
  BY DEF ReserveBody, At, rest
<1>3. journal' = journal
  BY DEF ReserveBody
<1>4. /\ server' \in Servers /\ server'.gen = server.gen /\ server'.owned = server.owned
      /\ server'.receipt = server.receipt
      /\ server'.prepared \in {server.prepared, proc[p].body}
      /\ proc'[p].pc = "bound" => server'.prepared = proc[p].body
  BY <1>1 DEF Types, Servers, Processes
<1>5. Types'
  BY <1>1, <1>2, <1>3, <1>4 DEF Types, Within, Turned
<1>6. HostLock'
  BY <1>1, <1>2, LockKept DEF Within
<1>7. Counted'
  BY <1>1, <1>2, <1>3, CountKept DEF Within
<1>8. Fenced'
  BY <1>1, <1>2, <1>4, FenceKept DEF Outside
<1>9. NeverFencedOff'
  BY <1>1, NotFencedOff DEF Within
<1>10. Bytes'
  BY <1>1, <1>2, <1>3, <1>4, Alone DEF Types, Journals, Bytes, Within, Turned, At, RerunPlaces,
     Unbound, Bound, None, OldBody
<1> QED  BY <1>5, <1>6, <1>7, <1>8, <1>9, <1>10

\* Keeping the bound bytes in the journal keeps the invariant (save_prepared_request).
LEMMA SaveJobKeeps ==
    ASSUME SessionInv, NEW p \in Procs, SaveJob(p)
    PROVE  SessionInv'
<1> USE DEF SessionInv
<1>1. Within(p) /\ proc'[p].pc = "saved" /\ proc'[p].body = proc[p].body /\ proc'[p].why = proc[p].why
  <2>1. "saved" \in Places  BY DEF Places
  <2>. QED  BY <2>1, StepTurns DEF SaveJob, Types
<1>2. proc[p].pc = "bound" /\ UNCHANGED <<lock, child, rounds, calls, kind>>
  BY DEF SaveJob, At, rest
<1>3. /\ journal' \in Journals /\ journal'.attempts = journal.attempts
      /\ journal'.response = journal.response
      /\ journal'.job \in {journal.job, proc[p].body}
  BY DEF SaveJob, Types, Journals, Processes
<1>4. server' = server
  BY DEF SaveJob
<1>5. Types'
  BY <1>1, <1>2, <1>3, <1>4 DEF Types, Within, Turned
<1>6. HostLock'
  BY <1>1, <1>2, LockKept DEF Within
<1>7. Counted'
  BY <1>1, <1>2, <1>3, CountKept DEF Within
<1>8. Fenced'
  BY <1>1, <1>2, <1>4, FenceKept DEF Outside
<1>9. NeverFencedOff'
  BY <1>1, NotFencedOff DEF Within
<1>10. Bytes'
  BY <1>1, <1>2, <1>3, <1>4 DEF Bytes, Within, Turned, At, RerunPlaces, Unbound, Bound, None,
     OldBody
<1> QED  BY <1>5, <1>6, <1>7, <1>8, <1>9, <1>10

\* Confirming the delivery keeps the invariant (headers).
LEMMA ConfirmKeeps ==
    ASSUME SessionInv, NEW p \in Procs, Confirm(p)
    PROVE  SessionInv'
<1> USE DEF SessionInv
<1>1. /\ Within(p) /\ proc'[p].pc \in {"quarantined", "confirmed"}
      /\ proc'[p].pc = "confirmed" => proc'[p].body = proc[p].body
      /\ proc'[p].why \in {proc[p].why, "heartbeat"}
  <2>1. Mine(p)  BY OwnersAreMine DEF Confirm, At, Outside
  <2>2. "confirmed" \in Places /\ "heartbeat" \in Whys  BY DEF Places, Whys
  <2>3. CASE proc[p].failed
    BY <2>1, <2>2, <2>3, QuarantineTurns DEF Confirm, Types
  <2>4. CASE ~proc[p].failed
    BY <2>1, <2>2, <2>4, StepTurns DEF Confirm, Types
  <2>. QED  BY <2>3, <2>4
<1>2. proc[p].pc = "saved" /\ UNCHANGED <<lock, child, rounds, calls, kind>>
  BY DEF Confirm, At, rest
<1>3. journal' \in Journals /\ journal'.attempts = journal.attempts
      /\ journal'.response = journal.response /\ journal'.job = journal.job
  BY DEF Confirm, Types, Journals, Processes
<1>4. server' \in Servers /\ server'.gen = server.gen /\ server'.owned = server.owned
      /\ server'.prepared = server.prepared /\ server'.receipt = server.receipt
  BY DEF Confirm, Types, Servers
<1>5. Types'
  BY <1>1, <1>2, <1>3, <1>4 DEF Types, Within, Turned
<1>6. HostLock'
  BY <1>1, <1>2, LockKept DEF Within
<1>7. Counted'
  BY <1>1, <1>2, <1>3, CountKept DEF Within
<1>8. Fenced'
  BY <1>1, <1>2, <1>4, FenceKept DEF Outside
<1>9. NeverFencedOff'
  BY <1>1, NotFencedOff DEF Within
<1>10. Bytes'
  BY <1>1, <1>2, <1>3, <1>4 DEF Bytes, Within, Turned, At, RerunPlaces, Unbound, Bound, None,
     OldBody
<1> QED  BY <1>5, <1>6, <1>7, <1>8, <1>9, <1>10

\* Accepting the confirmed bytes keeps the invariant (deliver, associate_receipt).
LEMMA DeliverKeeps ==
    ASSUME SessionInv, NEW p \in Procs, Deliver(p)
    PROVE  SessionInv'
<1> USE DEF SessionInv
<1>1. Within(p) /\ proc'[p].pc \in {"delivered", "closing"} /\ proc'[p].why = proc[p].why
  <2>1. "delivered" \in Places /\ "retry" \in Outcomes  BY DEF Places, Outcomes
  <2>. QED  BY <2>1, StepTurns, EndTurns DEF Deliver, Types
<1>2. proc[p].pc = "confirmed" /\ UNCHANGED <<lock, child, rounds, calls, kind>>
  BY DEF Deliver, At, rest
<1>3. journal' \in Journals /\ journal'.attempts = journal.attempts
      /\ journal'.response = journal.response /\ journal'.job = journal.job
  BY DEF Deliver, Types, Journals
<1>4. /\ server' \in Servers /\ server'.gen = server.gen /\ server'.owned = server.owned
      /\ server'.prepared = server.prepared /\ server'.receipt = proc[p].body
  BY DEF Deliver, Accepted, Types, Servers, Processes
<1>5. Types'
  BY <1>1, <1>2, <1>3, <1>4 DEF Types, Within, Turned
<1>6. HostLock'
  BY <1>1, <1>2, LockKept DEF Within
<1>7. Counted'
  BY <1>1, <1>2, <1>3, CountKept DEF Within
<1>8. Fenced'
  BY <1>1, <1>2, <1>4, FenceKept DEF Outside
<1>9. NeverFencedOff'
  BY <1>1, NotFencedOff DEF Within
<1>10. Bytes'
  BY <1>1, <1>2, <1>3, <1>4 DEF Bytes, Within, Turned, At, RerunPlaces, Unbound, Bound, None,
     OldBody
<1> QED  BY <1>5, <1>6, <1>7, <1>8, <1>9, <1>10

\* Reading the terminal run keeps the invariant (get_run_status).
LEMMA ObserveKeeps ==
    ASSUME SessionInv, NEW p \in Procs, Observe(p)
    PROVE  SessionInv'
<1> USE DEF SessionInv
<1>1. Within(p) /\ proc'[p].pc = "closing" /\ proc'[p].why = proc[p].why
  <2>1. server.run \in Outcomes  BY DEF Observe, Outcomes
  <2>. QED  BY <2>1, EndTurns DEF Observe, Types
<1>2. proc[p].pc = "delivered" /\ UNCHANGED <<lock, child, rounds, calls, kind>>
  BY DEF Observe, At, rest
<1>3. journal' = journal
  BY DEF Observe
<1>4. server' = server
  BY DEF Observe
<1>5. Types'
  BY <1>1, <1>2, <1>3, <1>4 DEF Types, Within, Turned
<1>6. HostLock'
  BY <1>1, <1>2, LockKept DEF Within
<1>7. Counted'
  BY <1>1, <1>2, <1>3, CountKept DEF Within
<1>8. Fenced'
  BY <1>1, <1>2, <1>4, FenceKept DEF Outside
<1>9. NeverFencedOff'
  BY <1>1, NotFencedOff DEF Within
<1>10. Bytes'
  BY <1>1, <1>2, <1>3, <1>4 DEF Bytes, Within, Turned, At, RerunPlaces, Unbound, Bound, None,
     OldBody
<1> QED  BY <1>5, <1>6, <1>7, <1>8, <1>9, <1>10

\* Draining what is retained keeps the invariant (drain_prepared).
LEMMA DrainKeeps ==
    ASSUME SessionInv, NEW p \in Procs, Drain(p)
    PROVE  SessionInv'
<1> USE DEF SessionInv
<1>1. Within(p) /\ proc'[p].pc \in {"delivered", "closing"} /\ proc'[p].why = proc[p].why
  <2>1. Mine(p)  BY OwnersAreMine DEF Drain, At, Outside
  <2>2. CASE server.prepared # None /\ server.receipt = None /\ PredatesBasis(server.prepared)
    BY <2>1, <2>2, BlockedTurns DEF Drain, Types
  <2>3. CASE ~(server.prepared # None /\ server.receipt = None /\ PredatesBasis(server.prepared))
    <3>1. server.prepared \in Int  BY DEF Types, Servers
    <3>2. proc' = [proc EXCEPT
                     ![p].pc = IF proc[p].outcome = "none" /\ server.prepared # None
                               THEN "delivered" ELSE "closing",
                     ![p].outcome = IF @ = "none" /\ server.prepared = None THEN "retry" ELSE @]
      BY <2>1, <2>3 DEF Drain
    <3>. QED  BY <3>1, <3>2, DrainTurns DEF Types
  <2>. QED  BY <2>2, <2>3
<1>2. proc[p].pc = "draining" /\ UNCHANGED <<lock, child, rounds, calls, kind>>
  BY DEF Drain, At, rest
<1>3. journal' \in Journals /\ journal'.attempts = journal.attempts
      /\ journal'.response = journal.response /\ journal'.job = journal.job
  BY DEF Drain, Types, Journals
<1>4. /\ server' \in Servers /\ server'.gen = server.gen /\ server'.owned = server.owned
      /\ server'.prepared = server.prepared
      /\ \/ server'.receipt = server.receipt
         \/ /\ server'.receipt = server.prepared
            /\ ~(server.prepared # None /\ server.receipt = None /\ server.prepared = OldBody)
  BY DEF Drain, Accepted, PredatesBasis, Types, Servers
<1>5. Types'
  BY <1>1, <1>2, <1>3, <1>4 DEF Types, Within, Turned
<1>6. HostLock'
  BY <1>1, <1>2, LockKept DEF Within
<1>7. Counted'
  BY <1>1, <1>2, <1>3, CountKept DEF Within
<1>8. Fenced'
  BY <1>1, <1>2, <1>4, FenceKept DEF Outside
<1>9. NeverFencedOff'
  BY <1>1, NotFencedOff DEF Within
<1>10. Bytes'
  BY <1>1, <1>2, <1>3, <1>4 DEF Bytes, Within, Turned, At, RerunPlaces, Unbound, Bound, None,
     OldBody
<1> QED  BY <1>5, <1>6, <1>7, <1>8, <1>9, <1>10

\* The end of an orphaned child releases the lock it inherited.
LEMMA OrphanEndsKeeps ==
    ASSUME SessionInv, NEW p \in Procs, OrphanEnds(p)
    PROVE  SessionInv'
<1> USE DEF SessionInv
<1>1. /\ UNCHANGED <<proc, journal, server, rounds, calls, kind>> /\ proc[p].pc # "calling"
      /\ child' = child \ {p} /\ lock' = lock \ {Inherits(p)}
  BY DEF OrphanEnds, rest, At
<1>2. Types'  BY <1>1 DEF Types
<1>3. HostLock'  BY <1>1 DEF Types, HostLock, Busy, Own, Inherits
<1>4. Counted' /\ Bytes' /\ NeverFencedOff'  BY <1>1 DEF Counted, Bytes, NeverFencedOff, At
<1>5. Fenced'  BY <1>1 DEF Fenced, At, Replayed, Fits
<1> QED  BY <1>2, <1>3, <1>4, <1>5

\* A refused heartbeat is only noted.
LEMMA HeartbeatFailsKeeps ==
    ASSUME SessionInv, NEW p \in Procs, HeartbeatFails(p)
    PROVE  SessionInv'
<1> USE DEF SessionInv
<1>1. /\ Within(p) /\ proc'[p].pc = proc[p].pc /\ proc'[p].body = proc[p].body
      /\ proc'[p].outcome = proc[p].outcome /\ proc'[p].why = proc[p].why
  BY FailedTurns DEF HeartbeatFails, Types
<1>2. UNCHANGED <<lock, child, journal, server, rounds, calls, kind>>
  BY DEF HeartbeatFails, rest
<1>3. \A q \in Procs : /\ proc'[q].pc = proc[q].pc /\ proc'[q].gen = proc[q].gen
                       /\ proc'[q].body = proc[q].body /\ proc'[q].outcome = proc[q].outcome
                       /\ proc'[q].why = proc[q].why
  BY <1>1 DEF Within, Turned
<1>4. Types'  BY <1>1, <1>2 DEF Types, Within, Turned
<1>5. HostLock'  BY <1>2, <1>3 DEF Types, HostLock, Busy, Own, Inherits
<1>6. Counted' /\ Bytes' /\ NeverFencedOff'  BY <1>2, <1>3 DEF Counted, Bytes, NeverFencedOff, At
<1>7. Fenced'  BY <1>2, <1>3 DEF Fenced, At, Replayed, Fits
<1> QED  BY <1>4, <1>5, <1>6, <1>7

\* A process that leaves its session, however it does, lets go of the lock
\* and of nothing else; its call keeps the lock in the child.
LEMMA GoneKeeps ==
    ASSUME SessionInv, NEW p \in Procs, proc[p].pc # "idle", proc' = [proc EXCEPT ![p] = Idle],
           lock' = lock \ {Own(p)}, UNCHANGED <<child, journal, server, rounds, calls, kind>>
    PROVE  SessionInv'
<1> USE DEF SessionInv
<1>1. Turned(p) /\ proc'[p].pc = "idle" /\ proc'[p].gen = 0 /\ proc'[p].why = "none"
  BY IdleTurns DEF Types
<1>2. \A q \in Procs : proc'[q].pc = "idle"  BY <1>1, Alone DEF Turned
<1>3. Types'  BY <1>1 DEF Types, Turned
<1>4. HostLock'  BY <1>1, <1>2, Alone DEF Types, HostLock, Busy, Own, Inherits
<1>5. Counted'  BY <1>2 DEF Counted, At
<1>6. Fenced'
  <2>1. \A q \in Procs : proc'[q].gen = 0  BY <1>1, Alone DEF Turned, Fenced
  <2>. QED  BY <1>2, <2>1 DEF Fenced, At, Outside
<1>7. NeverFencedOff'  BY <1>1, NotFencedOff
<1>8. Bytes'  BY <1>2 DEF Bytes, At, Unbound, Bound, RerunPlaces
<1> QED  BY <1>3, <1>4, <1>5, <1>6, <1>7, <1>8

\* The three ways out of a session: settled, replaced after giving up, dead.
LEMMA LeaveKeeps ==
    ASSUME SessionInv, NEW p \in Procs, Leave(p) \/ Replaced(p) \/ Die(p)
    PROVE  SessionInv'
<1>1. /\ proc[p].pc # "idle" /\ proc' = [proc EXCEPT ![p] = Idle] /\ lock' = lock \ {Own(p)}
      /\ UNCHANGED <<child, journal, server, rounds, calls, kind>>
  BY DEF Leave, Replaced, Die, InSession, At, rest
<1> QED  BY <1>1, GoneKeeps

\* Commands and the end of a normalisation do not touch what a session relies on.
LEMMA OutsideKeeps ==
    ASSUME SessionInv, Command \/ NormalizationEnds
    PROVE  SessionInv'
<1> USE DEF SessionInv
<1>1. UNCHANGED <<proc, lock, child, journal, rounds, calls, kind>>
  BY DEF Command, NormalizationEnds, rest
<1>2. /\ server' \in Servers /\ server'.gen = server.gen /\ server'.owned = server.owned
      /\ server'.prepared = server.prepared /\ server'.receipt = server.receipt
  <2>1. CASE Command
    BY <2>1 DEF Command, Types, Servers
  <2>2. CASE NormalizationEnds
    BY <2>2 DEF NormalizationEnds, Types, Servers
  <2>. QED  BY <2>1, <2>2
<1>3. Types'  BY <1>1, <1>2 DEF Types
<1>4. HostLock'  BY <1>1 DEF HostLock, Busy
<1>5. Counted' /\ Bytes' /\ NeverFencedOff'  BY <1>1, <1>2 DEF Counted, Bytes, NeverFencedOff, At
<1>6. Fenced'  BY <1>1, <1>2 DEF Fenced, At, Replayed, Fits
<1> QED  BY <1>3, <1>4, <1>5, <1>6

\* The rounds after a change to the last one.
LEMMA LastChanges ==
    ASSUME rounds \in Seq(Rounds), Len(rounds) > 0, NEW r \in Rounds,
           rounds' = [rounds EXCEPT ![Len(rounds)] = r]
    PROVE  /\ rounds' \in Seq(Rounds) /\ Len(rounds') = Len(rounds) /\ rounds'[Len(rounds)] = r
           /\ \A n \in 1 .. Len(rounds) : n # Len(rounds) => rounds'[n] = rounds[n]
  OBVIOUS

\* Every round is one.
LEMMA RoundsFit ==
    ASSUME Types
    PROVE  /\ \A n \in 1 .. Len(rounds) : rounds[n] \in Rounds
           /\ Len(rounds) > 0 => rounds[Len(rounds)] \in Rounds
  BY DEF Types

\* What was settled before is not this session's round while it owns the work.
LEMMA NothingReplayed ==
    ASSUME Fenced, NEW p \in Procs, proc[p].pc # "idle", server.owned, Types
    PROVE  Replayed(p) = {} /\ Mine(p) /\ Len(rounds) > 0
<1>1. \A n \in 1 .. Len(rounds) : rounds[n].gen \in Nat
  BY RoundsFit DEF Rounds
<1>2. server.gen \in Nat  BY DEF Types, Servers
<1> QED  BY <1>1, <1>2 DEF Fenced, Replayed, Mine

\* Closing the round keeps the invariant (close).
LEMMA CloseKeeps ==
    ASSUME SessionInv, NEW p \in Procs, Close(p)
    PROVE  SessionInv'
<1> USE DEF SessionInv
<1>1. /\ proc[p].pc = "closing" /\ server.owned /\ Replayed(p) = {} /\ Mine(p) /\ Len(rounds) > 0
      /\ UNCHANGED <<lock, child, calls, kind, journal, server>>
  BY NothingReplayed DEF Close, At, rest, Fenced, Outside
<1>2. Within(p) /\ proc'[p].pc = "closed" /\ proc'[p].why = proc[p].why
  <2>1. "closed" \in Places  BY DEF Places
  <2>. QED  BY <1>1, <2>1, StepTurns DEF Close, Types
<1> DEFINE L == Len(rounds)
           r == [rounds[L] EXCEPT !.state = IF @ = "open" THEN "closed" ELSE @]
<1>3. rounds' = [rounds EXCEPT ![L] = r]
  BY <1>1 DEF Close
<1>4. r \in Rounds /\ r.gen = rounds[L].gen /\ r.state # "settled"
  BY <1>1, RoundsFit DEF Rounds, Fenced
<1> HIDE DEF r
<1>5. /\ rounds' \in Seq(Rounds) /\ Len(rounds') = L /\ rounds'[L] = r
      /\ \A n \in 1 .. L : n # L => rounds'[n] = rounds[n]
  BY <1>1, <1>3, <1>4, LastChanges DEF Types
<1>6. Types'  BY <1>1, <1>2, <1>5 DEF Types, Within, Turned
<1>7. HostLock'  BY <1>1, <1>2, LockKept DEF Within
<1>8. Counted'  BY <1>1, <1>2, CountKept DEF Within
<1>9. Fenced'
  <2>1. \A q \in Procs : q # p => proc'[q].pc = "idle"  BY <1>1, <1>2, Alone DEF Within, Turned
  <2>2. L \in Nat /\ server.gen \in Nat  BY DEF Types, Servers
  <2>3. /\ proc'[p].gen = server.gen /\ \A q \in Procs : q # p => proc'[q].gen = 0
    BY <1>1, <1>2, Alone DEF Fenced, Within, Turned
  <2>4. /\ \A n \in 1 .. L : rounds'[n].gen <= server.gen
        /\ rounds'[L].gen = server.gen /\ rounds'[L].state # "settled"
        /\ \A n \in 1 .. L : rounds'[n].state = "settled" => rounds'[n].gen < server.gen
    BY <1>1, <1>4, <1>5, <2>2 DEF Fenced
  <2>. QED  BY <1>1, <1>2, <1>5, <2>1, <2>3, <2>4 DEF Fenced, Outside, At
<1>10. NeverFencedOff'  BY <1>2, NotFencedOff DEF Within
<1>11. Bytes'
  BY <1>1, <1>2 DEF Bytes, Within, Turned, At, RerunPlaces, Unbound, Bound, None, OldBody
<1> QED  BY <1>6, <1>7, <1>8, <1>9, <1>10, <1>11

\* A settlement that was sent before finds its own round again.
LEMMA SettledAgain ==
    ASSUME Types, Fenced, NEW p \in Procs, proc[p].pc = "closed", ~server.owned
    PROVE  Replayed(p) # {} /\ Fits(p)
  BY DEF Fenced, At

\* Settling keeps the invariant (settle): whoever is told that the round is
\* settled, or was not told, finds it settled under the same fence.
LEMMA SettleKeeps ==
    ASSUME SessionInv, NEW p \in Procs, Settle(p)
    PROVE  SessionInv'
<1> USE DEF SessionInv
<1>1. proc[p].pc = "closed" /\ UNCHANGED <<lock, child, calls, kind, journal>>
  BY DEF Settle, At, rest
<1>2. \A q \in Procs : q # p => proc[q].pc = "idle"  BY <1>1, Alone
<1>3. \A x \in {"settled", "closed", "draining"} : x \in Places  BY DEF Places
<1>4. \A x \in {"heartbeat", "unreachable"} : x \in Whys  BY DEF Whys
<1>5. ASSUME Within(p), proc'[p].pc \in {"settled", "closed", "draining", "quarantined"},
             proc'[p].why \in {proc[p].why, "heartbeat", "unreachable"}, rounds' \in Seq(Rounds),
             server' \in Servers, server'.prepared = server.prepared, server'.receipt = server.receipt,
             kind = "rerun" => proc'[p].pc # "draining", Fenced'
      PROVE  SessionInv'
  <2>1. Types'  BY <1>1, <1>5 DEF Types, Within, Turned
  <2>2. HostLock'  BY <1>1, <1>5, LockKept DEF Within
  <2>3. Counted'  BY <1>1, <1>5, CountKept DEF Within
  <2>4. NeverFencedOff'  BY <1>5, NotFencedOff DEF Within
  <2>5. Bytes'
    BY <1>1, <1>5 DEF Bytes, Within, Turned, At, RerunPlaces, Unbound, Bound, None, OldBody
  <2>. QED  BY <1>5, <2>1, <2>2, <2>3, <2>4, <2>5
<1>6. ASSUME UNCHANGED <<server, rounds>>, Within(p), proc'[p].pc \in {"settled", "quarantined"}
      PROVE  Fenced'
  BY <1>1, <1>2, <1>6 DEF Fenced, Within, Turned, Outside, At
<1>7. CASE proc[p].failed
  <2>1. Within(p) /\ proc'[p].pc = "quarantined" /\ proc'[p].why = "heartbeat"
    BY <1>4, <1>7, QuarantineTurns DEF Settle, Types
  <2>2. UNCHANGED <<server, rounds>>  BY <1>7 DEF Settle
  <2>. QED  BY <1>5, <1>6, <2>1, <2>2 DEF Types
<1>8. CASE ~proc[p].failed /\ ~server.owned
  <2>1. Replayed(p) # {} /\ Fits(p)  BY <1>1, <1>8, SettledAgain
  <2>2. Within(p) /\ proc'[p].pc = "settled" /\ proc'[p].why = proc[p].why
    BY <1>3, <1>8, <2>1, StepTurns DEF Settle, Types
  <2>3. UNCHANGED <<server, rounds>>  BY <1>8, <2>1 DEF Settle
  <2>. QED  BY <1>5, <1>6, <2>2, <2>3 DEF Types
<1>9. CASE ~proc[p].failed /\ server.owned
  <2>1. Replayed(p) = {} /\ Mine(p) /\ Len(rounds) > 0  BY <1>1, <1>9, NothingReplayed
  <2> DEFINE L == Len(rounds)
  <2>2. L \in Nat /\ server.gen \in Nat /\ rounds[L] \in Rounds
    BY <2>1, RoundsFit DEF Types, Servers
  <2>3. CASE Pending /\ proc[p].outcome # "retry" /\ ~Waived(p)
    <3>1. Within(p) /\ proc'[p].pc = "draining" /\ proc'[p].why = proc[p].why
      BY <1>3, <1>9, <2>1, <2>3, StepTurns DEF Settle, Types
    <3> DEFINE r == [rounds[L] EXCEPT !.state = "draining"]
    <3>2. rounds' = [rounds EXCEPT ![L] = r] /\ server' = server
      BY <1>9, <2>1, <2>3 DEF Settle
    <3>3. r \in Rounds /\ r.gen = rounds[L].gen /\ r.state # "settled"  BY <2>2 DEF Rounds
    <3> HIDE DEF r
    <3>4. /\ rounds' \in Seq(Rounds) /\ Len(rounds') = L /\ rounds'[L] = r
          /\ \A n \in 1 .. L : n # L => rounds'[n] = rounds[n]
      BY <2>1, <3>2, <3>3, LastChanges DEF Types
    <3>5. Fenced'
      <4>1. \A q \in Procs : q # p => proc'[q].pc = "idle"  BY <1>2, <3>1 DEF Within, Turned
      <4>2. /\ proc'[p].gen = server.gen /\ \A q \in Procs : q # p => proc'[q].gen = 0
        BY <1>1, <1>2, <1>9, <3>1, <3>2 DEF Fenced, Within, Turned
      <4>3. /\ \A n \in 1 .. L : rounds'[n].gen <= server.gen
            /\ rounds'[L].gen = server.gen /\ rounds'[L].state # "settled"
            /\ \A n \in 1 .. L : rounds'[n].state = "settled" => rounds'[n].gen < server.gen
        BY <1>9, <2>2, <3>3, <3>4 DEF Fenced
      <4>. QED  BY <1>9, <2>1, <3>1, <3>2, <3>4, <4>1, <4>2, <4>3 DEF Fenced, Outside, At
    <3>6. kind # "rerun"  BY <2>3 DEF Pending, Bytes
    <3>. QED  BY <1>5, <3>1, <3>2, <3>4, <3>5, <3>6 DEF Types
  <2>4. CASE ~(Pending /\ proc[p].outcome # "retry" /\ ~Waived(p))
    <3> DEFINE o == FinalOutcome(p)
               r == [rounds[L] EXCEPT !.state = "settled", !.outcome = o]
    <3>1. o \in Outcomes  BY DEF FinalOutcome, Types, Processes, Outcomes
    <3>2. /\ rounds' = [rounds EXCEPT ![L] = r]
          /\ server' = [server EXCEPT !.owned = FALSE, !.state = IF o = "retry" THEN "queued" ELSE "ended"]
      BY <1>9, <2>1, <2>4 DEF Settle
    <3>3. Step(p, "settled") \/ Step(p, "closed") \/ Quarantine(p, "unreachable")
      BY <1>9, <2>1, <2>4 DEF Settle
    <3>4. \/ o = proc[p].outcome
          \/ kind = "rerun" /\ proc[p].outcome = "completed" /\ o = "failed"
      BY DEF FinalOutcome
    <3> HIDE DEF o
    <3>5. r \in Rounds /\ r.gen = rounds[L].gen /\ r.state = "settled" /\ r.outcome = o
      BY <2>2, <3>1 DEF Rounds
    <3>6. /\ server' \in Servers /\ server'.gen = server.gen /\ server'.owned = FALSE
          /\ server'.prepared = server.prepared /\ server'.receipt = server.receipt
      BY <3>2 DEF Types, Servers
    <3> HIDE DEF r
    <3>7. /\ rounds' \in Seq(Rounds) /\ Len(rounds') = L /\ rounds'[L] = r
          /\ \A n \in 1 .. L : n # L => rounds'[n] = rounds[n]
      BY <2>1, <3>2, <3>5, LastChanges DEF Types
    <3>8. ASSUME Within(p), proc'[p].outcome = proc[p].outcome
          PROVE  Replayed(p)' # {} /\ Fits(p)'
      <4>1. proc'[p].gen = server.gen /\ rounds[L].gen = server.gen
        BY <1>1, <1>9, <3>8 DEF Fenced, Within
      <4>2. \A n \in 1 .. L : n # L /\ rounds[n].state = "settled" => rounds[n].gen # server.gen
        BY <1>9, <2>2, RoundsFit DEF Fenced, Rounds
      <4>3. Replayed(p)' = {L}
        BY <2>1, <2>2, <3>5, <3>7, <4>1, <4>2 DEF Replayed
      <4>. QED  BY <1>1, <3>4, <3>5, <3>7, <3>8, <4>3 DEF Fits
    <3>9. ASSUME Within(p), proc'[p].pc \in {"settled", "closed", "quarantined"},
                 At(p, "closed")' => Replayed(p)' # {} /\ Fits(p)'
          PROVE  Fenced'
      BY <1>1, <1>2, <1>9, <2>1, <2>2, <3>5, <3>6, <3>7, <3>9
      DEF Fenced, Within, Turned, Outside, At
    <3>10. CASE Step(p, "settled") \/ Step(p, "closed")
      <4>1. /\ Within(p) /\ proc'[p].pc \in {"settled", "closed"} /\ proc'[p].why = proc[p].why
            /\ proc'[p].outcome = proc[p].outcome
        BY <1>3, <3>10, StepTurns DEF Types
      <4>. QED  BY <1>5, <3>6, <3>7, <3>8, <3>9, <4>1
    <3>11. CASE Quarantine(p, "unreachable")
      <4>1. Within(p) /\ proc'[p].pc = "quarantined" /\ proc'[p].why = "unreachable"
        BY <1>4, <3>11, QuarantineTurns DEF Types
      <4>. QED  BY <1>5, <3>6, <3>7, <3>9, <4>1 DEF At
    <3>. QED  BY <3>3, <3>10, <3>11
  <2>. QED  BY <2>3, <2>4
<1> QED  BY <1>7, <1>8, <1>9

\* Claiming, under the free lock, opens the next fence (claim): the queued
\* round, or the round of an owner that is gone.
LEMMA ClaimKeeps ==
    ASSUME SessionInv, NEW p \in Procs, Claim(p)
    PROVE  SessionInv'
<1> USE DEF SessionInv
<1>1. /\ UNCHANGED <<child, calls, kind, journal>> /\ lock = {}
      /\ rounds' = Claimed(server.gen + 1)
      /\ server' = [server EXCEPT !.gen = server.gen + 1, !.owned = TRUE, !.state = "running"]
      /\ \/ /\ proc' = [proc EXCEPT ![p] = [Idle EXCEPT !.pc = "claimed", !.gen = server.gen + 1]]
            /\ lock' = lock \cup {Own(p)}
         \/ UNCHANGED <<proc, lock>>
  BY DEF Claim, LockFree, rest
<1>2. child = {} /\ \A q \in Procs : proc[q].pc = "idle"  BY <1>1 DEF HostLock, Types
<1> DEFINE g == server.gen + 1
           L == Len(rounds)
<1>3. g \in Nat /\ server.gen \in Nat /\ L \in Nat /\ g > server.gen  BY DEF Types, Servers
<1>4. /\ server' \in Servers /\ server'.gen = g /\ server'.owned = TRUE
      /\ server'.prepared = server.prepared /\ server'.receipt = server.receipt
  BY <1>1, <1>3 DEF Types, Servers
<1> HIDE DEF g
<1>5. /\ rounds' \in Seq(Rounds) /\ Len(rounds') > 0
      /\ rounds'[Len(rounds')].gen = g /\ rounds'[Len(rounds')].state # "settled"
      /\ \A n \in 1 .. Len(rounds') : n # Len(rounds') => rounds'[n].gen <= server.gen
  <2>1. \A n \in 1 .. L : rounds[n].gen <= server.gen  BY DEF Fenced
  <2>2. CASE server.owned
    <3> DEFINE r == [rounds[L] EXCEPT !.gen = g]
    <3>1. L > 0 /\ rounds[L].state # "settled"  BY <2>2 DEF Fenced
    <3>2. rounds' = [rounds EXCEPT ![L] = r]  BY <1>1, <2>2 DEF Claimed, g
    <3>3. r \in Rounds /\ r.gen = g /\ r.state = rounds[L].state  BY <1>3, <3>1, RoundsFit DEF Rounds
    <3> HIDE DEF r
    <3>4. /\ rounds' \in Seq(Rounds) /\ Len(rounds') = L /\ rounds'[L] = r
          /\ \A n \in 1 .. L : n # L => rounds'[n] = rounds[n]
      BY <3>1, <3>2, <3>3, LastChanges DEF Types
    <3>. QED  BY <2>1, <3>1, <3>3, <3>4
  <2>3. CASE ~server.owned
    <3> DEFINE r == [OpenRound(g) EXCEPT !.drain = server.stopped]
    <3>1. rounds' = Append(rounds, r)  BY <1>1, <2>3 DEF Claimed, g
    <3>2. r \in Rounds /\ r.gen = g /\ r.state = "open"
      BY <1>3 DEF OpenRound, Rounds, Outcomes, Types, Servers
    <3> HIDE DEF r
    <3>3. /\ rounds' \in Seq(Rounds) /\ Len(rounds') = L + 1 /\ rounds'[L + 1] = r
          /\ \A n \in 1 .. L : rounds'[n] = rounds[n]
      BY <3>1, <3>2 DEF Types
    <3>. QED  BY <1>3, <2>1, <3>2, <3>3
  <2>. QED  BY <2>2, <2>3
<1>6. \A n \in 1 .. Len(rounds') : n # Len(rounds') => rounds'[n].gen < g
  <2>1. \A n \in 1 .. Len(rounds') : rounds'[n] \in Rounds  BY <1>5
  <2>2. \A n \in 1 .. Len(rounds') : rounds'[n].gen \in Nat  BY <2>1 DEF Rounds
  <2>. QED  BY <1>3, <1>5, <2>2
<1>7. /\ \A n \in 1 .. Len(rounds') : rounds'[n].gen <= g
      /\ \A n \in 1 .. Len(rounds') : rounds'[n].state = "settled" => rounds'[n].gen < g
      /\ Len(rounds') > 0 /\ rounds'[Len(rounds')].gen = g
      /\ rounds'[Len(rounds')].state # "settled"
  <2>1. \A n \in 1 .. Len(rounds') : rounds'[n] \in Rounds  BY <1>5
  <2>2. \A n \in 1 .. Len(rounds') : rounds'[n].gen \in Nat  BY <2>1 DEF Rounds
  <2>. QED  BY <1>3, <1>5, <1>6, <2>2
<1>8. CASE proc' = [proc EXCEPT ![p] = [Idle EXCEPT !.pc = "claimed", !.gen = server.gen + 1]]
            /\ lock' = lock \cup {Own(p)}
  <2>1. Turned(p) /\ proc'[p].pc = "claimed" /\ proc'[p].gen = g /\ proc'[p].why = "none"
    BY <1>3, <1>8, ClaimTurns DEF Types, g
  <2>2. Types'  BY <1>1, <1>4, <1>5, <1>8, <2>1 DEF Types, Turned, Own
  <2>3. HostLock'  BY <1>1, <1>2, <1>8, <2>1 DEF HostLock, Busy, Turned, Own, Inherits
  <2>4. Counted'  BY <1>1, <2>1, CountKept
  <2>5. Fenced'
    <3>1. \A q \in Procs : q # p => proc'[q].pc = "idle"  BY <1>2, <2>1 DEF Turned
    <3>2. \A q \in Procs : q # p => proc'[q].gen = 0  BY <1>2, <2>1 DEF Turned, Fenced
    <3>. QED  BY <1>4, <1>7, <2>1, <3>1, <3>2 DEF Fenced, Outside, At
  <2>6. NeverFencedOff'  BY <2>1, NotFencedOff
  <2>7. Bytes'  BY <1>1, <1>4, <2>1 DEF Bytes, Turned, At, RerunPlaces, Unbound, Bound
  <2>. QED  BY <2>2, <2>3, <2>4, <2>5, <2>6, <2>7
<1>9. CASE UNCHANGED <<proc, lock>>
  <2>1. Types'  BY <1>1, <1>4, <1>5, <1>9 DEF Types
  <2>2. HostLock'  BY <1>1, <1>9 DEF HostLock, Busy
  <2>3. Counted' /\ NeverFencedOff'  BY <1>1, <1>9 DEF Counted, NeverFencedOff, At
  <2>4. Bytes'  BY <1>1, <1>2, <1>4, <1>9 DEF Bytes, At, Unbound, Bound, RerunPlaces
  <2>5. Fenced'  BY <1>2, <1>4, <1>9, <1>7 DEF Fenced, Outside, At
  <2>. QED  BY <2>1, <2>2, <2>3, <2>4, <2>5
<1> QED  BY <1>1, <1>8, <1>9

---------------------------------------------------------------------------
(* The theorems. *)

\* The invariant holds of the initial states.
LEMMA InitHolds ==
    ASSUME SessionInit
    PROVE  SessionInv
<1>1. /\ \A p \in Procs : proc[p] = Idle
      /\ proc \in [Procs -> {Idle}] /\ lock = {} /\ child = {} /\ rounds = <<>> /\ calls = 0
  BY DEF SessionInit
<1>2. Idle \in Processes /\ Idle.pc = "idle" /\ Idle.why = "none" /\ Idle.gen = 0
  BY DEF Idle, Processes, Places, Outcomes, Whys, None
<1>3. PICK old, retained \in BOOLEAN :
         /\ journal = [Journal0 EXCEPT !.old = old] /\ (retained => kind = "daily")
         /\ server = [Server0 EXCEPT !.prepared = IF retained THEN OldBody ELSE None, !.manifest = retained]
  BY DEF SessionInit
<1>4. /\ journal \in Journals /\ journal.response = None /\ journal.job = None /\ journal.attempts = 0
  <2>1. /\ Journal0 \in Journals /\ Journal0.response = None /\ Journal0.job = None
        /\ Journal0.attempts = 0
    BY DEF Journal0, Journals, None
  <2>. QED  BY <1>3, <2>1 DEF Journals
<1>5. /\ server \in Servers /\ server.receipt = None /\ server.owned = FALSE /\ server.gen = 0
      /\ server.prepared \in {OldBody, None} /\ (kind = "rerun" => server.prepared = None)
  <2>1. Server0 \in Servers /\ Server0.receipt = None /\ Server0.owned = FALSE /\ Server0.gen = 0
    BY DEF Server0, Servers, None
  <2>2. PICK b \in Int : b = IF retained THEN OldBody ELSE None  BY DEF OldBody, None
  <2>3. server = [Server0 EXCEPT !.prepared = b, !.manifest = retained]  BY <1>3, <2>2
  <2>4. b \in {OldBody, None} /\ (kind = "rerun" => b = None)  BY <1>3, <2>2
  <2>. QED  BY <2>1, <2>3, <2>4 DEF Servers
<1>6. Types  BY <1>1, <1>2, <1>4, <1>5 DEF Types, SessionInit
<1>7. HostLock  BY <1>1, <1>2 DEF HostLock, Busy
<1>8. Counted  BY <1>1, <1>2, <1>4, BudgetAssumption DEF Counted, At, None
<1>9. Fenced  BY <1>1, <1>2, <1>5 DEF Fenced, At, Outside
<1>10. NeverFencedOff  BY <1>1, <1>2 DEF NeverFencedOff
<1>11. Bytes
  <2>1. \A p \in Procs : proc[p].pc = "idle"  BY <1>1, <1>2
  <2>. QED  BY <1>4, <1>5, <2>1 DEF Bytes, At, Unbound, Bound, RerunPlaces, None, OldBody
<1> QED  BY <1>6, <1>7, <1>8, <1>9, <1>10, <1>11 DEF SessionInv

\* Every step keeps the invariant.
LEMMA NextKeeps ==
    ASSUME SessionInv, [SessionNext]_sessionVars
    PROVE  SessionInv'
<1>1. CASE UNCHANGED sessionVars
  <2>1. UNCHANGED <<kind, lock, proc, child, journal, server, rounds, calls>>  BY <1>1 DEF sessionVars
  <2>2. Types' /\ HostLock' /\ Counted' /\ NeverFencedOff' /\ Bytes'
    BY <2>1 DEF SessionInv, Types, HostLock, Busy, Counted, NeverFencedOff, Bytes, At
  <2>3. Fenced'  BY <2>1 DEF SessionInv, Fenced, At, Replayed, Fits
  <2>. QED  BY <2>2, <2>3 DEF SessionInv
<1>2. CASE Command \/ NormalizationEnds  BY <1>2, OutsideKeeps
<1>3. ASSUME NEW p \in Procs, Claim(p) \/ HeartbeatFails(p) \/ Die(p)  PROVE SessionInv'
  BY <1>3, ClaimKeeps, HeartbeatFailsKeeps, LeaveKeeps
<1>4. ASSUME NEW p \in Procs, SessionStep(p)  PROVE SessionInv'
  BY <1>4, FreezeKeeps, ExecuteRerunKeeps, RestoreKeeps, ReplayKeeps, AuthorizeKeeps,
     ReserveAttemptKeeps, CallKeeps, AnswerKeeps, ReserveBodyKeeps, SaveJobKeeps, ConfirmKeeps,
     DeliverKeeps, ObserveKeeps, DrainKeeps, CloseKeeps, SettleKeeps, LeaveKeeps, OrphanEndsKeeps
  DEF SessionStep
<1> QED  BY <1>1, <1>2, <1>3, <1>4 DEF SessionNext

\* The invariant holds in every state of every behaviour.
THEOREM SessionInvariance == SessionSpec => []SessionInv
<1>1. SessionInit => SessionInv  BY InitHolds
<1>2. SessionInv /\ [SessionNext]_sessionVars => SessionInv'  BY NextKeeps
<1> QED  BY <1>1, <1>2, PTL DEF SessionSpec

\* A session that repeats a close or a settlement after a lost answer is not
\* fenced off, and what is accepted is what was bound and journalled.
THEOREM SessionIsSound == SessionSpec => []SessionSound
<1>1. SessionInv => SessionSound
  BY DEF SessionInv, SessionSound, NeverFencedOff, Bytes, BytesAgree
<1> QED  BY <1>1, SessionInvariance, PTL

\* One provider call at a time, within the budget, across deaths and retries.
THEOREM OneCallerHolds == SessionSpec => []OneCaller
<1>1. SessionInv => OneCaller
  <2> SUFFICES ASSUME SessionInv PROVE OneCaller  OBVIOUS
  <2>1. \A p, q \in child : p = q  BY DEF SessionInv, Types, HostLock, Busy
  <2>2. IsFiniteSet(child) /\ Cardinality(child) <= 1
    <3>1. CASE child = {}  BY <3>1, FS_EmptySet
    <3>2. CASE child # {}
      <4>1. PICK p : p \in child  BY <3>2
      <4>2. child = {p}  BY <2>1, <4>1
      <4>3. IsFiniteSet({p}) /\ Cardinality({p}) = 1  BY FS_Singleton
      <4>. QED  BY <4>2, <4>3
    <3>. QED  BY <3>1, <3>2
  <2>3. calls <= MaxCalls  BY BudgetAssumption DEF SessionInv, Types, Journals, Counted
  <2>4. \A p \in Procs : At(p, "reserved") \/ At(p, "authorized") => child = {}
    BY DEF SessionInv, Types, HostLock, Busy, At
  <2>. QED  BY <2>2, <2>3, <2>4 DEF OneCaller
<1> QED  BY <1>1, SessionInvariance, PTL

\* The types of the session's state.
THEOREM SessionTypesHold == SessionSpec => []SessionTypeOK
<1>1. SessionInv => SessionTypeOK
  <2> SUFFICES ASSUME SessionInv PROVE SessionTypeOK  OBVIOUS
  <2>1. journal.attempts \in 0 .. MaxCalls
    BY BudgetAssumption DEF SessionInv, Types, Journals, Counted
  <2>2. /\ server.state \in {"queued", "running", "ended"}
        /\ server.run \in {"none", "queued", "completed", "failed"}
    BY DEF SessionInv, Types, Servers
  <2>3. \A p \in Procs : proc[p].gen \in 0 .. server.gen /\ proc[p].why \in Whys
    <3>1. server.gen \in Nat /\ \A p \in Procs : proc[p] \in Processes
      BY DEF SessionInv, Types, Servers
    <3>. QED  BY <3>1 DEF SessionInv, Processes, Fenced
  <2>4. \A n \in 1 .. Len(rounds) : rounds[n].state \in {"open", "closed", "draining", "settled"}
    BY RoundsFit DEF SessionInv, Rounds
  <2>. QED  BY <2>1, <2>2, <2>3, <2>4 DEF SessionInv, SessionTypeOK, Types, Whys
<1> QED  BY <1>1, SessionInvariance, PTL
=============================================================================
