-------------------------- MODULE AccountGovernor --------------------------
(***************************************************************************)
(* The account governor of a fetcher host: every call to a provider is an  *)
(* Acquisition (fetcher/acquisition.py) that holds the account's file lock,*)
(* arms a durable intent in a shared SQLite ledger, asks the Source for a  *)
(* short lived authorization and only then dispatches                      *)
(* (full_market_state.py, full_market_client.py).  Shioaji operations are  *)
(* dispatched by an isolated child that inherits the lock                  *)
(* (providers/shioaji_control.py, shioaji_session.py).                     *)
(*                                                                         *)
(* One account.  Time is a counter of ticks; a tick is longer than         *)
(* LOCAL_DISPATCH_SECONDS, so a grant is usable in the tick it is received *)
(* in, and Width ticks make one request window.  Each operation is one     *)
(* Acquisition object (they cannot be reused).  The variable sent is the   *)
(* provider's own record of when the call reached it; the ledger does not  *)
(* see it.                                                                 *)
(***************************************************************************)
EXTENDS Integers, FiniteSets

CONSTANTS Operations,   \* Acquisition objects
          Isolated,     \* those dispatched by the SDK child process
          Logins,       \* those of kind sdk_login
          NoOp,         \* nobody holds the account lock
          Interval,     \* pacing between two calls, in ticks
          Bound,        \* cooldown_bound(): the wait after an unknown call
          Width,        \* ticks of a request window
          Limit,        \* requests_per_minute
          LoginLimit,   \* logins allowed in LoginSpan (1000 in 24 hours)
          LoginSpan,
          RemoteAge,    \* REMOTE_AGE_SECONDS in ticks
          Tries,        \* authorization dispatch attempts
          MaxClock,     \* bound on the clock
          MaxOverages   \* bound on responses that exceed the byte bound

Never == -1

VARIABLES clock,
          lockOwner,   \* whose lock file descriptor is locked
          holders,     \* the processes of that operation that keep it open
          intent,      \* acquisition_intent.status, "none" without a row
          armedAt, endedAt, startAt,   \* armed_at, completed_at, actual_start
          used,        \* full_quota.requests by window
          floor,       \* full_pacing.next_at and full_account_cooldown.not_before
          cooling,     \* the reason of the floor is not "pacing"
          step,        \* where the parent process is
          child,       \* where the SDK child is
          tries, checkedAt, grantedAt, prepared, started, possibly,
          allowed,     \* the Source grants acquisitions
          stoppedAt,   \* when it last stopped granting them
          sent,        \* when the provider received the call
          limited,     \* until when the provider asked not to be called
          violation,   \* full_capacity_violation: <<id, observed>> or <<>>
          inspected    \* the violation an operator is about to repair

governorVars == <<clock, lockOwner, holders, intent, armedAt, endedAt, startAt,
                  used, floor, cooling, step, child, tries, checkedAt,
                  grantedAt, prepared, started, possibly, allowed, stoppedAt,
                  sent, limited, violation, inspected>>

ledger == <<intent, armedAt, endedAt, startAt, used, floor, cooling>>
memory == <<tries, checkedAt, grantedAt, prepared, started, possibly>>
world == <<clock, allowed, stoppedAt, sent, limited>>
capacity == <<violation, inspected>>

Times == {Never} \cup (0 .. MaxClock)
Window(t) == t \div Width
Windows == 0 .. Window(MaxClock)
Later(s, t) == IF s > t THEN s ELSE t

GovernorTypeOK ==
    /\ clock \in 0 .. MaxClock
    /\ lockOwner \in Operations \cup {NoOp}
    /\ holders \subseteq {"parent", "child"}
    /\ (lockOwner = NoOp) = (holders = {})
    /\ intent \in [Operations ->
                     {"none", "armed", "unknown", "finalized", "cancelled"}]
    /\ {armedAt, endedAt, startAt, checkedAt, grantedAt, started, sent}
          \subseteq [Operations -> Times]
    /\ used \in [Windows -> 0 .. Cardinality(Operations)]
    /\ floor \in Nat /\ cooling \in BOOLEAN
    /\ step \in [Operations -> {"idle", "entered", "prepared", "asked", "granted",
                     "started", "handed", "leaving", "quarantined", "done", "dead"}]
    /\ child \in [Operations -> {"none", "waiting", "native", "done"}]
    /\ tries \in [Operations -> 0 .. Tries]
    /\ prepared \in [Operations -> {Never} \cup Windows]
    /\ possibly \in [Operations -> BOOLEAN]
    /\ allowed \in BOOLEAN /\ stoppedAt \in Times /\ limited \in Nat

GovernorInit ==
    /\ clock = 0 /\ lockOwner = NoOp /\ holders = {}
    /\ intent = [o \in Operations |-> "none"]
    /\ armedAt = [o \in Operations |-> Never]
    /\ endedAt = armedAt /\ startAt = armedAt
    /\ used = [w \in Windows |-> 0]
    /\ floor = 0 /\ cooling = FALSE
    /\ step = [o \in Operations |-> "idle"]
    /\ child = [o \in Operations |-> "none"]
    /\ tries = [o \in Operations |-> 0]
    /\ checkedAt = armedAt /\ grantedAt = armedAt
    /\ prepared = armedAt /\ started = armedAt
    /\ possibly = [o \in Operations |-> FALSE]
    /\ allowed = TRUE /\ stoppedAt = Never
    /\ sent = armedAt /\ limited = 0
    /\ violation = <<>> /\ inspected = <<>>

---------------------------------------------------------------------------
(* The ledger. *)

\* record_floor(): the longer debt wins, the reason follows it.
RecordFloor(until, pacing) ==
    /\ floor' = Later(floor, until)
    /\ cooling' = IF until >= floor THEN ~pacing ELSE cooling

\* Requests of unknown operations count in every window they may have been
\* dispatched in.
Liability(w) ==
    Cardinality({o \in Operations : /\ intent[o] = "unknown"
                                    /\ Window(armedAt[o]) <= w
                                    /\ w <= Window(endedAt[o])})

Exhausted(w) == used[w] + Liability(w) + 1 > Limit

\* _check_login(): started in the span, or unknown and ended in it.
RecentLogins ==
    {o \in Logins :
       \/ startAt[o] # Never /\ startAt[o] > clock - LoginSpan
       \/ /\ intent[o] = "unknown" /\ startAt[o] = Never
          /\ armedAt[o] <= clock /\ endedAt[o] > clock - LoginSpan}

LoginExhausted(o) ==
    o \in Logins /\ Cardinality(RecentLogins \ {o}) + 1 > LoginLimit

\* finalize(): end an intent that is still armed, from what this process knows.
Finalize(o, start, maybe) ==
    IF intent[o] # "armed" THEN UNCHANGED ledger
    ELSE /\ endedAt' = [endedAt EXCEPT ![o] = clock]
         /\ UNCHANGED armedAt
         /\ CASE start # Never ->
                   /\ intent' = [intent EXCEPT ![o] = "finalized"]
                   /\ startAt' = [startAt EXCEPT ![o] = start]
                   /\ used' = [used EXCEPT ![Window(start)] = @ + 1]
                   /\ RecordFloor(clock + Interval, TRUE)
              [] start = Never /\ maybe ->
                   /\ intent' = [intent EXCEPT ![o] = "unknown"]
                   /\ RecordFloor(clock + Bound, FALSE)
                   /\ UNCHANGED <<startAt, used>>
              [] OTHER ->
                   /\ intent' = [intent EXCEPT ![o] = "cancelled"]
                   /\ UNCHANGED <<startAt, used, floor, cooling>>

---------------------------------------------------------------------------
(* The parent process. *)

Goto(o, s) == step' = [step EXCEPT ![o] = s]

\* __enter__: take the file lock, then recover(): nobody else is alive under
\* it, so every intent still armed may have been dispatched.
Enter(o) ==
    /\ step[o] = "idle" /\ lockOwner = NoOp
    /\ lockOwner' = o /\ holders' = {"parent"}
    /\ LET lost == {p \in Operations : intent[p] = "armed"}
       IN /\ intent' = [p \in Operations |->
                          IF p \in lost THEN "unknown" ELSE intent[p]]
          /\ endedAt' = [p \in Operations |->
                          IF p \in lost THEN clock ELSE endedAt[p]]
          /\ IF lost = {} THEN UNCHANGED <<floor, cooling>>
             ELSE RecordFloor(clock + Later(Bound, Interval), FALSE)
    /\ Goto(o, "entered")
    /\ UNCHANGED <<armedAt, startAt, used, child, memory, world, capacity>>

\* prepare(): wait for the pacing floor (the guard), check the budgets, arm.
Prepare(o) ==
    /\ step[o] = "entered" /\ floor <= clock
    /\ ~Exhausted(Window(clock)) /\ ~LoginExhausted(o)
    /\ intent' = [intent EXCEPT ![o] = "armed"]
    /\ armedAt' = [armedAt EXCEPT ![o] = clock]
    /\ prepared' = [prepared EXCEPT ![o] = Window(clock)]
    /\ Goto(o, "prepared")
    /\ UNCHANGED <<lockOwner, holders, endedAt, startAt, used, floor, cooling,
                   child, tries, checkedAt, grantedAt, started, possibly,
                   world, capacity>>

\* A cooldown that is not mere pacing is published and raised; so is an
\* exhausted budget.
PrepareBlocked(o) ==
    /\ step[o] = "entered"
    /\ \/ floor > clock /\ cooling
       \/ floor <= clock /\ (Exhausted(Window(clock)) \/ LoginExhausted(o))
    /\ Goto(o, "leaving")
    /\ UNCHANGED <<lockOwner, holders, ledger, child, memory, world, capacity>>

\* authorize(): the Source decides when it handles the request ...
SourceChecks(o) ==
    /\ step[o] = "prepared"
    /\ IF allowed THEN /\ checkedAt' = [checkedAt EXCEPT ![o] = clock]
                       /\ Goto(o, "asked")
                  ELSE UNCHANGED checkedAt /\ Goto(o, "leaving")
    /\ UNCHANGED <<lockOwner, holders, ledger, child, tries, grantedAt,
                   prepared, started, possibly, world, capacity>>

\* ... and the answer is refused when it is too old on arrival.
GrantArrives(o) ==
    /\ step[o] = "asked"
    /\ IF clock - checkedAt[o] < RemoteAge
         THEN grantedAt' = [grantedAt EXCEPT ![o] = clock] /\ Goto(o, "granted")
         ELSE UNCHANGED grantedAt /\ Goto(o, "leaving")
    /\ UNCHANGED <<lockOwner, holders, ledger, child, tries, checkedAt,
                   prepared, started, possibly, world, capacity>>

\* Authorization.valid() and the tests of confirm_start(): the grant is of
\* this tick, its check is recent and the window is the one charged.
Fresh(o) ==
    /\ clock = grantedAt[o]
    /\ clock - checkedAt[o] < RemoteAge
    /\ Window(clock) = prepared[o]

\* An expired grant is asked for again, from prepare(), Tries times in all.
NextTry(o) ==
    /\ tries' = [tries EXCEPT ![o] = @ + 1]
    /\ Goto(o, IF tries[o] + 1 < Tries THEN "entered" ELSE "leaving")

\* start() and confirm_start() of a call this process makes itself.
Start(o) ==
    /\ step[o] = "granted" /\ o \notin Isolated
    /\ IF Fresh(o)
         THEN /\ sent' = [sent EXCEPT ![o] = clock]
              /\ started' = [started EXCEPT ![o] = clock]
              /\ Goto(o, "started") /\ UNCHANGED tries
         ELSE NextTry(o) /\ UNCHANGED <<sent, started>>
    /\ UNCHANGED <<lockOwner, holders, ledger, child, checkedAt, grantedAt,
                   prepared, possibly, clock, allowed, stoppedAt, limited,
                   capacity>>

\* rate_limited(): HTTP 429, for a time within 1 .. Bound.
RateLimited(o) ==
    /\ step[o] = "started"
    /\ \E d \in 1 .. Bound : /\ RecordFloor(clock + d, FALSE)
                             /\ limited' = Later(limited, clock + d)
    /\ UNCHANGED <<lockOwner, holders, intent, armedAt, endedAt, startAt, used,
                   step, child, memory, clock, allowed, stoppedAt, sent,
                   capacity>>

Respond(o) ==
    /\ step[o] = "started"
    /\ Goto(o, "leaving")
    /\ UNCHANGED <<lockOwner, holders, ledger, child, memory, world, capacity>>

\* parent_fetch(): the child is told to go and shares the lock; from here on
\* the call may have been made.
ParentGo(o) ==
    /\ step[o] = "granted" /\ o \in Isolated
    /\ possibly' = [possibly EXCEPT ![o] = Fresh(o)]
    /\ child' = [child EXCEPT ![o] = "waiting"]
    /\ holders' = holders \cup {"child"}
    /\ Goto(o, "handed")
    /\ UNCHANGED <<lockOwner, ledger, tries, checkedAt, grantedAt, prepared,
                   started, world, capacity>>

\* The durable result, or the child killed and reaped after a timeout.
ParentReceives(o) ==
    /\ step[o] = "handed" /\ child[o] = "done"
    /\ started' = [started EXCEPT ![o] = sent[o]]
    /\ child' = [child EXCEPT ![o] = "none"]
    /\ holders' = holders \ {"child"}
    /\ Goto(o, "leaving")
    /\ UNCHANGED <<lockOwner, ledger, tries, checkedAt, grantedAt, prepared,
                   possibly, world, capacity>>

ParentTimeout(o) ==
    /\ step[o] = "handed"
    /\ child' = [child EXCEPT ![o] = "none"]
    /\ holders' = holders \ {"child"}
    /\ Goto(o, "leaving")
    /\ UNCHANGED <<lockOwner, ledger, memory, world, capacity>>

\* __exit__: the lock is given up only after the ledger has the outcome.
Exit(o) ==
    /\ step[o] = "leaving"
    /\ Finalize(o, started[o], possibly[o])
    /\ lockOwner' = NoOp /\ holders' = {}
    /\ Goto(o, "done")
    /\ UNCHANGED <<child, memory, world, capacity>>

\* The ledger cannot be written: the descriptor stays locked until this
\* process ends.
ExitFails(o) ==
    /\ step[o] = "leaving"
    /\ Goto(o, "quarantined")
    /\ UNCHANGED <<lockOwner, holders, ledger, child, memory, world, capacity>>

\* The process dies; the lock goes with its last descriptor.
Crash(o) ==
    /\ step[o] \notin {"idle", "done", "dead"}
    /\ Goto(o, "dead")
    /\ holders' = holders \ {"parent"}
    /\ lockOwner' = IF holders = {"parent"} THEN NoOp ELSE lockOwner
    /\ UNCHANGED <<ledger, child, memory, world, capacity>>

---------------------------------------------------------------------------
(* The SDK child. *)

ChildGone(o) ==
    /\ child' = [child EXCEPT ![o] = "none"]
    /\ holders' = holders \ {"child"}
    /\ lockOwner' = IF holders = {"child"} THEN NoOp ELSE lockOwner

\* ChildBoundary.start(): the child tests the grant again, in its own time.
ChildStart(o) ==
    /\ child[o] = "waiting" /\ Fresh(o)
    /\ child' = [child EXCEPT ![o] = "native"]
    /\ sent' = [sent EXCEPT ![o] = clock]
    /\ UNCHANGED <<lockOwner, holders, ledger, step, memory, clock, allowed,
                   stoppedAt, limited, capacity>>

\* "retry": nothing was dispatched.
ChildRetries(o) ==
    /\ child[o] = "waiting" /\ ~Fresh(o) /\ step[o] = "handed"
    /\ possibly' = [possibly EXCEPT ![o] = FALSE]
    /\ ChildGone(o) /\ NextTry(o)
    /\ UNCHANGED <<ledger, checkedAt, grantedAt, prepared, started, world,
                   capacity>>

\* ChildBoundary.finish(): the child ends the intent before it answers.
ChildFinish(o) ==
    /\ child[o] = "native"
    /\ Finalize(o, sent[o], FALSE)
    /\ child' = [child EXCEPT ![o] = "done"]
    /\ UNCHANGED <<lockOwner, holders, step, memory, world, capacity>>

\* The pipe is closed because the parent is gone, or the child is killed.
ChildExits(o) ==
    /\ child[o] # "none" /\ step[o] = "dead"
    /\ ChildGone(o)
    /\ UNCHANGED <<ledger, step, memory, world, capacity>>

---------------------------------------------------------------------------
(* The Source, time, and the capacity record. *)

SourceStops ==
    /\ allowed /\ allowed' = FALSE /\ stoppedAt' = clock
    /\ UNCHANGED <<lockOwner, holders, ledger, step, child, memory, clock, sent,
                   limited, capacity>>

Tick ==
    /\ clock < MaxClock /\ clock' = clock + 1
    /\ UNCHANGED <<lockOwner, holders, ledger, step, child, memory, allowed,
                   stoppedAt, sent, limited, capacity>>

\* observe_capacity(): a response larger than the bound is kept as a new
\* violation with the largest size seen.
ObserveCapacity(size) ==
    /\ violation # <<>> => violation[1] < MaxOverages
    /\ violation' = IF violation = <<>> THEN <<1, size>>
                    ELSE <<violation[1] + 1, Later(violation[2], size)>>
    /\ UNCHANGED <<lockOwner, holders, ledger, step, child, memory, world,
                   inspected>>

InspectCapacity ==
    /\ violation # <<>> /\ inspected' = violation
    /\ UNCHANGED <<lockOwner, holders, ledger, step, child, memory, world,
                   violation>>

Repairable(id, bound) == violation[1] = id /\ bound >= violation[2]

\* repair_capacity(): the operator corrects the bound for what was inspected.
RepairCapacity ==
    /\ inspected # <<>> /\ violation # <<>>
    /\ Repairable(inspected[1], inspected[2])
    /\ violation' = <<>> /\ inspected' = <<>>
    /\ UNCHANGED <<lockOwner, holders, ledger, step, child, memory, world>>

CapacityNext ==
    \/ \E size \in 1 .. 2 : ObserveCapacity(size)
    \/ InspectCapacity
    \/ RepairCapacity

GovernorNext ==
    \/ \E o \in Operations :
         \/ Enter(o) \/ Prepare(o) \/ PrepareBlocked(o) \/ SourceChecks(o)
         \/ GrantArrives(o) \/ Start(o) \/ RateLimited(o) \/ Respond(o)
         \/ ParentGo(o) \/ ParentReceives(o) \/ ParentTimeout(o)
         \/ Exit(o) \/ ExitFails(o) \/ Crash(o)
         \/ ChildStart(o) \/ ChildRetries(o) \/ ChildFinish(o) \/ ChildExits(o)
    \/ SourceStops \/ Tick

GovernorSpec == GovernorInit /\ [][GovernorNext]_governorVars

---------------------------------------------------------------------------
(* Properties. *)

\* The provider never receives more calls in one request window than the
\* limit, whatever processes died after dispatching (Acquisition.prepare
\* counts the intents that ended unknown).
WindowBudget ==
    \A w \in Windows :
       Cardinality({o \in Operations : sent[o] # Never /\ Window(sent[o]) = w})
          <= Limit

\* No rolling span has more SDK logins than the provider allows, including
\* logins whose process died before their start was recorded (_check_login).
LoginBudget ==
    \A t \in 0 .. MaxClock :
       Cardinality({o \in Logins : /\ sent[o] # Never /\ sent[o] <= t
                                   /\ sent[o] > t - LoginSpan}) <= LoginLimit

\* The provider is called only when its last 429 has run out and, after any
\* earlier call, only once the account has been quiet for the pacing interval
\* (the cooldown bound, if the end of that call is not known): record_floor,
\* recover and finalize with the file lock.
ProviderSpared ==
      \A o \in Operations :
         sent[o] = Never /\ sent'[o] # Never =>
           /\ clock >= limited
           /\ \A p \in Operations \ {o} :
                sent[p] # Never =>
                  /\ intent[p] \in {"finalized", "unknown"}
                  /\ clock - endedAt[p] >=
                       IF intent[p] = "unknown" THEN Bound ELSE Interval

\* Once the Source stops granting acquisitions, no call goes out later than
\* the remote age of a grant, however late the answer, the retry or the child.
StopIsPrompt ==
      \A o \in Operations :
         sent[o] = Never /\ sent'[o] # Never /\ ~allowed =>
           clock - stoppedAt < RemoteAge

\* A repair removes only the violation the operator inspected; an overage that
\* was recorded in between keeps the account's violation (repair_capacity).
RepairMatches ==
      violation # <<>> /\ violation' = <<>> => inspected = violation
=============================================================================
