--------------------------- MODULE AccountLedger ---------------------------
(***************************************************************************)
(* The account ledger the consumers of one provider credential share:      *)
(* which account a credential is charged to (platform_limits.py), the      *)
(* permits taken from it and the bytes and cooldowns added to it           *)
(* (full_market_state.py, account_governor.py), and the daily retention    *)
(* pass over it.                                                           *)
(*                                                                         *)
(* A credential is known by several digests (as installed, stripped, as    *)
(* the SDK reads it); every consumer knows the effective one and some      *)
(* aliases.  Older releases pinned aliases to accounts of their own, so    *)
(* their debt has to be merged, under file locks and once.  A tick of the  *)
(* clock is one minute window and DayLength of them are a day.             *)
(***************************************************************************)
EXTENDS Integers, FiniteSets, FiniteSetsExt

CONSTANTS Users,          \* consumer processes
          DigestsOf,      \* DigestsOf[u]: the digests a consumer computes, Effective included
          Effective,      \* the digest of the credential the SDK uses
          Digests,
          Accounts,       \* account names, numbered in the order of their names
          Pins,           \* the identities an older ledger may hold
          Initials,       \* the accounts new pins may get: with and without installed evidence
          Nobody,
          MinuteLimit, ByteLimit, Interval, Cooldown,
          DayLength, Retention, PruneEvery,
          MaxClock, MaxGrants, MaxCrashes

None == 0
Locks == Accounts \cup {None}          \* None stands for the identity mutex
Minutes == 0 .. MaxClock
DayOf(t) == t \div DayLength
Days == 0 .. DayOf(MaxClock)
Greater(x, y) == IF x > y THEN x ELSE y

VARIABLES clock,
          pinned,      \* full_account_identity
          minuteRow,   \* full_quota: requests of an account in a minute
          dayRow,      \* full_quota: the row of a day, its bytes and blocked_until
          pacing,      \* full_pacing and full_account_cooldown
          audit,       \* account_alias_audit: the aliases that were merged
          unknown,     \* intents of unknown outcome
          holder,      \* who holds a lock file
          user,        \* a consumer: its step and what it remembers
          nextPrune, passes,     \* account_ledger_retention, passes under way
          evidence,              \* a Shioaji ledger, kept as evidence
          granted, received,     \* what was really called and received
          owed,                  \* accounts with debt from an older release
          crashes
accountVars == <<clock, pinned, minuteRow, dayRow, pacing, audit, unknown, holder, user, nextPrune, passes, evidence, granted, received, owed, crashes>>
quota == <<minuteRow, dayRow, pacing>>
history == <<granted, received, evidence, owed>>

NoRow == [there |-> FALSE, bytes |-> 0, until |-> 0]
AtRest == [pc |-> "idle", account |-> None, others |-> {}, day |-> 0]

AccountInit ==
    /\ clock = 0 /\ pinned \in Pins
    /\ owed = {pinned[d] : d \in Digests} \ {None} /\ evidence \in BOOLEAN
    /\ minuteRow = [a \in Accounts |-> [m \in Minutes |-> IF a \in owed /\ m = 0 THEN 1 ELSE 0]]
    /\ unknown = [a \in Accounts |-> IF a \in owed THEN 1 ELSE 0]
    /\ pacing = unknown
    /\ dayRow = [a \in Accounts |-> [d \in Days |-> NoRow]]
    /\ audit = {}
    /\ holder = [l \in Locks |-> Nobody] /\ user = [u \in Users |-> AtRest]
    /\ nextPrune = 0 /\ passes = {} /\ crashes = 0
    /\ granted = [m \in Minutes |-> 0] /\ received = [d \in Days |-> 0]

---------------------------------------------------------------------------
(* account_identity() and merge_identity(). *)

Holds(u) == {l \in Locks : holder[l] = u}
Rows(u) == {pinned[d] : d \in DigestsOf[u]} \ {None}
AllPinned(u, account) == \A d \in DigestsOf[u] : pinned[d] = account

\* The account of the effective digest, else of the first digest that has one.
Target(u, initial) ==
    IF Rows(u) = {} THEN initial
    ELSE IF pinned[Effective] # None THEN pinned[Effective]
    ELSE pinned[Min({d \in DigestsOf[u] : pinned[d] # None})]

StartResolve(u) ==
    /\ user[u].pc \in {"idle", "ready"} /\ Holds(u) = {}
    /\ user' = [user EXCEPT ![u] = [AtRest EXCEPT !.pc = "mutex"]]
    /\ UNCHANGED <<clock, pinned, quota, audit, unknown, holder, nextPrune, passes, history, crashes>>

\* Under the identity mutex: a credential that is pinned as a whole needs no
\* more, otherwise the accounts concerned are locked in the order of their names.
TakeMutex(u, initial) ==
    /\ user[u].pc = "mutex" /\ holder[None] = Nobody
    /\ LET target == Target(u, initial)
       IN IF AllPinned(u, target)
            THEN /\ user' = [user EXCEPT ![u] = [AtRest EXCEPT !.pc = "ready", !.account = target]]
                 /\ UNCHANGED holder
            ELSE /\ user' = [user EXCEPT ![u] = [@ EXCEPT !.pc = "locking", !.account = target, !.others = Rows(u) \ {target}]]
                 /\ holder' = [holder EXCEPT ![None] = u]
    /\ UNCHANGED <<clock, pinned, quota, audit, unknown, nextPrune, passes, history, crashes>>

ToLock(u) == ({user[u].account} \cup user[u].others) \ Holds(u)

LockNext(u) ==
    /\ user[u].pc = "locking" /\ ToLock(u) # {} /\ holder[Min(ToLock(u))] = Nobody
    /\ holder' = [holder EXCEPT ![Min(ToLock(u))] = u]
    /\ UNCHANGED <<clock, pinned, quota, audit, unknown, user, nextPrune, passes, history, crashes>>

\* INSERT OR IGNORE INTO account_alias_audit: an alias is merged once.
Unmerged(others) == others \ audit

\* One transaction: the debt of every alias is added to the target, then all
\* the digests this consumer knows are pinned to it.
Merge(u) ==
    /\ user[u].pc = "locking" /\ ToLock(u) = {}
    /\ LET target == user[u].account
           new == Unmerged(user[u].others)
           all == new \cup {target}
       IN /\ minuteRow' = [minuteRow EXCEPT ![target] = [m \in Minutes |-> MapThenSumSet(LAMBDA a : minuteRow[a][m], all)]]
          /\ dayRow' = [dayRow EXCEPT ![target] =
                          [d \in Days |-> [there |-> \E a \in all : dayRow[a][d].there,
                                           bytes |-> MapThenSumSet(LAMBDA a : dayRow[a][d].bytes, all),
                                           until |-> Max({dayRow[a][d].until : a \in all})]]]
          /\ pacing' = [pacing EXCEPT ![target] = Max({pacing[a] : a \in all})]
          /\ unknown' = [a \in Accounts |-> IF a = target THEN MapThenSumSet(LAMBDA b : unknown[b], all)
                                            ELSE IF a \in new THEN 0 ELSE unknown[a]]
          /\ audit' = audit \cup user[u].others
          /\ pinned' = [d \in Digests |-> IF d \in DigestsOf[u] THEN target ELSE pinned[d]]
    /\ holder' = [l \in Locks |-> IF holder[l] = u THEN Nobody ELSE holder[l]]
    /\ user' = [user EXCEPT ![u] = [AtRest EXCEPT !.pc = "ready", !.account = user[u].account]]
    /\ UNCHANGED <<clock, nextPrune, passes, history, crashes>>

\* An Acquisition holds the lock of its account.
EnterCall(u) ==
    /\ user[u].pc = "ready" /\ holder[user[u].account] = Nobody
    /\ holder' = [holder EXCEPT ![user[u].account] = u]
    /\ user' = [user EXCEPT ![u].pc = "call"]
    /\ UNCHANGED <<clock, pinned, quota, audit, unknown, nextPrune, passes, history, crashes>>

\* thread_holds_account_lock(): a call that reads its identity takes no lock;
\* it is refused when a merge would be needed.
ResolveInCall(u) ==
    /\ user[u].pc = "call"
    /\ IF AllPinned(u, user[u].account) THEN UNCHANGED <<user, holder>>
       ELSE /\ user' = [user EXCEPT ![u] = AtRest]
            /\ holder' = [holder EXCEPT ![user[u].account] = Nobody]
    /\ UNCHANGED <<clock, pinned, quota, audit, unknown, nextPrune, passes, history, crashes>>

\* The call ends and the lock file is released.
LeaveCall(u) ==
    /\ user[u].pc = "call"
    /\ holder' = [holder EXCEPT ![user[u].account] = Nobody]
    /\ user' = [user EXCEPT ![u].pc = "ready"]
    /\ UNCHANGED <<clock, pinned, quota, audit, unknown, nextPrune, passes, history, crashes>>

---------------------------------------------------------------------------
(* reserve_acquisition() and what a response adds. *)

\* A permit needs the pacing floor passed (a future one spends nothing), bytes
\* left today and requests left this minute.
MayReserve(a) ==
    /\ pacing[a] <= clock
    /\ dayRow[a][DayOf(clock)].until <= clock /\ dayRow[a][DayOf(clock)].bytes < ByteLimit
    /\ minuteRow[a][clock] + 1 <= MinuteLimit

Floor(old, until) == Greater(old, until)

\* account_governor.reserve() -> reserve_acquisition(): one transaction, the
\* clock sampled inside it.
Reserve(u) ==
    /\ user[u].pc = "ready"
    /\ MapThenSumSet(LAMBDA m : granted[m], Minutes) < MaxGrants
    /\ LET a == user[u].account
       IN /\ MayReserve(a)
          /\ minuteRow' = [minuteRow EXCEPT ![a][clock] = @ + 1]
          /\ dayRow' = [dayRow EXCEPT ![a][DayOf(clock)].there = TRUE]
          /\ pacing' = [pacing EXCEPT ![a] = Floor(@, clock + Interval)]
    /\ granted' = [granted EXCEPT ![clock] = @ + 1]
    /\ user' = [user EXCEPT ![u].pc = "answer", ![u].day = DayOf(clock)]
    /\ UNCHANGED <<clock, pinned, audit, unknown, holder, nextPrune, passes, evidence, received, owed, crashes>>

\* QuotaBlockedError: the consumer gives up until its next cycle.
ReserveRefused(u) ==
    /\ user[u].pc = "ready"
    /\ pacing[user[u].account] <= clock /\ ~MayReserve(user[u].account)
    /\ user' = [user EXCEPT ![u] = AtRest]
    /\ UNCHANGED <<clock, pinned, quota, audit, unknown, holder, nextPrune, passes, history, crashes>>

\* Permit.observe() -> record_byte_overage(): charged to the day of the permit,
\* UPDATE only, whatever the day it is now.
Observe(u) ==
    /\ user[u].pc = "answer"
    /\ LET a == user[u].account
       IN dayRow' = [dayRow EXCEPT ![a][user[u].day].bytes = IF dayRow[a][user[u].day].there THEN @ + 1 ELSE @]
    /\ received' = [received EXCEPT ![user[u].day] = @ + 1]
    /\ user' = [user EXCEPT ![u].pc = "ready"]
    /\ UNCHANGED <<clock, pinned, minuteRow, pacing, audit, unknown, holder, nextPrune, passes, evidence, granted, owed, crashes>>

\* rate_limited(): the floor keeps the cooldown; today's row may not exist.
RateLimited(u) ==
    /\ user[u].pc = "answer"
    /\ LET a == user[u].account
           today == DayOf(clock)
       IN /\ pacing' = [pacing EXCEPT ![a] = Floor(@, clock + Cooldown)]
          /\ dayRow' = [dayRow EXCEPT ![a][today].until = IF dayRow[a][today].there THEN Greater(@, clock + Cooldown) ELSE @]
    /\ user' = [user EXCEPT ![u] = AtRest]
    /\ UNCHANGED <<clock, pinned, minuteRow, audit, unknown, holder, nextPrune, passes, history, crashes>>

\* A consumer dies: the kernel releases its file locks, its transactions are
\* whole or not there.
Die(u) ==
    /\ crashes < MaxCrashes /\ crashes' = crashes + 1
    /\ user[u].pc # "idle"
    /\ user' = [user EXCEPT ![u] = AtRest]
    /\ holder' = [l \in Locks |-> IF holder[l] = u THEN Nobody ELSE holder[l]]
    /\ UNCHANGED <<clock, pinned, quota, audit, unknown, nextPrune, passes, history>>

---------------------------------------------------------------------------
(* prune_account_ledger(). *)

\* The slot is claimed first; the work follows in transactions of its own.
ClaimPrune ==
    /\ clock >= nextPrune
    /\ nextPrune' = clock + PruneEvery
    /\ passes' = IF evidence THEN passes
                 ELSE passes \cup {[now |-> clock, left |-> Accounts]}
    /\ UNCHANGED <<clock, pinned, quota, audit, unknown, holder, user, history, crashes>>

\* Faulty variant of Cutoff: everything before now.
CutoffNow(p) == p.now

Cutoff(p) == p.now - Retention

\* One account after another: its days before the cutoff that block nothing any
\* more.  The finalized and cancelled intents that go with them count nowhere.
PruneStep(p) ==
    /\ p \in passes
    /\ LET a == Min(p.left)
           old(d) == d < Cutoff(p) \div DayLength
       IN /\ minuteRow' = [minuteRow EXCEPT ![a] = [m \in Minutes |-> IF old(DayOf(m)) THEN 0 ELSE @[m]]]
          /\ dayRow' = [dayRow EXCEPT ![a] = [d \in Days |-> IF old(d) /\ @[d].until < p.now THEN NoRow ELSE @[d]]]
          /\ passes' = (passes \ {p}) \cup (IF p.left = {a} THEN {} ELSE {[p EXCEPT !.left = @ \ {a}]})
    /\ UNCHANGED <<clock, pinned, pacing, audit, unknown, holder, user, nextPrune, history, crashes>>

Tick ==
    /\ clock < MaxClock /\ clock' = clock + 1
    /\ UNCHANGED <<pinned, quota, audit, unknown, holder, user, nextPrune, passes, history, crashes>>

UserStep(u) ==
    \/ StartResolve(u) \/ LockNext(u) \/ Merge(u) \/ (\E i \in Initials : TakeMutex(u, i))
    \/ EnterCall(u) \/ ResolveInCall(u) \/ LeaveCall(u)
    \/ Reserve(u) \/ ReserveRefused(u) \/ Observe(u) \/ RateLimited(u) \/ Die(u)

AccountNext ==
    \/ \E u \in Users : UserStep(u)
    \/ ClaimPrune \/ Tick
    \/ \E p \in passes : PruneStep(p)

AccountSpec == AccountInit /\ [][AccountNext]_accountVars

---------------------------------------------------------------------------
AccountTypeOK ==
    /\ clock \in Minutes /\ pinned \in [Digests -> Accounts \cup {None}]
    /\ minuteRow \in [Accounts -> [Minutes -> Nat]]
    /\ \A a \in Accounts, d \in Days : dayRow[a][d] \in [there : BOOLEAN, bytes : Nat, until : Nat]
    /\ pacing \in [Accounts -> Nat] /\ audit \subseteq Accounts
    /\ unknown \in [Accounts -> Nat]
    /\ holder \in [Locks -> Users \cup {Nobody}]
    /\ \A u \in Users : /\ user[u].pc \in {"idle", "mutex", "locking", "ready", "call", "answer"}
                        /\ user[u].account \in Accounts \cup {None} /\ user[u].others \subseteq Accounts

\* The days whose rows the retention keeps.
KeptDays == {d \in Days : d >= (clock - Retention) \div DayLength}

\* Whatever consumers resolve, merge, reserve, prune and die in between, the
\* account of the effective credential holds exactly the calls and bytes of
\* the retained days: every grant, and the debt of each merged alias once; so
\* no minute is granted more than its limit, and no unknown call is left with
\* an alias (platform_limits.py merge_identity, full_market_state.py
\* reserve_acquisition, prune_account_ledger).
DebtKept ==
    LET a == pinned[Effective]
        debtors == (audit \cup {a}) \cap owed
    IN a # None =>
         /\ \A d \in KeptDays : dayRow[a][d].bytes = received[d]
         /\ \A m \in Minutes : DayOf(m) \in KeptDays =>
               /\ minuteRow[a][m] = granted[m] + (IF m = 0 THEN Cardinality(debtors) ELSE 0)
               /\ granted[m] <= MinuteLimit
         /\ unknown[a] = Cardinality(debtors)
         /\ \A u \in Users : user[u].pc \in {"ready", "call", "answer"} => user[u].account = a

Wanted(u) == CASE user[u].pc = "mutex" -> {None}
               [] user[u].pc = "locking" /\ ToLock(u) # {} -> {Min(ToLock(u))}
               [] user[u].pc = "ready" -> {user[u].account}
               [] OTHER -> {}

\* No set of consumers waits for one another's lock files in a circle: the
\* identity mutex comes before the account locks and a call that already
\* holds one never asks for it (platform_limits.py merge_identity).
NoLockCircle ==
    \A S \in SUBSET Users \ {{}} :
       \E u \in S : \A l \in Wanted(u) : holder[l] \notin S

=============================================================================
