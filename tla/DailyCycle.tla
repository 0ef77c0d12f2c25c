----------------------------- MODULE DailyCycle -----------------------------
(***************************************************************************)
(* One daily cycle of the full-market runtime for the TAIFEX feed          *)
(* (full_market_runtime.py _queued_cycle and the plan it works on): the    *)
(* due dates are enqueued oldest first, a work is claimed, its plan is     *)
(* read or posted, a date whose universe is missing is given one from the  *)
(* dated report, and the round is settled.                                 *)
(*                                                                         *)
(* Members are delivered in MemberDelivery; here a delivery only ends      *)
(* well, badly or undecided.  Another scheduler, the operator and the      *)
(* exchange act between any two requests, the process may die, and a       *)
(* release may drop the feed while works of it are open.                   *)
(***************************************************************************)
EXTENDS Integers, Sequences, FiniteSets

CONSTANTS LastDate,      \* bound: trade dates
          MaxMishaps,    \* bound: failing calls, dying processes, stop, start and retire commands
          MaxRetries     \* bound: rounds of a work that end undecided

Dates == 1 .. LastDate
None == 0

VARIABLES today,         \* the last date that is due
          admitted,      \* the Source admits the feed
          installed,     \* the feed is installed
          closedDay,     \* dates the published calendar closes
          latest,        \* the date of the latest report the exchange serves
          archive,       \* dates of which every product's report can be downloaded
          universe,      \* universe[d]: the dated release at the Source and the report it came from
          plan,          \* plan[d]: "none", "planned" or "skipped"
          work,          \* work[d]: the daily work, its place in the queue and its first claim
          cycle,         \* the process: its step, its work, its memory
          blocked,       \* dates whose dated universe waits for its next try
          local,         \* local[d]: the plan is recorded and pending, bodies prepared here
          kept,          \* bodies the Source retains
          mishaps, retries

cycleVars == <<today, admitted, installed, closedDay, latest, archive, universe, plan, work, cycle, blocked, local, kept, mishaps, retries>>

NoUniverse == [st |-> "none", from |-> None]
NoWork == [st |-> "none", place |-> 0]
AtRest == [pc |-> "idle", work |-> None, due |-> {}, sent |-> {}, outcome |-> "none"]
CycleInit ==
    /\ today = 1 /\ admitted = TRUE /\ installed = TRUE /\ closedDay \in {{}, {1}} /\ latest = None /\ archive = {}
    /\ universe = [d \in Dates |-> NoUniverse] /\ work = [d \in Dates |-> NoWork]
    /\ cycle = AtRest /\ blocked = {} /\ kept = {} /\ mishaps = 0 /\ retries = 0
    /\ \E imported \in BOOLEAN :     \* a plan and a body from before the Source kept bodies
          /\ (imported => closedDay = {})
          /\ plan = [d \in Dates |-> IF imported /\ d = 1 THEN "planned" ELSE "none"]
          /\ local = [d \in Dates |-> IF imported /\ d = 1 THEN "prepared" ELSE "none"]

source == <<closedDay, latest, archive, universe, plan>>
outside == <<today, admitted, installed, closedDay, latest, archive>>
Mishap == mishaps < MaxMishaps /\ mishaps' = mishaps + 1
D == cycle.work
Go(pc) == cycle' = [cycle EXCEPT !.pc = pc]
Ends(outcome) == cycle' = [cycle EXCEPT !.pc = "settle", !.outcome = outcome]
Smallest(S) == CHOOSE x \in S : \A y \in S : x <= y

---------------------------------------------------------------------------
(* Enqueueing and claiming. *)

\* Every admitted date that is due, and every plan still pending here, in date order.
Pending == {d \in Dates : local[d] \in {"pending", "prepared"}}
DueDates == IF installed THEN (IF admitted THEN 1 .. today ELSE {}) \cup Pending ELSE {}
BeginCycle == /\ cycle.pc = "idle" /\ (DueDates # {} \/ \E d \in Dates : work[d].st \in {"queued", "owned"})
              /\ cycle' = [cycle EXCEPT !.pc = "enqueue", !.due = DueDates]
              /\ UNCHANGED <<outside, universe, plan, work, blocked, local, kept, mishaps, retries>>
Places == {work[d].place : d \in Dates}
LastPlace == CHOOSE n \in Places : \A k \in Places : k <= n
NextDue == Smallest(cycle.due)

\* The key is stable: only its first enqueue creates the work, and a process sends it once.
Enqueue ==
    /\ cycle.pc = "enqueue" /\ cycle.due # {}
    /\ LET d == NextDue
       IN  /\ cycle' = [cycle EXCEPT !.due = @ \ {d}, !.sent = @ \cup {d}]
           /\ work' = IF d \notin cycle.sent /\ work[d].st = "none"
                      THEN [work EXCEPT ![d].st = "queued", ![d].place = LastPlace + 1] ELSE work
    /\ UNCHANGED <<outside, universe, plan, blocked, local, kept, mishaps, retries>>
EnqueueFails == /\ cycle.pc = "enqueue" /\ cycle.due # {} /\ Mishap
                /\ cycle' = [cycle EXCEPT !.pc = "idle", !.due = {}]
                /\ UNCHANGED <<outside, universe, plan, work, blocked, local, kept, retries>>

\* The owner's work comes back first, then the queue in its order; a stopped scope only drains.
Owned == {d \in Dates : work[d].st = "owned"}
Queued == {d \in Dates : work[d].st = "queued" /\ (admitted \/ plan[d] # "none") /\ d \notin blocked}
NextWork == IF Owned # {} THEN Smallest(Owned) ELSE CHOOSE d \in Queued : \A e \in Queued : work[d].place <= work[e].place
ClaimWork ==
    /\ cycle.pc = "enqueue" /\ cycle.due = {}
    /\ IF Owned \cup Queued = {} THEN Go("idle") /\ UNCHANGED work
       ELSE LET d == NextWork
            IN  /\ cycle' = [cycle EXCEPT !.pc = IF installed THEN "read" ELSE "retired", !.work = d]
                /\ work' = [work EXCEPT ![d].st = "owned"]
    /\ UNCHANGED <<outside, universe, plan, blocked, local, kept, mishaps, retries>>

---------------------------------------------------------------------------
(* _plan_for_date(): read the frozen plan, or post one. *)

Adopt == IF plan[D] = "skipped" THEN Go("skip") /\ UNCHANGED local
         ELSE Go("deliver") /\ local' = [local EXCEPT ![D] = IF @ = "none" THEN "pending" ELSE @]
ReadPlan == /\ cycle.pc = "read"
            /\ IF plan[D] # "none" THEN Adopt ELSE Go("post") /\ UNCHANGED local
            /\ UNCHANGED <<outside, universe, plan, work, blocked, kept, mishaps, retries>>

\* create_plan(): a frozen decision, a closed day, the exact dated universe, or a refusal.
Answer == IF plan[D] # "none" THEN plan[D]
          ELSE IF ~ admitted THEN "refused"
          ELSE IF D \in closedDay THEN "skipped"
          ELSE IF universe[D].st = "published" THEN "planned" ELSE "dated"
Frozen(answer) == answer \in {"planned", "skipped"}
PostPlan ==
    /\ cycle.pc \in {"post", "again"}
    /\ IF Frozen(Answer)
       THEN /\ plan' = [plan EXCEPT ![D] = Answer]
            /\ IF Answer = "skipped" THEN Go("skip") /\ UNCHANGED local
               ELSE Go("deliver") /\ local' = [local EXCEPT ![D] = IF @ = "none" THEN "pending" ELSE @]
       ELSE /\ UNCHANGED <<plan, local>>
            /\ IF Answer = "dated" /\ cycle.pc = "post" THEN Go("conflict") ELSE Ends("failed")
    /\ UNCHANGED <<outside, universe, work, blocked, kept, mishaps, retries>>

\* After a conflict the plan is read once more: another scheduler may have frozen it.
ReadAgain == /\ cycle.pc = "conflict"
             /\ IF plan[D] # "none" THEN Adopt /\ UNCHANGED blocked
                ELSE Go("report") /\ UNCHANGED <<local, blocked>>
             /\ UNCHANGED <<outside, universe, plan, work, kept, mishaps, retries>>

---------------------------------------------------------------------------
(* The dated universe of a date, from the latest report or from the archive. *)

\* Faulty variant of ReportFor: the latest report serves every date.
ReportAny(d) == IF latest # None THEN latest ELSE IF d \in archive THEN d ELSE None
ReportFor(d) == IF latest = d \/ d \in archive THEN d ELSE None
FetchReport ==
    /\ cycle.pc = "report"
    /\ IF ReportFor(D) = None
       THEN blocked' = blocked \cup {D} /\ Ends("retry") /\ UNCHANGED universe     \* dated_report_unavailable
       ELSE /\ \E published \in BOOLEAN :
                  /\ universe' = [universe EXCEPT ![D] =
                        IF @.st = "published" THEN @ ELSE [st |-> IF published THEN "published" ELSE "pending", from |-> ReportFor(D)]]
                  /\ IF universe'[D].st = "published" THEN Go("again") /\ UNCHANGED blocked
                     ELSE blocked' = blocked \cup {D} /\ Ends("retry")              \* dated_universe_pending
    /\ UNCHANGED <<outside, plan, work, local, kept, mishaps, retries>>
BlockExpires(d) == /\ d \in blocked /\ blocked' = blocked \ {d}
                   /\ UNCHANGED <<outside, universe, plan, work, cycle, local, kept, mishaps, retries>>

---------------------------------------------------------------------------
(* Delivering, failing, and settling the round. *)

SkipCalendar == /\ cycle.pc = "skip" /\ Ends("completed")
                /\ UNCHANGED <<outside, universe, plan, work, blocked, local, kept, mishaps, retries>>

\* The Source keeps a body before it is kept here.
Prepare == /\ cycle.pc = "deliver" /\ local[D] = "pending"
           /\ IF D \notin kept THEN kept' = kept \cup {D} /\ UNCHANGED local
              ELSE local' = [local EXCEPT ![D] = "prepared"] /\ UNCHANGED kept
           /\ UNCHANGED <<outside, universe, plan, work, cycle, blocked, mishaps, retries>>
Delivered == /\ cycle.pc = "deliver" /\ local[D] \in {"prepared", "done"} /\ D \in kept
             /\ \/ Ends("completed") /\ local' = [local EXCEPT ![D] = "done"] /\ UNCHANGED retries
                \/ /\ retries < MaxRetries /\ retries' = retries + 1
                   /\ \E outcome \in {"retry", "failed"} : Ends(outcome)
                   /\ UNCHANGED local
             /\ UNCHANGED <<outside, universe, plan, work, blocked, kept, mishaps>>

\* Imported bodies reach the Source only when the member is delivered again.
Resend == /\ cycle.pc = "deliver" /\ local[D] = "prepared" /\ D \notin kept
          /\ kept' = kept \cup {D} /\ UNCHANGED <<outside, universe, plan, work, cycle, blocked, local, mishaps, retries>>

\* A failing request ends the round by what failed; a lost fence ends the process without settling.
Failure(kind) == CASE kind \in {"transient", "quota", "deferred", "pending"} -> "retry"
                   [] kind \in {"rejected", "format", "calendar_repair"} -> "failed"
RequestFails == /\ cycle.pc \in {"read", "post", "conflict", "report", "again", "skip", "deliver"} /\ Mishap
                /\ \E kind \in {"transient", "quota", "deferred", "pending", "rejected", "format", "calendar_repair"} : Ends(Failure(kind))
                /\ UNCHANGED <<outside, universe, plan, work, blocked, local, kept, retries>>

\* A retired feed's work is drained; bodies only known here stop the settlement.
Comparable(d) == local[d] = "prepared" => d \in kept
SettleRetired == /\ cycle.pc = "retired"
                 /\ IF Comparable(D) THEN Ends("retired") ELSE cycle' = [AtRest EXCEPT !.pc = "recovery", !.work = D]
                 /\ UNCHANGED <<outside, universe, plan, work, blocked, local, kept, mishaps, retries>>
SettleRound == /\ cycle.pc = "settle"
               /\ work' = [work EXCEPT ![D].st = CASE cycle.outcome = "completed" -> "completed" [] cycle.outcome \in {"failed", "retired"} -> cycle.outcome [] OTHER -> "queued"]
               /\ cycle' = [cycle EXCEPT !.pc = "idle", !.work = None, !.outcome = "none"]
               /\ UNCHANGED <<outside, universe, plan, blocked, local, kept, mishaps, retries>>

---------------------------------------------------------------------------
(* The world around the process. *)

ProcessDies == /\ cycle.pc \notin {"idle", "recovery"} /\ Mishap /\ cycle' = AtRest
               /\ UNCHANGED <<outside, universe, plan, work, blocked, local, kept, retries>>
DateTurns == /\ today < LastDate /\ today' = today + 1
             /\ UNCHANGED <<admitted, installed, source, work, cycle, blocked, local, kept, mishaps, retries>>
ReportAppears == /\ \E d \in 1 .. today : d > latest /\ latest' = d /\ archive' = archive \cup {e \in Dates : e < d}
                 /\ UNCHANGED <<today, admitted, installed, closedDay, universe, plan, work, cycle, blocked, local, kept, mishaps, retries>>
ReviewUniverse(d) == /\ universe[d].st = "pending" /\ universe' = [universe EXCEPT ![d].st = "published"]
                     /\ UNCHANGED <<outside, plan, work, cycle, blocked, local, kept, mishaps, retries>>
OtherScheduler(d) == /\ d <= today /\ plan[d] = "none" /\ universe[d].st = "published" /\ d \notin closedDay /\ admitted
                     /\ plan' = [plan EXCEPT ![d] = "planned"]
                     /\ UNCHANGED <<outside, universe, work, cycle, blocked, local, kept, mishaps, retries>>
StopOrStart == /\ Mishap /\ admitted' = ~ admitted
               /\ UNCHANGED <<today, installed, source, work, cycle, blocked, local, kept, retries>>
RetireFeed == /\ installed /\ Mishap /\ installed' = FALSE /\ cycle' = AtRest
              /\ UNCHANGED <<today, admitted, source, work, blocked, local, kept, retries>>

CycleStep == \/ BeginCycle \/ Enqueue \/ ClaimWork \/ ReadPlan \/ PostPlan \/ ReadAgain \/ FetchReport
             \/ SkipCalendar \/ Prepare \/ Delivered \/ Resend \/ SettleRetired \/ SettleRound
CycleFault == EnqueueFails \/ RequestFails \/ ProcessDies \/ StopOrStart \/ RetireFeed
CycleWorld == DateTurns \/ ReportAppears \/ \E d \in Dates : BlockExpires(d) \/ ReviewUniverse(d) \/ OtherScheduler(d)
CycleNext == CycleStep \/ CycleFault \/ CycleWorld

CycleSpec == CycleInit /\ [][CycleNext]_cycleVars

\* The runtime runs, waits end, reports appear and pending universes are reviewed.
CycleFair(i) == \/ i = 1 /\ CycleStep
                \/ i = 2 /\ ReportAppears
                \/ \E d \in Dates : (i = 2 * d + 1 /\ BlockExpires(d)) \/ (i = 2 * d + 2 /\ ReviewUniverse(d))
CycleFairness == \A i \in 1 .. 2 * LastDate + 2 : WF_cycleVars(CycleFair(i))

---------------------------------------------------------------------------
(* Properties. *)

CycleTypeOK ==
    /\ today \in Dates /\ admitted \in BOOLEAN /\ installed \in BOOLEAN /\ latest \in Dates \cup {None} /\ archive \subseteq Dates
    /\ \A d \in Dates :
          /\ universe[d].st \in {"none", "pending", "published"} /\ plan[d] \in {"none", "planned", "skipped"}
          /\ work[d].st \in {"none", "queued", "owned", "completed", "failed", "retired"} /\ local[d] \in {"none", "pending", "prepared", "done"}
    /\ cycle.pc \in {"idle", "enqueue", "read", "post", "conflict", "report", "again", "skip", "deliver", "retired", "settle", "recovery"}
    /\ (cycle.pc \in {"idle", "enqueue"}) = (cycle.work = None) /\ blocked \subseteq Dates /\ kept \subseteq Dates

\* Dates stand in the queue in their order, and a date's universe and plan come from that
\* date's own report, whatever the exchange serves and whoever froze the plan in between.
DatesInOrder ==
    /\ \A d, e \in Dates : (d < e /\ work[e].place > 0) => work[d].place \in 1 .. work[e].place - 1
    /\ \A d \in Dates : (universe[d].st # "none" => universe[d].from = d) /\ (plan[d] = "planned" => universe[d].st = "published" \/ d = 1)

\* The work of a retired feed is let go only when the Source keeps every body this host has.
RetiredKeepsBodies == \A d \in Dates : work[d].st = "retired" => (local[d] = "prepared" => d \in kept)

\* Every due date is worked on to an end, unless the feed is stopped, retired or needs recovery.
DateDue(d) == d <= today /\ admitted /\ installed
DateEnded(d) == work[d].st \in {"completed", "failed"} \/ ~ admitted \/ ~ installed
=============================================================================
