---------------------------- MODULE MarketBoard ----------------------------
(***************************************************************************)
(* The freshness card of one scheduler                                     *)
(* (backend/app/services/market_freshness.py list_market_freshness and     *)
(* _build_scheduler_freshness, behind GET /admin/market-freshness).        *)
(*                                                                         *)
(* The card is put together from one query after another, the scheduler's  *)
(* row first, then the admission, then each feed, while members are        *)
(* accepted, dates fall due and operators start, stop and admit.  The      *)
(* clock of the request is read once.  A "full_market" card reads plan     *)
(* summaries, a "bounded" one the runs of its feeds.                       *)
(*                                                                         *)
(* Time runs in half days: date d is acquired from 2d on and its deadline  *)
(* is 2d + 1.  A date of a feed holds what its summary or its runs say:    *)
(* "none", "pending" (a plan without a summary row), "open", "some", "all" *)
(* or "failed".                                                            *)
(***************************************************************************)
EXTENDS Integers, Sequences, FiniteSets, FiniteSetsExt

CONSTANTS FeedOrder,                  \* the datasets of the scheduler, in order
          MonitorKinds,               \* subset of {"full_market", "bounded"}
          LastDay,
          MaxRaces                    \* bound: what others commit during one read

Feeds == {FeedOrder[i] : i \in DOMAIN FeedOrder}

Days == 1 .. LastDay
Marks == {"none", "pending", "open", "some", "all", "failed"}
Statuses == {"fresh", "partial", "late", "failed", "never_received", "not_due"}

VARIABLES
    monitor,    \* monitor_kind
    configured, \* the feeds whose dataset configuration parses
    hour,       \* the clock
    mark,       \* by feed and date
    newest,     \* bounded: the date of the feed's last run, 0 for none
    desired,    \* scheduler_control.desired_state
    admitted,   \* the admitted dataset keys
    started,    \* first_start_dates by feed, 0 for none
    card,       \* the request: what it has read, or the card it returned
    retracted,  \* feeds with a date that stopped being complete during the read
    races       \* commits of others since the read began

boardVars == <<monitor, configured, hour, mark, newest, desired, admitted, started, card,
               retracted, races>>
boardWorld == <<monitor, configured, hour, mark, newest, desired, admitted, started>>

Absent == [expected |-> 0, latest |-> 0, status |-> "not_due", error |-> FALSE]
NoCard == [at |-> "idle", hour |-> 0, desired |-> FALSE, active |-> {}, first |-> [f \in Feeds |-> 0],
           left |-> <<>>, rows |-> [f \in Feeds |-> Absent],
           status |-> "not_due", coverage |-> 0, complete |-> FALSE]

BoardTypeOK ==
    /\ monitor \in MonitorKinds /\ hour \in 2 .. 2 * LastDay + 1 /\ desired \in BOOLEAN
    /\ configured \subseteq Feeds /\ admitted \subseteq Feeds /\ retracted \subseteq Feeds
    /\ mark \in [Feeds -> [Days -> Marks]]
    /\ newest \in [Feeds -> 0 .. LastDay] /\ started \in [Feeds -> 0 .. LastDay]
    /\ card.at \in {"idle", "control", "admission", "feeds", "done"}
    /\ Len(card.left) <= Len(FeedOrder) /\ card.active \subseteq Feeds /\ card.status \in Statuses
    /\ card.coverage \in 0 .. LastDay /\ card.complete \in BOOLEAN
    /\ \A f \in Feeds : card.rows[f].status \in Statuses /\ card.rows[f].latest \in 0 .. LastDay

BoardInit ==
    /\ monitor \in MonitorKinds /\ configured \in {Feeds, {FeedOrder[1]}} /\ hour = 2
    /\ mark = [f \in Feeds |-> [d \in Days |-> "none"]]
    /\ newest = [f \in Feeds |-> 0] /\ desired \in BOOLEAN /\ admitted \in {Feeds, {FeedOrder[1]}}
    /\ monitor = "bounded" => desired /\ admitted = Feeds      \* it has no scheduler of its own
    /\ started = [f \in Feeds |-> IF f \in admitted THEN 1 ELSE 0]
    /\ card = NoCard /\ retracted = {} /\ races = 0

---------------------------------------------------------------------------
(* The world the card is read from.                                        *)

Reading == card.at \in {"control", "feeds"}
Races ==
    /\ card.at # "done"
    /\ Reading => races < MaxRaces
    /\ races' = IF Reading THEN races + 1 ELSE races

BoardTick ==
    /\ hour < 2 * LastDay + 1 /\ hour' = hour + 1 /\ Races
    /\ UNCHANGED <<monitor, configured, mark, newest, desired, admitted, started, card,
                   retracted>>

\* An operator starts or stops the scheduler, which admits the feed anew and
\* keeps the first date it ever started with.
Switch(f) ==
    /\ monitor = "full_market" /\ Reading /\ Races
    /\ \/ desired' = ~desired /\ UNCHANGED <<admitted, started>>
       \/ /\ admitted' = IF f \in admitted THEN admitted \ {f} ELSE admitted \cup {f}
          /\ started' = [started EXCEPT ![f] = IF @ = 0 THEN hour \div 2 ELSE @]
          /\ UNCHANGED desired
    /\ UNCHANGED <<monitor, configured, hour, mark, newest, card, retracted>>

\* A plan is frozen, from the day before it is due, and its summary fills;
\* a bounded feed completes or fails a run.
Progress(f, d) ==
    /\ 2 * d <= hour + 2 /\ Races
    /\ LET next == IF monitor = "bounded"
                   THEN IF mark[f][d] \in {"none", "failed"} THEN {"all", "failed"} ELSE {}
                   ELSE CASE mark[f][d] = "none" -> IF started[f] = 0 \/ d < started[f] THEN {}
                                                    ELSE {"pending", "open"}
                          [] mark[f][d] = "pending" -> {"open"}
                          [] mark[f][d] = "open" -> {"some"}
                          [] mark[f][d] = "some" -> {"all"}
                          [] OTHER -> {}
       IN \E m \in next : mark' = [mark EXCEPT ![f][d] = m]
    /\ newest' = IF monitor = "bounded" THEN [newest EXCEPT ![f] = d] ELSE newest
    /\ UNCHANGED <<monitor, configured, hour, desired, admitted, started, card, retracted>>

\* A member's accepted delivery is superseded by a failing one.
Retract(f, d) ==
    /\ monitor = "full_market" /\ mark[f][d] = "all" /\ Reading /\ Races
    /\ mark' = [mark EXCEPT ![f][d] = "some"] /\ retracted' = retracted \cup {f}
    /\ UNCHANGED <<monitor, configured, hour, newest, desired, admitted, started, card>>

---------------------------------------------------------------------------
(* The request.                                                            *)

\* The clock and list_scheduler_controls().
ReadControls ==
    /\ card.at = "idle"
    /\ card' = [NoCard EXCEPT !.at = "control", !.hour = hour, !.desired = desired]
    /\ retracted' = {}
    /\ UNCHANGED <<boardWorld, races>>

\* admission_projection() and eligibility(): the feeds the card counts.
ReadAdmission ==
    /\ card.at = "control"
    /\ card' = [card EXCEPT !.at = "feeds", !.left = FeedOrder, !.first = started,
                  !.active = IF monitor = "bounded" THEN Feeds
                             ELSE IF card.desired THEN admitted ELSE {}]
    /\ UNCHANGED <<boardWorld, retracted, races>>

Newest(S) == IF S = {} THEN 0 ELSE Max(S)

\* acquisition_dates() up to the last date due at the card's clock.
Through == card.hour \div 2
ProfileExpected(f) ==
    IF card.first[f] = 0 THEN 0 ELSE Newest({d \in Days : card.first[f] <= d /\ d <= Through})

\* "latest_complete" of the summary query.
LatestComplete(f) == Newest({d \in Days : d <= Through /\ mark[f][d] = "all"})

\* _profile_feed_freshness()
ProfileRow(f) ==
    LET e == ProfileExpected(f)
        m == IF e = 0 THEN "none" ELSE mark[f][e]
    IN [expected |-> e, latest |-> LatestComplete(f),
        error |-> f \notin configured \/ \E d \in 1 .. Through : mark[f][d] = "pending",
        status |-> CASE e = 0 -> "not_due"
                     [] m = "all" -> "fresh"
                     [] m = "some" -> "partial"
                     [] m = "open" -> IF card.hour > 2 * e THEN "late" ELSE "not_due"
                     [] OTHER -> "never_received"]

\* resolve_expected_data_date() and _feed_freshness()
BoundedRow(f) ==
    LET e == Newest({d \in Days : 2 * d + 1 <= card.hour})
        error == f \notin configured \/ e = 0
        latest == Newest({d \in Days : mark[f][d] = "all"})
    IN [expected |-> IF f \in configured THEN e ELSE 0, latest |-> latest, error |-> error,
        status |-> CASE error -> "not_due"
                     [] newest[f] = 0 -> "never_received"
                     [] newest[f] >= e /\ mark[f][newest[f]] = "failed" -> "failed"
                     [] latest >= e -> "fresh"
                     [] OTHER -> "late"]

ReadFeed(f) ==
    /\ card.at = "feeds" /\ card.left # <<>> /\ f = Head(card.left)
    /\ card' = [card EXCEPT !.left = Tail(@),
                  !.rows[f] = IF monitor = "full_market" THEN ProfileRow(f) ELSE BoundedRow(f)]
    /\ UNCHANGED <<boardWorld, retracted, races>>

---------------------------------------------------------------------------
(* The group of the card's feeds.                                          *)

StatesOf(rows, F) == {rows[f].status : f \in F}

GroupStatus(rows, F) ==
    LET S == StatesOf(rows, F) IN
    IF F = {} THEN "not_due"
    ELSE IF (\E f \in F : rows[f].error) /\ S \cap {"fresh", "late", "failed"} = {} THEN "not_due"
    ELSE IF S = {"never_received"} THEN "never_received"
    ELSE IF S = {"not_due"} THEN "not_due"
    ELSE IF "failed" \in S THEN "failed"
    ELSE IF "partial" \in S THEN "partial"
    ELSE IF S = {"fresh"} THEN "fresh"
    ELSE IF "fresh" \in S THEN "partial"
    ELSE "late"

Coverage(rows, F) ==
    LET D == {rows[f].latest : f \in F} IN IF F = {} \/ 0 \in D THEN 0 ELSE Min(D)

\* all_current, which sets last_complete_at.
AllCurrent(rows, F) ==
    /\ \E f \in F : rows[f].expected # 0
    /\ \A f \in F : /\ ~rows[f].error /\ rows[f].expected # 0
                    /\ rows[f].latest # 0 /\ rows[f].latest >= rows[f].expected

Present ==
    /\ card.at = "feeds" /\ card.left = <<>>
    /\ card' = [card EXCEPT !.at = "done",
                  !.status = GroupStatus(card.rows, card.active),
                  !.coverage = Coverage(card.rows, card.active),
                  !.complete = AllCurrent(card.rows, card.active)]
    /\ UNCHANGED <<boardWorld, retracted, races>>

BoardNext ==
    \/ BoardTick \/ ReadControls \/ ReadAdmission \/ Present
    \/ \E f \in Feeds : Switch(f) \/ ReadFeed(f)
    \/ \E f \in Feeds, d \in Days : Progress(f, d) \/ Retract(f, d)

BoardSpec == BoardInit /\ [][BoardNext]_boardVars

---------------------------------------------------------------------------
(* Properties. *)

\* Whatever a card claims of its group is true of every feed of the group,
\* although the feeds were read one after another while others wrote: "fresh"
\* and a completion time mean that the expected date of each active feed is
\* complete, and the coverage date is one that each of them has reached.
\* Only a feed that lost a complete date while the card was read is excused,
\* and a bounded feed whose last run failed (_build_scheduler_freshness).
Complete(f, d) ==
    \/ mark[f][d] = "all"
    \/ monitor = "bounded" /\ \E e \in d .. LastDay : mark[f][e] = "all"

CardSound ==
    card.at = "done" =>
      /\ card.status = "fresh" =>
           \A f \in card.active \ retracted :
              card.rows[f].expected # 0 /\ Complete(f, card.rows[f].expected)
      /\ card.complete =>
           /\ card.status \in {"fresh", "failed"}
           /\ \A f \in card.active \ retracted : Complete(f, card.rows[f].expected)
      /\ card.coverage # 0 =>
           \A f \in card.active \ retracted : \E d \in card.coverage .. LastDay : mark[f][d] = "all"
=============================================================================
