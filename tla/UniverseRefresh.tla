--------------------------- MODULE UniverseRefresh ---------------------------
(***************************************************************************)
(* The daily refresh of an official universe by the full-market runtime    *)
(* (full_market_runtime.py, full_market_universe.py): a maintenance work   *)
(* per feed and day is enqueued, claimed, its official directories and the *)
(* provider's catalogue are fetched page by page into the durable journal, *)
(* the listings are scoped and mapped, the universe is submitted to the    *)
(* Source, and the round is frozen and settled.                            *)
(*                                                                         *)
(* A directory is named by the day of its edition; what it lists on that   *)
(* day is a constant.  The exchanges regenerate their directories one by   *)
(* one, so that a page serves any edition up to the day's; midnight may    *)
(* pass at any step, and the process may die between two steps and resume  *)
(* from the journal.  Two styles of feed are          *)
(* modelled: "us" (Nasdaq directories, Twelve Data catalogue) and "tw"     *)
(* (a company and an ISIN table of either exchange, FinLab catalogue).     *)
(***************************************************************************)
EXTENDS Integers, Sequences

CONSTANTS Styles,        \* the feeds to consider: a subset of {"us", "tw"}
          Contents,      \* Contents[style][page][day]: what the edition of a day lists, if there is one
          LastDay,       \* bound: days
          MaxAttempts,   \* FULL_WORK_MAX_ATTEMPTS
          MaxTroubles    \* bound: failing calls, dying processes, stop, start and retire commands

\* A day and an attempt at least, one of the two styles of feeds.
ASSUME RefreshAssumption == /\ LastDay \in Nat \ {0} /\ MaxAttempts \in Nat /\ MaxTroubles \in Nat
                            /\ Styles \subseteq {"us", "tw"}

Days == 1 .. LastDay
Unset == 0

\* The pages of a refresh, in the order they are asked for.
Pages(s) == IF s = "us" THEN <<"catalogue", "listed", "other">>
            ELSE <<"company", "companyOtc", "isin", "isinOtc", "catalogue">>
OwnPages(s) == {Pages(s)[i] : i \in DOMAIN Pages(s)}
PageNames == {"catalogue", "listed", "other", "company", "companyOtc", "isin", "isinOtc"}

VARIABLES style,         \* the feed's style
          day,           \* the date
          allowed,       \* the Source authorises acquisition
          installed,     \* the feed is in the runtime's configuration
          work,          \* work[d]: the maintenance work of the day, its round and its journal
          run,           \* the process: its step, its work and what it holds in memory
          nextAt,        \* full_refresh.next_at
          released,      \* the universes submitted to the Source
          troubles       \* what has gone wrong so far

refreshVars == <<style, day, allowed, installed, work, run, nextAt, released, troubles>>

NoPages == [p \in PageNames |-> Unset]
NoWork == [st |-> "none", closed |-> FALSE, frozen |-> FALSE, kept |-> FALSE, budget |-> 0, pages |-> NoPages, calls |-> 0]
AtRest == [pc |-> "idle", work |-> Unset, dispatched |-> FALSE, outcome |-> "none", gaps |-> FALSE, sent |-> {}]
RefreshInit ==
    /\ style \in Styles /\ day = 1 /\ allowed = TRUE /\ installed = TRUE
    /\ work = [d \in Days |-> NoWork] /\ run = AtRest /\ nextAt = 1 /\ released = {}
    /\ troubles = 0

Trouble == troubles < MaxTroubles /\ troubles' = troubles + 1
MyWork == work[run.work]
Journal(w) == work' = [work EXCEPT ![run.work] = w]
world == <<style, day, allowed, installed>>

---------------------------------------------------------------------------
(* From directories and catalogue to the members of a universe. *)

EquityTypes == {"stock", "adr"}
OutOfScopeTypes == {"preferred", "warrant", "right", "unit", "note"}

\* A set of a single element, and that element.
One(S) == \E x \in S : S = {x}
Only(S) == CHOOSE x \in S : TRUE

\* The listing's own row, or the only one under another exchange that names the same company.
Exact(member, rows) == {r \in rows : r.symbol = member.symbol /\ r.exchange = member.exchange}
Elsewhere(member, rows) == {r \in rows : r.symbol = member.symbol /\ r.exchange # member.exchange}
SameCompany(member, row) == member.name = row.name
UsCandidates(member, rows) ==
    IF Exact(member, rows) # {} THEN Exact(member, rows)
    ELSE IF One(Elsewhere(member, rows))
         THEN {r \in Elsewhere(member, rows) : SameCompany(member, r)} ELSE {}

\* scope_us_members(): the listing of an excluded type leaves, and a fund the provider does not
\* list; any other type stays as an expected gap.
InUsScope(member, rows) ==
    LET found == UsCandidates(member, rows)
    IN  /\ ~ (One(found) /\ Only(found).type \in OutOfScopeTypes)
        /\ ~ (member.fund /\ \A r \in rows : r.symbol # member.symbol)
MapUs(member, rows) ==
    LET found == UsCandidates(member, rows)
        mapped == One(found) /\ Only(found).type \in EquityTypes
    IN  [symbol |-> member.symbol, exchange |-> member.exchange, name |-> member.name,
         class |-> IF mapped /\ member.class = "gap" THEN (IF Only(found).type = "adr" THEN "adr" ELSE "ordinary") ELSE member.class,
         mapped |-> mapped]

\* A Taiwanese listing needs a company of its exchange, and then its symbol in the catalogue; a catalogue that
\* cannot be read leaves every listing a gap.
MapTw(member, companies, rows, gaps) ==
    LET class == IF [symbol |-> member.symbol, exchange |-> member.exchange] \in companies THEN member.class ELSE "gap"
    IN  [symbol |-> member.symbol, exchange |-> member.exchange, name |-> member.name, class |-> class,
         mapped |-> ~ gaps /\ class # "gap" /\ member.symbol \in {r.symbol : r \in rows}]

Lists(p, d) == IF d = Unset THEN {} ELSE Contents[style][p][d]
Rows(pages) == Lists("catalogue", pages["catalogue"])
Listings(pages) == IF style = "us" THEN Lists("listed", pages["listed"]) \cup Lists("other", pages["other"])
                   ELSE Lists("isin", pages["isin"]) \cup Lists("isinOtc", pages["isinOtc"])
Companies(pages) == Lists("company", pages["company"]) \cup Lists("companyOtc", pages["companyOtc"])
UniverseOf(pages, gaps) ==
    IF style = "us" THEN {MapUs(l, Rows(pages)) : l \in {m \in Listings(pages) : InUsScope(m, Rows(pages))}}
    ELSE {MapTw(l, Companies(pages), Rows(pages), gaps) : l \in Listings(pages)}

\* Faulty variant of Coherent: pages of different editions are joined.
CoherentAlways(pages) == TRUE

\* Nasdaq's two directories must carry one effective date; the Taiwanese tables carry none.
Coherent(pages) == style = "us" => pages["listed"] = pages["other"]

\* _expanded_members(): the Source refuses a universe that lists a symbol twice.
Duplicated(members) == \E m, n \in members : m # n /\ m.symbol = n.symbol

---------------------------------------------------------------------------
(* Enqueueing and claiming. *)

Due == nextAt <= day

\* One acknowledged enqueue per process and key is enough.
Enqueued(d) == IF d \in run.sent THEN work
               ELSE [work EXCEPT ![d].st = IF @ = "none" THEN "queued" ELSE @]

\* A cycle enqueues when the feed is admitted and the refresh is due; the sync command always does.
BeginCycle ==
    /\ run.pc = "idle"
    /\ \E command \in BOOLEAN :
          \/ /\ installed /\ (command \/ (allowed /\ Due))
             /\ work' = Enqueued(day) /\ run' = [run EXCEPT !.pc = "claim", !.sent = @ \cup {day}]
          \/ /\ ~ (installed /\ (command \/ (allowed /\ Due)))
             /\ \E d \in Days : work[d].st \in {"queued", "owned"}
             /\ run' = [run EXCEPT !.pc = "claim"] /\ UNCHANGED work
    /\ UNCHANGED <<world, nextAt, released, troubles>>

\* The owner's own work is recovered before a queued one is claimed; a stopped scope opens no round.
Recovered == {d \in Days : work[d].st = "owned"}
Waiting == {d \in Days : work[d].st = "queued" /\ allowed}
ClaimOrder == IF Recovered # {} THEN Recovered ELSE Waiting
ClaimWork ==
    /\ run.pc = "claim"
    /\ IF ClaimOrder = {} THEN run' = [run EXCEPT !.pc = "idle"] /\ UNCHANGED work
       ELSE LET d == CHOOSE x \in ClaimOrder : \A y \in ClaimOrder : x <= y
            IN  /\ run' = [run EXCEPT !.pc = "owned", !.work = d, !.dispatched = FALSE, !.gaps = FALSE]
                /\ work' = [work EXCEPT ![d].st = "owned"]
    /\ UNCHANGED <<world, nextAt, released, troubles>>

---------------------------------------------------------------------------
(* _run_queued_maintenance(). *)

Settling(outcome) == run' = [run EXCEPT !.pc = "close", !.outcome = outcome]

\* A feed that is no longer installed is left for review: nothing is acquired for it.
SettleRetired == /\ run.pc = "owned" /\ ~ installed
                 /\ Settling("failed") /\ UNCHANGED <<world, work, nextAt, released, troubles>>

\* A closed round is completed from its durable manifest, or opened again.
ReplayOutcome(w) == IF w.frozen THEN "replayed" ELSE "retry"
ReplayClosed == /\ run.pc = "owned" /\ installed /\ MyWork.closed
                /\ Settling(ReplayOutcome(MyWork))
                /\ UNCHANGED <<world, work, nextAt, released, troubles>>

\* The attempts of the work are used up.
Spent == MyWork.budget >= MaxAttempts
ReserveRefresh ==
    /\ run.pc = "owned" /\ installed /\ ~ MyWork.closed
    /\ IF Spent THEN Settling("failed") /\ UNCHANGED work
       ELSE run' = [run EXCEPT !.pc = "fetch"] /\ Journal([MyWork EXCEPT !.budget = @ + 1])
    /\ UNCHANGED <<world, nextAt, released, troubles>>

Missing == {i \in DOMAIN Pages(style) : MyWork.pages[Pages(style)[i]] = Unset /\ ~ (run.gaps /\ Pages(style)[i] = "catalogue")}
NextPage == Pages(style)[CHOOSE i \in Missing : \A j \in Missing : i <= j]

\* An attempt that reached no provider is given back.
Released(w) == IF run.dispatched THEN w ELSE [w EXCEPT !.budget = @ - 1]
Called(w) == IF run.dispatched THEN w ELSE [w EXCEPT !.calls = @ + 1]

Published(p) == {d \in Days : d <= day /\ d \in DOMAIN Contents[style][p]}

\* Pages of the journal are replayed; the next one is asked for under a fresh authorization.
FetchPage ==
    /\ run.pc = "fetch" /\ Missing # {} /\ allowed
    /\ \E edition \in Published(NextPage) : Journal([Called(MyWork) EXCEPT !.pages = [MyWork.pages EXCEPT ![NextPage] = edition]])
    /\ run' = [run EXCEPT !.dispatched = TRUE]
    /\ UNCHANGED <<world, nextAt, released, troubles>>
FetchStopped ==
    /\ run.pc = "fetch" /\ Missing # {} /\ ~ allowed
    /\ Journal(Released(MyWork)) /\ Settling("retry")
    /\ UNCHANGED <<world, nextAt, released, troubles>>

\* A wait for quota reaches no provider either.
FetchWaits ==
    /\ run.pc = "fetch" /\ Missing # {} /\ allowed /\ Trouble
    /\ Journal(Released(MyWork)) /\ Settling("retry")
    /\ UNCHANGED <<world, nextAt, released>>
FetchFails ==
    /\ run.pc = "fetch" /\ Missing # {} /\ allowed /\ Trouble
    /\ Journal(Called(MyWork))
    /\ \/ \E retryable \in BOOLEAN : Settling(IF retryable THEN "retry" ELSE "failed")
       \/ style = "tw" /\ NextPage = "catalogue" /\ run' = [run EXCEPT !.gaps = TRUE, !.dispatched = TRUE]
    /\ UNCHANGED <<world, nextAt, released>>

\* The Source cannot be reached: the session ends without a settlement and the process with it.
FetchCutOff ==
    /\ run.pc = "fetch" /\ Missing # {} /\ Trouble
    /\ Journal(Released(MyWork)) /\ run' = AtRest
    /\ UNCHANGED <<world, nextAt, released>>

\* Directories of different dates are refused here, and a symbol listed twice by the Source.
Submission == [of |-> run.work, on |-> day, pages |-> MyWork.pages, members |-> UniverseOf(MyWork.pages, run.gaps)]
Entered == IF Duplicated(Submission.members) THEN released ELSE released \cup {Submission}
Submit ==
    /\ run.pc = "fetch" /\ Missing = {}
    /\ \/ ~ Coherent(MyWork.pages) /\ Settling("failed") /\ UNCHANGED <<released, troubles>>
       \/ /\ Coherent(MyWork.pages) /\ released' = Entered /\ UNCHANGED troubles
          /\ IF Duplicated(Submission.members) THEN Settling("failed") ELSE run' = [run EXCEPT !.pc = "freeze"]
       \/ /\ Coherent(MyWork.pages) /\ Trouble
          /\ \E received, retryable \in BOOLEAN :
                /\ released' = (IF received THEN Entered ELSE released)
                /\ (received => retryable) /\ Settling(IF retryable THEN "retry" ELSE "failed")
    /\ UNCHANGED <<world, work, nextAt>>

\* The manifest is kept in the journal first, then at the Source; a transient refusal is a retry.
FreezeRefresh ==
    /\ run.pc = "freeze"
    /\ \/ /\ Journal([MyWork EXCEPT !.kept = TRUE, !.frozen = TRUE])
          /\ Settling("completed") /\ UNCHANGED troubles
       \/ /\ Trouble /\ \E received \in BOOLEAN :
                Journal([MyWork EXCEPT !.kept = TRUE, !.frozen = @ \/ received])
          /\ Settling("retry")
    /\ UNCHANGED <<world, nextAt, released>>

CloseRound == /\ run.pc = "close"
              /\ Journal([MyWork EXCEPT !.closed = TRUE]) /\ run' = [run EXCEPT !.pc = "settle"]
              /\ UNCHANGED <<world, nextAt, released, troubles>>
SettledState(outcome) == CASE outcome \in {"completed", "replayed"} -> "completed"
                           [] outcome = "failed" -> "failed"
                           [] OTHER -> "queued"
SettleRound ==
    /\ run.pc = "settle"
    /\ Journal([MyWork EXCEPT !.st = SettledState(run.outcome), !.closed = run.outcome # "retry"])
    /\ run' = IF run.outcome = "completed" THEN [AtRest EXCEPT !.pc = "refresh", !.work = run.work, !.sent = run.sent]
              ELSE [AtRest EXCEPT !.sent = run.sent]
    /\ UNCHANGED <<world, nextAt, released, troubles>>

\* full_refresh: the next refresh of the provider is a day away.
RecordRefresh == /\ run.pc = "refresh" /\ nextAt' = day + 1
           /\ run' = [run EXCEPT !.pc = "idle", !.work = Unset]
           /\ UNCHANGED <<world, work, released, troubles>>

---------------------------------------------------------------------------
(* The world around it. *)

ProcessDies == /\ run.pc # "idle" /\ Trouble /\ run' = AtRest
               /\ UNCHANGED <<style, day, allowed, installed, work, nextAt, released>>
Midnight == /\ day < LastDay /\ day' = day + 1
            /\ UNCHANGED <<style, allowed, installed, work, run, nextAt, released, troubles>>
StopOrStart == /\ Trouble /\ allowed' = ~ allowed
               /\ UNCHANGED <<style, day, installed, work, run, nextAt, released>>

\* A release without the feed: the process starts again with the new configuration.
RetireFeed == /\ installed /\ Trouble
              /\ installed' = FALSE /\ run' = AtRest
              /\ UNCHANGED <<style, day, allowed, work, nextAt, released>>

RefreshStep == \/ BeginCycle \/ ClaimWork \/ SettleRetired \/ ReplayClosed \/ ReserveRefresh
               \/ FetchPage \/ FetchStopped \/ Submit \/ FreezeRefresh \/ CloseRound \/ SettleRound \/ RecordRefresh
RefreshFault == \/ FetchWaits \/ FetchFails \/ FetchCutOff \/ ProcessDies
RefreshWorld == \/ Midnight \/ StopOrStart \/ RetireFeed
RefreshNext == RefreshStep \/ RefreshFault \/ RefreshWorld

RefreshSpec == RefreshInit /\ [][RefreshNext]_refreshVars

\* A running process takes its next step; faults and the world promise nothing.
RefreshFair(i) == i = 1 /\ RefreshStep
RefreshFairness == WF_refreshVars(RefreshStep)

---------------------------------------------------------------------------
(* Properties. *)

RefreshWorks == [st : {"none", "queued", "owned", "completed", "failed"}, closed : BOOLEAN, frozen : BOOLEAN, kept : BOOLEAN,
                 budget : 0 .. MaxAttempts, pages : [PageNames -> Days \cup {Unset}], calls : Nat]
Processes == [pc : {"idle", "claim", "owned", "fetch", "freeze", "close", "settle", "refresh"}, work : Days \cup {Unset},
              dispatched : BOOLEAN, outcome : {"none", "completed", "replayed", "retry", "failed"}, gaps : BOOLEAN,
              sent : SUBSET Days]
RefreshTypeOK ==
    /\ style \in Styles /\ day \in Days /\ allowed \in BOOLEAN /\ installed \in BOOLEAN
    /\ work \in [Days -> RefreshWorks] /\ run \in Processes
    /\ (run.pc \in {"idle", "claim"}) = (run.work = Unset)
    /\ nextAt \in 1 .. LastDay + 1 /\ troubles \in 0 .. MaxTroubles

\* Whatever was published, stopped or restarted between the pages of a submitted universe: no
\* symbol appears twice, and one that every edition lists, under whatever exchange, is among the
\* listings it was made of, so that a transfer between exchanges neither doubles nor loses it -
\* except for a Taiwanese universe of two ISIN tables of different days, which nothing compares.
\* A listing is left out only for the row of an excluded type that is its own, or as a fund that
\* the catalogue does not know; a mapped member has an equity row of its own - its exchange's, or
\* the symbol's only row, which names the same company -, in Taiwan a company of its exchange.
SamePage(x, l) == l.symbol = x.symbol /\ l.exchange = x.exchange
EditionOf(d) == [p \in PageNames |-> d]
Lasting(symbol) == \A d \in Days : \E l \in Listings(EditionOf(d)) : l.symbol = symbol
Joined(pages) == style = "tw" /\ pages["isin"] # pages["isinOtc"]
RowOf(m, rows, types) ==
    \E r \in rows : /\ r.symbol = m.symbol /\ r.type \in types
                    /\ r.exchange = m.exchange \/ (r.name = m.name /\ \A q \in rows : q.symbol = m.symbol => q = r)
OnceListed(u) ==
    /\ \A m, n \in u.members : m.symbol = n.symbol => m = n
    /\ \A d \in Days : \A l \in Listings(EditionOf(d)) :
          Lasting(l.symbol) => Joined(u.pages) \/ \E k \in Listings(u.pages) : k.symbol = l.symbol
LeftOutRightly(u) ==
    \A l \in Listings(u.pages) :
        \/ \E m \in u.members : SamePage(m, l)
        \/ style = "us" /\ RowOf(l, Rows(u.pages), OutOfScopeTypes)
        \/ style = "us" /\ l.fund /\ \A r \in Rows(u.pages) : r.symbol # l.symbol
MappedRightly(u) ==
    \A m \in u.members :
        m.mapped => \/ style = "us" /\ RowOf(m, Rows(u.pages), EquityTypes)
                    \/ style = "tw" /\ \E c \in Companies(u.pages) : SamePage(m, c)
UniverseSound == \A u \in released : OnceListed(u) /\ LeftOutRightly(u) /\ MappedRightly(u)

\* A completed work has submitted the universe of the pages in its journal: all of them, but for a
\* Taiwanese catalogue that could not be read then (a later round may have read it, and still be
\* completed by the manifest of the earlier one).  Its provider was not reached more often than
\* the budget allows, across stops, restarts and attempts that were given back.
Journalled(u, d) == \A p \in PageNames : \/ u.pages[p] = work[d].pages[p]
                                         \/ style = "tw" /\ p = "catalogue" /\ u.pages[p] = Unset
Submitted(d) == \E u \in released : u.of = d /\ Journalled(u, d)
RefreshHonest ==
    \A d \in Days : (work[d].st = "completed" => Submitted(d)) /\ work[d].calls <= MaxAttempts

\* A submitted universe is sound, and a completed refresh submitted its own within its budget.
UniversesSound == UniverseSound /\ RefreshHonest

\* What a page of the journal, a frozen manifest or a submission says is never taken back.
JournalKept ==
    /\ released \subseteq released'
    /\ \A d \in Days : /\ work[d].frozen => work'[d].frozen
                       /\ \A p \in PageNames : work[d].pages[p] # Unset => work'[d].pages[p] = work[d].pages[p]

\* Every maintenance work ends, unless its scope is stopped.
RefreshOpen(d) == work[d].st \in {"queued", "owned"}
RefreshEnded(d) == work[d].st \in {"completed", "failed"} \/ ~ allowed
=============================================================================
