----------------------------- MODULE ServePages -----------------------------
(***************************************************************************)
(* Reading canonical data page by page (services/serve.py) while           *)
(* normalisation inserts rows and operators switch datasets on and off.    *)
(*                                                                         *)
(* A walk is the sequence of pages one client asks for.  EOD and futures   *)
(* rows and minute bars continue from a cursor, which names the last row   *)
(* of the page and repeats the query (minute bars: the resolved window);   *)
(* instruments are paged by offset.  A page takes two steps, as its        *)
(* statements have their own snapshots: the active datasets, the cursor    *)
(* and the window (or the count) are resolved first, the rows read after.  *)
(***************************************************************************)
EXTENDS Integers, Sequences, FiniteSets, SequencesExt, FiniteSetsExt

CONSTANTS Kinds,         \* the kinds of list this instance walks
          Ids,           \* instruments, or futures quotes of a date (numbers)
          LastAt,        \* dates run from 1 to LastAt
          PageSize,
          Limit, Window,   \* a key's requests per window
          MaxWrites      \* bound: rows inserted, statistics changed, datasets switched

Listed == {"eod", "minute", "futures", "instruments"}
Datasets == {"stock", "etf", "minute", "futures"}
ClassOf(i) == IF i % 2 = 1 THEN "stock" ELSE "etf"
DayOf(t) == (t + 1) \div 2                 \* two bars a day
Ats(kind) == 1 .. IF kind = "minute" THEN 2 * LastAt ELSE LastAt
Row(at, i) == [at |-> at, id |-> i]
DateOf(kind, r) == IF kind = "minute" THEN DayOf(r.at) ELSE r.at
NoRow == Row(0, 0)
NoScope == [ids |-> {}, from |-> 0, to |-> 0, coverage |-> "any"]

VARIABLES stored,      \* stored[kind]: the canonical rows
          latest,      \* latest[i]: the covered date in the instrument's statistics, 0 = none
          dataset,     \* dataset[d]: "on", "off", or "invalid" (active with an unusable contract)
          walk,        \* the client's walk
          writes,
          clock, bucket, \* the times of a key's requests the limiter remembers
          admitted,    \* history: the times of every admitted request
          touched      \* history: stored rows, statistics or datasets changed during the walk

serveVars == <<stored, latest, dataset, walk, writes, clock, bucket, admitted, touched>>
limiter == <<clock, bucket, admitted>>

Walk0 == [pc |-> "idle", kind |-> "eod", query |-> NoScope, cursor |-> NoRow, bound |-> NoScope, page |-> 1,
          window |-> NoScope, scopes |-> {}, total |-> 0, seen |-> <<>>, stable |-> {}]

ServeInit ==
    /\ \E full \in BOOLEAN :
          stored = [k \in Listed \ {"instruments"} |-> {Row(t, i) : t \in IF full THEN {u \in Ats(k) : DateOf(k, Row(u, 0)) < LastAt} ELSE {1}, i \in Ids}]
    /\ latest \in [Ids -> {0, LastAt}] /\ dataset = [d \in Datasets |-> "on"]
    /\ walk \in {[Walk0 EXCEPT !.kind = k] : k \in Kinds} /\ writes = 0 /\ touched = FALSE
    /\ clock = 0 /\ bucket = <<>> /\ admitted = <<>>
    /\ walk.kind # "instruments" => latest = [i \in Ids |-> 0]

---------------------------------------------------------------------------
(* What a query selects. *)

\* active_dataset_scopes(): one unusable active dataset makes every list unavailable.
Usable == \A d \in Datasets : dataset[d] # "invalid"
ActiveScopes == {d \in Datasets : dataset[d] = "on"}

\* The datasets a kind of list is served from.
ScopesOf(kind) == CASE kind \in {"eod", "instruments"} -> {"stock", "etf"}
                    [] kind = "minute" -> {"minute"}
                    [] OTHER -> {"futures"}
InScope(kind, r, scopes) == CASE kind \in {"eod", "instruments"} -> ClassOf(r.id) \in scopes
                              [] kind = "minute" -> "minute" \in scopes
                              [] OTHER -> "futures" \in scopes
Selects(kind, q, r) == r.id \in q.ids /\ q.from <= DateOf(kind, r) /\ DateOf(kind, r) <= q.to

\* The order of a list: newest first, then by identity.
Precedes(kind, a, b) ==
    \/ a.at > b.at
    \/ kind = "eod" /\ a.at = b.at /\ a.id < b.id
    \/ kind = "futures" /\ a.at = b.at /\ a.id > b.id

\* Faulty variant of Beyond: the cursor row itself comes again.
BeyondOrEqual(kind, last, r) == last = NoRow \/ Precedes(kind, last, r) \/ r = last

\* The rows a cursor leaves.
Beyond(kind, last, r) == last = NoRow \/ Precedes(kind, last, r)

\* The rows as the sequence the order gives.
InOrder(rows, Before(_, _)) ==
    [k \in 1 .. Cardinality(rows) |-> CHOOSE r \in rows : Cardinality({q \in rows : Before(q, r)}) = k - 1]
Ordered(kind, rows) == InOrder(rows, LAMBDA a, b : Precedes(kind, a, b))

\* Offset pages of instruments: by the covered date, missing ones last, then by identity.
Covered(i, scopes) == ClassOf(i) \in scopes /\ latest[i] # 0
SortValue(i, scopes) == IF Covered(i, scopes) THEN latest[i] ELSE 0
InstrumentRows(q, scopes) ==
    {Row(SortValue(i, scopes), i) : i \in {j \in q.ids : /\ ClassOf(j) \in scopes
                                                         /\ q.coverage = "with" => Covered(j, scopes)
                                                         /\ q.coverage = "without" => ~ Covered(j, scopes)}}
InstrumentOrder(rows) == InOrder(rows, LAMBDA a, b : a.at > b.at \/ (a.at = b.at /\ a.id < b.id))

---------------------------------------------------------------------------
(* A page. *)

Refuse == walk' = [walk EXCEPT !.pc = "refused"]
Queries ==
    IF walk.kind = "instruments" THEN {[NoScope EXCEPT !.ids = Ids, !.coverage = c] : c \in {"any", "with", "without"}}
    ELSE {[NoScope EXCEPT !.ids = s, !.from = w[1], !.to = w[2]] :
             s \in {{i} : i \in Ids} \cup (IF walk.kind = "minute" THEN {} ELSE {Ids}),
             w \in {<<1, LastAt>>, <<1, 1>>} \cup (IF walk.kind = "minute" THEN {<<0, 0>>} ELSE {})}
StartWalk(q) ==
    /\ walk.pc = "idle" /\ walk.kind # "limited" /\ q \in Queries
    /\ walk' = [walk EXCEPT !.pc = "asked", !.query = q] /\ touched' = FALSE
    /\ UNCHANGED <<stored, latest, dataset, writes, limiter>>

MonthBack(day) == IF day = 1 THEN 1 ELSE day - 1
NewestDay == LET days == {DayOf(r.at) : r \in stored["minute"]} IN IF days = {} THEN 0 ELSE Max(days)

\* list_minute() without dates: from the newest bar back one month.
LatestWindow == [walk.query EXCEPT !.from = MonthBack(NewestDay), !.to = NewestDay]

\* A later page takes its window from the cursor.
DateRange == IF walk.cursor # NoRow THEN walk.bound
          ELSE IF walk.kind = "minute" /\ walk.query.to = 0 THEN LatestWindow ELSE walk.query

\* The cursor repeats the query of the page that issued it; bars: the same range, or none.
CursorFits == walk.cursor = NoRow \/ walk.bound = walk.query 
              \/ (walk.kind = "minute" /\ walk.query.to = 0 /\ walk.bound.ids = walk.query.ids)
ResolvePage ==
    /\ walk.pc = "asked"
    /\ IF ~ Usable \/ ~ CursorFits \/ (walk.kind # "instruments" /\ ScopesOf(walk.kind) \cap ActiveScopes = {})
       THEN Refuse /\ UNCHANGED touched
       ELSE /\ walk' = [walk EXCEPT !.pc = "resolved", !.window = DateRange, !.scopes = ActiveScopes,
                                    !.total = Cardinality(InstrumentRows(walk.query, ActiveScopes))]
            /\ touched' = IF walk.cursor = NoRow /\ walk.page = 1 THEN FALSE ELSE touched
    /\ UNCHANGED <<stored, latest, dataset, writes, limiter>>

\* The rows of the page, and whether one more was found.
Found == Ordered(walk.kind, {r \in stored[walk.kind] : /\ Selects(walk.kind, walk.window, r)
                                                       /\ InScope(walk.kind, r, walk.scopes)
                                                       /\ Beyond(walk.kind, walk.cursor, r)})
Firsts(rows) == SubSeq(rows, 1, IF Len(rows) < PageSize THEN Len(rows) ELSE PageSize)
CursorRow(rows) == rows[PageSize]

\* Rows that are there when the first page is read, and stay.
StableFrom(rows) == IF walk.cursor = NoRow /\ walk.page = 1 THEN rows ELSE walk.stable
FetchRows ==
    /\ walk.pc = "resolved" /\ walk.kind # "instruments"
    /\ LET more == Len(Found) > PageSize
       IN  walk' = [walk EXCEPT !.pc = IF more THEN "between" ELSE "done",
                                !.seen = walk.seen \o Firsts(Found),
                                !.stable = StableFrom({r \in ToSet(Found) : InScope(walk.kind, r, ActiveScopes)}),
                                !.cursor = IF more THEN CursorRow(Found) ELSE walk.cursor,
                                !.bound = walk.window, !.page = walk.page + 1]
    /\ UNCHANGED <<stored, latest, dataset, writes, touched, limiter>>
FetchInstruments ==
    /\ walk.pc = "resolved" /\ walk.kind = "instruments"
    /\ LET all == InstrumentOrder(InstrumentRows(walk.query, walk.scopes))
           rest == IF (walk.page - 1) * PageSize >= Len(all) THEN <<>>
                   ELSE SubSeq(all, (walk.page - 1) * PageSize + 1, Len(all))
           pages == (walk.total + PageSize - 1) \div PageSize
       IN  walk' = [walk EXCEPT !.pc = IF walk.page < pages THEN "between" ELSE "done",
                                !.seen = walk.seen \o Firsts(rest),
                                !.stable = StableFrom(ToSet(all)), !.page = walk.page + 1]
    /\ UNCHANGED <<stored, latest, dataset, writes, touched, limiter>>

\* The client asks for the next page with the cursor it was given, or mixes up its queries.
NextPage(q) ==
    /\ walk.pc = "between" /\ q \in Queries
    /\ walk.kind = "instruments" => q = walk.query
    /\ walk' = [walk EXCEPT !.pc = "asked", !.query = q]
    /\ UNCHANGED <<stored, latest, dataset, writes, touched, limiter>>

---------------------------------------------------------------------------
(* The rate limit of a key, which every request passes first; walks of kind "limited" are about it. *)

\* The requests of the window that ends now.
Recent(times) == SelectSeq(times, LAMBDA t : t > clock - Window)

\* One lock is held over the pruning, the comparison and the append.
AskLimiter ==
    /\ walk.kind = "limited" /\ Len(admitted) < Limit + 2
    /\ Len(Recent(bucket)) < Limit
    /\ bucket' = Append(Recent(bucket), clock) /\ admitted' = Append(admitted, clock)
    /\ UNCHANGED <<stored, latest, dataset, walk, writes, clock, touched>>
PassTime ==
    /\ walk.kind = "limited" /\ clock < 2 * Window /\ clock' = clock + 1
    /\ UNCHANGED <<stored, latest, dataset, walk, writes, bucket, admitted, touched>>

---------------------------------------------------------------------------
(* Everybody else. *)

Write == writes < MaxWrites /\ writes' = writes + 1 /\ touched' = TRUE
StaysEntitled(scopes) == {r \in walk.stable : InScope(walk.kind, r, scopes)}
InsertRow(kind, r) ==
    /\ walk.kind = kind /\ kind \in DOMAIN stored /\ Write /\ r.at \in Ats(kind) /\ r \notin stored[kind]
    /\ stored' = [stored EXCEPT ![kind] = @ \cup {r}] /\ UNCHANGED <<latest, dataset, walk, limiter>>
UpdateStatistics(i) ==
    /\ walk.kind = "instruments" /\ Write /\ latest' = [latest EXCEPT ![i] = IF @ = 0 THEN 1 ELSE LastAt]
    /\ UNCHANGED <<stored, dataset, walk, limiter>>
SwitchDataset(d, status) ==
    /\ walk.kind # "limited" /\ Write /\ dataset[d] # status /\ dataset' = [dataset EXCEPT ![d] = status]
    /\ walk' = [walk EXCEPT !.stable = StaysEntitled({e \in Datasets : dataset'[e] = "on"})]
    /\ UNCHANGED <<stored, latest, limiter>>

ServeNext ==
    \/ \E q \in Queries : StartWalk(q) \/ NextPage(q)
    \/ AskLimiter \/ PassTime \/ ResolvePage \/ FetchRows \/ FetchInstruments
    \/ \E kind \in Kinds, t \in 1 .. 2 * LastAt, i \in Ids : InsertRow(kind, Row(t, i))
    \/ \E i \in Ids : UpdateStatistics(i)
    \/ \E d \in Datasets, s \in {"on", "off", "invalid"} : SwitchDataset(d, s)

ServeSpec == ServeInit /\ [][ServeNext]_serveVars

---------------------------------------------------------------------------
(* Properties. *)

ServeTypeOK ==
    /\ walk.pc \in {"idle", "asked", "resolved", "between", "done", "refused"} /\ walk.kind \in Kinds
    /\ walk.stable \subseteq {Row(t, i) : t \in 0 .. 2 * LastAt, i \in Ids} /\ walk.page \in 1 .. LastAt * Cardinality(Ids) + 2

\* A finished walk over rows or bars has returned every row that was there at
\* its first page and served ever since exactly once, and its rows in strict
\* list order: no insert between two pages repeats or hides one
\* (list_eod, list_minute, list_futures_eod).
WalkIsExact ==
    walk.kind # "instruments" =>
      /\ walk.pc = "done" => walk.stable \subseteq ToSet(walk.seen)
      /\ \A i, j \in 1 .. Len(walk.seen) : i < j => Precedes(walk.kind, walk.seen[i], walk.seen[j])

\* Offset pages of instruments return each instrument of the list exactly
\* once if nothing changed during the walk, ties and missing values included
\* (list_instruments).
QuietPagesPartition ==
    walk.kind = "instruments" /\ walk.pc = "done" /\ ~ touched =>
      Len(walk.seen) = Cardinality(walk.stable) /\ ToSet(walk.seen) = walk.stable

\* In no window are more requests of a key admitted than its limit
\* (_enforce_serve_rate_limit, _enforce_source_rate_limit).
RateIsKept == \A t \in 0 .. clock : Len(SelectSeq(admitted, LAMBDA u : t - Window < u /\ u <= t)) <= Limit
=============================================================================
