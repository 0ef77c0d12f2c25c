--------------------------- MODULE CanonicalStore ---------------------------
(***************************************************************************)
(* The canonical tables: what a normalization run writes                   *)
(* (backend/app/services/normalize/{base,contracts}.py), the data-quality  *)
(* rules that stop a record (services/dq/validators.py), the read          *)
(* statistics kept beside the rows, and the operators' corrections         *)
(* (services/admin.py).                                                    *)
(*                                                                         *)
(* A run is one transaction and one step here: its upserts hold the row    *)
(* locks of every row and every statistics row they touch until it         *)
(* commits, so two runs that meet are serialised (or one is rolled back    *)
(* as a deadlock victim and retried).  A correction reads without a lock   *)
(* and writes later: it is two steps.  An optional column is the set of    *)
(* its value, {} for NULL.                                                 *)
(***************************************************************************)
EXTENDS Integers, FiniteSets, FiniteSetsExt, Sequences, SequencesExt

CONSTANTS Symbols,      \* an instrument is named by the symbol it was created with
          Times,        \* trade dates, bar starts
          Batches,      \* the payloads a run may carry
          Patches,      \* corrections: the fields an operator gives
          DelistedOn,   \* DelistedOn[i]: {} active, {d} delisted on d (0: no date)
          Actions,      \* Actions[i]: ex-dates with a 1:1 stock dividend
          ClosedDays,   \* days the legacy calendar says are closed
          StoreRuns, Editors,
          MaxCorrections \* bound

Tables == {"eod", "minute", "futures", "contract"}
Codes  == {"", "near"}             \* contract codes of futures, "" for the other tables
NoStats == [first |-> {}, latest |-> {}, close |-> {}]

VARIABLES canon,      \* canon[table][slot]: {} or {row}
          readStats,  \* readStats[table][instrument]: instrument_stats
          aliases,    \* instrument_identifiers: (source symbol) -> instrument
          known,      \* instruments
          tradingDays,\* trading_calendar rows
          dqIssues,   \* dq_issue
          storeRuns,  \* ingestion_run status
          edits,      \* edits[e]: an editor's open correction
          audits,     \* canonical_correction rows
          offered,    \* offered[table][slot]: ranks of the records that passed the checks
          raced       \* instruments a correction wrote over something it had not read

storeVars == <<canon, readStats, aliases, known, tradingDays, dqIssues, storeRuns, edits, audits, offered, raced>>

Slots == Symbols \X Codes \X Times
DayOf(table, t) == IF table = "minute" THEN (t + 1) \div 2 ELSE t
Idents == UNION {{b.records[k].ident : k \in DOMAIN b.records} : b \in Batches} \ {""}
NoEdit == [kind |-> "none"]

StoreInit ==
    /\ canon = [table \in Tables |-> [s \in Slots |-> {}]]
    /\ readStats = [table \in {"eod", "minute", "futures"} |-> [i \in Symbols |-> NoStats]]
    /\ aliases = [x \in Idents |-> {}] /\ known = {} /\ tradingDays = ClosedDays
    /\ dqIssues = {} /\ storeRuns = [r \in StoreRuns |-> "queued"]
    /\ edits = [e \in Editors |-> NoEdit] /\ audits = <<>>
    /\ offered = [table \in Tables |-> [s \in Slots |-> {}]] /\ raced = {}

---------------------------------------------------------------------------
(* The rules. *)

\* _check_ohlc_high(), _check_ohlc_low(): v1 compares only when open and
\* close are both there, v2 (MarketEODV2DQValidator) every value given.
HighHolds(bar, version) ==
    IF version = 2 THEN \A h \in bar.high : \A x \in bar.open \cup bar.low \cup bar.close : h >= x
    ELSE \A h \in bar.high, o \in bar.open, c \in bar.close : h >= o /\ h >= c
LowHolds(bar, version) ==
    IF version = 2 THEN \A l \in bar.low : \A x \in bar.open \cup bar.high \cup bar.close : l <= x
    ELSE \A l \in bar.low, o \in bar.open, c \in bar.close : l <= o /\ l <= c
Sound(bar, version) ==
    HighHolds(bar, version) /\ LowHolds(bar, version) /\ \A v \in bar.volume : v >= 0

\* _check_missing_ohlc(), _check_abnormal_return(): they warn.
Missing(bar) == {} \in {bar.open, bar.high, bar.low, bar.close}
Abnormal(bar) == \E o \in bar.open, c \in bar.close : o # 0 /\ 10 * (IF c > o THEN c - o ELSE o - c) > 3 * o

\* check_corporate_action_continuity(): on an ex-date the price is compared
\* with the latest earlier close, adjusted; beyond 10 % it warns.
Continuity(cn, i, rec) ==
    LET price == IF rec.bar.close # {} THEN rec.bar.close ELSE rec.bar.open
        before == {t \in Times : t < rec.at /\ cn["eod"][<<i, "", t>>] # {}}
        prior == CHOOSE row \in cn["eod"][<<i, "", Max(before)>>] : TRUE
    IN  rec.at \in Actions[i] /\ before # {} /\
        \E p \in price, c \in prior.bar.close :
            c > 0 /\ 10 * (IF 2 * p > c THEN 2 * p - c ELSE c - 2 * p) > c

\* _check_delisted_instrument()
Delisted(i, day) == \E d \in DelistedOn[i] : day > d

\* validate_minute(): its time, zone, source and null checks are rec.form.
MinuteSound(rec) ==
    /\ rec.form = "good" /\ ~Missing(rec.bar) /\ Sound(rec.bar, 1)
    /\ \A x \in rec.bar.open \cup rec.bar.high \cup rec.bar.low \cup rec.bar.close : x >= 0

\* Faulty variant of Wins: the last writer wins.
WinsAlways(new, old) == TRUE

\* _incoming_source_wins()
Wins(new, old) == new.priority < old.priority \/ (new.priority = old.priority /\ new.fetched >= old.fetched)

---------------------------------------------------------------------------
(* One record.  The work in progress is [cn, st, al, kn, td, iss, of, seen, *)
(* failed, applied].                                                       *)

Issue(r, k, kind) == [run |-> r, at |-> k, kind |-> kind, resolved |-> FALSE]
Refused(w, new) == [w EXCEPT !.failed = @ + 1, !.iss = @ \cup new]

\* resolve_instrument(): the identifier's instrument, else the symbol's,
\* which the identifier then names; get_or_create_instrument().
Resolved(w, rec) == IF rec.ident # "" /\ w.al[rec.ident] # {} THEN CHOOSE i \in w.al[rec.ident] : TRUE ELSE rec.symbol
Registered(w, rec, i) ==
    [w EXCEPT !.kn = @ \cup {i},
              !.al = IF rec.ident = "" THEN @ ELSE [@ EXCEPT ![rec.ident] = {i}]]

\* INSERT ... ON CONFLICT DO UPDATE WHERE the incoming source wins
Applies(w, table, slot, rank) == \A row \in w.cn[table][slot] : Wins(rank, row.rank)
Upserted(w, table, slot, bar, rank) ==
    [w EXCEPT !.of[table][slot] = @ \cup {rank},
              !.cn[table][slot] = IF Applies(w, table, slot, rank) THEN {[bar |-> bar, rank |-> rank]} ELSE @]

\* update_instrument_stats() and _update_minute_instrument_stats(): LEAST of
\* the first, and the latest with its close when it is not older.
StatsAfter(old, first, latest, close) ==
    [first |-> {Min(old.first \cup {first})},
     latest |-> IF \A t \in old.latest : latest >= t THEN {latest} ELSE old.latest,
     close |-> IF \A t \in old.latest : latest >= t THEN close ELSE old.close]

\* map_fields() leaves out an item without a symbol or a date.
EodMapped(rec) == rec.form # "skipped"
MinuteMapped(rec) == rec.form # "skipped"

\* An unexpected exception fails its record alone (_build_processing_error_issue()).
ProcessingError(r, k) == Issue(r, k, "processing")

\* get_or_create_trading_day(): a day nobody has listed is open; a closed one stays.
Observed(days, d) == days \cup {d}

\* BaseNormalizer.process(): one EOD record.
EodRecord(r, b, w, k) ==
    LET rec == b.records[k]
        key == <<rec.symbol, rec.at>>
        wrong == (IF key \in w.seen THEN {Issue(r, k, "duplicate")} ELSE {})
                 \cup (IF Sound(rec.bar, b.version) THEN {} ELSE {Issue(r, k, "ohlc")})
        warned == (IF Missing(rec.bar) THEN {Issue(r, k, "missing")} ELSE {})
                  \cup (IF Abnormal(rec.bar) THEN {Issue(r, k, "abnormal")} ELSE {})
        v == [w EXCEPT !.seen = @ \cup {key}]
        i == Resolved(v, rec)
        reg == Registered(v, rec, i)
        more == IF Continuity(reg.cn, i, rec) THEN {Issue(r, k, "continuity")} ELSE {}
        noted == [reg EXCEPT !.td = Observed(@, rec.at), !.iss = @ \cup warned \cup more]
        rank == [priority |-> b.priority, fetched |-> b.fetched]
        slot == <<i, "", rec.at>>
        put == Upserted(noted, "eod", slot, rec.bar, rank)
    IN  IF ~EodMapped(rec) THEN w
        ELSE IF wrong # {} THEN Refused(v, wrong \cup warned)
        ELSE IF rec.form = "raises" THEN Refused(reg, {ProcessingError(r, k)})
        ELSE IF Delisted(i, rec.at) THEN Refused(reg, warned \cup {Issue(r, k, "delisted")})
        ELSE IF Applies(noted, "eod", slot, rank)
             THEN [put EXCEPT !.st["eod"][i] = StatsAfter(@, rec.at, rec.at, rec.bar.close)]
             ELSE [put EXCEPT !.rejected = @ + 1]

\* MarketMinuteContractNormalizer.process(): every copy of a repeated bar is
\* refused; the statistics wait for the end of the batch.
MinuteRecord(r, b, w, k) ==
    LET rec == b.records[k]
        twice == \E j \in DOMAIN b.records \ {k} :
                    b.records[j].symbol = rec.symbol /\ b.records[j].at = rec.at /\ MinuteMapped(b.records[j])
        i == Resolved(w, rec)
        reg == Registered(w, rec, i)
        noted == [reg EXCEPT !.td = Observed(@, DayOf("minute", rec.at))]
        rank == [priority |-> b.priority, fetched |-> b.fetched]
        slot == <<i, "", rec.at>>
        put == Upserted(noted, "minute", slot, rec.bar, rank)
    IN  IF ~MinuteMapped(rec) THEN w
        ELSE IF twice \/ ~MinuteSound(rec) THEN Refused(w, {Issue(r, k, "minute")})
        ELSE IF Delisted(i, DayOf("minute", rec.at)) THEN Refused(reg, {Issue(r, k, "delisted")})
        ELSE IF Applies(noted, "minute", slot, rank)
             THEN [put EXCEPT !.applied = Append(@, [instrument |-> i, at |-> rec.at, close |-> rec.bar.close])]
             ELSE [put EXCEPT !.rejected = @ + 1]

\* ... and _update_minute_instrument_stats() once per instrument, with the
\* first, the latest and the close of the last bar applied at the latest.
MinuteStats(w) ==
    LET of(i) == SelectSeq(w.applied, LAMBDA a : a.instrument = i)
        ats(i) == {of(i)[k].at : k \in DOMAIN of(i)}
        last(i) == Max({k \in DOMAIN of(i) : of(i)[k].at = Max(ats(i))})
    IN  [w EXCEPT !.st["minute"] = [i \in Symbols |->
            IF ats(i) = {} THEN @[i] ELSE StatsAfter(@[i], Min(ats(i)), Max(ats(i)), of(i)[last(i)].close)]]

\* FuturesEODContractNormalizer.process(): the contract row, then its quote,
\* each against its own rank; only dates in the statistics.
FuturesRecord(r, b, w, k) ==
    LET rec == b.records[k]
        rank == [priority |-> b.priority, fetched |-> b.fetched]
        i == rec.symbol
        code == "near"
        held == Upserted([w EXCEPT !.kn = @ \cup {i}], "contract", <<i, code, Min(Times)>>, rec.bar, rank)
        slot == <<i, code, rec.at>>
        put == Upserted(held, "futures", slot, rec.bar, rank)
        old == w.st["futures"][i]
    IN  IF rec.form # "good" THEN Refused(w, {Issue(r, k, "futures")})
        ELSE IF Applies(held, "futures", slot, rank)
             THEN [put EXCEPT !.st["futures"][i] = [first |-> {Min(old.first \cup {rec.at})},
                                                    latest |-> {Max(old.latest \cup {rec.at})}, close |-> {}]]
             ELSE [put EXCEPT !.rejected = @ + 1]

\* record_precedence_rejection_summary(): one warning for what precedence refused.
PrecedenceNoted(w, r) == IF w.rejected = 0 THEN w ELSE [w EXCEPT !.iss = @ \cup {Issue(r, 0, "precedence")}]

\* process(): every record in order.
Normalized(r, b) ==
    LET start == [cn |-> canon, st |-> readStats, al |-> aliases, kn |-> known, td |-> tradingDays,
                  iss |-> dqIssues, of |-> offered, seen |-> {}, failed |-> 0, rejected |-> 0, applied |-> <<>>]
        step(w, k) == CASE b.table = "eod" -> EodRecord(r, b, w, k)
                        [] b.table = "minute" -> MinuteRecord(r, b, w, k)
                        [] b.table = "futures" -> FuturesRecord(r, b, w, k)
    IN  PrecedenceNoted(MinuteStats(FoldLeft(step, start, [k \in DOMAIN b.records |-> k])), r)

\* Runs are numbered in the order in which they end.
NextRun(r) == storeRuns[r] = "queued" /\ \A q \in StoreRuns : q < r => storeRuns[q] # "queued"

Normalize(r) ==
    /\ NextRun(r)
    /\ \E b \in Batches :
          LET w == Normalized(r, b) IN
          /\ canon' = w.cn /\ readStats' = w.st /\ aliases' = w.al /\ known' = w.kn
          /\ tradingDays' = w.td /\ dqIssues' = w.iss /\ offered' = w.of
          /\ storeRuns' = [storeRuns EXCEPT ![r] = IF w.failed = 0 THEN "completed" ELSE "completed_with_errors"]
    /\ UNCHANGED <<edits, audits, raced>>

\* ensure_eod_partition() or the database fails: rollback, nothing written.
NormalizeFails(r) ==
    /\ NextRun(r) /\ storeRuns' = [storeRuns EXCEPT ![r] = "failed"]
    /\ UNCHANGED <<canon, readStats, aliases, known, tradingDays, dqIssues, edits, audits, offered, raced>>

---------------------------------------------------------------------------
(* Corrections. *)

\* patch_eod_record() loads the row, merges the patch and checks the result;
\* an empty or idle patch and one that breaks a rule are refused.
Merged(bar, patch) == [f \in DOMAIN bar |-> IF f \in DOMAIN patch THEN patch[f] ELSE bar[f]]
MayEdit(e) ==
    edits[e].kind = "none" /\ Len(audits) + Cardinality({x \in Editors : edits[x].kind # "none"}) < MaxCorrections
ReadRow(e) ==
    /\ MayEdit(e)
    /\ \E s \in Slots, patch \in Patches : \E row \in canon["eod"][s] :
          /\ Merged(row.bar, patch) # row.bar
          /\ Sound(Merged(row.bar, patch), 1)
          /\ edits' = [edits EXCEPT ![e] = [kind |-> "row", slot |-> s, read |-> row, patch |-> patch]]
    /\ UNCHANGED <<canon, readStats, aliases, known, tradingDays, dqIssues, storeRuns, audits, offered, raced>>

\* The UPDATE writes the changed columns of whatever the row is now;
\* _update_stats_after_eod_patch() uses the close of the row as merged.
WritesOver(e, row) == row # edits[e].read
PatchRow(e) ==
    /\ edits[e].kind = "row"
    /\ LET s == edits[e].slot
           row == CHOOSE x \in canon["eod"][s] : TRUE
           seen == Merged(edits[e].read.bar, edits[e].patch)
           changed == [f \in {g \in DOMAIN edits[e].patch : seen[g] # edits[e].read.bar[g]} |-> seen[f]]
       IN  /\ canon' = [canon EXCEPT !["eod"][s] = {[row EXCEPT !.bar = Merged(@, changed)]}]
           /\ readStats' = [readStats EXCEPT !["eod"][s[1]] = StatsAfter(@, s[3], s[3], seen.close)]
           /\ raced' = IF WritesOver(e, row) THEN raced \cup {s[1]} ELSE raced
    /\ audits' = Append(audits, "row")
    /\ edits' = [edits EXCEPT ![e] = NoEdit]
    /\ UNCHANGED <<aliases, known, tradingDays, dqIssues, storeRuns, offered>>

\* resolve_dq_issue(): reads the open issue, then marks it with an audit row.
ReadIssue(e) ==
    /\ MayEdit(e)
    /\ \E x \in dqIssues : /\ ~x.resolved
                           /\ edits' = [edits EXCEPT ![e] = [kind |-> "issue", issue |-> x]]
    /\ UNCHANGED <<canon, readStats, aliases, known, tradingDays, dqIssues, storeRuns, audits, offered, raced>>
ResolveIssue(e) ==
    /\ edits[e].kind = "issue"
    /\ LET x == edits[e].issue IN
       /\ dqIssues' = (dqIssues \ {x}) \cup {[x EXCEPT !.resolved = TRUE]}
       /\ audits' = Append(audits, "issue")
    /\ edits' = [edits EXCEPT ![e] = NoEdit]
    /\ UNCHANGED <<canon, readStats, aliases, known, tradingDays, storeRuns, offered, raced>>

StoreNext ==
    \/ \E r \in StoreRuns : Normalize(r) \/ NormalizeFails(r)
    \/ \E e \in Editors : ReadRow(e) \/ PatchRow(e) \/ ReadIssue(e) \/ ResolveIssue(e)
StoreSpec == StoreInit /\ [][StoreNext]_storeVars

---------------------------------------------------------------------------
(* Properties. *)

StoreTypeOK ==
    /\ \A table \in Tables : \A s \in Slots : Cardinality(canon[table][s]) <= 1
    /\ known \subseteq Symbols /\ raced \subseteq known
    /\ \A x \in Idents : Cardinality(aliases[x]) <= 1 /\ aliases[x] \subseteq known
    /\ \A r \in StoreRuns : storeRuns[r] \in {"queued", "failed", "completed", "completed_with_errors"}

\* Whatever the order in which runs of different sources and fetch times are
\* processed, the row that stays is one of the best rank ever offered for its
\* key (_incoming_source_wins()); a late, worse run never takes it over.
RowIsBest ==
    \A table \in Tables : \A s \in Slots :
        /\ (canon[table][s] = {}) = (offered[table][s] = {})
        /\ \A row \in canon[table][s] :
              /\ row.rank \in offered[table][s]
              /\ \A other \in offered[table][s] :
                    ~(other.priority < row.rank.priority
                      \/ (other.priority = row.rank.priority /\ other.fetched > row.rank.fetched))

\* The statistics the list endpoints read agree with the rows: first and
\* latest date and the close at the latest, whatever order the dates arrive
\* in, except for an instrument whose correction wrote over a newer run.
StatsFollowRows ==
    \A table \in {"eod", "minute", "futures"} : \A i \in Symbols \ raced :
        LET code == IF table = "futures" THEN "near" ELSE ""
            at == {t \in Times : canon[table][<<i, code, t>>] # {}}
            st == readStats[table][i]
        IN  IF at = {} THEN st = NoStats
            ELSE /\ st.first = {Min(at)} /\ st.latest = {Max(at)}
                 /\ table # "futures" =>
                       \A row \in canon[table][<<i, code, Max(at)>>] : st.close = row.bar.close

\* No stored row breaks a blocking rule: not the ones a run wrote, and not
\* the ones a correction made of them unless it raced a run.
RowsSound ==
    \A s \in Slots : s[1] \notin raced =>
        \A row \in canon["eod"][s] \cup canon["minute"][s] :
            /\ \A o \in row.bar.open, c \in row.bar.close :
                  (\A h \in row.bar.high : h >= Max({o, c})) /\ (\A l \in row.bar.low : l <= Min({o, c}))
            /\ \A v \in row.bar.volume : v >= 0
=============================================================================
