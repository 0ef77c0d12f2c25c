-------------------------- MODULE ProviderAdapters --------------------------
(***************************************************************************)
(* How the fetcher's provider adapters turn what a provider says into the  *)
(* request of a member (fetcher/src/findb_fetcher/providers/, the wrapper  *)
(* durable_response of provider_work.py, and _acquire of                   *)
(* full_market_runtime.py): Twelve Data, FinLab, Shioaji and TAIFEX.       *)
(*                                                                         *)
(* A provider may say something else every time it is asked, and the       *)
(* process may be lost between the answer, the journal and the request.    *)
(* An answer is a record [kind, meta, rows]; a row [day, id, form, value]. *)
(* FinLab's five field tables are represented by two, "high" and "low":    *)
(* every check across tables relates two of them.                          *)
(***************************************************************************)
EXTENDS Naturals, Sequences, FiniteSets, SequencesExt

CONSTANTS Adapters,    \* the adapters, of which a behaviour is of one
          Members,     \* Members[s]: the members of an adapter's work
          Answers,     \* Answers[s]: what the provider may answer, by table
          OldAnswers,  \* OldAnswers[s]: what older releases may have journalled
          Products,    \* TAIFEX products, in the order they are asked for
          Day,         \* the target trade date
          MaxCalls,    \* bound on the calls for one table
          MaxCrashes   \* bound on lost processes

VARIABLES style,     \* the adapter
          saved,     \* work_response: what may be replayed, by table
          legacy,    \* the same under the key without validation
          old,       \* the same under the key without a request basis
          evidence,  \* work_response_observation: what was rejected
          pc, member, hand, answer,  \* _acquire: where it is, for whom, its tables
          built,     \* every row set a request was built from, by member
          sent,      \* members whose request is prepared
          told,      \* why the last acquisition of a member ended
          cooling,   \* the account was told to wait
          calls,     \* calls made for each table
          crashes

adapterVars == <<style, saved, legacy, old, evidence, pc, member, hand, answer, built,
                 sent, told, cooling, calls, crashes>>

Nothing == << >>
Tables == DOMAIN Answers[style]
Days(rows) == {rows[i].day : i \in DOMAIN rows}
Forms(rows) == {rows[i].form : i \in DOMAIN rows}
Distinct(rows) == \A i, j \in DOMAIN rows : i # j => <<rows[i].day, rows[i].id>> # <<rows[j].day, rows[j].id>>
OfDay(row) == row.day = Day

-----------------------------------------------------------------------------
(* What a table is, and when it may be replayed.                           *)

\* A frame of the SDK narrowed to the reviewed symbols and, when it is there,
\* to the target date.
Reviewed(row) == row.id \in Members[style]
TableFromDataframe(frame) ==
    LET rows == SelectSeq(frame.rows, Reviewed)
    IN  [frame EXCEPT !.rows = IF Day \in Days(rows) THEN SelectSeq(rows, OfDay) ELSE rows]

\* What the adapter's method returns for an answer; the rest raises.
Value(a) == IF style = "finlab" THEN TableFromDataframe(a) ELSE a
Returns(a) ==
    \/ /\ a.kind = "rows"
       /\ style = "finlab" => /\ Distinct(a.rows)
                              /\ Members[style] \subseteq {a.rows[i].id : i \in DOMAIN a.rows}
    \/ a.kind = "garbled" /\ style = "taifex"

InScope(row) == row.id.product \in Range(Products)

\* A report of actual contracts of the date, each with a known session, once,
\* and not before its regular session is published.
ParseReport(a) ==
    LET rows == SelectSeq(a.rows, InScope) IN
    /\ a.kind = "rows"
    /\ rows # << >>
    /\ Days(rows) = {Day}
    /\ Distinct(rows)
    /\ "text" \notin Forms(rows)
    /\ \A i \in DOMAIN rows : rows[i].id.session \in {"regular", "after_hours"}
    /\ \E i \in DOMAIN rows : rows[i].id.session = "regular"

TargetRowsPresent(v) == Day \in Days(v.rows)
KbarsTargetValid(v) == v.rows # << >> /\ Days(v.rows) = {Day}
TargetReportPresent(t, v) ==
    /\ ParseReport(v)
    /\ \A i \in DOMAIN v.rows : InScope(v.rows[i]) => v.rows[i].id.product = t

\* The latest TAIFEX report is journalled as an official snapshot of its URL,
\* which has no validity check.
TargetValid(t, v) ==
    CASE style = "twelve_data" -> TargetRowsPresent(v)
      [] style = "finlab" -> Days(v.rows) = {Day}
      [] style = "shioaji" -> KbarsTargetValid(v)
      [] OTHER -> t = "latest" \/ TargetReportPresent(t, v)

\* Bytes of this work that are replayed instead of asking again.
Replayable(t) == IF saved[t] # {} THEN saved[t] ELSE {v \in legacy[t] : TargetValid(t, v)}

\* Only bytes from before the present request basis are there.
PreBasis(t) == old[t] # {} /\ saved[t] = {} /\ legacy[t] = {}

-----------------------------------------------------------------------------
(* What becomes of the tables of a member.                                 *)

\* The table that is asked for next: the member's own, FinLab's fields in
\* turn, the latest TAIFEX report and after one of another date the dated
\* reports of all products.
Wanted ==
    CASE style \in {"twelve_data", "shioaji"} -> <<member>>
      [] style = "finlab" -> <<"high", "low">>
      [] OTHER -> IF "latest" \in DOMAIN hand /\ ~ParseReport(hand["latest"])
                  THEN <<"latest">> \o Products ELSE <<"latest">>
Missing == SelectSeq(Wanted, LAMBDA t : t \notin DOMAIN hand)

BadPrices == {"text", "crossed"}
Payload == [outcome |-> "payload", rows |-> << >>]
Built(rows) == [outcome |-> "request", rows |-> rows]

\* One row per date, all of them checked, and of them the target date's.
DailyRequest(v) ==
    LET rows == SelectSeq(v.rows, OfDay) IN
    IF \/ v.meta # member \/ v.rows = << >> \/ ~Distinct(v.rows)
       \/ Forms(v.rows) \cap BadPrices # {}
    THEN Payload
    ELSE IF rows = << >> THEN [outcome |-> "no_data", rows |-> << >>] ELSE Built(rows)

\* An unusable volume becomes an anomaly beside a row without volume; lots
\* that are no whole number of shares do not.
MinuteRow(row) == IF row.form = "odd" THEN [row EXCEPT !.form = "anomaly"] ELSE row
MinuteRequest(v) ==
    IF v.rows = << >> THEN [outcome |-> "empty", rows |-> << >>]
    ELSE IF \/ Days(v.rows) # {Day} \/ ~Distinct(v.rows)
            \/ Forms(v.rows) \cap (BadPrices \cup {"fraction"}) # {}
    THEN Payload
    ELSE Built([i \in DOMAIN v.rows |-> MinuteRow(v.rows[i])])

\* The member's cell of every field: the grids agree and the bounds hold.
Cell(field) == SelectSeq(hand[field].rows, LAMBDA row : row.id = member)
BundleRequest ==
    LET high == Cell("high") low == Cell("low") IN
    IF \/ Len(high) # 1 \/ Len(low) # 1
       \/ "text" \in Forms(high) \cup Forms(low) \/ high[1].value < low[1].value
    THEN Payload
    ELSE Built(<<[high[1] EXCEPT !.value = <<high[1].value, low[1].value>>]>>)

\* The member's contract and session in the report, or in all dated reports.
Report == IF ParseReport(hand["latest"]) THEN hand["latest"].rows
          ELSE FlattenSeq([i \in DOMAIN Products |-> hand[Products[i]].rows])
ContractRequest ==
    LET rows == SelectSeq(Report, LAMBDA row : row.id = member) IN
    CASE Len(rows) # 1 -> [outcome |-> "blocked", rows |-> << >>]
      [] Len(rows) = 1 /\ rows[1].form = "void" -> [outcome |-> "no_trade", rows |-> << >>]
      [] Len(rows) = 1 /\ rows[1].form = "blank" -> [outcome |-> "blocked", rows |-> << >>]
      [] OTHER -> Built(rows)

Mapped ==
    CASE style = "twelve_data" -> DailyRequest(hand[member])
      [] style = "shioaji" -> MinuteRequest(hand[member])
      [] style = "finlab" -> BundleRequest
      [] OTHER -> ContractRequest

\* The failure a caller is told of a call that returned nothing.
Category(a) ==
    CASE a.kind = "limited" -> "rate_limited"
      [] a.kind = "garbled" -> "malformed_response"
      [] a.kind = "rows" -> "payload"
      [] OTHER -> "operational"

-----------------------------------------------------------------------------
AdapterInit ==
    /\ style \in Adapters
    /\ saved = [t \in Tables |-> {}]
    /\ \E t \in Tables, L \in OldAnswers[style], O \in OldAnswers[style] :
          /\ legacy = [u \in Tables |-> IF u = t /\ u # "latest" THEN L ELSE {}]
          /\ old = [u \in Tables |-> IF u = t /\ style = "twelve_data" THEN O ELSE {}]
    /\ evidence = {}
    /\ pc = "idle" /\ member = Nothing /\ hand = Nothing /\ answer = Nothing
    /\ built = [m \in Members[style] |-> {}]
    /\ sent = {}
    /\ told = [m \in Members[style] |-> "none"]
    /\ cooling = FALSE
    /\ calls = [t \in Tables |-> 0]
    /\ crashes = 0

\* FinLab's bundle and the TAIFEX report stay in the process for its members;
\* a bundle or report that is not whole does not.
Cached == IF style \in {"finlab", "taifex"} /\ Missing = << >> THEN hand ELSE Nothing

Ends(reason, kept) ==
    /\ pc' = "idle" /\ hand' = kept /\ answer' = Nothing
    /\ told' = [told EXCEPT ![member] = reason]
    /\ UNCHANGED member

BeginAcquire(m) ==
    /\ pc = "idle"
    /\ m \notin sent
    /\ pc' = "fetch" /\ member' = m
    /\ UNCHANGED <<style, saved, legacy, old, evidence, hand, answer, built, sent, told,
                   cooling, calls, crashes>>

\* Bytes of another request basis: kept as evidence, and the work is left to
\* an operator; the provider is not asked.
RequireCurrentBasis ==
    LET t == Head(Missing) IN
    /\ pc = "fetch" /\ Missing # << >> /\ PreBasis(t)
    /\ evidence' = evidence \cup {<<t, "incompatible_basis", v>> : v \in old[t]}
    /\ Ends("basis", Nothing)
    /\ UNCHANGED <<style, saved, legacy, old, built, sent, cooling, calls, crashes>>

Replay ==
    LET t == Head(Missing) IN
    /\ pc = "fetch" /\ Missing # << >>
    /\ \E v \in Replayable(t) :
          /\ saved' = [saved EXCEPT ![t] = {v}]
          /\ hand' = [u \in DOMAIN hand \cup {t} |-> IF u = t THEN v ELSE hand[u]]
    /\ UNCHANGED <<style, legacy, old, evidence, pc, member, answer, built, sent, told,
                   cooling, calls, crashes>>

\* The observation guard of Shioaji lets no call through (MemberDelivery).
ObservationWait ==
    /\ pc = "fetch" /\ style = "shioaji" /\ Missing # << >>
    /\ Replayable(Head(Missing)) = {}
    /\ Ends("wait", Nothing)
    /\ evidence' = evidence \cup {<<Head(Missing), "legacy_cache", v>> : v \in legacy[Head(Missing)]}
    /\ UNCHANGED <<style, saved, legacy, old, built, sent, cooling, calls, crashes>>

\* The native call: a 429 is remembered for the account before its body is read.
CallProvider(a) ==
    LET t == Head(Missing) IN
    /\ pc = "fetch" /\ Missing # << >>
    /\ a \in Answers[style][t]
    /\ Replayable(t) = {} /\ ~PreBasis(t)
    /\ ~cooling
    /\ calls[t] < MaxCalls
    /\ calls' = [calls EXCEPT ![t] = @ + 1]
    /\ evidence' = evidence \cup {<<t, "legacy_cache", v>> : v \in legacy[t]}
    /\ cooling' = (a.kind = "limited")
    /\ pc' = "answered" /\ answer' = a
    /\ UNCHANGED <<style, saved, legacy, old, member, hand, built, sent, told, crashes>>

CallRaises ==
    /\ pc = "answered" /\ ~Returns(answer)
    /\ Ends(Category(answer), Nothing)
    /\ UNCHANGED <<style, saved, legacy, old, evidence, built, sent, cooling, calls, crashes>>

\* A FinLab table of another date and an unfinished dated report end the
\* acquisition; the mapper of the others says what is wrong.
NotReady(t, v) ==
    \/ style = "finlab" /\ ~TargetValid(t, v)
    \/ style = "taifex" /\ t # "latest" /\ ~TargetReportPresent(t, v)

\* Only an answer about the target becomes what is replayed.
KeepResponse ==
    LET t == Head(Missing)
        v == Value(answer)
    IN
    /\ pc = "answered" /\ Returns(answer)
    /\ IF TargetValid(t, v)
       THEN /\ saved' = [saved EXCEPT ![t] = IF @ = {} THEN {v} ELSE @]
            /\ UNCHANGED evidence
       ELSE /\ evidence' = evidence \cup {<<t, "native", v>>}
            /\ UNCHANGED saved
    /\ IF NotReady(t, v)
       THEN Ends("not_ready", Nothing)
       ELSE /\ pc' = "fetch"
            /\ hand' = [u \in DOMAIN hand \cup {t} |-> IF u = t THEN v ELSE hand[u]]
            /\ answer' = Nothing
            /\ UNCHANGED <<member, told>>
    /\ UNCHANGED <<style, legacy, old, built, sent, cooling, calls, crashes>>

\* The tables are persisted as raw objects and mapped to the member's request.
BuildRequest ==
    /\ pc = "fetch" /\ Missing = << >>
    /\ IF Mapped.outcome = "request"
       THEN /\ pc' = "built"
            /\ built' = [built EXCEPT ![member] = @ \cup {Mapped.rows}]
            /\ UNCHANGED <<member, hand, answer, told>>
       ELSE Ends(Mapped.outcome, Cached) /\ UNCHANGED built
    /\ UNCHANGED <<style, saved, legacy, old, evidence, sent, cooling, calls, crashes>>

\* The request becomes the member's prepared body (MemberDelivery).
PrepareRequest ==
    /\ pc = "built"
    /\ sent' = sent \cup {member}
    /\ Ends("request", Cached)
    /\ UNCHANGED <<style, saved, legacy, old, evidence, built, cooling, calls, crashes>>

\* The process is lost; the journal stays.
AdapterDies ==
    /\ pc # "idle" \/ hand # Nothing
    /\ crashes < MaxCrashes
    /\ crashes' = crashes + 1
    /\ pc' = "idle" /\ member' = Nothing /\ hand' = Nothing /\ answer' = Nothing
    /\ UNCHANGED <<style, saved, legacy, old, evidence, built, sent, told, cooling, calls>>

CoolingEnds ==
    /\ cooling /\ cooling' = FALSE
    /\ UNCHANGED <<style, saved, legacy, old, evidence, pc, member, hand, answer, built, sent,
                   told, calls, crashes>>

AdapterNext ==
    \/ \E m \in Members[style] : BeginAcquire(m)
    \/ RequireCurrentBasis \/ Replay \/ ObservationWait
    \/ \E t \in Tables : \E a \in Answers[style][t] : CallProvider(a)
    \/ CallRaises \/ KeepResponse \/ BuildRequest \/ PrepareRequest
    \/ AdapterDies \/ CoolingEnds

-----------------------------------------------------------------------------
(* Properties.                                                             *)

AdapterTypeOK ==
    /\ style \in Adapters
    /\ pc \in {"idle", "fetch", "answered", "built"}
    /\ \A t \in Tables : Cardinality(saved[t]) <= 1 /\ calls[t] \in 0 .. MaxCalls
    /\ DOMAIN hand \subseteq Tables
    /\ sent \subseteq Members[style] /\ DOMAIN told = Members[style]
    /\ cooling \in BOOLEAN /\ crashes \in 0 .. MaxCrashes

\* However often the process is lost and whatever the provider says when it is
\* asked again, the request of a member is built from the same rows every
\* time, so its identity, which is their checksum, stays the same.
RebuiltAlike == \A m \in Members[style] : Cardinality(built[m]) <= 1

\* A request has rows, of the target date alone, one per identity and, but for
\* TAIFEX, none that contradicts itself, and what it was built from is what
\* the journal replays.
RequestsSound ==
    \A m \in Members[style] : \A rows \in built[m] :
        /\ rows # << >>
        /\ Days(rows) = {Day}
        /\ Distinct(rows)
        /\ style # "taifex" => Forms(rows) \cap BadPrices = {}
        /\ style \in {"twelve_data", "shioaji"} => saved[m] # {}

\* Rejected answers never become what is replayed, and bytes of an older
\* request basis are neither delivered nor quietly fetched again.
JournalSound ==
    \A t \in Tables :
        /\ \A v \in saved[t] : TargetValid(t, v) /\ \A e \in evidence : e[1] = t => e[3] # v
        /\ PreBasis(t) => calls[t] = 0
=============================================================================
