----------------------- MODULE StagedDelivery_proofs -----------------------
(***************************************************************************)
(* Machine-checked safety of StagedDelivery for every universe, every      *)
(* assignment of datasets and every call limit: whatever step the          *)
(* coordinator stops at, the provider is called within the budgets, Source *)
(* is shown one body of a symbol, and completed means completed.           *)
(***************************************************************************)
EXTENDS StagedDelivery, FiniteSetTheorems, SequenceTheorems, TLAPS

---------------------------------------------------------------------------
(* The inductive invariant. *)

\* Where the process is, or will be once the statuses are refreshed.
Where == IF process.pc = "refresh" THEN process.then ELSE process.pc

\* A process that runs is at a symbol of the universe.
PlaceOK ==
    /\ process.pc # "idle" => process.at \in 1 .. Len(Universe)
    /\ process.pc = "refresh" => process.then \in {"next", "over", "prepare", "send"}

\* Every call that left the host is among the counted ones, of which there are
\* no more than the limits say; a call under way is the last one recorded.
BudgetKept ==
    /\ \A s \in Symbols :
          /\ IsFiniteSet(CountedCalls(s)) /\ BudgetUsed(s) <= CallLimit
          /\ \A k \in DOMAIN asked[s] : asked[s][k].left => Counted(asked[s][k])
    /\ IsFiniteSet(WindowCalls) /\ WindowUsed <= WindowLimit
    /\ process.pc = "call" => /\ asked[Symbol] # <<>>
                              /\ Counted(asked[Symbol][Len(asked[Symbol])])

\* An object exists only of a symbol whose intent to upload is recorded.
UploadsOK ==
    /\ \A s \in Symbols : uploads[s] <= 1 /\ (sequences[s].raw = "none" => uploads[s] = 0)
    /\ Where = "upload" => uploads[Symbol] = 0 /\ Row.raw = "uploading"

\* The body of a symbol that a new process would use: a historical item has
\* it from Source, a recurring run from its own row.
Known(s) == IF historical THEN retained[s] ELSE sequences[s].body

\* Source has been shown nothing but the known body, the row has no other, a
\* new one is made only while none is known, and what is sent is known.
BodiesOK ==
    /\ \A s \in Symbols : /\ offered[s] \subseteq {Known(s)} \ {0}
                          /\ sequences[s].body \in {0, Known(s)}
    /\ Where \in {"upload", "save_raw", "prepare"} => Known(Symbol) = 0
    /\ Where = "keep" => /\ process.body # 0 /\ Row.body = 0
                         /\ historical => process.body = retained[Symbol]
    /\ Where = "send" => process.body # 0 /\ process.body = Known(Symbol)

\* A row reads completed only when Source's run completed.
AcceptedOK ==
    /\ \A s \in Symbols : sequences[s].terminal = "completed" => settledAs[s] = "completed"
    /\ CompletedMeansAccepted

StageInv == StoredTypeOK /\ DayTypeOK /\ PlaceOK /\ BudgetKept /\ UploadsOK /\ BodiesOK /\ AcceptedOK

---------------------------------------------------------------------------
(* The parts of a state. *)

\* A running process has a symbol, whose row is a row.
LEMMA AtSymbol ==
  ASSUME StoredTypeOK, PlaceOK, process.pc # "idle"
  PROVE  Symbol \in Symbols /\ Row \in SequenceRows
<1>1. process.at \in DOMAIN Universe
  BY StageAssumption DEF PlaceOK
<1>2. Symbol \in Symbols
  BY <1>1 DEF Symbol, Symbols
<1> QED BY <1>2 DEF Row, StoredTypeOK

\* No process is a process.
LEMMA RestingProcess == NoProcess \in Coordinators /\ NoProcess.pc = "idle" /\ NoProcess.body = 0
BY StageAssumption DEF NoProcess, Coordinators, Stages, Modes

\* Going on to a stage leaves the symbol, the mode and the body alone.
LEMMA GoneTo ==
  ASSUME StoredTypeOK, NEW x \in Stages \ {"next", "over"}
  PROVE  /\ Goto(x) \in Coordinators /\ Goto(x).pc = x /\ Goto(x).at = process.at
         /\ Goto(x).body = process.body
BY DEF Goto, StoredTypeOK, Coordinators

\* The same with the body it is to use.
LEMMA GoneWith ==
  ASSUME StoredTypeOK, NEW x \in Stages \ {"next", "over"}, NEW b \in Nat
  PROVE  LET q == [Goto(x) EXCEPT !.body = b]
         IN  q \in Coordinators /\ q.pc = x /\ q.at = process.at /\ q.body = b
BY DEF Goto, StoredTypeOK, Coordinators

\* The next symbol of the universe, or the end of the run.
LEMMA GoneNext ==
  ASSUME StoredTypeOK, PlaceOK, process.pc # "idle"
  PROVE  /\ NextRow \in Coordinators /\ NextRow.pc \in {"row", "idle"}
         /\ NextRow.pc = "row" => NextRow.at \in 1 .. Len(Universe)
<1>1. CASE process.at < LastRow
  <2>1. process.at + 1 \in 1 .. Len(Universe)
    BY <1>1, StageAssumption DEF LastRow, StoredTypeOK, Coordinators, PlaceOK
  <2>2. NextRow = [process EXCEPT !.pc = "row", !.at = process.at + 1, !.body = 0]
    BY <1>1 DEF NextRow
  <2>3. process.at + 1 \in 0 .. Len(Universe) /\ 0 \in Nat
    BY <2>1
  <2>4. NextRow \in Coordinators /\ NextRow.pc = "row" /\ NextRow.at = process.at + 1
    BY <2>2, <2>3 DEF StoredTypeOK, Coordinators, Stages
  <2> QED BY <2>1, <2>4
<1>2. CASE ~(process.at < LastRow)
  BY <1>2, RestingProcess DEF NextRow, Over
<1> QED BY <1>1, <1>2

\* A row of the process's symbol is saved; the statuses are refreshed next.
LEMMA Saving ==
  ASSUME StoredTypeOK, PlaceOK, process.pc # "idle", NEW q \in SequenceRows, NEW then \in Stages,
         Save(q, then)
  PROVE  /\ sequences' \in [Symbols -> SequenceRows] /\ sequences'[Symbol] = q
         /\ \A s \in Symbols : s # Symbol => sequences'[s] = sequences[s]
         /\ process' \in Coordinators /\ process'.pc = "refresh" /\ process'.then = then
         /\ process'.at = process.at /\ process'.body = process.body /\ statuses' = statuses
<1>1. Symbol \in Symbols
  BY AtSymbol
<1>2. process' \in Coordinators /\ process'.pc = "refresh" /\ process'.then = then
         /\ process'.at = process.at /\ process'.body = process.body
  BY DEF Save, StoredTypeOK, Coordinators, Stages
<1> QED BY <1>1, <1>2 DEF Save, StoredTypeOK

\* A row that ends keeps everything but its end, its status and its lease.
LEMMA Ending ==
  ASSUME NEW q \in SequenceRows, NEW code \in Codes
  PROVE  /\ Terminal(q, code) \in SequenceRows /\ Terminal(q, code).terminal = code
         /\ Terminal(q, code).raw = q.raw /\ Terminal(q, code).body = q.body
<1>1. 0 \in 0 .. 2
  OBVIOUS
<1>2. Terminal(q, code) \in SequenceRows
  BY <1>1, Zenon DEF Terminal, SequenceRows
<1>3. /\ Terminal(q, code).terminal = code
      /\ Terminal(q, code).raw = q.raw /\ Terminal(q, code).body = q.body
  BY DEF Terminal, SequenceRows
<1> QED BY <1>2, <1>3

\* The statuses are statuses, and one reads completed only when every row of
\* it ended so.
LEMMA RefreshedStatuses ==
  ASSUME NEW seqs
  PROVE  /\ Refreshed(seqs) \in [Datasets \cup {"daily"} -> {"pending", "running", "completed", "failed"}]
         /\ \A d \in Datasets \cup {"daily"} : Refreshed(seqs)[d] = "completed" =>
               \A s \in Symbols : d = "daily" \/ DatasetOf[s] = d => seqs[s].terminal = "completed"
<1>1. \A d : DatasetStatus(seqs, d) \in {"pending", "running", "completed", "failed"}
  BY DEF DatasetStatus, Aggregate
<1>2. \A d : DatasetStatus(seqs, d) = "completed" =>
         \A s \in Symbols : DatasetOf[s] = d => seqs[s].terminal = "completed"
  <2> SUFFICES ASSUME NEW d, DatasetStatus(seqs, d) = "completed",
                      NEW s \in Symbols, DatasetOf[s] = d
               PROVE  seqs[s].terminal = "completed"
    OBVIOUS
  <2>1. {SequenceState(seqs[x]) : x \in {y \in Symbols : DatasetOf[y] = d}} = {"completed"}
    BY DEF DatasetStatus, Aggregate
  <2>2. SequenceState(seqs[s]) = "completed"
    BY <2>1
  <2> QED BY <2>2 DEF SequenceState
<1>3. Aggregate({DatasetStatus(seqs, e) : e \in Datasets}) = "completed" =>
         \A e \in Datasets : DatasetStatus(seqs, e) = "completed"
  BY DEF Aggregate
<1>4. \A s \in Symbols : DatasetOf[s] \in Datasets
  BY DEF Datasets
<1>5. Aggregate({DatasetStatus(seqs, e) : e \in Datasets}) \in {"pending", "running", "completed", "failed"}
  BY DEF Aggregate
<1> QED BY <1>1, <1>2, <1>3, <1>4, <1>5 DEF Refreshed

\* The outcome of the last call is recorded.
LEMMA LastChanged ==
  ASSUME StoredTypeOK, NEW s \in Symbols, asked[s] # <<>>,
         NEW o \in {"started", "success", "failed", "waiting"}, NEW l \in BOOLEAN,
         asked' = LastCall(s, o, l)
  PROVE  /\ asked' \in [Symbols -> Seq(CallRows)]
         /\ \A t \in Symbols : t # s => asked'[t] = asked[t]
         /\ DOMAIN asked'[s] = DOMAIN asked[s] /\ Len(asked[s]) \in DOMAIN asked[s]
         /\ \A k \in DOMAIN asked[s] :
               IF k = Len(asked[s])
               THEN /\ asked'[s][k].outcome = o /\ asked'[s][k].left = l
                    /\ asked'[s][k].fresh = asked[s][k].fresh
               ELSE asked'[s][k] = asked[s][k]
<1> DEFINE a == asked[s]
           e == [a[Len(a)] EXCEPT !.outcome = o, !.left = l]
<1>1. a \in Seq(CallRows) /\ a # <<>>
  BY DEF StoredTypeOK
<1>2. Len(a) \in 1 .. Len(a) /\ DOMAIN a = 1 .. Len(a)
  BY <1>1
<1>3. a[Len(a)] \in CallRows
  BY <1>1, <1>2
<1>4. e \in CallRows /\ e.outcome = o /\ e.left = l /\ e.fresh = a[Len(a)].fresh
  BY <1>3 DEF CallRows
<1>5. asked' = [asked EXCEPT ![s] = [a EXCEPT ![Len(a)] = e]]
  BY DEF LastCall
<1> HIDE DEF a, e
<1>6. [a EXCEPT ![Len(a)] = e] \in Seq(CallRows) /\ DOMAIN [a EXCEPT ![Len(a)] = e] = DOMAIN a
  BY <1>1, <1>2, <1>4, ExceptSeq
<1>7. asked'[s] = [a EXCEPT ![Len(a)] = e]
  BY <1>5 DEF StoredTypeOK
<1>8. asked' \in [Symbols -> Seq(CallRows)] /\ \A t \in Symbols : t # s => asked'[t] = asked[t]
  BY <1>5, <1>6 DEF StoredTypeOK
<1> QED BY <1>2, <1>4, <1>6, <1>7, <1>8 DEF a

\* What is left to show of the types when Source's side does not move.
LEMMA TypesKept ==
  ASSUME StoredTypeOK, sequences' \in [Symbols -> SequenceRows], asked' \in [Symbols -> Seq(CallRows)],
         statuses' \in [Datasets \cup {"daily"} -> {"pending", "running", "completed", "failed"}],
         process' \in Coordinators, preflight' \in BOOLEAN, cutoff' \in BOOLEAN, UNCHANGED <<sourceVars, historical>>
  PROVE  StoredTypeOK'
BY DEF StoredTypeOK, sourceVars

\* A recorded call is a row of its table.
LEMMA CallRow ==
  ASSUME StoredTypeOK, NEW s \in Symbols, NEW k \in DOMAIN asked[s]
  PROVE  asked[s][k] \in CallRows
<1>1. asked[s] \in Seq(CallRows)
  BY DEF StoredTypeOK
<1> QED BY <1>1

\* Rows of calls rewritten one by one are rows of calls.
LEMMA CallsRewritten ==
  ASSUME StoredTypeOK, NEW f, DOMAIN f = Symbols,
         \A s \in Symbols : /\ DOMAIN f[s] = DOMAIN asked[s] /\ f[s] = [k \in DOMAIN asked[s] |-> f[s][k]]
                            /\ \A k \in DOMAIN asked[s] : f[s][k] \in CallRows,
         f = [s \in Symbols |-> f[s]]
  PROVE  f \in [Symbols -> Seq(CallRows)]
<1> SUFFICES ASSUME NEW s \in Symbols PROVE f[s] \in Seq(CallRows)
  BY Zenon
<1>1. asked[s] \in Seq(CallRows)
  BY DEF StoredTypeOK
<1>2. Len(asked[s]) \in Nat /\ DOMAIN asked[s] = 1 .. Len(asked[s])
  BY <1>1
<1>3. f[s] \in [1 .. Len(asked[s]) -> CallRows]
  BY <1>2, Zenon
<1> QED BY <1>2, <1>3, SeqDef

---------------------------------------------------------------------------
(* Steps that neither upload nor make, keep or send a body. *)

\* Where a process is when it has nothing in hand.
Harmless == {"idle", "row", "call", "build", "deliver", "poll", "next", "over"}

\* Such a step leaves what is known of the bodies and objects alone, ends no
\* row as completed but by Source's word, and refreshes the statuses or not.
Plain ==
    /\ \A s \in Symbols : sequences'[s].raw = sequences[s].raw /\ sequences'[s].body = sequences[s].body
    /\ UNCHANGED <<retained, uploads, offered, historical>>
    /\ process' = process \/ Where' \in Harmless

Honest ==
    /\ \A s \in Symbols : sequences'[s].terminal = "completed" =>
          sequences[s].terminal = "completed" \/ settledAs[s] = "completed"
    /\ \A s \in Symbols : settledAs[s] = "completed" => settledAs'[s] = "completed"
    /\ statuses' \in {statuses, Refreshed(sequences), Refreshed(sequences')}

\* The process goes on or is over and nothing else happens to a row.
LEMMA ProcessOnly ==
  ASSUME StageInv, process' \in Coordinators, process'.pc \in Harmless,
         process'.pc # "idle" => process'.at \in 1 .. Len(Universe),
         UNCHANGED <<sequences, asked, sourceVars, historical>>, preflight' \in BOOLEAN, cutoff' \in BOOLEAN,
         statuses' \in {statuses, Refreshed(sequences)}
  PROVE  StoredTypeOK' /\ PlaceOK' /\ Plain /\ Honest
<1>1. statuses' \in [Datasets \cup {"daily"} -> {"pending", "running", "completed", "failed"}]
  <2>1. Refreshed(sequences) \in [Datasets \cup {"daily"} -> {"pending", "running", "completed", "failed"}]
    BY RefreshedStatuses
  <2>2. statuses \in [Datasets \cup {"daily"} -> {"pending", "running", "completed", "failed"}]
    BY DEF StageInv, StoredTypeOK
  <2> QED BY <2>1, <2>2
<1>2. StoredTypeOK'
  BY <1>1, TypesKept DEF StageInv, StoredTypeOK
<1>3. PlaceOK' /\ Where' \in Harmless
  BY DEF PlaceOK, Where, Harmless
<1>4. Plain
  BY <1>3 DEF Plain, sourceVars
<1>5. Honest
  BY DEF Honest, sourceVars
<1> QED BY <1>2, <1>3, <1>4, <1>5

\* A row is saved whose raw object and body stay.
LEMMA RowEnds ==
  ASSUME StageInv, process.pc # "idle", NEW q \in SequenceRows, NEW then \in {"next", "over"}, Save(q, then),
         q.raw = Row.raw, q.body = Row.body,
         q.terminal = "completed" => Row.terminal = "completed" \/ settledAs[Symbol] = "completed",
         UNCHANGED <<asked, sourceVars, boundVars>>, preflight' \in BOOLEAN
  PROVE  StoredTypeOK' /\ PlaceOK' /\ Plain /\ Honest
<1>1. /\ sequences' \in [Symbols -> SequenceRows] /\ sequences'[Symbol] = q
      /\ \A s \in Symbols : s # Symbol => sequences'[s] = sequences[s]
      /\ process' \in Coordinators /\ process'.pc = "refresh" /\ process'.then = then
      /\ process'.at = process.at /\ statuses' = statuses
  BY Saving DEF StageInv, Stages
<1>2. StoredTypeOK'
  BY <1>1, TypesKept DEF StageInv, StoredTypeOK, boundVars
<1>3. PlaceOK' /\ Where' \in Harmless
  BY <1>1 DEF StageInv, PlaceOK, Where, Harmless
<1>4. Plain
  BY <1>1, <1>3 DEF Plain, sourceVars, boundVars, Row
<1>5. Honest
  BY <1>1 DEF Honest, sourceVars, Row
<1> QED BY <1>2, <1>3, <1>4, <1>5

\* Coordinator.run() begins, a row is skipped, a call is lost, the day ends and
\* the next one comes.
LEMMA RunSteps ==
  ASSUME StageInv, SkipRow \/ CallLost \/ DayEnds \/ NextDay \/ \E mode \in Modes : StartRun(mode)
  PROVE  StoredTypeOK' /\ PlaceOK' /\ Plain /\ Honest
<1> USE DEF StageInv
<1>1. ASSUME NEW mode \in Modes, StartRun(mode)
      PROVE  StoredTypeOK' /\ PlaceOK' /\ Plain /\ Honest
  <2>1. 1 \in 1 .. Len(Universe) /\ 1 \in 0 .. Len(Universe)
    BY StageAssumption
  <2>2. \/ process' = [pc |-> "row", at |-> 1, mode |-> mode, body |-> 0, then |-> "idle"]
        \/ process' = NoProcess
    BY <1>1, Zenon DEF StartRun, NoProcess
  <2>3. /\ process' \in Coordinators /\ process'.pc \in {"row", "idle"}
        /\ process'.pc # "idle" => process'.at = 1
    BY <2>1, <2>2, RestingProcess DEF Coordinators, Stages
  <2>4. /\ UNCHANGED <<sequences, asked, sourceVars, historical>> /\ preflight' \in BOOLEAN
        /\ cutoff' \in BOOLEAN /\ statuses' = Refreshed(sequences)
    BY <1>1 DEF StartRun, boundVars, StoredTypeOK
  <2> QED BY <2>1, <2>3, <2>4, ProcessOnly DEF Harmless
<1>2. CASE SkipRow
  <2>1. process.pc # "idle" /\ process' \in {Over, NextRow, Goto("build")}
    BY <1>2 DEF SkipRow, Now
  <2>2. Goto("build") \in Coordinators /\ Goto("build").pc = "build" /\ Goto("build").at = process.at
    BY GoneTo DEF Stages
  <2>3. process.at \in 1 .. Len(Universe)
    BY <2>1 DEF PlaceOK
  <2>4. /\ process' \in Coordinators /\ process'.pc \in Harmless
        /\ process'.pc # "idle" => process'.at \in 1 .. Len(Universe)
    BY <2>1, <2>2, <2>3, GoneNext, RestingProcess DEF Over, Harmless
  <2>5. /\ UNCHANGED <<sequences, asked, sourceVars, historical>> /\ preflight' \in BOOLEAN
        /\ cutoff' \in BOOLEAN /\ statuses' = statuses
    BY <1>2 DEF SkipRow, boundVars, StoredTypeOK
  <2> QED BY <2>4, <2>5, ProcessOnly
<1>3. CASE CallLost
  <2>1. Symbol \in Symbols /\ asked[Symbol] # <<>>
    BY <1>3, AtSymbol DEF CallLost, Now, BudgetKept
  <2>2. asked' \in [Symbols -> Seq(CallRows)]
    BY <1>3, <2>1, LastChanged DEF CallLost
  <2>3. /\ UNCHANGED <<sequences, statuses, preflight, sourceVars, historical, cutoff>> /\ process' = NoProcess
    BY <1>3 DEF CallLost, Over
  <2>4. StoredTypeOK'
    BY <2>2, <2>3, TypesKept, RestingProcess DEF StoredTypeOK
  <2>5. PlaceOK' /\ Where' = "idle"
    BY <2>3, RestingProcess DEF PlaceOK, Where
  <2> QED BY <2>3, <2>4, <2>5 DEF Plain, Honest, Harmless, sourceVars
<1>4. CASE DayEnds \/ NextDay
  <2>1. /\ UNCHANGED <<sequences, asked, statuses, preflight, process, sourceVars, historical>>
        /\ cutoff' \in BOOLEAN
    BY <1>4 DEF DayEnds, NextDay
  <2>2. StoredTypeOK'
    BY <2>1, TypesKept DEF StoredTypeOK
  <2> QED BY <2>1, <2>2 DEF PlaceOK, Plain, Honest, sourceVars
<1> QED BY <1>1, <1>2, <1>3, <1>4

\* A row of which raw object and body stay is written with the statuses, or
\* without them.
LEMMA RowCommits ==
  ASSUME StageInv, process.pc # "idle", NEW q \in SequenceRows,
         sequences' = [sequences EXCEPT ![Symbol] = q], statuses' \in {statuses, Refreshed(sequences')},
         q.raw = Row.raw, q.body = Row.body, q.terminal = "completed" => Row.terminal = "completed",
         asked' \in [Symbols -> Seq(CallRows)], UNCHANGED <<sourceVars, historical, cutoff, preflight>>,
         process' \in Coordinators, process'.pc \in Harmless,
         process'.pc # "idle" => process'.at \in 1 .. Len(Universe)
  PROVE  StoredTypeOK' /\ PlaceOK' /\ Plain /\ Honest
<1>1. Symbol \in Symbols
  BY AtSymbol DEF StageInv
<1>2. /\ sequences' \in [Symbols -> SequenceRows] /\ sequences'[Symbol] = q
      /\ \A s \in Symbols : s # Symbol => sequences'[s] = sequences[s]
  BY <1>1 DEF StageInv, StoredTypeOK
<1>3. statuses' \in [Datasets \cup {"daily"} -> {"pending", "running", "completed", "failed"}]
  <2>1. Refreshed(sequences') \in [Datasets \cup {"daily"} -> {"pending", "running", "completed", "failed"}]
    BY RefreshedStatuses
  <2>2. statuses \in [Datasets \cup {"daily"} -> {"pending", "running", "completed", "failed"}]
    BY DEF StageInv, StoredTypeOK
  <2> QED BY <2>1, <2>2
<1>4. StoredTypeOK'
  BY <1>2, <1>3, TypesKept DEF StageInv, StoredTypeOK
<1>5. PlaceOK' /\ Where' \in Harmless
  BY DEF PlaceOK, Where, Harmless
<1>6. Plain
  BY <1>2, <1>5 DEF Plain, sourceVars, Row
<1>7. Honest
  BY <1>2 DEF Honest, sourceVars, Row
<1> QED BY <1>4, <1>5, <1>6, <1>7

\* acquire_attempt(): the row ends exhausted, the run is over, or a call is recorded.
LEMMA AcquireSteps ==
  ASSUME StageInv, AcquireAttempt
  PROVE  StoredTypeOK' /\ PlaceOK' /\ Plain /\ Honest
<1> USE DEF StageInv
<1>1. process.pc # "idle" /\ Symbol \in Symbols /\ Row \in SequenceRows /\ Row.terminal = "none"
  BY AtSymbol DEF AcquireAttempt, Now
<1>2. process.at \in 1 .. Len(Universe)
  BY <1>1 DEF PlaceOK
<1>3. UNCHANGED <<sourceVars, historical, cutoff, preflight>>
  BY DEF AcquireAttempt, boundVars
<1>4. CASE Commit(Symbol, Terminal(Row, "exhausted")) /\ process' = NextRow /\ UNCHANGED asked
  <2>1. "exhausted" \in Codes
    BY DEF Codes
  <2>2. /\ Terminal(Row, "exhausted") \in SequenceRows /\ Terminal(Row, "exhausted").terminal = "exhausted"
        /\ Terminal(Row, "exhausted").raw = Row.raw /\ Terminal(Row, "exhausted").body = Row.body
    BY <1>1, <2>1, Ending
  <2>3. /\ process' \in Coordinators /\ process'.pc \in Harmless
        /\ process'.pc # "idle" => process'.at \in 1 .. Len(Universe)
    BY <1>1, <1>4, GoneNext DEF Harmless
  <2>4. asked' \in [Symbols -> Seq(CallRows)]
    BY <1>4 DEF StoredTypeOK
  <2> QED BY <1>1, <1>3, <1>4, <2>2, <2>3, <2>4, RowCommits DEF Commit
<1>5. CASE process' = Over /\ UNCHANGED <<sequences, statuses, asked>>
  BY <1>3, <1>5, RestingProcess, ProcessOnly DEF Over, Harmless, StoredTypeOK
<1>6. CASE /\ sequences' = [sequences EXCEPT ![Symbol].lease = 2, ![Symbol].status = "acquiring"]
           /\ asked' = [asked EXCEPT ![Symbol] =
                           Append(@, [outcome |-> "started", fresh |-> TRUE, left |-> FALSE])]
           /\ process' = Goto("call") /\ UNCHANGED statuses
  <2> DEFINE q == [Row EXCEPT !.lease = 2, !.status = "acquiring"]
             c == [outcome |-> "started", fresh |-> TRUE, left |-> FALSE]
  <2>1. sequences' = [sequences EXCEPT ![Symbol] = q]
    BY <1>6 DEF Row
  <2>2. 2 \in 0 .. 2
    OBVIOUS
  <2>3. q \in SequenceRows
    BY <1>1, <2>2, Zenon DEF SequenceRows
  <2>4. q.raw = Row.raw /\ q.body = Row.body /\ q.terminal = "none"
    BY <1>1 DEF SequenceRows
  <2>5. asked[Symbol] \in Seq(CallRows) /\ c \in CallRows
    BY <1>1 DEF StoredTypeOK, CallRows
  <2>6. Append(asked[Symbol], c) \in Seq(CallRows)
    BY <2>5, AppendProperties
  <2> HIDE DEF c
  <2>7. asked' \in [Symbols -> Seq(CallRows)]
    BY <1>6, <2>6 DEF StoredTypeOK, c
  <2>8. process' \in Coordinators /\ process'.pc = "call" /\ process'.at = process.at
    BY <1>6, GoneTo DEF Stages
  <2> HIDE DEF q
  <2> QED BY <1>1, <1>2, <1>3, <1>6, <2>1, <2>3, <2>4, <2>7, <2>8, RowCommits DEF Harmless
<1> QED BY <1>4, <1>5, <1>6 DEF AcquireAttempt

\* finish_attempt(), complete_attempt_with_snapshot(): what a call led to.
LEMMA FinishSteps ==
  ASSUME StageInv, CallTooLate \/ CallFailed \/ CallWaits \/ CallAnswered
  PROVE  StoredTypeOK' /\ PlaceOK' /\ Plain /\ Honest
<1> USE DEF StageInv
<1>1. process.pc = "call"
  BY DEF CallTooLate, CallFailed, CallWaits, CallAnswered, Now
<1>2. Symbol \in Symbols /\ Row \in SequenceRows /\ asked[Symbol] # <<>> /\ process.at \in 1 .. Len(Universe)
  BY <1>1, AtSymbol DEF BudgetKept, PlaceOK
<1>3. ASSUME NEW o \in {"failed", "waiting"}, NEW l \in BOOLEAN,
             NEW code \in {"retry", "exhausted", "login", "payload", "cutoff"},
             FinishAttempt(o, l, code), UNCHANGED <<historical, cutoff>>
      PROVE  StoredTypeOK' /\ PlaceOK' /\ Plain /\ Honest
  <2> DEFINE q == [Row EXCEPT !.lease = 0, !.terminal = IF code = "retry" THEN @ ELSE code,
                              !.status = IF code = "retry" THEN "pending" ELSE "failed"]
  <2>1. 0 \in 0 .. 2 /\ (IF code = "retry" THEN Row.terminal ELSE code) \in Codes
    BY <1>2, <1>3 DEF Codes, SequenceRows
  <2>2. q \in SequenceRows
    BY <1>2, <2>1, Zenon DEF SequenceRows
  <2>3. q.raw = Row.raw /\ q.body = Row.body /\ q.terminal \in {Row.terminal, code}
    BY <1>2 DEF SequenceRows
  <2>4. /\ sequences' = [sequences EXCEPT ![Symbol] = q] /\ statuses' = Refreshed(sequences')
        /\ asked' = LastCall(Symbol, o, l) /\ process' = NoProcess /\ UNCHANGED <<preflight, sourceVars>>
    BY <1>3 DEF FinishAttempt, Commit, Over
  <2> HIDE DEF q
  <2>5. asked' \in [Symbols -> Seq(CallRows)]
    BY <1>2, <1>3, <2>4, LastChanged
  <2>6. q.terminal = "completed" => Row.terminal = "completed"
    BY <1>3, <2>3
  <2> QED BY <1>1, <1>3, <2>2, <2>3, <2>4, <2>5, <2>6, RestingProcess, RowCommits DEF Harmless
<1>4. CASE CallTooLate
  BY <1>3, <1>4 DEF CallTooLate, boundVars
<1>5. CASE CallFailed
  BY <1>3, <1>5 DEF CallFailed, RetryCode, boundVars
<1>6. CASE CallWaits
  BY <1>3, <1>6 DEF CallWaits
<1>7. CASE CallAnswered
  <2> DEFINE q == [Row EXCEPT !.snapshot = TRUE, !.lease = 0, !.status = "acquired"]
  <2>1. 0 \in 0 .. 2
    OBVIOUS
  <2>2. q \in SequenceRows
    BY <1>2, <2>1, Zenon DEF SequenceRows
  <2>3. q.raw = Row.raw /\ q.body = Row.body /\ q.terminal = Row.terminal
    BY <1>2 DEF SequenceRows
  <2>4. /\ sequences' = [sequences EXCEPT ![Symbol] = q] /\ statuses' = Refreshed(sequences')
        /\ asked' = LastCall(Symbol, "success", TRUE) /\ process' = Goto("build")
        /\ UNCHANGED <<preflight, sourceVars, historical, cutoff>>
    BY <1>7 DEF CallAnswered, Commit, boundVars
  <2> HIDE DEF q
  <2>5. asked' \in [Symbols -> Seq(CallRows)]
    BY <1>2, <2>4, LastChanged
  <2>6. process' \in Coordinators /\ process'.pc = "build" /\ process'.at = process.at
    BY <2>4, GoneTo DEF Stages
  <2> QED BY <1>1, <1>2, <2>2, <2>3, <2>4, <2>5, <2>6, RowCommits DEF Harmless
<1> QED BY <1>4, <1>5, <1>6, <1>7

\* A body is built or cannot be, Source refuses it or says how its run ended.
LEMMA AnswerSteps ==
  ASSUME StageInv, Build \/ DeliverInactive \/ Poll
  PROVE  StoredTypeOK' /\ PlaceOK' /\ Plain /\ Honest
<1> USE DEF StageInv
<1>1. process.pc # "idle"
  BY DEF Build, DeliverInactive, Poll, Now
<1>2. Symbol \in Symbols /\ Row \in SequenceRows /\ process.at \in 1 .. Len(Universe)
  BY <1>1, AtSymbol DEF PlaceOK
<1>3. UNCHANGED <<asked, sourceVars, boundVars>>
  BY DEF Build, DeliverInactive, Poll
<1>4. ASSUME NEW code \in {"payload", "inactive"}, Save(Terminal(Row, code), "over"), UNCHANGED preflight
      PROVE  StoredTypeOK' /\ PlaceOK' /\ Plain /\ Honest
  <2>1. code \in Codes
    BY DEF Codes, Wrong
  <2>2. /\ Terminal(Row, code) \in SequenceRows /\ Terminal(Row, code).terminal = code
        /\ Terminal(Row, code).raw = Row.raw /\ Terminal(Row, code).body = Row.body
    BY <1>2, <2>1, Ending
  <2>3. preflight' \in BOOLEAN
    BY <1>4 DEF StoredTypeOK
  <2> QED BY <1>1, <1>3, <1>4, <2>2, <2>3, RowEnds
<1>5. CASE Build
  <2>1. CASE Save(Terminal(Row, "payload"), "over") /\ UNCHANGED preflight
    BY <1>4, <2>1
  <2>2. CASE process' = Goto("deliver") /\ UNCHANGED <<sequences, statuses, preflight>>
    <3>1. process' \in Coordinators /\ process'.pc = "deliver" /\ process'.at = process.at
      BY <2>2, GoneTo DEF Stages
    <3> QED BY <1>2, <1>3, <2>2, <3>1, ProcessOnly DEF Harmless, boundVars, StoredTypeOK
  <2>3. CASE process' = NextRow /\ MarkPreflight /\ UNCHANGED <<sequences, statuses>>
    <3>1. preflight' \in BOOLEAN /\ cutoff' \in BOOLEAN /\ historical' = historical
      BY <1>3, <2>3 DEF MarkPreflight, boundVars, StoredTypeOK
    <3>2. /\ process' \in Coordinators /\ process'.pc \in Harmless
          /\ process'.pc # "idle" => process'.at \in 1 .. Len(Universe)
      BY <1>1, <2>3, GoneNext DEF Harmless
    <3> QED BY <1>3, <2>3, <3>1, <3>2, ProcessOnly
  <2> QED BY <1>5, <2>1, <2>2, <2>3 DEF Build
<1>6. CASE DeliverInactive
  BY <1>4, <1>6 DEF DeliverInactive
<1>7. CASE Poll
  <2>1. preflight' \in BOOLEAN
    BY <1>7 DEF Poll, StoredTypeOK
  <2>2. CASE Save([Row EXCEPT !.receipt = TRUE, !.status = "delivered"], "over")
    <3> DEFINE q == [Row EXCEPT !.receipt = TRUE, !.status = "delivered"]
    <3>1. q \in SequenceRows
      BY <1>2, Zenon DEF SequenceRows
    <3>2. q.raw = Row.raw /\ q.body = Row.body /\ q.terminal = Row.terminal
      BY <1>2 DEF SequenceRows
    <3> HIDE DEF q
    <3>3. Save(q, "over")
      BY <2>2 DEF q
    <3> QED BY <1>1, <1>3, <2>1, <3>1, <3>2, <3>3, RowEnds
  <2>3. ASSUME NEW then \in {"next", "over"},
               Save([Row EXCEPT !.receipt = TRUE, !.status = "terminal", !.terminal = settledAs[Symbol]], then)
        PROVE  StoredTypeOK' /\ PlaceOK' /\ Plain /\ Honest
    <3> DEFINE q == [Row EXCEPT !.receipt = TRUE, !.status = "terminal", !.terminal = settledAs[Symbol]]
    <3>1. settledAs[Symbol] \in Codes
      BY <1>2 DEF StoredTypeOK, Codes
    <3>2. q \in SequenceRows
      BY <1>2, <3>1, Zenon DEF SequenceRows
    <3>3. q.raw = Row.raw /\ q.body = Row.body /\ q.terminal = settledAs[Symbol]
      BY <1>2 DEF SequenceRows
    <3> HIDE DEF q
    <3>4. Save(q, then)
      BY <2>3 DEF q
    <3> QED BY <1>1, <1>3, <2>1, <3>2, <3>3, <3>4, RowEnds
  <2> QED BY <1>7, <2>2, <2>3 DEF Poll
<1> QED BY <1>5, <1>6, <1>7

\* The surroundings: the cutoff, Source's normalizer, the clock, a stop.
LEMMA SurroundingSteps ==
  ASSUME StageInv, MarkCutoff \/ Minute \/ Stop \/ \E s \in Symbols : SourceSettles(s)
  PROVE  StoredTypeOK' /\ PlaceOK' /\ Plain /\ Honest
<1> USE DEF StageInv
<1>1. CASE MarkCutoff
  <2>1. /\ UNCHANGED <<preflight, process, sourceVars, boundVars>> /\ statuses' = Refreshed(sequences')
        /\ sequences' = [s \in Symbols |-> IF sequences[s].terminal = "none"
                                           THEN Terminal(sequences[s], "cutoff") ELSE sequences[s]]
    BY <1>1 DEF MarkCutoff
  <2>2. \A s \in Symbols :
          /\ sequences'[s] \in SequenceRows /\ sequences'[s].raw = sequences[s].raw
          /\ sequences'[s].body = sequences[s].body
          /\ sequences'[s].terminal = "completed" => sequences[s].terminal = "completed"
    <3> SUFFICES ASSUME NEW s \in Symbols
                 PROVE  /\ sequences'[s] \in SequenceRows /\ sequences'[s].raw = sequences[s].raw
                        /\ sequences'[s].body = sequences[s].body
                        /\ sequences'[s].terminal = "completed" => sequences[s].terminal = "completed"
      OBVIOUS
    <3>1. sequences[s] \in SequenceRows /\ "cutoff" \in Codes
      BY DEF StoredTypeOK, Codes
    <3>2. /\ Terminal(sequences[s], "cutoff") \in SequenceRows
          /\ Terminal(sequences[s], "cutoff").terminal = "cutoff"
          /\ Terminal(sequences[s], "cutoff").raw = sequences[s].raw
          /\ Terminal(sequences[s], "cutoff").body = sequences[s].body
      BY <3>1, Ending
    <3> QED BY <2>1, <3>1, <3>2
  <2>3. sequences' \in [Symbols -> SequenceRows]
    BY <2>1, <2>2
  <2>4. asked' \in [Symbols -> Seq(CallRows)]
    <3>1. asked' = [s \in Symbols |-> [k \in DOMAIN asked[s] |->
                    IF asked[s][k].outcome = "started" THEN [asked[s][k] EXCEPT !.outcome = "failed"]
                    ELSE asked[s][k]]]
      BY <1>1 DEF MarkCutoff
    <3>2. \A s \in Symbols : \A k \in DOMAIN asked[s] :
            asked[s][k] \in CallRows /\ [asked[s][k] EXCEPT !.outcome = "failed"] \in CallRows
      <4> SUFFICES ASSUME NEW s \in Symbols, NEW k \in DOMAIN asked[s]
                   PROVE  asked[s][k] \in CallRows /\ [asked[s][k] EXCEPT !.outcome = "failed"] \in CallRows
        OBVIOUS
      <4>1. asked[s][k] \in CallRows
        BY CallRow
      <4> QED BY <4>1 DEF CallRows
    <3>3. \A s \in Symbols : /\ DOMAIN asked'[s] = DOMAIN asked[s]
                             /\ asked'[s] = [k \in DOMAIN asked[s] |-> asked'[s][k]]
                             /\ \A k \in DOMAIN asked[s] : asked'[s][k] \in CallRows
      BY <3>1, <3>2, Zenon
    <3>4. DOMAIN asked' = Symbols /\ asked' = [s \in Symbols |-> asked'[s]]
      BY <3>1, Zenon
    <3> QED BY <3>3, <3>4, CallsRewritten
  <2>5. statuses' \in [Datasets \cup {"daily"} -> {"pending", "running", "completed", "failed"}]
    BY <2>1, RefreshedStatuses
  <2>6. StoredTypeOK'
    BY <2>1, <2>3, <2>4, <2>5, TypesKept DEF StoredTypeOK, boundVars
  <2> QED BY <2>1, <2>2, <2>6 DEF PlaceOK, Plain, Honest, sourceVars, boundVars
<1>2. CASE Minute
  <2>1. /\ UNCHANGED <<statuses, preflight, process, sourceVars, boundVars>>
        /\ sequences' = [s \in Symbols |->
                           [sequences[s] EXCEPT !.lease = IF @ > 0 THEN @ - 1 ELSE 0]]
    BY <1>2 DEF Minute
  <2>2. \A s \in Symbols :
          /\ sequences'[s] \in SequenceRows /\ sequences'[s].raw = sequences[s].raw
          /\ sequences'[s].body = sequences[s].body
          /\ sequences'[s].terminal = sequences[s].terminal
    <3> SUFFICES ASSUME NEW s \in Symbols
                 PROVE  /\ sequences'[s] \in SequenceRows /\ sequences'[s].raw = sequences[s].raw
                        /\ sequences'[s].body = sequences[s].body
                        /\ sequences'[s].terminal = sequences[s].terminal
      OBVIOUS
    <3> DEFINE n == IF sequences[s].lease > 0 THEN sequences[s].lease - 1 ELSE 0
    <3>1. sequences[s] \in SequenceRows
      BY DEF StoredTypeOK
    <3>2. n \in 0 .. 2
      BY <3>1 DEF SequenceRows
    <3>3. sequences'[s] = [sequences[s] EXCEPT !.lease = n]
      BY <2>1
    <3> HIDE DEF n
    <3> QED BY <3>1, <3>2, <3>3 DEF SequenceRows
  <2>3. sequences' \in [Symbols -> SequenceRows]
    BY <2>1, <2>2
  <2>4. asked' \in [Symbols -> Seq(CallRows)]
    <3>1. asked' = [s \in Symbols |-> [k \in DOMAIN asked[s] |-> [asked[s][k] EXCEPT !.fresh = FALSE]]]
      BY <1>2 DEF Minute
    <3>2. \A s \in Symbols : \A k \in DOMAIN asked[s] : [asked[s][k] EXCEPT !.fresh = FALSE] \in CallRows
      <4> SUFFICES ASSUME NEW s \in Symbols, NEW k \in DOMAIN asked[s]
                   PROVE  [asked[s][k] EXCEPT !.fresh = FALSE] \in CallRows
        OBVIOUS
      <4>1. asked[s][k] \in CallRows
        BY CallRow
      <4> QED BY <4>1 DEF CallRows
    <3>3. \A s \in Symbols : /\ DOMAIN asked'[s] = DOMAIN asked[s]
                             /\ asked'[s] = [k \in DOMAIN asked[s] |-> asked'[s][k]]
                             /\ \A k \in DOMAIN asked[s] : asked'[s][k] \in CallRows
      BY <3>1, <3>2, Zenon
    <3>4. DOMAIN asked' = Symbols /\ asked' = [s \in Symbols |-> asked'[s]]
      BY <3>1, Zenon
    <3> QED BY <3>3, <3>4, CallsRewritten
  <2>5. StoredTypeOK'
    BY <2>1, <2>3, <2>4, TypesKept DEF StoredTypeOK, boundVars
  <2> QED BY <2>1, <2>2, <2>5 DEF PlaceOK, Plain, Honest, sourceVars, boundVars
<1>3. CASE Stop
  <2>1. /\ UNCHANGED <<sequences, statuses, preflight, sourceVars, historical, cutoff>>
        /\ process' = NoProcess
    BY <1>3 DEF Stop
  <2>2. asked' \in [Symbols -> Seq(CallRows)]
    <3>1. CASE asked' = asked
      BY <3>1 DEF StoredTypeOK
    <3>2. CASE Now("call") /\ asked' = LastCall(Symbol, "started", TRUE)
      <4>1. Symbol \in Symbols /\ asked[Symbol] # <<>>
        BY <3>2, AtSymbol DEF Now, BudgetKept
      <4> QED BY <3>2, <4>1, LastChanged
    <3> QED BY <1>3, <3>1, <3>2 DEF Stop
  <2>3. StoredTypeOK'
    BY <2>1, <2>2, TypesKept, RestingProcess DEF StoredTypeOK
  <2>4. PlaceOK' /\ Where' = "idle"
    BY <2>1, RestingProcess DEF PlaceOK, Where
  <2> QED BY <2>1, <2>3, <2>4 DEF Plain, Honest, Harmless, sourceVars
<1>4. ASSUME NEW s \in Symbols, SourceSettles(s)
      PROVE  StoredTypeOK' /\ PlaceOK' /\ Plain /\ Honest
  <2>1. /\ UNCHANGED <<sequences, asked, statuses, preflight, process, retained, uploads, offered, received,
                       nonce, historical, cutoff>>
        /\ settledAs[s] = "none"
    BY <1>4 DEF SourceSettles, boundVars
  <2>2. PICK how \in {"completed"} \cup Wrong : settledAs' = [settledAs EXCEPT ![s] = how]
    BY <1>4 DEF SourceSettles
  <2>3. StoredTypeOK'
    BY <2>1, <2>2 DEF StoredTypeOK
  <2>4. \A t \in Symbols : t # s => settledAs'[t] = settledAs[t]
    BY <2>2 DEF StoredTypeOK
  <2> QED BY <2>1, <2>3, <2>4 DEF PlaceOK, Plain, Honest
<1> QED BY <1>1, <1>2, <1>3, <1>4

---------------------------------------------------------------------------
(* What such steps keep. *)

\* A plain step keeps what is known of objects and bodies.
LEMMA PlainKeeps ==
  ASSUME StageInv, Plain, StoredTypeOK'
  PROVE  UploadsOK' /\ BodiesOK'
<1> USE DEF StageInv
<1>1. \A s \in Symbols : Known(s)' = Known(s)
  BY DEF Plain, Known
<1>2. CASE Where' \in Harmless
  BY <1>1, <1>2 DEF Plain, Harmless, UploadsOK, BodiesOK
<1>3. CASE process' = process
  <2>1. Where' = Where /\ Symbol' = Symbol
    BY <1>3 DEF Where, Symbol
  <2>2. Where \notin Harmless => Symbol \in Symbols
    BY AtSymbol DEF Where, Harmless
  <2>3. Where \notin Harmless => Known(Symbol)' = Known(Symbol) /\ Row'.raw = Row.raw /\ Row'.body = Row.body
    BY <2>1, <2>2 DEF Plain, Row, Known
  <2>4. UploadsOK'
    BY <2>1, <2>2, <2>3 DEF UploadsOK, Plain, Harmless
  <2>5. BodiesOK'
    BY <1>1, <1>3, <2>1, <2>2, <2>3 DEF BodiesOK, Plain, Harmless
  <2> QED BY <2>4, <2>5
<1> QED BY <1>2, <1>3 DEF Plain

\* An honest step keeps that completed means completed.
LEMMA HonestKeeps ==
  ASSUME StageInv, Honest
  PROVE  AcceptedOK'
<1> USE DEF StageInv
<1>1. \A s \in Symbols : sequences'[s].terminal = "completed" => settledAs'[s] = "completed"
  BY DEF Honest, AcceptedOK
<1>2. ASSUME NEW d \in Datasets \cup {"daily"}, statuses'[d] = "completed",
             NEW s \in Symbols, d = "daily" \/ DatasetOf[s] = d
      PROVE  settledAs'[s] = "completed"
  <2>1. CASE statuses' = statuses
    BY <1>2, <2>1 DEF Honest, AcceptedOK, CompletedMeansAccepted
  <2>2. CASE statuses' = Refreshed(sequences)
    <3>1. sequences[s].terminal = "completed"
      BY <1>2, <2>2, RefreshedStatuses
    <3> QED BY <3>1 DEF Honest, AcceptedOK
  <2>3. CASE statuses' = Refreshed(sequences')
    <3>1. sequences'[s].terminal = "completed"
      BY <1>2, <2>3, RefreshedStatuses
    <3> QED BY <1>1, <3>1
  <2> QED BY <2>1, <2>2, <2>3 DEF Honest
<1> QED BY <1>1, <1>2 DEF AcceptedOK, CompletedMeansAccepted

---------------------------------------------------------------------------
(* Steps that upload an object or make, keep or send a body. *)

\* The statuses follow the row that was saved; the process goes on.
LEMMA RefreshStep ==
  ASSUME StageInv, Refresh
  PROVE  StoredTypeOK' /\ PlaceOK' /\ UploadsOK' /\ BodiesOK' /\ Honest
<1> USE DEF StageInv
<1>1. /\ process.pc = "refresh" /\ statuses' = Refreshed(sequences)
      /\ UNCHANGED <<sequences, asked, preflight, sourceVars, historical, cutoff>>
  BY DEF Refresh, Now, boundVars
<1>2. process.then \in {"next", "over", "prepare", "send"} /\ process.at \in 1 .. Len(Universe)
  BY <1>1 DEF PlaceOK
<1>3. CASE process.then \in {"next", "over"}
  <2>1. process' \in {NextRow, Over}
    BY <1>3 DEF Refresh
  <2>2. /\ process' \in Coordinators /\ process'.pc \in Harmless
        /\ process'.pc # "idle" => process'.at \in 1 .. Len(Universe)
    BY <1>1, <2>1, GoneNext, RestingProcess DEF Over, Harmless
  <2>3. preflight' \in BOOLEAN /\ cutoff' \in BOOLEAN
    BY <1>1 DEF StoredTypeOK
  <2>4. StoredTypeOK' /\ PlaceOK' /\ Plain /\ Honest
    BY <1>1, <2>2, <2>3, ProcessOnly
  <2> QED BY <2>4, PlainKeeps
<1>4. CASE process.then \in {"prepare", "send"}
  <2>1. process' = Goto(process.then)
    BY <1>4 DEF Refresh
  <2>2. /\ process' \in Coordinators /\ process'.pc = process.then /\ process'.at = process.at
        /\ process'.body = process.body
    BY <1>4, <2>1, GoneTo DEF Stages
  <2>3. Refreshed(sequences) \in [Datasets \cup {"daily"} -> {"pending", "running", "completed", "failed"}]
    BY RefreshedStatuses
  <2>4. StoredTypeOK'
    BY <1>1, <2>2, <2>3, TypesKept DEF StoredTypeOK
  <2>5. PlaceOK' /\ Where' = Where /\ Symbol' = Symbol /\ Row' = Row /\ process'.body = process.body
    BY <1>1, <1>2, <1>4, <2>2 DEF PlaceOK, Where, Symbol, Row
  <2>6. \A s \in Symbols : Known(s)' = Known(s)
    BY <1>1 DEF Known, sourceVars
  <2>7. Symbol \in Symbols
    BY <1>1, AtSymbol
  <2>8. UploadsOK'
    BY <1>1, <2>5 DEF UploadsOK, sourceVars
  <2>9. BodiesOK'
    BY <1>1, <2>5, <2>6, <2>7 DEF BodiesOK, sourceVars, Known
  <2>10. Honest
    BY <1>1 DEF Honest, sourceVars
  <2> QED BY <2>4, <2>5, <2>8, <2>9, <2>10
<1> QED BY <1>2, <1>3, <1>4

\* get_prepared(), owner.restore(): a body that is known is used again.
LEMMA ReuseSteps ==
  ASSUME StageInv, ReusePrepared \/ RestorePrepared
  PROVE  StoredTypeOK' /\ PlaceOK' /\ UploadsOK' /\ BodiesOK' /\ Honest
<1> USE DEF StageInv
<1>1. /\ process.pc = "deliver"
      /\ UNCHANGED <<sequences, asked, statuses, preflight, sourceVars, historical, cutoff>>
  BY DEF ReusePrepared, RestorePrepared, Now, boundVars
<1>2. Symbol \in Symbols /\ Row \in SequenceRows /\ process.at \in 1 .. Len(Universe)
  BY <1>1, AtSymbol DEF PlaceOK
<1>3. PICK x \in {"send", "keep"}, b \in Nat \ {0} :
        /\ process' = [Goto(x) EXCEPT !.body = b]
        /\ x = "send" => b = Known(Symbol)
        /\ x = "keep" => Row.body = 0 /\ historical /\ b = retained[Symbol]
  <2>1. CASE ReusePrepared
    <3>1. Row.body \in Nat \ {0} /\ Row.body = Known(Symbol)
      BY <1>2, <2>1 DEF ReusePrepared, SequenceRows, BodiesOK, Row
    <3> QED BY <2>1, <3>1 DEF ReusePrepared
  <2>2. CASE RestorePrepared
    <3>1. retained[Symbol] \in Nat \ {0} /\ Row.body = 0 /\ historical
      BY <1>2, <2>2 DEF RestorePrepared, Restorable, StoredTypeOK
    <3> QED BY <2>2, <3>1 DEF RestorePrepared
  <2> QED BY <2>1, <2>2
<1>4. process' \in Coordinators /\ process'.pc = x /\ process'.at = process.at /\ process'.body = b
  BY <1>3, GoneWith DEF Stages
<1>5. StoredTypeOK'
  BY <1>1, <1>4, TypesKept DEF StoredTypeOK
<1>6. PlaceOK' /\ Where' = x /\ Symbol' = Symbol /\ Row' = Row
  BY <1>1, <1>2, <1>4 DEF PlaceOK, Where, Symbol, Row
<1>7. \A s \in Symbols : Known(s)' = Known(s)
  BY <1>1 DEF Known, sourceVars
<1>8. UploadsOK'
  BY <1>1, <1>6 DEF UploadsOK, sourceVars
<1>9. BodiesOK'
  BY <1>1, <1>2, <1>3, <1>4, <1>6, <1>7 DEF BodiesOK, sourceVars, Known
<1>10. Honest
  BY <1>1 DEF Honest, sourceVars
<1> QED BY <1>5, <1>6, <1>8, <1>9, <1>10

\* begin_raw(): the intent is recorded, found unfinished, or already met.
LEMMA BeginRawStep ==
  ASSUME StageInv, BeginRaw
  PROVE  StoredTypeOK' /\ PlaceOK' /\ UploadsOK' /\ BodiesOK' /\ Honest
<1> USE DEF StageInv
<1>1. /\ process.pc = "deliver" /\ Row.body = 0 /\ ~Restorable
      /\ UNCHANGED <<asked, preflight, sourceVars, boundVars>>
  BY DEF BeginRaw, Now
<1>2. Symbol \in Symbols /\ Row \in SequenceRows /\ process.at \in 1 .. Len(Universe)
  BY <1>1, AtSymbol DEF PlaceOK
<1>3. Known(Symbol) = 0
  BY <1>1 DEF Known, Restorable, Row
<1>4. CASE /\ Row.raw # "stored" /\ ~Uncertain(Row)
           /\ sequences' = [sequences EXCEPT ![Symbol].raw = "uploading", ![Symbol].status = "raw_uploading"]
           /\ process' = Goto("upload") /\ UNCHANGED statuses
  <2> DEFINE q == [Row EXCEPT !.raw = "uploading", !.status = "raw_uploading"]
  <2>1. sequences' = [sequences EXCEPT ![Symbol] = q]
    BY <1>4 DEF Row
  <2>2. q \in SequenceRows
    BY <1>2, Zenon DEF SequenceRows
  <2>3. q.raw = "uploading" /\ q.body = 0 /\ q.terminal = Row.terminal
    BY <1>1, <1>2 DEF SequenceRows
  <2> HIDE DEF q
  <2>4. /\ sequences' \in [Symbols -> SequenceRows] /\ sequences'[Symbol] = q
        /\ \A s \in Symbols : s # Symbol => sequences'[s] = sequences[s]
    BY <1>2, <2>1, <2>2 DEF StoredTypeOK
  <2>5. process' \in Coordinators /\ process'.pc = "upload" /\ process'.at = process.at
    BY <1>4, GoneTo DEF Stages
  <2>6. StoredTypeOK'
    BY <1>1, <1>4, <2>4, <2>5, TypesKept DEF StoredTypeOK, boundVars
  <2>7. PlaceOK' /\ Where' = "upload" /\ Symbol' = Symbol /\ Row' = q
    BY <1>2, <2>4, <2>5 DEF PlaceOK, Where, Symbol, Row
  <2>8. uploads[Symbol] = 0
    BY <1>2, <1>4 DEF UploadsOK, Uncertain, Row, SequenceRows
  <2>9. UploadsOK'
    BY <1>1, <2>3, <2>4, <2>7, <2>8 DEF UploadsOK, sourceVars
  <2>10. \A s \in Symbols : Known(s)' = Known(s) /\ sequences'[s].body = sequences[s].body
    BY <1>1, <2>3, <2>4 DEF Known, sourceVars, boundVars, Row
  <2>11. BodiesOK'
    BY <1>1, <1>2, <1>3, <2>7, <2>10 DEF BodiesOK, sourceVars, Known
  <2>12. Honest
    BY <1>1, <1>4, <2>3, <2>4 DEF Honest, sourceVars, Row
  <2> QED BY <2>6, <2>7, <2>9, <2>11, <2>12
<1>5. CASE Save(Terminal(Row, "uncertain"), "next")
  <2>1. "uncertain" \in Codes
    BY DEF Codes
  <2>2. /\ Terminal(Row, "uncertain") \in SequenceRows /\ Terminal(Row, "uncertain").terminal = "uncertain"
        /\ Terminal(Row, "uncertain").raw = Row.raw /\ Terminal(Row, "uncertain").body = Row.body
    BY <1>2, <2>1, Ending
  <2>3. preflight' \in BOOLEAN
    BY <1>1 DEF StoredTypeOK
  <2>4. StoredTypeOK' /\ PlaceOK' /\ Plain /\ Honest
    BY <1>1, <1>5, <2>2, <2>3, RowEnds
  <2> QED BY <2>4, PlainKeeps
<1>6. CASE process' = Goto("prepare") /\ UNCHANGED <<sequences, statuses>>
  <2>1. process' \in Coordinators /\ process'.pc = "prepare" /\ process'.at = process.at
    BY <1>6, GoneTo DEF Stages
  <2>2. StoredTypeOK'
    BY <1>1, <1>6, <2>1, TypesKept DEF StoredTypeOK, boundVars
  <2>3. PlaceOK' /\ Where' = "prepare" /\ Symbol' = Symbol
    BY <1>2, <2>1 DEF PlaceOK, Where, Symbol
  <2>4. \A s \in Symbols : Known(s)' = Known(s)
    BY <1>1, <1>6 DEF Known, sourceVars, boundVars
  <2>5. UploadsOK'
    BY <1>1, <1>6, <2>3 DEF UploadsOK, sourceVars
  <2>6. BodiesOK'
    BY <1>1, <1>2, <1>3, <1>6, <2>3, <2>4 DEF BodiesOK, sourceVars, Known
  <2>7. Honest
    BY <1>1, <1>6 DEF Honest, sourceVars
  <2> QED BY <2>2, <2>3, <2>5, <2>6, <2>7
<1> QED BY <1>4, <1>5, <1>6 DEF BeginRaw

\* persist(): an object more at most, of a symbol that had none; then save_raw().
LEMMA UploadSteps ==
  ASSUME StageInv, Upload \/ UploadFails
  PROVE  StoredTypeOK' /\ PlaceOK' /\ UploadsOK' /\ BodiesOK' /\ Honest
<1> USE DEF StageInv
<1>1. /\ process.pc = "upload"
      /\ UNCHANGED <<sequences, asked, statuses, preflight, retained, offered, received, settledAs, nonce,
                      historical, cutoff>>
  BY DEF Upload, UploadFails, Now, boundVars
<1>2. Symbol \in Symbols /\ process.at \in 1 .. Len(Universe)
  BY <1>1, AtSymbol DEF PlaceOK
<1>3. uploads[Symbol] = 0 /\ Row.raw = "uploading" /\ Known(Symbol) = 0
  BY <1>1 DEF Where, UploadsOK, BodiesOK
<1>4. PICK n \in {0, 1} : uploads' = [uploads EXCEPT ![Symbol] = n]
  <2>1. PICK n \in {0, 1} : uploads' = [uploads EXCEPT ![Symbol] = @ + n]
    BY DEF Upload, UploadFails
  <2>2. uploads[Symbol] + n = n
    BY <1>3, <2>1
  <2>3. uploads' = [uploads EXCEPT ![Symbol] = uploads[Symbol] + n]
    BY <2>1
  <2> QED BY <2>1, <2>2, <2>3
<1>5. uploads' \in [Symbols -> Nat] /\ uploads'[Symbol] = n
      /\ \A s \in Symbols : s # Symbol => uploads'[s] = uploads[s]
  BY <1>2, <1>4 DEF StoredTypeOK
<1>6. /\ process' \in Coordinators /\ process'.pc \in {"save_raw", "idle"}
      /\ process'.pc # "idle" => process'.at = process.at
  <2>1. process' \in {Goto("save_raw"), NoProcess}
    BY DEF Upload, UploadFails, Over
  <2> QED BY <2>1, GoneTo, RestingProcess DEF Stages
<1>7. StoredTypeOK'
  BY <1>1, <1>5, <1>6 DEF StoredTypeOK
<1>8. /\ PlaceOK' /\ Where' \in {"save_raw", "idle"}
      /\ Where' = "save_raw" => Symbol' = Symbol
  BY <1>2, <1>6 DEF PlaceOK, Where, Symbol
<1>9. UploadsOK'
  BY <1>1, <1>2, <1>3, <1>5, <1>8 DEF UploadsOK, Row
<1>10. \A s \in Symbols : Known(s)' = Known(s)
  BY <1>1 DEF Known
<1>11. BodiesOK'
  BY <1>1, <1>2, <1>3, <1>8, <1>10 DEF BodiesOK, Known
<1>12. Honest
  BY <1>1 DEF Honest
<1> QED BY <1>7, <1>8, <1>9, <1>11, <1>12

\* save_raw(): the object is known to be there.
LEMMA SaveRawStep ==
  ASSUME StageInv, SaveRaw
  PROVE  StoredTypeOK' /\ PlaceOK' /\ UploadsOK' /\ BodiesOK' /\ Honest
<1> USE DEF StageInv
<1>1. process.pc = "save_raw" /\ UNCHANGED <<asked, preflight, sourceVars, boundVars>>
  BY DEF SaveRaw, Now
<1>2. Symbol \in Symbols /\ Row \in SequenceRows /\ process.at \in 1 .. Len(Universe)
  BY <1>1, AtSymbol DEF PlaceOK
<1>3. Known(Symbol) = 0
  BY <1>1 DEF Where, BodiesOK
<1> DEFINE q == [Row EXCEPT !.raw = "stored", !.status = "raw_persisted"]
<1>4. q \in SequenceRows
  BY <1>2, Zenon DEF SequenceRows
<1>5. q.raw = "stored" /\ q.body = Row.body /\ q.terminal = Row.terminal
  BY <1>2 DEF SequenceRows
<1>6. Save(q, "prepare")
  BY DEF SaveRaw
<1> HIDE DEF q
<1>7. /\ sequences' \in [Symbols -> SequenceRows] /\ sequences'[Symbol] = q
      /\ \A s \in Symbols : s # Symbol => sequences'[s] = sequences[s]
      /\ process' \in Coordinators /\ process'.pc = "refresh" /\ process'.then = "prepare"
      /\ process'.at = process.at /\ statuses' = statuses
  BY <1>1, <1>4, <1>6, Saving DEF Stages
<1>8. StoredTypeOK'
  BY <1>1, <1>7, TypesKept DEF StoredTypeOK, boundVars
<1>9. PlaceOK' /\ Where' = "prepare" /\ Symbol' = Symbol
  BY <1>2, <1>7 DEF PlaceOK, Where, Symbol
<1>10. UploadsOK'
  BY <1>1, <1>5, <1>7, <1>9 DEF UploadsOK, sourceVars
<1>11. \A s \in Symbols : Known(s)' = Known(s) /\ sequences'[s].body = sequences[s].body
  BY <1>1, <1>5, <1>7 DEF Known, sourceVars, boundVars, Row
<1>12. BodiesOK'
  BY <1>1, <1>2, <1>3, <1>9, <1>11 DEF BodiesOK, sourceVars, Known
<1>13. Honest
  BY <1>1, <1>5, <1>7 DEF Honest, sourceVars, Row
<1> QED BY <1>8, <1>9, <1>10, <1>12, <1>13

\* prepare(): a body is made while none is known; Source retains a historical one.
LEMMA PrepareStep ==
  ASSUME StageInv, Prepare
  PROVE  StoredTypeOK' /\ PlaceOK' /\ UploadsOK' /\ BodiesOK' /\ Honest
<1> USE DEF StageInv
<1>1. /\ process.pc = "prepare" /\ nonce' = nonce + 1 /\ process' = [Goto("keep") EXCEPT !.body = nonce']
      /\ UNCHANGED <<sequences, asked, statuses, preflight, uploads, received, settledAs, historical, cutoff>>
  BY DEF Prepare, Now, boundVars
<1>2. Symbol \in Symbols /\ process.at \in 1 .. Len(Universe)
  BY <1>1, AtSymbol DEF PlaceOK
<1>3. Known(Symbol) = 0
  BY <1>1 DEF Where, BodiesOK
<1>4. nonce' \in Nat /\ nonce' # 0
  BY <1>1 DEF StoredTypeOK
<1>5. process' \in Coordinators /\ process'.pc = "keep" /\ process'.at = process.at /\ process'.body = nonce'
  BY <1>1, <1>4, GoneWith DEF Stages
<1>6. PlaceOK' /\ Where' = "keep" /\ Symbol' = Symbol /\ Row' = Row
  BY <1>1, <1>2, <1>5 DEF PlaceOK, Where, Symbol, Row
<1>7. offered[Symbol] = {} /\ Row.body = 0
  BY <1>2, <1>3 DEF BodiesOK, Row
<1>8. UploadsOK'
  BY <1>1, <1>6 DEF UploadsOK
<1>9. Honest
  BY <1>1 DEF Honest
<1>10. CASE historical
  <2>1. /\ offered' = [offered EXCEPT ![Symbol] = offered[Symbol] \cup {nonce'}]
        /\ retained' = [retained EXCEPT ![Symbol] = IF retained[Symbol] = 0 THEN nonce' ELSE retained[Symbol]]
    BY <1>10 DEF Prepare
  <2>2. retained[Symbol] = 0
    BY <1>3, <1>10 DEF Known
  <2>3. /\ offered' \in [Symbols -> SUBSET Nat] /\ offered'[Symbol] = {nonce'}
        /\ \A s \in Symbols : s # Symbol => offered'[s] = offered[s]
    BY <1>2, <1>4, <1>7, <2>1 DEF StoredTypeOK
  <2>4. /\ retained' \in [Symbols -> Nat] /\ retained'[Symbol] = nonce'
        /\ \A s \in Symbols : s # Symbol => retained'[s] = retained[s]
    BY <1>2, <1>4, <2>1, <2>2 DEF StoredTypeOK
  <2>5. StoredTypeOK'
    BY <1>1, <1>4, <1>5, <2>3, <2>4 DEF StoredTypeOK
  <2>6. /\ \A s \in Symbols : s # Symbol => Known(s)' = Known(s)
        /\ Known(Symbol)' = nonce'
    BY <1>1, <1>6, <1>10, <2>4 DEF Known
  <2>7. \A s \in Symbols : /\ offered'[s] \subseteq {Known(s)'} \ {0}
                           /\ sequences'[s].body \in {0, Known(s)'}
    BY <1>1, <1>4, <1>6, <1>7, <2>3, <2>6 DEF BodiesOK, Row
  <2>8. BodiesOK'
    BY <1>1, <1>4, <1>5, <1>6, <1>7, <2>4, <2>7 DEF BodiesOK
  <2> QED BY <1>6, <1>8, <1>9, <2>5, <2>8
<1>11. CASE ~historical
  <2>1. UNCHANGED <<offered, retained>>
    BY <1>11 DEF Prepare
  <2>2. StoredTypeOK'
    BY <1>1, <1>4, <1>5, <2>1 DEF StoredTypeOK
  <2>3. \A s \in Symbols : Known(s)' = Known(s)
    BY <1>1, <2>1 DEF Known
  <2>4. BodiesOK'
    BY <1>1, <1>4, <1>5, <1>6, <1>7, <1>11, <2>1, <2>3 DEF BodiesOK
  <2> QED BY <1>6, <1>8, <1>9, <2>2, <2>4
<1> QED BY <1>10, <1>11

\* save_prepared(): the row keeps the body that is to be sent.
LEMMA SavePreparedStep ==
  ASSUME StageInv, SavePrepared
  PROVE  StoredTypeOK' /\ PlaceOK' /\ UploadsOK' /\ BodiesOK' /\ Honest
<1> USE DEF StageInv
<1>1. process.pc = "keep" /\ UNCHANGED <<asked, preflight, sourceVars, boundVars>>
  BY DEF SavePrepared, Now
<1>2. Symbol \in Symbols /\ Row \in SequenceRows /\ process.at \in 1 .. Len(Universe)
  BY <1>1, AtSymbol DEF PlaceOK
<1>3. /\ process.body # 0 /\ Row.body = 0 /\ process.body \in Nat
      /\ historical => process.body = retained[Symbol]
  BY <1>1 DEF Where, BodiesOK, StoredTypeOK, Coordinators
<1> DEFINE q == [Row EXCEPT !.body = process.body, !.status = "prepared"]
<1>4. q \in SequenceRows
  BY <1>2, <1>3, Zenon DEF SequenceRows
<1>5. q.raw = Row.raw /\ q.body = process.body /\ q.terminal = Row.terminal
  BY <1>2 DEF SequenceRows
<1>6. Save(q, "send")
  <2>1. (IF Row.body = 0 THEN process.body ELSE Row.body) = process.body
    BY <1>3
  <2>2. Save([Row EXCEPT !.body = IF Row.body = 0 THEN process.body ELSE Row.body, !.status = "prepared"], "send")
    BY Zenon DEF SavePrepared
  <2> QED BY <2>1, <2>2, Zenon
<1> HIDE DEF q
<1>7. /\ sequences' \in [Symbols -> SequenceRows] /\ sequences'[Symbol] = q
      /\ \A s \in Symbols : s # Symbol => sequences'[s] = sequences[s]
      /\ process' \in Coordinators /\ process'.pc = "refresh" /\ process'.then = "send"
      /\ process'.at = process.at /\ process'.body = process.body /\ statuses' = statuses
  BY <1>1, <1>4, <1>6, Saving DEF Stages
<1>8. StoredTypeOK'
  BY <1>1, <1>7, TypesKept DEF StoredTypeOK, boundVars
<1>9. PlaceOK' /\ Where' = "send" /\ Symbol' = Symbol
  BY <1>2, <1>7 DEF PlaceOK, Where, Symbol
<1>10. UploadsOK'
  BY <1>1, <1>5, <1>7, <1>9 DEF UploadsOK, sourceVars, Row
<1>11. /\ \A s \in Symbols : s # Symbol => Known(s)' = Known(s) /\ sequences'[s].body = sequences[s].body
       /\ Known(Symbol)' = process.body /\ sequences'[Symbol].body = process.body
  BY <1>1, <1>3, <1>5, <1>7, <1>9 DEF Known, sourceVars, boundVars
<1>12. offered[Symbol] \subseteq {process.body} \ {0}
  BY <1>2, <1>3 DEF BodiesOK, Known, Row
<1>13. BodiesOK'
  BY <1>1, <1>3, <1>7, <1>9, <1>11, <1>12 DEF BodiesOK, sourceVars
<1>14. Honest
  BY <1>1, <1>5, <1>7 DEF Honest, sourceVars, Row
<1> QED BY <1>8, <1>9, <1>10, <1>13, <1>14

\* deliver(): Source is shown the known body, whether it answers or not.
LEMMA DeliverSteps ==
  ASSUME StageInv, DeliverBody \/ DeliverFails
  PROVE  StoredTypeOK' /\ PlaceOK' /\ UploadsOK' /\ BodiesOK' /\ Honest
<1> USE DEF StageInv
<1>1. /\ process.pc = "send" /\ offered' = [offered EXCEPT ![Symbol] = offered[Symbol] \cup {process.body}]
      /\ UNCHANGED <<sequences, asked, statuses, preflight, retained, uploads, settledAs, nonce,
                     historical, cutoff>>
  BY DEF DeliverBody, DeliverFails, Now, boundVars
<1>2. Symbol \in Symbols /\ process.at \in 1 .. Len(Universe)
  BY <1>1, AtSymbol DEF PlaceOK
<1>3. process.body # 0 /\ process.body = Known(Symbol) /\ process.body \in Nat
  BY <1>1 DEF Where, BodiesOK, StoredTypeOK, Coordinators
<1>4. /\ process' \in Coordinators /\ process'.pc \in {"poll", "idle"}
      /\ process'.pc # "idle" => process'.at = process.at
  <2>1. process' \in {Goto("poll"), NoProcess}
    BY DEF DeliverBody, DeliverFails, Over
  <2> QED BY <2>1, GoneTo, RestingProcess DEF Stages
<1>5. /\ offered' \in [Symbols -> SUBSET Nat] /\ offered'[Symbol] = offered[Symbol] \cup {process.body}
      /\ \A s \in Symbols : s # Symbol => offered'[s] = offered[s]
  BY <1>1, <1>2, <1>3 DEF StoredTypeOK
<1>6. received' \in [Symbols -> BOOLEAN]
  <2>1. received' = received \/ received' = [received EXCEPT ![Symbol] = TRUE]
    BY DEF DeliverBody, DeliverFails
  <2> QED BY <1>2, <2>1 DEF StoredTypeOK
<1>7. StoredTypeOK'
  BY <1>1, <1>4, <1>5, <1>6 DEF StoredTypeOK
<1>8. PlaceOK' /\ Where' \in {"poll", "idle"}
  BY <1>2, <1>4 DEF PlaceOK, Where
<1>9. UploadsOK'
  BY <1>1, <1>8 DEF UploadsOK
<1>10. \A s \in Symbols : Known(s)' = Known(s)
  BY <1>1 DEF Known
<1>11. BodiesOK'
  BY <1>1, <1>2, <1>3, <1>5, <1>8, <1>10 DEF BodiesOK
<1>12. Honest
  BY <1>1 DEF Honest
<1> QED BY <1>7, <1>8, <1>9, <1>11, <1>12

\* Source refuses for good: it has been shown the known body or nothing.
LEMMA RefusalStep ==
  ASSUME StageInv, SourceRefuses
  PROVE  StoredTypeOK' /\ PlaceOK' /\ UploadsOK' /\ BodiesOK' /\ Honest
<1> USE DEF StageInv
<1>1. /\ process.pc # "idle" /\ process' = NoProcess
      /\ UNCHANGED <<sequences, asked, statuses, preflight, retained, uploads, received, settledAs, nonce,
                     historical, cutoff>>
  BY DEF SourceRefuses, Now, Over
<1>2. Symbol \in Symbols
  BY <1>1, AtSymbol
<1>3. \/ offered' = offered
      \/ /\ process.pc = "send"
         /\ offered' = [offered EXCEPT ![Symbol] = offered[Symbol] \cup {process.body}]
  BY DEF SourceRefuses, Now
<1>4. process.pc = "send" => process.body # 0 /\ process.body = Known(Symbol) /\ process.body \in Nat
  BY DEF Where, BodiesOK, StoredTypeOK, Coordinators
<1>5. offered \in [Symbols -> SUBSET Nat] /\ \A s \in Symbols : offered[s] \subseteq {Known(s)} \ {0}
  BY DEF StoredTypeOK, BodiesOK
<1>6. offered' \in [Symbols -> SUBSET Nat] /\ \A s \in Symbols : offered'[s] \subseteq {Known(s)} \ {0}
  <2>1. CASE offered' = offered
    BY <1>5, <2>1
  <2>2. CASE /\ process.pc = "send"
             /\ offered' = [offered EXCEPT ![Symbol] = offered[Symbol] \cup {process.body}]
    <3>1. offered[Symbol] \cup {process.body} \in SUBSET Nat
      BY <1>2, <1>4, <1>5, <2>2
    <3>2. /\ offered' \in [Symbols -> SUBSET Nat] /\ offered'[Symbol] = offered[Symbol] \cup {process.body}
          /\ \A s \in Symbols : s # Symbol => offered'[s] = offered[s]
      BY <1>2, <1>5, <2>2, <3>1
    <3>3. \A s \in Symbols : offered'[s] \subseteq {Known(s)} \ {0}
      BY <1>2, <1>4, <1>5, <2>2, <3>2
    <3> QED BY <3>2, <3>3
  <2> QED BY <1>3, <2>1, <2>2
<1>7. StoredTypeOK'
  BY <1>1, <1>6, RestingProcess DEF StoredTypeOK
<1>8. PlaceOK' /\ Where' = "idle"
  BY <1>1, RestingProcess DEF PlaceOK, Where
<1>9. UploadsOK'
  BY <1>1, <1>8 DEF UploadsOK
<1>10. \A s \in Symbols : Known(s)' = Known(s)
  BY <1>1 DEF Known
<1>11. BodiesOK'
  BY <1>1, <1>6, <1>8, <1>10 DEF BodiesOK
<1> QED BY <1>1, <1>7, <1>8, <1>9, <1>11 DEF Honest

---------------------------------------------------------------------------
(* The budgets. *)

\* A call is in the window when it counts and its row is fresh.
LEMMA InWindow ==
  ASSUME NEW p
  PROVE  p \in WindowCalls <=>
            \E s \in Symbols : \E k \in DOMAIN asked[s] :
               Counted(asked[s][k]) /\ asked[s][k].fresh /\ p = <<s, k>>
BY DEF WindowCalls, CountedCalls

\* Calls of which none becomes counted or fresh stay within the budgets.
LEMMA CallsShrink ==
  ASSUME StageInv,
         \A s \in Symbols :
            /\ DOMAIN asked'[s] = DOMAIN asked[s]
            /\ \A k \in DOMAIN asked[s] : /\ Counted(asked'[s][k]) => Counted(asked[s][k])
                                          /\ asked'[s][k].fresh => asked[s][k].fresh
                                          /\ asked'[s][k].left => Counted(asked'[s][k]),
         process'.pc = "call" => /\ asked'[Symbol'] # <<>>
                                 /\ Counted(asked'[Symbol'][Len(asked'[Symbol'])])
  PROVE  BudgetKept'
<1> USE DEF StageInv
<1>1. ASSUME NEW s \in Symbols
      PROVE  /\ IsFiniteSet(CountedCalls(s))' /\ (BudgetUsed(s) <= CallLimit)'
             /\ \A k \in DOMAIN asked'[s] : asked'[s][k].left => Counted(asked'[s][k])
  <2>1. CountedCalls(s)' \subseteq CountedCalls(s)
    BY <1>1 DEF CountedCalls
  <2>2. IsFiniteSet(CountedCalls(s)) /\ Cardinality(CountedCalls(s)) <= CallLimit
    BY <1>1 DEF BudgetKept, BudgetUsed
  <2>3. /\ IsFiniteSet(CountedCalls(s)') /\ Cardinality(CountedCalls(s)') <= Cardinality(CountedCalls(s))
        /\ Cardinality(CountedCalls(s)') \in Nat /\ Cardinality(CountedCalls(s)) \in Nat
    BY <2>1, <2>2, FS_Subset, FS_CardinalityType
  <2>4. Cardinality(CountedCalls(s)') <= CallLimit
    BY <2>2, <2>3, StageAssumption
  <2> QED BY <1>1, <2>3, <2>4 DEF BudgetUsed
<1>2. IsFiniteSet(WindowCalls)' /\ (WindowUsed <= WindowLimit)'
  <2>1. ASSUME NEW p \in WindowCalls' PROVE p \in WindowCalls
    <3>1. \E s \in Symbols : \E k \in DOMAIN asked'[s] :
             Counted(asked'[s][k]) /\ asked'[s][k].fresh /\ p = <<s, k>>
      BY <2>1 DEF WindowCalls, CountedCalls
    <3> QED BY <3>1, InWindow
  <2>2. IsFiniteSet(WindowCalls) /\ Cardinality(WindowCalls) <= WindowLimit
    BY DEF BudgetKept, WindowUsed
  <2>3. /\ IsFiniteSet(WindowCalls') /\ Cardinality(WindowCalls') <= Cardinality(WindowCalls)
        /\ Cardinality(WindowCalls') \in Nat /\ Cardinality(WindowCalls) \in Nat
    BY <2>1, <2>2, FS_Subset, FS_CardinalityType
  <2>4. Cardinality(WindowCalls') <= WindowLimit
    BY <2>2, <2>3, StageAssumption
  <2> QED BY <2>3, <2>4 DEF WindowUsed
<1> QED BY <1>1, <1>2 DEF BudgetKept

\* No call is recorded or rewritten, and none is under way afterwards.
LEMMA NotCalling ==
  ASSUME StageInv, UNCHANGED asked, process'.pc # "call"
  PROVE  BudgetKept'
<1>1. \A s \in Symbols :
         /\ DOMAIN asked'[s] = DOMAIN asked[s]
         /\ \A k \in DOMAIN asked[s] : /\ Counted(asked'[s][k]) => Counted(asked[s][k])
                                       /\ asked'[s][k].fresh => asked[s][k].fresh
                                       /\ asked'[s][k].left => Counted(asked'[s][k])
  BY DEF StageInv, BudgetKept
<1> QED BY <1>1, CallsShrink

\* The call under way gets its outcome and is over.
LEMMA CallEnds ==
  ASSUME StageInv, process.pc = "call", process'.pc # "call",
         NEW o \in {"started", "success", "failed", "waiting"}, NEW l \in BOOLEAN,
         l => o # "waiting", asked' = LastCall(Symbol, o, l)
  PROVE  BudgetKept'
<1> USE DEF StageInv
<1>1. /\ Symbol \in Symbols /\ asked[Symbol] # <<>>
      /\ Counted(asked[Symbol][Len(asked[Symbol])])
  BY AtSymbol DEF BudgetKept
<1>2. /\ \A t \in Symbols : t # Symbol => asked'[t] = asked[t]
      /\ DOMAIN asked'[Symbol] = DOMAIN asked[Symbol]
      /\ \A k \in DOMAIN asked[Symbol] :
            IF k = Len(asked[Symbol])
            THEN /\ asked'[Symbol][k].outcome = o /\ asked'[Symbol][k].left = l
                 /\ asked'[Symbol][k].fresh = asked[Symbol][k].fresh
            ELSE asked'[Symbol][k] = asked[Symbol][k]
  BY <1>1, LastChanged
<1>3. \A s \in Symbols : \A k \in DOMAIN asked[s] : asked[s][k].left => Counted(asked[s][k])
  BY DEF BudgetKept
<1>4. \A s \in Symbols :
         /\ DOMAIN asked'[s] = DOMAIN asked[s]
         /\ \A k \in DOMAIN asked[s] : /\ Counted(asked'[s][k]) => Counted(asked[s][k])
                                       /\ asked'[s][k].fresh => asked[s][k].fresh
                                       /\ asked'[s][k].left => Counted(asked'[s][k])
  <2> SUFFICES ASSUME NEW s \in Symbols
               PROVE  /\ DOMAIN asked'[s] = DOMAIN asked[s]
                      /\ \A k \in DOMAIN asked[s] : /\ Counted(asked'[s][k]) => Counted(asked[s][k])
                                                    /\ asked'[s][k].fresh => asked[s][k].fresh
                                                    /\ asked'[s][k].left => Counted(asked'[s][k])
    OBVIOUS
  <2>1. CASE s # Symbol
    BY <1>2, <1>3, <2>1
  <2>2. CASE s = Symbol
    BY <1>1, <1>2, <1>3, <2>2 DEF Counted
  <2> QED BY <2>1, <2>2
<1> QED BY <1>4, CallsShrink

\* acquire_attempt(): one call more where the budgets allow one more.
LEMMA CallBegins ==
  ASSUME StageInv, process.pc = "row", ~Exhausted, WindowUsed < WindowLimit,
         asked' = [asked EXCEPT ![Symbol] =
                       Append(asked[Symbol], [outcome |-> "started", fresh |-> TRUE, left |-> FALSE])],
         process' = Goto("call")
  PROVE  BudgetKept'
<1> USE DEF StageInv
<1> DEFINE c == [outcome |-> "started", fresh |-> TRUE, left |-> FALSE]
           n == Len(asked[Symbol]) + 1
<1>1. Symbol \in Symbols
  BY AtSymbol
<1>2. asked[Symbol] \in Seq(CallRows) /\ c \in CallRows
  BY <1>1 DEF StoredTypeOK, CallRows
<1>3. c.outcome = "started" /\ c.fresh /\ ~c.left
  OBVIOUS
<1>4. asked' = [asked EXCEPT ![Symbol] = Append(asked[Symbol], c)]
  OBVIOUS
<1> HIDE DEF c
<1>5. /\ asked'[Symbol] = Append(asked[Symbol], c)
      /\ \A s \in Symbols : s # Symbol => asked'[s] = asked[s]
  BY <1>1, <1>4 DEF StoredTypeOK
<1>6. /\ asked'[Symbol] \in Seq(CallRows) /\ Len(asked'[Symbol]) = n /\ asked'[Symbol][n] = c
      /\ \A k \in 1 .. Len(asked[Symbol]) : asked'[Symbol][k] = asked[Symbol][k]
  <2> DEFINE a == Append(asked[Symbol], c)
  <2>1. /\ a \in Seq(CallRows) /\ Len(a) = Len(asked[Symbol]) + 1 /\ a[Len(asked[Symbol]) + 1] = c
        /\ \A k \in 1 .. Len(asked[Symbol]) : a[k] = asked[Symbol][k]
    BY <1>2, AppendProperties
  <2> QED BY <1>5, <2>1
<1>7. /\ DOMAIN asked[Symbol] = 1 .. Len(asked[Symbol]) /\ Len(asked[Symbol]) \in Nat
      /\ DOMAIN asked'[Symbol] = 1 .. n
  BY <1>2, <1>6
<1>8. DOMAIN asked'[Symbol] = DOMAIN asked[Symbol] \cup {n} /\ n \notin DOMAIN asked[Symbol]
  BY <1>7
<1>9. \A k \in DOMAIN asked[Symbol] : asked'[Symbol][k] = asked[Symbol][k]
  BY <1>6, <1>7
<1>10. Symbol' = Symbol /\ process'.pc = "call"
  BY GoneTo DEF Stages, Symbol
<1> HIDE DEF n
<1>11. ASSUME NEW s \in Symbols
       PROVE  /\ IsFiniteSet(CountedCalls(s))' /\ (BudgetUsed(s) <= CallLimit)'
              /\ \A k \in DOMAIN asked'[s] : asked'[s][k].left => Counted(asked'[s][k])
  <2>0. /\ IsFiniteSet(CountedCalls(s)) /\ BudgetUsed(s) <= CallLimit
        /\ \A k \in DOMAIN asked[s] : asked[s][k].left => Counted(asked[s][k])
    BY <1>11 DEF BudgetKept
  <2>1. CASE s # Symbol
    BY <1>5, <1>11, <2>0, <2>1 DEF CountedCalls, BudgetUsed
  <2>2. CASE s = Symbol
    <3>1. CountedCalls(s)' = CountedCalls(s) \cup {n} /\ n \notin CountedCalls(s)
      BY <1>3, <1>6, <1>8, <1>9, <2>2 DEF CountedCalls, Counted
    <3>2. /\ IsFiniteSet(CountedCalls(s)') /\ Cardinality(CountedCalls(s)') = Cardinality(CountedCalls(s)) + 1
          /\ Cardinality(CountedCalls(s)) \in Nat
      BY <2>0, <3>1, FS_AddElement, FS_CardinalityType
    <3>3. Cardinality(CountedCalls(s)) < CallLimit
      BY <2>2, <3>2, StageAssumption DEF Exhausted, BudgetUsed
    <3>4. Cardinality(CountedCalls(s)') <= CallLimit
      BY <3>2, <3>3, StageAssumption
    <3>5. \A k \in DOMAIN asked'[s] : asked'[s][k].left => Counted(asked'[s][k])
      BY <1>3, <1>6, <1>8, <1>9, <2>0, <2>2
    <3> QED BY <3>2, <3>4, <3>5 DEF BudgetUsed
  <2> QED BY <2>1, <2>2
<1>12. IsFiniteSet(WindowCalls)' /\ (WindowUsed <= WindowLimit)'
  <2>1. WindowCalls' \subseteq WindowCalls \cup {<<Symbol, n>>}
    <3> SUFFICES ASSUME NEW p \in WindowCalls', p # <<Symbol, n>> PROVE p \in WindowCalls
      OBVIOUS
    <3>1. PICK s \in Symbols : \E k \in DOMAIN asked'[s] :
             Counted(asked'[s][k]) /\ asked'[s][k].fresh /\ p = <<s, k>>
      BY DEF WindowCalls, CountedCalls
    <3>2. PICK k \in DOMAIN asked'[s] : Counted(asked'[s][k]) /\ asked'[s][k].fresh /\ p = <<s, k>>
      BY <3>1
    <3>3. CASE s # Symbol
      BY <1>5, <3>2, <3>3, InWindow
    <3>4. CASE s = Symbol
      <4>1. k \in DOMAIN asked[s] /\ asked'[s][k] = asked[s][k]
        BY <1>8, <1>9, <3>2, <3>4
      <4> QED BY <3>2, <4>1, InWindow
    <3> QED BY <3>3, <3>4
  <2>2. IsFiniteSet(WindowCalls) /\ Cardinality(WindowCalls) < WindowLimit
    BY DEF BudgetKept, WindowUsed
  <2>3. /\ IsFiniteSet(WindowCalls \cup {<<Symbol, n>>})
        /\ Cardinality(WindowCalls \cup {<<Symbol, n>>}) <= Cardinality(WindowCalls) + 1
        /\ Cardinality(WindowCalls) \in Nat
    <3>1. Cardinality(WindowCalls) \in Nat
      BY <2>2, FS_CardinalityType
    <3>2. /\ IsFiniteSet(WindowCalls \cup {<<Symbol, n>>})
          /\ Cardinality(WindowCalls \cup {<<Symbol, n>>}) \in {Cardinality(WindowCalls), Cardinality(WindowCalls) + 1}
      BY <2>2, FS_AddElement, Zenon
    <3> QED BY <3>1, <3>2
  <2>4. /\ IsFiniteSet(WindowCalls')
        /\ Cardinality(WindowCalls') <= Cardinality(WindowCalls \cup {<<Symbol, n>>})
        /\ Cardinality(WindowCalls') \in Nat /\ Cardinality(WindowCalls \cup {<<Symbol, n>>}) \in Nat
    BY <2>1, <2>3, FS_Subset, FS_CardinalityType
  <2>5. Cardinality(WindowCalls') <= WindowLimit
    BY <2>2, <2>3, <2>4, StageAssumption
  <2> QED BY <2>4, <2>5 DEF WindowUsed
<1>13. asked'[Symbol'] # <<>> /\ Counted(asked'[Symbol'][Len(asked'[Symbol'])])
  BY <1>3, <1>6, <1>8, <1>10 DEF Counted
<1> QED BY <1>11, <1>12, <1>13 DEF BudgetKept

\* Every step keeps the budgets.
LEMMA BudgetSteps ==
  ASSUME StageInv, StageNext
  PROVE  BudgetKept'
<1> USE DEF StageInv
<1>1. process.pc # "idle" => NextRow.pc # "call"
  BY GoneNext
<1>2. /\ \A x \in Stages \ {"next", "over"} : Goto(x).pc = x
      /\ \A x \in Stages \ {"next", "over"}, b \in Nat : [Goto(x) EXCEPT !.body = b].pc = x
  BY GoneTo, GoneWith
<1>3. Over.pc = "idle" /\ NoProcess.pc = "idle"
  BY RestingProcess DEF Over
<1>4. ASSUME NEW q, NEW then, Save(q, then) PROVE process'.pc = "refresh"
  BY <1>4 DEF Save, StoredTypeOK, Coordinators
<1>5. CASE SkipRow \/ Build \/ BeginRaw \/ Refresh \/ Upload \/ UploadFails \/ DeliverBody \/ DeliverFails
  <2>1. UNCHANGED asked
    BY <1>5 DEF SkipRow, Build, BeginRaw, Refresh, Upload, UploadFails, DeliverBody, DeliverFails
  <2>2. process.pc # "idle"
    BY <1>5 DEF Now, SkipRow, Build, BeginRaw, Refresh, Upload, UploadFails, DeliverBody, DeliverFails
  <2>3. CASE SkipRow
    BY <1>1, <1>2, <1>3, <2>1, <2>2, <2>3, NotCalling DEF SkipRow, Stages
  <2>4. CASE Build
    BY <1>1, <1>2, <1>4, <2>1, <2>2, <2>4, NotCalling DEF Build, Stages
  <2>5. CASE BeginRaw
    BY <1>2, <1>4, <2>1, <2>5, NotCalling DEF BeginRaw, Stages
  <2>6. CASE Refresh
    <3>1. process.then \in {"next", "over", "prepare", "send"}
      BY <2>6 DEF Refresh, Now, PlaceOK
    <3>2. process' \in {NextRow, Over, Goto("prepare"), Goto("send")}
      BY <2>6, <3>1 DEF Refresh
    <3> QED BY <1>1, <1>2, <1>3, <2>1, <2>2, <3>2, NotCalling DEF Stages
  <2>7. CASE Upload \/ UploadFails \/ DeliverBody \/ DeliverFails
    <3>1. process' \in {Goto("save_raw"), Goto("poll"), Over}
      BY <2>7 DEF Upload, UploadFails, DeliverBody, DeliverFails
    <3> QED BY <1>2, <1>3, <2>1, <3>1, NotCalling DEF Stages
  <2> QED BY <1>5, <2>3, <2>4, <2>5, <2>6, <2>7
<1>6. CASE ReusePrepared \/ RestorePrepared \/ Prepare
  <2>1. UNCHANGED asked
    BY <1>6 DEF ReusePrepared, RestorePrepared, Prepare
  <2>2. PICK x \in {"send", "keep"} : \E b : process' = [Goto(x) EXCEPT !.body = b]
    BY <1>6 DEF ReusePrepared, RestorePrepared, Prepare
  <2>3. process'.pc = x
    BY <2>2 DEF Goto, StoredTypeOK, Coordinators
  <2> QED BY <2>1, <2>3, NotCalling
<1>7. CASE SaveRaw \/ SavePrepared \/ DeliverInactive \/ Poll
  <2>1. UNCHANGED asked /\ \E q, then : Save(q, then)
    BY <1>7 DEF SaveRaw, SavePrepared, DeliverInactive, Poll
  <2> QED BY <1>4, <2>1, NotCalling
<1>8. CASE \E mode \in Modes : StartRun(mode)
  <2>1. PICK mode \in Modes : StartRun(mode)
    BY <1>8
  <2>2. process'.pc \in {"row", "idle"} /\ UNCHANGED asked
    BY <2>1 DEF StartRun, NoProcess
  <2> QED BY <2>2, NotCalling
<1>9. CASE AcquireAttempt
  <2>1. process.pc = "row"
    BY <1>9 DEF AcquireAttempt, Now
  <2>2. CASE process' \in {NextRow, Over} /\ UNCHANGED asked
    BY <1>1, <1>3, <2>1, <2>2, NotCalling
  <2>3. CASE /\ ~Exhausted /\ WindowUsed < WindowLimit /\ process' = Goto("call")
             /\ asked' = [asked EXCEPT ![Symbol] =
                              Append(@, [outcome |-> "started", fresh |-> TRUE, left |-> FALSE])]
    BY <2>1, <2>3, CallBegins
  <2> QED BY <1>9, <2>2, <2>3 DEF AcquireAttempt
<1>10. ASSUME NEW o, NEW l, NEW code, FinishAttempt(o, l, code), process.pc = "call",
              o \in {"failed", "waiting"}, l \in BOOLEAN, l => o # "waiting"
       PROVE  BudgetKept'
  BY <1>3, <1>10, CallEnds DEF FinishAttempt
<1>11. CASE CallTooLate \/ CallFailed \/ CallWaits
  BY <1>10, <1>11 DEF CallTooLate, CallFailed, CallWaits, Now
<1>12. CASE CallAnswered
  <2>1. /\ process.pc = "call" /\ asked' = LastCall(Symbol, "success", TRUE)
        /\ process' = Goto("build")
    BY <1>12 DEF CallAnswered, Now
  <2>2. process'.pc = "build"
    BY <1>2, <2>1 DEF Stages
  <2> QED BY <2>1, <2>2, CallEnds
<1>13. CASE CallLost
  BY <1>3, <1>13, CallEnds DEF CallLost, Now
<1>14. CASE Stop
  <2>1. process'.pc # "call"
    BY <1>3, <1>14 DEF Stop
  <2> QED BY <1>14, <2>1, CallEnds, NotCalling DEF Stop, Now
<1>15. CASE MarkCutoff
  <2>1. process'.pc = "idle"
    BY <1>15 DEF MarkCutoff, Now
  <2>2. asked' = [s \in Symbols |-> [k \in DOMAIN asked[s] |->
                    IF asked[s][k].outcome = "started" THEN [asked[s][k] EXCEPT !.outcome = "failed"]
                    ELSE asked[s][k]]]
    BY <1>15 DEF MarkCutoff
  <2>3. ASSUME NEW s \in Symbols
        PROVE  /\ DOMAIN asked'[s] = DOMAIN asked[s]
               /\ \A k \in DOMAIN asked[s] : /\ Counted(asked'[s][k]) => Counted(asked[s][k])
                                             /\ asked'[s][k].fresh => asked[s][k].fresh
                                             /\ asked'[s][k].left => Counted(asked'[s][k])
    <3>1. asked'[s] = [k \in DOMAIN asked[s] |->
                    IF asked[s][k].outcome = "started" THEN [asked[s][k] EXCEPT !.outcome = "failed"]
                    ELSE asked[s][k]]
      BY <2>2, <2>3
    <3>2. ASSUME NEW k \in DOMAIN asked[s]
          PROVE  /\ Counted(asked'[s][k]) => Counted(asked[s][k])
                 /\ asked'[s][k].fresh => asked[s][k].fresh
                 /\ asked'[s][k].left => Counted(asked'[s][k])
      <4>1. asked[s][k] \in CallRows
        BY <2>3, <3>2, CallRow
      <4>2. asked'[s][k] = IF asked[s][k].outcome = "started" THEN [asked[s][k] EXCEPT !.outcome = "failed"]
                           ELSE asked[s][k]
        BY <3>1, <3>2
      <4>3. asked[s][k].left => Counted(asked[s][k])
        BY <2>3, <3>2 DEF BudgetKept
      <4> QED BY <4>1, <4>2, <4>3 DEF Counted, CallRows
    <3> QED BY <3>1, <3>2
  <2> QED BY <2>1, <2>3, CallsShrink
<1>16. CASE Minute
  <2>1. UNCHANGED process
    BY <1>16 DEF Minute
  <2>2. asked' = [s \in Symbols |-> [k \in DOMAIN asked[s] |-> [asked[s][k] EXCEPT !.fresh = FALSE]]]
    BY <1>16 DEF Minute
  <2>3. ASSUME NEW s \in Symbols
        PROVE  /\ asked'[s] = [k \in DOMAIN asked[s] |-> [asked[s][k] EXCEPT !.fresh = FALSE]]
               /\ DOMAIN asked'[s] = DOMAIN asked[s]
               /\ \A k \in DOMAIN asked[s] : /\ asked'[s][k].outcome = asked[s][k].outcome
                                             /\ ~asked'[s][k].fresh
                                             /\ asked'[s][k].left = asked[s][k].left
    <3>1. asked'[s] = [k \in DOMAIN asked[s] |-> [asked[s][k] EXCEPT !.fresh = FALSE]]
      BY <2>2, <2>3
    <3>2. ASSUME NEW k \in DOMAIN asked[s]
          PROVE  /\ asked'[s][k].outcome = asked[s][k].outcome /\ ~asked'[s][k].fresh
                 /\ asked'[s][k].left = asked[s][k].left
      <4>1. asked[s][k] \in CallRows
        BY <2>3, <3>2, CallRow
      <4>2. asked'[s][k] = [asked[s][k] EXCEPT !.fresh = FALSE]
        BY <3>1, <3>2
      <4> QED BY <4>1, <4>2 DEF CallRows
    <3> QED BY <3>1, <3>2
  <2>4. \A s \in Symbols : \A k \in DOMAIN asked[s] : asked[s][k].left => Counted(asked[s][k])
    BY DEF BudgetKept
  <2>5. process'.pc = "call" => /\ asked'[Symbol'] # <<>>
                                /\ Counted(asked'[Symbol'][Len(asked'[Symbol'])])
    <3> SUFFICES ASSUME process.pc = "call"
                 PROVE  asked'[Symbol] # <<>> /\ Counted(asked'[Symbol][Len(asked'[Symbol])])
      BY <2>1 DEF Symbol
    <3>1. Symbol \in Symbols /\ asked[Symbol] # <<>> /\ Counted(asked[Symbol][Len(asked[Symbol])])
      BY AtSymbol DEF BudgetKept
    <3>2. asked[Symbol] \in Seq(CallRows) /\ Len(asked[Symbol]) \in DOMAIN asked[Symbol]
      BY <3>1 DEF StoredTypeOK
    <3>3. /\ asked'[Symbol] = [k \in DOMAIN asked[Symbol] |-> [asked[Symbol][k] EXCEPT !.fresh = FALSE]]
          /\ asked'[Symbol][Len(asked[Symbol])].outcome = asked[Symbol][Len(asked[Symbol])].outcome
      BY <2>3, <3>1, <3>2
    <3>4. asked'[Symbol] # <<>> /\ Len(asked'[Symbol]) = Len(asked[Symbol])
      BY <3>2, <3>3
    <3> QED BY <3>1, <3>3, <3>4 DEF Counted
  <2>6. \A s \in Symbols :
           /\ DOMAIN asked'[s] = DOMAIN asked[s]
           /\ \A k \in DOMAIN asked[s] : /\ Counted(asked'[s][k]) => Counted(asked[s][k])
                                         /\ asked'[s][k].fresh => asked[s][k].fresh
                                         /\ asked'[s][k].left => Counted(asked'[s][k])
    BY <2>3, <2>4 DEF Counted
  <2> QED BY <2>5, <2>6, CallsShrink
<1>17. CASE DayEnds \/ NextDay \/ \E s \in Symbols : SourceSettles(s)
  <2>1. UNCHANGED <<asked, process>>
    BY <1>17 DEF DayEnds, NextDay, SourceSettles
  <2>2. Symbol' = Symbol
    BY <2>1 DEF Symbol
  <2>3. \A s \in Symbols : CountedCalls(s)' = CountedCalls(s) /\ BudgetUsed(s)' = BudgetUsed(s)
    BY <2>1 DEF CountedCalls, BudgetUsed
  <2>4. WindowCalls' = WindowCalls /\ WindowUsed' = WindowUsed
    BY <2>1 DEF WindowCalls, WindowUsed, CountedCalls
  <2> QED BY <2>1, <2>2, <2>3, <2>4 DEF BudgetKept
<1>18. CASE SourceRefuses
  BY <1>3, <1>18, NotCalling DEF SourceRefuses
<1> QED BY <1>5, <1>6, <1>7, <1>8, <1>9, <1>11, <1>12, <1>13, <1>14, <1>15, <1>16, <1>17, <1>18
        DEF StageNext, StageStep

---------------------------------------------------------------------------
(* The day of the rows. *)

\* A run, the next day and a refusal write what is kept of the day.
LEMMA DaySteps ==
  ASSUME DayTypeOK, StageNext
  PROVE  DayTypeOK'
<1>1. CASE \E mode \in Modes : StartRun(mode)
  BY <1>1 DEF StartRun, DayTypeOK
<1>2. CASE NextDay \/ SourceRefuses
  BY <1>2 DEF NextDay, SourceRefuses, DayTypeOK
<1>3. CASE StageStep
  <2>1. UNCHANGED dayVars
    BY <1>3 DEF StageStep, boundVars, SkipRow, AcquireAttempt, CallTooLate, CallAnswered, CallFailed, Build,
                ReusePrepared, RestorePrepared, BeginRaw, Upload, SaveRaw, Prepare, SavePrepared,
                DeliverBody, DeliverInactive, Poll, Refresh
  <2> QED BY <2>1 DEF dayVars, DayTypeOK
<1>4. CASE CallWaits \/ CallLost \/ UploadFails \/ DeliverFails \/ MarkCutoff
           \/ (\E s \in Symbols : SourceSettles(s)) \/ Minute \/ DayEnds \/ Stop
  <2>1. UNCHANGED dayVars
    BY <1>4 DEF boundVars, CallWaits, CallLost, UploadFails, DeliverFails, MarkCutoff, SourceSettles, Minute,
                DayEnds, Stop
  <2> QED BY <2>1 DEF dayVars, DayTypeOK
<1> QED BY <1>1, <1>2, <1>3, <1>4 DEF StageNext

---------------------------------------------------------------------------
(* The theorems. *)

\* The first state: no symbol asked for, uploaded or shown.
LEMMA StageInitially == StageInit => StageInv
<1> SUFFICES ASSUME StageInit PROVE StageInv
  OBVIOUS
<1> USE DEF StageInit
<1>1. 0 \in 0 .. 2
  OBVIOUS
<1>2. NewSequence \in SequenceRows
  BY <1>1, Zenon DEF NewSequence, SequenceRows, Codes
<1>3. StoredTypeOK
  BY <1>2, RestingProcess, EmptySeq DEF StoredTypeOK
<1>4. PlaceOK /\ Where = "idle"
  BY RestingProcess DEF PlaceOK, Where
<1>5. BudgetKept
  <2>1. \A s \in Symbols : DOMAIN asked[s] = {}
    OBVIOUS
  <2>2. (\A s \in Symbols : CountedCalls(s) = {}) /\ WindowCalls = {}
    BY <2>1 DEF CountedCalls, WindowCalls
  <2>3. IsFiniteSet({}) /\ Cardinality({}) <= CallLimit /\ Cardinality({}) <= WindowLimit
    BY FS_EmptySet, StageAssumption
  <2>4. process.pc # "call"
    BY RestingProcess
  <2> QED BY <2>1, <2>2, <2>3, <2>4, Zenon DEF BudgetKept, BudgetUsed, WindowUsed
<1>6. UploadsOK /\ BodiesOK
  BY <1>4 DEF UploadsOK, BodiesOK, Known, NewSequence
<1>7. AcceptedOK
  BY DEF AcceptedOK, CompletedMeansAccepted, NewSequence
<1>8. DayTypeOK
  BY DEF DayTypeOK
<1> QED BY <1>3, <1>4, <1>5, <1>6, <1>7, <1>8 DEF StageInv

\* One step of the coordinator, of Source or of time keeps the invariant.
LEMMA StageSteps == StageInv /\ [StageNext]_stageVars => StageInv'
<1> SUFFICES ASSUME StageInv, [StageNext]_stageVars PROVE StageInv'
  OBVIOUS
<1>1. CASE UNCHANGED stageVars
  <2>1. StoredTypeOK' /\ DayTypeOK' /\ PlaceOK' /\ UploadsOK' /\ BodiesOK' /\ AcceptedOK'
    BY <1>1 DEF StageInv, stageVars, StoredTypeOK, DayTypeOK, PlaceOK, UploadsOK, BodiesOK, Where, Symbol, Row, Known,
                AcceptedOK, CompletedMeansAccepted
  <2>2. BudgetKept'
    BY <1>1 DEF StageInv, stageVars, BudgetKept, CountedCalls, BudgetUsed, WindowCalls, WindowUsed, Symbol
  <2> QED BY <2>1, <2>2 DEF StageInv
<1>2. CASE StageNext
  <2>1. BudgetKept' /\ DayTypeOK'
    BY <1>2, BudgetSteps, DaySteps DEF StageInv
  <2>2. \/ StoredTypeOK' /\ PlaceOK' /\ Plain /\ Honest
        \/ StoredTypeOK' /\ PlaceOK' /\ UploadsOK' /\ BodiesOK' /\ Honest
    BY <1>2, RunSteps, AcquireSteps, FinishSteps, AnswerSteps, SurroundingSteps, RefreshStep, ReuseSteps,
       BeginRawStep, UploadSteps, SaveRawStep, PrepareStep, SavePreparedStep, DeliverSteps,
       RefusalStep
       DEF StageNext, StageStep
  <2> QED BY <2>1, <2>2, PlainKeeps, HonestKeeps DEF StageInv
<1> QED BY <1>1, <1>2

\* The coordinator, its durable state and Source keep the inductive invariant
\* through every stop, wait, failure and late answer.
THEOREM StageInvariance == StageSpec => []StageInv
BY StageInitially, StageSteps, PTL DEF StageSpec

\* Rows, calls, process and Source's side stay in their declared ranges.
THEOREM StageTypeCorrect == StageSpec => []StageTypeOK
<1>1. StageInv => StageTypeOK
  BY DEF StageInv, StageTypeOK
<1> QED BY <1>1, StageInvariance, PTL

\* The provider is called within the budgets of a symbol and of a window, one
\* body and one raw object of a symbol exist, and a dataset or day reads
\* completed only when Source completed every run of it (acquire_attempt,
\* restore, save_prepared, begin_raw, _refresh_statuses).
THEOREM StagingIsSound == StageSpec => []StagedSound
<1>1. StageInv => StagedSound
  <2> SUFFICES ASSUME StageInv PROVE StagedSound
    OBVIOUS
  <2> USE DEF StageInv
  <2>1. ASSUME NEW s \in Symbols
        PROVE  Cardinality({k \in DOMAIN asked[s] : asked[s][k].left}) <= CallLimit
    <3> DEFINE L == {k \in DOMAIN asked[s] : asked[s][k].left}
    <3>1. L \subseteq CountedCalls(s) /\ IsFiniteSet(CountedCalls(s)) /\ Cardinality(CountedCalls(s)) <= CallLimit
      BY <2>1 DEF BudgetKept, CountedCalls, BudgetUsed
    <3> HIDE DEF L
    <3>2. /\ Cardinality(L) <= Cardinality(CountedCalls(s)) /\ Cardinality(L) \in Nat
          /\ Cardinality(CountedCalls(s)) \in Nat
      BY <3>1, FS_Subset, FS_CardinalityType
    <3>3. Cardinality(L) <= CallLimit
      BY <3>1, <3>2, StageAssumption
    <3> QED BY <3>3 DEF L
  <2>2. Cardinality({p \in UNION {{s} \X DOMAIN asked[s] : s \in Symbols} :
           asked[p[1]][p[2]].fresh /\ asked[p[1]][p[2]].left}) <= WindowLimit
    <3> DEFINE L == {p \in UNION {{s} \X DOMAIN asked[s] : s \in Symbols} :
                        asked[p[1]][p[2]].fresh /\ asked[p[1]][p[2]].left}
    <3>1. L \subseteq WindowCalls
      <4> SUFFICES ASSUME NEW p \in L PROVE p \in WindowCalls
        OBVIOUS
      <4>1. PICK s \in Symbols : p \in {s} \X DOMAIN asked[s]
        OBVIOUS
      <4>2. PICK k \in DOMAIN asked[s] : p = <<s, k>>
        BY <4>1
      <4>3. asked[s][k].fresh /\ asked[s][k].left
        BY <4>2
      <4>4. Counted(asked[s][k])
        BY <4>3 DEF BudgetKept
      <4> QED BY <4>2, <4>3, <4>4, InWindow
    <3>2. IsFiniteSet(WindowCalls) /\ Cardinality(WindowCalls) <= WindowLimit
      BY DEF BudgetKept, WindowUsed
    <3> HIDE DEF L
    <3>3. /\ Cardinality(L) <= Cardinality(WindowCalls) /\ Cardinality(L) \in Nat
          /\ Cardinality(WindowCalls) \in Nat
      BY <3>1, <3>2, FS_Subset, FS_CardinalityType
    <3>4. Cardinality(L) <= WindowLimit
      BY <3>2, <3>3, StageAssumption
    <3> QED BY <3>4 DEF L
  <2>3. OneStagedBody
    BY DEF OneStagedBody, BodiesOK, UploadsOK
  <2>4. CompletedMeansAccepted
    BY DEF AcceptedOK
  <2> QED BY <2>1, <2>2, <2>3, <2>4 DEF StagedSound, CallsWithinBudget
<1> QED BY <1>1, StageInvariance, PTL

=============================================================================
