------------------------ MODULE ProviderWork_proofs ------------------------
(***************************************************************************)
(* Proofs about ProviderWork for any works, kinds, scopes, keys, bodies    *)
(* and fetcher processes: first its safety, then the FIFO, the types of    *)
(* the tables and what the steps never do.                                 *)
(***************************************************************************)
EXTENDS ProviderWork, TLAPS

Identities == {NoIdentity} \cup [work : Works, fresh : BOOLEAN]
WorkRows == [state : {"absent", "queued", "running", "recovery_blocked",
                      "calendar_closed"} \cup Outcomes,
             manifest : {"none", "scope", "skip"}]
RoundRows == [state : {"none", "queued", "settled"} \cup ActiveRound,
              drain : BOOLEAN, due : BOOLEAN, source_error : BOOLEAN,
              outcome : {"none", "waived"} \cup Outcomes]
Receipts == {NoReceipt} \cup
              [body : Bodies, run : {"unscheduled", "open"} \cup TERMINAL_RUNS]

\* The columns the fence and settlement read.
SlotTables ==
    /\ work \in [Works -> WorkRows]
    /\ round \in [Works -> RoundRows]
    /\ owner \in [work : Works \cup {NoWork}, live : BOOLEAN, recovery : BOOLEAN]
    /\ held \in [Clients -> Identities]
    /\ prepared \in [Works -> [Keys -> Bodies \cup {NoBody}]]
    /\ receipt \in [Works -> [Keys -> Receipts]]

\* Rows that _cancel_queued_item_work leaves behind keep their types.
LEMMA AfterTypes ==
    ASSUME SlotTables
    PROVE  \A S : /\ WorkAfter(S) \in [Works -> WorkRows]
                  /\ RoundAfter(S) \in [Works -> RoundRows]
<1> TAKE S
<1>1. ASSUME NEW w \in Works PROVE WorkAfter(S)[w] \in WorkRows
  BY <1>1 DEF WorkAfter, WorkRows, SlotTables, Outcomes
<1>2. ASSUME NEW w \in Works PROVE RoundAfter(S)[w] \in RoundRows
  <2> DEFINE x == round[w]
  <2>1. x \in RoundRows BY DEF SlotTables
  <2>2. [x EXCEPT !.state = "settled", !.outcome = "cancelled"] \in RoundRows
    BY <2>1 DEF RoundRows, Outcomes
  <2>3. [x EXCEPT !.drain = TRUE] \in RoundRows
    BY <2>1 DEF RoundRows
  <2>4. RoundAfter(S)[w] \in {x, [x EXCEPT !.state = "settled", !.outcome = "cancelled"],
                               [x EXCEPT !.drain = TRUE]}
    BY DEF RoundAfter
  <2> QED BY <2>1, <2>2, <2>3, <2>4
<1> QED BY <1>1, <1>2 DEF WorkAfter, RoundAfter

\* A process that passes the fence holds an identity of a work in Works.
LEMMA FenceFacts ==
    ASSUME SlotTables, NEW c \in Clients, Fence(c)
    PROVE  /\ held[c].work \in Works
           /\ held[c].work = owner.work
           /\ held[c].fresh
           /\ owner.live /\ ~owner.recovery
  BY ConstantsAssumption DEF Fence, SlotTables, Identities, NoIdentity

\* The newest identity is held by one process.
OneFresh == \A c, d \in Clients : held[c].fresh /\ held[d].fresh => c = d

\* The inductive invariant.
IInv == /\ SlotTables
        /\ SlotMatchesRound
        /\ OpenRunsHoldSlot
        /\ EndedWorkDrained
        /\ OneFresh

\* A work row with another state is a work row.
LEMMA WorkColumn ==
    ASSUME NEW x \in WorkRows, NEW s \in {"queued", "running", "recovery_blocked",
                                          "calendar_closed"} \cup Outcomes
    PROVE  /\ [x EXCEPT !.state = s] \in WorkRows
           /\ [x EXCEPT !.state = s].state = s
  BY DEF WorkRows

\* A round row with another state is a round row of the same outcome.
LEMMA RoundColumn ==
    ASSUME NEW x \in RoundRows, NEW s \in {"queued", "settled"} \cup ActiveRound
    PROVE  /\ [x EXCEPT !.state = s] \in RoundRows
           /\ [x EXCEPT !.state = s].state = s
           /\ [x EXCEPT !.state = s].outcome = x.outcome
  BY DEF RoundRows

\* A new round is queued.
LEMMA NewRoundRow ==
    ASSUME NEW d \in BOOLEAN, NEW e \in BOOLEAN
    PROVE  /\ NewRound(d, e) \in RoundRows
           /\ NewRound(d, e).state = "queued"
  BY DEF NewRound, RoundRows

\* What is derived from the deliveries does not change with the other tables.
LEMMA SameDeliveries ==
    ASSUME UNCHANGED deliveries
    PROVE  \A w \in Works : /\ Drained(w)' = Drained(w)
                            /\ RunOpen(w)' = RunOpen(w)
                            /\ Retained(w)' = Retained(w)
                            /\ Pending(w)' = Pending(w)
  BY DEF deliveries, Drained, RunOpen, Retained, Pending, Prepared, Accepted

\* Steps that leave the deliveries alone: the state of each work is followed
\* through one step, and either it stays where it was, or it enters an end
\* state with everything drained (or waived), or it leaves the end states.
LEMMA QuietStep ==
    ASSUME IInv, UNCHANGED deliveries, SlotTables', OneFresh',
           SlotMatchesRound',
           \A w \in Works : owner.work = w /\ owner'.work # w => ~RunOpen(w),
           \A w \in Works :
               \/ work'[w].state = work[w].state /\ round'[w].outcome = round[w].outcome
               \/ work'[w].state \notin Outcomes \cup {"calendar_closed"}
               \/ work'[w].state \in Outcomes /\ round'[w].outcome = "waived"
               \/ work'[w].state \in Outcomes /\ Drained(w)
               \/ work'[w].state = "calendar_closed" /\ ~Retained(w)
    PROVE  IInv'
<1>1. OpenRunsHoldSlot'
  BY SameDeliveries DEF IInv, OpenRunsHoldSlot, Delivers
<1>2. EndedWorkDrained'
  <2> SUFFICES ASSUME NEW w \in Works
               PROVE  /\ work'[w].state \in Outcomes /\ round'[w].outcome # "waived" => Drained(w)'
                      /\ work'[w].state = "calendar_closed" => ~Retained(w)'
    BY DEF EndedWorkDrained
  <2>1. Drained(w)' = Drained(w) /\ Retained(w)' = Retained(w)
    BY SameDeliveries
  <2> QED BY <2>1 DEF IInv, EndedWorkDrained, Outcomes
<1> QED BY <1>1, <1>2 DEF IInv

\* Steps that touch neither the slot nor the deliveries.
LEMMA IdleStep ==
    ASSUME IInv, UNCHANGED <<work, round, owner, prepared, receipt>>,
           held' = held
    PROVE  IInv'
  BY DEF IInv, SlotTables, SlotMatchesRound, OpenRunsHoldSlot, EndedWorkDrained, OneFresh,
         Drained, RunOpen, Retained, Pending, Prepared, Accepted

\* What a sweep over ended items does to one work.
Kept(v) == /\ work'[v].state = work[v].state
           /\ round'[v].state = round[v].state
           /\ round'[v].outcome = round[v].outcome
Dropped(v) == /\ work[v].state = "queued" /\ work'[v].state = "cancelled"
              /\ round'[v].state = "settled"
              /\ ~Retained(v)

\* The slot of one work, and its end state, after a step.
SlotOf(w) ==
    /\ (owner'.work = w) <=> (round'[w].state \in ActiveRound)
    /\ (owner'.work = w) <=> (work'[w].state \in {"running", "recovery_blocked"})
    /\ (owner'.work = w /\ owner'.recovery) <=> (work'[w].state = "recovery_blocked")
    /\ round'[w].state = "recovery_blocked" => owner'.recovery
EndOf(w) ==
    \/ work'[w].state = work[w].state /\ round'[w].outcome = round[w].outcome
    \/ work'[w].state \notin Outcomes \cup {"calendar_closed"}
    \/ work'[w].state \in Outcomes /\ round'[w].outcome = "waived"
    \/ work'[w].state \in Outcomes /\ Drained(w)
    \/ work'[w].state = "calendar_closed" /\ ~Retained(w)

\* A swept or untouched work keeps its side of the slot.
LEMMA SweptRow ==
    ASSUME IInv, NEW v \in Works, Kept(v) \/ Dropped(v),
           (owner'.work = v) <=> (owner.work = v),
           owner.work = v => owner'.recovery = owner.recovery
    PROVE  SlotOf(v) /\ EndOf(v)
<1>1. CASE Kept(v)
  <2>1. /\ (owner.work = v) <=> (round[v].state \in ActiveRound)
        /\ (owner.work = v) <=> (work[v].state \in {"running", "recovery_blocked"})
        /\ (owner.work = v /\ owner.recovery) <=> (work[v].state = "recovery_blocked")
        /\ round[v].state = "recovery_blocked" => owner.recovery
    BY DEF IInv, SlotMatchesRound
  <2>2. round[v].state = "recovery_blocked" => owner.work = v
    BY <2>1 DEF ActiveRound
  <2>3. SlotOf(v)
    BY <1>1, <2>1, <2>2 DEF Kept, SlotOf
  <2> QED BY <1>1, <2>3 DEF Kept, EndOf
<1>2. CASE Dropped(v)
  <2>1. Drained(v)
    BY <1>2 DEF Dropped, Retained, Drained, RunOpen, Pending
  <2>2. owner.work # v
    BY <1>2 DEF IInv, SlotMatchesRound, Dropped
  <2> QED BY <1>2, <2>1, <2>2 DEF Dropped, SlotOf, EndOf, ActiveRound, Outcomes
<1> QED BY <1>1, <1>2

\* A step that may sweep, and writes the rows of one work.
LEMMA TableStep ==
    ASSUME IInv, SlotTables', OneFresh', UNCHANGED deliveries,
           NEW w \in Works, SlotOf(w), EndOf(w),
           owner.work = w /\ owner'.work # w => ~RunOpen(w),
           \A v \in Works \ {w} : Kept(v) \/ Dropped(v),
           \A v \in Works \ {w} :
               /\ (owner'.work = v) <=> (owner.work = v)
               /\ owner.work = v => owner'.recovery = owner.recovery
    PROVE  IInv'
<1>1. \A v \in Works : SlotOf(v) /\ EndOf(v)
  BY SweptRow
<1>2. SlotMatchesRound'
  BY <1>1 DEF SlotMatchesRound, SlotOf
<1>3. \A v \in Works : owner.work = v /\ owner'.work # v => ~RunOpen(v)
  OBVIOUS
<1> QED BY <1>1, <1>2, <1>3, QuietStep DEF EndOf

\* A step that only sweeps.
LEMMA SweepStep ==
    ASSUME IInv, SlotTables', UNCHANGED deliveries, owner' = owner, held' = held,
           \A v \in Works : Kept(v) \/ Dropped(v)
    PROVE  IInv'
<1>1. \A v \in Works : SlotOf(v) /\ EndOf(v)
  BY SweptRow
<1>2. SlotMatchesRound'
  BY <1>1 DEF SlotMatchesRound, SlotOf
<1>3. OneFresh'
  BY DEF IInv, OneFresh
<1> QED BY <1>1, <1>2, <1>3, QuietStep DEF EndOf

\* The tables a sweep leaves behind.
LEMMA AfterRows ==
    ASSUME SlotTables
    PROVE  \A S : \A v \in Works :
             \/ /\ WorkAfter(S)[v].state = work[v].state
                /\ RoundAfter(S)[v].state = round[v].state
                /\ RoundAfter(S)[v].outcome = round[v].outcome
             \/ /\ work[v].state = "queued" /\ WorkAfter(S)[v].state = "cancelled"
                /\ RoundAfter(S)[v].state = "settled" /\ ~Retained(v)
<1> TAKE S
<1> TAKE v \in Works
<1>0. work[v] \in WorkRows /\ round[v] \in RoundRows BY DEF SlotTables
<1>1. CASE Withdrawn(v, S)
  <2>1. /\ WorkAfter(S)[v] = [work[v] EXCEPT !.state = "cancelled"]
        /\ RoundAfter(S)[v] = [round[v] EXCEPT !.state = "settled", !.outcome = "cancelled"]
    BY <1>1 DEF WorkAfter, RoundAfter
  <2>2. [work[v] EXCEPT !.state = "cancelled"].state = "cancelled"
    BY <1>0 DEF WorkRows
  <2>3. [round[v] EXCEPT !.state = "settled", !.outcome = "cancelled"].state = "settled"
    BY <1>0 DEF RoundRows
  <2> QED BY <1>1, <2>1, <2>2, <2>3 DEF Withdrawn
<1>2. CASE ~Withdrawn(v, S)
  <2>1. WorkAfter(S)[v] = work[v] BY <1>2 DEF WorkAfter
  <2>2. RoundAfter(S)[v] \in {round[v], [round[v] EXCEPT !.drain = TRUE]}
    BY <1>2 DEF RoundAfter
  <2>3. /\ [round[v] EXCEPT !.drain = TRUE].state = round[v].state
        /\ [round[v] EXCEPT !.drain = TRUE].outcome = round[v].outcome
    BY <1>0 DEF RoundRows
  <2> QED BY <2>1, <2>2, <2>3
<1> QED BY <1>1, <1>2

\* The first enqueue preserves the invariant.
LEMMA EnqueueStep ==
    ASSUME IInv, NEW w \in Works, Enqueue(w)
    PROVE  IInv'
<1>1. /\ work' = [work EXCEPT ![w] = [state |-> "queued", manifest |-> "none"]]
      /\ round' = [round EXCEPT ![w] = NewRound(FALSE, FALSE)]
      /\ work[w].state = "absent"
      /\ owner' = owner /\ held' = held /\ prepared' = prepared /\ receipt' = receipt
      /\ UNCHANGED deliveries
  BY DEF Enqueue, deliveries
<1>2. SlotTables'
  <2>1. [state |-> "queued", manifest |-> "none"] \in WorkRows BY DEF WorkRows
  <2> QED BY <1>1, <2>1, NewRoundRow DEF IInv, SlotTables
<1>3. \A v \in Works \ {w} : Kept(v)
  BY <1>1 DEF IInv, SlotTables, Kept
<1>4. work'[w].state = "queued" /\ round'[w].state = "queued"
  BY <1>1, NewRoundRow DEF IInv, SlotTables
<1>5. owner.work # w
  BY <1>1 DEF IInv, SlotMatchesRound
<1>6. SlotOf(w) /\ EndOf(w)
  BY <1>1, <1>4, <1>5 DEF SlotOf, EndOf, ActiveRound, Outcomes
<1>7. OneFresh'
  BY <1>1 DEF IInv, OneFresh
<1> QED BY <1>1, <1>2, <1>3, <1>5, <1>6, <1>7, TableStep

\* Cancelling a request preserves the invariant.
LEMMA CancelStep ==
    ASSUME IInv, NEW w \in Works, CancelRequest(w)
    PROVE  IInv'
<1> DEFINE S == {w}
<1>1. /\ work' = WorkAfter(S) /\ round' = RoundAfter(S)
      /\ owner' = owner /\ held' = held /\ prepared' = prepared /\ receipt' = receipt
      /\ UNCHANGED deliveries
  BY DEF CancelRequest, deliveries
<1> HIDE DEF S
<1>2. SlotTables'
  BY <1>1, AfterTypes DEF IInv, SlotTables
<1>3. \A v \in Works : Kept(v) \/ Dropped(v)
  BY <1>1, AfterRows DEF IInv, Kept, Dropped
<1> QED BY <1>1, <1>2, <1>3, SweepStep

\* Expiry during an item claim preserves the invariant.
LEMMA ClaimNextItemStep ==
    ASSUME IInv, NEW c \in Clients, ClaimNextItem(c)
    PROVE  IInv'
<1>1. /\ work' = WorkAfter(Lapsed) /\ round' = RoundAfter(Lapsed)
      /\ owner' = owner /\ held' = held /\ prepared' = prepared /\ receipt' = receipt
      /\ UNCHANGED deliveries
  BY DEF ClaimNextItem, deliveries
<1>2. SlotTables'
  BY <1>1, AfterTypes DEF IInv, SlotTables
<1>3. \A v \in Works : Kept(v) \/ Dropped(v)
  BY <1>1, AfterRows DEF IInv, Kept, Dropped
<1> QED BY <1>1, <1>2, <1>3, SweepStep

\* The reconciliation of an idle claim preserves the invariant.
LEMMA ReconcileStep ==
    ASSUME IInv, ReconcileCancelledQueue
    PROVE  IInv'
<1>1. /\ work' = WorkAfter(Ended) /\ round' = RoundAfter(Ended)
      /\ owner' = owner /\ held' = held /\ prepared' = prepared /\ receipt' = receipt
      /\ UNCHANGED deliveries
  BY DEF ReconcileCancelledQueue, deliveries
<1>2. SlotTables'
  BY <1>1, AfterTypes DEF IInv, SlotTables
<1>3. \A v \in Works : Kept(v) \/ Dropped(v)
  BY <1>1, AfterRows DEF IInv, Kept, Dropped
<1> QED BY <1>1, <1>2, <1>3, SweepStep


\* A claim leaves one fresh identity and hands over the slot.
LEMMA MintFacts ==
    ASSUME SlotTables, NEW c \in Clients, NEW w \in Works, Mint(c, w)
    PROVE  /\ held' \in [Clients -> Identities]
           /\ OneFresh'
           /\ owner' \in [work : Works \cup {NoWork}, live : BOOLEAN, recovery : BOOLEAN]
           /\ owner'.work = w /\ owner'.live /\ ~owner'.recovery
<1>1. ASSUME NEW x \in Clients, x # c
      PROVE  held'[x] \in Identities /\ ~held'[x].fresh
  <2>1. held[x] \in Identities BY DEF SlotTables
  <2>2. held'[x] = IF held[x] = NoIdentity THEN NoIdentity
                   ELSE [work |-> held[x].work, fresh |-> FALSE]
    BY <1>1 DEF Mint
  <2>3. CASE held[x] = NoIdentity
    BY <2>2, <2>3 DEF Identities, NoIdentity
  <2>4. CASE held[x] # NoIdentity
    BY <2>1, <2>2, <2>4 DEF Identities
  <2> QED BY <2>3, <2>4
<1>2. held'[c] = [work |-> w, fresh |-> TRUE]
  BY DEF Mint
<1>3. held' \in [Clients -> Identities]
  <2>1. held'[c] \in Identities BY <1>2 DEF Identities
  <2>2. \A x \in Clients : held'[x] \in Identities BY <1>1, <2>1
  <2>3. held' = [x \in Clients |-> held'[x]] BY DEF Mint
  <2> QED BY <2>2, <2>3
<1>4. OneFresh'
  BY <1>1 DEF OneFresh
<1>5. owner' = [work |-> w, live |-> TRUE, recovery |-> FALSE]
  BY DEF Mint
<1> QED BY <1>3, <1>4, <1>5

\* Ordinary steps of the slot: the heartbeat runs out.
LEMMA HeartbeatExpiresStep ==
    ASSUME IInv, HeartbeatExpires
    PROVE  IInv'
<1>1. /\ owner' = [owner EXCEPT !.live = FALSE]
      /\ work' = work /\ round' = round /\ held' = held
      /\ prepared' = prepared /\ receipt' = receipt /\ UNCHANGED deliveries
  BY DEF HeartbeatExpires, deliveries
<1>2. owner'.work = owner.work /\ owner'.recovery = owner.recovery
  BY <1>1 DEF IInv, SlotTables
<1>3. SlotTables'
  BY <1>1 DEF IInv, SlotTables
<1>4. OneFresh'
  BY <1>1 DEF IInv, OneFresh
<1>5. SlotMatchesRound'
  BY <1>1, <1>2 DEF IInv, SlotMatchesRound
<1> QED BY <1>1, <1>2, <1>3, <1>4, <1>5, QuietStep

\* A process forgets its identity.
LEMMA ForgetStep ==
    ASSUME IInv, NEW c \in Clients, Forget(c)
    PROVE  IInv'
<1>1. /\ held' = [held EXCEPT ![c] = NoIdentity]
      /\ work' = work /\ round' = round /\ owner' = owner
      /\ prepared' = prepared /\ receipt' = receipt /\ UNCHANGED deliveries
  BY DEF Forget, slot, deliveries
<1>2. SlotTables'
  BY <1>1 DEF IInv, SlotTables, Identities
<1>3. \A x \in Clients : held'[x].fresh => held[x].fresh
  BY <1>1 DEF IInv, SlotTables, NoIdentity
<1>4. OneFresh'
  BY <1>3 DEF IInv, OneFresh
<1>5. SlotMatchesRound'
  BY <1>1 DEF IInv, SlotMatchesRound
<1> QED BY <1>1, <1>2, <1>4, <1>5, QuietStep

\* A queued round comes due.
LEMMA RoundComesDueStep ==
    ASSUME IInv, NEW w \in Works, RoundComesDue(w)
    PROVE  IInv'
<1>1. /\ round' = [round EXCEPT ![w] = [round[w] EXCEPT !.due = TRUE]]
      /\ work' = work /\ owner' = owner /\ held' = held
      /\ prepared' = prepared /\ receipt' = receipt /\ UNCHANGED deliveries
  BY DEF RoundComesDue, deliveries
<1>2. /\ [round[w] EXCEPT !.due = TRUE] \in RoundRows
      /\ [round[w] EXCEPT !.due = TRUE].state = round[w].state
      /\ [round[w] EXCEPT !.due = TRUE].outcome = round[w].outcome
  BY DEF IInv, SlotTables, RoundRows
<1>3. SlotTables'
  BY <1>1, <1>2 DEF IInv, SlotTables
<1>4. \A v \in Works : Kept(v)
  BY <1>1, <1>2 DEF IInv, SlotTables, Kept
<1> QED BY <1>1, <1>3, <1>4, SweepStep

\* The manifest is frozen: no state changes.
LEMMA FreezeManifestStep ==
    ASSUME IInv, NEW c \in Clients, FreezeManifest(c)
    PROVE  IInv'
<1> DEFINE w == held[c].work
<1>0. w \in Works
  BY FenceFacts DEF IInv, FreezeManifest, AcquisitionFence
<1>1. PICK m \in {"scope", "skip"} :
         /\ work' = [work EXCEPT ![w] = [work[w] EXCEPT !.manifest = m]]
         /\ round' = round /\ owner' = owner /\ held' = held
         /\ prepared' = prepared /\ receipt' = receipt /\ UNCHANGED deliveries
  BY DEF FreezeManifest, deliveries
<1> HIDE DEF w
<1>2. /\ [work[w] EXCEPT !.manifest = m] \in WorkRows
      /\ [work[w] EXCEPT !.manifest = m].state = work[w].state
  BY <1>0 DEF IInv, SlotTables, WorkRows
<1>3. SlotTables'
  BY <1>0, <1>1, <1>2 DEF IInv, SlotTables
<1>4. \A v \in Works : Kept(v)
  BY <1>0, <1>1, <1>2 DEF IInv, SlotTables, Kept
<1> QED BY <1>1, <1>3, <1>4, SweepStep

\* The rows of the owner's work after a step that keeps it the owner.
LEMMA OwnerStep ==
    ASSUME IInv, UNCHANGED <<work, owner, held, prepared, receipt>>,
           NEW w \in Works, owner.work = w, ~owner.recovery,
           NEW s \in {"closed", "draining"},
           round' = [round EXCEPT ![w] = [round[w] EXCEPT !.state = s]]
    PROVE  IInv'
<1>1. round[w] \in RoundRows BY DEF IInv, SlotTables
<1>2. /\ [round[w] EXCEPT !.state = s] \in RoundRows
      /\ [round[w] EXCEPT !.state = s].state = s
      /\ [round[w] EXCEPT !.state = s].outcome = round[w].outcome
  BY <1>1, RoundColumn DEF ActiveRound
<1>3. SlotTables'
  BY <1>2 DEF IInv, SlotTables
<1>4. round'[w].state = s /\ round'[w].outcome = round[w].outcome
  BY <1>2 DEF IInv, SlotTables
<1>5. \A v \in Works \ {w} : Kept(v)
  BY DEF IInv, SlotTables, Kept
<1>6. SlotOf(w)
  BY <1>4 DEF IInv, SlotMatchesRound, SlotOf, ActiveRound
<1>7. EndOf(w)
  BY <1>4 DEF EndOf
<1>8. OneFresh' /\ UNCHANGED deliveries
  BY DEF IInv, OneFresh, deliveries
<1> QED BY <1>3, <1>5, <1>6, <1>7, <1>8, TableStep

\* Closing the round keeps the slot.
LEMMA CloseStep ==
    ASSUME IInv, NEW c \in Clients, Close(c)
    PROVE  IInv'
<1> DEFINE w == held[c].work
<1>0. w \in Works /\ owner.work = w /\ ~owner.recovery
  BY FenceFacts DEF IInv, Close
<1>1. /\ round' = [round EXCEPT ![w] = [round[w] EXCEPT !.state = "closed"]]
      /\ UNCHANGED <<work, owner, held, prepared, receipt>>
  BY DEF Close, deliveries
<1> QED BY <1>0, <1>1, OwnerStep

\* A settlement that must wait keeps the slot.
LEMMA SettleDrainingStep ==
    ASSUME IInv, NEW c \in Clients, NEW outcome, NEW waive,
           SettleDraining(c, outcome, waive)
    PROVE  IInv'
<1> DEFINE w == held[c].work
<1>0. w \in Works /\ owner.work = w /\ ~owner.recovery
  BY FenceFacts DEF IInv, SettleDraining
<1>1. /\ round' = [round EXCEPT ![w] = [round[w] EXCEPT !.state = "draining"]]
      /\ UNCHANGED <<work, owner, held, prepared, receipt>>
  BY DEF SettleDraining, deliveries
<1> QED BY <1>0, <1>1, OwnerStep


\* An expired owner is blocked in all three rows.
LEMMA BlockExpiredOwnerStep ==
    ASSUME IInv, BlockExpiredOwner
    PROVE  IInv'
<1> DEFINE w == owner.work
           r == IF round[w].state = "open" THEN "recovery_blocked" ELSE round[w].state
<1>0. w \in Works
  BY DEF IInv, SlotTables, BlockExpiredOwner
<1>1. /\ owner' = [owner EXCEPT !.recovery = TRUE]
      /\ work' = [work EXCEPT ![w] = [work[w] EXCEPT !.state = "recovery_blocked"]]
      /\ round' = [round EXCEPT ![w] = [round[w] EXCEPT !.state = r]]
      /\ held' = held /\ prepared' = prepared /\ receipt' = receipt /\ UNCHANGED deliveries
  BY DEF BlockExpiredOwner, deliveries
<1>2. /\ owner'.work = w /\ owner'.recovery
      /\ owner' \in [work : Works \cup {NoWork}, live : BOOLEAN, recovery : BOOLEAN]
  BY <1>1 DEF IInv, SlotTables
<1>3. r \in ActiveRound
  BY <1>0 DEF IInv, SlotMatchesRound, ActiveRound
<1> HIDE DEF w, r
<1>4. work[w] \in WorkRows /\ round[w] \in RoundRows
  BY <1>0 DEF IInv, SlotTables
<1>5. /\ [work[w] EXCEPT !.state = "recovery_blocked"] \in WorkRows
      /\ [work[w] EXCEPT !.state = "recovery_blocked"].state = "recovery_blocked"
  BY <1>4, WorkColumn
<1>6. /\ [round[w] EXCEPT !.state = r] \in RoundRows
      /\ [round[w] EXCEPT !.state = r].state = r
  BY <1>3, <1>4, RoundColumn
<1>7. SlotTables'
  BY <1>0, <1>1, <1>2, <1>5, <1>6 DEF IInv, SlotTables
<1>8. work'[w].state = "recovery_blocked" /\ round'[w].state = r
  BY <1>0, <1>1, <1>5, <1>6 DEF IInv, SlotTables
<1>9. \A v \in Works \ {w} : Kept(v)
  BY <1>0, <1>1 DEF IInv, SlotTables, Kept
<1>10. SlotOf(w) /\ EndOf(w)
  BY <1>2, <1>3, <1>8 DEF SlotOf, EndOf, Outcomes
<1>11. OneFresh'
  BY <1>1 DEF IInv, OneFresh
<1>12. owner.work = w BY DEF w
<1> QED BY <1>0, <1>1, <1>2, <1>7, <1>9, <1>10, <1>11, <1>12, TableStep

\* A recovered owner runs again under a new identity.
LEMMA RecoverStep ==
    ASSUME IInv, NEW c \in Clients, Recover(c)
    PROVE  IInv'
<1> DEFINE w == owner.work
           r == Resume(round[w].state)
           d == round[w].drain \/ Cooling(w)
           y == [round[w] EXCEPT !.state = r, !.drain = d]
<1>0. w \in Works
  BY DEF IInv, SlotTables, Recover
<1>1. /\ work' = [work EXCEPT ![w] = [work[w] EXCEPT !.state = "running"]]
      /\ Mint(c, w)
      /\ prepared' = prepared /\ receipt' = receipt /\ UNCHANGED deliveries
  BY DEF Recover, deliveries
<1>2. round' = [round EXCEPT ![w] = y]
  BY <1>0 DEF Recover, IInv, SlotTables
<1>3. r \in ActiveRound \ {"recovery_blocked"}
  BY <1>0 DEF IInv, SlotMatchesRound, ActiveRound, Resume
<1>4. work[w] \in WorkRows /\ round[w] \in RoundRows
  BY <1>0 DEF IInv, SlotTables
<1>5. d \in BOOLEAN
  OBVIOUS
<1> HIDE DEF r, d
<1>6. y \in RoundRows /\ y.state = r
  BY <1>3, <1>4, <1>5 DEF RoundRows
<1> HIDE DEF w, y
<1>7. /\ [work[w] EXCEPT !.state = "running"] \in WorkRows
      /\ [work[w] EXCEPT !.state = "running"].state = "running"
  BY <1>4, WorkColumn
<1>8. /\ held' \in [Clients -> Identities] /\ OneFresh'
      /\ owner' \in [work : Works \cup {NoWork}, live : BOOLEAN, recovery : BOOLEAN]
      /\ owner'.work = w /\ ~owner'.recovery
  BY <1>0, <1>1, MintFacts DEF IInv
<1>9. SlotTables'
  BY <1>0, <1>1, <1>2, <1>6, <1>7, <1>8 DEF IInv, SlotTables
<1>10. work'[w].state = "running" /\ round'[w].state = r
  BY <1>0, <1>1, <1>2, <1>6, <1>7 DEF IInv, SlotTables
<1>11. \A v \in Works \ {w} : Kept(v)
  BY <1>0, <1>1, <1>2 DEF IInv, SlotTables, Kept
<1>12. SlotOf(w) /\ EndOf(w)
  BY <1>3, <1>8, <1>10 DEF SlotOf, EndOf, Outcomes
<1>13. owner.work = w BY DEF w
<1> QED BY <1>0, <1>1, <1>8, <1>9, <1>11, <1>12, <1>13, TableStep

\* Calendar closure only takes works that retained nothing.
LEMMA CloseCalendarStep ==
    ASSUME IInv, NEW w \in Works, CloseCalendar(w)
    PROVE  IInv'
<1>1. /\ work' = [work EXCEPT ![w] = [work[w] EXCEPT !.state = "calendar_closed"]]
      /\ round' = round /\ owner' = owner /\ held' = held
      /\ prepared' = prepared /\ receipt' = receipt /\ UNCHANGED deliveries
      /\ owner.work = NoWork /\ ~Retained(w)
  BY DEF CloseCalendar, deliveries
<1>2. /\ [work[w] EXCEPT !.state = "calendar_closed"] \in WorkRows
      /\ [work[w] EXCEPT !.state = "calendar_closed"].state = "calendar_closed"
  BY WorkColumn DEF IInv, SlotTables
<1>3. SlotTables'
  BY <1>1, <1>2 DEF IInv, SlotTables
<1>4. work'[w].state = "calendar_closed"
  BY <1>1, <1>2 DEF IInv, SlotTables
<1>5. \A v \in Works \ {w} : Kept(v)
  BY <1>1 DEF IInv, SlotTables, Kept
<1>6. owner.work # w
  BY <1>1, ConstantsAssumption
<1>7. round[w].state \notin ActiveRound
  BY <1>6 DEF IInv, SlotMatchesRound
<1>8. SlotOf(w) /\ EndOf(w)
  BY <1>1, <1>4, <1>6, <1>7 DEF SlotOf, EndOf, ActiveRound
<1>9. OneFresh'
  BY <1>1 DEF IInv, OneFresh
<1> QED BY <1>1, <1>3, <1>5, <1>6, <1>8, <1>9, TableStep

\* A repair queues a work that has no owner.
LEMMA ApplyRepairStep ==
    ASSUME IInv, NEW w \in Works, ApplyRepair(w)
    PROVE  IInv'
<1> DEFINE d == ~AcquisitionOpen(w, TRUE)
<1>1. /\ work' = [work EXCEPT ![w] = [work[w] EXCEPT !.state = "queued"]]
      /\ round' = [round EXCEPT ![w] = NewRound(d, FALSE)]
      /\ owner' = owner /\ held' = held
      /\ prepared' = prepared /\ receipt' = receipt /\ UNCHANGED deliveries
      /\ owner.work # w
  BY DEF ApplyRepair, deliveries
<1>2. d \in BOOLEAN
  OBVIOUS
<1> HIDE DEF d
<1>3. NewRound(d, FALSE) \in RoundRows /\ NewRound(d, FALSE).state = "queued"
  BY <1>2, NewRoundRow
<1>4. /\ [work[w] EXCEPT !.state = "queued"] \in WorkRows
      /\ [work[w] EXCEPT !.state = "queued"].state = "queued"
  BY WorkColumn DEF IInv, SlotTables
<1>5. SlotTables'
  BY <1>1, <1>3, <1>4 DEF IInv, SlotTables
<1>6. work'[w].state = "queued" /\ round'[w].state = "queued"
  BY <1>1, <1>3, <1>4 DEF IInv, SlotTables
<1>7. \A v \in Works \ {w} : Kept(v)
  BY <1>1 DEF IInv, SlotTables, Kept
<1>8. SlotOf(w) /\ EndOf(w)
  BY <1>1, <1>6 DEF SlotOf, EndOf, ActiveRound, Outcomes
<1>9. OneFresh'
  BY <1>1 DEF IInv, OneFresh
<1> QED BY <1>1, <1>5, <1>7, <1>8, <1>9, TableStep


\* A fresh claim sweeps ended items, then hands the free slot to one work.
LEMMA ClaimFreshStep ==
    ASSUME IInv, NEW c \in Clients, ClaimFresh(c)
    PROVE  IInv'
<1> DEFINE S == Ended
           wk == WorkAfter(S)
           rd == RoundAfter(S)
<1>1. PICK w \in Works :
        /\ work' = [wk EXCEPT ![w].state = "running"]
        /\ round' = [rd EXCEPT ![w].state = "open",
                               ![w].drain = DrainOnly(w, rd[w].drain)]
        /\ Mint(c, w)
  BY DEF ClaimFresh
<1>2. /\ prepared' = prepared /\ receipt' = receipt /\ UNCHANGED deliveries
      /\ owner.work = NoWork
  BY DEF ClaimFresh, deliveries
<1> DEFINE d == DrainOnly(w, rd[w].drain)
           y == [rd[w] EXCEPT !.state = "open", !.drain = d]
           x == [wk[w] EXCEPT !.state = "running"]
<1>3. wk \in [Works -> WorkRows] /\ rd \in [Works -> RoundRows]
  BY AfterTypes DEF IInv
<1>4. \A v \in Works :
        \/ /\ wk[v].state = work[v].state
           /\ rd[v].state = round[v].state
           /\ rd[v].outcome = round[v].outcome
        \/ /\ work[v].state = "queued" /\ wk[v].state = "cancelled"
           /\ rd[v].state = "settled" /\ ~Retained(v)
  BY AfterRows DEF IInv
<1>5. d \in BOOLEAN
  BY DEF DrainOnly
<1> HIDE DEF S, wk, rd, d
<1>6. work' = [wk EXCEPT ![w] = x] /\ round' = [rd EXCEPT ![w] = y]
  BY <1>1, <1>3 DEF d
<1>7. x \in WorkRows /\ x.state = "running"
  BY <1>3, WorkColumn
<1>8. y \in RoundRows /\ y.state = "open"
  BY <1>3, <1>5 DEF RoundRows, ActiveRound
<1> HIDE DEF x, y
<1>9. /\ held' \in [Clients -> Identities] /\ OneFresh'
      /\ owner' \in [work : Works \cup {NoWork}, live : BOOLEAN, recovery : BOOLEAN]
      /\ owner'.work = w /\ ~owner'.recovery
  BY <1>1, MintFacts DEF IInv
<1>10. SlotTables'
  <2>1. work' \in [Works -> WorkRows] /\ round' \in [Works -> RoundRows]
    BY <1>3, <1>6, <1>7, <1>8
  <2> QED BY <1>2, <1>9, <2>1 DEF IInv, SlotTables
<1>11. work'[w].state = "running" /\ round'[w].state = "open"
  BY <1>3, <1>6, <1>7, <1>8
<1>12. \A v \in Works \ {w} : Kept(v) \/ Dropped(v)
  <2> TAKE v \in Works \ {w}
  <2>1. work'[v] = wk[v] /\ round'[v] = rd[v] BY <1>3, <1>6
  <2> QED BY <1>4, <2>1 DEF Kept, Dropped
<1>13. SlotOf(w) /\ EndOf(w)
  BY <1>9, <1>11 DEF SlotOf, EndOf, Outcomes, ActiveRound
<1>14. owner.work \notin Works
  BY <1>2, ConstantsAssumption
<1> QED BY <1>1, <1>2, <1>9, <1>10, <1>12, <1>13, <1>14, TableStep

\* Settlement keeps the outcomes it is given, or fails a rerun.
LEMMA ResultType ==
    ASSUME NEW w \in Works, NEW outcome \in Outcomes
    PROVE  Result(w, outcome) \in Outcomes
  BY DEF Result, Outcomes

\* Settlement of the owner's round, after a sweep or without one: the slot is
\* released with nothing open, and an ended work has drained or was waived.
LEMMA SettledStep ==
    ASSUME IInv, NEW w \in Works, owner.work = w,
           NEW wk \in [Works -> WorkRows], NEW rd \in [Works -> RoundRows], NEW q,
           \A v \in Works :
             \/ /\ wk[v].state = work[v].state
                /\ rd[v].state = round[v].state
                /\ rd[v].outcome = round[v].outcome
             \/ /\ work[v].state = "queued" /\ wk[v].state = "cancelled"
                /\ rd[v].state = "settled" /\ ~Retained(v),
           NEW outcome \in Outcomes \cup {"retry"},
           NEW waive \in BOOLEAN, NEW source_error \in BOOLEAN,
           ~SettleBlocked(w, outcome, waive),
           Settled(w, wk, rd, q, outcome, waive, source_error),
           UNCHANGED <<held, prepared, receipt>>
    PROVE  IInv'
<1>1. ~RunOpen(w)
  BY DEF SettleBlocked
<1>2. /\ owner'.work = NoWork /\ ~owner'.recovery
      /\ owner' \in [work : Works \cup {NoWork}, live : BOOLEAN, recovery : BOOLEAN]
  BY DEF Settled
<1>3. NoWork # w /\ NoWork \notin Works
  BY ConstantsAssumption
<1>4. OneFresh' /\ UNCHANGED deliveries
  BY DEF IInv, OneFresh, deliveries
<1>5. \E x \in WorkRows, y \in RoundRows :
        /\ work' = [wk EXCEPT ![w] = x]
        /\ round' = [rd EXCEPT ![w] = y]
        /\ x.state \notin {"running", "recovery_blocked", "calendar_closed"}
        /\ y.state \notin ActiveRound
        /\ x.state \in Outcomes => Drained(w) \/ y.outcome = "waived"
  <2>1. CASE outcome = "retry"
    <3> DEFINE x == [wk[w] EXCEPT !.state = "queued"]
               y == RetryRound(w, source_error)
               d == round[w].drain \/ ~AcquisitionOpen(w, TRUE)
    <3>1. work' = [wk EXCEPT ![w] = x] /\ round' = [rd EXCEPT ![w] = y]
      BY <2>1 DEF Settled
    <3>2. x \in WorkRows /\ x.state = "queued"
      BY WorkColumn
    <3>3. d \in BOOLEAN
      OBVIOUS
    <3>4. y = NewRound(d, source_error)
      BY DEF RetryRound
    <3> HIDE DEF d, y, x
    <3>5. y \in RoundRows /\ y.state = "queued"
      BY <3>3, <3>4, NewRoundRow
    <3> QED BY <3>1, <3>2, <3>5 DEF Outcomes, ActiveRound
  <2>2. CASE outcome # "retry"
    <3> DEFINE s == Result(w, outcome)
               o == IF waive /\ Pending(w) # {} THEN "waived" ELSE Result(w, outcome)
               x == [wk[w] EXCEPT !.state = s]
               y == [rd[w] EXCEPT !.state = "settled", !.outcome = o]
    <3>1. work' = [wk EXCEPT ![w] = x]
      BY <2>2 DEF Settled
    <3>2. round' = [rd EXCEPT ![w].state = "settled", ![w].outcome = o]
      BY <2>2 DEF Settled
    <3>3. s \in Outcomes /\ o \in {"waived"} \cup Outcomes
      BY <2>2, ResultType
    <3>4. Drained(w) \/ o = "waived"
      BY <1>1, <2>2 DEF SettleBlocked, Waives, Drained
    <3> HIDE DEF s, o
    <3>5. round' = [rd EXCEPT ![w] = y]
      BY <3>2
    <3>6. x \in WorkRows /\ x.state = s
      BY <3>3, WorkColumn
    <3>7. y \in RoundRows /\ y.state = "settled" /\ y.outcome = o
      BY <3>3 DEF RoundRows
    <3> HIDE DEF x, y
    <3> QED BY <3>1, <3>3, <3>4, <3>5, <3>6, <3>7 DEF Outcomes, ActiveRound
  <2> QED BY <2>1, <2>2
<1>6. PICK x \in WorkRows, y \in RoundRows :
        /\ work' = [wk EXCEPT ![w] = x]
        /\ round' = [rd EXCEPT ![w] = y]
        /\ x.state \notin {"running", "recovery_blocked", "calendar_closed"}
        /\ y.state \notin ActiveRound
        /\ x.state \in Outcomes => Drained(w) \/ y.outcome = "waived"
  BY <1>5
<1>7. work'[w] = x /\ round'[w] = y
  BY <1>6
<1>8. \A v \in Works \ {w} : Kept(v) \/ Dropped(v)
  <2> TAKE v \in Works \ {w}
  <2>1. work'[v] = wk[v] /\ round'[v] = rd[v] BY <1>6
  <2> QED BY <2>1 DEF Kept, Dropped
<1>9. SlotTables'
  <2>1. work' \in [Works -> WorkRows] /\ round' \in [Works -> RoundRows]
    BY <1>6
  <2> QED BY <1>2, <2>1 DEF IInv, SlotTables
<1>10. SlotOf(w)
  BY <1>2, <1>3, <1>6, <1>7 DEF SlotOf, ActiveRound
<1>11. EndOf(w)
  BY <1>6, <1>7 DEF EndOf
<1> QED BY <1>1, <1>2, <1>3, <1>4, <1>8, <1>9, <1>10, <1>11, TableStep


\* Settlement by the owner.
LEMMA SettleRoundStep ==
    ASSUME IInv, NEW c \in Clients, NEW outcome \in Outcomes \cup {"retry"},
           NEW waive \in BOOLEAN, NEW source_error \in BOOLEAN,
           SettleRound(c, outcome, waive, source_error)
    PROVE  IInv'
<1> DEFINE w == held[c].work
<1>1. w \in Works /\ owner.work = w
  BY FenceFacts DEF IInv, SettleRound
<1>2. /\ ~SettleBlocked(w, outcome, waive)
      /\ Settled(w, work, round, queue, outcome, waive, source_error)
      /\ UNCHANGED <<held, prepared, receipt>>
  BY DEF SettleRound, deliveries
<1>3. work \in [Works -> WorkRows] /\ round \in [Works -> RoundRows]
  BY DEF IInv, SlotTables
<1> HIDE DEF w
<1> QED BY <1>1, <1>2, <1>3, SettledStep

\* Completion of a historical item: a sweep, then draining or settlement.
LEMMA CompleteItemStep ==
    ASSUME IInv, NEW c \in Clients, NEW outcome \in {"completed", "partial", "failed"},
           NEW waive \in BOOLEAN, CompleteItem(c, outcome, waive)
    PROVE  IInv'
<1> DEFINE w == held[c].work
           ended == ItemAfterExpiry[w] \in {"cancelled", "expired"}
           result == IF ended /\ ~Waives(outcome, waive) THEN "cancelled" ELSE outcome
           S == Lapsed
           wk == WorkAfter(S)
           rd == RoundAfter(S)
<1>1. w \in Works /\ owner.work = w /\ ~owner.recovery
  BY FenceFacts DEF IInv, CompleteItem
<1>2. wk \in [Works -> WorkRows] /\ rd \in [Works -> RoundRows]
  BY AfterTypes DEF IInv
<1>3. \A v \in Works :
        \/ /\ wk[v].state = work[v].state
           /\ rd[v].state = round[v].state
           /\ rd[v].outcome = round[v].outcome
        \/ /\ work[v].state = "queued" /\ wk[v].state = "cancelled"
           /\ rd[v].state = "settled" /\ ~Retained(v)
  BY AfterRows DEF IInv
<1>4. UNCHANGED <<held, prepared, receipt>>
  BY DEF CompleteItem, deliveries
<1>5. result \in Outcomes
  BY DEF Outcomes
<1>6. IF SettleBlocked(w, result, waive)
      THEN /\ work' = wk
           /\ round' = [rd EXCEPT ![w].state = "draining"]
           /\ owner' = owner
      ELSE Settled(w, wk, rd, QueueAfter(S), result, waive, FALSE)
  BY DEF CompleteItem
<1> HIDE DEF w, result, S, wk, rd
<1>7. CASE ~SettleBlocked(w, result, waive)
  BY <1>1, <1>2, <1>3, <1>4, <1>5, <1>6, <1>7, SettledStep
<1>8. CASE SettleBlocked(w, result, waive)
  <2> DEFINE y == [rd[w] EXCEPT !.state = "draining"]
  <2>1. work' = wk /\ owner' = owner /\ round' = [rd EXCEPT ![w] = y]
    BY <1>6, <1>8
  <2>2. y \in RoundRows /\ y.state = "draining" /\ y.outcome = rd[w].outcome
    BY <1>1, <1>2, RoundColumn DEF ActiveRound
  <2> HIDE DEF y
  <2>3. SlotTables'
    <3>1. round' \in [Works -> RoundRows] BY <1>2, <2>1, <2>2
    <3> QED BY <1>2, <1>4, <2>1, <3>1 DEF IInv, SlotTables
  <2>4. work[w].state = "running"
    BY <1>1 DEF IInv, SlotMatchesRound
  <2>5. /\ work'[w].state = "running" /\ round'[w].state = "draining"
        /\ round'[w].outcome = round[w].outcome
    BY <1>1, <1>2, <1>3, <2>1, <2>2, <2>4
  <2>6. SlotOf(w) /\ EndOf(w)
    BY <1>1, <2>1, <2>4, <2>5 DEF SlotOf, EndOf, ActiveRound
  <2>7. \A v \in Works \ {w} : Kept(v) \/ Dropped(v)
    <3> TAKE v \in Works \ {w}
    <3>1. work'[v] = wk[v] /\ round'[v] = rd[v] BY <1>2, <2>1
    <3> QED BY <1>3, <3>1 DEF Kept, Dropped
  <2>8. OneFresh' /\ UNCHANGED deliveries
    BY <1>4 DEF IInv, OneFresh, deliveries
  <2> QED BY <1>1, <2>1, <2>3, <2>6, <2>7, <2>8, TableStep
<1> QED BY <1>7, <1>8

-----------------------------------------------------------------------------
(* Steps that change the deliveries of one work.                           *)

\* The deliveries of the owner's work, or of a rerun, may change freely.
LEMMA DeliveryStep ==
    ASSUME IInv, SlotTables', SlotMatchesRound', owner' = owner, held' = held,
           NEW w \in Works,
           \A v \in Works \ {w} : /\ prepared'[v] = prepared[v] /\ receipt'[v] = receipt[v]
                                  /\ work'[v] = work[v] /\ round'[v] = round[v],
           work'[w].state \notin Outcomes \cup {"calendar_closed"},
           ~Delivers(w) \/ owner.work = w
    PROVE  IInv'
<1>1. \A v \in Works \ {w} : /\ Drained(v)' = Drained(v)
                             /\ RunOpen(v)' = RunOpen(v)
                             /\ Retained(v)' = Retained(v)
  BY DEF Drained, RunOpen, Retained, Pending, Prepared, Accepted
<1>2. OpenRunsHoldSlot'
  <2> SUFFICES ASSUME NEW v \in Works, Delivers(v), RunOpen(v)'
               PROVE  owner'.work = v
    BY DEF OpenRunsHoldSlot, Delivers
  <2> QED BY <1>1 DEF IInv, OpenRunsHoldSlot
<1>3. EndedWorkDrained'
  <2> SUFFICES ASSUME NEW v \in Works
               PROVE  /\ work'[v].state \in Outcomes /\ round'[v].outcome # "waived" => Drained(v)'
                      /\ work'[v].state = "calendar_closed" => ~Retained(v)'
    BY DEF EndedWorkDrained
  <2>1. CASE v = w
    BY <2>1
  <2>2. CASE v # w
    BY <1>1, <2>2 DEF IInv, EndedWorkDrained
  <2> QED BY <2>1, <2>2
<1>4. OneFresh'
  BY DEF IInv, OneFresh
<1> QED BY <1>2, <1>3, <1>4 DEF IInv

\* The owner's work is running while the fence holds.
LEMMA OwnerRuns ==
    ASSUME IInv, NEW c \in Clients, Fence(c)
    PROVE  /\ held[c].work \in Works /\ owner.work = held[c].work
           /\ work[held[c].work].state = "running"
<1>1. held[c].work \in Works /\ owner.work = held[c].work /\ ~owner.recovery
  BY FenceFacts DEF IInv
<1> QED BY <1>1 DEF IInv, SlotMatchesRound

\* An intent binds bytes to the owner's work.
LEMMA PrepareIntentStep ==
    ASSUME IInv, NEW c \in Clients, NEW k \in Keys, NEW b \in Bodies,
           PrepareIntent(c, k, b)
    PROVE  IInv'
<1> DEFINE w == held[c].work
<1>1. w \in Works /\ owner.work = w /\ work[w].state = "running"
  BY OwnerRuns DEF PrepareIntent
<1>2. /\ prepared' = [prepared EXCEPT ![w][k] = b]
      /\ UNCHANGED <<work, round, owner, held, receipt>>
  BY DEF PrepareIntent, slot
<1> HIDE DEF w
<1>3. SlotTables'
  BY <1>1, <1>2 DEF IInv, SlotTables
<1>4. SlotMatchesRound'
  BY <1>2 DEF IInv, SlotMatchesRound
<1>5. \A v \in Works \ {w} : prepared'[v] = prepared[v]
  BY <1>1, <1>2 DEF IInv, SlotTables
<1>6. work'[w].state \notin Outcomes \cup {"calendar_closed"}
  BY <1>1, <1>2 DEF Outcomes
<1> QED BY <1>1, <1>2, <1>3, <1>4, <1>5, <1>6, DeliveryStep

\* A new receipt belongs to the owner's work.
LEMMA IngestStep ==
    ASSUME IInv, NEW c \in Clients, NEW k \in Keys, NEW b \in Bodies,
           Ingest(c, k, b)
    PROVE  IInv'
<1> DEFINE w == held[c].work
           z == [body |-> b, run |-> "open"]
<1>1. w \in Works /\ owner.work = w /\ work[w].state = "running"
  BY OwnerRuns DEF Ingest
<1>2. /\ receipt' = [receipt EXCEPT ![w] = [receipt[w] EXCEPT ![k] = z]]
      /\ UNCHANGED <<work, round, owner, held, prepared>>
  BY DEF Ingest, slot
<1>3. z \in Receipts
  BY DEF Receipts
<1> HIDE DEF w, z
<1>4. SlotTables'
  BY <1>1, <1>2, <1>3 DEF IInv, SlotTables
<1>5. SlotMatchesRound'
  BY <1>2 DEF IInv, SlotMatchesRound
<1>6. \A v \in Works \ {w} : receipt'[v] = receipt[v]
  BY <1>1, <1>2 DEF IInv, SlotTables
<1>7. work'[w].state \notin Outcomes \cup {"calendar_closed"}
  BY <1>1, <1>2 DEF Outcomes
<1> QED BY <1>1, <1>2, <1>4, <1>5, <1>6, <1>7, DeliveryStep


\* A receipt whose run moves on is a receipt.
LEMMA RunColumn ==
    ASSUME NEW z \in Receipts, z # NoReceipt,
           NEW r \in {"unscheduled", "open"} \cup TERMINAL_RUNS
    PROVE  /\ [z EXCEPT !.run = r] \in Receipts
           /\ [z EXCEPT !.run = r].run = r
           /\ [z EXCEPT !.run = r].body = z.body
           /\ z.body \in Bodies
           /\ [z EXCEPT !.run = r] # NoReceipt
<1>1. z \in [body : Bodies, run : {"unscheduled", "open"} \cup TERMINAL_RUNS]
  BY DEF Receipts
<1>2. [z EXCEPT !.run = r] = [body |-> z.body, run |-> r]
  BY <1>1
<1> QED BY <1>1, <1>2, ConstantsAssumption DEF Receipts, NoReceipt

\* execute-rerun opens the run of the owner's rerun.
LEMMA ExecuteRerunStep ==
    ASSUME IInv, NEW c \in Clients, ExecuteRerun(c)
    PROVE  IInv'
<1> DEFINE w == held[c].work
<1>1. w \in Works /\ owner.work = w /\ work[w].state = "running"
  BY OwnerRuns DEF ExecuteRerun, AcquisitionFence
<1>2. PICK k \in Accepted(w) :
        receipt' = [receipt EXCEPT ![w][k].run = "open"]
  BY DEF ExecuteRerun
<1>3. UNCHANGED <<work, round, owner, held, prepared>>
  BY DEF ExecuteRerun, slot
<1> HIDE DEF w
<1>4. k \in Keys /\ receipt[w][k] # NoReceipt
  BY DEF Accepted
<1> DEFINE z == [receipt[w][k] EXCEPT !.run = "open"]
<1>5. receipt' = [receipt EXCEPT ![w] = [receipt[w] EXCEPT ![k] = z]]
  BY <1>2
<1>6. z \in Receipts
  <2>1. receipt[w][k] \in Receipts
    BY <1>1, <1>4 DEF IInv, SlotTables
  <2> QED BY <1>4, <2>1, RunColumn
<1> HIDE DEF z
<1>7. SlotTables'
  BY <1>1, <1>3, <1>4, <1>5, <1>6 DEF IInv, SlotTables
<1>8. SlotMatchesRound'
  BY <1>3 DEF IInv, SlotMatchesRound
<1>9. \A v \in Works \ {w} : receipt'[v] = receipt[v]
  BY <1>1, <1>5 DEF IInv, SlotTables
<1>10. work'[w].state \notin Outcomes \cup {"calendar_closed"}
  BY <1>1, <1>3 DEF Outcomes
<1> QED BY <1>1, <1>3, <1>7, <1>8, <1>9, <1>10, DeliveryStep

\* A rerun is queued with its receipt.
LEMMA RerunFromRawStep ==
    ASSUME IInv, NEW w \in Works, RerunFromRaw(w)
    PROVE  IInv'
<1>1. /\ work' = [work EXCEPT ![w] = [state |-> "queued", manifest |-> "scope"]]
      /\ round' = [round EXCEPT ![w] = NewRound(FALSE, FALSE)]
      /\ work[w].state = "absent" /\ ~Delivers(w)
      /\ owner' = owner /\ held' = held /\ prepared' = prepared
  BY DEF RerunFromRaw, Delivers
<1>2. PICK b \in Bodies :
        receipt' = [receipt EXCEPT ![w] =
          [k \in Keys |-> IF k \in Scope[w] THEN [body |-> b, run |-> "unscheduled"]
                                            ELSE NoReceipt]]
  BY DEF RerunFromRaw
<1>3. receipt' \in [Works -> [Keys -> Receipts]]
  BY <1>2 DEF IInv, SlotTables, Receipts
<1>4. SlotTables'
  <2>1. [state |-> "queued", manifest |-> "scope"] \in WorkRows BY DEF WorkRows
  <2> QED BY <1>1, <1>3, <2>1, NewRoundRow DEF IInv, SlotTables
<1>5. work'[w].state = "queued" /\ round'[w].state = "queued"
  BY <1>1, NewRoundRow DEF IInv, SlotTables
<1>6. \A v \in Works \ {w} : /\ receipt'[v] = receipt[v]
                             /\ work'[v] = work[v] /\ round'[v] = round[v]
  BY <1>1, <1>2 DEF IInv, SlotTables
<1>7. owner.work # w
  BY <1>1 DEF IInv, SlotMatchesRound
<1>8. SlotMatchesRound'
  <2> SUFFICES ASSUME NEW v \in Works PROVE SlotOf(v)
    BY DEF SlotMatchesRound, SlotOf
  <2>1. CASE v = w
    BY <1>1, <1>5, <1>7, <2>1 DEF SlotOf, ActiveRound
  <2>2. CASE v # w
    <3>1. Kept(v) BY <1>6, <2>2 DEF Kept
    <3> QED BY <1>1, <3>1, SweptRow
  <2> QED BY <2>1, <2>2
<1>9. work'[w].state \notin Outcomes \cup {"calendar_closed"}
  BY <1>5 DEF Outcomes
<1> QED BY <1>1, <1>4, <1>6, <1>8, <1>9, DeliveryStep

\* A finished run opens nothing and drains no less.
LEMMA RunFinishesStep ==
    ASSUME IInv, NEW w \in Works, NEW k \in Keys, RunFinishes(w, k)
    PROVE  IInv'
<1>1. UNCHANGED <<work, round, owner, held, prepared>> /\ receipt[w][k] # NoReceipt
  BY DEF RunFinishes, slot
<1>2. PICK r \in TERMINAL_RUNS : receipt' = [receipt EXCEPT ![w][k].run = r]
  BY DEF RunFinishes
<1> DEFINE z == [receipt[w][k] EXCEPT !.run = r]
<1>3. receipt' = [receipt EXCEPT ![w] = [receipt[w] EXCEPT ![k] = z]]
  BY <1>2
<1>4. z \in Receipts /\ z.run = r /\ z # NoReceipt
  BY <1>1, RunColumn DEF IInv, SlotTables
<1> HIDE DEF z
<1>5. SlotTables'
  BY <1>1, <1>3, <1>4 DEF IInv, SlotTables
<1>6. SlotMatchesRound' /\ OneFresh'
  BY <1>1 DEF IInv, SlotMatchesRound, OneFresh
<1>7. \A v \in Works, j \in Keys :
        /\ (receipt'[v][j] # NoReceipt) <=> (receipt[v][j] # NoReceipt)
        /\ receipt'[v][j].run \notin TERMINAL_RUNS => receipt[v][j].run \notin TERMINAL_RUNS
  <2> TAKE v \in Works, j \in Keys
  <2>1. CASE v = w /\ j = k
    BY <1>1, <1>3, <1>4, <2>1 DEF IInv, SlotTables
  <2>2. CASE ~(v = w /\ j = k)
    <3>1. receipt'[v][j] = receipt[v][j]
      BY <1>3, <2>2 DEF IInv, SlotTables
    <3> QED BY <3>1
  <2> QED BY <2>1, <2>2
<1>8. \A v \in Works : /\ Accepted(v)' = Accepted(v) /\ Prepared(v)' = Prepared(v)
                       /\ RunOpen(v)' => RunOpen(v)
  BY <1>1, <1>7 DEF Accepted, Prepared, RunOpen
<1>9. \A v \in Works : /\ Drained(v) => Drained(v)'
                       /\ Retained(v)' = Retained(v)
  BY <1>8 DEF Drained, Retained, Pending
<1>10. OpenRunsHoldSlot'
  BY <1>1, <1>8 DEF IInv, OpenRunsHoldSlot, Delivers
<1>11. EndedWorkDrained'
  BY <1>1, <1>9 DEF IInv, EndedWorkDrained
<1> QED BY <1>5, <1>6, <1>10, <1>11 DEF IInv

-----------------------------------------------------------------------------
(* The theorems.                                                           *)

\* The empty tables satisfy the invariant.
LEMMA InitIInv == Init => IInv
<1> SUFFICES ASSUME Init PROVE IInv OBVIOUS
<1>1. SlotTables
  <2>1. /\ [state |-> "absent", manifest |-> "none"] \in WorkRows
        /\ [state |-> "none", drain |-> FALSE, due |-> FALSE,
            source_error |-> FALSE, outcome |-> "none"] \in RoundRows
    BY DEF WorkRows, RoundRows
  <2>2. NoReceipt \in Receipts /\ NoIdentity \in Identities
    BY DEF Receipts, Identities
  <2> QED BY <2>1, <2>2 DEF Init, SlotTables
<1>2. owner.work \notin Works
  BY ConstantsAssumption DEF Init
<1>3. \A w \in Works : work[w].state = "absent" /\ round[w].state = "none"
  BY DEF Init
<1>4. SlotMatchesRound
  BY <1>2, <1>3 DEF SlotMatchesRound, ActiveRound
<1>5. \A w \in Works : ~RunOpen(w)
  BY DEF Init, RunOpen, Accepted
<1>6. OneFresh
  BY DEF Init, OneFresh, NoIdentity
<1> QED BY <1>1, <1>3, <1>4, <1>5, <1>6 DEF IInv, OpenRunsHoldSlot, EndedWorkDrained, Outcomes

\* Every step preserves the invariant.
LEMMA NextIInv ==
    ASSUME IInv, [Next]_vars
    PROVE  IInv'
<1>1. CASE UNCHANGED vars
  BY <1>1, IdleStep DEF vars
<1>2. ASSUME NEW c \in Clients, ClientStep(c) PROVE IInv'
  <2>1. CASE ClaimFresh(c) BY <2>1, ClaimFreshStep
  <2>2. CASE Recover(c) BY <2>2, RecoverStep
  <2>3. CASE ClaimNextItem(c) BY <2>3, ClaimNextItemStep
  <2>4. CASE Heartbeat(c) BY <2>4, IdleStep DEF Heartbeat, slot, deliveries
  <2>5. CASE FreezeManifest(c) BY <2>5, FreezeManifestStep
  <2>6. CASE \E k \in Keys, b \in Bodies : PrepareIntent(c, k, b) \/ Ingest(c, k, b)
    BY <2>6, PrepareIntentStep, IngestStep
  <2>7. CASE ExecuteRerun(c) BY <2>7, ExecuteRerunStep
  <2>8. CASE Close(c) BY <2>8, CloseStep
  <2>9. CASE Settle(c) BY <2>9, SettleRoundStep DEF Settle
  <2>10. CASE ReportDraining(c) BY <2>10, SettleDrainingStep DEF ReportDraining
  <2>11. CASE Complete(c) BY <2>11, CompleteItemStep DEF Complete
  <2>12. CASE Forget(c) BY <2>12, ForgetStep
  <2> QED BY <1>2, <2>1, <2>2, <2>3, <2>4, <2>5, <2>6, <2>7, <2>8, <2>9, <2>10, <2>11, <2>12
          DEF ClientStep
<1>3. ASSUME NEW w \in Works, WorkStep(w) PROVE IInv'
  <2>1. CASE Enqueue(w) BY <2>1, EnqueueStep
  <2>2. CASE RerunFromRaw(w) BY <2>2, RerunFromRawStep
  <2>3. CASE CancelRequest(w) BY <2>3, CancelStep
  <2>4. CASE CloseCalendar(w) BY <2>4, CloseCalendarStep
  <2>5. CASE ApplyRepair(w) BY <2>5, ApplyRepairStep
  <2>6. CASE CorrectDecision(w) BY <2>6, IdleStep DEF CorrectDecision, slot, deliveries
  <2>7. CASE RoundComesDue(w) BY <2>7, RoundComesDueStep
  <2>8. CASE DateLapses(w) BY <2>8, IdleStep DEF DateLapses, slot, deliveries
  <2>9. CASE \E k \in Keys : RunFinishes(w, k) BY <2>9, RunFinishesStep
  <2> QED BY <1>3, <2>1, <2>2, <2>3, <2>4, <2>5, <2>6, <2>7, <2>8, <2>9 DEF WorkStep
<1>4. CASE ReconcileCancelledQueue BY <1>4, ReconcileStep
<1>5. CASE BlockExpiredOwner BY <1>5, BlockExpiredOwnerStep
<1>6. CASE StartOrStopScheduler BY <1>6, IdleStep DEF StartOrStopScheduler, slot, deliveries
<1>7. CASE WindowOpensOrCloses BY <1>7, IdleStep DEF WindowOpensOrCloses, slot, deliveries
<1>8. CASE CooldownEnds BY <1>8, IdleStep DEF CooldownEnds, slot, deliveries
<1>9. CASE HeartbeatExpires BY <1>9, HeartbeatExpiresStep
<1> QED BY <1>1, <1>2, <1>3, <1>4, <1>5, <1>6, <1>7, <1>8, <1>9 DEF Next

\* The inductive invariant holds throughout.
THEOREM Invariance == Spec => []IInv
  BY InitIInv, NextIInv, PTL DEF Spec

\* The slot, the works and the rounds agree whatever claims, expiries,
\* recoveries, settlements, cancellations, closures and repairs happen.
THEOREM SlotAgrees == Spec => []SlotMatchesRound
<1>1. IInv => SlotMatchesRound BY DEF IInv
<1> QED BY <1>1, Invariance, PTL

\* A dated work with an accepted run that is not terminal owns the slot.
THEOREM OwnerUntilTerminal == Spec => []OpenRunsHoldSlot
<1>1. IInv => OpenRunsHoldSlot BY DEF IInv
<1> QED BY <1>1, Invariance, PTL

\* An ended work has delivered what it retained, unless it was waived.
THEOREM NothingLost == Spec => []EndedWorkDrained
<1>1. IInv => EndedWorkDrained BY DEF IInv
<1> QED BY <1>1, Invariance, PTL

\* At most one process passes the owner fence.
THEOREM OneAuthority == Spec => []OneHolder
<1>1. IInv => OneHolder BY DEF IInv, OneFresh, OneHolder, Fence
<1> QED BY <1>1, Invariance, PTL

\* Slot, rounds, runs and retained bytes agree, and one process at most may
\* act on them, for every set of works, keys, bodies and processes.
THEOREM WorkIsSafe == Spec => []WorkSafe
<1>1. SlotMatchesRound /\ OpenRunsHoldSlot /\ EndedWorkDrained /\ OneHolder => WorkSafe
  BY DEF WorkSafe
<1> QED BY <1>1, SlotAgrees, OwnerUntilTerminal, NothingLost, OneAuthority, PTL

\* The four steps that write receipts.
LEMMA OnlyReceiptSteps ==
    ASSUME [Next]_vars
    PROVE  \/ receipt' = receipt
           \/ \E c \in Clients, k \in Keys, b \in Bodies : Ingest(c, k, b)
           \/ \E c \in Clients : ExecuteRerun(c)
           \/ \E w \in Works : RerunFromRaw(w)
           \/ \E w \in Works, k \in Keys : RunFinishes(w, k)
<1>1. CASE UNCHANGED vars
  BY <1>1 DEF vars
<1>2. ASSUME NEW c \in Clients, ClientStep(c)
      PROVE  \/ receipt' = receipt
             \/ \E k \in Keys, b \in Bodies : Ingest(c, k, b)
             \/ ExecuteRerun(c)
  BY <1>2 DEF ClientStep, ClaimFresh, Recover, ClaimNextItem, Heartbeat, FreezeManifest,
              PrepareIntent, Close, Settle, SettleRound, ReportDraining, SettleDraining,
              Complete, CompleteItem, Forget, deliveries
<1>3. ASSUME NEW w \in Works, WorkStep(w)
      PROVE  receipt' = receipt \/ RerunFromRaw(w) \/ \E k \in Keys : RunFinishes(w, k)
  BY <1>3 DEF WorkStep, Enqueue, CancelRequest, CloseCalendar, ApplyRepair, CorrectDecision,
              RoundComesDue, DateLapses, deliveries
<1>4. ASSUME \/ ReconcileCancelledQueue \/ BlockExpiredOwner
             \/ StartOrStopScheduler \/ WindowOpensOrCloses
             \/ CooldownEnds \/ HeartbeatExpires
      PROVE  receipt' = receipt
  BY <1>4 DEF ReconcileCancelledQueue, BlockExpiredOwner, StartOrStopScheduler,
              WindowOpensOrCloses, CooldownEnds, HeartbeatExpires, deliveries
<1> QED BY <1>1, <1>2, <1>3, <1>4 DEF Next

\* One idempotency key, one run: acceptance never adopts a run of another work.
LEMMA AcceptedOnceStep ==
    ASSUME IInv, AcceptedOnce, [Next]_vars
    PROVE  AcceptedOnce'
<1> DEFINE Has(w, k) == Delivers(w) /\ receipt[w][k] # NoReceipt
           HasNext(w, k) == Delivers(w) /\ receipt'[w][k] # NoReceipt
<1>1. SUFFICES \/ \A w \in Works, k \in Keys : HasNext(w, k) => Has(w, k)
               \/ \E v \in Works, j \in Keys :
                    /\ \A w \in Works : ~Has(w, j)
                    /\ \A w \in Works, k \in Keys :
                         HasNext(w, k) => Has(w, k) \/ (w = v /\ k = j)
  BY DEF AcceptedOnce, Delivers
<1>2. CASE receipt' = receipt
  BY <1>2
<1>3. ASSUME NEW c \in Clients, NEW k \in Keys, NEW b \in Bodies, Ingest(c, k, b)
      PROVE  \E v \in Works, j \in Keys :
               /\ \A w \in Works : ~Has(w, j)
               /\ \A w \in Works, i \in Keys : HasNext(w, i) => Has(w, i) \/ (w = v /\ i = j)
  <2> DEFINE v == held[c].work
  <2>1. v \in Works BY <1>3, FenceFacts DEF IInv, Ingest
  <2>2. /\ receipt' = [receipt EXCEPT ![v][k] = [body |-> b, run |-> "open"]]
        /\ \A w \in Works : ~Has(w, k)
    BY <1>3 DEF Ingest
  <2> HIDE DEF v
  <2>3. ASSUME NEW w \in Works, NEW i \in Keys, ~(w = v /\ i = k)
        PROVE  receipt'[w][i] = receipt[w][i]
    BY <2>1, <2>2, <2>3 DEF IInv, SlotTables
  <2>4. \A w \in Works, i \in Keys : HasNext(w, i) => Has(w, i) \/ (w = v /\ i = k)
    BY <2>3
  <2> QED BY <2>1, <2>2, <2>4
<1>4. ASSUME NEW c \in Clients, ExecuteRerun(c)
      PROVE  \A w \in Works, k \in Keys : HasNext(w, k) => Has(w, k)
  <2> DEFINE v == held[c].work
  <2>1. v \in Works BY <1>4, FenceFacts DEF IInv, ExecuteRerun, AcquisitionFence
  <2>2. PICK j \in Accepted(v) : receipt' = [receipt EXCEPT ![v][j].run = "open"]
    BY <1>4 DEF ExecuteRerun
  <2>3. Kind[v] = "rerun" BY <1>4 DEF ExecuteRerun
  <2> HIDE DEF v
  <2>4. \A w \in Works \ {v} : receipt'[w] = receipt[w]
    BY <2>1, <2>2 DEF IInv, SlotTables
  <2> QED BY <2>3, <2>4 DEF Delivers
<1>5. ASSUME NEW v \in Works, RerunFromRaw(v)
      PROVE  \A w \in Works, k \in Keys : HasNext(w, k) => Has(w, k)
  <2>1. \A w \in Works \ {v} : receipt'[w] = receipt[w]
    BY <1>5 DEF RerunFromRaw, IInv, SlotTables
  <2>2. Kind[v] = "rerun" BY <1>5 DEF RerunFromRaw
  <2> QED BY <2>1, <2>2 DEF Delivers
<1>6. ASSUME NEW v \in Works, NEW j \in Keys, RunFinishes(v, j)
      PROVE  \A w \in Works, k \in Keys : HasNext(w, k) => Has(w, k)
  <2>1. PICK r \in TERMINAL_RUNS : receipt' = [receipt EXCEPT ![v][j].run = r]
    BY <1>6 DEF RunFinishes
  <2>2. receipt[v][j] # NoReceipt BY <1>6 DEF RunFinishes
  <2>3. ASSUME NEW w \in Works, NEW i \in Keys, ~(w = v /\ i = j)
        PROVE  receipt'[w][i] = receipt[w][i]
    BY <2>1, <2>3 DEF IInv, SlotTables
  <2> QED BY <2>2, <2>3
<1>7. \/ receipt' = receipt
      \/ \E c \in Clients, k \in Keys, b \in Bodies : Ingest(c, k, b)
      \/ \E c \in Clients : ExecuteRerun(c)
      \/ \E w \in Works : RerunFromRaw(w)
      \/ \E w \in Works, k \in Keys : RunFinishes(w, k)
  BY OnlyReceiptSteps
<1> QED BY <1>1, <1>2, <1>3, <1>4, <1>5, <1>6, <1>7

\* One idempotency key has one accepted run, in every state.
THEOREM OneRunPerKey == Spec => []AcceptedOnce
<1>1. Init => AcceptedOnce
  BY DEF Init, AcceptedOnce
<1> QED BY <1>1, Invariance, AcceptedOnceStep, PTL DEF Spec

-----------------------------------------------------------------------------
(* Lines.                                                                  *)

Pairs == Works \X Works

\* Joining at the tail keeps a line and the order of those already in it.
LEMMA JoinLine ==
    ASSUME NEW q \in SUBSET Pairs, IsLine(q), NEW w \in Works, w \notin InLine(q)
    PROVE  /\ Join(q, w) \in SUBSET Pairs
           /\ IsLine(Join(q, w))
           /\ InLine(Join(q, w)) = InLine(q) \cup {w}
           /\ \A u, v \in InLine(q) : <<u, v>> \in Join(q, w) <=> <<u, v>> \in q
           /\ \A v \in InLine(q) : <<w, v>> \notin Join(q, w)
<1> DEFINE p == Join(q, w)
<1>1. \A u, v \in Works : <<u, v>> \in p <=> <<u, v>> \in q \/ (u \in InLine(q) \cup {w} /\ v = w)
  BY DEF Join
<1>2. p \in SUBSET Pairs
  BY DEF Join, InLine, Pairs
<1>3. \A v \in Works : <<v, w>> \notin q /\ <<w, v>> \notin q
  BY DEF IsLine
<1> HIDE DEF p
<1>4. InLine(p) = InLine(q) \cup {w}
  BY <1>1 DEF InLine
<1>5. \A u, v \in Works : <<u, v>> \in p =>
        u \in InLine(p) /\ v \in InLine(p) /\ (<<v, u>> \in p => u = v)
  BY <1>1, <1>3, <1>4 DEF IsLine
<1>6. \A u, v \in InLine(p) : <<u, v>> \in p \/ <<v, u>> \in p
  BY <1>1, <1>4 DEF IsLine, InLine
<1>7. \A t, u, v \in Works : <<t, u>> \in p /\ <<u, v>> \in p => <<t, v>> \in p
  BY <1>1, <1>3, <1>4, <1>5 DEF IsLine
<1>8. InLine(q) \subseteq Works
  BY DEF InLine
<1>9. \A u, v \in InLine(q) : <<u, v>> \in p <=> <<u, v>> \in q
  BY <1>1, <1>8
<1>10. \A v \in InLine(q) : <<w, v>> \notin p
  BY <1>1, <1>3, <1>8
<1> QED BY <1>2, <1>4, <1>5, <1>6, <1>7, <1>9, <1>10 DEF p, IsLine

\* Those who stay when others leave keep their order.
LEMMA LeaveLine ==
    ASSUME NEW q \in SUBSET Pairs, IsLine(q), NEW S
    PROVE  /\ Leave(q, S) \in SUBSET Pairs
           /\ IsLine(Leave(q, S))
           /\ InLine(Leave(q, S)) = InLine(q) \ S
           /\ \A u, v \in InLine(q) \ S : <<u, v>> \in Leave(q, S) <=> <<u, v>> \in q
<1> DEFINE p == Leave(q, S)
<1>1. \A u, v \in Works : <<u, v>> \in p <=> <<u, v>> \in q /\ u \notin S /\ v \notin S
  BY DEF Leave
<1>2. p \in SUBSET Pairs
  BY DEF Leave
<1> HIDE DEF p
<1>3. InLine(p) = InLine(q) \ S
  BY <1>1 DEF InLine
<1>4. InLine(q) \subseteq Works
  BY DEF InLine
<1>5. IsLine(p)
  BY <1>1, <1>3, <1>4 DEF IsLine
<1> QED BY <1>1, <1>2, <1>3, <1>4, <1>5 DEF p

-----------------------------------------------------------------------------
(* The line and the tables.                                                *)

\* OneLiveRound of any tables, and what a work that was never enqueued has.
RowInLine(q, x, y, w) ==
    /\ w \in InLine(q) <=> y.state = "queued"
    /\ x.state = "queued" => y.state = "queued"
    /\ y.state = "queued" => x.state \in {"queued", "calendar_closed"}
    /\ x.state = "absent" => y.state # "settled" /\ ~y.drain
Fifo(wk, rd, q) ==
    /\ q \in SUBSET Pairs
    /\ IsLine(q)
    /\ \A w \in Works : RowInLine(q, wk[w], rd[w], w)

\* The strengthening under which the FIFO is inductive.
LineInv == Fifo(work, round, queue)

\* The strengthening implies what is promised.
LEMMA LineInvImplies ==
    LineInv => OneLiveRound /\ queue \in SUBSET (Works \X Works)
  BY DEF LineInv, Fifo, RowInLine, OneLiveRound, Pairs

\* Writing the rows of one work, which joins, leaves or stays.
LEMMA FifoWrite ==
    ASSUME NEW wk \in [Works -> WorkRows], NEW rd \in [Works -> RoundRows], NEW q,
           Fifo(wk, rd, q), NEW w \in Works, NEW x \in WorkRows, NEW y \in RoundRows,
           NEW p \in SUBSET Pairs, IsLine(p), InLine(p) \ {w} = InLine(q) \ {w},
           RowInLine(p, x, y, w)
    PROVE  Fifo([wk EXCEPT ![w] = x], [rd EXCEPT ![w] = y], p)
<1> DEFINE k == [wk EXCEPT ![w] = x]
           d == [rd EXCEPT ![w] = y]
<1>1. k[w] = x /\ d[w] = y
  OBVIOUS
<1>2. ASSUME NEW v \in Works \ {w} PROVE RowInLine(p, k[v], d[v], v)
  <2>1. k[v] = wk[v] /\ d[v] = rd[v] OBVIOUS
  <2>2. v \in InLine(p) <=> v \in InLine(q) OBVIOUS
  <2> QED BY <2>1, <2>2 DEF Fifo, RowInLine
<1> QED BY <1>1, <1>2 DEF Fifo

\* The sweep over ended items takes exactly the cancelled works out of line.
LEMMA SweepFifo ==
    ASSUME IInv, LineInv
    PROVE  \A S : Fifo(WorkAfter(S), RoundAfter(S), QueueAfter(S))
<1> TAKE S
<1> DEFINE D == {w \in Works : Withdrawn(w, S)}
<1>1. QueueAfter(S) = Leave(queue, D)
  BY DEF QueueAfter
<1>2. queue \in SUBSET Pairs /\ IsLine(queue)
  BY DEF LineInv, Fifo
<1>3. /\ QueueAfter(S) \in SUBSET Pairs /\ IsLine(QueueAfter(S))
      /\ InLine(QueueAfter(S)) = InLine(queue) \ D
  BY <1>1, <1>2, LeaveLine
<1>4. ASSUME NEW w \in Works
      PROVE  RowInLine(QueueAfter(S), WorkAfter(S)[w], RoundAfter(S)[w], w)
  <2>0. work[w] \in WorkRows /\ round[w] \in RoundRows BY DEF IInv, SlotTables
  <2>1. RowInLine(queue, work[w], round[w], w) BY DEF LineInv, Fifo
  <2>2. CASE Withdrawn(w, S)
    <3>1. /\ WorkAfter(S)[w] = [work[w] EXCEPT !.state = "cancelled"]
          /\ RoundAfter(S)[w] = [round[w] EXCEPT !.state = "settled", !.outcome = "cancelled"]
      BY <2>2 DEF WorkAfter, RoundAfter
    <3>2. [work[w] EXCEPT !.state = "cancelled"].state = "cancelled"
      BY <2>0 DEF WorkRows
    <3>3. [round[w] EXCEPT !.state = "settled", !.outcome = "cancelled"].state = "settled"
      BY <2>0 DEF RoundRows
    <3> QED BY <1>3, <2>2, <3>1, <3>2, <3>3 DEF RowInLine
  <2>3. CASE ~Withdrawn(w, S)
    <3>1. WorkAfter(S)[w] = work[w] BY <2>3 DEF WorkAfter
    <3>2. CASE RoundAfter(S)[w] = round[w]
      BY <1>3, <2>1, <2>3, <3>1, <3>2 DEF RowInLine
    <3>3. CASE RoundAfter(S)[w] # round[w]
      <4>1. /\ RoundAfter(S)[w] = [round[w] EXCEPT !.drain = TRUE]
            /\ work[w].state = "queued"
        BY <2>3, <3>3 DEF RoundAfter
      <4>2. [round[w] EXCEPT !.drain = TRUE].state = round[w].state
        BY <2>0 DEF RoundRows
      <4> QED BY <1>3, <2>1, <2>3, <3>1, <4>1, <4>2 DEF RowInLine
    <3> QED BY <3>2, <3>3
  <2> QED BY <2>2, <2>3
<1> QED BY <1>3, <1>4 DEF Fifo

\* A work at the tail.
LEMMA JoinStep ==
    ASSUME IInv, LineInv, NEW w \in Works, NEW x \in WorkRows, NEW y \in RoundRows,
           work' = [work EXCEPT ![w] = x], round' = [round EXCEPT ![w] = y],
           queue' = Join(queue, w), round[w].state # "queued",
           x.state = "queued", y.state = "queued"
    PROVE  LineInv'
<1>1. queue \in SUBSET Pairs /\ IsLine(queue) /\ w \notin InLine(queue)
  BY DEF LineInv, Fifo, RowInLine
<1>2. /\ queue' \in SUBSET Pairs /\ IsLine(queue')
      /\ InLine(queue') = InLine(queue) \cup {w}
  BY <1>1, JoinLine
<1>3. RowInLine(queue', x, y, w)
  BY <1>2 DEF RowInLine
<1>4. work \in [Works -> WorkRows] /\ round \in [Works -> RoundRows]
  BY DEF IInv, SlotTables
<1>5. Fifo(work, round, queue) /\ InLine(queue') \ {w} = InLine(queue) \ {w}
  BY <1>2 DEF LineInv
<1>6. Fifo([work EXCEPT ![w] = x], [round EXCEPT ![w] = y], queue')
  BY <1>2, <1>3, <1>4, <1>5, FifoWrite
<1> QED BY <1>6 DEF LineInv

\* Rows written while nobody moves.
LEMMA StayStep ==
    ASSUME IInv, LineInv, NEW w \in Works, NEW x \in WorkRows, NEW y \in RoundRows,
           work' = [work EXCEPT ![w] = x], round' = [round EXCEPT ![w] = y],
           queue' = queue, RowInLine(queue, x, y, w)
    PROVE  LineInv'
<1>1. work \in [Works -> WorkRows] /\ round \in [Works -> RoundRows]
  BY DEF IInv, SlotTables
<1>2. queue \in SUBSET Pairs /\ IsLine(queue) /\ Fifo(work, round, queue)
  BY DEF LineInv, Fifo
<1>3. Fifo([work EXCEPT ![w] = x], [round EXCEPT ![w] = y], queue)
  BY <1>1, <1>2, FifoWrite
<1> QED BY <1>3 DEF LineInv

\* The owner's work is out of line.
LEMMA OwnerOutOfLine ==
    ASSUME IInv, LineInv, NEW w \in Works, owner.work = w
    PROVE  w \notin InLine(queue) /\ round[w].state \in ActiveRound
  BY DEF IInv, SlotMatchesRound, LineInv, Fifo, RowInLine, ActiveRound

-----------------------------------------------------------------------------
(* The steps that move works or write their states.                        *)

\* A work that was never enqueued joins.
LEMMA EnqueueLine ==
    ASSUME IInv, LineInv, NEW w \in Works, Enqueue(w) \/ RerunFromRaw(w)
    PROVE  LineInv'
<1>1. PICK x \in WorkRows :
        /\ work' = [work EXCEPT ![w] = x] /\ x.state = "queued"
        /\ round' = [round EXCEPT ![w] = NewRound(FALSE, FALSE)]
        /\ queue' = Join(queue, w)
        /\ work[w].state = "absent"
  BY DEF Enqueue, RerunFromRaw, WorkRows
<1>2. round[w].state # "queued"
  BY <1>1 DEF LineInv, Fifo, RowInLine
<1> QED BY <1>1, <1>2, NewRoundRow, JoinStep

\* A repaired work joins again.
LEMMA ApplyRepairLine ==
    ASSUME IInv, LineInv, NEW w \in Works, ApplyRepair(w)
    PROVE  LineInv'
<1> DEFINE d == ~AcquisitionOpen(w, TRUE)
           x == [work[w] EXCEPT !.state = "queued"]
<1>1. /\ work' = [work EXCEPT ![w] = x]
      /\ round' = [round EXCEPT ![w] = NewRound(d, FALSE)]
      /\ queue' = Join(queue, w)
      /\ work[w].state \in {"failed", "partial"}
  BY DEF ApplyRepair
<1>2. d \in BOOLEAN
  OBVIOUS
<1>3. x \in WorkRows /\ x.state = "queued"
  BY WorkColumn DEF IInv, SlotTables
<1> HIDE DEF d, x
<1>4. NewRound(d, FALSE) \in RoundRows /\ NewRound(d, FALSE).state = "queued"
  BY <1>2, NewRoundRow
<1>5. round[w].state # "queued"
  BY <1>1 DEF LineInv, Fifo, RowInLine
<1> QED BY <1>1, <1>3, <1>4, <1>5, JoinStep

\* A work the calendar closes keeps its place.
LEMMA CloseCalendarLine ==
    ASSUME IInv, LineInv, NEW w \in Works, CloseCalendar(w)
    PROVE  LineInv'
<1> DEFINE x == [work[w] EXCEPT !.state = "calendar_closed"]
<1>1. work' = [work EXCEPT ![w] = x] /\ round' = round /\ queue' = queue
  BY DEF CloseCalendar
<1>2. round[w] \in RoundRows /\ round = [round EXCEPT ![w] = round[w]]
  BY DEF IInv, SlotTables
<1>3. x \in WorkRows /\ x.state = "calendar_closed"
  BY WorkColumn DEF IInv, SlotTables
<1>4. RowInLine(queue, x, round[w], w)
  BY <1>3 DEF LineInv, Fifo, RowInLine
<1> HIDE DEF x
<1> QED BY <1>1, <1>2, <1>3, <1>4, StayStep

\* Rows whose states are as before stay where they are.
LEMMA SameStatesLine ==
    ASSUME IInv, LineInv, queue' = queue,
           \A w \in Works : /\ work'[w].state = work[w].state
                            /\ round'[w].state = round[w].state
                            /\ round'[w].drain = round[w].drain
    PROVE  LineInv'
  BY DEF LineInv, Fifo, RowInLine

\* Coming due moves nobody.
LEMMA RoundComesDueLine ==
    ASSUME IInv, LineInv, NEW w \in Works, RoundComesDue(w)
    PROVE  LineInv'
<1>1. /\ round' = [round EXCEPT ![w] = [round[w] EXCEPT !.due = TRUE]]
      /\ work' = work /\ queue' = queue
  BY DEF RoundComesDue
<1>2. /\ [round[w] EXCEPT !.due = TRUE].state = round[w].state
      /\ [round[w] EXCEPT !.due = TRUE].drain = round[w].drain
  BY DEF IInv, SlotTables, RoundRows
<1>3. \A v \in Works : round'[v].state = round[v].state /\ round'[v].drain = round[v].drain
  BY <1>1, <1>2 DEF IInv, SlotTables
<1> QED BY <1>1, <1>3, SameStatesLine

\* Freezing the manifest moves nobody.
LEMMA FreezeManifestLine ==
    ASSUME IInv, LineInv, NEW c \in Clients, FreezeManifest(c)
    PROVE  LineInv'
<1> DEFINE w == held[c].work
<1>0. w \in Works
  BY FenceFacts DEF IInv, FreezeManifest, AcquisitionFence
<1>1. PICK m \in {"scope", "skip"} :
         /\ work' = [work EXCEPT ![w] = [work[w] EXCEPT !.manifest = m]]
         /\ round' = round /\ queue' = queue
  BY DEF FreezeManifest
<1> HIDE DEF w
<1>2. [work[w] EXCEPT !.manifest = m].state = work[w].state
  BY <1>0 DEF IInv, SlotTables, WorkRows
<1>3. \A v \in Works : work'[v].state = work[v].state
  BY <1>0, <1>1, <1>2 DEF IInv, SlotTables
<1> QED BY <1>1, <1>3, SameStatesLine

\* The owner's rows may change in any way that keeps it running.
LEMMA OwnerLine ==
    ASSUME IInv, LineInv, NEW w \in Works, owner.work = w, queue' = queue,
           NEW x \in WorkRows, x.state \in {"running", "recovery_blocked"},
           NEW y \in RoundRows, y.state \in ActiveRound,
           work' = [work EXCEPT ![w] = x], round' = [round EXCEPT ![w] = y]
    PROVE  LineInv'
<1>1. w \notin InLine(queue)
  BY OwnerOutOfLine
<1>2. RowInLine(queue, x, y, w)
  BY <1>1 DEF RowInLine, ActiveRound
<1> QED BY <1>2, StayStep

\* The owner closes or drains its round.
LEMMA CloseLine ==
    ASSUME IInv, LineInv, NEW c \in Clients,
           \/ Close(c)
           \/ \E outcome \in Outcomes \cup {"retry"}, waive \in BOOLEAN :
                 SettleDraining(c, outcome, waive)
    PROVE  LineInv'
<1> DEFINE w == held[c].work
<1>0. w \in Works /\ owner.work = w /\ ~owner.recovery
  BY FenceFacts DEF IInv, Close, SettleDraining
<1>1. PICK s \in {"closed", "draining"} :
        /\ round' = [round EXCEPT ![w] = [round[w] EXCEPT !.state = s]]
        /\ work' = work /\ queue' = queue
  BY DEF Close, SettleDraining
<1> HIDE DEF w
<1>2. /\ work[w] \in WorkRows /\ work = [work EXCEPT ![w] = work[w]]
      /\ [round[w] EXCEPT !.state = s] \in RoundRows
      /\ [round[w] EXCEPT !.state = s].state = s
  BY <1>0, RoundColumn DEF IInv, SlotTables, ActiveRound
<1>3. work[w].state \in {"running", "recovery_blocked"}
  BY <1>0 DEF IInv, SlotMatchesRound
<1> QED BY <1>0, <1>1, <1>2, <1>3, OwnerLine DEF ActiveRound

\* An expired owner is blocked out of line.
LEMMA BlockExpiredOwnerLine ==
    ASSUME IInv, LineInv, BlockExpiredOwner
    PROVE  LineInv'
<1> DEFINE w == owner.work
           s == IF round[w].state = "open" THEN "recovery_blocked" ELSE round[w].state
<1>0. w \in Works
  BY DEF IInv, SlotTables, BlockExpiredOwner
<1>1. /\ work' = [work EXCEPT ![w] = [work[w] EXCEPT !.state = "recovery_blocked"]]
      /\ round' = [round EXCEPT ![w] = [round[w] EXCEPT !.state = s]]
      /\ queue' = queue
  BY <1>0 DEF BlockExpiredOwner, IInv, SlotTables
<1>2. s \in ActiveRound
  BY <1>0, OwnerOutOfLine DEF ActiveRound
<1>3. owner.work = w OBVIOUS
<1> HIDE DEF w, s
<1>4. /\ [work[w] EXCEPT !.state = "recovery_blocked"] \in WorkRows
      /\ [work[w] EXCEPT !.state = "recovery_blocked"].state = "recovery_blocked"
      /\ [round[w] EXCEPT !.state = s] \in RoundRows
      /\ [round[w] EXCEPT !.state = s].state = s
  BY <1>0, <1>2, WorkColumn, RoundColumn DEF IInv, SlotTables
<1> QED BY <1>0, <1>1, <1>2, <1>3, <1>4, OwnerLine

\* A recovered owner stays out of line.
LEMMA RecoverLine ==
    ASSUME IInv, LineInv, NEW c \in Clients, Recover(c)
    PROVE  LineInv'
<1> DEFINE w == owner.work
           r == Resume(round[w].state)
           d == round[w].drain \/ Cooling(w)
           y == [round[w] EXCEPT !.state = r, !.drain = d]
<1>0. w \in Works
  BY DEF IInv, SlotTables, Recover
<1>1. /\ work' = [work EXCEPT ![w] = [work[w] EXCEPT !.state = "running"]]
      /\ queue' = queue
  BY DEF Recover
<1>2. round' = [round EXCEPT ![w] = y]
  BY <1>0 DEF Recover, IInv, SlotTables
<1>3. r \in ActiveRound
  BY <1>0, OwnerOutOfLine DEF ActiveRound, Resume
<1>4. work[w] \in WorkRows /\ round[w] \in RoundRows
  BY <1>0 DEF IInv, SlotTables
<1>5. d \in BOOLEAN
  OBVIOUS
<1> HIDE DEF r, d
<1>6. y \in RoundRows /\ y.state = r
  BY <1>3, <1>4, <1>5 DEF RoundRows
<1>7. owner.work = w OBVIOUS
<1> HIDE DEF w, y
<1>8. /\ [work[w] EXCEPT !.state = "running"] \in WorkRows
      /\ [work[w] EXCEPT !.state = "running"].state = "running"
  BY <1>4, WorkColumn
<1> QED BY <1>0, <1>1, <1>2, <1>3, <1>6, <1>7, <1>8, OwnerLine

\* A fresh claim takes one work out of the swept line.
LEMMA ClaimFreshLine ==
    ASSUME IInv, LineInv, NEW c \in Clients, ClaimFresh(c)
    PROVE  LineInv'
<1> DEFINE S == Ended
           wk == WorkAfter(S)
           rd == RoundAfter(S)
           q == QueueAfter(S)
<1>1. PICK w \in Works :
        /\ work' = [wk EXCEPT ![w].state = "running"]
        /\ round' = [rd EXCEPT ![w].state = "open",
                               ![w].drain = DrainOnly(w, rd[w].drain)]
        /\ queue' = Leave(q, {w})
  BY DEF ClaimFresh
<1> DEFINE d == DrainOnly(w, rd[w].drain)
           y == [rd[w] EXCEPT !.state = "open", !.drain = d]
           x == [wk[w] EXCEPT !.state = "running"]
<1>2. wk \in [Works -> WorkRows] /\ rd \in [Works -> RoundRows]
  BY AfterTypes DEF IInv
<1>3. Fifo(wk, rd, q)
  BY SweepFifo
<1>4. d \in BOOLEAN
  BY DEF DrainOnly
<1> HIDE DEF S, wk, rd, q, d
<1>5. work' = [wk EXCEPT ![w] = x] /\ round' = [rd EXCEPT ![w] = y]
  BY <1>1, <1>2 DEF d
<1>6. x \in WorkRows /\ x.state = "running"
  BY <1>2, WorkColumn
<1>7. y \in RoundRows /\ y.state = "open"
  BY <1>2, <1>4 DEF RoundRows, ActiveRound
<1> HIDE DEF x, y
<1>8. q \in SUBSET Pairs /\ IsLine(q)
  BY <1>3 DEF Fifo
<1>9. /\ queue' \in SUBSET Pairs /\ IsLine(queue') /\ InLine(queue') = InLine(q) \ {w}
  BY <1>1, <1>8, LeaveLine
<1>10. RowInLine(queue', x, y, w)
  BY <1>6, <1>7, <1>9 DEF RowInLine
<1>11. InLine(queue') \ {w} = InLine(q) \ {w}
  BY <1>9
<1>12. Fifo([wk EXCEPT ![w] = x], [rd EXCEPT ![w] = y], queue')
  BY <1>2, <1>3, <1>6, <1>7, <1>9, <1>10, <1>11, FifoWrite
<1> QED BY <1>5, <1>12 DEF LineInv

\* Settlement sends the owner's work to the tail or ends it.
LEMMA SettledLine ==
    ASSUME NEW w \in Works,
           NEW wk \in [Works -> WorkRows], NEW rd \in [Works -> RoundRows], NEW q,
           Fifo(wk, rd, q), w \notin InLine(q),
           NEW outcome \in Outcomes \cup {"retry"},
           NEW waive \in BOOLEAN, NEW source_error \in BOOLEAN,
           Settled(w, wk, rd, q, outcome, waive, source_error)
    PROVE  LineInv'
<1>1. q \in SUBSET Pairs /\ IsLine(q)
  BY DEF Fifo
<1>2. CASE outcome = "retry"
  <2> DEFINE x == [wk[w] EXCEPT !.state = "queued"]
             y == RetryRound(w, source_error)
             d == round[w].drain \/ ~AcquisitionOpen(w, TRUE)
  <2>1. work' = [wk EXCEPT ![w] = x] /\ round' = [rd EXCEPT ![w] = y] /\ queue' = Join(q, w)
    BY <1>2 DEF Settled
  <2>2. x \in WorkRows /\ x.state = "queued"
    BY WorkColumn
  <2>3. d \in BOOLEAN
    OBVIOUS
  <2>4. y = NewRound(d, source_error)
    BY DEF RetryRound
  <2> HIDE DEF d, y, x
  <2>5. y \in RoundRows /\ y.state = "queued"
    BY <2>3, <2>4, NewRoundRow
  <2>6. /\ queue' \in SUBSET Pairs /\ IsLine(queue') /\ InLine(queue') = InLine(q) \cup {w}
    BY <1>1, <2>1, JoinLine
  <2>7. RowInLine(queue', x, y, w) /\ InLine(queue') \ {w} = InLine(q) \ {w}
    BY <2>2, <2>5, <2>6 DEF RowInLine
  <2>8. Fifo([wk EXCEPT ![w] = x], [rd EXCEPT ![w] = y], queue')
    BY <2>2, <2>5, <2>6, <2>7, FifoWrite
  <2> QED BY <2>1, <2>8 DEF LineInv
<1>3. CASE outcome # "retry"
  <2> DEFINE s == Result(w, outcome)
             o == IF waive /\ Pending(w) # {} THEN "waived" ELSE Result(w, outcome)
             x == [wk[w] EXCEPT !.state = s]
             y == [rd[w] EXCEPT !.state = "settled", !.outcome = o]
  <2>1. work' = [wk EXCEPT ![w] = x] /\ queue' = q
    BY <1>3 DEF Settled
  <2>2. round' = [rd EXCEPT ![w].state = "settled", ![w].outcome = o]
    BY <1>3 DEF Settled
  <2>3. s \in Outcomes /\ o \in {"waived"} \cup Outcomes
    BY <1>3, ResultType
  <2> HIDE DEF s, o
  <2>4. round' = [rd EXCEPT ![w] = y]
    BY <2>2
  <2>5. x \in WorkRows /\ x.state = s
    BY <2>3, WorkColumn
  <2>6. y \in RoundRows /\ y.state = "settled"
    BY <2>3 DEF RoundRows
  <2> HIDE DEF x, y
  <2>7. RowInLine(q, x, y, w)
    BY <2>3, <2>5, <2>6 DEF RowInLine, Outcomes
  <2>8. Fifo([wk EXCEPT ![w] = x], [rd EXCEPT ![w] = y], q)
    BY <1>1, <2>5, <2>6, <2>7, FifoWrite
  <2> QED BY <2>1, <2>4, <2>8 DEF LineInv
<1> QED BY <1>2, <1>3

\* Settlement by the owner.
LEMMA SettleRoundLine ==
    ASSUME IInv, LineInv, NEW c \in Clients, NEW outcome \in Outcomes \cup {"retry"},
           NEW waive \in BOOLEAN, NEW source_error \in BOOLEAN,
           SettleRound(c, outcome, waive, source_error)
    PROVE  LineInv'
<1> DEFINE w == held[c].work
<1>1. w \in Works /\ owner.work = w
  BY FenceFacts DEF IInv, SettleRound
<1>2. Settled(w, work, round, queue, outcome, waive, source_error)
  BY DEF SettleRound
<1>3. /\ work \in [Works -> WorkRows] /\ round \in [Works -> RoundRows]
      /\ Fifo(work, round, queue)
  BY DEF IInv, SlotTables, LineInv
<1> HIDE DEF w
<1>4. w \notin InLine(queue)
  BY <1>1, OwnerOutOfLine
<1> QED BY <1>1, <1>2, <1>3, <1>4, SettledLine

\* Completion of an item: a sweep, then draining or settlement.
LEMMA CompleteItemLine ==
    ASSUME IInv, LineInv, NEW c \in Clients, NEW outcome \in {"completed", "partial", "failed"},
           NEW waive \in BOOLEAN, CompleteItem(c, outcome, waive)
    PROVE  LineInv'
<1> DEFINE w == held[c].work
           ended == ItemAfterExpiry[w] \in {"cancelled", "expired"}
           result == IF ended /\ ~Waives(outcome, waive) THEN "cancelled" ELSE outcome
           S == Lapsed
           wk == WorkAfter(S)
           rd == RoundAfter(S)
           q == QueueAfter(S)
<1>1. w \in Works /\ owner.work = w
  BY FenceFacts DEF IInv, CompleteItem
<1>2. wk \in [Works -> WorkRows] /\ rd \in [Works -> RoundRows]
  BY AfterTypes DEF IInv
<1>3. Fifo(wk, rd, q)
  BY SweepFifo
<1>4. result \in Outcomes \cup {"retry"}
  BY DEF Outcomes
<1>5. IF SettleBlocked(w, result, waive)
      THEN /\ work' = wk
           /\ round' = [rd EXCEPT ![w].state = "draining"]
           /\ queue' = q
      ELSE Settled(w, wk, rd, q, result, waive, FALSE)
  BY DEF CompleteItem
<1>6. q \in SUBSET Pairs /\ IsLine(q)
  BY <1>3 DEF Fifo
<1>7. w \notin InLine(q)
  <2>1. w \notin InLine(queue) BY <1>1, OwnerOutOfLine
  <2>2. queue \in SUBSET Pairs /\ IsLine(queue) BY DEF LineInv, Fifo
  <2> QED BY <2>1, <2>2, LeaveLine DEF QueueAfter
<1>8. wk[w] = work[w] /\ work[w].state \in {"running", "recovery_blocked"}
  <2>1. work[w].state \in {"running", "recovery_blocked"}
    BY <1>1 DEF IInv, SlotMatchesRound
  <2> QED BY <1>1, <2>1 DEF WorkAfter, Withdrawn
<1> HIDE DEF w, result, S, wk, rd, q
<1>9. CASE ~SettleBlocked(w, result, waive)
  <2>1. Settled(w, wk, rd, q, result, waive, FALSE) /\ FALSE \in BOOLEAN
    BY <1>5, <1>9
  <2>2. \A se \in BOOLEAN : Settled(w, wk, rd, q, result, waive, se) => LineInv'
    BY <1>1, <1>2, <1>3, <1>4, <1>7, SettledLine
  <2> QED BY <2>1, <2>2
<1>10. CASE SettleBlocked(w, result, waive)
  <2> DEFINE y == [rd[w] EXCEPT !.state = "draining"]
  <2>1. work' = [wk EXCEPT ![w] = wk[w]] /\ queue' = q /\ round' = [rd EXCEPT ![w] = y]
    BY <1>2, <1>5, <1>10
  <2>2. y \in RoundRows /\ y.state = "draining" /\ wk[w] \in WorkRows
    BY <1>1, <1>2, RoundColumn DEF ActiveRound
  <2> HIDE DEF y
  <2>3. RowInLine(q, wk[w], y, w)
    BY <1>7, <1>8, <2>2 DEF RowInLine
  <2>4. Fifo([wk EXCEPT ![w] = wk[w]], [rd EXCEPT ![w] = y], q)
    BY <1>1, <1>2, <1>3, <1>6, <2>2, <2>3, FifoWrite
  <2> QED BY <2>1, <2>4 DEF LineInv
<1> QED BY <1>9, <1>10

\* A step that only sweeps.
LEMMA SweepLine ==
    ASSUME IInv, LineInv, NEW S, work' = WorkAfter(S), round' = RoundAfter(S),
           queue' = QueueAfter(S)
    PROVE  LineInv'
  BY SweepFifo DEF LineInv

\* Steps that leave works, rounds and the line alone.
LEMMA AsideLine ==
    ASSUME IInv, LineInv, UNCHANGED <<work, round, queue>>
    PROVE  LineInv'
  BY DEF LineInv

\* Nobody is in line at first.
LEMMA InitLine == Init => LineInv
<1> SUFFICES ASSUME Init PROVE LineInv
  OBVIOUS
<1>1. queue = {} BY DEF Init
<1>2. IsLine(queue) /\ InLine(queue) = {} BY <1>1 DEF IsLine, InLine
<1>3. \A w \in Works : RowInLine(queue, work[w], round[w], w)
  BY <1>2 DEF Init, RowInLine
<1> QED BY <1>1, <1>2, <1>3 DEF LineInv, Fifo

\* Every step keeps the line and the rounds in agreement.
LEMMA NextLine ==
    ASSUME IInv, LineInv, [Next]_vars
    PROVE  LineInv'
<1>1. CASE UNCHANGED vars
  BY <1>1, AsideLine DEF vars
<1>2. ASSUME NEW c \in Clients, ClientStep(c) PROVE LineInv'
  <2>1. CASE ClaimFresh(c) BY <2>1, ClaimFreshLine
  <2>2. CASE Recover(c) BY <2>2, RecoverLine
  <2>3. CASE ClaimNextItem(c) BY <2>3, SweepLine DEF ClaimNextItem
  <2>4. CASE Heartbeat(c) BY <2>4, AsideLine DEF Heartbeat, slot
  <2>5. CASE FreezeManifest(c) BY <2>5, FreezeManifestLine
  <2>6. CASE \E k \in Keys, b \in Bodies : PrepareIntent(c, k, b) \/ Ingest(c, k, b)
    BY <2>6, AsideLine DEF PrepareIntent, Ingest, slot
  <2>7. CASE ExecuteRerun(c) BY <2>7, AsideLine DEF ExecuteRerun, slot
  <2>8. CASE Close(c) BY <2>8, CloseLine
  <2>9. CASE Settle(c) BY <2>9, SettleRoundLine DEF Settle
  <2>10. CASE ReportDraining(c) BY <2>10, CloseLine DEF ReportDraining
  <2>11. CASE Complete(c) BY <2>11, CompleteItemLine DEF Complete
  <2>12. CASE Forget(c) BY <2>12, AsideLine DEF Forget, slot
  <2> QED BY <1>2, <2>1, <2>2, <2>3, <2>4, <2>5, <2>6, <2>7, <2>8, <2>9, <2>10, <2>11, <2>12
          DEF ClientStep
<1>3. ASSUME NEW w \in Works, WorkStep(w) PROVE LineInv'
  <2>1. CASE Enqueue(w) BY <2>1, EnqueueLine
  <2>2. CASE RerunFromRaw(w) BY <2>2, EnqueueLine
  <2>3. CASE CancelRequest(w) BY <2>3, SweepLine DEF CancelRequest
  <2>4. CASE CloseCalendar(w) BY <2>4, CloseCalendarLine
  <2>5. CASE ApplyRepair(w) BY <2>5, ApplyRepairLine
  <2>6. CASE CorrectDecision(w) BY <2>6, AsideLine DEF CorrectDecision, slot
  <2>7. CASE RoundComesDue(w) BY <2>7, RoundComesDueLine
  <2>8. CASE DateLapses(w) BY <2>8, AsideLine DEF DateLapses, slot
  <2>9. CASE \E k \in Keys : RunFinishes(w, k) BY <2>9, AsideLine DEF RunFinishes, slot
  <2> QED BY <1>3, <2>1, <2>2, <2>3, <2>4, <2>5, <2>6, <2>7, <2>8, <2>9 DEF WorkStep
<1>4. CASE ReconcileCancelledQueue BY <1>4, SweepLine DEF ReconcileCancelledQueue
<1>5. CASE BlockExpiredOwner BY <1>5, BlockExpiredOwnerLine
<1>6. CASE StartOrStopScheduler BY <1>6, AsideLine DEF StartOrStopScheduler, slot
<1>7. CASE WindowOpensOrCloses BY <1>7, AsideLine DEF WindowOpensOrCloses, slot
<1>8. CASE CooldownEnds BY <1>8, AsideLine DEF CooldownEnds, slot
<1>9. CASE HeartbeatExpires BY <1>9, AsideLine DEF HeartbeatExpires
<1> QED BY <1>1, <1>2, <1>3, <1>4, <1>5, <1>6, <1>7, <1>8, <1>9 DEF Next

\* The line and the rounds agree in every state.
THEOREM LineInvariance == Spec => [](IInv /\ LineInv)
<1>1. Init => IInv /\ LineInv BY InitIInv, InitLine
<1>2. IInv /\ LineInv /\ [Next]_vars => (IInv /\ LineInv)' BY NextIInv, NextLine
<1> QED BY <1>1, <1>2, PTL DEF Spec

\* A work stands in the FIFO once while it is queued and nowhere otherwise,
\* and one idempotency key is accepted for one work only, whatever is
\* cancelled, expired, retried, closed or repaired.
THEOREM FifoIsSound == Spec => []QueueAndKeysOnce
<1>1. IInv /\ LineInv => OneLiveRound BY LineInvImplies
<1>2. OneLiveRound /\ AcceptedOnce => QueueAndKeysOnce BY DEF QueueAndKeysOnce
<1> QED BY <1>1, <1>2, LineInvariance, OneRunPerKey, PTL

\* Slot, rounds, runs, retained bytes, FIFO and keys agree for any number of
\* works that compete for one account.
THEOREM LineIsSound == Spec => []LineSound
<1>1. WorkSafe /\ QueueAndKeysOnce => LineSound BY DEF LineSound
<1> QED BY <1>1, WorkIsSafe, FifoIsSound, PTL

-----------------------------------------------------------------------------
(* Types.                                                                  *)

OutsideOK ==
    /\ cooldown \in BOOLEAN
    /\ item \in [Works -> {"open", "expired"} \cup Outcomes]
    /\ lapsed \in [Works -> BOOLEAN]
    /\ control \in BOOLEAN
    /\ window \in BOOLEAN
    /\ skip \in [Works -> BOOLEAN]

\* Expiry writes expired and nothing else.
LEMMA ItemAfterExpiryType ==
    ASSUME OutsideOK
    PROVE  ItemAfterExpiry \in [Works -> {"open", "expired"} \cup Outcomes]
  BY DEF OutsideOK, ItemAfterExpiry

\* What the fetcher's steps write outside the slot has its type.
LEMMA OutsideClientStep ==
    ASSUME IInv, OutsideOK, NEW c \in Clients, ClientStep(c)
    PROVE  OutsideOK'
<1>1. CASE ClaimFresh(c) \/ ClaimNextItem(c)
  BY <1>1, ItemAfterExpiryType DEF OutsideOK, ClaimFresh, ClaimNextItem
<1>2. CASE Recover(c) BY <1>2 DEF OutsideOK, Recover, outside
<1>3. CASE Heartbeat(c) BY <1>3 DEF OutsideOK, Heartbeat, outside
<1>4. CASE FreezeManifest(c) BY <1>4 DEF OutsideOK, FreezeManifest, outside
<1>5. CASE \E k \in Keys, b \in Bodies : PrepareIntent(c, k, b) \/ Ingest(c, k, b)
  BY <1>5 DEF OutsideOK, PrepareIntent, Ingest, outside
<1>6. CASE ExecuteRerun(c) \/ Close(c) \/ Forget(c)
  BY <1>6 DEF OutsideOK, ExecuteRerun, Close, Forget, outside
<1>7. CASE Settle(c) \/ ReportDraining(c)
  BY <1>7 DEF OutsideOK, Settle, SettleRound, ReportDraining, SettleDraining, outside
<1>8. CASE Complete(c)
  <2>1. PICK outcome \in {"completed", "partial", "failed"}, waive \in BOOLEAN :
           CompleteItem(c, outcome, waive)
    BY <1>8 DEF Complete
  <2>2. /\ UNCHANGED <<cooldown, lapsed, control, window, skip>>
        /\ \/ item' = ItemAfterExpiry
           \/ item' = [ItemAfterExpiry EXCEPT ![held[c].work] = outcome]
    BY <2>1 DEF CompleteItem
  <2> QED BY <2>2, ItemAfterExpiryType DEF OutsideOK, Outcomes
<1> QED BY <1>1, <1>2, <1>3, <1>4, <1>5, <1>6, <1>7, <1>8 DEF ClientStep

\* So has what any step writes.
LEMMA OutsideStep ==
    ASSUME IInv, OutsideOK, [Next]_vars
    PROVE  OutsideOK'
<1>1. CASE UNCHANGED vars
  BY <1>1 DEF OutsideOK, vars
<1>2. ASSUME NEW w \in Works, WorkStep(w) PROVE OutsideOK'
  <2>1. CASE CancelRequest(w)
    BY <2>1 DEF OutsideOK, CancelRequest, Outcomes
  <2>2. CASE CorrectDecision(w)
    BY <2>2 DEF OutsideOK, CorrectDecision
  <2>3. CASE DateLapses(w)
    BY <2>3 DEF OutsideOK, DateLapses
  <2>4. CASE Enqueue(w) \/ RerunFromRaw(w) \/ CloseCalendar(w) \/ ApplyRepair(w)
             \/ RoundComesDue(w) \/ \E k \in Keys : RunFinishes(w, k)
    BY <2>4 DEF OutsideOK, Enqueue, RerunFromRaw, CloseCalendar, ApplyRepair, RoundComesDue,
                RunFinishes, outside
  <2> QED BY <1>2, <2>1, <2>2, <2>3, <2>4 DEF WorkStep
<1>3. CASE ReconcileCancelledQueue
  BY <1>3, ItemAfterExpiryType DEF OutsideOK, ReconcileCancelledQueue
<1>4. CASE BlockExpiredOwner \/ StartOrStopScheduler \/ WindowOpensOrCloses
           \/ CooldownEnds \/ HeartbeatExpires
  BY <1>4 DEF OutsideOK, BlockExpiredOwner, StartOrStopScheduler, WindowOpensOrCloses,
              CooldownEnds, HeartbeatExpires, outside
<1> QED BY <1>1, <1>2, <1>3, <1>4, OutsideClientStep DEF Next

\* Every table and the line have their types in every state.
THEOREM TypeCorrect == Spec => []TypeOK
<1>1. Init => OutsideOK
  BY DEF Init, OutsideOK
<1>2. IInv /\ LineInv /\ OutsideOK => TypeOK
  BY LineInvImplies DEF IInv, SlotTables, OutsideOK, TypeOK, TablesOK, WorkRows, RoundRows,
     Receipts, Identities
<1> QED BY <1>1, <1>2, OutsideStep, LineInvariance, PTL DEF Spec

-----------------------------------------------------------------------------
(* What a step does to the rows of one work.                               *)

\* Nothing but a mark: the state stays, a drain-only mark is never lifted.
RowStays(w) ==
    /\ work'[w] = work[w]
    /\ round'[w].state = round[w].state
    /\ round[w].drain => round'[w].drain
    /\ (owner'.work = w) <=> (owner.work = w)
\* Enqueued, cancelled, closed by the calendar or repaired, without a slot.
RowMoves(w) ==
    /\ owner.work # w /\ owner'.work # w
    /\ work[w].state \notin {"completed", "cancelled", "calendar_closed"}
    /\ \/ round[w].drain => round'[w].drain
       \/ work[w].state \in {"failed", "partial"} /\ AcquisitionOpen(w, TRUE)
\* Claimed from the line.
RowClaimed(w) ==
    /\ owner.work # w /\ owner'.work = w
    /\ work[w].state = "queued"
    /\ \E d \in BOOLEAN : /\ round[w].drain => d
                          /\ ~round'[w].drain => ~DrainOnly(w, d)
                          /\ round'[w].drain => DrainOnly(w, d)
\* Written under the slot: a closed round is not opened again.
RowOwned(w) ==
    /\ owner.work = w
    /\ round[w].drain => round'[w].drain
    /\ round[w].state \in {"closed", "draining"} =>
         round'[w].state \in {"closed", "draining", "settled", "queued"}
RowStep(w) == RowStays(w) \/ RowMoves(w) \/ RowClaimed(w) \/ RowOwned(w)

\* The rows after a sweep.
LEMMA SweptRows ==
    ASSUME IInv, NEW S, NEW v \in Works
    PROVE  /\ round[v].drain => RoundAfter(S)[v].drain
           /\ \/ WorkAfter(S)[v] = work[v] /\ RoundAfter(S)[v].state = round[v].state
              \/ work[v].state = "queued"
<1>0. round[v] \in RoundRows BY DEF IInv, SlotTables
<1>1. CASE Withdrawn(v, S)
  <2>1. RoundAfter(S)[v] = [round[v] EXCEPT !.state = "settled", !.outcome = "cancelled"]
    BY <1>1 DEF RoundAfter
  <2>2. [round[v] EXCEPT !.state = "settled", !.outcome = "cancelled"].drain = round[v].drain
    BY <1>0 DEF RoundRows
  <2> QED BY <1>1, <2>1, <2>2 DEF Withdrawn
<1>2. CASE ~Withdrawn(v, S)
  <2>1. WorkAfter(S)[v] = work[v] BY <1>2 DEF WorkAfter
  <2>2. RoundAfter(S)[v] \in {round[v], [round[v] EXCEPT !.drain = TRUE]}
    BY <1>2 DEF RoundAfter
  <2>3. /\ [round[v] EXCEPT !.drain = TRUE].state = round[v].state
        /\ [round[v] EXCEPT !.drain = TRUE].drain
    BY <1>0 DEF RoundRows
  <2> QED BY <2>1, <2>2, <2>3
<1> QED BY <1>1, <1>2

\* A work that is swept, or left alone, while others are written.
LEMMA SweptRowStep ==
    ASSUME IInv, NEW S, NEW v \in Works,
           work'[v] = WorkAfter(S)[v], round'[v] = RoundAfter(S)[v],
           (owner'.work = v) <=> (owner.work = v)
    PROVE  RowStep(v)
<1>1. round[v].drain => round'[v].drain BY SweptRows
<1>2. CASE work'[v] = work[v] /\ round'[v].state = round[v].state
  BY <1>1, <1>2 DEF RowStep, RowStays
<1>3. CASE ~(work'[v] = work[v] /\ round'[v].state = round[v].state)
  <2>1. work[v].state = "queued" BY <1>3, SweptRows
  <2>2. owner.work # v BY <2>1 DEF IInv, SlotMatchesRound
  <2> QED BY <1>1, <2>1, <2>2 DEF RowStep, RowMoves
<1> QED BY <1>2, <1>3

\* A work that a step leaves alone.
LEMMA SameRowStep ==
    ASSUME NEW v \in Works, work'[v] = work[v], round'[v] = round[v],
           (owner'.work = v) <=> (owner.work = v)
    PROVE  RowStep(v)
  BY DEF RowStep, RowStays

\* Steps that write the rows of one work only.
LEMMA OneRowStep ==
    ASSUME IInv, NEW w \in Works, NEW x, NEW y,
           work' = [work EXCEPT ![w] = x], round' = [round EXCEPT ![w] = y],
           \A v \in Works \ {w} : (owner'.work = v) <=> (owner.work = v),
           RowStep(w)
    PROVE  \A v \in Works : RowStep(v)
<1> TAKE v \in Works
<1>1. CASE v = w BY <1>1
<1>2. CASE v # w
  <2>1. work'[v] = work[v] /\ round'[v] = round[v]
    BY <1>2 DEF IInv, SlotTables
  <2> QED BY <1>2, <2>1, SameRowStep
<1> QED BY <1>1, <1>2

\* Enqueued: nothing was marked before.
LEMMA EnqueueRows ==
    ASSUME IInv, LineInv, NEW w \in Works, Enqueue(w) \/ RerunFromRaw(w)
    PROVE  \A v \in Works : RowStep(v)
<1>1. PICK x : /\ work' = [work EXCEPT ![w] = x]
               /\ round' = [round EXCEPT ![w] = NewRound(FALSE, FALSE)]
               /\ owner' = owner /\ work[w].state = "absent"
  BY DEF Enqueue, RerunFromRaw
<1>2. ~round[w].drain
  BY <1>1 DEF LineInv, Fifo, RowInLine
<1>3. owner.work # w
  BY <1>1 DEF IInv, SlotMatchesRound
<1>4. RowStep(w)
  BY <1>1, <1>2, <1>3 DEF RowStep, RowMoves
<1> QED BY <1>1, <1>4, OneRowStep

\* Repaired: the new round may acquire if acquisition is open.
LEMMA ApplyRepairRows ==
    ASSUME IInv, LineInv, NEW w \in Works, ApplyRepair(w)
    PROVE  \A v \in Works : RowStep(v)
<1> DEFINE d == ~AcquisitionOpen(w, TRUE)
           y == NewRound(d, FALSE)
<1>1. PICK x : /\ work' = [work EXCEPT ![w] = x]
               /\ round' = [round EXCEPT ![w] = y]
               /\ owner' = owner /\ owner.work # w
               /\ work[w].state \in {"failed", "partial"}
  BY DEF ApplyRepair
<1>2. y.drain = d
  BY DEF NewRound
<1> HIDE DEF y
<1>3. round'[w] = y
  BY <1>1 DEF IInv, SlotTables
<1>4. round'[w].drain \/ AcquisitionOpen(w, TRUE)
  BY <1>2, <1>3
<1>5. RowStep(w)
  BY <1>1, <1>4 DEF RowStep, RowMoves
<1> QED BY <1>1, <1>5, OneRowStep

\* Closed by the calendar.
LEMMA CloseCalendarRows ==
    ASSUME IInv, NEW w \in Works, CloseCalendar(w)
    PROVE  \A v \in Works : RowStep(v)
<1>1. PICK x : /\ work' = [work EXCEPT ![w] = x] /\ round' = round /\ owner' = owner
               /\ owner.work = NoWork
               /\ work[w].state \in {"queued", "partial", "failed"}
  BY DEF CloseCalendar
<1>2. round' = [round EXCEPT ![w] = round[w]] /\ owner.work # w
  BY <1>1, ConstantsAssumption DEF IInv, SlotTables
<1>3. RowStep(w)
  BY <1>1, <1>2 DEF RowStep, RowMoves
<1> QED BY <1>1, <1>2, <1>3, OneRowStep

\* Due.
LEMMA RoundComesDueRows ==
    ASSUME IInv, NEW w \in Works, RoundComesDue(w)
    PROVE  \A v \in Works : RowStep(v)
<1> DEFINE y == [round[w] EXCEPT !.due = TRUE]
<1>1. round' = [round EXCEPT ![w] = y] /\ work' = work /\ owner' = owner
  BY DEF RoundComesDue
<1>2. y.state = round[w].state /\ y.drain = round[w].drain
  BY DEF IInv, SlotTables, RoundRows
<1> HIDE DEF y
<1>3. work' = [work EXCEPT ![w] = work[w]] /\ round'[w] = y
  BY <1>1 DEF IInv, SlotTables
<1>4. RowStep(w)
  BY <1>1, <1>2, <1>3 DEF RowStep, RowStays
<1> QED BY <1>1, <1>3, <1>4, OneRowStep

\* Steps of the owner: the manifest is frozen, the round closed or drained.
LEMMA FencedRows ==
    ASSUME IInv, NEW c \in Clients,
           \/ FreezeManifest(c) \/ Close(c)
           \/ \E outcome \in Outcomes \cup {"retry"}, waive \in BOOLEAN :
                 SettleDraining(c, outcome, waive)
    PROVE  \A v \in Works : RowStep(v)
<1> DEFINE w == held[c].work
<1>0. w \in Works /\ owner.work = w
  BY FenceFacts DEF IInv, FreezeManifest, AcquisitionFence, Close, SettleDraining
<1>1. owner' = owner
  BY DEF FreezeManifest, Close, SettleDraining
<1>2. CASE FreezeManifest(c)
  <2>1. PICK x : work' = [work EXCEPT ![w] = x] /\ round' = round
    BY <1>2 DEF FreezeManifest
  <2> HIDE DEF w
  <2>2. round' = [round EXCEPT ![w] = round[w]] BY <1>0, <2>1 DEF IInv, SlotTables
  <2>3. RowStep(w) BY <1>0, <2>1 DEF RowStep, RowOwned
  <2> QED BY <1>0, <1>1, <2>1, <2>2, <2>3, OneRowStep
<1>3. CASE ~FreezeManifest(c)
  <2>1. PICK s \in {"closed", "draining"} :
          /\ round' = [round EXCEPT ![w] = [round[w] EXCEPT !.state = s]]
          /\ work' = work
    BY <1>3 DEF Close, SettleDraining
  <2> HIDE DEF w
  <2> DEFINE y == [round[w] EXCEPT !.state = s]
  <2>2. y.state = s /\ y.drain = round[w].drain
    BY <1>0 DEF IInv, SlotTables, RoundRows
  <2> HIDE DEF y
  <2>3. round' = [round EXCEPT ![w] = y] /\ round'[w] = y /\ work' = [work EXCEPT ![w] = work[w]]
    BY <1>0, <2>1 DEF y, IInv, SlotTables
  <2>4. RowStep(w) BY <1>0, <2>2, <2>3 DEF RowStep, RowOwned
  <2> QED BY <1>0, <1>1, <2>3, <2>4, OneRowStep
<1> QED BY <1>2, <1>3

\* Blocked.
LEMMA BlockExpiredOwnerRows ==
    ASSUME IInv, BlockExpiredOwner
    PROVE  \A v \in Works : RowStep(v)
<1> DEFINE w == owner.work
           s == IF round[w].state = "open" THEN "recovery_blocked" ELSE round[w].state
           y == [round[w] EXCEPT !.state = s]
<1>0. w \in Works
  BY DEF IInv, SlotTables, BlockExpiredOwner
<1>1. PICK x : work' = [work EXCEPT ![w] = x]
  BY DEF BlockExpiredOwner
<1>2. round' = [round EXCEPT ![w] = y]
  BY <1>0 DEF BlockExpiredOwner, IInv, SlotTables
<1>3. owner'.work = owner.work
  BY DEF BlockExpiredOwner, IInv, SlotTables
<1>4. y.state = s /\ y.drain = round[w].drain
  BY <1>0 DEF IInv, SlotTables, RoundRows
<1>5. round[w].state \in {"closed", "draining"} => s \in {"closed", "draining"}
  OBVIOUS
<1>6. owner.work = w OBVIOUS
<1> HIDE DEF w, s, y
<1>7. round'[w] = y
  BY <1>0, <1>2 DEF IInv, SlotTables
<1>8. RowStep(w)
  BY <1>4, <1>5, <1>6, <1>7 DEF RowStep, RowOwned
<1> QED BY <1>0, <1>1, <1>2, <1>3, <1>8, OneRowStep

\* Recovered: an open round is resumed, a closed one stays closed.
LEMMA RecoverRows ==
    ASSUME IInv, NEW c \in Clients, Recover(c)
    PROVE  \A v \in Works : RowStep(v)
<1> DEFINE w == owner.work
           r == Resume(round[w].state)
           d == round[w].drain \/ Cooling(w)
           y == [round[w] EXCEPT !.state = r, !.drain = d]
<1>0. w \in Works
  BY DEF IInv, SlotTables, Recover
<1>1. PICK x : work' = [work EXCEPT ![w] = x]
  BY DEF Recover
<1>2. round' = [round EXCEPT ![w] = y]
  BY <1>0 DEF Recover, IInv, SlotTables
<1>3. owner'.work = w
  BY <1>0, MintFacts DEF Recover, IInv
<1>4. y.state = r /\ y.drain = d
  BY <1>0 DEF IInv, SlotTables, RoundRows
<1>5. /\ round[w].state \in {"closed", "draining"} => r \in {"closed", "draining"}
      /\ round[w].drain => d
  BY DEF Resume
<1>6. owner.work = w OBVIOUS
<1> HIDE DEF w, r, d, y
<1>7. round'[w] = y
  BY <1>0, <1>2 DEF IInv, SlotTables
<1>8. RowStep(w)
  BY <1>4, <1>5, <1>6, <1>7 DEF RowStep, RowOwned
<1> QED BY <1>0, <1>1, <1>2, <1>3, <1>6, <1>8, OneRowStep

\* Claimed, after the sweep.
LEMMA ClaimFreshRows ==
    ASSUME IInv, LineInv, NEW c \in Clients, ClaimFresh(c)
    PROVE  \A v \in Works : RowStep(v)
<1> DEFINE S == Ended
           wk == WorkAfter(S)
           rd == RoundAfter(S)
<1>1. PICK w \in Works :
        /\ NextIn(QueueAfter(S), w)
        /\ work' = [wk EXCEPT ![w].state = "running"]
        /\ round' = [rd EXCEPT ![w].state = "open",
                               ![w].drain = DrainOnly(w, rd[w].drain)]
        /\ Mint(c, w)
  BY DEF ClaimFresh
<1> DEFINE d == DrainOnly(w, rd[w].drain)
           y == [rd[w] EXCEPT !.state = "open", !.drain = d]
<1>2. wk \in [Works -> WorkRows] /\ rd \in [Works -> RoundRows]
  BY AfterTypes DEF IInv
<1>3. work[w].state = "queued"
  BY <1>1 DEF NextIn, Eligible
<1>4. owner.work \notin Works /\ owner'.work = w
  BY <1>1, ConstantsAssumption, MintFacts DEF ClaimFresh, IInv
<1>5. round[w].drain => rd[w].drain
  BY SweptRows
<1>6. d \in BOOLEAN
  BY DEF DrainOnly
<1>7. ASSUME NEW v \in Works \ {w} PROVE RowStep(v)
  <2>1. work'[v] = wk[v] /\ round'[v] = rd[v] BY <1>1, <1>2
  <2> QED BY <1>4, <2>1, SweptRowStep
<1> HIDE DEF S, wk, rd, d
<1>8. round' = [rd EXCEPT ![w] = y]
  BY <1>1, <1>2 DEF d
<1>9. y.drain = d
  BY <1>2, <1>6 DEF RoundRows
<1> HIDE DEF y
<1>10. round'[w].drain = DrainOnly(w, rd[w].drain)
  BY <1>2, <1>8, <1>9 DEF d
<1>11. rd[w].drain \in BOOLEAN
  BY <1>2 DEF RoundRows
<1>12. RowClaimed(w)
  BY <1>3, <1>4, <1>5, <1>10, <1>11 DEF RowClaimed
<1> QED BY <1>7, <1>12 DEF RowStep

\* Settlement, with or without a sweep before it.
LEMMA SettledRows ==
    ASSUME IInv, NEW w \in Works, owner.work = w,
           NEW wk \in [Works -> WorkRows], NEW rd \in [Works -> RoundRows], NEW q,
           round[w].drain => rd[w].drain,
           NEW outcome \in Outcomes \cup {"retry"}, NEW waive \in BOOLEAN,
           NEW source_error \in BOOLEAN,
           Settled(w, wk, rd, q, outcome, waive, source_error)
    PROVE  /\ RowStep(w)
           /\ \A v \in Works \ {w} : /\ work'[v] = wk[v] /\ round'[v] = rd[v]
                                     /\ owner'.work # v /\ owner.work # v
<1>1. owner'.work \notin Works
  BY ConstantsAssumption DEF Settled
<1>2. CASE outcome = "retry"
  <2> DEFINE y == RetryRound(w, source_error)
  <2>1. work' = [wk EXCEPT ![w].state = "queued"] /\ round' = [rd EXCEPT ![w] = y]
    BY <1>2 DEF Settled
  <2>2. y.state = "queued" /\ y.drain = (round[w].drain \/ ~AcquisitionOpen(w, TRUE))
    BY DEF RetryRound, NewRound
  <2> HIDE DEF y
  <2>3. round'[w] = y BY <2>1
  <2>4. round[w].drain => round'[w].drain
    BY <2>2, <2>3
  <2>5. RowOwned(w)
    BY <2>2, <2>3, <2>4 DEF RowOwned
  <2> QED BY <1>1, <2>1, <2>5 DEF RowStep
<1>3. CASE outcome # "retry"
  <2> DEFINE o == IF waive /\ Pending(w) # {} THEN "waived" ELSE Result(w, outcome)
             y == [rd[w] EXCEPT !.state = "settled", !.outcome = o]
  <2>1. work' = [wk EXCEPT ![w].state = Result(w, outcome)]
    BY <1>3 DEF Settled
  <2>2. round' = [rd EXCEPT ![w].state = "settled", ![w].outcome = o]
    BY <1>3 DEF Settled
  <2> HIDE DEF o
  <2>3. round' = [rd EXCEPT ![w] = y]
    BY <2>2
  <2>4. y.state = "settled" /\ y.drain = rd[w].drain
    BY DEF RoundRows
  <2> HIDE DEF y
  <2>5. round'[w] = y BY <2>3
  <2>6. RowOwned(w)
    BY <2>4, <2>5 DEF RowOwned
  <2> QED BY <1>1, <2>1, <2>3, <2>6 DEF RowStep
<1> QED BY <1>2, <1>3

\* Settled by the owner.
LEMMA SettleRoundRows ==
    ASSUME IInv, NEW c \in Clients, NEW outcome \in Outcomes \cup {"retry"},
           NEW waive \in BOOLEAN, NEW source_error \in BOOLEAN,
           SettleRound(c, outcome, waive, source_error)
    PROVE  \A v \in Works : RowStep(v)
<1> DEFINE w == held[c].work
<1>1. w \in Works /\ owner.work = w
  BY FenceFacts DEF IInv, SettleRound
<1>2. Settled(w, work, round, queue, outcome, waive, source_error)
  BY DEF SettleRound
<1>3. work \in [Works -> WorkRows] /\ round \in [Works -> RoundRows]
  BY DEF IInv, SlotTables
<1> HIDE DEF w
<1>4. /\ RowStep(w)
      /\ \A v \in Works \ {w} : /\ work'[v] = work[v] /\ round'[v] = round[v]
                                /\ owner'.work # v /\ owner.work # v
  BY <1>1, <1>2, <1>3, SettledRows
<1> QED BY <1>4, SameRowStep

\* Completed, drained or settled by the item's completion.
LEMMA CompleteItemRows ==
    ASSUME IInv, NEW c \in Clients, NEW outcome \in {"completed", "partial", "failed"},
           NEW waive \in BOOLEAN, CompleteItem(c, outcome, waive)
    PROVE  \A v \in Works : RowStep(v)
<1> DEFINE w == held[c].work
           ended == ItemAfterExpiry[w] \in {"cancelled", "expired"}
           result == IF ended /\ ~Waives(outcome, waive) THEN "cancelled" ELSE outcome
           S == Lapsed
           wk == WorkAfter(S)
           rd == RoundAfter(S)
           q == QueueAfter(S)
<1>1. w \in Works /\ owner.work = w
  BY FenceFacts DEF IInv, CompleteItem
<1>2. wk \in [Works -> WorkRows] /\ rd \in [Works -> RoundRows]
  BY AfterTypes DEF IInv
<1>3. round[w].drain => rd[w].drain
  BY <1>1, SweptRows
<1>4. result \in Outcomes \cup {"retry"}
  BY DEF Outcomes
<1>5. IF SettleBlocked(w, result, waive)
      THEN /\ work' = wk
           /\ round' = [rd EXCEPT ![w].state = "draining"]
           /\ owner' = owner
      ELSE Settled(w, wk, rd, q, result, waive, FALSE)
  BY DEF CompleteItem
<1>6. ASSUME NEW v \in Works \ {w}, work'[v] = wk[v], round'[v] = rd[v],
             (owner'.work = v) <=> (owner.work = v)
      PROVE  RowStep(v)
  BY <1>6, SweptRowStep
<1> HIDE DEF w, result, S, wk, rd, q
<1>7. CASE ~SettleBlocked(w, result, waive)
  <2>1. \A e \in BOOLEAN : Settled(w, wk, rd, q, result, waive, e) =>
           /\ RowStep(w)
           /\ \A v \in Works \ {w} : /\ work'[v] = wk[v] /\ round'[v] = rd[v]
                                     /\ owner'.work # v /\ owner.work # v
    BY <1>1, <1>2, <1>3, <1>4, SettledRows
  <2> QED BY <1>5, <1>6, <1>7, <2>1
<1>8. CASE SettleBlocked(w, result, waive)
  <2> DEFINE y == [rd[w] EXCEPT !.state = "draining"]
  <2>1. work' = wk /\ owner' = owner /\ round' = [rd EXCEPT ![w] = y]
    BY <1>5, <1>8
  <2>2. y.state = "draining" /\ y.drain = rd[w].drain
    BY <1>1, <1>2 DEF RoundRows
  <2> HIDE DEF y
  <2>3. round'[w] = y BY <1>1, <1>2, <2>1
  <2>4. RowStep(w)
    BY <1>1, <1>3, <2>2, <2>3 DEF RowStep, RowOwned
  <2>5. \A v \in Works \ {w} : work'[v] = wk[v] /\ round'[v] = rd[v]
    BY <1>2, <2>1
  <2> QED BY <1>6, <2>1, <2>4, <2>5
<1> QED BY <1>7, <1>8

\* A step that only sweeps, and one that leaves the rows alone.
LEMMA SweepRows ==
    ASSUME IInv, NEW S, work' = WorkAfter(S), round' = RoundAfter(S), owner' = owner
    PROVE  \A v \in Works : RowStep(v)
  BY SweptRowStep

\* Left alone.
LEMMA AsideRows ==
    ASSUME UNCHANGED <<work, round>>, owner'.work = owner.work
    PROVE  \A v \in Works : RowStep(v)
  BY SameRowStep

\* Every step does one of the four things to every work.
LEMMA NextRows ==
    ASSUME IInv, LineInv, Next
    PROVE  \A v \in Works : RowStep(v)
<1> DEFINE Goal == \A v \in Works : RowStep(v)
<1>1. ASSUME NEW c \in Clients, ClientStep(c) PROVE Goal
  <2>1. CASE ClaimFresh(c) BY <2>1, ClaimFreshRows
  <2>2. CASE Recover(c) BY <2>2, RecoverRows
  <2>3. CASE ClaimNextItem(c) BY <2>3, SweepRows DEF ClaimNextItem
  <2>4. CASE FreezeManifest(c) \/ Close(c) \/ ReportDraining(c)
    BY <2>4, FencedRows DEF ReportDraining
  <2>5. CASE Heartbeat(c) BY <2>5, AsideRows DEF Heartbeat, slot
  <2>6. CASE \E k \in Keys, b \in Bodies : PrepareIntent(c, k, b) \/ Ingest(c, k, b)
    BY <2>6, AsideRows DEF PrepareIntent, Ingest, slot
  <2>7. CASE ExecuteRerun(c) BY <2>7, AsideRows DEF ExecuteRerun, slot
  <2>8. CASE Settle(c) BY <2>8, SettleRoundRows DEF Settle
  <2>9. CASE Complete(c) BY <2>9, CompleteItemRows DEF Complete
  <2>10. CASE Forget(c) BY <2>10, AsideRows DEF Forget, slot
  <2> QED BY <1>1, <2>1, <2>2, <2>3, <2>4, <2>5, <2>6, <2>7, <2>8, <2>9, <2>10 DEF ClientStep
<1>2. ASSUME NEW w \in Works, WorkStep(w) PROVE Goal
  <2>1. CASE Enqueue(w) \/ RerunFromRaw(w) BY <2>1, EnqueueRows
  <2>2. CASE CancelRequest(w) BY <2>2, SweepRows DEF CancelRequest
  <2>3. CASE CloseCalendar(w) BY <2>3, CloseCalendarRows
  <2>4. CASE ApplyRepair(w) BY <2>4, ApplyRepairRows
  <2>5. CASE CorrectDecision(w) BY <2>5, AsideRows DEF CorrectDecision, slot
  <2>6. CASE RoundComesDue(w) BY <2>6, RoundComesDueRows
  <2>7. CASE DateLapses(w) BY <2>7, AsideRows DEF DateLapses, slot
  <2>8. CASE \E k \in Keys : RunFinishes(w, k) BY <2>8, AsideRows DEF RunFinishes, slot
  <2> QED BY <1>2, <2>1, <2>2, <2>3, <2>4, <2>5, <2>6, <2>7, <2>8 DEF WorkStep
<1>3. CASE ReconcileCancelledQueue BY <1>3, SweepRows DEF ReconcileCancelledQueue
<1>4. CASE BlockExpiredOwner BY <1>4, BlockExpiredOwnerRows
<1>5. CASE StartOrStopScheduler BY <1>5, AsideRows DEF StartOrStopScheduler, slot
<1>6. CASE WindowOpensOrCloses BY <1>6, AsideRows DEF WindowOpensOrCloses, slot
<1>7. CASE CooldownEnds BY <1>7, AsideRows DEF CooldownEnds, slot
<1>8. CASE HeartbeatExpires
  <2>1. owner'.work = owner.work BY <1>8 DEF HeartbeatExpires, IInv, SlotTables
  <2> QED BY <1>8, <2>1, AsideRows DEF HeartbeatExpires
<1> QED BY <1>1, <1>2, <1>3, <1>4, <1>5, <1>6, <1>7, <1>8 DEF Next

-----------------------------------------------------------------------------
(* What a step does to the deliveries.                                     *)

\* Only an intent binds bytes.
LEMMA OnlyIntents ==
    ASSUME Next
    PROVE  \/ prepared' = prepared
           \/ \E c \in Clients, k \in Keys, b \in Bodies : PrepareIntent(c, k, b)
<1>1. ASSUME NEW c \in Clients, ClientStep(c)
      PROVE  prepared' = prepared \/ \E k \in Keys, b \in Bodies : PrepareIntent(c, k, b)
  BY <1>1 DEF ClientStep, ClaimFresh, Recover, ClaimNextItem, Heartbeat, FreezeManifest,
              Ingest, ExecuteRerun, Close, Settle, SettleRound, ReportDraining,
              SettleDraining, Complete, CompleteItem, Forget, deliveries
<1>2. ASSUME NEW w \in Works, WorkStep(w)
      PROVE  prepared' = prepared
  BY <1>2 DEF WorkStep, Enqueue, RerunFromRaw, CancelRequest, CloseCalendar, ApplyRepair,
              CorrectDecision, RoundComesDue, DateLapses, RunFinishes, deliveries
<1>3. ASSUME \/ ReconcileCancelledQueue \/ BlockExpiredOwner
             \/ StartOrStopScheduler \/ WindowOpensOrCloses
             \/ CooldownEnds \/ HeartbeatExpires
      PROVE  prepared' = prepared
  BY <1>3 DEF ReconcileCancelledQueue, BlockExpiredOwner, StartOrStopScheduler,
              WindowOpensOrCloses, CooldownEnds, HeartbeatExpires, deliveries
<1> QED BY <1>1, <1>2, <1>3 DEF Next

\* New bytes are bound in an open round, by an open acquisition or to match a
\* receipt that the work already has.
LEMMA BoundBytes ==
    ASSUME IInv, Next, NEW w \in Works, NEW k \in Keys, prepared'[w][k] # prepared[w][k]
    PROVE  /\ round[w].state = "open"
           /\ \/ AcquisitionOpen(w, FALSE)
              \/ receipt[w][k] # NoReceipt /\ receipt[w][k].body = prepared'[w][k]
<1>1. PICK c \in Clients, j \in Keys, b \in Bodies : PrepareIntent(c, j, b)
  BY OnlyIntents
<1> DEFINE v == held[c].work
<1>2. v \in Works
  BY <1>1, FenceFacts DEF IInv, PrepareIntent
<1>3. /\ prepared' = [prepared EXCEPT ![v][j] = b]
      /\ round[v].state = "open"
      /\ AcquisitionOpen(v, FALSE) \/ (receipt[v][j] # NoReceipt /\ receipt[v][j].body = b)
  BY <1>1 DEF PrepareIntent
<1> HIDE DEF v
<1>4. v = w /\ j = k /\ prepared'[w][k] = b
  BY <1>2, <1>3 DEF IInv, SlotTables
<1> QED BY <1>3, <1>4

\* A new receipt of a created work comes from one accepted request.
LEMMA NewReceipt ==
    ASSUME IInv, Next, NEW w \in Works, NEW k \in Keys, work[w].state # "absent",
           receipt[w][k] = NoReceipt, receipt'[w][k] # NoReceipt
    PROVE  /\ Acceptable(w, k, receipt'[w][k].body)
           /\ receipt'[w][k].body \in Bodies
<1>1. ASSUME NEW c \in Clients, ExecuteRerun(c) PROVE FALSE
  <2> DEFINE v == held[c].work
  <2>1. v \in Works BY <1>1, FenceFacts DEF IInv, ExecuteRerun, AcquisitionFence
  <2>2. PICK j \in Accepted(v) : receipt' = [receipt EXCEPT ![v][j].run = "open"]
    BY <1>1 DEF ExecuteRerun
  <2>3. receipt[v][j] # NoReceipt /\ j \in Keys BY <2>2 DEF Accepted
  <2> HIDE DEF v
  <2>4. ~(w = v /\ k = j) BY <2>3
  <2>5. receipt'[w][k] = receipt[w][k] BY <2>1, <2>2, <2>3, <2>4 DEF IInv, SlotTables
  <2> QED BY <2>5
<1>2. ASSUME NEW v \in Works, RerunFromRaw(v) PROVE FALSE
  <2>1. v # w BY <1>2 DEF RerunFromRaw
  <2>2. receipt'[w] = receipt[w] BY <1>2, <2>1 DEF RerunFromRaw, IInv, SlotTables
  <2> QED BY <2>2
<1>3. ASSUME NEW v \in Works, NEW j \in Keys, RunFinishes(v, j) PROVE FALSE
  <2>1. PICK r \in TERMINAL_RUNS : receipt' = [receipt EXCEPT ![v][j].run = r]
    BY <1>3 DEF RunFinishes
  <2>2. ~(w = v /\ k = j) BY <1>3 DEF RunFinishes
  <2>3. receipt'[w][k] = receipt[w][k] BY <2>1, <2>2 DEF IInv, SlotTables
  <2> QED BY <2>3
<1>4. PICK c \in Clients, j \in Keys, b \in Bodies : Ingest(c, j, b)
  BY <1>1, <1>2, <1>3, OnlyReceiptSteps
<1> DEFINE v == held[c].work
<1>5. v \in Works
  BY <1>4, FenceFacts DEF IInv, Ingest
<1>6. /\ receipt' = [receipt EXCEPT ![v][j] = [body |-> b, run |-> "open"]]
      /\ Acceptable(v, j, b)
  BY <1>4 DEF Ingest
<1> HIDE DEF v
<1>7. v = w /\ j = k /\ receipt'[w][k] = [body |-> b, run |-> "open"]
  BY <1>5, <1>6 DEF IInv, SlotTables
<1> QED BY <1>6, <1>7

\* Only the owner's work, and a rerun when it is created, gains receipts.
LEMMA DatedReceipt ==
    ASSUME IInv, Next, NEW w \in Works, NEW k \in Keys, Delivers(w), owner.work # w
    PROVE  receipt[w][k] = NoReceipt => receipt'[w][k] = NoReceipt
<1>1. ASSUME NEW c \in Clients, ExecuteRerun(c)
      PROVE  receipt'[w] = receipt[w]
  <2> DEFINE v == held[c].work
  <2>1. v \in Works /\ v = owner.work
    BY <1>1, FenceFacts DEF IInv, ExecuteRerun, AcquisitionFence
  <2>2. PICK j \in Accepted(v) : receipt' = [receipt EXCEPT ![v][j].run = "open"]
    BY <1>1 DEF ExecuteRerun
  <2> HIDE DEF v
  <2> QED BY <2>1, <2>2 DEF IInv, SlotTables
<1>2. ASSUME NEW v \in Works, RerunFromRaw(v) PROVE receipt'[w] = receipt[w]
  BY <1>2 DEF RerunFromRaw, Delivers, IInv, SlotTables
<1>3. ASSUME NEW v \in Works, NEW j \in Keys, RunFinishes(v, j), receipt[w][k] = NoReceipt
      PROVE  receipt'[w][k] = receipt[w][k]
  <2>1. PICK r \in TERMINAL_RUNS : receipt' = [receipt EXCEPT ![v][j].run = r]
    BY <1>3 DEF RunFinishes
  <2>2. ~(w = v /\ k = j) BY <1>3 DEF RunFinishes
  <2> QED BY <2>1, <2>2 DEF IInv, SlotTables
<1>4. ASSUME NEW c \in Clients, NEW j \in Keys, NEW b \in Bodies, Ingest(c, j, b)
      PROVE  receipt'[w] = receipt[w]
  <2> DEFINE v == held[c].work
  <2>1. v \in Works /\ v = owner.work BY <1>4, FenceFacts DEF IInv, Ingest
  <2>2. receipt' = [receipt EXCEPT ![v][j] = [body |-> b, run |-> "open"]]
    BY <1>4 DEF Ingest
  <2> HIDE DEF v
  <2> QED BY <2>1, <2>2 DEF IInv, SlotTables
<1> QED BY <1>1, <1>2, <1>3, <1>4, OnlyReceiptSteps

-----------------------------------------------------------------------------
(* What no step does.                                                      *)

\* Closed rounds acquire nothing.
LEMMA ClosedStep ==
    ASSUME IInv, LineInv, Next
    PROVE  ClosedStaysClosed
<1> SUFFICES ASSUME NEW w \in Works, round[w].state \in {"closed", "draining"}
             PROVE  /\ round'[w].state \in {"closed", "draining", "settled", "queued"}
                    /\ prepared'[w] = prepared[w]
                    /\ \A k \in Keys :
                         receipt'[w][k] # receipt[w][k] /\ receipt[w][k] = NoReceipt
                           => prepared[w][k] = receipt'[w][k].body
  BY DEF ClosedStaysClosed
<1>1. owner.work = w /\ work[w].state \in {"running", "recovery_blocked"}
  BY DEF IInv, SlotMatchesRound, ActiveRound
<1>2. round'[w].state \in {"closed", "draining", "settled", "queued"}
  BY <1>1, NextRows DEF RowStep, RowStays, RowMoves, RowClaimed, RowOwned
<1>3. \A k \in Keys : prepared'[w][k] = prepared[w][k]
  BY BoundBytes
<1>4. prepared'[w] = prepared[w]
  BY <1>3, NextIInv DEF IInv, SlotTables
<1>5. ASSUME NEW k \in Keys, receipt'[w][k] # receipt[w][k], receipt[w][k] = NoReceipt
      PROVE  prepared[w][k] = receipt'[w][k].body
  BY <1>1, <1>5, NewReceipt DEF Acceptable
<1> QED BY <1>2, <1>4, <1>5

\* Stopped works only drain.
LEMMA StoppedStep ==
    ASSUME IInv, LineInv, Next
    PROVE  StoppedWorkOnlyDrains
<1> SUFFICES ASSUME NEW w \in Works, NEW k \in Keys, Delivers(w), ~AcquisitionOpen(w, FALSE)
             PROVE  /\ prepared'[w][k] # prepared[w][k] =>
                         receipt[w][k] # NoReceipt /\ receipt[w][k].body = prepared'[w][k]
                    /\ receipt[w][k] = NoReceipt /\ receipt'[w][k] # NoReceipt =>
                         prepared[w][k] = receipt'[w][k].body
  BY DEF StoppedWorkOnlyDrains
<1>1. prepared'[w][k] # prepared[w][k] =>
        receipt[w][k] # NoReceipt /\ receipt[w][k].body = prepared'[w][k]
  BY BoundBytes
<1>2. ASSUME receipt[w][k] = NoReceipt, receipt'[w][k] # NoReceipt
      PROVE  prepared[w][k] = receipt'[w][k].body
  <2>1. ~AcquisitionOpen(w, TRUE) BY DEF AcquisitionOpen
  <2>2. CASE work[w].state # "absent"
    BY <1>2, <2>1, <2>2, NewReceipt DEF Acceptable
  <2>3. CASE work[w].state = "absent"
    <3>1. owner.work # w BY <2>3 DEF IInv, SlotMatchesRound
    <3> QED BY <1>2, <3>1, DatedReceipt
  <2> QED BY <2>2, <2>3
<1> QED BY <1>1, <1>2

\* The drain-only mark is lifted only when the work has drained.
LEMMA DrainStep ==
    ASSUME IInv, LineInv, Next
    PROVE  DrainOnlyUntilDrained
<1> SUFFICES ASSUME NEW w \in Works, round[w].drain, ~round'[w].drain
             PROVE  /\ AcquisitionOpen(w, TRUE)
                    /\ Drained(w) \/ round[w].outcome = "waived"
  BY DEF DrainOnlyUntilDrained
<1>1. RowStep(w) BY NextRows
<1>2. CASE RowMoves(w)
  <2>1. work[w].state \in {"failed", "partial"} /\ AcquisitionOpen(w, TRUE)
    BY <1>2 DEF RowMoves
  <2> QED BY <2>1 DEF IInv, EndedWorkDrained, Outcomes
<1>3. CASE RowClaimed(w)
  BY <1>3 DEF RowClaimed, DrainOnly
<1> QED BY <1>1, <1>2, <1>3 DEF RowStep, RowStays, RowOwned

\* Final states are final.
LEMMA FinalStep ==
    ASSUME IInv, LineInv, Next
    PROVE  FinalStates
<1> SUFFICES ASSUME NEW w \in Works,
                    work[w].state \in {"completed", "cancelled", "calendar_closed"}
             PROVE  work'[w] = work[w] /\ owner'.work # w
  BY DEF FinalStates
<1>1. owner.work # w
  BY DEF IInv, SlotMatchesRound
<1>2. RowStays(w)
  BY <1>1, NextRows DEF RowStep, RowMoves, RowClaimed, RowOwned
<1> QED BY <1>1, <1>2 DEF RowStays

\* The line only loses works, or gains one at its tail.
LineMoves ==
    \/ queue' = queue
    \/ \E S \in SUBSET Works : queue' = Leave(queue, S)
    \/ \E w \in Works : w \notin InLine(queue) /\ queue' = Join(queue, w)

\* A sweep takes works out of line.
LEMMA AfterLeaves ==
    ASSUME NEW S
    PROVE  \E D \in SUBSET Works : QueueAfter(S) = Leave(queue, D)
<1>1. {w \in Works : Withdrawn(w, S)} \in SUBSET Works
  OBVIOUS
<1> QED BY <1>1 DEF QueueAfter

\* The fetcher's steps.
LEMMA ClientLineMoves ==
    ASSUME IInv, LineInv, NEW c \in Clients, ClientStep(c)
    PROVE  LineMoves
<1>1. CASE ClaimFresh(c)
  <2>1. PICK w \in Works : queue' = Leave(QueueAfter(Ended), {w})
    BY <1>1 DEF ClaimFresh
  <2>2. PICK D \in SUBSET Works : QueueAfter(Ended) = Leave(queue, D)
    BY AfterLeaves
  <2>3. queue' = Leave(queue, D \cup {w})
    BY <2>1, <2>2 DEF Leave
  <2>4. D \cup {w} \in SUBSET Works
    OBVIOUS
  <2> QED BY <2>3, <2>4 DEF LineMoves
<1>2. CASE ClaimNextItem(c)
  BY <1>2, AfterLeaves DEF ClaimNextItem, LineMoves
<1>3. CASE Settle(c)
  <2>1. PICK outcome \in Outcomes \cup {"retry"}, waive, source_error \in BOOLEAN :
           SettleRound(c, outcome, waive, source_error)
    BY <1>3 DEF Settle
  <2> DEFINE w == held[c].work
  <2>2. w \in Works /\ owner.work = w
    BY <2>1, FenceFacts DEF IInv, SettleRound
  <2>3. queue' = queue \/ queue' = Join(queue, w)
    BY <2>1 DEF SettleRound, Settled
  <2>4. w \notin InLine(queue)
    BY <2>2, OwnerOutOfLine
  <2> QED BY <2>2, <2>3, <2>4 DEF LineMoves
<1>4. CASE Complete(c)
  <2>1. PICK outcome \in {"completed", "partial", "failed"}, waive \in BOOLEAN :
           CompleteItem(c, outcome, waive)
    BY <1>4 DEF Complete
  <2>2. queue' = QueueAfter(Lapsed)
    BY <2>1 DEF CompleteItem, Settled
  <2> QED BY <2>2, AfterLeaves DEF LineMoves
<1>5. CASE Recover(c) \/ FreezeManifest(c) \/ Close(c) \/ ReportDraining(c)
  BY <1>5 DEF Recover, FreezeManifest, Close, ReportDraining, SettleDraining, LineMoves
<1>6. CASE Heartbeat(c) \/ ExecuteRerun(c) \/ Forget(c)
  BY <1>6 DEF Heartbeat, ExecuteRerun, Forget, slot, LineMoves
<1>7. CASE \E k \in Keys, b \in Bodies : PrepareIntent(c, k, b) \/ Ingest(c, k, b)
  BY <1>7 DEF PrepareIntent, Ingest, slot, LineMoves
<1> QED BY <1>1, <1>2, <1>3, <1>4, <1>5, <1>6, <1>7 DEF ClientStep

\* All steps.
LEMMA NextLineMoves ==
    ASSUME IInv, LineInv, Next
    PROVE  LineMoves
<1>1. ASSUME NEW w \in Works, WorkStep(w) PROVE LineMoves
  <2>1. CASE Enqueue(w) \/ RerunFromRaw(w) \/ ApplyRepair(w)
    <3>1. queue' = Join(queue, w) /\ work[w].state \in {"absent", "failed", "partial"}
      BY <2>1 DEF Enqueue, RerunFromRaw, ApplyRepair
    <3>2. w \notin InLine(queue)
      BY <3>1 DEF LineInv, Fifo, RowInLine
    <3> QED BY <3>1, <3>2 DEF LineMoves
  <2>2. CASE CancelRequest(w)
    BY <2>2, AfterLeaves DEF CancelRequest, LineMoves
  <2>3. CASE CloseCalendar(w) \/ RoundComesDue(w)
    BY <2>3 DEF CloseCalendar, RoundComesDue, LineMoves
  <2>4. CASE CorrectDecision(w) \/ DateLapses(w) \/ \E k \in Keys : RunFinishes(w, k)
    BY <2>4 DEF CorrectDecision, DateLapses, RunFinishes, slot, LineMoves
  <2> QED BY <1>1, <2>1, <2>2, <2>3, <2>4 DEF WorkStep
<1>2. CASE ReconcileCancelledQueue
  BY <1>2, AfterLeaves DEF ReconcileCancelledQueue, LineMoves
<1>3. CASE BlockExpiredOwner \/ HeartbeatExpires
  BY <1>3 DEF BlockExpiredOwner, HeartbeatExpires, LineMoves
<1>4. CASE StartOrStopScheduler \/ WindowOpensOrCloses \/ CooldownEnds
  BY <1>4 DEF StartOrStopScheduler, WindowOpensOrCloses, CooldownEnds, slot, LineMoves
<1> QED BY <1>1, <1>2, <1>3, <1>4, ClientLineMoves DEF Next

\* Hence nobody overtakes.
LEMMA OvertakingStep ==
    ASSUME IInv, LineInv, Next
    PROVE  NoOvertaking
<1>0. queue \in SUBSET Pairs /\ IsLine(queue)
  BY DEF LineInv, Fifo
<1>1. CASE queue' = queue
  BY <1>1 DEF NoOvertaking, InLine
<1>2. ASSUME NEW S \in SUBSET Works, queue' = Leave(queue, S) PROVE NoOvertaking
  <2>1. /\ InLine(queue') = InLine(queue) \ S
        /\ \A u, v \in InLine(queue) \ S : <<u, v>> \in queue' <=> <<u, v>> \in queue
    BY <1>0, <1>2, LeaveLine
  <2> QED BY <2>1 DEF NoOvertaking
<1>3. ASSUME NEW w \in Works, w \notin InLine(queue), queue' = Join(queue, w)
      PROVE  NoOvertaking
  <2>1. /\ InLine(queue') = InLine(queue) \cup {w}
        /\ \A u, v \in InLine(queue) : <<u, v>> \in queue' <=> <<u, v>> \in queue
        /\ \A v \in InLine(queue) : <<w, v>> \notin queue'
    BY <1>0, <1>3, JoinLine
  <2> QED BY <2>1 DEF NoOvertaking
<1> QED BY <1>1, <1>2, <1>3, NextLineMoves DEF LineMoves

\* A fresh claim lifts the mark of a drained dated work.
LEMMA AcquireStep ==
    ASSUME IInv, LineInv, Next
    PROVE  \A w \in Works : Delivers(w) => MayAcquire(w)
<1> SUFFICES ASSUME NEW w \in Works, Delivers(w), owner.work # w, owner'.work = w,
                    AcquisitionOpen(w, TRUE), ~Cooling(w), Drained(w)
             PROVE  ~round'[w].drain
  BY DEF MayAcquire
<1>1. RowClaimed(w)
  BY NextRows DEF RowStep, RowStays, RowMoves, RowOwned
<1> QED BY <1>1 DEF RowClaimed, DrainOnly

\* No step acquires in a closed or stopped round, lets a drain-only work
\* acquire before it drained or was waived, or reopens a final work.
THEOREM StepsAreSafe == Spec => WorkSteps
<1>1. IInv /\ LineInv /\ [Next]_vars =>
        [/\ ClosedStaysClosed /\ StoppedWorkOnlyDrains
         /\ DrainOnlyUntilDrained /\ FinalStates]_vars
  BY ClosedStep, StoppedStep, DrainStep, FinalStep
<1> QED BY <1>1, LineInvariance, PTL DEF Spec, WorkSteps

\* In a queue of any length nobody overtakes, stopped works only drain and
\* final works stay final.
THEOREM FirstInFirstOut == Spec => PairSteps
<1>1. IInv /\ LineInv /\ [Next]_vars =>
        [StoppedWorkOnlyDrains /\ FinalStates /\ NoOvertaking]_vars
  BY StoppedStep, FinalStep, OvertakingStep
<1> QED BY <1>1, LineInvariance, PTL DEF Spec, PairSteps

\* drain-only does not lock a dated work: a fresh round of a drained work
\* whose acquisition is open may acquire.
THEOREM DrainOnlyEnds == Spec => DatedRoundMayAcquire
<1>1. IInv /\ LineInv /\ [Next]_vars => [\A w \in Works : Delivers(w) => MayAcquire(w)]_vars
  BY AcquireStep
<1> QED BY <1>1, LineInvariance, PTL DEF Spec, DatedRoundMayAcquire
=============================================================================
