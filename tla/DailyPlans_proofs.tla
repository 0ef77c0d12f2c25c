------------------------- MODULE DailyPlans_proofs -------------------------
(***************************************************************************)
(* Proofs about DailyPlans: whatever transactions of operators and         *)
(* schedulers interleave, their row locks exclude each other and are taken *)
(* in one order, what a transaction decides on under its locks is current  *)
(* when it commits, and therefore trade dates, calendars and universes are *)
(* decided on what is true.  Then about PlanDelivery: the stored summary   *)
(* of a plan is true in every state, for any members, gaps, runs,          *)
(* sequences, feeds and number of concurrent writers.                      *)
(***************************************************************************)
EXTENDS DailyPlans, PlanDelivery, FiniteSetTheorems, SequenceTheorems, TLAPS

---------------------------------------------------------------------------
(* The row locks. *)

LockNames == {"batch", "owner", "environment", "dataset", "market", "client", "control"}

\* The order in which every operation takes its rows.
Rank == [l \in LockNames |->
           CASE l = "batch" -> 0 [] l = "owner" -> 1 [] l = "environment" -> 2
             [] l = "dataset" -> 3 [] l = "market" -> 4 [] l = "client" -> 5
             [] l = "control" -> 6]

LockSet(op) == {Locks(op)[k] : k \in 1 .. Len(Locks(op))}

DatasetOps == {"plan", "start", "cutover", "submit", "publish", "reconcile"}
MarketOps == {"plan", "start", "apply", "edit", "calendar", "rollback"}
ControlOps == {"plan", "start", "stop", "environment", "cutover"}
ClientOps == {"plan", "revoke"}

\* Two transactions hold no row in common.
LocksExclusive ==
    \A s, r \in PlanSessions : s # r => Held(s) \cap Held(r) = {}

---------------------------------------------------------------------------
(* What a transaction has read. *)

\* ws is rs with some candidates published, none of them the first.
Promoted(rs, ws) ==
    /\ DOMAIN ws = DOMAIN rs
    /\ \A i \in DOMAIN rs : /\ ws[i].approved = rs[i].approved
                            /\ rs[i].status = "published" => ws[i].status = "published"
    /\ Published(ws) # {} => Published(rs) # {}

\* The facts a transaction decides on are the ones in the tables: it holds the
\* row under which each of them is written.
Current(s) ==
    tx[s].seen # <<>> =>
      /\ tx[s].op # Nil /\ tx[s].held = Len(Locks(tx[s].op))
      /\ tx[s].op \in DatasetOps \ {"reconcile"} => tx[s].seen[1].releases = releases
      /\ tx[s].op = "reconcile" => Promoted(releases, tx[s].seen[1].releases)
      /\ tx[s].op \in MarketOps => tx[s].seen[1].revisions = revisions
      /\ tx[s].op \in ControlOps => /\ tx[s].seen[1].control = scheduler
                                    /\ tx[s].seen[1].enabled = fullMarket
      /\ tx[s].op = "plan" => /\ tx[s].seen[1].client = credential
                              /\ decision[tx[s].arg[1]].kind = Nil

AllCurrent == \A s \in PlanSessions : Current(s)

\* A candidate was approved by nobody, and what is published rests on exactly
\* one row an owner approved as the baseline.
Baseline(rs) ==
    /\ \A i \in DOMAIN rs : rs[i].status = "candidate" => rs[i].approved = Nil
    /\ Published(rs) # {} =>
         \E b \in DOMAIN rs : \A i \in DOMAIN rs : rs[i].approved = "baseline" <=> i = b

BaselineInv == Baseline(releases)

PlansInv == PlansTypeOK /\ LocksExclusive /\ AllCurrent /\ BaselineInv /\ NewestPublicationRules

---------------------------------------------------------------------------
(* Lemmas about the locks. *)

\* The rows of every operation of create_plan(), update_scheduler_desired_state()
\* and the others are known, and taken in the order of Rank.
LEMMA LockOrder ==
    ASSUME NEW op \in PlanOps \cup {Nil}
    PROVE  /\ Locks(op) \in Seq(LockNames)
           /\ \A j, k \in 1 .. Len(Locks(op)) :
                j < k => Rank[Locks(op)[j]] < Rank[Locks(op)[k]]
  <1>1. CASE op = "plan"
    BY <1>1 DEF Locks, LockNames, Rank
  <1>2. CASE op = "start"
    BY <1>2 DEF Locks, LockNames, Rank
  <1>3. CASE op \in {"stop", "environment"}
    <2>1. Locks(op) = <<"owner", "environment", "control">>
      BY <1>3 DEF Locks
    <2> QED BY <2>1 DEF LockNames, Rank
  <1>4. CASE op = "cutover"
    BY <1>4 DEF Locks, LockNames, Rank
  <1>5. CASE op \in {"submit", "publish", "reconcile"}
    BY <1>5 DEF Locks, LockNames, Rank
  <1>6. CASE op = "revoke"
    BY <1>6 DEF Locks, LockNames, Rank
  <1>7. CASE op = "apply"
    BY <1>7 DEF Locks, LockNames, Rank
  <1>8. CASE op \in {"edit", "calendar", "rollback"}
    BY <1>8 DEF Locks, LockNames, Rank
  <1>9. CASE op \in {"preview", Nil}
    <2>1. Locks(op) = <<>>
      BY <1>9 DEF Locks, Nil
    <2> QED BY <2>1
  <1> QED BY <1>1, <1>2, <1>3, <1>4, <1>5, <1>6, <1>7, <1>8, <1>9 DEF PlanOps

\* The rows under which releases, calendars, controls and credentials are
\* written and read.
LEMMA LockedRows ==
    ASSUME NEW op \in PlanOps
    PROVE  /\ op \in DatasetOps => "dataset" \in LockSet(op)
           /\ op \in MarketOps => "market" \in LockSet(op)
           /\ op \in ControlOps => "control" \in LockSet(op)
           /\ op \in ClientOps => "client" \in LockSet(op)
  <1>1. CASE op = "plan"
    BY <1>1 DEF Locks, LockSet, DatasetOps, MarketOps, ControlOps, ClientOps
  <1>2. CASE op = "start"
    BY <1>2 DEF Locks, LockSet, DatasetOps, MarketOps, ControlOps, ClientOps
  <1>3. CASE op \in {"stop", "environment"}
    BY <1>3 DEF Locks, LockSet, DatasetOps, MarketOps, ControlOps, ClientOps
  <1>4. CASE op = "cutover"
    BY <1>4 DEF Locks, LockSet, DatasetOps, MarketOps, ControlOps, ClientOps
  <1>5. CASE op \in {"submit", "publish", "reconcile"}
    BY <1>5 DEF Locks, LockSet, DatasetOps, MarketOps, ControlOps, ClientOps
  <1>6. CASE op = "revoke"
    BY <1>6 DEF Locks, LockSet, DatasetOps, MarketOps, ControlOps, ClientOps
  <1>7. CASE op = "apply"
    BY <1>7 DEF Locks, LockSet, DatasetOps, MarketOps, ControlOps, ClientOps
  <1>8. CASE op \in {"edit", "calendar", "rollback"}
    BY <1>8 DEF Locks, LockSet, DatasetOps, MarketOps, ControlOps, ClientOps
  <1>9. CASE op = "preview"
    BY <1>9 DEF DatasetOps, MarketOps, ControlOps, ClientOps
  <1> QED BY <1>1, <1>2, <1>3, <1>4, <1>5, <1>6, <1>7, <1>8, <1>9 DEF PlanOps

\* Two transactions that have read are not both of operations that lock the
\* same row: of the dataset, the market, the control or the credential.
LEMMA Apart ==
    ASSUME PlansTypeOK, LocksExclusive, AllCurrent,
           NEW s \in PlanSessions, NEW r \in PlanSessions, s # r,
           tx[s].seen # <<>>, tx[r].seen # <<>>
    PROVE  /\ ~(tx[s].op \in DatasetOps /\ tx[r].op \in DatasetOps)
           /\ ~(tx[s].op \in MarketOps /\ tx[r].op \in MarketOps)
           /\ ~(tx[s].op \in ControlOps /\ tx[r].op \in ControlOps)
           /\ ~(tx[s].op \in ClientOps /\ tx[r].op \in ClientOps)
  <1>1. /\ tx[s].op \in PlanOps /\ tx[s].held = Len(Locks(tx[s].op))
        /\ tx[r].op \in PlanOps /\ tx[r].held = Len(Locks(tx[r].op))
    BY DEF AllCurrent, Current, PlansTypeOK, TxOK
  <1>2. Held(s) = LockSet(tx[s].op) /\ Held(r) = LockSet(tx[r].op)
    BY <1>1 DEF Held, LockSet
  <1>3. LockSet(tx[s].op) \cap LockSet(tx[r].op) = {}
    BY <1>2 DEF LocksExclusive
  <1> HIDE DEF LockSet, DatasetOps, MarketOps, ControlOps, ClientOps
  <1> QED BY <1>1, <1>3, LockedRows

\* While every operation takes its rows in the order of Rank, no transactions
\* wait in a circle: each would want a row of a higher rank than the next.
LEMMA OrderedLocksDoNotCircle ==
    ASSUME PlansTypeOK
    PROVE  NoCircularWait
  <1> SUFFICES ASSUME NEW W \in SUBSET PlanSessions, W # {},
                      \A s \in W : \E r \in W : WaitsFor(s, r)
               PROVE  FALSE
    BY DEF NoCircularWait
  <1> DEFINE Want(s) == Rank[NextLock(s)]
  <1>1. \A s \in W : Want(s) \in 0 .. 6
    <2> SUFFICES ASSUME NEW s \in W PROVE Want(s) \in 0 .. 6
      OBVIOUS
    <2>1. /\ tx[s].op \in PlanOps \cup {Nil} /\ tx[s].held \in 0 .. Len(Locks(tx[s].op))
          /\ tx[s].held # Len(Locks(tx[s].op))
      BY DEF PlansTypeOK, TxOK, WaitsFor, FullyLocked
    <2>2. Locks(tx[s].op) \in Seq(LockNames)
      BY <2>1, LockOrder
    <2>3. tx[s].held + 1 \in 1 .. Len(Locks(tx[s].op))
      BY <2>1, <2>2
    <2>4. NextLock(s) \in LockNames
      BY <2>2, <2>3 DEF NextLock
    <2> QED BY <2>4 DEF Rank, LockNames
  <1>2. ASSUME NEW s \in W
        PROVE  \E r \in W : Want(s) < Want(r)
    <2>1. PICK r \in W : WaitsFor(s, r)
      OBVIOUS
    <2>2. WaitsFor(r, CHOOSE q \in W : WaitsFor(r, q))
      OBVIOUS
    <2>3. /\ tx[r].op \in PlanOps \cup {Nil} /\ tx[r].held \in 0 .. Len(Locks(tx[r].op))
          /\ tx[r].held # Len(Locks(tx[r].op))
      BY <2>2 DEF PlansTypeOK, TxOK, WaitsFor, FullyLocked
    <2>4. PICK k \in 1 .. tx[r].held : NextLock(s) = Locks(tx[r].op)[k]
      BY <2>1 DEF WaitsFor, Held
    <2>5. Locks(tx[r].op) \in Seq(LockNames)
      BY <2>3, LockOrder
    <2>6. k \in 1 .. Len(Locks(tx[r].op)) /\ tx[r].held + 1 \in 1 .. Len(Locks(tx[r].op))
          /\ k < tx[r].held + 1
      BY <2>3, <2>5
    <2>7. Rank[Locks(tx[r].op)[k]] < Rank[Locks(tx[r].op)[tx[r].held + 1]]
      BY <2>3, <2>6, LockOrder
    <2> QED BY <2>4, <2>7 DEF NextLock
  <1> HIDE DEF Want
  <1>3. \A s \in W : Want(s) \in 0 .. 5 BY <1>1, <1>2
  <1>4. \A s \in W : Want(s) \in 0 .. 4 BY <1>3, <1>2
  <1>5. \A s \in W : Want(s) \in 0 .. 3 BY <1>4, <1>2
  <1>6. \A s \in W : Want(s) \in 0 .. 2 BY <1>5, <1>2
  <1>7. \A s \in W : Want(s) \in 0 .. 1 BY <1>6, <1>2
  <1>8. \A s \in W : Want(s) \in 0 .. 0 BY <1>7, <1>2
  <1> QED BY <1>8, <1>2

---------------------------------------------------------------------------
(* Lemmas about sequences and records. *)

\* A row of a table is replaced by another row of the table's type.
LEMMA ReplaceRow ==
    ASSUME NEW S, NEW q \in Seq(S), NEW i \in DOMAIN q, NEW x \in S
    PROVE  /\ [q EXCEPT ![i] = x] \in Seq(S)
           /\ DOMAIN [q EXCEPT ![i] = x] = DOMAIN q
           /\ Len([q EXCEPT ![i] = x]) = Len(q)
  OBVIOUS

\* A row is added at the end of a table.
LEMMA AppendRow ==
    ASSUME NEW S, NEW q \in Seq(S), NEW x \in S
    PROVE  /\ Append(q, x) \in Seq(S)
           /\ DOMAIN q = 1 .. Len(q)
           /\ DOMAIN Append(q, x) = 1 .. Len(q) + 1
           /\ Len(Append(q, x)) = Len(q) + 1
           /\ Append(q, x)[Len(q) + 1] = x
           /\ \A i \in 1 .. Len(q) : Append(q, x)[i] = q[i]
  OBVIOUS

\* The newest of some rows is one of them.
LEMMA LatestIsPublished ==
    ASSUME NEW rs \in Releases, NEW d, Latest(rs, d) # 0
    PROVE  Published(rs) # {}
  BY DEF Latest

---------------------------------------------------------------------------
(* Steps that change a transaction and no table. *)

Tables == <<menu, today, setting, catalogue, revisions, batch>>

\* Such a step keeps the invariant when the new transaction is well formed,
\* takes no row of another one, and has read what is current.
LEMMA TxStep ==
    ASSUME PlansInv, NEW s \in PlanSessions, NEW t, tx' = [tx EXCEPT ![s] = t],
           UNCHANGED Tables, TxOK(t),
           \A r \in PlanSessions \ {s} :
              {Locks(t.op)[k] : k \in 1 .. t.held} \cap Held(r) = {},
           Current(s)'
    PROVE  PlansInv'
  <1> USE DEF PlansInv, Tables, catalogue
  <1>1. /\ DOMAIN tx' = PlanSessions /\ tx'[s] = t
        /\ \A r \in PlanSessions \ {s} : tx'[r] = tx[r]
    BY DEF PlansTypeOK
  <1>2. PlansTypeOK'
    BY <1>1 DEF PlansTypeOK, CalendarTypeOK
  <1>3. LocksExclusive'
    <2>1. Held(s)' = {Locks(t.op)[k] : k \in 1 .. t.held}
      BY <1>1 DEF Held
    <2>2. \A r \in PlanSessions \ {s} : Held(r)' = Held(r)
      BY <1>1 DEF Held
    <2> QED BY <2>1, <2>2 DEF LocksExclusive
  <1>4. AllCurrent'
    <2> SUFFICES ASSUME NEW r \in PlanSessions \ {s} PROVE Current(r)'
      BY DEF AllCurrent
    <2>1. tx'[r] = tx[r] /\ Current(r)
      BY <1>1 DEF AllCurrent
    <2> QED BY <2>1 DEF Current
  <1>5. BaselineInv'
    BY DEF BaselineInv
  <1>6. NewestPublicationRules'
    BY DEF NewestPublicationRules
  <1> QED BY <1>2, <1>3, <1>4, <1>5, <1>6

\* What an operator may ask for is a well-formed request.
LEMMA AskedOK ==
    ASSUME PlansTypeOK, NEW op \in PlanOps, NEW a \in Asked(op),
           op \in Growing => Len(revisions) < MaxRevisions
    PROVE  ArgOK(op, a)
  <1> USE DEF ArgOK, Growing
  <1>0. /\ DOMAIN releases = 1 .. Len(releases) /\ Len(releases) \in Nat
        /\ DOMAIN revisions = 1 .. Len(revisions) /\ Len(revisions) \in Nat
        /\ scheduler.revision \in Nat /\ MaxRevisions \in Nat
    BY PlansAssumption DEF PlansTypeOK, CalendarTypeOK, Releases, Revisions, Schedulers
  <1>1. CASE op = "submit"
    BY <1>1 DEF Asked
  <1>2. CASE op = "publish"
    BY <1>0, <1>2 DEF Asked, Approvals
  <1>3. CASE op = "plan"
    BY <1>0, <1>3 DEF Asked
  <1>4. CASE op \in {"start", "stop"}
    BY <1>0, <1>4 DEF Asked
  <1>5. CASE op = "preview"
    BY <1>5 DEF Asked
  <1>6. CASE op \in {"apply", "calendar"}
    BY <1>0, <1>6 DEF Asked
  <1>7. CASE op = "edit"
    BY <1>0, <1>7 DEF Asked
  <1>8. CASE op = "rollback"
    BY <1>0, <1>8 DEF Asked
  <1>9. CASE op = "reconcile"
    BY <1>9 DEF Asked
  <1>10. CASE op \in {"environment", "cutover", "revoke"}
    BY <1>10
  <1> QED BY <1>1, <1>2, <1>3, <1>4, <1>5, <1>6, <1>7, <1>8, <1>9, <1>10 DEF PlanOps

\* A transaction that begins holds no row and has read nothing.
LEMMA BeginStep ==
    ASSUME PlansInv, NEW s \in PlanSessions, Begin(s)
    PROVE  PlansInv'
  <1> USE DEF PlansInv
  <1>0. PICK op \in menu.ops : \E a \in Asked(op) :
          /\ op \in Growing => Len(revisions) < MaxRevisions
          /\ tx' = [tx EXCEPT ![s] = [op |-> op, held |-> 0, arg |-> a, seen |-> <<>>]]
    BY DEF Begin
  <1>1. PICK a \in Asked(op) :
          /\ op \in Growing => Len(revisions) < MaxRevisions
          /\ tx' = [tx EXCEPT ![s] = [op |-> op, held |-> 0, arg |-> a, seen |-> <<>>]]
    BY <1>0
  <1>2. op \in PlanOps
    BY PlansAssumption DEF PlansTypeOK
  <1> DEFINE t == [op |-> op, held |-> 0, arg |-> a, seen |-> <<>>]
  <1>3. tx' = [tx EXCEPT ![s] = t]
    BY <1>1
  <1>4. TxOK(t)
    <2>1. ArgOK(op, a)
      BY <1>1, <1>2, AskedOK
    <2>2. 0 \in 0 .. Len(Locks(op))
      BY <1>2, LockOrder
    <2> QED BY <1>2, <2>1, <2>2 DEF TxOK
  <1>5. Current(s)'
    BY <1>3 DEF Current, PlansTypeOK
  <1>6. UNCHANGED Tables
    BY DEF Begin, Tables
  <1>7. {Locks(t.op)[k] : k \in 1 .. t.held} = {}
    OBVIOUS
  <1> QED BY <1>3, <1>4, <1>5, <1>6, <1>7, TxStep

\* A row is taken only when no other transaction holds it.
LEMMA AcquireStep ==
    ASSUME PlansInv, NEW s \in PlanSessions, Acquire(s)
    PROVE  PlansInv'
  <1> USE DEF PlansInv
  <1> DEFINE t == [op |-> tx[s].op, held |-> tx[s].held + 1, arg |-> tx[s].arg,
                   seen |-> tx[s].seen]
  <1>1. TxOK(tx[s]) /\ s \in DOMAIN tx
    BY DEF PlansTypeOK
  <1>2. tx' = [tx EXCEPT ![s] = t]
    <2>1. tx' = [tx EXCEPT ![s] = [tx[s] EXCEPT !.held = tx[s].held + 1]]
      BY <1>1 DEF Acquire
    <2>2. [tx[s] EXCEPT !.held = tx[s].held + 1] = t
      BY <1>1 DEF TxOK
    <2> QED BY <2>1, <2>2
  <1>3. /\ tx[s].op \in PlanOps \cup {Nil} /\ tx[s].held \in 0 .. Len(Locks(tx[s].op))
        /\ tx[s].held # Len(Locks(tx[s].op)) /\ Len(Locks(tx[s].op)) \in Nat
    BY <1>1, LockOrder DEF TxOK, Acquire, FullyLocked
  <1>4. tx[s].seen = <<>>
    BY <1>3 DEF AllCurrent, Current
  <1>5. TxOK(t)
    BY <1>1, <1>3, <1>4 DEF TxOK
  <1>6. ASSUME NEW r \in PlanSessions \ {s}
        PROVE  {Locks(t.op)[k] : k \in 1 .. t.held} \cap Held(r) = {}
    <2>1. {Locks(t.op)[k] : k \in 1 .. t.held} = Held(s) \cup {NextLock(s)}
      BY <1>3 DEF Held, NextLock
    <2>2. NextLock(s) \notin Held(r)
      BY DEF Acquire, WaitsFor
    <2>3. Held(s) \cap Held(r) = {}
      BY DEF LocksExclusive
    <2> QED BY <2>1, <2>2, <2>3
  <1>7. Current(s)'
    BY <1>2, <1>1, <1>4 DEF Current
  <1>8. UNCHANGED Tables
    BY DEF Acquire, Tables
  <1> QED BY <1>2, <1>5, <1>6, <1>7, <1>8, TxStep

\* A transaction that ends lets go of its rows.
LEMMA TxEnds ==
    ASSUME PlansTypeOK, LocksExclusive, NEW s \in PlanSessions, tx' = [tx EXCEPT ![s] = NoTx]
    PROVE  /\ DOMAIN tx' = PlanSessions /\ tx'[s] = NoTx /\ TxOK(NoTx)
           /\ \A r \in PlanSessions \ {s} : tx'[r] = tx[r]
           /\ LocksExclusive' /\ Current(s)'
  <1>1. /\ DOMAIN tx' = PlanSessions /\ tx'[s] = NoTx
        /\ \A r \in PlanSessions \ {s} : tx'[r] = tx[r]
    BY DEF PlansTypeOK
  <1>2. TxOK(NoTx)
    <2>1. Nil \in PlanOps \cup {Nil} /\ Nil \notin Growing /\ 0 \in 0 .. Len(Locks(Nil))
      BY LockOrder DEF Growing, Nil
    <2>2. ArgOK(Nil, <<>>)
      BY <2>1 DEF ArgOK, Nil
    <2> QED BY <2>1, <2>2 DEF TxOK, NoTx
  <1>3. LocksExclusive'
    <2>1. Held(s)' = {}
      BY <1>1 DEF Held, NoTx
    <2>2. \A r \in PlanSessions \ {s} : Held(r)' = Held(r)
      BY <1>1 DEF Held
    <2> QED BY <2>1, <2>2 DEF LocksExclusive
  <1>4. Current(s)'
    BY <1>1 DEF Current, NoTx
  <1> QED BY <1>1, <1>2, <1>3, <1>4

\* create_plan() that finds the decision ends without a write.
LEMMA AlreadyDecidedStep ==
    ASSUME PlansInv, NEW s \in PlanSessions, AlreadyDecided(s)
    PROVE  PlansInv'
  <1> USE DEF PlansInv
  <1>1. tx' = [tx EXCEPT ![s] = NoTx] /\ UNCHANGED Tables
    BY DEF AlreadyDecided, Tables
  <1>2. {Locks(NoTx.op)[k] : k \in 1 .. NoTx.held} = {}
    BY DEF NoTx
  <1> QED BY <1>1, <1>2, TxEnds, TxStep

\* The readings of a transaction have their types.
LEMMA FactsOK ==
    ASSUME PlansTypeOK
    PROVE  Facts \in Readings
  BY DEF PlansTypeOK, CalendarTypeOK, Facts, Readings

\* They are of as many revisions as the model allows.
LEMMA FactsBounded ==
    ASSUME PlansTypeOK
    PROVE  Len(Facts.revisions) <= MaxRevisions
  BY DEF PlansTypeOK, CalendarTypeOK, Facts

\* What is read under the locks is current at that moment.
LEMMA ReadFactsStep ==
    ASSUME PlansInv, NEW s \in PlanSessions, ReadFacts(s)
    PROVE  PlansInv'
  <1> USE DEF PlansInv
  <1> DEFINE t == [op |-> tx[s].op, held |-> tx[s].held, arg |-> tx[s].arg,
                   seen |-> <<Facts>>]
  <1>1. TxOK(tx[s]) /\ s \in DOMAIN tx
    BY DEF PlansTypeOK
  <1>2. tx' = [tx EXCEPT ![s] = t]
    <2>1. tx' = [tx EXCEPT ![s] = [tx[s] EXCEPT !.seen = <<Facts>>]]
      BY <1>1 DEF ReadFacts
    <2>2. [tx[s] EXCEPT !.seen = <<Facts>>] = t
      BY <1>1 DEF TxOK
    <2> QED BY <2>1, <2>2
  <1>3. TxOK(t)
    BY <1>1, FactsOK, FactsBounded DEF TxOK
  <1>4. ASSUME NEW r \in PlanSessions \ {s}
        PROVE  {Locks(t.op)[k] : k \in 1 .. t.held} \cap Held(r) = {}
    BY DEF LocksExclusive, Held
  <1>5. UNCHANGED Tables
    BY DEF ReadFacts, Tables
  <1>6. tx'[s] = t /\ t.seen[1] = Facts
    BY <1>1, <1>2
  <1>7. /\ tx[s].op # Nil /\ tx[s].held = Len(Locks(tx[s].op))
        /\ tx[s].op = "plan" => decision[tx[s].arg[1]].kind = Nil
    BY DEF ReadFacts, FullyLocked
  <1>8. Current(s)'
    BY <1>5, <1>6, <1>7 DEF Current, Facts, Tables, catalogue, Promoted
  <1> QED BY <1>2, <1>3, <1>4, <1>5, <1>8, TxStep

\* The repair of one date publishes a candidate at most, and never a first one.
LEMMA RolledOverPromotes ==
    ASSUME NEW rs \in Releases, NEW d
    PROVE  RolledOver(rs, d) \in Releases /\ Promoted(rs, RolledOver(rs, d))
  <1>1. CASE RolledOver(rs, d) = rs
    BY <1>1 DEF Promoted
  <1>2. CASE RolledOver(rs, d) # rs
    <2> DEFINE waiting == {i \in DOMAIN rs : rs[i].date = d /\ rs[i].status = "candidate"}
               i == Newest(rs, waiting)
    <2>1. Latest(rs, d - 1) # 0 /\ RolledOver(rs, d) = [rs EXCEPT ![i].status = "published"]
      BY <1>2 DEF RolledOver
    <2> HIDE DEF i
    <2>2. i \in DOMAIN rs
      BY <1>2, <2>1 DEF Releases
    <2> DEFINE x == [date |-> rs[i].date, members |-> rs[i].members, small |-> rs[i].small,
                     status |-> "published", approved |-> rs[i].approved]
    <2>3. rs[i] \in ReleaseRows
      BY <2>2 DEF Releases
    <2>4. [rs[i] EXCEPT !.status = "published"] = x
      BY <2>3 DEF ReleaseRows
    <2>5. RolledOver(rs, d) = [rs EXCEPT ![i] = x]
      BY <2>1, <2>2, <2>4
    <2>6. x \in ReleaseRows
      BY <2>3 DEF ReleaseRows
    <2>7. RolledOver(rs, d) \in Releases
      BY <2>2, <2>5, <2>6, ReplaceRow DEF Releases
    <2>8. Published(rs) # {}
      BY <2>1, LatestIsPublished
    <2>9. Promoted(rs, RolledOver(rs, d))
      BY <2>2, <2>5, <2>8 DEF Promoted
    <2> QED BY <2>7, <2>9
  <1> QED BY <1>1, <1>2

\* The repair goes on to the next date with what it has flushed.
LEMMA ReconcileDateStep ==
    ASSUME PlansInv, NEW s \in PlanSessions, ReconcileDate(s)
    PROVE  PlansInv'
  <1> USE DEF PlansInv
  <1> DEFINE f == tx[s].seen[1]
             d == tx[s].arg[1] + 1
             g == [f EXCEPT !.releases = RolledOver(f.releases, d)]
             t == [op |-> tx[s].op, held |-> tx[s].held, arg |-> <<d>>, seen |-> <<g>>]
  <1>1. /\ TxOK(tx[s]) /\ s \in DOMAIN tx /\ Current(s)
        /\ tx[s].op = "reconcile" /\ tx[s].seen # <<>> /\ d \in TradeDays
    BY DEF PlansTypeOK, AllCurrent, ReconcileDate
  <1>2. f \in Readings /\ Promoted(releases, f.releases) /\ Len(f.revisions) <= MaxRevisions
    BY <1>1 DEF TxOK, Current
  <1>3. tx' = [tx EXCEPT ![s] = t]
    BY <1>1, <1>2 DEF ReconcileDate, Readings
  <1>4. /\ RolledOver(f.releases, d) \in Releases
        /\ Promoted(f.releases, RolledOver(f.releases, d))
    BY <1>2, RolledOverPromotes DEF Readings
  <1>5. /\ g \in Readings /\ g.releases = RolledOver(f.releases, d)
        /\ Len(g.revisions) <= MaxRevisions
    BY <1>2, <1>4 DEF Readings
  <1>6. Promoted(releases, g.releases)
    BY <1>2, <1>4, <1>5 DEF Promoted
  <1> HIDE DEF f, g
  <1>7. TxOK(t)
    <2>1. ArgOK("reconcile", <<d>>)
      BY <1>1, PlansAssumption DEF ArgOK, Growing
    <2>2. t.seen[1] = g /\ t.seen = <<g>>
      OBVIOUS
    <2> QED BY <1>1, <1>5, <2>1, <2>2 DEF TxOK
  <1>8. ASSUME NEW r \in PlanSessions \ {s}
        PROVE  {Locks(t.op)[k] : k \in 1 .. t.held} \cap Held(r) = {}
    BY DEF LocksExclusive, Held
  <1>9. UNCHANGED Tables
    BY DEF ReconcileDate, Tables
  <1>10. tx'[s] = t /\ t.seen[1] = g /\ t.op = "reconcile" /\ t.held = tx[s].held
    BY <1>1, <1>3
  <1>11. tx[s].op # Nil /\ tx[s].held = Len(Locks(tx[s].op))
    BY <1>1 DEF Current
  <1>12. Current(s)'
    <2>1. "reconcile" \notin MarketOps /\ "reconcile" \notin ControlOps /\ "reconcile" # Nil
      BY DEF MarketOps, ControlOps, Nil
    <2> HIDE DEF t
    <2> QED BY <1>1, <1>6, <1>9, <1>10, <1>11, <2>1 DEF Current, Tables, catalogue
  <1> QED BY <1>3, <1>7, <1>8, <1>9, <1>12, TxStep

---------------------------------------------------------------------------
(* The calendar. *)

\* An effective year has a status for every day.
LEMMA YearsOK ==
    /\ AllDays \in YearDays
    /\ \A rows \in YearDays : ApplyRows(rows) \in YearDays
    /\ \A days \in YearDays, d \in TradeDays, x \in DayStatuses : [days EXCEPT ![d] = x] \in YearDays
  <1>1. AllDays \in YearDays
    BY PlansAssumption DEF AllDays, YearDays
  <1>2. ASSUME NEW rows \in YearDays
        PROVE  ApplyRows(rows) \in YearDays
    BY <1>1 DEF ApplyRows, YearDays
  <1> QED BY <1>1, <1>2 DEF YearDays

\* Retiring what is published keeps the rows, and leaves none published.
LEMMA Superseded ==
    ASSUME NEW revs \in Revisions
    PROVE  /\ Supersede(revs) \in Revisions
           /\ Len(Supersede(revs)) = Len(revs) /\ DOMAIN Supersede(revs) = 1 .. Len(revs)
           /\ \A i \in 1 .. Len(revs) : Supersede(revs)[i].status # "published"
  <1>1. \A i \in 1 .. Len(revs) : revs[i] \in RevisionRows
    BY DEF Revisions
  <1>2. ASSUME NEW i \in 1 .. Len(revs)
        PROVE  /\ [revs[i] EXCEPT !.status = "superseded"] \in RevisionRows
               /\ [revs[i] EXCEPT !.status = "superseded"].status = "superseded"
    BY <1>1 DEF RevisionRows
  <1>3. DOMAIN revs = 1 .. Len(revs) /\ Len(revs) \in Nat
    BY DEF Revisions
  <1>4. ASSUME NEW i \in 1 .. Len(revs)
        PROVE  /\ Supersede(revs)[i] \in RevisionRows
               /\ Supersede(revs)[i].status # "published"
    BY <1>1, <1>2, <1>3 DEF Supersede
  <1>5. DOMAIN Supersede(revs) = 1 .. Len(revs)
    BY <1>3 DEF Supersede
  <1>6. Supersede(revs) \in [1 .. Len(revs) -> RevisionRows]
    BY <1>3, <1>4, <1>5 DEF Supersede
  <1>7. Supersede(revs) \in Revisions
    BY <1>3, <1>6 DEF Revisions
  <1>8. Len(Supersede(revs)) = Len(revs)
    BY <1>3, <1>5, <1>7 DEF Revisions
  <1> QED BY <1>4, <1>5, <1>7, <1>8

\* A draft is added at the end, where there is room.
LEMMA DraftAdded ==
    ASSUME CalendarTypeOK, NewestPublicationRules, NEW days \in YearDays,
           Len(revisions) < MaxRevisions, revisions' = Append(revisions, Draft(days))
    PROVE  /\ revisions' \in Revisions /\ Len(revisions') <= MaxRevisions
           /\ NewestPublicationRules'
  <1> DEFINE x == Draft(days)
  <1>1. x \in RevisionRows /\ x.status = "draft"
    BY DEF Draft, RevisionRows
  <1>2. revisions \in Seq(RevisionRows) /\ Len(revisions) \in Nat
    BY DEF CalendarTypeOK, Revisions
  <1> HIDE DEF x
  <1>3. /\ revisions' \in Seq(RevisionRows) /\ Len(revisions') = Len(revisions) + 1
        /\ DOMAIN revisions = 1 .. Len(revisions) /\ DOMAIN revisions' = 1 .. Len(revisions) + 1
        /\ revisions'[Len(revisions) + 1] = x
        /\ \A i \in 1 .. Len(revisions) : revisions'[i] = revisions[i]
    BY <1>1, <1>2, AppendRow DEF x
  <1>4. NewestPublicationRules'
    <2> SUFFICES ASSUME NEW i \in 1 .. Len(revisions) + 1, NEW j \in 1 .. Len(revisions) + 1,
                        revisions'[i].status = "published", revisions'[j].status # "draft"
                 PROVE  j <= i
      BY <1>3 DEF NewestPublicationRules
    <2>1. i # Len(revisions) + 1 /\ j # Len(revisions) + 1
      BY <1>1, <1>3
    <2>2. i \in 1 .. Len(revisions) /\ j \in 1 .. Len(revisions)
      BY <1>2, <2>1
    <2> QED BY <1>3, <2>2 DEF NewestPublicationRules
  <1> QED BY <1>2, <1>3, <1>4, PlansAssumption DEF Revisions

\* publish_revision() under the market's lock: only the last revision can be
\* published, and what was published before is retired.
LEMMA PublishKeepsRules ==
    ASSUME CalendarTypeOK, NewestPublicationRules, NEW n \in Nat,
           PublishRevision(revisions, n)
    PROVE  CalendarTypeOK' /\ NewestPublicationRules'
  <1>0. UNCHANGED batch
    BY DEF PublishRevision
  <1>1. CASE CanPublish(revisions, n)
    <2>1. /\ revisions \in Revisions /\ Len(revisions) = n /\ n \in 1 .. Len(revisions)
          /\ Len(revisions) <= MaxRevisions
      BY <1>1 DEF CanPublish, LatestRevision, CalendarTypeOK
    <2> DEFINE q == Supersede(revisions)
               x == [q[n] EXCEPT !.status = "published"]
    <2>2. /\ q \in Seq(RevisionRows) /\ Len(q) = Len(revisions) /\ DOMAIN q = 1 .. Len(revisions)
          /\ \A i \in 1 .. Len(revisions) : q[i].status # "published"
      BY <2>1, Superseded DEF Revisions
    <2> HIDE DEF q
    <2>3. q[n] \in RevisionRows
      BY <2>1, <2>2
    <2>4. x \in RevisionRows /\ x.status = "published"
      BY <2>3 DEF RevisionRows
    <2>5. revisions' = [q EXCEPT ![n] = x]
      BY <1>1 DEF PublishRevision, q
    <2> HIDE DEF x
    <2>6. /\ revisions' \in Seq(RevisionRows) /\ Len(revisions') = Len(revisions)
          /\ DOMAIN revisions' = 1 .. n
      BY <2>1, <2>2, <2>4, <2>5, ReplaceRow
    <2>7. \A i \in 1 .. n : revisions'[i].status = "published" => i = n
      BY <2>1, <2>2, <2>4, <2>5
    <2>8. NewestPublicationRules'
      BY <2>6, <2>7 DEF NewestPublicationRules
    <2>9. CalendarTypeOK'
      BY <1>0, <2>1, <2>6 DEF CalendarTypeOK, Revisions
    <2> QED BY <2>8, <2>9
  <1>2. CASE ~CanPublish(revisions, n)
    <2>1. revisions' = revisions
      BY <1>2 DEF PublishRevision
    <2> QED BY <1>0, <2>1 DEF CalendarTypeOK, NewestPublicationRules
  <1> QED BY <1>1, <1>2

\* rollback_revision() under the market's lock: the year comes back as the
\* last revision, and what was published before is retired.
LEMMA RollbackKeepsRules ==
    ASSUME CalendarTypeOK, NewestPublicationRules, NEW n \in Nat, NEW k \in Nat,
           n < MaxRevisions, RollbackRevision(revisions, n, k)
    PROVE  CalendarTypeOK' /\ NewestPublicationRules'
  <1>0. UNCHANGED batch
    BY DEF RollbackRevision
  <1>1. CASE revisions' = revisions
    BY <1>0, <1>1 DEF CalendarTypeOK, NewestPublicationRules
  <1>2. CASE revisions' # revisions
    <2> DEFINE q == Supersede(revisions)
               x == [status |-> "published", days |-> revisions[k].days]
    <2>1. /\ revisions' = Append(q, x) /\ Len(revisions) = n /\ k \in DOMAIN revisions
          /\ revisions \in Revisions
      BY <1>2 DEF RollbackRevision, LatestRevision, CalendarTypeOK
    <2>2. /\ q \in Seq(RevisionRows) /\ Len(q) = n /\ DOMAIN q = 1 .. n
          /\ \A i \in 1 .. n : q[i].status # "published"
      BY <2>1, Superseded DEF Revisions
    <2>3. revisions[k] \in RevisionRows
      BY <2>1 DEF Revisions
    <2>4. x \in RevisionRows /\ x.status = "published"
      BY <2>3 DEF RevisionRows
    <2> HIDE DEF q, x
    <2>5. /\ revisions' \in Seq(RevisionRows) /\ Len(revisions') = n + 1
          /\ DOMAIN revisions' = 1 .. n + 1
          /\ \A i \in 1 .. n : revisions'[i] = q[i]
      BY <2>1, <2>2, <2>4, AppendRow
    <2>6. \A i \in 1 .. n + 1 : revisions'[i].status = "published" => i = n + 1
      BY <2>2, <2>5
    <2>7. NewestPublicationRules'
      BY <2>5, <2>6 DEF NewestPublicationRules
    <2>8. CalendarTypeOK'
      BY <1>0, <2>5, PlansAssumption DEF CalendarTypeOK, Revisions
    <2> QED BY <2>7, <2>8
  <1> QED BY <1>1, <1>2

\* Every operation on the calendar, given that what it read is current, keeps
\* the types and the rule that the newest publication is in force.
LEMMA CalendarKept ==
    ASSUME CalendarTypeOK, NewestPublicationRules, NEW op \in PlanOps, NEW a, ArgOK(op, a),
           NEW f \in Readings, Len(f.revisions) <= MaxRevisions,
           op \in MarketOps => f.revisions = revisions,
           CalendarEffect(op, f, a)
    PROVE  CalendarTypeOK' /\ NewestPublicationRules'
  <1>0. /\ revisions \in Revisions /\ Len(revisions) \in Nat /\ Len(revisions) <= MaxRevisions
        /\ MaxRevisions \in Nat /\ batch.rows \in YearDays
    BY PlansAssumption DEF CalendarTypeOK, Revisions
  <1>1. CASE op = "preview"
    <2>1. a[1] \in YearDays /\ CreatePreview(f.revisions, a[1])
      BY <1>1 DEF ArgOK, CalendarEffect
    <2>2. ApplyRows(a[1]) \in YearDays
      BY <2>1, YearsOK
    <2>3. Len(f.revisions) \in 0 .. MaxRevisions
      BY <1>0 DEF Readings, Revisions
    <2>4. batch' \in [status : {"none", "previewed", "applied", "expired"},
                      base : 0 .. MaxRevisions, rows : YearDays]
      BY <2>1, <2>2, <2>3 DEF CreatePreview, LatestRevision
    <2> QED BY <2>1, <2>4 DEF CreatePreview, CalendarTypeOK, NewestPublicationRules
  <1>2. CASE op = "apply"
    <2>1. /\ f.revisions = revisions /\ a[1] \in Nat /\ a[1] < MaxRevisions
          /\ ApplyPreview(revisions, a[1])
      BY <1>2 DEF ArgOK, CalendarEffect, MarketOps, Growing
    <2>2. CASE CanApplyPreview(revisions, a[1])
      <3>1. /\ revisions' = Append(revisions, Draft(batch.rows))
            /\ batch' = [batch EXCEPT !.status = "applied"]
            /\ Len(revisions) < MaxRevisions
        BY <2>1, <2>2 DEF ApplyPreview, CanApplyPreview, LatestRevision
      <3>2. batch' \in [status : {"none", "previewed", "applied", "expired"},
                        base : 0 .. MaxRevisions, rows : YearDays]
        BY <3>1 DEF CalendarTypeOK
      <3> QED BY <1>0, <3>1, <3>2, DraftAdded DEF CalendarTypeOK
    <2>3. CASE ~CanApplyPreview(revisions, a[1])
      BY <2>1, <2>3 DEF ApplyPreview, CalendarTypeOK, NewestPublicationRules
    <2> QED BY <2>2, <2>3
  <1>3. CASE op = "edit"
    <2>1. /\ f.revisions = revisions /\ a \in Nat \X TradeDays \X DayStatuses
          /\ a[1] < MaxRevisions /\ CloneWithDayChange(revisions, a[1], a[2], a[3])
      BY <1>3 DEF ArgOK, CalendarEffect, MarketOps, Growing
    <2>2. a[1] \in Nat /\ a[2] \in TradeDays /\ a[3] \in DayStatuses
      BY <2>1
    <2>3. CASE LatestRevision(revisions) = a[1]
      <3> DEFINE base == IF a[1] = 0 THEN AllDays ELSE revisions[a[1]].days
      <3>1. base \in YearDays
        <4>1. CASE a[1] = 0
          BY <4>1, YearsOK
        <4>2. CASE a[1] # 0
          <5>1. revisions[a[1]] \in RevisionRows
            BY <1>0, <2>2, <2>3, <4>2 DEF Revisions, LatestRevision
          <5> QED BY <4>2, <5>1 DEF RevisionRows
        <4> QED BY <4>1, <4>2
      <3>2. /\ revisions' = Append(revisions, Draft([base EXCEPT ![a[2]] = a[3]]))
            /\ UNCHANGED batch /\ Len(revisions) < MaxRevisions
        BY <2>1, <2>3 DEF CloneWithDayChange, LatestRevision
      <3>3. [base EXCEPT ![a[2]] = a[3]] \in YearDays
        BY <2>2, <3>1, YearsOK
      <3> HIDE DEF base
      <3> QED BY <3>2, <3>3, DraftAdded DEF CalendarTypeOK
    <2>4. CASE LatestRevision(revisions) # a[1]
      BY <2>1, <2>4 DEF CloneWithDayChange, CalendarTypeOK, NewestPublicationRules
    <2> QED BY <2>3, <2>4
  <1>4. CASE op = "calendar"
    <2>1. a[1] \in Nat /\ PublishRevision(revisions, a[1])
      BY <1>4 DEF ArgOK, CalendarEffect, MarketOps
    <2> QED BY <2>1, PublishKeepsRules
  <1>5. CASE op = "rollback"
    <2>1. /\ a[1] \in Nat /\ a[2] \in Nat /\ a[1] < MaxRevisions
          /\ RollbackRevision(revisions, a[1], a[2])
      BY <1>5 DEF ArgOK, CalendarEffect, MarketOps, Growing
    <2> QED BY <2>1, RollbackKeepsRules
  <1>6. CASE op \notin {"preview", "apply", "edit", "calendar", "rollback"}
    <2>1. UNCHANGED <<revisions, batch>>
      BY <1>6 DEF CalendarEffect
    <2> QED BY <2>1 DEF CalendarTypeOK, NewestPublicationRules
  <1> QED BY <1>1, <1>2, <1>3, <1>4, <1>5, <1>6

---------------------------------------------------------------------------
(* The releases. *)

\* submit_universe(): a first universe is never published by policy.
LEMMA SubmitKeepsBaseline ==
    ASSUME releases \in Releases, BaselineInv, NEW d \in TradeDays, NEW u \in Universes,
           SubmitUniverse(releases, d, u)
    PROVE  releases' \in Releases /\ BaselineInv'
  <1>1. CASE releases' = releases
    BY <1>1 DEF BaselineInv
  <1>2. CASE releases' # releases
    <2> DEFINE auto == AutoPublished(releases, d, u)
               small == Prior(releases, d) # 0 /\ WithinLimit(releases[Prior(releases, d)].members, u)
               x == [date |-> d, members |-> u, approved |-> Nil,
                     status |-> IF auto THEN "published" ELSE "candidate", small |-> small]
    <2>1. releases' = Append(releases, x)
      BY <1>2 DEF SubmitUniverse
    <2>2. auto => Published(releases) # {}
      BY LatestIsPublished DEF AutoPublished, Prior
    <2>3. small \in BOOLEAN
      OBVIOUS
    <2> HIDE DEF auto, small
    <2>4. /\ x \in ReleaseRows /\ x.approved = Nil
          /\ x.status = "published" => Published(releases) # {}
      BY <2>2, <2>3 DEF ReleaseRows
    <2> HIDE DEF x
    <2>5. /\ releases' \in Releases /\ Len(releases) \in Nat
          /\ DOMAIN releases = 1 .. Len(releases) /\ DOMAIN releases' = 1 .. Len(releases) + 1
          /\ releases'[Len(releases) + 1] = x
          /\ \A i \in 1 .. Len(releases) : releases'[i] = releases[i]
      BY <2>1, <2>4, AppendRow DEF Releases
    <2>6. \A i \in DOMAIN releases' : i \in DOMAIN releases \/ i = Len(releases) + 1
      BY <2>5
    <2>7. \A i \in DOMAIN releases' : releases'[i].status = "candidate" => releases'[i].approved = Nil
      BY <2>4, <2>5, <2>6 DEF BaselineInv, Baseline
    <2>8. Published(releases') # {} => Published(releases) # {}
      BY <2>4, <2>5, <2>6 DEF Published
    <2>9. ASSUME Published(releases') # {}
          PROVE  \E b \in DOMAIN releases' : \A i \in DOMAIN releases' :
                    releases'[i].approved = "baseline" <=> i = b
      <3>1. PICK b \in DOMAIN releases : \A i \in DOMAIN releases :
                releases[i].approved = "baseline" <=> i = b
        BY <2>8, <2>9 DEF BaselineInv, Baseline
      <3>2. b \in DOMAIN releases' /\ b # Len(releases) + 1
        BY <2>5
      <3> QED BY <2>4, <2>5, <2>6, <3>1, <3>2 DEF Nil
    <2> QED BY <2>5, <2>7, <2>9 DEF BaselineInv, Baseline
  <1> QED BY <1>1, <1>2

\* publish_universe(): the first publication is the one approved as baseline.
LEMMA PublishKeepsBaseline ==
    ASSUME releases \in Releases, BaselineInv, NEW n \in Nat, NEW approval \in Approvals,
           PublishUniverse(releases, n, approval)
    PROVE  releases' \in Releases /\ BaselineInv'
  <1>1. CASE ~CanPublishRelease(releases, n, approval)
    <2>1. releases' = releases
      BY <1>1 DEF PublishUniverse
    <2> QED BY <2>1 DEF BaselineInv
  <1>2. CASE CanPublishRelease(releases, n, approval)
    <2>1. /\ n \in DOMAIN releases /\ releases[n].status = "candidate"
          /\ (Published(releases) = {}) = (approval = "baseline")
      BY <1>2 DEF CanPublishRelease
    <2>2. releases[n] \in ReleaseRows
      BY <2>1 DEF Releases
    <2> DEFINE x == [releases[n] EXCEPT !.status = "published", !.approved = approval]
    <2>3. releases' = [releases EXCEPT ![n] = x]
      BY <1>2, <2>1 DEF PublishUniverse, Releases
    <2>4. x \in ReleaseRows /\ x.approved = approval /\ x.status = "published"
      BY <2>2 DEF ReleaseRows
    <2> HIDE DEF x
    <2>5. /\ releases' \in Releases /\ DOMAIN releases' = DOMAIN releases
          /\ releases'[n] = x /\ \A i \in DOMAIN releases \ {n} : releases'[i] = releases[i]
      BY <2>1, <2>3, <2>4, ReplaceRow DEF Releases
    <2>6. \A i \in DOMAIN releases' : releases'[i].status = "candidate" => releases'[i].approved = Nil
      BY <2>4, <2>5 DEF BaselineInv, Baseline
    <2>7. releases[n].approved = Nil
      BY <2>1 DEF BaselineInv, Baseline
    <2>8. CASE Published(releases) = {}
      <3>1. approval = "baseline"
        BY <2>1, <2>8
      <3>2. \A i \in DOMAIN releases : releases[i].status = "candidate"
        <4>1. \A i \in DOMAIN releases : releases[i] \in ReleaseRows
          BY DEF Releases
        <4> QED BY <2>8, <4>1 DEF Published, ReleaseRows
      <3>3. \A i \in DOMAIN releases : releases[i].approved = Nil
        BY <3>2 DEF BaselineInv, Baseline
      <3>4. \A i \in DOMAIN releases' : releases'[i].approved = "baseline" <=> i = n
        BY <2>4, <2>5, <3>1, <3>3 DEF Nil
      <3> QED BY <2>1, <2>5, <2>6, <3>4 DEF BaselineInv, Baseline
    <2>9. CASE Published(releases) # {}
      <3>1. approval # "baseline"
        BY <2>1, <2>9
      <3>2. PICK b \in DOMAIN releases : \A i \in DOMAIN releases :
                releases[i].approved = "baseline" <=> i = b
        BY <2>9 DEF BaselineInv, Baseline
      <3>3. b # n
        BY <2>7, <3>2 DEF Nil
      <3>4. \A i \in DOMAIN releases' : releases'[i].approved = "baseline" <=> i = b
        BY <2>4, <2>5, <3>1, <3>2, <3>3
      <3> QED BY <2>5, <2>6, <3>4 DEF BaselineInv, Baseline
    <2> QED BY <2>5, <2>8, <2>9
  <1> QED BY <1>1, <1>2

\* The commit of a repair: what it publishes was not the first publication,
\* and nobody's approval.
LEMMA PromotedKeepsBaseline ==
    ASSUME NEW rs \in Releases, NEW ws \in Releases, Baseline(rs), Promoted(rs, ws)
    PROVE  Baseline(ws)
  <1>0. \A i \in DOMAIN rs : rs[i] \in ReleaseRows
    BY DEF Releases
  <1>1. \A i \in DOMAIN rs : rs[i].status \in {"candidate", "published"}
    BY <1>0 DEF ReleaseRows
  <1>2. \A i \in DOMAIN ws : ws[i].status = "candidate" => ws[i].approved = Nil
    BY <1>1 DEF Baseline, Promoted
  <1>3. ASSUME Published(ws) # {}
        PROVE  \E b \in DOMAIN ws : \A i \in DOMAIN ws : ws[i].approved = "baseline" <=> i = b
    BY <1>3 DEF Baseline, Promoted
  <1> QED BY <1>2, <1>3 DEF Baseline

\* Exactly one row of a table with a publication is approved as baseline.
LEMMA BaselineIsOne ==
    ASSUME BaselineInv
    PROVE  OneApprovedBaseline
  <1> SUFFICES ASSUME Published(releases) # {}
               PROVE  Cardinality({i \in DOMAIN releases : releases[i].approved = "baseline"}) = 1
    BY DEF OneApprovedBaseline
  <1>1. PICK b \in DOMAIN releases : \A i \in DOMAIN releases :
            releases[i].approved = "baseline" <=> i = b
    BY DEF BaselineInv, Baseline
  <1>2. {i \in DOMAIN releases : releases[i].approved = "baseline"} = {b}
    BY <1>1
  <1> QED BY <1>2, FS_Singleton

---------------------------------------------------------------------------
(* The commit. *)

\* What a transaction that commits is known to be.
LEMMA Committing ==
    ASSUME PlansInv, NEW s \in PlanSessions, Commit(s)
    PROVE  /\ tx[s].seen # <<>> /\ tx[s].op \in PlanOps /\ ArgOK(tx[s].op, tx[s].arg)
           /\ tx[s].seen[1] \in Readings /\ Len(tx[s].seen[1].revisions) <= MaxRevisions
           /\ Current(s)
  BY DEF PlansInv, PlansTypeOK, TxOK, AllCurrent, Current, Commit

\* Which operation writes which table.
LEMMA CommitWrites ==
    ASSUME PlansInv, NEW s \in PlanSessions, Commit(s)
    PROVE  LET f == tx[s].seen[1]   a == tx[s].arg   op == tx[s].op IN
           /\ tx' = [tx EXCEPT ![s] = NoTx] /\ UNCHANGED <<menu, today, setting, begun>>
           /\ op = "submit" => SubmitUniverse(f.releases, a[1], a[2])
           /\ op = "publish" => PublishUniverse(f.releases, a[1], a[2])
           /\ op = "reconcile" => releases' = f.releases
           /\ op \notin {"submit", "publish", "reconcile"} => releases' = releases
           /\ op = "start" => StartScheduler(f, a[1]) /\ UNCHANGED fullMarket
           /\ op = "stop" => StopScheduler(f, a[1]) /\ UNCHANGED <<fullMarket, admitted, firstStart>>
           /\ op = "environment" => ReconcileEnvironment /\ UNCHANGED <<admitted, firstStart>>
           /\ op \notin {"start", "stop", "environment"} =>
                UNCHANGED <<scheduler, fullMarket, admitted, firstStart>>
           /\ op = "plan" => Decide(f, a[1], a[2])
           /\ op # "plan" => decision' = decision
           /\ op = "cutover" => ApplyCutover(f)
           /\ op # "cutover" => cutover' = cutover
           /\ credential' = (credential /\ op # "revoke")
           /\ CalendarEffect(op, f, a)
           /\ op \notin MarketOps => revisions' = revisions
  <1> DEFINE f == tx[s].seen[1]
             a == tx[s].arg
             op == tx[s].op
  <1>1. /\ tx' = [tx EXCEPT ![s] = NoTx] /\ UNCHANGED <<menu, today, setting, begun>>
        /\ op = "plan" => Decide(f, a[1], a[2])
        /\ op # "plan" => decision' = decision
        /\ op = "cutover" => ApplyCutover(f)
        /\ op # "cutover" => cutover' = cutover
        /\ credential' = (credential /\ op # "revoke")
        /\ CalendarEffect(op, f, a)
    BY DEF Commit
  <1>2. /\ op = "submit" => SubmitUniverse(f.releases, a[1], a[2])
        /\ op = "publish" => PublishUniverse(f.releases, a[1], a[2])
        /\ op = "reconcile" => releases' = f.releases
        /\ op \notin {"submit", "publish", "reconcile"} => releases' = releases
    BY DEF Commit
  <1>3. /\ op = "start" => StartScheduler(f, a[1]) /\ UNCHANGED fullMarket
        /\ op = "stop" => StopScheduler(f, a[1]) /\ UNCHANGED <<fullMarket, admitted, firstStart>>
        /\ op = "environment" => ReconcileEnvironment /\ UNCHANGED <<admitted, firstStart>>
        /\ op \notin {"start", "stop", "environment"} =>
             UNCHANGED <<scheduler, fullMarket, admitted, firstStart>>
    BY DEF Commit
  <1>4. op \notin MarketOps => revisions' = revisions
    <2>1. CASE op = "preview"
      BY <1>1, <2>1 DEF CalendarEffect, CreatePreview
    <2>2. CASE op \notin MarketOps /\ op # "preview"
      BY <1>1, <2>2 DEF CalendarEffect, MarketOps
    <2> QED BY <2>1, <2>2
  <1> QED BY <1>1, <1>2, <1>3, <1>4

\* The releases after a commit.
LEMMA CommitReleases ==
    ASSUME PlansInv, NEW s \in PlanSessions, Commit(s)
    PROVE  releases' \in Releases /\ BaselineInv'
  <1> DEFINE f == tx[s].seen[1]
             a == tx[s].arg
             op == tx[s].op
  <1>1. /\ op \in PlanOps /\ ArgOK(op, a) /\ f \in Readings
        /\ op \in DatasetOps \ {"reconcile"} => f.releases = releases
        /\ op = "reconcile" => Promoted(releases, f.releases)
    BY Committing DEF Current
  <1>2. releases \in Releases /\ BaselineInv
    BY DEF PlansInv, PlansTypeOK
  <1>3. CASE op = "submit"
    <2>1. a[1] \in TradeDays /\ a[2] \in Universes /\ SubmitUniverse(releases, a[1], a[2])
      BY <1>1, <1>3, CommitWrites DEF ArgOK, DatasetOps
    <2> QED BY <1>2, <2>1, SubmitKeepsBaseline
  <1>4. CASE op = "publish"
    <2>1. a[1] \in Nat /\ a[2] \in Approvals /\ PublishUniverse(releases, a[1], a[2])
      BY <1>1, <1>4, CommitWrites DEF ArgOK, DatasetOps
    <2> QED BY <1>2, <2>1, PublishKeepsBaseline
  <1>5. CASE op = "reconcile"
    <2>1. releases' = f.releases /\ Promoted(releases, f.releases) /\ f.releases \in Releases
      BY <1>1, <1>5, CommitWrites DEF Readings
    <2>2. Baseline(f.releases)
      BY <1>2, <2>1, PromotedKeepsBaseline DEF BaselineInv
    <2> QED BY <2>1, <2>2 DEF BaselineInv
  <1>6. CASE op \notin {"submit", "publish", "reconcile"}
    <2>1. releases' = releases
      BY <1>6, CommitWrites
    <2> QED BY <1>2, <2>1 DEF BaselineInv
  <1> QED BY <1>3, <1>4, <1>5, <1>6

\* The calendar after a commit.
LEMMA CommitCalendar ==
    ASSUME PlansInv, NEW s \in PlanSessions, Commit(s)
    PROVE  CalendarTypeOK' /\ NewestPublicationRules'
  <1>1. /\ tx[s].op \in PlanOps /\ ArgOK(tx[s].op, tx[s].arg) /\ tx[s].seen[1] \in Readings
        /\ Len(tx[s].seen[1].revisions) <= MaxRevisions
        /\ tx[s].op \in MarketOps => tx[s].seen[1].revisions = revisions
    BY Committing DEF Current
  <1>2. CalendarEffect(tx[s].op, tx[s].seen[1], tx[s].arg)
    BY CommitWrites
  <1> QED BY <1>1, <1>2, CalendarKept DEF PlansInv, PlansTypeOK

\* What create_plan() freezes when it freezes a trade date.
LEMMA DecideWrites ==
    ASSUME NEW f, NEW d, NEW i, Decide(f, d, i), decision' # decision
    PROVE  /\ AcquisitionAdmitted(f) /\ i = Latest(f.releases, d)
           /\ \E k \in {"planned", "skipped"} :
                decision' = [decision EXCEPT ![d] = [kind |-> k, release |-> i,
                                                     open |-> IsOpen(f.revisions, d)]]
  <1> DEFINE k == IF menu.skip /\ ~IsOpen(f.revisions, d) THEN "skipped" ELSE "planned"
  <1>1. k \in {"planned", "skipped"}
    OBVIOUS
  <1>2. /\ AcquisitionAdmitted(f) /\ i = Latest(f.releases, d)
        /\ decision' = [decision EXCEPT ![d] = [kind |-> k, release |-> i,
                                                open |-> IsOpen(f.revisions, d)]]
    BY DEF Decide
  <1> QED BY <1>1, <1>2

\* The scheduler, the environment, the cutover and the decisions after a commit.
LEMMA CommitControl ==
    ASSUME PlansInv, NEW s \in PlanSessions, Commit(s)
    PROVE  /\ scheduler' \in Schedulers
           /\ admitted' \in BOOLEAN /\ fullMarket' \in BOOLEAN /\ credential' \in BOOLEAN
           /\ firstStart' \in {0} \cup TradeDays /\ cutover' \in {0} \cup TradeDays
           /\ DOMAIN decision' = TradeDays
           /\ \A d \in TradeDays : decision'[d].kind \in {Nil, "planned", "skipped"}
  <1> DEFINE f == tx[s].seen[1]
             a == tx[s].arg
             op == tx[s].op
  <1>1. /\ scheduler \in Schedulers /\ admitted \in BOOLEAN /\ fullMarket \in BOOLEAN
        /\ setting \in BOOLEAN /\ credential \in BOOLEAN /\ today \in TradeDays
        /\ firstStart \in {0} \cup TradeDays /\ cutover \in {0} \cup TradeDays
        /\ DOMAIN decision = TradeDays
        /\ \A d \in TradeDays : decision[d].kind \in {Nil, "planned", "skipped"}
    BY DEF PlansInv, PlansTypeOK
  <1>2. \A x \in {"running", "stopped"} :
          [desired |-> x, revision |-> scheduler.revision + 1] \in Schedulers
    BY <1>1 DEF Schedulers
  <1>3. /\ scheduler' \in Schedulers /\ admitted' \in BOOLEAN /\ fullMarket' \in BOOLEAN
        /\ firstStart' \in {0} \cup TradeDays
    <2>1. CASE op = "start"
      BY <1>1, <1>2, <2>1, CommitWrites DEF StartScheduler
    <2>2. CASE op = "stop"
      BY <1>1, <1>2, <2>2, CommitWrites DEF StopScheduler
    <2>3. CASE op = "environment"
      BY <1>1, <1>2, <2>3, CommitWrites DEF ReconcileEnvironment
    <2>4. CASE op \notin {"start", "stop", "environment"}
      BY <1>1, <2>4, CommitWrites
    <2> QED BY <2>1, <2>2, <2>3, <2>4
  <1>4. cutover' \in {0} \cup TradeDays
    BY <1>1, CommitWrites DEF ApplyCutover
  <1>5. credential' \in BOOLEAN
    BY CommitWrites
  <1>6. /\ DOMAIN decision' = TradeDays
        /\ \A d \in TradeDays : decision'[d].kind \in {Nil, "planned", "skipped"}
    <2>1. CASE op = "plan" /\ decision' # decision
      <3>1. Decide(f, a[1], a[2])
        BY <2>1, CommitWrites
      <3>2. PICK k \in {"planned", "skipped"} :
              decision' = [decision EXCEPT ![a[1]] = [kind |-> k, release |-> a[2],
                                                      open |-> IsOpen(f.revisions, a[1])]]
        BY <2>1, <3>1, DecideWrites
      <3> QED BY <1>1, <3>2
    <2>2. CASE op # "plan" \/ decision' = decision
      BY <1>1, <2>2, CommitWrites
    <2> QED BY <2>1, <2>2
  <1> QED BY <1>3, <1>4, <1>5, <1>6

\* What the other transactions have read stays current: the one that commits
\* holds the rows of what it writes.
LEMMA CommitSparesOthers ==
    ASSUME PlansInv, NEW s \in PlanSessions, Commit(s), NEW r \in PlanSessions \ {s}
    PROVE  Current(r)'
  <1>1. tx'[r] = tx[r] /\ Current(r) /\ tx[s].seen # <<>>
    BY CommitWrites, TxEnds, Committing DEF PlansInv, AllCurrent
  <1> SUFFICES ASSUME tx[r].seen # <<>> PROVE Current(r)'
    BY <1>1 DEF Current
  <1>2. /\ ~(tx[s].op \in DatasetOps /\ tx[r].op \in DatasetOps)
        /\ ~(tx[s].op \in MarketOps /\ tx[r].op \in MarketOps)
        /\ ~(tx[s].op \in ControlOps /\ tx[r].op \in ControlOps)
        /\ ~(tx[s].op \in ClientOps /\ tx[r].op \in ClientOps)
    BY <1>1, Apart DEF PlansInv
  <1>3. tx[r].op \in DatasetOps => releases' = releases
    BY <1>2, CommitWrites DEF DatasetOps
  <1>4. tx[r].op \in MarketOps => revisions' = revisions
    BY <1>2, CommitWrites
  <1>5. tx[r].op \in ControlOps => UNCHANGED <<scheduler, fullMarket, decision>>
    BY <1>2, CommitWrites DEF ControlOps
  <1>6. tx[r].op = "plan" => credential' = credential
    <2> SUFFICES ASSUME tx[r].op = "plan" PROVE credential' = credential
      OBVIOUS
    <2>1. tx[s].op # "revoke"
      BY <1>2 DEF ClientOps
    <2>2. credential \in BOOLEAN /\ credential' = (credential /\ tx[s].op # "revoke")
      BY CommitWrites DEF PlansInv, PlansTypeOK
    <2> QED BY <2>1, <2>2
  <1>7. "reconcile" \in DatasetOps /\ "plan" \in ControlOps
    BY DEF DatasetOps, ControlOps
  <1> QED BY <1>1, <1>3, <1>4, <1>5, <1>6, <1>7 DEF Current

\* A commit keeps the invariant.
LEMMA CommitStep ==
    ASSUME PlansInv, NEW s \in PlanSessions, Commit(s)
    PROVE  PlansInv'
  <1>1. tx' = [tx EXCEPT ![s] = NoTx] /\ UNCHANGED <<menu, today, setting, begun>>
    BY CommitWrites
  <1>2. /\ DOMAIN tx' = PlanSessions /\ tx'[s] = NoTx /\ TxOK(NoTx)
        /\ \A r \in PlanSessions \ {s} : tx'[r] = tx[r]
        /\ LocksExclusive' /\ Current(s)'
    BY <1>1, TxEnds DEF PlansInv
  <1>3. AllCurrent'
    BY <1>2, CommitSparesOthers DEF AllCurrent
  <1>4. \A r \in PlanSessions : TxOK(tx'[r])
    BY <1>2 DEF PlansInv, PlansTypeOK
  <1>5. PlansTypeOK'
    BY <1>1, <1>2, <1>4, CommitReleases, CommitCalendar, CommitControl DEF PlansInv, PlansTypeOK
  <1> QED BY <1>2, <1>3, <1>5, CommitReleases, CommitCalendar DEF PlansInv

---------------------------------------------------------------------------
(* The theorems. *)

\* Nothing is held, read or published that contradicts the invariant at first.
LEMMA PlansStart ==
    ASSUME PlansInit
    PROVE  PlansInv
  <1>1. \A s \in PlanSessions : tx[s] = NoTx
    BY DEF PlansInit
  <1>2. TxOK(NoTx)
    <2>1. Nil \in PlanOps \cup {Nil} /\ Nil \notin Growing /\ 0 \in 0 .. Len(Locks(Nil))
      BY LockOrder DEF Growing, Nil
    <2>2. ArgOK(Nil, <<>>)
      BY <2>1 DEF ArgOK, Nil
    <2> QED BY <2>1, <2>2 DEF TxOK, NoTx
  <1>3. CalendarTypeOK
    <2>1. revisions = <<>> /\ batch = NoBatch
      BY DEF PlansInit, CalendarInit
    <2>2. [d \in TradeDays |-> "open"] \in YearDays
      BY PlansAssumption DEF YearDays
    <2>3. NoBatch \in [status : {"none", "previewed", "applied", "expired"},
                       base : 0 .. MaxRevisions, rows : YearDays]
      BY <2>2, PlansAssumption DEF NoBatch
    <2>4. <<>> \in Revisions /\ Len(<<>>) <= MaxRevisions
      BY PlansAssumption DEF Revisions
    <2> QED BY <2>1, <2>3, <2>4 DEF CalendarTypeOK
  <1>4. 1 \in TradeDays
    BY PlansAssumption
  <1>5. /\ releases \in Releases /\ scheduler \in Schedulers /\ admitted \in BOOLEAN
        /\ firstStart \in {0} \cup TradeDays /\ BaselineInv
    <2>1. CASE menu.seasoned
      <3>1. PICK u \in Universes :
              releases = <<[date |-> 1, members |-> u, approved |-> "baseline",
                            status |-> "published", small |-> FALSE]>>
        BY <2>1 DEF PlansInit
      <3>2. [date |-> 1, members |-> u, approved |-> "baseline",
             status |-> "published", small |-> FALSE] \in ReleaseRows
        BY <1>4 DEF ReleaseRows, Approvals
      <3>3. releases \in Releases
        BY <3>1, <3>2 DEF Releases
      <3>4. DOMAIN releases = {1} /\ releases[1].status = "published"
            /\ releases[1].approved = "baseline"
        BY <3>1
      <3>5. BaselineInv
        BY <3>4 DEF BaselineInv, Baseline
      <3>6. scheduler = [desired |-> "running", revision |-> 1] /\ admitted = TRUE /\ firstStart = 1
        BY <2>1 DEF PlansInit
      <3> QED BY <1>4, <3>3, <3>5, <3>6 DEF Schedulers
    <2>2. CASE ~menu.seasoned
      <3>1. /\ releases = <<>> /\ scheduler = [desired |-> "stopped", revision |-> 0]
            /\ admitted = FALSE /\ firstStart = 0
        BY <2>2 DEF PlansInit
      <3>2. releases \in Releases /\ DOMAIN releases = {}
        BY <3>1 DEF Releases
      <3>3. BaselineInv
        BY <3>2 DEF BaselineInv, Baseline, Published
      <3> QED BY <3>1, <3>2, <3>3 DEF Schedulers
    <2> QED BY <2>1, <2>2
  <1>6. PlansTypeOK
    <2>1. /\ menu \in Menus /\ today \in TradeDays /\ setting \in BOOLEAN
          /\ fullMarket \in BOOLEAN /\ credential \in BOOLEAN
          /\ cutover \in {0} \cup TradeDays /\ DOMAIN tx = PlanSessions
      BY <1>4 DEF PlansInit
    <2>2. DOMAIN decision = TradeDays /\ \A d \in TradeDays : decision[d].kind = Nil
      BY DEF PlansInit
    <2> QED BY <1>1, <1>2, <1>3, <1>5, <2>1, <2>2 DEF PlansTypeOK
  <1>7. LocksExclusive
    BY <1>1 DEF LocksExclusive, Held, NoTx
  <1>8. AllCurrent
    BY <1>1 DEF AllCurrent, Current, NoTx
  <1>9. NewestPublicationRules
    BY DEF PlansInit, CalendarInit, NewestPublicationRules
  <1> QED BY <1>5, <1>6, <1>7, <1>8, <1>9 DEF PlansInv

\* The clock, a deployment of the flag and the end of a preview touch nothing
\* a transaction relies on.
LEMMA OutsideStep ==
    ASSUME PlansInv, NextDay \/ DeployFlag \/ Expire
    PROVE  PlansInv'
  <1>1. /\ UNCHANGED <<menu, catalogue, revisions, tx>>
        /\ today' \in TradeDays /\ setting' \in BOOLEAN
    BY DEF NextDay, DeployFlag, Expire, PreviewExpires, PlansInv, PlansTypeOK
  <1>2. CalendarTypeOK'
    <2>1. CASE NextDay \/ DeployFlag
      BY <2>1 DEF NextDay, DeployFlag, PlansInv, PlansTypeOK, CalendarTypeOK
    <2>2. CASE Expire
      <3>1. batch' = [batch EXCEPT !.status = "expired"] /\ revisions' = revisions
        BY <2>2 DEF Expire, PreviewExpires
      <3> QED BY <3>1 DEF PlansInv, PlansTypeOK, CalendarTypeOK
    <2> QED BY <2>1, <2>2
  <1>3. PlansTypeOK'
    BY <1>1, <1>2 DEF PlansInv, PlansTypeOK, catalogue
  <1>4. LocksExclusive'
    BY <1>1 DEF PlansInv, LocksExclusive, Held
  <1>5. AllCurrent'
    BY <1>1 DEF PlansInv, AllCurrent, Current, catalogue
  <1>6. BaselineInv' /\ NewestPublicationRules'
    BY <1>1 DEF PlansInv, BaselineInv, NewestPublicationRules, catalogue
  <1> QED BY <1>3, <1>4, <1>5, <1>6 DEF PlansInv

\* Every step of the specification keeps the invariant.
LEMMA PlansStep ==
    ASSUME PlansInv, [PlansNext]_plansVars
    PROVE  PlansInv'
  <1>1. menu.sessions \subseteq PlanSessions
    BY PlansAssumption DEF PlansInv, PlansTypeOK
  <1>2. ASSUME NEW s \in menu.sessions, Begin(s)
        PROVE  PlansInv'
    BY <1>1, <1>2, BeginStep
  <1>3. ASSUME NEW s \in menu.sessions, Acquire(s)
        PROVE  PlansInv'
    BY <1>1, <1>3, AcquireStep
  <1>4. ASSUME NEW s \in menu.sessions, AlreadyDecided(s)
        PROVE  PlansInv'
    BY <1>1, <1>4, AlreadyDecidedStep
  <1>5. ASSUME NEW s \in menu.sessions, ReadFacts(s)
        PROVE  PlansInv'
    BY <1>1, <1>5, ReadFactsStep
  <1>6. ASSUME NEW s \in menu.sessions, ReconcileDate(s)
        PROVE  PlansInv'
    BY <1>1, <1>6, ReconcileDateStep
  <1>7. ASSUME NEW s \in menu.sessions, Commit(s)
        PROVE  PlansInv'
    BY <1>1, <1>7, CommitStep
  <1>8. CASE UNCHANGED plansVars
    <2>1. UNCHANGED <<menu, today, setting, catalogue, revisions, batch, tx>>
      BY <1>8 DEF plansVars
    <2>2. PlansTypeOK'
      BY <2>1 DEF PlansInv, PlansTypeOK, CalendarTypeOK, catalogue
    <2>3. LocksExclusive'
      BY <2>1 DEF PlansInv, LocksExclusive, Held
    <2>4. AllCurrent'
      BY <2>1 DEF PlansInv, AllCurrent, Current, catalogue
    <2>5. BaselineInv' /\ NewestPublicationRules'
      BY <2>1 DEF PlansInv, BaselineInv, NewestPublicationRules, catalogue
    <2> QED BY <2>2, <2>3, <2>4, <2>5 DEF PlansInv
  <1> QED BY <1>2, <1>3, <1>4, <1>5, <1>6, <1>7, <1>8, OutsideStep DEF PlansNext

\* The transactions are well formed, exclude each other's rows and decide on
\* what is current under the rows they hold, in every reachable state.
THEOREM PlansInvariance == PlansSpec => []PlansInv
  <1>1. PlansInit => PlansInv
    BY PlansStart
  <1>2. PlansInv /\ [PlansNext]_plansVars => PlansInv'
    BY PlansStep
  <1> QED BY <1>1, <1>2, PTL DEF PlansSpec

\* For any sessions, dates, universes and menus of operations: every variable
\* of plans, releases and calendars keeps its type, and no calendar grows past
\* the room its operators saw.
THEOREM PlansTypeCorrect == PlansSpec => []PlansTypeOK
  <1>1. PlansInv => PlansTypeOK
    BY DEF PlansInv
  <1> QED BY <1>1, PlansInvariance, PTL

\* For any sessions, dates, universes and menus: no transactions wait in a
\* circle for their rows, what is published rests on exactly one baseline an
\* owner approved, and of a calendar at most one revision is published, with
\* no retired one newer.
THEOREM PlansAreSound == PlansSpec => []PlansSound
  <1>1. PlansInv => PlansSound
    BY OrderedLocksDoNotCircle, BaselineIsOne DEF PlansInv, PlansSound
  <1> QED BY <1>1, PlansInvariance, PTL

\* create_plan() freezes a trade date once, and on what is true at its commit:
\* control, credential, environment, newest release and calendar in force.
LEMMA DecisionStep ==
    ASSUME PlansInv, [PlansNext]_plansVars
    PROVE  DecidedOnCurrentFacts
  <1>1. CASE decision' = decision
    BY <1>1 DEF DecidedOnCurrentFacts
  <1>2. CASE decision' # decision
    <2>1. PICK s \in menu.sessions : Commit(s)
      BY <1>2 DEF PlansNext, Begin, Acquire, AlreadyDecided, ReadFacts, ReconcileDate, NextDay,
                  DeployFlag, Expire, plansVars, catalogue
    <2>2. s \in PlanSessions
      BY PlansAssumption DEF PlansInv, PlansTypeOK
    <2> DEFINE f == tx[s].seen[1]
               a == tx[s].arg
    <2>3. tx[s].op = "plan" /\ Decide(f, a[1], a[2])
      BY <1>2, <2>1, <2>2, CommitWrites
    <2>4. /\ f.releases = releases /\ f.revisions = revisions /\ f.control = scheduler
          /\ f.enabled = fullMarket /\ f.client = credential
          /\ decision[a[1]].kind = Nil /\ a[1] \in TradeDays
      BY <2>1, <2>2, <2>3, Committing DEF Current, DatasetOps, MarketOps, ControlOps, ArgOK
    <2>5. AcquisitionAdmitted(f) /\ a[2] = Latest(f.releases, a[1])
      BY <1>2, <2>3, DecideWrites
    <2>6. PICK k \in {"planned", "skipped"} :
            decision' = [decision EXCEPT ![a[1]] = [kind |-> k, release |-> a[2],
                                                    open |-> IsOpen(f.revisions, a[1])]]
      BY <1>2, <2>3, DecideWrites
    <2>7. /\ scheduler.desired = "running" /\ credential
          /\ menu.profile = "full_market" => fullMarket
      BY <2>4, <2>5 DEF AcquisitionAdmitted
    <2> HIDE DEF f, a
    <2>8. DOMAIN decision = TradeDays
      BY DEF PlansInv, PlansTypeOK
    <2>9. \A d \in TradeDays : decision'[d] # decision[d] => d = a[1]
      BY <2>6, <2>8
    <2>10. /\ decision'[a[1]].release = Latest(releases, a[1])
           /\ decision'[a[1]].open = IsOpen(revisions, a[1])
      BY <2>4, <2>5, <2>6, <2>8
    <2> QED BY <2>4, <2>7, <2>9, <2>10 DEF DecidedOnCurrentFacts
  <1> QED BY <1>1, <1>2

\* Whatever is published, edited, stopped, disabled or revoked while a plan is
\* made, a trade date is decided on what is true when the decision commits,
\* and is never decided again.
THEOREM DecisionsAreCurrent == PlansSpec => [][DecidedOnCurrentFacts]_plansVars
  <1>1. PlansInv /\ [PlansNext]_plansVars => DecidedOnCurrentFacts
    BY DecisionStep
  <1> QED BY <1>1, PlansInvariance, PTL DEF PlansSpec

---------------------------------------------------------------------------
(* PlanDelivery: the inductive invariant. *)

Plans == [status : [Runs -> {"none", "queued", "processing", "failed"} \cup Ended],
          wrote : [Runs -> SUBSET PlanMembers],
          created : Seq(Runs),
          outcome : [PlanMembers -> {"none", "no_data", "blocked", "mapping_gap"}],
          repaired : SUBSET Gaps]

\* The arguments an operation is begun with, whatever the feed.
Given == {<<>>} \cup {<<r>> : r \in Runs} \cup {<<m>> : m \in PlanMembers}
         \cup (PlanMembers \X {"no_data", "blocked", "mapping_gap"})
         \cup (Runs \X Ended \X SUBSET PlanMembers)

\* The open transaction of a writer.
WriterRows == [op : Operations \cup {"none"}, arg : Given, locked : BOOLEAN,
               counted : {<<>>} \cup {<<c>> : c \in PlanCounts}]

Types ==
    /\ feed \in PlanFeeds /\ plan \in Plans
    /\ summary \in {<<>>} \cup {<<c>> : c \in PlanCounts}
    /\ settled \in {"none", "completed", "partial"}
    /\ writer \in [Writers -> WriterRows]
    /\ \A w \in Writers : writer[w].op # "none" => writer[w].arg \in Arguments(feed.runs, writer[w].op)

\* A run is created once, by the writer that accepts it.
CreatedOnce(p) ==
    /\ \A r \in Runs : p.status[r] = "none" <=> r \notin Created(p)
    /\ \A i, j \in DOMAIN p.created : p.created[i] = p.created[j] => i = j

\* Writers at the same row wait for each other, so what a writer found there
\* is still so: an accepted run is new, every other operation is of an old one,
\* and what is repaired is a gap.
RowsApart ==
    \A v, w \in Writers : v # w => ~SameRow(writer[v].op, writer[v].arg, writer[w].op, writer[w].arg)
StillThere ==
    \A w \in Writers :
        /\ writer[w].op \in RunOperations =>
              (writer[w].op = "accept" <=> plan.status[writer[w].arg[1]] = "none")
        /\ writer[w].op = "repair" => writer[w].arg[1] \in Gaps

\* One writer holds the plan row; what it counted is what its commit makes
\* true, since nobody else commits meanwhile.
OneLock == \A v, w \in Writers : writer[v].locked /\ writer[w].locked => v = w
CountsHold ==
    \A w \in Writers :
        /\ writer[w].locked => writer[w].op # "none"
        /\ writer[w].counted # <<>> =>
              /\ writer[w].locked
              /\ writer[w].counted = <<Reconcile(Effect(plan, writer[w].op, writer[w].arg))>>

\* A settled work is not written to.
Quiet == settled # "none" => \A w \in Writers : writer[w].op = "none"

DeliveryInv ==
    /\ Types /\ CreatedOnce(plan) /\ RowsApart /\ StillThere /\ OneLock /\ CountsHold /\ Quiet
    /\ SummaryTrue /\ CompletedIsComplete

---------------------------------------------------------------------------
(* What the summary is made of. *)

\* Counts of members are counts.
LEMMA CountsTyped ==
    ASSUME NEW p \in Plans
    PROVE  Reconcile(p) \in PlanCounts
<1>1. p.created \in Seq(Runs)  BY DEF Plans
<1>2. (IF p.created = <<>> THEN "none" ELSE p.created[Len(p.created)]) \in Runs \cup {"none"}
  BY <1>1
<1>3. CanonicalKeys(p) \in SUBSET PlanMembers  BY DEF CanonicalKeys
<1> QED  BY <1>2, <1>3 DEF Reconcile, PlanCounts

\* While a group counts, the newest attempt of each of its sequences has
\* completed: runs are created once, so the latest one is found at one place.
LEMMA NewestCounts ==
    ASSUME NEW p \in Plans, CreatedOnce(p), GroupComplete(p), NEW n \in 1 .. SequenceCount
    PROVE  LET tries == {k \in DOMAIN p.created : SequenceOf[p.created[k]] = n}
           IN  tries # {} /\ p.status[p.created[CHOOSE k \in tries : \A j \in tries : j <= k]] = "completed"
<1> DEFINE tries == {k \in DOMAIN p.created : SequenceOf[p.created[k]] = n}
<1>1. p.created \in Seq(Runs)  BY DEF Plans
<1>2. DOMAIN p.created \subseteq Int  BY <1>1
<1>3. PICK r \in Created(p) :
        /\ SequenceOf[r] = n /\ p.status[r] = "completed"
        /\ \A q \in Created(p) : SequenceOf[q] = n /\ q # r => Before(p, q, r)
  BY DEF GroupComplete
<1>4. PICK i \in DOMAIN p.created : p.created[i] = r  BY DEF Created
<1>5. i \in tries  BY <1>3, <1>4
<1>6. ASSUME NEW j \in tries  PROVE j <= i
  <2>1. CASE p.created[j] = r
    BY <2>1, <1>2, <1>4 DEF CreatedOnce
  <2>2. CASE p.created[j] # r
    <3>1. Before(p, p.created[j], r)
      BY <2>2, <1>3 DEF Created
    <3>2. PICK a, b \in DOMAIN p.created : a < b /\ p.created[a] = p.created[j] /\ p.created[b] = r
      BY <3>1 DEF Before
    <3>3. a = j /\ b = i  BY <3>2, <1>4 DEF CreatedOnce
    <3> QED  BY <3>2, <3>3, <1>2
  <2> QED  BY <2>1, <2>2
<1>7. \A k \in tries : (\A j \in tries : j <= k) => k = i
  BY <1>5, <1>6, <1>2
<1> HIDE DEF tries
<1>8. (CHOOSE k \in tries : \A j \in tries : j <= k) = i
  BY <1>5, <1>6, <1>7
<1> QED  BY <1>5, <1>8, <1>3, <1>4 DEF tries

\* An old completed attempt hides nothing in a true summary.
LEMMA TrueSummaryShowsNewest ==
    ASSUME plan \in Plans, CreatedOnce(plan), SummaryTrue
    PROVE  OldAttemptHidesNothing
<1> SUFFICES ASSUME feed.kind = "minute", summary # <<>>, summary[1].data # {},
                    NEW n \in 1 .. SequenceCount
             PROVE  LET tries == {k \in DOMAIN plan.created : SequenceOf[plan.created[k]] = n}
                    IN  /\ tries # {}
                        /\ plan.status[plan.created[CHOOSE k \in tries : \A j \in tries : j <= k]]
                              = "completed"
  BY DEF OldAttemptHidesNothing
<1>1. summary[1].data = CanonicalKeys(plan)  BY DEF SummaryTrue, Reconcile
<1>2. GroupComplete(plan)  BY <1>1 DEF CanonicalKeys
<1> QED  BY <1>2, NewestCounts

---------------------------------------------------------------------------
(* The initial state. *)

\* Nothing is stored, begun or settled at first.
LEMMA InitialState == DeliveryInit => DeliveryInv
<1> SUFFICES ASSUME DeliveryInit PROVE DeliveryInv  OBVIOUS
<1> USE DEF DeliveryInit
<1>1. plan \in Plans
  BY DEF Plans, Unwritten
<1>2. writer \in [Writers -> WriterRows]
  BY DEF NoWriter, Given, WriterRows
<1>3. \A w \in Writers : writer[w].op = "none" /\ ~writer[w].locked /\ writer[w].counted = <<>>
  BY DEF NoWriter
<1>4. CreatedOnce(plan)
  BY DEF CreatedOnce, Created
<1> QED  BY <1>1, <1>2, <1>3, <1>4 DEF DeliveryInv, Types, RowsApart, StillThere, OneLock, CountsHold,
            Quiet, SummaryTrue, CompletedIsComplete, SameRow, RunOperations

---------------------------------------------------------------------------
(* What an operation makes of the rows. *)

\* The arguments of the operations.
LEMMA ArgumentFacts ==
    ASSUME feed \in PlanFeeds, NEW op \in Operations, NEW a \in Arguments(feed.runs, op)
    PROVE  /\ a \in Given
           /\ op \in RunOperations => a[1] \in Runs
           /\ op = "complete" => a[2] \in Ended /\ a[3] \in SUBSET PlanMembers
           /\ op = "outcome" => a[1] \in PlanMembers /\ a[2] \in {"no_data", "blocked", "mapping_gap"}
<1>1. feed.runs \subseteq Runs  BY PlanAssumption
<1>2. CASE op = "complete"
  <2>1. PICK r \in feed.runs : a \in Endings(r)  BY <1>2 DEF Arguments
  <2>2. Carries[r] \in SUBSET PlanMembers  BY <2>1, <1>1, PlanAssumption
  <2>3. PICK s \in Ended, k \in SUBSET PlanMembers : a = <<r, s, k>>
    BY <2>1, <2>2 DEF Endings, Ended
  <2>4. a \in Runs \X Ended \X SUBSET PlanMembers  BY <2>1, <2>3, <1>1
  <2> QED  BY <2>1, <2>3, <2>4, <1>1, <1>2 DEF Given, RunOperations
<1>3. CASE op = "outcome"
  <2>1. a \in PlanMembers \X {"no_data", "blocked", "mapping_gap"}  BY <1>3 DEF Arguments
  <2> QED  BY <2>1, <1>3 DEF Given, RunOperations
<1>4. CASE op = "repair"
  BY <1>4 DEF Arguments, Given, RunOperations
<1>5. CASE op = "backfill"
  BY <1>5 DEF Arguments, Given, RunOperations
<1>6. CASE op \in {"accept", "process", "retry", "fail"}
  <2>1. a \in {<<r>> : r \in feed.runs}  BY <1>6 DEF Arguments
  <2> QED  BY <2>1, <1>1, <1>6 DEF Given
<1> QED  BY <1>2, <1>3, <1>4, <1>5, <1>6 DEF Operations

\* The rows keep their types.
LEMMA EffectTyped ==
    ASSUME feed \in PlanFeeds, NEW p \in Plans, NEW op \in Operations, NEW a \in Arguments(feed.runs, op),
           op = "repair" => a[1] \in Gaps
    PROVE  Effect(p, op, a) \in Plans
<1> USE DEF Plans
<1>1. CASE op = "accept"
  <2>1. a[1] \in Runs  BY <1>1, ArgumentFacts DEF RunOperations
  <2>2. Append(p.created, a[1]) \in Seq(Runs)  BY <2>1
  <2> QED  BY <1>1, <2>1, <2>2 DEF Effect
<1>2. CASE op = "process"
  BY <1>2, ArgumentFacts DEF Effect, RunOperations
<1>3. CASE op = "retry"
  BY <1>3, ArgumentFacts DEF Effect, RunOperations
<1>4. CASE op = "fail"
  BY <1>4, ArgumentFacts DEF Effect, RunOperations
<1>5. CASE op = "complete"
  BY <1>5, ArgumentFacts DEF Effect, RunOperations
<1>6. CASE op = "outcome"
  BY <1>6, ArgumentFacts DEF Effect
<1>7. CASE op = "repair"
  BY <1>7 DEF Effect
<1>8. CASE op = "backfill"
  BY <1>8 DEF Effect
<1> QED  BY <1>1, <1>2, <1>3, <1>4, <1>5, <1>6, <1>7, <1>8 DEF Operations

\* What becomes of the status of a run and of the order of the runs.
LEMMA EffectOnRuns ==
    ASSUME feed \in PlanFeeds, NEW p \in Plans, NEW op \in Operations, NEW a \in Arguments(feed.runs, op)
    PROVE  LET e == Effect(p, op, a) IN
           /\ op \notin RunOperations => e.status = p.status
           /\ op \in RunOperations => /\ e.status[a[1]] # "none"
                                     /\ \A r \in Runs : r # a[1] => e.status[r] = p.status[r]
           /\ e.created = IF op = "accept" THEN Append(p.created, a[1]) ELSE p.created
<1> USE DEF Plans
<1>1. CASE op = "accept"
  BY <1>1, ArgumentFacts DEF Effect, RunOperations
<1>2. CASE op = "process"
  BY <1>2, ArgumentFacts DEF Effect, RunOperations
<1>3. CASE op = "retry"
  BY <1>3, ArgumentFacts DEF Effect, RunOperations
<1>4. CASE op = "fail"
  BY <1>4, ArgumentFacts DEF Effect, RunOperations
<1>5. CASE op = "complete"
  BY <1>5, ArgumentFacts DEF Effect, RunOperations, Ended
<1>6. CASE op \in {"outcome", "repair", "backfill"}
  BY <1>6 DEF Effect, RunOperations
<1> QED  BY <1>1, <1>2, <1>3, <1>4, <1>5, <1>6 DEF Operations

\* A run is still created once.
LEMMA EffectCreatesOnce ==
    ASSUME feed \in PlanFeeds, NEW p \in Plans, NEW op \in Operations, NEW a \in Arguments(feed.runs, op),
           CreatedOnce(p), op \in RunOperations => (op = "accept" <=> p.status[a[1]] = "none")
    PROVE  CreatedOnce(Effect(p, op, a))
<1> DEFINE e == Effect(p, op, a)
<1>1. /\ op \notin RunOperations => e.status = p.status
      /\ op \in RunOperations => /\ e.status[a[1]] # "none"
                                /\ \A r \in Runs : r # a[1] => e.status[r] = p.status[r]
      /\ e.created = IF op = "accept" THEN Append(p.created, a[1]) ELSE p.created
  BY EffectOnRuns
<1> HIDE DEF e
<1>2. p.created \in Seq(Runs)  BY DEF Plans
<1>3. CASE op = "accept"
  <2>1. a[1] \in Runs /\ p.status[a[1]] = "none"
    BY <1>3, ArgumentFacts DEF RunOperations
  <2>2. e.created = Append(p.created, a[1])  BY <1>1, <1>3
  <2>3. /\ DOMAIN e.created = 1 .. Len(p.created) + 1
        /\ DOMAIN p.created = 1 .. Len(p.created) /\ Len(p.created) \in Nat
        /\ \A k \in 1 .. Len(p.created) : e.created[k] = p.created[k]
        /\ e.created[Len(p.created) + 1] = a[1]
    BY <2>2, <1>2, <2>1
  <2>4. Created(e) = Created(p) \cup {a[1]}
    BY <2>3 DEF Created
  <2>5. a[1] \notin Created(p)  BY <2>1 DEF CreatedOnce
  <2>6. \A i, j \in DOMAIN e.created : e.created[i] = e.created[j] => i = j
    BY <2>3, <2>5 DEF Created, CreatedOnce
  <2>7. \A r \in Runs : e.status[r] = "none" <=> r \notin Created(e)
    BY <1>1, <1>3, <2>1, <2>4 DEF CreatedOnce, RunOperations
  <2> QED  BY <2>6, <2>7 DEF e, CreatedOnce
<1>4. CASE op # "accept"
  <2>1. Created(e) = Created(p)  BY <1>1, <1>4 DEF Created
  <2>2. \A r \in Runs : e.status[r] = "none" <=> p.status[r] = "none"
    BY <1>1, <1>4
  <2> QED  BY <2>1, <2>2, <1>1, <1>4 DEF e, CreatedOnce
<1> QED  BY <1>3, <1>4

---------------------------------------------------------------------------
(* The steps. *)

\* What is known of a writer at work.
LEMMA WriterFacts ==
    ASSUME DeliveryInv, NEW w \in Writers, writer[w].op # "none"
    PROVE  /\ writer[w].op \in Operations /\ writer[w].arg \in Arguments(feed.runs, writer[w].op)
           /\ writer[w] \in WriterRows
           /\ writer[w].op = "repair" => writer[w].arg[1] \in Gaps
           /\ Effect(plan, writer[w].op, writer[w].arg) \in Plans
           /\ CreatedOnce(Effect(plan, writer[w].op, writer[w].arg))
<1> USE DEF DeliveryInv
<1>1. writer[w] \in WriterRows /\ writer[w].arg \in Arguments(feed.runs, writer[w].op)
  BY DEF Types, WriterRows
<1>2. writer[w].op \in Operations  BY <1>1 DEF WriterRows
<1>3. /\ writer[w].op = "repair" => writer[w].arg[1] \in Gaps
      /\ writer[w].op \in RunOperations =>
           (writer[w].op = "accept" <=> plan.status[writer[w].arg[1]] = "none")
  BY DEF StillThere
<1>4. feed \in PlanFeeds /\ plan \in Plans /\ CreatedOnce(plan)  BY DEF Types
<1> HIDE DEF DeliveryInv
<1>5. Effect(plan, writer[w].op, writer[w].arg) \in Plans
  BY <1>1, <1>2, <1>3, <1>4, EffectTyped
<1>6. CreatedOnce(Effect(plan, writer[w].op, writer[w].arg))
  BY <1>1, <1>2, <1>3, <1>4, EffectCreatesOnce
<1> QED  BY <1>1, <1>2, <1>3, <1>5, <1>6

\* A writer begins an operation the rows allow and nobody else is at.
LEMMA BeginKeeps ==
    ASSUME DeliveryInv, NEW w \in Writers, BeginWrite(w)
    PROVE  DeliveryInv'
<1>1. PICK op \in feed.ops : \E a \in Arguments(feed.runs, op) :
        /\ Allowed(plan, op, a)
        /\ \A v \in Writers : ~SameRow(op, a, writer[v].op, writer[v].arg)
        /\ op = "backfill" => \A v \in Writers : ~writer[v].locked
        /\ writer' = [writer EXCEPT ![w] = [op |-> op, arg |-> a, locked |-> (op = "backfill"),
                                             counted |-> <<>>]]
  BY DEF BeginWrite
<1>0. PICK a \in Arguments(feed.runs, op) :
        /\ Allowed(plan, op, a)
        /\ \A v \in Writers : ~SameRow(op, a, writer[v].op, writer[v].arg)
        /\ op = "backfill" => \A v \in Writers : ~writer[v].locked
        /\ writer' = [writer EXCEPT ![w] = [op |-> op, arg |-> a, locked |-> (op = "backfill"),
                                             counted |-> <<>>]]
  BY <1>1
<1>2. /\ writer[w].op = "none" /\ settled = "none"
      /\ feed' = feed /\ plan' = plan /\ summary' = summary /\ settled' = settled
  BY DEF BeginWrite
<1>3. feed \in PlanFeeds /\ plan \in Plans  BY DEF DeliveryInv, Types
<1>4. op \in Operations  BY <1>3, PlanAssumption
<1> DEFINE row == [op |-> op, arg |-> a, locked |-> (op = "backfill"), counted |-> <<>>]
<1>5. writer' = [writer EXCEPT ![w] = row]  BY <1>0
<1>6. a \in Given  BY <1>3, <1>4, ArgumentFacts
<1>7. row \in WriterRows  BY <1>4, <1>6 DEF WriterRows
<1>8. row.op = op /\ row.arg = a /\ row.counted = <<>> /\ (row.locked <=> op = "backfill")
  OBVIOUS
<1> HIDE DEF row
<1>9. writer \in [Writers -> WriterRows]  BY DEF DeliveryInv, Types
<1>10. /\ writer' \in [Writers -> WriterRows] /\ writer'[w] = row
       /\ \A v \in Writers : v # w => writer'[v] = writer[v]
  BY <1>5, <1>7, <1>9
<1>12. Types'
  <2>1. ASSUME NEW v \in Writers, writer'[v].op # "none"
        PROVE  writer'[v].arg \in Arguments(feed'.runs, writer'[v].op)
    <3>1. CASE v = w
      BY <3>1, <1>10, <1>8, <1>2
    <3>2. CASE v # w
      BY <3>2, <2>1, <1>10, <1>2, WriterFacts
    <3> QED  BY <3>1, <3>2
  <2>2. writer' \in [Writers -> WriterRows]  BY <1>10
  <2> QED  BY <2>1, <2>2, <1>2 DEF DeliveryInv, Types
<1>13. RowsApart'
  <2>1. ASSUME NEW v \in Writers  PROVE ~SameRow(writer[v].op, writer[v].arg, op, a)
    BY <1>0 DEF SameRow
  <2> QED  BY <2>1, <1>0, <1>8, <1>10 DEF RowsApart, DeliveryInv
<1>14. StillThere'
  <2>1. op \in RunOperations => (op = "accept" <=> plan.status[a[1]] = "none")
    BY <1>0 DEF Allowed, RunOperations
  <2>2. op = "repair" => a[1] \in Gaps
    BY <1>0 DEF Allowed, MayRepair
  <2> QED  BY <2>1, <2>2, <1>2, <1>8, <1>10 DEF StillThere, DeliveryInv
<1>15. OneLock'
  BY <1>0, <1>8, <1>10 DEF OneLock, DeliveryInv
<1>16. CountsHold'
  <2>1. ASSUME NEW v \in Writers, v # w
        PROVE  Reconcile(Effect(plan, writer[v].op, writer[v].arg))'
                 = Reconcile(Effect(plan, writer[v].op, writer[v].arg))
    BY <2>1, <1>2, <1>10 DEF Reconcile, CanonicalKeys
  <2> QED  BY <2>1, <1>2, <1>4, <1>8, <1>10 DEF CountsHold, DeliveryInv, Operations
<1>17. Quiet'  BY <1>2 DEF Quiet
<1>18. CreatedOnce(plan)' /\ SummaryTrue' /\ CompletedIsComplete'
  BY <1>2 DEF DeliveryInv, CreatedOnce, Created, SummaryTrue, CompletedIsComplete, Reconcile, CanonicalKeys
<1> QED  BY <1>12, <1>13, <1>14, <1>15, <1>16, <1>17, <1>18 DEF DeliveryInv

\* A step of a writer that commits nothing: it goes on with its operation or
\* gives it up.
LEMMA WriterStep ==
    ASSUME DeliveryInv, NEW w \in Writers, NEW row \in WriterRows,
           writer' = [writer EXCEPT ![w] = row],
           feed' = feed, plan' = plan, summary' = summary, settled' = settled,
           row.op = "none" \/ (row.op = writer[w].op /\ row.arg = writer[w].arg),
           row.locked => row.op # "none" /\ \A v \in Writers \ {w} : ~writer[v].locked,
           row.counted # <<>> =>
              row.locked /\ row.counted = <<Reconcile(Effect(plan, row.op, row.arg))>>
    PROVE  DeliveryInv'
<1>1. writer \in [Writers -> WriterRows]  BY DEF DeliveryInv, Types
<1>2. /\ writer' \in [Writers -> WriterRows] /\ writer'[w] = row
      /\ \A v \in Writers : v # w => writer'[v] = writer[v]
  BY <1>1
<1>3. Types'
  <2>1. ASSUME NEW v \in Writers, writer'[v].op # "none"
        PROVE  writer'[v].arg \in Arguments(feed'.runs, writer'[v].op)
    <3>1. writer'[v].op = writer[v].op /\ writer'[v].arg = writer[v].arg
      BY <2>1, <1>2
    <3> QED  BY <3>1, <2>1, WriterFacts
  <2>2. writer' \in [Writers -> WriterRows]  BY <1>2
  <2> QED  BY <2>1, <2>2 DEF DeliveryInv, Types
<1>4. RowsApart'
  <2>1. \A v \in Writers : \/ writer'[v].op = "none"
                           \/ writer'[v].op = writer[v].op /\ writer'[v].arg = writer[v].arg
    BY <1>2
  <2> QED  BY <2>1 DEF RowsApart, DeliveryInv, SameRow, RunOperations
<1>5. StillThere'
  BY <1>2 DEF StillThere, DeliveryInv, RunOperations
<1>6. OneLock'
  BY <1>2 DEF OneLock, DeliveryInv
<1>7. CountsHold'
  <2>1. ASSUME NEW v \in Writers, writer'[v].counted # <<>>
        PROVE  /\ writer'[v].locked
               /\ writer'[v].counted = <<Reconcile(Effect(plan, writer[v].op, writer[v].arg))>>'
    <3>1. Reconcile(Effect(plan, writer[v].op, writer[v].arg))'
            = Reconcile(Effect(plan, writer'[v].op, writer'[v].arg))
      BY DEF Reconcile, CanonicalKeys
    <3>2. CASE v = w
      BY <3>1, <3>2, <2>1, <1>2
    <3>3. CASE v # w
      BY <3>1, <3>3, <2>1, <1>2 DEF CountsHold, DeliveryInv
    <3> QED  BY <3>2, <3>3
  <2>2. \A v \in Writers : writer'[v].locked => writer'[v].op # "none"
    BY <1>2 DEF CountsHold, DeliveryInv
  <2> QED  BY <2>1, <2>2 DEF CountsHold
<1>8. Quiet'
  BY <1>2 DEF Quiet, DeliveryInv
<1>9. CreatedOnce(plan)' /\ SummaryTrue' /\ CompletedIsComplete'
  <2>1. Reconcile(plan)' = Reconcile(plan)  BY DEF Reconcile, CanonicalKeys
  <2>2. SummaryTrue' /\ CompletedIsComplete'
    BY <2>1 DEF DeliveryInv, SummaryTrue, CompletedIsComplete
  <2> QED  BY <2>2 DEF DeliveryInv, CreatedOnce, Created
<1> QED  BY <1>3, <1>4, <1>5, <1>6, <1>7, <1>8, <1>9 DEF DeliveryInv

\* The plan row is locked by nobody else.
LEMMA LockKeeps ==
    ASSUME DeliveryInv, NEW w \in Writers, LockPlan(w)
    PROVE  DeliveryInv'
<1> DEFINE row == [writer[w] EXCEPT !.locked = TRUE]
<1>1. /\ writer[w].op # "none" /\ ~writer[w].locked /\ \A v \in Writers : ~writer[v].locked
      /\ writer' = [writer EXCEPT ![w] = row]
      /\ feed' = feed /\ plan' = plan /\ summary' = summary /\ settled' = settled
  BY DEF LockPlan
<1>2. writer[w] \in WriterRows  BY <1>1, WriterFacts
<1>3. row \in WriterRows  BY <1>2 DEF WriterRows
<1>4. row.op = writer[w].op /\ row.arg = writer[w].arg /\ row.counted = writer[w].counted
  BY <1>2 DEF WriterRows
<1>5. writer[w].counted = <<>>  BY <1>1 DEF DeliveryInv, CountsHold
<1> HIDE DEF row
<1> QED  BY <1>1, <1>3, <1>4, <1>5, WriterStep

\* What is counted is what the commit will make true.
LEMMA ReconcileKeeps ==
    ASSUME DeliveryInv, NEW w \in Writers, ReconcilePlan(w)
    PROVE  DeliveryInv'
<1> DEFINE counts == Reconcile(Effect(plan, writer[w].op, writer[w].arg))
           row == [writer[w] EXCEPT !.counted = <<counts>>]
<1>1. /\ writer[w].op # "none" /\ writer[w].locked
      /\ writer' = [writer EXCEPT ![w] = row]
      /\ feed' = feed /\ plan' = plan /\ summary' = summary /\ settled' = settled
  BY DEF ReconcilePlan, MayReconcile
<1>2. writer[w] \in WriterRows /\ Effect(plan, writer[w].op, writer[w].arg) \in Plans
  BY <1>1, WriterFacts
<1>3. counts \in PlanCounts  BY <1>2, CountsTyped
<1> HIDE DEF counts
<1>4. row \in WriterRows  BY <1>2, <1>3 DEF WriterRows
<1>5. /\ row.op = writer[w].op /\ row.arg = writer[w].arg /\ row.locked = writer[w].locked
      /\ row.counted = <<counts>>
  BY <1>2 DEF WriterRows
<1>6. row.counted = <<Reconcile(Effect(plan, row.op, row.arg))>>  BY <1>5 DEF counts
<1>7. \A v \in Writers \ {w} : ~writer[v].locked  BY <1>1 DEF DeliveryInv, OneLock
<1> HIDE DEF row
<1> QED  BY <1>1, <1>4, <1>5, <1>6, <1>7, WriterStep

\* A rolled back writer leaves nothing.
LEMMA RollbackKeeps ==
    ASSUME DeliveryInv, NEW w \in Writers, RollbackWrite(w)
    PROVE  DeliveryInv'
<1>1. NoWriter \in WriterRows  BY DEF NoWriter, WriterRows, Given
<1>2. NoWriter.op = "none" /\ ~NoWriter.locked /\ NoWriter.counted = <<>>  BY DEF NoWriter
<1>3. /\ writer' = [writer EXCEPT ![w] = NoWriter]
      /\ feed' = feed /\ plan' = plan /\ summary' = summary /\ settled' = settled
  BY DEF RollbackWrite
<1> QED  BY <1>1, <1>2, <1>3, WriterStep

\* The commit makes the rows and their summary visible together; the writers
\* that go on are at other rows and hold no count.
LEMMA CommitKeeps ==
    ASSUME DeliveryInv, NEW w \in Writers, CommitWrite(w)
    PROVE  DeliveryInv'
<1> DEFINE op == writer[w].op
           a == writer[w].arg
           e == Effect(plan, op, a)
<1>1. /\ writer[w].locked /\ writer[w].counted # <<>>
      /\ plan' = e /\ summary' = writer[w].counted
      /\ writer' = [writer EXCEPT ![w] = NoWriter] /\ feed' = feed /\ settled' = settled
  BY DEF CommitWrite
<1>2. op # "none" /\ writer[w].counted = <<Reconcile(e)>>
  BY <1>1 DEF DeliveryInv, CountsHold
<1>3. /\ op \in Operations /\ a \in Arguments(feed.runs, op)
      /\ e \in Plans /\ CreatedOnce(e)
  BY <1>2, WriterFacts
<1>4. feed \in PlanFeeds /\ plan \in Plans  BY DEF DeliveryInv, Types
<1>5. /\ op \notin RunOperations => e.status = plan.status
      /\ op \in RunOperations => \A r \in Runs : r # a[1] => e.status[r] = plan.status[r]
  BY <1>3, <1>4, EffectOnRuns
<1> HIDE DEF e
<1>6. NoWriter \in WriterRows /\ NoWriter.op = "none" /\ ~NoWriter.locked /\ NoWriter.counted = <<>>
  BY DEF NoWriter, WriterRows, Given
<1>7. writer \in [Writers -> WriterRows]  BY DEF DeliveryInv, Types
<1>8. /\ writer' \in [Writers -> WriterRows] /\ writer'[w] = NoWriter
      /\ \A v \in Writers : v # w => writer'[v] = writer[v]
  BY <1>1, <1>6, <1>7
<1>9. Types'
  <2>1. ASSUME NEW v \in Writers, writer'[v].op # "none"
        PROVE  writer'[v].arg \in Arguments(feed'.runs, writer'[v].op)
    <3>1. writer'[v] = writer[v]
      BY <2>1, <1>6, <1>8
    <3> QED  BY <3>1, <2>1, <1>1, WriterFacts
  <2>2. writer' \in [Writers -> WriterRows]  BY <1>8
  <2>3. summary' \in {<<>>} \cup {<<c>> : c \in PlanCounts}
    BY <1>1, <1>2, <1>3, CountsTyped
  <2>4. feed' \in PlanFeeds /\ plan' \in Plans /\ settled' \in {"none", "completed", "partial"}
    BY <1>1, <1>3 DEF DeliveryInv, Types
  <2> QED  BY <2>1, <2>2, <2>3, <2>4 DEF Types
<1>10. CreatedOnce(plan)'
  BY <1>1, <1>3 DEF CreatedOnce, Created
<1>11. RowsApart'
  <2>1. \A v \in Writers : writer'[v].op = "none" \/ writer'[v] = writer[v]
    BY <1>6, <1>8
  <2> QED  BY <2>1 DEF RowsApart, DeliveryInv, SameRow, RunOperations
<1>12. StillThere'
  <2> SUFFICES ASSUME NEW v \in Writers
               PROVE  /\ writer'[v].op \in RunOperations =>
                           (writer'[v].op = "accept" <=> e.status[writer'[v].arg[1]] = "none")
                      /\ writer'[v].op = "repair" => writer'[v].arg[1] \in Gaps
    BY <1>1 DEF StillThere
  <2>1. CASE v = w
    BY <2>1, <1>6, <1>8 DEF RunOperations
  <2>2. CASE v # w
    <3>1. writer'[v] = writer[v]  BY <2>2, <1>8
    <3>2. ASSUME writer[v].op \in RunOperations
          PROVE  e.status[writer[v].arg[1]] = plan.status[writer[v].arg[1]]
      <4>1. writer[v].op \in Operations /\ writer[v].arg \in Arguments(feed.runs, writer[v].op)
        BY <3>2, WriterFacts DEF RunOperations
      <4>2. writer[v].arg[1] \in Runs  BY <4>1, <3>2, <1>4, ArgumentFacts
      <4>3. op \in RunOperations => writer[v].arg[1] # a[1]
        BY <2>2, <3>2 DEF DeliveryInv, RowsApart, SameRow
      <4> QED  BY <4>2, <4>3, <1>5
    <3> QED  BY <3>1, <3>2 DEF DeliveryInv, StillThere
  <2> QED  BY <2>1, <2>2
<1>13. OneLock'
  BY <1>6, <1>8 DEF OneLock, DeliveryInv
<1>14. CountsHold'
  <2>1. \A v \in Writers : v # w => ~writer[v].locked
    BY <1>1 DEF DeliveryInv, OneLock
  <2>2. \A v \in Writers : writer'[v].counted = <<>> /\ ~writer'[v].locked
    BY <2>1, <1>6, <1>8 DEF DeliveryInv, CountsHold
  <2> QED  BY <2>2 DEF CountsHold
<1>15. settled = "none"
  BY <1>2 DEF DeliveryInv, Quiet
<1>16. Quiet' /\ CompletedIsComplete'
  BY <1>1, <1>15 DEF Quiet, CompletedIsComplete
<1>17. SummaryTrue'
  <2>1. Reconcile(plan)' = Reconcile(e)
    BY <1>1 DEF Reconcile, CanonicalKeys
  <2> QED  BY <2>1, <1>1, <1>2 DEF SummaryTrue
<1> QED  BY <1>9, <1>10, <1>11, <1>12, <1>13, <1>14, <1>16, <1>17 DEF DeliveryInv

\* A work of which every member is proven has no member missing or blocked.
LEMMA SettleKeeps ==
    ASSUME DeliveryInv, SettleWork
    PROVE  DeliveryInv'
<1>1. PICK claim \in [PlanMembers -> Claims] :
        /\ \A m \in PlanMembers : Proven(plan, m, claim[m])
        /\ settled' = IF \E m \in PlanMembers : claim[m] \in {"mapping_gap", "invalid", "missing"}
                      THEN "partial" ELSE "completed"
  BY DEF SettleWork
<1>2. /\ feed.kind = "eod" /\ \A w \in Writers : writer[w].op = "none"
      /\ \A r \in Created(plan) \ Historical : plan.status[r] \in Ended
      /\ feed' = feed /\ plan' = plan /\ summary' = summary /\ writer' = writer
  BY DEF SettleWork
<1>3. CompletedIsComplete'
  <2> SUFFICES ASSUME settled' = "completed"
               PROVE  Reconcile(plan).missing = {} /\ Reconcile(plan).blocked = {}
    BY <1>2 DEF CompletedIsComplete, Reconcile, CanonicalKeys
  <2>1. \A m \in PlanMembers : claim[m] \in {"data", "no_data"}
    BY <1>1 DEF Claims
  <2>2. ASSUME NEW m \in PlanMembers
        PROVE  m \in CanonicalKeys(plan) \/ plan.outcome[m] = "no_data"
    <3>1. CASE claim[m] = "data"
      <4>1. PICK r \in Created(plan) \ Historical : m \in plan.wrote[r]
        BY <3>1, <1>1 DEF Proven
      <4> QED  BY <4>1, <1>2 DEF CanonicalKeys
    <3>2. CASE claim[m] = "no_data"
      BY <3>2, <1>1 DEF Proven
    <3> QED  BY <3>1, <3>2, <2>1
  <2> QED  BY <2>2 DEF Reconcile
<1>4. settled' \in {"none", "completed", "partial"}  BY <1>1
<1>5. Types' /\ CreatedOnce(plan)' /\ RowsApart' /\ StillThere' /\ OneLock'
  BY <1>2, <1>4 DEF DeliveryInv, Types, CreatedOnce, Created, RowsApart, StillThere, OneLock
<1>6. CountsHold' /\ SummaryTrue'
  BY <1>2 DEF DeliveryInv, CountsHold, SummaryTrue, Reconcile, CanonicalKeys
<1>7. Quiet'  BY <1>2 DEF Quiet
<1> QED  BY <1>3, <1>5, <1>6, <1>7 DEF DeliveryInv

\* A step in which nothing changes.
LEMMA StutterKeeps ==
    ASSUME DeliveryInv, UNCHANGED deliveryVars
    PROVE  DeliveryInv'
<1> USE DEF deliveryVars
<1>1. Reconcile(plan)' = Reconcile(plan)  BY DEF Reconcile, CanonicalKeys
<1>2. SummaryTrue' /\ CompletedIsComplete'
  BY <1>1 DEF DeliveryInv, SummaryTrue, CompletedIsComplete
<1>3. Types' /\ CreatedOnce(plan)' /\ RowsApart' /\ StillThere' /\ OneLock' /\ Quiet'
  BY DEF DeliveryInv, Types, CreatedOnce, Created, RowsApart, StillThere, OneLock, Quiet
<1>4. CountsHold'
  <2>1. ASSUME NEW w \in Writers
        PROVE  Reconcile(Effect(plan, writer[w].op, writer[w].arg))'
                 = Reconcile(Effect(plan, writer[w].op, writer[w].arg))
    BY DEF Reconcile, CanonicalKeys
  <2> QED  BY <2>1 DEF DeliveryInv, CountsHold
<1> QED  BY <1>2, <1>3, <1>4 DEF DeliveryInv

---------------------------------------------------------------------------
(* The theorems. *)

\* Rows stay apart, one writer holds the plan and what it counted holds, and
\* the summary is true: in every state of the plan.
THEOREM DeliveryInvariance == DeliverySpec => []DeliveryInv
<1>1. DeliveryInit => DeliveryInv  BY InitialState
<1>2. DeliveryInv /\ [DeliveryNext]_deliveryVars => DeliveryInv'
  <2> SUFFICES ASSUME DeliveryInv, [DeliveryNext]_deliveryVars PROVE DeliveryInv'  OBVIOUS
  <2>1. ASSUME NEW w \in Writers,
               BeginWrite(w) \/ LockPlan(w) \/ ReconcilePlan(w) \/ CommitWrite(w) \/ RollbackWrite(w)
        PROVE  DeliveryInv'
    BY <2>1, BeginKeeps, LockKeeps, ReconcileKeeps, CommitKeeps, RollbackKeeps
  <2>2. CASE SettleWork  BY <2>2, SettleKeeps
  <2>3. CASE UNCHANGED deliveryVars  BY <2>3, StutterKeeps
  <2> QED  BY <2>1, <2>2, <2>3 DEF DeliveryNext
<1> QED  BY <1>1, <1>2, PTL DEF DeliverySpec

\* The stored summary is what the committed rows say, an old completed attempt
\* hides no newer one, and a work that ended as completed leaves no member
\* missing or blocked (refresh_plan_summary, validate_eod_completion).
THEOREM SummariesAreTrue == DeliverySpec => []SummariesTrue
<1>1. DeliveryInv => SummariesTrue
  BY TrueSummaryShowsNewest DEF DeliveryInv, Types, SummariesTrue
<1> QED  BY <1>1, DeliveryInvariance, PTL

\* The rows of a plan keep their types.
THEOREM DeliveryTypesHold == DeliverySpec => []DeliveryTypeOK
<1>1. DeliveryInv => DeliveryTypeOK
  BY DEF DeliveryInv, Types, Plans, DeliveryTypeOK
<1> QED  BY <1>1, DeliveryInvariance, PTL
=============================================================================
