----------------------- MODULE IngestionLedger_proofs -----------------------
(***************************************************************************)
(* Machine-checked safety of IngestionLedger for every set of requests,    *)
(* keys and contents, and that it implements IngestPromise; then of        *)
(* RawRetention for every number of runs and requesters and every bulk     *)
(* limit: retention deletes no payload a run or a reference still needs;   *)
(* then of HistoricalItems for every set of dates, list of members and     *)
(* budget: a backfill reads completed only when it is whole, and no loss   *)
(* makes it ask a provider more often than its budget.                     *)
(***************************************************************************)
EXTENDS IngestionLedger, RawRetention, HistoricalItems, TLAPS

\* What an answer or a pending answer presumes about the attempt, by how far
\* the handler is: nothing is stored before the transaction, a handler that is
\* about to say 202 has stored, and one that is about to refuse has not.
AnswersAgree ==
    \A r \in Requests :
        /\ pc[r] \in {"idle", "begun", "claimed"} => attempt[r] \notin Stored
        /\ pc[r] = "stored" => attempt[r] \in Stored
        /\ pc[r] = "failed" /\ error[r] = "rejected" => attempt[r] \notin Stored
        /\ pc[r] = "idle" => attempt[r] = "none"
        /\ pc[r] # "done" => answer[r] = "none"
        /\ answer[r] = "accepted" => attempt[r] \in Stored
        /\ answer[r] = "rejected" => attempt[r] \notin Stored

IInv == TypeOK /\ LedgerMatchesRaw /\ AnswersAgree

\* A step of one request that leaves the raw layer and whatever is stored
\* alone; every action but the two commits and reconciliation is of this kind.
QuietStep(r) ==
    /\ raw' = raw
    /\ run_id' = run_id
    /\ \/ attempt' = attempt
       \/ /\ attempt[r] \in {"none", "received"}
          /\ \E s \in {"none", "received", "rejected"} :
                attempt' = [attempt EXCEPT ![r] = s]

\* Such a step leaves the agreement of ledger and raw layer alone.
LEMMA QuietLedger ==
  ASSUME IInv, NEW r \in Requests, QuietStep(r)
  PROVE  LedgerMatchesRaw'
<1>1. \A q \in Requests : \/ attempt'[q] = attempt[q]
                          \/ attempt[q] \notin Stored /\ attempt'[q] \notin Stored
  BY DEF IInv, TypeOK, QuietStep, Stored, Ended
<1>2. \A q \in Requests : attempt'[q] = "accepted" <=> attempt[q] = "accepted"
  BY <1>1 DEF Stored
<1>3. \A q \in Requests : attempt'[q] = "duplicate" <=> attempt[q] = "duplicate"
  BY <1>1 DEF Stored
<1>4. \A k \in Keys : raw[k] # NoRun => raw[k] \in Requests
  BY DEF IInv, TypeOK
<1> QED BY <1>2, <1>3, <1>4 DEF IInv, LedgerMatchesRaw, QuietStep, Stored

\* The rejections, of either kind, are quiet and give a true answer.
LEMMA RejectedStep ==
  ASSUME IInv, NEW r \in Requests, NEW code \in Errors,
         pc[r] \in {"claimed", "failed"},
         code = "rejected" => attempt[r] \notin Stored,
         Rejected(r, code)
  PROVE  IInv'
<1>1. PICK saved \in BOOLEAN, told \in {code, "internal"} :
         /\ saved => told = code
         /\ attempt' = [attempt EXCEPT ![r] =
                           IF saved /\ @ = "received" THEN "rejected" ELSE @]
         /\ Answered(r, told)
  BY DEF Rejected
<1>2. UNCHANGED <<run_id, raw, error>>
  BY DEF Rejected
<1>3. \/ attempt' = attempt
      \/ attempt[r] = "received" /\ attempt' = [attempt EXCEPT ![r] = "rejected"]
  BY <1>1 DEF IInv, TypeOK
<1>4. LedgerMatchesRaw'
  BY <1>2, <1>3, QuietLedger DEF QuietStep
<1>5. TypeOK'
  BY <1>1, <1>2, <1>3 DEF IInv, TypeOK, Answered, Errors, Ended
<1>6. \A q \in Requests \ {r} : /\ attempt'[q] = attempt[q] /\ pc'[q] = pc[q]
                               /\ answer'[q] = answer[q] /\ error'[q] = error[q]
  BY <1>1, <1>2, <1>3 DEF IInv, TypeOK, Answered
<1>7. /\ attempt'[r] \in Stored <=> attempt[r] \in Stored
      /\ pc'[r] = "done" /\ answer'[r] \in {code, "internal"}
  BY <1>1, <1>3 DEF IInv, TypeOK, Answered, Stored
<1>8. AnswersAgree'
  BY <1>6, <1>7 DEF IInv, AnswersAgree, Errors, Stored
<1> QED BY <1>4, <1>5, <1>8 DEF IInv

\* Steps that neither store nor end an attempt.
LEMMA HandlerStep ==
  ASSUME IInv, NEW r \in Requests,
         \/ Begin(r) \/ BeginFails(r) \/ Claim(r) \/ ClaimFails(r) \/ Respond(r)
         \/ RollBack(r) \/ RollBackRaises(r) \/ Crash(r)
  PROVE  IInv'
<1>1. QuietStep(r)
  <2>1. attempt' = attempt \/ \E s \in {"none", "received"} :
          attempt[r] = "none" /\ attempt' = [attempt EXCEPT ![r] = s]
    BY DEF Begin, BeginFails, Claim, ClaimFails, Respond, RollBack,
           RollBackRaises, Crash, IInv, AnswersAgree
  <2>2. raw' = raw /\ run_id' = run_id
    BY DEF Begin, BeginFails, Claim, ClaimFails, Respond, RollBack,
           RollBackRaises, Crash
  <2> QED BY <2>1, <2>2 DEF QuietStep
<1>2. LedgerMatchesRaw'
  BY <1>1, QuietLedger
<1>3. TypeOK'
  <2>1. CASE Begin(r) BY <2>1 DEF Begin, IInv, TypeOK
  <2>2. CASE BeginFails(r) BY <2>2 DEF BeginFails, Answered, IInv, TypeOK, Errors
  <2>3. CASE Claim(r) BY <2>3 DEF Claim, IInv, TypeOK
  <2>4. CASE ClaimFails(r) BY <2>4 DEF ClaimFails, Answered, IInv, TypeOK, Errors
  <2>5. CASE Respond(r) BY <2>5 DEF Respond, Answered, IInv, TypeOK
  <2>6. CASE RollBack(r) BY <2>6 DEF RollBack, IInv, TypeOK
  <2>7. CASE RollBackRaises(r) BY <2>7 DEF RollBackRaises, Answered, IInv, TypeOK, Errors
  <2>8. CASE Crash(r) BY <2>8 DEF Crash, IInv, TypeOK
  <2> QED BY <2>1, <2>2, <2>3, <2>4, <2>5, <2>6, <2>7, <2>8
<1>4. AnswersAgree'
  <2> USE DEF IInv, TypeOK, AnswersAgree, Stored
  <2>1. CASE Begin(r) BY <2>1 DEF Begin
  <2>2. CASE BeginFails(r) BY <2>2 DEF BeginFails, Answered
  <2>3. CASE Claim(r) BY <2>3 DEF Claim
  <2>4. CASE ClaimFails(r) BY <2>4 DEF ClaimFails, Answered
  <2>5. CASE Respond(r) BY <2>5 DEF Respond, Answered
  <2>6. CASE RollBack(r) BY <2>6 DEF RollBack
  <2>7. CASE RollBackRaises(r) BY <2>7 DEF RollBackRaises, Answered
  <2>8. CASE Crash(r) BY <2>8 DEF Crash
  <2> QED BY <2>1, <2>2, <2>3, <2>4, <2>5, <2>6, <2>7, <2>8
<1> QED BY <1>2, <1>3, <1>4 DEF IInv

\* The two ways an attempt becomes stored.
LEMMA CommitStep ==
  ASSUME IInv, NEW r \in Requests, Accept(r) \/ AcceptExisting(r)
  PROVE  IInv'
<1>1. PICK status \in Stored, run \in Requests :
         /\ pc[r] = "claimed"
         /\ Commit(r, status, run)
         /\ \/ /\ status = "accepted" /\ run = r /\ raw[Key[r]] = NoRun
               /\ raw' = [raw EXCEPT ![Key[r]] = r]
            \/ /\ status = "duplicate" /\ run = raw[Key[r]] /\ Body[run] = Body[r]
               /\ raw' = raw
  BY LedgerAssumption DEF Accept, AcceptExisting, IInv, TypeOK, Stored
<1>2. /\ attempt[r] = "received"
      /\ attempt' = [attempt EXCEPT ![r] = status]
      /\ run_id' = [run_id EXCEPT ![r] = run]
      /\ UNCHANGED answer
      /\ \/ pc' = [pc EXCEPT ![r] = "stored"] /\ error' = error
         \/ /\ pc' = [pc EXCEPT ![r] = "failed"]
            /\ error' = [error EXCEPT ![r] = "unavailable"]
  BY <1>1 DEF Commit
<1>3. TypeOK'
  BY <1>1, <1>2, LedgerAssumption DEF IInv, TypeOK, Errors, Ended, Stored
<1>4. AnswersAgree'
  BY <1>1, <1>2 DEF IInv, TypeOK, AnswersAgree, Stored
<1>5. LedgerMatchesRaw'
  <2>1. /\ attempt'[r] = status /\ run_id'[r] = run
        /\ \A q \in Requests \ {r} : attempt'[q] = attempt[q] /\ run_id'[q] = run_id[q]
    BY <1>2 DEF IInv, TypeOK
  <2>2. Key[r] \in Keys /\ \A q \in Requests : Key[q] \in Keys
    BY LedgerAssumption
  <2>3. CASE status = "accepted"
    <3>1. /\ raw'[Key[r]] = r /\ run = r /\ raw[Key[r]] = NoRun
          /\ \A k \in Keys \ {Key[r]} : raw'[k] = raw[k]
      BY <1>1, <2>2, <2>3 DEF IInv, TypeOK
    <3>2. \A q \in Requests : attempt[q] \in Stored => Key[q] # Key[r]
      BY <3>1, <2>2, LedgerAssumption DEF IInv, LedgerMatchesRaw, Stored
    <3>3. \A k \in Keys : raw[k] # NoRun => raw[k] # r
      BY <1>2 DEF IInv, LedgerMatchesRaw
    <3>4. \A k \in Keys : raw'[k] # NoRun => Key[raw'[k]] = k /\ attempt'[raw'[k]] = "accepted"
      BY <2>1, <2>3, <3>1, <3>3 DEF IInv, LedgerMatchesRaw, TypeOK
    <3>5. ASSUME NEW q \in Requests
          PROVE  /\ attempt'[q] = "accepted" => raw'[Key[q]] = q
                 /\ attempt'[q] = "duplicate" =>
                       raw'[Key[q]] \notin {q, NoRun} /\ Body[raw'[Key[q]]] = Body[q]
                 /\ run_id'[q] = IF attempt'[q] \in Stored THEN raw'[Key[q]] ELSE NoRun
      <4>1. CASE q = r BY <4>1, <2>1, <2>3, <3>1 DEF Stored
      <4>2. CASE q # r
        BY <4>2, <2>1, <2>2, <3>1, <3>2 DEF IInv, LedgerMatchesRaw, Stored
      <4> QED BY <4>1, <4>2
    <3> QED BY <3>4, <3>5 DEF LedgerMatchesRaw
  <2>4. CASE status = "duplicate"
    <3>1. raw' = raw /\ run = raw[Key[r]] /\ Body[run] = Body[r]
      BY <1>1, <2>4
    <3>2. \A k \in Keys : raw[k] # NoRun => raw[k] # r
      BY <1>2 DEF IInv, LedgerMatchesRaw
    <3>3. \A k \in Keys : raw'[k] # NoRun => Key[raw'[k]] = k /\ attempt'[raw'[k]] = "accepted"
      BY <2>1, <3>1, <3>2 DEF IInv, LedgerMatchesRaw, TypeOK
    <3>4. raw[Key[r]] \notin {r, NoRun}
      BY <3>1, <3>2, <2>2, LedgerAssumption
    <3>5. ASSUME NEW q \in Requests
          PROVE  /\ attempt'[q] = "accepted" => raw'[Key[q]] = q
                 /\ attempt'[q] = "duplicate" =>
                       raw'[Key[q]] \notin {q, NoRun} /\ Body[raw'[Key[q]]] = Body[q]
                 /\ run_id'[q] = IF attempt'[q] \in Stored THEN raw'[Key[q]] ELSE NoRun
      <4>1. CASE q = r BY <4>1, <2>1, <2>4, <3>1, <3>4 DEF Stored
      <4>2. CASE q # r
        BY <4>2, <2>1, <3>1 DEF IInv, LedgerMatchesRaw
      <4> QED BY <4>1, <4>2
    <3> QED BY <3>3, <3>5 DEF LedgerMatchesRaw
  <2> QED BY <2>3, <2>4 DEF Stored
<1> QED BY <1>3, <1>4, <1>5 DEF IInv

\* Reconciliation only ends attempts that nobody has ended.
LEMMA ReconcileStep ==
  ASSUME IInv, ReconcileStaleAttempts
  PROVE  IInv'
<1>1. PICK S \in SUBSET Abandoned :
         attempt' = [r \in Requests |-> IF r \in S THEN "aborted" ELSE attempt[r]]
  BY DEF ReconcileStaleAttempts
<1>2. UNCHANGED <<run_id, raw, pc, error, answer>>
  BY DEF ReconcileStaleAttempts
<1>3. \A r \in Requests : \/ attempt'[r] = attempt[r]
                          \/ attempt[r] = "received" /\ attempt'[r] = "aborted"
  BY <1>1 DEF Abandoned
<1>4. TypeOK'
  BY <1>1, <1>2 DEF IInv, TypeOK, Ended
<1>5. AnswersAgree'
  BY <1>2, <1>3 DEF IInv, AnswersAgree, Stored
<1>6. \A r \in Requests : /\ attempt'[r] = "accepted" <=> attempt[r] = "accepted"
                          /\ attempt'[r] = "duplicate" <=> attempt[r] = "duplicate"
  BY <1>3
<1>7. \A k \in Keys : raw[k] # NoRun => raw[k] \in Requests
  BY DEF IInv, TypeOK
<1>8. LedgerMatchesRaw'
  BY <1>2, <1>6, <1>7 DEF IInv, LedgerMatchesRaw, Stored
<1> QED BY <1>4, <1>5, <1>8 DEF IInv

\* IInv is inductive: it holds initially and every step of the ledger keeps it.
THEOREM Invariance == Spec => []IInv
<1>1. Init => IInv
  BY LedgerAssumption
     DEF Init, IInv, TypeOK, LedgerMatchesRaw, AnswersAgree, Errors, Ended, Stored
<1>2. IInv /\ [Next]_vars => IInv'
  <2> SUFFICES ASSUME IInv, [Next]_vars PROVE IInv'
    OBVIOUS
  <2>1. CASE ReconcileStaleAttempts
    BY <2>1, ReconcileStep
  <2>2. ASSUME NEW r \in Requests,
               \/ Begin(r) \/ BeginFails(r) \/ Claim(r) \/ ClaimFails(r) \/ Respond(r)
               \/ RollBack(r) \/ RollBackRaises(r) \/ Crash(r)
        PROVE  IInv'
    BY <2>2, HandlerStep
  <2>3. ASSUME NEW r \in Requests, Accept(r) \/ AcceptExisting(r)
        PROVE  IInv'
    BY <2>3, CommitStep
  <2>4. ASSUME NEW r \in Requests, Reject(r)
        PROVE  IInv'
    BY <2>4, RejectedStep DEF Reject, IInv, AnswersAgree, Errors
  <2>5. ASSUME NEW r \in Requests, RejectAfterRollBack(r)
        PROVE  IInv'
    <3>1. error[r] \in Errors /\ (error[r] = "rejected" => attempt[r] \notin Stored)
      BY <2>5 DEF RejectAfterRollBack, IInv, AnswersAgree, TypeOK
    <3> QED BY <2>5, <3>1, RejectedStep DEF RejectAfterRollBack
  <2>6. CASE UNCHANGED vars
    BY <2>6 DEF vars, IInv, TypeOK, LedgerMatchesRaw, AnswersAgree
  <2> QED BY <2>1, <2>2, <2>3, <2>4, <2>5, <2>6 DEF Next, Handle
<1> QED BY <1>1, <1>2, PTL DEF Spec

\* The columns of the ledger keep their types: among others, a rolled-back
\* handler always has an error to file.
THEOREM TypeCorrect == Spec => []TypeOK
<1>1. IInv => TypeOK
  BY DEF IInv
<1> QED BY <1>1, Invariance, PTL

\* The ledger and the raw layer agree in every reachable state.
THEOREM LedgerAgrees == Spec => []LedgerMatchesRaw
<1>1. IInv => LedgerMatchesRaw
  BY DEF IInv
<1> QED BY <1>1, Invariance, PTL

\* A 202 is always backed by a stored attempt, a 4xx never.
THEOREM AnswersAreTrue == Spec => []AnswerHolds
<1>1. IInv => AnswerHolds
  BY DEF IInv, AnswersAgree, AnswerHolds
<1> QED BY <1>1, Invariance, PTL

\* What a step can do to an attempt and to the raw layer.
LEMMA StepEffect ==
  ASSUME IInv, [Next]_vars
  PROVE  /\ \A q \in Requests : attempt[q] \in Ended =>
               attempt'[q] = attempt[q] /\ run_id'[q] = run_id[q]
         /\ \A k \in Keys : raw[k] # NoRun => raw'[k] = raw[k]
<1>1. ASSUME NEW r \in Requests, Begin(r) \/ BeginFails(r)
      PROVE  /\ run_id' = run_id /\ raw' = raw
             /\ \A q \in Requests : attempt[q] \in Ended => attempt'[q] = attempt[q]
  <2>1. attempt[r] = "none"
    BY <1>1 DEF Begin, BeginFails, IInv, AnswersAgree
  <2> QED BY <1>1, <2>1 DEF Begin, BeginFails, IInv, TypeOK, Ended, Stored
<1>2. ASSUME NEW r \in Requests,
             \/ Claim(r) \/ ClaimFails(r) \/ Respond(r) \/ RollBack(r)
             \/ RollBackRaises(r) \/ Crash(r)
      PROVE  run_id' = run_id /\ raw' = raw /\ attempt' = attempt
  BY <1>2 DEF Claim, ClaimFails, Respond, RollBack, RollBackRaises, Crash
<1>3. ASSUME NEW r \in Requests, NEW code \in Errors, Rejected(r, code)
      PROVE  /\ run_id' = run_id /\ raw' = raw
             /\ \A q \in Requests : attempt[q] \in Ended => attempt'[q] = attempt[q]
  BY <1>3 DEF Rejected, IInv, TypeOK, Ended, Stored
<1>4. ASSUME NEW r \in Requests, Reject(r) \/ RejectAfterRollBack(r)
      PROVE  \E code \in Errors : Rejected(r, code)
  BY <1>4 DEF Reject, RejectAfterRollBack, IInv, TypeOK, Errors
<1>5. ASSUME NEW r \in Requests, Accept(r) \/ AcceptExisting(r)
      PROVE  /\ \A q \in Requests : attempt[q] \in Ended =>
                   attempt'[q] = attempt[q] /\ run_id'[q] = run_id[q]
             /\ \A k \in Keys : raw[k] # NoRun => raw'[k] = raw[k]
  BY <1>5, LedgerAssumption
     DEF Accept, AcceptExisting, Commit, IInv, TypeOK, Ended, Stored
<1>6. ASSUME ReconcileStaleAttempts
      PROVE  /\ run_id' = run_id /\ raw' = raw
             /\ \A q \in Requests : attempt[q] \in Ended => attempt'[q] = attempt[q]
  BY <1>6 DEF ReconcileStaleAttempts, Abandoned, Ended, Stored
<1>7. CASE UNCHANGED vars
  BY <1>7 DEF vars
<1> QED BY <1>1, <1>2, <1>3, <1>4, <1>5, <1>6, <1>7 DEF Next, Handle

\* Ended attempts, their runs and stored payloads are never rewritten.
THEOREM EndedStays == Spec => EndedIsFinal
<1>1. IInv /\ [Next]_vars =>
        [/\ \A r \in Requests : attempt[r] \in Ended =>
              attempt'[r] = attempt[r] /\ run_id'[r] = run_id[r]
         /\ \A k \in Keys : raw[k] # NoRun => raw'[k] = raw[k]]_vars
  BY StepEffect
<1> QED BY <1>1, Invariance, PTL DEF Spec, EndedIsFinal

-----------------------------------------------------------------------------
(* The ledger implements IngestPromise. *)

\* A handler that gives an answer has given none before.
LEMMA TellStep ==
  ASSUME IInv, NEW r \in Requests, NEW code, pc[r] # "done",
         Answered(r, code), raw' = raw,
         \/ code \in {"unavailable", "internal"}
         \/ code = "rejected" /\ attempt[r] \notin Stored
         \/ code = "accepted" /\ attempt[r] \in Stored
  PROVE  Promise!Next
<1>1. answer[r] = "none" /\ answer' = [answer EXCEPT ![r] = code]
  BY DEF Answered, IInv, AnswersAgree
<1>2. Promise!Tell(r, code)
  BY <1>1 DEF Promise!Tell
<1>3. CASE code \in {"unavailable", "internal"}
  BY <1>2, <1>3 DEF Promise!Next, Promise!TellRetry
<1>4. CASE code = "rejected" /\ attempt[r] \notin Stored
  <2>1. raw[Key[r]] # r
    BY <1>4, LedgerAssumption DEF IInv, LedgerMatchesRaw, Stored
  <2> QED BY <1>2, <1>4, <2>1 DEF Promise!Next, Promise!TellRejected
<1>5. CASE code = "accepted" /\ attempt[r] \in Stored
  <2>1. raw[Key[r]] # NoRun /\ Body[raw[Key[r]]] = Body[r]
    BY <1>5, LedgerAssumption DEF IInv, LedgerMatchesRaw, Stored
  <2> QED BY <1>2, <1>5, <2>1 DEF Promise!Next, Promise!TellAccepted, Promise!SameContent
<1> QED BY <1>3, <1>4, <1>5

\* Every step of the ledger is a step of the promise or leaves it alone.
LEMMA PromiseStep ==
  ASSUME IInv, [Next]_vars
  PROVE  [Promise!Next]_Promise!vars
<1> USE DEF Promise!vars
<1>1. ASSUME NEW r \in Requests,
             Begin(r) \/ Claim(r) \/ RollBack(r) \/ Crash(r)
      PROVE  raw' = raw /\ answer' = answer
  BY <1>1 DEF Begin, Claim, RollBack, Crash
<1>2. ASSUME NEW r \in Requests, BeginFails(r) \/ ClaimFails(r) \/ RollBackRaises(r)
      PROVE  Promise!Next
  <2>1. PICK code \in {"unavailable", "internal"} : Answered(r, code)
    BY <1>2 DEF BeginFails, ClaimFails, RollBackRaises
  <2>2. pc[r] # "done" /\ raw' = raw
    BY <1>2 DEF BeginFails, ClaimFails, RollBackRaises
  <2> QED BY <2>1, <2>2, TellStep
<1>3. ASSUME NEW r \in Requests, Respond(r)
      PROVE  Promise!Next
  <2>1. attempt[r] \in Stored /\ pc[r] # "done"
    BY <1>3 DEF Respond, IInv, AnswersAgree
  <2> QED BY <1>3, <2>1, TellStep DEF Respond
<1>4. ASSUME NEW r \in Requests, NEW code \in Errors, Rejected(r, code), pc[r] # "done",
             code = "rejected" => attempt[r] \notin Stored
      PROVE  Promise!Next
  <2>1. PICK told \in {code, "internal"} : Answered(r, told)
    BY <1>4 DEF Rejected
  <2>2. raw' = raw
    BY <1>4 DEF Rejected
  <2> QED BY <1>4, <2>1, <2>2, TellStep DEF Errors
<1>5. ASSUME NEW r \in Requests, Reject(r) \/ RejectAfterRollBack(r)
      PROVE  Promise!Next
  <2>1. CASE Reject(r)
    BY <2>1, <1>4 DEF Reject, Errors, IInv, AnswersAgree
  <2>2. CASE RejectAfterRollBack(r)
    <3>1. error[r] \in Errors /\ (error[r] = "rejected" => attempt[r] \notin Stored)
      BY <2>2 DEF RejectAfterRollBack, IInv, AnswersAgree, TypeOK
    <3> QED BY <2>2, <3>1, <1>4 DEF RejectAfterRollBack
  <2> QED BY <1>5, <2>1, <2>2
<1>6. ASSUME NEW r \in Requests, Accept(r)
      PROVE  Promise!Next
  <2>1. answer[r] = "none" /\ answer' = answer
    BY <1>6 DEF Accept, Commit, IInv, AnswersAgree
  <2>2. Promise!Keep(r)
    BY <1>6, <2>1 DEF Accept, Promise!Keep
  <2> QED BY <2>2 DEF Promise!Next
<1>7. ASSUME NEW r \in Requests, AcceptExisting(r)
      PROVE  raw' = raw /\ answer' = answer
  BY <1>7 DEF AcceptExisting, Commit
<1>8. ASSUME ReconcileStaleAttempts
      PROVE  raw' = raw /\ answer' = answer
  BY <1>8 DEF ReconcileStaleAttempts
<1>9. CASE UNCHANGED vars
  BY <1>9 DEF vars
<1> QED BY <1>1, <1>2, <1>3, <1>5, <1>6, <1>7, <1>8, <1>9 DEF Next, Handle

\* The attempt ledger implements the promise the ingest endpoint makes.
THEOREM Refinement == Spec => KeepsPromise
<1>1. Init => Promise!Init
  BY DEF Init, Promise!Init
<1>2. IInv /\ [Next]_vars => [Promise!Next]_Promise!vars
  BY PromiseStep
<1> QED BY <1>1, <1>2, Invariance, PTL DEF Spec, KeepsPromise, Promise!Spec

---------------------------------------------------------------------------
(* RawRetention: the inductive invariant. *)

\* What a pass relies on: it deletes the row it decided on, a payload that is
\* deleted and not committed is its own, and while it is at work every run
\* that is not over came after its snapshot.
PassAgrees ==
    /\ sweep = "deleted" <=> payload = "deleting"
    /\ sweep = "decided" => payload = "kept"
    /\ sweep # "idle" =>
          \A r \in RunIds : rawRuns[r].status \in {"queued", "running"} => r \in raced
    /\ \A q \in Requesters : requests[q].pc = "inserted" => requests[q].new \in RunIds

RawInv == RawTypeOK /\ RawSound /\ PassAgrees

\* A payload starts with one run, no rerun and no pass.
LEMMA RawStart == RawInit => RawInv
<1> SUFFICES ASSUME RawInit PROVE RawInv OBVIOUS
<1> USE RetentionAssumption
<1>1. RawTypeOK
  <2>1. FirstRun \in RunRows /\ NoRawRun \in RunRows
    BY DEF FirstRun, NoRawRun, RunRows
  <2>2. Idle \in RequestRows
    BY DEF Idle, RequestRows
  <2>3. rawRuns \in [RunIds -> RunRows] /\ requests \in [Requesters -> RequestRows]
    BY <2>1, <2>2 DEF RawInit
  <2>4. faults \in 0 .. MaxPassFaults
    BY DEF RawInit
  <2> QED BY <2>3, <2>4 DEF RawInit, RawTypeOK
<1>2. RawSound
  BY DEF RawInit, RawSound, RetentionSpares, ReferencesHold, Exists, Holding, FirstRun, NoRawRun, Idle
<1>3. PassAgrees
  BY DEF RawInit, PassAgrees, Idle
<1> QED BY <1>1, <1>2, <1>3 DEF RawInv

\* A step of one request that only moves that request on, and not into an
\* insert, keeps the invariant when it takes the provider lock alone.
LEMMA QuietRequest ==
  ASSUME RawInv, NEW q \in Requesters, NEW row, requests' = [requests EXCEPT ![q] = row],
         row \in [pc : {"idle", "look", "read", "locked"}, todo : SUBSET RunIds, new : 0 .. MaxRuns],
         row.pc = "locked" => \A o \in Requesters : ~Holding(o),
         UNCHANGED <<payload, expired, rawRuns, sweep, faults, raced>>
  PROVE  RawInv'
<1>1. \A o \in Requesters : requests'[o] = IF o = q THEN row ELSE requests[o]
  BY DEF RawInv, RawTypeOK
<1>2. RawTypeOK'
  BY DEF RawInv, RawTypeOK, RequestRows
<1>3. RetentionSpares'
  BY DEF RawInv, RawSound, RetentionSpares
<1>4. ReferencesHold'
  BY <1>1 DEF RawInv, RawSound, ReferencesHold, Exists, Holding
<1>5. PassAgrees'
  BY <1>1 DEF RawInv, PassAgrees
<1> QED BY <1>2, <1>3, <1>4, <1>5 DEF RawInv, RawSound

\* What is left of a request after a commit or a rollback.
LEMMA PoppedRow ==
  ASSUME RawInv, NEW q \in Requesters
  PROVE  \E row \in [pc : {"idle", "look"}, todo : SUBSET RunIds, new : 0 .. MaxRuns] :
            Popped(q) = [requests EXCEPT ![q] = row]
<1>1. requests[q].todo \subseteq RunIds
  BY DEF RawInv, RawTypeOK, RequestRows
<1>2. Rest(q) \subseteq RunIds
  BY <1>1 DEF Rest
<1>3. Idle \in [pc : {"idle", "look"}, todo : SUBSET RunIds, new : 0 .. MaxRuns]
  BY RetentionAssumption DEF Idle
<1>4. Looking(Rest(q)) \in [pc : {"idle", "look"}, todo : SUBSET RunIds, new : 0 .. MaxRuns]
  BY <1>2, RetentionAssumption DEF Looking
<1> QED BY <1>3, <1>4 DEF Popped

\* A request up to its insert: asking, looking, locking, refusing.
LEMMA RequestSteps ==
  ASSUME RawInv, NEW q \in Requesters,
         Request(q) \/ Look(q) \/ LockProvider(q) \/ Refuse(q)
  PROVE  RawInv'
<1> USE RetentionAssumption
<1>1. ASSUME NEW todo \in SUBSET RunIds, AskRerun(q, todo)
      PROVE  RawInv'
  <2>1. /\ Looking(todo).pc = "look"
        /\ Looking(todo) \in
             [pc : {"idle", "look", "read", "locked"}, todo : SUBSET RunIds, new : 0 .. MaxRuns]
    BY DEF Looking
  <2> QED BY <1>1, <2>1, QuietRequest DEF AskRerun
<1>2. CASE Request(q)
  BY <1>1, <1>2 DEF Request, BulkOf
<1>3. CASE requests' = Popped(q) /\ UNCHANGED <<payload, expired, rawRuns, sweep, faults, raced>>
  BY <1>3, PoppedRow, QuietRequest
<1>4. ASSUME NEW s \in {"read", "locked"}, requests' = [requests EXCEPT ![q].pc = s],
             s = "locked" => \A o \in Requesters : ~Holding(o),
             UNCHANGED <<payload, expired, rawRuns, sweep, faults, raced>>
      PROVE  RawInv'
  <2>1. [requests[q] EXCEPT !.pc = s] \in
          [pc : {"idle", "look", "read", "locked"}, todo : SUBSET RunIds, new : 0 .. MaxRuns]
    BY <1>4 DEF RawInv, RawTypeOK, RequestRows
  <2>2. requests' = [requests EXCEPT ![q] = [requests[q] EXCEPT !.pc = s]]
    BY <1>4
  <2>3. [requests[q] EXCEPT !.pc = s].pc = s
    BY DEF RawInv, RawTypeOK
  <2> QED BY <1>4, <2>1, <2>2, <2>3, QuietRequest
<1>5. CASE Look(q)
  BY <1>5, <1>3, <1>4 DEF Look
<1>6. CASE LockProvider(q)
  BY <1>6, <1>4 DEF LockProvider
<1>7. CASE Refuse(q)
  BY <1>7, <1>3 DEF Refuse
<1> QED BY <1>2, <1>5, <1>6, <1>7

\* The foreign key makes the insert hold the row of a payload that is kept.
LEMMA InsertStep ==
  ASSUME RawInv, NEW q \in Requesters, InsertRun(q)
  PROVE  RawInv'
<1>1. CASE payload = "kept"
  <2>1. PICK r \in RunIds : /\ ~Exists(r)
                            /\ requests' = [requests EXCEPT ![q].pc = "inserted", ![q].new = r]
    BY <1>1 DEF InsertRun
  <2>2. r \in 0 .. MaxRuns
    BY RetentionAssumption DEF RunIds
  <2>3. requests[q] \in RequestRows
    BY DEF RawInv, RawTypeOK
  <2>4. \A o \in Requesters : o # q => requests'[o] = requests[o]
    BY <2>1 DEF RawInv, RawTypeOK
  <2>5. requests'[q].pc = "inserted" /\ requests'[q].new = r
    BY <2>1, <2>3 DEF RawInv, RawTypeOK
  <2>6. UNCHANGED <<payload, expired, rawRuns, sweep, faults, raced>> /\ requests[q].pc = "locked"
    BY DEF InsertRun
  <2>7. RawTypeOK'
    BY <2>1, <2>2, <2>3, <2>6 DEF RawInv, RawTypeOK, RequestRows
  <2>8. RetentionSpares'
    BY <2>6 DEF RawInv, RawSound, RetentionSpares
  <2>9. ReferencesHold'
    BY <1>1, <2>1, <2>4, <2>5, <2>6 DEF RawInv, RawSound, ReferencesHold, Exists, Holding
  <2>10. PassAgrees'
    BY <2>4, <2>5, <2>6 DEF RawInv, PassAgrees
  <2> QED BY <2>7, <2>8, <2>9, <2>10 DEF RawInv, RawSound
<1>2. CASE payload # "kept"
  <2>1. requests' = Popped(q) /\ UNCHANGED <<payload, expired, rawRuns, sweep, faults, raced>>
    BY <1>2 DEF InsertRun
  <2> QED BY <2>1, PoppedRow, QuietRequest
<1> QED BY <1>1, <1>2

\* The commit of a rerun: its run refers to a payload that is kept, and a pass
\* that has decided by then has not seen it.
LEMMA CommitRunStep ==
  ASSUME RawInv, NEW q \in Requesters, CommitRun(q)
  PROVE  RawInv'
<1> DEFINE n == requests[q].new
<1>1. PICK row \in [pc : {"idle", "look"}, todo : SUBSET RunIds, new : 0 .. MaxRuns] :
        requests' = [requests EXCEPT ![q] = row]
  BY PoppedRow DEF CommitRun
<1>2. \A o \in Requesters : requests'[o] = IF o = q THEN row ELSE requests[o]
  BY <1>1 DEF RawInv, RawTypeOK
<1>3. requests[q].pc = "inserted" /\ payload = "kept" /\ n \in RunIds
  BY DEF CommitRun, RawInv, PassAgrees, RawSound, ReferencesHold
<1>4. rawRuns' = [rawRuns EXCEPT ![n] = [NoRawRun EXCEPT !.status = "queued", !.linked = TRUE]]
  BY DEF CommitRun
<1>5. /\ \A r \in RunIds : r # n => rawRuns'[r] = rawRuns[r]
      /\ rawRuns'[n].status = "queued" /\ rawRuns'[n].linked
  BY <1>3, <1>4 DEF RawInv, RawTypeOK, NoRawRun
<1>6. UNCHANGED <<payload, expired, sweep, faults>>
  BY DEF CommitRun
<1>7. raced \subseteq raced' /\ raced' \subseteq RunIds /\ (sweep = "decided" => n \in raced')
  BY <1>3 DEF CommitRun, RawInv, RawTypeOK
<1>8. RawTypeOK'
  BY <1>1, <1>3, <1>4, <1>6, <1>7 DEF RawInv, RawTypeOK, RunRows, RequestRows, TerminalRuns, NoRawRun
<1>9. RetentionSpares'
  BY <1>5, <1>7 DEF RawInv, RawSound, RetentionSpares
<1>10. \A o \in Requesters : o # q => ~Holding(o)
  BY <1>3 DEF RawInv, RawSound, ReferencesHold, Holding
<1>11. ReferencesHold'
  BY <1>2, <1>3, <1>5, <1>6, <1>10 DEF RawInv, RawSound, ReferencesHold, Exists, Holding
<1>12. sweep # "deleted"
  BY <1>3 DEF RawInv, PassAgrees
<1>13. PassAgrees'
  BY <1>2, <1>5, <1>6, <1>7, <1>12 DEF RawInv, RawTypeOK, PassAgrees
<1> QED BY <1>8, <1>9, <1>11, <1>13 DEF RawInv, RawSound

\* The work on one run changes neither its reference nor, from an end, its status.
LEMMA RunSteps ==
  ASSUME RawInv, NEW r \in RunIds, RunStep(r)
  PROVE  RawInv'
<1> DEFINE old == rawRuns[r]
           new == rawRuns'[r]
<1>1. UNCHANGED <<payload, expired, requests, sweep, faults, raced>>
  BY DEF RunStep, ExecuteRerun, Publish, BeginRun, EndRun, RunAges
<1>2. \A o \in RunIds : o # r => rawRuns'[o] = rawRuns[o]
  BY DEF RunStep, ExecuteRerun, Publish, BeginRun, EndRun, RunAges, RawInv, RawTypeOK
<1>3. /\ new.linked = old.linked
      /\ new.status = "none" <=> old.status = "none"
      /\ new.status \in {"queued", "running"} => old.status \in {"queued", "running"}
      /\ RawTypeOK'
  <2> rawRuns \in [RunIds -> RunRows]
    BY DEF RawInv, RawTypeOK
  <2>1. CASE ExecuteRerun(r)
    <3>1. rawRuns' \in [RunIds -> RunRows]
      BY <2>1 DEF ExecuteRerun, RunRows, TerminalRuns
    <3>2. RawTypeOK'
      BY <1>1, <3>1 DEF RawInv, RawTypeOK
    <3> QED BY <2>1, <3>2 DEF ExecuteRerun, RunRows, TerminalRuns
  <2>2. CASE Publish(r)
    <3>1. rawRuns' \in [RunIds -> RunRows]
      BY <2>2 DEF Publish, RunRows, TerminalRuns
    <3>2. RawTypeOK'
      BY <1>1, <3>1 DEF RawInv, RawTypeOK
    <3> QED BY <2>2, <3>2 DEF Publish, RunRows, TerminalRuns
  <2>3. CASE BeginRun(r)
    <3>1. rawRuns' \in [RunIds -> RunRows]
      BY <2>3 DEF BeginRun, RunRows, TerminalRuns
    <3>2. RawTypeOK'
      BY <1>1, <3>1 DEF RawInv, RawTypeOK
    <3> QED BY <2>3, <3>2 DEF BeginRun, RunRows, TerminalRuns
  <2>4. CASE EndRun(r)
    <3>1. rawRuns' \in [RunIds -> RunRows]
      <4>1. PICK how \in {"done", "failed"} :
              rawRuns' = [rawRuns EXCEPT ![r].status = how, ![r].job = "ended"]
        BY <2>4 DEF EndRun
      <4> QED BY <4>1 DEF RunRows, TerminalRuns
    <3>2. RawTypeOK'
      BY <1>1, <3>1 DEF RawInv, RawTypeOK
    <3> QED BY <2>4, <3>2 DEF EndRun, RunRows, TerminalRuns
  <2>5. CASE RunAges(r)
    <3>1. rawRuns' \in [RunIds -> RunRows]
      BY <2>5 DEF RunAges, RunRows, TerminalRuns
    <3>2. RawTypeOK'
      BY <1>1, <3>1 DEF RawInv, RawTypeOK
    <3> QED BY <2>5, <3>2 DEF RunAges, RunRows, TerminalRuns
  <2> QED BY <2>1, <2>2, <2>3, <2>4, <2>5 DEF RunStep
<1> HIDE DEF old, new
<1>4. \A o \in RunIds : /\ rawRuns'[o].linked = rawRuns[o].linked
                        /\ rawRuns'[o].status = "none" <=> rawRuns[o].status = "none"
                        /\ rawRuns'[o].status \in {"queued", "running"} =>
                              rawRuns[o].status \in {"queued", "running"}
  BY <1>2, <1>3 DEF old, new
<1>5. RetentionSpares'
  BY <1>1, <1>4 DEF RawInv, RawSound, RetentionSpares
<1>6. ReferencesHold'
  BY <1>1, <1>4 DEF RawInv, RawSound, ReferencesHold, PassAgrees, Exists, Holding
<1>7. PassAgrees'
  BY <1>1, <1>4 DEF RawInv, PassAgrees
<1> QED BY <1>3, <1>5, <1>6, <1>7 DEF RawInv, RawSound

\* A pass: what it decides on a snapshot, deletes, commits or rolls back.
LEMMA PassSteps ==
  ASSUME RawInv, PassStep \/ PassFails \/ PayloadExpires
  PROVE  RawInv'
<1>1. UNCHANGED <<requests, raced>>
  BY DEF PassStep, PassDecides, PassDeletes, PassCommits, PassFails, PayloadExpires
<1>2. CASE PassDecides
  <2>1. \A r \in RunIds : rawRuns[r].linked /\ Exists(r) => rawRuns[r].status \in TerminalRuns
    BY <1>2 DEF PassDecides, Disposable, Refer
  <2>2. \A r \in RunIds : Exists(r) => rawRuns[r].linked
    BY <1>2 DEF PassDecides, RawInv, RawSound, ReferencesHold
  <2>3. \A r \in RunIds : rawRuns[r].status \notin {"queued", "running"}
    BY <2>1, <2>2 DEF TerminalRuns, Exists
  <2> QED BY <1>1, <1>2, <2>3 DEF PassDecides, RawInv, RawTypeOK, RawSound, RetentionSpares,
             ReferencesHold, PassAgrees, Exists, Holding
<1>3. CASE PassDeletes
  BY <1>1, <1>3 DEF PassDeletes, RawInv, RawTypeOK, RawSound, RetentionSpares,
     ReferencesHold, PassAgrees, Exists, Holding
<1>4. CASE PassCommits
  <2>1. \A r \in RunIds : rawRuns'[r].status = rawRuns[r].status /\ ~rawRuns'[r].linked
    BY <1>4 DEF PassCommits, RawInv, RawTypeOK, RunRows
  <2>2. RawTypeOK'
    BY <1>1, <1>4 DEF PassCommits, RawInv, RawTypeOK, RunRows
  <2>3. \A q \in Requesters : requests[q].pc # "inserted"
    BY <1>4 DEF PassCommits, RawInv, RawSound, ReferencesHold, PassAgrees
  <2>4. RetentionSpares'
    BY <1>1, <1>4, <2>1 DEF PassCommits, RawInv, PassAgrees, RetentionSpares
  <2>5. ReferencesHold'
    BY <1>1, <1>4, <2>1, <2>3 DEF PassCommits, RawInv, RawSound, ReferencesHold, Exists, Holding
  <2>6. PassAgrees'
    BY <1>1, <1>4, <2>3 DEF PassCommits, RawInv, PassAgrees
  <2> QED BY <2>2, <2>4, <2>5, <2>6 DEF RawInv, RawSound
<1>5. CASE PassFails
  <2>1. payload # "gone"
    BY <1>5 DEF PassFails, RawInv, RawTypeOK, PassAgrees
  <2> QED BY <1>1, <1>5, <2>1, RetentionAssumption DEF PassFails, RawInv, RawTypeOK, RawSound,
             RetentionSpares, ReferencesHold, PassAgrees, Exists, Holding
<1>6. CASE PayloadExpires
  BY <1>1, <1>6 DEF PayloadExpires, RawInv, RawTypeOK, RawSound, RetentionSpares,
     ReferencesHold, PassAgrees, Exists, Holding
<1> QED BY <1>2, <1>3, <1>4, <1>5, <1>6 DEF PassStep

\* The retained payload, its runs, the reruns and the pass keep RawInv.
THEOREM RawInvariance == RawSpec => []RawInv
<1>1. RawInit => RawInv
  BY RawStart
<1>2. RawInv /\ [RawNext]_rawVars => RawInv'
  <2> SUFFICES ASSUME RawInv, [RawNext]_rawVars PROVE RawInv' OBVIOUS
  <2>1. CASE UNCHANGED rawVars
    BY <2>1 DEF rawVars, RawInv, RawTypeOK, RawSound, RetentionSpares, ReferencesHold,
       PassAgrees, Exists, Holding
  <2>2. ASSUME NEW q \in Requesters, Request(q) \/ RequestStep(q)
        PROVE  RawInv'
    BY <2>2, RequestSteps, InsertStep, CommitRunStep DEF RequestStep
  <2> QED BY <2>1, <2>2, RunSteps, PassSteps DEF RawNext
<1> QED BY <1>1, <1>2, PTL DEF RawSpec

\* Every variable of retention keeps its type (the rows of ingestion_run, the
\* transactions of rerun_from_raw, the pass of cleanup_raw.py).
THEOREM RawTypeCorrect == RawSpec => []RawTypeOK
<1>1. RawInv => RawTypeOK
  BY DEF RawInv
<1> QED BY <1>1, RawInvariance, PTL

\* However reruns and retention passes interleave, only a run committed after
\* the snapshot of a pass loses its payload to it, and no run refers to a
\* payload that is gone (cleanup_expired_raw against rerun_from_raw).
THEOREM RetentionIsSound == RawSpec => []RawSound
<1>1. RawInv => RawSound
  BY DEF RawInv
<1> QED BY <1>1, RawInvariance, PTL

---------------------------------------------------------------------------
(* A historical backfill (HistoricalItems). *)

\* The members of a date are worked on in order: one has a body only when all
\* before it have good runs.
InTurn ==
    \A d \in Dates : \A i, j \in DOMAIN HistMembers :
        i < j /\ sent[d][HistMembers[j]] # "none" => sent[d][HistMembers[i]] = "good"

\* A worker stands at a member of an item, behind good ones; it asks and
\* prepares where there is no body, has reserved the attempt it asks with, and
\* reports an outcome when no body is left to drain.
Placed(w) ==
    /\ w \in WorkerRows
    /\ w.pc # "idle" => w.item \in Dates
    /\ w.pc \in {"member", "ask", "prepare"} =>
          /\ w.at \in DOMAIN HistMembers
          /\ \A i \in DOMAIN HistMembers : i < w.at => sent[w.item][HistMembers[i]] = "good"
    /\ w.pc \in {"ask", "prepare"} => sent[w.item][HistMembers[w.at]] = "none"
    /\ w.pc = "ask" => dispatches[w.item][HistMembers[w.at]] < tries[w.item][HistMembers[w.at]]
    /\ w.pc = "complete" /\ w.answer # "manual" => ~Pending(w.item)

\* A member that has no body was asked for no more often than the journal says.
Charged ==
    \A d \in Dates, m \in MemberKeys :
        dispatches[d][m] <= IF sent[d][m] = "none" THEN tries[d][m] ELSE MaxTries

\* The request says of its dates what they say themselves.
RequestOK ==
    /\ \A d \in Dates : items[d] = "completed" => \A m \in MemberKeys : sent[d][m] = "good"
    /\ request = "completed" => \A d \in Dates : items[d] \in DoneItem
    /\ request \in {"failed", "cancelled"} => \A d \in Dates : items[d] \notin LiveItem

HistInv == HistTypeOK /\ InTurn /\ Placed(worker) /\ Charged /\ RequestOK

---------------------------------------------------------------------------
(* The worker's moves. *)

\* The member a worker stands at is one of the date's.
LEMMA MemberKey ==
  ASSUME NEW i \in DOMAIN HistMembers
  PROVE  HistMembers[i] \in MemberKeys
BY DEF MemberKeys

\* Where a worker goes, its item, place and answer stay.
LEMMA WorkerMoves ==
  ASSUME worker \in WorkerRows,
         NEW x \in {"idle", "claim", "member", "ask", "prepare", "drain", "complete", "close", "settle"}
  PROVE  /\ Then(x) \in WorkerRows /\ Then(x).pc = x /\ Then(x).item = Item /\ Then(x).at = worker.at
         /\ Then(x).answer = worker.answer
BY DEF Then, WorkerRows, Item

\* The places a worker goes to with a first member or an answer.
LEMMA WorkerTurns ==
  ASSUME worker \in WorkerRows
  PROVE  /\ [Then("member") EXCEPT !.at = 1] \in WorkerRows /\ [Then("member") EXCEPT !.at = 1].pc = "member"
         /\ [Then("member") EXCEPT !.at = 1].item = Item /\ [Then("member") EXCEPT !.at = 1].at = 1
         /\ [Then("complete") EXCEPT !.answer = "completed"] \in WorkerRows
         /\ [Then("complete") EXCEPT !.answer = "completed"].pc = "complete"
         /\ [Then("complete") EXCEPT !.answer = "completed"].item = Item
         /\ [Then("close") EXCEPT !.answer = "cancelled"] \in WorkerRows
         /\ [Then("close") EXCEPT !.answer = "cancelled"].pc = "close"
         /\ [Then("close") EXCEPT !.answer = "cancelled"].item = Item
<1>1. /\ Then("member") \in WorkerRows /\ Then("member").pc = "member" /\ Then("member").item = Item
      /\ Then("complete") \in WorkerRows /\ Then("complete").pc = "complete" /\ Then("complete").item = Item
      /\ Then("close") \in WorkerRows /\ Then("close").pc = "close" /\ Then("close").item = Item
  BY DEF Then, WorkerRows, Item
<1>2. /\ 1 \in 0 .. Len(HistMembers)
      /\ "completed" \in {"none", "completed", "failed", "manual", "retry", "cancelled"}
      /\ "cancelled" \in {"none", "completed", "failed", "manual", "retry", "cancelled"}
  BY BackfillAssumption
<1>3. \A w \in WorkerRows : \A n \in 0 .. Len(HistMembers) :
        /\ [w EXCEPT !.at = n] \in WorkerRows /\ [w EXCEPT !.at = n].pc = w.pc
        /\ [w EXCEPT !.at = n].item = w.item /\ [w EXCEPT !.at = n].at = n
  BY SMT DEF WorkerRows
<1>4. \A w \in WorkerRows : \A a \in {"none", "completed", "failed", "manual", "retry", "cancelled"} :
        /\ [w EXCEPT !.answer = a] \in WorkerRows /\ [w EXCEPT !.answer = a].pc = w.pc
        /\ [w EXCEPT !.answer = a].item = w.item
  BY SMT DEF WorkerRows
<1>5. /\ [Then("member") EXCEPT !.at = 1] \in WorkerRows /\ [Then("member") EXCEPT !.at = 1].pc = "member"
      /\ [Then("member") EXCEPT !.at = 1].item = Item /\ [Then("member") EXCEPT !.at = 1].at = 1
  BY <1>1, <1>2, <1>3, Zenon
<1>6. /\ [Then("complete") EXCEPT !.answer = "completed"] \in WorkerRows
      /\ [Then("complete") EXCEPT !.answer = "completed"].pc = "complete"
      /\ [Then("complete") EXCEPT !.answer = "completed"].item = Item
  BY <1>1, <1>2, <1>4, Zenon
<1>7. /\ [Then("close") EXCEPT !.answer = "cancelled"] \in WorkerRows
      /\ [Then("close") EXCEPT !.answer = "cancelled"].pc = "close"
      /\ [Then("close") EXCEPT !.answer = "cancelled"].item = Item
  BY <1>1, <1>2, <1>4, Zenon
<1> QED BY <1>5, <1>6, <1>7, Zenon

\* Giving up, giving back and giving over.
LEMMA Reports ==
  ASSUME worker \in WorkerRows
  PROVE  /\ Fail \in WorkerRows /\ Fail.pc = "complete" /\ Fail.item = Item
         /\ FailManual \in WorkerRows /\ FailManual.pc = "complete" /\ FailManual.item = Item
         /\ FailManual.answer = "manual"
         /\ Defer \in WorkerRows /\ Defer.pc = "close" /\ Defer.item = Item
         /\ Resting \in WorkerRows /\ Resting.pc = "idle"
<1>1. Fail \in WorkerRows /\ Fail.pc = "complete" /\ Fail.item = Item
  BY DEF Fail, WorkerRows, Item
<1>2. FailManual \in WorkerRows /\ FailManual.pc = "complete" /\ FailManual.item = Item
         /\ FailManual.answer = "manual"
  BY DEF FailManual, WorkerRows, Item
<1>3. Defer \in WorkerRows /\ Defer.pc = "close" /\ Defer.item = Item
  BY DEF Defer, WorkerRows, Item
<1>4. Resting \in WorkerRows /\ Resting.pc = "idle"
  BY BackfillAssumption DEF Resting, WorkerRows
<1> QED BY <1>1, <1>2, <1>3, <1>4

\* Where nothing is asked, prepared or reported, any place of the item will do.
LEMMA Elsewhere ==
  ASSUME NEW w \in WorkerRows, w.pc \in {"idle", "claim", "drain", "close", "settle"},
         w.pc # "idle" => w.item \in Dates
  PROVE  Placed(w)
BY DEF Placed

\* Behind a member without a body there is none; before it all runs are good.
LEMMA NothingPending ==
  ASSUME HistInv, worker.pc \in {"member", "ask"}, BodyOf(Member) \in {"none", "good", "bad"},
         BodyOf(Member) = "good" => worker.at = Len(HistMembers)
  PROVE  ~Pending(Item)
<1>1. worker.at \in DOMAIN HistMembers /\ Item \in Dates
      /\ \A i \in DOMAIN HistMembers : i < worker.at => sent[Item][HistMembers[i]] = "good"
  BY DEF HistInv, Placed, Item
<1>2. DOMAIN HistMembers = 1 .. Len(HistMembers) /\ Len(HistMembers) \in Nat
  BY BackfillAssumption
<1>3. ASSUME NEW i \in DOMAIN HistMembers PROVE sent[Item][HistMembers[i]] # "retained"
  <2>1. CASE i < worker.at
    BY <1>1, <1>3, <2>1
  <2>2. CASE i = worker.at
    BY <2>2 DEF BodyOf, Member
  <2>3. CASE worker.at < i
    <3>1. BodyOf(Member) # "good"
      BY <1>1, <1>2, <1>3, <2>3
    <3>2. sent[Item][HistMembers[i]] = "none"
      BY <1>1, <1>3, <2>3, <3>1 DEF HistInv, InTurn, BodyOf, Member
    <3> QED BY <3>2
  <2> QED BY <1>1, <1>2, <1>3, <2>1, <2>2, <2>3
<1> QED BY <1>3 DEF Pending, MemberKeys

---------------------------------------------------------------------------
(* Steps that leave bodies and budgets alone. *)

\* The invariant after such a step: the request's side and the worker's place.
LEMMA BodiesStay ==
  ASSUME HistInv, UNCHANGED <<sent, tries, dispatches>>,
         Placed(worker'),
         request' \in {"absent", "queued", "running", "completed", "failed", "cancelled"},
         items' \in [Dates -> {"absent", "pending", "running", "completed", "failed", "cancelled", "skipped_calendar"}],
         works' \in [Dates -> {"absent", "queued", "owned", "completed", "failed", "cancelled"}],
         rounds' \in [Dates -> RoundRows], cooling' \in BOOLEAN, lapsed' \in BOOLEAN,
         \A d \in Dates : items'[d] = "completed" => \A m \in MemberKeys : sent[d][m] = "good",
         request' = "completed" => \A d \in Dates : items'[d] \in DoneItem,
         request' \in {"failed", "cancelled"} => \A d \in Dates : items'[d] \notin LiveItem
  PROVE  HistInv'
<1>1. Placed(worker)'
  BY DEF Placed, Pending
<1>2. worker' \in WorkerRows
  BY DEF Placed
<1>3. HistTypeOK'
  BY <1>2 DEF HistInv, HistTypeOK
<1>4. InTurn' /\ Charged'
  BY DEF HistInv, InTurn, Charged
<1>5. RequestOK'
  BY DEF RequestOK
<1> QED BY <1>1, <1>3, <1>4, <1>5 DEF HistInv

\* The same when the request and its items do not change.
LEMMA RequestStays ==
  ASSUME HistInv, UNCHANGED <<sent, tries, dispatches, request, items>>, Placed(worker'),
         works' \in [Dates -> {"absent", "queued", "owned", "completed", "failed", "cancelled"}],
         rounds' \in [Dates -> RoundRows], cooling' \in BOOLEAN, lapsed' \in BOOLEAN
  PROVE  HistInv'
<1>1. /\ request' \in {"absent", "queued", "running", "completed", "failed", "cancelled"}
      /\ items' \in [Dates -> {"absent", "pending", "running", "completed", "failed", "cancelled", "skipped_calendar"}]
      /\ \A d \in Dates : items'[d] = "completed" => \A m \in MemberKeys : sent[d][m] = "good"
      /\ request' = "completed" => \A d \in Dates : items'[d] \in DoneItem
      /\ request' \in {"failed", "cancelled"} => \A d \in Dates : items'[d] \notin LiveItem
  BY DEF HistInv, HistTypeOK, RequestOK
<1> QED BY <1>1, BodiesStay

\* Works that are taken out of the queue, and rounds that only drain from now on.
LEMMA Unqueued ==
  ASSUME HistTypeOK, NEW S, Unqueue(S)
  PROVE  /\ works' \in [Dates -> {"absent", "queued", "owned", "completed", "failed", "cancelled"}]
         /\ rounds' \in [Dates -> RoundRows]
<1>1. works' \in [Dates -> {"absent", "queued", "owned", "completed", "failed", "cancelled"}]
  BY DEF HistTypeOK, Unqueue
<1>2. \A d \in Dates : [rounds[d] EXCEPT !.drain = TRUE] \in RoundRows
  BY DEF HistTypeOK, RoundRows
<1>3. rounds' \in [Dates -> RoundRows]
  BY <1>2 DEF HistTypeOK, Unqueue
<1> QED BY <1>1, <1>3

\* StopItems() leaves no live item and completes none.
LEMMA StoppedItems ==
  ASSUME HistTypeOK
  PROVE  /\ StopItems(Dates) \in [Dates -> {"absent", "pending", "running", "completed", "failed", "cancelled",
                                            "skipped_calendar"}]
         /\ \A d \in Dates : /\ StopItems(Dates)[d] \notin LiveItem
                             /\ StopItems(Dates)[d] = "completed" => items[d] = "completed"
BY DEF HistTypeOK, StopItems, LiveItem

\* create_request(), cancel_request(), expire_requests().
LEMMA RequestChanges ==
  ASSUME HistInv, \/ \E open \in SUBSET Dates : CreateRequest(open)
                  \/ CancelRequest \/ ExpireRequests
  PROVE  HistInv'
<1> USE DEF HistInv
<1>1. UNCHANGED <<sent, tries, dispatches, worker, cooling, lapsed>>
  BY DEF CreateRequest, CancelRequest, ExpireRequests, envVars
<1>2. Placed(worker') /\ cooling' \in BOOLEAN /\ lapsed' \in BOOLEAN
  BY <1>1 DEF HistTypeOK
<1>3. ASSUME NEW open \in SUBSET Dates, CreateRequest(open)
      PROVE  HistInv'
  <2>1. /\ items' = [d \in Dates |-> IF d \in open THEN "pending" ELSE "skipped_calendar"]
        /\ works' = [d \in Dates |-> IF d \in open THEN "queued" ELSE "absent"]
        /\ request' = (IF open = {} THEN "completed" ELSE "queued") /\ UNCHANGED rounds
    BY <1>3 DEF CreateRequest
  <2>2. /\ items' \in [Dates -> {"absent", "pending", "running", "completed", "failed", "cancelled",
                                  "skipped_calendar"}]
        /\ works' \in [Dates -> {"absent", "queued", "owned", "completed", "failed", "cancelled"}]
        /\ rounds' \in [Dates -> RoundRows]
    BY <2>1 DEF HistTypeOK
  <2>3. /\ \A d \in Dates : items'[d] # "completed"
        /\ request' = "completed" => \A d \in Dates : items'[d] \in DoneItem
        /\ request' \in {"queued", "completed"}
    BY <2>1 DEF DoneItem
  <2> QED BY <1>1, <1>2, <2>2, <2>3, BodiesStay
<1>4. CASE CancelRequest
  <2>1. items' = StopItems(Dates) /\ request' = "cancelled" /\ Unqueue(Dates)
    BY <1>4 DEF CancelRequest
  <2> QED BY <1>1, <1>2, <2>1, StoppedItems, Unqueued, BodiesStay DEF RequestOK
<1>5. CASE ExpireRequests
  <2>1. PICK first : items' = [StopItems(Dates) EXCEPT ![first] = "failed"]
    BY <1>5 DEF ExpireRequests
  <2>2. request' = "failed" /\ Unqueue(Dates)
    BY <1>5 DEF ExpireRequests
  <2>3. /\ items' \in [Dates -> {"absent", "pending", "running", "completed", "failed", "cancelled",
                                  "skipped_calendar"}]
        /\ \A d \in Dates : items'[d] \notin LiveItem /\ (items'[d] = "completed" => items[d] = "completed")
    BY <2>1, StoppedItems DEF LiveItem
  <2> QED BY <1>1, <1>2, <2>2, <2>3, Unqueued, BodiesStay DEF RequestOK
<1> QED BY <1>3, <1>4, <1>5

\* claim(), close(), settle(), a draining completion, cooldowns and the window.
LEMMA QueueSteps ==
  ASSUME HistInv, \/ ClaimWork \/ Close \/ Settle \/ CompleteDrains \/ DrainBlocked \/ Drained
                  \/ CooldownStarts \/ CooldownEnds \/ WindowPasses
  PROVE  HistInv'
<1> USE DEF HistInv
<1>1. UNCHANGED <<sent, tries, dispatches, request, items>>
  BY DEF ClaimWork, Close, Settle, CompleteDrains, DrainBlocked, Drained, CooldownStarts, CooldownEnds,
         WindowPasses
<1>2. cooling' \in BOOLEAN /\ lapsed' \in BOOLEAN
  BY DEF ClaimWork, Close, Settle, CompleteDrains, DrainBlocked, Drained, CooldownStarts, CooldownEnds,
         WindowPasses, envVars, HistTypeOK
<1>3. worker \in WorkerRows /\ (worker.pc # "idle" => Item \in Dates)
  BY DEF Placed, Item
<1>4. ASSUME NEW d \in Dates, NEW st \in {"open", "closed", "draining"}, NEW b \in BOOLEAN
      PROVE  /\ [rounds EXCEPT ![d].state = st] \in [Dates -> RoundRows]
             /\ [rounds EXCEPT ![d].drain = b] \in [Dates -> RoundRows]
             /\ [rounds EXCEPT ![d] = [state |-> st, drain |-> b]] \in [Dates -> RoundRows]
  <2>1. rounds \in [Dates -> RoundRows]
    BY DEF HistTypeOK
  <2>2. /\ [rounds[d] EXCEPT !.state = st] \in RoundRows /\ [rounds[d] EXCEPT !.drain = b] \in RoundRows
        /\ [state |-> st, drain |-> b] \in RoundRows
    BY <1>4, <2>1 DEF RoundRows
  <2> QED BY <1>4, <2>1, <2>2
<1>5. CASE ClaimWork
  <2>1. PICK d \in Dates :
          /\ UNCHANGED works \/ works' = [works EXCEPT ![d] = "owned"]
          /\ rounds' = [rounds EXCEPT ![d].drain = cooling \/ (@ /\ Stopped)]
          /\ worker' = [Resting EXCEPT !.pc = "claim", !.item = d, !.seen = Seen(d, rounds'[d])]
    BY <1>5, Zenon DEF ClaimWork
  <2>2. Seen(d, rounds'[d]) \in {"none", "open", "drain", "closed", "stopped"}
    BY DEF Seen
  <2>3. worker' \in WorkerRows /\ worker'.pc = "claim" /\ worker'.item = d
    <3>1. worker' = [pc |-> "claim", item |-> d, at |-> 0, seen |-> Seen(d, rounds'[d]), answer |-> "none"]
      BY <2>1, Zenon DEF Resting
    <3>2. 0 \in 0 .. Len(HistMembers)
      BY BackfillAssumption
    <3> HIDE DEF Seen
    <3> QED BY <2>2, <3>1, <3>2 DEF WorkerRows
  <2>4. works' \in [Dates -> {"absent", "queued", "owned", "completed", "failed", "cancelled"}]
    BY <2>1 DEF HistTypeOK
  <2>5. (cooling \/ (rounds[d].drain /\ Stopped)) \in BOOLEAN
    OBVIOUS
  <2>6. rounds' = [rounds EXCEPT ![d].drain = cooling \/ (rounds[d].drain /\ Stopped)]
    BY <2>1
  <2>7. rounds' \in [Dates -> RoundRows]
    BY <1>4, <2>5, <2>6, Zenon
  <2> QED BY <1>1, <1>2, <2>3, <2>4, <2>7, Elsewhere, RequestStays
<1>6. CASE Close
  <2>1. Item \in Dates /\ worker' = Then("settle") /\ UNCHANGED works
        /\ rounds' = [rounds EXCEPT ![Item].state = "closed"]
    BY <1>3, <1>6 DEF Close
  <2>2. worker' \in WorkerRows /\ worker'.pc = "settle" /\ worker'.item = Item
    BY <1>3, <2>1 DEF Then, WorkerRows, Item
  <2>3. rounds' \in [Dates -> RoundRows]
    BY <1>4, <2>1
  <2> QED BY <1>1, <1>2, <2>1, <2>2, <2>3, Elsewhere, RequestStays DEF HistTypeOK
<1>7. CASE Settle
  <2>1. Item \in Dates /\ worker.pc = "settle" /\ (worker' = worker \/ worker' = Resting)
    BY <1>3, <1>7 DEF Settle
  <2>2. Placed(worker')
    BY <1>3, <2>1, Reports, Elsewhere
  <2>3. works' \in [Dates -> {"absent", "queued", "owned", "completed", "failed", "cancelled"}]
    BY <1>7, <2>1 DEF Settle, HistTypeOK
  <2>4. rounds' \in [Dates -> RoundRows]
    <3>1. (rounds[Item].drain \/ Stopped) \in BOOLEAN
      OBVIOUS
    <3>2. \/ rounds' = rounds \/ rounds' = [rounds EXCEPT ![Item].state = "draining"]
          \/ rounds' = [rounds EXCEPT ![Item] = [state |-> "open", drain |-> rounds[Item].drain \/ Stopped]]
      BY <1>7 DEF Settle
    <3>3. rounds \in [Dates -> RoundRows]
      BY DEF HistTypeOK
    <3>4. [rounds EXCEPT ![Item].state = "draining"] \in [Dates -> RoundRows]
      BY <1>4, <2>1
    <3>5. [rounds EXCEPT ![Item] = [state |-> "open", drain |-> rounds[Item].drain \/ Stopped]]
             \in [Dates -> RoundRows]
      BY <1>4, <2>1, <3>1, Zenon
    <3> QED BY <3>2, <3>3, <3>4, <3>5, Zenon
  <2> QED BY <1>1, <1>2, <2>2, <2>3, <2>4, RequestStays
<1>8. CASE CompleteDrains
  <2>1. Item \in Dates /\ UNCHANGED <<works, worker>> /\ rounds' = [rounds EXCEPT ![Item].state = "draining"]
    BY <1>3, <1>8 DEF CompleteDrains
  <2>2. rounds' \in [Dates -> RoundRows]
    BY <1>4, <2>1
  <2> QED BY <1>1, <1>2, <2>1, <2>2, RequestStays DEF HistTypeOK
<1>9. CASE DrainBlocked
  <2>1. Item \in Dates /\ worker' = FailManual /\ UNCHANGED <<works, rounds>>
    BY <1>3, <1>9 DEF DrainBlocked, queueVars
  <2>2. Placed(worker')
    BY <1>3, <2>1, Reports DEF Placed
  <2> QED BY <1>1, <1>2, <2>1, <2>2, RequestStays DEF HistTypeOK
<1>10. CASE Drained
  <2>1. /\ Item \in Dates /\ ~Pending(Item) /\ UNCHANGED <<works, rounds>>
        /\ worker' \in {Defer, [Then("complete") EXCEPT !.answer = "completed"],
                        [Then("close") EXCEPT !.answer = "cancelled"]}
    BY <1>3, <1>10 DEF Drained, queueVars
  <2>3. worker' \in WorkerRows /\ worker'.pc \in {"close", "complete"} /\ worker'.item = Item
    <3>1. Defer \in WorkerRows /\ Defer.pc = "close" /\ Defer.item = Item
      BY <1>3, Reports
    <3>2. /\ [Then("complete") EXCEPT !.answer = "completed"] \in WorkerRows
          /\ [Then("complete") EXCEPT !.answer = "completed"].pc = "complete"
          /\ [Then("complete") EXCEPT !.answer = "completed"].item = Item
      BY <1>3, WorkerTurns, Zenon
    <3>3. /\ [Then("close") EXCEPT !.answer = "cancelled"] \in WorkerRows
          /\ [Then("close") EXCEPT !.answer = "cancelled"].pc = "close"
          /\ [Then("close") EXCEPT !.answer = "cancelled"].item = Item
      BY <1>3, WorkerTurns, Zenon
    <3>4. CASE worker' = Defer
      BY <3>1, <3>4
    <3>5. CASE worker' = [Then("complete") EXCEPT !.answer = "completed"]
      BY <3>2, <3>5, Zenon
    <3>6. CASE worker' = [Then("close") EXCEPT !.answer = "cancelled"]
      BY <3>3, <3>6, Zenon
    <3> QED BY <2>1, <3>4, <3>5, <3>6
  <2>4. Placed(worker')
    BY <2>1, <2>3 DEF Placed
  <2> QED BY <1>1, <1>2, <2>1, <2>4, RequestStays DEF HistTypeOK
<1>11. CASE CooldownStarts \/ CooldownEnds \/ WindowPasses
  <2>1. UNCHANGED <<works, rounds, worker>>
    BY <1>11 DEF CooldownStarts, CooldownEnds, WindowPasses, queueVars
  <2> QED BY <1>1, <1>2, <2>1, RequestStays DEF HistTypeOK
<1> QED BY <1>5, <1>6, <1>7, <1>8, <1>9, <1>10, <1>11

\* claim_next_item(): a live item runs, and the worker goes to its first member,
\* to its retained bodies or home.
LEMMA ItemStep ==
  ASSUME HistInv, ClaimItem
  PROVE  HistInv'
<1> USE DEF HistInv
<1>1. /\ UNCHANGED <<sent, tries, dispatches, works, rounds, cooling, lapsed>>
      /\ worker \in WorkerRows /\ Item \in Dates
  BY DEF ClaimItem, Placed, Item, queueVars, envVars
<1>2. /\ 0 \in 0 .. Len(HistMembers) /\ 1 \in 0 .. Len(HistMembers) /\ 1 \in DOMAIN HistMembers
      /\ DOMAIN HistMembers = 1 .. Len(HistMembers)
  BY BackfillAssumption
<1>3. /\ Placed([Then("member") EXCEPT !.at = 1]) /\ Placed(Then("drain"))
      /\ Placed([Then("close") EXCEPT !.answer = "cancelled"])
  <2>1. /\ [Then("member") EXCEPT !.at = 1] \in WorkerRows /\ [Then("member") EXCEPT !.at = 1].pc = "member"
        /\ [Then("member") EXCEPT !.at = 1].item = Item /\ [Then("member") EXCEPT !.at = 1].at = 1
    BY <1>1, WorkerTurns, Zenon
  <2>2. Then("drain") \in WorkerRows /\ Then("drain").pc = "drain" /\ Then("drain").item = Item
    BY <1>1, <1>2, WorkerMoves
  <2>3. /\ [Then("close") EXCEPT !.answer = "cancelled"] \in WorkerRows
        /\ [Then("close") EXCEPT !.answer = "cancelled"].pc = "close"
        /\ [Then("close") EXCEPT !.answer = "cancelled"].item = Item
    BY <1>1, WorkerTurns, Zenon
  <2>4. Placed([Then("member") EXCEPT !.at = 1])
    <3>1. \A i \in DOMAIN HistMembers : ~(i < 1)
      BY <1>2
    <3> QED BY <1>1, <1>2, <2>1, <3>1 DEF Placed
  <2>5. Placed(Then("drain"))
    BY <1>1, <2>2, Elsewhere
  <2>6. Placed([Then("close") EXCEPT !.answer = "cancelled"])
    BY <1>1, <2>3, Elsewhere
  <2> QED BY <2>4, <2>5, <2>6
<1>4. Placed(worker')
  <2>1. \/ worker' = [Then("member") EXCEPT !.at = 1] \/ worker' = Then("drain")
        \/ worker' = [Then("close") EXCEPT !.answer = "cancelled"]
    BY DEF ClaimItem
  <2> QED BY <1>3, <2>1, Zenon
<1>5. CASE UNCHANGED <<items, request>>
  BY <1>1, <1>4, <1>5, RequestStays DEF HistTypeOK
<1>6. CASE items' = [items EXCEPT ![Item] = "running"] /\ request' = "running"
  <2>1. /\ items' \in [Dates -> {"absent", "pending", "running", "completed", "failed", "cancelled",
                                  "skipped_calendar"}]
        /\ \A d \in Dates : items'[d] = "completed" => items[d] = "completed"
    BY <1>1, <1>6 DEF HistTypeOK
  <2> QED BY <1>1, <1>4, <1>6, <2>1, BodiesStay DEF HistTypeOK, RequestOK
<1> QED BY <1>5, <1>6 DEF ClaimItem

\* complete_item(): a completed date has its evidence, a failed one ends the
\* request and its siblings, and an outcome the domain decided before stands.
LEMMA CompleteStep ==
  ASSUME HistInv, Complete
  PROVE  HistInv'
<1> USE DEF HistInv
<1>1. /\ UNCHANGED <<sent, tries, dispatches, cooling, lapsed>> /\ cooling \in BOOLEAN /\ lapsed \in BOOLEAN
      /\ worker \in WorkerRows /\ Item \in Dates
  BY DEF Complete, Placed, Item, envVars, HistTypeOK
<1>2. /\ works \in [Dates -> {"absent", "queued", "owned", "completed", "failed", "cancelled"}]
      /\ rounds \in [Dates -> RoundRows]
      /\ items \in [Dates -> {"absent", "pending", "running", "completed", "failed", "cancelled", "skipped_calendar"}]
  BY DEF HistTypeOK
<1>3. Placed(Resting)
  BY <1>1, Reports, Elsewhere
<1>4. CASE request \in LiveRequest /\ Evidence /\ Domain("completed") /\ worker' = Resting
  <2>1. /\ items' = [items EXCEPT ![Item] = "completed"] /\ works' = [works EXCEPT ![Item] = "completed"]
        /\ UNCHANGED rounds
        /\ request' = IF \A d \in Dates : items'[d] \in DoneItem THEN "completed" ELSE request
    BY <1>4 DEF Domain
  <2>2. /\ items' \in [Dates -> {"absent", "pending", "running", "completed", "failed", "cancelled",
                                  "skipped_calendar"}]
        /\ works' \in [Dates -> {"absent", "queued", "owned", "completed", "failed", "cancelled"}]
    BY <1>1, <1>2, <2>1
  <2>3. \A d \in Dates : items'[d] = "completed" => \A m \in MemberKeys : sent[d][m] = "good"
    BY <1>1, <1>2, <1>4, <2>1 DEF Evidence, RequestOK
  <2>4. /\ request' \in {"queued", "running", "completed"}
        /\ request' = "completed" => \A d \in Dates : items'[d] \in DoneItem
    BY <1>4, <2>1 DEF LiveRequest
  <2> QED BY <1>1, <1>2, <1>3, <1>4, <2>1, <2>2, <2>3, <2>4, BodiesStay
<1>5. CASE Domain("failed") /\ worker' = Resting
  <2>1. /\ items' = [StopItems(Dates) EXCEPT ![Item] = "failed"] /\ request' = "failed"
        /\ \E W : works' = [d \in Dates |-> IF d = Item THEN "failed" ELSE IF d \in W THEN "cancelled" ELSE works[d]]
        /\ rounds' = [d \in Dates |-> IF d # Item /\ works[d] = "queued" /\ Retained(d)
                                      THEN [rounds[d] EXCEPT !.drain = TRUE] ELSE rounds[d]]
    BY <1>5 DEF Domain
  <2>2. works' \in [Dates -> {"absent", "queued", "owned", "completed", "failed", "cancelled"}]
    BY <1>2, <2>1
  <2>3. rounds' \in [Dates -> RoundRows]
    <3>1. \A d \in Dates : [rounds[d] EXCEPT !.drain = TRUE] \in RoundRows
      BY <1>2 DEF RoundRows
    <3> QED BY <1>2, <2>1, <3>1
  <2>4. /\ items' \in [Dates -> {"absent", "pending", "running", "completed", "failed", "cancelled",
                                  "skipped_calendar"}]
        /\ \A d \in Dates : items'[d] \notin LiveItem /\ (items'[d] = "completed" => items[d] = "completed")
    BY <2>1, StoppedItems DEF LiveItem
  <2> QED BY <1>1, <1>3, <1>5, <2>1, <2>2, <2>3, <2>4, BodiesStay DEF RequestOK
<1>6. CASE /\ works' = [works EXCEPT ![Item] = IF worker.answer = "manual" THEN "failed" ELSE "cancelled"]
           /\ worker' = Resting /\ UNCHANGED <<request, items, rounds>>
  <2>1. works' \in [Dates -> {"absent", "queued", "owned", "completed", "failed", "cancelled"}]
    BY <1>1, <1>2, <1>6
  <2> QED BY <1>1, <1>2, <1>3, <1>6, <2>1, RequestStays
<1>7. CASE /\ ~Pending(Item) /\ (worker' = Defer \/ worker' = Fail) /\ UNCHANGED <<request, items, works, rounds>>
  <2>1. Placed(worker')
    BY <1>1, <1>7, Reports DEF Placed
  <2> QED BY <1>1, <1>2, <1>7, <2>1, RequestStays
<1> QED
  <2>1. ~Pending(Item) \/ worker.answer = "manual"
    BY DEF Complete
  <2> QED BY <1>4, <1>5, <1>6, <1>7, <2>1 DEF Complete, queueVars

---------------------------------------------------------------------------
(* Steps of the journal. *)

\* One cell of a table of members changes.
LEMMA OneCell ==
  ASSUME NEW S, NEW f \in [Dates -> [MemberKeys -> S]], NEW d \in Dates, NEW m \in MemberKeys, NEW v \in S
  PROVE  /\ [f EXCEPT ![d][m] = v] \in [Dates -> [MemberKeys -> S]]
         /\ [f EXCEPT ![d][m] = v][d][m] = v
         /\ \A e \in Dates, k \in MemberKeys : e # d \/ k # m => [f EXCEPT ![d][m] = v][e][k] = f[e][k]
<1>1. [f[d] EXCEPT ![m] = v] \in [MemberKeys -> S]
  OBVIOUS
<1> QED BY <1>1

\* The invariant after a step that leaves the request, the queue and the bodies alone.
LEMMA BudgetMoves ==
  ASSUME HistInv, UNCHANGED <<request, items, works, rounds, sent, cooling, lapsed>>,
         tries' \in [Dates -> [MemberKeys -> 0 .. MaxTries]], dispatches' \in [Dates -> [MemberKeys -> Nat]],
         Charged', Placed(worker)'
  PROVE  HistInv'
<1>1. worker' \in WorkerRows
  BY DEF Placed
<1>2. HistTypeOK'
  BY <1>1 DEF HistInv, HistTypeOK
<1>3. InTurn' /\ RequestOK'
  BY DEF HistInv, InTurn, RequestOK
<1> QED BY <1>2, <1>3 DEF HistInv

\* release_wait_attempt() gives one attempt back, never below none.
LEMMA Released ==
  ASSUME HistTypeOK, Item \in Dates, worker.at \in DOMAIN HistMembers
  PROVE  /\ Member \in MemberKeys
         /\ Release(tries) \in [Dates -> [MemberKeys -> 0 .. MaxTries]]
         /\ Release(tries)[Item][Member] =
                IF tries[Item][Member] > 0 THEN tries[Item][Member] - 1 ELSE 0
         /\ \A d \in Dates, m \in MemberKeys : d # Item \/ m # Member => Release(tries)[d][m] = tries[d][m]
<1>1. Member \in MemberKeys
  BY MemberKey DEF Member
<1>2. tries \in [Dates -> [MemberKeys -> 0 .. MaxTries]]
  BY DEF HistTypeOK
<1> DEFINE v == IF tries[Item][Member] > 0 THEN tries[Item][Member] - 1 ELSE 0
<1>3. v \in 0 .. MaxTries
  BY <1>1, <1>2, BackfillAssumption
<1>4. Release(tries) = [tries EXCEPT ![Item][Member] = v]
  BY DEF Release
<1> HIDE DEF v
<1>5. /\ Release(tries) \in [Dates -> [MemberKeys -> 0 .. MaxTries]]
      /\ Release(tries)[Item][Member] = v
      /\ \A d \in Dates, m \in MemberKeys : d # Item \/ m # Member => Release(tries)[d][m] = tries[d][m]
  BY <1>1, <1>2, <1>3, <1>4, OneCell
<1> QED BY <1>1, <1>5 DEF v

\* A dispatch counts once, below the budget.
LEMMA Dispatched ==
  ASSUME HistInv, worker.pc = "ask", dispatches' = [dispatches EXCEPT ![Item][Member] = OneMore(@)],
         UNCHANGED <<tries, sent>>
  PROVE  dispatches' \in [Dates -> [MemberKeys -> Nat]] /\ Charged'
<1>1. /\ Item \in Dates /\ Member \in MemberKeys /\ dispatches[Item][Member] < tries[Item][Member]
      /\ sent[Item][Member] = "none"
  BY MemberKey DEF HistInv, Placed, Item, Member
<1>2. /\ dispatches \in [Dates -> [MemberKeys -> Nat]] /\ tries \in [Dates -> [MemberKeys -> 0 .. MaxTries]]
  BY DEF HistInv, HistTypeOK
<1>3. tries[Item][Member] \in 0 .. MaxTries /\ dispatches[Item][Member] \in Nat
  BY <1>1, <1>2
<1>4. OneMore(dispatches[Item][Member]) = dispatches[Item][Member] + 1
  BY <1>1, <1>3, BackfillAssumption DEF OneMore
<1>5. dispatches' = [dispatches EXCEPT ![Item][Member] = dispatches[Item][Member] + 1]
  BY <1>4
<1>6. /\ dispatches' \in [Dates -> [MemberKeys -> Nat]]
      /\ dispatches'[Item][Member] = dispatches[Item][Member] + 1
      /\ \A d \in Dates, m \in MemberKeys : d # Item \/ m # Member => dispatches'[d][m] = dispatches[d][m]
  <2>1. dispatches[Item][Member] + 1 \in Nat
    BY <1>3
  <2> QED BY <1>1, <1>2, <1>5, <2>1, OneCell
<1>7. Charged'
  <2>1. Charged
    BY DEF HistInv
  <2>2. ASSUME NEW d \in Dates, NEW m \in MemberKeys
        PROVE  dispatches'[d][m] <= IF sent[d][m] = "none" THEN tries[d][m] ELSE MaxTries
    <3>1. CASE d = Item /\ m = Member
      BY <1>1, <1>3, <1>6, <3>1
    <3>2. CASE d # Item \/ m # Member
      BY <1>6, <2>1, <3>2 DEF Charged
    <3> QED BY <3>1, <3>2
  <2> QED BY <2>2 DEF Charged
<1> QED BY <1>6, <1>7
\* Where the attempts change but no count of dispatches exceeds them, the charge holds.
LEMMA ChargeStays ==
  ASSUME HistInv, Item \in Dates, Member \in MemberKeys, UNCHANGED <<sent, dispatches>>,
         tries' \in [Dates -> [MemberKeys -> 0 .. MaxTries]],
         \A d \in Dates, m \in MemberKeys : d # Item \/ m # Member => tries'[d][m] = tries[d][m],
         sent[Item][Member] = "none" => dispatches[Item][Member] <= tries'[Item][Member]
  PROVE  Charged'
<1>1. Charged
  BY DEF HistInv
<1>2. ASSUME NEW d \in Dates, NEW m \in MemberKeys
      PROVE  dispatches[d][m] <= IF sent[d][m] = "none" THEN tries'[d][m] ELSE MaxTries
  <2>1. CASE d = Item /\ m = Member
    BY <1>1, <2>1 DEF Charged
  <2>2. CASE d # Item \/ m # Member
    BY <1>1, <2>2 DEF Charged
  <2> QED BY <2>1, <2>2
<1> QED BY <1>2 DEF Charged

\* A worker that reports a failure or defers leaves its member behind.
LEMMA Leaves ==
  ASSUME worker \in WorkerRows, Item \in Dates, UNCHANGED sent,
         \/ worker' = Defer \/ worker' = FailManual \/ worker' = Resting
         \/ worker' = Fail /\ ~Pending(Item)
  PROVE  Placed(worker)'
<1>1. CASE worker' = Defer \/ worker' = Resting
  BY <1>1, Reports DEF Placed
<1>2. CASE worker' = FailManual
  BY <1>2, Reports DEF Placed
<1>3. CASE worker' = Fail /\ ~Pending(Item)
  BY <1>3, Reports DEF Placed, Pending
<1> QED BY <1>1, <1>2, <1>3

\* reserve_attempt(), the predispatch check, the call, a late Source, the end of a run.
LEMMA JournalSteps ==
  ASSUME HistInv, Reserve \/ AskStopped \/ Ask \/ DeliverWaits \/ NextMember
  PROVE  HistInv'
<1>1. UNCHANGED <<request, items, works, rounds, sent, cooling, lapsed>>
  BY DEF Reserve, AskStopped, Ask, DeliverWaits, NextMember, queueVars, envVars
<1>2. /\ worker \in WorkerRows /\ worker.pc \in {"member", "ask"} /\ Item \in Dates
      /\ worker.at \in DOMAIN HistMembers
      /\ \A i \in DOMAIN HistMembers : i < worker.at => sent[Item][HistMembers[i]] = "good"
      /\ worker.pc = "ask" => sent[Item][Member] = "none" /\ dispatches[Item][Member] < tries[Item][Member]
  BY DEF HistInv, Placed, Item, Member, Reserve, AskStopped, Ask, DeliverWaits, NextMember
<1>3. /\ tries \in [Dates -> [MemberKeys -> 0 .. MaxTries]] /\ dispatches \in [Dates -> [MemberKeys -> Nat]]
      /\ HistTypeOK
  BY DEF HistInv, HistTypeOK
<1>4. Member \in MemberKeys
  BY <1>2, MemberKey DEF Member
<1>5. tries[Item][Member] \in 0 .. MaxTries /\ dispatches[Item][Member] \in Nat
  BY <1>2, <1>3, <1>4
<1>6. DOMAIN HistMembers = 1 .. Len(HistMembers) /\ Len(HistMembers) \in Nat
  BY BackfillAssumption
<1>7. ASSUME tries' = Release(tries), UNCHANGED dispatches, worker.pc = "ask" \/ BodyOf(Member) # "none"
      PROVE  tries' \in [Dates -> [MemberKeys -> 0 .. MaxTries]] /\ Charged'
  <2>1. /\ tries' \in [Dates -> [MemberKeys -> 0 .. MaxTries]]
        /\ tries'[Item][Member] = IF tries[Item][Member] > 0 THEN tries[Item][Member] - 1 ELSE 0
        /\ \A d \in Dates, m \in MemberKeys : d # Item \/ m # Member => tries'[d][m] = tries[d][m]
    BY <1>2, <1>3, <1>7, Released
  <2>2. sent[Item][Member] = "none" => dispatches[Item][Member] <= tries'[Item][Member]
    BY <1>2, <1>5, <1>7, <2>1 DEF BodyOf
  <2> QED BY <1>1, <1>2, <1>4, <1>7, <2>1, <2>2, ChargeStays
<1>8. ASSUME UNCHANGED <<tries, dispatches>>
      PROVE  tries' \in [Dates -> [MemberKeys -> 0 .. MaxTries]] /\ Charged'
  BY <1>1, <1>3, <1>8 DEF HistInv, Charged
<1>9. CASE Reserve
  <2>1. UNCHANGED dispatches /\ sent[Item][Member] = "none" /\ worker.pc = "member"
    BY <1>9 DEF Reserve, BodyOf
  <2>2. CASE tries[Item][Member] < MaxTries
    <3>1. tries' = [tries EXCEPT ![Item][Member] = tries[Item][Member] + 1] /\ worker' = Then("ask")
      BY <1>9, <2>2 DEF Reserve, Reserved
    <3>2. tries[Item][Member] + 1 \in 0 .. MaxTries
      BY <1>5, <2>2, BackfillAssumption
    <3>3. /\ tries' \in [Dates -> [MemberKeys -> 0 .. MaxTries]]
          /\ tries'[Item][Member] = tries[Item][Member] + 1
          /\ \A d \in Dates, m \in MemberKeys : d # Item \/ m # Member => tries'[d][m] = tries[d][m]
      BY <1>2, <1>3, <1>4, <3>1, <3>2, OneCell
    <3>4. dispatches[Item][Member] <= tries[Item][Member]
      BY <1>2, <1>4, <2>1 DEF HistInv, Charged
    <3>5. dispatches[Item][Member] < tries'[Item][Member]
      BY <1>5, <3>3, <3>4
    <3>6. Charged'
      BY <1>1, <1>2, <1>4, <1>5, <2>1, <3>3, <3>5, ChargeStays
    <3>7. /\ worker' \in WorkerRows /\ worker'.pc = "ask" /\ worker'.item = Item /\ worker'.at = worker.at
      BY <1>2, <3>1, WorkerMoves
    <3>8. Placed(worker)'
      BY <1>1, <1>2, <2>1, <3>5, <3>7 DEF Placed, Member
    <3> QED BY <1>1, <1>3, <2>1, <3>3, <3>6, <3>8, BudgetMoves
  <2>3. CASE ~(tries[Item][Member] < MaxTries)
    <3>1. UNCHANGED tries /\ worker' = Fail
      BY <1>9, <2>3 DEF Reserve
    <3>2. ~Pending(Item)
      BY <2>1, NothingPending DEF BodyOf
    <3> QED BY <1>1, <1>2, <1>3, <1>8, <2>1, <3>1, <3>2, Leaves, BudgetMoves
  <2> QED BY <2>2, <2>3
<1>10. CASE AskStopped
  <2>1. tries' = Release(tries) /\ UNCHANGED dispatches /\ worker.pc = "ask" /\ (worker' = Defer \/ worker' = Fail)
    BY <1>10 DEF AskStopped
  <2>2. ~Pending(Item)
    BY <1>2, <2>1, NothingPending DEF BodyOf
  <2> QED BY <1>1, <1>2, <1>3, <1>7, <2>1, <2>2, Leaves, BudgetMoves
<1>11. CASE Ask
  <2>1. /\ dispatches' = [dispatches EXCEPT ![Item][Member] = OneMore(@)] /\ UNCHANGED tries /\ worker.pc = "ask"
        /\ worker' = Then("prepare") \/ worker' = Defer \/ worker' = Fail
    BY <1>11 DEF Ask
  <2>2. dispatches' \in [Dates -> [MemberKeys -> Nat]] /\ Charged'
    BY <1>1, <2>1, Dispatched
  <2>3. ~Pending(Item)
    BY <1>2, <2>1, NothingPending DEF BodyOf
  <2>4. Placed(worker)'
    <3>1. CASE worker' = Then("prepare")
      <4>1. /\ worker' \in WorkerRows /\ worker'.pc = "prepare" /\ worker'.item = Item /\ worker'.at = worker.at
        BY <1>2, <3>1, WorkerMoves
      <4> QED BY <1>1, <1>2, <2>1, <4>1 DEF Placed, Member
    <3>2. CASE worker' = Defer \/ worker' = Fail
      BY <1>1, <1>2, <2>3, <3>2, Leaves
    <3> QED BY <2>1, <3>1, <3>2
  <2> QED BY <1>1, <1>3, <2>1, <2>2, <2>4, BudgetMoves
<1>12. CASE DeliverWaits
  <2>1. tries' = Release(tries) /\ UNCHANGED dispatches /\ worker' = Defer /\ BodyOf(Member) = "retained"
    BY <1>12 DEF DeliverWaits
  <2> QED BY <1>1, <1>2, <1>3, <1>7, <2>1, Leaves, BudgetMoves
<1>13. CASE NextMember
  <2>1. UNCHANGED dispatches /\ worker.pc = "member" /\ BodyOf(Member) \in {"good", "bad"}
    BY <1>13 DEF NextMember
  <2>2. CASE BodyOf(Member) = "bad"
    <3>1. worker' = Fail /\ UNCHANGED tries
      BY <1>13, <2>2 DEF NextMember
    <3>2. ~Pending(Item)
      BY <2>1, <2>2, NothingPending
    <3> QED BY <1>1, <1>2, <1>3, <1>8, <2>1, <3>1, <3>2, Leaves, BudgetMoves
  <2>3. CASE BodyOf(Member) = "good"
    <3>1. /\ tries' = Release(tries)
          /\ worker' = IF worker.at < Len(HistMembers) THEN [worker EXCEPT !.at = @ + 1]
                       ELSE [Then("complete") EXCEPT !.answer = "completed"]
      BY <1>13, <2>3 DEF NextMember
    <3>2. tries' \in [Dates -> [MemberKeys -> 0 .. MaxTries]] /\ Charged'
      BY <1>7, <2>1, <3>1
    <3>3. CASE worker.at < Len(HistMembers)
      <4>1. worker.at \in Nat /\ worker.at + 1 \in DOMAIN HistMembers /\ worker.at + 1 \in 0 .. Len(HistMembers)
        BY <1>2, <1>6, <3>3
      <4>2. worker' = [worker EXCEPT !.at = worker.at + 1]
        BY <3>1, <3>3
      <4>3. /\ worker' \in WorkerRows /\ worker'.pc = "member" /\ worker'.item = Item /\ worker'.at = worker.at + 1
        BY <1>2, <2>1, <4>1, <4>2 DEF WorkerRows, Item
      <4>4. \A i \in DOMAIN HistMembers : i < worker.at + 1 => sent[Item][HistMembers[i]] = "good"
        BY <1>2, <1>6, <2>3, <4>1 DEF BodyOf, Member
      <4>5. Placed(worker)'
        BY <1>1, <1>2, <4>1, <4>3, <4>4 DEF Placed
      <4> QED BY <1>1, <1>3, <2>1, <3>2, <4>5, BudgetMoves
    <3>4. CASE ~(worker.at < Len(HistMembers))
      <4>1. worker.at = Len(HistMembers)
        BY <1>2, <1>6, <3>4
      <4>2. ~Pending(Item)
        BY <2>1, <2>3, <4>1, NothingPending
      <4>3. worker' = [Then("complete") EXCEPT !.answer = "completed"]
        BY <3>1, <3>4
      <4>4. /\ worker' \in WorkerRows /\ worker'.pc = "complete" /\ worker'.item = Item
        BY <1>2, <4>3, WorkerTurns, Zenon
      <4>5. Placed(worker)'
        BY <1>1, <1>2, <4>2, <4>4 DEF Placed, Pending
      <4> QED BY <1>1, <1>3, <2>1, <3>2, <4>5, BudgetMoves
    <3> QED BY <3>3, <3>4
  <2> QED BY <2>1, <2>2, <2>3
<1> QED BY <1>9, <1>10, <1>11, <1>12, <1>13

\* The process ends; the call it was making may have reached the provider.
LEMMA LossStep ==
  ASSUME HistInv, LoseWorker
  PROVE  HistInv'
<1>1. /\ UNCHANGED <<request, items, works, rounds, sent, tries, cooling, lapsed>> /\ worker' = Resting
      /\ \/ worker.pc = "ask" /\ dispatches' = [dispatches EXCEPT ![Item][Member] = OneMore(@)]
         \/ UNCHANGED dispatches
  BY DEF LoseWorker, queueVars
<1>2. /\ worker \in WorkerRows /\ tries' \in [Dates -> [MemberKeys -> 0 .. MaxTries]]
      /\ dispatches \in [Dates -> [MemberKeys -> Nat]]
  BY <1>1 DEF HistInv, HistTypeOK
<1>3. dispatches' \in [Dates -> [MemberKeys -> Nat]] /\ Charged'
  <2>1. CASE UNCHANGED dispatches
    BY <1>1, <1>2, <2>1 DEF HistInv, Charged
  <2>2. CASE worker.pc = "ask" /\ dispatches' = [dispatches EXCEPT ![Item][Member] = OneMore(@)]
    BY <1>1, <2>2, Dispatched
  <2> QED BY <1>1, <2>1, <2>2
<1>4. Placed(worker)'
  BY <1>1, <1>2, Reports DEF Placed
<1> QED BY <1>1, <1>2, <1>3, <1>4, BudgetMoves
---------------------------------------------------------------------------
(* Steps of one body. *)

\* A body comes to a member whose predecessors are good, or one that is not
\* good yet moves on.
LEMMA BodyMoves ==
  ASSUME HistInv, NEW d \in Dates, NEW k \in DOMAIN HistMembers,
         NEW v \in {"retained", "accepted", "good", "bad"},
         sent' = [sent EXCEPT ![d][HistMembers[k]] = v], sent[d][HistMembers[k]] # "good",
         \A i \in DOMAIN HistMembers : i < k => sent[d][HistMembers[i]] = "good",
         UNCHANGED <<request, items, works, rounds, tries, dispatches, cooling, lapsed>>,
         Placed(worker)'
  PROVE  HistInv'
<1>1. HistMembers[k] \in MemberKeys
  BY MemberKey
<1>2. /\ sent \in [Dates -> [MemberKeys -> {"none", "retained", "accepted", "good", "bad"}]]
      /\ tries \in [Dates -> [MemberKeys -> 0 .. MaxTries]] /\ dispatches \in [Dates -> [MemberKeys -> Nat]]
  BY DEF HistInv, HistTypeOK
<1>3. /\ sent' \in [Dates -> [MemberKeys -> {"none", "retained", "accepted", "good", "bad"}]]
      /\ sent'[d][HistMembers[k]] = v
      /\ \A e \in Dates, m \in MemberKeys : e # d \/ m # HistMembers[k] => sent'[e][m] = sent[e][m]
  BY <1>1, <1>2, OneCell
<1>4. HistTypeOK'
  <2>1. worker' \in WorkerRows
    BY DEF Placed
  <2> QED BY <1>3, <2>1 DEF HistInv, HistTypeOK
<1>5. InTurn'
  <2>1. ASSUME NEW e \in Dates, NEW i \in DOMAIN HistMembers, NEW j \in DOMAIN HistMembers,
               i < j, sent'[e][HistMembers[j]] # "none"
        PROVE  sent'[e][HistMembers[i]] = "good"
    <3>1. /\ HistMembers[i] \in MemberKeys /\ HistMembers[j] \in MemberKeys
          /\ HistMembers[i] = HistMembers[k] => i = k
          /\ HistMembers[j] = HistMembers[k] => j = k
          /\ i # j
      BY <2>1, MemberKey, BackfillAssumption
    <3>2. CASE e = d /\ j = k
      BY <1>3, <2>1, <3>1, <3>2
    <3>3. CASE ~(e = d /\ j = k)
      <4>1. sent[e][HistMembers[j]] # "none"
        BY <1>3, <2>1, <3>1, <3>3
      <4>2. sent[e][HistMembers[i]] = "good"
        BY <2>1, <4>1 DEF HistInv, InTurn
      <4> QED BY <1>3, <3>1, <4>2
    <3> QED BY <3>2, <3>3
  <2> QED BY <2>1 DEF InTurn
<1>6. Charged'
  <2>1. ASSUME NEW e \in Dates, NEW m \in MemberKeys
        PROVE  dispatches[e][m] <= IF sent'[e][m] = "none" THEN tries[e][m] ELSE MaxTries
    <3>1. /\ dispatches[e][m] <= IF sent[e][m] = "none" THEN tries[e][m] ELSE MaxTries
          /\ tries[e][m] \in 0 .. MaxTries /\ dispatches[e][m] \in Nat
      BY <1>2, <2>1 DEF HistInv, Charged
    <3>2. sent'[e][m] = "none" => sent[e][m] = "none"
      BY <1>3, <2>1
    <3> QED BY <3>1, <3>2, BackfillAssumption
  <2> QED BY <2>1 DEF Charged
<1>7. RequestOK'
  <2>1. items[d] # "completed"
    BY <1>1 DEF HistInv, RequestOK
  <2> QED BY <1>3, <2>1 DEF HistInv, RequestOK
<1> QED BY <1>4, <1>5, <1>6, <1>7 DEF HistInv

\* What stays of a worker's place when a body moves on: the good runs before it.
LEMMA GoodStay ==
  ASSUME HistInv, NEW d \in Dates, NEW m \in MemberKeys,
         NEW v \in {"retained", "accepted", "good", "bad"},
         sent' = [sent EXCEPT ![d][m] = v], sent[d][m] # "good"
  PROVE  /\ \A e \in Dates, k \in MemberKeys : sent[e][k] = "good" => sent'[e][k] = "good"
         /\ \A e \in Dates, k \in MemberKeys : e # d \/ k # m => sent'[e][k] = sent[e][k]
<1>1. sent \in [Dates -> [MemberKeys -> {"none", "retained", "accepted", "good", "bad"}]]
  BY DEF HistInv, HistTypeOK
<1>2. \A e \in Dates, k \in MemberKeys : e # d \/ k # m => sent'[e][k] = sent[e][k]
  BY <1>1, OneCell
<1> QED BY <1>2

\* prepare(): the Source retains the body of the member that was asked for.
LEMMA PrepareStep ==
  ASSUME HistInv, Prepare
  PROVE  HistInv'
<1>1. /\ UNCHANGED <<request, items, works, rounds, tries, dispatches, cooling, lapsed>>
      /\ worker.pc = "prepare" /\ worker' = Then("member")
      /\ sent' = [sent EXCEPT ![Item][HistMembers[worker.at]] = "retained"]
  BY DEF Prepare, queueVars, envVars, SetSent, Member
<1>2. /\ worker \in WorkerRows /\ Item \in Dates /\ worker.at \in DOMAIN HistMembers
      /\ \A i \in DOMAIN HistMembers : i < worker.at => sent[Item][HistMembers[i]] = "good"
      /\ sent[Item][HistMembers[worker.at]] = "none"
  BY <1>1 DEF HistInv, Placed, Item
<1>3. /\ worker' \in WorkerRows /\ worker'.pc = "member" /\ worker'.item = Item /\ worker'.at = worker.at
  BY <1>1, <1>2, WorkerMoves
<1>4. \A i \in DOMAIN HistMembers : i < worker.at => sent'[Item][HistMembers[i]] = "good"
  BY <1>1, <1>2, GoodStay, MemberKey
<1>5. Placed(worker)'
  BY <1>2, <1>3, <1>4 DEF Placed
<1> QED BY <1>1, <1>2, <1>5, BodyMoves

\* Deliveries, drained bodies and ended runs move a retained or accepted body on.
LEMMA DeliverySteps ==
  ASSUME HistInv, Deliver \/ DrainBody \/ RunEnds
  PROVE  HistInv'
<1>1. UNCHANGED <<request, items, works, rounds, tries, dispatches, cooling, lapsed>>
  BY DEF Deliver, DrainBody, RunEnds, queueVars, envVars
<1>2. ASSUME NEW d \in Dates, NEW k \in DOMAIN HistMembers, NEW v \in {"accepted", "good", "bad"},
             sent[d][HistMembers[k]] \in {"retained", "accepted"},
             sent' = [sent EXCEPT ![d][HistMembers[k]] = v], UNCHANGED worker
      PROVE  HistInv'
  <2>1. \A i \in DOMAIN HistMembers : i < k => sent[d][HistMembers[i]] = "good"
    BY <1>2 DEF HistInv, InTurn
  <2>2. /\ \A e \in Dates, m \in MemberKeys : sent[e][m] = "good" => sent'[e][m] = "good"
        /\ \A e \in Dates, m \in MemberKeys : e # d \/ m # HistMembers[k] => sent'[e][m] = sent[e][m]
    BY <1>2, GoodStay, MemberKey
  <2>3. sent'[d][HistMembers[k]] = v
    BY <1>2, MemberKey DEF HistInv, HistTypeOK
  <2>4. Placed(worker)
    BY DEF HistInv
  <2>5. worker \in WorkerRows /\ (worker.pc # "idle" => worker.item \in Dates)
    BY <2>4 DEF Placed
  <2>6. worker.pc \in {"member", "ask", "prepare"} =>
          /\ worker.at \in DOMAIN HistMembers
          /\ \A i \in DOMAIN HistMembers : i < worker.at => sent'[worker.item][HistMembers[i]] = "good"
    BY <2>2, <2>4, MemberKey DEF Placed
  <2>7. worker.pc \in {"ask", "prepare"} => sent'[worker.item][HistMembers[worker.at]] = "none"
    BY <1>2, <2>2, <2>4, MemberKey DEF Placed
  <2>8. worker.pc = "complete" /\ worker.answer # "manual" => \A m \in MemberKeys : sent'[worker.item][m] # "retained"
    BY <1>2, <2>2, <2>3, <2>4, <2>5 DEF Placed, Pending
  <2>9. worker.pc = "ask" => dispatches[worker.item][HistMembers[worker.at]] < tries[worker.item][HistMembers[worker.at]]
    BY <2>4 DEF Placed
  <2>10. Placed(worker)'
    BY <1>1, <1>2, <2>5, <2>6, <2>7, <2>8, <2>9 DEF Placed, Pending
  <2> QED BY <1>1, <1>2, <2>1, <2>10, BodyMoves
<1>3. CASE Deliver
  <2>1. worker.pc = "member" /\ sent[Item][HistMembers[worker.at]] = "retained"
    BY <1>3 DEF Deliver, BodyOf, Member
  <2>2. worker \in WorkerRows /\ Item \in Dates /\ worker.at \in DOMAIN HistMembers
    BY <2>1 DEF HistInv, Placed, Item
  <2>3. CASE sent' = [sent EXCEPT ![Item][HistMembers[worker.at]] = "accepted"] /\ UNCHANGED worker
    BY <1>2, <2>1, <2>2, <2>3
  <2>4. CASE worker' = FailManual /\ UNCHANGED sent
    <3>1. Placed(worker)'
      BY <2>2, <2>4, Leaves
    <3>2. tries' \in [Dates -> [MemberKeys -> 0 .. MaxTries]] /\ dispatches' \in [Dates -> [MemberKeys -> Nat]]
          /\ Charged'
      BY <1>1, <2>4 DEF HistInv, HistTypeOK, Charged
    <3> QED BY <1>1, <2>4, <3>1, <3>2, BudgetMoves
  <2> QED BY <1>3, <2>3, <2>4 DEF Deliver, SetSent, Member
<1>4. CASE DrainBody
  <2>1. PICK m \in MemberKeys : sent[Item][m] = "retained" /\ sent' = [sent EXCEPT ![Item][m] = "accepted"]
    BY <1>4 DEF DrainBody, BodyOf, SetSent
  <2>2. PICK k \in DOMAIN HistMembers : m = HistMembers[k]
    BY DEF MemberKeys
  <2>3. UNCHANGED worker /\ Item \in Dates
    BY <1>4 DEF DrainBody, HistInv, Placed, Item
  <2> QED BY <1>2, <2>1, <2>2, <2>3
<1>5. CASE RunEnds
  <2>1. UNCHANGED worker
    BY <1>5 DEF RunEnds
  <2>2. PICK d \in Dates, m \in MemberKeys, how \in {"good", "bad"} :
          sent[d][m] = "accepted" /\ sent' = [sent EXCEPT ![d][m] = how]
    BY <1>5 DEF RunEnds
  <2>3. PICK k \in DOMAIN HistMembers : m = HistMembers[k]
    BY DEF MemberKeys
  <2> QED BY <1>2, <2>1, <2>2, <2>3
<1> QED BY <1>3, <1>4, <1>5

---------------------------------------------------------------------------
(* The backfill. *)

\* Before a request exists nothing is queued, retained or asked.
LEMMA HistStart ==
  ASSUME HistInit
  PROVE  HistInv
<1> USE DEF HistInit
<1>1. worker = Resting /\ Resting \in WorkerRows /\ Resting.pc = "idle"
  BY BackfillAssumption DEF Resting, WorkerRows
<1>2. \A d \in Dates, m \in MemberKeys : sent[d][m] = "none" /\ tries[d][m] = 0 /\ dispatches[d][m] = 0
  BY DEF NoSend
<1>3. HistTypeOK
  <2>1. [state |-> "open", drain |-> FALSE] \in RoundRows
    BY DEF RoundRows
  <2>2. NoSend \in [MemberKeys -> {"none", "retained", "accepted", "good", "bad"}]
    BY DEF NoSend
  <2>3. 0 \in 0 .. MaxTries
    BY BackfillAssumption
  <2> QED BY <1>1, <2>1, <2>2, <2>3 DEF HistTypeOK
<1>4. InTurn
  BY <1>2, MemberKey DEF InTurn
<1>5. Placed(worker)
  BY <1>1, Elsewhere
<1>6. Charged
  BY <1>2 DEF Charged
<1>7. RequestOK
  BY DEF RequestOK
<1> QED BY <1>3, <1>4, <1>5, <1>6, <1>7 DEF HistInv

\* The inductive invariant of a backfill: its members are asked for in turn and
\* on the budget the journal charged before the call, a worker stands where its
\* item's bodies put it, and the request says of its dates what they say.
THEOREM BackfillInvariance == HistSpec => []HistInv
<1>1. HistInit => HistInv
  BY HistStart
<1>2. HistInv /\ [HistNext]_histVars => HistInv'
  <2> SUFFICES ASSUME HistInv, [HistNext]_histVars PROVE HistInv'
    OBVIOUS
  <2>1. CASE UNCHANGED histVars
    <3>1. UNCHANGED <<request, items, works, rounds, sent, tries, dispatches, worker, cooling, lapsed>>
      BY <2>1 DEF histVars
    <3> QED BY <3>1, RequestStays DEF HistInv, HistTypeOK
  <2>2. CASE (\E open \in SUBSET Dates : CreateRequest(open)) \/ CancelRequest \/ ExpireRequests
    BY <2>2, RequestChanges
  <2>3. CASE WorkerStep
    BY <2>3, QueueSteps, ItemStep, CompleteStep, JournalSteps, PrepareStep, DeliverySteps DEF WorkerStep
  <2>4. CASE LoseWorker
    BY <2>4, LossStep
  <2>5. CASE RunEnds
    BY <2>5, DeliverySteps
  <2>6. CASE CooldownStarts \/ CooldownEnds \/ WindowPasses
    BY <2>6, QueueSteps
  <2> QED BY <2>1, <2>2, <2>3, <2>4, <2>5, <2>6 DEF HistNext
<1> QED BY <1>1, <1>2, PTL DEF HistSpec

\* The backfill's tables stay in their declared states.
THEOREM BackfillTypeCorrect == HistSpec => []HistTypeOK
<1>1. HistInv => HistTypeOK
  BY DEF HistInv
<1> QED BY <1>1, BackfillInvariance, PTL

\* A backfill reads completed only with a good run of every member of every
\* date, whatever is lost on the way, an ended one leaves no date waiting, and
\* the provider is never asked for a member of a date more often than the budget.
THEOREM BackfillIsSound == HistSpec => []BackfillSound
<1>1. HistInv => BackfillSound
  <2> SUFFICES ASSUME HistInv PROVE BackfillSound
    OBVIOUS
  <2>1. BackfillWhole
    BY DEF HistInv, RequestOK, Placed, BackfillWhole, Item
  <2>2. DispatchBudget
    <3>1. ASSUME NEW d \in Dates, NEW m \in MemberKeys PROVE dispatches[d][m] <= MaxTries
      <4>1. /\ dispatches[d][m] <= IF sent[d][m] = "none" THEN tries[d][m] ELSE MaxTries
            /\ tries[d][m] \in 0 .. MaxTries /\ dispatches[d][m] \in Nat
        BY <3>1 DEF HistInv, HistTypeOK, Charged
      <4> QED BY <4>1, BackfillAssumption
    <3> QED BY <3>1 DEF DispatchBudget
  <2> QED BY <2>1, <2>2 DEF BackfillSound
<1> QED BY <1>1, BackfillInvariance, PTL
=============================================================================
