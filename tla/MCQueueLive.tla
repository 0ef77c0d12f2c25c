---------------------------- MODULE MCQueueLive ----------------------------
(* The normalization queue under fairness, with one worker process and two *)
(* faults, or with two worker processes and one fault: part says which. In *)
(* a "single" behaviour no other worker takes a message.                   *)
EXTENDS MCNormalizationQueue

VARIABLE part

liveVars == <<part, vars>>

\* A step of the queue that stays within what the part allows.
Within(A) ==
    /\ A /\ UNCHANGED part
    /\ part = "single" => \A w \in Workers \ {w1} : pc'[w] = "idle"
    /\ part = "pair" => faults' <= 1

LiveSpec ==
    /\ Init /\ part \in {"single", "pair"} /\ [][Within(Next)]_liveVars
    /\ WF_liveVars(Within(\E S \in SUBSET StaleJobs : ReconcileStaleJobs(S)))
    /\ WF_liveVars(Within(\E B \in SUBSET Claimable : ClaimOutboxBatch(B)))
    /\ WF_liveVars(Within(\E r \in Runs, d \in Deliveries : PublishOutboxEvent(r, d)))
    /\ WF_liveVars(Within(MarkOutboxPublished \/ MarkOutboxPublishFailure))
    /\ \A w \in Workers :
          /\ WF_liveVars(Within(\E r \in Runs, d \in Deliveries : ReadJob(w, r, d)))
          /\ WF_liveVars(Within(WorkerStep(w)))

---------------------------------------------------------------------------
(* Properties. *)

\* With one worker process job and run finish together and with the same
\* outcome (execute_normalization).
FinishTogether == part = "single" => JobRunAgree

\* With one worker process a terminal run and its job are final.
FinalForOne == [][part = "single" => KeepsTerminal]_liveVars

\* Every accepted job ends in a terminal status for good, whatever was lost or
\* crashed on the way; with one worker process its run ends with it.
QueueSettles ==
    \A r \in Runs :
        job[r].status # "none" ~>
            [](job[r].status \in TERMINAL_STATUSES /\ (part = "single" => job[r].status = run[r]))
=============================================================================
