----------------------------- MODULE MCWorkParts ----------------------------
(* The provider work queue in small settings of which part names one; the  *)
(* works outside the setting are never created: a daily work alone, or a   *)
(* historical work beside a rerun, each under the fairness of the fetcher. *)
EXTENDS MCProviderWork

VARIABLE part

partVars == <<part, vars>>

Present == CASE part = "daily" -> {d} [] part = "fifo" -> {h, r}

Row(w) == <<work[w], round[w], prepared[w], receipt[w], item[w], lapsed[w], skip[w]>>

\* A step that stays within the setting: absent works stay absent, the daily
\* control and window concern the daily work.
Within(A) ==
    /\ A /\ UNCHANGED part
    /\ \A w \in Works \ Present : UNCHANGED Row(w)
    /\ part # "daily" => UNCHANGED <<control, window>>

Act(S(_)) == Within(\E c \in Clients : S(c))

LiveSpec ==
    /\ Init /\ part \in {"daily", "fifo"} /\ [][Within(Next)]_partVars
    /\ \A w \in Works : WF_partVars(Within(RoundComesDue(w)))
    /\ \A w \in Works, k \in Keys : WF_partVars(Within(RunFinishes(w, k)))
    /\ SF_partVars(Act(Recover))
    /\ SF_partVars(Act(ClaimFresh))
    /\ SF_partVars(Act(DeliverRetained))
    /\ SF_partVars(Act(ExecuteRerun))
    /\ SF_partVars(Act(Close))
    /\ SF_partVars(Act(Settle))

---------------------------------------------------------------------------
(* Properties. *)

Dated == IF part = "daily" THEN d ELSE h

\* The slot of a daily work is always released again: no expiry, crash, stop
\* or drain leaves the provider blocked for ever. And bytes once retained are
\* accepted or waived for manual review, even if the work is stopped,
\* cancelled, expired or cooling down for ever and other works keep retrying.
Waits(i) == \/ i = 1 /\ part = "daily" /\ owner.work # NoWork
            \/ i = 2 /\ \E k \in Keys : prepared[Dated][k] # NoBody
Over(i) == \/ i = 1 /\ owner.work = NoWork
           \/ i = 2 /\ \A k \in Keys : receipt[Dated][k] # NoReceipt \/ round[Dated].outcome = "waived"
WorkSettles == \A i \in 1 .. 2 : Waits(i) ~> Over(i)
=============================================================================
