--------------------------- MODULE IngestPromise ---------------------------
(***************************************************************************)
(* What the canonical ingest endpoint promises its callers, without        *)
(* attempts, locks, transactions or failures.  For every idempotency key   *)
(* at most one request is kept, a request is kept only before it is        *)
(* answered, "accepted" means that exactly this content is kept, and a     *)
(* refusal means that this request is not what is kept.  A caller that is  *)
(* told "unavailable" or "internal", or nothing at all, knows nothing and  *)
(* has to try again with the same key.                                     *)
(***************************************************************************)
CONSTANTS Requests,    \* ingest requests; a retry is another request
          Keys,        \* (source client, dataset, idempotency key)
          Key,         \* the key of each request
          Body,        \* the content of each request
          NoRequest    \* a key nothing is kept for

VARIABLES kept,        \* the request whose content is kept under a key
          told         \* the answer each request got

vars == <<kept, told>>

Init ==
    /\ kept = [k \in Keys |-> NoRequest]
    /\ told = [r \in Requests |-> "none"]

\* The content becomes durable; only the first request of a key gets here.
Keep(r) ==
    /\ told[r] = "none"
    /\ kept[Key[r]] = NoRequest
    /\ kept' = [kept EXCEPT ![Key[r]] = r]
    /\ UNCHANGED told

Tell(r, answer) ==
    /\ told[r] = "none"
    /\ told' = [told EXCEPT ![r] = answer]
    /\ UNCHANGED kept

SameContent(r) ==
    /\ kept[Key[r]] # NoRequest
    /\ Body[kept[Key[r]]] = Body[r]

TellAccepted(r) == SameContent(r) /\ Tell(r, "accepted")
TellRejected(r) == kept[Key[r]] # r /\ Tell(r, "rejected")
TellRetry(r) == \E a \in {"unavailable", "internal"} : Tell(r, a)

Next ==
    \E r \in Requests :
        Keep(r) \/ TellAccepted(r) \/ TellRejected(r) \/ TellRetry(r)

Spec == Init /\ [][Next]_vars
=============================================================================
