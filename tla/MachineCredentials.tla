------------------------- MODULE MachineCredentials -------------------------
(***************************************************************************)
(* Source clients and API keys: issue, rotation, revocation and expiry     *)
(* (backend/app/services/{source_clients,api_keys}.py and the credential   *)
(* endpoints of backend/app/api/v1/admin.py), the deployment that          *)
(* reconciles its own keys (backend/scripts/reconcile_*_credentials.py),   *)
(* and the counting of their use in every server process                   *)
(* (backend/app/services/credential_usage.py).                             *)
(*                                                                         *)
(* A key is its hash.  A deployment locks the rows it has found, decides   *)
(* and commits; operators act in between on the rows it does not hold.     *)
(* One deployment runs at a time (the workflows' concurrency groups).      *)
(***************************************************************************)
EXTENDS Integers, FiniteSets, FiniteSetsExt

CONSTANTS Keys, Names, Scopes,          \* hashes, identities, datasets
          Wanted,                       \* Wanted[n]: the scope the deployment's spec gives n
          Servers,                      \* API processes
          MaxUses, MaxServerFaults, MaxDeploys   \* bounds

NoKey == [name |-> "none", state |-> "none", scope |-> {}]
NoUse == [count |-> 0, last |-> 0]

VARIABLES keys,       \* source_client and api_key
          deploy,     \* the rows a deployment has locked and its hashes, or idle
          pending,    \* pending[p][k]: uses a process has not flushed
          batch,      \* batch[p]: what its flush under way has taken
          rollup,     \* credential_usage_rollup
          used,       \* used[k]: times of the uses so far
          gone,       \* gone[k]: uses lost with a process
          again,      \* again[k]: uses of a batch that was written and returned
          now, crashed, deploys

credentialVars == <<keys, deploy, pending, batch, rollup, used, gone, again, now, crashed, deploys>>
usageVars == <<pending, batch, rollup, used, gone, again, now, crashed>>

NoUses == [k \in Keys |-> NoUse]
Idle == [held |-> {}, wants |-> <<>>]

CredentialTypeOK ==
    /\ \A k \in Keys : /\ keys[k].name \in Names \cup {"none"} /\ keys[k].scope \subseteq Scopes
                       /\ keys[k].state \in {"none", "active", "expiring", "revoked", "expired"}
    /\ deploy.held \subseteq Keys /\ now \in 0 .. MaxUses
    /\ \A k \in Keys : rollup[k].last \in 0 .. now /\ used[k] \subseteq 1 .. now

CredentialInit ==
    /\ keys = [k \in Keys |-> NoKey] /\ deploy = Idle /\ deploys = 0
    /\ pending = [p \in Servers |-> NoUses] /\ batch = [p \in Servers |-> NoUses]
    /\ rollup = NoUses /\ used = [k \in Keys |-> {}] /\ gone = [k \in Keys |-> 0] /\ again = gone
    /\ now = 0 /\ crashed = 0

Active(k) == keys[k].state \in {"active", "expiring"}
ActiveNamed(n) == {k \in Keys : keys[k].name = n /\ Active(k)}

---------------------------------------------------------------------------
(* Operators. *)

\* normalize_provider_scope(): a non-empty part of the provider's datasets.
InScope(scope) == scope # {} /\ scope \subseteq Scopes

\* create_source_client(), create_api_key().
NewKey(n, scope, expires) ==
    [name |-> n, scope |-> scope, state |-> IF expires THEN "expiring" ELSE "active"]

CreateKey(k, n, scope, expires) ==
    /\ keys[k].state = "none" /\ InScope(scope)
    /\ keys' = [keys EXCEPT ![k] = NewKey(n, scope, expires)]
    /\ UNCHANGED <<deploy, deploys, usageVars>>

\* rotate_source_client(), rotate_api_key(): a second key of the same
\* identity; the first stays until it is revoked.
RotateKey(old, new) ==
    /\ keys[old].state # "none" /\ keys[new].state = "none"
    /\ keys' = [keys EXCEPT ![new] = NewKey(keys[old].name, keys[old].scope, FALSE)]
    /\ UNCHANGED <<deploy, deploys, usageVars>>

RevokeKey(k) ==
    /\ keys[k].state \in {"active", "expiring", "expired"} /\ k \notin deploy.held
    /\ keys' = [keys EXCEPT ![k].state = "revoked"]
    /\ UNCHANGED <<deploy, deploys, usageVars>>

KeyExpires(k) ==
    /\ keys[k].state = "expiring" /\ keys' = [keys EXCEPT ![k].state = "expired"]
    /\ UNCHANGED <<deploy, deploys, usageVars>>

---------------------------------------------------------------------------
(* A deployment. *)

\* SELECT ... FOR UPDATE of the rows with the name or the hash of a spec.
BeginDeploy(wants) ==
    /\ deploy = Idle /\ deploys < MaxDeploys /\ deploys' = deploys + 1
    /\ deploy' = [wants |-> wants, held |-> {k \in Keys : keys[k].state # "none" /\
                     (keys[k].name \in Names \/ k \in {wants[n] : n \in Names})}]
    /\ UNCHANGED <<keys, usageVars>>

\* reconcile_source_credential(), reconcile_machine_credential(): the rows held
\* decide.  TRUE when the identity's state is not one it may touch.
Ambiguous(n) ==
    LET k == deploy.wants[n]
        named == ActiveNamed(n) \cap deploy.held
    IN \/ Cardinality(named) > 1
       \/ k \in deploy.held /\ (keys[k].name # n \/ keys[k].state # "active" \/ named # {k})
       \/ k \notin deploy.held /\ keys[k].state # "none"      \* unique hash

\* Faulty variant of ScopeAfter: a rotation starts from the spec alone.
ScopeOfSpec(n) == Wanted[n]

\* _apply_source_policy() keeps what the identity already may deliver; a
\* rotation carries it over.
ScopeAfter(n) == Wanted[n] \cup UNION {keys[k].scope : k \in ActiveNamed(n) \cap deploy.held}

\* All identities in one transaction.
CommitDeploy ==
    /\ deploy # Idle /\ \A n \in Names : ~ Ambiguous(n)
    /\ keys' = [k \in Keys |->
                  IF \E n \in Names : deploy.wants[n] = k
                  THEN LET n == CHOOSE m \in Names : deploy.wants[m] = k
                       IN [name |-> n, state |-> "active", scope |-> ScopeAfter(n)]
                  ELSE IF Active(k) /\ k \in deploy.held
                  THEN [keys[k] EXCEPT !.state = "revoked"] ELSE keys[k]]
    /\ deploy' = Idle /\ UNCHANGED <<deploys, usageVars>>

\* An identity is ambiguous, a hash is taken, check_only, or the connection is
\* lost: nothing is written.
AbortDeploy ==
    /\ deploy # Idle /\ deploy' = Idle /\ UNCHANGED <<keys, deploys, usageVars>>

---------------------------------------------------------------------------
(* Use. *)

Plus(a, b) == [count |-> a.count + b.count, last |-> IF a.last > b.last THEN a.last ELSE b.last]

\* verify_source_api_key(), find_active_api_key(), record_usage().
Use(p, k) ==
    /\ Active(k) /\ now < MaxUses /\ now' = now + 1
    /\ used' = [used EXCEPT ![k] = @ \cup {now + 1}]
    /\ pending' = [pending EXCEPT ![p][k] = Plus(@, [count |-> 1, last |-> now + 1])]
    /\ UNCHANGED <<keys, deploy, deploys, batch, rollup, gone, again, crashed>>

\* Faulty variant of Taken: the pending uses are cleared only once written.
TakenKept(p) == pending

\* flush_usage(): the batch leaves the process under its lock.
Taken(p) == [pending EXCEPT ![p] = NoUses]

TakeBatch(p) ==
    /\ batch[p] = NoUses /\ pending[p] # NoUses
    /\ batch' = [batch EXCEPT ![p] = pending[p]] /\ pending' = Taken(p)
    /\ UNCHANGED <<keys, deploy, deploys, rollup, used, gone, again, now, crashed>>

Written(uses) == [k \in Keys |-> Plus(rollup[k], uses[k])]
Added(counts, uses) == [k \in Keys |-> counts[k] + uses[k].count]

WriteBatch(p) ==
    /\ batch[p] # NoUses
    /\ rollup' = Written(batch[p]) /\ batch' = [batch EXCEPT ![p] = NoUses]
    /\ UNCHANGED <<keys, deploy, deploys, pending, used, gone, again, now, crashed>>

\* The transaction raises: the batch joins what was recorded meanwhile. The
\* commit may have landed all the same, and lost only its acknowledgement.
ReturnBatch(p, landed) ==
    /\ batch[p] # NoUses /\ crashed < MaxServerFaults /\ crashed' = crashed + 1
    /\ rollup' = IF landed THEN Written(batch[p]) ELSE rollup
    /\ again' = IF landed THEN Added(again, batch[p]) ELSE again
    /\ pending' = [pending EXCEPT ![p] = [k \in Keys |-> Plus(pending[p][k], batch[p][k])]]
    /\ batch' = [batch EXCEPT ![p] = NoUses]
    /\ UNCHANGED <<keys, deploy, deploys, used, gone, now>>

\* A process dies with what it holds, the commit of its batch landed or not.
ServerDies(p, landed) ==
    /\ crashed < MaxServerFaults /\ crashed' = crashed + 1
    /\ rollup' = IF landed THEN Written(batch[p]) ELSE rollup
    /\ gone' = Added(IF landed THEN gone ELSE Added(gone, batch[p]), pending[p])
    /\ pending' = [pending EXCEPT ![p] = NoUses] /\ batch' = [batch EXCEPT ![p] = NoUses]
    /\ UNCHANGED <<keys, deploy, deploys, used, again, now>>

\* One shut down in order cancels its flush, which returns nothing (it catches
\* Exception), and then flushes the rest.
ServerStops(p, landed) ==
    /\ crashed < MaxServerFaults /\ crashed' = crashed + 1
    /\ rollup' = [k \in Keys |-> Plus(IF landed THEN Written(batch[p])[k] ELSE rollup[k],
                                      pending[p][k])]
    /\ gone' = IF landed THEN gone ELSE Added(gone, batch[p])
    /\ pending' = [pending EXCEPT ![p] = NoUses] /\ batch' = [batch EXCEPT ![p] = NoUses]
    /\ UNCHANGED <<keys, deploy, deploys, used, again, now>>

CredentialNext ==
    \/ \E k \in Keys, n \in Names, s \in SUBSET Scopes, e \in BOOLEAN : CreateKey(k, n, s, e)
    \/ \E old, new \in Keys : RotateKey(old, new)
    \/ \E k \in Keys : RevokeKey(k) \/ KeyExpires(k)
    \/ \E w \in [Names -> Keys] : (\A m, n \in Names : m # n => w[m] # w[n]) /\ BeginDeploy(w)
    \/ CommitDeploy \/ AbortDeploy
    \/ \E p \in Servers : \/ \E k \in Keys : Use(p, k)
                          \/ TakeBatch(p) \/ WriteBatch(p)
                          \/ \E landed \in BOOLEAN : \/ ReturnBatch(p, landed) \/ ServerDies(p, landed)
                                                     \/ ServerStops(p, landed)

CredentialSpec == CredentialInit /\ [][CredentialNext]_credentialVars

---------------------------------------------------------------------------
(* Properties. *)

\* Every use of a key is accounted for: it is written, waiting in a process,
\* in a flush, or lost with a process. Failed flushes and uses recorded while
\* one is under way lose none, and repeat none but those of a batch whose
\* commit landed and lost its acknowledgement, because flush_usage puts the
\* batch back after any exception.
UsageConserved ==
    \A k \in Keys :
       rollup[k].count + MapThenSumSet(LAMBDA p : pending[p][k].count + batch[p][k].count, Servers)
         + gone[k] = Cardinality(used[k]) + again[k]

\* A deployment never narrows what an identity may deliver: parts of plans
\* frozen for it under an older scope still arrive.
ScopeRetained ==
      \A n \in Names :
         (deploy # Idle /\ keys' # keys /\ deploy' = Idle)
           => UNION {keys[k].scope : k \in ActiveNamed(n) \cap deploy.held}
                \subseteq UNION {keys'[k].scope : k \in {j \in Keys : keys'[j].name = n
                                                                    /\ keys'[j].state = "active"}}
=============================================================================
