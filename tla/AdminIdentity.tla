--------------------------- MODULE AdminIdentity ----------------------------
(***************************************************************************)
(* Administrators and their sessions                                       *)
(* (backend/app/services/admin_identity.py, the auth and user endpoints of *)
(* backend/app/api/v1/admin.py, the principal checks of                    *)
(* backend/app/api/deps.py).                                               *)
(*                                                                         *)
(* A request resolves its principal and loads the row it changes, decides  *)
(* under the identity lock where the code takes it, and commits; requests  *)
(* of different clients interleave between those steps.  As the ORM does,  *)
(* a commit writes the columns whose value differs from the loaded one.    *)
(***************************************************************************)
EXTENDS Integers, FiniteSets

CONSTANTS Admins, Requests,                    \* user ids; concurrent requests
          MaxAdminRequests, MaxSessions        \* bounds

Roles == {"owner", "operator", "viewer"}
NoUser == [role |-> "none", active |-> "no", password |-> 0]
NoRequest == [op |-> "idle"]
Patches == [role : Roles \cup {"keep"}, active : {"yes", "no", "keep"}]

VARIABLES users,       \* admin_user
          sessions,    \* admin_session: the live ones, by user and number
          request,     \* what each client's request has read
          identity,    \* who holds the advisory lock: a set of one, or of none
          bootstraps, served, issued

identityVars == <<users, sessions, request, identity, bootstraps, served, issued>>

IdentityTypeOK ==
    /\ \A u \in Admins : /\ users[u].role \in Roles \cup {"none"}
                         /\ users[u].active \in {"yes", "no"} /\ users[u].password \in 0 .. MaxAdminRequests
    /\ sessions \subseteq [user : Admins, password : 0 .. MaxAdminRequests, number : 1 .. MaxSessions]
    /\ identity \subseteq Requests /\ issued \in 0 .. MaxSessions

IdentityInit ==
    /\ users = [u \in Admins |-> NoUser] /\ sessions = {} /\ request = [c \in Requests |-> NoRequest]
    /\ identity = {} /\ bootstraps = 0 /\ served = 0 /\ issued = 0

Exists(u) == users[u].role # "none"
ActiveOwners == {u \in Admins : users[u].role = "owner" /\ users[u].active = "yes"}

\* find_active_session() joins the user, who must be active.
LiveSession(u) == users[u].active = "yes" /\ \E s \in sessions : s.user = u

\* A request that needs an owner may always come with the break-glass key.
Open(c, row) == /\ request[c] = NoRequest /\ served < MaxAdminRequests /\ served' = served + 1
                /\ request' = [request EXCEPT ![c] = row]
Close(c) == request' = [request EXCEPT ![c] = NoRequest] /\ identity' = identity \ {c}

\* issue_session(); the session remembers the password it was opened with.
IssueSession(u, password) ==
    /\ issued < MaxSessions /\ issued' = issued + 1
    /\ sessions' = sessions \cup {[user |-> u, password |-> password, number |-> issued + 1]}

\* revoke_user_sessions().
WithoutSessions(u) == {s \in sessions : s.user # u}

---------------------------------------------------------------------------
(* Requests. *)

\* bootstrap_admin(), lock_admin_identity(): the first owner only.
BeginBootstrap(c) ==
    /\ Open(c, [op |-> "bootstrap"]) /\ UNCHANGED <<users, sessions, identity, bootstraps, issued>>

\* lock_admin_identity()
LockFree(c) == identity \subseteq {c}

BootstrapChecks(c, u) ==
    /\ request[c].op = "bootstrap" /\ LockFree(c) /\ \A v \in Admins : ~ Exists(v)
    /\ identity' = {c} /\ request' = [request EXCEPT ![c] = [op |-> "first", user |-> u]]
    /\ UNCHANGED <<users, sessions, bootstraps, served, issued>>

BootstrapRefused(c) ==
    /\ \/ request[c].op = "bootstrap" /\ LockFree(c) /\ \E v \in Admins : Exists(v)
       \/ request[c].op = "first" /\ Exists(request[c].user)
    /\ Close(c) /\ UNCHANGED <<users, sessions, bootstraps, served, issued>>

CommitBootstrap(c) ==
    /\ request[c].op = "first" /\ ~ Exists(request[c].user) /\ bootstraps' = bootstraps + 1
    /\ users' = [users EXCEPT ![request[c].user] =
                   [role |-> "owner", active |-> "yes", password |-> served]]
    /\ IssueSession(request[c].user, served)
    /\ Close(c) /\ UNCHANGED served

\* create_admin_user().
CreateUser(u, role) ==
    /\ ~ Exists(u) /\ served < MaxAdminRequests /\ served' = served + 1
    /\ users' = [users EXCEPT ![u] = [role |-> role, active |-> "yes", password |-> served']]
    /\ UNCHANGED <<sessions, request, identity, bootstraps, issued>>

\* update_admin_user(): the row as loaded decides whether an owner is removed.
RemovesOwner(row, patch) ==
    row.role = "owner" /\ (patch.role \in Roles \ {"owner"} \/ patch.active = "no")

BeginUpdate(c, u, patch) ==
    /\ Exists(u) /\ Open(c, [op |-> "update", user |-> u, row |-> users[u], patch |-> patch])
    /\ UNCHANGED <<users, sessions, identity, bootstraps, issued>>

\* update_user(): the last active owner stays.
OwnerCounted(c) ==
    /\ request[c].op = "update" /\ RemovesOwner(request[c].row, request[c].patch) /\ LockFree(c)
    /\ IF Cardinality(ActiveOwners) <= 1 THEN Close(c)
       ELSE identity' = {c} /\ request' = [request EXCEPT ![c].op = "counted"]
    /\ UNCHANGED <<users, sessions, bootstraps, served, issued>>

Changed(old, loaded, new) == IF new = "keep" \/ new = loaded THEN old ELSE new

CommitUpdate(c) ==
    LET r == request[c]
    IN /\ \/ r.op = "counted"
          \/ r.op = "update" /\ ~ RemovesOwner(r.row, r.patch)
       /\ users' = [users EXCEPT ![r.user].role = Changed(@, r.row.role, r.patch.role),
                                 ![r.user].active = Changed(@, r.row.active, r.patch.active)]
       /\ sessions' = IF r.patch.active = "no" THEN WithoutSessions(r.user) ELSE sessions
       /\ Close(c) /\ UNCHANGED <<bootstraps, served, issued>>

\* login_admin(): the password is verified against the row loaded, the
\* session is inserted later.
BeginLogin(c, u) ==
    /\ users[u].active = "yes" /\ Open(c, [op |-> "login", user |-> u, password |-> users[u].password])
    /\ UNCHANGED <<users, sessions, identity, bootstraps, issued>>

CommitLogin(c) ==
    /\ request[c].op = "login" /\ IssueSession(request[c].user, request[c].password)
    /\ Close(c) /\ UNCHANGED <<users, bootstraps, served>>

\* logout_admin(), revoke_session().
Logout(s) ==
    /\ s \in sessions /\ users[s.user].active = "yes" /\ sessions' = sessions \ {s}
    /\ UNCHANGED <<users, request, identity, bootstraps, served, issued>>

\* Session expiry.
SessionExpires(s) ==
    /\ s \in sessions /\ sessions' = sessions \ {s}
    /\ UNCHANGED <<users, request, identity, bootstraps, served, issued>>

\* set_password(), by the user (change_admin_password) or by an owner
\* (reset_admin_user_password).
SetPassword(u, byOwner) ==
    /\ Exists(u) /\ served < MaxAdminRequests /\ served' = served + 1
    /\ byOwner \/ LiveSession(u)
    /\ users' = [users EXCEPT ![u].password = served']
    /\ sessions' = WithoutSessions(u)
    /\ UNCHANGED <<request, identity, bootstraps, issued>>

IdentityNext ==
    \/ \E c \in Requests :
         \/ BeginBootstrap(c) \/ BootstrapRefused(c) \/ CommitBootstrap(c)
         \/ OwnerCounted(c) \/ CommitUpdate(c) \/ CommitLogin(c)
         \/ \E u \in Admins : \/ BootstrapChecks(c, u) \/ BeginLogin(c, u)
                              \/ \E p \in Patches : BeginUpdate(c, u, p)
    \/ \E s \in sessions : Logout(s) \/ SessionExpires(s)
    \/ \E u \in Admins, byOwner \in BOOLEAN : SetPassword(u, byOwner)
    \/ \E u \in Admins, role \in Roles : CreateUser(u, role)

IdentitySpec == IdentityInit /\ [][IdentityNext]_identityVars

---------------------------------------------------------------------------
(* Properties. *)

\* However many first requests race, one of them creates the first owner: the
\* others wait for the identity lock and then find the user it created.
OneBootstrap == bootstraps <= 1

\* After a bootstrap there is always an active owner: "Cannot disable or
\* downgrade the last active owner" (admin_identity.py).
OwnerRemains == bootstraps > 0 => ActiveOwners # {}
=============================================================================
