------------------------------- MODULE Accounts -------------------------------
(***************************************************************************)
(* Accounts: users, the external identities they sign in with, login       *)
(* sessions, and the OAuth flows that create all three (auth/service.py,   *)
(* auth/router.py, auth/dependencies.py).                                  *)
(*                                                                         *)
(* The tables are shared by the server processes.  A request is a          *)
(* coroutine: it reads the current user, waits for the rest of its         *)
(* dependencies, and runs its handler; a callback waits a second time, for *)
(* the provider.  Between two awaits it has the event loop of its process  *)
(* for itself, so another request comes in between only in a race, that    *)
(* is, in another process.  A transaction is two steps, its checks and its *)
(* commit: nothing in it is locked, whatever _get_user_for_update says.    *)
(*                                                                         *)
(* One provider; its subjects stand for (provider, provider_subject).      *)
(* Profiles, audit events, cookies and rate limits are left out.           *)
(***************************************************************************)
EXTENDS Naturals, FiniteSets

CONSTANTS
    Users,     \* user ids
    Dev,       \* auth.dev_user_id
    Subjects,  \* accounts of the people at the provider
    Tokens,    \* session tokens, each issued once
    Flows,     \* OAuth states, each issued once
    Reqs,      \* requests in flight
    None

ASSUME AccountsAssumption ==
    /\ Dev \in Users
    /\ None \notin Users \cup Subjects \cup Tokens \cup Flows \cup Reqs

VARIABLES
    conf,    \* how the service is deployed, see Conf; never changes
    users,   \* user -> status of its row, "none" without a row
    ident,   \* subject -> owner and status of its identity row
    sess,    \* token -> user and state of its session row
    flows,   \* OAuth state -> purpose, user and stage of its row
    req,     \* request -> where it is, and what it has read
    uses     \* OAuth state -> sessions and bindings it led to (history)

tables == <<users, ident, sess, flows>>
vars == <<conf, tables, req, uses>>

\* race: several processes serve requests.  required: auth.required.
\* admins: auth.admin_user_ids.
Conf == [race : BOOLEAN, required : BOOLEAN, admins : SUBSET (Users \ {Dev})]

UserStatus == {"none", "active", "disabled", "deleted"}
Identity == [owner : Users \cup {None},
             status : {"none", "active", "unlinked", "disabled"}]
UserSession == [user : Users \cup {None},
                state : {"none", "live", "revoked", "expired"}]
OAuthState == [purpose : {"login", "link"}, user : Users \cup {None},
               stage : {"none", "issued", "expired", "consumed", "gone"}]

\* Where a request is: at an await, or between the steps of a handler.
Awaits == {"idle", "callback", "unbind", "link", "logout_all", "admin", "exchange"}
Inside == {"consume", "unbinding", "binding", "bind", "finding", "register",
           "signin", "session"}
Request == [pc : Awaits \cup Inside, flow : Flows \cup {None},
            cur : Users \cup {None}, subj : Subjects \cup {None}]

Idle == [pc |-> "idle", flow |-> None, cur |-> None, subj |-> None]

\* A service that requires sign-in starts with an administrator who once signed
\* in, a development one with an empty database and no list of administrators;
\* several processes serve the first kind only (validate_auth_production_config).
Init ==
    \E c \in Conf, s \in Subjects :
        /\ Cardinality(c.admins) = IF c.required THEN 1 ELSE 0
        /\ c.race => c.required
        /\ conf = c
        /\ users = [u \in Users |-> IF u \in c.admins THEN "active" ELSE "none"]
        /\ ident = [x \in Subjects |->
              IF x = s /\ c.admins # {}
              THEN [owner |-> CHOOSE u \in c.admins : TRUE, status |-> "active"]
              ELSE [owner |-> None, status |-> "none"]]
        /\ sess = [t \in Tokens |-> [user |-> None, state |-> "none"]]
        /\ flows = [f \in Flows |-> [purpose |-> "login", user |-> None, stage |-> "none"]]
        /\ req = [q \in Reqs |-> Idle]
        /\ uses = [f \in Flows |-> 0]

-----------------------------------------------------------------------------
(***************************************************************************)
(* The event loop, and the helpers of the service.                         *)
(***************************************************************************)
\* A step of request q, or of a request that is a single step.
Turn(q) == conf.race \/ \A r \in Reqs \ {q} : req[r].pc \in Awaits

At(q, pc) == req[q].pc = pc /\ Turn(q)
Goto(q, pc) == req' = [req EXCEPT ![q].pc = pc]
Done(q) == req' = [req EXCEPT ![q] = Idle]

\* get_user_by_session_token: without a cookie, None.
CurrentUser(t) ==
    IF t # None /\ sess[t].state = "live" /\ users[sess[t].user] = "active"
    THEN sess[t].user ELSE None

\* ensure_dev_user: creates the user, or makes it active again.
EnsureDevUser == users' = [users EXCEPT ![Dev] = "active"]

\* _get_identity_for_update finds active rows only; the unique constraint on
\* (provider, provider_subject) counts all of them.
Bound(s) == ident[s].status = "active"
Taken(s) == ident[s].owner # None

ActiveOf(u) == {s \in Subjects : ident[s].owner = u /\ Bound(s)}
Revoke(T) == [t \in Tokens |->
    IF t \in T /\ sess[t].state = "live" THEN [sess[t] EXCEPT !.state = "revoked"]
    ELSE sess[t]]
SessionsOf(u) == {t \in Tokens : sess[t].user = u}

-----------------------------------------------------------------------------
(***************************************************************************)
(* Requests begin.                                                         *)
(***************************************************************************)
\* The callback takes the current user if there is one.
Callback(q, f, t) ==
    /\ At(q, "idle")
    /\ flows[f].stage # "none"
    /\ req' = [req EXCEPT ![q] = [Idle EXCEPT !.pc = "callback", !.flow = f,
                                               !.cur = CurrentUser(t)]]
    /\ UNCHANGED <<conf, tables, uses>>

\* require_current_user: without a user the request is refused, or the
\* development user takes its place.
Required(q, pc, t) ==
    /\ At(q, "idle")
    /\ IF CurrentUser(t) # None
       THEN /\ req' = [req EXCEPT ![q] = [Idle EXCEPT !.pc = pc, !.cur = CurrentUser(t)]]
            /\ UNCHANGED users
       ELSE /\ ~ conf.required
            /\ EnsureDevUser
            /\ req' = [req EXCEPT ![q] = [Idle EXCEPT !.pc = pc, !.cur = Dev]]
    /\ UNCHANGED <<conf, ident, sess, flows, uses>>

\* require_admin_user
IsAdmin(u) == u \in conf.admins \/ (conf.admins = {} /\ ~ conf.required /\ u = Dev)

-----------------------------------------------------------------------------
(***************************************************************************)
(* OAuth states.                                                           *)
(***************************************************************************)
NewState(f, purpose, u) ==
    /\ flows[f].stage = "none"
    /\ flows' = [flows EXCEPT ![f] = [purpose |-> purpose, user |-> u, stage |-> "issued"]]

ProviderLogin(f) ==
    /\ Turn(None)
    /\ NewState(f, "login", None)
    /\ UNCHANGED <<conf, users, ident, sess, req, uses>>

ProviderLink(q, f) ==
    /\ At(q, "link")
    /\ NewState(f, "link", req[q].cur)
    /\ Done(q)
    /\ UNCHANGED <<conf, users, ident, sess, uses>>

\* Ten minutes pass.
StateExpires(f) ==
    /\ Turn(None)
    /\ flows[f].stage = "issued"
    /\ flows' = [flows EXCEPT ![f].stage = "expired"]
    /\ UNCHANGED <<conf, users, ident, sess, req, uses>>

\* cleanup_expired_oauth_states deletes consumed rows as well.
CleanupState(f) ==
    /\ Turn(None)
    /\ flows[f].stage \in {"expired", "consumed"}
    /\ flows' = [flows EXCEPT ![f].stage = "gone"]
    /\ UNCHANGED <<conf, users, ident, sess, req, uses>>

\* consume_oauth_state: the state is checked ...
ConsumeCheck(q) ==
    /\ At(q, "callback")
    /\ IF flows[req[q].flow].stage = "issued" THEN Goto(q, "consume") ELSE Done(q)
    /\ UNCHANGED <<conf, tables, uses>>

\* mutant: the state is marked after the exchange
ConsumeLate(q) ==
    /\ At(q, "consume")
    /\ Goto(q, "exchange")
    /\ UNCHANGED <<conf, tables, uses>>

\* ... and marked, before the provider is asked.  The update of a row that was
\* deleted in between fails.
Consume(q) ==
    /\ At(q, "consume")
    /\ IF flows[req[q].flow].stage # "gone"
       THEN /\ flows' = [flows EXCEPT ![req[q].flow].stage = "consumed"]
            /\ Goto(q, "exchange")
       ELSE Done(q) /\ UNCHANGED flows
    /\ UNCHANGED <<conf, users, ident, sess, uses>>

\* exchange_code and normalize_identity: the provider refuses, or names a subject.
ExchangeFails(q) ==
    /\ At(q, "exchange")
    /\ Done(q)
    /\ UNCHANGED <<conf, tables, uses>>

\* The link goes on only for the user that asked for it; without a session
\* that may be the development user.
Exchanged(q, s) ==
    LET f == flows[req[q].flow]
        dev == f.purpose = "link" /\ req[q].cur = None /\ ~ conf.required
        cur == IF dev THEN Dev ELSE req[q].cur IN
    /\ At(q, "exchange")
    /\ IF dev THEN EnsureDevUser ELSE UNCHANGED users
    /\ req' = [req EXCEPT ![q] =
          IF f.purpose = "login" THEN [@ EXCEPT !.pc = "finding", !.subj = s]
          ELSE IF cur = None \/ cur # f.user THEN Idle
          ELSE [@ EXCEPT !.pc = "binding", !.subj = s, !.cur = cur]]
    /\ UNCHANGED <<conf, ident, sess, flows, uses>>

-----------------------------------------------------------------------------
(***************************************************************************)
(* Linking and unlinking.                                                  *)
(***************************************************************************)
\* mutant: a row that is not active is given to whoever links it
BindTakingOver(q) ==
    /\ At(q, "bind")
    /\ ident' = [ident EXCEPT ![req[q].subj] = [owner |-> req[q].cur, status |-> "active"]]
    /\ uses' = [uses EXCEPT ![req[q].flow] = @ + 1]
    /\ Done(q)
    /\ UNCHANGED <<conf, users, sess, flows>>

\* bind_identity: the checks.  An identity the user has already is updated.
BindCheck(q) ==
    /\ At(q, "binding")
    /\ IF users[req[q].cur] = "active" /\ ~ Bound(req[q].subj)
       THEN Goto(q, "bind") ELSE Done(q)
    /\ UNCHANGED <<conf, tables, uses>>

\* The commit: the unique constraint refuses a subject that has a row.
Bind(q) ==
    LET free == ~ Taken(req[q].subj) IN
    /\ At(q, "bind")
    /\ ident' = IF free
                THEN [ident EXCEPT ![req[q].subj] = [owner |-> req[q].cur, status |-> "active"]]
                ELSE ident
    /\ uses' = IF free THEN [uses EXCEPT ![req[q].flow] = @ + 1] ELSE uses
    /\ Done(q)
    /\ UNCHANGED <<conf, users, sess, flows>>

\* unbind_identity: the last active identity stays.
UnbindCheck(q, s) ==
    /\ At(q, "unbind")
    /\ IF /\ users[req[q].cur] = "active"
          /\ s \in ActiveOf(req[q].cur)
          /\ Cardinality(ActiveOf(req[q].cur)) > 1
       THEN req' = [req EXCEPT ![q].pc = "unbinding", ![q].subj = s] ELSE Done(q)
    /\ UNCHANGED <<conf, tables, uses>>

Unbind(q) ==
    /\ At(q, "unbinding")
    /\ ident' = [ident EXCEPT ![req[q].subj].status = "unlinked"]
    /\ Done(q)
    /\ UNCHANGED <<conf, users, sess, flows, uses>>

-----------------------------------------------------------------------------
(***************************************************************************)
(* Signing in.                                                             *)
(***************************************************************************)
\* create_or_update_external_user, called without a current user: an active
\* identity signs its owner in if the owner may.
Find(q) ==
    LET owner == ident[req[q].subj].owner IN
    /\ At(q, "finding")
    /\ IF ~ Bound(req[q].subj) THEN Goto(q, "register")
       ELSE IF users[owner] = "active"
       THEN req' = [req EXCEPT ![q].pc = "signin", ![q].cur = owner]
       ELSE Done(q)
    /\ UNCHANGED <<conf, tables, uses>>

\* A new user and its identity are one commit, refused as a whole.
Register(q, u) ==
    LET s == req[q].subj IN
    /\ At(q, "register")
    /\ users[u] = "none" /\ u # Dev
    /\ IF Taken(s)
       THEN Done(q) /\ UNCHANGED <<users, ident>>
       ELSE /\ users' = [users EXCEPT ![u] = "active"]
            /\ ident' = [ident EXCEPT ![s] = [owner |-> u, status |-> "active"]]
            /\ req' = [req EXCEPT ![q].pc = "signin", ![q].cur = u]
    /\ UNCHANGED <<conf, sess, flows, uses>>

\* create_session
SessionCheck(q) ==
    /\ At(q, "signin")
    /\ IF users[req[q].cur] = "active" THEN Goto(q, "session") ELSE Done(q)
    /\ UNCHANGED <<conf, tables, uses>>

CreateSession(q, t) ==
    /\ At(q, "session")
    /\ sess[t].state = "none"
    /\ sess' = [sess EXCEPT ![t] = [user |-> req[q].cur, state |-> "live"]]
    /\ uses' = [uses EXCEPT ![req[q].flow] = @ + 1]
    /\ Done(q)
    /\ UNCHANGED <<conf, users, ident, flows>>

\* Bound: a request that finds no unused user id, token or state is dropped.
OutOfIds(q) ==
    /\ \/ At(q, "register") /\ \A u \in Users \ {Dev} : users[u] # "none"
       \/ At(q, "link") /\ \A f \in Flows : flows[f].stage # "none"
       \/ At(q, "session") /\ \A t \in Tokens : sess[t].state # "none"
    /\ Done(q)
    /\ UNCHANGED <<conf, tables, uses>>

-----------------------------------------------------------------------------
(***************************************************************************)
(* Signing out, and the administration of users.                           *)
(***************************************************************************)
Logout(t) ==
    /\ Turn(None)
    /\ sess[t].state = "live"
    /\ sess' = Revoke({t})
    /\ UNCHANGED <<conf, users, ident, flows, req, uses>>

LogoutAll(q) ==
    /\ At(q, "logout_all")
    /\ sess' = Revoke(SessionsOf(req[q].cur))
    /\ Done(q)
    /\ UNCHANGED <<conf, users, ident, flows, uses>>

\* expires_at passes; the cleanup deletes the row.
SessionExpires(t) ==
    /\ Turn(None)
    /\ sess[t].state \in {"live", "revoked"}
    /\ sess' = [sess EXCEPT ![t].state = "expired"]
    /\ UNCHANGED <<conf, users, ident, flows, req, uses>>

Admin(q) == At(q, "admin") /\ IsAdmin(req[q].cur) /\ Done(q)

NotAdmin(q) ==
    /\ At(q, "admin") /\ ~ IsAdmin(req[q].cur)
    /\ Done(q)
    /\ UNCHANGED <<conf, tables, uses>>

\* create_user, and ensure_legacy_user for a user without a row.
CreateUser(q, u) ==
    /\ Admin(q)
    /\ users[u] = "none"
    /\ users' = [users EXCEPT ![u] = "active"]
    /\ UNCHANGED <<conf, ident, sess, flows, uses>>

\* mutant: the sessions of a disabled user live on
DisableUserOnly(q, u) ==
    /\ Admin(q)
    /\ users[u] # "none"
    /\ users' = [users EXCEPT ![u] = "disabled"]
    /\ UNCHANGED <<conf, ident, sess, flows, uses>>

\* disable_user: whatever the status was.
DisableUser(q, u) ==
    /\ Admin(q)
    /\ users[u] # "none"
    /\ users' = [users EXCEPT ![u] = "disabled"]
    /\ sess' = Revoke(SessionsOf(u))
    /\ UNCHANGED <<conf, ident, flows, uses>>

SoftDeleteUser(q, u) ==
    /\ Admin(q)
    /\ users[u] # "none"
    /\ users' = [users EXCEPT ![u] = "deleted"]
    /\ sess' = Revoke(SessionsOf(u))
    /\ ident' = [s \in Subjects |->
          IF s \in ActiveOf(u) THEN [ident[s] EXCEPT !.status = "disabled"] ELSE ident[s]]
    /\ UNCHANGED <<conf, flows, uses>>

-----------------------------------------------------------------------------
Begin(q) ==
    \E t \in Tokens \cup {None} :
        \/ \E f \in Flows : Callback(q, f, t)
        \/ \E pc \in {"unbind", "link", "logout_all", "admin"} : Required(q, pc, t)

CallbackStep(q) ==
    \/ ConsumeCheck(q) \/ Consume(q) \/ ExchangeFails(q)
    \/ \E s \in Subjects : Exchanged(q, s)
    \/ BindCheck(q) \/ Bind(q)
    \/ Find(q) \/ SessionCheck(q) \/ OutOfIds(q)
    \/ \E u \in Users : Register(q, u)
    \/ \E t \in Tokens : CreateSession(q, t)

OwnStep(q) ==
    \/ \E f \in Flows : ProviderLink(q, f)
    \/ \E s \in Subjects : UnbindCheck(q, s)
    \/ Unbind(q) \/ LogoutAll(q)

AdminStep(q) ==
    \/ NotAdmin(q)
    \/ \E u \in Users : CreateUser(q, u) \/ DisableUser(q, u) \/ SoftDeleteUser(q, u)

Environment ==
    \/ \E f \in Flows : ProviderLogin(f) \/ StateExpires(f) \/ CleanupState(f)
    \/ \E t \in Tokens : Logout(t) \/ SessionExpires(t)

Next ==
    \/ Environment
    \/ \E q \in Reqs : Begin(q) \/ CallbackStep(q) \/ OwnStep(q) \/ AdminStep(q)

Spec == Init /\ [][Next]_vars

-----------------------------------------------------------------------------
(***************************************************************************)
(* Properties.                                                             *)
(***************************************************************************)
\* The rows and the requests have the shapes their tables and handlers give
\* them, and a row that exists has its user.
TypeOK ==
    /\ conf \in Conf
    /\ users \in [Users -> UserStatus]
    /\ ident \in [Subjects -> Identity]
    /\ sess \in [Tokens -> UserSession]
    /\ flows \in [Flows -> OAuthState]
    /\ req \in [Reqs -> Request]
    /\ uses \in [Flows -> Nat]
    /\ \A s \in Subjects : Taken(s) => users[ident[s].owner] # "none"
    /\ \A t \in Tokens : sess[t].state # "none" => sess[t].user # None

\* An identity never passes from one user to another, even when callbacks for
\* the same subject race, and a failed callback never leaves a user behind
\* that nobody can sign in as: the unique constraint refuses the second commit
\* as a whole (create_or_update_external_user, bind_identity).
OwnerKept ==
    [][\A s \in Subjects : Taken(s) => ident'[s].owner = ident[s].owner]_vars

\* A user that a callback created owns an identity (the others are the
\* development user and those an administrator made).
SignedUpWithIdentity ==
    [][\A u \in Users \ {Dev} :
          /\ users[u] = "none" /\ users'[u] # "none"
          /\ \E q \in Reqs : req[q].pc = "register" /\ req'[q] # req[q]
          => \E s \in Subjects : ident'[s] = [owner |-> u, status |-> "active"]]_vars

\* Within one process an OAuth state leads to one session or one binding at
\* most, however often its callback is called and however long the provider
\* takes: it is consumed before the provider is asked.
StateOnce == ~ conf.race => \A f \in Flows : uses[f] <= 1

\* Within one process a user that is not active has no live session, and a
\* deleted one no active identity, although callbacks that had read the user
\* while it was active are under way.  The development user may come back.
InactiveIsOut ==
    ~ conf.race => \A u \in Users :
        /\ users[u] \in {"disabled", "deleted"} =>
              \A t \in SessionsOf(u) : sess[t].state # "live"
        /\ users[u] = "deleted" => ActiveOf(u) = {}

\* Within one process no user unbinds the last identity to sign in with.
LastIdentityKept ==
    ~ conf.race => \A u \in Users \ {Dev} :
        users[u] = "active" /\ (\E s \in Subjects : ident[s].owner = u)
            => ActiveOf(u) # {}
=============================================================================
