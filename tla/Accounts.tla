------------------------------ MODULE Accounts ------------------------------
(***************************************************************************)
(* Users, their second factor and the operator's switches                  *)
(* (argus/api/v1/endpoints/auth.py and tenants.py): every request is a few *)
(* sessions one after the other, each one transaction on a pooled          *)
(* connection, opened by tenant_session or by admin_session                *)
(* (infrastructure/db/session.py).                                         *)
(*                                                                         *)
(* A request reads its row, decides, and commits the columns it changed;   *)
(* others come in between.  Tokens are stateless, so that whoever has one  *)
(* may call /auth/password and /auth/mfa whatever has happened since.      *)
(* A code stands for the secret it is computed from.                       *)
(***************************************************************************)
EXTENDS Integers, Sequences, FiniteSets

CONSTANTS
  Orgs,         \* tenants
  Users,        \* users that exist or may be created
  OrgOf,        \* the tenant of each
  Passwords, Secrets,
  Requests,     \* requests in flight at the same time
  KindsOf,      \* what each of them may be about which user
  Pool,         \* connections of the engine's pool
  Nothing       \* no secret, no context, nobody

ASSUME AccountsAssumption ==
  /\ OrgOf \in [Users -> Orgs] /\ Orgs \intersect Users = {}
  /\ Nothing \notin Orgs \union Requests \union Passwords

VARIABLES
  orgs,    \* tenants table: is_active
  users,   \* users table: the columns below, or Absent
  conn,    \* per connection: who uses it, the context of its transaction and of its session
  req,     \* per request: what it is about, the sessions it has left, what it is about to write
  banned,  \* ghost: tenants and users whose last is_active the operator wrote is false
  proven   \* ghost: the secret of each user that /mfa/activate has been shown a code of

accountVars == <<orgs, users, conn, req, banned, proven>>

Absent == [active |-> FALSE, password |-> Nothing, secret |-> Nothing, enabled |-> FALSE]
Created(password) == [Absent EXCEPT !.active = TRUE, !.password = password]

Idle == [kind |-> "none", user |-> Nothing, given |-> Nothing, new |-> <<>>, todo |-> <<>>,
         at |-> "over", writes |-> <<>>, token |-> FALSE, barred |-> {}]

AccountInit ==
  /\ orgs = [o \in Orgs |-> TRUE]
  /\ users = [u \in Users |-> Absent]
  /\ conn = [c \in Pool |-> [by |-> Nothing, local |-> Nothing, session |-> Nothing]]
  /\ req = [r \in Requests |-> Idle]
  /\ banned = {} /\ proven = [u \in Users |-> Nothing]

(* The sessions of each kind of request.                                   *)
Sessions ==
  [login |-> <<"admin", "tenant">>, password |-> <<"tenant">>,
   enrol |-> <<"tenant", "admin">>, activate |-> <<"tenant">>, disable |-> <<"tenant">>,
   patch_tenant |-> <<"admin">>, patch_user |-> <<"admin", "tenant">>,
   create_user |-> <<"admin", "tenant">>]

(* What the operator may patch: (de)activation, or a new password.         *)
Patches == [active : BOOLEAN] \union [password : Passwords]

(* The bodies of a request: what is given to be checked, and what is new.  *)
Bodies(kind) ==
  CASE kind = "login" -> Passwords \X [code : Secrets \union {Nothing}]
    [] kind = "password" -> Passwords \X [password : Passwords]
    [] kind \in {"activate", "disable"} -> Secrets \X {<<>>}
    [] kind = "patch_tenant" -> {Nothing} \X [active : BOOLEAN]
    [] kind = "patch_user" -> {Nothing} \X Patches
    [] kind = "create_user" -> Passwords \X {<<>>}
    [] OTHER -> {Nothing} \X {<<>>}

ConnOf(r) == CHOOSE c \in Pool : conn[c].by = r
Org(r) == OrgOf[req[r].user]

(* app.current_tenant on a connection, and the users that default-deny     *)
(* policies let it see.                                                    *)
Context(c) == IF conn[c].local # Nothing THEN conn[c].local ELSE conn[c].session
Visible(c) == {u \in Users : users[u] # Absent /\ OrgOf[u] = Context(c)}

(* Mutant: set_config(..., false), which outlives the transaction.         *)
WithContextForGood(c, r, tenant) == [conn[c] EXCEPT !.by = r, !.session = tenant]

(* set_config(..., true).                                                  *)
WithContext(c, r, tenant) == [conn[c] EXCEPT !.by = r, !.local = tenant]

(* COMMIT or ROLLBACK, and back to the pool.                               *)
Released(c) == [conn EXCEPT ![c].by = Nothing, ![c].local = Nothing]

(* An exception: the transaction is rolled back, the request is over.      *)
Refused(r) ==
  /\ conn' = Released(ConnOf(r)) /\ req' = [req EXCEPT ![r] = Idle]
  /\ UNCHANGED <<orgs, users, banned, proven>>

Goes(r, writes) ==
  /\ req' = [req EXCEPT ![r].at = "closing", ![r].writes = writes]
  /\ UNCHANGED <<orgs, users, conn, banned, proven>>
-----------------------------------------------------------------------------
Arrives(r) ==
  /\ req[r].at = "over"
  /\ \E kind \in DOMAIN Sessions, u \in Users : kind \in KindsOf[r, u] /\ \E body \in Bodies(kind) :
       req' = [req EXCEPT ![r] = [Idle EXCEPT !.kind = kind, !.user = u, !.given = body[1],
         !.new = body[2], !.todo = Sessions[kind], !.at = "between",
         !.barred = banned \intersect {u, OrgOf[u]}]]
  /\ UNCHANGED <<orgs, users, conn, banned, proven>>

Opens(r) ==
  /\ req[r].at = "between"
  /\ \E c \in Pool :
       /\ conn[c].by = Nothing
       /\ conn' = [conn EXCEPT ![c] =
            IF Head(req[r].todo) = "tenant" THEN WithContext(c, r, Org(r)) ELSE [@ EXCEPT !.by = r]]
  /\ req' = [req EXCEPT ![r].at = "open"]
  /\ UNCHANGED <<orgs, users, banned, proven>>

(* What r's open session is about: it has yet to run its query.            *)
In(r, kinds, session) ==
  req[r].at = "open" /\ req[r].kind \in kinds /\ Head(req[r].todo) = session

(* The row the query returns, under row-level security.                    *)
Row(r) == IF req[r].user \in Visible(ConnOf(r)) THEN users[req[r].user] ELSE Absent

(* A row after an UPDATE of some of its columns.                           *)
Updated(row, writes) ==
  [c \in DOMAIN row |-> IF c \in DOMAIN writes THEN writes[c] ELSE row[c]]

(* Mutant: the row is written back as it was read.                         *)
WholeRow(row, new) == Updated(row, new)

(* The columns an UPDATE of the session sets: those that have a new value. *)
Dirty(row, new) ==
  [c \in {d \in DOMAIN new : d = "password" \/ new[d] # row[d]} |-> new[c]]

(* verify_totp: no code is right for no secret.                            *)
Verified(secret, code) == secret # Nothing /\ code = secret

(* login, _require_tenant and the slug of an enrolment read the tenants    *)
(* table, whose rows are never deleted; login wants an active one.         *)
ReadsTenant(r) ==
  /\ In(r, DOMAIN Sessions \ {"patch_tenant"}, "admin")
  /\ IF req[r].kind = "login" /\ ~orgs[Org(r)] THEN Refused(r) ELSE Goes(r, <<>>)

PatchesTenant(r) ==
  /\ In(r, {"patch_tenant"}, "admin")
  /\ Goes(r, Dirty([active |-> orgs[Org(r)]], req[r].new))

(* The user: active, with this password, and with a code of this secret if *)
(* the second factor is on.                                                *)
ReadsLogin(r) ==
  /\ In(r, {"login"}, "tenant")
  /\ LET row == Row(r) IN
     IF /\ row.active /\ row.password = req[r].given
        /\ row.enabled => Verified(row.secret, req[r].new.code)
     THEN Goes(r, <<>>) ELSE Refused(r)

(* Guarded edits of the row just read.                                     *)
Edits(r, kind, allowed, new) ==
  /\ In(r, {kind}, "tenant")
  /\ IF Row(r) # Absent /\ allowed THEN Goes(r, Dirty(Row(r), new)) ELSE Refused(r)

ChangesPassword(r) == Edits(r, "password", Row(r).password = req[r].given, req[r].new)

(* A secret that is not in use, as 160 random bits are not.                *)
Enrols(r) ==
  /\ In(r, {"enrol"}, "tenant")
  /\ \E s \in Secrets \ {Row(r).secret, proven[req[r].user]} :
       Edits(r, "enrol", ~Row(r).enabled, [secret |-> s])

Activates(r) ==
  Edits(r, "activate", Verified(Row(r).secret, req[r].given), [enabled |-> TRUE])

Disables(r) ==
  Edits(r, "disable", Row(r).enabled /\ Verified(Row(r).secret, req[r].given),
        [enabled |-> FALSE, secret |-> Nothing])

PatchesUser(r) == Edits(r, "patch_user", TRUE, req[r].new)

Creates(r) ==
  /\ In(r, {"create_user"}, "tenant")
  /\ Goes(r, Created(req[r].given))

(* The session commits and releases its connection, and the request goes   *)
(* on to its next session or answers.                                      *)
Onward(r) ==
  LET rest == Tail(req[r].todo) IN
  IF rest # <<>> THEN [req[r] EXCEPT !.at = "between", !.todo = rest, !.writes = <<>>]
  ELSE IF req[r].kind = "login" THEN [Idle EXCEPT !.token = TRUE, !.barred = req[r].barred]
  ELSE Idle

After(r, barring) ==
  [q \in Requests |-> IF q = r THEN Onward(r)
                      ELSE [req[q] EXCEPT !.barred = @ \intersect barring]]

Switched(x, writes) ==
  IF "active" \notin DOMAIN writes THEN banned
  ELSE IF writes.active THEN banned \ {x} ELSE banned \union {x}

CommitsTenant(r) ==
  /\ req[r].at = "closing" /\ Head(req[r].todo) = "admin"
  /\ orgs' = [orgs EXCEPT ![Org(r)] = IF req[r].writes = <<>> THEN @ ELSE req[r].writes.active]
  /\ banned' = Switched(Org(r), req[r].writes)
  /\ conn' = Released(ConnOf(r)) /\ req' = After(r, banned')
  /\ UNCHANGED <<users, proven>>

(* What the code that switches the second factor on or off was made from.  *)
Proof(r) == IF req[r].kind = "activate" THEN req[r].given ELSE Nothing

CommitsUser(r) ==
  /\ req[r].at = "closing" /\ Head(req[r].todo) = "tenant"
  /\ req[r].kind = "create_user" => users[req[r].user] = Absent
  /\ users' = [users EXCEPT ![req[r].user] = Updated(@, req[r].writes)]
  /\ banned' = IF req[r].kind = "patch_user" THEN Switched(req[r].user, req[r].writes) ELSE banned
  /\ proven' = IF "enabled" \in DOMAIN req[r].writes
               THEN [proven EXCEPT ![req[r].user] = Proof(r)] ELSE proven
  /\ conn' = Released(ConnOf(r)) /\ req' = After(r, banned')
  /\ UNCHANGED orgs

(* uq_users_tenant_email, a lost connection, a client that hangs up.       *)
RequestFails(r) == req[r].at \in {"open", "closing"} /\ Refused(r)

RequestStep(r) ==
  \/ Opens(r) \/ ReadsTenant(r) \/ PatchesTenant(r) \/ ReadsLogin(r) \/ ChangesPassword(r)
  \/ Enrols(r) \/ Activates(r) \/ Disables(r) \/ PatchesUser(r) \/ Creates(r)
  \/ CommitsTenant(r) \/ CommitsUser(r) \/ RequestFails(r)

AccountNext == \E r \in Requests : Arrives(r) \/ RequestStep(r)

AccountSpec == AccountInit /\ [][AccountNext]_accountVars
-----------------------------------------------------------------------------
(* Every variable keeps its type.                                          *)
AccountTypeOK ==
  /\ orgs \in [Orgs -> BOOLEAN]
  /\ users \in [Users -> [active : BOOLEAN, password : Passwords \union {Nothing},
                          secret : Secrets \union {Nothing}, enabled : BOOLEAN]]
  /\ conn \in [Pool -> [by : Requests \union {Nothing}, local : Orgs \union {Nothing},
                        session : Orgs \union {Nothing}]]
  /\ \A r \in Requests :
       /\ req[r].at \in {"over", "between", "open", "closing"} /\ req[r].token \in BOOLEAN
       /\ req[r].at \in {"open", "closing"} <=> \E c \in Pool : conn[c].by = r
  /\ banned \subseteq Orgs \union Users
  /\ proven \in [Users -> Secrets \union {Nothing}]

(* "the setting can never leak onto a pooled connection": a transaction    *)
(* sees the users of the tenant its request is about, and, opened by       *)
(* admin_session, none, whoever had the connection before.                 *)
DefaultDeny ==
  \A r \in Requests : req[r].at \in {"open", "closing"} =>
    \A u \in Visible(ConnOf(r)) : Head(req[r].todo) = "tenant" /\ OrgOf[u] = Org(r)

(* "Deactivation locks out logins immediately": a login that began when the*)
(* operator had switched off the user or the tenant, and which the operator*)
(* has not switched on since, is given no token, whichever requests edit   *)
(* the same row meanwhile.                                                 *)
LockedOut == \A r \in Requests : req[r].token => req[r].barred = {}

(* "MFA only turns on once the first code is verified via /mfa/activate -  *)
(* a lost QR can't lock you out": the second factor asks for codes of a    *)
(* secret that activation was shown a code of.                             *)
EnabledIsVerified ==
  \A u \in Users : users[u].enabled => users[u].secret # Nothing /\ users[u].secret = proven[u]
=============================================================================
