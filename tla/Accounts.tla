------------------------------- MODULE Accounts -------------------------------
(***************************************************************************)
(* Users, tokens and roles: api/routers/auth.py and settings.py on top of  *)
(* api/security.py and api/deps/auth.py.                                   *)
(*                                                                         *)
(* A token fixes its user and role for its lifetime; the database holds    *)
(* the role in force. Endpoints guarded by require_role trust the token,   *)
(* those of settings.py and the refresh ask the database. A request that   *)
(* writes checks first and commits later, with other requests in between   *)
(* (PostgreSQL, READ COMMITTED).                                           *)
(***************************************************************************)
EXTENDS Integers, FiniteSets

CONSTANTS
  Ids,              (* bound: ids for rows of users                        *)
  Emails,           (* email addresses                                     *)
  Passwords,        (* passwords that are strong enough                    *)
  Weak,             (* one that is not                                     *)
  Clients,          (* whoever keeps a pair of tokens                      *)
  Life,             (* jwt_expire_minutes, in ticks                        *)
  RefreshLife,      (* the 7 days of a refresh token, in ticks             *)
  MaxTime,          (* bound: ticks                                        *)
  MaxRequests,      (* bound: requests that write                          *)
  NoToken

ASSUME AccountsAssumption ==
  /\ Life \in Nat /\ RefreshLife \in Nat /\ MaxTime \in Nat /\ MaxRequests \in Nat
  /\ Weak \notin Passwords

VARIABLES
  users,            (* rows of users: id -> email, role, password          *)
  now,              (* the clock                                           *)
  tokens,           (* per client: its access and refresh token            *)
  req,              (* per client: the request it waits for                *)
  count,            (* requests begun                                      *)
  (* history, per id *)
  seen,             (* when each role was last in force                    *)
  decided           (* the role and the password last decided on           *)

vars == <<users, now, tokens, req, count, seen, decided>>
history == <<seen, decided>>

Roles == {"viewer", "operator", "admin"}
Row   == [email : Emails, role : Roles, password : Passwords]
Token == [user : Ids, role : Roles, type : {"access", "refresh"}, exp : Int]

NoTokens == [access |-> NoToken, refresh |-> NoToken]
Nothing  == [op |-> "none"]
Never    == -1 - Life

(* In force now: `at` of the rows us. The rest keeps its time. *)
Sees(us, old, at) ==
  [u \in Ids |-> [r \in Roles |->
     IF u \in DOMAIN us /\ r = us[u].role THEN at ELSE old[u][r]]]
Unseen == [u \in Ids |-> [r \in Roles |-> Never]]

(* Seeded accounts: one administrator at least. *)
Init ==
  /\ \E rows \in SUBSET Ids : users \in [rows -> Row]
  /\ \A u, v \in DOMAIN users : users[u].email = users[v].email => u = v
  /\ \E u \in DOMAIN users : users[u].role = "admin"
  /\ now = 0 /\ seen = Sees(users, Unseen, 0) /\ decided = users
  /\ tokens = [c \in Clients |-> NoTokens]
  /\ req = [c \in Clients |-> Nothing] /\ count = 0

------------------------------------------------------------------------------
(* Mutated forms of the definitions below. *)

(* the role is taken over from the refresh token *)
RefreshRoleOfToken(tok) == tok.role

(* the row is inserted whatever happened since the check *)
InsertsUnchecked(email) == TRUE

(* the row is written back as it was loaded, with the change *)
WholeRow(row, new, columns) == IF columns = {} THEN row ELSE new

------------------------------------------------------------------------------
(* security.py and deps/auth.py *)

encode_jwt(u, role, type, life) ==
  [user |-> u, role |-> role, type |-> type, exp |-> now + life]
create_access_token(u, role) == encode_jwt(u, role, "access", Life)
create_refresh_token(u)      == encode_jwt(u, "viewer", "refresh", RefreshLife)

(* decode_jwt raises once exp has passed, not in the second of exp. *)
verify_token(tok) == tok # NoToken /\ now <= tok.exp
verify_token_type(tok, type) == verify_token(tok) /\ tok.type = type

verify_password(u, plain) == users[u].password = plain

(* Raised as PasswordHashError by hash_password before it hashes: length   *)
(* and four classes of characters.                                         *)
validate_password_strength(plain) == plain # Weak

(* Redis is asked for a key that nothing in src/ sets: its writer,         *)
(* add_token_to_blacklist, has no caller.                                  *)
is_token_blacklisted(tok) == FALSE

(* require_role lets a request with this token pass. *)
require_role(tok, roles) == verify_token(tok) /\ tok.role \in roles

TokensFor(u) ==
  [access |-> create_access_token(u, users[u].role), refresh |-> create_refresh_token(u)]

------------------------------------------------------------------------------
(* routers/auth.py *)

login(c) ==
  /\ req[c] = Nothing
  /\ \E u \in DOMAIN users, p \in Passwords :
       /\ verify_password(u, p)
       /\ tokens' = [tokens EXCEPT ![c] = TokensFor(u)]
  /\ UNCHANGED <<users, now, req, count, history>>

RefreshRole(tok) == users[tok.user].role

(* The refresh token stays. A Redis that fails lets the refresh proceed.   *)
refresh(c) ==
  LET tok == tokens[c].refresh
  IN  /\ req[c] = Nothing
      /\ verify_token_type(tok, "refresh") /\ ~ is_token_blacklisted(tok)
      /\ tok.user \in DOMAIN users
      /\ tokens' = [tokens EXCEPT ![c].access = create_access_token(tok.user, RefreshRole(tok))]
      /\ UNCHANGED <<users, now, req, count, history>>

Begin(c, r) ==
  /\ req[c] = Nothing /\ count < MaxRequests
  /\ req' = [req EXCEPT ![c] = r] /\ count' = count + 1

Finish(c) == req' = [req EXCEPT ![c] = Nothing]

Taken(email) == \E u \in DOMAIN users : users[u].email = email
Unique(email) == ~ Taken(email)

(* register looks for the email and hashes the password before it inserts. *)
(* (This is the handler, as the tests call it: where slowapi's limiter is  *)
(* on, it raises first, for `request` is a dict and not a Request.)        *)
RegisterBegins(c) ==
  /\ \E e \in Emails, p \in Passwords \cup {Weak} :
       ~ Taken(e) /\ validate_password_strength(p)
       /\ Begin(c, [op |-> "register", email |-> e, password |-> p])
  /\ UNCHANGED <<users, now, tokens, history>>

(* The commit fails on uq_users_email when another registration was        *)
(* faster, and no token is issued.                                         *)
register(c) ==
  LET new == [email |-> req[c].email, role |-> "viewer", password |-> req[c].password]
  IN  /\ req[c].op = "register" /\ Finish(c)
      /\ IF Unique(req[c].email)
           THEN \E u \in Ids \ DOMAIN users :
                  LET us == [v \in DOMAIN users \cup {u} |-> IF v = u THEN new ELSE users[v]]
                  IN  /\ users' = us /\ seen' = Sees(us, seen, now)
                      /\ decided' = [v \in DOMAIN us |-> IF v = u THEN new ELSE decided[v]]
                      /\ tokens' = [tokens EXCEPT ![c] =
                           [access |-> create_access_token(u, "viewer"),
                            refresh |-> create_refresh_token(u)]]
           ELSE UNCHANGED <<users, history, tokens>>
      /\ UNCHANGED <<now, count>>

------------------------------------------------------------------------------
(* routers/settings.py: SELECT, checks and changes to the loaded row, then  *)
(* the commit. The UPDATE has the columns that differ from the loaded ones;*)
(* the salted hash of a password always does. (Reads are left out.)        *)

Caller(c) == tokens[c].access.user
Known(c)  == verify_token(tokens[c].access) /\ Caller(c) \in DOMAIN users
IsAdmin(tok) == users[tok.user].role = "admin"

Written(row, new, columns) ==
  [k \in DOMAIN row |-> IF k \in columns THEN new[k] ELSE row[k]]

(* The new password is typed twice and may be the old one. *)
PasswordChecked(c) ==
  LET u == Caller(c)
  IN  /\ Known(c)
      /\ \E old \in Passwords, new \in Passwords \cup {Weak} :
           /\ verify_password(u, old) /\ validate_password_strength(new)
           /\ Begin(c, [op |-> "password", user |-> u, columns |-> {"password"},
                        row |-> [users[u] EXCEPT !.password = new]])
  /\ UNCHANGED <<users, now, tokens, history>>

(* The caller is looked up before anything else. *)
AdminChecked(c) ==
  /\ Known(c) /\ IsAdmin(tokens[c].access)
  /\ \E u \in DOMAIN users, r \in Roles :
       Begin(c, [op |-> "update", user |-> u, columns |-> IF r = users[u].role THEN {} ELSE {"role"},
                 row |-> [users[u] EXCEPT !.role = r]])
  /\ UNCHANGED <<users, now, tokens, history>>

Commit(c) ==
  LET us == [users EXCEPT ![req[c].user] = Written(@, req[c].row, req[c].columns)]
  IN  users' = us /\ seen' = Sees(us, seen, now)

change_password(c) ==
  /\ req[c].op = "password" /\ Finish(c) /\ Commit(c)
  /\ decided' = [decided EXCEPT ![req[c].user].password = req[c].row.password]
  /\ UNCHANGED <<now, tokens, count>>

(* The answer is the row as it is then, whatever was asked for. *)
update_user(c) ==
  /\ req[c].op = "update" /\ Finish(c) /\ Commit(c)
  /\ IF req[c].columns = {}
       THEN UNCHANGED decided
       ELSE decided' = [decided EXCEPT ![req[c].user].role = req[c].row.role]
  /\ UNCHANGED <<now, tokens, count>>

------------------------------------------------------------------------------
(* Time passes, also between the check of a request and its commit. *)
Tick ==
  /\ now < MaxTime /\ now' = now + 1
  /\ seen' = Sees(users, seen, now + 1)
  /\ UNCHANGED <<users, tokens, req, count, decided>>

Next ==
  \/ \E c \in Clients :
       \/ login(c) \/ refresh(c) \/ RegisterBegins(c) \/ register(c)
       \/ PasswordChecked(c) \/ change_password(c)
       \/ AdminChecked(c) \/ update_user(c)
  \/ Tick

Spec == Init /\ [][Next]_vars

------------------------------------------------------------------------------
(* Rows have their columns and an email each of their own, also when two   *)
(* registrations race for one; tokens and requests name rows that exist.   *)
TypeOK ==
  /\ DOMAIN users \subseteq Ids /\ users \in [DOMAIN users -> Row]
  /\ \A u, v \in DOMAIN users : users[u].email = users[v].email => u = v
  /\ now \in 0 .. MaxTime /\ count \in 0 .. MaxRequests
  /\ \A c \in Clients :
       /\ {tokens[c].access, tokens[c].refresh} \subseteq Token \cup {NoToken}
       /\ \A tok \in {tokens[c].access, tokens[c].refresh} \ {NoToken} : tok.user \in DOMAIN users
       /\ req[c].op \in {"password", "update"} => req[c].user \in DOMAIN users

(* A role that was taken away admits its former holder to the endpoints    *)
(* guarded by require_role for no longer than the life of an access token, *)
(* however often the session is refreshed meanwhile. (Clients present      *)
(* their access token; verify_token itself does not look at the type.)     *)
RolesExpire ==
  \A c \in Clients, r \in Roles :
    require_role(tokens[c].access, {r}) => seen[Caller(c)][r] >= now - Life

(* A role or password decided on stays until another request decides on it:*)
(* an administrator who is demoted while a change of her password is under *)
(* way stays demoted, although that request commits a row it loaded before,*)
(* and a password that was just changed outlives a racing change of role.  *)
(* (An update that asks for the role it loaded decides nothing, even if    *)
(* the role has changed since.)                                            *)
DecisionsStay ==
  \A u \in DOMAIN users :
    /\ users[u].role = decided[u].role
    /\ users[u].password = decided[u].password
==============================================================================
