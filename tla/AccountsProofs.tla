---------------------------- MODULE AccountsProofs ----------------------------
(***************************************************************************)
(* Theorems about Accounts, for any number of rows, clients, requests and  *)
(* ticks, and any life of the two kinds of token.                          *)
(***************************************************************************)
EXTENDS Accounts, TLAPS

(* What makes RolesExpire and DecisionsStay inductive. *)

UsersInv ==
  /\ DOMAIN users \subseteq Ids /\ users \in [DOMAIN users -> Row]
  /\ \A u, v \in DOMAIN users : users[u].email = users[v].email => u = v

ClockInv == now \in 0 .. MaxTime /\ count \in 0 .. MaxRequests

(* The history does not run ahead, and what is in force was seen just now. *)
SeenTyped(s) == s \in [Ids -> [Roles -> Int]]
NotAhead(s, at) == \A u \in Ids, r \in Roles : s[u][r] <= at
SeenInForce(us, s, at) == \A u \in DOMAIN us : s[u][us[u].role] = at
SeenInv == SeenTyped(seen) /\ NotAhead(seen, now) /\ SeenInForce(users, seen, now)

(* A token names a row, and an access token was issued Life before it      *)
(* expires with the role its user had then.                                *)
TokenInv(t, type) ==
  t # NoToken =>
    /\ t \in Token /\ t.user \in DOMAIN users
    /\ type = "access" => seen[t.user][t.role] >= t.exp - Life
TokensInv ==
  /\ tokens \in [Clients -> [access : Token \cup {NoToken}, refresh : Token \cup {NoToken}]]
  /\ \A c \in Clients :
       TokenInv(tokens[c].access, "access") /\ TokenInv(tokens[c].refresh, "refresh")

(* A request of settings.py names a row and the columns it will write. *)
Checked(r) ==
  /\ r.user \in DOMAIN users /\ r.row \in Row
  /\ \/ r.op = "password" /\ r.columns = {"password"}
     \/ r.op = "update" /\ r.columns \in {{}, {"role"}}
RequestInv(r) ==
  \/ r = Nothing
  \/ r.op = "register" /\ r.email \in Emails /\ r.password \in Passwords
  \/ Checked(r)
RequestsInv ==
  /\ req = [c \in Clients |-> req[c]]
  /\ \A c \in Clients : RequestInv(req[c])

IInv == UsersInv /\ ClockInv /\ SeenInv /\ TokensInv /\ RequestsInv /\ decided = users

------------------------------------------------------------------------------
(* Sees writes the present over the past and keeps the rest. *)
LEMMA SeesFacts ==
  ASSUME NEW us, DOMAIN us \subseteq Ids, us \in [DOMAIN us -> Row],
         NEW old, SeenTyped(old), NEW at \in Int, NotAhead(old, at)
  PROVE  /\ SeenTyped(Sees(us, old, at)) /\ NotAhead(Sees(us, old, at), at)
         /\ SeenInForce(us, Sees(us, old, at), at)
         /\ \A u \in Ids, r \in Roles : Sees(us, old, at)[u][r] >= old[u][r]
<1> DEFINE s == Sees(us, old, at)
<1>1. \A u \in Ids, r \in Roles :
        /\ s[u][r] = IF u \in DOMAIN us /\ r = us[u].role
                       THEN at ELSE old[u][r]
        /\ s[u][r] \in Int /\ s[u][r] <= at /\ s[u][r] >= old[u][r]
  BY DEF Sees, SeenTyped, NotAhead
<1>2. SeenTyped(s)
  BY DEF SeenTyped, Sees, NotAhead
<1>3. \A u \in DOMAIN us : u \in Ids /\ us[u].role \in Roles
  BY DEF Row
<1>4. SeenInForce(us, s, at)
  BY <1>1, <1>3 DEF SeenInForce
<1> QED
  BY <1>1, <1>2, <1>4 DEF NotAhead

(* What a step may do to rows and history without disturbing anything that *)
(* names them: rows stay, and nothing is unseen.                           *)
Grows ==
  /\ DOMAIN users \subseteq DOMAIN users'
  /\ \A u \in Ids, r \in Roles : seen'[u][r] >= seen[u][r]

(* Tokens that stay are still tokens of rows. *)
LEMMA TokenStays ==
  ASSUME UsersInv, SeenInv, SeenTyped(seen'), Grows, NEW t, NEW type, TokenInv(t, type),
         Life \in Nat
  PROVE  TokenInv(t, type)'
<1> SUFFICES ASSUME t # NoToken PROVE TokenInv(t, type)'
  BY DEF TokenInv
<1>1. t \in Token /\ t.user \in DOMAIN users /\ t.user \in Ids /\ t.role \in Roles /\ t.exp \in Int
  BY DEF TokenInv, Token, UsersInv
<1>2. seen[t.user][t.role] \in Int /\ seen'[t.user][t.role] \in Int
  BY <1>1 DEF SeenInv, SeenTyped
<1>3. seen'[t.user][t.role] >= seen[t.user][t.role]
  BY <1>1 DEF Grows
<1> QED
  BY <1>1, <1>2, <1>3 DEF TokenInv, Grows

(* Requests that wait are still about rows. *)
LEMMA RequestStays ==
  ASSUME Grows, NEW r, RequestInv(r)
  PROVE  RequestInv(r)'
BY DEF Grows, RequestInv, Checked

(* The two tokens as they are issued. *)
LEMMA Issued ==
  ASSUME ClockInv, NEW u \in Ids, NEW r \in Roles
  PROVE  LET a == create_access_token(u, r)
             f == create_refresh_token(u)
         IN  /\ a \in Token /\ a.user = u /\ a.role = r /\ a.exp - Life = now
             /\ f \in Token /\ f.user = u
<1> USE AccountsAssumption DEF AccountsAssumption
<1>1. now \in Int
  BY DEF ClockInv
<1>2. "viewer" \in Roles
  BY DEF Roles
<1> QED
  BY <1>1, <1>2 DEF create_access_token, create_refresh_token, encode_jwt, Token

(* A client that is given tokens for its row, or only an access token.     *)
LEMMA TokensAfter ==
  ASSUME IInv, UsersInv', SeenInv', Grows, NEW c \in Clients,
         NEW u \in DOMAIN users', NEW r \in Roles, seen'[u][r] = now, u \in Ids,
         \/ tokens' = [tokens EXCEPT ![c].access = create_access_token(u, r)]
         \/ tokens' = [tokens EXCEPT ![c] = [access |-> create_access_token(u, r),
                                             refresh |-> create_refresh_token(u)]]
  PROVE  TokensInv'
<1> USE AccountsAssumption DEF AccountsAssumption, IInv
<1> DEFINE a == create_access_token(u, r)
           f == create_refresh_token(u)
<1>1. a \in Token /\ a.user = u /\ a.role = r /\ a.exp - Life = now /\ f \in Token /\ f.user = u
  BY Issued
<1> HIDE DEF a, f
<1>2. tokens' \in [Clients -> [access : Token \cup {NoToken}, refresh : Token \cup {NoToken}]]
  BY <1>1 DEF TokensInv, a, f
<1>3. ASSUME NEW d \in Clients
      PROVE  /\ tokens'[d].access \in {tokens[d].access, a}
             /\ tokens'[d].refresh \in {tokens[d].refresh, f}
  BY DEF TokensInv, a, f
<1>4. ASSUME NEW d \in Clients, tokens'[d].access = tokens[d].access
      PROVE  TokenInv(tokens[d].access, "access")'
  <2>1. TokenInv(tokens[d].access, "access")
    BY DEF TokensInv
  <2> QED
    BY <2>1, <1>4, TokenStays DEF TokenInv, SeenInv
<1>5. ASSUME NEW d \in Clients, tokens'[d].refresh = tokens[d].refresh
      PROVE  TokenInv(tokens[d].refresh, "refresh")'
  BY <1>5, TokenStays DEF TokenInv, SeenInv, TokensInv, Grows
<1>6. ASSUME NEW d \in Clients, tokens'[d].access = a
      PROVE  TokenInv(tokens[d].access, "access")'
  BY <1>6, <1>1 DEF TokenInv, ClockInv
<1>7. ASSUME NEW d \in Clients, tokens'[d].refresh = f
      PROVE  TokenInv(tokens[d].refresh, "refresh")'
  BY <1>7, <1>1 DEF TokenInv
<1> QED
  BY <1>2, <1>3, <1>4, <1>5, <1>6, <1>7 DEF TokensInv

LEMMA TokensKept ==
  ASSUME IInv, SeenInv', Grows, UNCHANGED tokens
  PROVE  TokensInv'
BY TokenStays, AccountsAssumption
   DEF AccountsAssumption, IInv, SeenInv, TokensInv, TokenInv, Grows

(* Requests after a step in which one client begins or finishes one.       *)
LEMMA RequestsAfter ==
  ASSUME IInv, SeenInv', Grows, NEW c \in Clients, NEW r,
         req' = [req EXCEPT ![c] = r], RequestInv(r)'
  PROVE  RequestsInv'
<1>1. req' = [d \in Clients |-> req'[d]]
  BY DEF IInv, RequestsInv
<1>2. ASSUME NEW d \in Clients PROVE RequestInv(req[d])'
  <2>1. CASE d = c
    BY <2>1 DEF IInv, RequestsInv
  <2>2. CASE d # c
    <3>1. req'[d] = req[d] /\ RequestInv(req[d])
      BY <2>2 DEF IInv, RequestsInv
    <3> QED
      BY <3>1, RequestStays DEF RequestInv, Checked
  <2> QED
    BY <2>1, <2>2
<1> QED
  BY <1>1, <1>2 DEF RequestsInv

LEMMA RequestsKept ==
  ASSUME IInv, SeenInv', Grows, UNCHANGED req
  PROVE  RequestsInv'
BY RequestStays DEF IInv, RequestsInv, RequestInv, Checked

(* A step that leaves rows, clock and history alone disturbs nothing that  *)
(* names them.                                                             *)
LEMMA Quiet ==
  ASSUME IInv, UNCHANGED <<users, now, seen>>
  PROVE  UsersInv' /\ SeenInv' /\ Grows
<1>1. users' = users /\ now' = now /\ seen' = seen
  OBVIOUS
<1>2. UsersInv'
  BY <1>1 DEF IInv, UsersInv
<1>3. SeenInv'
  BY <1>1 DEF IInv, SeenInv, SeenTyped, NotAhead, SeenInForce
<1>4. \A u \in Ids, r \in Roles : seen[u][r] \in Int
  BY DEF IInv, SeenInv, SeenTyped
<1> QED
  BY <1>1, <1>2, <1>3, <1>4 DEF Grows

(* A step that writes rows, each with its columns and no email twice.      *)
LEMMA RowsWritten ==
  ASSUME IInv, NEW us, users' = us, now' = now, seen' = Sees(us, seen, now),
         DOMAIN us \subseteq Ids, us \in [DOMAIN us -> Row],
         DOMAIN users \subseteq DOMAIN us,
         \A u, v \in DOMAIN us : us[u].email = us[v].email => u = v
  PROVE  UsersInv' /\ SeenInv' /\ Grows
<1>1. now \in Int /\ SeenTyped(seen) /\ NotAhead(seen, now)
  BY DEF IInv, ClockInv, SeenInv
<1>2. /\ SeenTyped(seen') /\ NotAhead(seen', now) /\ SeenInForce(us, seen', now)
      /\ \A u \in Ids, r \in Roles : seen'[u][r] >= seen[u][r]
  BY <1>1, SeesFacts
<1>3. UsersInv'
  BY DEF UsersInv
<1>4. SeenInv'
  BY <1>2 DEF SeenInv, SeenTyped, NotAhead, SeenInForce
<1> QED
  BY <1>2, <1>3, <1>4 DEF Grows

------------------------------------------------------------------------------
(* The invariant holds of seeded tables. *)
LEMMA InitIInv == Init => IInv
<1> SUFFICES ASSUME Init PROVE IInv
  OBVIOUS
<1> USE AccountsAssumption DEF AccountsAssumption
<1>1. PICK rows \in SUBSET Ids : users \in [rows -> Row]
  BY DEF Init
<1>2. UsersInv
  BY <1>1 DEF Init, UsersInv
<1>3. ClockInv
  BY DEF Init, ClockInv
<1>4. SeenTyped(Unseen) /\ NotAhead(Unseen, 0)
  BY DEF Unseen, Never, SeenTyped, NotAhead
<1>5. SeenInv
  BY <1>2, <1>4, SeesFacts DEF Init, UsersInv, SeenInv
<1>6. TokensInv
  BY DEF Init, TokensInv, TokenInv, NoTokens
<1>7. RequestsInv
  BY DEF Init, RequestsInv, RequestInv
<1> QED
  BY <1>2, <1>3, <1>5, <1>6, <1>7 DEF IInv, Init

LEMMA LoginStep == ASSUME IInv, NEW c \in Clients, login(c) PROVE IInv'
<1>1. PICK u \in DOMAIN users : tokens' = [tokens EXCEPT ![c] = TokensFor(u)]
  BY DEF login
<1>2. UsersInv' /\ SeenInv' /\ Grows /\ users' = users /\ seen' = seen /\ now' = now
  BY Quiet DEF login, history
<1>3. u \in Ids /\ users[u].role \in Roles /\ seen[u][users[u].role] = now
  BY DEF IInv, UsersInv, Row, SeenInv, SeenInForce
<1>4. TokensInv'
  BY <1>1, <1>2, <1>3, TokensAfter DEF TokensFor
<1>5. RequestsInv' /\ ClockInv' /\ decided' = users'
  BY <1>2, RequestsKept DEF login, IInv, ClockInv, history
<1> QED
  BY <1>2, <1>4, <1>5 DEF IInv

LEMMA RefreshStep == ASSUME IInv, NEW c \in Clients, refresh(c) PROVE IInv'
<1> DEFINE u == tokens[c].refresh.user
<1>1. u \in DOMAIN users /\ tokens' = [tokens EXCEPT ![c].access = create_access_token(u, users[u].role)]
  BY DEF refresh, RefreshRole
<1>2. UsersInv' /\ SeenInv' /\ Grows /\ users' = users /\ seen' = seen /\ now' = now
  BY Quiet DEF refresh, history
<1>3. u \in Ids /\ users[u].role \in Roles /\ seen[u][users[u].role] = now
  BY <1>1 DEF IInv, UsersInv, Row, SeenInv, SeenInForce
<1>4. TokensInv'
  BY <1>1, <1>2, <1>3, TokensAfter
<1>5. RequestsInv' /\ ClockInv' /\ decided' = users'
  BY <1>2, RequestsKept DEF refresh, IInv, ClockInv, history
<1> QED
  BY <1>2, <1>4, <1>5 DEF IInv

(* A request that was accepted waits; nothing else changes. *)
LEMMA BeginStep ==
  ASSUME IInv, NEW c \in Clients, NEW r, Begin(c, r), RequestInv(r),
         UNCHANGED <<users, now, tokens, history>>
  PROVE  IInv'
<1>1. UsersInv' /\ SeenInv' /\ Grows /\ now' = now /\ tokens' = tokens /\ decided' = users'
  BY Quiet DEF history, IInv
<1>2. TokensInv'
  BY <1>1, TokensKept
<1>3. RequestInv(r)'
  BY <1>1, RequestStays DEF RequestInv, Checked
<1>4. RequestsInv'
  BY <1>1, <1>3, RequestsAfter DEF Begin
<1>5. ClockInv'
  BY <1>1, AccountsAssumption DEF AccountsAssumption, IInv, ClockInv, Begin
<1> QED
  BY <1>1, <1>2, <1>4, <1>5 DEF IInv

LEMMA RegisterBeginsStep == ASSUME IInv, NEW c \in Clients, RegisterBegins(c) PROVE IInv'
<1>1. PICK e \in Emails, p \in Passwords \cup {Weak} :
        /\ validate_password_strength(p)
        /\ Begin(c, [op |-> "register", email |-> e, password |-> p])
  BY DEF RegisterBegins
<1>2. p \in Passwords
  BY <1>1 DEF validate_password_strength
<1>3. RequestInv([op |-> "register", email |-> e, password |-> p])
  BY <1>2 DEF RequestInv
<1> QED
  BY <1>1, <1>3, BeginStep DEF RegisterBegins

LEMMA PasswordCheckedStep == ASSUME IInv, NEW c \in Clients, PasswordChecked(c) PROVE IInv'
<1> DEFINE u == Caller(c)
<1>1. PICK new \in Passwords \cup {Weak} :
        /\ validate_password_strength(new)
        /\ Begin(c, [op |-> "password", user |-> u, columns |-> {"password"},
                     row |-> [users[u] EXCEPT !.password = new]])
  BY DEF PasswordChecked
<1> DEFINE r == [op |-> "password", user |-> u, columns |-> {"password"},
                 row |-> [users[u] EXCEPT !.password = new]]
<1>2. new \in Passwords /\ u \in DOMAIN users
  BY <1>1 DEF validate_password_strength, PasswordChecked, Known
<1>3. Checked(r)
  BY <1>2 DEF Checked, IInv, UsersInv, Row
<1> QED
  BY <1>1, <1>3, BeginStep DEF PasswordChecked, RequestInv

LEMMA AdminCheckedStep == ASSUME IInv, NEW c \in Clients, AdminChecked(c) PROVE IInv'
<1>1. PICK u \in DOMAIN users, x \in Roles :
        Begin(c, [op |-> "update", user |-> u, columns |-> IF x = users[u].role THEN {} ELSE {"role"},
                  row |-> [users[u] EXCEPT !.role = x]])
  BY DEF AdminChecked
<1> DEFINE r == [op |-> "update", user |-> u, columns |-> IF x = users[u].role THEN {} ELSE {"role"},
                 row |-> [users[u] EXCEPT !.role = x]]
<1>2. Checked(r)
  BY DEF Checked, IInv, UsersInv, Row
<1> QED
  BY <1>1, <1>2, BeginStep DEF AdminChecked, RequestInv

(* A request that is served and answered. *)
LEMMA FinishStep ==
  ASSUME IInv, NEW c \in Clients, Finish(c), UsersInv', SeenInv', Grows, TokensInv',
         decided' = users', UNCHANGED <<now, count>>
  PROVE  IInv'
<1>1. RequestInv(Nothing)'
  BY DEF RequestInv, Nothing
<1>2. RequestsInv'
  BY <1>1, RequestsAfter DEF Finish
<1> QED
  BY <1>2 DEF IInv, ClockInv

(* The new row is in force, and its tokens say so. *)
LEMMA RegisterStep == ASSUME IInv, NEW c \in Clients, register(c) PROVE IInv'
<1> DEFINE new == [email |-> req[c].email, role |-> "viewer", password |-> req[c].password]
<1>1. Finish(c) /\ UNCHANGED <<now, count>> /\ req[c].op = "register"
  BY DEF register
<1>2. new \in Row /\ new.email = req[c].email /\ new.role = "viewer"
  BY <1>1 DEF IInv, RequestsInv, RequestInv, Checked, Nothing, Row, Roles
<1>3. CASE UNCHANGED <<users, history, tokens>>
  <2>1. UsersInv' /\ SeenInv' /\ Grows /\ decided' = users'
    BY <1>1, <1>3, Quiet DEF history, IInv
  <2> QED
    BY <1>1, <1>3, <2>1, TokensKept, FinishStep
<1>4. CASE /\ Unique(req[c].email)
           /\ \E u \in Ids \ DOMAIN users :
                LET us == [v \in DOMAIN users \cup {u} |-> IF v = u THEN new ELSE users[v]]
                IN  /\ users' = us /\ seen' = Sees(us, seen, now)
                    /\ decided' = [v \in DOMAIN us |-> IF v = u THEN new ELSE decided[v]]
                    /\ tokens' = [tokens EXCEPT ![c] =
                         [access |-> create_access_token(u, "viewer"),
                          refresh |-> create_refresh_token(u)]]
  <2>1. PICK u \in Ids \ DOMAIN users :
          LET us == [v \in DOMAIN users \cup {u} |-> IF v = u THEN new ELSE users[v]]
          IN  /\ users' = us /\ seen' = Sees(us, seen, now)
              /\ decided' = [v \in DOMAIN us |-> IF v = u THEN new ELSE decided[v]]
              /\ tokens' = [tokens EXCEPT ![c] =
                   [access |-> create_access_token(u, "viewer"),
                    refresh |-> create_refresh_token(u)]]
    BY <1>4
  <2> DEFINE us == [v \in DOMAIN users \cup {u} |-> IF v = u THEN new ELSE users[v]]
  <2> HIDE DEF new
  <2>2. DOMAIN us \subseteq Ids /\ DOMAIN users \subseteq DOMAIN us /\ us \in [DOMAIN us -> Row]
    BY <1>2 DEF IInv, UsersInv
  <2>3. \A v, w \in DOMAIN us : us[v].email = us[w].email => v = w
    BY <1>2, <1>4 DEF IInv, UsersInv, Unique, Taken
  <2>4. UsersInv' /\ SeenInv' /\ Grows
    BY <1>1, <2>1, <2>2, <2>3, RowsWritten
  <2>5. u \in DOMAIN users' /\ users'[u].role = "viewer"
    BY <2>1, <1>2
  <2>6. seen'[u]["viewer"] = now /\ "viewer" \in Roles
    BY <2>4, <2>5, <1>1 DEF SeenInv, SeenInForce, Roles
  <2>7. TokensInv'
    BY <2>1, <2>4, <2>5, <2>6, TokensAfter
  <2>8. decided' = users'
    BY <2>1 DEF IInv
  <2> QED
    BY <1>1, <2>4, <2>7, <2>8, FinishStep
<1> QED
  BY <1>3, <1>4 DEF register

(* The columns of a request go into the row, and the rest stays. *)
LEMMA WrittenFacts ==
  ASSUME NEW row \in Row, NEW new \in Row, NEW columns \in SUBSET {"role", "password"}
  PROVE  LET w == Written(row, new, columns)
         IN  /\ w \in Row /\ w.email = row.email
             /\ columns = {} => w = row
             /\ columns = {"role"} => w = [row EXCEPT !.role = new.role]
             /\ columns = {"password"} => w = [row EXCEPT !.password = new.password]
BY DEF Written, Row

(* A commit leaves every row its columns and its email, and is decided as  *)
(* it is written.                                                          *)
LEMMA CommitStep ==
  ASSUME IInv, NEW c \in Clients, Finish(c), Commit(c), UNCHANGED <<now, tokens, count>>,
         Checked(req[c]),
         decided' = [decided EXCEPT ![req[c].user] = Written(@, req[c].row, req[c].columns)]
  PROVE  IInv'
<1> DEFINE u == req[c].user
           w == Written(users[u], req[c].row, req[c].columns)
           us == [users EXCEPT ![u] = w]
<1>1. u \in DOMAIN users /\ users[u] \in Row /\ req[c].row \in Row
      /\ req[c].columns \in SUBSET {"role", "password"}
  BY DEF Checked, IInv, UsersInv
<1>2. w \in Row /\ w.email = users[u].email
  BY <1>1, WrittenFacts
<1>3. users' = us /\ seen' = Sees(us, seen, now) /\ decided' = us
  BY DEF Commit, IInv
<1> HIDE DEF w
<1>4. DOMAIN us = DOMAIN users /\ DOMAIN us \subseteq Ids /\ us \in [DOMAIN us -> Row]
  BY <1>2 DEF IInv, UsersInv
<1>5. \A v, x \in DOMAIN us : us[v].email = us[x].email => v = x
  BY <1>2 DEF IInv, UsersInv
<1> HIDE DEF us
<1>6. now' = now /\ users' = us /\ DOMAIN users \subseteq DOMAIN us /\ seen' = Sees(us, seen, now)
  BY <1>3, <1>4
<1>7. UsersInv' /\ SeenInv' /\ Grows
  BY <1>4, <1>5, <1>6, RowsWritten
<1> QED
  BY <1>3, <1>6, <1>7, TokensKept, FinishStep

LEMMA ChangePasswordStep == ASSUME IInv, NEW c \in Clients, change_password(c) PROVE IInv'
<1> DEFINE u == req[c].user
<1>1. Finish(c) /\ Commit(c) /\ UNCHANGED <<now, tokens, count>> /\ req[c].op = "password"
  BY DEF change_password
<1>2. Checked(req[c]) /\ req[c].columns = {"password"}
  BY <1>1 DEF IInv, RequestsInv, RequestInv, Checked, Nothing
<1>3. u \in DOMAIN users /\ users[u] \in Row /\ req[c].row \in Row
  BY <1>2 DEF Checked, IInv, UsersInv
<1>4. Written(decided[u], req[c].row, req[c].columns) = [decided[u] EXCEPT !.password = req[c].row.password]
  BY <1>2, <1>3, WrittenFacts DEF IInv
<1>5. decided' = [decided EXCEPT ![u] = Written(@, req[c].row, req[c].columns)]
  BY <1>3, <1>4 DEF change_password, IInv
<1> QED
  BY <1>1, <1>2, <1>5, CommitStep

LEMMA UpdateUserStep == ASSUME IInv, NEW c \in Clients, update_user(c) PROVE IInv'
<1> DEFINE u == req[c].user
<1>1. Finish(c) /\ Commit(c) /\ UNCHANGED <<now, tokens, count>> /\ req[c].op = "update"
  BY DEF update_user
<1>2. Checked(req[c]) /\ req[c].columns \in {{}, {"role"}}
  BY <1>1 DEF IInv, RequestsInv, RequestInv, Checked, Nothing
<1>3. u \in DOMAIN users /\ users[u] \in Row /\ req[c].row \in Row
  BY <1>2 DEF Checked, IInv, UsersInv
<1>4. decided' = [decided EXCEPT ![u] = Written(@, req[c].row, req[c].columns)]
  <2>1. CASE req[c].columns = {}
    <3>1. Written(decided[u], req[c].row, req[c].columns) = decided[u]
      BY <1>2, <1>3, <2>1, WrittenFacts DEF IInv
    <3>2. decided' = decided
      BY <2>1 DEF update_user
    <3> QED
      BY <1>3, <3>1, <3>2 DEF IInv, UsersInv
  <2>2. CASE req[c].columns = {"role"}
    <3>1. Written(decided[u], req[c].row, req[c].columns) = [decided[u] EXCEPT !.role = req[c].row.role]
      BY <1>2, <1>3, <2>2, WrittenFacts DEF IInv
    <3>2. decided' = [decided EXCEPT ![u].role = req[c].row.role]
      BY <2>2 DEF update_user
    <3> QED
      BY <1>3, <3>1, <3>2 DEF IInv, UsersInv
  <2> QED
    BY <1>2, <2>1, <2>2
<1> QED
  BY <1>1, <1>2, <1>4, CommitStep

LEMMA TickStep == ASSUME IInv, Tick PROVE IInv'
<1> USE AccountsAssumption DEF AccountsAssumption
<1>1. /\ now \in 0 .. MaxTime /\ now < MaxTime /\ now' = now + 1 /\ now + 1 \in Int
      /\ seen' = Sees(users, seen, now + 1) /\ users' = users
      /\ UNCHANGED <<tokens, req, count, decided>>
  BY DEF IInv, ClockInv, Tick
<1>2. SeenTyped(seen) /\ NotAhead(seen, now + 1)
  <2>1. SeenTyped(seen) /\ \A u \in Ids, r \in Roles : seen[u][r] \in Int
    BY DEF IInv, SeenInv, SeenTyped
  <2>2. \A u \in Ids, r \in Roles : seen[u][r] <= now
    BY DEF IInv, SeenInv, NotAhead
  <2> QED
    BY <1>1, <2>1, <2>2 DEF NotAhead
<1>3. DOMAIN users \subseteq Ids /\ users \in [DOMAIN users -> Row]
  BY DEF IInv, UsersInv
<1>4. /\ SeenTyped(seen') /\ NotAhead(seen', now') /\ SeenInForce(users, seen', now')
      /\ \A u \in Ids, r \in Roles : seen'[u][r] >= seen[u][r]
  BY <1>1, <1>2, <1>3, SeesFacts
<1>5. SeenInv' /\ Grows
  BY <1>1, <1>4 DEF SeenInv, SeenTyped, NotAhead, SeenInForce, Grows
<1>6. UsersInv'
  BY <1>1 DEF IInv, UsersInv
<1>7. ClockInv'
  BY <1>1 DEF IInv, ClockInv
<1>8. TokensInv' /\ RequestsInv'
  BY <1>1, <1>5, TokensKept, RequestsKept
<1> QED
  BY <1>1, <1>5, <1>6, <1>7, <1>8 DEF IInv

------------------------------------------------------------------------------
LEMMA NextIInv == IInv /\ [Next]_vars => IInv'
<1> SUFFICES ASSUME IInv, [Next]_vars PROVE IInv'
  OBVIOUS
<1>1. CASE UNCHANGED vars
  <2>1. UsersInv' /\ SeenInv' /\ Grows /\ UNCHANGED <<users, tokens, req, now, count, decided>>
    BY <1>1, Quiet DEF vars
  <2> QED
    BY <2>1, TokensKept, RequestsKept DEF IInv, ClockInv
<1>2. ASSUME NEW c \in Clients, login(c) \/ refresh(c) PROVE IInv'
  BY <1>2, LoginStep, RefreshStep
<1>3. ASSUME NEW c \in Clients, RegisterBegins(c) \/ register(c) PROVE IInv'
  BY <1>3, RegisterBeginsStep, RegisterStep
<1>4. ASSUME NEW c \in Clients, PasswordChecked(c) \/ change_password(c) PROVE IInv'
  BY <1>4, PasswordCheckedStep, ChangePasswordStep
<1>5. ASSUME NEW c \in Clients, AdminChecked(c) \/ update_user(c) PROVE IInv'
  BY <1>5, AdminCheckedStep, UpdateUserStep
<1>6. CASE Tick
  BY <1>6, TickStep
<1> QED
  BY <1>1, <1>2, <1>3, <1>4, <1>5, <1>6 DEF Next

LEMMA SpecIInv == Spec => []IInv
BY InitIInv, NextIInv, PTL DEF Spec

(* Rows keep their columns and their emails stay unique, whoever races for *)
(* one: register of routers/auth.py relies on uq_users_email alone.        *)
THEOREM SpecTypeOK == Spec => []TypeOK
<1>1. IInv => TypeOK
  BY DEF IInv, UsersInv, ClockInv, TokensInv, TokenInv, RequestsInv, RequestInv, Checked,
         Nothing, TypeOK
<1> QED
  BY <1>1, SpecIInv, PTL

(* The delay after which a role that was taken away no longer admits: the  *)
(* life of an access token, for every life of the refresh token that keeps *)
(* the session going, and any number of refreshes.                         *)
THEOREM SpecRolesExpire == Spec => []RolesExpire
<1>1. ASSUME IInv PROVE RolesExpire
  <2> SUFFICES ASSUME NEW c \in Clients, NEW r \in Roles, require_role(tokens[c].access, {r})
               PROVE  seen[Caller(c)][r] >= now - Life
    BY DEF RolesExpire
  <2> DEFINE t == tokens[c].access
  <2>1. t # NoToken /\ now <= t.exp /\ t.role = r
    BY DEF require_role, verify_token
  <2>2. t \in Token /\ t.user \in Ids /\ t.exp \in Int /\ seen[t.user][r] >= t.exp - Life
    BY <1>1, <2>1 DEF IInv, UsersInv, TokensInv, TokenInv, Token
  <2>3. seen[t.user][r] \in Int /\ now \in Int /\ Life \in Int
    BY <1>1, <2>2, AccountsAssumption DEF AccountsAssumption, IInv, SeenInv, SeenTyped, ClockInv
  <2> QED
    BY <2>1, <2>2, <2>3 DEF Caller
<1> QED
  BY <1>1, SpecIInv, PTL

(* No request of settings.py undoes what another one decided on the same   *)
(* row, for any number of requests between check and commit: each writes   *)
(* back its own column only.                                               *)
THEOREM SpecDecisionsStay == Spec => []DecisionsStay
<1>1. IInv => DecisionsStay
  BY DEF IInv, DecisionsStay
<1> QED
  BY <1>1, SpecIInv, PTL
==============================================================================
