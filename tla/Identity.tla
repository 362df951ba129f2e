------------------------------ MODULE Identity ------------------------------
(***************************************************************************)
(* Accounts and the credentials that speak for them: users and tokens in   *)
(* the database, the setup link that makes the first administrator, and    *)
(* the sessions and failed logins the API keeps in memory                  *)
(* (internal/identity, internal/api/auth.go, logins.go, setup.go and the   *)
(* account and token routes, internal/cli/user.go, token.go, session.go).  *)
(*                                                                         *)
(* A request reads who is asking outside any transaction and acts later in *)
(* one; both front ends do, so a state may change in between.  A password  *)
(* attempt is right or wrong: upgrading the rounds of a stored hash changes*)
(* neither.  The preview and the code that stand between the two steps of  *)
(* a request are in Ceremony; join tokens are in Enrollment.               *)
(***************************************************************************)
EXTENDS Integers, FiniteSets

CONSTANTS
  Names,          \* account names
  Addrs,          \* client addresses
  Granted,        \* the ranks given to new accounts
  Requests,       \* requests in flight at once
  MaxUsers,       \* bound: rows ever made in table user
  MaxTokens,      \* bound: rows ever made in table token
  MaxLinks,       \* bound: setup links ever made
  MaxFailures,    \* maxLoginFailures
  Window,         \* loginWindow
  Lockout,        \* loginLockout
  SetupTTL,
  SessionTTL,
  TokenTTL,       \* the token lifetime the regulated profile allows
  MaxCounted,     \* bound: failures counted for one key
  IdentityClock   \* bound: time

ASSUME IdentityAssumption ==
  /\ {MaxUsers, MaxTokens, MaxLinks, MaxCounted, IdentityClock} \subseteq Nat
  /\ {MaxFailures, Window, Lockout, SetupTTL, SessionTTL, TokenTTL} \subseteq Nat \ {0}
  /\ Names \cap Addrs = {} /\ Granted \subseteq 1..4

VARIABLES
  user,      \* table user
  token,     \* table token
  setup,     \* the outstanding link of table installation
  ceiling,   \* token_max_ttl of the profile in force
  sessions,  \* sessionStore.by, keyed by a value nobody can guess
  failed,    \* logins.by
  req,       \* what each request holds between its steps
  itime,     \* the wall clock
  redeemed   \* history: the links that have made an account

dbState == <<user, token, setup, ceiling, redeemed>>
memory == <<sessions, failed>>
identityVars == <<dbState, memory, req, itime>>

UserRows == 1..MaxUsers
TokenRows == 1..MaxTokens
Admin == 4        \* the rank above viewer, user and operator
NoUser == [state |-> "none", name |-> "", role |-> 0, password |-> FALSE, totp |-> FALSE]
NoToken == [state |-> "none", user |-> 0, exp |-> 0]
NoAttempt == [failures |-> 0, last |-> -1, until |-> -1]
IdleRequest == [at |-> "idle", user |-> 0, role |-> 0, now |-> 0, name |-> "",
                addr |-> "", ok |-> FALSE, ceiling |-> 0]

Users == [state : {"none", "active", "suspended", "deleted"}, name : Names \cup {""},
          role : 0..Admin, password : BOOLEAN, totp : BOOLEAN]
Tokens == [state : {"none", "live", "revoked"}, user : 0..MaxUsers, exp : Nat]
Attempts == [failures : Nat, last : Int, until : Int]
Asked == [at : {"idle", "login", "verified", "api", "cli"}, user : 0..MaxUsers, role : 0..Admin,
          now : Nat, name : Names \cup {""}, addr : Addrs \cup {""}, ok : BOOLEAN, ceiling : Nat]

IdentityTypeOK ==
  /\ user \in [UserRows -> Users]
  /\ token \in [TokenRows -> Tokens]
  /\ setup \in [link : 0..MaxLinks, made : 0..MaxLinks, exp : Nat] /\ redeemed \subseteq 1..MaxLinks
  /\ ceiling \in Nat /\ itime \in Nat
  /\ sessions \subseteq [user : UserRows, exp : Nat]
  /\ failed \in [Names \cup Addrs -> Attempts]
  /\ req \in [Requests -> Asked]
  \* a token and a request speak for a row that exists
  /\ \A t \in TokenRows : token[t].state # "none" => user[token[t].user].state # "none"
  /\ \A r \in Requests : req[r].user # 0 => user[req[r].user].state # "none"

IdentityInit ==
  /\ user = [u \in UserRows |-> NoUser]
  /\ token = [t \in TokenRows |-> NoToken]
  /\ setup = [link |-> 0, made |-> 0, exp |-> 0] /\ redeemed = {}
  /\ ceiling = TokenTTL + 1
  /\ sessions = {}
  /\ failed = [k \in Names \cup Addrs |-> NoAttempt]
  /\ req = [r \in Requests |-> IdleRequest]
  /\ itime = 0

-----------------------------------------------------------------------------
(* Rows.                                                                   *)

(* Managing users and tokens is for administrators.                        *)
Authorize(role) == role >= Admin

NextRow(rows, n) == Cardinality({i \in 1..n : rows[i].state # "none"}) + 1

(* List: the rows that are not deleted.                                    *)
LiveUsers == {u \in UserRows : user[u].state \in {"active", "suspended"}}

(* Get: the live row of a name, else the newest deleted one; 0 if none.    *)
Get(n) ==
  LET rows == {u \in UserRows : user[u].name = n}
      best == IF rows \cap LiveUsers # {} THEN rows \cap LiveUsers ELSE rows
  IN IF rows = {} THEN 0 ELSE CHOOSE u \in best : \A v \in best : v <= u

getLive(n) == {u \in LiveUsers : user[u].name = n}

(* transitions: one way.                                                   *)
Transition(from, to) ==
  \/ from = "active" /\ to \in {"suspended", "deleted"}
  \/ from = "suspended" /\ to = "deleted"

(* Mutant: the lookup is taken for a mere message.                         *)
AddBlind(by, n, role, pw) ==
  /\ Authorize(by) /\ NextRow(user, MaxUsers) <= MaxUsers
  /\ user' = [user EXCEPT ![NextRow(user, MaxUsers)] =
       [state |-> "active", name |-> n, role |-> role, password |-> pw, totp |-> FALSE]]

(* Add, with SetPassword when the setup link asks for it.                  *)
Add(by, n, role, pw) ==
  /\ Authorize(by) /\ getLive(n) = {}
  /\ NextRow(user, MaxUsers) <= MaxUsers
  /\ user' = [user EXCEPT ![NextRow(user, MaxUsers)] =
       [state |-> "active", name |-> n, role |-> role, password |-> pw, totp |-> FALSE]]

prepare(by, n, to) ==
  /\ Authorize(by) /\ Get(n) # 0
  /\ Transition(user[Get(n)].state, to)

Suspend(by, n) ==
  /\ prepare(by, n, "suspended")
  /\ user' = [user EXCEPT ![Get(n)].state = "suspended"]
  /\ UNCHANGED token

(* Mutant: the tokens are left, since they no longer authenticate.         *)
DeleteLeavesTokens(by, n) ==
  /\ prepare(by, n, "deleted")
  /\ user' = [user EXCEPT ![Get(n)].state = "deleted", ![Get(n)].totp = FALSE]
  /\ UNCHANGED token

Delete(by, n) ==
  /\ prepare(by, n, "deleted")
  /\ user' = [user EXCEPT ![Get(n)].state = "deleted", ![Get(n)].totp = FALSE]
  /\ token' = [t \in TokenRows |->
       IF token[t].state = "live" /\ token[t].user = Get(n)
         THEN [token[t] EXCEPT !.state = "revoked"] ELSE token[t]]

(* Enroll, once the code the new seed shows has been typed back.           *)
Enroll(by, n) ==
  /\ Authorize(by) /\ Get(n) # 0 /\ user[Get(n)].state = "active"
  /\ user' = [user EXCEPT ![Get(n)].totp = TRUE]
  /\ UNCHANGED token

MintToken(by, n, now, life) ==
  /\ Authorize(by) /\ Get(n) # 0 /\ user[Get(n)].state = "active"
  /\ NextRow(token, MaxTokens) <= MaxTokens
  /\ token' = [token EXCEPT ![NextRow(token, MaxTokens)] =
       [state |-> "live", user |-> Get(n), exp |-> now + life]]
  /\ UNCHANGED user

RevokeToken(by, t) ==
  /\ Authorize(by) /\ token[t].state = "live"
  /\ token' = [token EXCEPT ![t].state = "revoked"]
  /\ UNCHANGED user

(* AllowTokenLifetime, against a profile that has been read.               *)
AllowTokenLifetime(life, max) == life <= max

-----------------------------------------------------------------------------
(* The setup link.                                                         *)

(* server install on the host: a new link replaces the outstanding one.    *)
MintSetup ==
  /\ LiveUsers = {} /\ setup.made < MaxLinks
  /\ setup' = [link |-> setup.made + 1, made |-> setup.made + 1, exp |-> itime + SetupTTL]
  /\ UNCHANGED <<user, token, ceiling, redeemed, memory, req, itime>>

(* Mutant: the hash is compared and left in place.                         *)
RedeemKeepsLink(l, n) ==
  /\ LiveUsers = {} /\ setup.link = l /\ setup.exp > itime
  /\ Add(Admin, n, Admin, TRUE)
  /\ redeemed' = redeemed \cup {l}
  /\ UNCHANGED <<token, setup, ceiling, memory, req, itime>>

(* Redeeming it: one statement compares, checks the time and burns.  A bad *)
(* name or a short password fails the transaction, burn included.          *)
RedeemSetup(l, n) ==
  /\ LiveUsers = {} /\ setup.link = l /\ setup.exp > itime
  /\ setup' = [setup EXCEPT !.link = 0, !.exp = 0]
  /\ Add(Admin, n, Admin, TRUE)
  /\ redeemed' = redeemed \cup {l}
  /\ UNCHANGED <<token, ceiling, memory, req, itime>>

-----------------------------------------------------------------------------
(* Logging in with a password.                                             *)

Hold(r, v) == req' = [req EXCEPT ![r] = v]
Finish(r) == Hold(r, IdleRequest)
KeysFor(r) == {req[r].name, req[r].addr}

lockedFor(keys, now) == \E k \in keys : failed[k].until > now

(* forget: entries nothing is waiting on.                                  *)
forget(now) ==
  [k \in Names \cup Addrs |->
     IF now > failed[k].until /\ now - failed[k].last > Window THEN NoAttempt
     ELSE failed[k]]

(* The attempt is turned away while locked, and takes its time otherwise.  *)
Login(r, n, a, ok) ==
  /\ req[r] = IdleRequest /\ ~lockedFor({n, a}, itime)
  /\ failed[n].failures < MaxCounted /\ failed[a].failures < MaxCounted
  /\ failed' = forget(itime)
  /\ Hold(r, [at |-> "login", user |-> 0, role |-> 0, now |-> itime, name |-> n,
              addr |-> a, ok |-> ok, ceiling |-> 0])
  /\ UNCHANGED <<dbState, sessions, itime>>

(* VerifyPassword: outside any transaction.  Every refusal looks the same. *)
VerifyPassword(r) ==
  LET u == Get(req[r].name)
      good == u # 0 /\ user[u].state = "active" /\ user[u].password /\ req[r].ok
  IN /\ req[r].at = "login"
     /\ Hold(r, [req[r] EXCEPT !.at = "verified", !.ok = good, !.user = IF good THEN u ELSE 0])
     /\ UNCHANGED <<dbState, memory, itime>>

(* Mutant: one failure more than the limit.                                *)
failLate(a, now) ==
  LET n == IF a.last >= 0 /\ now - a.last > Window THEN 1 ELSE a.failures + 1
  IN [failures |-> n, last |-> now,
      until |-> IF n > MaxFailures /\ now > a.until THEN now + Lockout ELSE a.until]

(* fail, for one key: now is when the attempt began.                       *)
fail(a, now) ==
  LET n == IF a.last >= 0 /\ now - a.last > Window THEN 1 ELSE a.failures + 1
  IN [failures |-> n, last |-> now,
      until |-> IF n >= MaxFailures /\ now > a.until THEN now + Lockout ELSE a.until]

LoginFails(r) ==
  /\ req[r].at = "verified" /\ ~req[r].ok
  /\ failed' = [k \in Names \cup Addrs |->
       IF k \in KeysFor(r) THEN fail(failed[k], req[r].now) ELSE failed[k]]
  /\ Finish(r)
  /\ UNCHANGED <<dbState, sessions, itime>>

(* create sweeps the sessions whose time is over.                          *)
createSession(u) ==
  {s \in sessions : itime <= s.exp} \cup {[user |-> u, exp |-> itime + SessionTTL]}

(* The login is recorded and the cookie handed out; only the name's        *)
(* history is cleared.                                                     *)
LoginSucceeds(r) ==
  /\ req[r].at = "verified" /\ req[r].ok
  /\ failed' = [failed EXCEPT ![req[r].name] = NoAttempt]
  /\ sessions' = createSession(req[r].user)
  /\ Finish(r)
  /\ UNCHANGED <<dbState, itime>>

Logout(s) ==
  /\ sessions' = sessions \ {s}
  /\ UNCHANGED <<dbState, failed, req, itime>>

-----------------------------------------------------------------------------
(* Who is asking.                                                          *)

(* Authenticate: the credential and its user, as they stand.               *)
Authenticates(t) ==
  token[t].state = "live" /\ itime < token[t].exp /\ user[token[t].user].state = "active"

Asking(front, u, role) ==
  [at |-> front, user |-> u, role |-> role, now |-> itime, name |-> "", addr |-> "",
   ok |-> FALSE, ceiling |-> ceiling]
As(r, front, u) == Hold(r, Asking(front, u, user[u].role))

(* A request with a bearer token, over HTTP or from the credentials file.  *)
BearerRequest(r, t, front) ==
  /\ req[r] = IdleRequest /\ Authenticates(t)
  /\ As(r, front, token[t].user)
  /\ UNCHANGED <<dbState, memory, itime>>

(* resolvePrincipal with no credential: the local administrator.           *)
LocalRequest(r) ==
  /\ req[r] = IdleRequest
  /\ Hold(r, Asking("cli", 0, Admin))
  /\ UNCHANGED <<dbState, memory, itime>>

(* Mutant: the session is the answer, and the row is not read again.       *)
CookieRequestSnapshot(r, s) ==
  /\ req[r] = IdleRequest /\ s \in sessions
  /\ \/ itime > s.exp /\ sessions' = sessions \ {s} /\ UNCHANGED req
     \/ itime <= s.exp /\ As(r, "api", s.user) /\ UNCHANGED sessions
  /\ UNCHANGED <<dbState, failed, itime>>

(* A request with a cookie: the session names a row, which is read again.  *)
(* A session that has expired or whose user is not active is dropped.      *)
CookieRequest(r, s) ==
  /\ req[r] = IdleRequest /\ s \in sessions
  /\ LET live == itime <= s.exp /\ user[s.user].state = "active"
     IN \/ ~live /\ sessions' = sessions \ {s} /\ UNCHANGED req
        \/ live /\ As(r, "api", s.user) /\ UNCHANGED sessions
  /\ UNCHANGED <<dbState, failed, itime>>

-----------------------------------------------------------------------------
(* What a request does, in its transaction; refused, it changes nothing.   *)
(* The API takes the time and the profile then, the CLI when it started.   *)

Does(r, front) == req[r].at = front /\ Finish(r) /\ UNCHANGED <<setup, redeemed, memory, itime>>
Refused(r) ==
  /\ req[r].at \in {"api", "cli"} /\ Finish(r)
  /\ UNCHANGED <<dbState, memory, itime>>

createUser(r, n, role) ==
  Does(r, "api") /\ Add(req[r].role, n, role, FALSE) /\ UNCHANGED <<token, ceiling>>
patchUser(r, n) == Does(r, "api") /\ Suspend(req[r].role, n) /\ UNCHANGED ceiling
deleteUser(r, n) == Does(r, "api") /\ Delete(req[r].role, n) /\ UNCHANGED ceiling
revokeToken(r, t) == Does(r, "api") /\ RevokeToken(req[r].role, t) /\ UNCHANGED ceiling
createToken(r, n, life) ==
  /\ Does(r, "api") /\ UNCHANGED ceiling
  /\ AllowTokenLifetime(life, ceiling)
  /\ MintToken(req[r].role, n, itime, life)

cmdUserAdd(r, n, role) ==
  Does(r, "cli") /\ Add(req[r].role, n, role, FALSE) /\ UNCHANGED <<token, ceiling>>
cmdUserState(r, n) ==
  Does(r, "cli") /\ (Suspend(req[r].role, n) \/ Delete(req[r].role, n)) /\ UNCHANGED ceiling
cmdUserTOTP(r, n) == Does(r, "cli") /\ Enroll(req[r].role, n) /\ UNCHANGED ceiling
cmdTokenRevoke(r, t) == Does(r, "cli") /\ RevokeToken(req[r].role, t) /\ UNCHANGED ceiling
cmdTokenCreate(r, n, life) ==
  /\ Does(r, "cli") /\ UNCHANGED ceiling
  /\ AllowTokenLifetime(life, req[r].ceiling)
  /\ MintToken(req[r].role, n, req[r].now, life)

(* The regulated profile is applied, or taken back.                        *)
SwapProfile(r) ==
  /\ req[r].at \in {"api", "cli"} /\ Authorize(req[r].role) /\ Finish(r)
  /\ ceiling' = IF ceiling = TokenTTL THEN TokenTTL + 1 ELSE TokenTTL
  /\ UNCHANGED <<user, token, setup, redeemed, memory, itime>>

(* The control plane restarts: sessions and lockouts were in memory.       *)
RestartServer ==
  /\ sessions' = {} /\ failed' = [k \in Names \cup Addrs |-> NoAttempt]
  /\ req' = [r \in Requests |-> IF req[r].at = "cli" THEN req[r] ELSE IdleRequest]
  /\ UNCHANGED <<dbState, itime>>

IdentityTick ==
  /\ itime < IdentityClock /\ itime' = itime + 1
  /\ UNCHANGED <<dbState, memory, req>>

Lifetimes == {TokenTTL, TokenTTL + 1}

LoginNext ==
  \/ RestartServer \/ IdentityTick
  \/ MintSetup \/ \E l \in 1..MaxLinks, n \in Names : RedeemSetup(l, n)
  \/ \E r \in Requests :
       \/ \E n \in Names, a \in Addrs, ok \in BOOLEAN : Login(r, n, a, ok)
       \/ VerifyPassword(r) \/ LoginFails(r) \/ LoginSucceeds(r)

RequestNext ==
  \/ \E s \in sessions : Logout(s)
  \/ \E r \in Requests :
       \/ \E t \in TokenRows, front \in {"api", "cli"} : BearerRequest(r, t, front)
       \/ LocalRequest(r)
       \/ \E s \in sessions : CookieRequest(r, s)
       \/ Refused(r) \/ SwapProfile(r)
       \/ \E n \in Names :
            \/ patchUser(r, n) \/ deleteUser(r, n) \/ cmdUserState(r, n) \/ cmdUserTOTP(r, n)
            \/ \E k \in Granted : createUser(r, n, k) \/ cmdUserAdd(r, n, k)
            \/ \E life \in Lifetimes : createToken(r, n, life) \/ cmdTokenCreate(r, n, life)
       \/ \E t \in TokenRows : revokeToken(r, t) \/ cmdTokenRevoke(r, t)

IdentityNext == LoginNext \/ RequestNext

IdentitySpec == IdentityInit /\ [][IdentityNext]_identityVars

-----------------------------------------------------------------------------
(* Properties.                                                             *)

(* A deleted account holds nothing that could speak for it: no token that  *)
(* token list would call live, and no TOTP seed, even when a mint or an    *)
(* enrollment was under way when it was deleted (Delete, MintToken).       *)
DeletedHoldsNothing ==
  \A u \in UserRows : user[u].state = "deleted" =>
    /\ ~user[u].totp
    /\ \A t \in TokenRows : token[t].user = u => token[t].state # "live"

(* A name has one live account however many front ends add it at once, so  *)
(* what a verb does by name it does to the account its preview read (Add,  *)
(* Get).                                                                   *)
OneLiveName ==
  \A u, v \in LiveUsers : user[u].name = user[v].name => u = v

(* A setup link makes one account, ever: not again after that account is   *)
(* gone, not once a newer link exists (RedeemSetup).                       *)
LinkSpent == setup.link \notin redeemed

(* A credential speaks for one account, and only while it lives: names,    *)
(* tokens, seeds and setup links, however front ends race over them.       *)
AccountsSound == DeletedHoldsNothing /\ OneLiveName /\ LinkSpent

(* Suspending or deleting an account ends it at the next request: beyond   *)
(* those already past authentication, no request ever carries it again,    *)
(* by token, by cookie, or by a login that had already checked the         *)
(* password (authenticate, Authenticate).                                  *)
Carrying(u) == {r \in Requests : req[r].at \in {"api", "cli"} /\ req[r].user = u}
SuspensionHolds ==
  [][\A u \in UserRows : user[u].state \in {"suspended", "deleted"} =>
       Carrying(u)' \subseteq Carrying(u)]_identityVars

(* Once a name or an address has failed too often, the lockout covers the  *)
(* last failure counted, even when slow attempts finish out of order and   *)
(* count with the time they began (logins.fail).                           *)
LockoutCovers ==
  \A k \in Names \cup Addrs :
    failed[k].failures >= MaxFailures => failed[k].until >= failed[k].last
=============================================================================
