------------------------------- MODULE Accounts -------------------------------
(***************************************************************************)
(* The account endpoints of routers/auth.py over the tables of             *)
(* models/user.py and the login counters in Redis: registration, login     *)
(* with its failure limit, refresh with token rotation and replay          *)
(* detection, logout, and API keys.  Each request is a process that may    *)
(* stop between two of its statements; a database transaction takes effect *)
(* when it commits.  Passwords, cookies, access tokens and hashes are left *)
(* out: a refresh token or a key is known by its row.                      *)
(***************************************************************************)
EXTENDS Integers, FiniteSets

CONSTANTS
  Requests,   \* the concurrent requests
  Emails,     \* addresses as clients spell them
  Lower,      \* lower(email)
  Tokens,     \* bound: the refresh tokens that can be issued
  Keys,       \* bound: the API keys that can be created
  MaxFails,   \* 5 failed logins
  MaxKeys,    \* 10 active keys
  FailAt,     \* where a request may raise or its process die
  Workloads,  \* bound: the sets of endpoints used together in one behaviour
  Null

Labels == {"register", "insert", "login", "counted", "cleared", "rotate",
           "replayed", "logout", "create_key"}

ASSUME AccountsAssumption ==
  /\ IsFiniteSet(Requests) /\ IsFiniteSet(Keys)
  /\ Lower \in [Emails -> Emails]
  /\ MaxFails \in Nat \ {0} /\ MaxKeys \in Nat \ {0}
  /\ FailAt \subseteq Labels
  /\ Null \notin Emails \cup Tokens \cup Keys
  /\ Keys \cap Emails = {} /\ Keys \cap Tokens = {} /\ Emails \cap Tokens = {}

VARIABLES
  workload,  \* the endpoints the clients use
  req,       \* where each request is, and the row or address it works on
  users,     \* the rows of users, by email
  owner,     \* the user of each refresh token or key, Null before it exists
  parent,    \* the token a refresh token was rotated from
  revoked,   \* the tokens and keys with a revoked_at
  expired,   \* the tokens and keys past their expires_at
  fails,     \* login_fails:<address>, 0 when absent
  ttl        \* whether that counter has a time to live

accountVars == <<workload, req, users, owner, parent, revoked, expired, fails, ttl>>
tokenVars == <<owner, parent, revoked, expired>>
counterVars == <<fails, ttl>>

Credentials == Tokens \cup Keys
Idle == [at |-> "idle", arg |-> Null]
Go(r, label, arg) == req' = [req EXCEPT ![r] = [at |-> label, arg |-> arg]]
Done(r) == req' = [req EXCEPT ![r] = Idle]
Begin(r, endpoint) == req[r] = Idle /\ endpoint \in workload
At(r, label) == req[r].at = label
InFlight(label, arg) == {r \in Requests : req[r] = [at |-> label, arg |-> arg]}

AccountsInit ==
  /\ workload \in Workloads
  /\ req = [r \in Requests |-> Idle]
  /\ users = {}
  /\ owner = [c \in Credentials |-> Null]
  /\ parent = [t \in Tokens |-> Null]
  /\ revoked = {}
  /\ expired = {}
  /\ fails = [a \in Emails |-> 0]
  /\ ttl = [a \in Emails |-> FALSE]

-----------------------------------------------------------------------------
(* register *)

(* Some stored email equals this one but for its case. *)
Taken(e) == \E u \in users : Lower[u] = Lower[e]

(* Mutant: the unique index is on the email as it is spelt. *)
IndexConflict_CaseSensitive(e) == e \in users

(* idx_users_email_lower *)
IndexConflict(e) == Taken(e)

(* A taken address answers 409. *)
RegisterCheck(r, e) ==
  /\ Begin(r, "register")
  /\ ~Taken(e)
  /\ Go(r, "register", e)
  /\ UNCHANGED <<workload, users, tokenVars, counterVars>>

(* The insert waits for an uncommitted one of the same index entry, and     *)
(* raises when the entry exists.                                            *)
RegisterFlush(r) ==
  /\ At(r, "register")
  /\ \A q \in Requests : ~(At(q, "insert") /\ Lower[req[q].arg] = Lower[req[r].arg])
  /\ IF IndexConflict(req[r].arg) THEN Done(r) ELSE Go(r, "insert", req[r].arg)
  /\ UNCHANGED <<workload, users, tokenVars, counterVars>>

(* A row not used yet; rows differ in nothing else. *)
Unused(rows) == {c \in rows : owner[c] = Null}
Fresh(rows) == CHOOSE c \in Unused(rows) : TRUE

(* A new row of refresh_tokens. *)
Issue(u, from) ==
  /\ Unused(Tokens) # {}
  /\ owner' = [owner EXCEPT ![Fresh(Tokens)] = u]
  /\ parent' = [parent EXCEPT ![Fresh(Tokens)] = from]

RegisterCommit(r) ==
  /\ At(r, "insert")
  /\ users' = users \cup {req[r].arg}
  /\ Issue(req[r].arg, Null)
  /\ Done(r)
  /\ UNCHANGED <<workload, revoked, expired, counterVars>>

-----------------------------------------------------------------------------
(* login *)

(* _redis_login_rate_check: at the limit the answer is 429. *)
LoginCheck(r, e) ==
  /\ Begin(r, "login")
  /\ fails[Lower[e]] < MaxFails
  /\ Go(r, "login", e)
  /\ UNCHANGED <<workload, users, tokenVars, counterVars>>

(* An unknown address or a wrong password: INCR, which keeps the time to    *)
(* live of the key.                                                         *)
CountFailure(r) ==
  /\ At(r, "login")
  /\ fails' = [fails EXCEPT ![Lower[req[r].arg]] = @ + 1]
  /\ Go(r, "counted", req[r].arg)
  /\ UNCHANGED <<workload, users, tokenVars, ttl>>

(* Mutant: the time to live is set for the first failure only. *)
ExpireFailure_FirstOnly(r) ==
  /\ At(r, "counted")
  /\ ttl' = [ttl EXCEPT ![Lower[req[r].arg]] = @ \/ fails[Lower[req[r].arg]] = 1]
  /\ Done(r)
  /\ UNCHANGED <<workload, users, tokenVars, fails>>

(* EXPIRE, without effect on a key that is gone; then 401. *)
ExpireFailure(r) ==
  /\ At(r, "counted")
  /\ ttl' = [ttl EXCEPT ![Lower[req[r].arg]] = fails[Lower[req[r].arg]] > 0]
  /\ Done(r)
  /\ UNCHANGED <<workload, users, tokenVars, fails>>

(* Mutant: the counter is set to zero for 900 seconds instead of deleted. *)
LoginClear_SetsZero(r) ==
  /\ At(r, "login")
  /\ fails' = [fails EXCEPT ![Lower[req[r].arg]] = 0]
  /\ ttl' = [ttl EXCEPT ![Lower[req[r].arg]] = TRUE]
  /\ \E u \in users : Lower[u] = Lower[req[r].arg] /\ Go(r, "cleared", u)
  /\ UNCHANGED <<workload, users, tokenVars>>

(* The right password: the counter is deleted. *)
LoginClear(r) ==
  /\ At(r, "login")
  /\ fails' = [fails EXCEPT ![Lower[req[r].arg]] = 0]
  /\ ttl' = [ttl EXCEPT ![Lower[req[r].arg]] = FALSE]
  /\ \E u \in users : Lower[u] = Lower[req[r].arg] /\ Go(r, "cleared", u)
  /\ UNCHANGED <<workload, users, tokenVars>>

LoginCommit(r) ==
  /\ At(r, "cleared")
  /\ Issue(req[r].arg, Null)
  /\ Done(r)
  /\ UNCHANGED <<workload, users, revoked, expired, counterVars>>

(* Redis drops a counter after 900 seconds. *)
CounterExpires(a) ==
  /\ ttl[a]
  /\ fails' = [fails EXCEPT ![a] = 0]
  /\ ttl' = [ttl EXCEPT ![a] = FALSE]
  /\ UNCHANGED <<workload, req, users, tokenVars>>

-----------------------------------------------------------------------------
(* refresh and logout *)

(* The row of the cookie's token: a revoked one is a replay, an expired one *)
(* answers 401, any other is rotated.                                       *)
RefreshRead(r, t) ==
  /\ Begin(r, "refresh")
  /\ owner[t] # Null
  /\ \/ t \in revoked /\ Go(r, "replayed", t)
     \/ t \notin revoked \cup expired /\ Go(r, "rotate", t)
  /\ UNCHANGED <<workload, users, tokenVars, counterVars>>

(* Every unrevoked token of the user is revoked. *)
RevokeAll(r) ==
  /\ At(r, "replayed")
  /\ revoked' = revoked \cup {t \in Tokens : owner[t] = owner[req[r].arg]}
  /\ Done(r)
  /\ UNCHANGED <<workload, users, owner, parent, expired, counterVars>>

(* Mutant: the new token is stored, the old one is not revoked. *)
Rotate_KeepsOld(r) ==
  /\ At(r, "rotate")
  /\ Issue(owner[req[r].arg], req[r].arg)
  /\ Done(r)
  /\ UNCHANGED <<workload, users, revoked, expired, counterVars>>

(* The old token is revoked and the new one stored by one commit, whatever  *)
(* became of the old one since it was read.                                 *)
Rotate(r) ==
  /\ At(r, "rotate")
  /\ revoked' = revoked \cup {req[r].arg}
  /\ Issue(owner[req[r].arg], req[r].arg)
  /\ Done(r)
  /\ UNCHANGED <<workload, users, expired, counterVars>>

LogoutRead(r, t) ==
  /\ Begin(r, "logout")
  /\ owner[t] # Null
  /\ Go(r, "logout", t)
  /\ UNCHANGED <<workload, users, tokenVars, counterVars>>

LogoutCommit(r) ==
  /\ At(r, "logout")
  /\ revoked' = revoked \cup {req[r].arg}
  /\ Done(r)
  /\ UNCHANGED <<workload, users, owner, parent, expired, counterVars>>

-----------------------------------------------------------------------------
(* API keys *)

(* get_current_user: a user with a bearer token, or the owner of a key that *)
(* is neither revoked nor expired.  Nothing deletes users.                  *)
Authenticated(u, credential) ==
  /\ u \in users
  /\ \/ credential = Null
     \/ /\ credential \in Keys \ (revoked \cup expired)
        /\ owner[credential] = u

(* The keys the limit counts, expired ones included. *)
ActiveKeys(u) == {k \in Keys : owner[k] = u /\ k \notin revoked}

(* Mutant: one key more is let through. *)
CreateKeyCount_OffByOne(r, u) ==
  /\ Begin(r, "create_key")
  /\ \E credential \in Keys \cup {Null} : Authenticated(u, credential)
  /\ Cardinality(ActiveKeys(u)) <= MaxKeys
  /\ Go(r, "create_key", u)
  /\ UNCHANGED <<workload, users, tokenVars, counterVars>>

(* At the limit the answer is 422. *)
CreateKeyCount(r, u) ==
  /\ Begin(r, "create_key")
  /\ \E credential \in Keys \cup {Null} : Authenticated(u, credential)
  /\ Cardinality(ActiveKeys(u)) < MaxKeys
  /\ Go(r, "create_key", u)
  /\ UNCHANGED <<workload, users, tokenVars, counterVars>>

CreateKeyCommit(r) ==
  /\ At(r, "create_key")
  /\ Unused(Keys) # {}
  /\ owner' = [owner EXCEPT ![Fresh(Keys)] = req[r].arg]
  /\ Done(r)
  /\ UNCHANGED <<workload, users, parent, revoked, expired, counterVars>>

(* Only the owner's own keys are found; a key may be revoked again. *)
RevokeKey(k) ==
  /\ "revoke_key" \in workload
  /\ owner[k] # Null
  /\ \E credential \in Keys \cup {Null} : Authenticated(owner[k], credential)
  /\ revoked' = revoked \cup {k}
  /\ UNCHANGED <<workload, req, users, owner, parent, expired, counterVars>>

(* A token after 30 days, a key after 365. *)
CredentialExpires(c) ==
  /\ "expiry" \in workload
  /\ owner[c] # Null
  /\ expired' = expired \cup {c}
  /\ UNCHANGED <<workload, req, users, owner, parent, revoked, counterVars>>

-----------------------------------------------------------------------------
(* A statement raises or the process dies: the open transaction is undone. *)
RequestFails(r) ==
  /\ req[r].at \in FailAt
  /\ Done(r)
  /\ UNCHANGED <<workload, users, tokenVars, counterVars>>

(* What a request does once it has begun. *)
Continue(r) ==
  \/ RegisterFlush(r) \/ RegisterCommit(r)
  \/ CountFailure(r) \/ ExpireFailure(r) \/ LoginClear(r) \/ LoginCommit(r)
  \/ RevokeAll(r) \/ Rotate(r) \/ LogoutCommit(r)
  \/ CreateKeyCommit(r)

Arrive(r) ==
  \/ \E e \in Emails : RegisterCheck(r, e) \/ LoginCheck(r, e)
  \/ \E t \in Tokens : RefreshRead(r, t) \/ LogoutRead(r, t)
  \/ \E u \in users : CreateKeyCount(r, u)

AccountsNext ==
  \/ \E r \in Requests : Arrive(r) \/ Continue(r) \/ RequestFails(r)
  \/ \E k \in Keys : RevokeKey(k)
  \/ \E c \in Credentials : CredentialExpires(c)
  \/ \E a \in Emails : CounterExpires(a)

AccountsSpec == AccountsInit /\ [][AccountsNext]_accountVars

(* Every request goes on, and Redis expires its keys. *)
FairAccountsSpec ==
  /\ AccountsSpec
  /\ \A r \in Requests : WF_accountVars(Continue(r))
  /\ \A a \in Emails : WF_accountVars(CounterExpires(a))

-----------------------------------------------------------------------------
(* Properties *)

ArgOf(label) ==
  CASE label \in {"register", "insert", "login", "counted"} -> Emails
    [] label \in {"cleared", "create_key"} -> users
    [] label \in {"rotate", "replayed", "logout"} -> {t \in Tokens : owner[t] # Null}
    [] OTHER -> {Null}

AccountsTypeOK ==
  /\ req \in [Requests -> [at : Labels \cup {"idle"}, arg : Emails \cup Tokens \cup {Null}]]
  /\ \A r \in Requests : req[r].arg \in ArgOf(req[r].at)
  /\ users \subseteq Emails
  /\ owner \in [Credentials -> Emails \cup {Null}]
  /\ parent \in [Tokens -> Tokens \cup {Null}]
  /\ revoked \subseteq Credentials /\ expired \subseteq Credentials
  /\ fails \in [Emails -> Nat] /\ ttl \in [Emails -> BOOLEAN]
  /\ \A a \in Emails : ttl[a] => fails[a] > 0

(* However many registrations race, in whatever case, an address has one    *)
(* account.                                                                 *)
OneAccountPerAddress ==
  \A u, v \in users : Lower[u] = Lower[v] => u = v

(* Rotation is all or nothing: whichever requests with the same cookie race,*)
(* a token that has a successor is revoked, the successor belongs to the    *)
(* same user, and every token and key to an account that was committed.     *)
RotationRetires ==
  /\ \A t \in Tokens : parent[t] # Null =>
       parent[t] \in revoked /\ owner[t] = owner[parent[t]]
  /\ \A c \in Credentials : owner[c] # Null => owner[c] \in users

(* The limits of failed logins and of active keys are read before and used  *)
(* after another request's write; they are overshot by less than the number *)
(* of concurrent requests, those still to write included.                   *)
LimitsOvershootBounded ==
  /\ \A e \in Emails :
       fails[Lower[e]] + Cardinality({r \in Requests :
           At(r, "login") /\ Lower[req[r].arg] = Lower[e]})
         < MaxFails + Cardinality(Requests)
  /\ \A u \in users :
       Cardinality(ActiveKeys(u)) + Cardinality(InFlight("create_key", u))
         < MaxKeys + Cardinality(Requests)

(* "Too many failed login attempts. Try again in 15 minutes.": an address   *)
(* that is locked is unlocked again, unless a request dies between the INCR *)
(* and the EXPIRE of its counter.                                           *)
LockoutEnds ==
  \A a \in Emails : fails[a] >= MaxFails ~> fails[a] < MaxFails
=============================================================================
