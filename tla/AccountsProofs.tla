---------------------------- MODULE AccountsProofs ----------------------------
(***************************************************************************)
(* For any number of concurrent requests, addresses, tokens and keys: one  *)
(* account per address, rotation is all or nothing, and the limits of      *)
(* failed logins and keys are overshot by less than the requests.          *)
(***************************************************************************)
EXTENDS Accounts, FiniteSetTheorems, TLAPS

(* A row that has just been issued was not used before. *)
LEMMA FreshIsUnused ==
  ASSUME NEW rows, Unused(rows) # {}
  PROVE  Fresh(rows) \in rows /\ owner[Fresh(rows)] = Null
BY DEF Fresh, Unused

LEMMA InitTyped == AccountsInit => AccountsTypeOK
BY AccountsAssumption DEF AccountsInit, AccountsTypeOK, Idle, ArgOf, Credentials, Labels

(* The part of the type invariant about the requests and the one about the  *)
(* tables and counters.                                                     *)
RequestsTyped ==
  /\ req \in [Requests -> [at : Labels \cup {"idle"}, arg : Emails \cup Tokens \cup {Null}]]
  /\ \A r \in Requests : req[r].arg \in ArgOf(req[r].at)

TablesTyped ==
  /\ users \subseteq Emails
  /\ owner \in [Credentials -> Emails \cup {Null}]
  /\ parent \in [Tokens -> Tokens \cup {Null}]
  /\ revoked \subseteq Credentials /\ expired \subseteq Credentials
  /\ fails \in [Emails -> Nat] /\ ttl \in [Emails -> BOOLEAN]
  /\ \A a \in Emails : ttl[a] => fails[a] > 0

(* Users and rows stay. *)
RowsStay ==
  /\ users \subseteq users'
  /\ \A c \in Credentials : owner[c] # Null => owner'[c] = owner[c]

LEMMA TypeParts == AccountsTypeOK <=> RequestsTyped /\ TablesTyped
BY DEF AccountsTypeOK, RequestsTyped, TablesTyped

(* What a label asks of an argument goes on holding. *)
LEMMA ArgumentsStay ==
  ASSUME RowsStay, NEW label
  PROVE  ArgOf(label) \subseteq ArgOf(label)'
BY DEF ArgOf, RowsStay, Credentials

(* Requests that wait stay typed while users and rows only come. *)
LEMMA WaitingTyped ==
  ASSUME RequestsTyped, RowsStay, UNCHANGED req
  PROVE  RequestsTyped'
<1>1. ASSUME NEW r \in Requests PROVE (req[r].arg \in ArgOf(req[r].at))'
  <2>1. req[r].arg \in ArgOf(req[r].at)
    BY DEF RequestsTyped
  <2>2. PICK at : at = req[r].at
    OBVIOUS
  <2>3. req[r].arg \in ArgOf(at)'
    BY <2>1, <2>2, ArgumentsStay
  <2>4. req'[r].arg \in ArgOf(at)' /\ at = req'[r].at
    BY <2>2, <2>3
  <2> QED BY <2>4 DEF ArgOf
<1> QED BY <1>1 DEF RequestsTyped

(* One request moves to a label with an argument of its kind. *)
LEMMA MoveTyped ==
  ASSUME RequestsTyped, RowsStay, NEW r \in Requests,
         NEW label \in Labels \cup {"idle"}, NEW arg \in Emails \cup Tokens \cup {Null},
         req' = [req EXCEPT ![r] = [at |-> label, arg |-> arg]],
         arg \in ArgOf(label)'
  PROVE  RequestsTyped'
<1>1. req' \in [Requests -> [at : Labels \cup {"idle"}, arg : Emails \cup Tokens \cup {Null}]]
  BY DEF RequestsTyped
<1>2. ASSUME NEW q \in Requests PROVE (req[q].arg \in ArgOf(req[q].at))'
  <2>1. CASE q = r
    <3>1. req'[q].at = label /\ req'[q].arg = arg
      BY <2>1 DEF RequestsTyped
    <3> QED BY <3>1 DEF ArgOf
  <2>2. CASE q # r
    <3>1. req'[q] = req[q] /\ req[q].arg \in ArgOf(req[q].at)
      BY <2>2 DEF RequestsTyped
    <3>2. PICK at : at = req[q].at
      OBVIOUS
    <3>3. req'[q].arg \in ArgOf(at)' /\ at = req'[q].at
      BY <3>1, <3>2, ArgumentsStay
    <3> QED BY <3>3 DEF ArgOf
  <2> QED BY <2>1, <2>2
<1> QED BY <1>1, <1>2 DEF RequestsTyped

(* A request that is done. *)
LEMMA DoneTyped ==
  ASSUME RequestsTyped, RowsStay, NEW r \in Requests, Done(r)
  PROVE  RequestsTyped'
<1>1. Null \in ArgOf("idle")'
  BY DEF ArgOf
<1> QED BY <1>1, MoveTyped DEF Done, Idle

(* A token that is issued to a user. *)
LEMMA IssueTyped ==
  ASSUME TablesTyped, NEW u \in Emails, NEW from \in Tokens \cup {Null},
         Issue(u, from)
  PROVE  /\ owner' \in [Credentials -> Emails \cup {Null}]
         /\ parent' \in [Tokens -> Tokens \cup {Null}]
         /\ \A c \in Credentials : owner[c] # Null => owner'[c] = owner[c]
<1>1. Fresh(Tokens) \in Tokens /\ owner[Fresh(Tokens)] = Null
  BY FreshIsUnused DEF Issue
<1> QED BY <1>1 DEF Issue, TablesTyped, Credentials

(* Where a request is, its argument has the kind the next statement needs. *)
LEMMA ArgumentKinds ==
  ASSUME RequestsTyped, TablesTyped, NEW r \in Requests
  PROVE  /\ req[r].at \in {"register", "insert", "login", "counted", "cleared", "create_key"}
              => req[r].arg \in Emails
         /\ req[r].at \in {"cleared", "create_key"} => req[r].arg \in users
         /\ req[r].at \in {"rotate", "replayed", "logout"}
              => req[r].arg \in Tokens /\ owner[req[r].arg] \in Emails
BY DEF RequestsTyped, TablesTyped, ArgOf, Credentials
(* Every step keeps users and rows, and the types. *)
LEMMA StepTyped ==
  ASSUME AccountsTypeOK, [AccountsNext]_accountVars
  PROVE  RowsStay /\ RequestsTyped' /\ TablesTyped'
<1> USE AccountsAssumption
<1>0. RequestsTyped /\ TablesTyped
  BY TypeParts
<1> USE <1>0
<1>1. ASSUME NEW r \in Requests, NEW e \in Emails, RegisterCheck(r, e) \/ LoginCheck(r, e)
      PROVE  RowsStay /\ RequestsTyped' /\ TablesTyped'
  <2>1. RowsStay /\ TablesTyped'
    BY <1>1 DEF RegisterCheck, LoginCheck, RowsStay, TablesTyped, tokenVars, counterVars
  <2>2. e \in ArgOf("register")' /\ e \in ArgOf("login")'
    BY DEF ArgOf
  <2>3. RequestsTyped'
    BY <1>1, <2>1, <2>2, MoveTyped DEF RegisterCheck, LoginCheck, Go, Labels
  <2> QED BY <2>1, <2>3
<1>2. ASSUME NEW r \in Requests, RegisterFlush(r)
      PROVE  RowsStay /\ RequestsTyped' /\ TablesTyped'
  <2>1. RowsStay /\ TablesTyped'
    BY <1>2 DEF RegisterFlush, RowsStay, TablesTyped, tokenVars, counterVars
  <2>2. req[r].arg \in Emails /\ ArgOf("insert")' = Emails
    BY <1>2, ArgumentKinds DEF RegisterFlush, At, ArgOf
  <2>3. CASE Done(r)
    BY <2>1, <2>3, DoneTyped
  <2>4. CASE Go(r, "insert", req[r].arg)
    BY <2>1, <2>2, <2>4, MoveTyped DEF Go, Labels
  <2> QED BY <1>2, <2>1, <2>3, <2>4 DEF RegisterFlush
<1>3. ASSUME NEW r \in Requests, RegisterCommit(r) \/ LoginCommit(r)
      PROVE  RowsStay /\ RequestsTyped' /\ TablesTyped'
  <2>1. req[r].arg \in Emails /\ Issue(req[r].arg, Null)
    BY <1>3, ArgumentKinds DEF RegisterCommit, LoginCommit, At
  <2>2. RowsStay /\ TablesTyped'
    BY <1>3, <2>1, IssueTyped DEF RegisterCommit, LoginCommit, RowsStay, TablesTyped, counterVars
  <2> QED BY <1>3, <2>2, DoneTyped DEF RegisterCommit, LoginCommit
<1>4. ASSUME NEW r \in Requests, CountFailure(r)
      PROVE  RowsStay /\ RequestsTyped' /\ TablesTyped'
  <2>1. req[r].arg \in Emails /\ ArgOf("counted")' = Emails
    BY <1>4, ArgumentKinds DEF CountFailure, At, ArgOf
  <2>2. RowsStay /\ TablesTyped'
    BY <1>4, <2>1 DEF CountFailure, RowsStay, TablesTyped, tokenVars
  <2> QED BY <1>4, <2>1, <2>2, MoveTyped DEF CountFailure, Go, Labels
<1>5. ASSUME NEW r \in Requests, ExpireFailure(r)
      PROVE  RowsStay /\ RequestsTyped' /\ TablesTyped'
  <2>1. req[r].arg \in Emails
    BY <1>5, ArgumentKinds DEF ExpireFailure, At
  <2>2. RowsStay /\ TablesTyped'
    BY <1>5, <2>1 DEF ExpireFailure, RowsStay, TablesTyped, tokenVars
  <2> QED BY <1>5, <2>2, DoneTyped DEF ExpireFailure
<1>6. ASSUME NEW r \in Requests, LoginClear(r)
      PROVE  RowsStay /\ RequestsTyped' /\ TablesTyped'
  <2>1. RowsStay /\ TablesTyped'
    BY <1>6 DEF LoginClear, RowsStay, TablesTyped, tokenVars
  <2>2. PICK u \in users : Go(r, "cleared", u)
    BY <1>6 DEF LoginClear
  <2>3. u \in Emails /\ u \in ArgOf("cleared")'
    BY <2>1 DEF TablesTyped, RowsStay, ArgOf
  <2> QED BY <2>1, <2>2, <2>3, MoveTyped DEF Go, Labels
<1>7. ASSUME NEW r \in Requests, NEW t \in Tokens, RefreshRead(r, t) \/ LogoutRead(r, t)
      PROVE  RowsStay /\ RequestsTyped' /\ TablesTyped'
  <2>1. RowsStay /\ TablesTyped' /\ owner[t] # Null /\ UNCHANGED owner
    BY <1>7 DEF RefreshRead, LogoutRead, RowsStay, TablesTyped, tokenVars, counterVars
  <2>2. /\ t \in ArgOf("rotate")' /\ t \in ArgOf("replayed")' /\ t \in ArgOf("logout")'
    BY <2>1 DEF ArgOf
  <2>3. PICK label \in {"rotate", "replayed", "logout"} : Go(r, label, t)
    BY <1>7 DEF RefreshRead, LogoutRead
  <2> QED BY <2>1, <2>2, <2>3, MoveTyped DEF Go, Labels
<1>8. ASSUME NEW r \in Requests, RevokeAll(r) \/ LogoutCommit(r)
      PROVE  RowsStay /\ RequestsTyped' /\ TablesTyped'
  <2>1. req[r].arg \in Tokens
    BY <1>8, ArgumentKinds DEF RevokeAll, LogoutCommit, At
  <2>2. RowsStay /\ TablesTyped'
    BY <1>8, <2>1 DEF RevokeAll, LogoutCommit, RowsStay, TablesTyped, counterVars, Credentials
  <2> QED BY <1>8, <2>2, DoneTyped DEF RevokeAll, LogoutCommit
<1>9. ASSUME NEW r \in Requests, Rotate(r)
      PROVE  RowsStay /\ RequestsTyped' /\ TablesTyped'
  <2>1. req[r].arg \in Tokens /\ owner[req[r].arg] \in Emails
    BY <1>9, ArgumentKinds DEF Rotate, At
  <2>2. RowsStay /\ TablesTyped'
    BY <1>9, <2>1, IssueTyped DEF Rotate, RowsStay, TablesTyped, counterVars, Credentials
  <2> QED BY <1>9, <2>2, DoneTyped DEF Rotate
<1>10. ASSUME NEW r \in Requests, NEW u \in users, CreateKeyCount(r, u)
      PROVE  RowsStay /\ RequestsTyped' /\ TablesTyped'
  <2>1. RowsStay /\ TablesTyped'
    BY <1>10 DEF CreateKeyCount, RowsStay, TablesTyped, tokenVars, counterVars
  <2>2. u \in Emails /\ u \in ArgOf("create_key")'
    BY <2>1 DEF TablesTyped, RowsStay, ArgOf
  <2> QED BY <1>10, <2>1, <2>2, MoveTyped DEF CreateKeyCount, Go, Labels
<1>11. ASSUME NEW r \in Requests, CreateKeyCommit(r)
      PROVE  RowsStay /\ RequestsTyped' /\ TablesTyped'
  <2>1. req[r].arg \in Emails /\ Fresh(Keys) \in Keys /\ owner[Fresh(Keys)] = Null
    BY <1>11, ArgumentKinds, FreshIsUnused DEF CreateKeyCommit, At
  <2>2. RowsStay /\ TablesTyped'
    BY <1>11, <2>1 DEF CreateKeyCommit, RowsStay, TablesTyped, counterVars, Credentials
  <2> QED BY <1>11, <2>2, DoneTyped DEF CreateKeyCommit
<1>12. ASSUME NEW r \in Requests, RequestFails(r)
      PROVE  RowsStay /\ RequestsTyped' /\ TablesTyped'
  <2>1. RowsStay /\ TablesTyped'
    BY <1>12 DEF RequestFails, RowsStay, TablesTyped, tokenVars, counterVars
  <2> QED BY <1>12, <2>1, DoneTyped DEF RequestFails
<1>13. ASSUME NEW k \in Keys, RevokeKey(k)
      PROVE  RowsStay /\ RequestsTyped' /\ TablesTyped'
  BY <1>13, WaitingTyped DEF RevokeKey, RowsStay, TablesTyped, counterVars, Credentials
<1>14. ASSUME NEW c \in Credentials, CredentialExpires(c)
      PROVE  RowsStay /\ RequestsTyped' /\ TablesTyped'
  BY <1>14, WaitingTyped DEF CredentialExpires, RowsStay, TablesTyped, counterVars
<1>15. ASSUME NEW a \in Emails, CounterExpires(a)
      PROVE  RowsStay /\ RequestsTyped' /\ TablesTyped'
  BY <1>15, WaitingTyped DEF CounterExpires, RowsStay, TablesTyped, tokenVars
<1>16. CASE UNCHANGED accountVars
  BY <1>16, WaitingTyped DEF accountVars, RowsStay, TablesTyped
<1> QED
  BY <1>1, <1>2, <1>3, <1>4, <1>5, <1>6, <1>7, <1>8, <1>9, <1>10, <1>11, <1>12,
     <1>13, <1>14, <1>15, <1>16 DEF AccountsNext, Arrive, Continue

(* The requests, tables and counters keep their types. *)
THEOREM AccountsTyped == AccountsSpec => []AccountsTypeOK
<1>1. AccountsTypeOK /\ [AccountsNext]_accountVars => AccountsTypeOK'
  <2>1. RequestsTyped' /\ TablesTyped' => AccountsTypeOK'
    BY DEF AccountsTypeOK, RequestsTyped, TablesTyped
  <2> QED BY <2>1, StepTyped
<1> QED BY InitTyped, <1>1, PTL DEF AccountsSpec
-----------------------------------------------------------------------------
(* A request comes to the labels the arguments below are about by one       *)
(* statement each.                                                          *)
Settled(q) ==
  \/ req'[q] = req[q]
  \/ req'[q].at \notin {"insert", "login", "create_key"}

LEMMA Arrivals ==
  ASSUME AccountsTypeOK, [AccountsNext]_accountVars, NEW q \in Requests
  PROVE  \/ Settled(q)
         \/ RegisterFlush(q)
         \/ \E e \in Emails : LoginCheck(q, e)
         \/ \E u \in users : CreateKeyCount(q, u)
<1> USE DEF Settled, Go, Done, Idle
<1>0. req \in [Requests -> [at : Labels \cup {"idle"}, arg : Emails \cup Tokens \cup {Null}]]
  BY DEF AccountsTypeOK
<1> SUFFICES ASSUME req'[q] # req[q]
             PROVE  \/ req'[q].at \notin {"insert", "login", "create_key"}
                    \/ RegisterFlush(q)
                    \/ \E e \in Emails : LoginCheck(q, e)
                    \/ \E u \in users : CreateKeyCount(q, u)
  OBVIOUS
<1>1. PICK r \in Requests : Arrive(r) \/ Continue(r) \/ RequestFails(r)
  BY DEF AccountsNext, RevokeKey, CredentialExpires, CounterExpires, accountVars
<1>2. CASE Continue(r) \/ RequestFails(r)
  <2>1. CASE RegisterFlush(r)
    BY <1>0, <2>1 DEF RegisterFlush
  <2>2. CASE ~RegisterFlush(r)
    BY <1>0, <1>2, <2>2 DEF Continue, RequestFails, RegisterCommit, CountFailure,
       ExpireFailure, LoginClear, LoginCommit, RevokeAll, Rotate, LogoutCommit, CreateKeyCommit
  <2> QED BY <2>1, <2>2
<1>3. CASE \E e \in Emails : RegisterCheck(r, e) \/ LoginCheck(r, e)
  BY <1>0, <1>3 DEF RegisterCheck, LoginCheck
<1>4. CASE \E t \in Tokens : RefreshRead(r, t) \/ LogoutRead(r, t)
  BY <1>0, <1>4 DEF RefreshRead, LogoutRead
<1>5. CASE \E u \in users : CreateKeyCount(r, u)
  BY <1>0, <1>5 DEF CreateKeyCount
<1> QED BY <1>1, <1>2, <1>3, <1>4, <1>5 DEF Arrive

LEMMA UsersChange ==
  ASSUME [AccountsNext]_accountVars, users' # users
  PROVE  \E r \in Requests : RegisterCommit(r)
BY DEF AccountsNext, Arrive, Continue, RegisterCheck, RegisterFlush, LoginCheck,
   CountFailure, ExpireFailure, LoginClear, LoginCommit, RefreshRead, RevokeAll, Rotate,
   LogoutRead, LogoutCommit, CreateKeyCount, CreateKeyCommit, RevokeKey,
   CredentialExpires, RequestFails, CounterExpires, accountVars

(* While an insert is uncommitted its address is free and it is the only    *)
(* one that inserts it.                                                     *)
InsertsAlone ==
  \A r \in Requests : At(r, "insert") =>
    /\ ~Taken(req[r].arg)
    /\ \A q \in Requests :
         At(q, "insert") /\ Lower[req[q].arg] = Lower[req[r].arg] => q = r

AccountInv == AccountsTypeOK /\ OneAccountPerAddress /\ InsertsAlone

LEMMA AccountStep == AccountInv /\ [AccountsNext]_accountVars => AccountInv'
<1> SUFFICES ASSUME AccountInv, [AccountsNext]_accountVars PROVE AccountInv'
  OBVIOUS
<1>1. AccountsTypeOK /\ AccountsTypeOK'
  BY StepTyped DEF AccountInv, AccountsTypeOK, RequestsTyped, TablesTyped
<1>2. CASE \E r \in Requests : RegisterCommit(r)
  <2>1. PICK r \in Requests : RegisterCommit(r)
    BY <1>2
  <2>2. /\ At(r, "insert") /\ users' = users \cup {req[r].arg}
        /\ ~Taken(req[r].arg)
    BY <2>1 DEF RegisterCommit, AccountInv, InsertsAlone
  <2>3. \A q \in Requests : At(q, "insert")' => q # r /\ At(q, "insert") /\ req'[q] = req[q]
    BY <1>1, <2>1 DEF RegisterCommit, Done, Idle, At, AccountsTypeOK
  <2>4. OneAccountPerAddress'
    BY <2>2 DEF AccountInv, OneAccountPerAddress, Taken
  <2>5. InsertsAlone'
    BY <2>2, <2>3 DEF AccountInv, InsertsAlone, Taken, At
  <2> QED BY <1>1, <2>4, <2>5 DEF AccountInv
<1>3. CASE users' = users
  <2>1. OneAccountPerAddress'
    BY <1>3 DEF AccountInv, OneAccountPerAddress
  <2>2. CASE \E r \in Requests : RegisterFlush(r)
    <3>1. PICK r \in Requests : RegisterFlush(r)
      BY <2>2
    <3>2. \A q \in Requests : q # r => req'[q] = req[q]
      BY <1>1, <3>1 DEF RegisterFlush, Go, Done, AccountsTypeOK
    <3>3. At(r, "insert")' => req'[r].arg = req[r].arg /\ ~Taken(req[r].arg)
      BY <1>1, <3>1 DEF RegisterFlush, Go, Done, Idle, At, IndexConflict, AccountsTypeOK
    <3>4. \A q \in Requests : ~(At(q, "insert") /\ Lower[req[q].arg] = Lower[req[r].arg])
      BY <3>1 DEF RegisterFlush
    <3>5. InsertsAlone'
      BY <1>3, <3>2, <3>3, <3>4 DEF AccountInv, InsertsAlone, Taken, At
    <3> QED BY <1>1, <2>1, <3>5 DEF AccountInv
  <2>3. CASE \A r \in Requests : ~RegisterFlush(r)
    <3>1. \A q \in Requests : At(q, "insert")' => req'[q] = req[q]
      <4> TAKE q \in Requests
      <4>1. ~(\E e \in Emails : LoginCheck(q, e) /\ At(q, "insert")')
        BY <1>1 DEF LoginCheck, Go, At, AccountsTypeOK
      <4>2. ~(\E u \in users : CreateKeyCount(q, u) /\ At(q, "insert")')
        BY <1>1 DEF CreateKeyCount, Go, At, AccountsTypeOK
      <4> QED BY <1>1, <2>3, <4>1, <4>2, Arrivals DEF Settled, At
    <3>2. InsertsAlone'
      BY <1>3, <3>1 DEF AccountInv, InsertsAlone, Taken, At
    <3> QED BY <1>1, <2>1, <3>2 DEF AccountInv
  <2> QED BY <2>2, <2>3
<1> QED BY <1>2, <1>3, UsersChange

(* However many registrations race, an address has one account: a flush     *)
(* waits for the uncommitted insert of the same index entry.                *)
THEOREM OneAccount == AccountsSpec => []OneAccountPerAddress
<1>1. AccountsInit => AccountInv
  <2>1. AccountsInit => OneAccountPerAddress /\ InsertsAlone
    BY DEF AccountsInit, OneAccountPerAddress, InsertsAlone, At, Idle
  <2> QED BY <2>1, InitTyped DEF AccountInv
<1>2. AccountInv => OneAccountPerAddress
  BY DEF AccountInv
<1> QED BY <1>1, <1>2, AccountStep, PTL DEF AccountsSpec
-----------------------------------------------------------------------------
(* Rows come by four commits, and nothing is ever unrevoked. *)
LEMMA RowsChange ==
  ASSUME [AccountsNext]_accountVars
  PROVE  /\ revoked \subseteq revoked'
         /\ \/ UNCHANGED <<owner, parent>>
            \/ \E r \in Requests : RegisterCommit(r) \/ LoginCommit(r) \/ Rotate(r)
                                    \/ CreateKeyCommit(r)
BY DEF AccountsNext, Arrive, Continue, RegisterCheck, RegisterFlush, RegisterCommit,
   LoginCheck, CountFailure, ExpireFailure, LoginClear, LoginCommit, RefreshRead,
   RevokeAll, Rotate, LogoutRead, LogoutCommit, CreateKeyCount, CreateKeyCommit,
   RevokeKey, CredentialExpires, RequestFails, CounterExpires, accountVars, tokenVars

(* A token is rotated from one that exists. *)
ParentsIssued == \A t \in Tokens : parent[t] # Null => owner[parent[t]] # Null

RotationInv == AccountsTypeOK /\ RotationRetires /\ ParentsIssued

(* A token that is issued to a user, from none or from a token of that user *)
(* that is revoked with it.                                                 *)
LEMMA IssueRetires ==
  ASSUME RotationInv, NEW u \in users', NEW from \in Tokens \cup {Null}, Issue(u, from),
         from # Null => owner[from] = u /\ from \in revoked',
         users \subseteq users', users' \subseteq Emails, revoked \subseteq revoked'
  PROVE  RotationRetires' /\ ParentsIssued'
<1> DEFINE f == Fresh(Tokens)
<1>1. /\ f \in Tokens /\ owner[f] = Null
      /\ owner' = [owner EXCEPT ![f] = u] /\ parent' = [parent EXCEPT ![f] = from]
  BY FreshIsUnused DEF Issue
<1> HIDE DEF f
<1>2. TablesTyped /\ u # Null
  BY AccountsAssumption DEF RotationInv, AccountsTypeOK, TablesTyped
<1>3. \A c \in Credentials : owner'[c] = IF c = f THEN u ELSE owner[c]
  BY <1>1, <1>2 DEF TablesTyped
<1>4. \A t \in Tokens : parent'[t] = IF t = f THEN from ELSE parent[t]
  BY <1>1, <1>2 DEF TablesTyped
<1>5. ASSUME NEW t \in Tokens, parent'[t] # Null
      PROVE  /\ parent'[t] \in revoked' /\ owner'[t] = owner'[parent'[t]]
             /\ owner'[parent'[t]] # Null
  <2>1. CASE t = f
    <3>1. from # f /\ from \in Tokens /\ owner'[from] = u /\ owner'[t] = u
      BY <1>1, <1>2, <1>3, <1>4, <1>5, <2>1 DEF Credentials
    <3> QED BY <1>2, <1>4, <2>1, <3>1, <1>5
  <2>2. CASE t # f
    <3>1. /\ parent'[t] = parent[t] /\ parent[t] \in Tokens
          /\ parent[t] \in revoked /\ owner[t] = owner[parent[t]] /\ owner[parent[t]] # Null
      BY <1>2, <1>4, <1>5, <2>2 DEF RotationInv, RotationRetires, ParentsIssued, TablesTyped
    <3>2. parent[t] # f /\ owner'[t] = owner[t] /\ owner'[parent[t]] = owner[parent[t]]
      BY <1>1, <1>3, <2>2, <3>1 DEF Credentials
    <3> QED BY <3>1, <3>2
  <2> QED BY <2>1, <2>2
<1>6. \A c \in Credentials : owner'[c] # Null => owner'[c] \in users'
  BY <1>3 DEF RotationInv, RotationRetires
<1> QED BY <1>5, <1>6 DEF RotationRetires, ParentsIssued

LEMMA RotationStep == RotationInv /\ [AccountsNext]_accountVars => RotationInv'
<1> SUFFICES ASSUME RotationInv, [AccountsNext]_accountVars PROVE RotationInv'
  OBVIOUS
<1>1. /\ RequestsTyped /\ TablesTyped /\ TablesTyped' /\ AccountsTypeOK' /\ RowsStay
  BY TypeParts, StepTyped DEF RotationInv, AccountsTypeOK, RequestsTyped, TablesTyped
<1>2. users \subseteq users' /\ users' \subseteq Emails /\ revoked \subseteq revoked'
  BY <1>1, RowsChange DEF RowsStay, TablesTyped
<1>3. CASE UNCHANGED <<owner, parent>>
  BY <1>1, <1>2, <1>3 DEF RotationInv, RotationRetires, ParentsIssued
<1>4. ASSUME NEW r \in Requests, RegisterCommit(r) \/ LoginCommit(r) PROVE RotationInv'
  <2>1. Issue(req[r].arg, Null) /\ req[r].arg \in users'
    BY <1>1, <1>2, <1>4, ArgumentKinds DEF RegisterCommit, LoginCommit, At
  <2> QED BY <1>1, <1>2, <2>1, IssueRetires DEF RotationInv
<1>5. ASSUME NEW r \in Requests, Rotate(r) PROVE RotationInv'
  <2>1. /\ req[r].arg \in Tokens /\ owner[req[r].arg] \in Emails
        /\ req[r].arg \in revoked' /\ Issue(owner[req[r].arg], req[r].arg)
    BY <1>1, <1>5, ArgumentKinds DEF Rotate, At
  <2>2. owner[req[r].arg] \in users'
    BY <1>2, <2>1, AccountsAssumption DEF RotationInv, RotationRetires, Credentials
  <2> QED BY <1>1, <1>2, <2>1, <2>2, IssueRetires DEF RotationInv
<1>6. ASSUME NEW r \in Requests, CreateKeyCommit(r) PROVE RotationInv'
  <2>1. /\ req[r].arg \in users /\ Fresh(Keys) \in Keys /\ owner[Fresh(Keys)] = Null
        /\ owner' = [owner EXCEPT ![Fresh(Keys)] = req[r].arg] /\ parent' = parent
    BY <1>1, <1>6, ArgumentKinds, FreshIsUnused DEF CreateKeyCommit, At
  <2>2. \A t \in Tokens : owner'[t] = owner[t]
    BY <1>1, <2>1, AccountsAssumption DEF TablesTyped, Credentials
  <2>3. \A t \in Tokens : parent[t] # Null => parent[t] \in Tokens
    BY <1>1 DEF TablesTyped
  <2>4. \A c \in Credentials : owner'[c] # Null => owner'[c] \in users'
    BY <1>1, <1>2, <2>1 DEF RotationInv, RotationRetires, TablesTyped
  <2>5. \A t \in Tokens : parent'[t] # Null =>
          parent'[t] \in revoked' /\ owner'[t] = owner'[parent'[t]] /\ owner'[parent'[t]] # Null
    BY <1>2, <2>1, <2>2, <2>3 DEF RotationInv, RotationRetires, ParentsIssued
  <2> QED BY <1>1, <2>4, <2>5 DEF RotationInv, RotationRetires, ParentsIssued
<1> QED BY <1>3, <1>4, <1>5, <1>6, RowsChange

(* Whichever refreshes race, a token with a successor is revoked and the    *)
(* successor belongs to the same user.                                      *)
THEOREM RotationIsAtomic == AccountsSpec => []RotationRetires
<1>1. AccountsInit => RotationInv
  <2>1. AccountsInit => RotationRetires /\ ParentsIssued
    BY DEF AccountsInit, RotationRetires, ParentsIssued
  <2> QED BY <2>1, InitTyped DEF RotationInv
<1>2. RotationInv => RotationRetires
  BY DEF RotationInv
<1> QED BY <1>1, <1>2, RotationStep, PTL DEF AccountsSpec
-----------------------------------------------------------------------------
(* The login requests of an address that are past the check of its counter. *)
Logins(e) == {r \in Requests : At(r, "login") /\ Lower[req[r].arg] = Lower[e]}

FailsBounded ==
  \A e \in Emails :
    fails[Lower[e]] + Cardinality(Logins(e)) < MaxFails + Cardinality(Requests)

KeysBounded ==
  \A u \in Emails :
    Cardinality(ActiveKeys(u)) + Cardinality(InFlight("create_key", u))
      < MaxKeys + Cardinality(Requests)

LEMMA SubsetSmaller ==
  ASSUME NEW T, IsFiniteSet(T), NEW S \in SUBSET T
  PROVE  IsFiniteSet(S) /\ Cardinality(S) \in Nat /\ Cardinality(S) <= Cardinality(T)
BY FS_Subset, FS_CardinalityType

LEMMA OneMore ==
  ASSUME NEW S, IsFiniteSet(S), NEW x
  PROVE  /\ IsFiniteSet(S \cup {x}) /\ Cardinality(S \cup {x}) \in Nat
         /\ Cardinality(S \cup {x}) <= Cardinality(S) + 1
<1>1. /\ IsFiniteSet(S \cup {x})
      /\ Cardinality(S \cup {x}) = IF x \in S THEN Cardinality(S) ELSE Cardinality(S) + 1
  BY FS_AddElement
<1>2. Cardinality(S) \in Nat
  BY FS_CardinalityType
<1> QED BY <1>1, <1>2

LEMMA SetsFinite ==
  ASSUME NEW u
  PROVE  /\ IsFiniteSet(Logins(u)) /\ IsFiniteSet(Logins(u)')
         /\ IsFiniteSet(ActiveKeys(u)) /\ IsFiniteSet(ActiveKeys(u)')
         /\ IsFiniteSet(InFlight("create_key", u)) /\ IsFiniteSet(InFlight("create_key", u)')
<1>1. /\ Logins(u) \subseteq Requests /\ Logins(u)' \subseteq Requests
      /\ ActiveKeys(u) \subseteq Keys /\ ActiveKeys(u)' \subseteq Keys
      /\ InFlight("create_key", u) \subseteq Requests
      /\ InFlight("create_key", u)' \subseteq Requests
  BY DEF Logins, ActiveKeys, InFlight
<1> QED BY <1>1, FS_Subset, AccountsAssumption

LEMMA FailsChange ==
  ASSUME AccountsTypeOK, [AccountsNext]_accountVars
  PROVE  \/ \A a \in Emails : fails'[a] <= fails[a]
         \/ \E r \in Requests : CountFailure(r)
<1>1. \/ UNCHANGED fails
      \/ \E r \in Requests : CountFailure(r) \/ LoginClear(r)
      \/ \E a \in Emails : CounterExpires(a)
  BY DEF AccountsNext, Arrive, Continue, RegisterCheck, RegisterFlush, RegisterCommit,
     LoginCheck, ExpireFailure, LoginCommit, RefreshRead, RevokeAll, Rotate, LogoutRead,
     LogoutCommit, CreateKeyCount, CreateKeyCommit, RevokeKey, CredentialExpires,
     RequestFails, accountVars, counterVars
<1> QED BY <1>1 DEF AccountsTypeOK, LoginClear, CounterExpires

LEMMA FailsStep ==
  ASSUME AccountsTypeOK, FailsBounded, [AccountsNext]_accountVars
  PROVE  FailsBounded'
<1> USE AccountsAssumption
<1>1. SUFFICES ASSUME NEW e \in Emails
               PROVE  fails'[Lower[e]] + Cardinality(Logins(e)') < MaxFails + Cardinality(Requests)
  BY DEF FailsBounded, Logins, At
<1>2. /\ fails[Lower[e]] \in Nat /\ fails'[Lower[e]] \in Nat
      /\ Cardinality(Logins(e)) \in Nat /\ Cardinality(Logins(e)') \in Nat
      /\ Cardinality(Requests) \in Nat
  BY StepTyped, SetsFinite, FS_CardinalityType DEF AccountsTypeOK, TablesTyped
<1>3. fails[Lower[e]] + Cardinality(Logins(e)) < MaxFails + Cardinality(Requests)
  BY DEF FailsBounded
<1>4. CASE \E r \in Requests : CountFailure(r)
  <2>1. PICK r \in Requests : CountFailure(r)
    BY <1>4
  <2>2. /\ At(r, "login") /\ req[r].arg \in Emails
        /\ fails' = [fails EXCEPT ![Lower[req[r].arg]] = @ + 1]
        /\ req' = [req EXCEPT ![r] = [at |-> "counted", arg |-> req[r].arg]]
    BY <2>1, ArgumentKinds, TypeParts DEF CountFailure, Go, At
  <2>3. Logins(e)' = Logins(e) \ {r}
    BY <2>2 DEF Logins, At, AccountsTypeOK
  <2>4. CASE Lower[req[r].arg] = Lower[e]
    <3>1. r \in Logins(e) /\ fails'[Lower[e]] = fails[Lower[e]] + 1
      BY <2>2, <2>4 DEF Logins, AccountsTypeOK
    <3>2. Cardinality(Logins(e) \ {r}) = Cardinality(Logins(e)) - 1
      BY <3>1, SetsFinite, FS_RemoveElement
    <3> QED BY <1>2, <1>3, <2>3, <3>1, <3>2
  <2>5. CASE Lower[req[r].arg] # Lower[e]
    <3>1. r \notin Logins(e) /\ fails'[Lower[e]] = fails[Lower[e]]
      BY <2>2, <2>5 DEF Logins, AccountsTypeOK
    <3>2. Logins(e)' = Logins(e)
      BY <2>3, <3>1
    <3> QED BY <1>3, <3>1, <3>2
  <2> QED BY <2>4, <2>5
<1>5. CASE fails'[Lower[e]] <= fails[Lower[e]]
  <2>1. CASE \E r \in Requests, d \in Emails : LoginCheck(r, d) /\ Lower[d] = Lower[e]
    <3>1. fails[Lower[e]] < MaxFails
      BY <2>1 DEF LoginCheck
    <3>2. Logins(e)' \in SUBSET Requests
      BY DEF Logins
    <3>3. Cardinality(Logins(e)') <= Cardinality(Requests)
      BY <3>2, SubsetSmaller
    <3> QED BY <1>2, <1>5, <3>1, <3>3
  <2>2. CASE ~\E r \in Requests, d \in Emails : LoginCheck(r, d) /\ Lower[d] = Lower[e]
    <3>1. ASSUME NEW q \in Logins(e)' PROVE q \in Logins(e)
      <4>1. q \in Requests /\ req'[q].at = "login" /\ Lower[req'[q].arg] = Lower[e]
        BY <3>1 DEF Logins, At
      <4>2. ~\E d \in Emails : LoginCheck(q, d)
        <5>1. ASSUME NEW d \in Emails, LoginCheck(q, d) PROVE Lower[d] = Lower[e]
          BY <4>1, <5>1 DEF LoginCheck, Go, AccountsTypeOK
        <5> QED BY <2>2, <4>1, <5>1
      <4>3. ~RegisterFlush(q) /\ ~\E u \in users : CreateKeyCount(q, u)
        BY <4>1 DEF RegisterFlush, CreateKeyCount, Go, Done, Idle, AccountsTypeOK
      <4>4. req'[q] = req[q]
        BY <4>1, <4>2, <4>3, Arrivals DEF Settled
      <4> QED BY <4>1, <4>4 DEF Logins, At
    <3>2. Cardinality(Logins(e)') <= Cardinality(Logins(e))
      BY <3>1, SetsFinite, SubsetSmaller
    <3> QED BY <1>2, <1>3, <1>5, <3>2
  <2> QED BY <2>1, <2>2
<1> QED BY <1>4, <1>5, FailsChange

LEMMA KeysStep ==
  ASSUME AccountsTypeOK, KeysBounded, [AccountsNext]_accountVars
  PROVE  KeysBounded'
<1> USE AccountsAssumption
<1>1. SUFFICES ASSUME NEW u \in Emails
               PROVE  Cardinality(ActiveKeys(u)') + Cardinality(InFlight("create_key", u)')
                        < MaxKeys + Cardinality(Requests)
  BY DEF KeysBounded, ActiveKeys, InFlight
<1> DEFINE C == InFlight("create_key", u)
<1>2. /\ Cardinality(ActiveKeys(u)) \in Nat /\ Cardinality(ActiveKeys(u)') \in Nat
      /\ Cardinality(C) \in Nat /\ Cardinality(C') \in Nat /\ Cardinality(Requests) \in Nat
  BY SetsFinite, FS_CardinalityType
<1>3. Cardinality(ActiveKeys(u)) + Cardinality(C) < MaxKeys + Cardinality(Requests)
  BY DEF KeysBounded
<1>4. CASE \E r \in Requests : CreateKeyCommit(r) /\ req[r].arg = u
  <2>1. PICK r \in Requests : CreateKeyCommit(r) /\ req[r].arg = u
    BY <1>4
  <2>2. /\ req[r] = [at |-> "create_key", arg |-> u]
        /\ req' = [req EXCEPT ![r] = [at |-> "idle", arg |-> Null]]
        /\ Fresh(Keys) \in Keys /\ owner[Fresh(Keys)] = Null
        /\ owner' = [owner EXCEPT ![Fresh(Keys)] = u] /\ revoked' = revoked
    BY <2>1, FreshIsUnused DEF CreateKeyCommit, At, Done, Idle, AccountsTypeOK
  <2>3. C' = C \ {r} /\ r \in C
    BY <2>2 DEF InFlight, AccountsTypeOK
  <2>4. ActiveKeys(u)' \subseteq ActiveKeys(u) \cup {Fresh(Keys)}
    BY <2>2 DEF ActiveKeys, AccountsTypeOK, Credentials
  <2>5. Cardinality(C') = Cardinality(C) - 1
    BY <2>3, SetsFinite, FS_RemoveElement
  <2>6. Cardinality(ActiveKeys(u)') <= Cardinality(ActiveKeys(u)) + 1
    <3>1. IsFiniteSet(ActiveKeys(u))
      BY SetsFinite
    <3>2. /\ IsFiniteSet(ActiveKeys(u) \cup {Fresh(Keys)})
          /\ Cardinality(ActiveKeys(u) \cup {Fresh(Keys)}) \in Nat
          /\ Cardinality(ActiveKeys(u) \cup {Fresh(Keys)}) <= Cardinality(ActiveKeys(u)) + 1
      BY <3>1, OneMore
    <3>3. Cardinality(ActiveKeys(u)') <= Cardinality(ActiveKeys(u) \cup {Fresh(Keys)})
      BY <2>4, <3>2, SubsetSmaller
    <3> QED BY <1>2, <3>2, <3>3
  <2> QED BY <1>2, <1>3, <2>5, <2>6
<1>5. CASE ~\E r \in Requests : CreateKeyCommit(r) /\ req[r].arg = u
  <2>1. ActiveKeys(u)' \in SUBSET ActiveKeys(u)
    <3>1. SUFFICES ASSUME NEW k \in Keys, owner'[k] = u, k \notin revoked'
                   PROVE  owner[k] = u /\ k \notin revoked
      BY DEF ActiveKeys
    <3>2. k \notin revoked
      BY <3>1, RowsChange
    <3>3. CASE UNCHANGED <<owner, parent>>
      BY <3>1, <3>2, <3>3
    <3>4. ASSUME NEW r \in Requests, RegisterCommit(r) \/ LoginCommit(r) \/ Rotate(r)
          PROVE  owner[k] = u
      <4>1. Unused(Tokens) # {} /\ \E v : owner' = [owner EXCEPT ![Fresh(Tokens)] = v]
        BY <3>4 DEF RegisterCommit, LoginCommit, Rotate, Issue
      <4>2. Fresh(Tokens) \in Tokens
        BY <4>1, FreshIsUnused
      <4> QED BY <3>1, <4>1, <4>2 DEF AccountsTypeOK, Credentials
    <3>5. ASSUME NEW r \in Requests, CreateKeyCommit(r) PROVE owner[k] = u
      <4>1. /\ req[r].arg # u /\ Fresh(Keys) \in Keys
            /\ owner' = [owner EXCEPT ![Fresh(Keys)] = req[r].arg]
        BY <1>5, <3>5, FreshIsUnused DEF CreateKeyCommit
      <4> QED BY <3>1, <4>1 DEF AccountsTypeOK, Credentials
    <3> QED BY <3>2, <3>3, <3>4, <3>5, RowsChange
  <2>2. Cardinality(ActiveKeys(u)') <= Cardinality(ActiveKeys(u))
    BY <2>1, SetsFinite, SubsetSmaller
  <2>3. CASE \E r \in Requests : CreateKeyCount(r, u)
    <3>1. Cardinality(ActiveKeys(u)) < MaxKeys
      BY <2>3 DEF CreateKeyCount
    <3>2. C' \in SUBSET Requests
      BY DEF InFlight
    <3>3. Cardinality(C') <= Cardinality(Requests)
      BY <3>2, SubsetSmaller
    <3> QED BY <1>2, <2>2, <3>1, <3>3
  <2>4. CASE ~\E r \in Requests : CreateKeyCount(r, u)
    <3>1. ASSUME NEW q \in C' PROVE q \in C
      <4>1. q \in Requests /\ req'[q] = [at |-> "create_key", arg |-> u]
        BY <3>1 DEF InFlight
      <4>2. ~\E v \in users : CreateKeyCount(q, v)
        <5>1. ASSUME NEW v \in users, CreateKeyCount(q, v) PROVE v = u
          BY <4>1, <5>1 DEF CreateKeyCount, Go, AccountsTypeOK
        <5> QED BY <2>4, <4>1, <5>1
      <4>3. ~RegisterFlush(q) /\ ~\E e \in Emails : LoginCheck(q, e)
        BY <4>1 DEF RegisterFlush, LoginCheck, Go, Done, Idle, AccountsTypeOK
      <4>4. req'[q] = req[q]
        BY <4>1, <4>2, <4>3, Arrivals DEF Settled
      <4> QED BY <4>1, <4>4 DEF InFlight
    <3>2. Cardinality(C') <= Cardinality(C)
      BY <3>1, SetsFinite, SubsetSmaller
    <3> QED BY <1>2, <1>3, <2>2, <3>2
  <2> QED BY <2>3, <2>4
<1> QED BY <1>4, <1>5

(* Checked before and counted after, the limits of failed logins and of     *)
(* keys are overshot by less than the number of requests at a time.         *)
THEOREM LimitsAreBounded == AccountsSpec => []LimitsOvershootBounded
<1> DEFINE Inv == AccountsTypeOK /\ FailsBounded /\ KeysBounded
<1>1. AccountsInit => Inv
  <2> SUFFICES ASSUME AccountsInit PROVE Inv
    OBVIOUS
  <2> USE AccountsAssumption
  <2>1. Cardinality({}) = 0 /\ Cardinality(Requests) \in Nat
    BY FS_EmptySet, FS_CardinalityType
  <2>2. ASSUME NEW u \in Emails
        PROVE  Logins(u) = {} /\ ActiveKeys(u) = {} /\ InFlight("create_key", u) = {}
    BY DEF AccountsInit, Logins, ActiveKeys, InFlight, At, Idle, Credentials
  <2>3. ASSUME NEW u \in Emails
        PROVE  /\ fails[Lower[u]] = 0 /\ Cardinality(Logins(u)) = 0
               /\ Cardinality(ActiveKeys(u)) = 0
               /\ Cardinality(InFlight("create_key", u)) = 0
    BY <2>1, <2>2 DEF AccountsInit
  <2>4. FailsBounded /\ KeysBounded
    BY <2>1, <2>3 DEF FailsBounded, KeysBounded
  <2> QED BY <2>4, InitTyped
<1>2. Inv /\ [AccountsNext]_accountVars => Inv'
  <2>1. RequestsTyped' /\ TablesTyped' => AccountsTypeOK'
    BY DEF AccountsTypeOK, RequestsTyped, TablesTyped
  <2> QED BY <2>1, StepTyped, FailsStep, KeysStep
<1>3. Inv => LimitsOvershootBounded
  BY DEF FailsBounded, KeysBounded, LimitsOvershootBounded, Logins, AccountsTypeOK
<1> QED BY <1>1, <1>2, <1>3, PTL DEF AccountsSpec
=============================================================================
