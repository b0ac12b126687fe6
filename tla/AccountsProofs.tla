--------------------------- MODULE AccountsProofs ---------------------------
(***************************************************************************)
(* Proofs about modules Accounts and Alerts, for any number of users,      *)
(* requests and restarts and any window and threshold of the failed-login  *)
(* detector.                                                               *)
(***************************************************************************)
EXTENDS Accounts, FiniteSetTheorems, TLAPS

(* The inductive invariant. *)

Types ==
  /\ bound \in Bounds /\ now \in 0..bound.time
  /\ up \in BOOLEAN /\ seedLost \in BOOLEAN /\ crashes \in 0..bound.crashes
  /\ row \in [Names -> Rows \cup {NoRow}] /\ tokens \subseteq Tokens
  /\ was \in [Names -> Roles \cup {"none"}]
  /\ minted \in 0..bound.secrets /\ phone \in [Names -> 0..bound.secrets]
  /\ req \in [Reqs -> Requests]
  /\ cookie \in [Reqs -> 0..bound.states]
  /\ issued \in Seq(Reqs) /\ Len(issued) <= bound.states
  /\ flights \subseteq [state : 1..bound.states, user : Names]
  /\ overlap \subseteq Names

\* Only an administrator has been promoted, so nobody is promoted twice.
WasInv == \A u \in Names : was[u] # "none" => row[u].role = "admin"

\* The row that Login has read still has that role, or had it before a promotion.
LoginInv(r) ==
  req[r].pc = "password" =>
    req[r].snap.role \in {row[req[r].user].role, was[req[r].user]}

\* Nobody is served by a gateway that is down, and a gateway that is up has
\* seeded the database.
BootInv == /\ ~up => \A r \in Reqs : req[r].pc = "idle"
           /\ (up /\ ~seedLost) => \E u \in Names : row[u].role = "admin"

\* The TOTP requests of a user exclude each other unless they are counted as
\* overlapping; until then the row is as the request has left or found it.
MFAInv(r) ==
  req[r].pc \in MFAPCs =>
    LET u == req[r].user IN
    /\ row[u].role # "none"
    /\ u \notin overlap =>
         /\ \A s \in Reqs : (req[s].pc \in MFAPCs /\ req[s].user = u) => s = r
         /\ req[r].pc = "setup" => ~row[u].mfa /\ row[u].secret = req[r].secret
         /\ req[r].pc = "enable" => row[u].secret # NoSecret /\ row[u].secret = phone[u]

\* A cookie holds a state that was issued to its browser.
CookieInv(r) ==
  /\ cookie[r] # 0 => cookie[r] \in 1..Len(issued) /\ issued[cookie[r]] = r
  /\ req[r].pc \in {"select", "provision"} =>
       req[r].state \in 1..Len(issued) /\ issued[req[r].state] = r

Inv == /\ Types /\ TokenMatchesRow /\ WasInv /\ BootInv /\ AdminBeforeUsers /\ SerialEnrolmentIsSound
       /\ \A r \in Reqs : LoginInv(r) /\ MFAInv(r) /\ CookieInv(r)

-----------------------------------------------------------------------------
\* The bounds are natural numbers.
LEMMA BoundFacts ==
  ASSUME bound \in Bounds
  PROVE  /\ bound.time \in Nat /\ bound.secrets \in Nat
         /\ bound.states \in Nat /\ bound.crashes \in Nat
         /\ bound \in [{"time", "fails", "users", "secrets", "states", "crashes"} -> Nat]
BY AlertsAssumption

\* What a request in progress has in hand.
LEMMA RequestFields ==
  ASSUME NEW q \in Requests
  PROVE  /\ q.pc = "password" => q.user \in Names /\ q.snap \in Rows
         /\ q.pc = "record" => q.user \in Names /\ q.t \in 0..bound.time
         /\ q.pc \in MFAPCs => q.user \in Names /\ q.secret \in 0..bound.secrets
         /\ q.pc \in {"select", "provision"} => q.user \in Names /\ q.state \in 1..bound.states
BY DEF Requests, Idle, MFAPCs

\* A row that exists has a role, and the other way round.
LEMMA RowFields ==
  ASSUME NEW x \in Rows \cup {NoRow}
  PROVE  /\ x # NoRow <=> x.role # "none"
         /\ x # NoRow <=> x.role \in Roles
         /\ x = NoRow => ~x.mfa /\ x.secret = NoSecret
         /\ x.mfa \in BOOLEAN
<1>1. CASE x \in Rows
  <2>1. x.role \in Roles /\ x.mfa \in BOOLEAN
    BY <1>1 DEF Rows
  <2>2. NoRow.role = "none"
    BY DEF NoRow
  <2> QED BY <2>1, <2>2 DEF Roles
<1>2. CASE x = NoRow
  <2>1. x.role = "none" /\ x.mfa = FALSE /\ x.secret = NoSecret
    BY <1>2 DEF NoRow
  <2> QED BY <1>2, <2>1 DEF Roles
<1> QED BY <1>1, <1>2

\* Whoever holds a token has a row.
LEMMA HolderHasRow ==
  ASSUME Inv, NEW u \in Names, Authenticated(u)
  PROVE  row[u].role \in Roles
<1>1. /\ tokens \subseteq Tokens /\ TokenMatchesRow /\ WasInv
  BY DEF Inv, Types
<1>2. PICK tok \in tokens : tok.user = u
  BY DEF Authenticated
<1>3. tok.role \in Roles /\ tok.role \in {row[u].role, was[u]}
  BY <1>1, <1>2 DEF TokenMatchesRow, Tokens
<1> QED BY <1>1, <1>3 DEF WasInv, Roles

\* What the gateway's own steps do to the users table: a role, once given, stays.
LEMMA TableStep ==
  ASSUME Inv, [Next]_vars, \A u \in Names : ~Promote(u)
  PROVE  /\ row' \in [Names -> Rows \cup {NoRow}]
         /\ \A u \in Names : row[u].role # "none" => row'[u].role = row[u].role
<1>1. /\ row \in [Names -> Rows \cup {NoRow}] /\ bound \in Bounds
      /\ req \in [Reqs -> Requests] /\ minted \in 0..bound.secrets
      /\ \A r \in Reqs : MFAInv(r)
  BY DEF Inv, Types
<1>2. bound.secrets \in Nat
  BY <1>1, BoundFacts
<1>3. ASSUME NEW u \in Names, NEW x, x \in Rows, row[u] = NoRow, row' = [row EXCEPT ![u] = x]
      PROVE  /\ row' \in [Names -> Rows \cup {NoRow}]
             /\ \A v \in Names : row[v].role # "none" => row'[v].role = row[v].role
  BY <1>1, <1>3 DEF NoRow
<1>4. \A role \in Roles, b \in BOOLEAN :
        /\ [NoRow EXCEPT !.role = role, !.pw = b] \in Rows
        /\ [NoRow EXCEPT !.role = role] \in Rows
  <2>1. NoRow \in [role : Roles \cup {"none"}, mfa : BOOLEAN, secret : 0..bound.secrets, pw : BOOLEAN]
    BY <1>2 DEF NoRow, NoSecret
  <2> QED BY <2>1 DEF Rows
<1>5. CASE row' = row
  BY <1>1, <1>5
<1>6. CASE Boot
  <2>1. CASE row' = [row EXCEPT ![Admin] = [NoRow EXCEPT !.role = "admin", !.pw = TRUE]]
             /\ \A u \in Names : ~Exists(u)
    <3>1. Admin \in Names /\ row[Admin] = NoRow
      BY <2>1, AccountsAssumption DEF Exists
    <3>2. [NoRow EXCEPT !.role = "admin", !.pw = TRUE] \in Rows
      BY <1>4 DEF Roles
    <3> QED BY <1>3, <2>1, <3>1, <3>2
  <2> QED BY <1>5, <1>6, <2>1 DEF Boot
<1>7. ASSUME NEW u \in Names, NEW role \in Roles, CreateUser(u, role)
      PROVE  /\ row' \in [Names -> Rows \cup {NoRow}]
             /\ \A v \in Names : row[v].role # "none" => row'[v].role = row[v].role
  BY <1>3, <1>4, <1>7 DEF CreateUser, Exists
<1>8. ASSUME NEW r \in Reqs, SSOInsert(r)
      PROVE  /\ row' \in [Names -> Rows \cup {NoRow}]
             /\ \A v \in Names : row[v].role # "none" => row'[v].role = row[v].role
  <2>1. req[r].pc = "provision" /\ req[r].user \in Names
    BY <1>1, <1>8, RequestFields DEF SSOInsert, Answer
  <2>2. [NoRow EXCEPT !.role = "operator"] \in Rows
    BY <1>4 DEF Roles
  <2> QED BY <1>3, <1>5, <1>8, <2>1, <2>2 DEF SSOInsert, Exists
<1>9. ASSUME NEW u \in Names, row[u] \in Rows,
             NEW x \in Rows, x.role = row[u].role, row' = [row EXCEPT ![u] = x]
      PROVE  /\ row' \in [Names -> Rows \cup {NoRow}]
             /\ \A v \in Names : row[v].role # "none" => row'[v].role = row[v].role
  BY <1>1, <1>9
<1>10. ASSUME NEW r \in Reqs, NEW u \in Names, MFASetup(r, u)
       PROVE  /\ row' \in [Names -> Rows \cup {NoRow}]
              /\ \A v \in Names : row[v].role # "none" => row'[v].role = row[v].role
  <2>1. row[u] \in Rows
    <3>1. row[u].role \in Roles
      BY <1>10, HolderHasRow DEF MFASetup
    <3> QED BY <1>1, <3>1 DEF NoRow, Roles
  <2>2. minted + 1 \in 0..bound.secrets
    BY <1>1, <1>2, <1>10 DEF MFASetup
  <2>3. row' = [row EXCEPT ![u] = [row[u] EXCEPT !.secret = minted + 1]]
    BY <1>1, <1>10 DEF MFASetup, NewSecret
  <2>4. /\ [row[u] EXCEPT !.secret = minted + 1] \in Rows
        /\ [row[u] EXCEPT !.secret = minted + 1].role = row[u].role
    BY <2>1, <2>2 DEF Rows
  <2> QED BY <1>9, <2>1, <2>3, <2>4
<1>11. ASSUME NEW r \in Reqs, MFAEnable(r) \/ MFADisable(r)
       PROVE  /\ row' \in [Names -> Rows \cup {NoRow}]
              /\ \A v \in Names : row[v].role # "none" => row'[v].role = row[v].role
  <2>1. req[r].pc \in MFAPCs /\ req[r].user \in Names /\ row[req[r].user].role # "none"
    <3>1. req[r].pc \in MFAPCs
      BY <1>11 DEF MFAEnable, MFADisable, Answer, MFAPCs
    <3> QED BY <1>1, <3>1, RequestFields DEF MFAInv
  <2>2. PICK u \in Names : u = req[r].user
    BY <2>1
  <2>3. row[u] \in Rows
    BY <1>1, <2>1, <2>2 DEF NoRow
  <2>4. \/ row' = [row EXCEPT ![u] = [row[u] EXCEPT !.mfa = TRUE]]
        \/ row' = [row EXCEPT ![u] = [row[u] EXCEPT !.mfa = FALSE, !.secret = NoSecret]]
    BY <1>1, <1>11, <2>2 DEF MFAEnable, MFADisable
  <2>5. /\ [row[u] EXCEPT !.mfa = TRUE] \in Rows
        /\ [row[u] EXCEPT !.mfa = TRUE].role = row[u].role
    BY <2>3 DEF Rows
  <2>6. NoSecret \in 0..bound.secrets
    BY <1>2 DEF NoSecret
  <2>7. /\ [row[u] EXCEPT !.mfa = FALSE, !.secret = NoSecret] \in Rows
        /\ [row[u] EXCEPT !.mfa = FALSE, !.secret = NoSecret].role = row[u].role
    BY <2>3, <2>6 DEF Rows
  <2> QED BY <1>9, <2>3, <2>4, <2>5, <2>7
<1>12. ASSUME NEW r \in Reqs, Request(r)
       PROVE  \/ row' = row \/ (\E u \in Names : MFASetup(r, u))
              \/ MFAEnable(r) \/ MFADisable(r) \/ SSOInsert(r)
  BY <1>12 DEF Request, LoginRead, MFACheck, MFASelect, OIDCCallback, Exchange, LoginBadPassword,
               LoginRecord, LoginFinish, MFAScan, OIDCLogin, SSOSelect, DBError, rowVars
<1>13. ASSUME \/ Crash \/ Alerting \/ (\E tok \in tokens : TokenExpires(tok))
              \/ (\E s \in DOMAIN issued, u \in Names : IdPRedirect(s, u)) \/ UNCHANGED vars
       PROVE  row' = row
  BY <1>13 DEF Crash, Alerting, TokenExpires, IdPRedirect, rowVars, vars
<1> QED BY <1>5, <1>6, <1>7, <1>8, <1>10, <1>11, <1>12, <1>13 DEF Next

\* The roles from before a promotion change only with a promotion.
LEMMA WasStep ==
  ASSUME [Next]_vars, \A u \in Names : ~Promote(u)
  PROVE  was' = was
BY DEF Next, Boot, Crash, Alerting, Request, LoginRead, MFASetup, MFACheck, MFASelect, OIDCCallback,
       Exchange, LoginBadPassword, LoginRecord, LoginFinish, MFAScan, MFAEnable, MFADisable, OIDCLogin,
       SSOSelect, SSOInsert, DBError, TokenExpires, CreateUser, IdPRedirect, rowVars, marks, vars

\* A promotion changes the role of one row, and nothing else in it.
LEMMA PromoteEffects ==
  ASSUME Inv, NEW u \in Names, Promote(u)
  PROVE  /\ row[u] \in Rows /\ row[u].role # "admin" /\ row'[u] \in Rows
         /\ row'[u].role = "admin" /\ row'[u].mfa = row[u].mfa /\ row'[u].secret = row[u].secret
         /\ was' = [was EXCEPT ![u] = row[u].role]
         /\ \A v \in Names : v # u => row'[v] = row[v]
         /\ row' \in [Names -> Rows \cup {NoRow}]
         /\ UNCHANGED <<up, seedLost, req, phone>>
<1>1. row \in [Names -> Rows \cup {NoRow}]
  BY DEF Inv, Types
<1>2. row[u] \in Rows /\ row[u].role # "admin"
  BY <1>1 DEF Promote, Exists
<1>3. row' = [row EXCEPT ![u] = [row[u] EXCEPT !.role = "admin"]]
  BY <1>1 DEF Promote
<1>4. /\ [row[u] EXCEPT !.role = "admin"] \in Rows
      /\ [row[u] EXCEPT !.role = "admin"].role = "admin"
      /\ [row[u] EXCEPT !.role = "admin"].mfa = row[u].mfa
      /\ [row[u] EXCEPT !.role = "admin"].secret = row[u].secret
  BY <1>2 DEF Rows, Roles
<1>5. row' \in [Names -> Rows \cup {NoRow}] /\ row'[u] = [row[u] EXCEPT !.role = "admin"]
  BY <1>1, <1>3, <1>4
<1>6. \A v \in Names : v # u => row'[v] = row[v]
  BY <1>1, <1>3
<1>7. was' = [was EXCEPT ![u] = row[u].role] /\ UNCHANGED <<up, seedLost, req, phone>>
  BY DEF Promote, procVars, mfaVars
<1> QED BY <1>2, <1>4, <1>5, <1>6, <1>7

\* What each step does to the roles: a role that a row has, or had before its
\* promotion, is remembered; no row is removed; an administrator stays one.
LEMMA RowStep ==
  ASSUME Inv, [Next]_vars
  PROVE  /\ row' \in [Names -> Rows \cup {NoRow}]
         /\ was' \in [Names -> Roles \cup {"none"}]
         /\ WasInv'
         /\ \A u \in Names :
              /\ \A x \in Roles : x \in {row[u].role, was[u]} => x \in {row'[u].role, was'[u]}
              /\ row[u].role # "none" => row'[u].role # "none"
              /\ row[u].role = "admin" => row'[u].role = "admin"
<1>1. /\ row \in [Names -> Rows \cup {NoRow}] /\ was \in [Names -> Roles \cup {"none"}] /\ WasInv
  BY DEF Inv, Types
<1>2. CASE \A u \in Names : ~Promote(u)
  <2>1. /\ row' \in [Names -> Rows \cup {NoRow}] /\ was' = was
        /\ \A u \in Names : row[u].role # "none" => row'[u].role = row[u].role
    BY <1>2, TableStep, WasStep
  <2>2. \A u \in Names : \A x \in Roles : x \in {row[u].role, was[u]} => row[u].role # "none"
    BY <1>1 DEF WasInv, Roles
  <2>3. WasInv'
    BY <1>1, <2>1 DEF WasInv
  <2> QED BY <1>1, <2>1, <2>2, <2>3
<1>3. ASSUME NEW u \in Names, Promote(u)
      PROVE  /\ row' \in [Names -> Rows \cup {NoRow}]
             /\ was' \in [Names -> Roles \cup {"none"}]
             /\ WasInv'
             /\ \A v \in Names :
                  /\ \A x \in Roles : x \in {row[v].role, was[v]} => x \in {row'[v].role, was'[v]}
                  /\ row[v].role # "none" => row'[v].role # "none"
                  /\ row[v].role = "admin" => row'[v].role = "admin"
  <2>1. /\ row[u] \in Rows /\ row[u].role # "admin" /\ row'[u].role = "admin"
        /\ was' = [was EXCEPT ![u] = row[u].role]
        /\ \A v \in Names : v # u => row'[v] = row[v]
        /\ row' \in [Names -> Rows \cup {NoRow}]
    BY <1>3, PromoteEffects
  <2>2. row[u].role \in Roles /\ was[u] = "none"
    BY <1>1, <2>1 DEF Rows, WasInv
  <2>3. was' \in [Names -> Roles \cup {"none"}] /\ was'[u] = row[u].role
        /\ \A v \in Names : v # u => was'[v] = was[v]
    BY <1>1, <2>1, <2>2
  <2>4. WasInv'
    BY <1>1, <2>1, <2>3 DEF WasInv
  <2>5. \A x \in Roles : x \in {row[u].role, was[u]} => x \in {row'[u].role, was'[u]}
    BY <2>2, <2>3 DEF Roles
  <2> QED BY <2>1, <2>3, <2>4, <2>5
<1> QED BY <1>2, <1>3

\* What each step does to the requests: each stays one of Requests.
LEMMA ReqStep ==
  ASSUME Types, TokenMatchesRow, [Next]_vars
  PROVE  req' \in [Reqs -> Requests]
<1>1. /\ row \in [Names -> Rows \cup {NoRow}] /\ bound \in Bounds
      /\ req \in [Reqs -> Requests] /\ minted \in 0..bound.secrets
      /\ now \in 0..bound.time
      /\ flights \subseteq [state : 1..bound.states, user : Names]
  BY DEF Types
<1>2. bound.secrets \in Nat /\ bound.states \in Nat /\ bound.time \in Nat
  BY <1>1, BoundFacts
<1>3. Idle \in Requests
  BY DEF Requests
<1>4. ASSUME NEW r \in Reqs, NEW q \in Requests, req' = [req EXCEPT ![r] = q]
      PROVE  req' \in [Reqs -> Requests]
  BY <1>1, <1>4
<1>5. \A u \in Names : row[u].secret \in 0..bound.secrets
  <2> TAKE u \in Names
  <2>1. CASE row[u] \in Rows
    BY <2>1 DEF Rows
  <2>2. CASE row[u] = NoRow
    BY <1>2, <2>2 DEF NoRow, NoSecret
  <2> QED BY <1>1, <2>1, <2>2
<1>6. ASSUME NEW r \in Reqs, NEW u \in Names, LoginRead(r, u)
      PROVE  req' \in [Reqs -> Requests]
  <2>1. row[u] \in Rows
    BY <1>1, <1>6 DEF LoginRead, Exists
  <2>2. [pc |-> "password", user |-> u, snap |-> row[u]] \in Requests
    BY <2>1 DEF Requests
  <2> QED BY <1>4, <1>6, <2>2 DEF LoginRead, Begin
<1>7. ASSUME NEW r \in Reqs, NEW u \in Names, MFASetup(r, u)
      PROVE  req' \in [Reqs -> Requests]
  <2>1. NewSecret \in 0..bound.secrets
    BY <1>1, <1>2, <1>7 DEF MFASetup, NewSecret
  <2>2. [pc |-> "setup", user |-> u, secret |-> NewSecret] \in Requests
    BY <2>1 DEF Requests, MFAPCs
  <2> QED BY <1>4, <1>7, <2>2 DEF MFASetup, Begin
<1>8. ASSUME NEW r \in Reqs, NEW u \in Names, NEW op \in {"enable", "disable"}, MFACheck(r, u, op)
      PROVE  req' \in [Reqs -> Requests]
  <2>1. [pc |-> op, user |-> u, secret |-> row[u].secret] \in Requests
    BY <1>5 DEF Requests, MFAPCs
  <2> QED BY <1>4, <1>8, <2>1 DEF MFACheck, MFASelect, Begin
<1>9. ASSUME NEW r \in Reqs, NEW f \in flights, OIDCCallback(r, f)
      PROVE  req' \in [Reqs -> Requests]
  <2>1. f.user \in Names /\ f.state \in 1..bound.states
    BY <1>1
  <2>2. [pc |-> "select", user |-> f.user, state |-> f.state] \in Requests
    BY <2>1 DEF Requests
  <2> QED BY <1>4, <1>9, <2>2 DEF OIDCCallback, Exchange, Begin
<1>10. ASSUME NEW r \in Reqs, LoginBadPassword(r)
       PROVE  req' \in [Reqs -> Requests]
  <2>1. req[r].user \in Names
    BY <1>1, <1>10, RequestFields DEF LoginBadPassword
  <2>2. [pc |-> "record", user |-> req[r].user, t |-> now] \in Requests
    BY <1>1, <2>1 DEF Requests
  <2> QED BY <1>4, <1>10, <2>2 DEF LoginBadPassword
<1>11. ASSUME NEW r \in Reqs, SSOSelect(r)
       PROVE  req' \in [Reqs -> Requests]
  <2>1. req[r] \in [pc : {"select", "provision"}, user : Names, state : 1..bound.states]
    BY <1>1, <1>11 DEF SSOSelect, Requests, Idle, MFAPCs
  <2>2. [req[r] EXCEPT !.pc = "provision"] \in [pc : {"select", "provision"}, user : Names, state : 1..bound.states]
    BY <2>1
  <2>3. [req[r] EXCEPT !.pc = "provision"] \in Requests
    BY <2>2 DEF Requests
  <2>4. \/ req' = [req EXCEPT ![r] = Idle]
        \/ req' = [req EXCEPT ![r] = [req[r] EXCEPT !.pc = "provision"]]
    BY <1>1, <1>11 DEF SSOSelect
  <2> QED BY <1>3, <1>4, <2>3, <2>4
<1>12. ASSUME NEW r \in Reqs, Request(r)
       PROVE  \/ req' = req \/ req' = [req EXCEPT ![r] = Idle]
              \/ (\E u \in Names : LoginRead(r, u) \/ MFASetup(r, u))
              \/ (\E u \in Names : \E op \in {"enable", "disable"} : MFACheck(r, u, op))
              \/ (\E f \in flights : OIDCCallback(r, f))
              \/ LoginBadPassword(r) \/ SSOSelect(r)
  BY <1>12 DEF Request, LoginRecord, LoginFinish, MFAScan, MFAEnable, MFADisable, OIDCLogin, SSOInsert,
               DBError, Answer
<1>13. CASE \E r \in Reqs : Request(r)
  BY <1>1, <1>3, <1>4, <1>6, <1>7, <1>8, <1>9, <1>10, <1>11, <1>12, <1>13
<1>14. CASE Crash
  BY <1>3, <1>14 DEF Crash
<1>15. ASSUME \/ Boot \/ Alerting \/ (\E tok \in tokens : TokenExpires(tok))
              \/ (\E u \in Names, role \in Roles : CreateUser(u, role))
              \/ (\E u \in Names : Promote(u))
              \/ (\E s \in DOMAIN issued, u \in Names : IdPRedirect(s, u)) \/ UNCHANGED vars
       PROVE  req' = req
  BY <1>15 DEF Boot, Alerting, TokenExpires, CreateUser, Promote, IdPRedirect, vars
<1> QED BY <1>1, <1>13, <1>14, <1>15 DEF Next

\* What each step does to the issued tokens: a new one carries the role that
\* its row has, in the table or in the copy that Login read.
LEMMA TokenStep ==
  ASSUME Inv, [Next]_vars
  PROVE  /\ tokens' \subseteq Tokens
         /\ TokenMatchesRow'
<1>1. /\ row \in [Names -> Rows \cup {NoRow}] /\ bound \in Bounds /\ TokenMatchesRow
      /\ tokens \subseteq Tokens /\ req \in [Reqs -> Requests]
      /\ \A r \in Reqs : LoginInv(r)
  BY DEF Inv, Types
<1>2. /\ row' \in [Names -> Rows \cup {NoRow}]
      /\ \A u \in Names : \A x \in Roles :
           x \in {row[u].role, was[u]} => x \in {row'[u].role, was'[u]}
  BY RowStep
<1>3. ASSUME tokens' \subseteq tokens
      PROVE  tokens' \subseteq Tokens /\ TokenMatchesRow'
  BY <1>1, <1>2, <1>3 DEF TokenMatchesRow, Tokens
<1>4. ASSUME NEW u \in Names, NEW role \in Roles, role \in {row'[u].role, was'[u]}, IssueToken(u, role)
      PROVE  tokens' \subseteq Tokens /\ TokenMatchesRow'
  <2>1. [user |-> u, role |-> role] \in Tokens
    BY DEF Tokens
  <2>2. \A tok \in tokens' : tok \in tokens \/ tok = [user |-> u, role |-> role]
    BY <1>4 DEF IssueToken
  <2>3. \A tok \in tokens : tok.role \in {row'[tok.user].role, was'[tok.user]}
    BY <1>1, <1>2 DEF TokenMatchesRow, Tokens
  <2> QED BY <1>1, <1>4, <2>1, <2>2, <2>3 DEF TokenMatchesRow
<1>5. ASSUME NEW r \in Reqs, NEW code \in BadCode..bound.secrets, LoginFinish(r, code)
      PROVE  tokens' \subseteq Tokens /\ TokenMatchesRow'
  <2>1. req[r].pc = "password"
    BY <1>5 DEF LoginFinish, Answer
  <2>2. req[r].user \in Names /\ req[r].snap \in Rows
    BY <1>1, <2>1, RequestFields
  <2>3. /\ req[r].snap.role \in {row[req[r].user].role, was[req[r].user]}
        /\ req[r].snap.role \in Roles
    BY <1>1, <2>1, <2>2 DEF LoginInv, Rows
  <2>4. req[r].snap.role \in {row'[req[r].user].role, was'[req[r].user]}
    BY <1>2, <2>2, <2>3
  <2>5. tokens' \subseteq tokens \/ IssueToken(req[r].user, req[r].snap.role)
    BY <1>5 DEF LoginFinish
  <2> QED BY <1>3, <1>4, <2>2, <2>3, <2>4, <2>5
<1>6. ASSUME NEW r \in Reqs, SSOSelect(r)
      PROVE  tokens' \subseteq Tokens /\ TokenMatchesRow'
  <2>1. req[r].user \in Names
    BY <1>1, <1>6, RequestFields DEF SSOSelect
  <2>2. CASE Exists(req[r].user)
    <3>1. row[req[r].user].role \in Roles
      BY <1>1, <2>1, <2>2, RowFields DEF Exists
    <3>2. row[req[r].user].role \in {row'[req[r].user].role, was'[req[r].user]}
      BY <1>2, <2>1, <3>1
    <3>3. IssueToken(req[r].user, row[req[r].user].role)
      BY <1>6, <2>2 DEF SSOSelect, SSOGrant
    <3> QED BY <1>4, <2>1, <3>1, <3>2, <3>3
  <2>3. CASE ~Exists(req[r].user)
    BY <1>3, <1>6, <2>3 DEF SSOSelect
  <2> QED BY <2>2, <2>3
<1>7. ASSUME NEW r \in Reqs, SSOInsert(r)
      PROVE  tokens' \subseteq Tokens /\ TokenMatchesRow'
  <2>1. req[r].user \in Names
    BY <1>1, <1>7, RequestFields DEF SSOInsert, Answer
  <2>2. CASE Exists(req[r].user)
    BY <1>3, <1>7, <2>2 DEF SSOInsert
  <2>3. CASE ~Exists(req[r].user)
    <3>1. row' = [row EXCEPT ![req[r].user] = [NoRow EXCEPT !.role = "operator"]]
      BY <1>7, <2>3 DEF SSOInsert
    <3>2. [NoRow EXCEPT !.role = "operator"].role = "operator"
      BY DEF NoRow
    <3>3. row'[req[r].user].role = "operator"
      BY <1>1, <2>1, <3>1, <3>2
    <3>4. IssueToken(req[r].user, "operator") /\ "operator" \in Roles
      BY <1>7, <2>3 DEF SSOInsert, SSOGrant, Roles
    <3> QED BY <1>4, <2>1, <3>3, <3>4
  <2> QED BY <2>2, <2>3
<1>8. ASSUME NEW r \in Reqs, Request(r)
      PROVE  \/ tokens' = tokens
             \/ (\E code \in BadCode..bound.secrets : LoginFinish(r, code))
             \/ SSOSelect(r) \/ SSOInsert(r)
  BY <1>8 DEF Request, LoginRead, MFASetup, MFACheck, MFASelect, OIDCCallback, Exchange, LoginBadPassword,
              LoginRecord, MFAScan, MFAEnable, MFADisable, OIDCLogin, DBError, rowVars
<1>9. ASSUME \/ Boot \/ Crash \/ Alerting \/ (\E tok \in tokens : TokenExpires(tok))
             \/ (\E u \in Names, role \in Roles : CreateUser(u, role))
             \/ (\E u \in Names : Promote(u))
             \/ (\E s \in DOMAIN issued, u \in Names : IdPRedirect(s, u)) \/ UNCHANGED vars
      PROVE  tokens' \subseteq tokens
  BY <1>9 DEF Boot, Crash, Alerting, TokenExpires, CreateUser, Promote, IdPRedirect, rowVars, vars
<1>10. CASE \E r \in Reqs : Request(r)
  BY <1>3, <1>5, <1>6, <1>7, <1>8, <1>10
<1> QED BY <1>3, <1>9, <1>10 DEF Next

\* What each step may do to one request, and by which actions it goes on.
LEMMA OneRequest ==
  ASSUME Types, [Next]_vars, NEW r \in Reqs
  PROVE  \/ req'[r] = req[r]
         \/ req'[r].pc \in {"idle", "record"}
         \/ \E u \in Names : LoginRead(r, u) \/ MFASetup(r, u)
         \/ \E u \in Names : \E op \in {"enable", "disable"} : MFACheck(r, u, op)
         \/ \E f \in flights : OIDCCallback(r, f)
         \/ SSOSelect(r)
<1>1. req \in [Reqs -> Requests]
  BY DEF Types
<1>2. Idle.pc = "idle"
  BY DEF Idle
<1>3. ASSUME NEW s \in Reqs, NEW q, req' = [req EXCEPT ![s] = q]
      PROVE  \A t \in Reqs : req'[t] = IF t = s THEN q ELSE req[t]
  BY <1>1, <1>3
<1>4. ASSUME NEW s \in Reqs, Request(s), s # r
      PROVE  req'[r] = req[r]
  <2>1. CASE \E u \in Names : LoginRead(s, u) \/ MFASetup(s, u)
    BY <1>3, <1>4, <2>1 DEF LoginRead, MFASetup, Begin
  <2>2. CASE \E u \in Names : \E op \in {"enable", "disable"} : MFACheck(s, u, op)
    BY <1>3, <1>4, <2>2 DEF MFACheck, MFASelect, Begin
  <2>3. CASE \E f \in flights : OIDCCallback(s, f)
    BY <1>3, <1>4, <2>3 DEF OIDCCallback, Exchange, Begin
  <2>4. CASE LoginBadPassword(s)
    BY <1>3, <1>4, <2>4 DEF LoginBadPassword
  <2>5. CASE SSOSelect(s)
    BY <1>1, <1>4, <2>5 DEF SSOSelect
  <2>6. CASE OIDCLogin(s)
    BY <2>6 DEF OIDCLogin
  <2>7. CASE \/ LoginRecord(s) \/ (\E code \in BadCode..bound.secrets : LoginFinish(s, code))
             \/ MFAScan(s) \/ MFAEnable(s) \/ MFADisable(s) \/ SSOInsert(s) \/ DBError(s)
    <3>1. req' = [req EXCEPT ![s] = Idle]
      BY <2>7 DEF LoginRecord, LoginFinish, MFAScan, MFAEnable, MFADisable, SSOInsert, DBError, Answer
    <3> QED BY <1>3, <1>4, <3>1
  <2> QED BY <1>4, <2>1, <2>2, <2>3, <2>4, <2>5, <2>6, <2>7 DEF Request
<1>5. CASE Request(r)
  <2>1. CASE LoginBadPassword(r)
    BY <1>3, <2>1 DEF LoginBadPassword
  <2>2. CASE OIDCLogin(r)
    BY <2>2 DEF OIDCLogin
  <2>3. CASE \/ LoginRecord(r) \/ (\E code \in BadCode..bound.secrets : LoginFinish(r, code))
             \/ MFAScan(r) \/ MFAEnable(r) \/ MFADisable(r) \/ SSOInsert(r) \/ DBError(r)
    <3>1. req' = [req EXCEPT ![r] = Idle]
      BY <2>3 DEF LoginRecord, LoginFinish, MFAScan, MFAEnable, MFADisable, SSOInsert, DBError, Answer
    <3> QED BY <1>2, <1>3, <3>1
  <2> QED BY <1>5, <2>1, <2>2, <2>3 DEF Request
<1>6. CASE Crash
  BY <1>2, <1>6 DEF Crash
<1>7. ASSUME \/ Boot \/ Alerting \/ (\E tok \in tokens : TokenExpires(tok))
             \/ (\E u \in Names, role \in Roles : CreateUser(u, role))
             \/ (\E u \in Names : Promote(u))
             \/ (\E s \in DOMAIN issued, u \in Names : IdPRedirect(s, u)) \/ UNCHANGED vars
      PROVE  req' = req
  BY <1>7 DEF Boot, Alerting, TokenExpires, CreateUser, Promote, IdPRedirect, vars
<1> QED BY <1>4, <1>5, <1>6, <1>7 DEF Next

\* Every step keeps the types.
LEMMA TypeStep ==
  ASSUME Inv, [Next]_vars
  PROVE  Types'
<1>1. /\ Types /\ TokenMatchesRow
      /\ bound \in Bounds /\ now \in 0..bound.time
      /\ up \in BOOLEAN /\ seedLost \in BOOLEAN /\ crashes \in 0..bound.crashes
      /\ minted \in 0..bound.secrets /\ phone \in [Names -> 0..bound.secrets]
      /\ req \in [Reqs -> Requests]
      /\ cookie \in [Reqs -> 0..bound.states]
      /\ issued \in Seq(Reqs) /\ Len(issued) <= bound.states
      /\ flights \subseteq [state : 1..bound.states, user : Names]
      /\ overlap \subseteq Names
  BY DEF Inv, Types
<1>2. /\ bound.time \in Nat /\ bound.secrets \in Nat
      /\ bound.states \in Nat /\ bound.crashes \in Nat
  BY <1>1, BoundFacts
<1>3. bound' = bound
  BY DEF Next, Boot, Crash, Alerting, Tick, WorkerTake, WorkerPosted, Request, LoginRead, MFASetup,
         MFACheck, MFASelect, OIDCCallback, Exchange, LoginBadPassword, LoginRecord, LoginFinish,
         MFAScan, MFAEnable, MFADisable, OIDCLogin, SSOSelect, SSOInsert, DBError, TokenExpires,
         CreateUser, Promote, IdPRedirect, alertVars, vars
<1>4. now' \in 0..bound.time
  <2>1. CASE Tick
    BY <1>1, <1>2, <2>1 DEF Tick
  <2>2. CASE now' = now
    BY <1>1, <2>2
  <2>3. Tick \/ now' = now
    BY DEF Next, Boot, Crash, Alerting, WorkerTake, WorkerPosted, Request, LoginRead, MFASetup,
         MFACheck, MFASelect, OIDCCallback, Exchange, LoginBadPassword, LoginRecord, LoginFinish,
         MFAScan, MFAEnable, MFADisable, OIDCLogin, SSOSelect, SSOInsert, DBError, TokenExpires,
         CreateUser, Promote, IdPRedirect, alertVars, vars
  <2> QED BY <2>1, <2>2, <2>3
<1>5. up' \in BOOLEAN /\ crashes' \in 0..bound.crashes /\ seedLost' \in BOOLEAN
  <2>1. CASE Crash
    <3>1. up' = FALSE /\ seedLost' = seedLost
      BY <2>1 DEF Crash, rowVars, marks
    <3>2. crashes' \in 0..bound.crashes
      BY <1>1, <1>2, <2>1 DEF Crash
    <3> QED BY <1>1, <3>1, <3>2
  <2>2. CASE Boot
    BY <1>1, <2>2 DEF Boot
  <2>3. CASE ~Crash /\ ~Boot
    <3>1. UNCHANGED <<up, crashes, seedLost>>
      BY <2>3 DEF Next, Alerting, Request, LoginRead, MFASetup,
         MFACheck, MFASelect, OIDCCallback, Exchange, LoginBadPassword, LoginRecord, LoginFinish,
         MFAScan, MFAEnable, MFADisable, OIDCLogin, SSOSelect, SSOInsert, DBError, TokenExpires,
         CreateUser, Promote, IdPRedirect, procVars, rowVars, marks, vars
    <3> QED BY <1>1, <3>1
  <2> QED BY <2>1, <2>2, <2>3
<1>6. minted' \in 0..bound.secrets /\ phone' \in [Names -> 0..bound.secrets] /\ overlap' \subseteq Names
  <2>1. ASSUME NEW r \in Reqs, NEW u \in Names, MFASetup(r, u)
        PROVE  minted' \in 0..bound.secrets /\ phone' = phone /\ overlap' \subseteq Names
    BY <1>1, <1>2, <2>1 DEF MFASetup, NewSecret, Overlaps
  <2>2. ASSUME NEW r \in Reqs, MFAScan(r)
        PROVE  minted' = minted /\ phone' \in [Names -> 0..bound.secrets] /\ overlap' = overlap
    <3>1. req[r].user \in Names /\ req[r].secret \in 0..bound.secrets
      BY <1>1, <2>2, RequestFields DEF MFAScan, Answer, MFAPCs
    <3> QED BY <1>1, <2>2, <3>1 DEF MFAScan
  <2>3. ASSUME NEW r \in Reqs, NEW u \in Names, NEW op \in {"enable", "disable"}, MFACheck(r, u, op)
        PROVE  minted' = minted /\ phone' = phone /\ overlap' \subseteq Names
    BY <1>1, <2>3 DEF MFACheck, MFASelect, Overlaps
  <2>4. \/ UNCHANGED mfaVars
        \/ \E r \in Reqs : \/ \E u \in Names : MFASetup(r, u)
                           \/ \E u \in Names : \E op \in {"enable", "disable"} : MFACheck(r, u, op)
                           \/ MFAScan(r)
    BY DEF Next, Boot, Crash, Alerting, Request, LoginRead,
         OIDCCallback, Exchange, LoginBadPassword, LoginRecord, LoginFinish,
         MFAEnable, MFADisable, OIDCLogin, SSOSelect, SSOInsert, DBError, TokenExpires,
         CreateUser, Promote, IdPRedirect, vars
  <2>5. CASE UNCHANGED mfaVars
    BY <1>1, <2>5 DEF mfaVars
  <2> QED BY <1>1, <2>1, <2>2, <2>3, <2>4, <2>5
<1>7. /\ cookie' \in [Reqs -> 0..bound.states]
      /\ issued' \in Seq(Reqs) /\ Len(issued') <= bound.states
      /\ flights' \subseteq [state : 1..bound.states, user : Names]
  <2>1. ASSUME NEW r \in Reqs, OIDCLogin(r)
        PROVE  /\ cookie' \in [Reqs -> 0..bound.states] /\ flights' = flights
               /\ issued' \in Seq(Reqs) /\ Len(issued') <= bound.states
    <3>1. Len(issued) \in Nat /\ Len(issued) < bound.states
      BY <1>1, <2>1 DEF OIDCLogin
    <3>2. Len(issued) + 1 \in 0..bound.states
      BY <1>2, <3>1
    <3>3. issued' \in Seq(Reqs) /\ Len(issued') = Len(issued) + 1
      BY <1>1, <2>1 DEF OIDCLogin
    <3>4. cookie' \in [Reqs -> 0..bound.states]
      BY <1>1, <2>1, <3>2 DEF OIDCLogin
    <3> QED BY <1>2, <2>1, <3>1, <3>3, <3>4 DEF OIDCLogin
  <2>2. ASSUME NEW s \in DOMAIN issued, NEW u \in Names, IdPRedirect(s, u)
        PROVE  /\ flights' \subseteq [state : 1..bound.states, user : Names]
               /\ UNCHANGED <<cookie, issued>>
    <3>1. s \in 1..bound.states
      BY <1>1, <1>2
    <3>2. [state |-> s, user |-> u] \in [state : 1..bound.states, user : Names]
      BY <3>1
    <3> QED BY <1>1, <2>2, <3>2 DEF IdPRedirect
  <2>3. ASSUME NEW r \in Reqs, NEW f \in flights, OIDCCallback(r, f)
        PROVE  flights' \subseteq flights /\ UNCHANGED <<cookie, issued>>
    BY <2>3 DEF OIDCCallback, Exchange
  <2>4. \/ UNCHANGED oidcVars
        \/ \E r \in Reqs : OIDCLogin(r) \/ \E f \in flights : OIDCCallback(r, f)
        \/ \E s \in DOMAIN issued, u \in Names : IdPRedirect(s, u)
    BY DEF Next, Boot, Crash, Alerting, Request, LoginRead, MFASetup, MFACheck, MFASelect, MFAScan,
         LoginBadPassword, LoginRecord, LoginFinish,
         MFAEnable, MFADisable, SSOSelect, SSOInsert, DBError, TokenExpires, CreateUser, Promote, vars
  <2>5. CASE UNCHANGED oidcVars
    BY <1>1, <2>5 DEF oidcVars
  <2> QED BY <1>1, <2>1, <2>2, <2>3, <2>4, <2>5
<1>8. req' \in [Reqs -> Requests]
  BY <1>1, ReqStep
<1>9. /\ row' \in [Names -> Rows \cup {NoRow}] /\ tokens' \subseteq Tokens
      /\ was' \in [Names -> Roles \cup {"none"}]
  BY RowStep, TokenStep
<1>10. Requests' = Requests /\ Rows' = Rows
  BY <1>3 DEF Requests, Rows
<1> QED BY <1>1, <1>3, <1>4, <1>5, <1>6, <1>7, <1>8, <1>9, <1>10 DEF Types

\* The row that Login has read keeps the role it was read with.
LEMMA LoginStep ==
  ASSUME Inv, [Next]_vars, NEW r \in Reqs
  PROVE  LoginInv(r)'
<1> SUFFICES ASSUME req'[r].pc = "password"
             PROVE  req'[r].snap.role \in {row'[req'[r].user].role, was'[req'[r].user]}
  BY DEF LoginInv
<1>1. /\ Types /\ req \in [Reqs -> Requests] /\ row \in [Names -> Rows \cup {NoRow}]
      /\ LoginInv(r)
  BY DEF Inv, Types
<1>2. \A u \in Names : \A x \in Roles :
        x \in {row[u].role, was[u]} => x \in {row'[u].role, was'[u]}
  BY RowStep
<1>3. CASE req'[r] = req[r]
  <2>1. req[r].user \in Names /\ req[r].snap \in Rows
    BY <1>1, <1>3, RequestFields
  <2>2. req[r].snap.role \in {row[req[r].user].role, was[req[r].user]}
    BY <1>1, <1>3 DEF LoginInv
  <2>3. req[r].snap.role \in Roles
    BY <2>1 DEF Rows
  <2> QED BY <1>2, <1>3, <2>1, <2>2, <2>3
<1>4. ASSUME NEW u \in Names, LoginRead(r, u)
      PROVE  req'[r].snap.role \in {row'[req'[r].user].role, was'[req'[r].user]}
  <2>1. req'[r] = [pc |-> "password", user |-> u, snap |-> row[u]]
    BY <1>1, <1>4 DEF LoginRead, Begin
  <2>2. row' = row
    BY <1>4 DEF LoginRead, rowVars
  <2> QED BY <2>1, <2>2
<1>5. ASSUME NEW u \in Names, MFASetup(r, u)
      PROVE  FALSE
  BY <1>1, <1>5 DEF MFASetup, Begin
<1>6. ASSUME NEW u \in Names, NEW op \in {"enable", "disable"}, MFACheck(r, u, op)
      PROVE  FALSE
  BY <1>1, <1>6 DEF MFACheck, MFASelect, Begin
<1>7. ASSUME NEW f \in flights, OIDCCallback(r, f)
      PROVE  FALSE
  BY <1>1, <1>7 DEF OIDCCallback, Exchange, Begin
<1>8. ASSUME SSOSelect(r)
      PROVE  FALSE
  <2>1. CASE req' = [req EXCEPT ![r] = Idle]
    BY <1>1, <2>1 DEF Idle
  <2>2. CASE req' = [req EXCEPT ![r].pc = "provision"]
    <3>1. req[r] \in [pc : {"select", "provision"}, user : Names, state : 1..bound.states]
      BY <1>1, <1>8 DEF SSOSelect, Requests, Idle, MFAPCs
    <3>2. req'[r] = [req[r] EXCEPT !.pc = "provision"]
      BY <1>1, <2>2
    <3>3. req'[r].pc = "provision"
      BY <3>1, <3>2
    <3> QED BY <3>3
  <2> QED BY <1>8, <2>1, <2>2 DEF SSOSelect
<1> QED BY <1>1, <1>3, <1>4, <1>5, <1>6, <1>7, <1>8, OneRequest

\* Between a boot and the next crash only Boot seeds, and nobody is served
\* before it has.
LEMMA AdminStep ==
  ASSUME Inv, [Next]_vars
  PROVE  BootInv' /\ AdminBeforeUsers'
<1>1. /\ req \in [Reqs -> Requests] /\ row \in [Names -> Rows \cup {NoRow}]
      /\ BootInv /\ AdminBeforeUsers
  BY DEF Inv, Types
<1>2. \A u \in Names : row[u].role = "admin" => row'[u].role = "admin"
  BY RowStep
<1>3. Idle.pc = "idle"
  BY DEF Idle
<1>4. ASSUME \E u \in Names : row[u].role = "admin"
      PROVE  \E u \in Names : row'[u].role = "admin"
  BY <1>2, <1>4
<1>5. CASE Boot
  <2>1. up' /\ req' = req
    BY <1>5 DEF Boot
  <2>2. ASSUME ~seedLost'
        PROVE  \E u \in Names : row'[u].role = "admin"
    <3>1. CASE row' = [row EXCEPT ![Admin] = [NoRow EXCEPT !.role = "admin", !.pw = TRUE]]
      <4>1. [NoRow EXCEPT !.role = "admin", !.pw = TRUE].role = "admin"
        BY DEF NoRow
      <4>2. Admin \in Names /\ row'[Admin].role = "admin"
        BY <1>1, <3>1, <4>1, AccountsAssumption
      <4> QED BY <4>2
    <3>2. CASE (\E u \in Names : Exists(u)) /\ UNCHANGED <<row, seedLost>>
      BY <1>1, <1>4, <2>2, <3>2 DEF AdminBeforeUsers
    <3> QED BY <1>5, <2>2, <3>1, <3>2 DEF Boot
  <2> QED BY <2>1, <2>2 DEF BootInv, AdminBeforeUsers
<1>6. CASE Crash
  <2>1. ~up' /\ row' = row /\ seedLost' = seedLost /\ \A r \in Reqs : req'[r] = Idle
    BY <1>6 DEF Crash, rowVars, marks
  <2> QED BY <1>1, <1>3, <2>1 DEF BootInv, AdminBeforeUsers, Exists
<1>7. ASSUME ~up
      PROVE  /\ ~\E r \in Reqs : Request(r)
             /\ ~\E u \in Names, role \in Roles : CreateUser(u, role)
  <2>1. \A r \in Reqs : req[r].pc = "idle"
    BY <1>1, <1>7 DEF BootInv
  <2>2. ASSUME NEW r \in Reqs, Request(r)
        PROVE  FALSE
    BY <1>7, <2>1, <2>2 DEF Request, LoginRead, MFASetup, MFACheck, MFASelect, OIDCCallback, Exchange,
       LoginBadPassword, LoginRecord, LoginFinish, MFAScan, MFAEnable, MFADisable, OIDCLogin, SSOSelect,
       SSOInsert, DBError, Begin, Answer, MFAPCs
  <2> QED BY <1>7, <2>2 DEF CreateUser
<1>8. CASE ~Boot /\ ~Crash /\ \A u \in Names : ~Promote(u)
  <2>1. up' = up /\ seedLost' = seedLost
    BY <1>8 DEF Next, Alerting, Request, LoginRead, MFASetup,
       MFACheck, MFASelect, OIDCCallback, Exchange, LoginBadPassword, LoginRecord, LoginFinish,
       MFAScan, MFAEnable, MFADisable, OIDCLogin, SSOSelect, SSOInsert, DBError, TokenExpires,
       CreateUser, IdPRedirect, procVars, rowVars, marks, vars
  <2>2. CASE up
    <3>1. (~seedLost') => \E u \in Names : row'[u].role = "admin"
      BY <1>1, <1>4, <2>1, <2>2 DEF BootInv
    <3> QED BY <2>1, <2>2, <3>1 DEF BootInv, AdminBeforeUsers
  <2>3. CASE ~up
    <3>1. row' = row /\ req' = req
      BY <1>7, <1>8, <2>3 DEF Next, Alerting, TokenExpires, IdPRedirect, rowVars, vars
    <3>2. \A r \in Reqs : req'[r].pc = "idle"
      BY <1>1, <2>3, <3>1 DEF BootInv
    <3> QED BY <1>1, <2>1, <2>3, <3>1, <3>2 DEF BootInv, AdminBeforeUsers, Exists
  <2> QED BY <2>2, <2>3
<1>9. ASSUME NEW u \in Names, Promote(u)
      PROVE  BootInv' /\ AdminBeforeUsers'
  <2>1. row'[u].role = "admin" /\ UNCHANGED <<up, req>>
    BY <1>9, PromoteEffects
  <2> QED BY <1>1, <2>1 DEF BootInv, AdminBeforeUsers
<1> QED BY <1>5, <1>6, <1>8, <1>9

\* A cookie and a request in progress keep the state issued to their browser.
LEMMA CookieStep ==
  ASSUME Inv, [Next]_vars, NEW r \in Reqs
  PROVE  CookieInv(r)'
<1>1. /\ Types /\ req \in [Reqs -> Requests] /\ cookie \in [Reqs -> 0..bound.states]
      /\ issued \in Seq(Reqs) /\ flights \subseteq [state : 1..bound.states, user : Names]
      /\ CookieInv(r)
  BY DEF Inv, Types
<1>2. /\ Len(issued) \in Nat /\ Len(issued') \in Nat /\ Len(issued) <= Len(issued')
      /\ \A i \in 1..Len(issued) : issued'[i] = issued[i]
  <2>1. CASE issued' = issued
    BY <1>1, <2>1
  <2>2. ASSUME NEW s \in Reqs, OIDCLogin(s)
        PROVE  /\ Len(issued) \in Nat /\ Len(issued') \in Nat /\ Len(issued) <= Len(issued')
               /\ \A i \in 1..Len(issued) : issued'[i] = issued[i]
    BY <1>1, <2>2 DEF OIDCLogin
  <2>3. issued' = issued \/ \E s \in Reqs : OIDCLogin(s)
    BY DEF Next, Boot, Crash, Alerting, Request, LoginRead, MFASetup, MFACheck, MFASelect, MFAScan,
         LoginBadPassword, LoginRecord, LoginFinish, OIDCCallback, Exchange, IdPRedirect,
         MFAEnable, MFADisable, SSOSelect, SSOInsert, DBError, TokenExpires, CreateUser, Promote, oidcVars, vars
  <2> QED BY <2>1, <2>2, <2>3
<1>3. cookie'[r] # 0 => cookie'[r] \in 1..Len(issued') /\ issued'[cookie'[r]] = r
  <2>1. CASE cookie'[r] = cookie[r]
    BY <1>1, <1>2, <2>1 DEF CookieInv
  <2>2. CASE OIDCLogin(r)
    <3>1. cookie'[r] = Len(issued) + 1 /\ issued' = Append(issued, r)
      BY <1>1, <2>2 DEF OIDCLogin
    <3> QED BY <1>1, <1>2, <3>1
  <2>3. ASSUME NEW s \in Reqs, OIDCLogin(s), s # r
        PROVE  cookie'[r] = cookie[r]
    BY <1>1, <2>3 DEF OIDCLogin
  <2>4. cookie' = cookie \/ \E s \in Reqs : OIDCLogin(s)
    BY DEF Next, Boot, Crash, Alerting, Request, LoginRead, MFASetup, MFACheck, MFASelect, MFAScan,
         LoginBadPassword, LoginRecord, LoginFinish, OIDCCallback, Exchange, IdPRedirect,
         MFAEnable, MFADisable, SSOSelect, SSOInsert, DBError, TokenExpires, CreateUser, Promote, oidcVars, vars
  <2> QED BY <2>1, <2>2, <2>3, <2>4
<1>4. ASSUME req'[r].pc \in {"select", "provision"}
      PROVE  req'[r].state \in 1..Len(issued') /\ issued'[req'[r].state] = r
  <2>1. CASE req'[r] = req[r]
    BY <1>1, <1>2, <1>4, <2>1 DEF CookieInv
  <2>2. ASSUME NEW u \in Names, LoginRead(r, u) \/ MFASetup(r, u)
        PROVE  FALSE
    BY <1>1, <1>4, <2>2 DEF LoginRead, MFASetup, Begin
  <2>3. ASSUME NEW u \in Names, NEW op \in {"enable", "disable"}, MFACheck(r, u, op)
        PROVE  FALSE
    BY <1>1, <1>4, <2>3 DEF MFACheck, MFASelect, Begin
  <2>4. ASSUME NEW f \in flights, OIDCCallback(r, f)
        PROVE  req'[r].state \in 1..Len(issued') /\ issued'[req'[r].state] = r
    <3>1. req'[r] = [pc |-> "select", user |-> f.user, state |-> f.state]
      BY <1>1, <2>4 DEF OIDCCallback, Exchange, Begin
    <3>2. f.state \in 1..bound.states /\ cookie[r] = f.state
      BY <1>1, <2>4 DEF OIDCCallback
    <3>3. bound.states \in Nat
      BY <1>1, BoundFacts DEF Types
    <3>4. cookie[r] # 0
      BY <3>2, <3>3
    <3>5. cookie[r] \in 1..Len(issued) /\ issued[cookie[r]] = r
      BY <1>1, <3>4 DEF CookieInv
    <3>6. req'[r].state = cookie[r]
      BY <3>1, <3>2
    <3> QED BY <1>2, <3>5, <3>6
  <2>5. ASSUME SSOSelect(r)
        PROVE  req'[r].state \in 1..Len(issued') /\ issued'[req'[r].state] = r
    <3>1. CASE req' = [req EXCEPT ![r] = Idle]
      BY <1>1, <1>4, <3>1 DEF Idle
    <3>2. CASE req' = [req EXCEPT ![r].pc = "provision"]
      <4>1. req[r] \in [pc : {"select", "provision"}, user : Names, state : 1..bound.states]
        BY <1>1, <2>5 DEF SSOSelect, Requests, Idle, MFAPCs
      <4>2. req'[r] = [req[r] EXCEPT !.pc = "provision"]
        BY <1>1, <3>2
      <4>3. req'[r].state = req[r].state /\ req[r].pc \in {"select", "provision"}
        BY <4>1, <4>2
      <4>4. req[r].state \in 1..Len(issued) /\ issued[req[r].state] = r
        BY <1>1, <4>3 DEF CookieInv
      <4> QED BY <1>2, <4>3, <4>4
    <3> QED BY <2>5, <3>1, <3>2 DEF SSOSelect
  <2>6. CASE req'[r].pc \in {"idle", "record"}
    BY <1>4, <2>6
  <2> QED BY <1>1, <2>1, <2>2, <2>3, <2>4, <2>5, <2>6, OneRequest
<1> QED BY <1>3, <1>4 DEF CookieInv

\* The TOTP columns of a user's row and the authenticator stay as they are.
SameEnrolment(u) ==
  row'[u].mfa = row[u].mfa /\ row'[u].secret = row[u].secret /\ phone'[u] = phone[u]

\* Which steps change a user's TOTP columns or authenticator: the INSERT of a new
\* row, which has MFA off, and the TOTP requests of that user.
LEMMA EnrolmentChange ==
  ASSUME Inv, [Next]_vars, NEW u \in Names
  PROVE  \/ SameEnrolment(u)
         \/ row[u] = NoRow /\ ~row'[u].mfa
         \/ \E s \in Reqs : MFASetup(s, u)
         \/ \E s \in Reqs : req[s].user = u /\ (MFAScan(s) \/ MFAEnable(s) \/ MFADisable(s))
<1>1. /\ req \in [Reqs -> Requests] /\ row \in [Names -> Rows \cup {NoRow}]
      /\ phone \in [Names -> 0..bound.secrets]
  BY DEF Inv, Types
<1>2. ASSUME NEW v \in Names, NEW x, ~x.mfa, ~Exists(v), row' = [row EXCEPT ![v] = x], phone' = phone
      PROVE  \/ row'[u] = row[u] /\ phone'[u] = phone[u]
             \/ row[u] = NoRow /\ ~row'[u].mfa
  <2>1. CASE u = v
    BY <1>1, <1>2, <2>1 DEF Exists
  <2>2. CASE u # v
    BY <1>1, <1>2, <2>2
  <2> QED BY <2>1, <2>2
<1>3. \A role \in Roles : /\ ~[NoRow EXCEPT !.role = role, !.pw = TRUE].mfa
                          /\ ~[NoRow EXCEPT !.role = role].mfa
  BY DEF NoRow
<1>4. ASSUME Boot
      PROVE  \/ row'[u] = row[u] /\ phone'[u] = phone[u]
             \/ row[u] = NoRow /\ ~row'[u].mfa
  <2>1. phone' = phone
    BY <1>4 DEF Boot, mfaVars
  <2>2. CASE row' = row
    BY <2>1, <2>2
  <2>3. CASE /\ row' = [row EXCEPT ![Admin] = [NoRow EXCEPT !.role = "admin", !.pw = TRUE]]
             /\ \A v \in Names : ~Exists(v)
    <3>1. ~[NoRow EXCEPT !.role = "admin", !.pw = TRUE].mfa
      BY <1>3 DEF Roles
    <3> QED BY <1>2, <2>1, <2>3, <3>1, AccountsAssumption
  <2> QED BY <1>4, <2>2, <2>3 DEF Boot
<1>5. ASSUME NEW v \in Names, NEW role \in Roles, CreateUser(v, role)
      PROVE  \/ row'[u] = row[u] /\ phone'[u] = phone[u]
             \/ row[u] = NoRow /\ ~row'[u].mfa
  <2>1. phone' = phone /\ ~Exists(v) /\ row' = [row EXCEPT ![v] = [NoRow EXCEPT !.role = role, !.pw = TRUE]]
    BY <1>5 DEF CreateUser, mfaVars
  <2> QED BY <1>2, <1>3, <2>1
<1>6. ASSUME NEW s \in Reqs, SSOInsert(s)
      PROVE  \/ row'[u] = row[u] /\ phone'[u] = phone[u]
             \/ row[u] = NoRow /\ ~row'[u].mfa
  <2>1. phone' = phone /\ req[s].user \in Names
    BY <1>1, <1>6, RequestFields DEF SSOInsert, Answer, mfaVars
  <2>2. CASE row' = row
    BY <2>1, <2>2
  <2>3. CASE /\ row' = [row EXCEPT ![req[s].user] = [NoRow EXCEPT !.role = "operator"]]
             /\ ~Exists(req[s].user)
    <3>1. ~[NoRow EXCEPT !.role = "operator"].mfa
      BY <1>3 DEF Roles
    <3> QED BY <1>2, <2>1, <2>3, <3>1
  <2> QED BY <1>6, <2>2, <2>3 DEF SSOInsert
<1>7. ASSUME NEW s \in Reqs, NEW v \in Names, v # u, MFASetup(s, v)
      PROVE  row'[u] = row[u] /\ phone'[u] = phone[u]
  BY <1>1, <1>7 DEF MFASetup
<1>8. ASSUME NEW s \in Reqs, req[s].user # u, MFAScan(s) \/ MFAEnable(s) \/ MFADisable(s)
      PROVE  row'[u] = row[u] /\ phone'[u] = phone[u]
  <2>1. CASE MFAScan(s)
    BY <1>1, <1>8, <2>1 DEF MFAScan, rowVars
  <2>2. CASE MFAEnable(s)
    BY <1>1, <1>8, <2>2 DEF MFAEnable, mfaVars
  <2>3. CASE MFADisable(s)
    BY <1>1, <1>8, <2>3 DEF MFADisable, mfaVars
  <2> QED BY <1>8, <2>1, <2>2, <2>3
<1>9. \/ UNCHANGED <<row, phone>>
      \/ Boot \/ (\E v \in Names, role \in Roles : CreateUser(v, role)) \/ (\E v \in Names : Promote(v))
      \/ \E s \in Reqs : \/ SSOInsert(s) \/ (\E v \in Names : MFASetup(s, v))
                         \/ MFAScan(s) \/ MFAEnable(s) \/ MFADisable(s)
  BY DEF Next, Crash, Alerting, Request, LoginRead, MFACheck, MFASelect,
         LoginBadPassword, LoginRecord, LoginFinish, OIDCCallback, Exchange, IdPRedirect, OIDCLogin,
         SSOSelect, DBError, TokenExpires, rowVars, mfaVars, vars
<1>10. ASSUME NEW v \in Names, Promote(v)
       PROVE  SameEnrolment(u)
  BY <1>10, PromoteEffects DEF SameEnrolment
<1>11. ASSUME row'[u] = row[u], phone'[u] = phone[u]
       PROVE  SameEnrolment(u)
  BY <1>11 DEF SameEnrolment
<1> QED BY <1>4, <1>5, <1>6, <1>7, <1>8, <1>9, <1>10, <1>11

\* A TOTP request that another one meets, or that stages a secret while MFA is
\* on, is counted in overlap, and overlap never shrinks.
LEMMA OverlapStep ==
  ASSUME Inv, [Next]_vars
  PROVE  /\ overlap \subseteq overlap'
         /\ \A s \in Reqs, u \in Names :
              /\ MFASetup(s, u) /\ u \notin overlap' => ~InMFA(u) /\ ~row[u].mfa
              /\ \A op \in {"enable", "disable"} :
                   MFACheck(s, u, op) /\ u \notin overlap' => ~InMFA(u)
<1>1. ASSUME NEW s \in Reqs, NEW u \in Names, MFASetup(s, u)
      PROVE  overlap \subseteq overlap' /\ (u \notin overlap' => ~InMFA(u) /\ ~row[u].mfa)
  <2>1. overlap' = IF InMFA(u) \/ row[u].mfa THEN overlap \cup {u} ELSE overlap
    BY <1>1 DEF MFASetup, Overlaps
  <2>2. CASE InMFA(u) \/ row[u].mfa
    BY <2>1, <2>2
  <2>3. CASE ~(InMFA(u) \/ row[u].mfa)
    BY <2>1, <2>3
  <2> QED BY <2>2, <2>3
<1>2. ASSUME NEW s \in Reqs, NEW u \in Names, NEW op \in {"enable", "disable"}, MFACheck(s, u, op)
      PROVE  overlap \subseteq overlap' /\ (u \notin overlap' => ~InMFA(u))
  <2>1. overlap' = IF InMFA(u) \/ FALSE THEN overlap \cup {u} ELSE overlap
    BY <1>2 DEF MFACheck, MFASelect, Overlaps
  <2>2. CASE InMFA(u)
    BY <2>1, <2>2
  <2>3. CASE ~InMFA(u)
    BY <2>1, <2>3
  <2> QED BY <2>2, <2>3
<1>3. \/ overlap' = overlap
      \/ \E r \in Reqs : \/ \E u \in Names : MFASetup(r, u)
                         \/ \E u \in Names : \E op \in {"enable", "disable"} : MFACheck(r, u, op)
  BY DEF Next, Boot, Crash, Alerting, Request, LoginRead,
       OIDCCallback, Exchange, LoginBadPassword, LoginRecord, LoginFinish, MFAScan,
       MFAEnable, MFADisable, OIDCLogin, SSOSelect, SSOInsert, DBError, TokenExpires,
       CreateUser, Promote, IdPRedirect, mfaVars, vars
<1> QED BY <1>1, <1>2, <1>3

\* What the TOTP requests do to the row and the authenticator of their user.
LEMMA MFAEffects ==
  ASSUME Inv, NEW s \in Reqs
  PROVE  /\ \A u \in Names : MFASetup(s, u) =>
              /\ req'[s].pc = "setup" /\ req'[s].user = u /\ row'[u].mfa = row[u].mfa
              /\ row'[u].secret = req'[s].secret /\ row[u].role \in Roles
         /\ \A u \in Names, op \in {"enable", "disable"} : MFACheck(s, u, op) =>
              /\ req'[s].pc = op /\ req'[s].user = u /\ row[u].role \in Roles
              /\ row' = row /\ phone' = phone
              /\ row[u].secret # NoSecret /\ row[u].secret = phone[u]
         /\ MFAScan(s) => req[s].pc = "setup" /\ row' = row
         /\ MFAEnable(s) => /\ req[s].pc = "enable" /\ phone' = phone
                            /\ \A u \in Names : row'[u].secret = row[u].secret
         /\ MFADisable(s) => req[s].pc = "disable" /\ ~row'[req[s].user].mfa
         /\ MFAScan(s) \/ MFAEnable(s) \/ MFADisable(s) => req'[s].pc = "idle"
<1>1. /\ req \in [Reqs -> Requests] /\ row \in [Names -> Rows \cup {NoRow}]
  BY DEF Inv, Types
<1>2. \A u \in Names : Authenticated(u) => row[u].role \in Roles
  BY HolderHasRow
<1>3. ASSUME NEW u \in Names, MFASetup(s, u)
      PROVE  /\ req'[s].pc = "setup" /\ req'[s].user = u /\ row'[u].mfa = row[u].mfa
             /\ row'[u].secret = req'[s].secret /\ row[u].role \in Roles
  <2>1. req'[s] = [pc |-> "setup", user |-> u, secret |-> NewSecret]
    BY <1>1, <1>3 DEF MFASetup, Begin
  <2>2. row'[u] = [row[u] EXCEPT !.secret = NewSecret]
    BY <1>1, <1>3 DEF MFASetup
  <2>3. row[u].role \in Roles
    BY <1>2, <1>3 DEF MFASetup
  <2>4. row[u] \in Rows
    BY <1>1, <2>3 DEF NoRow, Roles
  <2>5. row'[u].mfa = row[u].mfa /\ row'[u].secret = NewSecret
    BY <2>2, <2>4 DEF Rows
  <2> QED BY <2>1, <2>3, <2>5
<1>4. ASSUME NEW u \in Names, NEW op \in {"enable", "disable"}, MFACheck(s, u, op)
      PROVE  /\ req'[s].pc = op /\ req'[s].user = u /\ row[u].role \in Roles
             /\ row' = row /\ phone' = phone
             /\ row[u].secret # NoSecret /\ row[u].secret = phone[u]
  <2>1. req'[s] = [pc |-> op, user |-> u, secret |-> row[u].secret]
    BY <1>1, <1>4 DEF MFACheck, MFASelect, Begin
  <2>2. row[u].role \in Roles
    BY <1>2, <1>4 DEF MFACheck, MFASelect
  <2> QED BY <1>4, <2>1, <2>2 DEF MFACheck, MFASelect, ValidateTOTP, rowVars
<1>5. MFAScan(s) => req[s].pc = "setup" /\ row' = row
  BY DEF MFAScan, Answer, rowVars
<1>6. ASSUME MFAEnable(s)
      PROVE  /\ req[s].pc = "enable" /\ phone' = phone
             /\ \A u \in Names : row'[u].secret = row[u].secret
  <2>1. req[s].pc = "enable" /\ phone' = phone
    BY <1>6 DEF MFAEnable, Answer, mfaVars
  <2>2. \A u \in Names : row'[u] = row[u] \/ row'[u] = [row[u] EXCEPT !.mfa = TRUE]
    BY <1>1, <1>6 DEF MFAEnable
  <2>3. \A x \in Rows : [x EXCEPT !.mfa = TRUE].secret = x.secret
    BY DEF Rows
  <2>4. [NoRow EXCEPT !.mfa = TRUE].secret = NoRow.secret
    BY DEF NoRow
  <2> QED BY <1>1, <2>1, <2>2, <2>3, <2>4
<1>7. ASSUME MFADisable(s)
      PROVE  req[s].pc = "disable" /\ ~row'[req[s].user].mfa
  <2>1. req[s].pc = "disable"
    BY <1>7 DEF MFADisable, Answer
  <2>2. req[s].user \in Names /\ row[req[s].user].role # "none"
    BY <2>1, <1>1, RequestFields DEF Inv, MFAInv, MFAPCs
  <2>3. row[req[s].user] \in Rows
    BY <1>1, <2>2 DEF NoRow
  <2>4. row'[req[s].user] = [row[req[s].user] EXCEPT !.mfa = FALSE, !.secret = NoSecret]
    BY <1>1, <1>7, <2>2 DEF MFADisable
  <2>5. row'[req[s].user].mfa = FALSE
    BY <2>3, <2>4 DEF Rows
  <2> QED BY <2>1, <2>5
<1>8. MFAScan(s) \/ MFAEnable(s) \/ MFADisable(s) => req'[s].pc = "idle"
  BY <1>1 DEF MFAScan, MFAEnable, MFADisable, Answer, Idle
<1> QED BY <1>3, <1>4, <1>5, <1>6, <1>7, <1>8

\* While a user's TOTP requests do not overlap, MFA that is on has the secret
\* of the authenticator.
LEMMA EnrolmentStep ==
  ASSUME Inv, [Next]_vars
  PROVE  SerialEnrolmentIsSound'
<1> SUFFICES ASSUME NEW u \in Names \ overlap', row'[u].mfa
             PROVE  row'[u].secret # NoSecret /\ row'[u].secret = phone'[u]
  BY DEF SerialEnrolmentIsSound
<1>1. /\ req \in [Reqs -> Requests] /\ SerialEnrolmentIsSound /\ \A s \in Reqs : MFAInv(s)
  BY DEF Inv, Types
<1>2. u \in Names \ overlap
  BY OverlapStep
<1>3. CASE SameEnrolment(u)
  BY <1>1, <1>2, <1>3 DEF SerialEnrolmentIsSound, SameEnrolment
<1>4. ASSUME NEW s \in Reqs, MFASetup(s, u)
      PROVE  FALSE
  BY <1>2, <1>4, OverlapStep, MFAEffects
<1>5. ASSUME NEW s \in Reqs, req[s].user = u, MFAScan(s)
      PROVE  FALSE
  <2>1. req[s].pc = "setup" /\ row' = row
    BY <1>5, MFAEffects
  <2>2. ~row[u].mfa
    BY <1>1, <1>2, <1>5, <2>1 DEF MFAInv, MFAPCs
  <2> QED BY <2>1, <2>2
<1>6. ASSUME NEW s \in Reqs, req[s].user = u, MFAEnable(s)
      PROVE  row'[u].secret # NoSecret /\ row'[u].secret = phone'[u]
  <2>1. req[s].pc = "enable" /\ phone' = phone /\ row'[u].secret = row[u].secret
    BY <1>6, MFAEffects
  <2>2. row[u].secret # NoSecret /\ row[u].secret = phone[u]
    BY <1>1, <1>2, <1>6, <2>1 DEF MFAInv, MFAPCs
  <2> QED BY <2>1, <2>2
<1>7. ASSUME NEW s \in Reqs, req[s].user = u, MFADisable(s)
      PROVE  FALSE
  BY <1>7, MFAEffects
<1> QED BY <1>3, <1>4, <1>5, <1>6, <1>7, EnrolmentChange

\* The TOTP requests of a user that has none counted as overlapping stay alone
\* with the row.
LEMMA MFAStep ==
  ASSUME Inv, [Next]_vars, NEW r \in Reqs
  PROVE  MFAInv(r)'
<1> SUFFICES ASSUME req'[r].pc \in MFAPCs
             PROVE  /\ row'[req'[r].user].role # "none"
                    /\ req'[r].user \notin overlap' =>
                         /\ \A s \in Reqs : (req'[s].pc \in MFAPCs /\ req'[s].user = req'[r].user) => s = r
                         /\ req'[r].pc = "setup" =>
                              ~row'[req'[r].user].mfa /\ row'[req'[r].user].secret = req'[r].secret
                         /\ req'[r].pc = "enable" =>
                              /\ row'[req'[r].user].secret # NoSecret
                              /\ row'[req'[r].user].secret = phone'[req'[r].user]
  BY DEF MFAInv
<1>1. /\ Types /\ req \in [Reqs -> Requests] /\ \A s \in Reqs : MFAInv(s)
  BY DEF Inv, Types
<1>2. Types'
  BY TypeStep
<1>3. /\ req' \in [Reqs -> Requests']
      /\ \A q \in Requests' : q.pc \in MFAPCs => q.user \in Names
  <2>1. req' \in [Reqs -> Requests']
    BY <1>2 DEF Types
  <2>2. \A q \in Requests' : q.pc \in MFAPCs => q.user \in Names
    BY DEF Requests, Idle, MFAPCs
  <2> QED BY <2>1, <2>2
<1>4. PICK u \in Names : u = req'[r].user
  BY <1>3
<1>5. \A s \in Reqs : req'[s].pc \in MFAPCs =>
        \/ req'[s] = req[s]
        \/ \E v \in Names : MFASetup(s, v) /\ req'[s].user = v
        \/ \E v \in Names : \E op \in {"enable", "disable"} : MFACheck(s, v, op) /\ req'[s].user = v
  <2> SUFFICES ASSUME NEW s \in Reqs, req'[s].pc \in MFAPCs, req'[s] # req[s]
               PROVE  \/ \E v \in Names : MFASetup(s, v) /\ req'[s].user = v
                      \/ \E v \in Names : \E op \in {"enable", "disable"} :
                           MFACheck(s, v, op) /\ req'[s].user = v
    OBVIOUS
  <2>1. ASSUME NEW v \in Names, LoginRead(s, v)
        PROVE  FALSE
    BY <1>1, <2>1 DEF LoginRead, Begin, MFAPCs
  <2>2. ASSUME NEW f \in flights, OIDCCallback(s, f)
        PROVE  FALSE
    BY <1>1, <2>2 DEF OIDCCallback, Exchange, Begin, MFAPCs
  <2>3. ASSUME SSOSelect(s)
        PROVE  FALSE
    <3>1. CASE req' = [req EXCEPT ![s] = Idle]
      BY <1>1, <3>1 DEF Idle, MFAPCs
    <3>2. CASE req' = [req EXCEPT ![s].pc = "provision"]
      <4>1. req[s] \in [pc : {"select", "provision"}, user : Names, state : 1..bound.states]
        BY <1>1, <2>3 DEF SSOSelect, Requests, Idle, MFAPCs
      <4>2. req'[s] = [req[s] EXCEPT !.pc = "provision"]
        BY <1>1, <3>2
      <4>3. req'[s].pc = "provision"
        BY <4>1, <4>2
      <4> QED BY <4>3 DEF MFAPCs
    <3> QED BY <2>3, <3>1, <3>2 DEF SSOSelect
  <2>4. req'[s].pc \notin {"idle", "record"}
    BY DEF MFAPCs
  <2> QED BY <1>1, <2>1, <2>2, <2>3, <2>4, OneRequest, MFAEffects
<1>6. row'[u].role # "none"
  <2>1. \A v \in Names : row[v].role # "none" => row'[v].role # "none"
    BY RowStep
  <2>2. row[u].role # "none"
    <3>1. CASE req'[r] = req[r]
      BY <1>1, <1>4, <3>1 DEF MFAInv
    <3> QED BY <1>4, <1>5, <3>1, MFAEffects DEF Roles
  <2> QED BY <2>1, <2>2
<1>7. ASSUME u \notin overlap'
      PROVE  /\ \A s \in Reqs : (req'[s].pc \in MFAPCs /\ req'[s].user = u) => s = r
             /\ req'[r].pc = "setup" => ~row'[u].mfa /\ row'[u].secret = req'[r].secret
             /\ req'[r].pc = "enable" => row'[u].secret # NoSecret /\ row'[u].secret = phone'[u]
  <2>1. u \notin overlap
    BY <1>7, OverlapStep
  <2>2. ASSUME NEW s \in Reqs, NEW t \in Reqs, s # t, req'[t] = req[t], req'[t].pc \in MFAPCs,
               req'[t].user = u, req'[s].pc \in MFAPCs, req'[s].user = u
        PROVE  FALSE
    <3>1. InMFA(u)
      BY <2>2 DEF InMFA
    <3>2. req'[s] = req[s]
      BY <1>5, <1>7, <2>2, <3>1, OverlapStep
    <3> QED BY <1>1, <2>1, <2>2, <3>2 DEF MFAInv
  <2>3. CASE req'[r] = req[r]
    <3>1. \A s \in Reqs : (req'[s].pc \in MFAPCs /\ req'[s].user = u) => s = r
      BY <1>4, <2>2, <2>3
    <3>2. SameEnrolment(u)
      <4>1. row[u] # NoRow
        <5>1. row[u].role # "none"
          BY <1>1, <1>4, <2>3 DEF MFAInv
        <5> QED BY <5>1 DEF NoRow
      <4>2. InMFA(u)
        BY <1>4, <2>3 DEF InMFA
      <4>3. ASSUME NEW s \in Reqs, MFASetup(s, u)
            PROVE  FALSE
        BY <1>7, <4>2, <4>3, OverlapStep
      <4>4. ASSUME NEW s \in Reqs, req[s].user = u, MFAScan(s) \/ MFAEnable(s) \/ MFADisable(s)
            PROVE  FALSE
        <5>1. req[s].pc \in MFAPCs /\ req'[s].pc = "idle"
          BY <4>4, MFAEffects DEF MFAPCs
        <5>2. s = r
          BY <1>1, <1>4, <2>1, <2>3, <4>4, <5>1 DEF MFAInv
        <5> QED BY <5>1, <5>2 DEF MFAPCs
      <4> QED BY <4>1, <4>3, <4>4, EnrolmentChange
    <3>3. /\ req[r].pc = "setup" => ~row[u].mfa /\ row[u].secret = req[r].secret
          /\ req[r].pc = "enable" => row[u].secret # NoSecret /\ row[u].secret = phone[u]
      BY <1>1, <1>4, <2>1, <2>3 DEF MFAInv
    <3> QED BY <2>3, <3>1, <3>2, <3>3 DEF SameEnrolment
  <2>4. ASSUME req'[r] # req[r]
        PROVE  \A s \in Reqs : (req'[s].pc \in MFAPCs /\ req'[s].user = u) => s = r
    <3> SUFFICES ASSUME NEW s \in Reqs, req'[s].pc \in MFAPCs, req'[s].user = u, s # r
                 PROVE  FALSE
      OBVIOUS
    <3>1. req'[s] # req[s]
      BY <1>4, <2>2, <2>4
    <3>2. req[r].pc = "idle" /\ req' = [req EXCEPT ![r] = req'[r]]
      <4>1. CASE MFASetup(r, u)
        BY <1>1, <4>1 DEF MFASetup, Begin
      <4>2. ASSUME NEW op \in {"enable", "disable"}, MFACheck(r, u, op)
            PROVE  req[r].pc = "idle" /\ req' = [req EXCEPT ![r] = req'[r]]
        BY <1>1, <4>2 DEF MFACheck, MFASelect, Begin
      <4> QED BY <1>4, <1>5, <2>4, <4>1, <4>2
    <3> QED BY <1>1, <3>1, <3>2
  <2>5. ASSUME MFASetup(r, u)
        PROVE  /\ req'[r].pc = "setup" /\ ~row'[u].mfa /\ row'[u].secret = req'[r].secret
    BY <1>7, <2>5, OverlapStep, MFAEffects
  <2>6. ASSUME NEW op \in {"enable", "disable"}, MFACheck(r, u, op)
        PROVE  /\ req'[r].pc # "setup"
               /\ row'[u].secret # NoSecret /\ row'[u].secret = phone'[u]
    BY <2>6, MFAEffects
  <2> QED BY <1>4, <1>5, <2>3, <2>4, <2>5, <2>6
<1> QED BY <1>4, <1>6, <1>7

-----------------------------------------------------------------------------
\* The invariant holds before the first boot ...
LEMMA InitInv == Init => Inv
<1> SUFFICES ASSUME Init
             PROVE  Inv
  OBVIOUS
<1>1. /\ bound \in Bounds /\ now = 0 /\ up = FALSE /\ crashes = 0 /\ seedLost = FALSE
      /\ row = [u \in Names |-> NoRow] /\ tokens = {} /\ minted = 0
      /\ was = [u \in Names |-> "none"]
      /\ phone = [u \in Names |-> 0] /\ overlap = {} /\ req = [r \in Reqs |-> Idle]
      /\ cookie = [r \in Reqs |-> 0] /\ issued = <<>> /\ flights = {}
  BY DEF Init, AlertsInit, NoSecret
<1>2. /\ bound.time \in Nat /\ bound.secrets \in Nat /\ bound.states \in Nat /\ bound.crashes \in Nat
  BY <1>1, BoundFacts
<1>3. Types
  <2>1. Idle \in Requests
    BY DEF Requests
  <2>2. issued \in Seq(Reqs) /\ Len(issued) = 0
    BY <1>1
  <2>3. now \in 0..bound.time /\ crashes \in 0..bound.crashes /\ minted \in 0..bound.secrets
    BY <1>1, <1>2
  <2>4. phone \in [Names -> 0..bound.secrets] /\ cookie \in [Reqs -> 0..bound.states]
    BY <1>1, <1>2
  <2>5. row \in [Names -> Rows \cup {NoRow}] /\ req \in [Reqs -> Requests]
    BY <1>1, <2>1
  <2>6. up \in BOOLEAN /\ seedLost \in BOOLEAN
    BY <1>1
  <2>7. /\ tokens \subseteq Tokens /\ was \in [Names -> Roles \cup {"none"}] /\ overlap \subseteq Names
        /\ flights \subseteq [state : 1..bound.states, user : Names]
    BY <1>1
  <2>8. Len(issued) <= bound.states
    BY <1>2, <2>2
  <2> QED BY <1>1, <2>2, <2>3, <2>4, <2>5, <2>6, <2>7, <2>8 DEF Types
<1>4. \A r \in Reqs : req[r].pc = "idle"
  BY <1>1 DEF Idle
<1>5. \A u \in Names : row[u] = NoRow /\ ~row[u].mfa
  BY <1>1 DEF NoRow
<1>6. BootInv /\ AdminBeforeUsers
  BY <1>1, <1>4, <1>5 DEF BootInv, AdminBeforeUsers, Exists
<1>7. TokenMatchesRow /\ WasInv /\ SerialEnrolmentIsSound
  BY <1>1, <1>5 DEF TokenMatchesRow, WasInv, SerialEnrolmentIsSound
<1>8. \A r \in Reqs : LoginInv(r) /\ MFAInv(r) /\ CookieInv(r)
  BY <1>1, <1>4 DEF LoginInv, MFAInv, CookieInv, MFAPCs
<1> QED BY <1>3, <1>6, <1>7, <1>8 DEF Inv

\* ... and every step keeps it.
LEMMA StepInv == Inv /\ [Next]_vars => Inv'
<1> SUFFICES ASSUME Inv, [Next]_vars
             PROVE  Inv'
  OBVIOUS
<1>1. Types' /\ TokenMatchesRow' /\ WasInv' /\ BootInv' /\ AdminBeforeUsers' /\ SerialEnrolmentIsSound'
  BY TypeStep, TokenStep, RowStep, AdminStep, EnrolmentStep
<1>2. \A r \in Reqs : LoginInv(r)' /\ MFAInv(r)' /\ CookieInv(r)'
  BY LoginStep, MFAStep, CookieStep
<1> QED BY <1>1, <1>2 DEF Inv

\* So it always holds.
LEMMA Invariance == Spec => []Inv
BY InitInv, StepInv, PTL DEF Spec

\* For any number of users, requests and restarts, a JWT that Middleware
\* accepts carries the role that its user's row has, or the one the user had
\* until an operator promoted it on the database.
THEOREM TokensMatchRows == Spec => []TokenMatchesRow
<1>1. Inv => TokenMatchesRow
  BY DEF Inv
<1> QED BY Invariance, <1>1, PTL

\* Unless seedAdminIfEmpty failed, a database with a user has an administrator,
\* however many times the gateway crashes and single sign-on provisions users.
THEOREM AdminComesFirst == Spec => []AdminBeforeUsers
<1>1. Inv => AdminBeforeUsers
  BY DEF Inv
<1> QED BY Invariance, <1>1, PTL

\* A user whose TOTP requests never overlapped and who staged no secret while
\* MFA was on can log in with the authenticator whenever MFA is on.
THEOREM EnrolmentIsSound == Spec => []SerialEnrolmentIsSound
<1>1. Inv => SerialEnrolmentIsSound
  BY DEF Inv
<1> QED BY Invariance, <1>1, PTL

\* OIDCCallback only goes on in the browser whose OIDCLogin got the state.
THEOREM CallbacksStayInTheirBrowser == Spec => []SSOInOwnBrowser
<1>1. Inv => SSOInOwnBrowser
  BY DEF Inv, CookieInv, SSOInOwnBrowser
<1> QED BY Invariance, <1>1, PTL

-----------------------------------------------------------------------------
(* The failed-login detector. *)

AlertTypes ==
  /\ fails \in [Names -> SUBSET Failures]
  /\ failLog \in [Names -> Seq(Entries)]
  /\ queue \in Seq(Events \ {"none"}) /\ Len(queue) <= QueueCap
  /\ posting \in Events

\* The failures of a log that every record up to its end leaves in the window.
Surviving(log) ==
  {j \in 1..Len(log) : \A k \in j..Len(log) : log[j].ts >= log[k].ts - Window}

Numbered(log, S) == {[n |-> j, ts |-> log[j].ts] : j \in S}

\* bruteForce.fails holds exactly the surviving failures.
FailsInv == \A u \in Names : fails[u] = Numbered(failLog[u], Surviving(failLog[u]))

AlertInv == AlertTypes /\ FailsInv /\ AlertAtEachCrossing

\* A log is a sequence of timed records.
LogOK(log) == /\ Len(log) \in Nat /\ DOMAIN log = 1..Len(log)
              /\ \A i \in 1..Len(log) : log[i].ts \in Int /\ log[i].alert \in BOOLEAN

\* Counting by number is counting.
LEMMA NumberedCount ==
  ASSUME NEW log, NEW S, IsFiniteSet(S)
  PROVE  Cardinality(Numbered(log, S)) = Cardinality(S)
<1> DEFINE f == [j \in S |-> [n |-> j, ts |-> log[j].ts]]
           T == Numbered(log, S)
<1>1. f \in Bijection(S, T)
  <2>1. f \in [S -> T]
    BY DEF Numbered
  <2>2. \A a, b \in S : f[a] = f[b] => a = b
    <3> SUFFICES ASSUME NEW a \in S, NEW b \in S, f[a] = f[b] PROVE a = b
      OBVIOUS
    <3>1. f[a].n = a /\ f[b].n = b
      OBVIOUS
    <3> QED BY <3>1
  <2>3. \A t \in T : \E a \in S : f[a] = t
    BY DEF Numbered
  <2> HIDE DEF f, T
  <2> QED BY <2>1, <2>2, <2>3 DEF Bijection, Injection, Surjection, IsInjective
<1> HIDE DEF f
<1>2. ExistsBijection(S, T)
  BY <1>1 DEF ExistsBijection
<1> QED BY <1>2, FS_Bijection

\* InWindow over the log up to i is finite.
LEMMA WindowFinite ==
  ASSUME NEW log, NEW i \in Nat, NEW t
  PROVE  IsFiniteSet(InWindow(log, i, t)) /\ Cardinality(InWindow(log, i, t)) \in Nat
<1>1. IsFiniteSet(1..i)
  BY FS_Interval
<1>2. InWindow(log, i, t) \subseteq 1..i
  BY DEF InWindow
<1>3. IsFiniteSet(InWindow(log, i, t))
  BY <1>1, <1>2, FS_Subset
<1> QED BY <1>3, FS_CardinalityType

\* What record() adds: the window of the new failure is what the old log had in
\* it and the failure itself.
LEMMA WindowGrows ==
  ASSUME NEW log, NEW new, LogOK(log), NEW t \in Int,
         Len(new) = Len(log) + 1, \A j \in 1..Len(log) : new[j] = log[j],
         new[Len(log) + 1].ts = t
  PROVE  /\ Surviving(new) = InWindow(log, Len(log), t) \cup {Len(log) + 1}
         /\ InWindow(new, Len(log) + 1, t) = Surviving(new)
         /\ Cardinality(Surviving(new)) = Cardinality(InWindow(log, Len(log), t)) + 1
<1> DEFINE n == Len(log)
           W == InWindow(log, n, t)
<1>1. n \in Nat /\ Window \in Nat /\ \A j \in 1..n : log[j].ts \in Int
  BY AlertsAssumption DEF LogOK
<1>2. Surviving(new) = W \cup {n + 1}
  <2>1. ASSUME NEW j \in Surviving(new) PROVE j \in W \cup {n + 1}
    <3>1. j \in 1..(n + 1) /\ \A k \in j..(n + 1) : new[j].ts >= new[k].ts - Window
      BY <1>1 DEF Surviving
    <3>2. CASE j # n + 1
      <4>1. j \in 1..n /\ n + 1 \in j..(n + 1) /\ \A k \in j..n : k \in j..(n + 1) /\ k \in 1..n
        BY <3>1, <3>2, <1>1
      <4>2. log[j].ts >= t - Window
        BY <3>1, <4>1
      <4>3. \A k \in j..n : log[j].ts >= log[k].ts - Window
        BY <3>1, <4>1
      <4> QED BY <4>1, <4>2, <4>3 DEF InWindow
    <3> QED BY <3>2
  <2>2. ASSUME NEW j \in W PROVE j \in Surviving(new)
    <3>1. j \in 1..n /\ log[j].ts >= t - Window /\ \A k \in j..n : log[j].ts >= log[k].ts - Window
      BY DEF InWindow
    <3>2. \A k \in j..(n + 1) : k = n + 1 \/ (k \in j..n /\ k \in 1..n)
      BY <3>1, <1>1
    <3>3. \A k \in j..(n + 1) : new[j].ts >= new[k].ts - Window
      BY <3>1, <3>2
    <3>4. j \in 1..Len(new)
      BY <3>1, <1>1
    <3> QED BY <3>3, <3>4 DEF Surviving
  <2>3. n + 1 \in Surviving(new)
    <3>1. \A k \in (n + 1)..(n + 1) : k = n + 1
      BY <1>1
    <3>2. t >= t - Window
      BY <1>1
    <3>3. n + 1 \in 1..Len(new)
      BY <1>1
    <3> QED BY <3>1, <3>2, <3>3 DEF Surviving
  <2> QED BY <2>1, <2>2, <2>3
<1>3. InWindow(new, n + 1, t) = Surviving(new)
  <2>1. \A j \in 1..(n + 1) : n + 1 \in j..(n + 1)
    BY <1>1
  <2> QED BY <2>1 DEF InWindow, Surviving
<1>4. n + 1 \notin W
  BY <1>1 DEF InWindow
<1>5. IsFiniteSet(W)
  BY <1>1, WindowFinite
<1>6. Cardinality(W \cup {n + 1}) = Cardinality(W) + 1
  BY <1>4, <1>5, FS_AddElement
<1> QED BY <1>2, <1>3, <1>6

\* The alert of one more failure, raised when it is the Threshold-th in the window,
\* keeps the alerts at the crossings.
LEMMA OneMoreFailure ==
  ASSUME NEW log, NEW new, LogOK(log), NEW t \in Int, AlertsAtCrossings(log),
         Len(new) = Len(log) + 1, DOMAIN new = 1..(Len(log) + 1),
         \A j \in 1..Len(log) : new[j] = log[j], new[Len(log) + 1].ts = t,
         new[Len(log) + 1].alert = (Cardinality(Surviving(new)) = Threshold)
  PROVE  AlertsAtCrossings(new)
<1> DEFINE n == Len(log)
           W == InWindow(log, n, t)
<1>1. n \in Nat /\ Threshold \in Nat /\ Threshold # 0 /\ Window \in Nat
      /\ \A j \in 1..n : log[j].ts \in Int
  BY AlertsAssumption DEF LogOK
<1>2. /\ InWindow(new, n + 1, t) = Surviving(new)
      /\ Cardinality(Surviving(new)) = Cardinality(W) + 1
  BY WindowGrows
<1>3. IsFiniteSet(W) /\ Cardinality(W) \in Nat
  BY <1>1, WindowFinite
<1>4. \A i \in 0..n : \A x : InWindow(new, i, x) = InWindow(log, i, x)
  <2>1. ASSUME NEW i \in 0..Len(log), NEW x PROVE InWindow(new, i, x) = InWindow(log, i, x)
    <3>1. \A j \in 1..i : new[j] = log[j]
      BY <1>1
    <3>2. \A j \in 1..i : \A k \in j..i : k \in 1..i
      BY <1>1
    <3> QED BY <3>1, <3>2 DEF InWindow
  <2> QED BY <2>1
<1>5. \A i \in 1..n : Breach(new, i) <=> Breach(log, i)
  <2>1. \A i \in 1..n : i \in 0..n /\ new[i].ts = log[i].ts
    BY <1>1
  <2> QED BY <1>4, <2>1 DEF Breach
<1>6. Breach(new, n + 1) <=> Cardinality(W) + 1 >= Threshold
  BY <1>2 DEF Breach
<1>7. \A i \in 1..n :
        /\ log[i].alert <=> Crosses(log, i)
        /\ Breach(log, i) =>
             \E k \in 1..i : log[k].alert /\ \A m \in k + 1 .. i : Breach(log, m) /\ ~log[m].alert
  <2>1. DOMAIN log = 1..n
    BY DEF LogOK
  <2> QED BY <2>1 DEF AlertsAtCrossings
<1>8. ASSUME NEW i \in 1..n
      PROVE  /\ new[i].alert <=> Crosses(new, i)
             /\ Breach(new, i) =>
                  \E k \in 1..i : new[k].alert /\ \A m \in k + 1 .. i : Breach(new, m) /\ ~new[m].alert
  <2>1. \A k \in 1..i : k \in 1..n /\ \A m \in k + 1 .. i : m \in 1..n
    BY <1>1
  <2>2. ASSUME Breach(new, i)
        PROVE  \E k \in 1..i : new[k].alert /\ \A m \in k + 1 .. i : Breach(new, m) /\ ~new[m].alert
    <3>1. PICK k \in 1..i : log[k].alert /\ \A m \in k + 1 .. i : Breach(log, m) /\ ~log[m].alert
      BY <1>5, <1>7, <2>2
    <3>2. new[k].alert /\ \A m \in k + 1 .. i : Breach(new, m) /\ ~new[m].alert
      BY <3>1, <2>1, <1>5
    <3> QED BY <3>2
  <2>3. i - 1 \in 0..n /\ new[i] = log[i]
    BY <1>1
  <2>4. Crosses(new, i) <=> Crosses(log, i)
    BY <2>3, <1>4, <1>5 DEF Crosses
  <2>5. new[i].alert <=> Crosses(new, i)
    BY <2>3, <2>4, <1>7
  <2> QED BY <2>2, <2>5
<1>9. ASSUME Breach(new, n + 1)
      PROVE  \E k \in 1..(n + 1) :
               new[k].alert /\ \A m \in k + 1 .. (n + 1) : Breach(new, m) /\ ~new[m].alert
  <2>1. CASE Cardinality(W) + 1 = Threshold
    <3>1. new[n + 1].alert
      BY <1>2, <2>1
    <3>2. n + 1 \in 1..(n + 1) /\ (n + 1) + 1 .. (n + 1) = {}
      BY <1>1
    <3> QED BY <1>9, <3>1, <3>2
  <2>2. CASE Cardinality(W) + 1 # Threshold
    <3>1. Cardinality(W) >= Threshold
      BY <1>1, <1>3, <1>6, <1>9, <2>2
    <3>2. n # 0
      <4>1. ASSUME n = 0 PROVE FALSE
        <5>1. W = {}
          BY <4>1 DEF InWindow
        <5>2. Cardinality(W) = 0
          BY <5>1, FS_EmptySet
        <5> QED BY <3>1, <5>2, <1>1
      <4> QED BY <4>1
    <3>3. n \in 1..n
      BY <1>1, <3>2
    <3>4. W \subseteq InWindow(log, n, log[n].ts)
      <4>1. ASSUME NEW j \in W PROVE j \in InWindow(log, n, log[n].ts)
        <5>1. j \in 1..n /\ \A k \in j..n : log[j].ts >= log[k].ts - Window
          BY DEF InWindow
        <5>2. n \in j..n
          BY <5>1, <1>1
        <5> QED BY <5>1, <5>2 DEF InWindow
      <4> QED BY <4>1
    <3>5. Breach(log, n)
      <4>1. /\ IsFiniteSet(InWindow(log, n, log[n].ts))
            /\ Cardinality(InWindow(log, n, log[n].ts)) \in Nat
        BY <1>1, WindowFinite
      <4>2. Cardinality(W) <= Cardinality(InWindow(log, n, log[n].ts))
        BY <3>4, <4>1, FS_Subset
      <4>3. Cardinality(InWindow(log, n, log[n].ts)) >= Threshold
        BY <3>1, <4>1, <4>2, <1>1, <1>3
      <4> QED BY <4>3 DEF Breach
    <3>6. PICK k \in 1..n : log[k].alert /\ \A m \in k + 1 .. n : Breach(log, m) /\ ~log[m].alert
      BY <1>7, <3>3, <3>5
    <3>7. \A m \in k + 1 .. (n + 1) : m = n + 1 \/ (m \in k + 1 .. n /\ m \in 1..n)
      BY <1>1
    <3>8. ~new[n + 1].alert
      BY <1>2, <2>2
    <3>9. \A m \in k + 1 .. (n + 1) : Breach(new, m) /\ ~new[m].alert
      BY <3>6, <3>7, <3>8, <1>5, <1>9
    <3>10. k \in 1..(n + 1) /\ new[k].alert
      BY <3>6, <1>1
    <3> QED BY <3>9, <3>10
  <2> QED BY <2>1, <2>2
<1>10. new[n + 1].alert <=> (Breach(new, n + 1) /\ Cardinality(InWindow(new, n, t)) < Threshold)
  <2>1. InWindow(new, n, t) = W
    <3>1. n \in 0..n
      BY <1>1
    <3> QED BY <3>1, <1>4
  <2>2. new[n + 1].alert <=> Cardinality(W) + 1 = Threshold
    BY <1>2
  <2> QED BY <2>1, <2>2, <1>1, <1>3, <1>6
<1>11. (n + 1) - 1 = n
  BY <1>1
<1>12. \A i \in DOMAIN new : i \in 1..n \/ i = n + 1
  BY <1>1
<1> HIDE DEF n, W
<1>13. new[n + 1].ts = t
  BY DEF n
<1>14. new[n + 1].alert <=> Crosses(new, n + 1)
  BY <1>10, <1>11, <1>13 DEF Crosses
<1> QED BY <1>8, <1>9, <1>12, <1>14 DEF AlertsAtCrossings

\* What record() makes of its slice: the surviving failures of the longer log.
LEMMA KeptSurvives ==
  ASSUME NEW log, NEW new, LogOK(log), NEW t \in Int,
         Len(new) = Len(log) + 1, \A j \in 1..Len(log) : new[j] = log[j],
         new[Len(log) + 1].ts = t,
         NEW F, F = Numbered(log, Surviving(log))
  PROVE  {f \in F : f.ts >= t - Window} \cup {[n |-> Len(log) + 1, ts |-> t]}
           = Numbered(new, Surviving(new))
<1> DEFINE n == Len(log)
           W == InWindow(log, n, t)
           new1 == [n |-> n + 1, ts |-> t]
<1>1. Surviving(new) = W \cup {n + 1}
  BY WindowGrows
<1>2. W = {j \in Surviving(log) : log[j].ts >= t - Window} /\ W \subseteq 1..n
  BY DEF InWindow, Surviving
<1>3. \A j \in W : new[j].ts = log[j].ts
  BY <1>2
<1>4. {f \in F : f.ts >= t - Window} = Numbered(log, W)
  <2>1. ASSUME NEW f \in F, f.ts >= t - Window PROVE f \in Numbered(log, W)
    <3>1. PICK j \in Surviving(log) : f = [n |-> j, ts |-> log[j].ts]
      BY DEF Numbered
    <3>2. j \in W
      BY <2>1, <3>1, <1>2
    <3> QED BY <3>1, <3>2 DEF Numbered
  <2>2. ASSUME NEW f \in Numbered(log, W) PROVE f \in F /\ f.ts >= t - Window
    <3>1. PICK j \in W : f = [n |-> j, ts |-> log[j].ts]
      BY DEF Numbered
    <3>2. j \in Surviving(log) /\ log[j].ts >= t - Window
      BY <1>2
    <3>3. f.ts = log[j].ts
      BY <3>1
    <3> QED BY <3>1, <3>2, <3>3 DEF Numbered
  <2> QED BY <2>1, <2>2
<1>5. Numbered(new, W \cup {n + 1}) = Numbered(log, W) \cup {new1}
  <2>1. ASSUME NEW f \in Numbered(new, W \cup {n + 1}) PROVE f \in Numbered(log, W) \cup {new1}
    <3>1. PICK j \in W \cup {n + 1} : f = [n |-> j, ts |-> new[j].ts]
      BY DEF Numbered
    <3>2. CASE j \in W
      BY <3>1, <3>2, <1>3 DEF Numbered
    <3>3. CASE j = n + 1
      BY <3>1, <3>3
    <3> QED BY <3>2, <3>3
  <2>2. ASSUME NEW f \in Numbered(log, W) PROVE f \in Numbered(new, W \cup {n + 1})
    <3>1. PICK j \in W : f = [n |-> j, ts |-> log[j].ts]
      BY DEF Numbered
    <3>2. f = [n |-> j, ts |-> new[j].ts]
      BY <3>1, <1>3
    <3> QED BY <3>2 DEF Numbered
  <2>3. new1 \in Numbered(new, W \cup {n + 1})
    BY DEF Numbered
  <2> QED BY <2>1, <2>2, <2>3
<1> QED BY <1>1, <1>4, <1>5

\* Whatever becomes of the notifier's queue, a step either leaves the detector
\* alone, or is a crash, or is one record().
LEMMA AlertSteps ==
  ASSUME Inv, AlertTypes, [Next]_vars
  PROVE  \/ /\ fails' = fails /\ failLog' = failLog
            /\ \/ queue' = queue
               \/ \E e \in Events \ {"none"} : queue' = Send(queue, e)
               \/ queue # <<>> /\ queue' = Tail(queue)
            /\ posting' \in Events
         \/ /\ fails' = [u \in Names |-> {}] /\ failLog' = [u \in Names |-> <<>>]
            /\ queue' = <<>> /\ posting' = "none"
         \/ /\ \E u \in Names, t \in 0..bound.time : Record(u, t)
            /\ posting' = posting
<1>1. req \in [Reqs -> Requests] /\ bound \in Bounds
  BY DEF Inv, Types
<1>2. posting \in Events /\ queue \in Seq(Events \ {"none"})
  BY DEF AlertTypes
<1>3. {"login_failed", "sso_login"} \subseteq Events \ {"none"}
  BY DEF Events
<1>4. ASSUME UNCHANGED alertVars
      PROVE  fails' = fails /\ failLog' = failLog /\ queue' = queue /\ posting' \in Events
  BY <1>2, <1>4 DEF alertVars
<1>5. CASE Crash
  BY <1>5 DEF Crash
<1>6. CASE Alerting
  <2>1. CASE Tick
    BY <2>1, <1>2 DEF Tick
  <2>2. CASE WorkerTake
    <3>1. queue # <<>> /\ Head(queue) \in Events
      BY <2>2, <1>2 DEF WorkerTake
    <3> QED BY <2>2, <3>1 DEF WorkerTake
  <2>3. CASE WorkerPosted
    BY <2>3 DEF WorkerPosted, Events
  <2> QED BY <1>6, <2>1, <2>2, <2>3 DEF Alerting
<1>7. ASSUME NEW r \in Reqs, LoginRecord(r)
      PROVE  /\ \E u \in Names, t \in 0..bound.time : Record(u, t)
             /\ posting' = posting
  <2>1. req[r].pc = "record" /\ Record(req[r].user, req[r].t) /\ posting' = posting
    BY <1>7 DEF LoginRecord, Answer
  <2>2. req[r].user \in Names /\ req[r].t \in 0..bound.time
    BY <2>1, <1>1, RequestFields
  <2> QED BY <2>1, <2>2
<1>8. ASSUME NEW r \in Reqs, LoginBadPassword(r) \/ SSOSelect(r) \/ SSOInsert(r)
      PROVE  /\ fails' = fails /\ failLog' = failLog /\ posting' = posting
             /\ \/ queue' = queue
                \/ \E e \in Events \ {"none"} : queue' = Send(queue, e)
  <2>1. fails' = fails /\ failLog' = failLog /\ posting' = posting
    BY <1>8 DEF LoginBadPassword, SSOSelect, SSOInsert
  <2>2. queue' = queue \/ queue' = Send(queue, "login_failed") \/ queue' = Send(queue, "sso_login")
    BY <1>8 DEF LoginBadPassword, SSOSelect, SSOInsert, SSOGrant
  <2> QED BY <2>1, <2>2, <1>3
<1>9. ASSUME NEW r \in Reqs, Request(r)
      PROVE  \/ UNCHANGED alertVars \/ LoginRecord(r) \/ LoginBadPassword(r)
             \/ SSOSelect(r) \/ SSOInsert(r)
  BY <1>9 DEF Request, LoginRead, MFASetup, MFACheck, MFASelect, OIDCCallback, Exchange, LoginFinish,
              MFAScan, MFAEnable, MFADisable, OIDCLogin, DBError
<1>10. ASSUME \/ Boot \/ (\E tok \in tokens : TokenExpires(tok))
              \/ (\E u \in Names, role \in Roles : CreateUser(u, role))
              \/ (\E u \in Names : Promote(u))
              \/ (\E s \in DOMAIN issued, u \in Names : IdPRedirect(s, u)) \/ UNCHANGED vars
       PROVE  UNCHANGED alertVars
  BY <1>10 DEF Boot, TokenExpires, CreateUser, Promote, IdPRedirect, vars
<1>11. ASSUME NEW r \in Reqs, Request(r)
       PROVE  \/ /\ fails' = fails /\ failLog' = failLog
                 /\ \/ queue' = queue
                    \/ \E e \in Events \ {"none"} : queue' = Send(queue, e)
                    \/ queue # <<>> /\ queue' = Tail(queue)
                 /\ posting' \in Events
              \/ /\ \E u \in Names, t \in 0..bound.time : Record(u, t)
                 /\ posting' = posting
  BY <1>2, <1>4, <1>7, <1>8, <1>9, <1>11
<1> QED BY <1>4, <1>5, <1>6, <1>10, <1>11 DEF Next

\* Sends and receives keep the notifier's queue within its capacity.
LEMMA QueueStep ==
  ASSUME NEW q \in Seq(Events \ {"none"}), Len(q) <= QueueCap, NEW e \in Events \ {"none"}
  PROVE  /\ Send(q, e) \in Seq(Events \ {"none"}) /\ Len(Send(q, e)) <= QueueCap
         /\ q # <<>> => Tail(q) \in Seq(Events \ {"none"}) /\ Len(Tail(q)) <= QueueCap
<1>1. QueueCap \in Nat /\ Len(q) \in Nat
  BY AlertsAssumption
<1>2. q # <<>> => Tail(q) \in Seq(Events \ {"none"}) /\ Len(Tail(q)) = Len(q) - 1
  OBVIOUS
<1>3. Append(q, e) \in Seq(Events \ {"none"}) /\ Len(Append(q, e)) = Len(q) + 1
  OBVIOUS
<1> QED BY <1>1, <1>2, <1>3 DEF Send

\* An empty log and an empty slice.
LEMMA NoFailures ==
  ASSUME NEW S
  PROVE  /\ Numbered(<<>>, Surviving(<<>>)) = {} /\ AlertsAtCrossings(<<>>)
         /\ <<>> \in Seq(S)
<1>1. Len(<<>>) = 0 /\ DOMAIN <<>> = {} /\ 1..0 = {}
  OBVIOUS
<1>2. <<>> \in Seq(S)
  OBVIOUS
<1> QED BY <1>1, <1>2 DEF Numbered, Surviving, AlertsAtCrossings

\* The detector starts empty ...
LEMMA AlertInitInv == Init => AlertInv
<1> SUFFICES ASSUME Init PROVE AlertInv
  OBVIOUS
<1>1. /\ fails = [u \in Names |-> {}] /\ failLog = [u \in Names |-> <<>>]
      /\ queue = <<>> /\ posting = "none"
  BY DEF Init, AlertsInit, AlertsEmpty
<1>2. queue \in Seq(Events \ {"none"}) /\ Len(queue) <= QueueCap
  BY <1>1, AlertsAssumption
<1>3. AlertTypes
  BY <1>1, <1>2, NoFailures DEF AlertTypes, Events
<1> QED BY <1>1, <1>3, NoFailures DEF AlertInv, FailsInv, AlertAtEachCrossing

\* ... and every step keeps what record() relies on.
LEMMA AlertStepInv ==
  ASSUME Inv, AlertInv, [Next]_vars
  PROVE  AlertInv'
<1>1. AlertTypes /\ FailsInv /\ AlertAtEachCrossing
  BY DEF AlertInv
<1>2. /\ fails \in [Names -> SUBSET Failures] /\ failLog \in [Names -> Seq(Entries)]
      /\ queue \in Seq(Events \ {"none"}) /\ Len(queue) <= QueueCap /\ posting \in Events
  BY <1>1 DEF AlertTypes
<1>3. bound' = bound /\ Failures' = Failures /\ Entries' = Entries
  <2>1. bound' = bound
    BY DEF Next, Boot, Crash, Alerting, Tick, WorkerTake, WorkerPosted, Request, LoginRead, MFASetup,
         MFACheck, MFASelect, OIDCCallback, Exchange, LoginBadPassword, LoginRecord, LoginFinish,
         MFAScan, MFAEnable, MFADisable, OIDCLogin, SSOSelect, SSOInsert, DBError, TokenExpires,
         CreateUser, Promote, IdPRedirect, alertVars, vars
  <2> QED BY <2>1 DEF Failures, Entries
<1>4. ASSUME fails' = fails, failLog' = failLog,
             \/ queue' = queue
             \/ \E e \in Events \ {"none"} : queue' = Send(queue, e)
             \/ queue # <<>> /\ queue' = Tail(queue),
             posting' \in Events
      PROVE  AlertInv'
  <2>1. queue' \in Seq(Events \ {"none"}) /\ Len(queue') <= QueueCap
    <3>1. "bruteforce" \in Events \ {"none"}
      BY DEF Events
    <3> QED BY <1>2, <1>4, <3>1, QueueStep
  <2>2. AlertTypes'
    BY <1>2, <1>3, <1>4, <2>1 DEF AlertTypes
  <2> QED BY <1>1, <1>4, <2>2 DEF AlertInv, FailsInv, AlertAtEachCrossing
<1>5. ASSUME fails' = [u \in Names |-> {}], failLog' = [u \in Names |-> <<>>],
             queue' = <<>>, posting' = "none"
      PROVE  AlertInv'
  <2>1. queue' \in Seq(Events \ {"none"}) /\ Len(queue') <= QueueCap
    BY <1>5, AlertsAssumption
  <2>2. AlertTypes'
    BY <1>3, <1>5, <2>1, NoFailures DEF AlertTypes, Events
  <2> QED BY <1>5, <2>2, NoFailures DEF AlertInv, FailsInv, AlertAtEachCrossing
<1>6. ASSUME NEW u \in Names, NEW t \in 0..bound.time, Record(u, t), posting' = posting
      PROVE  AlertInv'
  <2>1. PICK alert \in BOOLEAN : alert = (Cardinality(Kept(u, t)) = Threshold)
    OBVIOUS
  <2>2. /\ fails' = [fails EXCEPT ![u] = Kept(u, t)]
        /\ failLog' = [failLog EXCEPT ![u] = Append(failLog[u], [ts |-> t, alert |-> alert])]
        /\ queue' = IF alert THEN Send(queue, "bruteforce") ELSE queue
    BY <1>6, <1>2, <2>1 DEF Record
  <2>3. queue' \in Seq(Events \ {"none"}) /\ Len(queue') <= QueueCap
    <3>1. "bruteforce" \in Events \ {"none"}
      BY DEF Events
    <3>2. Send(queue, "bruteforce") \in Seq(Events \ {"none"}) /\ Len(Send(queue, "bruteforce")) <= QueueCap
      BY <1>2, <3>1, QueueStep
    <3> QED BY <1>2, <2>2, <3>2
  <2>4. PICK log \in Seq(Entries) : log = failLog[u]
    BY <1>2
  <2>5. PICK new : new = Append(log, [ts |-> t, alert |-> alert])
    OBVIOUS
  <2>6. [ts |-> t, alert |-> alert] \in Entries
    BY DEF Entries
  <2>7. /\ Len(log) \in Nat /\ DOMAIN log = 1..Len(log) /\ new \in Seq(Entries)
        /\ Len(new) = Len(log) + 1 /\ DOMAIN new = 1..(Len(log) + 1)
        /\ \A j \in 1..Len(log) : new[j] = log[j] /\ log[j] \in Entries
        /\ new[Len(log) + 1] = [ts |-> t, alert |-> alert]
    BY <2>5, <2>6
  <2>8. t \in Int /\ bound.time \in Nat
    <3>1. bound.time \in Nat
      BY BoundFacts DEF Inv, Types
    <3> QED BY <3>1
  <2>9. LogOK(log)
    <3>1. \A x \in Entries : x.ts \in Int /\ x.alert \in BOOLEAN
      BY <2>8 DEF Entries
    <3> QED BY <2>7, <3>1 DEF LogOK
  <2>10. new[Len(log) + 1].ts = t /\ new[Len(log) + 1].alert = alert
    BY <2>7
  <2>11. Kept(u, t) = Numbered(new, Surviving(new))
    <3>1. fails[u] = Numbered(log, Surviving(log))
      BY <1>1, <2>4 DEF FailsInv
    <3>2. {f \in fails[u] : f.ts >= t - Window} \cup {[n |-> Len(log) + 1, ts |-> t]}
            = Numbered(new, Surviving(new))
      BY <2>7, <2>8, <2>9, <2>10, <3>1, KeptSurvives
    <3> QED BY <2>4, <3>2 DEF Kept, Failure
  <2>12. IsFiniteSet(Surviving(new))
    <3>1. Surviving(new) \subseteq 1..Len(new) /\ Len(new) \in Nat
      BY <2>7 DEF Surviving
    <3>2. IsFiniteSet(1..Len(new))
      BY <3>1, FS_Interval
    <3> QED BY <3>1, <3>2, FS_Subset
  <2>13. alert = (Cardinality(Surviving(new)) = Threshold)
    BY <2>1, <2>11, <2>12, NumberedCount
  <2>14. AlertsAtCrossings(new)
    <3>1. AlertsAtCrossings(log)
      BY <1>1, <2>4 DEF AlertAtEachCrossing
    <3>2. new[Len(log) + 1].alert = (Cardinality(Surviving(new)) = Threshold)
      BY <2>10, <2>13
    <3> QED BY <3>1, <3>2, <2>7, <2>8, <2>9, <2>10, OneMoreFailure
  <2>15. /\ failLog'[u] = new /\ fails'[u] = Kept(u, t)
         /\ \A v \in Names \ {u} : failLog'[v] = failLog[v] /\ fails'[v] = fails[v]
    BY <1>2, <2>2, <2>4, <2>5
  <2>16. Kept(u, t) \in SUBSET Failures
    <3>1. \A f \in fails[u] : f \in Failures
      BY <1>2
    <3>2. [n |-> Len(log) + 1, ts |-> t] \in Failures
      BY <2>7 DEF Failures
    <3> QED BY <3>1, <3>2, <2>4 DEF Kept, Failure
  <2>17. fails' \in [Names -> SUBSET Failures]
    BY <1>2, <2>2, <2>16
  <2>18. failLog' \in [Names -> Seq(Entries)]
    BY <1>2, <2>2, <2>4, <2>5, <2>7
  <2>19. AlertTypes'
    BY <1>2, <1>3, <1>6, <2>3, <2>17, <2>18 DEF AlertTypes
  <2>20. FailsInv'
    <3>1. \A v \in Names : fails'[v] = Numbered(failLog'[v], Surviving(failLog'[v]))
      BY <1>1, <2>11, <2>15 DEF FailsInv
    <3> QED BY <3>1 DEF FailsInv
  <2>21. AlertAtEachCrossing'
    BY <1>1, <2>14, <2>15 DEF AlertAtEachCrossing
  <2> QED BY <2>19, <2>20, <2>21 DEF AlertInv
<1> QED BY <1>1, <1>4, <1>5, <1>6, AlertSteps

\* The detector's invariant holds throughout.
LEMMA AlertInvariance == Spec => []AlertInv
<1>1. Inv /\ AlertInv /\ [Next]_vars => AlertInv'
  BY AlertStepInv
<1> QED BY <1>1, AlertInitInv, Invariance, PTL DEF Spec

\* The types of all the variables; the notifier's queue never exceeds its capacity.
THEOREM TypeCorrect == Spec => []TypeOK
<1>1. Inv /\ AlertInv => TypeOK
  BY DEF Inv, Types, AlertInv, AlertTypes, TypeOK, AlertsTypeOK
<1> QED BY <1>1, Invariance, AlertInvariance, PTL

\* One alert per breach: for any window, threshold, number of users and failed
\* logins, with clock readings that reach record() in any order.
THEOREM AlertsMarkCrossings == Spec => []AlertAtEachCrossing
<1>1. AlertInv => AlertAtEachCrossing
  BY DEF AlertInv
<1> QED BY <1>1, AlertInvariance, PTL
=============================================================================
