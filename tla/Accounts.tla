------------------------------ MODULE Accounts ------------------------------
(***************************************************************************)
(* User accounts and their sessions: password login with its second        *)
(* factor, TOTP enrolment, single sign-on, user creation and the seeding   *)
(* of the first administrator at boot (internal/api/users.go, oidc.go,     *)
(* internal/auth, cmd/gateway).  Every statement on the users table is one *)
(* step, so concurrent requests interleave between their SELECT and their  *)
(* UPDATE or INSERT.  A secret is a number; a code is the secret it was    *)
(* computed from (an empty secret has codes too); a wrong one is BadCode.  *)
(***************************************************************************)
EXTENDS Alerts

CONSTANTS Reqs,       \* concurrent requests, one per browser tab
          Admin       \* the username "admin" that a fresh database is given

ASSUME AccountsAssumption == Admin \in Names

VARIABLES up,      \* the gateway serves requests
          crashes, \* restarts so far
          seedLost,\* history: an empty database was not seeded (only logged)
          row,     \* the users table
          was,     \* history: each user's role before an operator promoted it
          tokens,  \* the issued JWTs that have not expired
          minted,  \* TOTP secrets generated so far
          phone,   \* the secret in each user's authenticator
          req,     \* the requests in progress
          cookie,  \* sw_oidc_state of each browser
          issued,  \* OIDC states generated, and the browser each was given to
          flights, \* redirects of the identity provider not yet used
          overlap  \* history: users whose TOTP requests overlapped, or who
                   \* staged a secret while MFA was on

marks == <<seedLost, was>>
rowVars == <<row, tokens, marks>>
mfaVars == <<minted, phone, overlap>>
oidcVars == <<cookie, issued, flights>>
procVars == <<up, crashes>>
vars == <<alertVars, procVars, rowVars, mfaVars, oidcVars, req>>

Roles == {"admin", "operator", "auditor"}
NoSecret == 0
BadCode == -1
NoRow == [role |-> "none", mfa |-> FALSE, secret |-> NoSecret, pw |-> FALSE]
Rows == [role : Roles, mfa : BOOLEAN, secret : 0..bound.secrets, pw : BOOLEAN]
Tokens == [user : Names, role : Roles]
Idle == [pc |-> "idle"]

MFAPCs == {"setup", "enable", "disable"}
Requests ==
  {Idle}
  \cup [pc : {"password"}, user : Names, snap : Rows]
  \cup [pc : {"record"}, user : Names, t : 0..bound.time]
  \cup [pc : MFAPCs, user : Names, secret : 0..bound.secrets]
  \cup [pc : {"select", "provision"}, user : Names, state : 1..bound.states]

TypeOK ==
  /\ AlertsTypeOK
  /\ up \in BOOLEAN /\ seedLost \in BOOLEAN /\ crashes \in 0..bound.crashes
  /\ row \in [Names -> Rows \cup {NoRow}]
  /\ tokens \subseteq Tokens
  /\ was \in [Names -> Roles \cup {"none"}]
  /\ minted \in 0..bound.secrets /\ phone \in [Names -> 0..bound.secrets]
  /\ req \in [Reqs -> Requests]
  /\ cookie \in [Reqs -> 0..bound.states]
  /\ issued \in Seq(Reqs) /\ Len(issued) <= bound.states
  /\ flights \subseteq [state : 1..bound.states, user : Names]
  /\ overlap \subseteq Names

Exists(u) == row[u] # NoRow

Init ==
  /\ AlertsInit
  /\ up = FALSE /\ crashes = 0 /\ seedLost = FALSE
  /\ row = [u \in Names |-> NoRow]
  /\ tokens = {} /\ was = [u \in Names |-> "none"]
  /\ minted = 0 /\ phone = [u \in Names |-> NoSecret] /\ overlap = {}
  /\ req = [r \in Reqs |-> Idle]
  /\ cookie = [r \in Reqs |-> 0] /\ issued = <<>> /\ flights = {}

-----------------------------------------------------------------------------
(* The process. *)

\* Mutant: the gateway serves before it seeds.
BootServesFirst ==
  /\ ~up /\ up' = TRUE
  /\ UNCHANGED <<alertVars, crashes, rowVars, mfaVars, oidcVars, req>>

\* main: the migrations change nothing they have created before, then
\* seedAdminIfEmpty; a failed count or INSERT leaves the table as it is.
Boot ==
  /\ ~up /\ up' = TRUE
  /\ \/ /\ \A u \in Names : ~Exists(u)
        /\ \/ /\ row' = [row EXCEPT ![Admin] = [NoRow EXCEPT !.role = "admin", !.pw = TRUE]]
              /\ UNCHANGED seedLost
           \/ seedLost' = TRUE /\ UNCHANGED row
     \/ (\E u \in Names : Exists(u)) /\ UNCHANGED <<row, seedLost>>
  /\ UNCHANGED <<alertVars, crashes, tokens, was, mfaVars, oidcVars, req>>

\* The process dies: requests, failure windows and queued events are gone;
\* the database, the tokens and the browsers' cookies are not.
Crash ==
  /\ up /\ up' = FALSE
  /\ crashes < bound.crashes /\ crashes' = crashes + 1
  /\ req' = [r \in Reqs |-> Idle]
  /\ fails' = [u \in Names |-> {}] /\ failLog' = [u \in Names |-> <<>>]
  /\ queue' = <<>> /\ posting' = "none"
  /\ UNCHANGED <<bound, now, rowVars, mfaVars, oidcVars>>

-----------------------------------------------------------------------------
(* Requests: a handler begins, takes its steps and answers. *)

Begin(r, q) == up /\ req[r].pc = "idle" /\ req' = [req EXCEPT ![r] = q]
Answer(r, at) == req[r].pc = at /\ req' = [req EXCEPT ![r] = Idle]

\* Issue.
IssueToken(u, role) == tokens' = tokens \cup {[user |-> u, role |-> role]}

\* Parse refuses a token once its 12 hours are over.
TokenExpires(tok) ==
  /\ tok \in tokens /\ tokens' = tokens \ {tok}
  /\ UNCHANGED <<alertVars, procVars, row, marks, mfaVars, oidcVars, req>>

\* guard: the caller's token, as it was issued, has one of the roles.
guard(roles) == \E tok \in tokens : tok.role \in roles

\* Middleware: the caller holds a token of u that Parse accepts.
Authenticated(u) == \E tok \in tokens : tok.user = u

\* ValidateTOTP.
ValidateTOTP(secret, code) == code = secret

\* A statement fails: the handler answers 500.
DBError(r) ==
  /\ req[r].pc \in MFAPCs \cup {"password", "select", "provision"}
  /\ req' = [req EXCEPT ![r] = Idle]
  /\ UNCHANGED <<alertVars, procVars, rowVars, mfaVars, oidcVars>>

\* Login reads the row; an unknown user is refused without a trace.
LoginRead(r, u) ==
  /\ Exists(u)
  /\ Begin(r, [pc |-> "password", user |-> u, snap |-> row[u]])
  /\ UNCHANGED <<alertVars, procVars, rowVars, mfaVars, oidcVars>>

Recording(u) == {r \in Reqs : req[r].pc = "record" /\ req[r].user = u}

\* bcrypt refuses: onLoginFailure with its clock reading, the audit entry and
\* the warning.
LoginBadPassword(r) ==
  /\ req[r].pc = "password"
  /\ Len(failLog[req[r].user]) + Cardinality(Recording(req[r].user)) < bound.fails
  /\ req' = [req EXCEPT ![r] = [pc |-> "record", user |-> req[r].user, t |-> now]]
  /\ queue' = Send(queue, "login_failed")
  /\ UNCHANGED <<bound, now, fails, failLog, posting, procVars, rowVars, mfaVars, oidcVars>>

\* ... and record(), under bruteForce.mu.
LoginRecord(r) ==
  /\ Answer(r, "record")
  /\ Record(req[r].user, req[r].t)
  /\ UNCHANGED <<bound, now, posting, procVars, rowVars, mfaVars, oidcVars>>

\* The password is right; with MFA on, code must be valid for the secret read.
LoginFinish(r, code) ==
  /\ Answer(r, "password")
  /\ req[r].snap.pw
  /\ IF req[r].snap.mfa => ValidateTOTP(req[r].snap.secret, code)
     THEN IssueToken(req[r].user, req[r].snap.role) ELSE UNCHANGED tokens
  /\ UNCHANGED <<alertVars, procVars, row, marks, mfaVars, oidcVars>>

\* CreateUser: the INSERT of a taken username fails.
CreateUser(u, role) ==
  /\ up /\ guard({"admin"})
  /\ ~Exists(u) /\ Cardinality({n \in Names : Exists(n)}) < bound.users
  /\ row' = [row EXCEPT ![u] = [NoRow EXCEPT !.role = role, !.pw = TRUE]]
  /\ UNCHANGED <<alertVars, procVars, tokens, marks, mfaVars, oidcVars, req>>

\* "promote to admin manually" (upsertSSOUser): an operator rewrites a role with
\* a statement on the database, whether or not the gateway runs; no API does.
Promote(u) ==
  /\ Exists(u) /\ row[u].role # "admin"
  /\ row' = [row EXCEPT ![u].role = "admin"]
  /\ was' = [was EXCEPT ![u] = row[u].role]
  /\ UNCHANGED <<alertVars, procVars, tokens, seedLost, mfaVars, oidcVars, req>>

-----------------------------------------------------------------------------
(* TOTP enrolment. *)

InMFA(u) == \E r \in Reqs : req[r].pc \in MFAPCs /\ req[r].user = u
Overlaps(u, hazard) == overlap' = IF InMFA(u) \/ hazard THEN overlap \cup {u} ELSE overlap

\* GenerateTOTPSecret: a secret nobody has seen.
NewSecret == minted + 1

\* MFASetup: the UPDATE, whether or not MFA is on.
MFASetup(r, u) ==
  /\ Authenticated(u) /\ minted < bound.secrets
  /\ Begin(r, [pc |-> "setup", user |-> u, secret |-> NewSecret])
  /\ minted' = NewSecret
  /\ row' = [row EXCEPT ![u].secret = NewSecret]
  /\ Overlaps(u, row[u].mfa)
  /\ UNCHANGED <<alertVars, procVars, tokens, marks, phone, oidcVars>>

\* ... and its answer, which the user scans.
MFAScan(r) ==
  /\ Answer(r, "setup")
  /\ phone' = [phone EXCEPT ![req[r].user] = req[r].secret]
  /\ UNCHANGED <<alertVars, procVars, rowVars, minted, overlap, oidcVars>>

\* The SELECT and the request that goes on with it (alone, the mutant of
\* MFACheck that checks no code).
MFASelect(r, u, op) ==
  /\ Authenticated(u)
  /\ Begin(r, [pc |-> op, user |-> u, secret |-> row[u].secret])
  /\ Overlaps(u, FALSE)
  /\ UNCHANGED <<alertVars, procVars, rowVars, minted, phone, oidcVars>>

\* MFAEnable and MFADisable: the SELECT and the check of the code; a wrong
\* code is refused.
MFACheck(r, u, op) ==
  /\ row[u].secret # NoSecret /\ ValidateTOTP(row[u].secret, phone[u])
  /\ MFASelect(r, u, op)

\* ... and their UPDATEs.
MFAEnable(r) ==
  /\ Answer(r, "enable")
  /\ row' = [row EXCEPT ![req[r].user].mfa = TRUE]
  /\ UNCHANGED <<alertVars, procVars, tokens, marks, mfaVars, oidcVars>>

MFADisable(r) ==
  /\ Answer(r, "disable")
  /\ row' = [row EXCEPT ![req[r].user].mfa = FALSE, ![req[r].user].secret = NoSecret]
  /\ UNCHANGED <<alertVars, procVars, tokens, marks, mfaVars, oidcVars>>

-----------------------------------------------------------------------------
(* Single sign-on. *)

\* OIDCLogin: a fresh state in the cookie and in the redirect.
OIDCLogin(r) ==
  /\ up /\ Len(issued) < bound.states
  /\ issued' = Append(issued, r)
  /\ cookie' = [cookie EXCEPT ![r] = Len(issued) + 1]
  /\ UNCHANGED <<alertVars, procVars, rowVars, mfaVars, flights, req>>

\* The identity provider authenticates u and redirects with the state.
IdPRedirect(s, u) ==
  /\ s \in DOMAIN issued
  /\ flights' = flights \cup {[state |-> s, user |-> u]}
  /\ UNCHANGED <<alertVars, procVars, rowVars, mfaVars, cookie, issued, req>>

\* The emission and the token that end a successful callback.
SSOGrant(u, role) == IssueToken(u, role) /\ queue' = Send(queue, "sso_login")

\* The exchange of the code, which starts the request of the user it names.
Exchange(r, f) ==
  /\ f \in flights /\ flights' = flights \ {f}
  /\ Begin(r, [pc |-> "select", user |-> f.user, state |-> f.state])
  /\ UNCHANGED <<alertVars, procVars, rowVars, mfaVars, cookie, issued>>

\* OIDCCallback: the state must be that of the cookie; the provider exchanges
\* the code once and the ID token names the user.
OIDCCallback(r, f) == cookie[r] = f.state /\ Exchange(r, f)

\* upsertSSOUser: the SELECT ends the request of a known user.
SSOSelect(r) ==
  LET u == req[r].user
  IN /\ req[r].pc = "select"
     /\ IF Exists(u)
        THEN SSOGrant(u, row[u].role) /\ req' = [req EXCEPT ![r] = Idle]
        ELSE req' = [req EXCEPT ![r].pc = "provision"] /\ UNCHANGED <<tokens, queue>>
     /\ UNCHANGED <<bound, now, fails, failLog, posting, procVars, row, marks, mfaVars, oidcVars>>

\* Mutant: the INSERT becomes an upsert that resets the row.
SSOInsertOverwrites(r) ==
  /\ Answer(r, "provision")
  /\ row' = [row EXCEPT ![req[r].user] = [NoRow EXCEPT !.role = "operator"]]
  /\ SSOGrant(req[r].user, "operator")
  /\ UNCHANGED <<bound, now, fails, failLog, posting, procVars, marks, mfaVars, oidcVars>>

\* ... and its INSERT, which fails if the user exists by now.
SSOInsert(r) ==
  LET u == req[r].user
  IN /\ Answer(r, "provision")
     /\ IF Exists(u) THEN UNCHANGED <<row, tokens, queue>>
        ELSE /\ row' = [row EXCEPT ![u] = [NoRow EXCEPT !.role = "operator"]]
             /\ SSOGrant(u, "operator")
     /\ UNCHANGED <<bound, now, fails, failLog, posting, procVars, marks, mfaVars, oidcVars>>

-----------------------------------------------------------------------------
Request(r) ==
  \/ \E u \in Names : LoginRead(r, u) \/ MFASetup(r, u)
  \/ \E u \in Names : \E op \in {"enable", "disable"} : MFACheck(r, u, op)
  \/ \E f \in flights : OIDCCallback(r, f)
  \/ LoginBadPassword(r) \/ LoginRecord(r)
  \/ \E code \in BadCode..bound.secrets : LoginFinish(r, code)
  \/ MFAScan(r) \/ MFAEnable(r) \/ MFADisable(r)
  \/ OIDCLogin(r) \/ SSOSelect(r) \/ SSOInsert(r)
  \/ DBError(r)

Alerting == (Tick \/ WorkerTake \/ WorkerPosted)
            /\ UNCHANGED <<procVars, rowVars, mfaVars, oidcVars, req>>

Next ==
  \/ Boot \/ Crash \/ Alerting
  \/ \E r \in Reqs : Request(r)
  \/ \E tok \in tokens : TokenExpires(tok)
  \/ \E u \in Names, role \in Roles : CreateUser(u, role)
  \/ \E u \in Names : Promote(u)
  \/ \E s \in DOMAIN issued, u \in Names : IdPRedirect(s, u)

Spec == Init /\ [][Next]_vars

-----------------------------------------------------------------------------
\* A JWT carries the role it was issued with and is never looked up again
\* (auth.Middleware, guard).  Whichever of CreateUser, the two-step upsertSSOUser
\* and the seeding wins a race for a username, that role is the one in the row, or
\* the one an operator has since promoted the user from: a manual promotion does not
\* reach the tokens already issued, nor the one a Login in progress will issue from
\* the row it has read, which keep the old role until they expire.
TokenMatchesRow ==
  \A tok \in tokens : tok.role \in {row[tok.user].role, was[tok.user]}

\* A callback is only completed in the browser whose OIDCLogin began it
\* (oidc.go, the sw_oidc_state cookie), with any interleaving of two browsers.
SSOInOwnBrowser ==
  \A r \in Reqs : req[r].pc \in {"select", "provision"} => issued[req[r].state] = r

\* Unless the seeding failed (it is only logged), there is an administrator as
\* soon as there is any user: single sign-on cannot get in before the seed, and
\* leave a database that is not empty and has nobody to approve anything.
AdminBeforeUsers ==
  (\E u \in Names : Exists(u)) /\ ~seedLost => \E u \in Names : row[u].role = "admin"

\* With MFA on, the secret login checks is the one in the user's authenticator,
\* provided that the user's TOTP requests never overlapped and that no secret
\* was staged while MFA was on (MFASetup, MFAEnable, MFADisable each check and
\* update in separate statements): requests, failed statements and crashes in
\* any order do not lock a user out.
SerialEnrolmentIsSound ==
  \A u \in Names \ overlap :
    row[u].mfa => row[u].secret # NoSecret /\ row[u].secret = phone[u]

\* MFASetup's comment: it "generates (but does not enable) a new TOTP secret".
\* The secret that login checks should change only through MFAEnable.
StagedSecretNotLive ==
  [][\A u \in Names : row[u].mfa /\ row'[u].mfa => row'[u].secret = row[u].secret]_vars
=============================================================================
