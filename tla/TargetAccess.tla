---------------------------- MODULE TargetAccess ----------------------------
(***************************************************************************)
(* How a user's request becomes a connection to a target: just-in-time     *)
(* grants (internal/access, api/access.go), the server row and its stored  *)
(* credentials (api/servers.go, crypto/secrets.go), SSHProxy's way from    *)
(* the check to the authenticated client (proxy/ssh.go, api/sftp.go), the  *)
(* RDP proxy, trust-on-first-use host keys, and the certificate authority  *)
(* that a starting gateway loads or creates (cmd/gateway).  Every call     *)
(* works on a copy of the row that others may be changing, and the gateway *)
(* may crash and be started again with another SECRET_KEY.  One server.    *)
(***************************************************************************)
EXTENDS Naturals

CONSTANTS Calls,     \* HTTP requests that want a connection to the server
          Users, Admins,
          Requests,  \* rows of access_requests
          Hosts,     \* addresses that the row may name
          HostKeys,  \* SSH host keys that may answer there
          Secrets,   \* values of SECRET_KEY
          Creds,     \* passwords or private keys that an admin enters
          Kinds,     \* what a call wants: "shell", "files" (or a forward), "rdp"
          None,      \* no key, no credential, nobody
          Plain,     \* marks a credential stored by a build without encryption
          Bounds     \* a behaviour is bounded by one member: its starts of the
                     \* gateway (boots), of UpdateServer (updates) and of calls

ASSUME AdminsAssumption == Admins \subseteq Users
ASSUME NoneAssumption == None \notin HostKeys \cup Creds \cup Users
ASSUME BoundsAssumption == Bounds \subseteq [boots : Nat, updates : Nat, calls : Nat]

VARIABLES
  req,     \* access_requests: who asks, the status, and whether it has lapsed
  row,     \* the server: its existence, host, credential, ssh_host_key ...
  inUse,   \* some row of sessions refers to the server
  call,    \* each call: its progress, its copy of the row, what it has shown
  gw,      \* the gateway process: its phase, SECRET_KEY and CA key
  setting, \* settings.ssh_ca_key (0: none); a CA key is named by its boot
  boots,   \* starts of the gateway so far
  left,    \* what the bounds still allow
  pairs    \* history: every <<host, credential>> that the row has stood for

dbVars == <<row, inUse, pairs>>
bootVars == <<gw, setting, boots>>
vars == <<req, dbVars, call, bootVars, left>>

-----------------------------------------------------------------------------
(* crypto/secrets.go.  A stored credential is None or <<secret, credential>>. *)

Stored == {None} \cup ((Secrets \cup {Plain}) \X Creds)

Encrypt(secret, c) == IF c = None THEN None ELSE <<secret, c>>

\* Text without the version prefix is returned unchanged; a failure gives "".
Decrypt(secret, st) == IF st # None /\ st[1] \in {secret, Plain} THEN st[2] ELSE None

-----------------------------------------------------------------------------
\* connection_mode; anything but 'agent' is direct.
Modes == {"direct", "agent"}

NoRow == [state |-> "none", host |-> None, mode |-> "direct", cred |-> None,
          useCA |-> FALSE, pin |-> None]
NewCall == [pc |-> "idle", kind |-> None, user |-> None, row |-> NoRow,
            cred |-> None, addr |-> None, shown |-> None]
Over == [NewCall EXCEPT !.pc = "over"]
Down == [phase |-> "down", secret |-> None, ca |-> 0, fault |-> FALSE]

\* Where a connection to the server goes: to the host of its row, or to the
\* agent that is registered for it.
Route(r, host) == IF r.mode = "agent" THEN "agent" ELSE host

\* What the row stands for: an admin's choice of a route and a credential.
Pair(r) == <<Route(r, r.host), IF r.cred = None THEN None ELSE r.cred[2]>>

\* A fresh database, or one whose server was entered with an older build.
Init ==
  /\ req = [q \in Requests |-> [user |-> None, status |-> "none", lapsed |-> FALSE]]
  /\ \/ row = NoRow
     \/ \E h \in Hosts, m \in Modes, c \in Creds :
          row = [NoRow EXCEPT !.state = "present", !.host = h, !.mode = m, !.cred = <<Plain, c>>]
  /\ inUse = FALSE
  /\ call = [c \in Calls |-> NewCall]
  /\ gw = Down
  /\ setting = 0
  /\ boots = 0
  /\ left \in Bounds
  /\ pairs = {Pair(row)}

Serving == gw.phase = "up"
Spend(what) == left[what] > 0 /\ left' = [left EXCEPT ![what] = @ - 1]

-----------------------------------------------------------------------------
(* cmd/gateway: main and loadOrCreateCAKey (no SSH_CA_KEY is configured). *)

\* sshca.Generate: a key that no other start has made.
Generate == boots + 1

\* Mutant: a key is generated at every start.
BootSelectNothing ==
  /\ gw.phase = "down" /\ Spend("boots")
  /\ boots' = boots + 1
  /\ \E s \in Secrets :
       gw' = [phase |-> "insert", secret |-> s, ca |-> Generate, fault |-> FALSE]
  /\ UNCHANGED <<req, dbVars, call, setting>>

\* main up to the SELECT: a stored key is used; no row, and an error just the
\* same, lead to a new key.
BootSelect ==
  /\ gw.phase = "down" /\ Spend("boots")
  /\ boots' = boots + 1
  /\ \E s \in Secrets, err \in BOOLEAN :
       gw' = IF setting # 0 /\ ~err
             THEN [phase |-> "up", secret |-> s, ca |-> setting, fault |-> FALSE]
             ELSE [phase |-> "insert", secret |-> s, ca |-> Generate, fault |-> err]
  /\ UNCHANGED <<req, dbVars, call, setting>>

\* INSERT ... ON CONFLICT DO NOTHING; an error is logged.
BootInsert ==
  /\ gw.phase = "insert"
  /\ \E err \in BOOLEAN :
       /\ setting' = IF err \/ setting # 0 THEN setting ELSE gw.ca
       /\ gw' = [gw EXCEPT !.phase = "up", !.fault = @ \/ err]
  /\ UNCHANGED <<req, dbVars, call, boots, left>>

\* The process dies: its calls and its memory are gone.
Crash ==
  /\ gw.phase # "down"
  /\ gw' = Down
  /\ call' = [c \in Calls |-> IF call[c].pc = "idle" THEN NewCall
                              ELSE Over]
  /\ UNCHANGED <<req, dbVars, setting, boots, left>>

-----------------------------------------------------------------------------
(* api/access.go. *)

RequestAccess(q, u) ==
  /\ Serving /\ row.state = "present"   \* server_id is a foreign key
  /\ req[q].status = "none"
  /\ req' = [req EXCEPT ![q] = [user |-> u, status |-> "pending", lapsed |-> FALSE]]
  /\ UNCHANGED <<dbVars, call, bootVars, left>>

\* UPDATE ... WHERE id AND status = 'pending'; it runs for N minutes.
ApproveAccess(q) ==
  /\ Serving /\ req[q].status = "pending"
  /\ req' = [req EXCEPT ![q].status = "approved"]
  /\ UNCHANGED <<dbVars, call, bootVars, left>>

\* Mutant: a request can be denied after it was approved.
DenyAny(q) ==
  /\ Serving /\ req[q].status # "none"
  /\ req' = [req EXCEPT ![q].status = "denied"]
  /\ UNCHANGED <<dbVars, call, bootVars, left>>

DenyAccess(q) ==
  /\ Serving /\ req[q].status = "pending"
  /\ req' = [req EXCEPT ![q].status = "denied"]
  /\ UNCHANGED <<dbVars, call, bootVars, left>>

\* expires_at passes.
GrantLapses(q) ==
  /\ req[q].status = "approved" /\ ~req[q].lapsed
  /\ req' = [req EXCEPT ![q].lapsed = TRUE]
  /\ UNCHANGED <<dbVars, call, bootVars, left>>

HasActiveGrant(u) ==
  \E q \in Requests : req[q].user = u /\ req[q].status = "approved" /\ ~req[q].lapsed

-----------------------------------------------------------------------------
(* api/servers.go, by an admin. *)

SetRow(r) == row' = r /\ pairs' = pairs \cup {Pair(r)}

CreateServer ==
  /\ Serving /\ row.state = "none"
  /\ \E h \in Hosts, m \in Modes, c \in Creds \cup {None}, b \in BOOLEAN :
       SetRow([state |-> "present", host |-> h, mode |-> m, cred |-> Encrypt(gw.secret, c),
               useCA |-> b, pin |-> None])
  /\ UNCHANGED <<req, inUse, call, bootVars, left>>

\* Mutant: a new host gets a new pin.
UpdateUnpins ==
  /\ Serving /\ row.state = "present" /\ Spend("updates")
  /\ \E h \in Hosts : SetRow([row EXCEPT !.host = h,
                                         !.pin = IF h = row.host THEN @ ELSE None])
  /\ UNCHANGED <<req, inUse, call, bootVars>>

\* The host and the mode are replaced, a credential only if the body has one
\* ("" clears it); the pinned host key stays.
UpdateServer ==
  /\ Serving /\ row.state = "present" /\ Spend("updates")
  /\ \E h \in Hosts, m \in Modes, b \in BOOLEAN :
       \/ SetRow([row EXCEPT !.host = h, !.mode = m, !.useCA = b])
       \/ \E c \in Creds \cup {None} :
            SetRow([row EXCEPT !.host = h, !.mode = m, !.useCA = b,
                               !.cred = Encrypt(gw.secret, c)])
  /\ UNCHANGED <<req, inUse, call, bootVars>>

\* Refused once a session refers to the server; its requests go with it.
DeleteServer ==
  /\ Serving /\ row.state = "present" /\ ~inUse
  /\ row' = [NoRow EXCEPT !.state = "gone"]
  /\ req' = [q \in Requests |-> [user |-> None, status |-> "deleted", lapsed |-> FALSE]]
  /\ UNCHANGED <<inUse, pairs, call, bootVars, left>>

-----------------------------------------------------------------------------
(* A call: ServeHTTP, ServeForward, the SFTP handlers, RDPProxy.connect. *)

Go(c, from, to) == call[c].pc = from /\ call' = [call EXCEPT ![c] = to]

\* Admins bypass the check.
jitOK(u) == u \in Admins \/ HasActiveGrant(u)

\* The call begins with the check (JIT_REQUIRED is set); the RDP proxy has none.
Begin(c) ==
  /\ Serving /\ Spend("calls")
  /\ \E u \in Users, k \in Kinds :
       Go(c, "idle", [NewCall EXCEPT !.user = u, !.kind = k, !.pc =
            IF k = "rdp" \/ jitOK(u) THEN "load" ELSE "over"])
  /\ UNCHANGED <<req, dbVars, bootVars>>

\* loadServer, and the credentials are decrypted (RDP passes none on).
Load(c) ==
  /\ Go(c, "load",
        IF row.state # "present" THEN Over
        ELSE [call[c] EXCEPT !.pc = "dial", !.row = row, !.cred =
                IF call[c].kind = "rdp" THEN None ELSE Decrypt(gw.secret, row.cred)])
  /\ UNCHANGED <<req, dbVars, bootVars, left>>

\* Registry.Dial(srv.ID) reaches the agent that is registered at this moment, on
\* whatever machine it runs: another one, if the agent was moved since the row
\* was read.  The RDP proxy knows no agents.
Agents(c) == IF call[c].kind # "rdp" /\ call[c].row.mode = "agent" THEN Hosts ELSE {}

\* Mutant: the address is read afresh when it is dialled.
DialCurrent(c) ==
  /\ \/ \E a \in IF Agents(c) # {} THEN Agents(c) ELSE {row.host} :
          Go(c, "dial", [call[c] EXCEPT !.pc = "handshake", !.addr = a])
     \/ Go(c, "dial", Over)
  /\ UNCHANGED <<req, dbVars, bootVars, left>>

\* dial: an agent, or the address of the copy; or failure.
Dial(c) ==
  /\ \/ \E a \in IF Agents(c) # {} THEN Agents(c) ELSE {call[c].row.host} :
          Go(c, "dial", [call[c] EXCEPT !.pc = "handshake", !.addr = a])
     \/ Go(c, "dial", Over)
  /\ UNCHANGED <<req, dbVars, bootVars, left>>

\* newSSHClient has something to log in with: a certificate that the CA signs
\* for this login, or a credential.
HasAuth(c) == call[c].row.useCA \/ call[c].cred # None

\* Without either it gives up before the handshake.
NoCredentials(c) ==
  /\ call[c].kind # "rdp" /\ ~HasAuth(c)
  /\ Go(c, "handshake", Over)
  /\ UNCHANGED <<req, dbVars, bootVars, left>>

Shows(c, k) == [call[c] EXCEPT !.pc = "auth", !.shown = k]

\* hostKeyCallback with a pinned key: it matches or the call ends.
HostKeyKnown(c) ==
  /\ call[c].kind # "rdp" /\ HasAuth(c) /\ call[c].row.pin # None
  /\ \E k \in HostKeys :
       Go(c, "handshake", IF k = call[c].row.pin THEN Shows(c, k) ELSE Over)
  /\ UNCHANGED <<req, dbVars, bootVars, left>>

\* Without one the key is learnt.  The UPDATE does not look at what the row
\* holds by now, and its failure is only logged.
HostKeyLearnt(c) ==
  /\ call[c].kind # "rdp" /\ HasAuth(c) /\ call[c].row.pin = None
  /\ \E k \in HostKeys, saved \in BOOLEAN :
       /\ Go(c, "handshake", Shows(c, k))
       /\ row' = IF saved /\ row.state = "present" THEN [row EXCEPT !.pin = k] ELSE row
  /\ UNCHANGED <<req, inUse, pairs, bootVars, left>>

\* The target accepts or refuses the credential; a shell gets its session row
\* if the server still exists.
Authenticated(c) ==
  /\ \/ /\ Go(c, "auth", [call[c] EXCEPT !.pc = "live"])
        /\ inUse' = (inUse \/ (call[c].kind = "shell" /\ row.state = "present"))
     \/ Go(c, "auth", Over) /\ inUse' = inUse
  /\ UNCHANGED <<req, row, pairs, bootVars, left>>

\* RDPProxy.connect: guacd takes over, or the handshake with it fails.
GuacdConnected(c) ==
  /\ call[c].kind = "rdp"
  /\ \/ Go(c, "handshake", [call[c] EXCEPT !.pc = "live"])
     \/ Go(c, "handshake", Over)
  /\ UNCHANGED <<req, dbVars, bootVars, left>>

\* The session, the transfer or the forwarded connection ends.
Ends(c) ==
  /\ Go(c, "live", Over)
  /\ UNCHANGED <<req, dbVars, bootVars, left>>

-----------------------------------------------------------------------------
Gateway == BootSelect \/ BootInsert \/ Crash

Access(q) ==
  \/ \E u \in Users : RequestAccess(q, u)
  \/ ApproveAccess(q) \/ DenyAccess(q) \/ GrantLapses(q)

Connect(c) ==
  \/ Begin(c) \/ Load(c) \/ Dial(c) \/ NoCredentials(c) \/ HostKeyKnown(c)
  \/ HostKeyLearnt(c) \/ Authenticated(c) \/ GuacdConnected(c) \/ Ends(c)

Next ==
  \/ Gateway
  \/ \E q \in Requests : Access(q)
  \/ CreateServer \/ UpdateServer \/ DeleteServer
  \/ \E c \in Calls : Connect(c)

Spec == Init /\ [][Next]_vars

-----------------------------------------------------------------------------
Steps == {"idle", "load", "dial", "handshake", "auth", "live", "over"}
RequestRows == [user : Users \cup {None}, lapsed : BOOLEAN,
                status : {"none", "pending", "approved", "denied", "deleted"}]
ServerRows == [state : {"none", "present", "gone"}, host : Hosts \cup {None},
               mode : Modes, cred : Stored, useCA : BOOLEAN, pin : HostKeys \cup {None}]
CallStates == [pc : Steps, kind : Kinds \cup {None}, user : Users \cup {None},
               row : ServerRows, cred : Creds \cup {None}, addr : Hosts \cup {None},
               shown : HostKeys \cup {None}]

TypeOK ==
  /\ req \in [Requests -> RequestRows]
  /\ row \in ServerRows
  /\ inUse \in BOOLEAN /\ left \in [boots : Nat, updates : Nat, calls : Nat]
  /\ call \in [Calls -> CallStates]
  /\ gw \in [phase : {"down", "insert", "up"}, secret : Secrets \cup {None},
            ca : 0..boots, fault : BOOLEAN]
  /\ boots \in Nat /\ setting \in 0..boots

\* Who is on a target over SSH without being an admin was let in by a request
\* that an admin approved, and no other admin can have turned that decision
\* round in the meantime: between the check and the connection, or during it,
\* a grant may lapse but not be denied.
ApprovalStands ==
  \A c \in Calls :
    (/\ call[c].pc \notin {"idle", "over"} /\ call[c].kind # "rdp"
     /\ call[c].user \notin Admins /\ row.state = "present")
      => \E q \in Requests : req[q].user = call[c].user /\ req[q].status = "approved"

\* A grant is for once: what was denied or has lapsed never opens again.
NoGrantRevives ==
  [][\A q \in Requests :
       (req[q].status = "denied" \/ req[q].lapsed)
         => (req'[q].status # "approved" \/ req'[q].lapsed)]_vars

\* A pinned host key is replaced only by a first connection that had read the
\* row before the pin was there (two first connections may race); no update of
\* the server, no mismatch and no restart unpins it.
PinReplacedOnlyByRacer ==
  [][(row.pin # None /\ row'.state = "present" /\ row'.pin # row.pin) =>
       \E c \in Calls : /\ call[c].pc = "handshake" /\ call[c].row.pin = None
                        /\ call'[c].pc = "auth" /\ call'[c].shown = row'.pin]_vars

\* A credential that goes to a target is one that an admin entered, in clear,
\* and goes the way that the row named while it held that credential: in direct
\* mode to the address that stood beside it, in agent mode through the tunnel.
\* Neither an update that overtakes the call nor another SECRET_KEY mixes them.
\* (On which machine the tunnel ends is settled by the agent that is registered
\* when the call dials, which may be newer than the credential.)
CredentialMeantForHost ==
  \A c \in Calls : (call[c].shown # None /\ call[c].cred # None)
                     => <<Route(call[c].row, call[c].addr), call[c].cred>> \in pairs

\* Hosts that trust the CA key in the database accept the certificates of the
\* running gateway, after any number of restarts, unless the database failed
\* during this one's start.
StoredCASigns == (Serving /\ setting # 0 /\ ~gw.fault) => gw.ca = setting
=============================================================================
