------------------------- MODULE TargetAccessProofs -------------------------
(***************************************************************************)
(* Proofs about module TargetAccess, for any number of calls, users,       *)
(* requests, hosts, keys and credentials and for any number of restarts    *)
(* and updates.                                                            *)
(***************************************************************************)
EXTENDS TargetAccess, TLAPS

(* The inductive invariant, in parts that each theorem takes what it needs from. *)

\* A row that is not there has no pin, and the row stands for one of its pairs.
RowInv ==
  /\ row.state # "present" => row.pin = None
  /\ row.state = "present" => Pair(row) \in pairs

\* A call's copy of the row was the row once; the credential is that of the copy,
\* and so is the address in direct mode; nothing is shown before the handshake.
CopyInv(c) ==
  /\ call[c].pc \in {"idle", "load", "over"} => call[c].cred = None
  /\ call[c].cred # None => /\ call[c].row.cred # None
                            /\ call[c].cred = call[c].row.cred[2]
                            /\ Pair(call[c].row) \in pairs
  /\ call[c].pc \in {"idle", "load", "over", "dial", "handshake"} => call[c].shown = None
  /\ (call[c].pc \in {"handshake", "auth", "live"} /\ call[c].row.mode # "agent")
       => call[c].addr = call[c].row.host

\* A server that was deleted takes its requests with it and is not created again.
GrantInv(c) ==
  (/\ call[c].pc \notin {"idle", "over"} /\ call[c].kind # "rdp"
   /\ call[c].user \notin Admins /\ row.state # "gone")
    => \E q \in Requests : req[q].user = call[c].user /\ req[q].status = "approved"

\* Only what was approved can lapse.
LapseInv == \A q \in Requests : req[q].lapsed => req[q].status = "approved"

\* A gateway that generates a key without a database error has found none.
CAInv == /\ (gw.phase = "insert" /\ ~gw.fault) => setting = 0
         /\ StoredCASigns

\* A gateway that has been started has a SECRET_KEY.
SecretInv == gw.phase # "down" => gw.secret \in Secrets

Inv == /\ TypeOK /\ SecretInv /\ RowInv /\ LapseInv /\ CAInv
       /\ \A c \in Calls : CopyInv(c) /\ GrantInv(c)

-----------------------------------------------------------------------------
\* What crypto/secrets.go stores and gives back.
LEMMA Secrecy ==
  ASSUME NEW secret \in Secrets \cup {None}, NEW c \in Creds \cup {None}, NEW st \in Stored
  PROVE  /\ secret \in Secrets => Encrypt(secret, c) \in Stored
         /\ Decrypt(secret, st) \in Creds \cup {None}
         /\ Decrypt(secret, st) # None => st # None /\ Decrypt(secret, st) = st[2]
BY DEF Encrypt, Decrypt, Stored

\* The records of the initial state.
LEMMA Records ==
  /\ NoRow \in ServerRows /\ NewCall \in CallStates /\ Over \in CallStates
  /\ Over.pc = "over" /\ Over.cred = None /\ Over.shown = None
  /\ NewCall.pc = "idle" /\ NewCall.cred = None /\ NewCall.shown = None
<1>1. NoRow \in ServerRows
  BY DEF NoRow, ServerRows, Stored, Modes
<1>2. NewCall \in CallStates
  BY <1>1 DEF NewCall, CallStates, Steps
<1> QED BY <1>1, <1>2 DEF Over, NewCall, CallStates, Steps

\* One step keeps the types.
LEMMA TypeStep ==
  ASSUME TypeOK, SecretInv, [Next]_vars
  PROVE  TypeOK' /\ SecretInv'
<1>1. CASE BootSelect
  <2>1. PICK s \in Secrets, err \in BOOLEAN :
          gw' = IF setting # 0 /\ ~err
                THEN [phase |-> "up", secret |-> s, ca |-> setting, fault |-> FALSE]
                ELSE [phase |-> "insert", secret |-> s, ca |-> boots + 1, fault |-> err]
    BY <1>1 DEF BootSelect, Generate
  <2>2. boots' = boots + 1 /\ boots \in Nat /\ setting \in 0..boots /\ setting' = setting
    BY <1>1 DEF BootSelect, TypeOK
  <2>3. boots' \in Nat /\ setting \in 0..boots' /\ boots + 1 \in 0..boots'
    BY <2>2
  <2>4. gw' \in [phase : {"down", "insert", "up"}, secret : Secrets \cup {None},
               ca : 0..boots', fault : BOOLEAN] /\ gw'.secret \in Secrets
    BY <2>1, <2>3
  <2>5. left' \in [boots : Nat, updates : Nat, calls : Nat]
    BY <1>1 DEF BootSelect, Spend, TypeOK
  <2> QED BY <1>1, <2>2, <2>3, <2>4, <2>5 DEF BootSelect, dbVars, TypeOK, SecretInv
<1>2. CASE BootInsert
  <2>1. PICK err \in BOOLEAN : /\ setting' = IF err \/ setting # 0 THEN setting ELSE gw.ca
                               /\ gw' = [gw EXCEPT !.phase = "up", !.fault = gw.fault \/ err]
    BY <1>2 DEF BootInsert
  <2>2. gw' \in [phase : {"down", "insert", "up"}, secret : Secrets \cup {None},
               ca : 0..boots, fault : BOOLEAN] /\ setting' \in 0..boots /\ gw'.secret = gw.secret
    BY <2>1 DEF TypeOK
  <2> QED BY <1>2, <2>2 DEF BootInsert, dbVars, TypeOK, SecretInv
<1>3. CASE Crash
  BY <1>3, Records DEF Crash, dbVars, Down, TypeOK, SecretInv
<1>4. ASSUME NEW q \in Requests, Access(q) PROVE TypeOK' /\ SecretInv'
  <2>1. req' \in [Requests -> RequestRows]
    <3>1. req \in [Requests -> RequestRows] /\ req[q] \in RequestRows
      BY DEF TypeOK
    <3>2. CASE \E u \in Users : RequestAccess(q, u)
      BY <3>1, <3>2 DEF RequestAccess, RequestRows
    <3>3. CASE ApproveAccess(q)
      BY <3>1, <3>3 DEF ApproveAccess, RequestRows
    <3>4. CASE DenyAccess(q)
      BY <3>1, <3>4 DEF DenyAccess, RequestRows
    <3>5. CASE GrantLapses(q)
      BY <3>1, <3>5 DEF GrantLapses, RequestRows
    <3> QED BY <1>4, <3>2, <3>3, <3>4, <3>5 DEF Access
  <2> QED BY <1>4, <2>1 DEF Access, RequestAccess, ApproveAccess, DenyAccess, GrantLapses,
                            dbVars, bootVars, TypeOK, SecretInv
<1>5. CASE CreateServer
  <2>1. PICK h \in Hosts, m \in Modes, c \in Creds \cup {None}, b \in BOOLEAN :
          row' = [state |-> "present", host |-> h, mode |-> m, cred |-> Encrypt(gw.secret, c),
                  useCA |-> b, pin |-> None]
    BY <1>5 DEF CreateServer, SetRow
  <2>2. Encrypt(gw.secret, c) \in Stored
    BY <1>5, Secrecy DEF CreateServer, Serving, TypeOK, SecretInv, Encrypt, Stored
  <2>3. row' \in ServerRows
    BY <2>1, <2>2 DEF ServerRows
  <2> QED BY <1>5, <2>3 DEF CreateServer, bootVars, TypeOK, SecretInv
<1>6. CASE UpdateServer
  <2>1. PICK h \in Hosts, m \in Modes, b \in BOOLEAN, c \in Creds \cup {None} :
          \/ row' = [row EXCEPT !.host = h, !.mode = m, !.useCA = b]
          \/ row' = [row EXCEPT !.host = h, !.mode = m, !.useCA = b, !.cred = Encrypt(gw.secret, c)]
    BY <1>6 DEF UpdateServer, SetRow
  <2>2. Encrypt(gw.secret, c) \in Stored
    BY <1>6, Secrecy DEF UpdateServer, Serving, TypeOK, SecretInv, Encrypt, Stored
  <2>3. row' \in ServerRows
    BY <2>1, <2>2 DEF ServerRows, TypeOK
  <2>4. left' \in [boots : Nat, updates : Nat, calls : Nat]
    <3>1. left["updates"] > 0 /\ left' = [left EXCEPT !["updates"] = left["updates"] - 1]
      BY <1>6 DEF UpdateServer, Spend
    <3> QED BY <3>1 DEF TypeOK
  <2> QED BY <1>6, <2>3, <2>4 DEF UpdateServer, bootVars, TypeOK, SecretInv
<1>7. CASE DeleteServer
  <2>1. row' \in ServerRows
    BY <1>7, Records DEF DeleteServer, NoRow, ServerRows, Modes
  <2>2. req' \in [Requests -> RequestRows]
    BY <1>7 DEF DeleteServer, RequestRows
  <2> QED BY <1>7, <2>1, <2>2 DEF DeleteServer, bootVars, TypeOK, SecretInv
<1>8. ASSUME NEW c \in Calls, Connect(c) PROVE TypeOK' /\ SecretInv'
  <2>1. call[c] \in CallStates /\ row \in ServerRows /\ gw.secret \in Secrets \cup {None}
    BY DEF TypeOK
  <2>2. \E to \in CallStates : call' = [call EXCEPT ![c] = to]
    <3>1. CASE Begin(c)
      BY <3>1, Records DEF Begin, Go, NewCall, CallStates, Steps
    <3>2. CASE Load(c)
      <4>1. Decrypt(gw.secret, row.cred) \in Creds \cup {None}
        <5>1. row.cred \in Stored
          BY <2>1 DEF ServerRows
        <5>2. \A c2 \in Creds \cup {None} : Decrypt(gw.secret, row.cred) \in Creds \cup {None}
          BY <2>1, <5>1, Secrecy
        <5> QED BY <5>2
      <4> QED BY <2>1, <3>2, <4>1, Records DEF Load, Go, CallStates, Steps
    <3>3. CASE Dial(c)
      <4>1. call[c].row.host \in Hosts \cup {None} /\ Agents(c) \subseteq Hosts
        BY <2>1 DEF CallStates, ServerRows, Agents
      <4>2. \E a \in Hosts \cup {None} :
              \/ call' = [call EXCEPT ![c] = [call[c] EXCEPT !.pc = "handshake", !.addr = a]]
              \/ call' = [call EXCEPT ![c] = Over]
        BY <3>3, <4>1 DEF Dial, Go
      <4> QED BY <2>1, <4>2, Records DEF CallStates, Steps
    <3>4. CASE NoCredentials(c) \/ Ends(c)
      BY <3>4, Records DEF NoCredentials, Ends, Go
    <3>5. CASE HostKeyKnown(c) \/ HostKeyLearnt(c)
      BY <2>1, <3>5, Records DEF HostKeyKnown, HostKeyLearnt, Go, Shows, CallStates, Steps
    <3>6. CASE Authenticated(c) \/ GuacdConnected(c)
      BY <2>1, <3>6, Records DEF Authenticated, GuacdConnected, Go, CallStates, Steps
    <3> QED BY <1>8, <3>1, <3>2, <3>3, <3>4, <3>5, <3>6 DEF Connect
  <2>3. call' \in [Calls -> CallStates]
    BY <2>2 DEF TypeOK
  <2>4. left' \in [boots : Nat, updates : Nat, calls : Nat]
    <3>1. CASE Begin(c)
      <4>1. left["calls"] > 0 /\ left' = [left EXCEPT !["calls"] = left["calls"] - 1]
        BY <3>1 DEF Begin, Spend
      <4> QED BY <4>1 DEF TypeOK
    <3>2. CASE ~Begin(c)
      BY <1>8, <3>2 DEF Connect, Load, Dial, NoCredentials, HostKeyKnown, HostKeyLearnt,
                        Authenticated, GuacdConnected, Ends, TypeOK
    <3> QED BY <3>1, <3>2
  <2>5. /\ req' = req /\ gw' = gw /\ setting' = setting /\ boots' = boots
        /\ inUse' \in BOOLEAN /\ row' \in ServerRows
    BY <1>8, <2>1 DEF Connect, Begin, Load, Dial, NoCredentials, HostKeyKnown, HostKeyLearnt,
                      Authenticated, GuacdConnected, Ends, dbVars, bootVars, TypeOK, ServerRows
  <2> QED BY <2>3, <2>4, <2>5 DEF TypeOK, SecretInv
<1>9. CASE UNCHANGED vars
  BY <1>9 DEF vars, dbVars, bootVars, TypeOK, SecretInv
<1> QED BY <1>1, <1>2, <1>3, <1>4, <1>5, <1>6, <1>7, <1>8, <1>9 DEF Next, Gateway

\* One step keeps the parts of the invariant that speak of the row and of the
\* requests.
LEMMA RowStep ==
  ASSUME Inv, [Next]_vars
  PROVE  RowInv' /\ LapseInv' /\ pairs \subseteq pairs' /\ (row.state = "gone" => row'.state = "gone")
<1>1. TypeOK /\ RowInv /\ LapseInv
  BY DEF Inv
<1>2. CASE row' = row /\ pairs' = pairs /\ req' = req
  BY <1>1, <1>2 DEF RowInv, LapseInv, Pair, Route
<1>3. CASE CreateServer
  <2>1. PICK r : r.pin = None /\ r.state = "present" /\ row' = r /\ pairs' = pairs \cup {Pair(r)}
    BY <1>3 DEF CreateServer, SetRow
  <2> QED BY <1>1, <1>3, <2>1 DEF CreateServer, RowInv, LapseInv, Pair, Route
<1>4. CASE UpdateServer
  <2>1. PICK r : r.state = row.state /\ row' = r /\ pairs' = pairs \cup {Pair(r)}
    BY <1>1, <1>4 DEF UpdateServer, SetRow, TypeOK, ServerRows
  <2> QED BY <1>1, <1>4, <2>1 DEF UpdateServer, RowInv, LapseInv, Pair, Route
<1>5. CASE DeleteServer
  BY <1>1, <1>5 DEF DeleteServer, RowInv, LapseInv, NoRow
<1>6. ASSUME NEW q \in Requests, Access(q)
      PROVE  LapseInv' /\ row' = row /\ pairs' = pairs
  <2>1. row' = row /\ pairs' = pairs
    BY <1>6 DEF Access, RequestAccess, ApproveAccess, DenyAccess, GrantLapses, dbVars
  <2>2. /\ req'[q].lapsed => req'[q].status = "approved"
        /\ \A p \in Requests : p # q => req'[p] = req[p]
    <3>1. /\ req \in [Requests -> RequestRows] /\ req[q] \in RequestRows
          /\ req[q].lapsed => req[q].status = "approved"
      BY <1>1 DEF TypeOK, LapseInv
    <3>2. CASE \E u \in Users : RequestAccess(q, u)
      BY <3>1, <3>2 DEF RequestAccess
    <3>3. CASE ApproveAccess(q)
      BY <3>1, <3>3 DEF ApproveAccess, RequestRows
    <3>4. CASE DenyAccess(q)
      BY <3>1, <3>4 DEF DenyAccess, RequestRows
    <3>5. CASE GrantLapses(q)
      BY <3>1, <3>5 DEF GrantLapses, RequestRows
    <3> QED BY <1>6, <3>2, <3>3, <3>4, <3>5 DEF Access
  <2>3. LapseInv'
    BY <1>1, <2>2 DEF LapseInv
  <2> QED BY <2>1, <2>3
<1>7. ASSUME NEW c \in Calls, HostKeyLearnt(c)
      PROVE  /\ req' = req /\ pairs' = pairs
             /\ row' = row \/ \E k : row.state = "present" /\ row' = [row EXCEPT !.pin = k]
  BY <1>7 DEF HostKeyLearnt
<1>8. ASSUME NEW k, row.state = "present", row' = [row EXCEPT !.pin = k], pairs' = pairs, req' = req
      PROVE  RowInv' /\ LapseInv' /\ row'.state = row.state
  BY <1>1, <1>8 DEF TypeOK, ServerRows, RowInv, LapseInv, Pair, Route
<1>9. ASSUME NEW c \in Calls, Connect(c)
      PROVE  HostKeyLearnt(c) \/ (row' = row /\ pairs' = pairs /\ req' = req)
  BY <1>9 DEF Connect, Begin, Load, Dial, NoCredentials, HostKeyKnown, Authenticated,
              GuacdConnected, Ends, dbVars
<1>10. ASSUME Gateway \/ UNCHANGED vars
       PROVE  row' = row /\ pairs' = pairs /\ req' = req
  BY <1>10 DEF Gateway, BootSelect, BootInsert, Crash, vars, dbVars
<1>11. CASE \E q \in Requests : Access(q)
  BY <1>1, <1>6, <1>11 DEF RowInv, Pair, Route
<1>12. CASE \E c \in Calls : Connect(c)
  BY <1>2, <1>7, <1>8, <1>9, <1>12
<1> QED BY <1>2, <1>3, <1>4, <1>5, <1>10, <1>11, <1>12 DEF Next

\* ... of the gateway's key,
LEMMA CAStep ==
  ASSUME Inv, [Next]_vars
  PROVE  CAInv'
<1>1. TypeOK /\ CAInv
  BY DEF Inv
<1>2. CASE BootSelect
  <2>1. PICK s \in Secrets, err \in BOOLEAN :
          gw' = IF setting # 0 /\ ~err
                THEN [phase |-> "up", secret |-> s, ca |-> setting, fault |-> FALSE]
                ELSE [phase |-> "insert", secret |-> s, ca |-> Generate, fault |-> err]
    BY <1>2 DEF BootSelect
  <2> QED BY <1>2, <2>1 DEF BootSelect, CAInv, StoredCASigns, Serving
<1>3. CASE BootInsert
  <2>1. PICK err \in BOOLEAN : /\ setting' = IF err \/ setting # 0 THEN setting ELSE gw.ca
                               /\ gw' = [gw EXCEPT !.phase = "up", !.fault = gw.fault \/ err]
    BY <1>3 DEF BootInsert
  <2> QED BY <1>1, <1>3, <2>1 DEF BootInsert, CAInv, StoredCASigns, Serving, TypeOK
<1>4. CASE Crash
  BY <1>4 DEF Crash, Down, CAInv, StoredCASigns, Serving
<1>5. CASE gw' = gw /\ setting' = setting
  BY <1>1, <1>5 DEF CAInv, StoredCASigns, Serving
<1>6. ASSUME (\E q \in Requests : Access(q)) \/ CreateServer \/ UpdateServer \/ DeleteServer
             \/ (\E c \in Calls : Connect(c)) \/ UNCHANGED vars
      PROVE  gw' = gw /\ setting' = setting
  BY <1>6 DEF Access, RequestAccess, ApproveAccess, DenyAccess, GrantLapses, CreateServer,
              UpdateServer, DeleteServer, Connect, Begin, Load, Dial, NoCredentials, HostKeyKnown,
              HostKeyLearnt, Authenticated, GuacdConnected, Ends, vars, bootVars
<1> QED BY <1>2, <1>3, <1>4, <1>5, <1>6 DEF Next, Gateway

\* ... of the copies that the calls work on,
LEMMA CopyStep ==
  ASSUME Inv, [Next]_vars, NEW d \in Calls
  PROVE  CopyInv(d)'
<1>1. /\ TypeOK /\ RowInv /\ CopyInv(d) /\ pairs \subseteq pairs'
      /\ call \in [Calls -> CallStates] /\ row \in ServerRows
  BY RowStep DEF Inv, TypeOK
<1>2. CASE call'[d] = call[d]
  BY <1>1, <1>2 DEF CopyInv, Pair, Route
<1>3. CASE call'[d] = Over \/ call'[d] = NewCall
  BY <1>3, Records DEF CopyInv
<1>4. CASE Crash
  BY <1>3, <1>4 DEF Crash
<1>5. ASSUME NEW c \in Calls, Connect(c), c # d PROVE call'[d] = call[d]
  BY <1>1, <1>5 DEF Connect, Begin, Load, Dial, NoCredentials, HostKeyKnown, HostKeyLearnt,
                    Authenticated, GuacdConnected, Ends, Go
<1>6. CASE Begin(d)
  <2>1. call'[d].cred = None /\ call'[d].shown = None /\ call'[d].pc \in {"load", "over"}
    BY <1>1, <1>6 DEF Begin, Go, NewCall
  <2> QED BY <2>1 DEF CopyInv
<1>7. CASE Load(d)
  <2>1. CASE row.state # "present"
    BY <1>1, <1>3, <1>7, <2>1 DEF Load, Go
  <2>2. CASE row.state = "present"
    <3>1. call[d].pc = "load" /\ call[d] \in CallStates
      BY <1>1, <1>7 DEF Load, Go
    <3>2. call'[d] = [call[d] EXCEPT !.pc = "dial", !.row = row, !.cred =
                        IF call[d].kind = "rdp" THEN None ELSE Decrypt(gw.secret, row.cred)]
      BY <1>1, <1>7, <2>2 DEF Load, Go
    <3>3. /\ call'[d].pc = "dial" /\ call'[d].row = row /\ call'[d].shown = call[d].shown
          /\ call'[d].cred # None => call'[d].cred = Decrypt(gw.secret, row.cred)
      BY <3>1, <3>2 DEF CallStates
    <3>4. call'[d].cred # None => row.cred # None /\ call'[d].cred = row.cred[2]
      BY <3>3 DEF Decrypt
    <3> QED BY <1>1, <2>2, <3>1, <3>3, <3>4 DEF CopyInv, RowInv, Pair, Route
  <2> QED BY <2>1, <2>2
<1>8. ASSUME NEW pc, NEW addr, NEW shown,
             /\ call'[d].pc = pc /\ call'[d].addr = addr /\ call'[d].shown = shown
             /\ call'[d].row = call[d].row /\ call'[d].cred = call[d].cred,
             pc \in {"handshake", "auth", "live"},
             addr = call[d].row.host \/ call[d].row.mode = "agent",
             pc = "handshake" => shown = None
      PROVE  CopyInv(d)'
  BY <1>1, <1>8 DEF CopyInv, Pair, Route
<1>9. CASE Dial(d)
  <2>1. CASE Go(d, "dial", Over)
    BY <1>1, <1>3, <2>1 DEF Go
  <2>2. CASE ~Go(d, "dial", Over)
    <3>1. PICK a \in IF Agents(d) # {} THEN Agents(d) ELSE {call[d].row.host} :
            Go(d, "dial", [call[d] EXCEPT !.pc = "handshake", !.addr = a])
      BY <1>9, <2>2 DEF Dial
    <3>2. /\ call[d].pc = "dial" /\ call[d] \in CallStates
          /\ call'[d] = [call[d] EXCEPT !.pc = "handshake", !.addr = a]
      BY <1>1, <3>1 DEF Go
    <3>3. a = call[d].row.host \/ call[d].row.mode = "agent"
      BY <3>1 DEF Agents
    <3> QED BY <1>1, <1>8, <3>2, <3>3 DEF CallStates, CopyInv
  <2> QED BY <2>1, <2>2
<1>10. CASE NoCredentials(d) \/ Ends(d)
  BY <1>1, <1>3, <1>10 DEF NoCredentials, Ends, Go
<1>11. CASE HostKeyKnown(d) \/ HostKeyLearnt(d)
  <2>1. CASE call'[d] = Over
    BY <1>3, <2>1
  <2>2. CASE call'[d] # Over
    <3>1. PICK k \in HostKeys : call[d].pc = "handshake" /\ call'[d] = Shows(d, k)
      BY <1>1, <1>11, <2>2 DEF HostKeyKnown, HostKeyLearnt, Go
    <3>2. call[d] \in CallStates
      BY <1>1
    <3> QED BY <1>1, <1>8, <3>1, <3>2 DEF Shows, CallStates, CopyInv
  <2> QED BY <2>1, <2>2
<1>12. CASE Authenticated(d) \/ GuacdConnected(d)
  <2>1. CASE call'[d] = Over
    BY <1>3, <2>1
  <2>2. CASE call'[d] # Over
    <3>1. call[d].pc \in {"handshake", "auth"} /\ call'[d] = [call[d] EXCEPT !.pc = "live"]
      BY <1>1, <1>12, <2>2 DEF Authenticated, GuacdConnected, Go
    <3>2. call[d] \in CallStates
      BY <1>1
    <3> QED BY <1>1, <1>8, <3>1, <3>2 DEF CallStates, CopyInv
  <2> QED BY <2>1, <2>2
<1>13. ASSUME BootSelect \/ BootInsert \/ (\E q \in Requests : Access(q))
              \/ CreateServer \/ UpdateServer \/ DeleteServer \/ UNCHANGED vars
       PROVE  call' = call
  BY <1>13 DEF BootSelect, BootInsert, Access, RequestAccess, ApproveAccess, DenyAccess,
               GrantLapses, CreateServer, UpdateServer, DeleteServer, vars
<1> QED BY <1>2, <1>4, <1>5, <1>6, <1>7, <1>9, <1>10, <1>11, <1>12, <1>13 DEF Next, Gateway, Connect

\* ... and of the approvals behind them.
LEMMA GrantStep ==
  ASSUME Inv, [Next]_vars, NEW d \in Calls
  PROVE  GrantInv(d)'
<1>1. /\ TypeOK /\ GrantInv(d) /\ (row'.state # "gone" => row.state # "gone")
      /\ call \in [Calls -> CallStates] /\ req \in [Requests -> RequestRows]
  BY RowStep DEF Inv, TypeOK
<1>2. row'.state # "gone" =>
        \A q \in Requests : req[q].status = "approved" =>
          req'[q].user = req[q].user /\ req'[q].status = "approved"
  <2>1. CASE DeleteServer
    BY <2>1 DEF DeleteServer, NoRow
  <2>2. ASSUME NEW p \in Requests, Access(p)
        PROVE  \A q \in Requests : req[q].status = "approved" =>
                 req'[q].user = req[q].user /\ req'[q].status = "approved"
    <3>1. /\ \A q \in Requests : q # p => req'[q] = req[q]
          /\ req[p].status = "approved" =>
               req'[p].user = req[p].user /\ req'[p].status = "approved"
      <4>1. CASE \E u \in Users : RequestAccess(p, u)
        BY <1>1, <4>1 DEF RequestAccess
      <4>2. CASE ApproveAccess(p)
        BY <1>1, <4>2 DEF ApproveAccess
      <4>3. CASE DenyAccess(p)
        BY <1>1, <4>3 DEF DenyAccess
      <4>4. CASE GrantLapses(p)
        BY <1>1, <4>4 DEF GrantLapses, RequestRows
      <4> QED BY <2>2, <4>1, <4>2, <4>3, <4>4 DEF Access
    <3> QED BY <3>1
  <2>3. ASSUME Gateway \/ CreateServer \/ UpdateServer \/ (\E c \in Calls : Connect(c)) \/ UNCHANGED vars
        PROVE  req' = req
    BY <2>3 DEF Gateway, BootSelect, BootInsert, Crash, CreateServer, UpdateServer, Connect, Begin,
                Load, Dial, NoCredentials, HostKeyKnown, HostKeyLearnt, Authenticated,
                GuacdConnected, Ends, vars
  <2> QED BY <2>1, <2>2, <2>3 DEF Next
<1>3. \/ call'[d].pc \in {"idle", "over"}
      \/ /\ call'[d].user = call[d].user /\ call'[d].kind = call[d].kind
         /\ call[d].pc \notin {"idle", "over"}
      \/ call'[d] = call[d]
      \/ Begin(d)
  <2>1. CASE Crash
    BY <1>1, <2>1, Records DEF Crash
  <2>2. ASSUME NEW c \in Calls, Connect(c), c # d PROVE call'[d] = call[d]
    BY <1>1, <2>2 DEF Connect, Begin, Load, Dial, NoCredentials, HostKeyKnown, HostKeyLearnt,
                      Authenticated, GuacdConnected, Ends, Go
  <2>3. CASE Connect(d)
    <3>1. call[d] \in CallStates
      BY <1>1
    <3>2. CASE Load(d)
      BY <1>1, <3>1, <3>2, Records DEF Load, Go, CallStates
    <3>3. CASE Dial(d)
      <4>1. /\ call[d].pc = "dial"
            /\ \/ call'[d] = Over
               \/ \E a : call'[d] = [call[d] EXCEPT !.pc = "handshake", !.addr = a]
        BY <1>1, <3>3 DEF Dial, Go
      <4> QED BY <3>1, <4>1, Records DEF CallStates
    <3>4. CASE NoCredentials(d) \/ Ends(d)
      BY <1>1, <3>4, Records DEF NoCredentials, Ends, Go
    <3>5. CASE HostKeyKnown(d) \/ HostKeyLearnt(d)
      <4>1. PICK k \in HostKeys : /\ call[d].pc = "handshake"
                                  /\ call'[d] = Over \/ call'[d] = Shows(d, k)
        BY <1>1, <3>5 DEF HostKeyKnown, HostKeyLearnt, Go
      <4> QED BY <3>1, <4>1, Records DEF Shows, CallStates
    <3>6. CASE Authenticated(d) \/ GuacdConnected(d)
      BY <1>1, <3>1, <3>6, Records DEF Authenticated, GuacdConnected, Go, CallStates
    <3> QED BY <2>3, <3>2, <3>3, <3>4, <3>5, <3>6 DEF Connect
  <2>4. ASSUME BootSelect \/ BootInsert \/ (\E q \in Requests : Access(q))
               \/ CreateServer \/ UpdateServer \/ DeleteServer \/ UNCHANGED vars
        PROVE  call' = call
    BY <2>4 DEF BootSelect, BootInsert, Access, RequestAccess, ApproveAccess, DenyAccess,
                GrantLapses, CreateServer, UpdateServer, DeleteServer, vars
  <2> QED BY <2>1, <2>2, <2>3, <2>4 DEF Next, Gateway
<1>4. CASE Begin(d)
  <2>1. PICK u \in Users, k \in Kinds :
          call'[d] = [NewCall EXCEPT !.user = u, !.kind = k, !.pc =
                        IF k = "rdp" \/ jitOK(u) THEN "load" ELSE "over"]
    BY <1>1, <1>4 DEF Begin, Go
  <2>2. /\ call'[d].user = u /\ call'[d].kind = k
        /\ call'[d].pc = "over" \/ k = "rdp" \/ jitOK(u)
    BY <2>1 DEF NewCall
  <2>3. req' = req
    BY <1>4 DEF Begin
  <2> QED BY <2>2, <2>3 DEF GrantInv, jitOK, HasActiveGrant
<1>5. CASE call'[d].pc \in {"idle", "over"}
  BY <1>5 DEF GrantInv
<1>6. CASE \/ /\ call'[d].user = call[d].user /\ call'[d].kind = call[d].kind
              /\ call[d].pc \notin {"idle", "over"}
           \/ call'[d] = call[d]
  <2> SUFFICES ASSUME call'[d].pc \notin {"idle", "over"}, call'[d].kind # "rdp",
                      call'[d].user \notin Admins, row'.state # "gone"
               PROVE  \E q \in Requests : req'[q].user = call'[d].user /\ req'[q].status = "approved"
    BY DEF GrantInv
  <2>1. PICK q \in Requests : req[q].user = call[d].user /\ req[q].status = "approved"
    BY <1>1, <1>6 DEF GrantInv
  <2> QED BY <1>2, <1>6, <2>1
<1> QED BY <1>3, <1>4, <1>5, <1>6

-----------------------------------------------------------------------------
\* The invariant holds in a fresh database and in one of an older build.
LEMMA InitInv == Init => Inv
<1> SUFFICES ASSUME Init PROVE Inv
  OBVIOUS
<1>1. row \in ServerRows /\ Pair(row) \in pairs /\ row.pin = None
  <2>1. CASE row = NoRow
    BY <2>1, Records DEF Init, NoRow
  <2>2. CASE \E h \in Hosts, m \in Modes, c \in Creds :
               row = [NoRow EXCEPT !.state = "present", !.host = h, !.mode = m, !.cred = <<Plain, c>>]
    <3>1. PICK h \in Hosts, m \in Modes, c \in Creds :
            row = [NoRow EXCEPT !.state = "present", !.host = h, !.mode = m, !.cred = <<Plain, c>>]
      BY <2>2
    <3>2. row = [state |-> "present", host |-> h, mode |-> m, cred |-> <<Plain, c>>, useCA |-> FALSE, pin |-> None]
      BY <3>1 DEF NoRow
    <3>3. <<Plain, c>> \in Stored
      BY DEF Stored
    <3>4. row \in ServerRows /\ row.pin = None
      BY <3>2, <3>3 DEF ServerRows
    <3> QED BY <3>4 DEF Init
  <2> QED BY <2>1, <2>2 DEF Init
<1>2. TypeOK
  <2>1. left \in [boots : Nat, updates : Nat, calls : Nat]
    BY BoundsAssumption DEF Init
  <2>2. req \in [Requests -> RequestRows] /\ call \in [Calls -> CallStates]
    BY Records DEF Init, RequestRows
  <2>3. /\ gw \in [phase : {"down", "insert", "up"}, secret : Secrets \cup {None},
                  ca : 0..boots, fault : BOOLEAN]
        /\ boots \in Nat /\ setting \in 0..boots /\ inUse \in BOOLEAN
    <3>1. boots = 0 /\ setting = 0
      BY DEF Init
    <3>2. gw = [phase |-> "down", secret |-> None, ca |-> 0, fault |-> FALSE]
      BY DEF Init, Down
    <3>3. inUse \in BOOLEAN
      BY DEF Init
    <3>4. 0 \in Nat /\ 0 \in 0..0
      OBVIOUS
    <3> QED BY <3>1, <3>2, <3>3, <3>4
  <2> QED BY <1>1, <2>1, <2>2, <2>3 DEF TypeOK
<1>3. LapseInv /\ CAInv /\ SecretInv
  BY DEF Init, Down, LapseInv, CAInv, StoredCASigns, Serving, SecretInv
<1>4. ASSUME NEW c \in Calls PROVE CopyInv(c) /\ GrantInv(c)
  BY Records DEF Init, CopyInv, GrantInv
<1> QED BY <1>1, <1>2, <1>3, <1>4 DEF Inv, RowInv

\* Every step keeps it.
LEMMA StepInv == Inv /\ [Next]_vars => Inv'
BY TypeStep, RowStep, CAStep, CopyStep, GrantStep DEF Inv

\* Rows, grants, calls and the gateway keep their types: in particular every CA
\* key in use or in the database was made by one of the starts so far.
THEOREM TypeCorrect == Spec => []TypeOK
<1>1. Inv => TypeOK
  BY DEF Inv
<1> QED BY <1>1, InitInv, StepInv, PTL DEF Spec

\* internal/access, proxy/ssh.go: whoever is on a target over SSH without being
\* an admin has a request that was approved and that nobody turned round since,
\* with any interleaving of calls, decisions, deletions and restarts.
THEOREM ConnectionsStayApproved == Spec => []ApprovalStands
<1>1. Inv => ApprovalStands
  BY DEF Inv, GrantInv, ApprovalStands
<1> QED BY <1>1, InitInv, StepInv, PTL DEF Spec

\* proxy/ssh.go, api/servers.go, crypto/secrets.go: a credential is only shown
\* where the row sent it while it held that credential, that is to the address
\* beside it in direct mode and, in agent mode, to whatever agent is registered
\* for the server when the call dials.
THEOREM CredentialsGoWhereMeant == Spec => []CredentialMeantForHost
<1>1. Inv => CredentialMeantForHost
  <2> SUFFICES ASSUME Inv, NEW c \in Calls, call[c].shown # None, call[c].cred # None
               PROVE  <<Route(call[c].row, call[c].addr), call[c].cred>> \in pairs
    BY DEF CredentialMeantForHost
  <2>1. CopyInv(c) /\ call[c] \in CallStates
    BY DEF Inv, TypeOK
  <2>2. call[c].pc \in {"auth", "live"}
    BY <2>1 DEF CopyInv, CallStates, Steps
  <2> QED BY <2>1, <2>2 DEF CopyInv, Pair, Route
<1> QED BY <1>1, InitInv, StepInv, PTL DEF Spec

\* cmd/gateway loadOrCreateCAKey: after any number of restarts the gateway signs
\* with the CA key of the database, unless the database failed at this start.
THEOREM RunningCAIsStored == Spec => []StoredCASigns
<1>1. Inv => StoredCASigns
  BY DEF Inv, CAInv
<1> QED BY <1>1, InitInv, StepInv, PTL DEF Spec

\* proxy/ssh.go hostKeyCallback: only a first connection that had loaded the row
\* before it was pinned replaces a pin.
THEOREM PinsStay == Spec => PinReplacedOnlyByRacer
<1> DEFINE Racer == (row.pin # None /\ row'.state = "present" /\ row'.pin # row.pin) =>
                      \E c \in Calls : /\ call[c].pc = "handshake" /\ call[c].row.pin = None
                                       /\ call'[c].pc = "auth" /\ call'[c].shown = row'.pin
<1>1. Inv /\ [Next]_vars => [Racer]_vars
  <2> SUFFICES ASSUME Inv, [Next]_vars, row.pin # None, row'.state = "present", row'.pin # row.pin
               PROVE  \E c \in Calls : /\ call[c].pc = "handshake" /\ call[c].row.pin = None
                                       /\ call'[c].pc = "auth" /\ call'[c].shown = row'.pin
    OBVIOUS
  <2>1. RowInv /\ TypeOK /\ row \in ServerRows /\ call \in [Calls -> CallStates]
    BY DEF Inv, TypeOK
  <2>2. ~CreateServer /\ ~DeleteServer
    BY <2>1 DEF CreateServer, DeleteServer, NoRow, RowInv
  <2>3. ~UpdateServer
    BY <2>1 DEF UpdateServer, SetRow, ServerRows
  <2>4. row' # row
    OBVIOUS
  <2>5. ASSUME NEW c \in Calls, Connect(c) PROVE HostKeyLearnt(c)
    BY <2>4, <2>5 DEF Connect, Begin, Load, Dial, NoCredentials, HostKeyKnown, Authenticated,
                      GuacdConnected, Ends, dbVars
  <2>6. \E c \in Calls : HostKeyLearnt(c)
    BY <2>2, <2>3, <2>4, <2>5 DEF Next, Gateway, BootSelect, BootInsert, Crash, Access, RequestAccess,
                                  ApproveAccess, DenyAccess, GrantLapses, vars, dbVars
  <2>7. PICK c \in Calls : HostKeyLearnt(c)
    BY <2>6
  <2>8. PICK k \in HostKeys : /\ call[c].pc = "handshake" /\ call' = [call EXCEPT ![c] = Shows(c, k)]
                              /\ row' = [row EXCEPT !.pin = k] /\ call[c].row.pin = None
    BY <2>4, <2>7 DEF HostKeyLearnt, Go
  <2>9. call'[c].pc = "auth" /\ call'[c].shown = k /\ row'.pin = k
    BY <2>1, <2>8 DEF Shows, CallStates, ServerRows
  <2> QED BY <2>8, <2>9
<1> QED BY <1>1, InitInv, StepInv, PTL DEF Spec, PinReplacedOnlyByRacer

\* api/access.go: a request that was denied, or whose grant has lapsed, never
\* opens again.
THEOREM GrantsAreForOnce == Spec => NoGrantRevives
<1> DEFINE Once == \A q \in Requests :
                     (req[q].status = "denied" \/ req[q].lapsed)
                       => (req'[q].status # "approved" \/ req'[q].lapsed)
<1>1. Inv /\ [Next]_vars => [Once]_vars
  <2> SUFFICES ASSUME Inv, [Next]_vars, NEW q \in Requests, req[q].status = "denied" \/ req[q].lapsed
               PROVE  req'[q].status # "approved" \/ req'[q].lapsed
    OBVIOUS
  <2>1. /\ req \in [Requests -> RequestRows] /\ req[q] \in RequestRows
        /\ req[q].lapsed => req[q].status = "approved"
    BY DEF Inv, TypeOK, LapseInv
  <2>2. CASE req' = req
    BY <2>1, <2>2
  <2>3. CASE DeleteServer
    BY <2>3 DEF DeleteServer
  <2>4. ASSUME NEW p \in Requests, Access(p) PROVE req'[q].status # "approved" \/ req'[q].lapsed
    <3>1. CASE \E u \in Users : RequestAccess(p, u)
      BY <2>1, <3>1 DEF RequestAccess
    <3>2. CASE ApproveAccess(p)
      BY <2>1, <3>2 DEF ApproveAccess
    <3>3. CASE DenyAccess(p)
      BY <2>1, <3>3 DEF DenyAccess
    <3>4. CASE GrantLapses(p)
      BY <2>1, <3>4 DEF GrantLapses, RequestRows
    <3> QED BY <2>4, <3>1, <3>2, <3>3, <3>4 DEF Access
  <2>5. ASSUME Gateway \/ CreateServer \/ UpdateServer \/ (\E c \in Calls : Connect(c)) \/ UNCHANGED vars
        PROVE  req' = req
    BY <2>5 DEF Gateway, BootSelect, BootInsert, Crash, CreateServer, UpdateServer, Connect, Begin,
                Load, Dial, NoCredentials, HostKeyKnown, HostKeyLearnt, Authenticated,
                GuacdConnected, Ends, vars
  <2> QED BY <2>2, <2>3, <2>4, <2>5 DEF Next
<1> QED BY <1>1, InitInv, StepInv, PTL DEF Spec, NoGrantRevives

=============================================================================
