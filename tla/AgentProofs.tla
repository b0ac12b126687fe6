------------------------------ MODULE AgentProofs -----------------------------
(***************************************************************************)
(* Proofs of the safety properties of modules AgentTunnel (any number of   *)
(* connections and dials), AgentLink (any number of events, connections    *)
(* and pids, any capacity of the queues) and ScanStore (any number of      *)
(* scans, advisories and concurrent fetches).                              *)
(***************************************************************************)
EXTENDS AgentTunnel, AgentLink, FiniteSetTheorems, WellFoundedInduction, TLAPS

\* Every action keeps the types.
LEMMA TypeNext == TypeOK /\ [Next]_vars => TypeOK'
<1> SUFFICES ASSUME TypeOK, [Next]_vars PROVE TypeOK'
  OBVIOUS
<1> USE NoConnAssumption
    DEF TypeOK, OptConn, Registered, Goto, CloseConns, RemoveStream, handlerVars,
        connVars, registryVars, dialVars, vars
<1>1. ASSUME NEW k \in Conns, AgentConnects(k) PROVE TypeOK'
  BY <1>1 DEF AgentConnects
<1>2. ASSUME NEW k \in Conns, AgentRefused(k) PROVE TypeOK'
  BY <1>2 DEF AgentRefused
<1>3. ASSUME NEW k \in Conns, Register(k) PROVE TypeOK'
  BY <1>3 DEF Register
<1>4. ASSUME NEW k \in Conns, MarkOnline(k) PROVE TypeOK'
  BY <1>4 DEF MarkOnline, SetStatus
<1>5. ASSUME NEW k \in Conns, ReadLoopReturns(k) PROVE TypeOK'
  BY <1>5 DEF ReadLoopReturns
<1>6. ASSUME NEW k \in Conns, Unregister(k) PROVE TypeOK'
  BY <1>6 DEF Unregister
<1>7. ASSUME NEW k \in Conns, MarkOffline(k) PROVE TypeOK'
  BY <1>7 DEF MarkOffline, SetStatus
<1>8. ASSUME NEW k \in Conns, AgentDies(k) PROVE TypeOK'
  BY <1>8 DEF AgentDies
<1>9. ASSUME NEW d \in Dials, DialGet(d) PROVE TypeOK'
  BY <1>9 DEF DialGet
<1>10. ASSUME NEW d \in Dials, OpenStream(d) PROVE TypeOK'
  BY <1>10 DEF OpenStream
<1>11. ASSUME NEW d \in Dials, OpenFrameSent(d) PROVE TypeOK'
  BY <1>11 DEF OpenFrameSent
<1>12. ASSUME NEW d \in Dials, OpenFrameFails(d) PROVE TypeOK'
  BY <1>12 DEF OpenFrameFails
<1>13. ASSUME NEW d \in Dials, RemoteClose(d) PROVE TypeOK'
  BY <1>13 DEF RemoteClose
<1>14. ASSUME NEW d \in Dials, StreamClose(d) PROVE TypeOK'
  BY <1>14 DEF StreamClose
<1>15. CASE UNCHANGED vars
  BY <1>15
<1> QED BY <1>1, <1>2, <1>3, <1>4, <1>5, <1>6, <1>7, <1>8, <1>9, <1>10, <1>11,
      <1>12, <1>13, <1>14, <1>15 DEF Next, Handler, Dial

(***************************************************************************)
(* The inductive step: every action preserves Inv; under each action, one  *)
(* step per conjunct that its assignments disturb.                         *)
(***************************************************************************)
LEMMA InvNext == Inv /\ [Next]_vars => Inv'
<1> SUFFICES ASSUME Inv, [Next]_vars PROVE Inv'
  OBVIOUS
<1>0. TypeOK'
  BY TypeNext DEF Inv
<1> USE <1>0, NoConnAssumption
    DEF Inv, TypeOK, OptConn, Registered, Goto, CloseConns, RemoveStream,
        handlerVars, connVars, registryVars, dialVars, vars
<1>1. ASSUME NEW k \in Conns, AgentConnects(k) PROVE Inv'
  <2>1. StepInv'
    BY <1>1 DEF AgentConnects, StepInv
  <2>2. StatusInv'
    BY <1>1 DEF AgentConnects, StatusInv
  <2>3. LatestAgentCurrent'
    BY <1>1 DEF AgentConnects, LatestAgentCurrent
  <2>4. ReplacedConnClosed'
    BY <1>1 DEF AgentConnects, ReplacedConnClosed
  <2>5. NoGhostOnline'
    BY <1>1 DEF AgentConnects, NoGhostOnline
  <2>6. (NoHangingStream /\ StreamTableExact)'
    BY <1>1 DEF AgentConnects, NoHangingStream, StreamTableExact
  <2> QED BY <2>1, <2>2, <2>3, <2>4, <2>5, <2>6
<1>2. ASSUME NEW k \in Conns, AgentRefused(k) PROVE Inv'
  <2>1. StepInv'
    BY <1>2 DEF AgentRefused, StepInv
  <2>2. StatusInv'
    BY <1>2 DEF AgentRefused, StatusInv
  <2>3. LatestAgentCurrent'
    BY <1>2 DEF AgentRefused, LatestAgentCurrent
  <2>4. ReplacedConnClosed'
    BY <1>2 DEF AgentRefused, ReplacedConnClosed, StepInv
  <2>5. NoGhostOnline'
    BY <1>2 DEF AgentRefused, NoGhostOnline
  <2>6. (NoHangingStream /\ StreamTableExact)'
    BY <1>2 DEF AgentRefused, NoHangingStream, StreamTableExact
  <2> QED BY <2>1, <2>2, <2>3, <2>4, <2>5, <2>6
<1>3. ASSUME NEW k \in Conns, Register(k) PROVE Inv'
  <2>1. StepInv'
    BY <1>3 DEF Register, StepInv, LatestAgentCurrent, StreamTableExact
  <2>2. StatusInv'
    BY <1>3 DEF Register, StatusInv
  <2>3. LatestAgentCurrent'
    BY <1>3 DEF Register, LatestAgentCurrent
  <2>4. ReplacedConnClosed'
    BY <1>3 DEF Register, ReplacedConnClosed
  <2>5. NoHangingStream'
    BY <1>3 DEF Register, NoHangingStream, StreamTableExact
  <2>6. StreamTableExact'
    BY <1>3 DEF Register, StreamTableExact
  <2>7. NoGhostOnline'
    BY <1>3 DEF Register, NoGhostOnline
  <2> QED BY <2>1, <2>2, <2>3, <2>4, <2>5, <2>6, <2>7
<1>4. ASSUME NEW k \in Conns, MarkOnline(k) PROVE Inv'
  <2>1. StepInv'
    BY <1>4 DEF MarkOnline, SetStatus, StepInv
  <2>2. StatusInv'
    BY <1>4 DEF MarkOnline, SetStatus, StatusInv
  <2>3. LatestAgentCurrent'
    BY <1>4 DEF MarkOnline, SetStatus, LatestAgentCurrent
  <2>4. ReplacedConnClosed'
    BY <1>4 DEF MarkOnline, SetStatus, ReplacedConnClosed
  <2>5. NoGhostOnline'
    BY <1>4 DEF MarkOnline, SetStatus, NoGhostOnline
  <2>6. (NoHangingStream /\ StreamTableExact)'
    BY <1>4 DEF MarkOnline, SetStatus, NoHangingStream, StreamTableExact
  <2> QED BY <2>1, <2>2, <2>3, <2>4, <2>5, <2>6
<1>5. ASSUME NEW k \in Conns, ReadLoopReturns(k) PROVE Inv'
  <2>1. StepInv'
    BY <1>5 DEF ReadLoopReturns, StepInv, StreamTableExact
  <2>2. StatusInv'
    BY <1>5 DEF ReadLoopReturns, StatusInv
  <2>3. LatestAgentCurrent'
    BY <1>5 DEF ReadLoopReturns, LatestAgentCurrent
  <2>4. ReplacedConnClosed'
    BY <1>5 DEF ReadLoopReturns, ReplacedConnClosed
  <2>5. NoHangingStream'
    BY <1>5 DEF ReadLoopReturns, NoHangingStream, StreamTableExact
  <2>6. StreamTableExact'
    BY <1>5 DEF ReadLoopReturns, StreamTableExact
  <2>7. NoGhostOnline'
    BY <1>5 DEF ReadLoopReturns, NoGhostOnline
  <2> QED BY <2>1, <2>2, <2>3, <2>4, <2>5, <2>6, <2>7
<1>6. ASSUME NEW k \in Conns, Unregister(k) PROVE Inv'
  <2>1. StepInv'
    BY <1>6 DEF Unregister, StepInv
  <2>2. StatusInv'
    BY <1>6 DEF Unregister, StatusInv
  <2>3. LatestAgentCurrent'
    BY <1>6 DEF Unregister, LatestAgentCurrent
  <2>4. ReplacedConnClosed'
    BY <1>6 DEF Unregister, ReplacedConnClosed, StepInv
  <2>5. NoGhostOnline'
    BY <1>6 DEF Unregister, NoGhostOnline
  <2>6. (NoHangingStream /\ StreamTableExact)'
    BY <1>6 DEF Unregister, NoHangingStream, StreamTableExact
  <2> QED BY <2>1, <2>2, <2>3, <2>4, <2>5, <2>6
<1>7. ASSUME NEW k \in Conns, MarkOffline(k) PROVE Inv'
  <2>1. StepInv'
    BY <1>7 DEF MarkOffline, SetStatus, StepInv
  <2>2. StatusInv'
    BY <1>7 DEF MarkOffline, SetStatus, StatusInv
  <2>3. LatestAgentCurrent'
    BY <1>7 DEF MarkOffline, SetStatus, LatestAgentCurrent
  <2>4. ReplacedConnClosed'
    BY <1>7 DEF MarkOffline, SetStatus, ReplacedConnClosed
  <2>5. NoGhostOnline'
    BY <1>7 DEF MarkOffline, SetStatus, NoGhostOnline
  <2>6. (NoHangingStream /\ StreamTableExact)'
    BY <1>7 DEF MarkOffline, SetStatus, NoHangingStream, StreamTableExact
  <2> QED BY <2>1, <2>2, <2>3, <2>4, <2>5, <2>6
<1>8. ASSUME NEW k \in Conns, AgentDies(k) PROVE Inv'
  <2>1. StepInv'
    BY <1>8 DEF AgentDies, StepInv
  <2>2. ReplacedConnClosed'
    BY <1>8 DEF AgentDies, ReplacedConnClosed
  <2>3. (StatusInv /\ LatestAgentCurrent /\ NoHangingStream /\
        StreamTableExact /\ NoGhostOnline)'
    BY <1>8 DEF AgentDies, StatusInv, LatestAgentCurrent, NoHangingStream,
           StreamTableExact, NoGhostOnline
  <2> QED BY <2>1, <2>2, <2>3
<1>9. ASSUME NEW d \in Dials, DialGet(d) PROVE Inv'
  <2>1. StepInv'
    BY <1>9 DEF DialGet, StepInv, LatestAgentCurrent
  <2>2. NoHangingStream'
    BY <1>9 DEF DialGet, NoHangingStream
  <2>3. StreamTableExact'
    BY <1>9 DEF DialGet, StreamTableExact
  <2>4. (StatusInv /\ LatestAgentCurrent /\ ReplacedConnClosed /\
        NoGhostOnline)'
    BY <1>9 DEF DialGet, StatusInv, LatestAgentCurrent, ReplacedConnClosed,
           NoGhostOnline
  <2> QED BY <2>1, <2>2, <2>3, <2>4
<1>10. ASSUME NEW d \in Dials, OpenStream(d) PROVE Inv'
  <2>1. StepInv'
    BY <1>10 DEF OpenStream, StepInv
  <2>2. NoHangingStream'
    BY <1>10 DEF OpenStream, NoHangingStream
  <2>3. StreamTableExact'
    BY <1>10 DEF OpenStream, StreamTableExact, StepInv
  <2>4. (StatusInv /\ LatestAgentCurrent /\ ReplacedConnClosed /\
        NoGhostOnline)'
    BY <1>10 DEF OpenStream, StatusInv, LatestAgentCurrent,
           ReplacedConnClosed, NoGhostOnline
  <2> QED BY <2>1, <2>2, <2>3, <2>4
<1>11. ASSUME NEW d \in Dials, OpenFrameSent(d) PROVE Inv'
  <2>1. StepInv'
    BY <1>11 DEF OpenFrameSent, StepInv
  <2>2. NoHangingStream'
    BY <1>11 DEF OpenFrameSent, NoHangingStream
  <2>3. StreamTableExact'
    BY <1>11 DEF OpenFrameSent, StreamTableExact
  <2>4. (StatusInv /\ LatestAgentCurrent /\ ReplacedConnClosed /\
        NoGhostOnline)'
    BY <1>11 DEF OpenFrameSent, StatusInv, LatestAgentCurrent,
           ReplacedConnClosed, NoGhostOnline
  <2> QED BY <2>1, <2>2, <2>3, <2>4
<1>12. ASSUME NEW d \in Dials, OpenFrameFails(d) PROVE Inv'
  <2>1. StepInv'
    BY <1>12 DEF OpenFrameFails, StepInv
  <2>2. NoHangingStream'
    BY <1>12 DEF OpenFrameFails, NoHangingStream
  <2>3. StreamTableExact'
    BY <1>12 DEF OpenFrameFails, StreamTableExact
  <2>4. (StatusInv /\ LatestAgentCurrent /\ ReplacedConnClosed /\
        NoGhostOnline)'
    BY <1>12 DEF OpenFrameFails, StatusInv, LatestAgentCurrent,
           ReplacedConnClosed, NoGhostOnline
  <2> QED BY <2>1, <2>2, <2>3, <2>4
<1>13. ASSUME NEW d \in Dials, RemoteClose(d) PROVE Inv'
  <2>1. StepInv'
    BY <1>13 DEF RemoteClose, StepInv
  <2>2. NoHangingStream'
    BY <1>13 DEF RemoteClose, NoHangingStream
  <2>3. StreamTableExact'
    BY <1>13 DEF RemoteClose, StreamTableExact
  <2>4. (StatusInv /\ LatestAgentCurrent /\ ReplacedConnClosed /\
        NoGhostOnline)'
    BY <1>13 DEF RemoteClose, StatusInv, LatestAgentCurrent,
           ReplacedConnClosed, NoGhostOnline
  <2> QED BY <2>1, <2>2, <2>3, <2>4
<1>14. ASSUME NEW d \in Dials, StreamClose(d) PROVE Inv'
  <2>1. StepInv'
    BY <1>14 DEF StreamClose, StepInv
  <2>2. NoHangingStream'
    BY <1>14 DEF StreamClose, NoHangingStream
  <2>3. StreamTableExact'
    BY <1>14 DEF StreamClose, StreamTableExact
  <2>4. (StatusInv /\ LatestAgentCurrent /\ ReplacedConnClosed /\
        NoGhostOnline)'
    BY <1>14 DEF StreamClose, StatusInv, LatestAgentCurrent,
           ReplacedConnClosed, NoGhostOnline
  <2> QED BY <2>1, <2>2, <2>3, <2>4
<1>15. CASE UNCHANGED vars
  BY <1>15 DEF StepInv, StatusInv, LatestAgentCurrent, ReplacedConnClosed,
         NoHangingStream, StreamTableExact, NoGhostOnline
<1> QED BY <1>1, <1>2, <1>3, <1>4, <1>5, <1>6, <1>7, <1>8, <1>9, <1>10, <1>11,
      <1>12, <1>13, <1>14, <1>15 DEF Next, Handler, Dial

\* Inv holds initially and after every step.
LEMMA InvHolds == Spec => []Inv
<1>1. Init => Inv
  BY NoConnAssumption
  DEF Init, Inv, TypeOK, StepInv, StatusInv, LatestAgentCurrent,
      ReplacedConnClosed, NoHangingStream, StreamTableExact, NoGhostOnline,
      OptConn, Registered
<1> QED BY <1>1, InvNext, PTL DEF Spec

\* Every variable of the tunnel keeps its type.
THEOREM TypeCorrect == Spec => []TypeOK
<1>1. Inv => TypeOK
  BY DEF Inv
<1> QED BY <1>1, InvHolds, PTL

\* The Registry holds the connection registered last, until its own handler
\* unregisters it: a replaced handler never evicts its successor.
THEOREM RegistryKeepsLatest == Spec => []LatestAgentCurrent
<1>1. Inv => LatestAgentCurrent
  BY DEF Inv
<1> QED BY <1>1, InvHolds, PTL

\* A reconnecting agent leaves no second open connection behind.
THEOREM ReplacedConnsAreClosed == Spec => []ReplacedConnClosed
<1>1. Inv => ReplacedConnClosed
  BY DEF Inv
<1> QED BY <1>1, InvHolds, PTL

\* Whenever an AgentConn closes, each stream opened on it, or being opened,
\* reads EOF: no SSH client waits on a dead tunnel.
THEOREM StreamsNeverHang == Spec => []NoHangingStream
<1>1. Inv => NoHangingStream
  BY DEF Inv
<1> QED BY <1>1, InvHolds, PTL

\* AgentConn.streams holds exactly the running streams.
THEOREM StreamTableIsExact == Spec => []StreamTableExact
<1>1. Inv => StreamTableExact
  BY DEF Inv
<1> QED BY <1>1, InvHolds, PTL

\* A server without an agent is not left online by any order of handlers.
THEOREM OfflineWhenGone == Spec => []NoGhostOnline
<1>1. Inv => NoGhostOnline
  BY DEF Inv
<1> QED BY <1>1, InvHolds, PTL


-----------------------------------------------------------------------------
(***************************************************************************)
(* What the agent reports.                                                 *)
(***************************************************************************)

\* Where an event can be: in its queue, in a forwarder's hands, on the wire, in
\* the audit log.
In(x, s) == \E i \in 1..Len(s) : s[i] = x
Queued(e) == In(e, q[e.kind])
Held(e, c) == fwd[c] = e
OnWire(e, c) == In(e, wire[c])
Logged(e) == e.kind = "exec" /\ In(e.n, audit)
Fresh(e) ==
  /\ ~Queued(e) /\ ~Logged(e)
  /\ \A c \in Tunnels : ~Held(e, c) /\ ~OnWire(e, c)

\* It is in one of these places at most ...
OnePlaceOf(e) ==
  /\ ~(Queued(e) /\ Logged(e))
  /\ \A c \in Tunnels :
       /\ (Held(e, c) \/ OnWire(e, c)) => (~Queued(e) /\ ~Logged(e))
       /\ \A d \in Tunnels :
            /\ ~(Held(e, c) /\ OnWire(e, d))
            /\ c # d => (~(Held(e, c) /\ Held(e, d)) /\ ~(OnWire(e, c) /\ OnWire(e, d)))

\* ... and only once there.
Distinct(s) == \A i, j \in 1..Len(s) : i # j => s[i] # s[j]

PlaceInv ==
  /\ \A e \in Events : OnePlaceOf(e)
  /\ \A e \in Events : Fresh(e) \/ e.n <= made[e.kind]
  /\ Distinct(audit)
  /\ \A k \in Kinds : Distinct(q[k]) /\ \A i \in 1..Len(q[k]) : q[k][i].kind = k
  /\ \A c \in Tunnels : Distinct(wire[c])

LinkInv == LinkTypeOK /\ PlaceInv

\* A step takes e to no place where it is not already.
Less(e) ==
  /\ Queued(e)' => Queued(e)
  /\ Logged(e)' => Logged(e)
  /\ \A c \in Tunnels : (Held(e, c)' => Held(e, c)) /\ (OnWire(e, c)' => OnWire(e, c))

-----------------------------------------------------------------------------
(* The elements of the sequences that the queues, the wires and the logs become. *)

\* There are none in the empty one.
LEMMA InEmpty == Distinct(<<>>) /\ \A y : ~In(y, <<>>)
<1>1. 1..Len(<<>>) = {}
  OBVIOUS
<1> QED BY <1>1 DEF Distinct, In

\* One element joins at the end.
LEMMA InAppend ==
  ASSUME NEW S, NEW s \in Seq(S), NEW x \in S
  PROVE  /\ Append(s, x) \in Seq(S) /\ Len(Append(s, x)) = Len(s) + 1
         /\ \A y : In(y, Append(s, x)) <=> (In(y, s) \/ y = x)
         /\ (Distinct(s) /\ ~In(x, s)) => Distinct(Append(s, x))
<1> DEFINE n == Len(s)
           t == Append(s, x)
<1>1. /\ n \in Nat /\ t \in Seq(S) /\ Len(t) = n + 1 /\ t[n + 1] = x
      /\ \A i \in 1..n : t[i] = s[i]
  OBVIOUS
<1> HIDE DEF t
<1>2. 1..(n + 1) = 1..n \cup {n + 1}
  BY <1>1
<1>3. \A y : In(y, t) <=> (In(y, s) \/ y = x)
  BY <1>1, <1>2 DEF In
<1>4. ASSUME Distinct(s), ~In(x, s) PROVE Distinct(t)
  <2> SUFFICES ASSUME NEW i \in 1..n \cup {n + 1}, NEW j \in 1..n \cup {n + 1}, i # j, t[i] = t[j]
               PROVE  FALSE
    BY <1>1, <1>2 DEF Distinct
  <2>1. CASE i \in 1..n /\ j \in 1..n
    BY <2>1, <1>1, <1>4 DEF Distinct
  <2>2. CASE i \in 1..n /\ j = n + 1
    BY <2>2, <1>1, <1>4 DEF In
  <2>3. CASE i = n + 1 /\ j \in 1..n
    BY <2>3, <1>1, <1>4 DEF In
  <2> QED BY <2>1, <2>2, <2>3
<1> QED BY <1>1, <1>3, <1>4 DEF t

\* The first element is taken.
LEMMA InTail ==
  ASSUME NEW S, NEW s \in Seq(S), s # <<>>
  PROVE  /\ Head(s) \in S /\ Tail(s) \in Seq(S) /\ Len(Tail(s)) <= Len(s)
         /\ In(Head(s), s)
         /\ \A y : In(y, Tail(s)) => In(y, s)
         /\ Distinct(s) => (Distinct(Tail(s)) /\ ~In(Head(s), Tail(s)))
         /\ \A i \in 1..Len(Tail(s)) : \E j \in 1..Len(s) : Tail(s)[i] = s[j]
<1> DEFINE n == Len(s)
           t == Tail(s)
<1>1. /\ n \in Nat /\ n >= 1 /\ t \in Seq(S) /\ Len(t) = n - 1 /\ Head(s) = s[1] /\ s[1] \in S
      /\ \A i \in 1..(n - 1) : t[i] = s[i + 1]
  OBVIOUS
<1> HIDE DEF t
<1>2. 1 \in 1..n /\ \A i \in 1..(n - 1) : i + 1 \in 1..n /\ i + 1 # 1
  BY <1>1
<1>3. \A y : In(y, t) => In(y, s)
  BY <1>1, <1>2 DEF In
<1>4. ASSUME Distinct(s) PROVE Distinct(t) /\ ~In(Head(s), t)
  <2>1. \A i, j \in 1..(n - 1) : i # j => i + 1 # j + 1
    BY <1>1
  <2>2. \A i, j \in 1..(n - 1) : i # j => t[i] # t[j]
    BY <1>1, <1>2, <1>4, <2>1 DEF Distinct
  <2>3. \A i \in 1..(n - 1) : t[i] # s[1]
    BY <1>1, <1>2, <1>4 DEF Distinct
  <2> QED BY <1>1, <2>2, <2>3 DEF Distinct, In
<1>5. In(Head(s), s)
  BY <1>1, <1>2 DEF In
<1>6. Len(t) <= Len(s) /\ \A i \in 1..Len(t) : \E j \in 1..Len(s) : t[i] = s[j]
  BY <1>1, <1>2
<1> QED BY <1>1, <1>3, <1>4, <1>5, <1>6 DEF t

\* The last elements are lost.
LEMMA InPrefix ==
  ASSUME NEW S, NEW s \in Seq(S), NEW k \in 0..Len(s)
  PROVE  /\ SubSeq(s, 1, k) \in Seq(S)
         /\ \A y : In(y, SubSeq(s, 1, k)) => In(y, s)
         /\ Distinct(s) => Distinct(SubSeq(s, 1, k))
<1> DEFINE n == Len(s)
           t == SubSeq(s, 1, k)
<1>1. /\ n \in Nat /\ k \in Nat /\ k <= n /\ t \in Seq(S) /\ Len(t) = k
      /\ \A i \in 1..k : t[i] = s[i]
  OBVIOUS
<1> HIDE DEF t
<1>2. \A i \in 1..k : i \in 1..n
  BY <1>1
<1>3. (\A y : In(y, t) => In(y, s)) /\ (Distinct(s) => Distinct(t))
  BY <1>1, <1>2 DEF In, Distinct
<1> QED BY <1>1, <1>3 DEF t

\* An event is not the state of a forwarder that holds none.
LEMMA EventFacts ==
  /\ \A k \in Kinds, n \in 1..MaxEvents :
       Event(k, n) \in Events /\ Event(k, n).kind = k /\ Event(k, n).n = n
  /\ \A e \in Events : /\ e.kind \in Kinds /\ e.n \in 1..MaxEvents /\ e = Event(e.kind, e.n)
                       /\ \A s : e # At(s)
<1>1. \A k \in Kinds, n \in 1..MaxEvents :
       Event(k, n) \in Events /\ Event(k, n).kind = k /\ Event(k, n).n = n
  BY DEF Event, Events
<1>2. MaxEvents \in Nat
  BY LinkAssumption
<1>3. ASSUME NEW e \in Events, NEW s PROVE e # At(s)
  <2>1. e.n # 0
    BY <1>2 DEF Events
  <2>2. At(s).n = 0
    BY DEF At
  <2> QED BY <2>1, <2>2
<1>4. \A e \in Events : e.kind \in Kinds /\ e.n \in 1..MaxEvents /\ e = Event(e.kind, e.n)
  BY DEF Event, Events
<1> QED BY <1>1, <1>3, <1>4

\* The types, one by one.
LEMMA LinkTypes ==
  ASSUME LinkTypeOK
  PROVE  /\ running \subseteq Pids /\ bound \in Bounds
         /\ made \in [Kinds -> Nat] /\ \A k \in Kinds : made[k] <= bound[k]
         /\ bound \in [Kinds -> 0..MaxEvents] /\ MaxEvents \in Nat
         /\ kernel \in Seq(Pids) /\ q \in [Kinds -> Seq(Events)]
         /\ fwd \in [Tunnels -> Events \cup {At("off"), At("select"), At("gone")}]
         /\ wire \in [Tunnels -> Seq(Events)] /\ audit \in Seq(1..MaxEvents)
         /\ Cap \in [Kinds -> Nat \ {0}] /\ \A k \in Kinds : Len(q[k]) <= Cap[k]
         /\ "exec" \in Kinds /\ "metric" \in Kinds /\ "scan" \in Kinds
BY LinkAssumption DEF LinkTypeOK, Kinds

\* A forwarder that holds something holds an event.
LEMMA HoldingFacts ==
  ASSUME LinkTypeOK, NEW c \in Tunnels
  PROVE  /\ Holding(c) => fwd[c] \in Events
         /\ ~Holding(c) => \A e \in Events : ~Held(e, c)
<1>1. fwd[c] \in Events \cup {At("off"), At("select"), At("gone")}
  BY LinkTypes
<1>2. \A s : At(s).n = 0
  BY DEF At
<1>3. ASSUME NEW e \in Events PROVE e.n # 0
  <2>1. e.n \in 1..MaxEvents /\ MaxEvents \in Nat
    BY EventFacts, LinkAssumption
  <2> QED BY <2>1
<1> QED BY <1>1, <1>2, <1>3 DEF Holding, Held

\* Where an event is in one place, a step that takes it nowhere else leaves it so.
LEMMA LessKeeps ==
  ASSUME NEW e, Less(e)
  PROVE  /\ OnePlaceOf(e) => OnePlaceOf(e)'
         /\ Fresh(e) => Fresh(e)'
<1>1. ASSUME OnePlaceOf(e) PROVE OnePlaceOf(e)'
  BY <1>1 DEF Less, OnePlaceOf
<1>2. ASSUME Fresh(e) PROVE Fresh(e)'
  BY <1>2 DEF Less, Fresh
<1> QED BY <1>1, <1>2

\* How Enqueue changes the queues: the event joins its queue, or is dropped.
LEMMA EnqueueStep ==
  ASSUME LinkTypeOK, NEW k \in Kinds, NEW n \in 1..MaxEvents, Enqueue(k, n)
  PROVE  /\ q' \in [Kinds -> Seq(Events)] /\ \A j \in Kinds : Len(q'[j]) <= Cap[j]
         /\ \A j \in Kinds : j # k => q'[j] = q[j]
         /\ q'[k] = q[k] \/ q'[k] = Append(q[k], Event(k, n))
<1>1. /\ q \in [Kinds -> Seq(Events)] /\ Cap \in [Kinds -> Nat \ {0}]
      /\ \A j \in Kinds : Len(q[j]) <= Cap[j]
  BY LinkTypes
<1>2. Event(k, n) \in Events
  BY EventFacts
<1>3. CASE Len(q[k]) < Cap[k]
  <2>1. q' = [q EXCEPT ![k] = Append(q[k], Event(k, n))]
    BY <1>1, <1>3 DEF Enqueue
  <2>2. q[k] \in Seq(Events) /\ Cap[k] \in Nat
    BY <1>1
  <2>3. Append(q[k], Event(k, n)) \in Seq(Events) /\ Len(Append(q[k], Event(k, n))) <= Cap[k]
    BY <1>2, <1>3, <2>2
  <2> QED BY <1>1, <2>1, <2>3
<1>4. CASE ~(Len(q[k]) < Cap[k])
  <2>1. q' = q
    BY <1>1, <1>4 DEF Enqueue
  <2> QED BY <1>1, <2>1
<1> QED BY <1>3, <1>4

\* No sequence of events has one twice, and each queue has those of its kind.
SeqsOK ==
  /\ Distinct(audit)
  /\ \A k \in Kinds : Distinct(q[k]) /\ \A i \in 1..Len(q[k]) : q[k][i].kind = k
  /\ \A c \in Tunnels : Distinct(wire[c])

\* A step that only loses events.
LEMMA PlacesKept ==
  ASSUME PlaceInv, LinkTypeOK, SeqsOK', \A e \in Events : Less(e), made' = made
  PROVE  PlaceInv' /\ \A e \in Events : Fresh(e) => Fresh(e)'
<1>1. \A e \in Events : OnePlaceOf(e)' /\ (Fresh(e) => Fresh(e)')
  BY LessKeeps DEF PlaceInv
<1>2. \A e \in Events : Fresh(e)' \/ e.n <= made'[e.kind]
  BY <1>1 DEF PlaceInv
<1> QED BY <1>1, <1>2 DEF PlaceInv, SeqsOK

\* A step that moves one event and loses others.
LEMMA PlacesMoved ==
  ASSUME PlaceInv, LinkTypeOK, SeqsOK', NEW x \in Events, ~Fresh(x), OnePlaceOf(x)',
         \A e \in Events : e # x => Less(e), made' = made
  PROVE  PlaceInv' /\ \A e \in Events : Fresh(e) => Fresh(e)'
<1>1. \A e \in Events : OnePlaceOf(e)' /\ (Fresh(e) => Fresh(e)')
  BY LessKeeps DEF PlaceInv
<1>2. \A e \in Events : Fresh(e)' \/ e.n <= made'[e.kind]
  BY <1>1 DEF PlaceInv
<1> QED BY <1>1, <1>2 DEF PlaceInv, SeqsOK

\* The forwarder's select takes an event from a queue.
LEMMA TakeStep ==
  ASSUME LinkInv, NEW c \in Tunnels, NEW k \in Kinds, Take(c, k)
  PROVE  LinkInv'
<1>1. LinkTypeOK /\ PlaceInv
  BY DEF LinkInv
<1>2. /\ q \in [Kinds -> Seq(Events)] /\ \A j \in Kinds : Len(q[j]) <= Cap[j]
      /\ fwd \in [Tunnels -> Events \cup {At("off"), At("select"), At("gone")}]
      /\ Cap \in [Kinds -> Nat \ {0}]
  BY <1>1, LinkTypes
<1>3. /\ q[k] # <<>> /\ fwd' = [fwd EXCEPT ![c] = Head(q[k])]
      /\ q' = [q EXCEPT ![k] = Tail(q[k])] /\ UNCHANGED <<hostVars, made, serving, link, wire, gw, storeVars>>
  BY <1>2 DEF Take
<1>4. /\ running' = running /\ mode' = mode /\ kernel' = kernel /\ seen' = seen /\ visit' = visit
      /\ current' = current /\ poll' = poll /\ distro' = distro /\ bound' = bound
      /\ made' = made /\ serving' = serving /\ link' = link /\ wire' = wire /\ gw' = gw
      /\ audit' = audit /\ metrics' = metrics
  BY <1>3 DEF hostVars, const, storeVars
<1>5. PICK x \in Events : x = Head(q[k])
  BY <1>2, <1>3, InTail
<1>6. q[k] \in Seq(Events) /\ Distinct(q[k]) /\ \A i \in 1..Len(q[k]) : q[k][i].kind = k
  BY <1>1, <1>2 DEF PlaceInv
<1>7. /\ Tail(q[k]) \in Seq(Events) /\ Len(Tail(q[k])) <= Len(q[k]) /\ In(x, q[k])
      /\ (\A y : In(y, Tail(q[k])) => In(y, q[k]))
      /\ Distinct(Tail(q[k])) /\ ~In(x, Tail(q[k]))
      /\ \A i \in 1..Len(Tail(q[k])) : \E j \in 1..Len(q[k]) : Tail(q[k])[i] = q[k][j]
  BY <1>3, <1>5, <1>6, InTail
<1>8. x.kind = k
  BY <1>6, <1>7 DEF In
<1>9. /\ q'[k] = Tail(q[k]) /\ \A j \in Kinds : j # k => q'[j] = q[j]
      /\ fwd'[c] = x /\ \A d \in Tunnels : d # c => fwd'[d] = fwd[d]
  BY <1>2, <1>3, <1>5
<1>10. LinkTypeOK'
  <2>1. q' \in [Kinds -> Seq(Events)]
    BY <1>2, <1>3, <1>7
  <2>2. Len(Tail(q[k])) \in Nat /\ Len(q[k]) \in Nat /\ Cap[k] \in Nat
    BY <1>2, <1>6, <1>7
  <2>3. \A j \in Kinds : Len(q'[j]) <= Cap[j]
    BY <1>2, <1>7, <1>9, <2>2
  <2>4. fwd' \in [Tunnels -> Events \cup {At("off"), At("select"), At("gone")}]
    BY <1>2, <1>3, <1>5
  <2> QED BY <1>1, <1>4, <2>1, <2>3, <2>4 DEF LinkTypeOK
<1>11. SeqsOK'
  <2>1. \A i \in 1..Len(q'[k]) : q'[k][i].kind = k
    BY <1>6, <1>7, <1>9
  <2>2. \A j \in Kinds : Distinct(q'[j]) /\ \A i \in 1..Len(q'[j]) : q'[j][i].kind = j
    BY <1>1, <1>7, <1>9, <2>1 DEF PlaceInv
  <2> QED BY <1>1, <1>4, <2>2 DEF SeqsOK, PlaceInv
<1>12. Queued(x) /\ ~Fresh(x)
  BY <1>7, <1>8 DEF Queued, Fresh
<1>13. OnePlaceOf(x)'
  <2>1. ~Logged(x) /\ \A d \in Tunnels : ~Held(x, d) /\ ~OnWire(x, d)
    BY <1>1, <1>12 DEF PlaceInv, OnePlaceOf
  <2>2. ~Logged(x)' /\ \A d \in Tunnels : ~OnWire(x, d)'
    BY <1>4, <2>1 DEF Logged, OnWire
  <2>3. ~Queued(x)'
    BY <1>7, <1>8, <1>9 DEF Queued
  <2>4. \A d \in Tunnels : d # c => ~Held(x, d)'
    BY <1>9, <2>1 DEF Held
  <2> QED BY <2>2, <2>3, <2>4 DEF OnePlaceOf
<1>14. \A e \in Events : e # x => Less(e)
  <2> SUFFICES ASSUME NEW e \in Events, e # x PROVE Less(e)
    OBVIOUS
  <2>1. e.kind \in Kinds
    BY EventFacts
  <2>2. Queued(e)' => Queued(e)
    BY <1>7, <1>9, <2>1 DEF Queued
  <2>3. \A d \in Tunnels : Held(e, d)' => Held(e, d)
    BY <1>9 DEF Held
  <2> QED BY <1>4, <2>2, <2>3 DEF Less, Logged, OnWire
<1>15. PlaceInv' /\ \A e \in Events : Fresh(e) => Fresh(e)'
  BY <1>1, <1>4, <1>11, <1>12, <1>13, <1>14, PlacesMoved
<1> QED BY <1>10, <1>15 DEF LinkInv

\* The tunnel alone, losing events: nothing joins a forwarder or a wire.
LEMMA TunnelLoses ==
  ASSUME LinkInv, UNCHANGED <<hostVars, made, q, storeVars>>,
         serving' \in Tunnels \cup {0}, link' \in [Tunnels -> {"none", "up", "broken", "down"}],
         fwd' \in [Tunnels -> Events \cup {At("off"), At("select"), At("gone")}],
         wire' \in [Tunnels -> Seq(Events)], gw' \in [Tunnels -> {"none", "reading", "done"}],
         \A c \in Tunnels : \A e \in Events : fwd'[c] = e => fwd[c] = e,
         \A c \in Tunnels : \A e \in Events : In(e, wire'[c]) => In(e, wire[c]),
         \A c \in Tunnels : Distinct(wire'[c])
  PROVE  LinkInv'
<1>1. LinkTypeOK /\ PlaceInv
  BY DEF LinkInv
<1>2. /\ running' = running /\ mode' = mode /\ kernel' = kernel /\ seen' = seen /\ visit' = visit
      /\ current' = current /\ poll' = poll /\ distro' = distro /\ bound' = bound
      /\ made' = made /\ q' = q /\ audit' = audit /\ metrics' = metrics
  BY DEF hostVars, const, storeVars
<1>3. LinkTypeOK'
  BY <1>1, <1>2 DEF LinkTypeOK
<1>4. SeqsOK'
  BY <1>1, <1>2 DEF SeqsOK, PlaceInv
<1>5. \A e \in Events : Less(e)
  BY <1>2 DEF Less, Queued, Logged, Held, OnWire
<1>6. PlaceInv' /\ \A e \in Events : Fresh(e) => Fresh(e)'
  BY <1>1, <1>2, <1>4, <1>5, PlacesKept
<1> QED BY <1>3, <1>6 DEF LinkInv

\* Connections come and go.
LEMMA ConnectionSteps ==
  ASSUME LinkInv, NEW c \in Tunnels,
         \/ Connect(c) \/ AgentReadFails(c) \/ ForwarderStops(c) \/ SendFails(c)
         \/ GatewayGivesUp(c) \/ \E k \in 0..Len(wire[c]) : Breaks(c, k)
  PROVE  LinkInv'
<1>1. LinkTypeOK /\ PlaceInv
  BY DEF LinkInv
<1>2. /\ serving \in Tunnels \cup {0} /\ link \in [Tunnels -> {"none", "up", "broken", "down"}]
      /\ fwd \in [Tunnels -> Events \cup {At("off"), At("select"), At("gone")}]
      /\ wire \in [Tunnels -> Seq(Events)] /\ gw \in [Tunnels -> {"none", "reading", "done"}]
      /\ \A d \in Tunnels : Distinct(wire[d])
  BY <1>1 DEF LinkTypeOK, PlaceInv
<1>3. \A e \in Events : e # At("select") /\ e # At("gone")
  BY EventFacts
<1>4. CASE Connect(c)
  <2>1. /\ UNCHANGED <<hostVars, made, q, storeVars>> /\ wire' = wire /\ serving' = c
        /\ link' = [d \in Tunnels |-> IF d = c THEN "up" ELSE IF d < c THEN "down" ELSE link[d]]
        /\ fwd' = [fwd EXCEPT ![c] = At("select")] /\ gw' = [gw EXCEPT ![c] = "reading"]
    BY <1>4 DEF Connect
  <2>2. /\ link' \in [Tunnels -> {"none", "up", "broken", "down"}]
        /\ gw' \in [Tunnels -> {"none", "reading", "done"}]
    BY <1>2, <2>1
  <2>3. /\ fwd' \in [Tunnels -> Events \cup {At("off"), At("select"), At("gone")}]
        /\ \A d \in Tunnels : \A e \in Events : fwd'[d] = e => fwd[d] = e
    BY <1>2, <1>3, <2>1
  <2>4. \A d \in Tunnels : \A e \in Events : In(e, wire'[d]) => In(e, wire[d])
    BY <2>1
  <2>5. /\ wire' \in [Tunnels -> Seq(Events)] /\ serving' \in Tunnels \cup {0}
        /\ \A d \in Tunnels : Distinct(wire'[d])
    BY <1>2, <2>1
  <2> QED BY <2>1, <2>2, <2>3, <2>4, <2>5, TunnelLoses
<1>5. CASE AgentReadFails(c)
  <2>1. /\ UNCHANGED <<hostVars, made, q, storeVars>> /\ wire' = wire /\ fwd' = fwd /\ gw' = gw
        /\ serving' = 0 /\ link' = [link EXCEPT ![c] = "down"]
    BY <1>5 DEF AgentReadFails
  <2>2. link' \in [Tunnels -> {"none", "up", "broken", "down"}]
    BY <1>2, <2>1
  <2>3. \A d \in Tunnels : \A e \in Events : fwd'[d] = e => fwd[d] = e
    BY <2>1
  <2>4. \A d \in Tunnels : \A e \in Events : In(e, wire'[d]) => In(e, wire[d])
    BY <2>1
  <2>5. /\ wire' \in [Tunnels -> Seq(Events)] /\ serving' \in Tunnels \cup {0}
        /\ fwd' \in [Tunnels -> Events \cup {At("off"), At("select"), At("gone")}]
        /\ gw' \in [Tunnels -> {"none", "reading", "done"}]
        /\ \A d \in Tunnels : Distinct(wire'[d])
    BY <1>2, <2>1
  <2> QED BY <2>1, <2>2, <2>3, <2>4, <2>5, TunnelLoses
<1>6. CASE ForwarderStops(c) \/ SendFails(c)
  <2>1. /\ UNCHANGED <<hostVars, made, q, storeVars>> /\ wire' = wire /\ gw' = gw
        /\ serving' = serving /\ link' = link /\ fwd' = [fwd EXCEPT ![c] = At("gone")]
    BY <1>6 DEF ForwarderStops, SendFails
  <2>2. /\ fwd' \in [Tunnels -> Events \cup {At("off"), At("select"), At("gone")}]
        /\ \A d \in Tunnels : \A e \in Events : fwd'[d] = e => fwd[d] = e
    BY <1>2, <1>3, <2>1
  <2>3. \A d \in Tunnels : \A e \in Events : In(e, wire'[d]) => In(e, wire[d])
    BY <2>1
  <2>4. /\ wire' \in [Tunnels -> Seq(Events)] /\ serving' \in Tunnels \cup {0}
        /\ link' \in [Tunnels -> {"none", "up", "broken", "down"}]
        /\ gw' \in [Tunnels -> {"none", "reading", "done"}]
        /\ \A d \in Tunnels : Distinct(wire'[d])
    BY <1>2, <2>1
  <2> QED BY <2>1, <2>2, <2>3, <2>4, TunnelLoses
<1>7. ASSUME NEW w \in Seq(Events), wire' = [wire EXCEPT ![c] = w], Distinct(w),
             \A e : In(e, w) => In(e, wire[c]),
             UNCHANGED <<hostVars, made, q, serving, fwd, storeVars>>,
             link' \in [Tunnels -> {"none", "up", "broken", "down"}],
             gw' \in [Tunnels -> {"none", "reading", "done"}]
      PROVE  LinkInv'
  <2>1. /\ wire' \in [Tunnels -> Seq(Events)] /\ wire'[c] = w
        /\ \A d \in Tunnels : d # c => wire'[d] = wire[d]
    BY <1>2, <1>7
  <2>2. \A d \in Tunnels : \A e \in Events : In(e, wire'[d]) => In(e, wire[d])
    BY <1>7, <2>1
  <2>3. \A d \in Tunnels : Distinct(wire'[d])
    BY <1>2, <1>7, <2>1
  <2>4. \A d \in Tunnels : \A e \in Events : fwd'[d] = e => fwd[d] = e
    BY <1>7
  <2>5. /\ serving' \in Tunnels \cup {0}
        /\ fwd' \in [Tunnels -> Events \cup {At("off"), At("select"), At("gone")}]
        /\ UNCHANGED <<hostVars, made, q, storeVars>>
    BY <1>2, <1>7
  <2> QED BY <1>7, <2>1, <2>2, <2>3, <2>4, <2>5, TunnelLoses
<1>8. CASE GatewayGivesUp(c)
  <2>1. /\ wire' = [wire EXCEPT ![c] = <<>>]
        /\ UNCHANGED <<hostVars, made, q, serving, fwd, storeVars>>
        /\ link' \in [Tunnels -> {"none", "up", "broken", "down"}]
        /\ gw' \in [Tunnels -> {"none", "reading", "done"}]
    BY <1>2, <1>8 DEF GatewayGivesUp
  <2>2. <<>> \in Seq(Events)
    OBVIOUS
  <2> QED BY <1>7, <2>1, <2>2, InEmpty
<1>9. ASSUME NEW k \in 0..Len(wire[c]), Breaks(c, k) PROVE LinkInv'
  <2>1. /\ wire' = [wire EXCEPT ![c] = SubSeq(wire[c], 1, k)]
        /\ UNCHANGED <<hostVars, made, q, serving, fwd, storeVars>>
        /\ link' \in [Tunnels -> {"none", "up", "broken", "down"}]
        /\ gw' \in [Tunnels -> {"none", "reading", "done"}]
    BY <1>2, <1>9 DEF Breaks
  <2>2. wire[c] \in Seq(Events) /\ Distinct(wire[c])
    BY <1>2
  <2>3. /\ SubSeq(wire[c], 1, k) \in Seq(Events) /\ Distinct(SubSeq(wire[c], 1, k))
        /\ \A e : In(e, SubSeq(wire[c], 1, k)) => In(e, wire[c])
    BY <2>2, InPrefix
  <2> QED BY <1>7, <2>1, <2>3
<1> QED BY <1>4, <1>5, <1>6, <1>8, <1>9

\* A frame is written: from the forwarder's hands to the wire, unless the path
\* loses it.
LEMMA SentStep ==
  ASSUME LinkInv, NEW c \in Tunnels, Sent(c)
  PROVE  LinkInv'
<1>1. LinkTypeOK /\ PlaceInv
  BY DEF LinkInv
<1>2. /\ serving \in Tunnels \cup {0} /\ link \in [Tunnels -> {"none", "up", "broken", "down"}]
      /\ fwd \in [Tunnels -> Events \cup {At("off"), At("select"), At("gone")}]
      /\ wire \in [Tunnels -> Seq(Events)] /\ gw \in [Tunnels -> {"none", "reading", "done"}]
      /\ \A d \in Tunnels : Distinct(wire[d])
  BY <1>1 DEF LinkTypeOK, PlaceInv
<1>3. \A e \in Events : e # At("select")
  BY EventFacts
<1>4. /\ UNCHANGED <<hostVars, made, q, storeVars>> /\ serving' = serving /\ link' = link /\ gw' = gw
      /\ fwd' = [fwd EXCEPT ![c] = At("select")]
      /\ wire' = [wire EXCEPT ![c] = IF link[c] = "up" THEN Append(wire[c], fwd[c]) ELSE wire[c]]
  BY <1>2 DEF Sent
<1>5. PICK x \in Events : x = fwd[c]
  BY <1>1, HoldingFacts DEF Sent
<1>6. /\ fwd' \in [Tunnels -> Events \cup {At("off"), At("select"), At("gone")}]
      /\ fwd'[c] = At("select") /\ \A d \in Tunnels : d # c => fwd'[d] = fwd[d]
  BY <1>2, <1>4
<1>7. \A d \in Tunnels : \A e \in Events : fwd'[d] = e => fwd[d] = e
  BY <1>3, <1>6
<1>8. CASE link[c] # "up"
  <2>1. wire' = wire
    BY <1>2, <1>4, <1>8
  <2>2. \A d \in Tunnels : \A e \in Events : In(e, wire'[d]) => In(e, wire[d])
    BY <2>1
  <2>3. /\ wire' \in [Tunnels -> Seq(Events)] /\ serving' \in Tunnels \cup {0}
        /\ link' \in [Tunnels -> {"none", "up", "broken", "down"}]
        /\ gw' \in [Tunnels -> {"none", "reading", "done"}]
        /\ \A d \in Tunnels : Distinct(wire'[d])
    BY <1>2, <1>4, <2>1
  <2> QED BY <1>4, <1>6, <1>7, <2>2, <2>3, TunnelLoses
<1>9. CASE link[c] = "up"
  <2>1. /\ wire[c] \in Seq(Events) /\ Distinct(wire[c])
        /\ wire' = [wire EXCEPT ![c] = Append(wire[c], x)]
    BY <1>2, <1>4, <1>5, <1>9
  <2>2. Held(x, c) /\ ~Fresh(x)
    BY <1>5 DEF Held, Fresh
  <2>3. /\ ~Queued(x) /\ ~Logged(x)
        /\ \A d \in Tunnels : ~OnWire(x, d) /\ (d # c => ~Held(x, d))
    BY <1>1, <2>2 DEF PlaceInv, OnePlaceOf
  <2>4. /\ Append(wire[c], x) \in Seq(Events) /\ Distinct(Append(wire[c], x))
        /\ \A y : In(y, Append(wire[c], x)) <=> (In(y, wire[c]) \/ y = x)
    <3>1. ~In(x, wire[c])
      BY <2>3 DEF OnWire
    <3> QED BY <2>1, <3>1, InAppend
  <2>5. /\ wire' \in [Tunnels -> Seq(Events)] /\ wire'[c] = Append(wire[c], x)
        /\ \A d \in Tunnels : d # c => wire'[d] = wire[d]
    BY <1>2, <2>1, <2>4
  <2>6. /\ running' = running /\ mode' = mode /\ kernel' = kernel /\ seen' = seen /\ visit' = visit
        /\ current' = current /\ poll' = poll /\ distro' = distro /\ bound' = bound
        /\ made' = made /\ q' = q /\ audit' = audit /\ metrics' = metrics
    BY <1>4 DEF hostVars, const, storeVars
  <2>7. LinkTypeOK'
    BY <1>1, <1>4, <1>6, <2>5, <2>6 DEF LinkTypeOK
  <2>8. SeqsOK'
    <3>1. \A d \in Tunnels : Distinct(wire'[d])
      BY <1>2, <2>4, <2>5
    <3> QED BY <1>1, <2>6, <3>1 DEF SeqsOK, PlaceInv
  <2>9. OnePlaceOf(x)'
    <3>1. ~Queued(x)' /\ ~Logged(x)'
      BY <2>3, <2>6 DEF Queued, Logged
    <3>2. \A d \in Tunnels : ~Held(x, d)'
      BY <1>3, <1>6, <2>3 DEF Held
    <3>3. \A d \in Tunnels : d # c => ~OnWire(x, d)'
      BY <2>3, <2>5 DEF OnWire
    <3> QED BY <3>1, <3>2, <3>3 DEF OnePlaceOf
  <2>10. \A e \in Events : e # x => Less(e)
    <3> SUFFICES ASSUME NEW e \in Events, e # x PROVE Less(e)
      OBVIOUS
    <3>1. \A d \in Tunnels : OnWire(e, d)' => OnWire(e, d)
      BY <2>4, <2>5 DEF OnWire
    <3>2. \A d \in Tunnels : Held(e, d)' => Held(e, d)
      BY <1>7 DEF Held
    <3> QED BY <2>6, <3>1, <3>2 DEF Less, Queued, Logged
  <2>11. PlaceInv' /\ \A e \in Events : Fresh(e) => Fresh(e)'
    BY <1>1, <2>2, <2>6, <2>8, <2>9, <2>10, PlacesMoved
  <2> QED BY <2>7, <2>11 DEF LinkInv
<1> QED BY <1>8, <1>9

\* A frame is read: from the wire to the audit log, to the server's metrics or to
\* the goroutine of a scan.
LEMMA ReadStep ==
  ASSUME LinkInv, NEW c \in Tunnels, GatewayReads(c)
  PROVE  LinkInv'
<1>1. LinkTypeOK /\ PlaceInv
  BY DEF LinkInv
<1>2. /\ wire \in [Tunnels -> Seq(Events)] /\ audit \in Seq(1..MaxEvents) /\ metrics \in 0..MaxEvents
      /\ \A d \in Tunnels : Distinct(wire[d])
  BY <1>1 DEF LinkTypeOK, PlaceInv
<1>3. /\ wire[c] # <<>> /\ wire' = [wire EXCEPT ![c] = Tail(wire[c])]
      /\ OnLog(Head(wire[c])) /\ OnTelemetry(Head(wire[c]))
      /\ UNCHANGED <<hostVars, made, q, serving, link, fwd, gw>>
  BY <1>2 DEF GatewayReads
<1>4. /\ running' = running /\ mode' = mode /\ kernel' = kernel /\ seen' = seen /\ visit' = visit
      /\ current' = current /\ poll' = poll /\ distro' = distro /\ bound' = bound
      /\ made' = made /\ q' = q /\ serving' = serving /\ link' = link /\ fwd' = fwd /\ gw' = gw
  BY <1>3 DEF hostVars, const
<1>5. PICK x \in Events : x = Head(wire[c])
  BY <1>2, <1>3, InTail
<1>6. wire[c] \in Seq(Events) /\ Distinct(wire[c])
  BY <1>2
<1>7. /\ Tail(wire[c]) \in Seq(Events) /\ In(x, wire[c])
      /\ (\A y : In(y, Tail(wire[c])) => In(y, wire[c]))
      /\ Distinct(Tail(wire[c])) /\ ~In(x, Tail(wire[c]))
  BY <1>3, <1>5, <1>6, InTail
<1>8. /\ wire' \in [Tunnels -> Seq(Events)] /\ wire'[c] = Tail(wire[c])
      /\ \A d \in Tunnels : d # c => wire'[d] = wire[d]
  BY <1>2, <1>3, <1>7
<1>9. x.n \in 1..MaxEvents /\ MaxEvents \in Nat
  BY EventFacts, LinkAssumption
<1>10. OnWire(x, c) /\ ~Fresh(x)
  BY <1>7 DEF OnWire, Fresh
<1>11. /\ ~Queued(x) /\ ~Logged(x)
       /\ \A d \in Tunnels : ~Held(x, d) /\ (d # c => ~OnWire(x, d))
  BY <1>1, <1>10 DEF PlaceInv, OnePlaceOf
<1>12. /\ audit' \in Seq(1..MaxEvents) /\ Distinct(audit')
       /\ \A y : In(y, audit') => (In(y, audit) \/ (x.kind = "exec" /\ y = x.n))
  <2>1. CASE x.kind = "exec"
    <3>1. audit' = Append(audit, x.n)
      BY <1>3, <1>5, <2>1 DEF OnLog
    <3>2. ~In(x.n, audit) /\ Distinct(audit)
      BY <1>1, <1>11, <2>1 DEF Logged, PlaceInv
    <3>3. /\ Append(audit, x.n) \in Seq(1..MaxEvents) /\ Distinct(Append(audit, x.n))
          /\ \A y : In(y, Append(audit, x.n)) <=> (In(y, audit) \/ y = x.n)
      BY <1>2, <1>9, <3>2, InAppend
    <3> QED BY <2>1, <3>1, <3>3
  <2>2. CASE x.kind # "exec"
    <3>1. audit' = audit
      BY <1>3, <1>5, <2>2 DEF OnLog
    <3> QED BY <1>1, <1>2, <3>1 DEF PlaceInv
  <2> QED BY <2>1, <2>2
<1>13. metrics' \in 0..MaxEvents
  BY <1>2, <1>3, <1>5, <1>9 DEF OnTelemetry
<1>14. LinkTypeOK'
  BY <1>1, <1>4, <1>8, <1>12, <1>13 DEF LinkTypeOK
<1>15. SeqsOK'
  <2>1. \A d \in Tunnels : Distinct(wire'[d])
    BY <1>2, <1>7, <1>8
  <2> QED BY <1>1, <1>4, <1>12, <2>1 DEF SeqsOK, PlaceInv
<1>16. OnePlaceOf(x)'
  <2>1. ~Queued(x)' /\ \A d \in Tunnels : ~Held(x, d)'
    BY <1>4, <1>11 DEF Queued, Held
  <2>2. \A d \in Tunnels : ~OnWire(x, d)'
    BY <1>7, <1>8, <1>11 DEF OnWire
  <2> QED BY <2>1, <2>2 DEF OnePlaceOf
<1>17. \A e \in Events : e # x => Less(e)
  <2> SUFFICES ASSUME NEW e \in Events, e # x PROVE Less(e)
    OBVIOUS
  <2>1. \A d \in Tunnels : OnWire(e, d)' => OnWire(e, d)
    BY <1>7, <1>8 DEF OnWire
  <2>2. Logged(e)' => Logged(e)
    <3>1. e = Event(e.kind, e.n) /\ x = Event(x.kind, x.n)
      BY EventFacts
    <3>2. ~(e.kind = x.kind /\ e.n = x.n)
      BY <3>1
    <3> QED BY <1>12, <3>2 DEF Logged
  <2> QED BY <1>4, <2>1, <2>2 DEF Less, Queued, Held
<1>18. PlaceInv' /\ \A e \in Events : Fresh(e) => Fresh(e)'
  BY <1>1, <1>4, <1>10, <1>15, <1>16, <1>17, PlacesMoved
<1> QED BY <1>14, <1>18 DEF LinkInv

\* A step that brings one event to a new place, and may have made it.
LEMMA PlacesJoined ==
  ASSUME PlaceInv, LinkTypeOK, SeqsOK', NEW x \in Events, OnePlaceOf(x)',
         x.n <= made'[x.kind], made' \in [Kinds -> Nat], \A k \in Kinds : made[k] <= made'[k],
         \A e \in Events : e # x => Less(e)
  PROVE  PlaceInv' /\ \A e \in Events : (e # x /\ Fresh(e)) => Fresh(e)'
<1>1. \A e \in Events : OnePlaceOf(e)' /\ ((e # x /\ Fresh(e)) => Fresh(e)')
  BY LessKeeps DEF PlaceInv
<1>2. \A e \in Events : Fresh(e)' \/ e.n <= made'[e.kind]
  <2> SUFFICES ASSUME NEW e \in Events, e # x, ~Fresh(e) PROVE e.n <= made'[e.kind]
    BY <1>1
  <2>1. e.n <= made[e.kind]
    BY DEF PlaceInv
  <2>2. e.kind \in Kinds /\ e.n \in Nat
    BY EventFacts, LinkAssumption
  <2>3. made[e.kind] \in Nat /\ made'[e.kind] \in Nat /\ made[e.kind] <= made'[e.kind]
    BY <2>2, LinkTypes
  <2> QED BY <2>1, <2>2, <2>3
<1> QED BY <1>1, <1>2 DEF PlaceInv, SeqsOK

\* Where the event that Enqueue was given is, and the others.
LEMMA JoinsQueue ==
  ASSUME LinkInv, NEW k \in Kinds, NEW n \in 1..MaxEvents, NEW x, x = Event(k, n),
         Enqueue(k, n), UNCHANGED <<fwd, wire, audit>>,
         ~Queued(x), ~Logged(x), \A c \in Tunnels : ~Held(x, c) /\ ~OnWire(x, c)
  PROVE  SeqsOK' /\ OnePlaceOf(x)' /\ x \in Events /\ \A e \in Events : e # x => Less(e)
<1>1. LinkTypeOK /\ PlaceInv
  BY DEF LinkInv
<1>2. x \in Events /\ x.kind = k /\ x.n = n
  BY EventFacts
<1>3. /\ \A j \in Kinds : j # k => q'[j] = q[j]
      /\ q'[k] = q[k] \/ q'[k] = Append(q[k], x)
  BY <1>1, EnqueueStep
<1>4. q[k] \in Seq(Events) /\ Distinct(q[k]) /\ \A i \in 1..Len(q[k]) : q[k][i].kind = k
  BY <1>1, LinkTypes DEF PlaceInv
<1>5. ~In(x, q[k])
  BY <1>2 DEF Queued
<1>6. /\ Distinct(Append(q[k], x))
      /\ \A y : In(y, Append(q[k], x)) <=> (In(y, q[k]) \/ y = x)
  BY <1>2, <1>4, <1>5, InAppend
<1>7. /\ Distinct(q'[k]) /\ \A y : In(y, q'[k]) => (In(y, q[k]) \/ y = x)
  BY <1>3, <1>4, <1>6
<1>8. \A i \in 1..Len(q'[k]) : q'[k][i].kind = k
  <2>1. \A i \in 1..Len(q'[k]) : In(q'[k][i], q'[k])
    BY DEF In
  <2>2. \A y : In(y, q[k]) => y.kind = k
    BY <1>4 DEF In
  <2> QED BY <1>2, <1>7, <2>1, <2>2
<1>9. SeqsOK'
  <2>1. \A j \in Kinds : Distinct(q'[j]) /\ \A i \in 1..Len(q'[j]) : q'[j][i].kind = j
    BY <1>1, <1>3, <1>7, <1>8 DEF PlaceInv
  <2> QED BY <1>1, <2>1 DEF SeqsOK, PlaceInv
<1>10. OnePlaceOf(x)'
  <2>1. ~Logged(x)' /\ \A c \in Tunnels : ~Held(x, c)' /\ ~OnWire(x, c)'
    BY DEF Logged, Held, OnWire
  <2> QED BY <2>1 DEF OnePlaceOf
<1>11. \A e \in Events : e # x => Less(e)
  <2> SUFFICES ASSUME NEW e \in Events, e # x PROVE Less(e)
    OBVIOUS
  <2>1. e.kind \in Kinds
    BY EventFacts
  <2>2. Queued(e)' => Queued(e)
    BY <1>3, <1>7, <2>1 DEF Queued
  <2> QED BY <2>2 DEF Less, Logged, Held, OnWire
<1> QED BY <1>2, <1>9, <1>10, <1>11

\* The number after the last one made is nowhere yet.
LEMMA NextIsFresh ==
  ASSUME LinkInv, NEW k \in Kinds, made[k] < bound[k]
  PROVE  /\ made[k] + 1 \in 1..MaxEvents /\ made[k] \in Nat
         /\ Event(k, made[k] + 1) \in Events /\ Fresh(Event(k, made[k] + 1))
<1>1. LinkTypeOK /\ PlaceInv
  BY DEF LinkInv
<1>2. made[k] \in Nat /\ bound[k] \in 0..MaxEvents /\ MaxEvents \in Nat
  BY <1>1, LinkTypes
<1>3. made[k] + 1 \in 1..MaxEvents /\ ~(made[k] + 1 <= made[k])
  BY <1>2
<1>4. PICK x : x = Event(k, made[k] + 1)
  OBVIOUS
<1>5. x \in Events /\ x.kind = k /\ x.n = made[k] + 1
  BY <1>3, <1>4, EventFacts
<1>6. Fresh(x)
  BY <1>1, <1>3, <1>5 DEF PlaceInv
<1> QED BY <1>2, <1>3, <1>4, <1>5, <1>6

\* The host and the collectors move, and report nothing.
LEMMA HostMoves ==
  ASSUME LinkInv, UNCHANGED <<made, q, const, tunnelVars, storeVars>>,
         running' \subseteq Pids, mode' \in {"connector", "poll"}, kernel' \in Seq(Pids),
         poll' \in {"first", "again", "scan1", "scan"},
         seen' \subseteq Pids, visit' \subseteq Pids, current' \subseteq Pids
  PROVE  LinkInv'
<1>1. LinkTypeOK /\ PlaceInv
  BY DEF LinkInv
<1>2. /\ distro' = distro /\ bound' = bound /\ made' = made /\ q' = q
      /\ serving' = serving /\ link' = link /\ wire' = wire /\ gw' = gw /\ fwd' = fwd
      /\ audit' = audit /\ metrics' = metrics
  BY DEF const, tunnelVars, storeVars
<1>3. LinkTypeOK'
  BY <1>1, <1>2 DEF LinkTypeOK
<1>4. SeqsOK'
  BY <1>1, <1>2 DEF SeqsOK, PlaceInv
<1>5. \A e \in Events : Less(e)
  BY <1>2 DEF Less, Queued, Logged, Held, OnWire
<1>6. PlaceInv'
  BY <1>1, <1>2, <1>4, <1>5, PlacesKept
<1> QED BY <1>3, <1>6 DEF LinkInv

\* A collector reports the next event of its kind, whatever the host does.
LEMMA CollectStep ==
  ASSUME LinkInv, NEW k \in Kinds, Collect(k), UNCHANGED <<const, tunnelVars, storeVars>>,
         running' \subseteq Pids, mode' \in {"connector", "poll"}, kernel' \in Seq(Pids),
         poll' \in {"first", "again", "scan1", "scan"},
         seen' \subseteq Pids, visit' \subseteq Pids, current' \subseteq Pids
  PROVE  LinkInv'
<1>1. LinkTypeOK /\ PlaceInv
  BY DEF LinkInv
<1>2. /\ distro' = distro /\ bound' = bound
      /\ serving' = serving /\ link' = link /\ wire' = wire /\ gw' = gw /\ fwd' = fwd
      /\ audit' = audit /\ metrics' = metrics
  BY DEF const, tunnelVars, storeVars
<1>3. made \in [Kinds -> Nat] /\ bound \in [Kinds -> 0..MaxEvents] /\ MaxEvents \in Nat
      /\ \A j \in Kinds : made[j] <= bound[j]
  BY <1>1, LinkTypes
<1>4. /\ made[k] < bound[k] /\ made' = [made EXCEPT ![k] = made[k] + 1]
      /\ Enqueue(k, made[k] + 1)
  BY <1>3 DEF Collect
<1>5. /\ made[k] + 1 \in 1..MaxEvents /\ made[k] \in Nat
      /\ Event(k, made[k] + 1) \in Events /\ Fresh(Event(k, made[k] + 1))
  BY <1>4, NextIsFresh
<1>6. PICK x \in Events : x = Event(k, made[k] + 1)
  BY <1>5
<1>7. x.kind = k /\ x.n = made[k] + 1 /\ Fresh(x)
  BY <1>5, <1>6, EventFacts
<1>8. made' \in [Kinds -> Nat] /\ made'[k] = made[k] + 1 /\ \A j \in Kinds : j # k => made'[j] = made[j]
  BY <1>3, <1>4, <1>5
<1>9. \A j \in Kinds : made[j] <= made'[j] /\ made'[j] <= bound[j]
  <2>1. made'[k] <= bound[k] /\ made[k] <= made'[k]
    BY <1>3, <1>4, <1>8
  <2>2. \A j \in Kinds : made[j] \in Nat
    BY <1>3
  <2> SUFFICES ASSUME NEW j \in Kinds PROVE made[j] <= made'[j] /\ made'[j] <= bound[j]
    OBVIOUS
  <2>3. CASE j = k
    BY <2>1, <2>3
  <2>4. CASE j # k
    BY <1>3, <1>8, <2>2, <2>4
  <2> QED BY <2>3, <2>4
<1>10. LinkTypeOK'
  <2>1. q' \in [Kinds -> Seq(Events)] /\ \A j \in Kinds : Len(q'[j]) <= Cap[j]
    BY <1>1, <1>4, <1>5, EnqueueStep
  <2> QED BY <1>1, <1>2, <1>8, <1>9, <2>1 DEF LinkTypeOK
<1>11. ~Queued(x) /\ ~Logged(x) /\ \A c \in Tunnels : ~Held(x, c) /\ ~OnWire(x, c)
  BY <1>7 DEF Fresh
<1>12. SeqsOK' /\ OnePlaceOf(x)' /\ \A e \in Events : e # x => Less(e)
  BY <1>2, <1>4, <1>5, <1>6, <1>11, JoinsQueue
<1>13. PlaceInv'
  <2>1. x.n <= made'[x.kind]
    BY <1>5, <1>7, <1>8
  <2> QED BY <1>1, <1>8, <1>9, <1>12, <2>1, PlacesJoined
<1> QED BY <1>10, <1>13 DEF LinkInv

\* The first state.
LEMMA LinkStart == LinkInit => LinkInv
<1> SUFFICES ASSUME LinkInit PROVE LinkInv
  OBVIOUS
<1>1. /\ running = {} /\ distro \in Distros /\ bound \in Bounds
      /\ made = [k \in Kinds |-> 0] /\ mode = "connector" /\ poll = "first"
      /\ kernel = <<>> /\ seen = {} /\ visit = {} /\ current = {} /\ q = [k \in Kinds |-> <<>>]
      /\ serving = 0 /\ link = [c \in Tunnels |-> "none"] /\ fwd = [c \in Tunnels |-> At("off")]
      /\ wire = [c \in Tunnels |-> <<>>] /\ gw = [c \in Tunnels |-> "none"]
      /\ audit = <<>> /\ metrics = 0
  BY DEF LinkInit
<1>2. MaxEvents \in Nat /\ Cap \in [Kinds -> Nat \ {0}] /\ Bounds \subseteq [Kinds -> 0..MaxEvents]
  BY LinkAssumption
<1>3. /\ \A k \in Kinds : q[k] = <<>>
      /\ \A c \in Tunnels : wire[c] = <<>> /\ fwd[c] = At("off")
  BY <1>1
<1>4. LinkTypeOK
  <2>1. made \in [Kinds -> Nat] /\ \A k \in Kinds : made[k] <= bound[k]
    BY <1>1, <1>2
  <2>2. q \in [Kinds -> Seq(Events)] /\ wire \in [Tunnels -> Seq(Events)]
    BY <1>1
  <2>3. Len(<<>>) = 0
    OBVIOUS
  <2>4. \A k \in Kinds : Len(q[k]) <= Cap[k]
    BY <1>2, <1>3, <2>3
  <2>6. /\ link \in [Tunnels -> {"none", "up", "broken", "down"}]
        /\ fwd \in [Tunnels -> Events \cup {At("off"), At("select"), At("gone")}]
        /\ gw \in [Tunnels -> {"none", "reading", "done"}]
        /\ kernel \in Seq(Pids) /\ audit \in Seq(1..MaxEvents)
    BY <1>1
  <2> QED BY <1>1, <1>2, <2>1, <2>2, <2>4, <2>6 DEF LinkTypeOK
<1>5. \A e \in Events : Fresh(e)
  <2> SUFFICES ASSUME NEW e \in Events PROVE Fresh(e)
    OBVIOUS
  <2>1. e.kind \in Kinds /\ e # At("off")
    BY EventFacts
  <2> QED BY <1>1, <1>3, <2>1, InEmpty DEF Fresh, Queued, Logged, Held, OnWire
<1>6. PlaceInv
  <2>1. \A e \in Events : OnePlaceOf(e)
    BY <1>5 DEF OnePlaceOf, Fresh
  <2>2. Distinct(audit)
    BY <1>1, InEmpty
  <2>3. 1..Len(<<>>) = {}
    OBVIOUS
  <2>4. \A k \in Kinds : Distinct(q[k]) /\ \A i \in 1..Len(q[k]) : q[k][i].kind = k
    BY <1>3, <2>3, InEmpty
  <2>5. \A c \in Tunnels : Distinct(wire[c])
    BY <1>3, InEmpty
  <2> QED BY <1>5, <2>1, <2>2, <2>4, <2>5 DEF PlaceInv
<1> QED BY <1>4, <1>6 DEF LinkInv

\* No step of the host, of the tunnel or of the gateway breaks it.
LEMMA LinkStep == LinkInv /\ [LinkNext]_linkVars => LinkInv'
<1> SUFFICES ASSUME LinkInv, [LinkNext]_linkVars PROVE LinkInv'
  OBVIOUS
<1>1. CASE Host
  <2>1. /\ running \subseteq Pids /\ kernel \in Seq(Pids) /\ mode \in {"connector", "poll"}
        /\ poll \in {"first", "again", "scan1", "scan"}
        /\ seen \subseteq Pids /\ visit \subseteq Pids /\ current \subseteq Pids
        /\ "exec" \in Kinds /\ "metric" \in Kinds /\ "scan" \in Kinds
    BY LinkTypes DEF LinkInv, LinkTypeOK
  <2>2. ASSUME NEW p \in Pids, Fork(p) \/ Exit(p) PROVE LinkInv'
    <3>1. /\ UNCHANGED <<made, q, const, tunnelVars, storeVars>> /\ running' \subseteq Pids
          /\ mode' = mode /\ kernel' = kernel /\ poll' = poll /\ seen' = seen /\ visit' = visit
          /\ current' = current
      BY <2>1, <2>2 DEF Fork, Exit
    <3> QED BY <2>1, <3>1, HostMoves
  <2>3. ASSUME NEW p \in Pids, Exec(p) PROVE LinkInv'
    <3>1. /\ UNCHANGED <<made, q, const, tunnelVars, storeVars>> /\ running' = running
          /\ mode' = mode /\ kernel' = Append(kernel, p) /\ poll' = poll /\ seen' = seen
          /\ visit' = visit /\ current' = current
      BY <2>3 DEF Exec
    <3>2. kernel' \in Seq(Pids)
      BY <2>1, <3>1
    <3> QED BY <2>1, <3>1, <3>2, HostMoves
  <2>4. CASE ConnectorRead
    <3>1. /\ Collect("exec") /\ UNCHANGED <<const, tunnelVars, storeVars>> /\ running' = running
          /\ mode' = mode /\ kernel # <<>> /\ kernel' = Tail(kernel) /\ poll' = poll
          /\ seen' = seen /\ visit' = visit /\ current' = current
      BY <2>4 DEF ConnectorRead
    <3>2. kernel' \in Seq(Pids)
      BY <2>1, <3>1
    <3> QED BY <2>1, <3>1, <3>2, CollectStep
  <2>5. CASE ConnectorFails
    <3>1. /\ UNCHANGED <<made, q, const, tunnelVars, storeVars>> /\ running' = running
          /\ mode' = "poll" /\ kernel' = <<>> /\ poll' = poll /\ seen' = seen /\ visit' = visit
          /\ current' = current
      BY <2>5 DEF ConnectorFails
    <3>2. kernel' \in Seq(Pids)
      BY <3>1
    <3> QED BY <2>1, <3>1, <3>2, HostMoves
  <2>6. CASE PollBegin
    <3>1. /\ UNCHANGED <<made, q, const, tunnelVars, storeVars>> /\ running' = running
          /\ mode' = mode /\ kernel' = kernel /\ seen' = seen
          /\ current' \subseteq running /\ visit' = current' /\ poll' \in {"scan1", "scan"}
      BY <2>6 DEF PollBegin
    <3> QED BY <2>1, <3>1, HostMoves
  <2>7. CASE PollEnd
    <3>1. /\ UNCHANGED <<made, q, const, tunnelVars, storeVars>> /\ running' = running
          /\ mode' = mode /\ kernel' = kernel /\ seen' = seen \cap current /\ visit' = visit
          /\ current' = {} /\ poll' = "again"
      BY <2>7 DEF PollEnd
    <3> QED BY <2>1, <3>1, HostMoves
  <2>8. ASSUME NEW p \in Pids, PollVisit(p) PROVE LinkInv'
    <3>1. /\ UNCHANGED <<const, tunnelVars, storeVars>> /\ running' = running /\ mode' = mode
          /\ kernel' = kernel /\ poll' = poll /\ current' = current
          /\ visit' \subseteq Pids /\ seen' \subseteq Pids
      BY <2>1, <2>8 DEF PollVisit
    <3>2. CASE UNCHANGED <<made, q>>
      BY <2>1, <3>1, <3>2, HostMoves
    <3>3. CASE Collect("exec")
      BY <2>1, <3>1, <3>3, CollectStep
    <3> QED BY <2>8, <3>2, <3>3 DEF PollVisit
  <2>9. ASSUME NEW k \in Kinds, Collect(k), UNCHANGED <<hostVars, tunnelVars, storeVars>>
        PROVE  LinkInv'
    <3>1. /\ UNCHANGED <<const, tunnelVars, storeVars>> /\ running' = running /\ mode' = mode
          /\ kernel' = kernel /\ poll' = poll /\ seen' = seen /\ visit' = visit
          /\ current' = current
      BY <2>9 DEF hostVars
    <3> QED BY <2>1, <2>9, <3>1, CollectStep
  <2>10. CASE Telemetry
    BY <2>1, <2>9, <2>10 DEF Telemetry
  <2>11. ASSUME NEW tool \in BOOLEAN, NEW l \in Listings, VulnScan(tool, l) PROVE LinkInv'
    BY <2>1, <2>9, <2>11 DEF VulnScan
  <2> QED BY <1>1, <2>2, <2>3, <2>4, <2>5, <2>6, <2>7, <2>8, <2>10, <2>11 DEF Host
<1>2. ASSUME NEW c \in Tunnels,
             \/ Connect(c) \/ AgentReadFails(c) \/ Forwarder(c)
             \/ GatewayReads(c) \/ GatewayGivesUp(c)
      PROVE  LinkInv'
  BY <1>2, TakeStep, ConnectionSteps, SentStep, ReadStep DEF Forwarder
<1>3. ASSUME NEW c \in Tunnels, NEW k \in 0..Len(wire[c]), Breaks(c, k) PROVE LinkInv'
  BY <1>3, ConnectionSteps
<1>4. ASSUME UNCHANGED <<hostVars, made, q, tunnelVars, storeVars>> PROVE LinkInv'
  <2>1. /\ running' = running /\ mode' = mode /\ kernel' = kernel /\ seen' = seen /\ visit' = visit
        /\ current' = current /\ poll' = poll /\ distro' = distro /\ bound' = bound
        /\ made' = made /\ q' = q /\ serving' = serving /\ link' = link /\ wire' = wire
        /\ gw' = gw /\ fwd' = fwd /\ audit' = audit /\ metrics' = metrics
    BY <1>4 DEF hostVars, const, tunnelVars, storeVars
  <2>2. LinkTypeOK /\ PlaceInv
    BY DEF LinkInv
  <2>3. LinkTypeOK'
    BY <2>1, <2>2 DEF LinkTypeOK
  <2>4. SeqsOK'
    BY <2>1, <2>2 DEF SeqsOK, PlaceInv
  <2>5. \A e \in Events : Less(e)
    BY <2>1 DEF Less, Queued, Logged, Held, OnWire
  <2>6. PlaceInv' /\ \A e \in Events : Fresh(e) => Fresh(e)'
    BY <2>1, <2>2, <2>4, <2>5, PlacesKept
  <2> QED BY <2>3, <2>6 DEF LinkInv
<1>5. ASSUME NEW n \in Scans, ScanJob(n) PROVE LinkInv'
  BY <1>4, <1>5 DEF ScanJob
<1>6. CASE UNCHANGED linkVars
  BY <1>4, <1>6 DEF linkVars
<1> QED BY <1>1, <1>2, <1>3, <1>5, <1>6 DEF LinkNext

\* An event in one place, once, is what the property says of reports.
LEMMA OnceFromPlaces == LinkInv => RecordedAtMostOnce
<1> SUFFICES ASSUME LinkInv PROVE RecordedAtMostOnce
  OBVIOUS
<1>1. LinkTypeOK /\ PlaceInv
  BY DEF LinkInv
<1>2. /\ audit \in Seq(1..MaxEvents) /\ q \in [Kinds -> Seq(Events)] /\ "exec" \in Kinds
      /\ wire \in [Tunnels -> Seq(Events)]
  BY <1>1, LinkTypes
<1>3. DOMAIN audit = 1..Len(audit) /\ \A i \in 1..Len(audit) : audit[i] \in 1..MaxEvents
  <2>1. \A S : \A s \in Seq(S) : DOMAIN s = 1..Len(s) /\ \A i \in 1..Len(s) : s[i] \in S
    OBVIOUS
  <2> QED BY <1>2, <2>1
<1>4. \A k \in Kinds : DOMAIN q[k] = 1..Len(q[k])
  BY <1>2
<1>5. \A c \in Tunnels : DOMAIN wire[c] = 1..Len(wire[c])
  BY <1>2
<1>6. \A i, j \in DOMAIN audit : i # j => audit[i] # audit[j]
  BY <1>1, <1>3 DEF PlaceInv, Distinct
<1>7. \A k \in Kinds : \A i, j \in DOMAIN q[k] : i # j => q[k][i] # q[k][j]
  BY <1>1, <1>4 DEF PlaceInv, Distinct
<1>8. ASSUME NEW i \in DOMAIN audit, Event("exec", audit[i]) \in InFlight PROVE FALSE
  <2>1. PICK x : x = Event("exec", audit[i])
    OBVIOUS
  <2>2. x \in Events /\ x.kind = "exec" /\ x.n = audit[i]
    BY <1>2, <1>3, <2>1, EventFacts
  <2>3. Logged(x)
    BY <1>3, <2>2 DEF Logged, In
  <2>4. ~Queued(x) /\ \A c \in Tunnels : ~Held(x, c) /\ ~OnWire(x, c)
    BY <1>1, <2>2, <2>3 DEF PlaceInv, OnePlaceOf
  <2>5. /\ \/ \E k \in Kinds : x \in Range(q[k])
           \/ \E c \in Tunnels : x \in Range(wire[c])
           \/ \E c \in Tunnels : x \in {fwd[c]} \cap Events
    BY <1>8, <2>1 DEF InFlight
  <2>6. ASSUME NEW k \in Kinds, x \in Range(q[k]) PROVE FALSE
    <3>1. PICK j \in 1..Len(q[k]) : q[k][j] = x
      BY <1>4, <2>6 DEF Range
    <3>2. x.kind = k
      BY <1>1, <3>1 DEF PlaceInv
    <3> QED BY <2>4, <3>1, <3>2 DEF Queued, In
  <2>7. ASSUME NEW c \in Tunnels, x \in Range(wire[c]) PROVE FALSE
    BY <1>5, <2>4, <2>7 DEF Range, OnWire, In
  <2> QED BY <2>4, <2>5, <2>6, <2>7 DEF Held
<1> QED BY <1>6, <1>7, <1>8 DEF RecordedAtMostOnce

\* Every state of the agent, of its tunnels and of the gateway is as declared,
\* for any number of events, connections and pids and any capacity of the queues.
THEOREM LinkTypeCorrect == LinkSpec => []LinkTypeOK
<1>1. LinkInv => LinkTypeOK
  BY DEF LinkInv
<1> QED BY LinkStart, LinkStep, <1>1, PTL DEF LinkSpec

\* No report of the agent reaches the audit log twice, nor is one that did still on
\* its way, through any hand-over between connections and any failed send.
THEOREM ReportsAreRecordedOnce == LinkSpec => []RecordedAtMostOnce
BY LinkStart, LinkStep, OnceFromPlaces, PTL DEF LinkSpec

-----------------------------------------------------------------------------
(***************************************************************************)
(* What becomes of a scan.                                                 *)
(***************************************************************************)

Own(c) == bucket(Score[c])

\* A goroutine's record has its four fields.
IsJob(j) == j = [pc |-> j.pc, todo |-> j.todo, got |-> j.got, out |-> j.out]

\* Scans not yet made have no goroutine; what a goroutine knows of an advisory
\* is its own severity or nothing.
ScanInv ==
  /\ job = [n \in Scans |-> job[n]] /\ \A n \in Scans : IsJob(job[n])
  /\ \A n \in Scans : n > made["scan"] => (job[n].pc = "none" /\ job[n].todo = {})
  /\ vulnScan.n <= made["scan"]
  /\ \A n \in Scans : \A i \in Fetched(n) : job[n].got[i] \in {"", Own(Id(n, i))}
  /\ \A n \in Scans : \A c \in Cves : job[n].out[c] \in {"", Own(c)}

ScanAll == ScanTypeOK /\ ScanInv /\ SeverityIsOwn

\* A set of numbers that is not empty has a least one ...
LEMMA LeastNumber ==
  \A T \in SUBSET Nat : T # {} => \E m \in T : \A n \in T : m <= n
<1> DEFINE R == OpToRel(<, Nat)
<1>1. IsWellFoundedOn(R, Nat)
  BY NatLessThanWellFounded
<1>2. \A x, y \in Nat : x < y => <<x, y>> \in R
  BY DEF OpToRel
<1> SUFFICES ASSUME NEW T \in SUBSET Nat, T # {}
             PROVE \E m \in T : \A n \in T : m <= n
  OBVIOUS
<1> HIDE DEF R
<1>3. PICK m \in T : \A y \in T : ~ (<<y, m>> \in R)
  BY <1>1, WFMin
<1>4. ASSUME NEW n \in T PROVE m <= n
  <2>1. n \in Nat /\ m \in Nat /\ ~(n < m)
    BY <1>2, <1>3
  <2> QED BY <2>1
<1> QED BY <1>4

\* ... and, when it is bounded, a largest one, which Max returns.
LEMMA MaxIsMember ==
  ASSUME NEW N \in Nat, NEW T \in SUBSET (1..N), T # {}
  PROVE  Max(T) \in T
<1> DEFINE U == {N - i : i \in T}
<1>1. U \in SUBSET Nat /\ U # {}
  <2>1. \A i \in T : N - i \in Nat
    OBVIOUS
  <2> QED BY <2>1
<1>2. PICK m \in U : \A u \in U : m <= u
  BY <1>1, LeastNumber
<1>3. PICK x \in T : m = N - x
  BY <1>2
<1>4. \A y \in T : x >= y
  <2> SUFFICES ASSUME NEW y \in T PROVE x >= y
    OBVIOUS
  <2>1. N - x <= N - y
    BY <1>2, <1>3
  <2> QED BY <2>1
<1> QED BY <1>3, <1>4 DEF Max

\* The empty sequence has no positions.
LEMMA NoPositions == DOMAIN <<>> = {}
<1>1. \A S : \A s \in Seq(S) : DOMAIN s = 1..Len(s)
  OBVIOUS
<1>2. <<>> \in Seq({}) /\ 1..Len(<<>>) = {}
  OBVIOUS
<1> QED BY <1>1, <1>2

\* bucket returns a severity.
LEMMA OwnType == \A c \in Cves : Own(c) \in Severities
<1> SUFFICES ASSUME NEW c \in Cves PROVE bucket(Score[c]) \in Severities
  BY DEF Own
<1>1. Score[c] \in 0..100
  BY ScanAssumption
<1> QED BY <1>1 DEF bucket, Severities, Known

\* The finding that is stored for position i.
LEMMA EnrichedFacts ==
  ASSUME ScanAll, NEW n \in Scans, NEW i \in DOMAIN report[n]
  PROVE  /\ Id(n, i) \in Cves /\ report[n][i].sev \in Severities
         /\ Enriched(n, i) \in [id : Cves, sev : Severities]
         /\ Enriched(n, i).id = report[n][i].id
         /\ Enriched(n, i).sev \in {bucket(Score[report[n][i].id]), report[n][i].sev}
<1>1. report[n] \in Seq([id : Cves, sev : Severities])
  BY DEF ScanAll, ScanTypeOK, Findings
<1>2. report[n][i] \in [id : Cves, sev : Severities]
  <2>1. \A S : \A s \in Seq(S) : \A j \in DOMAIN s : s[j] \in S
    OBVIOUS
  <2> QED BY <1>1, <2>1
<1>3. Id(n, i) \in Cves /\ Id(n, i) = report[n][i].id /\ report[n][i].sev \in Severities
  BY <1>2 DEF Id
<1>4. job[n].out[Id(n, i)] \in {"", Own(Id(n, i))}
  BY <1>3 DEF ScanAll, ScanInv
<1>5. Own(Id(n, i)) \in Severities /\ Own(Id(n, i)) = bucket(Score[report[n][i].id])
  BY <1>3, OwnType DEF Own
<1> QED BY <1>3, <1>4, <1>5 DEF Enriched

\* A goroutine changes, and with it perhaps the cache.
LEMMA JobStep ==
  ASSUME ScanAll, NEW n \in Scans, ~(n > made["scan"]), NEW r, IsJob(r), job' = [job EXCEPT ![n] = r],
         r.pc \in {"none", "start", "fetch", "store", "audit", "done"},
         DOMAIN r.got \subseteq r.todo, r.todo \subseteq DOMAIN report[n],
         \A i \in DOMAIN r.got : r.got[i] \in {"", Own(Id(n, i))},
         \A c \in Cves : r.out[c] \in {"", Own(c)}, r.out \in [Cves -> Severities],
         cache' \in [Cves -> Severities \cup {"unset"}],
         \A c \in Cves : cache'[c] \in {"unset", "", Own(c)},
         UNCHANGED <<report, made, vulnScan>>, made["scan"] \in Nat
  PROVE  ScanAll'
<1>1. job = [m \in Scans |-> job[m]] /\ report' = report /\ made' = made /\ vulnScan' = vulnScan
  BY DEF ScanAll, ScanInv
<1>2. /\ job' = [m \in Scans |-> job'[m]] /\ job'[n] = r
      /\ \A m \in Scans : m # n => job'[m] = job[m]
  BY <1>1
<1>3. \A i \in DOMAIN r.got : i \in DOMAIN report[n] /\ report[n][i].id \in Cves
  <2>1. \A i \in DOMAIN report[n] : Id(n, i) \in Cves
    BY EnrichedFacts
  <2> QED BY <2>1 DEF Id
<1>4. \A i \in DOMAIN r.got : r.got[i] \in Severities
  <2> SUFFICES ASSUME NEW i \in DOMAIN r.got PROVE r.got[i] \in Severities
    OBVIOUS
  <2>1. Own(Id(n, i)) \in Severities
    BY <1>3, OwnType DEF Id
  <2> QED BY <2>1 DEF Severities
<1>5. ScanTypeOK'
  <2>1. /\ report \in [Scans -> Findings] /\ vulnScan \in [n : 0..MaxScans, findings : Findings, crit : Nat]
        /\ \A m \in Scans :
             /\ job[m].pc \in {"none", "start", "fetch", "store", "audit", "done"}
             /\ Fetched(m) \subseteq job[m].todo /\ job[m].todo \subseteq DOMAIN report[m]
             /\ \A i \in Fetched(m) : job[m].got[i] \in Severities
             /\ job[m].out \in [Cves -> Severities]
    BY DEF ScanAll, ScanTypeOK
  <2>2. \A m \in Scans :
             /\ job'[m].pc \in {"none", "start", "fetch", "store", "audit", "done"}
             /\ DOMAIN job'[m].got \subseteq job'[m].todo /\ job'[m].todo \subseteq DOMAIN report[m]
             /\ \A i \in DOMAIN job'[m].got : job'[m].got[i] \in Severities
             /\ job'[m].out \in [Cves -> Severities]
    BY <1>2, <1>4, <2>1 DEF Fetched
  <2> QED BY <1>1, <2>1, <2>2 DEF ScanTypeOK, Fetched
<1>6. ScanInv'
  <2>1. \A m \in Scans : IsJob(job'[m])
    BY <1>2 DEF ScanAll, ScanInv
  <2>3. \A m \in Scans : m > made["scan"] => (job'[m].pc = "none" /\ job'[m].todo = {})
    BY <1>2 DEF ScanAll, ScanInv
  <2>4. \A m \in Scans : \A i \in DOMAIN job'[m].got : job'[m].got[i] \in {"", Own(Id(m, i))}
    BY <1>2 DEF ScanAll, ScanInv, Fetched
  <2>5. \A m \in Scans : \A c \in Cves : job'[m].out[c] \in {"", Own(c)}
    BY <1>2 DEF ScanAll, ScanInv
  <2>6. vulnScan.n <= made["scan"]
    BY DEF ScanAll, ScanInv
  <2>7. \A m \in Scans : IsJob(job[m])'
    BY <2>1 DEF IsJob
  <2>8. \A m \in Scans : \A i \in Fetched(m)' : job'[m].got[i] \in {"", Own(Id(m, i))'}
    BY <1>1, <2>4 DEF Fetched, Id, Own
  <2>9. \A m \in Scans : m > made'["scan"] => (job'[m].pc = "none" /\ job'[m].todo = {})
    BY <1>1, <2>3
  <2>10. vulnScan'.n <= made'["scan"]
    BY <1>1, <2>6
  <2> QED BY <1>2, <2>5, <2>7, <2>8, <2>9, <2>10 DEF ScanInv
<1>7. SeverityIsOwn'
  BY <1>1 DEF ScanAll, SeverityIsOwn, Own
<1> QED BY <1>5, <1>6, <1>7 DEF ScanAll

\* A scan is made: its report is new, and no goroutine nor the store knows it.
LEMMA ReportStep ==
  ASSUME ScanAll, NEW n \in Scans, made["scan"] \in Nat, n = made["scan"] + 1, NEW f \in Findings,
         report' = [report EXCEPT ![n] = f], made'["scan"] = n, UNCHANGED <<job, cache, vulnScan>>
  PROVE  ScanAll'
<1>1. job' = job /\ cache' = cache /\ vulnScan' = vulnScan
  OBVIOUS
<1>2. report \in [Scans -> Findings] /\ vulnScan \in [n : 0..MaxScans, findings : Findings, crit : Nat]
  BY DEF ScanAll, ScanTypeOK
<1>3. report' \in [Scans -> Findings] /\ \A m \in Scans : m # n => report'[m] = report[m]
  BY <1>2
<1>4. n > made["scan"] /\ ~(n <= made["scan"])
  OBVIOUS
<1>5. job[n].todo = {} /\ vulnScan.n <= made["scan"]
  BY <1>4 DEF ScanAll, ScanInv
<1>6. Fetched(n) = {}
  BY <1>5 DEF ScanAll, ScanTypeOK
<1>7. ScanTypeOK'
  <2>1. \A m \in Scans : job[m].todo \subseteq DOMAIN report'[m]
    BY <1>3, <1>5 DEF ScanAll, ScanTypeOK
  <2> QED BY <1>1, <1>3, <2>1 DEF ScanAll, ScanTypeOK, Fetched
<1>8. ScanInv'
  <2>1. \A m \in Scans : m > n => m > made["scan"]
    BY DEF Scans
  <2>2. vulnScan.n <= n
    BY <1>2, <1>5
  <2>3. \A m \in Scans : \A i \in Fetched(m) : report'[m][i].id = report[m][i].id
    BY <1>3, <1>6
  <2>4. \A m \in Scans : \A i \in Fetched(m) : job[m].got[i] \in {"", Own(Id(m, i))'}
    BY <2>3 DEF ScanAll, ScanInv, Id, Own
  <2>5. \A m \in Scans : m > made'["scan"] => (job[m].pc = "none" /\ job[m].todo = {})
    BY <2>1 DEF ScanAll, ScanInv
  <2> QED BY <1>1, <2>2, <2>4, <2>5 DEF ScanAll, ScanInv, IsJob, Fetched
<1>9. SeverityIsOwn'
  <2>1. vulnScan.n # 0 => (vulnScan.n \in Scans /\ vulnScan.n # n)
    BY <1>2, <1>4, <1>5 DEF Scans
  <2>2. vulnScan.n # 0 => report'[vulnScan.n] = report[vulnScan.n]
    BY <1>3, <2>1
  <2> QED BY <1>1, <2>2 DEF ScanAll, SeverityIsOwn
<1> QED BY <1>7, <1>8, <1>9 DEF ScanAll

\* A step of a scan's goroutine.
LEMMA ScanStepKeeps ==
  ASSUME ScanAll, NEW n \in Scans, ScanStep(n), UNCHANGED made, made["scan"] \in Nat
  PROVE  ScanAll'
<1>1. ScanTypeOK /\ ScanInv /\ SeverityIsOwn
  BY DEF ScanAll
<1>2. /\ job = [m \in Scans |-> job[m]] /\ IsJob(job[n])
      /\ \A i \in Fetched(n) : job[n].got[i] \in {"", Own(Id(n, i))}
      /\ \A c \in Cves : job[n].out[c] \in {"", Own(c)}
  BY <1>1 DEF ScanInv
<1>3. /\ job[n].pc \in {"none", "start", "fetch", "store", "audit", "done"}
      /\ Fetched(n) \subseteq job[n].todo /\ job[n].todo \subseteq DOMAIN report[n]
      /\ job[n].out \in [Cves -> Severities]
      /\ cache \in [Cves -> Severities \cup {"unset"}] /\ report \in [Scans -> Findings]
      /\ vulnScan \in [n : 0..MaxScans, findings : Findings, crit : Nat]
  BY <1>1 DEF ScanTypeOK
<1>4. \A c \in Cves : cache[c] \in {"unset", "", Own(c)}
  BY <1>1 DEF SeverityIsOwn, Own
<1>5. \A c \in Cves : Own(c) \in Severities
  BY OwnType
<1>6. PICK L \in Nat : DOMAIN report[n] = 1..L
  <2>1. report[n] \in Seq([id : Cves, sev : Severities])
    BY <1>3 DEF Findings
  <2>2. DOMAIN report[n] = 1..Len(report[n]) /\ Len(report[n]) \in Nat
    BY <2>1
  <2> QED BY <2>2
<1>7. \A i \in DOMAIN report[n] : Id(n, i) \in Cves
  BY EnrichedFacts
<1>8. n \in Nat
  BY ScanAssumption DEF Scans
<1>9. job[n].pc # "none" => (n <= made["scan"] /\ ~(n > made["scan"]))
  <2>1. n > made["scan"] => job[n].pc = "none"
    BY <1>1 DEF ScanInv
  <2> QED BY <1>8, <2>1
<1>10. "" \in Severities
  BY DEF Severities
<1>11. CASE EnrichSplit(n)
  <2>1. PICK todo : todo = {i \in DOMAIN report[n] : cache[Id(n, i)] = "unset"}
    OBVIOUS
  <2>2. PICK r : r = [pc |-> IF todo = {} THEN "store" ELSE "fetch", todo |-> todo, got |-> <<>>,
                      out |-> [c \in Cves |-> IF cache[c] = "unset" THEN "" ELSE cache[c]]]
    OBVIOUS
  <2>3. job' = [job EXCEPT ![n] = r] /\ job[n].pc = "start" /\ UNCHANGED <<report, cache, vulnScan>>
    BY <1>11, <2>1, <2>2 DEF EnrichSplit
  <2>4. IsJob(r) /\ r.pc \in {"store", "fetch"} /\ r.todo = todo /\ r.got = <<>>
        /\ r.out = [c \in Cves |-> IF cache[c] = "unset" THEN "" ELSE cache[c]]
    BY <2>2 DEF IsJob
  <2>5. DOMAIN r.got = {}
    BY <2>4, NoPositions
  <2>6. \A c \in Cves : r.out[c] \in {"", Own(c)}
    BY <1>4, <2>4
  <2>7. r.out \in [Cves -> Severities]
    BY <1>5, <1>10, <2>4, <2>6
  <2>8. todo \subseteq DOMAIN report[n]
    BY <2>1
  <2> QED BY <1>3, <1>4, <1>9, <2>3, <2>4, <2>5, <2>6, <2>7, <2>8, JobStep
<1>12. CASE EnrichMerge(n)
  <2> DEFINE of(c) == {i \in job[n].todo : Id(n, i) = c}
             merged(old) == [c \in Cves |-> IF of(c) # {} THEN job[n].got[Max(of(c))] ELSE old[c]]
  <2>1. /\ job[n].pc = "fetch" /\ Fetched(n) = job[n].todo /\ cache' = merged(cache)
        /\ job' = [job EXCEPT ![n].pc = "store", ![n].out = merged(@)]
        /\ UNCHANGED <<report, vulnScan>>
    BY <1>12 DEF EnrichMerge
  <2>2. \A c \in Cves : of(c) # {} => job[n].got[Max(of(c))] \in {"", Own(c)}
    <3> SUFFICES ASSUME NEW c \in Cves, of(c) # {} PROVE job[n].got[Max(of(c))] \in {"", Own(c)}
      OBVIOUS
    <3>1. of(c) \in SUBSET (1..L)
      BY <1>3, <1>6
    <3>2. Max(of(c)) \in of(c)
      BY <3>1, MaxIsMember
    <3>3. Max(of(c)) \in Fetched(n) /\ Id(n, Max(of(c))) = c
      BY <2>1, <3>2
    <3> QED BY <1>2, <3>3
  <2> HIDE DEF of
  <2>3. PICK r : r = [job[n] EXCEPT !.pc = "store", !.out = merged(job[n].out)]
    OBVIOUS
  <2>4. IsJob(r) /\ r.pc = "store" /\ r.todo = job[n].todo /\ r.got = job[n].got
        /\ r.out = merged(job[n].out)
    <3> HIDE DEF merged
    <3> QED BY <1>2, <2>3 DEF IsJob
  <2>5. \A c \in Cves : r.out[c] \in {"", Own(c)}
    BY <1>2, <2>2, <2>4
  <2>6. \A c \in Cves : cache'[c] \in {"unset", "", Own(c)}
    BY <1>4, <2>1, <2>2
  <2>7. r.out \in [Cves -> Severities]
    BY <1>5, <1>10, <2>4, <2>5
  <2>8. cache' \in [Cves -> Severities \cup {"unset"}]
    BY <1>5, <1>10, <2>1, <2>6
  <2>9. job' = [job EXCEPT ![n] = r]
    <3>1. job' = [job EXCEPT ![n] = [job[n] EXCEPT !.pc = "store", !.out = merged(job[n].out)]]
      BY <1>2, <2>1
    <3> QED BY <2>3, <3>1
  <2>10. \A i \in DOMAIN r.got : r.got[i] \in {"", Own(Id(n, i))}
    BY <1>2, <2>4 DEF Fetched
  <2>11. DOMAIN r.got \subseteq r.todo /\ r.todo \subseteq DOMAIN report[n]
    BY <1>3, <2>4 DEF Fetched
  <2>12. ~(n > made["scan"])
    BY <1>9, <2>1
  <2> HIDE DEF merged
  <2> QED BY <2>1, <2>4, <2>5, <2>6, <2>7, <2>8, <2>9, <2>10, <2>11, <2>12, JobStep
<1>13. ASSUME NEW p \in {"audit", "done"}, job[n].pc # "none",
              job' = [job EXCEPT ![n].pc = p], UNCHANGED <<report, cache, vulnScan>>
       PROVE  ScanAll'
  <2>1. PICK r : r = [job[n] EXCEPT !.pc = p]
    OBVIOUS
  <2>2. IsJob(r) /\ r.pc = p /\ r.todo = job[n].todo /\ r.got = job[n].got /\ r.out = job[n].out
    BY <1>2, <2>1 DEF IsJob
  <2>3. job' = [job EXCEPT ![n] = r]
    BY <1>2, <1>13, <2>1
  <2> QED BY <1>2, <1>3, <1>4, <1>9, <1>13, <2>2, <2>3, JobStep DEF Fetched
<1>14. CASE ScanAudited(n)
  BY <1>13, <1>14 DEF ScanAudited
<1>15. ASSUME NEW i \in job[n].todo, NEW v \in {bucket(Score[Id(n, i)]), ""}, Fetch(n, i, v)
       PROVE  ScanAll'
  <2>1. /\ job[n].pc = "fetch" /\ job' = [job EXCEPT ![n].got = Extend(@, i, v)]
        /\ UNCHANGED <<report, cache, vulnScan>>
    BY <1>15 DEF Fetch, Fetching
  <2>2. PICK g : g = Extend(job[n].got, i, v)
    OBVIOUS
  <2>3. DOMAIN g = DOMAIN job[n].got \cup {i} /\ \A j \in DOMAIN g : g[j] = IF j = i THEN v ELSE job[n].got[j]
    BY <2>2 DEF Extend
  <2>4. PICK r : r = [job[n] EXCEPT !.got = g]
    OBVIOUS
  <2>5. IsJob(r) /\ r.pc = "fetch" /\ r.todo = job[n].todo /\ r.got = g /\ r.out = job[n].out
    BY <1>2, <2>1, <2>4 DEF IsJob
  <2>6. job' = [job EXCEPT ![n] = r]
    BY <1>2, <2>1, <2>2, <2>4
  <2>7. v \in {"", Own(Id(n, i))}
    BY DEF Own
  <2>8. \A j \in DOMAIN r.got : r.got[j] \in {"", Own(Id(n, j))}
    BY <1>2, <2>3, <2>5, <2>7 DEF Fetched
  <2>9. DOMAIN r.got \subseteq r.todo /\ r.todo \subseteq DOMAIN report[n]
    BY <1>3, <2>3, <2>5 DEF Fetched
  <2> QED BY <1>2, <1>3, <1>4, <1>9, <2>1, <2>5, <2>6, <2>8, <2>9, JobStep
<1>16. CASE ScanStored(n)
  <2> DEFINE findings == [i \in DOMAIN report[n] |-> Enriched(n, i)]
             crit == Cardinality({i \in DOMAIN findings : findings[i].sev \in {"critical", "high"}})
  <2>1. /\ job[n].pc = "store" /\ job' = [job EXCEPT ![n].pc = "audit"]
        /\ vulnScan' = vulnScan \/ vulnScan' = [n |-> n, findings |-> findings, crit |-> crit]
        /\ UNCHANGED <<report, cache>>
    BY <1>16 DEF ScanStored
  <2>2. CASE vulnScan' = vulnScan
    BY <1>13, <2>1, <2>2
  <2>3. CASE vulnScan' = [n |-> n, findings |-> findings, crit |-> crit]
    <3>1. \A i \in DOMAIN report[n] :
            /\ Enriched(n, i) \in [id : Cves, sev : Severities]
            /\ Enriched(n, i).id = report[n][i].id
            /\ Enriched(n, i).sev \in {bucket(Score[report[n][i].id]), report[n][i].sev}
      BY EnrichedFacts
    <3>2. findings \in Findings /\ Len(findings) = L /\ DOMAIN findings = 1..L
      <4>1. findings \in [1..L -> [id : Cves, sev : Severities]]
        BY <1>6, <3>1
      <4>2. \A S : \A f \in [1..L -> S] : f \in Seq(S) /\ Len(f) = L
        OBVIOUS
      <4> HIDE DEF findings
      <4> QED BY <4>1, <4>2 DEF Findings
    <3>3. Len(report[n]) = L
      <4>1. report[n] \in Seq([id : Cves, sev : Severities])
        BY <1>3 DEF Findings
      <4>2. DOMAIN report[n] = 1..Len(report[n]) /\ Len(report[n]) \in Nat
        BY <4>1
      <4> QED BY <1>6, <4>2
    <3>4. crit \in Nat
      <4> HIDE DEF findings
      <4>1. IsFiniteSet(1..L)
        BY FS_Interval
      <4>2. {i \in DOMAIN findings : findings[i].sev \in {"critical", "high"}} \in SUBSET (1..L)
        BY <3>2
      <4>3. IsFiniteSet({i \in DOMAIN findings : findings[i].sev \in {"critical", "high"}})
        BY <4>1, <4>2, FS_Subset
      <4> QED BY <4>3, FS_CardinalityType
    <3>5. \A i \in DOMAIN findings :
            /\ findings[i].id = report[n][i].id
            /\ findings[i].sev \in {bucket(Score[report[n][i].id]), report[n][i].sev}
      BY <3>1
    <3>6. PICK s : s = [n |-> n, findings |-> findings, crit |-> crit]
      OBVIOUS
    <3>7. n \in 0..MaxScans
      BY ScanAssumption DEF Scans
    <3> HIDE DEF findings, crit
    <3>8. /\ vulnScan' = s /\ s.n = n /\ s.findings = findings
          /\ s \in [n : 0..MaxScans, findings : Findings, crit : Nat]
      BY <2>3, <3>2, <3>4, <3>6, <3>7
    <3>9. PICK r : r = [job[n] EXCEPT !.pc = "audit"]
      OBVIOUS
    <3>10. IsJob(r) /\ r.pc = "audit" /\ r.todo = job[n].todo /\ r.got = job[n].got /\ r.out = job[n].out
      BY <1>2, <3>9 DEF IsJob
    <3>11. /\ job' = [m \in Scans |-> job'[m]] /\ job'[n] = r
           /\ \A m \in Scans : m # n => job'[m] = job[m]
      <4>1. job' = [job EXCEPT ![n] = r]
        BY <1>2, <2>1, <3>9
      <4> QED BY <1>2, <4>1
    <3>12. report' = report /\ cache' = cache /\ made' = made
      BY <2>1
    <3>13. n <= made["scan"]
      BY <1>9, <2>1
    <3>14. ScanTypeOK'
      <4>1. \A m \in Scans :
             /\ job'[m].pc \in {"none", "start", "fetch", "store", "audit", "done"}
             /\ job'[m].todo = job[m].todo /\ job'[m].got = job[m].got /\ job'[m].out = job[m].out
        BY <1>1, <3>10, <3>11 DEF ScanTypeOK
      <4> QED BY <1>1, <3>8, <3>12, <4>1 DEF ScanTypeOK, Fetched
    <3>15. ScanInv'
      <4>1. \A m \in Scans : job'[m].todo = job[m].todo /\ job'[m].got = job[m].got /\ job'[m].out = job[m].out
        BY <3>10, <3>11
      <4>2. \A m \in Scans : IsJob(job[m])'
        BY <1>1, <3>10, <3>11 DEF ScanInv, IsJob
      <4>3. \A m \in Scans : m > made["scan"] => (job'[m].pc = "none" /\ job'[m].todo = {})
        <5>1. ~(n > made["scan"])
          BY <1>8, <3>13
        <5> QED BY <1>1, <3>11, <5>1 DEF ScanInv
      <4>4. \A m \in Scans : \A i \in Fetched(m)' : job'[m].got[i] \in {"", Own(Id(m, i))'}
        BY <1>1, <3>12, <4>1 DEF ScanInv, Fetched, Id, Own
      <4>5. \A m \in Scans : \A c \in Cves : job'[m].out[c] \in {"", Own(c)}
        BY <1>1, <4>1 DEF ScanInv
      <4> QED BY <3>8, <3>11, <3>12, <3>13, <4>2, <4>3, <4>4, <4>5 DEF ScanInv
    <3>16. SeverityIsOwn'
      BY <1>1, <3>2, <3>3, <3>5, <3>8, <3>12 DEF SeverityIsOwn
    <3> QED BY <3>14, <3>15, <3>16 DEF ScanAll
  <2> QED BY <2>1, <2>2, <2>3
<1> QED BY <1>11, <1>12, <1>14, <1>15, <1>16 DEF ScanStep

\* What scanHost returns.
LEMMA ScanHostType == \A tool \in BOOLEAN, l \in Listings : scanHost(tool, l) \in Findings
<1> SUFFICES ASSUME NEW tool \in BOOLEAN, NEW l \in Listings PROVE scanHost(tool, l) \in Findings
  OBVIOUS
<1>1. l \in Seq([id : Cves, word : STRING])
  BY ListingAssumption
<1>2. \A w : normSeverity(w) \in Severities
  BY DEF normSeverity, Severities, Known
<1>3. PICK L \in Nat : DOMAIN l = 1..L /\ \A i \in 1..L : l[i] \in [id : Cves, word : STRING]
  <2>1. \A S : \A s \in Seq(S) : /\ DOMAIN s = 1..Len(s) /\ Len(s) \in Nat
                                 /\ \A i \in 1..Len(s) : s[i] \in S
    OBVIOUS
  <2> QED BY <1>1, <2>1
<1>4. PICK f : f = [i \in DOMAIN l |-> [id |-> l[i].id, sev |-> normSeverity(l[i].word)]]
  OBVIOUS
<1>5. f \in [1..L -> [id : Cves, sev : Severities]]
  BY <1>2, <1>3, <1>4
<1>6. \A S : \A g \in [1..L -> S] : g \in Seq(S)
  OBVIOUS
<1>7. f \in Findings
  BY <1>5, <1>6 DEF Findings
<1>8. <<>> \in Findings
  BY DEF Findings
<1> QED BY <1>4, <1>7, <1>8 DEF scanHost

\* The first state.
LEMMA ScanStart == LinkInit => ScanAll
<1> SUFFICES ASSUME LinkInit PROVE ScanAll
  OBVIOUS
<1>1. /\ report = [n \in Scans |-> <<>>] /\ job = [n \in Scans |-> NoJob]
      /\ cache = [c \in Cves |-> "unset"] /\ vulnScan = [n |-> 0, findings |-> <<>>, crit |-> 0]
      /\ made["scan"] = 0
  BY DEF LinkInit, ScanInit, Kinds
<1>2. /\ IsJob(NoJob) /\ NoJob.pc = "none" /\ NoJob.todo = {} /\ NoJob.got = <<>>
      /\ NoJob.out = [c \in Cves |-> ""]
  BY DEF NoJob, IsJob
<1>3. DOMAIN NoJob.got = {}
  BY <1>2, NoPositions
<1>4. <<>> \in Findings /\ "" \in Severities
  BY DEF Findings, Severities
<1>5. \A n \in Scans : job[n] = NoJob
  BY <1>1
<1>6. NoJob.out \in [Cves -> Severities]
  BY <1>2, <1>4
<1>7. ScanTypeOK
  <2>1. report \in [Scans -> Findings] /\ cache \in [Cves -> Severities \cup {"unset"}]
    BY <1>1, <1>4
  <2>2. vulnScan \in [n : 0..MaxScans, findings : Findings, crit : Nat]
    <3>1. 0 \in 0..MaxScans /\ 0 \in Nat
      BY ScanAssumption
    <3>2. \A f \in Findings : [n |-> 0, findings |-> f, crit |-> 0]
                              \in [n : 0..MaxScans, findings : Findings, crit : Nat]
      BY <3>1
    <3> QED BY <1>1, <1>4, <3>2
  <2> QED BY <1>2, <1>3, <1>5, <1>6, <2>1, <2>2 DEF ScanTypeOK, Fetched
<1>8. ScanInv
  <2>1. \A c \in Cves : NoJob.out[c] = ""
    BY <1>2
  <2>2. vulnScan.n = 0
    BY <1>1
  <2>3. job = [n \in Scans |-> job[n]]
    BY <1>1
  <2>4. vulnScan.n <= made["scan"]
    BY <1>1, <2>2
  <2>5. \A n \in Scans : Fetched(n) = {}
    BY <1>3, <1>5 DEF Fetched
  <2>6. \A n \in Scans : \A c \in Cves : job[n].out[c] \in {"", Own(c)}
    BY <1>5, <2>1
  <2>7. \A n \in Scans : IsJob(job[n]) /\ job[n].pc = "none" /\ job[n].todo = {}
    BY <1>2, <1>5
  <2> QED BY <2>3, <2>4, <2>5, <2>6, <2>7 DEF ScanInv
<1>9. SeverityIsOwn
  BY <1>1 DEF SeverityIsOwn
<1> QED BY <1>7, <1>8, <1>9 DEF ScanAll

\* Every step: a scan that is read was made, so its goroutine's number is a scan's.
LEMMA ScanNext == ScanAll /\ LinkInv /\ [LinkNext]_linkVars => ScanAll'
<1> SUFFICES ASSUME ScanAll, LinkInv, [LinkNext]_linkVars PROVE ScanAll'
  OBVIOUS
<1>1. LinkTypeOK /\ PlaceInv
  BY DEF LinkInv
<1>2. made \in [Kinds -> Nat] /\ "scan" \in Kinds
  BY <1>1, LinkTypes
<1>3. made["scan"] \in Nat /\ made["scan"] <= bound["scan"] /\ bound["scan"] <= MaxScans
      /\ bound["scan"] \in Nat /\ MaxScans \in Nat
  <2>1. bound \in Bounds /\ bound \in [Kinds -> 0..MaxEvents] /\ MaxEvents \in Nat
        /\ made["scan"] <= bound["scan"]
    BY <1>1, <1>2, LinkTypes
  <2>2. bound.scan <= MaxScans
    BY <2>1, LinkAssumption
  <2> QED BY <1>2, <2>1, <2>2, ScanAssumption
<1>4. ASSUME UNCHANGED <<report, job, cache, vulnScan>>, made'["scan"] = made["scan"] PROVE ScanAll'
  <2>1. report' = report /\ job' = job /\ cache' = cache /\ vulnScan' = vulnScan
    BY <1>4
  <2>2. ScanTypeOK' /\ SeverityIsOwn'
    BY <2>1 DEF ScanAll, ScanTypeOK, SeverityIsOwn, Fetched
  <2>3. ScanInv'
    BY <1>4, <2>1 DEF ScanAll, ScanInv, IsJob, Fetched, Id, Own
  <2> QED BY <2>2, <2>3 DEF ScanAll
<1>5. ASSUME UNCHANGED <<scanVars, made>> PROVE ScanAll'
  BY <1>4, <1>5 DEF scanVars
<1>6. CASE Host
  <2>1. ASSUME NEW k \in Kinds, k # "scan", Collect(k), UNCHANGED scanVars PROVE ScanAll'
    <3>1. UNCHANGED <<report, job, cache, vulnScan>> /\ made' = [made EXCEPT ![k] = @ + 1]
      BY <2>1 DEF Collect, scanVars
    <3>2. made'["scan"] = made["scan"]
      BY <1>2, <2>1, <3>1
    <3> QED BY <1>4, <3>1, <3>2
  <2>2. ASSUME NEW p \in Pids, Fork(p) \/ Exec(p) \/ Exit(p) PROVE ScanAll'
    BY <1>5, <2>2 DEF Fork, Exec, Exit
  <2>3. CASE ConnectorFails \/ PollBegin \/ PollEnd
    BY <1>5, <2>3 DEF ConnectorFails, PollBegin, PollEnd
  <2>4. CASE ConnectorRead \/ Telemetry
    BY <2>1, <2>4 DEF ConnectorRead, Telemetry, Kinds
  <2>5. ASSUME NEW p \in Pids, PollVisit(p) PROVE ScanAll'
    <3>1. CASE UNCHANGED <<made, q>>
      BY <1>5, <2>5, <3>1 DEF PollVisit
    <3>2. CASE Collect("exec")
      BY <2>1, <2>5, <3>2 DEF PollVisit, Kinds
    <3> QED BY <2>5, <3>1, <3>2 DEF PollVisit
  <2>6. ASSUME NEW tool \in BOOLEAN, NEW l \in Listings, VulnScan(tool, l) PROVE ScanAll'
    <3>1. PICK n : n = made["scan"] + 1
      OBVIOUS
    <3>2. /\ made["scan"] < bound["scan"] /\ made' = [made EXCEPT !["scan"] = n]
          /\ report' = [report EXCEPT ![n] = scanHost(tool, l)] /\ UNCHANGED <<job, cache, vulnScan>>
      BY <1>2, <2>6, <3>1 DEF VulnScan, Collect
    <3>3. n <= bound["scan"] /\ n \in Scans /\ made'["scan"] = n
      BY <1>2, <1>3, <3>1, <3>2 DEF Scans
    <3>4. scanHost(tool, l) \in Findings
      BY ScanHostType
    <3> QED BY <1>3, <3>1, <3>2, <3>3, <3>4, ReportStep
  <2> QED BY <1>6, <2>2, <2>3, <2>4, <2>5, <2>6 DEF Host
<1>7. ASSUME NEW c \in Tunnels,
             Connect(c) \/ AgentReadFails(c) \/ Forwarder(c) \/ GatewayGivesUp(c)
      PROVE  ScanAll'
  BY <1>5, <1>7 DEF Connect, AgentReadFails, Forwarder, Take, ForwarderStops, Sent, SendFails,
                    GatewayGivesUp
<1>8. ASSUME NEW c \in Tunnels, NEW k \in 0..Len(wire[c]), Breaks(c, k) PROVE ScanAll'
  BY <1>5, <1>8 DEF Breaks
<1>9. ASSUME NEW c \in Tunnels, GatewayReads(c) PROVE ScanAll'
  <2>1. wire[c] \in Seq(Events) /\ wire[c] # <<>>
    BY <1>1, <1>9, LinkTypes DEF GatewayReads
  <2>2. PICK e \in Events : e = Head(wire[c]) /\ In(e, wire[c])
    BY <2>1, InTail
  <2>3. UNCHANGED <<report, cache, vulnScan, made>>
    BY <1>9 DEF GatewayReads
  <2>4. CASE e.kind # "scan"
    <3>1. job' = job
      BY <1>9, <2>2, <2>4 DEF GatewayReads
    <3> QED BY <1>4, <2>3, <3>1
  <2>5. CASE e.kind = "scan"
    <3>1. job' = [job EXCEPT ![e.n].pc = "start"]
      BY <1>9, <2>2, <2>5 DEF GatewayReads, OnScan
    <3>2. e.n <= made["scan"]
      <4>1. ~Fresh(e)
        BY <2>2 DEF Fresh, OnWire
      <4> QED BY <1>1, <2>5, <4>1 DEF PlaceInv
    <3>3. PICK n : n = e.n
      OBVIOUS
    <3>4. n \in 1..MaxEvents /\ MaxEvents \in Nat
      BY <3>3, EventFacts, LinkAssumption
    <3>5. n \in Scans /\ ~(n > made["scan"])
      BY <1>3, <3>2, <3>3, <3>4 DEF Scans
    <3>6. job = [m \in Scans |-> job[m]] /\ IsJob(job[n])
      BY <3>5 DEF ScanAll, ScanInv
    <3>7. PICK r : r = [job[n] EXCEPT !.pc = "start"]
      OBVIOUS
    <3>8. IsJob(r) /\ r.pc = "start" /\ r.todo = job[n].todo /\ r.got = job[n].got /\ r.out = job[n].out
      BY <3>6, <3>7 DEF IsJob
    <3>9. job' = [job EXCEPT ![n] = r]
      BY <3>1, <3>3, <3>5, <3>6, <3>7
    <3>10. /\ Fetched(n) \subseteq job[n].todo /\ job[n].todo \subseteq DOMAIN report[n]
           /\ job[n].out \in [Cves -> Severities] /\ cache \in [Cves -> Severities \cup {"unset"}]
      BY <3>5 DEF ScanAll, ScanTypeOK
    <3>11. /\ \A i \in DOMAIN r.got : r.got[i] \in {"", Own(Id(n, i))}
           /\ \A d \in Cves : r.out[d] \in {"", Own(d)}
      BY <3>5, <3>8 DEF ScanAll, ScanInv, Fetched
    <3>12. \A d \in Cves : cache[d] \in {"unset", "", Own(d)}
      BY DEF ScanAll, SeverityIsOwn, Own
    <3>13. DOMAIN r.got \subseteq r.todo /\ r.todo \subseteq DOMAIN report[n] /\ r.out \in [Cves -> Severities]
      BY <3>8, <3>10 DEF Fetched
    <3> QED BY <1>3, <2>3, <3>5, <3>8, <3>9, <3>10, <3>11, <3>12, <3>13, JobStep
  <2> QED BY <2>4, <2>5
<1>10. ASSUME NEW n \in Scans, ScanJob(n) PROVE ScanAll'
  BY <1>3, <1>10, ScanStepKeeps DEF ScanJob
<1>11. CASE UNCHANGED linkVars
  BY <1>5, <1>11 DEF linkVars
<1> QED BY <1>6, <1>7, <1>8, <1>9, <1>10, <1>11 DEF LinkNext

\* Every scan, cached severity and stored finding is as declared.
THEOREM ScanTypeCorrect == LinkSpec => []ScanTypeOK
<1>1. ScanAll => ScanTypeOK
  BY DEF ScanAll
<1> QED BY LinkStart, LinkStep, ScanStart, ScanNext, <1>1, PTL DEF LinkSpec

\* For any number of scans, advisories and concurrent fetches: the cached and the
\* stored severities are the advisory's own.
THEOREM SeveritiesAreOwn == LinkSpec => []SeverityIsOwn
<1>1. ScanAll => SeverityIsOwn
  BY DEF ScanAll
<1> QED BY LinkStart, LinkStep, ScanStart, ScanNext, <1>1, PTL DEF LinkSpec
=============================================================================
