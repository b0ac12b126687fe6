----------------------------- MODULE AgentTunnel -----------------------------
(***************************************************************************)
(* The gateway side of the agent tunnel for one server                     *)
(* (internal/agent/registry.go, tunnel.go): the TunnelHandlers of the      *)
(* agent's successive connections, the Registry slot they compete for, the *)
(* server's status column, and the multiplexed streams that Registry.Dial  *)
(* opens on whichever connection is current.  An agent that reconnects     *)
(* (cmd/agent reconnects after 5s) arrives while the gateway may still     *)
(* believe in its old connection for up to heartbeatTimeout.               *)
(***************************************************************************)
EXTENDS Integers, FiniteSets

CONSTANTS Conns,   \* successive agent connections (AgentConn, TunnelHandler)
          Dials,   \* calls of Registry.Dial, and the stream each opens
          NoConn,  \* no agent registered / not dialled yet
          LostUpdates \* the UPDATE of a server's status may fail unnoticed

ASSUME NoConnAssumption == NoConn \notin Conns
ASSUME LostUpdatesAssumption == LostUpdates \in BOOLEAN

VARIABLES
  tpc,      \* where the TunnelHandler of each connection is
  ws,       \* its WebSocket: "none", "up", "dead" (peer silent), "down"
  closed,   \* the connections whose AgentConn.closed is set
  streams,  \* AgentConn.streams
  agents,   \* Registry.agents[serverID]
  status,   \* servers.status
  dpc,      \* where each Dial is
  conn,     \* the AgentConn it got from the Registry
  eof,      \* streams whose pipe is closed for writing: the reader gets EOF
  latest    \* history: the last connection registered

handlerVars == <<tpc, status>>
connVars == <<ws, closed, streams, eof>>
registryVars == <<agents, latest>>
dialVars == <<dpc, conn>>
vars == <<handlerVars, connVars, registryVars, dialVars>>

OptConn == Conns \cup {NoConn}
\* The handler has registered its connection and not yet unregistered it.
Registered == {"online", "reading", "unregister"}

Init ==
  /\ tpc = [k \in Conns |-> "idle"]
  /\ ws = [k \in Conns |-> "none"]
  /\ closed = {}
  /\ streams = [k \in Conns |-> {}]
  /\ agents = NoConn
  /\ status = "unknown"
  /\ dpc = [d \in Dials |-> "idle"]
  /\ conn = [d \in Dials |-> NoConn]
  /\ eof = {}
  /\ latest = NoConn

Goto(k, from, to) == tpc[k] = from /\ tpc' = [tpc EXCEPT ![k] = to]

\* AgentConn.Close of the connections in K: streams see EOF, the sockets close.
\* Close of a closed connection returns at once and changes nothing.
CloseConns(K) ==
  /\ closed' = closed \cup K
  /\ eof' = eof \cup {d \in Dials : \E k \in K : d \in streams[k]}
  /\ streams' = [k \in Conns |-> IF k \in K THEN {} ELSE streams[k]]
  /\ ws' = [k \in Conns |-> IF k \in K THEN "down" ELSE ws[k]]

-----------------------------------------------------------------------------
(* TunnelHandler.ServeHTTP. *)

\* The token is known and the upgrade succeeds.
AgentConnects(k) ==
  /\ Goto(k, "idle", "register")
  /\ ws' = [ws EXCEPT ![k] = "up"]
  /\ UNCHANGED <<status, closed, streams, eof, registryVars, dialVars>>

\* An unknown token, a database error or a failed upgrade.
AgentRefused(k) ==
  /\ Goto(k, "idle", "done")
  /\ UNCHANGED <<status, connVars, registryVars, dialVars>>

\* Registry.Register: close the connection it replaces, under r.mu.
Register(k) ==
  /\ Goto(k, "register", "online")
  /\ CloseConns({agents} \cap Conns)
  /\ agents' = k
  /\ latest' = k
  /\ UNCHANGED <<status, dialVars>>

\* UPDATE servers SET status; the error is discarded.
SetStatus(value) == status' \in {value} \cup (IF LostUpdates THEN {status} ELSE {})

MarkOnline(k) ==
  /\ Goto(k, "online", "reading")
  /\ SetStatus("online")
  /\ UNCHANGED <<connVars, registryVars, dialVars>>

\* Mutant: no read deadline, so a silent peer never ends the loop.
ReadLoopNoDeadline(k) ==
  /\ Goto(k, "reading", "unregister")
  /\ ws[k] = "down"
  /\ CloseConns({k})
  /\ UNCHANGED <<status, registryVars, dialVars>>

\* ReadLoop returns (socket closed, peer gone, or the read deadline passed
\* without a ping) and its deferred Close runs.
ReadLoopReturns(k) ==
  /\ Goto(k, "reading", "unregister")
  /\ ws[k] \in {"dead", "down"}
  /\ CloseConns({k})
  /\ UNCHANGED <<status, registryVars, dialVars>>

\* Mutant: Unregister deletes the entry whoever it belongs to.
UnregisterUnguarded(k) ==
  /\ Goto(k, "unregister", "offline")
  /\ agents' = NoConn
  /\ UNCHANGED <<status, connVars, latest, dialVars>>

\* Registry.Unregister: only if it is still the current connection.
Unregister(k) ==
  /\ Goto(k, "unregister", "offline")
  /\ agents' = IF agents = k THEN NoConn ELSE agents
  /\ UNCHANGED <<status, connVars, latest, dialVars>>

\* Mutant: only the handler that just emptied the slot writes the status.
MarkOfflineIfLatest(k) ==
  /\ Goto(k, "offline", "done")
  /\ status' = IF latest = k THEN "offline" ELSE status
  /\ UNCHANGED <<connVars, registryVars, dialVars>>

\* markOffline, whether or not another connection has taken over.
MarkOffline(k) ==
  /\ Goto(k, "offline", "done")
  /\ SetStatus("offline")
  /\ UNCHANGED <<connVars, registryVars, dialVars>>

-----------------------------------------------------------------------------
(* Registry.Dial and the life of a stream. *)

\* Registry.Get.
DialGet(d) ==
  /\ dpc[d] = "idle"
  /\ dpc' = [dpc EXCEPT ![d] = IF agents = NoConn THEN "failed" ELSE "got"]
  /\ conn' = [conn EXCEPT ![d] = agents]
  /\ UNCHANGED <<handlerVars, connVars, registryVars>>

\* Mutant: openStream does not look at ac.closed.
OpenStreamUnchecked(d) ==
  /\ dpc[d] = "got"
  /\ dpc' = [dpc EXCEPT ![d] = "added"]
  /\ streams' = [streams EXCEPT ![conn[d]] = @ \cup {d}]
  /\ UNCHANGED <<handlerVars, ws, closed, eof, registryVars, conn>>

\* openStream, under ac.mu: refuse a closed connection, else add the stream.
OpenStream(d) ==
  /\ dpc[d] = "got"
  /\ dpc' = [dpc EXCEPT ![d] = IF conn[d] \in closed THEN "failed" ELSE "added"]
  /\ streams' = [streams EXCEPT ![conn[d]] = IF conn[d] \in closed THEN @
                                             ELSE @ \cup {d}]
  /\ UNCHANGED <<handlerVars, ws, closed, eof, registryVars, conn>>

\* writeFrame(FrameOpen): the write may get through even as the socket dies.
OpenFrameSent(d) ==
  /\ dpc[d] = "added"
  /\ dpc' = [dpc EXCEPT ![d] = "open"]
  /\ UNCHANGED <<handlerVars, connVars, registryVars, conn>>

RemoveStream(d) ==
  streams' = [streams EXCEPT ![conn[d]] = @ \ {d}]

\* writeFrame fails: removeStream, and Dial returns the error.
OpenFrameFails(d) ==
  /\ dpc[d] = "added" /\ ws[conn[d]] # "up"
  /\ dpc' = [dpc EXCEPT ![d] = "failed"]
  /\ RemoveStream(d)
  /\ UNCHANGED <<handlerVars, ws, closed, eof, registryVars, conn>>

\* FrameClose arrives: the stream is forgotten and its reader gets EOF.
RemoteClose(d) ==
  /\ conn[d] \in Conns /\ tpc[conn[d]] = "reading" /\ ws[conn[d]] = "up"
  /\ dpc[d] = "open" /\ d \in streams[conn[d]]
  /\ RemoveStream(d)
  /\ eof' = eof \cup {d}
  /\ UNCHANGED <<handlerVars, ws, closed, registryVars, dialVars>>

\* stream.Close by the SSH client: Close frame, removeStream, pipe closed.
StreamClose(d) ==
  /\ dpc[d] = "open"
  /\ dpc' = [dpc EXCEPT ![d] = "closed"]
  /\ RemoveStream(d)
  /\ eof' = eof \cup {d}
  /\ UNCHANGED <<handlerVars, ws, closed, registryVars, conn>>

\* The agent's host or network goes away without closing the socket.
AgentDies(k) ==
  /\ ws[k] = "up"
  /\ ws' = [ws EXCEPT ![k] = "dead"]
  /\ UNCHANGED <<handlerVars, closed, streams, eof, registryVars, dialVars>>

-----------------------------------------------------------------------------
Handler(k) ==
  \/ AgentConnects(k) \/ AgentRefused(k) \/ Register(k) \/ MarkOnline(k)
  \/ ReadLoopReturns(k) \/ Unregister(k) \/ MarkOffline(k)

Dial(d) ==
  \/ DialGet(d) \/ OpenStream(d) \/ OpenFrameSent(d) \/ OpenFrameFails(d)
  \/ RemoteClose(d) \/ StreamClose(d)

Next ==
  \/ \E k \in Conns : Handler(k) \/ AgentDies(k)
  \/ \E d \in Dials : Dial(d)

Spec == Init /\ [][Next]_vars

\* Handlers run; the read deadline bounds how long a silent peer is believed.
FairSpec ==
  /\ Spec
  /\ \A k \in Conns : WF_vars(Register(k) \/ MarkOnline(k) \/ ReadLoopReturns(k)
                              \/ Unregister(k) \/ MarkOffline(k))

-----------------------------------------------------------------------------
TypeOK ==
  /\ tpc \in [Conns -> {"idle", "register", "offline", "done"} \cup Registered]
  /\ ws \in [Conns -> {"none", "up", "dead", "down"}]
  /\ closed \subseteq Conns
  /\ streams \in [Conns -> SUBSET Dials]
  /\ agents \in OptConn
  /\ status \in {"unknown", "offline", "online"}
  /\ dpc \in [Dials -> {"idle", "got", "added", "open", "failed", "closed"}]
  /\ conn \in [Dials -> OptConn]
  /\ eof \subseteq Dials
  /\ latest \in OptConn

\* The last agent connection to register is the one Dial uses for as long as
\* its handler lives; the Unregister of a connection it replaced never evicts
\* it, and no finished handler's connection stays in the Registry.
LatestAgentCurrent ==
  \A k \in Conns : (agents = k) <=> (latest = k /\ tpc[k] \in Registered)

\* An agent that reconnected does not leave a second live connection behind:
\* every connection that is or was registered, but is not current, is closed.
ReplacedConnClosed ==
  \A k \in Conns : tpc[k] \in Registered \cup {"offline", "done"}
                     /\ ws[k] # "none" /\ agents # k => k \in closed

\* A dead tunnel hangs nobody: a stream that Dial returned on a connection
\* which has closed since (even between Dial's steps) reads EOF.
NoHangingStream ==
  \A d \in Dials : (dpc[d] \in {"added", "open"} /\ conn[d] \in closed) => d \in eof

\* A closed connection holds no streams, and a stream is in the table of its
\* own connection only between openStream and its end.
StreamTableExact ==
  \A k \in Conns, d \in Dials :
    d \in streams[k] <=> /\ conn[d] = k /\ k \notin closed
                         /\ dpc[d] \in {"added", "open"} /\ d \notin eof

\* With no handler between two of its steps, a server without an agent is not
\* shown as online, provided that the updates of its status reach the database.
NoGhostOnline ==
  (/\ ~LostUpdates /\ agents = NoConn
   /\ \A k \in Conns : tpc[k] \in {"idle", "register", "done"}) => status # "online"

\* A silent agent loses the Registry slot, and its handler ends.
DeadAgentRemoved ==
  \A k \in Conns : ws[k] = "dead" ~> (agents # k /\ tpc[k] = "done")

\* EnrollModal.tsx: a host shows "online once the agent connects".
ConnectedAgentOnline ==
  (agents # NoConn /\ \A k \in Conns : tpc[k] \in {"idle", "reading", "done"})
    => status = "online"

-----------------------------------------------------------------------------
(* The inductive invariant behind the safety properties above. *)

\* What each handler and each dial knows at its program counter.
StepInv ==
  /\ \A k \in Conns :
       /\ tpc[k] \in {"idle", "register"} => k \notin closed /\ streams[k] = {}
                                             /\ latest # k
       /\ tpc[k] = "idle" => ws[k] = "none"
       /\ tpc[k] \in {"register", "offline"} \cup Registered => ws[k] # "none"
       /\ tpc[k] = "done" /\ ws[k] # "none" => k \in closed
       /\ tpc[k] \in {"unregister", "offline"} => k \in closed
  /\ \A d \in Dials :
       /\ dpc[d] \notin {"idle", "failed"} => conn[d] \in Conns
       /\ dpc[d] \in {"idle", "got"} => d \notin eof
       /\ conn[d] \in Conns => tpc[conn[d]] \notin {"idle", "register"}

\* While the last writer of the status wrote "online", it has yet to write
\* "offline".
StatusInv ==
  ~LostUpdates /\ status = "online" =>
    \E k \in Conns : tpc[k] \in Registered \cup {"offline"}

Inv ==
  /\ TypeOK /\ StepInv /\ StatusInv
  /\ LatestAgentCurrent /\ ReplacedConnClosed /\ NoHangingStream
  /\ StreamTableExact /\ NoGhostOnline
=============================================================================
