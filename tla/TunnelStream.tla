---------------------------- MODULE TunnelStream ----------------------------
(***************************************************************************)
(* The streams multiplexed over one agent WebSocket, at both ends          *)
(* (internal/agent/registry.go: AgentConn, ReadLoop, stream; cmd/agent     *)
(* bridge).  Both ends run the same code: one ReadLoop that hands each     *)
(* frame to its stream and waits, in deliver, until the stream's reader    *)
(* has taken it, so that a slow reader holds up every other stream.        *)
(* Payloads are chunk numbers.  ByteStream is what it promises.            *)
(***************************************************************************)
EXTENDS Naturals, Sequences

CONSTANTS Streams,   \* calls of openStream
          Bounds,    \* a behaviour is bounded by one member: the chunks that
                     \* each end writes, over all streams, and whether the
                     \* connection may be lost (breaks)
          BufCap     \* frames that the socket buffers hold in one direction

ASSUME BoundsAssumption == /\ Bounds \subseteq [{"gateway", "agent", "breaks"} -> Nat]
                           /\ BufCap \in Nat \ {0}

VARIABLES
  wire,    \* wire[e]: frames on their way to end e
  closed,  \* the ends whose AgentConn.closed is set (their socket is closed)
  table,   \* table[e]: AgentConn.streams
  pipe,    \* pipe[e][s]: "none", "open", "eof" (pw closed), "closed" (pr too)
  held,    \* held[e]: the chunk ReadLoop is delivering, << >> if none
  app,     \* app[e][s]: what the owner of the stream is doing with it
  sent,    \* sent[e][s]: chunks written before the Close frame
  budget,  \* what the bounds still allow
  got,     \* got[e][s]: chunks read from the pipe
  ended    \* ended[e]: streams whose reader got EOF or a closed pipe

linkVars == <<wire, closed>>
muxVars == <<table, pipe, held>>
userVars == <<app, sent, budget, got, ended>>
vars == <<linkVars, muxVars, userVars>>

Ends == {"gateway", "agent"}
Peer(e) == IF e = "gateway" THEN "agent" ELSE "gateway"

\* The owner has the stream and has not begun to close it.
InUse == {"opening", "open"}
\* No Close frame has been written: the owner uses the stream, or stream.Close
\* ("hanging") waits in writeFrame.
Unclosed == {"open", "hanging"}
\* stream.Close has written its Close frame.
HungUp == {"closing", "closed"}

Open(s) == [typ |-> "open", id |-> s, n |-> 0]
Data(s, n) == [typ |-> "data", id |-> s, n |-> n]
CloseFrame(s) == [typ |-> "close", id |-> s, n |-> 0]
Frames == [typ : {"open", "data", "close"}, id : Streams, n : Nat]

PerStream(v) == [e \in Ends |-> [s \in Streams |-> v]]

Init ==
  /\ wire = [e \in Ends |-> << >>]
  /\ closed = {}
  /\ table = [e \in Ends |-> {}]
  /\ pipe = PerStream("none")
  /\ held = [e \in Ends |-> << >>]
  /\ app = PerStream("idle")
  /\ sent = PerStream(0)
  /\ budget \in Bounds
  /\ got = PerStream(<< >>)
  /\ ended = [e \in Ends |-> {}]

-----------------------------------------------------------------------------
\* writeFrame by end e.  It waits, holding writeMu, while the buffers are
\* full; what is written to a peer that has gone is lost without an error.
WriteFrame(e, f) ==
  /\ e \notin closed
  /\ Peer(e) \notin closed => Len(wire[Peer(e)]) < BufCap
  /\ wire' = IF Peer(e) \in closed THEN wire
             ELSE [wire EXCEPT ![Peer(e)] = Append(@, f)]

App(e, s, from, to) == app[e][s] \in from /\ app' = [app EXCEPT ![e][s] = to]
SetPipe(e, s, v) == pipe' = [pipe EXCEPT ![e][s] = v]

\* openStream, under ac.mu: a closed connection is refused.
OpenStream(s) ==
  /\ "gateway" \notin closed
  /\ App("gateway", s, {"idle"}, "opening")
  /\ table' = [table EXCEPT !["gateway"] = @ \cup {s}]
  /\ SetPipe("gateway", s, "open")
  /\ UNCHANGED <<linkVars, held, sent, budget, got, ended>>

\* The Open frame is written and the SSH client gets the stream.
OpenSent(s) ==
  /\ App("gateway", s, {"opening"}, "open")
  /\ WriteFrame("gateway", Open(s))
  /\ UNCHANGED <<closed, muxVars, sent, budget, got, ended>>

\* The write fails: removeStream, and nobody ever sees the stream.
OpenFails(s) ==
  /\ closed # {}
  /\ App("gateway", s, {"opening"}, "failed")
  /\ table' = [table EXCEPT !["gateway"] = @ \ {s}]
  /\ UNCHANGED <<linkVars, pipe, held, sent, budget, got, ended>>

\* Mutant: a bridge that does not reach sshd returns without closing.
DialSSHDLeaks(s) ==
  /\ \E to \in {"open", "failed"} : App("agent", s, {"opening"}, to)
  /\ UNCHANGED <<linkVars, muxVars, sent, budget, got, ended>>

\* bridge reaches sshd (a failure to do so is StreamClose from "opening").
DialSSHD(s) ==
  /\ App("agent", s, {"opening"}, "open")
  /\ UNCHANGED <<linkVars, muxVars, sent, budget, got, ended>>

\* stream.Write.  Nothing in it looks at whether the stream is closed: the
\* copying goroutine may still write a chunk that it had read before, ahead of
\* the Close frame or behind it (0).
Write(e, s) ==
  /\ app[e][s] \in Unclosed \cup HungUp /\ budget[e] > 0
  /\ budget' = [budget EXCEPT ![e] = @ - 1]
  /\ IF app[e][s] \in Unclosed
     THEN /\ sent' = [sent EXCEPT ![e][s] = @ + 1]
          /\ WriteFrame(e, Data(s, sent[e][s] + 1))
     ELSE sent' = sent /\ WriteFrame(e, Data(s, 0))
  /\ UNCHANGED <<closed, muxVars, app, got, ended>>

\* stream.Read with a chunk waiting in the pipe.
Read(e, s) ==
  /\ app[e][s] \notin {"idle", "opening"}
  /\ held[e] # << >> /\ held[e][1].id = s /\ pipe[e][s] = "open"
  /\ got' = [got EXCEPT ![e][s] = Append(@, held[e][1].n)]
  /\ held' = [held EXCEPT ![e] = << >>]
  /\ UNCHANGED <<linkVars, table, pipe, app, sent, budget, ended>>

\* stream.Read on a pipe that the tunnel closed (who closes the stream itself
\* is not told anything new by its reader's error).
ReadEOF(e, s) ==
  /\ app[e][s] \in {"open", "hanging", "closing"}
  /\ pipe[e][s] = "eof" /\ s \notin ended[e]
  /\ ended' = [ended EXCEPT ![e] = @ \cup {s}]
  /\ UNCHANGED <<linkVars, muxVars, app, sent, budget, got>>

\* stream.Close is called, by whomever.  The reader of the stream may be gone
\* already: bridge closes it when io.Copy(local, stream) has returned, or when
\* that copy is about to fail because local is closed.
StreamClose(e, s) ==
  /\ App(e, s, IF e = "agent" THEN InUse ELSE {"open"}, "hanging")
  /\ UNCHANGED <<linkVars, muxVars, sent, budget, got, ended>>

\* ... it gets its Close frame written (an error is ignored) ...
CloseSent(e, s) ==
  /\ App(e, s, {"hanging"}, "closing")
  /\ WriteFrame(e, CloseFrame(s)) \/ (closed # {} /\ wire' = wire)
  /\ UNCHANGED <<closed, muxVars, sent, budget, got, ended>>

\* Mutant: the pipe is left open.
StreamRemoveOnly(e, s) ==
  /\ App(e, s, {"closing"}, "closed")
  /\ table' = [table EXCEPT ![e] = @ \ {s}]
  /\ UNCHANGED <<linkVars, pipe, held, sent, budget, got, ended>>

\* ... then removeStream, and both halves of the pipe are closed.
StreamRemove(e, s) ==
  /\ App(e, s, {"closing"}, "closed")
  /\ table' = [table EXCEPT ![e] = @ \ {s}]
  /\ SetPipe(e, s, "closed")
  /\ UNCHANGED <<linkVars, held, sent, budget, got, ended>>

-----------------------------------------------------------------------------
(* ReadLoop of end e, one frame at a time. *)

NextFrame(e, typ) ==
  /\ e \notin closed /\ held[e] = << >>
  /\ wire[e] # << >> /\ Head(wire[e]).typ = typ
  /\ wire' = [wire EXCEPT ![e] = Tail(@)]

\* FrameOpen: the agent starts a bridge; the gateway has no onOpen.
ReadOpen(e) ==
  LET s == Head(wire[e]).id IN
  /\ NextFrame(e, "open") /\ e = "agent"
  /\ table' = [table EXCEPT ![e] = @ \cup {s}]
  /\ SetPipe(e, s, "open")
  /\ App(e, s, {"idle"}, "opening")
  /\ UNCHANGED <<closed, held, sent, budget, got, ended>>

\* Mutant: a chunk that nobody is waiting for is dropped.
ReadDataNoWait(e) ==
  LET f == Head(wire[e]) IN
  /\ NextFrame(e, "data")
  /\ held' = [held EXCEPT ![e] = IF f.id \in table[e] /\ app[e][f.id] = "open"
                                 THEN <<f>> ELSE << >>]
  /\ UNCHANGED <<closed, table, pipe, userVars>>

\* FrameData: deliver, unless the stream is unknown.
ReadData(e) ==
  LET f == Head(wire[e]) IN
  /\ NextFrame(e, "data")
  /\ held' = [held EXCEPT ![e] = IF f.id \in table[e] THEN <<f>> ELSE << >>]
  /\ UNCHANGED <<closed, table, pipe, userVars>>

\* The pipe was closed under deliver: the chunk is lost, the loop goes on.
DeliverFails(e) ==
  /\ held[e] # << >> /\ pipe[e][held[e][1].id] # "open"
  /\ held' = [held EXCEPT ![e] = << >>]
  /\ UNCHANGED <<linkVars, table, pipe, userVars>>

\* FrameClose: forget the stream and give its reader EOF.
ReadClose(e) ==
  LET s == Head(wire[e]).id IN
  /\ NextFrame(e, "close")
  /\ table' = [table EXCEPT ![e] = @ \ {s}]
  /\ SetPipe(e, s, IF s \in table[e] THEN "eof" ELSE pipe[e][s])
  /\ UNCHANGED <<closed, held, userVars>>

\* AgentConn.Close: every stream reads EOF and the socket goes.
CloseConn(e) ==
  /\ closed' = closed \cup {e}
  /\ pipe' = [pipe EXCEPT ![e] = [s \in Streams |-> IF s \in table[e] THEN "eof"
                                                    ELSE pipe[e][s]]]
  /\ table' = [table EXCEPT ![e] = {}]
  /\ wire' = [wire EXCEPT ![e] = << >>]
  /\ UNCHANGED <<held, app, sent, got, ended>>

Breaks == budget["breaks"] > 0 /\ budget' = [budget EXCEPT !["breaks"] = @ - 1]

\* ReadMessage fails: the peer or the network is gone, or the read deadline
\* passed.  A loop that waits in deliver does not notice.
ReadFails(e) ==
  /\ e \notin closed /\ held[e] = << >>
  /\ IF Peer(e) \in closed THEN UNCHANGED budget ELSE Breaks
  /\ CloseConn(e)

\* Registry.Register of the agent's next connection closes this one.
Replaced == "gateway" \notin closed /\ Breaks /\ CloseConn("gateway")

-----------------------------------------------------------------------------
ReadLoop(e) == ReadOpen(e) \/ ReadData(e) \/ ReadClose(e) \/ DeliverFails(e)
Reader(e, s) == Read(e, s) \/ ReadEOF(e, s)

Next ==
  \/ \E s \in Streams : OpenStream(s) \/ OpenSent(s) \/ OpenFails(s) \/ DialSSHD(s)
  \/ \E e \in Ends, s \in Streams :
       \/ Write(e, s) \/ Reader(e, s)
       \/ StreamClose(e, s) \/ CloseSent(e, s) \/ StreamRemove(e, s)
  \/ \E e \in Ends : ReadLoop(e) \/ ReadFails(e)
  \/ Replaced

Spec == Init /\ [][Next]_vars

\* What the goroutines of end e do of their own accord: ReadLoop runs; the
\* reader of a stream runs until Close is called (sshd and the SSH client take
\* what they are sent), and need not from then on; an open is completed (a
\* bridge reaches sshd within its timeout, or closes the stream); a Close goes
\* on as soon as there is room for its frame, and a stream whose reader got EOF
\* is closed (by bridge, or by the SSH client's transport); a socket that the
\* peer has closed stops being readable.
Runs(e) ==
  \/ ReadLoop(e)
  \/ Peer(e) \in closed /\ ReadFails(e)
  \/ \E s \in Streams :
       \/ app[e][s] = "open" /\ Reader(e, s)
       \/ CloseSent(e, s) \/ StreamRemove(e, s)
       \/ s \in ended[e] /\ StreamClose(e, s)
       \/ e = "gateway" /\ (OpenSent(s) \/ OpenFails(s))
       \/ e = "agent" /\ DialSSHD(s)

\* Each end runs.  Nobody has to write, hang up or break the connection.
FairSpec == Spec /\ WF_vars(Runs("gateway")) /\ WF_vars(Runs("agent"))

-----------------------------------------------------------------------------
TypeOK ==
  /\ wire \in [Ends -> Seq(Frames)] /\ \A e \in Ends : Len(wire[e]) <= BufCap
  /\ closed \subseteq Ends
  /\ table \in [Ends -> SUBSET Streams]
  /\ pipe \in [Ends -> [Streams -> {"none", "open", "eof", "closed"}]]
  /\ held \in [Ends -> Seq(Frames)]
  /\ app \in [Ends -> [Streams -> {"idle", "failed", "opening"} \cup Unclosed \cup HungUp]]
  /\ sent \in [Ends -> [Streams -> Nat]]
  /\ budget \in [Ends \cup {"breaks"} -> Nat]
  /\ got \in [Ends -> [Streams -> Seq(Nat)]]
  /\ ended \in [Ends -> SUBSET Streams]

\* Registry.go's streams are the reliable, ordered connections that an SSH
\* client may run over: what is read is a prefix of what was written, and an
\* end of file is either the peer's, after its last chunk, or the reader's own
\* doing, or the end of the whole connection.
BS == INSTANCE ByteStream
        WITH hung <- [e \in Ends |-> {s \in Streams : app[e][s] \in HungUp}],
             broken <- closed # {}
ImplementsByteStream == BS!Spec

\* A stream's place in a table means that frames for it still have a reader
\* to go to or a Close frame to come: an end that has forgotten a stream, or
\* lost its connection, never leaves its reader waiting on the pipe.
ForgottenIsEnded ==
  \A e \in Ends, s \in Streams :
    (s \notin table[e] /\ app[e][s] \in {"opening"} \cup Unclosed) => pipe[e][s] = "eof"

\* The two ends wait for each other: with the buffers full in both directions,
\* each ReadLoop is delivering to a stream whose reader is gone and whose Close
\* waits for room.  Neither read deadline is looked at: nothing ends this.
Deadlocked ==
  \A e \in Ends : /\ Len(wire[e]) = BufCap /\ held[e] # << >>
                  /\ app[e][held[e][1].id] = "hanging"

\* deliver blocks ReadLoop for one stream's sake and so stalls every stream of
\* the agent, but there is only one way in which it does so for ever: once the
\* writers pause every chunk has reached its reader, unless that reader closed
\* the stream, the connection was lost, or a Close at each end waits for the
\* other with the buffers full.
ChunksArrive ==
  <>[](\/ Deadlocked
       \/ \A e \in Ends, s \in Streams :
            \/ Len(got[e][s]) = sent[Peer(e)][s]
            \/ app[e][s] \in {"hanging"} \cup HungUp \/ closed # {})

\* A stream that one end closes goes away at both, again unless two Closes wait
\* for each other: every Close is completed, no entry is left in a table, and
\* the other end's owner (the bridge and its sshd connection, or the SSH client)
\* closes the stream too.
HangUpReachesPeer ==
  <>[](\/ Deadlocked
       \/ \A e \in Ends, s \in Streams :
            app[e][s] \in {"hanging"} \cup HungUp =>
              /\ app[e][s] = "closed" /\ app[Peer(e)][s] \in {"idle", "closed"}
              /\ s \notin table[e] \cup table[Peer(e)])
=============================================================================
