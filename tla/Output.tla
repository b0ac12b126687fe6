------------------------------- MODULE Output --------------------------------
(***************************************************************************)
(* The way of a shell's output to the recording and to the browser:        *)
(* managedSession.pump (one goroutine for stdout, one for stderr), the     *)
(* repaint ring, writeWS, attach and detach, and the Flush of the          *)
(* recording inside end().  One managed session; a handler is named by its *)
(* browser connection.  A chunk is <<p, k>>: the k-th Read of pump p.      *)
(***************************************************************************)
EXTENDS Integers, Sequences

CONSTANTS Conns,     \* browser connections that attach to the session
          Pumps,     \* the goroutines pumping stdout and stderr
          Nobody,    \* nil: no socket bound, the write mutex free
          RingCap,   \* capacity of the repaint ring, in chunks
          Supply     \* bound: the number of chunks each stream delivers

ASSUME NobodyAssumption == Nobody \notin Conns \cup Pumps
ASSUME DisjointAssumption == Conns \cap Pumps = {}
ASSUME RingAssumption == RingCap \in Nat \ {0}
ASSUME SupplyAssumption == Supply \in [Pumps -> Nat]

VARIABLES
  ppc,      \* where each pump is in its loop
  count,    \* chunks each pump has read; the last one is in its buffer
  to,       \* the ws each pump's writeWS loaded under m.mu
  wmu,      \* holder of managedSession.wmu
  ring,     \* ringBuffer.buf
  rung,     \* history: every chunk ever written to the ring
  cast,     \* the chunks in Recorder.lines
  file,     \* the chunks of the .cast file that sessions.recording_path names
  ws,       \* managedSession.ws
  newest,   \* history: the connection bound last
  hpc,      \* where the handler of each connection is
  painting, \* the snapshot a handler is about to send
  sock,     \* the browser's WebSocket
  recv,     \* what each browser has received, in order
  since,    \* history: the position in rung where a browser's repaint starts
  endpc,    \* progress of end()
  closing   \* the ws end() read under m.mu

pumpVars == <<ppc, count, to>>
ringVars == <<ring, rung>>
castVars == <<cast, file>>
connVars == <<ws, newest, hpc, painting, since>>
wireVars == <<sock, recv>>
endVars == <<endpc, closing>>
vars == <<pumpVars, wmu, ringVars, castVars, connVars, wireVars, endVars>>

Chunks == Pumps \X Nat

\* The chunk in a pump's buffer.
Held(p) == <<p, count[p]>>

Elements(q) == {q[i] : i \in DOMAIN q}

Init ==
  /\ ppc = [p \in Pumps |-> "read"]
  /\ count = [p \in Pumps |-> 0]
  /\ to = [p \in Pumps |-> Nobody]
  /\ wmu = Nobody
  /\ ring = <<>> /\ rung = <<>>
  /\ cast = {} /\ file = {}
  /\ ws = Nobody /\ newest = Nobody
  /\ hpc = [c \in Conns |-> "new"]
  /\ painting = [c \in Conns |-> <<>>]
  /\ since = [c \in Conns |-> 0]
  /\ sock = [c \in Conns |-> "open"]
  /\ recv = [c \in Conns |-> <<>>]
  /\ endpc = "no" /\ closing = Nobody

PumpTo(p, from, next) == ppc[p] = from /\ ppc' = [ppc EXCEPT ![p] = next]

\* WriteMessage: a closed socket takes nothing; the others keep the order.
Send(c, chunks) ==
  recv' = [recv EXCEPT ![c] = IF sock[c] = "closed" THEN @ ELSE @ \o chunks]

-----------------------------------------------------------------------------
(* pump *)

\* rd.Read returns a chunk.  Closing the channel does not discard what it has
\* already buffered, so this may happen after end() has closed the shell.
Read(p) ==
  /\ PumpTo(p, "read", "record")
  /\ count[p] < Supply[p]
  /\ count' = [count EXCEPT ![p] = @ + 1]
  /\ UNCHANGED <<to, wmu, ringVars, castVars, connVars, wireVars, endVars>>

\* rec.RecordOutput: the chunk joins the cast (and the hub and audit log).
RecordOutput(p) ==
  /\ PumpTo(p, "record", "ring")
  /\ cast' = cast \cup {Held(p)}
  /\ UNCHANGED <<count, to, wmu, ringVars, file, connVars, wireVars, endVars>>

\* Mutant: a full ring drops one chunk too many.
RingWriteShort(p) ==
  LET buf == Append(ring, Held(p))
  IN /\ PumpTo(p, "ring", "load")
     /\ ring' = IF Len(buf) > RingCap
                THEN SubSeq(buf, Len(buf) - RingCap + 2, Len(buf)) ELSE buf
     /\ rung' = Append(rung, Held(p))
     /\ UNCHANGED <<count, to, wmu, castVars, connVars, wireVars, endVars>>

\* ring.write: append, and drop from the front what exceeds the capacity.
RingWrite(p) ==
  LET buf == Append(ring, Held(p))
      excess == IF Len(buf) > RingCap THEN Len(buf) - RingCap ELSE 0
  IN /\ PumpTo(p, "ring", "load")
     /\ ring' = SubSeq(buf, excess + 1, Len(buf))
     /\ rung' = Append(rung, Held(p))
     /\ UNCHANGED <<count, to, wmu, castVars, connVars, wireVars, endVars>>

\* writeWS reads m.ws under m.mu; nothing is sent when no socket is bound.
LoadWS(p) ==
  /\ PumpTo(p, "load", IF ws = Nobody THEN "read" ELSE "lock")
  /\ to' = [to EXCEPT ![p] = ws]
  /\ UNCHANGED <<count, wmu, ringVars, castVars, connVars, wireVars, endVars>>

\* Mutant: writeWS sends without taking the write mutex.
LockFree(p) ==
  /\ PumpTo(p, "lock", "write")
  /\ UNCHANGED <<count, to, wmu, ringVars, castVars, connVars, wireVars, endVars>>

LockWS(p) ==
  /\ PumpTo(p, "lock", "write")
  /\ wmu = Nobody
  /\ wmu' = p
  /\ UNCHANGED <<count, to, ringVars, castVars, connVars, wireVars, endVars>>

\* Mutant: a failed write returns with the mutex held.
WriteKeepsLock(p) ==
  /\ PumpTo(p, "write", "read")
  /\ Send(to[p], <<Held(p)>>)
  /\ wmu' = IF sock[to[p]] = "closed" THEN wmu ELSE Nobody
  /\ to' = [to EXCEPT ![p] = Nobody]
  /\ UNCHANGED <<count, ringVars, castVars, connVars, sock, endVars>>

\* WriteMessage returns (its error is ignored) and the mutex is released.
WriteWS(p) ==
  /\ PumpTo(p, "write", "read")
  /\ Send(to[p], <<Held(p)>>)
  /\ wmu' = Nobody
  /\ to' = [to EXCEPT ![p] = Nobody]
  /\ UNCHANGED <<count, ringVars, castVars, connVars, sock, endVars>>

\* rd.Read returns EOF, because the shell exited or end() closed it: the pump calls
\* end(), which one caller executes.
PumpEnds(p) ==
  /\ PumpTo(p, "read", "done")
  /\ \/ /\ endpc = "no"
        /\ endpc' = "marked"
        /\ closing' = ws
     \/ endpc # "no" /\ UNCHANGED endVars
  /\ UNCHANGED <<count, to, wmu, ringVars, castVars, connVars, wireVars>>

-----------------------------------------------------------------------------
(* attach and detach, called by the handlers *)

\* attach's first critical section binds the socket, whatever was bound before.
Bind(c) ==
  /\ hpc[c] = "new"
  /\ hpc' = [hpc EXCEPT ![c] = "bound"]
  /\ ws' = c /\ newest' = c
  /\ UNCHANGED <<pumpVars, wmu, ringVars, castVars, painting, since, wireVars,
                 endVars>>

\* With wmu held: the session id, then ring.snapshot.
Snapshot(c) ==
  /\ hpc[c] = "bound" /\ wmu = Nobody
  /\ hpc' = [hpc EXCEPT ![c] = "paint"]
  /\ wmu' = c
  /\ painting' = [painting EXCEPT ![c] = ring]
  /\ since' = [since EXCEPT ![c] = IF Len(rung) > RingCap THEN Len(rung) - RingCap
                                       ELSE 0]
  /\ UNCHANGED <<pumpVars, ringVars, castVars, ws, newest, wireVars, endVars>>

\* The snapshot is sent and wmu released.
Paint(c) ==
  /\ hpc[c] = "paint"
  /\ hpc' = [hpc EXCEPT ![c] = "input"]
  /\ Send(c, painting[c])
  /\ wmu' = Nobody
  /\ painting' = [painting EXCEPT ![c] = <<>>]
  /\ UNCHANGED <<pumpVars, ringVars, castVars, ws, newest, since, sock, endVars>>

\* runInput returns (the browser is gone, or the shell takes no input): detach,
\* unless a newer socket is bound, and ws.Close.
Detach(c) ==
  /\ hpc[c] = "input"
  /\ hpc' = [hpc EXCEPT ![c] = "gone"]
  /\ ws' = IF ws = c THEN Nobody ELSE ws
  /\ sock' = [sock EXCEPT ![c] = "closed"]
  /\ UNCHANGED <<pumpVars, wmu, ringVars, castVars, newest, painting, since, recv,
                 endVars>>

-----------------------------------------------------------------------------
(* end() and its callers other than a pump, and the browsers *)

\* An administrator, the watchdog or the reaper ends the session.
BeginEnd ==
  /\ endpc = "no"
  /\ endpc' = "marked"
  /\ closing' = ws
  /\ UNCHANGED <<pumpVars, wmu, ringVars, castVars, connVars, wireVars>>

\* session.Close and client.Close, then endSession flushes Recorder.lines.  When
\* the file cannot be created or written, Flush returns no path and the error is
\* only logged: the session has no recording.
Flush ==
  /\ endpc = "marked"
  /\ endpc' = "flushed"
  /\ file' \in {cast, file}
  /\ UNCHANGED <<pumpVars, wmu, ringVars, cast, connVars, wireVars, closing>>

\* closeWS on the socket that was bound when end() began.
CloseWS ==
  /\ endpc = "flushed"
  /\ endpc' = "done"
  /\ sock' = IF closing = Nobody THEN sock ELSE [sock EXCEPT ![closing] = "closed"]
  /\ UNCHANGED <<pumpVars, wmu, ringVars, castVars, connVars, recv, closing>>

\* A live browser stops reading.  From now on a write to it may return or not:
\* the gateway sets no write deadline.
BrowserStalls(c) ==
  /\ sock[c] = "open"
  /\ sock' = [sock EXCEPT ![c] = "stalled"]
  /\ UNCHANGED <<pumpVars, wmu, ringVars, castVars, connVars, recv, endVars>>

BrowserDrops(c) ==
  /\ sock[c] # "closed"
  /\ sock' = [sock EXCEPT ![c] = "closed"]
  /\ UNCHANGED <<pumpVars, wmu, ringVars, castVars, connVars, recv, endVars>>

-----------------------------------------------------------------------------
Pump(p) ==
  \/ Read(p) \/ RecordOutput(p) \/ RingWrite(p) \/ LoadWS(p) \/ LockWS(p)
  \/ WriteWS(p) \/ PumpEnds(p)

Handler(c) == Bind(c) \/ Snapshot(c) \/ Paint(c) \/ Detach(c)

Next ==
  \/ \E p \in Pumps : Pump(p)
  \/ \E c \in Conns : Handler(c) \/ BrowserStalls(c) \/ BrowserDrops(c)
  \/ BeginEnd \/ Flush \/ CloseWS

Spec == Init /\ [][Next]_vars

\* Goroutines that can run do run.  A WriteMessage returns if its peer reads, and
\* with an error if the connection is closed or its peer has vanished, once the
\* kernel gives it up; to a live peer that does not read it need never return.  A
\* mutex that is free time and again is obtained in the end (sync.Mutex is
\* starvation-free).  No shell need produce output and nobody need attach.
Fairness ==
  /\ \A p \in Pumps :
       /\ WF_vars(\/ RecordOutput(p) \/ RingWrite(p) \/ LoadWS(p)
                  \/ ppc[p] = "write" /\ sock[to[p]] # "stalled" /\ WriteWS(p))
       /\ SF_vars(LockWS(p))
  /\ \A c \in Conns : /\ SF_vars(Snapshot(c))
                      /\ WF_vars(sock[c] # "stalled" /\ Paint(c))

FairSpec == Spec /\ Fairness

-----------------------------------------------------------------------------
TypeOK ==
  /\ ppc \in [Pumps -> {"read", "record", "ring", "load", "lock", "write", "done"}]
  /\ count \in [Pumps -> Nat]
  /\ to \in [Pumps -> Conns \cup {Nobody}]
  /\ wmu \in Conns \cup Pumps \cup {Nobody}
  /\ ring \in Seq(Chunks) /\ Len(ring) <= RingCap
  /\ rung \in Seq(Chunks)
  /\ cast \subseteq Chunks /\ file \subseteq Chunks
  /\ ws \in Conns \cup {Nobody} /\ newest \in Conns \cup {Nobody}
  /\ hpc \in [Conns -> {"new", "bound", "paint", "input", "gone"}]
  /\ painting \in [Conns -> Seq(Chunks)]
  /\ since \in [Conns -> Nat]
  /\ sock \in [Conns -> {"open", "stalled", "closed"}]
  /\ recv \in [Conns -> Seq(Chunks)]
  /\ endpc \in {"no", "marked", "flushed", "done"}
  /\ closing \in Conns \cup {Nobody}

\* Pump p has a chunk in the ring that it is still about to send to browser c.
SendsTo(p, c) ==
  /\ ppc[p] \in {"load", "lock", "write"}
  /\ (ppc[p] = "load" /\ ws = c) \/ to[p] = c

\* The browser that attached last misses nothing: once its repaint has been sent,
\* every chunk from the RingCap chunks before the repaint on has reached it or is
\* in the hands of a pump that will send it there, however attach, the late
\* detach of the browser it replaced and the two pumps interleave.
NoOutputLost ==
  \A c \in Conns :
    (newest = c /\ hpc[c] = "input" /\ sock[c] # "closed") =>
      \A i \in (since[c] + 1)..Len(rung) :
        \/ rung[i] \in Elements(recv[c])
        \/ \E p \in Pumps : rung[i] = Held(p) /\ SendsTo(p, c)

\* The last time that a chunk is in q comes after the last time that any earlier
\* chunk of the same stream is.
EndsInOrder(q) ==
  \A i \in 1..Len(q) : \E j \in i..Len(q) :
    /\ q[j] = q[i]
    /\ \A k \in (j + 1)..Len(q) : q[k][1] = q[i][1] => q[k][2] > q[i][2]

\* Whatever a browser sees twice, the screen ends up right: each stream's chunks
\* are shown for the last time in their order.  (The repaint may repeat chunks.)
ScreenEndsInOrder == \A c \in Conns : EndsInOrder(recv[c])

\* Nothing is shown that the recorder has not taken: what a browser has received,
\* live or repainted, is in the cast.
RecordedBeforeShown == \A c \in Conns : Elements(recv[c]) \subseteq cast

\* A write, under wmu, to a live browser that does not read.
StalledWrite ==
  \E c \in Conns : /\ sock[c] = "stalled"
                   /\ hpc[c] = "paint" \/ \E p \in Pumps : ppc[p] = "write" /\ to[p] = c

\* A browser whose handler has bound it gets its repaint, even while the pumps
\* are writing to the socket it replaces, to one that failed or to one that
\* end() has closed.  One thing only can keep it waiting for ever: wmu is held, for
\* good, by a write to a live browser that does not read (writeWS and attach set no
\* write deadline, resume.go:118-120, 131-134), which may be the one it replaces.
BoundIsPainted ==
  \A c \in Conns : <>[](hpc[c] \in {"new", "input", "gone"} \/ StalledWrite)

-----------------------------------------------------------------------------
(* A statement of the repository that the code does not keep. *)

\* README.md: "Every keystroke and screen frame is recorded."  What a browser has
\* been shown of an ended session is in the recording, if it leaves one.
RecordingComplete ==
  endpc = "done" /\ file # {} => \A c \in Conns : Elements(recv[c]) \subseteq file
=============================================================================
