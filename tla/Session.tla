------------------------------- MODULE Session -------------------------------
(***************************************************************************)
(* The life of the resumable SSH shells of internal/proxy: the handlers of *)
(* /ws/ssh (SSHProxy.ServeHTTP), the managedSession each of them creates   *)
(* or resumes, the sessionStore with its reaper, the session watchdog and  *)
(* the part of the Hub that lets an administrator terminate a shell.       *)
(*                                                                         *)
(* A handler is named by its browser connection c; a managed session by    *)
(* the connection whose handler created it.  One action is one critical    *)
(* section (or one call whose effects no other goroutine sees in part), so *)
(* the interleavings between the locks are those of the program.           *)
(***************************************************************************)
EXTENDS Integers, FiniteSets

CONSTANTS Conns,     \* browser connections, and the sessions they create
          UserOf,    \* the authenticated user of each connection
          NoConn,    \* the nil *websocket.Conn / *managedSession
          NoId,      \* the empty session id of a failed createSession
          Reachable, \* connections whose target's sshd can be reached
          Limits,    \* MaxDuration > 0 \/ IdleTimeout > 0
          LostUpdates \* the UPDATE of endSession may fail (it is only logged)

ASSUME NoConnAssumption == NoConn \notin Conns
ASSUME NoIdAssumption == NoId \notin Conns
ASSUME ReachableAssumption == Reachable \subseteq Conns
ASSUME LimitsAssumption == Limits \in BOOLEAN
ASSUME LostUpdatesAssumption == LostUpdates \in BOOLEAN

VARIABLES
  pc,        \* where the handler of each connection is in ServeHTTP
  target,    \* first the ?resume= id, then the session the handler serves
  sock,      \* the browser's WebSocket
  row,       \* the sessions table: "none", "open" (ended_at NULL), "final"
  rowid,     \* managedSession.id
  shell,     \* the remote shell behind managedSession.session / .client
  endpc,     \* progress of the one execution of end() that endOnce admits
  captured,  \* the ws that end() read under m.mu
  bound,     \* managedSession.ws
  detached,  \* managedSession.detachedAt: zero, within grace, past grace
  store,     \* sessionStore.m
  hub,       \* the keys of Hub.sessions
  watch,     \* the watchdogMS goroutine of each session
  over,      \* the session has lasted MaxDuration
  reaping,   \* reap's slice of expired sessions still to end
  reapNow,   \* the session whose end() the reaper is executing
  latest     \* history: the last connection that attach bound

handlerVars == <<pc, target>>
endVars == <<endpc, captured>>
dbVars == <<row, rowid>>
attachVars == <<bound, detached, latest>>
registryVars == <<store, hub>>
watchVars == <<watch, over>>
reapVars == <<reaping, reapNow>>
vars == <<handlerVars, sock, dbVars, shell, endVars, attachVars, registryVars,
          watchVars, reapVars>>

Ids == Conns \cup {NoId}
OptConn == Conns \cup {NoConn}

\* A handler is between attach's first critical section and its detach.
Serving == {"watch", "input", "stop", "detach"}

PCs == {"idle", "get", "check", "dial", "shell", "add", "register", "bind",
        "done"} \cup Serving
EndPCs == {"no", "marked", "closed", "final", "unregistered", "removed", "done"}

\* isEnded(): end() has passed its first critical section.
Ended(s) == endpc[s] # "no"

Init ==
  /\ pc = [c \in Conns |-> "idle"]
  /\ target = [c \in Conns |-> NoId]
  /\ sock = [c \in Conns |-> "none"]
  /\ row = [s \in Conns |-> "none"]
  /\ rowid = [s \in Conns |-> NoId]
  /\ shell = [s \in Conns |-> "none"]
  /\ endpc = [s \in Conns |-> "no"]
  /\ captured = [s \in Conns |-> NoConn]
  /\ bound = [s \in Conns |-> NoConn]
  /\ detached = [s \in Conns |-> "zero"]
  /\ store = [i \in Ids |-> NoConn]
  /\ hub = {}
  /\ watch = [s \in Conns |-> "off"]
  /\ over = [s \in Conns |-> FALSE]
  /\ reaping = {}
  /\ reapNow = NoConn
  /\ latest = [s \in Conns |-> NoConn]

Goto(c, from, to) == pc[c] = from /\ pc' = [pc EXCEPT ![c] = to]

-----------------------------------------------------------------------------
(* ServeHTTP, the handler of one browser connection. *)

\* The JIT check, loadServer or the upgrade refuses the request.
Refuse(c) ==
  /\ Goto(c, "idle", "done")
  /\ UNCHANGED <<target, sock, dbVars, shell, endVars, attachVars, registryVars,
                 watchVars, reapVars>>

\* The upgrade succeeds; ?resume=i selects the resume path (i = NoId: absent).
\* i is an id that some browser was sent by attach: the caller's own, another
\* user's, or that of a session long ended.
Upgrade(c, i) ==
  /\ i # NoId => latest[i] # NoConn /\ rowid[i] = i
  /\ Goto(c, "idle", IF i = NoId THEN "dial" ELSE "get")
  /\ target' = [target EXCEPT ![c] = i]
  /\ sock' = [sock EXCEPT ![c] = "open"]
  /\ UNCHANGED <<dbVars, shell, endVars, attachVars, registryVars, watchVars,
                 reapVars>>

\* Mutant: the session's user is not compared with the caller.
ResumeGetAnyUser(c) ==
  LET ms == store[target[c]]
  IN /\ Goto(c, "get", IF ms # NoConn THEN "check" ELSE "dial")
     /\ target' = [target EXCEPT ![c] = IF ms # NoConn THEN ms ELSE @]
     /\ UNCHANGED <<sock, dbVars, shell, endVars, attachVars, registryVars,
                    watchVars, reapVars>>

\* store.get(resumeID) and the comparison of the (immutable) user.
ResumeGet(c) ==
  LET ms == store[target[c]]
      mine == ms # NoConn /\ UserOf[ms] = UserOf[c]
  IN /\ Goto(c, "get", IF mine THEN "check" ELSE "dial")
     /\ target' = [target EXCEPT ![c] = IF mine THEN ms ELSE @]
     /\ UNCHANGED <<sock, dbVars, shell, endVars, attachVars, registryVars,
                    watchVars, reapVars>>

\* !ms.isEnded(); otherwise fall through and start a fresh session.
ResumeCheck(c) ==
  /\ Goto(c, "check", IF Ended(target[c]) THEN "dial" ELSE "bind")
  /\ UNCHANGED <<target, sock, dbVars, shell, endVars, attachVars, registryVars,
                 watchVars, reapVars>>

\* dial, the SSH handshake or NewSession fails: error text, deferred ws.Close.
DialFails(c) ==
  /\ Goto(c, "dial", "done")
  /\ sock' = [sock EXCEPT ![c] = IF @ = "open" THEN "closed" ELSE @]
  /\ UNCHANGED <<target, dbVars, shell, endVars, attachVars, registryVars,
                 watchVars, reapVars>>

\* Connected: createSession inserts the row, or fails and leaves the id empty.
CreateSession(c) ==
  /\ c \in Reachable
  /\ Goto(c, "dial", "shell")
  /\ target' = [target EXCEPT ![c] = c]
  /\ \E i \in {c, NoId} :
        /\ rowid' = [rowid EXCEPT ![c] = i]
        /\ row' = [row EXCEPT ![c] = IF i = c THEN "open" ELSE @]
  /\ UNCHANGED <<sock, shell, endVars, attachVars, registryVars, watchVars,
                 reapVars>>

\* endSession's UPDATE: the row of a session with an id gets its ended_at, or
\* the statement fails and nobody tries again.
FinaliseRow(s) ==
  \E done \in {TRUE, ~LostUpdates} :
    row' = [row EXCEPT ![s] = IF rowid[s] = s /\ done THEN "final" ELSE @]

\* newManagedSession fails: close, endSession finalises the row, ws.Close.
ShellFails(c) ==
  /\ Goto(c, "shell", "done")
  /\ FinaliseRow(c)
  /\ sock' = [sock EXCEPT ![c] = IF @ = "open" THEN "closed" ELSE @]
  /\ UNCHANGED <<target, rowid, shell, endVars, attachVars, registryVars,
                 watchVars, reapVars>>

\* newManagedSession succeeds: from here the pumps may call end().
StartShell(c) ==
  /\ Goto(c, "shell", "add")
  /\ shell' = [shell EXCEPT ![c] = "live"]
  /\ UNCHANGED <<target, sock, dbVars, endVars, attachVars, registryVars,
                 watchVars, reapVars>>

StoreAdd(c) ==
  /\ Goto(c, "add", "register")
  /\ store' = [store EXCEPT ![rowid[c]] = c]
  /\ UNCHANGED <<target, sock, dbVars, shell, endVars, attachVars, hub,
                 watchVars, reapVars>>

\* Hub.Register, only for a session that has an id.
HubRegister(c) ==
  /\ Goto(c, "register", "bind")
  /\ hub' = hub \cup ({rowid[c]} \ {NoId})
  /\ UNCHANGED <<target, sock, dbVars, shell, endVars, attachVars, store,
                 watchVars, reapVars>>

\* Mutant: detachedAt is not cleared when a socket is bound again.
AttachKeepsClock(c) ==
  LET s == target[c]
  IN /\ Goto(c, "bind", IF s = c THEN "watch" ELSE "input")
     /\ bound' = [bound EXCEPT ![s] = c]
     /\ latest' = [latest EXCEPT ![s] = c]
     /\ UNCHANGED <<target, sock, dbVars, shell, endVars, detached, registryVars,
                    watchVars, reapVars>>

\* attach's critical section; module Output has the repaint that follows.
Attach(c) ==
  LET s == target[c]
  IN /\ Goto(c, "bind", IF s = c THEN "watch" ELSE "input")
     /\ bound' = [bound EXCEPT ![s] = c]
     /\ detached' = [detached EXCEPT ![s] = "zero"]
     /\ latest' = [latest EXCEPT ![s] = c]
     /\ UNCHANGED <<target, sock, dbVars, shell, endVars, registryVars,
                    watchVars, reapVars>>

\* A fresh session starts its watchdog when a limit is configured.
StartWatch(c) ==
  /\ Goto(c, "watch", "input")
  /\ watch' = [watch EXCEPT ![c] = IF Limits THEN "on" ELSE "off"]
  /\ UNCHANGED <<target, sock, dbVars, shell, endVars, attachVars, registryVars,
                 over, reapVars>>

\* runInput returns: the socket is gone, or writing to stdin failed.
RunInputReturns(c) ==
  /\ Goto(c, "input", IF target[c] = c THEN "stop" ELSE "detach")
  /\ sock[c] # "open" \/ shell[target[c]] # "live"
  /\ UNCHANGED <<target, sock, dbVars, shell, endVars, attachVars, registryVars,
                 watchVars, reapVars>>

\* close(stopWatch), in the handler that created the session.
StopWatch(c) ==
  /\ Goto(c, "stop", "detach")
  /\ watch' = [watch EXCEPT ![c] = IF @ = "on" THEN "stopping" ELSE @]
  /\ UNCHANGED <<target, sock, dbVars, shell, endVars, attachVars, registryVars,
                 over, reapVars>>

\* Mutant: detach does not check that the socket is still the bound one.
DetachUnguarded(c) ==
  /\ Goto(c, "detach", "done")
  /\ bound' = [bound EXCEPT ![target[c]] = NoConn]
  /\ detached' = [detached EXCEPT ![target[c]] = "grace"]
  /\ sock' = [sock EXCEPT ![c] = IF @ = "open" THEN "closed" ELSE @]
  /\ UNCHANGED <<target, dbVars, shell, endVars, latest, registryVars, watchVars,
                 reapVars>>

\* Mutant: detach unbinds the socket but forgets to start the grace timer.
DetachNoTimer(c) ==
  LET s == target[c]
  IN /\ Goto(c, "detach", "done")
     /\ bound' = [bound EXCEPT ![s] = IF @ = c THEN NoConn ELSE @]
     /\ sock' = [sock EXCEPT ![c] = IF @ = "open" THEN "closed" ELSE @]
     /\ UNCHANGED <<target, dbVars, shell, endVars, detached, latest,
                    registryVars, watchVars, reapVars>>

\* detach, then the deferred ws.Close (no close frame) as ServeHTTP returns.
Detach(c) ==
  LET s == target[c]
  IN /\ Goto(c, "detach", "done")
     /\ bound' = [bound EXCEPT ![s] = IF @ = c THEN NoConn ELSE @]
     /\ detached' = [detached EXCEPT ![s] = IF bound[s] = c THEN "grace" ELSE @]
     /\ sock' = [sock EXCEPT ![c] = IF @ = "open" THEN "closed" ELSE @]
     /\ UNCHANGED <<target, dbVars, shell, endVars, latest, registryVars,
                    watchVars, reapVars>>

-----------------------------------------------------------------------------
(* managedSession.end, and everything that calls it. *)

\* endOnce.Do with the critical section that sets ended and reads ws.
BeginEnd(s) ==
  /\ endpc[s] = "no"
  /\ endpc' = [endpc EXCEPT ![s] = "marked"]
  /\ captured' = [captured EXCEPT ![s] = bound[s]]

\* A later caller of end() finds endOnce used up.
CallEnd(s) == BeginEnd(s) \/ (Ended(s) /\ UNCHANGED endVars)

\* A pump reads EOF.
PumpEOF(s) ==
  /\ shell[s] = "exited"
  /\ BeginEnd(s)
  /\ UNCHANGED <<handlerVars, sock, dbVars, shell, attachVars, registryVars,
                 watchVars, reapVars>>

\* Hub.Kill: an administrator terminates a registered session.
Kill(s) ==
  /\ s \in hub
  /\ BeginEnd(s)
  /\ UNCHANGED <<handlerVars, sock, dbVars, shell, attachVars, registryVars,
                 watchVars, reapVars>>

\* A watchdog tick finds MaxDuration exceeded, or the session idle.  With the
\* stop channel closed as well, select may still choose the tick.
Watchdog(s) ==
  /\ watch[s] \in {"on", "stopping"}
  /\ watch' = [watch EXCEPT ![s] = "off"]
  /\ CallEnd(s)
  /\ UNCHANGED <<handlerVars, sock, dbVars, shell, attachVars, registryVars,
                 over, reapVars>>

WatchdogStops(s) ==
  /\ watch[s] = "stopping"
  /\ watch' = [watch EXCEPT ![s] = "off"]
  /\ UNCHANGED <<handlerVars, sock, dbVars, shell, endVars, attachVars,
                 registryVars, over, reapVars>>

EndStep(s, from, to) ==
  /\ endpc[s] = from
  /\ endpc' = [endpc EXCEPT ![s] = to]
  /\ UNCHANGED captured

\* session.Close, client.Close.
EndClosesShell(s) ==
  /\ EndStep(s, "marked", "closed")
  /\ shell' = [shell EXCEPT ![s] = "closed"]
  /\ UNCHANGED <<handlerVars, sock, dbVars, attachVars, registryVars, watchVars,
                 reapVars>>

\* Mutant: endSession runs before the shell is closed.
EndSessionFirst(s) ==
  /\ endpc[s] \in {"marked", "closed"}
  /\ endpc' = [endpc EXCEPT ![s] = IF @ = "closed" THEN "final" ELSE @]
  /\ row[s] = "final" => endpc[s] = "closed"
  /\ row' = [row EXCEPT ![s] = IF rowid[s] = s THEN "final" ELSE @]
  /\ UNCHANGED <<handlerVars, sock, rowid, captured, shell, attachVars,
                 registryVars, watchVars, reapVars>>

\* Mutant: the row is finalised only if a browser was attached.
EndSessionIfAttached(s) ==
  /\ EndStep(s, "closed", "final")
  /\ IF captured[s] # NoConn THEN FinaliseRow(s) ELSE UNCHANGED row
  /\ UNCHANGED <<handlerVars, sock, rowid, shell, attachVars, registryVars,
                 watchVars, reapVars>>

\* endSession: session_end audited, cast flushed, ended_at set.
EndSession(s) ==
  /\ EndStep(s, "closed", "final")
  /\ FinaliseRow(s)
  /\ UNCHANGED <<handlerVars, sock, rowid, shell, attachVars, registryVars,
                 watchVars, reapVars>>

\* Hub.Unregister(m.id).
EndUnregisters(s) ==
  /\ EndStep(s, "final", "unregistered")
  /\ hub' = hub \ {rowid[s]}
  /\ UNCHANGED <<handlerVars, sock, dbVars, shell, attachVars, store, watchVars,
                 reapVars>>

\* notifySessionEnd and store.remove(m.id).
EndRemoves(s) ==
  /\ EndStep(s, "unregistered", "removed")
  /\ store' = [store EXCEPT ![rowid[s]] = NoConn]
  /\ UNCHANGED <<handlerVars, sock, dbVars, shell, attachVars, hub, watchVars,
                 reapVars>>

\* Mutant: the socket is left to its browser.
EndLeavesSocket(s) ==
  /\ EndStep(s, "removed", "done")
  /\ UNCHANGED <<handlerVars, sock, dbVars, shell, attachVars, registryVars,
                 watchVars, reapVars>>

\* closeWS(ws, closeTerminated) on the socket read at the start, if any.
EndClosesSocket(s) ==
  LET c == captured[s]
  IN /\ EndStep(s, "removed", "done")
     /\ sock' = IF c = NoConn THEN sock
                ELSE [sock EXCEPT ![c] = IF @ = "open" THEN "terminated" ELSE @]
     /\ UNCHANGED <<handlerVars, dbVars, shell, attachVars, registryVars,
                    watchVars, reapVars>>

-----------------------------------------------------------------------------
(* sessionStore.reap, one goroutine. *)

\* Mutant: the reaper forgets the expired sessions as it collects them.
ReapCollectForgets ==
  /\ reaping = {} /\ reapNow = NoConn
  /\ reaping' = {s \in Conns : detached[s] = "expired"
                               /\ \E i \in Ids : store[i] = s}
  /\ reaping' # {}
  /\ store' = [i \in Ids |-> IF store[i] \in reaping' THEN NoConn ELSE store[i]]
  /\ UNCHANGED <<handlerVars, sock, dbVars, shell, endVars, attachVars, hub,
                 watchVars, reapNow>>

\* Under the locks: the stored sessions detached for more than resumeGrace.
ReapCollect ==
  /\ reaping = {} /\ reapNow = NoConn
  /\ reaping' = {s \in Conns : detached[s] = "expired"
                               /\ \E i \in Ids : store[i] = s}
  /\ reaping' # {}
  /\ UNCHANGED <<handlerVars, sock, dbVars, shell, endVars, attachVars,
                 registryVars, watchVars, reapNow>>

\* Outside the locks: ms.end() for each of them in turn.
ReapEnd(s) ==
  /\ s \in reaping /\ reapNow = NoConn
  /\ reaping' = reaping \ {s}
  /\ reapNow' = s
  /\ CallEnd(s)
  /\ UNCHANGED <<handlerVars, sock, dbVars, shell, attachVars, registryVars,
                 watchVars>>

\* end() (or the wait inside endOnce for the goroutine running it) returns.
ReapNext ==
  /\ reapNow # NoConn /\ endpc[reapNow] = "done"
  /\ reapNow' = NoConn
  /\ UNCHANGED <<handlerVars, sock, dbVars, shell, endVars, attachVars,
                 registryVars, watchVars, reaping>>

-----------------------------------------------------------------------------
(* The environment: browsers, remote shells and the clock. *)

BrowserDrops(c) ==
  /\ sock[c] = "open"
  /\ sock' = [sock EXCEPT ![c] = "dropped"]
  /\ UNCHANGED <<handlerVars, dbVars, shell, endVars, attachVars, registryVars,
                 watchVars, reapVars>>

ShellExits(s) ==
  /\ shell[s] = "live"
  /\ shell' = [shell EXCEPT ![s] = "exited"]
  /\ UNCHANGED <<handlerVars, sock, dbVars, endVars, attachVars, registryVars,
                 watchVars, reapVars>>

\* A detached session has waited resumeGrace.
GraceElapses(s) ==
  /\ detached[s] = "grace"
  /\ detached' = [detached EXCEPT ![s] = "expired"]
  /\ UNCHANGED <<handlerVars, sock, dbVars, shell, endVars, bound, latest,
                 registryVars, watchVars, reapVars>>

\* A session whose limits apply has lasted MaxDuration.
MaxDurationElapses(s) ==
  /\ Limits /\ shell[s] = "live" /\ ~Ended(s) /\ ~over[s]
  /\ target[s] = s /\ pc[s] \in {"input", "stop", "detach", "done"}
  /\ over' = [over EXCEPT ![s] = TRUE]
  /\ UNCHANGED <<handlerVars, sock, dbVars, shell, endVars, attachVars,
                 registryVars, watch, reapVars>>

-----------------------------------------------------------------------------
Handler(c) ==
  \/ Refuse(c) \/ \E i \in Ids \ {c} : Upgrade(c, i)
  \/ ResumeGet(c) \/ ResumeCheck(c)
  \/ DialFails(c) \/ CreateSession(c) \/ ShellFails(c) \/ StartShell(c)
  \/ StoreAdd(c) \/ HubRegister(c) \/ Attach(c) \/ StartWatch(c)
  \/ RunInputReturns(c) \/ StopWatch(c) \/ Detach(c)

End(s) ==
  \/ EndClosesShell(s) \/ EndSession(s) \/ EndUnregisters(s) \/ EndRemoves(s)
  \/ EndClosesSocket(s)

Reaper == ReapCollect \/ (\E s \in Conns : ReapEnd(s)) \/ ReapNext

Environment(c) ==
  BrowserDrops(c) \/ ShellExits(c) \/ GraceElapses(c) \/ MaxDurationElapses(c)

Next ==
  \/ \E c \in Conns : Handler(c) \/ End(c) \/ Environment(c)
  \/ \E s \in Conns : PumpEOF(s) \/ Kill(s) \/ Watchdog(s) \/ WatchdogStops(s)
  \/ Reaper

Spec == Init /\ [][Next]_vars

\* Goroutines that can run do run: past the point where a step depends on a
\* peer (the browser, the remote sshd), every step of a handler, of end(), of
\* a pump at EOF, of the reaper's ticker and of the clock is eventually taken.
\* An administrator need not kill, a browser need not drop, a shell need not exit,
\* and a watchdog fires only when MaxDuration has passed.
HandlerProgress(c) ==
  \/ ResumeGet(c) \/ ResumeCheck(c) \/ StoreAdd(c) \/ HubRegister(c)
  \/ Attach(c) \/ StartWatch(c) \/ StopWatch(c) \/ Detach(c)
  \/ (sock[c] # "open" /\ RunInputReturns(c))

Fairness ==
  /\ \A c \in Conns :
       /\ WF_vars(HandlerProgress(c))
       /\ WF_vars(End(c))
       /\ WF_vars(PumpEOF(c))
       /\ WF_vars(over[c] /\ Watchdog(c))
       /\ WF_vars(GraceElapses(c))
  /\ WF_vars(Reaper)

FairSpec == Spec /\ Fairness

-----------------------------------------------------------------------------
TypeOK ==
  /\ pc \in [Conns -> PCs]
  /\ target \in [Conns -> Ids]
  /\ sock \in [Conns -> {"none", "open", "dropped", "closed", "terminated"}]
  /\ row \in [Conns -> {"none", "open", "final"}]
  /\ rowid \in [Conns -> Ids]
  /\ shell \in [Conns -> {"none", "live", "exited", "closed"}]
  /\ endpc \in [Conns -> EndPCs]
  /\ captured \in [Conns -> OptConn]
  /\ bound \in [Conns -> OptConn]
  /\ detached \in [Conns -> {"zero", "grace", "expired"}]
  /\ store \in [Ids -> OptConn]
  /\ hub \subseteq Conns
  /\ watch \in [Conns -> {"off", "on", "stopping"}]
  /\ over \in [Conns -> BOOLEAN]
  /\ reaping \subseteq Conns
  /\ reapNow \in OptConn
  /\ latest \in [Conns -> OptConn]

\* The last connection to attach stays bound for as long as its handler serves
\* the session: the late detach of an older handler (whose browser came back on
\* a new socket before the old one was noticed dead) never unbinds the newer
\* socket, and a socket is bound only while a handler of the session runs.
LatestHandlerBound ==
  \A s, c \in Conns :
    (bound[s] = c) <=> (latest[s] = c /\ target[c] = s /\ pc[c] \in Serving)

\* The grace timer runs exactly when a session that has been attached has no
\* socket; so the reaper cannot see an attached session as expired, and cannot
\* overlook one that nobody serves.
GraceRunsIffDetached ==
  \A s \in Conns :
    (detached[s] # "zero") <=> (bound[s] = NoConn /\ latest[s] # NoConn)

\* Only the user who opened a shell is ever bound to it, whatever ids the
\* resume requests of other users carry.
OnlyOwnerBound ==
  \A s \in Conns : bound[s] # NoConn => UserOf[bound[s]] = UserOf[s]

\* A shell whose handler has got as far as attach, and that has an id, is in
\* the store (it can be resumed and reaped) and in the hub (it can be watched
\* and killed) until end() starts to take it out, whatever sessions without an
\* id come and go.
LiveSessionReachable ==
  \A s \in Conns :
    (rowid[s] = s /\ target[s] = s /\ ~Ended(s)) =>
      /\ pc[s] \in {"register", "bind", "done"} \cup Serving /\ shell[s] # "none"
           => store[s] = s
      /\ pc[s] \in {"bind", "done"} \cup Serving /\ shell[s] # "none" => s \in hub

\* A row that says ended has no running shell behind it: end() closes the
\* shell before endSession writes ended_at.
FinalRowHasNoShell ==
  \A s \in Conns : row[s] = "final" => shell[s] \in {"none", "closed"}

\* The reaper takes a session only after a full grace period without a socket.
ReapsOnlyExpired ==
  [][\A s \in Conns : (s \in reaping' \ reaping) =>
        detached[s] = "expired" /\ bound[s] = NoConn]_vars

\* Once end() has begun, by whichever caller, the row is finalised (unless its
\* UPDATE can fail) and the socket that was bound is closed.
EndCompletes ==
  \A s \in Conns : Ended(s) ~> /\ endpc[s] = "done"
                               /\ row[s] = "open" => LostUpdates
                               /\ captured[s] # NoConn => sock[captured[s]] # "open"

\* A session with an id that was attached once and has lost its browser is
\* attached again or ended: no detached shell runs for ever.
DetachedIsReaped ==
  \A s \in Conns :
    (latest[s] # NoConn /\ bound[s] = NoConn /\ rowid[s] = s)
      ~> (bound[s] # NoConn \/ Ended(s))

\* A shell that exits leaves no row open, even when it exits before its
\* session has been stored, registered and attached.
ExitedShellFinalised ==
  \A s \in Conns : (shell[s] = "exited" /\ rowid[s] = s) ~> (row[s] = "final" \/ LostUpdates)

-----------------------------------------------------------------------------
(* The inductive invariant behind the safety properties above. *)

\* What a handler knows at each point of ServeHTTP: before newManagedSession its
\* own session has no shell, a handler about to attach has a started shell of
\* its own user, and only the creator of a session runs its watchdog.
HandlerInv ==
  \A c \in Conns :
    /\ pc[c] \in {"idle", "get", "check", "dial", "shell"} => shell[c] = "none"
    /\ pc[c] \in {"add", "register", "watch"} => shell[c] # "none" /\ target[c] = c
    /\ pc[c] \in {"check", "bind"} \cup Serving =>
         /\ target[c] \in Conns
         /\ shell[target[c]] # "none"
         /\ UserOf[target[c]] = UserOf[c]
    /\ pc[c] = "shell" => target[c] = c

\* Nothing refers to a session before its shell has started.
StartedInv ==
  \A s \in Conns :
    (s \in hub \/ watch[s] # "off" \/ s \in reaping \/ Ended(s)
      \/ \E i \in Ids : store[i] = s) => shell[s] # "none"

\* The id of a session is its own or empty; its row opens before the shell
\* starts; end() finalises the row of a shell it has already closed.
RowInv ==
  \A s \in Conns :
    /\ rowid[s] \in {s, NoId}
    /\ pc[s] \in {"idle", "get", "check", "dial"} => row[s] = "none"
    /\ pc[s] = "shell" => row[s] # "final"
    /\ endpc[s] \notin {"no", "marked"} => shell[s] = "closed"

Inv ==
  /\ TypeOK /\ HandlerInv /\ StartedInv /\ RowInv
  /\ LatestHandlerBound /\ GraceRunsIffDetached /\ OnlyOwnerBound
  /\ LiveSessionReachable /\ FinalRowHasNoShell

-----------------------------------------------------------------------------
(* Statements of the repository that the code does not keep. *)

\* resume.go: reap "ends sessions that have been detached longer than the grace
\* period"; the session the reaper ends has nobody attached.
ReaperSparesAttached ==
  [][\A s \in Conns : (reapNow' = s /\ reapNow # s /\ ~Ended(s))
                         => bound[s] = NoConn]_vars

\* resume.go: end "terminates the SSH shell, finalizes the recording, and
\* deregisters"; hub.go: Active "returns the IDs of all live sessions".
EndDeregisters ==
  \A s \in Conns : endpc[s] = "done" => s \notin hub /\ \A i \in Ids : store[i] # s

\* config.go: MaxDuration is a "hard cap on session length".
MaxDurationEnforced == \A s \in Conns : over[s] ~> Ended(s)
=============================================================================
