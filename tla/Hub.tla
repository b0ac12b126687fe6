--------------------------------- MODULE Hub ---------------------------------
(***************************************************************************)
(* Live session shadowing: the Hub of internal/proxy/hub.go and the        *)
(* observers of SSHProxy.ServeWatch.  Sessions share nothing in the Hub    *)
(* but the map, so the module follows one LiveSession: its registration,   *)
(* the pumps that publish its output, the watchers that subscribe to it    *)
(* and the end of the session that unregisters it.                         *)
(*                                                                         *)
(* Every operation looks the session up under h.mu and then works under    *)
(* ls.mu; the two critical sections are two actions.  Chunks are numbered  *)
(* in the order in which the pumps read them.                              *)
(***************************************************************************)
EXTENDS Integers, Sequences

CONSTANTS Watchers,   \* ServeWatch requests, and the channel each creates
          Stalled,    \* watchers whose socket may stop taking data
          Pumps,      \* goroutines that call Publish (stdout, stderr)
          ChanCap,    \* capacity of a subscriber channel (256)
          MaxChunks   \* bound on the chunks read from the shell

ASSUME StalledAssumption == Stalled \subseteq Watchers
ASSUME ChanCapAssumption == ChanCap \in Nat \ {0}
ASSUME MaxChunksAssumption == MaxChunks \in Nat

VARIABLES
  session,  \* in Hub.sessions: "new", "live", "deleted", "closed" (subs closed)
  subs,     \* LiveSession.subs
  open,     \* the channel has not been closed
  queue,    \* the chunks buffered in each channel
  panic,    \* a send on, or a close of, a closed channel
  read,     \* chunks read from the shell so far
  pub,      \* the chunk a pump has looked the session up for, 0 if none
  wpc,      \* where each ServeWatch is
  reader,   \* its goroutine that reads (and discards) client input
  browser,  \* the observer's browser is connected
  log,      \* history: chunks in the order Publish handled them under ls.mu
  from,     \* history: length of log when the watcher subscribed
  got,      \* history: chunks written to the watcher's socket
  dropped   \* history: chunks lost to a full channel

chanVars == <<subs, open, queue, panic, dropped>>
pumpVars == <<read, pub, log>>
watchVars == <<wpc, reader, browser, from, got>>
vars == <<session, chanVars, pumpVars, watchVars>>

Chunks == 1 .. MaxChunks

Init ==
  /\ session = "new"
  /\ subs = {}
  /\ open = [w \in Watchers |-> FALSE]
  /\ queue = [w \in Watchers |-> <<>>]
  /\ panic = FALSE
  /\ read = 0
  /\ pub = [p \in Pumps |-> 0]
  /\ wpc = [w \in Watchers |-> "idle"]
  /\ reader = [w \in Watchers |-> FALSE]
  /\ browser = [w \in Watchers |-> TRUE]
  /\ log = <<>>
  /\ from = [w \in Watchers |-> 0]
  /\ got = [w \in Watchers |-> <<>>]
  /\ dropped = [w \in Watchers |-> {}]

-----------------------------------------------------------------------------
Register ==
  /\ session = "new"
  /\ session' = "live"
  /\ UNCHANGED <<chanVars, pumpVars, watchVars>>

\* Unregister, under h.mu: the session leaves the map.
UnregisterDelete ==
  /\ session = "live"
  /\ session' = "deleted"
  /\ UNCHANGED <<chanVars, pumpVars, watchVars>>

\* Mutant: the subscriber map is not emptied after its channels are closed.
UnregisterKeepsSubs ==
  /\ session = "deleted"
  /\ session' = "closed"
  /\ panic' = (panic \/ \E w \in subs : ~open[w])
  /\ open' = [w \in Watchers |-> open[w] /\ w \notin subs]
  /\ UNCHANGED <<subs, queue, dropped, pumpVars, watchVars>>

\* Mutant: the subscriber map is emptied without closing the channels.
UnregisterNoClose ==
  /\ session = "deleted"
  /\ session' = "closed"
  /\ subs' = {}
  /\ UNCHANGED <<open, queue, panic, dropped, pumpVars, watchVars>>

\* Unregister, under ls.mu: every watcher channel is closed, subs is reset.
UnregisterClose ==
  /\ session = "deleted"
  /\ session' = "closed"
  /\ panic' = (panic \/ \E w \in subs : ~open[w])
  /\ open' = [w \in Watchers |-> open[w] /\ w \notin subs]
  /\ subs' = {}
  /\ UNCHANGED <<queue, dropped, pumpVars, watchVars>>

-----------------------------------------------------------------------------
\* A pump reads a chunk and Publish looks the session up under h.mu; a session
\* that is not registered (yet, or any more) swallows it.
PublishLookup(p) ==
  /\ pub[p] = 0 /\ read < MaxChunks
  /\ read' = read + 1
  /\ pub' = [pub EXCEPT ![p] = IF session = "live" THEN read' ELSE 0]
  /\ UNCHANGED <<session, chanVars, log, watchVars>>

\* Mutant: the send blocks while some watcher's channel is full.
PublishBlocking(p) ==
  /\ pub[p] # 0
  /\ \A w \in subs : Len(queue[w]) < ChanCap
  /\ panic' = (panic \/ \E w \in subs : ~open[w])
  /\ queue' = [w \in Watchers |-> IF w \in subs THEN Append(queue[w], pub[p])
                                  ELSE queue[w]]
  /\ pub' = [pub EXCEPT ![p] = 0]
  /\ log' = Append(log, pub[p])
  /\ UNCHANGED <<session, subs, open, dropped, read, watchVars>>

\* Mutant: a full channel loses its oldest chunk without a trace.
PublishEvicts(p) ==
  /\ pub[p] # 0
  /\ panic' = (panic \/ \E w \in subs : ~open[w])
  /\ queue' = [w \in Watchers |->
                 IF w \notin subs THEN queue[w]
                 ELSE Append(IF Len(queue[w]) < ChanCap THEN queue[w]
                             ELSE Tail(queue[w]), pub[p])]
  /\ pub' = [pub EXCEPT ![p] = 0]
  /\ log' = Append(log, pub[p])
  /\ UNCHANGED <<session, subs, open, dropped, read, watchVars>>

\* Publish under ls.mu: a non-blocking send to each subscriber.
PublishSend(p) ==
  LET full == {w \in subs : Len(queue[w]) >= ChanCap}
  IN /\ pub[p] # 0
     /\ panic' = (panic \/ \E w \in subs : ~open[w])
     /\ queue' = [w \in Watchers |-> IF w \in subs \ full
                                     THEN Append(queue[w], pub[p]) ELSE queue[w]]
     /\ dropped' = [w \in Watchers |-> IF w \in full THEN dropped[w] \cup {pub[p]}
                                       ELSE dropped[w]]
     /\ pub' = [pub EXCEPT ![p] = 0]
     /\ log' = Append(log, pub[p])
     /\ UNCHANGED <<session, subs, open, read, watchVars>>

-----------------------------------------------------------------------------
\* The unsubscribe function: close the channel if it is still subscribed.
Cancel(w) ==
  /\ panic' = (panic \/ (w \in subs /\ ~open[w]))
  /\ open' = [open EXCEPT ![w] = @ /\ w \notin subs]
  /\ subs' = subs \ {w}

\* Subscribe, under h.mu: "session not live" is refused.
SubscribeLookup(w) ==
  /\ wpc[w] = "idle"
  /\ wpc' = [wpc EXCEPT ![w] = IF session = "live" THEN "found" ELSE "gone"]
  /\ UNCHANGED <<session, chanVars, pumpVars, reader, browser, from, got>>

\* Subscribe, under ls.mu: a new channel joins subs.
SubscribeAdd(w) ==
  /\ wpc[w] = "found"
  /\ wpc' = [wpc EXCEPT ![w] = "subscribed"]
  /\ subs' = subs \cup {w}
  /\ open' = [open EXCEPT ![w] = TRUE]
  /\ from' = [from EXCEPT ![w] = Len(log)]
  /\ UNCHANGED <<session, queue, panic, dropped, pumpVars, reader, browser, got>>

\* ServeWatch upgrades and starts its reader, or fails and cancels.
Upgrade(w) ==
  /\ wpc[w] = "subscribed"
  /\ wpc' = [wpc EXCEPT ![w] = "watching"]
  /\ reader' = [reader EXCEPT ![w] = TRUE]
  /\ UNCHANGED <<session, chanVars, pumpVars, browser, from, got>>

UpgradeFails(w) ==
  /\ wpc[w] = "subscribed"
  /\ wpc' = [wpc EXCEPT ![w] = "gone"]
  /\ Cancel(w)
  /\ UNCHANGED <<session, queue, dropped, pumpVars, reader, browser, from, got>>

\* One turn of the range loop: a chunk is written to the socket.
WatchWrite(w) ==
  /\ wpc[w] = "watching" /\ queue[w] # <<>>
  /\ queue' = [queue EXCEPT ![w] = Tail(@)]
  /\ got' = [got EXCEPT ![w] = Append(@, Head(queue[w]))]
  /\ UNCHANGED <<session, subs, open, panic, dropped, pumpVars, wpc, reader,
                 browser, from>>

\* The write fails on a socket that is gone; the deferred cancel runs.
WatchWriteFails(w) ==
  /\ wpc[w] = "watching" /\ queue[w] # <<>> /\ ~browser[w]
  /\ wpc' = [wpc EXCEPT ![w] = "gone"]
  /\ Cancel(w)
  /\ UNCHANGED <<session, queue, dropped, pumpVars, reader, browser, from, got>>

\* The channel is closed and drained: "session ended", and the deferred cancel.
WatchEnds(w) ==
  /\ wpc[w] = "watching" /\ queue[w] = <<>> /\ ~open[w]
  /\ wpc' = [wpc EXCEPT ![w] = "gone"]
  /\ Cancel(w)
  /\ UNCHANGED <<session, queue, dropped, pumpVars, reader, browser, from, got>>

\* The reader sees the browser gone, or the handler's ws.Close, and cancels.
ReaderCancels(w) ==
  /\ reader[w] /\ (~browser[w] \/ wpc[w] = "gone")
  /\ reader' = [reader EXCEPT ![w] = FALSE]
  /\ Cancel(w)
  /\ UNCHANGED <<session, queue, dropped, pumpVars, wpc, browser, from, got>>

BrowserLeaves(w) ==
  /\ browser[w] /\ wpc[w] \in {"subscribed", "watching"}
  /\ browser' = [browser EXCEPT ![w] = FALSE]
  /\ UNCHANGED <<session, chanVars, pumpVars, wpc, reader, from, got>>

-----------------------------------------------------------------------------
Publish(p) == PublishLookup(p) \/ PublishSend(p)

Watch(w) ==
  \/ SubscribeLookup(w) \/ SubscribeAdd(w) \/ Upgrade(w) \/ UpgradeFails(w)
  \/ WatchWrite(w) \/ WatchWriteFails(w) \/ WatchEnds(w) \/ ReaderCancels(w)

Next ==
  \/ Register \/ UnregisterDelete \/ UnregisterClose
  \/ \E p \in Pumps : Publish(p)
  \/ \E w \in Watchers : Watch(w) \/ BrowserLeaves(w)

Spec == Init /\ [][Next]_vars

\* The goroutines that hold or wait for ls.mu run; a watcher whose socket is not
\* stalled keeps writing, whereas a WriteMessage to a stalled one may never return.
\* Nothing makes a session end or a browser leave.
Fairness ==
  /\ WF_vars(UnregisterClose)
  /\ \A p \in Pumps : WF_vars(PublishSend(p))
  /\ \A w \in Watchers :
       /\ WF_vars(SubscribeAdd(w) \/ Upgrade(w) \/ UpgradeFails(w))
       /\ WF_vars(ReaderCancels(w))
  /\ \A w \in Watchers \ Stalled :
       WF_vars(WatchWrite(w) \/ WatchWriteFails(w) \/ WatchEnds(w))

FairSpec == Spec /\ Fairness

-----------------------------------------------------------------------------
TypeOK ==
  /\ session \in {"new", "live", "deleted", "closed"}
  /\ subs \subseteq Watchers
  /\ open \in [Watchers -> BOOLEAN]
  /\ queue \in [Watchers -> Seq(Chunks)]
  /\ panic \in BOOLEAN
  /\ read \in 0 .. MaxChunks
  /\ pub \in [Pumps -> 0 .. MaxChunks]
  /\ wpc \in [Watchers -> {"idle", "found", "subscribed", "watching", "gone"}]
  /\ reader \in [Watchers -> BOOLEAN]
  /\ browser \in [Watchers -> BOOLEAN]
  /\ log \in Seq(Chunks)
  /\ from \in [Watchers -> Nat]
  /\ got \in [Watchers -> Seq(Chunks)]
  /\ dropped \in [Watchers -> SUBSET Chunks]

\* No goroutine sends on or closes a closed channel, whatever the order of
\* Unregister, Publish, the deferred cancel and the reader's cancel.
NoPanic == ~panic

\* The sequence s is l after its first n elements, without the elements of d, in
\* the order of l and with nothing twice.
Without(s, l, n, d) ==
  LET Since == n + 1 .. Len(l)
  IN /\ \A i \in Since : l[i] \in d \/ \E k \in 1 .. Len(s) : s[k] = l[i]
     /\ \A k \in 1 .. Len(s) : \E i \in Since : s[k] = l[i] /\ l[i] \notin d
     /\ \A k, m \in 1 .. Len(s) :
          k < m => s[k] # s[m] /\ \E i, j \in Since : i < j /\ s[k] = l[i] /\ s[m] = l[j]

\* What a watcher was sent and what is still queued for it.
Seen(w) == got[w] \o queue[w]

\* A watcher misses only what its full channel dropped (the default of Publish's
\* select): it sees the other chunks published since it subscribed, in the order
\* in which Publish handled them, however many pumps publish.
WatcherSeesLog == \A w \in subs : Without(Seen(w), log, from[w], dropped[w])

\* A slow watcher never blocks the live session: a pump that found the session
\* gets through Publish although a stalled watcher never reads.
PublishNeverBlocks == \A p \in Pumps : pub[p] # 0 ~> pub[p] = 0

\* A watcher that is subscribed when the session leaves the map, and whose socket
\* takes data, is released.  One that Subscribe has found the session for but not
\* yet subscribed is not: its channel is added after the others were closed, and
\* ServeWatch does not close "when the session ends" as its comment says.
SubscribedWatcherReleased ==
  \A w \in Watchers \ Stalled :
    (session = "deleted" /\ w \in subs) ~> wpc[w] = "gone"

-----------------------------------------------------------------------------
(* The inductive invariant behind NoPanic. *)

\* A subscribed channel is open; only a watcher past SubscribeAdd has one.
OpenInv ==
  /\ \A w \in subs : open[w] = TRUE
  /\ \A w \in Watchers : wpc[w] \in {"idle", "found"} => w \notin subs

Inv == TypeOK /\ OpenInv /\ NoPanic
=============================================================================
