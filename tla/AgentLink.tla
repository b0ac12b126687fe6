----------------------------- MODULE AgentLink -----------------------------
(***************************************************************************)
(* How what happens on a host reaches the gateway: the collectors of the   *)
(* agent (cmd/agent: process monitor, telemetry, vulnerability scan),      *)
(* their bounded queues, the forwarder goroutine of each tunnel            *)
(* connection, the reconnect loop, and the gateway's ReadLoop with its     *)
(* OnLog, OnTelemetry and OnScan.  A connection may break at any moment,   *)
(* silently or not, with frames written and not yet read.                  *)
(***************************************************************************)
EXTENDS ScanStore, Functions

CONSTANTS Pids,     \* process ids of the host (reused)
          MaxEvents,\* bound: events of one kind
          Bounds,   \* the instances checked: how many events of each kind
          Tunnels,  \* bound: successive tunnel connections, 1..n
          Cap,      \* capacity of execEvents, telemetryEvents, scanEvents
          Distros, Listings \* distributions, and what their tools may list

Kinds == {"exec", "metric", "scan"}
ASSUME LinkAssumption ==
  /\ MaxEvents \in Nat /\ Tunnels \in SUBSET (Nat \ {0})
  /\ Bounds \subseteq [Kinds -> 0..MaxEvents] /\ \A b \in Bounds : b.scan <= MaxScans
  /\ Cap \in [Kinds -> Nat \ {0}]
ASSUME ListingAssumption == Listings \subseteq Seq([id : Cves, word : STRING])

VARIABLES
  running,  \* the pids that have an entry in /proc
  made,     \* how many reports, snapshots and scans the agent has made
  mode,     \* monitorProcesses: "connector" or "poll"
  kernel,   \* netlink: the pids of exec events not yet read by the agent
  seen,     \* monitorProcPoll: seen
  visit,    \* the entries of /proc it has yet to visit
  current,  \* the entries it found
  poll,     \* "first", "again": sleeping before a scan; "scan1", "scan": in it
  q,        \* the three queues
  serving,  \* the connection connectAndServe is reading, 0: none
  link,     \* "none", "up", "broken" (nothing passes, nobody told), "down"
  fwd,      \* each forwarder: "off", "select", "gone", or the event in hand
  wire,     \* frames written and not yet read
  gw,       \* the gateway's ReadLoop: "none", "reading", "done"
  audit,    \* host_exec entries of the audit log
  metrics,  \* servers.metrics
  distro,   \* the host's distribution (never changes)
  bound     \* the bounds of this behaviour (never changes)

const == <<distro, bound>>
hostVars == <<running, mode, kernel, seen, visit, current, poll, const>>
tunnelVars == <<serving, link, fwd, wire, gw>>
storeVars == <<audit, metrics>>
linkVars == <<hostVars, made, q, tunnelVars, storeVars, scanVars>>

Event(k, n) == [kind |-> k, n |-> n]
\* Where a forwarder without an event is.
At(s) == [kind |-> s, n |-> 0]
Holding(c) == fwd[c].n # 0
Events == [kind : Kinds, n : 1..MaxEvents]

LinkTypeOK ==
  /\ running \subseteq Pids /\ distro \in Distros /\ bound \in Bounds
  /\ made \in [Kinds -> Nat] /\ \A k \in Kinds : made[k] <= bound[k]
  /\ mode \in {"connector", "poll"} /\ poll \in {"first", "again", "scan1", "scan"}
  /\ kernel \in Seq(Pids)
  /\ seen \cup visit \cup current \subseteq Pids
  /\ q \in [Kinds -> Seq(Events)] /\ \A k \in Kinds : Len(q[k]) <= Cap[k]
  /\ serving \in Tunnels \cup {0}
  /\ link \in [Tunnels -> {"none", "up", "broken", "down"}]
  /\ fwd \in [Tunnels -> Events \cup {At("off"), At("select"), At("gone")}]
  /\ wire \in [Tunnels -> Seq(Events)]
  /\ gw \in [Tunnels -> {"none", "reading", "done"}]
  /\ audit \in Seq(1..MaxEvents) /\ metrics \in 0..MaxEvents

LinkInit ==
  /\ ScanInit
  /\ running = {} /\ distro \in Distros /\ bound \in Bounds
  /\ made = [k \in Kinds |-> 0]
  /\ mode = "connector" /\ poll = "first"
  /\ kernel = <<>> /\ seen = {} /\ visit = {} /\ current = {}
  /\ q = [k \in Kinds |-> <<>>]
  /\ serving = 0
  /\ link = [c \in Tunnels |-> "none"] /\ fwd = [c \in Tunnels |-> At("off")]
  /\ wire = [c \in Tunnels |-> <<>>] /\ gw = [c \in Tunnels |-> "none"]
  /\ audit = <<>> /\ metrics = 0

-----------------------------------------------------------------------------
(* The host and the collectors. *)

\* The non-blocking sends of main: a full queue drops the event.
Enqueue(k, n) ==
  q' = [q EXCEPT ![k] = IF Len(@) < Cap[k] THEN Append(@, Event(k, n)) ELSE @]

\* A collector has something to report, the next one of its kind.
Collect(k) ==
  /\ made[k] < bound[k] /\ made' = [made EXCEPT ![k] = @ + 1]
  /\ Enqueue(k, made[k] + 1)

\* A process comes into being (as long as it can still be reported) ...
Fork(p) ==
  /\ made["exec"] < bound.exec
  /\ p \notin running /\ running' = running \cup {p}
  /\ UNCHANGED <<mode, kernel, seen, visit, current, poll, const, made, q, tunnelVars,
                 storeVars, scanVars>>

\* ... executes a program, and another one in its place; the kernel queues the
\* event if anyone listens ...
Exec(p) ==
  /\ p \in running /\ mode = "connector" /\ made["exec"] + Len(kernel) < bound.exec
  /\ kernel' = Append(kernel, p)
  /\ UNCHANGED <<running, mode, seen, visit, current, poll, const, made, q, tunnelVars,
                 storeVars, scanVars>>

\* ... and ends.  Its pid is used again.
Exit(p) ==
  /\ p \in running /\ running' = running \ {p}
  /\ UNCHANGED <<mode, kernel, seen, visit, current, poll, const, made, q, tunnelVars,
                 storeVars, scanVars>>

\* handleProcEvent takes the pid from the event and buildExecEvent reads /proc:
\* the report is about whatever runs under the pid by now, or names only the pid
\* if that is gone.  Two events of one pid may give two reports that say the same.
ConnectorRead ==
  /\ mode = "connector" /\ kernel # <<>>
  /\ kernel' = Tail(kernel) /\ Collect("exec")
  /\ UNCHANGED <<running, mode, seen, visit, current, poll, const, tunnelVars,
                 storeVars, scanVars>>

\* The socket fails, at once or later: monitorProcesses falls back to polling
\* and what the kernel had queued is gone.
ConnectorFails ==
  /\ mode = "connector" /\ mode' = "poll" /\ kernel' = <<>>
  /\ UNCHANGED <<running, seen, visit, current, poll, const, made, q, tunnelVars, storeVars,
                 scanVars>>

\* monitorProcPoll: ReadDir.  Its error is ignored, so that the listing may be
\* empty or cut short ...
PollBegin ==
  /\ mode = "poll" /\ poll \in {"first", "again"}
  /\ poll' = IF poll = "first" THEN "scan1" ELSE "scan"
  /\ current' \in SUBSET running /\ visit' = current'
  /\ UNCHANGED <<running, mode, kernel, seen, const, made, q, tunnelVars, storeVars, scanVars>>

\* ... each entry: a pid not seen before is reported, whether or not it has
\* executed anything, unless this is the first scan or there is nothing to read
\* (gone by now, unreadable, a kernel thread) ...
PollVisit(p) ==
  /\ poll \in {"scan1", "scan"} /\ p \in visit
  /\ visit' = visit \ {p} /\ seen' = seen \cup {p}
  /\ \/ UNCHANGED <<made, q>>
     \/ p \notin seen /\ poll = "scan" /\ p \in running /\ Collect("exec")
  /\ UNCHANGED <<running, mode, kernel, current, poll, const, tunnelVars, storeVars, scanVars>>

\* ... and forget the pids that were not found: the next scan reports them again
\* if they were only missing from the listing.
PollEnd ==
  /\ poll \in {"scan1", "scan"} /\ visit = {}
  /\ poll' = "again" /\ seen' = seen \cap current /\ current' = {}
  /\ UNCHANGED <<running, mode, kernel, visit, const, made, q, tunnelVars, storeVars, scanVars>>

\* runTelemetry.
Telemetry ==
  /\ Collect("metric")
  /\ UNCHANGED <<hostVars, tunnelVars, storeVars, scanVars>>

normSeverity(word) ==
  CASE word \in {"critical", "low"} -> word
    [] word \in {"important", "high"} -> "high"
    [] word \in {"moderate", "medium"} -> "medium"
    [] OTHER -> "unknown"

\* scanHost: what the distribution's tool listed, or nothing when there is no
\* tool (debsecan, arch-audit; dnf and yum are always tried) or it fails.
scanHost(tool, listing) ==
  IF \/ distro \in {"debian", "arch"} /\ tool
     \/ distro = "rhel"
  THEN [i \in DOMAIN listing |-> [id |-> listing[i].id, sev |-> normSeverity(listing[i].word)]]
  ELSE <<>>

\* runVulnScan.
VulnScan(tool, listing) ==
  /\ Collect("scan")
  /\ report' = [report EXCEPT ![made["scan"] + 1] = scanHost(tool, listing)]
  /\ UNCHANGED <<hostVars, tunnelVars, storeVars, job, cache, vulnScan>>

-----------------------------------------------------------------------------
(* The tunnel. *)

\* Mutant: one connection is all the agent ever makes.
ConnectOnce(c) ==
  /\ serving = 0 /\ \A d \in Tunnels : link[d] = "none"
  /\ serving' = c /\ link' = [link EXCEPT ![c] = "up"]
  /\ fwd' = [fwd EXCEPT ![c] = At("select")] /\ gw' = [gw EXCEPT ![c] = "reading"]
  /\ UNCHANGED <<hostVars, made, q, wire, storeVars, scanVars>>

\* connectAndServe: the next connection; Register closes the one it replaces.
Connect(c) ==
  /\ serving = 0 /\ link[c] = "none" /\ \A d \in Tunnels : d < c => link[d] # "none"
  /\ serving' = c
  /\ link' = [d \in Tunnels |-> IF d = c THEN "up" ELSE IF d < c THEN "down" ELSE link[d]]
  /\ fwd' = [fwd EXCEPT ![c] = At("select")] /\ gw' = [gw EXCEPT ![c] = "reading"]
  /\ UNCHANGED <<hostVars, made, q, wire, storeVars, scanVars>>

\* The path breaks without notice; the last frames in flight are lost.
Breaks(c, k) ==
  /\ link[c] = "up" /\ link' = [link EXCEPT ![c] = "broken"]
  /\ wire' = [wire EXCEPT ![c] = SubSeq(@, 1, k)]
  /\ UNCHANGED <<hostVars, made, q, serving, fwd, gw, storeVars, scanVars>>

\* The agent's ReadLoop fails (close frame, reset, keep-alive): it closes the
\* socket and the stop channel, waits and dials again.
AgentReadFails(c) ==
  /\ serving = c /\ link[c] \in {"broken", "down"}
  /\ serving' = 0 /\ link' = [link EXCEPT ![c] = "down"]
  /\ UNCHANGED <<hostVars, made, q, fwd, wire, gw, storeVars, scanVars>>

\* The forwarder's select, a ready queue; also one last time after stop.
Take(c, k) ==
  /\ fwd[c] = At("select") /\ q[k] # <<>>
  /\ fwd' = [fwd EXCEPT ![c] = Head(q[k])] /\ q' = [q EXCEPT ![k] = Tail(@)]
  /\ UNCHANGED <<hostVars, made, serving, link, wire, gw, storeVars, scanVars>>

\* ... and the stop channel.
ForwarderStops(c) ==
  /\ fwd[c] = At("select") /\ serving # c /\ fwd' = [fwd EXCEPT ![c] = At("gone")]
  /\ UNCHANGED <<hostVars, made, q, serving, link, wire, gw, storeVars, scanVars>>

\* SendLog, SendTelemetry, SendScan: a broken path may take the frame and lose it.
Sent(c) ==
  /\ Holding(c) /\ link[c] \in {"up", "broken"}
  /\ fwd' = [fwd EXCEPT ![c] = At("select")]
  /\ wire' = [wire EXCEPT ![c] = IF link[c] = "up" THEN Append(@, fwd[c]) ELSE @]
  /\ UNCHANGED <<hostVars, made, q, serving, link, gw, storeVars, scanVars>>

\* Mutant: the event goes back to the queue although it may have been written.
SendRetries(c) ==
  /\ Holding(c) /\ link[c] \in {"broken", "down"} /\ Enqueue(fwd[c].kind, fwd[c].n)
  /\ fwd' = [fwd EXCEPT ![c] = At("gone")]
  /\ \/ wire' = [wire EXCEPT ![c] = Append(@, fwd[c])]
     \/ UNCHANGED wire
  /\ UNCHANGED <<hostVars, made, serving, link, gw, storeVars, scanVars>>

\* The write fails: the forwarder returns and the event in hand is lost.
SendFails(c) ==
  /\ Holding(c) /\ link[c] \in {"broken", "down"}
  /\ fwd' = [fwd EXCEPT ![c] = At("gone")]
  /\ UNCHANGED <<hostVars, made, q, serving, link, wire, gw, storeVars, scanVars>>

-----------------------------------------------------------------------------
(* The gateway. *)

\* The audit entry of a report; the latest snapshot of the server.
OnLog(e) == audit' = IF e.kind = "exec" THEN Append(audit, e.n) ELSE audit
OnTelemetry(e) == metrics' = IF e.kind = "metric" THEN e.n ELSE metrics

\* ReadLoop and OnLog, OnTelemetry or OnScan.
GatewayReads(c) ==
  LET e == Head(wire[c])
  IN /\ gw[c] = "reading" /\ wire[c] # <<>>
     /\ wire' = [wire EXCEPT ![c] = Tail(@)]
     /\ OnLog(e) /\ OnTelemetry(e)
     /\ IF e.kind = "scan" THEN OnScan(e.n) ELSE UNCHANGED job
     /\ UNCHANGED <<hostVars, made, q, serving, link, fwd, gw, report, cache, vulnScan>>

\* The socket is closed, or no ping arrived within heartbeatTimeout: ReadLoop
\* returns and closes its side.
GatewayGivesUp(c) ==
  /\ gw[c] = "reading" /\ link[c] \in {"broken", "down"}
  /\ gw' = [gw EXCEPT ![c] = "done"] /\ wire' = [wire EXCEPT ![c] = <<>>]
  /\ link' = [link EXCEPT ![c] = "down"]
  /\ UNCHANGED <<hostVars, made, q, serving, fwd, storeVars, scanVars>>

-----------------------------------------------------------------------------
Host ==
  \/ \E p \in Pids : Fork(p) \/ Exec(p) \/ Exit(p) \/ PollVisit(p)
  \/ ConnectorRead \/ ConnectorFails \/ PollBegin \/ PollEnd
  \/ Telemetry
  \/ \E tool \in BOOLEAN, l \in Listings : VulnScan(tool, l)

ScanJob(n) == ScanStep(n) /\ UNCHANGED <<hostVars, made, q, tunnelVars, storeVars>>

Forwarder(c) == \/ \E k \in Kinds : Take(c, k)
                \/ ForwarderStops(c) \/ Sent(c) \/ SendFails(c)

LinkNext ==
  \/ Host
  \/ \E c \in Tunnels : Connect(c) \/ AgentReadFails(c) \/ Forwarder(c)
                      \/ GatewayReads(c) \/ GatewayGivesUp(c)
  \/ \E c \in Tunnels : \E k \in 0..Len(wire[c]) : Breaks(c, k)
  \/ \E n \in Scans : ScanJob(n)

LinkSpec == LinkInit /\ [][LinkNext]_linkVars

\* Every goroutine runs: the agent's main loop (its reads notice a broken path,
\* and it never gives up reconnecting to a gateway that can be reached again),
\* each forwarder, each ReadLoop with its read deadline, each scan's goroutine.
LinkFairSpec ==
  /\ LinkSpec
  /\ WF_linkVars(\E c \in Tunnels : Connect(c) \/ AgentReadFails(c))
  /\ \A c \in Tunnels : WF_linkVars(Forwarder(c)) /\ WF_linkVars(GatewayReads(c) \/ GatewayGivesUp(c))
  /\ \A n \in Scans : WF_linkVars(ScanJob(n))

-----------------------------------------------------------------------------
InFlight == UNION ({Range(q[k]) : k \in Kinds} \cup {Range(wire[c]) : c \in Tunnels}
                   \cup {{fwd[c]} \cap Events : c \in Tunnels})

\* A report that the agent made is in the audit log at most once, and not also on
\* its way: neither the hand-over between the forwarders of two connections, which
\* both take from one queue, nor a send that failed after it was written, nor
\* frames read behind a broken path make the gateway record it twice.  (Whether
\* the agent reports one launch twice is another matter: it may, see PollEnd.)
RecordedAtMostOnce ==
  /\ \A i, j \in DOMAIN audit : i # j => audit[i] # audit[j]
  /\ \A i \in DOMAIN audit : Event("exec", audit[i]) \notin InFlight
  /\ \A k \in Kinds : \A i, j \in DOMAIN q[k] : i # j => q[k][i] # q[k][j]

\* What is queued leaves the queue: a forwarder that died with its connection
\* is replaced by that of the next one (as long as there is a next one).
QueuedIsForwarded ==
  (\E k \in Kinds : q[k] # <<>>) ~>
    \/ \A k \in Kinds : q[k] = <<>>
    \/ \A c \in Tunnels : link[c] \in {"broken", "down"}

\* Scans that reached the gateway are stored and audited, however their lookups
\* of severities fail.
ScanCompletes ==
  (\E n \in Scans : job[n].pc \notin {"none", "done"}) ~>
    (\A n \in Scans : job[n].pc \in {"none", "done"})
=============================================================================
