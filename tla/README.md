# ShellWarden in TLA+

A verification development for the ShellWarden gateway: TLA+ models of the parts
of it where several actors, failures or restarts meet, TLC configurations that check them on small instances,
and TLAPS proofs of the safety properties that matter most for every instance.

## 1. The system and its parts

The gateway (`cmd/gateway`, `internal/`) gives browsers SSH shells on managed
hosts, records them, lets administrators watch and terminate them, runs commands
on groups of hosts, and keeps an audit log. Hosts behind NAT run an agent
(`cmd/agent`) that keeps a WebSocket to the gateway open. All state is in the
gateway's memory or in PostgreSQL.

| Component | State | Operations | Interacts with |
|---|---|---|---|
| Resumable sessions (`proxy/ssh.go`, `proxy/resume.go`) | `managedSession` (bound socket, `detachedAt`, `ended`), `sessionStore`, rows of `sessions` | `ServeHTTP`, `attach`, `detach`, `runInput`, `end`, `reap`, `watchdogMS` | hub (register, kill), recorder, audit log, browser |
| Session output (`proxy/resume.go`, `proxy/recorder.go`) | repaint ring, recorder lines, write mutex | `pump`, `writeWS`, `attach`, `Flush` | sessions, hub, audit log |
| Hub (`proxy/hub.go`, `ServeWatch`) | map of live sessions, subscriber channels | `Register`, `Unregister`, `Publish`, `Subscribe`/cancel, `Kill` | pumps, sessions, observers |
| Agent tunnel (`agent/registry.go`, `agent/tunnel.go`) | registry slot per server, streams per connection, `servers.status`, metrics, scans | `Register`, `Unregister`, `Dial`, `openStream`, `ReadLoop`, `Close`, `OnLog`, `OnTelemetry`, `OnScan` | sessions and bulk jobs (dial), agent, CVE cache, audit log |
| Bulk jobs (`bulk/executor.go`, `api/bulk.go`) | job and result rows, subscriber channels, semaphore | `Run`, `runOne`, `publish`, `finish`, `Subscribe`, `StreamBulk` | tunnel, browser (SSE) |
| Audit chain (`auditlog/auditlog.go`) | `audit_logs` rows, a mutex | `Append`, `Verify` | everything above |
| Access to a target (`proxy/ssh.go`, `proxy/rdp.go`, `api/access.go`, `api/servers.go`, `api/sftp.go`, `crypto`, `sshca`) | `access_requests`, the server row with its encrypted credentials and pinned host key, the CA key in `settings` | request, approve, deny, expiry; create, update, delete; `Connect`, `hostKeyCallback`, `loadOrCreateCAKey` | sessions, agent tunnel |
| Accounts (`api/users.go`, `api/oidc.go`, `auth`) | `users`, issued JWTs, the browser's state cookie | `Login`, `MFASetup`, `MFAEnable`, `MFADisable`, `CreateUser`, `OIDCLogin`, `OIDCCallback`, `seedAdminIfEmpty` | alerts, identity provider |
| Alerts (`api/alerts.go`, `notify`) | failures per user, the notifier's queue | `record`, `Send`, `worker` | accounts, webhooks |
| CVE cache (`cve/cve.go`) | severity per advisory | `Enrich`, `fetchSeverity` | scans, OSV |
| Agent binary (`cmd/agent`) | three event queues, the process monitor's `seen` | connect loop, forwarder, `monitorProcesses`, `runTelemetry`, `runVulnScan`, `bridge` | tunnel, sshd |
| Command timeline, browser terminal | none; a reconnect timer | `SessionCommands`; reconnect | database; sessions |
| Other REST handlers, the web pages | none, or single statements | | |

What is hard in this code:

- *Two sockets for one shell.* A browser comes back on a new socket while the
  handler of the old one still believes in it. The same happens to agents.
- *Check, unlock, act.* The resume path, the reaper, `Subscribe`, `publish` and
  `finish` read under a lock and act after releasing it.
- *Channels closed by one goroutine and sent on by another.* Go panics on both
  a send to and a close of a closed channel, and the panic ends the gateway.
- *Goroutines started before their owner is ready.* The pumps of a shell run
  before the session is stored and registered.
- *Ignored errors.* Failed database statements are logged or discarded.
- *Many streams over one socket.* One loop hands every frame to its stream and
  waits for the stream's reader; both ends may wait for each other.
- *Copies that age.* A call works on its copy of the server row, a token on the
  role it was issued with, an enrolment on the secret it read.
- *Connections and processes that die* with frames in flight, events in hand, or
  a start-up half done.
- *Things that must happen in the end*: an abandoned shell is ended, a finished
  session is finalised, a watcher, a stream, a dead agent is let go.

`PROJECT.json` lists these hazards with their lines and the properties aimed at
them.

## 2. Modules

| Module | Models | Checked by | Proved in |
|---|---|---|---|
| `Session` | handlers of `/ws/ssh`, `end()`, store, reaper, watchdog, termination | `MCSession` | `SessionProofs` |
| `Output` | pumps, ring, repaint, recorder, flush | `MCOutput` | `RecordProofs` |
| `Hub` | registration, publishing, watchers | `MCHub.cfg` | `HubProofs` |
| `BulkJob` | one job and its event streams | `MCBulkJob.cfg` | `BulkJobProofs` |
| `AgentTunnel` | successive connections of one agent, streams, status | `MCAgentTunnel.cfg` | `AgentProofs` |
| `AuditChain` | append and verify | `MCAuditChain` | `RecordProofs` |
| `ByteStream` | what a tunnelled stream promises (abstract) | `MCTunnelStream` | `TunnelStreamProofs` |
| `TunnelStream` | frames, pipes and closes at both ends of an agent's socket; implements `ByteStream` | `MCTunnelStream` | `TunnelStreamProofs` |
| `ScanStore` | a scan's way through `cve.Enrich` into the server row | `MCAgentLink` | `AgentProofs` |
| `AgentLink` | collectors, queues, forwarders, reconnects, the gateway's callbacks; extends `ScanStore` | `MCAgentLink` | `AgentProofs` |
| `Alerts` | failure windows and the notifier | `MCAccounts` | `AccountsProofs` |
| `Accounts` | login, TOTP, single sign-on, seeding, crashes; extends `Alerts` | `MCAccounts` | `AccountsProofs` |
| `TargetAccess` | JIT grants, server rows, credentials, host keys, CA key, from check to connection | `MCTargetAccess` | `TargetAccessProofs` |

In every module one action is one critical section, or one call whose effects no
other goroutine sees in part. A `pc`-like variable (`pc`, `endpc`, `tpc`, `hpc`,
`ppc`, `run`, `apc`, ...) says where a goroutine is, so the interleavings between
two locks are those of the program. Variables marked *history* exist for the
properties only. Definitions marked *Mutant* are not used by any specification:
each is a plausible defect of the definition after it, and `PROJECT.json` names
the property that notices it.

**Session.** A handler is named by its connection; a managed session by the
connection that created it. `ServeHTTP` is the chain `Refuse`/`Upgrade`,
`ResumeGet`, `ResumeCheck`, `DialFails`/`CreateSession`, `ShellFails`/
`StartShell`, `StoreAdd`, `HubRegister`, `Attach`, `StartWatch`,
`RunInputReturns`, `StopWatch`, `Detach`. `end()` is `BeginEnd` (the body of
`endOnce` up to the first unlock, entered by `PumpEOF`, `Kill`, `Watchdog` or
`ReapEnd`) and five further steps; any other goroutine may run between them. Time
is abstract: `detachedAt` is zero, within the grace period or past it, and `over`
says that `MaxDuration` has passed. `createSession` may fail, which leaves the
empty id `NoId`, the same store key for all such sessions; the `UPDATE` of
`endSession` may fail when `LostUpdates` is set.

**Output.** Follows one session's output: `Read`, `RecordOutput`, `RingWrite`,
`LoadWS`, `LockWS`, `WriteWS` of each pump, `Bind`, `Snapshot`, `Paint`, `Detach`
of each handler, and the flush inside `end()`. A chunk is its stream and its
number; the ring counts chunks instead of bytes. Closing the SSH channel does not
discard what it has buffered, so a pump may read on after the shell is closed. A
browser may drop, or stay connected and stop reading (`BrowserStalls`): a write to it
may then never return, since the gateway sets no write deadline. A flush that fails
leaves the session without a recording.

**Hub.** One live session. Each operation looks the session up under `h.mu` and
works under `ls.mu`: two actions. `panic` becomes true if a closed channel is
sent on or closed.

**BulkJob.** One job. `publish` copies the subscriber list under `e.mu` and sends
afterwards, one channel at a time; `finish` takes the list out under `e.mu` and
closes afterwards, one channel at a time. `Replay` sends any part of the stored
results, because `bulkResults` skips rows whose `Scan` fails and ignores `rows.Err`.

**AgentTunnel.** One server: its registry slot, the handlers of the agent's
successive connections, and the streams `Dial` opens. A socket is up, dead (the
peer is silent and nobody knows yet) or down. `Register` closes the connection it
replaces in the same critical section, as the code does under `r.mu`.

**AuditChain.** A row's content is two columns of free text, sequences of characters
of which one is the bar. What is hashed behind the previous hash is the two joined by a
bar (`Text`), so that two contents may have one text. A row's hash is what it was
computed from: the sequence of the texts of the chain up to that row, so SHA-256 is
assumed to be free of collisions. The empty sequence is the empty string, which stands
for a missing hash. The log may start with `Legacy` rows from before the hash columns existed.
`Verify` is stated by positions: which row is the latest hashed one before
another (`PrevHash`), where the code carries it along its loop.

**TunnelStream.** Both ends run the same code, so most actions take the end as a
parameter. `held` is the chunk with which `ReadLoop` waits in `deliver`; while it
waits it reads nothing, which is how one stream stalls the others. `WriteFrame`
waits while the socket's buffers are full. `stream.Close` is three steps: it is called
(`StreamClose`; from then on the stream's reader may be gone, as it is in `bridge` after
a failed write to sshd), its frame gets room in the buffers (`CloseSent`), and table and
pipe are cleaned up (`StreamRemove`). `CloseConn` is `AgentConn.Close`, called
when reading fails or when `Registry.Register` replaces the connection. `ByteStream`
says what the two programs at the ends may rely on: they read a prefix of what was
written, in order, and EOF comes after the last byte, by the reader's own doing, or
because the connection broke. The refinement maps `hung` to the streams whose Close
frame is written and `broken` to "some end has closed the socket"; the other
variables are the same.

**AgentLink** and **ScanStore.** `Fork`, `Exec` and `Exit` are the host;
`ConnectorRead`, `ConnectorFails`, `PollBegin`, `PollVisit`, `PollEnd` are the two
process monitors with the fall-back between them. An event of the kernel names a pid,
and what runs under it is looked up in `/proc` when the event is handled; a scan of
`/proc` may list only part of it, since the error of `ReadDir` is ignored. A report, a
snapshot or a scan is numbered when the agent makes it (`Collect`): it is the message
that is followed from there, not the launch it is about. A forwarder
belongs to a connection and may outlive it by one event (`Take` after `stop`). A
connection is up, broken (frames vanish and nobody knows) or down. On the gateway
`OnScan` starts a goroutine per scan; `EnrichSplit` and `EnrichMerge` are the two
critical sections of `Enrich`, `Fetch` one lookup between them; `todo` is the set of
positions in the report whose ids `toFetch` lists, in their order. CVSS scores are a
constant; a lookup answers the score's bucket or fails.

**Accounts** and **Alerts.** Each statement on `users` is a step. A secret is a
number and a code is the number of the secret it was computed from. A window of
failures is a set of numbered readings of the clock, since `record` only filters and
counts it; readings may arrive out of order. `req[r]` is the
request that browser tab `r` has in progress, with what it has read. `Crash` loses
requests, failure windows and queued events; rows, tokens and cookies stay. The
identity provider is `IdPRedirect`. `Promote` is the operator who makes a user an
administrator by a statement on the database (`oidc.go:138`), at any time; the history
variable `was` remembers the role before.

**TargetAccess.** One server row. A call goes through `Begin` (the JIT check),
`Load` (its copy of the row, credentials decrypted), `Dial`, the host-key callback
(`HostKeyKnown`, `HostKeyLearnt`), `Authenticated`, `Ends`; "files" stands for SFTP
and for port forwards, which take the same path through `SSHProxy.Connect`. In direct
mode `Dial` goes to the host of the copy; in agent mode to the machine whose agent is
registered at that moment, which may be any (`Agents`), because agents come and go
independently of the row. The history `pairs` has, for every state of the row, the
route it stood for (`Route`: a host, or the tunnel) with the credential beside it. A stored
credential carries the `SECRET_KEY` it was encrypted under; a CA key is named by the
start of the gateway that generated it.

## 3. What the runs check

Runs that pass:

| Run | Instance | What it shows |
|---|---|---|
| `session` | 3 browsers of 2 users, 1 shell | binding, grace timer, ownership, registration, finalised rows |
| `session_live` | 2 browsers, 1 shell, fairness | `end()` completes, abandoned sessions are ended, exited shells are finalised |
| `output` | 2 browsers that may drop or stall, 1 pump, 2 chunks, ring of 1, fairness | no output lost when one browser takes over from another, last image in order, a bound browser is repainted unless a live browser that does not read holds up a write |
| `hub` | 2 watchers of which 1 may stall, 2 pumps, 2 chunks, channels of 1, fairness | channel discipline; a watcher misses only what its full channel dropped; a subscribed watcher is released; a stalled one blocks nobody |
| `bulk` | 2 hosts, 1 slot, 1 stream, channel of 1, fairness, peers answer | channel discipline, completeness of jobs and streams; jobs finish, streams opened in time end |
| `tunnel` | 3 connections, 1 dial, fairness | the newest agent is current, no stream hangs, a silent agent is removed |
| `audit` | 2 appenders, log of 4 rows of which 1 may be older than the chain, statements may fail | own logs verify unless a read failed; edits that change the hashed text, swaps and inner deletions are noticed |
| `stream` | 2 streams, buffers of 1 frame; a chunk each way at once, or 2 for the gateway, or 1 and a lost connection; fairness | `TunnelStream` implements `ByteStream`; chunks arrive in spite of blocking delivery and a hang-up reaches the other end, unless two Closes deadlock |
| `agent_link` | 2 connections, 2 pids, 2 events, queues of 1, 2 advisories, fairness | no report recorded twice, queues drained, severities matched to their advisories |
| `accounts` | 2 browsers, 2 names, a threshold of 2, crashes | an alert at each crossing of the threshold, tokens agree with rows but for manual promotions, an administrator from the first user on, serial enrolment is sound |
| `access` | 2 calls, 2 users, 1 request, 2 hosts, both modes, 2 host keys, 2 secrets, restarts | decisions stand, pins are replaced only by racing first connections, credentials take only the route they were stored for, the stored CA key signs |

One run shows the code breaking a statement of its own documentation:
`session_cap`. The handler that created a session stops the watchdog when its
browser drops and the resume path starts none, so that nothing enforces the "hard
cap on session length" of `internal/config/config.go` after a resume.

Further disagreements of this kind are stated as properties in the modules. No run
lists them, but each is violated when it is added to the configuration named:

| Property | Configuration | What happens |
|---|---|---|
| `Session!ReaperSparesAttached` | `MCSession.cfg` | `reap` ends a session that a browser reattached after it was collected (`resume.go:238`) |
| `Session!EndDeregisters` | `MCSession.cfg` | a shell that exits at once is stored and registered after `end()` deregistered it (`ssh.go:208`) |
| `Output!RecordingComplete` | `MCOutput.cfg` with two pumps | one pump's EOF flushes the recording while the other holds output that it then shows (`resume.go:105`); sessions without a recording are not counted |
| `AgentTunnel!ConnectedAgentOnline` | `MCAgentTunnel.cfg` | the handler of a replaced connection marks the reconnected agent offline (`tunnel.go:187`) |
| `AuditChain!AnyTamperingDetected` | `MCAuditChain.cfg` | "Any edit/deletion/reordering breaks the chain and is detectable via Verify" (`auditlog.go:3`), but the newest rows can be deleted, and a bar moved from one of the columns `event_type` and `data` to the other, unnoticed |
| `Accounts!StagedSecretNotLive` | `MCAccounts.cfg` | `MFASetup` replaces the secret that login checks while MFA is on, although its comment says that it "generates (but does not enable)" one (`users.go:74`) |

Three more were met while reading and have no property: `record` is said to be
"deduplicated to one alert per breach" (`alerts.go:29`), but failures that come just as
fast as old ones leave the window alert every time, for as long as that lasts (what
does hold is `AlertAtEachCrossing`); `README.md` promises host-key
enforcement "on every outbound connection" while bulk jobs ignore host keys
(`executor.go`, `InsecureIgnoreHostKey`), and the comment of `loadOrCreateCAKey`
says that a key is generated "on first run" while a failed read generates one too
(`main.go:124`; `StoredCASigns` therefore excludes it).

Each module also defines its type invariant `TypeOK` and some properties that hold and
that no run lists, because they are proved (`ReapsOnlyExpired`, `ConcurrencyBounded`,
`ReplacedConnClosed`, `StreamTableExact`, `RecordedBeforeShown`, `SSOInOwnBrowser`,
`NoGrantRevives`, `ForgottenIsEnded`, and the type invariant of every module) or follow
closely from one guard (`ScanCompletes`). They can be added to the configuration of
their module's run.

Other limits of the code show in the conditions of properties that pass; without
the condition the property is false:

- `SubscribedWatcherReleased`: a watcher whose `Subscribe` has looked the session up
  but not yet added its channel when `Unregister` closes the others waits for ever.
- `EarlyStreamEnds`: a stream opened after `finish` took the subscriber list never
  ends. `DoneStreamIsComplete`: a result that meets a full channel after the
  replay query is not sent again, and neither is a stored row that the replay failed to
  read.
- `JobFinishes` holds under `ResponsiveSpec`: the per-host timeout does not cover
  the SSH handshake.
- `OwnLogVerifies`: one failed read of the latest hash breaks the chain for good.
  `TamperingDetected`: the newest rows may be deleted, whom a row is about may be
  changed, and a bar may be moved between its two texts, unnoticed.
- `AlertAtEachCrossing` calls it a breach when the count in the window reaches the
  threshold, and it is over when a failure finds fewer: one failure every 70 seconds,
  with the window of 5 minutes and a threshold of 5, begins a breach and alerts each
  time. The count is per process: a crash forgets the window. An unknown username
  leaves no trace at all.
- `TokenMatchesRow`: after a manual promotion the tokens already issued, and that of a
  login which has read the row, carry the old role until they expire.
- `CredentialMeantForHost` stops at the tunnel in agent mode: which machine is behind
  it depends on the agent registered at the time of the dial, so a credential loaded
  before the agent was moved to another machine goes to that machine.
- `BoundIsPainted`: a write, under `wmu`, to a live browser that does not read may never
  return; while it lasts no other browser is repainted and the watchdog cannot end the
  session.
- `SerialEnrolmentIsSound` excludes users whose TOTP requests overlap or who stage
  a secret while MFA is on: both can leave a secret that no authenticator has.
- `PinReplacedOnlyByRacer`: of two first connections the later one's key is pinned.
- `ApprovalStands` is about SSH: the RDP proxy and bulk jobs do not look at grants.
  A grant that lapses ends nothing.
- `QueuedIsForwarded` and `RecordedAtMostOnce`: the event in hand when a send fails
  is lost, and so are frames in flight when a connection breaks. `RecordedAtMostOnce` is
  about a report once it is made. The agent may well report one launch twice: both
  events of a re-executed or reused pid are looked up as what runs there now, and a
  scan of `/proc` that failed makes the next one report every running process again.
- `SeverityIsOwn` says nothing about which of two scans is stored: the goroutines
  are not ordered, and an older scan may end up in the row. A failed lookup is
  cached for the life of the process.
- `ChunksArrive` and `HangUpReachesPeer` assume that the owners of streams read what
  arrives until they call `Close`: a reader that stops without closing stalls every
  stream of the agent. Both except one deadlock (`Deadlocked`), which the code can
  reach: the buffers are full in both directions, and at each end a `Close` whose reader
  is gone waits for room while `ReadLoop` waits to deliver to that stream. No deadline
  ends it. Without the exception TLC finds it in `MCTunnelStream.cfg`.
- `FinalRowHasNoShell` and `ExitedShellFinalised` say nothing of a row whose
  `UPDATE` failed (`LostUpdates`): it stays open.

Two races of `Session` have no property of their own: a resume that passed
`isEnded` before the shell ended binds a dead shell, and the handler of a terminated
session may close its socket before `end()` sends the close code.

**Bounds.** Three connections allow the longest race the session code has: an old
handler detaching, a newer one serving, and a third request of another user. The
session runs have one shell, because two exceed ten million states; the theorems of
`SessionProofs` cover any number, with and without an id. Two watchers and two
pumps suffice in the hub because its operations name one channel or all. One
`Output` pump suffices for the order on the screen, since a stream is ordered only
by its own pump. Channels and rings of capacity 1
make "full" happen within a few chunks. With one slot for two hosts the semaphore
fills; two goroutines publishing at once are covered by `BulkJobProofs`. Three
agent connections give a connection that replaced one and was replaced itself.
Four rows give a
legacy row and a first, an inner and a last row of the chain; of the three contents
two have one text. `MaxChunks`, `Supply` and
`MaxRows` bound what would be unbounded, in the guards of `PublishLookup`, `Read`
and `Lock`.

The four newer runs have several independent counters, whose product would be too large.
`Bounds` is a set of records; a behaviour starts with one of them in `bound`, `budget`
or `left`, and each record gives room to one race, or a little to each. In `accounts`
one record has four failures over three instants, one two failures and a crash, one
three secrets and a crash, one two users and two secrets, two have two users with two
OIDC states or with one and a crash, and one a secret and an OIDC state; in `agent_link`
one has two reports of launches, one two scans, one a report and a snapshot; in `access`
one has two calls and two starts of the gateway, one an update of the server overtaking
a call; in `stream` one has a chunk each way, one two chunks for the gateway, and two a
lost connection with a chunk. Two streams suffice for head-of-line blocking. With
buffers of one frame both directions fill up at once, and the deadlock of two Closes is
reached; larger buffers only need more chunks for the same. Two connections give a
forwarder that outlives its own. Two pids give a partial listing. A window of one tick
and a threshold of two make a failure at the edge and a second breach happen. Two
secrets and two hosts are the least that can be mixed up; one credential suffices
because it is told from its absence and from ciphertext.

Symmetry over browsers, calls, hosts and keys is used in `accounts` and `access`,
which check invariants and action properties only. The others check liveness, where
it is unsound.

**Deadlock** is not an error in these runs: each instance has finitely many
requests, after which the modelled part of the gateway is idle.

**Fairness.** Goroutines that can run do run: steps that need only the scheduler,
a lock, a timer or the database are weakly fair. Steps that depend on a peer are
not: no browser need drop, no shell need exit, no administrator need act. In
`BulkJob` the SSH handshake is fair only in `ResponsiveSpec`, because no deadline
covers it. In `Output` a `WriteMessage` returns if its peer reads, and with an error if
the socket is closed or the peer has vanished, at the latest when the kernel gives the
connection up; a write to a live browser that does not read (`sock` is "stalled") has no
fairness. The write mutex is strongly fair (`sync.Mutex` hands over to a starving
waiter). `Session` has no sockets that stall: it assumes that the message which the
watchdog writes before it calls `end()` gets written. In
`Hub` the watchers in `Stalled` have no fairness: a write to their socket may never
return. In
`AgentTunnel` the read deadline makes `ReadLoopReturns` fair for a silent peer. In
`AgentLink` the agent's loop, each forwarder, each `ReadLoop` and each scan's
goroutine are fair: the loop in `main` never gives up, a broken path is noticed by
TCP or by the deadline, and every HTTP lookup has a timeout. Nobody has to launch,
break or scan. In `TunnelStream` each end's own goroutines are fair (`Runs`): its
read loop, the reader of a stream until `Close` is called on it and not beyond, the
completion of an open, and the steps of a close as soon as there is room for its frame;
nobody has to write, hang up or break anything.

## 4. What is proved

The theorems below establish every safety property that the passing runs check (the
26 invariants, the action property and the refinement) for every instance: any sets
of connections, users, watchers, pumps, streams, calls, dials, appenders, advisories
and pids, any capacities, windows and thresholds, any number of restarts. They start
from the named assumptions of the modules only (distinctness of the null values,
`Reachable` a set of connections, Boolean switches, capacities at least 1, finitely
many hosts, bounds that are natural numbers, CVSS scores from 0 to 10, listings that
are lists of findings).

| Module | Proved |
|---|---|
| `SessionProofs` | type correctness, `LatestHandlerBound`, `GraceRunsIffDetached`, `OnlyOwnerBound`, `LiveSessionReachable`, `FinalRowHasNoShell`, the action property `ReapsOnlyExpired` |
| `RecordProofs` | type correctness of `Output` and `AuditChain`, `NoOutputLost`, `ScreenEndsInOrder`, `RecordedBeforeShown`, `OwnLogVerifies`, `TamperingDetected` |
| `HubProofs` | type correctness, `NoPanic`, `WatcherSeesLog` |
| `BulkJobProofs` | type correctness, `NoPanic`, `ConcurrencyBounded`, `DoneJobHasAllResults`, `DoneStreamIsComplete` |
| `AgentProofs` | type correctness of `AgentTunnel`, `AgentLink` and `ScanStore`, `LatestAgentCurrent`, `ReplacedConnClosed`, `NoHangingStream`, `StreamTableExact`, `NoGhostOnline`, `RecordedAtMostOnce`, `SeverityIsOwn` |
| `TunnelStreamProofs` | type correctness, `ForgottenIsEnded`, the refinement `ImplementsByteStream` |
| `TargetAccessProofs` | type correctness, `ApprovalStands`, `CredentialMeantForHost`, `StoredCASigns`, the action properties `PinReplacedOnlyByRacer` and `NoGrantRevives` |
| `AccountsProofs` | type correctness, `TokenMatchesRow`, `AdminBeforeUsers`, `SerialEnrolmentIsSound`, `SSOInOwnBrowser`, `AlertAtEachCrossing` |

Each proof is an induction with one step per action, or per group of actions that
leave the invariant's variables alone. The invariants are not inductive alone; TLC
checked the strengthened ones before they were proved.

- `Session`. `OnlyOwnerBound` needs that a handler about to attach holds a session of
  its own user, although the comparison was made two steps earlier (`HandlerInv`);
  `LiveSessionReachable` needs that a session has its own id or none, so that no other
  session's `store.remove` deletes its entry (`RowInv`), and that nothing refers to a
  session whose shell has not started (`StartedInv`); `FinalRowHasNoShell` needs that
  `end()` past its second step has closed the shell (`RowInv`). `ReapsOnlyExpired`
  follows from `GraceRunsIffDetached`: only `ReapCollect` adds to the reaper's list.
- `Output`. The ring holds the last chunks of all that were written to it (`RingInv`).
  `NoOutputLost` then needs that the last browser stays bound until its own handler
  detaches it (`BoundInv`), and that already while it is being repainted what the
  snapshot does not hold is on its way to it (`SnapInv`). `ScreenEndsInOrder` needs
  that each stream's chunks come to the ring in order (`RungInv`) and that a handler
  between `Snapshot` and `Paint` holds the write mutex, so that no pump can show its
  browser a chunk that is newer than the repaint (`PaintInv`). The step from there is
  a lemma about sequences (`OrderKept`): to append an ordered piece keeps a screen in
  order if the piece repeats whatever it is not newer than.
- `Hub`. `NoPanic` rests on `OpenInv`: a subscribed channel is open. `WatcherSeesLog`
  compares what a watcher has seen with the log without what was dropped; it is stated
  by positions (`Without`, `Seen`), which can be reasoned about, instead of by filtering
  a sequence. Its invariant adds that no chunk is published twice or dropped unpublished
  (`LogInv`) and that nothing is sent to a watcher before it subscribes (`FreshInv`).
- `BulkJob`. The channels are used outside the lock, so `NoPanic` takes three parts: a
  goroutine in `publish` is counted by the WaitGroup (`HostInv`), the WaitGroup is empty
  once `finish` runs (`RunInv`), so `finish` closes nothing that `publish` can still send
  on (`ChanInv`). `DoneStreamIsComplete` needs that a stream stays on the list until
  `finish` takes it (`ListedInv`) and where each result is on its way to the stream
  (`GivenInv`).
- `AgentTunnel`. `StepInv` says what each handler and each dial knows at its program
  counter, and `StatusInv` that whoever wrote "online" last has yet to write "offline".
- `AuditChain`. Whoever is inside `Append` holds the mutex (`AppendsLocked`), so what it
  read is still the hash of the latest row when it inserts, unless a read has failed
  (`ReadIsLatest`); and no row without a hash follows one that has one
  (`ChainedFromThere`), so the latest row is the one `Verify` will compare with.
  `TamperingDetected` holds of any log that verifies: its hashes grow from one hashed row
  to the next (the least counterexample is contradictory), so no two hashed rows have the
  same hash and none can take another's place. The last text in a row's hash is that of
  its content, so only an edit that keeps the text keeps the hash; nothing is assumed
  about which contents share one.
- `AgentLink`. The invariant says where a report can be: in the agent's queue, in one
  forwarder's hands, on one wire or in the log; in one of these at most (`OnePlaceOf`),
  once there (`Distinct`), and nowhere before it was made, so that the next one is new
  everywhere (`NextIsFresh`). A step moves one report or loses some (`PlacesMoved`,
  `PlacesKept`, `PlacesJoined`), or a collector makes one (`CollectStep`). What the
  kernel and the scans of `/proc` say does not matter here: it decides which reports are
  made, and the theorem is about what becomes of them.
- `ScanStore`. What a goroutine knows of an advisory is its own severity or nothing
  (`ScanInv`). A frame names a scan that was made, which comes from the invariant of
  `AgentLink`; a report is written only while no goroutine and no row knows its number.
  `EnrichMerge` takes the last of the positions of an id, so the proof needs that a
  bounded set of numbers has a largest one (`MaxIsMember`).
- `TunnelStream`. The refinement is shown step by step: every action is a step of
  `ByteStream` or leaves its variables alone. A read must return the next chunk, so the
  invariant follows the chunks: while a stream is being received, the wire holds exactly
  those sent and not yet taken, in order and before the Close frame (`ChunkInv`,
  `HeldInv`). An EOF without a broken connection must come after the last byte, so the
  Close frame is followed as well (`CloseInv`). Since a stream's pipe at the agent is made
  when the Open frame is read, that frame must come first and once (`OpenInv`,
  `QuietInv`).
- `TargetAccess`. A call's copy of the row was the row once, and in direct mode the call
  goes to the copy's host (`CopyInv`); that is all that `CredentialMeantForHost` may rely
  on, since the row moves on; a request stays
  approved until the server is gone (`GrantInv`); a gateway that is about to store a CA
  key and met no fault has found none (`CAInv`).
- `Accounts`. What a request has read stays true until it writes: the role that `Login`
  read, or that was the user's before a promotion (`LoginInv`; a promotion happens once,
  `WasInv`), and, for a user whose TOTP requests have not overlapped, the secret
  (`MFAInv`). `AdminBeforeUsers` needs that nobody is served before the seeding
  (`BootInv`), `SSOInOwnBrowser` that a cookie holds a state issued to its browser
  (`CookieInv`).
- `Alerts`. `AlertAtEachCrossing` counts the failures in a window from the history of all
  of them, while the code keeps a slice that it filters at each failure. The two agree
  because the slice holds exactly the failures that every later one has left in it
  (`FailsInv`), also when the clock readings arrive out of order. A failure that finds
  the threshold reached has, just before it, one that belongs to the same breach, so the
  one alert of the breach is carried along.

Only model-checked:

- Liveness, which is beyond the prover: `EndCompletes`, `DetachedIsReaped`,
  `ExitedShellFinalised`, `BoundIsPainted`, `SubscribedWatcherReleased`,
  `PublishNeverBlocks`, `JobFinishes`, `EarlyStreamEnds`, `DeadAgentRemoved`,
  `QueuedIsForwarded`, `ChunksArrive`, `HangUpReachesPeer`.

Induction over data is beyond it as well. Where the code filters or folds a list, the
models therefore say by positions or by sets what the result is (`Verify`, `todo`,
`fails`, `Seen`), and the few inductions the proofs need go through the least element
of a set of numbers (`LeastNumber`).

## 5. What is not modelled

- Cryptography, the CVSS formulas (floating point), SSH and the Guacamole protocol:
  libraries or pure functions. The models keep what they decide: which key
  decrypts, which secret a code belongs to, which bucket a score falls into.
- The parsing of `/proc`, netlink messages and package managers' output: I/O. The
  models keep which launches, snapshots and findings are sent.
- `RecordInput` and `WindowChange` in `runInput`, the asciinema format, the copy
  loops of `ServeForward` and SFTP: no property depends on them.
- REST handlers that read, list or report, metrics, groups, `RotateToken`, the web
  pages: single statements without state in the gateway.
- The command timeline (`api/commands.go`): a sequential parser of recorded input.
- Two gateway processes on one database: the registry, the hub and the session store
  are in memory, so the code supports one.
- The browser terminal's reconnect machine: TypeScript outside the gateway, planned.

## 6. Plan

1. `SshTerminal`: the browser's reconnect machine composed with `Session`, so that
   "terminated means no reconnect" is checked end to end.
2. `CommandTimeline`: the input parser against a reference definition.
3. An abstract session (running, detached, ended; recorded once) that `Session`
   is shown to implement by a refinement mapping.
