------------------------------- MODULE BulkJob -------------------------------
(***************************************************************************)
(* One bulk job: Executor.Run with its per-host goroutines                 *)
(* (internal/bulk/executor.go) and the SSE streams that follow it          *)
(* (StreamBulk in internal/api/bulk.go).  Jobs share only the mutex, so    *)
(* one job stands for all.  The result of a host is named by the host.     *)
(*                                                                         *)
(* Executor.publish copies the subscriber list under e.mu and sends after  *)
(* unlocking; finish removes the list under e.mu and closes the channels   *)
(* after unlocking.  Only Run's WaitGroup keeps the two apart.             *)
(***************************************************************************)
EXTENDS Integers, Sequences, FiniteSets

CONSTANTS Hosts,           \* the servers of the group
          Streams,         \* StreamBulk requests, and the channel of each
          MaxConcurrency,  \* maxConcurrency (50)
          ChanCap          \* capacity of a subscriber channel (64)

ASSUME HostsAssumption == IsFiniteSet(Hosts)
ASSUME MaxConcurrencyAssumption == MaxConcurrency \in Nat \ {0}
ASSUME ChanCapAssumption == ChanCap \in Nat \ {0}

VARIABLES
  run,      \* where Executor.Run is
  hpc,      \* where the goroutine of each host is
  sem,      \* the hosts holding a slot of the semaphore
  wg,       \* the hosts the WaitGroup counts
  status,   \* bulk_jobs.status
  result,   \* the status of each host's result
  stored,   \* hosts with a row in bulk_results
  subs,     \* Executor.subscribers[jobID]
  toSend,   \* per host: publish's copy of subs still to be sent to
  closing,  \* finish's copy of subs still to be closed
  open,     \* the channel exists and has not been closed
  queue,    \* the results buffered in each channel
  panic,    \* a send on, or a close of, a closed channel
  spc,      \* where each StreamBulk is
  sent,     \* results written to each event stream
  dropped,  \* history: results a full channel dropped
  unread    \* history: stored results that each stream's replay did not read

runVars == <<run, status, closing>>
hostVars == <<hpc, sem, wg, result, stored, toSend>>
chanVars == <<subs, open, queue, panic, dropped>>
streamVars == <<spc, sent, unread>>
vars == <<runVars, hostVars, chanVars, streamVars>>

Statuses == {"none", "unreachable", "error", "timeout", "ok"}
HostPCs == {"waiting", "dial", "handshake", "running", "store", "publish",
            "send", "done"}

Init ==
  /\ run = "resolve"
  /\ hpc = [h \in Hosts |-> "waiting"]
  /\ sem = {} /\ wg = {}
  /\ status = "running"
  /\ result = [h \in Hosts |-> "none"]
  /\ stored = {}
  /\ subs = {}
  /\ toSend = [h \in Hosts |-> {}]
  /\ closing = {}
  /\ open = [s \in Streams |-> FALSE]
  /\ queue = [s \in Streams |-> <<>>]
  /\ panic = FALSE
  /\ spc = [s \in Streams |-> "idle"]
  /\ sent = [s \in Streams |-> {}]
  /\ dropped = [s \in Streams |-> {}]
  /\ unread = [s \in Streams |-> {}]

-----------------------------------------------------------------------------
(* Executor.Run. *)

Resolve ==
  /\ run = "resolve"
  /\ run' \in {"dispatch", "finish"}  \* resolveServers may fail
  /\ UNCHANGED <<status, closing, hostVars, chanVars, streamVars>>

\* wg.Add, sem <- and the go statement for one server.
Dispatch(h) ==
  /\ run = "dispatch" /\ hpc[h] = "waiting"
  /\ Cardinality(sem) < MaxConcurrency
  /\ sem' = sem \cup {h}
  /\ wg' = wg \cup {h}
  /\ hpc' = [hpc EXCEPT ![h] = "dial"]
  /\ UNCHANGED <<runVars, result, stored, toSend, chanVars, streamVars>>

\* Mutant: finish does not wait for the goroutines.
NoWait ==
  /\ run = "dispatch" /\ \A h \in Hosts : hpc[h] # "waiting"
  /\ run' = "finish"
  /\ UNCHANGED <<status, closing, hostVars, chanVars, streamVars>>

\* The loop over the servers is over and wg.Wait returns.
Wait ==
  /\ run = "dispatch" /\ \A h \in Hosts : hpc[h] # "waiting"
  /\ wg = {}
  /\ run' = "finish"
  /\ UNCHANGED <<status, closing, hostVars, chanVars, streamVars>>

\* finish: UPDATE bulk_jobs; an error is ignored.
FinishUpdate ==
  /\ run = "finish"
  /\ run' = "delete"
  /\ status' \in {status, "done"}
  /\ UNCHANGED <<closing, hostVars, chanVars, streamVars>>

\* Mutant: the subscriber list is deleted and its channels forgotten.
FinishForgets ==
  /\ run = "delete"
  /\ run' = "close"
  /\ subs' = {}
  /\ UNCHANGED <<status, closing, hostVars, open, queue, panic, dropped, streamVars>>

\* finish, under e.mu: take the subscriber list out of the map.
FinishDelete ==
  /\ run = "delete"
  /\ run' = "close"
  /\ closing' = subs
  /\ subs' = {}
  /\ UNCHANGED <<status, hostVars, open, queue, panic, dropped, streamVars>>

\* finish, unlocked: close each of its channels.
FinishClose(s) ==
  /\ run = "close" /\ s \in closing
  /\ closing' = closing \ {s}
  /\ panic' = (panic \/ ~open[s])
  /\ open' = [open EXCEPT ![s] = FALSE]
  /\ UNCHANGED <<run, status, hostVars, subs, queue, dropped, streamVars>>

-----------------------------------------------------------------------------
(* The goroutine of one host: runOne, store, publish, release. *)

HostStep(h, from, to) ==
  /\ hpc[h] = from
  /\ hpc' = [hpc EXCEPT ![h] = to]
  /\ UNCHANGED <<runVars, streamVars>>

\* runOne comes to a result.
Outcome(h, from, outcomes) ==
  /\ HostStep(h, from, "store")
  /\ \E r \in outcomes : result' = [result EXCEPT ![h] = r]
  /\ UNCHANGED <<sem, wg, stored, toSend, chanVars>>

Advance(h, from, to) ==
  HostStep(h, from, to) /\ UNCHANGED <<sem, wg, result, stored, toSend, chanVars>>

\* dial: bounded by the context (direct) or immediate (agent tunnel).
Dial(h) == Outcome(h, "dial", {"unreachable"}) \/ Advance(h, "dial", "handshake")

\* newClient and NewSession: no deadline applies to the connection.
Handshake(h) ==
  Outcome(h, "handshake", {"error"}) \/ Advance(h, "handshake", "running")

\* session.Run returns, or the context expires first.
RunCommand(h) == Outcome(h, "running", {"ok", "error", "timeout"})

\* INSERT INTO bulk_results; an error is logged and ignored.
Store(h) ==
  /\ HostStep(h, "store", "publish")
  /\ stored' \in {stored, stored \cup {h}}
  /\ UNCHANGED <<sem, wg, result, toSend, chanVars>>

\* publish, under e.mu: copy the subscribers.
PublishCopy(h) ==
  /\ HostStep(h, "publish", "send")
  /\ toSend' = [toSend EXCEPT ![h] = subs]
  /\ UNCHANGED <<sem, wg, result, stored, chanVars>>

\* publish, unlocked: a non-blocking send to one of them.
PublishSend(h, s) ==
  LET full == Len(queue[s]) >= ChanCap
  IN /\ s \in toSend[h]
     /\ HostStep(h, "send", "send")
     /\ toSend' = [toSend EXCEPT ![h] = @ \ {s}]
     /\ panic' = (panic \/ ~open[s])
     /\ queue' = [queue EXCEPT ![s] = IF full THEN @ ELSE Append(@, h)]
     /\ dropped' = [dropped EXCEPT ![s] = IF full THEN @ \cup {h} ELSE @]
     /\ UNCHANGED <<sem, wg, result, stored, subs, open>>

\* Mutant: the semaphore slot is not given back.
ReleaseKeepsSlot(h) ==
  /\ toSend[h] = {}
  /\ HostStep(h, "send", "done")
  /\ wg' = wg \ {h}
  /\ UNCHANGED <<sem, result, stored, toSend, chanVars>>

\* The deferred <-sem and wg.Done.
Release(h) ==
  /\ toSend[h] = {}
  /\ HostStep(h, "send", "done")
  /\ sem' = sem \ {h}
  /\ wg' = wg \ {h}
  /\ UNCHANGED <<result, stored, toSend, chanVars>>

-----------------------------------------------------------------------------
(* StreamBulk, one event stream. *)

Subscribe(s) ==
  /\ spc[s] = "idle"
  /\ spc' = [spc EXCEPT ![s] = "subscribed"]
  /\ subs' = subs \cup {s}
  /\ open' = [open EXCEPT ![s] = TRUE]
  /\ UNCHANGED <<runVars, hostVars, queue, panic, dropped, sent, unread>>

\* bulkResults: the rows stored so far, without those whose Scan fails and those
\* after an error that ends rows.Next; nothing when the query fails.
Replay(s) ==
  /\ spc[s] = "subscribed"
  /\ spc' = [spc EXCEPT ![s] = "streaming"]
  /\ \E part \in SUBSET stored : /\ sent' = [sent EXCEPT ![s] = part]
                                /\ unread' = [unread EXCEPT ![s] = stored \ part]
  /\ UNCHANGED <<runVars, hostVars, chanVars>>

Receive(s) ==
  /\ spc[s] = "streaming" /\ queue[s] # <<>>
  /\ sent' = [sent EXCEPT ![s] = @ \cup {Head(queue[s])}]
  /\ queue' = [queue EXCEPT ![s] = Tail(@)]
  /\ UNCHANGED <<runVars, hostVars, subs, open, panic, dropped, spc, unread>>

\* Mutant: the end of the job is noticed before the channel is drained.
DoneUndrained(s) ==
  /\ spc[s] = "streaming" /\ ~open[s]
  /\ spc' = [spc EXCEPT ![s] = "done"]
  /\ subs' = subs \ {s}
  /\ UNCHANGED <<runVars, hostVars, open, queue, panic, dropped, sent, unread>>

\* The channel is closed and drained: "event: done", deferred cancel.
Done(s) ==
  /\ spc[s] = "streaming" /\ queue[s] = <<>> /\ ~open[s]
  /\ spc' = [spc EXCEPT ![s] = "done"]
  /\ subs' = subs \ {s}
  /\ UNCHANGED <<runVars, hostVars, open, queue, panic, dropped, sent, unread>>

\* Mutant: cancel closes the channel it removes.
LeaveCloses(s) ==
  /\ spc[s] = "streaming"
  /\ spc' = [spc EXCEPT ![s] = "left"]
  /\ subs' = subs \ {s}
  /\ open' = [open EXCEPT ![s] = FALSE]
  /\ UNCHANGED <<runVars, hostVars, queue, panic, dropped, sent, unread>>

\* The client goes away: the deferred cancel leaves the channel to the GC.
Leave(s) ==
  /\ spc[s] = "streaming"
  /\ spc' = [spc EXCEPT ![s] = "left"]
  /\ subs' = subs \ {s}
  /\ UNCHANGED <<runVars, hostVars, open, queue, panic, dropped, sent, unread>>

-----------------------------------------------------------------------------
Run == Resolve \/ (\E h \in Hosts : Dispatch(h)) \/ Wait \/ FinishUpdate
       \/ FinishDelete \/ (\E s \in Streams : FinishClose(s))

Host(h) ==
  \/ Dial(h) \/ Handshake(h) \/ RunCommand(h) \/ Store(h) \/ PublishCopy(h)
  \/ (\E s \in Streams : PublishSend(h, s)) \/ Release(h)

Stream(s) == Subscribe(s) \/ Replay(s) \/ Receive(s) \/ Done(s) \/ Leave(s)

Next ==
  \/ Run
  \/ \E h \in Hosts : Host(h)
  \/ \E s \in Streams : Stream(s)

Spec == Init /\ [][Next]_vars

\* Every goroutine step that does not wait for a peer is taken; dial and
\* session.Run are bounded by the context; the event stream drains.  Whether a
\* peer ever answers the SSH handshake is up to the peer.
Fairness ==
  /\ WF_vars(Run)
  /\ \A h \in Hosts :
       WF_vars(Dial(h) \/ RunCommand(h) \/ Store(h) \/ PublishCopy(h)
               \/ (\E s \in Streams : PublishSend(h, s)) \/ Release(h))
  /\ \A s \in Streams : WF_vars(Replay(s) \/ Receive(s) \/ Done(s))

FairSpec == Spec /\ Fairness

\* ... and every peer answers, or refuses, in the end.
ResponsiveSpec == FairSpec /\ \A h \in Hosts : WF_vars(Handshake(h))

-----------------------------------------------------------------------------
TypeOK ==
  /\ run \in {"resolve", "dispatch", "finish", "delete", "close"}
  /\ hpc \in [Hosts -> HostPCs]
  /\ sem \subseteq Hosts /\ wg \subseteq Hosts
  /\ status \in {"running", "done"}
  /\ result \in [Hosts -> Statuses]
  /\ stored \subseteq Hosts
  /\ subs \subseteq Streams
  /\ toSend \in [Hosts -> SUBSET Streams]
  /\ closing \subseteq Streams
  /\ open \in [Streams -> BOOLEAN]
  /\ queue \in [Streams -> Seq(Hosts)]
  /\ panic \in BOOLEAN
  /\ spc \in [Streams -> {"idle", "subscribed", "streaming", "done", "left"}]
  /\ sent \in [Streams -> SUBSET Hosts]
  /\ dropped \in [Streams -> SUBSET Hosts]
  /\ unread \in [Streams -> SUBSET Hosts]

\* publish sends outside e.mu on channels that finish closes outside e.mu; yet
\* no send meets a closed channel and no channel is closed twice.
NoPanic == ~panic

\* The goroutines between the start of runOne and the end of publish never
\* outnumber maxConcurrency.
Working == {h \in Hosts : hpc[h] \notin {"waiting", "done"}}
ConcurrencyBounded == Cardinality(Working) <= MaxConcurrency

\* A job reported done has a result for every host, stored or failed to store,
\* unless its servers could not be resolved at all.
DoneJobHasAllResults ==
  status = "done" => \/ \A h \in Hosts : hpc[h] = "done" /\ result[h] # "none"
                     \/ \A h \in Hosts : hpc[h] = "waiting"

\* A stream that reports the end of a job has delivered the result of every
\* host that ran: it can miss one only because its channel was full when the
\* result came, because the row could not be stored, or because the replay
\* failed to read that very row (bulkResults reports no error).
DoneStreamIsComplete ==
  \A s \in Streams : spc[s] = "done" =>
    {h \in Hosts : hpc[h] = "done"}
      \subseteq sent[s] \cup dropped[s] \cup unread[s] \cup (Hosts \ stored)

\* If no peer hangs in the SSH handshake, which the per-host timeout does not cover,
\* the job finishes.
JobFinishes == <>(run = "close" /\ closing = {})

\* A stream opened before finish takes the subscriber list gets its end.  (A later
\* one never does: nobody closes its channel.)
EarlyStreamEnds ==
  \A s \in Streams : s \in subs /\ run # "close" ~> spc[s] \in {"done", "left"}

-----------------------------------------------------------------------------
(* The inductive invariant behind NoPanic, ConcurrencyBounded and              *)
(* DoneJobHasAllResults.                                                       *)

\* A goroutine that has been started and has not returned is counted by the
\* WaitGroup and holds a slot; it has a result once runOne has returned; outside
\* publish's loop it has nobody left to send to.
HostInv ==
  /\ Working \subseteq wg \cap sem
  /\ Cardinality(sem) <= MaxConcurrency
  /\ \A h \in Hosts :
       /\ hpc[h] \in {"store", "publish", "send", "done"} => result[h] # "none"
       /\ hpc[h] # "send" => toSend[h] = {}

\* Before the loop of Run nothing has been started; after wg.Wait everything has
\* returned, or resolveServers failed; finish sets the status after that.
RunInv ==
  /\ run # "dispatch" => wg = {}
  /\ run = "resolve" => \A h \in Hosts : hpc[h] = "waiting"
  /\ run \in {"finish", "delete", "close"} =>
       \/ \A h \in Hosts : hpc[h] = "done"
       \/ \A h \in Hosts : hpc[h] = "waiting"
  /\ status = "done" => run \in {"delete", "close"}

\* Every channel that publish or finish may still touch is open, and finish's copy
\* shares none with the subscriber list.
ChanInv ==
  /\ \A s \in subs \cup closing : open[s] = TRUE
  /\ \A h \in Hosts : \A s \in toSend[h] : open[s] = TRUE
  /\ closing \cap subs = {}
  /\ run # "close" => closing = {}
  /\ \A s \in Streams : spc[s] = "idle" => s \notin subs \cup closing

Inv == TypeOK /\ HostInv /\ RunInv /\ ChanInv /\ NoPanic

=============================================================================
