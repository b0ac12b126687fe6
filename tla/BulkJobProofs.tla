---------------------------- MODULE BulkJobProofs ----------------------------
(***************************************************************************)
(* Proofs, for any finite set of hosts, any number of event streams, any   *)
(* semaphore and channel capacity, of the safety of module BulkJob.        *)
(***************************************************************************)
EXTENDS BulkJob, FiniteSetTheorems, TLAPS

\* Every action keeps the types.
LEMMA TypeNext == TypeOK /\ [Next]_vars => TypeOK'
<1> SUFFICES ASSUME TypeOK, [Next]_vars PROVE TypeOK'
  OBVIOUS
<1> USE DEF TypeOK, Statuses, HostPCs, runVars, hostVars, chanVars, streamVars,
        vars, HostStep, Outcome, Advance
<1>1. CASE Resolve
  BY <1>1 DEF Resolve
<1>2. ASSUME NEW h \in Hosts, Dispatch(h) PROVE TypeOK'
  BY <1>2 DEF Dispatch
<1>3. CASE Wait
  BY <1>3 DEF Wait
<1>4. CASE FinishUpdate
  BY <1>4 DEF FinishUpdate
<1>5. CASE FinishDelete
  BY <1>5 DEF FinishDelete
<1>6. ASSUME NEW s \in Streams, FinishClose(s) PROVE TypeOK'
  BY <1>6 DEF FinishClose
<1>7. ASSUME NEW h \in Hosts, Dial(h) PROVE TypeOK'
  <2>1. CASE Outcome(h, "dial", {"unreachable"})
    BY <2>1
  <2>2. CASE Advance(h, "dial", "handshake")
    BY <2>2
  <2> QED BY <1>7, <2>1, <2>2 DEF Dial
<1>8. ASSUME NEW h \in Hosts, Handshake(h) PROVE TypeOK'
  <2>1. CASE Outcome(h, "handshake", {"error"})
    BY <2>1
  <2>2. CASE Advance(h, "handshake", "running")
    BY <2>2
  <2> QED BY <1>8, <2>1, <2>2 DEF Handshake
<1>9. ASSUME NEW h \in Hosts, RunCommand(h) PROVE TypeOK'
  BY <1>9 DEF RunCommand
<1>10. ASSUME NEW h \in Hosts, Store(h) PROVE TypeOK'
  BY <1>10 DEF Store
<1>11. ASSUME NEW h \in Hosts, PublishCopy(h) PROVE TypeOK'
  BY <1>11 DEF PublishCopy
<1>12. ASSUME NEW h \in Hosts, NEW s \in Streams, PublishSend(h, s) PROVE TypeOK'
  BY <1>12 DEF PublishSend
<1>13. ASSUME NEW h \in Hosts, Release(h) PROVE TypeOK'
  BY <1>13 DEF Release
<1>14. ASSUME NEW s \in Streams, Subscribe(s) PROVE TypeOK'
  BY <1>14 DEF Subscribe
<1>15. ASSUME NEW s \in Streams, Replay(s) PROVE TypeOK'
  BY <1>15 DEF Replay
<1>16. ASSUME NEW s \in Streams, Receive(s) PROVE TypeOK'
  BY <1>16 DEF Receive
<1>17. ASSUME NEW s \in Streams, Done(s) PROVE TypeOK'
  BY <1>17 DEF Done
<1>18. ASSUME NEW s \in Streams, Leave(s) PROVE TypeOK'
  BY <1>18 DEF Leave
<1>19. CASE UNCHANGED vars
  BY <1>19
<1> QED BY <1>1, <1>2, <1>3, <1>4, <1>5, <1>6, <1>7, <1>8, <1>9, <1>10,
      <1>11, <1>12, <1>13, <1>14, <1>15, <1>16, <1>17, <1>18, <1>19 DEF Next, Run, Host, Stream

\* Every action preserves what the goroutines hold and have produced.
LEMMA HostNext == Inv /\ [Next]_vars => HostInv'
<1> SUFFICES ASSUME Inv, [Next]_vars PROVE HostInv'
  OBVIOUS
<1>0. TypeOK'
  BY TypeNext DEF Inv
<1> USE DEF Inv, TypeOK, HostInv, Working, HostPCs, Statuses, runVars, hostVars,
        chanVars, streamVars, vars, HostStep, Outcome, Advance
<1>1. CASE Resolve
  BY <1>0, <1>1 DEF Resolve
<1>2. ASSUME NEW h \in Hosts, Dispatch(h) PROVE HostInv'
  <2>1. IsFiniteSet(sem)
    BY HostsAssumption, FS_Subset
  <2>2. Cardinality(sem) \in Nat /\ Cardinality(sem) < MaxConcurrency
    BY <1>2, <2>1, FS_CardinalityType DEF Dispatch
  <2>3. Cardinality(sem \cup {h}) \in {Cardinality(sem), Cardinality(sem) + 1}
    BY <2>1, FS_AddElement
  <2>4. Cardinality(sem') <= MaxConcurrency
    BY <1>2, <2>2, <2>3, MaxConcurrencyAssumption DEF Dispatch
  <2> QED BY <1>0, <1>2, <2>4 DEF Dispatch
<1>3. CASE Wait
  BY <1>0, <1>3 DEF Wait
<1>4. CASE FinishUpdate
  BY <1>0, <1>4 DEF FinishUpdate
<1>5. CASE FinishDelete
  BY <1>0, <1>5 DEF FinishDelete
<1>6. ASSUME NEW s \in Streams, FinishClose(s) PROVE HostInv'
  BY <1>0, <1>6 DEF FinishClose
<1>7. ASSUME NEW h \in Hosts, Dial(h) PROVE HostInv'
  <2>1. CASE Outcome(h, "dial", {"unreachable"})
    BY <1>0, <2>1
  <2>2. CASE Advance(h, "dial", "handshake")
    BY <1>0, <2>2
  <2> QED BY <1>7, <2>1, <2>2 DEF Dial
<1>8. ASSUME NEW h \in Hosts, Handshake(h) PROVE HostInv'
  <2>1. CASE Outcome(h, "handshake", {"error"})
    BY <1>0, <2>1
  <2>2. CASE Advance(h, "handshake", "running")
    BY <1>0, <2>2
  <2> QED BY <1>8, <2>1, <2>2 DEF Handshake
<1>9. ASSUME NEW h \in Hosts, RunCommand(h) PROVE HostInv'
  BY <1>0, <1>9 DEF RunCommand
<1>10. ASSUME NEW h \in Hosts, Store(h) PROVE HostInv'
  BY <1>0, <1>10 DEF Store
<1>11. ASSUME NEW h \in Hosts, PublishCopy(h) PROVE HostInv'
  BY <1>0, <1>11 DEF PublishCopy
<1>12. ASSUME NEW h \in Hosts, NEW s \in Streams, PublishSend(h, s) PROVE HostInv'
  BY <1>0, <1>12 DEF PublishSend
<1>13. ASSUME NEW h \in Hosts, Release(h) PROVE HostInv'
  <2>1. IsFiniteSet(sem)
    BY HostsAssumption, FS_Subset
  <2>2. Cardinality(sem) \in Nat /\ Cardinality(sem) <= MaxConcurrency
    BY <2>1, FS_CardinalityType
  <2>3. Cardinality(sem \ {h}) \in {Cardinality(sem), Cardinality(sem) - 1}
    BY <2>1, FS_RemoveElement
  <2>4. Cardinality(sem') <= MaxConcurrency
    BY <1>13, <2>2, <2>3, MaxConcurrencyAssumption DEF Release
  <2> QED BY <1>0, <1>13, <2>4 DEF Release
<1>14. ASSUME NEW s \in Streams, Subscribe(s) PROVE HostInv'
  BY <1>0, <1>14 DEF Subscribe
<1>15. ASSUME NEW s \in Streams, Replay(s) PROVE HostInv'
  BY <1>0, <1>15 DEF Replay
<1>16. ASSUME NEW s \in Streams, Receive(s) PROVE HostInv'
  BY <1>0, <1>16 DEF Receive
<1>17. ASSUME NEW s \in Streams, Done(s) PROVE HostInv'
  BY <1>0, <1>17 DEF Done
<1>18. ASSUME NEW s \in Streams, Leave(s) PROVE HostInv'
  BY <1>0, <1>18 DEF Leave
<1>19. CASE UNCHANGED vars
  BY <1>0, <1>19
<1> QED BY <1>1, <1>2, <1>3, <1>4, <1>5, <1>6, <1>7, <1>8, <1>9, <1>10,
      <1>11, <1>12, <1>13, <1>14, <1>15, <1>16, <1>17, <1>18, <1>19 DEF Next, Run, Host, Stream

\* Every action preserves how far Run, its goroutines and the status can be apart.
LEMMA RunNext == Inv /\ [Next]_vars => RunInv'
<1> SUFFICES ASSUME Inv, [Next]_vars PROVE RunInv'
  OBVIOUS
<1>0. TypeOK'
  BY TypeNext DEF Inv
<1> USE DEF Inv, TypeOK, HostInv, RunInv, Working, HostPCs, runVars, hostVars,
        chanVars, streamVars, vars, HostStep, Outcome, Advance
<1>1. CASE Resolve
  BY <1>0, <1>1 DEF Resolve
<1>2. ASSUME NEW h \in Hosts, Dispatch(h) PROVE RunInv'
  BY <1>0, <1>2 DEF Dispatch
<1>3. CASE Wait
  BY <1>0, <1>3 DEF Wait
<1>4. CASE FinishUpdate
  BY <1>0, <1>4 DEF FinishUpdate
<1>5. CASE FinishDelete
  BY <1>0, <1>5 DEF FinishDelete
<1>6. ASSUME NEW s \in Streams, FinishClose(s) PROVE RunInv'
  BY <1>0, <1>6 DEF FinishClose
<1>7. ASSUME NEW h \in Hosts, Dial(h) PROVE RunInv'
  BY <1>0, <1>7 DEF Dial
<1>8. ASSUME NEW h \in Hosts, Handshake(h) PROVE RunInv'
  BY <1>0, <1>8 DEF Handshake
<1>9. ASSUME NEW h \in Hosts, RunCommand(h) PROVE RunInv'
  BY <1>0, <1>9 DEF RunCommand
<1>10. ASSUME NEW h \in Hosts, Store(h) PROVE RunInv'
  BY <1>0, <1>10 DEF Store
<1>11. ASSUME NEW h \in Hosts, PublishCopy(h) PROVE RunInv'
  BY <1>0, <1>11 DEF PublishCopy
<1>12. ASSUME NEW h \in Hosts, NEW s \in Streams, PublishSend(h, s) PROVE RunInv'
  BY <1>0, <1>12 DEF PublishSend
<1>13. ASSUME NEW h \in Hosts, Release(h) PROVE RunInv'
  BY <1>0, <1>13 DEF Release
<1>14. ASSUME NEW s \in Streams, Subscribe(s) PROVE RunInv'
  BY <1>0, <1>14 DEF Subscribe
<1>15. ASSUME NEW s \in Streams, Replay(s) PROVE RunInv'
  BY <1>0, <1>15 DEF Replay
<1>16. ASSUME NEW s \in Streams, Receive(s) PROVE RunInv'
  BY <1>0, <1>16 DEF Receive
<1>17. ASSUME NEW s \in Streams, Done(s) PROVE RunInv'
  BY <1>0, <1>17 DEF Done
<1>18. ASSUME NEW s \in Streams, Leave(s) PROVE RunInv'
  BY <1>0, <1>18 DEF Leave
<1>19. CASE UNCHANGED vars
  BY <1>0, <1>19
<1> QED BY <1>1, <1>2, <1>3, <1>4, <1>5, <1>6, <1>7, <1>8, <1>9, <1>10,
      <1>11, <1>12, <1>13, <1>14, <1>15, <1>16, <1>17, <1>18, <1>19 DEF Next, Run, Host, Stream

\* Every action preserves the openness of the channels in use: a channel is closed
\* by finish alone, when no goroutine is left that could send on it.
LEMMA ChanNext == Inv /\ [Next]_vars => ChanInv' /\ NoPanic'
<1> SUFFICES ASSUME Inv, [Next]_vars PROVE ChanInv' /\ NoPanic'
  OBVIOUS
<1>0. TypeOK'
  BY TypeNext DEF Inv
<1> USE DEF Inv, TypeOK, HostInv, RunInv, ChanInv, NoPanic, Working, HostPCs,
        runVars, hostVars, chanVars, streamVars, vars, HostStep, Outcome, Advance
<1>1. CASE Resolve
  BY <1>0, <1>1 DEF Resolve
<1>2. ASSUME NEW h \in Hosts, Dispatch(h) PROVE ChanInv' /\ NoPanic'
  BY <1>0, <1>2 DEF Dispatch
<1>3. CASE Wait
  BY <1>0, <1>3 DEF Wait
<1>4. CASE FinishUpdate
  BY <1>0, <1>4 DEF FinishUpdate
<1>5. CASE FinishDelete
  BY <1>0, <1>5 DEF FinishDelete
<1>6. ASSUME NEW s \in Streams, FinishClose(s) PROVE ChanInv' /\ NoPanic'
  BY <1>0, <1>6 DEF FinishClose
<1>7. ASSUME NEW h \in Hosts, Dial(h) PROVE ChanInv' /\ NoPanic'
  BY <1>0, <1>7 DEF Dial
<1>8. ASSUME NEW h \in Hosts, Handshake(h) PROVE ChanInv' /\ NoPanic'
  BY <1>0, <1>8 DEF Handshake
<1>9. ASSUME NEW h \in Hosts, RunCommand(h) PROVE ChanInv' /\ NoPanic'
  BY <1>0, <1>9 DEF RunCommand
<1>10. ASSUME NEW h \in Hosts, Store(h) PROVE ChanInv' /\ NoPanic'
  BY <1>0, <1>10 DEF Store
<1>11. ASSUME NEW h \in Hosts, PublishCopy(h) PROVE ChanInv' /\ NoPanic'
  BY <1>0, <1>11 DEF PublishCopy
<1>12. ASSUME NEW h \in Hosts, NEW s \in Streams, PublishSend(h, s) PROVE ChanInv' /\ NoPanic'
  BY <1>0, <1>12 DEF PublishSend
<1>13. ASSUME NEW h \in Hosts, Release(h) PROVE ChanInv' /\ NoPanic'
  BY <1>0, <1>13 DEF Release
<1>14. ASSUME NEW s \in Streams, Subscribe(s) PROVE ChanInv' /\ NoPanic'
  BY <1>0, <1>14 DEF Subscribe
<1>15. ASSUME NEW s \in Streams, Replay(s) PROVE ChanInv' /\ NoPanic'
  BY <1>0, <1>15 DEF Replay
<1>16. ASSUME NEW s \in Streams, Receive(s) PROVE ChanInv' /\ NoPanic'
  BY <1>0, <1>16 DEF Receive
<1>17. ASSUME NEW s \in Streams, Done(s) PROVE ChanInv' /\ NoPanic'
  BY <1>0, <1>17 DEF Done
<1>18. ASSUME NEW s \in Streams, Leave(s) PROVE ChanInv' /\ NoPanic'
  BY <1>0, <1>18 DEF Leave
<1>19. CASE UNCHANGED vars
  BY <1>0, <1>19
<1> QED BY <1>1, <1>2, <1>3, <1>4, <1>5, <1>6, <1>7, <1>8, <1>9, <1>10,
      <1>11, <1>12, <1>13, <1>14, <1>15, <1>16, <1>17, <1>18, <1>19 DEF Next, Run, Host, Stream

\* The initial states satisfy the invariant.
LEMMA InvInit == Init => Inv
<1> SUFFICES ASSUME Init PROVE Inv
  OBVIOUS
<1>1. queue \in [Streams -> Seq(Hosts)] /\ sent \in [Streams -> SUBSET Hosts]
  BY DEF Init
<1>2. TypeOK
  BY <1>1 DEF Init, TypeOK, Statuses, HostPCs
<1>3. HostInv
  BY FS_EmptySet, MaxConcurrencyAssumption DEF Init, HostInv, Working
<1> QED BY <1>2, <1>3 DEF Init, Inv, RunInv, ChanInv, NoPanic

\* The invariant holds in every reachable state.
LEMMA InvAlways == Spec => []Inv
<1>1. Inv /\ [Next]_vars => Inv'
  BY TypeNext, HostNext, RunNext, ChanNext DEF Inv
<1> QED BY <1>1, InvInit, PTL DEF Spec

\* Every variable of BulkJob keeps its type.
THEOREM TypeCorrect == Spec => []TypeOK
<1>1. Inv => TypeOK
  BY DEF Inv
<1> QED BY <1>1, InvAlways, PTL

\* publish and finish, which use the channels outside e.mu, never send on a
\* closed channel and never close one twice.
THEOREM JobChannelDiscipline == Spec => []NoPanic
<1>1. Inv => NoPanic
  BY DEF Inv
<1> QED BY <1>1, InvAlways, PTL

\* No more than maxConcurrency hosts are worked on at a time.
THEOREM SemaphoreBounds == Spec => []ConcurrencyBounded
<1>1. Inv => ConcurrencyBounded
  <2> SUFFICES ASSUME Inv PROVE ConcurrencyBounded
    OBVIOUS
  <2>1. IsFiniteSet(sem)
    BY HostsAssumption, FS_Subset DEF Inv, TypeOK
  <2>2. Working \subseteq sem /\ Cardinality(sem) <= MaxConcurrency
    BY DEF Inv, HostInv
  <2>3. Cardinality(Working) <= Cardinality(sem) /\ IsFiniteSet(Working)
    BY <2>1, <2>2, FS_Subset
  <2> QED BY <2>1, <2>2, <2>3, FS_CardinalityType, MaxConcurrencyAssumption
          DEF ConcurrencyBounded
<1> QED BY <1>1, InvAlways, PTL

\* A job is marked done only when every host has its result, or none was started.
THEOREM DoneMeansAllResults == Spec => []DoneJobHasAllResults
<1>1. Inv => DoneJobHasAllResults
  BY DEF Inv, HostInv, RunInv, DoneJobHasAllResults
<1> QED BY <1>1, InvAlways, PTL

-----------------------------------------------------------------------------
(* What a stream has been given (DoneStreamIsComplete). *)

\* h's result is in the channel of s.
Queued(s, h) == \E i \in DOMAIN queue[s] : queue[s][i] = h

\* A stream between Subscribe and its end is on the subscriber list, with an
\* open channel, until finish takes the list; a stream that ended was drained
\* after that.
ListedInv(s) ==
  /\ spc[s] \in {"subscribed", "streaming"} => (s \in subs /\ open[s] = TRUE) \/ run = "close"
  /\ spc[s] = "done" => run = "close" /\ queue[s] = <<>>

\* Once its rows were replayed, a result whose publish has copied the list is
\* sent, dropped, queued or still to be sent to it, or was never stored, or its
\* row was not read.
GivenInv(s) ==
  spc[s] \in {"streaming", "done"} =>
    \A h \in Hosts : hpc[h] \in {"send", "done"} =>
      \/ h \in sent[s] \cup dropped[s] \cup unread[s] \/ h \notin stored
      \/ s \in toSend[h] \/ Queued(s, h)

StreamInv == \A s \in Streams : ListedInv(s) /\ GivenInv(s)

\* Nobody is worked on once finish has begun.
LEMMA QuietAtFinish ==
  ASSUME Inv, NEW h \in Hosts, run \in {"finish", "delete", "close"}
  PROVE  hpc[h] \in {"waiting", "done"}
BY DEF Inv, RunInv

\* Every action keeps a stream listed until finish takes the list.
LEMMA ListedNext ==
  ASSUME Inv, [Next]_vars, NEW s \in Streams, ListedInv(s)
  PROVE  ListedInv(s)'
<1>0. /\ TypeOK /\ run' \in {"resolve", "dispatch", "finish", "delete", "close"}
  BY TypeNext DEF Inv, TypeOK
<1> USE DEF ListedInv, TypeOK, runVars, hostVars, chanVars, streamVars, vars, HostStep, Outcome, Advance
<1>1. CASE Resolve
  BY <1>0, <1>1 DEF Resolve
<1>2. ASSUME NEW h \in Hosts, Dispatch(h) PROVE ListedInv(s)'
  BY <1>0, <1>2 DEF Dispatch
<1>3. CASE Wait
  BY <1>0, <1>3 DEF Wait
<1>4. CASE FinishUpdate
  BY <1>0, <1>4 DEF FinishUpdate
<1>5. CASE FinishDelete
  BY <1>0, <1>5 DEF FinishDelete
<1>6. ASSUME NEW t \in Streams, FinishClose(t) PROVE ListedInv(s)'
  BY <1>0, <1>6 DEF FinishClose
<1>7. ASSUME NEW h \in Hosts, Dial(h) \/ Handshake(h) \/ RunCommand(h) PROVE ListedInv(s)'
  BY <1>0, <1>7 DEF Dial, Handshake, RunCommand
<1>8. ASSUME NEW h \in Hosts, Store(h) \/ PublishCopy(h) \/ Release(h) PROVE ListedInv(s)'
  BY <1>0, <1>8 DEF Store, PublishCopy, Release
<1>9. ASSUME NEW h \in Hosts, NEW t \in Streams, PublishSend(h, t) PROVE ListedInv(s)'
  <2>1. run # "close"
    BY <1>0, <1>9, QuietAtFinish DEF PublishSend
  <2> QED BY <1>0, <1>9, <2>1 DEF PublishSend
<1>10. ASSUME NEW t \in Streams, Subscribe(t) PROVE ListedInv(s)'
  BY <1>0, <1>10 DEF Subscribe
<1>11. ASSUME NEW t \in Streams, Replay(t) PROVE ListedInv(s)'
  BY <1>0, <1>11 DEF Replay
<1>12. ASSUME NEW t \in Streams, Receive(t) PROVE ListedInv(s)'
  BY <1>0, <1>12 DEF Receive
<1>13. ASSUME NEW t \in Streams, Done(t) PROVE ListedInv(s)'
  BY <1>0, <1>13 DEF Done
<1>14. ASSUME NEW t \in Streams, Leave(t) PROVE ListedInv(s)'
  BY <1>0, <1>14 DEF Leave
<1>15. CASE UNCHANGED vars
  BY <1>15
<1> QED BY <1>1, <1>2, <1>3, <1>4, <1>5, <1>6, <1>7, <1>8, <1>9, <1>10,
      <1>11, <1>12, <1>13, <1>14, <1>15 DEF Next, Run, Host, Stream

\* A result that is given stays given: from the channel it can only go to the
\* stream.
LEMMA GivenNext ==
  ASSUME Inv, [Next]_vars, NEW s \in Streams, ListedInv(s), GivenInv(s)
  PROVE  GivenInv(s)'
<1>0. /\ hpc \in [Hosts -> HostPCs] /\ stored \subseteq Hosts
      /\ toSend \in [Hosts -> SUBSET Streams] /\ queue \in [Streams -> Seq(Hosts)]
      /\ spc \in [Streams -> {"idle", "subscribed", "streaming", "done", "left"}]
      /\ sent \in [Streams -> SUBSET Hosts] /\ dropped \in [Streams -> SUBSET Hosts]
      /\ unread \in [Streams -> SUBSET Hosts]
  BY DEF Inv, TypeOK
<1> USE DEF GivenInv, Queued, runVars, hostVars, chanVars, streamVars, vars, HostStep, Outcome, Advance
<1>1. CASE Resolve
  BY <1>0, <1>1 DEF Resolve
<1>2. ASSUME NEW h \in Hosts, Dispatch(h) PROVE GivenInv(s)'
  BY <1>0, <1>2 DEF Dispatch
<1>3. CASE Wait
  BY <1>0, <1>3 DEF Wait
<1>4. CASE FinishUpdate
  BY <1>0, <1>4 DEF FinishUpdate
<1>5. CASE FinishDelete
  BY <1>0, <1>5 DEF FinishDelete
<1>6. ASSUME NEW t \in Streams, FinishClose(t) PROVE GivenInv(s)'
  BY <1>0, <1>6 DEF FinishClose
<1>7. ASSUME NEW h \in Hosts, Dial(h) PROVE GivenInv(s)'
  BY <1>0, <1>7 DEF Dial
<1>8. ASSUME NEW h \in Hosts, Handshake(h) \/ RunCommand(h) PROVE GivenInv(s)'
  BY <1>0, <1>8 DEF Handshake, RunCommand
<1>9. ASSUME NEW h \in Hosts, Store(h) PROVE GivenInv(s)'
  BY <1>0, <1>9 DEF Store
<1>10. ASSUME NEW h \in Hosts, PublishCopy(h) PROVE GivenInv(s)'
  <2>1. run # "close"
    BY <1>0, <1>10, QuietAtFinish DEF PublishCopy
  <2>2. spc[s] \in {"streaming", "done"} => s \in subs
    BY <2>1 DEF ListedInv
  <2> QED BY <1>0, <1>10, <2>2 DEF PublishCopy
<1>11. ASSUME NEW h \in Hosts, NEW t \in Streams, PublishSend(h, t) PROVE GivenInv(s)'
  <2>1. UNCHANGED <<hpc, spc, unread, sent, stored>>
    BY <1>0, <1>11 DEF PublishSend
  <2>2. \A g \in Hosts : s \in toSend[g] => s \in toSend'[g] \/ (g = h /\ s = t)
    BY <1>0, <1>11 DEF PublishSend
  <2>3. dropped[s] \subseteq dropped'[s]
    BY <1>0, <1>11 DEF PublishSend
  <2>4. queue[s] \in Seq(Hosts) /\ (queue'[s] = queue[s] \/ queue'[s] = Append(queue[s], h))
    BY <1>0, <1>11 DEF PublishSend
  <2>5. \A g \in Hosts : Queued(s, g) => Queued(s, g)'
    BY <2>4
  <2>6. s = t => h \in dropped'[s] \/ Queued(s, h)'
    <3>1. CASE Len(queue[t]) >= ChanCap
      BY <1>0, <1>11, <3>1 DEF PublishSend
    <3>2. CASE ~(Len(queue[t]) >= ChanCap) /\ s = t
      <4>1. queue'[s] = Append(queue[s], h)
        BY <1>0, <1>11, <3>2 DEF PublishSend
      <4>2. Len(queue[s]) + 1 \in DOMAIN queue'[s] /\ queue'[s][Len(queue[s]) + 1] = h
        BY <2>4, <4>1
      <4> QED BY <4>2
    <3> QED BY <3>1, <3>2
  <2> QED BY <2>1, <2>2, <2>3, <2>5, <2>6
<1>12. ASSUME NEW h \in Hosts, Release(h) PROVE GivenInv(s)'
  BY <1>0, <1>12 DEF Release
<1>13. ASSUME NEW t \in Streams, Subscribe(t) PROVE GivenInv(s)'
  BY <1>0, <1>13 DEF Subscribe
<1>14. ASSUME NEW t \in Streams, Replay(t) PROVE GivenInv(s)'
  <2>1. CASE s # t
    BY <1>0, <1>14, <2>1 DEF Replay
  <2>2. CASE s = t
    BY <1>0, <1>14, <2>2 DEF Replay
  <2> QED BY <2>1, <2>2
<1>15. ASSUME NEW t \in Streams, Receive(t) PROVE GivenInv(s)'
  <2>1. UNCHANGED <<hpc, spc, unread, stored, toSend, dropped>>
    BY <1>15 DEF Receive
  <2>2. CASE s # t
    BY <1>0, <1>15, <2>2 DEF Receive
  <2>3. CASE s = t
    <3>1. queue[s] \in Seq(Hosts) /\ queue[s] # <<>> /\ queue'[s] = Tail(queue[s])
      BY <1>0, <1>15, <2>3 DEF Receive
    <3>2. sent'[s] = sent[s] \cup {Head(queue[s])}
      BY <1>0, <1>15, <2>3 DEF Receive
    <3>3. \A h \in Hosts : Queued(s, h) => h = Head(queue[s]) \/ Queued(s, h)'
      <4> SUFFICES ASSUME NEW h \in Hosts, NEW i \in DOMAIN queue[s], queue[s][i] = h, h # Head(queue[s])
                   PROVE  \E j \in DOMAIN queue'[s] : queue'[s][j] = h
        OBVIOUS
      <4>1. i \in 1..Len(queue[s]) /\ i # 1
        BY <3>1
      <4>2. i - 1 \in DOMAIN queue'[s] /\ queue'[s][i - 1] = h
        BY <3>1, <4>1
      <4> QED BY <4>2
    <3> QED BY <2>1, <3>2, <3>3
  <2> QED BY <2>2, <2>3
<1>16. ASSUME NEW t \in Streams, Done(t) \/ Leave(t) PROVE GivenInv(s)'
  BY <1>0, <1>16 DEF Done, Leave
<1>17. CASE UNCHANGED vars
  BY <1>17
<1> QED BY <1>1, <1>2, <1>3, <1>4, <1>5, <1>6, <1>7, <1>8, <1>9, <1>10,
      <1>11, <1>12, <1>13, <1>14, <1>15, <1>16, <1>17 DEF Next, Run, Host, Stream

\* A stream that told its client the job is done has delivered the result of
\* every host that ran, except what its full channel dropped, what could not
\* be stored and the rows that the replay failed to read.
THEOREM DoneStreamsAreComplete == Spec => []DoneStreamIsComplete
<1>1. Init => StreamInv
  BY DEF Init, StreamInv, ListedInv, GivenInv
<1>2. Inv /\ StreamInv /\ [Next]_vars => StreamInv'
  BY ListedNext, GivenNext DEF StreamInv
<1>3. Inv /\ StreamInv => DoneStreamIsComplete
  <2> SUFFICES ASSUME Inv, StreamInv, NEW s \in Streams, spc[s] = "done",
                      NEW h \in Hosts, hpc[h] = "done"
               PROVE  h \in sent[s] \cup dropped[s] \cup unread[s] \cup (Hosts \ stored)
    BY DEF DoneStreamIsComplete
  <2>1. toSend[h] = {}
    BY DEF Inv, HostInv
  <2>2. queue[s] = <<>>
    BY DEF StreamInv, ListedInv
  <2>3. ~Queued(s, h)
    BY <2>2 DEF Queued
  <2> QED BY <2>1, <2>3 DEF StreamInv, GivenInv
<1> QED BY <1>1, <1>2, <1>3, InvAlways, PTL DEF Spec
=============================================================================
