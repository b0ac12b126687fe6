------------------------------ MODULE HubProofs ------------------------------
(***************************************************************************)
(* Proofs, for any number of watchers and pumps and any channel capacity,  *)
(* of the channel discipline of module Hub and of what a watcher sees.     *)
(***************************************************************************)
EXTENDS Hub, SequenceTheorems, TLAPS

\* Every action keeps the types.
LEMMA TypeNext == TypeOK /\ [Next]_vars => TypeOK'
<1> SUFFICES ASSUME TypeOK, [Next]_vars PROVE TypeOK'
  OBVIOUS
<1> USE MaxChunksAssumption, ChanCapAssumption
    DEF TypeOK, Chunks, chanVars, pumpVars, watchVars, vars, Cancel
<1>1. CASE Register
  BY <1>1 DEF Register
<1>2. CASE UnregisterDelete
  BY <1>2 DEF UnregisterDelete
<1>3. CASE UnregisterClose
  BY <1>3 DEF UnregisterClose
<1>4. ASSUME NEW p \in Pumps, PublishLookup(p) PROVE TypeOK'
  BY <1>4 DEF PublishLookup
<1>5. ASSUME NEW p \in Pumps, PublishSend(p) PROVE TypeOK'
  <2>1. pub[p] \in Chunks
    BY <1>5 DEF PublishSend
  <2>2. log' \in Seq(Chunks)
    BY <1>5, <2>1 DEF PublishSend
  <2>3. \A w \in Watchers : Append(queue[w], pub[p]) \in Seq(Chunks)
    BY <2>1
  <2>4. queue' \in [Watchers -> Seq(Chunks)]
    BY <1>5, <2>3 DEF PublishSend
  <2>5. dropped' \in [Watchers -> SUBSET Chunks]
    BY <1>5, <2>1 DEF PublishSend
  <2>6. panic' \in BOOLEAN
    BY <1>5 DEF PublishSend
  <2> QED BY <1>5, <2>2, <2>4, <2>5, <2>6 DEF PublishSend
<1>6. ASSUME NEW w \in Watchers, SubscribeLookup(w) PROVE TypeOK'
  BY <1>6 DEF SubscribeLookup
<1>7. ASSUME NEW w \in Watchers, SubscribeAdd(w) PROVE TypeOK'
  BY <1>7 DEF SubscribeAdd
<1>8. ASSUME NEW w \in Watchers, Upgrade(w) PROVE TypeOK'
  BY <1>8 DEF Upgrade
<1>9. ASSUME NEW w \in Watchers, UpgradeFails(w) PROVE TypeOK'
  BY <1>9 DEF UpgradeFails
<1>10. ASSUME NEW w \in Watchers, WatchWrite(w) PROVE TypeOK'
  BY <1>10 DEF WatchWrite
<1>11. ASSUME NEW w \in Watchers, WatchWriteFails(w) PROVE TypeOK'
  BY <1>11 DEF WatchWriteFails
<1>12. ASSUME NEW w \in Watchers, WatchEnds(w) PROVE TypeOK'
  BY <1>12 DEF WatchEnds
<1>13. ASSUME NEW w \in Watchers, ReaderCancels(w) PROVE TypeOK'
  BY <1>13 DEF ReaderCancels
<1>14. ASSUME NEW w \in Watchers, BrowserLeaves(w) PROVE TypeOK'
  BY <1>14 DEF BrowserLeaves
<1>15. CASE UNCHANGED vars
  BY <1>15
<1> QED BY <1>1, <1>2, <1>3, <1>4, <1>5, <1>6, <1>7, <1>8, <1>9, <1>10, <1>11,
      <1>12, <1>13, <1>14, <1>15 DEF Next, Publish, Watch

\* cancel closes only a channel that is still subscribed, hence open; it leaves
\* the other channels alone.
LEMMA CancelSafe ==
  ASSUME NEW w \in Watchers, Inv, Cancel(w)
  PROVE  ~panic' /\ subs' \subseteq subs /\ \A v \in subs' : open'[v] = TRUE
BY DEF Inv, TypeOK, OpenInv, NoPanic, Cancel

\* Every action preserves the discipline: under ls.mu a channel is in subs
\* exactly as long as it is open.
LEMMA InvNext == Inv /\ [Next]_vars => Inv'
<1> SUFFICES ASSUME Inv, [Next]_vars PROVE Inv'
  OBVIOUS
<1>0. TypeOK'
  BY TypeNext DEF Inv
<1> USE DEF Inv, OpenInv, NoPanic, TypeOK, chanVars, pumpVars, watchVars, vars
<1>1. CASE Register
  BY <1>0, <1>1 DEF Register
<1>2. CASE UnregisterDelete
  BY <1>0, <1>2 DEF UnregisterDelete
<1>3. CASE UnregisterClose
  BY <1>0, <1>3 DEF UnregisterClose
<1>4. ASSUME NEW p \in Pumps, PublishLookup(p) PROVE Inv'
  BY <1>0, <1>4 DEF PublishLookup
<1>5. ASSUME NEW p \in Pumps, PublishSend(p) PROVE Inv'
  BY <1>0, <1>5 DEF PublishSend
<1>6. ASSUME NEW w \in Watchers, SubscribeLookup(w) PROVE Inv'
  BY <1>0, <1>6 DEF SubscribeLookup
<1>7. ASSUME NEW w \in Watchers, SubscribeAdd(w) PROVE Inv'
  BY <1>0, <1>7 DEF SubscribeAdd
<1>8. ASSUME NEW w \in Watchers, Upgrade(w) PROVE Inv'
  BY <1>0, <1>8 DEF Upgrade
<1>9. ASSUME NEW w \in Watchers, UpgradeFails(w) PROVE Inv'
  BY <1>0, <1>9, CancelSafe DEF UpgradeFails
<1>10. ASSUME NEW w \in Watchers, WatchWrite(w) PROVE Inv'
  BY <1>0, <1>10 DEF WatchWrite
<1>11. ASSUME NEW w \in Watchers, WatchWriteFails(w) PROVE Inv'
  BY <1>0, <1>11, CancelSafe DEF WatchWriteFails
<1>12. ASSUME NEW w \in Watchers, WatchEnds(w) PROVE Inv'
  BY <1>0, <1>12, CancelSafe DEF WatchEnds
<1>13. ASSUME NEW w \in Watchers, ReaderCancels(w) PROVE Inv'
  BY <1>0, <1>13, CancelSafe DEF ReaderCancels
<1>14. ASSUME NEW w \in Watchers, BrowserLeaves(w) PROVE Inv'
  BY <1>0, <1>14 DEF BrowserLeaves
<1>15. CASE UNCHANGED vars
  BY <1>0, <1>15
<1> QED BY <1>1, <1>2, <1>3, <1>4, <1>5, <1>6, <1>7, <1>8, <1>9, <1>10, <1>11,
      <1>12, <1>13, <1>14, <1>15 DEF Next, Publish, Watch

\* The initial states satisfy the invariant.
LEMMA InvInit == Init => Inv
<1> SUFFICES ASSUME Init PROVE Inv
  OBVIOUS
<1>1. queue \in [Watchers -> Seq(Chunks)] /\ got \in [Watchers -> Seq(Chunks)]
  BY DEF Init
<1>2. log \in Seq(Chunks) /\ dropped \in [Watchers -> SUBSET Chunks]
  BY DEF Init
<1>3. read \in 0 .. MaxChunks /\ pub \in [Pumps -> 0 .. MaxChunks]
  BY MaxChunksAssumption DEF Init
<1>4. open \in [Watchers -> BOOLEAN] /\ reader \in [Watchers -> BOOLEAN]
      /\ browser \in [Watchers -> BOOLEAN]
  BY DEF Init
<1> QED BY <1>1, <1>2, <1>3, <1>4 DEF Init, Inv, TypeOK, OpenInv, NoPanic

\* The invariant holds in every reachable state.
LEMMA InvAlways == Spec => []Inv
BY InvInit, InvNext, PTL DEF Spec

\* Every variable of Hub keeps its type.
THEOREM TypeCorrect == Spec => []TypeOK
<1>1. Inv => TypeOK
  BY DEF Inv
<1> QED BY <1>1, InvAlways, PTL

\* No interleaving of Publish, Unregister and the two cancels of a watcher
\* sends on a closed channel or closes a channel twice.
THEOREM ChannelDiscipline == Spec => []NoPanic
<1>1. Inv => NoPanic
  BY DEF Inv
<1> QED BY <1>1, InvAlways, PTL

-----------------------------------------------------------------------------
(* What a watcher sees (WatcherSeesLog). *)

\* The pumps hold different chunks, none of them published, and no chunk is
\* published twice; only a published chunk is dropped.
LogInv ==
  /\ \A i, j \in DOMAIN log : log[i] = log[j] => i = j
  /\ \A i \in DOMAIN log : log[i] <= read
  /\ \A p \in Pumps :
       /\ pub[p] <= read
       /\ pub[p] # 0 => \A i \in DOMAIN log : log[i] # pub[p]
       /\ \A q \in Pumps : pub[p] # 0 /\ pub[q] = pub[p] => q = p
  /\ \A w \in Watchers : \A c \in dropped[w] : \E i \in DOMAIN log : log[i] = c

\* A watcher that has not subscribed was sent nothing.
FreshInv ==
  \A w \in Watchers : /\ wpc[w] \in {"idle", "found"} => got[w] = <<>> /\ queue[w] = <<>>
                      /\ from[w] <= Len(log)

SeenInv == LogInv /\ FreshInv /\ WatcherSeesLog

\* A chunk moves from the channel to the socket and stays where it was among
\* those seen.
LEMMA MovePreserves ==
  ASSUME NEW S, NEW g \in Seq(S), NEW q \in Seq(S), q # <<>>
  PROVE  Append(g, Head(q)) \o Tail(q) = g \o q
<1>1. /\ Head(q) \in S /\ Tail(q) \in Seq(S) /\ Len(Tail(q)) = Len(q) - 1
      /\ Len(q) \in Nat \ {0} /\ Len(g) \in Nat
  OBVIOUS
<1>2. /\ Append(g, Head(q)) \in Seq(S) /\ Len(Append(g, Head(q))) = Len(g) + 1
  BY <1>1
<1>3. /\ Append(g, Head(q)) \o Tail(q) \in Seq(S) /\ g \o q \in Seq(S)
      /\ Len(Append(g, Head(q)) \o Tail(q)) = Len(g \o q)
  BY <1>1, <1>2
<1>4. \A i \in 1..Len(g \o q) : (Append(g, Head(q)) \o Tail(q))[i] = (g \o q)[i]
  <2> TAKE i \in 1..Len(g \o q)
  <2>1. CASE i <= Len(g)
    BY <1>1, <1>2, <2>1
  <2>2. CASE i = Len(g) + 1
    BY <1>1, <1>2, <2>2
  <2>3. CASE i > Len(g) + 1
    <3>1. (g \o q)[i] = q[i - Len(g)]
      BY <1>1, <2>3
    <3>2. (Append(g, Head(q)) \o Tail(q))[i] = Tail(q)[i - (Len(g) + 1)]
      BY <1>1, <1>2, <2>3
    <3>3. Tail(q)[i - (Len(g) + 1)] = q[i - Len(g)]
      BY <1>1, <2>3
    <3> QED BY <3>1, <3>2, <3>3
  <2> QED BY <1>1, <2>1, <2>2, <2>3
<1> QED BY <1>3, <1>4, SeqEqual

\* A chunk that joins the channel is the last one seen.
LEMMA JoinIsLast ==
  ASSUME NEW S, NEW g \in Seq(S), NEW q \in Seq(S), NEW c \in S
  PROVE  g \o Append(q, c) = Append(g \o q, c)
<1>1. Len(g) \in Nat /\ Len(q) \in Nat /\ Append(q, c) \in Seq(S) /\ Len(Append(q, c)) = Len(q) + 1
  OBVIOUS
<1>2. /\ g \o q \in Seq(S) /\ Len(g \o q) = Len(g) + Len(q)
      /\ g \o Append(q, c) \in Seq(S) /\ Len(g \o Append(q, c)) = Len(g) + Len(q) + 1
  BY <1>1
<1>3. Append(g \o q, c) \in Seq(S) /\ Len(Append(g \o q, c)) = Len(g) + Len(q) + 1
  BY <1>2
<1>4. \A i \in 1..(Len(g) + Len(q) + 1) : (g \o Append(q, c))[i] = Append(g \o q, c)[i]
  <2> TAKE i \in 1..(Len(g) + Len(q) + 1)
  <2>1. CASE i <= Len(g)
    <3>1. Append(g \o q, c)[i] = (g \o q)[i]
      BY <1>1, <1>2, <2>1
    <3> QED BY <1>1, <2>1, <3>1
  <2>2. CASE i > Len(g) /\ i <= Len(g) + Len(q)
    <3>1. Append(g \o q, c)[i] = (g \o q)[i]
      BY <1>1, <1>2, <2>2
    <3>2. (g \o q)[i] = q[i - Len(g)] /\ (g \o Append(q, c))[i] = Append(q, c)[i - Len(g)]
      BY <1>1, <2>2
    <3> QED BY <1>1, <2>2, <3>1, <3>2
  <2>3. CASE i = Len(g) + Len(q) + 1
    <3>1. Append(g \o q, c)[i] = c
      BY <1>1, <1>2, <2>3
    <3> QED BY <1>1, <2>3, <3>1
  <2> QED BY <1>1, <2>1, <2>2, <2>3
<1> QED BY <1>2, <1>3, <1>4, SeqEqual

\* Without, of functions s on 1..M and l on 1..L.
Taken(s, M, l, L, n, d) ==
  /\ \A i \in n + 1 .. L : l[i] \in d \/ \E a \in 1..M : s[a] = l[i]
  /\ \A a \in 1..M : \E i \in n + 1 .. L : s[a] = l[i] /\ l[i] \notin d
  /\ \A a, b \in 1..M : a < b =>
       s[a] # s[b] /\ \E i, j \in n + 1 .. L : i < j /\ s[a] = l[i] /\ s[b] = l[j]

\* A new element of the log that is left out joins the elements left out.
LEMMA TakenDrop ==
  ASSUME NEW s, NEW l, NEW k, NEW M \in Nat, NEW L \in Nat, NEW n \in Nat, n <= L, NEW c, NEW d,
         k[L + 1] = c, \A i \in 1..L : k[i] = l[i] /\ l[i] # c, Taken(s, M, l, L, n, d)
  PROVE  Taken(s, M, k, L + 1, n, d \cup {c})
<1>1. \A i \in n + 1 .. L : i \in n + 1 .. L + 1 /\ k[i] = l[i] /\ k[i] # c
  OBVIOUS
<1>2. \A i \in n + 1 .. L + 1 : i \in n + 1 .. L \/ i = L + 1
  OBVIOUS
<1>3. \A i \in n + 1 .. L + 1 : k[i] \in d \cup {c} \/ \E a \in 1..M : s[a] = k[i]
  BY <1>1, <1>2 DEF Taken
<1>4. \A a \in 1..M : \E i \in n + 1 .. L + 1 : s[a] = k[i] /\ k[i] \notin d \cup {c}
  BY <1>1 DEF Taken
<1>5. \A a, b \in 1..M : a < b =>
        s[a] # s[b] /\ \E i, j \in n + 1 .. L + 1 : i < j /\ s[a] = k[i] /\ s[b] = k[j]
  BY <1>1 DEF Taken
<1> QED BY <1>3, <1>4, <1>5 DEF Taken

\* A new element of the log that is taken is the last one taken.
LEMMA TakenTake ==
  ASSUME NEW s, NEW t, NEW l, NEW k, NEW M \in Nat, NEW L \in Nat, NEW n \in Nat, n <= L, NEW c, NEW d,
         k[L + 1] = c, \A i \in 1..L : k[i] = l[i] /\ l[i] # c,
         t[M + 1] = c, \A a \in 1..M : t[a] = s[a], c \notin d, Taken(s, M, l, L, n, d)
  PROVE  Taken(t, M + 1, k, L + 1, n, d)
<1>1. \A i \in n + 1 .. L : i \in n + 1 .. L + 1 /\ i < L + 1 /\ k[i] = l[i] /\ k[i] # c
  OBVIOUS
<1>2. L + 1 \in n + 1 .. L + 1 /\ \A i \in n + 1 .. L + 1 : i \in n + 1 .. L \/ i = L + 1
  OBVIOUS
<1>3. /\ M + 1 \in 1 .. M + 1 /\ \A a \in 1..M : a \in 1 .. M + 1
      /\ \A a \in 1 .. M + 1 : a \in 1..M \/ a = M + 1
      /\ \A a, b \in 1 .. M + 1 : a < b => a \in 1..M
  OBVIOUS
<1>4. \A i \in n + 1 .. L + 1 : k[i] \in d \/ \E a \in 1 .. M + 1 : t[a] = k[i]
  BY <1>1, <1>2, <1>3 DEF Taken
<1>5. \A a \in 1 .. M + 1 : \E i \in n + 1 .. L + 1 : t[a] = k[i] /\ k[i] \notin d
  BY <1>1, <1>2, <1>3 DEF Taken
<1>6. ASSUME NEW a \in 1 .. M + 1, NEW b \in 1 .. M + 1, a < b
      PROVE  t[a] # t[b] /\ \E i, j \in n + 1 .. L + 1 : i < j /\ t[a] = k[i] /\ t[b] = k[j]
  <2>1. CASE b = M + 1
    BY <1>1, <1>2, <1>3, <1>6, <2>1 DEF Taken
  <2>2. CASE b \in 1..M
    BY <1>1, <1>3, <1>6, <2>2 DEF Taken
  <2> QED BY <1>3, <2>1, <2>2
<1> QED BY <1>4, <1>5, <1>6 DEF Taken

\* The two notions agree on sequences ...
LEMMA WithoutIsTaken ==
  ASSUME NEW s, NEW l, NEW n, NEW d
  PROVE  Without(s, l, n, d) <=> Taken(s, Len(s), l, Len(l), n, d)
BY Zenon DEF Without, Taken

\* ... which the appended element extends by one.
LEMMA AppendFacts ==
  ASSUME NEW S, NEW s \in Seq(S), NEW c \in S
  PROVE  /\ Len(s) \in Nat /\ Len(Append(s, c)) = Len(s) + 1
         /\ Append(s, c)[Len(s) + 1] = c /\ \A a \in 1..Len(s) : Append(s, c)[a] = s[a]
OBVIOUS

\* So an element that is left out is one more element left out ...
LEMMA WithoutDrop ==
  ASSUME NEW S, NEW s \in Seq(S), NEW l \in Seq(S), NEW n \in Nat, n <= Len(l), NEW d,
         NEW c \in S, \A i \in 1..Len(l) : l[i] # c, Without(s, l, n, d)
  PROVE  Without(s, Append(l, c), n, d \cup {c})
<1>1. Taken(s, Len(s), l, Len(l), n, d)
  BY WithoutIsTaken
<1>2. Append(l, c)[Len(l) + 1] = c /\ \A i \in 1..Len(l) : Append(l, c)[i] = l[i] /\ l[i] # c
  BY AppendFacts
<1>3. Len(s) \in Nat /\ Len(l) \in Nat
  BY AppendFacts
<1>4. Taken(s, Len(s), Append(l, c), Len(l) + 1, n, d \cup {c})
  BY <1>1, <1>2, <1>3, TakenDrop
<1>5. Len(Append(l, c)) = Len(l) + 1
  BY AppendFacts
<1> QED BY <1>4, <1>5, WithoutIsTaken, Zenon

\* ... and, when it is taken, the sequence without it grows by it.
LEMMA WithoutTake ==
  ASSUME NEW S, NEW s \in Seq(S), NEW l \in Seq(S), NEW n \in Nat, n <= Len(l), NEW d,
         NEW c \in S, c \notin d, \A i \in 1..Len(l) : l[i] # c, Without(s, l, n, d)
  PROVE  Without(Append(s, c), Append(l, c), n, d)
<1>1. Taken(s, Len(s), l, Len(l), n, d)
  BY WithoutIsTaken
<1>2. Append(l, c)[Len(l) + 1] = c /\ \A i \in 1..Len(l) : Append(l, c)[i] = l[i] /\ l[i] # c
  BY AppendFacts
<1>3. Append(s, c)[Len(s) + 1] = c /\ \A a \in 1..Len(s) : Append(s, c)[a] = s[a]
  BY AppendFacts
<1>4. Len(s) \in Nat /\ Len(l) \in Nat
  BY AppendFacts
<1>5. Taken(Append(s, c), Len(s) + 1, Append(l, c), Len(l) + 1, n, d)
  <2>1. PICK t : t = Append(s, c)
    OBVIOUS
  <2>2. PICK k : k = Append(l, c)
    OBVIOUS
  <2>3. PICK M \in Nat : M = Len(s)
    BY <1>4
  <2>4. PICK L \in Nat : L = Len(l)
    BY <1>4
  <2>5. /\ Taken(s, M, l, L, n, d) /\ k[L + 1] = c /\ \A i \in 1..L : k[i] = l[i] /\ l[i] # c
        /\ t[M + 1] = c /\ \A a \in 1..M : t[a] = s[a]
    BY <1>1, <1>2, <1>3, <2>1, <2>2, <2>3, <2>4
  <2>6. n <= L
    BY <2>4
  <2>7. Taken(t, M + 1, k, L + 1, n, d)
    BY <2>5, <2>6, TakenTake
  <2> QED BY <2>1, <2>2, <2>3, <2>4, <2>7
<1>6. Len(Append(s, c)) = Len(s) + 1 /\ Len(Append(l, c)) = Len(l) + 1
  BY AppendFacts
<1> QED BY <1>5, <1>6, WithoutIsTaken, Zenon

\* Publish sends a chunk nobody has seen, and every pump has another one.
LEMMA LogNext ==
  ASSUME Inv, LogInv, [Next]_vars
  PROVE  LogInv'
<1>0. /\ log \in Seq(Chunks) /\ read \in Nat /\ pub \in [Pumps -> 0..MaxChunks]
      /\ dropped \in [Watchers -> SUBSET Chunks] /\ \A p \in Pumps : pub[p] \in Nat
  BY MaxChunksAssumption DEF Inv, TypeOK
<1>1. ASSUME NEW p \in Pumps, PublishLookup(p)
      PROVE  LogInv'
  <2>1. read' = read + 1 /\ log' = log /\ dropped' = dropped
    BY <1>1 DEF PublishLookup, chanVars
  <2>2. \A q \in Pumps : pub'[q] = pub[q] \/ (q = p /\ pub'[q] \in {0, read + 1})
    BY <1>0, <1>1 DEF PublishLookup
  <2>3. \A i \in DOMAIN log : log[i] \in Nat /\ log[i] <= read /\ log[i] # read + 1
    BY <1>0, MaxChunksAssumption DEF LogInv, Chunks
  <2>4. \A q \in Pumps : pub[q] <= read /\ pub[q] # read + 1
    BY <1>0 DEF LogInv
  <2>5. \A q \in Pumps : pub'[q] <= read' /\ (pub'[q] # 0 => \A i \in DOMAIN log' : log'[i] # pub'[q])
    BY <1>0, <2>1, <2>2, <2>3, <2>4 DEF LogInv
  <2>6. \A q, t \in Pumps : pub'[q] # 0 /\ pub'[t] = pub'[q] => t = q
    BY <1>0, <2>2, <2>4 DEF LogInv
  <2>7. \A i \in DOMAIN log : log[i] <= read'
    BY <1>0, <2>1, <2>3
  <2> QED BY <2>1, <2>5, <2>6, <2>7 DEF LogInv
<1>2. ASSUME NEW p \in Pumps, PublishSend(p)
      PROVE  LogInv'
  <2>1. /\ pub[p] # 0 /\ log' = Append(log, pub[p]) /\ read' = read
    BY <1>2 DEF PublishSend
  <2>2. /\ Len(log) \in Nat /\ DOMAIN log = 1..Len(log) /\ DOMAIN log' = 1..(Len(log) + 1)
        /\ log'[Len(log) + 1] = pub[p] /\ \A i \in 1..Len(log) : log'[i] = log[i]
    BY <1>0, <2>1
  <2>3. \A q \in Pumps : (q = p /\ pub'[q] = 0) \/ (q # p /\ pub'[q] = pub[q])
    BY <1>0, <1>2 DEF PublishSend
  <2>4. \A w \in Watchers : \A c \in dropped'[w] : c \in dropped[w] \/ c = pub[p]
    BY <1>0, <1>2 DEF PublishSend
  <2>5. \A i, j \in DOMAIN log' : log'[i] = log'[j] => i = j
    <3> TAKE i, j \in DOMAIN log'
    <3>1. CASE i \in DOMAIN log /\ j \in DOMAIN log
      BY <2>2, <3>1 DEF LogInv
    <3>2. CASE i \notin DOMAIN log /\ j \in DOMAIN log
      BY <2>1, <2>2, <3>2 DEF LogInv
    <3>3. CASE i \in DOMAIN log /\ j \notin DOMAIN log
      BY <2>1, <2>2, <3>3 DEF LogInv
    <3>4. CASE i \notin DOMAIN log /\ j \notin DOMAIN log
      BY <2>2, <3>4
    <3> QED BY <3>1, <3>2, <3>3, <3>4
  <2>6. \A i \in DOMAIN log' : log'[i] <= read'
    BY <1>0, <2>1, <2>2 DEF LogInv
  <2>7. \A q \in Pumps : pub'[q] # 0 => \A i \in DOMAIN log' : log'[i] # pub'[q]
    BY <2>1, <2>2, <2>3 DEF LogInv
  <2>8. \A q \in Pumps : pub'[q] <= read' /\ \A t \in Pumps : pub'[q] # 0 /\ pub'[t] = pub'[q] => t = q
    BY <1>0, <2>1, <2>3 DEF LogInv
  <2>9. \A w \in Watchers : \A c \in dropped'[w] : \E i \in DOMAIN log' : log'[i] = c
    BY <2>2, <2>4 DEF LogInv
  <2> QED BY <2>5, <2>6, <2>7, <2>8, <2>9 DEF LogInv
<1>3. CASE UNCHANGED <<log, read, pub, dropped>>
  BY <1>3 DEF LogInv
<1>4. UNCHANGED <<log, read, pub, dropped>> \/ \E p \in Pumps : PublishLookup(p) \/ PublishSend(p)
  BY DEF Next, Register, UnregisterDelete, UnregisterClose, Publish, Watch, SubscribeLookup, SubscribeAdd,
         Upgrade, UpgradeFails, WatchWrite, WatchWriteFails, WatchEnds, ReaderCancels, BrowserLeaves,
         chanVars, pumpVars, vars
<1> QED BY <1>1, <1>2, <1>3, <1>4

\* Nobody sends to a watcher that has not subscribed.
LEMMA FreshNext ==
  ASSUME Inv, FreshInv, [Next]_vars
  PROVE  FreshInv'
<1>0. /\ log \in Seq(Chunks) /\ pub \in [Pumps -> 0..MaxChunks] /\ from \in [Watchers -> Nat]
      /\ queue \in [Watchers -> Seq(Chunks)] /\ got \in [Watchers -> Seq(Chunks)]
      /\ wpc \in [Watchers -> {"idle", "found", "subscribed", "watching", "gone"}]
      /\ \A w \in Watchers : wpc[w] \in {"idle", "found"} => w \notin subs
      /\ Len(log) \in Nat
  BY DEF Inv, TypeOK, OpenInv
<1>1. ASSUME NEW p \in Pumps, PublishSend(p)
      PROVE  FreshInv'
  <2>1. /\ wpc' = wpc /\ got' = got /\ from' = from
        /\ \A w \in Watchers : w \notin subs => queue'[w] = queue[w]
    BY <1>0, <1>1 DEF PublishSend, watchVars
  <2>2. Len(log') = Len(log) + 1
    BY <1>0, <1>1 DEF PublishSend
  <2> QED BY <1>0, <2>1, <2>2 DEF FreshInv
<1>2. ASSUME NEW w \in Watchers, SubscribeAdd(w)
      PROVE  FreshInv'
  <2>1. /\ log' = log /\ got' = got /\ queue' = queue
    BY <1>2 DEF SubscribeAdd, pumpVars
  <2>2. \A v \in Watchers : v # w => wpc'[v] = wpc[v] /\ from'[v] = from[v]
    BY <1>0, <1>2 DEF SubscribeAdd
  <2>3. wpc'[w] = "subscribed" /\ from'[w] = Len(log)
    BY <1>0, <1>2 DEF SubscribeAdd
  <2>4. ASSUME NEW v \in Watchers
        PROVE  /\ wpc'[v] \in {"idle", "found"} => got'[v] = <<>> /\ queue'[v] = <<>>
               /\ from'[v] <= Len(log')
    <3>1. CASE v = w
      BY <1>0, <2>1, <2>3, <3>1
    <3>2. CASE v # w
      BY <2>1, <2>2, <3>2 DEF FreshInv
    <3> QED BY <3>1, <3>2
  <2> QED BY <2>4 DEF FreshInv
<1>3. ASSUME NEW w \in Watchers, WatchWrite(w)
      PROVE  FreshInv'
  <2>1. wpc' = wpc /\ from' = from /\ log' = log /\ wpc[w] = "watching"
    BY <1>3 DEF WatchWrite, pumpVars
  <2>2. \A v \in Watchers : v # w => got'[v] = got[v] /\ queue'[v] = queue[v]
    BY <1>0, <1>3 DEF WatchWrite
  <2> QED BY <2>1, <2>2 DEF FreshInv
<1>4. CASE /\ UNCHANGED <<log, got, queue, from>>
           /\ \A w \in Watchers : wpc'[w] \in {"idle", "found"} => wpc[w] \in {"idle", "found"}
  BY <1>4 DEF FreshInv
<1>5. CASE \E w \in Watchers : \/ SubscribeLookup(w) \/ Upgrade(w) \/ UpgradeFails(w)
                               \/ WatchWriteFails(w) \/ WatchEnds(w)
  <2>1. PICK w \in Watchers : \/ SubscribeLookup(w) \/ Upgrade(w) \/ UpgradeFails(w)
                              \/ WatchWriteFails(w) \/ WatchEnds(w)
    BY <1>5
  <2>2. UNCHANGED <<log, got, queue, from>>
    BY <2>1 DEF SubscribeLookup, Upgrade, UpgradeFails, WatchWriteFails, WatchEnds, chanVars, pumpVars
  <2>3. \A v \in Watchers : wpc'[v] \in {"idle", "found"} => wpc[v] \in {"idle", "found"}
    BY <1>0, <2>1 DEF SubscribeLookup, Upgrade, UpgradeFails, WatchWriteFails, WatchEnds
  <2> QED BY <1>4, <2>2, <2>3
<1>6. CASE \/ Register \/ UnregisterDelete \/ UnregisterClose
           \/ (\E p \in Pumps : PublishLookup(p))
           \/ (\E w \in Watchers : ReaderCancels(w) \/ BrowserLeaves(w)) \/ UNCHANGED vars
  <2>1. UNCHANGED <<log, got, queue, from, wpc>>
    BY <1>6 DEF Register, UnregisterDelete, UnregisterClose, PublishLookup, ReaderCancels, BrowserLeaves,
                chanVars, pumpVars, watchVars, vars
  <2> QED BY <1>4, <2>1
<1> QED BY <1>1, <1>2, <1>3, <1>5, <1>6 DEF Next, Publish, Watch

\* A send reaches or misses each subscriber; what it has seen stays in order.
LEMMA SendKeepsSight ==
  ASSUME Inv, LogInv, FreshInv, NEW p \in Pumps, PublishSend(p), NEW w \in subs,
         Without(Seen(w), log, from[w], dropped[w])
  PROVE  Without(Seen(w), log, from[w], dropped[w])'
<1>0. /\ log \in Seq(Chunks) /\ from \in [Watchers -> Nat] /\ w \in Watchers
      /\ queue \in [Watchers -> Seq(Chunks)] /\ got \in [Watchers -> Seq(Chunks)]
      /\ dropped \in [Watchers -> SUBSET Chunks] /\ pub[p] \in Chunks
  BY MaxChunksAssumption DEF PublishSend, Inv, TypeOK, Chunks
<1>1. /\ queue[w] \in Seq(Chunks) /\ got[w] \in Seq(Chunks) /\ Seen(w) \in Seq(Chunks)
      /\ from[w] \in Nat /\ from[w] <= Len(log)
  BY <1>0 DEF Seen, FreshInv
<1>2. log' = Append(log, pub[p]) /\ from' = from /\ got' = got
  BY DEF PublishSend, watchVars
<1>3. \A i \in 1..Len(log) : log[i] # pub[p]
  BY <1>0 DEF LogInv, PublishSend
<1>4. pub[p] \notin dropped[w]
  <2>1. DOMAIN log = 1..Len(log) /\ \A c \in dropped[w] : \E i \in DOMAIN log : log[i] = c
    BY <1>0 DEF LogInv
  <2> QED BY <1>3, <2>1
<1>5. CASE Len(queue[w]) >= ChanCap
  <2>1. dropped'[w] = dropped[w] \cup {pub[p]} /\ queue'[w] = queue[w]
    BY <1>0, <1>5 DEF PublishSend
  <2>2. Seen(w)' = Seen(w)
    BY <1>2, <2>1 DEF Seen
  <2>3. Without(Seen(w), Append(log, pub[p]), from[w], dropped[w] \cup {pub[p]})
    BY <1>0, <1>1, <1>3, WithoutDrop
  <2> QED BY <1>2, <2>1, <2>2, <2>3
<1>6. CASE ~(Len(queue[w]) >= ChanCap)
  <2>1. dropped'[w] = dropped[w] /\ queue'[w] = Append(queue[w], pub[p])
    BY <1>0, <1>6 DEF PublishSend
  <2>2. got[w] \o Append(queue[w], pub[p]) = Append(got[w] \o queue[w], pub[p])
    BY <1>0, <1>1, JoinIsLast
  <2>3. Seen(w)' = Append(Seen(w), pub[p])
    BY <1>2, <2>1, <2>2 DEF Seen
  <2>4. Without(Append(Seen(w), pub[p]), Append(log, pub[p]), from[w], dropped[w])
    BY <1>0, <1>1, <1>3, <1>4, WithoutTake
  <2> QED BY <1>2, <2>1, <2>3, <2>4
<1> QED BY <1>5, <1>6

\* Every action keeps what the subscribed watchers have seen.
LEMMA SightNext ==
  ASSUME Inv, SeenInv, [Next]_vars
  PROVE  WatcherSeesLog'
<1> SUFFICES ASSUME NEW w \in subs'
             PROVE  Without(Seen(w), log, from[w], dropped[w])'
  BY DEF WatcherSeesLog
<1>0. /\ log \in Seq(Chunks) /\ from \in [Watchers -> Nat] /\ subs \subseteq Watchers
      /\ queue \in [Watchers -> Seq(Chunks)] /\ got \in [Watchers -> Seq(Chunks)]
      /\ wpc \in [Watchers -> {"idle", "found", "subscribed", "watching", "gone"}]
      /\ LogInv /\ FreshInv /\ \A v \in subs : Without(Seen(v), log, from[v], dropped[v])
  BY DEF Inv, TypeOK, SeenInv, WatcherSeesLog
<1>1. CASE \E p \in Pumps : PublishSend(p)
  BY <1>0, <1>1, SendKeepsSight DEF PublishSend
<1>2. ASSUME w \in subs, Seen(w)' = Seen(w), from'[w] = from[w], dropped'[w] = dropped[w], log' = log
      PROVE  Without(Seen(w), log, from[w], dropped[w])'
  BY <1>0, <1>2
<1>3. ASSUME NEW v \in Watchers, SubscribeAdd(v)
      PROVE  Without(Seen(w), log, from[w], dropped[w])'
  <2>1. UNCHANGED <<log, got, queue, dropped>> /\ subs' = subs \cup {v}
    BY <1>3 DEF SubscribeAdd, pumpVars
  <2>2. CASE w = v
    <3>1. got'[w] = <<>> /\ queue'[w] = <<>> /\ from'[w] = Len(log)
      BY <1>0, <1>3, <2>1, <2>2 DEF FreshInv, SubscribeAdd
    <3>2. Seen(w)' = <<>> \o <<>>
      BY <3>1 DEF Seen
    <3>3. Len(Seen(w)') = 0 /\ Len(log') = from'[w] /\ from'[w] \in Nat
      BY <1>0, <2>1, <3>1, <3>2
    <3> QED BY <3>3 DEF Without
  <2>3. CASE w # v
    <3>1. w \in subs /\ from'[w] = from[w] /\ Seen(w)' = Seen(w)
      BY <1>0, <1>3, <2>1, <2>3 DEF SubscribeAdd, Seen
    <3> QED BY <1>2, <2>1, <3>1
  <2> QED BY <2>2, <2>3
<1>4. ASSUME NEW v \in Watchers, WatchWrite(v)
      PROVE  Without(Seen(w), log, from[w], dropped[w])'
  <2>1. UNCHANGED <<log, dropped, subs, from>>
    BY <1>4 DEF WatchWrite, pumpVars
  <2>2. Seen(w)' = Seen(w)
    <3>1. CASE w = v
      <4>1. /\ queue[w] # <<>> /\ queue'[w] = Tail(queue[w])
            /\ got'[w] = Append(got[w], Head(queue[w])) /\ w \in Watchers
        BY <1>0, <1>4, <3>1 DEF WatchWrite
      <4>2. queue[w] \in Seq(Chunks) /\ got[w] \in Seq(Chunks)
        BY <1>0, <4>1
      <4>3. Append(got[w], Head(queue[w])) \o Tail(queue[w]) = got[w] \o queue[w]
        BY <4>1, <4>2, MovePreserves
      <4> QED BY <4>1, <4>3 DEF Seen
    <3>2. CASE w # v
      BY <1>0, <1>4, <3>2 DEF WatchWrite, Seen
    <3> QED BY <3>1, <3>2
  <2> QED BY <1>2, <2>1, <2>2
<1>5. CASE subs' \subseteq subs /\ UNCHANGED <<log, got, queue, from, dropped>>
  <2>1. Seen(w)' = Seen(w)
    BY <1>5 DEF Seen
  <2> QED BY <1>2, <1>5, <2>1
<1>6. CASE \/ Register \/ UnregisterDelete \/ UnregisterClose
           \/ (\E p \in Pumps : PublishLookup(p)) \/ UNCHANGED vars
  BY <1>5, <1>6 DEF Register, UnregisterDelete, UnregisterClose, PublishLookup,
                    chanVars, pumpVars, watchVars, vars
<1>7. CASE \E v \in Watchers : \/ SubscribeLookup(v) \/ Upgrade(v) \/ UpgradeFails(v) \/ WatchWriteFails(v)
                               \/ WatchEnds(v) \/ ReaderCancels(v) \/ BrowserLeaves(v)
  BY <1>5, <1>7 DEF SubscribeLookup, Upgrade, UpgradeFails, WatchWriteFails, WatchEnds, ReaderCancels,
                    BrowserLeaves, Cancel, chanVars, pumpVars, watchVars
<1> QED BY <1>1, <1>3, <1>4, <1>6, <1>7 DEF Next, Publish, Watch

\* A watcher misses only what Publish dropped on its full channel: for any
\* number of pumps, watchers and chunks, what it has been sent and what is
\* queued are the other chunks published since it subscribed, in order.
THEOREM WatchersSeeTheLog == Spec => []WatcherSeesLog
<1>1. Init => SeenInv
  <2> SUFFICES ASSUME Init PROVE SeenInv
    OBVIOUS
  <2>1. LogInv
    BY DEF Init, LogInv
  <2>2. FreshInv /\ WatcherSeesLog
    BY DEF Init, FreshInv, WatcherSeesLog
  <2> QED BY <2>1, <2>2 DEF SeenInv
<1>2. Inv /\ SeenInv /\ [Next]_vars => SeenInv'
  BY LogNext, FreshNext, SightNext DEF SeenInv
<1>3. SeenInv => WatcherSeesLog
  BY DEF SeenInv
<1> QED BY <1>1, <1>2, <1>3, InvAlways, PTL DEF Spec
=============================================================================
