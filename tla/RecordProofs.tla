----------------------------- MODULE RecordProofs -----------------------------
(***************************************************************************)
(* Proofs about what a session leaves behind: its output on the screen and *)
(* in the recording (module Output), for any number of connections, any    *)
(* set of pumps, any capacity of the ring and any supply of chunks; and    *)
(* the audit log (module AuditChain), for any number of appenders, any     *)
(* contents and a log of any length.                                       *)
(***************************************************************************)
EXTENDS Output, AuditChain, SequenceTheorems, WellFoundedInduction, TLAPS

(* The inductive invariant. *)

\* What a pump has in its hands: the write mutex while it writes, a connection
\* from writeWS's load to the write, and a chunk newer than all it has put into
\* the ring, until it is there.
PumpInv(p) ==
  /\ ppc[p] \in {"lock", "write"} => to[p] \in Conns
  /\ ppc[p] \notin {"lock", "write"} => to[p] = Nobody
  /\ ppc[p] = "write" => wmu = p
  /\ ppc[p] \in {"ring", "load", "lock", "write"} => Held(p) \in cast
  /\ ppc[p] \in {"load", "lock", "write"} => \E i \in 1..Len(rung) : rung[i] = Held(p)
  /\ \A i \in 1..Len(rung) : rung[i][1] = p =>
       /\ rung[i][2] <= count[p]
       /\ ppc[p] \in {"record", "ring"} => rung[i][2] < count[p]

\* No pump's chunk is recorded out of order.
RungInv ==
  /\ \A i \in 1..Len(rung) : rung[i] \in cast
  /\ \A i, j \in 1..Len(rung) : i < j /\ rung[i][1] = rung[j][1] => rung[i][2] < rung[j][2]

\* The ring holds the last chunks of all.
RingInv ==
  /\ Len(ring) = IF Len(rung) > RingCap THEN RingCap ELSE Len(rung)
  /\ \A i \in 1..Len(ring) : ring[i] = rung[Len(rung) - Len(ring) + i]

\* A handler that repaints holds the write mutex and what was in the ring, and
\* its browser was sent nothing that came to the ring later.
PaintInv(c) ==
  hpc[c] = "paint" =>
    /\ wmu = c
    /\ since[c] + Len(painting[c]) <= Len(rung)
    /\ \A i \in 1..Len(painting[c]) : painting[c][i] = rung[since[c] + i]
    /\ \A i \in 1..Len(recv[c]) : \E j \in 1..(since[c] + Len(painting[c])) : recv[c][i] = rung[j]

\* A browser is shown what was in the ring.
ShownInv(c) == \A i \in 1..Len(recv[c]) : \E j \in 1..Len(rung) : recv[c][i] = rung[j]

\* The last browser stays bound until it detaches, and what the snapshot it is
\* about to be sent does not hold is on its way to it.
BoundInv(c) == newest = c /\ hpc[c] \in {"bound", "paint", "input"} => ws = c
SnapInv(c) ==
  newest = c /\ hpc[c] = "paint" =>
    \A i \in (since[c] + 1)..Len(rung) :
      \/ rung[i] \in Elements(painting[c])
      \/ \E p \in Pumps : rung[i] = Held(p) /\ SendsTo(p, c)

Inv ==
  /\ TypeOK /\ RungInv /\ RingInv /\ NoOutputLost /\ ScreenEndsInOrder
  /\ \A p \in Pumps : PumpInv(p)
  /\ \A c \in Conns : PaintInv(c) /\ ShownInv(c) /\ BoundInv(c) /\ SnapInv(c)

-----------------------------------------------------------------------------
\* A chunk is its stream and its number.
LEMMA ChunkFacts ==
  ASSUME NEW u \in Chunks
  PROVE  /\ u[1] \in Pumps /\ u[2] \in Nat
         /\ \A v \in Chunks : u[1] = v[1] /\ u[2] = v[2] => u = v
BY DEF Chunks

\* What a pump holds is a chunk of its own stream.
LEMMA HeldFacts ==
  ASSUME count \in [Pumps -> Nat], NEW p \in Pumps
  PROVE  Held(p) \in Chunks /\ Held(p)[1] = p /\ Held(p)[2] = count[p]
BY DEF Held, Chunks

\* The elements of a sequence.
LEMMA ElementFacts ==
  ASSUME NEW S, NEW q \in Seq(S), NEW x
  PROVE  x \in Elements(q) <=> \E i \in 1..Len(q) : q[i] = x
<1>1. DOMAIN q = 1..Len(q)
  OBVIOUS
<1> QED BY <1>1, Zenon DEF Elements

\* A concatenation, element by element.
LEMMA ConcatFacts ==
  ASSUME NEW S, NEW q \in Seq(S), NEW s \in Seq(S)
  PROVE  /\ q \o s \in Seq(S) /\ Len(q) \in Nat /\ Len(s) \in Nat
         /\ Len(q \o s) = Len(q) + Len(s)
         /\ \A i \in 1..Len(q) : (q \o s)[i] = q[i]
         /\ \A i \in 1..Len(s) : (q \o s)[Len(q) + i] = s[i]
OBVIOUS

\* EndsInOrder, of a function on 1..K; and what makes t, which is q on 1..M and
\* then s on 1..N, end in order when q does: s is in order, and repeats what q
\* has of its streams from its first chunk on.
InOrderTo(q, K) ==
  \A i \in 1..K : \E j \in i..K :
    q[j] = q[i] /\ \A k \in (j + 1)..K : q[k][1] = q[i][1] => q[k][2] > q[i][2]
Joined(q, M, s, N, t) ==
  /\ \A i \in 1..M : q[i] \in Chunks /\ t[i] = q[i]
  /\ \A i \in 1..N : s[i] \in Chunks /\ t[M + i] = s[i]
  /\ \A i, j \in 1..N : i < j /\ s[i][1] = s[j][1] => s[i][2] < s[j][2]
  /\ \A i \in 1..M, k \in 1..N :
       q[i][1] = s[k][1] /\ s[k][2] <= q[i][2] => \E m \in 1..N : s[m] = q[i]

\* Then t does.
LEMMA OrderJoin ==
  ASSUME NEW q, NEW s, NEW t, NEW M \in Nat, NEW N \in Nat, InOrderTo(q, M), Joined(q, M, s, N, t)
  PROVE  InOrderTo(t, M + N)
<1>0. /\ \A i \in 1..M : q[i] \in Chunks /\ t[i] = q[i]
      /\ \A i \in 1..N : s[i] \in Chunks /\ t[M + i] = s[i]
      /\ \A i, j \in 1..N : i < j /\ s[i][1] = s[j][1] => s[i][2] < s[j][2]
      /\ \A i \in 1..M, k \in 1..N :
           q[i][1] = s[k][1] /\ s[k][2] <= q[i][2] => \E m \in 1..N : s[m] = q[i]
  BY DEF Joined
<1> USE <1>0
<1> SUFFICES ASSUME NEW i \in 1..(M + N)
             PROVE  \E j \in i..(M + N) :
                      t[j] = t[i] /\ \A k \in (j + 1)..(M + N) : t[k][1] = t[i][1] => t[k][2] > t[i][2]
  BY DEF InOrderTo
<1>1. \A k \in (M + 1)..(M + N) : k - M \in 1..N /\ t[k] = s[k - M]
  <2> TAKE k \in (M + 1)..(M + N)
  <2>1. k - M \in 1..N /\ M + (k - M) = k
    OBVIOUS
  <2> QED BY <2>1
<1>2. \A k \in 1..N : M + k \in (M + 1)..(M + N) /\ t[M + k] = s[k] /\ s[k][2] \in Nat
  BY ChunkFacts
<1>3. ASSUME NEW m \in 1..N, s[m] = t[i], i <= M + m
      PROVE  \E j \in i..(M + N) :
               t[j] = t[i] /\ \A k \in (j + 1)..(M + N) : t[k][1] = t[i][1] => t[k][2] > t[i][2]
  <2>1. M + m \in i..(M + N) /\ t[M + m] = t[i]
    BY <1>2, <1>3
  <2>2. ASSUME NEW k \in (M + m + 1)..(M + N), t[k][1] = t[i][1]
        PROVE  t[k][2] > t[i][2]
    <3>1. k - M \in 1..N /\ t[k] = s[k - M] /\ m < k - M
      BY <1>1
    <3>2. s[m][2] < s[k - M][2]
      BY <1>3, <2>2, <3>1
    <3> QED BY <1>2, <1>3, <3>1, <3>2
  <2> QED BY <2>1, <2>2
<1>4. CASE i \in 1..M
  <2>1. t[i] = q[i] /\ q[i][2] \in Nat
    BY <1>4, ChunkFacts
  <2>2. CASE \E m \in 1..N : s[m] = q[i]
    BY <1>3, <1>4, <2>1, <2>2
  <2>3. CASE ~\E m \in 1..N : s[m] = q[i]
    <3>1. PICK j \in i..M : q[j] = q[i] /\ \A k \in (j + 1)..M : q[k][1] = q[i][1] => q[k][2] > q[i][2]
      BY <1>4 DEF InOrderTo
    <3>2. j \in i..(M + N) /\ t[j] = t[i]
      BY <1>4, <3>1
    <3>3. ASSUME NEW k \in (j + 1)..(M + N), t[k][1] = t[i][1]
          PROVE  t[k][2] > t[i][2]
      <4>1. CASE k \in 1..M
        <5>1. k \in (j + 1)..M /\ t[k] = q[k]
          BY <3>3, <4>1
        <5> QED BY <2>1, <3>1, <3>3, <5>1
      <4>2. CASE k \notin 1..M
        <5>1. k \in (M + 1)..(M + N)
          BY <1>4, <3>1, <4>2
        <5>2. k - M \in 1..N /\ t[k] = s[k - M] /\ s[k - M][2] \in Nat
          BY <1>1, <1>2, <5>1
        <5>3. ~(s[k - M][2] <= q[i][2])
          BY <1>4, <2>1, <2>3, <3>3, <5>2
        <5> QED BY <2>1, <5>2, <5>3
      <4> QED BY <4>1, <4>2
    <3> QED BY <3>2, <3>3
  <2> QED BY <2>2, <2>3
<1>5. CASE i \notin 1..M
  <2>1. i \in (M + 1)..(M + N)
    BY <1>5
  <2>2. i - M \in 1..N /\ t[i] = s[i - M] /\ i <= M + (i - M)
    BY <1>1, <2>1
  <2> QED BY <1>3, <2>2
<1> QED BY <1>4, <1>5

\* The same of sequences.
LEMMA OrderKept ==
  ASSUME NEW q \in Seq(Chunks), NEW s \in Seq(Chunks), EndsInOrder(q),
         \A i, j \in 1..Len(s) : i < j /\ s[i][1] = s[j][1] => s[i][2] < s[j][2],
         \A i \in 1..Len(q), k \in 1..Len(s) :
           q[i][1] = s[k][1] /\ s[k][2] <= q[i][2] => \E m \in 1..Len(s) : s[m] = q[i]
  PROVE  EndsInOrder(q \o s)
<1>1. /\ Len(q) \in Nat /\ Len(s) \in Nat /\ Len(q \o s) = Len(q) + Len(s)
      /\ \A i \in 1..Len(q) : (q \o s)[i] = q[i]
      /\ \A i \in 1..Len(s) : (q \o s)[Len(q) + i] = s[i]
  BY ConcatFacts
<1>2. /\ \A i \in 1..Len(q) : q[i] \in Chunks
      /\ \A i \in 1..Len(s) : s[i] \in Chunks
  OBVIOUS
<1>3. InOrderTo(q, Len(q))
  BY Zenon DEF EndsInOrder, InOrderTo
<1>4. Joined(q, Len(q), s, Len(s), q \o s)
  BY <1>1, <1>2, Zenon DEF Joined
<1>5. InOrderTo(q \o s, Len(q) + Len(s))
  BY <1>1, <1>3, <1>4, OrderJoin
<1>6. InOrderTo(q \o s, Len(q \o s))
  BY <1>1, <1>5
<1> QED BY <1>6, Zenon DEF EndsInOrder, InOrderTo

-----------------------------------------------------------------------------
\* ring.write on the ring: it holds the last RingCap chunks again.
LEMMA RingWriteFacts ==
  ASSUME TypeOK, RingInv, NEW p \in Pumps, RingWrite(p)
  PROVE  /\ rung' = Append(rung, Held(p)) /\ rung' \in Seq(Chunks) /\ Len(rung) \in Nat
         /\ Len(rung') = Len(rung) + 1 /\ rung'[Len(rung) + 1] = Held(p)
         /\ \A i \in 1..Len(rung) : rung'[i] = rung[i]
         /\ ring' \in Seq(Chunks) /\ Len(ring') <= RingCap /\ RingInv'
<1>1. /\ ring \in Seq(Chunks) /\ rung \in Seq(Chunks) /\ Len(ring) <= RingCap
      /\ Held(p) \in Chunks /\ RingCap \in Nat \ {0} /\ Len(ring) \in Nat /\ Len(rung) \in Nat
  BY HeldFacts, RingAssumption DEF TypeOK
<1>2. PICK x \in Chunks : x = Held(p)
  BY <1>1
<1>3. rung' = Append(rung, x)
  BY <1>2 DEF RingWrite
<1>4. /\ rung' \in Seq(Chunks) /\ Len(rung') = Len(rung) + 1 /\ rung'[Len(rung) + 1] = x
      /\ \A i \in 1..Len(rung) : rung'[i] = rung[i]
  BY <1>1, <1>3
<1>5. PICK buf \in Seq(Chunks) : buf = Append(ring, x)
  <2>1. Append(ring, x) \in Seq(Chunks)
    BY <1>1
  <2> QED BY <2>1
<1>6. /\ Len(buf) = Len(ring) + 1 /\ buf[Len(ring) + 1] = x
      /\ \A i \in 1..Len(ring) : buf[i] = ring[i]
  BY <1>1, <1>5
<1>7. \A i \in 1..Len(ring) + 1 : buf[i] = rung'[Len(rung) - Len(ring) + i]
  <2> TAKE i \in 1..Len(ring) + 1
  <2>1. CASE i = Len(ring) + 1
    BY <1>1, <1>4, <1>6, <2>1
  <2>2. CASE i \in 1..Len(ring)
    <3>1. buf[i] = rung[Len(rung) - Len(ring) + i]
      BY <1>6, <2>2 DEF RingInv
    <3>2. Len(ring) <= Len(rung)
      BY <1>1 DEF RingInv
    <3>3. Len(rung) - Len(ring) + i \in 1..Len(rung)
      BY <1>1, <2>2, <3>2
    <3> QED BY <1>4, <3>1, <3>3
  <2> QED BY <1>1, <2>1, <2>2
<1>8. CASE Len(buf) > RingCap
  <2>1. ring' = SubSeq(buf, 2, Len(buf))
    <3>1. Len(buf) - RingCap + 1 = 2
      BY <1>1, <1>6, <1>8
    <3>2. ring' = SubSeq(buf, Len(buf) - RingCap + 1, Len(buf))
      BY <1>2, <1>5, <1>8 DEF RingWrite
    <3> QED BY <3>1, <3>2
  <2>2. Len(ring) = RingCap
    BY <1>1, <1>6, <1>8
  <2>3. ring' \in Seq(Chunks) /\ Len(ring') = RingCap /\ \A i \in 1..RingCap : ring'[i] = buf[i + 1]
    BY <1>1, <1>6, <2>1, <2>2
  <2>4. Len(rung) >= RingCap
    BY <1>1, <2>2 DEF RingInv
  <2>5. \A i \in 1..RingCap : ring'[i] = rung'[Len(rung') - Len(ring') + i]
    <3> TAKE i \in 1..RingCap
    <3>1. i + 1 \in 1..Len(ring) + 1 /\ Len(rung) - Len(ring) + (i + 1) = Len(rung') - Len(ring') + i
      BY <1>1, <1>4, <2>2, <2>3
    <3> QED BY <1>7, <2>3, <3>1
  <2>6. RingInv'
    BY <1>1, <1>4, <2>3, <2>4, <2>5 DEF RingInv
  <2> QED BY <1>1, <1>2, <1>3, <1>4, <2>3, <2>6
<1>9. CASE ~(Len(buf) > RingCap)
  <2>1. ring' = SubSeq(buf, 1, Len(buf))
    <3>1. ring' = SubSeq(buf, 0 + 1, Len(buf))
      BY <1>2, <1>5, <1>9 DEF RingWrite
    <3> QED BY <3>1
  <2>2. ring' \in Seq(Chunks) /\ Len(ring') = Len(ring) + 1 /\ \A i \in 1..Len(ring) + 1 : ring'[i] = buf[i]
    BY <1>1, <1>6, <2>1
  <2>3. Len(ring) = Len(rung)
    BY <1>1, <1>6, <1>9 DEF RingInv
  <2>4. \A i \in 1..Len(ring') : ring'[i] = rung'[Len(rung') - Len(ring') + i]
    <3> TAKE i \in 1..Len(ring')
    <3>1. i \in 1..Len(ring) + 1 /\ Len(rung) - Len(ring) + i = Len(rung') - Len(ring') + i
      BY <1>1, <1>4, <2>2, <2>3
    <3> QED BY <1>7, <2>2, <3>1
  <2>5. Len(ring') <= RingCap /\ ~(Len(rung') > RingCap) /\ Len(ring') = Len(rung')
    BY <1>1, <1>4, <1>6, <1>9, <2>2, <2>3
  <2>6. RingInv'
    BY <2>4, <2>5 DEF RingInv
  <2> QED BY <1>1, <1>2, <1>3, <1>4, <2>2, <2>5, <2>6
<1> QED BY <1>8, <1>9

\* Every action keeps the types.
LEMMA TypeNext ==
  ASSUME Inv, [Next]_vars
  PROVE  TypeOK'
<1>0. TypeOK /\ RingInv /\ \A p \in Pumps : PumpInv(p)
  BY DEF Inv
<1>1. ASSUME NEW p \in Pumps, RingWrite(p)
      PROVE  TypeOK'
  <2>1. rung' \in Seq(Chunks) /\ ring' \in Seq(Chunks) /\ Len(ring') <= RingCap
    BY <1>0, <1>1, RingWriteFacts
  <2> QED BY <1>0, <1>1, <2>1 DEF TypeOK, RingWrite, PumpTo, castVars, connVars, wireVars, endVars
<1>2. ASSUME NEW p \in Pumps, RecordOutput(p)
      PROVE  TypeOK'
  <2>1. Held(p) \in Chunks
    BY <1>0, HeldFacts DEF TypeOK
  <2> QED BY <1>0, <1>2, <2>1 DEF TypeOK, RecordOutput, PumpTo, ringVars, connVars, wireVars, endVars
<1>3. ASSUME NEW p \in Pumps, WriteWS(p)
      PROVE  TypeOK'
  <2>1. Held(p) \in Chunks /\ to[p] \in Conns
    BY <1>0, <1>3, HeldFacts DEF TypeOK, PumpInv, WriteWS, PumpTo
  <2>2. recv' \in [Conns -> Seq(Chunks)]
    <3>1. recv[to[p]] \in Seq(Chunks) /\ recv[to[p]] \o <<Held(p)>> \in Seq(Chunks)
      BY <1>0, <2>1 DEF TypeOK
    <3>2. recv' = recv \/ recv' = [recv EXCEPT ![to[p]] = recv[to[p]] \o <<Held(p)>>]
      BY <1>0, <1>3 DEF TypeOK, WriteWS, Send
    <3>3. recv \in [Conns -> Seq(Chunks)]
      BY <1>0 DEF TypeOK
    <3> QED BY <2>1, <3>1, <3>2, <3>3
  <2> QED BY <1>0, <1>3, <2>2 DEF TypeOK, WriteWS, PumpTo, ringVars, castVars, connVars, endVars
<1>4. ASSUME NEW p \in Pumps, Read(p) \/ LoadWS(p) \/ LockWS(p)
      PROVE  TypeOK'
  <2>1. CASE Read(p)
    <3>1. count' \in [Pumps -> Nat]
      BY <1>0, <2>1 DEF TypeOK, Read
    <3>2. ppc' \in [Pumps -> {"read", "record", "ring", "load", "lock", "write", "done"}]
      BY <1>0, <2>1 DEF TypeOK, Read, PumpTo
    <3> QED BY <1>0, <2>1, <3>1, <3>2 DEF TypeOK, Read, ringVars, castVars, connVars, wireVars, endVars
  <2>2. CASE LoadWS(p)
    <3>1. PICK s \in {"read", "lock"} : s = IF ws = Nobody THEN "read" ELSE "lock"
      OBVIOUS
    <3>2. ppc' = [ppc EXCEPT ![p] = s]
      BY <2>2, <3>1 DEF LoadWS, PumpTo
    <3>3. ppc' \in [Pumps -> {"read", "record", "ring", "load", "lock", "write", "done"}]
      BY <1>0, <3>2 DEF TypeOK
    <3> QED BY <1>0, <2>2, <3>3 DEF TypeOK, LoadWS, ringVars, castVars, connVars, wireVars, endVars
  <2>3. CASE LockWS(p)
    BY <1>0, <2>3 DEF TypeOK, LockWS, PumpTo, ringVars, castVars, connVars, wireVars, endVars
  <2> QED BY <1>4, <2>1, <2>2, <2>3
<1>5. ASSUME NEW p \in Pumps, PumpEnds(p)
      PROVE  TypeOK'
  BY <1>0, <1>5 DEF TypeOK, PumpEnds, PumpTo, ringVars, castVars, connVars, wireVars, endVars
<1>6. ASSUME NEW c \in Conns, Bind(c) \/ Detach(c) \/ BrowserStalls(c) \/ BrowserDrops(c)
      PROVE  TypeOK'
  BY <1>0, <1>6 DEF TypeOK, Bind, Detach, BrowserStalls, BrowserDrops, pumpVars, ringVars, castVars, connVars, wireVars, endVars
<1>7. ASSUME NEW c \in Conns, Snapshot(c)
      PROVE  TypeOK'
  <2>1. (IF Len(rung) > RingCap THEN Len(rung) - RingCap ELSE 0) \in Nat
    BY <1>0, RingAssumption DEF TypeOK
  <2>2. since' \in [Conns -> Nat]
    BY <1>0, <1>7, <2>1 DEF TypeOK, Snapshot
  <2> QED BY <1>0, <1>7, <2>2 DEF TypeOK, Snapshot, pumpVars, ringVars, castVars, wireVars, endVars
<1>8. ASSUME NEW c \in Conns, Paint(c)
      PROVE  TypeOK'
  <2>1. recv' \in [Conns -> Seq(Chunks)]
    <3>1. recv[c] \in Seq(Chunks) /\ recv[c] \o painting[c] \in Seq(Chunks)
      BY <1>0 DEF TypeOK
    <3>2. recv' = recv \/ recv' = [recv EXCEPT ![c] = recv[c] \o painting[c]]
      BY <1>0, <1>8 DEF TypeOK, Paint, Send
    <3>3. recv \in [Conns -> Seq(Chunks)]
      BY <1>0 DEF TypeOK
    <3> QED BY <3>1, <3>2, <3>3
  <2>2. painting' \in [Conns -> Seq(Chunks)]
    BY <1>0, <1>8 DEF TypeOK, Paint
  <2> QED BY <1>0, <1>8, <2>1, <2>2 DEF TypeOK, Paint, pumpVars, ringVars, castVars, endVars
<1>9. CASE BeginEnd \/ Flush \/ CloseWS
  BY <1>0, <1>9 DEF TypeOK, BeginEnd, Flush, CloseWS, pumpVars, ringVars, castVars, connVars, wireVars, endVars
<1>10. CASE UNCHANGED vars
  BY <1>0, <1>10 DEF TypeOK, vars, pumpVars, ringVars, castVars, connVars, wireVars, endVars
<1> QED BY <1>1, <1>2, <1>3, <1>4, <1>5, <1>6, <1>7, <1>8, <1>9, <1>10 DEF Next, Pump, Handler

\* Every action but ring.write leaves the ring alone.
LEMMA RungUnchanged ==
  ASSUME [Next]_vars, \A p \in Pumps : ~RingWrite(p)
  PROVE  ring' = ring /\ rung' = rung
BY DEF Next, Pump, Handler, Read, RecordOutput, LoadWS, LockWS, WriteWS, PumpEnds, Bind, Snapshot,
       Paint, Detach, BrowserStalls, BrowserDrops, BeginEnd, Flush, CloseWS, ringVars, vars

\* The log of the ring only grows, at its end.
LEMMA RungGrows ==
  ASSUME Inv, [Next]_vars
  PROVE  /\ Len(rung) \in Nat /\ Len(rung') \in Nat /\ Len(rung) <= Len(rung')
         /\ \A i \in 1..Len(rung) : rung'[i] = rung[i]
<1>1. TypeOK /\ RingInv
  BY DEF Inv
<1>2. rung \in Seq(Chunks)
  BY <1>1 DEF TypeOK
<1>3. Len(rung) \in Nat
  BY <1>2
<1>4. ASSUME NEW p \in Pumps, RingWrite(p)
      PROVE  Len(rung') = Len(rung) + 1 /\ \A i \in 1..Len(rung) : rung'[i] = rung[i]
  BY <1>1, <1>4, RingWriteFacts
<1>5. CASE \A p \in Pumps : ~RingWrite(p)
  BY <1>3, <1>5, RungUnchanged
<1> QED BY <1>3, <1>4, <1>5

\* What is recorded stays recorded.
LEMMA CastGrows ==
  ASSUME [Next]_vars
  PROVE  cast \subseteq cast'
BY DEF Next, Pump, Handler, Read, RecordOutput, RingWrite, LoadWS, LockWS, WriteWS, PumpEnds, Bind, Snapshot,
       Paint, Detach, BrowserStalls, BrowserDrops, BeginEnd, Flush, CloseWS, castVars, vars

\* Each stream's chunks come to the ring in order, after they were recorded.
LEMMA RungNext ==
  ASSUME Inv, [Next]_vars
  PROVE  RungInv' /\ RingInv'
<1>0. TypeOK /\ RingInv /\ RungInv /\ \A p \in Pumps : PumpInv(p)
  BY DEF Inv
<1>1. rung \in Seq(Chunks) /\ Len(rung) \in Nat /\ count \in [Pumps -> Nat]
  BY <1>0 DEF TypeOK
<1>2. ASSUME NEW p \in Pumps, RingWrite(p)
      PROVE  RungInv' /\ RingInv'
  <2>1. /\ Len(rung') = Len(rung) + 1 /\ rung'[Len(rung) + 1] = Held(p) /\ RingInv'
        /\ \A i \in 1..Len(rung) : rung'[i] = rung[i]
    BY <1>0, <1>2, RingWriteFacts
  <2>2. cast' = cast /\ ppc[p] = "ring"
    BY <1>2 DEF RingWrite, PumpTo, castVars
  <2>3. Held(p) \in cast /\ \A i \in 1..Len(rung) : rung[i][1] = p => rung[i][2] < count[p]
    BY <1>0, <2>2 DEF PumpInv
  <2>4. Held(p)[1] = p /\ Held(p)[2] = count[p]
    BY <1>1, HeldFacts
  <2>5. \A i \in 1..Len(rung') : i \in 1..Len(rung) \/ i = Len(rung) + 1
    BY <1>1, <2>1
  <2>6. \A i \in 1..Len(rung') : rung'[i] \in cast'
    BY <1>0, <2>1, <2>2, <2>3, <2>5 DEF RungInv
  <2>7. ASSUME NEW i \in 1..Len(rung'), NEW j \in 1..Len(rung'), i < j, rung'[i][1] = rung'[j][1]
        PROVE  rung'[i][2] < rung'[j][2]
    <3>1. i \in 1..Len(rung)
      BY <1>1, <2>1, <2>7
    <3>2. CASE j = Len(rung) + 1
      BY <2>1, <2>3, <2>4, <2>7, <3>1, <3>2
    <3>3. CASE j \in 1..Len(rung)
      BY <1>0, <2>1, <2>7, <3>1, <3>3 DEF RungInv
    <3> QED BY <2>5, <3>2, <3>3
  <2> QED BY <2>1, <2>6, <2>7 DEF RungInv
<1>3. CASE \A p \in Pumps : ~RingWrite(p)
  <2>1. ring' = ring /\ rung' = rung
    BY <1>3, RungUnchanged
  <2>2. RingInv'
    BY <1>0, <2>1 DEF RingInv
  <2>3. RungInv'
    BY <1>0, <2>1, CastGrows DEF RungInv
  <2> QED BY <2>2, <2>3
<1> QED BY <1>2, <1>3


-----------------------------------------------------------------------------
\* What one step does to a part of the state.  A new chunk in the ring is the one
\* that a pump held.
LEMMA RungStep ==
  ASSUME Inv, [Next]_vars, NEW i \in 1..Len(rung')
  PROVE  \/ i \in 1..Len(rung) /\ rung'[i] = rung[i]
         \/ \E p \in Pumps : RingWrite(p) /\ rung'[i] = Held(p)
<1>1. TypeOK /\ RingInv
  BY DEF Inv
<1>2. CASE \A p \in Pumps : ~RingWrite(p)
  BY <1>2, RungUnchanged
<1>3. ASSUME NEW p \in Pumps, RingWrite(p)
      PROVE  (i \in 1..Len(rung) /\ rung'[i] = rung[i]) \/ rung'[i] = Held(p)
  BY <1>1, <1>3, RingWriteFacts
<1> QED BY <1>2, <1>3

\* Nobody else moves a pump.
LEMMA PumpFrame ==
  ASSUME TypeOK, [Next]_vars, NEW p \in Pumps, ~Pump(p)
  PROVE  ppc'[p] = ppc[p] /\ count'[p] = count[p] /\ to'[p] = to[p]
<1>1. ppc \in [Pumps -> {"read", "record", "ring", "load", "lock", "write", "done"}]
      /\ count \in [Pumps -> Nat] /\ to \in [Pumps -> Conns \cup {Nobody}]
  BY DEF TypeOK
<1>2. ASSUME NEW q \in Pumps, Pump(q)
      PROVE  ppc'[p] = ppc[p] /\ count'[p] = count[p] /\ to'[p] = to[p]
  <2>1. q # p
    BY <1>2
  <2>2. ppc'[p] = ppc[p]
    BY <1>1, <1>2, <2>1 DEF Pump, Read, RecordOutput, RingWrite, LoadWS, LockWS, WriteWS, PumpEnds, PumpTo
  <2>3. count'[p] = count[p]
    BY <1>1, <1>2, <2>1 DEF Pump, Read, RecordOutput, RingWrite, LoadWS, LockWS, WriteWS, PumpEnds
  <2>4. to'[p] = to[p]
    BY <1>1, <1>2, <2>1 DEF Pump, Read, RecordOutput, RingWrite, LoadWS, LockWS, WriteWS, PumpEnds
  <2> QED BY <2>2, <2>3, <2>4
<1>3. ASSUME ~\E q \in Pumps : Pump(q)
      PROVE  UNCHANGED pumpVars
  BY <1>3 DEF Next, Handler, Bind, Snapshot, Paint, Detach, BrowserStalls, BrowserDrops, BeginEnd, Flush, CloseWS, vars
<1> QED BY <1>2, <1>3 DEF pumpVars

\* Only its holder releases the write mutex.
LEMMA MutexKept ==
  ASSUME Inv, [Next]_vars, wmu # Nobody
  PROVE  \/ wmu' = wmu
         \/ wmu \in Pumps /\ WriteWS(wmu)
         \/ wmu \in Conns /\ Paint(wmu)
<1>1. /\ \A p \in Pumps : PumpInv(p)
      /\ \A c \in Conns : PaintInv(c)
  BY DEF Inv
<1>2. ASSUME NEW p \in Pumps, Pump(p)
      PROVE  wmu' = wmu \/ (wmu \in Pumps /\ WriteWS(wmu))
  <2>1. CASE WriteWS(p)
    <3>1. wmu = p
      BY <1>1, <2>1 DEF WriteWS, PumpTo, PumpInv
    <3> QED BY <2>1, <3>1
  <2>2. CASE ~WriteWS(p)
    <3>1. wmu' = wmu
      BY <1>2, <2>2 DEF Pump, Read, RecordOutput, RingWrite, LoadWS, LockWS, PumpEnds
    <3> QED BY <3>1
  <2> QED BY <2>1, <2>2
<1>3. ASSUME NEW c \in Conns, Handler(c) \/ BrowserStalls(c) \/ BrowserDrops(c)
      PROVE  wmu' = wmu \/ (wmu \in Conns /\ Paint(wmu))
  <2>1. CASE Paint(c)
    <3>1. wmu = c
      BY <1>1, <2>1 DEF Paint, PaintInv
    <3> QED BY <2>1, <3>1
  <2>2. CASE ~Paint(c)
    <3>1. wmu' = wmu
      BY <1>3, <2>2 DEF Handler, Bind, Snapshot, Detach, BrowserStalls, BrowserDrops
    <3> QED BY <3>1
  <2> QED BY <2>1, <2>2
<1>4. CASE BeginEnd \/ Flush \/ CloseWS \/ UNCHANGED vars
  BY <1>4 DEF BeginEnd, Flush, CloseWS, vars
<1> QED BY <1>2, <1>3, <1>4 DEF Next

\* WriteMessage to d, seen from c.
LEMMA SendFacts ==
  ASSUME recv \in [Conns -> Seq(Chunks)], NEW c \in Conns, NEW d, NEW s, Send(d, s)
  PROVE  /\ recv'[c] = recv[c] \/ (d = c /\ recv'[c] = recv[c] \o s)
         /\ d = c /\ sock[c] # "closed" => recv'[c] = recv[c] \o s
<1>1. CASE sock[d] # "closed"
  <2>1. recv' = [recv EXCEPT ![d] = recv[d] \o s]
    BY <1>1 DEF Send
  <2> QED BY <1>1, <2>1
<1>2. CASE sock[d] = "closed"
  <2>1. recv' = [recv EXCEPT ![d] = recv[d]]
    BY <1>2 DEF Send
  <2> QED BY <1>2, <2>1
<1> QED BY <1>1, <1>2

\* A browser is sent a pump's chunk or its own repaint.
LEMMA RecvStep ==
  ASSUME Inv, [Next]_vars, NEW c \in Conns
  PROVE  \/ recv'[c] = recv[c]
         \/ \E p \in Pumps : WriteWS(p) /\ to[p] = c /\ recv'[c] = recv[c] \o <<Held(p)>>
         \/ Paint(c) /\ recv'[c] = recv[c] \o painting[c]
<1>1. TypeOK
  BY DEF Inv
<1>2. recv \in [Conns -> Seq(Chunks)]
  BY <1>1 DEF TypeOK
<1>3. ASSUME NEW p \in Pumps, WriteWS(p)
      PROVE  recv'[c] = recv[c] \/ (to[p] = c /\ recv'[c] = recv[c] \o <<Held(p)>>)
  BY <1>2, <1>3, SendFacts DEF WriteWS
<1>4. ASSUME NEW d \in Conns, Paint(d)
      PROVE  recv'[c] = recv[c] \/ (Paint(c) /\ recv'[c] = recv[c] \o painting[c])
  <2>1. recv'[c] = recv[c] \/ (d = c /\ recv'[c] = recv[c] \o painting[d])
    BY <1>2, <1>4, SendFacts DEF Paint
  <2> QED BY <1>4, <2>1
<1>5. CASE (\A p \in Pumps : ~WriteWS(p)) /\ (\A d \in Conns : ~Paint(d))
  <2>1. recv' = recv
    BY <1>5 DEF Next, Pump, Handler, Read, RecordOutput, RingWrite, LoadWS, LockWS, PumpEnds, Bind, Snapshot,
                Detach, BrowserStalls, BrowserDrops, BeginEnd, Flush, CloseWS, wireVars, vars
  <2> QED BY <2>1
<1> QED BY <1>3, <1>4, <1>5

\* Nobody else moves a handler.
LEMMA HandlerFrame ==
  ASSUME TypeOK, [Next]_vars, NEW c \in Conns, ~Handler(c)
  PROVE  hpc'[c] = hpc[c] /\ painting'[c] = painting[c] /\ since'[c] = since[c]
<1>1. /\ hpc \in [Conns -> {"new", "bound", "paint", "input", "gone"}]
      /\ painting \in [Conns -> Seq(Chunks)] /\ since \in [Conns -> Nat]
  BY DEF TypeOK
<1>2. ASSUME NEW d \in Conns, Handler(d)
      PROVE  hpc'[c] = hpc[c] /\ painting'[c] = painting[c] /\ since'[c] = since[c]
  <2>1. d # c
    BY <1>2
  <2>2. hpc'[c] = hpc[c]
    BY <1>1, <1>2, <2>1 DEF Handler, Bind, Snapshot, Paint, Detach
  <2>3. painting'[c] = painting[c]
    BY <1>1, <1>2, <2>1 DEF Handler, Bind, Snapshot, Paint, Detach
  <2>4. since'[c] = since[c]
    BY <1>1, <1>2, <2>1 DEF Handler, Bind, Snapshot, Paint, Detach
  <2> QED BY <2>2, <2>3, <2>4
<1>3. ASSUME ~\E d \in Conns : Handler(d)
      PROVE  hpc' = hpc /\ painting' = painting /\ since' = since
  BY <1>3 DEF Next, Pump, Read, RecordOutput, RingWrite, LoadWS, LockWS, WriteWS, PumpEnds, BrowserStalls, BrowserDrops,
              BeginEnd, Flush, CloseWS, vars, connVars
<1> QED BY <1>2, <1>3

\* The last browser stays bound until its handler detaches it or another binds.
LEMMA BoundNext ==
  ASSUME Inv, [Next]_vars, NEW c \in Conns
  PROVE  /\ BoundInv(c)'
         /\ newest' = c => newest = c \/ Bind(c)
<1>1. TypeOK /\ BoundInv(c)
  BY DEF Inv
<1>2. hpc \in [Conns -> {"new", "bound", "paint", "input", "gone"}]
  BY <1>1 DEF TypeOK
<1>3. ASSUME NEW d \in Conns, Bind(d)
      PROVE  BoundInv(c)' /\ (newest' = c => newest = c \/ Bind(c))
  BY <1>3 DEF Bind, BoundInv
<1>4. ASSUME NEW d \in Conns, Detach(d)
      PROVE  BoundInv(c)' /\ newest' = newest
  <2>1. CASE d = c
    <3>1. hpc'[c] = "gone" /\ newest' = newest
      BY <1>2, <1>4, <2>1 DEF Detach
    <3> QED BY <3>1 DEF BoundInv
  <2>2. CASE d # c
    <3>1. hpc'[c] = hpc[c] /\ newest' = newest /\ (ws = c => ws' = c)
      BY <1>2, <1>4, <2>2 DEF Detach
    <3> QED BY <1>1, <3>1 DEF BoundInv
  <2> QED BY <2>1, <2>2
<1>5. ASSUME NEW d \in Conns, Snapshot(d) \/ Paint(d)
      PROVE  BoundInv(c)' /\ newest' = newest
  <2>1. newest' = newest /\ ws' = ws
    BY <1>5 DEF Snapshot, Paint
  <2>2. hpc'[c] \in {"bound", "paint", "input"} => hpc[c] \in {"bound", "paint", "input"}
    BY <1>2, <1>5 DEF Snapshot, Paint
  <2> QED BY <1>1, <2>1, <2>2 DEF BoundInv
<1>6. CASE ~\E d \in Conns : Handler(d)
  <2>1. newest' = newest /\ ws' = ws /\ hpc' = hpc
    BY <1>6 DEF Next, Pump, Read, RecordOutput, RingWrite, LoadWS, LockWS, WriteWS, PumpEnds, BrowserStalls, BrowserDrops,
                BeginEnd, Flush, CloseWS, vars, connVars
  <2> QED BY <1>1, <2>1 DEF BoundInv
<1> QED BY <1>3, <1>4, <1>5, <1>6 DEF Handler

-----------------------------------------------------------------------------
\* What a pump has in its hands.
LEMMA PumpNext ==
  ASSUME Inv, [Next]_vars, NEW p \in Pumps
  PROVE  PumpInv(p)'
<1>0. TypeOK /\ RingInv /\ PumpInv(p) /\ RungInv
  BY DEF Inv
<1>1. /\ ppc \in [Pumps -> {"read", "record", "ring", "load", "lock", "write", "done"}]
      /\ count \in [Pumps -> Nat] /\ to \in [Pumps -> Conns \cup {Nobody}]
      /\ ws \in Conns \cup {Nobody}
  BY <1>0 DEF TypeOK
<1>2. /\ Len(rung) \in Nat /\ Len(rung') \in Nat /\ Len(rung) <= Len(rung')
      /\ \A i \in 1..Len(rung) : i \in 1..Len(rung') /\ rung'[i] = rung[i]
  BY RungGrows
<1>3. cast \subseteq cast'
  BY CastGrows
<1>4. ASSUME NEW q \in Pumps
      PROVE  Held(q)[1] = q /\ Held(q)[2] = count[q] /\ count[q] \in Nat
  BY <1>1, HeldFacts
<1>5. \A i \in 1..Len(rung) : rung[i][1] = p => rung[i][2] \in Nat
  <2>1. rung \in Seq(Chunks)
    BY <1>0 DEF TypeOK
  <2>2. \A i \in 1..Len(rung) : rung[i] \in Chunks
    BY <2>1
  <2> QED BY <2>2, ChunkFacts
<1>6. CASE ~Pump(p)
  <2>1. ppc'[p] = ppc[p] /\ count'[p] = count[p] /\ to'[p] = to[p] /\ Held(p)' = Held(p)
    BY <1>0, <1>6, PumpFrame DEF Held
  <2>2. ppc[p] = "write" => wmu' = p
    <3> SUFFICES ASSUME ppc[p] = "write" PROVE wmu' = p
      OBVIOUS
    <3>1. wmu = p /\ p # Nobody /\ p \notin Conns
      BY <1>0, NobodyAssumption, DisjointAssumption DEF PumpInv
    <3>2. ~WriteWS(p)
      BY <1>6 DEF Pump
    <3> QED BY <3>1, <3>2, MutexKept
  <2>3. \A i \in 1..Len(rung') : rung'[i][1] = p => i \in 1..Len(rung) /\ rung'[i] = rung[i]
    <3> SUFFICES ASSUME NEW i \in 1..Len(rung'), rung'[i][1] = p
                 PROVE  i \in 1..Len(rung) /\ rung'[i] = rung[i]
      OBVIOUS
    <3>1. ASSUME NEW q \in Pumps, RingWrite(q), rung'[i] = Held(q)
          PROVE  FALSE
      <4>1. q = p
        BY <1>4, <3>1
      <4> QED BY <1>6, <3>1, <4>1 DEF Pump
    <3> QED BY <3>1, RungStep
  <2>4. \A i \in 1..Len(rung') : rung'[i][1] = p =>
          /\ rung'[i][2] <= count'[p]
          /\ ppc'[p] \in {"record", "ring"} => rung'[i][2] < count'[p]
    BY <1>0, <2>1, <2>3 DEF PumpInv
  <2>5. ppc'[p] \in {"load", "lock", "write"} => \E i \in 1..Len(rung') : rung'[i] = Held(p)'
    BY <1>0, <1>2, <2>1 DEF PumpInv
  <2>6. ppc'[p] \in {"ring", "load", "lock", "write"} => Held(p)' \in cast'
    BY <1>0, <1>3, <2>1 DEF PumpInv
  <2>7. /\ ppc'[p] \in {"lock", "write"} => to'[p] \in Conns
        /\ ppc'[p] \notin {"lock", "write"} => to'[p] = Nobody
        /\ ppc'[p] = "write" => wmu' = p
    BY <1>0, <2>1, <2>2 DEF PumpInv
  <2> QED BY <2>4, <2>5, <2>6, <2>7 DEF PumpInv
<1>7. CASE Read(p)
  <2>1. /\ ppc'[p] = "record" /\ count'[p] = count[p] + 1 /\ to'[p] = to[p] /\ ppc[p] = "read" /\ rung' = rung
    BY <1>1, <1>7 DEF Read, PumpTo, ringVars
  <2>2. \A i \in 1..Len(rung') : rung'[i][1] = p => rung'[i][2] <= count'[p] /\ rung'[i][2] < count'[p]
    <3> TAKE i \in 1..Len(rung')
    <3>1. rung[i][1] = p => rung[i][2] <= count[p] /\ rung[i][2] \in Nat
      BY <1>0, <1>5, <2>1 DEF PumpInv
    <3> QED BY <1>1, <2>1, <3>1
  <2>3. to'[p] = Nobody
    BY <1>0, <2>1 DEF PumpInv
  <2> QED BY <2>1, <2>2, <2>3 DEF PumpInv
<1>8. CASE RecordOutput(p)
  <2>1. /\ ppc'[p] = "ring" /\ ppc[p] = "record" /\ to' = to /\ count' = count /\ rung' = rung
        /\ Held(p)' = Held(p) /\ Held(p) \in cast'
    BY <1>1, <1>8 DEF RecordOutput, PumpTo, ringVars, Held
  <2> QED BY <1>0, <2>1 DEF PumpInv
<1>9. CASE RingWrite(p)
  <2>1. /\ ppc'[p] = "load" /\ ppc[p] = "ring" /\ to' = to /\ count' = count /\ cast' = cast
        /\ Held(p)' = Held(p)
    BY <1>1, <1>9 DEF RingWrite, PumpTo, castVars, Held
  <2>2. rung'[Len(rung) + 1] = Held(p) /\ Len(rung) + 1 \in 1..Len(rung')
    BY <1>0, <1>9, RingWriteFacts
  <2>3. \A i \in 1..Len(rung') : rung'[i][1] = p => rung'[i][2] <= count'[p]
    <3> TAKE i \in 1..Len(rung')
    <3>1. CASE i \in 1..Len(rung)
      BY <1>0, <1>2, <2>1, <3>1 DEF PumpInv
    <3>2. CASE i \notin 1..Len(rung)
      <4>1. i = Len(rung) + 1
        BY <1>0, <1>9, <3>2, RingWriteFacts
      <4> QED BY <1>4, <2>1, <2>2, <4>1
    <3> QED BY <3>1, <3>2
  <2>4. to'[p] = Nobody /\ Held(p) \in cast'
    BY <1>0, <2>1 DEF PumpInv
  <2> QED BY <2>1, <2>2, <2>3, <2>4 DEF PumpInv
<1>10. CASE LoadWS(p)
  <2>1. /\ ppc[p] = "load" /\ to'[p] = ws /\ count' = count /\ cast' = cast /\ rung' = rung
        /\ Held(p)' = Held(p)
    BY <1>1, <1>10 DEF LoadWS, PumpTo, castVars, ringVars, Held
  <2>2. (ws = Nobody /\ ppc'[p] = "read") \/ (ws \in Conns /\ ppc'[p] = "lock")
    BY <1>1, <1>10 DEF LoadWS, PumpTo
  <2> QED BY <1>0, <2>1, <2>2 DEF PumpInv
<1>11. CASE LockWS(p)
  <2>1. /\ ppc[p] = "lock" /\ ppc'[p] = "write" /\ to' = to /\ count' = count /\ cast' = cast /\ rung' = rung
        /\ Held(p)' = Held(p) /\ wmu' = p
    BY <1>1, <1>11 DEF LockWS, PumpTo, castVars, ringVars, Held
  <2> QED BY <1>0, <2>1 DEF PumpInv
<1>12. CASE WriteWS(p)
  <2>1. /\ ppc[p] = "write" /\ ppc'[p] = "read" /\ to'[p] = Nobody /\ count' = count /\ rung' = rung
    BY <1>1, <1>12 DEF WriteWS, PumpTo, ringVars
  <2> QED BY <1>0, <2>1 DEF PumpInv
<1>13. CASE PumpEnds(p)
  <2>1. /\ ppc[p] = "read" /\ ppc'[p] = "done" /\ to' = to /\ count' = count /\ rung' = rung
    BY <1>1, <1>13 DEF PumpEnds, PumpTo, ringVars
  <2> QED BY <1>0, <2>1 DEF PumpInv
<1> QED BY <1>6, <1>7, <1>8, <1>9, <1>10, <1>11, <1>12, <1>13 DEF Pump

\* What pump p sends, and what the snapshot holds, is in the ring's log.
LEMMA SentFacts ==
  ASSUME Inv, NEW c \in Conns
  PROVE  /\ recv[c] \in Seq(Chunks) /\ painting[c] \in Seq(Chunks) /\ rung \in Seq(Chunks)
         /\ since[c] \in Nat /\ Len(rung) \in Nat /\ Len(painting[c]) \in Nat /\ Len(recv[c]) \in Nat
         /\ \A i \in 1..Len(rung) : rung[i] \in Chunks
<1>1. TypeOK
  BY DEF Inv
<1>2. recv[c] \in Seq(Chunks) /\ painting[c] \in Seq(Chunks) /\ rung \in Seq(Chunks) /\ since[c] \in Nat
  BY <1>1 DEF TypeOK
<1> QED BY <1>2

\* What a browser is shown was in the ring.
LEMMA ShownNext ==
  ASSUME Inv, [Next]_vars, NEW c \in Conns
  PROVE  ShownInv(c)'
<1>0. TypeOK /\ ShownInv(c) /\ PaintInv(c) /\ \A p \in Pumps : PumpInv(p)
  BY DEF Inv
<1>1. /\ recv[c] \in Seq(Chunks) /\ painting[c] \in Seq(Chunks)
      /\ since[c] \in Nat /\ Len(rung) \in Nat /\ Len(painting[c]) \in Nat /\ Len(recv[c]) \in Nat
  BY SentFacts
<1>2. \A j \in 1..Len(rung) : j \in 1..Len(rung') /\ rung'[j] = rung[j]
  BY RungGrows
<1>3. CASE recv'[c] = recv[c]
  BY <1>0, <1>2, <1>3 DEF ShownInv
<1>4. ASSUME NEW s \in Seq(Chunks), recv'[c] = recv[c] \o s,
             \A i \in 1..Len(s) : \E j \in 1..Len(rung) : s[i] = rung[j]
      PROVE  ShownInv(c)'
  <2> SUFFICES ASSUME NEW i \in 1..Len(recv'[c])
               PROVE  \E j \in 1..Len(rung') : recv'[c][i] = rung'[j]
    BY DEF ShownInv
  <2>1. /\ Len(recv'[c]) = Len(recv[c]) + Len(s) /\ Len(s) \in Nat
        /\ \A k \in 1..Len(recv[c]) : recv'[c][k] = recv[c][k]
        /\ \A k \in 1..Len(s) : recv'[c][Len(recv[c]) + k] = s[k]
    <3>1. /\ Len(recv[c] \o s) = Len(recv[c]) + Len(s) /\ Len(s) \in Nat
          /\ \A k \in 1..Len(recv[c]) : (recv[c] \o s)[k] = recv[c][k]
          /\ \A k \in 1..Len(s) : (recv[c] \o s)[Len(recv[c]) + k] = s[k]
      BY <1>1, ConcatFacts
    <3> QED BY <1>4, <3>1, Zenon
  <2>2. CASE i \in 1..Len(recv[c])
    BY <1>0, <1>2, <2>1, <2>2 DEF ShownInv
  <2>3. CASE i \notin 1..Len(recv[c])
    <3>1. i - Len(recv[c]) \in 1..Len(s) /\ Len(recv[c]) + (i - Len(recv[c])) = i
      BY <1>1, <2>1, <2>3
    <3>2. recv'[c][i] = s[i - Len(recv[c])]
      BY <2>1, <3>1
    <3> QED BY <1>2, <1>4, <3>1, <3>2
  <2> QED BY <2>2, <2>3
<1>5. ASSUME NEW p \in Pumps, WriteWS(p), recv'[c] = recv[c] \o <<Held(p)>>
      PROVE  ShownInv(c)'
  <2>1. Held(p) \in Chunks /\ \E j \in 1..Len(rung) : Held(p) = rung[j]
    <3>1. count \in [Pumps -> Nat]
      BY <1>0 DEF TypeOK
    <3>2. \E j \in 1..Len(rung) : Held(p) = rung[j]
      BY <1>0, <1>5 DEF PumpInv, WriteWS, PumpTo
    <3> QED BY <3>1, <3>2, HeldFacts
  <2>2. /\ <<Held(p)>> \in Seq(Chunks)
        /\ \A i \in 1..Len(<<Held(p)>>) : <<Held(p)>>[i] = Held(p)
    BY <2>1
  <2> QED BY <1>4, <1>5, <2>1, <2>2
<1>6. ASSUME Paint(c), recv'[c] = recv[c] \o painting[c]
      PROVE  ShownInv(c)'
  <2>1. \A i \in 1..Len(painting[c]) : \E j \in 1..Len(rung) : painting[c][i] = rung[j]
    <3> TAKE i \in 1..Len(painting[c])
    <3>1. painting[c][i] = rung[since[c] + i] /\ since[c] + Len(painting[c]) <= Len(rung)
      BY <1>0, <1>6 DEF PaintInv, Paint
    <3>2. since[c] + i \in 1..Len(rung)
      BY <1>1, <3>1
    <3> QED BY <3>1, <3>2
  <2> QED BY <1>1, <1>4, <1>6, <2>1
<1> QED BY <1>3, <1>5, <1>6, RecvStep

\* While a handler repaints, nobody else sends to its browser.
LEMMA PaintNext ==
  ASSUME Inv, [Next]_vars, NEW c \in Conns
  PROVE  PaintInv(c)'
<1>0. TypeOK /\ ShownInv(c) /\ PaintInv(c) /\ RingInv /\ \A p \in Pumps : PumpInv(p)
  BY DEF Inv
<1>1. /\ hpc \in [Conns -> {"new", "bound", "paint", "input", "gone"}]
      /\ painting \in [Conns -> Seq(Chunks)] /\ since \in [Conns -> Nat]
      /\ recv \in [Conns -> Seq(Chunks)] /\ ring \in Seq(Chunks)
  BY <1>0 DEF TypeOK
<1>2. since[c] \in Nat /\ Len(rung) \in Nat /\ Len(painting[c]) \in Nat /\ Len(ring) \in Nat
  BY <1>1, SentFacts
<1>3. /\ Len(rung') \in Nat /\ Len(rung) <= Len(rung')
      /\ \A i \in 1..Len(rung) : rung'[i] = rung[i]
  BY RungGrows
<1>4. CASE Snapshot(c)
  <2>1. wmu' = c /\ painting'[c] = ring /\ rung' = rung /\ recv' = recv /\ hpc'[c] = "paint"
    BY <1>1, <1>4 DEF Snapshot, ringVars, wireVars
  <2>2. since'[c] = IF Len(rung) > RingCap THEN Len(rung) - RingCap ELSE 0
    BY <1>1, <1>4 DEF Snapshot
  <2>3. since'[c] = Len(rung) - Len(ring) /\ since'[c] + Len(ring) = Len(rung)
    BY <1>0, <1>1, <1>2, <2>2, RingAssumption DEF RingInv
  <2>4. \A i \in 1..Len(painting'[c]) : painting'[c][i] = rung'[since'[c] + i]
    BY <1>0, <2>1, <2>3 DEF RingInv
  <2>5. since'[c] + Len(painting'[c]) = Len(rung') /\ since'[c] + Len(painting'[c]) <= Len(rung')
    BY <1>2, <2>1, <2>3
  <2>6. \A i \in 1..Len(recv'[c]) : \E j \in 1..(since'[c] + Len(painting'[c])) : recv'[c][i] = rung'[j]
    BY <1>0, <2>1, <2>5 DEF ShownInv
  <2> QED BY <2>1, <2>4, <2>5, <2>6 DEF PaintInv
<1>5. CASE Bind(c) \/ Paint(c) \/ Detach(c)
  <2>1. hpc'[c] # "paint"
    BY <1>1, <1>5 DEF Bind, Paint, Detach
  <2> QED BY <2>1 DEF PaintInv
<1>6. CASE ~Handler(c)
  <2> SUFFICES ASSUME hpc'[c] = "paint"
               PROVE  PaintInv(c)'
    BY DEF PaintInv
  <2>1. hpc[c] = "paint" /\ painting'[c] = painting[c] /\ since'[c] = since[c]
    BY <1>0, <1>6, HandlerFrame
  <2>2. /\ wmu = c /\ since[c] + Len(painting[c]) <= Len(rung)
        /\ \A i \in 1..Len(painting[c]) : painting[c][i] = rung[since[c] + i]
        /\ \A i \in 1..Len(recv[c]) : \E j \in 1..(since[c] + Len(painting[c])) : recv[c][i] = rung[j]
    BY <1>0, <2>1 DEF PaintInv
  <2>3. c # Nobody /\ c \notin Pumps /\ ~Paint(c)
    BY <1>6, NobodyAssumption, DisjointAssumption DEF Handler
  <2>4. wmu' = c
    BY <2>2, <2>3, MutexKept
  <2>5. recv'[c] = recv[c]
    <3>1. ASSUME NEW p \in Pumps, WriteWS(p)
          PROVE  FALSE
      <4>1. wmu = p
        BY <1>0, <3>1 DEF WriteWS, PumpTo, PumpInv
      <4> QED BY <2>2, <2>3, <4>1
    <3> QED BY <2>3, <3>1, RecvStep
  <2>6. \A i \in 1..Len(painting'[c]) : painting'[c][i] = rung'[since'[c] + i]
    <3> TAKE i \in 1..Len(painting'[c])
    <3>1. i \in 1..Len(painting[c]) /\ since[c] + i \in 1..Len(rung)
      BY <1>2, <2>1, <2>2
    <3>2. rung'[since[c] + i] = rung[since[c] + i]
      BY <1>3, <3>1
    <3> QED BY <2>1, <2>2, <3>1, <3>2
  <2>7. \A j \in 1..(since[c] + Len(painting[c])) : rung'[j] = rung[j]
    BY <1>2, <1>3, <2>2
  <2>8. \A i \in 1..Len(recv'[c]) : \E j \in 1..(since'[c] + Len(painting'[c])) : recv'[c][i] = rung'[j]
    BY <2>1, <2>2, <2>5, <2>7
  <2>9. since'[c] + Len(painting'[c]) <= Len(rung')
    BY <1>2, <1>3, <2>1, <2>2
  <2> QED BY <2>4, <2>6, <2>8, <2>9 DEF PaintInv
<1> QED BY <1>4, <1>5, <1>6 DEF Handler

-----------------------------------------------------------------------------
\* A pump that sends to c goes on to, or has just sent.
LEMMA SendsNext ==
  ASSUME Inv, [Next]_vars, NEW c \in Conns, NEW p \in Pumps, SendsTo(p, c), ws' = c
  PROVE  \/ Held(p)' = Held(p) /\ SendsTo(p, c)'
         \/ WriteWS(p) /\ to[p] = c
<1>0. TypeOK /\ PumpInv(p)
  BY DEF Inv
<1>1. /\ ppc \in [Pumps -> {"read", "record", "ring", "load", "lock", "write", "done"}]
      /\ to \in [Pumps -> Conns \cup {Nobody}] /\ c # Nobody
  BY <1>0, NobodyAssumption DEF TypeOK
<1>2. CASE ~Pump(p)
  <2>1. ppc'[p] = ppc[p] /\ count'[p] = count[p] /\ to'[p] = to[p]
    BY <1>0, <1>2, PumpFrame
  <2> QED BY <2>1 DEF SendsTo, Held
<1>3. CASE Read(p) \/ RecordOutput(p) \/ RingWrite(p) \/ PumpEnds(p)
  BY <1>3 DEF Read, RecordOutput, RingWrite, PumpEnds, PumpTo, SendsTo
<1>4. CASE LoadWS(p)
  <2>1. ppc[p] = "load" /\ to'[p] = ws /\ ws' = ws /\ Held(p)' = Held(p)
    BY <1>1, <1>4 DEF LoadWS, PumpTo, connVars, Held
  <2>2. ws = c
    BY <2>1
  <2>3. ppc'[p] = "lock"
    BY <1>1, <1>4, <2>2 DEF LoadWS, PumpTo
  <2> QED BY <2>1, <2>2, <2>3 DEF SendsTo
<1>5. CASE LockWS(p)
  <2>1. ppc[p] = "lock" /\ ppc'[p] = "write" /\ to' = to /\ Held(p)' = Held(p)
    BY <1>1, <1>5 DEF LockWS, PumpTo, Held
  <2>2. to[p] = c
    BY <2>1 DEF SendsTo
  <2> QED BY <2>1, <2>2 DEF SendsTo
<1>6. CASE WriteWS(p)
  <2>1. ppc[p] = "write"
    BY <1>6 DEF WriteWS, PumpTo
  <2> QED BY <1>6, <2>1 DEF SendsTo
<1> QED BY <1>2, <1>3, <1>4, <1>5, <1>6 DEF Pump

\* A chunk that comes to the ring will be sent to the socket that is bound.
LEMMA RingSends ==
  ASSUME TypeOK, NEW c \in Conns, NEW p \in Pumps, RingWrite(p), ws' = c
  PROVE  Held(p)' = Held(p) /\ SendsTo(p, c)'
<1>1. ppc \in [Pumps -> {"read", "record", "ring", "load", "lock", "write", "done"}]
  BY DEF TypeOK
<1>2. ppc'[p] = "load" /\ count' = count
  BY <1>1 DEF RingWrite, PumpTo
<1> QED BY <1>2 DEF SendsTo, Held

\* What the snapshot of the last browser does not hold is on its way to it.
LEMMA SnapNext ==
  ASSUME Inv, [Next]_vars, NEW c \in Conns
  PROVE  SnapInv(c)'
<1>0. TypeOK /\ SnapInv(c) /\ PaintInv(c) /\ RingInv /\ \A p \in Pumps : PumpInv(p)
  BY DEF Inv
<1>1. /\ hpc \in [Conns -> {"new", "bound", "paint", "input", "gone"}]
      /\ painting \in [Conns -> Seq(Chunks)] /\ since \in [Conns -> Nat]
      /\ ring \in Seq(Chunks)
  BY <1>0 DEF TypeOK
<1>2. Len(rung) \in Nat /\ since[c] \in Nat /\ Len(ring) \in Nat
  BY <1>1, SentFacts
<1>3. CASE Snapshot(c)
  <2>1. painting'[c] = ring /\ rung' = rung
    BY <1>1, <1>3 DEF Snapshot, ringVars
  <2>2. since'[c] = IF Len(rung) > RingCap THEN Len(rung) - RingCap ELSE 0
    BY <1>1, <1>3 DEF Snapshot
  <2>3. since'[c] = Len(rung) - Len(ring) /\ since'[c] \in Nat
    BY <1>0, <1>1, <1>2, <2>2, RingAssumption DEF RingInv
  <2>4. \A i \in (since'[c] + 1)..Len(rung') : rung'[i] \in Elements(painting'[c])
    <3> TAKE i \in (since'[c] + 1)..Len(rung')
    <3>1. i - since'[c] \in 1..Len(ring) /\ Len(rung) - Len(ring) + (i - since'[c]) = i
      BY <1>1, <1>2, <2>1, <2>3
    <3>2. ring[i - since'[c]] = rung[i]
      BY <1>0, <3>1 DEF RingInv
    <3>3. rung[i] \in Elements(ring)
      BY <1>1, <3>1, <3>2, ElementFacts
    <3> QED BY <2>1, <3>3
  <2> QED BY <2>4 DEF SnapInv
<1>4. CASE Bind(c) \/ Paint(c) \/ Detach(c)
  <2>1. hpc'[c] # "paint"
    BY <1>1, <1>4 DEF Bind, Paint, Detach
  <2> QED BY <2>1 DEF SnapInv
<1>5. CASE ~Handler(c)
  <2> SUFFICES ASSUME newest' = c, hpc'[c] = "paint", NEW i \in (since'[c] + 1)..Len(rung')
               PROVE  \/ rung'[i] \in Elements(painting'[c])
                      \/ \E p \in Pumps : rung'[i] = Held(p)' /\ SendsTo(p, c)'
    BY DEF SnapInv
  <2>1. hpc[c] = "paint" /\ painting'[c] = painting[c] /\ since'[c] = since[c]
    BY <1>0, <1>5, HandlerFrame
  <2>2. newest = c /\ ws' = c
    BY <1>5, BoundNext DEF Handler, BoundInv
  <2>3. wmu = c /\ c \notin Pumps
    BY <1>0, <2>1, DisjointAssumption DEF PaintInv
  <2>4. ASSUME NEW p \in Pumps, WriteWS(p)
        PROVE  FALSE
    <3>1. wmu = p
      BY <1>0, <2>4 DEF WriteWS, PumpTo, PumpInv
    <3> QED BY <2>3, <3>1
  <2>5. i \in 1..Len(rung')
    BY <1>2, <2>1
  <2>6. ASSUME i \in 1..Len(rung), rung'[i] = rung[i]
        PROVE  \/ rung'[i] \in Elements(painting'[c])
               \/ \E p \in Pumps : rung'[i] = Held(p)' /\ SendsTo(p, c)'
    <3>1. i \in (since[c] + 1)..Len(rung)
      BY <1>2, <2>1, <2>6
    <3>2. \/ rung[i] \in Elements(painting[c])
          \/ \E p \in Pumps : rung[i] = Held(p) /\ SendsTo(p, c)
      BY <1>0, <2>1, <2>2, <3>1 DEF SnapInv
    <3>3. ASSUME NEW p \in Pumps, rung[i] = Held(p), SendsTo(p, c)
          PROVE  rung'[i] = Held(p)' /\ SendsTo(p, c)'
      BY <2>2, <2>4, <2>6, <3>3, SendsNext
    <3> QED BY <2>1, <2>6, <3>2, <3>3
  <2>7. ASSUME NEW p \in Pumps, RingWrite(p), rung'[i] = Held(p)
        PROVE  rung'[i] = Held(p)' /\ SendsTo(p, c)'
    BY <1>0, <2>2, <2>7, RingSends
  <2> QED BY <2>5, <2>6, <2>7, RungStep
<1> QED BY <1>3, <1>4, <1>5 DEF Handler

\* The browser that attached last misses nothing.
LEMMA LostNext ==
  ASSUME Inv, [Next]_vars
  PROVE  NoOutputLost'
<1>0. TypeOK /\ NoOutputLost /\ \A p \in Pumps : PumpInv(p)
  BY DEF Inv
<1>1. /\ hpc \in [Conns -> {"new", "bound", "paint", "input", "gone"}]
      /\ since \in [Conns -> Nat] /\ recv \in [Conns -> Seq(Chunks)]
      /\ sock \in [Conns -> {"open", "stalled", "closed"}]
  BY <1>0 DEF TypeOK
<1> SUFFICES ASSUME NEW c \in Conns, newest' = c, hpc'[c] = "input", sock'[c] # "closed",
                    NEW i \in (since'[c] + 1)..Len(rung')
             PROVE  \/ rung'[i] \in Elements(recv'[c])
                    \/ \E p \in Pumps : rung'[i] = Held(p)' /\ SendsTo(p, c)'
  BY DEF NoOutputLost
<1>2. SnapInv(c) /\ PaintInv(c)
  BY DEF Inv
<1>3. /\ recv[c] \in Seq(Chunks) /\ painting[c] \in Seq(Chunks) /\ since[c] \in Nat /\ Len(rung) \in Nat
  BY SentFacts
<1>4. sock[c] # "closed"
  <2>1. sock[c] = "closed" => sock'[c] = "closed"
    BY <1>1 DEF Next, Pump, Handler, Read, RecordOutput, RingWrite, LoadWS, LockWS, WriteWS, PumpEnds, Bind,
                Snapshot, Paint, Detach, BrowserStalls, BrowserDrops, BeginEnd, Flush, CloseWS, wireVars, vars
  <2> QED BY <1>1, <2>1
<1>5. ASSUME NEW s \in Seq(Chunks), NEW x, recv'[c] = recv[c] \o s,
             x \in Elements(recv[c]) \/ x \in Elements(s)
      PROVE  x \in Elements(recv'[c])
  <2>1. /\ recv[c] \o s \in Seq(Chunks) /\ Len(recv[c]) \in Nat /\ Len(s) \in Nat
        /\ Len(recv[c] \o s) = Len(recv[c]) + Len(s)
        /\ \A k \in 1..Len(recv[c]) : (recv[c] \o s)[k] = recv[c][k]
        /\ \A k \in 1..Len(s) : (recv[c] \o s)[Len(recv[c]) + k] = s[k]
    BY <1>3, ConcatFacts
  <2>2. \/ \E k \in 1..Len(recv[c]) : recv[c][k] = x
        \/ \E k \in 1..Len(s) : s[k] = x
    BY <1>3, <1>5, ElementFacts
  <2>3. \E k \in 1..Len(recv[c] \o s) : (recv[c] \o s)[k] = x
    <3>1. ASSUME NEW k \in 1..Len(recv[c]), recv[c][k] = x
          PROVE  k \in 1..Len(recv[c] \o s) /\ (recv[c] \o s)[k] = x
      BY <2>1, <3>1
    <3>2. ASSUME NEW k \in 1..Len(s), s[k] = x
          PROVE  Len(recv[c]) + k \in 1..Len(recv[c] \o s) /\ (recv[c] \o s)[Len(recv[c]) + k] = x
      BY <2>1, <3>2
    <3> QED BY <2>2, <3>1, <3>2
  <2>4. x \in Elements(recv[c] \o s)
    BY <2>1, <2>3, ElementFacts
  <2> QED BY <1>5, <2>4
<1>6. ASSUME NEW x, x \in Elements(recv[c])
      PROVE  x \in Elements(recv'[c])
  <2>1. ASSUME NEW p \in Pumps, recv'[c] = recv[c] \o <<Held(p)>>
        PROVE  x \in Elements(recv'[c])
    <3>1. count \in [Pumps -> Nat]
      BY <1>0 DEF TypeOK
    <3>2. <<Held(p)>> \in Seq(Chunks)
      BY <3>1, HeldFacts
    <3> QED BY <1>5, <1>6, <2>1, <3>2
  <2>2. CASE recv'[c] = recv[c] \o painting[c]
    BY <1>3, <1>5, <1>6, <2>2
  <2> QED BY <1>6, <2>1, <2>2, RecvStep
<1>7. CASE Paint(c)
  <2>1. /\ hpc[c] = "paint" /\ since' = since /\ newest' = newest /\ rung' = rung /\ ws' = ws
        /\ ppc' = ppc /\ to' = to /\ count' = count
    BY <1>7 DEF Paint, ringVars, pumpVars
  <2>2. recv'[c] = recv[c] \o painting[c]
    <3>1. Send(c, painting[c])
      BY <1>7 DEF Paint
    <3>2. recv \in [Conns -> Seq(Chunks)]
      BY <1>1
    <3> QED BY <1>4, <3>1, <3>2, SendFacts
  <2>3. \/ rung[i] \in Elements(painting[c])
        \/ \E p \in Pumps : rung[i] = Held(p) /\ SendsTo(p, c)
    BY <1>2, <2>1 DEF SnapInv
  <2>4. ASSUME NEW p \in Pumps, rung[i] = Held(p), SendsTo(p, c)
        PROVE  rung'[i] = Held(p)' /\ SendsTo(p, c)'
    BY <2>1, <2>4 DEF Held, SendsTo
  <2> QED BY <1>3, <1>5, <2>1, <2>2, <2>3, <2>4
<1>8. CASE Bind(c) \/ Snapshot(c) \/ Detach(c)
  BY <1>1, <1>8 DEF Bind, Snapshot, Detach
<1>9. CASE ~Handler(c)
  <2>1. hpc[c] = "input" /\ since'[c] = since[c]
    BY <1>0, <1>9, HandlerFrame
  <2>2. newest = c /\ ws' = c
    BY <1>9, BoundNext DEF Handler, BoundInv
  <2>3. i \in 1..Len(rung')
    BY <1>3, <2>1
  <2>4. ASSUME i \in 1..Len(rung), rung'[i] = rung[i]
        PROVE  \/ rung'[i] \in Elements(recv'[c])
               \/ \E p \in Pumps : rung'[i] = Held(p)' /\ SendsTo(p, c)'
    <3>1. i \in (since[c] + 1)..Len(rung)
      BY <1>3, <2>1, <2>4
    <3>2. \/ rung[i] \in Elements(recv[c])
          \/ \E p \in Pumps : rung[i] = Held(p) /\ SendsTo(p, c)
      BY <1>0, <1>4, <2>1, <2>2, <3>1 DEF NoOutputLost
    <3>3. ASSUME NEW p \in Pumps, rung[i] = Held(p), SendsTo(p, c)
          PROVE  \/ rung'[i] \in Elements(recv'[c])
                 \/ rung'[i] = Held(p)' /\ SendsTo(p, c)'
      <4>1. ASSUME WriteWS(p), to[p] = c
            PROVE  rung[i] \in Elements(recv'[c])
        <5>1. count \in [Pumps -> Nat]
          BY <1>0 DEF TypeOK
        <5>2. Held(p) \in Chunks
          BY <5>1, HeldFacts
        <5>3. <<Held(p)>> \in Seq(Chunks) /\ Len(<<Held(p)>>) = 1 /\ <<Held(p)>>[1] = Held(p)
          BY <5>2
        <5>4. Held(p) \in Elements(<<Held(p)>>)
          <6>1. \E k \in 1..Len(<<Held(p)>>) : <<Held(p)>>[k] = Held(p)
            BY <5>3
          <6> QED BY <5>3, <6>1, ElementFacts
        <5>5. recv'[c] = recv[c] \o <<Held(p)>>
          <6>1. Send(c, <<Held(p)>>)
            BY <4>1 DEF WriteWS
          <6>2. recv \in [Conns -> Seq(Chunks)]
            BY <1>1
          <6> QED BY <1>4, <6>1, <6>2, SendFacts
        <5> QED BY <1>5, <3>3, <5>3, <5>4, <5>5
      <4> QED BY <2>2, <2>4, <3>3, <4>1, SendsNext
    <3> QED BY <1>6, <2>4, <3>2, <3>3
  <2>5. ASSUME NEW p \in Pumps, RingWrite(p), rung'[i] = Held(p)
        PROVE  rung'[i] = Held(p)' /\ SendsTo(p, c)'
    BY <1>0, <2>2, <2>5, RingSends
  <2> QED BY <2>3, <2>4, <2>5, RungStep
<1> QED BY <1>7, <1>8, <1>9 DEF Handler

\* What is sent keeps the screen in order.
LEMMA OrderNext ==
  ASSUME Inv, [Next]_vars
  PROVE  ScreenEndsInOrder'
<1>0. TypeOK /\ RungInv /\ ScreenEndsInOrder /\ \A p \in Pumps : PumpInv(p)
  BY DEF Inv
<1>1. count \in [Pumps -> Nat]
  BY <1>0 DEF TypeOK
<1> SUFFICES ASSUME NEW c \in Conns
             PROVE  EndsInOrder(recv'[c])
  BY DEF ScreenEndsInOrder, EndsInOrder
<1>2. EndsInOrder(recv[c]) /\ ShownInv(c) /\ PaintInv(c)
  BY <1>0 DEF Inv, ScreenEndsInOrder
<1>3. /\ recv[c] \in Seq(Chunks) /\ painting[c] \in Seq(Chunks) /\ since[c] \in Nat /\ Len(rung) \in Nat
      /\ Len(painting[c]) \in Nat /\ Len(recv[c]) \in Nat
      /\ \A i \in 1..Len(rung) : rung[i] \in Chunks
  BY SentFacts
<1>4. ASSUME NEW p \in Pumps, WriteWS(p), recv'[c] = recv[c] \o <<Held(p)>>
      PROVE  EndsInOrder(recv'[c])
  <2>1. Held(p) \in Chunks /\ Held(p)[1] = p /\ Held(p)[2] = count[p]
    BY <1>1, HeldFacts
  <2>2. <<Held(p)>> \in Seq(Chunks) /\ Len(<<Held(p)>>) = 1 /\ <<Held(p)>>[1] = Held(p)
    BY <2>1
  <2>3. ASSUME NEW i \in 1..Len(recv[c]), recv[c][i][1] = p, count[p] <= recv[c][i][2]
        PROVE  Held(p) = recv[c][i]
    <3>1. PICK j \in 1..Len(rung) : recv[c][i] = rung[j]
      BY <1>2 DEF ShownInv
    <3>2. rung[j][2] <= count[p]
      BY <1>0, <2>3, <3>1 DEF PumpInv
    <3>3. rung[j] \in Chunks /\ rung[j][2] \in Nat
      BY <1>3, ChunkFacts
    <3>4. rung[j][2] = count[p]
      BY <1>1, <2>3, <3>1, <3>2, <3>3
    <3> QED BY <2>1, <2>3, <3>1, <3>3, <3>4, ChunkFacts
  <2>4. \A i, j \in 1..Len(<<Held(p)>>) : ~(i < j)
    BY <2>2
  <2>5. \A i \in 1..Len(recv[c]), k \in 1..Len(<<Held(p)>>) :
          recv[c][i][1] = <<Held(p)>>[k][1] /\ <<Held(p)>>[k][2] <= recv[c][i][2] =>
            \E m \in 1..Len(<<Held(p)>>) : <<Held(p)>>[m] = recv[c][i]
    <3> TAKE i \in 1..Len(recv[c]), k \in 1..Len(<<Held(p)>>)
    <3>1. k = 1 /\ 1 \in 1..Len(<<Held(p)>>) /\ <<Held(p)>>[k] = Held(p)
      BY <2>2
    <3> QED BY <2>1, <2>3, <3>1
  <2>6. EndsInOrder(recv[c] \o <<Held(p)>>)
    BY <1>2, <1>3, <2>2, <2>4, <2>5, OrderKept
  <2> QED BY <1>4, <2>6
<1>5. ASSUME Paint(c), recv'[c] = recv[c] \o painting[c]
      PROVE  EndsInOrder(recv'[c])
  <2>1. /\ since[c] + Len(painting[c]) <= Len(rung)
        /\ \A i \in 1..Len(painting[c]) : painting[c][i] = rung[since[c] + i]
        /\ \A i \in 1..Len(recv[c]) : \E j \in 1..(since[c] + Len(painting[c])) : recv[c][i] = rung[j]
    BY <1>2, <1>5 DEF Paint, PaintInv
  <2>2. \A i \in 1..Len(painting[c]) : since[c] + i \in 1..Len(rung)
    BY <1>3, <2>1
  <2>3. ASSUME NEW i \in 1..Len(painting[c]), NEW j \in 1..Len(painting[c]), i < j,
               painting[c][i][1] = painting[c][j][1]
        PROVE  painting[c][i][2] < painting[c][j][2]
    <3>1. since[c] + i < since[c] + j
      BY <1>3, <2>3
    <3> QED BY <1>0, <2>1, <2>2, <2>3, <3>1 DEF RungInv
  <2>4. ASSUME NEW i \in 1..Len(recv[c]), NEW k \in 1..Len(painting[c]),
               recv[c][i][1] = painting[c][k][1], painting[c][k][2] <= recv[c][i][2]
        PROVE  \E m \in 1..Len(painting[c]) : painting[c][m] = recv[c][i]
    <3>1. PICK j \in 1..(since[c] + Len(painting[c])) : recv[c][i] = rung[j]
      BY <2>1
    <3>2. j \in 1..Len(rung)
      BY <1>3, <2>1
    <3>3. painting[c][k] = rung[since[c] + k] /\ since[c] + k \in 1..Len(rung)
      BY <2>1, <2>2
    <3>4. rung[j][2] \in Nat /\ rung[since[c] + k][2] \in Nat
      BY <1>3, <3>2, <3>3, ChunkFacts
    <3>5. ~(j < since[c] + k)
      BY <1>0, <2>4, <3>1, <3>2, <3>3, <3>4 DEF RungInv
    <3>6. j - since[c] \in 1..Len(painting[c]) /\ since[c] + (j - since[c]) = j
      BY <1>3, <3>5
    <3> QED BY <2>1, <3>1, <3>6
  <2>5. EndsInOrder(recv[c] \o painting[c])
    BY <1>2, <1>3, <2>3, <2>4, OrderKept
  <2> QED BY <1>5, <2>5
<1> QED BY <1>2, <1>4, <1>5, RecvStep

-----------------------------------------------------------------------------
\* The initial states satisfy the invariant.
LEMMA InvInit == Init => Inv
<1> SUFFICES ASSUME Init PROVE Inv
  OBVIOUS
<1>1. TypeOK
  BY RingAssumption DEF Init, TypeOK
<1>2. Len(rung) = 0 /\ Len(ring) = 0 /\ \A c \in Conns : recv[c] = <<>> /\ hpc[c] = "new"
  BY DEF Init
<1>3. RungInv /\ RingInv
  BY <1>2, RingAssumption DEF RungInv, RingInv
<1>4. NoOutputLost
  BY <1>2 DEF NoOutputLost
<1>5. ScreenEndsInOrder
  <2>1. EndsInOrder(<<>>)
    BY DEF EndsInOrder
  <2> QED BY <1>2, <2>1 DEF ScreenEndsInOrder
<1>6. \A p \in Pumps : PumpInv(p)
  <2>1. \A p \in Pumps : ppc[p] = "read" /\ to[p] = Nobody
    BY DEF Init
  <2> QED BY <1>2, <2>1 DEF PumpInv
<1>7. \A c \in Conns : PaintInv(c) /\ BoundInv(c) /\ SnapInv(c)
  BY <1>2 DEF PaintInv, BoundInv, SnapInv
<1>8. \A c \in Conns : ShownInv(c)
  BY <1>2 DEF ShownInv
<1> QED BY <1>1, <1>3, <1>4, <1>5, <1>6, <1>7, <1>8 DEF Inv

\* The invariant holds in every reachable state.
LEMMA InvAlways == Spec => []Inv
<1>1. Inv /\ [Next]_vars => Inv'
  <2> SUFFICES ASSUME Inv, [Next]_vars PROVE Inv'
    OBVIOUS
  <2>1. \A p \in Pumps : PumpInv(p)'
    BY PumpNext
  <2>2. \A c \in Conns : PaintInv(c)' /\ ShownInv(c)' /\ BoundInv(c)' /\ SnapInv(c)'
    BY PaintNext, ShownNext, BoundNext, SnapNext
  <2> QED BY <2>1, <2>2, TypeNext, RungNext, LostNext, OrderNext DEF Inv
<1> QED BY <1>1, InvInit, PTL DEF Spec

-----------------------------------------------------------------------------
\* Every variable of the output path keeps its type, and the ring its capacity.
THEOREM TypeCorrect == Spec => []TypeOK
<1>1. Inv => TypeOK
  BY DEF Inv
<1> QED BY <1>1, InvAlways, PTL

\* However attach, a late detach and the pumps interleave, the browser that
\* attached last is sent every chunk from its repaint on.
THEOREM NoOutputIsLost == Spec => []NoOutputLost
<1>1. Inv => NoOutputLost
  BY DEF Inv
<1> QED BY <1>1, InvAlways, PTL

\* However often the repaint repeats what was sent live, each stream's chunks are
\* shown for the last time in the order in which the shell wrote them.
THEOREM ScreensEndInOrder == Spec => []ScreenEndsInOrder
<1>1. Inv => ScreenEndsInOrder
  BY DEF Inv
<1> QED BY <1>1, InvAlways, PTL

\* pump records a chunk before it is shown, live or in a repaint: every browser
\* has seen only what is in Recorder.lines.
THEOREM RecordedFirst == Spec => []RecordedBeforeShown
<1>1. Inv => RecordedBeforeShown
  <2> SUFFICES ASSUME Inv, NEW c \in Conns, NEW x \in Elements(recv[c])
               PROVE  x \in cast
    BY DEF RecordedBeforeShown
  <2>1. recv[c] \in Seq(Chunks)
    BY SentFacts
  <2>2. PICK i \in 1..Len(recv[c]) : recv[c][i] = x
    BY <2>1, ElementFacts
  <2>3. ShownInv(c) /\ RungInv
    BY DEF Inv
  <2> QED BY <2>2, <2>3 DEF ShownInv, RungInv
<1> QED BY <1>1, InvAlways, PTL

(***************************************************************************)
(* The audit chain.                                                        *)
(***************************************************************************)

\* The hash that the next row has to link to.
LatestHash == IF rows = <<>> THEN Empty ELSE Last(rows).hash

\* Whoever is inside Append holds auditlog.mu.
AppendsLocked == \A a \in Appenders : apc[a] # "idle" <=> mu = a

\* No row without a hash follows one that has one.
ChainedFromThere ==
  \A i, j \in 1 .. Len(rows) : (i < j /\ Hashed(rows, i)) => Hashed(rows, j)

\* What Append read as the latest hash is still that of the latest row.
ReadIsLatest == \A a \in Appenders : (apc[a] = "read" /\ ~misread) => prev[a] = LatestHash

AuditInv ==
  /\ AuditTypeOK /\ AppendsLocked /\ ChainedFromThere /\ ReadIsLatest
  /\ OwnLogVerifies

\* A set of numbers that is not empty has a least element.
LEMMA LeastNumber ==
  \A T \in SUBSET Nat : T # {} => \E m \in T : \A n \in T : m <= n
<1> DEFINE R == OpToRel(<, Nat)
<1>1. IsWellFoundedOn(R, Nat)
  BY NatLessThanWellFounded
<1>2. \A x, y \in Nat : x < y => <<x, y>> \in R
  BY DEF OpToRel
<1> SUFFICES ASSUME NEW T \in SUBSET Nat, T # {}
             PROVE \E m \in T : \A n \in T : m <= n
  OBVIOUS
<1> HIDE DEF R
<1>3. PICK m \in T : \A y \in T : ~ (<<y, m>> \in R)
  BY <1>1, WFMin
<1>4. \A n \in T : n \in Nat /\ m \in Nat
  OBVIOUS
<1>5. ASSUME NEW n \in T PROVE m <= n
  <2>1. n \in Nat /\ m \in Nat /\ ~(n < m)
    BY <1>2, <1>3, <1>4
  <2> QED BY <2>1
<1> QED BY <1>5

\* chainHash is a hash: it is never the empty string, it is one longer chain
\* than the one it extends, and different texts have different hashes.
LEMMA ChainHashFacts ==
  ASSUME NEW p \in Seq(Texts), NEW c \in Contents
  PROVE  /\ chainHash(p, c) \in Seq(Texts)
         /\ chainHash(p, c) # Empty
         /\ Len(chainHash(p, c)) = Len(p) + 1
         /\ \A d \in Contents : chainHash(p, d) = chainHash(p, c) => Text(d) = Text(c)
<1>1. PICK t \in Texts : t = Text(c)
  BY DEF Texts
<1>2. Append(p, t) \in Seq(Texts) /\ Len(Append(p, t)) = Len(p) + 1 /\ Len(p) \in Nat
  OBVIOUS
<1>3. Append(p, t) # <<>>
  <2>1. Len(<<>>) = 0
    OBVIOUS
  <2> QED BY <1>2, <2>1
<1>4. ASSUME NEW d \in Contents, Append(p, Text(d)) = Append(p, t) PROVE Text(d) = t
  <2>1. PICK u \in Texts : u = Text(d)
    BY DEF Texts
  <2>2. Append(p, u)[Len(p) + 1] = u /\ Append(p, t)[Len(p) + 1] = t
    OBVIOUS
  <2> QED BY <2>1, <2>2, <1>4
<1> QED BY <1>1, <1>2, <1>3, <1>4 DEF chainHash, Empty

\* The row that Append writes.
LEMMA ChainedRowType ==
  ASSUME NEW p \in Seq(Texts), NEW e \in Events
  PROVE  /\ ChainedRow(p, e) \in Rows
         /\ ChainedRow(p, e).hash = chainHash(p, e.content)
         /\ ChainedRow(p, e).prev = p
         /\ ChainedRow(p, e).content = e.content
<1>1. e.content \in Contents /\ e.about \in Subjects
  BY DEF Events
<1>2. chainHash(p, e.content) \in Seq(Texts)
  BY <1>1, ChainHashFacts
<1> QED BY <1>1, <1>2 DEF ChainedRow, NewRow, Rows

\* A log of rows from before the chain satisfies the invariant.
LEMMA AuditInitInv == AuditInit => AuditInv
<1> SUFFICES ASSUME AuditInit PROVE AuditInv
  OBVIOUS
<1>1. PICK n \in 0..Legacy : rows \in [1..n -> {LegacyRow(e) : e \in Events}]
  BY DEF AuditInit
<1>2. n \in Nat
  BY BoundsAssumption
<1>3. Empty \in Seq(Texts)
  BY DEF Empty
<1>4. \A e \in Events : LegacyRow(e) \in Rows /\ LegacyRow(e).hash = Empty
  <2>1. \A e \in Events : e.content \in Contents /\ e.about \in Subjects
    BY DEF Events
  <2> QED BY <2>1, <1>3 DEF LegacyRow, NewRow, Rows
<1>5. rows \in Seq(Rows) /\ Len(rows) = n
  <2>1. rows \in [1..n -> Rows]
    BY <1>1, <1>4
  <2> QED BY <2>1, <1>2
<1>6. \A i \in 1..Len(rows) : ~Hashed(rows, i)
  BY <1>1, <1>4, <1>5 DEF Hashed
<1>7. (CHOOSE e \in Events : TRUE) \in Events
  <2>1. PICK c \in Contents, b \in Subjects : TRUE
    BY ContentsAssumption
  <2>2. [content |-> c, about |-> b] \in Events
    BY <2>1 DEF Events
  <2> QED BY <2>2
<1>8. AuditTypeOK
  <2>1. stored = 0 /\ sunk = 0 /\ misread = FALSE /\ mu = NoOne
    BY DEF AuditInit
  <2>2. sunk <= stored /\ stored <= Len(rows)
    BY <2>1, <1>5, <1>2
  <2>3. event \in [Appenders -> Events]
    BY <1>7 DEF AuditInit
  <2>4. prev \in [Appenders -> Seq(Texts)] /\ apc \in [Appenders -> {"idle", "locked", "read"}]
    BY <1>3 DEF AuditInit
  <2> QED BY <1>5, <2>1, <2>2, <2>3, <2>4 DEF AuditTypeOK
<1>9. AppendsLocked /\ ReadIsLatest
  BY NoOneAssumption DEF AuditInit, AppendsLocked, ReadIsLatest
<1>10. ChainedFromThere /\ OwnLogVerifies
  BY <1>6 DEF ChainedFromThere, OwnLogVerifies, Verify
<1> QED BY <1>8, <1>9, <1>10 DEF AuditInv

\* What a row links to depends on the rows before it.
LEMMA PrevHashOfPrefix ==
  ASSUME NEW r, NEW s, NEW i \in Nat, NEW h, \A k \in 1 .. i - 1 : r[k] = s[k],
         PrevHash(r, i, h)
  PROVE  PrevHash(s, i, h)
<1>1. \A k \in 1 .. i - 1 : Hashed(r, k) <=> Hashed(s, k)
  BY DEF Hashed
<1>2. CASE h = Empty /\ \A k \in 1 .. i - 1 : ~Hashed(r, k)
  BY <1>1, <1>2 DEF PrevHash
<1>3. CASE \E j \in 1 .. i - 1 : /\ Hashed(r, j) /\ h = r[j].hash
                                 /\ \A k \in j + 1 .. i - 1 : ~Hashed(r, k)
  <2>1. PICK j \in 1 .. i - 1 : /\ Hashed(r, j) /\ h = r[j].hash
                                /\ \A k \in j + 1 .. i - 1 : ~Hashed(r, k)
    BY <1>3
  <2>2. \A k \in j + 1 .. i - 1 : k \in 1 .. i - 1
    OBVIOUS
  <2>3. \A k \in j + 1 .. i - 1 : ~Hashed(s, k)
    BY <2>1, <2>2, <1>1
  <2>4. Hashed(s, j) /\ h = s[j].hash
    BY <2>1, <1>1
  <2> QED BY <2>3, <2>4 DEF PrevHash
<1> QED BY <1>2, <1>3 DEF PrevHash

\* Hashes, and what they link to, depend only on the rows up to there.
LEMMA PrefixVerifies ==
  ASSUME NEW r, NEW s, NEW n \in Nat,
         \A i \in 1..n : r[i] = s[i], Len(r) \in Nat, Len(r) >= n,
         \A i \in 1 .. Len(r) : Hashed(r, i) =>
           /\ PrevHash(r, i, r[i].prev)
           /\ r[i].hash = chainHash(r[i].prev, r[i].content)
  PROVE  \A i \in 1..n : Hashed(s, i) =>
           /\ PrevHash(s, i, s[i].prev)
           /\ s[i].hash = chainHash(s[i].prev, s[i].content)
<1> SUFFICES ASSUME NEW i \in 1..n, Hashed(s, i)
             PROVE  /\ PrevHash(s, i, s[i].prev)
                    /\ s[i].hash = chainHash(s[i].prev, s[i].content)
  OBVIOUS
<1>1. \A k \in 1..n : Hashed(r, k) <=> Hashed(s, k)
  BY DEF Hashed
<1>2. i \in 1..Len(r) /\ Hashed(r, i) /\ r[i] = s[i]
  BY <1>1
<1>3. PrevHash(r, i, s[i].prev) /\ s[i].hash = chainHash(s[i].prev, s[i].content)
  BY <1>2
<1>4. \A k \in 1 .. i - 1 : r[k] = s[k]
  OBVIOUS
<1>5. PrevHash(s, i, s[i].prev)
  BY <1>3, <1>4, PrevHashOfPrefix
<1> QED BY <1>3, <1>5

\* Append adds a row that links to the latest one: a log that verifies still does.
LEMMA AppendVerifies ==
  ASSUME NEW log \in Seq(Rows), Verify(log),
         \A i, j \in 1 .. Len(log) : (i < j /\ Hashed(log, i)) => Hashed(log, j),
         NEW e \in Events, NEW p \in Seq(Texts),
         p = IF log = <<>> THEN Empty ELSE Last(log).hash
  PROVE  Verify(Append(log, ChainedRow(p, e)))
<1> DEFINE new == Append(log, ChainedRow(p, e))
           n == Len(log)
<1>1. n \in Nat /\ Len(new) = n + 1 /\ new[n + 1] = ChainedRow(p, e)
      /\ \A i \in 1..n : new[i] = log[i]
  BY ChainedRowType
<1>2. \A i \in 1..n : Hashed(new, i) =>
        /\ PrevHash(new, i, new[i].prev)
        /\ new[i].hash = chainHash(new[i].prev, new[i].content)
  <2> HIDE DEF new
  <2>1. \A i \in 1 .. Len(log) : Hashed(log, i) =>
           /\ PrevHash(log, i, log[i].prev)
           /\ log[i].hash = chainHash(log[i].prev, log[i].content)
    BY Zenon DEF Verify
  <2>2. Len(log) \in Nat /\ Len(log) >= n /\ \A i \in 1..n : log[i] = new[i]
    BY <1>1
  <2> QED BY <1>1, <2>1, <2>2, PrefixVerifies
<1>3. \A i \in 1..n : Hashed(new, i) <=> Hashed(log, i)
  BY <1>1 DEF Hashed
<1>4. new[n + 1].prev = p /\ new[n + 1].hash = chainHash(new[n + 1].prev, new[n + 1].content)
  <2>1. new[n + 1].prev = p /\ new[n + 1].content = e.content
        /\ new[n + 1].hash = chainHash(p, e.content)
    BY <1>1, ChainedRowType
  <2> QED BY <2>1
<1>5. PrevHash(new, n + 1, p)
  <2> HIDE DEF new
  <2>1. CASE n = 0
    <3>1. log = <<>>
      BY <2>1
    <3>2. \A k \in 1 .. (n + 1) - 1 : ~Hashed(new, k)
      BY <2>1
    <3> QED BY <3>1, <3>2 DEF PrevHash
  <2>2. CASE n # 0
    <3>1. log # <<>> /\ p = log[n].hash /\ n \in 1..n
      BY <2>2, <1>1 DEF Last
    <3>2. CASE Hashed(log, n)
      <4>1. n \in 1 .. (n + 1) - 1 /\ \A k \in n + 1 .. (n + 1) - 1 : ~Hashed(new, k)
        BY <1>1, <3>1
      <4>2. Hashed(new, n) /\ p = new[n].hash
        BY <3>1, <3>2, <1>3, <1>1
      <4> QED BY <4>1, <4>2 DEF PrevHash
    <3>3. CASE ~Hashed(log, n)
      <4>1. \A k \in 1..n : ~Hashed(log, k)
        BY <3>1, <3>3, <1>1
      <4>2. p = Empty
        BY <3>1, <3>3 DEF Hashed
      <4>3. \A k \in 1 .. (n + 1) - 1 : k \in 1..n
        BY <1>1
      <4> QED BY <4>1, <4>2, <4>3, <1>3 DEF PrevHash
    <3> QED BY <3>2, <3>3
  <2> QED BY <2>1, <2>2
<1> HIDE DEF new
<1>6. \A i \in 1 .. Len(new) : i \in 1..n \/ i = n + 1
  BY <1>1
<1>7. Verify(new)
  BY <1>2, <1>4, <1>5, <1>6 DEF Verify
<1> QED BY <1>7 DEF new

\* Every step of Append and of Sink keeps the invariant.
LEMMA AuditStepInv ==
  ASSUME AuditInv, [AuditNext]_auditVars
  PROVE  AuditInv'
<1>1. /\ AuditTypeOK /\ AppendsLocked /\ ChainedFromThere /\ ReadIsLatest
      /\ OwnLogVerifies
  BY DEF AuditInv
<1>2. /\ rows \in Seq(Rows) /\ mu \in Appenders \cup {NoOne}
      /\ apc \in [Appenders -> {"idle", "locked", "read"}]
      /\ event \in [Appenders -> Events] /\ prev \in [Appenders -> Seq(Texts)]
      /\ misread \in BOOLEAN
      /\ stored \in Nat /\ sunk \in Nat /\ sunk <= stored /\ stored <= Len(rows)
  BY <1>1 DEF AuditTypeOK
<1>3. Len(rows) \in Nat
  BY <1>2
<1>4. rows' = rows => (ChainedFromThere' /\ LatestHash' = LatestHash)
  BY <1>1 DEF ChainedFromThere, LatestHash, Hashed, Last
<1>5. ASSUME NEW a \in Appenders, Lock(a) PROVE AuditInv'
  <2>1. /\ apc[a] = "idle" /\ mu = NoOne /\ mu' = a
        /\ apc' = [apc EXCEPT ![a] = "locked"]
        /\ rows' = rows /\ prev' = prev /\ stored' = stored /\ sunk' = sunk
        /\ misread' = misread
    BY <1>5 DEF Lock
  <2>2. event' \in [Appenders -> Events]
    <3>1. PICK e \in Events : event' = [event EXCEPT ![a] = e]
      BY <1>5 DEF Lock
    <3> QED BY <3>1, <1>2
  <2>3. AuditTypeOK'
    BY <2>1, <2>2, <1>2 DEF AuditTypeOK
  <2>4. AppendsLocked'
    <3>1. \A b \in Appenders : apc[b] = "idle"
      BY <1>1, <2>1, NoOneAssumption DEF AppendsLocked
    <3> QED BY <3>1, <2>1, <1>2 DEF AppendsLocked
  <2>5. ReadIsLatest'
    <3>1. \A b \in Appenders : apc'[b] = "read" => apc[b] = "read"
      BY <2>1, <1>2
    <3> QED BY <3>1, <2>1, <1>1, <1>4 DEF ReadIsLatest
  <2>6. OwnLogVerifies'
    BY <2>1, <1>1 DEF OwnLogVerifies
  <2> QED BY <1>4, <2>1, <2>3, <2>4, <2>5, <2>6 DEF AuditInv
<1>6. ASSUME NEW a \in Appenders, ReadLatest(a) PROVE AuditInv'
  <2>1. /\ apc[a] = "locked" /\ apc' = [apc EXCEPT ![a] = "read"]
        /\ rows' = rows /\ mu' = mu /\ event' = event /\ stored' = stored /\ sunk' = sunk
    BY <1>6 DEF ReadLatest
  <2>2. PICK fails \in {FALSE, ReadsFail} :
       /\ prev' = [prev EXCEPT ![a] = IF fails \/ rows = <<>> THEN Empty
                                      ELSE Last(rows).hash]
       /\ misread' = (misread \/ fails)
    BY <1>6 DEF ReadLatest
  <2>3. fails \in BOOLEAN
    BY ReadsFailAssumption
  <2>4. LatestHash \in Seq(Texts) /\ Empty \in Seq(Texts)
    <3>1. Empty \in Seq(Texts)
      BY DEF Empty
    <3>2. CASE rows # <<>>
      <4>1. rows[Len(rows)] \in Rows
        BY <1>2, <3>2
      <4> QED BY <4>1, <3>1, <3>2 DEF LatestHash, Last, Rows
    <3> QED BY <3>1, <3>2 DEF LatestHash
  <2>5. prev' = [prev EXCEPT ![a] = IF fails THEN Empty ELSE LatestHash]
    BY <2>2, <2>3 DEF LatestHash
  <2>6. AuditTypeOK'
    <3>1. prev' \in [Appenders -> Seq(Texts)]
      BY <2>4, <2>5, <1>2
    <3>2. misread' \in BOOLEAN
      BY <2>2
    <3> QED BY <2>1, <3>1, <3>2, <1>2 DEF AuditTypeOK
  <2>7. AppendsLocked'
    BY <2>1, <1>1, <1>2 DEF AppendsLocked
  <2>8. ReadIsLatest'
    <3> SUFFICES ASSUME NEW b \in Appenders, apc'[b] = "read", ~misread'
                 PROVE  prev'[b] = LatestHash
      BY <1>4, <2>1 DEF ReadIsLatest
    <3>1. ~misread /\ ~fails
      BY <2>2
    <3>2. CASE b = a
      BY <3>1, <3>2, <2>5, <1>2
    <3>3. CASE b # a
      BY <3>1, <3>3, <2>1, <2>5, <1>1, <1>2 DEF ReadIsLatest
    <3> QED BY <3>2, <3>3
  <2>9. OwnLogVerifies'
    BY <2>1, <2>2, <1>1 DEF OwnLogVerifies
  <2> QED BY <1>4, <2>1, <2>6, <2>7, <2>8, <2>9 DEF AuditInv
<1>7. ASSUME NEW a \in Appenders, Insert(a) PROVE AuditInv'
  <2>1. /\ apc[a] = "read" /\ apc' = [apc EXCEPT ![a] = "idle"]
        /\ rows' = Append(rows, ChainedRow(prev[a], event[a]))
        /\ mu' = NoOne /\ stored' = stored + 1
        /\ event' = event /\ prev' = prev /\ sunk' = sunk /\ misread' = misread
    BY <1>7 DEF Insert
  <2>2. prev[a] \in Seq(Texts) /\ event[a] \in Events
    BY <1>2
  <2>3. ChainedRow(prev[a], event[a]) \in Rows
    BY <2>2, ChainedRowType
  <2>4. /\ rows' \in Seq(Rows) /\ Len(rows') = Len(rows) + 1
        /\ rows'[Len(rows) + 1] = ChainedRow(prev[a], event[a])
        /\ \A i \in 1..Len(rows) : rows'[i] = rows[i]
    BY <2>1, <2>3, <1>2
  <2>5. AuditTypeOK'
    <3>1. stored' \in Nat /\ sunk' <= stored' /\ stored' <= Len(rows')
      BY <2>1, <2>4, <1>2, <1>3
    <3> QED BY <2>1, <2>4, <3>1, <1>2 DEF AuditTypeOK
  <2>6. \A b \in Appenders : apc'[b] = "idle"
    BY <2>1, <1>1, <1>2 DEF AppendsLocked
  <2>7. AppendsLocked' /\ ReadIsLatest'
    BY <2>1, <2>6, NoOneAssumption DEF AppendsLocked, ReadIsLatest
  <2>8. ChainedFromThere'
    <3>1. ChainedRow(prev[a], event[a]).hash # Empty
      <4>1. event[a].content \in Contents
        BY <2>2 DEF Events
      <4>2. chainHash(prev[a], event[a].content) # Empty
        BY <2>2, <4>1, ChainHashFacts
      <4>3. ChainedRow(prev[a], event[a]).hash = chainHash(prev[a], event[a].content)
        BY <2>2, ChainedRowType
      <4> QED BY <4>2, <4>3
    <3>2. Hashed(rows', Len(rows) + 1)
      BY <3>1, <2>4 DEF Hashed
    <3> SUFFICES ASSUME NEW i \in 1 .. Len(rows'), NEW j \in 1 .. Len(rows'),
                        i < j, Hashed(rows', i)
                 PROVE  Hashed(rows', j)
      BY Zenon DEF ChainedFromThere
    <3>3. CASE j = Len(rows) + 1
      BY <3>2, <3>3
    <3>4. CASE j # Len(rows) + 1
      <4>1. i \in 1..Len(rows) /\ j \in 1..Len(rows)
        BY <3>4, <2>4, <1>3
      <4>2. rows'[i] = rows[i] /\ rows'[j] = rows[j]
        BY <4>1, <2>4
      <4>3. Hashed(rows, i)
        BY <4>2 DEF Hashed
      <4>4. Hashed(rows, j)
        BY <4>1, <4>3, <1>1 DEF ChainedFromThere
      <4> QED BY <4>2, <4>4 DEF Hashed
    <3> QED BY <3>3, <3>4
  <2>9. OwnLogVerifies'
    <3>1. CASE misread
      BY <3>1, <2>1 DEF OwnLogVerifies
    <3>2. CASE ~misread
      <4>1. Verify(rows) /\ prev[a] = LatestHash
        BY <3>2, <2>1, <1>1 DEF OwnLogVerifies, ReadIsLatest
      <4>2. \A i, j \in 1 .. Len(rows) : (i < j /\ Hashed(rows, i)) => Hashed(rows, j)
        BY <1>1 DEF ChainedFromThere
      <4>3. prev[a] = IF rows = <<>> THEN Empty ELSE Last(rows).hash
        BY <4>1 DEF LatestHash
      <4>4. Verify(Append(rows, ChainedRow(prev[a], event[a])))
        BY <4>1, <4>2, <4>3, <2>2, <1>2, AppendVerifies
      <4> QED BY <4>4, <2>1 DEF OwnLogVerifies
    <3> QED BY <3>1, <3>2
  <2> QED BY <2>5, <2>7, <2>8, <2>9 DEF AuditInv
<1>8. ASSUME NEW a \in Appenders, InsertFails(a) PROVE AuditInv'
  <2>1. /\ apc[a] = "read" /\ apc' = [apc EXCEPT ![a] = "idle"] /\ mu' = NoOne
        /\ rows' = rows /\ event' = event /\ prev' = prev
        /\ stored' = stored /\ sunk' = sunk /\ misread' = misread
    BY <1>8 DEF InsertFails
  <2>2. \A b \in Appenders : apc'[b] = "idle"
    BY <2>1, <1>1, <1>2 DEF AppendsLocked
  <2>3. AuditTypeOK'
    BY <2>1, <1>2 DEF AuditTypeOK
  <2>4. AppendsLocked' /\ ReadIsLatest'
    BY <2>1, <2>2, NoOneAssumption DEF AppendsLocked, ReadIsLatest
  <2>5. OwnLogVerifies'
    BY <2>1, <1>1 DEF OwnLogVerifies
  <2> QED BY <1>4, <2>1, <2>3, <2>4, <2>5 DEF AuditInv
<1>9. CASE Sink
  <2>1. /\ sunk < stored /\ sunk' = sunk + 1
        /\ rows' = rows /\ mu' = mu /\ apc' = apc /\ event' = event /\ prev' = prev
        /\ stored' = stored /\ misread' = misread
    BY <1>9 DEF Sink
  <2>2. sunk' \in Nat /\ sunk' <= stored'
    BY <2>1, <1>2
  <2>3. AuditTypeOK'
    BY <2>1, <2>2, <1>2 DEF AuditTypeOK
  <2>4. AppendsLocked' /\ ReadIsLatest'
    BY <2>1, <1>1, <1>4 DEF AppendsLocked, ReadIsLatest
  <2>5. OwnLogVerifies'
    BY <2>1, <1>1 DEF OwnLogVerifies
  <2> QED BY <1>4, <2>1, <2>3, <2>4, <2>5 DEF AuditInv
<1>10. CASE UNCHANGED auditVars
  <2>1. /\ rows' = rows /\ mu' = mu /\ apc' = apc /\ event' = event /\ prev' = prev
        /\ stored' = stored /\ sunk' = sunk /\ misread' = misread
    BY <1>10 DEF auditVars
  <2>2. AuditTypeOK' /\ AppendsLocked' /\ ReadIsLatest' /\ OwnLogVerifies'
    BY <2>1, <1>1, <1>4 DEF AuditTypeOK, AppendsLocked, ReadIsLatest, OwnLogVerifies
  <2> QED BY <1>4, <2>1, <2>2 DEF AuditInv
<1> QED BY <1>5, <1>6, <1>7, <1>8, <1>9, <1>10 DEF AuditNext

\* The invariant holds throughout.
LEMMA AuditAlways == AuditSpec => []AuditInv
<1>1. AuditInit => AuditInv
  BY AuditInitInv
<1>2. AuditInv /\ [AuditNext]_auditVars => AuditInv'
  BY AuditStepInv
<1> QED BY <1>1, <1>2, PTL DEF AuditSpec

\* The types of Append's state, and that Sink is handed only stored rows.
THEOREM AuditTypeCorrect == AuditSpec => []AuditTypeOK
<1>1. AuditInv => AuditTypeOK
  BY DEF AuditInv
<1> QED BY <1>1, AuditAlways, PTL

\* The lock keeps the chain whole: a log nobody touched verifies unless a SELECT
\* of the latest hash has failed.
THEOREM LogVerifies == AuditSpec => []OwnLogVerifies
<1>1. AuditInv => OwnLogVerifies
  BY DEF AuditInv
<1> QED BY <1>1, AuditAlways, PTL

\* The rows of a log that verifies: each hash extends its row's prev_hash.
LEMMA RowFacts ==
  ASSUME NEW log \in Seq(Rows), Verify(log), NEW i \in 1 .. Len(log), Hashed(log, i)
  PROVE  /\ log[i].prev \in Seq(Texts) /\ log[i].hash \in Seq(Texts)
         /\ log[i].content \in Contents
         /\ log[i].hash = chainHash(log[i].prev, log[i].content)
         /\ PrevHash(log, i, log[i].prev)
         /\ Len(log[i].prev) \in Nat /\ Len(log[i].hash) \in Nat
         /\ Len(log[i].hash) = Len(log[i].prev) + 1
<1>1. log[i] \in Rows
  OBVIOUS
<1>2. log[i].prev \in Seq(Texts) /\ log[i].hash \in Seq(Texts) /\ log[i].content \in Contents
  BY <1>1 DEF Rows
<1>3. log[i].hash = chainHash(log[i].prev, log[i].content) /\ PrevHash(log, i, log[i].prev)
  BY Zenon DEF Verify
<1>4. Len(chainHash(log[i].prev, log[i].content)) = Len(log[i].prev) + 1
  BY <1>2, ChainHashFacts
<1> QED BY <1>2, <1>3, <1>4

\* The chain grows: in a log that verifies, a hashed row commits to more than
\* every hashed row before it.  By induction on the later of the two: it links
\* to the earlier row or to one between them.
LEMMA ChainGrows ==
  ASSUME NEW log \in Seq(Rows), Verify(log)
  PROVE  \A i, j \in 1 .. Len(log) :
           (i < j /\ Hashed(log, i) /\ Hashed(log, j)) => Len(log[i].hash) < Len(log[j].hash)
<1> DEFINE Bad == {j \in 1 .. Len(log) : Hashed(log, j) /\
                     \E i \in 1 .. j - 1 : Hashed(log, i) /\ ~(Len(log[i].hash) < Len(log[j].hash))}
<1>1. Len(log) \in Nat
  OBVIOUS
<1>2. ASSUME Bad # {} PROVE FALSE
  <2>1. Bad \in SUBSET Nat
    BY <1>1
  <2>2. PICK j \in Bad : \A n \in Bad : j <= n
    BY <1>2, <2>1, LeastNumber
  <2>3. PICK i \in 1 .. j - 1 : Hashed(log, i) /\ ~(Len(log[i].hash) < Len(log[j].hash))
    OBVIOUS
  <2>4. j \in 1 .. Len(log) /\ Hashed(log, j) /\ i \in 1 .. Len(log) /\ i < j /\ i \in Nat /\ j \in Nat
    BY <1>1
  <2>5. /\ PrevHash(log, j, log[j].prev) /\ Len(log[j].hash) = Len(log[j].prev) + 1
        /\ Len(log[j].prev) \in Nat
    BY <2>4, RowFacts
  <2>6. PICK k \in 1 .. j - 1 :
          /\ Hashed(log, k) /\ log[j].prev = log[k].hash
          /\ \A l \in k + 1 .. j - 1 : ~Hashed(log, l)
    BY <2>3, <2>5 DEF PrevHash
  <2>7. k \in 1 .. Len(log) /\ k < j /\ k \in Nat
    BY <2>4, <1>1
  <2>8. Len(log[k].hash) < Len(log[j].hash)
    BY <2>5, <2>6
  <2>9. i <= k
    BY <2>3, <2>4, <2>6, <2>7
  <2>10. Len(log[i].hash) \in Nat /\ Len(log[k].hash) \in Nat /\ Len(log[j].hash) \in Nat
    BY <2>3, <2>4, <2>6, <2>7, RowFacts
  <2>11. i < k
    BY <2>3, <2>8, <2>9, <2>4, <2>7
  <2>12. k \notin Bad
    BY <2>2, <2>4, <2>7
  <2>13. Len(log[i].hash) < Len(log[k].hash)
    BY <2>3, <2>6, <2>7, <2>11, <2>12, <2>4
  <2> QED BY <2>3, <2>8, <2>10, <2>13
<1> QED BY <1>1, <1>2

\* A row has at most one hash that Verify lets it link to.
LEMMA PrevHashUnique ==
  ASSUME NEW log, NEW i \in Nat, NEW g, NEW h, PrevHash(log, i, g), PrevHash(log, i, h)
  PROVE  g = h
<1>1. CASE \A k \in 1 .. i - 1 : ~Hashed(log, k)
  BY <1>1 DEF PrevHash
<1>2. CASE ~\A k \in 1 .. i - 1 : ~Hashed(log, k)
  <2>1. PICK j \in 1 .. i - 1 : Hashed(log, j) /\ g = log[j].hash
                               /\ \A k \in j + 1 .. i - 1 : ~Hashed(log, k)
    BY <1>2 DEF PrevHash
  <2>2. PICK l \in 1 .. i - 1 : Hashed(log, l) /\ h = log[l].hash
                               /\ \A k \in l + 1 .. i - 1 : ~Hashed(log, k)
    BY <1>2 DEF PrevHash
  <2>3. j = l
    BY <2>1, <2>2
  <2> QED BY <2>1, <2>2, <2>3
<1> QED BY <1>1, <1>2

\* A content with another text does not have the row's hash.
LEMMA EditDetected ==
  ASSUME NEW log \in Seq(Rows), Verify(log), NEW i \in 1 .. Len(log), Hashed(log, i),
         NEW c \in Contents, Text(c) # Text(log[i].content)
  PROVE  ~Verify(Edited(log, i, c))
<1> DEFINE new == Edited(log, i, c)
<1> SUFFICES ASSUME Verify(new) PROVE FALSE
  OBVIOUS
<1>1. log[i] \in Rows
  OBVIOUS
<1>2. Len(new) = Len(log) /\ new[i] = [log[i] EXCEPT !.content = c]
  BY DEF Edited
<1>3. new[i].hash = log[i].hash /\ new[i].prev = log[i].prev /\ new[i].content = c
  BY <1>1, <1>2 DEF Rows
<1> HIDE DEF new
<1>4. Hashed(new, i)
  BY <1>3 DEF Hashed
<1>5. new[i].hash = chainHash(new[i].prev, new[i].content)
  BY <1>2, <1>4 DEF Verify
<1>6. log[i].hash = chainHash(log[i].prev, c)
  BY <1>3, <1>5
<1>7. /\ log[i].hash = chainHash(log[i].prev, log[i].content)
      /\ log[i].prev \in Seq(Texts) /\ log[i].content \in Contents
  BY RowFacts
<1> QED BY <1>6, <1>7, ChainHashFacts

\* Of two rows that changed places the later one, now the earlier, commits to too
\* much for where it stands.
LEMMA SwapDetected ==
  ASSUME NEW log \in Seq(Rows), Verify(log),
         NEW i \in 1 .. Len(log), NEW j \in 1 .. Len(log), i < j,
         Hashed(log, i), Hashed(log, j)
  PROVE  ~Verify(Swapped(log, i, j))
<1> DEFINE new == Swapped(log, i, j)
<1> SUFFICES ASSUME Verify(new) PROVE FALSE
  OBVIOUS
<1>1. Len(log) \in Nat /\ i \in Nat /\ j \in Nat
  OBVIOUS
<1>2. Len(new) = Len(log) /\ new[i] = log[j] /\ \A k \in 1 .. i - 1 : new[k] = log[k]
  BY <1>1 DEF Swapped
<1> HIDE DEF new
<1>3. Hashed(new, i)
  BY <1>2 DEF Hashed
<1>4. PrevHash(new, i, log[j].prev)
  <2>1. PrevHash(new, i, new[i].prev)
    BY <1>2, <1>3 DEF Verify
  <2> QED BY <2>1, <1>2
<1>5. PrevHash(log, i, log[j].prev)
  BY <1>1, <1>2, <1>4, PrevHashOfPrefix
<1>6. PrevHash(log, i, log[i].prev)
  BY RowFacts
<1>7. log[i].prev = log[j].prev
  BY <1>1, <1>5, <1>6, PrevHashUnique
<1>8. Len(log[i].hash) = Len(log[i].prev) + 1 /\ Len(log[i].prev) \in Nat
  BY RowFacts
<1>9. Len(log[j].hash) = Len(log[j].prev) + 1
  BY RowFacts
<1>10. Len(log[i].hash) < Len(log[j].hash)
  BY ChainGrows
<1> QED BY <1>7, <1>8, <1>9, <1>10

\* The row after a deleted one still commits to it.
LEMMA DeletionDetected ==
  ASSUME NEW log \in Seq(Rows), Verify(log),
         \A i, j \in 1 .. Len(log) : (i < j /\ Hashed(log, i)) => Hashed(log, j),
         NEW i \in 1 .. Len(log) - 1, Hashed(log, i)
  PROVE  ~Verify(RemoveAt(log, i))
<1> DEFINE new == RemoveAt(log, i)
<1> SUFFICES ASSUME Verify(new) PROVE FALSE
  OBVIOUS
<1>1. /\ Len(log) \in Nat /\ i \in Nat /\ i \in 1 .. Len(log) /\ i + 1 \in 1 .. Len(log)
  OBVIOUS
<1>2. Len(new) = Len(log) - 1 /\ new[i] = log[i + 1] /\ \A k \in 1 .. i - 1 : new[k] = log[k]
  <2>1. /\ SubSeq(log, 1, i - 1) \in Seq(Rows) /\ Len(SubSeq(log, 1, i - 1)) = i - 1
        /\ \A k \in 1 .. i - 1 : SubSeq(log, 1, i - 1)[k] = log[k]
    BY <1>1
  <2>2. /\ SubSeq(log, i + 1, Len(log)) \in Seq(Rows)
        /\ Len(SubSeq(log, i + 1, Len(log))) = Len(log) - i
        /\ SubSeq(log, i + 1, Len(log))[1] = log[i + 1]
    BY <1>1
  <2>3. new = SubSeq(log, 1, i - 1) \o SubSeq(log, i + 1, Len(log))
    BY DEF RemoveAt
  <2> QED BY <2>1, <2>2, <2>3, <1>1
<1> HIDE DEF new
<1>3. Hashed(log, i + 1)
  BY <1>1
<1>4. Hashed(new, i)
  BY <1>2, <1>3 DEF Hashed
<1>5. PrevHash(new, i, log[i + 1].prev)
  <2>1. i \in 1 .. Len(new)
    BY <1>1, <1>2
  <2>2. PrevHash(new, i, new[i].prev)
    BY <2>1, <1>4 DEF Verify
  <2> QED BY <2>2, <1>2
<1>6. PrevHash(log, i, log[i + 1].prev)
  BY <1>1, <1>2, <1>5, PrevHashOfPrefix
<1>7. PrevHash(log, i, log[i].prev)
  BY <1>1, RowFacts
<1>8. log[i].prev = log[i + 1].prev
  BY <1>1, <1>6, <1>7, PrevHashUnique
<1>9. Len(log[i].hash) = Len(log[i].prev) + 1 /\ Len(log[i].prev) \in Nat
  BY <1>1, RowFacts
<1>10. Len(log[i + 1].hash) = Len(log[i + 1].prev) + 1
  BY <1>1, <1>3, RowFacts
<1>11. Len(log[i].hash) < Len(log[i + 1].hash)
  BY <1>1, <1>3, ChainGrows
<1> QED BY <1>8, <1>9, <1>10, <1>11

\* Verify notices every edit that changes a hashed text, every exchange of two hashed
\* rows and every deletion of a hashed row that is not the newest, in a log of
\* any length.
THEOREM TamperingIsDetected == AuditSpec => []TamperingDetected
<1>1. AuditInv => TamperingDetected
  <2> SUFFICES ASSUME AuditInv, Verify(rows)
               PROVE  /\ \A i \in DOMAIN rows, c \in Contents :
                           Hashed(rows, i) /\ Text(c) # Text(rows[i].content) => ~Verify(Edited(rows, i, c))
                      /\ \A i, j \in DOMAIN rows :
                           i < j /\ Hashed(rows, i) /\ Hashed(rows, j) => ~Verify(Swapped(rows, i, j))
                      /\ \A i \in 1 .. Len(rows) - 1 :
                           Hashed(rows, i) => ~Verify(RemoveAt(rows, i))
    BY DEF TamperingDetected
  <2>1. rows \in Seq(Rows)
    BY DEF AuditInv, AuditTypeOK
  <2>2. DOMAIN rows = 1 .. Len(rows)
    BY <2>1
  <2>3. \A i, j \in 1 .. Len(rows) : (i < j /\ Hashed(rows, i)) => Hashed(rows, j)
    BY DEF AuditInv, ChainedFromThere
  <2>4. \A i \in DOMAIN rows, c \in Contents :
          Hashed(rows, i) /\ Text(c) # Text(rows[i].content) => ~Verify(Edited(rows, i, c))
    BY <2>1, <2>2, EditDetected
  <2>5. \A i, j \in DOMAIN rows :
          i < j /\ Hashed(rows, i) /\ Hashed(rows, j) => ~Verify(Swapped(rows, i, j))
    BY <2>1, <2>2, SwapDetected
  <2>6. \A i \in 1 .. Len(rows) - 1 : Hashed(rows, i) => ~Verify(RemoveAt(rows, i))
    BY <2>1, <2>3, DeletionDetected
  <2> QED BY <2>4, <2>5, <2>6
<1> QED BY <1>1, AuditAlways, PTL

=============================================================================
